--------------------------- MODULE KeyboardProofs ----------------------------
(***************************************************************************)
(* Proofs about the keyboard (Keyboard.tla) for every size of the ring     *)
(* from 4 on, every set of scan codes and every set of inserted strings.   *)
(***************************************************************************)
EXTENDS Keyboard, NumberLemmas

------------------------------------------------------------------------------
\* Operators.

\* What the searches of a word erase find: the last element up to n, else 0.
LEMMA LastBelowIsLast ==
  ASSUME NEW S \in SUBSET Nat, 0 \notin S, NEW n \in Nat
  PROVE  /\ LastBelow(S, n) \in 0 .. n
         /\ LastBelow(S, n) # 0 => LastBelow(S, n) \in S
         /\ \A j \in S : j <= n => j <= LastBelow(S, n)
<1>1. CASE \E i \in S : i <= n
  <2> DEFINE T == {i \in S : i <= n}
             Last(i) == i <= n /\ \A j \in S : j <= n => j <= i
  <2>1. PICK m \in T : \A j \in T : j <= m
    <3>1. T \in SUBSET Nat /\ T # {} /\ \A j \in T : j <= n
      BY <1>1
    <3>2. QED
      BY <3>1, GreatestElement
  <2>2. \E i \in S : Last(i)
    BY <2>1
  <2>3. LastBelow(S, n) = CHOOSE i \in S : Last(i)
    BY <1>1 DEF LastBelow
  <2>4. LastBelow(S, n) \in S /\ Last(LastBelow(S, n))
    BY <2>2, <2>3
  <2> HIDE DEF T
  <2>5. LastBelow(S, n) \in Nat
    BY <2>4
  <2>6. QED
    BY <2>4, <2>5
<1>2. CASE ~ \E i \in S : i <= n
  BY <1>2 DEF LastBelow
<1>3. QED
  BY <1>1, <1>2

\* The three places a word erase finds in the text t, as WordEraseLength has them.
WordEnd(t) == LastBelow(Occupied(t), Len(t))
WordBefore(t) == LastBelow(1 .. Len(t) \ Occupied(t), WordEnd(t))
WordKept(t) == LastBelow(Occupied(t), WordBefore(t))

LEMMA WordPlaces ==
  ASSUME NEW n \in Nat, NEW t \in [1 .. n -> Chars]
  PROVE  /\ WordEnd(t) \in 0 .. n /\ \A i \in 1 .. n : t[i] # " " => i <= WordEnd(t)
         /\ WordBefore(t) \in 0 .. WordEnd(t)
         /\ WordBefore(t) # 0 => WordBefore(t) \in 1 .. n /\ t[WordBefore(t)] = " "
         /\ \A i \in 1 .. WordEnd(t) : t[i] = " " => i <= WordBefore(t)
         /\ WordKept(t) \in 0 .. WordBefore(t)
         /\ WordBefore(t) # 0 => WordKept(t) < WordBefore(t)
         /\ \A i \in 1 .. WordBefore(t) : t[i] # " " => i <= WordKept(t)
         /\ WordEnd(t) # 0 => t[WordEnd(t)] # " "
         /\ WordKept(t) # 0 => t[WordKept(t)] # " "
         /\ WordEraseLength(t) = IF WordBefore(t) = 0 THEN n ELSE n - WordKept(t) - 1
<1>1. t \in Seq(Chars) /\ Len(t) = n
  OBVIOUS
<1> DEFINE spaces == 1 .. Len(t) \ Occupied(t)
<1>2. /\ Occupied(t) \subseteq 1 .. n /\ spaces \subseteq 1 .. n
      /\ \A i \in 1 .. n : (i \in Occupied(t) <=> t[i] # " ") /\ (i \in spaces <=> t[i] = " ")
  BY <1>1 DEF Occupied
<1>3. 1 .. n \subseteq Nat /\ 0 \notin 1 .. n
  OBVIOUS
<1> DEFINE end == WordEnd(t)
           before == WordBefore(t)
           kept == WordKept(t)
<1>4. /\ end = LastBelow(Occupied(t), n)
      /\ before = LastBelow(spaces, end)
      /\ kept = LastBelow(Occupied(t), before)
      /\ WordEraseLength(t) = n - IF before = 0 THEN 0 ELSE kept + 1
  BY <1>1 DEF WordEraseLength, WordEnd, WordBefore, WordKept
<1> HIDE DEF spaces, end, before, kept
<1>5. /\ end \in 0 .. n /\ (end # 0 => end \in Occupied(t))
      /\ \A i \in Occupied(t) : i <= n => i <= end
  BY <1>2, <1>3, <1>4, LastBelowIsLast
<1>6. /\ before \in 0 .. end /\ (before # 0 => before \in spaces)
      /\ \A i \in spaces : i <= end => i <= before
  BY <1>2, <1>3, <1>4, <1>5, LastBelowIsLast
<1>7. /\ kept \in 0 .. before /\ (kept # 0 => kept \in Occupied(t))
      /\ \A i \in Occupied(t) : i <= before => i <= kept
  BY <1>2, <1>3, <1>4, <1>5, <1>6, LastBelowIsLast
<1>8. before # 0 => kept < before /\ before \in 1 .. n /\ t[before] = " "
  <2> SUFFICES ASSUME before # 0 PROVE kept < before /\ before \in 1 .. n /\ t[before] = " "
    OBVIOUS
  <2>1. before \in spaces /\ before \in 1 .. n
    BY <1>2, <1>6
  <2>2. t[before] = " " /\ before \notin Occupied(t)
    BY <1>2, <2>1
  <2>3. kept # before
    BY <1>7, <2>2
  <2>4. before \in Int /\ kept \in Int /\ kept <= before
    BY <1>5, <1>6, <1>7
  <2>5. kept < before
    BY <2>3, <2>4
  <2>6. QED
    BY <2>1, <2>2, <2>5
<1>9. /\ \A i \in 1 .. n : t[i] # " " => i <= end
      /\ \A i \in 1 .. end : t[i] = " " => i <= before
      /\ \A i \in 1 .. before : t[i] # " " => i <= kept
  <2>1. ASSUME NEW i \in 1 .. n, t[i] # " " PROVE i <= end
    <3>1. i \in Occupied(t)
      BY <2>1, <1>2
    <3>2. QED
      BY <3>1, <1>5
  <2>2. ASSUME NEW i \in 1 .. end, t[i] = " " PROVE i <= before
    <3>1. i \in 1 .. n /\ i <= end
      BY <1>5
    <3>2. i \in spaces
      BY <2>2, <3>1, <1>2
    <3>3. QED
      BY <3>1, <3>2, <1>6
  <2>3. ASSUME NEW i \in 1 .. before, t[i] # " " PROVE i <= kept
    <3>1. i \in 1 .. n /\ i <= before
      BY <1>5, <1>6
    <3>2. i \in Occupied(t)
      BY <2>3, <3>1, <1>2
    <3>3. QED
      BY <3>1, <3>2, <1>7
  <2>4. QED
    BY <2>1, <2>2, <2>3
<1>10. WordEraseLength(t) = IF before = 0 THEN n ELSE n - kept - 1
  BY <1>4, <1>5, <1>6, <1>7
<1>11. (end # 0 => t[end] # " ") /\ (kept # 0 => t[kept] # " ")
  BY <1>2, <1>5, <1>7
<1>12. QED
  BY <1>5, <1>6, <1>7, <1>8, <1>9, <1>10, <1>11 DEF end, before, kept

\* A word erase takes no more than there is.
LEMMA WordEraseBounded ==
  ASSUME NEW n \in Nat, NEW t \in [1 .. n -> Chars]
  PROVE  WordEraseLength(t) \in 0 .. n
<1> DEFINE before == WordBefore(t)
           kept == WordKept(t)
<1>1. /\ WordEnd(t) \in 0 .. n /\ before \in 0 .. WordEnd(t) /\ kept \in 0 .. before
      /\ before # 0 => kept < before
      /\ WordEraseLength(t) = IF before = 0 THEN n ELSE n - kept - 1
  BY WordPlaces
<1> HIDE DEF before, kept
<1>2. QED
  BY <1>1

\* What the handler sets out to erase fits half the ring.
LEMMA ClaimBounded ==
  ASSUME buffer \in [Cells -> Chars], buffer_head \in Int, buffer_head < BufSize
  PROVE  Claim = NoClaim \/ (Claim \in 0 .. BufSize /\ 2 * Claim <= BufSize)
<1> DEFINE t == [i \in 1 .. buffer_head |-> buffer[i - 1]]
           n == IF buffer_head < 0 THEN 0 ELSE buffer_head
<1>1. n \in Nat /\ n < BufSize /\ t \in [1 .. n -> Chars]
  BY KeyboardAssumption DEF Cells
<1>2. WordEraseLength(t) \in 0 .. n
  BY <1>1, WordEraseBounded
<1>3. Claim = NoClaim \/ (Claim = WordEraseLength(t) /\ 2 * WordEraseLength(t) <= BufSize)
  BY DEF Claim
<1>4. QED
  BY <1>1, <1>2, <1>3, KeyboardAssumption

KeysOK(k) == k \in [mods : SUBSET Modifiers, ext : BOOLEAN, cursor : SUBSET Cursors]

\* Modifiers and cursor keys stay what they are.
LEMMA KeysTyped ==
  ASSUME NEW s \in ScanCodes, KeysOK(ks)
  PROVE  KeysOK(special_key_press(ks, s))
<1>1. \A r \in Int : Pressed(r) \subseteq Cursors
  BY DEF Pressed, CursorKey, Cursors
<1>2. s \in Int
  BY KeyboardAssumption
<1>3. Pressed(s) \subseteq Cursors /\ Released(s) \subseteq Cursors
  BY <1>1, <1>2 DEF Released
<1>4. ModsPressed(s, ks.ext) \subseteq Modifiers
  BY DEF ModsPressed, Modifiers
<1>5. "caps" \in Modifiers
  BY DEF Modifiers
<1>6. QED
  BY <1>3, <1>4, <1>5 DEF special_key_press, KeysOK, EndsExt

------------------------------------------------------------------------------
\* The inductive invariant: the types; what a loop and an erase have found when they
\* began; indices inside the array until an erase has reached across its start; and
\* the text below the tail.
Begun == (pc = "erase" => buffer_tail >= 0) /\ (op = "insert" => at >= 1)
OnRing == ~ astray => buffer_head >= 0 /\ buffer_tail >= 0
Inv == TypeOK /\ Begun /\ OnRing /\ HistoryIsLine

\* A put stays in the array, and out of the text that was read.
LEMMA PutKeeps ==
  ASSUME Inv, NEW ch \in Chars, buffer_put_c(ch), UNCHANGED <<buffer_tail, line, astray>>
  PROVE  /\ buffer' \in [Cells -> Chars]
         /\ buffer_head' \in - MaxBelow .. BufSize - 1
         /\ OnRing' /\ HistoryIsLine'
<1> USE KeyboardAssumption
<1> DEFINE next == (buffer_head + 1) % BufSize
<1>1. /\ buffer \in [Cells -> Chars] /\ buffer_head \in Int /\ buffer_tail \in Int
      /\ buffer_head \in - MaxBelow .. BufSize - 1 /\ buffer_tail < BufSize
  BY DEF Inv, TypeOK
<1>2. next \in 0 .. BufSize - 1
  BY <1>1, Remainder
<1>3. buffer_head >= 0 => next = IF buffer_head = BufSize - 1 THEN 0 ELSE buffer_head + 1
  BY <1>1, Remainder
<1>4. CASE next = buffer_tail
  <2>1. UNCHANGED <<buffer, buffer_head>>
    BY <1>4 DEF buffer_put_c
  <2>2. QED
    BY <2>1, <1>1 DEF Inv, OnRing, HistoryIsLine
<1>5. CASE next # buffer_tail
  <2>1. /\ buffer' = IF buffer_head \in Cells THEN [buffer EXCEPT ![buffer_head] = ch] ELSE buffer
        /\ buffer_head' = next
    BY <1>5 DEF buffer_put_c
  <2> HIDE DEF next
  <2>2. buffer' \in [Cells -> Chars] /\ buffer_head' \in - MaxBelow .. BufSize - 1
    BY <2>1, <1>1, <1>2
  <2>3. OnRing'
    BY <2>1, <1>2 DEF Inv, OnRing
  <2>4. HistoryIsLine'
    <3> SUFFICES ASSUME ~ astray, next >= buffer_tail
                 PROVE  line = [i \in 1 .. buffer_tail |-> buffer'[i - 1]]
      BY <2>1 DEF HistoryIsLine
    <3>1. buffer_head >= 0 /\ buffer_tail >= 0
      BY DEF Inv, OnRing
    <3>2. buffer_head >= buffer_tail
      BY <3>1, <1>1, <1>3, <1>5
    <3>3. line = [i \in 1 .. buffer_tail |-> buffer[i - 1]]
      BY <3>2 DEF Inv, HistoryIsLine
    <3>4. \A i \in 1 .. buffer_tail : buffer'[i - 1] = buffer[i - 1]
      BY <3>1, <3>2, <2>1, <1>1 DEF Cells
    <3>5. QED
      BY <3>3, <3>4
  <2>5. QED
    BY <2>2, <2>3, <2>4
<1>6. QED
  BY <1>4, <1>5

LEMMA InitInv == Init => Inv
<1> SUFFICES ASSUME Init PROVE Inv
  OBVIOUS
<1>1. TypeOK
  <2>1. buffer \in [Cells -> Chars]
    BY DEF Init, Chars
  <2>2. ks \in [mods : SUBSET Modifiers, ext : BOOLEAN, cursor : SUBSET Cursors]
    BY DEF Init
  <2>3. /\ buffer_head \in - MaxBelow .. BufSize - 1 /\ buffer_tail \in -2 .. BufSize - 1
        /\ at \in Int /\ at < BufSize /\ want \in -1 .. BufSize
    BY KeyboardAssumption DEF Init, NoClaim
  <2>4. masked \in BOOLEAN /\ line \in Seq(Chars)
    BY DEF Init
  <2>5. QED
    BY <2>1, <2>2, <2>3, <2>4 DEF Init, TypeOK
<1>2. Begun /\ OnRing
  BY DEF Init, Begun, OnRing
<1>3. HistoryIsLine
  BY DEF Init, HistoryIsLine
<1>4. QED
  BY <1>1, <1>2, <1>3 DEF Inv

\* Steps that leave the ring and the reader's text alone.
LEMMA RingKept ==
  ASSUME Inv, UNCHANGED <<buffer, buffer_head, buffer_tail, line, astray>>
  PROVE  /\ buffer' \in [Cells -> Chars]
         /\ buffer_head' \in - MaxBelow .. BufSize - 1
         /\ OnRing' /\ HistoryIsLine'
  BY DEF Inv, TypeOK, OnRing, HistoryIsLine

LEMMA LoopEnds ==
  ASSUME EndLoop
  PROVE  /\ op' = "none" /\ at' \in Int /\ at' < BufSize
         /\ text' \in Inserts \cup {<<>>} /\ want' \in -1 .. BufSize
  BY KeyboardAssumption DEF EndLoop, NoClaim

LEMMA KeyIRQInv == ASSUME Inv, NEW s \in ScanCodes, KeyIRQ(s) PROVE Inv'
<1> DEFINE k == special_key_press(ks, s)
           uc == scs1_to_ascii(s, {"lshift", "rshift"} \cap k.mods # {}, "caps" \in k.mods)
<1>1. ks' \in [mods : SUBSET Modifiers, ext : BOOLEAN, cursor : SUBSET Cursors]
  BY KeysTyped DEF KeyIRQ, Inv, TypeOK, KeysOK
<1>2. uc \in Chars
  BY DEF scs1_to_ascii, Chars
<1>3. UNCHANGED <<buffer_tail, masked, pc, c, line, astray>>
  BY DEF KeyIRQ, reader
<1> HIDE DEF uc, k
<1>4. \/ op' = "spaces" /\ at' = buffer_head - 1 /\ want' = Claim /\ UNCHANGED <<buffer, buffer_head, text>>
      \/ buffer_put_c(uc) /\ UNCHANGED <<op, at, text, want>>
      \/ UNCHANGED <<buffer, buffer_head, op, at, text, want>>
  BY DEF KeyIRQ, loop, uc, k
<1>5. /\ buffer' \in [Cells -> Chars]
      /\ buffer_head' \in - MaxBelow .. BufSize - 1
      /\ OnRing' /\ HistoryIsLine'
  <2>1. CASE buffer_put_c(uc)
    BY <2>1, <1>2, <1>3, PutKeeps
  <2>2. CASE UNCHANGED <<buffer, buffer_head>>
    BY <2>2, <1>3, RingKept
  <2>3. QED
    BY <1>4, <2>1, <2>2
<1>6. /\ op' \in {"none", "spaces", "word", "before", "insert"}
      /\ at' \in Int /\ (op' = "insert" \/ at' < BufSize)
      /\ text' \in Inserts \cup {<<>>} /\ want' \in -1 .. BufSize
      /\ op' = "insert" => at' >= 1
  <2>1. buffer_head \in Int /\ buffer_head < BufSize /\ buffer \in [Cells -> Chars]
    BY KeyboardAssumption DEF Inv, TypeOK
  <2>2. Claim \in -1 .. BufSize
    BY <2>1, ClaimBounded, KeyboardAssumption DEF NoClaim
  <2>3. CASE op' = "spaces" /\ at' = buffer_head - 1 /\ want' = Claim /\ UNCHANGED text
    BY <2>1, <2>2, <2>3, KeyboardAssumption DEF Inv, TypeOK
  <2>4. CASE UNCHANGED <<op, at, text, want>>
    BY <2>4 DEF Inv, TypeOK, Begun
  <2>5. QED
    BY <1>4, <2>3, <2>4
<1>7. TypeOK'
  BY <1>1, <1>3, <1>5, <1>6 DEF Inv, TypeOK
<1>8. QED
  BY <1>3, <1>5, <1>6, <1>7 DEF Inv, Begun

LEMMA EraseLoopInv == ASSUME Inv, EraseLoop PROVE Inv'
<1>1. UNCHANGED <<buffer_tail, ks, masked, op, text, want, pc, c, line, astray>>
  BY DEF EraseLoop, reader
<1>2. /\ buffer' \in [Cells -> Chars]
      /\ buffer_head' \in - MaxBelow .. BufSize - 1
      /\ OnRing' /\ HistoryIsLine'
  <2>1. CASE buffer_put_c(BS)
    BY <2>1, <1>1, PutKeeps DEF Chars
  <2>2. CASE UNCHANGED <<buffer, buffer_head>>
    BY <2>2, <1>1, RingKept
  <2>3. QED
    BY <2>1, <2>2 DEF EraseLoop
<1>3. op # "insert" /\ at' = at - 1 /\ at' \in Int /\ at' < BufSize
  BY KeyboardAssumption DEF EraseLoop, Inv, TypeOK
<1>4. TypeOK'
  BY <1>1, <1>2, <1>3 DEF Inv, TypeOK
<1>5. QED
  BY <1>1, <1>2, <1>3, <1>4 DEF Inv, Begun

LEMMA EraseNextInv == ASSUME Inv, EraseNext PROVE Inv'
<1>1. UNCHANGED <<buffer, buffer_head, buffer_tail, ks, masked, pc, c, line, astray>>
  BY DEF EraseNext, reader
<1>2. /\ buffer' \in [Cells -> Chars]
      /\ buffer_head' \in - MaxBelow .. BufSize - 1
      /\ OnRing' /\ HistoryIsLine'
  BY <1>1, RingKept
<1>3. /\ op' \in {"none", "word", "before"}
      /\ at' \in Int /\ at' < BufSize
      /\ text' \in Inserts \cup {<<>>} /\ want' \in -1 .. BufSize
  <2>1. CASE EndLoop
    BY <2>1, LoopEnds
  <2>2. CASE op' \in {"word", "before"} /\ at' \in {at, at - 1} /\ UNCHANGED <<text, want>>
    BY <2>2, KeyboardAssumption DEF EraseNext, Inv, TypeOK
  <2>3. QED
    BY <2>1, <2>2 DEF EraseNext
<1>4. TypeOK'
  BY <1>1, <1>2, <1>3 DEF Inv, TypeOK
<1>5. QED
  BY <1>1, <1>2, <1>3, <1>4 DEF Inv, Begun

LEMMA StdinInv ==
  ASSUME Inv, stdin_clear \/ (\E s \in Inserts : stdin_insert(s)) \/ InsertLoop PROVE Inv'
<1>1. UNCHANGED <<buffer_tail, ks, masked, pc, c, line, astray>>
  BY DEF stdin_clear, stdin_insert, InsertLoop, reader
<1>2. CASE stdin_clear
  <2>1. buffer_put_c(CAN) /\ UNCHANGED <<op, at, text, want>>
    BY <1>2 DEF stdin_clear, loop
  <2>2. /\ buffer' \in [Cells -> Chars]
        /\ buffer_head' \in - MaxBelow .. BufSize - 1
        /\ OnRing' /\ HistoryIsLine'
    BY <1>1, <2>1, PutKeeps DEF Chars
  <2>3. QED
    BY <1>1, <2>1, <2>2 DEF Inv, TypeOK, Begun
<1>3. ASSUME NEW s \in Inserts, stdin_insert(s) PROVE Inv'
  <2>1. op' = "insert" /\ text' = s /\ at' = 1 /\ UNCHANGED <<buffer, buffer_head, want>>
    BY <1>3 DEF stdin_insert
  <2>2. /\ buffer' \in [Cells -> Chars]
        /\ buffer_head' \in - MaxBelow .. BufSize - 1
        /\ OnRing' /\ HistoryIsLine'
    BY <1>1, <2>1, RingKept
  <2>3. QED
    BY <1>1, <2>1, <2>2 DEF Inv, TypeOK, Begun
<1>4. CASE InsertLoop
  <2>1. CASE at <= Len(text) /\ buffer_put_c(text[at]) /\ at' = at + 1 /\ UNCHANGED <<op, text, want>>
    <3>1. text \in Seq(Chars)
      <4>1. text \in Inserts \/ text = <<>>
        BY DEF Inv, TypeOK
      <4>2. <<>> \in Seq(Chars)
        OBVIOUS
      <4>3. QED
        BY <4>1, <4>2, InsertsAssumption
    <3>2. at \in Int /\ at >= 1 /\ op = "insert"
      BY <1>4 DEF InsertLoop, Inv, TypeOK, Begun
    <3>3. text[at] \in Chars
      BY <2>1, <3>1, <3>2
    <3>4. /\ buffer' \in [Cells -> Chars]
          /\ buffer_head' \in - MaxBelow .. BufSize - 1
          /\ OnRing' /\ HistoryIsLine'
      BY <1>1, <2>1, <3>3, PutKeeps
    <3>5. at' \in Int /\ at' >= 1
      BY <2>1, <3>2
    <3>6. QED
      BY <1>1, <2>1, <3>2, <3>4, <3>5 DEF Inv, TypeOK, Begun
  <2>2. CASE EndLoop /\ UNCHANGED <<buffer, buffer_head>>
    <3>1. /\ buffer' \in [Cells -> Chars]
          /\ buffer_head' \in - MaxBelow .. BufSize - 1
          /\ OnRing' /\ HistoryIsLine'
      BY <1>1, <2>2, RingKept
    <3>2. /\ op' = "none" /\ at' \in Int /\ at' < BufSize
          /\ text' \in Inserts \cup {<<>>} /\ want' \in -1 .. BufSize
      BY <2>2, LoopEnds
    <3>3. TypeOK'
      BY <1>1, <3>1, <3>2 DEF Inv, TypeOK
    <3>4. QED
      BY <1>1, <3>1, <3>2, <3>3 DEF Inv, Begun
  <2>3. QED
    BY <1>4, <2>1, <2>2 DEF InsertLoop
<1>5. QED
  BY <1>2, <1>3, <1>4

\* buffer_get: the character goes from the front of the ring to the end of the text.
LEMMA GetCharInv == ASSUME Inv, GetChar PROVE Inv'
<1> USE KeyboardAssumption
<1>1. /\ buffer \in [Cells -> Chars] /\ line \in Seq(Chars)
      /\ buffer_head \in - MaxBelow .. BufSize - 1 /\ buffer_tail \in -2 .. BufSize - 1
  BY DEF Inv, TypeOK
<1>2. UNCHANGED <<buffer, buffer_head, ks, masked, op, at, text, want, astray>>
  BY DEF GetChar, loop
<1>3. c' \in Chars /\ (buffer_tail \in Cells => c' = buffer[buffer_tail])
  BY <1>1 DEF GetChar
<1>4. buffer_tail' = (buffer_tail + 1) % BufSize /\ buffer_tail' \in 0 .. BufSize - 1
  BY <1>1, Remainder DEF GetChar
<1>5. pc' \in {"erase", "mask"}
  BY DEF GetChar
<1>6. line' = IF buffer_tail' = 0 THEN <<>> ELSE Append(line, c')
  BY DEF GetChar
<1>7. line' \in Seq(Chars)
  BY <1>1, <1>3, <1>6
<1>8. TypeOK' /\ Begun' /\ OnRing'
  BY <1>1, <1>2, <1>3, <1>4, <1>5, <1>7 DEF Inv, TypeOK, Begun, OnRing
<1>9. HistoryIsLine'
  <2> SUFFICES ASSUME ~ astray, buffer_head >= buffer_tail'
               PROVE  line' = [i \in 1 .. buffer_tail' |-> buffer[i - 1]]
    BY <1>2 DEF HistoryIsLine
  <2>1. buffer_head >= 0 /\ buffer_tail >= 0 /\ buffer_head # buffer_tail
    BY DEF Inv, OnRing, GetChar
  <2>2. CASE buffer_tail = BufSize - 1
    <3>1. buffer_tail' = 0
      BY <2>2, <1>1, <1>4, Remainder
    <3>2. QED
      BY <3>1, <1>6
  <2>3. CASE buffer_tail # BufSize - 1
    <3>1. buffer_tail' = buffer_tail + 1
      BY <2>1, <2>3, <1>1, <1>4, Remainder
    <3>2. line = [i \in 1 .. buffer_tail |-> buffer[i - 1]]
      BY <2>1, <3>1, <1>1 DEF Inv, HistoryIsLine
    <3>3. line' = Append(line, buffer[buffer_tail])
      BY <1>1, <1>3, <1>6, <2>1, <3>1 DEF Cells
    <3>4. Len(line) = buffer_tail
      BY <3>2, <2>1, <1>1
    <3>5. /\ line' \in Seq(Chars) /\ Len(line') = buffer_tail + 1
          /\ \A i \in 1 .. buffer_tail : line'[i] = line[i]
          /\ line'[buffer_tail + 1] = buffer[buffer_tail]
      BY <1>1, <1>7, <2>1, <3>3, <3>4
    <3>6. \A i \in 1 .. buffer_tail + 1 : line'[i] = buffer[i - 1]
      BY <3>2, <3>5, <2>1, <1>1
    <3>7. line' = [i \in 1 .. Len(line') |-> line'[i]]
      BY <3>5
    <3>8. QED
      BY <3>1, <3>5, <3>6, <3>7
  <2>4. QED
    BY <2>2, <2>3
<1>10. QED
  BY <1>8, <1>9 DEF Inv

\* buffer_get after a BS: as long as the shift stays inside the array, it takes the BS
\* and the character before it off the end of the text.
LEMMA EraseInv == ASSUME Inv, Erase PROVE Inv'
<1> USE KeyboardAssumption
<1>1. /\ buffer \in [Cells -> Chars] /\ line \in Seq(Chars) /\ astray \in BOOLEAN
      /\ buffer_head \in - MaxBelow .. BufSize - 1 /\ buffer_tail \in 0 .. BufSize - 1
  BY DEF Inv, TypeOK, Begun, Erase
<1>2. UNCHANGED <<ks, masked, op, at, text, want, c>> /\ pc' = "mask"
  BY DEF Erase, loop
<1>3. /\ buffer_head' = buffer_head - 2 /\ buffer_head - 2 >= - MaxBelow
      /\ buffer_tail' = buffer_tail - 2 /\ buffer' = Shifted
      /\ astray' = (astray \/ buffer_tail < 2 \/ buffer_head < buffer_tail)
      /\ line' = SubSeq(line, 1, Len(line) - 2)
  BY DEF Erase
<1>31. ~ astray' => ~ astray /\ ~ (buffer_tail < 2) /\ ~ (buffer_head < buffer_tail)
  BY <1>3, Zenon
<1>4. buffer' \in [Cells -> Chars]
  BY <1>1, <1>3 DEF Shifted, Cells
<1>5. line' \in Seq(Chars)
  BY <1>1, <1>3
<1>6. TypeOK'
  BY <1>1, <1>2, <1>3, <1>4, <1>5 DEF Inv, TypeOK
<1>7. Begun' /\ OnRing'
  BY <1>1, <1>2, <1>3, <1>31 DEF Inv, Begun, OnRing
<1>8. HistoryIsLine'
  <2> SUFFICES ASSUME ~ astray, ~ (buffer_tail < 2), ~ (buffer_head < buffer_tail)
               PROVE  line' = [i \in 1 .. buffer_tail - 2 |-> buffer'[i - 1]]
    BY <1>1, <1>3, <1>31 DEF HistoryIsLine
  <2>1. line = [i \in 1 .. buffer_tail |-> buffer[i - 1]]
    BY <1>1 DEF Inv, HistoryIsLine
  <2>2. Len(line) = buffer_tail
    BY <2>1, <1>1
  <2>3. line' = [i \in 1 .. buffer_tail - 2 |-> line[i]]
    BY <2>2, <1>1, <1>3
  <2>4. \A i \in 1 .. buffer_tail - 2 : buffer'[i - 1] = buffer[i - 1]
    BY <1>1, <1>3 DEF Shifted, Cells
  <2>5. \A i \in 1 .. buffer_tail - 2 : line[i] = buffer[i - 1]
    BY <2>1, <1>1
  <2>6. QED
    BY <2>3, <2>4, <2>5
<1>9. QED
  BY <1>6, <1>7, <1>8 DEF Inv

LEMMA OtherReaderInv == ASSUME Inv, getchar \/ WakeUp \/ GetEmpty \/ Return PROVE Inv'
<1>1. UNCHANGED <<buffer, buffer_head, buffer_tail, op, at, text, want, line, astray>>
  BY DEF getchar, WakeUp, GetEmpty, Return, loop
<1>2. /\ buffer' \in [Cells -> Chars]
      /\ buffer_head' \in - MaxBelow .. BufSize - 1
      /\ OnRing' /\ HistoryIsLine'
  BY <1>1, RingKept
<1>3. pc' \in {"away", "spin", "get", "mask"} /\ masked' \in BOOLEAN
  BY DEF getchar, WakeUp, GetEmpty, Return, Inv, TypeOK
<1>4. /\ c' \in Chars \cup Cursors \cup {EOF}
      /\ ks' \in [mods : SUBSET Modifiers, ext : BOOLEAN, cursor : SUBSET Cursors]
  <2>1. CASE getchar \/ WakeUp \/ GetEmpty
    BY <2>1 DEF getchar, WakeUp, GetEmpty, Inv, TypeOK
  <2>2. CASE Return
    BY <2>2 DEF Return, Inv, TypeOK, FirstCursor, Cursors
  <2>3. QED
    BY <2>1, <2>2
<1>5. TypeOK'
  BY <1>1, <1>2, <1>3, <1>4 DEF Inv, TypeOK
<1>6. QED
  BY <1>1, <1>2, <1>3, <1>5 DEF Inv, Begun

LEMMA NextInv == Inv /\ [Next]_vars => Inv'
<1> SUFFICES ASSUME Inv, [Next]_vars PROVE Inv'
  OBVIOUS
<1>1. ASSUME NEW s \in ScanCodes, KeyIRQ(s) PROVE Inv'
  BY <1>1, KeyIRQInv
<1>2. CASE EraseLoop
  BY <1>2, EraseLoopInv
<1>3. CASE EraseNext
  BY <1>3, EraseNextInv
<1>4. CASE stdin_clear \/ (\E s \in Inserts : stdin_insert(s)) \/ InsertLoop
  BY <1>4, StdinInv
<1>5. CASE GetChar
  BY <1>5, GetCharInv
<1>6. CASE Erase
  BY <1>6, EraseInv
<1>7. CASE getchar \/ WakeUp \/ GetEmpty \/ Return
  BY <1>7, OtherReaderInv
<1>8. CASE UNCHANGED vars
  BY <1>8 DEF vars, loop, reader, Inv, TypeOK, Begun, OnRing, HistoryIsLine
<1>9. QED
  BY <1>1, <1>2, <1>3, <1>4, <1>5, <1>6, <1>7, <1>8 DEF Next, Loop, Reader

LEMMA SpecInv == Spec => []Inv
<1>1. QED
  BY InitInv, NextInv, PTL DEF Spec

\* The keyboard's state keeps its types: no interleaving of keys, calls and reader takes
\* the head out of the array at its end or below the bound, nor the tail more than two
\* below the array, where one erase after another would go on.
THEOREM KeyboardTypeOK == Spec => []TypeOK
<1>1. Inv => TypeOK
  BY DEF Inv
<1>2. QED
  BY <1>1, SpecInv, PTL

\* The cells below the tail are the text the reader has, with what Backspace took gone,
\* for every ring size: as long as no erase has reached across the start of the array
\* (io.c: "q w e r t y \b \b -> q w e r t \b").
THEOREM KeyboardHistoryIsLine == Spec => []HistoryIsLine
<1>1. Inv => HistoryIsLine
  BY DEF Inv
<1>2. QED
  BY <1>1, SpecInv, PTL

------------------------------------------------------------------------------
\* The refinement.  Ring is Pending for any contents b, head h and tail t.
Ring(b, h, t) == [k \in 1 .. (h - t) % BufSize |-> b[(t + k - 1) % BufSize]]
Size(h, t) == IF h >= t THEN h - t ELSE h - t + BufSize
Place(t, k) == IF t + k - 1 < BufSize THEN t + k - 1 ELSE t + k - 1 - BufSize

LEMMA RingIs ==
  ASSUME NEW b \in [Cells -> Chars], NEW h \in Cells, NEW t \in Cells
  PROVE  /\ Ring(b, h, t) \in Seq(Chars)
         /\ Len(Ring(b, h, t)) = Size(h, t)
         /\ Size(h, t) \in 0 .. BufSize - 1
         /\ \A k \in 1 .. Size(h, t) : Place(t, k) \in Cells /\ Ring(b, h, t)[k] = b[Place(t, k)]
<1> USE KeyboardAssumption
<1>1. h \in 0 .. BufSize - 1 /\ t \in 0 .. BufSize - 1
  BY DEF Cells
<1>2. (h - t) % BufSize = Size(h, t) /\ Size(h, t) \in 0 .. BufSize - 1
  BY <1>1, Remainder DEF Size
<1>3. \A k \in 1 .. Size(h, t) : (t + k - 1) % BufSize = Place(t, k) /\ Place(t, k) \in Cells
  <2> SUFFICES ASSUME NEW k \in 1 .. Size(h, t)
               PROVE  (t + k - 1) % BufSize = Place(t, k) /\ Place(t, k) \in Cells
    OBVIOUS
  <2>1. t + k - 1 \in Int /\ 0 <= t + k - 1 /\ t + k - 1 < 2 * BufSize
    BY <1>1, <1>2
  <2>2. QED
    BY <2>1, Remainder DEF Place, Cells
<1>4. Ring(b, h, t) = [k \in 1 .. Size(h, t) |-> b[Place(t, k)]]
  BY <1>2, <1>3 DEF Ring
<1>5. QED
  BY <1>2, <1>3, <1>4

\* A put that finds room appends.
LEMMA RingPut ==
  ASSUME NEW b \in [Cells -> Chars], NEW h \in Cells, NEW t \in Cells, NEW ch \in Chars,
         (h + 1) % BufSize # t
  PROVE  Ring([b EXCEPT ![h] = ch], (h + 1) % BufSize, t) = Append(Ring(b, h, t), ch)
<1> USE KeyboardAssumption
<1> DEFINE d == [b EXCEPT ![h] = ch]
           g == (h + 1) % BufSize
           n == Size(h, t)
<1>1. h \in 0 .. BufSize - 1 /\ t \in 0 .. BufSize - 1
  BY DEF Cells
<1>2. g \in Cells /\ g # t /\ g = IF h = BufSize - 1 THEN 0 ELSE h + 1
  BY <1>1, Remainder DEF Cells
<1> HIDE DEF g
<1>3. n \in Nat /\ Size(g, t) = n + 1 /\ Place(t, n + 1) = h
  BY <1>1, <1>2 DEF Size, Place
<1>4. \A k \in 1 .. n : Place(t, k) # h
  BY <1>1 DEF Size, Place
<1>5. /\ Ring(b, h, t) \in Seq(Chars) /\ Len(Ring(b, h, t)) = n
      /\ \A k \in 1 .. n : Place(t, k) \in Cells /\ Ring(b, h, t)[k] = b[Place(t, k)]
  BY RingIs
<1>6. /\ Ring(d, g, t) \in Seq(Chars) /\ Len(Ring(d, g, t)) = n + 1
      /\ \A k \in 1 .. n + 1 : Ring(d, g, t)[k] = d[Place(t, k)]
  <2>1. d \in [Cells -> Chars]
    OBVIOUS
  <2> HIDE DEF d, n
  <2>2. /\ Ring(d, g, t) \in Seq(Chars) /\ Len(Ring(d, g, t)) = Size(g, t)
        /\ \A k \in 1 .. Size(g, t) : Ring(d, g, t)[k] = d[Place(t, k)]
    <3>1. g \in Cells
      BY <1>2
    <3>2. QED
      BY <2>1, <3>1, RingIs, Zenon
  <2>3. QED
    BY <2>2, <1>3
<1>7. \A k \in 1 .. n + 1 : Ring(d, g, t)[k] = Append(Ring(b, h, t), ch)[k]
  <2> SUFFICES ASSUME NEW k \in 1 .. n + 1 PROVE Ring(d, g, t)[k] = Append(Ring(b, h, t), ch)[k]
    OBVIOUS
  <2>1. CASE k = n + 1
    <3>1. Ring(d, g, t)[k] = ch
      BY <2>1, <1>3, <1>6
    <3>2. QED
      BY <3>1, <2>1, <1>3, <1>5
  <2>2. CASE k \in 1 .. n
    <3>1. Ring(d, g, t)[k] = b[Place(t, k)]
      BY <2>2, <1>4, <1>5, <1>6
    <3>2. QED
      BY <3>1, <2>2, <1>3, <1>5
  <2>3. k = n + 1 \/ k \in 1 .. n
    BY <1>3
  <2>4. QED
    BY <2>1, <2>2, <2>3
<1>8. Append(Ring(b, h, t), ch) \in Seq(Chars) /\ Len(Append(Ring(b, h, t), ch)) = n + 1
  BY <1>3, <1>5
<1> HIDE DEF d, n
<1>9. Ring(d, g, t) = Append(Ring(b, h, t), ch)
  BY <1>3, <1>6, <1>7, <1>8
<1>10. QED
  BY <1>9 DEF d, g

\* A get takes the head off.
LEMMA RingGet ==
  ASSUME NEW b \in [Cells -> Chars], NEW h \in Cells, NEW t \in Cells, h # t
  PROVE  /\ Ring(b, h, t) # <<>> /\ Head(Ring(b, h, t)) = b[t]
         /\ Ring(b, h, (t + 1) % BufSize) = Tail(Ring(b, h, t))
<1> USE KeyboardAssumption
<1> DEFINE u == (t + 1) % BufSize
           n == Size(h, t)
<1>1. h \in 0 .. BufSize - 1 /\ t \in 0 .. BufSize - 1
  BY DEF Cells
<1>2. u \in Cells /\ u = IF t = BufSize - 1 THEN 0 ELSE t + 1
  BY <1>1, Remainder DEF Cells
<1> HIDE DEF u
<1>3. n \in Nat /\ n > 0 /\ Size(h, u) = n - 1 /\ Place(t, 1) = t
  BY <1>1, <1>2 DEF Size, Place
<1>4. \A k \in 1 .. n - 1 : Place(u, k) = Place(t, k + 1)
  BY <1>1, <1>2 DEF Size, Place
<1>5. /\ Ring(b, h, t) \in Seq(Chars) /\ Len(Ring(b, h, t)) = n
      /\ \A k \in 1 .. n : Ring(b, h, t)[k] = b[Place(t, k)]
  BY RingIs
<1>6. /\ Ring(b, h, u) \in Seq(Chars) /\ Len(Ring(b, h, u)) = n - 1
      /\ \A k \in 1 .. n - 1 : Ring(b, h, u)[k] = b[Place(u, k)]
  <2>1. /\ Ring(b, h, u) \in Seq(Chars) /\ Len(Ring(b, h, u)) = Size(h, u)
        /\ \A k \in 1 .. Size(h, u) : Ring(b, h, u)[k] = b[Place(u, k)]
    BY <1>2, RingIs
  <2> HIDE DEF n
  <2>2. QED
    BY <2>1, <1>3
<1> HIDE DEF n
<1>7. Ring(b, h, t) # <<>> /\ Head(Ring(b, h, t)) = b[t]
  BY <1>3, <1>5
<1>8. /\ Tail(Ring(b, h, t)) \in Seq(Chars) /\ Len(Tail(Ring(b, h, t))) = n - 1
      /\ \A k \in 1 .. n - 1 : Tail(Ring(b, h, t))[k] = Ring(b, h, t)[k + 1]
  BY <1>3, <1>5
<1>9. ASSUME NEW k \in 1 .. n - 1 PROVE Ring(b, h, u)[k] = Tail(Ring(b, h, t))[k]
  <2>1. k + 1 \in 1 .. n
    BY <1>3
  <2>2. Ring(b, h, u)[k] = b[Place(t, k + 1)]
    BY <1>4, <1>6
  <2>3. QED
    BY <2>1, <2>2, <1>5, <1>8
<1>10. Ring(b, h, u) = Tail(Ring(b, h, t))
  BY <1>3, <1>6, <1>8, <1>9
<1>11. QED
  BY <1>7, <1>10 DEF u

\* The shift of an erase moves what is pending and both indices by two.
LEMMA RingShift ==
  ASSUME buffer \in [Cells -> Chars], buffer_head \in Cells, buffer_tail \in Cells,
         buffer_tail >= 2, buffer_head >= buffer_tail
  PROVE  Ring(Shifted, buffer_head - 2, buffer_tail - 2) = Ring(buffer, buffer_head, buffer_tail)
<1> USE KeyboardAssumption
<1> DEFINE n == buffer_head - buffer_tail
           h == buffer_head - 2
           t == buffer_tail - 2
<1>1. buffer_head \in 0 .. BufSize - 1 /\ buffer_tail \in 0 .. BufSize - 1
  BY DEF Cells
<1>2. h \in Cells /\ t \in Cells /\ Shifted \in [Cells -> Chars]
  BY <1>1 DEF Cells, Shifted
<1>3. n \in Nat /\ Size(buffer_head, buffer_tail) = n /\ Size(h, t) = n
  BY <1>1 DEF Size
<1>4. \A k \in 1 .. n : Place(buffer_tail, k) = buffer_tail + k - 1 /\ Place(t, k) = buffer_tail + k - 3
  BY <1>1 DEF Place
<1>5. \A k \in 1 .. n : Shifted[buffer_tail + k - 3] = buffer[buffer_tail + k - 1]
  BY <1>1 DEF Shifted, Cells
<1>6. /\ Ring(buffer, buffer_head, buffer_tail) \in Seq(Chars)
      /\ Len(Ring(buffer, buffer_head, buffer_tail)) = n
      /\ \A k \in 1 .. n : Ring(buffer, buffer_head, buffer_tail)[k] = buffer[Place(buffer_tail, k)]
  BY <1>3, RingIs
<1> HIDE DEF h, t
<1>7. /\ Ring(Shifted, h, t) \in Seq(Chars) /\ Len(Ring(Shifted, h, t)) = n
      /\ \A k \in 1 .. n : Ring(Shifted, h, t)[k] = Shifted[Place(t, k)]
  <2>1. /\ Ring(Shifted, h, t) \in Seq(Chars) /\ Len(Ring(Shifted, h, t)) = Size(h, t)
        /\ \A k \in 1 .. Size(h, t) : Ring(Shifted, h, t)[k] = Shifted[Place(t, k)]
    BY <1>2, RingIs
  <2> HIDE DEF n
  <2>2. QED
    BY <2>1, <1>3
<1> HIDE DEF n
<1>8. \A k \in 1 .. n : Ring(Shifted, h, t)[k] = Ring(buffer, buffer_head, buffer_tail)[k]
  BY <1>4, <1>5, <1>6, <1>7
<1>9. Ring(Shifted, h, t) = Ring(buffer, buffer_head, buffer_tail)
  BY <1>3, <1>6, <1>7, <1>8
<1>10. QED
  BY <1>9 DEF h, t

Got == IF c \in Cursors THEN EOF ELSE c

LEMMA AppendIsPut ==
  ASSUME NEW q \in Seq(Chars), NEW ch \in Chars
  PROVE  LET r == Append(q, ch)
         IN  Len(r) \in 1 .. Len(r) /\ r = q \o SubSeq(r, Len(r), Len(r))
<1> DEFINE r == Append(q, ch)
           s == SubSeq(r, Len(r), Len(r))
<1>1. r \in Seq(Chars) /\ Len(r) = Len(q) + 1 /\ r[Len(q) + 1] = ch /\ \A i \in 1 .. Len(q) : r[i] = q[i]
  OBVIOUS
<1> HIDE DEF r
<1>2. s \in Seq(Chars) /\ Len(s) = 1 /\ s[1] = ch
  BY <1>1
<1> HIDE DEF s
<1>3. /\ q \o s \in Seq(Chars) /\ Len(q \o s) = Len(r)
      /\ \A i \in 1 .. Len(r) : (q \o s)[i] = r[i]
  <2>1. q \o s \in Seq(Chars) /\ Len(q \o s) = Len(q) + 1
    <3>1. s \in Seq(Chars)
      BY <1>2
    <3>2. q \o s \in Seq(Chars) /\ Len(q \o s) = Len(q) + Len(s)
      BY <3>1
    <3>3. QED
      BY <3>2, <1>2
  <2>2. ASSUME NEW i \in 1 .. Len(q) PROVE (q \o s)[i] = r[i]
    BY <1>1, <1>2
  <2>3. (q \o s)[Len(q) + 1] = ch
    <3>1. (q \o s)[Len(q) + 1] = s[1]
      BY <1>2
    <3>2. QED
      BY <3>1, <1>2
  <2>4. \A i \in 1 .. Len(q) + 1 : i \in 1 .. Len(q) \/ i = Len(q) + 1
    OBVIOUS
  <2>5. QED
    BY <1>1, <2>1, <2>2, <2>3, <2>4
<1>4. r = q \o s
  BY <1>1, <1>3
<1>5. QED
  BY <1>1, <1>4 DEF r, s

\* While nothing is astray the indices are cells.
LEMMA OnRingCells ==
  ASSUME Inv, ~ astray
  PROVE  buffer \in [Cells -> Chars] /\ buffer_head \in Cells /\ buffer_tail \in Cells
  BY KeyboardAssumption DEF Inv, OnRing, TypeOK, Cells

\* buffer_put_c puts into the queue, or drops the character.
LEMMA PutStep ==
  ASSUME Inv, ~ astray, NEW ch \in Chars, buffer_put_c(ch), UNCHANGED <<buffer_tail, c, astray>>
  PROVE  [Q!Next]_<<Pending, Got, astray>>
<1>1. Pending = Ring(buffer, buffer_head, buffer_tail) /\ Pending' = Ring(buffer', buffer_head', buffer_tail)
  BY DEF Pending, Ring
<1>2. Got' = Got
  BY DEF Got
<1>3. CASE (buffer_head + 1) % BufSize = buffer_tail
  BY <1>3, <1>2 DEF buffer_put_c, Pending
<1>4. CASE (buffer_head + 1) % BufSize # buffer_tail
  <2>1. buffer' = [buffer EXCEPT ![buffer_head] = ch] /\ buffer_head' = (buffer_head + 1) % BufSize
    BY <1>4, OnRingCells DEF buffer_put_c
  <2>2. Pending \in Seq(Chars) /\ Pending' = Append(Pending, ch)
    BY <1>1, <1>4, <2>1, OnRingCells, RingPut, RingIs
  <2>3. buffer' \in [Cells -> Chars] /\ buffer_head' \in Cells
    BY <2>1, OnRingCells, Remainder, KeyboardAssumption DEF Cells
  <2>4. Len(Pending') = Size(buffer_head', buffer_tail) /\ Size(buffer_head', buffer_tail) \in 0 .. BufSize - 1
    BY <1>1, <2>3, OnRingCells, RingIs
  <2>5. Len(Pending') <= BufSize - 1
    BY <2>4, KeyboardAssumption
  <2>6. \E i \in 1 .. Len(Pending') : Pending' = Pending \o SubSeq(Pending', i, Len(Pending'))
    BY <2>2, AppendIsPut
  <2>7. QED
    BY <2>5, <2>6, <1>2 DEF Q!Next, Q!Put, Got
<1>5. QED
  BY <1>3, <1>4

LEMMA GetCharStep ==
  ASSUME Inv, ~ astray, GetChar
  PROVE  [Q!Next]_<<Pending, Got, astray>>
<1>1. /\ buffer_head # buffer_tail /\ c' = buffer[buffer_tail]
      /\ buffer_tail' = (buffer_tail + 1) % BufSize /\ UNCHANGED <<buffer, buffer_head, astray>>
  BY OnRingCells DEF GetChar
<1>2. /\ Pending = Ring(buffer, buffer_head, buffer_tail)
      /\ Pending' = Ring(buffer, buffer_head, (buffer_tail + 1) % BufSize)
  BY <1>1 DEF Pending, Ring
<1>3. Pending # <<>> /\ Head(Pending) = c' /\ Pending' = Tail(Pending)
  BY <1>1, <1>2, OnRingCells, RingGet
<1>4. Got' = c'
  BY <1>1, OnRingCells DEF Got, Chars, Cursors, NUL, BS, CAN
<1>5. QED
  BY <1>1, <1>3, <1>4 DEF Q!Next, Q!Get, Got

\* An erase inside the array changes nothing of what is pending; one across its start
\* breaks the queue.
LEMMA EraseStep ==
  ASSUME Inv, ~ astray, Erase
  PROVE  [Q!Next]_<<Pending, Got, astray>>
<1>1. /\ buffer_head' = buffer_head - 2 /\ buffer_tail' = buffer_tail - 2
      /\ buffer' = Shifted /\ c' = c
      /\ astray' = (astray \/ buffer_tail < 2 \/ buffer_head < buffer_tail)
  BY DEF Erase
<1>2. CASE astray' = TRUE
  BY <1>2 DEF Q!Next, Q!Break
<1>3. CASE ~ astray'
  <2>1. ~ (buffer_tail < 2) /\ ~ (buffer_head < buffer_tail)
    BY <1>1, <1>3, Zenon
  <2>2. buffer_tail >= 2 /\ buffer_head >= buffer_tail
    BY <2>1, OnRingCells, KeyboardAssumption DEF Cells
  <2>3. /\ Pending = Ring(buffer, buffer_head, buffer_tail)
        /\ Pending' = Ring(Shifted, buffer_head - 2, buffer_tail - 2)
    BY <1>1 DEF Pending, Ring
  <2>4. Pending' = Pending
    BY <2>2, <2>3, OnRingCells, RingShift
  <2>5. astray' = FALSE /\ astray = FALSE
    BY <1>1, <1>3, Zenon DEF Inv, TypeOK
  <2>6. QED
    BY <1>1, <2>4, <2>5 DEF Got
<1>4. astray' \in BOOLEAN
  BY <1>1
<1>5. QED
  BY <1>2, <1>3, <1>4

LEMMA QueueStep ==
  ASSUME Inv, [Next]_vars
  PROVE  [Q!Next]_<<Pending, Got, astray>>
<1>1. CASE astray
  <2>1. astray' = TRUE
    BY <1>1, Zenon DEF Inv, TypeOK, Next, vars, loop, reader, Loop, Reader, KeyIRQ, stdin_clear, stdin_insert,
       getchar, EraseLoop, EraseNext, InsertLoop, WakeUp, GetEmpty, GetChar, Erase, Return
  <2>2. QED
    BY <2>1 DEF Q!Next, Q!Break
<1>2. CASE ~ astray
  <2>1. ASSUME NEW s \in ScanCodes, KeyIRQ(s) PROVE [Q!Next]_<<Pending, Got, astray>>
    <3> DEFINE k == special_key_press(ks, s)
               uc == scs1_to_ascii(s, {"lshift", "rshift"} \cap k.mods # {}, "caps" \in k.mods)
    <3>1. uc \in Chars
      BY DEF scs1_to_ascii, Chars
    <3> HIDE DEF uc, k
    <3>2. UNCHANGED <<buffer_tail, c, astray>> /\ (buffer_put_c(uc) \/ UNCHANGED <<buffer, buffer_head>>)
      BY <2>1 DEF KeyIRQ, reader, uc, k
    <3>3. QED
      BY <1>2, <3>1, <3>2, PutStep DEF Pending, Got
  <2>2. CASE stdin_clear
    BY <1>2, <2>2, PutStep DEF stdin_clear, reader, Chars
  <2>3. CASE InsertLoop
    <3>1. CASE at <= Len(text) /\ buffer_put_c(text[at])
      <4>1. text \in Inserts \/ text = <<>>
        BY DEF Inv, TypeOK
      <4>2. <<>> \in Seq(Chars)
        OBVIOUS
      <4>3. text \in Seq(Chars) /\ at \in 1 .. Len(text)
        BY <2>3, <3>1, <4>1, <4>2, InsertsAssumption DEF Inv, TypeOK, Begun, InsertLoop
      <4>4. text[at] \in Chars
        BY <4>3
      <4>5. QED
        BY <1>2, <2>3, <3>1, <4>4, PutStep DEF InsertLoop, reader
    <3>2. CASE UNCHANGED <<buffer, buffer_head>>
      BY <2>3, <3>2 DEF InsertLoop, reader, Pending, Got
    <3>3. QED
      BY <2>3, <3>1, <3>2 DEF InsertLoop
  <2>4. CASE EraseLoop
    <3>1. CASE buffer_put_c(BS)
      BY <1>2, <2>4, <3>1, PutStep DEF EraseLoop, reader, Chars
    <3>2. CASE UNCHANGED <<buffer, buffer_head>>
      BY <2>4, <3>2 DEF EraseLoop, reader, Pending, Got
    <3>3. QED
      BY <2>4, <3>1, <3>2 DEF EraseLoop
  <2>5. CASE GetChar
    BY <1>2, <2>5, GetCharStep
  <2>6. CASE Erase
    BY <1>2, <2>6, EraseStep
  <2>7. CASE GetEmpty
    <3>1. c' = EOF /\ UNCHANGED <<buffer, buffer_head, buffer_tail, astray>> /\ buffer_head = buffer_tail
      BY <2>7 DEF GetEmpty
    <3>2. Len(Pending) = 0 /\ Pending \in Seq(Chars)
      BY <1>2, <3>1, OnRingCells, RingIs, KeyboardAssumption DEF Pending, Ring, Size, Cells
    <3>3. Pending = <<>>
      BY <3>2
    <3>4. Pending' = Pending /\ Got' = EOF
      BY <3>1 DEF Pending, Got
    <3>5. QED
      BY <1>2, <3>1, <3>3, <3>4 DEF Q!Next, Q!GetEmpty, Got
  <2>8. CASE Return
    <3>1. UNCHANGED <<buffer, buffer_head, buffer_tail, astray>>
      BY <2>8 DEF Return
    <3>2. c' = c \/ (c = EOF /\ c' \in Cursors)
      BY <2>8 DEF Return, FirstCursor, Cursors
    <3>3. Got' = Got
      BY <3>2 DEF Got
    <3>4. QED
      BY <3>1, <3>3 DEF Pending
  <2>9. CASE (\E s \in Inserts : stdin_insert(s)) \/ getchar \/ EraseNext \/ WakeUp \/ UNCHANGED vars
    BY <2>9 DEF stdin_insert, getchar, EraseNext, WakeUp, vars, reader, Pending, Got
  <2>10. QED
    BY <2>1, <2>2, <2>3, <2>4, <2>5, <2>6, <2>7, <2>8, <2>9 DEF Next, Loop, Reader
<1>3. QED
  BY <1>1, <1>2

\* The handler's puts and the reader's gets are a bounded queue (CharQueue) for every
\* ring size and in every interleaving: nothing put is lost, doubled or reordered by
\* buffer_put_c, buffer_get and the erase that moves both indices, until an erase
\* reaches across the start of the array.
THEOREM KeyboardImplementsQueue == Spec => ImplementsQueue
<1>1. Init => Q!Init
  <2> SUFFICES ASSUME Init PROVE Q!Init
    OBVIOUS
  <2>1. Inv /\ ~ astray
    BY InitInv DEF Init
  <2>2. Len(Pending) = 0 /\ Pending \in Seq(Chars)
    BY <2>1, OnRingCells, RingIs, KeyboardAssumption DEF Init, Pending, Ring, Size, Cells
  <2>3. QED
    BY <2>2 DEF Init, Q!Init
<1>2. Inv /\ [Next]_vars => [Q!Next]_<<Pending, IF c \in Cursors THEN EOF ELSE c, astray>>
  BY QueueStep DEF Got
<1>3. QED
  BY <1>1, <1>2, SpecInv, PTL DEF Spec, ImplementsQueue, Q!Spec

------------------------------------------------------------------------------
\* The word erase.

\* How many BS the handler has put since it began, with nothing pending.
Put == Size(buffer_head, buffer_tail)

\* Where the three loops are.  The text before the tail is t, except where BSs that went
\* around the end of the ring have come to lie on it.  They can come before a loop only
\* when all has been put and half the ring is full: it then runs down over BSs alone.
Erasing(t) ==
  /\ want = WordEraseLength(t) /\ 2 * want <= BufSize /\ Put <= want
  /\ \A i \in 1 .. buffer_tail : ~ is_special_char(t[i])
  /\ \A k \in 1 .. Put : buffer[Place(buffer_tail, k)] = BS
  /\ \A i \in 0 .. buffer_tail - 1 : i >= buffer_tail + Put - BufSize => buffer[i] = t[i + 1]
  /\ \/ op = "spaces" /\ at = buffer_tail - 1 - Put /\ WordEnd(t) <= at + 1
     \/ op = "word" /\ at = buffer_tail - 1 - Put /\ WordBefore(t) <= at + 1 /\ at + 1 <= WordEnd(t)
     \/ /\ op = "before" /\ at = buffer_tail - 2 - Put
        /\ IF WordBefore(t) = 0 THEN Put = want ELSE WordKept(t) <= at + 1 /\ at + 1 < WordBefore(t)
     \/ op \in {"word", "before"} /\ Put = want /\ at < buffer_tail /\ \A i \in 0 .. at : buffer[i] = BS

WordErasing ==
  want # NoClaim =>
    /\ op \in {"spaces", "word", "before"}
    /\ \/ buffer_tail < 0 /\ buffer_head = buffer_tail /\ want = 0 /\ op = "spaces" /\ at < 0
       \/ /\ buffer_head \in Cells /\ buffer_tail \in Cells
          /\ \E t \in [1 .. buffer_tail -> Chars] : Erasing(t)

\* A put with room for it, by its place in the ring.
LEMMA PutPlace ==
  ASSUME buffer_head \in Cells, buffer_tail \in Cells, Put < BufSize - 1
  PROVE  LET next == (buffer_head + 1) % BufSize
         IN  /\ next \in Cells /\ next # buffer_tail
             /\ Put \in Nat /\ Size(next, buffer_tail) = Put + 1
             /\ buffer_head = IF buffer_tail + Put < BufSize THEN buffer_tail + Put
                              ELSE buffer_tail + Put - BufSize
             /\ Place(buffer_tail, Put + 1) = buffer_head
             /\ \A k \in 1 .. Put : Place(buffer_tail, k) # buffer_head
<1> USE KeyboardAssumption
<1> DEFINE next == (buffer_head + 1) % BufSize
<1>1. buffer_head \in 0 .. BufSize - 1 /\ buffer_tail \in 0 .. BufSize - 1
  BY DEF Cells
<1>2. next \in Cells /\ next = IF buffer_head = BufSize - 1 THEN 0 ELSE buffer_head + 1
  BY <1>1, Remainder DEF Cells
<1> HIDE DEF next
<1>3. next # buffer_tail /\ Put \in Nat /\ Size(next, buffer_tail) = Put + 1
  BY <1>1, <1>2 DEF Put, Size
<1>4. /\ buffer_head = IF buffer_tail + Put < BufSize THEN buffer_tail + Put ELSE buffer_tail + Put - BufSize
      /\ Place(buffer_tail, Put + 1) = buffer_head
      /\ \A k \in 1 .. Put : Place(buffer_tail, k) # buffer_head
  BY <1>1 DEF Put, Size, Place
<1>5. QED
  BY <1>2, <1>3, <1>4 DEF next

\* Where BSs have come to lie on the text.
LEMMA Overwritten ==
  ASSUME buffer_head \in Cells, buffer_tail \in Cells, NEW i \in Nat, i < buffer_tail + Put - BufSize,
         \A k \in 1 .. Put : buffer[Place(buffer_tail, k)] = BS
  PROVE  buffer[i] = BS
<1> DEFINE k == i + BufSize - buffer_tail + 1
<1>1. buffer_tail \in Int /\ buffer_tail < BufSize /\ Put \in Int /\ BufSize \in Int
  BY KeyboardAssumption DEF Cells, Put, Size
<1>2. k \in 1 .. Put /\ Place(buffer_tail, k) = i
  BY <1>1 DEF Place
<1>3. QED
  BY <1>2

\* One more BS for the word erase.
LEMMA ErasePut ==
  ASSUME buffer \in [Cells -> Chars], buffer_head \in Cells, buffer_tail \in Cells,
         NEW t \in [1 .. buffer_tail -> Chars], Erasing(t), Put < want,
         buffer_put_c(BS), UNCHANGED buffer_tail
  PROVE  /\ buffer_head' \in Cells /\ Put' = Put + 1
         /\ \A k \in 1 .. Put + 1 : buffer'[Place(buffer_tail, k)] = BS
         /\ \A i \in 0 .. buffer_tail - 1 : i >= buffer_tail + Put + 1 - BufSize => buffer'[i] = t[i + 1]
<1> USE KeyboardAssumption
<1>1. /\ buffer_tail \in 0 .. BufSize - 1 /\ Put \in 0 .. BufSize - 1
      /\ \A k \in 1 .. Put : Place(buffer_tail, k) \in Cells
  BY RingIs DEF Cells, Put
<1>2. Put < BufSize - 1 /\ want \in Int
  <2>1. WordEraseLength(t) \in 0 .. buffer_tail
    BY <1>1, WordEraseBounded
  <2>2. want \in Int /\ 2 * want <= BufSize
    BY <2>1, <1>1 DEF Erasing
  <2>3. QED
    BY <2>2, <1>1
<1> DEFINE next == (buffer_head + 1) % BufSize
<1>3. /\ next \in Cells /\ next # buffer_tail /\ Size(next, buffer_tail) = Put + 1
      /\ buffer_head = IF buffer_tail + Put < BufSize THEN buffer_tail + Put ELSE buffer_tail + Put - BufSize
      /\ Place(buffer_tail, Put + 1) = buffer_head
      /\ \A k \in 1 .. Put : Place(buffer_tail, k) # buffer_head
  BY <1>2, PutPlace
<1>4. buffer' = [buffer EXCEPT ![buffer_head] = BS] /\ buffer_head' = next
  BY <1>3 DEF buffer_put_c
<1> HIDE DEF next
<1>5. Put' = Put + 1
  BY <1>3, <1>4 DEF Put
<1>6. ASSUME NEW k \in 1 .. Put + 1 PROVE buffer'[Place(buffer_tail, k)] = BS
  <2>1. CASE k = Put + 1
    BY <2>1, <1>3, <1>4
  <2>2. CASE k \in 1 .. Put
    <3>1. buffer[Place(buffer_tail, k)] = BS
      BY <2>2 DEF Erasing
    <3>2. QED
      BY <3>1, <2>2, <1>1, <1>4
  <2>3. QED
    BY <2>1, <2>2, <1>1
<1>7. ASSUME NEW i \in 0 .. buffer_tail - 1, i >= buffer_tail + Put + 1 - BufSize PROVE buffer'[i] = t[i + 1]
  <2>1. i # buffer_head /\ i \in Cells /\ i >= buffer_tail + Put - BufSize
    BY <1>1, <1>3, <1>7 DEF Cells
  <2>2. buffer[i] = t[i + 1]
    BY <2>1 DEF Erasing
  <2>3. QED
    BY <2>1, <2>2, <1>4
<1>8. QED
  BY <1>3, <1>4, <1>5, <1>6, <1>7

\* What the loops find in the cell they are at.
LEMMA EraseReads ==
  ASSUME buffer_head \in Cells, buffer_tail \in Cells, NEW t \in [1 .. buffer_tail -> Chars], Erasing(t),
         at \in 0 .. buffer_tail - 1
  PROVE  \/ /\ at >= buffer_tail + Put - BufSize /\ buffer[at] = t[at + 1]
            /\ ~ is_special_char(buffer[at])
         \/ at < buffer_tail + Put - BufSize /\ \A i \in 0 .. at : buffer[i] = BS
<1>1. buffer_tail \in 0 .. BufSize - 1 /\ Put \in 0 .. BufSize - 1 /\ BufSize \in Nat
  BY KeyboardAssumption DEF Cells, Put, Size
<1>2. CASE at >= buffer_tail + Put - BufSize
  <2>1. buffer[at] = t[at + 1]
    BY <1>2 DEF Erasing
  <2>2. at + 1 \in 1 .. buffer_tail
    BY <1>1
  <2>3. ~ is_special_char(t[at + 1])
    BY <2>2 DEF Erasing
  <2>4. QED
    BY <1>2, <2>1, <2>3
<1>3. CASE at < buffer_tail + Put - BufSize
  <2>1. ASSUME NEW i \in 0 .. at PROVE buffer[i] = BS
    <3>1. i \in Nat /\ i < buffer_tail + Put - BufSize
      BY <1>1, <1>3
    <3>2. QED
      BY <3>1, Overwritten DEF Erasing
  <2>2. QED
    BY <1>3, <2>1
<1>4. QED
  BY <1>1, <1>2, <1>3

LEMMA EraseLoopWord == ASSUME Inv, WordErasing, EraseLoop PROVE WordErasing'
<1> USE KeyboardAssumption
<1> SUFFICES ASSUME want # NoClaim PROVE WordErasing'
  BY DEF EraseLoop, WordErasing
<1>1. /\ LoopGoesOn /\ at >= 0 /\ at' = at - 1 /\ UNCHANGED <<buffer_tail, op, want>>
      /\ op \in {"spaces", "word", "before"}
  BY DEF EraseLoop, LoopGoesOn
<1>2. at \in Int /\ buffer \in [Cells -> Chars]
  BY DEF Inv, TypeOK
<1>3. buffer_head \in Cells /\ buffer_tail \in Cells /\ \E t \in [1 .. buffer_tail -> Chars] : Erasing(t)
  BY <1>1, <1>2 DEF WordErasing
<1>4. PICK t \in [1 .. buffer_tail -> Chars] : Erasing(t)
  BY <1>3
<1> DEFINE n == buffer_tail
           j == Put
           end == WordEnd(t)
           before == WordBefore(t)
           kept == WordKept(t)
<1>5. n \in 0 .. BufSize - 1 /\ j \in 0 .. BufSize - 1
  BY <1>3 DEF Cells, Put, Size
<1>6. /\ end \in 0 .. n /\ \A i \in 1 .. n : t[i] # " " => i <= end
      /\ before \in 0 .. end
      /\ before # 0 => before \in 1 .. n /\ t[before] = " "
      /\ \A i \in 1 .. end : t[i] = " " => i <= before
      /\ kept \in 0 .. before
      /\ before # 0 => kept < before
      /\ \A i \in 1 .. before : t[i] # " " => i <= kept
      /\ end # 0 => t[end] # " "
      /\ kept # 0 => t[kept] # " "
      /\ want = IF before = 0 THEN n ELSE n - kept - 1
  <2>1. buffer_tail \in Nat /\ want = WordEraseLength(t)
    BY <1>4, <1>5 DEF Erasing
  <2>2. QED
    BY <2>1, WordPlaces
<1>7. /\ 2 * want <= BufSize /\ j <= want
      /\ \/ op = "spaces" /\ at = n - 1 - j /\ end <= at + 1
         \/ op = "word" /\ at = n - 1 - j /\ before <= at + 1 /\ at + 1 <= end
         \/ /\ op = "before" /\ at = n - 2 - j
            /\ IF before = 0 THEN j = want ELSE kept <= at + 1 /\ at + 1 < before
         \/ op \in {"word", "before"} /\ j = want /\ at < n /\ \A i \in 0 .. at : buffer[i] = BS
  BY <1>4 DEF Erasing
<1>8. at \in 0 .. n - 1
  BY <1>1, <1>2, <1>5, <1>7
<1>9. \/ at >= n + j - BufSize /\ buffer[at] = t[at + 1] /\ ~ is_special_char(buffer[at])
      \/ at < n + j - BufSize /\ \A i \in 0 .. at : buffer[i] = BS
  BY <1>3, <1>4, <1>8, EraseReads
<1>10. BS # " " /\ is_special_char(BS)
  BY DEF is_special_char, BS
<1> HIDE DEF n, j, end, before, kept
<1>11. /\ n \in Int /\ j \in Int /\ end \in Int /\ before \in Int /\ kept \in Int /\ want \in Int
       /\ 0 <= kept /\ kept <= before /\ before <= end /\ end <= n
       /\ before # 0 => kept < before
       /\ want = IF before = 0 THEN n ELSE n - kept - 1
  <2>1. end \in 0 .. n /\ before \in 0 .. end /\ kept \in 0 .. before
        /\ (before # 0 => kept < before) /\ want = IF before = 0 THEN n ELSE n - kept - 1
    BY <1>6
  <2>2. QED
    BY <2>1, <1>5
\* A BS is met: all has been put, and what is left of the text is BSs.
<1>12. CASE buffer[at] = BS
  <2>1. op = "word"
    <3>1. op = "word" <=> buffer[at] # " "
      BY <1>1 DEF LoopGoesOn
    <3>2. QED
      BY <3>1, <1>10, <1>12
  <2>2. UNCHANGED <<buffer, buffer_head>>
    BY <1>10, <1>12 DEF EraseLoop
  <2>3. at < n + j - BufSize /\ \A i \in 0 .. at : buffer[i] = BS
    BY <1>9, <1>10, <1>12
  <2>4. j = want
    <3>1. at = n - 1 - j \/ j = want
      BY <2>1, <1>7
    <3>2. CASE at = n - 1 - j
      <4>1. 2 * want <= BufSize /\ j <= want /\ at < n + j - BufSize
        BY <1>7, <2>3
      <4>2. QED
        BY <3>2, <4>1, <1>2, <1>11
    <3>3. QED
      BY <3>1, <3>2
  <2>5. \A i \in 0 .. at - 1 : buffer[i] = BS
    BY <1>2, <2>3
  <2>6. Erasing(t)'
    <3>1. Put' = Put
      BY <2>2, <1>1 DEF Put
    <3>2. at - 1 < buffer_tail /\ Put = want
      BY <1>2, <1>5, <1>8, <2>4 DEF n, j
    <3>3. QED
      BY <1>1, <1>4, <2>1, <2>2, <2>5, <3>1, <3>2 DEF Erasing
  <2>7. QED
    BY <1>1, <1>3, <2>2, <2>6 DEF WordErasing
\* A character of the text is met, and one more BS is put.
<1>13. CASE buffer[at] # BS
  <2>1. /\ at >= n + j - BufSize /\ buffer[at] = t[at + 1] /\ ~ is_special_char(buffer[at])
        /\ buffer_put_c(BS)
    <3>1. at >= n + j - BufSize /\ buffer[at] = t[at + 1] /\ ~ is_special_char(buffer[at])
      BY <1>8, <1>9, <1>13
    <3>2. QED
      BY <3>1 DEF EraseLoop
  <2>2. op = "word" <=> t[at + 1] # " "
    BY <1>1, <2>1 DEF LoopGoesOn
  <2>3. /\ end = at + 1 => op = "word"
        /\ before = at + 1 => op # "word"
        /\ kept = at + 1 => op = "word"
    <3>1. at + 1 # 0
      BY <1>8
    <3>2. /\ end = at + 1 => t[at + 1] # " "
          /\ before = at + 1 => t[at + 1] = " "
          /\ kept = at + 1 => t[at + 1] # " "
      BY <3>1, <1>6
    <3>3. QED
      BY <3>2, <2>2
  <2>4. \/ op = "spaces" /\ at = n - 1 - j /\ end <= at + 1
        \/ op = "word" /\ at = n - 1 - j /\ before <= at + 1 /\ at + 1 <= end
        \/ /\ op = "before" /\ at = n - 2 - j
           /\ IF before = 0 THEN j = want ELSE kept <= at + 1 /\ at + 1 < before
    <3>1. ~ \A i \in 0 .. at : buffer[i] = BS
      BY <1>8, <1>13
    <3>2. QED
      BY <3>1, <1>7
  <2>5. at >= 0 /\ at < n
    BY <1>5, <1>8
  <2>6. /\ j < want
        /\ \/ op = "spaces" /\ at - 1 = n - 1 - (j + 1) /\ end <= at
           \/ op = "word" /\ at - 1 = n - 1 - (j + 1) /\ before <= at /\ at <= end
           \/ /\ op = "before" /\ at - 1 = n - 2 - (j + 1)
              /\ IF before = 0 THEN j + 1 = want ELSE kept <= at /\ at < before
    <3>1. CASE op = "spaces"
      BY <3>1, <2>3, <2>4, <2>5, <1>2, <1>11
    <3>2. CASE op = "word"
      BY <3>2, <2>3, <2>4, <2>5, <1>2, <1>11
    <3>3. CASE op = "before"
      BY <3>3, <2>3, <2>4, <2>5, <1>2, <1>11
    <3>4. QED
      BY <3>1, <3>2, <3>3, <1>1
  <2>7. /\ buffer_head' \in Cells /\ Put' = Put + 1
        /\ \A k \in 1 .. Put + 1 : buffer'[Place(buffer_tail, k)] = BS
        /\ \A i \in 0 .. buffer_tail - 1 : i >= buffer_tail + Put + 1 - BufSize => buffer'[i] = t[i + 1]
    BY <1>1, <1>2, <1>3, <1>4, <2>1, <2>6, ErasePut DEF j
  <2>8. Put + 1 <= want /\ at' = at - 1 /\ at' + 1 = at
    BY <1>1, <1>2, <1>11, <2>6 DEF j
  <2>9. Erasing(t)'
    <3>1. /\ want' = WordEraseLength(t) /\ 2 * want' <= BufSize /\ Put' <= want'
          /\ \A i \in 1 .. buffer_tail' : ~ is_special_char(t[i])
      BY <1>1, <1>4, <2>7, <2>8 DEF Erasing
    <3>2. /\ \A k \in 1 .. Put' : buffer'[Place(buffer_tail', k)] = BS
          /\ \A i \in 0 .. buffer_tail' - 1 : i >= buffer_tail' + Put' - BufSize => buffer'[i] = t[i + 1]
      <4>1. Put' = Put + 1 /\ buffer_tail' = buffer_tail /\ buffer_tail \in Int /\ Put \in Int
        BY <1>1, <1>11, <2>7 DEF n, j
      <4>2. \A k \in 1 .. Put' : buffer'[Place(buffer_tail', k)] = BS
        BY <4>1, <2>7, Zenon
      <4>3. ASSUME NEW i \in 0 .. buffer_tail' - 1, i >= buffer_tail' + Put' - BufSize
            PROVE  buffer'[i] = t[i + 1]
        <5>1. i \in 0 .. buffer_tail - 1 /\ i >= buffer_tail + Put + 1 - BufSize
          BY <4>1, <4>3
        <5>2. QED
          BY <5>1, <2>7
      <4>4. QED
        BY <4>2, <4>3
    <3>3. \/ op' = "spaces" /\ at' = buffer_tail' - 1 - Put' /\ WordEnd(t) <= at' + 1
          \/ op' = "word" /\ at' = buffer_tail' - 1 - Put' /\ WordBefore(t) <= at' + 1 /\ at' + 1 <= WordEnd(t)
          \/ /\ op' = "before" /\ at' = buffer_tail' - 2 - Put'
             /\ IF WordBefore(t) = 0 THEN Put' = want' ELSE WordKept(t) <= at' + 1 /\ at' + 1 < WordBefore(t)
      BY <1>1, <2>6, <2>7, <2>8 DEF n, j, end, before, kept
    <3>4. QED
      BY <3>1, <3>2, <3>3 DEF Erasing
  <2>10. QED
    BY <1>1, <1>3, <2>7, <2>9 DEF WordErasing
<1>14. QED
  BY <1>12, <1>13

\* Between two loops; when the last one ends, all has been put.
LEMMA EraseNextWord ==
  ASSUME Inv, WordErasing, EraseNext, want # NoClaim, buffer_tail \in Cells
  PROVE  WordErasing' /\ (op' = "none" => Put = want)
<1> USE KeyboardAssumption
<1>1. /\ ~ LoopGoesOn /\ op \in {"spaces", "word", "before"}
      /\ UNCHANGED <<buffer, buffer_head, buffer_tail>>
      /\ \/ op = "spaces" /\ at >= 0 /\ op' = "word" /\ at' = at /\ want' = want
         \/ op = "word" /\ op' = "before" /\ at' = at - 1 /\ want' = want
         \/ (op = "before" \/ (op = "spaces" /\ at < 0)) /\ op' = "none" /\ want' = NoClaim
  BY DEF EraseNext, EndLoop
<1>2. at \in Int /\ (at >= 0 \/ at < 0) /\ ~ (at >= 0 /\ at < 0)
  <2>1. at \in Int
    BY DEF Inv, TypeOK
  <2>2. QED
    BY <2>1
<1>3. buffer_head \in Cells /\ \E t \in [1 .. buffer_tail -> Chars] : Erasing(t)
  BY DEF WordErasing, Cells
<1>4. PICK t \in [1 .. buffer_tail -> Chars] : Erasing(t)
  BY <1>3
<1> DEFINE n == buffer_tail
           j == Put
           end == WordEnd(t)
           before == WordBefore(t)
           kept == WordKept(t)
<1>5. n \in 0 .. BufSize - 1 /\ j \in 0 .. BufSize - 1
  BY <1>3 DEF Cells, Put, Size
<1>6. /\ end \in 0 .. n /\ \A i \in 1 .. n : t[i] # " " => i <= end
      /\ before \in 0 .. end
      /\ \A i \in 1 .. end : t[i] = " " => i <= before
      /\ kept \in 0 .. before
      /\ before # 0 => kept < before
      /\ \A i \in 1 .. before : t[i] # " " => i <= kept
      /\ want = IF before = 0 THEN n ELSE n - kept - 1
  <2>1. buffer_tail \in Nat /\ want = WordEraseLength(t)
    BY <1>4, <1>5 DEF Erasing
  <2>2. QED
    BY <2>1, WordPlaces
<1>7. /\ 2 * want <= BufSize /\ j <= want
      /\ \/ op = "spaces" /\ at = n - 1 - j /\ end <= at + 1
         \/ op = "word" /\ at = n - 1 - j /\ before <= at + 1 /\ at + 1 <= end
         \/ /\ op = "before" /\ at = n - 2 - j
            /\ IF before = 0 THEN j = want ELSE kept <= at + 1 /\ at + 1 < before
         \/ op \in {"word", "before"} /\ j = want /\ at < n /\ \A i \in 0 .. at : buffer[i] = BS
  BY <1>4 DEF Erasing
<1>8. Put' = Put /\ (Erasing(t)' => WordErasing' \/ op' = "none")
  BY <1>1, <1>3 DEF Put, WordErasing
<1>9. op' = "none" => WordErasing'
  BY <1>1 DEF WordErasing
<1>10. ~ (at >= 0 /\ (op = "word" <=> buffer[at] # " "))
  BY <1>1 DEF LoopGoesOn
<1>11. BS # " "
  BY DEF BS
<1>12. at >= 0 /\ at < n => \/ at >= n + j - BufSize /\ buffer[at] = t[at + 1]
                            \/ at < n + j - BufSize /\ \A i \in 0 .. at : buffer[i] = BS
  BY <1>2, <1>3, <1>4, <1>5, EraseReads
<1> HIDE DEF n, j, end, before, kept
<1>13. /\ n \in Int /\ j \in Int /\ end \in Int /\ before \in Int /\ kept \in Int /\ want \in Int
       /\ 0 <= n /\ 0 <= j /\ 0 <= kept /\ kept <= before /\ before <= end /\ end <= n
       /\ before # 0 => kept < before
       /\ want = IF before = 0 THEN n ELSE n - kept - 1
  <2>1. end \in 0 .. n /\ before \in 0 .. end /\ kept \in 0 .. before
        /\ (before # 0 => kept < before) /\ want = IF before = 0 THEN n ELSE n - kept - 1
    BY <1>6
  <2>2. QED
    BY <2>1, <1>5
<1>14. at < n
  BY <1>2, <1>7, <1>13
<1>15. at >= 0 => /\ buffer[at] = BS \/ buffer[at] = t[at + 1]
                  /\ t[at + 1] # " " => at + 1 <= end
                  /\ t[at + 1] = " " /\ at + 1 <= end => at + 1 <= before
                  /\ t[at + 1] # " " /\ at + 1 <= before => at + 1 <= kept
  <2> SUFFICES ASSUME at >= 0
               PROVE  /\ buffer[at] = BS \/ buffer[at] = t[at + 1]
                      /\ t[at + 1] # " " => at + 1 <= end
                      /\ t[at + 1] = " " /\ at + 1 <= end => at + 1 <= before
                      /\ t[at + 1] # " " /\ at + 1 <= before => at + 1 <= kept
    OBVIOUS
  <2>1. buffer[at] = BS \/ buffer[at] = t[at + 1]
    BY <1>2, <1>12, <1>14
  <2>2. at + 1 \in 1 .. n /\ (at + 1 <= end => at + 1 \in 1 .. end)
        /\ (at + 1 <= before => at + 1 \in 1 .. before)
    BY <1>2, <1>13, <1>14
  <2>3. t[at + 1] # " " => at + 1 <= end
    BY <2>2, <1>6
  <2>4. t[at + 1] = " " /\ at + 1 <= end => at + 1 <= before
    BY <2>2, <1>6
  <2>5. t[at + 1] # " " /\ at + 1 <= before => at + 1 <= kept
    BY <2>2, <1>6
  <2>6. QED
    BY <2>1, <2>3, <2>4, <2>5
\* What a loop finds overwritten, it finds after all has been put.
<1>16. at < n + j - BufSize /\ (at = n - 1 - j \/ (at = n - 2 - j /\ kept <= at + 1 /\ before # 0)) => j = want
  BY <1>2, <1>7, <1>13
<1>17. CASE op = "spaces" /\ at >= 0
  <2>1. at = n - 1 - j /\ end <= at + 1 /\ buffer[at] # " "
    BY <1>7, <1>10, <1>17
  <2>2. op' = "word" /\ at' = at /\ want' = want
    BY <1>1, <1>2, <1>17
  <2>3. CASE at >= n + j - BufSize
    <3>1. buffer[at] = t[at + 1]
      BY <1>2, <1>12, <1>13, <1>14, <1>17, <2>3
    <3>2. at + 1 <= end
      BY <3>1, <2>1, <1>15, <1>17
    <3>3. before <= at + 1
      <4>1. end <= at + 1
        BY <2>1
      <4>2. QED
        BY <4>1, <1>2, <1>13
    <3>4. QED
      BY <3>2, <3>3, <2>1, <2>2, <1>1, <1>4, <1>8 DEF Erasing, n, j, end, before
  <2>4. CASE at < n + j - BufSize
    <3>1. ~ (at >= n + j - BufSize)
      BY <1>2, <1>13, <2>4
    <3>2. j = want /\ \A i \in 0 .. at : buffer[i] = BS
      BY <3>1, <1>12, <1>14, <1>16, <1>17, <2>1, <2>4
    <3>3. QED
      BY <3>2, <2>2, <1>1, <1>4, <1>8, <1>14 DEF Erasing, n, j
  <2>5. QED
    BY <2>3, <2>4, <1>2, <1>13
<1>18. CASE op = "word"
  <2>1. op' = "before" /\ at' = at - 1 /\ want' = want /\ at' + 1 = at
    BY <1>1, <1>2, <1>18
  <2>2. at < 0 \/ buffer[at] = " "
    BY <1>2, <1>10, <1>18
  <2>3. CASE at = n - 1 - j /\ before <= at + 1 /\ at + 1 <= end
    <3>1. CASE at < 0
      <4>1. before = 0 /\ j = want /\ at - 1 = n - 2 - j
        BY <3>1, <2>3, <1>2, <1>13
      <4>2. QED
        BY <4>1, <2>1, <1>1, <1>4, <1>8 DEF Erasing, n, j, before
    <3>2. CASE at >= 0
      <4>1. buffer[at] = " "
        BY <1>2, <2>2, <3>2, Zenon
      <4>2. t[at + 1] = " "
        BY <4>1, <1>11, <1>15, <3>2
      <4>3. before = at + 1
        <5>1. at + 1 <= before
          BY <4>2, <1>15, <2>3, <3>2
        <5>2. QED
          BY <5>1, <1>2, <1>13, <2>3
      <4>4. before # 0 /\ kept <= at /\ at < before /\ at - 1 = n - 2 - j
        BY <4>3, <1>2, <1>13, <2>3, <3>2
      <4>5. QED
        BY <4>4, <2>1, <1>1, <1>4, <1>8 DEF Erasing, n, j, before, kept
    <3>3. QED
      BY <3>1, <3>2, <1>2
  <2>4. CASE j = want /\ \A i \in 0 .. at : buffer[i] = BS
    <3>1. at < 0
      <4>1. at >= 0 => at \in 0 .. at
        BY <1>2
      <4>2. QED
        BY <4>1, <1>2, <1>11, <2>2, <2>4, Zenon
    <3>2. at - 1 < n /\ 0 .. at - 1 = {}
      BY <1>2, <1>14, <1>13, <3>1
    <3>3. QED
      BY <3>2, <2>1, <2>4, <1>1, <1>4, <1>8 DEF Erasing, n, j
  <2>5. QED
    BY <1>7, <1>18, <2>3, <2>4
<1>19. CASE op = "before"
  <2>1. op' = "none" /\ (at < 0 \/ buffer[at] # " ")
    BY <1>1, <1>2, <1>10, <1>19
  <2>2. j = want
    <3>1. CASE at = n - 2 - j /\ before # 0 /\ kept <= at + 1 /\ at + 1 < before
      <4>1. CASE at < 0
        BY <4>1, <3>1, <1>2, <1>13
      <4>2. CASE at >= 0 /\ at >= n + j - BufSize
        <5>1. ~ (at < n + j - BufSize) /\ ~ (at < 0) /\ at + 1 <= before
          BY <4>2, <1>2, <1>13, <3>1
        <5>2. buffer[at] = t[at + 1] /\ buffer[at] # " "
          BY <5>1, <4>2, <1>12, <1>14, <2>1
        <5>3. at + 1 <= kept
          BY <5>1, <5>2, <1>15, <4>2
        <5>4. QED
          BY <5>3, <3>1, <1>2, <1>13
      <4>3. CASE at >= 0 /\ at < n + j - BufSize
        BY <4>3, <1>16, <3>1
      <4>4. QED
        BY <4>1, <4>2, <4>3, <1>2, <1>13
    <3>2. QED
      BY <3>1, <1>7, <1>19
  <2>3. QED
    BY <2>1, <2>2, <1>9 DEF j
<1>20. CASE op = "spaces" /\ at < 0
  <2>1. op' = "none" /\ at = n - 1 - j /\ end <= at + 1
    BY <1>1, <1>2, <1>7, <1>20
  <2>2. j = want
    BY <2>1, <1>2, <1>13, <1>20
  <2>3. QED
    BY <2>1, <2>2, <1>9 DEF j
<1>21. QED
  BY <1>1, <1>2, <1>17, <1>18, <1>19, <1>20

\* Ctrl+w with nothing pending starts the loops at the end of the text.
LEMMA KeyIRQWord == ASSUME Inv, WordErasing, NEW s \in ScanCodes, KeyIRQ(s) PROVE WordErasing'
<1> USE KeyboardAssumption
<1>1. op = "none" /\ want = NoClaim
  BY DEF KeyIRQ, WordErasing
<1>2. \/ want' = NoClaim
      \/ /\ op' = "spaces" /\ at' = buffer_head - 1 /\ want' = Claim
         /\ UNCHANGED <<buffer, buffer_head, buffer_tail>>
  BY <1>1 DEF KeyIRQ, loop
<1> SUFFICES ASSUME want' # NoClaim PROVE WordErasing'
  BY DEF WordErasing
<1>3. PICK t : t = [i \in 1 .. buffer_head |-> buffer[i - 1]]
  OBVIOUS
<1>4. /\ buffer_head = buffer_tail /\ want' = WordEraseLength(t) /\ 2 * WordEraseLength(t) <= BufSize
      /\ \A i \in 1 .. buffer_head : ~ is_special_char(t[i])
  BY <1>2, <1>3 DEF Claim
<1>5. /\ buffer \in [Cells -> Chars] /\ buffer_tail \in Int /\ buffer_tail < BufSize
      /\ at' = buffer_tail - 1
  BY <1>2, <1>4 DEF Inv, TypeOK
<1>6. CASE buffer_tail < 0
  <2>1. t \in [1 .. 0 -> Chars]
    BY <1>4, <1>5, <1>6, <1>3
  <2>2. want' \in 0 .. 0
    BY <2>1, <1>4, WordEraseBounded
  <2>3. want' = 0 /\ at' < 0
    BY <2>2, <1>5, <1>6
  <2>4. QED
    BY <2>3, <1>2, <1>4, <1>6 DEF WordErasing
<1>7. CASE buffer_tail >= 0
  <2>1. buffer_tail \in Cells /\ buffer_tail \in Nat /\ t \in [1 .. buffer_tail -> Chars]
    BY <1>4, <1>5, <1>7, <1>3 DEF Cells
  <2>2. /\ WordEnd(t) \in 0 .. buffer_tail
        /\ WordEraseLength(t) \in 0 .. buffer_tail
    BY <2>1, WordPlaces, WordEraseBounded
  <2>3. \A i \in 0 .. buffer_tail - 1 : buffer[i] = t[i + 1]
    BY <1>4, <1>5, <2>1, <1>3
  <2>4. Put' = 0
    BY <1>2, <1>4, <2>1 DEF Put, Size, Cells
  <2>5. Erasing(t)'
    <3>1. /\ want' = WordEraseLength(t) /\ 2 * want' <= BufSize /\ Put' <= want'
          /\ \A i \in 1 .. buffer_tail' : ~ is_special_char(t[i])
      BY <1>2, <1>4, <2>2, <2>4
    <3>2. \A k \in 1 .. Put' : buffer'[Place(buffer_tail', k)] = BS
      BY <2>4
    <3>3. \A i \in 0 .. buffer_tail' - 1 : i >= buffer_tail' + Put' - BufSize => buffer'[i] = t[i + 1]
      BY <1>2, <2>3
    <3>4. op' = "spaces" /\ at' = buffer_tail' - 1 - Put' /\ WordEnd(t) <= at' + 1
      BY <1>2, <1>4, <1>5, <2>1, <2>2, <2>4
    <3>5. QED
      BY <3>1, <3>2, <3>3, <3>4 DEF Erasing
  <2>6. QED
    BY <1>2, <1>4, <2>1, <2>5 DEF WordErasing
<1>8. QED
  BY <1>5, <1>6, <1>7

\* What is pending at the end, by its places in the ring.
LEMMA EraseNextExact ==
  ASSUME Inv, WordErasing, EraseNext, want # NoClaim
  PROVE  WordErasing' /\ (op' = "none" => Pending = [i \in 1 .. want |-> BS])
<1> USE KeyboardAssumption
<1>1. CASE buffer_tail \in Cells
  <2>1. WordErasing' /\ (op' = "none" => Put = want)
    BY <1>1, EraseNextWord
  <2>2. buffer_head \in Cells /\ \E t \in [1 .. buffer_tail -> Chars] : Erasing(t)
    BY <1>1 DEF WordErasing, Cells
  <2>3. \A k \in 1 .. Put : buffer[Place(buffer_tail, k)] = BS
    BY <2>2 DEF Erasing
  <2>4. /\ Pending \in Seq(Chars) /\ Len(Pending) = Put
        /\ \A k \in 1 .. Put : Pending[k] = buffer[Place(buffer_tail, k)]
    <3>1. Pending = Ring(buffer, buffer_head, buffer_tail) /\ buffer \in [Cells -> Chars]
      BY DEF Ring, Pending, Inv, TypeOK
    <3>2. QED
      BY <3>1, <1>1, <2>2, RingIs DEF Put
  <2>5. Pending = [k \in 1 .. Put |-> BS]
    BY <2>3, <2>4
  <2>6. QED
    BY <2>1, <2>5
<1>2. CASE buffer_tail \notin Cells
  <2>1. buffer_tail < 0 /\ buffer_head = buffer_tail /\ want = 0 /\ op = "spaces" /\ at < 0
    BY <1>2 DEF WordErasing
  <2>2. buffer_tail \in Int /\ at \in Int
    BY DEF Inv, TypeOK
  <2>3. want' = NoClaim
    BY <2>1, <2>2 DEF EraseNext, EndLoop
  <2>4. (buffer_head - buffer_tail) % BufSize = 0
    BY <2>1, <2>2
  <2>5. Pending = [i \in 1 .. want |-> BS]
    BY <2>1, <2>4 DEF Pending
  <2>6. QED
    BY <2>3, <2>5 DEF WordErasing
<1>3. QED
  BY <1>1, <1>2

LEMMA NextWord ==
  ASSUME Inv, WordErasing, [Next]_vars
  PROVE  WordErasing' /\ (want # NoClaim /\ op' = "none" => Pending = [i \in 1 .. want |-> BS] \/ UNCHANGED vars)
<1>1. CASE \E s \in ScanCodes : KeyIRQ(s)
  BY <1>1, KeyIRQWord DEF KeyIRQ, WordErasing
<1>2. CASE EraseLoop
  BY <1>2, EraseLoopWord DEF EraseLoop
<1>3. CASE EraseNext
  <2>1. CASE want # NoClaim
    BY <1>3, <2>1, EraseNextExact
  <2>2. CASE want = NoClaim
    BY <1>3, <2>2 DEF EraseNext, EndLoop, WordErasing
  <2>3. QED
    BY <2>1, <2>2
<1>4. CASE stdin_clear \/ (\E s \in Inserts : stdin_insert(s)) \/ getchar \/ InsertLoop \/ Reader
  <2>1. op \in {"none", "insert"} /\ (want' = want \/ want' = NoClaim)
    BY <1>4 DEF stdin_clear, stdin_insert, getchar, InsertLoop, EndLoop, Reader, WakeUp, GetEmpty, GetChar,
                Erase, Return, loop
  <2>2. want = NoClaim
    BY <2>1 DEF WordErasing
  <2>3. QED
    BY <2>1, <2>2 DEF WordErasing
<1>5. CASE UNCHANGED vars
  <2>1. UNCHANGED <<want, op, at, buffer, buffer_head, buffer_tail>>
    BY <1>5 DEF vars, loop
  <2>2. WordErasing'
    BY <2>1 DEF WordErasing, Erasing, Put
  <2>3. QED
    BY <1>5, <2>2
<1>6. QED
  BY <1>1, <1>2, <1>3, <1>4, <1>5 DEF Next, Loop

\* Ctrl+Backspace and Ctrl+w in buffer_put: with nothing pending and no special character
\* on the line, the three loops put exactly as many BSs as there are characters in the last
\* word, the spaces after it and all but one of the spaces before it, even where the BSs
\* they put come around the end of the ring onto the text they still have to read.
THEOREM KeyboardWordEraseExact == Spec => WordEraseExact
<1>1. Init => WordErasing
  BY DEF Init, WordErasing
<1>2. Inv /\ WordErasing /\ [Next]_vars =>
        WordErasing' /\ [want # NoClaim /\ op' = "none" => Pending = [i \in 1 .. want |-> BS]]_vars
  BY NextWord
<1>3. QED
  BY <1>1, <1>2, SpecInv, PTL DEF Spec, WordEraseExact
==============================================================================
