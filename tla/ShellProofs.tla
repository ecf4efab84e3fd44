------------------------------ MODULE ShellProofs ------------------------------
(***************************************************************************)
(* The history of the shell: Up and Down recall the commands in the order  *)
(* they were given, around the end of the ring of commands, for every size *)
(* of the ring, of a line and of its words.                                *)
(***************************************************************************)
EXTENDS Shell, NumberLemmas

\* The bytes a line, a word or the keyboard ring may hold.
Chars == Keys \cup {CAN, EOF, NUL, Junk, Blank}
Strings == Seq(Chars)
Argvs == Seq(Strings) \ {<<>>}

Typed ==
  /\ input \in Strings /\ left \in Strings
  /\ str \in [Cells -> Chars]
  /\ ci \in Slots /\ tci \in Slots
  /\ cache = [s \in Slots |-> cache[s]]
  /\ hist \in Seq(Argvs)
  /\ pc = "run" => hist # <<>>

\* Going back from the current slot the ring holds the last commands, the newest
\* first, and nothing before the first command.
Ring ==
  \A b \in 1 .. MAX_CMDS_CACHE :
    cache[(ci - b) % MAX_CMDS_CACHE] = IF b <= Len(hist) THEN hist[Len(hist) + 1 - b] ELSE NoArgv

Inv == Typed /\ (pc # "off" => Ring)

------------------------------------------------------------------------------
\* Strings.

\* strjoin of words is a string.
LEMMA JoinIsString == ASSUME NEW argv \in Argvs PROVE Join(argv) \in Strings
<1> DEFINE D == 1 .. Len(argv)
           Next1(f, n) == IF n = 1 THEN argv[1] ELSE f[n - 1] \o <<Blank>> \o argv[n]
           S == {n \in Nat : n < Len(argv) => \E h \in [1 .. n + 1 -> Strings] : \A k \in 1 .. n + 1 : h[k] = Next1(h, k)}
<1>1. argv \in Seq(Strings) /\ Len(argv) \in Nat /\ Len(argv) >= 1 /\ DOMAIN argv = D
  BY DEF Argvs
<1>2. ASSUME NEW k \in D PROVE argv[k] \in Strings
  BY <1>1
<1>3. ASSUME NEW s \in Strings, NEW u \in Strings PROVE s \o <<Blank>> \o u \in Strings
  <2>1. <<Blank>> \in Strings
    BY DEF Strings, Chars
  <2>2. QED
    BY <2>1 DEF Strings
<1>4. 0 \in S
  <2>1. LET h == [k \in 1 .. 1 |-> argv[1]] IN h \in [1 .. 0 + 1 -> Strings] /\ \A k \in 1 .. 0 + 1 : h[k] = Next1(h, k)
    BY <1>1, <1>2
  <2>2. QED
    BY <2>1
<1>5. ASSUME NEW n \in Nat, n \in S PROVE n + 1 \in S
  <2> SUFFICES ASSUME n + 1 < Len(argv)
               PROVE  \E h \in [1 .. (n + 1) + 1 -> Strings] : \A k \in 1 .. (n + 1) + 1 : h[k] = Next1(h, k)
    OBVIOUS
  <2>1. PICK h \in [1 .. n + 1 -> Strings] : \A k \in 1 .. n + 1 : h[k] = Next1(h, k)
    BY <1>1, <1>5
  <2> DEFINE g == [k \in 1 .. (n + 1) + 1 |-> IF k = n + 2 THEN h[n + 1] \o <<Blank>> \o argv[n + 2] ELSE h[k]]
  <2>2. h[n + 1] \in Strings /\ argv[n + 2] \in Strings
    BY <1>1, <1>2
  <2>3. g \in [1 .. (n + 1) + 1 -> Strings]
    BY <2>2, <1>3
  <2>4. ASSUME NEW k \in 1 .. (n + 1) + 1 PROVE g[k] = Next1(g, k)
    <3>1. CASE k = n + 2
      <4>1. g[k - 1] = h[n + 1] /\ k # 1
        BY <3>1
      <4>2. QED
        BY <4>1, <3>1
    <3>2. CASE k # n + 2
      <4>1. k \in 1 .. n + 1 /\ g[k] = h[k] /\ (k # 1 => g[k - 1] = h[k - 1])
        BY <3>2
      <4>2. QED
        BY <4>1, <2>1
    <3>3. QED
      BY <3>1, <3>2
  <2>5. QED
    BY <2>3, <2>4
<1>6. PICK h \in [D -> Strings] : \A k \in D : h[k] = Next1(h, k)
  <2>1. \A n \in Nat : n \in S
    <3> HIDE DEF S
    <3>1. QED
      BY <1>4, <1>5, SetInduction
  <2>2. Len(argv) - 1 \in Nat /\ (Len(argv) - 1) + 1 = Len(argv) /\ Len(argv) - 1 < Len(argv)
    BY <1>1
  <2>3. Len(argv) - 1 \in S
    <3> HIDE DEF S
    <3>1. QED
      BY <2>1, <2>2, Zenon
  <2>4. QED
    BY <2>2, <2>3
<1> DEFINE joined == CHOOSE f : f = [n \in DOMAIN argv |-> Next1(f, n)]
<1>7. joined = [n \in D |-> Next1(joined, n)]
  <2>1. h = [n \in DOMAIN argv |-> Next1(h, n)]
    BY <1>1, <1>6
  <2>2. QED
    BY <2>1, <1>1
<1>8. Join(argv) = joined[Len(argv)]
  BY DEF Join
<1> HIDE DEF joined
<1> DEFINE E == {n \in Nat : n < Len(argv) => joined[n + 1] = h[n + 1]}
<1>9. 0 \in E
  BY <1>1, <1>6, <1>7
<1>10. ASSUME NEW n \in Nat, n \in E PROVE n + 1 \in E
  <2> SUFFICES ASSUME n + 1 < Len(argv) PROVE joined[(n + 1) + 1] = h[(n + 1) + 1]
    OBVIOUS
  <2>1. n + 2 \in D /\ n + 2 # 1 /\ (n + 2) - 1 = n + 1 /\ (n + 1) + 1 = n + 2 /\ joined[n + 1] = h[n + 1]
    BY <1>1, <1>10
  <2>2. joined[n + 2] = Next1(joined, n + 2) /\ h[n + 2] = Next1(h, n + 2)
    BY <2>1, <1>6, <1>7
  <2>3. joined[n + 2] = h[n + 2]
    BY <2>1, <2>2
  <2>4. QED
    BY <2>1, <2>3
<1>11. Len(argv) - 1 \in E /\ (Len(argv) - 1) + 1 = Len(argv)
  <2> HIDE DEF E
  <2>1. \A n \in Nat : n \in E
    BY <1>9, <1>10, SetInduction
  <2>2. QED
    BY <2>1, <1>1
<1>12. QED
  BY <1>1, <1>6, <1>8, <1>11

\* A line ends at its first NUL, or with its buffer.
LEMMA TextIsString == ASSUME NEW s \in [Cells -> Chars] PROVE Text(s) \in Strings
<1>1. BUFFER_SIZE \in Nat
  BY ShellAssumption
<1> DEFINE Ended == {n \in 0 .. BUFFER_SIZE : n = BUFFER_SIZE \/ s[n] = NUL}
<1>2. PICK m \in Ended : \A n \in Ended : m <= n
  <2>1. Ended \in SUBSET Nat /\ BUFFER_SIZE \in Ended
    BY <1>1
  <2>2. QED
    BY <2>1, LeastElement
<1>3. ASSUME NEW k \in 0 .. m - 1 PROVE s[k] # NUL
  <2>1. m \in 0 .. BUFFER_SIZE /\ k \in 0 .. BUFFER_SIZE /\ ~ (m <= k)
    BY <1>1, <1>2
  <2>2. QED
    BY <2>1, <1>2
<1>4. strlen(s) \in 0 .. BUFFER_SIZE
  BY <1>2, <1>3 DEF strlen
<1>5. ASSUME NEW k \in 1 .. strlen(s) PROVE s[k - 1] \in Chars
  <2>1. k - 1 \in Cells
    BY <1>1, <1>4 DEF Cells
  <2>2. QED
    BY <2>1
<1>6. QED
  BY <1>4, <1>5 DEF Text, Strings

LEMMA FirstIs ==
  ASSUME NEW X, NEW s \in Seq(X), NEW n \in Nat
  PROVE  /\ First(s, n) \in Seq(X)
         /\ Len(s) <= n => First(s, n) = s
         /\ n > 0 /\ s # <<>> => First(s, n) # <<>>
<1> DEFINE m == IF n < Len(s) THEN n ELSE Len(s)
<1>1. Len(s) \in Nat /\ m \in 0 .. Len(s)
  OBVIOUS
<1>2. First(s, n) = SubSeq(s, 1, m)
  BY DEF First
<1>3. \A k \in 1 .. m : s[k] \in X
  BY <1>1
<1>4. SubSeq(s, 1, m) \in Seq(X) /\ Len(SubSeq(s, 1, m)) = m
  BY <1>1, <1>3
<1>5. Len(s) <= n => SubSeq(s, 1, m) = s
  BY <1>1
<1>6. s # <<>> => Len(s) > 0
  OBVIOUS
<1>7. QED
  BY <1>1, <1>2, <1>4, <1>5, <1>6

LEMMA PutIsString == ASSUME NEW q \in Strings, NEW s \in Strings PROVE Put(q, s) \in Strings
<1>1. BUFFER_SIZE - 1 \in Nat
  BY ShellAssumption
<1>2. q \o s \in Seq(Chars)
  BY DEF Strings
<1>3. QED
  BY <1>1, <1>2, FirstIs DEF Put, Strings

\* A word goes on to the next blank or to the end.
LEMMA WordIsString ==
  ASSUME NEW s \in Strings, NEW k \in 1 .. Len(s), s[k] # Blank
  PROVE  WordAt(s, k) \in Strings
<1>1. s \in Seq(Chars) /\ Len(s) \in Nat
  BY DEF Strings
<1> DEFINE Ended == {e \in k .. Len(s) : e = Len(s) \/ s[e + 1] = Blank}
<1>2. PICK m \in Ended : \A n \in Ended : m <= n
  <2>1. Ended \in SUBSET Nat /\ Len(s) \in Ended
    BY <1>1
  <2>2. QED
    BY <2>1, LeastElement
<1>3. ASSUME NEW j \in k .. m PROVE s[j] # Blank
  <2>1. CASE j = k
    BY <2>1
  <2>2. CASE j # k
    <3>1. m \in k .. Len(s) /\ j - 1 \in k .. Len(s) /\ ~ (m <= j - 1) /\ j - 1 # Len(s) /\ (j - 1) + 1 = j
      BY <1>1, <1>2, <2>2
    <3>2. QED
      BY <3>1, <1>2
  <2>3. QED
    BY <2>1, <2>2
<1> DEFINE end == CHOOSE e \in k .. Len(s) : /\ e = Len(s) \/ s[e + 1] = Blank
                                           /\ \A j \in k .. e : s[j] # Blank
<1>4. end \in k .. Len(s)
  BY <1>2, <1>3
<1>5. WordAt(s, k) = SubSeq(s, k, end)
  BY DEF WordAt
<1> HIDE DEF end
<1>6. QED
  BY <1>1, <1>4, <1>5 DEF Strings

\* strtok finds strings.
LEMMA WordsAreStrings == ASSUME NEW s \in Strings PROVE Words(s) \in Seq(Strings)
<1> DEFINE D == 0 .. Len(s)
           Next1(f, n) == IF n = 0 THEN <<>>
                          ELSE IF Starts(s, n) THEN Append(f[n - 1], WordAt(s, n)) ELSE f[n - 1]
           Lists == Seq(Strings)
           S == {n \in Nat : n <= Len(s) => \E h \in [0 .. n -> Lists] : \A k \in 0 .. n : h[k] = Next1(h, k)}
<1>1. Len(s) \in Nat
  BY DEF Strings
<1>2. ASSUME NEW l \in Lists, NEW k \in 1 .. Len(s), Starts(s, k)
      PROVE  Append(l, WordAt(s, k)) \in Lists
  <2>1. WordAt(s, k) \in Strings
    BY <1>2, WordIsString DEF Starts
  <2>2. QED
    BY <2>1
<1>3. <<>> \in Lists
  OBVIOUS
<1> HIDE DEF Lists
<1>4. 0 \in S
  <2>1. LET h == [k \in 0 .. 0 |-> <<>>] IN h \in [0 .. 0 -> Lists] /\ \A k \in 0 .. 0 : h[k] = Next1(h, k)
    BY <1>3
  <2>2. QED
    BY <2>1
<1>5. ASSUME NEW n \in Nat, n \in S PROVE n + 1 \in S
  <2> SUFFICES ASSUME n + 1 <= Len(s)
               PROVE  \E h \in [0 .. n + 1 -> Lists] : \A k \in 0 .. n + 1 : h[k] = Next1(h, k)
    OBVIOUS
  <2>1. PICK h \in [0 .. n -> Lists] : \A k \in 0 .. n : h[k] = Next1(h, k)
    BY <1>1, <1>5
  <2> DEFINE new == IF Starts(s, n + 1) THEN Append(h[n], WordAt(s, n + 1)) ELSE h[n]
             g == [k \in 0 .. n + 1 |-> IF k = n + 1 THEN new ELSE h[k]]
  <2>2. new \in Lists
    <3>1. h[n] \in Lists /\ n + 1 \in 1 .. Len(s)
      BY <1>1
    <3>2. QED
      BY <3>1, <1>2
  <2>3. g \in [0 .. n + 1 -> Lists]
    <3> HIDE DEF new
    <3>1. QED
      BY <2>2
  <2>4. ASSUME NEW k \in 0 .. n + 1 PROVE g[k] = Next1(g, k)
    <3>1. CASE k = n + 1
      <4>1. g[k - 1] = h[n] /\ k # 0 /\ g[k] = new
        BY <3>1
      <4>2. QED
        BY <4>1, <3>1
    <3>2. CASE k # n + 1
      <4>1. k \in 0 .. n /\ g[k] = h[k] /\ (k # 0 => g[k - 1] = h[k - 1])
        BY <3>2
      <4>2. QED
        BY <4>1, <2>1
    <3>3. QED
      BY <3>1, <3>2
  <2>5. QED
    BY <2>3, <2>4
<1>6. PICK h \in [D -> Lists] : \A k \in D : h[k] = Next1(h, k)
  <2>1. \A n \in Nat : n \in S
    <3> HIDE DEF S
    <3>1. QED
      BY <1>4, <1>5, SetInduction
  <2>2. Len(s) \in S
    <3> HIDE DEF S
    <3>1. QED
      BY <2>1, <1>1
  <2>3. Len(s) <= Len(s)
    BY <1>1
  <2>4. QED
    BY <2>2, <2>3
<1> DEFINE words == CHOOSE f : f = [n \in 0 .. Len(s) |-> Next1(f, n)]
<1>7. words = [n \in D |-> Next1(words, n)]
  <2>1. h = [n \in 0 .. Len(s) |-> Next1(h, n)]
    BY <1>6
  <2>2. QED
    BY <2>1
<1>8. Words(s) = <<>> \/ Words(s) = words[Len(s)]
  BY DEF Words
<1> HIDE DEF words
<1> DEFINE E == {n \in Nat : n <= Len(s) => words[n] = h[n]}
<1>9. 0 \in E
  BY <1>1, <1>6, <1>7
<1>10. ASSUME NEW n \in Nat, n \in E PROVE n + 1 \in E
  <2> SUFFICES ASSUME n + 1 <= Len(s) PROVE words[n + 1] = h[n + 1]
    OBVIOUS
  <2>1. n + 1 \in D /\ n + 1 # 0 /\ (n + 1) - 1 = n /\ words[n] = h[n]
    BY <1>1, <1>10
  <2>2. words[n + 1] = Next1(words, n + 1) /\ h[n + 1] = Next1(h, n + 1)
    BY <2>1, <1>6, <1>7
  <2>3. QED
    BY <2>1, <2>2
<1>11. Len(s) \in E
  <2> HIDE DEF E
  <2>1. \A n \in Nat : n \in E
    BY <1>9, <1>10, SetInduction
  <2>2. QED
    BY <2>1, <1>1
<1>12. QED
  BY <1>1, <1>3, <1>6, <1>8, <1>11 DEF Lists

\* What get_cmd keeps of the words are strings, as many as there are.
LEMMA ArgvIs ==
  ASSUME NEW words \in Seq(Strings), words # <<>>,
         NEW argv \in [DOMAIN words -> UNION {StoredWords(words[n]) : n \in DOMAIN words}]
  PROVE  argv \in Argvs
<1>1. Len(words) \in Nat /\ DOMAIN words = 1 .. Len(words) /\ Len(words) # 0
  OBVIOUS
<1>2. ARG_MAX - 1 \in Nat
  BY ShellAssumption
<1>3. ASSUME NEW n \in 1 .. Len(words) PROVE \A w \in StoredWords(words[n]) : w \in Strings
  <2>1. First(words[n], ARG_MAX - 1) \in Strings
    BY <1>1, <1>2, FirstIs DEF Strings
  <2>2. <<Junk>> \in Strings
    BY DEF Strings, Chars
  <2>3. First(words[n], ARG_MAX - 1) \o <<Junk>> \in Strings
    BY <2>1, <2>2 DEF Strings
  <2>4. QED
    BY <2>1, <2>3 DEF StoredWords
<1>4. argv \in [1 .. Len(words) -> Strings]
  BY <1>1, <1>3
<1>5. argv \in Seq(Strings) /\ Len(argv) = Len(words)
  BY <1>1, <1>4
<1>6. QED
  BY <1>1, <1>5 DEF Argvs

------------------------------------------------------------------------------
\* The invariant.

LEMMA InitInv == Init => Inv
<1> SUFFICES ASSUME Init PROVE Inv
  OBVIOUS
<1> USE ShellAssumption
<1>1. Typed
  <2>1. input \in Strings /\ left \in Strings /\ hist \in Seq(Argvs)
    BY DEF Init, Strings
  <2>2. str \in [Cells -> Chars]
    BY DEF Init, Empty, Chars
  <2>3. QED
    BY <2>1, <2>2 DEF Init, Typed, Slots
<1>2. Ring
  <2>1. ASSUME NEW b \in 1 .. MAX_CMDS_CACHE PROVE (ci - b) % MAX_CMDS_CACHE \in Slots
    BY Remainder DEF Slots, Init
  <2>2. QED
    BY <2>1 DEF Ring, Init
<1>3. QED
  BY <1>1, <1>2 DEF Inv

\* The slot of a command that is back commands old.
LEMMA SlotOf ==
  ASSUME NEW c \in Slots, NEW n \in Slots, n # c
  PROVE  /\ (c - n) % MAX_CMDS_CACHE \in 1 .. MAX_CMDS_CACHE
         /\ (c - ((c - n) % MAX_CMDS_CACHE)) % MAX_CMDS_CACHE = n
<1>1. MAX_CMDS_CACHE \in Nat /\ MAX_CMDS_CACHE > 0 /\ c \in 0 .. MAX_CMDS_CACHE - 1 /\ n \in 0 .. MAX_CMDS_CACHE - 1
  BY ShellAssumption DEF Slots
<1>2. CASE n < c
  <2>1. (c - n) % MAX_CMDS_CACHE = c - n
    BY <1>1, <1>2, Remainder
  <2>2. c - (c - n) = n /\ n % MAX_CMDS_CACHE = n
    BY <1>1, Remainder
  <2>3. QED
    BY <1>1, <1>2, <2>1, <2>2
<1>3. CASE n > c
  <2>1. (c - n) % MAX_CMDS_CACHE = c - n + MAX_CMDS_CACHE
    BY <1>1, <1>3, Remainder
  <2>2. c - (c - n + MAX_CMDS_CACHE) = n - MAX_CMDS_CACHE
    BY <1>1
  <2>3. (n - MAX_CMDS_CACHE) % MAX_CMDS_CACHE = n - MAX_CMDS_CACHE + MAX_CMDS_CACHE
    BY <1>1, Remainder
  <2>4. QED
    BY <1>1, <1>3, <2>1, <2>2, <2>3
<1>4. QED
  BY <1>1, <1>2, <1>3

\* A slot that is neither the current one nor empty holds a command, that many back.
LEMMA Recalled ==
  ASSUME Typed, Ring, NEW n \in Slots, n # ci, cache[n] # NoArgv
  PROVE  LET back == (ci - n) % MAX_CMDS_CACHE
         IN  back \in 1 .. Len(hist) /\ cache[n] = hist[Len(hist) + 1 - back] /\ cache[n] \in Argvs
<1> DEFINE back == (ci - n) % MAX_CMDS_CACHE
<1>1. back \in 1 .. MAX_CMDS_CACHE /\ (ci - back) % MAX_CMDS_CACHE = n
  BY SlotOf DEF Typed
<1> HIDE DEF back
<1>2. cache[n] = IF back <= Len(hist) THEN hist[Len(hist) + 1 - back] ELSE NoArgv
  BY <1>1 DEF Ring
<1>3. hist \in Seq(Argvs) /\ Len(hist) \in Nat /\ MAX_CMDS_CACHE \in Nat
  BY ShellAssumption DEF Typed
<1>4. back \in 1 .. Len(hist) /\ cache[n] = hist[Len(hist) + 1 - back]
  BY <1>1, <1>2, <1>3
<1>5. Len(hist) + 1 - back \in 1 .. Len(hist)
  BY <1>3, <1>4
<1>6. QED
  BY <1>3, <1>4, <1>5 DEF back

\* The command to run is the last one given.
LEMMA Current ==
  ASSUME Typed, Ring, pc = "run"
  PROVE  cache[(ci - 1) % MAX_CMDS_CACHE] \in Argvs
<1>1. hist \in Seq(Argvs) /\ Len(hist) \in Nat /\ Len(hist) # 0
  BY DEF Typed
<1>2. 1 \in 1 .. MAX_CMDS_CACHE
  BY ShellAssumption
<1>3. 1 <= Len(hist) /\ Len(hist) + 1 - 1 = Len(hist)
  BY <1>1
<1>4. cache[(ci - 1) % MAX_CMDS_CACHE] = hist[Len(hist)]
  BY <1>2, <1>3 DEF Ring
<1>5. QED
  BY <1>1, <1>4

\* A join into a block of malloc is a string.
LEMMA JoinedIsString ==
  ASSUME Typed, NEW dst \in Malloc, NEW argv \in Argvs
  PROVE  dst \in Strings /\ strjoin(dst, argv) = dst \o Join(argv) /\ strjoin(dst, argv) \in Strings
<1>1. dst \in Strings
  <2>1. <<>> \in Strings
    BY DEF Strings
  <2>2. left \in Strings
    BY DEF Typed
  <2>3. QED
    BY <2>1, <2>2 DEF Malloc
<1>2. Join(argv) \in Strings
  BY JoinIsString
<1>3. QED
  BY <1>1, <1>2 DEF strjoin, Strings

\* traverse_cache leaves strings in the ring of the keyboard and in the block.
LEMMA TraverseStep ==
  ASSUME Typed, Ring, NEW offset \in Int, traverse_cache(offset)
  PROVE  input' \in Strings /\ left' \in Strings /\ tci' \in Slots
<1> DEFINE n == (tci + offset) % MAX_CMDS_CACHE
<1>1. n \in Slots
  <2>1. tci + offset \in Int /\ MAX_CMDS_CACHE \in Nat /\ MAX_CMDS_CACHE > 0
    BY ShellAssumption DEF Slots, Typed
  <2>2. QED
    BY <2>1, Remainder DEF Slots
<1>2. CASE n = ci \/ cache[n] = NoArgv
  BY <1>2 DEF traverse_cache, Typed
<1>3. CASE ~ (n = ci \/ cache[n] = NoArgv)
  <2> HIDE DEF n
  <2>1. tci' = n /\ \E dst \in Malloc : left' = strjoin(dst, cache[n]) /\ input' = Put(Put(input, <<CAN>>), left')
    BY <1>3 DEF traverse_cache, n
  <2>2. cache[n] \in Argvs
    BY <1>1, <1>3, Recalled
  <2>3. left' \in Strings
    BY <2>1, <2>2, JoinedIsString
  <2>4. <<CAN>> \in Strings
    BY DEF Strings, Chars
  <2>5. Put(input, <<CAN>>) \in Strings
    BY <2>4, PutIsString DEF Typed
  <2>6. QED
    BY <1>1, <2>1, <2>3, <2>5, PutIsString
<1>4. QED
  BY <1>2, <1>3

\* The line stays a line, whatever character comes.
LEMMA LineStep ==
  ASSUME Typed, gets_s
  PROVE  str' \in [Cells -> Chars] /\ input' \in Strings /\ pc' # "run" /\ pc' # "off"
<1> DEFINE ch == Head(input)
<1>1. input \in Seq(Chars) /\ input # <<>> /\ input' = Tail(input) /\ pc = "read" /\ str \in [Cells -> Chars]
  BY DEF gets_s, Typed, Strings
<1>2. ch \in Chars /\ input' \in Strings
  BY <1>1 DEF Strings
<1>3. NUL \in Chars
  BY DEF Chars
<1>4. \/ Cancel
      \/ UNCHANGED <<t, str, i, tabbed, pc>>
      \/ Erase
      \/ Store(ch)
  BY DEF gets_s
<1> HIDE DEF ch
<1>5. CASE Cancel
  <2>1. str' = [k \in Cells |-> IF k < strlen(str) THEN NUL ELSE str[k]] /\ pc' = pc
    BY <1>5 DEF Cancel
  <2>2. QED
    BY <1>1, <1>2, <1>3, <2>1
<1>6. CASE UNCHANGED <<t, str, i, tabbed, pc>>
  BY <1>1, <1>2, <1>6
<1>7. CASE Erase
  <2>1. str' = [str EXCEPT ![i'] = NUL] /\ pc' = pc
    BY <1>7 DEF Erase
  <2>2. QED
    BY <1>1, <1>2, <1>3, <2>1
<1>8. CASE Store(ch)
  <2>1. \/ str' = [str EXCEPT ![i] = ch]
        \/ str' = str
        \/ str' = [k \in Cells |-> IF k >= i THEN NUL ELSE str[k]]
    BY <1>8 DEF Store, EndLine
  <2>2. pc' \in {"eof", "line", pc}
    BY <1>8 DEF Store
  <2>3. str' \in [Cells -> Chars]
    BY <1>1, <1>2, <1>3, <2>1
  <2>4. QED
    BY <1>1, <1>2, <2>2, <2>3
<1>9. QED
  BY <1>4, <1>5, <1>6, <1>7, <1>8

\* A command that is given goes to the current slot and becomes the newest.
LEMMA GivenStep ==
  ASSUME Typed, Ring, NEW argv \in Argvs,
         cache' = [cache EXCEPT ![ci] = argv], hist' = Append(hist, argv), ci' = (ci + 1) % MAX_CMDS_CACHE
  PROVE  Ring' /\ ci' \in Slots /\ hist' \in Seq(Argvs) /\ hist' # <<>> /\ cache' = [s \in Slots |-> cache'[s]]
<1>1. MAX_CMDS_CACHE \in Nat /\ MAX_CMDS_CACHE >= 2 /\ ci \in 0 .. MAX_CMDS_CACHE - 1
  BY ShellAssumption DEF Typed, Slots
<1>2. hist \in Seq(Argvs) /\ Len(hist) \in Nat
  BY DEF Typed
<1>3. hist' \in Seq(Argvs) /\ hist' # <<>> /\ Len(hist') = Len(hist) + 1
  BY <1>2
<1>4. ci' \in Slots /\ ci' = IF ci = MAX_CMDS_CACHE - 1 THEN 0 ELSE ci + 1
  BY <1>1, Remainder DEF Slots
<1>5. cache' = [s \in Slots |-> cache'[s]]
  BY DEF Typed
<1>6. ASSUME NEW b \in 1 .. MAX_CMDS_CACHE
      PROVE  cache'[(ci' - b) % MAX_CMDS_CACHE] = IF b <= Len(hist') THEN hist'[Len(hist') + 1 - b] ELSE NoArgv
  <2>1. CASE b = 1
    <3>1. (ci' - 1) % MAX_CMDS_CACHE = ci
      BY <1>1, <1>4, Remainder
    <3>2. cache'[ci] = argv
      BY <1>1 DEF Typed, Slots
    <3>3. 1 <= Len(hist') /\ Len(hist') + 1 - 1 = Len(hist) + 1 /\ hist'[Len(hist) + 1] = argv
      BY <1>2, <1>3
    <3>4. QED
      BY <2>1, <3>1, <3>2, <3>3
  <2>2. CASE b # 1
    <3> DEFINE c == b - 1
               s == (ci - c) % MAX_CMDS_CACHE
    <3>1. c \in 1 .. MAX_CMDS_CACHE /\ c < MAX_CMDS_CACHE
      BY <1>1, <2>2
    <3>2. (ci' - b) % MAX_CMDS_CACHE = s
      <4>1. CASE ci = MAX_CMDS_CACHE - 1
        <5>1. ci' - b = - b /\ - MAX_CMDS_CACHE <= - b /\ - b < 0
          BY <1>1, <1>4, <4>1
        <5>2. (- b) % MAX_CMDS_CACHE = - b + MAX_CMDS_CACHE
          BY <1>1, <5>1, Remainder
        <5>3. s = ci - c
          BY <1>1, <3>1, <4>1, Remainder
        <5>4. QED
          BY <1>1, <4>1, <5>1, <5>2, <5>3
      <4>2. CASE ci # MAX_CMDS_CACHE - 1
        <5>1. ci' - b = ci - c
          BY <1>1, <1>4, <4>2
        <5>2. QED
          BY <5>1
      <4>3. QED
        BY <4>1, <4>2
    <3>3. s \in Slots /\ s # ci
      <4>1. s \in Slots
        BY <1>1, <3>1, Remainder DEF Slots
      <4>2. ci - c >= 0 => s = ci - c
        BY <1>1, <3>1, Remainder
      <4>3. ci - c < 0 => s = ci - c + MAX_CMDS_CACHE
        BY <1>1, <3>1, Remainder
      <4> HIDE DEF s
      <4>4. QED
        BY <1>1, <3>1, <4>1, <4>2, <4>3
    <3>4. cache[s] = IF c <= Len(hist) THEN hist[Len(hist) + 1 - c] ELSE NoArgv
      BY <3>1 DEF Ring
    <3> HIDE DEF s
    <3>5. cache'[s] = cache[s]
      BY <3>3 DEF Typed
    <3>6. c <= Len(hist) <=> b <= Len(hist')
      BY <1>2, <1>3
    <3>7. c <= Len(hist) => hist'[Len(hist') + 1 - b] = hist[Len(hist) + 1 - c]
      BY <1>2, <1>3, <3>1
    <3>8. QED
      BY <3>2, <3>4, <3>5, <3>6, <3>7
  <2>3. QED
    BY <2>1, <2>2
<1>7. QED
  BY <1>3, <1>4, <1>5, <1>6 DEF Ring

\* Steps that leave the history and the slots alone.
LEMMA KeepsRing ==
  ASSUME Typed, Ring, UNCHANGED <<cache, ci, hist>>
  PROVE  Ring'
BY DEF Ring

LEMMA InvStep == ASSUME Inv, [Next]_vars PROVE Inv'
<1>1. Typed /\ (pc # "off" => Ring)
  BY DEF Inv
<1>2. CASE UNCHANGED vars
  BY <1>2, <1>1 DEF vars, tty, ghosts, Inv, Typed, Ring
<1>3. ASSUME NEW ch \in Keys, Type(ch) PROVE Inv'
  <2>1. pc = "read" /\ input' = Put(input, <<ch>>) /\ UNCHANGED <<t, tty, pc, str, i, left, ghosts>>
    BY <1>3 DEF Type
  <2>2. <<ch>> \in Strings
    BY DEF Strings, Chars
  <2>3. input' \in Strings
    BY <1>1, <2>1, <2>2, PutIsString DEF Typed
  <2>4. QED
    BY <1>1, <2>1, <2>3, KeepsRing DEF Inv, Typed, tty, ghosts
<1>4. ASSUME NEW k \in {"up", "down"}, PressCursor(k) \/ ReleaseCursor(k) PROVE Inv'
  <2>1. pc = "read" /\ UNCHANGED <<tty, pc, str, left, ghosts>> /\ (input' = input \/ input' = <<EOF>>)
    BY <1>4 DEF PressCursor, ReleaseCursor
  <2>2. <<EOF>> \in Strings
    BY DEF Strings, Chars
  <2>3. input' \in Strings
    BY <1>1, <2>1, <2>2 DEF Typed
  <2>4. QED
    BY <1>1, <2>1, <2>3, KeepsRing DEF Inv, Typed, tty, ghosts
<1>5. CASE print_prompt
  <2>1. /\ pc = "prompt" /\ pc' = "read" /\ input' = Put(input, <<CAN>>) /\ (str' = Empty \/ str' = str)
        /\ UNCHANGED <<cursor, tty, left, hist>>
    BY <1>5 DEF print_prompt
  <2>2. <<CAN>> \in Strings
    BY DEF Strings, Chars
  <2>3. input' \in Strings
    BY <1>1, <2>1, <2>2, PutIsString DEF Typed
  <2>4. str' \in [Cells -> Chars]
    BY <1>1, <2>1 DEF Typed, Empty, Chars
  <2>5. QED
    BY <1>1, <2>1, <2>3, <2>4, KeepsRing DEF Inv, Typed, tty
<1>6. CASE gets_s
  <2>1. pc = "read" /\ UNCHANGED <<tty, left, hist>>
    BY <1>6 DEF gets_s
  <2>2. str' \in [Cells -> Chars] /\ input' \in Strings /\ pc' # "run" /\ pc' # "off"
    BY <1>1, <1>6, LineStep
  <2>3. QED
    BY <1>1, <2>1, <2>2, KeepsRing DEF Inv, Typed, tty
<1>7. CASE CursorKey
  <2>1. pc = "read" /\ UNCHANGED <<cache, ci, pc, str, ghosts>>
    BY <1>7 DEF CursorKey
  <2>2. input' \in Strings /\ left' \in Strings /\ tci' \in Slots
    <3>1. \/ traverse_cache(-1) \/ traverse_cache(1) \/ UNCHANGED <<tci, input, left>>
      BY <1>7 DEF CursorKey
    <3>2. CASE UNCHANGED <<tci, input, left>>
      BY <1>1, <3>2 DEF Typed
    <3>3. QED
      BY <1>1, <2>1, <3>1, <3>2, TraverseStep
  <2>3. QED
    BY <1>1, <2>1, <2>2, KeepsRing DEF Inv, Typed, ghosts
<1>8. CASE get_cmd
  <2> DEFINE words == First(Words(Text(str)), ARG_MAX)
  <2>1. words \in Seq(Strings)
    <3>1. Words(Text(str)) \in Seq(Strings)
      BY <1>1, TextIsString, WordsAreStrings DEF Typed
    <3>2. QED
      BY <3>1, ShellAssumption, FirstIs
  <2> HIDE DEF words
  <2>2. pc \in {"line", "eof"} /\ UNCHANGED <<input, str, left>>
    BY <1>8 DEF get_cmd
  <2>3. \/ pc' \in {"prompt", "lost"} /\ UNCHANGED <<cache, ci, tci, hist>>
        \/ /\ words # <<>> /\ pc' = "run" /\ ci' = (ci + 1) % MAX_CMDS_CACHE /\ tci' = ci'
           /\ \E argv \in [DOMAIN words -> UNION {StoredWords(words[n]) : n \in DOMAIN words}] :
                cache' = [cache EXCEPT ![ci] = argv] /\ hist' = Append(hist, argv)
    BY <1>8 DEF get_cmd, words
  <2>4. CASE pc' \in {"prompt", "lost"} /\ UNCHANGED <<cache, ci, tci, hist>>
    BY <1>1, <2>2, <2>4, KeepsRing DEF Inv, Typed
  <2>5. CASE /\ words # <<>> /\ pc' = "run" /\ ci' = (ci + 1) % MAX_CMDS_CACHE /\ tci' = ci'
             /\ \E argv \in [DOMAIN words -> UNION {StoredWords(words[n]) : n \in DOMAIN words}] :
                  cache' = [cache EXCEPT ![ci] = argv] /\ hist' = Append(hist, argv)
    <3>1. PICK argv \in [DOMAIN words -> UNION {StoredWords(words[n]) : n \in DOMAIN words}] :
                 cache' = [cache EXCEPT ![ci] = argv] /\ hist' = Append(hist, argv)
      BY <2>5
    <3>2. argv \in Argvs
      BY <2>1, <2>5, ArgvIs
    <3>3. Ring' /\ ci' \in Slots /\ hist' \in Seq(Argvs) /\ hist' # <<>> /\ cache' = [s \in Slots |-> cache'[s]]
      BY <1>1, <2>2, <2>5, <3>1, <3>2, GivenStep
    <3>4. QED
      BY <1>1, <2>2, <2>5, <3>3 DEF Inv, Typed
  <2>6. QED
    BY <2>3, <2>4, <2>5
<1>9. CASE parse_cmd
  <2> DEFINE argv == cache[(ci - 1) % MAX_CMDS_CACHE]
  <2>1. pc = "run" /\ pc' = "prompt" /\ UNCHANGED <<input, cache, ci, tci, ghosts>>
    BY <1>9 DEF parse_cmd
  <2>2. str' = str \/ \E n \in 0 .. MaxJunk : str' = [k \in Cells |-> IF k < n THEN Junk ELSE NUL]
    BY <1>9 DEF parse_cmd
  <2>3. str' \in [Cells -> Chars]
    BY <1>1, <2>2 DEF Typed, Chars
  <2>4. left' = left \/ (Len(argv) > 1 /\ \E dst \in Malloc : left' = strjoin(dst, Tail(argv)))
    BY <1>9 DEF parse_cmd
  <2>5. argv \in Argvs
    BY <1>1, <2>1, Current
  <2> HIDE DEF argv
  <2>6. Len(argv) > 1 => Tail(argv) \in Argvs
    <3> SUFFICES ASSUME Len(argv) > 1 PROVE Tail(argv) \in Argvs
      OBVIOUS
    <3>1. argv \in Seq(Strings) /\ argv # <<>> /\ Len(argv) \in Nat
      BY <2>5 DEF Argvs
    <3>2. Tail(argv) \in Seq(Strings) /\ Len(Tail(argv)) = Len(argv) - 1
      BY <3>1
    <3>3. Tail(argv) # <<>>
      <4>1. Len(Tail(argv)) # 0
        BY <3>1, <3>2
      <4>2. Len(<<>>) = 0
        OBVIOUS
      <4>3. QED
        BY <4>1, <4>2, Zenon
    <3>4. QED
      BY <3>2, <3>3 DEF Argvs
  <2>7. left' \in Strings
    BY <1>1, <2>4, <2>6, JoinedIsString DEF Typed
  <2>8. QED
    BY <1>1, <2>1, <2>3, <2>7, KeepsRing DEF Inv, Typed, ghosts
<1>10. CASE bc_main
  <2>1. pc \in {"line", "eof"} /\ pc' = "prompt" /\ UNCHANGED <<input, cache, ci, tci, str, left, ghosts>>
    BY <1>10 DEF bc_main
  <2>2. QED
    BY <1>1, <2>1, KeepsRing DEF Inv, Typed, ghosts
<1>11. CASE shell_fini
  BY <1>1, <1>11 DEF shell_fini, Inv, Typed, ghosts
<1>12. QED
  BY <1>2, <1>3, <1>4, <1>5, <1>6, <1>7, <1>8, <1>9, <1>10, <1>11 DEF Next

LEMMA ShellInv == Spec => []Inv
<1>1. Init => Inv
  BY InitInv
<1>2. Inv /\ [Next]_vars => Inv'
  BY InvStep
<1>3. QED
  BY <1>1, <1>2, PTL DEF Spec

------------------------------------------------------------------------------
\* What ends with a string has it as a suffix.
LEMMA EndsWith ==
  ASSUME NEW s \in Strings, NEW u \in Strings
  PROVE  IsSuffix(u, s \o u)
<1>1. s \in Seq(Chars) /\ u \in Seq(Chars) /\ Len(s) \in Nat /\ Len(u) \in Nat
  BY DEF Strings
<1> DEFINE v == s \o u
<1>2. v \in Seq(Chars) /\ Len(v) = Len(s) + Len(u)
  BY <1>1
<1>3. ASSUME NEW k \in 1 .. Len(u) PROVE v[Len(v) - k + 1] = u[Len(u) - k + 1]
  BY <1>1, <1>2
<1> HIDE DEF v
<1>4. Reverse(u) \in Seq(Chars) /\ Len(Reverse(u)) = Len(u)
  BY <1>1 DEF Reverse
<1>5. Reverse(v) \in Seq(Chars) /\ Len(Reverse(v)) = Len(v)
  BY <1>2 DEF Reverse
<1>6. ASSUME NEW k \in 1 .. Len(u) PROVE Reverse(v)[k] = Reverse(u)[k]
  BY <1>1, <1>2, <1>3 DEF Reverse
<1>7. SubSeq(Reverse(u), 1, Len(u)) = SubSeq(Reverse(v), 1, Len(u))
  BY <1>1, <1>2, <1>4, <1>5, <1>6
<1>8. QED
  BY <1>1, <1>2, <1>4, <1>5, <1>7 DEF IsSuffix, IsPrefix, v

\* Up and Down recall the command as many back as the traversing index is behind the
\* current one (traverse_cache of extkey.c), for every size of the ring of commands.
THEOREM ShellHistoryInOrder == Spec => HistoryInOrder
<1> DEFINE back == (ci - tci') % MAX_CMDS_CACHE
           Ordered == pc = "read" /\ tci' # tci /\ Len(left') < BUFFER_SIZE - 1 =>
                        back <= Len(hist) /\ IsSuffix(Join(hist[Len(hist) + 1 - back]), input')
<1>1. ASSUME Inv, Next PROVE Ordered
  <2> SUFFICES ASSUME pc = "read", tci' # tci, Len(left') < BUFFER_SIZE - 1
               PROVE  back <= Len(hist) /\ IsSuffix(Join(hist[Len(hist) + 1 - back]), input')
    OBVIOUS
  <2>1. Typed /\ Ring
    BY <1>1 DEF Inv
  <2>2. CursorKey
    <3>1. ASSUME NEW ch \in Keys, Type(ch) PROVE FALSE
      BY <3>1 DEF Type, tty
    <3>2. ASSUME NEW k \in {"up", "down"}, PressCursor(k) \/ ReleaseCursor(k) PROVE FALSE
      BY <3>2 DEF PressCursor, ReleaseCursor, tty
    <3>3. ~ gets_s
      BY DEF gets_s, tty
    <3>4. ~ (print_prompt \/ get_cmd \/ parse_cmd \/ bc_main \/ shell_fini)
      BY DEF print_prompt, get_cmd, parse_cmd, bc_main, shell_fini
    <3>5. QED
      BY <1>1, <3>1, <3>2, <3>3, <3>4 DEF Next
  <2>3. input = <<>> /\ \E offset \in {-1, 1} : traverse_cache(offset)
    BY <2>2 DEF CursorKey
  <2>4. PICK offset \in {-1, 1} : traverse_cache(offset)
    BY <2>3
  <2> DEFINE n == (tci + offset) % MAX_CMDS_CACHE
  <2>5. n \in Slots
    <3>1. offset \in Int /\ tci \in Int /\ MAX_CMDS_CACHE \in Nat /\ MAX_CMDS_CACHE > 0
      BY <2>1, ShellAssumption DEF Slots, Typed
    <3>2. QED
      BY <3>1, Remainder DEF Slots
  <2>6. ~ (n = ci \/ cache[n] = NoArgv) /\ tci' = n
    BY <2>4 DEF traverse_cache
  <2>7. PICK dst \in Malloc : left' = strjoin(dst, cache[n]) /\ input' = Put(Put(input, <<CAN>>), left')
    BY <2>4, <2>6 DEF traverse_cache
  <2> HIDE DEF n
  <2>8. back \in 1 .. Len(hist) /\ cache[n] = hist[Len(hist) + 1 - back] /\ cache[n] \in Argvs
    BY <2>1, <2>5, <2>6, Recalled
  <2> HIDE DEF back
  <2>9. /\ dst \in Strings /\ Join(cache[n]) \in Strings
        /\ left' = dst \o Join(cache[n]) /\ left' \in Strings
    BY <2>1, <2>7, <2>8, JoinedIsString, JoinIsString
  <2>10. Len(left') \in Nat /\ BUFFER_SIZE \in Nat /\ BUFFER_SIZE - 1 \in Nat /\ 1 <= BUFFER_SIZE - 1
    BY <2>9, ShellAssumption DEF Strings
  <2>11. <<CAN>> \in Seq(Chars) /\ Len(<<CAN>>) = 1
    BY DEF Chars
  <2>12. Put(input, <<CAN>>) = <<CAN>>
    <3>1. input \o <<CAN>> = <<CAN>>
      BY <2>3, <2>11
    <3>2. QED
      BY <3>1, <2>10, <2>11, FirstIs DEF Put
  <2>13. input' = <<CAN>> \o left'
    <3>1. <<CAN>> \o left' \in Seq(Chars) /\ Len(<<CAN>> \o left') = 1 + Len(left')
      BY <2>9, <2>11 DEF Strings
    <3>2. 1 + Len(left') <= BUFFER_SIZE - 1
      BY <2>10
    <3>3. First(<<CAN>> \o left', BUFFER_SIZE - 1) = <<CAN>> \o left'
      BY <2>10, <3>1, <3>2, FirstIs
    <3>4. QED
      BY <2>7, <2>12, <3>3 DEF Put
  <2>14. input' = (<<CAN>> \o dst) \o Join(cache[n]) /\ <<CAN>> \o dst \in Strings
    BY <2>9, <2>11, <2>13 DEF Strings
  <2>15. IsSuffix(Join(cache[n]), input')
    BY <2>9, <2>14, EndsWith
  <2>16. QED
    BY <2>8, <2>15
<1>2. Inv /\ [Next]_vars => [Ordered]_vars
  BY <1>1
<1> HIDE DEF Ordered
<1>3. Spec => [][Ordered]_vars
  BY <1>2, ShellInv, PTL DEF Spec
<1>4. QED
  BY <1>3 DEF HistoryInOrder, Ordered
==============================================================================
