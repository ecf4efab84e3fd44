------------------------------ MODULE Keyboard -------------------------------
(***************************************************************************)
(* Keyboard input: kernel/arch/x86_64/io.c, scs1.c, the keyboard branch of *)
(* isr.c, getchar.c and stdin_clear/stdin_insert of libc/kernel/kernel.c.  *)
(*                                                                         *)
(* The interrupt handler puts characters into a ring while wait_key, which *)
(* runs with interrupts on, tests it and takes them out.  The handler runs *)
(* through an interrupt gate: it can come between any two steps of         *)
(* wait_key while IRQ 1 is unmasked, and nothing comes between its own.    *)
(* So do stdin_clear and stdin_insert, system calls of the shell: from the *)
(* shell's first call on, sysret leaves its interrupts off.  Their loops,  *)
(* and those of the handler, take one step per character (op, at, text).   *)
(*                                                                         *)
(* buffer_head and buffer_tail are size_t.  The ring's size divides 2^64,  *)
(* so a value that has gone below zero behaves as a negative integer:      *)
(* (x + 1) % BufSize and buffer + x are the same for both.  Memory outside *)
(* the array belongs to something else: a store there is lost to the       *)
(* keyboard and a load from there may give any character.                  *)
(***************************************************************************)
EXTENDS Integers, Sequences, FiniteSets

CONSTANTS
  BufSize,    \* BUFFER_SIZE
  ScanCodes,  \* the bytes the keyboard may send
  Inserts,    \* the strings passed to stdin_insert
  MaxBelow    \* bound: an erase that takes buffer_head further below 0 is not followed

ASSUME KeyboardAssumption ==
  /\ BufSize \in Nat /\ BufSize >= 4
  /\ ScanCodes \subseteq 0 .. 255
  /\ MaxBelow \in Nat

\* Characters, one for each kind that the code tells apart.
NUL == "NUL"
BS == "BS"
EOF == "EOF"
CAN == "CAN"
Chars == {NUL, BS, CAN, "\n", "\t", "ESC", " ", "a", "A", "w", "W", "1", "!"}

ASSUME InsertsAssumption == \A s \in Inserts : s \in Seq(Chars)

is_special_char(ch) == ch \in {BS, "\n", "\t", "ESC", EOF, NUL}

\* scs1_to_ascii, one key for each kind: fixed, letter, digit with a shifted sign,
\* and the keypad digits that share their code with the cursor keys.
scs1_to_ascii(s, shift, caps) ==
  CASE s = \h0E -> BS
    [] s = \h1C -> "\n"
    [] s = \h0F -> "\t"
    [] s = \h01 -> "ESC"
    [] s = \h39 -> " "
    [] s = \h1E -> IF shift \/ caps THEN "A" ELSE "a"
    [] s = \h11 -> IF shift \/ caps THEN "W" ELSE "w"
    [] s = \h02 -> IF shift THEN "!" ELSE "1"
    [] s \in {\h48, \h4B, \h4D, \h50} -> "1"
    [] OTHER -> NUL

VARIABLES
  buffer,       \* keyboard.buffer
  buffer_head, buffer_tail,
  ks,           \* keyboard.ks: modifier keys held, ext, cursor keys not yet taken
  masked,       \* IRQ 1 is masked at the PIC
  op, at, text, \* the loop that is putting characters, its index, the string it puts
  pc,           \* where the reader is: "away" from wait_key, or in it
  c,            \* what buffer_get and then wait_key last returned
  line,         \* ghost: the text taken since the ring last began at cell 0, edited by BS
  want,         \* ghost: how many characters the word erase in progress should erase
  astray        \* ghost: an erase has reached across the start of the array

loop == <<op, at, text, want>>
reader == <<pc, c, line, astray>>
vars == <<buffer, buffer_head, buffer_tail, ks, masked, loop, reader>>

Cells == 0 .. BufSize - 1
Cursors == {"up", "down", "left", "right"}
Modifiers == {"caps", "lshift", "rshift", "lctrl", "rctrl", "lalt", "altgr"}

\* The characters put and not yet taken, in order.
Pending ==
  [k \in 1 .. (buffer_head - buffer_tail) % BufSize |-> buffer[(buffer_tail + k - 1) % BufSize]]

\* How many characters a word erase should take off the end of the text t: its
\* spaces at the end, the word before them, and the spaces before that but one.
Occupied(t) == {i \in 1 .. Len(t) : t[i] # " "}
LastBelow(S, n) ==
  IF \E i \in S : i <= n THEN CHOOSE i \in S : i <= n /\ \A j \in S : j <= n => j <= i ELSE 0
WordEraseLength(t) ==
  LET end == LastBelow(Occupied(t), Len(t))
      before == LastBelow(1 .. Len(t) \ Occupied(t), end)
      kept == LastBelow(Occupied(t), before)
  IN  Len(t) - IF before = 0 THEN 0 ELSE kept + 1

\* The claim made for a word erase that starts with nothing pending: none when the
\* text holds special characters or when more than half the ring would be erased
\* (the handler reads the ring it is putting into).
NoClaim == -1
Claim ==
  LET t == [i \in 1 .. buffer_head |-> buffer[i - 1]]
  IN  IF /\ buffer_head = buffer_tail
         /\ \A i \in 1 .. buffer_head : ~ is_special_char(t[i])
         /\ 2 * WordEraseLength(t) <= BufSize
      THEN WordEraseLength(t) ELSE NoClaim

Init ==
  /\ buffer = [i \in Cells |-> NUL]
  /\ buffer_head = 0 /\ buffer_tail = 0
  /\ ks = [mods |-> {}, ext |-> FALSE, cursor |-> {}]
  /\ masked \in BOOLEAN    \* pic_init keeps the mask the firmware left
  /\ op = "none" /\ at = 0 /\ text = <<>>
  /\ pc = "away" /\ c = EOF
  /\ line = <<>> /\ want = NoClaim /\ astray = FALSE

------------------------------------------------------------------------------
\* buffer_put_c.
PutCNoWrap(ch) ==
  LET next == buffer_head + 1
  IN  IF next = buffer_tail THEN UNCHANGED <<buffer, buffer_head>>
      ELSE /\ buffer' = IF buffer_head \in Cells THEN [buffer EXCEPT ![buffer_head] = ch] ELSE buffer
           /\ buffer_head' = next

PutCUnchecked(ch) ==
  /\ buffer' = IF buffer_head \in Cells THEN [buffer EXCEPT ![buffer_head] = ch] ELSE buffer
  /\ buffer_head' = (buffer_head + 1) % BufSize

buffer_put_c(ch) ==
  LET next == (buffer_head + 1) % BufSize
  IN  IF next = buffer_tail THEN UNCHANGED <<buffer, buffer_head>>
      ELSE /\ buffer' = IF buffer_head \in Cells THEN [buffer EXCEPT ![buffer_head] = ch] ELSE buffer
           /\ buffer_head' = next

EndLoop == op' = "none" /\ at' = 0 /\ text' = <<>> /\ want' = NoClaim

CursorKey == [s \in {\h48, \h50, \h4B, \h4D} |->
                CASE s = \h48 -> "up" [] s = \h50 -> "down" [] s = \h4B -> "left" [] s = \h4D -> "right"]
Pressed(s) == {CursorKey[k] : k \in {s} \cap DOMAIN CursorKey}
Released(s) == Pressed(s - \h80)

ModsPressed(s, ext) ==
  CASE s = \h2A -> {"lshift"} [] s = \h36 -> {"rshift"} [] s = \h1D -> {"lctrl"}
    [] s = \h38 -> {"lalt"} [] s = \h3B /\ ext -> {"rctrl"} [] OTHER -> {}
ModsReleased(s, ext) ==
  CASE s = \hAA -> {"lshift"} [] s = \hB6 -> {"rshift"} [] s = \h9D -> {"lctrl", "rctrl"}
    [] s = \hB8 -> {"lalt", "altgr"} [] s = \hBB /\ ext -> {"rctrl"} [] OTHER -> {}

\* The codes that end an 0xE0 prefix; the other codes leave ext set.
EndsExt(s) == s \in {\h3B, \hBB} \/ Pressed(s) \cup Released(s) # {}

special_key_press(k, s) ==
  [mods |-> IF s = \h3A THEN (k.mods \ {"caps"}) \cup ({"caps"} \ k.mods)
            ELSE (k.mods \cup ModsPressed(s, k.ext)) \ ModsReleased(s, k.ext),
   ext |-> s = \hE0 \/ (k.ext /\ ~ EndsExt(s)),
   cursor |-> IF k.ext THEN (k.cursor \cup Pressed(s)) \ Released(s) ELSE k.cursor]

\* The keyboard interrupt: buffer_put of the byte read from the controller.
KeyIRQ(s) ==
  LET k == special_key_press(ks, s)
      shift == {"lshift", "rshift"} \cap k.mods # {}
      ctrl == {"lctrl", "rctrl"} \cap k.mods # {}
      alt == {"lalt", "altgr"} \cap k.mods # {}
      uc == scs1_to_ascii(s, shift, "caps" \in k.mods)
      ignored == k.ext \/ k.cursor # {}
      erases == ~ ignored /\ ctrl /\ ~ shift /\ uc \in {BS, "w"}
      types == ~ ignored /\ ~ ctrl /\ ~ alt /\ uc # NUL
  IN  /\ op = "none" /\ ~ masked
      /\ ks' = k
      /\ \/ erases /\ op' = "spaces" /\ at' = buffer_head - 1 /\ want' = Claim
            /\ UNCHANGED <<buffer, buffer_head, text>>
         \/ types /\ buffer_put_c(uc) /\ UNCHANGED loop
         \/ ~ erases /\ ~ types /\ UNCHANGED <<buffer, buffer_head, loop>>
      /\ UNCHANGED <<buffer_tail, masked, reader>>

\* Ctrl+Backspace and Ctrl+w go down the ring in three loops: over the spaces at
\* the end, the word before them, and the spaces before that.
LoopGoesOn == at >= 0 /\ (op = "word" <=> buffer[at] # " ")

EraseLoop ==
  /\ op \in {"spaces", "word", "before"}
  /\ LoopGoesOn
  /\ at' = at - 1
  /\ IF is_special_char(buffer[at]) THEN UNCHANGED <<buffer, buffer_head>> ELSE buffer_put_c(BS)
  /\ UNCHANGED <<buffer_tail, ks, masked, op, text, want, reader>>

\* The spaces before the word are left but one.
EraseNextAll ==
  /\ op \in {"spaces", "word", "before"}
  /\ ~ LoopGoesOn
  /\ \/ op = "spaces" /\ at >= 0 /\ op' = "word" /\ UNCHANGED <<at, text, want>>
     \/ op = "word" /\ op' = "before" /\ at' = at /\ UNCHANGED <<text, want>>
     \/ (op = "before" \/ (op = "spaces" /\ at < 0)) /\ EndLoop
  /\ UNCHANGED <<buffer, buffer_head, buffer_tail, ks, masked, reader>>

EraseNext ==
  /\ op \in {"spaces", "word", "before"}
  /\ ~ LoopGoesOn
  /\ \/ op = "spaces" /\ at >= 0 /\ op' = "word" /\ UNCHANGED <<at, text, want>>
     \/ op = "word" /\ op' = "before" /\ at' = at - 1 /\ UNCHANGED <<text, want>>
     \/ (op = "before" \/ (op = "spaces" /\ at < 0)) /\ EndLoop
  /\ UNCHANGED <<buffer, buffer_head, buffer_tail, ks, masked, reader>>

\* stdin_clear puts a CAN, stdin_insert a string.
stdin_clear ==
  /\ op = "none" /\ pc = "away"
  /\ buffer_put_c(CAN)
  /\ UNCHANGED <<buffer_tail, ks, masked, loop, reader>>

stdin_insert(s) ==
  /\ op = "none" /\ pc = "away"
  /\ op' = "insert" /\ text' = s /\ at' = 1
  /\ UNCHANGED <<buffer, buffer_head, buffer_tail, ks, masked, want, reader>>

InsertLoop ==
  /\ op = "insert"
  /\ \/ at <= Len(text) /\ buffer_put_c(text[at]) /\ at' = at + 1 /\ UNCHANGED <<op, text, want>>
     \/ at > Len(text) /\ EndLoop /\ UNCHANGED <<buffer, buffer_head>>
  /\ UNCHANGED <<buffer_tail, ks, masked, reader>>

------------------------------------------------------------------------------
\* getchar turns interrupts on and calls wait_key, which unmasks IRQ 1.
getchar ==
  /\ op = "none" /\ pc = "away"
  /\ masked' = FALSE
  /\ pc' = "spin"
  /\ UNCHANGED <<buffer, buffer_head, buffer_tail, ks, loop, c, line, astray>>

EmptyIfEither == buffer_head = buffer_tail \/ ks.cursor = {}
buffer_is_empty == buffer_head = buffer_tail /\ ks.cursor = {}

\* The loop of wait_key ends; while the ring is empty it only tests again.
WakeUp ==
  /\ op = "none" /\ pc = "spin" /\ ~ buffer_is_empty
  /\ pc' = "get"
  /\ UNCHANGED <<buffer, buffer_head, buffer_tail, ks, masked, loop, c, line, astray>>

\* buffer_get up to its test for BS.  An interrupt within these lines only adds
\* at the head and sees the tail that it would have seen just before them.
GetEmpty ==
  /\ op = "none" /\ pc = "get" /\ buffer_head = buffer_tail
  /\ c' = EOF
  /\ pc' = "mask"
  /\ UNCHANGED <<buffer, buffer_head, buffer_tail, ks, masked, loop, line, astray>>

GetChar ==
  /\ op = "none" /\ pc = "get" /\ buffer_head # buffer_tail
  /\ c' \in IF buffer_tail \in Cells THEN {buffer[buffer_tail]} ELSE Chars
  /\ buffer_tail' = (buffer_tail + 1) % BufSize
  /\ pc' = IF c' = BS THEN "erase" ELSE "mask"
  /\ line' = IF buffer_tail' = 0 THEN <<>> ELSE Append(line, c')
  /\ UNCHANGED <<buffer, buffer_head, ks, masked, loop, astray>>

\* The memcpys of buffer_get: BUFFER_SIZE - (tail + 1) characters move down two.
Shifted ==
  [i \in Cells |-> IF buffer_tail - 2 <= i /\ i <= BufSize - 4 THEN buffer[i + 2] ELSE buffer[i]]

\* The rest of buffer_get for a BS, between cli and sti: it and the character
\* before it leave the ring.
EraseNotBefore ==
  /\ op = "none" /\ pc = "erase"
  /\ buffer_head - 1 >= - MaxBelow
  /\ buffer' = [i \in Cells |-> IF buffer_tail - 1 <= i /\ i <= BufSize - 3 THEN buffer[i + 1] ELSE buffer[i]]
  /\ buffer_head' = buffer_head - 1
  /\ buffer_tail' = buffer_tail - 1
  /\ astray' = (astray \/ buffer_tail < 1 \/ buffer_head < buffer_tail)
  /\ line' = SubSeq(line, 1, Len(line) - 2)
  /\ pc' = "mask"
  /\ UNCHANGED <<ks, masked, loop, c>>

Erase ==
  /\ op = "none" /\ pc = "erase"
  /\ buffer_head - 2 >= - MaxBelow
  /\ buffer' = Shifted
  /\ buffer_head' = buffer_head - 2
  /\ buffer_tail' = buffer_tail - 2
  /\ astray' = (astray \/ buffer_tail < 2 \/ buffer_head < buffer_tail)
  /\ line' = SubSeq(line, 1, Len(line) - 2)
  /\ pc' = "mask"
  /\ UNCHANGED <<ks, masked, loop, c>>

\* The cursor key that wait_key takes first.
FirstCursor(S) ==
  CASE "up" \in S -> "up" [] "down" \in S -> "down" [] "left" \in S -> "left" [] OTHER -> "right"

\* wait_key masks IRQ 1 again and returns the character, else a cursor key,
\* else EOF.
Return ==
  /\ op = "none" /\ pc = "mask"
  /\ masked' = TRUE
  /\ \/ /\ c # EOF \/ ks.cursor = {}
        /\ UNCHANGED <<c, ks>>
     \/ /\ c = EOF /\ ks.cursor # {}
        /\ c' = FirstCursor(ks.cursor)
        /\ ks' = [ks EXCEPT !.cursor = @ \ {FirstCursor(@)}]
  /\ pc' = "away"
  /\ UNCHANGED <<buffer, buffer_head, buffer_tail, loop, line, astray>>

Reader == WakeUp \/ GetEmpty \/ GetChar \/ Erase \/ Return
Loop == EraseLoop \/ EraseNext \/ InsertLoop

Next ==
  \/ \E s \in ScanCodes : KeyIRQ(s)
  \/ stdin_clear
  \/ \E s \in Inserts : stdin_insert(s)
  \/ getchar
  \/ Loop
  \/ Reader

Spec == Init /\ [][Next]_vars

\* Handlers and system calls run to their end, and between two interrupts the
\* interrupted code runs on.
FairSpec == Spec /\ WF_vars(Loop) /\ SF_vars(Reader)

------------------------------------------------------------------------------
TypeOK ==
  /\ buffer \in [Cells -> Chars]
  /\ buffer_head \in - MaxBelow .. BufSize - 1
  /\ buffer_tail \in -2 .. BufSize - 1
  /\ ks \in [mods : SUBSET Modifiers, ext : BOOLEAN, cursor : SUBSET Cursors]
  /\ masked \in BOOLEAN
  /\ op \in {"none", "spaces", "word", "before", "insert"}
  /\ at \in Int /\ (op = "insert" \/ at < BufSize)
  /\ text \in Inserts \cup {<<>>}
  /\ want \in -1 .. BufSize
  /\ pc \in {"away", "spin", "get", "erase", "mask"}
  /\ c \in Chars \cup Cursors \cup {EOF}
  /\ line \in Seq(Chars)
  /\ astray \in BOOLEAN

\* The handler's puts and the reader's gets, in any interleaving, are a bounded
\* queue: nothing is duplicated, reordered or lost once put, and an erase, which
\* moves both indices and the characters between them, changes none of it.  This
\* holds until an erase reaches across the start of the array.
Q == INSTANCE CharQueue WITH
       Capacity <- BufSize - 1, queue <- Pending, got <- IF c \in Cursors THEN EOF ELSE c, broken <- astray
ImplementsQueue == Q!Spec

\* The cells below the tail hold the text the reader has, with each BS and what it
\* erased gone: "q w e r t y \b \b -> q w e r t \b" (io.c).  Ctrl+w relies on it to
\* find the last word.
HistoryIsLine ==
  ~ astray /\ buffer_head >= buffer_tail => line = [i \in 1 .. buffer_tail |-> buffer[i - 1]]

\* Ctrl+w with nothing pending asks for exactly the erasing of the last word, its
\* trailing spaces and all but one of the spaces before it.
WordEraseExact ==
  [][ want # NoClaim /\ op' = "none" => Pending = [i \in 1 .. want |-> BS] ]_vars

\* wait_key returns once a character is there, and once its loop has ended, even if
\* the cursor key that ended it has been released since.
ReaderReturns ==
  /\ (pc = "spin" /\ buffer_head # buffer_tail) ~> (pc = "away")
  /\ (pc = "get") ~> (pc = "away")

\* wait_key returns "ascii char read (or special key)" (io.h): never EOF.
WaitKeyReturnsAKey == [][ pc = "mask" /\ pc' = "away" => c' # EOF ]_vars

\* Erasing shifts "next chars left" (io.c): what is pending stays pending, at
\* least where the shift stays inside the array.
EraseKeepsNextChars ==
  [][ pc = "erase" /\ pc' = "mask" /\ buffer_tail >= 2 => Pending' = Pending ]_vars
==============================================================================
