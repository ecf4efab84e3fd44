---------------------------------- MODULE Shell ---------------------------------
(***************************************************************************)
(* The shell and the lines it reads: user/shell/shell.c, extkey.c, misc.c, *)
(* print.c and bc_main of bc.c, with gets_s of scanf.c and stdin_clear,    *)
(* stdin_insert and keycode_ext_handler of libc/kernel/kernel.c.           *)
(*                                                                         *)
(* The shell is the one process.  Keys reach it only while it waits in     *)
(* getchar, since sysret leaves its interrupts off; input is the keyboard  *)
(* ring, a queue here, and cursor the cursor keys not yet taken.  One step *)
(* of gets_s takes one character, echoes it and stores it.  The shell      *)
(* reads two kinds of memory before it writes them: the argv arrays and    *)
(* buffers of malloc, and the line of bc, so either may hold anything.     *)
(* Commands that belong to other modules (cd, ls, cat, nslookup) are told  *)
(* apart from echo here only by what they print: a line.                   *)
(***************************************************************************)
EXTENDS Terminal

CONSTANTS
  MAX_CMDS_CACHE, ARG_MAX,
  BUFFER_SIZE,     \* of the keyboard ring and of a line; ARG_MAX * ARG_MAX in get_cmd
  Keys,            \* characters that can be typed
  shcmd_table,     \* a name -> the kinds of command it may stand for
  QuitWords,       \* the lines that end bc: exit, quit
  MaxKeys, MaxCursorKeys,  \* bounds: key presses
  MaxAhead,        \* bound: characters typed ahead of the reader
  MaxJunk          \* bound: length of the text found in memory not yet written

ASSUME ShellAssumption ==
  /\ MAX_CMDS_CACHE \in Nat /\ MAX_CMDS_CACHE >= 2
  /\ ARG_MAX \in Nat /\ ARG_MAX >= 2
  /\ BUFFER_SIZE \in Nat /\ BUFFER_SIZE > MaxJunk
  /\ {MaxKeys, MaxCursorKeys, MaxAhead, MaxJunk} \subseteq Nat

CAN == "CAN"
EOF == "EOF"
NUL == "NUL"
Junk == "?"          \* a byte of memory that was not written
Blank == " "
NoArgv == <<"none">> \* a cache entry that is NULL, or an array not yet written

VARIABLES
  input, cursor,     \* keyboard: characters pending, cursor keys pressed and not taken
  t,                 \* the terminal
  cache, ci, tci,    \* of tty0; an entry is the argv of a command
  alive, active,     \* of tty0
  pc,                \* "prompt" | "read" | "line" | "eof" | "run" | "lost" | "off"
  str, i,            \* gets_s: the line and where it ends
  left,              \* text left in the block that a join last used and freed
  hist,              \* ghost: the commands run, oldest first
  tabbed,            \* ghost: a tab was echoed since the line was last empty
  keys, cursorKeys   \* key presses so far

tty == <<cache, ci, tci, alive, active>>
ghosts == <<hist, tabbed>>
bounds == <<keys, cursorKeys>>
vars == <<input, cursor, t, tty, pc, str, i, left, ghosts, bounds>>

Slots == 0 .. MAX_CMDS_CACHE - 1
Cells == 0 .. BUFFER_SIZE - 1
Empty == [k \in Cells |-> NUL]

\* strlen: what follows the first NUL is not part of the string.
strlen(s) == CHOOSE n \in 0 .. BUFFER_SIZE : /\ n = BUFFER_SIZE \/ s[n] = NUL
                                             /\ \A k \in 0 .. n - 1 : s[k] # NUL
Text(s) == [k \in 1 .. strlen(s) |-> s[k - 1]]

First(s, n) == SubSeq(s, 1, IF n < Len(s) THEN n ELSE Len(s))

\* buffer_put_c drops what does not fit the ring, which keeps one cell free.
Put(q, text) == First(q \o text, BUFFER_SIZE - 1)

Prompt == <<">">>
curr_wd == <<"/">>

Init ==
  /\ input = <<>> /\ cursor = {}
  /\ t = terminal_initialize([cells |-> Blanks, row |-> 0, column |-> 0, position |-> VGA_WIDTH])
  /\ cache = [s \in Slots |-> NoArgv] /\ ci = 0 /\ tci = 0
  /\ alive = TRUE /\ active = TRUE
  /\ pc = "prompt" /\ str = Empty /\ i = 0
  /\ left = <<>>
  /\ hist = <<>> /\ tabbed = FALSE
  /\ keys = 0 /\ cursorKeys = 0

------------------------------------------------------------------------------
\* Keys, while the reader waits with interrupts on.  With a cursor key down the
\* handler ignores the others.
Type(ch) ==
  /\ pc = "read" /\ keys < MaxKeys
  /\ cursor = {} /\ Len(input) < MaxAhead
  /\ input' = Put(input, <<ch>>)
  /\ keys' = keys + 1
  /\ UNCHANGED <<cursor, t, tty, pc, str, i, left, ghosts, cursorKeys>>

PressCursor(k) ==
  /\ pc = "read" /\ cursorKeys < MaxCursorKeys
  /\ cursor' = cursor \cup {k}
  /\ cursorKeys' = cursorKeys + 1
  /\ UNCHANGED <<input, t, tty, pc, str, i, left, ghosts, keys>>

\* A cursor key let go before it was taken.  A reader that it had woken finds
\* nothing, and wait_key returns EOF.
ReleaseCursor(k) ==
  /\ pc = "read" /\ k \in cursor
  /\ cursor' = cursor \ {k}
  /\ \/ UNCHANGED input
     \/ input = <<>> /\ input' = <<EOF>>
  /\ UNCHANGED <<t, tty, pc, str, i, left, ghosts, bounds>>

------------------------------------------------------------------------------
\* print_prompt and the start of gets_s; get_cmd clears its buffer.
print_prompt ==
  /\ pc = "prompt" /\ alive
  /\ t' = print(t, IF active THEN curr_wd \o Prompt ELSE Prompt)
  /\ input' = Put(input, <<CAN>>)
  /\ IF active THEN str' = Empty ELSE UNCHANGED str
  /\ i' = 0 /\ tabbed' = FALSE
  /\ pc' = "read"
  /\ UNCHANGED <<cursor, tty, left, hist, bounds>>

\* Backspaces(n): what cancelling a line of n characters prints.
Backspaces(n) == [k \in 1 .. n |-> BS]

Cancel ==
  /\ t' = print(t, Backspaces(strlen(str)))
  /\ str' = [k \in Cells |-> IF k < strlen(str) THEN NUL ELSE str[k]]
  /\ i' = 0 /\ tabbed' = FALSE
  /\ UNCHANGED pc

Ends(ch) == ch \in {"\n", EOF, NUL}

\* The end of gets_s: unless the line is empty, the rest of the buffer is cleared.
EndLine(s, n, ch) ==
  IF ch = EOF \/ n = 0 THEN s ELSE [k \in Cells |-> IF k >= n THEN NUL ELSE s[k]]

\* Backspace, with something to erase.
Erasable == i > 0 \/ str[0] # NUL
Erase ==
  /\ i' = IF i > 0 THEN i - 1 ELSE 0
  /\ str' = [str EXCEPT ![i'] = NUL]
  /\ t' = print(t, <<BS>>)
  /\ tabbed' = (tabbed /\ i' > 0)
  /\ UNCHANGED pc

\* Any other character: echoed and stored while there is room; one that ends the
\* line ends it without an echo when there is none.
Store(ch) ==
  LET room == i < BUFFER_SIZE - 1
      stored == room /\ ~ Ends(ch)
  IN  /\ t' = IF room THEN print(t, <<ch>>) ELSE t
      /\ i' = IF stored THEN i + 1 ELSE i
      /\ str' = IF stored THEN [str EXCEPT ![i] = ch]
                ELSE IF Ends(ch) THEN EndLine(str, i, ch) ELSE str
      /\ tabbed' = (tabbed \/ (stored /\ ch = "\t"))
      /\ pc' = IF ch = EOF THEN "eof" ELSE IF Ends(ch) THEN "line" ELSE pc

\* One turn of the loop of gets_s with a character of the ring.
gets_s ==
  /\ pc = "read" /\ input # <<>>
  /\ input' = Tail(input)
  /\ LET ch == Head(input)
     IN  \/ ch = CAN /\ Cancel
         \/ (ch = "ESC" \/ (ch = BS /\ ~ Erasable)) /\ UNCHANGED <<t, str, i, tabbed, pc>>
         \/ ch = BS /\ Erasable /\ Erase
         \/ ch \notin {CAN, "ESC", BS} /\ Store(ch)
  /\ UNCHANGED <<cursor, tty, left, hist, bounds>>

------------------------------------------------------------------------------
\* strjoin appends to what the destination holds.
Join(argv) ==
  LET joined[n \in DOMAIN argv] == IF n = 1 THEN argv[1] ELSE joined[n - 1] \o <<Blank>> \o argv[n]
  IN  joined[Len(argv)]
strjoin(dst, argv) == dst \o Join(argv)

\* The block may hold nothing, or what the last join left in it.
Malloc == {<<>>, left}

\* tci is not restored when there is nothing to show.
traverse_cacheMoves(offset) ==
  LET n == (tci + offset) % MAX_CMDS_CACHE
  IN  /\ tci' = n
      /\ IF n = ci \/ cache[n] = NoArgv THEN UNCHANGED <<input, left>>
         ELSE \E dst \in Malloc : /\ left' = strjoin(dst, cache[n])
                                  /\ input' = Put(Put(input, <<CAN>>), left')

\* Back to the current command and to one that was not yet given is refused.
traverse_cache(offset) ==
  LET n == (tci + offset) % MAX_CMDS_CACHE
  IN  IF n = ci \/ cache[n] = NoArgv THEN UNCHANGED <<tci, input, left>>
      ELSE /\ tci' = n
           /\ \E dst \in Malloc : /\ left' = strjoin(dst, cache[n])
                                  /\ input' = Put(Put(input, <<CAN>>), left')

\* wait_key with the ring empty takes a cursor key, Up before Down, and
\* keycode_ext_handler calls its handler: cuph, cdownh.  Those of Left and Right
\* are empty.
CursorKey ==
  /\ pc = "read" /\ input = <<>> /\ cursor # {}
  /\ LET k == IF "up" \in cursor THEN "up" ELSE "down"
     IN  /\ cursor' = cursor \ {k}
         /\ \/ active /\ k = "up" /\ traverse_cache(-1)
            \/ active /\ k = "down" /\ traverse_cache(1)
            \/ ~ active /\ UNCHANGED <<tci, input, left>>
  /\ UNCHANGED <<t, cache, ci, alive, active, pc, str, i, ghosts, bounds>>

------------------------------------------------------------------------------
\* ftrimwhitespace and strtok: the words of the line, none when it starts with a
\* blank, since strtok stops at an empty token.
WordAt(s, k) ==
  LET end == CHOOSE e \in k .. Len(s) : /\ e = Len(s) \/ s[e + 1] = Blank
                                        /\ \A j \in k .. e : s[j] # Blank
  IN  SubSeq(s, k, end)
Starts(s, k) == s[k] # Blank /\ (k = 1 \/ s[k - 1] = Blank)
Words(s) ==
  LET words[k \in 0 .. Len(s)] ==
        IF k = 0 THEN <<>>
        ELSE IF Starts(s, k) THEN Append(words[k - 1], WordAt(s, k)) ELSE words[k - 1]
  IN  IF s = <<>> \/ s[1] = Blank THEN <<>> ELSE words[Len(s)]

\* A word as get_cmd stores it: cut to its buffer, which is not ended behind the
\* word but one byte later.
StoredWords(w) ==
  LET cut == First(w, ARG_MAX - 1) IN {cut, cut \o <<Junk>>}

\* get_cmd after the line was read.  argv holds pointers that malloc did not clear:
\* one that is not NULL is written through.
get_cmd ==
  /\ pc \in {"line", "eof"} /\ active
  /\ \E words \in {First(Words(Text(str)), ARG_MAX)} :
       \/ words = <<>> /\ pc' = "prompt" /\ UNCHANGED <<cache, ci, tci, hist>>
       \/ /\ words # <<>>
          /\ \E argv \in [DOMAIN words -> UNION {StoredWords(words[n]) : n \in DOMAIN words}] :
               /\ \A n \in DOMAIN words : argv[n] \in StoredWords(words[n])
               /\ cache' = [cache EXCEPT ![ci] = argv]
               /\ hist' = Append(hist, argv)
          /\ ci' = (ci + 1) % MAX_CMDS_CACHE
          /\ tci' = ci'
          /\ pc' = "run"
       \/ /\ words # <<>> /\ (cache[ci] = NoArgv \/ Len(words) > Len(cache[ci]))
          /\ pc' = "lost"
          /\ UNCHANGED <<cache, ci, tci, hist>>
  /\ UNCHANGED <<input, cursor, t, alive, active, str, i, left, tabbed, bounds>>

LineOf(text) == text \o <<"\n">>

\* parse_cmd calls the command, and until it has returned the shell is not active.
\* Only bc goes on reading; its line is memory of the stack.
parse_cmd ==
  LET argv == cache[(ci - 1) % MAX_CMDS_CACHE]
      kinds == IF argv[1] \in DOMAIN shcmd_table THEN shcmd_table[argv[1]] ELSE {"notfound"}
  IN  /\ pc = "run"
      /\ pc' = "prompt"
      /\ \/ "notfound" \in kinds /\ t' = print(t, LineOf(<<"!">> \o argv[1])) /\ UNCHANGED <<str, left, active, alive>>
         \/ "pwd" \in kinds /\ t' = print(t, LineOf(curr_wd)) /\ UNCHANGED <<str, left, active, alive>>
         \/ "echo" \in kinds /\ Len(argv) = 1 /\ t' = print(t, <<"\n">>) /\ UNCHANGED <<str, left, active, alive>>
         \/ /\ "echo" \in kinds /\ Len(argv) > 1
            /\ \E dst \in Malloc : left' = strjoin(dst, Tail(argv)) /\ t' = print(t, LineOf(left'))
            /\ UNCHANGED <<str, active, alive>>
         \/ "clear" \in kinds /\ t' = terminal_initialize(t) /\ UNCHANGED <<str, left, active, alive>>
         \/ "exit" \in kinds /\ alive' = FALSE /\ UNCHANGED <<t, str, left, active>>
         \/ /\ "bc" \in kinds /\ active' = FALSE
            /\ \E n \in 0 .. MaxJunk : str' = [k \in Cells |-> IF k < n THEN Junk ELSE NUL]
            /\ UNCHANGED <<t, left, alive>>
      /\ UNCHANGED <<input, cursor, cache, ci, tci, i, ghosts, bounds>>

\* bc_main with a line: EOF, an empty line and the words exit and quit end it,
\* another line is evaluated and the result, or an error, printed.
bc_main ==
  /\ pc \in {"line", "eof"} /\ ~ active
  /\ pc' = "prompt"
  /\ \/ (pc = "eof" \/ i = 0) /\ active' = TRUE /\ UNCHANGED t
     \/ i > 0 /\ Text(str) \in QuitWords /\ active' = TRUE /\ UNCHANGED t
     \/ i > 0 /\ pc = "line" /\ Text(str) \notin QuitWords
        /\ t' = print(t, LineOf(<<"=">>)) /\ UNCHANGED active
  /\ UNCHANGED <<input, cursor, cache, ci, tci, alive, str, i, left, ghosts, bounds>>

\* The loop of shell_init ends, and shell_fini frees the cache.
shell_fini ==
  /\ pc = "prompt" /\ ~ alive
  /\ pc' = "off"
  /\ cache' = [s \in Slots |-> NoArgv]
  /\ UNCHANGED <<input, cursor, t, ci, tci, alive, active, str, i, left, ghosts, bounds>>

Next ==
  \/ \E ch \in Keys : Type(ch)
  \/ \E k \in {"up", "down"} : PressCursor(k) \/ ReleaseCursor(k)
  \/ print_prompt
  \/ gets_s
  \/ CursorKey
  \/ get_cmd
  \/ parse_cmd
  \/ bc_main
  \/ shell_fini

Spec == Init /\ [][Next]_vars

------------------------------------------------------------------------------
\* What is on the screen before the cursor is the line being edited: after any
\* typing, erasing, recalling of commands, wrapping and scrolling, in the shell and
\* in bc.  Not claimed once a tab was typed (the screen moves five columns and
\* Backspace one), nor while the start of the line is off the screen.
ScreenShowsLine ==
  pc = "read" /\ ~ tabbed /\ t.position \in i .. VGA_WIDTH * VGA_HEIGHT - 1 =>
    \A k \in 0 .. i - 1 : t.cells[t.position - i + k] = str[k]

\* Up and Down put into the keyboard ring the command that many back in the history
\* as the traversing index is behind the current one, around the end of the ring of
\* commands too.  It comes last: what is in front of it is left over from another
\* join.  Claimed when it fits.
HistoryInOrder ==
  [][pc = "read" /\ tci' # tci /\ Len(left') < BUFFER_SIZE - 1 =>
       LET back == (ci - tci') % MAX_CMDS_CACHE
       IN  back <= Len(hist) /\ IsSuffix(Join(hist[Len(hist) + 1 - back]), input')]_vars
==============================================================================
