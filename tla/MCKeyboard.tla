----------------------------- MODULE MCKeyboard ------------------------------
(***************************************************************************)
(* The keyboard with a short ring and a few keys.                          *)
(***************************************************************************)
EXTENDS Keyboard

\* A digit, Backspace, Left Ctrl, the prefix and Cursor Up, pressed
\* and released.
KeyBytes == {\h02, \h0E, \h1D, \h9D, \hE0, \h48, \hC8}

Strings == {<<"1", " ">>}

\* What happens after an erase across the start of the array is left to the runs
\* that look for it.
UntilAstray == ~ astray
==============================================================================
