-------------------------------- MODULE MCShell ---------------------------------
(***************************************************************************)
(* The shell with a screen of four short rows and a history of three.        *)
(***************************************************************************)
EXTENDS Shell

KeyChars == {"a", "e", " ", "\t", "\n", BS}

\* One name stands for every command that is found.
Table == <<"e">> :> {"echo", "pwd", "clear", "exit", "bc"}
Quit == {<<"e">>}
==============================================================================
