------------------------------ MODULE MCConsole ------------------------------
(* Two rows of four columns with a tab stop in the middle; the handler's line *)
(* is "t", and main() prints enough to scroll by more than a screen.          *)
EXTENDS Console

MCMessage == <<"t", NewLine>>
==============================================================================
