------------------------------ MODULE MCSession ------------------------------
(* Small instances of Session: up to three commands, up to two files.      *)
EXTENDS Session

AllCommands == Kinds
NoTransfers == {"LIST", "QUIT"}
=============================================================================
