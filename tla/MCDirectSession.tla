--------------------------- MODULE MCDirectSession ---------------------------
(* Small instances of DirectSession: up to three commands, up to two files. *)
EXTENDS DirectSession

BothCopies  == {"first", "other"}
AllCommands == Kinds
=============================================================================
