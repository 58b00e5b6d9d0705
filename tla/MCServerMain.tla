---------------------------- MODULE MCServerMain ----------------------------
(* A small instance of ServerMain: more connections than places.           *)
EXTENDS ServerMain

CONSTANTS c1, c2, c3, c4

FourClients == {c1, c2, c3, c4}
=============================================================================
