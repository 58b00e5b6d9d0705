------------------------------ MODULE MCSystem ------------------------------
(* A small instance of System: one place, one in the queue, one too many.  *)
EXTENDS System

CONSTANTS c1, c2, c3

Three     == {c1, c2, c3}
First     == {c1}
\* One client asks twice; the others come, say QUIT, or are killed.
Twice     == [c \in Three |-> IF c = c1 THEN 2 ELSE 0]
\* Current and Older of ProxyMain, written out: Forms must not be defined through
\* the instance Proxy, whose parameters include Forms.
BothForms == {[waits |-> b, closesGood |-> b] : b \in BOOLEAN}
=============================================================================
