------------------------------ MODULE Dialogue ------------------------------
(***************************************************************************)
(* What a session promises to the client: every command gets one number,   *)
(* before the next command is sent, and it is its own and true, or 0 once  *)
(* one of the processes that serve the client has ended.                   *)
(***************************************************************************)
EXTENDS Integers

VARIABLES
  asked,   \* number of commands sent
  answer,  \* the last number read, and the command it answers
  truth,   \* the number that is true of the last command sent
  failed,  \* a process on the way has ended
  off      \* nothing is promised any more

dVars == <<asked, answer, truth, failed, off>>

Init == asked = 0 /\ answer = [val |-> 0, of |-> 0]

Ask ==
  /\ answer.of = asked
  /\ asked' = asked + 1
  /\ UNCHANGED answer

Answer ==
  /\ answer.of < asked
  /\ \/ answer' = [val |-> truth, of |-> asked]
     \/ failed /\ answer' = [val |-> 0, of |-> asked]
  /\ UNCHANGED <<asked, truth>>

\* Everything else leaves question and answer alone.
Elsewhere == UNCHANGED <<asked, answer, truth>>

Next ==
  /\ off => off'
  /\ Ask \/ Answer \/ Elsewhere \/ off'

Spec == Init /\ [][Next]_dVars
=============================================================================
