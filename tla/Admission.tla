----------------------------- MODULE Admission -----------------------------
(***************************************************************************)
(* What "server {port} {max number of clients}" promises: clients are      *)
(* served in the order in which they connected, never more than            *)
(* max_clients at the same time, and a place is free again when its client *)
(* leaves.                                                                 *)
(***************************************************************************)
EXTENDS Integers, Sequences, FiniteSets

CONSTANTS
  Clients,      \* connections that may be made
  max_clients   \* second argument of the server

VARIABLES
  waiting,   \* clients not accepted yet, in order of arrival
  active,    \* clients being served
  left       \* clients whose session is over

aVars == <<waiting, active, left>>

InLine == {waiting[i] : i \in DOMAIN waiting}

Init == waiting = << >> /\ active = {} /\ left = {}

Arrive(c) ==
  /\ c \notin InLine \cup active \cup left
  /\ waiting' = Append(waiting, c)
  /\ UNCHANGED <<active, left>>

Admit ==
  /\ waiting # << >>
  /\ Cardinality(active) < max_clients
  /\ active' = active \cup {Head(waiting)}
  /\ waiting' = Tail(waiting)
  /\ UNCHANGED left

\* The system may have no process to give to the next client.
TurnAway ==
  /\ waiting # << >>
  /\ left' = left \cup {Head(waiting)}
  /\ waiting' = Tail(waiting)
  /\ UNCHANGED active

Leave(c) ==
  /\ c \in active
  /\ active' = active \ {c}
  /\ left' = left \cup {c}
  /\ UNCHANGED waiting

Next ==
  \/ \E c \in Clients : Arrive(c) \/ Leave(c)
  \/ Admit
  \/ TurnAway

Spec == Init /\ [][Next]_aVars
=============================================================================
