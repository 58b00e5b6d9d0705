------------------------------- MODULE Service -------------------------------
(***************************************************************************)
(* What the whole system promises to its users: a command of a client gets *)
(* its answer from the server, if the server has taken the client on, or   *)
(* is refused once a process on the way has ended.  The server takes on    *)
(* max_clients clients, ever.                                              *)
(***************************************************************************)
EXTENDS Integers, FiniteSets

CONSTANTS
  Clients,      \* who may use the system
  max_clients   \* second argument of the server

VARIABLES
  state,     \* of each client: away, ready, waiting or gone
  told,      \* clients that have got an answer of the server
  admitted,  \* clients the server has taken on
  failed     \* clients that have lost a process on the way to the server

sVars == <<state, told, admitted, failed>>

Become(c, from, to) ==
  /\ state[c] = from
  /\ state' = [state EXCEPT ![c] = to]

Init ==
  /\ state = [c \in Clients |-> "away"]
  /\ told = {} /\ admitted = {}

Arrive(c) == Become(c, "away", "ready") /\ UNCHANGED <<told, admitted>>
Ask(c)    == Become(c, "ready", "waiting") /\ UNCHANGED <<told, admitted>>

Answer(c) ==
  /\ c \in admitted
  /\ Become(c, "waiting", "ready")
  /\ told' = told \cup {c}
  /\ UNCHANGED admitted

Refuse(c) ==
  /\ c \in failed
  /\ Become(c, "waiting", "ready")
  /\ UNCHANGED <<told, admitted>>

Leave(c) ==
  /\ state[c] \in {"ready", "waiting"}
  /\ state' = [state EXCEPT ![c] = "gone"]
  /\ UNCHANGED <<told, admitted>>

\* Behind the scenes the server may take a client on.
Behind ==
  /\ UNCHANGED <<state, told>>
  /\ \/ UNCHANGED admitted
     \/ /\ Cardinality(admitted) < max_clients
        /\ \E c \in Clients : admitted' = admitted \cup {c}

\* failed is what it is: only Refuse looks at it.
Next ==
  \/ \E c \in Clients : Arrive(c) \/ Ask(c) \/ Answer(c) \/ Refuse(c) \/ Leave(c)
  \/ Behind

Spec == Init /\ [][Next]_sVars
=============================================================================
