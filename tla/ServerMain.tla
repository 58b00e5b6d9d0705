----------------------------- MODULE ServerMain -----------------------------
(***************************************************************************)
(* main() of the server: one process accepts connections, forks a child    *)
(* for each and counts them in curr_clients; the children run              *)
(* process_client and exit.  The parent's curr_clients and the children's  *)
(* are different variables: a child decrements its own copy and exits.     *)
(***************************************************************************)
EXTENDS Integers, Sequences, FiniteSets

CONSTANTS
  Clients,       \* connections that may be made
  max_clients,   \* atoi of the second argument
  Backlog,       \* connections the kernel keeps for listen(fd, 5)
  ForkFails      \* TRUE: fork() may return -1

ASSUME MaxAssumption     == max_clients \in Int
ASSUME BacklogAssumption == Backlog \in Nat \ {0}
ASSUME ForkAssumption    == ForkFails \in BOOLEAN

VARIABLES
  queue,         \* connections made and not accepted yet
  curr_clients,  \* the parent's counter
  children,      \* connections whose child runs process_client
  zombies,       \* those whose child has exited and was not waited for
  reaped,        \* those whose child wait(NULL) has collected
  dropped        \* those closed because fork() returned -1

vars == <<queue, curr_clients, children, zombies, reaped, dropped>>

Queued == {queue[i] : i \in DOMAIN queue}
Known  == Queued \cup children \cup zombies \cup reaped \cup dropped

Init ==
  /\ queue = << >>
  /\ curr_clients = 0
  /\ children = {} /\ zombies = {} /\ reaped = {} /\ dropped = {}

\* A proxy connects; when the queue is full the kernel makes it try again.
Connect(c) ==
  /\ c \notin Known
  /\ Len(queue) < Backlog
  /\ queue' = Append(queue, c)
  /\ UNCHANGED <<curr_clients, children, zombies, reaped, dropped>>

\* Mutant: the newest connection is accepted first.
Accept_Newest ==
  /\ curr_clients < max_clients
  /\ queue # << >>
  /\ queue' = SubSeq(queue, 1, Len(queue) - 1)
  /\ curr_clients' = curr_clients + 1
  /\ children' = children \cup {queue[Len(queue)]}
  /\ UNCHANGED <<zombies, reaped, dropped>>

\* Mutant: the limit is compared with <=.
Accept_OneMore ==
  /\ curr_clients <= max_clients
  /\ queue # << >>
  /\ queue' = Tail(queue)
  /\ curr_clients' = curr_clients + 1
  /\ children' = children \cup {Head(queue)}
  /\ UNCHANGED <<zombies, reaped, dropped>>

\* Mutant: the client whose fork() failed gets counted twice.
Accept_CountsTwice ==
  /\ curr_clients < max_clients
  /\ queue # << >>
  /\ queue' = Tail(queue)
  /\ \/ children' = children \cup {Head(queue)} /\ UNCHANGED dropped
        /\ curr_clients' = curr_clients + 1
     \/ ForkFails /\ dropped' = dropped \cup {Head(queue)} /\ UNCHANGED children
        /\ curr_clients' = curr_clients + 2
  /\ UNCHANGED <<zombies, reaped>>

\* accept() and fork(): counted before fork() is known to have succeeded.
Accept ==
  /\ curr_clients < max_clients
  /\ queue # << >>
  /\ queue' = Tail(queue)
  /\ curr_clients' = curr_clients + 1
  /\ \/ children' = children \cup {Head(queue)} /\ UNCHANGED dropped
     \/ ForkFails /\ dropped' = dropped \cup {Head(queue)} /\ UNCHANGED children
  /\ UNCHANGED <<zombies, reaped>>

\* process_client returned (or died): the decrement is lost with the process.
ChildExit(c) ==
  /\ c \in children
  /\ children' = children \ {c}
  /\ zombies' = zombies \cup {c}
  /\ UNCHANGED <<queue, curr_clients, reaped, dropped>>

\* Mutant: the parent leaves the loop instead of waiting again.
Wait_Once ==
  /\ curr_clients >= max_clients
  /\ reaped = {}
  /\ \E c \in zombies : zombies' = zombies \ {c} /\ reaped' = reaped \cup {c}
  /\ UNCHANGED <<queue, curr_clients, children, dropped>>

\* Mutant: the table entry of a collected child is kept.
Wait_KeepsEntry ==
  /\ curr_clients >= max_clients
  /\ \E c \in zombies : reaped' = reaped \cup {c}
  /\ UNCHANGED <<queue, curr_clients, children, zombies, dropped>>

\* wait(NULL) collects one child.  With none left it returns at once with an
\* error, which changes nothing.
Wait ==
  /\ curr_clients >= max_clients
  /\ \E c \in zombies : zombies' = zombies \ {c} /\ reaped' = reaped \cup {c}
  /\ UNCHANGED <<queue, curr_clients, children, dropped>>

Parent == Accept \/ Wait

Next ==
  \/ \E c \in Clients : Connect(c) \/ ChildExit(c)
  \/ Parent

Spec == Init /\ [][Next]_vars

\* The parent runs whenever accept() or wait() can return; sessions end.
FairSpec ==
  /\ Spec
  /\ WF_vars(Parent)
  /\ \A c \in Clients : WF_vars(ChildExit(c))

-----------------------------------------------------------------------------
(* Properties.                                                             *)

\* Types; every connection is in one place, once.
TypeOK ==
  /\ queue \in Seq(Clients) /\ Len(queue) <= Backlog
  /\ \A i, j \in DOMAIN queue : queue[i] = queue[j] => i = j
  /\ curr_clients \in Nat
  /\ children \subseteq Clients /\ zombies \subseteq Clients
  /\ reaped \subseteq Clients /\ dropped \subseteq Clients
  /\ Queued \cap (children \cup zombies \cup reaped \cup dropped) = {}
  /\ children \cap (zombies \cup reaped \cup dropped) = {}
  /\ zombies \cap (reaped \cup dropped) = {}
  /\ reaped \cap dropped = {}

\* Never more children than the limit given on the command line.
AtMostMax == children = {} \/ Cardinality(children) <= max_clients

\* The counter counts every connection ever accepted, also those whose child
\* was never created and those whose child has long exited: it never says how
\* many clients there are now (server.c:66 and 70).
CountsForever ==
  curr_clients = Cardinality(children \cup zombies \cup reaped \cup dropped)

\* Once the limit is reached every child that exits is collected.
ZombiesReaped ==
  \A c \in Clients : (c \in zombies /\ curr_clients >= max_clients) ~> c \in reaped

\* The server keeps the promise of Admission, as far as safety goes.
Promise ==
  INSTANCE Admission WITH waiting <- queue, active <- children,
                          left <- zombies \cup reaped \cup dropped
Admits == Promise!Spec

-----------------------------------------------------------------------------
(* What the comments and the report say.                                   *)

\* "espera pela saida de 1 cliente" (server.c:78): when a client has left, the
\* next one gets its place.
EveryoneServed == \A c \in Clients : c \in Queued ~> c \notin Queued
=============================================================================
