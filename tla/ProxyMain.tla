------------------------------ MODULE ProxyMain ------------------------------
(***************************************************************************)
(* The accept loop of the proxy's main(), in the two forms the repository  *)
(* has: Current is that of src/Projeto/proxy.c, Older that of src/proxy.c. *)
(* Unlike the server (module ServerMain) the proxy has no limit on its     *)
(* children.                                                               *)
(*                                                                         *)
(* A child is a number: the i-th fork made child i.  Of a session only     *)
(* its descriptors, its first read and its end are modelled; what happens  *)
(* in it is the subject of Session and ProxyMemory.                        *)
(***************************************************************************)
EXTENDS Integers, Sequences, FiniteSets

CONSTANTS
  Clients,      \* those who may connect, each once
  NoClient,     \* the value -1 of client
  Backlog,      \* second argument of listen()
  Forms,        \* the forms of the program that may have been built
  MaxFailures,  \* bound on the calls of accept() and fork() that fail
  MaxForks      \* bound on the children: there is one accept() for each client

\* waits: the waitpid loop is there and not commented out.
\* closesGood: before fork a descriptor > 0 is closed, not one < 0.
Current == [waits |-> FALSE, closesGood |-> FALSE]
Older   == [waits |-> TRUE, closesGood |-> TRUE]

ASSUME NoClientAssumption == NoClient \notin Clients
ASSUME BoundsAssumption   == Backlog \in Nat /\ MaxFailures \in Nat
ASSUME ForksAssumption    == MaxForks \in Nat /\ (IsFiniteSet(Clients) => Cardinality(Clients) <= MaxForks)
ASSUME FormAssumption     == Forms \subseteq {Current, Older}

VARIABLES
  form,      \* the form that runs; never changes
  at,        \* next call of the parent: waitpid, accept or fork
  client,    \* the parent's variable of this name
  open,      \* connections the parent has a descriptor of
  queue,     \* connections waiting for accept()
  fate,      \* history: what became of each client
  life,      \* per child: running, zombie or gone
  holds,     \* per child: connections it has a descriptor of
  given,     \* per child: its client_fd, the argument of initialize_connection
  failures   \* number of failed calls (bounds the model)

vars == <<form, at, client, open, queue, fate, life, holds, given, failures>>

Children    == DOMAIN life
Is(i, what) == i \in Children /\ life[i] = what

Init ==
  /\ form \in Forms
  /\ at = "reap" /\ client = NoClient /\ open = {} /\ queue = << >>
  /\ fate = [c \in Clients |-> "away"]
  /\ life = << >> /\ holds = << >> /\ given = << >>
  /\ failures = 0

\* A client connects: the kernel queues it.
Connect(c) ==
  /\ fate[c] = "away"
  /\ Len(queue) < Backlog
  /\ queue' = Append(queue, c)
  /\ fate' = [fate EXCEPT ![c] = "queued"]
  /\ UNCHANGED <<form, at, client, open, life, holds, given, failures>>

-----------------------------------------------------------------------------
(* Parent.                                                                 *)

Collect(i) == life[i] = "zombie" /\ life' = [life EXCEPT ![i] = "gone"]

\* Mutant: "if" in place of "while".
Reap_Once ==
  /\ at = "reap"
  /\ at' = "accept"
  /\ \/ \E i \in Children : Collect(i)
     \/ (\A i \in Children : life[i] # "zombie") /\ UNCHANGED life
  /\ UNCHANGED <<form, client, open, queue, fate, holds, given, failures>>

\* while (waitpid(-1, NULL, WNOHANG) > 0);  or nothing.
Reap ==
  /\ at = "reap"
  /\ \/ form.waits /\ (\E i \in Children : Collect(i)) /\ UNCHANGED at
     \/ /\ form.waits => \A i \in Children : life[i] # "zombie"
        /\ at' = "accept" /\ UNCHANGED life
  /\ UNCHANGED <<form, client, open, queue, fate, holds, given, failures>>

\* Mutant: the test of the older proxy.
Accept_ClosesGood ==
  /\ at = "accept" /\ queue # << >>
  /\ client' = Head(queue)
  /\ queue' = Tail(queue)
  /\ fate' = [fate EXCEPT ![Head(queue)] = "accepted"]
  /\ at' = "fork"
  /\ UNCHANGED <<form, open, life, holds, given, failures>>

\* Mutant: both forms close what is < 0, as was meant.
Accept_ClosesBad ==
  /\ at = "accept" /\ queue # << >>
  /\ client' = Head(queue)
  /\ queue' = Tail(queue)
  /\ fate' = [fate EXCEPT ![Head(queue)] = "accepted"]
  /\ open' = open \cup {Head(queue)}
  /\ at' = "fork"
  /\ UNCHANGED <<form, life, holds, given, failures>>

\* accept() returns a descriptor, and the older proxy closes it at once.
Accept ==
  /\ at = "accept" /\ queue # << >>
  /\ client' = Head(queue)
  /\ queue' = Tail(queue)
  /\ fate' = [fate EXCEPT ![Head(queue)] = "accepted"]
  /\ open' = IF form.closesGood THEN open ELSE open \cup {Head(queue)}
  /\ at' = "fork"
  /\ UNCHANGED <<form, life, holds, given, failures>>

\* Mutant: the descriptor -1 is taken for a connection.
AcceptFail_Opens ==
  /\ at = "accept" /\ queue # << >>
  /\ failures < MaxFailures
  /\ failures' = failures + 1
  /\ client' = NoClient
  /\ open' = open \cup {NoClient}
  /\ fate' = [fate EXCEPT ![Head(queue)] = "aborted"]
  /\ queue' = Tail(queue)
  /\ at' = "fork"
  /\ UNCHANGED <<form, life, holds, given>>

\* accept() returns -1 for a connection that was aborted in the queue.  close(-1)
\* changes nothing, and the program goes on to fork.
AcceptFail ==
  /\ at = "accept" /\ queue # << >>
  /\ failures < MaxFailures
  /\ failures' = failures + 1
  /\ client' = NoClient
  /\ fate' = [fate EXCEPT ![Head(queue)] = "aborted"]
  /\ queue' = Tail(queue)
  /\ at' = "fork"
  /\ UNCHANGED <<form, open, life, holds, given>>

\* Mutant: the parent keeps its descriptor.
Fork_NoClose ==
  /\ at = "fork"
  /\ life' = Append(life, "runs")
  /\ holds' = Append(holds, open)
  /\ given' = Append(given, client)
  /\ at' = "reap"
  /\ UNCHANGED <<form, client, open, queue, fate, failures>>

\* fork(): the child inherits what is open, the parent closes client.
Fork ==
  /\ at = "fork"
  /\ life' = Append(life, "runs")
  /\ holds' = Append(holds, open)
  /\ given' = Append(given, client)
  /\ open' = open \ {client}
  /\ at' = "reap"
  /\ UNCHANGED <<form, client, queue, fate, failures>>

\* fork() returns -1, which is not 0: the parent closes client.
ForkFail ==
  /\ at = "fork"
  /\ failures < MaxFailures
  /\ failures' = failures + 1
  /\ open' = open \ {client}
  /\ fate' = IF client = NoClient THEN fate ELSE [fate EXCEPT ![client] = "refused"]
  /\ at' = "reap"
  /\ UNCHANGED <<form, client, queue, life, holds, given>>

-----------------------------------------------------------------------------
(* Child i: initialize_connection(client_fd, ...) and exit.                *)

\* Its first read() succeeds if client_fd is open in it.
Serve(i) ==
  /\ life[i] = "runs"
  /\ given[i] \in holds[i]
  /\ fate[given[i]] = "accepted"
  /\ fate' = [fate EXCEPT ![given[i]] = "served"]
  /\ UNCHANGED <<form, at, client, open, queue, life, holds, given, failures>>

Exit(i) ==
  /\ life' = [life EXCEPT ![i] = "zombie"]
  /\ holds' = [holds EXCEPT ![i] = {}]
  /\ UNCHANGED <<form, at, client, open, queue, fate, given, failures>>

\* If not, the buffer stays empty and strcpy of a null pointer kills the child.
Crash(i) == life[i] = "runs" /\ given[i] \notin holds[i] /\ Exit(i)

\* The session ends.
End(i) == life[i] = "runs" /\ given[i] \in holds[i] /\ fate[given[i]] = "served" /\ Exit(i)

-----------------------------------------------------------------------------
Parent == Reap \/ Accept \/ AcceptFail \/ Fork \/ ForkFail

Next ==
  \/ \E c \in Clients : Connect(c)
  \/ Parent
  \/ \E i \in Children : Serve(i) \/ Crash(i) \/ End(i)

Spec == Init /\ [][Next]_vars

\* The scheduler runs parent and children.  A session may last for ever.
FairSpec ==
  /\ Spec
  /\ WF_vars(Parent)
  /\ \A i \in 1..MaxForks : WF_vars(i \in Children /\ (Serve(i) \/ Crash(i)))

-----------------------------------------------------------------------------
(* Properties.                                                             *)

\* Types of the parent's variables, the kernel's queue and the table of children.
TypeOK ==
  /\ form \in Forms
  /\ at \in {"reap", "accept", "fork"}
  /\ client \in Clients \cup {NoClient} /\ open \subseteq Clients
  /\ queue \in Seq(Clients)
  /\ fate \in [Clients -> {"away", "queued", "accepted", "served", "refused", "aborted"}]
  /\ life \in Seq({"runs", "zombie", "gone"})
  /\ holds \in Seq(SUBSET Clients) /\ given \in Seq(Clients \cup {NoClient})
  /\ Len(holds) = Len(life) /\ Len(given) = Len(life)
  /\ failures \in 0..MaxFailures

\* A connection is open in at most one process between two forks, so that the
\* client sees the end of its session when the child ends: nothing the parent
\* has closed or passed on stays open in it, and later children inherit nothing.
HangsUp ==
  /\ \A c \in open : at = "fork" /\ c = client
  /\ \A i, j \in Children : holds[i] \cap holds[j] # {} => i = j
  /\ at = "fork" => \A i \in Children : client \notin holds[i]

\* src/proxy.c:59, "clean finished child processes, avoiding zombies": with the
\* loop in place a finished child is collected when the next client comes.
ZombiesCollected ==
  form.waits => \A i \in 1..MaxForks : (Is(i, "zombie") /\ queue # << >>) ~> Is(i, "gone")

\* Projeto/proxy.c:98-116: who connects gets a child that can read what it
\* sends, unless accept() or fork() fails for this very client.
EveryoneServed ==
  ~form.closesGood =>
    \A c \in Clients : fate[c] = "queued" ~> fate[c] \in {"served", "refused", "aborted"}

\* src/proxy.c:64-70: the older proxy's children inherit nothing to read from,
\* so that nobody is ever served and no child lives beyond its first read.
OlderServesNobody ==
  form.closesGood =>
    /\ \A c \in Clients : fate[c] # "served"
    /\ \A i \in Children : holds[i] = {}
=============================================================================
