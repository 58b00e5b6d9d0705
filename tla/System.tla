------------------------------- MODULE System -------------------------------
(***************************************************************************)
(* The whole system: clients, the proxy's main() and its children, the     *)
(* server's main() and its children.  ServerMain (extended) and ProxyMain  *)
(* (instance Proxy) give the two main() and the tables of children; this   *)
(* module adds the clients, and what the two children of a client do with  *)
(* their connections.  Of a command only its way to the server and back is *)
(* modelled: Session looks at the messages, and once a read of a session   *)
(* has returned no message of it (Misread), it is not followed any more.   *)
(***************************************************************************)
EXTENDS ServerMain

CONSTANTS
  NoClient, Forms, MaxFailures, MaxForks,   \* see ProxyMain
  MaxAsks,      \* bound on the commands of each client
  MaxEvents,    \* bound on arrivals, deaths and sessions out of step, together
  Watched       \* clients the liveness properties speak of (all are alike)

ASSUME SystemAssumption == MaxAsks \in [Clients -> Nat] /\ MaxEvents \in Nat /\ Watched \subseteq Clients

VARIABLES
  form, at, client, open, pQueue, fate, life, holds, given, failures,  \* see ProxyMain
  user,    \* each client process: away, here, gone (after QUIT), killed, or
           \* reset (killed, and something has been written to its socket)
  stage,   \* its command: none, typed, passed on to the server, answered; udp: a
           \* UDP download that got its 1, datagram: the client waits for its file;
           \* held: the proxy child waits for the semaphore with it; lost: it has
           \* been swallowed, or its answer has; spin: the proxy child loops
  passed,  \* clients whose proxy child has had a command
  told,    \* history: clients that have got an answer of the server, to its end
  asks,    \* number of commands of each client (bounds the model)
  deaths,  \* number of processes killed (bounds the model)
  stuck,   \* whether the holder of semSHM has been killed
  spins,   \* clients whose server child has been sent into a file of whole blocks
  upset    \* history: clients a read of whose session has been no message

Proxy == INSTANCE ProxyMain WITH queue <- pQueue

\* What ProxyMain assumes of its constants.
ASSUME ProxyAssumption ==
  /\ NoClient \notin Clients /\ MaxFailures \in Nat /\ MaxForks \in Nat
  /\ IsFiniteSet(Clients) => Cardinality(Clients) <= MaxForks
  /\ Forms \subseteq {Proxy!Current, Proxy!Older}

proxyVars  == <<form, at, client, open, pQueue, fate, life, holds, given, failures>>
harm       == <<stuck, spins, upset>>
clientVars == <<user, stage, passed, told, asks, deaths, harm>>
systemVars == <<vars, proxyVars, clientVars>>

SystemInit ==
  /\ Init /\ Proxy!Init
  /\ user = [c \in Clients |-> "away"]
  /\ stage = [c \in Clients |-> "none"]
  /\ passed = {} /\ told = {}
  /\ asks = [c \in Clients |-> 0] /\ deaths = 0
  /\ stuck = FALSE /\ spins = {} /\ upset = {}

Set(v, c, to) == [v EXCEPT ![c] = to]
Move(c, to)   == stage' = Set(stage, c, to)

\* Arrivals, deaths and sessions out of step, no more than MaxEvents together.
Events == Cardinality({c \in Clients : user[c] # "away"}) + deaths + Cardinality(upset)

-----------------------------------------------------------------------------
(* Clients.                                                                *)

\* The client connects to the proxy and writes the first message.
Arrive(c) ==
  /\ user[c] = "away"
  /\ Events < MaxEvents
  /\ Proxy!Connect(c)
  /\ user' = Set(user, c, "here")
  /\ UNCHANGED <<vars, stage, passed, told, asks, deaths, harm>>

\* It needs no answer to the first message: a command may follow at once.
Ask(c) ==
  /\ user[c] = "here" /\ stage[c] = "none"
  /\ asks[c] < MaxAsks[c]
  /\ asks' = Set(asks, c, asks[c] + 1)
  /\ Move(c, "typed")
  /\ UNCHANGED <<vars, proxyVars, user, passed, told, deaths, harm>>

Quit(c) ==
  /\ user[c] = "here" /\ stage[c] = "none"
  /\ user' = Set(user, c, "gone")
  /\ UNCHANGED <<vars, proxyVars, stage, passed, told, asks, deaths, harm>>

\* The other end of the client's connection is open in no process of the proxy.
HungUp(c) ==
  /\ fate[c] \notin {"away", "queued"}
  /\ c \notin open
  /\ \A i \in Proxy!Children : c \notin holds[i]

\* receive_int_TCP returns 0 at end of file; recvfrom on the UDP socket does not.
ReadEnd(c) ==
  /\ user[c] = "here" /\ stage[c] \notin {"none", "datagram"}
  /\ HungUp(c)
  /\ Move(c, "none")
  /\ UNCHANGED <<vars, proxyVars, user, passed, told, asks, deaths, harm>>

-----------------------------------------------------------------------------
(* Proxy child i: initialize_connection and process_clientTCP.             *)

Runs(i)      == i \in Proxy!Children /\ life[i] = "runs" /\ given[i] \in Clients
Connected(c) == c \in Known

\* The first message is there as soon as the client is.  What has come behind
\* it is read with it and lost: a command, or QUIT.
FirstRead(c) ==
  \/ UNCHANGED <<user, stage>>
  \/ stage[c] = "typed" /\ Move(c, "lost") /\ UNCHANGED user
  \/ user[c] = "gone" /\ user' = Set(user, c, "killed") /\ UNCHANGED stage

\* The child stores the client's address inside the semaphore and reads.
Hello(i) ==
  /\ Runs(i) /\ ~stuck
  /\ \/ Proxy!Serve(i) /\ FirstRead(given[i])
     \/ Proxy!Crash(i) /\ UNCHANGED <<user, stage>>
  /\ UNCHANGED <<vars, passed, told, asks, deaths, harm>>

\* Mutant: the child connects before it has read the first message.
Dialling_Early(i) == Runs(i) /\ ~Connected(given[i]) /\ ~stuck

\* It stores the server's address inside the semaphore and connects.
Dialling(i) == Runs(i) /\ fate[given[i]] = "served" /\ ~Connected(given[i]) /\ ~stuck

\* connect() returns as soon as the kernel has put it into the server's queue.
Reach(i) ==
  /\ Dialling(i)
  /\ Connect(given[i])
  /\ UNCHANGED <<proxyVars, clientVars>>

\* connect() times out when the queue stays full: erro("Connect").
GiveUp(i) ==
  /\ Dialling(i)
  /\ Len(queue) = Backlog
  /\ Proxy!End(i)
  /\ UNCHANGED <<vars, clientVars>>

\* Ready for the next command.
Listening(i, c) == Runs(i) /\ c = given[i] /\ Connected(c)

PassOn(i) ==
  LET c == given[i] IN
  /\ Listening(i, c) /\ stage[c] = "typed"
  /\ Move(c, "passed")
  /\ passed' = passed \cup {c}
  /\ UNCHANGED <<vars, proxyVars, user, told, asks, deaths, harm>>

\* QUIT is passed on and ends the child.
PassQuit(i) ==
  /\ Listening(i, given[i]) /\ user[given[i]] = "gone"
  /\ Proxy!End(i)
  /\ UNCHANGED <<vars, clientVars>>

\* No command of c is with the proxy's child or the server's.
Idle(c) == stage[c] \in {"none", "lost", "datagram"}

\* The client has gone without QUIT: its last command is passed on again.
Replay(i) ==
  LET c == given[i] IN
  /\ Listening(i, c) /\ Idle(c)
  /\ user[c] \in {"killed", "reset"} /\ c \in passed
  /\ Move(c, "passed")
  /\ UNCHANGED <<vars, proxyVars, user, passed, told, asks, deaths, harm>>

\* It has gone without a command: the child loops for ever or dies.
Spin(i) ==
  LET c == given[i] IN
  /\ Listening(i, c) /\ Idle(c)
  /\ user[c] = "killed" /\ c \notin passed
  /\ \/ Move(c, "spin") /\ UNCHANGED proxyVars
     \/ Proxy!End(i) /\ UNCHANGED stage
  /\ UNCHANGED <<vars, user, passed, told, asks, deaths, harm>>

\* What the server has said, or 0 at the end of its stream, goes to the client,
\* which takes an accepted UDP download for the sign to wait for a datagram.
\* The first write to a client that has gone may succeed, the next cannot.
Relay(i, said) ==
  LET c == given[i] IN
  /\ Listening(i, c)
  /\ said
  /\ \/ /\ user[c] = "here"
        /\ Move(c, IF stage[c] = "udp" THEN "datagram" ELSE "none")
        /\ told' = IF stage[c] = "answered" THEN told \cup {c} ELSE told
        /\ UNCHANGED <<proxyVars, user>>
     \/ /\ user[c] = "killed"
        /\ Move(c, "none")
        /\ user' = Set(user, c, "reset")
        /\ UNCHANGED <<proxyVars, told>>
     \/ /\ user[c] \in {"killed", "reset"}
        /\ Proxy!End(i)
        /\ UNCHANGED <<stage, user, told>>
  /\ UNCHANGED <<vars, passed, asks, deaths, harm>>

\* The server's end of the connection is closed.
Closed(c) == c \in zombies \cup reaped \cup dropped

\* Mutant: a server that has gone is waited for.
RelayNumber_Waits(i) == Relay(i, stage[given[i]] \in {"answered", "udp"})

RelayNumber(i) ==
  LET c == given[i] IN
  Relay(i, stage[c] \in {"answered", "udp"} \/ (stage[c] = "passed" /\ Closed(c)))

\* A download waits for the semaphore before it stores the protocol, before it
\* opens the file and before each block.
Hold(i) ==
  LET c == given[i] IN
  /\ Listening(i, c) /\ stage[c] = "answered" /\ stuck
  /\ Move(c, "held")
  /\ UNCHANGED <<vars, proxyVars, user, passed, told, asks, deaths, harm>>

-----------------------------------------------------------------------------
(* Server child of c: process_client.                                      *)

\* A file of whole blocks keeps the child for ever: what it sends is complete
\* for the proxy and the client, which give up after three seconds.
Answer(c) ==
  /\ c \in children \ spins /\ stage[c] = "passed"
  /\ Move(c, "answered")
  /\ spins' \in {spins, spins \cup {c}}
  /\ UNCHANGED <<vars, proxyVars, user, passed, told, asks, deaths, stuck, upset>>

\* handleUDP ends the child: its first sendto fails.  NOR has sent 1 before.
AnswerUDP(c) ==
  /\ c \notin spins /\ stage[c] = "passed"
  /\ ChildExit(c)
  /\ stage' \in {stage, Set(stage, c, "udp")}
  /\ UNCHANGED <<proxyVars, user, passed, told, asks, deaths, harm>>

\* The proxy child of c has ended, with QUIT or without.
Left(c) == \E i \in Proxy!Children : given[i] = c /\ life[i] # "runs"

\* Mutant: the child waits for another command.
Finish_Waits(c) == Left(c) /\ c \in children /\ UNCHANGED systemVars

\* QUIT, or the end of the stream, if the child ever reads again.
Finish(c) ==
  /\ Left(c) /\ c \notin spins
  /\ ChildExit(c)
  /\ UNCHANGED <<proxyVars, clientVars>>

-----------------------------------------------------------------------------
(* Sessions out of step: Session shows how they come about.                *)

\* A read on the way of a command or its answer returns no message: a block of a
\* file cut short, two names in one, a DOWNLOAD in two pieces.
Misread(c) ==
  /\ stage[c] \in {"passed", "answered"}
  /\ c \in upset \/ Events < MaxEvents
  /\ Move(c, "lost")
  /\ upset' = upset \cup {c}
  /\ UNCHANGED <<vars, proxyVars, user, passed, told, asks, deaths, stuck, spins>>

\* From then on the client may take for an answer what the server has sent
\* before, and either child may die of what it takes for a command.
Adrift(c) ==
  /\ c \in upset
  /\ \/ /\ user[c] = "here" /\ stage[c] \notin {"none", "datagram"}
        /\ c \in children \cup zombies \cup reaped
        /\ Move(c, "none") /\ told' = told \cup {c}
        /\ UNCHANGED <<vars, proxyVars>>
     \/ \E i \in Proxy!Children : given[i] = c /\ Proxy!End(i) /\ UNCHANGED <<vars, stage, told>>
     \/ ChildExit(c) /\ UNCHANGED <<proxyVars, stage, told>>
  /\ UNCHANGED <<user, passed, asks, deaths, harm>>

-----------------------------------------------------------------------------
(* A process is killed, or ends by an error of its own.                    *)

\* Proxy child i can be inside one of the sections of semSHM.
MayHold(i) ==
  LET c == given[i] IN
  /\ ~form.closesGood
  /\ Runs(i)
  /\ \/ fate[c] = "accepted"
     \/ fate[c] = "served" /\ ~Connected(c)
     \/ stage[c] = "answered"

\* The operator's process, of which nothing else is modelled here, can be in one.
Death ==
  /\ Events < MaxEvents
  /\ deaths' = deaths + 1
  /\ UNCHANGED <<passed, told, asks, stage, spins, upset>>
  /\ \/ /\ \E c \in Clients : user[c] = "here" /\ user' = Set(user, c, "killed")
        /\ UNCHANGED <<vars, proxyVars, stuck>>
     \/ /\ \E c \in Clients : ChildExit(c)
        /\ UNCHANGED <<proxyVars, user, stuck>>
     \/ /\ \E i \in Proxy!Children :
              /\ life[i] = "runs" /\ Proxy!Exit(i)
              /\ UNCHANGED stuck \/ (MayHold(i) /\ stuck' = TRUE)
        /\ UNCHANGED <<vars, user>>
     \/ /\ ~form.closesGood /\ stuck' = TRUE
        /\ UNCHANGED <<vars, proxyVars, user>>

ProxyParent  == Proxy!Parent /\ UNCHANGED <<vars, clientVars>>
ServerParent == Parent /\ UNCHANGED <<proxyVars, clientVars>>

ProxyChild(i) ==
  \/ Hello(i) \/ Reach(i) \/ GiveUp(i) \/ PassOn(i) \/ PassQuit(i)
  \/ Replay(i) \/ Spin(i) \/ RelayNumber(i) \/ Hold(i)

ServerChild(c) == Answer(c) \/ AnswerUDP(c) \/ Finish(c)

SystemNext ==
  \/ \E c \in Clients :
       Arrive(c) \/ Ask(c) \/ Quit(c) \/ ReadEnd(c) \/ ServerChild(c) \/ Misread(c) \/ Adrift(c)
  \/ \E i \in Proxy!Children : ProxyChild(i)
  \/ ProxyParent \/ ServerParent
  \/ Death

SystemSpec == SystemInit /\ [][SystemNext]_systemVars

\* Every process runs when it can.  Users need not type anything, not even QUIT.
SystemFair ==
  /\ SystemSpec
  /\ WF_systemVars(ProxyParent) /\ WF_systemVars(ServerParent)
  /\ \A i \in 1..MaxForks : WF_systemVars(ProxyChild(i))
  /\ \A c \in Clients : WF_systemVars(ServerChild(c)) /\ WF_systemVars(ReadEnd(c))

-----------------------------------------------------------------------------
(* Properties.                                                             *)

Waiting(c) == user[c] = "here" /\ stage[c] # "none"
Full       == curr_clients >= max_clients

\* Types of the clients' variables, and how far a command can have come.
SystemTypeOK ==
  /\ user \in [Clients -> {"away", "here", "gone", "killed", "reset"}]
  /\ stage \in [Clients -> {"none", "typed", "passed", "answered", "udp", "datagram",
                           "held", "lost", "spin"}]
  /\ told \cup spins \cup upset \subseteq passed /\ passed \subseteq Clients
  /\ asks \in [Clients -> Nat] /\ \A c \in Clients : asks[c] <= MaxAsks[c]
  /\ deaths \in 0..MaxEvents
  /\ stuck \in BOOLEAN /\ (stuck => ~form.closesGood)
  /\ \A c \in Clients :
       /\ fate[c] # "served" => c \notin Known
       /\ stage[c] \in {"passed", "answered", "udp", "held"} => c \in passed /\ c \in Known

\* The system keeps the promise of Service: who gets an answer that is not 0 is
\* one of the max_clients clients the server ever takes on, and nobody is
\* refused while its processes are there.
State(c) ==
  CASE user[c] = "away"                     -> "away"
    [] user[c] = "here" /\ stage[c] = "none" -> "ready"
    [] Waiting(c)                           -> "waiting"
    [] OTHER                                -> "gone"

Promised ==
  INSTANCE Service WITH
    state <- [c \in Clients |-> State(c)],
    admitted <- children \cup zombies \cup reaped,
    failed <- {c \in Clients : HungUp(c) \/ Closed(c)}
Serves == Promised!Spec

\* The child of c waits for the semaphore of a process that has been killed.
BehindTheDead(c) == stuck /\ (c \notin Known \/ stage[c] = "held")

\* The server child of c is in a file of whole blocks and reads no command.
Spins(c) == c \in spins /\ c \in children

\* Who waits for an answer gets it to its end, or a refusal, unless its connection
\* is in the queue of a server that has had max_clients clients, its command has
\* been read with the first message, or it or its answer in a read that was no
\* message, its file is to come by UDP, its server child sends the end of an
\* earlier file for ever, or the semaphore's holder has been killed.
NobodyElseWaits ==
  \A c \in Watched :
    Waiting(c) ~> (\/ ~Waiting(c)
                   \/ Full /\ c \in Queued
                   \/ stage[c] \in {"lost", "datagram"} \/ Spins(c)
                   \/ BehindTheDead(c))

\* When a client has left, its proxy child and its server child end, unless the
\* proxy child waits in that queue or for that semaphore, or loops over a command
\* it never had, the server child does over the end of a file, or a read of the
\* session has been no message.
OrphansEnd ==
  \A c \in Watched :
    user[c] \in {"gone", "killed", "reset"} ~>
      \/ c \notin children /\ HungUp(c)
      \/ Full /\ c \in Queued
      \/ stage[c] = "spin" \/ Spins(c)
      \/ BehindTheDead(c) \/ c \in upset
=============================================================================
