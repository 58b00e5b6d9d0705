---------------------------- MODULE SystemProofs ----------------------------
(* Theorems about System, for any set of clients, every limit and every    *)
(* way in which the proxy's main() behaves.                                *)
EXTENDS System, ServerMainProofs

\* The server's main() neither knows nor needs anything of the rest.
LEMMA ServerSteps ==
  ASSUME [SystemNext]_systemVars
  PROVE  [Next]_vars
<1>1. ASSUME NEW c \in Clients,
             \/ Arrive(c) \/ Ask(c) \/ Quit(c) \/ ReadEnd(c) \/ ServerChild(c)
             \/ Misread(c) \/ Adrift(c)
      PROVE  [Next]_vars
  BY <1>1 DEF Arrive, Ask, Quit, ReadEnd, ServerChild, Answer, AnswerUDP, Finish,
              Misread, Adrift, Next
<1>2. ASSUME NEW i \in Proxy!Children, ProxyChild(i)
      PROVE  [Next]_vars
  BY <1>2 DEF ProxyChild, Hello, Reach, GiveUp, PassOn, PassQuit, Replay, Spin,
              RelayNumber, Relay, Hold, Dialling, Runs, Next
<1>3. CASE Death
  BY <1>3 DEF Death, Next
<1>4. CASE ProxyParent \/ ServerParent \/ UNCHANGED systemVars
  BY <1>4 DEF ProxyParent, ServerParent, systemVars, Next
<1>5. QED BY <1>1, <1>2, <1>3, <1>4 DEF SystemNext

\* The server's invariant holds in the system.
LEMMA ServerInvariance == SystemSpec => []IInv
<1>1. SystemSpec => Spec
  <2>1. SystemInit => Init
    BY DEF SystemInit
  <2>2. [SystemNext]_systemVars => [Next]_vars
    BY ServerSteps
  <2>3. QED BY <2>1, <2>2, PTL DEF SystemSpec, Spec
<1>2. QED BY <1>1, Inductive, PTL

-----------------------------------------------------------------------------
\* Clients whose connection the server has accepted and given to a child.
Admitted == children \cup zombies \cup reaped

Users  == {"away", "here", "gone", "killed", "reset"}
Stages == {"none", "typed", "passed", "answered", "udp", "datagram", "held", "lost", "spin"}

\* Who has not come has asked nothing; only the child of a client answers it.
UserInv ==
  /\ user \in [Clients -> Users]
  /\ stage \in [Clients -> Stages]
  /\ \A c \in Clients : user[c] = "away" => stage[c] = "none"
  /\ \A c \in Clients : stage[c] = "answered" => c \in Admitted

\* Nobody is sent away whom the server has taken on.
LEMMA AdmittedGrows ==
  ASSUME [Next]_vars
  PROVE  Admitted \subseteq Admitted'
BY DEF Next, Parent, Connect, ChildExit, Accept, Wait, vars, Admitted

LEMMA UserStep ==
  ASSUME UserInv, [SystemNext]_systemVars
  PROVE  UserInv'
<1>1. Admitted \subseteq Admitted'
  BY ServerSteps, AdmittedGrows
<1>2. ASSUME NEW c \in Clients, Arrive(c) \/ Ask(c) \/ Quit(c) \/ ReadEnd(c)
      PROVE  UserInv'
  BY <1>1, <1>2 DEF UserInv, Users, Stages, Arrive, Ask, Quit, ReadEnd, Set, Move
<1>3. ASSUME NEW c \in Clients, Answer(c) \/ AnswerUDP(c) \/ Misread(c) \/ Adrift(c)
      PROVE  UserInv'
  <2>1. Answer(c) => c \in Admitted'
    BY <1>1, <1>3 DEF Answer, Admitted
  <2>2. QED BY <1>1, <1>3, <2>1
            DEF UserInv, Users, Stages, Answer, AnswerUDP, Misread, Adrift, Set, Move
<1>4. ASSUME NEW i \in Proxy!Children, ProxyChild(i)
      PROVE  UserInv'
  <2>1. CASE Reach(i) \/ GiveUp(i) \/ PassQuit(i)
    BY <1>1, <2>1 DEF UserInv, Reach, GiveUp, PassQuit, clientVars
  <2>2. CASE PassOn(i) \/ Replay(i) \/ Hold(i)
    BY <1>1, <2>2 DEF UserInv, Stages, PassOn, Replay, Hold, Move, Set
  <2>3. CASE Spin(i) \/ Hello(i)
    BY <1>1, <2>3 DEF UserInv, Users, Stages, Spin, Hello, FirstRead, Move, Set
  <2>4. CASE RelayNumber(i)
    BY <1>1, <2>4 DEF UserInv, Users, Stages, RelayNumber, Relay, Move, Set
  <2>5. QED BY <1>4, <2>1, <2>2, <2>3, <2>4 DEF ProxyChild
<1>5. CASE Death
  BY <1>1, <1>5 DEF UserInv, Users, Death, Set
<1>6. ASSUME \/ ProxyParent \/ ServerParent \/ UNCHANGED systemVars
             \/ \E c \in Clients : Finish(c)
      PROVE  UserInv'
  BY <1>1, <1>6 DEF UserInv, ProxyParent, ServerParent, Finish, systemVars, clientVars
<1>7. QED BY <1>2, <1>3, <1>4, <1>5, <1>6 DEF SystemNext, ServerChild

LEMMA UserInvariance == SystemSpec => []UserInv
<1>1. SystemInit => UserInv
  BY DEF SystemInit, UserInv, Users, Stages
<1>2. UserInv /\ [SystemNext]_systemVars => UserInv'
  BY UserStep
<1>3. QED BY <1>1, <1>2, PTL DEF SystemSpec

-----------------------------------------------------------------------------
\* In the whole system too the limit given on the command line is kept.
THEOREM SystemKeepsTheLimit == SystemSpec => []AtMostMax
BY WithinLimit, ServerInvariance, PTL

-----------------------------------------------------------------------------
\* What the users see, as Service names it.
Seen == [c \in Clients |-> State(c)]

\* One acceptance leaves the clients taken on within the limit.
LEMMA TakingOn ==
  ASSUME IInv, Accept
  PROVE  \/ Admitted' = Admitted
         \/ /\ Cardinality(Admitted) < max_clients
            /\ \E c \in Clients : Admitted' = Admitted \cup {c}
<1>1. Head(queue) \in Clients
  BY HeadTailFacts DEF Accept, IInv, TypeOK
<1>2. Cardinality(Admitted) < max_clients
  <2>1. IsFiniteSet(Accepted) /\ Admitted \subseteq Accepted
    BY DEF IInv, CountInv, Accepted, Admitted
  <2>2. /\ Cardinality(Admitted) <= Cardinality(Accepted)
        /\ Cardinality(Admitted) \in Nat /\ Cardinality(Accepted) \in Nat
    BY <2>1, FS_Subset, FS_CardinalityType
  <2>3. Cardinality(Accepted) < max_clients
    BY DEF Accept, IInv, CountInv
  <2>4. QED BY <2>2, <2>3, MaxAssumption
<1>3. \/ children' = children \cup {Head(queue)}
      \/ UNCHANGED children
  BY DEF Accept
<1>4. zombies' = zombies /\ reaped' = reaped
  BY DEF Accept
<1>5. QED BY <1>1, <1>2, <1>3, <1>4 DEF Admitted

\* Every step of the server's main() and of its children is behind the scenes.
LEMMA ServerBehind ==
  ASSUME IInv, [Next]_vars, UNCHANGED <<Seen, told>>
  PROVE  Promised!Behind
<1>1. UNCHANGED <<[c \in Clients |-> State(c)], told>>
  BY DEF Seen
<1>2. CASE Accept
  <2>1. Promised!Cardinality(children \cup zombies \cup reaped)
          = Cardinality(children \cup zombies \cup reaped)
    BY DEF Promised!Cardinality, Cardinality
  <2>2. QED BY <1>1, <1>2, <2>1, TakingOn DEF Promised!Behind, Admitted
<1>3. CASE ~Accept
  <2>1. UNCHANGED (children \cup zombies \cup reaped)
    BY <1>3 DEF Next, Parent, Connect, ChildExit, Wait, vars
  <2>2. QED BY <1>1, <2>1 DEF Promised!Behind
<1>4. QED BY <1>2, <1>3

\* A client's view depends on these two.
LEMMA SeenSame ==
  ASSUME UNCHANGED <<user, stage>>
  PROVE  UNCHANGED Seen
BY DEF Seen, State, Waiting

\* The same for a step that leaves the server alone and changes no user's view.
LEMMA OthersBehind ==
  ASSUME UNCHANGED <<Seen, told, children, zombies, reaped>>
  PROVE  Promised!Behind
BY DEF Promised!Behind, Seen

\* A client that changes its view alone.
LEMMA SeenOf ==
  ASSUME UserInv, NEW c \in Clients,
         user' \in [Clients -> Users],
         stage' \in [Clients -> Stages],
         \A d \in Clients \ {c} : user'[d] = user[d] /\ stage'[d] = stage[d]
  PROVE  Seen' = [Seen EXCEPT ![c] = State(c)']
<1>1. \A d \in Clients \ {c} : State(d)' = State(d)
  BY DEF State, Waiting
<1>2. QED BY <1>1 DEF Seen

\* What a user does, or the end of its command, is a step of its own in Service.
LEMMA UsersSteps ==
  ASSUME UserInv, NEW c \in Clients,
         Arrive(c) \/ Ask(c) \/ Quit(c) \/ ReadEnd(c)
  PROVE  Promised!Next
<1> USE DEF Users, Stages
<1>1. Seen' = [Seen EXCEPT ![c] = State(c)'] /\ Seen[c] = State(c)
  <2>1. \A d \in Clients \ {c} : user'[d] = user[d] /\ stage'[d] = stage[d]
    BY DEF UserInv, Arrive, Ask, Quit, ReadEnd, Set, Move
  <2>2. user' \in [Clients -> Users]
    BY DEF UserInv, Arrive, Ask, Quit, ReadEnd, Set
  <2>3. stage' \in [Clients -> Stages]
    BY DEF UserInv, Arrive, Ask, Quit, ReadEnd, Move, Set
  <2>4. QED BY <2>1, <2>2, <2>3, SeenOf DEF Seen
<1>2. UNCHANGED <<told, children \cup zombies \cup reaped>>
  BY DEF Arrive, Ask, Quit, ReadEnd, vars
<1>3. CASE Arrive(c)
  <2>1. State(c) = "away" /\ State(c)' = "ready"
    BY <1>3 DEF Arrive, Set, UserInv, State, Waiting
  <2>2. QED BY <1>1, <1>2, <2>1
            DEF Seen, Promised!Next, Promised!Arrive, Promised!Become
<1>4. CASE Ask(c)
  <2>1. State(c) = "ready" /\ State(c)' = "waiting"
    BY <1>4 DEF Ask, Move, Set, UserInv, State, Waiting
  <2>2. QED BY <1>1, <1>2, <2>1
            DEF Seen, Promised!Next, Promised!Ask, Promised!Become
<1>5. CASE Quit(c)
  <2>1. State(c) = "ready" /\ State(c)' = "gone"
    BY <1>5 DEF Quit, Set, UserInv, State, Waiting
  <2>2. QED BY <1>1, <1>2, <2>1 DEF Seen, Promised!Next, Promised!Leave
<1>6. CASE ReadEnd(c)
  <2>1. State(c) = "waiting" /\ State(c)' = "ready"
    BY <1>6 DEF ReadEnd, Move, Set, UserInv, State, Waiting
  <2>2. HungUp(c)
    BY <1>6 DEF ReadEnd
  <2>3. QED BY <1>1, <1>2, <2>1, <2>2
            DEF Seen, Promised!Next, Promised!Refuse, Promised!Become
<1>7. QED BY <1>3, <1>4, <1>5, <1>6

\* The proxy's child brings a client its answer, or the news that there is none.
LEMMA RelayStep ==
  ASSUME UserInv, NEW i \in Proxy!Children, RelayNumber(i),
         NEW c \in Clients, c = given[i]
  PROVE  Promised!Next
<1>1. /\ stage[c] \in {"answered", "udp"} \/ (stage[c] = "passed" /\ Closed(c))
      /\ UNCHANGED <<vars, passed, asks, deaths>>
  BY DEF RelayNumber, Relay, Listening
<1>2. UNCHANGED <<children, zombies, reaped>>
  BY <1>1 DEF vars
<1>3. CASE user[c] # "here" \/ stage[c] = "udp"
  <2>1. /\ UNCHANGED told
        /\ \A d \in Clients : State(d)' = State(d)
    BY <1>3, <1>1 DEF RelayNumber, Relay, Move, Set, UserInv, Users, Stages, State, Waiting
  <2>2. QED BY <1>2, <2>1, OthersBehind DEF Seen, Promised!Next
<1>4. CASE user[c] = "here" /\ stage[c] # "udp"
  <2>1. /\ stage' = [stage EXCEPT ![c] = "none"]
        /\ told' = IF stage[c] = "answered" THEN told \cup {c} ELSE told
        /\ UNCHANGED user
    BY <1>4 DEF RelayNumber, Relay, Move, Set
  <2>2. Seen' = [Seen EXCEPT ![c] = State(c)']
    <3>1. stage' \in [Clients -> Stages]
      BY <2>1, <1>1 DEF UserInv, Stages
    <3>2. \A d \in Clients \ {c} : user'[d] = user[d] /\ stage'[d] = stage[d]
      BY <2>1 DEF UserInv
    <3>3. user' \in [Clients -> Users]
      BY <2>1 DEF UserInv
    <3>4. QED BY <3>1, <3>2, <3>3, SeenOf
  <2>3. State(c) = "waiting" /\ State(c)' = "ready" /\ Seen[c] = State(c)
    <3>1. stage[c] # "none" /\ stage'[c] = "none" /\ user'[c] = "here"
      BY <1>1, <1>4, <2>1 DEF UserInv
    <3>2. QED BY <1>1, <1>4, <3>1 DEF State, Waiting, Seen
  <2>4. CASE stage[c] = "answered"
    <3>1. c \in children \cup zombies \cup reaped
      BY <1>1, <2>4 DEF UserInv, Admitted
    <3>2. Promised!Answer(c)
      BY <1>2, <2>1, <2>2, <2>3, <2>4, <3>1
      DEF Seen, Promised!Answer, Promised!Become
    <3>3. QED BY <1>1, <3>2 DEF Promised!Next
  <2>5. CASE stage[c] # "answered"
    <3>1. Promised!Refuse(c)
      BY <1>1, <1>2, <1>4, <2>1, <2>2, <2>3, <2>5
      DEF Seen, Promised!Refuse, Promised!Become
    <3>2. QED BY <1>1, <3>1 DEF Promised!Next
  <2>6. QED BY <2>4, <2>5
<1>5. QED BY <1>3, <1>4

\* The other steps of the proxy's child show the users nothing.
LEMMA ProxyChildBehind ==
  ASSUME UserInv, IInv, NEW i \in Proxy!Children,
         \/ Hello(i) \/ Reach(i) \/ GiveUp(i) \/ PassOn(i)
         \/ PassQuit(i) \/ Replay(i) \/ Spin(i) \/ Hold(i)
  PROVE  Promised!Behind
<1>1. CASE GiveUp(i) \/ PassQuit(i)
  <2>1. UNCHANGED <<vars, user, stage, told>>
    BY <1>1 DEF GiveUp, PassQuit, clientVars
  <2>2. QED BY <2>1, SeenSame, ServerBehind
<1>2. CASE Reach(i)
  <2>1. UNCHANGED <<user, stage, told>> /\ [Next]_vars
    BY <1>2 DEF Reach, Dialling, Runs, clientVars, Next
  <2>2. QED BY <2>1, SeenSame, ServerBehind
<1>3. CASE PassOn(i) \/ Replay(i) \/ Spin(i) \/ Hold(i)
  <2>1. UNCHANGED <<vars, user, told>>
    BY <1>3 DEF PassOn, Replay, Spin, Hold
  <2>2. \A d \in Clients : State(d)' = State(d)
    BY <1>3 DEF PassOn, Replay, Spin, Hold, Listening, Runs, Move, Set, Idle,
                UserInv, Users, Stages, State, Waiting
  <2>3. QED BY <2>1, <2>2, OthersBehind DEF Seen, vars
<1>4. CASE Hello(i)
  <2>1. UNCHANGED <<vars, told>>
    BY <1>4 DEF Hello
  <2>2. \A d \in Clients : State(d)' = State(d)
    BY <1>4 DEF Hello, FirstRead, Runs, Move, Set, UserInv, Users, Stages, State, Waiting
  <2>3. QED BY <2>1, <2>2, OthersBehind DEF Seen, vars
<1>5. QED BY <1>1, <1>2, <1>3, <1>4

\* Of what happens in a session out of step users see at most an answer, of a
\* server that has taken them on.
LEMMA AdriftStep ==
  ASSUME UserInv, IInv, NEW c \in Clients, Adrift(c)
  PROVE  Promised!Next
<1>1. CASE UNCHANGED <<stage, told>>
  <2>1. UNCHANGED Seen
    BY <1>1, SeenSame DEF Adrift
  <2>2. [Next]_vars
    BY ServerSteps DEF SystemNext
  <2>3. QED BY <1>1, <2>1, <2>2, ServerBehind DEF Promised!Next
<1>2. CASE /\ user[c] = "here" /\ stage[c] \notin {"none", "datagram"}
           /\ c \in children \cup zombies \cup reaped
           /\ Move(c, "none") /\ told' = told \cup {c}
           /\ UNCHANGED <<vars, proxyVars>>
  <2>1. UNCHANGED <<user, children, zombies, reaped>>
    BY <1>2 DEF Adrift, vars
  <2>2. Seen' = [Seen EXCEPT ![c] = State(c)']
    <3>1. stage' \in [Clients -> Stages]
      BY <1>2 DEF UserInv, Stages, Move, Set
    <3>2. \A d \in Clients \ {c} : user'[d] = user[d] /\ stage'[d] = stage[d]
      BY <1>2, <2>1 DEF UserInv, Move, Set
    <3>3. user' \in [Clients -> Users]
      BY <2>1 DEF UserInv
    <3>4. QED BY <3>1, <3>2, <3>3, SeenOf
  <2>3. State(c) = "waiting" /\ State(c)' = "ready" /\ Seen[c] = State(c)
    BY <1>2, <2>1 DEF UserInv, Move, Set, State, Waiting, Seen
  <2>4. Promised!Answer(c)
    BY <1>2, <2>1, <2>2, <2>3 DEF Seen, Promised!Answer, Promised!Become
  <2>5. QED BY <2>4 DEF Promised!Next
<1>3. QED BY <1>1, <1>2 DEF Adrift

\* A killed client has left; other deaths are behind the scenes.
LEMMA DeathStep ==
  ASSUME UserInv, IInv, Death
  PROVE  Promised!Next
<1>1. ASSUME NEW c \in Clients, user[c] = "here", user' = Set(user, c, "killed"),
             UNCHANGED vars
      PROVE  Promised!Next
  <2>1. Seen' = [Seen EXCEPT ![c] = State(c)']
    <3>1. UNCHANGED stage
      BY DEF Death
    <3>2. QED BY <1>1, <3>1, SeenOf DEF UserInv, Users, Set
  <2>2. State(c) \in {"ready", "waiting"} /\ State(c)' = "gone" /\ Seen[c] = State(c)
    BY <1>1 DEF UserInv, Set, State, Waiting, Seen
  <2>3. UNCHANGED <<told, children, zombies, reaped>>
    BY <1>1 DEF Death, vars
  <2>4. QED BY <2>1, <2>2, <2>3 DEF Seen, Promised!Next, Promised!Leave
<1>2. CASE UNCHANGED user
  <2>1. [Next]_vars
    BY ServerSteps DEF SystemNext
  <2>2. UNCHANGED <<Seen, told>>
    BY <1>2, SeenSame DEF Death
  <2>3. QED BY <2>1, <2>2, ServerBehind DEF Promised!Next
<1>3. QED BY <1>1, <1>2 DEF Death

\* Every step of the system is a step of Service, or invisible to it: only a
\* client the server has taken on gets an answer, of whom there are never more
\* than max_clients, and nobody is refused while its processes are there.
THEOREM SystemServes == SystemSpec => Serves
<1>1. SystemInit => Promised!Init
  <2> SUFFICES ASSUME SystemInit PROVE Promised!Init
    OBVIOUS
  <2>1. \A c \in Clients : State(c) = "away"
    BY DEF SystemInit, State, Waiting
  <2>2. children \cup zombies \cup reaped = {}
    BY DEF SystemInit, Init
  <2>3. QED BY <2>1, <2>2 DEF SystemInit, Promised!Init
<1>2. IInv /\ UserInv /\ [SystemNext]_systemVars => [Promised!Next]_Promised!sVars
  <2> SUFFICES ASSUME IInv, UserInv, [SystemNext]_systemVars
               PROVE  Promised!Next
    OBVIOUS
  <2>1. ASSUME NEW c \in Clients, Arrive(c) \/ Ask(c) \/ Quit(c) \/ ReadEnd(c)
        PROVE  Promised!Next
    BY <2>1, UsersSteps
  <2>2. ASSUME NEW c \in Clients, Answer(c) \/ AnswerUDP(c) \/ Misread(c)
        PROVE  Promised!Next
    <3>1. \A d \in Clients : State(d)' = State(d)
      BY <2>2 DEF Answer, AnswerUDP, Misread, Move, Set, UserInv, State, Waiting
    <3>2. UNCHANGED <<Seen, told>>
      BY <2>2, <3>1 DEF Answer, AnswerUDP, Misread, Seen
    <3>3. QED BY <3>2, ServerSteps, ServerBehind DEF Promised!Next
  <2>3. ASSUME \/ \E c \in Clients : Finish(c)
               \/ ProxyParent \/ ServerParent \/ UNCHANGED systemVars
        PROVE  Promised!Next
    <3>1. UNCHANGED <<user, stage, told>>
      BY <2>3 DEF Finish, ProxyParent, ServerParent, systemVars, clientVars
    <3>2. QED BY <3>1, SeenSame, ServerSteps, ServerBehind DEF Promised!Next
  <2>4. ASSUME NEW i \in Proxy!Children, ProxyChild(i)
        PROVE  Promised!Next
    <3>1. CASE RelayNumber(i)
      <4>1. given[i] \in Clients
        BY <3>1 DEF RelayNumber, Relay, Listening, Runs
      <4>2. QED BY <3>1, <4>1, RelayStep
    <3>2. QED BY <2>4, <3>1, ProxyChildBehind DEF ProxyChild, Promised!Next
  <2>5. CASE Death
    BY <2>5, DeathStep
  <2>6. ASSUME NEW c \in Clients, Adrift(c) PROVE Promised!Next
    BY <2>6, AdriftStep
  <2>7. QED BY <2>1, <2>2, <2>3, <2>4, <2>5, <2>6 DEF SystemNext, ServerChild
<1>3. QED
  BY <1>1, <1>2, ServerInvariance, UserInvariance, PTL
  DEF SystemSpec, Serves, Promised!Spec

-----------------------------------------------------------------------------
\* The proxy's main() and its children, as ProxyMain has them.
ProxyFacts == INSTANCE ProxyMainProofs WITH queue <- pQueue

\* ProxyMain's assumptions hold here.
LEMMA ProxyAssumptions ==
  /\ ProxyFacts!NoClientAssumption /\ ProxyFacts!BoundsAssumption
  /\ ProxyFacts!ForksAssumption /\ ProxyFacts!FormAssumption
<1>1. ProxyFacts!IsFiniteSet(Clients) => ProxyFacts!Cardinality(Clients) <= MaxForks
  BY ProxyAssumption
  DEF ProxyFacts!IsFiniteSet, ProxyFacts!Cardinality, IsFiniteSet, Cardinality
<1>2. Forms \subseteq {ProxyFacts!Current, ProxyFacts!Older}
  BY ProxyAssumption DEF ProxyFacts!Current, ProxyFacts!Older, Proxy!Current, Proxy!Older
<1>3. QED
  BY <1>1, <1>2, ProxyAssumption, BacklogAssumption
  DEF ProxyFacts!NoClientAssumption, ProxyFacts!BoundsAssumption,
      ProxyFacts!ForksAssumption, ProxyFacts!FormAssumption

\* What the system does to the proxy is done by its main(), by a child on its
\* own, or by a signal that ends a child.
LEMMA ProxySteps ==
  ASSUME [SystemNext]_systemVars
  PROVE  [ProxyFacts!Moves]_ProxyFacts!vars
<1> USE DEF ProxyFacts!Moves, ProxyFacts!Next, ProxyFacts!Children, Proxy!Children
<1>1. ASSUME UNCHANGED proxyVars PROVE [ProxyFacts!Moves]_ProxyFacts!vars
  BY <1>1 DEF proxyVars, ProxyFacts!vars
<1>2. ASSUME NEW c \in Clients, Arrive(c) PROVE ProxyFacts!Moves
  BY <1>2 DEF Arrive, Proxy!Connect, ProxyFacts!Connect
<1>3. ASSUME NEW i \in Proxy!Children, Hello(i) PROVE ProxyFacts!Moves
  BY <1>3 DEF Hello, Proxy!Serve, ProxyFacts!Serve, Proxy!Crash, ProxyFacts!Crash,
              Proxy!Exit, ProxyFacts!Exit
<1>4. ASSUME NEW i \in Proxy!Children, Proxy!Exit(i) PROVE ProxyFacts!Moves
  BY <1>4 DEF Proxy!Exit, ProxyFacts!Exit
<1>5. CASE ProxyParent
  BY <1>5 DEF ProxyParent, Proxy!Parent, ProxyFacts!Parent, Proxy!Reap, ProxyFacts!Reap,
              Proxy!Collect, ProxyFacts!Collect, Proxy!Accept, ProxyFacts!Accept,
              Proxy!AcceptFail, ProxyFacts!AcceptFail, Proxy!Fork, ProxyFacts!Fork,
              Proxy!ForkFail, ProxyFacts!ForkFail
<1>6. ASSUME NEW i \in Proxy!Children, ProxyChild(i)
      PROVE  Hello(i) \/ Proxy!Exit(i) \/ UNCHANGED proxyVars
  BY <1>6 DEF ProxyChild, Reach, GiveUp, PassOn, PassQuit, Replay, Spin, RelayNumber,
              Relay, Hold, Proxy!End
<1>7. CASE Death
  BY <1>1, <1>4, <1>7 DEF Death
<1>8. ASSUME NEW c \in Clients,
             Ask(c) \/ Quit(c) \/ ReadEnd(c) \/ ServerChild(c) \/ Misread(c) \/ Adrift(c)
      PROVE  UNCHANGED proxyVars \/ \E i \in Proxy!Children : Proxy!Exit(i)
  BY <1>8 DEF Ask, Quit, ReadEnd, ServerChild, Answer, AnswerUDP, Finish, Misread, Adrift,
              Proxy!End
<1>9. CASE ServerParent \/ UNCHANGED systemVars
  BY <1>1, <1>9 DEF ServerParent, systemVars
<1>10. QED BY <1>1, <1>2, <1>3, <1>4, <1>5, <1>6, <1>7, <1>8, <1>9 DEF SystemNext

\* The proxy's invariant holds in the system.
LEMMA ProxyInvariance == SystemSpec => []ProxyFacts!IInvOlder
<1>1. SystemInit => ProxyFacts!IInvOlder
  <2>1. SystemInit => ProxyFacts!Init
    BY DEF SystemInit, Proxy!Init, ProxyFacts!Init
  <2>2. QED BY <2>1, ProxyFacts!InitOlder, ProxyAssumptions
<1>2. ProxyFacts!IInvOlder /\ [SystemNext]_systemVars => ProxyFacts!IInvOlder'
  BY ProxySteps, ProxyFacts!MovesOlder, ProxyAssumptions
<1>3. QED BY <1>1, <1>2, PTL DEF SystemSpec

\* No connection stays open in two processes of the proxy, also when children
\* are killed and clients leave at any moment: a client whose child has ended
\* hears so.
THEOREM SystemHangsUp == SystemSpec => []Proxy!HangsUp
<1>1. ProxyFacts!IInvOlder => Proxy!HangsUp
  BY DEF ProxyFacts!IInvOlder, ProxyFacts!IInv, ProxyFacts!HangsUp, Proxy!HangsUp,
         ProxyFacts!Children, Proxy!Children
<1>2. QED BY <1>1, ProxyInvariance, PTL

-----------------------------------------------------------------------------
(* How far a client's command can have come.                               *)

Came == {c \in Clients : user[c] # "away"}

\* A command passes through the proxy's child and the server's child in turn,
\* and neither forgets a client.
OnTheWay == {"passed", "answered", "udp", "held"}

WayInv ==
  /\ passed \subseteq Known /\ told \cup spins \cup upset \subseteq passed
  /\ \A c \in Known : c \in Clients /\ fate[c] = "served"
  /\ \A c \in Clients : stage[c] \in OnTheWay => c \in passed

\* Only the present form has a semaphore whose holder can be killed.
StuckInv == stuck \in BOOLEAN /\ (stuck => ~form.closesGood)

\* The environment's events are counted.
EventsInv ==
  /\ asks \in [Clients -> Nat] /\ \A c \in Clients : asks[c] <= MaxAsks[c]
  /\ deaths \in 0..MaxEvents
  /\ IsFiniteSet(Came) /\ IsFiniteSet(upset)

\* The server never forgets a connection and learns of none but by connect().
LEMMA KnownStep ==
  ASSUME IInv, [Next]_vars
  PROVE  \/ Known' = Known
         \/ \E c \in Clients : Connect(c) /\ Known' = Known \cup {c}
<1>1. ASSUME NEW c \in Clients, Connect(c)
      PROVE  Known' = Known \cup {c}
  <2>1. queue \in Seq(Clients) /\ \A i, j \in DOMAIN queue : queue[i] = queue[j] => i = j
    BY DEF IInv, TypeOK
  <2>2. queue' = Append(queue, c) /\ c \notin {queue[i] : i \in DOMAIN queue}
    BY <1>1 DEF Connect, Known, Queued
  <2>3. Queued' = Queued \cup {c}
    BY <2>1, <2>2, AppendFacts DEF Queued
  <2>4. QED BY <1>1, <2>3 DEF Connect, Known
<1>2. CASE Accept
  <2>1. /\ queue \in Seq(Clients) /\ queue # << >> /\ queue' = Tail(queue)
        /\ \A i, j \in DOMAIN queue : queue[i] = queue[j] => i = j
    BY <1>2 DEF IInv, TypeOK, Accept
  <2>2. Head(queue) \in Queued /\ Queued' = Queued \ {Head(queue)}
    BY <2>1, HeadTailFacts DEF Queued
  <2>3. QED BY <1>2, <2>2 DEF Accept, Known
<1>3. CASE Wait \/ UNCHANGED vars \/ \E c \in Clients : ChildExit(c)
  BY <1>3 DEF Wait, ChildExit, vars, Known, Queued
<1>4. QED BY <1>1, <1>2, <1>3 DEF Next, Parent

LEMMA WayStep ==
  ASSUME IInv, UserInv, ProxyFacts!IInvOlder, WayInv, [SystemNext]_systemVars
  PROVE  WayInv'
<1>1. Known \subseteq Known'
  BY KnownStep, ServerSteps
<1>2. \A c \in Known : fate'[c] = "served"
  BY ProxySteps, ProxyFacts!ServedForGood, ProxyAssumptions
  DEF WayInv, ProxyFacts!IInvOlder
<1>3. ASSUME Known' = Known, UNCHANGED passed,
             (told \cup spins \cup upset)' \subseteq passed,
             \A c \in Clients : stage'[c] \in OnTheWay => c \in passed
      PROVE  WayInv'
  BY <1>2, <1>3 DEF WayInv
<1>4. ASSUME NEW c \in Clients,
             \/ Arrive(c) \/ Ask(c) \/ Quit(c) \/ ReadEnd(c)
             \/ Answer(c) \/ AnswerUDP(c) \/ Misread(c) \/ Adrift(c)
      PROVE  WayInv'
  <2>1. UNCHANGED vars \/ ChildExit(c)
    BY <1>4 DEF Arrive, Ask, Quit, ReadEnd, Answer, AnswerUDP, Misread, Adrift
  <2>2. Known' = Known
    BY <2>1 DEF ChildExit, vars, Known, Queued
  <2>3. UNCHANGED passed /\ (told \cup spins \cup upset)' \subseteq told \cup spins \cup upset \cup {c}
    BY <1>4 DEF Arrive, Ask, Quit, ReadEnd, Answer, AnswerUDP, Misread, Adrift, harm
  <2>4. (told \cup spins \cup upset)' \subseteq told \cup spins \cup upset \/ c \in passed
    BY <1>4 DEF Arrive, Ask, Quit, ReadEnd, Answer, AnswerUDP, Misread, Adrift, harm,
                WayInv, OnTheWay
  <2>5. \A d \in Clients : stage'[d] \in OnTheWay => d \in passed
    BY <1>4 DEF Arrive, Ask, Quit, ReadEnd, Answer, AnswerUDP, Misread, Adrift, Move, Set,
                WayInv, OnTheWay, UserInv
  <2>6. (told \cup spins \cup upset)' \subseteq passed
    BY <2>3, <2>4 DEF WayInv
  <2>7. QED BY <1>3, <2>2, <2>3, <2>5, <2>6
<1>5. CASE \/ Death \/ ProxyParent \/ ServerParent \/ UNCHANGED systemVars
           \/ \E c \in Clients : Finish(c)
  <2>1. UNCHANGED <<passed, told, stage, spins, upset>>
    BY <1>5 DEF Death, ProxyParent, ServerParent, Finish, systemVars, clientVars, harm
  <2>2. UNCHANGED vars \/ Parent \/ \E c \in Clients : ChildExit(c)
    BY <1>5 DEF Death, ProxyParent, ServerParent, Finish, systemVars
  <2>3. Known' = Known
    BY <2>2, KnownStep, ServerSteps
    DEF Connect, Parent, Accept, Wait, ChildExit, vars, Known, Queued
  <2>4. QED BY <1>3, <2>1, <2>3 DEF WayInv
<1>6. ASSUME NEW i \in Proxy!Children, ProxyChild(i)
      PROVE  WayInv'
  <2> DEFINE c == given[i]
  <2>1. CASE Hello(i) \/ GiveUp(i) \/ PassQuit(i)
    <3>1. Known' = Known /\ UNCHANGED <<passed, told, spins, upset>>
      BY <2>1 DEF Hello, GiveUp, PassQuit, vars, clientVars, harm, Known, Queued
    <3>2. \A d \in Clients : stage'[d] \in {stage[d], "lost"}
      BY <2>1 DEF Hello, FirstRead, GiveUp, PassQuit, clientVars, Move, Set, UserInv
    <3>3. QED BY <1>3, <3>1, <3>2 DEF WayInv, OnTheWay
  <2>2. CASE Reach(i)
    <3>1. /\ c \in Clients /\ fate[c] = "served" /\ UNCHANGED fate
          /\ UNCHANGED <<passed, told, stage, spins, upset>>
      BY <2>2 DEF Reach, Dialling, Runs, proxyVars, clientVars, harm
    <3>2. Connect(c)
      BY <2>2 DEF Reach
    <3>3. Known' = Known \cup {c}
      <4>1. ASSUME NEW d \in Clients, Connect(d), Known' = Known \cup {d}
            PROVE  d = c
        <5>1. c \in Known'
          BY <3>1, <3>2 DEF Connect, Known, Queued, IInv, TypeOK
        <5>2. c \notin Known
          BY <3>2 DEF Connect
        <5>3. QED BY <4>1, <5>1, <5>2
      <4>2. c \in Known' /\ c \notin Known
        BY <3>1, <3>2 DEF Connect, Known, Queued, IInv, TypeOK
      <4>3. QED BY <4>1, <4>2, KnownStep, ServerSteps
    <3>4. QED BY <1>2, <3>1, <3>3 DEF WayInv
  <2>3. CASE PassOn(i) \/ Replay(i)
    <3>1. /\ c \in Clients /\ c \in Known /\ stage' = [stage EXCEPT ![c] = "passed"]
          /\ passed' = passed \cup {c} /\ UNCHANGED <<vars, told, spins, upset>>
      BY <2>3 DEF PassOn, Replay, Listening, Connected, Runs, Move, Set, harm
    <3>2. Known' = Known
      BY <3>1 DEF vars, Known, Queued
    <3>3. \A d \in Clients : stage'[d] \in OnTheWay => d \in passed'
      BY <3>1 DEF WayInv, UserInv, OnTheWay
    <3>4. QED BY <1>2, <3>1, <3>2, <3>3 DEF WayInv
  <2>4. CASE Spin(i) \/ Hold(i)
    <3>1. /\ Known' = Known /\ UNCHANGED <<passed, told, spins, upset>>
          /\ c \in Clients
      BY <2>4 DEF Spin, Hold, Listening, Runs, harm, vars, Known, Queued
    <3>2. \A d \in Clients :
            \/ stage'[d] \in {stage[d], "spin"}
            \/ stage'[d] = "held" /\ stage[d] = "answered"
      BY <2>4 DEF Spin, Hold, Move, Set, UserInv
    <3>3. QED BY <1>3, <3>1, <3>2 DEF WayInv, OnTheWay
  <2>5. CASE RelayNumber(i)
    <3>1. /\ c \in Clients /\ stage[c] \in OnTheWay
          /\ UNCHANGED <<vars, passed, spins, upset>> /\ told' \subseteq told \cup {c}
          /\ \A d \in Clients : stage'[d] \in {stage[d], "none", "datagram"}
      BY <2>5 DEF RelayNumber, Relay, Listening, Runs, Move, Set, UserInv, OnTheWay, harm
    <3>2. Known' = Known
      BY <3>1 DEF vars, Known, Queued
    <3>3. (told \cup spins \cup upset)' \subseteq passed
      BY <3>1 DEF WayInv
    <3>4. QED BY <1>3, <3>1, <3>2, <3>3 DEF WayInv, OnTheWay
  <2>6. QED BY <1>6, <2>1, <2>2, <2>3, <2>4, <2>5 DEF ProxyChild
<1>7. QED BY <1>4, <1>5, <1>6 DEF SystemNext, ServerChild

LEMMA WayInvariance == SystemSpec => []WayInv
<1>1. SystemInit => WayInv
  BY DEF SystemInit, Init, WayInv, OnTheWay, Known, Queued
<1>2. IInv /\ UserInv /\ ProxyFacts!IInvOlder /\ WayInv /\ [SystemNext]_systemVars => WayInv'
  BY WayStep
<1>3. QED
  BY <1>1, <1>2, ServerInvariance, UserInvariance, ProxyInvariance, PTL DEF SystemSpec

\* Nobody dies inside a semaphore of the older form, which has none.
LEMMA StuckStep ==
  ASSUME StuckInv, [SystemNext]_systemVars
  PROVE  StuckInv'
<1>1. UNCHANGED form
  BY ProxySteps
  DEF ProxyFacts!Moves, ProxyFacts!Next, ProxyFacts!Parent, ProxyFacts!vars,
      ProxyFacts!Connect, ProxyFacts!Reap, ProxyFacts!Accept, ProxyFacts!AcceptFail,
      ProxyFacts!Fork, ProxyFacts!ForkFail, ProxyFacts!Serve, ProxyFacts!Crash,
      ProxyFacts!End, ProxyFacts!Exit
<1>2. ASSUME NEW c \in Clients,
             \/ Arrive(c) \/ Ask(c) \/ Quit(c) \/ ReadEnd(c)
             \/ ServerChild(c) \/ Misread(c) \/ Adrift(c)
      PROVE  UNCHANGED stuck
  BY <1>2 DEF Arrive, Ask, Quit, ReadEnd, ServerChild, Answer, AnswerUDP, Finish, Misread,
              Adrift, clientVars, harm
<1>3. ASSUME NEW i \in Proxy!Children, ProxyChild(i) PROVE UNCHANGED stuck
  BY <1>3 DEF ProxyChild, Hello, Reach, GiveUp, PassOn, PassQuit, Replay, Spin, RelayNumber,
              Relay, Hold, clientVars, harm
<1>4. CASE ProxyParent \/ ServerParent \/ UNCHANGED systemVars
  <2>1. UNCHANGED stuck
    BY <1>4 DEF ProxyParent, ServerParent, systemVars, clientVars, harm
  <2>2. QED BY <1>1, <2>1 DEF StuckInv
<1>5. CASE Death
  <2>1. \/ UNCHANGED stuck
        \/ stuck' = TRUE /\ ~form.closesGood
    BY <1>5 DEF Death, MayHold
  <2>2. CASE UNCHANGED stuck
    <3>1. UNCHANGED <<stuck, form.closesGood>>
      BY <1>1, <2>2
    <3>2. QED BY <3>1 DEF StuckInv
  <2>3. CASE stuck' = TRUE /\ ~form.closesGood
    <3>1. stuck' \in BOOLEAN /\ ~form'.closesGood
      BY <1>1, <2>3
    <3>2. QED BY <3>1 DEF StuckInv
  <2>4. QED BY <2>1, <2>2, <2>3
<1>6. QED BY <1>1, <1>2, <1>3, <1>4, <1>5 DEF SystemNext, StuckInv

LEMMA StuckInvariance == SystemSpec => []StuckInv
<1>1. SystemInit => StuckInv
  BY DEF SystemInit, StuckInv
<1>2. StuckInv /\ [SystemNext]_systemVars => StuckInv'
  BY StuckStep
<1>3. QED BY <1>1, <1>2, PTL DEF SystemSpec

\* Only arrivals, deaths and misread sessions are counted, and none comes beyond the bound.
LEMMA EventsStep ==
  ASSUME UserInv, EventsInv, [SystemNext]_systemVars
  PROVE  EventsInv'
<1>1. ASSUME UNCHANGED <<asks, deaths, upset>>, Came' \subseteq Came
      PROVE  EventsInv'
  BY <1>1, FS_Subset DEF EventsInv
<1>2. ASSUME NEW c \in Clients, Arrive(c) PROVE EventsInv'
  <2>1. Came' = Came \cup {c} /\ UNCHANGED <<asks, deaths, upset>>
    BY <1>2 DEF Arrive, Set, Came, UserInv, harm
  <2>2. QED BY <2>1, FS_AddElement DEF EventsInv
<1>3. ASSUME NEW c \in Clients, Ask(c) PROVE EventsInv'
  <2>1. Came' = Came /\ UNCHANGED <<deaths, upset>>
    BY <1>3 DEF Ask, Came, harm
  <2>2. asks' = [asks EXCEPT ![c] = asks[c] + 1] /\ asks[c] < MaxAsks[c]
    BY <1>3 DEF Ask, Set
  <2>3. MaxAsks[c] \in Nat
    BY SystemAssumption
  <2>4. asks' \in [Clients -> Nat] /\ \A d \in Clients : asks'[d] <= MaxAsks[d]
    BY <2>2, <2>3 DEF EventsInv
  <2>5. QED BY <2>1, <2>4 DEF EventsInv
<1>4. CASE Death
  <2>1. /\ Events < MaxEvents /\ deaths' = deaths + 1 /\ UNCHANGED <<asks, upset>>
        /\ Came' \subseteq Came
    BY <1>4 DEF Death, Set, Came, UserInv
  <2>2. /\ Cardinality(Came) \in Nat /\ Cardinality(upset) \in Nat
        /\ Events = Cardinality(Came) + deaths + Cardinality(upset)
    BY FS_CardinalityType DEF EventsInv, Events, Came
  <2>3. deaths' \in 0..MaxEvents
    BY <2>1, <2>2, SystemAssumption DEF EventsInv
  <2>4. QED BY <2>1, <2>3, FS_Subset DEF EventsInv
<1>5. ASSUME NEW c \in Clients, Quit(c) PROVE EventsInv'
  BY <1>1, <1>5 DEF Quit, Set, Came, UserInv, harm
<1>6. ASSUME NEW i \in Proxy!Children, ProxyChild(i) PROVE EventsInv'
  <2>1. UNCHANGED <<asks, deaths, upset>>
    BY <1>6 DEF ProxyChild, Hello, Reach, GiveUp, PassOn, PassQuit, Replay, Spin,
                RelayNumber, Relay, Hold, clientVars, harm
  <2>2. CASE RelayNumber(i)
    BY <1>1, <2>1, <2>2 DEF RelayNumber, Relay, Set, Came, UserInv
  <2>3. CASE Hello(i)
    BY <1>1, <2>1, <2>3 DEF Hello, FirstRead, Set, Came, UserInv
  <2>4. CASE ~RelayNumber(i) /\ ~Hello(i)
    <3>1. UNCHANGED user
      BY <1>6, <2>4 DEF ProxyChild, Reach, GiveUp, PassOn, PassQuit, Replay, Spin, Hold,
                        clientVars
    <3>2. QED BY <1>1, <2>1, <3>1 DEF Came
  <2>5. QED BY <2>2, <2>3, <2>4
<1>7. ASSUME \/ ProxyParent \/ ServerParent \/ UNCHANGED systemVars
             \/ \E c \in Clients : ReadEnd(c) \/ ServerChild(c) \/ Adrift(c)
      PROVE  EventsInv'
  <2>1. UNCHANGED <<asks, deaths, user, upset>>
    BY <1>7 DEF ProxyParent, ServerParent, ReadEnd, ServerChild, Answer, AnswerUDP, Finish,
                Adrift, systemVars, clientVars, harm
  <2>2. QED BY <1>1, <2>1 DEF Came
<1>8. ASSUME NEW c \in Clients, Misread(c) PROVE EventsInv'
  <2>1. upset' = upset \cup {c} /\ UNCHANGED <<asks, deaths, user>>
    BY <1>8 DEF Misread
  <2>2. QED BY <2>1, FS_AddElement DEF EventsInv, Came
<1>9. QED BY <1>2, <1>3, <1>4, <1>5, <1>6, <1>7, <1>8 DEF SystemNext

LEMMA EventsInvariance == SystemSpec => []EventsInv
<1>1. SystemInit => EventsInv
  <2> SUFFICES ASSUME SystemInit PROVE EventsInv
    OBVIOUS
  <2>1. Came = {} /\ asks = [c \in Clients |-> 0] /\ deaths = 0 /\ upset = {}
    BY DEF SystemInit, Came
  <2>2. QED BY <2>1, FS_EmptySet, SystemAssumption DEF EventsInv
<1>2. UserInv /\ EventsInv /\ [SystemNext]_systemVars => EventsInv'
  BY EventsStep
<1>3. QED BY <1>1, <1>2, UserInvariance, PTL DEF SystemSpec

\* In the whole system a command is on its way only for a client whose proxy
\* child has reached the server, whatever has failed or been killed.
THEOREM SystemTypeCorrect == SystemSpec => []SystemTypeOK
<1>1. UserInv /\ WayInv /\ StuckInv /\ EventsInv => SystemTypeOK
  BY DEF UserInv, Users, Stages, WayInv, OnTheWay, StuckInv, EventsInv, SystemTypeOK
<1>2. QED BY <1>1, UserInvariance, WayInvariance, StuckInvariance, EventsInvariance, PTL

\* No command of anybody is passed on, and nobody gets an answer of the server.
OlderIsSilent == form.closesGood => passed = {} /\ told = {}

\* Behind the older proxy no client ever gets an answer of the server.
THEOREM OlderAnswersNobody == SystemSpec => []OlderIsSilent
<1>1. ProxyFacts!IInvOlder /\ WayInv => OlderIsSilent
  BY DEF ProxyFacts!IInvOlder, ProxyFacts!OlderServesNobody, WayInv, OlderIsSilent
<1>2. QED BY <1>1, ProxyInvariance, WayInvariance, PTL
=============================================================================
