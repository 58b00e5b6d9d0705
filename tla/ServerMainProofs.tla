-------------------------- MODULE ServerMainProofs --------------------------
(* Theorems about ServerMain, for every limit and any set of clients.      *)
EXTENDS ServerMain, FiniteSetTheorems, QueueFacts, TLAPS

Accepted == children \cup zombies \cup reaped \cup dropped

\* Acceptances are counted, and there are no more of them than the limit.
CountInv ==
  /\ IsFiniteSet(Accepted)
  /\ curr_clients = Cardinality(Accepted)
  /\ curr_clients <= max_clients \/ curr_clients = 0

IInv == TypeOK /\ CountInv

-----------------------------------------------------------------------------
\* Every action keeps each connection in one place.
LEMMA TypeStep ==
  ASSUME TypeOK, [Next]_vars
  PROVE  TypeOK'
<1>1. ASSUME NEW c \in Clients, Connect(c) PROVE TypeOK'
  <2>1. /\ queue \in Seq(Clients) /\ Len(queue) < Backlog
        /\ \A i, j \in DOMAIN queue : queue[i] = queue[j] => i = j
        /\ c \notin {queue[i] : i \in DOMAIN queue}
        /\ c \notin children \cup zombies \cup reaped \cup dropped
        /\ queue' = Append(queue, c)
        /\ UNCHANGED <<curr_clients, children, zombies, reaped, dropped>>
    BY <1>1 DEF Connect, TypeOK, Known, Queued
  <2>2. /\ queue' \in Seq(Clients) /\ Len(queue') = Len(queue) + 1
        /\ Queued' = Queued \cup {c}
        /\ \A i, j \in DOMAIN queue' : queue'[i] = queue'[j] => i = j
    BY <2>1, AppendFacts DEF Queued
  <2>3. Len(queue') <= Backlog
    <3>1. Len(queue) \in Nat
      BY <2>1
    <3>2. QED BY <2>1, <2>2, <3>1, BacklogAssumption
  <2>4. QED BY <2>1, <2>2, <2>3 DEF TypeOK
<1>2. ASSUME Accept PROVE TypeOK'
  <2>1. /\ queue \in Seq(Clients) /\ queue # << >> /\ Len(queue) <= Backlog
        /\ \A i, j \in DOMAIN queue : queue[i] = queue[j] => i = j
        /\ queue' = Tail(queue)
        /\ curr_clients' \in Nat
        /\ UNCHANGED <<zombies, reaped>>
    BY <1>2 DEF Accept, TypeOK
  <2>2. /\ queue' \in Seq(Clients) /\ Len(queue') = Len(queue) - 1
        /\ Head(queue) \in Clients /\ Head(queue) \in Queued
        /\ Queued' = Queued \ {Head(queue)}
        /\ \A i, j \in DOMAIN queue' : queue'[i] = queue'[j] => i = j
    <3> DEFINE q == queue
    <3>1. /\ q \in Seq(Clients) /\ q # << >>
          /\ \A i, j \in DOMAIN q : q[i] = q[j] => i = j
      BY <2>1
    <3>2. Queued = {q[i] : i \in DOMAIN q}
      BY DEF Queued
    <3>3. Queued' = {Tail(q)[i] : i \in DOMAIN Tail(q)}
      BY <2>1 DEF Queued
    <3> HIDE DEF q
    <3>4. /\ Tail(q) \in Seq(Clients) /\ Len(Tail(q)) = Len(q) - 1
          /\ Head(q) \in Clients /\ Head(q) \in {q[i] : i \in DOMAIN q}
          /\ {Tail(q)[i] : i \in DOMAIN Tail(q)}
               = {q[i] : i \in DOMAIN q} \ {Head(q)}
          /\ \A i, j \in DOMAIN Tail(q) : Tail(q)[i] = Tail(q)[j] => i = j
      BY <3>1, HeadTailFacts
    <3>5. queue' = Tail(q) /\ queue = q
      BY <2>1 DEF q
    <3>6. QED BY <3>2, <3>3, <3>4, <3>5
  <2>3. Len(queue') <= Backlog
    <3>1. Len(queue) \in Nat
      BY <2>1
    <3>2. QED BY <2>1, <2>2, <3>1, BacklogAssumption
  <2>4. \/ children' = children \cup {Head(queue)} /\ dropped' = dropped
        \/ dropped' = dropped \cup {Head(queue)} /\ children' = children
    BY <1>2 DEF Accept
  <2>5. QED BY <2>1, <2>2, <2>3, <2>4 DEF TypeOK
<1>3. ASSUME NEW c \in Clients, ChildExit(c) PROVE TypeOK'
  BY <1>3 DEF ChildExit, TypeOK, Queued
<1>4. ASSUME Wait PROVE TypeOK'
  BY <1>4 DEF Wait, TypeOK, Queued
<1>5. ASSUME UNCHANGED vars PROVE TypeOK'
  BY <1>5 DEF vars, TypeOK, Queued
<1>6. QED BY <1>1, <1>2, <1>3, <1>4, <1>5 DEF Next, Parent

\* An acceptance adds one connection, the other actions only move some.
LEMMA CountStep ==
  ASSUME TypeOK, CountInv, [Next]_vars
  PROVE  CountInv'
<1>1. CASE Accept
  <2>1. /\ Head(queue) \in Queued
        /\ Head(queue) \notin Accepted
        /\ Accepted' = Accepted \cup {Head(queue)}
        /\ curr_clients' = curr_clients + 1
        /\ curr_clients < max_clients
    <3>1. Head(queue) \in Queued
      BY <1>1, HeadTailFacts DEF Accept, TypeOK, Queued
    <3>2. QED BY <1>1, <3>1 DEF Accept, TypeOK, Accepted
  <2>2. /\ IsFiniteSet(Accepted')
        /\ Cardinality(Accepted') = Cardinality(Accepted) + 1
    BY <2>1, FS_AddElement DEF CountInv
  <2>3. curr_clients' <= max_clients
    BY <2>1, MaxAssumption DEF TypeOK
  <2>4. QED BY <2>1, <2>2, <2>3 DEF CountInv
<1>2. ASSUME Accepted' = Accepted, curr_clients' = curr_clients
      PROVE  CountInv'
  BY <1>2 DEF CountInv
<1>3. ASSUME NEW c \in Clients, Connect(c) PROVE CountInv'
  BY <1>2, <1>3 DEF Connect, Accepted
<1>4. ASSUME NEW c \in Clients, ChildExit(c) PROVE CountInv'
  BY <1>2, <1>4 DEF ChildExit, Accepted
<1>5. CASE Wait
  BY <1>2, <1>5 DEF Wait, Accepted
<1>6. CASE UNCHANGED vars
  BY <1>2, <1>6 DEF vars, Accepted
<1>7. QED BY <1>1, <1>3, <1>4, <1>5, <1>6 DEF Next, Parent

\* The invariant is inductive.
LEMMA Inductive == Spec => []IInv
<1>1. Init => IInv
  <2> SUFFICES ASSUME Init PROVE IInv
    OBVIOUS
  <2>1. Accepted = {} /\ Queued = {}
    BY DEF Init, Accepted, Queued
  <2>2. CountInv
    BY <2>1, FS_EmptySet DEF Init, CountInv
  <2>3. TypeOK
    BY <2>1, BacklogAssumption DEF Init, TypeOK
  <2>4. QED BY <2>2, <2>3 DEF IInv
<1>2. IInv /\ [Next]_vars => IInv'
  BY TypeStep, CountStep DEF IInv
<1>3. QED BY <1>1, <1>2, PTL DEF Spec

-----------------------------------------------------------------------------
\* Every connection is in exactly one place.
THEOREM TypeCorrect == Spec => []TypeOK
<1>1. IInv => TypeOK
  BY DEF IInv
<1>2. QED BY <1>1, Inductive, PTL

\* The invariant bounds the children at work.
LEMMA WithinLimit == IInv => AtMostMax
<1> SUFFICES ASSUME IInv, children # {}
             PROVE  Cardinality(children) <= max_clients
  BY DEF AtMostMax
<1>1. IsFiniteSet(Accepted) /\ children \subseteq Accepted
  BY DEF IInv, CountInv, Accepted
<1>2. Cardinality(children) <= Cardinality(Accepted)
      /\ Cardinality(children) \in Nat /\ Cardinality(Accepted) \in Nat
  BY <1>1, FS_Subset, FS_CardinalityType
<1>3. Cardinality(Accepted) # 0
  <2>1. Accepted # {}
    BY <1>1
  <2>2. QED BY <1>1, <2>1, FS_EmptySet
<1>4. Cardinality(Accepted) <= max_clients
  BY <1>3 DEF IInv, CountInv
<1>5. QED BY <1>2, <1>4, MaxAssumption

\* For every limit, never more children at work than the limit.
THEOREM NeverMoreThanMax == Spec => []AtMostMax
BY WithinLimit, Inductive, PTL

\* For every limit, the counter counts the connections ever accepted.
THEOREM CounterNeverGoesDown == Spec => []CountsForever
<1>1. IInv => CountsForever
  BY DEF IInv, CountInv, CountsForever, Accepted
<1>2. QED BY <1>1, Inductive, PTL

\* Every step of the server is a step of Admission, or invisible to it.
THEOREM ServerAdmits == Spec => Admits
<1>1. Init => Promise!Init
  BY DEF Init, Promise!Init
<1>2. IInv /\ [Next]_vars => [Promise!Next]_Promise!aVars
  <2> SUFFICES ASSUME IInv, [Next]_vars
               PROVE  Promise!Next \/ UNCHANGED Promise!aVars
    OBVIOUS
  <2>1. ASSUME NEW c \in Clients, Connect(c) PROVE Promise!Arrive(c)
    BY <2>1 DEF Connect, Known, Queued, Promise!Arrive, Promise!InLine
  <2>2. ASSUME Accept PROVE Promise!Admit \/ Promise!TurnAway
    <3>1. CASE children' = children \cup {Head(queue)} /\ UNCHANGED dropped
      <4>1. Cardinality(children) < max_clients
        <5>1. IsFiniteSet(Accepted) /\ children \subseteq Accepted
          BY DEF IInv, CountInv, Accepted
        <5>2. /\ Cardinality(children) <= Cardinality(Accepted)
              /\ Cardinality(children) \in Nat /\ Cardinality(Accepted) \in Nat
          BY <5>1, FS_Subset, FS_CardinalityType
        <5>3. Cardinality(Accepted) < max_clients
          BY <2>2 DEF Accept, IInv, CountInv
        <5>4. QED BY <5>2, <5>3, MaxAssumption
      <4>2. /\ queue # << >> /\ queue' = Tail(queue)
            /\ UNCHANGED <<zombies, reaped, dropped>>
        BY <2>2, <3>1 DEF Accept
      <4>3. Promise!Cardinality(children) = Cardinality(children)
        BY DEF Promise!Cardinality, Cardinality
      <4>4. QED BY <3>1, <4>1, <4>2, <4>3 DEF Promise!Admit
    <3>2. CASE dropped' = dropped \cup {Head(queue)} /\ UNCHANGED children
      BY <2>2, <3>2 DEF Accept, Promise!TurnAway
    <3>3. QED BY <2>2, <3>1, <3>2 DEF Accept
  <2>3. ASSUME NEW c \in Clients, ChildExit(c) PROVE Promise!Leave(c)
    BY <2>3 DEF ChildExit, Promise!Leave
  <2>4. ASSUME Wait PROVE UNCHANGED Promise!aVars
    BY <2>4 DEF Wait, Promise!aVars
  <2>5. ASSUME UNCHANGED vars PROVE UNCHANGED Promise!aVars
    BY <2>5 DEF vars, Promise!aVars
  <2>6. QED BY <2>1, <2>2, <2>3, <2>4, <2>5 DEF Next, Parent, Promise!Next
<1>3. QED
  BY <1>1, <1>2, Inductive, PTL DEF Spec, Admits, Promise!Spec
=============================================================================
