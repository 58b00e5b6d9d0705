--------------------------- MODULE ProxyMainProofs ---------------------------
(* Theorems about ProxyMain, for both forms of the loop, any set of        *)
(* clients and any number of failing calls.                                *)
EXTENDS ProxyMain, QueueFacts, TLAPS

\* Where a connection is goes with its client's fate.
Lines ==
  /\ \A i, j \in DOMAIN queue : queue[i] = queue[j] => i = j
  /\ \A i \in DOMAIN queue : fate[queue[i]] = "queued"
  /\ \A i \in Children : \A c \in holds[i] : fate[c] \in {"accepted", "served"}
  /\ at = "fork" /\ client # NoClient => fate[client] = "accepted"

IInv == TypeOK /\ Lines /\ HangsUp

-----------------------------------------------------------------------------
\* What one more child changes.
LEMMA ForkFacts ==
  ASSUME TypeOK, Fork
  PROVE  /\ life' \in Seq({"runs", "zombie", "gone"})
         /\ holds' \in Seq(SUBSET Clients) /\ given' \in Seq(Clients \cup {NoClient})
         /\ Len(holds') = Len(life') /\ Len(given') = Len(life')
         /\ Len(life) + 1 \notin Children
         /\ Children' = Children \cup {Len(life) + 1}
         /\ holds'[Len(life) + 1] = open
         /\ \A i \in Children : holds'[i] = holds[i]
<1>1. /\ life \in Seq({"runs", "zombie", "gone"}) /\ holds \in Seq(SUBSET Clients)
      /\ given \in Seq(Clients \cup {NoClient})
      /\ Len(holds) = Len(life) /\ Len(given) = Len(life)
      /\ open \in SUBSET Clients /\ client \in Clients \cup {NoClient}
  BY DEF TypeOK
<1>2. /\ life' = Append(life, "runs") /\ holds' = Append(holds, open)
      /\ given' = Append(given, client)
  BY DEF Fork
<1>3. /\ life' \in Seq({"runs", "zombie", "gone"}) /\ Len(life') = Len(life) + 1
      /\ DOMAIN life = 1..Len(life) /\ DOMAIN life' = 1..(Len(life) + 1)
      /\ Len(life) \in Nat
  BY <1>1, <1>2
<1>4. /\ holds' \in Seq(SUBSET Clients) /\ Len(holds') = Len(life) + 1
      /\ holds'[Len(life) + 1] = open
      /\ \A i \in 1..Len(life) : holds'[i] = holds[i]
  BY <1>1, <1>2
<1>5. given' \in Seq(Clients \cup {NoClient}) /\ Len(given') = Len(life) + 1
  BY <1>1, <1>2
<1>6. /\ Len(life) + 1 \notin 1..Len(life)
      /\ 1..(Len(life) + 1) = 1..Len(life) \cup {Len(life) + 1}
  BY <1>3
<1>7. QED BY <1>3, <1>4, <1>5, <1>6 DEF Children

\* What the end of a child changes.
LEMMA ExitFacts ==
  ASSUME TypeOK, NEW i \in Children, Exit(i)
  PROVE  /\ life' \in Seq({"runs", "zombie", "gone"})
         /\ holds' \in Seq(SUBSET Clients)
         /\ Len(life') = Len(life) /\ Len(holds') = Len(holds)
         /\ Children' = Children
         /\ holds'[i] = {} /\ \A j \in Children : j # i => holds'[j] = holds[j]
<1>1. /\ life \in Seq({"runs", "zombie", "gone"}) /\ holds \in Seq(SUBSET Clients)
      /\ Len(holds) = Len(life) /\ Children = 1..Len(life)
  BY DEF TypeOK, Children
<1>2. /\ life' = [life EXCEPT ![i] = "zombie"]
      /\ holds' = [holds EXCEPT ![i] = {}]
  BY DEF Exit
<1>3. /\ life' \in Seq({"runs", "zombie", "gone"}) /\ Len(life') = Len(life)
  BY <1>1, <1>2, ExceptSeq
<1>4. /\ holds' \in Seq(SUBSET Clients) /\ Len(holds') = Len(holds)
      /\ holds'[i] = {} /\ \A j \in 1..Len(life) : j # i => holds'[j] = holds[j]
  BY <1>1, <1>2, ExceptSeq
<1>5. QED BY <1>1, <1>3, <1>4 DEF Children

\* What collecting a child changes.
LEMMA CollectFacts ==
  ASSUME TypeOK, NEW i \in Children, Collect(i)
  PROVE  /\ life' \in Seq({"runs", "zombie", "gone"}) /\ Len(life') = Len(life)
         /\ Children' = Children
<1>1. life \in Seq({"runs", "zombie", "gone"}) /\ Children = 1..Len(life)
  BY DEF TypeOK, Children
<1>2. life' = [life EXCEPT ![i] = "gone"]
  BY DEF Collect
<1>3. life' \in Seq({"runs", "zombie", "gone"}) /\ Len(life') = Len(life)
  BY <1>1, <1>2, ExceptSeq
<1>4. QED BY <1>1, <1>3 DEF Children

-----------------------------------------------------------------------------
\* Types of the loop's variables, of the queue and of the children.
LEMMA TypeStep ==
  ASSUME TypeOK, [Next]_vars
  PROVE  TypeOK'
<1> USE BoundsAssumption
<1>1. ASSUME NEW c \in Clients, Connect(c) PROVE TypeOK'
  BY <1>1 DEF TypeOK, Connect
<1>2. CASE Reap
  <2>1. life' \in Seq({"runs", "zombie", "gone"}) /\ Len(life') = Len(life)
    BY <1>2, CollectFacts DEF Reap, TypeOK
  <2>2. QED BY <1>2, <2>1 DEF TypeOK, Reap
<1>3. CASE Accept
  BY <1>3 DEF TypeOK, Accept
<1>4. CASE AcceptFail
  BY <1>4 DEF TypeOK, AcceptFail
<1>5. CASE Fork
  <2>1. UNCHANGED <<form, client, queue, fate, failures>> /\ open' \subseteq Clients /\ at' = "reap"
    BY <1>5 DEF TypeOK, Fork
  <2>2. QED BY <1>5, <2>1, ForkFacts DEF TypeOK
<1>6. CASE ForkFail
  BY <1>6 DEF TypeOK, ForkFail
<1>7. ASSUME NEW i \in Children, Serve(i) PROVE TypeOK'
  BY <1>7 DEF TypeOK, Serve
<1>8. ASSUME NEW i \in Children, Exit(i) PROVE TypeOK'
  <2>1. UNCHANGED <<form, at, client, open, queue, fate, given, failures>>
    BY <1>8 DEF Exit
  <2>2. QED BY <1>8, <2>1, ExitFacts DEF TypeOK
<1>9. CASE UNCHANGED vars
  BY <1>9 DEF TypeOK, vars
<1>10. QED BY <1>1, <1>2, <1>3, <1>4, <1>5, <1>6, <1>7, <1>8, <1>9 DEF Next, Parent, Crash, End

-----------------------------------------------------------------------------
\* The queue keeps its order and loses its head; nobody is in it twice.
LEMMA QueueStep ==
  ASSUME IInv, [Next]_vars
  PROVE  /\ \A i, j \in DOMAIN queue' : queue'[i] = queue'[j] => i = j
         /\ \A i \in DOMAIN queue' : fate'[queue'[i]] = "queued"
<1> DEFINE Waiting == {queue[i] : i \in DOMAIN queue}
<1>0. /\ queue \in Seq(Clients) /\ client \in Clients \cup {NoClient}
      /\ fate \in [Clients -> {"away", "queued", "accepted", "served", "refused", "aborted"}]
      /\ \A i, j \in DOMAIN queue : queue[i] = queue[j] => i = j
      /\ \A i \in DOMAIN queue : fate[queue[i]] = "queued"
      /\ Waiting \subseteq Clients
  BY DEF IInv, TypeOK, Lines
<1>1. ASSUME NEW c \in Clients, Connect(c)
      PROVE  /\ \A i, j \in DOMAIN queue' : queue'[i] = queue'[j] => i = j
             /\ \A i \in DOMAIN queue' : fate'[queue'[i]] = "queued"
  <2>1. /\ fate[c] = "away" /\ queue' = Append(queue, c)
        /\ fate' = [fate EXCEPT ![c] = "queued"]
    BY <1>1 DEF Connect
  <2>2. c \notin Waiting
    BY <1>0, <2>1
  <2>3. /\ \A i, j \in DOMAIN queue' : queue'[i] = queue'[j] => i = j
        /\ {queue'[i] : i \in DOMAIN queue'} = Waiting \cup {c}
    BY <1>0, <2>1, <2>2, AppendFacts
  <2>4. \A d \in Waiting \cup {c} : fate'[d] = "queued"
    BY <1>0, <2>1
  <2>5. QED BY <2>3, <2>4
<1>2. ASSUME Accept \/ AcceptFail
      PROVE  /\ \A i, j \in DOMAIN queue' : queue'[i] = queue'[j] => i = j
             /\ \A i \in DOMAIN queue' : fate'[queue'[i]] = "queued"
  <2>1. /\ queue # << >> /\ queue' = Tail(queue)
        /\ \A d \in Clients : d # Head(queue) => fate'[d] = fate[d]
    BY <1>0, <1>2 DEF Accept, AcceptFail
  <2>2. /\ \A i, j \in DOMAIN queue' : queue'[i] = queue'[j] => i = j
        /\ {queue'[i] : i \in DOMAIN queue'} = Waiting \ {Head(queue)}
    <3>1. /\ \A i, j \in DOMAIN Tail(queue) : Tail(queue)[i] = Tail(queue)[j] => i = j
          /\ {Tail(queue)[i] : i \in DOMAIN Tail(queue)}
               = {queue[i] : i \in DOMAIN queue} \ {Head(queue)}
      <4>1. /\ queue \in Seq(Clients) /\ queue # << >>
            /\ \A i, j \in DOMAIN queue : queue[i] = queue[j] => i = j
        BY <1>0, <2>1
      <4>2. QED BY <4>1, HeadTailFacts, Zenon
    <3>2. QED BY <2>1, <3>1, Zenon
  <2>3. \A d \in Waiting \ {Head(queue)} : fate'[d] = "queued"
    BY <1>0, <2>1
  <2>4. QED BY <2>2, <2>3
<1>3. ASSUME queue' = queue, \A c \in Waiting : fate'[c] = fate[c]
      PROVE  /\ \A i, j \in DOMAIN queue' : queue'[i] = queue'[j] => i = j
             /\ \A i \in DOMAIN queue' : fate'[queue'[i]] = "queued"
  BY <1>0, <1>3
<1>4. ASSUME ForkFail \/ \E i \in Children : Serve(i)
      PROVE  queue' = queue /\ \A c \in Waiting : fate'[c] = fate[c]
  <2>1. CASE ForkFail
    <3>1. /\ queue' = queue /\ at = "fork"
          /\ fate' = IF client = NoClient THEN fate ELSE [fate EXCEPT ![client] = "refused"]
      BY <2>1 DEF ForkFail
    <3>2. client # NoClient => fate[client] = "accepted"
      BY <3>1 DEF IInv, Lines
    <3>3. client \notin Waiting \/ client = NoClient
      BY <1>0, <3>2
    <3>4. QED BY <1>0, <3>1, <3>3
  <2>2. ASSUME NEW i \in Children, Serve(i)
        PROVE  queue' = queue /\ \A c \in Waiting : fate'[c] = fate[c]
    <3>1. /\ queue' = queue /\ fate[given[i]] = "accepted"
          /\ fate' = [fate EXCEPT ![given[i]] = "served"]
      BY <2>2 DEF Serve
    <3>2. QED BY <1>0, <3>1
  <2>3. QED BY <1>4, <2>1, <2>2
<1>5. ASSUME \/ Reap \/ Fork \/ UNCHANGED vars
             \/ \E i \in Children : Crash(i) \/ End(i)
      PROVE  queue' = queue /\ \A c \in Waiting : fate'[c] = fate[c]
  BY <1>5 DEF Reap, Fork, Crash, End, Exit, vars
<1>6. QED BY <1>1, <1>2, <1>3, <1>4, <1>5 DEF Next, Parent

\* Descriptors go from the parent to one child, and disappear with it.
LEMMA HoldsStep ==
  ASSUME IInv, [Next]_vars
  PROVE  /\ \A i \in Children' : \A c \in holds'[i] : fate'[c] \in {"accepted", "served"}
         /\ at' = "fork" /\ client' # NoClient => fate'[client'] = "accepted"
         /\ HangsUp'
<1> DEFINE Held == \A i \in Children : \A c \in holds[i] : fate[c] \in {"accepted", "served"}
           Taken == at = "fork" /\ client # NoClient => fate[client] = "accepted"
           Goal == Held' /\ Taken' /\ HangsUp'
<1>0. /\ queue \in Seq(Clients) /\ client \in Clients \cup {NoClient}
      /\ fate \in [Clients -> {"away", "queued", "accepted", "served", "refused", "aborted"}]
      /\ \A i \in Children : holds[i] \subseteq Clients
      /\ Held /\ Taken /\ NoClient \notin Clients
      /\ queue # << >> => Head(queue) \in Clients /\ fate[Head(queue)] = "queued"
  <2>1. \A i \in Children : holds[i] \subseteq Clients
    BY DEF IInv, TypeOK, Children
  <2>2. /\ queue \in Seq(Clients)
        /\ \A i \in DOMAIN queue : fate[queue[i]] = "queued"
    BY DEF IInv, TypeOK, Lines
  <2>3. queue # << >> => Head(queue) \in Clients /\ fate[Head(queue)] = "queued"
    BY <2>2
  <2>4. QED BY <2>1, <2>2, <2>3, NoClientAssumption DEF IInv, TypeOK, Lines
<1>1. /\ \A c \in open : at = "fork" /\ c = client
      /\ \A i, j \in Children : holds[i] \cap holds[j] # {} => i = j
      /\ at = "fork" => \A i \in Children : client \notin holds[i]
  BY DEF IInv, HangsUp
<1>2. ASSUME NEW c \in Clients, Connect(c) PROVE Goal
  <2>1. /\ fate[c] = "away" /\ fate' = [fate EXCEPT ![c] = "queued"]
        /\ UNCHANGED <<at, client, open, life, holds>>
    BY <1>2 DEF Connect
  <2>2. QED BY <1>0, <1>1, <2>1 DEF HangsUp, Children
<1>3. CASE Reap
  <2>1. /\ Children' = Children /\ UNCHANGED <<client, open, queue, fate, holds>>
        /\ at = "reap" /\ at' \in {"reap", "accept"}
    BY <1>3, CollectFacts DEF Reap, Children, IInv
  <2>2. QED BY <1>0, <1>1, <2>1 DEF HangsUp
<1>4. CASE Accept
  <2>1. /\ at = "accept" /\ at' = "fork" /\ queue # << >>
        /\ client' = Head(queue) /\ open' \subseteq open \cup {Head(queue)}
        /\ fate' = [fate EXCEPT ![Head(queue)] = "accepted"]
        /\ UNCHANGED <<life, holds>>
    BY <1>4 DEF Accept
  <2>2. open = {} /\ \A i \in Children : Head(queue) \notin holds[i]
    BY <1>0, <1>1, <2>1
  <2>3. QED BY <1>0, <1>1, <2>1, <2>2 DEF HangsUp, Children
<1>5. CASE AcceptFail
  <2>1. /\ at = "accept" /\ at' = "fork" /\ queue # << >>
        /\ client' = NoClient /\ open' = open
        /\ fate' = [fate EXCEPT ![Head(queue)] = "aborted"]
        /\ UNCHANGED <<life, holds>>
    BY <1>5 DEF AcceptFail
  <2>2. open = {} /\ \A i \in Children : Head(queue) \notin holds[i]
    BY <1>0, <1>1, <2>1
  <2>3. QED BY <1>0, <1>1, <2>1, <2>2 DEF HangsUp, Children
<1>6. CASE Fork
  <2>1. /\ at = "fork" /\ at' = "reap" /\ open' = open \ {client}
        /\ UNCHANGED <<client, fate>>
    BY <1>6 DEF Fork
  <2> DEFINE new == Len(life) + 1
  <2>2. /\ new \notin Children /\ Children' = Children \cup {new}
        /\ holds'[new] = open /\ \A i \in Children : holds'[i] = holds[i]
    BY <1>6, ForkFacts DEF IInv
  <2> HIDE DEF new
  <2>3. open' = {} /\ open \subseteq {client} /\ \A i \in Children : holds[i] \cap open = {}
    BY <1>1, <2>1
  <2>4. \A c \in open : fate[c] = "accepted"
    BY <1>0, <2>1, <2>3 DEF IInv, TypeOK
  <2>5. QED BY <1>0, <1>1, <2>1, <2>2, <2>3, <2>4 DEF HangsUp
<1>7. CASE ForkFail
  <2>1. /\ at = "fork" /\ at' = "reap" /\ open' = open \ {client}
        /\ fate' = IF client = NoClient THEN fate ELSE [fate EXCEPT ![client] = "refused"]
        /\ UNCHANGED <<client, life, holds>>
    BY <1>7 DEF ForkFail
  <2>2. QED BY <1>0, <1>1, <2>1 DEF HangsUp, Children
<1>8. ASSUME NEW i \in Children, Serve(i) PROVE Goal
  <2>1. /\ given[i] \in holds[i] /\ fate' = [fate EXCEPT ![given[i]] = "served"]
        /\ UNCHANGED <<at, client, open, life, holds>>
    BY <1>8 DEF Serve
  <2>2. at = "fork" => given[i] # client
    BY <1>1, <2>1
  <2>3. QED BY <1>0, <1>1, <2>1, <2>2 DEF HangsUp, Children
<1>9. ASSUME NEW i \in Children, Exit(i) PROVE Goal
  <2>1. /\ Children' = Children /\ holds'[i] = {}
        /\ \A j \in Children : j # i => holds'[j] = holds[j]
        /\ UNCHANGED <<at, client, open, fate>>
    BY <1>9, ExitFacts DEF Exit, IInv
  <2>2. QED BY <1>0, <1>1, <2>1 DEF HangsUp
<1>10. CASE UNCHANGED vars
  BY <1>0, <1>1, <1>10 DEF HangsUp, Children, vars
<1>11. Goal
  BY <1>2, <1>3, <1>4, <1>5, <1>6, <1>7, <1>8, <1>9, <1>10 DEF Next, Parent, Crash, End
<1>12. QED BY <1>11

-----------------------------------------------------------------------------
LEMMA InitIInv == Init => IInv
<1> SUFFICES ASSUME Init PROVE IInv
  OBVIOUS
<1> USE DEF Init
<1>1. << >> \in Seq(Clients) /\ << >> \in Seq(Clients \cup {NoClient})
      /\ << >> \in Seq(SUBSET Clients) /\ << >> \in Seq({"runs", "zombie", "gone"})
      /\ DOMAIN << >> = {}
  OBVIOUS
<1>2. TypeOK
  BY <1>1, BoundsAssumption DEF TypeOK
<1>3. Lines /\ HangsUp
  BY <1>1 DEF Lines, HangsUp, Children
<1>4. QED BY <1>2, <1>3 DEF IInv

LEMMA NextIInv == IInv /\ [Next]_vars => IInv'
<1> SUFFICES ASSUME IInv, [Next]_vars PROVE IInv'
  OBVIOUS
<1>1. TypeOK'
  BY TypeStep DEF IInv
<1>2. Lines'
  BY QueueStep, HoldsStep DEF Lines
<1>3. HangsUp'
  BY HoldsStep
<1>4. QED BY <1>1, <1>2, <1>3 DEF IInv

\* A child may also end at any moment, as it does in System where it may be
\* killed.
Moves == Next \/ \E i \in Children : Exit(i)

LEMMA MovesIInv == IInv /\ [Moves]_vars => IInv'
<1> SUFFICES ASSUME IInv, NEW i \in Children, Exit(i) PROVE IInv'
  BY NextIInv DEF Moves
<1>1. /\ life' \in Seq({"runs", "zombie", "gone"}) /\ holds' \in Seq(SUBSET Clients)
      /\ Len(life') = Len(life) /\ Len(holds') = Len(holds)
      /\ Children' = Children
      /\ holds'[i] = {} /\ \A j \in Children : j # i => holds'[j] = holds[j]
  BY ExitFacts DEF IInv
<1>2. UNCHANGED <<form, at, client, open, queue, fate, given, failures>>
  BY DEF Exit
<1>3. TypeOK'
  BY <1>1, <1>2 DEF IInv, TypeOK
<1>4. \A j \in Children : holds'[j] \subseteq holds[j]
  BY <1>1
<1>5. Lines'
  BY <1>1, <1>2, <1>4 DEF IInv, Lines
<1>6. HangsUp'
  <2>1. \A c \in open : at = "fork" /\ c = client
    BY DEF IInv, HangsUp
  <2>2. \A j, k \in Children : holds[j] \cap holds[k] # {} => j = k
    BY DEF IInv, HangsUp
  <2>3. at = "fork" => \A j \in Children : client \notin holds[j]
    BY DEF IInv, HangsUp
  <2>4. QED BY <1>1, <1>2, <1>4, <2>1, <2>2, <2>3 DEF HangsUp
<1>7. QED BY <1>3, <1>5, <1>6 DEF IInv

\* A client that has been served remains one that has: accept() and fork() fail
\* for others.
LEMMA ServedForGood ==
  ASSUME IInv, [Moves]_vars, NEW c \in Clients, fate[c] = "served"
  PROVE  fate'[c] = "served"
<1>1. fate \in [Clients -> {"away", "queued", "accepted", "served", "refused", "aborted"}]
  BY DEF IInv, TypeOK
<1>2. ASSUME NEW d \in Clients, Connect(d) PROVE fate'[c] = "served"
  BY <1>1, <1>2 DEF Connect
<1>3. CASE Accept \/ AcceptFail
  <2>1. queue \in Seq(Clients) /\ queue # << >>
    BY <1>3 DEF IInv, TypeOK, Accept, AcceptFail
  <2>2. Head(queue) = queue[1] /\ 1 \in DOMAIN queue
    BY <2>1
  <2>3. fate[Head(queue)] = "queued"
    BY <2>2 DEF IInv, Lines
  <2>4. QED BY <1>1, <1>3, <2>3 DEF Accept, AcceptFail
<1>4. CASE ForkFail
  <2>1. client # NoClient => fate[client] = "accepted"
    BY <1>4 DEF ForkFail, IInv, Lines
  <2>2. QED BY <1>1, <1>4, <2>1 DEF ForkFail
<1>5. ASSUME NEW i \in Children, Serve(i) PROVE fate'[c] = "served"
  BY <1>1, <1>5 DEF Serve
<1>6. CASE \/ Reap \/ Fork \/ UNCHANGED vars
           \/ \E i \in Children : Exit(i)
  BY <1>6 DEF Reap, Fork, Exit, vars
<1>7. QED BY <1>2, <1>3, <1>4, <1>5, <1>6 DEF Moves, Next, Parent, Crash, End

LEMMA Invariance == Spec => []IInv
BY InitIInv, NextIInv, PTL DEF Spec

\* The loop's variables, the queue and the children keep their types.
THEOREM TypeCorrect == Spec => []TypeOK
<1>1. IInv => TypeOK
  BY DEF IInv
<1>2. QED BY <1>1, Invariance, PTL

\* A connection is open in one process at most between two forks, with or
\* without the waitpid loop, whichever calls of accept() and fork() fail.
THEOREM SessionsHangUp == Spec => []HangsUp
<1>1. IInv => HangsUp
  BY DEF IInv
<1>2. QED BY <1>1, Invariance, PTL

-----------------------------------------------------------------------------
\* In the older form the parent has no descriptor left to pass on.
NothingOpen == form.closesGood => open = {}

IInvOlder == IInv /\ NothingOpen /\ OlderServesNobody

LEMMA InitOlder == Init => IInvOlder
<1> SUFFICES ASSUME Init PROVE IInvOlder
  OBVIOUS
<1>1. IInv
  BY InitIInv
<1>2. /\ open = {} /\ Children = {} /\ \A c \in Clients : fate[c] = "away"
  BY DEF Init, Children
<1>3. QED BY <1>1, <1>2 DEF IInvOlder, NothingOpen, OlderServesNobody

LEMMA NextOlder == IInvOlder /\ [Next]_vars => IInvOlder'
<1> SUFFICES ASSUME IInvOlder, [Next]_vars PROVE IInvOlder'
  OBVIOUS
<1>1. IInv'
  BY NextIInv DEF IInvOlder
<1>2. form' = form
  BY DEF Next, Parent, Connect, Reap, Accept, AcceptFail, Fork, ForkFail, Serve, Crash,
         End, Exit, vars
<1>3. SUFFICES ASSUME form.closesGood
               PROVE  /\ open' = {} /\ \A c \in Clients : fate'[c] # "served"
                      /\ \A i \in Children' : holds'[i] = {}
  BY <1>1, <1>2 DEF IInvOlder, NothingOpen, OlderServesNobody
<1> DEFINE Goal == /\ open' = {} /\ \A c \in Clients : fate'[c] # "served"
                   /\ \A i \in Children' : holds'[i] = {}
<1>4. /\ TypeOK /\ open = {} /\ \A c \in Clients : fate[c] # "served"
      /\ \A i \in Children : holds[i] = {}
      /\ fate \in [Clients -> {"away", "queued", "accepted", "served", "refused", "aborted"}]
  BY <1>3 DEF IInvOlder, IInv, TypeOK, NothingOpen, OlderServesNobody
<1>5. ASSUME NEW c \in Clients, Connect(c) PROVE Goal
  BY <1>4, <1>5 DEF Connect, Children
<1>6. CASE Reap
  <2>1. Children' = Children
    BY <1>4, <1>6, CollectFacts DEF Reap, Children
  <2>2. QED BY <1>4, <1>6, <2>1 DEF Reap
<1>7. CASE Accept \/ AcceptFail
  BY <1>3, <1>4, <1>7 DEF Accept, AcceptFail, Children
<1>8. CASE Fork
  <2>1. open' = {} /\ fate' = fate
    BY <1>4, <1>8 DEF Fork
  <2>2. QED BY <1>4, <1>8, <2>1, ForkFacts
<1>9. CASE ForkFail
  BY <1>4, <1>9 DEF ForkFail, Children
<1>10. ASSUME NEW i \in Children, Serve(i) PROVE Goal
  BY <1>4, <1>10 DEF Serve
<1>11. ASSUME NEW i \in Children, Exit(i) PROVE Goal
  <2>1. open' = open /\ fate' = fate
    BY <1>11 DEF Exit
  <2>2. QED BY <1>4, <1>11, <2>1, ExitFacts
<1>12. CASE UNCHANGED vars
  BY <1>4, <1>12 DEF vars, Children
<1>13. QED
  BY <1>5, <1>6, <1>7, <1>8, <1>9, <1>10, <1>11, <1>12 DEF Next, Parent, Crash, End

\* The same when children end at any moment.
LEMMA MovesOlder == IInvOlder /\ [Moves]_vars => IInvOlder'
<1> SUFFICES ASSUME IInvOlder, NEW i \in Children, Exit(i) PROVE IInvOlder'
  BY NextOlder DEF Moves
<1>1. IInv'
  BY MovesIInv DEF IInvOlder, Moves
<1>2. UNCHANGED <<form, open, fate>>
  BY DEF Exit
<1>3. form.closesGood => \A j \in Children' : holds'[j] = {}
  BY ExitFacts DEF IInvOlder, IInv, OlderServesNobody
<1>4. NothingOpen' /\ OlderServesNobody'
  BY <1>2, <1>3 DEF IInvOlder, NothingOpen, OlderServesNobody
<1>5. QED BY <1>1, <1>4 DEF IInvOlder

\* The older proxy serves nobody, however many clients come and whichever calls
\* fail.
THEOREM NobodyIsServed == Spec => []OlderServesNobody
<1>1. Spec => []IInvOlder
  BY InitOlder, NextOlder, PTL DEF Spec
<1>2. IInvOlder => OlderServesNobody
  BY DEF IInvOlder
<1>3. QED BY <1>1, <1>2, PTL
=============================================================================
