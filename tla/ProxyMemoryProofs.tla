------------------------- MODULE ProxyMemoryProofs -------------------------
(* Theorems about ProxyMemory, for any set of sessions, any size of the    *)
(* stdio buffer and all bounds: first the semaphore and the shared         *)
(* segment, then Sniffed/temp, the types and what SHOW prints when         *)
(* sessions do not cross.                                                  *)
EXTENDS ProxyMemory, SequenceTheorems, TLAPS

\* Phases without a critical section, "dead" aside: a process killed inside
\* one stays inside.
Outside == {"off", "prompt", "ask", "fopen", "fwrite", "close", "end"}
Phases  == Outside \cup {"SAVE", "SHOW", "client", "server", "protocol", "open", "block", "dead"}

Connection == <<"client_address", "client_port", "server_address", "server_port">>

SharedTypes ==
  /\ main \in {"start", "serving"} /\ early \in BOOLEAN /\ saves \in Nat
  /\ phase \in [Procs -> Phases] /\ in \in [Procs -> Nat]
  /\ mem \in [Fields \cup {"save"} -> Sessions \cup {none, 0, 1}]
  /\ local \in [Procs -> Sessions \cup {none, 0, 1}]
  /\ shown \in [Fields -> Sessions \cup {none, 0, 1}]
  /\ phase[commands] \in {"prompt", "SAVE", "SHOW"}
  /\ \A s \in Sessions : phase[s] \notin {"SAVE", "SHOW"}
  /\ \A p \in Procs : phase[p] \in Outside => in[p] = 0

\* What SAVE has read is still so when it writes.
SaveInv ==
  /\ main = "start" /\ ~early =>
       saves = 0 /\ ~(phase[commands] = "SAVE" /\ in[commands] = 2)
  /\ EverySaveCounts
  /\ main = "serving" /\ ~early /\ phase[commands] = "SAVE" /\ in[commands] = 2 =>
       local[commands] = mem["save"]

\* An address and its port differ only while, or because, a session is half way.
Pair(ph, a, b) ==
  /\ mem[a] = mem[b] \/ \E s \in Sessions : in[s] = 2 /\ phase[s] \in {ph, "dead"}
  /\ \A s \in Sessions : phase[s] = ph /\ in[s] = 2 => mem[a] = s

\* What SHOW has printed is still so until it leaves its section.
Printed ==
  phase[commands] = "SHOW" =>
    \A i \in 1..4 : in[commands] > i => shown[Connection[i]] = mem[Connection[i]]

PairInv ==
  /\ Pair("client", "client_address", "client_port")
  /\ Pair("server", "server_address", "server_port")
  /\ Printed
  /\ ShownPairs

IInv == SharedTypes /\ OneInside /\ SaveInv /\ PairInv

-----------------------------------------------------------------------------
\* The sections, access by access.
LEMMA SectionFacts ==
  ASSUME NEW ph \in Phases
  PROVE  /\ Len(Section(ph)) \in Nat
         /\ ph \in Outside \cup {"dead"} <=> Section(ph) = << >>
         /\ After(ph) \in Phases
         /\ ph = "client" => /\ Len(Section(ph)) = 2
                             /\ Section(ph)[1] = "client_address"
                             /\ Section(ph)[2] = "client_port"
         /\ ph = "server" => /\ Len(Section(ph)) = 2
                             /\ Section(ph)[1] = "server_address"
                             /\ Section(ph)[2] = "server_port"
         /\ ph = "protocol" => Len(Section(ph)) = 1 /\ Section(ph)[1] = "protocol"
         /\ ph = "SHOW" => /\ Len(Section(ph)) = 5
                           /\ \A i \in 1..4 : Section(ph)[i] = Connection[i]
                           /\ Section(ph)[5] = "protocol"
<1>1. CASE ph \in Outside \cup {"dead"}
  BY <1>1 DEF Section, After, Outside, Phases
<1>2. CASE ph = "client"
  BY <1>2 DEF Section, After, Outside, Phases
<1>3. CASE ph = "server"
  BY <1>3 DEF Section, After, Outside, Phases
<1>4. CASE ph = "protocol"
  BY <1>4 DEF Section, After, Outside, Phases
<1>5. CASE ph \in {"open", "block"}
  BY <1>5 DEF Section, After, Outside, Phases
<1>6. CASE ph = "SAVE"
  BY <1>6 DEF Section, After, Outside, Phases
<1>7. CASE ph = "SHOW"
  <2>3. /\ Len(Section(ph)) = 5
        /\ \A i \in 1..4 : Section(ph)[i] = Connection[i]
        /\ Section(ph)[5] = "protocol"
    BY <1>7 DEF Section, Connection
  <2>4. Section(ph) # << >>
    BY <2>3
  <2>5. QED BY <1>7, <2>3, <2>4 DEF After, Outside, Phases
<1>8. \/ ph \in Outside \cup {"dead"} \/ ph = "client" \/ ph = "server"
      \/ ph = "protocol" \/ ph \in {"open", "block"} \/ ph = "SAVE" \/ ph = "SHOW"
  BY DEF Phases
<1>9. QED BY <1>1, <1>2, <1>3, <1>4, <1>5, <1>6, <1>7, <1>8, Zenon

\* A step of session s outside its sections, or its death.
Moves(s) ==
  /\ UNCHANGED <<in, sem, memVars>>
  /\ \E to \in Phases \ {"SAVE", "SHOW"} :
       /\ phase' = [phase EXCEPT ![s] = to]
       /\ in[s] = 0 \/ to = "dead"

\* Every step is one of these.
LEMMA StepKinds ==
  ASSUME SharedTypes, [Next]_vars
  PROVE  \/ UNCHANGED <<phase, in, sem, memVars>>
         \/ \E s \in Sessions : Moves(s) \/ StoreField(s) \/ ReadSave(s)
         \/ \E k \in {"SAVE", "SHOW"} : Type(k)
         \/ \E p \in Procs : SemWait(p) \/ SemPost(p)
         \/ MainStores \/ TestSave \/ FlipSave \/ ShowField
<1> USE DEF Procs
<1>1. ASSUME NEW s \in Sessions, Accept(s) \/ Download(s) \/ GiveUp(s) \/ Quit(s) \/ Kill(s)
      PROVE  Moves(s)
  <2>1. in[s] = 0 \/ Kill(s)
    BY <1>1 DEF SharedTypes, Accept, Download, GiveUp, Quit, Outside
  <2>2. /\ UNCHANGED <<in, sem, memVars>>
        /\ \E to \in {"client", "protocol", "close", "end", "dead"} :
             /\ Go(s, to)
             /\ Kill(s) => to = "dead"
    <3>1. CASE Accept(s)
      BY <3>1 DEF Accept, Kill, memVars
    <3>2. CASE Download(s)
      BY <3>2 DEF Download, Kill, Go, memVars
    <3>3. CASE GiveUp(s)
      BY <3>3 DEF GiveUp, Kill, Go, memVars
    <3>4. CASE Quit(s)
      BY <3>4 DEF Quit, Kill, Go, memVars
    <3>5. CASE Kill(s)
      BY <3>5 DEF Kill, Go, memVars
    <3>6. QED BY <1>1, <3>1, <3>2, <3>3, <3>4, <3>5
  <2>3. QED BY <2>1, <2>2 DEF Moves, Go, Phases, Outside
<1>2. ASSUME NEW s \in Sessions, Fopen(s) \/ Fwrite(s) \/ Fclose(s)
      PROVE  Moves(s)
  <2>1. in[s] = 0
    BY <1>2 DEF SharedTypes, Fopen, OpenTemp, Fwrite, Fclose, CloseTemp, Outside
  <2>2. /\ UNCHANGED <<in, sem, memVars>>
        /\ \E to \in {"block", "close", "ask", "dead"} : Go(s, to)
    <3>1. CASE Fopen(s)
      BY <3>1 DEF Fopen, OpenTemp, Loop
    <3>2. CASE Fwrite(s)
      BY <3>2 DEF Fwrite, Loop
    <3>3. CASE Fclose(s)
      BY <3>3 DEF Fclose, CloseTemp
    <3>4. QED BY <1>2, <3>1, <3>2, <3>3
  <2>3. QED BY <2>1, <2>2 DEF Moves, Go, Phases, Outside
<1>3. CASE Input
  BY <1>1, <1>3 DEF Input
<1>4. CASE \E s \in Sessions : SessionStep(s)
  BY <1>2, <1>4 DEF SessionStep
<1>5. CASE CommandsStep
  BY <1>5 DEF CommandsStep
<1>6. CASE UNCHANGED vars
  BY <1>6 DEF vars
<1>7. QED BY <1>3, <1>4, <1>5, <1>6 DEF Next
-----------------------------------------------------------------------------
\* What is between sem_wait and sem_post is where the next lemmas need it.
LEMMA StoreFacts ==
  ASSUME SharedTypes, NEW s \in Sessions, StoreField(s)
  PROVE  /\ s \in Procs /\ in[s] \in Nat /\ in[s] # 0
         /\ in' = [in EXCEPT ![s] = in[s] + 1]
         /\ \/ phase[s] = "client" /\ in[s] = 1 /\ mem' = [mem EXCEPT !["client_address"] = s]
            \/ phase[s] = "client" /\ in[s] = 2 /\ mem' = [mem EXCEPT !["client_port"] = s]
            \/ phase[s] = "server" /\ in[s] = 1 /\ mem' = [mem EXCEPT !["server_address"] = s]
            \/ phase[s] = "server" /\ in[s] = 2 /\ mem' = [mem EXCEPT !["server_port"] = s]
            \/ phase[s] = "protocol" /\ in[s] = 1 /\ mem' = [mem EXCEPT !["protocol"] = s]
         /\ UNCHANGED <<phase, sem, main, local, shown, saves, early>>
<1> DEFINE f == Section(phase[s])[in[s]]
           D == \/ phase[s] = "client" /\ in[s] = 1 /\ mem' = [mem EXCEPT !["client_address"] = s]
                \/ phase[s] = "client" /\ in[s] = 2 /\ mem' = [mem EXCEPT !["client_port"] = s]
                \/ phase[s] = "server" /\ in[s] = 1 /\ mem' = [mem EXCEPT !["server_address"] = s]
                \/ phase[s] = "server" /\ in[s] = 2 /\ mem' = [mem EXCEPT !["server_port"] = s]
                \/ phase[s] = "protocol" /\ in[s] = 1 /\ mem' = [mem EXCEPT !["protocol"] = s]
<1>1. /\ s \in Procs /\ in[s] \in Nat /\ phase[s] \in Phases
      /\ phase[s] \in {"client", "server", "protocol"}
      /\ in' = [in EXCEPT ![s] = in[s] + 1]
      /\ UNCHANGED <<phase, sem, main, local, shown, saves, early>>
  BY DEF SharedTypes, StoreField, Step, Procs
<1>2. in[s] \in 1..Len(Section(phase[s]))
  BY DEF StoreField, Within
<1>3. mem' = [mem EXCEPT ![f] = s]
  BY DEF StoreField, Field
<1> HIDE DEF f
<1>4. ASSUME phase[s] = "client" PROVE D
  <2>1. /\ Len(Section(phase[s])) = 2
        /\ Section(phase[s])[1] = "client_address" /\ Section(phase[s])[2] = "client_port"
    BY <1>1, <1>4, SectionFacts
  <2>2. in[s] = 1 \/ in[s] = 2
    BY <1>1, <1>2, <2>1
  <2>3. (in[s] = 1 => f = "client_address") /\ (in[s] = 2 => f = "client_port")
    BY <2>1 DEF f
  <2>4. QED BY <1>3, <1>4, <2>2, <2>3, Zenon
<1>5. ASSUME phase[s] = "server" PROVE D
  <2>1. /\ Len(Section(phase[s])) = 2
        /\ Section(phase[s])[1] = "server_address" /\ Section(phase[s])[2] = "server_port"
    BY <1>1, <1>5, SectionFacts
  <2>2. in[s] = 1 \/ in[s] = 2
    BY <1>1, <1>2, <2>1
  <2>3. (in[s] = 1 => f = "server_address") /\ (in[s] = 2 => f = "server_port")
    BY <2>1 DEF f
  <2>4. QED BY <1>3, <1>5, <2>2, <2>3, Zenon
<1>6. ASSUME phase[s] = "protocol" PROVE D
  <2>1. Len(Section(phase[s])) = 1 /\ Section(phase[s])[1] = "protocol"
    BY <1>1, <1>6, SectionFacts
  <2>2. in[s] = 1
    BY <1>1, <1>2, <2>1
  <2>3. f = "protocol"
    BY <2>1, <2>2 DEF f
  <2>4. QED BY <1>3, <1>6, <2>2, <2>3, Zenon
<1>7. D
  BY <1>1, <1>4, <1>5, <1>6
<1>8. in[s] # 0
  BY <1>2
<1> HIDE DEF D
<1>9. QED BY <1>1, <1>7, <1>8 DEF D

LEMMA ShowFacts ==
  ASSUME SharedTypes, ShowField
  PROVE  /\ commands \in Procs /\ phase[commands] = "SHOW"
         /\ in[commands] \in 1..5
         /\ in' = [in EXCEPT ![commands] = in[commands] + 1]
         /\ \E f \in Fields :
              /\ shown' = [shown EXCEPT ![f] = mem[f]]
              /\ \A i \in 1..4 : in[commands] = i => f = Connection[i]
         /\ UNCHANGED <<phase, sem, main, mem, local, saves, early>>
<1>1. /\ commands \in Procs /\ phase[commands] = "SHOW" /\ in[commands] \in Nat
      /\ Len(Section("SHOW")) = 5
      /\ \A i \in 1..4 : Section("SHOW")[i] = Connection[i]
      /\ Section("SHOW")[5] = "protocol"
  BY SectionFacts DEF SharedTypes, ShowField, Procs, Phases
<1> DEFINE f == Section("SHOW")[in[commands]]
<1>2. /\ in[commands] \in 1..5
      /\ shown' = [shown EXCEPT ![f] = mem[f]]
      /\ in' = [in EXCEPT ![commands] = in[commands] + 1]
      /\ UNCHANGED <<phase, sem, main, mem, local, saves, early>>
  BY <1>1 DEF ShowField, Within, Field, Step
<1>3. /\ \A i \in 1..4 : in[commands] = i => f = Connection[i]
      /\ in[commands] = 5 => f = "protocol"
  BY <1>1
<1>4. f \in Fields
  <2>1. \A i \in 1..4 : Connection[i] \in Fields
    BY DEF Connection, Fields
  <2>2. in[commands] \in 1..4 \/ in[commands] = 5
    BY <1>2
  <2>3. QED BY <1>3, <2>1, <2>2 DEF Fields
<1> HIDE DEF f
<1>5. QED BY <1>1, <1>2, <1>3, <1>4

LEMMA PostFacts ==
  ASSUME SharedTypes, NEW p \in Procs, SemPost(p)
  PROVE  /\ in[p] \in Nat /\ in[p] # 0
         /\ phase[p] # "dead"
         /\ phase[p] = "client" => in[p] = 3
         /\ phase[p] = "server" => in[p] = 3
         /\ phase[p] = "SHOW" => in[p] = 6
         /\ sem' = sem + 1
         /\ in' = [in EXCEPT ![p] = 0]
         /\ phase' = [phase EXCEPT ![p] = After(phase[p])]
         /\ After(phase[p]) \in Phases
         /\ p = commands => After(phase[p]) = "prompt"
         /\ p # commands => After(phase[p]) \notin {"SAVE", "SHOW"}
         /\ UNCHANGED <<main, mem, local, shown, saves, early>>
<1>1. /\ in[p] \in Nat /\ phase[p] \in Phases
      /\ in[p] = Len(Section(phase[p])) + 1
      /\ sem' = sem + 1
      /\ in' = [in EXCEPT ![p] = 0]
      /\ phase' = [phase EXCEPT ![p] = After(phase[p])]
      /\ UNCHANGED <<main, mem, local, shown, saves, early>>
  BY DEF SharedTypes, SemPost, Leave, Go, memVars
<1>2. Len(Section(phase[p])) \in Nat /\ After(phase[p]) \in Phases
  BY <1>1, SectionFacts
<1> DEFINE n == Len(Section(phase[p]))
<1> HIDE DEF n
<1>3. in[p] = n + 1 /\ n \in Nat
  BY <1>1, <1>2 DEF n
<1>4. phase[p] \in {"client", "server"} => in[p] = 3
  <2>1. phase[p] \in {"client", "server"} => n = 2
    BY <1>1, SectionFacts DEF n
  <2>2. QED BY <1>3, <2>1
<1>5. phase[p] = "SHOW" => in[p] = 6
  <2>1. phase[p] = "SHOW" => n = 5
    BY <1>1, SectionFacts DEF n
  <2>2. QED BY <1>3, <2>1
<1>6. /\ p = commands => After(phase[p]) = "prompt"
      /\ After(phase[p]) \notin {"SAVE", "SHOW"}
  BY DEF SharedTypes, After
<1>7. in[p] # 0
  BY <1>3
<1>8. phase[p] # "dead"
  BY <1>1, SectionFacts DEF SemPost, Leave
<1>9. QED BY <1>1, <1>2, <1>4, <1>5, <1>6, <1>7, <1>8

-----------------------------------------------------------------------------
LEMMA TypesStep ==
  ASSUME SharedTypes, [Next]_vars
  PROVE  SharedTypes'
<1> USE NamesAssumption DEF Procs
<1>1. CASE UNCHANGED <<phase, in, sem, memVars>>
  BY <1>1 DEF SharedTypes, memVars
<1>2. ASSUME NEW s \in Sessions, Moves(s) PROVE SharedTypes'
  BY <1>2 DEF SharedTypes, Moves, memVars, Outside
<1>3. ASSUME NEW s \in Sessions, StoreField(s) PROVE SharedTypes'
  BY <1>3, StoreFacts DEF SharedTypes, Fields, Outside
<1>4. ASSUME NEW s \in Sessions, ReadSave(s) PROVE SharedTypes'
  BY <1>4 DEF SharedTypes, ReadSave, Step, Fields, Outside
<1>5. ASSUME NEW k \in {"SAVE", "SHOW"}, Type(k) PROVE SharedTypes'
  BY <1>5 DEF SharedTypes, Type, Go, memVars, Phases, Outside
<1>6. ASSUME NEW p \in Procs, SemWait(p) PROVE SharedTypes'
  <2>1. phase[p] \notin Outside
    BY <1>6, SectionFacts DEF SharedTypes, SemWait, Phases
  <2>2. QED BY <1>6, <2>1 DEF SharedTypes, SemWait, Step, memVars
<1>7. ASSUME NEW p \in Procs, SemPost(p) PROVE SharedTypes'
  BY <1>7, PostFacts DEF SharedTypes
<1>8. CASE MainStores
  BY <1>8 DEF SharedTypes, MainStores
<1>9. CASE TestSave
  BY <1>9 DEF SharedTypes, TestSave, Step, Fields, Outside
<1>10. CASE FlipSave
  BY <1>10 DEF SharedTypes, FlipSave, StoreSave, Step, Outside
<1>11. CASE ShowField
  BY <1>11, ShowFacts DEF SharedTypes, Outside
<1>12. QED BY <1>1, <1>2, <1>3, <1>4, <1>5, <1>6, <1>7, <1>8, <1>9, <1>10, <1>11, StepKinds
-----------------------------------------------------------------------------
(* Mutual exclusion.                                                       *)

\* Nobody enters or leaves when the process inside goes on.
LEMMA Advance ==
  ASSUME SharedTypes, OneInside, NEW p \in Procs, in[p] # 0,
         in' = [in EXCEPT ![p] = in[p] + 1], sem' = sem
  PROVE  OneInside'
<1>1. \A q \in Procs : in'[q] # 0 <=> in[q] # 0
  BY DEF SharedTypes
<1>2. Inside' = Inside
  BY <1>1 DEF Inside
<1>3. QED BY <1>2 DEF OneInside

LEMMA InsideStep ==
  ASSUME SharedTypes, OneInside, [Next]_vars
  PROVE  OneInside'
<1> USE DEF Procs
<1>1. CASE UNCHANGED <<in, sem>>
  BY <1>1 DEF OneInside, Inside
<1>2. ASSUME NEW s \in Sessions, StoreField(s) PROVE OneInside'
  BY <1>2, StoreFacts, Advance
<1>3. ASSUME NEW s \in Sessions, ReadSave(s) PROVE OneInside'
  <2>1. in[s] # 0 /\ in' = [in EXCEPT ![s] = in[s] + 1] /\ sem' = sem
    BY <1>3 DEF ReadSave, Within, Step
  <2>2. QED BY <2>1, Advance
<1>4. ASSUME NEW p \in Procs, SemWait(p) PROVE OneInside'
  <2>1. Inside = {}
    BY <1>4 DEF OneInside, SemWait
  <2>2. in' = [in EXCEPT ![p] = in[p] + 1] /\ in[p] = 0 /\ sem' = sem - 1 /\ sem = 1
    BY <1>4, <2>1 DEF SemWait, Step, OneInside
  <2>3. Inside' = {p}
    BY <2>1, <2>2 DEF Inside, SharedTypes
  <2>4. QED BY <2>2, <2>3 DEF OneInside
<1>5. ASSUME NEW p \in Procs, SemPost(p) PROVE OneInside'
  <2>1. /\ in[p] # 0 /\ in' = [in EXCEPT ![p] = 0] /\ sem' = sem + 1
    BY <1>5, PostFacts
  <2>2. Inside = {p}
    BY <2>1 DEF OneInside, Inside
  <2>3. Inside' = {}
    BY <2>1, <2>2 DEF Inside, SharedTypes
  <2>4. QED BY <2>1, <2>2, <2>3 DEF OneInside
<1>6. CASE TestSave \/ FlipSave
  <2>1. /\ in[commands] # 0 /\ in' = [in EXCEPT ![commands] = in[commands] + 1]
        /\ sem' = sem
    BY <1>6 DEF TestSave, FlipSave, StoreSave, Step
  <2>2. QED BY <2>1, Advance
<1>7. CASE ShowField
  <2>1. in[commands] # 0
    BY <1>7, ShowFacts
  <2>2. QED BY <1>7, <2>1, ShowFacts, Advance
<1>8. ASSUME \/ \E s \in Sessions : Moves(s)
             \/ \E k \in {"SAVE", "SHOW"} : Type(k)
             \/ MainStores
      PROVE  UNCHANGED <<in, sem>>
  BY <1>8 DEF Moves, Type, MainStores
<1>9. QED BY <1>1, <1>2, <1>3, <1>4, <1>5, <1>6, <1>7, <1>8, StepKinds

-----------------------------------------------------------------------------
(* Every SAVE counts.                                                      *)

\* One more SAVE turns the value over.
LEMMA Parity ==
  ASSUME NEW n \in Nat
  PROVE  (1 + (n + 1)) % 2 = IF (1 + n) % 2 = 1 THEN 0 ELSE 1
OBVIOUS

LEMMA SaveStep ==
  ASSUME SharedTypes, SaveInv, [Next]_vars
  PROVE  SaveInv'
<1> USE NamesAssumption DEF Procs
<1>1. CASE UNCHANGED <<phase, in, sem, memVars>>
  BY <1>1 DEF SaveInv, EverySaveCounts, memVars
<1>2. ASSUME NEW s \in Sessions, Moves(s) PROVE SaveInv'
  BY <1>2 DEF SharedTypes, SaveInv, EverySaveCounts, Moves, memVars
<1>3. ASSUME NEW s \in Sessions, StoreField(s) PROVE SaveInv'
  <2>1. mem'["save"] = mem["save"] /\ in'[commands] = in[commands]
        /\ UNCHANGED <<phase, main, local, saves, early>>
    BY <1>3, StoreFacts DEF SharedTypes, Fields
  <2>2. QED BY <2>1 DEF SaveInv, EverySaveCounts
<1>4. ASSUME NEW s \in Sessions, ReadSave(s) PROVE SaveInv'
  <2>1. local'[commands] = local[commands] /\ in'[commands] = in[commands]
        /\ UNCHANGED <<phase, main, mem, saves, early>>
    BY <1>4 DEF SharedTypes, ReadSave, Step
  <2>2. QED BY <2>1 DEF SaveInv, EverySaveCounts
<1>5. ASSUME NEW k \in {"SAVE", "SHOW"}, Type(k) PROVE SaveInv'
  BY <1>5 DEF SharedTypes, SaveInv, EverySaveCounts, Type, Go, memVars, Outside
<1>6. ASSUME NEW p \in Procs, SemWait(p) PROVE SaveInv'
  BY <1>6 DEF SharedTypes, SaveInv, EverySaveCounts, SemWait, Step, memVars
<1>7. ASSUME NEW p \in Procs, SemPost(p) PROVE SaveInv'
  <2>1. CASE p = commands
    BY <1>7, <2>1, PostFacts DEF SharedTypes, SaveInv, EverySaveCounts
  <2>2. CASE p # commands
    BY <1>7, <2>2, PostFacts DEF SharedTypes, SaveInv, EverySaveCounts
  <2>3. QED BY <2>1, <2>2
<1>8. CASE MainStores
  BY <1>8 DEF SharedTypes, SaveInv, EverySaveCounts, MainStores
<1>9. CASE TestSave
  BY <1>9 DEF SharedTypes, SaveInv, EverySaveCounts, TestSave, Step
<1>10. CASE FlipSave
  <2>1. /\ phase[commands] = "SAVE" /\ in[commands] = 2
        /\ mem'["save"] = IF local[commands] = 1 THEN 0 ELSE 1
        /\ saves' = saves + 1 /\ in'[commands] = 3
        /\ UNCHANGED <<phase, main, local, early>>
    BY <1>10 DEF SharedTypes, FlipSave, StoreSave, Step
  <2>2. ASSUME main = "serving", ~early
        PROVE  mem'["save"] = (1 + saves') % 2
    <3>1. local[commands] = (1 + saves) % 2 /\ saves \in Nat
      BY <2>1, <2>2 DEF SharedTypes, SaveInv, EverySaveCounts
    <3>2. QED BY <2>1, <3>1, Parity
  <2>3. QED BY <2>1, <2>2 DEF SharedTypes, SaveInv, EverySaveCounts
<1>11. CASE ShowField
  BY <1>11, ShowFacts DEF SharedTypes, SaveInv, EverySaveCounts
<1>12. QED BY <1>1, <1>2, <1>3, <1>4, <1>5, <1>6, <1>7, <1>8, <1>9, <1>10, <1>11, StepKinds
-----------------------------------------------------------------------------
(* SHOW prints pairs.                                                      *)

\* What other steps may do to a pair: nothing but let a process go on.
LEMMA PairKept ==
  ASSUME SharedTypes, NEW ph \in {"client", "server"}, NEW a, NEW b,
         Pair(ph, a, b), mem'[a] = mem[a], mem'[b] = mem[b],
         \A s \in Sessions :
           \/ phase'[s] = phase[s] /\ in'[s] = in[s]
           \/ phase'[s] = "dead" /\ in'[s] = in[s]
           \/ /\ in[s] # 2 \/ phase[s] \notin {ph, "dead"}
              /\ in'[s] # 2 \/ phase'[s] # ph
  PROVE  Pair(ph, a, b)'
<1>1. ASSUME mem[a] # mem[b]
      PROVE  \E s \in Sessions : in'[s] = 2 /\ phase'[s] \in {ph, "dead"}
  <2>1. PICK s \in Sessions : in[s] = 2 /\ phase[s] \in {ph, "dead"}
    BY <1>1 DEF Pair
  <2>2. QED BY <2>1
<1>2. ASSUME NEW s \in Sessions, phase'[s] = ph, in'[s] = 2
      PROVE  mem'[a] = s
  BY <1>2 DEF Pair
<1>3. QED BY <1>1, <1>2 DEF Pair

LEMMA PairStep ==
  ASSUME SharedTypes, OneInside, [Next]_vars, NEW ph, NEW a, NEW b,
         \/ ph = "client" /\ a = "client_address" /\ b = "client_port"
         \/ ph = "server" /\ a = "server_address" /\ b = "server_port",
         Pair(ph, a, b)
  PROVE  Pair(ph, a, b)'
<1> USE NamesAssumption DEF Procs
<1> DEFINE Kept == mem'[a] = mem[a] /\ mem'[b] = mem[b]
<1>0. ph \in {"client", "server"} /\ a # b /\ a \in Fields /\ b \in Fields
      /\ a # "save" /\ b # "save"
  BY DEF Fields
<1>1. CASE UNCHANGED <<phase, in, sem, memVars>>
  BY <1>0, <1>1, PairKept DEF memVars
<1>2. ASSUME NEW s \in Sessions, Moves(s) PROVE Pair(ph, a, b)'
  BY <1>0, <1>2, PairKept DEF SharedTypes, Moves, memVars
<1>3. ASSUME NEW s \in Sessions, StoreField(s) PROVE Pair(ph, a, b)'
  <2>1. \A t \in Sessions : t # s => in[t] = 0
    BY <1>3, StoreFacts DEF OneInside, Inside
  <2>2. /\ in' = [in EXCEPT ![s] = in[s] + 1] /\ phase' = phase
        /\ in \in [Procs -> Nat] /\ s \in Procs
    BY <1>3, StoreFacts DEF SharedTypes
  <2>3. mem \in [Fields \cup {"save"} -> Sessions \cup {none, 0, 1}]
    BY DEF SharedTypes
  <2>4. CASE phase[s] = ph /\ in[s] = 1
    <3>1. mem' = [mem EXCEPT ![a] = s]
      BY <1>3, <2>4, StoreFacts
    <3>2. in'[s] = 2 /\ phase'[s] = ph /\ mem'[a] = s
      BY <1>0, <2>2, <2>3, <2>4, <3>1
    <3>3. \A t \in Sessions : t # s => in'[t] = 0
      BY <2>1, <2>2
    <3>4. QED BY <3>2, <3>3 DEF Pair
  <2>5. CASE phase[s] = ph /\ in[s] = 2
    <3>1. mem' = [mem EXCEPT ![b] = s] /\ mem[a] = s
      BY <1>3, <2>5, StoreFacts DEF Pair
    <3>2. in'[s] = 3 /\ mem'[a] = mem'[b]
      BY <1>0, <2>2, <2>3, <2>5, <3>1
    <3>3. \A t \in Sessions : t # s => in'[t] = 0
      BY <2>1, <2>2
    <3>4. QED BY <3>2, <3>3 DEF Pair
  <2>6. CASE phase[s] # ph
    <3>1. Kept /\ phase[s] # "dead"
      <4>1. \E f \in Fields : f # a /\ f # b /\ mem' = [mem EXCEPT ![f] = s]
        BY <1>3, <2>6, StoreFacts DEF Fields
      <4>2. QED BY <1>0, <1>3, <2>3, <4>1, StoreFacts
    <3>2. \A t \in Sessions : t # s => in'[t] = in[t]
      BY <2>2
    <3>3. QED BY <1>0, <2>2, <2>6, <3>1, <3>2, PairKept
  <2>7. QED BY <1>0, <1>3, <2>4, <2>5, <2>6, StoreFacts
<1>4. ASSUME NEW s \in Sessions, ReadSave(s) PROVE Pair(ph, a, b)'
  <2>1. /\ phase[s] \in {"open", "block"} /\ mem' = mem /\ phase' = phase
        /\ \A t \in Sessions : t # s => in'[t] = in[t]
    BY <1>4 DEF SharedTypes, ReadSave, Step
  <2>2. QED BY <1>0, <2>1, PairKept
<1>5. ASSUME NEW p \in Procs, SemWait(p) PROVE Pair(ph, a, b)'
  <2>1. /\ mem' = mem /\ phase' = phase /\ in[p] = 0 /\ in'[p] = 1
        /\ \A t \in Sessions : t # p => in'[t] = in[t]
    BY <1>5 DEF SharedTypes, SemWait, Step, memVars
  <2>2. QED BY <1>0, <2>1, PairKept
<1>6. ASSUME NEW p \in Procs, SemPost(p) PROVE Pair(ph, a, b)'
  <2>1. /\ mem' = mem /\ in'[p] = 0 /\ (in[p] # 2 \/ phase[p] \notin {ph, "dead"})
        /\ \A t \in Sessions : t # p => in'[t] = in[t] /\ phase'[t] = phase[t]
    BY <1>0, <1>6, PostFacts DEF SharedTypes
  <2>2. QED BY <1>0, <2>1, PairKept
<1>7. ASSUME \/ \E k \in {"SAVE", "SHOW"} : Type(k)
             \/ MainStores \/ TestSave \/ FlipSave \/ ShowField
      PROVE  Pair(ph, a, b)'
  <2>1. \A s \in Sessions : s # commands
    OBVIOUS
  <2>2. Kept
    <3>1. mem' = mem \/ \E v : mem' = [mem EXCEPT !["save"] = v]
      BY <1>7, ShowFacts DEF Type, MainStores, TestSave, FlipSave, StoreSave, memVars
    <3>2. QED BY <1>0, <3>1 DEF SharedTypes
  <2>3. \A s \in Sessions : phase'[s] = phase[s] /\ in'[s] = in[s]
    BY <1>7, <2>1, ShowFacts DEF SharedTypes, Type, Go, MainStores, TestSave, FlipSave, StoreSave, Step
  <2>4. QED BY <1>0, <2>2, <2>3, PairKept
<1>8. QED BY <1>1, <1>2, <1>3, <1>4, <1>5, <1>6, <1>7, StepKinds

\* While commands() is inside nobody is half way, or has died there.
LEMMA Undisturbed ==
  ASSUME SharedTypes, OneInside, PairInv, in[commands] # 0
  PROVE  /\ mem["client_address"] = mem["client_port"]
         /\ mem["server_address"] = mem["server_port"]
<1>1. \A s \in Sessions : in[s] = 0
  BY NamesAssumption DEF OneInside, Inside, Procs
<1>2. QED BY <1>1 DEF PairInv, Pair

LEMMA ShownStep ==
  ASSUME SharedTypes, OneInside, PairInv, [Next]_vars
  PROVE  Printed' /\ ShownPairs'
<1> USE NamesAssumption DEF Procs
<1>0. /\ Printed /\ ShownPairs
      /\ \A i \in 1..4 : Connection[i] \in Fields /\ Connection[i] # "save"
      /\ Connection[1] = "client_address" /\ Connection[2] = "client_port"
      /\ Connection[3] = "server_address" /\ Connection[4] = "server_port"
  BY DEF PairInv, Connection, Fields
<1>1. CASE UNCHANGED <<phase, in, sem, memVars>>
  BY <1>0, <1>1 DEF Printed, ShownPairs, memVars
<1>2. ASSUME NEW s \in Sessions, Moves(s) PROVE Printed' /\ ShownPairs'
  <2>1. phase'[commands] = phase[commands] /\ in' = in /\ mem' = mem /\ shown' = shown
    BY <1>2 DEF SharedTypes, Moves, memVars
  <2>2. QED BY <1>0, <2>1 DEF Printed, ShownPairs
<1>3. ASSUME NEW s \in Sessions, StoreField(s) PROVE Printed' /\ ShownPairs'
  <2>1. in[commands] = 0 /\ in'[commands] = in[commands]
    BY <1>3, StoreFacts DEF SharedTypes, OneInside, Inside
  <2>2. phase' = phase /\ shown' = shown
    BY <1>3, StoreFacts
  <2>3. QED BY <1>0, <2>1, <2>2 DEF Printed, ShownPairs
<1>4. ASSUME NEW s \in Sessions, ReadSave(s) PROVE Printed' /\ ShownPairs'
  <2>1. /\ phase' = phase /\ in'[commands] = in[commands] /\ mem' = mem
        /\ shown' = shown
    BY <1>4 DEF SharedTypes, ReadSave, Step
  <2>2. QED BY <1>0, <2>1 DEF Printed, ShownPairs
<1>5. ASSUME NEW k \in {"SAVE", "SHOW"}, Type(k) PROVE Printed' /\ ShownPairs'
  <2>1. in'[commands] = 0 /\ shown' = shown /\ phase[commands] = "prompt"
    BY <1>5 DEF SharedTypes, Type, memVars, Outside
  <2>2. QED BY <1>0, <2>1 DEF Printed, ShownPairs
<1>6. ASSUME NEW p \in Procs, SemWait(p) PROVE Printed' /\ ShownPairs'
  <2>1. /\ phase' = phase /\ mem' = mem /\ shown' = shown
        /\ in'[commands] = in[commands] \/ in'[commands] = 1
    BY <1>6 DEF SharedTypes, SemWait, Step, memVars
  <2>2. QED BY <1>0, <2>1 DEF Printed, ShownPairs
<1>7. ASSUME NEW p \in Procs, SemPost(p) PROVE Printed' /\ ShownPairs'
  <2>1. mem' = mem /\ shown' = shown
    BY <1>7, PostFacts
  <2>2. CASE p = commands
    <3>1. phase'[commands] = "prompt"
      BY <1>7, <2>2, PostFacts DEF SharedTypes
    <3>2. ASSUME phase[commands] = "SHOW" PROVE ShownPairs'
      <4>1. in[commands] = 6
        BY <1>7, <2>2, <3>2, PostFacts
      <4>2. \A i \in 1..4 : shown[Connection[i]] = mem[Connection[i]]
        BY <1>0, <3>2, <4>1 DEF Printed
      <4>3. /\ mem["client_address"] = mem["client_port"]
            /\ mem["server_address"] = mem["server_port"]
        BY <4>1, Undisturbed
      <4>4. QED BY <1>0, <2>1, <4>2, <4>3 DEF ShownPairs
    <3>3. ASSUME phase[commands] # "SHOW" PROVE ShownPairs'
      BY <1>0, <2>1, <3>3 DEF ShownPairs
    <3>4. QED BY <3>1, <3>2, <3>3 DEF Printed
  <2>3. CASE p # commands
    <3>1. phase'[commands] = phase[commands] /\ in'[commands] = in[commands]
      BY <1>7, <2>3, PostFacts DEF SharedTypes
    <3>2. QED BY <1>0, <2>1, <3>1 DEF Printed, ShownPairs
  <2>4. QED BY <2>2, <2>3
<1>8. CASE MainStores
  <2>1. /\ phase' = phase /\ in' = in /\ shown' = shown
        /\ \A f \in Fields : f # "save" => mem'[f] = mem[f]
    BY <1>8 DEF SharedTypes, MainStores
  <2>2. QED BY <1>0, <2>1 DEF Printed, ShownPairs
<1>9. CASE TestSave \/ FlipSave
  <2>1. phase[commands] = "SAVE" /\ phase' = phase /\ shown' = shown
    BY <1>9 DEF TestSave, FlipSave, StoreSave
  <2>2. QED BY <1>0, <2>1 DEF Printed, ShownPairs
<1>10. CASE ShowField
  <2>1. /\ in[commands] \in 1..5 /\ in'[commands] = in[commands] + 1
        /\ phase' = phase /\ phase[commands] = "SHOW" /\ mem' = mem
    BY <1>10, ShowFacts DEF SharedTypes
  <2>2. PICK f \in Fields :
          /\ shown' = [shown EXCEPT ![f] = mem[f]]
          /\ \A i \in 1..4 : in[commands] = i => f = Connection[i]
    BY <1>10, ShowFacts
  <2>3. ASSUME NEW i \in 1..4, in'[commands] > i
        PROVE  shown'[Connection[i]] = mem'[Connection[i]]
    <3>1. CASE in[commands] = i
      BY <1>0, <2>1, <2>2, <3>1 DEF SharedTypes
    <3>2. CASE in[commands] # i
      <4>1. in[commands] > i
        BY <2>1, <2>3, <3>2
      <4>2. shown[Connection[i]] = mem[Connection[i]]
        BY <1>0, <2>1, <4>1 DEF Printed
      <4>3. QED BY <1>0, <2>1, <2>2, <4>2 DEF SharedTypes
    <3>3. QED BY <3>1, <3>2
  <2>4. QED BY <2>1, <2>3 DEF Printed, ShownPairs
<1>11. QED BY <1>1, <1>2, <1>3, <1>4, <1>5, <1>6, <1>7, <1>8, <1>9, <1>10, StepKinds

-----------------------------------------------------------------------------
LEMMA InitIInv == Init => IInv
<1> SUFFICES ASSUME Init PROVE IInv
  OBVIOUS
<1> USE NamesAssumption DEF Procs, Init
<1>1. SharedTypes
  BY DEF SharedTypes, Phases, Outside, Fields
<1>2. OneInside
  BY DEF OneInside, Inside
<1>3. SaveInv
  BY DEF SaveInv, EverySaveCounts
<1>4. PairInv
  BY DEF PairInv, Pair, Printed, ShownPairs, Fields
<1>5. QED BY <1>1, <1>2, <1>3, <1>4 DEF IInv

LEMMA NextIInv == IInv /\ [Next]_vars => IInv'
<1> SUFFICES ASSUME IInv, [Next]_vars PROVE IInv'
  OBVIOUS
<1> USE DEF IInv
<1>1. SharedTypes' /\ OneInside' /\ SaveInv'
  BY TypesStep, InsideStep, SaveStep
<1>2. /\ Pair("client", "client_address", "client_port")'
      /\ Pair("server", "server_address", "server_port")'
  BY PairStep DEF PairInv
<1>3. Printed' /\ ShownPairs'
  BY ShownStep
<1>4. QED BY <1>1, <1>2, <1>3 DEF PairInv

LEMMA Invariance == Spec => []IInv
BY InitIInv, NextIInv, PTL DEF Spec

\* At most one process is in a critical section of the proxy, also when
\* processes are killed in theirs (sem_wait and sem_post in proxy.c).
THEOREM OneProcessInside == Spec => []OneInside
<1>1. IInv => OneInside
  BY DEF IInv
<1>2. QED BY <1>1, Invariance, PTL

\* However SAVE, SHOW and the sessions interleave, save is what the number of
\* SAVE commands makes it, unless one came before main()'s store.
THEOREM EverySaveCountsAlways == Spec => []EverySaveCounts
<1>1. IInv => EverySaveCounts
  BY DEF IInv, SaveInv
<1>2. QED BY <1>1, Invariance, PTL

\* A finished SHOW never has the address of one session and the port of another.
THEOREM ShowPrintsPairs == Spec => []ShownPairs
<1>1. IInv => ShownPairs
  BY DEF IInv, PairInv
<1>2. QED BY <1>1, Invariance, PTL

-----------------------------------------------------------------------------
(* Sniffed/temp.                                                           *)

\* How far a session is with the file it relays.
Progress(s) ==
  /\ left[s] <= length[s]
  /\ phase[s] \in {"block", "fwrite"} => left[s] > 0
  /\ phase[s] \in {"protocol", "open", "fopen"} => left[s] = length[s]
  /\ phase[s] \in {"protocol", "open", "fopen", "block", "fwrite", "close"} => downloads[s] > 0
  /\ ptr[s] = "open" => phase[s] \in {"block", "fwrite", "close"}

FileTypes ==
  /\ downloads \in [Sessions -> 0..MaxDownloads]
  /\ length \in [Sessions -> 0..MaxBlocks] /\ left \in [Sessions -> 0..MaxBlocks]
  /\ ptr \in [Sessions -> {"wild", "open"}]
  /\ pending \in [Sessions -> Seq(Blocks)] /\ offset \in [Sessions -> Nat]
  /\ temp \in Seq(Blocks)
  /\ owner \in Sessions \cup {none} /\ pure \in BOOLEAN /\ overlap \in BOOLEAN
  /\ \A s \in Sessions : Progress(s)

\* The first n blocks of download d of session s.
Start(s, d, n) == [i \in 1..n |-> <<s, d, i>>]

\* While the last to open the file has had it alone and stored every block: what
\* is in the file and what stdio still holds are together what has been relayed.
WholeInv ==
  pure =>
    /\ owner \in Sessions
    /\ \A s \in Sessions : ptr[s] = "open" => s = owner
    /\ \/ ptr[owner] = "wild" /\ phase[owner] \in {"ask", "end"} /\ temp = FileOf(owner)
       \/ /\ ptr[owner] = "open" /\ offset[owner] = Len(temp)
          /\ phase[owner] = "close" => left[owner] = 0
          /\ temp \o pending[owner] = Start(owner, downloads[owner], length[owner] - left[owner])

\* Blocks of download d of session s, in order, the last of them at most n.
Some(q, s, d, n) ==
  /\ \A i \in 1..Len(q) : q[i][1] = s /\ q[i][2] = d /\ q[i][3] \in 1..n
  /\ \A i, j \in 1..Len(q) : i < j => q[i][3] < q[j][3]

\* Blocks of one download, in order.
Unmixed(q) ==
  \A i, j \in 1..Len(q) :
    /\ q[i][1] \in Sessions /\ q[i][3] \in Nat
    /\ q[i][1] = q[j][1] /\ q[i][2] = q[j][2]
    /\ i < j => q[i][3] < q[j][3]

\* While downloads do not overlap: only one session has the file open, and the
\* file continues with what stdio holds for it.
MixInv ==
  ~overlap =>
    /\ \A s, t \in Sessions : ptr[s] = "open" /\ ptr[t] = "open" => s = t
    /\ Unmixed(temp)
    /\ \A s \in Sessions : ptr[s] = "open" =>
         /\ offset[s] = Len(temp)
         /\ Some(temp \o pending[s], s, downloads[s], length[s] - left[s])

FileInv == FileTypes /\ WholeInv /\ MixInv

-----------------------------------------------------------------------------
\* Writing at the end is appending.
LEMMA WriteAtFacts ==
  ASSUME NEW file \in Seq(Blocks), NEW data \in Seq(Blocks), NEW at \in Nat
  PROVE  /\ WriteAt(file, at, data) \in Seq(Blocks)
         /\ at = Len(file) => WriteAt(file, at, data) = file \o data
<1> DEFINE n == Length(Len(file), at + Len(data))
           w == WriteAt(file, at, data)
<1>1. /\ Len(file) \in Nat /\ Len(data) \in Nat /\ n \in Nat
      /\ n >= Len(file) /\ n >= at + Len(data)
      /\ n = Len(file) \/ n = at + Len(data)
  BY DEF Length
<1>2. w = [i \in 1..n |-> IF i \in at + 1 .. at + Len(data) THEN data[i - at]
                          ELSE IF i <= Len(file) THEN file[i] ELSE Hole]
  BY DEF WriteAt
<1> HIDE DEF n, w
<1>3. ASSUME NEW i \in 1..n
      PROVE  (IF i \in at + 1 .. at + Len(data) THEN data[i - at]
              ELSE IF i <= Len(file) THEN file[i] ELSE Hole) \in Blocks
  <2>1. i \in at + 1 .. at + Len(data) => i - at \in 1..Len(data)
    BY <1>1
  <2>2. i <= Len(file) => i \in 1..Len(file)
    BY <1>1
  <2>3. Hole \in Blocks
    BY DEF Blocks
  <2>4. \A k \in 1..Len(data) : data[k] \in Blocks
    OBVIOUS
  <2>5. \A k \in 1..Len(file) : file[k] \in Blocks
    OBVIOUS
  <2>6. QED BY <2>1, <2>2, <2>3, <2>4, <2>5
<1>4. w \in [1..n -> Blocks]
  BY <1>2, <1>3
<1>5. w \in Seq(Blocks) /\ Len(w) = n
  BY <1>1, <1>4
<1>6. ASSUME at = Len(file) PROVE w = file \o data
  <2>1. n = Len(file) + Len(data)
    BY <1>1, <1>6 DEF n, Length
  <2>2. /\ file \o data \in Seq(Blocks) /\ Len(file \o data) = Len(file) + Len(data)
        /\ \A i \in 1..Len(file) + Len(data) :
             (file \o data)[i] = IF i <= Len(file) THEN file[i] ELSE data[i - Len(file)]
    BY ConcatProperties
  <2>3. ASSUME NEW i \in 1..Len(w) PROVE w[i] = (file \o data)[i]
    <3>1. i \in 1..n /\ i \in 1..Len(file) + Len(data)
      BY <1>5, <2>1
    <3>2. i \in at + 1 .. at + Len(data) <=> ~(i <= Len(file))
      BY <1>1, <1>6, <3>1
    <3>3. w[i] = IF ~(i <= Len(file)) THEN data[i - Len(file)] ELSE file[i]
      BY <1>2, <1>6, <3>1, <3>2
    <3>4. QED BY <2>2, <3>1, <3>3
  <2>4. QED BY <1>5, <2>1, <2>2, <2>3, SeqEqual
<1>7. QED BY <1>5, <1>6 DEF w

\* One more block.
LEMMA StartGrows ==
  ASSUME NEW s \in Sessions, NEW d \in 1..MaxDownloads, NEW n \in Nat, n + 1 <= MaxBlocks
  PROVE  /\ Start(s, d, n) \in Seq(Blocks) /\ <<s, d, n + 1>> \in Blocks
         /\ Start(s, d, n + 1) = Append(Start(s, d, n), <<s, d, n + 1>>)
<1> DEFINE a == Start(s, d, n)
           b == Start(s, d, n + 1)
           x == <<s, d, n + 1>>
<1>1. MaxBlocks \in Nat /\ MaxDownloads \in Nat
  BY BoundsAssumption
<1>2. \A i \in 1..n + 1 : <<s, d, i>> \in Blocks
  BY <1>1 DEF Blocks
<1>3. a \in [1..n -> Blocks] /\ b \in [1..n + 1 -> Blocks]
  BY <1>2 DEF Start
<1>4. /\ \A i \in 1..n : a[i] = <<s, d, i>>
      /\ \A i \in 1..n + 1 : b[i] = <<s, d, i>>
  BY DEF Start
<1>5. x \in Blocks /\ n + 1 \in 1..n + 1 /\ b[n + 1] = x
  BY <1>2, <1>4
<1> HIDE DEF a, b, x
<1>6. a \in Seq(Blocks) /\ Len(a) = n /\ b \in Seq(Blocks) /\ Len(b) = n + 1
  BY <1>3
<1>7. /\ Append(a, x) \in Seq(Blocks) /\ Len(Append(a, x)) = n + 1
      /\ \A i \in 1..n : Append(a, x)[i] = a[i]
      /\ Append(a, x)[n + 1] = x
  BY <1>5, <1>6, AppendProperties
<1>8. ASSUME NEW i \in 1..n + 1 PROVE b[i] = Append(a, x)[i]
  <2>1. CASE i = n + 1
    BY <1>5, <1>7, <2>1
  <2>2. CASE i # n + 1
    <3>1. i \in 1..n
      BY <2>2
    <3>2. QED BY <1>4, <1>7, <3>1
  <2>3. QED BY <2>1, <2>2
<1>9. b = Append(a, x)
  BY <1>6, <1>7, <1>8, SeqEqual
<1>10. QED BY <1>5, <1>6, <1>9 DEF a, b, x

\* A block behind those before it.
LEMMA SomeGrows ==
  ASSUME NEW q \in Seq(Blocks), NEW s, NEW d, NEW n \in Nat, NEW k \in Nat, k = n + 1,
         Some(q, s, d, n), <<s, d, k>> \in Blocks
  PROVE  Some(Append(q, <<s, d, k>>), s, d, k)
<1> DEFINE x == <<s, d, k>>
           r == Append(q, x)
<1>1. x[1] = s /\ x[2] = d /\ x[3] = k
  OBVIOUS
<1>2. x \in Blocks
  OBVIOUS
<1> HIDE DEF x
<1>3. /\ Len(q) \in Nat /\ Len(r) = Len(q) + 1
      /\ \A i \in 1..Len(q) : r[i] = q[i]
      /\ r[Len(q) + 1] = x
  BY <1>2, AppendProperties
<1> HIDE DEF r
<1>4. \A i \in 1..Len(r) : i \in 1..Len(q) \/ i = Len(q) + 1
  BY <1>3
<1>5. \A i \in 1..Len(q) : q[i][1] = s /\ q[i][2] = d /\ q[i][3] \in 1..n
  BY DEF Some
<1>6. \A i \in 1..Len(r) : r[i][1] = s /\ r[i][2] = d /\ r[i][3] \in 1..k
  BY <1>1, <1>3, <1>4, <1>5
<1>7. ASSUME NEW i \in 1..Len(r), NEW j \in 1..Len(r), i < j PROVE r[i][3] < r[j][3]
  <2>1. i \in 1..Len(q)
    BY <1>3, <1>7
  <2>2. CASE j \in 1..Len(q)
    BY <1>3, <1>7, <2>1, <2>2 DEF Some
  <2>3. CASE j = Len(q) + 1
    <3>1. r[i][3] \in 1..n /\ r[j][3] = k
      BY <1>1, <1>3, <1>5, <2>1, <2>3
    <3>2. QED BY <3>1
  <2>4. QED BY <1>4, <2>2, <2>3
<1>8. Some(r, s, d, k)
  BY <1>6, <1>7 DEF Some
<1>9. QED BY <1>8 DEF r, x

\* What is in front of it stays in order, and a bound may grow.
LEMMA SomeFront ==
  ASSUME NEW q \in Seq(Blocks), NEW r \in Seq(Blocks), NEW s \in Sessions, NEW d, NEW n \in Nat,
         NEW m \in Nat, n <= m, Some(q \o r, s, d, n)
  PROVE  Unmixed(q) /\ Some(q \o r, s, d, m)
<1>1. /\ Len(q) \in Nat /\ Len(r) \in Nat /\ Len(q \o r) = Len(q) + Len(r)
      /\ \A i \in 1..Len(q) + Len(r) : (q \o r)[i] = IF i <= Len(q) THEN q[i] ELSE r[i - Len(q)]
  BY ConcatProperties
<1>2. \A i \in 1..Len(q) : i \in 1..Len(q \o r) /\ (q \o r)[i] = q[i]
  BY <1>1
<1>3. /\ \A i \in 1..Len(q) : q[i][1] = s /\ q[i][2] = d /\ q[i][3] \in 1..n
      /\ \A i, j \in 1..Len(q) : i < j => q[i][3] < q[j][3]
  BY <1>2 DEF Some
<1>4. Unmixed(q)
  BY <1>3 DEF Unmixed
<1>5. \A i \in 1..n : i \in 1..m
  OBVIOUS
<1>6. QED BY <1>4, <1>5 DEF Some

-----------------------------------------------------------------------------
\* Sessions go on without touching a file.
Onward ==
  \A s \in Sessions :
    \/ phase'[s] = phase[s]
    \/ <<phase[s], phase'[s]>> \in
         {<<"off", "client">>, <<"client", "server">>, <<"server", "ask">>, <<"ask", "end">>,
          <<"protocol", "open">>, <<"open", "fopen">>, <<"block", "fwrite">>}

LEMMA FileStepKinds ==
  ASSUME SharedTypes, [Next]_vars
  PROVE  \/ UNCHANGED fileVars /\ Onward
         \/ \E s \in Sessions :
              Download(s) \/ GiveUp(s) \/ Kill(s) \/ Fopen(s) \/ Fwrite(s) \/ Fclose(s)
<1> USE NamesAssumption DEF Procs
<1>1. ASSUME NEW s \in Sessions, Accept(s) PROVE UNCHANGED fileVars /\ Onward
  BY <1>1 DEF SharedTypes, Accept, Go, Onward
<1>2. ASSUME NEW s \in Sessions, Quit(s) PROVE UNCHANGED fileVars /\ Onward
  BY <1>2 DEF SharedTypes, Quit, Go, Onward
<1>3. ASSUME NEW p \in Procs, SemPost(p) PROVE UNCHANGED fileVars /\ Onward
  <2>1. UNCHANGED fileVars
    BY <1>3 DEF SemPost, Leave
  <2>2. phase' = [phase EXCEPT ![p] = After(phase[p])] /\ Section(phase[p]) # << >>
    BY <1>3 DEF SemPost, Leave, Go
  <2>3. phase[p] \in Phases \ (Outside \cup {"dead"})
    BY <2>2, SectionFacts DEF SharedTypes
  <2>4. ASSUME p \in Sessions
        PROVE  <<phase[p], After(phase[p])>> \in
                 {<<"client", "server">>, <<"server", "ask">>,
                  <<"protocol", "open">>, <<"open", "fopen">>, <<"block", "fwrite">>}
    <3>1. phase[p] \in {"client", "server", "protocol", "open", "block"}
      BY <2>3, <2>4 DEF SharedTypes, Phases
    <3>2. QED BY <3>1 DEF After
  <2>5. QED BY <2>1, <2>2, <2>4 DEF Onward, SharedTypes
<1>4. ASSUME NEW k \in {"SAVE", "SHOW"}, Type(k) PROVE UNCHANGED fileVars /\ Onward
  BY <1>4 DEF SharedTypes, Type, Go, Onward
<1>5. ASSUME NEW p \in Procs, SemWait(p) PROVE UNCHANGED fileVars /\ Onward
  BY <1>5 DEF SemWait, Onward
<1>6. ASSUME NEW s \in Sessions, StoreField(s) \/ ReadSave(s) PROVE UNCHANGED fileVars /\ Onward
  BY <1>6 DEF StoreField, ReadSave, Onward
<1>7. CASE MainStores \/ TestSave \/ FlipSave \/ ShowField
  BY <1>7 DEF MainStores, TestSave, FlipSave, StoreSave, ShowField, Onward
<1>8. CASE UNCHANGED vars
  BY <1>8 DEF vars, Onward
<1>9. CASE CommandsStep
  BY <1>3, <1>5, <1>7, <1>9 DEF CommandsStep
<1>10. CASE Input
  BY <1>1, <1>2, <1>4, <1>10 DEF Input
<1>11. CASE \E s \in Sessions : SessionStep(s)
  BY <1>3, <1>5, <1>6, <1>11 DEF SessionStep
<1>12. QED BY <1>7, <1>8, <1>9, <1>10, <1>11 DEF Next

\* What the file operations do.
LEMMA FopenDoes ==
  ASSUME SharedTypes, FileTypes, NEW s \in Sessions, Fopen(s)
  PROVE  /\ phase[s] = "fopen" /\ phase' = [phase EXCEPT ![s] = Loop(s, left[s])]
         /\ UNCHANGED <<downloads, length, left>>
         /\ \/ UNCHANGED <<ptr, pending, offset, temp, owner, pure, overlap>>
            \/ /\ ptr' = [ptr EXCEPT ![s] = "open"] /\ pending' = [pending EXCEPT ![s] = << >>]
               /\ offset' = [offset EXCEPT ![s] = 0] /\ temp' = << >> /\ owner' = s
               /\ pure' \in BOOLEAN /\ overlap' \in BOOLEAN
               /\ pure' => Open = {}
               /\ ~overlap' => ~overlap /\ Open = {}
BY DEF Fopen, OpenTemp, Go, FileTypes

LEMMA FwriteDoes ==
  ASSUME SharedTypes, FileTypes, NEW s \in Sessions, Fwrite(s)
  PROVE  /\ phase[s] = "fwrite" /\ left' = [left EXCEPT ![s] = left[s] - 1]
         /\ UNCHANGED <<downloads, length, ptr, owner, overlap>>
         /\ \E to \in {Loop(s, left[s] - 1), "dead"} :
              /\ phase' = [phase EXCEPT ![s] = to]
              /\ ptr[s] = "open" => to = Loop(s, left[s] - 1)
         /\ \/ /\ ptr[s] = "open" /\ pure' = pure
               /\ \/ /\ UNCHANGED <<temp, offset>>
                     /\ pending' = [pending EXCEPT ![s] = Append(pending[s], NextBlock(s))]
                  \/ /\ temp' = WriteAt(temp, offset[s], Append(pending[s], NextBlock(s)))
                     /\ pending' = [pending EXCEPT ![s] = << >>]
                     /\ offset' = [offset EXCEPT ![s] = offset[s] + Len(Append(pending[s], NextBlock(s)))]
            \/ /\ UNCHANGED <<temp, pending, offset>> /\ pure' \in BOOLEAN
               /\ pure' => pure /\ (owner # s \/ ptr[s] = "wild")
<1>1. /\ phase[s] = "fwrite" /\ left' = [left EXCEPT ![s] = left[s] - 1]
      /\ UNCHANGED <<downloads, length, ptr, owner, overlap>>
  BY DEF Fwrite
<1> DEFINE data == Append(pending[s], NextBlock(s))
           full == Len(data) >= STDIO
<1>2. CASE /\ local[s] = 1 /\ ptr[s] = "open"
           /\ temp' = IF full THEN Flushed(s, data) ELSE temp
           /\ pending' = [pending EXCEPT ![s] = IF full THEN << >> ELSE data]
           /\ offset' = [offset EXCEPT ![s] = IF full THEN @ + Len(data) ELSE @]
           /\ UNCHANGED pure
           /\ Go(s, Loop(s, left[s] - 1))
  <2>1. phase' = [phase EXCEPT ![s] = Loop(s, left[s] - 1)]
    BY <1>2 DEF Go
  <2>2. CASE full
    <3>1. data # << >>
      <4>1. pending[s] \in Seq(Blocks)
        BY DEF FileTypes
      <4>2. QED BY <4>1
    <3>2. temp' = WriteAt(temp, offset[s], data)
      BY <1>2, <2>2, <3>1 DEF Flushed
    <3>3. pending' = [pending EXCEPT ![s] = << >>] /\ offset' = [offset EXCEPT ![s] = offset[s] + Len(data)]
      BY <1>2, <2>2
    <3>4. QED BY <1>1, <1>2, <2>1, <3>2, <3>3
  <2>3. CASE ~full
    <3>1. /\ temp' = temp /\ pending' = [pending EXCEPT ![s] = data]
          /\ offset' = [offset EXCEPT ![s] = offset[s]]
      BY <1>2, <2>3
    <3>2. offset' = offset
      BY <3>1 DEF FileTypes
    <3>3. QED BY <1>1, <1>2, <2>1, <3>1, <3>2
  <2>4. QED BY <2>2, <2>3
<1>3. CASE /\ local[s] = 0
           /\ pure' = (pure /\ owner # s)
           /\ UNCHANGED <<temp, pending, offset>>
           /\ Go(s, Loop(s, left[s] - 1))
  <2>1. phase' = [phase EXCEPT ![s] = Loop(s, left[s] - 1)]
    BY <1>3 DEF Go
  <2>2. pure' \in BOOLEAN /\ (pure' => pure /\ owner # s)
    BY <1>3 DEF FileTypes
  <2>3. QED BY <1>1, <1>3, <2>1, <2>2
<1>4. CASE /\ local[s] = 1 /\ ptr[s] = "wild"
           /\ UNCHANGED <<temp, pending, offset, pure>>
           /\ \E to \in {Loop(s, left[s] - 1), "dead"} : Go(s, to)
  <2>1. pure' \in BOOLEAN /\ (pure' => pure)
    BY <1>4 DEF FileTypes
  <2>2. QED BY <1>1, <1>4, <2>1 DEF Go
<1>5. QED BY <1>2, <1>3, <1>4 DEF Fwrite

LEMMA FcloseDoes ==
  ASSUME SharedTypes, FileTypes, NEW s \in Sessions, Fclose(s)
  PROVE  /\ phase[s] = "close"
         /\ UNCHANGED <<downloads, length, left, owner, pure, overlap>>
         /\ ptr' = [ptr EXCEPT ![s] = "wild"] /\ pending' = [pending EXCEPT ![s] = << >>]
         /\ offset' = [offset EXCEPT ![s] = 0]
         /\ \/ /\ ptr[s] = "open" /\ phase' = [phase EXCEPT ![s] = "ask"]
               /\ temp' = IF pending[s] = << >> THEN temp ELSE WriteAt(temp, offset[s], pending[s])
            \/ /\ ptr[s] = "wild" /\ temp' = temp
               /\ \E to \in {"ask", "dead"} : phase' = [phase EXCEPT ![s] = to]
<1>1. ptr[s] \in {"wild", "open"}
  BY DEF FileTypes
<1>2. QED BY <1>1 DEF Fclose, CloseTemp, Go, Flushed

\* The next block is one, and the one behind those relayed.
LEMMA NextBlockIs ==
  ASSUME FileTypes, NEW s \in Sessions, phase[s] = "fwrite"
  PROVE  /\ length[s] - left[s] \in Nat /\ left[s] \in Nat \ {0} /\ length[s] \in 0..MaxBlocks
         /\ length[s] - left[s] + 1 <= MaxBlocks
         /\ downloads[s] \in 1..MaxDownloads
         /\ NextBlock(s) = <<s, downloads[s], length[s] - left[s] + 1>>
         /\ NextBlock(s) \in Blocks
<1>1. /\ left[s] \in 0..MaxBlocks /\ length[s] \in 0..MaxBlocks /\ downloads[s] \in 0..MaxDownloads
      /\ left[s] <= length[s] /\ left[s] > 0 /\ downloads[s] > 0
      /\ MaxBlocks \in Nat /\ MaxDownloads \in Nat
  BY BoundsAssumption DEF FileTypes, Progress
<1>2. /\ length[s] - left[s] \in Nat /\ length[s] - left[s] + 1 <= MaxBlocks
      /\ length[s] - left[s] + 1 \in 1..length[s] /\ downloads[s] \in 1..MaxDownloads
  BY <1>1
<1>3. NextBlock(s) = <<s, downloads[s], length[s] - left[s] + 1>>
  BY <1>2 DEF NextBlock, FileOf
<1>4. NextBlock(s) \in Blocks
  BY <1>2, <1>3, StartGrows
<1>5. QED BY <1>1, <1>2, <1>3, <1>4

-----------------------------------------------------------------------------
\* A session that is left alone.
LEMMA ProgressKept ==
  ASSUME NEW s \in Sessions, Progress(s), phase'[s] = phase[s],
         left'[s] = left[s], length'[s] = length[s], downloads'[s] = downloads[s], ptr'[s] = ptr[s]
  PROVE  Progress(s)'
BY DEF Progress

LEMMA FileTypesStep ==
  ASSUME SharedTypes, FileTypes, [Next]_vars
  PROVE  FileTypes'
<1>0. /\ phase \in [Procs -> Phases] /\ Sessions \subseteq Procs
      /\ MaxBlocks \in Nat /\ MaxDownloads \in Nat
  BY BoundsAssumption DEF SharedTypes, Procs
<1>1. CASE UNCHANGED fileVars /\ Onward
  <2>1. ASSUME NEW s \in Sessions PROVE Progress(s)'
    BY <1>1, <2>1 DEF fileVars, Onward, FileTypes, Progress
  <2>2. QED BY <1>1, <2>1 DEF fileVars, FileTypes
<1>2. ASSUME NEW s \in Sessions, Download(s) PROVE FileTypes'
  <2>1. PICK n \in 0..MaxBlocks :
          length' = [length EXCEPT ![s] = n] /\ left' = [left EXCEPT ![s] = n]
    BY <1>2 DEF Download
  <2>2. /\ downloads[s] < MaxDownloads /\ downloads' = [downloads EXCEPT ![s] = downloads[s] + 1]
        /\ phase[s] = "ask" /\ phase' = [phase EXCEPT ![s] = "protocol"]
        /\ UNCHANGED <<ptr, pending, offset, temp, owner, overlap>>
    BY <1>2 DEF Download, Go
  <2>3. pure' \in BOOLEAN
    BY <1>2 DEF Download
  <2>4. ASSUME NEW t \in Sessions PROVE Progress(t)'
    <3>1. CASE t # s
      BY <1>0, <2>1, <2>2, <3>1, ProgressKept DEF FileTypes
    <3>2. CASE t = s
      <4>1. downloads[s] \in Nat /\ Progress(s)
        BY <1>0 DEF FileTypes
      <4>2. ptr[s] # "open"
        BY <2>2, <4>1 DEF Progress
      <4>3. left'[t] = n /\ length'[t] = n /\ downloads'[t] = downloads[s] + 1
        BY <2>1, <2>2, <3>2 DEF FileTypes
      <4>4. phase'[t] = "protocol" /\ ptr'[t] # "open"
        BY <1>0, <2>2, <3>2, <4>2
      <4>5. n <= n /\ downloads[s] + 1 > 0
        BY <4>1
      <4>6. QED BY <4>3, <4>4, <4>5 DEF Progress
    <3>3. QED BY <3>1, <3>2
  <2>5. downloads' \in [Sessions -> 0..MaxDownloads]
    BY <1>0, <2>2 DEF FileTypes
  <2>6. QED BY <2>1, <2>2, <2>3, <2>4, <2>5 DEF FileTypes
<1>3. ASSUME NEW s \in Sessions, GiveUp(s) PROVE FileTypes'
  <2>1. /\ phase[s] = "block" /\ phase' = [phase EXCEPT ![s] = "close"]
        /\ UNCHANGED <<downloads, length, left, ptr, pending, offset, temp, owner, overlap>>
    BY <1>3 DEF GiveUp, Go
  <2>2. pure' \in BOOLEAN
    BY <1>3 DEF GiveUp
  <2>3. ASSUME NEW t \in Sessions PROVE Progress(t)'
    BY <1>0, <2>1 DEF FileTypes, Progress
  <2>4. QED BY <2>1, <2>2, <2>3 DEF FileTypes
<1>4. ASSUME NEW s \in Sessions, Kill(s) PROVE FileTypes'
  <2>1. /\ phase' = [phase EXCEPT ![s] = "dead"]
        /\ ptr' = [ptr EXCEPT ![s] = "wild"] /\ pending' = [pending EXCEPT ![s] = << >>]
        /\ UNCHANGED <<downloads, length, left, offset, temp, owner, overlap>>
    BY <1>4 DEF Kill, Go
  <2>2. pure' \in BOOLEAN
    BY <1>4 DEF Kill
  <2>3. ASSUME NEW t \in Sessions PROVE Progress(t)'
    BY <1>0, <2>1 DEF FileTypes, Progress
  <2>4. << >> \in Seq(Blocks)
    OBVIOUS
  <2>5. QED BY <2>1, <2>2, <2>3, <2>4 DEF FileTypes
<1>5. ASSUME NEW s \in Sessions, Fopen(s) PROVE FileTypes'
  <2>1. /\ phase[s] = "fopen" /\ phase' = [phase EXCEPT ![s] = Loop(s, left[s])]
        /\ UNCHANGED <<downloads, length, left>>
        /\ \/ UNCHANGED <<ptr, pending, offset, temp, owner, pure, overlap>>
           \/ /\ ptr' = [ptr EXCEPT ![s] = "open"] /\ pending' = [pending EXCEPT ![s] = << >>]
              /\ offset' = [offset EXCEPT ![s] = 0] /\ temp' = << >> /\ owner' = s
              /\ pure' \in BOOLEAN /\ overlap' \in BOOLEAN
    BY <1>5, FopenDoes
  <2>2. ASSUME NEW t \in Sessions PROVE Progress(t)'
    <3>1. left[s] \in Nat /\ left[s] <= length[s] /\ downloads[s] > 0
      BY <2>1 DEF FileTypes, Progress
    <3>2. CASE t = s
      BY <1>0, <2>1, <3>1, <3>2 DEF Progress, Loop
    <3>3. CASE t # s
      <4>1. ptr'[t] = ptr[t] /\ phase'[t] = phase[t]
        BY <1>0, <2>1, <3>3 DEF FileTypes
      <4>2. QED BY <2>1, <4>1, ProgressKept DEF FileTypes
    <3>4. QED BY <3>2, <3>3
  <2>3. << >> \in Seq(Blocks) /\ 0 \in Nat
    OBVIOUS
  <2>4. CASE UNCHANGED <<ptr, pending, offset, temp, owner, pure, overlap>>
    BY <2>1, <2>2, <2>4 DEF FileTypes
  <2>5. CASE /\ ptr' = [ptr EXCEPT ![s] = "open"] /\ pending' = [pending EXCEPT ![s] = << >>]
             /\ offset' = [offset EXCEPT ![s] = 0] /\ temp' = << >> /\ owner' = s
             /\ pure' \in BOOLEAN /\ overlap' \in BOOLEAN
    <3>1. ptr' \in [Sessions -> {"wild", "open"}] /\ offset' \in [Sessions -> Nat]
      BY <2>3, <2>5 DEF FileTypes
    <3>2. pending' \in [Sessions -> Seq(Blocks)]
      BY <2>3, <2>5 DEF FileTypes
    <3>3. temp' \in Seq(Blocks) /\ owner' \in Sessions \cup {none}
      BY <2>3, <2>5
    <3>4. QED BY <2>1, <2>2, <2>5, <3>1, <3>2, <3>3 DEF FileTypes
  <2>6. QED BY <2>1, <2>4, <2>5
<1>6. ASSUME NEW s \in Sessions, Fwrite(s) PROVE FileTypes'
  <2>1. /\ phase[s] = "fwrite" /\ left' = [left EXCEPT ![s] = left[s] - 1]
        /\ UNCHANGED <<downloads, length, ptr, owner, overlap>>
        /\ \E to \in {Loop(s, left[s] - 1), "dead"} :
              /\ phase' = [phase EXCEPT ![s] = to]
              /\ ptr[s] = "open" => to = Loop(s, left[s] - 1)
        /\ left[s] \in Nat \ {0} /\ left[s] <= length[s] /\ downloads[s] > 0
    BY <1>6, FwriteDoes, NextBlockIs DEF FileTypes, Progress
  <2>2. ASSUME NEW t \in Sessions PROVE Progress(t)'
    <3>1. CASE t = s
      <4>1. left'[t] = left[s] - 1 /\ left[s] - 1 \in Nat
        BY <2>1, <3>1 DEF FileTypes
      <4>2. /\ phase'[t] \in {Loop(s, left[s] - 1), "dead"}
            /\ ptr[s] = "open" => phase'[t] = Loop(s, left[s] - 1)
        BY <1>0, <2>1, <3>1
      <4>3. length[s] \in Nat
        BY DEF FileTypes
      <4>4. QED BY <2>1, <3>1, <4>1, <4>2, <4>3 DEF Progress, Loop
    <3>2. CASE t # s
      BY <1>0, <2>1, <3>2, ProgressKept DEF FileTypes
    <3>3. QED BY <3>1, <3>2
  <2>3. left' \in [Sessions -> 0..MaxBlocks]
    BY <1>0, <2>1 DEF FileTypes
  <2>4. DEFINE data == Append(pending[s], NextBlock(s))
  <2>5. data \in Seq(Blocks) /\ Len(data) \in Nat /\ << >> \in Seq(Blocks)
    <3>1. pending[s] \in Seq(Blocks) /\ NextBlock(s) \in Blocks
      BY <2>1, NextBlockIs DEF FileTypes
    <3>2. QED BY <3>1
  <2>6. WriteAt(temp, offset[s], data) \in Seq(Blocks)
    BY <2>5, WriteAtFacts DEF FileTypes
  <2>7. /\ temp' = temp \/ temp' = WriteAt(temp, offset[s], data)
        /\ pending' = pending \/ \E q \in {data, << >>} : pending' = [pending EXCEPT ![s] = q]
        /\ offset' = offset \/ offset' = [offset EXCEPT ![s] = offset[s] + Len(data)]
        /\ pure' = pure \/ pure' \in BOOLEAN
    BY <1>6, FwriteDoes
  <2> HIDE DEF data
  <2>8. temp' \in Seq(Blocks) /\ pure' \in BOOLEAN
    BY <2>6, <2>7 DEF FileTypes
  <2>9. pending' \in [Sessions -> Seq(Blocks)]
    BY <2>5, <2>7 DEF FileTypes
  <2>10. offset' \in [Sessions -> Nat]
    <3>1. offset[s] \in Nat /\ offset \in [Sessions -> Nat]
      BY DEF FileTypes
    <3>2. offset[s] + Len(data) \in Nat
      BY <2>5, <3>1
    <3>3. QED BY <2>7, <3>1, <3>2
  <2>11. QED BY <2>1, <2>2, <2>3, <2>8, <2>9, <2>10 DEF FileTypes
<1>7. ASSUME NEW s \in Sessions, Fclose(s) PROVE FileTypes'
  <2>1. /\ phase[s] = "close" /\ phase'[s] \in {"ask", "dead"}
        /\ \A t \in Sessions : t # s => phase'[t] = phase[t]
        /\ UNCHANGED <<downloads, length, left, owner, pure, overlap>>
        /\ ptr' = [ptr EXCEPT ![s] = "wild"] /\ pending' = [pending EXCEPT ![s] = << >>]
        /\ offset' = [offset EXCEPT ![s] = 0]
        /\ temp' = temp \/ temp' = WriteAt(temp, offset[s], pending[s])
    BY <1>0, <1>7, FcloseDoes
  <2>2. ASSUME NEW t \in Sessions PROVE Progress(t)'
    <3>1. ptr \in [Sessions -> {"wild", "open"}] /\ Progress(t)
      BY DEF FileTypes
    <3>2. CASE t = s
      <4>1. ptr'[t] # "open" /\ phase'[t] \in {"ask", "dead"}
        BY <2>1, <3>1, <3>2
      <4>2. QED BY <2>1, <3>1, <4>1 DEF Progress
    <3>3. CASE t # s
      <4>1. ptr'[t] = ptr[t] /\ phase'[t] = phase[t]
        BY <2>1, <3>1, <3>3
      <4>2. QED BY <2>1, <3>1, <4>1, ProgressKept
    <3>4. QED BY <3>2, <3>3
  <2>3. temp' \in Seq(Blocks) /\ << >> \in Seq(Blocks) /\ 0 \in Nat
    <3>1. temp \in Seq(Blocks) /\ pending[s] \in Seq(Blocks) /\ offset[s] \in Nat
      BY DEF FileTypes
    <3>2. WriteAt(temp, offset[s], pending[s]) \in Seq(Blocks)
      BY <3>1, WriteAtFacts
    <3>3. temp' \in Seq(Blocks)
      BY <2>1, <3>1, <3>2
    <3>4. QED BY <3>3
  <2>4. ptr' \in [Sessions -> {"wild", "open"}] /\ offset' \in [Sessions -> Nat]
    BY <2>1, <2>3 DEF FileTypes
  <2>5. pending' \in [Sessions -> Seq(Blocks)]
    BY <2>1, <2>3 DEF FileTypes
  <2>6. QED BY <2>1, <2>2, <2>3, <2>4, <2>5 DEF FileTypes
<1>8. QED BY <1>1, <1>2, <1>3, <1>4, <1>5, <1>6, <1>7, FileStepKinds

-----------------------------------------------------------------------------
(* The file is whole.                                                      *)

\* Putting the next block into the buffer, and the buffer into the file.
LEMMA Stored ==
  ASSUME FileTypes, NEW s \in Sessions, phase[s] = "fwrite"
  PROVE  LET data == Append(pending[s], NextBlock(s))
         IN  /\ data \in Seq(Blocks) /\ temp \o pending[s] \in Seq(Blocks)
             /\ temp \o data = Append(temp \o pending[s], NextBlock(s))
             /\ WriteAt(temp, Len(temp), data) \o << >> = temp \o data
             /\ Len(WriteAt(temp, Len(temp), data)) = Len(temp) + Len(data)
<1> DEFINE data == Append(pending[s], NextBlock(s))
           q == temp \o pending[s]
           x == NextBlock(s)
<1>1. temp \in Seq(Blocks) /\ pending[s] \in Seq(Blocks) /\ x \in Blocks
  BY NextBlockIs DEF FileTypes
<1> HIDE DEF x
<1>2. data \in Seq(Blocks) /\ q \in Seq(Blocks) /\ Len(temp) \in Nat
  BY <1>1 DEF x
<1>3. temp \o Append(pending[s], x) = Append(temp \o pending[s], x)
  BY <1>1
<1>4. WriteAt(temp, Len(temp), data) = temp \o data
  BY <1>1, <1>2, WriteAtFacts
<1>5. (temp \o data) \o << >> = temp \o data /\ Len(temp \o data) = Len(temp) + Len(data)
  BY <1>1, <1>2
<1>6. QED BY <1>2, <1>3, <1>4, <1>5 DEF x

\* What a buffer given up at the end of the file leaves there.
LEMMA Emptied ==
  ASSUME FileTypes, NEW s \in Sessions, offset[s] = Len(temp),
         temp' = IF pending[s] = << >> THEN temp ELSE WriteAt(temp, offset[s], pending[s])
  PROVE  temp' = temp \o pending[s]
<1>1. temp \in Seq(Blocks) /\ pending[s] \in Seq(Blocks) /\ Len(temp) \in Nat
  BY DEF FileTypes
<1>2. WriteAt(temp, Len(temp), pending[s]) = temp \o pending[s]
  BY <1>1, WriteAtFacts
<1>3. pending[s] = << >> => temp \o pending[s] = temp
  BY <1>1
<1>4. QED BY <1>2, <1>3

\* A step that leaves the owner and the file alone.
LEMMA WholeKept ==
  ASSUME WholeInv, pure' => pure, owner' = owner, temp' = temp,
         pure' => /\ \A s \in Sessions : ptr'[s] = "open" => ptr[s] = "open"
                  /\ ptr'[owner] = ptr[owner] /\ pending'[owner] = pending[owner]
                  /\ offset'[owner] = offset[owner] /\ downloads'[owner] = downloads[owner]
                  /\ length'[owner] = length[owner] /\ left'[owner] = left[owner]
                  /\ phase[owner] \in {"ask", "end"} => phase'[owner] \in {"ask", "end"}
                  /\ phase'[owner] = "close" => phase[owner] = "close"
  PROVE  WholeInv'
<1> SUFFICES ASSUME pure'
             PROVE  /\ owner \in Sessions
                    /\ \A s \in Sessions : ptr'[s] = "open" => s = owner
                    /\ \/ /\ ptr'[owner] = "wild" /\ phase'[owner] \in {"ask", "end"}
                          /\ temp = FileOf(owner)'
                       \/ /\ ptr'[owner] = "open" /\ offset'[owner] = Len(temp)
                          /\ phase'[owner] = "close" => left'[owner] = 0
                          /\ temp \o pending'[owner]
                               = Start(owner, downloads'[owner], length'[owner] - left'[owner])
  BY DEF WholeInv
<1>1. FileOf(owner)' = FileOf(owner)
  BY DEF FileOf
<1>2. QED BY <1>1 DEF WholeInv

\* Every step of another session, or of no session's file.
LEMMA WholeStep ==
  ASSUME SharedTypes, FileTypes, WholeInv, [Next]_vars
  PROVE  WholeInv'
<1>0. /\ phase \in [Procs -> Phases] /\ Sessions \subseteq Procs
      /\ ptr \in [Sessions -> {"wild", "open"}] /\ pure \in BOOLEAN
      /\ pending \in [Sessions -> Seq(Blocks)] /\ offset \in [Sessions -> Nat]
      /\ downloads \in [Sessions -> 0..MaxDownloads]
      /\ length \in [Sessions -> 0..MaxBlocks] /\ left \in [Sessions -> 0..MaxBlocks]
      /\ \A s \in Sessions : Progress(s)
  BY DEF SharedTypes, Procs, FileTypes
<1>00. pure => owner \in Sessions
  BY DEF WholeInv
<1>1. CASE UNCHANGED fileVars /\ Onward
  <2>1. UNCHANGED <<downloads, length, left, ptr, pending, offset, temp, owner, pure>>
    BY <1>1 DEF fileVars
  <2>2. pure => /\ phase[owner] \in {"ask", "end"} => phase'[owner] \in {"ask", "end"}
                /\ phase'[owner] = "close" => phase[owner] = "close"
    BY <1>00, <1>1 DEF Onward
  <2>3. QED BY <2>1, <2>2, WholeKept
<1>2. ASSUME NEW s \in Sessions, Download(s) \/ GiveUp(s) \/ Kill(s) PROVE WholeInv'
  <2>1. /\ pure' => pure /\ owner # s
        /\ UNCHANGED <<offset, temp, owner>>
        /\ \E to : phase' = [phase EXCEPT ![s] = to]
        /\ ptr' = ptr \/ ptr' = [ptr EXCEPT ![s] = "wild"]
        /\ pending' = pending \/ pending' = [pending EXCEPT ![s] = << >>]
        /\ downloads' = downloads \/ downloads' = [downloads EXCEPT ![s] = downloads[s] + 1]
        /\ \E n : length' = length \/ length' = [length EXCEPT ![s] = n]
        /\ \E n : left' = left \/ left' = [left EXCEPT ![s] = n]
    <3>1. CASE Download(s)
      BY <3>1 DEF Download, Go
    <3>2. CASE GiveUp(s)
      BY <3>2 DEF GiveUp, Go
    <3>3. CASE Kill(s)
      BY <3>3 DEF Kill, Go
    <3>4. QED BY <1>2, <3>1, <3>2, <3>3
  <2>2. pure' => owner \in Sessions /\ owner \in Procs /\ owner # s
    BY <1>0, <1>00, <2>1
  <2>3. pure' => /\ phase'[owner] = phase[owner] /\ ptr'[owner] = ptr[owner]
                 /\ pending'[owner] = pending[owner] /\ downloads'[owner] = downloads[owner]
    BY <1>0, <2>1, <2>2
  <2>4. pure' => length'[owner] = length[owner] /\ left'[owner] = left[owner]
    BY <1>0, <2>1, <2>2
  <2>5. \A t \in Sessions : ptr'[t] = "open" => ptr[t] = "open"
    BY <1>0, <2>1
  <2>6. QED BY <2>1, <2>3, <2>4, <2>5, WholeKept
<1>3. ASSUME NEW s \in Sessions, Fopen(s) PROVE WholeInv'
  <2>1. /\ phase[s] = "fopen" /\ phase' = [phase EXCEPT ![s] = Loop(s, left[s])]
        /\ UNCHANGED <<downloads, length, left>>
    BY <1>3, FopenDoes
  <2>2. left[s] = length[s] /\ left[s] \in Nat /\ ptr[s] # "open"
    <3>1. Progress(s) /\ left[s] \in Nat
      BY <1>0
    <3>2. QED BY <2>1, <3>1 DEF Progress
  <2>3. CASE UNCHANGED <<ptr, pending, offset, temp, owner, pure, overlap>>
    <3>1. pure => owner # s
      BY <1>00, <2>1, <2>2 DEF WholeInv
    <3>2. pure => phase'[owner] = phase[owner]
      BY <1>0, <1>00, <2>1, <3>1
    <3>3. QED BY <2>1, <2>3, <3>2, WholeKept
  <2>4. CASE /\ ptr' = [ptr EXCEPT ![s] = "open"] /\ pending' = [pending EXCEPT ![s] = << >>]
             /\ offset' = [offset EXCEPT ![s] = 0] /\ temp' = << >> /\ owner' = s
             /\ pure' => Open = {}
    <3>1. pure' => \A t \in Sessions : ptr'[t] = "open" => t = s
      BY <1>0, <2>4 DEF Open
    <3>2. ptr'[s] = "open" /\ pending'[s] = << >> /\ offset'[s] = Len(temp')
      BY <1>0, <2>4
    <3>3. phase'[s] = "close" => left'[s] = 0
      BY <1>0, <2>1, <2>2 DEF Loop
    <3>4. temp' \o pending'[s] = Start(s, downloads'[s], length'[s] - left'[s])
      <4>1. temp' \o pending'[s] = << >>
        BY <2>4, <3>2
      <4>2. length'[s] - left'[s] = 0
        BY <2>1, <2>2
      <4>3. Start(s, downloads'[s], 0) = << >>
        BY DEF Start
      <4>4. QED BY <4>1, <4>2, <4>3
    <3>5. QED BY <2>4, <3>1, <3>2, <3>3, <3>4 DEF WholeInv
  <2>5. QED BY <1>3, <2>3, <2>4, FopenDoes
<1>4. ASSUME NEW s \in Sessions, Fwrite(s) PROVE WholeInv'
  <2>1. /\ phase[s] = "fwrite" /\ left' = [left EXCEPT ![s] = left[s] - 1]
        /\ UNCHANGED <<downloads, length, ptr, owner>>
        /\ \E to \in {Loop(s, left[s] - 1), "dead"} :
              /\ phase' = [phase EXCEPT ![s] = to]
              /\ ptr[s] = "open" => to = Loop(s, left[s] - 1)
    BY <1>4, FwriteDoes
  <2> DEFINE data == Append(pending[s], NextBlock(s))
  <2>2. CASE /\ ptr[s] = "open" /\ pure' = pure
             /\ \/ /\ UNCHANGED <<temp, offset>>
                   /\ pending' = [pending EXCEPT ![s] = data]
                \/ /\ temp' = WriteAt(temp, offset[s], data)
                   /\ pending' = [pending EXCEPT ![s] = << >>]
                   /\ offset' = [offset EXCEPT ![s] = offset[s] + Len(data)]
    <3> SUFFICES ASSUME pure PROVE WholeInv'
      BY <2>2 DEF WholeInv
    <3>1. /\ owner = s /\ offset[s] = Len(temp)
          /\ \A t \in Sessions : ptr[t] = "open" => t = owner
          /\ temp \o pending[s] = Start(s, downloads[s], length[s] - left[s])
      BY <2>2 DEF WholeInv
    <3> DEFINE n == length[s] - left[s]
    <3>2. /\ n \in Nat /\ left[s] \in Nat \ {0} /\ length[s] \in Nat
          /\ n + 1 <= MaxBlocks /\ downloads[s] \in 1..MaxDownloads
          /\ NextBlock(s) = <<s, downloads[s], n + 1>>
      BY <2>1, NextBlockIs
    <3>3. left'[s] = left[s] - 1 /\ length'[s] - left'[s] = n + 1
      <4>1. \A a, b \in Nat : a - (b - 1) = (a - b) + 1
        OBVIOUS
      <4>2. left'[s] = left[s] - 1
        BY <1>0, <2>1
      <4>3. QED BY <2>1, <3>2, <4>1, <4>2
    <3>4. phase'[s] = "close" => left'[s] = 0
      <4>1. phase'[s] = Loop(s, left[s] - 1)
        BY <1>0, <2>1, <2>2
      <4>2. QED BY <3>2, <3>3, <4>1 DEF Loop
    <3>5. temp \o data = Start(s, downloads[s], n + 1)
      <4>1. temp \o data = Append(temp \o pending[s], NextBlock(s))
        BY <2>1, Stored
      <4>2. Start(s, downloads[s], n + 1) = Append(Start(s, downloads[s], n), <<s, downloads[s], n + 1>>)
        BY <3>2, StartGrows
      <4>3. QED BY <3>1, <3>2, <4>1, <4>2
    <3>6. temp' \o pending'[s] = temp \o data /\ offset'[s] = Len(temp')
      <4>1. CASE UNCHANGED <<temp, offset>> /\ pending' = [pending EXCEPT ![s] = data]
        BY <1>0, <3>1, <4>1
      <4>2. CASE /\ temp' = WriteAt(temp, offset[s], data)
                 /\ pending' = [pending EXCEPT ![s] = << >>]
                 /\ offset' = [offset EXCEPT ![s] = offset[s] + Len(data)]
        <5>1. temp' = WriteAt(temp, Len(temp), data) /\ pending'[s] = << >>
              /\ offset'[s] = Len(temp) + Len(data)
          BY <1>0, <3>1, <4>2
        <5>2. QED BY <2>1, <5>1, Stored
      <4>3. QED BY <2>2, <4>1, <4>2
    <3> HIDE DEF n, data
    <3>7. QED BY <2>1, <2>2, <3>1, <3>3, <3>4, <3>5, <3>6 DEF WholeInv
  <2>3. CASE /\ UNCHANGED <<temp, pending, offset>>
             /\ pure' => pure /\ (owner # s \/ ptr[s] = "wild")
    <3>1. pure' => owner # s
      BY <1>00, <2>1, <2>3 DEF WholeInv
    <3>2. pure' => phase'[owner] = phase[owner] /\ left'[owner] = left[owner]
      BY <1>0, <1>00, <2>1, <2>3, <3>1
    <3>3. QED BY <2>1, <2>3, <3>2, WholeKept
  <2>4. QED BY <1>4, <2>2, <2>3, FwriteDoes
<1>5. ASSUME NEW s \in Sessions, Fclose(s) PROVE WholeInv'
  <2>1. /\ phase[s] = "close"
        /\ UNCHANGED <<downloads, length, left, owner, pure>>
        /\ ptr' = [ptr EXCEPT ![s] = "wild"] /\ pending' = [pending EXCEPT ![s] = << >>]
        /\ offset' = [offset EXCEPT ![s] = 0]
        /\ \E to : phase' = [phase EXCEPT ![s] = to]
    BY <1>5, FcloseDoes
  <2>2. CASE /\ ptr[s] = "open" /\ phase' = [phase EXCEPT ![s] = "ask"]
             /\ temp' = IF pending[s] = << >> THEN temp ELSE WriteAt(temp, offset[s], pending[s])
    <3> SUFFICES ASSUME pure PROVE WholeInv'
      BY <2>1 DEF WholeInv
    <3>1. /\ owner = s /\ offset[s] = Len(temp) /\ left[s] = 0
          /\ \A t \in Sessions : ptr[t] = "open" => t = owner
          /\ temp \o pending[s] = Start(s, downloads[s], length[s] - left[s])
      BY <2>1, <2>2 DEF WholeInv
    <3>2. temp' = temp \o pending[s]
      BY <2>2, <3>1, Emptied
    <3>3. length[s] - left[s] = length[s]
      BY <1>0, <3>1
    <3>4. temp' = FileOf(s)'
      BY <2>1, <3>1, <3>2, <3>3 DEF FileOf, Start
    <3>5. ptr'[s] = "wild" /\ phase'[s] = "ask" /\ owner' = s
      BY <1>0, <2>1, <2>2, <3>1
    <3>6. \A t \in Sessions : ptr'[t] = "open" => t = owner
      BY <1>0, <2>1, <3>1
    <3>7. QED BY <2>1, <3>1, <3>4, <3>5, <3>6 DEF WholeInv
  <2>3. CASE ptr[s] = "wild" /\ temp' = temp
    <3>1. pure => owner # s
      BY <2>1, <2>3 DEF WholeInv
    <3>2. pure => /\ phase'[owner] = phase[owner] /\ ptr'[owner] = ptr[owner]
                  /\ pending'[owner] = pending[owner] /\ offset'[owner] = offset[owner]
      BY <1>0, <1>00, <2>1, <3>1
    <3>3. \A t \in Sessions : ptr'[t] = "open" => ptr[t] = "open"
      BY <1>0, <2>1
    <3>4. QED BY <2>1, <2>3, <3>2, <3>3, WholeKept
  <2>4. QED BY <1>5, <2>2, <2>3, FcloseDoes
<1>6. QED BY <1>1, <1>2, <1>3, <1>4, <1>5, FileStepKinds

-----------------------------------------------------------------------------
(* The file is not mixed.                                                  *)

\* A session's blocks are those of one download.
LEMMA SomeUnmixed ==
  ASSUME NEW q \in Seq(Blocks), NEW s \in Sessions, NEW d, NEW n \in Nat, Some(q, s, d, n)
  PROVE  Unmixed(q)
BY DEF Some, Unmixed

\* A step that writes nothing and opens nothing.
LEMMA MixKept ==
  ASSUME FileTypes, MixInv, temp' = temp, ~overlap' => ~overlap,
         \A s \in Sessions : ptr'[s] = "open" =>
           /\ ptr[s] = "open" /\ pending'[s] = pending[s] /\ offset'[s] = offset[s]
           /\ downloads'[s] = downloads[s] /\ length'[s] = length[s]
           /\ left'[s] \in Nat /\ left'[s] <= left[s]
  PROVE  MixInv'
<1> SUFFICES ASSUME ~overlap' PROVE MixInv'
  BY DEF MixInv
<1>1. /\ \A s, t \in Sessions : ptr[s] = "open" /\ ptr[t] = "open" => s = t
      /\ Unmixed(temp)
      /\ \A s \in Sessions : ptr[s] = "open" =>
           /\ offset[s] = Len(temp)
           /\ Some(temp \o pending[s], s, downloads[s], length[s] - left[s])
  BY DEF MixInv
<1>2. ASSUME NEW s \in Sessions, ptr'[s] = "open"
      PROVE  /\ offset'[s] = Len(temp')
             /\ Some(temp' \o pending'[s], s, downloads'[s], length'[s] - left'[s])
  <2>1. /\ ptr[s] = "open" /\ pending'[s] = pending[s] /\ offset'[s] = offset[s]
        /\ downloads'[s] = downloads[s] /\ length'[s] = length[s]
        /\ left'[s] \in Nat /\ left'[s] <= left[s]
    BY <1>2
  <2>2. /\ left[s] \in Nat /\ length[s] \in Nat /\ left[s] <= length[s]
        /\ temp \in Seq(Blocks) /\ pending[s] \in Seq(Blocks)
    BY DEF FileTypes, Progress
  <2> DEFINE n == length[s] - left[s]
             m == length[s] - left'[s]
  <2>3. n \in Nat /\ m \in Nat /\ n <= m
    BY <2>1, <2>2
  <2>4. Some(temp \o pending[s], s, downloads[s], n)
    BY <1>1, <2>1
  <2> HIDE DEF n, m
  <2>5. Some(temp \o pending[s], s, downloads[s], m)
    BY <2>2, <2>3, <2>4, SomeFront
  <2>6. QED BY <1>1, <2>1, <2>5 DEF m
<1>3. Unmixed(temp')
  BY <1>1
<1>4. \A s, t \in Sessions : ptr'[s] = "open" /\ ptr'[t] = "open" => s = t
  BY <1>1
<1>5. QED BY <1>2, <1>3, <1>4 DEF MixInv

LEMMA MixStep ==
  ASSUME SharedTypes, FileTypes, MixInv, [Next]_vars
  PROVE  MixInv'
<1>0. /\ phase \in [Procs -> Phases] /\ Sessions \subseteq Procs
      /\ ptr \in [Sessions -> {"wild", "open"}] /\ temp \in Seq(Blocks)
      /\ pending \in [Sessions -> Seq(Blocks)] /\ offset \in [Sessions -> Nat]
      /\ length \in [Sessions -> 0..MaxBlocks] /\ left \in [Sessions -> 0..MaxBlocks]
      /\ MaxBlocks \in Nat
      /\ \A s \in Sessions : Progress(s) /\ left[s] \in Nat
  BY BoundsAssumption DEF SharedTypes, Procs, FileTypes
<1>1. CASE UNCHANGED fileVars /\ Onward
  <2>1. UNCHANGED <<downloads, length, left, ptr, pending, offset, temp, overlap>>
    BY <1>1 DEF fileVars
  <2>2. \A s \in Sessions : left[s] <= left[s]
    BY <1>0
  <2>3. QED BY <1>0, <2>1, <2>2, MixKept
<1>2. ASSUME NEW s \in Sessions, Download(s) \/ GiveUp(s) \/ Kill(s) PROVE MixInv'
  <2>1. /\ UNCHANGED <<offset, temp, overlap>>
        /\ Download(s) => ptr[s] # "open"
        /\ ptr' = ptr \/ ptr' = [ptr EXCEPT ![s] = "wild"]
        /\ ptr'[s] = "open" => UNCHANGED <<downloads, length, left, pending>>
        /\ \A t \in Sessions : t # s =>
             /\ pending'[t] = pending[t] /\ downloads'[t] = downloads[t]
             /\ length'[t] = length[t] /\ left'[t] = left[t]
    <3>1. CASE Download(s)
      <4>1. ptr[s] # "open"
        BY <1>0, <3>1 DEF Download, Progress
      <4>2. /\ UNCHANGED <<offset, temp, overlap, ptr, pending>>
            /\ downloads' = [downloads EXCEPT ![s] = downloads[s] + 1]
            /\ \E n : length' = [length EXCEPT ![s] = n] /\ left' = [left EXCEPT ![s] = n]
        BY <3>1 DEF Download
      <4>3. QED BY <4>1, <4>2 DEF FileTypes
    <3>2. CASE GiveUp(s)
      <4>1. UNCHANGED <<downloads, length, left, ptr, pending, offset, temp, overlap>>
        BY <3>2 DEF GiveUp
      <4>2. ~Download(s)
        BY <3>2 DEF GiveUp, Download
      <4>3. QED BY <4>1, <4>2
    <3>3. CASE Kill(s)
      <4>1. /\ UNCHANGED <<downloads, length, left, offset, temp, overlap>>
            /\ ptr' = [ptr EXCEPT ![s] = "wild"] /\ pending' = [pending EXCEPT ![s] = << >>]
        BY <3>3 DEF Kill
      <4>2. ptr'[s] # "open"
        BY <1>0, <4>1
      <4>3. Download(s) => ptr[s] # "open"
        BY <1>0 DEF Download, Progress
      <4>4. QED BY <1>0, <4>1, <4>2, <4>3
    <3>4. QED BY <1>2, <3>1, <3>2, <3>3
  <2>2. ASSUME NEW t \in Sessions, ptr'[t] = "open"
        PROVE  /\ ptr[t] = "open" /\ pending'[t] = pending[t] /\ offset'[t] = offset[t]
               /\ downloads'[t] = downloads[t] /\ length'[t] = length[t]
               /\ left'[t] \in Nat /\ left'[t] <= left[t]
    <3>1. ptr[t] = "open"
      BY <1>0, <2>1, <2>2
    <3>2. /\ pending'[t] = pending[t] /\ downloads'[t] = downloads[t]
          /\ length'[t] = length[t] /\ left'[t] = left[t]
      BY <2>1, <2>2
    <3>3. left[t] \in Nat /\ left[t] <= left[t]
      BY <1>0
    <3>4. QED BY <2>1, <3>1, <3>2, <3>3
  <2>3. QED BY <2>1, <2>2, MixKept
<1>3. ASSUME NEW s \in Sessions, Fopen(s) PROVE MixInv'
  <2>1. UNCHANGED <<downloads, length, left>>
    BY <1>3, FopenDoes
  <2>2. CASE UNCHANGED <<ptr, pending, offset, temp, owner, pure, overlap>>
    <3>1. \A t \in Sessions : left[t] <= left[t]
      BY <1>0
    <3>2. QED BY <1>0, <2>1, <2>2, <3>1, MixKept
  <2>3. CASE /\ ptr' = [ptr EXCEPT ![s] = "open"] /\ pending' = [pending EXCEPT ![s] = << >>]
             /\ offset' = [offset EXCEPT ![s] = 0] /\ temp' = << >>
             /\ ~overlap' => ~overlap /\ Open = {}
    <3> SUFFICES ASSUME ~overlap' PROVE MixInv'
      BY DEF MixInv
    <3>1. \A t \in Sessions : ptr'[t] = "open" => t = s
      BY <1>0, <2>3 DEF Open
    <3>2. pending'[s] = << >> /\ offset'[s] = Len(temp') /\ temp' \o pending'[s] = << >>
      BY <1>0, <2>3
    <3>3. Unmixed(temp')
      BY <2>3 DEF Unmixed
    <3>4. Some(temp' \o pending'[s], s, downloads'[s], length'[s] - left'[s])
      BY <3>2 DEF Some
    <3>5. QED BY <3>1, <3>2, <3>3, <3>4 DEF MixInv
  <2>4. QED BY <1>3, <2>2, <2>3, FopenDoes
<1>4. ASSUME NEW s \in Sessions, Fwrite(s) PROVE MixInv'
  <2>1. /\ phase[s] = "fwrite" /\ left' = [left EXCEPT ![s] = left[s] - 1]
        /\ UNCHANGED <<downloads, length, ptr, overlap>>
    BY <1>4, FwriteDoes
  <2> DEFINE n == length[s] - left[s]
             data == Append(pending[s], NextBlock(s))
  <2>2. /\ n \in Nat /\ left[s] \in Nat \ {0} /\ length[s] \in Nat
        /\ n + 1 <= MaxBlocks /\ downloads[s] \in 1..MaxDownloads
        /\ NextBlock(s) = <<s, downloads[s], n + 1>> /\ NextBlock(s) \in Blocks
    BY <2>1, NextBlockIs
  <2>3. left'[s] = left[s] - 1 /\ left[s] - 1 \in Nat /\ length'[s] - left'[s] = n + 1
    <3>1. \A a, b \in Nat : a - (b - 1) = (a - b) + 1
      OBVIOUS
    <3>2. left'[s] = left[s] - 1
      BY <1>0, <2>1
    <3>3. QED BY <2>1, <2>2, <3>1, <3>2
  <2>4. CASE /\ ptr[s] = "open"
             /\ \/ /\ UNCHANGED <<temp, offset>>
                   /\ pending' = [pending EXCEPT ![s] = data]
                \/ /\ temp' = WriteAt(temp, offset[s], data)
                   /\ pending' = [pending EXCEPT ![s] = << >>]
                   /\ offset' = [offset EXCEPT ![s] = offset[s] + Len(data)]
    <3> SUFFICES ASSUME ~overlap PROVE MixInv'
      BY <2>1 DEF MixInv
    <3>1. /\ offset[s] = Len(temp) /\ Unmixed(temp)
          /\ \A t \in Sessions : ptr[t] = "open" => t = s
          /\ Some(temp \o pending[s], s, downloads[s], n)
      BY <2>4 DEF MixInv
    <3>2. Some(temp \o data, s, downloads[s], n + 1)
      <4> DEFINE q == temp \o pending[s]
                 d == downloads[s]
      <4>1. temp \o data = Append(q, <<s, d, n + 1>>) /\ q \in Seq(Blocks)
        BY <2>1, <2>2, Stored
      <4>2. Some(q, s, d, n) /\ <<s, d, n + 1>> \in Blocks /\ n + 1 \in Nat /\ n \in Nat
        BY <2>2, <3>1
      <4> HIDE DEF q, d, n
      <4>3. Some(Append(q, <<s, d, n + 1>>), s, d, n + 1)
        BY <4>1, <4>2, SomeGrows
      <4>4. QED BY <4>1, <4>3 DEF d
    <3>3. temp' \o pending'[s] = temp \o data /\ offset'[s] = Len(temp')
      <4>1. CASE UNCHANGED <<temp, offset>> /\ pending' = [pending EXCEPT ![s] = data]
        BY <1>0, <3>1, <4>1
      <4>2. CASE /\ temp' = WriteAt(temp, offset[s], data)
                 /\ pending' = [pending EXCEPT ![s] = << >>]
                 /\ offset' = [offset EXCEPT ![s] = offset[s] + Len(data)]
        <5>1. temp' = WriteAt(temp, Len(temp), data) /\ pending'[s] = << >>
              /\ offset'[s] = Len(temp) + Len(data)
          BY <1>0, <3>1, <4>2
        <5>2. QED BY <2>1, <5>1, Stored
      <4>3. QED BY <2>4, <4>1, <4>2
    <3>4. Unmixed(temp')
      <4>1. CASE temp' = temp
        BY <3>1, <4>1
      <4>2. CASE temp' = WriteAt(temp, offset[s], data)
        <5>1. temp' = temp \o data /\ temp \o data \in Seq(Blocks)
          <6>1. data \in Seq(Blocks)
            BY <2>1, Stored
          <6>2. Len(temp) \in Nat
            BY <1>0
          <6>3. QED BY <1>0, <3>1, <4>2, <6>1, <6>2, WriteAtFacts
        <5>2. n + 1 \in Nat
          BY <2>2
        <5> HIDE DEF n, data
        <5>3. QED BY <3>2, <5>1, <5>2, SomeUnmixed
      <4>3. QED BY <2>4, <4>1, <4>2
    <3>5. Some(temp' \o pending'[s], s, downloads'[s], length'[s] - left'[s])
      BY <2>1, <2>3, <3>2, <3>3
    <3> HIDE DEF n, data
    <3>6. QED BY <2>1, <3>1, <3>3, <3>4, <3>5 DEF MixInv
  <2>5. CASE UNCHANGED <<temp, pending, offset>>
    <3>1. ASSUME NEW t \in Sessions PROVE left'[t] \in Nat /\ left'[t] <= left[t]
      <4>1. CASE t = s
        BY <2>2, <2>3, <4>1
      <4>2. CASE t # s
        BY <1>0, <2>1, <4>2
      <4>3. QED BY <4>1, <4>2
    <3>2. QED BY <2>1, <2>5, <3>1, MixKept
  <2>6. QED BY <1>4, <2>4, <2>5, FwriteDoes
<1>5. ASSUME NEW s \in Sessions, Fclose(s) PROVE MixInv'
  <2>1. /\ UNCHANGED <<downloads, length, left, overlap>>
        /\ ptr' = [ptr EXCEPT ![s] = "wild"] /\ pending' = [pending EXCEPT ![s] = << >>]
        /\ offset' = [offset EXCEPT ![s] = 0]
    BY <1>5, FcloseDoes
  <2>2. \A t \in Sessions : ptr'[t] = "open" =>
          ptr[t] = "open" /\ t # s /\ pending'[t] = pending[t] /\ offset'[t] = offset[t]
    BY <1>0, <2>1
  <2>3. CASE /\ ptr[s] = "open"
             /\ temp' = IF pending[s] = << >> THEN temp ELSE WriteAt(temp, offset[s], pending[s])
    <3> SUFFICES ASSUME ~overlap PROVE MixInv'
      BY <2>1 DEF MixInv
    <3> DEFINE n == length[s] - left[s]
    <3>1. /\ offset[s] = Len(temp)
          /\ \A t \in Sessions : ptr[t] = "open" => t = s
          /\ Some(temp \o pending[s], s, downloads[s], n)
      BY <2>3 DEF MixInv
    <3>2. temp' = temp \o pending[s]
      BY <2>3, <3>1, Emptied
    <3>3. Unmixed(temp')
      <4>1. temp \o pending[s] \in Seq(Blocks)
        BY <1>0
      <4>2. n \in Nat
        <5>1. Progress(s) /\ left[s] \in Nat /\ length[s] \in Nat
          BY <1>0
        <5>2. QED BY <5>1 DEF Progress
      <4> HIDE DEF n
      <4>3. QED BY <3>1, <3>2, <4>1, <4>2, SomeUnmixed
    <3>4. \A t \in Sessions : ptr'[t] # "open"
      BY <2>2, <3>1
    <3>5. QED BY <3>3, <3>4 DEF MixInv
  <2>4. CASE temp' = temp
    <3>1. \A t \in Sessions : left[t] \in Nat /\ left[t] <= left[t]
      BY <1>0
    <3>2. QED BY <2>1, <2>2, <2>4, <3>1, MixKept
  <2>5. QED BY <1>5, <2>3, <2>4, FcloseDoes
<1>6. QED BY <1>1, <1>2, <1>3, <1>4, <1>5, FileStepKinds

-----------------------------------------------------------------------------
LEMMA InitFileInv == Init => FileInv
<1> SUFFICES ASSUME Init PROVE FileInv
  OBVIOUS
<1> USE DEF Init
<1>1. << >> \in Seq(Blocks) /\ 0 \in Nat /\ 0 \in 0..MaxBlocks /\ 0 \in 0..MaxDownloads
  BY BoundsAssumption
<1>2. \A s \in Sessions : Progress(s)
  BY DEF Progress, Procs
<1>3. FileTypes
  <2>1. /\ downloads \in [Sessions -> 0..MaxDownloads]
        /\ length \in [Sessions -> 0..MaxBlocks] /\ left \in [Sessions -> 0..MaxBlocks]
        /\ ptr \in [Sessions -> {"wild", "open"}] /\ offset \in [Sessions -> Nat]
    BY <1>1
  <2>2. pending \in [Sessions -> Seq(Blocks)] /\ temp \in Seq(Blocks)
    BY <1>1
  <2>3. QED BY <1>2, <2>1, <2>2 DEF FileTypes
<1>4. WholeInv
  BY DEF WholeInv
<1>5. MixInv
  BY DEF MixInv, Unmixed
<1>6. QED BY <1>3, <1>4, <1>5 DEF FileInv

LEMMA FileInvariance == Spec => [](IInv /\ FileInv)
<1>1. IInv /\ FileInv /\ [Next]_vars => FileInv'
  BY FileTypesStep, WholeStep, MixStep DEF IInv, FileInv
<1>2. QED BY <1>1, InitFileInv, InitIInv, NextIInv, PTL DEF Spec

\* A download that had Sniffed/temp to itself while saving stayed on leaves its
\* file there, whole; and while downloads do not overlap the file never mixes
\* two (fopen "wb+", fwrite through stdio and fclose in proxy.c).
THEOREM TempIsFaithful == Spec => []TempFaithful
<1>1. ASSUME SharedTypes, FileInv PROVE TempFaithful
  <2>1. KeptWhole
    <3> SUFFICES ASSUME pure, phase[owner] \in {"ask", "end"} PROVE temp = FileOf(owner)
      BY DEF KeptWhole
    <3>1. owner \in Sessions
      BY <1>1 DEF FileInv, WholeInv
    <3>2. ptr[owner] # "open"
      BY <1>1, <3>1 DEF FileInv, FileTypes, Progress
    <3>3. QED BY <1>1, <3>2 DEF FileInv, WholeInv
  <2>2. NoMixing
    <3> SUFFICES ASSUME ~overlap, NEW i \in DOMAIN temp, NEW j \in DOMAIN temp
                 PROVE  /\ temp[i] # Hole
                        /\ temp[i][1] = temp[j][1] /\ temp[i][2] = temp[j][2]
                        /\ i < j => temp[i][3] < temp[j][3]
      BY DEF NoMixing
    <3>1. i \in 1..Len(temp) /\ j \in 1..Len(temp)
      BY <1>1 DEF FileInv, FileTypes
    <3>2. /\ temp[i][1] \in Sessions
          /\ temp[i][1] = temp[j][1] /\ temp[i][2] = temp[j][2]
          /\ i < j => temp[i][3] < temp[j][3]
      BY <1>1, <3>1 DEF FileInv, MixInv, Unmixed
    <3>3. Hole[1] \notin Sessions
      BY NamesAssumption DEF Hole
    <3>4. QED BY <3>2, <3>3
  <2>3. QED BY <2>1, <2>2 DEF TempFaithful
<1>2. IInv => SharedTypes
  BY DEF IInv
<1>3. QED BY <1>1, <1>2, FileInvariance, PTL

-----------------------------------------------------------------------------
(* All types.                                                              *)

\* A SAVE that was typed and has not been carried out.
Waiting == IF phase[commands] = "SAVE" /\ in[commands] < 3 THEN 1 ELSE 0

CountTypes ==
  /\ local \in [Procs -> {0, 1}] /\ mem["save"] \in {0, 1}
  /\ typed \in 0..MaxTyped /\ crossed \in BOOLEAN
  /\ saves + Waiting <= typed

\* Who types, and who makes sessions cross.
LEMMA CountedSteps ==
  ASSUME [Next]_vars, crossed \in BOOLEAN
  PROVE  /\ typed' = typed \/ \E k \in {"SAVE", "SHOW"} : Type(k)
         /\ crossed' = crossed \/ \E s \in Sessions : Accept(s)
         /\ crossed' \in BOOLEAN /\ (crossed => crossed')
<1>1. CASE Input
  <2>1. CASE \E k \in {"SAVE", "SHOW"} : Type(k)
    BY <2>1 DEF Type
  <2>2. ASSUME NEW s \in Sessions, Accept(s)
        PROVE  typed' = typed /\ crossed' \in BOOLEAN /\ (crossed => crossed')
    <3>1. crossed' = (crossed \/ \E t \in Sessions : phase[t] \in {"client", "server"})
      BY <2>2 DEF Accept
    <3>2. QED BY <2>2, <3>1 DEF Accept
  <2>3. ASSUME NEW s \in Sessions, Download(s) \/ GiveUp(s) \/ Quit(s) \/ Kill(s)
        PROVE  UNCHANGED <<typed, crossed>>
    BY <2>3 DEF Download, GiveUp, Quit, Kill
  <2>4. QED BY <1>1, <2>1, <2>2, <2>3 DEF Input
<1>2. CASE ~Input
  <2>1. ASSUME NEW p \in Procs, SemWait(p) \/ SemPost(p) PROVE UNCHANGED <<typed, crossed>>
    BY <2>1 DEF SemWait, SemPost, Leave
  <2>2. ASSUME NEW s \in Sessions, SessionStep(s) PROVE UNCHANGED <<typed, crossed>>
    <3>1. CASE SemWait(s) \/ SemPost(s)
      BY <2>1, <3>1 DEF Procs
    <3>2. CASE StoreField(s) \/ ReadSave(s)
      BY <3>2 DEF StoreField, ReadSave
    <3>3. CASE Fopen(s) \/ Fwrite(s) \/ Fclose(s)
      BY <3>3 DEF Fopen, OpenTemp, Fwrite, Fclose, CloseTemp
    <3>4. QED BY <2>2, <3>1, <3>2, <3>3 DEF SessionStep
  <2>3. CASE CommandsStep
    <3>1. CASE SemWait(commands) \/ SemPost(commands)
      BY <2>1, <3>1 DEF Procs
    <3>2. CASE TestSave \/ FlipSave \/ ShowField
      BY <3>2 DEF TestSave, FlipSave, StoreSave, ShowField
    <3>3. QED BY <2>3, <3>1, <3>2 DEF CommandsStep
  <2>4. CASE MainStores
    BY <2>4 DEF MainStores
  <2>5. CASE UNCHANGED vars
    BY <2>5 DEF vars
  <2>6. QED BY <1>2, <2>2, <2>3, <2>4, <2>5 DEF Next
<1>3. QED BY <1>1, <1>2

LEMMA CountStep ==
  ASSUME SharedTypes, CountTypes, [Next]_vars
  PROVE  CountTypes'
<1>0. /\ phase \in [Procs -> Phases] /\ in \in [Procs -> Nat] /\ saves \in Nat
      /\ mem \in [Fields \cup {"save"} -> Sessions \cup {none, 0, 1}]
      /\ local \in [Procs -> {0, 1}] /\ mem["save"] \in {0, 1}
      /\ commands \in Procs /\ commands \notin Sessions /\ Sessions \subseteq Procs
      /\ typed \in Nat /\ typed \in 0..MaxTyped /\ MaxTyped \in Nat /\ saves + Waiting <= typed
      /\ "save" \notin Fields
  BY NamesAssumption, BoundsAssumption DEF SharedTypes, CountTypes, Procs, Fields
<1>1. crossed' \in BOOLEAN
  BY CountedSteps DEF CountTypes
<1>2. ASSUME NEW k \in {"SAVE", "SHOW"}, Type(k) PROVE CountTypes'
  <2>1. /\ phase[commands] = "prompt" /\ typed < MaxTyped /\ typed' = typed + 1
        /\ UNCHANGED <<local, mem, saves>>
    BY <1>2 DEF Type, memVars
  <2>2. Waiting = 0 /\ Waiting' \in {0, 1}
    BY <2>1 DEF Waiting
  <2>3. typed' \in 0..MaxTyped /\ saves' + Waiting' <= typed'
    <3>1. \A n, t, m \in Nat, w \in {0, 1} :
            n + 0 <= t /\ t < m => t + 1 \in 0..m /\ n + w <= t + 1
      OBVIOUS
    <3>2. saves \in Nat /\ typed \in Nat /\ MaxTyped \in Nat /\ saves + Waiting <= typed
      BY <1>0
    <3>3. QED BY <2>1, <2>2, <3>1, <3>2
  <2>4. QED BY <1>0, <1>1, <2>1, <2>3 DEF CountTypes
<1>3. ASSUME typed' = typed, UNCHANGED <<local, mem, saves>> \/ MainStores, Waiting' <= Waiting,
             Waiting' \in {0, 1}
      PROVE  CountTypes'
  <2>1. local' = local /\ saves' = saves /\ mem'["save"] \in {0, 1}
    BY <1>0, <1>3 DEF MainStores
  <2>2. Waiting \in {0, 1}
    BY DEF Waiting
  <2>3. saves' + Waiting' <= typed'
    <3>1. \A n, t \in Nat, v, w \in {0, 1} : n + v <= t /\ w <= v => n + w <= t
      OBVIOUS
    <3>2. saves \in Nat /\ typed \in Nat /\ saves + Waiting <= typed
      BY <1>0
    <3>3. QED BY <1>3, <2>1, <2>2, <3>1, <3>2
  <2>4. QED BY <1>0, <1>1, <1>3, <2>1, <2>3 DEF CountTypes
<1>4. Waiting' \in {0, 1} /\ Waiting \in {0, 1}
  BY DEF Waiting
<1>5. CASE typed' = typed
  <2>1. CASE UNCHANGED <<phase, in, sem, memVars>>
    BY <1>3, <1>4, <1>5, <2>1 DEF memVars, Waiting
  <2>2. ASSUME NEW s \in Sessions, Moves(s) PROVE CountTypes'
    <3>1. phase'[commands] = phase[commands] /\ in'[commands] = in[commands]
      BY <1>0, <2>2 DEF Moves
    <3>2. Waiting' <= Waiting
      BY <3>1 DEF Waiting
    <3>3. QED BY <1>3, <1>4, <1>5, <2>2, <3>2 DEF Moves, memVars
  <2>3. ASSUME NEW s \in Sessions, StoreField(s) PROVE CountTypes'
    <3>1. phase'[commands] = phase[commands] /\ in'[commands] = in[commands]
      BY <1>0, <2>3, StoreFacts
    <3>2. Waiting' = Waiting
      BY <3>1 DEF Waiting
    <3>3. mem'["save"] = mem["save"] /\ UNCHANGED <<local, saves>>
      BY <1>0, <2>3, StoreFacts DEF Fields
    <3>4. QED BY <1>0, <1>1, <1>5, <3>2, <3>3 DEF CountTypes
  <2>4. ASSUME NEW s \in Sessions, ReadSave(s) PROVE CountTypes'
    <3>1. /\ phase'[commands] = phase[commands] /\ in'[commands] = in[commands]
          /\ local' = [local EXCEPT ![s] = mem["save"]] /\ UNCHANGED <<mem, saves>>
      BY <1>0, <2>4 DEF ReadSave, Step
    <3>2. Waiting' = Waiting
      BY <3>1 DEF Waiting
    <3>3. local' \in [Procs -> {0, 1}]
      BY <1>0, <3>1
    <3>4. QED BY <1>0, <1>1, <1>5, <3>1, <3>2, <3>3 DEF CountTypes
  <2>5. ASSUME NEW p \in Procs, SemWait(p) PROVE CountTypes'
    <3>1. /\ phase' = phase /\ UNCHANGED <<local, mem, saves>>
          /\ \/ in'[commands] = in[commands]
             \/ in[commands] = 0 /\ in'[commands] = 1
      <4>1. /\ phase' = phase /\ UNCHANGED <<local, mem, saves>>
            /\ in[p] = 0 /\ in' = [in EXCEPT ![p] = in[p] + 1]
        BY <2>5 DEF SemWait, Step, memVars
      <4>2. CASE p = commands
        BY <1>0, <4>1, <4>2
      <4>3. CASE p # commands
        BY <1>0, <4>1, <4>3
      <4>4. QED BY <4>1, <4>2, <4>3
    <3>2. Waiting' = Waiting
      BY <3>1 DEF Waiting
    <3>3. QED BY <1>3, <1>4, <1>5, <3>1, <3>2
  <2>6. ASSUME NEW p \in Procs, SemPost(p) PROVE CountTypes'
    <3>1. UNCHANGED <<local, mem, saves>>
      BY <2>6, PostFacts
    <3>2. \/ phase'[commands] = phase[commands] /\ in'[commands] = in[commands]
          \/ phase'[commands] = "prompt"
      <4>1. CASE p = commands
        BY <1>0, <2>6, <4>1, PostFacts
      <4>2. CASE p # commands
        BY <1>0, <2>6, <4>2, PostFacts
      <4>3. QED BY <4>1, <4>2
    <3>3. Waiting' <= Waiting
      BY <3>2 DEF Waiting
    <3>4. QED BY <1>3, <1>4, <1>5, <3>1, <3>3
  <2>7. CASE MainStores
    <3>1. Waiting' = Waiting
      BY <2>7 DEF MainStores, Waiting
    <3>2. QED BY <1>3, <1>4, <1>5, <2>7, <3>1
  <2>8. CASE TestSave
    <3>1. /\ phase' = phase /\ in[commands] = 1 /\ in'[commands] = 2
          /\ local' = [local EXCEPT ![commands] = mem["save"]] /\ UNCHANGED <<mem, saves>>
      BY <1>0, <2>8 DEF TestSave, Step
    <3>2. Waiting' = Waiting
      BY <3>1 DEF Waiting
    <3>3. local' \in [Procs -> {0, 1}]
      BY <1>0, <3>1
    <3>4. QED BY <1>0, <1>1, <1>5, <3>1, <3>2, <3>3 DEF CountTypes
  <2>9. CASE FlipSave
    <3>1. /\ phase[commands] = "SAVE" /\ in[commands] = 2 /\ in'[commands] = 3
          /\ mem'["save"] \in {0, 1} /\ saves' = saves + 1 /\ local' = local
      BY <1>0, <2>9 DEF FlipSave, StoreSave, Step
    <3>2. Waiting = 1 /\ Waiting' = 0
      BY <3>1 DEF Waiting
    <3>3. saves' + Waiting' <= typed
      BY <1>0, <3>1, <3>2
    <3>4. QED BY <1>0, <1>1, <1>5, <3>1, <3>3 DEF CountTypes
  <2>10. CASE ShowField
    <3>1. phase[commands] = "SHOW" /\ UNCHANGED <<phase, mem, local, saves>>
      BY <2>10, ShowFacts
    <3>2. Waiting' = Waiting
      BY <3>1 DEF Waiting
    <3>3. QED BY <1>3, <1>4, <1>5, <3>1, <3>2
  <2>11. QED BY <1>2, <2>1, <2>2, <2>3, <2>4, <2>5, <2>6, <2>7, <2>8, <2>9, <2>10, StepKinds
<1>6. QED BY <1>2, <1>5, CountedSteps DEF CountTypes

LEMMA InitCount == Init => CountTypes
<1> SUFFICES ASSUME Init PROVE CountTypes
  OBVIOUS
<1>1. Waiting = 0
  BY DEF Init, Waiting, Procs
<1>2. MaxTyped \in Nat /\ 0 \in 0..MaxTyped /\ 0 + 0 <= 0
  BY BoundsAssumption
<1>3. local \in [Procs -> {0, 1}] /\ mem["save"] = 0 /\ crossed = FALSE
  BY DEF Init
<1>4. typed = 0 /\ saves = 0
  BY DEF Init
<1>5. QED BY <1>1, <1>2, <1>3, <1>4 DEF CountTypes

\* Every variable keeps its type, the bounds of the model included: a SAVE is
\* carried out once for each that was typed, save is 0 or 1 whoever stores it.
THEOREM TypeCorrect == Spec => []TypeOK
<1>1. ASSUME SharedTypes, OneInside, FileTypes, CountTypes PROVE TypeOK
  <2>1. /\ main \in {"start", "serving"} /\ early \in BOOLEAN /\ crossed \in BOOLEAN
        /\ in \in [Procs -> Nat] /\ mem["save"] \in {0, 1} /\ local \in [Procs -> {0, 1}]
        /\ mem \in [Fields \cup {"save"} -> Sessions \cup {none, 0, 1}]
        /\ shown \in [Fields -> Sessions \cup {none, 0, 1}] /\ typed \in 0..MaxTyped
    BY <1>1 DEF SharedTypes, CountTypes
  <2>2. phase \in [Procs -> {"off", "prompt", "SAVE", "SHOW", "client", "server", "ask",
                             "protocol", "open", "fopen", "block", "fwrite", "close",
                             "end", "dead"}]
    BY <1>1 DEF SharedTypes, Phases, Outside
  <2>3. sem \in Nat
    BY <1>1 DEF OneInside
  <2>4. saves \in 0..MaxTyped
    <3>1. Waiting \in {0, 1}
      BY DEF Waiting
    <3>2. saves \in Nat /\ MaxTyped \in Nat /\ typed \in 0..MaxTyped /\ saves + Waiting <= typed
      BY <1>1, BoundsAssumption DEF SharedTypes, CountTypes
    <3>3. QED BY <3>1, <3>2
  <2>5. QED BY <1>1, <2>1, <2>2, <2>3, <2>4 DEF TypeOK, FileTypes
<1>2. SharedTypes /\ CountTypes /\ [Next]_vars => CountTypes'
  BY CountStep
<1>3. IInv => SharedTypes /\ OneInside
  BY DEF IInv
<1>4. FileInv => FileTypes
  BY DEF FileInv
<1>5. QED BY <1>1, <1>2, <1>3, <1>4, InitCount, FileInvariance, PTL DEF Spec

-----------------------------------------------------------------------------
(* SHOW and sessions that do not cross.                                    *)

SetUp == {"client", "server"}

\* What a session has stored, and what it cannot have stored yet.
Placed(s) ==
  /\ phase[s] = "off" \/ (phase[s] = "client" /\ in[s] < 2) => mem["client_address"] # s
  /\ (phase[s] = "client" /\ ~(in[s] < 2)) \/ phase[s] = "server" =>
       mem["client_address"] = s
  /\ phase[s] = "server" /\ ~(in[s] < 2) => mem["server_address"] = s

\* Sessions that set up one after the other: the addresses in mem are those of
\* one session, or the one that stored the client's is on its way to the server's.
TogetherInv ==
  ~crossed =>
    /\ \A s, t \in Sessions : phase[s] \in SetUp /\ phase[t] \in SetUp => s = t
    /\ \/ mem["client_address"] = mem["server_address"]
       \/ /\ mem["client_address"] \in Sessions
          /\ phase[mem["client_address"]] \in SetUp \cup {"dead"}
    /\ \A s \in Sessions : Placed(s)

\* A step that stores no address and begins no session.
LEMMA TogetherKept ==
  ASSUME TogetherInv, ~crossed' => ~crossed,
         mem'["client_address"] = mem["client_address"],
         mem'["server_address"] = mem["server_address"],
         \A s \in Sessions :
           \/ phase'[s] = phase[s] /\ (in'[s] < 2 <=> in[s] < 2)
           \/ phase'[s] = "dead"
           \/ /\ phase[s] \notin SetUp \cup {"off", "dead"}
              /\ phase'[s] \notin SetUp \cup {"off", "dead"}
  PROVE  TogetherInv'
<1> SUFFICES ASSUME ~crossed' PROVE TogetherInv'
  BY DEF TogetherInv, Placed
<1>1. \A s, t \in Sessions : phase'[s] \in SetUp /\ phase'[t] \in SetUp => s = t
  BY DEF TogetherInv, Placed, SetUp
<1>2. \/ mem'["client_address"] = mem'["server_address"]
      \/ /\ mem'["client_address"] \in Sessions
         /\ phase'[mem'["client_address"]] \in SetUp \cup {"dead"}
  <2>1. CASE mem["client_address"] = mem["server_address"]
    BY <2>1
  <2>2. CASE /\ mem["client_address"] \in Sessions
             /\ phase[mem["client_address"]] \in SetUp \cup {"dead"}
    BY <2>2
  <2>3. QED BY <2>1, <2>2 DEF TogetherInv
<1>3. ASSUME NEW s \in Sessions PROVE Placed(s)'
  BY DEF TogetherInv, Placed, SetUp
<1>4. QED BY <1>1, <1>2, <1>3 DEF TogetherInv

LEMMA TogetherStep ==
  ASSUME SharedTypes, crossed \in BOOLEAN, TogetherInv, [Next]_vars
  PROVE  TogetherInv'
<1>0. /\ phase \in [Procs -> Phases] /\ in \in [Procs -> Nat] /\ Sessions \subseteq Procs
      /\ mem \in [Fields \cup {"save"} -> Sessions \cup {none, 0, 1}]
      /\ commands \in Procs /\ commands \notin Sessions
      /\ {"client_address", "server_address"} \subseteq Fields \cup {"save"}
      /\ \A p \in Procs : phase[p] \in Outside => in[p] = 0
  BY NamesAssumption DEF SharedTypes, Procs, Fields
<1>00. ~crossed' => ~crossed
  BY CountedSteps
<1>1. ASSUME NEW s \in Sessions, Accept(s) PROVE TogetherInv'
  <2> SUFFICES ASSUME ~crossed' PROVE TogetherInv'
    BY DEF TogetherInv
  <2>1. /\ phase[s] = "off" /\ phase' = [phase EXCEPT ![s] = "client"] /\ UNCHANGED <<in, mem>>
        /\ \A t \in Sessions : phase[t] \notin SetUp
    <3>1. ~\E t \in Sessions : phase[t] \in {"client", "server"}
      BY <1>1 DEF Accept
    <3>2. QED BY <1>1, <3>1 DEF Accept, Go, memVars, SetUp
  <2>2. in[s] = 0 /\ mem["client_address"] # s /\ phase'[s] = "client"
    BY <1>0, <1>00, <2>1 DEF Outside, TogetherInv, Placed
  <2>3. \A t \in Sessions : t # s => phase'[t] = phase[t]
    BY <1>0, <2>1
  <2>4. \/ mem'["client_address"] = mem'["server_address"]
        \/ /\ mem'["client_address"] \in Sessions
           /\ phase'[mem'["client_address"]] \in SetUp \cup {"dead"}
    BY <1>00, <2>1, <2>2, <2>3 DEF TogetherInv, Placed
  <2>5. \A t, u \in Sessions : phase'[t] \in SetUp /\ phase'[u] \in SetUp => t = u
    BY <2>1, <2>3
  <2>6. ASSUME NEW t \in Sessions PROVE Placed(t)'
    <3>1. CASE t = s
      BY <2>1, <2>2, <3>1 DEF Placed
    <3>2. CASE t # s
      BY <1>00, <2>1, <2>3, <3>2 DEF TogetherInv, Placed
    <3>3. QED BY <3>1, <3>2
  <2>7. QED BY <2>4, <2>5, <2>6 DEF TogetherInv
<1>2. ASSUME NEW s \in Sessions,
             \/ Download(s) \/ GiveUp(s) \/ Quit(s) \/ Kill(s)
             \/ Fopen(s) \/ Fwrite(s) \/ Fclose(s)
      PROVE  TogetherInv'
  <2>1. /\ UNCHANGED <<in, mem>>
        /\ \E to : /\ phase' = [phase EXCEPT ![s] = to]
                   /\ to = "dead" \/ /\ phase[s] \notin SetUp \cup {"off", "dead"}
                                     /\ to \notin SetUp \cup {"off", "dead"}
    <3>1. CASE Download(s)
      <4>1. /\ UNCHANGED <<in, mem>> /\ phase[s] = "ask"
            /\ phase' = [phase EXCEPT ![s] = "protocol"]
        BY <3>1 DEF Download, Go, memVars
      <4>2. /\ phase[s] \notin SetUp \cup {"off", "dead"}
            /\ "protocol" \notin SetUp \cup {"off", "dead"}
        BY <4>1 DEF SetUp
      <4>3. QED BY <4>1, <4>2
    <3>2. CASE GiveUp(s)
      <4>1. /\ UNCHANGED <<in, mem>> /\ phase[s] = "block"
            /\ phase' = [phase EXCEPT ![s] = "close"]
        BY <3>2 DEF GiveUp, Go, memVars
      <4>2. /\ phase[s] \notin SetUp \cup {"off", "dead"}
            /\ "close" \notin SetUp \cup {"off", "dead"}
        BY <4>1 DEF SetUp
      <4>3. QED BY <4>1, <4>2
    <3>3. CASE Quit(s)
      <4>1. /\ UNCHANGED <<in, mem>> /\ phase[s] = "ask"
            /\ phase' = [phase EXCEPT ![s] = "end"]
        BY <3>3 DEF Quit, Go, memVars
      <4>2. /\ phase[s] \notin SetUp \cup {"off", "dead"}
            /\ "end" \notin SetUp \cup {"off", "dead"}
        BY <4>1 DEF SetUp
      <4>3. QED BY <4>1, <4>2
    <3>4. CASE Kill(s)
      <4>1. UNCHANGED <<in, mem>> /\ phase' = [phase EXCEPT ![s] = "dead"]
        BY <3>4 DEF Kill, Go, memVars
      <4>2. QED BY <4>1
    <3>5. CASE Fopen(s)
      <4>1. UNCHANGED <<in, mem>> /\ phase[s] = "fopen"
        BY <3>5 DEF Fopen, OpenTemp, Loop, memVars
      <4>2. \E to \in {"block", "close"} : phase' = [phase EXCEPT ![s] = to]
        BY <3>5 DEF Fopen, OpenTemp, Loop, Go
      <4>3. QED BY <4>1, <4>2 DEF SetUp
    <3>6. CASE Fwrite(s)
      <4>1. UNCHANGED <<in, mem>> /\ phase[s] = "fwrite"
        BY <3>6 DEF Fwrite, Loop, memVars
      <4>2. \E to \in {"block", "close", "dead"} : phase' = [phase EXCEPT ![s] = to]
        BY <3>6 DEF Fwrite, Loop, Go
      <4>3. QED BY <4>1, <4>2 DEF SetUp
    <3>7. CASE Fclose(s)
      <4>1. UNCHANGED <<in, mem>> /\ phase[s] = "close"
        BY <3>7 DEF Fclose, CloseTemp, memVars
      <4>2. \E to \in {"ask", "dead"} : phase' = [phase EXCEPT ![s] = to]
        BY <3>7 DEF Fclose, CloseTemp, Go
      <4>3. QED BY <4>1, <4>2 DEF SetUp
    <3>8. QED BY <1>2, <3>1, <3>2, <3>3, <3>4, <3>5, <3>6, <3>7
  <2>2. QED BY <1>0, <1>00, <2>1, TogetherKept
<1>3. ASSUME NEW s \in Sessions, StoreField(s) PROVE TogetherInv'
  <2>1. /\ in[s] \in Nat /\ in' = [in EXCEPT ![s] = in[s] + 1] /\ phase' = phase
        /\ \A t \in Sessions : t # s => in'[t] = in[t]
    BY <1>0, <1>3, StoreFacts
  <2>2. CASE phase[s] = "client" /\ in[s] = 1 /\ mem' = [mem EXCEPT !["client_address"] = s]
    <3> SUFFICES ASSUME ~crossed' PROVE TogetherInv'
      BY DEF TogetherInv
    <3>1. mem'["client_address"] = s /\ mem'["server_address"] = mem["server_address"]
          /\ in'[s] = 2
      BY <1>0, <2>1, <2>2
    <3>2. \A t \in Sessions : t # s => phase[t] \notin SetUp
      BY <1>00, <2>2 DEF TogetherInv, Placed, SetUp
    <3>3. ASSUME NEW t \in Sessions PROVE Placed(t)'
      <4>1. CASE t = s
        BY <2>1, <2>2, <3>1, <4>1 DEF Placed
      <4>2. CASE t # s
        BY <2>1, <3>1, <3>2, <4>2 DEF SetUp, Placed
      <4>3. QED BY <4>1, <4>2
    <3>4. phase'[mem'["client_address"]] \in SetUp
      BY <2>1, <2>2, <3>1 DEF SetUp
    <3>5. \A t, u \in Sessions : phase'[t] \in SetUp /\ phase'[u] \in SetUp => t = u
      BY <2>1, <3>2
    <3>6. QED BY <3>1, <3>3, <3>4, <3>5 DEF TogetherInv
  <2>3. CASE phase[s] = "server" /\ in[s] = 1 /\ mem' = [mem EXCEPT !["server_address"] = s]
    <3> SUFFICES ASSUME ~crossed' PROVE TogetherInv'
      BY DEF TogetherInv
    <3>1. /\ mem'["client_address"] = mem["client_address"] /\ mem["client_address"] = s
          /\ mem'["server_address"] = s /\ in'[s] = 2
      BY <1>0, <1>00, <2>1, <2>3 DEF TogetherInv, Placed
    <3>2. \A t \in Sessions : t # s => phase[t] \notin SetUp
      BY <1>00, <2>3 DEF TogetherInv, Placed, SetUp
    <3>3. ASSUME NEW t \in Sessions PROVE Placed(t)'
      <4>1. CASE t = s
        BY <2>1, <2>3, <3>1, <4>1 DEF Placed
      <4>2. CASE t # s
        BY <2>1, <3>1, <3>2, <4>2 DEF SetUp, Placed
      <4>3. QED BY <4>1, <4>2
    <3>4. \A t, u \in Sessions : phase'[t] \in SetUp /\ phase'[u] \in SetUp => t = u
      BY <2>1, <3>2
    <3>5. QED BY <3>1, <3>3, <3>4 DEF TogetherInv
  <2>4. CASE \/ phase[s] = "client" /\ in[s] = 2 /\ mem' = [mem EXCEPT !["client_port"] = s]
             \/ phase[s] = "server" /\ in[s] = 2 /\ mem' = [mem EXCEPT !["server_port"] = s]
    <3>1. mem'["client_address"] = mem["client_address"] /\ mem'["server_address"] = mem["server_address"]
      BY <1>0, <2>4
    <3>2. in'[s] < 2 <=> in[s] < 2
      BY <1>0, <2>1, <2>4
    <3>3. QED BY <1>00, <2>1, <3>1, <3>2, TogetherKept
  <2>5. CASE phase[s] = "protocol" /\ mem' = [mem EXCEPT !["protocol"] = s]
    <3>1. mem'["client_address"] = mem["client_address"] /\ mem'["server_address"] = mem["server_address"]
      BY <1>0, <2>5
    <3>2. phase[s] \notin SetUp \cup {"off", "dead"} /\ phase'[s] \notin SetUp \cup {"off", "dead"}
      BY <2>1, <2>5 DEF SetUp
    <3>3. QED BY <1>00, <2>1, <3>1, <3>2, TogetherKept
  <2>6. QED BY <1>3, <2>2, <2>3, <2>4, <2>5, StoreFacts
<1>4. ASSUME NEW s \in Sessions, ReadSave(s) PROVE TogetherInv'
  <2>1. /\ phase[s] \in {"open", "block"} /\ UNCHANGED <<phase, mem>>
        /\ \A t \in Sessions : t # s => in'[t] = in[t]
    BY <1>0, <1>4 DEF ReadSave, Step
  <2>2. phase[s] \notin SetUp \cup {"off", "dead"}
    BY <2>1 DEF SetUp
  <2>3. QED BY <1>00, <2>1, <2>2, TogetherKept
<1>5. ASSUME NEW p \in Procs, SemWait(p) PROVE TogetherInv'
  <2>1. /\ UNCHANGED <<phase, mem>> /\ in[p] = 0 /\ in'[p] = 1
        /\ \A t \in Sessions : t # p => in'[t] = in[t]
    BY <1>0, <1>5 DEF SemWait, Step, memVars
  <2>2. QED BY <1>00, <2>1, TogetherKept
<1>6. ASSUME NEW p \in Procs, SemPost(p) PROVE TogetherInv'
  <2>1. /\ mem' = mem /\ in'[p] = 0 /\ phase'[p] = After(phase[p]) /\ phase[p] # "dead"
        /\ phase[p] \in SetUp => in[p] = 3
        /\ \A t \in Sessions : t # p => in'[t] = in[t] /\ phase'[t] = phase[t]
    BY <1>0, <1>6, PostFacts DEF SetUp
  <2>2. CASE p \notin Sessions
    BY <1>00, <2>1, <2>2, TogetherKept
  <2>3. CASE p \in Sessions /\ phase[p] = "client"
    <3> SUFFICES ASSUME ~crossed' PROVE TogetherInv'
      BY DEF TogetherInv
    <3>1. phase'[p] = "server" /\ mem["client_address"] = p
      BY <1>00, <2>1, <2>3 DEF After, TogetherInv, SetUp, Placed
    <3>2. \A t \in Sessions : t # p => phase[t] \notin SetUp
      BY <1>00, <2>3 DEF TogetherInv, Placed, SetUp
    <3>3. ASSUME NEW t \in Sessions PROVE Placed(t)'
      <4>1. CASE t = p
        BY <2>1, <3>1, <4>1 DEF Placed
      <4>2. CASE t # p
        BY <2>1, <3>1, <3>2, <4>2 DEF SetUp, Placed
      <4>3. QED BY <4>1, <4>2
    <3>4. \A t, u \in Sessions : phase'[t] \in SetUp /\ phase'[u] \in SetUp => t = u
      BY <2>1, <3>2
    <3>5. mem'["client_address"] \in Sessions /\ phase'[mem'["client_address"]] \in SetUp
      BY <2>1, <2>3, <3>1 DEF SetUp
    <3>6. QED BY <3>3, <3>4, <3>5 DEF TogetherInv
  <2>4. CASE p \in Sessions /\ phase[p] = "server"
    <3> SUFFICES ASSUME ~crossed' PROVE TogetherInv'
      BY DEF TogetherInv
    <3>1. phase'[p] = "ask" /\ mem["client_address"] = p /\ mem["server_address"] = p
      BY <1>00, <2>1, <2>4 DEF After, TogetherInv, SetUp, Placed
    <3>2. \A t \in Sessions : t # p => phase[t] \notin SetUp
      BY <1>00, <2>4 DEF TogetherInv, Placed, SetUp
    <3>3. ASSUME NEW t \in Sessions PROVE Placed(t)'
      <4>1. CASE t = p
        BY <2>1, <3>1, <4>1 DEF Placed
      <4>2. CASE t # p
        BY <2>1, <3>1, <3>2, <4>2 DEF SetUp, Placed
      <4>3. QED BY <4>1, <4>2
    <3>4. \A t, u \in Sessions : phase'[t] \in SetUp /\ phase'[u] \in SetUp => t = u
      BY <2>1, <3>1, <3>2 DEF SetUp
    <3>5. QED BY <2>1, <3>1, <3>3, <3>4 DEF TogetherInv
  <2>5. CASE p \in Sessions /\ phase[p] \notin SetUp
    <3>1. phase[p] # "off"
      <4>1. Section("off") = << >>
        BY DEF Section
      <4>2. QED BY <1>6, <4>1 DEF SemPost, Leave
    <3>2. After(phase[p]) \notin SetUp \cup {"off", "dead"}
      BY <2>5 DEF After, SetUp
    <3>3. QED BY <1>00, <2>1, <2>5, <3>1, <3>2, TogetherKept
  <2>6. QED BY <2>2, <2>3, <2>4, <2>5 DEF SetUp
<1>7. ASSUME \/ \E k \in {"SAVE", "SHOW"} : Type(k)
             \/ MainStores \/ TestSave \/ FlipSave \/ ShowField
      PROVE  TogetherInv'
  <2>1. mem' = mem \/ \E v : mem' = [mem EXCEPT !["save"] = v]
    BY <1>7, ShowFacts DEF Type, MainStores, TestSave, FlipSave, StoreSave, memVars
  <2>2. mem'["client_address"] = mem["client_address"] /\ mem'["server_address"] = mem["server_address"]
    BY <1>0, <2>1
  <2>3. \A s \in Sessions : phase'[s] = phase[s] /\ in'[s] = in[s]
    BY <1>0, <1>7, ShowFacts DEF Type, Go, MainStores, TestSave, FlipSave, StoreSave, Step
  <2>4. QED BY <1>00, <2>2, <2>3, TogetherKept
<1>8. CASE UNCHANGED vars
  <2>1. UNCHANGED <<phase, in, mem>>
    BY <1>8 DEF vars, memVars
  <2>2. QED BY <1>00, <2>1, TogetherKept
<1>9. CASE CommandsStep
  BY <1>0, <1>5, <1>6, <1>7, <1>9 DEF CommandsStep
<1>10. CASE Input
  BY <1>1, <1>2, <1>7, <1>10 DEF Input
<1>11. CASE \E s \in Sessions : SessionStep(s)
  BY <1>0, <1>2, <1>3, <1>4, <1>5, <1>6, <1>11 DEF SessionStep
<1>12. QED BY <1>7, <1>8, <1>9, <1>10, <1>11 DEF Next

LEMMA InitTogether == Init => TogetherInv
<1> SUFFICES ASSUME Init PROVE TogetherInv
  OBVIOUS
<1> USE NamesAssumption DEF Procs, Init
<1>1. \A s \in Sessions : phase[s] = "off"
  OBVIOUS
<1>2. mem["client_address"] = none /\ mem["server_address"] = none
  BY DEF Fields
<1>3. QED BY <1>1, <1>2 DEF TogetherInv, Placed, SetUp

\* When sessions do not cross, SHOW prints the client and the server of one
\* session, or a client whose session has not come to its server.
THEOREM ShowPrintsTogether == Spec => []ShownTogether
<1>1. ASSUME SharedTypes, OneInside, Printed, TogetherInv PROVE ShownTogether
  <2> SUFFICES ASSUME ~crossed, phase[commands] = "SHOW", in[commands] = 6
               PROVE  \/ shown["client_address"] = shown["server_address"]
                      \/ /\ shown["client_address"] \in Sessions
                         /\ phase[shown["client_address"]] \in {"server", "dead"}
    BY DEF ShownTogether
  <2>1. /\ shown["client_address"] = mem["client_address"]
        /\ shown["server_address"] = mem["server_address"]
    BY <1>1 DEF Printed, Connection
  <2>2. \A s \in Sessions : in[s] = 0
    BY <1>1, NamesAssumption DEF OneInside, Inside, Procs
  <2>3. ASSUME mem["client_address"] \in Sessions PROVE phase[mem["client_address"]] # "client"
    BY <1>1, <2>2, <2>3 DEF TogetherInv, Placed
  <2>4. QED BY <1>1, <2>1, <2>3 DEF TogetherInv, Placed, SetUp
<1>2. SharedTypes /\ CountTypes /\ TogetherInv /\ [Next]_vars => TogetherInv' /\ CountTypes'
  BY TogetherStep, CountStep DEF CountTypes
<1>3. IInv => SharedTypes /\ OneInside /\ Printed
  BY DEF IInv, PairInv
<1>4. QED BY <1>1, <1>2, <1>3, InitCount, InitTogether, Invariance, PTL DEF Spec
=============================================================================
