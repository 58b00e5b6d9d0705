----------------------------- MODULE ProxyMemory -----------------------------
(***************************************************************************)
(* What the processes of the proxy share: the segment mem behind the       *)
(* semaphore semSHM, and the file Sniffed/temp.  One process reads the     *)
(* operator's commands, one serves each session; main() stores save=1 once *)
(* without the semaphore.                                                  *)
(*                                                                         *)
(* The fields about a connection hold the session that wrote them.  A file *)
(* on its way is a number of blocks; FileTransfer says what becomes of the *)
(* bytes in a block.  stdio keeps up to STDIO blocks before it writes.     *)
(***************************************************************************)
EXTENDS Integers, Sequences, FiniteSets

CONSTANTS
  Sessions,      \* sessions that may be served
  STDIO,         \* blocks in a stdio buffer (4 in glibc)
  MaxBlocks,     \* bound on the blocks of a file
  MaxDownloads,  \* bound on the downloads of a session
  MaxTyped,      \* bound on the commands typed at the proxy
  Mortal,        \* sessions that may be killed at any moment
  commands,      \* the process that runs commands()
  none           \* what a field holds before it is written

ASSUME NamesAssumption  == commands \notin Sessions /\ none \notin Sessions
ASSUME StdioAssumption  == STDIO \in Nat \ {0}
ASSUME BoundsAssumption ==
  MaxBlocks \in Nat /\ MaxDownloads \in Nat /\ MaxTyped \in Nat
ASSUME MortalAssumption == Mortal \subseteq Sessions

Procs == Sessions \cup {commands}

VARIABLES
  main,       \* "start" until main() has stored save=1, then "serving"
  phase,      \* what each process does, or does next
  in,         \* place in the critical section of that phase, 0: outside
  sem,        \* value of semSHM
  mem,        \* the shared segment
  local,      \* the value of mem->save a process has read
  shown,      \* what the last SHOW has read
  typed,      \* number of commands typed (bounds the model)
  crossed,    \* history: a session came before another's addresses were both stored
  saves,      \* history: number of SAVE commands carried out
  early,      \* history: a SAVE began before main() had stored save=1
  downloads,  \* number of downloads of each session (names the files)
  length,     \* blocks of the file a session relays
  left,       \* those still to come
  ptr,        \* write_ptr: "wild" until fopen
  pending,    \* blocks in the stdio buffer of write_ptr
  offset,     \* where that buffer goes in the file
  temp,       \* contents of Sniffed/temp
  owner,      \* history: the session that opened Sniffed/temp last
  pure,       \* history: since then only it had the file open, stored every
              \* block and has not begun another download
  overlap     \* history: two sessions have had the file open at a time

memVars  == <<main, mem, local, shown, saves, early>>
fileVars == <<downloads, length, left, ptr, pending, offset, temp, owner, pure, overlap>>
vars == <<phase, in, sem, memVars, typed, crossed, fileVars>>

-----------------------------------------------------------------------------
(* Critical sections.                                                      *)

Fields == {"client_address", "client_port", "server_address", "server_port", "protocol"}

\* What a process does between sem_wait and sem_post, access by access.
Section(ph) ==
  CASE ph = "client"            -> <<"client_address", "client_port">>
    [] ph = "server"            -> <<"server_address", "server_port">>
    [] ph = "protocol"          -> <<"protocol">>
    [] ph \in {"open", "block"} -> <<"save">>
    [] ph = "SAVE"              -> <<"save", "save">>
    [] ph = "SHOW"              -> <<"client_address", "client_port",
                                     "server_address", "server_port", "protocol">>
    [] OTHER                    -> << >>

\* What comes after the section.
After(ph) ==
  CASE ph = "client"            -> "server"
    [] ph = "server"            -> "ask"
    [] ph = "protocol"          -> "open"
    [] ph = "open"              -> "fopen"
    [] ph = "block"             -> "fwrite"
    [] OTHER                    -> "prompt"

Field(p)  == Section(phase[p])[in[p]]
Within(p) == in[p] \in 1..Len(Section(phase[p]))
Step(p)   == in' = [in EXCEPT ![p] = @ + 1]
Go(p, to) == phase' = [phase EXCEPT ![p] = to]

-----------------------------------------------------------------------------
(* Sniffed/temp.                                                           *)

Hole == <<none, 0, 0>>   \* a block nobody wrote

Length(n, m) == IF n > m THEN n ELSE m

\* The file once the blocks data have been written behind the first at blocks.
WriteAt(file, at, data) ==
  [i \in 1..Length(Len(file), at + Len(data)) |->
     IF i \in at + 1 .. at + Len(data) THEN data[i - at]
     ELSE IF i <= Len(file) THEN file[i] ELSE Hole]

\* An empty buffer leaves the file alone.
Flushed(s, data) == IF data = << >> THEN temp ELSE WriteAt(temp, offset[s], data)

\* The file that session s relays, and its next block.
FileOf(s)    == [i \in 1..length[s] |-> <<s, downloads[s], i>>]
NextBlock(s) == FileOf(s)[length[s] - left[s] + 1]

Open == {s \in Sessions : ptr[s] = "open"}

-----------------------------------------------------------------------------
Init ==
  /\ main = "start"
  /\ phase = [p \in Procs |-> IF p = commands THEN "prompt" ELSE "off"]
  /\ in = [p \in Procs |-> 0]
  /\ sem = 1
  /\ mem = [f \in Fields \cup {"save"} |-> IF f = "save" THEN 0 ELSE none]
  /\ local = [p \in Procs |-> 0]
  /\ shown = [f \in Fields |-> none]
  /\ typed = 0 /\ saves = 0 /\ early = FALSE /\ crossed = FALSE
  /\ downloads = [s \in Sessions |-> 0]
  /\ length = [s \in Sessions |-> 0] /\ left = [s \in Sessions |-> 0]
  /\ ptr = [s \in Sessions |-> "wild"]
  /\ pending = [s \in Sessions |-> << >>] /\ offset = [s \in Sessions |-> 0]
  /\ temp = << >>
  /\ owner = none /\ pure = FALSE /\ overlap = FALSE

-----------------------------------------------------------------------------
(* main().                                                                 *)

\* mem->save=1, after the commands process was forked.
MainStores ==
  /\ main = "start"
  /\ main' = "serving"
  /\ mem' = [mem EXCEPT !["save"] = 1]
  /\ UNCHANGED <<phase, in, sem, local, shown, saves, early, typed, crossed, fileVars>>

\* accept and fork.
Accept(s) ==
  /\ main = "serving"
  /\ phase[s] = "off"
  /\ crossed' = (crossed \/ \E t \in Sessions : phase[t] \in {"client", "server"})
  /\ Go(s, "client")
  /\ UNCHANGED <<in, sem, memVars, typed, fileVars>>

-----------------------------------------------------------------------------
(* The semaphore.                                                          *)

\* Mutant: SHOW only reads and takes no semaphore.
SemWait_NotForShow(p) ==
  /\ Section(phase[p]) # << >>
  /\ in[p] = 0
  /\ sem > 0 \/ phase[p] = "SHOW"
  /\ sem' = IF phase[p] = "SHOW" THEN sem ELSE sem - 1
  /\ Step(p)
  /\ UNCHANGED <<phase, memVars, typed, crossed, fileVars>>

SemWait(p) ==
  /\ Section(phase[p]) # << >>
  /\ in[p] = 0
  /\ sem > 0
  /\ sem' = sem - 1
  /\ Step(p)
  /\ UNCHANGED <<phase, memVars, typed, crossed, fileVars>>

\* The section is left and the semaphore set to v.
Leave(p, v) ==
  /\ Section(phase[p]) # << >>
  /\ in[p] = Len(Section(phase[p])) + 1
  /\ sem' = v
  /\ in' = [in EXCEPT ![p] = 0]
  /\ Go(p, After(phase[p]))
  /\ UNCHANGED <<memVars, typed, crossed, fileVars>>

\* Mutant: the branch that turns saving off returns without sem_post.
SemPost_NotAfterOff(p) ==
  Leave(p, IF phase[p] = "SAVE" /\ mem["save"] = 0 THEN sem ELSE sem + 1)

\* Mutant: sem_post is called twice.
SemPost_Twice(p) == Leave(p, sem + 2)

SemPost(p) == Leave(p, sem + 1)

-----------------------------------------------------------------------------
(* commands().                                                             *)

Type(k) ==
  /\ phase[commands] = "prompt"
  /\ typed < MaxTyped
  /\ typed' = typed + 1
  /\ Go(commands, k)
  /\ UNCHANGED <<in, sem, memVars, crossed, fileVars>>

\* SAVE: if (mem->save==1) ...
TestSave ==
  /\ phase[commands] = "SAVE"
  /\ in[commands] = 1
  /\ local' = [local EXCEPT ![commands] = mem["save"]]
  /\ early' = (early \/ main = "start")
  /\ Step(commands)
  /\ UNCHANGED <<phase, sem, main, mem, shown, saves, typed, crossed, fileVars>>

\* ... and then its store.
StoreSave(v) ==
  /\ phase[commands] = "SAVE"
  /\ in[commands] = 2
  /\ mem' = [mem EXCEPT !["save"] = v]
  /\ saves' = saves + 1
  /\ Step(commands)
  /\ UNCHANGED <<phase, sem, main, local, shown, early, typed, crossed, fileVars>>

\* Mutant: mem->save++; saving is never turned off.
FlipSave_Counts == StoreSave(local[commands] + 1)

\* Mutant: the else is forgotten; saving is turned off and on at once.
FlipSave_NoElse == StoreSave(1)

\* mem->save=0 or mem->save=1.
FlipSave == StoreSave(IF local[commands] = 1 THEN 0 ELSE 1)

\* SHOW reads the fields one after the other.
ShowField ==
  /\ phase[commands] = "SHOW" /\ Within(commands)
  /\ shown' = [shown EXCEPT ![Field(commands)] = mem[Field(commands)]]
  /\ Step(commands)
  /\ UNCHANGED <<phase, sem, main, mem, local, saves, early, typed, crossed, fileVars>>

-----------------------------------------------------------------------------
(* A session: initialize_connection and process_clientTCP.                 *)

\* Its address and port, its server's, the protocol of its download.
StoreField(s) ==
  /\ phase[s] \in {"client", "server", "protocol"} /\ Within(s)
  /\ mem' = [mem EXCEPT ![Field(s)] = s]
  /\ Step(s)
  /\ UNCHANGED <<phase, sem, main, local, shown, saves, early, typed, crossed, fileVars>>

\* The server has accepted DOWNLOAD TCP NOR and sent the size of the file.
Download(s) ==
  /\ phase[s] = "ask"
  /\ downloads[s] < MaxDownloads
  /\ downloads' = [downloads EXCEPT ![s] = @ + 1]
  /\ \E n \in 0..MaxBlocks :
       /\ length' = [length EXCEPT ![s] = n]
       /\ left' = [left EXCEPT ![s] = n]
  /\ pure' = (pure /\ owner # s)
  /\ Go(s, "protocol")
  /\ UNCHANGED <<in, sem, memVars, typed, crossed, ptr, pending, offset, temp, owner, overlap>>

\* save = mem->save, before the file is opened and again for every block.
ReadSave(s) ==
  /\ phase[s] \in {"open", "block"} /\ Within(s)
  /\ local' = [local EXCEPT ![s] = mem["save"]]
  /\ Step(s)
  /\ UNCHANGED <<phase, sem, main, mem, shown, saves, early, typed, crossed, fileVars>>

Loop(s, n) == IF n > 0 THEN "block" ELSE "close"

\* write_ptr is assigned if save was 1; else it stays wild.
OpenTemp(s, contents) ==
  /\ phase[s] = "fopen"
  /\ IF local[s] = 1
     THEN /\ ptr' = [ptr EXCEPT ![s] = "open"]
          /\ pending' = [pending EXCEPT ![s] = << >>]
          /\ offset' = [offset EXCEPT ![s] = 0]
          /\ temp' = contents
          /\ owner' = s
          /\ pure' = (Open = {})
          /\ overlap' = (overlap \/ Open # {})
     ELSE UNCHANGED <<ptr, pending, offset, temp, owner, pure, overlap>>
  /\ Go(s, Loop(s, left[s]))
  /\ UNCHANGED <<in, sem, memVars, typed, crossed, downloads, length, left>>

\* fopen("Sniffed/temp", "wb+").
Fopen(s) == OpenTemp(s, << >>)

\* A block has been read.  It is stored if save is 1 now, and relayed.
Fwrite(s) ==
  /\ phase[s] = "fwrite"
  /\ left' = [left EXCEPT ![s] = @ - 1]
  /\ \/ /\ local[s] = 1 /\ ptr[s] = "open"
        /\ LET data == Append(pending[s], NextBlock(s))
               full == Len(data) >= STDIO
           IN  /\ temp' = IF full THEN Flushed(s, data) ELSE temp
               /\ pending' = [pending EXCEPT ![s] = IF full THEN << >> ELSE data]
               /\ offset' = [offset EXCEPT ![s] = IF full THEN @ + Len(data) ELSE @]
        /\ UNCHANGED pure
        /\ Go(s, Loop(s, left[s] - 1))
     \/ /\ local[s] = 0
        /\ pure' = (pure /\ owner # s)
        /\ UNCHANGED <<temp, pending, offset>>
        /\ Go(s, Loop(s, left[s] - 1))
     \/ /\ local[s] = 1 /\ ptr[s] = "wild"    \* fwrite to a wild pointer
        /\ UNCHANGED <<temp, pending, offset, pure>>
        /\ \E to \in {Loop(s, left[s] - 1), "dead"} : Go(s, to)
  /\ UNCHANGED <<in, sem, memVars, typed, crossed, downloads, length, ptr, owner, overlap>>

\* The server has gone in the middle of the file: the loop is left.
GiveUp(s) ==
  /\ phase[s] = "block" /\ in[s] = 0
  /\ Go(s, "close")
  /\ pure' = (pure /\ owner # s)
  /\ UNCHANGED <<in, sem, memVars, typed, crossed, downloads, length, left, ptr, pending,
                 offset, temp, owner, overlap>>

\* write_ptr is given up, and data goes to the file it was open on.
CloseTemp(s, data) ==
  /\ phase[s] = "close"
  /\ IF ptr[s] = "open"
     THEN temp' = Flushed(s, data) /\ Go(s, "ask")
     ELSE UNCHANGED temp /\ \E to \in {"ask", "dead"} : Go(s, to)
  /\ ptr' = [ptr EXCEPT ![s] = "wild"]
  /\ pending' = [pending EXCEPT ![s] = << >>]
  /\ offset' = [offset EXCEPT ![s] = 0]
  /\ UNCHANGED <<in, sem, memVars, typed, crossed, downloads, length, left, owner, pure,
                 overlap>>

\* Mutant: what stdio still holds is lost.
Fclose_Leaks(s) == CloseTemp(s, << >>)

\* fclose(write_ptr), wild or not.
Fclose(s) == CloseTemp(s, pending[s])

\* QUIT.
Quit(s) ==
  /\ phase[s] = "ask"
  /\ Go(s, "end")
  /\ UNCHANGED <<in, sem, memVars, typed, crossed, fileVars>>

\* A session is killed; the semaphore stays as it is, buffered blocks are lost.
Kill(s) ==
  /\ s \in Mortal
  /\ phase[s] \notin {"off", "end", "dead"}
  /\ Go(s, "dead")
  /\ ptr' = [ptr EXCEPT ![s] = "wild"]
  /\ pending' = [pending EXCEPT ![s] = << >>]
  /\ pure' = (pure /\ owner # s)
  /\ UNCHANGED <<in, sem, memVars, typed, crossed, downloads, length, left, offset, temp,
                 owner, overlap>>

-----------------------------------------------------------------------------
CommandsStep == SemWait(commands) \/ TestSave \/ FlipSave \/ ShowField \/ SemPost(commands)

SessionStep(s) ==
  \/ SemWait(s) \/ StoreField(s) \/ ReadSave(s) \/ SemPost(s)
  \/ Fopen(s) \/ Fwrite(s) \/ Fclose(s)

Input ==
  \/ \E k \in {"SAVE", "SHOW"} : Type(k)
  \/ \E s \in Sessions : Accept(s) \/ Download(s) \/ GiveUp(s) \/ Quit(s) \/ Kill(s)

Next ==
  \/ MainStores \/ CommandsStep \/ Input
  \/ \E s \in Sessions : SessionStep(s)

Spec == Init /\ [][Next]_vars

\* Every process goes on when it can; no input is ever certain to come.
FairSpec ==
  /\ Spec
  /\ WF_vars(CommandsStep)
  /\ \A s \in Sessions : WF_vars(SessionStep(s))

-----------------------------------------------------------------------------
(* Properties.                                                             *)

Blocks == {Hole} \cup (Sessions \X (1..MaxDownloads) \X (1..MaxBlocks))

\* Types of the shared segment, the processes' variables and the file.
TypeOK ==
  /\ main \in {"start", "serving"}
  /\ phase \in [Procs -> {"off", "prompt", "SAVE", "SHOW", "client", "server", "ask",
                          "protocol", "open", "fopen", "block", "fwrite", "close",
                          "end", "dead"}]
  /\ in \in [Procs -> Nat] /\ sem \in Nat
  /\ mem \in [Fields \cup {"save"} -> Sessions \cup {none, 0, 1}]
  /\ mem["save"] \in {0, 1}
  /\ local \in [Procs -> {0, 1}]
  /\ shown \in [Fields -> Sessions \cup {none, 0, 1}]
  /\ typed \in 0..MaxTyped /\ saves \in 0..MaxTyped
  /\ early \in BOOLEAN /\ crossed \in BOOLEAN
  /\ downloads \in [Sessions -> 0..MaxDownloads]
  /\ length \in [Sessions -> 0..MaxBlocks] /\ left \in [Sessions -> 0..MaxBlocks]
  /\ ptr \in [Sessions -> {"wild", "open"}]
  /\ pending \in [Sessions -> Seq(Blocks)] /\ offset \in [Sessions -> Nat]
  /\ temp \in Seq(Blocks)
  /\ owner \in Sessions \cup {none} /\ pure \in BOOLEAN /\ overlap \in BOOLEAN

Inside == {p \in Procs : in[p] # 0}

\* At most one process is between sem_wait and sem_post, and the semaphore is
\* taken exactly while one is (or was killed there).
OneInside ==
  /\ \A p, q \in Inside : p = q
  /\ sem = IF Inside = {} THEN 1 ELSE 0

\* A finished SHOW prints the address and the port of one client, and those of
\* one server (the client may be another session's than the server).
ShownPairs ==
  phase[commands] # "SHOW" =>
    /\ shown["client_address"] = shown["client_port"]
    /\ shown["server_address"] = shown["server_port"]

\* When SHOW has read everything, the client and the server it prints belong to
\* one session, unless sessions have crossed (one came before another's two
\* addresses were stored), or the client's session has not come to store its
\* server yet, and may have died before it could.
ShownTogether ==
  (~crossed /\ phase[commands] = "SHOW" /\ in[commands] = 6) =>
     \/ shown["client_address"] = shown["server_address"]
     \/ /\ shown["client_address"] \in Sessions
        /\ phase[shown["client_address"]] \in {"server", "dead"}

\* Every SAVE counts, and the first one turns saving off, unless it came before
\* main() had stored its 1 (proxy.c:80).
EverySaveCounts ==
  main = "serving" /\ ~early => mem["save"] = (1 + saves) % 2

\* A file that was relayed while saving stayed on and nobody else had
\* Sniffed/temp open is there, whole, when its download ends.
KeptWhole ==
  pure /\ phase[owner] \in {"ask", "end"} => temp = FileOf(owner)

\* Unless two downloads overlap, Sniffed/temp never mixes two files: it holds
\* blocks of one download, in order and without holes.
NoMixing ==
  ~overlap => \A i, j \in DOMAIN temp :
     /\ temp[i] # Hole
     /\ temp[i][1] = temp[j][1] /\ temp[i][2] = temp[j][2]
     /\ i < j => temp[i][3] < temp[j][3]

\* What Sniffed/temp holds can be trusted as far as downloads do not overlap.
TempFaithful == KeptWhole /\ NoMixing

\* The semaphore is always given back, unless its holder is killed: no path
\* through a section leaves without sem_post, and no wait is circular.
SemaphoreReturns ==
  (sem = 0) ~> (sem = 1 \/ \E s \in Sessions : phase[s] = "dead" /\ in[s] # 0)
=============================================================================
