# Verification of Projeto_IRC

TLA+ models of a small file server written in C: a client, a proxy and a server
that fork one process per connection. The modules say what the processes do to
their sockets, to the proxy's shared memory and to the files; TLC checks them on
small instances, TLAPS proves the central invariants for every value of the
constants. Everything is translated from the sources; where they disagree with a
comment or with the report `Projeto IRC.pdf`, section 7 says so.

Contents: 1 the system, 2 its parts and what makes them correct, 3 modules and
code, 4 runs and bounds, 5 fairness, 6 proofs, 7 disagreements, 8 what is not
modelled, 9 plan.

## 1. The system

    operator --stdin--> commands()  --+
                                      |  SharedMemory mem, semaphore semSHM,
    client  ==TCP==>  proxy child  ---+  file Sniffed/temp
                         ||
                         ++==TCP==> server child --> server_files/

The later program is in `src/Projeto/`:

* `server.c`: `main` accepts up to `max_clients` connections and forks a child
  for each; the child runs `process_client`, a loop over the commands LIST,
  QUIT and DOWNLOAD *protocol* *mode* *name*.
* `proxy.c`: `main` forks one child for the operator's commands (`commands`:
  SAVE, SHOW) and then one child per connection (`initialize_connection`,
  `process_clientTCP`). The child reads the client's first message, connects to
  the server it names, and relays commands and answers. A file that passes by is
  also stored in `Sniffed/temp` while `mem->save` is 1.
* `client.c`: sends the first message, then one command after the other, and
  reads what each command is answered with.

Older states: `src/proxy.c` (a first proxy), `src/Projeto (outra cópia)/`
(client and server without a proxy: that is what its makefile builds),
`src/Projeto (cópia)/` (a still earlier one, whose client sends the server's
address to whoever it is connected to) and `src/udp_server.c` (an exercise).

No message carries a length or a separator. What keeps the three processes in
step is that each end performs exactly the reads that the writes of the other
end call for, and that the pauses (`usleep(100)`) keep writes apart. A read that
returns more or less than one message, or less than a block of a file, can put a
session out of step for good; most properties of sessions therefore hold up to
such a read, and say so.

## 2. Inventory

| part | state | operations | correct when | hard because |
|---|---|---|---|---|
| TCP file transfer (server.c:265-303, proxy.c:306-373, client.c:150-207) | `left_size` at three ends, the proxy's buffer, `write_ptr`, two streams, `mem->save`, two files on disk | send size and blocks; relay and store; receive; give up after 3 s | both stored files are the server's file, or a prefix of it; everyone returns | short reads, stale buffer, SAVE in the middle, a process that dies, the last block |
| Server main (server.c:33-79) | `curr_clients` (one copy per process), queue, children, zombies | accept, fork, child's exit, `wait` | never more than `max_clients` children; places are given back | the counter lives in two processes; fork may fail; zombies |
| Session (client.c:25-144, proxy.c:144-297, server.c:83-247) | where each process is, four streams, the command buffers, how many names are left | first message, LIST, QUIT, DOWNLOAD, refusals, end of file, end of the input | an answer belongs to the command awaited; every command is answered; children end with their client | glued reads, a command read in two pieces, a block read short, the directory read twice, SIGPIPE, kills, `command` not cleared, a dead holder of `semSHM` |
| Proxy memory (proxy.c:25-36, 59-142, 154-190, 284-293, 317-352) | `mem`, `semSHM`, what each process has read of it | SAVE, SHOW, the sessions' accesses, main's `save=1` | mutual exclusion; every SAVE counts; SHOW prints address and port of one session | unsynchronised store in main, kills inside a section, SAVE in two steps |
| `Sniffed/temp` (proxy.c:317-373) | the file, per session `write_ptr`, offset and stdio buffer | fopen, fwrite, flush, fclose | a stored file is one file, whole | one name for all sessions, buffered writes |
| Proxy main (proxy.c:98-116; src/proxy.c:58-74) | queue, `client`, open descriptors, children | waitpid or nothing, accept, fork, close | everyone is served; no descriptor stays open; no zombies | accept and fork may fail, descriptors are inherited |
| Whole system (client.c, proxy.c:98-300, server.c:61-247) | both parents, all children, which descriptors are open, how far each command has come | arrive, ask, leave; connect through the server's queue; pass on, answer, relay | who is taken on is answered, nobody else is told anything but 0; children end with their client | connect returns before accept; places are never given back; a child may die anywhere, also inside the semaphore, or never come back from a file |
| Direct session (Projeto (outra cópia) and Projeto (cópia)) | as Session, two processes | the same commands | as Session | some answers are never read, one is never asked for |
| UDP transfer (server.c:305-382, client.c handleUDP) | a socket at each end | first datagram | the file arrives | it cannot: see 7 |
| udp_server.c, ircproxy.c | | | | not modelled, see 8 |

Interaction: connections are TCP streams (Session, DirectSession, FileTransfer);
the proxy's children and `commands()` share `mem` under `semSHM` and the file
`Sniffed/temp` (ProxyMemory); parents and children interact by fork, exit and
wait only (ServerMain, ProxyMain); the proxy's children reach the server through
the queue of its `listen` (System). The hazards, each at its line and with the
properties aimed at it, are in `PROJECT.json`.

## 3. Modules and code

| module | models | refines / uses |
|---|---|---|
| `FileTransfer` | one DOWNLOAD TCP NOR, byte by byte, by three processes | |
| `Admission` | what the usage line "max number of clients" promises: at most Max at a time | |
| `ServerMain` | the server's accept/fork/wait loop | implements `Admission` (`Admits`) |
| `Dialogue` | what a client is promised: one number per command, its own and true, or 0 once a process has ended | |
| `Session` | commands and answers between client, proxy child, server child | implements `Dialogue` (`Dialogues`); of a file, what a short read leaves or pads; FileTransfer is its inside |
| `ProxyMemory` | shared segment, semaphore, operator, `Sniffed/temp` | a file is a number of blocks |
| `ProxyMain` | the proxy's accept loop, in both versions | a session is its first read and its end |
| `Service` | what the users of the whole system are promised | |
| `System` | several clients, both `main()`, all children | extends `ServerMain`, instantiates `ProxyMain`; implements `Service` (`Serves`) |
| `DirectSession` | client and server of Projeto (outra cópia) and of Projeto (cópia) | |
| `QueueFacts` | lemmas about queues without repetitions, and about streams that are written behind and read in front | used by four proof modules |
| `FileTransferProofs`, `ServerMainProofs`, `SessionProofs`, `ProxyMemoryProofs`, `ProxyMainProofs`, `SystemProofs`, `DirectSessionProofs` | theorems | |
| `MC...` | small instances | |

`PROJECT.json` maps every definition to its lines. The correspondence in short:

* **FileTransfer.** One action per call that another process can observe.
  `ServerSendSize` and `ServerSendBlock` are the writes of
  `enviaStringBytesTCP`; `ProxyRead` is the `read` and `ProxyRelay` the rest of
  an iteration (store, forward, count), `ProxyWildWrite` the `fwrite` through a
  pointer no `fopen` assigned. Byte *i* of the file is the number *i*, 0 is the
  zero byte of `memset`: so a duplicated, stale or swapped byte is visible.
  `ChunkLen` is `n_received`; the proxy's differs in the text
  (`left_size-total_read`, with `total_read` always 0), hence `RelayLen`.
  `Store` is the `fwrite` of the proxy: it goes through a stdio buffer of `STDIO`
  bytes, so of the bytes given to it (`sniffed`) only `onDisk` are in the file
  until `fclose`, and the rest is lost when the child dies (`Temp`).
  `ToggleSave` is the operator's SAVE seen from the transfer. The semaphore is
  taken to be free: a transfer behind a dead holder of it is in Session and
  System.
* **ServerMain.** `curr_clients` is the parent's copy. The child's
  `curr_clients--` changes its own copy just before `exit` and is therefore no
  part of any state the others see; that is what `CountsForever` shows.
* **Session.** `c2p`, `p2s`, `s2p`, `p2c` are the four directions as sequences
  of units: a command, a number, a name, a file (`blocks`: one of whole blocks,
  of which the last is never sent). `of` is a history tag, the number of the
  command a unit belongs to. `Write` contains the effect of a
  closed peer (first write lost, then SIGPIPE). `TakeNames` and `TakeText` are
  one `read` of names and of a command: short messages may come glued, and a
  DOWNLOAD, written as the whole array of 1024 bytes, fills a read and may come
  in two pieces; its second piece is the unit `tail`, which the proxy
  (`ProxyTail`) and the server treat as the code treats an empty or a wrong
  command. A file is one unit as long as its blocks are read whole. Of one whose
  blocks are read short, `ShortRelays` says what the proxy can leave in its stream
  and what it relays: `n_received` bytes for each block, and an early end when
  `left_size` comes to be `BUF_SIZE` (proxy.c:335, 353). That is the file and
  padding behind it (`rest`), or a part of what was announced (`part`, with the
  client waiting for more) and a `rest` that the next `receive_intTCP` finds.
  `ClientReadsShort` is the same at client.c:177. A process that finds a `rest`, a
  name or a file where it reads a number is `garbled` and not followed further.
  `uneven` remembers all such reads. `ProxyReplay` and `ProxyJunk` are the
  loop of `process_clientTCP` at end of file, where `command` still holds the
  last command or was never written. `ClientRound` is a round of the client's
  loop after the end of `stdin`: `fgets` leaves `command` as it was and the
  statement meant for the newline cuts off a letter; `letters` is how many a
  DOWNLOAD can lose and still be one. DOWNLOAD appears as the kinds of result
  both ends distinguish (`TCP`, `WHOLE`: whole blocks, `NONE`: refused,
  `UDPNOR`, `UDPENC`). Two things come from outside the session: `main()` of the
  server accepts only below `max_clients` (`ServerAccept`; `OthersFill` takes the
  last place), and the proxy child passes `semSHM` before its first read and with
  every block, which it does not once another process has died inside
  (`OthersDie`, `stuck`).
* **ProxyMemory.** `Section(phase)` is the list of accesses between `sem_wait`
  and `sem_post`; `in` is the place in it. Each access is a step, SAVE is two
  (`TestSave`, `FlipSave`). A field about a connection holds the session that
  wrote it. `local` is the `save` a process has read. `WriteAt`, `Flushed`,
  `pending`, `offset` are stdio over a shared file. `crossed` remembers that two
  sessions have been between their first and second section at a time.
* **ProxyMain.** `form` is `Current` (`src/Projeto/proxy.c`) or `Older`
  (`src/proxy.c`); `holds` are the descriptors a child inherited. The store a
  child makes into `mem` before its first read belongs to ProxyMemory.
* **System.** `fate`, `life`, `holds` are ProxyMain's, `queue`, `children`,
  `zombies`, ... ServerMain's; their actions are used as they are. `stage` is how
  far a client's command has come. `Reach` is `connect`, which returns as soon as
  the kernel has queued the connection, `GiveUp` its timeout at a full queue;
  `HungUp` says that no process of the proxy has the client's connection open,
  which is what makes the client read 0 (`ReadEnd`). The server child of a client
  is named by it, since a proxy child makes one connection. What can stop a
  command for ever is modelled, each with the line that does it: `FirstRead` may
  swallow a command, or QUIT, that is there with the first message
  (proxy.c:166, stage `lost`); `Hello`, `Dialling` and `Hold` wait for `semSHM`,
  which is never posted again once a holder has been killed (`MayHold`, `stuck`;
  the operator's process may be the one); `Answer` may send the server child
  into a file of whole blocks, from which it never returns (`spins`:
  server.c:285); an accepted UDP download leaves the client waiting for a
  datagram (`AnswerUDP`, stage `datagram`). `Misread` stands for a read that
  returned no message or block: Session shows which, and System remembers the
  session as `upset` and lets its processes do what such a session may
  (`Adrift`); `Serves` covers it all the same, `OrphansEnd` does not.
* **DirectSession.** As Session with two processes. `copy` says whose programs
  run; definitions that differ come in two forms (`AfterCommand`,
  `AfterCommandFirst`; `Answer`, `AnswerFirst`). `SILENT` is a DOWNLOAD the other
  copy's client sends and forgets although the server answers it; `address` is
  what the first copy's client sends before any command. The first copy's
  `main()` of the server is that of `ServerMain`, and its own proxy is the older
  form of `ProxyMain`: through it the client sees a server that died at once.
  Files are units as in Session; the client's loop is the one that gives up at
  `left_size = BUF_SIZE` after a short read (`ClientFile`), leaving a `rest`.

## 4. Runs and bounds

All runs are exhaustive for their constants. `CHECK_DEADLOCK FALSE` is used
where the program may stop for good: users stop typing, processes end.

| run | shows | bounds |
|---|---|---|
| TransferSafety | what the client stores is a prefix of the file until a short read is padded; what is on disk at the proxy is in order and, without SAVE, lacks one stdio buffer at most, nothing once closed; under short reads, SAVE at any moment, kills | blocks of 2 bytes, files of 0-5, a stdio buffer of 3, two SAVE |
| TransferLive | the only loss is the last block of a file of whole blocks, all other files arrive; the client returns even if the proxy dies | blocks of 2, files of 0-6, two SAVE, blocks read whole, the proxy may be killed |
| Server | the limit holds, the counter counts every acceptance, zombies are collected once the limit is reached, Admission is implemented | four clients, limit 2, queue 3, failing forks |
| Session | until a read spoils the streams or the directory changes, answers match and are true, whoever dies; nothing is executed twice; all three wait for each other only after a read that was no message or block, or a changed directory; while messages and blocks are read one by one every answer ends, orphans end and so does a client whose input ends, except behind a dead holder of the semaphore, a full server, a server child inside a file of whole blocks, or after a UDP download | 2 commands of all kinds, TCP and UDP, 2 files, 1 letter, 2 troubles (kills, a dead holder of the semaphore, changes of the directory, the end of the input; reads that spoil a stream count too), reads glued, split and short |
| MemorySafety | mutual exclusion, SHOW's pairs, effect of SAVE; `Sniffed/temp` is whole when one session had it, mixed only by overlapping downloads | two sessions (interchangeable: symmetry), a download of 0-2 blocks each, stdio buffer of 2, two operator commands, kills |
| MemoryLive | SHOW prints client and server of one session unless two were set up at a time; the semaphore comes back unless its holder is killed | two sessions, files of 0-1 blocks, one operator command, kills |
| Direct | in step while every answer is read, afterwards behind by exactly the answers left unread; answers end while reads return messages, orphans end unless a file of whole blocks keeps the server child | both copies, three commands of all kinds, 1 letter, two files, kills, end of the input, reads glued, split and short |
| System | Service is implemented; nobody waits for ever and orphans end, except in the queue of a server that has had its clients, behind a dead holder of the semaphore, before a server child that spins, after a swallowed command or a UDP download, and in a session out of step | three clients, of which one has two commands and the others come, leave or are killed; one place, queue 1, failing forks of the server, both forms of the proxy, three arrivals, deaths and sessions out of step together; 543,228 states, about 3 minutes |
| ProxyMain | descriptors are closed; the present form serves or refuses everybody, the older one collects its children and serves nobody | three clients, queue 2, two failing calls, both forms |
| TransferWholeBlocks, ServerPlaceFreed, SessionFirstCommand | counterexamples, see 7 | |

Why the bounds suffice: a block of two bytes distinguishes before, on and after
a boundary and lets a read be short; files up to three blocks give a first, a
middle and a last iteration, and are longer than the stdio buffer. Two names are the least that can be glued, and
two commands the least in which an answer to one can be taken for that of another
(a repeated DOWNLOAD at the end of the input is a third). Two troubles let a
process die after the directory has changed or after another process. In System
three clients fill the one place, the one slot of the queue, and leave one over;
the liveness properties watch one client, the one that types: its second command
may find the server child still inside the file of its first. The others only
take places and queue slots, die, or hold the semaphore. Two sessions are all that mutual exclusion and a shared file
need; the proofs remove the bound where they exist. For the two main loops the
interesting cases are one client more than the limit or the queue holds.
Variables that exist only to bound the model (`sent`, `toggles`,
`failures`, `changes`, `asks`, `deaths`) say so where they are declared.

Every property of these runs is violated by at least one mutant of a mapped
definition: operators such as `ChunkLen_KeepsNul` or `Fork_NoClose`, kept in the
modules next to the definition they change, that stand for a plausible mistake
(an off-by-one, a dropped test, a missing reset).

## 5. Fairness

`WF` on the steps of each process, because the kernel runs every process that is
not blocked; never on input. `Misread` and `Adrift` in System, and the short or glued reads of
Session, may happen and need not. So no user need type, no session need end
(`ProxyMain`: `End` is not fair; `ServerMain`: a child's exit is, for
`ZombiesReaped` speaks of exits; `System`: a child ends when its client has left,
and only then, or when it dies), nobody need be killed or killed in time, and
`Connect` is not fair. The parent loops are fair as a whole: the code between
two calls does not block. In `FileTransfer` a receiver gives up only where its
`read` can return 0 bytes, that is when it asks for a block of length 0 or the
other end has closed: the loop counts such reads for three seconds
(client.c:188-200), a blocked `read` counts nothing. No strong fairness is
assumed; a semaphore under heavy use could starve a process and no property
claims otherwise.

## 6. Proofs

Checked by tlapm; assumptions are the named ASSUMEs of the modules, which TLC
also evaluates.

**FileTransferProofs** (any block size, any set of file sizes): `TypeCorrect`,
`DownloadIsFaithful`, `SniffedIsFaithful` (with its halves `SniffedIsInOrder`
and `SniffedIsWhole`), `ForwardsAtLeastWhatItTakes`, `OnlyTheLastBlockIsLost`. None of these is inductive: whether the next byte
is right depends on what is between the processes. The invariant adds that the
stream from the server is the piece of the file behind what the proxy has taken
(`ServerStreamInv`), that the stream to the client continues the download until
a short read pads it (`ClientStreamInv`), where the size is (`SizeInv`), how the
counters compare (`CountInv`), that without SAVE `fwrite` was given everything
taken (`SniffedInv`), and how much of that stdio may still hold, nothing once the
file is closed (`DiskInv`). The last theorem is about blocks that are read whole (its
assumption `~ShortReads`, as in its run): while all three live, each stands
between two blocks of one file, so that what is left agrees with the size modulo
the block, and is 0 only for a file that does not end on a block (`PieceInv`).
`Division` and `BlockApart` are the arithmetic of `left_size % BUF_SIZE`.

**ServerMainProofs** (any limit, backlog and set of clients): `TypeCorrect`,
`NeverMoreThanMax`, `CounterNeverGoesDown`, and
`ServerAdmits`, that every step of the server is a step of `Admission` or none.
The strengthening is that the accepted connections are finitely many and counted
by `curr_clients`, which exceeds the limit never.

**SessionProofs** (any commands, files, letters and troubles): `TypeCorrect`,
`EachCommandOnce`, `StaysInStep`, `NobodyWaitsForAll` and `KeepsTheDialogue`,
that every step of the session is a step of `Dialogue` or none. `InStep` and
`Dialogues` speak of a session that is `Unspoilt`: no block of a file has been
read short, no DOWNLOAD has reached the server in two pieces, and server_files has
not changed; `WaitsForAReason` lists its reasons. All rest on one invariant in
layers, each with the condition under which the code deserves it:

* `BaseInv`, always: types, bounds, and which kinds can be on which stream at
  which place of the program (`KindsInv`).
* `OrderInv`, while the client lives and the server reads every DOWNLOAD in one
  piece: commands are numbered upwards along client, proxy and server
  (`Rising`, `Ordered`). A dead client makes the proxy repeat its command, and a
  DOWNLOAD in two pieces counts twice; both break it.
* `PartsInv`, while no block is read short: a part of a file comes only from a
  process that has ended in it, so nobody waits for the rest of a part.
* `ServerInv`, while server_files does not change and no block is read short
  either (`Calm`): what is on its way from the server to the proxy is the number the proxy waits for,
  followed by as many names or the file that the number promises. A directory
  that changes between the two passes of a LIST breaks it, and so does the end of
  a file that the proxy has left in its stream.
* `ClientInv`, while the client lives too: the same between proxy and client.
* `SteadyInv`, while no read merges two messages: nothing of it gets lost, so
  whoever waits is waited for. Without this layer `WaitsForAReason` does not
  follow, which is what its exception says.

The step is proved layer by layer, from lemmas that say what one action does to
one stream (what is pushed, what is dropped) and nothing else.

**ProxyMemoryProofs** (any number of sessions, files and commands, kills at any
moment): `TypeCorrect`, `OneProcessInside`, `EverySaveCountsAlways`,
`ShowPrintsPairs`, `ShowPrintsTogether`, `TempIsFaithful`.
`OneInside` is inductive with types. For SAVE one needs that what was read in
the first step is still there in the second (`SaveInv`), which is mutual
exclusion plus the fact that main stores once. For SHOW, that an address and its
port differ only while a session is half way in its section or has died there
(`Pair`) — and then the semaphore is never free again, so SHOW does not run — and
that what has been read is still so until the section ends (`Printed`).
`StepKinds` reduces the many actions to those that touch the shared segment.
That both addresses SHOW prints are of one session needs, as long as sessions do
not cross, that one session at a time is between its two sections and where in
them its own address is already in `mem` (`TogetherInv`, `Placed`). For
`Sniffed/temp`: while a download has the file alone, the file followed by what
stdio still holds is what has been relayed (`WholeInv`), and while downloads do
not overlap it is in order and of one download (`MixInv`); `WriteAtFacts` is
`fwrite` at an offset, which is appending only when nobody else has written. For
the types of the counters, a SAVE that was typed and not carried out still counts
(`CountTypes`).

**ProxyMainProofs** (both forms, any set of clients, any number of failures):
`TypeCorrect`, `SessionsHangUp`, `NobodyIsServed`. The strengthening (`Lines`)
ties the queue and the descriptors to each client's fate: a connection that
waits is held by nobody. For `NobodyIsServed` one adds that the older parent has
nothing open to pass on (`NothingOpen`). The invariants are proved for more steps
than ProxyMain takes: a child may end at any moment (`Moves`), which is what
System needs.

**SystemProofs** (any clients, limits and bounds, both forms of the proxy):
`SystemKeepsTheLimit`, `SystemTypeCorrect`, `SystemHangsUp`,
`OlderAnswersNobody`, and `SystemServes`, that every step of the whole system is
a step of `Service`. The system's steps are the server's or leave it alone
(`ServerSteps`), so ServerMain's invariant carries over (`ServerInvariance`).
It is joined by `UserInv`: a command is answered only if the server has taken
its client on, which stays true because nobody is sent away who was taken on
(`AdmittedGrows`). The limit on acceptances, not the one on children, bounds who
is ever answered (`TakingOn`). A session out of step may be told things the
server has said before (`AdriftStep`): that too is said only to a client the
server has taken on. Each step is then matched with its step in
Service: what a user does (`UsersSteps`), what the proxy child relays
(`RelayStep`), deaths (`DeathStep`), and everything behind the scenes. The proxy
is an instance of ProxyMain, so its theorems are instantiated as well
(`ProxyFacts`): every step of the system is one of the proxy's `Moves` or leaves
it alone (`ProxySteps`), its assumptions are System's (`ProxyAssumption`), and so
no connection stays open in two processes and the older proxy serves nobody in
the whole system either. `WayInv` follows a command: who was told something has
had a command passed on, and that only by a child that has reached the server,
which never forgets a connection (`KnownStep`). `StuckInv` says that only the
present form has a semaphore to die in. Together they give
`OlderAnswersNobody`: behind the older proxy nothing is passed on and nobody is
told anything.

**DirectSessionProofs** (both copies, any commands, letters and files, kills at
any moment): `TypeCorrect`, `InStepWhileRead`, `BehindExactly`. Two invariants
over the types, because the two statements hold under different conditions.
`StepInv`, while every answer is read, DOWNLOADs come in one piece and no block is
read short: what the client waits for and what the server does belong together, place by place
(`AtPrompt`, `Asked`, `Told`, `AtNames`, `AtFile`, `AtUdp`). It survives merged
names, since it bounds the names to come and does not count them. `BehindInv`,
while messages and blocks are read one by one, however many answers the client
has left unread: the stream to the client begins with the answer due (`HeadInv`), goes on
one number per command (`ChainInv`), each with the names or the file behind it
that it announced, as far as they are written (`PartsInv`), and the commands on
their way are the last ones sent (`LinkInv`). The client may die, leave or lose
the thread, and does not find it again (`StillFollowing`). Each action has one
lemma per invariant, over a lemma that states its effect on places and streams.

Model-checked only: everything temporal beyond `[]` and the refinements, that is
`ClientFinishes`, `OddFilesArrive`, `ZombiesReaped`, `ZombiesCollected`,
`EveryoneServed`, `NobodyElseWaits`, `OrphansEnd`, `SemaphoreReturns`, both
`Answered`, `EverybodyEnds` and `OrphanEnds` (liveness under fairness is out of
the prover's reach). Every invariant and every refinement the passing runs check
is a theorem.

## 7. Disagreements

Three runs end with a counterexample; `PROJECT.json` quotes the sentence each
contradicts.

* TransferWholeBlocks: `left_size % BUF_SIZE` is 0 for a last full block; files
  of whole blocks never arrive completely, and the server child spins.
* ServerPlaceFreed: a client that leaves frees no place, for its child
  decrements a copy of `curr_clients`.
* SessionFirstCommand: a first command glued to the first message is lost, and
  the client waits for ever, although the server serves it and nobody has died
  (`ReadyForCommands` excuses both).

Others are visible in the passing runs, in a property's premise, in an excuse
it makes, or as what it states:

* After a short read the proxy forwards stale bytes of its buffer
  (proxy.c:353): the premise of `DownloadFaithful`.
* After a short read the receiver's loop may meet `left_size = BUF_SIZE` in the
  middle of a file, take it for the end and leave bytes in the stream
  (proxy.c:335, client.c:177): of a file of 1500 bytes of which the proxy first
  reads 476 it relays 1024 and gives up, the client waits for 476 more, and proxy
  and server wait for commands. `Unspoilt` and `Disturbed` in Session,
  `WaitsForAReason`, and `upset` in System.
* What the proxy has taken and stdio still holds is not in `Sniffed/temp` when
  its child dies: `SniffedWhole` allows for one buffer.
* A server child that has sent a file of whole blocks answers no further command
  and does not end (server.c:280-301): `NoServer` in Session, `Spins` in System.
* A process that dies inside `semSHM` stops every child of the proxy at its next
  first message or block (proxy.c:154, 187, 284, 318, 346): `Blocked` in Session,
  `BehindTheDead` in System.
* With save off the proxy child uses an uninitialised `write_ptr`
  (proxy.c:352, 372) and may die: `ProxyWildWrite`, `ProxyClose`, and the dead
  process that `OddFilesArrive` excuses.
* Neither a UDP download nor a UDP connection works (server.c:340,
  proxy.c:302): `ServerUDP` ends the server child, which `Answered` excuses, and
  the client stays in `udp`; `ProxyHello` ends a UDP session.
* A stored file lasts until the next download (`Fopen` truncates the one file).
* The first copy's client is one answer behind from its first command on: the
  server refuses the address it sends first (`BehindByUnread`).
* A place at the server is not given back, and `connect` succeeds all the same:
  a client beyond the limit gets no refusal (`NobodyElseWaits`, the exception
  `Full`; `NoServer` in Session).
* The present proxy never collects a child: its waitpid loop is commented out
  (proxy.c:101). No property says so; `ZombiesCollected` is about the loop in the
  older form (src/proxy.c:61).
* The older proxy closes the connection it has just accepted (src/proxy.c:64):
  `OlderServesNobody`.

## 8. Not modelled

* The loops of `handleUDP`: never reached (`sendto` to address 0 and port 0
  fails, `recvfrom` gets an invalid length pointer and no datagram). Session and
  DirectSession model how the call ends.
* `initialize_connection`, `process_clientTCP` and `passBytes` of the older
  proxies: behind a read that always fails (`OlderServesNobody`).
* Text that overflows its arrays (names, commands, `Downloads` paths) and
  descriptors or memory that run out: behaviour the C standard leaves open, or
  the kernel's.
* What the two processes do after the bytes of a name or a file have been taken
  for a number (`garbled`): reached only after a read that was no message or
  block, or a changed directory. System follows a session no further than that
  either: a command lost that way may wait (`NobodyElseWaits`), and the children of
  such a session need not end (`OrphansEnd`).
* Connections of type UDP, and the contents of answers, in System (they are in
  Session).
* The semaphore in FileTransfer: its liveness properties are about one transfer
  that is never kept waiting for it.
* Which block of a file a short read hits, in Session: a file is one unit there,
  and what a short read can leave or pad is a choice (`ShortRelays`,
  `ClientReadsShort`). FileTransfer has the bytes.
* `udp_server.c`, `ircproxy.c`: see the components in `PROJECT.json`.
* Setup (sockets, `shmget`, `gethostbyname`) that succeeds or ends the program,
  and all output.

## 9. Plan

Done: FileTransfer, ServerMain with Admission, Session with Dialogue,
ProxyMemory, ProxyMain, DirectSession for both copies, System with Service, and
the proofs of section 6.

Next, models: `Transfer`, an abstract specification "the download grows as a
prefix of the file", implemented by FileTransfer as long as reads are not short;
a child of ProxyMain that is killed before its first read (System has it); the
UDP loops as they would run if the addresses were right, if that proves useful.

Next, proofs: that FileTransfer implements `Transfer`; the safety part of what
the liveness properties rest on, such as that a process which waits in Session
is waited for by nobody it waits for itself once a trouble has happened; Dialogue
for DirectSession as long as the client reads every answer.
