---------------------------- MODULE FileTransfer ----------------------------
(***************************************************************************)
(* One "DOWNLOAD TCP NOR <file>" after the server has answered 1: the      *)
(* server child runs enviaStringBytesTCP (server.c), the proxy child runs  *)
(* recebeStringBytesTCP (proxy.c) and the client runs its own              *)
(* recebeStringBytesTCP (client.c), joined by two TCP streams.             *)
(*                                                                         *)
(* Byte number i of the file is the number i; 0 is the zero byte that      *)
(* memset leaves in a buffer.  A stream is the file size not read yet      *)
(* (at most one, it is written before any byte) and the bytes behind it.   *)
(* fwrite fills a buffer: of a file that is open only a part is on disk.   *)
(***************************************************************************)
EXTENDS Integers, Sequences

CONSTANTS
  BUF_SIZE,     \* bytes per block (1024 in the code)
  Sizes,        \* file sizes to consider
  ShortReads,   \* TRUE: read() may return any part of what has arrived
  STDIO,        \* bytes in a stdio buffer (4096 in glibc)
  Mortal,       \* processes that may be killed at any moment
  MaxToggles    \* bound on the SAVE commands typed at the proxy

Procs == {"server", "proxy", "client"}

ASSUME BufAssumption    == BUF_SIZE \in Nat \ {0}
ASSUME SizesAssumption  == Sizes \subseteq Nat
ASSUME ShortAssumption  == ShortReads \in BOOLEAN
ASSUME StdioAssumption  == STDIO \in Nat
ASSUME MortalAssumption == Mortal \subseteq Procs
ASSUME ToggleAssumption == MaxToggles \in Nat

VARIABLES
  pc,         \* where each process is in its transfer function
  size,       \* size of the file on the server's disk
  sLeft,      \* server: left_size
  s2pInt,     \* server to proxy: the size announced and not read yet
  s2p,        \* server to proxy: bytes written and not read yet
  pSize,      \* proxy: filesize
  pLeft,      \* proxy: left_size
  buf,        \* proxy: buffer, which no iteration clears
  save,       \* proxy: mem->save in the shared segment
  toggles,    \* number of SAVE commands so far (bounds the model)
  ptr,        \* proxy: write_ptr, "wild" until fopen assigns it
  sniffed,    \* bytes given to fwrite since Sniffed/temp was opened
  onDisk,     \* how many of them have left the stdio buffer of write_ptr
  p2cInt,     \* proxy to client: the size announced and not read yet
  p2c,        \* proxy to client: bytes written and not read yet
  forwarded,  \* history: number of bytes the proxy wrote to the client
  cLeft,      \* client: left_size
  download    \* bytes given to fwrite for Downloads/<file>

serverVars == <<size, sLeft>>
s2pVars    == <<s2pInt, s2p>>
proxyVars  == <<pSize, pLeft, buf, ptr, sniffed, onDisk, forwarded>>
saveVars   == <<save, toggles>>
p2cVars    == <<p2cInt, p2c>>
clientVars == <<cLeft, download>>
vars == <<pc, serverVars, s2pVars, proxyVars, saveVars, p2cVars, clientVars>>

-----------------------------------------------------------------------------
(* The length of the next block.                                           *)

\* Mutant: every block is a full one.
ChunkLen_AlwaysFull(left) == BUF_SIZE

\* Mutant: one byte of the buffer is kept for a terminator.
ChunkLen_KeepsNul(left) ==
  IF left > BUF_SIZE - 1 THEN BUF_SIZE - 1 ELSE left % (BUF_SIZE - 1)

\* Length computed by the server and by the client from left_size.
ChunkLen(left) == IF left > BUF_SIZE THEN BUF_SIZE ELSE left % BUF_SIZE

\* The proxy compares left_size-total_read, but its total_read stays 0.
RelayLen(left) ==
  LET total_read == 0
  IN  IF left - total_read > BUF_SIZE THEN BUF_SIZE ELSE left % BUF_SIZE

\* Bytes from+1 .. from+n of the file.
Block(from, n) == [i \in 1..n |-> from + i]
File == Block(0, size)

-----------------------------------------------------------------------------
(* Sockets.  A dead process has closed both of its sockets.                *)

Gone(p) == pc[p] = "dead"

\* What write() adds to a stream: nothing once its reader is gone.
Arrive(stream, reader, data) == IF Gone(reader) THEN stream ELSE stream \o data

\* The writer goes on to next, unless the reader is gone and SIGPIPE kills it
\* (the first write after the peer's close may still succeed).
AfterWrite(writer, reader, next) ==
  \E to \in {next} \cup (IF Gone(reader) THEN {"dead"} ELSE {}) :
     pc' = [pc EXCEPT ![writer] = to]

\* Results of a blocking read(fd, buffer, n): none while it must block.
ReadCount(n, stream, writer) ==
  LET most == IF n < Len(stream) THEN n ELSE Len(stream)
  IN  IF most > 0 THEN (IF ShortReads THEN 1..most ELSE {most})
      ELSE IF n = 0 \/ Gone(writer) THEN {0} ELSE {}

Rest(stream, k) == SubSeq(stream, k + 1, Len(stream))

-----------------------------------------------------------------------------
Init ==
  /\ pc = [p \in Procs |-> "size"]
  /\ size \in Sizes
  /\ sLeft = size
  /\ s2pInt = << >> /\ s2p = << >>
  /\ pSize = 0 /\ pLeft = 0
  /\ buf = [i \in 1..BUF_SIZE |-> 0]
  /\ save = 1 /\ toggles = 0
  /\ ptr = "wild" /\ sniffed = << >> /\ onDisk = 0
  /\ p2cInt = << >> /\ p2c = << >>
  /\ forwarded = 0
  /\ cLeft = 0 /\ download = << >>

-----------------------------------------------------------------------------
(* Server: enviaStringBytesTCP.                                            *)

ServerSendSize ==
  /\ pc["server"] = "size"
  /\ s2pInt' = Arrive(s2pInt, "proxy", <<size>>)
  /\ AfterWrite("server", "proxy", "copy")
  /\ UNCHANGED <<serverVars, s2p, proxyVars, saveVars, p2cVars, clientVars>>

\* One iteration of the loop.  At left_size = BUF_SIZE the block is empty and
\* the iteration changes nothing: the loop spins.
ServerSendBlock ==
  /\ pc["server"] = "copy"
  /\ sLeft > 0
  /\ s2p' = Arrive(s2p, "proxy", Block(size - sLeft, ChunkLen(sLeft)))
  /\ sLeft' = sLeft - ChunkLen(sLeft)
  /\ AfterWrite("server", "proxy", "copy")
  /\ UNCHANGED <<size, s2pInt, proxyVars, saveVars, p2cVars, clientVars>>

ServerDone ==
  /\ pc["server"] = "copy"
  /\ sLeft = 0
  /\ pc' = [pc EXCEPT !["server"] = "done"]
  /\ UNCHANGED <<serverVars, s2pVars, proxyVars, saveVars, p2cVars, clientVars>>

-----------------------------------------------------------------------------
(* Proxy: recebeStringBytesTCP.                                            *)

\* receive_intTCP returns 0 at end of file; the size goes on to the client.
ProxyRecvSize ==
  /\ pc["proxy"] = "size"
  /\ \/ s2pInt # << >> /\ pSize' = Head(s2pInt) /\ s2pInt' = << >>
     \/ s2pInt = << >> /\ Gone("server") /\ pSize' = 0 /\ UNCHANGED s2pInt
  /\ pLeft' = pSize'
  /\ p2cInt' = Arrive(p2cInt, "client", <<pSize'>>)
  /\ AfterWrite("proxy", "client", "open")
  /\ UNCHANGED <<serverVars, s2p, buf, ptr, sniffed, onDisk, forwarded, saveVars, p2c,
                 clientVars>>

\* Sniffed/temp is opened, and truncated, only if save is 1 now.
ProxyOpen ==
  /\ pc["proxy"] = "open"
  /\ pc' = [pc EXCEPT !["proxy"] = "copy"]
  /\ IF save = 1 THEN ptr' = "open" /\ sniffed' = << >> /\ onDisk' = 0
                 ELSE UNCHANGED <<ptr, sniffed, onDisk>>
  /\ UNCHANGED <<serverVars, s2pVars, pSize, pLeft, buf, forwarded, saveVars,
                 p2cVars, clientVars>>

\* The part of an iteration up to the fwrite: k bytes land in buf.
ProxyRead(k) ==
  /\ pc["proxy"] = "copy"
  /\ pLeft > 0
  /\ k > 0
  /\ buf' = [i \in 1..BUF_SIZE |-> IF i <= k THEN s2p[i] ELSE buf[i]]
  /\ s2p' = Rest(s2p, k)

\* fwrite, if save is 1 now.  stdio keeps at most STDIO bytes back.  Through a
\* wild pointer that survives nothing is stored.
Store(data) ==
  IF save = 1 /\ ptr = "open"
  THEN /\ sniffed' = sniffed \o data
       /\ \E n \in onDisk..Len(sniffed') : onDisk' = n /\ Len(sniffed') - n <= STDIO
  ELSE UNCHANGED <<sniffed, onDisk>>

\* Mutant: the whole block is stored, whatever read() returned.
ProxyRelay_StoresBlock ==
  \E k \in ReadCount(RelayLen(pLeft), s2p, "server") :
    /\ ProxyRead(k)
    /\ Store(SubSeq(buf', 1, RelayLen(pLeft)))
    /\ p2c' = Arrive(p2c, "client", SubSeq(buf', 1, RelayLen(pLeft)))
    /\ forwarded' = forwarded + RelayLen(pLeft)
    /\ pLeft' = pLeft - k
    /\ AfterWrite("proxy", "client", "copy")
    /\ UNCHANGED <<serverVars, s2pInt, pSize, ptr, saveVars, p2cInt, clientVars>>

\* Mutant: a block that came in pieces is stored, but not relayed.
ProxyRelay_DropsPieces ==
  \E k \in ReadCount(RelayLen(pLeft), s2p, "server") :
    /\ ProxyRead(k)
    /\ LET n == IF k = RelayLen(pLeft) THEN k ELSE 0
       IN  /\ p2c' = Arrive(p2c, "client", SubSeq(buf', 1, n))
           /\ forwarded' = forwarded + n
    /\ Store(SubSeq(s2p, 1, k))
    /\ pLeft' = pLeft - k
    /\ AfterWrite("proxy", "client", "copy")
    /\ UNCHANGED <<serverVars, s2pInt, pSize, ptr, saveVars, p2cInt, clientVars>>

\* The rest of it: n_received (not nread) bytes of buf go to the client.
ProxyRelay ==
  \E k \in ReadCount(RelayLen(pLeft), s2p, "server") :
    /\ ProxyRead(k)
    /\ Store(SubSeq(s2p, 1, k))
    /\ p2c' = Arrive(p2c, "client", SubSeq(buf', 1, RelayLen(pLeft)))
    /\ forwarded' = forwarded + RelayLen(pLeft)
    /\ pLeft' = pLeft - k
    /\ AfterWrite("proxy", "client", "copy")
    /\ UNCHANGED <<serverVars, s2pInt, pSize, ptr, saveVars, p2cInt, clientVars>>

\* fwrite through a pointer no fopen has assigned: the child may die of it.
ProxyWildWrite ==
  \E k \in ReadCount(RelayLen(pLeft), s2p, "server") :
    /\ ProxyRead(k)
    /\ save = 1 /\ ptr = "wild"
    /\ pc' = [pc EXCEPT !["proxy"] = "dead"]
    /\ UNCHANGED <<serverVars, s2pInt, pSize, pLeft, ptr, sniffed, onDisk,
                   forwarded, saveVars, p2cVars, clientVars>>

\* read() returned 0.  The retry loop reads the same n_received bytes for
\* timeout seconds: 0 again, for an empty block as well as at end of file.
ProxyGiveUp ==
  /\ pc["proxy"] = "copy"
  /\ pLeft > 0
  /\ 0 \in ReadCount(RelayLen(pLeft), s2p, "server")
  /\ pc' = [pc EXCEPT !["proxy"] = "close"]
  /\ UNCHANGED <<serverVars, s2pVars, proxyVars, saveVars, p2cVars, clientVars>>

\* fclose(write_ptr), whether or not the file was opened.
ProxyClose ==
  /\ \/ pc["proxy"] = "copy" /\ pLeft = 0
     \/ pc["proxy"] = "close"
  /\ IF ptr = "open"
     THEN onDisk' = Len(sniffed) /\ pc' = [pc EXCEPT !["proxy"] = "done"]
     ELSE /\ UNCHANGED onDisk
          /\ \E to \in {"done", "dead"} : pc' = [pc EXCEPT !["proxy"] = to]
  /\ UNCHANGED <<serverVars, s2pVars, pSize, pLeft, buf, ptr, sniffed, forwarded,
                 saveVars, p2cVars, clientVars>>

\* commands(): SAVE flips mem->save under the semaphore.
ToggleSave ==
  /\ toggles < MaxToggles
  /\ save' = 1 - save
  /\ toggles' = toggles + 1
  /\ UNCHANGED <<pc, serverVars, s2pVars, proxyVars, p2cVars, clientVars>>

-----------------------------------------------------------------------------
(* Client: recebeStringBytesTCP.                                           *)

ClientRecvSize ==
  /\ pc["client"] = "size"
  /\ \/ p2cInt # << >> /\ cLeft' = Head(p2cInt) /\ p2cInt' = << >>
     \/ p2cInt = << >> /\ Gone("proxy") /\ cLeft' = 0 /\ UNCHANGED p2cInt
  /\ download' = << >>
  /\ pc' = [pc EXCEPT !["client"] = "copy"]
  /\ UNCHANGED <<serverVars, s2pVars, proxyVars, saveVars, p2c>>

\* Mutant: the client stores the block it asked for, not the bytes it got.
ClientRead_StoresBlock ==
  /\ pc["client"] = "copy"
  /\ cLeft > 0
  /\ \E k \in ReadCount(ChunkLen(cLeft), p2c, "proxy") \ {0} :
       /\ download' = download \o [i \in 1..ChunkLen(cLeft) |->
                                    IF i <= k THEN p2c[i] ELSE 0]
       /\ p2c' = Rest(p2c, k)
       /\ cLeft' = cLeft - k
  /\ UNCHANGED <<pc, serverVars, s2pVars, proxyVars, saveVars, p2cInt>>

ClientRead ==
  /\ pc["client"] = "copy"
  /\ cLeft > 0
  /\ \E k \in ReadCount(ChunkLen(cLeft), p2c, "proxy") \ {0} :
       /\ download' = download \o SubSeq(p2c, 1, k)
       /\ p2c' = Rest(p2c, k)
       /\ cLeft' = cLeft - k
  /\ UNCHANGED <<pc, serverVars, s2pVars, proxyVars, saveVars, p2cInt>>

\* Mutant: the retries of an empty read never end while the proxy lives.
ClientGiveUp_NoTimeout ==
  /\ pc["client"] = "copy"
  /\ cLeft > 0
  /\ Gone("proxy") /\ p2c = << >>
  /\ pc' = [pc EXCEPT !["client"] = "done"]
  /\ UNCHANGED <<serverVars, s2pVars, proxyVars, saveVars, p2cVars, clientVars>>

\* Mutant: the client gives up although the next block is only late.
ClientGiveUp_Impatient ==
  /\ pc["client"] = "copy"
  /\ cLeft > 0
  /\ pc' = [pc EXCEPT !["client"] = "done"]
  /\ UNCHANGED <<serverVars, s2pVars, proxyVars, saveVars, p2cVars, clientVars>>

ClientGiveUp ==
  /\ pc["client"] = "copy"
  /\ cLeft > 0
  /\ 0 \in ReadCount(ChunkLen(cLeft), p2c, "proxy")
  /\ pc' = [pc EXCEPT !["client"] = "done"]
  /\ UNCHANGED <<serverVars, s2pVars, proxyVars, saveVars, p2cVars, clientVars>>

ClientDone ==
  /\ pc["client"] = "copy"
  /\ cLeft = 0
  /\ pc' = [pc EXCEPT !["client"] = "done"]
  /\ UNCHANGED <<serverVars, s2pVars, proxyVars, saveVars, p2cVars, clientVars>>

-----------------------------------------------------------------------------
Kill(p) ==
  /\ p \in Mortal
  /\ pc[p] \notin {"done", "dead"}
  /\ pc' = [pc EXCEPT ![p] = "dead"]
  /\ UNCHANGED <<serverVars, s2pVars, proxyVars, saveVars, p2cVars, clientVars>>

ServerStep == ServerSendSize \/ ServerSendBlock \/ ServerDone
ProxyStep  == \/ ProxyRecvSize \/ ProxyOpen \/ ProxyRelay \/ ProxyWildWrite
              \/ ProxyGiveUp \/ ProxyClose
ClientStep == ClientRecvSize \/ ClientRead \/ ClientGiveUp \/ ClientDone

Ended(p) == pc[p] \in {"done", "dead"}

\* Everybody has returned from its transfer function.
Finished ==
  /\ \A p \in Procs : Ended(p)
  /\ UNCHANGED vars

Next ==
  \/ ServerStep \/ ProxyStep \/ ClientStep
  \/ ToggleSave
  \/ \E p \in Procs : Kill(p)
  \/ Finished

Spec == Init /\ [][Next]_vars

\* The operating system keeps scheduling every process that can run.
FairSpec == Spec /\ WF_vars(ServerStep) /\ WF_vars(ProxyStep) /\ WF_vars(ClientStep)

-----------------------------------------------------------------------------
(* Properties.                                                             *)

NatBytes == Seq(Nat)

\* Types of the variables; at most one size is in flight on each stream.
TypeOK ==
  /\ pc \in [Procs -> {"size", "open", "copy", "close", "done", "dead"}]
  /\ size \in Sizes
  /\ sLeft \in Nat /\ pLeft \in Nat /\ cLeft \in Nat
  /\ s2pInt \in Seq(Nat) /\ Len(s2pInt) <= 1
  /\ p2cInt \in Seq(Nat) /\ Len(p2cInt) <= 1
  /\ s2p \in NatBytes /\ p2c \in NatBytes
  /\ pSize \in Nat /\ forwarded \in Nat
  /\ buf \in [1..BUF_SIZE -> Nat]
  /\ save \in {0, 1} /\ toggles \in Nat
  /\ ptr \in {"wild", "open"}
  /\ sniffed \in NatBytes /\ onDisk \in Nat /\ download \in NatBytes

\* Bytes the proxy has taken out of the server's stream.
Taken == pSize - pLeft

\* As long as the proxy has written to the client exactly as many bytes as it
\* read from the server (no short read of a block, proxy.c:353), the file in
\* Downloads is a prefix of the server's file: whatever the timing, whoever
\* dies, whatever the stale content of the buffer.
DownloadFaithful ==
  forwarded = Taken => download = SubSeq(File, 1, Len(download))

\* Contents of Sniffed/temp.  What stdio keeps back is lost when the child dies.
Temp == SubSeq(sniffed, 1, onDisk)

\* Sniffed/temp never holds a stale byte, a byte twice or two bytes in the
\* wrong order, even if SAVE is toggled during the transfer, blocks arrive in
\* pieces and the child dies: it saves the nread bytes it read (proxy.c:351).
SniffedInOrder ==
  /\ \A i \in DOMAIN Temp : Temp[i] \in 1..Taken
  /\ \A i, j \in DOMAIN Temp : i < j => Temp[i] < Temp[j]

\* With SAVE untouched, Sniffed/temp is a prefix of the file that lacks of the
\* bytes taken from the server no more than one stdio buffer, also when the
\* child is killed or dies writing to a client that has gone, and none once it
\* has closed the file, however the blocks were cut and the transfer ended.
SniffedWhole ==
  toggles = 0 =>
    /\ Temp = SubSeq(File, 1, Len(Temp))
    /\ Taken - Len(Temp) <= STDIO
    /\ pc["proxy"] = "done" => Len(Temp) = Taken

\* Sniffed/temp holds bytes of the file in order, and all of them without SAVE
\* but for what a death leaves in the buffer.
SniffedFaithful == SniffedInOrder /\ SniffedWhole

\* A live client has been sent at least every byte the proxy took from the
\* server: a short read pads its stream with stale bytes, it never thins it.
ForwardsEnough ==
  ~Gone("client") => Len(download) + Len(p2c) >= Taken

WholeBlocks == size > 0 /\ size % BUF_SIZE = 0

\* When blocks arrive in one piece, a finished client lacks exactly the last
\* block of a file of whole blocks, and nothing of any other file.
LossIsTheLastBlock ==
  (pc["client"] = "done" /\ ~Gone("server") /\ ~Gone("proxy")) =>
     Len(download) = size - (IF WholeBlocks THEN BUF_SIZE ELSE 0)

\* When blocks arrive in one piece, a file that does not end on a block boundary
\* arrives whole and everybody returns from the transfer, whatever SAVE does,
\* unless a process dies (of a kill, or of the wild pointer).
OddFilesArrive ==
  ~WholeBlocks => <>(\/ (\A p \in Procs : pc[p] = "done") /\ download = File
                     \/ \E p \in Procs : pc[p] = "dead")

\* Server and proxy may spin or die of the wild pointer, but the client's
\* transfer ends unless the server died under it.
ClientFinishes == <>(pc["client"] = "done" \/ Gone("server"))

-----------------------------------------------------------------------------
(* What the project report (Projeto IRC.pdf) says of a transfer.            *)

\* The client reads the file to its end.
ReadsTheWholeFile == <>(download = File)
=============================================================================
