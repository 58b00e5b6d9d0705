------------------------- MODULE FileTransferProofs -------------------------
(* Theorems about FileTransfer, for every block size and every file size.  *)
EXTENDS FileTransfer, SequenceTheorems, TLAPS

-----------------------------------------------------------------------------
(* The inductive invariant.                                                *)

\* The size travels ahead of the bytes, once.
SizeInv ==
  /\ s2pInt # << >> => s2pInt = <<size>>
  /\ pc["server"] = "size" => s2pInt = << >> /\ sLeft = size
  /\ pc["proxy"] = "size" =>
       /\ pSize = 0 /\ pLeft = 0 /\ forwarded = 0
       /\ p2cInt = << >> /\ p2c = << >>
       /\ sniffed = << >> /\ download = << >>
       /\ s2pInt = << >> => /\ sLeft = size /\ s2p = << >>
                            /\ pc["server"] \in {"size", "dead"}
  /\ pc["proxy"] = "open" => pLeft = pSize /\ sniffed = << >>
  /\ pc["client"] = "size" => download = << >>

\* What lies between the server and a live proxy is the piece of the file the
\* proxy has not taken yet.
ServerStreamInv ==
  /\ sLeft <= size
  /\ ~Gone("proxy") =>
       /\ Taken + Len(s2p) = size - sLeft
       /\ \A i \in 1..Len(s2p) : s2p[i] = Taken + i

CountInv ==
  /\ pLeft <= pSize
  /\ pSize <= size
  /\ Taken <= forwarded

\* Until a short read pads the stream, what lies between the proxy and the
\* client continues the download.
ClientStreamInv ==
  /\ Len(download) + Len(p2c) <= forwarded
  /\ ~Gone("client") => Len(download) + Len(p2c) = forwarded
  /\ forwarded = Taken =>
       /\ \A i \in 1..Len(download) : download[i] = i
       /\ \A i \in 1..Len(p2c) : p2c[i] = Len(download) + i

\* What fwrite was given are bytes of the file in order.
StoredInOrder ==
  /\ \A i \in DOMAIN sniffed : sniffed[i] \in 1..Taken
  /\ \A i, j \in DOMAIN sniffed : i < j => sniffed[i] < sniffed[j]

\* While nobody types SAVE, fwrite was given every byte taken.
SniffedInv ==
  toggles = 0 =>
    /\ save = 1
    /\ pc["proxy"] \in {"copy", "close", "done"} => ptr = "open"
    /\ Len(sniffed) = Taken
    /\ \A i \in 1..Len(sniffed) : sniffed[i] = i

\* stdio keeps back at most one buffer, and nothing once the file is closed.
DiskInv ==
  /\ onDisk <= Len(sniffed)
  /\ Len(sniffed) <= onDisk + STDIO
  /\ pc["proxy"] = "done" /\ ptr = "open" => onDisk = Len(sniffed)

IInv ==
  /\ TypeOK
  /\ SizeInv
  /\ ServerStreamInv
  /\ CountInv
  /\ ClientStreamInv
  /\ StoredInOrder
  /\ SniffedInv
  /\ DiskInv

-----------------------------------------------------------------------------
(* Facts about the operators.                                              *)

\* A block is never longer than the buffer or than what is left.
LEMMA LengthFacts ==
  ASSUME NEW left \in Nat, left > 0
  PROVE  /\ ChunkLen(left) \in 0..BUF_SIZE /\ ChunkLen(left) <= left
         /\ RelayLen(left) \in 0..BUF_SIZE /\ RelayLen(left) <= left
<1>1. CASE left > BUF_SIZE
  BY <1>1, BufAssumption DEF ChunkLen, RelayLen
<1>2. CASE left <= BUF_SIZE
  <2>1. left % BUF_SIZE \in 0..left
    BY <1>2, BufAssumption
  <2>2. QED BY <1>2, <2>1, BufAssumption DEF ChunkLen, RelayLen
<1>3. QED BY <1>1, <1>2, BufAssumption

\* read() returns no more than was asked for and no more than has arrived.
LEMMA ReadFacts ==
  ASSUME NEW n \in Nat, NEW stream \in Seq(Nat), NEW writer,
         NEW k \in ReadCount(n, stream, writer)
  PROVE  k \in Nat /\ k <= n /\ k <= Len(stream)
<1>1. Len(stream) \in Nat OBVIOUS
<1>2. QED BY <1>1 DEF ReadCount

\* The first k bytes of a stream, and the others.
LEMMA SplitFacts ==
  ASSUME NEW stream \in Seq(Nat), NEW k \in 0..Len(stream)
  PROVE  /\ SubSeq(stream, 1, k) \in Seq(Nat)
         /\ Len(SubSeq(stream, 1, k)) = k
         /\ \A i \in 1..k : SubSeq(stream, 1, k)[i] = stream[i]
         /\ Rest(stream, k) \in Seq(Nat)
         /\ Len(Rest(stream, k)) = Len(stream) - k
         /\ \A i \in 1..(Len(stream) - k) : Rest(stream, k)[i] = stream[k + i]
<1>1. /\ Len(stream) \in Nat
      /\ \A i \in 1..Len(stream) : stream[i] \in Nat
  OBVIOUS
<1>2. /\ SubSeq(stream, 1, k) \in Seq(Nat)
      /\ Len(SubSeq(stream, 1, k)) = k
      /\ \A i \in 1..k : SubSeq(stream, 1, k)[i] = stream[i]
  BY <1>1, SubSeqProperties
<1>3. /\ Rest(stream, k) \in Seq(Nat)
      /\ Len(Rest(stream, k)) = Len(stream) - k
      /\ \A i \in 1..(Len(stream) - k) : Rest(stream, k)[i] = stream[k + i]
  BY <1>1, SubSeqProperties DEF Rest
<1>4. QED BY <1>2, <1>3

\* A block of the file is a sequence of consecutive bytes.
LEMMA BlockFacts ==
  ASSUME NEW from \in Nat, NEW n \in Nat
  PROVE  /\ Block(from, n) \in Seq(Nat)
         /\ Len(Block(from, n)) = n
         /\ \A i \in 1..n : Block(from, n)[i] = from + i
BY DEF Block

\* The element of a concatenation at a given place.
LEMMA ConcatFacts ==
  ASSUME NEW s \in Seq(Nat), NEW t \in Seq(Nat)
  PROVE  /\ s \o t \in Seq(Nat)
         /\ Len(s \o t) = Len(s) + Len(t)
         /\ \A i \in 1..Len(s) : (s \o t)[i] = s[i]
         /\ \A i \in 1..Len(t) : (s \o t)[Len(s) + i] = t[i]
         /\ \A i \in 1..(Len(s) + Len(t)) :
              i \in 1..Len(s) \/ (i - Len(s) \in 1..Len(t)
                                  /\ (s \o t)[i] = t[i - Len(s)])
<1>1. Len(s) \in Nat /\ Len(t) \in Nat OBVIOUS
<1>2. QED BY <1>1, ConcatProperties

\* A sequence of the bytes 1, 2, 3, ... is a prefix of the file.
LEMMA PrefixFacts ==
  ASSUME NEW s \in Seq(Nat), size \in Nat, Len(s) <= size,
         \A i \in 1..Len(s) : s[i] = i
  PROVE  s = SubSeq(File, 1, Len(s))
<1>1. Len(s) \in Nat /\ Len(s) \in 0..size
  OBVIOUS
<1>2. /\ File \in Seq(Nat) /\ Len(File) = size
      /\ \A i \in 1..size : File[i] = i
  <2>1. /\ File \in Seq(Nat) /\ Len(File) = size
        /\ \A i \in 1..size : File[i] = 0 + i
    BY BlockFacts, 0 \in Nat DEF File
  <2>2. QED BY <2>1
<1>3. /\ SubSeq(File, 1, Len(s)) \in Seq(Nat)
      /\ Len(SubSeq(File, 1, Len(s))) = Len(s)
      /\ \A i \in 1..Len(s) : SubSeq(File, 1, Len(s))[i] = File[i]
  BY <1>1, <1>2, SplitFacts
<1>4. \A i \in 1..Len(s) : SubSeq(File, 1, Len(s))[i] = s[i]
  BY <1>1, <1>2, <1>3
<1>5. QED BY <1>3, <1>4, SeqEqual

\* The first n bytes of the proxy's buffer.
LEMMA BufferFacts ==
  ASSUME NEW b \in [1..BUF_SIZE -> Nat], NEW n \in 0..BUF_SIZE
  PROVE  /\ SubSeq(b, 1, n) \in Seq(Nat)
         /\ Len(SubSeq(b, 1, n)) = n
         /\ \A i \in 1..n : SubSeq(b, 1, n)[i] = b[i]
<1>1. b \in Seq(Nat) /\ Len(b) = BUF_SIZE
  BY BufAssumption
<1>2. QED BY <1>1, BufAssumption, SubSeqProperties

\* Only the writer moves, to the next place or to its death.
LEMMA AfterWriteFacts ==
  ASSUME TypeOK, NEW writer \in Procs, NEW reader,
         NEW next \in {"copy", "open"}, AfterWrite(writer, reader, next)
  PROVE  /\ pc' \in [Procs -> {"size", "open", "copy", "close", "done", "dead"}]
         /\ pc'[writer] \in {next, "dead"}
         /\ \A p \in Procs \ {writer} : pc'[p] = pc[p]
<1>1. PICK to \in {next, "dead"} : pc' = [pc EXCEPT ![writer] = to]
  BY DEF AfterWrite
<1>2. QED BY <1>1 DEF TypeOK

\* What a write leaves in the stream is made of naturals.
LEMMA ArriveFacts ==
  ASSUME NEW stream \in Seq(Nat), NEW reader, NEW data \in Seq(Nat)
  PROVE  Arrive(stream, reader, data) \in Seq(Nat)
BY DEF Arrive

\* The size, if there is one, is the first and only element.
LEMMA HeadFacts ==
  ASSUME NEW stream \in Seq(Nat), stream # << >>
  PROVE  Head(stream) \in Nat
OBVIOUS

\* What an iteration that takes k bytes and relays n leaves behind.
Relayed(k, n) ==
  /\ 1 <= k /\ k <= n /\ n <= pLeft /\ n <= BUF_SIZE /\ k <= Len(s2p)
  /\ s2p' = Rest(s2p, k)
  /\ buf' \in [1..BUF_SIZE -> Nat]
  /\ \A i \in 1..k : buf'[i] = s2p[i]
  /\ sniffed' = IF save = 1 /\ ptr = "open" THEN sniffed \o SubSeq(s2p, 1, k)
                                           ELSE sniffed
  /\ onDisk' \in Nat /\ onDisk' <= Len(sniffed')
  /\ \/ Len(sniffed') <= onDisk' + STDIO
     \/ UNCHANGED <<sniffed, onDisk>>
  /\ p2c' = Arrive(p2c, "client", SubSeq(buf', 1, n))
  /\ forwarded' = forwarded + n
  /\ pLeft' = pLeft - k

\* Every iteration of the proxy's loop is of that form.
LEMMA RelayFacts ==
  ASSUME TypeOK, DiskInv, ProxyRelay
  PROVE  \E k \in Nat, n \in Nat : Relayed(k, n)
<1>1. PICK k \in ReadCount(RelayLen(pLeft), s2p, "server") :
        /\ ProxyRead(k)
        /\ Store(SubSeq(s2p, 1, k))
        /\ p2c' = Arrive(p2c, "client", SubSeq(buf', 1, RelayLen(pLeft)))
        /\ forwarded' = forwarded + RelayLen(pLeft)
        /\ pLeft' = pLeft - k
  BY DEF ProxyRelay
<1>2. RelayLen(pLeft) \in 0..BUF_SIZE /\ RelayLen(pLeft) <= pLeft
  BY <1>1, LengthFacts DEF ProxyRead, TypeOK
<1>3. k \in 1..pLeft /\ k <= RelayLen(pLeft) /\ k <= Len(s2p)
  <2>1. k \in Nat /\ k <= RelayLen(pLeft) /\ k <= Len(s2p)
    BY <1>1, <1>2, ReadFacts DEF TypeOK, NatBytes
  <2>2. k > 0 /\ pLeft \in Nat
    BY <1>1 DEF ProxyRead, TypeOK
  <2>3. QED BY <1>2, <2>1, <2>2, BufAssumption
<1>4. /\ buf' \in [1..BUF_SIZE -> Nat]
      /\ \A i \in 1..k : buf'[i] = s2p[i]
  <2>1. \A i \in 1..k : s2p[i] \in Nat
    BY <1>3 DEF TypeOK, NatBytes
  <2>2. /\ buf' = [i \in 1..BUF_SIZE |-> IF i <= k THEN s2p[i] ELSE buf[i]]
        /\ buf \in [1..BUF_SIZE -> Nat]
    BY <1>1 DEF ProxyRead, TypeOK
  <2>3. QED BY <1>2, <1>3, <2>1, <2>2, BufAssumption
<1>5. /\ sniffed' = IF save = 1 /\ ptr = "open" THEN sniffed \o SubSeq(s2p, 1, k)
                                               ELSE sniffed
      /\ onDisk' \in Nat /\ onDisk' <= Len(sniffed')
      /\ \/ Len(sniffed') <= onDisk' + STDIO
         \/ UNCHANGED <<sniffed, onDisk>>
  <2>1. onDisk \in Nat /\ onDisk <= Len(sniffed) /\ STDIO \in Nat
    BY StdioAssumption DEF DiskInv, TypeOK
  <2>2. CASE save = 1 /\ ptr = "open"
    <3>1. /\ sniffed' = sniffed \o SubSeq(s2p, 1, k)
          /\ \E n \in onDisk..Len(sniffed') : onDisk' = n /\ Len(sniffed') - n <= STDIO
      BY <1>1, <2>2 DEF Store
    <3>2. SubSeq(s2p, 1, k) \in Seq(Nat) /\ sniffed \in Seq(Nat)
      BY <1>3, SplitFacts DEF TypeOK, NatBytes
    <3>3. Len(sniffed') \in Nat
      BY <3>1, <3>2, ConcatFacts
    <3>4. onDisk' \in Nat /\ onDisk' <= Len(sniffed') /\ Len(sniffed') <= onDisk' + STDIO
      <4>1. PICK n \in onDisk..Len(sniffed') :
              onDisk' = n /\ Len(sniffed') - n <= STDIO
        BY <3>1
      <4>2. n \in Nat /\ n <= Len(sniffed')
        BY <2>1, <3>3
      <4>3. QED BY <2>1, <3>3, <4>1, <4>2
    <3>5. QED BY <2>2, <3>1, <3>4
  <2>3. CASE ~(save = 1 /\ ptr = "open")
    BY <1>1, <2>1, <2>3 DEF Store
  <2>4. QED BY <2>2, <2>3
<1>8. Relayed(k, RelayLen(pLeft))
  <2>1. /\ 1 <= k /\ k <= RelayLen(pLeft) /\ RelayLen(pLeft) <= pLeft
        /\ RelayLen(pLeft) <= BUF_SIZE /\ k <= Len(s2p)
    BY <1>2, <1>3, BufAssumption
  <2>2. QED BY <1>1, <1>4, <1>5, <2>1, Zenon DEF Relayed, ProxyRead
<1>6. k \in Nat /\ RelayLen(pLeft) \in Nat
  BY <1>2, <1>3, BufAssumption DEF TypeOK
<1>7. QED BY <1>6, <1>8

\* Steps of the server disturb only the server and its stream.
LEMMA ServerMoves ==
  ASSUME TypeOK, ServerStep
  PROVE  /\ pc'["proxy"] = pc["proxy"] /\ pc'["client"] = pc["client"]
         /\ UNCHANGED <<size, proxyVars, saveVars, p2cVars, clientVars>>
<1>1. CASE ServerSendSize
  BY <1>1, AfterWriteFacts DEF ServerSendSize, Procs, serverVars
<1>2. CASE ServerSendBlock
  BY <1>2, AfterWriteFacts DEF ServerSendBlock, Procs
<1>3. CASE ServerDone
  BY <1>3 DEF ServerDone, Procs, serverVars, TypeOK
<1>4. QED BY <1>1, <1>2, <1>3 DEF ServerStep

\* Steps of the proxy leave the server, SAVE and the client alone.
LEMMA ProxyMoves ==
  ASSUME TypeOK, ProxyStep
  PROVE  /\ pc'["server"] = pc["server"] /\ pc'["client"] = pc["client"]
         /\ UNCHANGED <<serverVars, saveVars, clientVars>>
<1>1. CASE ProxyRecvSize
  BY <1>1, AfterWriteFacts DEF ProxyRecvSize, Procs
<1>2. CASE ProxyOpen
  BY <1>2 DEF ProxyOpen, Procs, TypeOK
<1>3. CASE ProxyRelay
  BY <1>3, AfterWriteFacts DEF ProxyRelay, Procs
<1>4. CASE ProxyWildWrite
  BY <1>4 DEF ProxyWildWrite, Procs, TypeOK
<1>5. CASE ProxyGiveUp
  BY <1>5 DEF ProxyGiveUp, Procs, TypeOK
<1>6. CASE ProxyClose
  BY <1>6 DEF ProxyClose, Procs, TypeOK
<1>7. QED BY <1>1, <1>2, <1>3, <1>4, <1>5, <1>6 DEF ProxyStep

\* Steps of the client leave the server, its stream and the proxy alone.
LEMMA ClientMoves ==
  ASSUME TypeOK, ClientStep
  PROVE  /\ pc'["server"] = pc["server"] /\ pc'["proxy"] = pc["proxy"]
         /\ UNCHANGED <<serverVars, s2pVars, proxyVars, saveVars>>
<1>1. CASE ClientRecvSize
  BY <1>1 DEF ClientRecvSize, Procs, TypeOK
<1>2. CASE ClientRead
  BY <1>2 DEF ClientRead
<1>3. CASE ClientGiveUp
  BY <1>3 DEF ClientGiveUp, Procs, TypeOK
<1>4. CASE ClientDone
  BY <1>4 DEF ClientDone, Procs, TypeOK
<1>5. QED BY <1>1, <1>2, <1>3, <1>4 DEF ClientStep

\* A death, a SAVE command or a stutter leaves streams and files alone.
LEMMA OtherMoves ==
  ASSUME TypeOK, ToggleSave \/ (\E p \in Procs : Kill(p)) \/ UNCHANGED vars
  PROVE  /\ \A p \in Procs : pc'[p] \in {pc[p], "dead"}
         /\ UNCHANGED <<serverVars, s2pVars, proxyVars, p2cVars, clientVars>>
         /\ toggles' = 0 => UNCHANGED saveVars
<1>1. CASE ToggleSave
  BY <1>1 DEF ToggleSave, TypeOK
<1>2. ASSUME NEW p \in Procs, Kill(p)
      PROVE  /\ \A q \in Procs : pc'[q] \in {pc[q], "dead"}
             /\ UNCHANGED <<serverVars, s2pVars, proxyVars, p2cVars, clientVars,
                            saveVars>>
  BY <1>2 DEF Kill, TypeOK
<1>3. CASE UNCHANGED vars
  BY <1>3 DEF vars
<1>4. QED BY <1>1, <1>2, <1>3

-----------------------------------------------------------------------------
(* Each conjunct is preserved by every step.                               *)

\* Every action is one of the processes', a SAVE command or a death.
LEMMA TypeStep ==
  ASSUME TypeOK, SizeInv, ServerStreamInv, DiskInv, [Next]_vars
  PROVE  TypeOK'
<1> USE BufAssumption DEF Procs, NatBytes
<1>1. ASSUME ServerSendSize PROVE TypeOK'
  <2>1. s2pInt' \in Seq(Nat) /\ Len(s2pInt') <= 1
    <3>1. s2pInt = << >> /\ <<size>> \in Seq(Nat)
      BY <1>1, SizesAssumption DEF ServerSendSize, SizeInv, TypeOK
    <3>2. QED BY <1>1, <3>1 DEF ServerSendSize, Arrive, TypeOK
  <2>2. pc' \in [Procs -> {"size", "open", "copy", "close", "done", "dead"}]
    BY <1>1, AfterWriteFacts DEF ServerSendSize, TypeOK
  <2>3. QED
    BY <1>1, <2>1, <2>2 DEF ServerSendSize, serverVars, proxyVars, saveVars,
       p2cVars, clientVars, TypeOK
<1>2. ASSUME ServerSendBlock PROVE TypeOK'
  <2>1. /\ ChunkLen(sLeft) \in Nat /\ sLeft - ChunkLen(sLeft) \in Nat
    BY <1>2, LengthFacts DEF ServerSendBlock, TypeOK
  <2>2. s2p' \in Seq(Nat)
    <3>1. Block(size - sLeft, ChunkLen(sLeft)) \in Seq(Nat)
      BY <2>1, BlockFacts, SizesAssumption DEF TypeOK, ServerStreamInv
    <3>2. QED BY <1>2, <3>1, ArriveFacts DEF ServerSendBlock, TypeOK
  <2>3. pc' \in [Procs -> {"size", "open", "copy", "close", "done", "dead"}]
    BY <1>2, AfterWriteFacts DEF ServerSendBlock, TypeOK
  <2>4. QED
    BY <1>2, <2>1, <2>2, <2>3 DEF ServerSendBlock, proxyVars, saveVars, p2cVars,
       clientVars, TypeOK
<1>3. ASSUME ServerDone PROVE TypeOK'
  BY <1>3 DEF ServerDone, serverVars, s2pVars, proxyVars, saveVars, p2cVars,
     clientVars, TypeOK
<1>4. ASSUME ProxyRecvSize PROVE TypeOK'
  <2>1. pSize' \in Nat /\ s2pInt' \in Seq(Nat) /\ Len(s2pInt') <= 1
    <3>1. CASE s2pInt # << >>
      <4>1. Head(s2pInt) \in Nat
        BY <3>1, HeadFacts DEF TypeOK
      <4>2. pSize' = Head(s2pInt) /\ s2pInt' = << >>
        BY <1>4, <3>1 DEF ProxyRecvSize
      <4>3. QED BY <4>1, <4>2
    <3>2. CASE s2pInt = << >>
      <4>1. pSize' = 0 /\ s2pInt' = s2pInt
        BY <1>4, <3>2 DEF ProxyRecvSize
      <4>2. QED BY <4>1 DEF TypeOK
    <3>3. QED BY <3>1, <3>2
  <2>2. p2cInt' \in Seq(Nat) /\ Len(p2cInt') <= 1
    <3>1. p2cInt = << >> /\ <<pSize'>> \in Seq(Nat)
      BY <1>4, <2>1 DEF ProxyRecvSize, SizeInv
    <3>2. QED BY <1>4, <3>1 DEF ProxyRecvSize, Arrive
  <2>3. pc' \in [Procs -> {"size", "open", "copy", "close", "done", "dead"}]
    BY <1>4, AfterWriteFacts DEF ProxyRecvSize, TypeOK
  <2>4. QED
    BY <1>4, <2>1, <2>2, <2>3 DEF ProxyRecvSize, serverVars, saveVars, clientVars, TypeOK
<1>5. ASSUME ProxyOpen PROVE TypeOK'
  <2>1. ptr' \in {"wild", "open"} /\ sniffed' \in Seq(Nat) /\ onDisk' \in Nat
    <3>1. \/ ptr' = "open" /\ sniffed' = << >> /\ onDisk' = 0
          \/ ptr' = ptr /\ sniffed' = sniffed /\ onDisk' = onDisk
      BY <1>5 DEF ProxyOpen
    <3>2. ptr \in {"wild", "open"} /\ sniffed \in Seq(Nat) /\ onDisk \in Nat
      BY DEF TypeOK
    <3>3. << >> \in Seq(Nat) /\ 0 \in Nat
      OBVIOUS
    <3>4. QED BY <3>1, <3>2, <3>3, Zenon
  <2>2. QED
    BY <1>5, <2>1 DEF ProxyOpen, serverVars, s2pVars, saveVars, p2cVars,
       clientVars, TypeOK
<1>6. ASSUME ProxyRelay PROVE TypeOK'
  <2>1. PICK k \in Nat, n \in Nat : Relayed(k, n)
    BY <1>6, RelayFacts
  <2>2. SubSeq(s2p, 1, k) \in Seq(Nat) /\ s2p' \in Seq(Nat)
    BY <2>1, SplitFacts DEF Relayed, TypeOK
  <2>3. SubSeq(buf', 1, n) \in Seq(Nat)
    BY <2>1, BufferFacts DEF Relayed
  <2>4. p2c' \in Seq(Nat)
    BY <2>1, <2>3, ArriveFacts DEF Relayed, TypeOK
  <2>5. sniffed' \in Seq(Nat)
    BY <2>1, <2>2 DEF Relayed, TypeOK
  <2>6. pLeft' \in Nat /\ forwarded' \in Nat
    BY <2>1 DEF Relayed, TypeOK
  <2>7. pc' \in [Procs -> {"size", "open", "copy", "close", "done", "dead"}]
    BY <1>6, AfterWriteFacts DEF ProxyRelay
  <2>8. QED
    BY <1>6, <2>1, <2>2, <2>4, <2>5, <2>6, <2>7
    DEF ProxyRelay, Relayed, serverVars, saveVars, clientVars, TypeOK
<1>7. ASSUME ProxyWildWrite PROVE TypeOK'
  <2>1. PICK k \in ReadCount(RelayLen(pLeft), s2p, "server") :
          /\ ProxyRead(k)
          /\ pc' = [pc EXCEPT !["proxy"] = "dead"]
          /\ UNCHANGED <<serverVars, s2pInt, pSize, pLeft, ptr, sniffed, onDisk,
                         forwarded, saveVars, p2cVars, clientVars>>
    BY <1>7 DEF ProxyWildWrite, TypeOK
  <2>2. RelayLen(pLeft) \in 0..BUF_SIZE
    BY <2>1, LengthFacts DEF ProxyRead, TypeOK
  <2>3. k \in 0..Len(s2p)
    BY <2>1, <2>2, ReadFacts DEF TypeOK
  <2>4. (\A i \in 1..k : s2p[i] \in Nat) /\ s2p' \in Seq(Nat)
    BY <2>1, <2>3, SplitFacts DEF ProxyRead, TypeOK
  <2>5. buf' \in [1..BUF_SIZE -> Nat]
    BY <2>1, <2>4 DEF ProxyRead, TypeOK
  <2>6. QED
    BY <2>1, <2>4, <2>5 DEF serverVars, saveVars, p2cVars, clientVars, TypeOK
<1>8. ASSUME ProxyGiveUp \/ ProxyClose PROVE TypeOK'
  <2>1. CASE ProxyGiveUp
    BY <2>1 DEF ProxyGiveUp, serverVars, s2pVars, proxyVars, saveVars, p2cVars,
       clientVars, TypeOK
  <2>2. CASE ProxyClose
    <3>1. Len(sniffed) \in Nat
      BY DEF TypeOK
    <3>2. /\ onDisk' \in {onDisk, Len(sniffed)}
          /\ \E to \in {"done", "dead"} : pc' = [pc EXCEPT !["proxy"] = to]
      BY <2>2 DEF ProxyClose
    <3>3. QED
      BY <2>2, <3>1, <3>2 DEF ProxyClose, serverVars, s2pVars, saveVars, p2cVars,
         clientVars, TypeOK
  <2>3. QED BY <1>8, <2>1, <2>2
<1>9. ASSUME ToggleSave PROVE TypeOK'
  BY <1>9 DEF ToggleSave, serverVars, s2pVars, proxyVars, p2cVars, clientVars, TypeOK
<1>10. ASSUME ClientRecvSize PROVE TypeOK'
  <2>1. cLeft' \in Nat /\ p2cInt' \in Seq(Nat) /\ Len(p2cInt') <= 1
    <3>1. CASE p2cInt # << >>
      <4>1. Head(p2cInt) \in Nat
        BY <3>1, HeadFacts DEF TypeOK
      <4>2. cLeft' = Head(p2cInt) /\ p2cInt' = << >>
        BY <1>10, <3>1 DEF ClientRecvSize
      <4>3. QED BY <4>1, <4>2
    <3>2. CASE p2cInt = << >>
      BY <1>10, <3>2 DEF ClientRecvSize, TypeOK
    <3>3. QED BY <3>1, <3>2
  <2>2. QED
    BY <1>10, <2>1 DEF ClientRecvSize, serverVars, s2pVars, proxyVars, saveVars, TypeOK
<1>11. ASSUME ClientRead PROVE TypeOK'
  <2>1. PICK k \in ReadCount(ChunkLen(cLeft), p2c, "proxy") \ {0} :
          /\ download' = download \o SubSeq(p2c, 1, k)
          /\ p2c' = Rest(p2c, k)
          /\ cLeft' = cLeft - k
    BY <1>11 DEF ClientRead, TypeOK
  <2>2. ChunkLen(cLeft) \in Nat /\ ChunkLen(cLeft) <= cLeft
    BY <1>11, LengthFacts DEF ClientRead, TypeOK
  <2>3. k \in 0..Len(p2c) /\ cLeft - k \in Nat
    BY <2>1, <2>2, ReadFacts DEF TypeOK
  <2>4. SubSeq(p2c, 1, k) \in Seq(Nat) /\ Rest(p2c, k) \in Seq(Nat)
    BY <2>3, SplitFacts DEF TypeOK
  <2>5. QED
    BY <1>11, <2>1, <2>3, <2>4 DEF ClientRead, serverVars, s2pVars, proxyVars,
       saveVars, TypeOK
<1>12. ASSUME ClientGiveUp \/ ClientDone PROVE TypeOK'
  BY <1>12 DEF ClientGiveUp, ClientDone, serverVars, s2pVars, proxyVars, saveVars,
     p2cVars, clientVars, TypeOK
<1>13. ASSUME NEW p \in Procs, Kill(p) PROVE TypeOK'
  BY <1>13 DEF Kill, serverVars, s2pVars, proxyVars, saveVars, p2cVars, clientVars, TypeOK
<1>14. ASSUME UNCHANGED vars PROVE TypeOK'
  BY <1>14 DEF vars, serverVars, s2pVars, proxyVars, saveVars, p2cVars, clientVars, TypeOK
<1>15. QED
  BY <1>1, <1>2, <1>3, <1>4, <1>5, <1>6, <1>7, <1>8, <1>9, <1>10, <1>11, <1>12,
     <1>13, <1>14 DEF Next, ServerStep, ProxyStep, ClientStep, Finished

\* SizeInv: the size is sent before any byte and read before any byte.
LEMMA SizeStep ==
  ASSUME TypeOK, SizeInv, [Next]_vars
  PROVE  SizeInv'
<1> USE DEF Procs
<1>1. ASSUME ServerStep PROVE SizeInv'
  <2>1. /\ pc'["proxy"] = pc["proxy"] /\ pc'["client"] = pc["client"]
        /\ UNCHANGED <<size, pSize, pLeft, forwarded, sniffed, p2cInt, p2c,
                       download>>
    BY <1>1, ServerMoves DEF proxyVars, p2cVars, clientVars
  <2>2. CASE ServerSendSize
    <3>1. pc'["server"] # "size" /\ UNCHANGED <<sLeft, s2p>>
      BY <2>2, AfterWriteFacts DEF ServerSendSize, serverVars
    <3>2. s2pInt' = IF Gone("proxy") THEN << >> ELSE <<size>>
      BY <2>2 DEF ServerSendSize, SizeInv, Arrive
    <3>3. <<size>> # << >>
      OBVIOUS
    <3>4. QED BY <2>1, <3>1, <3>2, <3>3 DEF SizeInv, Gone
  <2>3. CASE ServerSendBlock
    <3>1. pc'["server"] # "size" /\ UNCHANGED s2pInt /\ pc["server"] = "copy"
      BY <2>3, AfterWriteFacts DEF ServerSendBlock
    <3>2. QED BY <2>1, <3>1 DEF SizeInv
  <2>4. CASE ServerDone
    <3>1. pc'["server"] # "size" /\ UNCHANGED s2pInt /\ pc["server"] = "copy"
      BY <2>4 DEF ServerDone, s2pVars, TypeOK
    <3>2. QED BY <2>1, <3>1 DEF SizeInv
  <2>5. QED BY <1>1, <2>2, <2>3, <2>4 DEF ServerStep
<1>2. ASSUME ProxyStep PROVE SizeInv'
  <2>1. /\ pc'["server"] = pc["server"] /\ pc'["client"] = pc["client"]
        /\ UNCHANGED <<size, sLeft, download>>
    BY <1>2, ProxyMoves DEF serverVars, clientVars
  <2>2. CASE ProxyRecvSize
    <3>1. /\ pc'["proxy"] \in {"open", "dead"}
          /\ pLeft' = pSize' /\ sniffed' = sniffed
          /\ pc["proxy"] = "size" /\ s2pInt' = << >>
      BY <2>2, AfterWriteFacts DEF ProxyRecvSize
    <3>2. QED BY <2>1, <3>1 DEF SizeInv
  <2>3. ASSUME \/ ProxyOpen \/ ProxyRelay \/ ProxyWildWrite \/ ProxyGiveUp
               \/ ProxyClose
        PROVE  pc'["proxy"] \notin {"size", "open"} /\ UNCHANGED s2pInt
    <3>1. CASE ProxyRelay
      BY <3>1, AfterWriteFacts DEF ProxyRelay
    <3>2. CASE \/ ProxyOpen \/ ProxyWildWrite \/ ProxyGiveUp \/ ProxyClose
      BY <3>2 DEF ProxyOpen, ProxyWildWrite, ProxyGiveUp, ProxyClose, s2pVars, TypeOK
    <3>3. QED BY <2>3, <3>1, <3>2
  <2>4. QED BY <1>2, <2>1, <2>2, <2>3 DEF ProxyStep, SizeInv
<1>3. ASSUME ClientStep PROVE SizeInv'
  <2>1. /\ pc'["server"] = pc["server"] /\ pc'["proxy"] = pc["proxy"]
        /\ UNCHANGED <<size, sLeft, s2pInt, s2p, pSize, pLeft, forwarded, sniffed>>
    BY <1>3, ClientMoves DEF serverVars, s2pVars, proxyVars
  <2>2. pc'["client"] # "size"
    BY <1>3 DEF ClientStep, ClientRecvSize, ClientRead, ClientGiveUp, ClientDone,
       TypeOK
  <2>3. pc["proxy"] = "size" =>
          p2cInt' = << >> /\ p2c' = << >> /\ download' = << >>
    <3>1. CASE ClientRecvSize
      BY <3>1 DEF ClientRecvSize, SizeInv
    <3>2. CASE ClientRead
      <4>1. pc["proxy"] = "size" => ReadCount(ChunkLen(cLeft), p2c, "proxy") \ {0} = {}
        <5>1. p2c = << >> => Len(p2c) = 0
          OBVIOUS
        <5>2. ChunkLen(cLeft) \in Nat
          BY <3>2, LengthFacts DEF ClientRead, TypeOK
        <5>3. QED BY <5>1, <5>2 DEF SizeInv, ReadCount
      <4>2. QED BY <3>2, <4>1 DEF ClientRead
    <3>3. CASE ClientGiveUp \/ ClientDone
      BY <3>3 DEF ClientGiveUp, ClientDone, p2cVars, clientVars, SizeInv
    <3>4. QED BY <1>3, <3>1, <3>2, <3>3 DEF ClientStep
  <2>4. QED BY <2>1, <2>2, <2>3 DEF SizeInv
<1>4. ASSUME ToggleSave \/ (\E p \in Procs : Kill(p)) \/ UNCHANGED vars
      PROVE  SizeInv'
  <2>1. /\ \A p \in Procs : pc'[p] \in {pc[p], "dead"}
        /\ UNCHANGED <<size, sLeft, s2pInt, s2p, pSize, pLeft, forwarded, sniffed,
                       p2cInt, p2c, download>>
    BY <1>4, OtherMoves DEF serverVars, s2pVars, proxyVars, p2cVars, clientVars
  <2>2. QED BY <2>1 DEF SizeInv
<1>5. QED BY <1>1, <1>2, <1>3, <1>4 DEF Next, Finished

\* ServerStreamInv: the server appends the next block, the proxy takes bytes
\* from the front.
LEMMA ServerStreamStep ==
  ASSUME TypeOK, SizeInv, ServerStreamInv, CountInv, DiskInv, [Next]_vars
  PROVE  ServerStreamInv'
<1> USE DEF Procs, NatBytes
<1>1. ASSUME ServerStep PROVE ServerStreamInv'
  <2>1. pc'["proxy"] = pc["proxy"] /\ UNCHANGED <<size, pSize, pLeft>>
    BY <1>1, ServerMoves DEF proxyVars
  <2>2. CASE ServerSendSize \/ ServerDone
    BY <2>1, <2>2 DEF ServerSendSize, ServerDone, ServerStreamInv, serverVars,
       s2pVars, Gone, Taken
  <2>3. CASE ServerSendBlock
    <3> DEFINE n == ChunkLen(sLeft)
               block == Block(size - sLeft, n)
    <3>1. /\ n \in Nat /\ n <= sLeft /\ sLeft' = sLeft - n
          /\ size \in Nat /\ sLeft \in Nat /\ sLeft <= size
          /\ s2p' = Arrive(s2p, "proxy", block)
      BY <2>3, LengthFacts, SizesAssumption DEF ServerSendBlock, TypeOK,
         ServerStreamInv
    <3>2. /\ block \in Seq(Nat) /\ Len(block) = n
          /\ \A i \in 1..n : block[i] = size - sLeft + i
      <4>1. size - sLeft \in Nat
        BY <3>1
      <4>2. QED BY <3>1, <4>1, BlockFacts
    <3> HIDE DEF n, block
    <3>3. CASE Gone("proxy")
      <4>1. sLeft' <= size
        BY <3>1
      <4>2. QED BY <2>1, <3>3, <4>1 DEF ServerStreamInv, Gone
    <3>4. CASE ~Gone("proxy")
      <4>1. s2p' = s2p \o block /\ s2p \in Seq(Nat)
        BY <3>1, <3>4 DEF Arrive, TypeOK
      <4>2. /\ Taken + Len(s2p) = size - sLeft
            /\ \A i \in 1..Len(s2p) : s2p[i] = Taken + i
            /\ Taken \in Int /\ Taken' = Taken
        BY <2>1, <3>4 DEF ServerStreamInv, Taken, TypeOK
      <4>3. /\ Len(s2p') = Len(s2p) + n
            /\ \A i \in 1..Len(s2p) : s2p'[i] = Taken + i
            /\ \A i \in 1..n : s2p'[Len(s2p) + i] = Taken + Len(s2p) + i
        <5>1. /\ Len(s2p') = Len(s2p) + Len(block)
              /\ \A i \in 1..Len(s2p) : s2p'[i] = s2p[i]
              /\ \A i \in 1..Len(block) : s2p'[Len(s2p) + i] = block[i]
          BY <3>2, <4>1, ConcatFacts
        <5>2. QED BY <3>2, <4>2, <5>1
      <4>4. Len(s2p) \in Nat
        BY <4>1
      <4>5. \A i \in 1..Len(s2p') : s2p'[i] = Taken + i
        <5>1. TAKE i \in 1..Len(s2p')
        <5>2. CASE i <= Len(s2p)
          BY <4>3, <4>4, <5>2, <3>1
        <5>3. CASE i > Len(s2p)
          <6>1. i - Len(s2p) \in 1..n
            BY <3>1, <4>3, <4>4, <5>3
          <6>2. s2p'[Len(s2p) + (i - Len(s2p))] = Taken + Len(s2p) + (i - Len(s2p))
            BY <4>3, <6>1
          <6>3. QED BY <4>2, <4>4, <6>2
        <5>4. QED BY <3>1, <4>3, <4>4, <5>2, <5>3
      <4>6. sLeft' <= size /\ Taken' + Len(s2p') = size - sLeft'
        BY <3>1, <4>2, <4>3, <4>4
      <4>7. QED
        BY <2>1, <4>2, <4>5, <4>6 DEF ServerStreamInv
    <3>5. QED BY <3>3, <3>4
  <2>4. QED BY <1>1, <2>2, <2>3 DEF ServerStep
<1>2. ASSUME ProxyStep PROVE ServerStreamInv'
  <2>1. UNCHANGED <<size, sLeft>> /\ pc'["server"] = pc["server"]
    BY <1>2, ProxyMoves DEF serverVars
  <2>2. CASE ProxyRecvSize
    <3>1. /\ Taken' = 0 /\ Taken = 0 /\ s2p' = s2p /\ ~Gone("proxy")
      BY <2>2, <1>2, TypeStep DEF ProxyRecvSize, SizeInv, Taken, Gone, TypeOK
    <3>2. QED BY <2>1, <3>1 DEF ServerStreamInv
  <2>3. CASE ProxyRelay
    <3>1. PICK k \in Nat, n \in Nat : Relayed(k, n)
      BY <2>3, RelayFacts
    <3>2. ~Gone("proxy") /\ pSize' = pSize
      BY <2>3 DEF ProxyRelay, ProxyRead, Gone
    <3>3. /\ Len(s2p') = Len(s2p) - k
          /\ \A i \in 1..(Len(s2p) - k) : s2p'[i] = s2p[k + i]
          /\ Len(s2p) \in Nat /\ k <= Len(s2p)
      <4>1. s2p' = Rest(s2p, k) /\ k <= Len(s2p)
        BY <3>1 DEF Relayed
      <4>2. s2p \in Seq(Nat) /\ pLeft \in Nat
        BY DEF TypeOK
      <4>3. k \in 0..Len(s2p) /\ Len(s2p) \in Nat
        BY <4>1, <4>2
      <4>4. QED BY <4>1, <4>2, <4>3, SplitFacts
    <3>4. Taken \in Int /\ Taken' = Taken + k
      <4>1. pLeft' = pLeft - k
        BY <3>1 DEF Relayed
      <4>2. QED BY <3>2, <4>1 DEF Taken, TypeOK
    <3>5. \A i \in 1..(Len(s2p) - k) : s2p'[i] = Taken + k + i
      BY <3>1, <3>2, <3>3, <3>4 DEF ServerStreamInv
    <3>6. Taken' + Len(s2p') = size - sLeft
      BY <3>1, <3>2, <3>3, <3>4 DEF ServerStreamInv
    <3>7. \A i \in 1..Len(s2p') : s2p'[i] = Taken' + i
      BY <3>3, <3>4, <3>5
    <3>8. sLeft <= size
      BY DEF ServerStreamInv
    <3>9. QED BY <2>1, <3>6, <3>7, <3>8 DEF ServerStreamInv
  <2>4. CASE ProxyWildWrite
    BY <2>1, <2>4 DEF ProxyWildWrite, ServerStreamInv, Gone, TypeOK
  <2>5. CASE ProxyOpen \/ ProxyGiveUp \/ ProxyClose
    <3>1. UNCHANGED <<pSize, pLeft, s2p>> /\ ~Gone("proxy")
      BY <2>5 DEF ProxyOpen, ProxyGiveUp, ProxyClose, s2pVars, proxyVars, Gone
    <3>2. QED BY <2>1, <3>1 DEF ServerStreamInv, Taken
  <2>6. QED BY <1>2, <2>2, <2>3, <2>4, <2>5 DEF ProxyStep
<1>3. ASSUME ClientStep \/ ToggleSave \/ (\E p \in Procs : Kill(p)) \/ UNCHANGED vars
      PROVE  ServerStreamInv'
  <2>1. /\ pc'["proxy"] \in {pc["proxy"], "dead"}
        /\ UNCHANGED <<size, sLeft, s2p, pSize, pLeft>>
    BY <1>3, ClientMoves, OtherMoves DEF serverVars, s2pVars, proxyVars
  <2>2. QED BY <2>1 DEF ServerStreamInv, Taken, Gone
<1>4. QED BY <1>1, <1>2, <1>3 DEF Next, Finished

\* CountInv: the proxy never forwards less than it takes.
LEMMA CountStep ==
  ASSUME TypeOK, SizeInv, ServerStreamInv, CountInv, DiskInv, [Next]_vars
  PROVE  CountInv'
<1>1. ASSUME UNCHANGED <<size, pSize, pLeft, forwarded>> PROVE CountInv'
  BY <1>1 DEF CountInv, Taken
<1>2. CASE ServerStep
  BY <1>1, <1>2, ServerMoves DEF proxyVars
<1>3. CASE ProxyStep
  <2>1. size' = size /\ size \in Nat
    BY <1>3, ProxyMoves, SizesAssumption DEF serverVars, TypeOK
  <2>2. CASE ProxyRecvSize
    <3>1. pSize' \in {0, size}
      BY <2>2 DEF ProxyRecvSize, SizeInv
    <3>2. pLeft' = pSize' /\ forwarded' = 0
      BY <2>2 DEF ProxyRecvSize, SizeInv
    <3>3. pSize' \in Nat /\ pLeft' \in Nat /\ pSize' <= size
      BY <2>1, <3>1, <3>2
    <3>4. Taken' = 0
      <4>1. ASSUME NEW x \in Nat, pSize' = x PROVE pSize' - pLeft' = 0
        BY <3>2, <4>1
      <4>2. QED BY <3>3, <4>1 DEF Taken
    <3>5. QED BY <2>1, <3>2, <3>3, <3>4 DEF CountInv
  <2>3. CASE ProxyRelay
    <3>1. PICK k \in Nat, n \in Nat : Relayed(k, n)
      BY <2>3, RelayFacts
    <3>2. k <= n /\ pLeft' = pLeft - k /\ forwarded' = forwarded + n
      BY <3>1 DEF Relayed
    <3>3. pSize' = pSize
      BY <2>3 DEF ProxyRelay
    <3>4. pLeft \in Nat /\ pSize \in Nat /\ forwarded \in Nat
      BY DEF TypeOK
    <3>5. QED BY <2>1, <3>1, <3>2, <3>3, <3>4, BufAssumption DEF CountInv, Taken
  <2>4. CASE ProxyOpen \/ ProxyWildWrite \/ ProxyGiveUp \/ ProxyClose
    BY <1>1, <2>1, <2>4 DEF ProxyOpen, ProxyWildWrite, ProxyGiveUp, ProxyClose,
       proxyVars
  <2>5. QED BY <1>3, <2>2, <2>3, <2>4 DEF ProxyStep
<1>4. CASE ClientStep
  BY <1>1, <1>4, ClientMoves DEF serverVars, proxyVars
<1>5. CASE ToggleSave \/ (\E p \in Procs : Kill(p)) \/ UNCHANGED vars
  BY <1>1, <1>5, OtherMoves DEF serverVars, proxyVars
<1>6. QED BY <1>2, <1>3, <1>4, <1>5 DEF Next, Finished

\* ClientStreamInv: what the proxy appends continues what the client has.
LEMMA ClientStreamStep ==
  ASSUME TypeOK, SizeInv, ServerStreamInv, CountInv, ClientStreamInv, DiskInv,
         [Next]_vars
  PROVE  ClientStreamInv'
<1> USE DEF Procs, NatBytes
<1>1. ASSUME UNCHANGED <<pSize, pLeft, forwarded, p2c, download>>,
             pc'["client"] \in {pc["client"], "dead"}
      PROVE  ClientStreamInv'
  BY <1>1 DEF ClientStreamInv, Taken, Gone
<1>2. CASE ServerStep
  BY <1>1, <1>2, ServerMoves DEF proxyVars, p2cVars, clientVars
<1>3. CASE ProxyStep
  <2>1. pc'["client"] = pc["client"] /\ download' = download
    BY <1>3, ProxyMoves DEF clientVars
  <2>2. CASE ProxyRecvSize
    <3>1. /\ forwarded' = 0 /\ Taken' = 0 /\ forwarded = 0 /\ Taken = 0
          /\ p2c' = p2c
      BY <2>2, TypeStep DEF ProxyRecvSize, SizeInv, Taken, TypeOK
    <3>2. QED BY <2>1, <3>1 DEF ClientStreamInv, Gone
  <2>3. CASE ProxyRelay
    <3>1. PICK k \in Nat, n \in Nat : Relayed(k, n)
      BY <2>3, RelayFacts
    <3> DEFINE data == SubSeq(buf', 1, n)
    <3>2. /\ k <= n /\ forwarded' = forwarded + n
          /\ k <= Len(s2p)
          /\ p2c' = Arrive(p2c, "client", data)
          /\ pLeft' = pLeft - k
          /\ \A i \in 1..k : buf'[i] = s2p[i]
      BY <3>1 DEF Relayed
    <3>3. /\ data \in Seq(Nat) /\ Len(data) = n
          /\ \A i \in 1..n : data[i] = buf'[i]
      <4>1. buf' \in [1..BUF_SIZE -> Nat]
        BY <3>1 DEF Relayed
      <4>2. n \in 0..BUF_SIZE
        BY <3>1, BufAssumption DEF Relayed
      <4>3. QED BY <4>1, <4>2, BufferFacts
    <3>4. /\ Taken \in Int /\ Taken' = Taken + k
          /\ forwarded \in Nat /\ Taken <= forwarded
          /\ k \in Nat /\ n \in Nat
      <4>1. pSize' = pSize
        BY <2>3 DEF ProxyRelay
      <4>2. QED BY <3>1, <3>2, <4>1, BufAssumption DEF Taken, TypeOK, CountInv
    <3> HIDE DEF data
    <3>5. /\ p2c \in Seq(Nat) /\ download \in Seq(Nat)
          /\ Len(p2c) \in Nat /\ Len(download) \in Nat
      BY DEF TypeOK
    <3>6. /\ Len(download) + Len(p2c) <= forwarded
          /\ ~Gone("client") => Len(download) + Len(p2c) = forwarded
          /\ forwarded = Taken =>
               /\ \A i \in 1..Len(download) : download[i] = i
               /\ \A i \in 1..Len(p2c) : p2c[i] = Len(download) + i
      BY DEF ClientStreamInv
    <3>7. /\ Gone("client") => p2c' = p2c
          /\ ~Gone("client") => p2c' = p2c \o data
      BY <3>2 DEF Arrive
    <3>8. /\ Len(p2c \o data) = Len(p2c) + n
          /\ \A i \in 1..Len(p2c) : (p2c \o data)[i] = p2c[i]
          /\ \A i \in 1..n : (p2c \o data)[Len(p2c) + i] = data[i]
      BY <3>3, <3>5, ConcatFacts
    <3>9. /\ Len(download) + Len(p2c') <= forwarded'
          /\ ~Gone("client") => Len(download) + Len(p2c') = forwarded'
      <4>1. CASE Gone("client")
        BY <3>2, <3>4, <3>5, <3>6, <3>7, <4>1
      <4>2. CASE ~Gone("client")
        <5>1. Len(p2c') = Len(p2c) + n
          BY <3>7, <3>8, <4>2
        <5>2. QED BY <3>2, <3>4, <3>5, <3>6, <4>2, <5>1
      <4>3. QED BY <4>1, <4>2
    <3>10. ASSUME forwarded' = Taken'
           PROVE  /\ \A i \in 1..Len(download) : download[i] = i
                  /\ \A i \in 1..Len(p2c') : p2c'[i] = Len(download) + i
      <4>1. forwarded = Taken /\ n = k
        BY <3>2, <3>4, <3>10
      <4>2. CASE Gone("client")
        BY <3>6, <3>7, <4>1, <4>2
      <4>3. CASE ~Gone("client")
        <5>1. \A i \in 1..n : data[i] = Taken + i
          <6>1. ~Gone("proxy")
            BY <2>3 DEF ProxyRelay, ProxyRead, Gone
          <6>2. \A i \in 1..Len(s2p) : s2p[i] = Taken + i
            BY <6>1 DEF ServerStreamInv
          <6>3. s2p \in Seq(Nat)
            BY DEF TypeOK
          <6>4. Len(s2p) \in Nat
            BY <6>3
          <6>5. TAKE i \in 1..n
          <6>6. i \in 1..k /\ i \in 1..Len(s2p)
            BY <3>2, <3>4, <4>1, <6>4
          <6>7. QED BY <3>2, <3>3, <6>2, <6>6
        <5>2. ASSUME NEW i \in 1..Len(p2c')
              PROVE  p2c'[i] = Len(download) + i
          <6>1. i \in 1..(Len(p2c) + n) /\ p2c' = p2c \o data
            BY <3>7, <3>8, <4>3
          <6>2. CASE i <= Len(p2c)
            BY <3>4, <3>5, <3>6, <3>8, <4>1, <6>1, <6>2
          <6>3. CASE i > Len(p2c)
            <7>1. i - Len(p2c) \in 1..n
              BY <3>4, <3>5, <6>1, <6>3
            <7>2. (p2c \o data)[Len(p2c) + (i - Len(p2c))]
                    = Taken + (i - Len(p2c))
              BY <3>8, <5>1, <7>1
            <7>3. Len(p2c) + (i - Len(p2c)) = i
              BY <3>5, <6>1
            <7>4. Taken = Len(download) + Len(p2c)
              BY <3>6, <4>1, <4>3
            <7>5. QED BY <3>4, <3>5, <6>1, <7>2, <7>3, <7>4
          <6>4. QED BY <3>4, <3>5, <6>1, <6>2, <6>3
        <5>3. QED BY <3>6, <4>1, <5>2
      <4>4. QED BY <4>2, <4>3
    <3>11. QED BY <2>1, <3>9, <3>10 DEF ClientStreamInv, Gone
  <2>4. CASE ProxyOpen \/ ProxyWildWrite \/ ProxyGiveUp \/ ProxyClose
    BY <1>1, <2>1, <2>4 DEF ProxyOpen, ProxyWildWrite, ProxyGiveUp, ProxyClose,
       proxyVars, p2cVars
  <2>5. QED BY <1>3, <2>2, <2>3, <2>4 DEF ProxyStep
<1>4. CASE ClientStep
  <2>1. UNCHANGED <<pSize, pLeft, forwarded>>
    BY <1>4, ClientMoves DEF proxyVars
  <2>2. CASE ClientRecvSize
    <3>1. /\ download = << >> /\ download' = << >> /\ p2c' = p2c
          /\ ~Gone("client")
      BY <2>2 DEF ClientRecvSize, SizeInv, Gone
    <3>2. QED BY <2>1, <3>1 DEF ClientStreamInv, Taken
  <2>3. CASE ClientRead
    <3>1. PICK k \in ReadCount(ChunkLen(cLeft), p2c, "proxy") :
            /\ download' = download \o SubSeq(p2c, 1, k)
            /\ p2c' = Rest(p2c, k)
      BY <2>3 DEF ClientRead
    <3> DEFINE data == SubSeq(p2c, 1, k)
    <3>2. /\ p2c \in Seq(Nat) /\ download \in Seq(Nat)
          /\ Len(p2c) \in Nat /\ Len(download) \in Nat
      BY DEF TypeOK
    <3>3. k \in 0..Len(p2c)
      <4>1. ChunkLen(cLeft) \in Nat
        BY <2>3, LengthFacts DEF ClientRead, TypeOK
      <4>2. QED BY <3>1, <3>2, <4>1, ReadFacts
    <3>4. /\ data \in Seq(Nat) /\ Len(data) = k
          /\ \A i \in 1..k : data[i] = p2c[i]
          /\ Len(p2c') = Len(p2c) - k
          /\ \A i \in 1..(Len(p2c) - k) : p2c'[i] = p2c[k + i]
      BY <3>1, <3>2, <3>3, SplitFacts
    <3>5. download' = download \o data /\ ~Gone("client")
      BY <2>3, <3>1 DEF ClientRead, Gone
    <3> HIDE DEF data
    <3>6. /\ Len(download') = Len(download) + k
          /\ \A i \in 1..Len(download) : download'[i] = download[i]
          /\ \A i \in 1..k : download'[Len(download) + i] = data[i]
      BY <3>2, <3>4, <3>5, ConcatFacts
    <3>7. /\ Len(download) + Len(p2c) = forwarded
          /\ forwarded = Taken =>
               /\ \A i \in 1..Len(download) : download[i] = i
               /\ \A i \in 1..Len(p2c) : p2c[i] = Len(download) + i
      BY <3>5 DEF ClientStreamInv
    <3>8. Len(download') + Len(p2c') = forwarded /\ forwarded \in Nat
      BY <3>2, <3>3, <3>4, <3>6, <3>7
    <3>9. ASSUME forwarded = Taken, NEW i \in 1..Len(download')
          PROVE  download'[i] = i
      <4>1. CASE i <= Len(download)
        BY <3>2, <3>6, <3>7, <3>9, <4>1
      <4>2. CASE i > Len(download)
        <5>1. i - Len(download) \in 1..k
          BY <3>2, <3>3, <3>6, <4>2
        <5>2. download'[Len(download) + (i - Len(download))]
                = Len(download) + (i - Len(download))
          <6>1. i - Len(download) \in 1..Len(p2c)
            BY <3>2, <3>3, <5>1
          <6>2. p2c[i - Len(download)] = Len(download) + (i - Len(download))
            BY <3>7, <3>9, <6>1
          <6>3. QED BY <3>4, <3>6, <5>1, <6>2
        <5>3. QED BY <3>2, <5>2
      <4>3. QED BY <3>2, <4>1, <4>2
    <3>10. ASSUME forwarded = Taken, NEW i \in 1..Len(p2c')
           PROVE  p2c'[i] = Len(download') + i
      <4>1. k + i \in 1..Len(p2c) /\ i \in 1..(Len(p2c) - k)
        BY <3>2, <3>3, <3>4
      <4>2. p2c'[i] = Len(download) + (k + i)
        BY <3>4, <3>7, <3>10, <4>1
      <4>3. QED BY <3>2, <3>3, <3>6, <4>1, <4>2
    <3>11. QED
      BY <2>1, <3>8, <3>9, <3>10 DEF ClientStreamInv, Taken
  <2>4. CASE ClientGiveUp \/ ClientDone
    BY <2>1, <2>4 DEF ClientGiveUp, ClientDone, ClientStreamInv, p2cVars,
       clientVars, Taken, Gone
  <2>5. QED BY <1>4, <2>2, <2>3, <2>4 DEF ClientStep
<1>5. CASE ToggleSave \/ (\E p \in Procs : Kill(p)) \/ UNCHANGED vars
  BY <1>1, <1>5, OtherMoves DEF proxyVars, p2cVars, clientVars
<1>6. QED BY <1>2, <1>3, <1>4, <1>5 DEF Next, Finished

\* SniffedInv: SAVE untouched, each iteration stores what it took.  And
\* StoredInOrder, whatever SAVE does in between.
LEMMA SniffedStep ==
  ASSUME TypeOK, SizeInv, ServerStreamInv, CountInv, StoredInOrder, SniffedInv,
         DiskInv, [Next]_vars
  PROVE  StoredInOrder' /\ SniffedInv'
<1> USE DEF Procs, NatBytes
<1>1. ASSUME UNCHANGED <<pSize, pLeft, sniffed, ptr>>,
             pc'["proxy"] \in {pc["proxy"], "dead"},
             toggles' = 0 => UNCHANGED <<save, toggles>>
      PROVE  StoredInOrder' /\ SniffedInv'
  BY <1>1 DEF StoredInOrder, SniffedInv, Taken
<1>2. CASE ServerStep
  BY <1>1, <1>2, ServerMoves DEF proxyVars, saveVars
<1>3. CASE ClientStep
  BY <1>1, <1>3, ClientMoves DEF proxyVars, saveVars
<1>4. CASE ToggleSave \/ (\E p \in Procs : Kill(p)) \/ UNCHANGED vars
  BY <1>1, <1>4, OtherMoves DEF proxyVars, saveVars
<1>5. CASE ProxyStep
  <2>1. UNCHANGED <<save, toggles>>
    BY <1>5, ProxyMoves DEF saveVars
  <2>2. CASE ProxyRecvSize
    <3>1. /\ sniffed' = << >> /\ sniffed = << >> /\ ptr' = ptr
          /\ pc'["proxy"] \in {"open", "dead"}
      BY <2>2, AfterWriteFacts DEF ProxyRecvSize, SizeInv
    <3>2. Taken' = 0 /\ Taken = 0
      BY <2>2, TypeStep DEF ProxyRecvSize, SizeInv, Taken, TypeOK
    <3>3. QED BY <2>1, <3>1, <3>2 DEF StoredInOrder, SniffedInv
  <2>3. CASE ProxyOpen
    <3>1. /\ sniffed = << >> /\ sniffed' = << >> /\ UNCHANGED <<pSize, pLeft>>
          /\ save = 1 => ptr' = "open"
      BY <2>3 DEF ProxyOpen, SizeInv
    <3>2. QED BY <2>1, <3>1 DEF StoredInOrder, SniffedInv, Taken
  <2>4. CASE ProxyRelay
    <3>1. PICK k \in Nat, n \in Nat : Relayed(k, n)
      BY <2>4, RelayFacts
    <3> DEFINE data == SubSeq(s2p, 1, k)
               stored == sniffed \o data
    <3>2. /\ k <= Len(s2p) /\ pLeft' = pLeft - k
          /\ sniffed' = IF save = 1 /\ ptr = "open" THEN stored ELSE sniffed
      BY <3>1 DEF Relayed
    <3>3. /\ ptr' = ptr /\ pc["proxy"] = "copy" /\ ~Gone("proxy")
          /\ pSize' = pSize
      BY <2>4 DEF ProxyRelay, ProxyRead, Gone
    <3>4. /\ sniffed \in Seq(Nat) /\ s2p \in Seq(Nat)
          /\ Len(sniffed) \in Nat /\ Len(s2p) \in Nat
          /\ \A i \in 1..Len(sniffed) : sniffed[i] \in Nat
      BY DEF TypeOK
    <3>5. /\ Taken \in Nat /\ Taken' = Taken + k /\ k \in Nat /\ k >= 1
      <4>1. k >= 1
        BY <3>1 DEF Relayed
      <4>2. pSize \in Nat /\ pLeft \in Nat /\ pLeft <= pSize
        BY DEF TypeOK, CountInv
      <4>3. Taken \in Nat /\ Taken' = Taken + k
        BY <3>2, <3>3, <4>2 DEF Taken
      <4>4. QED BY <4>1, <4>3
    <3>6. /\ data \in Seq(Nat) /\ Len(data) = k
          /\ \A i \in 1..k : data[i] = Taken + i
      <4>1. k \in 0..Len(s2p)
        BY <3>2, <3>4, <3>5
      <4>2. \A i \in 1..Len(s2p) : s2p[i] = Taken + i
        BY <3>3 DEF ServerStreamInv
      <4>3. \A i \in 1..k : i \in 1..Len(s2p)
        BY <4>1, <3>4
      <4>4. /\ data \in Seq(Nat) /\ Len(data) = k
            /\ \A i \in 1..k : data[i] = s2p[i]
        BY <3>4, <4>1, SplitFacts
      <4>5. QED BY <4>2, <4>3, <4>4
    <3> HIDE DEF data
    <3>7. /\ Len(stored) = Len(sniffed) + k
          /\ stored \in Seq(Nat)
          /\ \A i \in 1..Len(sniffed) : stored[i] = sniffed[i]
          /\ \A i \in 1..k : stored[Len(sniffed) + i] = Taken + i
      BY <3>4, <3>6, ConcatFacts
    <3> HIDE DEF stored
    <3>8. /\ \A i \in 1..Len(sniffed) : sniffed[i] \in 1..Taken
          /\ \A i, j \in 1..Len(sniffed) : i < j => sniffed[i] < sniffed[j]
      <4>1. DOMAIN sniffed = 1..Len(sniffed)
        BY <3>4
      <4>2. QED BY <4>1 DEF StoredInOrder
    <3>9. ASSUME NEW i \in 1..(Len(sniffed) + k)
          PROVE  \/ i \in 1..Len(sniffed) /\ stored[i] = sniffed[i]
                 \/ /\ i - Len(sniffed) \in 1..k
                    /\ stored[i] = Taken + (i - Len(sniffed))
      <4>1. CASE i <= Len(sniffed)
        BY <3>4, <3>7, <4>1
      <4>2. CASE i > Len(sniffed)
        <5>1. i - Len(sniffed) \in 1..k
          BY <3>4, <3>5, <4>2
        <5>2. stored[Len(sniffed) + (i - Len(sniffed))]
                = Taken + (i - Len(sniffed))
          BY <3>7, <5>1
        <5>3. Len(sniffed) + (i - Len(sniffed)) = i
          BY <3>4
        <5>4. QED BY <5>1, <5>2, <5>3
      <4>3. QED BY <3>4, <3>5, <4>1, <4>2
    <3>10. StoredInOrder'
      <4>1. CASE sniffed' = stored
        <5>1. DOMAIN stored = 1..(Len(sniffed) + k)
          BY <3>7
        <5>2. \A i \in 1..(Len(sniffed) + k) :
                stored[i] \in 1..(Taken + k)
          <6>1. TAKE i \in 1..(Len(sniffed) + k)
          <6>2. CASE i \in 1..Len(sniffed)
            <7>1. stored[i] \in 1..Taken
              BY <3>7, <3>8, <6>2
            <7>2. QED BY <3>5, <7>1
          <6>3. CASE i \notin 1..Len(sniffed)
            <7>1. /\ i - Len(sniffed) \in 1..k
                  /\ stored[i] = Taken + (i - Len(sniffed))
              BY <3>9, <6>3
            <7>2. QED BY <3>4, <3>5, <7>1
          <6>4. QED BY <6>2, <6>3
        <5>3. ASSUME NEW i \in 1..(Len(sniffed) + k),
                     NEW j \in 1..(Len(sniffed) + k), i < j
              PROVE  stored[i] < stored[j]
          <6>1. CASE j \in 1..Len(sniffed)
            <7>1. i \in 1..Len(sniffed)
              BY <3>4, <5>3, <6>1
            <7>2. QED BY <3>7, <3>8, <5>3, <6>1, <7>1
          <6>2. CASE j \notin 1..Len(sniffed)
            <7>1. /\ j - Len(sniffed) \in 1..k
                  /\ stored[j] = Taken + (j - Len(sniffed))
              BY <3>9, <6>2
            <7>2. CASE i \in 1..Len(sniffed)
              <8>1. stored[i] \in 1..Taken
                BY <3>7, <3>8, <7>2
              <8>2. j - Len(sniffed) \in Nat /\ j - Len(sniffed) >= 1
                BY <7>1
              <8>3. QED BY <3>5, <7>1, <8>1, <8>2
            <7>3. CASE i \notin 1..Len(sniffed)
              <8>1. stored[i] = Taken + (i - Len(sniffed))
                BY <3>9, <7>3
              <8>2. QED BY <3>4, <3>5, <5>3, <7>1, <8>1
            <7>4. QED BY <7>2, <7>3
          <6>3. QED BY <6>1, <6>2
        <5>4. QED BY <3>5, <4>1, <5>1, <5>2, <5>3 DEF StoredInOrder
      <4>2. CASE sniffed' = sniffed
        <5>1. DOMAIN sniffed = 1..Len(sniffed)
          BY <3>4
        <5>2. \A i \in 1..Len(sniffed) : sniffed[i] \in 1..(Taken + k)
          BY <3>5, <3>8
        <5>3. QED BY <3>5, <3>8, <4>2, <5>1, <5>2 DEF StoredInOrder
      <4>3. QED BY <3>2, <4>1, <4>2
    <3>11. SniffedInv'
      <4>1. ASSUME toggles = 0
            PROVE  /\ sniffed' = stored /\ save = 1 /\ ptr = "open"
                   /\ Len(sniffed) = Taken
                   /\ \A i \in 1..Len(sniffed) : sniffed[i] = i
        BY <3>2, <3>3, <4>1 DEF SniffedInv
      <4>2. ASSUME toggles = 0
            PROVE  /\ Len(sniffed') = Taken'
                   /\ \A i \in 1..Len(sniffed') : sniffed'[i] = i
        <5>1. Len(stored) = Taken + k
          BY <3>7, <4>1, <4>2
        <5>2. \A i \in 1..(Len(sniffed) + k) : stored[i] = i
          <6>1. TAKE i \in 1..(Len(sniffed) + k)
          <6>2. CASE i \in 1..Len(sniffed)
            BY <3>7, <4>1, <4>2, <6>2
          <6>3. CASE i \notin 1..Len(sniffed)
            <7>1. stored[i] = Len(sniffed) + (i - Len(sniffed))
              BY <3>9, <4>1, <4>2, <6>3
            <7>2. QED BY <3>4, <3>5, <7>1
          <6>4. QED BY <6>2, <6>3
        <5>3. QED BY <3>5, <3>7, <4>1, <4>2, <5>1, <5>2
      <4>3. QED BY <2>1, <3>3, <4>1, <4>2 DEF SniffedInv
    <3>12. QED BY <3>10, <3>11
  <2>5. CASE ProxyWildWrite \/ ProxyGiveUp \/ ProxyClose
    <3>1. /\ UNCHANGED <<pSize, pLeft, sniffed, ptr>>
          /\ pc["proxy"] \in {"copy", "close"}
      BY <2>5 DEF ProxyWildWrite, ProxyGiveUp, ProxyClose, ProxyRead, proxyVars
    <3>2. QED BY <2>1, <3>1 DEF StoredInOrder, SniffedInv, Taken
  <2>6. QED BY <1>5, <2>2, <2>3, <2>4, <2>5 DEF ProxyStep
<1>6. QED BY <1>2, <1>3, <1>4, <1>5 DEF Next, Finished

\* DiskInv: fwrite flushes what it has no room for, fclose all of it.
LEMMA DiskStep ==
  ASSUME TypeOK, SizeInv, DiskInv, [Next]_vars
  PROVE  DiskInv'
<1> USE DEF Procs
<1>1. ASSUME UNCHANGED <<sniffed, onDisk, ptr>>,
             pc'["proxy"] = "done" => pc["proxy"] = "done"
      PROVE  DiskInv'
  BY <1>1 DEF DiskInv
<1>2. CASE ServerStep
  BY <1>1, <1>2, ServerMoves DEF proxyVars
<1>3. CASE ClientStep
  BY <1>1, <1>3, ClientMoves DEF proxyVars
<1>4. CASE ToggleSave \/ (\E p \in Procs : Kill(p)) \/ UNCHANGED vars
  BY <1>1, <1>4, OtherMoves DEF proxyVars
<1>5. CASE ProxyStep
  <2>1. CASE ProxyRecvSize
    BY <1>1, <2>1, AfterWriteFacts DEF ProxyRecvSize
  <2>2. CASE ProxyOpen
    <3>1. /\ pc'["proxy"] = "copy"
          /\ \/ sniffed' = << >> /\ onDisk' = 0
             \/ UNCHANGED <<sniffed, onDisk>>
      BY <2>2 DEF ProxyOpen, TypeOK
    <3>2. Len(<< >>) = 0 OBVIOUS
    <3>3. QED BY <3>1, <3>2, StdioAssumption DEF DiskInv
  <2>3. CASE ProxyRelay
    <3>1. PICK k \in Nat, n \in Nat : Relayed(k, n)
      BY <2>3, RelayFacts
    <3>2. pc'["proxy"] # "done"
      BY <2>3, AfterWriteFacts DEF ProxyRelay
    <3>3. QED BY <3>1, <3>2 DEF Relayed, DiskInv
  <2>4. CASE ProxyWildWrite \/ ProxyGiveUp
    BY <1>1, <2>4 DEF ProxyWildWrite, ProxyGiveUp, proxyVars, TypeOK
  <2>5. CASE ProxyClose
    <3>1. /\ UNCHANGED <<sniffed, ptr>>
          /\ IF ptr = "open" THEN onDisk' = Len(sniffed) ELSE UNCHANGED onDisk
      BY <2>5 DEF ProxyClose
    <3>2. Len(sniffed) \in Nat
      BY DEF TypeOK, NatBytes
    <3>3. QED BY <3>1, <3>2, StdioAssumption DEF DiskInv
  <2>6. QED BY <1>5, <2>1, <2>2, <2>3, <2>4, <2>5 DEF ProxyStep
<1>6. QED BY <1>2, <1>3, <1>4, <1>5 DEF Next, Finished

-----------------------------------------------------------------------------
(* The theorems.                                                           *)

\* The invariant holds at first and every step preserves it.
LEMMA Inductive == Spec => []IInv
<1>1. Init => IInv
  <2> SUFFICES ASSUME Init PROVE IInv
    OBVIOUS
  <2>1. /\ size \in Nat /\ size \in Sizes
        /\ pc = [p \in Procs |-> "size"]
        /\ sLeft = size /\ pSize = 0 /\ pLeft = 0 /\ forwarded = 0 /\ cLeft = 0
        /\ save = 1 /\ toggles = 0 /\ ptr = "wild" /\ onDisk = 0
    BY SizesAssumption DEF Init
  <2>2. /\ s2pInt = << >> /\ s2p = << >> /\ sniffed = << >> /\ p2cInt = << >>
        /\ p2c = << >> /\ download = << >>
        /\ buf \in [1..BUF_SIZE -> Nat]
    BY DEF Init
  <2>3. << >> \in Seq(Nat) /\ Len(<< >>) = 0 /\ DOMAIN << >> = {}
    OBVIOUS
  <2>4. Taken = 0
    BY <2>1 DEF Taken
  <2>5. TypeOK
    <3>1. /\ s2pInt \in Seq(Nat) /\ s2p \in Seq(Nat) /\ sniffed \in Seq(Nat)
          /\ p2cInt \in Seq(Nat) /\ p2c \in Seq(Nat) /\ download \in Seq(Nat)
          /\ Len(s2pInt) <= 1 /\ Len(p2cInt) <= 1
      BY <2>2, <2>3
    <3>2. QED BY <2>1, <2>2, <3>1 DEF TypeOK, NatBytes, Procs
  <2>6. SizeInv /\ ServerStreamInv
    BY <2>1, <2>2, <2>3, <2>4 DEF SizeInv, ServerStreamInv, Procs
  <2>7. CountInv /\ ClientStreamInv
    BY <2>1, <2>2, <2>3, <2>4 DEF CountInv, ClientStreamInv
  <2>8. StoredInOrder /\ SniffedInv /\ DiskInv
    BY <2>1, <2>2, <2>3, <2>4, StdioAssumption
    DEF StoredInOrder, SniffedInv, DiskInv, Procs
  <2>9. QED BY <2>5, <2>6, <2>7, <2>8 DEF IInv
<1>2. IInv /\ [Next]_vars => IInv'
  BY TypeStep, SizeStep, ServerStreamStep, CountStep, ClientStreamStep, SniffedStep,
     DiskStep
  DEF IInv
<1>3. QED BY <1>1, <1>2, PTL DEF Spec

\* The variables keep their types, and no stream ever holds two sizes.
THEOREM TypeCorrect == Spec => []TypeOK
<1>1. IInv => TypeOK
  BY DEF IInv
<1>2. QED BY <1>1, Inductive, PTL

\* For every block size and file: until a short read pads the stream, the
\* file in Downloads is a prefix of the server's file.
THEOREM DownloadIsFaithful == Spec => []DownloadFaithful
<1>1. IInv => DownloadFaithful
  <2> SUFFICES ASSUME IInv, forwarded = Taken
               PROVE  download = SubSeq(File, 1, Len(download))
    BY DEF DownloadFaithful
  <2>1. /\ download \in Seq(Nat) /\ Len(download) \in Nat
        /\ Len(p2c) \in Nat /\ size \in Nat
    BY SizesAssumption DEF IInv, TypeOK, NatBytes
  <2>2. /\ \A i \in 1..Len(download) : download[i] = i
        /\ Len(download) + Len(p2c) <= forwarded
    BY DEF IInv, ClientStreamInv
  <2>3. Taken <= size
    BY <2>1 DEF IInv, CountInv, TypeOK, Taken
  <2>4. Len(download) <= size
    BY <2>1, <2>2, <2>3 DEF IInv, TypeOK
  <2>5. QED BY <2>1, <2>2, <2>4, PrefixFacts
<1>2. QED BY <1>1, Inductive, PTL

\* What is on disk is a first part of what fwrite was given.
LEMMA TempFacts ==
  ASSUME IInv
  PROVE  /\ sniffed \in Seq(Nat) /\ Len(sniffed) \in Nat /\ onDisk \in Nat
         /\ onDisk <= Len(sniffed)
         /\ Temp \in Seq(Nat) /\ Len(Temp) = onDisk /\ DOMAIN Temp = 1..onDisk
         /\ \A i \in 1..onDisk : Temp[i] = sniffed[i]
<1>1. /\ sniffed \in Seq(Nat) /\ Len(sniffed) \in Nat /\ onDisk \in Nat
      /\ onDisk <= Len(sniffed)
  BY DEF IInv, TypeOK, NatBytes, DiskInv
<1>2. onDisk \in 0..Len(sniffed)
  BY <1>1
<1>3. /\ Temp \in Seq(Nat) /\ Len(Temp) = onDisk
      /\ \A i \in 1..onDisk : Temp[i] = sniffed[i]
  BY <1>1, <1>2, SplitFacts DEF Temp
<1>4. DOMAIN Temp = 1..onDisk
  BY <1>3
<1>5. QED BY <1>1, <1>3, <1>4

\* For every block size, buffer and file: Sniffed/temp never holds a byte that
\* was not taken from the server, a byte twice or two bytes out of order.
THEOREM SniffedIsInOrder == Spec => []SniffedInOrder
<1>1. IInv => SniffedInOrder
  <2> SUFFICES ASSUME IInv PROVE SniffedInOrder
    OBVIOUS
  <2>1. /\ onDisk \in Nat /\ Len(sniffed) \in Nat /\ onDisk <= Len(sniffed)
        /\ sniffed \in Seq(Nat) /\ DOMAIN Temp = 1..onDisk
        /\ \A i \in 1..onDisk : Temp[i] = sniffed[i]
    BY TempFacts
  <2>2. DOMAIN sniffed = 1..Len(sniffed)
    BY <2>1
  <2>3. \A i \in 1..onDisk : i \in 1..Len(sniffed)
    BY <2>1
  <2>4. /\ \A i \in 1..Len(sniffed) : sniffed[i] \in 1..Taken
        /\ \A i, j \in 1..Len(sniffed) : i < j => sniffed[i] < sniffed[j]
    BY <2>2 DEF IInv, StoredInOrder
  <2>5. /\ \A i \in 1..onDisk : Temp[i] \in 1..Taken
        /\ \A i, j \in 1..onDisk : i < j => Temp[i] < Temp[j]
    BY <2>1, <2>3, <2>4
  <2>6. QED BY <2>1, <2>5 DEF SniffedInOrder
<1>2. QED BY <1>1, Inductive, PTL

\* For every block size, buffer and file: with SAVE untouched, Sniffed/temp is a
\* prefix of the file that lacks at most one stdio buffer of what the proxy took,
\* whatever the reads returned and whoever died, and nothing once it is closed.
THEOREM SniffedIsWhole == Spec => []SniffedWhole
<1>1. IInv => SniffedWhole
  <2> SUFFICES ASSUME IInv, toggles = 0
               PROVE  /\ Temp = SubSeq(File, 1, Len(Temp))
                      /\ Taken - Len(Temp) <= STDIO
                      /\ pc["proxy"] = "done" => Len(Temp) = Taken
    BY DEF SniffedWhole
  <2>1. /\ onDisk \in Nat /\ Len(sniffed) \in Nat /\ onDisk <= Len(sniffed)
        /\ Temp \in Seq(Nat) /\ Len(Temp) = onDisk
        /\ \A i \in 1..onDisk : Temp[i] = sniffed[i]
    BY TempFacts
  <2>2. /\ Len(sniffed) = Taken /\ \A i \in 1..Len(sniffed) : sniffed[i] = i
        /\ pc["proxy"] = "done" => ptr = "open"
    BY DEF IInv, SniffedInv
  <2>3. size \in Nat /\ Taken <= size /\ STDIO \in Nat
    BY SizesAssumption, StdioAssumption DEF IInv, TypeOK, CountInv, Taken
  <2>4. Temp = SubSeq(File, 1, Len(Temp))
    <3>1. Len(Temp) <= size
      BY <2>1, <2>2, <2>3
    <3>2. \A i \in 1..Len(Temp) : Temp[i] = i
      BY <2>1, <2>2
    <3>3. QED BY <2>1, <2>3, <3>1, <3>2, PrefixFacts
  <2>5. /\ Taken - Len(Temp) <= STDIO
        /\ pc["proxy"] = "done" => Len(Temp) = Taken
    BY <2>1, <2>2, <2>3 DEF IInv, DiskInv
  <2>6. QED BY <2>4, <2>5
<1>2. QED BY <1>1, Inductive, PTL

\* For every block size and file: both halves of what the proxy's file is worth.
THEOREM SniffedIsFaithful == Spec => []SniffedFaithful
BY SniffedIsInOrder, SniffedIsWhole, PTL DEF SniffedFaithful

\* For every block size and file: a short read never thins the client's stream.
THEOREM ForwardsAtLeastWhatItTakes == Spec => []ForwardsEnough
<1>1. IInv => ForwardsEnough
  BY DEF IInv, ForwardsEnough, ClientStreamInv, CountInv, TypeOK, NatBytes
<1>2. QED BY <1>1, Inductive, PTL

-----------------------------------------------------------------------------
(* Blocks that arrive in one piece.                                        *)

\* What may be left of the file when only whole blocks are taken off it: the
\* last block of a file of whole blocks is never taken.
Aligned(left) ==
  /\ left \in 0..size
  /\ IF left = 0 THEN ~WholeBlocks ELSE left % BUF_SIZE = size % BUF_SIZE

\* While everybody lives, all three stand between two blocks of the same file.
PieceInv ==
  (\A p \in Procs : ~Gone(p)) =>
    /\ Aligned(sLeft)
    /\ pc["proxy"] # "size" =>
         pSize = size /\ Aligned(pLeft) /\ sLeft <= pLeft /\ forwarded = Taken
    /\ pc["client"] = "size" /\ pc["proxy"] # "size" => p2cInt = <<size>>
    /\ pc["client"] # "size" =>
         pc["proxy"] # "size" /\ Aligned(cLeft) /\ Len(download) = size - cLeft
    /\ pc["client"] = "done" => cLeft = 0 \/ (cLeft = BUF_SIZE /\ WholeBlocks)

\* Quotient and remainder.
LEMMA Division ==
  ASSUME NEW B \in Nat \ {0}, NEW a \in Nat
  PROVE  a = B * (a \div B) + (a % B) /\ a \div B \in Nat /\ a % B \in 0..B - 1
OBVIOUS

\* Numbers with the same remainder are at least a block apart.
LEMMA BlockApart ==
  ASSUME NEW B \in Nat \ {0}, NEW a \in Nat, NEW b \in Nat, b < a, a % B = b % B
  PROVE  a - b >= B
<1> DEFINE i == a \div B
           j == b \div B
           r == a % B
<1>1. a = B * i + r /\ i \in Nat /\ r \in 0..B - 1
  BY Division
<1>2. b = B * j + (b % B) /\ j \in Nat
  BY Division
<1>3. a = B * i + r /\ b = B * j + r /\ i \in Nat /\ j \in Nat /\ r \in Nat
  BY <1>1, <1>2
<1> HIDE DEF i, j, r
<1>4. a - b = B * i - B * j
  BY <1>3
<1>5. B * i - B * j = B * (i - j)
  BY <1>3
<1>6. i - j >= 1
  BY <1>3, <1>4, <1>5
<1>7. B * (i - j) >= B
  BY <1>3, <1>6
<1>8. QED BY <1>3, <1>4, <1>5, <1>7

\* A block less has the same remainder.
LEMMA BlockLess ==
  ASSUME NEW B \in Nat \ {0}, NEW a \in Nat, a > B
  PROVE  (a - B) % B = a % B
<1> DEFINE c == a - B
           i == a \div B
           j == c \div B
           r == a % B
           s == c % B
<1>1. c \in Nat
  OBVIOUS
<1>2. a = B * i + r /\ i \in Nat /\ r \in 0..B - 1
  BY Division
<1> HIDE DEF c
<1>3. c = B * j + s /\ j \in Nat /\ s \in 0..B - 1
  BY <1>1, Division
<1>4. a = c + B
  BY DEF c
<1> HIDE DEF i, j, r, s
<1>5. B * i + r = B * (j + 1) + s
  <2>1. B * (j + 1) = B * j + B
    BY <1>3
  <2>2. QED BY <1>1, <1>2, <1>3, <1>4, <2>1
<1>6. i = j + 1
  <2>1. CASE i > j + 1
    <3>1. B * i >= B * (j + 1) + B
      BY <1>2, <1>3, <2>1
    <3>2. QED BY <1>2, <1>3, <1>5, <3>1
  <2>2. CASE i < j + 1
    <3>1. B * (j + 1) >= B * i + B
      BY <1>2, <1>3, <2>2
    <3>2. QED BY <1>2, <1>3, <1>5, <3>1
  <2>3. QED BY <1>2, <1>3, <2>1, <2>2
<1>7. r = s
  BY <1>2, <1>3, <1>5, <1>6
<1>8. QED BY <1>7 DEF r, s, c

\* Between two blocks the lengths computed by the three programs agree; a block
\* taken off leads to the next place; an empty one comes only at the last block
\* of a file of whole blocks.
LEMMA AlignedFacts ==
  ASSUME size \in Nat, NEW left \in Nat, left > 0, Aligned(left)
  PROVE  /\ RelayLen(left) = ChunkLen(left)
         /\ Aligned(left - ChunkLen(left))
         /\ ChunkLen(left) = 0 => left = BUF_SIZE /\ WholeBlocks
<1>1. left <= size /\ left % BUF_SIZE = size % BUF_SIZE /\ BUF_SIZE \in Nat \ {0}
  BY BufAssumption DEF Aligned
<1>2. RelayLen(left) = ChunkLen(left)
  BY <1>1 DEF RelayLen, ChunkLen
<1>3. CASE left > BUF_SIZE
  <2>1. ChunkLen(left) = BUF_SIZE
    BY <1>3 DEF ChunkLen
  <2>2. (left - BUF_SIZE) % BUF_SIZE = left % BUF_SIZE
    BY <1>1, <1>3, BlockLess
  <2>3. left - BUF_SIZE \in 0..size /\ left - BUF_SIZE # 0
    BY <1>1, <1>3
  <2>4. QED BY <1>1, <1>2, <2>1, <2>2, <2>3 DEF Aligned
<1>4. CASE left < BUF_SIZE
  <2>1. left % BUF_SIZE = left
    BY <1>1, <1>4
  <2>2. ChunkLen(left) = left
    BY <1>1, <1>4, <2>1 DEF ChunkLen
  <2>3. ~WholeBlocks
    BY <1>1, <2>1 DEF WholeBlocks
  <2>4. left - left = 0 /\ 0 \in 0..size
    OBVIOUS
  <2>5. QED BY <1>2, <2>2, <2>3, <2>4 DEF Aligned
<1>5. CASE left = BUF_SIZE
  <2>1. left % BUF_SIZE = 0
    BY <1>1, <1>5
  <2>2. ChunkLen(left) = 0 /\ left - 0 = left
    BY <1>1, <1>5, <2>1 DEF ChunkLen
  <2>3. WholeBlocks
    BY <1>1, <2>1 DEF WholeBlocks
  <2>4. QED BY <1>2, <1>5, <2>2, <2>3
<1>6. QED BY <1>1, <1>3, <1>4, <1>5

\* Between two such places lies the next block at least.
LEMMA AlignedApart ==
  ASSUME size \in Nat, NEW a \in Nat, NEW b \in Nat, b < a, Aligned(a), Aligned(b)
  PROVE  a - b >= ChunkLen(a)
<1>1. ChunkLen(a) \in 0..BUF_SIZE /\ ChunkLen(a) <= a /\ BUF_SIZE \in Nat \ {0}
  BY LengthFacts, BufAssumption
<1>2. CASE b = 0
  BY <1>1, <1>2
<1>3. CASE b # 0
  <2>1. a % BUF_SIZE = b % BUF_SIZE
    BY <1>3 DEF Aligned
  <2>2. a - b >= BUF_SIZE
    BY <1>1, <2>1, BlockApart
  <2>3. QED BY <1>1, <2>2
<1>4. QED BY <1>2, <1>3

\* A read of n bytes returns all of them, or blocks.
LEMMA OnePiece ==
  ASSUME ~ShortReads, NEW n \in Nat, NEW stream \in Seq(Nat), NEW writer, ~Gone(writer),
         NEW k \in ReadCount(n, stream, writer)
  PROVE  /\ Len(stream) = 0 \/ Len(stream) >= n => k = n
         /\ k = 0 => n = 0
BY DEF ReadCount

\* The dead do not come back.
LEMMA StillAlive ==
  ASSUME TypeOK, [Next]_vars, NEW p \in Procs, ~Gone(p)'
  PROVE  ~Gone(p)
<1> USE DEF Procs
<1>1. CASE ServerStep
  <2>1. pc["server"] # "dead"
    BY <1>1 DEF ServerStep, ServerSendSize, ServerSendBlock, ServerDone
  <2>2. QED BY <1>1, <2>1, ServerMoves DEF Gone
<1>2. CASE ProxyStep
  <2>1. pc["proxy"] # "dead"
    BY <1>2 DEF ProxyStep, ProxyRecvSize, ProxyOpen, ProxyRelay, ProxyWildWrite, ProxyRead,
       ProxyGiveUp, ProxyClose
  <2>2. QED BY <1>2, <2>1, ProxyMoves DEF Gone
<1>3. CASE ClientStep
  <2>1. pc["client"] # "dead"
    BY <1>3 DEF ClientStep, ClientRecvSize, ClientRead, ClientGiveUp, ClientDone
  <2>2. QED BY <1>3, <2>1, ClientMoves DEF Gone
<1>4. CASE ToggleSave \/ (\E q \in Procs : Kill(q)) \/ UNCHANGED vars
  <2>1. pc'[p] \in {pc[p], "dead"}
    BY <1>4, OtherMoves
  <2>2. QED BY <2>1 DEF Gone
<1>5. QED BY <1>1, <1>2, <1>3, <1>4 DEF Next, Finished

\* PieceInv: every block goes from the server to the proxy and to the client as
\* one, and the client stops in front of the last one, or at the end.
LEMMA PieceStep ==
  ASSUME ~ShortReads, IInv, IInv', PieceInv, [Next]_vars
  PROVE  PieceInv'
<1> SUFFICES ASSUME \A p \in Procs : ~Gone(p)' PROVE PieceInv'
  BY DEF PieceInv
<1> USE DEF Procs
<1>0. \A p \in Procs : ~Gone(p)
  BY StillAlive DEF IInv
<1>1. /\ TypeOK /\ TypeOK' /\ SizeInv /\ size \in Nat /\ BUF_SIZE \in Nat \ {0}
      /\ s2p \in Seq(Nat) /\ p2c \in Seq(Nat) /\ download \in Seq(Nat)
      /\ pLeft \in Nat /\ sLeft \in Nat /\ cLeft \in Nat /\ pSize \in Nat
  BY SizesAssumption, BufAssumption DEF IInv, TypeOK, NatBytes
<1>2. /\ Aligned(sLeft)
      /\ pc["proxy"] # "size" =>
           pSize = size /\ Aligned(pLeft) /\ sLeft <= pLeft /\ forwarded = Taken
      /\ pc["client"] = "size" /\ pc["proxy"] # "size" => p2cInt = <<size>>
      /\ pc["client"] # "size" =>
           pc["proxy"] # "size" /\ Aligned(cLeft) /\ Len(download) = size - cLeft
      /\ pc["client"] = "done" => cLeft = 0 \/ (cLeft = BUF_SIZE /\ WholeBlocks)
  BY <1>0 DEF PieceInv
<1>3. /\ Taken + Len(s2p) = size - sLeft
      /\ Len(download) + Len(p2c) = forwarded
  BY <1>0 DEF IInv, ServerStreamInv, ClientStreamInv
<1>4. /\ Taken' + Len(s2p)' = size' - sLeft'
      /\ Len(download)' + Len(p2c)' = forwarded'
  BY DEF IInv, ServerStreamInv, ClientStreamInv
<1>5. CASE ServerStep
  <2>1. /\ UNCHANGED <<size, pSize, pLeft, forwarded, p2cInt, cLeft, download>>
        /\ pc'["proxy"] = pc["proxy"] /\ pc'["client"] = pc["client"]
    BY <1>1, <1>5, ServerMoves DEF proxyVars, p2cVars, clientVars
  <2>2. Aligned(sLeft)' /\ sLeft' <= sLeft
    <3>1. CASE ServerSendBlock
      <4>1. sLeft' = sLeft - ChunkLen(sLeft) /\ sLeft > 0 /\ size' = size
        BY <3>1 DEF ServerSendBlock
      <4>2. Aligned(sLeft - ChunkLen(sLeft))
        BY <1>1, <1>2, <4>1, AlignedFacts
      <4>3. ChunkLen(sLeft) \in 0..BUF_SIZE
        BY <1>1, <4>1, LengthFacts
      <4>4. QED BY <1>1, <4>1, <4>2, <4>3 DEF Aligned, WholeBlocks
    <3>2. CASE ServerSendSize \/ ServerDone
      <4>1. sLeft' = sLeft /\ size' = size
        BY <3>2 DEF ServerSendSize, ServerDone, serverVars
      <4>2. QED BY <1>1, <1>2, <4>1 DEF Aligned, WholeBlocks
    <3>3. QED BY <1>5, <3>1, <3>2 DEF ServerStep
  <2>3. Taken' = Taken
    BY <2>1 DEF Taken
  <2>4. (Aligned(pLeft)' <=> Aligned(pLeft)) /\ (Aligned(cLeft)' <=> Aligned(cLeft))
        /\ WholeBlocks' = WholeBlocks
    BY <2>1 DEF Aligned, WholeBlocks
  <2>5. sLeft <= pLeft => sLeft' <= pLeft'
    BY <1>1, <2>1, <2>2 DEF TypeOK
  <2>6. QED BY <1>2, <2>1, <2>2, <2>3, <2>4, <2>5 DEF PieceInv
<1>6. CASE ProxyStep
  <2>1. /\ UNCHANGED <<size, sLeft, cLeft, download>>
        /\ pc'["server"] = pc["server"] /\ pc'["client"] = pc["client"]
    BY <1>1, <1>6, ProxyMoves DEF serverVars, clientVars
  <2>2. (Aligned(sLeft)' <=> Aligned(sLeft)) /\ (Aligned(cLeft)' <=> Aligned(cLeft))
        /\ WholeBlocks' = WholeBlocks
    BY <2>1 DEF Aligned, WholeBlocks
  <2>3. CASE ProxyRecvSize
    <3>1. s2pInt # << >> /\ s2pInt = <<size>>
      BY <1>0, <1>1, <2>3 DEF ProxyRecvSize, SizeInv, Gone
    <3>2. /\ pSize' = size /\ pLeft' = size /\ pc["proxy"] = "size"
          /\ p2cInt' = Arrive(p2cInt, "client", <<size>>) /\ forwarded' = forwarded
      BY <2>3, <3>1 DEF ProxyRecvSize
    <3>3. p2cInt' = <<size>> /\ forwarded' = 0
      BY <1>0, <1>1, <3>2 DEF SizeInv, Arrive
    <3>4. Aligned(pLeft)' /\ Taken' = 0
      BY <1>1, <2>1, <3>2 DEF Aligned, WholeBlocks, Taken
    <3>5. sLeft' <= pLeft'
      BY <1>2, <2>1, <3>2 DEF Aligned
    <3>6. pc["client"] = "size"
      BY <1>2, <3>2
    <3>7. QED BY <1>2, <2>1, <2>2, <3>2, <3>3, <3>4, <3>5, <3>6 DEF PieceInv
  <2>4. CASE ProxyRelay
    <3>1. PICK k \in ReadCount(RelayLen(pLeft), s2p, "server") :
            /\ pc["proxy"] = "copy" /\ pLeft > 0 /\ k > 0
            /\ forwarded' = forwarded + RelayLen(pLeft)
            /\ pLeft' = pLeft - k /\ UNCHANGED <<pSize, p2cInt>>
      BY <2>4 DEF ProxyRelay, ProxyRead, p2cVars
    <3>2. /\ RelayLen(pLeft) \in Nat /\ RelayLen(pLeft) = ChunkLen(pLeft)
          /\ Aligned(pLeft - ChunkLen(pLeft))
      BY <1>1, <1>2, <3>1, AlignedFacts, LengthFacts
    <3>3. Len(s2p) = pLeft - sLeft
      <4>1. \A a, b, c, n \in Nat : (a - b) + n = a - c => n = b - c
        OBVIOUS
      <4>2. (size - pLeft) + Len(s2p) = size - sLeft
        BY <1>2, <1>3, <3>1 DEF Taken
      <4>3. Len(s2p) \in Nat /\ size \in Nat /\ pLeft \in Nat /\ sLeft \in Nat
        BY <1>1
      <4>4. QED BY <4>1, <4>2, <4>3
    <3>4. Len(s2p) = 0 \/ Len(s2p) >= RelayLen(pLeft)
      <4>1. CASE sLeft = pLeft
        BY <1>1, <3>3, <4>1
      <4>2. CASE sLeft < pLeft
        BY <1>1, <1>2, <3>1, <3>2, <3>3, <4>2, AlignedApart
      <4>3. QED BY <1>1, <1>2, <3>1, <4>1, <4>2
    <3>5. k = RelayLen(pLeft)
      BY <1>0, <1>1, <3>2, <3>4, OnePiece
    <3>6. forwarded' = Taken' /\ Aligned(pLeft)'
      <4>1. forwarded = pSize - pLeft
        BY <1>2, <3>1 DEF Taken
      <4>2. pLeft' = pLeft - ChunkLen(pLeft)
        BY <3>1, <3>2, <3>5
      <4>3. forwarded' = pSize' - pLeft'
        BY <1>1, <3>1, <3>2, <3>5, <4>1
      <4>4. QED BY <2>1, <3>2, <4>2, <4>3 DEF Taken, Aligned, WholeBlocks
    <3>7. sLeft' <= pLeft'
      <4>1. Taken' + Len(s2p)' = size - sLeft /\ Len(s2p)' \in Nat /\ Taken' = size - pLeft'
            /\ pLeft' \in Nat
        BY <1>1, <1>2, <1>4, <2>1, <3>1 DEF Taken, TypeOK, NatBytes
      <4>2. QED BY <1>1, <2>1, <4>1
    <3>8. pc'["proxy"] # "size"
      BY <1>1, <2>4, AfterWriteFacts DEF ProxyRelay
    <3>9. QED BY <1>2, <2>1, <2>2, <3>1, <3>6, <3>7, <3>8 DEF PieceInv
  <2>5. CASE ProxyWildWrite
    <3>1. Gone("proxy")'
      BY <1>1, <2>5 DEF ProxyWildWrite, Gone, TypeOK
    <3>2. QED BY <3>1
  <2>6. CASE ProxyOpen \/ ProxyGiveUp \/ ProxyClose
    <3>1. /\ UNCHANGED <<pSize, pLeft, forwarded, p2cInt>>
          /\ pc["proxy"] # "size"
      BY <2>6 DEF ProxyOpen, ProxyGiveUp, ProxyClose, proxyVars, p2cVars
    <3>2. Taken' = Taken /\ (Aligned(pLeft)' <=> Aligned(pLeft))
      BY <2>1, <3>1 DEF Taken, Aligned, WholeBlocks
    <3>3. pc'["proxy"] # "size"
      BY <1>1, <2>6 DEF ProxyOpen, ProxyGiveUp, ProxyClose, TypeOK
    <3>4. QED BY <1>2, <2>1, <2>2, <3>1, <3>2, <3>3 DEF PieceInv
  <2>7. QED BY <1>6, <2>3, <2>4, <2>5, <2>6 DEF ProxyStep
<1>7. CASE ClientStep
  <2>1. /\ UNCHANGED <<size, sLeft, pSize, pLeft, forwarded>>
        /\ pc'["server"] = pc["server"] /\ pc'["proxy"] = pc["proxy"]
    BY <1>1, <1>7, ClientMoves DEF serverVars, proxyVars
  <2>2. /\ (Aligned(sLeft)' <=> Aligned(sLeft)) /\ (Aligned(pLeft)' <=> Aligned(pLeft))
        /\ WholeBlocks' = WholeBlocks /\ Taken' = Taken
    BY <2>1 DEF Aligned, WholeBlocks, Taken
  <2>3. CASE ClientRecvSize
    <3>1. p2cInt # << >>
      BY <1>0, <2>3 DEF ClientRecvSize
    <3>2. p2cInt = <<size>> /\ pc["proxy"] # "size"
      BY <1>1, <1>2, <2>3, <3>1 DEF ClientRecvSize, SizeInv
    <3>3. cLeft' = size /\ download' = << >> /\ pc'["client"] = "copy"
      BY <1>1, <2>3, <3>2 DEF ClientRecvSize, TypeOK
    <3>4. Aligned(cLeft)' /\ Len(download') = size' - cLeft'
      BY <1>1, <2>1, <3>3 DEF Aligned, WholeBlocks
    <3>5. QED BY <1>2, <2>1, <2>2, <3>2, <3>3, <3>4 DEF PieceInv
  <2>4. CASE ClientRead
    <3>1. PICK k \in ReadCount(ChunkLen(cLeft), p2c, "proxy") :
            /\ pc["client"] = "copy" /\ cLeft > 0 /\ UNCHANGED <<pc, p2cInt>>
            /\ download' = download \o SubSeq(p2c, 1, k)
            /\ cLeft' = cLeft - k /\ p2c' = Rest(p2c, k)
      BY <2>4 DEF ClientRead
    <3>2. /\ ChunkLen(cLeft) \in Nat
          /\ Aligned(cLeft - ChunkLen(cLeft))
      BY <1>1, <1>2, <3>1, AlignedFacts, LengthFacts
    <3>3. Len(p2c) = cLeft - pLeft
      <4>1. Len(download) = size - cLeft /\ forwarded = size - pLeft
        BY <1>2, <3>1 DEF Taken
      <4>2. Len(p2c) \in Nat /\ size \in Nat /\ pLeft \in Nat /\ cLeft \in Nat
        BY <1>1
      <4>3. \A a, b, c, n \in Nat : (a - b) + n = a - c => n = b - c
        OBVIOUS
      <4>4. (size - cLeft) + Len(p2c) = size - pLeft
        BY <1>3, <4>1
      <4>5. QED BY <4>2, <4>3, <4>4
    <3>4. Len(p2c) = 0 \/ Len(p2c) >= ChunkLen(cLeft)
      <4>1. CASE pLeft = cLeft
        BY <1>1, <3>3, <4>1
      <4>2. CASE pLeft < cLeft
        BY <1>1, <1>2, <3>1, <3>3, <4>2, AlignedApart
      <4>3. Len(p2c) \in Nat
        BY <1>1
      <4>4. QED BY <1>1, <3>3, <4>1, <4>2, <4>3
    <3>5. k = ChunkLen(cLeft)
      BY <1>0, <1>1, <3>2, <3>4, OnePiece
    <3>6. Len(download') = size' - cLeft'
      <4>1. k \in 0..Len(p2c)
        BY <1>1, <3>1, <3>2, ReadFacts
      <4>2. SubSeq(p2c, 1, k) \in Seq(Nat) /\ Len(SubSeq(p2c, 1, k)) = k
        BY <1>1, <4>1, SplitFacts
      <4>3. Len(download') = Len(download) + k
        BY <1>1, <3>1, <4>2, ConcatFacts
      <4>4. Len(download) = size - cLeft /\ k \in Nat
        BY <1>2, <3>1, <3>2, <3>5
      <4>5. QED BY <1>1, <2>1, <3>1, <4>3, <4>4
    <3>7. Aligned(cLeft)'
      BY <2>1, <3>1, <3>2, <3>5 DEF Aligned, WholeBlocks
    <3>8. QED BY <1>2, <2>1, <2>2, <3>1, <3>6, <3>7 DEF PieceInv
  <2>5. CASE ClientGiveUp \/ ClientDone
    <3>1. /\ UNCHANGED <<cLeft, download, p2cInt>> /\ pc["client"] = "copy"
          /\ pc'["client"] = "done"
      BY <1>1, <2>5 DEF ClientGiveUp, ClientDone, clientVars, p2cVars, TypeOK
    <3>2. cLeft = 0 \/ (cLeft = BUF_SIZE /\ WholeBlocks)
      <4>1. CASE ClientDone
        BY <4>1 DEF ClientDone
      <4>2. CASE ClientGiveUp
        <5>1. cLeft > 0 /\ 0 \in ReadCount(ChunkLen(cLeft), p2c, "proxy")
          BY <4>2 DEF ClientGiveUp
        <5>2. ChunkLen(cLeft) \in Nat
          BY <1>1, <5>1, LengthFacts
        <5>3. ChunkLen(cLeft) = 0
          BY <1>0, <1>1, <5>1, <5>2, OnePiece
        <5>4. QED BY <1>1, <1>2, <3>1, <5>1, <5>3, AlignedFacts
      <4>3. QED BY <2>5, <4>1, <4>2
    <3>3. Aligned(cLeft)' <=> Aligned(cLeft)
      BY <2>1, <3>1 DEF Aligned, WholeBlocks
    <3>4. QED BY <1>2, <2>1, <2>2, <3>1, <3>2, <3>3 DEF PieceInv
  <2>6. QED BY <1>7, <2>3, <2>4, <2>5 DEF ClientStep
<1>8. CASE ToggleSave \/ (\E p \in Procs : Kill(p)) \/ UNCHANGED vars
  <2>1. /\ UNCHANGED <<size, sLeft, pSize, pLeft, forwarded, p2cInt, cLeft, download>>
        /\ \A p \in Procs : pc'[p] = pc[p]
    <3>1. /\ \A p \in Procs : pc'[p] \in {pc[p], "dead"}
          /\ UNCHANGED <<serverVars, proxyVars, p2cVars, clientVars>>
      BY <1>1, <1>8, OtherMoves
    <3>2. QED BY <3>1 DEF Gone, serverVars, proxyVars, p2cVars, clientVars
  <2>2. /\ (Aligned(sLeft)' <=> Aligned(sLeft)) /\ (Aligned(pLeft)' <=> Aligned(pLeft))
        /\ (Aligned(cLeft)' <=> Aligned(cLeft)) /\ WholeBlocks' = WholeBlocks /\ Taken' = Taken
    BY <2>1 DEF Aligned, WholeBlocks, Taken
  <2>3. QED BY <1>2, <2>1, <2>2 DEF PieceInv
<1>9. QED BY <1>5, <1>6, <1>7, <1>8 DEF Next, Finished

\* For every block size and file: when blocks arrive in one piece, what a
\* finished client lacks is the last block of a file of whole blocks, exactly
\* (left_size % BUF_SIZE in enviaStringBytesTCP and both recebeStringBytesTCP).
THEOREM OnlyTheLastBlockIsLost ==
  ASSUME ~ShortReads
  PROVE  Spec => []LossIsTheLastBlock
<1>1. Init => PieceInv
  <2> SUFFICES ASSUME Init PROVE PieceInv
    OBVIOUS
  <2>1. /\ size \in Nat /\ sLeft = size /\ pc["proxy"] = "size" /\ pc["client"] = "size"
    BY SizesAssumption DEF Init, Procs
  <2>2. Aligned(sLeft)
    BY <2>1 DEF Aligned, WholeBlocks
  <2>3. QED BY <2>1, <2>2 DEF PieceInv
<1>2. IInv /\ IInv' /\ PieceInv /\ [Next]_vars => PieceInv'
  BY PieceStep
<1>3. ASSUME IInv, PieceInv PROVE LossIsTheLastBlock
  <2> SUFFICES ASSUME pc["client"] = "done", ~Gone("server"), ~Gone("proxy")
               PROVE  Len(download) = size - (IF WholeBlocks THEN BUF_SIZE ELSE 0)
    BY DEF LossIsTheLastBlock
  <2>1. /\ Aligned(cLeft) /\ Len(download) = size - cLeft
        /\ cLeft = 0 \/ (cLeft = BUF_SIZE /\ WholeBlocks)
    BY <1>3 DEF PieceInv, Procs, Gone
  <2>2. cLeft = 0 => ~WholeBlocks
    BY <2>1 DEF Aligned
  <2>3. QED BY <2>1, <2>2
<1>4. QED BY <1>1, <1>2, <1>3, Inductive, PTL DEF Spec
=============================================================================
