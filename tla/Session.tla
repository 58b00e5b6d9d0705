------------------------------- MODULE Session -------------------------------
(***************************************************************************)
(* One session: a client, the proxy child and the server child that serve  *)
(* it, and the four streams between them.  The client types commands, the  *)
(* proxy passes each on and relays the answer.                             *)
(*                                                                         *)
(* A stream is a sequence of units, each written by one write().  A read   *)
(* of a buffer takes one or more of them; a DOWNLOAD, written as the 1024  *)
(* bytes of its array, fills a read and may arrive in two.  Reading an     *)
(* integer takes exactly one.  A file is one unit, FileTransfer looks      *)
(* inside; but a block of it that is read short may leave the rest of the  *)
(* file in the stream, or pad what the proxy relays.  Every unit carries,  *)
(* as history, the number of its command.                                  *)
(***************************************************************************)
EXTENDS Integers, Sequences, FiniteSets

CONSTANTS
  Commands,     \* commands the user may type
  Connections,  \* types of connection the user may ask for in the first message
  MaxCommands,  \* bound on the commands typed
  Letters,      \* letters a DOWNLOAD can lose at its end and still be one
  MaxFiles,     \* bound on the files in server_files
  Mortal,       \* processes that may be killed at any moment
  MaxTroubles   \* bound on what the environment does, see Troubles

Procs == {"client", "proxy", "server"}

\* DOWNLOAD by what the server does with it: answers 0 ("NONE": wrong arguments,
\* no such file, or TCP ENC), sends a file over TCP ("TCP", or "WHOLE" when it
\* consists of whole blocks), or calls handleUDP.
Downloads == {"NONE", "TCP", "WHOLE", "UDPNOR", "UDPENC"}
Kinds     == {"LIST", "QUIT"} \cup Downloads

ASSUME CommandsAssumption    == Commands \subseteq Kinds
ASSUME ConnectionsAssumption == Connections \subseteq {"byTCP", "byUDP"}
ASSUME BoundsAssumption      ==
  {MaxCommands, Letters, MaxFiles, MaxTroubles} \subseteq Nat
ASSUME MortalAssumption      == Mortal \subseteq Procs

VARIABLES
  pc,       \* where each process is
  sent,     \* number of commands sent (bounds the model)
  typed,    \* client: what its command buffer asks for
  letters,  \* client: letters the DOWNLOAD in it can still lose
  eof,      \* client: its standard input has ended
  cLeft,    \* client: names still to read
  answer,   \* history: the last number the client has read, and of which command
  command,  \* proxy: its command buffer, which nothing clears
  pLeft,    \* proxy: names still to read
  buffer,   \* server: the command it works on
  sLeft,    \* server: names still to write
  runs,     \* history: number of commands the server has worked on
  files,    \* number of files in server_files
  changes,  \* number of changes of server_files (bounds the model)
  uneven,   \* history: reads that did not return exactly one message or block
  broken,   \* pairs <<p, q>>: p has written to q's closed socket
  full,     \* the server has accepted max_clients connections
  stuck,    \* semSHM will never be posted again
  c2p, p2s, s2p, p2c   \* the streams

inputVars  == <<sent, typed, letters, eof>>
clientVars == <<inputVars, cLeft, answer>>
proxyVars  == <<command, pLeft>>
serverVars == <<buffer, sLeft, runs>>
envVars    == <<files, changes, full, stuck>>
vars == <<pc, clientVars, proxyVars, serverVars, envVars, uneven, broken,
          c2p, p2s, s2p, p2c>>

Text(kind, n) == [kind |-> kind, of |-> n]
Junk == Text("junk", 0)   \* uninitialised command buffer

-----------------------------------------------------------------------------
(* Sockets.                                                                *)

Gone(p) == pc[p] \in {"end", "dead"}

\* A write: lost if the reader is gone.  The first such write may succeed, the
\* next one cannot: SIGPIPE ends the writer.
Write(writer, reader, stream, data, next) ==
  IF Gone(reader)
  THEN /\ stream' = stream
       /\ \/ /\ <<writer, reader>> \notin broken
             /\ broken' = broken \cup {<<writer, reader>>}
             /\ pc' = [pc EXCEPT ![writer] = next]
          \/ /\ broken' = broken
             /\ pc' = [pc EXCEPT ![writer] = "dead"]
  ELSE /\ stream' = stream \o data
       /\ broken' = broken
       /\ pc' = [pc EXCEPT ![writer] = next]

AtEOF(stream, writer) == stream = << >> /\ Gone(writer)

Rest(stream, k) == SubSeq(stream, k + 1, Len(stream))

\* One read of names takes k units of them.
TakeNames(stream, k) ==
  /\ stream' = Rest(stream, k)
  /\ uneven' = uneven \cup (IF k > 1 THEN {"glued"} ELSE {})

\* What a full buffer leaves of a DOWNLOAD: the end of the array it was in.
Remainder(c) == IF c.kind \in Downloads THEN <<Text("tail", c.of)>> ELSE << >>

\* One read of a command by p looks at the first unit only.  A short one takes
\* what is glued to it along, a DOWNLOAD may come without its end.
TakeText(p, stream) ==
  \/ /\ Head(stream).kind \notin Downloads
     /\ \E k \in DOMAIN stream :
          /\ \A i \in 1..k - 1 : stream[i].kind \notin Downloads
          /\ stream' = (IF k > 1 THEN Remainder(stream[k]) ELSE << >>) \o Rest(stream, k)
          /\ uneven' = uneven \cup (IF k > 1 THEN {"glued"} ELSE {})
  \/ /\ Head(stream).kind \in Downloads
     /\ \/ stream' = Tail(stream) /\ UNCHANGED uneven
        \/ /\ stream' = Remainder(Head(stream)) \o Tail(stream)
           /\ uneven' = uneven \cup {p}

Number(v, n) == <<[what |-> "int", val |-> v, of |-> n]>>
Unit(what, n) == <<[what |-> what, val |-> 0, of |-> n]>>
Name(n)   == Unit("name", n)
File(n)   == Unit("file", n)     \* a file and its size
Blocks(n) == Unit("blocks", n)   \* the same, but of whole blocks and without the last
PartOf(n) == Unit("part", n)     \* fewer bytes than were announced
RestOf(n) == Unit("rest", n)     \* bytes of a file that nobody expects

\* The recebeStringBytesTCP loops give up when left_size is BUF_SIZE, which is
\* meant to be the end and, of whole blocks, is.  A block read short brings other
\* files there too, with that many bytes still in the stream.  And of a block it
\* has read short the proxy relays n_received bytes (proxy.c:353).
\* What a proxy that reads short leaves in the stream, and what it relays:
ShortRelays(u) ==
  LET rest == RestOf(u.of)
      padded == {<< << >>, <<u>> \o rest>>}
  IN  CASE u.what = "blocks" -> padded
        [] u.what = "file" ->
             padded \cup {<<rest, PartOf(u.of)>>, <<rest, File(u.of) \o rest>>}
        [] u.what = "part" ->
             {<< << >>, PartOf(u.of)>>, << << >>, File(u.of)>>,
              << << >>, File(u.of) \o rest>>,
              <<rest, PartOf(u.of)>>, <<rest, File(u.of) \o rest>>}

\* What a client that reads short leaves in the stream: the last BUF_SIZE bytes
\* expected, or less of what pads whole blocks.
ClientReadsShort ==
  \/ /\ Head(p2c).what \in {"file", "part"}
     /\ p2c' = RestOf(Head(p2c).of) \o Tail(p2c)
  \/ /\ Head(p2c).what = "blocks" /\ Len(p2c) > 1 /\ p2c[2].what = "rest"
     /\ p2c' = Tail(Tail(p2c))

-----------------------------------------------------------------------------
Init ==
  /\ pc = [client |-> "hello", proxy |-> "hello", server |-> "off"]
  /\ sent = 0 /\ typed = "NONE" /\ letters = 0 /\ eof = FALSE
  /\ cLeft = 0 /\ answer = [val |-> 0, of |-> 0]
  /\ command = Junk /\ pLeft = 0
  /\ buffer = Junk /\ sLeft = 0 /\ runs = 0
  /\ files \in 0..MaxFiles /\ changes = 0
  /\ uneven = {} /\ broken = {} /\ full = FALSE /\ stuck = FALSE
  /\ c2p = << >> /\ p2s = << >> /\ s2p = << >> /\ p2c = << >>

-----------------------------------------------------------------------------
(* Client: main and process_client.                                        *)

\* The first message: the server's address and the type of connection.
ClientHello ==
  /\ pc["client"] = "hello"
  /\ \E t \in Connections :
       Write("client", "proxy", c2p, <<Text(t, 0)>>, "prompt")
  /\ UNCHANGED <<clientVars, proxyVars, serverVars, envVars, uneven, p2s, s2p, p2c>>

\* command is sent and its answer awaited; QUIT has none.
Send(k) ==
  /\ typed' = k
  /\ sent' = sent + 1
  /\ Write("client", "proxy", c2p, <<Text(k, sent')>>, IF k = "QUIT" THEN "end" ELSE "int")

\* The user types a command (an unknown one is ignored by the client).
ClientCommand ==
  /\ pc["client"] = "prompt"
  /\ ~eof /\ sent < MaxCommands
  /\ \E k \in Commands :
       /\ Send(k)
       /\ letters' = IF k \in Downloads THEN Letters ELSE 0
  /\ UNCHANGED <<eof, cLeft, answer, proxyVars, serverVars, envVars, uneven,
                 p2s, s2p, p2c>>

\* A name that has lost a letter may be another file's, or no file's.
Shortened(k) ==
  CASE k = "NONE" -> Downloads
    [] k \in {"TCP", "WHOLE"} -> {"NONE", "TCP", "WHOLE"}
    [] OTHER -> {"NONE", k}

\* Mutant: fgets is asked again instead of looking at command.
ClientRound_AsksAgain == pc["client"] = "prompt" /\ eof /\ UNCHANGED vars

\* fgets fails, command keeps its content, and its last letter is cut off for
\* the newline that it is not: a DOWNLOAD is sent again as long as it is one.
\* Anything else is taken for nothing, round by round, until command[-1] is
\* written and strtok of the empty command is a null pointer.
ClientRound ==
  /\ pc["client"] = "prompt" /\ eof
  /\ \/ /\ letters > 0
        /\ \E k \in Shortened(typed) : Send(k)
        /\ letters' = letters - 1
     \/ /\ letters = 0
        /\ pc' = [pc EXCEPT !["client"] = "dead"]
        /\ UNCHANGED <<sent, typed, letters, c2p, broken>>
  /\ UNCHANGED <<eof, cLeft, answer, proxyVars, serverVars, envVars, uneven,
                 p2s, s2p, p2c>>

\* Where the client goes once it has read v.
AfterReply(v) ==
  CASE v = 0                          -> "prompt"
    [] v # 0 /\ typed = "LIST"        -> "names"
    [] v # 0 /\ typed \in {"UDPNOR", "UDPENC"} -> "udp"
    [] OTHER                          -> "file"

\* What a process that reads a number, or a file, is meant to find.
Expected(state) == IF state = "int" THEN {"int"} ELSE {"file", "blocks", "part"}

\* receive_int_TCP: 0 at end of file.
ClientInt ==
  /\ pc["client"] = "int"
  /\ \/ /\ p2c # << >> /\ Head(p2c).what = "int"
        /\ cLeft' = Head(p2c).val
        /\ answer' = [val |-> Head(p2c).val, of |-> Head(p2c).of]
        /\ pc' = [pc EXCEPT !["client"] = AfterReply(Head(p2c).val)]
        /\ p2c' = Tail(p2c)
     \/ /\ AtEOF(p2c, "proxy")
        /\ answer' = [val |-> 0, of |-> sent]
        /\ pc' = [pc EXCEPT !["client"] = "prompt"]
        /\ UNCHANGED <<cLeft, p2c>>
  /\ UNCHANGED <<inputVars, proxyVars, serverVars, envVars, uneven, broken,
                 c2p, p2s, s2p>>

\* Bytes of anything else make a senseless number, or a senseless size, and what
\* the client does with it is not followed any further.
ClientMisreads ==
  /\ pc["client"] \in {"int", "file"}
  /\ p2c # << >> /\ Head(p2c).what \notin Expected(pc["client"])
  /\ pc' = [pc EXCEPT !["client"] = "garbled"]
  /\ UNCHANGED <<clientVars, proxyVars, serverVars, envVars, uneven, broken,
                 c2p, p2s, s2p, p2c>>

\* One of the n_files reads; at end of file it prints an empty line.
ClientName ==
  /\ pc["client"] = "names"
  /\ \/ \E k \in DOMAIN p2c : TakeNames(p2c, k)
     \/ AtEOF(p2c, "proxy") /\ UNCHANGED <<p2c, uneven>>
  /\ cLeft' = cLeft - 1
  /\ pc' = [pc EXCEPT !["client"] = IF cLeft = 1 THEN "prompt" ELSE "names"]
  /\ UNCHANGED <<inputVars, answer, proxyVars, serverVars, envVars, broken, c2p, p2s, s2p>>

\* recebeStringBytesTCP.  A part of a file is no end while the proxy lives.
ClientFile ==
  /\ pc["client"] = "file"
  /\ \/ /\ p2c # << >> /\ Head(p2c).what \in Expected("file")
        /\ \/ /\ Head(p2c).what = "part" => Gone("proxy")
              /\ p2c' = Tail(p2c)
              /\ UNCHANGED uneven
           \/ /\ ClientReadsShort
              /\ uneven' = uneven \cup {"short"}
     \/ AtEOF(p2c, "proxy") /\ UNCHANGED <<p2c, uneven>>
  /\ pc' = [pc EXCEPT !["client"] = "prompt"]
  /\ UNCHANGED <<clientVars, proxyVars, serverVars, envVars, broken,
                 c2p, p2s, s2p>>

-----------------------------------------------------------------------------
(* Proxy child: initialize_connection and process_clientTCP.               *)

\* The first read, between two sections of semSHM.  The connection to the server
\* waits there until main() accepts it.  A UDP connection ends at once
\* (process_clientUDP is empty), and so does the child of a client that has left
\* without a message (gethostbyname of a null pointer).
ProxyHello ==
  /\ pc["proxy"] = "hello" /\ ~stuck
  /\ \/ /\ c2p # << >>
        /\ TakeText("proxy", c2p)
        /\ pc' = IF Head(c2p).kind = "byTCP"
                 THEN [pc EXCEPT !["proxy"] = "command", !["server"] = "queued"]
                 ELSE [pc EXCEPT !["proxy"] = "end"]
     \/ /\ AtEOF(c2p, "client")
        /\ pc' = [pc EXCEPT !["proxy"] = "dead"]
        /\ UNCHANGED <<c2p, uneven>>
  /\ UNCHANGED <<clientVars, proxyVars, serverVars, envVars, broken, p2s, s2p, p2c>>

\* Mutant: the command is written again, as a retry would.
PassOn_Twice(c) ==
  Write("proxy", "server", p2s, <<c, c>>, IF c.kind = "QUIT" THEN "end" ELSE "int")

\* The command goes to the server; QUIT ends the child.
PassOn(c) ==
  Write("proxy", "server", p2s, <<c>>, IF c.kind = "QUIT" THEN "end" ELSE "int")

ProxyCommand ==
  /\ pc["proxy"] = "command"
  /\ c2p # << >> /\ Head(c2p).kind # "tail"
  /\ command' = Head(c2p)
  /\ TakeText("proxy", c2p)
  /\ PassOn(Head(c2p))
  /\ UNCHANGED <<clientVars, pLeft, serverVars, envVars, s2p, p2c>>

\* Mutant: what is no command is passed on like one.
ProxyTail_PassesOn ==
  /\ pc["proxy"] = "command"
  /\ c2p # << >> /\ Head(c2p).kind = "tail"
  /\ TakeText("proxy", c2p)
  /\ command' = Head(c2p)
  /\ PassOn(Head(c2p))
  /\ UNCHANGED <<clientVars, pLeft, serverVars, envVars, s2p, p2c>>

\* The end of a DOWNLOAD, whatever the client's array held there: zeros (strtok
\* of an empty command is a null pointer) or bytes that are no command.
ProxyTail ==
  /\ pc["proxy"] = "command"
  /\ c2p # << >> /\ Head(c2p).kind = "tail"
  /\ TakeText("proxy", c2p)
  /\ \/ pc' = [pc EXCEPT !["proxy"] = "dead"] /\ UNCHANGED command
     \/ command' = Head(c2p) /\ UNCHANGED pc
  /\ UNCHANGED <<clientVars, pLeft, serverVars, envVars, broken, p2s, s2p, p2c>>

\* read() returned 0 and command still holds the last command, which is passed
\* on again.
ProxyReplay ==
  /\ pc["proxy"] = "command"
  /\ AtEOF(c2p, "client")
  /\ command.kind \in Kinds
  /\ PassOn(command)
  /\ UNCHANGED <<clientVars, proxyVars, serverVars, envVars, uneven, c2p, s2p, p2c>>

\* read() returned 0 and command holds no command: the child loops for ever or,
\* depending on what the stack held from the start, dies.
ProxyJunk ==
  /\ pc["proxy"] = "command"
  /\ AtEOF(c2p, "client")
  /\ command.kind \notin Kinds
  /\ \E to \in {"spin"} \cup (IF command = Junk THEN {"dead"} ELSE {}) :
       pc' = [pc EXCEPT !["proxy"] = to]
  /\ UNCHANGED <<clientVars, proxyVars, serverVars, envVars, uneven, broken,
                 c2p, p2s, s2p, p2c>>

\* Where the proxy goes once it has relayed v.
AfterRelay(v) ==
  CASE v # 0 /\ command.kind = "LIST"             -> "names"
    [] v # 0 /\ command.kind \in {"TCP", "WHOLE"} -> "file"
    [] OTHER                                      -> "command"

RelayAs(data, v) == Write("proxy", "client", p2c, data, AfterRelay(v))

\* The count of LIST goes on as it is, any other answer as 0 or 1.
Passed(v, n) == Number(IF command.kind = "LIST" \/ v = 0 THEN v ELSE 1, n)

\* Mutant: the count of an empty list is not passed on.
Relay_NotEmpty(v, n) ==
  RelayAs(IF command.kind = "LIST" /\ v = 0 THEN << >> ELSE Passed(v, n), v)

\* Mutant: the count of LIST too goes on as 0 or 1.
Relay_Flattens(v, n) == RelayAs(Number(IF v = 0 THEN 0 ELSE 1, n), v)

Relay(v, n) == RelayAs(Passed(v, n), v)

ProxyInt ==
  /\ pc["proxy"] = "int"
  /\ \/ /\ s2p # << >> /\ Head(s2p).what = "int"
        /\ s2p' = Tail(s2p)
        /\ pLeft' = Head(s2p).val
        /\ Relay(Head(s2p).val, Head(s2p).of)
     \/ /\ AtEOF(s2p, "server")
        /\ Relay(0, command.of)
        /\ UNCHANGED <<s2p, pLeft>>
  /\ UNCHANGED <<clientVars, command, serverVars, envVars, uneven, c2p, p2s>>

\* As in the client.
ProxyMisreads ==
  /\ pc["proxy"] \in {"int", "file"}
  /\ s2p # << >> /\ Head(s2p).what \notin Expected(pc["proxy"])
  /\ pc' = [pc EXCEPT !["proxy"] = "garbled"]
  /\ UNCHANGED <<clientVars, proxyVars, serverVars, envVars, uneven, broken,
                 c2p, p2s, s2p, p2c>>

\* One of the n_files reads, relayed as it came; at end of file nothing is.
RelayName(last) ==
  LET next == IF pLeft = last THEN "command" ELSE "names" IN
  /\ pc["proxy"] = "names"
  /\ \/ \E k \in DOMAIN s2p :
          /\ TakeNames(s2p, k)
          /\ Write("proxy", "client", p2c, SubSeq(s2p, 1, k), next)
     \/ /\ AtEOF(s2p, "server")
        /\ pc' = [pc EXCEPT !["proxy"] = next]
        /\ UNCHANGED <<s2p, uneven, p2c, broken>>
  /\ pLeft' = pLeft - 1
  /\ UNCHANGED <<clientVars, command, serverVars, envVars, c2p, p2s>>

\* Mutant: the relay loop is <= n_files.
ProxyName_OneMore == RelayName(0)

ProxyName == RelayName(1)

\* recebeStringBytesTCP, which needs semSHM for every block.  Of a file that
\* breaks off the part is relayed before the retries time out; no file at all is
\* relayed as one of size 0.
ProxyFile ==
  /\ pc["proxy"] = "file" /\ ~stuck
  /\ \/ /\ s2p # << >> /\ Head(s2p).what \in Expected("file")
        /\ Head(s2p).what = "part" => Gone("server")
        /\ \/ /\ s2p' = Tail(s2p)
              /\ Write("proxy", "client", p2c, <<Head(s2p)>>, "command")
              /\ UNCHANGED uneven
           \/ /\ \E r \in ShortRelays(Head(s2p)) :
                   /\ s2p' = r[1] \o Tail(s2p)
                   /\ Write("proxy", "client", p2c, r[2], "command")
              /\ uneven' = uneven \cup {"short"}
     \/ /\ AtEOF(s2p, "server")
        /\ Write("proxy", "client", p2c, Blocks(command.of), "command")
        /\ UNCHANGED <<s2p, uneven>>
  /\ UNCHANGED <<clientVars, proxyVars, serverVars, envVars, c2p, p2s>>

-----------------------------------------------------------------------------
(* Server child: process_client.                                           *)

\* main() accepts the proxy's connection and forks, unless it has accepted
\* max_clients: it counts them up and never down.
ServerAccept ==
  /\ pc["server"] = "queued"
  /\ ~full
  /\ pc' = [pc EXCEPT !["server"] = "command"]
  /\ UNCHANGED <<clientVars, proxyVars, serverVars, envVars, uneven, broken,
                 c2p, p2s, s2p, p2c>>

\* The first thing written in answer to c, if anything is.
Reply(c, count, refusal) ==
  CASE c.kind = "LIST" -> Write("server", "proxy", s2p, Number(count, c.of), "list")
    [] c.kind \in {"TCP", "WHOLE"} -> Write("server", "proxy", s2p, Number(1, c.of), "file")
    [] c.kind = "UDPNOR" -> Write("server", "proxy", s2p, Number(1, c.of), "udp")
    [] c.kind \in {"NONE", "tail"} -> Write("server", "proxy", s2p, refusal, "command")
    [] OTHER -> /\ pc' = [pc EXCEPT !["server"] =
                              IF c.kind = "QUIT" THEN "end" ELSE "udp"]
                /\ UNCHANGED <<s2p, broken>>

\* Mutant: a refused DOWNLOAD is not answered.
Answer_NoRefusal(c) == Reply(c, files, << >>)

Answer(c) == Reply(c, files, Number(0, c.of))

ServerCommand ==
  /\ pc["server"] = "command"
  /\ p2s # << >>
  /\ buffer' = Head(p2s)
  /\ TakeText("server", p2s)
  /\ runs' = runs + 1
  /\ \/ Answer(Head(p2s))
     \/ /\ Head(p2s).kind = "tail"   \* zeros: strtok returns a null pointer
        /\ pc' = [pc EXCEPT !["server"] = "dead"]
        /\ UNCHANGED <<s2p, broken>>
  /\ UNCHANGED <<clientVars, proxyVars, sLeft, envVars, c2p, p2c>>

\* read() returned 0: strtok of the empty buffer is a null pointer.
ServerEOF ==
  /\ pc["server"] = "command"
  /\ AtEOF(p2s, "proxy")
  /\ pc' = [pc EXCEPT !["server"] = "dead"]
  /\ UNCHANGED <<clientVars, proxyVars, serverVars, envVars, uneven, broken,
                 c2p, p2s, s2p, p2c>>

\* The second pass over server_files, after the count has been sent.
ServerSecondPass ==
  /\ pc["server"] = "list"
  /\ sLeft' = files
  /\ pc' = [pc EXCEPT !["server"] = "names"]
  /\ UNCHANGED <<clientVars, proxyVars, buffer, runs, envVars, uneven, broken,
                 c2p, p2s, s2p, p2c>>

ServerName ==
  /\ pc["server"] = "names"
  /\ sLeft > 0
  /\ sLeft' = sLeft - 1
  /\ Write("server", "proxy", s2p, Name(buffer.of), "names")
  /\ UNCHANGED <<clientVars, proxyVars, buffer, runs, envVars, uneven, c2p, p2s, p2c>>

ServerListDone ==
  /\ pc["server"] = "names"
  /\ sLeft = 0
  /\ pc' = [pc EXCEPT !["server"] = "command"]
  /\ UNCHANGED <<clientVars, proxyVars, serverVars, envVars, uneven, broken,
                 c2p, p2s, s2p, p2c>>

\* enviaStringBytesTCP, which never returns from a file of whole blocks.
ServerFile ==
  /\ pc["server"] = "file"
  /\ Write("server", "proxy", s2p,
           IF buffer.kind = "WHOLE" THEN Blocks(buffer.of) ELSE File(buffer.of),
           IF buffer.kind = "WHOLE" THEN "spin" ELSE "command")
  /\ UNCHANGED <<clientVars, proxyVars, serverVars, envVars, uneven, c2p, p2s, p2c>>

\* handleUDP sends to an address of zeros: sendto fails and erro() exits.
ServerUDP ==
  /\ pc["server"] = "udp"
  /\ pc' = [pc EXCEPT !["server"] = "dead"]
  /\ UNCHANGED <<clientVars, proxyVars, serverVars, envVars, uneven, broken,
                 c2p, p2s, s2p, p2c>>

-----------------------------------------------------------------------------
(* The environment.                                                        *)

\* Changes of server_files, dead processes, the end of the input, the loss of
\* semSHM and the kinds of reads that spoil a session: the environment adds none
\* of the first four when there are MaxTroubles already.
Troubles ==
  changes + Cardinality({p \in Procs : pc[p] = "dead"})
    + (IF eof THEN 1 ELSE 0) + (IF stuck THEN 1 ELSE 0)
    + Cardinality(uneven \cap {"server", "short"})

\* The client's standard input ends; only its prompt can tell.
InputEnd ==
  /\ ~eof /\ pc["client"] = "prompt"
  /\ Troubles < MaxTroubles
  /\ eof' = TRUE
  /\ UNCHANGED <<pc, sent, typed, letters, cLeft, answer, proxyVars, serverVars,
                 envVars, uneven, broken, c2p, p2s, s2p, p2c>>

\* Other connections take the last of the max_clients places before this one.
OthersFill ==
  /\ pc["server"] = "queued"
  /\ ~full /\ full' = TRUE
  /\ UNCHANGED <<pc, clientVars, proxyVars, serverVars, files, changes, stuck, uneven,
                 broken, c2p, p2s, s2p, p2c>>

\* A child of another session, or the operator's process, is killed while it
\* holds semSHM.
OthersDie ==
  /\ ~stuck /\ Troubles < MaxTroubles
  /\ stuck' = TRUE
  /\ UNCHANGED <<pc, clientVars, proxyVars, serverVars, files, changes, full, uneven,
                 broken, c2p, p2s, s2p, p2c>>

\* Somebody adds files to server_files or removes some.
DirChange ==
  /\ Troubles < MaxTroubles
  /\ changes' = changes + 1
  /\ files' \in 0..MaxFiles
  /\ UNCHANGED <<pc, clientVars, proxyVars, serverVars, full, stuck, uneven, broken,
                 c2p, p2s, s2p, p2c>>

\* A process is killed, in the middle of a file perhaps.
Kill(p) ==
  /\ p \in Mortal
  /\ ~Gone(p) /\ pc[p] \notin {"off", "queued"}
  /\ Troubles < MaxTroubles
  /\ pc' = [pc EXCEPT ![p] = "dead"]
  /\ \/ UNCHANGED <<s2p, p2c>>
     \/ /\ p = "server" /\ pc[p] = "file" /\ ~Gone("proxy")
        /\ s2p' = s2p \o PartOf(buffer.of) /\ UNCHANGED p2c
     \/ /\ p = "proxy" /\ pc[p] = "file" /\ ~Gone("client")
        /\ p2c' = p2c \o PartOf(command.of) /\ UNCHANGED s2p
  /\ UNCHANGED <<clientVars, proxyVars, serverVars, envVars, uneven, broken,
                 c2p, p2s>>

ClientStep == \/ ClientHello \/ ClientRound \/ ClientInt \/ ClientMisreads
              \/ ClientName \/ ClientFile
ProxyStep  == \/ ProxyHello \/ ProxyCommand \/ ProxyTail \/ ProxyReplay
              \/ ProxyJunk \/ ProxyInt \/ ProxyMisreads \/ ProxyName \/ ProxyFile
ServerStep == \/ ServerAccept \/ ServerCommand \/ ServerEOF \/ ServerSecondPass
              \/ ServerName \/ ServerListDone \/ ServerFile \/ ServerUDP

Next ==
  \/ ClientStep \/ ClientCommand \/ ProxyStep \/ ServerStep
  \/ DirChange \/ InputEnd \/ OthersFill \/ OthersDie
  \/ \E p \in Procs : Kill(p)

Spec == Init /\ [][Next]_vars

\* Every process that can run does; the user need not type anything.
FairSpec ==
  Spec /\ WF_vars(ClientStep) /\ WF_vars(ProxyStep) /\ WF_vars(ServerStep)

-----------------------------------------------------------------------------
(* Properties.                                                             *)

Units == [what : {"int", "name", "file", "blocks", "part", "rest"}, val : Nat, of : Nat]
Texts == [kind : Kinds \cup {"byTCP", "byUDP", "junk", "tail"}, of : Nat]

\* Types of the three processes' variables and of what is on the streams.
TypeOK ==
  /\ pc \in [Procs -> {"off", "queued", "hello", "prompt", "command", "int", "list", "names",
                       "file", "udp", "spin", "garbled", "end", "dead"}]
  /\ sent \in 0..(MaxCommands + Letters) /\ letters \in 0..Letters
  /\ typed \in Kinds /\ eof \in BOOLEAN
  /\ answer \in [val : Nat, of : 0..sent]
  /\ cLeft \in Nat /\ pLeft \in Nat /\ sLeft \in Nat /\ runs \in Nat
  /\ command \in Texts /\ buffer \in Texts
  /\ files \in 0..MaxFiles /\ changes \in 0..MaxTroubles
  /\ uneven \subseteq {"glued", "short", "proxy", "server"}
  /\ broken \subseteq (Procs \X Procs)
  /\ full \in BOOLEAN /\ stuck \in BOOLEAN
  /\ c2p \in Seq(Texts) /\ p2s \in Seq(Texts)
  /\ s2p \in Seq(Units) /\ p2c \in Seq(Units)

\* No read has spoiled a stream for good: server_files did not change between
\* the two passes of a LIST, every DOWNLOAD reached the server in one piece, and
\* no block of a file was read short.
Unspoilt == changes = 0 /\ uneven \cap {"server", "short"} = {}

\* In an unspoilt session no process takes the bytes of a name or of a file for
\* a number, even when names arrive glued together, the proxy reads a DOWNLOAD
\* in two pieces, a download fails or a process is killed.
NeverGarbled == Unspoilt => pc["proxy"] # "garbled" /\ pc["client"] # "garbled"

\* And whatever is on its way to a live client answers the command it waits for:
\* nothing is left over from an earlier command and nothing is answered twice.
RepliesMatch ==
  (Unspoilt /\ ~Gone("client")) => \A i \in DOMAIN p2c : p2c[i].of = sent

\* The client, the proxy and the server stay in step: what is read is what was
\* written for it.
InStep == NeverGarbled /\ RepliesMatch

\* While the client lives, the server works on each command at most once, also
\* when the proxy takes the end of a DOWNLOAD for another command; the end of
\* one that the server itself reads in two pieces counts as one more.
AtMostOnce == (~Gone("client") /\ "server" \notin uneven) => runs <= sent

\* Nothing has come for the client, or only a part of its file.
ClientWaits ==
  /\ pc["client"] \in {"int", "names", "file"}
  /\ \A i \in DOMAIN p2c : pc["client"] = "file" /\ p2c[i].what = "part"

\* The client waits for the proxy, the proxy for either, the server for it.
EverybodyWaits ==
  /\ ClientWaits
  /\ \/ pc["proxy"] = "command" /\ c2p = << >>
     \/ pc["proxy"] \in {"int", "names", "file"} /\ s2p = << >>
  /\ pc["server"] = "command" /\ p2s = << >>

\* All three wait for each other only if a read has merged two messages (the
\* first command lost with the first message, or two names taken for one), has
\* returned less than a block of a file (one of 1500 bytes, of which the proxy
\* first reads 476: it relays 1024 and gives up), if the server has read a
\* DOWNLOAD in two pieces, or server_files has changed under a LIST.
WaitsForAReason ==
  EverybodyWaits => uneven \cap {"glued", "short", "server"} # {} \/ changes > 0

\* The number that is true of the last command the client has sent.
Truth ==
  CASE typed = "LIST" -> files
    [] typed \in {"TCP", "WHOLE", "UDPNOR"} -> 1
    [] OTHER -> 0

\* An unspoilt session keeps the promise of Dialogue to a live client.
Promise ==
  INSTANCE Dialogue WITH asked <- sent, truth <- Truth,
    failed <- Gone("proxy") \/ Gone("server"),
    off <- Gone("client") \/ ~Unspoilt
Dialogues == Promise!Spec

\* A read that did not return one message or block, or a directory that changed.
Disturbed == uneven # {} \/ changes > 0

\* The server child still sends the empty blocks of a file of whole blocks, or
\* there is none: main() accepts nobody any more.
NoServer == pc["server"] = "spin" \/ (full /\ pc["server"] = "queued")

\* The proxy child waits for semSHM, which nobody will post.
Blocked == stuck /\ pc["proxy"] \in {"hello", "file"}

\* When messages and blocks are read one by one, a command is answered to its
\* end: the client prompts again, also when the proxy dies, unless the client
\* dies, the server child does (as it does after a UDP download), it has not come
\* or does not come back to this session, or the proxy waits for semSHM for ever.
AnswersEnd ==
  (pc["client"] \in {"int", "names", "file"}) ~>
    (\/ pc["client"] = "prompt" \/ Gone("client")
     \/ pc["server"] = "dead" \/ NoServer \/ Blocked \/ Disturbed)

\* Whichever process dies, in an undisturbed session that the server serves the
\* client gets the first number of an answer, but for a proxy behind semSHM.
FirstNumber ==
  (pc["client"] = "int") ~> (pc["client"] # "int" \/ NoServer \/ Blocked \/ Disturbed)

\* Every command gets its number, and its answer to the end.
Answered == FirstNumber /\ AnswersEnd

\* When the client has left after a command reached the proxy, the two
\* children it used end too, unless the server child never comes, or never comes
\* back, the proxy waits for semSHM, or something has disturbed the session.
OrphansEnd ==
  (Gone("client") /\ command # Junk) ~>
    ((Gone("proxy") /\ Gone("server")) \/ NoServer \/ Blocked \/ Disturbed)

\* A client whose input has ended stops asking and ends, although it repeats
\* its last DOWNLOAD (client.c:76), unless it waits for a datagram, or an answer
\* does not end for one of the reasons above.
InputEndsClient ==
  eof ~> (\/ Gone("client") \/ pc["client"] = "udp"
          \/ pc["server"] = "dead" \/ NoServer \/ Blocked \/ Disturbed)

\* The end of the input ends the client, and the client's end its children.
EverybodyEnds == InputEndsClient /\ OrphansEnd

-----------------------------------------------------------------------------
(* What the project report (Projeto IRC.pdf) says of a session.             *)

\* After its first message the client is ready to send commands: to each one it
\* gets the first number of an answer.  So it does, if the server serves it and
\* nobody dies holding semSHM, when messages are read one by one; not when the
\* first command is glued to the first message (proxy.c:166).
ReadyForCommands == (pc["client"] = "int") ~> (pc["client"] # "int" \/ NoServer \/ Blocked)
=============================================================================
