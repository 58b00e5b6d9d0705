---------------------------- MODULE DirectSession ----------------------------
(***************************************************************************)
(* A client that speaks to a server child without a proxy, in the two      *)
(* earlier copies of the program.  "other" is "Projeto (outra copia)",     *)
(* whose makefile builds a server and a client only: the client sends no   *)
(* first message and reads no answer to some DOWNLOADs that the server     *)
(* does answer.  "first" is "Projeto (copia)": its client reads an answer  *)
(* to every command, but sends the server's address first, to which the    *)
(* server answers as to a wrong command.                                   *)
(*                                                                         *)
(* Streams are sequences of units as in Session, short reads of a file's   *)
(* blocks included, and server_files does not change (the two passes over  *)
(* it are the same code as there).                                         *)
(***************************************************************************)
EXTENDS Integers, Sequences

CONSTANTS
  Copies,       \* the copies that may run
  Commands,     \* commands the user may type
  MaxCommands,  \* bound on the commands typed
  Letters,      \* letters a DOWNLOAD can lose at its end and still be one
  MaxFiles,     \* bound on the files in server_files
  Mortal        \* processes that may be killed at any moment

Procs == {"client", "server"}

\* DOWNLOAD by what both sides do with it: TCP NOR of a file ("TCP", or "WHOLE"
\* when it consists of whole blocks) or of none ("NOFILE"); TCP ENC, or no known
\* protocol or mode ("SILENT"); UDP.
Downloads == {"TCP", "WHOLE", "NOFILE", "SILENT", "UDP"}
Kinds     == {"LIST", "QUIT"} \cup Downloads

ASSUME CopiesAssumption   == Copies \subseteq {"first", "other"}
ASSUME CommandsAssumption == Commands \subseteq Kinds
ASSUME BoundsAssumption   == {MaxCommands, Letters, MaxFiles} \subseteq Nat
ASSUME MortalAssumption   == Mortal \subseteq Procs

VARIABLES
  copy,    \* the copy that runs; never changes
  pc,      \* where each process is
  sent,    \* number of commands sent (bounds the model)
  typed,   \* client: what its command buffer asks for
  letters, \* client: letters the DOWNLOAD in it can still lose
  eof,     \* client: its standard input has ended
  cLeft,   \* client: names still to read
  buffer,  \* server: the command it works on
  sLeft,   \* server: names still to write
  unread,  \* history: messages sent whose answer the client does not wait for
  files,   \* number of files in server_files
  uneven,  \* history: how reads did not return exactly one message or block
  broken,  \* processes that have written to the other's closed socket
  c2s, s2c \* the streams

inputVars  == <<copy, sent, typed, letters, eof, unread>>
serverVars == <<buffer, sLeft>>
vars == <<inputVars, pc, cLeft, serverVars, files, uneven, broken, c2s, s2c>>

Text(kind, n) == [kind |-> kind, of |-> n]

Gone(p)  == pc[p] \in {"end", "dead"}
Other(p) == IF p = "client" THEN "server" ELSE "client"

\* A write: lost if the reader is gone; then only the first may succeed.
Write(p, stream, data, next) ==
  IF Gone(Other(p))
  THEN /\ UNCHANGED stream
       /\ \/ p \notin broken /\ broken' = broken \cup {p} /\ pc' = [pc EXCEPT ![p] = next]
          \/ UNCHANGED broken /\ pc' = [pc EXCEPT ![p] = "dead"]
  ELSE stream' = stream \o data /\ UNCHANGED broken /\ pc' = [pc EXCEPT ![p] = next]

AtEOF(p, stream) == stream = << >> /\ Gone(Other(p))
Rest(stream, k)  == SubSeq(stream, k + 1, Len(stream))
Glued(k)         == uneven' = uneven \cup (IF k > 1 THEN {"glued"} ELSE {})

\* What a full buffer leaves of a DOWNLOAD: the end of the array it was in.
Remainder(c) == IF c.kind \in Downloads THEN <<Text("tail", c.of)>> ELSE << >>

\* A file and its size; of whole blocks all but the last, which is never sent.
Unit(what, v, n) == <<[what |-> what, val |-> v, of |-> n]>>
FileOf(c) == Unit(IF c.kind = "WHOLE" THEN "blocks" ELSE "file", 0, c.of)

\* The first copy's client writes the server's address as soon as it has connected.
Init ==
  /\ copy \in Copies
  /\ pc = [client |-> "prompt", server |-> "command"]
  /\ sent = 0 /\ typed = "QUIT" /\ letters = 0 /\ eof = FALSE /\ cLeft = 0
  /\ buffer = Text("QUIT", 0) /\ sLeft = 0
  /\ c2s = IF copy = "first" THEN <<Text("address", 0)>> ELSE << >>
  /\ unread = Len(c2s)
  /\ files \in 0..MaxFiles
  /\ uneven = {} /\ broken = {} /\ s2c = << >>

-----------------------------------------------------------------------------
(* Client: process_client.                                                 *)

\* Mutant: the answer of a SILENT command is read after all.
AfterCommand_Reads(k) ==
  CASE k = "QUIT" -> "end"
    [] k = "UDP"  -> "udp"
    [] OTHER      -> "int"

\* Where the other copy's client goes once it has written the command.
AfterCommand(k) ==
  CASE k = "QUIT"   -> "end"
    [] k = "SILENT" -> "prompt"
    [] k = "UDP"    -> "udp"     \* recvfrom on a socket nobody sends to
    [] OTHER        -> "int"

\* The first copy's client reads an answer to whatever it sends.
AfterCommandFirst(k) == IF k = "QUIT" THEN "end" ELSE "int"

Send(k) ==
  LET next == IF copy = "first" THEN AfterCommandFirst(k) ELSE AfterCommand(k) IN
  /\ typed' = k
  /\ sent' = sent + 1
  /\ unread' = unread + (IF copy = "other" /\ k = "SILENT" THEN 1 ELSE 0)
  /\ Write("client", c2s, <<Text(k, sent')>>, next)

ClientCommand ==
  /\ pc["client"] = "prompt"
  /\ ~eof /\ sent < MaxCommands
  /\ \E k \in Commands :
       /\ Send(k)
       /\ letters' = IF k \in Downloads THEN Letters ELSE 0
  /\ UNCHANGED <<copy, eof, cLeft, serverVars, files, uneven, s2c>>

\* A name that has lost a letter may be another file's, or no file's; without a
\* name, the mode or the protocol may become known, or be known no longer.
Shortened(k) ==
  CASE k \in {"TCP", "WHOLE"} -> {"TCP", "WHOLE", "NOFILE"}
    [] k = "NOFILE"           -> {"TCP", "WHOLE", "NOFILE", "SILENT"}
    [] k = "UDP"              -> {"UDP", "SILENT"}
    [] OTHER                  -> {"SILENT", "NOFILE", "UDP"}

\* At the end of the input the command is sent again, one letter shorter each
\* time, while it is a DOWNLOAD; then strtok of the empty command is null.
ClientRound ==
  /\ pc["client"] = "prompt" /\ eof
  /\ \/ /\ letters > 0
        /\ \E k \in Shortened(typed) : Send(k)
        /\ letters' = letters - 1
     \/ /\ letters = 0
        /\ pc' = [pc EXCEPT !["client"] = "dead"]
        /\ UNCHANGED <<sent, typed, unread, letters, c2s, broken>>
  /\ UNCHANGED <<copy, eof, cLeft, serverVars, files, uneven, s2c>>

\* Mutant: the loop over the names tests its condition at the end.
AfterNumber_NoTest(v) ==
  CASE typed = "LIST"           -> "names"
    [] typed # "LIST" /\ v = 1  -> "file"
    [] OTHER                    -> "prompt"

\* Where the other copy's client goes once it has read the number v.
AfterNumber(v) ==
  CASE typed = "LIST" /\ v > 0 -> "names"
    [] typed # "LIST" /\ v = 1 -> "file"
    [] OTHER                   -> "prompt"

\* The first copy's client takes any number but 0 for a consent.
AfterNumberFirst(v) ==
  CASE typed = "LIST" /\ v > 0                       -> "names"
    [] typed \in {"TCP", "WHOLE", "NOFILE"} /\ v # 0 -> "file"
    [] OTHER                                         -> "prompt"

\* receive_int_TCP.  Bytes of anything else make a senseless number, and what
\* the client does with it is not followed any further.
ClientInt ==
  /\ pc["client"] = "int"
  /\ \/ /\ s2c # << >> /\ Head(s2c).what = "int"
        /\ LET v == Head(s2c).val IN
             /\ cLeft' = v
             /\ pc' = [pc EXCEPT !["client"] =
                         IF copy = "first" THEN AfterNumberFirst(v) ELSE AfterNumber(v)]
        /\ s2c' = Tail(s2c)
     \/ /\ AtEOF("client", s2c)
        /\ pc' = [pc EXCEPT !["client"] = "prompt"]
        /\ UNCHANGED <<cLeft, s2c>>
     \/ /\ s2c # << >> /\ Head(s2c).what # "int"
        /\ pc' = [pc EXCEPT !["client"] = "garbled"]
        /\ UNCHANGED <<cLeft, s2c>>
  /\ UNCHANGED <<inputVars, serverVars, files, uneven, broken, c2s>>

\* One of the n_files reads of a name.  A file would be more than one read.
ClientName ==
  LET next == IF cLeft = 1 THEN "prompt" ELSE "names" IN
  /\ pc["client"] = "names"
  /\ \/ \E k \in DOMAIN s2c :
          /\ s2c' = Rest(s2c, k) /\ Glued(k)
          /\ pc' = [pc EXCEPT !["client"] =
                      IF \E i \in 1..k : s2c[i].what \in {"file", "blocks", "rest"}
                      THEN "garbled" ELSE next]
     \/ /\ AtEOF("client", s2c)
        /\ pc' = [pc EXCEPT !["client"] = next]
        /\ UNCHANGED <<s2c, uneven>>
  /\ cLeft' = cLeft - 1
  /\ UNCHANGED <<inputVars, serverVars, files, broken, c2s>>

\* recebeStringBytesTCP, of a file or, after a wrong answer, of something else.
\* A file that a short read brings to left_size = BUF_SIZE is given up there, with
\* that many bytes in the stream; one of whole blocks is meant to end there.
ClientFile ==
  /\ pc["client"] = "file"
  /\ \/ /\ s2c # << >> /\ Head(s2c).what \in {"file", "blocks"}
        /\ \/ s2c' = Tail(s2c) /\ UNCHANGED uneven
           \/ /\ Head(s2c).what = "file"
              /\ s2c' = Unit("rest", 0, Head(s2c).of) \o Tail(s2c)
              /\ uneven' = uneven \cup {"short"}
        /\ pc' = [pc EXCEPT !["client"] = "prompt"]
     \/ /\ s2c # << >> /\ Head(s2c).what \notin {"file", "blocks"}
        /\ UNCHANGED <<s2c, uneven>>
        /\ pc' = [pc EXCEPT !["client"] = "garbled"]
     \/ /\ AtEOF("client", s2c)
        /\ UNCHANGED <<s2c, uneven>>
        /\ pc' = [pc EXCEPT !["client"] = "prompt"]
  /\ UNCHANGED <<inputVars, cLeft, serverVars, files, broken, c2s>>

-----------------------------------------------------------------------------
(* Server child: process_client.                                           *)

\* The first thing written in answer to c, if anything is.
Say(data, next) == Write("server", s2c, data, next)
Mute(next)      == pc' = [pc EXCEPT !["server"] = next] /\ UNCHANGED <<s2c, broken>>

\* The other copy: count for LIST, refusal for what it does not send.  UDP is
\* answered on a socket of its own (handleUDP sends the file to the server's own
\* port and returns), unless there is no such file or mode.
Reply(c, count, refusal) ==
  \/ c.kind = "LIST" /\ Say(Unit("int", count, c.of), "names")
  \/ c.kind \in {"TCP", "WHOLE"} /\ Say(Unit("int", 1, c.of), "file")
  \/ c.kind \in {"NOFILE", "SILENT", "UDP", "tail"} /\ Say(refusal, "command")
  \/ c.kind = "UDP" /\ Mute("udp")
  \/ c.kind = "QUIT" /\ Mute("end")

\* Mutant: a missing file is not answered.
Answer_NoRefusal(c) == Reply(c, files, IF c.kind = "NOFILE" THEN << >> ELSE Unit("int", 0, c.of))

\* Mutant: the first pass over the directory counts one file less.
Answer_CountsLess(c) == Reply(c, IF files > 0 THEN files - 1 ELSE 0, Unit("int", 0, c.of))

Answer(c) == Reply(c, files, Unit("int", 0, c.of))

\* The first copy: everything but LIST, TCP NOR of a file and QUIT is refused,
\* the address it does not expect too.
AnswerFirst(c) ==
  \/ c.kind = "LIST" /\ Say(Unit("int", files, c.of), "names")
  \/ c.kind \in {"TCP", "WHOLE"} /\ Say(Unit("int", 1, c.of), "file")
  \/ c.kind = "QUIT" /\ Mute("end")
  \/ c.kind \notin {"LIST", "TCP", "WHOLE", "QUIT"} /\ Say(Unit("int", 0, c.of), "command")

\* One read of a command looks at the first unit only.  A short one takes what
\* is glued to it along, a DOWNLOAD may come without its end.
TakeText ==
  \/ /\ Head(c2s).kind \notin Downloads
     /\ \E k \in DOMAIN c2s :
          /\ \A i \in 1..k - 1 : c2s[i].kind \notin Downloads
          /\ c2s' = (IF k > 1 THEN Remainder(c2s[k]) ELSE << >>) \o Rest(c2s, k)
          /\ Glued(k)
  \/ /\ Head(c2s).kind \in Downloads
     /\ \/ c2s' = Tail(c2s) /\ UNCHANGED uneven
        \/ c2s' = Remainder(Head(c2s)) \o Tail(c2s) /\ uneven' = uneven \cup {"split"}

ServerCommand ==
  /\ pc["server"] = "command"
  /\ c2s # << >>
  /\ TakeText
  /\ buffer' = Head(c2s)
  /\ sLeft' = IF Head(c2s).kind = "LIST" THEN files ELSE sLeft
  /\ \/ IF copy = "first" THEN AnswerFirst(Head(c2s)) ELSE Answer(Head(c2s))
     \/ Head(c2s).kind = "tail" /\ Mute("dead")   \* zeros: strtok returns a null pointer
  /\ UNCHANGED <<inputVars, cLeft, files>>

\* Mutant: a child whose client has gone waits for the next command.
ServerEOF_Waits ==
  /\ pc["server"] = "command"
  /\ AtEOF("server", c2s)
  /\ UNCHANGED vars

\* read() returned 0: strtok of the empty buffer is a null pointer.
ServerEOF ==
  /\ pc["server"] = "command"
  /\ AtEOF("server", c2s)
  /\ pc' = [pc EXCEPT !["server"] = "dead"]
  /\ UNCHANGED <<inputVars, cLeft, serverVars, files, uneven, broken, c2s, s2c>>

ServerName ==
  /\ pc["server"] = "names"
  /\ IF sLeft > 0
     THEN sLeft' = sLeft - 1 /\ Say(Unit("name", 0, buffer.of), "names")
     ELSE UNCHANGED sLeft /\ Mute("command")
  /\ UNCHANGED <<inputVars, cLeft, buffer, files, uneven, c2s>>

\* enviaStringBytesTCP, which never returns from a file of whole blocks.
ServerFile ==
  /\ pc["server"] = "file"
  /\ Say(FileOf(buffer), IF buffer.kind = "WHOLE" THEN "spin" ELSE "command")
  /\ UNCHANGED <<inputVars, cLeft, serverVars, files, uneven, c2s>>

\* handleUDP returns.
ServerUDP ==
  /\ pc["server"] = "udp"
  /\ Mute("command")
  /\ UNCHANGED <<inputVars, cLeft, serverVars, files, uneven, c2s>>

-----------------------------------------------------------------------------
InputEnd ==
  /\ ~eof /\ pc["client"] = "prompt"
  /\ eof' = TRUE
  /\ UNCHANGED <<copy, pc, sent, typed, letters, unread, cLeft, serverVars, files, uneven,
                 broken, c2s, s2c>>

\* A file that the kill breaks off is one to the client: it reads what there is
\* and gives up at the end of the stream, if not before.
Kill(p) ==
  /\ p \in Mortal
  /\ ~Gone(p)
  /\ pc' = [pc EXCEPT ![p] = "dead"]
  /\ UNCHANGED <<inputVars, cLeft, serverVars, files, uneven, broken, c2s, s2c>>

ClientStep == ClientRound \/ ClientInt \/ ClientName \/ ClientFile
ServerStep == ServerCommand \/ ServerEOF \/ ServerName \/ ServerFile \/ ServerUDP

Next ==
  \/ ClientCommand \/ InputEnd \/ ClientStep \/ ServerStep
  \/ \E p \in Procs : Kill(p)

Spec == Init /\ [][Next]_vars

\* Both processes run when they can; the user need not type anything.
FairSpec == Spec /\ WF_vars(ClientStep) /\ WF_vars(ServerStep)

-----------------------------------------------------------------------------
(* Properties.                                                             *)

Units == [what : {"int", "name", "file", "blocks", "rest"}, val : Nat, of : Nat]
Texts == [kind : Kinds \cup {"address", "tail"}, of : Nat]

\* Types of the two processes' variables and of what is on the streams.
TypeOK ==
  /\ copy \in Copies
  /\ pc \in [Procs -> {"prompt", "command", "int", "names", "file", "udp", "spin",
                       "garbled", "end", "dead"}]
  /\ sent \in 0..MaxCommands + Letters /\ letters \in 0..Letters
  /\ typed \in Kinds /\ eof \in BOOLEAN
  /\ cLeft \in Nat /\ sLeft \in Nat /\ unread \in Nat
  /\ buffer \in Texts
  /\ files \in 0..MaxFiles /\ uneven \subseteq {"glued", "split", "short"}
  /\ broken \subseteq Procs
  /\ c2s \in Seq(Texts) /\ s2c \in Seq(Units)

\* No read has spoiled a stream for good.
Unspoilt == uneven \cap {"split", "short"} = {}

\* While the client has read an answer to everything it has sent (never in the
\* first copy, in the other until the first SILENT command), every DOWNLOAD
\* reaches the server in one piece and no block of a file is read short, the
\* client never takes one thing for another and everything on its way answers
\* the command it waits for.
InStepUntilSilent ==
  (unread = 0 /\ Unspoilt) =>
    /\ pc["client"] # "garbled"
    /\ ~Gone("client") => \A i \in DOMAIN s2c : s2c[i].of = sent

\* From then on, as long as messages and blocks are read whole, every number the
\* client takes for the answer of its command belongs to an earlier one: it is
\* behind by exactly as many as it has left unread, in either copy.
BehindByUnread ==
  (uneven = {} /\ pc["client"] = "int" /\ s2c # << >> /\ Head(s2c).what = "int") =>
    Head(s2c).of = sent - unread

\* Every command gets something that the client takes for its answer, to the
\* end, although it may be another's, unless messages are not read one by one or
\* the server still sends the empty blocks of an earlier file (server.c:285).
Answered ==
  (pc["client"] \in {"int", "names", "file"}) ~>
     (\/ pc["client"] \in {"prompt", "garbled"} \/ Gone("client")
      \/ uneven # {} \/ pc["server"] = "spin")

\* When the client has left, the server child ends too, unless it never comes
\* back from a file of whole blocks.
OrphanEnds == Gone("client") ~> (Gone("server") \/ pc["server"] = "spin")
=============================================================================
