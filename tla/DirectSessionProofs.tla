------------------------- MODULE DirectSessionProofs -------------------------
(* Theorems about DirectSession, for both copies and any number of         *)
(* commands, letters and files.                                            *)
EXTENDS DirectSession, QueueFacts, TLAPS

Places == {"prompt", "command", "int", "names", "file", "udp", "spin", "garbled", "end",
           "dead"}

-----------------------------------------------------------------------------
(* The invariant.                                                          *)

\* Where each process can be, and what bounds the counters.
BaseInv ==
  /\ TypeOK
  /\ pc["client"] \in Places \ {"command", "spin"}
  /\ pc["server"] \in {"command", "names", "file", "udp", "spin", "end", "dead"}
  /\ sent + letters <= MaxCommands + Letters
  /\ pc["client"] = "names" => cLeft > 0

At(p, place) == pc[p] = place
FileUnits    == {"file", "blocks"}
BulkUnits    == {"file", "blocks", "rest"}
Down         == Gone("server")

\* Names the server is going to write, and whether it writes nothing before it
\* has read another command.
ToCome == IF At("server", "names") THEN sLeft ELSE 0
Quiet  == pc["server"] \in {"command", "spin"} \/ (At("server", "names") /\ sLeft = 0)

\* The client waits for nothing.
AtPrompt == s2c = << >> /\ (Down \/ (c2s = << >> /\ Quiet))

\* The server has not read the client's command yet, or has begun to answer.
Asked ==
  /\ s2c = << >>
  /\ Down \/ (Len(c2s) = 1 /\ c2s[1] = Text(typed, sent) /\ Quiet)

ToldList ==
  /\ typed = "LIST"
  /\ \A i \in 2..Len(s2c) : s2c[i].what = "name"
  /\ Len(s2c) - 1 + ToCome <= s2c[1].val
  /\ Down \/ pc["server"] \in {"names", "command"}

ToldFile ==
  /\ typed \in {"TCP", "WHOLE"} /\ s2c[1].val = 1
  /\ \/ Len(s2c) = 1 /\ (Down \/ At("server", "file"))
     \/ Len(s2c) = 2 /\ s2c[2].what \in FileUnits /\ (Down \/ pc["server"] \in {"command", "spin"})

ToldNo == typed = "NOFILE" /\ s2c[1].val = 0 /\ Len(s2c) = 1 /\ (Down \/ At("server", "command"))

Told ==
  /\ Len(s2c) >= 1 /\ s2c[1].what = "int"
  /\ Down \/ c2s = << >>
  /\ ToldList \/ ToldFile \/ ToldNo

\* It reads the names, of which no more can come than it waits for.
AtNames ==
  /\ \A i \in 1..Len(s2c) : s2c[i].what = "name"
  /\ Len(s2c) + ToCome <= cLeft
  /\ Down \/ (c2s = << >> /\ pc["server"] \in {"names", "command"})

AtFile ==
  /\ Down \/ c2s = << >>
  /\ \/ s2c = << >> /\ (Down \/ At("server", "file"))
     \/ Len(s2c) = 1 /\ s2c[1].what \in FileUnits /\ (Down \/ pc["server"] \in {"command", "spin"})

\* It waits for a datagram: the server may refuse the command unheard.
AtUdp == Down \/ (typed = "UDP" /\ Asked) \/ (c2s = << >> /\ pc["server"] \in {"command", "udp"})

Tied ==
  /\ \A i \in 1..Len(s2c) : s2c[i].of = sent
  /\ At("server", "file") \/ ToCome > 0 => buffer.of = sent
  /\ At("client", "prompt") => AtPrompt
  /\ At("client", "int") => typed \in {"LIST", "TCP", "WHOLE", "NOFILE"} /\ (Asked \/ Told)
  /\ At("client", "names") => AtNames
  /\ At("client", "file") => AtFile
  /\ At("client", "udp") => AtUdp

\* While the client has read every answer, what it does and what the server
\* does belong together.
StepInv ==
  (unread = 0 /\ Unspoilt) =>
    /\ copy = "other" /\ ~At("client", "garbled")
    /\ ~Gone("client") => Tied

-----------------------------------------------------------------------------
\* As long as messages are read one by one and the client makes sense of them.
Following == uneven = {} /\ pc["client"] \in {"prompt", "int", "names", "file"}

\* The message whose answer is the next number the client reads.
Due == sent - unread + (IF At("client", "int") THEN 0 ELSE 1)

\* Behind the i-th unit n names follow, or a file, as far as the server lives
\* to write them.
NamesAfter(i, n) ==
  /\ \A j \in i + 1 .. i + n : j <= Len(s2c) => s2c[j].what = "name"
  /\ i + n > Len(s2c) => Down \/ (At("server", "names") /\ sLeft = i + n - Len(s2c))

FileAfter(i) ==
  IF i < Len(s2c) THEN s2c[i + 1].what \in FileUnits ELSE Down \/ At("server", "file")

\* The stream begins with the answer due, or with what the client has left of
\* the one before.
HeadInv == s2c # << >> => s2c[1].of = IF s2c[1].what = "int" THEN Due ELSE Due - 1

\* Every command has one number, followed by what belongs to it.
ChainInv ==
  \A i \in 1..Len(s2c) - 1 :
    s2c[i + 1].of = IF s2c[i + 1].what = "int" THEN s2c[i].of + 1 ELSE s2c[i].of

PartsInv ==
  /\ \A i \in 1..Len(s2c) : s2c[i].what = "int" => NamesAfter(i, s2c[i].val) \/ FileAfter(i)
  /\ At("client", "names") => NamesAfter(0, cLeft) \/ FileAfter(0)

\* The server has answered all but the commands on their way, which are the last.
LinkInv ==
  /\ \A i \in 1..Len(c2s) :
       /\ c2s[i].of = sent - Len(c2s) + i
       /\ c2s[i].kind \notin {"QUIT", "tail"}
       /\ copy = "other" => c2s[i].kind # "UDP"
  /\ IF s2c = << >> THEN Due = sent - Len(c2s) + 1 ELSE s2c[Len(s2c)].of = sent - Len(c2s)
  /\ pc["server"] \in {"names", "file"} => buffer.of = sent - Len(c2s)

BehindInv == Following => HeadInv /\ ChainInv /\ PartsInv /\ (Down \/ LinkInv)

-----------------------------------------------------------------------------
(* What one step does, in terms of places, lengths and positions.          *)

\* One process goes to one of the places S, the other stays where it is.
Goes(p, S) ==
  /\ pc' \in [Procs -> Places] /\ pc'[p] \in S
  /\ pc'[Other(p)] = pc[Other(p)]

\* What w has written is lost, or has been delivered.
Delivered(w, q, r, x, next) ==
  IF Gone(Other(w)) THEN r = q ELSE pc'[w] = next /\ Pushed(q, r, x)

LEMMA Both == /\ Procs = {"client", "server"}
              /\ Other("client") = "server" /\ Other("server") = "client"
BY DEF Procs, Other

\* What the proofs need of TypeOK about a step.
LEMMA StreamTypes ==
  ASSUME TypeOK
  PROVE  /\ pc \in [Procs -> Places] /\ broken \subseteq Procs
         /\ c2s \in Seq(Texts) /\ s2c \in Seq(Units)
         /\ Len(c2s) \in Nat /\ Len(s2c) \in Nat
         /\ (c2s = << >> <=> Len(c2s) = 0)
         /\ (s2c = << >> <=> Len(s2c) = 0)
         /\ \A i \in 1..Len(c2s) : c2s[i] \in Texts /\ c2s[i].of \in Nat
         /\ \A i \in 1..Len(s2c) : s2c[i] \in Units /\ s2c[i].of \in Nat /\ s2c[i].val \in Nat
<1>1. /\ pc \in [Procs -> Places] /\ broken \subseteq Procs
      /\ c2s \in Seq(Texts) /\ s2c \in Seq(Units)
  BY DEF TypeOK, Places
<1>2. ASSUME NEW S, NEW q \in Seq(S)
      PROVE  Len(q) \in Nat /\ (q = << >> <=> Len(q) = 0) /\ \A i \in 1..Len(q) : q[i] \in S
  OBVIOUS
<1>3. /\ \A i \in 1..Len(c2s) : c2s[i] \in Texts
      /\ \A i \in 1..Len(s2c) : s2c[i] \in Units
  BY <1>1, <1>2
<1>4. /\ \A i \in 1..Len(c2s) : c2s[i].of \in Nat
      /\ \A i \in 1..Len(s2c) : s2c[i].of \in Nat /\ s2c[i].val \in Nat
  BY <1>3 DEF Texts, Units
<1>5. QED BY <1>1, <1>2, <1>3, <1>4

\* Write as a relation: afterwards the stream is r, pc is P and broken is b.
Wrote(w, q, r, d, next, P, b) ==
  IF Gone(Other(w))
  THEN /\ r = q
       /\ \/ b = broken \cup {w} /\ P = [pc EXCEPT ![w] = next]
          \/ b = broken /\ P = [pc EXCEPT ![w] = "dead"]
  ELSE r = q \o d /\ b = broken /\ P = [pc EXCEPT ![w] = next]

\* A write moves the writer only, which dies at most when the reader has gone.
LEMMA WriteFacts ==
  ASSUME NEW S, NEW q \in Seq(S), NEW r, NEW x \in S, NEW w \in Procs, NEW next \in Places,
         NEW P, NEW b,
         pc \in [Procs -> Places], broken \subseteq Procs,
         Wrote(w, q, r, <<x>>, next, P, b)
  PROVE  /\ P \in [Procs -> Places] /\ b \subseteq Procs
         /\ P[w] \in {next, "dead"} /\ P[Other(w)] = pc[Other(w)]
         /\ r \in Seq(S)
         /\ IF Gone(Other(w)) THEN r = q ELSE P[w] = next /\ Pushed(q, r, x)
<1>1. "dead" \in Places /\ Other(w) \in Procs /\ Other(w) # w
  BY DEF Places, Other, Procs
<1>2. b \subseteq Procs
  BY DEF Wrote
<1>3. P = [pc EXCEPT ![w] = next] \/ P = [pc EXCEPT ![w] = "dead"]
  BY DEF Wrote
<1>4. P \in [Procs -> Places] /\ P[Other(w)] = pc[Other(w)] /\ P[w] \in {next, "dead"}
  BY <1>1, <1>3
<1>5. q \o <<x>> \in Seq(S) /\ Pushed(q, q \o <<x>>, x)
  BY OnePushed
<1>6. CASE Gone(Other(w))
  <2>1. r = q
    BY <1>6 DEF Wrote
  <2>2. QED BY <1>2, <1>4, <1>6, <2>1
<1>7. CASE ~Gone(Other(w))
  <2>1. r = q \o <<x>> /\ P = [pc EXCEPT ![w] = next]
    BY <1>7 DEF Wrote
  <2>2. P[w] = next
    BY <2>1
  <2>3. QED BY <1>2, <1>4, <1>5, <1>7, <2>1, <2>2
<1>8. QED BY <1>6, <1>7

\* The client writes to the server.
LEMMA ClientWrites ==
  ASSUME TypeOK, NEW x \in Texts, NEW next \in Places,
         Write("client", c2s, <<x>>, next)
  PROVE  /\ Goes("client", {next, "dead"}) /\ broken' \subseteq Procs
         /\ c2s' \in Seq(Texts) /\ Delivered("client", c2s, c2s', x, next)
<1> DEFINE P == pc'
           b == broken'
           r == c2s'
<1>1. /\ "client" \in Procs /\ pc \in [Procs -> Places] /\ broken \subseteq Procs
      /\ c2s \in Seq(Texts)
  BY StreamTypes, Both
<1>2. Wrote("client", c2s, r, <<x>>, next, P, b)
  BY DEF Write, Wrote
<1> HIDE DEF P, b, r
<1>3. /\ P \in [Procs -> Places] /\ b \subseteq Procs
      /\ P["client"] \in {next, "dead"} /\ P[Other("client")] = pc[Other("client")]
      /\ r \in Seq(Texts)
      /\ IF Gone(Other("client")) THEN r = c2s ELSE P["client"] = next /\ Pushed(c2s, r, x)
  BY <1>1, <1>2, WriteFacts
<1>4. QED BY <1>3 DEF Goes, Delivered, P, b, r

\* The server writes to the client.
LEMMA ServerWrites ==
  ASSUME TypeOK, NEW x \in Units, NEW next \in Places,
         Write("server", s2c, <<x>>, next)
  PROVE  /\ Goes("server", {next, "dead"}) /\ broken' \subseteq Procs
         /\ s2c' \in Seq(Units) /\ Delivered("server", s2c, s2c', x, next)
<1> DEFINE P == pc'
           b == broken'
           r == s2c'
<1>1. /\ "server" \in Procs /\ pc \in [Procs -> Places] /\ broken \subseteq Procs
      /\ s2c \in Seq(Units)
  BY StreamTypes, Both
<1>2. Wrote("server", s2c, r, <<x>>, next, P, b)
  BY DEF Write, Wrote
<1> HIDE DEF P, b, r
<1>3. /\ P \in [Procs -> Places] /\ b \subseteq Procs
      /\ P["server"] \in {next, "dead"} /\ P[Other("server")] = pc[Other("server")]
      /\ r \in Seq(Units)
      /\ IF Gone(Other("server")) THEN r = s2c ELSE P["server"] = next /\ Pushed(s2c, r, x)
  BY <1>1, <1>2, WriteFacts
<1>4. QED BY <1>3 DEF Goes, Delivered, P, b, r

\* A process that just moves.
LEMMA Moved ==
  ASSUME TypeOK, NEW p \in Procs, NEW next \in Places, pc' = [pc EXCEPT ![p] = next]
  PROVE  Goes(p, {next})
<1>1. pc \in [Procs -> Places] /\ Other(p) # p /\ Other(p) \in Procs
  BY StreamTypes DEF Other, Procs
<1>2. QED BY <1>1 DEF Goes

\* Where the client goes with a command.
After(k) == IF copy = "first" THEN AfterCommandFirst(k) ELSE AfterCommand(k)

LEMMA Sends ==
  ASSUME TypeOK, NEW k \in Kinds, Send(k)
  PROVE  /\ typed' = k /\ sent' = sent + 1
         /\ unread' = unread + (IF copy = "other" /\ k = "SILENT" THEN 1 ELSE 0)
         /\ Goes("client", {After(k), "dead"}) /\ broken' \subseteq Procs
         /\ c2s' \in Seq(Texts)
         /\ Delivered("client", c2s, c2s', Text(k, sent + 1), After(k))
<1>1. /\ typed' = k /\ sent' = sent + 1
      /\ unread' = unread + (IF copy = "other" /\ k = "SILENT" THEN 1 ELSE 0)
  BY DEF Send
<1>2. Write("client", c2s, <<Text(k, sent + 1)>>, After(k))
  <2>1. Write("client", c2s, <<Text(k, sent')>>, After(k))
    BY DEF Send, After
  <2>2. QED BY <1>1, <2>1
<1>3. Text(k, sent + 1) \in Texts
  <2>1. sent + 1 \in Nat
    BY BoundsAssumption DEF TypeOK
  <2>2. QED BY <2>1 DEF Text, Texts
<1>4. After(k) \in Places
  BY DEF After, AfterCommand, AfterCommandFirst, Places
<1>5. QED BY <1>1, <1>2, <1>3, <1>4, ClientWrites

\* A round of the client's loop: it sends a command, or dies at the end of its
\* input.
LEMMA Rounds ==
  ASSUME BaseInv, ClientCommand \/ ClientRound
  PROVE  /\ At("client", "prompt")
         /\ UNCHANGED <<copy, eof, cLeft, serverVars, files, uneven, s2c>>
         /\ letters' \in 0..Letters
         /\ \/ /\ \E k \in Kinds : Send(k)
               /\ sent + 1 + letters' <= MaxCommands + Letters
            \/ /\ Goes("client", {"dead"})
               /\ UNCHANGED <<sent, typed, unread, letters, c2s, broken>>
<1>1. /\ TypeOK /\ sent + letters <= MaxCommands + Letters
      /\ sent \in Nat /\ letters \in 0..Letters /\ MaxCommands \in Nat /\ Letters \in Nat
      /\ typed \in Kinds
  BY BoundsAssumption DEF BaseInv, TypeOK
<1>2. CASE ClientCommand
  <2>1. PICK k \in Commands : /\ Send(k)
                              /\ letters' = IF k \in Downloads THEN Letters ELSE 0
    BY <1>2 DEF ClientCommand
  <2>2. k \in Kinds /\ Send(k)
    BY <2>1, CommandsAssumption
  <2>3. /\ letters' \in 0..Letters /\ sent < MaxCommands
        /\ sent + 1 + letters' <= MaxCommands + Letters
    BY <1>1, <1>2, <2>1 DEF ClientCommand
  <2>4. \E j \in Kinds : Send(j)
    BY <2>2
  <2>5. QED BY <1>2, <2>3, <2>4 DEF ClientCommand, At
<1>3. CASE ClientRound /\ letters > 0
  <2>1. PICK k \in Shortened(typed) : Send(k)
    BY <1>3 DEF ClientRound
  <2>2. letters' = letters - 1
    BY <1>3 DEF ClientRound
  <2>3. k \in Kinds
    BY <1>1 DEF Shortened, Kinds, Downloads
  <2>4. letters' \in 0..Letters /\ sent + 1 + letters' <= MaxCommands + Letters
    BY <1>1, <1>3, <2>2
  <2>5. \E j \in Kinds : Send(j)
    BY <2>1, <2>3
  <2>6. QED BY <1>3, <2>4, <2>5 DEF ClientRound, At
<1>4. CASE ClientRound /\ ~(letters > 0)
  <2>1. /\ pc' = [pc EXCEPT !["client"] = "dead"]
        /\ UNCHANGED <<sent, typed, unread, letters, c2s, broken>>
    BY <1>4 DEF ClientRound
  <2>2. Goes("client", {"dead"})
    BY <1>1, <2>1, Moved, Both DEF Places
  <2>3. QED BY <1>1, <1>4, <2>1, <2>2 DEF ClientRound, At
<1>5. QED BY <1>2, <1>3, <1>4

\* Where the client goes with a number.
Then(v) == IF copy = "first" THEN AfterNumberFirst(v) ELSE AfterNumber(v)

\* It reads a number, or 0 at the end of the stream, or something else.
LEMMA IntFacts ==
  ASSUME BaseInv, ClientInt
  PROVE  /\ At("client", "int")
         /\ UNCHANGED <<inputVars, serverVars, files, uneven, broken, c2s>>
         /\ s2c' \in Seq(Units)
         /\ \/ /\ s2c # << >> /\ s2c[1].what = "int"
               /\ cLeft' = s2c[1].val
               /\ Goes("client", {Then(s2c[1].val)}) /\ Dropped(s2c, s2c', 1)
            \/ /\ s2c = << >> /\ Down
               /\ Goes("client", {"prompt"}) /\ UNCHANGED <<cLeft, s2c>>
            \/ /\ s2c # << >> /\ s2c[1].what # "int"
               /\ Goes("client", {"garbled"}) /\ UNCHANGED <<cLeft, s2c>>
<1>1. /\ TypeOK /\ s2c \in Seq(Units) /\ "client" \in Procs
      /\ "prompt" \in Places /\ "garbled" \in Places
  BY StreamTypes, Both DEF BaseInv, Places
<1>2. /\ At("client", "int")
      /\ UNCHANGED <<inputVars, serverVars, files, uneven, broken, c2s>>
  BY DEF ClientInt, At
<1>3. CASE /\ s2c # << >> /\ Head(s2c).what = "int"
           /\ LET v == Head(s2c).val IN
                /\ cLeft' = v
                /\ pc' = [pc EXCEPT !["client"] =
                            IF copy = "first" THEN AfterNumberFirst(v) ELSE AfterNumber(v)]
           /\ s2c' = Tail(s2c)
  <2>1. Head(s2c) = s2c[1] /\ Tail(s2c) \in Seq(Units) /\ Dropped(s2c, Tail(s2c), 1)
    BY <1>1, <1>3, OneRead
  <2>2. Then(s2c[1].val) \in Places
    BY DEF Then, AfterNumber, AfterNumberFirst, Places
  <2>3. pc' = [pc EXCEPT !["client"] = Then(s2c[1].val)]
    BY <1>3, <2>1 DEF Then
  <2>4. Goes("client", {Then(s2c[1].val)})
    BY <1>1, <2>2, <2>3, Moved
  <2>5. QED BY <1>2, <1>3, <2>1, <2>4
<1>4. CASE /\ AtEOF("client", s2c)
           /\ pc' = [pc EXCEPT !["client"] = "prompt"]
           /\ UNCHANGED <<cLeft, s2c>>
  <2>1. s2c = << >> /\ Down
    BY <1>4, Both DEF AtEOF, Down
  <2>2. Goes("client", {"prompt"})
    BY <1>1, <1>4, Moved
  <2>3. QED BY <1>1, <1>2, <1>4, <2>1, <2>2
<1>5. CASE /\ s2c # << >> /\ Head(s2c).what # "int"
           /\ pc' = [pc EXCEPT !["client"] = "garbled"]
           /\ UNCHANGED <<cLeft, s2c>>
  <2>1. Head(s2c) = s2c[1]
    BY <1>1, <1>5, OneRead
  <2>2. Goes("client", {"garbled"})
    BY <1>1, <1>5, Moved
  <2>3. QED BY <1>1, <1>2, <1>5, <2>1, <2>2
<1>6. QED BY <1>3, <1>4, <1>5 DEF ClientInt

\* Where it goes with the last name, and with another.
AfterName == IF cLeft = 1 THEN "prompt" ELSE "names"

LEMMA NameFacts ==
  ASSUME BaseInv, ClientName
  PROVE  /\ At("client", "names") /\ cLeft' = cLeft - 1
         /\ UNCHANGED <<inputVars, serverVars, files, broken, c2s>>
         /\ s2c' \in Seq(Units)
         /\ \/ \E k \in 1..Len(s2c) :
                 /\ Dropped(s2c, s2c', k)
                 /\ uneven' = uneven \cup (IF k > 1 THEN {"glued"} ELSE {})
                 /\ IF \E i \in 1..k : s2c[i].what \in BulkUnits
                    THEN Goes("client", {"garbled"}) ELSE Goes("client", {AfterName})
            \/ /\ s2c = << >> /\ Down
               /\ Goes("client", {AfterName}) /\ UNCHANGED <<s2c, uneven>>
<1>1. /\ TypeOK /\ s2c \in Seq(Units) /\ "client" \in Procs
      /\ "garbled" \in Places /\ AfterName \in Places
      /\ DOMAIN s2c = 1..Len(s2c)
  BY StreamTypes, Both DEF BaseInv, Places, AfterName
<1>2. /\ At("client", "names") /\ cLeft' = cLeft - 1
      /\ UNCHANGED <<inputVars, serverVars, files, broken, c2s>>
  BY DEF ClientName, At
<1>3. ASSUME NEW k \in DOMAIN s2c,
             s2c' = Rest(s2c, k), Glued(k),
             pc' = [pc EXCEPT !["client"] =
                      IF \E i \in 1..k : s2c[i].what \in BulkUnits THEN "garbled" ELSE AfterName]
      PROVE  /\ s2c' \in Seq(Units) /\ Dropped(s2c, s2c', k)
             /\ uneven' = uneven \cup (IF k > 1 THEN {"glued"} ELSE {})
             /\ IF \E i \in 1..k : s2c[i].what \in BulkUnits
                THEN Goes("client", {"garbled"}) ELSE Goes("client", {AfterName})
  <2>1. k \in 1..Len(s2c)
    BY <1>1, <1>3
  <2>2. /\ Rest(s2c, k) \in Seq(Units) /\ Len(Rest(s2c, k)) = Len(s2c) - k
        /\ \A i \in 1..Len(s2c) - k : Rest(s2c, k)[i] = s2c[i + k]
    BY <1>1, <2>1, CutFacts DEF Rest
  <2>3. s2c' \in Seq(Units) /\ Dropped(s2c, s2c', k)
    BY <1>3, <2>1, <2>2 DEF Dropped
  <2>4. IF \E i \in 1..k : s2c[i].what \in BulkUnits
        THEN Goes("client", {"garbled"}) ELSE Goes("client", {AfterName})
    BY <1>1, <1>3, Moved
  <2>5. QED BY <1>3, <2>3, <2>4 DEF Glued
<1>4. CASE /\ AtEOF("client", s2c)
           /\ pc' = [pc EXCEPT !["client"] = AfterName]
           /\ UNCHANGED <<s2c, uneven>>
  <2>1. s2c = << >> /\ Down
    BY <1>4, Both DEF AtEOF, Down
  <2>2. Goes("client", {AfterName})
    BY <1>1, <1>4, Moved
  <2>3. QED BY <1>1, <1>2, <1>4, <2>1, <2>2
<1>5. CASE \E k \in DOMAIN s2c :
             /\ s2c' = Rest(s2c, k) /\ Glued(k)
             /\ pc' = [pc EXCEPT !["client"] =
                      IF \E i \in 1..k : s2c[i].what \in BulkUnits THEN "garbled" ELSE AfterName]
  <2>1. PICK k \in DOMAIN s2c :
             /\ s2c' = Rest(s2c, k) /\ Glued(k)
             /\ pc' = [pc EXCEPT !["client"] =
                      IF \E i \in 1..k : s2c[i].what \in BulkUnits THEN "garbled" ELSE AfterName]
    BY <1>5
  <2>2. /\ s2c' \in Seq(Units) /\ Dropped(s2c, s2c', k)
        /\ uneven' = uneven \cup (IF k > 1 THEN {"glued"} ELSE {})
        /\ IF \E i \in 1..k : s2c[i].what \in BulkUnits
           THEN Goes("client", {"garbled"}) ELSE Goes("client", {AfterName})
    BY <1>3, <2>1
  <2>3. k \in 1..Len(s2c)
    BY <1>1
  <2>4. QED BY <1>2, <2>2, <2>3
<1>6. QED BY <1>4, <1>5 DEF ClientName, AfterName, BulkUnits

LEMMA FileFacts ==
  ASSUME BaseInv, ClientFile
  PROVE  /\ At("client", "file")
         /\ UNCHANGED <<inputVars, cLeft, serverVars, files, broken, c2s>>
         /\ s2c' \in Seq(Units)
         /\ \/ /\ s2c # << >> /\ s2c[1].what \in FileUnits
               /\ Goes("client", {"prompt"}) /\ Dropped(s2c, s2c', 1) /\ UNCHANGED uneven
            \/ /\ s2c = << >> /\ Down
               /\ Goes("client", {"prompt"}) /\ UNCHANGED <<s2c, uneven>>
            \/ /\ s2c # << >> /\ s2c[1].what \notin FileUnits
               /\ Goes("client", {"garbled"}) /\ UNCHANGED <<s2c, uneven>>
            \/ /\ Goes("client", {"prompt"})
               /\ uneven' = uneven \cup {"short"}
<1>1. /\ TypeOK /\ s2c \in Seq(Units) /\ "client" \in Procs
      /\ "prompt" \in Places /\ "garbled" \in Places
  BY StreamTypes, Both DEF BaseInv, Places
<1>2. /\ At("client", "file")
      /\ UNCHANGED <<inputVars, cLeft, serverVars, files, broken, c2s>>
  BY DEF ClientFile, At
<1>3. CASE /\ s2c # << >> /\ Head(s2c).what \in FileUnits
           /\ s2c' = Tail(s2c) /\ UNCHANGED uneven
           /\ pc' = [pc EXCEPT !["client"] = "prompt"]
  <2>1. Head(s2c) = s2c[1] /\ Tail(s2c) \in Seq(Units) /\ Dropped(s2c, Tail(s2c), 1)
    BY <1>1, <1>3, OneRead
  <2>2. Goes("client", {"prompt"})
    BY <1>1, <1>3, Moved
  <2>3. QED BY <1>2, <1>3, <2>1, <2>2
<1>4. CASE /\ s2c # << >> /\ Head(s2c).what \notin FileUnits
           /\ UNCHANGED <<s2c, uneven>>
           /\ pc' = [pc EXCEPT !["client"] = "garbled"]
  <2>1. Head(s2c) = s2c[1]
    BY <1>1, <1>4, OneRead
  <2>2. Goes("client", {"garbled"})
    BY <1>1, <1>4, Moved
  <2>3. QED BY <1>1, <1>2, <1>4, <2>1, <2>2
<1>5. CASE /\ AtEOF("client", s2c)
           /\ UNCHANGED <<s2c, uneven>>
           /\ pc' = [pc EXCEPT !["client"] = "prompt"]
  <2>1. s2c = << >> /\ Down
    BY <1>5, Both DEF AtEOF, Down
  <2>2. Goes("client", {"prompt"})
    BY <1>1, <1>5, Moved
  <2>3. QED BY <1>1, <1>2, <1>5, <2>1, <2>2
<1>6. CASE /\ s2c # << >>
           /\ s2c' = Unit("rest", 0, Head(s2c).of) \o Tail(s2c)
           /\ uneven' = uneven \cup {"short"}
           /\ pc' = [pc EXCEPT !["client"] = "prompt"]
  <2>1. Head(s2c) \in Units /\ Tail(s2c) \in Seq(Units)
    BY <1>1, <1>6, OneRead
  <2>2. [what |-> "rest", val |-> 0, of |-> Head(s2c).of] \in Units
    BY <2>1 DEF Units
  <2>3. s2c' \in Seq(Units)
    BY <1>6, <2>1, <2>2 DEF Unit
  <2>4. Goes("client", {"prompt"})
    BY <1>1, <1>6, Moved
  <2>5. QED BY <1>2, <1>6, <2>3, <2>4
<1>7. QED BY <1>3, <1>4, <1>5, <1>6 DEF ClientFile, FileUnits

\* What a read of a command leaves: the other messages, unless it took several
\* or left the end of one.
LEMMA TakeFacts ==
  ASSUME TypeOK, c2s # << >>, TakeText
  PROVE  /\ c2s' \in Seq(Texts)
         /\ uneven \subseteq uneven' /\ uneven' \subseteq uneven \cup {"glued", "split"}
         /\ Unspoilt' /\ Len(c2s) = 1 => Dropped(c2s, c2s', 1)
         /\ uneven' = {} => Dropped(c2s, c2s', 1)
<1> DEFINE r == c2s'
           v == uneven'
           Goal == /\ r \in Seq(Texts)
                   /\ uneven \subseteq v /\ v \subseteq uneven \cup {"glued", "split"}
                   /\ "split" \notin v /\ Len(c2s) = 1 => Dropped(c2s, r, 1)
                   /\ v = {} => Dropped(c2s, r, 1)
<1>1. /\ c2s \in Seq(Texts) /\ Len(c2s) \in Nat /\ DOMAIN c2s = 1..Len(c2s)
      /\ Head(c2s) \in Texts /\ Tail(c2s) \in Seq(Texts) /\ Dropped(c2s, Tail(c2s), 1)
      /\ \A i \in 1..Len(c2s) : c2s[i] \in Texts
  BY StreamTypes, OneRead
<1>2. ASSUME NEW c \in Texts PROVE Remainder(c) \in Seq(Texts)
  <2>1. Text("tail", c.of) \in Texts
    BY <1>2 DEF Text, Texts
  <2>2. << >> \in Seq(Texts) /\ <<Text("tail", c.of)>> \in Seq(Texts)
    BY <2>1
  <2>3. QED BY <2>2 DEF Remainder
<1>3. ASSUME NEW d \in Seq(Texts), NEW e \in Seq(Texts) PROVE d \o e \in Seq(Texts)
  BY ConcatProperties
<1>4. \/ \E k \in DOMAIN c2s :
           /\ r = (IF k > 1 THEN Remainder(c2s[k]) ELSE << >>) \o Rest(c2s, k)
           /\ v = uneven \cup (IF k > 1 THEN {"glued"} ELSE {})
      \/ r = Tail(c2s) /\ v = uneven
      \/ r = Remainder(Head(c2s)) \o Tail(c2s) /\ v = uneven \cup {"split"}
  BY DEF TakeText, Glued
<1>5. SUFFICES Goal
  BY DEF Unspoilt
<1> HIDE DEF r, v
<1>6. CASE \E k \in DOMAIN c2s :
           /\ r = (IF k > 1 THEN Remainder(c2s[k]) ELSE << >>) \o Rest(c2s, k)
           /\ v = uneven \cup (IF k > 1 THEN {"glued"} ELSE {})
  <2>1. PICK k \in 1..Len(c2s) :
           /\ r = (IF k > 1 THEN Remainder(c2s[k]) ELSE << >>) \o Rest(c2s, k)
           /\ v = uneven \cup (IF k > 1 THEN {"glued"} ELSE {})
    BY <1>1, <1>6
  <2>2. /\ Rest(c2s, k) \in Seq(Texts) /\ Len(Rest(c2s, k)) = Len(c2s) - k
        /\ \A i \in 1..Len(c2s) - k : Rest(c2s, k)[i] = c2s[i + k]
    BY <1>1, CutFacts DEF Rest
  <2>3. CASE k > 1
    <3>1. r \in Seq(Texts)
      BY <1>1, <1>2, <1>3, <2>1, <2>2, <2>3
    <3>2. Len(c2s) # 1 /\ v # {}
      BY <1>1, <2>1, <2>3
    <3>3. QED BY <2>1, <3>1, <3>2
  <2>4. CASE ~(k > 1)
    <3>1. r = Rest(c2s, k) /\ k = 1
      BY <1>1, <2>1, <2>2, <2>4, ConcatEmptySeq
    <3>2. Dropped(c2s, r, 1)
      BY <2>2, <3>1 DEF Dropped
    <3>3. QED BY <2>1, <2>2, <3>1, <3>2
  <2>5. QED BY <2>3, <2>4
<1>7. CASE r = Tail(c2s) /\ v = uneven
  BY <1>1, <1>7
<1>8. CASE r = Remainder(Head(c2s)) \o Tail(c2s) /\ v = uneven \cup {"split"}
  BY <1>1, <1>2, <1>3, <1>8
<1>9. QED BY <1>4, <1>6, <1>7, <1>8

\* The server says x and goes on to next, or says nothing and goes there.
Says(x, next) ==
  /\ Goes("server", {next, "dead"}) /\ broken' \subseteq Procs
  /\ s2c' \in Seq(Units) /\ Delivered("server", s2c, s2c', x, next)
Silently(next) == Goes("server", {next}) /\ UNCHANGED <<s2c, broken>>

Number(v, n) == [what |-> "int", val |-> v, of |-> n]

\* One unit, or none.
LEMMA Speaks ==
  ASSUME TypeOK, NEW w \in {"int", "name", "file"}, NEW v \in Nat, NEW n \in Nat,
         NEW next \in Places, Say(Unit(w, v, n), next)
  PROVE  Says([what |-> w, val |-> v, of |-> n], next)
<1>1. [what |-> w, val |-> v, of |-> n] \in Units
  BY DEF Units
<1>2. Write("server", s2c, <<[what |-> w, val |-> v, of |-> n]>>, next)
  BY DEF Say, Unit
<1>3. QED BY <1>1, <1>2, ServerWrites DEF Says

LEMMA KeepsQuiet ==
  ASSUME TypeOK, NEW next \in Places, Mute(next)
  PROVE  Silently(next)
<1>1. pc' = [pc EXCEPT !["server"] = next] /\ UNCHANGED <<s2c, broken>>
  BY DEF Mute
<1>2. QED BY <1>1, Moved, Both DEF Silently

\* How either copy's server takes and answers a command.
LEMMA CommandFacts ==
  ASSUME BaseInv, ServerCommand
  PROVE  /\ At("server", "command") /\ c2s # << >>
         /\ UNCHANGED <<inputVars, cLeft, files>>
         /\ c2s' \in Seq(Texts)
         /\ uneven \subseteq uneven' /\ uneven' \subseteq uneven \cup {"glued", "split"}
         /\ Unspoilt' /\ Len(c2s) = 1 => Dropped(c2s, c2s', 1)
         /\ uneven' = {} => Dropped(c2s, c2s', 1)
         /\ buffer' = c2s[1]
         /\ sLeft' = IF c2s[1].kind = "LIST" THEN files ELSE sLeft
         /\ \/ c2s[1].kind = "LIST" /\ Says(Number(files, c2s[1].of), "names")
            \/ c2s[1].kind \in {"TCP", "WHOLE"} /\ Says(Number(1, c2s[1].of), "file")
            \/ /\ c2s[1].kind \notin {"LIST", "TCP", "WHOLE", "QUIT"}
               /\ Says(Number(0, c2s[1].of), "command")
            \/ copy # "first" /\ c2s[1].kind = "UDP" /\ Silently("udp")
            \/ c2s[1].kind = "QUIT" /\ Silently("end")
            \/ c2s[1].kind = "tail" /\ Silently("dead")
<1>1. /\ TypeOK /\ c2s # << >> /\ TakeText /\ At("server", "command")
      /\ UNCHANGED <<inputVars, cLeft, files>>
      /\ buffer' = Head(c2s) /\ sLeft' = IF Head(c2s).kind = "LIST" THEN files ELSE sLeft
      /\ \/ IF copy = "first" THEN AnswerFirst(Head(c2s)) ELSE Answer(Head(c2s))
         \/ Head(c2s).kind = "tail" /\ Mute("dead")
  BY DEF BaseInv, ServerCommand, At
<1>2. /\ Head(c2s) = c2s[1] /\ Head(c2s) \in Texts /\ files \in Nat
  <2>1. Head(c2s) = c2s[1] /\ Head(c2s) \in Texts
    BY <1>1, StreamTypes, OneRead
  <2>2. files \in Nat
    BY <1>1, BoundsAssumption DEF TypeOK
  <2>3. QED BY <2>1, <2>2
<1> PICK c \in Texts, F \in Nat : c = c2s[1] /\ F = files
  BY <1>2
<1>c. c.of \in Nat
  BY DEF Texts
<1>3. ASSUME NEW v \in Nat, NEW next \in Places, Say(Unit("int", v, c.of), next)
      PROVE  Says(Number(v, c.of), next)
  BY <1>1, <1>3, <1>c, Speaks DEF Number
<1>4. ASSUME NEW next \in Places, Mute(next) PROVE Silently(next)
  BY <1>1, <1>4, KeepsQuiet
<1>5. /\ "names" \in Places /\ "file" \in Places /\ "command" \in Places /\ "udp" \in Places
      /\ "end" \in Places /\ "dead" \in Places /\ 0 \in Nat /\ 1 \in Nat
  BY DEF Places
<1> DEFINE Outcome ==
            \/ c.kind = "LIST" /\ Says(Number(F, c.of), "names")
            \/ c.kind \in {"TCP", "WHOLE"} /\ Says(Number(1, c.of), "file")
            \/ /\ c.kind \notin {"LIST", "TCP", "WHOLE", "QUIT"}
               /\ Says(Number(0, c.of), "command")
            \/ copy # "first" /\ c.kind = "UDP" /\ Silently("udp")
            \/ c.kind = "QUIT" /\ Silently("end")
            \/ c.kind = "tail" /\ Silently("dead")
<1>6. Outcome
  <2>1. CASE copy = "first" /\ AnswerFirst(c)
    <3>1. CASE c.kind = "LIST" /\ Say(Unit("int", F, c.of), "names")
      BY <1>2, <1>3, <1>5, <3>1
    <3>2. CASE c.kind \in {"TCP", "WHOLE"} /\ Say(Unit("int", 1, c.of), "file")
      BY <1>3, <1>5, <3>2
    <3>3. CASE c.kind = "QUIT" /\ Mute("end")
      BY <1>4, <1>5, <3>3
    <3>4. CASE /\ c.kind \notin {"LIST", "TCP", "WHOLE", "QUIT"}
               /\ Say(Unit("int", 0, c.of), "command")
      BY <1>3, <1>5, <3>4
    <3>5. QED BY <2>1, <3>1, <3>2, <3>3, <3>4 DEF AnswerFirst, Say, Write
  <2>2. CASE copy # "first" /\ Answer(c)
    <3>1. CASE c.kind = "LIST" /\ Say(Unit("int", F, c.of), "names")
      BY <1>2, <1>3, <1>5, <3>1
    <3>2. CASE c.kind \in {"TCP", "WHOLE"} /\ Say(Unit("int", 1, c.of), "file")
      BY <1>3, <1>5, <3>2
    <3>3. CASE /\ c.kind \in {"NOFILE", "SILENT", "UDP", "tail"}
               /\ Say(Unit("int", 0, c.of), "command")
      BY <1>3, <1>5, <3>3
    <3>4. CASE c.kind = "UDP" /\ Mute("udp")
      BY <1>4, <1>5, <2>2, <3>4
    <3>5. CASE c.kind = "QUIT" /\ Mute("end")
      BY <1>4, <1>5, <3>5
    <3>6. QED BY <2>2, <3>1, <3>2, <3>3, <3>4, <3>5 DEF Answer, Reply, Say, Write
  <2>3. CASE c.kind = "tail" /\ Mute("dead")
    BY <1>4, <1>5, <2>3
  <2>4. QED BY <1>1, <1>2, <2>1, <2>2, <2>3 DEF Answer, AnswerFirst, Reply, Say, Mute
<1>7. QED BY <1>1, <1>2, <1>6, TakeFacts DEF Says, Silently, Delivered, Goes

\* What it writes behind the number.
LEMMA PartFacts ==
  ASSUME BaseInv, ServerName \/ ServerFile
  PROVE  /\ UNCHANGED <<inputVars, cLeft, buffer, files, uneven, c2s>>
         /\ \/ /\ At("server", "names") /\ sLeft > 0 /\ sLeft' = sLeft - 1
               /\ Says([what |-> "name", val |-> 0, of |-> buffer.of], "names")
            \/ /\ At("server", "names") /\ sLeft = 0 /\ sLeft' = sLeft
               /\ Silently("command")
            \/ /\ At("server", "file") /\ sLeft' = sLeft
               /\ \E w \in FileUnits :
                    Says([what |-> w, val |-> 0, of |-> buffer.of],
                         IF buffer.kind = "WHOLE" THEN "spin" ELSE "command")
<1>1. /\ TypeOK /\ buffer.of \in Nat /\ sLeft \in Nat /\ "server" \in Procs
      /\ "names" \in Places /\ "command" \in Places /\ "spin" \in Places
  BY Both DEF BaseInv, TypeOK, Texts, Places
<1> PICK n \in Nat : n = buffer.of
  BY <1>1
<1>2. ASSUME NEW w \in {"name"} \cup FileUnits, NEW next \in Places,
             Write("server", s2c, <<[what |-> w, val |-> 0, of |-> n]>>, next)
      PROVE  Says([what |-> w, val |-> 0, of |-> n], next)
  <2>1. [what |-> w, val |-> 0, of |-> n] \in Units
    BY DEF Units, FileUnits
  <2>2. QED BY <1>1, <1>2, <2>1, ServerWrites DEF Says
<1>3. CASE ServerName /\ sLeft > 0
  <2>1. Write("server", s2c, <<[what |-> "name", val |-> 0, of |-> n]>>, "names")
    BY <1>3 DEF ServerName, Say, Unit, Write
  <2>2. Says([what |-> "name", val |-> 0, of |-> n], "names")
    BY <1>1, <1>2, <2>1
  <2>3. QED BY <1>3, <2>2 DEF ServerName, At, Says, Delivered, Goes
<1>4. CASE ServerName /\ ~(sLeft > 0)
  <2>1. pc' = [pc EXCEPT !["server"] = "command"] /\ UNCHANGED <<s2c, broken>>
    BY <1>4 DEF ServerName, Mute
  <2>2. Silently("command")
    BY <1>1, <2>1, Moved DEF Silently
  <2>3. sLeft = 0
    BY <1>1, <1>4
  <2>4. QED BY <1>4, <2>2, <2>3 DEF ServerName, At
<1>5. CASE ServerFile
  <2> PICK next \in Places : next = IF buffer.kind = "WHOLE" THEN "spin" ELSE "command"
    BY <1>1
  <2> PICK w \in FileUnits : w = IF buffer.kind = "WHOLE" THEN "blocks" ELSE "file"
    BY DEF FileUnits
  <2>1. Write("server", s2c, <<[what |-> w, val |-> 0, of |-> n]>>, next)
    BY <1>5 DEF ServerFile, Say, FileOf, Unit, Write
  <2>2. Says([what |-> w, val |-> 0, of |-> n], next)
    BY <1>1, <1>2, <2>1
  <2>3. QED BY <1>5, <2>2 DEF ServerFile, serverVars, At, Says, Delivered, Goes
<1>6. QED BY <1>3, <1>4, <1>5

\* All other steps move one process and leave the streams alone.
LEMMA OtherFacts ==
  ASSUME BaseInv, \/ ServerEOF \/ ServerUDP \/ InputEnd \/ UNCHANGED vars
                  \/ \E p \in Procs : Kill(p)
  PROVE  /\ UNCHANGED <<copy, sent, typed, letters, unread, cLeft, serverVars, files, uneven,
                        broken, c2s, s2c>>
         /\ eof' \in BOOLEAN
         /\ \/ UNCHANGED pc
            \/ Goes("server", {"dead"})
            \/ At("server", "udp") /\ Goes("server", {"command"})
            \/ Goes("client", {"dead"})
<1>1. TypeOK /\ "dead" \in Places /\ "command" \in Places
  BY DEF BaseInv, Places
<1>2. CASE ServerEOF
  <2>1. pc' = [pc EXCEPT !["server"] = "dead"]
    BY <1>2 DEF ServerEOF
  <2>2. Goes("server", {"dead"})
    BY <1>1, <2>1, Moved, Both
  <2>3. QED BY <1>1, <1>2, <2>2 DEF ServerEOF, inputVars, TypeOK
<1>3. CASE ServerUDP
  <2>1. pc' = [pc EXCEPT !["server"] = "command"] /\ UNCHANGED <<s2c, broken>>
    BY <1>3 DEF ServerUDP, Mute
  <2>2. Goes("server", {"command"})
    BY <1>1, <2>1, Moved, Both
  <2>3. QED BY <1>1, <1>3, <2>1, <2>2 DEF ServerUDP, inputVars, TypeOK, At
<1>4. CASE InputEnd \/ UNCHANGED vars
  BY <1>1, <1>4 DEF InputEnd, vars, inputVars, serverVars, TypeOK
<1>5. ASSUME NEW p \in Procs, Kill(p)
      PROVE  /\ UNCHANGED <<copy, sent, typed, letters, unread, cLeft, serverVars, files,
                            uneven, broken, c2s, s2c>>
             /\ eof' \in BOOLEAN /\ Goes(p, {"dead"})
  <2>1. pc' = [pc EXCEPT ![p] = "dead"]
    BY <1>5 DEF Kill
  <2>2. Goes(p, {"dead"})
    BY <1>1, <2>1, Moved
  <2>3. QED BY <1>1, <1>5, <2>2 DEF Kill, inputVars, TypeOK
<1>6. QED BY <1>2, <1>3, <1>4, <1>5, Both

\* Every step is one of these.
LEMMA Steps ==
  ASSUME [Next]_vars
  PROVE  \/ ClientCommand \/ ClientRound
         \/ ClientInt \/ ClientName \/ ClientFile
         \/ ServerCommand
         \/ ServerName \/ ServerFile
         \/ \/ ServerEOF \/ ServerUDP \/ InputEnd \/ UNCHANGED vars
            \/ \E p \in Procs : Kill(p)
BY DEF Next, ClientStep, ServerStep

\* Where a command or a number sends the client.
LEMMA Ways ==
  /\ \A k \in Kinds : /\ After(k) \in {"end", "udp", "int", "prompt"}
                      /\ k = "QUIT" => After(k) = "end"
                      /\ copy # "first" =>
                           /\ k = "UDP" => After(k) = "udp"
                           /\ After(k) = "prompt" => k = "SILENT"
                           /\ After(k) = "udp" => k = "UDP"
                           /\ After(k) = "int" => k \in {"LIST", "TCP", "WHOLE", "NOFILE"}
                      /\ copy = "first" => After(k) \in {"int", "end"}
  /\ \A v \in Nat : /\ Then(v) \in {"names", "file", "prompt"}
                    /\ Then(v) = "names" => v > 0
                    /\ copy # "first" =>
                         /\ typed = "LIST" => Then(v) = IF v > 0 THEN "names" ELSE "prompt"
                         /\ typed # "LIST" => Then(v) = IF v = 1 THEN "file" ELSE "prompt"
BY DEF After, AfterCommand, AfterCommandFirst, Then, AfterNumber, AfterNumberFirst,
       Kinds, Downloads

-----------------------------------------------------------------------------
LEMMA BaseStep ==
  ASSUME BaseInv, [Next]_vars
  PROVE  BaseInv'
<1>1. /\ TypeOK /\ sent \in Nat /\ MaxCommands \in Nat /\ Letters \in Nat /\ letters \in Nat
      /\ pc \in [Procs -> Places] /\ cLeft \in Nat /\ unread \in Nat
      /\ pc["client"] \in Places \ {"command", "spin"}
      /\ pc["server"] \in {"command", "names", "file", "udp", "spin", "end", "dead"}
      /\ sent + letters <= MaxCommands + Letters
      /\ pc["client"] = "names" => cLeft > 0
      /\ Other("client") = "server" /\ Other("server") = "client"
  BY StreamTypes, Both, BoundsAssumption DEF BaseInv, TypeOK
<1> USE DEF At, Goes
<1>2. CASE ClientCommand \/ ClientRound
  <2>1. /\ UNCHANGED <<copy, eof, cLeft, serverVars, files, uneven, s2c>>
        /\ letters' \in 0..Letters
    BY <1>2, Rounds
  <2>2. ASSUME NEW k \in Kinds, Send(k), sent + 1 + letters' <= MaxCommands + Letters
        PROVE  BaseInv'
    <3>1. /\ typed' = k /\ sent' = sent + 1 /\ unread' \in Nat
          /\ pc' \in [Procs -> Places] /\ pc'["client"] \in {After(k), "dead"}
          /\ pc'["server"] = pc["server"]
          /\ broken' \subseteq Procs /\ c2s' \in Seq(Texts)
      BY <1>1, <2>2, Sends
    <3>2. pc'["client"] \in {"end", "udp", "int", "prompt", "dead"}
      BY <3>1, Ways
    <3>3. sent' \in 0..MaxCommands + Letters /\ sent' + letters' <= MaxCommands + Letters
      <4>1. ASSUME NEW a \in Nat, NEW b \in Nat, NEW L \in Nat, NEW M \in Nat, b \in 0..L,
                   a + 1 + b <= M + L
            PROVE  a + 1 \in 0..M + L /\ (a + 1) + b <= M + L
        BY <4>1
      <4>2. letters' \in Nat
        BY <1>1, <2>1
      <4>3. QED BY <1>1, <2>1, <2>2, <3>1, <4>1, <4>2
    <3>4. TypeOK'
      BY <1>1, <2>1, <3>1, <3>3 DEF TypeOK, serverVars, Places
    <3>5. QED BY <1>1, <3>1, <3>2, <3>3, <3>4 DEF BaseInv, Places
  <2>3. CASE /\ Goes("client", {"dead"})
             /\ UNCHANGED <<sent, typed, unread, letters, c2s, broken>>
    <3>1. TypeOK'
      BY <1>1, <2>1, <2>3 DEF TypeOK, serverVars, Places
    <3>2. QED BY <1>1, <2>3, <3>1 DEF BaseInv, Places
  <2>4. QED BY <1>2, <2>2, <2>3, Rounds
<1>3. CASE ClientInt
  <2>1. /\ UNCHANGED <<inputVars, serverVars, files, uneven, broken, c2s>>
        /\ s2c' \in Seq(Units) /\ cLeft' \in Nat
        /\ pc' \in [Procs -> Places] /\ pc'["server"] = pc["server"]
        /\ pc'["client"] \in {"names", "file", "prompt", "garbled"}
        /\ pc'["client"] = "names" => cLeft' > 0
    <3>1. s2c # << >> => s2c[1].val \in Nat
      BY <1>1, StreamTypes
    <3>2. QED BY <1>1, <1>3, <3>1, IntFacts, Ways
  <2>2. TypeOK'
    BY <1>1, <2>1 DEF TypeOK, inputVars, serverVars, Places
  <2>3. QED BY <1>1, <2>1, <2>2 DEF BaseInv, inputVars, Places
<1>4. CASE ClientName
  <2>1. /\ UNCHANGED <<inputVars, serverVars, files, broken, c2s>>
        /\ s2c' \in Seq(Units) /\ cLeft' = cLeft - 1 /\ cLeft > 0
        /\ pc' \in [Procs -> Places] /\ pc'["server"] = pc["server"]
        /\ pc'["client"] \in {AfterName, "garbled"}
        /\ uneven' \subseteq uneven \cup {"glued"}
    BY <1>1, <1>4, NameFacts
  <2>2. cLeft' \in Nat /\ (pc'["client"] = "names" => cLeft' > 0)
    BY <1>1, <2>1 DEF AfterName
  <2>3. TypeOK'
    BY <1>1, <2>1, <2>2 DEF TypeOK, inputVars, serverVars, Places
  <2>4. QED BY <1>1, <2>1, <2>2, <2>3 DEF BaseInv, inputVars, Places, AfterName
<1>5. CASE ClientFile
  <2>1. /\ UNCHANGED <<inputVars, cLeft, serverVars, files, broken, c2s>>
        /\ s2c' \in Seq(Units) /\ uneven' \in {uneven, uneven \cup {"short"}}
        /\ pc' \in [Procs -> Places] /\ pc'["server"] = pc["server"]
        /\ pc'["client"] \in {"prompt", "garbled"}
    BY <1>1, <1>5, FileFacts
  <2>2. TypeOK'
    BY <1>1, <2>1 DEF TypeOK, inputVars, serverVars, Places
  <2>3. QED BY <1>1, <2>1, <2>2 DEF BaseInv, inputVars, Places
<1>6. CASE ServerCommand
  <2>1. /\ UNCHANGED <<inputVars, cLeft, files>>
        /\ c2s' \in Seq(Texts) /\ uneven' \subseteq uneven \cup {"glued", "split"}
        /\ buffer' = c2s[1] /\ sLeft' \in {files, sLeft} /\ c2s # << >>
    BY <1>6, CommandFacts
  <2>2. /\ pc' \in [Procs -> Places] /\ pc'["client"] = pc["client"]
        /\ pc'["server"] \in {"names", "file", "command", "udp", "end", "dead"}
        /\ s2c' \in Seq(Units) /\ broken' \subseteq Procs
    BY <1>1, <1>6, CommandFacts DEF Says, Silently, TypeOK
  <2>3. buffer' \in Texts /\ sLeft' \in Nat
    BY <1>1, <2>1, StreamTypes, BoundsAssumption DEF TypeOK
  <2>4. TypeOK'
    BY <1>1, <2>1, <2>2, <2>3 DEF TypeOK, inputVars, Places
  <2>5. QED BY <1>1, <2>1, <2>2, <2>4 DEF BaseInv, inputVars, Places
<1>7. CASE ServerName \/ ServerFile
  <2>1. /\ UNCHANGED <<inputVars, cLeft, buffer, files, uneven, c2s>>
        /\ sLeft' \in Nat
    BY <1>1, <1>7, PartFacts DEF TypeOK
  <2>2. /\ pc' \in [Procs -> Places] /\ pc'["client"] = pc["client"]
        /\ pc'["server"] \in {"names", "spin", "command", "dead"}
        /\ s2c' \in Seq(Units) /\ broken' \subseteq Procs
    BY <1>1, <1>7, PartFacts DEF Says, Silently, TypeOK
  <2>3. TypeOK'
    BY <1>1, <2>1, <2>2 DEF TypeOK, inputVars, Places
  <2>4. QED BY <1>1, <2>1, <2>2, <2>3 DEF BaseInv, inputVars, Places
<1>8. CASE \/ ServerEOF \/ ServerUDP \/ InputEnd \/ UNCHANGED vars
           \/ \E p \in Procs : Kill(p)
  <2>1. /\ UNCHANGED <<copy, sent, typed, letters, unread, cLeft, serverVars, files, uneven,
                       broken, c2s, s2c>>
        /\ eof' \in BOOLEAN
        /\ pc' \in [Procs -> Places]
        /\ pc'["server"] \in {pc["server"], "dead", "command"}
        /\ pc'["client"] \in {pc["client"], "dead"}
    BY <1>1, <1>8, OtherFacts
  <2>2. TypeOK'
    BY <1>1, <2>1 DEF TypeOK, serverVars, Places
  <2>3. QED BY <1>1, <2>1, <2>2 DEF BaseInv, Places
<1>9. QED BY <1>2, <1>3, <1>4, <1>5, <1>6, <1>7, <1>8, Steps

LEMMA BaseStart == Init => BaseInv
<1> SUFFICES ASSUME Init PROVE BaseInv
  OBVIOUS
<1>1. /\ pc = [client |-> "prompt", server |-> "command"]
      /\ pc \in [Procs -> Places] /\ pc["client"] = "prompt" /\ pc["server"] = "command"
  BY DEF Init, Procs, Places
<1>2. c2s \in Seq(Texts) /\ s2c \in Seq(Units) /\ Len(c2s) \in Nat
  <2>1. Text("address", 0) \in Texts
    BY DEF Text, Texts
  <2>2. QED BY <2>1 DEF Init
<1>3. Text("QUIT", 0) \in Texts /\ "QUIT" \in Kinds
  BY DEF Text, Texts, Kinds
<1>4. TypeOK
  <2>1. MaxCommands \in Nat /\ Letters \in Nat
    BY BoundsAssumption
  <2>2. 0 \in 0..MaxCommands + Letters /\ 0 \in 0..Letters
    BY <2>1
  <2>3. QED BY <1>1, <1>2, <1>3, <2>2 DEF Init, TypeOK, Places
<1>5. QED BY <1>1, <1>4, BoundsAssumption DEF Init, BaseInv, Places

LEMMA BaseAlways == Spec => []BaseInv
BY BaseStart, BaseStep, PTL DEF Spec

\* The two processes' variables and the streams keep their types.
THEOREM TypeCorrect == Spec => []TypeOK
<1>1. BaseInv => TypeOK
  BY DEF BaseInv
<1>2. QED BY <1>1, BaseAlways, PTL

-----------------------------------------------------------------------------
(* In step while the client reads every answer.                            *)

Together == ~At("client", "garbled") /\ (~Gone("client") => Tied)

\* What a step starts from.
InRegime == BaseInv /\ copy = "other" /\ unread = 0 /\ Unspoilt /\ Together

LEMMA RegimeFacts ==
  ASSUME InRegime
  PROVE  /\ TypeOK /\ sent \in Nat /\ Len(c2s) \in Nat /\ Len(s2c) \in Nat
         /\ sLeft \in Nat /\ cLeft \in Nat /\ files \in Nat
         /\ pc["client"] \in {"prompt", "int", "names", "file", "udp", "end", "dead"}
         /\ pc["server"] \in {"command", "names", "file", "udp", "spin", "end", "dead"}
         /\ At("client", "names") => cLeft > 0
         /\ (s2c = << >> <=> Len(s2c) = 0) /\ (c2s = << >> <=> Len(c2s) = 0)
         /\ \A i \in 1..Len(s2c) : s2c[i].val \in Nat
         /\ ~Gone("client") => Tied
         /\ Other("client") = "server" /\ Other("server") = "client"
<1>1. TypeOK /\ BaseInv
  BY DEF InRegime, BaseInv
<1>2. sent \in Nat /\ files \in Nat
  BY <1>1, BoundsAssumption DEF TypeOK
<1>3. pc["client"] \in {"prompt", "int", "names", "file", "udp", "end", "dead"}
  BY DEF InRegime, BaseInv, Together, At, Places
<1>4. QED BY <1>1, <1>2, <1>3, StreamTypes, Both DEF InRegime, BaseInv, Together, TypeOK, At

LEMMA TogetherSend ==
  ASSUME InRegime, NEW k \in Kinds, Send(k), unread' = 0, At("client", "prompt"),
         UNCHANGED <<copy, cLeft, serverVars, files, uneven, s2c>>
  PROVE  Together'
<1>1. /\ typed' = k /\ sent' = sent + 1 /\ k # "SILENT"
      /\ pc'["client"] \in {After(k), "dead"} /\ pc'["server"] = pc["server"]
      /\ IF Down THEN c2s' = c2s
         ELSE pc'["client"] = After(k) /\ Len(c2s') = Len(c2s) + 1
              /\ c2s'[Len(c2s) + 1] = Text(k, sent + 1)
  BY RegimeFacts, Sends DEF InRegime, Goes, Delivered, Down, Pushed
<1>2. /\ After(k) \in {"end", "udp", "int"}
      /\ After(k) = "udp" => k = "UDP"
      /\ After(k) = "int" => k \in {"LIST", "TCP", "WHOLE", "NOFILE"}
  BY <1>1, Ways DEF InRegime
<1>3. s2c = << >> /\ s2c' = << >> /\ (Down \/ (c2s = << >> /\ Quiet))
  BY RegimeFacts DEF Tied, AtPrompt, At, Gone
<1>4. Asked'
  <2>1. CASE Down
    BY <1>1, <1>3, <2>1 DEF Asked, Down, Gone
  <2>2. CASE ~Down
    <3>1. Len(c2s') = 1 /\ c2s'[1] = Text(k, sent + 1)
      BY <1>1, <1>3, <2>2, RegimeFacts
    <3>2. Text(typed', sent') = Text(k, sent + 1)
      BY <1>1 DEF Text
    <3>3. Quiet'
      BY <1>1, <1>3, <2>2 DEF Quiet, At, serverVars
    <3>4. c2s'[1] = Text(typed', sent')
      BY <3>1, <3>2
    <3>5. QED BY <1>3, <3>1, <3>3, <3>4 DEF Asked
  <2>3. QED BY <2>1, <2>2
<1>5. ~(At("server", "file") \/ ToCome > 0)'
  BY <1>1, <1>3, RegimeFacts DEF Down, Gone, Quiet, ToCome, At, serverVars
<1>6. \A i \in 1..Len(s2c') : FALSE
  BY <1>3, RegimeFacts
<1>7. QED BY <1>1, <1>2, <1>4, <1>5, <1>6 DEF Together, Tied, AtUdp, At, Gone

\* The number it reads is the answer: names follow, or a file, or nothing.
LEMMA TogetherInt ==
  ASSUME InRegime, ClientInt
  PROVE  Together'
<1>1. /\ At("client", "int") /\ pc'["server"] = pc["server"]
      /\ UNCHANGED <<inputVars, serverVars, files, uneven, broken, c2s>>
      /\ \/ /\ s2c # << >> /\ s2c[1].what = "int"
            /\ cLeft' = s2c[1].val
            /\ pc'["client"] = Then(s2c[1].val) /\ Dropped(s2c, s2c', 1)
         \/ /\ s2c = << >> /\ Down
            /\ pc'["client"] = "prompt" /\ UNCHANGED <<cLeft, s2c>>
         \/ /\ s2c # << >> /\ s2c[1].what # "int"
            /\ pc'["client"] = "garbled" /\ UNCHANGED <<cLeft, s2c>>
  BY IntFacts, RegimeFacts DEF InRegime, Goes
<1>2. /\ Tied
      /\ Asked \/ Told
      /\ typed \in {"LIST", "TCP", "WHOLE", "NOFILE"}
  BY <1>1, RegimeFacts DEF Tied, At, Gone
<1>3. s2c # << >> => Told
  BY <1>2 DEF Asked
<1>4. /\ \A i \in 1..Len(s2c') : s2c'[i].of = sent'
      /\ (At("server", "file") \/ ToCome > 0)' => buffer'.of = sent'
  <2>1. \A i \in 1..Len(s2c) : s2c[i].of = sent
    BY <1>2 DEF Tied
  <2>2. \A i \in 1..Len(s2c') : s2c'[i].of = sent'
    BY <1>1, <2>1, RegimeFacts DEF inputVars, Dropped
  <2>3. (At("server", "file") \/ ToCome > 0)' => buffer'.of = sent'
    BY <1>1, <1>2 DEF Tied, At, ToCome, inputVars, serverVars
  <2>4. QED BY <2>2, <2>3
<1>5. CASE s2c = << >> /\ Down /\ pc'["client"] = "prompt" /\ UNCHANGED <<cLeft, s2c>>
  BY <1>1, <1>4, <1>5 DEF Together, Tied, At, AtPrompt, Down, Gone
<1>6. CASE /\ s2c # << >> /\ s2c[1].what = "int" /\ cLeft' = s2c[1].val
           /\ pc'["client"] = Then(s2c[1].val) /\ Dropped(s2c, s2c', 1)
  <2>1. /\ Told /\ s2c[1].val \in Nat /\ Len(s2c') = Len(s2c) - 1
        /\ \A i \in 1..Len(s2c') : s2c'[i] = s2c[i + 1]
        /\ Len(s2c) \in Nat /\ Len(s2c) >= 1
    BY <1>3, <1>6, RegimeFacts DEF Dropped, Told
  <2>2. Len(s2c') = 0 => s2c' = << >>
    <3>1. s2c' \in Seq(Units)
      BY IntFacts DEF InRegime
    <3>2. QED BY <3>1
  <2>3. /\ typed = "LIST" => Then(s2c[1].val) = IF s2c[1].val > 0 THEN "names" ELSE "prompt"
        /\ typed # "LIST" => Then(s2c[1].val) = IF s2c[1].val = 1 THEN "file" ELSE "prompt"
    BY <2>1, Ways DEF InRegime
  <2>4. CASE ToldList
    <3>1. pc'["client"] = IF cLeft' > 0 THEN "names" ELSE "prompt"
      BY <1>6, <2>3, <2>4 DEF ToldList
    <3>2. /\ \A i \in 1..Len(s2c') : s2c'[i].what = "name"
          /\ Len(s2c') + ToCome' <= cLeft'
      <4>1. ToCome' = ToCome
        BY <1>1 DEF ToCome, At, serverVars
      <4>2. Len(s2c') + ToCome' <= cLeft'
        BY <1>6, <2>1, <2>4, <4>1 DEF ToldList
      <4>3. QED BY <2>1, <2>4, <4>2 DEF ToldList
    <3>3. Down' \/ (c2s' = << >> /\ pc'["server"] \in {"names", "command"})
      BY <1>1, <2>1, <2>4 DEF ToldList, Told, Down, Gone
    <3>4. AtNames'
      BY <3>2, <3>3 DEF AtNames
    <3>5. CASE cLeft' > 0
      BY <1>4, <3>1, <3>4, <3>5 DEF Together, Tied, At, Gone
    <3>6. CASE ~(cLeft' > 0)
      <4>1. ToCome' \in Nat /\ cLeft' \in Nat
        BY <1>1, <1>6, <2>1, RegimeFacts DEF ToCome, serverVars
      <4>2. Len(s2c') = 0 /\ ToCome' = 0
        BY <2>1, <3>2, <3>6, <4>1
      <4>3. AtPrompt'
        BY <2>2, <3>3, <4>2, RegimeFacts, <1>1 DEF AtPrompt, Quiet, ToCome, At, Down, Gone
      <4>4. QED BY <1>4, <3>1, <3>6, <4>3 DEF Together, Tied, At, Gone
    <3>7. QED BY <3>5, <3>6
  <2>5. CASE ToldFile
    <3>1. pc'["client"] = "file"
      BY <1>6, <2>3, <2>5 DEF ToldFile
    <3>2. Down' \/ c2s' = << >>
      BY <1>1, <2>1 DEF Told, Down, Gone
    <3>3. AtFile'
      BY <1>1, <2>1, <2>2, <2>5, <3>2 DEF AtFile, ToldFile, At, Down, Gone
    <3>4. QED BY <1>4, <3>1, <3>3 DEF Together, Tied, At, Gone
  <2>6. CASE ToldNo
    <3>1. pc'["client"] = "prompt"
      BY <1>6, <2>3, <2>6 DEF ToldNo
    <3>2. AtPrompt'
      BY <1>1, <2>1, <2>2, <2>6 DEF AtPrompt, Told, ToldNo, Quiet, At, Down, Gone
    <3>3. QED BY <1>4, <3>1, <3>2 DEF Together, Tied, At, Gone
  <2>7. QED BY <2>1, <2>4, <2>5, <2>6 DEF Told
<1>7. QED BY <1>1, <1>3, <1>5, <1>6 DEF Told

LEMMA TogetherName ==
  ASSUME InRegime, ClientName
  PROVE  Together'
<1>1. /\ At("client", "names") /\ cLeft' = cLeft - 1 /\ pc'["server"] = pc["server"]
      /\ UNCHANGED <<inputVars, serverVars, files, broken, c2s>>
      /\ s2c' \in Seq(Units)
      /\ \/ \E k \in 1..Len(s2c) :
              /\ Dropped(s2c, s2c', k)
              /\ pc'["client"] = IF \E i \in 1..k : s2c[i].what \in BulkUnits
                                 THEN "garbled" ELSE AfterName
         \/ s2c = << >> /\ Down /\ pc'["client"] = AfterName /\ UNCHANGED s2c
  BY NameFacts, RegimeFacts DEF InRegime, Goes
<1>2. Tied /\ AtNames /\ cLeft > 0 /\ cLeft \in Nat
  BY <1>1, RegimeFacts DEF Tied, At, Gone
<1>3. /\ Len(s2c') \in Nat /\ (Len(s2c') = 0 => s2c' = << >>)
      /\ \A i \in 1..Len(s2c') : s2c'[i].of = sent' /\ s2c'[i].what = "name"
      /\ Len(s2c') + ToCome' <= cLeft' \/ (s2c' = << >> /\ Down)
      /\ pc'["client"] = AfterName
      /\ (At("server", "file") \/ ToCome > 0)' => buffer'.of = sent'
  <2>1. ToCome' = ToCome /\ sent' = sent /\ buffer' = buffer /\ ToCome \in Nat
    BY <1>1, RegimeFacts DEF ToCome, At, inputVars, serverVars
  <2>2. Len(s2c') \in Nat /\ (Len(s2c') = 0 => s2c' = << >>)
    BY <1>1
  <2>3. /\ \A i \in 1..Len(s2c) : s2c[i].of = sent /\ s2c[i].what = "name"
        /\ Len(s2c) + ToCome <= cLeft
        /\ At("server", "file") \/ ToCome > 0 => buffer.of = sent
    BY <1>2 DEF Tied, AtNames
  <2>4. (At("server", "file") \/ ToCome > 0)' => buffer'.of = sent'
    BY <1>1, <2>1, <2>3 DEF At
  <2>5. CASE \E k \in 1..Len(s2c) :
               /\ Dropped(s2c, s2c', k)
               /\ pc'["client"] = IF \E i \in 1..k : s2c[i].what \in BulkUnits
                                  THEN "garbled" ELSE AfterName
    <3>1. PICK k \in 1..Len(s2c) :
               /\ Dropped(s2c, s2c', k)
               /\ pc'["client"] = IF \E i \in 1..k : s2c[i].what \in BulkUnits
                                  THEN "garbled" ELSE AfterName
      BY <2>5
    <3>2. pc'["client"] = AfterName
      BY <2>3, <3>1, RegimeFacts DEF BulkUnits
    <3>3. \A i \in 1..Len(s2c') : s2c'[i].of = sent' /\ s2c'[i].what = "name"
      BY <2>1, <2>2, <2>3, <3>1, RegimeFacts DEF Dropped
    <3>4. Len(s2c') + ToCome' <= cLeft'
      BY <1>1, <1>2, <2>1, <2>2, <2>3, <3>1, RegimeFacts DEF Dropped
    <3>5. QED BY <2>2, <2>4, <3>2, <3>3, <3>4
  <2>6. CASE s2c = << >> /\ Down /\ pc'["client"] = AfterName /\ UNCHANGED s2c
    BY <2>1, <2>2, <2>3, <2>4, <2>6
  <2>7. QED BY <1>1, <2>5, <2>6
<1>4. Down' \/ (c2s' = << >> /\ pc'["server"] \in {"names", "command"})
  BY <1>1, <1>2 DEF AtNames, Down, Gone
<1>5. ToCome' \in Nat /\ cLeft' \in Nat /\ (Down' => ToCome' = 0) /\ (Down => Down')
  BY <1>1, <1>2, RegimeFacts DEF ToCome, At, serverVars, Down, Gone
<1>6. CASE cLeft = 1
  <2>1. pc'["client"] = "prompt" /\ cLeft' = 0
    BY <1>1, <1>3, <1>6 DEF AfterName
  <2>2. Len(s2c') = 0 /\ ToCome' = 0
    <3>1. CASE Len(s2c') + ToCome' <= cLeft'
      BY <1>3, <1>5, <2>1, <3>1
    <3>2. CASE s2c' = << >> /\ Down
      BY <1>5, <3>2
    <3>3. QED BY <1>3, <3>1, <3>2
  <2>3. AtPrompt'
    BY <1>3, <1>4, <2>2 DEF AtPrompt, Quiet, ToCome, At
  <2>4. QED BY <1>3, <2>1, <2>3 DEF Together, Tied, At, Gone
<1>7. CASE cLeft # 1
  <2>1. pc'["client"] = "names"
    BY <1>1, <1>3, <1>7 DEF AfterName
  <2>2. Len(s2c') + ToCome' <= cLeft'
    <3>1. CASE s2c' = << >> /\ Down
      <4>1. Len(s2c') = 0 /\ ToCome' = 0
        BY <1>5, <3>1
      <4>2. QED BY <1>5, <4>1
    <3>2. QED BY <1>3, <3>1
  <2>3. AtNames'
    BY <1>3, <1>4, <2>2 DEF AtNames
  <2>4. QED BY <1>3, <2>1, <2>3 DEF Together, Tied, At, Gone
<1>8. QED BY <1>6, <1>7

LEMMA TogetherFile ==
  ASSUME InRegime, ClientFile, Unspoilt'
  PROVE  Together'
<1>1. /\ At("client", "file") /\ pc'["server"] = pc["server"]
      /\ UNCHANGED <<inputVars, cLeft, serverVars, files, broken, c2s>>
      /\ s2c' \in Seq(Units)
      /\ \/ /\ s2c # << >> /\ s2c[1].what \in FileUnits
            /\ pc'["client"] = "prompt" /\ Dropped(s2c, s2c', 1)
         \/ s2c = << >> /\ Down /\ pc'["client"] = "prompt" /\ UNCHANGED s2c
         \/ s2c # << >> /\ s2c[1].what \notin FileUnits /\ pc'["client"] = "garbled" /\ UNCHANGED s2c
  BY FileFacts, RegimeFacts DEF InRegime, Goes, Unspoilt
<1>2. Tied /\ AtFile
  BY <1>1, RegimeFacts DEF Tied, At, Gone
<1>3. /\ pc'["client"] = "prompt"
      /\ s2c' = << >> /\ Len(s2c') = 0
      /\ Down \/ (c2s = << >> /\ pc["server"] \in {"command", "spin"})
  <2>1. CASE s2c = << >>
    BY <1>1, <1>2, <2>1, RegimeFacts DEF AtFile, At, Down, Gone
  <2>2. CASE s2c # << >>
    <3>1. /\ Len(s2c) = 1 /\ s2c[1].what \in FileUnits
          /\ Down \/ (c2s = << >> /\ pc["server"] \in {"command", "spin"})
      BY <1>2, <2>2 DEF AtFile
    <3>2. pc'["client"] = "prompt" /\ Len(s2c') = 0
      BY <1>1, <2>2, <3>1 DEF Dropped
    <3>3. QED BY <1>1, <3>1, <3>2
  <2>3. QED BY <2>1, <2>2
<1>4. AtPrompt'
  BY <1>1, <1>3 DEF AtPrompt, Quiet, At, Down, Gone
<1>5. ~(At("server", "file") \/ ToCome > 0)'
  BY <1>1, <1>3 DEF Down, Gone, ToCome, At, serverVars
<1>6. \A i \in 1..Len(s2c') : FALSE
  BY <1>3
<1>7. QED BY <1>3, <1>4, <1>5, <1>6 DEF Together, Tied, At, Gone

\* The server reads the only command on its way, and begins to answer it.
LEMMA TogetherCommand ==
  ASSUME InRegime, ServerCommand, Unspoilt'
  PROVE  Together'
<1>1. /\ At("server", "command") /\ Len(c2s) >= 1 /\ buffer' = c2s[1]
      /\ UNCHANGED <<inputVars, cLeft, files>>
      /\ pc'["client"] = pc["client"]
      /\ sLeft' = IF c2s[1].kind = "LIST" THEN files ELSE sLeft
      /\ c2s' \in Seq(Texts) /\ s2c' \in Seq(Units)
  BY CommandFacts, RegimeFacts, StreamTypes DEF InRegime, Says, Silently, Goes, BaseInv
<1>2. ~Gone("client") => Tied
  BY RegimeFacts
<1>3. CASE Gone("client")
  BY <1>1, <1>3 DEF Together, Gone, At
<1>4. CASE ~Gone("client")
  <2>1. Tied /\ ~Down
    BY <1>1, <1>2, <1>4 DEF Down, Gone, At
  <2>2. \/ At("client", "int") /\ typed \in {"LIST", "TCP", "WHOLE", "NOFILE"}
        \/ At("client", "udp") /\ typed = "UDP"
    BY <1>1, <1>4, <2>1, RegimeFacts
       DEF Tied, AtPrompt, AtNames, AtFile, AtUdp, Told, At, Gone
  <2>3. Asked
    BY <1>1, <1>4, <2>1, <2>2, RegimeFacts DEF Tied, AtUdp, Told, At
  <2>4. /\ s2c = << >> /\ Len(s2c) = 0 /\ Len(c2s) = 1
        /\ c2s[1].kind = typed /\ c2s[1].of = sent
    BY <2>1, <2>3, RegimeFacts DEF Asked, Text
  <2>5. c2s' = << >>
    BY <1>1, <2>4, CommandFacts DEF InRegime, Dropped
  <2>6. PICK c : c = c2s[1]
    OBVIOUS
  <2>7. \/ typed = "LIST" /\ Says(Number(files, c.of), "names")
        \/ typed \in {"TCP", "WHOLE"} /\ Says(Number(1, c.of), "file")
        \/ typed \in {"NOFILE", "UDP"} /\ Says(Number(0, c.of), "command")
        \/ typed = "UDP" /\ Silently("udp")
    BY <2>2, <2>4, <2>6, CommandFacts DEF InRegime, Says, Silently, Goes, Delivered
  <2>8. ASSUME NEW v, NEW next, Says(Number(v, c.of), next)
        PROVE  /\ pc'["server"] = next /\ Len(s2c') = 1
               /\ s2c'[1].what = "int" /\ s2c'[1].val = v /\ s2c'[1].of = sent
    BY <1>4, <2>4, <2>6, <2>8, RegimeFacts DEF Says, Delivered, Pushed, Number
  <2>9. /\ typed' = typed /\ sent' = sent /\ buffer'.of = sent
    BY <1>1, <2>4 DEF inputVars
  <2>10. \A i \in 1..Len(s2c') : s2c'[i].of = sent'
    <3>1. CASE Silently("udp")
      BY <2>4, <2>9, <3>1 DEF Silently
    <3>2. QED BY <2>7, <2>8, <2>9, <3>1
  <2>11. (At("server", "file") \/ ToCome > 0)' => buffer'.of = sent'
    BY <2>9
  <2>12. CASE At("client", "int")
    <3>1. Len(s2c') = 1 /\ s2c'[1].what = "int" /\ (ToldList \/ ToldFile \/ ToldNo)'
      <4>1. CASE typed = "LIST" /\ Says(Number(files, c.of), "names")
        <5>1. /\ pc'["server"] = "names" /\ Len(s2c') = 1
              /\ s2c'[1].what = "int" /\ s2c'[1].val = files
          BY <2>8, <4>1
        <5>2. ToCome' = files
          BY <1>1, <2>4, <4>1, <5>1 DEF ToCome, At
        <5>3. (Len(s2c) - 1 + ToCome <= s2c[1].val)'
          BY <5>1, <5>2, RegimeFacts
        <5>4. QED BY <2>9, <4>1, <5>1, <5>3 DEF ToldList
      <4>2. CASE typed \in {"TCP", "WHOLE"} /\ Says(Number(1, c.of), "file")
        BY <2>8, <2>9, <4>2 DEF ToldFile, At
      <4>3. CASE typed = "NOFILE" /\ Says(Number(0, c.of), "command")
        BY <2>8, <2>9, <4>3 DEF ToldNo, At
      <4>4. QED BY <2>2, <2>7, <2>12, <4>1, <4>2, <4>3 DEF At
    <3>2. Told'
      BY <2>5, <3>1 DEF Told
    <3>3. typed' \in {"LIST", "TCP", "WHOLE", "NOFILE"}
      BY <2>2, <2>9, <2>12 DEF At
    <3>4. QED BY <1>1, <2>10, <2>11, <2>12, <3>2, <3>3 DEF Together, Tied, At, Gone
  <2>13. CASE At("client", "udp")
    <3>1. pc'["server"] \in {"command", "udp"}
      <4>1. CASE Silently("udp")
        BY <4>1 DEF Silently, Goes
      <4>2. QED BY <2>2, <2>7, <2>8, <2>13, <4>1 DEF At
    <3>2. AtUdp'
      BY <2>5, <3>1 DEF AtUdp
    <3>3. QED BY <1>1, <2>10, <2>11, <2>13, <3>2 DEF Together, Tied, At, Gone
  <2>14. QED BY <2>2, <2>12, <2>13
<1>5. QED BY <1>3, <1>4

\* It goes on with its answer, which the client has not read to the end.
LEMMA TogetherPart ==
  ASSUME InRegime, ServerName \/ ServerFile
  PROVE  Together'
<1>1. /\ UNCHANGED <<inputVars, cLeft, buffer, files, uneven, c2s>>
      /\ pc'["client"] = pc["client"] /\ ~Down
      /\ Len(c2s) \in Nat /\ Len(s2c) \in Nat /\ sLeft \in Nat /\ s2c' \in Seq(Units)
      /\ s2c = << >> <=> Len(s2c) = 0
  BY PartFacts, RegimeFacts DEF InRegime, Says, Silently, Goes, At, Down, Gone, BaseInv, TypeOK
<1>2. CASE Gone("client")
  BY <1>1, <1>2 DEF Together, Gone, At
<1>3. CASE ~Gone("client") /\ At("server", "names") /\ sLeft = 0 /\ sLeft' = sLeft /\ Silently("command")
  <2>1. /\ Tied /\ pc'["server"] = "command" /\ s2c' = s2c
        /\ pc["server"] = "names" /\ ToCome = 0 /\ ToCome' = 0
    BY <1>3, RegimeFacts DEF Silently, Goes, At, ToCome
  <2>2. \A i \in 1..Len(s2c') : s2c'[i].of = sent'
    BY <1>1, <2>1 DEF Tied, inputVars
  <2>3. Quiet' /\ ~At("server", "file")'
    BY <2>1 DEF Quiet, At
  <2>4. At("client", "prompt") => AtPrompt'
    BY <1>1, <2>1, <2>3 DEF Tied, AtPrompt
  <2>5. (Asked => Asked') /\ (Told => Told')
    <3>1. Asked => Asked'
      BY <1>1, <2>1, <2>3 DEF Asked, inputVars, Text
    <3>2. ToldList => ToldList'
      BY <1>1, <2>1 DEF ToldList, inputVars
    <3>3. ~ToldFile /\ ~ToldNo
      BY <1>1, <2>1 DEF ToldFile, ToldNo, At
    <3>4. QED BY <1>1, <2>1, <3>1, <3>2, <3>3 DEF Told
  <2>6. At("client", "names") => AtNames'
    BY <1>1, <2>1 DEF Tied, AtNames
  <2>7. ~At("client", "file")
    BY <1>1, <2>1 DEF Tied, AtFile, At
  <2>8. At("client", "udp") => AtUdp'
    BY <1>1, <2>1, <2>5 DEF Tied, AtUdp, At, inputVars
  <2>9. At("client", "int") => typed' \in {"LIST", "TCP", "WHOLE", "NOFILE"} /\ (Asked' \/ Told')
    BY <1>1, <2>1, <2>5 DEF Tied, inputVars
  <2>10. \A place \in Places : At("client", place)' <=> At("client", place)
    BY <1>1 DEF At
  <2>11. ~At("client", "garbled")
    BY DEF InRegime, Together
  <2>12. QED BY <2>1, <2>2, <2>3, <2>4, <2>6, <2>7, <2>8, <2>9, <2>10, <2>11
             DEF Together, Tied, Places
<1>4. CASE /\ ~Gone("client") /\ At("server", "names") /\ sLeft > 0 /\ sLeft' = sLeft - 1
           /\ Says([what |-> "name", val |-> 0, of |-> buffer.of], "names")
  <2>1. Tied /\ pc["server"] = "names" /\ ToCome = sLeft /\ buffer.of = sent
    BY <1>4, RegimeFacts DEF Tied, At, ToCome
  <2>2. /\ pc'["server"] = "names" /\ ToCome' = sLeft - 1
        /\ Len(s2c') = Len(s2c) + 1
        /\ s2c'[Len(s2c) + 1].what = "name" /\ s2c'[Len(s2c) + 1].of = sent
        /\ \A i \in 1..Len(s2c) : s2c'[i] = s2c[i]
    BY <1>4, <2>1, RegimeFacts DEF Says, Delivered, Pushed, At, ToCome
  <2>3. \A i \in 1..Len(s2c') : s2c'[i].of = sent' /\ buffer'.of = sent'
    BY <1>1, <2>1, <2>2 DEF Tied, inputVars
  <2>4. buffer'.of = sent'
    BY <1>1, <2>1 DEF inputVars
  <2>5. \/ At("client", "int") /\ Told /\ ToldList
        \/ At("client", "names") /\ AtNames
    BY <1>1, <1>4, <2>1, RegimeFacts
       DEF Tied, AtPrompt, Asked, Told, ToldFile, ToldNo, AtFile, AtUdp, Quiet, At, Gone, Down
  <2>6. CASE At("client", "int") /\ Told /\ ToldList
    <3>1. /\ Len(s2c) >= 1 /\ s2c'[1] = s2c[1] /\ s2c[1].what = "int"
          /\ Len(s2c) - 1 + ToCome <= s2c[1].val
          /\ \A i \in 2..Len(s2c) : s2c[i].what = "name"
          /\ s2c[1].val \in Nat
      BY <1>1, <2>2, <2>6, RegimeFacts DEF Told, ToldList
    <3>2. Len(s2c') - 1 + ToCome' <= s2c'[1].val
      BY <1>1, <2>1, <2>2, <3>1
    <3>3. \A i \in 2..Len(s2c') : s2c'[i].what = "name"
      BY <1>1, <2>2, <3>1
    <3>4. ToldList'
      BY <1>1, <2>2, <2>6, <3>2, <3>3 DEF ToldList, inputVars
    <3>5. Told'
      BY <1>1, <2>2, <2>6, <3>1, <3>4 DEF Told
    <3>6. QED BY <1>1, <2>1, <2>3, <2>4, <2>6, <3>5 DEF Together, Tied, At, Gone, inputVars
  <2>7. CASE At("client", "names") /\ AtNames
    <3>1. AtNames'
      BY <1>1, <2>1, <2>2, <2>7 DEF AtNames
    <3>2. QED BY <1>1, <2>3, <2>4, <2>7, <3>1 DEF Together, Tied, At, Gone
  <2>8. QED BY <2>5, <2>6, <2>7
<1>5. CASE /\ ~Gone("client") /\ At("server", "file") /\ sLeft' = sLeft
           /\ \E w \in FileUnits :
                Says([what |-> w, val |-> 0, of |-> buffer.of],
                     IF buffer.kind = "WHOLE" THEN "spin" ELSE "command")
  <2>1. Tied /\ pc["server"] = "file" /\ buffer.of = sent
    BY <1>5, RegimeFacts DEF Tied, At
  <2>2. /\ pc'["server"] \in {"spin", "command"} /\ ToCome' = 0
        /\ Len(s2c') = Len(s2c) + 1
        /\ s2c'[Len(s2c) + 1].what \in FileUnits /\ s2c'[Len(s2c) + 1].of = sent
        /\ \A i \in 1..Len(s2c) : s2c'[i] = s2c[i]
    BY <1>5, <2>1, RegimeFacts DEF Says, Delivered, Pushed, At, ToCome
  <2>3. \A i \in 1..Len(s2c') : s2c'[i].of = sent'
    BY <1>1, <2>1, <2>2 DEF Tied, inputVars
  <2>4. ~At("server", "file")'
    BY <2>2 DEF At
  <2>5. \/ At("client", "int") /\ Told /\ ToldFile
        \/ At("client", "file") /\ AtFile
    BY <1>1, <1>5, <2>1, RegimeFacts
       DEF Tied, AtPrompt, Asked, Told, ToldList, ToldNo, AtNames, AtUdp, Quiet, At, Gone, Down
  <2>6. CASE At("client", "int") /\ Told /\ ToldFile
    <3>1. Len(s2c) = 1 /\ s2c'[1] = s2c[1] /\ s2c[1].what = "int"
      BY <1>1, <2>1, <2>2, <2>6 DEF Told, ToldFile, At
    <3>2. ToldFile'
      BY <1>1, <2>2, <2>6, <3>1 DEF ToldFile, inputVars, At
    <3>3. Told'
      BY <1>1, <2>2, <2>6, <3>1, <3>2 DEF Told
    <3>4. QED BY <1>1, <2>1, <2>2, <2>3, <2>4, <2>6, <3>3
              DEF Together, Tied, At, Gone, inputVars
  <2>7. CASE At("client", "file") /\ AtFile
    <3>1. s2c = << >> /\ Len(s2c) = 0
      BY <1>1, <2>1, <2>7 DEF AtFile, At
    <3>2. AtFile'
      BY <1>1, <2>2, <2>7, <3>1 DEF AtFile, At
    <3>3. QED BY <1>1, <2>2, <2>3, <2>4, <2>7, <3>2 DEF Together, Tied, At, Gone
  <2>8. QED BY <2>5, <2>6, <2>7
<1>6. QED BY <1>1, <1>2, <1>3, <1>4, <1>5, PartFacts DEF InRegime, Says, Silently, Delivered, Goes

\* A process that dies, or returns from handleUDP, takes nothing with it.
LEMMA TogetherOther ==
  ASSUME InRegime, \/ ServerEOF \/ ServerUDP \/ InputEnd \/ UNCHANGED vars
                   \/ \E p \in Procs : Kill(p)
  PROVE  Together'
<1>1. /\ UNCHANGED <<copy, sent, typed, letters, unread, cLeft, serverVars, files, uneven,
                     broken, c2s, s2c>>
      /\ \/ UNCHANGED pc
         \/ Goes("server", {"dead"})
         \/ At("server", "udp") /\ Goes("server", {"command"})
         \/ Goes("client", {"dead"})
  BY OtherFacts DEF InRegime
<1>2. /\ Together /\ Other("client") = "server" /\ Other("server") = "client"
      /\ ToCome \in Nat /\ \A i \in 1..Len(s2c) : s2c[i].val \in Nat
      /\ Len(s2c) \in Nat /\ (s2c = << >> <=> Len(s2c) = 0)
  BY RegimeFacts DEF InRegime, ToCome
<1> USE DEF At, Gone
<1>3. CASE UNCHANGED pc
  BY <1>1, <1>2, <1>3 DEF Together, Tied, AtPrompt, Asked, Told, ToldList, ToldFile, ToldNo,
     AtNames, AtFile, AtUdp, Down, Quiet, ToCome, Text, serverVars
<1>4. CASE Goes("client", {"dead"})
  BY <1>4 DEF Goes, Together
<1>5. CASE Goes("server", {"dead"})
  <2>1. pc'["client"] = pc["client"] /\ pc'["server"] = "dead" /\ Down' /\ ToCome' = 0
    BY <1>2, <1>5 DEF Goes, Down, ToCome
  <2>2. AtPrompt => AtPrompt'
    BY <1>1, <2>1 DEF AtPrompt
  <2>3. Asked => Asked'
    BY <1>1, <2>1 DEF Asked
  <2>4. Told /\ ToldList => ToldList'
    <3>1. Told /\ ToldList => Len(s2c) - 1 <= s2c[1].val
      <4>1. Told => s2c[1].val \in Nat
        BY <1>2 DEF Told
      <4>2. QED BY <1>2, <4>1 DEF ToldList
    <3>2. QED BY <1>1, <2>1, <3>1 DEF ToldList
  <2>5. (ToldFile => ToldFile') /\ (ToldNo => ToldNo')
    BY <1>1, <2>1 DEF ToldFile, ToldNo
  <2>6. Told => Told'
    BY <1>1, <2>1, <2>4, <2>5 DEF Told
  <2>7. AtNames => AtNames'
    <3>1. AtNames => Len(s2c) <= cLeft
      BY <1>2, RegimeFacts DEF AtNames
    <3>2. QED BY <1>1, <2>1, <3>1 DEF AtNames
  <2>8. (AtFile => AtFile') /\ (AtUdp => AtUdp')
    BY <1>1, <2>1 DEF AtFile, AtUdp
  <2>9. QED BY <1>1, <1>2, <2>1, <2>2, <2>3, <2>6, <2>7, <2>8 DEF Together, Tied, serverVars
<1>6. CASE At("server", "udp") /\ Goes("server", {"command"})
  <2>1. /\ pc'["client"] = pc["client"] /\ pc'["server"] = "command" /\ pc["server"] = "udp"
        /\ ~Down /\ ToCome = 0 /\ ToCome' = 0
    BY <1>2, <1>6 DEF Goes, Down, ToCome
  <2>2. ~AtPrompt /\ ~Asked /\ ~Told /\ ~AtNames /\ ~AtFile
    BY <2>1 DEF AtPrompt, Asked, Told, ToldList, ToldFile, ToldNo, AtNames, AtFile, Quiet
  <2>3. AtUdp => AtUdp'
    BY <1>1, <2>1, <2>2 DEF AtUdp
  <2>4. QED BY <1>1, <1>2, <2>1, <2>2, <2>3 DEF Together, Tied, serverVars
<1>7. QED BY <1>1, <1>3, <1>4, <1>5, <1>6

\* What the client leaves unread, and reads that were uneven, stay so.
LEMMA NothingForgotten ==
  ASSUME BaseInv, [Next]_vars
  PROVE  /\ unread' \in Nat /\ unread' >= unread /\ uneven \subseteq uneven'
         /\ copy' = copy
<1>1. unread \in Nat
  BY DEF BaseInv, TypeOK
<1>2. CASE ClientCommand \/ ClientRound
  <2>1. ASSUME NEW k \in Kinds, Send(k) PROVE unread' \in Nat /\ unread' >= unread
    BY <1>1, <2>1 DEF Send
  <2>2. QED BY <1>1, <1>2, <2>1, Rounds
<1>3. CASE ClientInt \/ ClientFile
  BY <1>1, <1>3, IntFacts, FileFacts DEF inputVars
<1>4. CASE ClientName
  BY <1>1, <1>4, NameFacts DEF inputVars
<1>5. CASE ServerCommand
  BY <1>1, <1>5, CommandFacts DEF inputVars
<1>6. CASE ServerName \/ ServerFile
  BY <1>1, <1>6, PartFacts DEF inputVars
<1>7. CASE \/ ServerEOF \/ ServerUDP \/ InputEnd \/ UNCHANGED vars
           \/ \E p \in Procs : Kill(p)
  BY <1>1, <1>7, OtherFacts
<1>8. QED BY <1>2, <1>3, <1>4, <1>5, <1>6, <1>7, Steps

LEMMA StepStep ==
  ASSUME BaseInv, StepInv, [Next]_vars
  PROVE  StepInv'
<1> SUFFICES ASSUME unread' = 0, Unspoilt'
             PROVE  copy' = "other" /\ Together'
  BY DEF StepInv, Together
<1>1. unread = 0 /\ Unspoilt /\ copy' = copy
  <2>1. unread \in Nat
    BY DEF BaseInv, TypeOK
  <2>2. QED BY <2>1, NothingForgotten DEF Unspoilt
<1>2. InRegime /\ copy' = "other"
  BY <1>1 DEF InRegime, StepInv, Together
<1>3. CASE ClientCommand \/ ClientRound
  <2>1. /\ At("client", "prompt") /\ UNCHANGED <<copy, cLeft, serverVars, files, uneven, s2c>>
        /\ (\E k \in Kinds : Send(k)) \/ Goes("client", {"dead"})
    BY <1>3, Rounds
  <2>2. CASE Goes("client", {"dead"})
    BY <1>2, <2>2 DEF Goes, Together, At, Gone
  <2>3. QED BY <1>2, <2>1, <2>2, TogetherSend
<1>4. CASE ClientInt \/ ClientName \/ ClientFile
  BY <1>2, <1>4, TogetherInt, TogetherName, TogetherFile
<1>5. CASE ServerCommand
  BY <1>2, <1>5, TogetherCommand
<1>6. CASE ServerName \/ ServerFile
  BY <1>2, <1>6, TogetherPart
<1>7. CASE \/ ServerEOF \/ ServerUDP \/ InputEnd \/ UNCHANGED vars
           \/ \E p \in Procs : Kill(p)
  BY <1>2, <1>7, TogetherOther
<1>8. QED BY <1>2, <1>3, <1>4, <1>5, <1>6, <1>7, Steps

\* The first copy's client starts with a message unread.
LEMMA StepStart == Init => StepInv
<1> SUFFICES ASSUME Init, unread = 0 PROVE copy = "other" /\ Together
  BY DEF StepInv, Together
<1>1. copy \in {"first", "other"}
  BY CopiesAssumption DEF Init
<1>2. copy = "other" /\ c2s = << >>
  <2>1. copy = "first" => Len(c2s) = 1
    BY DEF Init
  <2>2. QED BY <1>1, <2>1 DEF Init
<1>3. /\ s2c = << >> /\ Len(s2c) = 0 /\ pc["client"] = "prompt" /\ pc["server"] = "command"
  BY DEF Init
<1>4. QED BY <1>2, <1>3 DEF Together, Tied, At, AtPrompt, Quiet, ToCome, Gone

LEMMA StepAlways == Spec => []StepInv
BY BaseStart, BaseStep, StepStart, StepStep, PTL, BaseAlways DEF Spec

\* As long as the client reads an answer to all it sends, and every DOWNLOAD
\* arrives in one piece, everything on its way to the client answers the command
\* it waits for, and it never takes one thing for another.
THEOREM InStepWhileRead == Spec => []InStepUntilSilent
<1>1. BaseInv /\ StepInv => InStepUntilSilent
  <2> SUFFICES ASSUME BaseInv, StepInv, unread = 0, Unspoilt
               PROVE  /\ pc["client"] # "garbled"
                      /\ ~Gone("client") => \A i \in DOMAIN s2c : s2c[i].of = sent
    BY DEF InStepUntilSilent
  <2>1. DOMAIN s2c = 1..Len(s2c)
    BY StreamTypes DEF BaseInv
  <2>2. QED BY <2>1 DEF StepInv, Tied, At
<1>2. QED BY <1>1, BaseAlways, StepAlways, PTL

-----------------------------------------------------------------------------
(* Behind by exactly what the client leaves unread, in either copy.        *)

InFollowing == BaseInv /\ Following /\ HeadInv /\ ChainInv /\ PartsInv /\ (Down \/ LinkInv)

LEMMA FollowingFacts ==
  ASSUME InFollowing
  PROVE  /\ TypeOK /\ sent \in Nat /\ unread \in Nat /\ Due \in Int
         /\ Len(c2s) \in Nat /\ Len(s2c) \in Nat
         /\ sLeft \in Nat /\ cLeft \in Nat /\ files \in Nat
         /\ (s2c = << >> <=> Len(s2c) = 0) /\ (c2s = << >> <=> Len(c2s) = 0)
         /\ \A i \in 1..Len(s2c) : s2c[i].val \in Nat /\ s2c[i].of \in Nat
         /\ \A i \in 1..Len(c2s) : c2s[i].of \in Nat
         /\ uneven = {} /\ pc["client"] \in {"prompt", "int", "names", "file"}
         /\ At("client", "names") => cLeft > 0
         /\ Other("client") = "server" /\ Other("server") = "client"
<1>1. TypeOK
  BY DEF InFollowing, BaseInv
<1>2. sent \in Nat /\ files \in Nat /\ unread \in Nat
  BY <1>1, BoundsAssumption DEF TypeOK
<1>3. Due \in Int
  BY <1>2 DEF Due
<1>4. QED BY <1>1, <1>2, <1>3, StreamTypes, Both
          DEF InFollowing, Following, BaseInv, TypeOK, At

\* A unit read from the front: what is left is still in order, and so is what
\* belongs to each number in it.
LEMMA FollowingDrop ==
  ASSUME InFollowing, Dropped(s2c, s2c', 1), s2c' \in Seq(Units),
         UNCHANGED <<copy, sent, unread, serverVars, c2s>>, pc'["server"] = pc["server"],
         Due' = IF s2c[1].what = "int" THEN Due + 1 ELSE Due
  PROVE  /\ HeadInv' /\ ChainInv' /\ (Down \/ LinkInv)'
         /\ \A i \in 1..Len(s2c') :
              s2c'[i].what = "int" => NamesAfter(i, s2c[i].val)' \/ FileAfter(i)'
         /\ \A n \in Nat : n > 0 =>
              /\ NamesAfter(1, n) => NamesAfter(0, n)'
              /\ NamesAfter(0, n) => NamesAfter(0, n - 1)'
         /\ FileAfter(1) => FileAfter(0)'
<1>1. /\ Len(s2c) \in Nat /\ Len(s2c) >= 1 /\ Len(s2c') = Len(s2c) - 1 /\ Len(s2c') \in Nat
      /\ \A i \in 1..Len(s2c') : s2c'[i] = s2c[i + 1]
      /\ s2c # << >> /\ (s2c' = << >> <=> Len(s2c') = 0)
  BY FollowingFacts DEF Dropped
<1>2. s2c[1].of = IF s2c[1].what = "int" THEN Due ELSE Due - 1
  BY <1>1 DEF InFollowing, HeadInv
<1>3. Due' - 1 = s2c[1].of /\ Due' \in Int /\ Due \in Int
  BY <1>2, FollowingFacts
<1>4. HeadInv'
  <2> SUFFICES ASSUME s2c' # << >>
               PROVE  s2c'[1].of = IF s2c'[1].what = "int" THEN Due' ELSE Due' - 1
    BY DEF HeadInv
  <2>1. 1 \in 1..Len(s2c) - 1 /\ s2c'[1] = s2c[1 + 1]
    BY <1>1
  <2>2. s2c[1 + 1].of = IF s2c[1 + 1].what = "int" THEN s2c[1].of + 1 ELSE s2c[1].of
    BY <2>1 DEF InFollowing, ChainInv
  <2>3. s2c[1].of + 1 = Due'
    BY <1>3
  <2>4. QED BY <1>3, <2>1, <2>2, <2>3
<1>5. ChainInv'
  <2> SUFFICES ASSUME NEW i \in 1..Len(s2c') - 1
               PROVE  s2c'[i + 1].of = IF s2c'[i + 1].what = "int"
                                       THEN s2c'[i].of + 1 ELSE s2c'[i].of
    BY DEF ChainInv
  <2>1. /\ i + 1 \in 1..Len(s2c) - 1 /\ i \in 1..Len(s2c') /\ i + 1 \in 1..Len(s2c')
        /\ s2c'[i] = s2c[i + 1] /\ s2c'[i + 1] = s2c[(i + 1) + 1]
    BY <1>1
  <2>2. s2c[(i + 1) + 1].of = IF s2c[(i + 1) + 1].what = "int"
                              THEN s2c[i + 1].of + 1 ELSE s2c[i + 1].of
    BY <2>1 DEF InFollowing, ChainInv
  <2>3. QED BY <2>1, <2>2
<1>6. (Down \/ LinkInv)'
  <2>1. CASE Down
    BY <2>1 DEF Down, Gone
  <2>2. CASE ~Down
    <3>1. LinkInv
      BY <2>2 DEF InFollowing
    <3>2. \A i \in 1..Len(c2s') : /\ c2s'[i].of = sent' - Len(c2s') + i
                                  /\ c2s'[i].kind \notin {"QUIT", "tail"}
                                  /\ copy' = "other" => c2s'[i].kind # "UDP"
      BY <3>1 DEF LinkInv
    <3>3. pc'["server"] \in {"names", "file"} => buffer'.of = sent' - Len(c2s')
      BY <3>1 DEF LinkInv, serverVars
    <3>4. s2c[Len(s2c)].of = sent - Len(c2s)
      BY <1>1, <3>1 DEF LinkInv
    <3>5. CASE s2c' = << >>
      <4>0. Len(s2c) = 1
        BY <1>1, <3>5
      <4>1. s2c[1].of = sent - Len(c2s)
        BY <3>4, <4>0
      <4>2. Due' = sent' - Len(c2s') + 1
        BY <1>3, <4>1, FollowingFacts
      <4>3. QED BY <3>2, <3>3, <3>5, <4>2 DEF LinkInv
    <3>6. CASE s2c' # << >>
      <4>1. s2c'[Len(s2c')] = s2c[Len(s2c)]
        BY <1>1, <3>6
      <4>2. s2c'[Len(s2c')].of = sent' - Len(c2s')
        BY <3>4, <4>1
      <4>3. QED BY <3>2, <3>3, <3>6, <4>2 DEF LinkInv
    <3>7. QED BY <3>5, <3>6
  <2>3. QED BY <2>1, <2>2
<1>7. ASSUME NEW i \in Nat, NEW n \in Nat, NamesAfter(i + 1, n) PROVE NamesAfter(i, n)'
  <2>1. ASSUME NEW j \in i + 1 .. i + n, j <= Len(s2c') PROVE s2c'[j].what = "name"
    <3>1. j + 1 \in (i + 1) + 1 .. (i + 1) + n /\ j + 1 <= Len(s2c) /\ s2c'[j] = s2c[j + 1]
      BY <1>1, <2>1
    <3>2. QED BY <1>7, <3>1 DEF NamesAfter
  <2>2. ASSUME i + n > Len(s2c')
        PROVE  Down' \/ (At("server", "names")' /\ sLeft' = i + n - Len(s2c'))
    <3>1. (i + 1) + n > Len(s2c) /\ (i + 1) + n - Len(s2c) = i + n - Len(s2c')
      BY <1>1, <2>2
    <3>2. Down \/ (At("server", "names") /\ sLeft = i + n - Len(s2c'))
      BY <1>7, <3>1 DEF NamesAfter
    <3>3. QED BY <3>2 DEF Down, Gone, At, serverVars
  <2>3. QED BY <2>1, <2>2 DEF NamesAfter
<1>8. ASSUME NEW i \in Nat, FileAfter(i + 1), i <= Len(s2c') PROVE FileAfter(i)'
  <2>1. CASE i < Len(s2c')
    <3>1. i + 1 < Len(s2c) /\ s2c'[i + 1] = s2c[(i + 1) + 1]
      BY <1>1, <2>1
    <3>2. QED BY <1>8, <2>1, <3>1 DEF FileAfter
  <2>2. CASE ~(i < Len(s2c'))
    <3>1. ~(i + 1 < Len(s2c))
      BY <1>1, <2>2
    <3>2. Down \/ At("server", "file")
      BY <1>8, <3>1 DEF FileAfter
    <3>3. QED BY <2>2, <3>2 DEF FileAfter, Down, Gone, At
  <2>3. QED BY <2>1, <2>2
<1>9. ASSUME NEW i \in 1..Len(s2c'), s2c'[i].what = "int"
      PROVE  NamesAfter(i, s2c[i].val)' \/ FileAfter(i)'
  <2>1. /\ i + 1 \in 1..Len(s2c) /\ s2c[i + 1] = s2c'[i] /\ i \in Nat /\ i <= Len(s2c')
        /\ s2c[i + 1].val \in Nat
    BY <1>1, FollowingFacts
  <2>2. NamesAfter(i + 1, s2c[i + 1].val) \/ FileAfter(i + 1)
    BY <1>9, <2>1 DEF InFollowing, PartsInv
  <2>3. PICK n \in Nat : n = s2c[i + 1].val
    BY <2>1
  <2>4. NamesAfter(i + 1, n) \/ FileAfter(i + 1)
    BY <2>2, <2>3 DEF NamesAfter
  <2>5. NamesAfter(i, n)' \/ FileAfter(i)'
    BY <1>7, <1>8, <2>1, <2>4
  <2>6. n = s2c'[i].val
    BY <2>1, <2>3
  <2>7. QED BY <2>5, <2>6 DEF NamesAfter
<1>10. ASSUME NEW n \in Nat, n > 0
       PROVE  /\ NamesAfter(1, n) => NamesAfter(0, n)'
              /\ NamesAfter(0, n) => NamesAfter(0, n - 1)'
  <2>1. NamesAfter(1, n) => NamesAfter(0, n)'
    <3>1. 0 \in Nat /\ 0 + 1 = 1
      OBVIOUS
    <3>2. QED BY <1>7, <3>1
  <2>2. ASSUME NamesAfter(0, n) PROVE NamesAfter(1, n - 1)
    <3>1. 1 + (n - 1) = 0 + n
      BY <1>10
    <3>2. \A j \in 1 + 1 .. 1 + (n - 1) : j \in 0 + 1 .. 0 + n
      BY <1>10
    <3>3. QED BY <2>2, <3>1, <3>2 DEF NamesAfter
  <2>3. n - 1 \in Nat /\ 0 \in Nat /\ 0 + 1 = 1
    BY <1>10
  <2>4. NamesAfter(0, n) => NamesAfter(0, n - 1)'
    BY <1>7, <2>2, <2>3
  <2>5. QED BY <2>1, <2>4
<1>11. FileAfter(1) => FileAfter(0)'
  <2>1. 0 \in Nat /\ 0 + 1 = 1 /\ 0 <= Len(s2c')
    BY <1>1
  <2>2. QED BY <1>8, <2>1
<1>12. QED BY <1>4, <1>5, <1>6, <1>9, <1>10, <1>11

\* A unit written behind the others, by the server that has answered all but the
\* commands on their way.
LEMMA FollowingPush ==
  ASSUME InFollowing, LinkInv, NEW x \in Units, Pushed(s2c, s2c', x), s2c' \in Seq(Units),
         UNCHANGED <<sent, unread>>, pc'["client"] = pc["client"],
         x.of = sent - Len(c2s) + (IF x.what = "int" THEN 1 ELSE 0)
  PROVE  /\ HeadInv' /\ ChainInv'
         /\ s2c' # << >> /\ s2c'[Len(s2c')] = x
<1>1. /\ Len(s2c) \in Nat /\ Len(s2c') = Len(s2c) + 1 /\ s2c'[Len(s2c) + 1] = x
      /\ \A i \in 1..Len(s2c) : s2c'[i] = s2c[i]
      /\ (s2c = << >> <=> Len(s2c) = 0)
  BY FollowingFacts DEF Pushed
<1>2. s2c' # << >> /\ s2c'[Len(s2c')] = x
  <2>1. s2c' = << >> => Len(s2c') = 0
    OBVIOUS
  <2>2. QED BY <1>1, <2>1
<1>3. Due' = Due /\ Due \in Int /\ sent \in Nat /\ Len(c2s) \in Nat
  BY FollowingFacts DEF Due, At
<1>4. HeadInv'
  <2>1. CASE s2c = << >>
    <3>1. s2c'[1] = x
      BY <1>1, <2>1
    <3>2. Due = sent - Len(c2s) + 1
      BY <2>1 DEF LinkInv
    <3>3. x.of = IF x.what = "int" THEN Due ELSE Due - 1
      BY <1>3, <3>2
    <3>4. QED BY <1>3, <3>1, <3>3 DEF HeadInv
  <2>2. CASE s2c # << >>
    <3>1. s2c'[1] = s2c[1]
      BY <1>1, <2>2
    <3>2. s2c[1].of = IF s2c[1].what = "int" THEN Due ELSE Due - 1
      BY <2>2 DEF InFollowing, HeadInv
    <3>3. QED BY <1>3, <3>1, <3>2 DEF HeadInv
  <2>3. QED BY <2>1, <2>2
<1>5. ChainInv'
  <2> SUFFICES ASSUME NEW i \in 1..Len(s2c') - 1
               PROVE  s2c'[i + 1].of = IF s2c'[i + 1].what = "int"
                                       THEN s2c'[i].of + 1 ELSE s2c'[i].of
    BY DEF ChainInv
  <2>1. CASE i = Len(s2c)
    <3>1. s2c'[i] = s2c[Len(s2c)] /\ s2c'[i + 1] = x /\ s2c # << >>
      BY <1>1, <2>1
    <3>2. s2c[Len(s2c)].of = sent - Len(c2s)
      BY <3>1 DEF LinkInv
    <3>3. sent - Len(c2s) + 0 = sent - Len(c2s)
      BY <1>3
    <3>4. QED BY <3>1, <3>2, <3>3
  <2>2. CASE i # Len(s2c)
    <3>1. i \in 1..Len(s2c) - 1 /\ s2c'[i] = s2c[i] /\ s2c'[i + 1] = s2c[i + 1]
      BY <1>1, <2>2
    <3>2. QED BY <3>1 DEF InFollowing, ChainInv
  <2>3. QED BY <2>1, <2>2
<1>6. QED BY <1>2, <1>4, <1>5

\* What belongs to the numbers on their way still does, if it did to each.
LEMMA FollowingParts ==
  ASSUME InFollowing, NEW x \in Units, Pushed(s2c, s2c', x),
         cLeft' = cLeft, pc'["client"] = pc["client"],
         \A i \in 0..Len(s2c), n \in Nat :
           NamesAfter(i, n) \/ FileAfter(i) => NamesAfter(i, n)' \/ FileAfter(i)',
         x.what = "int" => \A i \in Nat :
                             i = Len(s2c) + 1 => NamesAfter(i, x.val)' \/ FileAfter(i)'
  PROVE  PartsInv'
<1>1. /\ Len(s2c) \in Nat /\ Len(s2c') = Len(s2c) + 1 /\ s2c'[Len(s2c) + 1] = x
      /\ \A i \in 1..Len(s2c) : s2c'[i] = s2c[i]
  BY FollowingFacts DEF Pushed
<1>2. ASSUME NEW i \in 1..Len(s2c'), s2c'[i].what = "int"
      PROVE  NamesAfter(i, s2c[i].val)' \/ FileAfter(i)'
  <2>1. CASE i = Len(s2c) + 1
    <3>1. s2c'[i] = x /\ x.what = "int" /\ i \in Nat
      BY <1>1, <1>2, <2>1
    <3>2. NamesAfter(i, x.val)' \/ FileAfter(i)'
      BY <2>1, <3>1
    <3>3. QED BY <3>1, <3>2 DEF NamesAfter
  <2>2. CASE i # Len(s2c) + 1
    <3>1. i \in 1..Len(s2c) /\ i \in 0..Len(s2c) /\ s2c'[i] = s2c[i] /\ s2c[i].val \in Nat
      BY <1>1, <2>2, FollowingFacts
    <3>2. PICK n \in Nat : n = s2c[i].val
      BY <3>1
    <3>3. NamesAfter(i, s2c[i].val) \/ FileAfter(i)
      BY <1>2, <3>1 DEF InFollowing, PartsInv
    <3>4. NamesAfter(i, n) \/ FileAfter(i)
      BY <3>2, <3>3 DEF NamesAfter
    <3>5. NamesAfter(i, n)' \/ FileAfter(i)'
      BY <3>1, <3>4
    <3>6. n = s2c'[i].val
      BY <3>1, <3>2
    <3>7. QED BY <3>5, <3>6 DEF NamesAfter
  <2>3. QED BY <2>1, <2>2
<1>3. At("client", "names")' => NamesAfter(0, cLeft)' \/ FileAfter(0)'
  <2> HAVE At("client", "names")'
  <2>1. 0 \in 0..Len(s2c)
    BY <1>1
  <2>2. PICK n \in Nat : n = cLeft
    BY FollowingFacts
  <2>3. NamesAfter(0, cLeft) \/ FileAfter(0)
    BY DEF At, InFollowing, PartsInv
  <2>4. NamesAfter(0, n) \/ FileAfter(0)
    BY <2>2, <2>3 DEF NamesAfter
  <2>5. NamesAfter(0, n)' \/ FileAfter(0)'
    BY <2>1, <2>4
  <2>6. n = cLeft'
    BY <2>2
  <2>7. QED BY <2>5, <2>6 DEF NamesAfter
<1>4. QED BY <1>2, <1>3 DEF PartsInv

\* The other processes' moves that write nothing.
LEMMA FollowingSame ==
  ASSUME InFollowing, UNCHANGED <<s2c, sent, unread, cLeft>>, pc'["client"] = pc["client"],
         \A i \in 0..Len(s2c), n \in Nat :
           NamesAfter(i, n) \/ FileAfter(i) => NamesAfter(i, n)' \/ FileAfter(i)'
  PROVE  HeadInv' /\ ChainInv' /\ PartsInv'
<1>1. Due' = Due
  BY DEF Due, At
<1>2. HeadInv' /\ ChainInv'
  BY <1>1 DEF InFollowing, HeadInv, ChainInv
<1>3. ASSUME NEW i \in 1..Len(s2c'), s2c'[i].what = "int"
      PROVE  NamesAfter(i, s2c[i].val)' \/ FileAfter(i)'
  <2>1. i \in 1..Len(s2c) /\ i \in 0..Len(s2c) /\ s2c'[i] = s2c[i] /\ s2c[i].val \in Nat
    BY FollowingFacts
  <2>2. PICK n \in Nat : n = s2c[i].val
    BY <2>1
  <2>3. NamesAfter(i, s2c[i].val) \/ FileAfter(i)
    BY <1>3, <2>1 DEF InFollowing, PartsInv
  <2>4. NamesAfter(i, n) \/ FileAfter(i)
    BY <2>2, <2>3 DEF NamesAfter
  <2>5. NamesAfter(i, n)' \/ FileAfter(i)'
    BY <2>1, <2>4
  <2>6. n = s2c'[i].val
    BY <2>1, <2>2
  <2>7. QED BY <2>5, <2>6 DEF NamesAfter
<1>4. At("client", "names")' => NamesAfter(0, cLeft)' \/ FileAfter(0)'
  <2> HAVE At("client", "names")'
  <2>1. 0 \in 0..Len(s2c)
    BY FollowingFacts
  <2>2. PICK n \in Nat : n = cLeft
    BY FollowingFacts
  <2>3. NamesAfter(0, cLeft) \/ FileAfter(0)
    BY DEF At, InFollowing, PartsInv
  <2>4. NamesAfter(0, n) \/ FileAfter(0)
    BY <2>2, <2>3 DEF NamesAfter
  <2>5. NamesAfter(0, n)' \/ FileAfter(0)'
    BY <2>1, <2>4
  <2>6. n = cLeft'
    BY <2>2
  <2>7. QED BY <2>5, <2>6 DEF NamesAfter
<1>5. QED BY <1>2, <1>3, <1>4 DEF PartsInv

LEMMA BehindSend ==
  ASSUME InFollowing, NEW k \in Kinds, Send(k), At("client", "prompt"),
         pc'["client"] \in {"prompt", "int"},
         UNCHANGED <<copy, cLeft, serverVars, files, uneven, s2c>>
  PROVE  HeadInv' /\ ChainInv' /\ PartsInv' /\ (Down \/ LinkInv)'
<1>1. /\ typed' = k /\ sent' = sent + 1
      /\ unread' = unread + (IF copy = "other" /\ k = "SILENT" THEN 1 ELSE 0)
      /\ pc'["server"] = pc["server"]
      /\ pc'["client"] = After(k)
      /\ IF Down THEN c2s' = c2s
         ELSE /\ Len(c2s') = Len(c2s) + 1 /\ c2s'[Len(c2s) + 1] = Text(k, sent + 1)
              /\ \A i \in 1..Len(c2s) : c2s'[i] = c2s[i]
  BY FollowingFacts, Sends DEF Goes, Delivered, Down, Pushed
<1>2. /\ k \notin {"QUIT", "tail"} /\ copy \in {"first", "other"}
      /\ copy = "other" => k # "UDP" /\ (After(k) = "prompt" <=> k = "SILENT")
      /\ copy = "first" => After(k) = "int"
  <2>1. copy \in {"first", "other"}
    BY CopiesAssumption DEF InFollowing, BaseInv, TypeOK
  <2>2. QED BY <1>1, <2>1, Ways DEF Kinds, Downloads
<1>3. Due' = Due
  <2>1. sent \in Nat /\ unread \in Nat
    BY FollowingFacts
  <2>2. Due = sent - unread + 1
    BY DEF Due, At
  <2>3. CASE copy = "other" /\ k = "SILENT"
    <3>1. Due' = sent' - unread' + 1
      BY <1>1, <1>2, <2>3 DEF Due, At
    <3>2. QED BY <1>1, <2>1, <2>2, <2>3, <3>1
  <2>4. CASE ~(copy = "other" /\ k = "SILENT")
    <3>1. Due' = sent' - unread' + 0
      BY <1>1, <1>2, <2>4 DEF Due, At
    <3>2. QED BY <1>1, <2>1, <2>2, <2>4, <3>1
  <2>5. QED BY <2>3, <2>4
<1>4. HeadInv' /\ ChainInv'
  BY <1>3 DEF InFollowing, HeadInv, ChainInv
<1>5. PartsInv'
  BY <1>1 DEF InFollowing, PartsInv, NamesAfter, FileAfter, At, Down, Gone, serverVars
<1>6. (Down \/ LinkInv)'
  <2>1. CASE Down
    BY <1>1, <2>1 DEF Down, Gone
  <2>2. CASE ~Down
    <3>1. LinkInv /\ Len(c2s) \in Nat /\ sent \in Nat /\ Len(c2s') = Len(c2s) + 1
      BY <1>1, <2>2, FollowingFacts DEF InFollowing
    <3>2. ASSUME NEW i \in 1..Len(c2s')
          PROVE  /\ c2s'[i].of = sent' - Len(c2s') + i
                 /\ c2s'[i].kind \notin {"QUIT", "tail"}
                 /\ copy' = "other" => c2s'[i].kind # "UDP"
      <4>1. sent' - Len(c2s') + i = sent - Len(c2s) + i
        BY <1>1, <3>1
      <4>2. CASE i = Len(c2s) + 1
        <5>1. c2s'[i].of = sent + 1 /\ c2s'[i].kind = k
          BY <1>1, <2>2, <4>2 DEF Text
        <5>2. sent - Len(c2s) + i = sent + 1
          BY <3>1, <4>2
        <5>3. QED BY <1>2, <4>1, <5>1, <5>2
      <4>3. CASE i # Len(c2s) + 1
        <5>1. i \in 1..Len(c2s) /\ c2s'[i] = c2s[i]
          BY <1>1, <2>2, <3>1, <4>3
        <5>2. QED BY <3>1, <4>1, <5>1 DEF LinkInv
      <4>4. QED BY <4>2, <4>3
    <3>3. sent' - Len(c2s') = sent - Len(c2s)
      BY <1>1, <3>1
    <3>4. IF s2c' = << >> THEN Due' = sent' - Len(c2s') + 1
                          ELSE s2c'[Len(s2c')].of = sent' - Len(c2s')
      BY <1>3, <3>1, <3>3 DEF LinkInv
    <3>5. pc'["server"] \in {"names", "file"} => buffer'.of = sent' - Len(c2s')
      BY <1>1, <3>1, <3>3 DEF LinkInv, serverVars
    <3>6. QED BY <3>2, <3>4, <3>5 DEF LinkInv
  <2>3. QED BY <2>1, <2>2
<1>7. QED BY <1>4, <1>5, <1>6

LEMMA BehindInt ==
  ASSUME InFollowing, ClientInt, pc'["client"] # "garbled"
  PROVE  HeadInv' /\ ChainInv' /\ PartsInv' /\ (Down \/ LinkInv)'
<1>1. /\ At("client", "int") /\ pc'["server"] = pc["server"]
      /\ UNCHANGED <<inputVars, serverVars, files, uneven, broken, c2s>>
      /\ s2c' \in Seq(Units)
      /\ \/ /\ s2c # << >> /\ s2c[1].what = "int"
            /\ cLeft' = s2c[1].val
            /\ pc'["client"] = Then(s2c[1].val) /\ Dropped(s2c, s2c', 1)
         \/ /\ s2c = << >> /\ Down
            /\ pc'["client"] = "prompt" /\ UNCHANGED <<cLeft, s2c>>
  BY IntFacts, FollowingFacts DEF InFollowing, Goes
<1>2. CASE s2c = << >> /\ Down /\ pc'["client"] = "prompt" /\ UNCHANGED <<cLeft, s2c>>
  <2>1. Down' /\ s2c' = << >> /\ Len(s2c') = 0
    BY <1>1, <1>2 DEF Down, Gone
  <2>2. QED BY <1>2, <2>1 DEF HeadInv, ChainInv, PartsInv, At
<1>3. CASE /\ s2c # << >> /\ s2c[1].what = "int" /\ cLeft' = s2c[1].val
           /\ pc'["client"] = Then(s2c[1].val) /\ Dropped(s2c, s2c', 1)
  <2>1. /\ Len(s2c) >= 1 /\ s2c[1].val \in Nat
    BY <1>3, FollowingFacts
  <2>2. PICK n \in Nat : n = s2c[1].val
    BY <2>1
  <2>3. Then(n) \in {"names", "file", "prompt"} /\ (Then(n) = "names" => n > 0)
    BY Ways
  <2>4. pc'["client"] = Then(n) /\ cLeft' = n
    BY <1>3, <2>2
  <2>5. Due' = Due + 1
    <3>1. Due = sent - unread + 0 /\ sent \in Nat /\ unread \in Nat
      BY <1>1, FollowingFacts DEF Due
    <3>2. Due' = sent' - unread' + 1
      BY <2>3, <2>4 DEF Due, At
    <3>3. sent' = sent /\ unread' = unread
      BY <1>1 DEF inputVars
    <3>4. QED BY <3>1, <3>2, <3>3
  <2>6. /\ HeadInv' /\ ChainInv' /\ (Down \/ LinkInv)'
        /\ \A i \in 1..Len(s2c') :
             s2c'[i].what = "int" => NamesAfter(i, s2c[i].val)' \/ FileAfter(i)'
        /\ n > 0 => (NamesAfter(1, n) => NamesAfter(0, n)')
        /\ FileAfter(1) => FileAfter(0)'
    BY <1>1, <1>3, <2>5, FollowingDrop DEF inputVars
  <2>7. ASSUME At("client", "names")' PROVE NamesAfter(0, cLeft)' \/ FileAfter(0)'
    <3>1. n > 0
      BY <2>3, <2>4, <2>7 DEF At
    <3>2. NamesAfter(1, s2c[1].val) \/ FileAfter(1)
      BY <1>3, <2>1, FollowingFacts DEF InFollowing, PartsInv
    <3>3. NamesAfter(1, n) \/ FileAfter(1)
      BY <2>2, <3>2 DEF NamesAfter
    <3>4. NamesAfter(0, n)' \/ FileAfter(0)'
      BY <2>6, <3>1, <3>3
    <3>5. QED BY <2>4, <3>4 DEF NamesAfter
  <2>8. QED BY <2>6, <2>7 DEF PartsInv
<1>4. QED BY <1>1, <1>2, <1>3

LEMMA BehindName ==
  ASSUME InFollowing, ClientName, pc'["client"] # "garbled", uneven' = {}
  PROVE  HeadInv' /\ ChainInv' /\ PartsInv' /\ (Down \/ LinkInv)'
<1>1. /\ At("client", "names") /\ cLeft' = cLeft - 1 /\ pc'["server"] = pc["server"]
      /\ UNCHANGED <<inputVars, serverVars, files, broken, c2s>>
      /\ s2c' \in Seq(Units)
      /\ \/ \E k \in 1..Len(s2c) :
              /\ Dropped(s2c, s2c', k)
              /\ uneven' = uneven \cup (IF k > 1 THEN {"glued"} ELSE {})
              /\ IF \E i \in 1..k : s2c[i].what \in BulkUnits
                 THEN pc'["client"] = "garbled" ELSE pc'["client"] = AfterName
         \/ s2c = << >> /\ Down /\ pc'["client"] = AfterName /\ UNCHANGED s2c
  BY NameFacts, FollowingFacts DEF InFollowing, Goes
<1>2. /\ cLeft > 0 /\ pc'["client"] = AfterName /\ AfterName \in {"prompt", "names"}
      /\ AfterName = "names" => cLeft - 1 > 0
  BY <1>1, FollowingFacts DEF AfterName
<1>3. CASE s2c = << >> /\ Down
  <2>1. Down' /\ s2c' = << >> /\ Len(s2c') = 0
    <3>1. Len(s2c) = 0 /\ Len(s2c) \in Nat
      BY <1>3
    <3>2. \A k \in 1..Len(s2c) : FALSE
      BY <3>1
    <3>3. s2c' = s2c
      BY <1>1, <3>2
    <3>4. QED BY <1>1, <1>3, <3>1, <3>3 DEF Down, Gone
  <2>2. NamesAfter(0, cLeft)'
    BY <2>1 DEF NamesAfter
  <2>3. QED BY <2>1, <2>2 DEF HeadInv, ChainInv, PartsInv
<1>4. CASE ~(s2c = << >> /\ Down)
  <2>1. PICK k \in 1..Len(s2c) :
          /\ Dropped(s2c, s2c', k)
          /\ uneven' = uneven \cup (IF k > 1 THEN {"glued"} ELSE {})
          /\ IF \E i \in 1..k : s2c[i].what \in BulkUnits
             THEN pc'["client"] = "garbled" ELSE pc'["client"] = AfterName
    BY <1>1, <1>4
  <2>2. k = 1 /\ Len(s2c) >= 1 /\ Len(s2c) \in Nat
    <3>1. ~(k > 1)
      BY <2>1
    <3>2. k \in Nat /\ k >= 1 /\ Len(s2c) \in Nat
      BY FollowingFacts
    <3>3. QED BY <3>1, <3>2
  <2>3. s2c[1].what \notin FileUnits
    BY <1>2, <2>1, <2>2 DEF FileUnits, BulkUnits
  <2>4. PICK n \in Nat : n = cLeft
    BY FollowingFacts
  <2>5. NamesAfter(0, n)
    <3>1. NamesAfter(0, cLeft) \/ FileAfter(0)
      BY <1>1 DEF InFollowing, PartsInv
    <3>2. ~FileAfter(0)
      BY <2>2, <2>3 DEF FileAfter
    <3>3. QED BY <2>4, <3>1, <3>2 DEF NamesAfter
  <2>6. s2c[1].what = "name"
    BY <1>2, <2>2, <2>4, <2>5 DEF NamesAfter
  <2>7. Due' = Due
    BY <1>1, <1>2 DEF Due, At, inputVars
  <2>8. /\ HeadInv' /\ ChainInv' /\ (Down \/ LinkInv)'
        /\ \A i \in 1..Len(s2c') :
             s2c'[i].what = "int" => NamesAfter(i, s2c[i].val)' \/ FileAfter(i)'
        /\ n > 0 => (NamesAfter(0, n) => NamesAfter(0, n - 1)')
    BY <1>1, <2>1, <2>2, <2>6, <2>7, FollowingDrop DEF inputVars
  <2>9. NamesAfter(0, cLeft)'
    <3>1. PICK m \in Nat : m = n - 1
      BY <1>2, <2>4
    <3>2. NamesAfter(0, n - 1)'
      BY <1>2, <2>4, <2>5, <2>8
    <3>3. NamesAfter(0, m)'
      BY <3>1, <3>2 DEF NamesAfter
    <3>4. m = cLeft'
      BY <1>1, <2>4, <3>1
    <3>5. QED BY <3>3, <3>4 DEF NamesAfter
  <2>10. QED BY <2>8, <2>9 DEF PartsInv
<1>5. QED BY <1>3, <1>4

LEMMA BehindFile ==
  ASSUME InFollowing, ClientFile, pc'["client"] # "garbled", uneven' = {}
  PROVE  HeadInv' /\ ChainInv' /\ PartsInv' /\ (Down \/ LinkInv)'
<1>1. /\ At("client", "file") /\ pc'["server"] = pc["server"]
      /\ UNCHANGED <<inputVars, cLeft, serverVars, files, broken, c2s>>
      /\ s2c' \in Seq(Units) /\ pc'["client"] = "prompt"
      /\ \/ s2c # << >> /\ s2c[1].what \in FileUnits /\ Dropped(s2c, s2c', 1)
         \/ s2c = << >> /\ Down /\ UNCHANGED s2c
  BY FileFacts, FollowingFacts DEF InFollowing, Goes
<1>2. CASE s2c = << >> /\ Down /\ UNCHANGED s2c
  <2>1. Down' /\ s2c' = << >> /\ Len(s2c') = 0
    BY <1>1, <1>2 DEF Down, Gone
  <2>2. QED BY <1>1, <2>1 DEF HeadInv, ChainInv, PartsInv, At
<1>3. CASE s2c # << >> /\ s2c[1].what \in FileUnits /\ Dropped(s2c, s2c', 1)
  <2>1. Due' = Due
    BY <1>1 DEF Due, At, inputVars
  <2>2. /\ HeadInv' /\ ChainInv' /\ (Down \/ LinkInv)'
        /\ \A i \in 1..Len(s2c') :
             s2c'[i].what = "int" => NamesAfter(i, s2c[i].val)' \/ FileAfter(i)'
    BY <1>1, <1>3, <2>1, FollowingDrop DEF inputVars, FileUnits
  <2>3. QED BY <1>1, <2>2 DEF PartsInv, At
<1>4. QED BY <1>1, <1>2, <1>3

\* A server that writes neither names nor a file owes nothing to any number.
LEMMA NothingOwed ==
  ASSUME InFollowing, ~Down, NEW i \in 0..Len(s2c), NEW n \in Nat, Len(s2c) \in Nat
  PROVE  /\ NamesAfter(i, n) /\ ~At("server", "names") => i + n <= Len(s2c)
         /\ FileAfter(i) /\ ~At("server", "file") => i < Len(s2c)
BY DEF NamesAfter, FileAfter

\* What has come to the client stays behind its number when more comes.
LEMMA PartsStay ==
  ASSUME InFollowing, NEW x, Pushed(s2c, s2c', x),
         NEW i \in 0..Len(s2c), NEW n \in Nat
  PROVE  /\ NamesAfter(i, n) /\ i + n <= Len(s2c) => NamesAfter(i, n)'
         /\ FileAfter(i) /\ i < Len(s2c) => FileAfter(i)'
<1>1. /\ Len(s2c) \in Nat /\ Len(s2c') = Len(s2c) + 1
      /\ \A j \in 1..Len(s2c) : s2c'[j] = s2c[j]
  BY FollowingFacts DEF Pushed
<1>2. ASSUME NamesAfter(i, n), i + n <= Len(s2c) PROVE NamesAfter(i, n)'
  <2>1. ASSUME NEW j \in i + 1 .. i + n PROVE s2c'[j].what = "name"
    <3>1. j \in 1..Len(s2c) /\ j <= Len(s2c)
      BY <1>1, <1>2
    <3>2. QED BY <1>1, <1>2, <3>1 DEF NamesAfter
  <2>2. ~(i + n > Len(s2c'))
    BY <1>1, <1>2
  <2>3. QED BY <2>1, <2>2 DEF NamesAfter
<1>3. ASSUME FileAfter(i), i < Len(s2c) PROVE FileAfter(i)'
  <2>1. i + 1 \in 1..Len(s2c) /\ i < Len(s2c')
    BY <1>1, <1>3
  <2>2. QED BY <1>1, <1>3, <2>1 DEF FileAfter
<1>4. QED BY <1>2, <1>3

LEMMA BehindCommand ==
  ASSUME InFollowing, ServerCommand, uneven' = {}
  PROVE  HeadInv' /\ ChainInv' /\ PartsInv' /\ (Down \/ LinkInv)'
<1>1. /\ At("server", "command") /\ c2s # << >> /\ Len(c2s) >= 1 /\ buffer' = c2s[1]
      /\ UNCHANGED <<inputVars, cLeft, files>>
      /\ pc'["client"] = pc["client"]
      /\ sLeft' = IF c2s[1].kind = "LIST" THEN files ELSE sLeft
      /\ Dropped(c2s, c2s', 1) /\ s2c' \in Seq(Units)
  <2>1. s2c \in Seq(Units)
    BY FollowingFacts DEF TypeOK
  <2>2. QED BY <2>1, CommandFacts, FollowingFacts DEF InFollowing, Says, Silently, Goes
<1>2. /\ ~Down /\ LinkInv /\ pc["server"] = "command"
      /\ Len(c2s) \in Nat /\ Len(s2c) \in Nat /\ sent \in Nat /\ files \in Nat
  BY <1>1, FollowingFacts DEF InFollowing, At, Down, Gone
<1>3. PICK c : c = c2s[1]
  OBVIOUS
<1>4. /\ c.kind \notin {"QUIT", "tail"} /\ c.of = sent - Len(c2s) + 1 /\ c.of \in Nat
      /\ copy = "other" => c.kind # "UDP"
  BY <1>1, <1>2, <1>3, FollowingFacts DEF LinkInv
<1>5. copy \in {"first", "other"}
  BY CopiesAssumption DEF InFollowing, BaseInv, TypeOK
<1>6. PICK v \in Nat, next \in {"names", "file", "command"} :
        /\ Says(Number(v, c.of), next)
        /\ next = "names" => v = files /\ sLeft' = files
        /\ next = "command" => v = 0
  <2>1. \/ c.kind = "LIST" /\ Says(Number(files, c.of), "names")
        \/ c.kind \in {"TCP", "WHOLE"} /\ Says(Number(1, c.of), "file")
        \/ Says(Number(0, c.of), "command")
    BY <1>3, <1>4, <1>5, CommandFacts DEF InFollowing, Says, Silently, Goes, Delivered
  <2>2. CASE c.kind = "LIST" /\ Says(Number(files, c.of), "names")
    BY <1>1, <1>2, <1>3, <2>2
  <2>3. CASE c.kind \in {"TCP", "WHOLE"} /\ Says(Number(1, c.of), "file")
    BY <2>3
  <2>4. CASE Says(Number(0, c.of), "command")
    BY <2>4
  <2>5. QED BY <2>1, <2>2, <2>3, <2>4
<1> DEFINE x == Number(v, c.of)
<1>7. x \in Units /\ x.what = "int" /\ x.val = v /\ x.of = c.of
  BY <1>4 DEF Number, Units
<1>8. pc'["server"] = next /\ Pushed(s2c, s2c', x)
  BY <1>6, FollowingFacts DEF Says, Delivered, Gone
<1>9. x.of = sent - Len(c2s) + (IF x.what = "int" THEN 1 ELSE 0)
  BY <1>4, <1>7
<1> HIDE DEF x
<1>10. HeadInv' /\ ChainInv' /\ s2c' # << >> /\ s2c'[Len(s2c')] = x
  BY <1>1, <1>2, <1>7, <1>8, <1>9, FollowingPush DEF inputVars
<1>11. PartsInv'
  <2>1. ASSUME NEW i \in 0..Len(s2c), NEW n \in Nat, NamesAfter(i, n) \/ FileAfter(i)
        PROVE  NamesAfter(i, n)' \/ FileAfter(i)'
    <3>1. ~At("server", "names") /\ ~At("server", "file")
      BY <1>2 DEF At
    <3>2. QED BY <1>2, <1>8, <2>1, <3>1, NothingOwed, PartsStay
  <2>2. ASSUME NEW i \in Nat, i = Len(s2c) + 1
        PROVE  NamesAfter(i, x.val)' \/ FileAfter(i)'
    <3>1. i = Len(s2c') /\ Len(s2c') \in Nat
      BY <1>2, <1>8, <2>2 DEF Pushed
    <3>2. CASE next = "names"
      <4>1. i + v - Len(s2c') = v
        BY <3>1
      <4>2. At("server", "names")' /\ sLeft' = v
        BY <1>6, <1>8, <3>2 DEF At
      <4>3. \A j \in i + 1 .. i + v : ~(j <= Len(s2c'))
        BY <3>1
      <4>4. NamesAfter(i, v)'
        BY <4>1, <4>2, <4>3 DEF NamesAfter
      <4>5. QED BY <1>7, <4>4
    <3>3. CASE next = "file"
      BY <1>8, <3>1, <3>3 DEF FileAfter, At
    <3>4. CASE next = "command"
      <4>1. v = 0
        BY <1>6, <3>4
      <4>2. NamesAfter(i, v)'
        BY <3>1, <4>1 DEF NamesAfter
      <4>3. QED BY <1>7, <4>2
    <3>5. QED BY <3>2, <3>3, <3>4
  <2>3. QED BY <1>1, <1>7, <1>8, <2>1, <2>2, FollowingParts
<1>12. LinkInv'
  <2>1. /\ sent' = sent /\ copy' = copy /\ Len(c2s') = Len(c2s) - 1
        /\ \A i \in 1..Len(c2s') : c2s'[i] = c2s[i + 1]
    BY <1>1 DEF Dropped, inputVars
  <2>2. sent' - Len(c2s') = sent - Len(c2s) + 1
    BY <1>2, <2>1
  <2>3. ASSUME NEW i \in 1..Len(c2s')
        PROVE  /\ c2s'[i].of = sent' - Len(c2s') + i
               /\ c2s'[i].kind \notin {"QUIT", "tail"}
               /\ copy' = "other" => c2s'[i].kind # "UDP"
    <3>1. i + 1 \in 1..Len(c2s) /\ c2s'[i] = c2s[i + 1]
      BY <1>2, <2>1
    <3>2. sent - Len(c2s) + (i + 1) = sent' - Len(c2s') + i
      BY <1>2, <2>1
    <3>3. QED BY <1>2, <2>1, <3>1, <3>2 DEF LinkInv
  <2>4. s2c'[Len(s2c')].of = sent' - Len(c2s')
    BY <1>4, <1>7, <1>10, <2>2
  <2>5. buffer'.of = sent' - Len(c2s')
    BY <1>1, <1>3, <1>4, <2>2
  <2>6. QED BY <1>10, <2>3, <2>4, <2>5 DEF LinkInv
<1>13. QED BY <1>10, <1>11, <1>12

LEMMA BehindPart ==
  ASSUME InFollowing, ServerName \/ ServerFile
  PROVE  HeadInv' /\ ChainInv' /\ PartsInv' /\ (Down \/ LinkInv)'
<1>1. /\ UNCHANGED <<inputVars, cLeft, buffer, files, uneven, c2s>>
      /\ pc'["client"] = pc["client"] /\ s2c' \in Seq(Units)
      /\ pc["server"] \in {"names", "file"}
  <2>1. s2c \in Seq(Units)
    BY FollowingFacts DEF TypeOK
  <2>2. QED BY <2>1, PartFacts, FollowingFacts DEF InFollowing, Says, Silently, Goes, At
<1>2. /\ ~Down /\ LinkInv /\ buffer.of = sent - Len(c2s)
      /\ Len(c2s) \in Nat /\ Len(s2c) \in Nat /\ sent \in Nat /\ sLeft \in Nat
  BY <1>1, FollowingFacts DEF InFollowing, LinkInv, Down, Gone
<1>3. /\ sent' = sent /\ unread' = unread /\ copy' = copy /\ c2s' = c2s /\ buffer' = buffer
  BY <1>1 DEF inputVars
<1>4. CASE /\ At("server", "names") /\ sLeft = 0 /\ sLeft' = sLeft /\ Silently("command")
  <2>1. s2c' = s2c /\ pc'["server"] = "command" /\ pc["server"] = "names"
    BY <1>4 DEF Silently, Goes, At
  <2>2. ASSUME NEW i \in 0..Len(s2c), NEW n \in Nat, NamesAfter(i, n) \/ FileAfter(i)
        PROVE  NamesAfter(i, n)' \/ FileAfter(i)'
    <3>1. NamesAfter(i, n) => ~(i + n > Len(s2c))
      BY <1>2, <1>4 DEF NamesAfter
    <3>2. FileAfter(i) => i < Len(s2c)
      BY <1>2, <2>1 DEF FileAfter, At
    <3>3. NamesAfter(i, n) => NamesAfter(i, n)'
      BY <2>1, <3>1 DEF NamesAfter
    <3>4. FileAfter(i) => FileAfter(i)'
      BY <2>1, <3>2 DEF FileAfter
    <3>5. QED BY <2>2, <3>3, <3>4
  <2>3. HeadInv' /\ ChainInv' /\ PartsInv'
    BY <1>1, <1>3, <2>1, <2>2, FollowingSame
  <2>4. Due' = Due
    BY <1>1, <1>3 DEF Due, At
  <2>5. LinkInv'
    BY <1>2, <1>3, <2>1, <2>4 DEF LinkInv
  <2>6. QED BY <2>3, <2>5
<1>5. ASSUME NEW x \in Units, x.what # "int", x.of = buffer.of, Pushed(s2c, s2c', x),
             \A i \in 0..Len(s2c), n \in Nat :
               NamesAfter(i, n) \/ FileAfter(i) => NamesAfter(i, n)' \/ FileAfter(i)'
      PROVE  HeadInv' /\ ChainInv' /\ PartsInv' /\ LinkInv'
  <2>1. x.of = sent - Len(c2s) + (IF x.what = "int" THEN 1 ELSE 0)
    BY <1>2, <1>5
  <2>2. HeadInv' /\ ChainInv' /\ s2c' # << >> /\ s2c'[Len(s2c')] = x
    BY <1>1, <1>2, <1>3, <1>5, <2>1, FollowingPush
  <2>3. PartsInv'
    BY <1>1, <1>5, FollowingParts
  <2>4. LinkInv'
    BY <1>2, <1>3, <1>5, <2>2 DEF LinkInv
  <2>5. QED BY <2>2, <2>3, <2>4
<1>6. buffer.of \in Nat
  BY FollowingFacts DEF TypeOK, Texts
<1>7. CASE /\ At("server", "names") /\ sLeft > 0 /\ sLeft' = sLeft - 1
           /\ Says([what |-> "name", val |-> 0, of |-> buffer.of], "names")
  <2>1. PICK x : x = [what |-> "name", val |-> 0, of |-> buffer.of]
    OBVIOUS
  <2>2. x \in Units /\ x.what = "name" /\ x.of = buffer.of
    BY <1>6, <2>1 DEF Units
  <2>3. pc'["server"] = "names" /\ pc["server"] = "names" /\ Pushed(s2c, s2c', x)
    BY <1>7, <2>1, FollowingFacts DEF Says, Delivered, Gone, At
  <2>4. ASSUME NEW i \in 0..Len(s2c), NEW n \in Nat, NamesAfter(i, n) \/ FileAfter(i)
        PROVE  NamesAfter(i, n)' \/ FileAfter(i)'
    <3>1. FileAfter(i) => FileAfter(i)'
      BY <1>2, <2>2, <2>3, NothingOwed, PartsStay DEF At
    <3>2. NamesAfter(i, n) /\ i + n <= Len(s2c) => NamesAfter(i, n)'
      BY <2>2, <2>3, PartsStay
    <3>3. ASSUME NamesAfter(i, n), ~(i + n <= Len(s2c)) PROVE NamesAfter(i, n)'
      <4>1. /\ Len(s2c') = Len(s2c) + 1 /\ s2c'[Len(s2c) + 1] = x
            /\ \A j \in 1..Len(s2c) : s2c'[j] = s2c[j]
        BY <2>3 DEF Pushed
      <4>2. i + n > Len(s2c) /\ sLeft = i + n - Len(s2c)
        BY <1>2, <3>3 DEF NamesAfter
      <4>3. ASSUME NEW j \in i + 1 .. i + n, j <= Len(s2c') PROVE s2c'[j].what = "name"
        <5>1. CASE j = Len(s2c) + 1
          BY <2>2, <4>1, <5>1
        <5>2. CASE j # Len(s2c) + 1
          <6>1. j \in 1..Len(s2c) /\ j <= Len(s2c)
            BY <1>2, <4>1, <4>3, <5>2
          <6>2. QED BY <3>3, <4>1, <6>1 DEF NamesAfter
        <5>3. QED BY <5>1, <5>2
      <4>4. sLeft' = i + n - Len(s2c')
        BY <1>2, <1>7, <4>1, <4>2
      <4>5. QED BY <2>3, <4>3, <4>4 DEF NamesAfter, At
    <3>4. QED BY <2>4, <3>1, <3>2, <3>3
  <2>5. QED BY <1>5, <2>2, <2>3, <2>4
<1>8. CASE /\ At("server", "file") /\ sLeft' = sLeft
           /\ \E w \in FileUnits :
                Says([what |-> w, val |-> 0, of |-> buffer.of],
                     IF buffer.kind = "WHOLE" THEN "spin" ELSE "command")
  <2> PICK w \in FileUnits :
        Says([what |-> w, val |-> 0, of |-> buffer.of],
             IF buffer.kind = "WHOLE" THEN "spin" ELSE "command")
    BY <1>8
  <2>1. PICK x : x = [what |-> w, val |-> 0, of |-> buffer.of]
    OBVIOUS
  <2>2. x \in Units /\ x.what \in FileUnits /\ x.of = buffer.of
    BY <1>6, <2>1 DEF Units, FileUnits
  <2>3. pc["server"] = "file" /\ Pushed(s2c, s2c', x)
    BY <1>8, <2>1, FollowingFacts DEF Says, Delivered, Gone, At
  <2>4. ASSUME NEW i \in 0..Len(s2c), NEW n \in Nat, NamesAfter(i, n) \/ FileAfter(i)
        PROVE  NamesAfter(i, n)' \/ FileAfter(i)'
    <3>1. NamesAfter(i, n) => NamesAfter(i, n)'
      BY <1>2, <2>2, <2>3, NothingOwed, PartsStay DEF At
    <3>2. FileAfter(i) /\ i < Len(s2c) => FileAfter(i)'
      BY <2>2, <2>3, PartsStay
    <3>3. ASSUME ~(i < Len(s2c)) PROVE FileAfter(i)'
      <4>1. i = Len(s2c) /\ i < Len(s2c') /\ s2c'[i + 1] = x
        BY <1>2, <2>3, <3>3 DEF Pushed
      <4>2. QED BY <2>2, <4>1 DEF FileAfter
    <3>4. QED BY <2>4, <3>1, <3>2, <3>3
  <2>5. QED BY <1>5, <2>2, <2>3, <2>4 DEF FileUnits
<1>9. QED BY <1>4, <1>7, <1>8, PartFacts DEF InFollowing, Says, Silently, Delivered, Goes

LEMMA BehindOther ==
  ASSUME InFollowing, pc'["client"] # "dead",
         \/ ServerEOF \/ ServerUDP \/ InputEnd \/ UNCHANGED vars
         \/ \E p \in Procs : Kill(p)
  PROVE  HeadInv' /\ ChainInv' /\ PartsInv' /\ (Down \/ LinkInv)'
<1>1. /\ UNCHANGED <<copy, sent, typed, letters, unread, cLeft, serverVars, files, uneven,
                     broken, c2s, s2c>>
      /\ \/ UNCHANGED pc
         \/ Goes("server", {"dead"})
         \/ At("server", "udp") /\ Goes("server", {"command"})
  BY OtherFacts DEF InFollowing, Goes
<1>2. pc'["client"] = pc["client"] /\ Due' = Due /\ Len(s2c) \in Nat
  BY <1>1, FollowingFacts DEF Goes, Due, At
<1>3. ASSUME NEW i \in 0..Len(s2c), NEW n \in Nat, NamesAfter(i, n) \/ FileAfter(i)
      PROVE  NamesAfter(i, n)' \/ FileAfter(i)'
  <2>1. CASE UNCHANGED pc
    BY <1>1, <1>3, <2>1 DEF NamesAfter, FileAfter, Down, Gone, At, serverVars
  <2>2. CASE Goes("server", {"dead"})
    <3>1. Down'
      BY <2>2 DEF Goes, Down, Gone
    <3>2. QED BY <1>1, <1>3, <3>1 DEF NamesAfter, FileAfter
  <2>3. CASE At("server", "udp")
    <3>1. ~Down /\ ~At("server", "names") /\ ~At("server", "file")
      BY <2>3 DEF Down, Gone, At
    <3>2. QED BY <1>1, <1>3, <3>1 DEF NamesAfter, FileAfter
  <2>4. QED BY <1>1, <2>1, <2>2, <2>3
<1>4. HeadInv' /\ ChainInv' /\ PartsInv'
  BY <1>1, <1>2, <1>3, FollowingSame
<1>5. (Down \/ LinkInv)'
  <2>1. CASE UNCHANGED pc
    BY <1>1, <1>2, <2>1 DEF InFollowing, LinkInv, Down, Gone, serverVars
  <2>2. CASE Goes("server", {"dead"})
    BY <2>2 DEF Goes, Down, Gone
  <2>3. CASE At("server", "udp") /\ Goes("server", {"command"})
    <3>1. LinkInv /\ pc'["server"] = "command"
      BY <2>3 DEF InFollowing, Down, Gone, Goes, At
    <3>2. QED BY <1>1, <1>2, <3>1 DEF LinkInv
  <2>4. QED BY <1>1, <2>1, <2>2, <2>3
<1>6. QED BY <1>4, <1>5

\* A client that no longer follows does not begin to again.
LEMMA StillFollowing ==
  ASSUME BaseInv, [Next]_vars, Following'
  PROVE  Following
<1> USE DEF At, Goes
<1>1. /\ uneven = {} /\ pc'["client"] \in {"prompt", "int", "names", "file"}
      /\ Other("client") = "server" /\ Other("server") = "client"
  BY NothingForgotten, Both DEF Following
<1>2. CASE ClientCommand \/ ClientRound
  BY <1>1, <1>2, Rounds DEF Following
<1>3. CASE ClientInt
  BY <1>1, <1>3, IntFacts DEF Following
<1>4. CASE ClientName
  BY <1>1, <1>4, NameFacts DEF Following
<1>5. CASE ClientFile
  BY <1>1, <1>5, FileFacts DEF Following
<1>6. CASE ServerCommand
  BY <1>1, <1>6, CommandFacts DEF Following, Says, Silently
<1>7. CASE ServerName \/ ServerFile
  BY <1>1, <1>7, PartFacts DEF Following, Says, Silently
<1>8. CASE \/ ServerEOF \/ ServerUDP \/ InputEnd \/ UNCHANGED vars
           \/ \E p \in Procs : Kill(p)
  BY <1>1, <1>8, OtherFacts DEF Following
<1>9. QED BY <1>2, <1>3, <1>4, <1>5, <1>6, <1>7, <1>8, Steps

LEMMA BehindStep ==
  ASSUME BaseInv, BehindInv, [Next]_vars
  PROVE  BehindInv'
<1> SUFFICES ASSUME Following'
             PROVE  HeadInv' /\ ChainInv' /\ PartsInv' /\ (Down \/ LinkInv)'
  BY DEF BehindInv
<1>1. InFollowing
  BY StillFollowing DEF InFollowing, BehindInv
<1>2. /\ pc'["client"] \in {"prompt", "int", "names", "file"} /\ uneven' = {}
      /\ pc'["client"] # "garbled" /\ pc'["client"] # "dead"
  BY DEF Following
<1>3. CASE ClientCommand \/ ClientRound
  <2>1. /\ At("client", "prompt")
        /\ UNCHANGED <<copy, cLeft, serverVars, files, uneven, s2c>>
        /\ \E k \in Kinds : Send(k)
    BY <1>2, <1>3, Rounds DEF Goes
  <2>2. PICK k \in Kinds : Send(k)
    BY <2>1
  <2>3. pc'["client"] \in {"prompt", "int"}
    <3>1. pc'["client"] \in {After(k), "dead"} /\ After(k) \in {"end", "udp", "int", "prompt"}
      BY <1>1, <2>2, Sends, Ways DEF InFollowing, BaseInv, Goes
    <3>2. QED BY <1>2, <3>1
  <2>4. QED BY <1>1, <2>1, <2>2, <2>3, BehindSend
<1>4. CASE ClientInt \/ ClientName \/ ClientFile
  BY <1>1, <1>2, <1>4, BehindInt, BehindName, BehindFile
<1>5. CASE ServerCommand
  BY <1>1, <1>2, <1>5, BehindCommand
<1>6. CASE ServerName \/ ServerFile
  BY <1>1, <1>6, BehindPart
<1>7. CASE \/ ServerEOF \/ ServerUDP \/ InputEnd \/ UNCHANGED vars
           \/ \E p \in Procs : Kill(p)
  BY <1>1, <1>2, <1>7, BehindOther
<1>8. QED BY <1>3, <1>4, <1>5, <1>6, <1>7, Steps

\* The first copy's client is one behind from the start.
LEMMA BehindStart == Init => BehindInv
<1> SUFFICES ASSUME Init PROVE HeadInv /\ ChainInv /\ PartsInv /\ LinkInv
  BY DEF BehindInv
<1>1. s2c = << >> /\ Len(s2c) = 0 /\ pc["client"] = "prompt" /\ pc["server"] = "command"
  BY DEF Init
<1>2. HeadInv /\ ChainInv /\ PartsInv
  BY <1>1 DEF HeadInv, ChainInv, PartsInv, At
<1>3. sent = 0 /\ unread = Len(c2s) /\ copy \in {"first", "other"}
  BY CopiesAssumption DEF Init
<1>4. CASE copy = "first"
  <2>1. Len(c2s) = 1 /\ c2s[1].of = 0 /\ c2s[1].kind = "address"
    BY <1>4 DEF Init, Text
  <2>2. \A i \in 1..Len(c2s) : c2s[i].of = sent - Len(c2s) + i /\ c2s[i].kind = "address"
    BY <1>3, <2>1
  <2>3. Due = sent - Len(c2s) + 1
    BY <1>1, <1>3 DEF Due, At
  <2>4. QED BY <1>1, <1>2, <1>4, <2>2, <2>3 DEF LinkInv
<1>5. CASE copy # "first"
  <2>1. Len(c2s) = 0
    BY <1>5 DEF Init
  <2>2. Due = sent - Len(c2s) + 1
    BY <1>1, <1>3 DEF Due, At
  <2>3. QED BY <1>1, <1>2, <2>1, <2>2 DEF LinkInv
<1>6. QED BY <1>4, <1>5

LEMMA BehindAlways == Spec => []BehindInv
BY BehindStart, BehindStep, BaseAlways, PTL DEF Spec

\* As long as messages are read one by one, every number the client takes for
\* an answer belongs to the command it sent as many commands ago as it has left
\* answers unread, in either copy.
THEOREM BehindExactly == Spec => []BehindByUnread
<1>1. BaseInv /\ BehindInv => BehindByUnread
  <2> SUFFICES ASSUME BaseInv, BehindInv, uneven = {}, pc["client"] = "int", s2c # << >>,
                      Head(s2c).what = "int"
               PROVE  Head(s2c).of = sent - unread
    BY DEF BehindByUnread
  <2>1. Head(s2c) = s2c[1]
    BY StreamTypes, OneRead DEF BaseInv
  <2>2. HeadInv
    BY DEF BehindInv, Following
  <2>3. sent \in Nat /\ unread \in Nat
    BY BoundsAssumption DEF BaseInv, TypeOK
  <2>4. QED BY <2>1, <2>2, <2>3 DEF HeadInv, Due, At
<1>2. QED BY <1>1, BaseAlways, BehindAlways, PTL
=============================================================================
