--------------------------- MODULE SessionProofs ---------------------------
(* Theorems about Session, for any number of commands, letters, files and  *)
(* troubles.                                                               *)
EXTENDS Session, QueueFacts, FiniteSetTheorems, TLAPS

Places == {"off", "queued", "hello", "prompt", "command", "int", "list", "names",
           "file", "udp", "spin", "garbled", "end", "dead"}

\* What a file is on the server's stream, and what stands for one.
FileUnits  == {"file", "blocks"}
FileParts  == {"file", "blocks", "part"}

-----------------------------------------------------------------------------
(* Streams.                                                                *)

\* Reading k units from the front.
LEMMA RestFacts ==
  ASSUME NEW S, NEW q \in Seq(S), NEW k \in 1..Len(q)
  PROVE  /\ Rest(q, k) \in Seq(S)
         /\ Len(Rest(q, k)) = Len(q) - k
         /\ \A i \in 1..Len(q) - k : Rest(q, k)[i] = q[i + k]
BY CutFacts DEF Rest

\* What r is once a read of a command has taken k units of q: the others, behind
\* the end of the k-th if that was a DOWNLOAD whose end has been left.
Taken(q, r, k) ==
  \/ /\ Len(r) = Len(q) - k
     /\ \A i \in 1..Len(q) - k : r[i] = q[i + k]
  \/ /\ q[k].kind \in Downloads
     /\ Len(r) = Len(q) - k + 1 /\ r[1] = Text("tail", q[k].of)
     /\ \A i \in 2..Len(q) - k + 1 : r[i] = q[i + (k - 1)]

\* The end of a DOWNLOAD in front of the rest.
LEMMA RemainderFacts ==
  ASSUME NEW q \in Seq(Texts), NEW k \in 1..Len(q)
  PROVE  /\ Remainder(q[k]) \o Rest(q, k) \in Seq(Texts)
         /\ Taken(q, Remainder(q[k]) \o Rest(q, k), k)
<1>1. /\ q[k] \in Texts /\ Len(q) \in Nat /\ k \in Nat /\ Len(q) - k \in Nat
  OBVIOUS
<1>2. /\ Rest(q, k) \in Seq(Texts) /\ Len(Rest(q, k)) = Len(q) - k
      /\ \A i \in 1..Len(q) - k : Rest(q, k)[i] = q[i + k]
  BY RestFacts
<1>3. CASE q[k].kind \in Downloads
  <2> DEFINE t == Text("tail", q[k].of)
             r == <<t>> \o Rest(q, k)
  <2>1. t \in Texts /\ t = Text("tail", q[k].of)
    BY <1>1 DEF Text, Texts
  <2>2. Remainder(q[k]) = <<t>>
    BY <1>3 DEF Remainder
  <2> HIDE DEF t
  <2>3. <<t>> \in Seq(Texts) /\ Len(<<t>>) = 1 /\ <<t>>[1] = t
    BY <2>1
  <2>4. /\ r \in Seq(Texts) /\ Len(r) = 1 + Len(Rest(q, k))
        /\ \A i \in 1..1 + Len(Rest(q, k)) :
             r[i] = IF i <= 1 THEN <<t>>[i] ELSE Rest(q, k)[i - 1]
    BY <1>2, <2>3, ConcatProperties
  <2> HIDE DEF r
  <2>5. Len(r) = Len(q) - k + 1
    BY <1>1, <1>2, <2>4
  <2>6. r[1] = t
    BY <1>1, <1>2, <2>3, <2>4
  <2>7. ASSUME NEW i \in 2..Len(q) - k + 1 PROVE r[i] = q[i + (k - 1)]
    <3>1. i \in 1..1 + Len(Rest(q, k)) /\ ~(i <= 1) /\ i - 1 \in 1..Len(q) - k
      BY <1>1, <1>2, <2>7
    <3>2. r[i] = Rest(q, k)[i - 1]
      BY <2>4, <3>1
    <3>3. Rest(q, k)[i - 1] = q[(i - 1) + k] /\ (i - 1) + k = i + (k - 1)
      BY <1>1, <1>2, <2>7, <3>1
    <3>4. QED BY <3>2, <3>3
  <2>8. r = Remainder(q[k]) \o Rest(q, k)
    BY <2>2 DEF r
  <2>9. Taken(q, r, k)
    BY <1>3, <2>1, <2>5, <2>6, <2>7 DEF Taken
  <2>10. QED BY <2>4, <2>8, <2>9
<1>4. CASE q[k].kind \notin Downloads
  <2>1. Remainder(q[k]) \o Rest(q, k) = Rest(q, k)
    BY <1>2, <1>4, ConcatEmptySeq DEF Remainder
  <2>2. QED BY <1>2, <2>1 DEF Taken
<1>5. QED BY <1>3, <1>4

\* A read without an end left over.
LEMMA RestTaken ==
  ASSUME NEW q \in Seq(Texts), NEW k \in 1..Len(q)
  PROVE  Rest(q, k) \in Seq(Texts) /\ Taken(q, Rest(q, k), k)
BY RestFacts DEF Taken

\* The first unit of two.
LEMMA FirstTaken ==
  ASSUME NEW q \in Seq(Texts), q # << >>
  PROVE  /\ 1 \in 1..Len(q) /\ Head(q) = q[1]
         /\ Tail(q) = Rest(q, 1)
<1>1. Len(q) \in Nat /\ Len(q) >= 1 /\ Head(q) = q[1] /\ 1 + 1 = 2
  OBVIOUS
<1>2. Tail(q) = SubSeq(q, 2, Len(q))
  BY TailIsSubSeq
<1>3. QED BY <1>1, <1>2 DEF Rest

\* How a read of a command by p can end: q and u become r and v.
ReadsText(p, q, r, u, v) ==
  /\ r \in Seq(Texts)
  /\ u \subseteq v /\ v \subseteq u \cup {"glued", p}
  /\ \E k \in 1..Len(q) :
       /\ Taken(q, r, k)
       /\ k > 1 => "glued" \in v
       /\ k = 1 /\ p \notin v => Len(r) = Len(q) - 1

\* It ends so in each of the cases of TakeText.
LEMMA TextReads ==
  ASSUME NEW q \in Seq(Texts), q # << >>, NEW r, NEW u, NEW v, NEW p,
         \/ \E k \in DOMAIN q :
              /\ r = (IF k > 1 THEN Remainder(q[k]) ELSE << >>) \o Rest(q, k)
              /\ v = u \cup (IF k > 1 THEN {"glued"} ELSE {})
         \/ r = Tail(q) /\ v = u
         \/ r = Remainder(Head(q)) \o Tail(q) /\ v = u \cup {p}
  PROVE  ReadsText(p, q, r, u, v)
<1>1. /\ 1 \in 1..Len(q) /\ Head(q) = q[1] /\ Tail(q) = Rest(q, 1)
      /\ Len(q) \in Nat /\ DOMAIN q = 1..Len(q)
  BY FirstTaken
<1>2. CASE \E k \in DOMAIN q :
          /\ r = (IF k > 1 THEN Remainder(q[k]) ELSE << >>) \o Rest(q, k)
          /\ v = u \cup (IF k > 1 THEN {"glued"} ELSE {})
  <2>1. PICK k \in 1..Len(q) :
          /\ r = (IF k > 1 THEN Remainder(q[k]) ELSE << >>) \o Rest(q, k)
          /\ v = u \cup (IF k > 1 THEN {"glued"} ELSE {})
    BY <1>1, <1>2
  <2>2. CASE k > 1
    <3>1. r \in Seq(Texts) /\ Taken(q, r, k)
      BY <2>1, <2>2, RemainderFacts
    <3>2. QED BY <2>1, <2>2, <3>1 DEF ReadsText
  <2>3. CASE ~(k > 1)
    <3>1. Rest(q, k) \in Seq(Texts) /\ Taken(q, Rest(q, k), k)
          /\ Len(Rest(q, k)) = Len(q) - k
      BY RestTaken, RestFacts
    <3>2. r = Rest(q, k)
      BY <2>1, <2>3, <3>1, ConcatEmptySeq
    <3>3. k = 1
      BY <1>1, <2>3
    <3>4. QED BY <2>1, <2>3, <3>1, <3>2, <3>3 DEF ReadsText
  <2>4. QED BY <2>2, <2>3
<1>3. CASE r = Tail(q) /\ v = u
  <2>1. r \in Seq(Texts) /\ Taken(q, r, 1) /\ Len(r) = Len(q) - 1
    BY <1>1, <1>3, RestTaken, RestFacts
  <2>2. QED BY <1>1, <1>3, <2>1 DEF ReadsText
<1>4. CASE r = Remainder(Head(q)) \o Tail(q) /\ v = u \cup {p}
  <2>1. r \in Seq(Texts) /\ Taken(q, r, 1)
    BY <1>1, <1>4, RemainderFacts
  <2>2. QED BY <1>1, <1>4, <2>1 DEF ReadsText
<1>5. QED BY <1>2, <1>3, <1>4

\* The proxy's reads and the server's.
LEMMA TextFromClient ==
  ASSUME c2p \in Seq(Texts), c2p # << >>, TakeText("proxy", c2p)
  PROVE  ReadsText("proxy", c2p, c2p', uneven, uneven')
<1> DEFINE r == c2p'
           v == uneven'
<1>1. \/ \E k \in DOMAIN c2p :
           /\ r = (IF k > 1 THEN Remainder(c2p[k]) ELSE << >>) \o Rest(c2p, k)
           /\ v = uneven \cup (IF k > 1 THEN {"glued"} ELSE {})
      \/ r = Tail(c2p) /\ v = uneven
      \/ r = Remainder(Head(c2p)) \o Tail(c2p) /\ v = uneven \cup {"proxy"}
  BY DEF TakeText
<1> HIDE DEF r, v
<1>2. ReadsText("proxy", c2p, r, uneven, v)
  BY <1>1, TextReads
<1>3. QED BY <1>2 DEF r, v

LEMMA TextFromProxy ==
  ASSUME p2s \in Seq(Texts), p2s # << >>, TakeText("server", p2s)
  PROVE  ReadsText("server", p2s, p2s', uneven, uneven')
<1> DEFINE r == p2s'
           v == uneven'
<1>1. \/ \E k \in DOMAIN p2s :
           /\ r = (IF k > 1 THEN Remainder(p2s[k]) ELSE << >>) \o Rest(p2s, k)
           /\ v = uneven \cup (IF k > 1 THEN {"glued"} ELSE {})
      \/ r = Tail(p2s) /\ v = uneven
      \/ r = Remainder(Head(p2s)) \o Tail(p2s) /\ v = uneven \cup {"server"}
  BY DEF TakeText
<1> HIDE DEF r, v
<1>2. ReadsText("server", p2s, r, uneven, v)
  BY <1>1, TextReads
<1>3. QED BY <1>2 DEF r, v

-----------------------------------------------------------------------------
(* What one step does, in terms of places, lengths and positions.          *)

\* One process goes to one of the places S, the others stay where they are.
ClientGoes(S) ==
  /\ pc' \in [Procs -> Places] /\ pc'["client"] \in S
  /\ pc'["proxy"] = pc["proxy"] /\ pc'["server"] = pc["server"]

ProxyGoes(S) ==
  /\ pc' \in [Procs -> Places] /\ pc'["proxy"] \in S
  /\ pc'["client"] = pc["client"] /\ pc'["server"] = pc["server"]

ServerGoes(S) ==
  /\ pc' \in [Procs -> Places] /\ pc'["server"] \in S
  /\ pc'["client"] = pc["client"] /\ pc'["proxy"] = pc["proxy"]

\* What w has written to p is lost, or has been delivered.
Delivered(w, p, q, r, x, next) ==
  IF Gone(p) THEN r = q ELSE pc'[w] = next /\ Pushed(q, r, x)

\* What the proofs need of TypeOK about a step.
LEMMA StreamTypes ==
  ASSUME TypeOK
  PROVE  /\ pc \in [Procs -> Places] /\ broken \subseteq (Procs \X Procs)
         /\ c2p \in Seq(Texts) /\ p2s \in Seq(Texts) /\ s2p \in Seq(Units) /\ p2c \in Seq(Units)
         /\ Len(c2p) \in Nat /\ Len(p2s) \in Nat /\ Len(s2p) \in Nat /\ Len(p2c) \in Nat
         /\ (c2p = << >> <=> Len(c2p) = 0)
         /\ (p2s = << >> <=> Len(p2s) = 0)
         /\ (s2p = << >> <=> Len(s2p) = 0)
         /\ (p2c = << >> <=> Len(p2c) = 0)
<1>1. /\ pc \in [Procs -> Places] /\ broken \subseteq (Procs \X Procs)
      /\ c2p \in Seq(Texts) /\ p2s \in Seq(Texts) /\ s2p \in Seq(Units) /\ p2c \in Seq(Units)
  BY DEF TypeOK, Places
<1>2. ASSUME NEW S, NEW q \in Seq(S)
      PROVE  Len(q) \in Nat /\ (q = << >> <=> Len(q) = 0)
  OBVIOUS
<1>3. QED BY <1>1, <1>2

LEMMA UnitTypes ==
  ASSUME TypeOK
  PROVE  /\ \A i \in 1..Len(c2p) : c2p[i] \in Texts /\ c2p[i].of \in Nat
         /\ \A i \in 1..Len(p2s) : p2s[i] \in Texts /\ p2s[i].of \in Nat
         /\ \A i \in 1..Len(s2p) : s2p[i] \in Units /\ s2p[i].of \in Nat /\ s2p[i].val \in Nat
         /\ \A i \in 1..Len(p2c) : p2c[i] \in Units /\ p2c[i].of \in Nat /\ p2c[i].val \in Nat
         /\ command \in Texts /\ command.of \in Nat /\ buffer \in Texts /\ buffer.of \in Nat
<1>1. ASSUME NEW S, NEW q \in Seq(S), NEW i \in 1..Len(q) PROVE q[i] \in S
  OBVIOUS
<1>2. /\ \A i \in 1..Len(c2p) : c2p[i] \in Texts
      /\ \A i \in 1..Len(p2s) : p2s[i] \in Texts
      /\ \A i \in 1..Len(s2p) : s2p[i] \in Units
      /\ \A i \in 1..Len(p2c) : p2c[i] \in Units
  BY <1>1, StreamTypes
<1>3. command \in Texts /\ buffer \in Texts
  BY DEF TypeOK
<1>4. QED BY <1>2, <1>3 DEF Texts, Units

\* Several of them.
LEMMA SomeRead ==
  ASSUME NEW S, NEW q \in Seq(S), NEW k \in DOMAIN q
  PROVE  /\ Rest(q, k) \in Seq(S) /\ Dropped(q, Rest(q, k), k)
         /\ k \in 1..Len(q)
<1>1. k \in 1..Len(q)
  OBVIOUS
<1>2. QED BY <1>1, RestFacts DEF Dropped

\* Write as a relation: afterwards the stream is r, pc is P and broken is b.
Wrote(w, p, q, r, d, next, P, b) ==
  IF Gone(p)
  THEN /\ r = q
       /\ \/ b = broken \cup {<<w, p>>} /\ P = [pc EXCEPT ![w] = next]
          \/ b = broken /\ P = [pc EXCEPT ![w] = "dead"]
  ELSE r = q \o d /\ b = broken /\ P = [pc EXCEPT ![w] = next]

\* A write moves the writer only, which dies at most when the reader has gone.
LEMMA WriteFacts ==
  ASSUME NEW q, NEW r, NEW d, NEW w \in Procs, NEW p \in Procs, NEW next \in Places,
         NEW P, NEW b,
         pc \in [Procs -> Places], broken \subseteq (Procs \X Procs),
         Wrote(w, p, q, r, d, next, P, b)
  PROVE  /\ P \in [Procs -> Places] /\ b \subseteq (Procs \X Procs)
         /\ P[w] \in {next, "dead"}
         /\ \A x \in Procs \ {w} : P[x] = pc[x]
         /\ IF Gone(p) THEN r = q ELSE P[w] = next /\ r = q \o d
<1>1. "dead" \in Places
  BY DEF Places
<1>2. b \subseteq (Procs \X Procs)
  <2>1. <<w, p>> \in Procs \X Procs
    OBVIOUS
  <2>2. b = broken \/ b = broken \cup {<<w, p>>}
    BY DEF Wrote
  <2>3. QED BY <2>1, <2>2
<1>3. P = [pc EXCEPT ![w] = next] \/ P = [pc EXCEPT ![w] = "dead"]
  BY DEF Wrote
<1>4. P \in [Procs -> Places] /\ \A x \in Procs \ {w} : P[x] = pc[x]
  BY <1>1, <1>3
<1>5. P[w] \in {next, "dead"}
  BY <1>3
<1>6. IF Gone(p) THEN r = q ELSE P[w] = next /\ r = q \o d
  <2>1. CASE Gone(p)
    BY <2>1 DEF Wrote
  <2>2. CASE ~Gone(p)
    BY <2>2, <1>5 DEF Wrote
  <2>3. QED BY <2>1, <2>2
<1>7. QED BY <1>2, <1>4, <1>5, <1>6

\* The client writes to the proxy.
LEMMA ClientWrites ==
  ASSUME TypeOK, NEW x \in Texts, NEW next \in Places,
         Write("client", "proxy", c2p, <<x>>, next)
  PROVE  /\ ClientGoes({next, "dead"}) /\ broken' \subseteq (Procs \X Procs)
         /\ c2p' \in Seq(Texts) /\ Delivered("client", "proxy", c2p, c2p', x, next)
<1> DEFINE P == pc'
           b == broken'
           r == c2p'
           d == <<x>>
<1>1. /\ "client" \in Procs /\ "proxy" \in Procs /\ "server" \in Procs
      /\ pc \in [Procs -> Places] /\ broken \subseteq (Procs \X Procs) /\ c2p \in Seq(Texts)
  BY StreamTypes DEF Procs
<1>2. Wrote("client", "proxy", c2p, r, d, next, P, b)
  BY DEF Write, Wrote
<1> HIDE DEF P, b, r, d
<1>3. /\ P \in [Procs -> Places] /\ b \subseteq (Procs \X Procs)
      /\ P["client"] \in {next, "dead"}
      /\ \A y \in Procs \ {"client"} : P[y] = pc[y]
      /\ IF Gone("proxy") THEN r = c2p ELSE P["client"] = next /\ r = c2p \o d
  BY <1>1, <1>2, WriteFacts
<1>4. c2p \o d \in Seq(Texts) /\ Pushed(c2p, c2p \o d, x)
  BY <1>1, OnePushed DEF d
<1>5. P["proxy"] = pc["proxy"] /\ P["server"] = pc["server"]
  BY <1>1, <1>3
<1>6. QED BY <1>1, <1>3, <1>4, <1>5 DEF ClientGoes, Delivered, P, b, r

\* The proxy writes to the server.
LEMMA ProxyWritesOn ==
  ASSUME TypeOK, NEW x \in Texts, NEW next \in Places,
         Write("proxy", "server", p2s, <<x>>, next)
  PROVE  /\ ProxyGoes({next, "dead"}) /\ broken' \subseteq (Procs \X Procs)
         /\ p2s' \in Seq(Texts) /\ Delivered("proxy", "server", p2s, p2s', x, next)
<1> DEFINE P == pc'
           b == broken'
           r == p2s'
           d == <<x>>
<1>1. /\ "proxy" \in Procs /\ "server" \in Procs /\ "client" \in Procs
      /\ pc \in [Procs -> Places] /\ broken \subseteq (Procs \X Procs) /\ p2s \in Seq(Texts)
  BY StreamTypes DEF Procs
<1>2. Wrote("proxy", "server", p2s, r, d, next, P, b)
  BY DEF Write, Wrote
<1> HIDE DEF P, b, r, d
<1>3. /\ P \in [Procs -> Places] /\ b \subseteq (Procs \X Procs)
      /\ P["proxy"] \in {next, "dead"}
      /\ \A y \in Procs \ {"proxy"} : P[y] = pc[y]
      /\ IF Gone("server") THEN r = p2s ELSE P["proxy"] = next /\ r = p2s \o d
  BY <1>1, <1>2, WriteFacts
<1>4. p2s \o d \in Seq(Texts) /\ Pushed(p2s, p2s \o d, x)
  BY <1>1, OnePushed DEF d
<1>5. P["server"] = pc["server"] /\ P["client"] = pc["client"]
  BY <1>1, <1>3
<1>6. QED BY <1>1, <1>3, <1>4, <1>5 DEF ProxyGoes, Delivered, P, b, r

\* The server writes to the proxy.
LEMMA ServerWrites ==
  ASSUME TypeOK, NEW x \in Units, NEW next \in Places,
         Write("server", "proxy", s2p, <<x>>, next)
  PROVE  /\ ServerGoes({next, "dead"}) /\ broken' \subseteq (Procs \X Procs)
         /\ s2p' \in Seq(Units) /\ Delivered("server", "proxy", s2p, s2p', x, next)
<1> DEFINE P == pc'
           b == broken'
           r == s2p'
           d == <<x>>
<1>1. /\ "server" \in Procs /\ "proxy" \in Procs /\ "client" \in Procs
      /\ pc \in [Procs -> Places] /\ broken \subseteq (Procs \X Procs) /\ s2p \in Seq(Units)
  BY StreamTypes DEF Procs
<1>2. Wrote("server", "proxy", s2p, r, d, next, P, b)
  BY DEF Write, Wrote
<1> HIDE DEF P, b, r, d
<1>3. /\ P \in [Procs -> Places] /\ b \subseteq (Procs \X Procs)
      /\ P["server"] \in {next, "dead"}
      /\ \A y \in Procs \ {"server"} : P[y] = pc[y]
      /\ IF Gone("proxy") THEN r = s2p ELSE P["server"] = next /\ r = s2p \o d
  BY <1>1, <1>2, WriteFacts
<1>4. s2p \o d \in Seq(Units) /\ Pushed(s2p, s2p \o d, x)
  BY <1>1, OnePushed DEF d
<1>5. P["proxy"] = pc["proxy"] /\ P["client"] = pc["client"]
  BY <1>1, <1>3
<1>6. QED BY <1>1, <1>3, <1>4, <1>5 DEF ServerGoes, Delivered, P, b, r

\* The proxy writes one unit to the client.
LEMMA ProxyWritesBack ==
  ASSUME TypeOK, NEW x \in Units, NEW next \in Places,
         Write("proxy", "client", p2c, <<x>>, next)
  PROVE  /\ ProxyGoes({next, "dead"}) /\ broken' \subseteq (Procs \X Procs)
         /\ p2c' \in Seq(Units) /\ Delivered("proxy", "client", p2c, p2c', x, next)
<1> DEFINE P == pc'
           b == broken'
           r == p2c'
           d == <<x>>
<1>1. /\ "proxy" \in Procs /\ "client" \in Procs /\ "server" \in Procs
      /\ pc \in [Procs -> Places] /\ broken \subseteq (Procs \X Procs) /\ p2c \in Seq(Units)
  BY StreamTypes DEF Procs
<1>2. Wrote("proxy", "client", p2c, r, d, next, P, b)
  BY DEF Write, Wrote
<1> HIDE DEF P, b, r, d
<1>3. /\ P \in [Procs -> Places] /\ b \subseteq (Procs \X Procs)
      /\ P["proxy"] \in {next, "dead"}
      /\ \A y \in Procs \ {"proxy"} : P[y] = pc[y]
      /\ IF Gone("client") THEN r = p2c ELSE P["proxy"] = next /\ r = p2c \o d
  BY <1>1, <1>2, WriteFacts
<1>4. p2c \o d \in Seq(Units) /\ Pushed(p2c, p2c \o d, x)
  BY <1>1, OnePushed DEF d
<1>5. P["client"] = pc["client"] /\ P["server"] = pc["server"]
  BY <1>1, <1>3
<1>6. QED BY <1>1, <1>3, <1>4, <1>5 DEF ProxyGoes, Delivered, P, b, r

\* Several at once.
LEMMA ProxyWritesSome ==
  ASSUME TypeOK, NEW d \in Seq(Units), NEW next \in Places,
         Write("proxy", "client", p2c, d, next)
  PROVE  /\ ProxyGoes({next, "dead"}) /\ broken' \subseteq (Procs \X Procs)
         /\ p2c' \in Seq(Units) /\ (p2c' = p2c \/ p2c' = p2c \o d)
<1> DEFINE P == pc'
           b == broken'
           r == p2c'
<1>1. /\ "proxy" \in Procs /\ "client" \in Procs /\ "server" \in Procs
      /\ pc \in [Procs -> Places] /\ broken \subseteq (Procs \X Procs) /\ p2c \in Seq(Units)
  BY StreamTypes DEF Procs
<1>2. Wrote("proxy", "client", p2c, r, d, next, P, b)
  BY DEF Write, Wrote
<1> HIDE DEF P, b, r
<1>3. /\ P \in [Procs -> Places] /\ b \subseteq (Procs \X Procs)
      /\ P["proxy"] \in {next, "dead"}
      /\ \A y \in Procs \ {"proxy"} : P[y] = pc[y]
      /\ IF Gone("client") THEN r = p2c ELSE P["proxy"] = next /\ r = p2c \o d
  BY <1>1, <1>2, WriteFacts
<1>4. p2c \o d \in Seq(Units)
  BY <1>1
<1>5. P["client"] = pc["client"] /\ P["server"] = pc["server"]
  BY <1>1, <1>3
<1>6. QED BY <1>1, <1>3, <1>4, <1>5 DEF ProxyGoes, P, b, r

\* k units of s are written to q, which becomes r.
Joined(q, r, s, k) ==
  /\ Len(r) = Len(q) + k
  /\ \A i \in 1..Len(q) : r[i] = q[i]
  /\ \A i \in 1..k : r[Len(q) + i] = s[i]

\* The proxy relays the names it has read at once.
LEMMA ProxyRelaysNames ==
  ASSUME TypeOK, NEW k \in DOMAIN s2p, NEW next \in Places,
         Write("proxy", "client", p2c, SubSeq(s2p, 1, k), next)
  PROVE  /\ ProxyGoes({next, "dead"}) /\ broken' \subseteq (Procs \X Procs)
         /\ p2c' \in Seq(Units)
         /\ IF Gone("client") THEN p2c' = p2c
            ELSE pc'["proxy"] = next /\ Joined(p2c, p2c', s2p, k)
<1> DEFINE P == pc'
           b == broken'
           r == p2c'
           d == SubSeq(s2p, 1, k)
<1>1. /\ "proxy" \in Procs /\ "client" \in Procs /\ "server" \in Procs
      /\ pc \in [Procs -> Places] /\ broken \subseteq (Procs \X Procs)
      /\ p2c \in Seq(Units) /\ s2p \in Seq(Units)
  BY StreamTypes DEF Procs
<1>2. Wrote("proxy", "client", p2c, r, d, next, P, b)
  BY DEF Write, Wrote
<1>3. d \in Seq(Units) /\ Len(d) = k /\ k \in Nat /\ \A i \in 1..k : d[i] = s2p[i]
  <2>1. k \in 1..Len(s2p) /\ Len(s2p) \in Nat /\ \A i \in 1..k : s2p[i] \in Units
    BY <1>1
  <2>2. /\ d \in Seq(Units) /\ Len(d) = IF 1 <= k THEN k - 1 + 1 ELSE 0
        /\ \A i \in 1..k - 1 + 1 : d[i] = s2p[1 + i - 1]
    BY <2>1, SubSeqProperties
  <2> HIDE DEF d
  <2>3. QED BY <2>1, <2>2
<1> HIDE DEF P, b, r, d
<1>4. /\ P \in [Procs -> Places] /\ b \subseteq (Procs \X Procs)
      /\ P["proxy"] \in {next, "dead"}
      /\ \A y \in Procs \ {"proxy"} : P[y] = pc[y]
      /\ IF Gone("client") THEN r = p2c ELSE P["proxy"] = next /\ r = p2c \o d
  BY <1>1, <1>2, WriteFacts
<1>5. p2c \o d \in Seq(Units) /\ Joined(p2c, p2c \o d, s2p, k)
  <2>1. /\ p2c \o d \in Seq(Units) /\ Len(p2c \o d) = Len(p2c) + k
        /\ \A i \in 1..Len(p2c) + k :
             (p2c \o d)[i] = IF i <= Len(p2c) THEN p2c[i] ELSE d[i - Len(p2c)]
    BY <1>1, <1>3, ConcatProperties
  <2>2. Len(p2c) \in Nat
    BY <1>1
  <2>3. \A i \in 1..Len(p2c) : (p2c \o d)[i] = p2c[i]
    BY <1>3, <2>1, <2>2
  <2>4. ASSUME NEW i \in 1..k PROVE (p2c \o d)[Len(p2c) + i] = s2p[i]
    <3>1. /\ Len(p2c) + i \in 1..Len(p2c) + k /\ ~(Len(p2c) + i <= Len(p2c))
          /\ (Len(p2c) + i) - Len(p2c) = i
      BY <1>3, <2>2
    <3>2. (p2c \o d)[Len(p2c) + i] = d[i]
      BY <2>1, <3>1
    <3>3. QED BY <1>3, <3>2
  <2>5. QED BY <2>1, <2>3, <2>4 DEF Joined
<1>6. P["client"] = pc["client"] /\ P["server"] = pc["server"]
  BY <1>1, <1>4
<1>7. QED BY <1>1, <1>4, <1>5, <1>6 DEF ProxyGoes, P, b, r

\* A process that just moves.
LEMMA ClientMoves ==
  ASSUME TypeOK, NEW to \in Places, pc' = [pc EXCEPT !["client"] = to]
  PROVE  ClientGoes({to})
BY StreamTypes DEF ClientGoes, Procs

LEMMA ProxyMoves ==
  ASSUME TypeOK, NEW to \in Places, pc' = [pc EXCEPT !["proxy"] = to]
  PROVE  ProxyGoes({to})
BY StreamTypes DEF ProxyGoes, Procs

LEMMA ServerMoves ==
  ASSUME TypeOK, NEW to \in Places, pc' = [pc EXCEPT !["server"] = to]
  PROVE  ServerGoes({to})
BY StreamTypes DEF ServerGoes, Procs

-----------------------------------------------------------------------------
(* Blocks of files that are read short.                                    *)

\* No unit of r has a greater number than any of q.
NumbersKept(q, r) ==
  \A m \in Nat : (\A i \in 1..Len(q) : q[i].of <= m) => \A i \in 1..Len(r) : r[i].of <= m

\* Units of the numbers of q's first one, in front of the rest of q.
LEMMA InFront ==
  ASSUME NEW q \in Seq(Units), q # << >>, NEW r \in Seq(Units),
         \A i \in 1..Len(r) : r[i].of = q[1].of
  PROVE  r \o Tail(q) \in Seq(Units) /\ NumbersKept(q, r \o Tail(q))
<1> DEFINE s == r \o Tail(q)
<1>1. /\ Len(q) \in Nat /\ Len(q) > 0 /\ Len(r) \in Nat
      /\ Tail(q) \in Seq(Units) /\ Len(Tail(q)) = Len(q) - 1
      /\ \A i \in 1..Len(q) - 1 : Tail(q)[i] = q[i + 1]
  OBVIOUS
<1>2. /\ s \in Seq(Units) /\ Len(s) = Len(r) + (Len(q) - 1)
      /\ \A i \in 1..Len(s) : s[i] = IF i <= Len(r) THEN r[i] ELSE Tail(q)[i - Len(r)]
  BY <1>1
<1> HIDE DEF s
<1>3. ASSUME NEW m \in Nat, \A i \in 1..Len(q) : q[i].of <= m, NEW i \in 1..Len(s)
      PROVE  s[i].of <= m
  <2>1. CASE i <= Len(r)
    <3>1. s[i] = r[i] /\ i \in 1..Len(r) /\ 1 \in 1..Len(q)
      BY <1>1, <1>2, <2>1
    <3>2. QED BY <1>3, <3>1
  <2>2. CASE ~(i <= Len(r))
    <3>1. i - Len(r) \in 1..Len(q) - 1 /\ (i - Len(r)) + 1 \in 1..Len(q)
      BY <1>1, <1>2, <2>2
    <3>2. s[i] = q[(i - Len(r)) + 1]
      BY <1>1, <1>2, <2>2, <3>1
    <3>3. QED BY <1>3, <3>1, <3>2
  <2>3. QED BY <2>1, <2>2
<1>4. NumbersKept(q, s)
  BY <1>3 DEF NumbersKept
<1>5. QED BY <1>2, <1>4 DEF s

\* What the proxy leaves in the stream and what it relays are units.
LEMMA ShortUnits ==
  ASSUME NEW u \in Units, u.what \in FileParts, NEW e \in ShortRelays(u)
  PROVE  /\ e[1] \in Seq(Units) /\ \A i \in 1..Len(e[1]) : e[1][i].of = u.of
         /\ e[2] \in Seq(Units) /\ \A i \in 1..Len(e[2]) : e[2][i].of = u.of
<1> DEFINE rest == [what |-> "rest", val |-> 0, of |-> u.of]
           part == [what |-> "part", val |-> 0, of |-> u.of]
           file == [what |-> "file", val |-> 0, of |-> u.of]
<1>1. /\ rest \in Units /\ part \in Units /\ file \in Units
      /\ rest.of = u.of /\ part.of = u.of /\ file.of = u.of
  BY DEF Units
<1>2. /\ e[1] \in {<< >>, <<rest>>}
      /\ e[2] \in {<<u>> \o <<rest>>, <<part>>, <<file>>, <<file>> \o <<rest>>}
  <2>1. u.what = "blocks" \/ u.what = "file" \/ u.what = "part"
    BY DEF FileParts
  <2>2. QED BY <2>1 DEF ShortRelays, RestOf, PartOf, File, Unit
<1> HIDE DEF rest, part, file
<1>3. ASSUME NEW a \in Units, a.of = u.of
      PROVE  <<a>> \in Seq(Units) /\ \A i \in 1..Len(<<a>>) : <<a>>[i].of = u.of
  BY <1>3
<1>4. ASSUME NEW a \in Units, NEW b \in Units, a.of = u.of, b.of = u.of
      PROVE  <<a>> \o <<b>> \in Seq(Units)
             /\ \A i \in 1..Len(<<a>> \o <<b>>) : (<<a>> \o <<b>>)[i].of = u.of
  <2> DEFINE s == <<a>> \o <<b>>
  <2>1. <<a>> \in Seq(Units) /\ Pushed(<<a>>, s, b) /\ s \in Seq(Units)
    <3>1. PICK q \in Seq(Units) : q = <<a>>
      BY <1>3, <1>4
    <3>2. Pushed(q, q \o <<b>>, b) /\ q \o <<b>> \in Seq(Units)
      BY <1>4, OnePushed
    <3>3. QED BY <3>1, <3>2
  <2>2. Len(<<a>>) = 1 /\ <<a>>[1] = a
    OBVIOUS
  <2> HIDE DEF s
  <2>3. Len(s) = 2 /\ s[1] = a /\ s[2] = b
    <3>1. Len(<<a>>) + 1 = 2 /\ 1 \in 1..Len(<<a>>)
      BY <2>2
    <3>2. QED BY <2>1, <2>2, <3>1 DEF Pushed
  <2>4. \A i \in 1..Len(s) : s[i].of = u.of
    <3>1. \A i \in 1..2 : i = 1 \/ i = 2
      OBVIOUS
    <3>2. QED BY <1>4, <2>3, <3>1
  <2>5. QED BY <2>1, <2>4 DEF s
<1>5. << >> \in Seq(Units) /\ \A i \in 1..Len(<< >>) : << >>[i].of = u.of
  OBVIOUS
<1>6. e[1] \in Seq(Units) /\ \A i \in 1..Len(e[1]) : e[1][i].of = u.of
  <2>1. CASE e[1] = << >>
    BY <1>5, <2>1
  <2>2. CASE e[1] = <<rest>>
    BY <1>1, <1>3, <2>2
  <2>3. QED BY <1>2, <2>1, <2>2
<1>7. e[2] \in Seq(Units) /\ \A i \in 1..Len(e[2]) : e[2][i].of = u.of
  <2>1. CASE e[2] \in {<<part>>, <<file>>}
    BY <1>1, <1>3, <2>1
  <2>2. CASE e[2] \in {<<u>> \o <<rest>>, <<file>> \o <<rest>>}
    BY <1>1, <1>4, <2>2
  <2>3. QED BY <1>2, <2>1, <2>2
<1>8. QED BY <1>6, <1>7

\* What the client leaves in the stream.
LEMMA ShortRead ==
  ASSUME p2c \in Seq(Units), p2c # << >>, ClientReadsShort
  PROVE  p2c' \in Seq(Units) /\ NumbersKept(p2c, p2c')
<1> DEFINE rest == [what |-> "rest", val |-> 0, of |-> Head(p2c).of]
<1>1. /\ Len(p2c) \in Nat /\ Head(p2c) = p2c[1] /\ Head(p2c) \in Units
      /\ Tail(p2c) \in Seq(Units) /\ Len(Tail(p2c)) = Len(p2c) - 1
      /\ \A i \in 1..Len(p2c) - 1 : Tail(p2c)[i] = p2c[i + 1]
  OBVIOUS
<1>2. rest \in Units /\ rest.of = p2c[1].of
  BY <1>1 DEF Units
<1>3. CASE p2c' = <<rest>> \o Tail(p2c)
  <2> HIDE DEF rest
  <2>1. <<rest>> \in Seq(Units) /\ \A i \in 1..Len(<<rest>>) : <<rest>>[i].of = p2c[1].of
    BY <1>2
  <2>2. QED BY <1>3, <2>1, InFront
<1>4. CASE Len(p2c) > 1 /\ p2c' = Tail(Tail(p2c))
  <2>1. /\ Tail(p2c) # << >> /\ p2c' \in Seq(Units) /\ Len(p2c') = Len(p2c) - 2
        /\ \A i \in 1..Len(p2c) - 2 : p2c'[i] = Tail(p2c)[i + 1]
    <3>1. PICK q \in Seq(Units) : q = Tail(p2c)
      BY <1>1
    <3>2. Len(q) = Len(p2c) - 1 /\ Len(q) > 0
      BY <1>1, <1>4, <3>1
    <3>3. q # << >>
      BY <3>2
    <3>4. /\ Tail(q) \in Seq(Units) /\ Len(Tail(q)) = Len(q) - 1
          /\ \A i \in 1..Len(q) - 1 : Tail(q)[i] = q[i + 1]
      BY <3>3
    <3>5. Len(q) - 1 = Len(p2c) - 2
      BY <1>1, <3>2
    <3>6. QED BY <1>4, <3>1, <3>3, <3>4, <3>5
  <2>2. \A i \in 1..Len(p2c') : (i + 1) + 1 \in 1..Len(p2c) /\ p2c'[i] = p2c[(i + 1) + 1]
    BY <1>1, <1>4, <2>1
  <2>3. QED BY <2>1, <2>2 DEF NumbersKept
<1>5. QED BY <1>3, <1>4 DEF ClientReadsShort, RestOf, Unit

-----------------------------------------------------------------------------
(* The client's steps.                                                     *)

LEMMA ClientHelloDoes ==
  ASSUME TypeOK, ClientHello
  PROVE  /\ pc["client"] = "hello" /\ ClientGoes({"prompt", "dead"})
         /\ broken' \subseteq (Procs \X Procs) /\ c2p' \in Seq(Texts)
         /\ \E t \in {"byTCP", "byUDP"} :
              Delivered("client", "proxy", c2p, c2p', Text(t, 0), "prompt")
         /\ UNCHANGED <<clientVars, proxyVars, serverVars, envVars, uneven, p2s, s2p, p2c>>
<1>1. PICK t \in Connections : Write("client", "proxy", c2p, <<Text(t, 0)>>, "prompt")
  BY DEF ClientHello
<1>2. t \in {"byTCP", "byUDP"}
  BY ConnectionsAssumption
<1>3. Text(t, 0) \in Texts /\ "prompt" \in Places
  BY <1>2 DEF Text, Texts, Places
<1>4. /\ ClientGoes({"prompt", "dead"}) /\ broken' \subseteq (Procs \X Procs)
      /\ c2p' \in Seq(Texts)
      /\ Delivered("client", "proxy", c2p, c2p', Text(t, 0), "prompt")
  BY <1>1, <1>3, ClientWrites
<1>5. QED BY <1>2, <1>4 DEF ClientHello

\* Command k is the next one sent.
Asked(k) ==
  /\ typed' = k /\ sent' = sent + 1
  /\ ClientGoes({IF k = "QUIT" THEN "end" ELSE "int", "dead"})
  /\ broken' \subseteq (Procs \X Procs) /\ c2p' \in Seq(Texts)
  /\ Delivered("client", "proxy", c2p, c2p', Text(k, sent + 1),
               IF k = "QUIT" THEN "end" ELSE "int")

LEMMA SendDoes ==
  ASSUME TypeOK, NEW k \in Kinds, Send(k)
  PROVE  Asked(k)
<1> DEFINE next == IF k = "QUIT" THEN "end" ELSE "int"
           x == Text(k, sent + 1)
<1>1. typed' = k /\ sent' = sent + 1 /\ sent \in Nat
  BY BoundsAssumption DEF Send, TypeOK
<1>2. x \in Texts /\ next \in Places
  BY <1>1 DEF Text, Texts, Places
<1>3. Write("client", "proxy", c2p, <<x>>, next)
  BY <1>1 DEF Send
<1> HIDE DEF next, x
<1>4. /\ ClientGoes({next, "dead"}) /\ broken' \subseteq (Procs \X Procs)
      /\ c2p' \in Seq(Texts) /\ Delivered("client", "proxy", c2p, c2p', x, next)
  BY <1>2, <1>3, ClientWrites
<1>5. QED BY <1>1, <1>4 DEF Asked, next, x

LEMMA ClientCommandDoes ==
  ASSUME TypeOK, ClientCommand
  PROVE  /\ pc["client"] = "prompt" /\ ~eof /\ sent < MaxCommands
         /\ \E k \in Kinds : Asked(k)
         /\ letters' \in {0, Letters}
         /\ UNCHANGED <<eof, cLeft, answer, proxyVars, serverVars, envVars, uneven,
                        p2s, s2p, p2c>>
BY SendDoes, CommandsAssumption DEF ClientCommand

LEMMA ClientRoundDoes ==
  ASSUME TypeOK, ClientRound
  PROVE  /\ pc["client"] = "prompt" /\ eof
         /\ \/ letters > 0 /\ letters' = letters - 1 /\ \E k \in Kinds : Asked(k)
            \/ /\ ClientGoes({"dead"})
               /\ UNCHANGED <<sent, typed, letters, c2p, broken>>
         /\ UNCHANGED <<eof, cLeft, answer, proxyVars, serverVars, envVars, uneven,
                        p2s, s2p, p2c>>
<1>1. typed \in Kinds /\ pc \in [Procs -> Places] /\ "dead" \in Places
  BY DEF TypeOK, Places
<1>2. Shortened(typed) \subseteq Kinds
  BY <1>1 DEF Shortened, Kinds, Downloads
<1>3. CASE letters > 0 /\ letters' = letters - 1 /\ \E k \in Shortened(typed) : Send(k)
  BY <1>2, <1>3, SendDoes DEF ClientRound
<1>4. CASE /\ pc' = [pc EXCEPT !["client"] = "dead"]
           /\ UNCHANGED <<sent, typed, letters, c2p, broken>>
  <2>1. ClientGoes({"dead"})
    BY <1>1, <1>4 DEF ClientGoes, Procs
  <2>2. QED BY <1>4, <2>1 DEF ClientRound
<1>5. QED BY <1>3, <1>4 DEF ClientRound

LEMMA ClientIntDoes ==
  ASSUME TypeOK, ClientInt
  PROVE  /\ pc["client"] = "int"
         /\ \/ /\ Len(p2c) > 0 /\ p2c[1].what = "int"
               /\ cLeft' = p2c[1].val /\ answer' = [val |-> p2c[1].val, of |-> p2c[1].of]
               /\ ClientGoes({AfterReply(p2c[1].val)})
               /\ p2c' \in Seq(Units) /\ Dropped(p2c, p2c', 1)
            \/ /\ Len(p2c) = 0 /\ Gone("proxy")
               /\ answer' = [val |-> 0, of |-> sent]
               /\ ClientGoes({"prompt"})
               /\ UNCHANGED <<cLeft, p2c>>
         /\ UNCHANGED <<inputVars, proxyVars, serverVars, envVars, uneven, broken,
                        c2p, p2s, s2p>>
<1>1. /\ pc \in [Procs -> Places] /\ p2c \in Seq(Units) /\ Len(p2c) \in Nat
      /\ (p2c = << >> <=> Len(p2c) = 0)
  BY StreamTypes
<1>2. ASSUME NEW to \in Places, pc' = [pc EXCEPT !["client"] = to] PROVE ClientGoes({to})
  BY <1>2, ClientMoves
<1>3. \A v : AfterReply(v) \in Places
  BY DEF AfterReply, Places
<1>4. "prompt" \in Places
  BY DEF Places
<1>5. CASE /\ p2c # << >> /\ Head(p2c).what = "int"
           /\ cLeft' = Head(p2c).val
           /\ answer' = [val |-> Head(p2c).val, of |-> Head(p2c).of]
           /\ pc' = [pc EXCEPT !["client"] = AfterReply(Head(p2c).val)]
           /\ p2c' = Tail(p2c)
  <2>1. Head(p2c) = p2c[1] /\ Tail(p2c) \in Seq(Units) /\ Dropped(p2c, Tail(p2c), 1)
    BY <1>1, <1>5, OneRead
  <2>2. ClientGoes({AfterReply(p2c[1].val)})
    BY <1>2, <1>3, <1>5, <2>1
  <2>3. QED BY <1>1, <1>5, <2>1, <2>2 DEF ClientInt
<1>6. CASE /\ AtEOF(p2c, "proxy")
           /\ answer' = [val |-> 0, of |-> sent]
           /\ pc' = [pc EXCEPT !["client"] = "prompt"]
           /\ UNCHANGED <<cLeft, p2c>>
  BY <1>1, <1>2, <1>4, <1>6 DEF ClientInt, AtEOF
<1>7. QED BY <1>5, <1>6 DEF ClientInt

LEMMA ClientMisreadsDoes ==
  ASSUME TypeOK, ClientMisreads
  PROVE  /\ \/ pc["client"] = "int" /\ p2c[1].what # "int"
            \/ pc["client"] = "file" /\ p2c[1].what \notin FileParts
         /\ Len(p2c) > 0 /\ ClientGoes({"garbled"})
         /\ UNCHANGED <<clientVars, proxyVars, serverVars, envVars, uneven, broken,
                        c2p, p2s, s2p, p2c>>
<1>1. /\ p2c \in Seq(Units) /\ Len(p2c) \in Nat /\ (p2c = << >> <=> Len(p2c) = 0)
      /\ "garbled" \in Places
  BY StreamTypes DEF Places
<1>2. p2c # << >> /\ pc' = [pc EXCEPT !["client"] = "garbled"]
  BY DEF ClientMisreads
<1>3. Head(p2c) = p2c[1] /\ ClientGoes({"garbled"})
  BY <1>1, <1>2, OneRead, ClientMoves
<1>4. QED BY <1>1, <1>2, <1>3 DEF ClientMisreads, Expected, FileParts

LEMMA ClientNameDoes ==
  ASSUME TypeOK, ClientName
  PROVE  /\ pc["client"] = "names" /\ cLeft' = cLeft - 1
         /\ ClientGoes({IF cLeft = 1 THEN "prompt" ELSE "names"})
         /\ p2c' \in Seq(Units)
         /\ \/ /\ \E k \in 1..Len(p2c) :
                    /\ Dropped(p2c, p2c', k)
                    /\ uneven' = IF k > 1 THEN uneven \cup {"glued"} ELSE uneven
            \/ Len(p2c) = 0 /\ Gone("proxy") /\ UNCHANGED <<p2c, uneven>>
         /\ UNCHANGED <<inputVars, answer, proxyVars, serverVars, envVars, broken, c2p, p2s, s2p>>
<1> DEFINE to == IF cLeft = 1 THEN "prompt" ELSE "names"
<1>1. /\ p2c \in Seq(Units) /\ Len(p2c) \in Nat /\ (p2c = << >> <=> Len(p2c) = 0)
      /\ to \in Places
  BY StreamTypes DEF Places
<1>0. /\ pc["client"] = "names" /\ cLeft' = cLeft - 1
      /\ UNCHANGED <<inputVars, answer, proxyVars, serverVars, envVars, broken, c2p, p2s, s2p>>
  BY DEF ClientName
<1>2. ClientGoes({to})
  BY <1>1, ClientMoves DEF ClientName
<1> HIDE DEF to
<1>3. CASE \E k \in DOMAIN p2c : TakeNames(p2c, k)
  <2>1. PICK k \in DOMAIN p2c : TakeNames(p2c, k)
    BY <1>3
  <2>2. p2c' = Rest(p2c, k) /\ uneven' = IF k > 1 THEN uneven \cup {"glued"} ELSE uneven
    BY <2>1 DEF TakeNames
  <2>3. p2c' \in Seq(Units) /\ Dropped(p2c, p2c', k) /\ k \in 1..Len(p2c)
    BY <1>1, <2>2, SomeRead
  <2>4. QED BY <1>0, <1>2, <2>2, <2>3 DEF to
<1>4. CASE AtEOF(p2c, "proxy") /\ UNCHANGED <<p2c, uneven>>
  BY <1>0, <1>1, <1>2, <1>4 DEF AtEOF, to
<1>5. QED BY <1>3, <1>4 DEF ClientName

\* The client takes the file, or finds the end of the stream, or reads it short.
LEMMA ClientFileDoes ==
  ASSUME TypeOK, ClientFile
  PROVE  /\ pc["client"] = "file" /\ ClientGoes({"prompt"})
         /\ p2c' \in Seq(Units)
         /\ \/ Dropped(p2c, p2c', 1) /\ Len(p2c) > 0 /\ UNCHANGED uneven
            \/ Len(p2c) = 0 /\ Gone("proxy") /\ UNCHANGED <<p2c, uneven>>
            \/ uneven' = uneven \cup {"short"} /\ NumbersKept(p2c, p2c')
         /\ UNCHANGED <<clientVars, proxyVars, serverVars, envVars, broken, c2p, p2s, s2p>>
<1>1. /\ p2c \in Seq(Units) /\ Len(p2c) \in Nat /\ (p2c = << >> <=> Len(p2c) = 0)
      /\ "prompt" \in Places
  BY StreamTypes DEF Places
<1>0. /\ pc["client"] = "file"
      /\ UNCHANGED <<clientVars, proxyVars, serverVars, envVars, broken, c2p, p2s, s2p>>
  BY DEF ClientFile
<1>2. ClientGoes({"prompt"})
  BY <1>1, ClientMoves DEF ClientFile
<1>3. CASE p2c # << >> /\ p2c' = Tail(p2c) /\ UNCHANGED uneven
  <2>1. p2c' \in Seq(Units) /\ Dropped(p2c, p2c', 1) /\ Head(p2c) = p2c[1]
    BY <1>1, <1>3, OneRead
  <2>2. QED BY <1>0, <1>1, <1>2, <1>3, <2>1
<1>4. CASE AtEOF(p2c, "proxy") /\ UNCHANGED <<p2c, uneven>>
  BY <1>0, <1>1, <1>2, <1>4 DEF AtEOF
<1>5. CASE p2c # << >> /\ ClientReadsShort /\ uneven' = uneven \cup {"short"}
  <2>1. p2c' \in Seq(Units) /\ NumbersKept(p2c, p2c')
    BY <1>1, <1>5, ShortRead
  <2>2. QED BY <1>0, <1>2, <1>5, <2>1
<1>6. QED BY <1>3, <1>4, <1>5 DEF ClientFile

-----------------------------------------------------------------------------
(* The proxy's steps.                                                      *)

LEMMA ProxyHelloDoes ==
  ASSUME TypeOK, ProxyHello
  PROVE  /\ pc["proxy"] = "hello" /\ pc' \in [Procs -> Places] /\ pc'["client"] = pc["client"]
         /\ \/ /\ Len(c2p) > 0 /\ ReadsText("proxy", c2p, c2p', uneven, uneven')
               /\ IF c2p[1].kind = "byTCP"
                  THEN pc'["proxy"] = "command" /\ pc'["server"] = "queued"
                  ELSE pc'["proxy"] = "end" /\ pc'["server"] = pc["server"]
            \/ /\ Gone("client") /\ pc'["proxy"] = "dead" /\ pc'["server"] = pc["server"]
               /\ UNCHANGED <<c2p, uneven>>
         /\ UNCHANGED <<clientVars, proxyVars, serverVars, envVars, broken, p2s, s2p, p2c>>
<1>1. /\ pc["proxy"] = "hello"
      /\ UNCHANGED <<clientVars, proxyVars, serverVars, envVars, broken, p2s, s2p, p2c>>
  BY DEF ProxyHello
<1>2. /\ pc \in [Procs -> Places] /\ c2p \in Seq(Texts) /\ Len(c2p) \in Nat
      /\ (c2p = << >> <=> Len(c2p) = 0)
  BY StreamTypes
<1>3. CASE /\ c2p # << >>
           /\ TakeText("proxy", c2p)
           /\ pc' = IF Head(c2p).kind = "byTCP"
                    THEN [pc EXCEPT !["proxy"] = "command", !["server"] = "queued"]
                    ELSE [pc EXCEPT !["proxy"] = "end"]
  <2>1. ReadsText("proxy", c2p, c2p', uneven, uneven') /\ Head(c2p) = c2p[1]
    BY <1>2, <1>3, TextFromClient, OneRead
  <2>2. /\ pc' \in [Procs -> Places] /\ pc'["client"] = pc["client"]
        /\ IF c2p[1].kind = "byTCP"
           THEN pc'["proxy"] = "command" /\ pc'["server"] = "queued"
           ELSE pc'["proxy"] = "end" /\ pc'["server"] = pc["server"]
    BY <1>2, <1>3, <2>1 DEF Procs, Places
  <2>3. Len(c2p) > 0
    BY <1>2, <1>3
  <2>4. QED BY <1>1, <2>1, <2>2, <2>3
<1>4. CASE /\ AtEOF(c2p, "client")
           /\ pc' = [pc EXCEPT !["proxy"] = "dead"]
           /\ UNCHANGED <<c2p, uneven>>
  <2>1. /\ pc' \in [Procs -> Places] /\ pc'["client"] = pc["client"]
        /\ pc'["proxy"] = "dead" /\ pc'["server"] = pc["server"]
    BY <1>2, <1>4 DEF Procs, Places
  <2>2. QED BY <1>1, <1>4, <2>1 DEF AtEOF
<1>5. QED BY <1>3, <1>4 DEF ProxyHello

\* Where the proxy goes with command c.
Onward(c) == IF c.kind = "QUIT" THEN "end" ELSE "int"

LEMMA PassOnDoes ==
  ASSUME TypeOK, NEW c \in Texts, PassOn(c)
  PROVE  /\ ProxyGoes({Onward(c), "dead"}) /\ broken' \subseteq (Procs \X Procs)
         /\ p2s' \in Seq(Texts) /\ Delivered("proxy", "server", p2s, p2s', c, Onward(c))
<1>1. Onward(c) \in Places
  BY DEF Onward, Places
<1>2. Write("proxy", "server", p2s, <<c>>, Onward(c))
  BY DEF PassOn, Onward
<1>3. QED BY <1>1, <1>2, ProxyWritesOn

LEMMA ProxyCommandDoes ==
  ASSUME TypeOK, ProxyCommand
  PROVE  /\ pc["proxy"] = "command"
         /\ Len(c2p) > 0 /\ c2p[1] \in Texts /\ c2p[1].kind # "tail" /\ command' = c2p[1]
         /\ ReadsText("proxy", c2p, c2p', uneven, uneven')
         /\ ProxyGoes({Onward(c2p[1]), "dead"}) /\ broken' \subseteq (Procs \X Procs)
         /\ p2s' \in Seq(Texts)
         /\ Delivered("proxy", "server", p2s, p2s', c2p[1], Onward(c2p[1]))
         /\ UNCHANGED <<clientVars, pLeft, serverVars, envVars, s2p, p2c>>
<1>1. /\ pc["proxy"] = "command" /\ c2p # << >> /\ Head(c2p).kind # "tail"
      /\ command' = Head(c2p) /\ TakeText("proxy", c2p) /\ PassOn(Head(c2p))
      /\ UNCHANGED <<clientVars, pLeft, serverVars, envVars, s2p, p2c>>
  BY DEF ProxyCommand
<1>2. /\ c2p \in Seq(Texts) /\ Len(c2p) \in Nat /\ Len(c2p) > 0
      /\ Head(c2p) = c2p[1] /\ c2p[1] \in Texts
  BY <1>1, StreamTypes, OneRead
<1>3. ReadsText("proxy", c2p, c2p', uneven, uneven')
  BY <1>1, <1>2, TextFromClient
<1>4. /\ ProxyGoes({Onward(c2p[1]), "dead"}) /\ broken' \subseteq (Procs \X Procs)
      /\ p2s' \in Seq(Texts) /\ Delivered("proxy", "server", p2s, p2s', c2p[1], Onward(c2p[1]))
  BY <1>1, <1>2, PassOnDoes
<1>5. QED BY <1>1, <1>2, <1>3, <1>4

LEMMA ProxyTailDoes ==
  ASSUME TypeOK, ProxyTail
  PROVE  /\ pc["proxy"] = "command"
         /\ Len(c2p) > 0 /\ c2p[1] \in Texts /\ c2p[1].kind = "tail"
         /\ ReadsText("proxy", c2p, c2p', uneven, uneven')
         /\ \/ ProxyGoes({"dead"}) /\ UNCHANGED command
            \/ ProxyGoes({"command"}) /\ command' = c2p[1]
         /\ UNCHANGED <<clientVars, pLeft, serverVars, envVars, broken, p2s, s2p, p2c>>
<1>1. /\ pc["proxy"] = "command" /\ c2p # << >> /\ Head(c2p).kind = "tail"
      /\ TakeText("proxy", c2p)
      /\ UNCHANGED <<clientVars, pLeft, serverVars, envVars, broken, p2s, s2p, p2c>>
  BY DEF ProxyTail
<1>2. /\ c2p \in Seq(Texts) /\ Len(c2p) \in Nat /\ Len(c2p) > 0
      /\ Head(c2p) = c2p[1] /\ c2p[1] \in Texts /\ pc \in [Procs -> Places]
  BY <1>1, StreamTypes, OneRead
<1>3. ReadsText("proxy", c2p, c2p', uneven, uneven')
  BY <1>1, <1>2, TextFromClient
<1>4. CASE pc' = [pc EXCEPT !["proxy"] = "dead"] /\ UNCHANGED command
  <2>1. ProxyGoes({"dead"})
    BY <1>4, ProxyMoves DEF Places
  <2>2. QED BY <1>1, <1>2, <1>3, <1>4, <2>1
<1>5. CASE command' = Head(c2p) /\ UNCHANGED pc
  <2>1. ProxyGoes({"command"})
    BY <1>1, <1>2, <1>5 DEF ProxyGoes
  <2>2. QED BY <1>1, <1>2, <1>3, <1>5, <2>1
<1>6. QED BY <1>4, <1>5 DEF ProxyTail

LEMMA ProxyReplayDoes ==
  ASSUME TypeOK, ProxyReplay
  PROVE  /\ pc["proxy"] = "command" /\ Gone("client") /\ command.kind \in Kinds
         /\ ProxyGoes({Onward(command), "dead"}) /\ broken' \subseteq (Procs \X Procs)
         /\ p2s' \in Seq(Texts)
         /\ Delivered("proxy", "server", p2s, p2s', command, Onward(command))
         /\ UNCHANGED <<clientVars, proxyVars, serverVars, envVars, uneven, c2p, s2p, p2c>>
<1>1. /\ pc["proxy"] = "command" /\ Gone("client") /\ command.kind \in Kinds
      /\ PassOn(command)
      /\ UNCHANGED <<clientVars, proxyVars, serverVars, envVars, uneven, c2p, s2p, p2c>>
  BY DEF ProxyReplay, AtEOF
<1>2. command \in Texts
  BY DEF TypeOK
<1>3. QED BY <1>1, <1>2, PassOnDoes

LEMMA ProxyJunkDoes ==
  ASSUME TypeOK, ProxyJunk
  PROVE  /\ pc["proxy"] = "command" /\ Gone("client") /\ ProxyGoes({"spin", "dead"})
         /\ UNCHANGED <<clientVars, proxyVars, serverVars, envVars, uneven, broken,
                        c2p, p2s, s2p, p2c>>
<1>1. /\ pc["proxy"] = "command" /\ Gone("client")
      /\ UNCHANGED <<clientVars, proxyVars, serverVars, envVars, uneven, broken,
                     c2p, p2s, s2p, p2c>>
  BY DEF ProxyJunk, AtEOF
<1>2. PICK to \in {"spin", "dead"} : pc' = [pc EXCEPT !["proxy"] = to]
  BY DEF ProxyJunk
<1>3. ProxyGoes({to}) /\ to \in {"spin", "dead"}
  BY <1>2, ProxyMoves DEF Places
<1>4. ProxyGoes({"spin", "dead"})
  BY <1>3 DEF ProxyGoes
<1>5. QED BY <1>1, <1>4

\* The first unit of the answer that is passed on, for what has been read.
Reported(v, n) ==
  [what |-> "int", val |-> IF command.kind = "LIST" \/ v = 0 THEN v ELSE 1, of |-> n]

LEMMA RelayDoes ==
  ASSUME TypeOK, NEW v \in Nat, NEW n \in Nat, Relay(v, n)
  PROVE  /\ ProxyGoes({AfterRelay(v), "dead"}) /\ broken' \subseteq (Procs \X Procs)
         /\ p2c' \in Seq(Units)
         /\ Delivered("proxy", "client", p2c, p2c', Reported(v, n), AfterRelay(v))
<1>1. Reported(v, n) \in Units
  BY DEF Reported, Units
<1>2. AfterRelay(v) \in Places
  BY DEF AfterRelay, Places
<1>3. Write("proxy", "client", p2c, <<Reported(v, n)>>, AfterRelay(v))
  BY DEF Relay, RelayAs, Passed, Number, Reported
<1>4. QED BY <1>1, <1>2, <1>3, ProxyWritesBack

LEMMA ProxyIntDoes ==
  ASSUME TypeOK, ProxyInt
  PROVE  /\ pc["proxy"] = "int" /\ pc' \in [Procs -> Places] /\ broken' \subseteq (Procs \X Procs)
         /\ pc'["client"] = pc["client"] /\ pc'["server"] = pc["server"]
         /\ p2c' \in Seq(Units) /\ s2p' \in Seq(Units)
         /\ \/ /\ Len(s2p) > 0 /\ s2p[1] \in Units /\ s2p[1].what = "int"
               /\ Dropped(s2p, s2p', 1) /\ pLeft' = s2p[1].val
               /\ pc'["proxy"] \in {AfterRelay(s2p[1].val), "dead"}
               /\ Delivered("proxy", "client", p2c, p2c', Reported(s2p[1].val, s2p[1].of),
                            AfterRelay(s2p[1].val))
            \/ /\ Len(s2p) = 0 /\ Gone("server")
               /\ pc'["proxy"] \in {"command", "dead"}
               /\ Delivered("proxy", "client", p2c, p2c', Reported(0, command.of), "command")
               /\ UNCHANGED <<s2p, pLeft>>
         /\ UNCHANGED <<clientVars, command, serverVars, envVars, uneven, c2p, p2s>>
<1>1. /\ pc["proxy"] = "int"
      /\ UNCHANGED <<clientVars, command, serverVars, envVars, uneven, c2p, p2s>>
  BY DEF ProxyInt
<1>2. /\ s2p \in Seq(Units) /\ Len(s2p) \in Nat /\ (s2p = << >> <=> Len(s2p) = 0)
      /\ p2c \in Seq(Units) /\ broken \subseteq (Procs \X Procs)
  BY StreamTypes
<1>3. CASE /\ s2p # << >> /\ Head(s2p).what = "int"
           /\ s2p' = Tail(s2p)
           /\ pLeft' = Head(s2p).val
           /\ Relay(Head(s2p).val, Head(s2p).of)
  <2>1. /\ Head(s2p) = s2p[1] /\ s2p[1] \in Units /\ Len(s2p) > 0
        /\ s2p' \in Seq(Units) /\ Dropped(s2p, s2p', 1)
    BY <1>2, <1>3, OneRead
  <2>2. s2p[1].val \in Nat /\ s2p[1].of \in Nat
    BY <2>1 DEF Units
  <2>3. /\ ProxyGoes({AfterRelay(s2p[1].val), "dead"}) /\ broken' \subseteq (Procs \X Procs)
        /\ p2c' \in Seq(Units)
        /\ Delivered("proxy", "client", p2c, p2c', Reported(s2p[1].val, s2p[1].of),
                     AfterRelay(s2p[1].val))
    BY <1>3, <2>1, <2>2, RelayDoes
  <2>4. QED BY <1>1, <1>3, <2>1, <2>3 DEF ProxyGoes
<1>4. CASE /\ AtEOF(s2p, "server")
           /\ Relay(0, command.of)
           /\ UNCHANGED <<s2p, pLeft>>
  <2>1. 0 \in Nat /\ command.of \in Nat /\ AfterRelay(0) = "command"
    BY DEF TypeOK, Texts, AfterRelay
  <2>2. /\ ProxyGoes({AfterRelay(0), "dead"}) /\ broken' \subseteq (Procs \X Procs)
        /\ p2c' \in Seq(Units)
        /\ Delivered("proxy", "client", p2c, p2c', Reported(0, command.of), AfterRelay(0))
    BY <1>4, <2>1, RelayDoes
  <2>3. Len(s2p) = 0 /\ Gone("server")
    BY <1>2, <1>4 DEF AtEOF
  <2>4. QED BY <1>1, <1>2, <1>4, <2>1, <2>2, <2>3 DEF ProxyGoes
<1>5. QED BY <1>3, <1>4 DEF ProxyInt

LEMMA ProxyMisreadsDoes ==
  ASSUME TypeOK, ProxyMisreads
  PROVE  /\ \/ pc["proxy"] = "int" /\ s2p[1].what # "int"
            \/ pc["proxy"] = "file" /\ s2p[1].what \notin FileParts
         /\ Len(s2p) > 0 /\ ProxyGoes({"garbled"})
         /\ UNCHANGED <<clientVars, proxyVars, serverVars, envVars, uneven, broken,
                        c2p, p2s, s2p, p2c>>
<1>1. /\ s2p \in Seq(Units) /\ Len(s2p) \in Nat /\ (s2p = << >> <=> Len(s2p) = 0)
      /\ "garbled" \in Places
  BY StreamTypes DEF Places
<1>2. s2p # << >> /\ pc' = [pc EXCEPT !["proxy"] = "garbled"]
  BY DEF ProxyMisreads
<1>3. Head(s2p) = s2p[1] /\ ProxyGoes({"garbled"})
  BY <1>1, <1>2, OneRead, ProxyMoves
<1>4. QED BY <1>1, <1>2, <1>3 DEF ProxyMisreads, Expected, FileParts

LEMMA ProxyNameDoes ==
  ASSUME TypeOK, ProxyName
  PROVE  /\ pc["proxy"] = "names" /\ pLeft' = pLeft - 1
         /\ ProxyGoes({IF pLeft = 1 THEN "command" ELSE "names", "dead"})
         /\ broken' \subseteq (Procs \X Procs) /\ p2c' \in Seq(Units) /\ s2p' \in Seq(Units)
         /\ \/ \E k \in 1..Len(s2p) :
                 /\ Dropped(s2p, s2p', k)
                 /\ uneven' = IF k > 1 THEN uneven \cup {"glued"} ELSE uneven
                 /\ IF Gone("client") THEN p2c' = p2c
                    ELSE /\ pc'["proxy"] = IF pLeft = 1 THEN "command" ELSE "names"
                         /\ Joined(p2c, p2c', s2p, k)
            \/ /\ Len(s2p) = 0 /\ Gone("server")
               /\ pc'["proxy"] = IF pLeft = 1 THEN "command" ELSE "names"
               /\ UNCHANGED <<s2p, uneven, p2c, broken>>
         /\ UNCHANGED <<clientVars, command, serverVars, envVars, c2p, p2s>>
<1> DEFINE next == IF pLeft = 1 THEN "command" ELSE "names"
<1>1. /\ pc["proxy"] = "names" /\ pLeft' = pLeft - 1
      /\ \/ \E k \in DOMAIN s2p :
              /\ TakeNames(s2p, k)
              /\ Write("proxy", "client", p2c, SubSeq(s2p, 1, k), next)
         \/ /\ AtEOF(s2p, "server")
            /\ pc' = [pc EXCEPT !["proxy"] = next]
            /\ UNCHANGED <<s2p, uneven, p2c, broken>>
      /\ UNCHANGED <<clientVars, command, serverVars, envVars, c2p, p2s>>
  BY DEF ProxyName, RelayName
<1>2. /\ s2p \in Seq(Units) /\ Len(s2p) \in Nat /\ (s2p = << >> <=> Len(s2p) = 0)
      /\ p2c \in Seq(Units) /\ broken \subseteq (Procs \X Procs) /\ next \in Places
  BY StreamTypes DEF Places
<1>3. next = IF pLeft = 1 THEN "command" ELSE "names"
  OBVIOUS
<1> HIDE DEF next
<1>4. CASE \E k \in DOMAIN s2p :
             /\ TakeNames(s2p, k)
             /\ Write("proxy", "client", p2c, SubSeq(s2p, 1, k), next)
  <2>1. PICK k \in DOMAIN s2p :
           /\ TakeNames(s2p, k)
           /\ Write("proxy", "client", p2c, SubSeq(s2p, 1, k), next)
    BY <1>4
  <2>2. s2p' = Rest(s2p, k) /\ uneven' = IF k > 1 THEN uneven \cup {"glued"} ELSE uneven
    BY <2>1 DEF TakeNames
  <2>3. s2p' \in Seq(Units) /\ Dropped(s2p, s2p', k) /\ k \in 1..Len(s2p)
    BY <1>2, <2>2, SomeRead
  <2>4. /\ ProxyGoes({next, "dead"}) /\ broken' \subseteq (Procs \X Procs)
        /\ p2c' \in Seq(Units)
        /\ IF Gone("client") THEN p2c' = p2c
           ELSE pc'["proxy"] = next /\ Joined(p2c, p2c', s2p, k)
    BY <1>2, <2>1, ProxyRelaysNames
  <2>5. QED BY <1>1, <1>3, <2>2, <2>3, <2>4
<1>5. CASE /\ AtEOF(s2p, "server")
           /\ pc' = [pc EXCEPT !["proxy"] = next]
           /\ UNCHANGED <<s2p, uneven, p2c, broken>>
  <2>1. ProxyGoes({next})
    BY <1>2, <1>5, ProxyMoves
  <2>2. Len(s2p) = 0 /\ Gone("server")
    BY <1>2, <1>5 DEF AtEOF
  <2>3. QED BY <1>1, <1>2, <1>3, <1>5, <2>1, <2>2 DEF ProxyGoes
<1>6. QED BY <1>1, <1>4, <1>5

\* The proxy relays the file, or that there is none, or reads it short.
LEMMA ProxyFileDoes ==
  ASSUME TypeOK, ProxyFile
  PROVE  /\ pc["proxy"] = "file" /\ ProxyGoes({"command", "dead"})
         /\ broken' \subseteq (Procs \X Procs) /\ p2c' \in Seq(Units) /\ s2p' \in Seq(Units)
         /\ \/ /\ Len(s2p) > 0 /\ s2p[1] \in Units /\ s2p[1].what \in FileParts
               /\ Dropped(s2p, s2p', 1) /\ UNCHANGED uneven
               /\ Delivered("proxy", "client", p2c, p2c', s2p[1], "command")
            \/ /\ Len(s2p) = 0 /\ Gone("server") /\ UNCHANGED <<s2p, uneven>>
               /\ Delivered("proxy", "client", p2c, p2c',
                            [what |-> "blocks", val |-> 0, of |-> command.of], "command")
            \/ /\ uneven' = uneven \cup {"short"}
               /\ \A m \in Nat :
                    /\ \A i \in 1..Len(s2p) : s2p[i].of <= m
                    /\ \A i \in 1..Len(p2c) : p2c[i].of <= m
                    => /\ \A i \in 1..Len(s2p') : s2p'[i].of <= m
                       /\ \A i \in 1..Len(p2c') : p2c'[i].of <= m
         /\ UNCHANGED <<clientVars, proxyVars, serverVars, envVars, c2p, p2s>>
<1>1. /\ pc["proxy"] = "file"
      /\ UNCHANGED <<clientVars, proxyVars, serverVars, envVars, c2p, p2s>>
  BY DEF ProxyFile
<1>2. /\ s2p \in Seq(Units) /\ Len(s2p) \in Nat /\ (s2p = << >> <=> Len(s2p) = 0)
      /\ p2c \in Seq(Units) /\ "command" \in Places
  BY StreamTypes DEF Places
<1>3. CASE /\ s2p # << >> /\ Head(s2p).what \in FileParts
           /\ s2p' = Tail(s2p) /\ UNCHANGED uneven
           /\ Write("proxy", "client", p2c, <<Head(s2p)>>, "command")
  <2>1. /\ Head(s2p) = s2p[1] /\ s2p[1] \in Units /\ Len(s2p) > 0
        /\ s2p' \in Seq(Units) /\ Dropped(s2p, s2p', 1)
    BY <1>2, <1>3, OneRead
  <2>2. /\ ProxyGoes({"command", "dead"}) /\ broken' \subseteq (Procs \X Procs)
        /\ p2c' \in Seq(Units) /\ Delivered("proxy", "client", p2c, p2c', s2p[1], "command")
    BY <1>2, <1>3, <2>1, ProxyWritesBack
  <2>3. QED BY <1>1, <1>3, <2>1, <2>2
<1>4. CASE /\ AtEOF(s2p, "server")
           /\ Write("proxy", "client", p2c, Blocks(command.of), "command")
           /\ UNCHANGED <<s2p, uneven>>
  <2> DEFINE x == [what |-> "blocks", val |-> 0, of |-> command.of]
  <2>1. x \in Units
    BY DEF TypeOK, Texts, Units
  <2>2. Write("proxy", "client", p2c, <<x>>, "command")
    BY <1>4 DEF Blocks, Unit
  <2> HIDE DEF x
  <2>3. /\ ProxyGoes({"command", "dead"}) /\ broken' \subseteq (Procs \X Procs)
        /\ p2c' \in Seq(Units) /\ Delivered("proxy", "client", p2c, p2c', x, "command")
    BY <1>2, <2>1, <2>2, ProxyWritesBack
  <2>4. QED BY <1>1, <1>2, <1>4, <2>3 DEF AtEOF, x
<1>5. CASE /\ s2p # << >> /\ Head(s2p).what \in FileParts
           /\ \E e \in ShortRelays(Head(s2p)) :
                /\ s2p' = e[1] \o Tail(s2p)
                /\ Write("proxy", "client", p2c, e[2], "command")
           /\ uneven' = uneven \cup {"short"}
  <2>1. PICK e \in ShortRelays(Head(s2p)) :
          s2p' = e[1] \o Tail(s2p) /\ Write("proxy", "client", p2c, e[2], "command")
    BY <1>5
  <2>2. /\ Head(s2p) = s2p[1] /\ s2p[1] \in Units /\ Len(s2p) > 0
    BY <1>2, <1>5, OneRead
  <2>3. /\ e[1] \in Seq(Units) /\ \A i \in 1..Len(e[1]) : e[1][i].of = s2p[1].of
        /\ e[2] \in Seq(Units) /\ \A i \in 1..Len(e[2]) : e[2][i].of = s2p[1].of
    BY <1>5, <2>2, ShortUnits
  <2>4. s2p' \in Seq(Units) /\ NumbersKept(s2p, s2p')
    BY <1>2, <1>5, <2>1, <2>3, InFront
  <2>5. /\ ProxyGoes({"command", "dead"}) /\ broken' \subseteq (Procs \X Procs)
        /\ p2c' \in Seq(Units) /\ (p2c' = p2c \/ p2c' = p2c \o e[2])
    BY <1>2, <2>1, <2>3, ProxyWritesSome
  <2>6. ASSUME NEW m \in Nat, \A i \in 1..Len(s2p) : s2p[i].of <= m,
               \A i \in 1..Len(p2c) : p2c[i].of <= m
        PROVE  \A i \in 1..Len(p2c') : p2c'[i].of <= m
    <3>1. s2p[1].of <= m
      BY <1>2, <2>2, <2>6
    <3>2. CASE p2c' = p2c \o e[2]
      <4>1. /\ Len(p2c') = Len(p2c) + Len(e[2]) /\ Len(p2c) \in Nat /\ Len(e[2]) \in Nat
            /\ \A i \in 1..Len(p2c') :
                 p2c'[i] = IF i <= Len(p2c) THEN p2c[i] ELSE e[2][i - Len(p2c)]
        BY <1>2, <2>3, <3>2
      <4>2. \A i \in 1..Len(p2c') : ~(i <= Len(p2c)) => i - Len(p2c) \in 1..Len(e[2])
        BY <4>1
      <4>3. ASSUME NEW i \in 1..Len(p2c') PROVE p2c'[i].of <= m
        <5>1. CASE i <= Len(p2c)
          <6>1. i \in 1..Len(p2c) /\ p2c'[i] = p2c[i]
            BY <4>1, <5>1
          <6>2. QED BY <2>6, <6>1
        <5>2. CASE ~(i <= Len(p2c))
          <6>1. i - Len(p2c) \in 1..Len(e[2]) /\ p2c'[i] = e[2][i - Len(p2c)]
            BY <4>1, <4>2, <5>2
          <6>2. p2c'[i].of = s2p[1].of
            BY <2>3, <6>1
          <6>3. QED BY <3>1, <6>2
        <5>3. QED BY <5>1, <5>2
      <4>4. QED BY <4>3
    <3>3. QED BY <2>5, <2>6, <3>2
  <2>7. QED BY <1>1, <1>5, <2>4, <2>5, <2>6 DEF NumbersKept
<1>6. QED BY <1>3, <1>4, <1>5 DEF ProxyFile, Expected, FileParts

-----------------------------------------------------------------------------
(* The server's steps.                                                     *)

\* The number that answers a command of kind k, and where the server then is.
NumberOf(k) ==
  IF k = "LIST" THEN files ELSE IF k \in {"TCP", "WHOLE", "UDPNOR"} THEN 1 ELSE 0

ServesAt(k) ==
  CASE k = "LIST"                -> "list"
    [] k \in {"TCP", "WHOLE"}    -> "file"
    [] k \in {"UDPNOR", "UDPENC"} -> "udp"
    [] k = "QUIT"                -> "end"
    [] OTHER                     -> "command"

FirstUnit(c) == [what |-> "int", val |-> NumberOf(c.kind), of |-> c.of]

LEMMA AnswerDoes ==
  ASSUME TypeOK, NEW c \in Texts, c.kind \in Kinds \cup {"tail"}, Answer(c)
  PROVE  /\ ServerGoes({ServesAt(c.kind), "dead"}) /\ broken' \subseteq (Procs \X Procs)
         /\ s2p' \in Seq(Units)
         /\ IF c.kind \in {"UDPENC", "QUIT"}
            THEN pc'["server"] = ServesAt(c.kind) /\ s2p' = s2p
            ELSE Delivered("server", "proxy", s2p, s2p', FirstUnit(c), ServesAt(c.kind))
<1>1. FirstUnit(c) \in Units
  BY BoundsAssumption DEF FirstUnit, NumberOf, Units, Texts, TypeOK
<1>2. ServesAt(c.kind) \in Places
  BY DEF ServesAt, Places
<1>3. CASE c.kind \in {"UDPENC", "QUIT"}
  <2>1. pc' = [pc EXCEPT !["server"] = ServesAt(c.kind)] /\ UNCHANGED <<s2p, broken>>
    BY <1>3 DEF Answer, Reply, ServesAt
  <2>2. ServerGoes({ServesAt(c.kind)})
    BY <1>2, <2>1, ServerMoves
  <2>3. QED BY <1>3, <2>1, <2>2, StreamTypes DEF ServerGoes
<1>4. CASE c.kind \notin {"UDPENC", "QUIT"}
  <2>1. c.kind \in {"LIST", "TCP", "WHOLE", "UDPNOR", "NONE", "tail"}
    BY <1>4 DEF Kinds, Downloads
  <2>2. Write("server", "proxy", s2p, <<FirstUnit(c)>>, ServesAt(c.kind))
    <3>1. CASE c.kind = "LIST"
      BY <3>1 DEF Answer, Reply, Number, FirstUnit, NumberOf, ServesAt
    <3>2. CASE c.kind \in {"TCP", "WHOLE"}
      BY <3>2 DEF Answer, Reply, Number, FirstUnit, NumberOf, ServesAt
    <3>3. CASE c.kind = "UDPNOR"
      BY <3>3 DEF Answer, Reply, Number, FirstUnit, NumberOf, ServesAt
    <3>4. CASE c.kind \in {"NONE", "tail"}
      BY <3>4 DEF Answer, Reply, Number, FirstUnit, NumberOf, ServesAt
    <3>5. QED BY <2>1, <3>1, <3>2, <3>3, <3>4
  <2>3. QED BY <1>1, <1>2, <1>4, <2>2, ServerWrites
<1>5. QED BY <1>3, <1>4

\* A command of a kind that only a program other than the client can send is
\* none that p2s ever holds.
LEMMA ServerCommandDoes ==
  ASSUME TypeOK, ServerCommand, p2s[1].kind \in Kinds \cup {"tail"}
  PROVE  /\ pc["server"] = "command" /\ Len(p2s) > 0 /\ p2s[1] \in Texts
         /\ buffer' = p2s[1] /\ runs' = runs + 1
         /\ ReadsText("server", p2s, p2s', uneven, uneven')
         /\ ServerGoes({ServesAt(p2s[1].kind), "dead"}) /\ broken' \subseteq (Procs \X Procs)
         /\ s2p' \in Seq(Units)
         /\ \/ p2s[1].kind \in {"UDPENC", "QUIT"} /\ pc'["server"] = ServesAt(p2s[1].kind)
               /\ s2p' = s2p
            \/ p2s[1].kind \notin {"UDPENC", "QUIT"} /\
               Delivered("server", "proxy", s2p, s2p', FirstUnit(p2s[1]), ServesAt(p2s[1].kind))
            \/ p2s[1].kind = "tail" /\ pc'["server"] = "dead" /\ s2p' = s2p
         /\ UNCHANGED <<clientVars, proxyVars, sLeft, envVars, c2p, p2c>>
<1>1. /\ pc["server"] = "command" /\ p2s # << >> /\ buffer' = Head(p2s)
      /\ TakeText("server", p2s) /\ runs' = runs + 1
      /\ UNCHANGED <<clientVars, proxyVars, sLeft, envVars, c2p, p2c>>
  BY DEF ServerCommand
<1>2. /\ p2s \in Seq(Texts) /\ Len(p2s) \in Nat /\ Len(p2s) > 0 /\ Head(p2s) = p2s[1]
      /\ p2s[1] \in Texts
  BY <1>1, StreamTypes, OneRead
<1>3. ReadsText("server", p2s, p2s', uneven, uneven')
  BY <1>1, <1>2, TextFromProxy
<1>4. CASE Answer(Head(p2s))
  <2>1. /\ ServerGoes({ServesAt(p2s[1].kind), "dead"}) /\ broken' \subseteq (Procs \X Procs)
        /\ s2p' \in Seq(Units)
        /\ IF p2s[1].kind \in {"UDPENC", "QUIT"}
           THEN pc'["server"] = ServesAt(p2s[1].kind) /\ s2p' = s2p
           ELSE Delivered("server", "proxy", s2p, s2p', FirstUnit(p2s[1]), ServesAt(p2s[1].kind))
    BY <1>2, <1>4, AnswerDoes
  <2>2. QED BY <1>1, <1>2, <1>3, <2>1
<1>5. CASE /\ Head(p2s).kind = "tail"
           /\ pc' = [pc EXCEPT !["server"] = "dead"]
           /\ UNCHANGED <<s2p, broken>>
  <2>1. ServerGoes({"dead"})
    BY <1>5, ServerMoves DEF Places
  <2>2. s2p \in Seq(Units) /\ broken \subseteq (Procs \X Procs)
    BY StreamTypes
  <2>3. ServerGoes({ServesAt(p2s[1].kind), "dead"}) /\ pc'["server"] = "dead"
    BY <2>1 DEF ServerGoes
  <2>4. QED BY <1>1, <1>2, <1>3, <1>5, <2>2, <2>3
<1>6. QED BY <1>4, <1>5 DEF ServerCommand

\* The steps that only move the server.
LEMMA ServerMovesDoes ==
  ASSUME TypeOK, ServerAccept \/ ServerEOF \/ ServerListDone \/ ServerUDP
  PROVE  /\ \/ pc["server"] = "queued" /\ ServerGoes({"command"})
            \/ pc["server"] = "command" /\ Gone("proxy") /\ ServerGoes({"dead"})
            \/ pc["server"] = "names" /\ sLeft = 0 /\ ServerGoes({"command"})
            \/ pc["server"] = "udp" /\ ServerGoes({"dead"})
         /\ UNCHANGED <<clientVars, proxyVars, serverVars, envVars, uneven, broken,
                        c2p, p2s, s2p, p2c>>
<1>1. "command" \in Places /\ "dead" \in Places
  BY DEF Places
<1>2. CASE ServerAccept
  <2>1. ServerGoes({"command"})
    BY <1>1, <1>2, ServerMoves DEF ServerAccept
  <2>2. QED BY <1>2, <2>1 DEF ServerAccept
<1>3. CASE ServerEOF
  <2>1. ServerGoes({"dead"})
    BY <1>1, <1>3, ServerMoves DEF ServerEOF
  <2>2. QED BY <1>3, <2>1 DEF ServerEOF, AtEOF
<1>4. CASE ServerListDone
  <2>1. ServerGoes({"command"})
    BY <1>1, <1>4, ServerMoves DEF ServerListDone
  <2>2. QED BY <1>4, <2>1 DEF ServerListDone
<1>5. CASE ServerUDP
  <2>1. ServerGoes({"dead"})
    BY <1>1, <1>5, ServerMoves DEF ServerUDP
  <2>2. QED BY <1>5, <2>1 DEF ServerUDP
<1>6. QED BY <1>2, <1>3, <1>4, <1>5

LEMMA ServerSecondPassDoes ==
  ASSUME TypeOK, ServerSecondPass
  PROVE  /\ pc["server"] = "list" /\ sLeft' = files /\ ServerGoes({"names"})
         /\ UNCHANGED <<clientVars, proxyVars, buffer, runs, envVars, uneven, broken,
                        c2p, p2s, s2p, p2c>>
<1>1. ServerGoes({"names"})
  BY ServerMoves DEF ServerSecondPass, Places
<1>2. QED BY <1>1 DEF ServerSecondPass

LEMMA ServerNameDoes ==
  ASSUME TypeOK, ServerName
  PROVE  /\ pc["server"] = "names" /\ sLeft > 0 /\ sLeft' = sLeft - 1
         /\ ServerGoes({"names", "dead"}) /\ broken' \subseteq (Procs \X Procs)
         /\ s2p' \in Seq(Units)
         /\ Delivered("server", "proxy", s2p, s2p',
                      [what |-> "name", val |-> 0, of |-> buffer.of], "names")
         /\ UNCHANGED <<clientVars, proxyVars, buffer, runs, envVars, uneven, c2p, p2s, p2c>>
<1> DEFINE x == [what |-> "name", val |-> 0, of |-> buffer.of]
<1>1. x \in Units /\ "names" \in Places
  BY DEF TypeOK, Texts, Units, Places
<1>2. Write("server", "proxy", s2p, <<x>>, "names")
  BY DEF ServerName, Name, Unit
<1> HIDE DEF x
<1>3. /\ ServerGoes({"names", "dead"}) /\ broken' \subseteq (Procs \X Procs)
      /\ s2p' \in Seq(Units) /\ Delivered("server", "proxy", s2p, s2p', x, "names")
  BY <1>1, <1>2, ServerWrites
<1>4. /\ pc["server"] = "names" /\ sLeft > 0 /\ sLeft' = sLeft - 1
      /\ UNCHANGED <<clientVars, proxyVars, buffer, runs, envVars, uneven, c2p, p2s, p2c>>
  BY DEF ServerName
<1>5. QED BY <1>3, <1>4 DEF x

\* A file is one of whole blocks, or not.
FileOf(c) ==
  [what |-> IF c.kind = "WHOLE" THEN "blocks" ELSE "file", val |-> 0, of |-> c.of]

LEMMA ServerFileDoes ==
  ASSUME TypeOK, ServerFile
  PROVE  /\ pc["server"] = "file"
         /\ ServerGoes({IF buffer.kind = "WHOLE" THEN "spin" ELSE "command", "dead"})
         /\ broken' \subseteq (Procs \X Procs) /\ s2p' \in Seq(Units)
         /\ Delivered("server", "proxy", s2p, s2p', FileOf(buffer),
                      IF buffer.kind = "WHOLE" THEN "spin" ELSE "command")
         /\ UNCHANGED <<clientVars, proxyVars, serverVars, envVars, uneven, c2p, p2s, p2c>>
<1> DEFINE x == FileOf(buffer)
           next == IF buffer.kind = "WHOLE" THEN "spin" ELSE "command"
<1>1. x \in Units /\ next \in Places
  BY DEF FileOf, TypeOK, Texts, Units, Places
<1>2. Write("server", "proxy", s2p, <<x>>, next)
  BY DEF ServerFile, File, Blocks, Unit, FileOf
<1> HIDE DEF x, next
<1>3. /\ ServerGoes({next, "dead"}) /\ broken' \subseteq (Procs \X Procs)
      /\ s2p' \in Seq(Units) /\ Delivered("server", "proxy", s2p, s2p', x, next)
  BY <1>1, <1>2, ServerWrites
<1>4. /\ pc["server"] = "file"
      /\ UNCHANGED <<clientVars, proxyVars, serverVars, envVars, uneven, c2p, p2s, p2c>>
  BY DEF ServerFile
<1>5. QED BY <1>3, <1>4 DEF x, next

-----------------------------------------------------------------------------
(* The environment's steps.                                                *)

LEMMA KillDoes ==
  ASSUME TypeOK, NEW p \in Procs, Kill(p)
  PROVE  /\ \/ p = "client" /\ ClientGoes({"dead"}) /\ UNCHANGED <<s2p, p2c>>
            \/ p = "proxy" /\ ~Gone("proxy") /\ ProxyGoes({"dead"}) /\ UNCHANGED s2p
               /\ p2c' \in Seq(Units)
               /\ \/ p2c' = p2c
                  \/ /\ pc["proxy"] = "file"
                     /\ Pushed(p2c, p2c', [what |-> "part", val |-> 0, of |-> command.of])
            \/ p = "server" /\ ServerGoes({"dead"}) /\ UNCHANGED p2c
               /\ pc["server"] \notin {"off", "queued", "end", "dead"}
               /\ s2p' \in Seq(Units)
               /\ \/ s2p' = s2p
                  \/ /\ pc["server"] = "file" /\ ~Gone("proxy")
                     /\ Pushed(s2p, s2p', [what |-> "part", val |-> 0, of |-> buffer.of])
         /\ UNCHANGED <<clientVars, proxyVars, serverVars, envVars, uneven, broken, c2p, p2s>>
<1> DEFINE x == [what |-> "part", val |-> 0, of |-> command.of]
           y == [what |-> "part", val |-> 0, of |-> buffer.of]
<1>1. /\ ~Gone(p) /\ pc[p] \notin {"off", "queued"} /\ pc' = [pc EXCEPT ![p] = "dead"]
      /\ UNCHANGED <<clientVars, proxyVars, serverVars, envVars, uneven, broken, c2p, p2s>>
  BY DEF Kill
<1>2. \/ UNCHANGED <<s2p, p2c>>
      \/ /\ p = "server" /\ pc[p] = "file" /\ ~Gone("proxy")
         /\ s2p' = s2p \o <<y>> /\ UNCHANGED p2c
      \/ /\ p = "proxy" /\ pc[p] = "file"
         /\ p2c' = p2c \o <<x>> /\ UNCHANGED s2p
  BY DEF Kill, PartOf, Unit
<1>3. x \in Units /\ y \in Units /\ "dead" \in Places /\ s2p \in Seq(Units) /\ p2c \in Seq(Units)
  BY StreamTypes DEF TypeOK, Texts, Units, Places
<1>4. x = [what |-> "part", val |-> 0, of |-> command.of]
      /\ y = [what |-> "part", val |-> 0, of |-> buffer.of]
  OBVIOUS
<1> HIDE DEF x, y
<1>5. p2c \o <<x>> \in Seq(Units) /\ Pushed(p2c, p2c \o <<x>>, x)
  BY <1>3, OnePushed
<1>6. s2p \o <<y>> \in Seq(Units) /\ Pushed(s2p, s2p \o <<y>>, y)
  BY <1>3, OnePushed
<1>7. CASE p = "client"
  <2>1. ClientGoes({"dead"})
    BY <1>1, <1>3, <1>7, ClientMoves
  <2>2. UNCHANGED <<s2p, p2c>>
    BY <1>2, <1>7
  <2>3. QED BY <1>1, <1>7, <2>1, <2>2
<1>8. CASE p = "proxy"
  <2>1. ProxyGoes({"dead"}) /\ ~Gone("proxy")
    BY <1>1, <1>3, <1>8, ProxyMoves
  <2>2. /\ UNCHANGED s2p /\ p2c' \in Seq(Units)
        /\ p2c' = p2c \/ (pc["proxy"] = "file" /\ Pushed(p2c, p2c', x))
    BY <1>2, <1>3, <1>5, <1>8
  <2>3. QED BY <1>1, <1>4, <1>8, <2>1, <2>2
<1>9. CASE p = "server"
  <2>1. ServerGoes({"dead"})
    BY <1>1, <1>3, <1>9, ServerMoves
  <2>2. pc["server"] \notin {"off", "queued", "end", "dead"}
    BY <1>1, <1>9 DEF Gone
  <2>3. /\ UNCHANGED p2c /\ s2p' \in Seq(Units)
        /\ s2p' = s2p \/ (pc["server"] = "file" /\ ~Gone("proxy") /\ Pushed(s2p, s2p', y))
    BY <1>2, <1>3, <1>6, <1>9
  <2>4. QED BY <1>1, <1>4, <1>9, <2>1, <2>2, <2>3
<1>10. QED BY <1>7, <1>8, <1>9 DEF Procs

\* While the environment may still make trouble, it may change the directory.
LEMMA TroublesCount ==
  ASSUME TypeOK, Troubles < MaxTroubles
  PROVE  changes + 1 \in 0..MaxTroubles
<1> DEFINE D == {p \in Procs : pc[p] = "dead"}
<1>1. IsFiniteSet(Procs)
  <2>1. IsFiniteSet({"client"})
    BY FS_Singleton
  <2>2. IsFiniteSet({"client"} \cup {"proxy"})
    BY <2>1, FS_AddElement
  <2>3. IsFiniteSet(({"client"} \cup {"proxy"}) \cup {"server"})
    BY <2>2, FS_AddElement
  <2>4. Procs = ({"client"} \cup {"proxy"}) \cup {"server"}
    BY DEF Procs
  <2>5. QED BY <2>3, <2>4
<1>2. D \subseteq Procs
  OBVIOUS
<1>3. Cardinality(D) \in Nat
  BY <1>1, <1>2, FS_Subset, FS_CardinalityType
<1> DEFINE E == uneven \cap {"server", "short"}
<1>7. Cardinality(E) \in Nat
  <2>1. IsFiniteSet({"server"} \cup {"short"})
    BY FS_Singleton, FS_AddElement
  <2>2. {"server", "short"} = {"server"} \cup {"short"}
    OBVIOUS
  <2>3. E \subseteq {"server", "short"}
    OBVIOUS
  <2>4. QED BY <2>1, <2>2, <2>3, FS_Subset, FS_CardinalityType
<1>4. Troubles = changes + Cardinality(D) + (IF eof THEN 1 ELSE 0)
                   + (IF stuck THEN 1 ELSE 0) + Cardinality(E)
  BY DEF Troubles
<1> HIDE DEF D, E
<1>5. changes \in 0..MaxTroubles /\ MaxTroubles \in Nat
  BY BoundsAssumption DEF TypeOK
<1>6. QED BY <1>3, <1>4, <1>5, <1>7

-----------------------------------------------------------------------------
(* The inductive invariant, in four layers.                                *)

\* First layer: types, the bounds they rest on, and what kinds of message the
\* streams to the proxy and to the server hold.
Bounds ==
  /\ ~eof => sent <= MaxCommands
  /\ sent + letters <= MaxCommands + Letters
  /\ command.of <= sent /\ buffer.of <= sent
  /\ \A i \in 1..Len(c2p) : c2p[i].of <= sent
  /\ \A i \in 1..Len(p2s) : p2s[i].of <= sent
  /\ \A i \in 1..Len(s2p) : s2p[i].of <= sent
  /\ \A i \in 1..Len(p2c) : p2c[i].of <= sent
  /\ pc["client"] = "names" => cLeft > 0
  /\ pc["proxy"] = "names" => pLeft > 0

KindsInv ==
  /\ pc["client"] = "hello" => Len(c2p) = 0 /\ pc["proxy"] \in {"hello", "dead"}
  /\ pc["proxy"] = "hello" =>
       /\ command = Junk
       /\ pc["client"] \in {"hello", "dead"} \/ Len(c2p) > 0
       /\ \A i \in 1..Len(c2p) : c2p[i].kind \in (IF i = 1 THEN {"byTCP", "byUDP"} ELSE Kinds)
  /\ pc["proxy"] \notin {"hello", "end", "dead"} =>
       \A i \in 1..Len(c2p) : c2p[i].kind \in Kinds \cup {"tail"}
  /\ \A i \in 1..Len(p2s) : p2s[i].kind \in Kinds \cup {"tail"}
  /\ command.kind \notin {"byTCP", "byUDP"}

BaseInv == TypeOK /\ Bounds /\ KindsInv

\* Second layer: the commands on their way are numbered upwards, and the server
\* has worked on no more of them than it has seen numbers.
Rising(q, m) ==
  \A i \in 1..Len(q) : m < q[i].of /\ \A j \in 1..i - 1 : q[j].of < q[i].of

\* The end of a DOWNLOAD has its number.
Ordered(q, m) ==
  \A i \in 1..Len(q) :
    /\ m <= q[i].of /\ \A j \in 1..i - 1 : q[j].of <= q[i].of
    /\ q[i].kind \in Kinds => m < q[i].of /\ \A j \in 1..i - 1 : q[j].of < q[i].of

OrderInv ==
  /\ runs <= buffer.of /\ buffer.of <= command.of
  /\ Rising(p2s, buffer.of) /\ \A i \in 1..Len(p2s) : p2s[i].of <= command.of
  /\ Ordered(c2p, command.of)

\* A part of a file comes only from a process that has ended in it.
NoParts(q) == \A i \in 1..Len(q) : q[i].what # "part"

PartsInv ==
  /\ pc["proxy"] = "hello" => pc["server"] = "off"
  /\ NoParts(s2p) \/ Gone("server")
  /\ NoParts(p2c) \/ Gone("server") \/ Gone("proxy")

\* The conditions under which the later layers hold.
Calm  == changes = 0 /\ "server" \notin uneven /\ "short" \notin uneven
Alive == ~Gone("client")
Even  == "glued" \notin uneven

\* Names of a LIST that the server has still to write.
Rem == IF pc["server"] = "list" THEN files ELSE IF pc["server"] = "names" THEN sLeft ELSE 0

\* From position j on, q holds what may follow the number that answers command n
\* of kind k.
NamesFrom(q, j, n) == \A i \in j..Len(q) : q[i].what = "name" /\ q[i].of = n
FileFrom(q, j, n)  == Len(q) <= j /\ (Len(q) = j => q[j].what \in FileParts /\ q[j].of = n)

Following(q, j, k, n) ==
  /\ k = "LIST" => NamesFrom(q, j, n)
  /\ k \in {"TCP", "WHOLE"} => FileFrom(q, j, n)
  /\ k \notin {"LIST", "TCP", "WHOLE"} => Len(q) < j

\* From position j on, the server's stream holds the part of the answer that is
\* written, with m names in all for a LIST, and the server is writing the rest.
Serving(j, m) ==
  /\ command.kind = "LIST" =>
       pc["server"] \in {"list", "names", "command"} /\ (Even => Len(s2p) - (j - 1) + Rem = m)
  /\ command.kind \in {"TCP", "WHOLE"} =>
       IF Len(s2p) < j THEN pc["server"] = "file"
       ELSE s2p[j].what \in FileUnits /\ pc["server"] \in {"command", "spin"}
  /\ command.kind = "NONE" => pc["server"] = "command"
  /\ command.kind = "UDPNOR" => pc["server"] = "udp"
  /\ command.kind # "UDPENC"

Followed(j, m) ==
  /\ Following(s2p, j, command.kind, command.of)
  /\ command.kind = "LIST" => Len(s2p) - (j - 1) + Rem <= m
  /\ Gone("server") \/ (Len(p2s) = 0 /\ buffer = command /\ Serving(j, m))

\* The server has written all of its answer.
Free == Rem = 0 /\ pc["server"] \notin {"off", "file"}

\* The server has not answered yet, and will or never does.
Waiting ==
  /\ Len(s2p) = 0
  /\ \/ Gone("server")
     \/ Len(p2s) = 1 /\ p2s[1] = command /\ Free
     \/ Len(p2s) = 0 /\ command.kind = "UDPENC" /\ pc["server"] = "udp"

\* Third layer: what the proxy waits for is what the server writes.
ServerInv ==
  /\ pc["proxy"] # "garbled"
  /\ pc["proxy"] = "hello" => pc["server"] = "off" /\ Len(p2s) = 0 /\ Len(s2p) = 0
  /\ pc["proxy"] = "command" => Len(s2p) = 0 /\ (Gone("server") \/ (Len(p2s) = 0 /\ Free))
  /\ pc["proxy"] = "int" =>
       /\ command.kind \in Kinds \ {"QUIT"}
       /\ \/ Waiting
          \/ /\ Len(s2p) > 0
             /\ s2p[1].what = "int" /\ s2p[1].of = command.of /\ s2p[1].val = NumberOf(command.kind)
             /\ Followed(2, files)
  /\ pc["proxy"] = "names" => command.kind = "LIST" /\ pLeft \in 1..files /\ Followed(1, pLeft)
  /\ pc["proxy"] = "file" => command.kind \in {"TCP", "WHOLE"} /\ Followed(1, 1)

\* Names still to come from the proxy's side, unless the server has gone.
Flow == IF pc["proxy"] = "names" THEN Len(s2p) + Rem ELSE 0

\* The proxy works on the command the client waits for.
Current == command.of = sent /\ command.kind = typed

\* A command is on its way to the proxy.
Pending == \E i \in 1..Len(c2p) : c2p[i].kind \in Kinds

\* Fourth layer: what the client waits for is what the proxy writes.
ClientPlaces ==
  /\ pc["client"] \in {"hello", "prompt", "int", "names", "file", "udp"}
  /\ pc["client"] = "hello" => sent = 0 /\ pc["proxy"] \in {"hello", "dead"}
  /\ pc["proxy"] = "hello" => pc["client"] \in {"hello", "prompt", "int"} /\ Len(p2c) = 0
  /\ pc["client"] \in {"hello", "prompt", "udp"} => Len(p2c) = 0
  /\ IF pc["client"] = "int" THEN typed # "QUIT" /\ answer.of < sent ELSE answer.of = sent

ProxyWorks ==
  /\ pc["proxy"] = "int" => Current /\ pc["client"] = "int" /\ Len(p2c) = 0
  /\ pc["proxy"] = "file" =>
       /\ Current
       /\ \/ pc["client"] = "int" /\ Len(p2c) = 1
          \/ pc["client"] = "file" /\ Len(p2c) = 0
  /\ pc["proxy"] = "names" =>
       \/ Current /\ (pc["client"] = "names" \/ (pc["client"] = "int" /\ Len(p2c) > 0))
       \/ Flow = 0 /\ pc["client"] \in {"prompt", "int"} /\ Len(p2c) = 0

NumberArrives ==
  pc["client"] = "int" /\ Len(p2c) > 0 =>
    /\ p2c[1].what = "int" /\ p2c[1].of = sent
    /\ p2c[1].val = NumberOf(typed) \/ (p2c[1].val = 0 /\ (Gone("server") \/ Gone("proxy")))
    /\ p2c[1].val = 0 => Len(p2c) = 1 /\ pc["proxy"] \notin {"names", "file"}
    /\ Following(p2c, 2, typed, sent)
    /\ typed = "LIST" => Len(p2c) - 1 + Flow <= p2c[1].val
    /\ typed \in {"TCP", "WHOLE"} /\ pc["proxy"] = "command" /\ p2c[1].val # 0 => Len(p2c) > 1

RestArrives ==
  /\ pc["client"] = "names" =>
       typed = "LIST" /\ NamesFrom(p2c, 1, sent) /\ Len(p2c) + Flow <= cLeft
  /\ pc["client"] = "file" =>
       /\ typed \in {"TCP", "WHOLE"} /\ FileFrom(p2c, 1, sent)
       /\ pc["proxy"] = "command" => Len(p2c) > 0

OneCommand ==
  ~Gone("proxy") =>
    /\ Pending => pc["client"] = "int" /\ Len(p2c) = 0 /\ pc["proxy"] \notin {"int", "file"}
    /\ \A i \in 1..Len(c2p) : c2p[i].kind \in Kinds => c2p[i].of = sent /\ c2p[i].kind = typed

ClientInv == ClientPlaces /\ ProxyWorks /\ NumberArrives /\ RestArrives /\ OneCommand

\* And while no read takes two messages for one, none of it gets lost.
SteadyInv ==
  /\ pc["client"] = "int" /\ Len(p2c) = 0 /\ pc["proxy"] \in {"hello", "command", "names"} =>
       Pending
  /\ ~Gone("server") /\ ~Gone("proxy") =>
       /\ pc["client"] = "names" => Len(p2c) + Flow = cLeft
       /\ pc["client"] = "int" /\ Len(p2c) > 0 /\ typed = "LIST" =>
            Len(p2c) - 1 + Flow = p2c[1].val

\* A DOWNLOAD that the server reads in two pieces numbers its commands wrongly,
\* a directory that changes makes the count and the names disagree, and a block
\* that is read short leaves bytes that nobody expects.
IInv ==
  /\ BaseInv
  /\ "short" \notin uneven => PartsInv
  /\ Alive /\ "server" \notin uneven => OrderInv
  /\ Calm => ServerInv
  /\ Calm /\ Alive => ClientInv
  /\ Calm /\ Alive /\ Even => SteadyInv

-----------------------------------------------------------------------------
(* First layer.                                                            *)

\* What the numbers on a stream are bounded by survives a step on it.
LEMMA PushedOf ==
  ASSUME NEW q, NEW r, NEW x, Len(q) \in Nat, Pushed(q, r, x), NEW m \in Nat, x.of <= m,
         \A i \in 1..Len(q) : q[i].of <= m
  PROVE  \A i \in 1..Len(r) : r[i].of <= m
BY DEF Pushed

LEMMA DroppedOf ==
  ASSUME NEW q, NEW r, NEW k, Len(q) \in Nat, Dropped(q, r, k), NEW m \in Nat,
         \A i \in 1..Len(q) : q[i].of <= m
  PROVE  \A i \in 1..Len(r) : r[i].of <= m
<1>1. \A i \in 1..Len(r) : i + k \in 1..Len(q) /\ r[i] = q[i + k]
  BY DEF Dropped
<1>2. QED BY <1>1

LEMMA JoinedOf ==
  ASSUME NEW q, NEW r, NEW s, NEW k, Len(q) \in Nat, Len(s) \in Nat, k \in 1..Len(s),
         Joined(q, r, s, k), NEW m \in Nat,
         \A i \in 1..Len(q) : q[i].of <= m, \A i \in 1..Len(s) : s[i].of <= m
  PROVE  \A i \in 1..Len(r) : r[i].of <= m
<1>1. ASSUME NEW i \in 1..Len(r) PROVE r[i].of <= m
  <2>1. CASE i <= Len(q)
    BY <2>1 DEF Joined
  <2>2. CASE i > Len(q)
    <3>1. i - Len(q) \in 1..k /\ Len(q) + (i - Len(q)) = i
      BY <1>1, <2>2 DEF Joined
    <3>2. r[i] = s[i - Len(q)]
      BY <3>1 DEF Joined
    <3>3. QED BY <3>1, <3>2
  <2>3. QED BY <2>1, <2>2 DEF Joined
<1>2. QED BY <1>1

\* What a read of a command leaves: units of q behind the first k, or the end
\* of the k-th in front of them.
LEMMA TakenUnits ==
  ASSUME NEW q, NEW r, Len(q) \in Nat, NEW k \in 1..Len(q), Taken(q, r, k),
         NEW i \in 1..Len(r)
  PROVE  \/ /\ i = 1 /\ Len(r) = Len(q) - k + 1
            /\ q[k].kind \in Downloads /\ r[i] = Text("tail", q[k].of)
         \/ /\ Len(r) = Len(q) - k + 1
            /\ i > 1 /\ i + (k - 1) \in k + 1..Len(q) /\ r[i] = q[i + (k - 1)]
         \/ /\ Len(r) = Len(q) - k
            /\ i + k \in k + 1..Len(q) /\ r[i] = q[i + k]
<1>1. CASE /\ Len(r) = Len(q) - k
           /\ \A j \in 1..Len(q) - k : r[j] = q[j + k]
  BY <1>1
<1>2. CASE /\ q[k].kind \in Downloads
           /\ Len(r) = Len(q) - k + 1 /\ r[1] = Text("tail", q[k].of)
           /\ \A j \in 2..Len(q) - k + 1 : r[j] = q[j + (k - 1)]
  <2>1. CASE i = 1
    BY <1>2, <2>1
  <2>2. CASE i # 1
    <3>1. i \in 2..Len(q) - k + 1
      BY <1>2, <2>2
    <3>2. QED BY <1>2, <3>1
  <2>3. QED BY <2>1, <2>2
<1>3. QED BY <1>1, <1>2 DEF Taken

LEMMA TakenOf ==
  ASSUME NEW q, NEW r, Len(q) \in Nat, NEW k \in 1..Len(q), Taken(q, r, k), NEW m \in Nat,
         \A i \in 1..Len(q) : q[i].of <= m
  PROVE  \A i \in 1..Len(r) : r[i].of <= m
<1>1. ASSUME NEW i \in 1..Len(r) PROVE r[i].of <= m
  <2>1. \/ r[i] = Text("tail", q[k].of)
        \/ i + (k - 1) \in 1..Len(q) /\ r[i] = q[i + (k - 1)]
        \/ i + k \in 1..Len(q) /\ r[i] = q[i + k]
    BY TakenUnits
  <2>2. QED BY <2>1 DEF Text
<1>2. QED BY <1>1

USE DEF clientVars, inputVars, proxyVars, serverVars, envVars

LEMMA ClientHelloBase ==
  ASSUME BaseInv, ClientHello
  PROVE  BaseInv'
<1>1. TypeOK
  BY DEF BaseInv
<1>2. PICK t \in {"byTCP", "byUDP"} :
        Delivered("client", "proxy", c2p, c2p', Text(t, 0), "prompt")
  BY <1>1, ClientHelloDoes
<1>3. /\ pc["client"] = "hello" /\ ClientGoes({"prompt", "dead"})
      /\ broken' \subseteq (Procs \X Procs) /\ c2p' \in Seq(Texts)
      /\ UNCHANGED <<clientVars, proxyVars, serverVars, envVars, uneven, p2s, s2p, p2c>>
  BY <1>1, ClientHelloDoes
<1>4. TypeOK'
  BY <1>1, <1>3 DEF TypeOK, ClientGoes, Places
<1>5. Bounds'
  BY <1>1, <1>2, <1>3 DEF BaseInv, TypeOK, Bounds, KindsInv, ClientGoes, Delivered, Pushed, Text
<1>6. KindsInv'
  BY <1>1, <1>2, <1>3 DEF BaseInv, TypeOK, KindsInv, ClientGoes, Delivered, Pushed, Text, Gone
<1>7. QED BY <1>4, <1>5, <1>6 DEF BaseInv

LEMMA AskedBase ==
  ASSUME BaseInv, NEW k \in Kinds, Asked(k), pc["client"] = "prompt",
         sent' \in 0..(MaxCommands + Letters), letters' \in 0..Letters, eof' = eof,
         sent' + letters' <= MaxCommands + Letters, ~eof => sent' <= MaxCommands,
         UNCHANGED <<cLeft, answer, proxyVars, serverVars, envVars, uneven, p2s, s2p, p2c>>
  PROVE  BaseInv'
<1>1. TypeOK /\ sent \in Nat /\ sent' = sent + 1
  BY BoundsAssumption DEF BaseInv, TypeOK, Asked
<1>2. /\ typed' = k /\ ClientGoes({"end", "int", "dead"})
      /\ broken' \subseteq (Procs \X Procs) /\ c2p' \in Seq(Texts)
  BY DEF Asked, ClientGoes
<1>3. c2p' = c2p \/ (Pushed(c2p, c2p', Text(k, sent + 1)) /\ ~Gone("proxy"))
  BY DEF Asked, Delivered
<1>4. TypeOK'
  <2>1. answer \in [val : Nat, of : 0..sent']
    BY <1>1 DEF TypeOK
  <2>2. QED BY <1>1, <1>2, <2>1 DEF TypeOK, ClientGoes, Places
<1>5. Bounds'
  <2>1. \A i \in 1..Len(c2p') : c2p'[i].of <= sent'
    <3>1. \A i \in 1..Len(c2p) : c2p[i].of <= sent'
      BY <1>1, UnitTypes DEF BaseInv, Bounds
    <3>2. Len(c2p) \in Nat /\ sent' \in Nat /\ Text(k, sent + 1).of <= sent'
      BY <1>1, StreamTypes DEF Text
    <3>3. QED BY <1>3, <3>1, <3>2, PushedOf
  <2>3. /\ \A i \in 1..Len(p2s) : p2s[i].of <= sent'
        /\ \A i \in 1..Len(s2p) : s2p[i].of <= sent'
        /\ \A i \in 1..Len(p2c) : p2c[i].of <= sent'
    BY <1>1, UnitTypes DEF BaseInv, Bounds
  <2>4. command.of <= sent' /\ buffer.of <= sent'
    BY <1>1 DEF BaseInv, Bounds, TypeOK, Texts
  <2>5. QED BY <1>1, <1>2, <2>1, <2>3, <2>4 DEF BaseInv, Bounds, ClientGoes
<1>6. KindsInv'
  <2>1. Len(c2p) \in Nat /\ k \notin {"byTCP", "byUDP"}
    BY <1>1, StreamTypes DEF Kinds, Downloads
  <2>2. CASE c2p' = c2p
    BY <1>2, <2>2 DEF BaseInv, KindsInv, ClientGoes
  <2>3. CASE Pushed(c2p, c2p', Text(k, sent + 1))
    <3>1. \A i \in 1..Len(c2p') : (i \in 1..Len(c2p) /\ c2p'[i] = c2p[i])
                                  \/ (i = Len(c2p) + 1 /\ c2p'[i].kind = k)
      BY <2>1, <2>3 DEF Pushed, Text
    <3>2. Len(c2p') = Len(c2p) + 1
      BY <2>3 DEF Pushed
    <3>3. /\ pc'["client"] # "hello" /\ pc'["proxy"] = pc["proxy"] /\ Len(c2p') > 0
          /\ UNCHANGED <<command, p2s>>
      BY <1>2, <2>1, <3>2 DEF ClientGoes
    <3>4. ASSUME pc["proxy"] = "hello", NEW i \in 1..Len(c2p')
          PROVE  c2p'[i].kind \in (IF i = 1 THEN {"byTCP", "byUDP"} ELSE Kinds)
      <4>1. Len(c2p) > 0
        BY <3>4 DEF BaseInv, KindsInv
      <4>2. CASE i \in 1..Len(c2p) /\ c2p'[i] = c2p[i]
        BY <3>4, <4>2 DEF BaseInv, KindsInv
      <4>3. CASE i = Len(c2p) + 1 /\ c2p'[i].kind = k
        BY <2>1, <4>1, <4>3
      <4>4. QED BY <3>1, <4>2, <4>3
    <3>5. ASSUME pc["proxy"] \notin {"hello", "end", "dead"}, NEW i \in 1..Len(c2p')
          PROVE  c2p'[i].kind \in Kinds \cup {"tail"}
      BY <3>1, <3>5 DEF BaseInv, KindsInv
    <3>6. QED BY <3>3, <3>4, <3>5 DEF BaseInv, KindsInv
  <2>4. QED BY <1>3, <2>2, <2>3
<1>7. QED BY <1>4, <1>5, <1>6 DEF BaseInv

LEMMA ClientCommandBase ==
  ASSUME BaseInv, ClientCommand
  PROVE  BaseInv'
<1>1. TypeOK /\ {MaxCommands, Letters} \subseteq Nat
  BY BoundsAssumption DEF BaseInv
<1>2. /\ pc["client"] = "prompt" /\ ~eof /\ sent < MaxCommands /\ letters' \in {0, Letters}
      /\ UNCHANGED <<eof, cLeft, answer, proxyVars, serverVars, envVars, uneven, p2s, s2p, p2c>>
  BY <1>1, ClientCommandDoes
<1>3. PICK k \in Kinds : Asked(k)
  BY <1>1, ClientCommandDoes
<1>4. sent \in Nat /\ sent' = sent + 1
  BY <1>1, <1>3 DEF TypeOK, Asked
<1>5. /\ sent' \in 0..(MaxCommands + Letters) /\ letters' \in 0..Letters /\ eof' = eof
      /\ sent' + letters' <= MaxCommands + Letters /\ (~eof => sent' <= MaxCommands)
  BY <1>1, <1>2, <1>4
<1>6. QED BY <1>2, <1>3, <1>5, AskedBase

LEMMA ClientRoundBase ==
  ASSUME BaseInv, ClientRound
  PROVE  BaseInv'
<1>1. TypeOK /\ {MaxCommands, Letters} \subseteq Nat
  BY BoundsAssumption DEF BaseInv
<1>2. /\ pc["client"] = "prompt" /\ eof
      /\ UNCHANGED <<eof, cLeft, answer, proxyVars, serverVars, envVars, uneven, p2s, s2p, p2c>>
  BY <1>1, ClientRoundDoes
<1>3. CASE letters > 0 /\ letters' = letters - 1 /\ \E k \in Kinds : Asked(k)
  <2>1. PICK k \in Kinds : Asked(k)
    BY <1>3
  <2>2. /\ sent \in Nat /\ letters \in 0..Letters /\ sent + letters <= MaxCommands + Letters
        /\ sent' = sent + 1
    BY <1>1, <2>1 DEF TypeOK, Asked, BaseInv, Bounds
  <2>3. /\ sent' \in 0..(MaxCommands + Letters) /\ letters' \in 0..Letters /\ eof' = eof
        /\ sent' + letters' <= MaxCommands + Letters /\ (~eof => sent' <= MaxCommands)
    BY <1>1, <1>2, <1>3, <2>2
  <2>4. QED BY <1>2, <2>1, <2>3, AskedBase
<1>4. CASE ClientGoes({"dead"}) /\ UNCHANGED <<sent, typed, letters, c2p, broken>>
  <2>1. TypeOK'
    BY <1>1, <1>2, <1>4 DEF TypeOK, ClientGoes, Places
  <2>2. Bounds'
    BY <1>2, <1>4 DEF BaseInv, Bounds, ClientGoes
  <2>3. KindsInv'
    BY <1>2, <1>4 DEF BaseInv, KindsInv, ClientGoes
  <2>4. QED BY <2>1, <2>2, <2>3 DEF BaseInv
<1>5. QED BY <1>1, <1>3, <1>4, ClientRoundDoes

LEMMA ClientIntBase ==
  ASSUME BaseInv, ClientInt
  PROVE  BaseInv'
<1>1. TypeOK
  BY DEF BaseInv
<1>2. /\ pc["client"] = "int"
      /\ UNCHANGED <<inputVars, proxyVars, serverVars, envVars, uneven, broken, c2p, p2s, s2p>>
  BY <1>1, ClientIntDoes
<1>3. /\ p2c \in Seq(Units) /\ Len(p2c) \in Nat /\ sent \in Nat
      /\ Len(p2c) > 0 => p2c[1] \in Units /\ p2c[1].of <= sent
  BY <1>1, BoundsAssumption DEF TypeOK, BaseInv, Bounds
<1>4. CASE /\ Len(p2c) > 0 /\ p2c[1].what = "int"
           /\ cLeft' = p2c[1].val /\ answer' = [val |-> p2c[1].val, of |-> p2c[1].of]
           /\ ClientGoes({AfterReply(p2c[1].val)})
           /\ p2c' \in Seq(Units) /\ Dropped(p2c, p2c', 1)
  <2>1. p2c[1].val \in Nat /\ p2c[1].of \in 0..sent
    BY <1>3, <1>4 DEF Units
  <2>2. TypeOK'
    BY <1>1, <1>2, <1>4, <2>1 DEF TypeOK, ClientGoes, Places
  <2>3. \A i \in 1..Len(p2c') : p2c'[i].of <= sent
    BY <1>3, <1>4, DroppedOf DEF BaseInv, Bounds
  <2>4. pc'["client"] = "names" => cLeft' > 0
    BY <1>4, <2>1 DEF ClientGoes, AfterReply
  <2>5. Bounds'
    BY <1>2, <1>4, <2>3, <2>4 DEF BaseInv, Bounds, ClientGoes
  <2>6. KindsInv'
    BY <1>2, <1>4 DEF BaseInv, KindsInv, ClientGoes, AfterReply
  <2>7. QED BY <2>2, <2>5, <2>6 DEF BaseInv
<1>5. CASE /\ Len(p2c) = 0 /\ Gone("proxy")
           /\ answer' = [val |-> 0, of |-> sent]
           /\ ClientGoes({"prompt"})
           /\ UNCHANGED <<cLeft, p2c>>
  <2>1. TypeOK'
    BY <1>1, <1>2, <1>3, <1>5 DEF TypeOK, ClientGoes, Places
  <2>2. Bounds'
    BY <1>2, <1>5 DEF BaseInv, Bounds, ClientGoes
  <2>3. KindsInv'
    BY <1>2, <1>5 DEF BaseInv, KindsInv, ClientGoes
  <2>4. QED BY <2>1, <2>2, <2>3 DEF BaseInv
<1>6. QED BY <1>1, <1>4, <1>5, ClientIntDoes

\* A reader of something else than it expects.
LEMMA MisreadBase ==
  ASSUME BaseInv, ClientMisreads \/ ProxyMisreads
  PROVE  BaseInv'
<1>1. TypeOK
  BY DEF BaseInv
<1>2. /\ \/ pc["client"] \notin {"hello", "dead"} /\ ClientGoes({"garbled"})
         \/ pc["proxy"] # "hello" /\ pc["proxy"] \notin {"end", "dead"} /\ ProxyGoes({"garbled"})
      /\ UNCHANGED <<clientVars, proxyVars, serverVars, envVars, uneven, broken,
                     c2p, p2s, s2p, p2c>>
  BY <1>1, ClientMisreadsDoes, ProxyMisreadsDoes
<1>3. TypeOK'
  BY <1>1, <1>2 DEF TypeOK, ClientGoes, ProxyGoes, Places
<1>4. Bounds'
  BY <1>2 DEF BaseInv, Bounds, ClientGoes, ProxyGoes
<1>5. KindsInv'
  <2>1. /\ pc'["client"] = "hello" => pc["client"] = "hello" /\ pc'["proxy"] = pc["proxy"]
        /\ pc'["proxy"] = "hello" => pc["proxy"] = "hello"
        /\ pc["proxy"] \in {"hello", "end", "dead"} => pc'["proxy"] = pc["proxy"]
        /\ pc["client"] \in {"hello", "dead"} => pc'["client"] = pc["client"]
    <3>1. CASE pc["client"] # "hello" /\ ClientGoes({"garbled"}) /\ pc["client"] # "dead"
      BY <3>1 DEF ClientGoes
    <3>2. CASE pc["proxy"] \notin {"hello", "end", "dead"} /\ ProxyGoes({"garbled"})
      BY <3>2 DEF ProxyGoes, BaseInv, KindsInv
    <3>3. QED BY <1>1, <1>2, <3>1, <3>2
  <2>2. UNCHANGED <<command, c2p, p2s>>
    BY <1>2
  <2>3. QED BY <2>1, <2>2 DEF BaseInv, KindsInv
<1>6. QED BY <1>3, <1>4, <1>5 DEF BaseInv

LEMMA ClientNameBase ==
  ASSUME BaseInv, ClientName
  PROVE  BaseInv'
<1>0. TypeOK /\ pc["client"] = "names"
  BY ClientNameDoes DEF BaseInv
<1>1. TypeOK /\ cLeft \in Nat /\ cLeft > 0 /\ Len(p2c) \in Nat /\ sent \in Nat
  BY <1>0, StreamTypes, BoundsAssumption DEF BaseInv, Bounds, TypeOK
<1>2. /\ pc["client"] = "names" /\ cLeft' = cLeft - 1
      /\ ClientGoes({IF cLeft = 1 THEN "prompt" ELSE "names"})
      /\ p2c' \in Seq(Units)
      /\ uneven' \subseteq uneven \cup {"glued"}
      /\ (\E k \in 1..Len(p2c) : Dropped(p2c, p2c', k)) \/ p2c' = p2c
      /\ UNCHANGED <<inputVars, answer, proxyVars, serverVars, envVars, broken, c2p, p2s, s2p>>
  BY <1>1, ClientNameDoes
<1>3. TypeOK'
  BY <1>1, <1>2 DEF TypeOK, ClientGoes, Places
<1>4. \A i \in 1..Len(p2c') : p2c'[i].of <= sent
  BY <1>1, <1>2, DroppedOf DEF BaseInv, Bounds
<1>5. Bounds'
  BY <1>1, <1>2, <1>4 DEF BaseInv, Bounds, ClientGoes
<1>6. KindsInv'
  BY <1>2 DEF BaseInv, KindsInv, ClientGoes
<1>7. QED BY <1>3, <1>5, <1>6 DEF BaseInv

LEMMA ClientFileBase ==
  ASSUME BaseInv, ClientFile
  PROVE  BaseInv'
<1>1. TypeOK /\ Len(p2c) \in Nat /\ sent \in Nat
  BY StreamTypes, BoundsAssumption DEF BaseInv, TypeOK
<1>2. /\ pc["client"] = "file" /\ ClientGoes({"prompt"}) /\ p2c' \in Seq(Units)
      /\ Dropped(p2c, p2c', 1) \/ p2c' = p2c \/ NumbersKept(p2c, p2c')
      /\ uneven' = uneven \/ uneven' = uneven \cup {"short"}
      /\ UNCHANGED <<clientVars, proxyVars, serverVars, envVars, broken, c2p, p2s, s2p>>
  BY <1>1, ClientFileDoes
<1>3. TypeOK'
  BY <1>1, <1>2 DEF TypeOK, ClientGoes, Places
<1>4. \A i \in 1..Len(p2c') : p2c'[i].of <= sent
  <2>1. \A i \in 1..Len(p2c) : p2c[i].of <= sent
    BY DEF BaseInv, Bounds
  <2>2. CASE Dropped(p2c, p2c', 1) \/ p2c' = p2c
    BY <1>1, <2>1, <2>2, DroppedOf
  <2>3. CASE NumbersKept(p2c, p2c')
    BY <1>1, <2>1, <2>3 DEF NumbersKept
  <2>4. QED BY <1>2, <2>2, <2>3
<1>5. Bounds'
  BY <1>2, <1>4 DEF BaseInv, Bounds, ClientGoes
<1>6. KindsInv'
  BY <1>2 DEF BaseInv, KindsInv, ClientGoes
<1>7. QED BY <1>3, <1>5, <1>6 DEF BaseInv

\* A read of a command keeps the bound on the numbers, and leaves only units
\* from behind the first and ends of DOWNLOADs.
LEMMA ReadKeeps ==
  ASSUME NEW q, NEW r, NEW u, NEW v, NEW p, Len(q) \in Nat, ReadsText(p, q, r, u, v)
  PROVE  /\ r \in Seq(Texts) /\ u \subseteq v /\ v \subseteq u \cup {"glued", p}
         /\ Len(r) <= Len(q)
         /\ \A m \in Nat : (\A i \in 1..Len(q) : q[i].of <= m) => (\A i \in 1..Len(r) : r[i].of <= m)
         /\ \A i \in 1..Len(r) : r[i].kind = "tail" \/ \E j \in 2..Len(q) : r[i] = q[j]
<1>1. PICK k \in 1..Len(q) : Taken(q, r, k)
  BY DEF ReadsText
<1>2. r \in Seq(Texts) /\ u \subseteq v /\ v \subseteq u \cup {"glued", p}
  BY DEF ReadsText
<1>3. \A m \in Nat : (\A i \in 1..Len(q) : q[i].of <= m) => (\A i \in 1..Len(r) : r[i].of <= m)
  BY <1>1, TakenOf
<1>4. ASSUME NEW i \in 1..Len(r) PROVE r[i].kind = "tail" \/ \E j \in 2..Len(q) : r[i] = q[j]
  <2>1. \/ r[i] = Text("tail", q[k].of)
        \/ i > 1 /\ i + (k - 1) \in k + 1..Len(q) /\ r[i] = q[i + (k - 1)]
        \/ i + k \in k + 1..Len(q) /\ r[i] = q[i + k]
    BY <1>1, TakenUnits
  <2>2. QED BY <2>1 DEF Text
<1>5. Len(r) <= Len(q)
  BY <1>1 DEF Taken
<1>6. QED BY <1>2, <1>3, <1>4, <1>5

LEMMA ProxyHelloBase ==
  ASSUME BaseInv, ProxyHello
  PROVE  BaseInv'
<1>1. TypeOK /\ Len(c2p) \in Nat /\ sent \in Nat /\ c2p \in Seq(Texts)
  BY StreamTypes, BoundsAssumption DEF BaseInv, TypeOK
<1>2. /\ pc["proxy"] = "hello" /\ pc' \in [Procs -> Places] /\ pc'["client"] = pc["client"]
      /\ pc'["proxy"] \in {"command", "end", "dead"}
      /\ \/ ReadsText("proxy", c2p, c2p', uneven, uneven') /\ Len(c2p) > 0
         \/ Gone("client") /\ pc'["proxy"] = "dead" /\ UNCHANGED <<c2p, uneven>>
      /\ UNCHANGED <<clientVars, proxyVars, serverVars, envVars, broken, p2s, s2p, p2c>>
  BY <1>1, ProxyHelloDoes
<1>3. /\ c2p' \in Seq(Texts) /\ uneven' \subseteq uneven \cup {"glued", "proxy"}
      /\ \A i \in 1..Len(c2p') : c2p'[i].of <= sent
  BY <1>1, <1>2, ReadKeeps DEF BaseInv, Bounds
<1>4. TypeOK'
  BY <1>1, <1>2, <1>3 DEF TypeOK, Places
<1>5. Bounds'
  BY <1>2, <1>3 DEF BaseInv, Bounds
<1>6. KindsInv'
  <2>1. CASE ReadsText("proxy", c2p, c2p', uneven, uneven') /\ Len(c2p) > 0
    <3>1. ASSUME NEW i \in 1..Len(c2p') PROVE c2p'[i].kind \in Kinds \cup {"tail"}
      <4>1. c2p'[i].kind = "tail" \/ \E j \in 2..Len(c2p) : c2p'[i] = c2p[j]
        BY <1>1, <2>1, ReadKeeps
      <4>2. \A j \in 2..Len(c2p) : c2p[j].kind \in Kinds
        BY <1>1, <1>2 DEF BaseInv, KindsInv
      <4>3. QED BY <4>1, <4>2
    <3>2. pc["client"] # "hello"
      BY <2>1 DEF BaseInv, KindsInv
    <3>3. QED BY <1>2, <3>1, <3>2 DEF BaseInv, KindsInv
  <2>2. CASE Gone("client") /\ pc'["proxy"] = "dead" /\ UNCHANGED <<c2p, uneven>>
    BY <1>2, <2>2 DEF BaseInv, KindsInv, Gone
  <2>3. QED BY <1>2, <2>1, <2>2
<1>7. QED BY <1>4, <1>5, <1>6 DEF BaseInv

\* While the proxy reads commands, no hello is on the stream.
LEMMA CommandKinds ==
  ASSUME BaseInv, pc["proxy"] = "command"
  PROVE  /\ \A i \in 1..Len(c2p) : c2p[i].kind \in Kinds \cup {"tail"}
         /\ ReadsText("proxy", c2p, c2p', uneven, uneven') =>
              /\ \A i \in 1..Len(c2p') : c2p'[i].kind \in Kinds \cup {"tail"} /\ c2p'[i].of <= sent
              /\ c2p' \in Seq(Texts) /\ uneven' \subseteq uneven \cup {"glued", "proxy"}
              /\ (Len(c2p) = 0 => Len(c2p') = 0)
<1>1. Len(c2p) \in Nat /\ sent \in Nat
  BY StreamTypes, BoundsAssumption DEF BaseInv, TypeOK
<1>2. \A i \in 1..Len(c2p) : c2p[i].kind \in Kinds \cup {"tail"} /\ c2p[i].of <= sent
  BY DEF BaseInv, KindsInv, Bounds
<1>3. ASSUME ReadsText("proxy", c2p, c2p', uneven, uneven')
      PROVE  /\ \A i \in 1..Len(c2p') : c2p'[i].kind \in Kinds \cup {"tail"} /\ c2p'[i].of <= sent
             /\ c2p' \in Seq(Texts) /\ uneven' \subseteq uneven \cup {"glued", "proxy"}
             /\ (Len(c2p) = 0 => Len(c2p') = 0)
  <2>1. /\ c2p' \in Seq(Texts) /\ uneven' \subseteq uneven \cup {"glued", "proxy"}
        /\ Len(c2p') <= Len(c2p)
        /\ \A i \in 1..Len(c2p') : c2p'[i].of <= sent
        /\ \A i \in 1..Len(c2p') : c2p'[i].kind = "tail" \/ \E j \in 2..Len(c2p) : c2p'[i] = c2p[j]
    BY <1>1, <1>2, <1>3, ReadKeeps
  <2>2. \A i \in 1..Len(c2p') : c2p'[i].kind \in Kinds \cup {"tail"}
    BY <1>1, <1>2, <2>1
  <2>3. Len(c2p') \in Nat
    BY <2>1
  <2>4. QED BY <2>1, <2>2, <2>3
<1>4. QED BY <1>2, <1>3

\* The proxy has written command c, or could not.
LEMMA PassedOnBase ==
  ASSUME BaseInv, NEW c \in Texts, c.of <= sent, c.kind \in Kinds, pc["proxy"] = "command",
         ProxyGoes({Onward(c), "dead"}), broken' \subseteq (Procs \X Procs),
         p2s' \in Seq(Texts), Delivered("proxy", "server", p2s, p2s', c, Onward(c)),
         command' = c, c2p' \in Seq(Texts), uneven' \subseteq uneven \cup {"glued", "proxy"},
         \A i \in 1..Len(c2p') : c2p'[i].kind \in Kinds \cup {"tail"} /\ c2p'[i].of <= sent,
         UNCHANGED <<clientVars, pLeft, serverVars, envVars, s2p, p2c>>
  PROVE  BaseInv'
<1>1. TypeOK /\ Len(p2s) \in Nat /\ sent \in Nat /\ pc["client"] # "hello"
  BY StreamTypes, BoundsAssumption DEF BaseInv, TypeOK, KindsInv
<1>2. ProxyGoes({"end", "int", "dead"})
  BY DEF ProxyGoes, Onward
<1>3. TypeOK'
  BY <1>1, <1>2 DEF TypeOK, ProxyGoes, Places
<1>4. p2s' = p2s \/ Pushed(p2s, p2s', c)
  BY DEF Delivered
<1>5. \A i \in 1..Len(p2s') : p2s'[i].of <= sent /\ p2s'[i].kind \in Kinds \cup {"tail"}
  BY <1>1, <1>4 DEF BaseInv, Bounds, KindsInv, Pushed
<1>6. Bounds'
  BY <1>2, <1>5 DEF BaseInv, Bounds, ProxyGoes
<1>7. c.kind \notin {"byTCP", "byUDP"}
  BY DEF Kinds, Downloads
<1>8. KindsInv'
  BY <1>1, <1>2, <1>5, <1>7 DEF KindsInv, ProxyGoes
<1>9. QED BY <1>3, <1>6, <1>8 DEF BaseInv

LEMMA ProxyCommandBase ==
  ASSUME BaseInv, ProxyCommand
  PROVE  BaseInv'
<1>1. TypeOK
  BY DEF BaseInv
<1>2. pc["proxy"] = "command" /\ Len(c2p) > 0 /\ ReadsText("proxy", c2p, c2p', uneven, uneven')
  BY <1>1, ProxyCommandDoes
<1>3. /\ c2p[1] \in Texts /\ c2p[1].kind \in Kinds /\ c2p[1].of <= sent
  <2>1. 1 \in 1..Len(c2p)
    BY <1>1, <1>2, StreamTypes
  <2>2. QED BY <1>1, <1>2, <2>1, ProxyCommandDoes, CommandKinds DEF BaseInv, Bounds
<1>4. /\ \A i \in 1..Len(c2p') : c2p'[i].kind \in Kinds \cup {"tail"} /\ c2p'[i].of <= sent
      /\ c2p' \in Seq(Texts) /\ uneven' \subseteq uneven \cup {"glued", "proxy"}
  BY <1>2, CommandKinds
<1>5. /\ command' = c2p[1]
      /\ ProxyGoes({Onward(c2p[1]), "dead"}) /\ broken' \subseteq (Procs \X Procs)
      /\ p2s' \in Seq(Texts) /\ Delivered("proxy", "server", p2s, p2s', c2p[1], Onward(c2p[1]))
      /\ UNCHANGED <<clientVars, pLeft, serverVars, envVars, s2p, p2c>>
  BY <1>1, ProxyCommandDoes
<1>6. QED BY <1>2, <1>3, <1>4, <1>5, PassedOnBase

LEMMA ProxyReplayBase ==
  ASSUME BaseInv, ProxyReplay
  PROVE  BaseInv'
<1>1. TypeOK /\ command \in Texts /\ command.of <= sent
  BY DEF BaseInv, TypeOK, Bounds
<1>2. /\ pc["proxy"] = "command" /\ command.kind \in Kinds
      /\ ProxyGoes({Onward(command), "dead"}) /\ broken' \subseteq (Procs \X Procs)
      /\ p2s' \in Seq(Texts) /\ Delivered("proxy", "server", p2s, p2s', command, Onward(command))
      /\ UNCHANGED <<clientVars, proxyVars, serverVars, envVars, uneven, c2p, s2p, p2c>>
  BY <1>1, ProxyReplayDoes
<1>3. /\ command' = command /\ c2p' \in Seq(Texts) /\ uneven' \subseteq uneven \cup {"glued", "proxy"}
      /\ \A i \in 1..Len(c2p') : c2p'[i].kind \in Kinds \cup {"tail"} /\ c2p'[i].of <= sent
  BY <1>1, <1>2, CommandKinds, StreamTypes DEF BaseInv, Bounds
<1>4. QED BY <1>1, <1>2, <1>3, PassedOnBase

LEMMA ProxyTailBase ==
  ASSUME BaseInv, ProxyTail
  PROVE  BaseInv'
<1>1. TypeOK
  BY DEF BaseInv
<1>2. /\ pc["proxy"] = "command" /\ Len(c2p) > 0 /\ c2p[1] \in Texts /\ c2p[1].kind = "tail"
      /\ ReadsText("proxy", c2p, c2p', uneven, uneven')
      /\ ProxyGoes({"command", "dead"}) /\ command' \in {command, c2p[1]}
      /\ UNCHANGED <<clientVars, pLeft, serverVars, envVars, broken, p2s, s2p, p2c>>
  BY <1>1, ProxyTailDoes DEF ProxyGoes
<1>3. /\ \A i \in 1..Len(c2p') : c2p'[i].kind \in Kinds \cup {"tail"} /\ c2p'[i].of <= sent
      /\ c2p' \in Seq(Texts) /\ uneven' \subseteq uneven \cup {"glued", "proxy"}
  BY <1>2, CommandKinds
<1>4. c2p[1].of <= sent
  <2>1. 1 \in 1..Len(c2p)
    BY <1>1, <1>2, StreamTypes
  <2>2. QED BY <2>1 DEF BaseInv, Bounds
<1>5. TypeOK'
  BY <1>1, <1>2, <1>3 DEF TypeOK, ProxyGoes, Places
<1>6. Bounds'
  BY <1>2, <1>3, <1>4 DEF BaseInv, Bounds, ProxyGoes
<1>7. KindsInv'
  BY <1>2, <1>3 DEF BaseInv, KindsInv, ProxyGoes
<1>8. QED BY <1>5, <1>6, <1>7 DEF BaseInv

LEMMA ProxyJunkBase ==
  ASSUME BaseInv, ProxyJunk
  PROVE  BaseInv'
<1>1. TypeOK
  BY DEF BaseInv
<1>2. /\ pc["proxy"] = "command" /\ ProxyGoes({"spin", "dead"})
      /\ UNCHANGED <<clientVars, proxyVars, serverVars, envVars, uneven, broken,
                     c2p, p2s, s2p, p2c>>
  BY <1>1, ProxyJunkDoes
<1>3. TypeOK'
  BY <1>1, <1>2 DEF TypeOK, ProxyGoes, Places
<1>4. Bounds'
  BY <1>2 DEF BaseInv, Bounds, ProxyGoes
<1>5. KindsInv'
  BY <1>2 DEF BaseInv, KindsInv, ProxyGoes
<1>6. QED BY <1>3, <1>4, <1>5 DEF BaseInv

LEMMA ProxyIntBase ==
  ASSUME BaseInv, ProxyInt
  PROVE  BaseInv'
<1>1. /\ TypeOK /\ Len(p2c) \in Nat /\ Len(s2p) \in Nat /\ sent \in Nat
      /\ s2p \in Seq(Units) /\ p2c \in Seq(Units) /\ broken \subseteq (Procs \X Procs)
  BY StreamTypes, BoundsAssumption DEF BaseInv, TypeOK
<1>2. /\ pc["proxy"] = "int" /\ pc' \in [Procs -> Places] /\ broken' \subseteq (Procs \X Procs)
      /\ pc'["client"] = pc["client"] /\ pc'["server"] = pc["server"]
      /\ p2c' \in Seq(Units) /\ s2p' \in Seq(Units)
      /\ UNCHANGED <<clientVars, command, serverVars, envVars, uneven, c2p, p2s>>
  BY <1>1, ProxyIntDoes
<1>3. /\ pLeft' \in Nat /\ (pc'["proxy"] = "names" => pLeft' > 0)
      /\ pc'["proxy"] \notin {"hello", "int"}
      /\ \A i \in 1..Len(s2p') : s2p'[i].of <= sent
      /\ \A i \in 1..Len(p2c') : p2c'[i].of <= sent
  <2>1. /\ \A i \in 1..Len(s2p) : s2p[i].of <= sent
        /\ \A i \in 1..Len(p2c) : p2c[i].of <= sent
        /\ command.of <= sent /\ pLeft \in Nat
    BY <1>1 DEF BaseInv, Bounds, TypeOK
  <2>2. CASE /\ Len(s2p) > 0 /\ s2p[1] \in Units
             /\ Dropped(s2p, s2p', 1) /\ pLeft' = s2p[1].val
             /\ pc'["proxy"] \in {AfterRelay(s2p[1].val), "dead"}
             /\ Delivered("proxy", "client", p2c, p2c', Reported(s2p[1].val, s2p[1].of),
                          AfterRelay(s2p[1].val))
    <3>1. s2p[1].val \in Nat /\ Reported(s2p[1].val, s2p[1].of).of <= sent
      BY <1>1, <2>1, <2>2 DEF Units, Reported
    <3>2. p2c' = p2c \/ Pushed(p2c, p2c', Reported(s2p[1].val, s2p[1].of))
      BY <2>2 DEF Delivered
    <3>3. \A i \in 1..Len(p2c') : p2c'[i].of <= sent
      BY <1>1, <2>1, <3>1, <3>2, PushedOf
    <3>4. \A i \in 1..Len(s2p') : s2p'[i].of <= sent
      BY <1>1, <2>1, <2>2, DroppedOf
    <3>5. /\ pLeft' \in Nat /\ (pc'["proxy"] = "names" => pLeft' > 0)
          /\ pc'["proxy"] \notin {"hello", "int"}
      BY <2>2, <3>1 DEF AfterRelay
    <3>6. QED BY <3>3, <3>4, <3>5
  <2>3. CASE /\ pc'["proxy"] \in {"command", "dead"}
             /\ Delivered("proxy", "client", p2c, p2c', Reported(0, command.of), "command")
             /\ UNCHANGED <<s2p, pLeft>>
    <3>1. Reported(0, command.of).of <= sent
      BY <2>1 DEF Reported
    <3>2. p2c' = p2c \/ Pushed(p2c, p2c', Reported(0, command.of))
      BY <2>3 DEF Delivered
    <3>3. \A i \in 1..Len(p2c') : p2c'[i].of <= sent
      BY <1>1, <2>1, <3>1, <3>2, PushedOf
    <3>4. QED BY <2>1, <2>3, <3>3
  <2>4. QED BY <1>1, <2>2, <2>3, ProxyIntDoes
<1>4. TypeOK'
  BY <1>1, <1>2, <1>3 DEF TypeOK, Places
<1>5. Bounds'
  BY <1>2, <1>3 DEF BaseInv, Bounds
<1>6. KindsInv'
  BY <1>2, <1>3 DEF BaseInv, KindsInv
<1>7. QED BY <1>4, <1>5, <1>6 DEF BaseInv

LEMMA ProxyNameBase ==
  ASSUME BaseInv, ProxyName
  PROVE  BaseInv'
<1>1. /\ TypeOK /\ Len(p2c) \in Nat /\ Len(s2p) \in Nat /\ sent \in Nat
      /\ s2p \in Seq(Units) /\ p2c \in Seq(Units) /\ broken \subseteq (Procs \X Procs)
  BY StreamTypes, BoundsAssumption DEF BaseInv, TypeOK
<1>2. /\ pc["proxy"] = "names" /\ pLeft' = pLeft - 1
      /\ ProxyGoes({IF pLeft = 1 THEN "command" ELSE "names", "dead"})
      /\ broken' \subseteq (Procs \X Procs) /\ p2c' \in Seq(Units) /\ s2p' \in Seq(Units)
      /\ UNCHANGED <<clientVars, command, serverVars, envVars, c2p, p2s>>
  BY <1>1, ProxyNameDoes
<1>3. pLeft \in Nat /\ pLeft > 0 /\ pLeft' \in Nat
  BY <1>1, <1>2 DEF BaseInv, Bounds, TypeOK
<1>4. /\ uneven' \subseteq uneven \cup {"glued"}
      /\ \A i \in 1..Len(s2p') : s2p'[i].of <= sent
      /\ \A i \in 1..Len(p2c') : p2c'[i].of <= sent
  <2>1. /\ \A i \in 1..Len(s2p) : s2p[i].of <= sent
        /\ \A i \in 1..Len(p2c) : p2c[i].of <= sent
    BY DEF BaseInv, Bounds
  <2>2. CASE \E k \in 1..Len(s2p) :
                 /\ Dropped(s2p, s2p', k)
                 /\ uneven' = IF k > 1 THEN uneven \cup {"glued"} ELSE uneven
                 /\ IF Gone("client") THEN p2c' = p2c
                    ELSE /\ pc'["proxy"] = IF pLeft = 1 THEN "command" ELSE "names"
                         /\ Joined(p2c, p2c', s2p, k)
    <3>1. PICK k \in 1..Len(s2p) :
                 /\ Dropped(s2p, s2p', k)
                 /\ uneven' \subseteq uneven \cup {"glued"}
                 /\ p2c' = p2c \/ Joined(p2c, p2c', s2p, k)
      BY <2>2
    <3>2. \A i \in 1..Len(s2p') : s2p'[i].of <= sent
      BY <1>1, <2>1, <3>1, DroppedOf
    <3>3. \A i \in 1..Len(p2c') : p2c'[i].of <= sent
      BY <1>1, <2>1, <3>1, JoinedOf
    <3>4. QED BY <3>1, <3>2, <3>3
  <2>3. CASE UNCHANGED <<s2p, uneven, p2c, broken>>
    BY <2>1, <2>3
  <2>4. QED BY <1>1, <2>2, <2>3, ProxyNameDoes
<1>5. TypeOK'
  BY <1>1, <1>2, <1>3, <1>4 DEF TypeOK, ProxyGoes, Places
<1>6. Bounds'
  BY <1>2, <1>3, <1>4 DEF BaseInv, Bounds, ProxyGoes
<1>7. KindsInv'
  BY <1>2 DEF BaseInv, KindsInv, ProxyGoes
<1>8. QED BY <1>5, <1>6, <1>7 DEF BaseInv

LEMMA ProxyFileBase ==
  ASSUME BaseInv, ProxyFile
  PROVE  BaseInv'
<1>1. /\ TypeOK /\ Len(p2c) \in Nat /\ Len(s2p) \in Nat /\ sent \in Nat
      /\ s2p \in Seq(Units) /\ p2c \in Seq(Units)
  BY StreamTypes, BoundsAssumption DEF BaseInv, TypeOK
<1>2. /\ pc["proxy"] = "file" /\ ProxyGoes({"command", "dead"})
      /\ broken' \subseteq (Procs \X Procs) /\ p2c' \in Seq(Units) /\ s2p' \in Seq(Units)
      /\ uneven' = uneven \/ uneven' = uneven \cup {"short"}
      /\ UNCHANGED <<clientVars, proxyVars, serverVars, envVars, c2p, p2s>>
  BY <1>1, ProxyFileDoes
<1>3. /\ \A i \in 1..Len(s2p') : s2p'[i].of <= sent
      /\ \A i \in 1..Len(p2c') : p2c'[i].of <= sent
  <2>1. /\ \A i \in 1..Len(s2p) : s2p[i].of <= sent
        /\ \A i \in 1..Len(p2c) : p2c[i].of <= sent
        /\ command.of <= sent
    BY DEF BaseInv, Bounds
  <2>2. CASE /\ Len(s2p) > 0
             /\ Dropped(s2p, s2p', 1)
             /\ Delivered("proxy", "client", p2c, p2c', s2p[1], "command")
    <3>1. s2p[1].of <= sent
      BY <1>1, <2>1, <2>2
    <3>2. p2c' = p2c \/ Pushed(p2c, p2c', s2p[1])
      BY <2>2 DEF Delivered
    <3>3. QED BY <1>1, <2>1, <2>2, <3>1, <3>2, PushedOf, DroppedOf
  <2>3. CASE /\ UNCHANGED s2p
             /\ Delivered("proxy", "client", p2c, p2c',
                          [what |-> "blocks", val |-> 0, of |-> command.of], "command")
    <3>1. p2c' = p2c \/ Pushed(p2c, p2c', [what |-> "blocks", val |-> 0, of |-> command.of])
      BY <2>3 DEF Delivered
    <3>2. QED BY <1>1, <2>1, <2>3, <3>1, PushedOf
  <2>4. CASE \A m \in Nat :
               /\ \A i \in 1..Len(s2p) : s2p[i].of <= m
               /\ \A i \in 1..Len(p2c) : p2c[i].of <= m
               => /\ \A i \in 1..Len(s2p') : s2p'[i].of <= m
                  /\ \A i \in 1..Len(p2c') : p2c'[i].of <= m
    BY <1>1, <2>1, <2>4
  <2>5. QED BY <1>1, <2>2, <2>3, <2>4, ProxyFileDoes
<1>4. TypeOK'
  BY <1>1, <1>2 DEF TypeOK, ProxyGoes, Places
<1>5. Bounds'
  BY <1>2, <1>3 DEF BaseInv, Bounds, ProxyGoes
<1>6. KindsInv'
  BY <1>2 DEF BaseInv, KindsInv, ProxyGoes
<1>7. QED BY <1>4, <1>5, <1>6 DEF BaseInv

\* The server has written x, or could not, or has nothing to write.
LEMMA ServerWroteBase ==
  ASSUME BaseInv, NEW x, x.of <= sent, ServerGoes(Places),
         broken' \subseteq (Procs \X Procs), s2p' \in Seq(Units),
         s2p' = s2p \/ Pushed(s2p, s2p', x), sLeft' \in Nat,
         UNCHANGED <<clientVars, proxyVars, buffer, runs, envVars, uneven, c2p, p2s, p2c>>
  PROVE  BaseInv'
<1>1. TypeOK /\ Len(s2p) \in Nat /\ sent \in Nat
  BY StreamTypes, BoundsAssumption DEF BaseInv, TypeOK
<1>2. \A i \in 1..Len(s2p') : s2p'[i].of <= sent
  BY <1>1, PushedOf DEF BaseInv, Bounds
<1>3. TypeOK'
  BY <1>1 DEF TypeOK, ServerGoes, Places
<1>4. Bounds'
  BY <1>2 DEF BaseInv, Bounds, ServerGoes
<1>5. KindsInv'
  BY DEF BaseInv, KindsInv, ServerGoes
<1>6. QED BY <1>3, <1>4, <1>5 DEF BaseInv

LEMMA ServerStepBase ==
  ASSUME BaseInv,
         \/ ServerAccept \/ ServerEOF \/ ServerListDone \/ ServerUDP
         \/ ServerSecondPass \/ ServerName \/ ServerFile
  PROVE  BaseInv'
<1>1. /\ TypeOK /\ buffer.of <= sent /\ sLeft \in Nat /\ files \in Nat
      /\ s2p \in Seq(Units) /\ broken \subseteq (Procs \X Procs)
  BY StreamTypes, BoundsAssumption DEF BaseInv, TypeOK, Bounds
<1>2. CASE ServerAccept \/ ServerEOF \/ ServerListDone \/ ServerUDP
  <2>1. /\ ServerGoes({"command", "dead"})
        /\ UNCHANGED <<clientVars, proxyVars, serverVars, envVars, uneven, broken,
                       c2p, p2s, s2p, p2c>>
    BY <1>1, <1>2, ServerMovesDoes DEF ServerGoes
  <2>2. ServerGoes(Places)
    BY <2>1 DEF ServerGoes, Places
  <2>3. QED BY <1>1, <2>1, <2>2, ServerWroteBase
<1>3. CASE ServerSecondPass
  <2>1. ServerGoes(Places)
    BY <1>1, <1>3, ServerSecondPassDoes DEF ServerGoes, Places
  <2>2. QED BY <1>1, <1>3, <2>1, ServerSecondPassDoes, ServerWroteBase
<1>4. CASE ServerName
  <2> DEFINE x == [what |-> "name", val |-> 0, of |-> buffer.of]
  <2>1. /\ sLeft' \in Nat /\ ServerGoes({"names", "dead"}) /\ broken' \subseteq (Procs \X Procs)
        /\ s2p' \in Seq(Units) /\ Delivered("server", "proxy", s2p, s2p', x, "names")
        /\ UNCHANGED <<clientVars, proxyVars, buffer, runs, envVars, uneven, c2p, p2s, p2c>>
    BY <1>1, <1>4, ServerNameDoes
  <2>2. ServerGoes(Places)
    BY <2>1 DEF ServerGoes, Places
  <2>3. x.of <= sent
    BY <1>1
  <2> HIDE DEF x
  <2>4. s2p' = s2p \/ Pushed(s2p, s2p', x)
    BY <2>1 DEF Delivered
  <2>5. QED BY <2>1, <2>2, <2>3, <2>4, ServerWroteBase
<1>5. CASE ServerFile
  <2> DEFINE x == FileOf(buffer)
             next == IF buffer.kind = "WHOLE" THEN "spin" ELSE "command"
  <2>1. /\ ServerGoes({next, "dead"}) /\ broken' \subseteq (Procs \X Procs)
        /\ s2p' \in Seq(Units) /\ Delivered("server", "proxy", s2p, s2p', x, next)
        /\ UNCHANGED <<clientVars, proxyVars, serverVars, envVars, uneven, c2p, p2s, p2c>>
    BY <1>1, <1>5, ServerFileDoes
  <2>2. ServerGoes(Places)
    BY <2>1 DEF ServerGoes, Places
  <2>3. x.of <= sent
    BY <1>1 DEF FileOf
  <2> HIDE DEF x, next
  <2>4. s2p' = s2p \/ Pushed(s2p, s2p', x)
    BY <2>1 DEF Delivered
  <2>5. QED BY <1>1, <2>1, <2>2, <2>3, <2>4, ServerWroteBase
<1>6. QED BY <1>2, <1>3, <1>4, <1>5

LEMMA ServerCommandBase ==
  ASSUME BaseInv, ServerCommand
  PROVE  BaseInv'
<1>1. /\ TypeOK /\ Len(p2s) \in Nat /\ Len(s2p) \in Nat /\ sent \in Nat /\ runs \in Nat
  BY StreamTypes, BoundsAssumption DEF BaseInv, TypeOK
<1>2. 1 \in 1..Len(p2s) /\ p2s[1].kind \in Kinds \cup {"tail"} /\ p2s[1].of <= sent
  <2>1. Len(p2s) > 0
    BY <1>1, StreamTypes DEF ServerCommand
  <2>2. QED BY <1>1, <2>1 DEF BaseInv, KindsInv, Bounds
<1>3. /\ p2s[1] \in Texts /\ buffer' = p2s[1] /\ runs' = runs + 1
      /\ ReadsText("server", p2s, p2s', uneven, uneven')
      /\ ServerGoes({ServesAt(p2s[1].kind), "dead"}) /\ broken' \subseteq (Procs \X Procs)
      /\ s2p' \in Seq(Units)
      /\ s2p' = s2p \/ Pushed(s2p, s2p', FirstUnit(p2s[1]))
      /\ UNCHANGED <<clientVars, proxyVars, sLeft, envVars, c2p, p2c>>
  BY <1>1, <1>2, ServerCommandDoes DEF Delivered
<1>4. /\ p2s' \in Seq(Texts) /\ uneven' \subseteq uneven \cup {"glued", "server"}
      /\ \A i \in 1..Len(p2s') : p2s'[i].of <= sent
      /\ \A i \in 1..Len(p2s') : p2s'[i].kind = "tail" \/ \E j \in 2..Len(p2s) : p2s'[i] = p2s[j]
  BY <1>1, <1>3, ReadKeeps DEF BaseInv, Bounds
<1>5. \A i \in 1..Len(p2s') : p2s'[i].kind \in Kinds \cup {"tail"}
  <2>1. \A j \in 2..Len(p2s) : p2s[j].kind \in Kinds \cup {"tail"}
    BY <1>1 DEF BaseInv, KindsInv
  <2>2. QED BY <1>4, <2>1
<1>6. \A i \in 1..Len(s2p') : s2p'[i].of <= sent
  <2>1. FirstUnit(p2s[1]).of <= sent
    BY <1>2 DEF FirstUnit
  <2>2. QED BY <1>1, <1>3, <2>1, PushedOf DEF BaseInv, Bounds
<1>7. ServerGoes(Places)
  BY <1>3 DEF ServerGoes, ServesAt, Places
<1>8. TypeOK'
  BY <1>1, <1>3, <1>4, <1>7 DEF TypeOK, ServerGoes, Places
<1>9. Bounds'
  BY <1>2, <1>3, <1>4, <1>6, <1>7 DEF BaseInv, Bounds, ServerGoes
<1>10. KindsInv'
  BY <1>3, <1>5, <1>7 DEF BaseInv, KindsInv, ServerGoes
<1>11. QED BY <1>8, <1>9, <1>10 DEF BaseInv

\* The steps of the environment.
Environment ==
  DirChange \/ InputEnd \/ OthersFill \/ OthersDie \/ \E p \in Procs : Kill(p)

LEMMA EnvironmentBase ==
  ASSUME BaseInv, Environment
  PROVE  BaseInv'
<1>1. /\ TypeOK /\ Len(s2p) \in Nat /\ Len(p2c) \in Nat /\ sent \in Nat
      /\ s2p \in Seq(Units) /\ p2c \in Seq(Units) /\ command.of <= sent /\ buffer.of <= sent
  BY StreamTypes, BoundsAssumption DEF BaseInv, TypeOK, Bounds
<1>2. CASE DirChange
  <2>1. /\ changes' = changes + 1 /\ files' \in 0..MaxFiles
        /\ UNCHANGED <<pc, clientVars, proxyVars, serverVars, full, stuck, uneven, broken,
                       c2p, p2s, s2p, p2c>>
    BY <1>2 DEF DirChange
  <2>2. changes' \in 0..MaxTroubles
    BY <1>1, <1>2, <2>1, TroublesCount DEF DirChange
  <2>3. TypeOK'
    BY <1>1, <2>1, <2>2 DEF TypeOK
  <2>4. Bounds'
    BY <2>1 DEF BaseInv, Bounds
  <2>5. KindsInv'
    BY <2>1 DEF BaseInv, KindsInv
  <2>6. QED BY <2>3, <2>4, <2>5 DEF BaseInv
<1>3. CASE InputEnd
  <2>1. /\ eof' = TRUE
        /\ UNCHANGED <<pc, sent, typed, letters, cLeft, answer, proxyVars, serverVars,
                       envVars, uneven, broken, c2p, p2s, s2p, p2c>>
    BY <1>3 DEF InputEnd
  <2>2. TypeOK'
    BY <1>1, <2>1 DEF TypeOK
  <2>3. Bounds'
    BY <2>1 DEF BaseInv, Bounds
  <2>4. KindsInv'
    BY <2>1 DEF BaseInv, KindsInv
  <2>5. QED BY <2>2, <2>3, <2>4 DEF BaseInv
<1>4. CASE \E p \in Procs : Kill(p)
  <2> DEFINE x == [what |-> "part", val |-> 0, of |-> command.of]
             y == [what |-> "part", val |-> 0, of |-> buffer.of]
  <2>1. PICK p \in Procs : Kill(p)
    BY <1>4
  <2>2. /\ ClientGoes({"dead"}) \/ ProxyGoes({"dead"}) \/ ServerGoes({"dead"})
        /\ s2p' \in Seq(Units) /\ p2c' \in Seq(Units)
        /\ s2p' = s2p \/ Pushed(s2p, s2p', y)
        /\ p2c' = p2c \/ Pushed(p2c, p2c', x)
        /\ UNCHANGED <<clientVars, proxyVars, serverVars, envVars, uneven, broken, c2p, p2s>>
    BY <1>1, <2>1, KillDoes
  <2>3. x.of <= sent /\ y.of <= sent
    BY <1>1
  <2> HIDE DEF x, y
  <2>4. /\ \A i \in 1..Len(s2p') : s2p'[i].of <= sent
        /\ \A i \in 1..Len(p2c') : p2c'[i].of <= sent
    BY <1>1, <2>2, <2>3, PushedOf DEF BaseInv, Bounds
  <2>5. /\ pc' \in [Procs -> Places]
        /\ pc'["client"] \in {pc["client"], "dead"} /\ pc'["proxy"] \in {pc["proxy"], "dead"}
        /\ pc["proxy"] = "hello" => pc'["client"] = pc["client"] \/ pc'["client"] = "dead"
    BY <2>2 DEF ClientGoes, ProxyGoes, ServerGoes
  <2>6. TypeOK'
    BY <1>1, <2>2, <2>5 DEF TypeOK, Places
  <2>7. Bounds'
    BY <2>2, <2>4, <2>5 DEF BaseInv, Bounds
  <2>8. KindsInv'
    BY <2>2, <2>5 DEF BaseInv, KindsInv
  <2>9. QED BY <2>6, <2>7, <2>8 DEF BaseInv
<1>5. CASE OthersFill \/ OthersDie
  <2>1. /\ full' \in BOOLEAN /\ stuck' \in BOOLEAN
        /\ UNCHANGED <<pc, clientVars, proxyVars, serverVars, files, changes, uneven, broken,
                       c2p, p2s, s2p, p2c>>
    BY <1>1, <1>5 DEF OthersFill, OthersDie, TypeOK
  <2>2. TypeOK'
    BY <1>1, <2>1 DEF TypeOK
  <2>3. Bounds'
    BY <2>1 DEF BaseInv, Bounds
  <2>4. KindsInv'
    BY <2>1 DEF BaseInv, KindsInv
  <2>5. QED BY <2>2, <2>3, <2>4 DEF BaseInv
<1>6. QED BY <1>2, <1>3, <1>4, <1>5 DEF Environment

LEMMA BaseStep ==
  ASSUME BaseInv, [Next]_vars
  PROVE  BaseInv'
<1>1. CASE UNCHANGED vars
  <2>1. TypeOK'
    BY <1>1 DEF vars, BaseInv, TypeOK
  <2>2. Bounds'
    BY <1>1 DEF vars, BaseInv, Bounds
  <2>3. KindsInv'
    BY <1>1 DEF vars, BaseInv, KindsInv
  <2>4. QED BY <2>1, <2>2, <2>3 DEF BaseInv
<1>2. CASE ClientStep \/ ClientCommand
  BY <1>2, ClientHelloBase, ClientCommandBase, ClientRoundBase, ClientIntBase,
     ClientNameBase, ClientFileBase, MisreadBase DEF ClientStep
<1>3. CASE ProxyStep
  BY <1>3, ProxyHelloBase, ProxyCommandBase, ProxyTailBase, ProxyReplayBase, ProxyJunkBase,
     ProxyIntBase, ProxyNameBase, ProxyFileBase, MisreadBase DEF ProxyStep
<1>4. CASE ServerStep
  BY <1>4, ServerCommandBase, ServerStepBase DEF ServerStep
<1>5. CASE Environment
  BY <1>5, EnvironmentBase
<1>6. QED BY <1>1, <1>2, <1>3, <1>4, <1>5 DEF Next, Environment

\* Where everything starts.
LEMMA Start ==
  ASSUME Init
  PROVE  IInv
<1>1. /\ pc \in [Procs -> Places] /\ pc["client"] = "hello" /\ pc["proxy"] = "hello"
      /\ pc["server"] = "off"
  BY DEF Init, Procs, Places
<1>2. \A S : << >> \in Seq(S)
  OBVIOUS
<1>3. Len(c2p) = 0 /\ Len(p2s) = 0 /\ Len(s2p) = 0 /\ Len(p2c) = 0
  BY DEF Init
<1>4. /\ command = Junk /\ Junk \in Texts /\ Junk.of = 0 /\ Junk.kind = "junk" /\ buffer = Junk
  BY DEF Init, Junk, Text, Texts
<1>5. TypeOK
  <2>1. answer \in [val : Nat, of : 0..sent]
    BY DEF Init
  <2>2. /\ c2p \in Seq(Texts) /\ p2s \in Seq(Texts) /\ s2p \in Seq(Units) /\ p2c \in Seq(Units)
    BY <1>2 DEF Init
  <2>3. {MaxCommands, Letters, MaxFiles, MaxTroubles} \subseteq Nat
    BY BoundsAssumption
  <2>4. sent \in 0..(MaxCommands + Letters) /\ letters \in 0..Letters
    BY <2>3 DEF Init
  <2>5. /\ cLeft \in Nat /\ pLeft \in Nat /\ sLeft \in Nat /\ runs \in Nat
        /\ files \in 0..MaxFiles /\ changes \in 0..MaxTroubles
    BY <2>3 DEF Init
  <2>6. /\ typed \in Kinds /\ eof \in BOOLEAN
        /\ uneven \subseteq {"glued", "short", "proxy", "server"}
        /\ broken \subseteq (Procs \X Procs)
        /\ full \in BOOLEAN /\ stuck \in BOOLEAN
    BY DEF Init, Kinds, Downloads
  <2>7. command \in Texts /\ buffer \in Texts
    BY <1>4
  <2>8. QED BY <1>1, <2>1, <2>2, <2>4, <2>5, <2>6, <2>7 DEF TypeOK, Places
<1>6. Bounds
  BY <1>1, <1>3, <1>4, BoundsAssumption DEF Init, Bounds
<1>7. KindsInv
  BY <1>1, <1>3, <1>4 DEF KindsInv
<1>8. OrderInv
  BY <1>3, <1>4 DEF Init, OrderInv, Rising, Ordered
<1>9. ServerInv
  BY <1>1, <1>3 DEF ServerInv
<1>10. ClientInv
  <2>1. ~Pending
    BY <1>3 DEF Pending
  <2>2. sent = 0 /\ answer.of = 0
    BY DEF Init
  <2>3. ClientPlaces
    BY <1>1, <1>3, <2>2 DEF ClientPlaces
  <2>4. ProxyWorks /\ NumberArrives /\ RestArrives
    BY <1>1, <1>3 DEF ProxyWorks, NumberArrives, RestArrives
  <2>5. OneCommand
    BY <1>3, <2>1 DEF OneCommand
  <2>6. QED BY <2>3, <2>4, <2>5 DEF ClientInv
<1>11. SteadyInv
  BY <1>1 DEF SteadyInv
<1>12. PartsInv
  BY <1>1, <1>3 DEF PartsInv, NoParts
<1>13. QED BY <1>5, <1>6, <1>7, <1>8, <1>9, <1>10, <1>11, <1>12 DEF IInv, BaseInv

\* All variables keep their types, and the counters their bounds.
THEOREM TypeCorrect == Spec => []TypeOK
<1>1. Init => BaseInv
  BY Start DEF IInv
<1>2. BaseInv /\ [Next]_vars => BaseInv'
  BY BaseStep
<1>3. BaseInv => TypeOK
  BY DEF BaseInv
<1>4. QED BY <1>1, <1>2, <1>3, PTL DEF Spec

-----------------------------------------------------------------------------
(* Second layer.                                                           *)

\* Who does what, roughly: a step of one process leaves the others where they
\* are, and what has been disturbed stays so.
LEMMA ClientLater ==
  ASSUME BaseInv, ClientStep \/ ClientCommand
  PROVE  /\ ClientGoes(Places) /\ ~Gone("client") /\ uneven \subseteq uneven'
         /\ UNCHANGED <<proxyVars, serverVars, envVars, p2s, s2p>>
         /\ "server" \in uneven' => "server" \in uneven
<1>1. TypeOK
  BY DEF BaseInv
<1>2. ASSUME NEW k \in Kinds, Asked(k) PROVE ClientGoes(Places)
  BY <1>2 DEF Asked, ClientGoes, Places
<1>3. CASE ClientHello
  BY <1>1, <1>3, ClientHelloDoes DEF ClientGoes, Places, Gone
<1>4. CASE ClientCommand
  BY <1>1, <1>2, <1>4, ClientCommandDoes DEF Gone
<1>5. CASE ClientRound
  <2>1. ClientGoes(Places)
    BY <1>1, <1>2, <1>5, ClientRoundDoes DEF ClientGoes, Places
  <2>2. QED BY <1>1, <1>5, <2>1, ClientRoundDoes DEF Gone
<1>6. CASE ClientInt
  <2>1. ClientGoes(Places)
    BY <1>1, <1>6, ClientIntDoes DEF ClientGoes, AfterReply, Places
  <2>2. QED BY <1>1, <1>6, <2>1, ClientIntDoes DEF Gone
<1>7. CASE ClientName
  <2>1. ClientGoes(Places)
    BY <1>1, <1>7, ClientNameDoes DEF ClientGoes, Places
  <2>2. QED BY <1>1, <1>7, <2>1, ClientNameDoes DEF Gone
<1>8. CASE ClientFile
  BY <1>1, <1>8, ClientFileDoes DEF ClientGoes, Places, Gone
<1>9. CASE ClientMisreads
  BY <1>1, <1>9, ClientMisreadsDoes DEF ClientGoes, Places, Gone
<1>10. QED BY <1>3, <1>4, <1>5, <1>6, <1>7, <1>8, <1>9 DEF ClientStep

LEMMA ProxyLater ==
  ASSUME BaseInv, ProxyStep
  PROVE  /\ pc'["client"] = pc["client"] /\ ~Gone("proxy") /\ uneven \subseteq uneven'
         /\ UNCHANGED <<clientVars, serverVars, envVars>>
<1>1. TypeOK
  BY DEF BaseInv
<1>2. CASE ProxyHello
  BY <1>1, <1>2, ProxyHelloDoes DEF Gone, ReadsText
<1>3. CASE ProxyCommand
  BY <1>1, <1>3, ProxyCommandDoes DEF Gone, ReadsText, ProxyGoes
<1>4. CASE ProxyTail
  BY <1>1, <1>4, ProxyTailDoes DEF Gone, ReadsText, ProxyGoes
<1>5. CASE ProxyReplay
  BY <1>1, <1>5, ProxyReplayDoes DEF Gone, ProxyGoes
<1>6. CASE ProxyJunk
  BY <1>1, <1>6, ProxyJunkDoes DEF Gone, ProxyGoes
<1>7. CASE ProxyInt
  BY <1>1, <1>7, ProxyIntDoes DEF Gone
<1>8. CASE ProxyName
  BY <1>1, <1>8, ProxyNameDoes DEF Gone, ProxyGoes
<1>9. CASE ProxyFile
  BY <1>1, <1>9, ProxyFileDoes DEF Gone, ProxyGoes
<1>10. CASE ProxyMisreads
  BY <1>1, <1>10, ProxyMisreadsDoes DEF Gone, ProxyGoes
<1>11. QED BY <1>2, <1>3, <1>4, <1>5, <1>6, <1>7, <1>8, <1>9, <1>10 DEF ProxyStep

LEMMA ServerLater ==
  ASSUME BaseInv, ServerStep
  PROVE  /\ ServerGoes(Places) /\ ~Gone("server") /\ uneven \subseteq uneven'
         /\ ("glued" \in uneven' => "glued" \in uneven \/ ServerCommand)
         /\ UNCHANGED <<clientVars, proxyVars, envVars, c2p, p2c>>
<1>1. TypeOK
  BY DEF BaseInv
<1>2. CASE ServerCommand
  <2>1. p2s[1].kind \in Kinds \cup {"tail"}
    BY <1>1, <1>2, StreamTypes DEF ServerCommand, BaseInv, KindsInv
  <2>2. ServerGoes(Places)
    BY <1>1, <1>2, <2>1, ServerCommandDoes DEF ServerGoes, ServesAt, Places
  <2>3. QED BY <1>1, <1>2, <2>1, <2>2, ServerCommandDoes DEF Gone, ReadsText
<1>3. CASE ServerAccept \/ ServerEOF \/ ServerListDone \/ ServerUDP
  BY <1>1, <1>3, ServerMovesDoes DEF ServerGoes, Places, Gone
<1>4. CASE ServerSecondPass
  BY <1>1, <1>4, ServerSecondPassDoes DEF ServerGoes, Places, Gone
<1>5. CASE ServerName
  BY <1>1, <1>5, ServerNameDoes DEF ServerGoes, Places, Gone
<1>6. CASE ServerFile
  <2>1. ServerGoes(Places)
    BY <1>1, <1>6, ServerFileDoes DEF ServerGoes, Places
  <2>2. QED BY <1>1, <1>6, <2>1, ServerFileDoes DEF Gone
<1>7. QED BY <1>2, <1>3, <1>4, <1>5, <1>6 DEF ServerStep

\* The order of the commands, when none of them moves.
LEMMA OrderQuiet ==
  ASSUME OrderInv, UNCHANGED <<runs, buffer, command, p2s, c2p>>
  PROVE  OrderInv'
BY DEF OrderInv

\* A read of a command from an ordered stream.
LEMMA TakenOrdered ==
  ASSUME NEW q, NEW r, Len(q) \in Nat, NEW k \in 1..Len(q), Taken(q, r, k),
         NEW m \in Nat, \A i \in 1..Len(q) : q[i].of \in Nat, Ordered(q, m)
  PROVE  Ordered(r, q[1].of)
<1>1. CASE /\ Len(r) = Len(q) - k
           /\ \A j \in 1..Len(q) - k : r[j] = q[j + k]
  <2>1. ASSUME NEW i \in 1..Len(r)
        PROVE  /\ i + k \in 1..Len(q) /\ r[i] = q[i + k] /\ 1 \in 1..(i + k) - 1
               /\ \A j \in 1..i - 1 : j + k \in 1..(i + k) - 1 /\ r[j] = q[j + k]
    BY <1>1
  <2>2. ASSUME NEW i \in 1..Len(r)
        PROVE  /\ q[1].of <= r[i].of /\ \A j \in 1..i - 1 : r[j].of <= r[i].of
               /\ r[i].kind \in Kinds => q[1].of < r[i].of /\ \A j \in 1..i - 1 : r[j].of < r[i].of
    BY <2>1 DEF Ordered
  <2>3. QED BY <2>2 DEF Ordered
<1>2. CASE /\ q[k].kind \in Downloads
           /\ Len(r) = Len(q) - k + 1 /\ r[1] = Text("tail", q[k].of)
           /\ \A j \in 2..Len(q) - k + 1 : r[j] = q[j + (k - 1)]
  <2>1. r[1].of = q[k].of /\ r[1].kind \notin Kinds /\ q[1].of <= q[k].of
    <3>1. k = 1 \/ 1 \in 1..k - 1
      OBVIOUS
    <3>2. q[1].of <= q[k].of
      BY <3>1 DEF Ordered
    <3>3. QED BY <1>2, <3>2 DEF Text, Kinds, Downloads
  <2>2. ASSUME NEW i \in 2..Len(r)
        PROVE  /\ i + (k - 1) \in 1..Len(q) /\ r[i] = q[i + (k - 1)]
               /\ 1 \in 1..(i + (k - 1)) - 1 /\ k \in 1..(i + (k - 1)) - 1
               /\ \A j \in 2..i - 1 : j + (k - 1) \in 1..(i + (k - 1)) - 1 /\ r[j] = q[j + (k - 1)]
    BY <1>2
  <2>3. ASSUME NEW i \in 2..Len(r), NEW j \in 1..i - 1
        PROVE  r[j].of <= r[i].of /\ (r[i].kind \in Kinds => r[j].of < r[i].of)
    <3>1. CASE j = 1
      BY <2>1, <2>2, <3>1 DEF Ordered
    <3>2. CASE j # 1
      <4>1. j \in 2..i - 1
        BY <3>2
      <4>2. QED BY <2>2, <4>1 DEF Ordered
    <3>3. QED BY <3>1, <3>2
  <2>4. ASSUME NEW i \in 2..Len(r)
        PROVE  q[1].of <= r[i].of /\ (r[i].kind \in Kinds => q[1].of < r[i].of)
    BY <2>2 DEF Ordered
  <2>5. ASSUME NEW i \in 1..Len(r)
        PROVE  /\ q[1].of <= r[i].of /\ \A j \in 1..i - 1 : r[j].of <= r[i].of
               /\ r[i].kind \in Kinds => q[1].of < r[i].of /\ \A j \in 1..i - 1 : r[j].of < r[i].of
    <3>1. CASE i = 1
      BY <2>1, <3>1
    <3>2. CASE i # 1
      <4>1. i \in 2..Len(r)
        BY <3>2
      <4>2. QED BY <2>3, <2>4, <4>1
    <3>3. QED BY <3>1, <3>2
  <2>6. QED BY <2>5 DEF Ordered
<1>3. QED BY <1>1, <1>2 DEF Taken

LEMMA TakenRising ==
  ASSUME NEW q, NEW r, Len(q) \in Nat, NEW k \in 1..Len(q), Taken(q, r, k),
         k = 1 => Len(r) = Len(q) - 1,
         NEW m \in Nat, \A i \in 1..Len(q) : q[i].of \in Nat, Rising(q, m)
  PROVE  Rising(r, q[1].of)
<1>1. CASE /\ Len(r) = Len(q) - k
           /\ \A j \in 1..Len(q) - k : r[j] = q[j + k]
  <2>1. ASSUME NEW i \in 1..Len(r)
        PROVE  /\ i + k \in 1..Len(q) /\ r[i] = q[i + k] /\ 1 \in 1..(i + k) - 1
               /\ \A j \in 1..i - 1 : j + k \in 1..(i + k) - 1 /\ r[j] = q[j + k]
    BY <1>1
  <2>2. ASSUME NEW i \in 1..Len(r)
        PROVE  q[1].of < r[i].of /\ \A j \in 1..i - 1 : r[j].of < r[i].of
    BY <2>1 DEF Rising
  <2>3. QED BY <2>2 DEF Rising
<1>2. CASE /\ Len(r) = Len(q) - k + 1 /\ r[1] = Text("tail", q[k].of)
           /\ \A j \in 2..Len(q) - k + 1 : r[j] = q[j + (k - 1)]
  <2>1. k > 1 /\ 1 \in 1..k - 1 /\ r[1].of = q[k].of
    BY <1>2 DEF Text
  <2>2. q[1].of < r[1].of
    BY <2>1 DEF Rising
  <2>3. ASSUME NEW i \in 2..Len(r)
        PROVE  /\ i + (k - 1) \in 1..Len(q) /\ r[i] = q[i + (k - 1)]
               /\ 1 \in 1..(i + (k - 1)) - 1 /\ k \in 1..(i + (k - 1)) - 1
               /\ \A j \in 2..i - 1 : j + (k - 1) \in 1..(i + (k - 1)) - 1 /\ r[j] = q[j + (k - 1)]
    BY <1>2
  <2>4. ASSUME NEW i \in 2..Len(r), NEW j \in 1..i - 1
        PROVE  r[j].of < r[i].of
    <3>1. CASE j = 1
      BY <2>1, <2>3, <3>1 DEF Rising
    <3>2. CASE j # 1
      <4>1. j \in 2..i - 1
        BY <3>2
      <4>2. QED BY <2>3, <4>1 DEF Rising
    <3>3. QED BY <3>1, <3>2
  <2>5. ASSUME NEW i \in 2..Len(r) PROVE q[1].of < r[i].of
    BY <2>3 DEF Rising
  <2>6. ASSUME NEW i \in 1..Len(r)
        PROVE  q[1].of < r[i].of /\ \A j \in 1..i - 1 : r[j].of < r[i].of
    <3>1. CASE i = 1
      BY <2>2, <3>1
    <3>2. CASE i # 1
      <4>1. i \in 2..Len(r)
        BY <3>2
      <4>2. QED BY <2>4, <2>5, <4>1
    <3>3. QED BY <3>1, <3>2
  <2>7. QED BY <2>6 DEF Rising
<1>3. QED BY <1>1, <1>2 DEF Taken

\* A new command has a greater number than those before it.
LEMMA PushedOrdered ==
  ASSUME NEW q, NEW r, NEW x, Len(q) \in Nat, Pushed(q, r, x), NEW m \in Nat,
         x.of \in Nat, m < x.of, \A i \in 1..Len(q) : q[i].of \in Nat /\ q[i].of < x.of
  PROVE  /\ Ordered(q, m) => Ordered(r, m)
         /\ Rising(q, m) => Rising(r, m)
<1>1. ASSUME NEW i \in 1..Len(r)
      PROVE  \/ i \in 1..Len(q) /\ r[i] = q[i] /\ \A j \in 1..i - 1 : r[j] = q[j] /\ j \in 1..Len(q)
             \/ r[i] = x /\ \A j \in 1..i - 1 : r[j] = q[j] /\ j \in 1..Len(q)
  BY DEF Pushed
<1>2. ASSUME Ordered(q, m) PROVE Ordered(r, m)
  <2>1. ASSUME NEW i \in 1..Len(r)
        PROVE  /\ m <= r[i].of /\ \A j \in 1..i - 1 : r[j].of <= r[i].of
               /\ r[i].kind \in Kinds => m < r[i].of /\ \A j \in 1..i - 1 : r[j].of < r[i].of
    BY <1>1, <1>2 DEF Ordered
  <2>2. QED BY <2>1 DEF Ordered
<1>3. ASSUME Rising(q, m) PROVE Rising(r, m)
  <2>1. ASSUME NEW i \in 1..Len(r)
        PROVE  m < r[i].of /\ \A j \in 1..i - 1 : r[j].of < r[i].of
    BY <1>1, <1>3 DEF Rising
  <2>2. QED BY <2>1 DEF Rising
<1>4. QED BY <1>2, <1>3

LEMMA ClientOrder ==
  ASSUME BaseInv, OrderInv, ClientStep \/ ClientCommand
  PROVE  OrderInv'
<1>1. /\ TypeOK /\ Len(c2p) \in Nat /\ sent \in Nat /\ command.of \in Nat
      /\ \A i \in 1..Len(c2p) : c2p[i].of \in Nat /\ c2p[i].of <= sent
      /\ command.of <= sent /\ UNCHANGED <<proxyVars, serverVars, p2s>>
  BY StreamTypes, UnitTypes, ClientLater DEF BaseInv, TypeOK, Bounds
<1>2. ASSUME Ordered(c2p', command.of) PROVE OrderInv'
  BY <1>1, <1>2 DEF OrderInv
<1>3. CASE ClientHello
  <2>1. PICK t \in {"byTCP", "byUDP"} :
          Delivered("client", "proxy", c2p, c2p', Text(t, 0), "prompt")
    BY <1>1, <1>3, ClientHelloDoes
  <2>2. Len(c2p) = 0 /\ (~Gone("proxy") => command.of = 0)
    BY <1>1, <1>3, ClientHelloDoes DEF BaseInv, KindsInv, Gone, Junk, Text
  <2>3. CASE Gone("proxy")
    BY <1>2, <2>1, <2>3 DEF Delivered, OrderInv
  <2>4. CASE ~Gone("proxy")
    <3>1. Len(c2p') = 1 /\ c2p'[1].of = 0 /\ c2p'[1].kind \notin Kinds /\ command.of = 0
      BY <2>1, <2>2, <2>4 DEF Delivered, Pushed, Text, Kinds, Downloads
    <3>2. Ordered(c2p', command.of)
      BY <3>1 DEF Ordered
    <3>3. QED BY <1>2, <3>2
  <2>5. QED BY <2>3, <2>4
<1>4. ASSUME NEW k \in Kinds, Asked(k) PROVE OrderInv'
  <2> DEFINE x == Text(k, sent + 1)
  <2>1. c2p' = c2p \/ Pushed(c2p, c2p', x)
    BY <1>4 DEF Asked, Delivered
  <2>2. x.of = sent + 1
    BY DEF Text
  <2> HIDE DEF x
  <2>3. Ordered(c2p', command.of)
    BY <1>1, <2>1, <2>2, PushedOrdered DEF OrderInv
  <2>4. QED BY <1>2, <2>3
<1>5. CASE UNCHANGED c2p
  BY <1>1, <1>5, OrderQuiet
<1>6. QED
  BY <1>1, <1>3, <1>4, <1>5, ClientCommandDoes, ClientRoundDoes, ClientIntDoes,
     ClientNameDoes, ClientFileDoes, ClientMisreadsDoes DEF ClientStep

LEMMA ProxyOrder ==
  ASSUME BaseInv, OrderInv, ProxyStep, Alive
  PROVE  OrderInv'
<1>1. /\ TypeOK /\ Len(c2p) \in Nat /\ Len(p2s) \in Nat /\ command.of \in Nat /\ buffer.of \in Nat
      /\ \A i \in 1..Len(c2p) : c2p[i].of \in Nat
      /\ \A i \in 1..Len(p2s) : p2s[i].of \in Nat
      /\ UNCHANGED serverVars
  BY StreamTypes, UnitTypes, ProxyLater DEF BaseInv
<1>2. ASSUME Len(c2p) > 0, ReadsText("proxy", c2p, c2p', uneven, uneven')
      PROVE  Ordered(c2p', c2p[1].of) /\ Ordered(c2p', command.of) /\ command.of <= c2p[1].of
  <2>1. PICK k \in 1..Len(c2p) : Taken(c2p, c2p', k)
    BY <1>2 DEF ReadsText
  <2>2. Ordered(c2p', c2p[1].of)
    BY <1>1, <2>1, TakenOrdered DEF OrderInv
  <2>3. command.of <= c2p[1].of
    BY <1>1, <1>2 DEF OrderInv, Ordered
  <2>4. \A i \in 1..Len(c2p') : c2p'[i].of \in Nat
    <3>1. c2p' \in Seq(Texts)
      BY <1>2 DEF ReadsText
    <3>2. \A i \in 1..Len(c2p') : c2p'[i] \in Texts
      BY <3>1
    <3>3. QED BY <3>2 DEF Texts
  <2>5. c2p[1].of \in Nat
    BY <1>1, <1>2
  <2>6. Ordered(c2p', command.of)
    <3>1. ASSUME NEW i \in 1..Len(c2p')
          PROVE  /\ command.of <= c2p'[i].of
                 /\ \A j \in 1..i - 1 : c2p'[j].of <= c2p'[i].of
                 /\ c2p'[i].kind \in Kinds =>
                      command.of < c2p'[i].of /\ \A j \in 1..i - 1 : c2p'[j].of < c2p'[i].of
      <4>1. c2p[1].of <= c2p'[i].of /\ (c2p'[i].kind \in Kinds => c2p[1].of < c2p'[i].of)
        BY <2>2 DEF Ordered
      <4>2. command.of <= c2p'[i].of /\ (c2p'[i].kind \in Kinds => command.of < c2p'[i].of)
        BY <1>1, <2>3, <2>4, <2>5, <4>1
      <4>3. QED BY <2>2, <4>2 DEF Ordered
    <3>2. QED BY <3>1 DEF Ordered
  <2>7. QED BY <2>2, <2>3, <2>6
<1>3. CASE ProxyHello
  <2>1. Ordered(c2p', command.of) /\ UNCHANGED <<command, p2s>>
    BY <1>1, <1>2, <1>3, ProxyHelloDoes DEF OrderInv
  <2>2. QED BY <1>1, <2>1 DEF OrderInv
<1>4. CASE ProxyTail
  <2>1. /\ Len(c2p) > 0 /\ ReadsText("proxy", c2p, c2p', uneven, uneven')
        /\ command' = command \/ command' = c2p[1]
        /\ UNCHANGED p2s
    BY <1>1, <1>4, ProxyTailDoes
  <2>2. Ordered(c2p', command'.of) /\ command.of <= command'.of /\ command'.of \in Nat
    BY <1>1, <1>2, <2>1
  <2>3. QED BY <1>1, <2>1, <2>2 DEF OrderInv
<1>5. CASE ProxyCommand
  <2>1. /\ Len(c2p) > 0 /\ ReadsText("proxy", c2p, c2p', uneven, uneven')
        /\ command' = c2p[1] /\ c2p[1].kind \in Kinds /\ c2p[1].of \in Nat
        /\ p2s' = p2s \/ Pushed(p2s, p2s', c2p[1])
    BY <1>1, <1>5, ProxyCommandDoes, CommandKinds DEF Delivered
  <2>2. Ordered(c2p', c2p[1].of) /\ command.of < c2p[1].of
    BY <1>1, <1>2, <2>1 DEF OrderInv, Ordered
  <2>3. /\ Rising(p2s', buffer.of)
        /\ \A i \in 1..Len(p2s') : p2s'[i].of <= c2p[1].of
    <3>1. /\ buffer.of < c2p[1].of /\ Rising(p2s, buffer.of)
          /\ \A i \in 1..Len(p2s) : p2s[i].of < c2p[1].of
      BY <1>1, <2>1, <2>2 DEF OrderInv
    <3>2. \A i \in 1..Len(p2s) : p2s[i].of \in Nat /\ p2s[i].of < c2p[1].of
      BY <1>1, <3>1
    <3>3. Rising(p2s', buffer.of)
      <4>1. CASE Pushed(p2s, p2s', c2p[1])
        BY <1>1, <2>1, <3>1, <3>2, <4>1, PushedOrdered
      <4>2. QED BY <2>1, <3>1, <4>1
    <3>4. \A i \in 1..Len(p2s) : p2s[i].of <= c2p[1].of
      BY <2>1, <3>2
    <3>5. \A i \in 1..Len(p2s') : p2s'[i].of <= c2p[1].of
      <4>1. CASE Pushed(p2s, p2s', c2p[1])
        <5>1. c2p[1].of <= c2p[1].of
          BY <2>1
        <5>2. QED BY <1>1, <2>1, <3>4, <4>1, <5>1, PushedOf
      <4>2. QED BY <2>1, <3>4, <4>1
    <3>6. QED BY <3>3, <3>5
  <2>4. QED BY <1>1, <2>1, <2>2, <2>3 DEF OrderInv
<1>6. CASE ProxyReplay \/ ProxyJunk
  BY <1>1, <1>6, ProxyReplayDoes, ProxyJunkDoes DEF Alive
<1>7. CASE ProxyInt \/ ProxyName \/ ProxyFile \/ ProxyMisreads
  BY <1>1, <1>7, ProxyIntDoes, ProxyNameDoes, ProxyFileDoes, ProxyMisreadsDoes, OrderQuiet
<1>8. QED BY <1>3, <1>4, <1>5, <1>6, <1>7 DEF ProxyStep

LEMMA ServerOrder ==
  ASSUME BaseInv, OrderInv, ServerStep, "server" \notin uneven'
  PROVE  OrderInv'
<1>1. /\ TypeOK /\ Len(p2s) \in Nat /\ command.of \in Nat /\ buffer.of \in Nat /\ runs \in Nat
      /\ \A i \in 1..Len(p2s) : p2s[i].of \in Nat
      /\ UNCHANGED <<proxyVars, c2p>>
  BY StreamTypes, UnitTypes, ServerLater DEF BaseInv, TypeOK
<1>2. CASE ServerCommand
  <2>1. p2s # << >> /\ p2s[1].kind \in Kinds \cup {"tail"}
    BY <1>1, <1>2, StreamTypes DEF ServerCommand, BaseInv, KindsInv
  <2>2. /\ Len(p2s) > 0 /\ buffer' = p2s[1] /\ runs' = runs + 1
        /\ ReadsText("server", p2s, p2s', uneven, uneven')
    BY <1>1, <1>2, <2>1, ServerCommandDoes
  <2>3. PICK k \in 1..Len(p2s) : Taken(p2s, p2s', k) /\ (k = 1 => Len(p2s') = Len(p2s) - 1)
    BY <2>2 DEF ReadsText
  <2>4. Rising(p2s', p2s[1].of)
    BY <1>1, <2>3, TakenRising DEF OrderInv
  <2>5. /\ \A i \in 1..Len(p2s) : p2s[i].of <= command.of
        /\ runs <= buffer.of /\ buffer.of < p2s[1].of /\ p2s[1].of \in Nat
    BY <1>1, <2>2 DEF OrderInv, Rising
  <2>6. \A i \in 1..Len(p2s') : p2s'[i].of <= command.of
    BY <1>1, <2>3, <2>5, TakenOf
  <2>7. runs + 1 <= p2s[1].of /\ p2s[1].of <= command.of
    BY <1>1, <2>2, <2>5
  <2>8. QED BY <1>1, <2>2, <2>4, <2>6, <2>7 DEF OrderInv
<1>3. CASE \/ ServerAccept \/ ServerEOF \/ ServerListDone \/ ServerUDP
           \/ ServerSecondPass \/ ServerName \/ ServerFile
  BY <1>1, <1>3, ServerMovesDoes, ServerSecondPassDoes, ServerNameDoes, ServerFileDoes, OrderQuiet
<1>4. QED BY <1>2, <1>3 DEF ServerStep

\* What the environment does, seen from the later layers.
LEMMA EnvironmentLater ==
  ASSUME BaseInv, Environment
  PROVE  /\ UNCHANGED <<sent, typed, letters, cLeft, answer, proxyVars, serverVars, uneven,
                        c2p, p2s>>
         /\ \/ changes' = changes + 1
            \/ UNCHANGED <<files, changes, pc, s2p, p2c>>
            \/ UNCHANGED <<files, changes>> /\ \E p \in Procs : Kill(p)
<1>1. CASE DirChange
  BY <1>1 DEF DirChange
<1>2. CASE InputEnd
  BY <1>2 DEF InputEnd
<1>3. CASE \E p \in Procs : Kill(p)
  BY <1>3 DEF Kill
<1>4. CASE OthersFill \/ OthersDie
  BY <1>4 DEF OthersFill, OthersDie
<1>5. QED BY <1>1, <1>2, <1>3, <1>4 DEF Environment

\* A client that has gone stays so, and so does what has been disturbed.
LEMMA StaysSo ==
  ASSUME BaseInv, [Next]_vars
  PROVE  /\ Alive' => Alive
         /\ uneven \subseteq uneven'
         /\ Calm' => Calm /\ UNCHANGED <<files, changes>>
<1>1. TypeOK /\ changes \in Nat
  BY BoundsAssumption DEF BaseInv, TypeOK
<1>2. CASE UNCHANGED vars
  BY <1>2 DEF vars, Alive, Gone, Calm
<1>3. CASE ClientStep \/ ClientCommand
  BY <1>3, ClientLater DEF Alive, Gone, Calm
<1>4. CASE ProxyStep
  BY <1>4, ProxyLater DEF Alive, Gone, Calm
<1>5. CASE ServerStep
  BY <1>5, ServerLater DEF Alive, Gone, Calm, ServerGoes
<1>6. CASE Environment
  <2>1. Alive' => Alive
    <3>1. CASE UNCHANGED pc
      BY <3>1 DEF Alive, Gone
    <3>2. CASE \E p \in Procs : Kill(p)
      BY <1>1, <3>2, KillDoes DEF Alive, Gone, ClientGoes, ProxyGoes, ServerGoes
    <3>3. QED BY <1>6, <3>1, <3>2 DEF Environment, DirChange, InputEnd,
                                      OthersFill, OthersDie
  <2>2. QED BY <1>1, <1>6, <2>1, EnvironmentLater DEF Calm
<1>7. QED BY <1>2, <1>3, <1>4, <1>5, <1>6 DEF Next, Environment

LEMMA OrderStep ==
  ASSUME BaseInv, [Next]_vars, Alive /\ "server" \notin uneven => OrderInv,
         Alive', "server" \notin uneven'
  PROVE  OrderInv'
<1>1. Alive /\ OrderInv
  BY StaysSo
<1>2. CASE UNCHANGED vars
  BY <1>1, <1>2, OrderQuiet DEF vars
<1>3. CASE Environment
  BY <1>1, <1>3, OrderQuiet, EnvironmentLater
<1>4. QED BY <1>1, <1>2, <1>3, ClientOrder, ProxyOrder, ServerOrder DEF Next, Environment

\* While the client lives, and the server reads every DOWNLOAD in one piece, the
\* server works on each command at most once.
THEOREM EachCommandOnce == Spec => []AtMostOnce
<1> DEFINE I == BaseInv /\ (Alive /\ "server" \notin uneven => OrderInv)
<1>1. Init => I
  BY Start DEF IInv
<1>2. I /\ [Next]_vars => I'
  BY BaseStep, OrderStep
<1>3. I => AtMostOnce
  <2>1. SUFFICES ASSUME I, Alive, "server" \notin uneven PROVE runs <= sent
    BY DEF AtMostOnce, Alive
  <2>2. runs <= buffer.of /\ buffer.of <= sent /\ runs \in Nat /\ sent \in Nat /\ buffer.of \in Nat
    BY <2>1, UnitTypes DEF BaseInv, Bounds, OrderInv, TypeOK
  <2>3. QED BY <2>2
<1>4. QED BY <1>1, <1>2, <1>3, PTL DEF Spec

-----------------------------------------------------------------------------
(* Third layer.                                                            *)

\* What its proofs use of the types.
LEMMA ServerTypes ==
  ASSUME BaseInv
  PROVE  /\ TypeOK /\ Len(s2p) \in Nat /\ Len(p2s) \in Nat /\ files \in Nat /\ sLeft \in Nat
         /\ pLeft \in Nat /\ Rem \in Nat /\ command \in Texts
         /\ pc["proxy"] \in Places /\ pc["server"] \in Places
<1>1. TypeOK /\ Len(s2p) \in Nat /\ Len(p2s) \in Nat /\ pc \in [Procs -> Places]
  BY StreamTypes DEF BaseInv
<1>2. files \in Nat /\ sLeft \in Nat /\ pLeft \in Nat /\ command \in Texts
  BY <1>1, BoundsAssumption DEF TypeOK
<1>3. Rem \in Nat
  BY <1>2 DEF Rem
<1>4. pc["proxy"] \in Places /\ pc["server"] \in Places
  BY <1>1 DEF Procs
<1>5. QED BY <1>1, <1>2, <1>3, <1>4

\* A proxy that no longer reads what the server writes.
LEMMA ProxyOut ==
  ASSUME pc'["proxy"] \notin {"hello", "command", "int", "names", "file", "garbled"}
  PROVE  ServerInv'
BY DEF ServerInv

LEMMA ServerQuiet ==
  ASSUME ServerInv, UNCHANGED <<s2p, p2s, command, buffer, sLeft, files, pLeft>>,
         pc'["proxy"] = pc["proxy"], pc'["server"] = pc["server"], uneven \subseteq uneven'
  PROVE  ServerInv'
<1>1. Rem' = Rem /\ (Gone("server")' <=> Gone("server")) /\ (Even' => Even)
  BY DEF Rem, Gone, Even
<1>2. \A k : NumberOf(k)' = NumberOf(k)
  BY DEF NumberOf
<1>3. Free' <=> Free
  BY <1>1 DEF Free
<1>4. Waiting' <=> Waiting
  BY <1>1, <1>3 DEF Waiting
<1>5. ASSUME NEW j, NEW m, Followed(j, m)
      PROVE  Followed(j, m)'
  <2>1. Serving(j, m) => Serving(j, m)'
    BY <1>1 DEF Serving
  <2>2. QED BY <1>1, <1>5, <2>1 DEF Followed, Following, NamesFrom, FileFrom
<1>6. Followed(2, files) => Followed(2, files)'
  BY <1>5
<1>7. Followed(1, pLeft) => Followed(1, pLeft)'
  BY <1>5
<1>8. Followed(1, 1) => Followed(1, 1)'
  BY <1>5
<1>9. QED BY <1>1, <1>2, <1>3, <1>4, <1>6, <1>7, <1>8 DEF ServerInv

\* The proxy passes a command on to a server that waits for one.
LEMMA PassedOnServer ==
  ASSUME BaseInv, ServerInv, pc["proxy"] = "command", NEW c \in Texts, c.kind \in Kinds,
         ProxyGoes({Onward(c), "dead"}), command' = c, uneven \subseteq uneven',
         p2s' \in Seq(Texts), Delivered("proxy", "server", p2s, p2s', c, Onward(c)),
         UNCHANGED <<serverVars, files, s2p>>
  PROVE  ServerInv'
<1>1. /\ Len(p2s) \in Nat /\ Len(s2p) = 0 /\ pc'["server"] = pc["server"]
      /\ pc'["proxy"] \in {Onward(c), "dead"}
      /\ Gone("server") \/ (Len(p2s) = 0 /\ Free)
  BY ServerTypes DEF ServerInv, ProxyGoes
<1>2. CASE pc'["proxy"] = "dead" \/ c.kind = "QUIT"
  BY <1>1, <1>2, ProxyOut DEF Onward
<1>3. CASE pc'["proxy"] # "dead" /\ c.kind # "QUIT"
  <2>1. pc'["proxy"] = "int" /\ c.kind \in Kinds \ {"QUIT"}
    BY <1>1, <1>3 DEF Onward
  <2>2. Gone("server") \/ (Len(p2s') = 1 /\ p2s'[1] = c)
    <3>1. SUFFICES ASSUME ~Gone("server") PROVE Len(p2s') = 1 /\ p2s'[1] = c
      OBVIOUS
    <3>2. Len(p2s) = 0 /\ Pushed(p2s, p2s', c)
      BY <1>1, <3>1 DEF Delivered
    <3>3. Len(p2s) + 1 = 1
      BY <3>2
    <3>4. QED BY <3>2, <3>3 DEF Pushed
  <2>3. (Gone("server")' <=> Gone("server")) /\ (Free' <=> Free)
    BY <1>1 DEF Gone, Free, Rem
  <2>4. Waiting'
    BY <1>1, <2>2, <2>3 DEF Waiting
  <2>5. QED BY <2>1, <2>4 DEF ServerInv
<1>4. QED BY <1>2, <1>3

LEMMA ProxyHelloServer ==
  ASSUME BaseInv, ServerInv, ProxyHello
  PROVE  ServerInv'
<1>1. /\ Len(p2s) = 0 /\ Len(s2p) = 0 /\ UNCHANGED <<serverVars, p2s, s2p>>
      /\ \/ pc'["proxy"] \in {"end", "dead"}
         \/ pc'["proxy"] = "command" /\ pc'["server"] = "queued"
  BY ServerTypes, ProxyHelloDoes DEF ServerInv
<1>2. CASE pc'["proxy"] \in {"end", "dead"}
  BY <1>2, ProxyOut
<1>3. CASE pc'["proxy"] = "command" /\ pc'["server"] = "queued"
  <2>1. Free'
    BY <1>3 DEF Free, Rem
  <2>2. QED BY <1>1, <1>3, <2>1 DEF ServerInv
<1>4. QED BY <1>1, <1>2, <1>3

LEMMA ProxyCommandServer ==
  ASSUME BaseInv, ServerInv, ProxyCommand \/ ProxyReplay
  PROVE  ServerInv'
<1>1. TypeOK /\ command \in Texts
  BY ServerTypes
<1>2. CASE ProxyCommand
  <2>1. /\ pc["proxy"] = "command" /\ c2p[1] \in Texts /\ c2p[1].kind \in Kinds
    BY <1>1, <1>2, ProxyCommandDoes, CommandKinds
  <2>2. /\ command' = c2p[1] /\ uneven \subseteq uneven'
        /\ ProxyGoes({Onward(c2p[1]), "dead"})
        /\ p2s' \in Seq(Texts)
        /\ Delivered("proxy", "server", p2s, p2s', c2p[1], Onward(c2p[1]))
        /\ UNCHANGED <<serverVars, files, s2p>>
    BY <1>1, <1>2, ProxyCommandDoes DEF ReadsText
  <2>3. QED BY <2>1, <2>2, PassedOnServer
<1>3. CASE ProxyReplay
  <2>1. /\ pc["proxy"] = "command" /\ command.kind \in Kinds
        /\ command' = command /\ uneven \subseteq uneven'
        /\ ProxyGoes({Onward(command), "dead"})
        /\ p2s' \in Seq(Texts)
        /\ Delivered("proxy", "server", p2s, p2s', command, Onward(command))
        /\ UNCHANGED <<serverVars, files, s2p>>
    BY <1>1, <1>3, ProxyReplayDoes
  <2>2. QED BY <1>1, <2>1, PassedOnServer
<1>4. QED BY <1>2, <1>3

\* The proxy is ready for the next command when nothing is left of the last one.
LEMMA BackAtCommand ==
  ASSUME pc'["proxy"] = "command", Len(s2p') = 0, pc'["server"] = pc["server"],
         UNCHANGED <<serverVars, files, p2s>>,
         Gone("server") \/ (Len(p2s) = 0 /\ Free)
  PROVE  ServerInv'
<1>1. (Gone("server")' <=> Gone("server")) /\ (Free' <=> Free)
  BY DEF Gone, Free, Rem
<1>2. QED BY <1>1 DEF ServerInv

LEMMA ProxyTailServer ==
  ASSUME BaseInv, ServerInv, ProxyTail \/ ProxyJunk
  PROVE  ServerInv'
<1>1. /\ pc["proxy"] = "command" /\ UNCHANGED <<serverVars, files, p2s, s2p>>
      /\ pc'["server"] = pc["server"] /\ pc'["proxy"] \in {"command", "spin", "dead"}
  BY ServerTypes, ProxyTailDoes, ProxyJunkDoes DEF ProxyGoes
<1>2. CASE pc'["proxy"] = "command"
  <2>1. Len(s2p) = 0 /\ (Gone("server") \/ (Len(p2s) = 0 /\ Free))
    BY <1>1 DEF ServerInv
  <2>2. QED BY <1>1, <1>2, <2>1, BackAtCommand
<1>3. CASE pc'["proxy"] # "command"
  BY <1>1, <1>3, ProxyOut
<1>4. QED BY <1>2, <1>3

\* What follows the number is read next.
LEMMA FollowedDropped ==
  ASSUME BaseInv, NEW j \in {1, 2}, NEW k \in 1..Len(s2p), NEW m \in Nat, j = 1 => k <= m,
         Dropped(s2p, s2p', k), Followed(j, m), pc'["server"] = pc["server"],
         j = 1 \/ k = 1, j = 1 => command.kind = "LIST",
         UNCHANGED <<command, serverVars, files, p2s>>, uneven \subseteq uneven',
         k > 1 => ~Even'
  PROVE  Followed(1, IF j = 1 THEN m - k ELSE m)'
<1> DEFINE n == IF j = 1 THEN m - k ELSE m
<1>1. /\ Len(s2p) \in Nat /\ Rem \in Nat /\ k \in Nat /\ n \in Nat
      /\ Len(s2p') = Len(s2p) - k /\ \A i \in 1..Len(s2p') : s2p'[i] = s2p[i + k]
  <2>1. Len(s2p) \in Nat /\ Rem \in Nat
    BY ServerTypes
  <2>2. k \in Nat /\ n \in Nat
    BY <2>1
  <2>3. QED BY <2>1, <2>2 DEF Dropped
<1>2. Rem' = Rem /\ (Gone("server")' <=> Gone("server")) /\ (Even' => Even /\ k = 1)
  BY <1>1 DEF Rem, Gone, Even
<1>3. ASSUME command.kind = "LIST"
      PROVE  /\ NamesFrom(s2p', 1, command.of) /\ Len(s2p') + Rem <= n
             /\ Even /\ k = 1 /\ Len(s2p) - (j - 1) + Rem = m => Len(s2p') + Rem = n
  <2>1. \A i \in 1..Len(s2p') : i + k \in j..Len(s2p)
    BY <1>1
  <2>2. NamesFrom(s2p', 1, command.of)
    BY <1>1, <1>3, <2>1 DEF Followed, Following, NamesFrom
  <2>3. Len(s2p) - (j - 1) + Rem <= m
    BY <1>3 DEF Followed
  <2>4. CASE j = 1
    BY <1>1, <2>2, <2>3, <2>4
  <2>5. CASE j = 2 /\ k = 1
    BY <1>1, <2>2, <2>3, <2>5
  <2>6. QED BY <2>4, <2>5
<1>4. ASSUME command.kind # "LIST"
      PROVE  j = 2 /\ k = 1 /\ Len(s2p') = Len(s2p) - 1
  BY <1>1, <1>4
<1>5. ASSUME command.kind \in {"TCP", "WHOLE"}
      PROVE  FileFrom(s2p', 1, command.of) /\ (Len(s2p') >= 1 => s2p'[1] = s2p[2])
  <2>1. FileFrom(s2p, 2, command.of) /\ j = 2 /\ k = 1 /\ Len(s2p') = Len(s2p) - 1
    BY <1>4, <1>5 DEF Followed, Following
  <2>2. Len(s2p') >= 1 => s2p'[1] = s2p[2]
    BY <1>1, <2>1
  <2>3. QED BY <1>1, <2>1, <2>2 DEF FileFrom
<1>6. Following(s2p', 1, command.kind, command.of)
  <2>1. command.kind \notin {"LIST", "TCP", "WHOLE"} => Len(s2p') < 1
    BY <1>1, <1>4 DEF Followed, Following
  <2>2. QED BY <1>3, <1>5, <2>1 DEF Following
<1> HIDE DEF n
<1>7. ASSUME ~Gone("server")
      PROVE  Len(p2s') = 0 /\ buffer' = command' /\ Serving(1, n)'
  <2>1. Len(p2s) = 0 /\ buffer = command /\ Serving(j, m)
    BY <1>7 DEF Followed
  <2>2. ASSUME command.kind = "LIST"
        PROVE  pc'["server"] \in {"list", "names", "command"} /\ (Even' => Len(s2p') + Rem' = n)
    BY <1>2, <1>3, <2>1, <2>2 DEF Serving
  <2>3. ASSUME command.kind \in {"TCP", "WHOLE"}
        PROVE  IF Len(s2p') < 1 THEN pc'["server"] = "file"
               ELSE s2p'[1].what \in FileUnits /\ pc'["server"] \in {"command", "spin"}
    BY <1>1, <1>4, <1>5, <2>1, <2>3 DEF Serving
  <2>4. /\ command'.kind = "NONE" => pc'["server"] = "command"
        /\ command'.kind = "UDPNOR" => pc'["server"] = "udp"
        /\ command'.kind # "UDPENC"
    BY <2>1 DEF Serving
  <2>5. Len(s2p') - (1 - 1) + Rem' = Len(s2p') + Rem'
    BY <1>1, <1>2
  <2>6. Serving(1, n)'
    BY <2>2, <2>3, <2>4, <2>5 DEF Serving
  <2>7. QED BY <2>1, <2>6
<1>8. command.kind = "LIST" => Len(s2p') - (1 - 1) + Rem' <= n
  BY <1>1, <1>2, <1>3 DEF n
<1>9. Followed(1, n)'
  BY <1>2, <1>6, <1>7, <1>8 DEF Followed
<1>10. QED BY <1>9 DEF n

LEMMA ProxyIntServer ==
  ASSUME BaseInv, ServerInv, ProxyInt
  PROVE  ServerInv'
<1>1. /\ TypeOK /\ Len(s2p) \in Nat /\ Len(p2s) \in Nat /\ files \in Nat /\ Rem \in Nat
      /\ pc["proxy"] = "int" /\ command.kind \in Kinds \ {"QUIT"}
      /\ pc'["server"] = pc["server"] /\ UNCHANGED <<command, serverVars, files, p2s, uneven>>
  BY ServerTypes, ProxyIntDoes DEF ServerInv
<1>2. CASE pc'["proxy"] = "dead"
  BY <1>2, ProxyOut
<1>3. ASSUME pc'["proxy"] # "dead", Len(s2p) > 0
      PROVE  ServerInv'
  <2> DEFINE v == s2p[1].val
  <2>1. /\ s2p[1].what = "int" /\ v = NumberOf(command.kind) /\ Followed(2, files)
    BY <1>1, <1>3 DEF ServerInv, Waiting
  <2>2. /\ Dropped(s2p, s2p', 1) /\ pLeft' = v /\ pc'["proxy"] = AfterRelay(v)
    BY <1>1, <1>3, <2>1, ProxyIntDoes
  <2> HIDE DEF v
  <2>3. Followed(1, files)'
    <3>1. 1 \in 1..Len(s2p) /\ 2 \in {1, 2}
      BY <1>1, <1>3
    <3>2. Followed(1, IF 2 = 1 THEN files - 1 ELSE files)'
      BY <1>1, <2>1, <2>2, <3>1, FollowedDropped
    <3>3. QED BY <3>2
  <2>4. v # 0 /\ command.kind = "LIST" => v = files
    BY <2>1 DEF NumberOf
  <2>5. CASE v # 0 /\ command.kind = "LIST"
    <3>1. pc'["proxy"] = "names" /\ pLeft' = files' /\ files' \in 1..files'
      BY <1>1, <2>2, <2>4, <2>5 DEF AfterRelay
    <3>2. Followed(1, pLeft)'
      BY <2>3, <3>1
    <3>3. QED BY <1>1, <2>5, <3>1, <3>2 DEF ServerInv
  <2>6. CASE v # 0 /\ command.kind \in {"TCP", "WHOLE"}
    <3>1. pc'["proxy"] = "file"
      BY <2>2, <2>6 DEF AfterRelay
    <3>2. Followed(1, 1)'
      BY <1>1, <2>3, <2>6 DEF Followed, Serving
    <3>3. QED BY <1>1, <2>6, <3>1, <3>2 DEF ServerInv
  <2>7. CASE v = 0 \/ command.kind \notin {"LIST", "TCP", "WHOLE"}
    <3>1. pc'["proxy"] = "command" /\ command.kind \notin {"TCP", "WHOLE"}
      BY <1>1, <2>1, <2>2, <2>7 DEF AfterRelay, NumberOf
    <3>2. CASE command.kind = "LIST"
      <4>1. files = 0 /\ Len(s2p) - (2 - 1) + Rem <= files
        BY <2>1, <2>7, <3>2 DEF NumberOf, Followed
      <4>2. Len(s2p) = 1 /\ Rem = 0
        <5>1. \A a, b \in Nat : a > 0 /\ a - (2 - 1) + b <= 0 => a = 1 /\ b = 0
          OBVIOUS
        <5>2. QED BY <1>1, <1>3, <4>1, <5>1
      <4>3. Gone("server") \/ (Len(p2s) = 0 /\ Free)
        BY <2>1, <3>2, <4>2 DEF Followed, Serving, Free
      <4>4. Len(s2p') = 0
        BY <2>2, <4>2 DEF Dropped
      <4>5. QED BY <1>1, <3>1, <4>3, <4>4, BackAtCommand
    <3>3. CASE command.kind # "LIST"
      <4>1. Len(s2p) < 2
        BY <2>1, <3>1, <3>3 DEF Followed, Following
      <4>2. Gone("server") \/ (Len(p2s) = 0 /\ Serving(2, files))
        BY <2>1 DEF Followed
      <4>3. command.kind \in {"NONE", "UDPNOR", "UDPENC"}
        BY <1>1, <3>1, <3>3 DEF Kinds, Downloads
      <4>4. Gone("server") \/ (Len(p2s) = 0 /\ Free)
        BY <4>2, <4>3 DEF Serving, Free, Rem
      <4>5. Len(s2p') = 0
        BY <1>1, <1>3, <2>2, <4>1 DEF Dropped
      <4>6. QED BY <1>1, <3>1, <4>4, <4>5, BackAtCommand
    <3>4. QED BY <3>2, <3>3
  <2>8. QED BY <2>5, <2>6, <2>7
<1>4. ASSUME pc'["proxy"] # "dead", Len(s2p) = 0
      PROVE  ServerInv'
  <2>1. Gone("server") /\ pc'["proxy"] = "command" /\ s2p' = s2p
    BY <1>1, <1>4, ProxyIntDoes
  <2>2. QED BY <1>1, <1>4, <2>1, BackAtCommand
<1>5. QED BY <1>1, <1>2, <1>3, <1>4

LEMMA ProxyNameServer ==
  ASSUME BaseInv, ServerInv, ProxyName
  PROVE  ServerInv'
<1>1. /\ TypeOK /\ Len(s2p) \in Nat /\ Len(p2s) \in Nat /\ files \in Nat /\ Rem \in Nat
      /\ pLeft \in 1..files /\ command.kind = "LIST" /\ Followed(1, pLeft)
      /\ pc'["server"] = pc["server"] /\ UNCHANGED <<command, serverVars, files, p2s>>
      /\ pLeft' = pLeft - 1 /\ uneven \subseteq uneven'
      /\ pc'["proxy"] \in {IF pLeft = 1 THEN "command" ELSE "names", "dead"}
  BY ServerTypes, ProxyNameDoes DEF ServerInv, ProxyGoes
<1>2. Len(s2p) + Rem <= pLeft
  BY <1>1 DEF Followed
<1>3. CASE pc'["proxy"] = "dead"
  BY <1>3, ProxyOut
<1>4. ASSUME pc'["proxy"] # "dead", NEW k \in 1..Len(s2p), Dropped(s2p, s2p', k),
             uneven' = IF k > 1 THEN uneven \cup {"glued"} ELSE uneven
      PROVE  ServerInv'
  <2>1. k <= pLeft
    BY <1>1, <1>2
  <2>2. CASE pLeft = 1
    <3>1. k = 1 /\ Len(s2p) = 1 /\ Rem = 0
      <4>1. \A a, b \in Nat : \A i \in 1..a : a + b <= 1 => i = 1 /\ a = 1 /\ b = 0
        OBVIOUS
      <4>2. QED BY <1>1, <1>2, <2>2, <4>1
    <3>2. Gone("server") \/ (Len(p2s) = 0 /\ Free)
      BY <1>1, <3>1 DEF Followed, Serving, Free
    <3>3. Len(s2p') = 0
      BY <1>4, <3>1 DEF Dropped
    <3>4. QED BY <1>1, <1>4, <2>2, <3>2, <3>3, BackAtCommand
  <2>3. CASE pLeft # 1
    <3>1. pc'["proxy"] = "names" /\ pLeft' \in 1..files
      BY <1>1, <1>4, <2>3
    <3>2. k > 1 => ~Even'
      BY <1>4 DEF Even
    <3>3. PICK m \in Nat : m = pLeft
      BY <1>1
    <3>4. m - k = pLeft' \/ (k > 1 /\ m - k <= pLeft')
      BY <1>1, <3>3
    <3>5. Followed(1, m - k)'
      <4>1. 1 \in {1, 2} /\ k <= m /\ Followed(1, m)
        BY <1>1, <2>1, <3>3
      <4>2. Followed(1, IF 1 = 1 THEN m - k ELSE m)'
        BY <1>1, <1>4, <3>2, <4>1, FollowedDropped
      <4>3. QED BY <4>2
    <3>6. Followed(1, pLeft)'
      <4>1. Len(s2p') \in Nat /\ Rem' \in Nat /\ m - k \in Int /\ pLeft' \in Int
        BY <1>1, <1>4, <3>3 DEF Dropped, Rem
      <4>2. CASE m - k = pLeft'
        BY <3>5, <4>2
      <4>3. CASE k > 1 /\ m - k <= pLeft'
        <5>1. Serving(1, m - k)' => Serving(1, pLeft)'
          BY <1>1, <3>2, <4>3 DEF Serving
        <5>2. \A a, b \in Nat : \A c, d \in Int :
                a - (1 - 1) + b <= c /\ c <= d => a - (1 - 1) + b <= d
          OBVIOUS
        <5>3. Len(s2p') - (1 - 1) + Rem' <= pLeft'
          BY <1>1, <3>5, <4>1, <4>3, <5>2 DEF Followed
        <5>4. QED BY <3>5, <5>1, <5>3 DEF Followed
      <4>4. QED BY <3>4, <4>2, <4>3
    <3>7. QED BY <1>1, <3>1, <3>6 DEF ServerInv
  <2>4. QED BY <2>2, <2>3
<1>5. ASSUME pc'["proxy"] # "dead", Len(s2p) = 0, Gone("server"), s2p' = s2p, uneven' = uneven
      PROVE  ServerInv'
  <2>1. CASE pLeft = 1
    BY <1>1, <1>5, <2>1, BackAtCommand
  <2>2. CASE pLeft # 1
    <3>1. pc'["proxy"] = "names" /\ pLeft' \in 1..files
      BY <1>1, <1>5, <2>2
    <3>2. Gone("server")' /\ Rem' = 0
      BY <1>1, <1>5 DEF Gone, Rem
    <3>3. Followed(1, pLeft)'
      BY <1>1, <1>5, <3>1, <3>2 DEF Followed, Following, NamesFrom
    <3>4. QED BY <1>1, <3>1, <3>3 DEF ServerInv
  <2>3. QED BY <2>1, <2>2
<1>6. QED BY <1>1, <1>3, <1>4, <1>5, ProxyNameDoes

LEMMA ProxyFileServer ==
  ASSUME BaseInv, ServerInv, ProxyFile, "short" \notin uneven'
  PROVE  ServerInv'
<1>1. /\ TypeOK /\ Len(s2p) \in Nat /\ Len(p2s) \in Nat
      /\ command.kind \in {"TCP", "WHOLE"} /\ Followed(1, 1)
      /\ pc'["server"] = pc["server"] /\ UNCHANGED <<serverVars, files, p2s>>
      /\ pc'["proxy"] \in {"command", "dead"}
  BY ServerTypes, ProxyFileDoes DEF ServerInv, ProxyGoes
<1>2. CASE pc'["proxy"] = "dead"
  BY <1>2, ProxyOut
<1>3. ASSUME pc'["proxy"] = "command", Len(s2p) > 0, Dropped(s2p, s2p', 1)
      PROVE  ServerInv'
  <2>1. Len(s2p) <= 1
    BY <1>1 DEF Followed, Following, FileFrom
  <2>2. Len(s2p') = 0 /\ ~(Len(s2p) < 1)
    BY <1>1, <1>3, <2>1 DEF Dropped
  <2>3. Gone("server") \/ (Len(p2s) = 0 /\ Free)
    BY <1>1, <2>2 DEF Followed, Serving, Free, Rem
  <2>4. QED BY <1>1, <1>3, <2>2, <2>3, BackAtCommand
<1>4. ASSUME pc'["proxy"] = "command", Len(s2p) = 0, Gone("server"), s2p' = s2p
      PROVE  ServerInv'
  BY <1>1, <1>4, BackAtCommand
<1>5. QED BY <1>1, <1>2, <1>3, <1>4, ProxyFileDoes

\* Where the server can be while it answers.
LEMMA ServingAt ==
  ASSUME NEW j, NEW m, command.kind \in Kinds \ {"QUIT"}, Followed(j, m), ~Gone("server")
  PROVE  \/ command.kind = "LIST" /\ pc["server"] \in {"list", "names", "command"}
         \/ command.kind \in {"TCP", "WHOLE"} /\ pc["server"] \in {"file", "command", "spin"}
         \/ command.kind = "NONE" /\ pc["server"] = "command"
         \/ command.kind = "UDPNOR" /\ pc["server"] = "udp"
BY DEF Followed, Serving, Kinds, Downloads

\* When the server moves without writing, names it owes apart.
LEMMA FollowedMoved ==
  ASSUME NEW j \in {1, 2}, NEW m, Followed(j, m), Rem' = Rem, ~Gone("server"), pc'["server"] \in Places,
         \/ pc["server"] = "list" /\ pc'["server"] = "names"
         \/ pc["server"] = "names" /\ pc'["server"] = "command",
         command.kind \in Kinds \ {"QUIT"}, UNCHANGED <<command, buffer, p2s, s2p, uneven>>
  PROVE  Followed(j, m)'
<1>1. command.kind = "LIST" /\ Serving(j, m) /\ Len(p2s) = 0 /\ buffer = command
  BY ServingAt DEF Followed
<1>2. Serving(j, m)'
  BY <1>1 DEF Serving, Even
<1>3. QED BY <1>1, <1>2 DEF Followed, Following, NamesFrom

\* The server ends.
LEMMA FollowedGone ==
  ASSUME BaseInv, NEW j \in {1, 2}, NEW m \in Nat, Followed(j, m), pc'["server"] = "dead",
         UNCHANGED <<command, s2p>>
  PROVE  Followed(j, m)'
<1>1. Gone("server")' /\ Rem' = 0 /\ Rem \in Nat /\ Len(s2p) \in Nat /\ j \in Nat
  BY ServerTypes DEF Gone, Rem
<1>2. command.kind = "LIST" => Len(s2p') - (j - 1) + Rem' <= m
  <2>1. SUFFICES ASSUME command.kind = "LIST" PROVE Len(s2p) - (j - 1) + 0 <= m
    BY <1>1
  <2>2. Len(s2p) - (j - 1) + Rem <= m
    BY <2>1 DEF Followed
  <2>3. QED BY <1>1, <2>2
<1>3. Following(s2p', j, command'.kind, command'.of)
  BY DEF Followed, Following, NamesFrom, FileFrom
<1>4. QED BY <1>1, <1>2, <1>3 DEF Followed

\* The server ends between two writes, killed or not.
LEMMA ServerEnds ==
  ASSUME BaseInv, ServerInv, pc'["proxy"] = pc["proxy"], pc'["server"] = "dead",
         pc["server"] \notin {"off", "end", "dead"},
         UNCHANGED <<command, pLeft, files, s2p>>
  PROVE  ServerInv'
<1>1. Gone("server")' /\ files \in Nat /\ (Waiting => Waiting')
  BY ServerTypes DEF Gone, Waiting
<1>2. /\ Followed(2, files) => Followed(2, files)'
      /\ Followed(1, 1) => Followed(1, 1)'
  BY <1>1, FollowedGone
<1>3. pc["proxy"] = "names" => Followed(1, pLeft)'
  <2>1. SUFFICES ASSUME pc["proxy"] = "names" PROVE Followed(1, pLeft)'
    OBVIOUS
  <2>2. PICK m \in Nat : m = pLeft
    BY ServerTypes
  <2>3. Followed(1, m)'
    BY <2>1, <2>2, FollowedGone DEF ServerInv
  <2>4. QED BY <2>2, <2>3
<1>4. \A k : NumberOf(k)' = NumberOf(k)
  BY DEF NumberOf
<1>5. QED BY <1>1, <1>2, <1>3, <1>4 DEF ServerInv

LEMMA ServerMovesServer ==
  ASSUME BaseInv, ServerInv, ServerAccept \/ ServerEOF \/ ServerListDone \/ ServerUDP \/ ServerSecondPass
  PROVE  ServerInv'
<1>1. /\ TypeOK /\ files \in Nat
      /\ UNCHANGED <<proxyVars, buffer, files, uneven, p2s, s2p>>
      /\ ServerGoes(Places) /\ pc'["proxy"] = pc["proxy"]
  BY ServerTypes, ServerMovesDoes, ServerSecondPassDoes, ServerLater DEF ServerStep, ServerGoes
<1>2. \A k : NumberOf(k)' = NumberOf(k)
  BY <1>1 DEF NumberOf
<1>3. CASE pc["server"] = "command" /\ Gone("proxy")
  BY <1>1, <1>3, ProxyOut DEF Gone
<1>4. CASE pc["server"] = "udp" /\ pc'["server"] = "dead"
  BY <1>1, <1>4, ServerEnds
<1>5. CASE pc["server"] = "queued" /\ pc'["server"] = "command"
  <2>1. ~Gone("server") /\ Free' /\ pc["proxy"] # "hello"
    BY <1>5 DEF Gone, Free, Rem, ServerInv
  <2>2. command.kind \in Kinds \ {"QUIT"} => ~Followed(2, files) /\ ~Followed(1, pLeft) /\ ~Followed(1, 1)
    BY <1>5, <2>1, ServingAt
  <2>3. pc["proxy"] \in {"int", "names", "file"} => command.kind \in Kinds \ {"QUIT"}
    BY DEF ServerInv, Kinds, Downloads
  <2>4. pc["proxy"] = "int" => Waiting /\ Waiting'
    BY <1>1, <1>5, <2>1, <2>2, <2>3 DEF ServerInv, Waiting
  <2>5. QED BY <1>1, <2>1, <2>2, <2>3, <2>4 DEF ServerInv
<1>6. CASE \/ pc["server"] = "names" /\ sLeft = 0 /\ pc'["server"] = "command"
           \/ pc["server"] = "list" /\ sLeft' = files /\ pc'["server"] = "names"
  <2>1. /\ ~Gone("server") /\ Rem' = Rem /\ (Free' <=> Free) /\ pc["proxy"] # "hello"
        /\ pc'["server"] \in Places
    BY <1>1, <1>6 DEF Gone, Free, Rem, ServerInv, Places
  <2>2. pc["proxy"] \in {"int", "names", "file"} => command.kind \in Kinds \ {"QUIT"}
    BY DEF ServerInv, Kinds, Downloads
  <2>3. \A j \in {1, 2} : \A m \in Nat :
          command.kind \in Kinds \ {"QUIT"} /\ Followed(j, m) => Followed(j, m)'
    BY <1>1, <1>6, <2>1, FollowedMoved
  <2>4. Waiting => Waiting'
    BY <1>1, <1>6, <2>1 DEF Waiting
  <2>5. /\ pc["proxy"] = "int" /\ Followed(2, files) => Followed(2, files)'
        /\ pc["proxy"] = "names" => Followed(1, pLeft)'
        /\ pc["proxy"] = "file" => Followed(1, 1)'
    <3>1. ASSUME pc["proxy"] = "int", Followed(2, files) PROVE Followed(2, files)'
      <4>1. PICK m \in Nat : m = files
        BY <1>1
      <4>2. Followed(2, m)'
        BY <2>2, <2>3, <3>1, <4>1
      <4>3. QED BY <1>1, <4>1, <4>2
    <3>2. ASSUME pc["proxy"] = "names" PROVE Followed(1, pLeft)'
      <4>1. PICK m \in Nat : m = pLeft
        BY ServerTypes
      <4>2. Followed(1, m)'
        BY <2>2, <2>3, <3>2, <4>1 DEF ServerInv
      <4>3. QED BY <1>1, <4>1, <4>2
    <3>3. ASSUME pc["proxy"] = "file" PROVE Followed(1, 1)'
      BY <2>2, <2>3, <3>3 DEF ServerInv
    <3>4. QED BY <3>1, <3>2, <3>3
  <2>6. QED BY <1>1, <1>2, <2>1, <2>4, <2>5 DEF ServerInv
<1>7. QED
  BY <1>1, <1>3, <1>4, <1>5, <1>6, ServerMovesDoes, ServerSecondPassDoes DEF ServerGoes

\* A name is written behind the others.
LEMMA FollowedByName ==
  ASSUME BaseInv, NEW j \in {1, 2}, NEW m \in Nat, Followed(j, m), ~Gone("server"),
         command.kind \in Kinds \ {"QUIT"}, pc["server"] = "names", pc'["server"] = "names",
         sLeft > 0, sLeft' = sLeft - 1, Len(s2p) >= j - 1,
         Pushed(s2p, s2p', [what |-> "name", val |-> 0, of |-> buffer.of]),
         UNCHANGED <<command, buffer, p2s, uneven>>
  PROVE  Followed(j, m)'
<1>1. /\ Len(s2p) \in Nat /\ sLeft \in Nat /\ Len(s2p') = Len(s2p) + 1
      /\ s2p'[Len(s2p) + 1] = [what |-> "name", val |-> 0, of |-> buffer.of]
      /\ \A i \in 1..Len(s2p) : s2p'[i] = s2p[i]
  BY ServerTypes DEF Pushed
<1>2. command.kind = "LIST" /\ Serving(j, m) /\ Len(p2s) = 0 /\ buffer = command
  BY ServingAt DEF Followed
<1>3. Rem = sLeft /\ Rem' = sLeft - 1 /\ (Even' <=> Even)
  BY DEF Rem, Even
<1>4. Len(s2p') - (j - 1) + Rem' = Len(s2p) - (j - 1) + Rem
  BY <1>1, <1>3
<1>5. Serving(j, m)'
  BY <1>2, <1>3, <1>4 DEF Serving
<1>6. NamesFrom(s2p', j, command.of)
  <2>1. SUFFICES ASSUME NEW i \in j..Len(s2p')
                 PROVE  s2p'[i].what = "name" /\ s2p'[i].of = command.of
    BY DEF NamesFrom
  <2>2. CASE i = Len(s2p) + 1
    BY <1>1, <1>2, <2>2
  <2>3. CASE i # Len(s2p) + 1
    <3>1. i \in j..Len(s2p) /\ i \in 1..Len(s2p)
      BY <1>1, <2>3
    <3>2. NamesFrom(s2p, j, command.of)
      BY <1>2 DEF Followed, Following
    <3>3. QED BY <1>1, <3>1, <3>2 DEF NamesFrom
  <2>4. QED BY <2>2, <2>3
<1>7. command.kind = "LIST" => Len(s2p') - (j - 1) + Rem' <= m
  BY <1>4 DEF Followed
<1>8. QED BY <1>2, <1>5, <1>6, <1>7 DEF Followed, Following

\* A file, or what is left of it when the server dies, follows its number.
LEMMA FollowedByFile ==
  ASSUME BaseInv, NEW j \in {1, 2}, NEW m \in Nat, NEW x, Followed(j, m), ~Gone("server"),
         command.kind \in Kinds \ {"QUIT"}, pc["server"] = "file", Len(s2p) >= j - 1,
         Pushed(s2p, s2p', x), x.of = buffer.of,
         \/ x.what \in FileUnits /\ pc'["server"] \in {"command", "spin"}
         \/ x.what = "part" /\ pc'["server"] = "dead",
         UNCHANGED <<command, buffer, p2s>>
  PROVE  Followed(j, m)'
<1>1. /\ Len(s2p) \in Nat /\ Len(s2p') = Len(s2p) + 1 /\ s2p'[Len(s2p) + 1] = x
  BY ServerTypes DEF Pushed
<1>2. command.kind \in {"TCP", "WHOLE"} /\ Serving(j, m) /\ Len(p2s) = 0 /\ buffer = command
  BY ServingAt DEF Followed
<1>3. Len(s2p) + 1 = j
  BY <1>1, <1>2 DEF Serving
<1>4. Len(s2p') = j /\ s2p'[j] = x
  BY <1>1, <1>3
<1>5. Following(s2p', j, command.kind, command.of)
  BY <1>1, <1>2, <1>4 DEF Following, FileFrom, FileUnits, FileParts
<1>6. Gone("server")' \/ Serving(j, m)'
  BY <1>1, <1>2, <1>4 DEF Serving, Gone
<1>7. QED BY <1>2, <1>5, <1>6 DEF Followed

\* Nobody writes to a proxy that has not asked.
LEMMA OnlyAsked ==
  ASSUME BaseInv, ServerInv, pc["server"] \in {"names", "file"}, Rem > 0 \/ pc["server"] = "file",
         pc["proxy"] \in {"hello", "command", "int", "names", "file"}
  PROVE  /\ command.kind \in Kinds \ {"QUIT"} /\ Len(s2p) \in Nat
         /\ \/ pc["proxy"] = "int" /\ Followed(2, files) /\ Len(s2p) > 0
               /\ s2p[1].what = "int" /\ s2p[1].of = command.of /\ s2p[1].val = NumberOf(command.kind)
            \/ pc["proxy"] = "names" /\ Followed(1, pLeft)
            \/ pc["proxy"] = "file" /\ Followed(1, 1)
<1>1. ~Gone("server") /\ ~Free /\ Rem \in Nat /\ Len(s2p) \in Nat
  BY ServerTypes DEF Gone, Free
<1>2. pc["proxy"] \notin {"hello", "command"} /\ (pc["proxy"] = "int" => ~Waiting)
  BY <1>1 DEF ServerInv, Waiting
<1>3. command.kind \in Kinds \ {"QUIT"}
        \/ pc["proxy"] \notin {"int", "names", "file"}
  BY DEF ServerInv, Kinds, Downloads
<1>4. pc["proxy"] \in {"int", "names", "file"}
  BY <1>2
<1>5. QED BY <1>1, <1>2, <1>3, <1>4 DEF ServerInv

LEMMA ServerWritesServer ==
  ASSUME BaseInv, ServerInv, ServerName \/ ServerFile
  PROVE  ServerInv'
<1> DEFINE x == IF pc["server"] = "names" THEN [what |-> "name", val |-> 0, of |-> buffer.of]
                ELSE FileOf(buffer)
<1>1. /\ TypeOK /\ files \in Nat
      /\ UNCHANGED <<proxyVars, buffer, files, uneven, p2s>>
      /\ pc'["proxy"] = pc["proxy"] /\ ~Gone("server")
  BY ServerTypes, ServerNameDoes, ServerFileDoes DEF ServerGoes, Gone
<1>2. CASE pc["proxy"] \notin {"hello", "command", "int", "names", "file", "garbled"}
  BY <1>1, <1>2, ProxyOut
<1>3. CASE pc["proxy"] \in {"hello", "command", "int", "names", "file"}
  <2>1. /\ Pushed(s2p, s2p', x)
        /\ \/ pc["server"] = "names" /\ pc'["server"] = "names" /\ sLeft > 0 /\ sLeft' = sLeft - 1
           \/ pc["server"] = "file" /\ pc'["server"] \in {"command", "spin"}
    BY <1>1, <1>3, ServerNameDoes, ServerFileDoes DEF Delivered, Gone
  <2>2. /\ x.of = buffer.of
        /\ pc["server"] = "names" => x = [what |-> "name", val |-> 0, of |-> buffer.of]
        /\ pc["server"] = "file" => x.what \in FileUnits
    BY <2>1 DEF FileOf, FileUnits
  <2> HIDE DEF x
  <2>3. pc["server"] \in {"names", "file"} /\ (Rem > 0 \/ pc["server"] = "file")
    BY <2>1 DEF Rem
  <2>4. /\ command.kind \in Kinds \ {"QUIT"} /\ Len(s2p) \in Nat
        /\ \/ pc["proxy"] = "int" /\ Followed(2, files) /\ Len(s2p) > 0
              /\ s2p[1].what = "int" /\ s2p[1].of = command.of /\ s2p[1].val = NumberOf(command.kind)
           \/ pc["proxy"] = "names" /\ Followed(1, pLeft)
           \/ pc["proxy"] = "file" /\ Followed(1, 1)
    BY <1>3, <2>3, OnlyAsked
  <2>5. ASSUME NEW j \in {1, 2}, NEW m \in Nat, Followed(j, m), Len(s2p) >= j - 1
        PROVE  Followed(j, m)'
    <3>1. CASE pc["server"] = "names" /\ pc'["server"] = "names" /\ sLeft > 0 /\ sLeft' = sLeft - 1
      BY <1>1, <2>1, <2>2, <2>4, <2>5, <3>1, FollowedByName
    <3>2. CASE pc["server"] = "file" /\ pc'["server"] \in {"command", "spin"}
      BY <1>1, <2>1, <2>2, <2>4, <2>5, <3>2, FollowedByFile
    <3>3. QED BY <2>1, <3>1, <3>2
  <2>6. \A k : NumberOf(k)' = NumberOf(k)
    BY <1>1 DEF NumberOf
  <2>7. Len(s2p') \in Nat /\ Len(s2p') > 0 /\ (Len(s2p) > 0 => s2p'[1] = s2p[1])
    BY <2>1, <2>4 DEF Pushed
  <2>8. CASE pc["proxy"] = "int"
    <3>1. PICK m \in Nat : m = files
      BY <1>1
    <3>2. Followed(2, m)'
      BY <2>4, <2>5, <2>8, <3>1
    <3>3. Followed(2, files)'
      BY <1>1, <3>1, <3>2
    <3>4. QED BY <1>1, <2>4, <2>6, <2>7, <2>8, <3>3 DEF ServerInv
  <2>9. CASE pc["proxy"] = "names"
    <3>1. PICK m \in Nat : m = pLeft
      BY ServerTypes
    <3>2. Followed(1, m)'
      BY <2>4, <2>5, <2>9, <3>1
    <3>3. Followed(1, pLeft)'
      BY <1>1, <3>1, <3>2
    <3>4. QED BY <1>1, <2>9, <3>3 DEF ServerInv
  <2>10. CASE pc["proxy"] = "file"
    <3>1. Followed(1, 1)'
      BY <2>4, <2>5, <2>10
    <3>2. QED BY <1>1, <2>10, <3>1 DEF ServerInv
  <2>11. QED BY <2>4, <2>8, <2>9, <2>10
<1>4. QED BY <1>2, <1>3 DEF ServerInv

\* A killed server may leave a part of a file.
LEMMA KillServer ==
  ASSUME BaseInv, ServerInv, NEW p \in Procs, Kill(p)
  PROVE  ServerInv'
<1>1. /\ TypeOK /\ files \in Nat
      /\ UNCHANGED <<proxyVars, serverVars, envVars, uneven, p2s>>
  BY ServerTypes, KillDoes
<1>2. CASE p = "client"
  BY <1>1, <1>2, KillDoes, ServerQuiet DEF ClientGoes
<1>3. CASE p = "proxy"
  BY <1>1, <1>3, KillDoes, ProxyOut DEF ProxyGoes
<1>4. ASSUME p = "server" PROVE ServerInv'
  <2> DEFINE x == [what |-> "part", val |-> 0, of |-> buffer.of]
  <2>1. /\ pc'["proxy"] = pc["proxy"] /\ pc'["server"] = "dead"
        /\ pc["server"] \notin {"off", "end", "dead"}
        /\ \/ s2p' = s2p
           \/ pc["server"] = "file" /\ Pushed(s2p, s2p', x)
    BY <1>1, <1>4, KillDoes DEF ServerGoes
  <2>2. CASE s2p' = s2p
    BY <1>1, <2>1, <2>2, ServerEnds
  <2>3. CASE pc["proxy"] \notin {"hello", "command", "int", "names", "file", "garbled"}
    BY <2>1, <2>3, ProxyOut
  <2>4. CASE /\ pc["server"] = "file" /\ Pushed(s2p, s2p', x)
             /\ pc["proxy"] \in {"hello", "command", "int", "names", "file"}
    <3>1. x.of = buffer.of /\ x.what = "part"
      OBVIOUS
    <3> HIDE DEF x
    <3>2. /\ command.kind \in Kinds \ {"QUIT"} /\ Len(s2p) \in Nat
          /\ \/ pc["proxy"] = "int" /\ Followed(2, files) /\ Len(s2p) > 0
                /\ s2p[1].what = "int" /\ s2p[1].of = command.of /\ s2p[1].val = NumberOf(command.kind)
             \/ pc["proxy"] = "names" /\ Followed(1, pLeft)
             \/ pc["proxy"] = "file" /\ Followed(1, 1)
      BY <2>4, OnlyAsked
    <3>3. ASSUME NEW j \in {1, 2}, NEW m \in Nat, Followed(j, m), Len(s2p) >= j - 1
          PROVE  Followed(j, m)'
      <4>1. ~Gone("server")
        BY <2>4 DEF Gone
      <4>2. QED BY <1>1, <2>1, <2>4, <3>1, <3>2, <3>3, <4>1, FollowedByFile
    <3>4. \A k : NumberOf(k)' = NumberOf(k)
      BY <1>1 DEF NumberOf
    <3>5. Len(s2p') \in Nat /\ Len(s2p') > 0 /\ (Len(s2p) > 0 => s2p'[1] = s2p[1])
      BY <2>4, <3>2 DEF Pushed
    <3>6. CASE pc["proxy"] = "int"
      <4>1. PICK m \in Nat : m = files
        BY <1>1
      <4>2. Followed(2, m)'
        BY <3>2, <3>3, <3>6, <4>1
      <4>3. Followed(2, files)'
        BY <1>1, <4>1, <4>2
      <4>4. QED BY <1>1, <2>1, <3>2, <3>4, <3>5, <3>6, <4>3 DEF ServerInv
    <3>7. CASE pc["proxy"] = "names"
      <4>1. PICK m \in Nat : m = pLeft
        BY ServerTypes
      <4>2. Followed(1, m)'
        BY <3>2, <3>3, <3>7, <4>1
      <4>3. Followed(1, pLeft)'
        BY <1>1, <4>1, <4>2
      <4>4. QED BY <1>1, <2>1, <3>7, <4>3 DEF ServerInv
    <3>8. CASE pc["proxy"] = "file"
      <4>1. Followed(1, 1)'
        BY <3>2, <3>3, <3>8
      <4>2. QED BY <1>1, <2>1, <3>8, <4>1 DEF ServerInv
    <3>9. QED BY <3>2, <3>6, <3>7, <3>8
  <2>5. QED BY <2>1, <2>2, <2>3, <2>4 DEF ServerInv
<1>5. QED BY <1>2, <1>3, <1>4 DEF Procs

\* The server takes the one command that the proxy has passed on.
LEMMA ServerCommandServer ==
  ASSUME BaseInv, ServerInv, ServerCommand, "server" \notin uneven'
  PROVE  ServerInv'
<1>1. p2s[1].kind \in Kinds \cup {"tail"}
  BY StreamTypes DEF ServerCommand, BaseInv, KindsInv
<1>2. /\ TypeOK /\ files \in Nat /\ Len(p2s) \in Nat /\ Len(s2p) \in Nat
      /\ pc["server"] = "command" /\ Len(p2s) > 0 /\ buffer' = p2s[1]
      /\ ReadsText("server", p2s, p2s', uneven, uneven')
      /\ pc'["proxy"] = pc["proxy"] /\ ~Gone("server")
      /\ UNCHANGED <<proxyVars, files>>
  BY <1>1, ServerTypes, ServerCommandDoes DEF ServerGoes, Gone
<1>3. CASE pc["proxy"] \notin {"hello", "command", "int", "names", "file", "garbled"}
  BY <1>2, <1>3, ProxyOut
<1>4. CASE pc["proxy"] \in {"hello", "command", "int", "names", "file"}
  <2>1. /\ pc["proxy"] = "int" /\ command.kind \in Kinds \ {"QUIT"} /\ Waiting
        /\ Len(s2p) = 0 /\ Len(p2s) = 1 /\ p2s[1] = command
    <3>1. \A j, m : ~Followed(j, m)
      BY <1>2 DEF Followed
    <3>2. QED BY <1>2, <1>4, <3>1 DEF ServerInv, Waiting
  <2>2. Len(p2s') = 0
    <3>1. PICK k \in 1..Len(p2s) : k = 1 => Len(p2s') = Len(p2s) - 1
      BY <1>2 DEF ReadsText
    <3>2. QED BY <2>1, <3>1
  <2>3. CASE command.kind = "UDPENC"
    <3>1. pc'["server"] = "udp" /\ s2p' = s2p
      BY <1>1, <1>2, <2>1, <2>3, ServerCommandDoes DEF ServesAt
    <3>2. Waiting'
      BY <1>2, <2>1, <2>2, <2>3, <3>1 DEF Waiting
    <3>3. QED BY <1>2, <2>1, <3>2 DEF ServerInv
  <2>4. CASE command.kind # "UDPENC"
    <3>1. pc'["server"] = ServesAt(command.kind) /\ Pushed(s2p, s2p', FirstUnit(command))
      BY <1>1, <1>2, <2>1, <2>4, ServerCommandDoes DEF Delivered, Gone, Kinds, Downloads
    <3>2. Len(s2p') = 1 /\ s2p'[1] = FirstUnit(command)
      <4>1. Len(s2p) + 1 = 1
        BY <2>1
      <4>2. QED BY <3>1, <4>1 DEF Pushed
    <3>3. s2p'[1].what = "int" /\ s2p'[1].of = command'.of /\ s2p'[1].val = NumberOf(command.kind)'
      BY <1>2, <3>2 DEF FirstUnit, NumberOf
    <3>4. command.kind = "LIST" => Rem' = files
      BY <1>2, <3>1 DEF Rem, ServesAt
    <3>5. Serving(2, files)'
      <4>1. command.kind = "LIST" => pc'["server"] = "list" /\ Len(s2p') - (2 - 1) + Rem' = files'
        BY <1>2, <3>1, <3>2, <3>4 DEF ServesAt
      <4>2. command.kind \in {"TCP", "WHOLE"} => Len(s2p') < 2 /\ pc'["server"] = "file"
        BY <3>1, <3>2 DEF ServesAt
      <4>3. /\ command.kind = "NONE" => pc'["server"] = "command"
            /\ command.kind = "UDPNOR" => pc'["server"] = "udp"
        BY <3>1 DEF ServesAt
      <4>4. QED BY <1>2, <2>4, <4>1, <4>2, <4>3 DEF Serving
    <3>6. Following(s2p', 2, command.kind, command.of)
      BY <3>2 DEF Following, NamesFrom, FileFrom
    <3>7. Followed(2, files)'
      <4>1. command.kind = "LIST" => Len(s2p') - (2 - 1) + Rem' <= files'
        BY <1>2, <3>2, <3>4
      <4>2. QED BY <1>2, <2>1, <2>2, <3>5, <3>6, <4>1 DEF Followed
    <3>8. QED BY <1>2, <2>1, <3>2, <3>3, <3>7 DEF ServerInv
  <2>5. QED BY <2>3, <2>4
<1>5. QED BY <1>3, <1>4 DEF ServerInv

\* The proxy finds what it is meant to find.
LEMMA NothingMisread ==
  ASSUME BaseInv, ServerInv
  PROVE  ~ProxyMisreads
<1>1. SUFFICES ASSUME ProxyMisreads PROVE FALSE
  OBVIOUS
<1>2. /\ Len(s2p) \in Nat /\ Len(s2p) > 0
      /\ \/ pc["proxy"] = "int" /\ s2p[1].what # "int"
         \/ pc["proxy"] = "file" /\ s2p[1].what \notin FileParts
  BY <1>1, ServerTypes, ProxyMisreadsDoes
<1>3. pc["proxy"] = "file"
  BY <1>2 DEF ServerInv, Waiting
<1>4. FileFrom(s2p, 1, command.of)
  BY <1>3 DEF ServerInv, Followed, Following
<1>5. Len(s2p) = 1
  <2>1. \A a \in Nat : a > 0 /\ a <= 1 => a = 1
    OBVIOUS
  <2>2. QED BY <1>2, <1>4, <2>1 DEF FileFrom
<1>6. QED BY <1>2, <1>3, <1>4, <1>5 DEF FileFrom

LEMMA ServerInvStep ==
  ASSUME BaseInv, [Next]_vars, Calm => ServerInv, Calm'
  PROVE  ServerInv'
<1>1. Calm /\ ServerInv /\ UNCHANGED <<files, changes>> /\ uneven \subseteq uneven'
  BY StaysSo
<1>2. CASE UNCHANGED vars
  BY <1>1, <1>2, ServerQuiet DEF vars
<1>3. CASE ClientStep \/ ClientCommand
  BY <1>1, <1>3, ClientLater, ServerQuiet DEF ClientGoes
<1>4. CASE ProxyStep
  <2>1. "short" \notin uneven'
    BY DEF Calm
  <2>2. ~ProxyMisreads
    BY <1>1, NothingMisread
  <2>3. QED
    BY <1>1, <1>4, <2>1, <2>2, ProxyHelloServer, ProxyCommandServer, ProxyTailServer,
       ProxyIntServer, ProxyNameServer, ProxyFileServer DEF ProxyStep
<1>5. CASE ServerStep
  <2>1. "server" \notin uneven'
    BY DEF Calm
  <2>2. QED
    BY <1>1, <1>5, <2>1, ServerMovesServer, ServerWritesServer, ServerCommandServer DEF ServerStep
<1>6. CASE Environment
  <2>1. changes' # changes + 1
    BY <1>1 DEF Calm
  <2>2. CASE UNCHANGED <<files, changes, pc, s2p, p2c>>
    BY <1>1, <1>6, <2>2, EnvironmentLater, ServerQuiet
  <2>3. CASE \E p \in Procs : Kill(p)
    BY <1>1, <2>3, KillServer
  <2>4. QED BY <1>6, <2>1, <2>2, <2>3, EnvironmentLater
<1>7. QED BY <1>2, <1>3, <1>4, <1>5, <1>6 DEF Next, Environment

-----------------------------------------------------------------------------
(* Fourth layer.                                                           *)

\* What its proofs use of the types.
LEMMA ClientTypes ==
  ASSUME BaseInv
  PROVE  /\ TypeOK /\ Len(c2p) \in Nat /\ Len(p2c) \in Nat /\ Len(s2p) \in Nat
         /\ Rem \in Nat /\ Flow \in Nat /\ sent \in Nat /\ cLeft \in Nat /\ files \in Nat
         /\ answer.of \in Nat /\ command.of \in Nat /\ typed \in Kinds
         /\ \A i \in 1..Len(p2c) : p2c[i].of \in Nat /\ p2c[i].val \in Nat
         /\ \A i \in 1..Len(c2p) : c2p[i].of \in Nat
<1>1. /\ TypeOK /\ Len(c2p) \in Nat /\ Len(p2c) \in Nat /\ Len(s2p) \in Nat /\ Rem \in Nat
      /\ files \in Nat
  BY StreamTypes, ServerTypes DEF BaseInv
<1>2. sent \in Nat /\ cLeft \in Nat /\ typed \in Kinds /\ answer.of \in Nat
  BY <1>1, BoundsAssumption DEF TypeOK
<1>3. Flow \in Nat
  BY <1>1 DEF Flow
<1>4. QED BY <1>1, <1>2, <1>3, UnitTypes

\* What the server or the proxy's end does to the names still to come.
LEMMA ClientQuiet ==
  ASSUME BaseInv, ClientInv, pc'["client"] = pc["client"], pc'["proxy"] = pc["proxy"],
         UNCHANGED <<sent, typed, cLeft, answer, command, files, c2p, p2c>>,
         Gone("server") => Gone("server")', Flow' \in Nat, Flow' <= Flow
  PROVE  ClientInv'
<1>1. /\ Len(p2c) \in Nat /\ cLeft \in Nat /\ Flow \in Nat
      /\ \A i \in 1..Len(p2c) : p2c[i].val \in Nat
  BY ClientTypes
<1>2. /\ (Current' <=> Current) /\ (Pending' <=> Pending) /\ (Gone("proxy")' <=> Gone("proxy"))
      /\ \A k : NumberOf(k)' = NumberOf(k)
  BY DEF Current, Pending, Gone, NumberOf
<1>3. ClientPlaces'
  BY DEF ClientInv, ClientPlaces
<1>4. ProxyWorks'
  BY <1>1, <1>2 DEF ClientInv, ProxyWorks
<1>5. NumberArrives'
  <2>1. SUFFICES ASSUME pc["client"] = "int", Len(p2c) > 0
                 PROVE  NumberArrives'
    BY DEF NumberArrives
  <2>2. typed = "LIST" => Len(p2c) - 1 + Flow' <= p2c[1].val
    BY <1>1, <2>1 DEF ClientInv, NumberArrives
  <2>3. QED
    BY <1>2, <2>1, <2>2 DEF ClientInv, NumberArrives, Following, NamesFrom, FileFrom
<1>6. RestArrives'
  BY <1>1, <1>2 DEF ClientInv, RestArrives, NamesFrom, FileFrom
<1>7. OneCommand'
  BY <1>2 DEF ClientInv, OneCommand
<1>8. QED BY <1>3, <1>4, <1>5, <1>6, <1>7 DEF ClientInv

\* The proxy ends.
LEMMA ProxyLeaves ==
  ASSUME BaseInv, ClientInv, pc'["client"] = pc["client"], pc'["server"] = pc["server"],
         pc'["proxy"] = "dead" \/ (pc'["proxy"] = "end" /\ pc["client"] # "hello"),
         UNCHANGED <<clientVars, files, p2c>>
  PROVE  ClientInv'
<1>1. /\ Len(p2c) \in Nat /\ cLeft \in Nat /\ Flow \in Nat
      /\ \A i \in 1..Len(p2c) : p2c[i].val \in Nat
  BY ClientTypes
<1>2. /\ Flow' = 0 /\ Gone("proxy")' /\ \A k : NumberOf(k)' = NumberOf(k)
  BY DEF Flow, Gone, NumberOf
<1>3. ClientPlaces'
  BY DEF ClientInv, ClientPlaces
<1>4. ProxyWorks'
  BY DEF ProxyWorks
<1>5. NumberArrives'
  <2>1. SUFFICES ASSUME pc["client"] = "int", Len(p2c) > 0
                 PROVE  NumberArrives'
    BY DEF NumberArrives
  <2>2. typed = "LIST" => Len(p2c) - 1 + Flow' <= p2c[1].val
    BY <1>1, <1>2, <2>1 DEF ClientInv, NumberArrives
  <2>3. QED
    BY <1>2, <2>1, <2>2 DEF ClientInv, NumberArrives, Following, NamesFrom, FileFrom
<1>6. RestArrives'
  BY <1>1, <1>2 DEF ClientInv, RestArrives, NamesFrom, FileFrom
<1>7. OneCommand'
  BY <1>2 DEF OneCommand
<1>8. QED BY <1>3, <1>4, <1>5, <1>6, <1>7 DEF ClientInv

\* What a client's step leaves alone.
LEMMA ClientStepKeeps ==
  ASSUME BaseInv, ClientStep \/ ClientCommand
  PROVE  /\ Flow' = Flow /\ pc'["proxy"] = pc["proxy"] /\ (Gone("server")' <=> Gone("server"))
         /\ (Gone("proxy")' <=> Gone("proxy")) /\ command' = command /\ s2p' = s2p
         /\ \A k : NumberOf(k)' = NumberOf(k)
BY ClientLater DEF Flow, Rem, Gone, NumberOf, ClientGoes

LEMMA ClientHelloClient ==
  ASSUME BaseInv, ClientInv, ClientHello, Alive'
  PROVE  ClientInv'
<1>1. /\ TypeOK /\ pc["client"] = "hello" /\ pc'["client"] = "prompt" /\ Len(c2p) = 0
      /\ pc["proxy"] \in {"hello", "dead"} /\ Len(p2c) = 0 /\ pc'["proxy"] = pc["proxy"]
      /\ (Gone("proxy")' <=> Gone("proxy"))
      /\ UNCHANGED <<clientVars, p2c>>
  BY ClientTypes, ClientHelloDoes, ClientStepKeeps
  DEF ClientGoes, Alive, Gone, BaseInv, KindsInv, ClientInv, ClientPlaces, ClientStep
<1>2. PICK t \in {"byTCP", "byUDP"} :
        Delivered("client", "proxy", c2p, c2p', Text(t, 0), "prompt")
  BY <1>1, ClientHelloDoes
<1>3. ClientPlaces'
  BY <1>1 DEF ClientInv, ClientPlaces
<1>4. ProxyWorks' /\ NumberArrives' /\ RestArrives'
  BY <1>1 DEF ProxyWorks, NumberArrives, RestArrives
<1>5. OneCommand'
  <2>1. SUFFICES ASSUME ~Gone("proxy") PROVE OneCommand'
    BY <1>1 DEF OneCommand
  <2>2. Len(c2p) + 1 = 1 /\ Pushed(c2p, c2p', Text(t, 0))
    BY <1>1, <1>2, <2>1 DEF Delivered
  <2>3. Len(c2p') = 1 /\ c2p'[1].kind \notin Kinds
    BY <2>2 DEF Pushed, Text, Kinds, Downloads
  <2>4. \A i \in 1..Len(c2p') : c2p'[i].kind \notin Kinds
    BY <2>3
  <2>5. QED BY <2>4 DEF OneCommand, Pending
<1>6. QED BY <1>3, <1>4, <1>5 DEF ClientInv

LEMMA AskedClient ==
  ASSUME BaseInv, ClientInv, ClientStep \/ ClientCommand, pc["client"] = "prompt", Alive',
         NEW k \in Kinds, Asked(k), UNCHANGED <<cLeft, answer, p2c>>
  PROVE  /\ ClientInv' /\ pc'["client"] = "int" /\ k # "QUIT"
         /\ sent' = sent + 1 /\ typed' = k
         /\ ~Gone("proxy") => Pending'
<1>1. /\ sent \in Nat /\ Len(p2c) = 0 /\ answer.of = sent /\ Len(c2p) \in Nat
      /\ pc'["proxy"] = pc["proxy"] /\ (Gone("proxy")' <=> Gone("proxy")) /\ Flow' = Flow
  BY ClientTypes, ClientStepKeeps DEF ClientInv, ClientPlaces
<1>2. pc'["client"] = "int" /\ k # "QUIT" /\ sent' = sent + 1 /\ typed' = k
  BY DEF Asked, Alive, Gone, ClientGoes
<1>3. ClientPlaces'
  BY <1>1, <1>2 DEF ClientInv, ClientPlaces
<1>4. ProxyWorks'
  BY <1>1, <1>2 DEF ClientInv, ProxyWorks
<1>5. NumberArrives' /\ RestArrives'
  BY <1>1, <1>2 DEF NumberArrives, RestArrives
<1>6. ASSUME ~Gone("proxy")
      PROVE  /\ Pending'
             /\ \A i \in 1..Len(c2p') : c2p'[i].kind \in Kinds => c2p'[i].of = sent' /\ c2p'[i].kind = typed'
  <2> DEFINE x == Text(k, sent + 1)
  <2>1. Pushed(c2p, c2p', x)
    BY <1>6 DEF Asked, Delivered
  <2>2. x.of = sent' /\ x.kind = typed' /\ x.kind \in Kinds
    BY <1>2 DEF Text
  <2> HIDE DEF x
  <2>3. \A i \in 1..Len(c2p) : c2p[i].kind \notin Kinds
    BY <1>6 DEF ClientInv, OneCommand, Pending
  <2>4. \A i \in 1..Len(c2p') : c2p'[i] = x \/ c2p'[i].kind \notin Kinds
    BY <1>1, <2>1, <2>3 DEF Pushed
  <2>5. Pending'
    <3>1. Len(c2p) + 1 \in 1..Len(c2p') /\ c2p'[Len(c2p) + 1] = x
      BY <1>1, <2>1 DEF Pushed
    <3>2. QED BY <2>2, <3>1 DEF Pending
  <2>6. QED BY <2>2, <2>4, <2>5
<1>7. OneCommand'
  BY <1>1, <1>2, <1>6 DEF OneCommand, ClientInv, ProxyWorks
<1>8. QED BY <1>2, <1>3, <1>4, <1>5, <1>6, <1>7 DEF ClientInv

\* No command on its way.
LEMMA NonePending ==
  ASSUME Gone("proxy")' \/ ~Pending'
  PROVE  OneCommand'
<1>1. ~Gone("proxy")' => \A i \in 1..Len(c2p') : c2p'[i].kind \notin Kinds
  BY DEF Pending
<1>2. QED BY <1>1 DEF OneCommand, Pending

LEMMA ClientIntClient ==
  ASSUME BaseInv, ServerInv, ClientInv, ClientInt
  PROVE  /\ ClientInv' /\ pc["client"] = "int"
         /\ answer' \in {[val |-> NumberOf(typed), of |-> sent], [val |-> 0, of |-> sent]}
         /\ answer'.val # NumberOf(typed) => Gone("server") \/ Gone("proxy")
         /\ pc'["client"] = "names" =>
              typed = "LIST" /\ Len(p2c) > 0 /\ cLeft' = p2c[1].val /\ Len(p2c') = Len(p2c) - 1
         /\ pc'["client"] # "int"
<1>1. /\ TypeOK /\ Len(p2c) \in Nat /\ Flow \in Nat /\ pc["client"] = "int" /\ typed \in Kinds \ {"QUIT"}
      /\ \A i \in 1..Len(p2c) : p2c[i].of \in Nat /\ p2c[i].val \in Nat
      /\ Flow' = Flow /\ pc'["proxy"] = pc["proxy"] /\ (Gone("proxy")' <=> Gone("proxy"))
      /\ UNCHANGED <<sent, typed, c2p, command>>
      /\ (Current' <=> Current) /\ (Pending' <=> Pending)
      /\ pc["proxy"] # "garbled" /\ (Gone("server")' <=> Gone("server"))
  BY ClientTypes, ClientIntDoes, ClientStepKeeps
  DEF ClientStep, ClientInv, ClientPlaces, Current, Pending, ServerInv
<1>2. ASSUME Len(p2c) > 0
      PROVE  /\ ClientInv' /\ pc'["client"] # "int"
             /\ answer' \in {[val |-> NumberOf(typed), of |-> sent], [val |-> 0, of |-> sent]}
             /\ answer'.val # NumberOf(typed) => Gone("server") \/ Gone("proxy")
             /\ pc'["client"] = "names" =>
                  typed = "LIST" /\ cLeft' = p2c[1].val /\ Len(p2c') = Len(p2c) - 1
  <2> DEFINE v == p2c[1].val
  <2>1. /\ p2c[1].what = "int" /\ p2c[1].of = sent /\ v \in Nat
        /\ v = NumberOf(typed) \/ (v = 0 /\ (Gone("server") \/ Gone("proxy")))
        /\ v = 0 => Len(p2c) = 1 /\ pc["proxy"] \notin {"names", "file"}
        /\ Following(p2c, 2, typed, sent)
        /\ typed = "LIST" => Len(p2c) - 1 + Flow <= v
        /\ typed \in {"TCP", "WHOLE"} /\ pc["proxy"] = "command" /\ v # 0 => Len(p2c) > 1
    BY <1>1, <1>2 DEF ClientInv, NumberArrives
  <2>2. /\ cLeft' = v /\ answer' = [val |-> v, of |-> sent] /\ pc'["client"] = AfterReply(v)
        /\ Dropped(p2c, p2c', 1)
    BY <1>1, <1>2, <2>1, ClientIntDoes DEF ClientGoes
  <2> HIDE DEF v
  <2>3. Len(p2c') = Len(p2c) - 1 /\ \A i \in 1..Len(p2c') : p2c'[i] = p2c[i + 1]
    BY <2>2 DEF Dropped
  <2>4. /\ pc["proxy"] \notin {"hello", "int"} /\ (Gone("proxy") \/ ~Pending)
        /\ pc["proxy"] = "file" => Current /\ command.kind \in {"TCP", "WHOLE"} /\ Len(p2c) = 1
        /\ pc["proxy"] = "names" => Current /\ command.kind = "LIST"
    BY <1>1, <1>2 DEF ClientInv, ClientPlaces, ProxyWorks, OneCommand, ServerInv
  <2>5. \/ v = 0 /\ pc'["client"] = "prompt"
        \/ v # 0 /\ typed = "LIST" /\ pc'["client"] = "names"
        \/ v # 0 /\ typed = "UDPNOR" /\ pc'["client"] = "udp"
        \/ v # 0 /\ typed \in {"TCP", "WHOLE"} /\ pc'["client"] = "file"
    BY <1>1, <2>1, <2>2 DEF AfterReply, NumberOf, Kinds, Downloads
  <2>6. v = 0 \/ typed = "UDPNOR" => Len(p2c') = 0
    BY <1>1, <1>2, <2>1, <2>3 DEF Following
  <2>7. ClientPlaces'
    BY <1>1, <2>2, <2>4, <2>5, <2>6 DEF ClientPlaces
  <2>8. ProxyWorks'
    BY <1>1, <2>1, <2>3, <2>4, <2>5, <2>6 DEF ProxyWorks, Current
  <2>9. NumberArrives'
    BY <2>5 DEF NumberArrives
  <2>10. RestArrives'
    <3>1. ASSUME pc'["client"] = "names"
          PROVE  typed' = "LIST" /\ NamesFrom(p2c', 1, sent') /\ Len(p2c') + Flow' <= cLeft'
      <4>1. typed = "LIST" /\ NamesFrom(p2c, 2, sent)
        BY <2>1, <2>5, <3>1 DEF Following
      <4>2. NamesFrom(p2c', 1, sent)
        BY <1>1, <2>3, <4>1 DEF NamesFrom
      <4>3. QED BY <1>1, <2>1, <2>2, <2>3, <4>1, <4>2
    <3>2. ASSUME pc'["client"] = "file"
          PROVE  /\ typed' \in {"TCP", "WHOLE"} /\ FileFrom(p2c', 1, sent')
                 /\ pc'["proxy"] = "command" => Len(p2c') > 0
      <4>1. typed \in {"TCP", "WHOLE"} /\ FileFrom(p2c, 2, sent) /\ v # 0
        BY <2>1, <2>5, <3>2 DEF Following
      <4>2. Len(p2c') >= 1 => p2c'[1] = p2c[2]
        BY <1>1, <2>3
      <4>3. FileFrom(p2c', 1, sent)
        BY <1>1, <2>3, <4>1, <4>2 DEF FileFrom
      <4>4. QED BY <1>1, <2>1, <2>3, <4>1, <4>3
    <3>3. QED BY <3>1, <3>2 DEF RestArrives
  <2>11. OneCommand'
    BY <1>1, <2>4, NonePending
  <2>12. ClientInv'
    BY <2>7, <2>8, <2>9, <2>10, <2>11 DEF ClientInv
  <2>13. QED BY <2>1, <2>2, <2>3, <2>5, <2>12 DEF v
<1>3. ASSUME Len(p2c) = 0
      PROVE  /\ ClientInv' /\ pc'["client"] = "prompt" /\ answer' = [val |-> 0, of |-> sent]
             /\ Gone("proxy")
  <2>1. /\ Gone("proxy") /\ answer' = [val |-> 0, of |-> sent] /\ pc'["client"] = "prompt"
        /\ p2c' = p2c
    BY <1>1, <1>3, ClientIntDoes DEF ClientGoes
  <2>2. pc["proxy"] \in {"end", "dead"}
    BY <2>1 DEF Gone
  <2>3. ClientPlaces' /\ ProxyWorks' /\ NumberArrives' /\ RestArrives'
    BY <1>1, <1>3, <2>1, <2>2 DEF ClientPlaces, ProxyWorks, NumberArrives, RestArrives
  <2>4. QED BY <1>1, <2>1, <2>3, NonePending DEF ClientInv
<1>4. QED BY <1>1, <1>2, <1>3

LEMMA ClientNameClient ==
  ASSUME BaseInv, ClientInv, ClientName
  PROVE  /\ ClientInv' /\ pc'["client"] # "int"
         /\ pc'["client"] = "names" =>
              \/ Gone("proxy")
              \/ pc["client"] = "names" /\ cLeft' = cLeft - 1
                 /\ (Even' => Even /\ Len(p2c') = Len(p2c) - 1)
<1>1. /\ TypeOK /\ Len(p2c) \in Nat /\ Flow \in Nat /\ cLeft \in Nat /\ cLeft > 0
      /\ pc["client"] = "names" /\ cLeft' = cLeft - 1
      /\ pc'["client"] = IF cLeft = 1 THEN "prompt" ELSE "names"
      /\ Flow' = Flow /\ pc'["proxy"] = pc["proxy"] /\ (Gone("proxy")' <=> Gone("proxy"))
      /\ UNCHANGED <<sent, typed, answer, c2p, command>>
      /\ (Current' <=> Current) /\ (Pending' <=> Pending)
  BY ClientTypes, ClientNameDoes, ClientStepKeeps
  DEF ClientStep, Current, Pending, ClientGoes, BaseInv, Bounds
<1>2. /\ typed = "LIST" /\ NamesFrom(p2c, 1, sent) /\ Len(p2c) + Flow <= cLeft
      /\ pc["proxy"] \notin {"hello", "int", "file"} /\ (Gone("proxy") \/ ~Pending)
      /\ pc["proxy"] = "names" => Current
      /\ answer.of = sent
  BY <1>1 DEF ClientInv, ClientPlaces, ProxyWorks, RestArrives, OneCommand
<1>3. PICK k \in 0..Len(p2c) :
        /\ Len(p2c') = Len(p2c) - k /\ \A i \in 1..Len(p2c') : p2c'[i] = p2c[i + k]
        /\ k = 0 => Gone("proxy") /\ Flow = 0 /\ Len(p2c) = 0
        /\ Even' => Even /\ k <= 1
  <2>1. CASE \E k \in 1..Len(p2c) :
               /\ Dropped(p2c, p2c', k)
               /\ uneven' = IF k > 1 THEN uneven \cup {"glued"} ELSE uneven
    <3>1. PICK k \in 1..Len(p2c) :
               /\ Dropped(p2c, p2c', k)
               /\ uneven' = IF k > 1 THEN uneven \cup {"glued"} ELSE uneven
      BY <2>1
    <3>2. k \in 0..Len(p2c) /\ k # 0
      BY <1>1
    <3>3. Even' => Even /\ k <= 1
      BY <3>1, <3>2 DEF Even
    <3>4. QED BY <3>1, <3>2, <3>3 DEF Dropped
  <2>2. CASE Len(p2c) = 0 /\ Gone("proxy") /\ UNCHANGED <<p2c, uneven>>
    BY <1>1, <2>2 DEF Flow, Gone, Even
  <2>3. QED BY <1>1, <2>1, <2>2, ClientNameDoes
<1>4. /\ k = 0 \/ (Len(p2c') + Flow <= cLeft' /\ (cLeft = 1 => Len(p2c') = 0 /\ Flow = 0))
      /\ Len(p2c') + Flow' <= cLeft'
      /\ cLeft = 1 => Len(p2c') = 0 /\ Flow' = 0
  BY <1>1, <1>2, <1>3
<1>5. ClientPlaces'
  BY <1>1, <1>2, <1>4 DEF ClientPlaces
<1>6. ProxyWorks'
  BY <1>1, <1>2, <1>4 DEF ProxyWorks
<1>7. NumberArrives'
  BY <1>1 DEF NumberArrives
<1>8. RestArrives'
  <2>1. NamesFrom(p2c', 1, sent)
    BY <1>1, <1>2, <1>3 DEF NamesFrom
  <2>2. QED BY <1>1, <1>2, <1>4, <2>1 DEF RestArrives
<1>9. OneCommand'
  BY <1>1, <1>2, NonePending
<1>10. Even' /\ ~Gone("proxy") => Even /\ Len(p2c') = Len(p2c) - 1
  BY <1>1, <1>3
<1>11. QED BY <1>1, <1>5, <1>6, <1>7, <1>8, <1>9, <1>10 DEF ClientInv

LEMMA ClientFileClient ==
  ASSUME BaseInv, ClientInv, ClientFile, "short" \notin uneven'
  PROVE  ClientInv' /\ pc'["client"] = "prompt"
<1>1. /\ TypeOK /\ Len(p2c) \in Nat /\ pc["client"] = "file" /\ pc'["client"] = "prompt"
      /\ pc'["proxy"] = pc["proxy"] /\ (Gone("proxy")' <=> Gone("proxy"))
      /\ UNCHANGED <<sent, answer, c2p>> /\ (Pending' <=> Pending)
      /\ Dropped(p2c, p2c', 1) \/ (Len(p2c) = 0 /\ Gone("proxy") /\ UNCHANGED p2c)
  BY ClientTypes, ClientFileDoes, ClientStepKeeps DEF ClientStep, ClientGoes, Pending
<1>2. /\ Len(p2c) <= 1 /\ answer.of = sent
      /\ pc["proxy"] \notin {"hello", "int", "names"} /\ (Gone("proxy") \/ ~Pending)
      /\ pc["proxy"] = "file" => Len(p2c) = 0 /\ ~Gone("proxy")
  BY <1>1 DEF ClientInv, ClientPlaces, ProxyWorks, RestArrives, OneCommand, FileFrom, Gone
<1>3. Len(p2c') = 0 /\ pc["proxy"] # "file"
  BY <1>1, <1>2 DEF Dropped
<1>4. ClientPlaces' /\ ProxyWorks' /\ NumberArrives' /\ RestArrives'
  BY <1>1, <1>2, <1>3 DEF ClientPlaces, ProxyWorks, NumberArrives, RestArrives
<1>5. OneCommand'
  BY <1>1, <1>2, NonePending
<1>6. QED BY <1>1, <1>4, <1>5 DEF ClientInv

\* The client finds what it is meant to find.
LEMMA NothingTaken ==
  ASSUME BaseInv, ClientInv
  PROVE  ~ClientMisreads
<1>1. SUFFICES ASSUME ClientMisreads PROVE FALSE
  OBVIOUS
<1>2. /\ Len(p2c) \in Nat /\ Len(p2c) > 0
      /\ \/ pc["client"] = "int" /\ p2c[1].what # "int"
         \/ pc["client"] = "file" /\ p2c[1].what \notin FileParts
  BY <1>1, ClientTypes, ClientMisreadsDoes
<1>3. pc["client"] = "file"
  BY <1>2 DEF ClientInv, NumberArrives
<1>4. FileFrom(p2c, 1, sent)
  BY <1>3 DEF ClientInv, RestArrives
<1>5. Len(p2c) = 1
  <2>1. \A a \in Nat : a > 0 /\ a <= 1 => a = 1
    OBVIOUS
  <2>2. QED BY <1>2, <1>4, <2>1 DEF FileFrom
<1>6. QED BY <1>2, <1>3, <1>4, <1>5 DEF FileFrom

\* What a proxy's step leaves alone.
LEMMA ProxyStepKeeps ==
  ASSUME BaseInv, ProxyStep
  PROVE  /\ pc'["client"] = pc["client"] /\ ~Gone("proxy") /\ UNCHANGED <<clientVars, files>>
         /\ \A k : NumberOf(k)' = NumberOf(k)
BY ProxyLater DEF NumberOf

\* A read of a command from the client takes no new one with it.
LEMMA CommandsLeft ==
  ASSUME BaseInv, Len(c2p) > 0, ReadsText("proxy", c2p, c2p', uneven, uneven')
  PROVE  /\ \A i \in 1..Len(c2p') : c2p'[i].kind \in Kinds => \E j \in 2..Len(c2p) : c2p'[i] = c2p[j]
         /\ Pending' => Pending
         /\ Even' /\ c2p[1].kind \notin Kinds /\ Pending => Pending'
<1>1. Len(c2p) \in Nat
  BY ClientTypes
<1>2. \A i \in 1..Len(c2p') : c2p'[i].kind = "tail" \/ \E j \in 2..Len(c2p) : c2p'[i] = c2p[j]
  BY <1>1, ReadKeeps
<1>3. \A i \in 1..Len(c2p') : c2p'[i].kind \in Kinds => \E j \in 2..Len(c2p) : c2p'[i] = c2p[j]
  BY <1>2 DEF Kinds, Downloads
<1>4. Pending' => Pending
  <2>1. \A j \in 2..Len(c2p) : j \in 1..Len(c2p)
    BY <1>1
  <2>2. QED BY <1>3, <2>1 DEF Pending
<1>5. ASSUME Even', c2p[1].kind \notin Kinds, Pending
      PROVE  Pending'
  <2>1. PICK k \in 1..Len(c2p) : Taken(c2p, c2p', k) /\ (k > 1 => "glued" \in uneven')
    BY DEF ReadsText
  <2>2. k = 1 /\ c2p[1].kind \notin Downloads
    BY <1>1, <1>5, <2>1 DEF Even, Kinds
  <2>3. Len(c2p') = Len(c2p) - 1 /\ \A i \in 1..Len(c2p) - 1 : c2p'[i] = c2p[i + 1]
    BY <2>1, <2>2 DEF Taken
  <2>4. PICK j \in 1..Len(c2p) : c2p[j].kind \in Kinds
    BY <1>5 DEF Pending
  <2>5. j - 1 \in 1..Len(c2p') /\ (j - 1) + 1 = j
    <3>1. j # 1
      BY <1>5, <2>4
    <3>2. QED BY <1>1, <2>3, <3>1
  <2>6. c2p'[j - 1] = c2p[j]
    BY <2>3, <2>5
  <2>7. QED BY <2>4, <2>5, <2>6 DEF Pending
<1>6. QED BY <1>3, <1>4, <1>5

\* The commands left in the stream are still those that the client waits for.
LEMMA StillPending ==
  ASSUME BaseInv, ClientInv, ~Gone("proxy"), Len(c2p) > 0,
         ReadsText("proxy", c2p, c2p', uneven, uneven'),
         pc'["client"] = pc["client"], UNCHANGED <<sent, typed, p2c>>,
         Pending' => pc'["proxy"] \notin {"int", "file"}
  PROVE  OneCommand'
<1>1. /\ Pending' => pc["client"] = "int" /\ Len(p2c) = 0
      /\ \A i \in 1..Len(c2p) : c2p[i].kind \in Kinds => c2p[i].of = sent /\ c2p[i].kind = typed
  BY CommandsLeft DEF ClientInv, OneCommand
<1>2. \A j \in 2..Len(c2p) : j \in 1..Len(c2p)
  BY ClientTypes
<1>3. \A i \in 1..Len(c2p') : c2p'[i].kind \in Kinds => c2p'[i].of = sent /\ c2p'[i].kind = typed
  BY <1>1, <1>2, CommandsLeft
<1>4. QED BY <1>1, <1>3 DEF OneCommand

LEMMA ProxyHelloClient ==
  ASSUME BaseInv, ClientInv, ProxyHello, Alive
  PROVE  /\ ClientInv'
         /\ pc["client"] = "int" /\ Even' /\ pc'["proxy"] = "command" /\ Pending => Pending'
         /\ Len(p2c') = 0 /\ pc'["client"] # "names"
<1>1. /\ TypeOK /\ pc["proxy"] = "hello" /\ pc'["client"] = pc["client"] /\ ~Gone("proxy")
      /\ UNCHANGED <<clientVars, files, p2c>>
      /\ Len(p2c) = 0 /\ pc["client"] \in {"hello", "prompt", "int"}
  BY ClientTypes, ProxyHelloDoes, ProxyStepKeeps DEF ProxyStep, ClientInv, ClientPlaces
<1>2. ASSUME pc'["proxy"] \in {"end", "dead"}, pc'["server"] = pc["server"],
             pc'["proxy"] = "end" => pc["client"] # "hello"
      PROVE  ClientInv'
  BY <1>1, <1>2, ProxyLeaves
<1>3. CASE Len(c2p) > 0 /\ ReadsText("proxy", c2p, c2p', uneven, uneven')
  <2>1. pc["client"] # "hello" /\ c2p[1].kind \notin Kinds
    <3>1. c2p[1].kind \in {"byTCP", "byUDP"}
      BY <1>1, <1>3, ClientTypes DEF BaseInv, KindsInv
    <3>2. QED BY <1>3, <3>1 DEF BaseInv, KindsInv, Kinds, Downloads
  <2>2. CASE pc'["proxy"] = "command"
    <3>1. ClientPlaces' /\ ProxyWorks' /\ NumberArrives' /\ RestArrives'
      BY <1>1, <2>1, <2>2 DEF ClientInv, ClientPlaces, ProxyWorks, NumberArrives, RestArrives
    <3>2. OneCommand'
      BY <1>1, <1>3, <2>2, StillPending
    <3>3. Even' /\ Pending => Pending'
      BY <1>3, <2>1, CommandsLeft
    <3>4. QED BY <1>1, <2>2, <3>1, <3>2, <3>3 DEF ClientInv
  <2>3. CASE pc'["proxy"] = "end" /\ pc'["server"] = pc["server"]
    BY <1>1, <1>2, <2>1, <2>3
  <2>4. QED BY <1>1, <1>3, <2>2, <2>3, ProxyHelloDoes DEF Alive
<1>4. CASE Gone("client")
  BY <1>4 DEF Alive
<1>5. QED BY <1>1, <1>3, <1>4, ProxyHelloDoes

LEMMA ProxyCommandClient ==
  ASSUME BaseInv, OrderInv, ClientInv, ProxyCommand
  PROVE  /\ ClientInv' /\ pc'["proxy"] \in {"int", "dead"}
         /\ Len(p2c') = 0 /\ pc'["client"] # "names"
<1>1. /\ TypeOK /\ Len(c2p) \in Nat /\ pc["proxy"] = "command" /\ ~Gone("proxy")
      /\ Len(c2p) > 0 /\ command' = c2p[1]
      /\ ReadsText("proxy", c2p, c2p', uneven, uneven') /\ command.of \in Nat
      /\ pc'["proxy"] \in {Onward(c2p[1]), "dead"}
      /\ pc'["client"] = pc["client"] /\ pc'["server"] = pc["server"]
      /\ UNCHANGED <<clientVars, files, p2c>>
      /\ \A i \in 1..Len(c2p) : c2p[i].of \in Nat
  BY ClientTypes, ProxyCommandDoes, ProxyStepKeeps DEF ProxyStep, ProxyGoes
<1>2. c2p[1].kind \in Kinds
  BY <1>1, ProxyCommandDoes, CommandKinds
<1>3. Pending
  BY <1>1, <1>2 DEF Pending
<1>4. /\ pc["client"] = "int" /\ Len(p2c) = 0
      /\ \A i \in 1..Len(c2p) : c2p[i].kind \in Kinds => c2p[i].of = sent /\ c2p[i].kind = typed
  BY <1>1, <1>3 DEF ClientInv, OneCommand
<1>5. c2p[1].of = sent /\ c2p[1].kind = typed /\ typed # "QUIT"
  BY <1>1, <1>2, <1>4 DEF ClientInv, ClientPlaces
<1>6. ~Pending'
  <2>1. ASSUME NEW j \in 2..Len(c2p), c2p[j].kind \in Kinds PROVE FALSE
    <3>1. j \in 1..Len(c2p) /\ 1 \in 1..j - 1
      BY <1>1
    <3>2. c2p[1].of < c2p[j].of
      BY <2>1, <3>1 DEF OrderInv, Ordered
    <3>3. c2p[j].of = sent
      BY <1>4, <2>1, <3>1
    <3>4. QED BY <1>1, <1>5, <3>1, <3>2, <3>3
  <2>2. QED BY <1>1, <2>1, CommandsLeft DEF Pending
<1>7. CASE pc'["proxy"] = "dead"
  BY <1>1, <1>4, <1>7, ProxyLeaves
<1>8. CASE pc'["proxy"] = "int"
  <2>1. Current'
    BY <1>1, <1>5 DEF Current
  <2>2. ClientPlaces' /\ ProxyWorks' /\ NumberArrives' /\ RestArrives'
    BY <1>1, <1>4, <1>8, <2>1 DEF ClientInv, ClientPlaces, ProxyWorks, NumberArrives, RestArrives
  <2>3. QED BY <1>6, <1>1, <1>4, <1>8, <2>2, NonePending DEF ClientInv
<1>9. QED BY <1>1, <1>4, <1>5, <1>7, <1>8 DEF Onward

LEMMA ProxyTailClient ==
  ASSUME BaseInv, ClientInv, ProxyTail
  PROVE  /\ ClientInv' /\ UNCHANGED <<p2c, clientVars>> /\ pc'["client"] = pc["client"]
         /\ pc'["proxy"] = "dead" \/ (Flow' = Flow /\ (Even' /\ Pending => Pending'))
<1>1. /\ TypeOK /\ pc["proxy"] = "command" /\ ~Gone("proxy") /\ Len(c2p) > 0 /\ c2p[1].kind = "tail"
      /\ ReadsText("proxy", c2p, c2p', uneven, uneven')
      /\ pc'["proxy"] \in {"command", "dead"} /\ Len(p2c) \in Nat
      /\ pc'["client"] = pc["client"] /\ pc'["server"] = pc["server"]
      /\ UNCHANGED <<clientVars, files, p2c>>
      /\ \A k : NumberOf(k)' = NumberOf(k)
  BY ClientTypes, ProxyTailDoes, ProxyStepKeeps DEF ProxyStep, ProxyGoes
<1>2. CASE pc'["proxy"] = "dead"
  BY <1>1, <1>2, ProxyLeaves
<1>3. CASE pc'["proxy"] = "command"
  <2>1. Flow = 0 /\ Flow' = 0 /\ (Gone("server")' <=> Gone("server")) /\ (Gone("proxy")' <=> Gone("proxy"))
    BY <1>1, <1>3 DEF Flow, Gone
  <2>2. ClientPlaces' /\ ProxyWorks'
    BY <1>1, <1>3 DEF ClientInv, ClientPlaces, ProxyWorks
  <2>3. NumberArrives' /\ RestArrives'
    BY <1>1, <1>3, <2>1 DEF ClientInv, NumberArrives, RestArrives, Following, NamesFrom, FileFrom
  <2>4. OneCommand'
    BY <1>1, <1>3, StillPending
  <2>5. Even' /\ Pending => Pending'
    BY <1>1, CommandsLeft DEF Kinds, Downloads
  <2>6. QED BY <1>1, <2>1, <2>2, <2>3, <2>4, <2>5 DEF ClientInv
<1>4. QED BY <1>1, <1>2, <1>3

LEMMA ProxyIntClient ==
  ASSUME BaseInv, ServerInv, ClientInv, ProxyInt, Alive
  PROVE  /\ ClientInv' /\ pc'["client"] = "int" /\ Len(p2c') = 1
         /\ Even /\ ~Gone("server") /\ typed = "LIST" => Len(p2c') - 1 + Flow' = p2c'[1].val
<1>1. /\ TypeOK /\ Len(p2c) = 0 /\ Len(s2p) \in Nat /\ Rem \in Nat /\ files \in Nat
      /\ pc["proxy"] = "int" /\ ~Gone("proxy") /\ ~Gone("client") /\ Current
      /\ pc["client"] = "int" /\ pc'["client"] = "int" /\ pc'["server"] = pc["server"]
      /\ UNCHANGED <<clientVars, command, files, sLeft, c2p>>
      /\ (Current' <=> Current) /\ ~Pending' /\ typed \in Kinds
      /\ \A k : NumberOf(k)' = NumberOf(k)
  BY ClientTypes, ProxyIntDoes, ProxyStepKeeps
  DEF ProxyStep, ClientInv, ProxyWorks, OneCommand, Alive, Current, Pending
<1>2. Rem' = Rem /\ (Gone("server")' <=> Gone("server"))
  BY <1>1 DEF Rem, Gone
<1>3. PICK v \in Nat :
        /\ Pushed(p2c, p2c', Reported(v, sent)) /\ pc'["proxy"] = AfterRelay(v)
        /\ v = NumberOf(typed) \/ (v = 0 /\ Gone("server"))
        /\ \/ Gone("server") /\ v = 0
           \/ Len(s2p') = Len(s2p) - 1 /\ Len(s2p) > 0 /\ Followed(2, files)
  <2>1. CASE Len(s2p) > 0
    <3>1. /\ s2p[1].what = "int" /\ s2p[1].of = command.of /\ s2p[1].val = NumberOf(command.kind)
          /\ Followed(2, files)
      BY <1>1, <2>1 DEF ServerInv, Waiting
    <3>2. /\ Pushed(p2c, p2c', Reported(s2p[1].val, s2p[1].of)) /\ pc'["proxy"] = AfterRelay(s2p[1].val)
          /\ Len(s2p') = Len(s2p) - 1
      BY <1>1, <2>1, <3>1, ProxyIntDoes DEF Delivered, Dropped
    <3>3. NumberOf(command.kind) = NumberOf(typed) /\ command.of = sent /\ NumberOf(typed) \in Nat
      BY <1>1 DEF Current, NumberOf
    <3>4. QED BY <2>1, <3>1, <3>2, <3>3
  <2>2. CASE Len(s2p) = 0
    <3>1. /\ Gone("server") /\ Pushed(p2c, p2c', Reported(0, command.of)) /\ pc'["proxy"] = "command"
      BY <1>1, <2>2, ProxyIntDoes DEF Delivered
    <3>2. AfterRelay(0) = "command" /\ command.of = sent
      BY <1>1 DEF AfterRelay, Current
    <3>3. QED BY <3>1, <3>2
  <2>3. QED BY <1>1, <2>1, <2>2
<1>4. /\ Len(p2c') = 1 /\ p2c'[1].what = "int" /\ p2c'[1].of = sent /\ p2c'[1].val = v
  <2>1. Len(p2c) + 1 = 1
    BY <1>1
  <2>2. Len(p2c') = 1 /\ p2c'[1] = Reported(v, sent)
    BY <1>3, <2>1 DEF Pushed
  <2>3. command.kind = "LIST" \/ v \in {0, 1}
    BY <1>1, <1>3 DEF Current, NumberOf
  <2>4. QED BY <2>2, <2>3 DEF Reported
<1>5. /\ pc'["proxy"] = "names" => v # 0 /\ typed = "LIST"
      /\ pc'["proxy"] = "file" => v # 0 /\ typed \in {"TCP", "WHOLE"}
      /\ pc'["proxy"] \in {"names", "file", "command"}
      /\ pc'["proxy"] = "command" => v = 0 \/ typed \notin {"LIST", "TCP", "WHOLE"}
  BY <1>1, <1>3 DEF AfterRelay, Current
<1>6. typed = "LIST" =>
        /\ Flow' <= v
        /\ Even /\ ~Gone("server") => Flow' = v
  <2>1. SUFFICES ASSUME typed = "LIST"
                 PROVE  Flow' <= v /\ (Even /\ ~Gone("server") => Flow' = v)
    OBVIOUS
  <2>2. CASE v = 0
    BY <1>5, <2>2 DEF Flow
  <2>3. CASE v # 0
    <3>1. v = files /\ Followed(2, files) /\ command.kind = "LIST" /\ Len(s2p') = Len(s2p) - 1
      BY <1>1, <1>3, <2>1, <2>3 DEF NumberOf, Current
    <3>2. pc'["proxy"] = "names"
      BY <1>5, <2>1, <2>3
    <3>3. Flow' = Len(s2p) - (2 - 1) + Rem
      BY <1>1, <1>2, <3>1, <3>2 DEF Flow
    <3>4. Len(s2p) - (2 - 1) + Rem <= files
      BY <3>1 DEF Followed
    <3>5. Even /\ ~Gone("server") => Len(s2p) - (2 - 1) + Rem = files
      BY <3>1 DEF Followed, Serving
    <3>6. QED BY <3>1, <3>3, <3>4, <3>5
  <2>4. QED BY <2>2, <2>3
<1>7. Len(p2c') - 1 + Flow' = Flow' /\ Flow' \in Nat
  <2>1. \A a, b \in Nat : a = 1 => a - 1 + b = b
    OBVIOUS
  <2>2. Flow' \in Nat
    BY <1>1, <1>2, <1>3, <1>5 DEF Flow
  <2>3. QED BY <1>4, <2>1, <2>2
<1>8. ClientPlaces'
  BY <1>1, <1>4, <1>5 DEF ClientInv, ClientPlaces
<1>9. ProxyWorks'
  BY <1>1, <1>4, <1>5 DEF ProxyWorks
<1>10. NumberArrives'
  <2>1. Following(p2c', 2, typed, sent)
    BY <1>4 DEF Following, NamesFrom, FileFrom
  <2>2. typed = "LIST" => Len(p2c') - 1 + Flow' <= p2c'[1].val
    BY <1>4, <1>6, <1>7
  <2>3. QED BY <1>1, <1>2, <1>3, <1>4, <1>5, <2>1, <2>2 DEF NumberArrives
<1>11. RestArrives' /\ OneCommand'
  BY <1>1, NonePending DEF RestArrives
<1>12. QED BY <1>1, <1>4, <1>6, <1>7, <1>8, <1>9, <1>10, <1>11 DEF ClientInv

LEMMA ProxyNameClient ==
  ASSUME BaseInv, ServerInv, ClientInv, ProxyName, Alive
  PROVE  /\ ClientInv' /\ pc'["client"] = pc["client"] /\ UNCHANGED clientVars
         /\ \/ Gone("server") /\ UNCHANGED <<p2c, c2p>>
            \/ /\ Len(p2c') > 0 /\ (Len(p2c) > 0 => p2c'[1] = p2c[1])
               /\ Flow' \in Nat /\ Len(p2c') \in Nat
               /\ Even' /\ ~Gone("server") => Even /\ Len(p2c') + Flow' = Len(p2c) + Flow
               /\ pc["client"] = "int" => Len(p2c) > 0
<1>1. /\ TypeOK /\ Len(p2c) \in Nat /\ Len(s2p) \in Nat /\ Rem \in Nat /\ files \in Nat /\ cLeft \in Nat
      /\ pc["proxy"] = "names" /\ ~Gone("client") /\ ~Gone("proxy")
      /\ pc'["client"] = pc["client"] /\ pc'["server"] = pc["server"]
      /\ UNCHANGED <<clientVars, command, files, sLeft, c2p>>
      /\ command.kind = "LIST" /\ pLeft \in 1..files /\ Followed(1, pLeft)
      /\ \A k : NumberOf(k)' = NumberOf(k)
      /\ (Current' <=> Current) /\ (Pending' <=> Pending)
      /\ \A i \in 1..Len(p2c) : p2c[i].val \in Nat
  BY ClientTypes, ProxyNameDoes, ProxyStepKeeps
  DEF ProxyStep, ProxyGoes, ServerInv, Alive, Current, Pending
<1>2. Rem' = Rem /\ (Gone("server")' <=> Gone("server")) /\ Flow = Len(s2p) + Rem
  BY <1>1 DEF Rem, Gone, Flow
<1>3. ASSUME NEW k \in 1..Len(s2p), Dropped(s2p, s2p', k), Joined(p2c, p2c', s2p, k),
             uneven' = IF k > 1 THEN uneven \cup {"glued"} ELSE uneven,
             pc'["proxy"] = IF pLeft = 1 THEN "command" ELSE "names"
      PROVE  /\ ClientInv' /\ Len(p2c') > 0 /\ (Len(p2c) > 0 => p2c'[1] = p2c[1])
             /\ Flow' \in Nat /\ Len(p2c') \in Nat
             /\ Even' /\ ~Gone("server") => Even /\ Len(p2c') + Flow' = Len(p2c) + Flow
             /\ pc["client"] = "int" => Len(p2c) > 0
  <2>1. /\ Current /\ typed = "LIST" /\ ~Pending
        /\ \/ pc["client"] = "names"
           \/ pc["client"] = "int" /\ Len(p2c) > 0
    <3>1. Flow # 0
      BY <1>1, <1>2, <1>3
    <3>2. QED BY <1>1, <3>1 DEF ClientInv, ProxyWorks, OneCommand, Current
  <2>2. /\ Len(p2c') = Len(p2c) + k /\ \A i \in 1..Len(p2c) : p2c'[i] = p2c[i]
        /\ \A i \in 1..Len(p2c') : i <= Len(p2c) \/ i - Len(p2c) \in 1..k
        /\ \A i \in 1..Len(p2c') : i > Len(p2c) => p2c'[i] = s2p[i - Len(p2c)]
    <3>1. /\ Len(p2c') = Len(p2c) + k /\ \A i \in 1..Len(p2c) : p2c'[i] = p2c[i]
          /\ \A i \in 1..k : p2c'[Len(p2c) + i] = s2p[i]
      BY <1>3 DEF Joined
    <3>2. ASSUME NEW i \in 1..Len(p2c'), i > Len(p2c) PROVE p2c'[i] = s2p[i - Len(p2c)]
      <4>1. i - Len(p2c) \in 1..k /\ Len(p2c) + (i - Len(p2c)) = i
        BY <1>1, <1>3, <3>1, <3>2
      <4>2. QED BY <3>1, <4>1
    <3>3. \A i \in 1..Len(p2c') : i <= Len(p2c) \/ i - Len(p2c) \in 1..k
      BY <1>1, <1>3, <3>1
    <3>4. QED BY <3>1, <3>2, <3>3
  <2>3. \A i \in 1..Len(p2c') : i > Len(p2c) => p2c'[i].what = "name" /\ p2c'[i].of = sent
    <3>1. \A i \in 1..k : s2p[i].what = "name" /\ s2p[i].of = sent
      BY <1>1, <1>3, <2>1 DEF Followed, Following, NamesFrom, Current
    <3>2. \A i \in 1..Len(p2c') : i > Len(p2c) => i - Len(p2c) \in 1..k
      BY <1>1, <1>3, <2>2
    <3>3. QED BY <2>2, <3>1, <3>2
  <2>4. Flow' \in Nat /\ Len(p2c') + Flow' <= Len(p2c) + Flow
    <3>1. Len(s2p') = Len(s2p) - k
      BY <1>3 DEF Dropped
    <3>2. CASE pLeft = 1
      <4>1. Flow' = 0
        BY <1>3, <3>2 DEF Flow
      <4>2. QED BY <1>1, <1>2, <1>3, <2>2, <4>1
    <3>3. CASE pLeft # 1
      <4>1. Flow' = Len(s2p) - k + Rem
        BY <1>2, <1>3, <3>1, <3>3 DEF Flow
      <4>2. QED BY <1>1, <1>2, <1>3, <2>2, <4>1
    <3>4. QED BY <3>2, <3>3
  <2>5. ASSUME Even', ~Gone("server")
        PROVE  Even /\ Len(p2c') + Flow' = Len(p2c) + Flow
    <3>1. k = 1 /\ Even
      BY <1>3, <2>5 DEF Even
    <3>2. Len(s2p) - (1 - 1) + Rem = pLeft
      BY <1>1, <2>5, <3>1 DEF Followed, Serving
    <3>3. Len(s2p') = Len(s2p) - 1
      BY <1>3, <3>1 DEF Dropped
    <3>4. CASE pLeft = 1
      <4>1. Flow' = 0 /\ Flow = 1
        BY <1>1, <1>2, <1>3, <3>2, <3>4 DEF Flow
      <4>2. QED BY <1>1, <2>2, <3>1, <4>1
    <3>5. CASE pLeft # 1
      <4>1. Flow' = Len(s2p) - 1 + Rem
        BY <1>2, <1>3, <3>3, <3>5 DEF Flow
      <4>2. QED BY <1>1, <1>2, <2>2, <3>1, <4>1
    <3>6. QED BY <3>4, <3>5
  <2>6. ClientPlaces'
    BY <1>1, <1>3, <2>1 DEF ClientInv, ClientPlaces
  <2>7. ProxyWorks'
    BY <1>1, <1>3, <2>1, <2>2 DEF ProxyWorks
  <2>8. NumberArrives'
    <3>1. SUFFICES ASSUME pc["client"] = "int" PROVE NumberArrives'
      BY <1>1 DEF NumberArrives
    <3>2. /\ p2c[1].what = "int" /\ p2c[1].of = sent /\ p2c[1].val # 0
          /\ p2c[1].val = NumberOf(typed)
          /\ NamesFrom(p2c, 2, sent) /\ Len(p2c) - 1 + Flow <= p2c[1].val
          /\ Len(p2c) > 0 /\ p2c'[1] = p2c[1] /\ p2c[1].val \in Nat
      BY <1>1, <2>1, <2>2, <3>1 DEF ClientInv, NumberArrives, Following
    <3>3. NamesFrom(p2c', 2, sent)
      BY <1>1, <2>2, <2>3, <3>2 DEF NamesFrom
    <3>4. Len(p2c') - 1 + Flow' <= p2c'[1].val
      BY <1>1, <1>2, <2>2, <2>4, <3>2
    <3>5. QED BY <1>1, <2>1, <3>2, <3>3, <3>4 DEF NumberArrives, Following
  <2>9. RestArrives'
    <3>1. SUFFICES ASSUME pc["client"] = "names" PROVE RestArrives'
      BY <1>1, <2>1 DEF RestArrives
    <3>2. NamesFrom(p2c, 1, sent) /\ Len(p2c) + Flow <= cLeft
      BY <3>1 DEF ClientInv, RestArrives
    <3>3. NamesFrom(p2c', 1, sent)
      BY <1>1, <2>2, <2>3, <3>2 DEF NamesFrom
    <3>4. Len(p2c') + Flow' <= cLeft
      BY <1>1, <1>2, <2>2, <2>4, <3>2
    <3>5. QED BY <1>1, <2>1, <3>1, <3>3, <3>4 DEF RestArrives
  <2>10. OneCommand'
    BY <1>1, <2>1, NonePending
  <2>11. Len(p2c') > 0 /\ (Len(p2c) > 0 => p2c'[1] = p2c[1]) /\ Len(p2c') \in Nat
    BY <1>1, <1>3, <2>2
  <2>12. QED BY <2>1, <2>4, <2>5, <2>6, <2>7, <2>8, <2>9, <2>10, <2>11 DEF ClientInv
<1>4. ASSUME Len(s2p) = 0, Gone("server"), UNCHANGED <<s2p, p2c>>,
             pc'["proxy"] = IF pLeft = 1 THEN "command" ELSE "names"
      PROVE  ClientInv'
  <2>1. Flow = 0 /\ Flow' = 0
    BY <1>1, <1>2, <1>4 DEF Flow, Rem, Gone
  <2>2. \/ Current /\ typed = "LIST" /\ (pc["client"] = "names" \/ (pc["client"] = "int" /\ Len(p2c) > 0))
        \/ pc["client"] \in {"prompt", "int"} /\ Len(p2c) = 0
    BY <1>1 DEF ClientInv, ProxyWorks, Current
  <2>3. ClientPlaces'
    BY <1>1, <1>4 DEF ClientInv, ClientPlaces
  <2>4. ProxyWorks'
    BY <1>1, <1>4, <2>1, <2>2 DEF ProxyWorks
  <2>5. NumberArrives'
    <3>1. SUFFICES ASSUME pc["client"] = "int", Len(p2c) > 0 PROVE NumberArrives'
      BY <1>1, <1>4 DEF NumberArrives
    <3>2. typed = "LIST"
      BY <2>2, <3>1
    <3>3. /\ p2c[1].what = "int" /\ p2c[1].of = sent /\ p2c[1].val = NumberOf(typed)
          /\ p2c[1].val # 0
          /\ NamesFrom(p2c, 2, sent) /\ Len(p2c) - 1 + Flow <= p2c[1].val
      BY <1>1, <3>1, <3>2 DEF ClientInv, NumberArrives, Following, Gone
    <3>4. QED BY <1>1, <1>4, <2>1, <3>2, <3>3 DEF NumberArrives, Following, NamesFrom
  <2>6. RestArrives'
    BY <1>1, <1>4, <2>1, <2>2 DEF ClientInv, RestArrives, NamesFrom
  <2>7. OneCommand'
    BY <1>1, <1>4 DEF ClientInv, OneCommand
  <2>8. QED BY <2>3, <2>4, <2>5, <2>6, <2>7 DEF ClientInv
<1>5. QED BY <1>1, <1>3, <1>4, ProxyNameDoes

\* A file, or what there is of it, reaches the client's stream.
LEMMA FileRelayed ==
  ASSUME BaseInv, ServerInv, ClientInv, Alive, pc["proxy"] = "file",
         pc'["client"] = pc["client"], pc'["proxy"] \in {"command", "dead"},
         UNCHANGED <<clientVars, command, files, c2p>>, Gone("server") => Gone("server")',
         NEW x, Pushed(p2c, p2c', x), x.what \in FileParts, x.of = command.of
  PROVE  /\ ClientInv' /\ Len(p2c') > 0 /\ pc["client"] # "names"
         /\ pc["client"] = "int" => typed # "LIST"
<1>1. /\ Len(p2c) \in Nat /\ command.kind \in {"TCP", "WHOLE"} /\ Current
      /\ \/ pc["client"] = "int" /\ Len(p2c) = 1
         \/ pc["client"] = "file" /\ Len(p2c) = 0
      /\ (Pending' <=> Pending) /\ ~Pending /\ ~Gone("proxy")
      /\ \A k : NumberOf(k)' = NumberOf(k)
      /\ \A i \in 1..Len(p2c) : p2c[i].val \in Nat
  BY ClientTypes DEF ServerInv, ClientInv, ProxyWorks, OneCommand, Pending, Gone, NumberOf
<1>2. typed \in {"TCP", "WHOLE"} /\ x.of = sent
  BY <1>1 DEF Current
<1>3. ClientPlaces'
  BY <1>1 DEF ClientInv, ClientPlaces
<1>4. ProxyWorks'
  BY DEF ProxyWorks
<1>5. OneCommand'
  BY <1>1, NonePending
<1>6. CASE pc["client"] = "int" /\ Len(p2c) = 1
  <2>1. Len(p2c) + 1 = 2
    BY <1>6
  <2>2. Len(p2c') = 2 /\ p2c'[2] = x /\ p2c'[1] = p2c[1]
    BY <1>6, <2>1 DEF Pushed
  <2>3. FileFrom(p2c', 2, sent)
    BY <1>2, <2>2 DEF FileFrom
  <2>4. p2c[1].val # 0
    BY <1>6 DEF ClientInv, NumberArrives
  <2>5. NumberArrives'
    BY <1>1, <1>2, <1>6, <2>2, <2>3, <2>4 DEF ClientInv, NumberArrives, Following, Gone
  <2>6. RestArrives'
    BY <1>6 DEF RestArrives
  <2>7. QED BY <1>2, <1>3, <1>4, <1>5, <1>6, <2>2, <2>5, <2>6 DEF ClientInv
<1>7. CASE pc["client"] = "file" /\ Len(p2c) = 0
  <2>1. Len(p2c) + 1 = 1
    BY <1>7
  <2>2. Len(p2c') = 1 /\ p2c'[1] = x
    BY <1>7, <2>1 DEF Pushed
  <2>3. RestArrives' /\ NumberArrives'
    BY <1>2, <1>7, <2>2 DEF RestArrives, NumberArrives, FileFrom
  <2>4. QED BY <1>3, <1>4, <1>5, <1>7, <2>2, <2>3 DEF ClientInv
<1>8. QED BY <1>1, <1>6, <1>7

LEMMA ProxyFileClient ==
  ASSUME BaseInv, ServerInv, ClientInv, ProxyFile, Alive, "short" \notin uneven'
  PROVE  /\ ClientInv' /\ Len(p2c') > 0 /\ pc'["client"] # "names"
         /\ pc'["client"] = "int" => typed' # "LIST"
<1>1. /\ TypeOK /\ pc["proxy"] = "file" /\ ~Gone("client") /\ Len(s2p) \in Nat
      /\ pc'["client"] = pc["client"] /\ pc'["server"] = pc["server"]
      /\ pc'["proxy"] \in {"command", "dead"}
      /\ UNCHANGED <<clientVars, command, files, c2p>> /\ Followed(1, 1)
      /\ command.kind \in {"TCP", "WHOLE"}
  BY ClientTypes, ProxyFileDoes DEF ProxyGoes, Alive, ServerInv
<1>6. uneven' # uneven \cup {"short"}
  OBVIOUS
<1>2. Gone("server") => Gone("server")'
  BY <1>1 DEF Gone
<1>3. PICK x : Pushed(p2c, p2c', x) /\ x.what \in FileParts /\ x.of = command.of
  <2>1. CASE Len(s2p) > 0
    <3>1. s2p[1].what \in FileParts /\ s2p[1].of = command.of
      <4>1. FileFrom(s2p, 1, command.of) /\ Len(s2p) <= 1
        BY <1>1 DEF Followed, Following, FileFrom
      <4>2. Len(s2p) = 1
        <5>1. \A a \in Nat : a > 0 /\ a <= 1 => a = 1
          OBVIOUS
        <5>2. QED BY <1>1, <2>1, <4>1, <5>1
      <4>3. QED BY <4>1, <4>2 DEF FileFrom
    <3>2. Pushed(p2c, p2c', s2p[1])
      BY <1>1, <1>6, <2>1, ProxyFileDoes DEF Delivered
    <3>3. QED BY <3>1, <3>2
  <2>2. CASE Len(s2p) = 0
    <3> DEFINE y == [what |-> "blocks", val |-> 0, of |-> command.of]
    <3>1. Pushed(p2c, p2c', y)
      BY <1>1, <1>6, <2>2, ProxyFileDoes DEF Delivered
    <3>2. y.what \in FileParts /\ y.of = command.of
      BY DEF FileParts
    <3> HIDE DEF y
    <3>3. QED BY <3>1, <3>2
  <2>3. QED BY <1>1, <2>1, <2>2
<1>4. /\ ClientInv' /\ Len(p2c') > 0 /\ pc["client"] # "names"
      /\ pc["client"] = "int" => typed # "LIST"
  BY <1>1, <1>2, <1>3, FileRelayed
<1>5. QED BY <1>1, <1>4

\* The names still to come go down only with the server.
LEMMA ServerFlow ==
  ASSUME BaseInv, ServerInv, ServerStep
  PROVE  /\ Flow' \in Nat /\ Flow' <= Flow /\ (Gone("server") => Gone("server")')
         /\ ~Gone("server")' => Flow' = Flow
<1>1. /\ TypeOK /\ Len(s2p) \in Nat /\ Rem \in Nat /\ Flow \in Nat /\ files \in Nat /\ sLeft \in Nat
      /\ pc'["proxy"] = pc["proxy"] /\ ~Gone("server") /\ UNCHANGED <<files, command>>
  BY ClientTypes, ServerTypes, ServerLater DEF ServerGoes
<1>2. CASE pc["proxy"] # "names"
  BY <1>1, <1>2 DEF Flow
<1>3. ASSUME pc["proxy"] = "names", Len(s2p') + Rem' = Len(s2p) + Rem
      PROVE  Flow' = Flow
  BY <1>1, <1>3 DEF Flow
<1>4. ASSUME pc["proxy"] = "names"
      PROVE  Len(s2p') + Rem' = Len(s2p) + Rem
  <2>1. /\ pc["server"] \in {"list", "names", "command"} /\ Len(p2s) = 0 /\ ~Gone("proxy")
    BY <1>1, <1>4 DEF ServerInv, Followed, Serving, Gone
  <2>2. CASE ServerCommand
    BY <1>1, <2>1, <2>2, StreamTypes DEF ServerCommand
  <2>3. CASE ServerAccept \/ ServerEOF \/ ServerListDone \/ ServerUDP
    <3>1. /\ pc["server"] = "names" /\ sLeft = 0 /\ pc'["server"] = "command" /\ s2p' = s2p
      BY <1>1, <2>1, <2>3, ServerMovesDoes DEF ServerGoes
    <3>2. Rem' = Rem
      BY <3>1 DEF Rem
    <3>3. QED BY <3>1, <3>2
  <2>4. CASE ServerSecondPass
    <3>1. pc["server"] = "list" /\ pc'["server"] = "names" /\ sLeft' = files /\ s2p' = s2p
      BY <1>1, <2>4, ServerSecondPassDoes DEF ServerGoes
    <3>2. Rem' = Rem
      BY <3>1 DEF Rem
    <3>3. QED BY <3>1, <3>2
  <2>5. CASE ServerName
    <3>1. /\ pc["server"] = "names" /\ pc'["server"] = "names" /\ sLeft' = sLeft - 1
          /\ Len(s2p') = Len(s2p) + 1
      BY <1>1, <2>1, <2>5, ServerNameDoes DEF Delivered, Pushed
    <3>2. Rem = sLeft /\ Rem' = sLeft - 1
      BY <3>1 DEF Rem
    <3>3. QED BY <1>1, <3>1, <3>2
  <2>6. CASE ServerFile
    BY <1>1, <2>1, <2>6, ServerFileDoes
  <2>7. QED BY <2>2, <2>3, <2>4, <2>5, <2>6 DEF ServerStep
<1>5. QED BY <1>1, <1>2, <1>3, <1>4

LEMMA ServerStepClient ==
  ASSUME BaseInv, ServerInv, ClientInv, ServerStep
  PROVE  ClientInv'
<1>1. /\ pc'["client"] = pc["client"] /\ pc'["proxy"] = pc["proxy"]
      /\ UNCHANGED <<clientVars, command, files, c2p, p2c>>
  BY ServerLater DEF ServerGoes
<1>2. QED BY <1>1, ServerFlow, ClientQuiet

LEMMA KillClient ==
  ASSUME BaseInv, ServerInv, ClientInv, NEW p \in Procs, Kill(p), Alive'
  PROVE  /\ ClientInv' /\ Gone(p)' /\ p \in {"proxy", "server"} /\ pc'["client"] = pc["client"]
         /\ p = "server" => UNCHANGED <<p2c, c2p>> /\ pc'["proxy"] = pc["proxy"]
<1>1. /\ TypeOK /\ Len(p2c) \in Nat /\ Flow \in Nat /\ Rem \in Nat /\ Len(s2p) \in Nat /\ Alive
      /\ UNCHANGED <<clientVars, command, files, c2p>>
  BY ClientTypes, KillDoes, StaysSo DEF Next
<1>2. CASE p = "client"
  BY <1>1, <1>2, KillDoes DEF Alive, Gone, ClientGoes
<1>3. CASE p = "proxy"
  <2> DEFINE x == [what |-> "part", val |-> 0, of |-> command.of]
  <2>1. /\ pc'["client"] = pc["client"] /\ pc'["server"] = pc["server"] /\ pc'["proxy"] = "dead"
        /\ p2c' = p2c \/ (pc["proxy"] = "file" /\ Pushed(p2c, p2c', x))
    BY <1>1, <1>3, KillDoes DEF ProxyGoes
  <2>2. x.what \in FileParts /\ x.of = command.of /\ Gone("proxy")'
        /\ (Gone("server") => Gone("server")')
    BY <2>1 DEF Gone, FileParts
  <2> HIDE DEF x
  <2>3. CASE p2c' = p2c
    BY <1>1, <1>3, <2>1, <2>2, <2>3, ProxyLeaves
  <2>4. CASE pc["proxy"] = "file" /\ Pushed(p2c, p2c', x)
    BY <1>1, <1>3, <2>1, <2>2, <2>4, FileRelayed
  <2>5. QED BY <2>1, <2>3, <2>4
<1>4. CASE p = "server"
  <2>1. /\ pc'["client"] = pc["client"] /\ pc'["proxy"] = pc["proxy"] /\ pc'["server"] = "dead"
        /\ p2c' = p2c /\ ~Gone("server")
        /\ s2p' = s2p \/ pc["server"] = "file"
    BY <1>1, <1>4, KillDoes DEF ServerGoes, Gone
  <2>2. Gone("server")' /\ Rem' = 0
    BY <2>1 DEF Gone, Rem
  <2>3. Flow' \in Nat /\ Flow' <= Flow
    <3>1. CASE pc["proxy"] # "names"
      BY <1>1, <2>1, <3>1 DEF Flow
    <3>2. CASE pc["proxy"] = "names"
      <4>1. pc["server"] # "file"
        BY <2>1, <3>2 DEF ServerInv, Followed, Serving
      <4>2. Flow' = Len(s2p) + 0 /\ Flow = Len(s2p) + Rem
        BY <2>1, <2>2, <3>2, <4>1 DEF Flow
      <4>3. QED BY <1>1, <4>2
    <3>3. QED BY <3>1, <3>2
  <2>4. QED BY <1>1, <1>4, <2>1, <2>2, <2>3, ClientQuiet
<1>5. QED BY <1>2, <1>3, <1>4 DEF Procs

LEMMA ClientInvStep ==
  ASSUME BaseInv, [Next]_vars, Calm', Alive', ServerInv, OrderInv, ClientInv
  PROVE  ClientInv'
<1>1. TypeOK /\ Alive /\ Calm /\ UNCHANGED <<files, changes>>
  BY StaysSo DEF BaseInv
<1>2. CASE UNCHANGED vars
  <2>1. Flow' = Flow /\ Flow \in Nat
    BY <1>2, ClientTypes DEF vars, Flow, Rem
  <2>2. QED BY <1>2, <2>1, ClientQuiet DEF vars, Gone
<1>3. CASE ClientStep \/ ClientCommand
  <2>1. ASSUME NEW k \in Kinds, Asked(k), pc["client"] = "prompt", UNCHANGED <<cLeft, answer, p2c>>
        PROVE  ClientInv'
    BY <1>3, <2>1, AskedClient
  <2>2. CASE ClientCommand
    BY <1>1, <2>1, <2>2, ClientCommandDoes
  <2>3. CASE ClientRound
    <3>1. ~ClientGoes({"dead"})
      BY DEF Alive, Gone, ClientGoes
    <3>2. QED BY <1>1, <2>1, <2>3, <3>1, ClientRoundDoes
  <2>4. ~ClientMisreads /\ "short" \notin uneven'
    BY NothingTaken DEF Calm
  <2>5. QED
    BY <1>3, <2>2, <2>3, <2>4, ClientHelloClient, ClientIntClient, ClientNameClient,
       ClientFileClient DEF ClientStep
<1>4. CASE ProxyStep
  <2>1. ~ProxyReplay /\ ~ProxyJunk /\ ~ProxyMisreads /\ "short" \notin uneven'
    BY <1>1, ProxyReplayDoes, ProxyJunkDoes, NothingMisread DEF Alive, Calm
  <2>2. QED
    BY <1>1, <1>4, <2>1, ProxyHelloClient, ProxyCommandClient, ProxyTailClient, ProxyIntClient,
       ProxyNameClient, ProxyFileClient DEF ProxyStep
<1>5. CASE ServerStep
  BY <1>5, ServerStepClient
<1>6. CASE Environment
  <2>1. changes' # changes + 1
    BY <1>1 DEF Calm
  <2>2. CASE UNCHANGED <<files, changes, pc, s2p, p2c>>
    <3>1. UNCHANGED <<sent, typed, cLeft, answer, command, sLeft, files, c2p, p2c, s2p, pc>>
      BY <1>6, <2>2, EnvironmentLater
    <3>2. /\ Flow' \in Nat /\ Flow' <= Flow /\ (Gone("server") => Gone("server")')
          /\ pc'["client"] = pc["client"] /\ pc'["proxy"] = pc["proxy"]
      BY <3>1, ClientTypes DEF Flow, Rem, Gone
    <3>3. QED BY <3>1, <3>2, ClientQuiet
  <2>3. CASE \E p \in Procs : Kill(p)
    BY <2>3, KillClient
  <2>4. QED BY <1>6, <2>1, <2>2, <2>3, EnvironmentLater
<1>7. QED BY <1>2, <1>3, <1>4, <1>5, <1>6 DEF Next, Environment

-----------------------------------------------------------------------------
(* The steady part: nothing gets lost.                                     *)

LEMMA SteadyQuiet ==
  ASSUME BaseInv, SteadyInv, pc'["client"] = pc["client"], pc'["proxy"] = pc["proxy"],
         UNCHANGED <<typed, cLeft, c2p, p2c>>,
         Gone("server") => Gone("server")', ~Gone("server")' => Flow' = Flow
  PROVE  SteadyInv'
<1>1. (Pending' <=> Pending) /\ (Gone("proxy")' <=> Gone("proxy"))
  BY DEF Pending, Gone
<1>2. QED BY <1>1 DEF SteadyInv

LEMMA ClientSteady ==
  ASSUME BaseInv, ServerInv, ClientInv, SteadyInv, ClientStep \/ ClientCommand, Alive', Even',
         "short" \notin uneven'
  PROVE  SteadyInv'
<1>1. /\ TypeOK /\ Flow' = Flow /\ pc'["proxy"] = pc["proxy"] /\ (Gone("server")' <=> Gone("server"))
      /\ (Gone("proxy")' <=> Gone("proxy")) /\ Len(p2c) \in Nat /\ Flow \in Nat /\ cLeft \in Nat
  BY ClientTypes, ClientStepKeeps
<1>2. ASSUME pc'["client"] \notin {"int", "names"} PROVE SteadyInv'
  BY <1>2 DEF SteadyInv
<1>3. ASSUME NEW k \in Kinds, Asked(k), pc["client"] = "prompt", UNCHANGED <<cLeft, answer, p2c>>
      PROVE  SteadyInv'
  <2>1. pc'["client"] = "int" /\ (~Gone("proxy") => Pending') /\ Len(p2c') = 0
    BY <1>3, AskedClient DEF ClientInv, ClientPlaces
  <2>2. QED BY <1>1, <2>1 DEF SteadyInv, Gone
<1>4. CASE ClientHello
  BY <1>1, <1>2, <1>4, ClientHelloDoes DEF ClientGoes
<1>5. CASE ClientCommand
  BY <1>1, <1>3, <1>5, ClientCommandDoes
<1>6. CASE ClientRound
  <2>1. ~ClientGoes({"dead"})
    BY DEF Alive, Gone, ClientGoes
  <2>2. QED BY <1>1, <1>3, <1>6, <2>1, ClientRoundDoes
<1>7. CASE ClientInt
  <2>1. /\ pc["client"] = "int" /\ pc'["client"] # "int"
        /\ pc'["client"] = "names" =>
             typed = "LIST" /\ Len(p2c) > 0 /\ cLeft' = p2c[1].val /\ Len(p2c') = Len(p2c) - 1
    BY <1>7, ClientIntClient
  <2>2. CASE pc'["client"] = "names"
    BY <1>1, <2>1, <2>2 DEF SteadyInv
  <2>3. QED BY <1>2, <2>1, <2>2
<1>8. CASE ClientName
  <2>1. /\ pc'["client"] # "int"
        /\ pc'["client"] = "names" =>
             \/ Gone("proxy")
             \/ pc["client"] = "names" /\ cLeft' = cLeft - 1
                /\ Even /\ Len(p2c') = Len(p2c) - 1
    BY <1>8, ClientNameClient
  <2>2. CASE pc'["client"] = "names"
    BY <1>1, <2>1, <2>2 DEF SteadyInv
  <2>3. QED BY <1>2, <2>1, <2>2
<1>9. CASE ClientFile
  BY <1>2, <1>9, ClientFileClient
<1>10. CASE ClientMisreads
  BY <1>10, NothingTaken
<1>11. QED BY <1>4, <1>5, <1>6, <1>7, <1>8, <1>9, <1>10 DEF ClientStep

LEMMA ProxySteady ==
  ASSUME BaseInv, ServerInv, OrderInv, ClientInv, SteadyInv, ProxyStep, Alive, Even, Even',
         "short" \notin uneven'
  PROVE  SteadyInv'
<1>1. /\ TypeOK /\ ~Gone("proxy") /\ pc'["client"] = pc["client"] /\ UNCHANGED clientVars
      /\ Len(p2c) \in Nat /\ Flow \in Nat /\ cLeft \in Nat /\ typed \in Kinds
  BY ClientTypes, ProxyStepKeeps
<1>2. ASSUME pc'["proxy"] = "dead" PROVE SteadyInv'
  BY <1>2 DEF SteadyInv, Gone
<1>3. CASE ProxyHello
  <2>1. pc["proxy"] = "hello" /\ Len(p2c') = 0 /\ pc'["client"] # "names" /\ p2c' = p2c
        /\ pc'["proxy"] \in {"command", "end", "dead"}
    BY <1>1, <1>3, ProxyHelloClient, ProxyHelloDoes
  <2>2. pc["client"] = "int" /\ pc'["proxy"] = "command" => Pending'
    BY <1>3, <2>1, ProxyHelloClient DEF SteadyInv
  <2>3. QED BY <1>1, <2>1, <2>2 DEF SteadyInv, Gone
<1>4. CASE ProxyCommand
  <2>1. pc'["proxy"] \in {"int", "dead"} /\ Len(p2c') = 0 /\ pc'["client"] # "names"
    BY <1>4, ProxyCommandClient
  <2>2. QED BY <2>1 DEF SteadyInv
<1>5. CASE ProxyTail
  <2>1. UNCHANGED p2c /\ (pc'["proxy"] = "dead" \/ (Flow' = Flow /\ (Pending => Pending')))
        /\ pc["proxy"] = "command" /\ pc'["proxy"] \in {"command", "dead"}
        /\ pc'["server"] = pc["server"]
    BY <1>1, <1>5, ProxyTailClient, ProxyTailDoes DEF ProxyGoes
  <2>2. CASE pc'["proxy"] = "command"
    <3>1. Flow' = Flow /\ (Pending => Pending') /\ (Gone("server")' <=> Gone("server"))
      BY <2>1, <2>2 DEF Gone
    <3>2. QED BY <1>1, <2>1, <2>2, <3>1 DEF SteadyInv
  <2>3. QED BY <1>2, <2>1, <2>2
<1>6. CASE ProxyReplay \/ ProxyJunk
  BY <1>1, <1>6, ProxyReplayDoes, ProxyJunkDoes DEF Alive
<1>7. CASE ProxyInt
  <2>1. /\ pc'["client"] = "int" /\ Len(p2c') = 1
        /\ ~Gone("server") /\ typed = "LIST" => Len(p2c') - 1 + Flow' = p2c'[1].val
        /\ pc'["server"] = pc["server"]
    BY <1>1, <1>7, ProxyIntClient, ProxyIntDoes
  <2>2. ~Gone("server")' => ~Gone("server")
    BY <2>1 DEF Gone
  <2>3. QED BY <1>1, <2>1, <2>2 DEF SteadyInv
<1>8. CASE ProxyName
  <2>1. pc["proxy"] = "names" /\ pc'["server"] = pc["server"]
    BY <1>1, <1>8, ProxyNameDoes DEF ProxyGoes
  <2>2. ~Gone("server")' <=> ~Gone("server")
    BY <2>1 DEF Gone
  <2>3. CASE Gone("server") /\ UNCHANGED <<p2c, c2p>>
    <3>1. Pending' <=> Pending
      BY <2>3 DEF Pending
    <3>2. QED BY <1>1, <2>1, <2>2, <2>3, <3>1 DEF SteadyInv
  <2>4. CASE /\ Len(p2c') > 0 /\ (Len(p2c) > 0 => p2c'[1] = p2c[1])
             /\ Flow' \in Nat /\ Len(p2c') \in Nat
             /\ ~Gone("server") => Even /\ Len(p2c') + Flow' = Len(p2c) + Flow
             /\ pc["client"] = "int" => Len(p2c) > 0
    <3>1. Len(p2c') \in Nat /\ Flow' \in Nat
      BY <2>4
    <3>2. ~Gone("server")' /\ pc["client"] = "names" => Len(p2c') + Flow' = cLeft
      BY <1>1, <2>1, <2>2, <2>4 DEF SteadyInv, Gone
    <3>3. ~Gone("server")' /\ pc["client"] = "int" /\ typed = "LIST" =>
            Len(p2c') - 1 + Flow' = p2c'[1].val
      <4>1. SUFFICES ASSUME ~Gone("server"), pc["client"] = "int", typed = "LIST"
                     PROVE  Len(p2c') - 1 + Flow' = p2c'[1].val
        BY <2>2
      <4>2. Len(p2c) - 1 + Flow = p2c[1].val
        BY <1>1, <2>4, <4>1 DEF SteadyInv
      <4>3. Len(p2c') - 1 + Flow' = Len(p2c) - 1 + Flow
        BY <1>1, <2>4, <3>1, <4>1
      <4>4. QED BY <2>4, <4>1, <4>2, <4>3
    <3>4. QED BY <1>1, <2>4, <3>2, <3>3 DEF SteadyInv
  <2>5. QED BY <1>8, <2>3, <2>4, ProxyNameClient
<1>9. CASE ProxyFile
  <2>1. /\ Len(p2c') > 0 /\ pc'["client"] # "names" /\ (pc'["client"] = "int" => typed' # "LIST")
    BY <1>9, ProxyFileClient
  <2>2. QED BY <2>1 DEF SteadyInv
<1>10. CASE ProxyMisreads
  BY <1>10, NothingMisread
<1>11. QED BY <1>3, <1>4, <1>5, <1>6, <1>7, <1>8, <1>9, <1>10 DEF ProxyStep

LEMMA SteadyStep ==
  ASSUME BaseInv, [Next]_vars, Calm', Alive', Even', ServerInv, OrderInv, ClientInv,
         Even => SteadyInv
  PROVE  SteadyInv'
<1>1. TypeOK /\ Alive /\ Calm /\ Even /\ SteadyInv /\ UNCHANGED <<files, changes>>
  BY StaysSo DEF BaseInv, Even
<1>8. "short" \notin uneven'
  BY DEF Calm
<1>2. CASE UNCHANGED vars
  BY <1>1, <1>2, SteadyQuiet DEF vars, Gone, Flow, Rem
<1>3. CASE ClientStep \/ ClientCommand
  BY <1>1, <1>3, <1>8, ClientSteady
<1>4. CASE ProxyStep
  BY <1>1, <1>4, <1>8, ProxySteady
<1>5. CASE ServerStep
  BY <1>1, <1>5, ServerFlow, ServerLater, SteadyQuiet DEF ServerGoes
<1>6. CASE Environment
  <2>1. changes' # changes + 1
    BY <1>1 DEF Calm
  <2>2. CASE UNCHANGED <<files, changes, pc, s2p, p2c>>
    <3>1. UNCHANGED <<typed, cLeft, command, sLeft, files, c2p, p2c, s2p, pc>>
      BY <1>6, <2>2, EnvironmentLater
    <3>2. Flow' = Flow
      BY <3>1 DEF Flow, Rem
    <3>3. QED BY <1>1, <3>1, <3>2, SteadyQuiet DEF Gone
  <2>3. CASE \E p \in Procs : Kill(p)
    <3>1. PICK p \in Procs : Kill(p)
      BY <2>3
    <3>2. /\ Gone(p)' /\ p \in {"proxy", "server"} /\ pc'["client"] = pc["client"]
          /\ p = "server" => UNCHANGED <<p2c, c2p>> /\ pc'["proxy"] = pc["proxy"]
          /\ UNCHANGED <<typed, cLeft>>
      BY <1>1, <3>1, KillClient, KillDoes
    <3>3. CASE p = "proxy"
      BY <3>2, <3>3 DEF SteadyInv, Gone
    <3>4. CASE p = "server"
      BY <1>1, <3>2, <3>4, SteadyQuiet
    <3>5. QED BY <3>2, <3>3, <3>4
  <2>4. QED BY <1>6, <2>1, <2>2, <2>3, EnvironmentLater
<1>7. QED BY <1>2, <1>3, <1>4, <1>5, <1>6 DEF Next, Environment

-----------------------------------------------------------------------------
(* Parts of files.                                                         *)

\* Streams without parts stay so.
LEMMA PartsPushed ==
  ASSUME NEW q, NEW r, NEW x, Pushed(q, r, x), Len(q) \in Nat, NoParts(q), x.what # "part"
  PROVE  NoParts(r)
BY DEF Pushed, NoParts

LEMMA PartsDropped ==
  ASSUME NEW q, NEW r, NEW k \in Nat, Dropped(q, r, k), Len(q) \in Nat, NoParts(q)
  PROVE  NoParts(r)
<1>1. \A i \in 1..Len(r) : i + k \in 1..Len(q) /\ r[i] = q[i + k]
  BY DEF Dropped
<1>2. QED BY <1>1 DEF NoParts

LEMMA PartsJoined ==
  ASSUME NEW q, NEW r, NEW s, NEW k, Len(q) \in Nat, Len(s) \in Nat, k \in 1..Len(s),
         Joined(q, r, s, k), NoParts(q), NoParts(s)
  PROVE  NoParts(r)
<1>1. ASSUME NEW i \in 1..Len(r) PROVE r[i].what # "part"
  <2>1. CASE i <= Len(q)
    BY <2>1 DEF Joined, NoParts
  <2>2. CASE i > Len(q)
    <3>1. i - Len(q) \in 1..k /\ Len(q) + (i - Len(q)) = i
      BY <1>1, <2>2 DEF Joined
    <3>2. r[i] = s[i - Len(q)]
      BY <3>1 DEF Joined
    <3>3. QED BY <3>1, <3>2 DEF NoParts
  <2>3. QED BY <2>1, <2>2 DEF Joined
<1>2. QED BY <1>1 DEF NoParts

\* The proxy takes units from the server's stream and passes them on.
LEMMA ProxyParts ==
  ASSUME BaseInv, PartsInv, ProxyStep, "short" \notin uneven'
  PROVE  PartsInv'
<1>1. /\ TypeOK /\ Len(s2p) \in Nat /\ Len(p2c) \in Nat /\ ~Gone("proxy")
      /\ 1 \in Nat /\ command \in Texts
  BY StreamTypes, ProxyLater DEF BaseInv, TypeOK
<1>2. ASSUME NEW x, x.what # "part", NEW to, Delivered("proxy", "client", p2c, p2c', x, to),
             NoParts(p2c)
      PROVE  NoParts(p2c')
  BY <1>1, <1>2, PartsPushed DEF Delivered
<1>3. CASE ProxyHello
  <2>1. /\ pc["proxy"] = "hello" /\ pc'["proxy"] # "hello" /\ UNCHANGED <<s2p, p2c>>
    BY <1>1, <1>3, ProxyHelloDoes
  <2>2. NoParts(s2p) /\ NoParts(p2c)
    BY <2>1 DEF PartsInv, Gone
  <2>3. QED BY <2>1, <2>2 DEF PartsInv
<1>4. CASE ProxyCommand \/ ProxyTail \/ ProxyReplay \/ ProxyJunk
  <2>1. /\ UNCHANGED <<s2p, p2c>> /\ pc'["server"] = pc["server"] /\ pc'["proxy"] # "hello"
    BY <1>1, <1>4, ProxyCommandDoes, ProxyTailDoes, ProxyReplayDoes, ProxyJunkDoes
    DEF ProxyGoes, Onward
  <2>2. QED BY <1>1, <2>1 DEF PartsInv, Gone
<1>5. ASSUME pc'["server"] = pc["server"], pc'["proxy"] # "hello",
             NoParts(s2p) => NoParts(s2p'), NoParts(s2p) /\ NoParts(p2c) => NoParts(p2c')
      PROVE  PartsInv'
  BY <1>1, <1>5 DEF PartsInv, Gone
<1>6. CASE ProxyInt
  <2>1. /\ pc'["server"] = pc["server"] /\ pc'["proxy"] # "hello"
    BY <1>1, <1>6, ProxyIntDoes DEF AfterRelay
  <2>2. \A v, n : Reported(v, n).what # "part"
    BY DEF Reported
  <2>3. QED BY <1>1, <1>2, <1>5, <1>6, <2>1, <2>2, PartsDropped, ProxyIntDoes
<1>7. CASE ProxyName
  <2>1. /\ pc'["server"] = pc["server"] /\ pc'["proxy"] # "hello"
    BY <1>1, <1>7, ProxyNameDoes DEF ProxyGoes
  <2>2. CASE UNCHANGED <<s2p, p2c>>
    BY <1>5, <2>1, <2>2
  <2>3. ASSUME NEW k \in 1..Len(s2p), Dropped(s2p, s2p', k),
               p2c' = p2c \/ Joined(p2c, p2c', s2p, k)
        PROVE  PartsInv'
    <3>1. k \in Nat
      BY <1>1
    <3>2. NoParts(s2p) => NoParts(s2p')
      BY <1>1, <2>3, <3>1, PartsDropped
    <3>3. NoParts(s2p) /\ NoParts(p2c) => NoParts(p2c')
      BY <1>1, <2>3, PartsJoined
    <3>4. QED BY <1>5, <2>1, <3>2, <3>3
  <2>4. QED BY <1>1, <1>7, <2>2, <2>3, ProxyNameDoes
<1>8. CASE ProxyFile
  <2>1. /\ pc'["server"] = pc["server"] /\ pc'["proxy"] # "hello"
        /\ uneven' # uneven \cup {"short"}
    BY <1>1, <1>8, ProxyFileDoes DEF ProxyGoes
  <2>2. CASE /\ Len(s2p) > 0 /\ Dropped(s2p, s2p', 1)
             /\ Delivered("proxy", "client", p2c, p2c', s2p[1], "command")
    <3>1. NoParts(s2p) => NoParts(s2p')
      BY <1>1, <2>2, PartsDropped
    <3>2. NoParts(s2p) => s2p[1].what # "part"
      BY <1>1, <2>2 DEF NoParts
    <3>3. QED BY <1>2, <1>5, <2>1, <2>2, <3>1, <3>2
  <2>3. CASE /\ UNCHANGED s2p
             /\ Delivered("proxy", "client", p2c, p2c',
                          [what |-> "blocks", val |-> 0, of |-> command.of], "command")
    BY <1>2, <1>5, <2>1, <2>3
  <2>4. QED BY <1>1, <1>8, <2>1, <2>2, <2>3, ProxyFileDoes
<1>9. CASE ProxyMisreads
  BY <1>1, <1>5, <1>9, ProxyMisreadsDoes DEF ProxyGoes
<1>10. QED BY <1>3, <1>4, <1>6, <1>7, <1>8, <1>9 DEF ProxyStep

\* Where a server that takes a step is.
LEMMA ServerPlace ==
  ASSUME ServerStep
  PROVE  pc["server"] # "off"
BY DEF ServerStep, ServerAccept, ServerCommand, ServerEOF, ServerSecondPass, ServerName,
       ServerListDone, ServerFile, ServerUDP

\* The server writes no part while it lives.
LEMMA ServerParts ==
  ASSUME BaseInv, PartsInv, ServerStep
  PROVE  PartsInv'
<1>1. /\ TypeOK /\ Len(s2p) \in Nat /\ ~Gone("server") /\ pc["server"] # "off"
      /\ pc'["proxy"] = pc["proxy"] /\ UNCHANGED p2c
  BY StreamTypes, ServerLater, ServerPlace DEF BaseInv, ServerGoes
<1>2. ASSUME NEW x, x.what # "part", NEW to, Delivered("server", "proxy", s2p, s2p', x, to)
      PROVE  NoParts(s2p')
  BY <1>1, <1>2, PartsPushed DEF Delivered, PartsInv
<1>3. NoParts(s2p')
  <2>1. CASE UNCHANGED s2p
    BY <1>1, <2>1 DEF PartsInv
  <2>2. CASE ServerCommand
    <3>1. p2s[1].kind \in Kinds \cup {"tail"}
      BY <1>1, <2>2, StreamTypes DEF ServerCommand, BaseInv, KindsInv
    <3>2. FirstUnit(p2s[1]).what # "part"
      BY DEF FirstUnit
    <3>3. QED BY <1>1, <1>2, <2>1, <2>2, <3>1, <3>2, ServerCommandDoes
  <2>3. CASE ServerName
    BY <1>1, <1>2, <2>3, ServerNameDoes
  <2>4. CASE ServerFile
    <3>1. FileOf(buffer).what # "part"
      BY DEF FileOf
    <3>2. QED BY <1>1, <1>2, <2>4, <3>1, ServerFileDoes
  <2>5. CASE ServerAccept \/ ServerEOF \/ ServerListDone \/ ServerUDP \/ ServerSecondPass
    BY <1>1, <2>1, <2>5, ServerMovesDoes, ServerSecondPassDoes
  <2>6. QED BY <2>2, <2>3, <2>4, <2>5 DEF ServerStep
<1>4. pc["proxy"] # "hello" /\ (NoParts(p2c) \/ Gone("proxy"))
  BY <1>1 DEF PartsInv
<1>5. Gone("proxy") => Gone("proxy")'
  BY <1>1 DEF Gone
<1>6. QED BY <1>1, <1>3, <1>4, <1>5 DEF PartsInv

\* The client only takes from its stream.
LEMMA ClientTakes ==
  ASSUME BaseInv, ClientStep \/ ClientCommand, "short" \notin uneven', NoParts(p2c)
  PROVE  NoParts(p2c')
<1>1. TypeOK /\ Len(p2c) \in Nat /\ 1 \in Nat
  BY StreamTypes DEF BaseInv
<1>2. CASE UNCHANGED p2c
  BY <1>2
<1>3. ASSUME NEW k \in 1..Len(p2c), Dropped(p2c, p2c', k) PROVE NoParts(p2c')
  <2>1. k \in Nat
    BY <1>1
  <2>2. QED BY <1>1, <1>3, <2>1, PartsDropped
<1>4. CASE ClientHello \/ ClientCommand \/ ClientRound \/ ClientMisreads
  BY <1>2, <1>4 DEF ClientHello, ClientCommand, ClientRound, ClientMisreads
<1>5. CASE ClientInt
  BY <1>1, <1>2, <1>5, ClientIntDoes, PartsDropped
<1>6. CASE ClientName
  BY <1>1, <1>2, <1>3, <1>6, ClientNameDoes
<1>7. CASE ClientFile
  <2>1. uneven' # uneven \cup {"short"}
    OBVIOUS
  <2>2. QED BY <1>1, <1>2, <1>7, <2>1, ClientFileDoes, PartsDropped
<1>8. QED BY <1>4, <1>5, <1>6, <1>7 DEF ClientStep

LEMMA PartsStep ==
  ASSUME BaseInv, [Next]_vars, PartsInv, "short" \notin uneven'
  PROVE  PartsInv'
<1>1. TypeOK /\ Len(s2p) \in Nat /\ Len(p2c) \in Nat
  BY StreamTypes DEF BaseInv
<1>2. CASE UNCHANGED vars
  BY <1>2 DEF vars, PartsInv, NoParts, Gone
<1>3. CASE ClientStep \/ ClientCommand
  <2>1. pc'["proxy"] = pc["proxy"] /\ pc'["server"] = pc["server"] /\ UNCHANGED s2p
    BY <1>3, ClientLater DEF ClientGoes
  <2>2. NoParts(p2c) => NoParts(p2c')
    BY <1>1, <1>3, ClientTakes
  <2>3. QED BY <2>1, <2>2 DEF PartsInv, Gone
<1>4. CASE ProxyStep
  BY <1>4, ProxyParts
<1>5. CASE ServerStep
  BY <1>5, ServerParts
<1>6. CASE Environment
  <2>1. CASE UNCHANGED <<pc, s2p, p2c>>
    BY <2>1 DEF PartsInv, NoParts, Gone
  <2>2. CASE \E p \in Procs : Kill(p)
    <3>1. PICK p \in Procs : Kill(p)
      BY <2>2
    <3>2. CASE p = "client"
      BY <1>1, <3>1, <3>2, KillDoes DEF PartsInv, Gone, ClientGoes
    <3>3. CASE p = "proxy"
      BY <1>1, <3>1, <3>3, KillDoes DEF PartsInv, Gone, ProxyGoes
    <3>4. CASE p = "server"
      BY <1>1, <3>1, <3>4, KillDoes DEF PartsInv, Gone, ServerGoes
    <3>5. QED BY <3>2, <3>3, <3>4 DEF Procs
  <2>3. CASE DirChange \/ InputEnd \/ OthersFill \/ OthersDie
    BY <2>1, <2>3 DEF DirChange, InputEnd, OthersFill, OthersDie
  <2>4. QED BY <1>6, <2>2, <2>3 DEF Environment
<1>7. QED BY <1>2, <1>3, <1>4, <1>5, <1>6 DEF Next, Environment

-----------------------------------------------------------------------------
(* The whole invariant, and what it says.                                  *)

\* Each layer is preserved with the help of the ones below it.
LEMMA InvStep ==
  ASSUME IInv, [Next]_vars
  PROVE  IInv'
<1>1. BaseInv /\ BaseInv'
  BY BaseStep DEF IInv
<1>2. Alive' /\ "server" \notin uneven' => OrderInv'
  BY <1>1, OrderStep DEF IInv
<1>3. Calm' => ServerInv'
  BY <1>1, ServerInvStep DEF IInv
<1>4. Calm' /\ Alive' => ClientInv'
  <2>1. SUFFICES ASSUME Calm', Alive' PROVE ClientInv'
    OBVIOUS
  <2>2. Calm /\ Alive
    BY <1>1, <2>1, StaysSo
  <2>3. QED BY <1>1, <2>1, <2>2, ClientInvStep DEF IInv, Calm
<1>5. Calm' /\ Alive' /\ Even' => SteadyInv'
  <2>1. SUFFICES ASSUME Calm', Alive', Even' PROVE SteadyInv'
    OBVIOUS
  <2>2. Calm /\ Alive /\ "server" \notin uneven
    BY <1>1, <2>1, StaysSo DEF Calm
  <2>3. QED BY <1>1, <2>1, <2>2, SteadyStep DEF IInv
<1>6. "short" \notin uneven' => PartsInv'
  <2>1. uneven \subseteq uneven'
    BY <1>1, StaysSo
  <2>2. QED BY <1>1, <2>1, PartsStep DEF IInv
<1>7. QED BY <1>1, <1>2, <1>3, <1>4, <1>5, <1>6 DEF IInv

\* All layers together, each under the condition it needs.
THEOREM Invariant == Spec => []IInv
<1>1. Init => IInv
  BY Start
<1>2. IInv /\ [Next]_vars => IInv'
  BY InvStep
<1>3. QED BY <1>1, <1>2, PTL DEF Spec

\* As long as server_files does not change, the server reads every DOWNLOAD in
\* one piece and no block of a file is read short, nobody takes the bytes of a
\* name or of a file for a number, and whatever is on its way to a live client
\* answers the command it waits for.
THEOREM StaysInStep == Spec => []InStep
<1>1. ASSUME IInv PROVE NeverGarbled
  <2>1. SUFFICES ASSUME Calm PROVE pc["proxy"] # "garbled" /\ pc["client"] # "garbled"
    BY DEF NeverGarbled, Unspoilt, Calm
  <2>2. ServerInv /\ (Alive => ClientInv)
    BY <1>1, <2>1 DEF IInv
  <2>3. QED BY <2>2 DEF ServerInv, ClientInv, ClientPlaces, Alive, Gone
<1>2. ASSUME IInv PROVE RepliesMatch
  <2>1. SUFFICES ASSUME Calm, Alive, NEW i \in 1..Len(p2c) PROVE p2c[i].of = sent
    <3>1. p2c \in Seq(Units)
      BY <1>2, StreamTypes DEF IInv, BaseInv
    <3>2. DOMAIN p2c = 1..Len(p2c)
      BY <3>1
    <3>3. QED BY <3>2 DEF RepliesMatch, Unspoilt, Calm, Alive
  <2>2. BaseInv /\ ClientInv
    BY <1>2, <2>1 DEF IInv
  <2>3. Len(p2c) \in Nat /\ Len(p2c) > 0 /\ i \in Nat
    BY <2>2, ClientTypes
  <2>4. pc["client"] \in {"int", "names", "file"}
    BY <2>2, <2>3 DEF ClientInv, ClientPlaces
  <2>5. CASE pc["client"] = "int"
    <3>1. p2c[1].of = sent /\ Following(p2c, 2, typed, sent)
      BY <2>2, <2>3, <2>5 DEF ClientInv, NumberArrives
    <3>2. ASSUME i # 1 PROVE p2c[i].of = sent
      <4>1. i \in 2..Len(p2c)
        BY <2>3, <3>2
      <4>2. CASE typed = "LIST"
        BY <3>1, <4>1, <4>2 DEF Following, NamesFrom
      <4>3. CASE typed \in {"TCP", "WHOLE"}
        <5>1. Len(p2c) <= 2 /\ (Len(p2c) = 2 => p2c[2].of = sent)
          BY <3>1, <4>3 DEF Following, FileFrom
        <5>2. i = 2 /\ Len(p2c) = 2
          <6>1. \A m \in Nat : \A l \in 2..m : m <= 2 => l = 2 /\ m = 2
            OBVIOUS
          <6>2. QED BY <2>3, <4>1, <5>1, <6>1
        <5>3. QED BY <5>1, <5>2
      <4>4. CASE typed \notin {"LIST", "TCP", "WHOLE"}
        <5>1. Len(p2c) < 2
          BY <3>1, <4>4 DEF Following
        <5>2. QED BY <2>3, <4>1, <5>1
      <4>5. QED BY <4>2, <4>3, <4>4
    <3>3. QED BY <3>1, <3>2
  <2>6. CASE pc["client"] = "names"
    BY <2>2, <2>6 DEF ClientInv, RestArrives, NamesFrom
  <2>7. CASE pc["client"] = "file"
    <3>1. Len(p2c) <= 1 /\ (Len(p2c) = 1 => p2c[1].of = sent)
      BY <2>2, <2>7 DEF ClientInv, RestArrives, FileFrom
    <3>2. i = 1 /\ Len(p2c) = 1
      <4>1. \A m \in Nat : \A l \in 1..m : m <= 1 => l = 1 /\ m = 1
        OBVIOUS
      <4>2. QED BY <2>3, <3>1, <4>1
    <3>3. QED BY <3>1, <3>2
  <2>8. QED BY <2>4, <2>5, <2>6, <2>7
<1>3. IInv => InStep
  BY <1>1, <1>2 DEF InStep
<1>4. QED BY <1>3, Invariant, PTL

\* The client, the proxy and the server all wait for each other only if a read
\* has merged two messages or returned less than a block of a file, the server
\* has read a DOWNLOAD in two pieces, or server_files has changed.
THEOREM NobodyWaitsForAll == Spec => []WaitsForAReason
<1>1. ASSUME IInv PROVE WaitsForAReason
  <2>1. SUFFICES ASSUME EverybodyWaits, "glued" \notin uneven, "short" \notin uneven,
                        "server" \notin uneven, ~(changes > 0)
                 PROVE  FALSE
    BY DEF WaitsForAReason
  <2>2. BaseInv /\ Calm /\ Alive /\ Even
    <3>1. changes \in Nat
      BY <1>1, BoundsAssumption DEF IInv, BaseInv, TypeOK
    <3>2. QED BY <1>1, <2>1, <3>1 DEF IInv, Calm, Alive, Even, EverybodyWaits, ClientWaits, Gone
  <2>3. ServerInv /\ ClientInv /\ SteadyInv
    BY <1>1, <2>2 DEF IInv
  <2>0. PartsInv
    BY <1>1, <2>1 DEF IInv
  <2>4. /\ Len(p2c) = 0 /\ Len(p2s) = 0 /\ pc["server"] = "command"
        /\ pc["client"] \in {"int", "names", "file"}
        /\ ~Gone("server") /\ Rem = 0 /\ cLeft \in Nat
        /\ \/ pc["proxy"] = "command" /\ Len(c2p) = 0
           \/ pc["proxy"] \in {"int", "names", "file"} /\ Len(s2p) = 0
    <3>1. /\ Len(p2s) = 0 /\ pc["server"] = "command"
          /\ pc["client"] \in {"int", "names", "file"}
          /\ ~Gone("server") /\ ~Gone("proxy") /\ Rem = 0 /\ cLeft \in Nat
          /\ \/ pc["proxy"] = "command" /\ Len(c2p) = 0
             \/ pc["proxy"] \in {"int", "names", "file"} /\ Len(s2p) = 0
      BY <2>1, <2>2, ClientTypes DEF EverybodyWaits, ClientWaits, Gone, Rem
    <3>2. NoParts(p2c)
      BY <2>0, <3>1 DEF PartsInv
    <3>3. p2c \in Seq(Units) /\ DOMAIN p2c = 1..Len(p2c) /\ Len(p2c) \in Nat
      BY <2>2, StreamTypes DEF BaseInv
    <3>4. \A i \in 1..Len(p2c) : p2c[i].what = "part"
      BY <2>1, <3>3 DEF EverybodyWaits, ClientWaits
    <3>5. Len(p2c) = 0
      <4>1. SUFFICES ASSUME 1 \in 1..Len(p2c) PROVE FALSE
        BY <3>3
      <4>2. QED BY <3>2, <3>4, <4>1 DEF NoParts
    <3>6. QED BY <3>1, <3>5
  <2>5. CASE pc["proxy"] = "command" /\ Len(c2p) = 0
    <3>1. ~Pending /\ Flow = 0 /\ ~Gone("proxy")
      BY <2>5 DEF Pending, Flow, Gone
    <3>2. pc["client"] # "int"
      BY <2>3, <2>4, <2>5, <3>1 DEF SteadyInv
    <3>3. pc["client"] # "names"
      <4>1. SUFFICES ASSUME pc["client"] = "names" PROVE FALSE
        OBVIOUS
      <4>2. 0 + 0 = cLeft
        BY <2>3, <2>4, <3>1, <4>1 DEF SteadyInv
      <4>3. cLeft > 0
        BY <2>2, <4>1 DEF BaseInv, Bounds
      <4>4. QED BY <2>4, <4>2, <4>3
    <3>4. pc["client"] # "file"
      BY <2>3, <2>4, <2>5 DEF ClientInv, RestArrives
    <3>5. QED BY <2>4, <3>2, <3>3, <3>4
  <2>6. CASE pc["proxy"] = "int" /\ Len(s2p) = 0
    <3>1. Waiting
      BY <2>3, <2>6 DEF ServerInv
    <3>2. QED BY <2>4, <3>1 DEF Waiting
  <2>7. CASE pc["proxy"] = "names" /\ Len(s2p) = 0
    <3>1. pLeft \in 1..files /\ command.kind = "LIST" /\ Serving(1, pLeft)
      BY <2>3, <2>4, <2>7 DEF ServerInv, Followed
    <3>2. 0 - (1 - 1) + 0 = pLeft
      BY <2>2, <2>4, <2>7, <3>1 DEF Serving
    <3>3. QED BY <3>1, <3>2
  <2>8. CASE pc["proxy"] = "file" /\ Len(s2p) = 0
    <3>1. command.kind \in {"TCP", "WHOLE"} /\ Serving(1, 1)
      BY <2>3, <2>4, <2>8 DEF ServerInv, Followed
    <3>2. pc["server"] = "file"
      BY <2>8, <3>1 DEF Serving
    <3>3. QED BY <2>4, <3>2
  <2>9. QED BY <2>4, <2>5, <2>6, <2>7, <2>8
<1>2. IInv => WaitsForAReason
  BY <1>1
<1>3. QED BY <1>2, Invariant, PTL

-----------------------------------------------------------------------------
(* The session keeps the promise of Dialogue.                              *)

\* What Dialogue calls true, and where nothing is promised any more.
LEMMA DialogueView ==
  ASSUME TypeOK
  PROVE  /\ Truth = NumberOf(typed)
         /\ ~(Gone("client") \/ ~Unspoilt) <=> Calm /\ Alive
<1>1. changes \in Nat
  BY BoundsAssumption DEF TypeOK
<1>2. Truth = NumberOf(typed)
  BY DEF Truth, NumberOf
<1>3. QED BY <1>1, <1>2 DEF Calm, Alive, Unspoilt

\* A command is sent once the one before has its number.
LEMMA CommandAsks ==
  ASSUME ClientInv, pc["client"] = "prompt", sent' = sent + 1, answer' = answer
  PROVE  Promise!Ask
BY DEF ClientInv, ClientPlaces, Promise!Ask

\* The number the client reads answers the command it has sent.
LEMMA NumberAnswers ==
  ASSUME BaseInv, ServerInv, ClientInv, ClientInt
  PROVE  Promise!Answer
<1>1. /\ pc["client"] = "int" /\ TypeOK /\ Truth = NumberOf(typed)
      /\ UNCHANGED <<sent, typed, files>>
  BY ClientTypes, ClientIntDoes, DialogueView DEF inputVars, envVars
<1>2. answer.of < sent
  BY <1>1 DEF ClientInv, ClientPlaces
<1>3. /\ answer' \in {[val |-> Truth, of |-> sent], [val |-> 0, of |-> sent]}
      /\ answer'.val # Truth => Gone("proxy") \/ Gone("server")
  BY <1>1, ClientIntClient
<1>4. \/ answer' = [val |-> Truth, of |-> sent]
      \/ (Gone("proxy") \/ Gone("server")) /\ answer' = [val |-> 0, of |-> sent]
  BY <1>3
<1>5. sent' = sent /\ Truth' = Truth
  BY <1>1 DEF Truth
<1>6. QED BY <1>2, <1>4, <1>5 DEF Promise!Answer

\* While something is promised, every step asks, answers, or does neither.
LEMMA DialogueStep ==
  ASSUME BaseInv, ServerInv, ClientInv, [Next]_vars, Calm', Alive'
  PROVE  Promise!Ask \/ Promise!Answer \/ Promise!Elsewhere
<1>1. TypeOK /\ Alive /\ Calm /\ UNCHANGED <<files, changes>>
  BY StaysSo DEF BaseInv
<1>2. ASSUME UNCHANGED <<sent, answer, typed>> PROVE Promise!Elsewhere
  BY <1>1, <1>2 DEF Promise!Elsewhere, Truth, envVars
<1>3. CASE UNCHANGED vars
  BY <1>2, <1>3 DEF vars, clientVars, inputVars
<1>4. CASE ClientCommand \/ ClientRound
  <2>1. ~ClientGoes({"dead"})
    BY DEF Alive, Gone, ClientGoes
  <2>2. pc["client"] = "prompt" /\ sent' = sent + 1 /\ answer' = answer
    BY <1>1, <1>4, <2>1, ClientCommandDoes, ClientRoundDoes DEF Asked
  <2>3. QED BY <2>2, CommandAsks
<1>5. CASE ClientInt
  BY <1>5, NumberAnswers
<1>6. CASE ClientHello \/ ClientMisreads \/ ClientName \/ ClientFile
  BY <1>1, <1>2, <1>6, ClientHelloDoes, ClientMisreadsDoes, ClientNameDoes, ClientFileDoes
  DEF clientVars, inputVars
<1>7. CASE ProxyStep \/ ServerStep
  BY <1>2, <1>7, ProxyLater, ServerLater DEF clientVars, inputVars
<1>8. CASE Environment
  BY <1>2, <1>8, EnvironmentLater
<1>9. QED BY <1>3, <1>4, <1>5, <1>6, <1>7, <1>8 DEF Next, ClientStep, Environment

\* Session implements Dialogue: a live client gets one number for each command,
\* before it sends the next, and it is the command's own and true, or 0 when one
\* of the processes that serve it has ended.
THEOREM KeepsTheDialogue == Spec => Dialogues
<1>1. Init => Promise!Init
  BY DEF Init, Promise!Init
<1>2. IInv /\ IInv' /\ [Next]_vars => [Promise!Next]_Promise!dVars
  <2>1. SUFFICES ASSUME IInv, IInv', [Next]_vars PROVE Promise!Next
    OBVIOUS
  <2> DEFINE off == Gone("client") \/ ~Unspoilt
  <2>2. BaseInv /\ TypeOK /\ (~off <=> Calm /\ Alive)
    BY <2>1, DialogueView DEF IInv, BaseInv
  <2>3. ~off' <=> Calm' /\ Alive'
    BY DEF Calm, Alive, Unspoilt
  <2>4. off => off'
    BY <2>1, <2>2, <2>3, StaysSo
  <2>5. ASSUME ~off' PROVE Promise!Ask \/ Promise!Answer \/ Promise!Elsewhere
    <3>1. Calm' /\ Alive' /\ ServerInv /\ ClientInv
      BY <2>1, <2>2, <2>3, <2>4, <2>5 DEF IInv
    <3>2. QED BY <2>1, <2>2, <3>1, DialogueStep
  <2>6. QED BY <2>4, <2>5 DEF Promise!Next
<1>3. QED BY <1>1, <1>2, Invariant, PTL DEF Spec, Dialogues, Promise!Spec
=============================================================================
