----------------------------- MODULE QueueFacts -----------------------------
(* Facts about queues without repetitions, which the kernel keeps of the   *)
(* connections that wait for accept(), and about streams.                  *)
EXTENDS Integers, SequenceTheorems, TLAPS

\* The head of a queue without repetitions is not in its tail.
LEMMA HeadTailFacts ==
  ASSUME NEW S, NEW q \in Seq(S), q # << >>,
         \A i, j \in DOMAIN q : q[i] = q[j] => i = j
  PROVE  /\ Head(q) \in S /\ Tail(q) \in Seq(S)
         /\ Len(Tail(q)) = Len(q) - 1
         /\ DOMAIN Tail(q) = 1..(Len(q) - 1)
         /\ \A i \in 1..(Len(q) - 1) : Tail(q)[i] = q[i + 1]
         /\ Head(q) \in {q[i] : i \in DOMAIN q}
         /\ {Tail(q)[i] : i \in DOMAIN Tail(q)}
              = {q[i] : i \in DOMAIN q} \ {Head(q)}
         /\ \A i, j \in DOMAIN Tail(q) : Tail(q)[i] = Tail(q)[j] => i = j
<1>1. /\ Len(q) \in Nat /\ Len(q) >= 1 /\ DOMAIN q = 1..Len(q)
      /\ Head(q) = q[1]
  OBVIOUS
<1>2. /\ Tail(q) \in Seq(S) /\ Len(Tail(q)) = Len(q) - 1
      /\ \A i \in 1..(Len(q) - 1) : Tail(q)[i] = q[i + 1]
  OBVIOUS
<1>3. DOMAIN Tail(q) = 1..(Len(q) - 1)
  BY <1>1, <1>2
<1>4. Head(q) \in S /\ Head(q) \in {q[i] : i \in DOMAIN q}
  BY <1>1
<1>5. \A i \in 1..(Len(q) - 1) : i + 1 \in DOMAIN q /\ i + 1 # 1
  BY <1>1
<1>6. \A i \in DOMAIN q : i # 1 => i - 1 \in 1..(Len(q) - 1)
  BY <1>1
<1>7. {Tail(q)[i] : i \in DOMAIN Tail(q)} = {q[i] : i \in DOMAIN q} \ {Head(q)}
  <2>1. ASSUME NEW i \in 1..(Len(q) - 1)
        PROVE  Tail(q)[i] \in {q[j] : j \in DOMAIN q} \ {Head(q)}
    <3>1. Tail(q)[i] = q[i + 1] /\ i + 1 \in DOMAIN q /\ i + 1 # 1
      BY <1>2, <1>5
    <3>2. 1 \in DOMAIN q
      BY <1>1
    <3>3. q[i + 1] # q[1]
      BY <3>1, <3>2
    <3>4. QED BY <1>1, <3>1, <3>3
  <2>2. ASSUME NEW i \in DOMAIN q, q[i] # Head(q)
        PROVE  \E j \in 1..(Len(q) - 1) : Tail(q)[j] = q[i]
    <3>1. i - 1 \in 1..(Len(q) - 1)
      BY <1>1, <1>6, <2>2
    <3>2. Tail(q)[i - 1] = q[(i - 1) + 1]
      BY <1>2, <3>1
    <3>3. (i - 1) + 1 = i
      BY <1>1
    <3>4. QED BY <3>1, <3>2, <3>3
  <2>3. ASSUME NEW x
        PROVE  x \in {Tail(q)[i] : i \in DOMAIN Tail(q)}
                 <=> x \in {q[i] : i \in DOMAIN q} \ {Head(q)}
    <3>1. ASSUME x \in {Tail(q)[i] : i \in DOMAIN Tail(q)}
          PROVE  x \in {q[i] : i \in DOMAIN q} \ {Head(q)}
      BY <1>3, <2>1, <3>1
    <3>2. ASSUME x \in {q[i] : i \in DOMAIN q} \ {Head(q)}
          PROVE  x \in {Tail(q)[i] : i \in DOMAIN Tail(q)}
      BY <1>3, <2>2, <3>2
    <3>3. QED BY <3>1, <3>2
  <2>4. QED BY <2>3
<1>8. ASSUME NEW i \in DOMAIN Tail(q), NEW j \in DOMAIN Tail(q),
             Tail(q)[i] = Tail(q)[j]
      PROVE  i = j
  <2>1. q[i + 1] = q[j + 1] /\ i + 1 \in DOMAIN q /\ j + 1 \in DOMAIN q
    BY <1>2, <1>3, <1>5, <1>8
  <2>2. i + 1 = j + 1
    BY <2>1
  <2>3. QED BY <1>1, <1>3, <2>2
<1>9. QED BY <1>2, <1>3, <1>4, <1>7, <1>8

\* A newcomer at the end of a queue without repetitions.
LEMMA AppendFacts ==
  ASSUME NEW S, NEW q \in Seq(S), NEW c \in S,
         \A i, j \in DOMAIN q : q[i] = q[j] => i = j,
         c \notin {q[i] : i \in DOMAIN q}
  PROVE  /\ Append(q, c) \in Seq(S)
         /\ Len(Append(q, c)) = Len(q) + 1
         /\ {Append(q, c)[i] : i \in DOMAIN Append(q, c)}
              = {q[i] : i \in DOMAIN q} \cup {c}
         /\ \A i, j \in DOMAIN Append(q, c) :
              Append(q, c)[i] = Append(q, c)[j] => i = j
<1> DEFINE a == Append(q, c)
<1>1. /\ Len(q) \in Nat /\ DOMAIN q = 1..Len(q)
      /\ a \in Seq(S) /\ Len(a) = Len(q) + 1
      /\ \A i \in 1..Len(q) : a[i] = q[i]
      /\ a[Len(q) + 1] = c
  BY AppendProperties
<1>2. DOMAIN a = 1..(Len(q) + 1)
  BY <1>1
<1> HIDE DEF a
<1>3. \A i \in DOMAIN a : i \in DOMAIN q \/ i = Len(q) + 1
  BY <1>1, <1>2
<1>4. \A i \in DOMAIN q : i \in DOMAIN a
  BY <1>1, <1>2
<1>5. {a[i] : i \in DOMAIN a} = {q[i] : i \in DOMAIN q} \cup {c}
  <2>1. Len(q) + 1 \in DOMAIN a
    BY <1>1, <1>2
  <2>2. QED BY <1>1, <1>3, <1>4, <2>1
<1>6. ASSUME NEW i \in DOMAIN a, NEW j \in DOMAIN a, a[i] = a[j]
      PROVE  i = j
  <2>1. CASE i \in DOMAIN q /\ j \in DOMAIN q
    BY <1>1, <1>6, <2>1
  <2>2. CASE i \notin DOMAIN q \/ j \notin DOMAIN q
    BY <1>1, <1>3, <1>6, <2>2
  <2>3. QED BY <2>1, <2>2
<1>7. QED BY <1>1, <1>5, <1>6 DEF a

-----------------------------------------------------------------------------
(* Streams: what is written comes behind, what is read is in front.        *)

\* One unit written.
LEMMA PushFacts ==
  ASSUME NEW S, NEW q \in Seq(S), NEW x \in S
  PROVE  /\ q \o <<x>> \in Seq(S)
         /\ Len(q \o <<x>>) = Len(q) + 1
         /\ q \o <<x>> # << >>
         /\ \A i \in 1..Len(q) : (q \o <<x>>)[i] = q[i]
         /\ (q \o <<x>>)[Len(q) + 1] = x
         /\ q = << >> => q \o <<x>> = <<x>>
         /\ q # << >> => Tail(q \o <<x>>) = Tail(q) \o <<x>>
<1>1. <<x>> \in Seq(S) /\ Len(<<x>>) = 1 /\ <<x>>[1] = x
  OBVIOUS
<1>2. Append(q, x) = q \o <<x>>
  BY AppendIsConcat
<1>3. /\ q \o <<x>> \in Seq(S) /\ q \o <<x>> # << >> /\ Len(q \o <<x>>) = Len(q) + 1
      /\ \A i \in 1..Len(q) : (q \o <<x>>)[i] = q[i]
      /\ (q \o <<x>>)[Len(q) + 1] = x
  BY <1>2, AppendProperties
<1>4. q = << >> => q \o <<x>> = <<x>>
  BY <1>1, ConcatEmptySeq
<1>5. ASSUME q # << >> PROVE Tail(q \o <<x>>) = Tail(q) \o <<x>>
  <2>1. Tail(Append(q, x)) = Append(Tail(q), x)
    BY <1>5, HeadTailAppend
  <2>2. Tail(q) \in Seq(S)
    BY <1>5
  <2>3. Append(Tail(q), x) = Tail(q) \o <<x>>
    BY <2>2, AppendIsConcat
  <2>4. QED BY <1>2, <2>1, <2>3
<1>6. QED BY <1>3, <1>4, <1>5

\* Reading k units from the front.
LEMMA CutFacts ==
  ASSUME NEW S, NEW q \in Seq(S), NEW k \in 1..Len(q)
  PROVE  /\ SubSeq(q, k + 1, Len(q)) \in Seq(S)
         /\ Len(SubSeq(q, k + 1, Len(q))) = Len(q) - k
         /\ \A i \in 1..Len(q) - k : SubSeq(q, k + 1, Len(q))[i] = q[i + k]
<1>1. /\ Len(q) \in Nat /\ k + 1 \in Int /\ \A i \in k + 1 .. Len(q) : q[i] \in S
  OBVIOUS
<1>2. /\ SubSeq(q, k + 1, Len(q)) \in Seq(S)
      /\ Len(SubSeq(q, k + 1, Len(q))) = IF k + 1 <= Len(q) THEN Len(q) - (k + 1) + 1 ELSE 0
      /\ \A i \in 1 .. Len(q) - (k + 1) + 1 : SubSeq(q, k + 1, Len(q))[i] = q[(k + 1) + i - 1]
  BY <1>1, SubSeqProperties
<1>3. Len(q) - (k + 1) + 1 = Len(q) - k
  BY <1>1
<1>4. Len(SubSeq(q, k + 1, Len(q))) = Len(q) - k
  <2> DEFINE m == Len(SubSeq(q, k + 1, Len(q)))
  <2>1. m = IF k + 1 <= Len(q) THEN Len(q) - (k + 1) + 1 ELSE 0
    BY <1>2
  <2> HIDE DEF m
  <2>2. m = Len(q) - k
    BY <1>1, <2>1
  <2>3. QED BY <2>2 DEF m
<1>5. ASSUME NEW i \in 1..Len(q) - k PROVE SubSeq(q, k + 1, Len(q))[i] = q[i + k]
  <2>1. i \in 1 .. Len(q) - (k + 1) + 1 /\ (k + 1) + i - 1 = i + k
    BY <1>1, <1>3
  <2>2. QED BY <1>2, <2>1
<1>6. QED BY <1>2, <1>4, <1>5

\* q is written to and becomes r.
Pushed(q, r, x) ==
  /\ Len(r) = Len(q) + 1
  /\ r[Len(q) + 1] = x
  /\ \A i \in 1..Len(q) : r[i] = q[i]

\* k units are read from q, which becomes r.
Dropped(q, r, k) ==
  /\ k \in 1..Len(q)
  /\ Len(r) = Len(q) - k
  /\ \A i \in 1..Len(r) : r[i] = q[i + k]

\* A unit read is at the front, and what stays moves up.
LEMMA OneRead ==
  ASSUME NEW S, NEW q \in Seq(S), q # << >>
  PROVE  /\ Head(q) = q[1] /\ q[1] \in S /\ Len(q) \in Nat /\ Len(q) >= 1
         /\ Tail(q) \in Seq(S) /\ Dropped(q, Tail(q), 1)
<1>1. /\ Len(q) \in Nat /\ Len(q) >= 1 /\ Head(q) = q[1] /\ Tail(q) \in Seq(S)
      /\ Len(Tail(q)) = Len(q) - 1 /\ Head(q) \in S
      /\ \A i \in 1..Len(q) - 1 : Tail(q)[i] = q[i + 1]
  OBVIOUS
<1>2. QED BY <1>1 DEF Dropped

\* A unit written is at the end.
LEMMA OnePushed ==
  ASSUME NEW S, NEW q \in Seq(S), NEW x \in S
  PROVE  q \o <<x>> \in Seq(S) /\ Pushed(q, q \o <<x>>, x)
BY PushFacts DEF Pushed
=============================================================================
