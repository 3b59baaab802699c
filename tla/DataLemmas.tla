---------------------------- MODULE DataLemmas ----------------------------
(***************************************************************************)
(* Facts about the data the models are built from, used by the proofs of   *)
(* several components: sequences that serve as Go channels and streams of  *)
(* messages, and sums of quantities.                                       *)
(***************************************************************************)
EXTENDS Integers, SequencesExt, SequenceTheorems, FiniteSetTheorems,
        WellFoundedInduction, TLAPS

In(s, c) == \E i \in DOMAIN s : s[i] = c
Once(s) == \A i, j \in DOMAIN s : s[i] = s[j] => i = j

\* What taking the first element of a channel, and adding one, does to it.
LEMMA Received ==
    ASSUME NEW S, NEW s \in Seq(S), s # <<>>
    PROVE  /\ Head(s) \in S /\ Tail(s) \in Seq(S) /\ Len(Tail(s)) = Len(s) - 1
           /\ In(s, Head(s))
           /\ \A x : In(Tail(s), x) => In(s, x)
           /\ Once(s) => Once(Tail(s)) /\ ~In(Tail(s), Head(s))
           /\ \A x : In(s, x) => x = Head(s) \/ In(Tail(s), x)
  <1>1. /\ Head(s) \in S /\ Tail(s) \in Seq(S) /\ Len(Tail(s)) = Len(s) - 1
        /\ \A i \in 1 .. Len(Tail(s)) : Tail(s)[i] = s[i + 1]
    BY HeadTailProperties
  <1>2. Len(s) \in Nat \ {0} /\ DOMAIN s = 1 .. Len(s) /\ s[1] = Head(s)
    BY EmptySeq
  <1>3. DOMAIN Tail(s) = 1 .. Len(s) - 1
    BY <1>1
  <1>4. ASSUME NEW x, In(s, x) PROVE x = Head(s) \/ In(Tail(s), x)
    <2>1. PICK i \in 1 .. Len(s) : s[i] = x
      BY <1>2, <1>4 DEF In
    <2>2. CASE i > 1
      <3>1. i - 1 \in 1 .. Len(s) - 1
        BY <1>2, <2>2
      <3>2. Tail(s)[i - 1] = s[i]
        BY <1>1, <1>2, <3>1
      <3>3. QED BY <1>3, <2>1, <3>1, <3>2 DEF In
    <2>3. QED BY <1>2, <2>1, <2>2
  <1>5. ASSUME NEW x, In(Tail(s), x) PROVE In(s, x)
    BY <1>1, <1>2, <1>3, <1>5 DEF In
  <1>6. Once(s) => Once(Tail(s)) /\ ~In(Tail(s), Head(s))
    BY <1>1, <1>2, <1>3 DEF Once, In
  <1>7. QED
    BY <1>1, <1>2, <1>4, <1>5, <1>6 DEF In

LEMMA Added ==
    ASSUME NEW S, NEW s \in Seq(S), NEW e \in S
    PROVE  /\ Append(s, e) \in Seq(S) /\ Len(Append(s, e)) = Len(s) + 1
           /\ \A x : In(Append(s, e), x) <=> In(s, x) \/ x = e
           /\ Once(s) /\ ~In(s, e) => Once(Append(s, e))
  <1>1. DOMAIN s = 1 .. Len(s) /\ Len(s) \in Nat
    OBVIOUS
  <1>2. QED
    BY <1>1, AppendProperties DEF In, Once

\* A stream is what was taken from a channel and what is still in it: an element that
\* is appended to the channel is appended to the stream, and one that
\* is taken from the channel and written leaves the stream as it is.
LEMMA StreamSend ==
    ASSUME NEW S, NEW s \in Seq(S), NEW t \in Seq(S), NEW e \in S
    PROVE  s \o Append(t, e) = Append(s \o t, e)
  <1>1. /\ Append(t, e) \in Seq(S) /\ s \o t \in Seq(S) /\ Len(s \o t) = Len(s) + Len(t)
        /\ Len(s) \in Nat /\ Len(t) \in Nat
    BY AppendProperties, ConcatProperties, LenProperties
  <1>2. /\ s \o Append(t, e) \in Seq(S) /\ Append(s \o t, e) \in Seq(S)
        /\ Len(Append(t, e)) = Len(t) + 1 /\ Len(Append(s \o t, e)) = Len(s) + Len(t) + 1
        /\ Len(s \o Append(t, e)) = Len(s) + Len(t) + 1
    BY <1>1, AppendProperties, ConcatProperties
  <1>3. ASSUME NEW i \in 1 .. Len(s) + Len(t) + 1
        PROVE  (s \o Append(t, e))[i] = Append(s \o t, e)[i]
    <2>1. (s \o Append(t, e))[i] = IF i <= Len(s) THEN s[i] ELSE Append(t, e)[i - Len(s)]
      <3> DEFINE u == Append(t, e)
      <3>1. u \in Seq(S) /\ i \in 1 .. Len(s) + Len(u)
        BY <1>1, <1>2
      <3> HIDE DEF u
      <3>2. (s \o u)[i] = IF i <= Len(s) THEN s[i] ELSE u[i - Len(s)]
        BY <3>1, ConcatProperties
      <3>3. QED BY <3>2 DEF u
    <2>2. CASE i <= Len(s)
      BY <1>1, <2>1, <2>2, AppendProperties, ConcatProperties
    <2>3. CASE i > Len(s) /\ i <= Len(s) + Len(t)
      <3>1. i - Len(s) \in 1 .. Len(t)
        BY <1>1, <2>3
      <3>2. Append(t, e)[i - Len(s)] = t[i - Len(s)]
        BY <3>1, AppendProperties
      <3>3. Append(s \o t, e)[i] = (s \o t)[i]
        BY <1>1, <2>3, AppendProperties
      <3>4. (s \o t)[i] = t[i - Len(s)]
        BY <1>1, <2>3, ConcatProperties
      <3>5. QED BY <1>1, <2>1, <2>3, <3>2, <3>3, <3>4
    <2>4. CASE i = Len(s) + Len(t) + 1
      <3>1. i - Len(s) = Len(t) + 1 /\ ~(i <= Len(s))
        BY <1>1, <2>4
      <3>2. Append(t, e)[Len(t) + 1] = e /\ Append(s \o t, e)[Len(s) + Len(t) + 1] = e
        BY <1>1, AppendProperties
      <3>3. QED BY <2>1, <2>4, <3>1, <3>2
    <2>5. QED BY <1>1, <2>2, <2>3, <2>4
  <1>4. QED
    BY <1>2, <1>3, SeqEqual

LEMMA StreamTake ==
    ASSUME NEW S, NEW s \in Seq(S), NEW t \in Seq(S), t # <<>>
    PROVE  Append(s, Head(t)) \o Tail(t) = s \o t
  <1> DEFINE a == Append(s, Head(t))
             r == Tail(t)
  <1>1. /\ Head(t) \in S /\ r \in Seq(S) /\ Len(r) = Len(t) - 1
        /\ \A i \in 1 .. Len(t) - 1 : r[i] = t[i + 1]
        /\ Len(t) \in Nat \ {0} /\ Len(s) \in Nat /\ Head(t) = t[1]
    <2>1. Len(t) \in Nat \ {0} /\ Len(s) \in Nat
      BY EmptySeq, LenProperties
    <2>2. /\ Head(t) \in S /\ r \in Seq(S) /\ Len(r) = Len(t) - 1
          /\ \A i \in 1 .. Len(r) : r[i] = t[i + 1]
      BY HeadTailProperties
    <2>3. Head(t) = t[1]
      OBVIOUS
    <2> HIDE DEF r
    <2>4. QED BY <2>1, <2>2, <2>3
  <1>2. /\ a \in Seq(S) /\ Len(a) = Len(s) + 1 /\ a[Len(s) + 1] = t[1]
        /\ \A i \in 1 .. Len(s) : a[i] = s[i]
    BY <1>1, AppendProperties
  <1> HIDE DEF a, r
  <1>3. /\ a \o r \in Seq(S) /\ Len(a \o r) = Len(a) + Len(r)
        /\ \A i \in 1 .. Len(a) + Len(r) :
              (a \o r)[i] = IF i <= Len(a) THEN a[i] ELSE r[i - Len(a)]
    <2>1. a \in Seq(S) /\ r \in Seq(S)
      BY <1>1, <1>2
    <2>2. QED BY <2>1, ConcatProperties
  <1>4. /\ s \o t \in Seq(S) /\ Len(s \o t) = Len(s) + Len(t)
        /\ \A i \in 1 .. Len(s) + Len(t) :
              (s \o t)[i] = IF i <= Len(s) THEN s[i] ELSE t[i - Len(s)]
    BY <1>1, ConcatProperties
  <1>5. Len(a) + Len(r) = Len(s) + Len(t)
    BY <1>1, <1>2
  <1>6. ASSUME NEW i \in 1 .. Len(s) + Len(t)
        PROVE  (a \o r)[i] = (s \o t)[i]
    <2>1. (s \o t)[i] = IF i <= Len(s) THEN s[i] ELSE t[i - Len(s)]
      BY <1>4
    <2>2. (a \o r)[i] = IF i <= Len(s) + 1 THEN a[i] ELSE r[i - (Len(s) + 1)]
      BY <1>2, <1>3, <1>5
    <2>3. CASE i <= Len(s)
      BY <1>1, <1>2, <2>1, <2>2, <2>3
    <2>4. CASE i = Len(s) + 1
      BY <1>1, <1>2, <2>1, <2>2, <2>4
    <2>5. CASE i > Len(s) + 1
      <3>1. i - (Len(s) + 1) \in 1 .. Len(t) - 1 /\ i - (Len(s) + 1) + 1 = i - Len(s)
        BY <1>1, <2>5
      <3>2. r[i - (Len(s) + 1)] = t[i - Len(s)]
        BY <1>1, <3>1
      <3>3. ~(i <= Len(s) + 1) /\ ~(i <= Len(s))
        BY <1>1, <2>5
      <3>4. QED BY <2>1, <2>2, <3>2, <3>3
    <2>6. i \in Int /\ Len(s) \in Int
      BY <1>1
    <2>7. i <= Len(s) \/ i = Len(s) + 1 \/ i > Len(s) + 1
      BY <2>6
    <2>8. QED BY <2>3, <2>4, <2>5, <2>7
  <1>7. a \o r = s \o t
    BY <1>3, <1>4, <1>5, <1>6, SeqEqual
  <1>8. QED BY <1>7 DEF a, r

LEMMA StreamDrop ==
    ASSUME NEW S, NEW s \in Seq(S), NEW t \in Seq(S), s # <<>>
    PROVE  s \o t # <<>> /\ Head(s \o t) = Head(s) /\ Tail(s \o t) = Tail(s) \o t
  <1> DEFINE all == s \o t
             r == Tail(s)
  <1>1. Len(s) \in Nat /\ Len(s) > 0 /\ Len(t) \in Nat /\ Head(s) = s[1]
    BY EmptySeq, LenProperties
  <1>2. /\ all \in Seq(S) /\ Len(all) = Len(s) + Len(t)
        /\ \A i \in 1 .. Len(s) + Len(t) : all[i] = IF i <= Len(s) THEN s[i] ELSE t[i - Len(s)]
    BY ConcatProperties
  <1>3. r \in Seq(S) /\ Len(r) = Len(s) - 1 /\ \A i \in 1 .. Len(r) : r[i] = s[i + 1]
    BY HeadTailProperties
  <1> HIDE DEF all, r
  <1>4. all # <<>> /\ Head(all) = all[1] /\ all[1] = s[1]
    <2>1. Len(all) > 0 /\ 1 \in 1 .. Len(s) + Len(t) /\ 1 <= Len(s)
      BY <1>1, <1>2
    <2>2. all # <<>> /\ all[1] = s[1]
      BY <1>1, <1>2, <2>1, EmptySeq
    <2>3. QED BY <1>2, <2>2
  <1>5. /\ Tail(all) \in Seq(S) /\ Len(Tail(all)) = Len(s) + Len(t) - 1
        /\ \A i \in 1 .. Len(s) + Len(t) - 1 : Tail(all)[i] = all[i + 1]
    <2>1. /\ Tail(all) \in Seq(S) /\ Len(Tail(all)) = Len(all) - 1
          /\ \A i \in 1 .. Len(Tail(all)) : Tail(all)[i] = all[i + 1]
      BY <1>2, <1>4, HeadTailProperties
    <2>2. QED BY <1>2, <2>1
  <1>6. /\ r \o t \in Seq(S) /\ Len(r \o t) = Len(s) + Len(t) - 1
        /\ \A i \in 1 .. Len(s) + Len(t) - 1 :
              (r \o t)[i] = IF i <= Len(s) - 1 THEN r[i] ELSE t[i - (Len(s) - 1)]
    <2>1. /\ r \o t \in Seq(S) /\ Len(r \o t) = Len(r) + Len(t)
          /\ \A i \in 1 .. Len(r) + Len(t) :
                (r \o t)[i] = IF i <= Len(r) THEN r[i] ELSE t[i - Len(r)]
      BY <1>3, ConcatProperties
    <2>2. Len(r) + Len(t) = Len(s) + Len(t) - 1
      BY <1>1, <1>3
    <2>3. QED BY <1>3, <2>1, <2>2
  <1>7. ASSUME NEW i \in 1 .. Len(s) + Len(t) - 1 PROVE Tail(all)[i] = (r \o t)[i]
    <2>1. i + 1 \in 1 .. Len(s) + Len(t) /\ i + 1 - Len(s) = i - (Len(s) - 1)
      BY <1>1
    <2>2. i + 1 <= Len(s) <=> i <= Len(s) - 1
      BY <1>1
    <2>3. all[i + 1] = IF i <= Len(s) - 1 THEN s[i + 1] ELSE t[i - (Len(s) - 1)]
      BY <1>2, <2>1, <2>2
    <2>4. i <= Len(s) - 1 => r[i] = s[i + 1]
      BY <1>1, <1>3
    <2>5. QED BY <1>5, <1>6, <2>3, <2>4
  <1>8. Tail(all) = r \o t
    BY <1>5, <1>6, <1>7, SeqEqual
  <1>9. QED BY <1>1, <1>4, <1>8 DEF all, r

\* A list that grows at its head
LEMMA Pushing ==
    ASSUME NEW S, NEW s \in Seq(S), NEW e \in S
    PROVE  /\ <<e>> \o s \in Seq(S) /\ Len(<<e>> \o s) = Len(s) + 1 /\ Len(s) \in Nat
           /\ (<<e>> \o s)[1] = e
           /\ \A i \in 2 .. Len(s) + 1 : (<<e>> \o s)[i] = s[i - 1]
           /\ \A x : In(<<e>> \o s, x) => x = e \/ In(s, x)
  <1> DEFINE h == <<e>>
             all == h \o s
  <1>1. h \in Seq(S) /\ Len(h) = 1 /\ h[1] = e /\ Len(s) \in Nat
    BY LenProperties
  <1> HIDE DEF h
  <1>2. /\ all \in Seq(S) /\ Len(all) = Len(h) + Len(s)
        /\ \A i \in 1 .. Len(h) + Len(s) : all[i] = IF i <= Len(h) THEN h[i] ELSE s[i - Len(h)]
    BY <1>1, ConcatProperties
  <1> HIDE DEF all
  <1>3. Len(all) = Len(s) + 1 /\ all[1] = e
    BY <1>1, <1>2
  <1>4. \A i \in 2 .. Len(s) + 1 : all[i] = s[i - 1]
    BY <1>1, <1>2
  <1>5. ASSUME NEW x, In(all, x) PROVE x = e \/ In(s, x)
    <2>1. DOMAIN all = 1 .. Len(s) + 1 /\ DOMAIN s = 1 .. Len(s)
      BY <1>2, <1>3, LenProperties
    <2>2. PICK i \in 1 .. Len(s) + 1 : all[i] = x
      BY <1>5, <2>1 DEF In
    <2>3. CASE i # 1
      <3>1. i \in 2 .. Len(s) + 1 /\ i - 1 \in 1 .. Len(s)
        BY <1>1, <2>3
      <3>2. s[i - 1] = x
        BY <1>4, <2>2, <3>1
      <3>3. QED BY <2>1, <3>1, <3>2 DEF In
    <2>4. QED BY <1>3, <2>2, <2>3
  <1>6. QED BY <1>1, <1>2, <1>3, <1>4, <1>5 DEF all, h

\* The beginning of a sequence
LEMMA Beginning ==
    ASSUME NEW S, NEW s \in Seq(S), NEW n \in Nat, n <= Len(s)
    PROVE  /\ SubSeq(s, 1, n) \in Seq(S) /\ Len(SubSeq(s, 1, n)) = n
           /\ \A i \in 1 .. n : SubSeq(s, 1, n)[i] = s[i]
  <1>1. \A i \in 1 .. n : s[i] \in S
    BY LenProperties, ElementOfSeq
  <1>2. /\ SubSeq(s, 1, n) \in Seq(S)
        /\ Len(SubSeq(s, 1, n)) = IF 1 <= n THEN n - 1 + 1 ELSE 0
        /\ \A i \in 1 .. n - 1 + 1 : SubSeq(s, 1, n)[i] = s[1 + i - 1]
    BY <1>1, SubSeqProperties
  <1>3. QED BY <1>2

\* What was taken is a beginning of the stream, also when the stream is all but the
\* last of what was meant for it.
LEMMA FrontOfAppend ==
    ASSUME NEW S, NEW s \in Seq(S), NEW e \in S
    PROVE  Front(Append(s, e)) = s
  <1>1. /\ Append(s, e) \in Seq(S) /\ Len(Append(s, e)) = Len(s) + 1 /\ Len(s) \in Nat
        /\ \A i \in 1 .. Len(s) : Append(s, e)[i] = s[i] /\ s[i] \in S
    BY AppendProperties, LenProperties, ElementOfSeq
  <1>2. Front(Append(s, e)) = SubSeq(Append(s, e), 1, Len(s))
    BY <1>1 DEF Front
  <1> DEFINE f == SubSeq(Append(s, e), 1, Len(s))
  <1>3. f \in Seq(S) /\ Len(f) = Len(s) /\ \A i \in 1 .. Len(s) : f[i] = Append(s, e)[i]
    BY <1>1, SubSeqProperties, Z3
  <1> HIDE DEF f
  <1>4. f = s
    BY <1>1, <1>3, SeqEqual
  <1>5. QED BY <1>2, <1>4 DEF f

LEMMA PrefixIff ==
    ASSUME NEW S, NEW s \in Seq(S), NEW t \in Seq(S)
    PROVE  IsPrefix(s, t) <=> Len(s) <= Len(t) /\ \A i \in 1 .. Len(s) : s[i] = t[i]
  <1>1. SubSeq(s, 1, Len(s)) = s /\ Len(s) \in Nat /\ Len(t) \in Nat
    BY SubSeqFull, LenProperties
  <1>2. ASSUME Len(s) <= Len(t)
        PROVE  SubSeq(t, 1, Len(s)) = s <=> \A i \in 1 .. Len(s) : s[i] = t[i]
    <2>1. \A i \in 1 .. Len(s) : t[i] \in S
      BY <1>1, <1>2, ElementOfSeq
    <2> DEFINE f == SubSeq(t, 1, Len(s))
    <2>2. f \in Seq(S) /\ Len(f) = Len(s) /\ \A i \in 1 .. Len(s) : f[i] = t[i]
      BY <1>1, <2>1, SubSeqProperties, Z3
    <2> HIDE DEF f
    <2>3. f = s <=> \A i \in 1 .. Len(s) : s[i] = t[i]
      BY <1>1, <2>2, SeqEqual
    <2>4. QED BY <2>3 DEF f
  <1>3. QED BY <1>1, <1>2 DEF IsPrefix

LEMMA PrefixAppend ==
    ASSUME NEW S, NEW s \in Seq(S), NEW t \in Seq(S), NEW e \in S, IsPrefix(s, t)
    PROVE  IsPrefix(s, Append(t, e))
  <1>1. /\ Append(t, e) \in Seq(S) /\ Len(Append(t, e)) = Len(t) + 1
        /\ Len(s) \in Nat /\ Len(t) \in Nat
        /\ \A i \in 1 .. Len(t) : Append(t, e)[i] = t[i]
    BY AppendProperties, LenProperties
  <1>2. Len(s) <= Len(t) /\ \A i \in 1 .. Len(s) : s[i] = t[i]
    BY PrefixIff
  <1>3. Len(s) <= Len(t) + 1 /\ \A i \in 1 .. Len(s) : s[i] = Append(t, e)[i]
    BY <1>1, <1>2
  <1>4. QED BY <1>1, <1>3, PrefixIff

LEMMA PrefixOfStream ==
    ASSUME NEW S, NEW s \in Seq(S), NEW t \in Seq(S), NEW u \in Seq(S),
           s \o t = u \/ s \o t = Front(u)
    PROVE  IsPrefix(s, u)
  <1>1. /\ Len(s) \in Nat /\ Len(t) \in Nat /\ Len(u) \in Nat
        /\ Len(s \o t) = Len(s) + Len(t)
        /\ \A i \in 1 .. Len(s) + Len(t) :
              (s \o t)[i] = IF i <= Len(s) THEN s[i] ELSE t[i - Len(s)]
    BY ConcatProperties, LenProperties
  <1> DEFINE all == s \o t
  <1>2. Len(all) <= Len(u) /\ \A i \in 1 .. Len(all) : all[i] = u[i]
    <2>1. CASE all = u
      BY <1>1, <2>1
    <2>2. CASE all = Front(u) /\ Len(u) = 0
      <3>1. all = SubSeq(u, 1, 0 - 1)
        BY <2>2 DEF Front
      <3>2. SubSeq(u, 1, 0 - 1) = <<>>
        BY SubSeqEmpty
      <3>3. Len(all) = 0
        BY <3>1, <3>2
      <3>4. QED BY <2>2, <3>3
    <2>3. CASE all = Front(u) /\ Len(u) # 0
      <3>1. \A i \in 1 .. Len(u) - 1 : u[i] \in S
        BY <1>1, ElementOfSeq
      <3> DEFINE f == SubSeq(u, 1, Len(u) - 1)
      <3>2. Len(f) = Len(u) - 1 /\ \A i \in 1 .. Len(u) - 1 : f[i] = u[i]
        <4>0. Len(u) - 1 \in Nat
          BY <1>1, <2>3
        <4>1. PICK n \in Nat : n = Len(u) - 1
          BY <4>0
        <4>2. \A i \in 1 .. n : u[i] \in S
          BY <3>1, <4>1
        <4>3. /\ Len(SubSeq(u, 1, n)) = IF 1 <= n THEN n - 1 + 1 ELSE 0
              /\ \A i \in 1 .. n - 1 + 1 : SubSeq(u, 1, n)[i] = u[1 + i - 1]
          BY <4>2, SubSeqProperties
        <4>4. Len(SubSeq(u, 1, n)) = n /\ \A i \in 1 .. n : SubSeq(u, 1, n)[i] = u[i]
          BY <4>3
        <4>5. QED BY <4>1, <4>4
      <3>3. all = f
        BY <2>3 DEF Front
      <3> HIDE DEF f, all
      <3>4. QED BY <1>1, <3>2, <3>3
    <2>4. QED BY <2>1, <2>2, <2>3
  <1>3. Len(all) = Len(s) + Len(t) /\ \A i \in 1 .. Len(s) : all[i] = s[i]
    <2>1. \A i \in 1 .. Len(s) : i \in 1 .. Len(s) + Len(t) /\ i <= Len(s)
      BY <1>1
    <2>2. QED BY <1>1, <2>1
  <1> HIDE DEF all
  <1>4. Len(s) <= Len(all) /\ \A i \in 1 .. Len(s) : i \in 1 .. Len(all)
    BY <1>1, <1>3
  <1>5. Len(s) <= Len(u) /\ \A i \in 1 .. Len(s) : s[i] = u[i]
    <2>1. Len(s) <= Len(u)
      BY <1>1, <1>2, <1>3
    <2>2. QED BY <1>2, <1>3, <1>4, <2>1
  <1>6. QED BY <1>5, PrefixIff

-----------------------------------------------------------------------------
(* Sums over finite sets.  SumFunctionOnSet is a fold, a function on the subsets   *)
(* that is defined by recursion; what it computes is proved with a smallest subset *)
(* for which a claim fails, which a finite set has.                                *)

Some(s) == CHOOSE x \in s : TRUE
AddsUp(g, f, S) ==
    g = [s \in SUBSET S |-> IF s = {} THEN 0 ELSE f[Some(s)] + g[s \ {Some(s)}]]
LEMMA SumIsChosen ==
    ASSUME NEW f, NEW S
    PROVE  SumFunctionOnSet(f, S) = (CHOOSE g : AddsUp(g, f, S))[S]
  BY DEF SumFunctionOnSet, FoldFunctionOnSet, MapThenFoldSet, AddsUp, Some

\* Among subsets of a finite set there is one that contains no other.
LEMMA Smallest ==
    ASSUME NEW S, IsFiniteSet(S), NEW F, F \subseteq SUBSET S, F # {}
    PROVE  \E T \in F : \A U \in F : U \subseteq T => U = T
  <1>1. IsWellFoundedOn(StrictSubsetOrdering(S), FiniteSubsetsOf(S))
    BY FS_StrictSubsetOrderingWellFounded
  <1>2. F \subseteq FiniteSubsetsOf(S)
    BY FS_Subset DEF FiniteSubsetsOf
  <1>3. PICK T \in F : \A U \in F : ~(<<U, T>> \in StrictSubsetOrdering(S))
    BY <1>1, <1>2, WFMin
  <1>4. QED BY <1>3 DEF StrictSubsetOrdering

\* There is one function that adds up, and on a subset it is the subset's own.
LEMMA AddsUpAgree ==
    ASSUME NEW f, NEW S, IsFiniteSet(S), NEW T \in SUBSET S, NEW g, NEW h,
           AddsUp(g, f, S), AddsUp(h, f, T)
    PROVE  g[T] = h[T]
  <1> DEFINE Bad == {U \in SUBSET T : g[U] # h[U]}
  <1>1. SUFFICES ASSUME Bad # {} PROVE FALSE
    OBVIOUS
  <1>2. PICK U \in Bad : \A V \in Bad : V \subseteq U => V = U
    <2>1. IsFiniteSet(T) /\ Bad \subseteq SUBSET T
      BY FS_Subset
    <2> HIDE DEF Bad
    <2>2. QED BY <1>1, <2>1, Smallest
  <1>3. /\ g[U] = IF U = {} THEN 0 ELSE f[Some(U)] + g[U \ {Some(U)}]
        /\ h[U] = IF U = {} THEN 0 ELSE f[Some(U)] + h[U \ {Some(U)}]
    <2>1. U \in SUBSET S /\ U \in SUBSET T
      OBVIOUS
    <2>2. QED BY <2>1 DEF AddsUp
  <1>4. U # {} /\ Some(U) \in U
    BY <1>3 DEF Some
  <1>5. U \ {Some(U)} \notin Bad
    BY <1>2, <1>4
  <1>6. g[U \ {Some(U)}] = h[U \ {Some(U)}]
    BY <1>5
  <1>7. QED BY <1>3, <1>6

LEMMA AddsUpExists ==
    ASSUME NEW f, NEW S, IsFiniteSet(S)
    PROVE  AddsUp(CHOOSE g : AddsUp(g, f, S), f, S)
  <1> DEFINE Fn(T) == CHOOSE g : AddsUp(g, f, T)
             Bad == {T \in SUBSET S : ~AddsUp(Fn(T), f, T)}
  <1>1. SUFFICES ASSUME Bad # {} PROVE FALSE
    OBVIOUS
  <1>2. PICK T \in Bad : \A V \in Bad : V \subseteq T => V = T
    <2>1. Bad \subseteq SUBSET S
      OBVIOUS
    <2> HIDE DEF Bad
    <2>2. QED BY <1>1, <2>1, Smallest
  <1>3. ASSUME NEW U \in SUBSET T, U # T PROVE AddsUp(Fn(U), f, U)
    BY <1>2, <1>3
  <1> DEFINE g == [s \in SUBSET T |-> IF s = {} THEN 0
                     ELSE f[Some(s)] + Fn(s \ {Some(s)})[s \ {Some(s)}]]
  <1>4. ASSUME NEW U \in SUBSET T, U # T PROVE g[U] = Fn(U)[U]
    <2>1. AddsUp(Fn(U), f, U) /\ IsFiniteSet(U)
      BY <1>3, <1>4, FS_Subset
    <2>2. Fn(U)[U] = IF U = {} THEN 0 ELSE f[Some(U)] + Fn(U)[U \ {Some(U)}]
      <3> HIDE DEF Fn
      <3>1. QED BY <2>1 DEF AddsUp
    <2>3. CASE U = {}
      BY <2>2, <2>3
    <2>4. CASE U # {}
      <3> DEFINE V == U \ {Some(U)}
      <3>1. V \in SUBSET U /\ V # U /\ V \in SUBSET T /\ V # T
        BY <2>4 DEF Some
      <3>2. AddsUp(Fn(V), f, V)
        BY <1>3, <3>1
      <3> HIDE DEF V, Fn
      <3>3. Fn(U)[V] = Fn(V)[V]
        BY <2>1, <3>1, <3>2, AddsUpAgree
      <3>4. g[U] = f[Some(U)] + Fn(V)[V]
        BY <2>4 DEF V
      <3>5. QED BY <2>2, <2>4, <3>3, <3>4 DEF V
    <2>5. QED BY <2>3, <2>4
  <1>5. AddsUp(g, f, T)
    <2>1. ASSUME NEW s \in SUBSET T, s # {}
          PROVE  g[s \ {Some(s)}] = Fn(s \ {Some(s)})[s \ {Some(s)}]
      <3>1. Some(s) \in s
        BY <2>1 DEF Some
      <3>2. s \ {Some(s)} \in SUBSET T /\ s \ {Some(s)} # T
        BY <3>1
      <3> HIDE DEF g, Fn
      <3>3. QED BY <1>4, <3>2
    <2> HIDE DEF Fn
    <2>2. QED BY <2>1 DEF AddsUp
  <1>6. AddsUp(Fn(T), f, T)
    <2> HIDE DEF g
    <2>1. QED BY <1>5
  <1>7. QED BY <1>6

\* The recursion, with the element that the fold chooses
LEMMA SumStep ==
    ASSUME NEW f, NEW S, IsFiniteSet(S)
    PROVE  SumFunctionOnSet(f, S) =
             IF S = {} THEN 0 ELSE f[Some(S)] + SumFunctionOnSet(f, S \ {Some(S)})
  <1> DEFINE Fn(T) == CHOOSE g : AddsUp(g, f, T)
             T == S \ {Some(S)}
  <1>1. SumFunctionOnSet(f, S) = Fn(S)[S] /\ SumFunctionOnSet(f, T) = Fn(T)[T]
    BY SumIsChosen
  <1>2. AddsUp(Fn(S), f, S) /\ AddsUp(Fn(T), f, T) /\ T \in SUBSET S
    BY AddsUpExists, FS_Subset
  <1> HIDE DEF Fn, T
  <1>3. Fn(S)[T] = Fn(T)[T]
    BY <1>2, AddsUpAgree
  <1>4. Fn(S)[S] = IF S = {} THEN 0 ELSE f[Some(S)] + Fn(S)[T]
    BY <1>2 DEF AddsUp, T
  <1>5. QED BY <1>1, <1>3, <1>4 DEF T

IsIntOn(f, S) == \A x \in S : f[x] \in Int

LEMMA SumIsInt ==
    ASSUME NEW f, NEW S, IsFiniteSet(S), IsIntOn(f, S)
    PROVE  SumFunctionOnSet(f, S) \in Int
  <1> DEFINE Sum(T) == SumFunctionOnSet(f, T)
             Bad == {T \in SUBSET S : Sum(T) \notin Int}
  <1>1. SUFFICES ASSUME Bad # {} PROVE FALSE
    OBVIOUS
  <1>2. PICK T \in Bad : \A U \in Bad : U \subseteq T => U = T
    <2>1. Bad \subseteq SUBSET S
      OBVIOUS
    <2> HIDE DEF Bad
    <2>2. QED BY <1>1, <2>1, Smallest
  <1>3. Sum(T) = IF T = {} THEN 0 ELSE f[Some(T)] + Sum(T \ {Some(T)})
    BY SumStep, FS_Subset
  <1> HIDE DEF Sum
  <1>4. T # {} /\ Some(T) \in T
    BY <1>3 DEF Some
  <1>5. Sum(T \ {Some(T)}) \in Int /\ f[Some(T)] \in Int
    BY <1>2, <1>4 DEF IsIntOn
  <1>6. QED BY <1>3, <1>5

LEMMA SumEmpty == \A f : SumFunctionOnSet(f, {}) = 0
  BY SumStep, FS_EmptySet

\* A sum is one of its elements and the sum of the others, whichever element it is.
LEMMA SumRemove ==
    ASSUME NEW f, NEW S, IsFiniteSet(S), IsIntOn(f, S), NEW x \in S
    PROVE  SumFunctionOnSet(f, S) = f[x] + SumFunctionOnSet(f, S \ {x})
  <1> DEFINE Sum(T) == SumFunctionOnSet(f, T)
             Bad == {T \in SUBSET S : \E y \in T : Sum(T) # f[y] + Sum(T \ {y})}
  <1>1. SUFFICES ASSUME Bad # {} PROVE FALSE
    OBVIOUS
  <1>2. PICK T \in Bad : \A U \in Bad : U \subseteq T => U = T
    <2>1. Bad \subseteq SUBSET S
      OBVIOUS
    <2> HIDE DEF Bad
    <2>2. QED BY <1>1, <2>1, Smallest
  <1>3. PICK y \in T : Sum(T) # f[y] + Sum(T \ {y})
    BY <1>2
  <1>4. \A U \in SUBSET S : Sum(U) \in Int /\ (U # {} => Sum(U) = f[Some(U)] + Sum(U \ {Some(U)}))
    BY SumStep, SumIsInt, FS_Subset DEF IsIntOn
  <1>5. ASSUME NEW U \in SUBSET T, U # T, NEW z \in U PROVE Sum(U) = f[z] + Sum(U \ {z})
    BY <1>2, <1>5
  <1> HIDE DEF Sum, Bad
  <1> DEFINE c == Some(T)
  <1>6. c \in T
    BY <1>3 DEF Some
  <1> HIDE DEF c
  <1>7. Sum(T) = f[c] + Sum(T \ {c}) /\ c # y
    <2>1. T \in SUBSET S /\ T # {}
      BY <1>3 DEF Bad
    <2>2. Sum(T) = f[c] + Sum(T \ {c})
      BY <1>4, <2>1 DEF c
    <2>3. QED BY <1>3, <2>2
  <1>8. Sum(T \ {c}) = f[y] + Sum((T \ {c}) \ {y}) /\ Sum(T \ {y}) = f[c] + Sum((T \ {y}) \ {c})
    BY <1>5, <1>6, <1>7
  <1>9. (T \ {c}) \ {y} = (T \ {y}) \ {c}
    OBVIOUS
  <1>10. /\ f[c] \in Int /\ f[y] \in Int /\ Sum((T \ {y}) \ {c}) \in Int
    <2>1. T \in SUBSET S
      BY DEF Bad
    <2>2. QED BY <1>4, <1>6, <2>1 DEF IsIntOn
  <1>11. Sum(T \ {c}) = f[y] + Sum((T \ {y}) \ {c})
    BY <1>8, <1>9
  <1>12. \A a, b, r \in Int : a + (b + r) = b + (a + r)
    OBVIOUS
  <1>13. f[c] + Sum(T \ {c}) = f[y] + Sum(T \ {y})
    BY <1>8, <1>10, <1>11, <1>12
  <1>14. QED BY <1>3, <1>7, <1>13

LEMMA SumAdd ==
    ASSUME NEW f, NEW S, IsFiniteSet(S), NEW x, x \notin S, IsIntOn(f, S \union {x})
    PROVE  SumFunctionOnSet(f, S \union {x}) = f[x] + SumFunctionOnSet(f, S)
  <1>1. IsFiniteSet(S \union {x}) /\ (S \union {x}) \ {x} = S
    BY FS_AddElement
  <1>2. QED BY <1>1, SumRemove

\* Functions that agree on a set have the same sum there.
LEMMA SumAgree ==
    ASSUME NEW f, NEW g, NEW S, IsFiniteSet(S), \A x \in S : f[x] = g[x]
    PROVE  SumFunctionOnSet(f, S) = SumFunctionOnSet(g, S)
  <1> DEFINE F(T) == SumFunctionOnSet(f, T)
             G(T) == SumFunctionOnSet(g, T)
             Bad == {T \in SUBSET S : F(T) # G(T)}
  <1>1. SUFFICES ASSUME Bad # {} PROVE FALSE
    OBVIOUS
  <1>2. PICK T \in Bad : \A U \in Bad : U \subseteq T => U = T
    <2>1. Bad \subseteq SUBSET S
      OBVIOUS
    <2> HIDE DEF Bad
    <2>2. QED BY <1>1, <2>1, Smallest
  <1>3. /\ F(T) = IF T = {} THEN 0 ELSE f[Some(T)] + F(T \ {Some(T)})
        /\ G(T) = IF T = {} THEN 0 ELSE g[Some(T)] + G(T \ {Some(T)})
    BY SumStep, FS_Subset
  <1> HIDE DEF F, G
  <1>4. T # {} /\ Some(T) \in T
    BY <1>3 DEF Some
  <1>5. F(T \ {Some(T)}) = G(T \ {Some(T)}) /\ f[Some(T)] = g[Some(T)]
    BY <1>2, <1>4
  <1>6. QED BY <1>3, <1>5

LEMMA SumZero ==
    ASSUME NEW f, NEW S, IsFiniteSet(S), \A x \in S : f[x] = 0
    PROVE  SumFunctionOnSet(f, S) = 0
  <1> DEFINE Sum(T) == SumFunctionOnSet(f, T)
             Bad == {T \in SUBSET S : Sum(T) # 0}
  <1>1. SUFFICES ASSUME Bad # {} PROVE FALSE
    OBVIOUS
  <1>2. PICK T \in Bad : \A U \in Bad : U \subseteq T => U = T
    <2>1. Bad \subseteq SUBSET S
      OBVIOUS
    <2> HIDE DEF Bad
    <2>2. QED BY <1>1, <2>1, Smallest
  <1>3. Sum(T) = IF T = {} THEN 0 ELSE f[Some(T)] + Sum(T \ {Some(T)})
    BY SumStep, FS_Subset
  <1> HIDE DEF Sum
  <1>4. T # {} /\ Some(T) \in T
    BY <1>3 DEF Some
  <1>5. Sum(T \ {Some(T)}) = 0 /\ f[Some(T)] = 0
    BY <1>2, <1>4
  <1>6. QED BY <1>3, <1>5

\* What changing a function at one point does to its sum.
LEMMA SumChange ==
    ASSUME NEW f, NEW g, NEW S, IsFiniteSet(S), IsIntOn(f, S), NEW x \in S, g[x] \in Int,
           \A y \in S : y # x => g[y] = f[y]
    PROVE  SumFunctionOnSet(g, S) = SumFunctionOnSet(f, S) + (g[x] - f[x])
  <1>1. IsFiniteSet(S \ {x}) /\ IsIntOn(g, S) /\ IsIntOn(f, S \ {x}) /\ f[x] \in Int
    BY FS_RemoveElement DEF IsIntOn
  <1>2. /\ SumFunctionOnSet(f, S) = f[x] + SumFunctionOnSet(f, S \ {x})
        /\ SumFunctionOnSet(g, S) = g[x] + SumFunctionOnSet(g, S \ {x})
    BY <1>1, SumRemove
  <1>3. SumFunctionOnSet(f, S \ {x}) = SumFunctionOnSet(g, S \ {x})
    BY <1>1, SumAgree
  <1>4. SumFunctionOnSet(f, S \ {x}) \in Int
    BY <1>1, SumIsInt
  <1>5. QED BY <1>1, <1>2, <1>3, <1>4

\* Sums of naturals are naturals.
LEMMA SumIsNat ==
    ASSUME NEW f, NEW S, IsFiniteSet(S), \A x \in S : f[x] \in Nat
    PROVE  SumFunctionOnSet(f, S) \in Nat
  <1> DEFINE Sum(T) == SumFunctionOnSet(f, T)
             Bad == {T \in SUBSET S : Sum(T) \notin Nat}
  <1>1. SUFFICES ASSUME Bad # {} PROVE FALSE
    OBVIOUS
  <1>2. PICK T \in Bad : \A U \in Bad : U \subseteq T => U = T
    <2>1. Bad \subseteq SUBSET S
      OBVIOUS
    <2> HIDE DEF Bad
    <2>2. QED BY <1>1, <2>1, Smallest
  <1>3. Sum(T) = IF T = {} THEN 0 ELSE f[Some(T)] + Sum(T \ {Some(T)})
    BY SumStep, FS_Subset
  <1> HIDE DEF Sum
  <1>4. T # {} /\ Some(T) \in T
    BY <1>3 DEF Some
  <1>5. Sum(T \ {Some(T)}) \in Nat /\ f[Some(T)] \in Nat
    BY <1>2, <1>4
  <1>6. QED BY <1>3, <1>5

\* A function that is nowhere larger has no larger sum.
LEMMA SumLeq ==
    ASSUME NEW f, NEW g, NEW S, IsFiniteSet(S), IsIntOn(f, S), IsIntOn(g, S),
           \A x \in S : f[x] <= g[x]
    PROVE  SumFunctionOnSet(f, S) <= SumFunctionOnSet(g, S)
  <1> DEFINE F(T) == SumFunctionOnSet(f, T)
             G(T) == SumFunctionOnSet(g, T)
             Bad == {T \in SUBSET S : ~(F(T) <= G(T))}
  <1>1. SUFFICES ASSUME Bad # {} PROVE FALSE
    OBVIOUS
  <1>2. PICK T \in Bad : \A U \in Bad : U \subseteq T => U = T
    <2>1. Bad \subseteq SUBSET S
      OBVIOUS
    <2> HIDE DEF Bad
    <2>2. QED BY <1>1, <2>1, Smallest
  <1>3. /\ F(T) = IF T = {} THEN 0 ELSE f[Some(T)] + F(T \ {Some(T)})
        /\ G(T) = IF T = {} THEN 0 ELSE g[Some(T)] + G(T \ {Some(T)})
    BY SumStep, FS_Subset
  <1>4. F(T \ {Some(T)}) \in Int /\ G(T \ {Some(T)}) \in Int
    <2>1. IsFiniteSet(T \ {Some(T)}) /\ T \ {Some(T)} \in SUBSET S
      BY FS_Subset
    <2>2. IsIntOn(f, T \ {Some(T)}) /\ IsIntOn(g, T \ {Some(T)})
      BY <2>1 DEF IsIntOn
    <2>3. QED BY <2>1, <2>2, SumIsInt
  <1> HIDE DEF F, G
  <1>5. T # {} /\ Some(T) \in T
    BY <1>3 DEF Some
  <1>6. /\ F(T \ {Some(T)}) <= G(T \ {Some(T)}) /\ f[Some(T)] <= g[Some(T)]
        /\ f[Some(T)] \in Int /\ g[Some(T)] \in Int
    BY <1>2, <1>5 DEF IsIntOn
  <1>7. QED BY <1>3, <1>4, <1>5, <1>6

\* Elements that count for nothing may be left out of a sum.
LEMMA SumOver ==
    ASSUME NEW f, NEW S, IsFiniteSet(S), IsIntOn(f, S), NEW D \in SUBSET S,
           \A x \in S \ D : f[x] = 0
    PROVE  SumFunctionOnSet(f, S) = SumFunctionOnSet(f, D)
  <1> DEFINE Sum(T) == SumFunctionOnSet(f, T)
             Bad == {T \in SUBSET S : D \subseteq T /\ Sum(T) # Sum(D)}
  <1>1. SUFFICES ASSUME Bad # {} PROVE FALSE
    OBVIOUS
  <1>2. PICK T \in Bad : \A U \in Bad : U \subseteq T => U = T
    <2>1. Bad \subseteq SUBSET S
      OBVIOUS
    <2> HIDE DEF Bad
    <2>2. QED BY <1>1, <2>1, Smallest
  <1>3. PICK x \in T : x \notin D
    <2>1. D \subseteq T /\ T # D
      OBVIOUS
    <2>2. QED BY <2>1
  <1>4. Sum(T \ {x}) = Sum(D) /\ f[x] = 0
    BY <1>2, <1>3
  <1>5. Sum(T) = f[x] + Sum(T \ {x}) /\ Sum(T \ {x}) \in Int
    <2>1. IsFiniteSet(T) /\ IsFiniteSet(T \ {x}) /\ IsIntOn(f, T) /\ IsIntOn(f, T \ {x})
      BY FS_Subset DEF IsIntOn
    <2>2. QED BY <2>1, SumRemove, SumIsInt
  <1>6. Sum(T) # Sum(D)
    OBVIOUS
  <1> HIDE DEF Sum
  <1>7. QED BY <1>4, <1>5, <1>6

\* A sum taken class by class is the sum of all.
LEMMA SumByClass ==
    ASSUME NEW f, NEW S, IsFiniteSet(S), IsIntOn(f, S), NEW C, IsFiniteSet(C),
           NEW h, \A x \in S : h[x] \in C
    PROVE  SumFunctionOnSet([c \in C |-> SumFunctionOnSet(f, {x \in S : h[x] = c})], C)
             = SumFunctionOnSet(f, S)
  <1> DEFINE Sum(T) == SumFunctionOnSet(f, T)
             Class(T, c) == {x \in T : h[x] = c}
             G(T) == [c \in C |-> Sum(Class(T, c))]
             Total(T) == SumFunctionOnSet(G(T), C)
             Bad == {T \in SUBSET S : Total(T) # Sum(T)}
  <1>1. SUFFICES ASSUME Bad # {} PROVE FALSE
    OBVIOUS
  <1>2. PICK T \in Bad : \A U \in Bad : U \subseteq T => U = T
    <2>1. Bad \subseteq SUBSET S
      OBVIOUS
    <2> HIDE DEF Bad
    <2>2. QED BY <1>1, <2>1, Smallest
  <1>3. T \in SUBSET S /\ Total(T) # Sum(T)
    OBVIOUS
  <1>4. \A U \in SUBSET S : IsFiniteSet(U) /\ IsIntOn(f, U) /\ Sum(U) \in Int
    BY FS_Subset, SumIsInt DEF IsIntOn
  <1>5. CASE T = {}
    <2>1. \A c \in C : G(T)[c] = 0
      <3>1. \A c \in C : Class(T, c) = {}
        BY <1>5
      <3>2. QED BY <3>1, SumEmpty
    <2> HIDE DEF G
    <2>2. Total(T) = 0
      BY <2>1, SumZero
    <2>3. Sum(T) = 0
      BY <1>5, SumEmpty
    <2>4. QED BY <1>3, <2>2, <2>3
  <1>6. CASE T # {}
    <2>1. PICK x \in T : TRUE
      BY <1>6
    <2>2. PICK U : U = T \ {x}
      OBVIOUS
    <2>3. Total(U) = Sum(U)
      BY <1>2, <2>2
    <2>4. U \in SUBSET S /\ x \in S /\ h[x] \in C /\ f[x] \in Int
      BY <1>3, <2>2 DEF IsIntOn
    <2>5. \A c \in C : Class(U, c) \in SUBSET S /\ Class(T, c) \in SUBSET S
      BY <1>3, <2>4
    <2>6. \A c \in C : c # h[x] => Class(T, c) = Class(U, c)
      BY <2>2
    <2>7. Class(T, h[x]) \ {x} = Class(U, h[x]) /\ x \in Class(T, h[x])
      BY <2>2
    <2> HIDE DEF Class
    <2>8. Sum(Class(T, h[x])) = f[x] + Sum(Class(U, h[x]))
      <3>1. IsFiniteSet(Class(T, h[x])) /\ IsIntOn(f, Class(T, h[x]))
        BY <1>4, <2>4, <2>5
      <3>2. Sum(Class(T, h[x])) = f[x] + Sum(Class(T, h[x]) \ {x})
        BY <2>7, <3>1, SumRemove
      <3>3. QED BY <2>7, <3>2
    <2>9. /\ \A c \in C : G(U)[c] = Sum(Class(U, c)) /\ G(T)[c] = Sum(Class(T, c))
          /\ \A c \in C : G(U)[c] \in Int /\ G(T)[c] \in Int
      BY <1>4, <2>5
    <2>10. Sum(T) = f[x] + Sum(U)
      BY <1>3, <1>4, <2>2, SumRemove
    <2> DEFINE y == h[x]
    <2>11. /\ \A c \in C : c # y => G(T)[c] = G(U)[c]
           /\ G(T)[y] = f[x] + G(U)[y] /\ y \in C
      BY <2>4, <2>6, <2>8, <2>9
    <2>12. Total(T) \in Int /\ Total(U) \in Int /\ Sum(U) \in Int /\ IsIntOn(G(U), C)
      <3>1. IsIntOn(G(U), C) /\ IsIntOn(G(T), C)
        BY <2>9 DEF IsIntOn
      <3> HIDE DEF G
      <3>2. QED BY <1>4, <2>4, <3>1, SumIsInt
    <2> HIDE DEF G, Sum, y
    <2>13. Total(T) = Total(U) + (G(T)[y] - G(U)[y])
      BY <2>9, <2>11, <2>12, SumChange
    <2>14. G(T)[y] - G(U)[y] = f[x]
      BY <2>4, <2>9, <2>11
    <2> HIDE DEF Total
    <2>15. QED BY <1>3, <2>3, <2>4, <2>10, <2>12, <2>13, <2>14
  <1>7. QED BY <1>5, <1>6
=============================================================================
