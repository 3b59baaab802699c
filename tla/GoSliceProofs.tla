--------------------------- MODULE GoSliceProofs ---------------------------
(***************************************************************************)
(* What every operation on a shared slice keeps, for every type of cell:   *)
(* the result holds cells of the same type, and a header read earlier      *)
(* still lies inside its backing array; and what the result shows, to      *)
(* those who hold the lock and to those who walk an earlier header.        *)
(***************************************************************************)
EXTENDS GoSlice, Integers, SequenceTheorems, TLAPS

\* The reader's view of a slice is a sequence of its cells.
LEMMA ElemsType ==
    ASSUME NEW T, NEW s \in Slice(T)
    PROVE  /\ Backing(s) \in Seq(T)
           /\ Len(s.arrays) \in Nat \ {0}
           /\ s.len \in 0 .. Len(Backing(s))
           /\ Elems(s) \in Seq(T)
           /\ Len(Elems(s)) = s.len
           /\ \A i \in 1 .. s.len : Elems(s)[i] \in T /\ Elems(s)[i] = Backing(s)[i]
  <1>1. s.arrays \in Seq(Seq(T)) /\ s.arrays # <<>> /\ s.len \in Nat
    BY DEF Slice
  <1>2. Len(s.arrays) \in Nat \ {0}
    BY <1>1, EmptySeq
  <1>3. Backing(s) \in Seq(T)
    BY <1>1, <1>2, ElementOfSeq DEF Backing
  <1>4. s.len \in 0 .. Len(Backing(s))
    BY <1>1, <1>3, LenProperties DEF Slice, Backing
  <1>5. \A i \in 1 .. s.len : Backing(s)[i] \in T
    BY <1>3, <1>4, ElementOfSeq, LenProperties
  <1>6. QED
    BY <1>2, <1>3, <1>4, <1>5, SubSeqProperties DEF Elems

\* A slice of S is a slice of every larger set.
LEMMA SliceMonotone ==
    ASSUME NEW S, NEW T, S \subseteq T, NEW s \in Slice(S)
    PROVE  s \in Slice(T)
  <1>1. ASSUME NEW a \in Seq(S) PROVE a \in Seq(T)
    BY <1>1, SeqMonotonic
  <1>2. Seq(S) \subseteq Seq(T)
    BY <1>1
  <1>3. s.arrays \in Seq(Seq(S))
    BY DEF Slice
  <1>4. s.arrays \in Seq(Seq(T))
    BY <1>2, <1>3, SeqMonotonic
  <1>5. QED BY <1>4 DEF Slice

\* Overwriting the front of an array never shortens it.
LEMMA OverwriteType ==
    ASSUME NEW T, NEW a \in Seq(T), NEW e \in Seq(T)
    PROVE  /\ Overwrite(a, e) \in Seq(T)
           /\ Len(Overwrite(a, e)) >= Len(a)
           /\ Len(Overwrite(a, e)) >= Len(e)
  <1>1. Len(a) \in Nat /\ Len(e) \in Nat
    BY LenProperties
  <1>2. \A i \in (Len(e) + 1) .. Len(a) : a[i] \in T
    BY <1>1, ElementOfSeq
  <1>3. /\ SubSeq(a, Len(e) + 1, Len(a)) \in Seq(T)
        /\ Len(SubSeq(a, Len(e) + 1, Len(a)))
             = IF Len(e) + 1 <= Len(a) THEN Len(a) - (Len(e) + 1) + 1 ELSE 0
    BY <1>1, <1>2, SubSeqProperties
  <1>4. QED
    BY <1>1, <1>3, ConcatProperties DEF Overwrite

\* append(s[:i], ...) keeps the type of the cells and every header that was
\* valid before it, whether it writes in place or moves to a new array.
LEMMA StoreKeeps ==
    ASSUME NEW T, NEW s \in Slice(T), NEW e \in Seq(T)
    PROVE  /\ Store(s, e) \in Slice(T)
           /\ \A h : ValidHeader(s, h) => ValidHeader(Store(s, e), h)
  <1>1. /\ s.arrays \in Seq(Seq(T)) /\ s.cap \in Nat /\ Len(s.arrays) \in Nat \ {0}
        /\ Len(e) \in Nat /\ Backing(s) \in Seq(T)
    BY ElemsType, LenProperties DEF Slice
  <1>2. CASE Len(e) <= s.cap
    <2> DEFINE n == Len(s.arrays)
               o == Overwrite(Backing(s), e)
               A == [s.arrays EXCEPT ![n] = o]
    <2>1. o \in Seq(T) /\ Len(o) >= Len(Backing(s)) /\ Len(o) >= Len(e)
      BY <1>1, OverwriteType
    <2>2. A \in Seq(Seq(T)) /\ Len(A) = n /\ A[n] = o
          /\ \A j \in 1 .. n : A[j] = IF j = n THEN o ELSE s.arrays[j]
      BY <1>1, <2>1, ExceptSeq
    <2>3. Store(s, e) = [arrays |-> A, len |-> Len(e), cap |-> s.cap]
      BY <1>2 DEF Store
    <2>4. Store(s, e) \in Slice(T)
      <3> HIDE DEF A, o
      <3>1. A # <<>>
        BY <2>2, <1>1, EmptySeq
      <3>2. QED
        BY <1>1, <2>1, <2>2, <2>3, <3>1 DEF Slice
    <2>5. \A h : ValidHeader(s, h) => ValidHeader(Store(s, e), h)
      <3> HIDE DEF A, o
      <3>1. \A j \in 1 .. n : Len(A[j]) \in Nat /\ Len(s.arrays[j]) \in Nat
                              /\ Len(A[j]) >= Len(s.arrays[j])
        <4> SUFFICES ASSUME NEW j \in 1 .. n
                     PROVE  /\ Len(A[j]) \in Nat /\ Len(s.arrays[j]) \in Nat
                            /\ Len(A[j]) >= Len(s.arrays[j])
          OBVIOUS
        <4>1. s.arrays[j] \in Seq(T) /\ A[j] \in Seq(T)
          BY <1>1, <2>2, ElementOfSeq
        <4>2. Len(s.arrays[j]) \in Nat /\ Len(A[j]) \in Nat
          BY <4>1, LenProperties
        <4>3. CASE j = n
          BY <2>1, <2>2, <4>2, <4>3 DEF Backing
        <4>4. CASE j # n
          BY <2>2, <4>2, <4>4
        <4>5. QED BY <4>2, <4>3, <4>4
      <3>2. QED
        BY <2>2, <2>3, <3>1 DEF ValidHeader
    <2>6. QED BY <2>4, <2>5
  <1>3. CASE ~(Len(e) <= s.cap)
    <2> DEFINE A == Append(s.arrays, e)
    <2>1. A \in Seq(Seq(T)) /\ Len(A) = Len(s.arrays) + 1 /\ A[Len(A)] = e
          /\ \A j \in 1 .. Len(s.arrays) : A[j] = s.arrays[j]
      BY <1>1, AppendProperties
    <2>2. Store(s, e) = [arrays |-> A, len |-> Len(e), cap |-> 2 * s.cap]
      BY <1>3 DEF Store
    <2> HIDE DEF A
    <2>3. A # <<>>
      BY <1>1, <2>1, EmptySeq
    <2>4. Store(s, e) \in Slice(T)
      <3>1. Store(s, e) \in [arrays : Seq(Seq(T)), len : Nat, cap : Nat]
        <4>1. 2 * s.cap \in Nat
          BY <1>1
        <4>2. QED BY <1>1, <2>1, <2>2, <4>1
      <3>2. Store(s, e).len <= Len(Store(s, e).arrays[Len(Store(s, e).arrays)])
        BY <1>1, <2>1, <2>2
      <3>3. QED BY <2>2, <2>3, <3>1, <3>2 DEF Slice
    <2>5. \A h : ValidHeader(s, h) => ValidHeader(Store(s, e), h)
      <3> SUFFICES ASSUME NEW h, ValidHeader(s, h)
                   PROVE  ValidHeader(Store(s, e), h)
        OBVIOUS
      <3>1. h.array \in 1 .. Len(s.arrays)
        BY DEF ValidHeader
      <3>2. Store(s, e).arrays[h.array] = s.arrays[h.array]
            /\ Len(Store(s, e).arrays) = Len(s.arrays) + 1
        BY <2>1, <2>2, <3>1
      <3>3. QED BY <1>1, <3>1, <3>2 DEF ValidHeader
    <2>6. QED BY <2>4, <2>5
  <1>4. QED BY <1>2, <1>3

\* The three ways the order book changes a slice.
LEMMA AppendKeeps ==
    ASSUME NEW T, NEW s \in Slice(T), NEW x \in T
    PROVE  /\ AppendTo(s, x) \in Slice(T)
           /\ \A h : ValidHeader(s, h) => ValidHeader(AppendTo(s, x), h)
  <1>1. Append(Elems(s), x) \in Seq(T)
    BY ElemsType, AppendProperties
  <1>2. QED BY <1>1, StoreKeeps DEF AppendTo

\* So does the insertion of a new level between two others (addToBids, addToAsks).
LEMMA InsertKeeps ==
    ASSUME NEW T, NEW s \in Slice(T), NEW x \in T, NEW i \in 1 .. s.len + 1
    PROVE  /\ Insert(s, i, x) \in Slice(T)
           /\ \A h : ValidHeader(s, h) => ValidHeader(Insert(s, i, x), h)
  <1>1. s.len \in Nat /\ \A j \in 1 .. s.len : Elems(s)[j] \in T
    BY ElemsType, LenProperties DEF Slice
  <1>2. SubSeq(Elems(s), 1, i - 1) \in Seq(T)
    BY <1>1, SubSeqProperties
  <1>3. SubSeq(Elems(s), i, s.len) \in Seq(T)
    BY <1>1, SubSeqProperties
  <1>4. <<x>> \in Seq(T)
    OBVIOUS
  <1>5. SubSeq(Elems(s), 1, i - 1) \o <<x>> \o SubSeq(Elems(s), i, s.len) \in Seq(T)
    BY <1>2, <1>3, <1>4, ConcatProperties
  <1>6. QED BY <1>5, StoreKeeps DEF Insert

\* So does the removal of an order or a level (removeFromLevels).
LEMMA DeleteKeeps ==
    ASSUME NEW T, NEW s \in Slice(T), NEW i \in 1 .. s.len
    PROVE  /\ Delete(s, i) \in Slice(T)
           /\ \A h : ValidHeader(s, h) => ValidHeader(Delete(s, i), h)
  <1>1. s.len \in Nat /\ \A j \in 1 .. s.len : Elems(s)[j] \in T
    BY ElemsType, LenProperties DEF Slice
  <1>2. SubSeq(Elems(s), 1, i - 1) \in Seq(T)
    BY <1>1, SubSeqProperties
  <1>3. SubSeq(Elems(s), i + 1, s.len) \in Seq(T)
    BY <1>1, SubSeqProperties
  <1>4. SubSeq(Elems(s), 1, i - 1) \o SubSeq(Elems(s), i + 1, s.len) \in Seq(T)
    BY <1>2, <1>3, ConcatProperties
  <1>5. QED BY <1>4, StoreKeeps DEF Delete

\* The slices that make and a literal start from.
LEMMA FreshSlices ==
    ASSUME NEW T
    PROVE  /\ \A c \in Nat : Make(c) \in Slice(T)
           /\ \A x \in T : Literal(x) \in Slice(T)
  <1>1. << >> \in Seq(T) /\ << << >> >> \in Seq(Seq(T)) /\ Len(<< << >> >>) = 1
    OBVIOUS
  <1>2. ASSUME NEW x \in T
        PROVE  <<x>> \in Seq(T) /\ << <<x>> >> \in Seq(Seq(T)) /\ Len(<< <<x>> >>) = 1
               /\ Len(<<x>>) = 1 /\ << <<x>> >> # << >>
    OBVIOUS
  <1>3. QED BY <1>1, <1>2 DEF Make, Literal, Slice

\* A header just read is valid, and the cell it reaches is of the cells' type.
LEMMA HeaderReads ==
    ASSUME NEW T, NEW s \in Slice(T)
    PROVE  /\ ValidHeader(s, Header(s))
           /\ Header(s) \in [array : Nat, len : Nat]
           /\ \A h, k : ValidHeader(s, h) /\ k \in 1 .. h.len => At(s, h, k) \in T
  <1>1. ValidHeader(s, Header(s)) /\ Header(s) \in [array : Nat, len : Nat]
    BY ElemsType DEF ValidHeader, Header, Backing
  <1>2. ASSUME NEW h, NEW k, ValidHeader(s, h), k \in 1 .. h.len
        PROVE  At(s, h, k) \in T
    <2>1. s.arrays \in Seq(Seq(T))
      BY DEF Slice
    <2>2. s.arrays[h.array] \in Seq(T)
      BY <1>2, <2>1, ElementOfSeq DEF ValidHeader
    <2>3. k \in 1 .. Len(s.arrays[h.array])
      BY <1>2, <2>2, LenProperties DEF ValidHeader
    <2>4. QED BY <2>2, <2>3, ElementOfSeq DEF At
  <1>3. QED BY <1>1, <1>2

-----------------------------------------------------------------------------
(* What a slice holds after an operation *)

\* Overwriting writes the new cells to the front and leaves the others.
LEMMA OverwriteCells ==
    ASSUME NEW T, NEW a \in Seq(T), NEW e \in Seq(T)
    PROVE  \A k \in 1 .. Len(Overwrite(a, e)) :
             Overwrite(a, e)[k] = IF k <= Len(e) THEN e[k] ELSE a[k]
  <1>1. Len(a) \in Nat /\ Len(e) \in Nat
    BY LenProperties
  <1> DEFINE b == SubSeq(a, Len(e) + 1, Len(a))
  <1>2. \A i \in (Len(e) + 1) .. Len(a) : a[i] \in T
    BY <1>1, ElementOfSeq
  <1>3. /\ b \in Seq(T)
        /\ Len(b) = IF Len(e) + 1 <= Len(a) THEN Len(a) - (Len(e) + 1) + 1 ELSE 0
        /\ \A i \in 1 .. Len(a) - (Len(e) + 1) + 1 : b[i] = a[(Len(e) + 1) + i - 1]
    BY <1>1, <1>2, SubSeqProperties
  <1> HIDE DEF b
  <1>4. /\ Len(e \o b) = Len(e) + Len(b)
        /\ \A i \in 1 .. Len(e) + Len(b) : (e \o b)[i] = IF i <= Len(e) THEN e[i] ELSE b[i - Len(e)]
    BY <1>3, ConcatProperties
  <1>5. ASSUME NEW k \in 1 .. Len(e \o b), k > Len(e) PROVE (e \o b)[k] = a[k]
    <2>1. PICK i : i = k - Len(e)
      OBVIOUS
    <2>2. i \in 1 .. Len(b) /\ Len(b) = Len(a) - Len(e) /\ k = Len(e) + i
      BY <1>1, <1>3, <1>4, <1>5, <2>1
    <2>3. b[i] = a[(Len(e) + 1) + i - 1] /\ (Len(e) + 1) + i - 1 = k
      BY <1>1, <1>3, <2>2
    <2>4. QED BY <1>4, <1>5, <2>1, <2>3, <1>1
  <1>6. QED BY <1>1, <1>4, <1>5 DEF Overwrite, b

\* append(s[:i], ...) shows what was stored; a reader that walks the slice with an
\* earlier header finds in each cell what it held before or something now stored.
LEMMA StoreContent ==
    ASSUME NEW T, NEW s \in Slice(T), NEW e \in Seq(T)
    PROVE  /\ Store(s, e).len = Len(e) /\ Len(e) \in Nat
           /\ Elems(Store(s, e)) = e
           /\ \A h, k : ValidHeader(s, h) /\ k \in 1 .. h.len
                => \/ At(Store(s, e), h, k) = At(s, h, k)
                   \/ \E m \in 1 .. Len(e) : At(Store(s, e), h, k) = e[m]
  <1>1. /\ s.arrays \in Seq(Seq(T)) /\ s.cap \in Nat /\ Len(s.arrays) \in Nat \ {0}
        /\ Len(e) \in Nat /\ Backing(s) \in Seq(T)
    BY ElemsType, LenProperties DEF Slice
  <1>2. Store(s, e) \in Slice(T)
    BY StoreKeeps
  <1>3. Store(s, e).len = Len(e)
    BY DEF Store
  <1>4. /\ Elems(Store(s, e)) \in Seq(T) /\ Len(Elems(Store(s, e))) = Len(e)
        /\ \A i \in 1 .. Len(e) : Elems(Store(s, e))[i] = Backing(Store(s, e))[i]
        /\ Len(e) <= Len(Backing(Store(s, e)))
    BY <1>1, <1>2, <1>3, ElemsType
  <1>5. CASE Len(e) <= s.cap
    <2> DEFINE n == Len(s.arrays)
               o == Overwrite(Backing(s), e)
               A == [s.arrays EXCEPT ![n] = o]
    <2>1. o \in Seq(T) /\ Len(o) >= Len(e) /\ Len(o) >= Len(Backing(s))
      BY <1>1, OverwriteType
    <2>2. /\ A \in Seq(Seq(T)) /\ Len(A) = n /\ A[n] = o
          /\ \A j \in 1 .. n : A[j] = IF j = n THEN o ELSE s.arrays[j]
      BY <1>1, <2>1, ExceptSeq
    <2>3. Store(s, e) = [arrays |-> A, len |-> Len(e), cap |-> s.cap]
      BY <1>5 DEF Store
    <2>4. \A k \in 1 .. Len(o) : o[k] = IF k <= Len(e) THEN e[k] ELSE Backing(s)[k]
      BY <1>1, OverwriteCells
    <2>5. Len(o) \in Nat /\ Len(Backing(s)) \in Nat
      BY <1>1, <2>1, LenProperties
    <2> HIDE DEF o, A
    <2>6. Backing(Store(s, e)) = o
      BY <2>2, <2>3 DEF Backing
    <2>7. ASSUME NEW i \in 1 .. Len(e) PROVE Elems(Store(s, e))[i] = e[i]
      <3>1. i \in 1 .. Len(o) /\ i <= Len(e)
        BY <1>1, <2>1, <2>5
      <3>2. o[i] = e[i]
        BY <2>4, <3>1
      <3>3. Elems(Store(s, e))[i] = o[i]
        BY <1>4, <2>6
      <3>4. QED BY <3>2, <3>3
    <2>8. Elems(Store(s, e)) = e
      <3>1. PICK f : f = Elems(Store(s, e))
        OBVIOUS
      <3>2. f \in Seq(T) /\ Len(f) = Len(e) /\ \A i \in 1 .. Len(f) : f[i] = e[i]
        BY <1>4, <2>7, <3>1
      <3>3. QED BY <3>1, <3>2, SeqEqual
    <2>9. ASSUME NEW h, NEW k, ValidHeader(s, h), k \in 1 .. h.len
          PROVE  \/ At(Store(s, e), h, k) = At(s, h, k)
                 \/ \E m \in 1 .. Len(e) : At(Store(s, e), h, k) = e[m]
      <3>1. h.array \in 1 .. n /\ At(Store(s, e), h, k) = A[h.array][k]
        BY <2>3, <2>9 DEF ValidHeader, At
      <3>2. CASE h.array = n
        <4>1. h.len \in 0 .. Len(Backing(s)) /\ At(s, h, k) = Backing(s)[k]
          BY <2>9, <3>2 DEF ValidHeader, Backing, At
        <4>2. k \in 1 .. Len(o)
          BY <2>1, <2>5, <2>9, <4>1
        <4>3. o[k] = IF k <= Len(e) THEN e[k] ELSE Backing(s)[k]
          BY <2>4, <4>2
        <4>4. k <= Len(e) => k \in 1 .. Len(e)
          BY <1>1, <2>5, <4>2
        <4>5. QED BY <2>2, <3>1, <3>2, <4>1, <4>3, <4>4
      <3>3. CASE h.array # n
        BY <2>2, <3>1, <3>3 DEF At
      <3>4. QED BY <3>2, <3>3
    <2>10. QED BY <1>1, <1>3, <2>8, <2>9
  <1>6. CASE ~(Len(e) <= s.cap)
    <2> DEFINE A == Append(s.arrays, e)
    <2>1. Len(A) = Len(s.arrays) + 1 /\ A[Len(A)] = e
          /\ \A j \in 1 .. Len(s.arrays) : A[j] = s.arrays[j]
      BY <1>1, AppendProperties
    <2>2. Store(s, e) = [arrays |-> A, len |-> Len(e), cap |-> 2 * s.cap]
      BY <1>6 DEF Store
    <2> HIDE DEF A
    <2>3. Backing(Store(s, e)) = e
      BY <2>1, <2>2 DEF Backing
    <2>4. Elems(Store(s, e)) = e
      BY <1>4, <2>3, SeqEqual
    <2>5. \A h, k : ValidHeader(s, h) => At(Store(s, e), h, k) = At(s, h, k)
      BY <2>1, <2>2 DEF ValidHeader, At
    <2>6. QED BY <1>1, <1>3, <2>4, <2>5
  <1>7. QED BY <1>5, <1>6

\* A reader finds in each cell what was there or something the slice now shows.
Reads(s, t) ==
    \A h, k : ValidHeader(s, h) /\ k \in 1 .. h.len
        => At(t, h, k) = At(s, h, k) \/ \E m \in 1 .. t.len : At(t, h, k) = Elems(t)[m]

\* append(s, x)
LEMMA AppendContent ==
    ASSUME NEW T, NEW s \in Slice(T), NEW x \in T
    PROVE  /\ AppendTo(s, x).len = s.len + 1
           /\ Elems(AppendTo(s, x)) = Append(Elems(s), x)
           /\ Reads(s, AppendTo(s, x))
  <1>1. Elems(s) \in Seq(T) /\ Len(Elems(s)) = s.len
    BY ElemsType
  <1>2. PICK e : e = Append(Elems(s), x)
    OBVIOUS
  <1>3. e \in Seq(T) /\ Len(e) = s.len + 1 /\ AppendTo(s, x) = Store(s, e)
    BY <1>1, <1>2, AppendProperties DEF AppendTo
  <1>4. /\ Store(s, e).len = Len(e) /\ Elems(Store(s, e)) = e
        /\ \A h, k : ValidHeader(s, h) /\ k \in 1 .. h.len
                => \/ At(Store(s, e), h, k) = At(s, h, k)
                   \/ \E m \in 1 .. Len(e) : At(Store(s, e), h, k) = e[m]
    BY <1>3, StoreContent
  <1>5. QED BY <1>2, <1>3, <1>4 DEF Reads

\* append(s[:i-1], append([]T{x}, s[i-1:]...)...)
LEMMA InsertContent ==
    ASSUME NEW T, NEW s \in Slice(T), NEW x \in T, NEW i \in 1 .. s.len + 1
    PROVE  /\ Insert(s, i, x).len = s.len + 1
           /\ \A k \in 1 .. s.len + 1 :
                Elems(Insert(s, i, x))[k] =
                  IF k < i THEN Elems(s)[k] ELSE IF k = i THEN x ELSE Elems(s)[k - 1]
  <1>1. /\ s.len \in Nat /\ \A j \in 1 .. s.len : Elems(s)[j] \in T
        /\ Elems(s) \in Seq(T) /\ Len(Elems(s)) = s.len
    BY ElemsType, LenProperties DEF Slice
  <1>2. PICK u : u = Elems(s)
    OBVIOUS
  <1>a. PICK f, g, h : f = SubSeq(u, 1, i - 1) /\ g = SubSeq(u, i, s.len) /\ h = <<x>>
    OBVIOUS
  <1>3. f \in Seq(T) /\ Len(f) = i - 1 /\ \A k \in 1 .. i - 1 : f[k] = u[k]
    BY <1>1, <1>2, <1>a, SubSeqProperties
  <1>4. g \in Seq(T) /\ Len(g) = s.len - i + 1 /\ \A k \in 1 .. s.len - i + 1 : g[k] = u[i + k - 1]
    <2>1. /\ g \in Seq(T) /\ Len(g) = IF i <= s.len THEN s.len - i + 1 ELSE 0
          /\ \A k \in 1 .. s.len - i + 1 : g[k] = u[i + k - 1]
      BY <1>1, <1>2, <1>a, SubSeqProperties
    <2>2. QED BY <1>1, <2>1
  <1>5. h \in Seq(T) /\ Len(h) = 1 /\ h[1] = x
    BY <1>a
  <1>6. /\ f \o h \in Seq(T) /\ Len(f \o h) = i
        /\ \A k \in 1 .. i : (f \o h)[k] = IF k <= i - 1 THEN f[k] ELSE h[k - (i - 1)]
    <2>1. /\ f \o h \in Seq(T) /\ Len(f \o h) = Len(f) + Len(h)
          /\ \A k \in 1 .. Len(f) + Len(h) :
               (f \o h)[k] = IF k <= Len(f) THEN f[k] ELSE h[k - Len(f)]
      BY <1>3, <1>5, ConcatProperties
    <2>2. Len(f) = i - 1 /\ Len(f) + Len(h) = i
      BY <1>1, <1>3, <1>5
    <2>3. QED BY <2>1, <2>2
  <1>7. /\ (f \o h) \o g \in Seq(T) /\ Len((f \o h) \o g) = s.len + 1
        /\ \A k \in 1 .. s.len + 1 :
             ((f \o h) \o g)[k] = IF k <= i THEN (f \o h)[k] ELSE g[k - i]
    <2>1. PICK d : d = f \o h
      OBVIOUS
    <2>2. /\ d \o g \in Seq(T) /\ Len(d \o g) = Len(d) + Len(g)
          /\ \A k \in 1 .. Len(d) + Len(g) :
               (d \o g)[k] = IF k <= Len(d) THEN d[k] ELSE g[k - Len(d)]
      <3>1. d \in Seq(T) /\ g \in Seq(T)
        BY <1>4, <1>6, <2>1
      <3>2. QED BY <3>1, ConcatProperties
    <2>3. Len(d) = i /\ Len(d) + Len(g) = s.len + 1
      BY <1>1, <1>4, <1>6, <2>1
    <2>4. QED BY <2>1, <2>2, <2>3
  <1>8. PICK e : e = (f \o h) \o g
    OBVIOUS
  <1>9. ASSUME NEW k \in 1 .. s.len + 1
        PROVE  e[k] = IF k < i THEN u[k] ELSE IF k = i THEN x ELSE u[k - 1]
    <2>1. CASE k < i
      <3>1. k \in 1 .. i /\ k \in 1 .. i - 1 /\ k <= i /\ k <= i - 1
        BY <1>1, <2>1
      <3>2. e[k] = (f \o h)[k] /\ (f \o h)[k] = f[k] /\ f[k] = u[k]
        BY <1>3, <1>6, <1>7, <1>8, <3>1
      <3>3. QED BY <2>1, <3>2
    <2>2. CASE k = i
      <3>1. k \in 1 .. i /\ k <= i /\ ~(k <= i - 1) /\ k - (i - 1) = 1 /\ ~(k < i)
        BY <1>1, <2>2
      <3>2. e[k] = (f \o h)[k] /\ (f \o h)[k] = h[k - (i - 1)]
        BY <1>6, <1>7, <1>8, <3>1
      <3>3. QED BY <1>5, <2>2, <3>1, <3>2
    <2>3. CASE k > i
      <3>1. PICK d : d = k - i
        OBVIOUS
      <3>2. d \in 1 .. s.len - i + 1 /\ i + d - 1 = k - 1
        BY <1>1, <2>3, <3>1
      <3>3. e[k] = g[d]
        BY <1>7, <1>8, <2>3, <3>1
      <3>4. g[d] = u[k - 1]
        BY <1>4, <3>2
      <3>5. ~(k < i) /\ k # i
        BY <1>1, <2>3
      <3>6. QED BY <3>3, <3>4, <3>5
    <2>4. QED BY <1>1, <2>1, <2>2, <2>3
  <1>10. Insert(s, i, x) = Store(s, e)
    BY <1>2, <1>8, <1>a DEF Insert
  <1>11. Store(s, e).len = s.len + 1 /\ Elems(Store(s, e)) = e
    BY <1>7, <1>8, StoreContent
  <1>12. QED BY <1>2, <1>9, <1>10, <1>11

\* append(s[:i-1], s[i:]...)
LEMMA DeleteContent ==
    ASSUME NEW T, NEW s \in Slice(T), NEW i \in 1 .. s.len
    PROVE  /\ Delete(s, i).len = s.len - 1
           /\ \A k \in 1 .. s.len - 1 :
                Elems(Delete(s, i))[k] = IF k < i THEN Elems(s)[k] ELSE Elems(s)[k + 1]
           /\ Reads(s, Delete(s, i))
  <1>1. /\ s.len \in Nat /\ \A j \in 1 .. s.len : Elems(s)[j] \in T
        /\ Elems(s) \in Seq(T) /\ Len(Elems(s)) = s.len
    BY ElemsType, LenProperties DEF Slice
  <1>2. PICK u : u = Elems(s)
    OBVIOUS
  <1>a. PICK f, g : f = SubSeq(u, 1, i - 1) /\ g = SubSeq(u, i + 1, s.len)
    OBVIOUS
  <1>3. f \in Seq(T) /\ Len(f) = i - 1 /\ \A k \in 1 .. i - 1 : f[k] = u[k]
    BY <1>1, <1>2, <1>a, SubSeqProperties
  <1>4. g \in Seq(T) /\ Len(g) = s.len - i /\ \A k \in 1 .. s.len - i : g[k] = u[i + k]
    <2>1. /\ g \in Seq(T) /\ Len(g) = IF i + 1 <= s.len THEN s.len - (i + 1) + 1 ELSE 0
          /\ \A k \in 1 .. s.len - (i + 1) + 1 : g[k] = u[(i + 1) + k - 1]
      BY <1>1, <1>2, <1>a, SubSeqProperties
    <2>2. Len(g) = s.len - i
      BY <1>1, <2>1
    <2>3. \A k \in 1 .. s.len - i : g[k] = u[i + k]
      <3>1. SUFFICES ASSUME NEW k \in 1 .. s.len - i PROVE g[k] = u[i + k]
        OBVIOUS
      <3>2. k \in 1 .. s.len - (i + 1) + 1 /\ (i + 1) + k - 1 = i + k
        BY <1>1
      <3>3. g[k] = u[(i + 1) + k - 1]
        BY <2>1, <3>2
      <3>4. QED BY <3>2, <3>3
    <2>4. QED BY <2>1, <2>2, <2>3
  <1>5. /\ f \o g \in Seq(T) /\ Len(f \o g) = s.len - 1
        /\ \A k \in 1 .. s.len - 1 : (f \o g)[k] = IF k <= i - 1 THEN f[k] ELSE g[k - (i - 1)]
    <2>1. /\ f \o g \in Seq(T) /\ Len(f \o g) = Len(f) + Len(g)
          /\ \A k \in 1 .. Len(f) + Len(g) :
               (f \o g)[k] = IF k <= Len(f) THEN f[k] ELSE g[k - Len(f)]
      BY <1>3, <1>4, ConcatProperties
    <2>2. Len(f) = i - 1 /\ Len(f) + Len(g) = s.len - 1
      BY <1>1, <1>3, <1>4
    <2>3. QED BY <2>1, <2>2
  <1>6. PICK e : e = f \o g
    OBVIOUS
  <1>7. ASSUME NEW k \in 1 .. s.len - 1
        PROVE  e[k] = IF k < i THEN u[k] ELSE u[k + 1]
    <2>1. CASE k < i
      BY <1>1, <1>3, <1>5, <1>6, <2>1
    <2>2. CASE k >= i
      <3>1. PICK d : d = k - (i - 1)
        OBVIOUS
      <3>2. d \in 1 .. s.len - i /\ i + d = k + 1
        BY <1>1, <2>2, <3>1
      <3>3. e[k] = g[d]
        BY <1>1, <1>5, <1>6, <2>2, <3>1
      <3>4. QED BY <1>1, <1>4, <2>2, <3>2, <3>3
    <2>3. QED BY <1>1, <2>1, <2>2
  <1>8. Delete(s, i) = Store(s, e)
    BY <1>2, <1>6, <1>a DEF Delete
  <1>9. /\ Store(s, e).len = s.len - 1 /\ Elems(Store(s, e)) = e
        /\ \A h, k : ValidHeader(s, h) /\ k \in 1 .. h.len
                => \/ At(Store(s, e), h, k) = At(s, h, k)
                   \/ \E m \in 1 .. s.len - 1 : At(Store(s, e), h, k) = e[m]
    <2>1. e \in Seq(T) /\ Len(e) = s.len - 1
      BY <1>5, <1>6
    <2>2. /\ Store(s, e).len = Len(e) /\ Elems(Store(s, e)) = e
          /\ \A h, k : ValidHeader(s, h) /\ k \in 1 .. h.len
                => \/ At(Store(s, e), h, k) = At(s, h, k)
                   \/ \E m \in 1 .. Len(e) : At(Store(s, e), h, k) = e[m]
      BY <2>1, StoreContent
    <2>3. QED BY <2>1, <2>2
  <1>10. QED BY <1>2, <1>7, <1>8, <1>9 DEF Reads

\* []T{x}
LEMMA LiteralContent ==
    ASSUME NEW T, NEW x \in T
    PROVE  Literal(x).len = 1 /\ Elems(Literal(x)) = <<x>>
  <1>1. Literal(x) \in Slice(T)
    BY FreshSlices
  <1>2. Literal(x).len = 1 /\ Backing(Literal(x)) = <<x>>
    BY DEF Literal, Backing
  <1>3. /\ Elems(Literal(x)) \in Seq(T) /\ Len(Elems(Literal(x))) = 1
        /\ Elems(Literal(x))[1] = x
    BY <1>1, <1>2, ElemsType
  <1>4. <<x>> \in Seq(T) /\ Len(<<x>>) = 1 /\ <<x>>[1] = x
    OBVIOUS
  <1>5. QED BY <1>2, <1>3, <1>4, SeqEqual
=============================================================================
