------------------------------ MODULE GoSlice ------------------------------
(***************************************************************************)
(* Slices of the Go runtime, as far as two goroutines that share one can   *)
(* tell them apart.  The order book appends to, inserts into and deletes   *)
(* from its slices while the matching engine walks them with `range`,      *)
(* holding no lock, so what a slice VALUE is matters here:                 *)
(*                                                                         *)
(*   - a slice variable is a header (array, length, capacity);             *)
(*   - `range s` reads the header once, and then one cell per iteration;   *)
(*   - append(s[:i], ...) overwrites the cells of the same backing array   *)
(*     when the result fits its capacity, and moves to a new array (twice  *)
(*     the capacity) when it does not;                                     *)
(*   - cells behind the new length keep what they held.                    *)
(*                                                                         *)
(* A slice is a record: arrays, every backing array it has had, in order   *)
(* (a reader may still walk an old one; the last is the current one, and   *)
(* an array's cells that were never written are left out), len and cap.    *)
(***************************************************************************)
EXTENDS Naturals, Sequences

\* Slices whose cells, in every backing array, hold elements of T.
Slice(T) ==
    {s \in [arrays : Seq(Seq(T)), len : Nat, cap : Nat] :
        /\ s.arrays # <<>>
        /\ s.len <= Len(s.arrays[Len(s.arrays)])}

\* make([]T, 0, c)
Make(c) == [arrays |-> << << >> >>, len |-> 0, cap |-> c]

\* The composite literal []T{x}
Literal(x) == [arrays |-> << <<x>> >>, len |-> 1, cap |-> 1]

Backing(s) == s.arrays[Len(s.arrays)]

\* What a reader holding the lock sees.
Elems(s) == SubSeq(Backing(s), 1, s.len)

\* The header `range s` evaluates once, before its first iteration.
Header(s) == [array |-> Len(s.arrays), len |-> s.len]

ValidHeader(s, h) ==
    /\ h.array \in 1 .. Len(s.arrays)
    /\ h.len \in 0 .. Len(s.arrays[h.array])

\* The cell that iteration k of a range with header h reads NOW.
At(s, h, k) == s.arrays[h.array][k]

\* cells e written over the front of array a; the rest of a keeps its cells.
Overwrite(a, e) == e \o SubSeq(a, Len(e) + 1, Len(a))

\* s = append(s[:i], ...), where e is the whole content of the result.
Store(s, e) ==
    IF Len(e) <= s.cap
    THEN [arrays |-> [s.arrays EXCEPT ![Len(s.arrays)] = Overwrite(Backing(s), e)],
          len |-> Len(e), cap |-> s.cap]
    ELSE [arrays |-> Append(s.arrays, e), len |-> Len(e), cap |-> 2 * s.cap]

\* append(s, x)
AppendTo(s, x) == Store(s, Append(Elems(s), x))

\* append(s[:i-1], append([]T{x}, s[i-1:]...)...), positions counted from 1
Insert(s, i, x) ==
    Store(s, SubSeq(Elems(s), 1, i - 1) \o <<x>> \o SubSeq(Elems(s), i, s.len))

\* append(s[:i-1], s[i:]...), positions counted from 1
Delete(s, i) ==
    Store(s, SubSeq(Elems(s), 1, i - 1) \o SubSeq(Elems(s), i + 1, s.len))
=============================================================================
