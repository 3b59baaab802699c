---------------------------- MODULE MCPositions ----------------------------
(* Small instances of Positions for TLC. *)
EXTENDS Positions, TLC

KeySymmetry == Permutations(Keys)

\* What happens after a drop no property tells apart: the positions do not depend on the
\* channel, and SavedCatchesUp speaks only of histories in which nothing was dropped.
NothingDropped == ~dropped
=============================================================================
