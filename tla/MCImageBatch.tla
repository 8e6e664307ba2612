---------------------------- MODULE MCImageBatch ----------------------------
(* TLC instances of ImageBatch. *)
EXTENDS ImageBatch, TLC

CONSTANTS p1, p2, b1, b2, u1, u2

OneBeat == {p1}
TwoBeats == {p1, p2}
OneBatch == {b1}
TwoBatches == {b1, b2}
OneUser == {u1}
TwoUsers == {u1, u2}

\* Which hazards a run lets happen.
Stoppable == {"crash", "trash", "cancel", "retry"}
Faulty == {"crash", "fault", "generate"}
GenerateOnly == {"generate"}

Symmetry == Permutations({p1, p2})
=============================================================================
