---------------------------- MODULE MCEditFence ----------------------------
(* Instances of EditFence for TLC. *)
EXTENDS EditFence, TLC

CONSTANTS o, s1, s2, e1, e2, r1, r2

MCOneUser == {o}
MCTwoProjects == {1, 2}
MCEditor == Tab \cup Req
MCSymmetry == Permutations({r1, r2})
=============================================================================
