----------------------------- MODULE MCAccounts -----------------------------
(* Instance of Accounts for TLC: an owner and one member, whose ids are model values. *)
EXTENDS Accounts, TLC

CONSTANTS o, m, s1, s2, e1, e2

MCUser == {o, m}
MCProject == {1}
TabSymmetry == Permutations({e1, e2})
SessionSymmetry == Permutations({s1, s2})
MCSymmetry == TabSymmetry \cup SessionSymmetry
=============================================================================
