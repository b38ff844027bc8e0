------------------------------- MODULE MCSync -------------------------------
(***************************************************************************)
(* Sync on small instances: one or two clones and one remote.              *)
(***************************************************************************)
EXTENDS Sync, TLC

CONSTANTS alice, bob, origin, main, dev

OneClone == {alice}
TwoClones == {alice, bob}
OneBranch == {main}
TwoBranches == {main, dev}

(* Clones start alike and run the same code. *)
CloneSymmetry == Permutations(TwoClones)
=============================================================================
