----------------------------- MODULE MCObjects -----------------------------
(***************************************************************************)
(* Objects on a small graph: a root commit c1; c2, with a subtree, a blob  *)
(* and a footer of its own; c4, an unrelated root with the tree of c1; and *)
(* c3, which merges c4 into c2 and has the tree of c1 again.               *)
(***************************************************************************)
EXTENDS Objects, TLC

CONSTANTS c1, c2, c3, c4, t1, t2, b1, b2, f2,
          p1, p2, main, dev, noCommit, missing, noObject

GraphParents == (c1 :> <<>>) @@ (c2 :> <<c1>>) @@ (c3 :> <<c2, c4>>) @@ (c4 :> <<>>)

GraphTreeOf == (c1 :> t1) @@ (c2 :> t2) @@ (c3 :> t1) @@ (c4 :> t1)

GraphHolds == (t1 :> {b1}) @@ (t2 :> {t1, b2, f2})

GraphCommits == {c1, c2, c3, c4}
GraphTrees == {t1, t2}
MCBlobs == {b1, b2}
MCFooters == {f2}
TwoProcs == {p1, p2}
TwoBranches == {main, dev}

(* Bounds on the search.  Once a prune has raced a writer, only the rest   *)
(* of that prune is of interest: nothing is promised of the repository any *)
(* more.  The second branch is created and does not move. *)
Bounded ==
    /\ risk => gc.pc # "idle"
    /\ \A p \in Procs : work[p].branch = main

OnlyGcGoesOn == risk => gc' # gc

ProcSymmetry == Permutations(TwoProcs)
=============================================================================
