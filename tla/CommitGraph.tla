---------------------------- MODULE CommitGraph ----------------------------
(***************************************************************************)
(* Commit objects and the walks over them.                                 *)
(*                                                                         *)
(* A repository's commit objects are immutable and content addressed, and  *)
(* a commit is always written after its parents.  They are therefore kept  *)
(* as a sequence in the order they were written and a commit's identity is *)
(* its position; 0 (NoCommit) stands for None.  A commit has at most two   *)
(* parents: commits and fast-forwards make one, a three-way merge makes    *)
(* two, and the first parent is the head that the merge advances.          *)
(*                                                                         *)
(* "chain" is the set of commits the loop over first parents visits from a *)
(* commit, "ancestry" the set reachable through both parents.  They are    *)
(* functions of the stored parents, recorded when the commit is made so    *)
(* that no recursion is needed to walk the graph.                          *)
(***************************************************************************)
EXTENDS Integers, Sequences

NoCommit == 0

(* A ref that is not there at all. *)
Missing == -1

RefValue == {Missing} \cup Nat

CommitObject ==
    [first      : Nat,          \* parents[0], or NoCommit
     second     : Nat,          \* parents[1], or NoCommit
     generation : Nat,
     chain      : SUBSET Nat,
     ancestry   : SUBSET Nat]

(* A merge commit that forgets to step past its parents' generation. *)
Generation_NoIncrement(objs, p, q) ==
    IF p = NoCommit THEN 0
    ELSE IF q # NoCommit
         THEN IF objs[q].generation > objs[p].generation
              THEN objs[q].generation ELSE objs[p].generation
         ELSE objs[p].generation + 1

(* Root commits one below zero, so that max + 1 needs no special case. *)
Generation_RootBelowZero(objs, p, q) ==
    IF p = NoCommit THEN -1
    ELSE IF q # NoCommit /\ objs[q].generation > objs[p].generation
         THEN objs[q].generation + 1
         ELSE objs[p].generation + 1

(* max(generation of the parents) + 1, and 0 for a root commit. *)
Generation(objs, p, q) ==
    IF p = NoCommit THEN 0
    ELSE IF q # NoCommit /\ objs[q].generation > objs[p].generation
         THEN objs[q].generation + 1
         ELSE objs[p].generation + 1

Chain(objs, v) == IF v \in DOMAIN objs THEN objs[v].chain ELSE {}

Ancestry(objs, v) == IF v \in DOMAIN objs THEN objs[v].ancestry ELSE {}

(* The commit object written next, with parents p and q. *)
NewCommit(objs, p, q) ==
    [first      |-> p,
     second     |-> q,
     generation |-> Generation(objs, p, q),
     chain      |-> {Len(objs) + 1} \cup Chain(objs, p),
     ancestry   |-> {Len(objs) + 1} \cup Ancestry(objs, p) \cup Ancestry(objs, q)]

(* RefManager.is_ancestor: a shortcut on generations, then the walk over   *)
(* first parents from the descendant.                                      *)
IsAncestor(objs, a, d) ==
    IF objs[d].generation < objs[a].generation THEN FALSE
    ELSE IF objs[d].generation = objs[a].generation THEN d = a
    ELSE a \in objs[d].chain

(* ReflakeRepository._merge_base: where the first-parent histories of the  *)
(* two commits meet, the last commit they have in common.                  *)
MergeBase(objs, a, b) ==
    LET common == Chain(objs, a) \cap Chain(objs, b)
    IN  IF common = {} THEN NoCommit
        ELSE CHOOSE m \in common : \A i \in common : i <= m

(* A ref with value w has all the history of one with value v: v was       *)
(* missing, or empty, or is on the chain of w.                             *)
Extends(objs, v, w) ==
    \/ v = Missing
    \/ v = NoCommit /\ w # Missing
    \/ v \in Chain(objs, w)
=============================================================================
