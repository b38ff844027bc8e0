--------------------------- MODULE BranchHistory ---------------------------
(***************************************************************************)
(* What a repository promises about its branches, whoever moves them: each *)
(* branch is an append-only history of commits.  A branch appears once,    *)
(* empty or with a part of another branch's history, and from then on only *)
(* gains commits, one branch at a time.                                    *)
(***************************************************************************)
CONSTANT Branch

VARIABLES exists,       \* whether the branch has been created
          published     \* the commits in its history

vars == <<exists, published>>

Init ==
    /\ exists \in [Branch -> BOOLEAN]
    /\ published = [b \in Branch |-> {}]

(* Everything but branch b stays. *)
Only(b) ==
    \A d \in Branch \ {b} :
        exists'[d] = exists[d] /\ published'[d] = published[d]

Create(b) ==
    /\ ~exists[b]
    /\ exists'[b]
    /\ \/ published'[b] = {}
       \/ \E d \in Branch : published'[b] \subseteq published[d]
    /\ Only(b)

Advance(b) ==
    /\ exists[b]
    /\ exists'[b]
    /\ published[b] \subseteq published'[b]
    /\ published[b] # published'[b]
    /\ Only(b)

Next == \E b \in Branch : Create(b) \/ Advance(b)

Spec == Init /\ [][Next]_vars
=============================================================================
