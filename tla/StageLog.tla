------------------------------ MODULE StageLog ------------------------------
(***************************************************************************)
(* What staging promises: a staged change is published at least once.      *)
(*                                                                         *)
(* The changes wait under the path they name until a commit that has them  *)
(* all is on the branch, and only such a commit lets them go.  Others may  *)
(* commit in between, and a commit may be published more than once: a      *)
(* process that dies after it published forgets that it did.               *)
(***************************************************************************)
EXTENDS FileMaps

CONSTANTS IsAddition(_), IsRemoval(_)

VARIABLES head,       \* the files of the branch
          pending,    \* the changes that are staged, by the name they change
          published   \* whether it is known that all of them are on the branch

vars == <<head, pending, published>>

(* The files have what the changes add, and nothing they remove but what   *)
(* is added with the removal.                                              *)
Reflects(files, changes) ==
    /\ \A n \in DOMAIN changes : IsAddition(changes[n]) => n \in DOMAIN files
    /\ \A n \in DOMAIN changes, q \in DOMAIN files :
          IsRemoval(changes[n]) /\ Under(q, n) =>
              q \in DOMAIN changes /\ IsAddition(changes[q])

Init == head = NoFiles /\ pending = NoFiles /\ ~published

(* Changes are staged, over those of the same name; all others stay.       *)
Stage ==
    /\ DOMAIN pending \subseteq DOMAIN pending'
    /\ pending' # pending
    /\ UNCHANGED head
    /\ ~published'

(* Somebody else commits, or a commit that does not take what is staged.   *)
Elsewhere == UNCHANGED <<pending, published>>

Publish == Reflects(head', pending) /\ published' /\ UNCHANGED pending

Forget == ~published' /\ UNCHANGED <<head, pending>>

Drop == published /\ pending' = NoFiles /\ UNCHANGED head /\ ~published'

Next == Stage \/ Elsewhere \/ Publish \/ Forget \/ Drop

Spec == Init /\ [][Next]_vars
=============================================================================
