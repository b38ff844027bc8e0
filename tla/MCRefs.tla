------------------------------- MODULE MCRefs -------------------------------
(***************************************************************************)
(* Refs on small instances: two clients of one bucket, "main" and one more *)
(* branch.                                                                 *)
(***************************************************************************)
EXTENDS Refs, TLC

CONSTANTS c1, c2, main, dev

OneClient == {c1}
TwoClients == {c1, c2}
OneBranch == {main}
TwoBranches == {main, dev}

AllCommands == [c \in TwoClients |-> Commands]

(* Two branches: either client makes them and commits, one merges, and     *)
(* nobody dies, which refs_shared has.                                     *)
Roles == [c \in TwoClients |->
             IF c = c1 THEN {"switch", "branch", "staged", "merge"}
             ELSE {"switch", "branch", "commit", "staged"}]

(* No action reads the reflogs or job.at: they only record for properties  *)
(* that the run over two branches does not check.                          *)
WithoutRecords ==
    <<ref, objects, head, snapshot, pc, [c \in Client |-> [job[c] EXCEPT !.at = Missing]]>>

(* The clients run the same code and have the same initial state. *)
ClientSymmetry == Permutations(TwoClients)
=============================================================================
