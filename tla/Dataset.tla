------------------------------ MODULE Dataset ------------------------------
(***************************************************************************)
(* What the commands that change a dataset promise, without trees.         *)
(*                                                                         *)
(* A commit is seen as the map from logical paths to file contents that    *)
(* its tree stands for (FileMaps.tla).  Two branches with a common history *)
(* are kept, and the last commit that both have on their first-parent      *)
(* chains, which a merge takes for its base.  Trees.tla implements this    *)
(* specification with tree objects.                                        *)
(***************************************************************************)
EXTENDS FileMaps

CONSTANTS Paths,        \* the logical paths files may have
          Contents,     \* what a file may hold: the hash and size of a leaf
          Branches,
          NoCommit,     \* the branch, or the base of a merge, has no commit
          Additions,    \* the inputs of the commands: maps of staged additions,
          Removals,     \* sets of staged removals,
          Worktrees,    \* maps of the files of a working tree,
          Moves         \* and pairs of a source and a destination

(* Maps from some of the paths to contents.                                *)
FileMap == UNION {[D -> Contents] : D \in SUBSET Paths}

VARIABLES heads,        \* the files of each branch's head commit
          base,         \* the files of the last commit both branches share
          ahead         \* whether a branch has committed since that commit

vars == <<heads, base, ahead>>

(* What repo_move checks of the paths: something moves, to elsewhere, and  *)
(* onto nothing that stays.                                                *)
Movable(f, source, destination) ==
    LET moving == {p \in DOMAIN f : Under(p, source)}
        moved  == {MovedPath(p, source, destination) : p \in moving}
    IN  /\ moving # {}
        /\ ~Under(destination, source)
        /\ moved \cap (DOMAIN f \ moving) = {}
        /\ moved \subseteq Paths

FilesOf(commit) == IF commit = NoCommit THEN NoFiles ELSE commit

-----------------------------------------------------------------------------
Init ==
    /\ heads = [b \in Branches |-> NoCommit]
    /\ base = NoCommit
    /\ ahead = [b \in Branches |-> FALSE]

(* A commit on a branch leaves it with one of the file maps.               *)
CommitOneOf(b, maps) ==
    LET now == heads
    IN  /\ heads' \in {[now EXCEPT ![b] = f] : f \in maps}
        /\ ahead' = [ahead EXCEPT ![b] = TRUE]
        /\ UNCHANGED base

(* A change is staged once per path: as an addition or as a removal.       *)
StagedChanges ==
    {c \in Additions \X Removals : DOMAIN c[1] \cap c[2] = {}}

StagedCommit(b) ==
    LET files == FilesOf(heads[b])
    IN  CommitOneOf(b, {Staged(files, c[1], c[2]) : c \in StagedChanges})

WorktreeCommit(b) ==
    LET files == FilesOf(heads[b])
    IN  CommitOneOf(b, {FullCommit(files, w, c[1], c[2]) :
                            w \in Worktrees, c \in StagedChanges})

RemovePaths(b) ==
    LET files == FilesOf(heads[b])
    IN  CommitOneOf(b, {Without(files, r) :
            r \in {q \in Removals : \E p \in DOMAIN files : Removed(p, q)}})

Move(b) ==
    LET files == FilesOf(heads[b])
    IN  CommitOneOf(b, {Moved(files, m[1], m[2]) :
            m \in {n \in Moves : Movable(files, n[1], n[2])}})

(* Branch b is made at the head of the other one.                          *)
Fork(b, from) ==
    /\ heads[b] = NoCommit /\ heads[from] # NoCommit
    /\ heads' = [heads EXCEPT ![b] = heads[from]]
    /\ base' = heads[from]
    /\ ahead' = [c \in Branches |-> FALSE]

(* The target has no commit of its own: it takes the source's head.        *)
FastForward(source, target) ==
    /\ ahead[source] /\ ~ahead[target] /\ heads[target] # NoCommit
    /\ heads' = [heads EXCEPT ![target] = heads[source]]
    /\ base' = heads[source]
    /\ ahead' = [c \in Branches |-> FALSE]

(* Both have.  The base stays where the first-parent chains meet.          *)
Merge(source, target) ==
    /\ ahead[source] /\ ahead[target]
    /\ LET b == FilesOf(base)  ours == heads[target]  theirs == heads[source]
       IN  /\ Conflicts(b, ours, theirs) = {}
           /\ CommitOneOf(target, {Merged(b, ours, theirs)})

Next ==
    \/ \E b \in Branches :
          StagedCommit(b) \/ WorktreeCommit(b) \/ RemovePaths(b) \/ Move(b)
    \/ \E b, c \in Branches :
          /\ b # c
          /\ Fork(b, c) \/ FastForward(b, c) \/ Merge(b, c)

Spec == Init /\ [][Next]_vars
=============================================================================
