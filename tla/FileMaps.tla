------------------------------ MODULE FileMaps ------------------------------
(***************************************************************************)
(* The files of a commit as a map from logical paths to what is known of   *)
(* each file, and what removals, additions and moves do to such a map.     *)
(*                                                                         *)
(* A path is the sequence of its components, so that a prefix of a path is *)
(* a directory above it.                                                   *)
(***************************************************************************)
EXTENDS Naturals, Sequences, SequencesExt

CONSTANT NoFile       \* there is no file at a path

NoFiles == [p \in {} |-> NoFile]

At(f, p) == IF p \in DOMAIN f THEN f[p] ELSE NoFile

(* matches_logical_path: a path is the named file, or is below it.         *)
Under(p, prefix) == IsPrefix(prefix, p)

(* _path_is_removed, matches_any_logical_path *)
Removed(p, prefixes) == \E r \in prefixes : Under(p, r)

Without(f, prefixes) ==
    [p \in {q \in DOMAIN f : ~Removed(q, prefixes)} |-> f[p]]

(* The files of g, and those of f at the other paths.                      *)
Over(g, f) ==
    [p \in DOMAIN g \cup DOMAIN f |-> IF p \in DOMAIN g THEN g[p] ELSE f[p]]

(* Mutant: removals apply to what is staged with them too.                 *)
Staged_RemovesLast(f, adds, removed) == Without(Over(adds, f), removed)

(* commit --staged: removals apply to the parent's files, not to what is   *)
(* staged with them.                                                       *)
Staged(f, adds, removed) == Over(adds, Without(f, removed))

(* commit: files of the working tree win over staged additions, and those  *)
(* over the parent's files, which stay unless their removal is staged.     *)
FullCommit(f, worktree, adds, removed) ==
    Over(Without(worktree, removed), Staged(f, adds, removed))

(* move_logical_path *)
MovedPath(p, source, destination) ==
    IF Under(p, source)
    THEN destination \o SubSeq(p, Len(source) + 1, Len(p))
    ELSE p

(* repo_move: the paths are distinct when the move is accepted.            *)
Moved(f, source, destination) ==
    LET to(p) == MovedPath(p, source, destination)
    IN  [q \in {to(p) : p \in DOMAIN f} |->
            f[CHOOSE p \in DOMAIN f : to(p) = q]]

(* The rule of the three-way merge: both sides changed a path, each in its *)
(* own way.                                                                *)
Conflicts(b, ours, theirs) ==
    {p \in DOMAIN b \cup DOMAIN ours \cup DOMAIN theirs :
        /\ At(ours, p) # At(theirs, p)
        /\ At(ours, p) # At(b, p)
        /\ At(theirs, p) # At(b, p)}

(* The side that changed a path since the base decides it.                 *)
MergedAt(b, ours, theirs, p) ==
    IF At(ours, p) = At(b, p) THEN At(theirs, p) ELSE At(ours, p)

Merged(b, ours, theirs) ==
    [p \in {q \in DOMAIN ours \cup DOMAIN theirs :
                MergedAt(b, ours, theirs, q) # NoFile} |->
        MergedAt(b, ours, theirs, p)]
=============================================================================
