---------------------------- MODULE StreamMerge ----------------------------
(***************************************************************************)
(* The loop of three_way_merge (services/tree.py).                         *)
(*                                                                         *)
(* The streams of the base, of ours and of theirs are read together: in    *)
(* every round the least of the paths at their heads is decided, by the    *)
(* entries that are at the head and have this path, and read past.  A path *)
(* that comes up in two rounds raises; what was merged then goes through   *)
(* build_from_entries, which raises when it does not ascend.               *)
(***************************************************************************)
EXTENDS CommitStreams

Sides == {"base", "ours", "theirs"}

VARIABLES streams,    \* what is read
          at,         \* the place of the head of each stream
          seen,       \* seen_paths
          merged,     \* the merged entries, in the order they came up
          conflicts,  \* the paths in conflict, likewise
          outcome

vars == <<streams, at, seen, merged, conflicts, outcome>>

Unread == {x \in Sides : at[x] <= Len(streams[x])}

Path == FirstPath({streams[x][at[x]].path : x \in Unread})

(* The entry of the round's path on a side, if the side has it at its head.*)
Row(x) == EntryAt(streams[x], at[x], Path)

Init ==
    /\ streams \in [Sides -> EntryStreams]
    /\ at = [x \in Sides |-> 1]
    /\ seen = {}
    /\ merged = <<>>
    /\ conflicts = <<>>
    /\ outcome = "reading"

Duplicate ==
    /\ outcome = "reading" /\ Unread # {}
    /\ Path \in seen
    /\ outcome' = "duplicate"
    /\ UNCHANGED <<streams, at, seen, merged, conflicts>>

Decide ==
    /\ outcome = "reading" /\ Unread # {}
    /\ Path \notin seen
    /\ seen' = seen \cup {Path}
    /\ at' = [x \in Sides |-> Past(streams[x], at[x], Path)]
    /\ LET taken == Taken(Row("base"), Row("ours"), Row("theirs"))
       IN  merged' = IF taken = NoFile THEN merged
                     ELSE Append(merged, File(Path, taken))
    /\ conflicts' = IF InConflict(Row("base"), Row("ours"), Row("theirs"))
                    THEN Append(conflicts, Path) ELSE conflicts
    /\ UNCHANGED <<streams, outcome>>

(* build_from_entries of what was merged, then merge_trees                 *)
Finish ==
    /\ outcome = "reading" /\ Unread = {}
    /\ outcome' = IF ~Ascending(merged) THEN "unsorted"
                  ELSE IF conflicts # <<>> THEN "conflict" ELSE "merged"
    /\ UNCHANGED <<streams, at, seen, merged, conflicts>>

Next == Duplicate \/ Decide \/ Finish

Spec == Init /\ [][Next]_vars

-----------------------------------------------------------------------------
(* Properties *)

FilesOfSide(x) == FilesOfStream(streams[x])

(* However the three walks are ordered, a merge that is not refused as     *)
(* duplicate or unsorted has compared every path's entries with each       *)
(* other: it reports the paths that both sides changed in their own ways,  *)
(* each once, and when there are none its files are what the merge rule    *)
(* makes of the three commits.                                             *)
MergedByRule ==
    LET found == Conflicts(FilesOfSide("base"), FilesOfSide("ours"),
                           FilesOfSide("theirs"))
    IN  /\ outcome = "merged" =>
              /\ found = {}
              /\ FilesOfStream(merged) = Merged(FilesOfSide("base"),
                                                FilesOfSide("ours"),
                                                FilesOfSide("theirs"))
        /\ outcome = "conflict" =>
              /\ found = {conflicts[i] : i \in DOMAIN conflicts}
              /\ found # {}
              /\ \A i, j \in DOMAIN conflicts :
                    conflicts[i] = conflicts[j] => i = j

(* Walks that ascend are never refused: no path comes up in two rounds and *)
(* what is merged ascends again, so that a tree can be built of it.        *)
AscendingAccepted ==
    (\A x \in Sides : Ascending(streams[x])) =>
        outcome \notin {"duplicate", "unsorted"}
=============================================================================
