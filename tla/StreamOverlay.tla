--------------------------- MODULE StreamOverlay ---------------------------
(***************************************************************************)
(* The stream that overlay_staged (services/tree.py) makes of the parent's *)
(* walk and what is staged, and its reading by build_from_entries.         *)
(*                                                                         *)
(* An addition takes the place of the first entry of its path.  Those that *)
(* have found no place come after all entries of the parent, in the order  *)
(* of paths.                                                               *)
(***************************************************************************)
EXTENDS CommitStreams

CONSTANTS Additions,   \* file maps that may be staged
          Removals     \* sets of prefixes of which the removal may be staged

ASSUME AdditionsAssumption ==
    \A adds \in Additions :
        /\ DOMAIN adds \subseteq Paths /\ IsFiniteSet(DOMAIN adds)
        /\ \A p \in DOMAIN adds : adds[p] \in Contents

VARIABLES parent,    \* the parent's stream
          staged, removed,
          parentAt,  \* the place of the next entry of the parent
          left,      \* the paths of additions_by_path
          output,    \* what was yielded
          built      \* "no", "tree" or "unsorted"

overlayVars == <<parent, staged, removed, parentAt, left, output, built>>

OverlayInit ==
    /\ parent \in EntryStreams
    /\ staged \in Additions /\ removed \in Removals
    /\ parentAt = 1
    /\ left = DOMAIN staged
    /\ output = <<>>
    /\ built = "no"

NextPath == parent[parentAt].path

PassOver ==
    /\ parentAt <= Len(parent) /\ Removed(NextPath, removed)
    /\ parentAt' = parentAt + 1
    /\ UNCHANGED <<parent, staged, removed, left, output, built>>

(* An addition stays in the map when it takes the place of an entry.       *)
YieldEntry_NotPopped ==
    /\ parentAt <= Len(parent) /\ ~Removed(NextPath, removed)
    /\ output' = Append(output,
                        IF NextPath \in left THEN File(NextPath, staged[NextPath])
                        ELSE parent[parentAt])
    /\ parentAt' = parentAt + 1
    /\ UNCHANGED <<parent, staged, removed, left, built>>

YieldEntry ==
    /\ parentAt <= Len(parent) /\ ~Removed(NextPath, removed)
    /\ output' = Append(output,
                        IF NextPath \in left THEN File(NextPath, staged[NextPath])
                        ELSE parent[parentAt])
    /\ left' = left \ {NextPath}
    /\ parentAt' = parentAt + 1
    /\ UNCHANGED <<parent, staged, removed, built>>

(* The remaining additions, sorted.                                        *)
YieldAddition ==
    /\ parentAt > Len(parent) /\ left # {}
    /\ output' = Append(output, File(FirstPath(left), staged[FirstPath(left)]))
    /\ left' = left \ {FirstPath(left)}
    /\ UNCHANGED <<parent, staged, removed, parentAt, built>>

(* build_from_entries refuses what does not ascend.                        *)
BuildTree ==
    /\ parentAt > Len(parent) /\ left = {} /\ built = "no"
    /\ built' = IF Ascending(output) THEN "tree" ELSE "unsorted"
    /\ UNCHANGED <<parent, staged, removed, parentAt, left, output>>

OverlayNext == PassOver \/ YieldEntry \/ YieldAddition \/ BuildTree

OverlaySpec == OverlayInit /\ [][OverlayNext]_overlayVars

-----------------------------------------------------------------------------
(* A staged commit that gets a tree gets the files of the commit to come,  *)
(* however the parent's walk is ordered: a removal takes all below it but  *)
(* what is staged with it.  Over a walk that ascends it gets one exactly   *)
(* when every new path comes after every path that stays.                  *)
OverlayExact ==
    LET before == FilesOfStream(parent)
        kept   == DOMAIN Without(before, removed)
        new    == DOMAIN staged \ kept
    IN  /\ built = "tree" =>
              FilesOfStream(output) = Staged(before, staged, removed)
        /\ built # "no" /\ Ascending(parent) =>
              (built = "tree" <=> \A p \in new, q \in kept : Before(q, p))
=============================================================================
