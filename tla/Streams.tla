------------------------------ MODULE Streams ------------------------------
(***************************************************************************)
(* Streams of manifest entries: what iter_all_entries yields for a commit. *)
(*                                                                         *)
(* A stream is a sequence of entries.  Loops that read several streams     *)
(* side by side (StreamMerge.tla, StreamDiff.tla) keep a position in each  *)
(* and compare the paths at their heads.  Before is the order of paths as  *)
(* strings; that streams ascend in it is not assumed: a walk of tree       *)
(* objects need not.                                                       *)
(***************************************************************************)
EXTENDS FileMaps, FiniteSetsExt

CONSTANTS Before(_, _),  \* p < q for the strings of two paths
          BlockEntries   \* DERIVED_BLOCK_ENTRY_COUNT

ASSUME BlockEntriesAssumption == BlockEntries \in Nat /\ BlockEntries >= 1

File(path, content) == [path |-> path, content |-> content]

(* What build_from_entries asks of a stream.                               *)
Ascending(s) ==
    \A i \in 1..(Len(s) - 1) : Before(s[i].path, s[i + 1].path)

(* The file map of a stream: a later entry of a path replaces an earlier.  *)
FilesOfStream(s) ==
    [p \in {s[i].path : i \in DOMAIN s} |->
        s[Max({i \in DOMAIN s : s[i].path = p})].content]

-----------------------------------------------------------------------------
(* Reading side by side *)

(* max of the paths at the heads *)
FirstPath_Last(paths) == CHOOSE p \in paths : \A q \in paths : ~Before(p, q)

(* min of the paths at the heads of the streams *)
FirstPath(paths) == CHOOSE p \in paths : \A q \in paths : ~Before(q, p)

(* The head of a stream, read up to k, is the entry of the path.           *)
Reads(s, k, path) == k <= Len(s) /\ s[k].path = path

EntryAt(s, k, path) == IF Reads(s, k, path) THEN s[k].content ELSE NoFile

(* advance: a stream is read on when its head was the path's entry.        *)
Past(s, k, path) == IF Reads(s, k, path) THEN k + 1 ELSE k

-----------------------------------------------------------------------------
(* The three-way merge of one path *)

(* A path that ours changed and theirs removed is not reported.            *)
InConflict_KeepsOurs(b, o, t) == o # t /\ o # b /\ t # b /\ t # NoFile

InConflict(b, o, t) == o # t /\ o # b /\ t # b

(* The entry the merge keeps: with a conflict ours, or what is left.       *)
Taken(b, o, t) ==
    IF o = b \/ (o = NoFile /\ t # b) THEN t ELSE o

-----------------------------------------------------------------------------
(* The derived manifest is the stream in blocks, and the index has the     *)
(* first path of each.  lookup_derived_entry reads the last block that     *)
(* starts at or before the path, up to the first entry beyond it.          *)
LookupDerived(s, path) ==
    LET starts == {i \in DOMAIN s : (i - 1) % BlockEntries = 0}
        before == {i \in starts : ~Before(path, s[i].path)}
        start  == Max(before)
        block  == {i \in DOMAIN s : i >= start /\ i < start + BlockEntries}
        found  == {i \in block : /\ s[i].path = path
                                 /\ \A j \in start..i : ~Before(path, s[j].path)}
    IN  IF before = {} \/ found = {} THEN NoFile ELSE s[Min(found)].content
=============================================================================
