----------------------------- MODULE StreamDiff -----------------------------
(***************************************************************************)
(* The loop of diff (repository.py): the streams of two commits are read   *)
(* side by side, and which of the paths at their heads comes first decides *)
(* what is reported.                                                       *)
(***************************************************************************)
EXTENDS CommitStreams

VARIABLES from, to,  \* the streams
          fromAt, toAt,      \* the places of their heads
          changes,   \* the answer so far
          answered

diffVars == <<from, to, fromAt, toAt, changes, answered>>

Change(path, before, after) == [path |-> path, before |-> before, after |-> after]

DiffInit ==
    /\ from \in EntryStreams /\ to \in EntryStreams
    /\ fromAt = 1 /\ toAt = 1
    /\ changes = <<>>
    /\ answered = FALSE

BothLeft == fromAt <= Len(from) /\ toAt <= Len(to)

ReportRemoved ==
    /\ ~answered /\ fromAt <= Len(from)
    /\ BothLeft => Before(from[fromAt].path, to[toAt].path)
    /\ changes' = Append(changes, Change(from[fromAt].path, from[fromAt].content, NoFile))
    /\ fromAt' = fromAt + 1
    /\ UNCHANGED <<from, to, toAt, answered>>

ReportAdded ==
    /\ ~answered /\ toAt <= Len(to)
    /\ BothLeft => /\ from[fromAt].path # to[toAt].path
                   /\ ~Before(from[fromAt].path, to[toAt].path)
    /\ changes' = Append(changes, Change(to[toAt].path, NoFile, to[toAt].content))
    /\ toAt' = toAt + 1
    /\ UNCHANGED <<from, to, fromAt, answered>>

(* A path that both have is read on in one of the streams only.            *)
Compare_OneSide ==
    /\ ~answered /\ BothLeft
    /\ from[fromAt].path = to[toAt].path
    /\ changes' = IF from[fromAt].content = to[toAt].content THEN changes
                  ELSE Append(changes, Change(from[fromAt].path, from[fromAt].content,
                                              to[toAt].content))
    /\ fromAt' = fromAt + 1
    /\ UNCHANGED <<from, to, toAt, answered>>

Compare ==
    /\ ~answered /\ BothLeft
    /\ from[fromAt].path = to[toAt].path
    /\ changes' = IF from[fromAt].content = to[toAt].content THEN changes
                  ELSE Append(changes, Change(from[fromAt].path, from[fromAt].content,
                                              to[toAt].content))
    /\ fromAt' = fromAt + 1 /\ toAt' = toAt + 1
    /\ UNCHANGED <<from, to, answered>>

Answer ==
    /\ ~answered /\ fromAt > Len(from) /\ toAt > Len(to)
    /\ answered' = TRUE
    /\ UNCHANGED <<from, to, fromAt, toAt, changes>>

DiffNext == ReportRemoved \/ ReportAdded \/ Compare \/ Answer

DiffSpec == DiffInit /\ [][DiffNext]_diffVars

-----------------------------------------------------------------------------
(* diff of two commits whose walks ascend reports exactly the paths that   *)
(* differ, each once and in order, with what was there and what is.        *)
DiffExact ==
    LET before == FilesOfStream(from)
        after  == FilesOfStream(to)
        paths  == DOMAIN before \cup DOMAIN after
    IN  answered /\ Ascending(from) /\ Ascending(to) =>
            /\ Ascending(changes)
            /\ {changes[k] : k \in DOMAIN changes} =
                  {Change(p, At(before, p), At(after, p)) :
                      p \in {q \in paths : At(before, q) # At(after, q)}}
=============================================================================
