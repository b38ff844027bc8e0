------------------------------ MODULE Pruning ------------------------------
(***************************************************************************)
(* Which row groups of a Parquet file a WHERE clause can skip.             *)
(*                                                                         *)
(* When a file is committed its footer is read and the statistics of its   *)
(* row groups are stored beside the blob; a scan decides from them, and    *)
(* never from data, which groups cannot hold a row that matches.  A row    *)
(* group left out by mistake is a wrong answer nobody sees.                *)
(*                                                                         *)
(* The values of a column are numbers, texts or booleans in their order.   *)
(* NaN, which compares with nothing, is left out.  The bounds in a footer  *)
(* are of the bytes a column is stored as, and those of some columns, the  *)
(* misordered ones of a file, come in another order than their values.     *)
(***************************************************************************)
EXTENDS Integers, Sequences, FiniteSets

CONSTANTS
    Files,            \* the files a source may be: row groups, a footer and
                      \* the columns that are misordered
    Queries,          \* the predicate lists asked for
    StatisticsOf(_),  \* the statistics read from a footer
    Edits             \* whether a source may change while it is committed

NoValue == [kind |-> "none", at |-> 0]

Kinds == {"num", "text", "bool"}

(* A value of a column, and a cell, which may be null.                     *)
Value == [kind : Kinds, at : Int]
Cell  == Value \cup {NoValue}

Ops == {"=", "!=", "<", "<=", ">", ">=", "is_null", "is_not_null"}

(* _compare: values of one kind, and never a null.                         *)
Comparable(l, r) == l.kind # "none" /\ l.kind = r.kind

Holds(l, op, r) ==
    \/ op = "="  /\ l.at = r.at
    \/ op = "<"  /\ l.at < r.at
    \/ op = "<=" /\ l.at <= r.at
    \/ op = ">"  /\ l.at > r.at
    \/ op = ">=" /\ l.at >= r.at

(* The first column chunk of the predicate's name.                         *)
Candidates(group, p) == {k \in DOMAIN group.columns : group.columns[k].path = p.column}

ColumnOf(group, p) ==
    group.columns[CHOOSE k \in Candidates(group, p) :
                    \A j \in Candidates(group, p) : k <= j]

(* _possible: whether the statistics of a column decide a predicate, and   *)
(* if they do, whether a row of the group may satisfy it.                  *)
Decidable(c, p) ==
    \/ p.op \in {"is_null", "is_not_null"}
    \/ p.op = "!=" /\ c.nulls > 0
    \/ /\ p.op \in {"!=", "=", "<", "<="} => Comparable(c.min, p.value)
       /\ p.op \in {"!=", "=", ">", ">="} => Comparable(c.max, p.value)

(* Mutant: <= decided as <.                                                *)
MayHold_OpenBounds(c, rows, p) ==
    \/ p.op = "is_null" /\ c.nulls > 0
    \/ p.op = "is_not_null" /\ c.nulls < rows
    \/ p.op = "!=" /\ (c.nulls > 0 \/ c.min.at # p.value.at \/ c.max.at # p.value.at)
    \/ p.op \in {"<", "<="} /\ Holds(c.min, "<", p.value)
    \/ p.op \in {">", ">="} /\ Holds(c.max, ">", p.value)
    \/ p.op = "=" /\ Holds(c.min, "<=", p.value) /\ Holds(c.max, ">=", p.value)

MayHold(c, rows, p) ==
    \/ p.op = "is_null" /\ c.nulls > 0
    \/ p.op = "is_not_null" /\ c.nulls < rows
    \/ p.op = "!=" /\ (c.nulls > 0 \/ c.min.at # p.value.at \/ c.max.at # p.value.at)
    \/ p.op \in {"<", "<="} /\ Holds(c.min, p.op, p.value)
    \/ p.op \in {">", ">="} /\ Holds(c.max, p.op, p.value)
    \/ p.op = "=" /\ Holds(c.min, "<=", p.value) /\ Holds(c.max, ">=", p.value)

Possible(group, p) ==
    IF Candidates(group, p) = {} \/ ~Decidable(ColumnOf(group, p), p)
    THEN "undecidable"
    ELSE IF MayHold(ColumnOf(group, p), group.rows, p) THEN "possible" ELSE "empty"

(* prune_row_groups: a group is skipped when some predicate rules it out.  *)
RuledOut(group, query) == \E k \in DOMAIN query : Possible(group, query[k]) = "empty"

PrunedGroups(stats, query) ==
    {k \in DOMAIN stats.row_groups : RuledOut(stats.row_groups[k], query)}

(* The loop over the predicates stops at the first that rules a group out. *)
Undecided(stats, query) ==
    {query[k].column : k \in
        {k \in DOMAIN query : \E g \in DOMAIN stats.row_groups :
            /\ Possible(stats.row_groups[g], query[k]) = "undecidable"
            /\ \A j \in 1..(k - 1) : Possible(stats.row_groups[g], query[j]) # "empty"}}

PruneRowGroups(stats, query) ==
    [pruned       |-> PrunedGroups(stats, query),
     kept         |-> DOMAIN stats.row_groups \ PrunedGroups(stats, query),
     inapplicable |-> Undecided(stats, query)]

-----------------------------------------------------------------------------
VARIABLES
    source,   \* what the source file holds
    pending,  \* the footer read by a commit under way, or Idle
    entry,    \* the committed entry: the blob and its statistics
    plan      \* the last scan: what was asked of which blob, and the answer

vars == <<source, pending, entry, plan>>

None == [none |-> TRUE]
Idle == [idle |-> TRUE]

Unread == [readable |-> FALSE]  \* no statistics of an entry

Init ==
    /\ source \in Files
    /\ pending = Idle
    /\ entry = None
    /\ plan = None

(* The file is written anew by whoever owns it.  A plan is of a blob, so a *)
(* replacement while one is held is the same as one before the scan.       *)
Replace ==
    /\ Edits \/ pending = Idle
    /\ plan = None
    /\ source' \in Files
    /\ UNCHANGED <<pending, entry, plan>>

(* _capture_footer opens the source, reads the footer, and closes it.  An  *)
(* error of the reader that nothing catches ends the commit.               *)
CaptureFooter ==
    /\ pending = Idle
    /\ ~StatisticsOf(source.footer).raises
    /\ pending' = [footer |-> StatisticsOf(source.footer)]
    /\ UNCHANGED <<source, entry, plan>>

(* store_blob_from_source_uri opens it again for the bytes; the entry has  *)
(* both.                                                                   *)
StoreBlob ==
    /\ pending # Idle
    /\ entry' = [blob |-> source, footer |-> pending.footer]
    /\ pending' = Idle
    /\ plan' = None
    /\ UNCHANGED source

(* A staged move, and verify, write the path's entry with its blob and     *)
(* without its footer.                                                     *)
DropFooter ==
    /\ entry # None
    /\ entry' = [blob |-> entry.blob, footer |-> Unread]
    /\ plan' = None
    /\ UNCHANGED <<source, pending>>

(* plan_pruned_scan: entries without statistics are not in the plan.       *)
Scan ==
    /\ plan = None
    /\ entry # None
    /\ entry.footer.readable
    /\ \E query \in Queries :
         plan' = [blob |-> entry.blob, query |-> query,
                  result |-> PruneRowGroups(entry.footer, query)]
    /\ UNCHANGED <<source, pending, entry>>

Next == Replace \/ CaptureFooter \/ StoreBlob \/ DropFooter \/ Scan

Spec == Init /\ [][Next]_vars

-----------------------------------------------------------------------------
(* What a row answers to a predicate.  A null satisfies IS NULL and !=, as *)
(* the comment in _possible has it, and a value of another kind is not     *)
(* equal to anything.                                                      *)
Satisfies(cell, p) ==
    \/ p.op = "is_null" /\ cell = NoValue
    \/ p.op = "is_not_null" /\ cell # NoValue
    \/ p.op = "!=" /\ ~(Comparable(cell, p.value) /\ cell.at = p.value.at)
    \/ Comparable(cell, p.value) /\ Holds(cell, p.op, p.value)

(* A row group of a file: for each of its columns one cell per row.  A     *)
(* predicate over a column the file does not have rules nothing out.       *)
Matches(rows, r, query) ==
    \A k \in DOMAIN query :
        query[k].column \in DOMAIN rows => Satisfies(rows[query[k].column][r], query[k])

(* Whether a query compares the bounds of a misordered column.             *)
Misread(file, query) ==
    \E k \in DOMAIN query :
        /\ query[k].op \notin {"is_null", "is_not_null"}
        /\ query[k].column \in file.misordered

(* No scan skips a row group with a row that satisfies every predicate,    *)
(* whatever the file was replaced by before or after and whatever fields   *)
(* its footer has besides, as long as the query compares no misordered     *)
(* column.  (pruning.py: "a row group is kept unless the stats prove it    *)
(* cannot match", without that condition.)                                 *)
Conservative ==
    plan # None /\ ~Misread(plan.blob, plan.query) =>
        \A g \in plan.result.pruned :
            LET rows == plan.blob.groups[g]
            IN  \A c \in DOMAIN rows : \A r \in DOMAIN rows[c] :
                    ~Matches(rows, r, plan.query)
=============================================================================
