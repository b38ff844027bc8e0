--------------------------- MODULE PruningProofs ---------------------------
(***************************************************************************)
(* Pruning loses no row, for any set of files and of queries: when the     *)
(* statistics a writer records are true of its rows as they are read, but  *)
(* for the bounds of misordered columns, which the query does not compare, *)
(* and when no file changes between the two reads of a commit.             *)
(***************************************************************************)
EXTENDS Pruning, FiniteSetTheorems, WellFoundedInduction, TLAPS

(* What must be true of the statistics of a column chunk: the nulls and    *)
(* the rows are counted.                                                   *)
TrueOfColumn(c, rows, cells) ==
    /\ c.min \in Cell
    /\ c.max \in Cell
    /\ cells \in Seq(Cell)
    /\ rows = Len(cells)
    /\ c.nulls = Cardinality({r \in DOMAIN cells : cells[r] = NoValue})

(* Unless the column is misordered, a bound, if there is one, is one.      *)
Bounded(c, cells) ==
    /\ c.min # NoValue =>
          \A r \in DOMAIN cells : cells[r] # NoValue =>
              cells[r].kind = c.min.kind /\ c.min.at <= cells[r].at
    /\ c.max # NoValue =>
          \A r \in DOMAIN cells : cells[r] # NoValue =>
              cells[r].kind = c.max.kind /\ cells[r].at <= c.max.at

TrueOfGroup(group, rows, misordered) ==
    /\ \A k \in DOMAIN group.columns :
          /\ k \in Nat
          /\ group.columns[k].path \in DOMAIN rows
          /\ TrueOfColumn(group.columns[k], group.rows, rows[group.columns[k].path])
          /\ group.columns[k].path \notin misordered =>
                Bounded(group.columns[k], rows[group.columns[k].path])
    /\ \A c, d \in DOMAIN rows : DOMAIN rows[c] = DOMAIN rows[d]

TrueOfFile(f) ==
    LET stats == StatisticsOf(f.footer)
    IN  stats.readable =>
            \A g \in DOMAIN stats.row_groups :
                TrueOfGroup(stats.row_groups[g], f.groups[g], f.misordered)

TypedQuery(query) ==
    \A k \in DOMAIN query : query[k].op \in Ops /\ query[k].value \in Cell

(* A predicate the statistics rule out holds of no cell of the column.    *)
LEMMA EmptyIsEmpty ==
    ASSUME NEW c, NEW rows, NEW cells, TrueOfColumn(c, rows, cells),
           NEW p, p.op \in Ops, p.value \in Cell,
           p.op \in {"is_null", "is_not_null"} \/ Bounded(c, cells),
           Decidable(c, p), ~MayHold(c, rows, p),
           NEW r \in DOMAIN cells
    PROVE  ~Satisfies(cells[r], p)
<1> DEFINE N == {i \in DOMAIN cells : cells[i] = NoValue}
<1>1. /\ c.min \in Cell /\ c.max \in Cell /\ cells[r] \in Cell
      /\ rows = Len(cells) /\ rows \in Nat /\ DOMAIN cells = 1..rows
      /\ c.nulls = Cardinality(N)
  BY DEF TrueOfColumn
<1>2. IsFiniteSet(DOMAIN cells) /\ Cardinality(DOMAIN cells) = rows
  <2>1. /\ IsFiniteSet(1..rows)
        /\ Cardinality(1..rows) = IF 1 > rows THEN 0 ELSE rows - 1 + 1
    <3>1. 1 \in Int /\ rows \in Int
      BY <1>1
    <3> QED
      BY ONLY <3>1, FS_Interval
  <2> QED
    BY <1>1, <2>1
<1>3. IsFiniteSet(N) /\ c.nulls \in Nat /\ c.nulls <= rows
  BY <1>1, <1>2, FS_Subset, FS_CardinalityType
<1>4. cells[r] = NoValue => c.nulls > 0
  <2>1. cells[r] = NoValue => N # {}
    OBVIOUS
  <2>2. N # {} => Cardinality(N) # 0
    BY ONLY <1>3, FS_EmptySet
  <2>3. c.nulls = Cardinality(N) /\ c.nulls \in Nat
    BY <1>1, <1>3
  <2> QED
    BY <2>1, <2>2, <2>3
<1>5. cells[r] # NoValue => c.nulls < rows
  <2>1. cells[r] # NoValue => N # DOMAIN cells
    OBVIOUS
  <2>2. Cardinality(N) = Cardinality(DOMAIN cells) => N = DOMAIN cells
    BY <1>2, FS_Subset
  <2> QED
    BY <1>1, <1>2, <1>3, <2>1, <2>2
<1>6. p.op \notin {"is_null", "is_not_null"} =>
        /\ c.min # NoValue /\ cells[r] # NoValue =>
              cells[r].kind = c.min.kind /\ c.min.at <= cells[r].at
        /\ c.max # NoValue /\ cells[r] # NoValue =>
              cells[r].kind = c.max.kind /\ cells[r].at <= c.max.at
  BY DEF Bounded
<1>7. /\ c.min.at \in Int /\ c.max.at \in Int /\ cells[r].at \in Int /\ p.value.at \in Int
      /\ \A v \in Cell : (v.kind = "none") <=> (v = NoValue)
  BY <1>1 DEF Cell, Value, Kinds, NoValue
<1>8. CASE p.op = "is_null"
  BY <1>3, <1>4, <1>8 DEF Decidable, MayHold, Satisfies, Comparable, Holds
<1>9. CASE p.op = "is_not_null"
  BY <1>3, <1>5, <1>9, <1>1 DEF Decidable, MayHold, Satisfies, Comparable, Holds
<1>10. CASE p.op = "!="
  BY <1>1, <1>3, <1>4, <1>6, <1>7, <1>10
  DEF Decidable, MayHold, Satisfies, Comparable, Holds
<1>11. CASE p.op \in {"<", "<="}
  BY <1>1, <1>6, <1>7, <1>11 DEF Decidable, MayHold, Satisfies, Comparable, Holds
<1>12. CASE p.op \in {">", ">="}
  BY <1>1, <1>6, <1>7, <1>12 DEF Decidable, MayHold, Satisfies, Comparable, Holds
<1>13. CASE p.op = "="
  BY <1>1, <1>6, <1>7, <1>13 DEF Decidable, MayHold, Satisfies, Comparable, Holds
<1> QED
  BY <1>8, <1>9, <1>10, <1>11, <1>12, <1>13 DEF Ops

(* The first candidate is a candidate.                                     *)
LEMMA ColumnOfCandidate ==
    ASSUME NEW group, NEW p, Candidates(group, p) # {},
           \A k \in DOMAIN group.columns : k \in Nat
    PROVE  \E k \in Candidates(group, p) : ColumnOf(group, p) = group.columns[k]
<1> DEFINE S == Candidates(group, p)
<1>1. S \subseteq Nat
  BY DEF Candidates
<1> DEFINE R == {ss \in Nat \X Nat : ss[1] < ss[2]}
<1>a. IsWellFoundedOn(R, Nat)
  BY NatLessThanWellFounded DEF OpToRel
<1>2. \E k \in S : \A j \in S : ~(<<j, k>> \in R)
  <2> HIDE DEF R
  <2> QED
    BY <1>1, <1>a, WFMin
<1>3. \E k \in S : \A j \in S : k <= j
  <2>1. PICK k \in S : \A j \in S : ~(<<j, k>> \in R)
    BY <1>2
  <2>2. ASSUME NEW j \in S PROVE k <= j
    <3>1. <<j, k>> \in Nat \X Nat /\ <<j, k>>[1] = j /\ <<j, k>>[2] = k
      BY <1>1
    <3>2. ~(j < k)
      BY <2>1, <3>1
    <3> QED
      BY <1>1, <3>1, <3>2
  <2> QED
    BY <2>1, <2>2
<1> QED
  BY <1>3 DEF ColumnOf

(* A group whose statistics are true of it, and that a query rules out,    *)
(* has no row that satisfies the query.                                    *)
LEMMA RuledOutHasNoMatch ==
    ASSUME NEW file, NEW group, NEW rows, TrueOfGroup(group, rows, file.misordered),
           NEW query, TypedQuery(query), RuledOut(group, query),
           ~Misread(file, query),
           NEW c \in DOMAIN rows, NEW r \in DOMAIN rows[c]
    PROVE  ~Matches(rows, r, query)
<1>1. PICK k \in DOMAIN query : Possible(group, query[k]) = "empty"
  BY DEF RuledOut
<1> DEFINE p == query[k]
<1>2. /\ Candidates(group, p) # {}
      /\ Decidable(ColumnOf(group, p), p)
      /\ ~MayHold(ColumnOf(group, p), group.rows, p)
  BY <1>1 DEF Possible
<1>3. PICK j \in Candidates(group, p) : ColumnOf(group, p) = group.columns[j]
  BY <1>2, ColumnOfCandidate DEF TrueOfGroup
<1>4. /\ p.column \in DOMAIN rows
      /\ TrueOfColumn(ColumnOf(group, p), group.rows, rows[p.column])
      /\ p.column \notin file.misordered => Bounded(ColumnOf(group, p), rows[p.column])
      /\ r \in DOMAIN rows[p.column]
  BY <1>3 DEF TrueOfGroup, Candidates
<1>5. p.op \in Ops /\ p.value \in Cell
  BY DEF TypedQuery
<1>6. p.op \in {"is_null", "is_not_null"} \/ Bounded(ColumnOf(group, p), rows[p.column])
  BY <1>4 DEF Misread
<1>7. ~Satisfies(rows[p.column][r], p)
  BY <1>2, <1>4, <1>5, <1>6, EmptyIsEmpty
<1> QED
  BY <1>4, <1>7 DEF Matches

(* What a commit holds and an entry says is read from the blob.            *)
FromBlob ==
    /\ source \in Files
    /\ pending # Idle => pending = [footer |-> StatisticsOf(source.footer)]
    /\ entry # None =>
          \E f \in Files : \/ entry = [blob |-> f, footer |-> StatisticsOf(f.footer)]
                          \/ entry = [blob |-> f, footer |-> Unread]

LEMMA FromBlobHolds == ASSUME ~Edits PROVE Spec => []FromBlob
<1>1. Init => FromBlob
  BY DEF Init, FromBlob
<1>2. FromBlob /\ [Next]_vars => FromBlob'
  <2> SUFFICES ASSUME FromBlob, [Next]_vars PROVE FromBlob'
    OBVIOUS
  <2> USE DEF FromBlob
  <2>1. CASE Replace
    BY <2>1 DEF Replace
  <2>2. CASE CaptureFooter
    BY <2>2 DEF CaptureFooter
  <2>3. CASE StoreBlob
    BY <2>3 DEF StoreBlob
  <2>4. CASE DropFooter
    BY <2>4 DEF DropFooter
  <2>5. CASE Scan
    BY <2>5 DEF Scan
  <2>6. CASE UNCHANGED vars
    BY <2>6 DEF vars
  <2> QED
    BY <2>1, <2>2, <2>3, <2>4, <2>5, <2>6 DEF Next
<1> QED
  BY <1>1, <1>2, PTL DEF Spec

(* Pruning skips no row group with a row that matches, for every set of    *)
(* files whose footers, as read, are true of them but for the bounds of    *)
(* misordered columns, and for every query that compares none of those.    *)
THEOREM PruningIsConservative ==
    ASSUME ~Edits,
           \A f \in Files : TrueOfFile(f),
           \A query \in Queries : TypedQuery(query)
    PROVE  Spec => []Conservative
<1>1. Init => Conservative
  BY DEF Init, Conservative
<1>2. Conservative /\ FromBlob /\ [Next]_vars => Conservative'
  <2> SUFFICES ASSUME Conservative, FromBlob, [Next]_vars PROVE Conservative'
    OBVIOUS
  <2>1. CASE Scan
    <3>1. PICK query \in Queries :
            plan' = [blob |-> entry.blob, query |-> query,
                     result |-> PruneRowGroups(entry.footer, query)]
      BY <2>1 DEF Scan
    <3>2. /\ entry # None
          /\ entry.footer.readable
      BY <2>1 DEF Scan
    <3>3. PICK f \in Files : entry = [blob |-> f, footer |-> StatisticsOf(f.footer)]
      BY <3>2 DEF FromBlob, Unread
    <3> DEFINE stats == StatisticsOf(f.footer)
    <3>4. ASSUME ~Misread(f, query), NEW g \in PrunedGroups(stats, query),
                 NEW c \in DOMAIN f.groups[g], NEW r \in DOMAIN f.groups[g][c]
          PROVE  ~Matches(f.groups[g], r, query)
      <4>1. g \in DOMAIN stats.row_groups /\ RuledOut(stats.row_groups[g], query)
        BY DEF PrunedGroups
      <4>2. TrueOfGroup(stats.row_groups[g], f.groups[g], f.misordered)
        BY <3>2, <3>3, <4>1 DEF TrueOfFile
      <4> QED
        BY <3>4, <4>1, <4>2, RuledOutHasNoMatch
    <3>5. /\ plan'.blob = f
          /\ plan'.query = query
          /\ plan'.result.pruned = PrunedGroups(stats, query)
      BY <3>1, <3>3 DEF PruneRowGroups
    <3> QED
      BY <3>4, <3>5 DEF Conservative
  <2>2. CASE StoreBlob \/ DropFooter
    BY <2>2 DEF StoreBlob, DropFooter, Conservative
  <2>3. CASE Replace \/ CaptureFooter \/ UNCHANGED vars
    BY <2>3 DEF Replace, CaptureFooter, vars, Conservative
  <2> QED
    BY <2>1, <2>2, <2>3 DEF Next
<1> QED
  BY <1>1, <1>2, FromBlobHolds, PTL DEF Spec
=============================================================================
