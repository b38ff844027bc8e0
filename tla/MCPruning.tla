----------------------------- MODULE MCPruning -----------------------------
(* Small Parquet files for Pruning, with the footer their writer lays out  *)
(* and the reader of Footer: one or two row groups of one or two rows,     *)
(* numbers, texts and booleans, null or not, with the bounds recorded      *)
(* tightly, loosely, under the old field numbers, or not at all, as the    *)
(* values, as unscaled decimals, as unsigned integers, as bytes that are   *)
(* no text, or cut short.                                                  *)
EXTENDS Pruning, TLC, SequencesExt

CONSTANTS
    LongList,  \* see Footer
    Counted    \* whether every writer records the number of nulls

F == INSTANCE FooterLayout

(* A column x and a nested column y.z, and how a predicate names them.     *)
x == <<<<"x">>>>
y == <<<<"y">>, <<"z">>>>

Name(path) == F!Joined(path)

Num(n)  == [kind |-> "num",  at |-> n]
Txt(n)  == [kind |-> "text", at |-> n]
Bool(n) == [kind |-> "bool", at |-> n]

Type(kind) == IF kind = "num" THEN 2 ELSE IF kind = "text" THEN 6 ELSE 0

Style(slack, bounds, legacy, extra, counted) ==
    [slack |-> slack, bounds |-> bounds, legacy |-> legacy, extra |-> extra,
     counted |-> counted]

Styles == <<Style(0, TRUE, FALSE, TRUE, TRUE), Style(1, TRUE, TRUE, FALSE, TRUE),
            Style(0, FALSE, FALSE, TRUE, TRUE)>>
          \o IF Counted THEN <<>> ELSE <<Style(0, FALSE, FALSE, FALSE, FALSE)>>

Positions(cells) == {cells[r].at : r \in {r \in DOMAIN cells : cells[r] # NoValue}}

(* The bound n of a column as its bytes are read: a DECIMAL with one digit *)
(* after the point is ten times as much, an unsigned integer of two bits   *)
(* is taken for a signed one, and bytes of n above 1 are no UTF-8.         *)
Stored(encoding, n) ==
    CASE encoding = "decimal"  -> F!Raw(10 * n, TRUE, TRUE)
      [] encoding = "unsigned" -> F!Raw(IF n > 1 THEN n - 4 ELSE n, TRUE, TRUE)
      [] encoding = "bytes"    -> F!Raw(n, TRUE, n <= 1)
      [] encoding = "short"    -> F!Raw(n, FALSE, TRUE)
      [] OTHER                 -> F!Raw(n, TRUE, TRUE)

Misordered == {"decimal", "unsigned", "bytes"}

(* What a writer records of a column chunk.                                *)
Recorded(path, kind, encoding, cells, style) ==
    LET at     == Positions(cells)
        bound  == style.bounds /\ at # {}
        lowest == CHOOSE v \in at : \A w \in at : v <= w
        most   == CHOOSE v \in at : \A w \in at : v >= w
    IN  [path |-> path, type |-> Type(kind), legacy |-> style.legacy,
         extra |-> style.extra, counted |-> style.counted, named |-> TRUE,
         min   |-> IF bound THEN Stored(encoding, lowest - style.slack) ELSE F!NotRecorded,
         max   |-> IF bound THEN Stored(encoding, most + style.slack) ELSE F!NotRecorded,
         nulls |-> Cardinality({r \in DOMAIN cells : cells[r] = NoValue})]

OneColumn(kind, encoding, cells, style) ==
    [groups     |-> <<Name(x) :> cells>>,
     misordered |-> IF encoding \in Misordered THEN {Name(x)} ELSE {},
     recorded   |-> <<[rows    |-> Len(cells),
                       columns |-> <<Recorded(x, kind, encoding, cells, style)>>]>>]

TwoColumns(cells, more, style) ==
    LET Group(c, d) == [rows    |-> Len(c),
                        columns |-> <<Recorded(x, "num", "plain", c, style),
                                      Recorded(y, "num", "plain", d, style)>>]
    IN  [groups     |-> <<(Name(x) :> cells @@ Name(y) :> more),
                          (Name(x) :> more @@ Name(y) :> cells)>>,
         misordered |-> {},
         recorded   |-> <<Group(cells, more), Group(more, cells)>>]

MCRows == <<<<NoValue>>, <<Num(0)>>, <<Num(0), Num(2)>>, <<Num(2), Num(2)>>,
            <<Num(2), NoValue>>, <<NoValue, NoValue>>>>

Written(f) == f @@ [footer |-> F!Layout(f.recorded)]

(* A writer that leaves the name of a column out.                          *)
Unnamed(f) == Written([f EXCEPT !.recorded[1].columns[1].named = FALSE])

NotParquet == [groups |-> <<>>, misordered |-> {}, recorded |-> <<>>, footer |-> <<>>]

MCFileList ==
    LET Per(f(_)) == [i \in DOMAIN Styles |-> Written(f(Styles[i]))]
    IN  FlattenSeq([r \in DOMAIN MCRows |->
            Per(LAMBDA style : OneColumn("num", "plain", MCRows[r], style))])
        \o Per(LAMBDA style : OneColumn("text", "plain", <<Txt(0), Txt(2)>>, style))
        \o Per(LAMBDA style : OneColumn("bool", "plain", <<Bool(1), NoValue>>, style))
        \o Per(LAMBDA style : TwoColumns(<<Num(0), NoValue>>, <<Num(2), Num(2)>>, style))
        \o <<Written(OneColumn("num", "decimal", <<Num(1), NoValue>>, Styles[1])),
             Written(OneColumn("num", "unsigned", <<Num(1), Num(3)>>, Styles[1])),
             Written(OneColumn("text", "bytes", <<Txt(0), Txt(2)>>, Styles[1])),
             Written(OneColumn("num", "short", <<Num(0), Num(2)>>, Styles[1])),
             Unnamed(OneColumn("num", "plain", <<Num(0)>>, Styles[1])),
             NotParquet>>

MCFiles == Range(MCFileList)

Predicate(column, op, value) == [column |-> column, op |-> op, value |-> value]

Comparisons == Ops \ {"is_null", "is_not_null"}

MCPredicates ==
    {Predicate(Name(x), op, v) :
        op \in Comparisons, v \in {Num(n) : n \in -1..3} \cup {Txt(1), Bool(1)}}
    \cup {Predicate(Name(x), op, NoValue) : op \in Ops}

MCQueries ==
    {<<p>> : p \in MCPredicates}
    \cup {<<Predicate(<<"q">>, "=", Num(0)), p>> :
             p \in {Predicate(Name(x), "<", Num(1)), Predicate(Name(y), "is_null", NoValue)}}
    \cup {<<Predicate(Name(y), "!=", Num(2)), Predicate(Name(x), ">", Num(1))>>}

MCStatisticsOf(footer) == F!ReadFooter(footer)

Bound(raw, type) == IF raw = F!NotRecorded THEN NoValue ELSE F!DecodeMinMax(raw, type)

(* Every footer is read, and what is stored says of the entry's blob what  *)
(* its writer recorded: each field the reader knows is found where it is,  *)
(* whatever fields it does not know stand in between and however long the  *)
(* lists are, and the footer and the blob are of one content (footer.py:   *)
(* parse_parquet_footer and capture_footer_stats).                         *)
CapturedExact ==
    /\ pending # Idle /\ source.recorded # <<>> => pending.footer.readable
    /\ entry # None /\ entry.footer.readable =>
        LET recorded == entry.blob.recorded IN
            /\ DOMAIN entry.footer.row_groups = DOMAIN recorded
            /\ \A g \in DOMAIN recorded :
                 entry.footer.row_groups[g] =
                    [rows    |-> recorded[g].rows,
                     columns |-> [k \in DOMAIN recorded[g].columns |->
                        LET c == recorded[g].columns[k]
                        IN  [path |-> Name(c.path), min |-> Bound(c.min, c.type),
                             max |-> Bound(c.max, c.type),
                             nulls |-> IF c.counted THEN c.nulls ELSE 0]]]
            /\ entry.footer.schema =
                    [k \in DOMAIN recorded[1].columns |->
                        [name |-> Last(recorded[1].columns[k].path),
                         type |-> recorded[1].columns[k].type,
                         typed |-> TRUE, named |-> TRUE]]
=============================================================================
