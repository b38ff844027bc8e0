------------------------------- MODULE Footer -------------------------------
(***************************************************************************)
(* Reading the statistics in the footer of a Parquet file.                 *)
(*                                                                         *)
(* A footer is a Thrift compact structure.  The bytes of a header, of a    *)
(* number, of a string or of a fixed-width value are one token; the        *)
(* reader's position is an index of the sequence of tokens, and position 0 *)
(* says that it raised: the file ended or the bytes were not of the type   *)
(* it read.  Fields are known by number; what the reader does not know it  *)
(* must step over exactly, or everything after it is misread.              *)
(*                                                                         *)
(* The long form of a field header (delta 0, then the number) is left      *)
(* out: no structure of a footer has a gap of sixteen field numbers.       *)
(***************************************************************************)
EXTENDS Naturals, Sequences, SequencesExt, FiniteSetsExt

CONSTANT LongList  \* the size from which a list's header holds it apart: 15

BOOL_TRUE == 1  BOOL_FALSE == 2  BYTE == 3  I16 == 4  I32 == 5  I64 == 6
DOUBLE == 7  BINARY == 8  LIST == 9  SET == 10  MAP == 11  STRUCT == 12
UUID == 13

Token(kind, a, b) == [kind |-> kind, a |-> a, b |-> b]

FieldHeader(delta, type) == Token("field", delta, type)
ListHeader(size, type)   == Token("list", size, type)
Stop        == Token("stop", 0, 0)
Number(n)   == Token("number", n, 0)
Binary(raw) == Token("binary", raw, 0)
Fixed(type) == Token("fixed", type, 0)

At(s, i, kind) == i \in DOMAIN s /\ s[i].kind = kind

(* Mutant: the size of a long list is left for the elements to read.       *)
ListAt_ShortOnly(s, i) == [size |-> s[i].a, type |-> s[i].b, from |-> i + 1]

(* _read_list_header: how many elements, of which type, from where.        *)
ListAt(s, i) ==
    IF s[i].a # LongList THEN [size |-> s[i].a, type |-> s[i].b, from |-> i + 1]
    ELSE [size |-> IF At(s, i + 1, "number") THEN s[i + 1].a ELSE 0,
          type |-> s[i].b,
          from |-> IF At(s, i + 1, "number") THEN i + 2 ELSE 0]

(* _Reader.skip: the position after a value of a type.                     *)
RECURSIVE Skip(_, _, _), SkipAll(_, _, _, _), SkipTyped(_, _, _)

Skip(s, i, type) ==
    CASE i = 0 -> 0
      [] i # 0 /\ type \in {BOOL_TRUE, BOOL_FALSE} -> i
      [] i # 0 /\ type \in {BYTE, DOUBLE, UUID} -> i + 1
      [] type \in {I16, I32, I64} /\ At(s, i, "number") -> i + 1
      [] type = BINARY /\ At(s, i, "binary") -> i + 1
      [] type \in {LIST, SET} /\ At(s, i, "list") ->
            LET l == ListAt(s, i) IN SkipAll(s, l.from, l.type, l.size)
      [] type = MAP /\ At(s, i, "list") ->
            LET l == ListAt(s, i) IN SkipTyped(s, l.from, 2 * l.size)
      [] type = STRUCT /\ At(s, i, "stop") -> i + 1
      [] type = STRUCT /\ At(s, i, "field") ->
            Skip(s, Skip(s, IF s[i].a = 15 THEN i + 2 ELSE i + 1, s[i].b), STRUCT)
      [] OTHER -> 0

SkipAll(s, i, type, n) ==
    IF n = 0 THEN i ELSE SkipAll(s, Skip(s, i, type), type, n - 1)

SkipTyped(s, i, n) ==
    IF n = 0 THEN i
    ELSE IF ~At(s, i, "fixed") THEN 0
    ELSE SkipTyped(s, Skip(s, i + 1, s[i].a), n - 1)

(* _read_fields: the fields of the structure at i, each with its number,   *)
(* its type and where its value is.  A handler that does not expect the    *)
(* type skips the value, and so does the loop for a number without one.    *)
Broken == [id |-> 0, type |-> 0, at |-> 0]

RECURSIVE FieldsFrom(_, _, _)
FieldsFrom(s, i, last) ==
    IF At(s, i, "stop") THEN <<>>
    ELSE IF ~At(s, i, "field") THEN <<Broken>>
    ELSE LET long == s[i].a = 15
             id   == last + (IF long THEN s[i + 1].a ELSE s[i].a)
             at   == IF long THEN i + 2 ELSE i + 1
         IN  <<[id |-> id, type |-> s[i].b, at |-> at]>>
                \o FieldsFrom(s, Skip(s, at, s[i].b), id)

Fields(s, i) == FieldsFrom(s, i, 0)

(* Where the last of the fields with one of the numbers and types is.      *)
Position(fields, ids, types) ==
    LET S == {k \in DOMAIN fields : fields[k].id \in ids /\ fields[k].type \in types}
    IN  IF S = {} THEN 0 ELSE fields[Max(S)].at

ValueOr(s, i, default) == IF i = 0 THEN default ELSE s[i].a

(* The positions of a list's elements, none when they are of another type. *)
RECURSIVE Positions(_, _, _, _)
Positions(s, i, type, n) ==
    IF n = 0 THEN <<>> ELSE <<i>> \o Positions(s, Skip(s, i, type), type, n - 1)

Elements(s, i, type) ==
    IF i = 0 THEN <<>>
    ELSE LET l == ListAt(s, i)
         IN  IF l.type = type THEN Positions(s, l.from, type, l.size) ELSE <<>>

-----------------------------------------------------------------------------
NoValue == [kind |-> "none", at |-> 0]

(* _decode_min_max: the raw bytes by the column's physical type.  Bytes    *)
(* too short for it are no value.  A number is what the bytes say: the     *)
(* logical type, a scale or unsigned integers, is not looked at.  Bytes    *)
(* that are not UTF-8 become their hexadecimal digits, which have another  *)
(* place among the texts: here before them all, as fffe is before zzz.     *)
Raw(at, whole, utf8) == [at |-> at, whole |-> whole, utf8 |-> utf8]

NotRecorded == Raw(0, FALSE, FALSE)

Hex(raw) == [kind |-> "text", at |-> raw.at - 1000]

DecodeMinMax(raw, type) ==
    CASE raw = NotRecorded -> NoValue
      [] raw # NotRecorded /\ type \in {0, 1, 2, 4, 5} ->
            IF raw.whole
            THEN [kind |-> IF type = 0 THEN "bool" ELSE "num", at |-> raw.at]
            ELSE NoValue
      [] raw # NotRecorded /\ type \in {6, 7} /\ raw.utf8 ->
            [kind |-> "text", at |-> raw.at]
      [] OTHER -> Hex(raw)

(* A name is a sequence of words, of which "." is one.  The path of a      *)
(* nested column is joined, so it may be the name of another column.       *)
Joined(parts) ==
    FlattenSeq([k \in DOMAIN parts |-> IF k = 1 THEN parts[k] ELSE <<".">> \o parts[k]])

(* _parse_column_metadata: fields 1 and 5 of the statistics are the        *)
(* maximum, 2 and 6 the minimum, 3 the number of nulls; what is not there  *)
(* is no value, and no null.                                               *)
ParseColumnMetadata(s, i) ==
    LET f     == Fields(s, i)
        type  == ValueOr(s, Position(f, {1}, {I16, I32}), 0)
        stats == Position(f, {12}, {STRUCT})
        g     == IF stats = 0 THEN <<>> ELSE Fields(s, stats)
        parts == Elements(s, Position(f, {3}, {LIST}), BINARY)
    IN  [path  |-> Joined([k \in DOMAIN parts |-> s[parts[k]].a]),
         min   |-> DecodeMinMax(ValueOr(s, Position(g, {2, 6}, {BINARY}), NotRecorded), type),
         max   |-> DecodeMinMax(ValueOr(s, Position(g, {1, 5}, {BINARY}), NotRecorded), type),
         nulls |-> ValueOr(s, Position(g, {3}, {I64}), 0)]

(* _parse_column_chunk: a chunk without metadata has the empty path.       *)
ParseColumnChunk(s, i) ==
    LET meta == Position(Fields(s, i), {3}, {STRUCT})
    IN  IF meta = 0
        THEN [path |-> <<>>, min |-> NoValue, max |-> NoValue, nulls |-> 0]
        ELSE ParseColumnMetadata(s, meta)

ParseRowGroup(s, i) ==
    LET f      == Fields(s, i)
        chunks == Elements(s, Position(f, {1}, {LIST}), STRUCT)
    IN  [rows    |-> ValueOr(s, Position(f, {3}, {I64}), 0),
         columns |-> FlattenSeq([k \in DOMAIN chunks |-> <<ParseColumnChunk(s, chunks[k])>>])]

(* _parse_schema_element: only elements with a type are columns.           *)
ParseSchemaElement(s, i) ==
    LET f    == Fields(s, i)
        type == ValueOr(s, Position(f, {1}, {I16, I32}), 8)
        name == Position(f, {4}, {BINARY})
    IN  [name  |-> ValueOr(s, name, <<>>),
         type  |-> type,
         typed |-> type \in 0..7,
         named |-> name # 0]

(* parse_parquet_footer and _parse_file_metadata, and capture_footer_stats *)
(* for what makes them raise: then the file has no statistics, but for the *)
(* KeyError of a column without a name, which nothing catches.             *)
NoFooter == [schema |-> <<>>, row_groups |-> <<>>, readable |-> FALSE, raises |-> FALSE]

ReadFooter(s) ==
    LET f        == Fields(s, 1)
        elements == Elements(s, Position(f, {2}, {LIST}), STRUCT)
        groups   == Elements(s, Position(f, {4}, {LIST}), STRUCT)
        schema   == SelectSeq([k \in DOMAIN elements |-> ParseSchemaElement(s, elements[k])],
                              LAMBDA e : e.typed)
    IN  IF Broken \in Range(f) THEN NoFooter
        ELSE IF \E k \in DOMAIN schema : ~schema[k].named
        THEN [NoFooter EXCEPT !.raises = TRUE]
        ELSE [NoFooter EXCEPT
                 !.schema     = schema,
                 !.row_groups = FlattenSeq([k \in DOMAIN groups |->
                                               <<ParseRowGroup(s, groups[k])>>]),
                 !.readable   = TRUE]
=============================================================================
