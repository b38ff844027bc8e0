---------------------------- MODULE FooterLayout ----------------------------
(***************************************************************************)
(* How a writer of Parquet files lays a footer out in tokens.  The writers *)
(* are outside the repository; this is the Thrift compact protocol and the *)
(* field numbers of the Parquet format, as far as the reader in Footer     *)
(* meets them: the fields it wants, among fields it must step over.        *)
(***************************************************************************)
EXTENDS Footer

Field(id, type, body) == [id |-> id, type |-> type, body |-> body]

Struct(fields) ==
    FlattenSeq([k \in DOMAIN fields |->
        <<FieldHeader(fields[k].id - IF k = 1 THEN 0 ELSE fields[k - 1].id,
                      fields[k].type)>> \o fields[k].body]) \o <<Stop>>

List(type, bodies) ==
    (IF Len(bodies) < LongList THEN <<ListHeader(Len(bodies), type)>>
     ELSE <<ListHeader(LongList, type), Number(Len(bodies))>>) \o FlattenSeq(bodies)

I(id, n)     == Field(id, I64, <<Number(n)>>)
Int32(id, n) == Field(id, I32, <<Number(n)>>)
Text(id, x)  == Field(id, BINARY, <<Binary(x)>>)
Sub(id, fields)        == Field(id, STRUCT, Struct(fields))
Of(id, type, bodies)   == Field(id, LIST, List(type, bodies))

(* Fields the reader has no handler for: a time unit nested in a logical   *)
(* type, encodings, sizes, a bounding box, an exactness flag.              *)
LogicalType == Sub(10, <<Sub(8, <<Field(1, BOOL_TRUE, <<>>), Sub(2, <<Sub(3, <<>>)>>)>>)>>)
Encodings   == Of(2, I32, <<<<Number(0)>>, <<Number(3)>>, <<Number(8)>>>>)
BoundingBox == Sub(17, <<Sub(1, <<Field(1, DOUBLE, <<Fixed(DOUBLE)>>),
                                  Field(2, DOUBLE, <<Fixed(DOUBLE)>>)>>)>>)
Exact       == Field(7, BOOL_FALSE, <<>>)

When(condition, fields) == IF condition THEN fields ELSE <<>>

(* c: the column's path, physical type, and what is recorded of it.  Old   *)
(* writers record the bounds under the numbers 1 and 2.  A column is a     *)
(* schema element with its type and the last name of its path, which the   *)
(* format requires; c.named says whether the writer kept to that.          *)
StatisticsFields(c) ==
    When(c.legacy /\ c.max # NotRecorded, <<Text(1, c.max)>>)
 \o When(c.legacy /\ c.min # NotRecorded, <<Text(2, c.min)>>)
 \o When(c.counted, <<I(3, c.nulls)>>)
 \o When(c.extra, <<I(4, 1)>>)
 \o When(~c.legacy /\ c.max # NotRecorded, <<Text(5, c.max)>>)
 \o When(~c.legacy /\ c.min # NotRecorded, <<Text(6, c.min)>>)
 \o When(c.extra, <<Exact>>)

ColumnMetadata(c) ==
    <<Int32(1, c.type)>> \o When(c.extra, <<Encodings>>)
 \o <<Of(3, BINARY, [k \in DOMAIN c.path |-> <<Binary(c.path[k])>>]), Int32(4, 1)>>
 \o <<Sub(12, StatisticsFields(c))>> \o When(c.extra, <<BoundingBox>>)

ColumnChunk(c) == Struct(<<I(2, 4), Sub(3, ColumnMetadata(c))>>)

RowGroup(g) ==
    Struct(<<Of(1, STRUCT, [k \in DOMAIN g.columns |-> ColumnChunk(g.columns[k])]),
             I(2, 100), I(3, g.rows)>>)

SchemaElement(c) ==
    Struct(<<Int32(1, c.type), Int32(3, 1)>>
           \o When(c.named, <<Text(4, Last(c.path))>>)
           \o When(c.extra, <<LogicalType>>))

Root == Struct(<<Text(4, <<"schema">>), Int32(5, 1)>>)

Layout(groups) ==
    Struct(<<Int32(1, 2),
             Of(2, STRUCT, <<Root>> \o [k \in DOMAIN groups[1].columns |->
                                          SchemaElement(groups[1].columns[k])]),
             I(3, 1),
             Of(4, STRUCT, [k \in DOMAIN groups |-> RowGroup(groups[k])]),
             Text(6, "writer")>>)
=============================================================================
