---------------------------- MODULE TreeObjects ----------------------------
(***************************************************************************)
(* Tree objects, the walks over them and the ways they are built.          *)
(*                                                                         *)
(* A tree object is the sequence of its entries.  It is addressed by the   *)
(* hash of its bytes, and a hash is modelled by the tree object it         *)
(* addresses.  An entry is a leaf, a subdirectory or a shard: when a       *)
(* directory has more than MaxTreeEntries entries, its tree holds shards,  *)
(* each named after its first entry.                                       *)
(*                                                                         *)
(* Paths compare as strings, in which "/" comes after some characters and  *)
(* before others; names compare by themselves.  NameOrder lists the names  *)
(* in their order and Continues holds the pairs <<n, m>> in which m is n   *)
(* followed by a character below "/", as "data" and "data.csv" are.        *)
(***************************************************************************)
EXTENDS Naturals, Sequences, FiniteSets, SequencesExt, FiniteSetsExt

CONSTANTS NameOrder, Continues, MaxTreeEntries, NoFile,
          BlockEntries   \* DERIVED_BLOCK_ENTRY_COUNT

ASSUME MaxTreeEntriesAssumption == MaxTreeEntries \in Nat /\ MaxTreeEntries >= 2

Rank == [n \in Range(NameOrder) |-> CHOOSE i \in DOMAIN NameOrder : NameOrder[i] = n]

NameBefore(n, m) == Rank[n] < Rank[m]

(* p < q for the strings of two paths: the first component that differs    *)
(* decides, unless one of the two goes on where the other has its "/".     *)
PathBefore(p, q) ==
    LET i == Min({k \in 1..(Len(p) + 1) :
                    k > Len(p) \/ k > Len(q) \/ p[k] # q[k]})
    IN  \/ i > Len(p) /\ i <= Len(q)
        \/ /\ i <= Len(p) /\ i <= Len(q)
           /\ IF <<p[i], q[i]>> \in Continues THEN i = Len(p)
              ELSE IF <<q[i], p[i]>> \in Continues THEN i < Len(q)
              ELSE NameBefore(p[i], q[i])

(* The members of a set in a strict total order. *)
InOrder(S, before(_, _)) ==
    [i \in 1..Cardinality(S) |->
        CHOOSE x \in S : Cardinality({y \in S : before(y, x)}) = i - 1]

SortedPaths(S) == InOrder(S, PathBefore)

(* Streams of manifest entries, and the file maps they stand for.          *)
INSTANCE Streams WITH Before <- PathBefore

(* An entry of a tree object.  A leaf is known by its content, its hash    *)
(* and size in the code, whose line also has the modification time, the    *)
(* source of a pointer and the footer: a staged move, say, resets the time *)
(* and drops the footer, which a full commit writes.  So trees that are    *)
(* equal here have the same shape and contents; their objects in the store *)
(* need not be the same.                                                   *)
Entry(name, kind, node) == [name |-> name, kind |-> kind, node |-> node]

(* What a directory path or a name that leads nowhere is answered with.    *)
NoEntry == Entry("", "none", <<>>)

IsSubtree(e) == e.kind \in {"tree", "shard"}

EmptyTree == <<>>

(* The stream of a file map's entries in path order.                       *)
Stream(f) ==
    LET paths == SortedPaths(DOMAIN f)
    IN  [i \in DOMAIN paths |-> File(paths[i], f[paths[i]])]

(* parse_tree_object refuses a tree whose names do not ascend.             *)
RECURSIVE Readable(_)
Readable(t) ==
    /\ \A i \in 1..(Len(t) - 1) : NameBefore(t[i].name, t[i + 1].name)
    /\ \A i \in DOMAIN t : IsSubtree(t[i]) => Readable(t[i].node)

-----------------------------------------------------------------------------
(* Walks *)

(* _iter_entries: leaves in the order of the entries, a subdirectory or a  *)
(* shard where it stands.                                                  *)
RECURSIVE Walk(_, _)
Walk(t, prefix) ==
    IF t = <<>> THEN <<>>
    ELSE LET e    == Head(t)
             path == Append(prefix, e.name)
         IN  CASE e.kind = "leaf"  -> <<File(path, e.node)>> \o Walk(Tail(t), prefix)
               [] e.kind = "tree"  -> Walk(e.node, path) \o Walk(Tail(t), prefix)
               [] e.kind = "shard" -> Walk(e.node, prefix) \o Walk(Tail(t), prefix)

AllEntries(t) == Walk(t, <<>>)

(* A shard is only descended into when it has the very name looked for.    *)
Descend_ExactOnly(t, name) ==
    IF \E i \in DOMAIN t : t[i].name = name
    THEN t[CHOOSE i \in DOMAIN t : t[i].name = name]
    ELSE NoEntry

(* _descend: the entry of that name, or the shard whose range holds it.    *)
Descend(t, name) ==
    LET exact  == {i \in DOMAIN t : t[i].name = name}
        before == {i \in DOMAIN t : NameBefore(t[i].name, name)}
    IN  IF exact # {} THEN t[Min(exact)]
        ELSE IF before # {} /\ t[Max(before)].kind = "shard" THEN t[Max(before)]
        ELSE NoEntry

(* lookup_entry: a shard is searched for the same component.               *)
RECURSIVE Lookup(_, _)
Lookup(t, path) ==
    IF path = <<>> THEN NoFile
    ELSE LET e == Descend(t, Head(path))
         IN  CASE e.kind = "none"  -> NoFile
               [] e.kind = "tree"  -> Lookup(e.node, Tail(path))
               [] e.kind = "shard" -> Lookup(e.node, path)
               [] e.kind = "leaf"  -> IF Len(path) = 1 THEN e.node ELSE NoFile

(* resolve_subtree: every entry descended into, a shard too, uses up one   *)
(* component of the directory's path.                                      *)
RECURSIVE ResolveSubtree(_, _)
ResolveSubtree(t, dir) ==
    IF dir = <<>> THEN t
    ELSE LET e == Descend(t, Head(dir))
         IN  IF IsSubtree(e) THEN ResolveSubtree(e.node, Tail(dir)) ELSE EmptyTree

(* path.startswith(prefix): no name goes on from another with a character  *)
(* above "/" where this is used.                                           *)
StartsWith(path, prefix) ==
    \/ IsPrefix(prefix, path)
    \/ /\ Len(prefix) <= Len(path)
       /\ IsPrefix(Front(prefix), path)
       /\ <<Last(prefix), path[Len(prefix)]>> \in Continues

(* iter_entries_for_prefix enters the subtrees that may have a match: the  *)
(* ones the prefix selects, and the ones it leads through.                 *)
MayHoldPrefix(dir, prefix) == StartsWith(dir, prefix) \/ IsStrictPrefix(dir, prefix)

RECURSIVE PrefixWalk(_, _, _)
PrefixWalk(t, dir, prefix) ==
    IF t = <<>> THEN <<>>
    ELSE LET e     == Head(t)
             path  == Append(dir, e.name)
             below == IF e.kind = "shard" THEN dir ELSE path
             here  == CASE IsSubtree(e) /\ MayHoldPrefix(below, prefix) ->
                              PrefixWalk(e.node, below, prefix)
                        [] e.kind = "leaf" /\ StartsWith(path, prefix) ->
                              <<File(path, e.node)>>
                        [] OTHER -> <<>>
         IN  here \o PrefixWalk(Tail(t), dir, prefix)

EntriesForPrefix(t, prefix) == PrefixWalk(t, <<>>, prefix)

-----------------------------------------------------------------------------
(* Building *)

(* The children in the order in which the frames were closed.              *)
SortedByName_AsClosed(kids) == kids

SortedByName(kids) == SortSeq(kids, LAMBDA x, y : NameBefore(x.name, y.name))

(* _build_children: sorted by name, and split into shards when there are   *)
(* more than one object holds.                                             *)
RECURSIVE BuildChildren(_)
BuildChildren(kids) ==
    LET sorted == SortedByName(kids)
        starts == {i \in DOMAIN sorted : (i - 1) % MaxTreeEntries = 0}
        chunk(i) == SubSeq(sorted, i, Min({i + MaxTreeEntries - 1, Len(sorted)}))
        shards == [k \in 1..Cardinality(starts) |->
                      LET c == chunk((k - 1) * MaxTreeEntries + 1)
                      IN  Entry(c[1].name, "shard", c)]
    IN  IF Len(kids) <= MaxTreeEntries THEN sorted ELSE BuildChildren(shards)

(* build_from_entries: in an ascending stream what lies below a directory  *)
(* is contiguous, so its frame is opened once and becomes one subtree.     *)
RECURSIVE Build(_)
Build(s) ==
    LET files == SelectSeq(s, LAMBDA x : Len(x.path) = 1)
        dirs  == InOrder({s[i].path[1] : i \in {j \in DOMAIN s : Len(s[j].path) > 1}},
                         NameBefore)
        below(d) == LET in == SelectSeq(s, LAMBDA x : Len(x.path) > 1 /\ x.path[1] = d)
                    IN  [i \in DOMAIN in |-> File(Tail(in[i].path), in[i].content)]
    IN  BuildChildren(
            [i \in DOMAIN files |-> Entry(files[i].path[1], "leaf", files[i].content)]
            \o [i \in DOMAIN dirs |-> Entry(dirs[i], "tree", Build(below(dirs[i])))])
=============================================================================
