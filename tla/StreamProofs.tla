---------------------------- MODULE StreamProofs ----------------------------
(***************************************************************************)
(* Proofs about the rule of the three-way merge and about the loops that   *)
(* read entry streams: merge, diff, the derived manifest and the overlay   *)
(* of staged changes.                                                      *)
(***************************************************************************)
EXTENDS StreamMerge, StreamDiff, StreamOverlay, WellFoundedInduction,
        FiniteSetTheorems, TLAPS

-----------------------------------------------------------------------------
(* The rule of the merge, for every base and every two sides *)

(* A file of the merged map is the one the rule chose, and a path it left  *)
(* out has none.                                                           *)
LEMMA MergedFile ==
    ASSUME NEW b, NEW ours, NEW theirs, NEW p
    PROVE  At(Merged(b, ours, theirs), p) = MergedAt(b, ours, theirs, p)
<1>1. MergedAt(b, ours, theirs, p) # NoFile
      => p \in DOMAIN ours \cup DOMAIN theirs
  BY DEF MergedAt, At
<1>2. DOMAIN Merged(b, ours, theirs)
      = {q \in DOMAIN ours \cup DOMAIN theirs :
            MergedAt(b, ours, theirs, q) # NoFile}
  BY DEF Merged
<1>3. CASE MergedAt(b, ours, theirs, p) = NoFile
  <2>1. p \notin DOMAIN Merged(b, ours, theirs)
    BY <1>2, <1>3
  <2> QED
    BY <2>1, <1>3 DEF At
<1>4. CASE MergedAt(b, ours, theirs, p) # NoFile
  <2>1. p \in DOMAIN Merged(b, ours, theirs)
    BY <1>1, <1>2, <1>4
  <2>2. Merged(b, ours, theirs)[p] = MergedAt(b, ours, theirs, p)
    BY <2>1, <1>2 DEF Merged
  <2> QED
    BY <2>1, <2>2 DEF At
<1> QED
  BY <1>3, <1>4

(* A path that is nowhere is not in conflict, so with no conflicts the     *)
(* sides agree on a path or one of them left it as it was.                 *)
LEMMA OneSideDecides ==
    ASSUME NEW b, NEW ours, NEW theirs, NEW p,
           Conflicts(b, ours, theirs) = {}
    PROVE  \/ At(ours, p) = At(theirs, p)
           \/ At(ours, p) = At(b, p)
           \/ At(theirs, p) = At(b, p)
<1>1. CASE p \in DOMAIN b \cup DOMAIN ours \cup DOMAIN theirs
  BY <1>1 DEF Conflicts
<1>2. CASE p \notin DOMAIN b \cup DOMAIN ours \cup DOMAIN theirs
  BY <1>2 DEF At
<1> QED
  BY <1>1, <1>2

(* TreeWriter.three_way_merge loses no change: without conflicts whatever  *)
(* either side did to a path since the base, a removal too, is what the    *)
(* merged files have, and a path neither touched is as it was.             *)
THEOREM MergeKeepsChanges ==
    ASSUME NEW b, NEW ours, NEW theirs, NEW p,
           Conflicts(b, ours, theirs) = {}
    PROVE  LET result == At(Merged(b, ours, theirs), p)
           IN  /\ At(ours, p) # At(b, p) => result = At(ours, p)
               /\ At(theirs, p) # At(b, p) => result = At(theirs, p)
               /\ At(ours, p) = At(b, p) /\ At(theirs, p) = At(b, p)
                  => result = At(b, p)
<1>1. At(Merged(b, ours, theirs), p) = MergedAt(b, ours, theirs, p)
  BY MergedFile
<1>2. \/ At(ours, p) = At(theirs, p)
      \/ At(ours, p) = At(b, p)
      \/ At(theirs, p) = At(b, p)
  BY OneSideDecides
<1> QED
  BY <1>1, <1>2 DEF MergedAt

(* Merging is the same whichever branch is the target: both directions     *)
(* have the same conflicts, and without any the same files.                *)
THEOREM MergeCommutes ==
    ASSUME NEW b, NEW ours, NEW theirs
    PROVE  /\ Conflicts(b, ours, theirs) = Conflicts(b, theirs, ours)
           /\ Conflicts(b, ours, theirs) = {}
              => Merged(b, ours, theirs) = Merged(b, theirs, ours)
<1>1. Conflicts(b, ours, theirs) = Conflicts(b, theirs, ours)
  BY DEF Conflicts
<1>2. ASSUME Conflicts(b, ours, theirs) = {}
      PROVE  Merged(b, ours, theirs) = Merged(b, theirs, ours)
  <2>1. ASSUME NEW p
        PROVE  MergedAt(b, ours, theirs, p) = MergedAt(b, theirs, ours, p)
    <3>1. \/ At(ours, p) = At(theirs, p)
          \/ At(ours, p) = At(b, p)
          \/ At(theirs, p) = At(b, p)
      BY <1>2, OneSideDecides
    <3> QED
      BY <3>1 DEF MergedAt
  <2>2. {q \in DOMAIN ours \cup DOMAIN theirs : MergedAt(b, ours, theirs, q) # NoFile}
        = {q \in DOMAIN theirs \cup DOMAIN ours : MergedAt(b, theirs, ours, q) # NoFile}
    BY <2>1
  <2> QED
    BY <2>1, <2>2 DEF Merged
<1> QED
  BY <1>1, <1>2

(* Merging back converges: when the source then takes the target in, with  *)
(* the base still where the first-parent chains met before the first merge *)
(* (_merge_base goes there), nothing conflicts and both have the same      *)
(* files.                                                                  *)
THEOREM MergeBackConverges ==
    ASSUME NEW b, NEW ours, NEW theirs,
           Conflicts(b, ours, theirs) = {}
    PROVE  LET result == Merged(b, ours, theirs)
           IN  /\ Conflicts(b, theirs, result) = {}
               /\ Merged(b, theirs, result) = result
<1> DEFINE result == Merged(b, ours, theirs)
<1>1. ASSUME NEW p
      PROVE  At(result, p) = MergedAt(b, ours, theirs, p)
  BY MergedFile
<1>2. ASSUME NEW p
      PROVE  At(theirs, p) = At(b, p) \/ At(theirs, p) = At(result, p)
  <2>1. \/ At(ours, p) = At(theirs, p)
        \/ At(ours, p) = At(b, p)
        \/ At(theirs, p) = At(b, p)
    BY OneSideDecides
  <2> QED
    BY <1>1, <2>1 DEF MergedAt
<1>3. Conflicts(b, theirs, result) = {}
  <2> HIDE DEF result
  <2> QED
    BY <1>2 DEF Conflicts
<1>4. ASSUME NEW p
      PROVE  MergedAt(b, theirs, result, p) = At(result, p)
  <2> HIDE DEF result
  <2> QED
    BY <1>2 DEF MergedAt
<1>5. Merged(b, theirs, result) = result
  <2>1. DOMAIN result = {q \in DOMAIN ours \cup DOMAIN theirs :
                            MergedAt(b, ours, theirs, q) # NoFile}
    BY DEF Merged
  <2>2. ASSUME NEW q
        PROVE  q \in DOMAIN result <=> At(result, q) # NoFile
    <3>1. At(result, q) # NoFile => q \in DOMAIN result
      <4> HIDE DEF result
      <4> QED
        BY DEF At
    <3>2. q \in DOMAIN result => At(result, q) # NoFile
      BY <1>1, <2>1
    <3> QED
      BY <3>1, <3>2
  <2>3. result = [q \in DOMAIN result |-> result[q]]
    BY DEF Merged
  <2>4. \A q \in DOMAIN result : result[q] = At(result, q)
    BY DEF At
  <2>5. {q \in DOMAIN theirs \cup DOMAIN result : MergedAt(b, theirs, result, q) # NoFile}
        = DOMAIN result
    BY <1>4, <2>2
  <2> HIDE DEF result
  <2> QED
    BY <1>4, <2>3, <2>4, <2>5 DEF Merged
<1> QED
  BY <1>3, <1>5

-----------------------------------------------------------------------------
(* Naturals and positions *)

(* A set of naturals has a least member: induction, in the form that the   *)
(* provers can use.                                                        *)
LEMMA LeastNatural ==
    ASSUME NEW T \in SUBSET Nat, T # {}
    PROVE  \E x \in T : \A y \in T : x <= y
<1> DEFINE R == {ss \in Nat \X Nat : ss[1] < ss[2]}
<1>1. IsWellFoundedOn(R, Nat)
  BY NatLessThanWellFounded DEF OpToRel
<1>2. \E x \in T : \A y \in T : <<y, x>> \notin R
  BY <1>1, WFMin
<1>3. PICK x \in T : \A y \in T : <<y, x>> \notin R
  BY <1>2
<1>4. ASSUME NEW y \in T PROVE x <= y
  <2>1. <<y, x>> \notin R /\ x \in Nat /\ y \in Nat
    BY <1>3
  <2>2. ~(y < x)
    BY <2>1
  <2> QED
    BY <2>1, <2>2
<1> QED
  BY <1>3, <1>4

(* And a set of naturals below a bound has a greatest one.                 *)
LEMMA GreatestNatural ==
    ASSUME NEW n \in Nat, NEW T \in SUBSET (0..n), T # {}
    PROVE  /\ Max(T) \in T
           /\ \A y \in T : y <= Max(T)
<1> DEFINE U == {n - y : y \in T}
<1>1. U \in SUBSET Nat /\ U # {}
  <2>1. \A y \in T : n - y \in Nat
    OBVIOUS
  <2> QED
    BY <2>1
<1>2. PICK u \in U : \A v \in U : u <= v
  BY <1>1, LeastNatural
<1>3. PICK x \in T : u = n - x
  BY <1>2
<1>4. \A y \in T : x >= y
  <2> TAKE y \in T
  <2>1. n - x <= n - y /\ x \in 0..n /\ y \in 0..n
    BY <1>2, <1>3
  <2> QED
    BY <2>1
<1>5. Max(T) \in T /\ \A y \in T : Max(T) >= y
  BY <1>3, <1>4 DEF Max
<1>6. ASSUME NEW y \in T PROVE y <= Max(T)
  <2>1. Max(T) >= y /\ Max(T) \in 0..n /\ y \in 0..n
    BY <1>5
  <2> QED
    BY <2>1
<1> QED
  BY <1>5, <1>6

-----------------------------------------------------------------------------
(* Streams *)

Entries == [path : Paths, content : Contents]

LEMMA EntryOfStream ==
    ASSUME NEW s \in Seq(Entries), NEW k \in 1..Len(s)
    PROVE  /\ s[k].path \in Paths
           /\ s[k].content \in Contents
           /\ s[k].content # NoFile
<1>1. s[k] \in Entries
  OBVIOUS
<1> QED
  BY <1>1, StreamsAssumption DEF Entries

(* In a stream that ascends every entry comes before every later one, not  *)
(* only before the next.                                                   *)
LEMMA AscendingPairs ==
    ASSUME NEW s \in Seq(Entries), Ascending(s)
    PROVE  \A k, l \in 1..Len(s) : k < l => Before(s[k].path, s[l].path)
<1> SUFFICES ASSUME NEW k \in 1..Len(s), NEW l \in 1..Len(s), k < l,
                    ~Before(s[k].path, s[l].path)
             PROVE  FALSE
  OBVIOUS
<1> DEFINE T == {m \in 1..Len(s) : k < m /\ ~Before(s[k].path, s[m].path)}
<1>1. T \in SUBSET Nat /\ l \in T
  OBVIOUS
<1>2. PICK m \in T : \A y \in T : m <= y
  BY <1>1, LeastNatural
<1>3. m \in 1..Len(s) /\ k < m /\ ~Before(s[k].path, s[m].path) /\ Len(s) \in Nat
  BY <1>2
<1>4. m - 1 \in 1..(Len(s) - 1) /\ m - 1 \notin T
  BY <1>2, <1>3
<1>5. Before(s[m - 1].path, s[m].path)
  BY <1>3, <1>4 DEF Ascending
<1>6. k # m - 1
  BY <1>3, <1>5
<1>7. Before(s[k].path, s[m - 1].path)
  BY <1>3, <1>4, <1>6
<1>8. s[k].path \in Paths /\ s[m].path \in Paths /\ s[m - 1].path \in Paths
  BY <1>3, <1>4, EntryOfStream
<1> QED
  BY <1>3, <1>5, <1>7, <1>8, OrderAssumption

(* What the file map of a stream has at a path that one entry has, and at  *)
(* one that none has.                                                      *)
LEMMA FileOfEntry ==
    ASSUME NEW S, NEW s \in Seq(S), NEW k \in 1..Len(s),
           \A l \in 1..Len(s) : s[l].path = s[k].path => l = k
    PROVE  /\ s[k].path \in DOMAIN FilesOfStream(s)
           /\ At(FilesOfStream(s), s[k].path) = s[k].content
<1>1. {l \in DOMAIN s : s[l].path = s[k].path} = {k}
  OBVIOUS
<1>2. Max({k}) = k
  BY DEF Max
<1> QED
  BY <1>1, <1>2 DEF FilesOfStream, At

LEMMA NoFileOfPath ==
    ASSUME NEW S, NEW s \in Seq(S), NEW p, \A l \in 1..Len(s) : s[l].path # p
    PROVE  /\ p \notin DOMAIN FilesOfStream(s)
           /\ At(FilesOfStream(s), p) = NoFile
BY DEF FilesOfStream, At

(* The entries of a stream before place n: whether they have a path, each  *)
(* path once, and what they have at it.                                    *)
ReadBefore(s, n, p) == \E k \in 1..(n - 1) : s[k].path = p

ReadOnce(s, n) ==
    \A k, l \in 1..(n - 1) : s[k].path = s[l].path => k = l

ReadAt(s, n, p) ==
    IF ReadBefore(s, n, p)
    THEN s[CHOOSE k \in 1..(n - 1) : s[k].path = p].content
    ELSE NoFile

LEMMA ReadAtEntry ==
    ASSUME NEW s, NEW n \in Nat, ReadOnce(s, n), NEW k \in 1..(n - 1)
    PROVE  ReadAt(s, n, s[k].path) = s[k].content
<1>1. ReadBefore(s, n, s[k].path)
  BY DEF ReadBefore
<1>2. (CHOOSE l \in 1..(n - 1) : s[l].path = s[k].path) = k
  BY DEF ReadOnce
<1> QED
  BY <1>1, <1>2 DEF ReadAt

(* Reading on, when the path was not read before: only what is known of    *)
(* this path changes, and it becomes the entry at the head.                *)
LEMMA ReadOn ==
    ASSUME NEW s \in Seq(Entries), NEW n \in 1..(Len(s) + 1), NEW path,
           ReadOnce(s, n), ~ReadBefore(s, n, path)
    PROVE  /\ Past(s, n, path) \in 1..(Len(s) + 1)
           /\ ReadOnce(s, Past(s, n, path))
           /\ \A p : ReadBefore(s, Past(s, n, path), p)
                        <=> ReadBefore(s, n, p) \/ (p = path /\ Reads(s, n, path))
           /\ ReadAt(s, Past(s, n, path), path) = EntryAt(s, n, path)
           /\ \A p : p # path =>
                  ReadAt(s, Past(s, n, path), p) = ReadAt(s, n, p)
<1>1. CASE ~Reads(s, n, path)
  <2>1. Past(s, n, path) = n /\ EntryAt(s, n, path) = NoFile
    BY <1>1 DEF Past, EntryAt
  <2>2. ReadAt(s, n, path) = NoFile
    BY DEF ReadAt
  <2> QED
    BY <1>1, <2>1, <2>2
<1>2. CASE Reads(s, n, path)
  <2>1. /\ n \in 1..Len(s) /\ s[n].path = path
        /\ Past(s, n, path) = n + 1 /\ EntryAt(s, n, path) = s[n].content
    BY <1>2 DEF Past, EntryAt, Reads
  <2>2. 1..((n + 1) - 1) = 1..(n - 1) \cup {n}
    OBVIOUS
  <2>3. ReadOnce(s, n + 1)
    BY <2>1, <2>2 DEF ReadOnce, ReadBefore
  <2>4. \A p : ReadBefore(s, n + 1, p) <=> ReadBefore(s, n, p) \/ p = path
    BY <2>1, <2>2 DEF ReadBefore
  <2>5. ReadAt(s, n + 1, path) = s[n].content
    BY <2>1, <2>2, <2>3, ReadAtEntry
  <2>6. ASSUME NEW p, p # path
        PROVE  ReadAt(s, n + 1, p) = ReadAt(s, n, p)
    <3>1. CASE ReadBefore(s, n, p)
      <4>1. PICK k \in 1..(n - 1) : s[k].path = p
        BY <3>1 DEF ReadBefore
      <4>2. ReadAt(s, n, p) = s[k].content
        BY <4>1, ReadAtEntry
      <4>3. ReadAt(s, n + 1, p) = s[k].content
        BY <4>1, <2>2, <2>3, ReadAtEntry
      <4> QED
        BY <4>2, <4>3
    <3>2. CASE ~ReadBefore(s, n, p)
      BY <3>2, <2>4, <2>6 DEF ReadAt
    <3> QED
      BY <3>1, <3>2
  <2>7. n + 1 \in 1..(Len(s) + 1)
    BY <2>1
  <2> QED
    BY <1>2, <2>1, <2>3, <2>4, <2>5, <2>6, <2>7
<1> QED
  BY <1>1, <1>2

(* At the end of a stream that is its file map.                            *)
LEMMA ReadToEnd ==
    ASSUME NEW s \in Seq(Entries), ReadOnce(s, Len(s) + 1), NEW p
    PROVE  /\ ReadBefore(s, Len(s) + 1, p) <=> p \in DOMAIN FilesOfStream(s)
           /\ ReadAt(s, Len(s) + 1, p) = At(FilesOfStream(s), p)
<1>1. 1..((Len(s) + 1) - 1) = 1..Len(s) /\ Len(s) + 1 \in Nat
  OBVIOUS
<1>2. CASE ReadBefore(s, Len(s) + 1, p)
  <2>1. PICK k \in 1..Len(s) : s[k].path = p
    BY <1>1, <1>2 DEF ReadBefore
  <2>2. \A l \in 1..Len(s) : s[l].path = s[k].path => l = k
    BY <1>1 DEF ReadOnce
  <2>3. ReadAt(s, Len(s) + 1, p) = s[k].content
    BY <1>1, <2>1, ReadAtEntry
  <2> QED
    BY <1>2, <2>1, <2>2, <2>3, FileOfEntry
<1>3. CASE ~ReadBefore(s, Len(s) + 1, p)
  <2>1. \A l \in 1..Len(s) : s[l].path # p
    BY <1>1, <1>3 DEF ReadBefore
  <2> QED
    BY <1>3, <2>1, NoFileOfPath DEF ReadAt
<1> QED
  BY <1>2, <1>3

-----------------------------------------------------------------------------
(* The three-way merge *)

(* Of the paths at the heads of up to three streams one is the least.      *)
LEMMA LeastHead ==
    ASSUME NEW U \in SUBSET Sides, U # {}, NEW h, \A x \in U : h[x] \in Paths
    PROVE  /\ FirstPath({h[x] : x \in U}) \in {h[x] : x \in U}
           /\ \A x \in U : ~Before(h[x], FirstPath({h[y] : y \in U}))
<1> DEFINE Least(x) == \A y \in U : ~Before(h[y], h[x])
<1>1. \E x \in U : Least(x)
  <2> SUFFICES ASSUME \A x \in U : \E y \in U : Before(h[y], h[x])
               PROVE  FALSE
    OBVIOUS
  <2>1. PICK x \in U : TRUE
    OBVIOUS
  <2>2. PICK y \in U : Before(h[y], h[x])
    BY <2>1
  <2>3. PICK z \in U : Before(h[z], h[y])
    BY <2>2
  <2>4. PICK w \in U : Before(h[w], h[z])
    BY <2>3
  <2>5. /\ h[x] \in Paths /\ h[y] \in Paths /\ h[z] \in Paths /\ h[w] \in Paths
        /\ Before(h[z], h[x]) /\ Before(h[w], h[y]) /\ Before(h[w], h[x])
    BY <2>2, <2>3, <2>4, OrderAssumption
  <2>6. x # y /\ x # z /\ y # z /\ w # x /\ w # y /\ w # z
    BY <2>2, <2>3, <2>4, <2>5, OrderAssumption
  <2> QED
    BY <2>6 DEF Sides
<1>2. \E p \in {h[x] : x \in U} : \A q \in {h[x] : x \in U} : ~Before(q, p)
  BY <1>1
<1> QED
  BY <1>2 DEF FirstPath

MergeTypeOK ==
    /\ streams \in [Sides -> Seq(Entries)]
    /\ at \in [Sides -> Nat]
    /\ \A x \in Sides : at[x] \in 1..(Len(streams[x]) + 1)
    /\ seen \subseteq Paths
    /\ merged \in Seq(Entries)
    /\ conflicts \in Seq(Paths)

(* What the streams had for a path when its round came, and what was made  *)
(* of it.                                                                  *)
Had(x, p) == ReadAt(streams[x], at[x], p)

TakenAt(p) == Taken(Had("base", p), Had("ours", p), Had("theirs", p))

ConflictAt(p) == InConflict(Had("base", p), Had("ours", p), Had("theirs", p))

(* Every path that was read had one round, in which the streams that have  *)
(* it were read past it.                                                   *)
RoundsOnce ==
    /\ \A x \in Sides : ReadOnce(streams[x], at[x])
    /\ \A p : p \in seen <=> \E x \in Sides : ReadBefore(streams[x], at[x], p)

MergedIsTaken ==
    /\ \A m \in 1..Len(merged) : /\ merged[m].path \in seen
                                 /\ merged[m].content = TakenAt(merged[m].path)
    /\ \A p \in seen : TakenAt(p) # NoFile =>
          \E m \in 1..Len(merged) : merged[m].path = p
    /\ \A m, n \in 1..Len(merged) : merged[m].path = merged[n].path => m = n

ConflictsAreFound ==
    /\ \A c \in 1..Len(conflicts) : /\ conflicts[c] \in seen
                                    /\ ConflictAt(conflicts[c])
    /\ \A p \in seen : ConflictAt(p) =>
          \E c \in 1..Len(conflicts) : conflicts[c] = p
    /\ \A c, d \in 1..Len(conflicts) : conflicts[c] = conflicts[d] => c = d

OverIsOver ==
    /\ outcome \in {"merged", "conflict"} => Unread = {}
    /\ outcome = "merged" => conflicts = <<>>
    /\ outcome = "conflict" => conflicts # <<>>

MergeInv ==
    MergeTypeOK /\ RoundsOnce /\ MergedIsTaken /\ ConflictsAreFound /\ OverIsOver

LEMMA MergeInit == Init => MergeInv
<1> SUFFICES ASSUME Init PROVE MergeInv
  OBVIOUS
<1>1. streams \in [Sides -> Seq(Entries)]
  BY StreamsAssumption DEF Init, Entries
<1>2. \A x \in Sides : Len(streams[x]) \in Nat /\ at[x] = 1
  BY <1>1 DEF Init
<1>3. MergeTypeOK
  BY <1>1, <1>2 DEF MergeTypeOK, Init
<1>4. \A x \in Sides : 1..(at[x] - 1) = {}
  BY <1>2
<1>5. RoundsOnce
  BY <1>4 DEF RoundsOnce, ReadOnce, ReadBefore, Init
<1>6. MergedIsTaken /\ ConflictsAreFound /\ OverIsOver
  BY DEF MergedIsTaken, ConflictsAreFound, OverIsOver, Init
<1> QED
  BY <1>3, <1>5, <1>6 DEF MergeInv

(* What a round is about: the least path at the heads, whichever streams   *)
(* have it.                                                                *)
LEMMA RoundPath ==
    ASSUME MergeTypeOK, Unread # {}
    PROVE  /\ Path \in Paths
           /\ \E x \in Sides : Reads(streams[x], at[x], Path)
           /\ \A x \in Unread : /\ streams[x][at[x]].path \in Paths
                               /\ ~Before(streams[x][at[x]].path, Path)
<1> DEFINE h == [x \in Unread |-> streams[x][at[x]].path]
<1>1. \A x \in Unread : /\ x \in Sides /\ streams[x] \in Seq(Entries)
                        /\ at[x] \in 1..Len(streams[x])
  BY DEF Unread, MergeTypeOK
<1>2. \A x \in Unread : h[x] = streams[x][at[x]].path /\ h[x] \in Paths
  BY <1>1, EntryOfStream
<1>3. Unread \in SUBSET Sides
  BY DEF Unread
<1>4. {h[x] : x \in Unread} = {streams[x][at[x]].path : x \in Unread}
  BY <1>2
<1>5. /\ Path \in {h[x] : x \in Unread}
      /\ \A x \in Unread : ~Before(h[x], Path)
  <2> HIDE DEF h
  <2>1. Path = FirstPath({h[x] : x \in Unread})
    BY <1>4 DEF Path
  <2> QED
    BY <1>2, <1>3, <2>1, LeastHead
<1>6. PICK x \in Unread : Path = h[x]
  BY <1>5
<1>7. Reads(streams[x], at[x], Path)
  BY <1>1, <1>6 DEF Reads
<1> QED
  BY <1>1, <1>2, <1>5, <1>6, <1>7

(* A round: what was made of the other paths stays, and the round's own    *)
(* path is decided by what the streams have at their heads.                *)
LEMMA DecideInv == MergeInv /\ Decide => MergeInv'
<1> SUFFICES ASSUME MergeInv, Decide PROVE MergeInv'
  OBVIOUS
<1> USE DEF MergeInv
<1>1. PICK p : p = Path
  OBVIOUS
<1>2. /\ p \in Paths /\ p \notin seen
      /\ \E x \in Sides : Reads(streams[x], at[x], p)
  BY <1>1, RoundPath DEF Decide
<1> DEFINE row(x) == EntryAt(streams[x], at[x], p)
           taken == Taken(row("base"), row("ours"), row("theirs"))
           clash == InConflict(row("base"), row("ours"), row("theirs"))
<1>3. /\ outcome = "reading" /\ outcome' = outcome /\ streams' = streams
      /\ seen' = seen \cup {p}
      /\ at' = [x \in Sides |-> Past(streams[x], at[x], p)]
      /\ merged' = IF taken = NoFile THEN merged ELSE Append(merged, File(p, taken))
      /\ conflicts' = IF clash THEN Append(conflicts, p) ELSE conflicts
  BY <1>1 DEF Decide, Row
<1>4. ASSUME NEW x \in Sides
      PROVE  /\ streams[x] \in Seq(Entries)
             /\ at[x] \in 1..(Len(streams[x]) + 1)
             /\ ReadOnce(streams[x], at[x])
             /\ ~ReadBefore(streams[x], at[x], p)
  BY <1>2 DEF MergeTypeOK, RoundsOnce
<1>5. ASSUME NEW x \in Sides
      PROVE  /\ at'[x] \in 1..(Len(streams[x]) + 1)
             /\ ReadOnce(streams[x], at'[x])
             /\ \A q : ReadBefore(streams[x], at'[x], q)
                    <=> ReadBefore(streams[x], at[x], q)
                        \/ (q = p /\ Reads(streams[x], at[x], p))
             /\ Had(x, p)' = row(x)
             /\ \A q : q # p => ReadAt(streams[x], at'[x], q) = Had(x, q)
  <2>1. at'[x] = Past(streams[x], at[x], p) /\ streams' = streams
    BY <1>3
  <2> QED
    BY <1>4, <2>1, ReadOn DEF Had
<1>6. RoundsOnce'
  <2>1. \A x \in Sides : ReadOnce(streams'[x], at'[x])
    BY <1>3, <1>5
  <2>2. ASSUME NEW q
        PROVE  q \in seen' <=> \E x \in Sides : ReadBefore(streams'[x], at'[x], q)
    BY <1>2, <1>3, <1>5 DEF RoundsOnce
  <2> QED
    BY <2>1, <2>2 DEF RoundsOnce
<1>7. ASSUME NEW q, q # p
      PROVE  TakenAt(q)' = TakenAt(q) /\ (ConflictAt(q)' <=> ConflictAt(q))
  <2>1. \A x \in Sides : Had(x, q)' = Had(x, q)
    BY <1>3, <1>5, <1>7 DEF Had
  <2>2. "base" \in Sides /\ "ours" \in Sides /\ "theirs" \in Sides
    BY DEF Sides
  <2> QED
    BY <2>1, <2>2 DEF TakenAt, ConflictAt
<1>8. TakenAt(p)' = taken /\ (ConflictAt(p)' <=> clash)
  <2>1. "base" \in Sides /\ "ours" \in Sides /\ "theirs" \in Sides
    BY DEF Sides
  <2> QED
    BY <1>5, <2>1 DEF TakenAt, ConflictAt
<1>9. taken # NoFile => taken \in Contents
  <2>1. ASSUME NEW x \in Sides PROVE row(x) = NoFile \/ row(x) \in Contents
    BY <1>4, EntryOfStream DEF EntryAt, Reads
  <2> QED
    BY <2>1 DEF Taken, Sides
<1> HIDE DEF taken, clash
<1>10. MergeTypeOK'
  <2>1. merged' \in Seq(Entries)
    <3>1. taken # NoFile => File(p, taken) \in Entries
      BY <1>2, <1>9 DEF File, Entries
    <3> QED
      BY <1>3, <3>1 DEF MergeTypeOK
  <2>2. conflicts' \in Seq(Paths) /\ seen' \subseteq Paths
    BY <1>2, <1>3 DEF MergeTypeOK
  <2>3. \A x \in Sides : at'[x] \in 1..(Len(streams'[x]) + 1) /\ at'[x] \in Nat
    BY <1>3, <1>4, <1>5
  <2>4. at' \in [Sides -> Nat]
    BY <1>3, <2>3
  <2> QED
    BY <1>3, <2>1, <2>2, <2>3, <2>4 DEF MergeTypeOK
<1>11. MergedIsTaken'
  <2>1. CASE taken = NoFile
    BY <1>2, <1>3, <1>7, <1>8, <2>1 DEF MergedIsTaken
  <2>2. CASE taken # NoFile
    <3>1. /\ merged \in Seq(Entries) /\ Len(merged) \in Nat
          /\ merged' = Append(merged, File(p, taken))
      BY <1>3, <2>2 DEF MergeTypeOK
    <3>2. /\ Len(merged') = Len(merged) + 1
          /\ merged'[Len(merged) + 1] = File(p, taken)
          /\ \A m \in 1..Len(merged) : merged'[m] = merged[m]
      BY <3>1, <1>2, <1>9, <2>2 DEF File, Entries
    <3>3. File(p, taken).path = p /\ File(p, taken).content = taken
      BY DEF File
    <3>4. ASSUME NEW m \in 1..Len(merged)
          PROVE  /\ merged'[m].path \in seen /\ merged'[m].path # p
                 /\ merged'[m].content = TakenAt(merged[m].path)'
      BY <1>2, <1>7, <3>2 DEF MergedIsTaken
    <3>5. \A m \in 1..Len(merged') : /\ merged'[m].path \in seen'
                                    /\ merged'[m].content = TakenAt(merged[m].path)'
      BY <1>3, <1>8, <3>1, <3>2, <3>3, <3>4
    <3>6. ASSUME NEW q \in seen', TakenAt(q)' # NoFile
          PROVE  \E m \in 1..Len(merged') : merged'[m].path = q
      BY <1>3, <1>7, <3>1, <3>2, <3>3, <3>6 DEF MergedIsTaken
    <3>7. \A m, n \in 1..Len(merged') : merged'[m].path = merged'[n].path => m = n
      BY <3>1, <3>2, <3>3, <3>4 DEF MergedIsTaken
    <3> QED
      BY <3>5, <3>6, <3>7 DEF MergedIsTaken
  <2> QED
    BY <2>1, <2>2
<1>12. ConflictsAreFound'
  <2>1. CASE ~clash
    BY <1>2, <1>3, <1>7, <1>8, <2>1 DEF ConflictsAreFound
  <2>2. CASE clash
    <3>1. /\ conflicts \in Seq(Paths) /\ Len(conflicts) \in Nat
          /\ conflicts' = Append(conflicts, p)
      BY <1>3, <2>2 DEF MergeTypeOK
    <3>2. /\ Len(conflicts') = Len(conflicts) + 1
          /\ conflicts'[Len(conflicts) + 1] = p
          /\ \A c \in 1..Len(conflicts) : conflicts'[c] = conflicts[c]
      BY <3>1, <1>2
    <3>3. \A c \in 1..Len(conflicts) : /\ conflicts'[c] \in seen
                                      /\ conflicts'[c] # p
                                      /\ ConflictAt(conflicts[c])'
      BY <1>2, <1>7, <3>2 DEF ConflictsAreFound
    <3>4. \A c \in 1..Len(conflicts') : /\ conflicts'[c] \in seen'
                                       /\ ConflictAt(conflicts[c])'
      BY <1>3, <1>8, <2>2, <3>1, <3>2, <3>3
    <3>5. ASSUME NEW q \in seen', ConflictAt(q)'
          PROVE  \E c \in 1..Len(conflicts') : conflicts'[c] = q
      BY <1>3, <1>7, <3>1, <3>2, <3>5 DEF ConflictsAreFound
    <3>6. \A c, d \in 1..Len(conflicts') : conflicts'[c] = conflicts'[d] => c = d
      BY <3>1, <3>2, <3>3 DEF ConflictsAreFound
    <3> QED
      BY <3>4, <3>5, <3>6 DEF ConflictsAreFound
  <2> QED
    BY <2>1, <2>2
<1>13. OverIsOver'
  BY <1>3 DEF OverIsOver
<1> QED
  BY <1>6, <1>10, <1>11, <1>12, <1>13

LEMMA MergeStep == MergeInv /\ [Next]_vars => MergeInv'
<1> SUFFICES ASSUME MergeInv, [Next]_vars PROVE MergeInv'
  OBVIOUS
<1> USE DEF MergeInv
<1>1. ASSUME UNCHANGED <<streams, at, seen, merged, conflicts>>
      PROVE  (MergeTypeOK /\ RoundsOnce /\ MergedIsTaken /\ ConflictsAreFound)'
  BY <1>1 DEF MergeTypeOK, RoundsOnce, MergedIsTaken, ConflictsAreFound,
              TakenAt, ConflictAt, Had
<1>2. CASE Duplicate
  <2>1. OverIsOver'
    BY <1>2 DEF Duplicate, OverIsOver
  <2> QED
    BY <1>1, <1>2, <2>1 DEF Duplicate
<1>3. CASE Decide
  BY <1>3, DecideInv
<1>4. CASE Finish
  <2>1. Unread' = {}
    BY <1>4 DEF Finish, Unread
  <2>2. OverIsOver'
    BY <1>4, <2>1 DEF Finish, OverIsOver
  <2> QED
    BY <1>1, <1>4, <2>2 DEF Finish
<1>5. CASE UNCHANGED vars
  <2>1. OverIsOver'
    BY <1>5 DEF vars, OverIsOver, Unread
  <2> QED
    BY <1>1, <1>5, <2>1 DEF vars
<1> QED
  BY <1>2, <1>3, <1>4, <1>5 DEF Next

(* When all is read, what the streams had is what the commits' files are.  *)
LEMMA HadIsFile ==
    ASSUME MergeInv, Unread = {}, NEW x \in Sides, NEW p
    PROVE  /\ Had(x, p) = At(FilesOfSide(x), p)
           /\ ReadBefore(streams[x], at[x], p) <=> p \in DOMAIN FilesOfSide(x)
<1>1. streams[x] \in Seq(Entries) /\ at[x] = Len(streams[x]) + 1
  BY DEF MergeInv, MergeTypeOK, Unread
<1>2. ReadOnce(streams[x], Len(streams[x]) + 1)
  BY <1>1 DEF MergeInv, RoundsOnce
<1> QED
  BY <1>1, <1>2, ReadToEnd DEF Had, FilesOfSide

(* The rule of one path, in the two ways it is written.                    *)
LEMMA RuleOfPath ==
    ASSUME MergeInv, Unread = {}, NEW p
    PROVE  /\ ConflictAt(p) /\ p \in seen
                <=> p \in Conflicts(FilesOfSide("base"), FilesOfSide("ours"),
                                    FilesOfSide("theirs"))
           /\ ~ConflictAt(p) =>
                TakenAt(p) = MergedAt(FilesOfSide("base"), FilesOfSide("ours"),
                                      FilesOfSide("theirs"), p)
           /\ TakenAt(p) # NoFile =>
                p \in DOMAIN FilesOfSide("ours") \cup DOMAIN FilesOfSide("theirs")
<1>1. "base" \in Sides /\ "ours" \in Sides /\ "theirs" \in Sides
  BY DEF Sides
<1>2. /\ Had("base", p) = At(FilesOfSide("base"), p)
      /\ Had("ours", p) = At(FilesOfSide("ours"), p)
      /\ Had("theirs", p) = At(FilesOfSide("theirs"), p)
  BY <1>1, HadIsFile
<1>3. p \in seen <=> p \in DOMAIN FilesOfSide("base") \cup DOMAIN FilesOfSide("ours")
                            \cup DOMAIN FilesOfSide("theirs")
  BY <1>1, HadIsFile DEF MergeInv, RoundsOnce, Sides
<1>4. ConflictAt(p) /\ p \in seen
        <=> p \in Conflicts(FilesOfSide("base"), FilesOfSide("ours"),
                            FilesOfSide("theirs"))
  BY <1>2, <1>3 DEF ConflictAt, InConflict, Conflicts
<1>5. ~ConflictAt(p) =>
        TakenAt(p) = MergedAt(FilesOfSide("base"), FilesOfSide("ours"),
                              FilesOfSide("theirs"), p)
  BY <1>2 DEF ConflictAt, InConflict, TakenAt, Taken, MergedAt
<1>6. TakenAt(p) # NoFile =>
        p \in DOMAIN FilesOfSide("ours") \cup DOMAIN FilesOfSide("theirs")
  BY <1>2 DEF TakenAt, Taken, At
<1> QED
  BY <1>4, <1>5, <1>6

LEMMA MergeInvGivesRule == MergeInv => MergedByRule
<1> SUFFICES ASSUME MergeInv, outcome \in {"merged", "conflict"}
             PROVE  MergedByRule
  BY DEF MergedByRule
<1> DEFINE b == FilesOfSide("base")
           o == FilesOfSide("ours")
           t == FilesOfSide("theirs")
<1>1. Unread = {}
  BY DEF MergeInv, OverIsOver
<1>2. ASSUME NEW p
      PROVE  /\ p \in Conflicts(b, o, t) <=> ConflictAt(p) /\ p \in seen
             /\ ~ConflictAt(p) => TakenAt(p) = MergedAt(b, o, t, p)
             /\ TakenAt(p) # NoFile => p \in DOMAIN o \cup DOMAIN t
  BY <1>1, RuleOfPath
<1>3. ASSUME NEW p \in DOMAIN o \cup DOMAIN t PROVE p \in seen
  <2>1. "ours" \in Sides /\ "theirs" \in Sides
    BY DEF Sides
  <2> QED
    BY <1>1, <1>3, <2>1, HadIsFile DEF MergeInv, RoundsOnce
<1> HIDE DEF b, o, t
<1>4. /\ conflicts \in Seq(Paths) /\ DOMAIN conflicts = 1..Len(conflicts)
      /\ Len(conflicts) \in Nat
      /\ merged \in Seq(Entries) /\ DOMAIN merged = 1..Len(merged)
  BY DEF MergeInv, MergeTypeOK
<1>5. Conflicts(b, o, t) = {conflicts[c] : c \in DOMAIN conflicts}
  BY <1>2, <1>4 DEF MergeInv, ConflictsAreFound
<1>6. ASSUME outcome = "merged"
      PROVE  Conflicts(b, o, t) = {} /\ FilesOfStream(merged) = Merged(b, o, t)
  <2>1. conflicts = <<>> /\ DOMAIN conflicts = {}
    BY <1>4, <1>6 DEF MergeInv, OverIsOver
  <2>2. Conflicts(b, o, t) = {}
    BY <1>5, <2>1
  <2>3. \A p \in seen : TakenAt(p) = MergedAt(b, o, t, p)
    BY <1>2, <2>2
  <2>4. ASSUME NEW m \in 1..Len(merged)
        PROVE  /\ merged[m].path \in DOMAIN Merged(b, o, t)
               /\ At(FilesOfStream(merged), merged[m].path)
                        = MergedAt(b, o, t, merged[m].path)
    <3>1. /\ merged[m].path \in seen
          /\ merged[m].content = TakenAt(merged[m].path)
          /\ \A n \in 1..Len(merged) : merged[n].path = merged[m].path => n = m
      BY DEF MergeInv, MergedIsTaken
    <3>2. merged[m].content # NoFile
      BY <1>4, EntryOfStream
    <3>3. At(FilesOfStream(merged), merged[m].path) = merged[m].content
      BY <1>4, <3>1, FileOfEntry
    <3> QED
      BY <1>2, <2>3, <3>1, <3>2, <3>3 DEF Merged
  <2>5. ASSUME NEW p \in DOMAIN Merged(b, o, t)
        PROVE  \E m \in 1..Len(merged) : merged[m].path = p
    <3>1. p \in DOMAIN o \cup DOMAIN t /\ MergedAt(b, o, t, p) # NoFile
      BY DEF Merged
    <3>2. p \in seen /\ TakenAt(p) # NoFile
      BY <1>3, <2>3, <3>1
    <3> QED
      BY <3>2 DEF MergeInv, MergedIsTaken
  <2>6. DOMAIN FilesOfStream(merged) = {merged[m].path : m \in 1..Len(merged)}
    BY <1>4 DEF FilesOfStream
  <2>7. DOMAIN FilesOfStream(merged) = DOMAIN Merged(b, o, t)
    BY <2>4, <2>5, <2>6
  <2>8. ASSUME NEW p \in DOMAIN Merged(b, o, t)
        PROVE  FilesOfStream(merged)[p] = Merged(b, o, t)[p]
    <3>1. FilesOfStream(merged)[p] = At(FilesOfStream(merged), p)
      BY <2>7 DEF At
    <3>2. Merged(b, o, t)[p] = MergedAt(b, o, t, p)
      BY DEF Merged
    <3> QED
      BY <2>4, <2>5, <3>1, <3>2
  <2>9. /\ FilesOfStream(merged)
                = [p \in DOMAIN FilesOfStream(merged) |-> FilesOfStream(merged)[p]]
        /\ Merged(b, o, t) = [p \in DOMAIN Merged(b, o, t) |-> Merged(b, o, t)[p]]
    BY DEF FilesOfStream, Merged
  <2> QED
    BY <2>2, <2>7, <2>8, <2>9
<1>7. ASSUME outcome = "conflict"
      PROVE  /\ Conflicts(b, o, t) # {}
             /\ \A c, d \in DOMAIN conflicts : conflicts[c] = conflicts[d] => c = d
  <2>1. conflicts # <<>>
    BY <1>7 DEF MergeInv, OverIsOver
  <2>2. Len(conflicts) # 0
    BY <1>4, <2>1
  <2>3. 1 \in DOMAIN conflicts
    BY <1>4, <2>2
  <2> QED
    BY <1>4, <1>5, <2>3 DEF MergeInv, ConflictsAreFound
<1> QED
  BY <1>5, <1>6, <1>7 DEF MergedByRule, b, o, t

(* Whatever the order of the three walks, a merge that is not refused made *)
(* of every path what the rule makes of it, and one that is in conflict    *)
(* reports exactly the paths that are.                                     *)
THEOREM MergeFollowsRule == Spec => []MergedByRule
<1>1. Init => MergeInv
  BY MergeInit
<1>2. MergeInv /\ [Next]_vars => MergeInv'
  BY MergeStep
<1>3. MergeInv => MergedByRule
  BY MergeInvGivesRule
<1> QED
  BY <1>1, <1>2, <1>3, PTL DEF Spec

(* Over walks that ascend: every path that had its round comes before all  *)
(* that is unread, so that no path comes up again and merged ascends.      *)
MergeAscends ==
    (\A x \in Sides : Ascending(streams[x])) =>
        /\ \A p \in seen, x \in Sides : \A k \in at[x]..Len(streams[x]) :
              Before(p, streams[x][k].path)
        /\ \A m, n \in 1..Len(merged) :
              m < n => Before(merged[m].path, merged[n].path)
        /\ outcome \notin {"duplicate", "unsorted"}

(* Before the round every entry that is left has its path or a later one,  *)
(* and an entry that is not at a head has a later one.                     *)
LEMMA LeftIsLater ==
    ASSUME MergeTypeOK, Unread # {}, \A x \in Sides : Ascending(streams[x]),
           NEW x \in Sides, NEW k \in at[x]..Len(streams[x]),
           ~(k = at[x] /\ streams[x][k].path = Path)
    PROVE  Before(Path, streams[x][k].path)
<1>1. /\ streams[x] \in Seq(Entries) /\ Len(streams[x]) \in Nat
      /\ at[x] \in 1..Len(streams[x]) /\ k \in 1..Len(streams[x])
  BY DEF MergeTypeOK
<1>2. x \in Unread /\ Path \in Paths
  BY <1>1, RoundPath DEF Unread
<1>3. /\ streams[x][at[x]].path \in Paths /\ streams[x][k].path \in Paths
      /\ ~Before(streams[x][at[x]].path, Path)
  BY <1>1, <1>2, EntryOfStream, RoundPath
<1>4. k # at[x] => Before(streams[x][at[x]].path, streams[x][k].path)
  BY <1>1, AscendingPairs
<1> QED
  BY <1>2, <1>3, <1>4, OrderAssumption

LEMMA RoundIsNew ==
    ASSUME MergeInv, MergeAscends, Unread # {},
           \A x \in Sides : Ascending(streams[x])
    PROVE  /\ Path \notin seen
           /\ \A p \in seen : Before(p, Path)
<1>1. PICK x \in Sides : Reads(streams[x], at[x], Path)
  BY RoundPath DEF MergeInv
<1>2. /\ at[x] \in at[x]..Len(streams[x]) /\ streams[x][at[x]].path = Path
      /\ Path \in Paths
  BY <1>1, RoundPath DEF Reads, MergeInv, MergeTypeOK
<1>3. \A p \in seen : Before(p, Path)
  BY <1>2 DEF MergeAscends
<1> QED
  BY <1>2, <1>3, OrderAssumption

LEMMA MergeAscendsStep ==
    MergeInv /\ MergeAscends /\ [Next]_vars => MergeAscends'
<1> SUFFICES ASSUME MergeInv, MergeAscends, [Next]_vars,
                    (\A x \in Sides : Ascending(streams[x]))'
             PROVE  MergeAscends'
  BY DEF MergeAscends
<1>1. streams' = streams
  BY DEF Next, Duplicate, Decide, Finish, vars
<1>2. \A x \in Sides : Ascending(streams[x])
  BY <1>1
<1>3. CASE Duplicate
  BY <1>2, <1>3, RoundIsNew DEF Duplicate
<1>4. CASE Decide
  <2>1. /\ Path \in Paths /\ \A p \in seen : Before(p, Path)
        /\ Unread # {} /\ MergeTypeOK
    BY <1>2, <1>4, RoundPath, RoundIsNew DEF Decide, MergeInv
  <2>2. PICK p : p = Path
    OBVIOUS
  <2>3. PICK taken : taken = Taken(Row("base"), Row("ours"), Row("theirs"))
    OBVIOUS
  <2>4. /\ outcome' = outcome /\ seen' = seen \cup {p}
        /\ at' = [x \in Sides |-> Past(streams[x], at[x], p)]
        /\ merged' = IF taken = NoFile THEN merged ELSE Append(merged, File(p, taken))
    BY <1>4, <2>2, <2>3 DEF Decide
  <2>5. ASSUME NEW x \in Sides, NEW k \in at'[x]..Len(streams[x])
        PROVE  /\ k \in at[x]..Len(streams[x])
               /\ Before(p, streams[x][k].path)
    <3>1. /\ at[x] \in Nat /\ Len(streams[x]) \in Nat
          /\ at'[x] = Past(streams[x], at[x], p)
      BY <2>1, <2>4 DEF MergeTypeOK
    <3>2. /\ k \in at[x]..Len(streams[x])
          /\ ~(k = at[x] /\ streams[x][k].path = p)
      BY <3>1 DEF Past, Reads
    <3> QED
      BY <1>2, <2>1, <2>2, <3>2, LeftIsLater
  <2>6. ASSUME NEW q \in seen', NEW x \in Sides, NEW k \in at'[x]..Len(streams'[x])
        PROVE  Before(q, streams'[x][k].path)
    BY <1>1, <1>2, <2>4, <2>5 DEF MergeAscends
  <2>7. ASSUME NEW m \in 1..Len(merged'), NEW n \in 1..Len(merged'), m < n
        PROVE  Before(merged'[m].path, merged'[n].path)
    <3>1. merged \in Seq(Entries) /\ Len(merged) \in Nat
      BY <2>1 DEF MergeTypeOK
    <3>2. CASE taken = NoFile
      BY <1>2, <2>4, <2>7, <3>2 DEF MergeAscends
    <3>3. CASE taken # NoFile
      <4>1. /\ Len(merged') = Len(merged) + 1
            /\ merged'[Len(merged) + 1] = File(p, taken)
            /\ \A l \in 1..Len(merged) : merged'[l] = merged[l]
        BY <2>4, <3>1, <3>3
      <4>2. merged'[Len(merged) + 1].path = p
        BY <4>1 DEF File
      <4>3. m \in 1..Len(merged) /\ merged[m].path \in seen
        BY <2>7, <3>1, <4>1 DEF MergeInv, MergedIsTaken
      <4>4. CASE n = Len(merged) + 1
        BY <2>1, <2>2, <4>1, <4>2, <4>3, <4>4
      <4>5. CASE n \in 1..Len(merged)
        BY <1>2, <2>7, <4>1, <4>3, <4>5 DEF MergeAscends
      <4> QED
        BY <3>1, <4>1, <4>4, <4>5
    <3> QED
      BY <3>2, <3>3
  <2>8. outcome' \notin {"duplicate", "unsorted"}
    BY <1>2, <2>4 DEF MergeAscends
  <2> QED
    BY <2>6, <2>7, <2>8 DEF MergeAscends
<1>5. CASE Finish
  <2>1. merged \in Seq(Entries) /\ Len(merged) \in Nat
    BY DEF MergeInv, MergeTypeOK
  <2>2. Ascending(merged)
    BY <1>2, <2>1 DEF Ascending, MergeAscends
  <2> QED
    BY <1>2, <1>5, <2>2 DEF Finish, MergeAscends
<1>6. CASE UNCHANGED vars
  BY <1>2, <1>6 DEF vars, MergeAscends
<1> QED
  BY <1>3, <1>4, <1>5, <1>6 DEF Next

(* Walks that ascend can always be merged, and what is merged of them      *)
(* ascends.                                                                *)
THEOREM AscendingWalksMerge == Spec => []AscendingAccepted
<1>1. Init => MergeInv /\ MergeAscends
  BY MergeInit DEF Init, MergeAscends
<1>2. MergeInv /\ MergeAscends /\ [Next]_vars => (MergeInv /\ MergeAscends)'
  BY MergeStep, MergeAscendsStep
<1>3. MergeInv /\ MergeAscends => AscendingAccepted
  BY DEF MergeAscends, AscendingAccepted
<1> QED
  BY <1>1, <1>2, <1>3, PTL DEF Spec

-----------------------------------------------------------------------------
(* diff *)

Changes == [path : Paths, before : Contents \cup {NoFile},
            after : Contents \cup {NoFile}]

DiffTypeOK ==
    /\ from \in Seq(Entries) /\ to \in Seq(Entries)
    /\ fromAt \in 1..(Len(from) + 1) /\ toAt \in 1..(Len(to) + 1)
    /\ changes \in Seq(Changes)
    /\ answered => fromAt > Len(from) /\ toAt > Len(to)

Old(p) == At(FilesOfStream(from), p)

New(p) == At(FilesOfStream(to), p)

Passed(p) == ReadBefore(from, fromAt, p) \/ ReadBefore(to, toAt, p)

(* All that is left in the two streams comes after the path.               *)
BeforeAllLeft(p) ==
    /\ \A k \in fromAt..Len(from) : Before(p, from[k].path)
    /\ \A l \in toAt..Len(to) : Before(p, to[l].path)

(* Of ascending walks: a path that was passed is not met again, and the    *)
(* answer is what differs among the passed ones, in order.                 *)
DiffSoFar ==
    Ascending(from) /\ Ascending(to) =>
        /\ \A p : Passed(p) => BeforeAllLeft(p)
        /\ \A c \in 1..Len(changes) :
              /\ Passed(changes[c].path)
              /\ Old(changes[c].path) # New(changes[c].path)
              /\ changes[c] = Change(changes[c].path, Old(changes[c].path),
                                     New(changes[c].path))
        /\ \A p : Passed(p) /\ Old(p) # New(p) =>
              \E c \in 1..Len(changes) : changes[c].path = p
        /\ \A c, d \in 1..Len(changes) :
              c < d => Before(changes[c].path, changes[d].path)

DiffInv == DiffTypeOK /\ DiffSoFar

LEMMA DiffInitInv == DiffInit => DiffInv
<1> SUFFICES ASSUME DiffInit PROVE DiffInv
  OBVIOUS
<1>1. from \in Seq(Entries) /\ to \in Seq(Entries)
  BY StreamsAssumption DEF DiffInit, Entries
<1>2. DiffTypeOK
  BY <1>1 DEF DiffInit, DiffTypeOK
<1>3. \A p : ~Passed(p)
  BY DEF DiffInit, Passed, ReadBefore
<1>4. DiffSoFar
  BY <1>3 DEF DiffInit, DiffSoFar
<1> QED
  BY <1>2, <1>4 DEF DiffInv

(* What an ascending walk's files have at the path of one of its entries.  *)
LEMMA FileOfAscending ==
    ASSUME NEW s \in Seq(Entries), Ascending(s), NEW k \in 1..Len(s)
    PROVE  At(FilesOfStream(s), s[k].path) = s[k].content
<1>1. \A l \in 1..Len(s) : s[l].path = s[k].path => l = k
  <2> SUFFICES ASSUME NEW l \in 1..Len(s), s[l].path = s[k].path, l # k
               PROVE  FALSE
    OBVIOUS
  <2>1. Len(s) \in Nat /\ (l < k \/ k < l)
    OBVIOUS
  <2>2. Before(s[k].path, s[k].path)
    BY <2>1, AscendingPairs
  <2> QED
    BY <2>2, EntryOfStream, OrderAssumption
<1> QED
  BY <1>1, FileOfEntry

(* No entry has a path that comes after those that were read and before    *)
(* those that are left.                                                    *)
LEMMA NotInWalk ==
    ASSUME NEW s \in Seq(Entries), Ascending(s), NEW n \in 1..(Len(s) + 1),
           NEW p \in Paths,
           \A q : ReadBefore(s, n, q) => Before(q, p),
           n <= Len(s) => Before(p, s[n].path)
    PROVE  At(FilesOfStream(s), p) = NoFile
<1>1. ASSUME NEW l \in 1..Len(s) PROVE s[l].path # p
  <2>1. Len(s) \in Nat /\ s[l].path \in Paths
    BY EntryOfStream
  <2>2. CASE l < n
    <3>1. ReadBefore(s, n, s[l].path)
      BY <2>1, <2>2 DEF ReadBefore
    <3> QED
      BY <2>1, <3>1, OrderAssumption
  <2>3. CASE l >= n
    <3>1. n \in 1..Len(s) /\ s[n].path \in Paths /\ Before(p, s[n].path)
      BY <2>1, <2>3, EntryOfStream
    <3>2. n = l \/ Before(s[n].path, s[l].path)
      BY <2>1, <2>3, <3>1, AscendingPairs
    <3> QED
      BY <2>1, <3>1, <3>2, OrderAssumption
  <2> QED
    BY <2>1, <2>2, <2>3
<1> QED
  BY <1>1, NoFileOfPath

(* A round of diff reads past one path, in the streams that have it at     *)
(* their heads, and reports it when the two commits differ there.          *)
Round(p) ==
    /\ p \in Paths /\ BeforeAllLeft(p)'
    /\ \A q : Passed(q) => Before(q, p)
    /\ \A q : Passed(q)' <=> Passed(q) \/ q = p
    /\ changes' = IF Old(p) = New(p) THEN changes
                  ELSE Append(changes, Change(p, Old(p), New(p)))

(* One of the streams is read on by an entry, the other one has no entry   *)
(* of its path.                                                            *)
LEMMA OneSideLeft ==
    ASSUME NEW s \in Seq(Entries), Ascending(s), NEW n \in 1..Len(s)
    PROVE  /\ \A k \in (n + 1)..Len(s) : Before(s[n].path, s[k].path)
           /\ \A q : ReadBefore(s, n + 1, q) <=> ReadBefore(s, n, q) \/ q = s[n].path
<1>1. Len(s) \in Nat /\ 1..((n + 1) - 1) = 1..(n - 1) \cup {n}
  OBVIOUS
<1>2. \A k \in (n + 1)..Len(s) : k \in 1..Len(s) /\ n < k
  BY <1>1
<1> QED
  BY <1>1, <1>2, AscendingPairs DEF ReadBefore

LEMMA OtherSideLeft ==
    ASSUME NEW s \in Seq(Entries), Ascending(s), NEW n \in 1..(Len(s) + 1),
           NEW p \in Paths, n <= Len(s) => Before(p, s[n].path)
    PROVE  \A k \in n..Len(s) : Before(p, s[k].path)
<1> TAKE k \in n..Len(s)
<1>1. /\ Len(s) \in Nat /\ n \in 1..Len(s) /\ k \in 1..Len(s)
      /\ n = k \/ n < k
  OBVIOUS
<1>2. n = k \/ Before(s[n].path, s[k].path)
  BY <1>1, AscendingPairs
<1>3. s[n].path \in Paths /\ s[k].path \in Paths /\ Before(p, s[n].path)
  BY <1>1, EntryOfStream
<1> QED
  BY <1>2, <1>3, OrderAssumption

LEMMA RemovedRound ==
    ASSUME DiffInv, Ascending(from), Ascending(to), ReportRemoved
    PROVE  \E p : Round(p)
<1>p. PICK p : p = from[fromAt].path
  OBVIOUS
<1>1. /\ from \in Seq(Entries) /\ to \in Seq(Entries)
      /\ fromAt \in 1..Len(from) /\ toAt \in 1..(Len(to) + 1)
      /\ toAt <= Len(to) => Before(p, to[toAt].path)
      /\ fromAt' = fromAt + 1 /\ toAt' = toAt /\ from' = from /\ to' = to
      /\ changes' = Append(changes, Change(p, from[fromAt].content, NoFile))
  BY <1>p DEF DiffInv, DiffTypeOK, ReportRemoved, BothLeft
<1>2. p \in Paths /\ from[fromAt].content # NoFile
  BY <1>p, <1>1, EntryOfStream
<1>3. \A q : Passed(q) => Before(q, p)
  BY <1>p, <1>1 DEF DiffInv, DiffSoFar, BeforeAllLeft
<1>4. Old(p) = from[fromAt].content
  BY <1>p, <1>1, FileOfAscending DEF Old
<1>5. New(p) = NoFile
  BY <1>p, <1>1, <1>2, <1>3, NotInWalk DEF New, Passed
<1>6. BeforeAllLeft(p)'
  BY <1>p, <1>1, <1>2, OneSideLeft, OtherSideLeft DEF BeforeAllLeft
<1>7. \A q : Passed(q)' <=> Passed(q) \/ q = p
  BY <1>p, <1>1, OneSideLeft DEF Passed
<1> QED
  BY <1>p, <1>1, <1>2, <1>3, <1>4, <1>5, <1>6, <1>7 DEF Round

LEMMA AddedRound ==
    ASSUME DiffInv, Ascending(from), Ascending(to), ReportAdded
    PROVE  \E p : Round(p)
<1>p. PICK p : p = to[toAt].path
  OBVIOUS
<1>1. /\ from \in Seq(Entries) /\ to \in Seq(Entries)
      /\ fromAt \in 1..(Len(from) + 1) /\ toAt \in 1..Len(to)
      /\ fromAt <= Len(from) => from[fromAt].path # p /\ ~Before(from[fromAt].path, p)
      /\ fromAt' = fromAt /\ toAt' = toAt + 1 /\ from' = from /\ to' = to
      /\ changes' = Append(changes, Change(p, NoFile, to[toAt].content))
  BY <1>p DEF DiffInv, DiffTypeOK, ReportAdded, BothLeft
<1>2. p \in Paths /\ to[toAt].content # NoFile
  BY <1>p, <1>1, EntryOfStream
<1>3. fromAt <= Len(from) => Before(p, from[fromAt].path)
  <2> SUFFICES ASSUME fromAt <= Len(from) PROVE Before(p, from[fromAt].path)
    OBVIOUS
  <2>1. from[fromAt].path \in Paths
    BY <1>p, <1>1, EntryOfStream
  <2> QED
    BY <1>p, <1>1, <1>2, <2>1, OrderAssumption
<1>4. \A q : Passed(q) => Before(q, p)
  BY <1>p, <1>1 DEF DiffInv, DiffSoFar, BeforeAllLeft
<1>5. New(p) = to[toAt].content
  BY <1>p, <1>1, FileOfAscending DEF New
<1>6. Old(p) = NoFile
  BY <1>p, <1>1, <1>2, <1>3, <1>4, NotInWalk DEF Old, Passed
<1>7. BeforeAllLeft(p)'
  BY <1>p, <1>1, <1>2, <1>3, OneSideLeft, OtherSideLeft DEF BeforeAllLeft
<1>8. \A q : Passed(q)' <=> Passed(q) \/ q = p
  BY <1>p, <1>1, OneSideLeft DEF Passed
<1> QED
  BY <1>p, <1>1, <1>2, <1>4, <1>5, <1>6, <1>7, <1>8 DEF Round

LEMMA CompareRound ==
    ASSUME DiffInv, Ascending(from), Ascending(to), Compare
    PROVE  \E p : Round(p)
<1>p. PICK p : p = from[fromAt].path
  OBVIOUS
<1>1. /\ from \in Seq(Entries) /\ to \in Seq(Entries)
      /\ fromAt \in 1..Len(from) /\ toAt \in 1..Len(to) /\ to[toAt].path = p
      /\ fromAt' = fromAt + 1 /\ toAt' = toAt + 1 /\ from' = from /\ to' = to
      /\ changes' = IF from[fromAt].content = to[toAt].content THEN changes
                    ELSE Append(changes, Change(p, from[fromAt].content,
                                                to[toAt].content))
  BY <1>p DEF DiffInv, DiffTypeOK, Compare, BothLeft
<1>2. p \in Paths
  BY <1>p, <1>1, EntryOfStream
<1>3. \A q : Passed(q) => Before(q, p)
  BY <1>p, <1>1 DEF DiffInv, DiffSoFar, BeforeAllLeft
<1>4. Old(p) = from[fromAt].content
  BY <1>p, <1>1, FileOfAscending DEF Old
<1>5. New(p) = to[toAt].content
  <2>1. At(FilesOfStream(to), to[toAt].path) = to[toAt].content
    BY <1>p, <1>1, FileOfAscending
  <2> QED
    BY <1>p, <1>1, <2>1 DEF New
<1>6. BeforeAllLeft(p)'
  BY <1>p, <1>1, OneSideLeft DEF BeforeAllLeft
<1>7. \A q : Passed(q)' <=> Passed(q) \/ q = p
  BY <1>p, <1>1, OneSideLeft DEF Passed
<1> QED
  BY <1>p, <1>1, <1>2, <1>3, <1>4, <1>5, <1>6, <1>7 DEF Round

LEMMA DiffTypeStep == DiffTypeOK /\ [DiffNext]_diffVars => DiffTypeOK'
<1> SUFFICES ASSUME DiffTypeOK, [DiffNext]_diffVars PROVE DiffTypeOK'
  OBVIOUS
<1> USE DEF DiffTypeOK
<1>1. \A p, x, y : p \in Paths /\ x \in Contents \cup {NoFile}
                    /\ y \in Contents \cup {NoFile} => Change(p, x, y) \in Changes
  BY DEF Change, Changes
<1>2. CASE ReportRemoved
  BY <1>1, <1>2, EntryOfStream DEF ReportRemoved
<1>3. CASE ReportAdded
  BY <1>1, <1>3, EntryOfStream DEF ReportAdded
<1>4. CASE Compare
  BY <1>1, <1>4, EntryOfStream DEF Compare, BothLeft
<1>5. CASE Answer
  BY <1>5 DEF Answer
<1>6. CASE UNCHANGED diffVars
  BY <1>6 DEF diffVars
<1> QED
  BY <1>2, <1>3, <1>4, <1>5, <1>6 DEF DiffNext

LEMMA RoundKeepsDiff ==
    ASSUME DiffInv, Ascending(from), Ascending(to), DiffTypeOK',
           from' = from, to' = to, NEW p, Round(p)
    PROVE  DiffSoFar'
<1>1. /\ changes \in Seq(Changes) /\ Len(changes) \in Nat
      /\ p \in Paths
      /\ \A q : Old(q)' = Old(q) /\ New(q)' = New(q)
  BY DEF DiffInv, DiffTypeOK, Round, Old, New
<1>2. ASSUME NEW q, Passed(q)' PROVE BeforeAllLeft(q)'
  <2>1. CASE q = p
    BY <2>1 DEF Round
  <2>2. CASE q # p
    <3>1. BeforeAllLeft(q) /\ Passed(q)
      BY <1>2, <2>2 DEF Round, DiffInv, DiffSoFar
    <3>2. q \in Paths /\ Before(q, p)
      BY <3>1, EntryOfStream DEF Round, Passed, ReadBefore, DiffInv, DiffTypeOK
    <3>3. /\ \A k \in fromAt'..Len(from) :
                Before(p, from[k].path) /\ from[k].path \in Paths
          /\ \A l \in toAt'..Len(to) :
                Before(p, to[l].path) /\ to[l].path \in Paths
      <4>1. /\ fromAt' \in 1..(Len(from) + 1) /\ from \in Seq(Entries)
            /\ toAt' \in 1..(Len(to) + 1) /\ to \in Seq(Entries)
        BY DEF DiffTypeOK
      <4> QED
        BY <4>1, EntryOfStream DEF Round, BeforeAllLeft
    <3> QED
      BY <1>1, <3>2, <3>3, OrderAssumption DEF BeforeAllLeft
  <2> QED
    BY <2>1, <2>2
<1>3. CASE Old(p) = New(p)
  <2>1. changes' = changes
    BY <1>3 DEF Round
  <2> QED
    BY <1>1, <1>2, <1>3, <2>1 DEF DiffSoFar, DiffInv, Round
<1>4. CASE Old(p) # New(p)
  <2>1. changes' = Append(changes, Change(p, Old(p), New(p)))
    BY <1>4 DEF Round
  <2>2. /\ Len(changes') = Len(changes) + 1
        /\ changes'[Len(changes) + 1] = Change(p, Old(p), New(p))
        /\ \A c \in 1..Len(changes) : changes'[c] = changes[c]
    BY <1>1, <2>1
  <2>3. changes'[Len(changes) + 1].path = p
    BY <2>2 DEF Change
  <2>4. ASSUME NEW c \in 1..Len(changes')
        PROVE  /\ Passed(changes[c].path)'
               /\ Old(changes'[c].path) # New(changes'[c].path)
               /\ changes'[c] = Change(changes'[c].path, Old(changes'[c].path),
                                       New(changes'[c].path))
    <3>1. CASE c = Len(changes) + 1
      BY <1>1, <1>4, <2>2, <2>3, <3>1 DEF Round
    <3>2. CASE c \in 1..Len(changes)
      BY <2>2, <3>2 DEF Round, DiffInv, DiffSoFar
    <3> QED
      BY <1>1, <2>2, <3>1, <3>2
  <2>5. ASSUME NEW q, Passed(q)', Old(q) # New(q)
        PROVE  \E c \in 1..Len(changes') : changes'[c].path = q
    BY <1>1, <2>2, <2>3, <2>5 DEF Round, DiffInv, DiffSoFar
  <2>6. ASSUME NEW c \in 1..Len(changes'), NEW d \in 1..Len(changes'), c < d
        PROVE  Before(changes'[c].path, changes'[d].path)
    <3>1. c \in 1..Len(changes) /\ Passed(changes[c].path)
      BY <1>1, <2>2, <2>6 DEF DiffInv, DiffSoFar
    <3>2. CASE d = Len(changes) + 1
      BY <2>2, <2>3, <3>1, <3>2 DEF Round
    <3>3. CASE d \in 1..Len(changes)
      BY <2>2, <2>6, <3>1, <3>3 DEF DiffInv, DiffSoFar
    <3> QED
      BY <1>1, <2>2, <3>2, <3>3
  <2> QED
    BY <1>1, <1>2, <2>4, <2>5, <2>6 DEF DiffSoFar
<1> QED
  BY <1>3, <1>4

LEMMA DiffStep == DiffInv /\ [DiffNext]_diffVars => DiffInv'
<1> SUFFICES ASSUME DiffInv, [DiffNext]_diffVars PROVE DiffInv'
  OBVIOUS
<1>1. DiffTypeOK'
  BY DiffTypeStep DEF DiffInv
<1>2. from' = from /\ to' = to
  BY DEF DiffNext, ReportRemoved, ReportAdded, Compare, Answer, diffVars
<1>3. CASE ~(Ascending(from) /\ Ascending(to))
  BY <1>1, <1>2, <1>3 DEF DiffInv, DiffSoFar
<1>4. CASE Ascending(from) /\ Ascending(to)
  <2>1. CASE ReportRemoved \/ ReportAdded \/ Compare
    <3>1. PICK p : Round(p)
      BY <1>4, <2>1, RemovedRound, AddedRound, CompareRound
    <3> QED
      BY <1>1, <1>2, <1>4, <3>1, RoundKeepsDiff DEF DiffInv
  <2>2. CASE UNCHANGED <<from, to, fromAt, toAt, changes>>
    BY <1>1, <2>2 DEF DiffInv, DiffSoFar, Passed, BeforeAllLeft, Old, New
  <2> QED
    BY <2>1, <2>2 DEF DiffNext, Answer, diffVars
<1> QED
  BY <1>3, <1>4

LEMMA DiffInvGivesExact == DiffInv => DiffExact
<1> SUFFICES ASSUME DiffInv, answered, Ascending(from), Ascending(to)
             PROVE  DiffExact
  BY DEF DiffExact
<1> DEFINE before == FilesOfStream(from)
           after  == FilesOfStream(to)
           paths  == DOMAIN before \cup DOMAIN after
<1>1. /\ from \in Seq(Entries) /\ to \in Seq(Entries)
      /\ fromAt = Len(from) + 1 /\ toAt = Len(to) + 1
      /\ changes \in Seq(Changes) /\ DOMAIN changes = 1..Len(changes)
      /\ Len(changes) \in Nat
  BY DEF DiffInv, DiffTypeOK
<1>2. ASSUME NEW p PROVE Passed(p) <=> p \in paths
  <2>1. 1..((Len(from) + 1) - 1) = 1..Len(from) /\ 1..((Len(to) + 1) - 1) = 1..Len(to)
    BY <1>1
  <2> QED
    BY <1>1, <2>1 DEF Passed, ReadBefore, FilesOfStream
<1> HIDE DEF before, after, paths
<1>3. \A p : Old(p) = At(before, p) /\ New(p) = At(after, p)
  BY DEF Old, New, before, after
<1>4. Ascending(changes)
  BY <1>1 DEF Ascending, DiffInv, DiffSoFar
<1> DEFINE differ == {q \in paths : At(before, q) # At(after, q)}
<1>5. ASSUME NEW c \in DOMAIN changes
      PROVE  /\ changes[c].path \in differ
             /\ changes[c] = Change(changes[c].path, At(before, changes[c].path),
                                    At(after, changes[c].path))
  BY <1>1, <1>2, <1>3 DEF DiffInv, DiffSoFar
<1>6. ASSUME NEW p \in differ
      PROVE  \E c \in DOMAIN changes : changes[c] = Change(p, At(before, p), At(after, p))
  <2>1. PICK c \in 1..Len(changes) : changes[c].path = p
    BY <1>2, <1>3 DEF DiffInv, DiffSoFar
  <2> QED
    BY <1>1, <1>5, <2>1
<1>7. {changes[c] : c \in DOMAIN changes}
        = {Change(p, At(before, p), At(after, p)) : p \in differ}
  BY <1>5, <1>6
<1> QED
  BY <1>4, <1>7 DEF DiffExact, before, after, paths

(* diff of two commits whose walks ascend is exact, whatever the commits.  *)
THEOREM DiffReportsDifferences == DiffSpec => []DiffExact
<1>1. DiffInit => DiffInv
  BY DiffInitInv
<1>2. DiffInv /\ [DiffNext]_diffVars => DiffInv'
  BY DiffStep
<1>3. DiffInv => DiffExact
  BY DiffInvGivesExact
<1> QED
  BY <1>1, <1>2, <1>3, PTL DEF DiffSpec

-----------------------------------------------------------------------------
(* The derived manifest *)

(* The first entries of the blocks.                                        *)
Starts(s) == {i \in DOMAIN s : (i - 1) % BlockEntries = 0}

(* Every entry is in the block of some start, and a later start is not     *)
(* before the end of that block.                                           *)
LEMMA BlockOf ==
    ASSUME NEW s \in Seq(Entries), NEW m \in 1..Len(s)
    PROVE  \E i \in Starts(s) :
              /\ i <= m /\ m < i + BlockEntries
              /\ \A j \in Starts(s) : i < j => i + BlockEntries <= j
<1> DEFINE B == BlockEntries
           r == (m - 1) % B
           q == (m - 1) \div B
           i == m - r
<1>1. B \in Nat /\ B >= 1 /\ DOMAIN s = 1..Len(s) /\ Len(s) \in Nat
  BY BlockEntriesAssumption
<1>2. /\ r \in 0..(B - 1) /\ q \in Int /\ m - 1 = B * q + r
  BY <1>1
<1> HIDE DEF r, q
<1>3. q >= 0
  BY <1>1, <1>2
<1>4. i - 1 = B * q /\ i \in 1..m
  BY <1>1, <1>2, <1>3
<1>5. (i - 1) % B = 0
  <2> DEFINE d == (i - 1) \div B
             e == (i - 1) % B
  <2>1. d \in Int /\ e \in 0..(B - 1) /\ i - 1 = B * d + e
    BY <1>1, <1>4
  <2> HIDE DEF d, e
  <2>2. e = B * q - B * d
    BY <1>1, <1>2, <1>4, <2>1
  <2>3. B * q - B * d = B * (q - d)
    BY <1>1, <1>2, <2>1
  <2>4. q - d < 1
    <3> SUFFICES ASSUME q - d >= 1 PROVE FALSE
      BY <1>2, <2>1
    <3>1. B * (q - d) >= B * 1
      BY <1>1, <1>2, <2>1
    <3> QED
      BY <1>1, <2>1, <2>2, <2>3, <3>1
  <2>5. q - d > -1
    <3> SUFFICES ASSUME q - d <= -1 PROVE FALSE
      BY <1>2, <2>1
    <3>1. B * (q - d) <= B * (-1)
      BY <1>1, <1>2, <2>1
    <3> QED
      BY <1>1, <2>1, <2>2, <2>3, <3>1
  <2>6. q - d = 0
    BY <1>2, <2>1, <2>4, <2>5
  <2>7. e = 0
    BY <1>1, <2>2, <2>3, <2>6
  <2> QED
    BY <2>7 DEF e
<1>6. i \in Starts(s)
  BY <1>1, <1>4, <1>5 DEF Starts
<1>7. ASSUME NEW j \in Starts(s), i < j PROVE i + B <= j
  <2>1. j \in 1..Len(s) /\ (j - 1) % B = 0
    BY <1>1, <1>7 DEF Starts
  <2>2. PICK k \in Int : j - 1 = B * k
    BY <1>1, <2>1
  <2>3. k > q
    BY <1>1, <1>2, <1>4, <1>7, <2>1, <2>2
  <2>4. B * k >= B * (q + 1)
    BY <1>1, <1>2, <2>3
  <2>5. B * (q + 1) = B * q + B
    BY <1>1, <1>2
  <2> QED
    BY <1>1, <1>2, <1>4, <2>1, <2>2, <2>4, <2>5
<1> QED
  BY <1>1, <1>2, <1>4, <1>6, <1>7

(* A point lookup in the derived manifest of a walk that ascends finds     *)
(* what the walk has, for every path and whatever the size of a block: the *)
(* one block that is read is the one that holds the path.                  *)
THEOREM DerivedLookupExact ==
    ASSUME NEW s \in Seq(Entries), Ascending(s), NEW p \in Paths
    PROVE  LookupDerived(s, p) = At(FilesOfStream(s), p)
<1> DEFINE before == {i \in Starts(s) : ~Before(p, s[i].path)}
           start  == Max(before)
           block  == {i \in DOMAIN s : i >= start /\ i < start + BlockEntries}
           found  == {i \in block : /\ s[i].path = p
                                    /\ \A j \in start..i : ~Before(p, s[j].path)}
<1>1. LookupDerived(s, p) =
        IF before = {} \/ found = {} THEN NoFile ELSE s[Min(found)].content
  BY DEF LookupDerived, Starts
<1>2. DOMAIN s = 1..Len(s) /\ Len(s) \in Nat
  OBVIOUS
<1>3. CASE \A l \in 1..Len(s) : s[l].path # p
  <2>1. found = {}
    BY <1>2, <1>3
  <2> QED
    BY <1>1, <1>3, <2>1, NoFileOfPath
<1>4. ASSUME NEW m \in 1..Len(s), s[m].path = p
      PROVE  LookupDerived(s, p) = At(FilesOfStream(s), p)
  <2>1. \A k \in 1..Len(s) : (k > m => Before(p, s[k].path))
                            /\ (k <= m => ~Before(p, s[k].path))
    <3> TAKE k \in 1..Len(s)
    <3>1. s[k].path \in Paths
      BY EntryOfStream
    <3>2. k > m => Before(p, s[k].path)
      BY <1>2, <1>4, AscendingPairs
    <3>3. k < m => Before(s[k].path, p)
      BY <1>2, <1>4, AscendingPairs
    <3> QED
      BY <1>2, <1>4, <3>1, <3>2, <3>3, OrderAssumption
  <2>2. PICK i \in Starts(s) :
            /\ i <= m /\ m < i + BlockEntries
            /\ \A j \in Starts(s) : i < j => i + BlockEntries <= j
    BY BlockOf
  <2>3. before \in SUBSET (0..Len(s)) /\ i \in before
    BY <1>2, <2>1, <2>2 DEF Starts
  <2>4. start \in before /\ i <= start
    BY <1>2, <2>3, GreatestNatural
  <2>5. start \in 1..Len(s) /\ start <= m
    BY <1>2, <2>1, <2>4 DEF Starts
  <2>6. i \in 1..Len(s) /\ BlockEntries \in Nat
    BY <1>2, BlockEntriesAssumption DEF Starts
  <2>7. start = i
    BY <1>2, <1>4, <2>2, <2>4, <2>5, <2>6
  <2> HIDE DEF start
  <2>8. m \in found
    BY <1>2, <1>4, <2>1, <2>2, <2>5, <2>6, <2>7
  <2>9. \A k \in found : k = m
    <3> TAKE k \in found
    <3>1. k \in 1..Len(s) /\ s[k].path = p
      BY <1>2
    <3>2. Len(s) \in Nat /\ (k < m \/ m < k \/ k = m)
      BY <3>1
    <3>3. k < m => Before(p, p)
      BY <1>4, <3>1, AscendingPairs
    <3>4. m < k => Before(p, p)
      BY <1>4, <3>1, AscendingPairs
    <3> QED
      BY <3>2, <3>3, <3>4, OrderAssumption
  <2> HIDE DEF found, before
  <2>10. Min(found) = m
    <3>1. found = {m}
      BY <2>8, <2>9
    <3> QED
      BY <3>1 DEF Min
  <2>11. LookupDerived(s, p) = s[m].content
    BY <1>1, <2>3, <2>8, <2>10
  <2> QED
    BY <1>4, <2>11, FileOfAscending
<1> QED
  BY <1>3, <1>4

-----------------------------------------------------------------------------
(* The overlay of staged changes *)

(* The entries of s before place n whose path is not removed.              *)
Stays(s, r, n, k) == k \in 1..(n - 1) /\ ~Removed(s[k].path, r)

StaysPath(s, r, n, p) == \E k : Stays(s, r, n, k) /\ s[k].path = p

Yields(o, p) == \E i \in 1..Len(o) : o[i].path = p

Follows(o, p, q) ==
    \E i, j \in 1..Len(o) : i < j /\ o[i].path = p /\ o[j].path = q

OverlayTypeOK ==
    /\ parent \in Seq(Entries)
    /\ staged \in Additions
    /\ parentAt \in 1..(Len(parent) + 1)
    /\ left \subseteq DOMAIN staged
    /\ output \in Seq(Entries)
    /\ built \in {"no", "tree", "unsorted"}

(* An entry of the output is a staged file, or one of the parent: a staged *)
(* path has the parent's content only when it comes twice.                 *)
FromStagedOrParent(s, r, n, a, o) ==
    \A i \in 1..Len(o) :
        \/ o[i].path \in DOMAIN a /\ o[i].content = a[o[i].path]
        \/ /\ \E k : /\ Stays(s, r, n, k)
                     /\ o[i].path = s[k].path /\ o[i].content = s[k].content
           /\ o[i].path \in DOMAIN a => Follows(o, o[i].path, o[i].path)

(* What was yielded: all that stays, in the parent's order, and additions, *)
(* of which those that took no entry's place come last.                    *)
AllThatStays(s, r, n, o) ==
    /\ \A k : Stays(s, r, n, k) => Yields(o, s[k].path)
    /\ \A k, m : Stays(s, r, n, k) /\ Stays(s, r, n, m) /\ k < m
                    => Follows(o, s[k].path, s[m].path)

AdditionsPlaced(s, r, n, a, l, o) ==
    /\ \A p \in l : ~Yields(o, p)
    /\ \A p \in DOMAIN a \ l :
          /\ Yields(o, p)
          /\ \/ StaysPath(s, r, n, p)
             \/ \A k : Stays(s, r, n, k) => Follows(o, s[k].path, p)
    /\ \A i \in 1..Len(o) :
          \/ StaysPath(s, r, n, o[i].path)
          \/ n > Len(s) /\ \A p \in l : Before(o[i].path, p)

Kept(s, r) == DOMAIN Without(FilesOfStream(s), r)

NewLast(s, r, a) == \A p \in DOMAIN a \ Kept(s, r), q \in Kept(s, r) : Before(q, p)

OutputAscends(s, r, a, o) ==
    Ascending(s) /\ NewLast(s, r, a) =>
        \A i, j \in 1..Len(o) : i < j => Before(o[i].path, o[j].path)

OverlayInv ==
    /\ OverlayTypeOK
    /\ FromStagedOrParent(parent, removed, parentAt, staged, output)
    /\ AllThatStays(parent, removed, parentAt, output)
    /\ AdditionsPlaced(parent, removed, parentAt, staged, left, output)
    /\ OutputAscends(parent, removed, staged, output)
    /\ built # "no" => /\ parentAt > Len(parent) /\ left = {}
                       /\ built = "tree" <=> Ascending(output)

(* An entry more in the output.                                            *)
LEMMA YieldOn ==
    ASSUME NEW o \in Seq(Entries), NEW e \in Entries
    PROVE  /\ Append(o, e) \in Seq(Entries)
           /\ Len(o) \in Nat /\ Len(Append(o, e)) = Len(o) + 1
           /\ \A i \in 1..Len(o) : Append(o, e)[i] = o[i]
           /\ Append(o, e)[Len(o) + 1] = e
           /\ \A p : Yields(Append(o, e), p) <=> Yields(o, p) \/ p = e.path
           /\ \A p, q : Follows(o, p, q) => Follows(Append(o, e), p, q)
           /\ \A p : Yields(o, p) => Follows(Append(o, e), p, e.path)
<1> DEFINE v == Append(o, e)
<1>1. /\ v \in Seq(Entries) /\ Len(o) \in Nat /\ Len(v) = Len(o) + 1
      /\ \A i \in 1..Len(o) : v[i] = o[i]
      /\ v[Len(o) + 1] = e
  OBVIOUS
<1> HIDE DEF v
<1>2. /\ \A i \in 1..Len(v) : i = Len(o) + 1 \/ i \in 1..Len(o)
      /\ \A i \in 1..Len(o) : i \in 1..Len(v) /\ i < Len(o) + 1
      /\ Len(o) + 1 \in 1..Len(v)
  BY <1>1
<1>3. \A p : Yields(v, p) <=> Yields(o, p) \/ p = e.path
  BY <1>1, <1>2 DEF Yields
<1>4. \A p, q : Follows(o, p, q) => Follows(v, p, q)
  BY <1>1, <1>2 DEF Follows
<1>5. \A p : Yields(o, p) => Follows(v, p, e.path)
  BY <1>1, <1>2 DEF Follows, Yields
<1> QED
  BY <1>1, <1>3, <1>4, <1>5 DEF v

(* What stays of the whole parent.                                         *)
LEMMA KeptPaths ==
    ASSUME NEW s \in Seq(Entries), NEW r, NEW p
    PROVE  p \in Kept(s, r) <=> StaysPath(s, r, Len(s) + 1, p)
<1>1. DOMAIN FilesOfStream(s) = {s[i].path : i \in 1..Len(s)}
  BY DEF FilesOfStream
<1>2. Kept(s, r) = {q \in DOMAIN FilesOfStream(s) : ~Removed(q, r)}
  BY DEF Kept, Without
<1>3. Len(s) + 1 - 1 = Len(s)
  OBVIOUS
<1> QED
  BY <1>1, <1>2, <1>3 DEF StaysPath, Stays

(* The entries that stay when one more is read.                            *)
LEMMA StaysOn ==
    ASSUME NEW s, NEW r, NEW n \in Nat, n >= 1
    PROVE  /\ \A k : Stays(s, r, n + 1, k) <=>
                        Stays(s, r, n, k) \/ (k = n /\ ~Removed(s[n].path, r))
           /\ \A k : Stays(s, r, n, k) => k < n
           /\ \A p : StaysPath(s, r, n + 1, p) <=>
                        \/ StaysPath(s, r, n, p)
                        \/ p = s[n].path /\ ~Removed(s[n].path, r)
<1>1. \A k : k \in 1..(n + 1 - 1) <=> k \in 1..(n - 1) \/ k = n
  OBVIOUS
<1>2. \A k : Stays(s, r, n + 1, k) <=>
                        Stays(s, r, n, k) \/ (k = n /\ ~Removed(s[n].path, r))
  BY <1>1 DEF Stays
<1>3. \A k : Stays(s, r, n, k) => k < n
  BY DEF Stays
<1> QED
  BY <1>2, <1>3 DEF StaysPath

(* The first of some paths, of which there are finitely many.              *)
LEMMA LeastPath ==
    ASSUME NEW P \in SUBSET Paths, P # {}, IsFiniteSet(P)
    PROVE  /\ FirstPath(P) \in P
           /\ \A q \in P : q = FirstPath(P) \/ Before(FirstPath(P), q)
<1> DEFINE B(p) == {q \in P : Before(q, p)}
           T == {Cardinality(B(p)) : p \in P}
<1>1. \A p \in P : IsFiniteSet(B(p)) /\ Cardinality(B(p)) \in Nat
  BY FS_Subset, FS_CardinalityType
<1>2. T \in SUBSET Nat /\ T # {}
  BY <1>1
<1>3. PICK x \in T : \A y \in T : x <= y
  <2> HIDE DEF T
  <2> QED
    BY <1>2, LeastNatural
<1>4. PICK p \in P : x = Cardinality(B(p))
  OBVIOUS
<1>5. ASSUME NEW q \in P, Before(q, p)
      PROVE  FALSE
  <2>1. B(q) \subseteq B(p) /\ q \in B(p) /\ q \notin B(q)
    BY <1>5, OrderAssumption
  <2>2. IsFiniteSet(B(p)) /\ Cardinality(B(p)) \in Nat /\ Cardinality(B(q)) \in Nat
    BY <1>1
  <2>3. Cardinality(B(p)) <= Cardinality(B(q))
    BY <1>3, <1>4
  <2> HIDE DEF B
  <2>4. /\ Cardinality(B(q)) <= Cardinality(B(p))
        /\ Cardinality(B(p)) = Cardinality(B(q)) => B(p) = B(q)
    BY <2>1, <2>2, FS_Subset
  <2> QED
    BY <2>1, <2>2, <2>3, <2>4
<1>6. FirstPath(P) \in P /\ \A q \in P : ~Before(q, FirstPath(P))
  BY <1>5 DEF FirstPath
<1> QED
  BY <1>6, OrderAssumption

(* Before the first entry.                                                 *)
LEMMA OverlayInitInv == OverlayInit => OverlayInv
<1> SUFFICES ASSUME OverlayInit PROVE OverlayInv
  OBVIOUS
<1>1. /\ parent \in Seq(Entries) /\ staged \in Additions /\ parentAt = 1
      /\ left = DOMAIN staged /\ output = <<>> /\ built = "no"
  BY StreamsAssumption DEF OverlayInit, Entries
<1>2. OverlayTypeOK
  BY <1>1 DEF OverlayTypeOK
<1>3. Len(output) = 0 /\ \A k : ~Stays(parent, removed, parentAt, k)
  BY <1>1 DEF Stays
<1>4. \A p : ~Yields(output, p)
  BY <1>3 DEF Yields
<1> QED
  BY <1>1, <1>2, <1>3, <1>4 DEF OverlayInv, FromStagedOrParent, AllThatStays,
     AdditionsPlaced, OutputAscends

(* An entry whose path is removed.                                         *)
LEMMA PassOverInv == OverlayInv /\ PassOver => OverlayInv'
<1> SUFFICES ASSUME OverlayInv, PassOver PROVE OverlayInv'
  OBVIOUS
<1>1. /\ parentAt <= Len(parent) /\ Removed(parent[parentAt].path, removed)
      /\ parentAt' = parentAt + 1 /\ parent' = parent /\ staged' = staged
      /\ removed' = removed /\ left' = left /\ output' = output /\ built' = built
  BY DEF PassOver, NextPath
<1>2. OverlayTypeOK /\ parentAt \in Nat /\ parentAt >= 1 /\ Len(parent) \in Nat
  BY DEF OverlayInv, OverlayTypeOK
<1>3. OverlayTypeOK'
  BY <1>1, <1>2 DEF OverlayTypeOK
<1>4. /\ \A k : Stays(parent, removed, parentAt + 1, k)
                    <=> Stays(parent, removed, parentAt, k)
      /\ \A p : StaysPath(parent, removed, parentAt + 1, p)
                    <=> StaysPath(parent, removed, parentAt, p)
  BY <1>1, <1>2, StaysOn
<1>5. FromStagedOrParent(parent, removed, parentAt + 1, staged, output)
  BY <1>4 DEF OverlayInv, FromStagedOrParent
<1>6. AllThatStays(parent, removed, parentAt + 1, output)
  BY <1>4 DEF OverlayInv, AllThatStays
<1>7. AdditionsPlaced(parent, removed, parentAt + 1, staged, left, output)
  <2>1. parentAt > Len(parent) => parentAt + 1 > Len(parent)
    BY <1>2
  <2> QED
    BY <1>4, <2>1 DEF OverlayInv, AdditionsPlaced
<1>8. built = "no" /\ OutputAscends(parent, removed, staged, output)
  BY <1>1, <1>2 DEF OverlayInv
<1> QED
  BY <1>1, <1>3, <1>5, <1>6, <1>7, <1>8 DEF OverlayInv

(* An entry that stays, or the addition of its path.                       *)
LEMMA YieldEntryInv == OverlayInv /\ YieldEntry => OverlayInv'
<1> SUFFICES ASSUME OverlayInv, YieldEntry PROVE OverlayInv'
  OBVIOUS
<1> DEFINE n == parentAt
           p == parent[n].path
           e == IF p \in left THEN File(p, staged[p]) ELSE parent[n]
           v == Append(output, e)
<1>1. /\ n <= Len(parent) /\ ~Removed(p, removed)
      /\ parentAt' = n + 1 /\ parent' = parent /\ staged' = staged
      /\ removed' = removed /\ left' = left \ {p} /\ output' = v /\ built' = built
  BY DEF YieldEntry, NextPath
<1>2. /\ parent \in Seq(Entries) /\ staged \in Additions /\ output \in Seq(Entries)
      /\ n \in Nat /\ n >= 1 /\ n \in 1..Len(parent) /\ Len(parent) \in Nat
      /\ left \subseteq DOMAIN staged
  BY <1>1 DEF OverlayInv, OverlayTypeOK
<1>3. /\ e \in Entries /\ e.path = p
      /\ p \in left => e.content = staged[p]
      /\ p \notin left => e.content = parent[n].content
  <2>1. parent[n] \in Entries /\ p \in Paths
    BY <1>2, EntryOfStream
  <2>2. p \in left => staged[p] \in Contents
    BY <1>2, AdditionsAssumption
  <2> QED
    BY <2>1, <2>2 DEF Entries, File
<1>4. /\ \A k : Stays(parent, removed, n + 1, k) <=>
                    Stays(parent, removed, n, k) \/ k = n
      /\ \A k : Stays(parent, removed, n, k) => k < n
      /\ \A q : StaysPath(parent, removed, n + 1, q) <=>
                    StaysPath(parent, removed, n, q) \/ q = p
  <2>1. /\ \A k : Stays(parent, removed, n + 1, k) <=>
              Stays(parent, removed, n, k) \/ (k = n /\ ~Removed(p, removed))
        /\ \A k : Stays(parent, removed, n, k) => k < n
        /\ \A q : StaysPath(parent, removed, n + 1, q) <=>
              StaysPath(parent, removed, n, q) \/ (q = p /\ ~Removed(p, removed))
    BY <1>2, StaysOn
  <2> QED
    BY <1>1, <2>1
<1>5. /\ FromStagedOrParent(parent, removed, n, staged, output)
      /\ AllThatStays(parent, removed, n, output)
      /\ AdditionsPlaced(parent, removed, n, staged, left, output)
      /\ OutputAscends(parent, removed, staged, output) /\ built = "no"
  BY <1>1, <1>2 DEF OverlayInv
<1> HIDE DEF n, p, e
<1>6. /\ v \in Seq(Entries) /\ Len(v) = Len(output) + 1 /\ Len(output) \in Nat
      /\ \A i \in 1..Len(output) : v[i] = output[i]
      /\ v[Len(output) + 1] = e
      /\ \A q : Yields(v, q) <=> Yields(output, q) \/ q = p
      /\ \A q, x : Follows(output, q, x) => Follows(v, q, x)
      /\ \A q : Yields(output, q) => Follows(v, q, p)
  BY <1>2, <1>3, YieldOn
<1> HIDE DEF v
<1>7. \A i \in 1..Len(v) : i = Len(output) + 1 \/ i \in 1..Len(output)
  BY <1>6
<1>8. OverlayTypeOK'
  BY <1>1, <1>2, <1>6 DEF OverlayInv, OverlayTypeOK
<1>9. FromStagedOrParent(parent, removed, n + 1, staged, v)
  <2>1. ASSUME NEW i \in 1..Len(output)
        PROVE  \/ v[i].path \in DOMAIN staged /\ v[i].content = staged[v[i].path]
               \/ /\ \E k : /\ Stays(parent, removed, n + 1, k)
                            /\ v[i].path = parent[k].path
                            /\ v[i].content = parent[k].content
                  /\ v[i].path \in DOMAIN staged => Follows(v, v[i].path, v[i].path)
    BY <1>4, <1>5, <1>6 DEF FromStagedOrParent
  <2>2. CASE p \in left
    BY <1>2, <1>3, <1>6, <1>7, <2>1, <2>2 DEF FromStagedOrParent
  <2>3. CASE p \notin left
    <3>1. p \in DOMAIN staged => Follows(v, p, p)
      BY <1>5, <1>6, <2>3 DEF AdditionsPlaced
    <3>2. Stays(parent, removed, n + 1, n) /\ e.path = parent[n].path
      BY <1>3, <1>4 DEF p
    <3> QED
      BY <1>3, <1>6, <1>7, <2>1, <2>3, <3>1, <3>2 DEF FromStagedOrParent
  <2> QED
    BY <2>2, <2>3
<1>10. AllThatStays(parent, removed, n + 1, v)
  <2>1. \A k : Stays(parent, removed, n + 1, k) => Yields(v, parent[k].path)
    BY <1>4, <1>5, <1>6 DEF AllThatStays, p
  <2>2. ASSUME NEW k, NEW m, Stays(parent, removed, n + 1, k),
               Stays(parent, removed, n + 1, m), k < m
        PROVE  Follows(v, parent[k].path, parent[m].path)
    <3>1. Stays(parent, removed, n, k)
      <4>1. m = n \/ m < n
        BY <1>4, <2>2
      <4>2. k # n
        BY <1>2, <1>4, <2>2, <4>1 DEF Stays
      <4> QED
        BY <1>4, <2>2, <4>2
    <3>2. CASE m = n
      BY <1>5, <1>6, <3>1, <3>2 DEF AllThatStays, p
    <3>3. CASE m # n
      BY <1>4, <1>5, <1>6, <2>2, <3>1, <3>3 DEF AllThatStays
    <3> QED
      BY <3>2, <3>3
  <2> QED
    BY <2>1, <2>2 DEF AllThatStays
<1>11. AdditionsPlaced(parent, removed, n + 1, staged, left \ {p}, v)
  <2>1. \A q \in left \ {p} : ~Yields(v, q)
    BY <1>5, <1>6 DEF AdditionsPlaced
  <2>2. ASSUME NEW i \in 1..Len(output)
        PROVE  StaysPath(parent, removed, n, output[i].path)
    BY <1>1, <1>2, <1>5 DEF AdditionsPlaced
  <2>3. ASSUME NEW q \in DOMAIN staged \ (left \ {p})
        PROVE  Yields(v, q) /\ StaysPath(parent, removed, n + 1, q)
    <3>1. CASE q = p
      BY <1>4, <1>6, <3>1
    <3>2. CASE q # p
      <4>1. Yields(output, q)
        BY <1>5, <2>3, <3>2 DEF AdditionsPlaced
      <4>2. StaysPath(parent, removed, n, q)
        BY <2>2, <4>1 DEF Yields
      <4> QED
        BY <1>4, <1>6, <4>1, <4>2
    <3> QED
      BY <3>1, <3>2
  <2>4. \A i \in 1..Len(v) : StaysPath(parent, removed, n + 1, v[i].path)
    BY <1>3, <1>4, <1>6, <1>7, <2>2
  <2> QED
    BY <2>1, <2>3, <2>4 DEF AdditionsPlaced
<1>12. OutputAscends(parent, removed, staged, v)
  <2>1. ASSUME Ascending(parent), NewLast(parent, removed, staged),
               NEW i \in 1..Len(v), NEW j \in 1..Len(v), i < j
        PROVE  Before(v[i].path, v[j].path)
    <3>1. i \in 1..Len(output)
      BY <1>6, <2>1
    <3>2. CASE j \in 1..Len(output)
      BY <1>5, <1>6, <2>1, <3>1, <3>2 DEF OutputAscends
    <3>3. CASE j = Len(output) + 1
      <4>1. StaysPath(parent, removed, n, output[i].path)
        BY <1>1, <1>2, <1>5, <3>1 DEF AdditionsPlaced
      <4>2. PICK k : Stays(parent, removed, n, k) /\ parent[k].path = output[i].path
        BY <4>1 DEF StaysPath
      <4>3. k \in 1..Len(parent) /\ k < n
        BY <1>2, <4>2 DEF Stays
      <4>4. Before(parent[k].path, parent[n].path)
        BY <1>2, <2>1, <4>3, AscendingPairs
      <4> QED
        BY <1>3, <1>6, <3>1, <3>3, <4>2, <4>4 DEF p
    <3> QED
      BY <1>7, <3>2, <3>3
  <2> QED
    BY <2>1 DEF OutputAscends
<1> QED
  BY <1>1, <1>5, <1>8, <1>9, <1>10, <1>11, <1>12 DEF OverlayInv

(* An addition that took no place.                                         *)
LEMMA YieldAdditionInv == OverlayInv /\ YieldAddition => OverlayInv'
<1> SUFFICES ASSUME OverlayInv, YieldAddition PROVE OverlayInv'
  OBVIOUS
<1> DEFINE n == parentAt
           p == FirstPath(left)
           e == File(p, staged[p])
           v == Append(output, e)
<1>1. /\ n > Len(parent) /\ left # {}
      /\ parentAt' = n /\ parent' = parent /\ staged' = staged
      /\ removed' = removed /\ left' = left \ {p} /\ output' = v /\ built' = built
  BY DEF YieldAddition
<1>2. /\ parent \in Seq(Entries) /\ staged \in Additions /\ output \in Seq(Entries)
      /\ n \in Nat /\ n = Len(parent) + 1 /\ left \subseteq DOMAIN staged
      /\ DOMAIN staged \subseteq Paths
  BY <1>1, AdditionsAssumption DEF OverlayInv, OverlayTypeOK
<1>3. p \in left /\ \A q \in left : q = p \/ Before(p, q)
  <2>1. left \in SUBSET Paths /\ IsFiniteSet(left)
    BY <1>2, AdditionsAssumption, FS_Subset
  <2> QED
    BY <1>1, <2>1, LeastPath
<1>4. e \in Entries /\ e.path = p /\ e.content = staged[p] /\ p \in DOMAIN staged
  <2>1. p \in Paths /\ staged[p] \in Contents
    BY <1>2, <1>3, AdditionsAssumption
  <2> QED
    BY <1>2, <1>3, <2>1 DEF Entries, File
<1>5. /\ FromStagedOrParent(parent, removed, n, staged, output)
      /\ AllThatStays(parent, removed, n, output)
      /\ AdditionsPlaced(parent, removed, n, staged, left, output)
      /\ OutputAscends(parent, removed, staged, output) /\ built = "no"
  BY <1>1 DEF OverlayInv
<1> HIDE DEF n, p, e
<1>6. /\ v \in Seq(Entries) /\ Len(v) = Len(output) + 1 /\ Len(output) \in Nat
      /\ \A i \in 1..Len(output) : v[i] = output[i]
      /\ v[Len(output) + 1] = e
      /\ \A q : Yields(v, q) <=> Yields(output, q) \/ q = p
      /\ \A q, x : Follows(output, q, x) => Follows(v, q, x)
      /\ \A q : Yields(output, q) => Follows(v, q, p)
  BY <1>2, <1>4, YieldOn
<1> HIDE DEF v
<1>7. \A i \in 1..Len(v) : i = Len(output) + 1 \/ i \in 1..Len(output)
  BY <1>6
<1>8. OverlayTypeOK'
  BY <1>1, <1>2, <1>6 DEF OverlayInv, OverlayTypeOK
<1>9. FromStagedOrParent(parent, removed, n, staged, v)
  BY <1>4, <1>5, <1>6, <1>7 DEF FromStagedOrParent
<1>10. AllThatStays(parent, removed, n, v)
  BY <1>5, <1>6 DEF AllThatStays
<1>11. AdditionsPlaced(parent, removed, n, staged, left \ {p}, v)
  <2>1. \A q \in left \ {p} : ~Yields(v, q)
    BY <1>5, <1>6 DEF AdditionsPlaced
  <2>2. ASSUME NEW q \in DOMAIN staged \ (left \ {p})
        PROVE  /\ Yields(v, q)
               /\ \/ StaysPath(parent, removed, n, q)
                  \/ \A k : Stays(parent, removed, n, k) =>
                        Follows(v, parent[k].path, q)
    <3>1. CASE q = p
      <4>1. \A k : Stays(parent, removed, n, k) => Yields(output, parent[k].path)
        BY <1>5 DEF AllThatStays
      <4> QED
        BY <1>6, <3>1, <4>1
    <3>2. CASE q # p
      <4>1. q \in DOMAIN staged \ left
        BY <2>2, <3>2
      <4> QED
        BY <1>5, <1>6, <4>1 DEF AdditionsPlaced
    <3> QED
      BY <3>1, <3>2
  <2>3. ASSUME NEW i \in 1..Len(v)
        PROVE  \/ StaysPath(parent, removed, n, v[i].path)
               \/ n > Len(parent) /\ \A q \in left \ {p} : Before(v[i].path, q)
    <3>1. CASE i = Len(output) + 1
      BY <1>1, <1>3, <1>4, <1>6, <3>1
    <3>2. CASE i \in 1..Len(output)
      BY <1>5, <1>6, <3>2 DEF AdditionsPlaced
    <3> QED
      BY <1>7, <3>1, <3>2
  <2> QED
    BY <2>1, <2>2, <2>3 DEF AdditionsPlaced
<1>12. OutputAscends(parent, removed, staged, v)
  <2>1. ASSUME Ascending(parent), NewLast(parent, removed, staged),
               NEW i \in 1..Len(v), NEW j \in 1..Len(v), i < j
        PROVE  Before(v[i].path, v[j].path)
    <3>1. i \in 1..Len(output)
      BY <1>6, <2>1
    <3>2. CASE j \in 1..Len(output)
      BY <1>5, <1>6, <2>1, <3>1, <3>2 DEF OutputAscends
    <3>3. CASE j = Len(output) + 1
      <4>1. p \notin Kept(parent, removed)
        <5>1. ~StaysPath(parent, removed, n, p)
          BY <1>3, <1>5 DEF AdditionsPlaced, AllThatStays, StaysPath
        <5> QED
          BY <1>2, <5>1, KeptPaths
      <4>2. CASE StaysPath(parent, removed, n, output[i].path)
        <5>1. output[i].path \in Kept(parent, removed)
          BY <1>2, <4>2, KeptPaths
        <5> QED
          BY <1>4, <1>6, <2>1, <3>1, <3>3, <4>1, <5>1 DEF NewLast
      <4>3. CASE \A q \in left : Before(output[i].path, q)
        BY <1>3, <1>4, <1>6, <3>1, <3>3, <4>3
      <4> QED
        BY <1>5, <3>1, <4>2, <4>3 DEF AdditionsPlaced
    <3> QED
      BY <1>7, <3>2, <3>3
  <2> QED
    BY <2>1 DEF OutputAscends
<1> QED
  BY <1>1, <1>5, <1>8, <1>9, <1>10, <1>11, <1>12 DEF OverlayInv

(* Every step keeps the invariant.                                         *)
LEMMA OverlayStep == OverlayInv /\ [OverlayNext]_overlayVars => OverlayInv'
<1> SUFFICES ASSUME OverlayInv, [OverlayNext]_overlayVars PROVE OverlayInv'
  OBVIOUS
<1>1. CASE PassOver
  BY <1>1, PassOverInv
<1>2. CASE YieldEntry
  BY <1>2, YieldEntryInv
<1>3. CASE YieldAddition
  BY <1>3, YieldAdditionInv
<1>4. CASE BuildTree
  <2>1. /\ parentAt > Len(parent) /\ left = {}
        /\ built' = IF Ascending(output) THEN "tree" ELSE "unsorted"
        /\ parent' = parent /\ staged' = staged /\ removed' = removed
        /\ parentAt' = parentAt /\ left' = left /\ output' = output
    BY <1>4 DEF BuildTree
  <2>2. OverlayTypeOK'
    BY <2>1 DEF OverlayInv, OverlayTypeOK
  <2>3. built' = "tree" <=> Ascending(output)
    BY <2>1
  <2> QED
    BY <2>1, <2>2, <2>3 DEF OverlayInv
<1>5. CASE UNCHANGED overlayVars
  BY <1>5 DEF overlayVars, OverlayInv, OverlayTypeOK
<1> QED
  BY <1>1, <1>2, <1>3, <1>4, <1>5 DEF OverlayNext

(* When all was yielded and ascends, its files are those of the commit to  *)
(* come.                                                                   *)
LEMMA OverlayFiles ==
    ASSUME OverlayInv, built = "tree"
    PROVE  FilesOfStream(output) = Staged(FilesOfStream(parent), staged, removed)
<1> DEFINE n == Len(parent) + 1
           f == FilesOfStream(output)
           b == FilesOfStream(parent)
<1>1. /\ parent \in Seq(Entries) /\ output \in Seq(Entries) /\ parentAt = n
      /\ left = {} /\ Ascending(output)
  BY DEF OverlayInv, OverlayTypeOK
<1>2. /\ FromStagedOrParent(parent, removed, n, staged, output)
      /\ AllThatStays(parent, removed, n, output)
      /\ AdditionsPlaced(parent, removed, n, staged, {}, output)
  BY <1>1 DEF OverlayInv
<1> HIDE DEF n
<1>3. \A p, q : Follows(output, p, q) => Before(p, q) /\ p \in Paths
  BY <1>1, AscendingPairs, EntryOfStream DEF Follows
<1>4. \A p : ~Follows(output, p, p)
  BY <1>3, OrderAssumption
<1>5. \A p : p \in DOMAIN f <=> Yields(output, p)
  BY <1>1 DEF FilesOfStream, Yields
<1>6. \A p : p \in Kept(parent, removed) <=> StaysPath(parent, removed, n, p)
  BY <1>1, KeptPaths DEF n
<1>7. \A p : Yields(output, p) <=> p \in DOMAIN staged \/ p \in Kept(parent, removed)
  <2>1. ASSUME NEW p, Yields(output, p)
        PROVE  p \in DOMAIN staged \/ p \in Kept(parent, removed)
    <3>1. PICK i \in 1..Len(output) : output[i].path = p
      BY <2>1 DEF Yields
    <3> QED
      BY <1>2, <1>6, <3>1 DEF FromStagedOrParent, StaysPath
  <2>2. \A p \in DOMAIN staged : Yields(output, p)
    BY <1>2 DEF AdditionsPlaced
  <2>3. \A p \in Kept(parent, removed) : Yields(output, p)
    BY <1>2, <1>6 DEF AllThatStays, StaysPath
  <2> QED
    BY <2>1, <2>2, <2>3
<1>8. ASSUME NEW p \in DOMAIN f
      PROVE  f[p] = IF p \in DOMAIN staged THEN staged[p] ELSE b[p]
  <2>1. PICK i \in 1..Len(output) : output[i].path = p
    BY <1>5 DEF Yields
  <2>2. f[p] = output[i].content
    BY <1>1, <1>8, <2>1, FileOfAscending DEF At
  <2>3. CASE p \in DOMAIN staged
    BY <1>2, <1>4, <2>1, <2>2, <2>3 DEF FromStagedOrParent
  <2>4. CASE p \notin DOMAIN staged
    <3>1. PICK k : Stays(parent, removed, n, k) /\ p = parent[k].path
                   /\ output[i].content = parent[k].content
      BY <1>2, <2>1, <2>4 DEF FromStagedOrParent
    <3>2. k \in 1..Len(parent) /\ ~Removed(p, removed)
      BY <1>1, <3>1 DEF Stays, n
    <3>3. ASSUME NEW l \in 1..Len(parent), parent[l].path = parent[k].path
          PROVE  l = k
      <4>1. Stays(parent, removed, n, l)
        BY <1>1, <3>1, <3>2, <3>3 DEF Stays, n
      <4>2. ~(l < k) /\ ~(k < l)
        BY <1>2, <1>4, <3>1, <3>3, <4>1 DEF AllThatStays
      <4> QED
        BY <1>1, <3>2, <4>2
    <3>4. p \in DOMAIN b /\ At(b, p) = parent[k].content
      BY <1>1, <3>1, <3>2, <3>3, FileOfEntry
    <3> QED
      BY <2>2, <2>4, <3>1, <3>4 DEF At
  <2> QED
    BY <2>3, <2>4
<1>9. DOMAIN f = DOMAIN staged \cup Kept(parent, removed)
  BY <1>5, <1>7
<1>10. f = [p \in DOMAIN f |-> f[p]]
  BY DEF FilesOfStream
<1> DEFINE w == Without(b, removed)
<1>11. /\ DOMAIN w = Kept(parent, removed)
       /\ \A p \in DOMAIN w : w[p] = b[p]
  BY DEF Without, Kept
<1>12. Staged(b, staged, removed)
          = [p \in DOMAIN staged \cup DOMAIN w |-> IF p \in DOMAIN staged THEN staged[p] ELSE w[p]]
  BY DEF Staged, Over
<1> HIDE DEF f, b, w
<1>13. f = [p \in DOMAIN staged \cup DOMAIN w |-> IF p \in DOMAIN staged THEN staged[p] ELSE w[p]]
  BY <1>8, <1>9, <1>10, <1>11
<1> QED
  BY <1>12, <1>13 DEF f, b

(* Over a walk that ascends the output ascends exactly when the new paths  *)
(* come last.                                                              *)
LEMMA OverlayRefuses ==
    ASSUME OverlayInv, built # "no", Ascending(parent)
    PROVE  built = "tree" <=> NewLast(parent, removed, staged)
<1> DEFINE n == Len(parent) + 1
<1>1. /\ parent \in Seq(Entries) /\ output \in Seq(Entries) /\ parentAt = n
      /\ left = {} /\ (built = "tree" <=> Ascending(output))
  BY DEF OverlayInv, OverlayTypeOK
<1>2. AdditionsPlaced(parent, removed, n, staged, {}, output)
  BY <1>1 DEF OverlayInv
<1> HIDE DEF n
<1>3. \A p : p \in Kept(parent, removed) <=> StaysPath(parent, removed, n, p)
  BY <1>1, KeptPaths DEF n
<1>4. ASSUME NewLast(parent, removed, staged)
      PROVE  Ascending(output)
  <2>1. \A i, j \in 1..Len(output) : i < j => Before(output[i].path, output[j].path)
    BY <1>4 DEF OverlayInv, OutputAscends
  <2>2. \A i \in 1..(Len(output) - 1) :
           i \in 1..Len(output) /\ i + 1 \in 1..Len(output) /\ i < i + 1
    BY <1>1
  <2> QED
    BY <2>1, <2>2 DEF Ascending
<1>5. ASSUME Ascending(output), NEW p \in DOMAIN staged \ Kept(parent, removed),
             NEW q \in Kept(parent, removed)
      PROVE  Before(q, p)
  <2>1. PICK k : Stays(parent, removed, n, k) /\ parent[k].path = q
    BY <1>3 DEF StaysPath
  <2>2. Follows(output, q, p)
    BY <1>2, <1>3, <1>5, <2>1 DEF AdditionsPlaced
  <2> QED
    BY <1>1, <1>5, <2>2, AscendingPairs DEF Follows
<1> QED
  BY <1>1, <1>4, <1>5 DEF NewLast

(* A staged commit over any parent that gets a tree gets the files of the  *)
(* commit to come, and over a walk that ascends it is refused exactly when *)
(* a new path comes before one that stays (overlay_staged yields the new   *)
(* paths last).                                                            *)
THEOREM OverlayIsStagedCommit == OverlaySpec => []OverlayExact
<1>1. OverlayInv => OverlayExact
  <2> SUFFICES ASSUME OverlayInv PROVE OverlayExact
    OBVIOUS
  <2>1. built = "tree" => FilesOfStream(output)
                            = Staged(FilesOfStream(parent), staged, removed)
    BY OverlayFiles
  <2>2. built # "no" /\ Ascending(parent) =>
            (built = "tree" <=> NewLast(parent, removed, staged))
    BY OverlayRefuses
  <2> QED
    BY <2>1, <2>2 DEF OverlayExact, NewLast, Kept
<1> QED
  BY OverlayInitInv, OverlayStep, <1>1, PTL DEF OverlaySpec
=============================================================================
