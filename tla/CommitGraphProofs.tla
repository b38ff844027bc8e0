------------------------- MODULE CommitGraphProofs -------------------------
(***************************************************************************)
(* What holds of every graph of commits in which each is written after its *)
(* parents: its chains, its generations and the walks over first parents.  *)
(***************************************************************************)
EXTENDS CommitGraph, TLAPS

(* Commit objects name only older ones; a chain starts at its own commit,  *)
(* is closed under taking chains, and generations fall along it.           *)
GraphOK(objs) ==
    \A i \in 1 .. Len(objs) :
        /\ objs[i].first < i /\ objs[i].second < i
        /\ i \in objs[i].chain
        /\ objs[i].chain \subseteq 1 .. i
        /\ \A x \in objs[i].chain :
              /\ objs[x].chain \subseteq objs[i].chain
              /\ x # i => objs[x].generation < objs[i].generation

Commits(objs) == {NoCommit} \cup 1 .. Len(objs)

----------------------------------------------------------------------------
(* Lemmas about histories                                                  *)

(* The store only grows: a commit keeps its contents. *)
Prefix(objs, objs2) ==
    /\ Len(objs) <= Len(objs2)
    /\ \A i \in 1 .. Len(objs) : objs2[i] = objs[i]

Value(objs) == {Missing} \cup Commits(objs)

(* Writing more commits takes nothing from a history. *)
LEMMA ExtendsPrefix ==
    ASSUME NEW objs \in Seq(CommitObject), NEW objs2 \in Seq(CommitObject),
           Prefix(objs, objs2), NEW v, NEW w \in Value(objs),
           Extends(objs, v, w)
    PROVE  Extends(objs2, v, w)
  BY DEF Prefix, Value, Commits, Extends, Chain, NoCommit, Missing

(* A head has its own history. *)
LEMMA ExtendsReflexive ==
    ASSUME NEW objs \in Seq(CommitObject), GraphOK(objs), NEW v \in Value(objs)
    PROVE  Extends(objs, v, v)
  BY DEF GraphOK, Value, Commits, Extends, Chain, NoCommit, Missing

(* A later head of a later head is a later head. *)
LEMMA ExtendsTransitive ==
    ASSUME NEW objs \in Seq(CommitObject), GraphOK(objs),
           NEW u, NEW v \in Value(objs), NEW w \in Value(objs),
           Extends(objs, u, v), Extends(objs, v, w)
    PROVE  Extends(objs, u, w)
  <1>1. CASE u = Missing
    BY <1>1 DEF Extends
  <1>2. CASE u = NoCommit /\ v # Missing
    BY <1>2 DEF Extends, Chain, Value, Commits, NoCommit, Missing
  <1>3. CASE u \in Chain(objs, v)
    <2>1. v \in 1 .. Len(objs) /\ u \in objs[v].chain
      BY <1>3 DEF Chain
    <2>2. v \in Chain(objs, w)
      BY <2>1 DEF Extends, NoCommit, Missing
    <2>3. w \in 1 .. Len(objs) /\ v \in objs[w].chain
      BY <2>2 DEF Chain
    <2>4. objs[v].chain \subseteq objs[w].chain
      BY <2>3 DEF GraphOK
    <2> QED
      BY <2>1, <2>3, <2>4 DEF Extends, Chain
  <1> QED
    BY <1>1, <1>2, <1>3 DEF Extends

(* A commit's history does not change when others are written.             *)
LEMMA ChainPrefix ==
    ASSUME NEW objs \in Seq(CommitObject), NEW objs2 \in Seq(CommitObject),
           Prefix(objs, objs2), NEW v \in Value(objs)
    PROVE  Chain(objs2, v) = Chain(objs, v)
  BY DEF Prefix, Value, Commits, Chain, NoCommit, Missing

(* The history of a later head contains that of an earlier one.            *)
LEMMA ChainGrows ==
    ASSUME NEW objs \in Seq(CommitObject), GraphOK(objs),
           NEW v \in Value(objs), NEW w \in Value(objs), Extends(objs, v, w)
    PROVE  Chain(objs, v) \subseteq Chain(objs, w)
  <1>1. CASE v \in {Missing, NoCommit}
    BY <1>1 DEF Chain, Missing, NoCommit
  <1>2. CASE v \in Chain(objs, w)
    BY <1>2 DEF Chain, GraphOK
  <1> QED
    BY <1>1, <1>2 DEF Extends

(* is_ancestor answers what the walk over first parents answers. *)
LEMMA ShortcutAgrees ==
    ASSUME NEW objs \in Seq(CommitObject), GraphOK(objs),
           NEW a \in 1 .. Len(objs), NEW d \in 1 .. Len(objs)
    PROVE  IsAncestor(objs, a, d) <=> a \in objs[d].chain
  <1>1. objs[a] \in CommitObject /\ objs[d] \in CommitObject
    OBVIOUS
  <1>2. d \in objs[d].chain
    BY DEF GraphOK
  <1>3. a \in objs[d].chain /\ a # d => objs[a].generation < objs[d].generation
    BY DEF GraphOK
  <1>4. objs[a].generation \in Nat /\ objs[d].generation \in Nat
    BY <1>1 DEF CommitObject
  <1>5. CASE objs[d].generation < objs[a].generation
    BY <1>3, <1>4, <1>5 DEF IsAncestor
  <1>6. CASE objs[d].generation = objs[a].generation
    BY <1>2, <1>3, <1>4, <1>6 DEF IsAncestor
  <1>7. CASE objs[d].generation > objs[a].generation
    BY <1>4, <1>7 DEF IsAncestor
  <1> QED
    BY <1>4, <1>5, <1>6, <1>7

(* Appending a commit whose parents are in the store keeps the graph. *)
LEMMA NewCommitKeepsGraph ==
    ASSUME NEW objs \in Seq(CommitObject), GraphOK(objs),
           NEW p \in Commits(objs), NEW q \in Commits(objs)
    PROVE  /\ NewCommit(objs, p, q) \in CommitObject
           /\ Append(objs, NewCommit(objs, p, q)) \in Seq(CommitObject)
           /\ Prefix(objs, Append(objs, NewCommit(objs, p, q)))
           /\ GraphOK(Append(objs, NewCommit(objs, p, q)))
  <1> DEFINE n == Len(objs) + 1
             o == NewCommit(objs, p, q)
             objs2 == Append(objs, o)
  <1>1. \A i \in 1 .. Len(objs) : objs[i] \in CommitObject
    OBVIOUS
  <1>0. \A i \in 1 .. Len(objs) :
           /\ objs[i].generation \in Nat
           /\ objs[i].chain \in SUBSET Nat
           /\ objs[i].ancestry \in SUBSET Nat
    BY <1>1 DEF CommitObject
  <1>2. Generation(objs, p, q) \in Nat
    <2>2. CASE p = NoCommit
      BY <2>2 DEF Generation
    <2>3. CASE p # NoCommit /\ q = NoCommit
      BY <1>0, <2>3 DEF Generation, Commits
    <2>4. CASE p # NoCommit /\ q # NoCommit
      BY <1>0, <2>4 DEF Generation, Commits
    <2> QED
      BY <2>2, <2>3, <2>4
  <1>3. Chain(objs, p) \in SUBSET Nat /\ Ancestry(objs, p) \in SUBSET Nat
                                      /\ Ancestry(objs, q) \in SUBSET Nat
    BY <1>0 DEF Chain, Ancestry
  <1>4. o \in CommitObject
    <2>1. n \in Nat /\ p \in Nat /\ q \in Nat
      BY DEF Commits, NoCommit
    <2> QED
      BY <1>2, <1>3, <2>1 DEF NewCommit, CommitObject
  <1>5. objs2 \in Seq(CommitObject) /\ Len(objs2) = n /\ objs2[n] = o
        /\ \A i \in 1 .. Len(objs) : objs2[i] = objs[i]
    BY <1>4
  <1>6. Prefix(objs, objs2)
    BY <1>5 DEF Prefix
  <1>7. GraphOK(objs2)
    <2> SUFFICES ASSUME NEW i \in 1 .. n
                 PROVE  /\ objs2[i].first < i /\ objs2[i].second < i
                        /\ i \in objs2[i].chain
                        /\ objs2[i].chain \subseteq 1 .. i
                        /\ \A x \in objs2[i].chain :
                              /\ objs2[x].chain \subseteq objs2[i].chain
                              /\ x # i => objs2[x].generation < objs2[i].generation
      BY <1>5 DEF GraphOK
    <2>1. CASE i \in 1 .. Len(objs)
      <3>1. objs2[i] = objs[i] /\ objs[i].chain \subseteq 1 .. i
        BY <1>5, <2>1 DEF GraphOK
      <3>2. \A x \in objs[i].chain : x \in 1 .. Len(objs) /\ objs2[x] = objs[x]
        BY <1>5, <2>1, <3>1
      <3> QED
        BY <2>1, <3>1, <3>2 DEF GraphOK
    <2>2. CASE i = n
      <3>1. objs2[i] = o /\ o.first = p /\ o.second = q
            /\ o.chain = {n} \cup Chain(objs, p)
            /\ o.generation = Generation(objs, p, q)
        BY <1>5, <2>2 DEF NewCommit
      <3>2. o.first < i /\ o.second < i
        BY <3>1, <2>2 DEF Commits, NoCommit
      <3>3. CASE p = NoCommit
        <4>1. Chain(objs, p) = {}
          BY <3>3 DEF Chain, NoCommit
        <4> QED
          BY <3>1, <3>2, <4>1, <2>2
      <3>4. CASE p \in 1 .. Len(objs)
        <4>1. Chain(objs, p) = objs[p].chain /\ objs[p].chain \subseteq 1 .. p
          BY <3>4 DEF Chain, GraphOK
        <4>2. \A x \in objs[p].chain : x \in 1 .. Len(objs) /\ x # n /\ objs2[x] = objs[x]
          BY <4>1, <3>4, <1>5
        <4>3. \A x \in objs[p].chain : objs[x].chain \subseteq objs[p].chain
          BY <3>4 DEF GraphOK
        <4>4. \A x \in objs[p].chain : objs[x].generation <= objs[p].generation
          BY <3>4, <4>2, <1>0 DEF GraphOK
        <4>5. objs[p].generation < o.generation
          <5>1. p # NoCommit
            BY <3>4 DEF NoCommit
          <5>2. CASE q = NoCommit
            BY <3>1, <3>4, <5>1, <5>2, <1>0 DEF Generation
          <5>3. CASE q \in 1 .. Len(objs)
            BY <3>1, <3>4, <5>1, <5>3, <1>0 DEF Generation
          <5> QED
            BY <5>2, <5>3 DEF Commits
        <4>6. \A x \in objs[p].chain : objs[x].generation < o.generation
          BY <4>2, <4>4, <4>5, <1>0, <1>2, <3>1, <3>4
        <4> QED
          BY <3>1, <3>2, <4>1, <4>2, <4>3, <4>6, <2>2
      <3> QED
        BY <3>3, <3>4 DEF Commits
    <2> QED
      BY <2>1, <2>2
  <1> QED
    BY <1>4, <1>5, <1>6, <1>7

(* Of two commits on a chain the older is on the chain of the newer.       *)
Linear(objs) ==
    \A i \in 1 .. Len(objs) : \A x, y \in objs[i].chain :
        x <= y => x \in objs[y].chain

LEMMA NewCommitKeepsLinear ==
    ASSUME NEW objs \in Seq(CommitObject), GraphOK(objs), Linear(objs),
           NEW p \in Commits(objs), NEW q \in Commits(objs)
    PROVE  Linear(Append(objs, NewCommit(objs, p, q)))
  <1> DEFINE n == Len(objs) + 1
             objs2 == Append(objs, NewCommit(objs, p, q))
  <1>1. /\ Len(objs2) = n
        /\ objs2[n].chain = {n} \cup Chain(objs, p)
        /\ \A i \in 1 .. Len(objs) : objs2[i] = objs[i]
    BY NewCommitKeepsGraph DEF NewCommit
  <1>2. \A i \in 1 .. Len(objs) : objs[i].chain \subseteq 1 .. Len(objs)
    BY DEF GraphOK
  <1> HIDE DEF objs2
  <1> SUFFICES ASSUME NEW i \in 1 .. n, NEW x \in objs2[i].chain,
                      NEW y \in objs2[i].chain, x <= y
               PROVE  x \in objs2[y].chain
    BY <1>1 DEF Linear, objs2
  <1>3. CASE i \in 1 .. Len(objs)
    <2>1. x \in objs[y].chain /\ y \in 1 .. Len(objs)
      BY <1>1, <1>2, <1>3 DEF Linear
    <2> QED
      BY <1>1, <2>1
  <1>4. CASE i = n
    <2>1. x \in {n} \cup Chain(objs, p) /\ y \in {n} \cup Chain(objs, p)
      BY <1>1, <1>4
    <2>2. CASE y = n
      BY <1>1, <2>1, <2>2
    <2>3. CASE y # n
      <3>1. p \in 1 .. Len(objs) /\ y \in objs[p].chain
        BY <2>1, <2>3 DEF Chain
      <3>2. y \in 1 .. Len(objs) /\ x # n
        BY <1>2, <3>1
      <3>3. x \in objs[p].chain
        BY <2>1, <3>1, <3>2 DEF Chain
      <3>4. x \in objs[y].chain
        BY <3>1, <3>3 DEF Linear
      <3> QED
        BY <1>1, <3>2, <3>4
    <2> QED
      BY <2>2, <2>3
  <1> QED
    BY <1>3, <1>4
=============================================================================
