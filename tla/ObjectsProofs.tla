--------------------------- MODULE ObjectsProofs ---------------------------
(***************************************************************************)
(* Proofs about the object store, its writers and gc, for any graph of     *)
(* commits and trees and any number of processes and branches.             *)
(***************************************************************************)
EXTENDS Objects, TLAPS

----------------------------------------------------------------------------
(* The inductive invariant                                                 *)

Running == gc.pc # "idle"

Closed(c) ==
    /\ \A o \in Content(c) : Exists(o)
    /\ FirstParent(c) # NoCommit => Exists(FirstParent(c))

(* A torn object has a writer that will finish it, or had one that died.   *)
TornInv ==
    \A o \in Object : stored[o] = "torn" =>
        /\ store = "local"
        /\ \/ o \in cut
           \/ \E p \in Procs : work[p].pc = "write" /\ work[p].at = o /\ ~work[p].spoiled

(* Where a command stands, whatever the store has.  All that is still to   *)
(* be written belongs to a commit that is.                                 *)
WorkShape(w) ==
    /\ w = Idle \/ (w.op # "none" /\ w.pc # "idle" /\ w.commit \in Commits)
    /\ \A o \in w.todo : \E d \in w.todo \cap Commits : o \in {d} \cup Content(d)
    /\ w.pc \in {"open", "write"} =>
          /\ store = "local" /\ w.at \in w.todo
          /\ w.at \in Commits => w.todo \cap Content(w.at) = {}
    /\ w.spoiled => w.pc = "write"
    /\ w.pc \in {"swap", "ref"} => store = "local"
    /\ w.pc \in {"cas", "swap", "ref"} => w.todo = {}
    /\ w.op = "commit" => w.exp = FirstParent(w.commit)
    /\ w.pc = "cas" => w.exp \in Chain[w.commit] \cup {NoCommit}

(* What a command relies on: all that its commits need is there or is      *)
(* still to be written.                                                    *)
WorkSafe(w) ==
    w # Idle =>
        /\ w.commit \in w.todo \/ Exists(w.commit)
        /\ \A d \in w.todo \cap Commits :
              /\ \A o \in Content(d) : Exists(o) \/ o \in w.todo
              /\ FirstParent(d) # NoCommit =>
                    Exists(FirstParent(d)) \/ FirstParent(d) \in w.todo
        /\ w.pc \in {"open", "write"} /\ w.at \in Commits => Closed(w.at)
        /\ w.pc = "write" => Exists(w.at)

(* gc runs alone or knows that it does not.                                *)
GcShape ==
    /\ ~Running => gc = NoGc
    /\ store = "local" /\ Running => gc.alone
    /\ Running /\ gc.alone => heads = gc.began /\ \A p \in Procs : work[p] = Idle
    /\ gc.pc # "sweep" => gc.orphans = {}
    /\ gc.pc = "sweep" => gc.todo = {}
    /\ gc.orphans \cap gc.reached = {}
    /\ gc.pc = "mark" /\ gc.clean => ~risk
    /\ ~risk => gc.clean

(* What is marked: the history of each branch that had its turn; a branch  *)
(* that waits for its turn has only moved forward.                         *)
MarkInv ==
    Running /\ gc.clean =>
        /\ \A b \in Branches \ gc.todo : History(gc.began[b]) \subseteq gc.reached
        /\ \A b \in gc.todo :
              \/ gc.began[b] \in {Missing, NoCommit}
              \/ heads[b] \in Commits /\ gc.began[b] \in Chain[heads[b]]
        /\ \A c \in gc.reached \cap Commits :
              /\ Content(c) \subseteq gc.reached
              /\ FirstParent(c) # NoCommit => FirstParent(c) \in gc.reached

Unlisted(kinds) == UNION {OfKind(kinds[i]) : i \in DOMAIN kinds}

(* What is swept: all that is there is reached, listed or yet to be listed,*)
(* and commits are listed first.                                           *)
SweepInv ==
    /\ Running /\ gc.alone =>
          gc.reached \subseteq UNION {History(heads[b]) : b \in Branches}
    /\ gc.pc = "sweep" =>
          \/ Commits \cap Unlisted(gc.kinds) = {}
          \/ gc.kinds = Kinds /\ gc.orphans = {}
    /\ gc.pc = "sweep" /\ gc.alone =>
          \A o \in Object : Exists(o) =>
              o \in gc.reached \cup gc.orphans \cup Unlisted(gc.kinds)

ShapeInv ==
    /\ TypeOK
    /\ TornInv
    /\ \A p \in Procs : WorkShape(work[p])
    /\ GcShape

(* Commits are closed, but for the orphans that a gc with the repository   *)
(* to itself is about to delete; heads are there; commands are safe.       *)
SafeInv ==
    ~risk =>
        /\ \A c \in Commits : Exists(c) => Closed(c) \/ (gc.alone /\ c \in gc.orphans)
        /\ \A b \in Branches : heads[b] \in Commits => Exists(heads[b])
        /\ \A p \in Procs : WorkSafe(work[p])

IInv == ShapeInv /\ MarkInv /\ SweepInv /\ SafeInv

----------------------------------------------------------------------------
(* The walks                                                               *)

(* What every set that has all that t holds, and all that its trees hold,  *)
(* has: the least solution of the equation of Below.                       *)
LeastBelow(t) ==
    {o \in Object :
        \A S \in SUBSET Object :
            Holds[t] \subseteq S /\ (\A s \in S \cap Trees : Holds[s] \subseteq S)
            => o \in S}

LEMMA LeastBelowSolves ==
    ASSUME NEW t \in Trees
    PROVE  LeastBelow(t)
           = Holds[t] \cup UNION {LeastBelow(s) : s \in Holds[t] \cap Trees}
  <1> DEFINE X == Holds[t] \cup UNION {LeastBelow(s) : s \in Holds[t] \cap Trees}
  <1>0. \A s \in Trees : Holds[s] \subseteq Object
    BY ObjectsConstantsOK DEF Object
  <1>1. \A s \in Trees : Holds[s] \subseteq LeastBelow(s)
    BY <1>0 DEF LeastBelow
  <1>2. \A s \in Trees : \A r \in LeastBelow(s) \cap Trees : Holds[r] \subseteq LeastBelow(s)
    BY <1>0 DEF LeastBelow
  <1>3. X \subseteq LeastBelow(t)
    <2>1. ASSUME NEW s \in Holds[t] \cap Trees, NEW o \in LeastBelow(s)
          PROVE  o \in LeastBelow(t)
      BY <2>1 DEF LeastBelow
    <2> QED
      BY <1>1, <2>1
  <1>4. LeastBelow(t) \subseteq X
    <2>1. X \in SUBSET Object
      BY <1>0 DEF LeastBelow
    <2>2. Holds[t] \subseteq X
      OBVIOUS
    <2>3. ASSUME NEW r \in X \cap Trees PROVE Holds[r] \subseteq X
      <3>1. CASE r \in Holds[t]
        BY <1>1, <3>1
      <3>2. ASSUME NEW s \in Holds[t] \cap Trees, r \in LeastBelow(s)
            PROVE  Holds[r] \subseteq X
        BY <1>2, <3>2
      <3> QED
        BY <2>3, <3>1, <3>2
    <2> HIDE DEF X
    <2> QED
      BY <2>1, <2>2, <2>3 DEF LeastBelow
  <1> QED
    BY <1>3, <1>4

(* The recursive definition has a solution, so it is one. *)
LEMMA BelowDef ==
    Below = [t \in Trees |-> Holds[t] \cup UNION {Below[s] : s \in Holds[t] \cap Trees}]
  <1> DEFINE Least == [t \in Trees |-> LeastBelow(t)]
  <1>1. Least = [t \in Trees |-> Holds[t] \cup UNION {Least[s] : s \in Holds[t] \cap Trees}]
    <2>1. \A t \in Trees : {Least[s] : s \in Holds[t] \cap Trees} = {LeastBelow(s) : s \in Holds[t] \cap Trees}
      OBVIOUS
    <2> QED
      BY <2>1, LeastBelowSolves
  <1> HIDE DEF Least
  <1> QED
    BY <1>1 DEF Below

(* What trees hold are trees, blobs and footers. *)
LEMMA BelowType == \A t \in Trees : Below[t] \subseteq Trees \cup Blobs \cup Footers
  <1> DEFINE Bad == {t \in Trees : ~(Below[t] \subseteq Trees \cup Blobs \cup Footers)}
  <1>1. SUFFICES ASSUME Bad # {} PROVE FALSE
    OBVIOUS
  <1>2. PICK t \in Bad : Holds[t] \cap Bad = {}
    BY <1>1, ObjectsGraphOK
  <1>3. Below[t] = Holds[t] \cup UNION {Below[s] : s \in Holds[t] \cap Trees}
    BY BelowDef
  <1>4. Holds[t] \subseteq Trees \cup Blobs \cup Footers
    BY ObjectsConstantsOK
  <1>5. \A s \in Holds[t] \cap Trees : Below[s] \subseteq Trees \cup Blobs \cup Footers
    BY <1>2
  <1> QED
    BY <1>3, <1>4, <1>5

LEMMA ContentType ==
    ASSUME NEW c \in Commits
    PROVE  Content(c) \subseteq Object /\ Content(c) \cap Commits = {}
  BY BelowType, ObjectsConstantsOK, ObjectsGraphOK DEF Content, Object

LEMMA FirstParentType ==
    \A c \in Commits : FirstParent(c) \in Commits \cup {NoCommit}
  BY ObjectsConstantsOK DEF FirstParent

LEMMA Sentinels ==
    /\ NoCommit \notin Object /\ Missing \notin Object /\ NoObject \notin Object
    /\ NoCommit \notin Commits /\ Missing \notin Commits /\ NoCommit # Missing
    /\ NoObject \notin Commits
  BY ObjectsConstantsOK DEF Object

(* The commits that every set that has c, and the first parents of its     *)
(* commits, has.                                                           *)
LeastChain(c) ==
    {d \in Commits :
        \A S \in SUBSET Commits :
            /\ c # NoCommit => c \in S
            /\ \A e \in S : FirstParent(e) \in S \cup {NoCommit}
            => d \in S}

LEMMA LeastChainSolves ==
    ASSUME NEW c \in Commits
    PROVE  LeastChain(c) = {c} \cup LeastChain(FirstParent(c))
  <1> DEFINE f == FirstParent(c)
             X == {c} \cup LeastChain(f)
  <1>1. f \in Commits \cup {NoCommit} /\ c # NoCommit
    BY FirstParentType, Sentinels
  <1>2. c \in LeastChain(c)
    BY <1>1 DEF LeastChain
  <1>3. f # NoCommit => f \in LeastChain(f)
    BY <1>1 DEF LeastChain
  <1>4. LeastChain(f) \subseteq LeastChain(c)
    BY <1>1 DEF LeastChain
  <1>5. \A e \in LeastChain(f) : FirstParent(e) \in LeastChain(f) \cup {NoCommit}
    BY FirstParentType DEF LeastChain
  <1>6. LeastChain(c) \subseteq X
    <2>1. X \in SUBSET Commits
      BY DEF LeastChain
    <2>2. \A e \in X : FirstParent(e) \in X \cup {NoCommit}
      BY <1>1, <1>3, <1>5
    <2> HIDE DEF X
    <2>3. c \in X
      BY DEF X
    <2> QED
      BY <2>1, <2>2, <2>3 DEF LeastChain
  <1> QED
    BY <1>2, <1>4, <1>6

LEMMA ChainDef ==
    Chain = [c \in Commits \cup {NoCommit} |->
                IF c = NoCommit THEN {} ELSE {c} \cup Chain[FirstParent(c)]]
  <1> DEFINE Least == [c \in Commits \cup {NoCommit} |->
                          IF c = NoCommit THEN {} ELSE LeastChain(c)]
  <1>1. LeastChain(NoCommit) = {}
    <2>1. {} \in SUBSET Commits /\ \A e \in {} : FirstParent(e) \in {} \cup {NoCommit}
      OBVIOUS
    <2>2. \A d \in LeastChain(NoCommit) : d \in {}
      BY <2>1 DEF LeastChain
    <2> QED
      BY <2>2
  <1>2. \A c \in Commits : Least[FirstParent(c)] = LeastChain(FirstParent(c))
    BY <1>1, FirstParentType
  <1>3. Least = [c \in Commits \cup {NoCommit} |->
                    IF c = NoCommit THEN {} ELSE {c} \cup Least[FirstParent(c)]]
    BY <1>2, LeastChainSolves
  <1> HIDE DEF Least
  <1> QED
    BY <1>3 DEF Chain

LEMMA ChainStep ==
    /\ Chain[NoCommit] = {}
    /\ \A c \in Commits : Chain[c] = {c} \cup Chain[FirstParent(c)]
  BY ChainDef, Sentinels

(* Induction over first parents: a set of commits that has a commit when   *)
(* it has its first parent has all. *)
LEMMA ChainInduction ==
    ASSUME NEW S,
           \A c \in Commits : FirstParent(c) \in S \cup {NoCommit} => c \in S
    PROVE  Commits \subseteq S
  <1>1. SUFFICES ASSUME Commits \ S # {} PROVE FALSE
    OBVIOUS
  <1>2. PICK c \in Commits \ S : FirstParent(c) \notin Commits \ S
    BY <1>1, ObjectsGraphOK
  <1> QED
    BY <1>2, FirstParentType

LEMMA ChainType == \A c \in Commits \cup {NoCommit} : Chain[c] \subseteq Commits
  <1> DEFINE S == {c \in Commits : Chain[c] \subseteq Commits}
  <1>1. \A c \in Commits : FirstParent(c) \in S \cup {NoCommit} => c \in S
    BY ChainStep
  <1> HIDE DEF S
  <1>2. Commits \subseteq S
    BY <1>1, ChainInduction
  <1> QED
    BY <1>2, ChainStep DEF S

LEMMA ChainTransitive ==
    \A c \in Commits : \A d \in Chain[c] : Chain[d] \subseteq Chain[c]
  <1> DEFINE S == {c \in Commits : \A d \in Chain[c] : Chain[d] \subseteq Chain[c]}
  <1>1. \A c \in Commits : FirstParent(c) \in S \cup {NoCommit} => c \in S
    BY ChainStep
  <1> HIDE DEF S
  <1>2. Commits \subseteq S
    BY <1>1, ChainInduction
  <1> QED
    BY <1>2 DEF S

(* Of two commits on a chain one is behind the other. *)
LEMMA ChainLinear ==
    \A c \in Commits : \A d, e \in Chain[c] : d \in Chain[e] \/ e \in Chain[d]
  <1> DEFINE S == {c \in Commits : \A d, e \in Chain[c] : d \in Chain[e] \/ e \in Chain[d]}
  <1>1. \A c \in Commits : FirstParent(c) \in S \cup {NoCommit} => c \in S
    BY ChainStep
  <1> HIDE DEF S
  <1>2. Commits \subseteq S
    BY <1>1, ChainInduction
  <1> QED
    BY <1>2 DEF S

LEMMA NotBehindItself == \A c \in Commits : c \notin Chain[FirstParent(c)]
  <1>1. SUFFICES ASSUME NEW c \in Commits, c \in Chain[FirstParent(c)] PROVE FALSE
    OBVIOUS
  <1> DEFINE S == {x \in Chain[c] : c \in Chain[x]}
  <1>2. S \subseteq Commits
    BY ChainType
  <1>3. c \in S
    BY ChainStep
  <1>4. PICK x \in S : FirstParent(x) \notin S
    BY <1>2, <1>3, ObjectsGraphOK
  <1>5. x \in Commits /\ x \in Chain[c] /\ c \in Chain[x]
    BY <1>2
  <1>6. c \in Chain[FirstParent(x)]
    BY <1>1, <1>5, ChainStep
  <1>7. FirstParent(x) \in Commits
    BY <1>5, <1>6, FirstParentType, ChainStep
  <1>8. FirstParent(x) \in Chain[x]
    BY <1>5, <1>7, ChainStep
  <1>9. FirstParent(x) \in Chain[c]
    BY <1>5, <1>8, ChainTransitive
  <1> QED
    BY <1>4, <1>6, <1>9

LEMMA ChainAntisymmetric ==
    ASSUME NEW d \in Commits, NEW e \in Commits, d \in Chain[e], e \in Chain[d]
    PROVE  d = e
  <1>1. SUFFICES ASSUME d # e PROVE FALSE
    OBVIOUS
  <1>2. e \in Chain[FirstParent(d)]
    BY <1>1, ChainStep
  <1>3. FirstParent(d) \in Commits
    BY <1>2, FirstParentType, ChainStep
  <1>4. d \in Chain[FirstParent(d)]
    BY <1>2, <1>3, ChainTransitive
  <1> QED
    BY <1>4, NotBehindItself

(* Some commit of a set is behind all of them that share its chain. *)
LEMMA OldestExists ==
    ASSUME NEW T \in SUBSET Commits, T # {}
    PROVE  \E d \in T : T \cap Chain[d] = {d}
  <1> DEFINE S == {c \in Commits : Chain[c] \cap T # {}}
  <1>1. \A d \in T : d \in S
    BY ChainStep
  <1>2. PICK c \in S : FirstParent(c) \notin S
    BY <1>1, ObjectsGraphOK
  <1>3. Chain[FirstParent(c)] \cap T = {}
    BY <1>2, FirstParentType, ChainStep
  <1>4. Chain[c] = {c} \cup Chain[FirstParent(c)]
    BY ChainStep
  <1> QED
    BY <1>2, <1>3, <1>4

(* What every set has that has t and, with a tree that exists, what it     *)
(* holds. *)
LeastWalk(t) ==
    {o \in Object :
        \A S \in SUBSET Object :
            t \in S /\ (\A s \in S \cap Trees : Exists(s) => Holds[s] \subseteq S)
            => o \in S}

LEMMA LeastWalkSolves ==
    ASSUME NEW t \in Trees
    PROVE  LeastWalk(t)
           = {t} \cup IF Exists(t)
                      THEN (Holds[t] \ Trees) \cup UNION {LeastWalk(s) : s \in Holds[t] \cap Trees}
                      ELSE {}
  <1> DEFINE X == {t} \cup IF Exists(t)
                           THEN (Holds[t] \ Trees)
                                \cup UNION {LeastWalk(s) : s \in Holds[t] \cap Trees}
                           ELSE {}
  <1>0. Trees \subseteq Object /\ \A s \in Trees : Holds[s] \subseteq Object
    BY ObjectsConstantsOK DEF Object
  <1>1. \A s \in Trees : s \in LeastWalk(s)
    BY <1>0 DEF LeastWalk
  <1>2. \A s \in Trees : \A r \in LeastWalk(s) \cap Trees :
           Exists(r) => Holds[r] \subseteq LeastWalk(s)
    BY <1>0 DEF LeastWalk
  <1>3. X \subseteq LeastWalk(t)
    <2>1. t \in LeastWalk(t)
      BY <1>1
    <2>2. Exists(t) => Holds[t] \subseteq LeastWalk(t)
      BY <1>1, <1>2
    <2>3. ASSUME Exists(t), NEW s \in Holds[t] \cap Trees, NEW o \in LeastWalk(s)
          PROVE  o \in LeastWalk(t)
      BY <2>3 DEF LeastWalk
    <2> QED
      BY <2>1, <2>2, <2>3
  <1>4. LeastWalk(t) \subseteq X
    <2>1. X \in SUBSET Object
      BY <1>0 DEF LeastWalk
    <2>2. t \in X
      OBVIOUS
    <2>3. ASSUME NEW r \in X \cap Trees, Exists(r) PROVE Holds[r] \subseteq X
      <3>1. CASE r = t
        <4>1. \A o \in Holds[t] \cap Trees : o \in LeastWalk(o)
          BY <1>1
        <4> QED
          BY <2>3, <3>1, <4>1
      <3>2. ASSUME Exists(t), NEW s \in Holds[t] \cap Trees, r \in LeastWalk(s)
            PROVE  Holds[r] \subseteq X
        BY <1>2, <2>3, <3>2
      <3> QED
        BY <2>3, <3>1, <3>2
    <2> HIDE DEF X
    <2> QED
      BY <2>1, <2>2, <2>3 DEF LeastWalk
  <1> QED
    BY <1>3, <1>4

LEMMA WalkedDef ==
    ASSUME NEW t \in Trees
    PROVE  Walked(t)
           = {t} \cup IF Exists(t)
                      THEN (Holds[t] \ Trees) \cup UNION {Walked(s) : s \in Holds[t] \cap Trees}
                      ELSE {}
  <1> DEFINE Solves(f) ==
               f = [s \in Trees |->
                      {s} \cup IF Exists(s)
                               THEN (Holds[s] \ Trees)
                                    \cup UNION {f[r] : r \in Holds[s] \cap Trees}
                               ELSE {}]
             Least == [s \in Trees |-> LeastWalk(s)]
             W == CHOOSE f : Solves(f)
  <1>1. Solves(Least)
    <2>1. \A s \in Trees : {Least[r] : r \in Holds[s] \cap Trees}
                           = {LeastWalk(r) : r \in Holds[s] \cap Trees}
      OBVIOUS
    <2> QED
      BY <2>1, LeastWalkSolves
  <1>2. \A s : Walked(s) = W[s]
    BY DEF Walked
  <1>3. Solves(W)
    <2> HIDE DEF Solves, Least
    <2> QED
      BY <1>1
  <1> HIDE DEF W
  <1>4. {W[r] : r \in Holds[t] \cap Trees} = {Walked(r) : r \in Holds[t] \cap Trees}
    BY <1>2
  <1> QED
    BY <1>2, <1>3, <1>4

(* Induction over what trees hold. *)
LEMMA TreeInduction ==
    ASSUME NEW S, \A t \in Trees : Holds[t] \cap Trees \subseteq S => t \in S
    PROVE  Trees \subseteq S
  <1>1. SUFFICES ASSUME Trees \ S # {} PROVE FALSE
    OBVIOUS
  <1>2. PICK t \in Trees \ S : Holds[t] \cap (Trees \ S) = {}
    BY <1>1, ObjectsGraphOK
  <1> QED
    BY <1>2

(* The walk of gc finds nothing that is not under the tree ... *)
LEMMA WalkedWithin == \A t \in Trees : Walked(t) \subseteq {t} \cup Below[t]
  <1> DEFINE S == {t \in Trees : Walked(t) \subseteq {t} \cup Below[t]}
  <1>1. ASSUME NEW t \in Trees, Holds[t] \cap Trees \subseteq S PROVE t \in S
    <2>1. Below[t] = Holds[t] \cup UNION {Below[s] : s \in Holds[t] \cap Trees}
      BY BelowDef
    <2>2. \A o \in Walked(t) :
             o = t \/ o \in Holds[t] \/ \E s \in Holds[t] \cap Trees : o \in Walked(s)
      BY WalkedDef
    <2>3. \A s \in Holds[t] \cap Trees : Walked(s) \subseteq {s} \cup Below[s]
      BY <1>1
    <2> QED
      BY <2>1, <2>2, <2>3
  <1> HIDE DEF S
  <1>2. Trees \subseteq S
    BY <1>1, TreeInduction
  <1> QED
    BY <1>2 DEF S

(* ... and finds all of it when all of it is there. *)
LEMMA WalkedAll ==
    ASSUME NEW t \in Trees, Exists(t), \A o \in Below[t] : Exists(o)
    PROVE  Walked(t) = {t} \cup Below[t]
  <1> DEFINE S == {s \in Trees : Exists(s) /\ (\A o \in Below[s] : Exists(o))
                                 => {s} \cup Below[s] \subseteq Walked(s)}
  <1>1. ASSUME NEW s \in Trees, Holds[s] \cap Trees \subseteq S,
               Exists(s), \A o \in Below[s] : Exists(o)
        PROVE  {s} \cup Below[s] \subseteq Walked(s)
    <2>1. Below[s] = Holds[s] \cup UNION {Below[r] : r \in Holds[s] \cap Trees}
      BY BelowDef
    <2>2. Walked(s) = {s} \cup (Holds[s] \ Trees) \cup UNION {Walked(r) : r \in Holds[s] \cap Trees}
      BY <1>1, WalkedDef
    <2>3. \A r \in Holds[s] \cap Trees : {r} \cup Below[r] \subseteq Walked(r)
      BY <1>1, <2>1
    <2>4. \A o \in Below[s] :
             o \in Holds[s] \ Trees \/ \E r \in Holds[s] \cap Trees : o \in {r} \cup Below[r]
      BY <2>1
    <2> QED
      BY <2>2, <2>3, <2>4
  <1>2. \A s \in Trees : Holds[s] \cap Trees \subseteq S => s \in S
    BY <1>1
  <1> HIDE DEF S
  <1>3. Trees \subseteq S
    BY <1>2, TreeInduction
  <1> QED
    BY <1>3, WalkedWithin DEF S

LEMMA HistoryOf ==
    /\ \A c \in Commits : \A o : o \in History(c)
          <=> o \in Chain[c] \/ \E d \in Chain[c] : o \in Content(d)
    /\ History(NoCommit) = {} /\ History(Missing) = {}
    /\ \A v : History(v) \subseteq Object
  <1>1. \A v : v \notin Commits => History(v) = {}
    BY DEF History
  <1>2. \A c \in Commits : \A o : o \in History(c)
          <=> o \in Chain[c] \/ \E d \in Chain[c] : o \in Content(d)
    BY DEF History, WithContent
  <1>3. \A c \in Commits : Chain[c] \subseteq Commits
    BY ChainType
  <1>4. \A c \in Commits : History(c) \subseteq Object
    BY <1>2, <1>3, ContentType DEF Object
  <1> QED
    BY <1>1, <1>2, <1>4, Sentinels

LEMMA HistoryGrows ==
    ASSUME NEW c \in Commits, NEW d \in Chain[c]
    PROVE  d \in Commits /\ History(d) \subseteq History(c)
  <1>1. d \in Commits /\ Chain[d] \subseteq Chain[c]
    BY ChainType, ChainTransitive
  <1> QED
    BY <1>1, HistoryOf

(* With a commit a history has what the commit needs. *)
LEMMA HistoryClosed ==
    ASSUME NEW v, NEW c \in History(v) \cap Commits
    PROVE  /\ Content(c) \subseteq History(v)
           /\ FirstParent(c) # NoCommit => FirstParent(c) \in History(v)
  <1>1. v \in Commits
    BY DEF History
  <1>2. \A d \in Chain[v] : d \in Commits
    BY <1>1, ChainType
  <1>3. c \in Chain[v]
    BY <1>1, <1>2, HistoryOf, ContentType
  <1>4. Content(c) \subseteq History(v)
    BY <1>1, <1>3, HistoryOf
  <1>5. FirstParent(c) # NoCommit => FirstParent(c) \in Chain[c]
    BY ChainStep, FirstParentType
  <1>6. Chain[c] \subseteq Chain[v]
    BY <1>1, <1>3, ChainTransitive
  <1> QED
    BY <1>1, <1>4, <1>5, <1>6, HistoryOf

(* A commit that exists has its history when what it meets is closed. *)
LEMMA HistoryHeld ==
    ASSUME NEW c \in Commits, Exists(c),
           \A d \in Chain[c] : Exists(d) => Closed(d)
    PROVE  \A o \in History(c) : Exists(o)
  <1> DEFINE S == {e \in Commits :
                      Exists(e) /\ (\A d \in Chain[e] : Exists(d) => Closed(d))
                      => \A d \in Chain[e] : Exists(d)}
  <1>1. ASSUME NEW e \in Commits, FirstParent(e) \in S \cup {NoCommit},
               Exists(e), \A d \in Chain[e] : Exists(d) => Closed(d)
        PROVE  \A d \in Chain[e] : Exists(d)
    <2>1. Chain[e] = {e} \cup Chain[FirstParent(e)]
      BY ChainStep
    <2>2. FirstParent(e) # NoCommit => Exists(FirstParent(e))
      BY <1>1, <2>1 DEF Closed
    <2>3. CASE FirstParent(e) = NoCommit
      BY <1>1, <2>1, <2>3, ChainStep
    <2>4. CASE FirstParent(e) \in S
      BY <1>1, <2>1, <2>2, <2>4, Sentinels
    <2> QED
      BY <1>1, <2>3, <2>4
  <1>2. \A e \in Commits : FirstParent(e) \in S \cup {NoCommit} => e \in S
    BY <1>1
  <1> HIDE DEF S
  <1>3. Commits \subseteq S
    BY <1>2, ChainInduction
  <1>4. \A d \in Chain[c] : Exists(d)
    BY <1>3 DEF S
  <1> QED
    BY <1>4, HistoryOf DEF Closed

LEMMA ReachWithin == \A v : Reach(v) \subseteq History(v)
  <1>1. SUFFICES ASSUME NEW v \in Commits PROVE Reach(v) \subseteq History(v)
    BY DEF Reach
  <1>2. \A c \in Chain[v] : Walked(TreeOf[c]) \subseteq Content(c)
    BY ChainType, WalkedWithin, ObjectsConstantsOK DEF Content
  <1> QED
    BY <1>2, HistoryOf DEF Reach

LEMMA ReachAll ==
    ASSUME NEW v, \A o \in History(v) : Exists(o)
    PROVE  Reach(v) = History(v)
  <1>1. CASE v \in Commits
    <2>1. ASSUME NEW c \in Chain[v] PROVE Walked(TreeOf[c]) = Content(c)
      <3>1. TreeOf[c] \in Trees
        BY <1>1, ChainType, ObjectsConstantsOK
      <3>2. \A o \in Content(c) : Exists(o)
        BY <1>1, HistoryOf
      <3> QED
        BY <3>1, <3>2, WalkedAll DEF Content
    <2> QED
      BY <1>1, <2>1, HistoryOf DEF Reach, History, WithContent
  <1>2. CASE v \notin Commits
    BY <1>2 DEF Reach, History
  <1> QED
    BY <1>1, <1>2

----------------------------------------------------------------------------
(* Commands                                                                *)

LEMMA IdleFields ==
    /\ Idle \in Work
    /\ Idle.op = "none" /\ Idle.pc = "idle" /\ Idle.commit = NoCommit
    /\ Idle.todo = {} /\ Idle.at = NoObject /\ Idle.spoiled = FALSE
    /\ Idle.exp = NoCommit
  BY ObjectsConstantsOK DEF Idle, Work, Object

LEMMA IdleShape == WorkShape(Idle)
  BY IdleFields DEF WorkShape

LEMMA NotIdle ==
    ASSUME NEW w, w.pc # "idle" \/ w.op # "none" PROVE w # Idle
  BY IdleFields

(* What NextToWrite returns for what is left of a command. *)
LEMMA NextToWriteOK ==
    ASSUME NEW op, NEW todo \in SUBSET Object, todo # {},
           \A o \in todo : \E d \in todo \cap Commits : o \in {d} \cup Content(d)
    PROVE  /\ NextToWrite(op, todo) # {}
           /\ \A o \in NextToWrite(op, todo) :
                 /\ o \in todo
                 /\ o \in Commits => /\ todo \cap Content(o) = {}
                                     /\ todo \cap Commits \cap Chain[o] = {o}
  <1> DEFINE T == todo \cap Commits
             commit == CHOOSE d \in T : T \cap Chain[d] = {d}
             mine == todo \cap Content(commit)
             first == IF op = "commit" THEN mine \ Trees ELSE mine \cap Trees
  <1>1. T \in SUBSET Commits /\ T # {}
    OBVIOUS
  <1>2. commit \in T /\ T \cap Chain[commit] = {commit}
    <2> HIDE DEF T
    <2> QED
      BY <1>1, OldestExists
  <1>3. NextToWrite(op, todo)
        = IF first # {} THEN first ELSE IF mine # {} THEN mine ELSE {commit}
    BY DEF NextToWrite
  <1> HIDE DEF commit
  <1>4. \A o \in mine : o \in todo /\ o \notin Commits
    BY <1>2, ContentType
  <1>5. first \subseteq mine
    OBVIOUS
  <1> HIDE DEF first
  <1>6. NextToWrite(op, todo) # {} /\ NextToWrite(op, todo) \subseteq mine \cup {commit}
    BY <1>3, <1>5
  <1>7. commit \in NextToWrite(op, todo) => mine = {}
    BY <1>2, <1>3, <1>4, <1>5
  <1>8. \A o \in NextToWrite(op, todo) : o \in Commits => o = commit
    BY <1>4, <1>6
  <1> QED
    BY <1>2, <1>4, <1>6, <1>7, <1>8

(* The object a copying command turns to: of its list, and a commit only   *)
(* when nothing it needs is left on the list. *)
LEMMA UpcomingOK ==
    ASSUME TypeOK, NEW p \in Procs, WorkShape(work[p]), Copying(p)
    PROVE  LET o == Upcoming(p)
           IN  /\ o \in work[p].todo /\ o \in Object
               /\ o \in Commits => /\ work[p].todo \cap Content(o) = {}
                                   /\ work[p].todo \cap Commits \cap Chain[o] = {o}
  <1> DEFINE w == work[p]
  <1>1. w.todo \in SUBSET Object /\ w.todo # {}
    BY DEF TypeOK, Work, Copying
  <1>2. \A o \in w.todo : \E d \in w.todo \cap Commits : o \in {d} \cup Content(d)
    BY DEF WorkShape
  <1>3. NextToWrite(w.op, w.todo) # {}
    BY <1>1, <1>2, NextToWriteOK
  <1>4. Upcoming(p) \in NextToWrite(w.op, w.todo)
    BY <1>3 DEF Upcoming
  <1> QED
    BY <1>1, <1>2, <1>4, NextToWriteOK

(* What is left when the upcoming object is done still belongs to commits. *)
LEMMA RestCovered ==
    ASSUME NEW todo \in SUBSET Object, NEW o \in todo,
           \A x \in todo : \E d \in todo \cap Commits : x \in {d} \cup Content(d),
           o \in Commits => todo \cap Content(o) = {}
    PROVE  \A x \in todo \ {o} :
              \E d \in (todo \ {o}) \cap Commits : x \in {d} \cup Content(d)
  OBVIOUS

(* The list of a commit and the list of a transfer belong to commits. *)
LEMMA CommitCovered ==
    ASSUME NEW c \in Commits, NEW S
    PROVE  LET T == {c} \cup (Content(c) \ S)
           IN  /\ T \in SUBSET Object
               /\ \A o \in T : \E d \in T \cap Commits : o \in {d} \cup Content(d)
               /\ T \cap Commits = {c}
  BY ContentType DEF Object

LEMMA ToCopyType == \A c \in Commits : ToCopy(c) \subseteq Chain[c] \cap Commits
  BY ChainType DEF ToCopy

LEMMA TransferCovered ==
    ASSUME NEW c \in Commits
    PROVE  LET T == {o \in WithContent(ToCopy(c)) : ~Exists(o)}
           IN  /\ T \in SUBSET Object
               /\ \A o \in T : \E d \in T \cap Commits : o \in {d} \cup Content(d)
               /\ T \cap Commits = ToCopy(c)
  <1> DEFINE T == {o \in WithContent(ToCopy(c)) : ~Exists(o)}
  <1>1. \A d \in ToCopy(c) : d \in Commits /\ d \in Chain[c] /\ ~Exists(d)
    <2>1. \A d \in ToCopy(c) : d \in Commits /\ d \in Chain[c] /\ d \in Chain[d]
      BY ToCopyType, ChainStep
    <2> QED
      BY <2>1 DEF ToCopy
  <1>2. \A o : o \in T <=> /\ o \in ToCopy(c) \/ \E d \in ToCopy(c) : o \in Content(d)
                           /\ ~Exists(o)
    BY DEF WithContent
  <1>3. \A d \in ToCopy(c) : d \in T
    BY <1>1, <1>2
  <1>4. \A d \in Commits : Content(d) \subseteq Object /\ Content(d) \cap Commits = {}
    BY ContentType
  <1>5. T \in SUBSET Object
    BY <1>1, <1>2, <1>4 DEF Object
  <1>6. T \cap Commits = ToCopy(c)
    BY <1>1, <1>2, <1>3, <1>4
  <1>7. \A o \in T : \E d \in T \cap Commits : o \in {d} \cup Content(d)
    BY <1>2, <1>6
  <1> QED
    BY <1>5, <1>6, <1>7

(* One command moves and the others stand still. *)
Moves(p, w) == p \in Procs /\ work' = [work EXCEPT ![p] = w]

LEMMA OneMoves ==
    ASSUME TypeOK, \A q \in Procs : WorkShape(work[q]), UNCHANGED store,
           NEW p, NEW w \in Work, WorkShape(w), Moves(p, w)
    PROVE  /\ work' \in [Procs -> Work]
           /\ \A q \in Procs : WorkShape(work[q])'
           /\ work'[p] = w /\ \A q \in Procs \ {p} : work'[q] = work[q]
  <1>1. /\ work' \in [Procs -> Work]
        /\ work'[p] = w /\ \A q \in Procs \ {p} : work'[q] = work[q]
    BY DEF TypeOK, Moves
  <1>2. \A q \in Procs : WorkShape(work'[q])
    BY <1>1
  <1> QED
    BY <1>1, <1>2 DEF WorkShape

LEMMA BeginCommitMoves ==
    ASSUME TypeOK, NEW p \in Procs, NEW b \in Branches, NEW c \in Commits,
           BeginCommit(p, b, c)
    PROVE  \E w \in Work :
              /\ Moves(p, w) /\ WorkShape(w) /\ w # Idle
              /\ w.pc = "copy" /\ w.commit = c
              /\ w.todo = {c} \cup (Content(c) \ UNION {Content(Parents[c][i]) :
                                                            i \in DOMAIN Parents[c]})
  <1> DEFINE T == {c} \cup (Content(c) \ UNION {Content(Parents[c][i]) :
                                                    i \in DOMAIN Parents[c]})
             idle == Idle
             w == [idle EXCEPT !.op = "commit", !.pc = "copy", !.branch = b, !.commit = c,
                               !.exp = heads[b], !.todo = T]
  <1>1. Moves(p, w)
    BY DEF BeginCommit, Begin, Moves
  <1>2. /\ T \in SUBSET Object
        /\ \A o \in T : \E d \in T \cap Commits : o \in {d} \cup Content(d)
    BY CommitCovered
  <1>3. heads[b] \in Commits \cup {NoCommit, Missing} /\ heads[b] = FirstParent(c)
    BY DEF TypeOK, BeginCommit
  <1>4. idle \in Work /\ idle.spoiled = FALSE
    BY IdleFields
  <1> HIDE DEF T, idle
  <1>5. /\ w \in Work
        /\ w.op = "commit" /\ w.pc = "copy" /\ w.commit = c /\ w.todo = T
        /\ w.exp = heads[b] /\ w.spoiled = FALSE
    BY <1>2, <1>3, <1>4 DEF Work
  <1> HIDE DEF w
  <1>6. WorkShape(w) /\ w # Idle
    BY <1>2, <1>3, <1>5, NotIdle DEF WorkShape
  <1> QED
    BY <1>1, <1>5, <1>6 DEF T

LEMMA BeginTransferMoves ==
    ASSUME TypeOK, NEW p \in Procs, NEW b \in Branches, NEW c \in Commits,
           NEW op \in {"push", "fetch"}, BeginTransfer(p, b, c, op)
    PROVE  \E w \in Work :
              /\ Moves(p, w) /\ WorkShape(w) /\ w # Idle
              /\ w.pc = "copy" /\ w.commit = c
              /\ w.todo = {o \in WithContent(ToCopy(c)) : ~Exists(o)}
  <1> DEFINE T == {o \in WithContent(ToCopy(c)) : ~Exists(o)}
             idle == Idle
             w == [idle EXCEPT !.op = op, !.pc = "copy", !.branch = b, !.commit = c,
                               !.todo = T]
  <1>1. Moves(p, w)
    BY DEF BeginTransfer, Begin, Moves
  <1>2. /\ T \in SUBSET Object
        /\ \A o \in T : \E d \in T \cap Commits : o \in {d} \cup Content(d)
    BY TransferCovered
  <1>4. idle \in Work /\ idle.spoiled = FALSE
    BY IdleFields
  <1> HIDE DEF T, idle
  <1>5. /\ w \in Work
        /\ w.op = op /\ w.pc = "copy" /\ w.commit = c /\ w.todo = T
        /\ w.spoiled = FALSE
    BY <1>2, <1>4 DEF Work
  <1> HIDE DEF w
  <1>6. WorkShape(w) /\ w # Idle
    BY <1>2, <1>5, NotIdle DEF WorkShape
  <1> QED
    BY <1>1, <1>5, <1>6 DEF T

(* A command that is done with o. *)
LEMMA RestFields ==
    ASSUME NEW w \in Work, NEW o,  WorkShape(w), w.pc = "copy", w # Idle, o \in w.todo,
           o \in Commits => w.todo \cap Content(o) = {},
           NEW v, v = [w EXCEPT !.todo = @ \ {o}]
    PROVE  /\ v \in Work /\ v # Idle /\ WorkShape(v)
           /\ v.pc = "copy" /\ v.todo = w.todo \ {o} /\ v.commit = w.commit
  <1>1. w.todo \in SUBSET Object
    BY DEF Work
  <1>2. /\ v \in Work /\ v.pc = "copy" /\ v.todo = w.todo \ {o}
        /\ v.commit = w.commit /\ v.op = w.op /\ v.exp = w.exp /\ v.spoiled = w.spoiled
    BY <1>1 DEF Work
  <1>3. v # Idle
    BY <1>2, NotIdle
  <1>4. \A x \in w.todo : \E d \in w.todo \cap Commits : x \in {d} \cup Content(d)
    BY DEF WorkShape
  <1>5. \A x \in v.todo : \E d \in v.todo \cap Commits : x \in {d} \cup Content(d)
    BY <1>1, <1>2, <1>4, RestCovered
  <1>6. WorkShape(v)
    BY <1>2, <1>3, <1>5, NotIdle DEF WorkShape
  <1> QED
    BY <1>2, <1>3, <1>6

LEMMA PutMoves ==
    ASSUME TypeOK, NEW p \in Procs, WorkShape(work[p]), Put(p)
    PROVE  \E w \in Work :
              /\ Moves(p, w) /\ WorkShape(w) /\ w # Idle /\ work[p] # Idle
              /\ w.pc = "copy" /\ work[p].pc = "copy" /\ w.commit = work[p].commit
              /\ w.todo = work[p].todo \ {Upcoming(p)}
  <1> DEFINE o == Upcoming(p)
             w == [work[p] EXCEPT !.todo = @ \ {o}]
  <1>1. Copying(p) /\ work[p] \in Work /\ work[p] # Idle /\ work[p].pc = "copy"
    BY NotIdle DEF Put, Copying, TypeOK
  <1>2. o \in work[p].todo /\ (o \in Commits => work[p].todo \cap Content(o) = {})
    BY <1>1, UpcomingOK
  <1>3. Moves(p, w)
    BY DEF Put, Moves
  <1> HIDE DEF o
  <1>4. w \in Work /\ w # Idle /\ WorkShape(w)
        /\ w.pc = "copy" /\ w.todo = work[p].todo \ {o} /\ w.commit = work[p].commit
    BY <1>1, <1>2, RestFields
  <1> QED
    BY <1>1, <1>3, <1>4 DEF o

LEMMA CheckMoves ==
    ASSUME TypeOK, NEW p \in Procs, WorkShape(work[p]), Check(p)
    PROVE  \E w \in Work :
              /\ Moves(p, w) /\ WorkShape(w) /\ w # Idle /\ work[p] # Idle
              /\ work[p].pc = "copy" /\ w.commit = work[p].commit
              /\ \/ /\ Exists(Upcoming(p))
                    /\ w.pc = "copy" /\ w.todo = work[p].todo \ {Upcoming(p)}
                 \/ /\ w.pc = "open" /\ w.at = Upcoming(p) /\ w.todo = work[p].todo
  <1> DEFINE o == Upcoming(p)
  <1>1. Copying(p) /\ work[p] \in Work /\ work[p] # Idle /\ work[p].pc = "copy"
    BY NotIdle DEF Check, Copying, TypeOK
  <1>2. /\ o \in work[p].todo /\ o \in Object
        /\ o \in Commits => work[p].todo \cap Content(o) = {}
    BY <1>1, UpcomingOK
  <1>3. CASE Exists(o)
    <2> DEFINE w == [work[p] EXCEPT !.todo = @ \ {o}]
    <2>1. Moves(p, w)
      BY <1>3 DEF Check, Moves
    <2> HIDE DEF o
    <2>2. w \in Work /\ w # Idle /\ WorkShape(w)
          /\ w.pc = "copy" /\ w.todo = work[p].todo \ {o} /\ w.commit = work[p].commit
      BY <1>1, <1>2, RestFields
    <2> QED
      BY <1>1, <1>3, <2>1, <2>2 DEF o
  <1>4. CASE ~Exists(o)
    <2> DEFINE w == [work[p] EXCEPT !.pc = "open", !.at = o]
    <2>1. Moves(p, w) /\ store = "local"
      BY <1>4 DEF Check, Moves, InPlace
    <2> HIDE DEF o
    <2>2. /\ w \in Work /\ w.pc = "open" /\ w.at = o /\ w.todo = work[p].todo
          /\ w.commit = work[p].commit /\ w.op = work[p].op /\ w.exp = work[p].exp
          /\ w.spoiled = work[p].spoiled
      BY <1>1, <1>2 DEF Work
    <2> HIDE DEF w
    <2>3. WorkShape(w) /\ w # Idle
      BY <1>1, <1>2, <2>1, <2>2, NotIdle DEF WorkShape
    <2> QED
      BY <1>1, <2>1, <2>2, <2>3 DEF o
  <1> QED
    BY <1>3, <1>4

LEMMA CloseMoves ==
    ASSUME TypeOK, NEW p \in Procs, WorkShape(work[p]), Close(p)
    PROVE  \E w \in Work :
              /\ Moves(p, w) /\ WorkShape(w) /\ w # Idle /\ work[p] # Idle
              /\ w.pc = "copy" /\ work[p].pc = "write" /\ w.commit = work[p].commit
              /\ w.todo = work[p].todo \ {work[p].at}
              /\ work[p].at \in work[p].todo /\ work[p].at \in Object
  <1> DEFINE o == work[p].at
             w == [work[p] EXCEPT !.pc = "copy", !.at = NoObject,
                                  !.spoiled = FALSE, !.todo = @ \ {o}]
  <1>1. work[p] \in Work /\ work[p].pc = "write"
    BY DEF Close, TypeOK
  <1>2. Moves(p, w)
    BY DEF Close, Moves
  <1>3. o \in work[p].todo /\ work[p].todo \in SUBSET Object
    BY <1>1 DEF WorkShape, Work
  <1> HIDE DEF o
  <1>4. /\ w \in Work /\ w.pc = "copy" /\ w.todo = work[p].todo \ {o}
        /\ w.commit = work[p].commit /\ w.op = work[p].op /\ w.exp = work[p].exp
        /\ w.spoiled = FALSE
    BY <1>1, <1>3 DEF Work
  <1> HIDE DEF w
  <1>5. w # Idle /\ work[p] # Idle
    BY <1>1, <1>4, NotIdle
  <1>6. /\ \A x \in work[p].todo :
             \E d \in work[p].todo \cap Commits : x \in {d} \cup Content(d)
        /\ o \in Commits => work[p].todo \cap Content(o) = {}
    BY <1>1 DEF WorkShape, o
  <1>7. \A x \in w.todo : \E d \in w.todo \cap Commits : x \in {d} \cup Content(d)
    BY <1>3, <1>4, <1>6, RestCovered
  <1>8. WorkShape(w)
    BY <1>1, <1>4, <1>5, <1>7, NotIdle DEF WorkShape
  <1> QED
    BY <1>1, <1>2, <1>3, <1>4, <1>5, <1>8 DEF o

(* Who has o open for writing no longer decides what is there; nothing     *)
(* else of a command changes. *)
LEMMA SpoiledFields ==
    ASSUME TypeOK, \A q \in Procs : WorkShape(work[q]), NEW o, NEW q \in Procs
    PROVE  LET v == SpoiledBy(work, o)[q]
           IN  /\ v \in Work /\ WorkShape(v)
               /\ v.op = work[q].op /\ v.pc = work[q].pc /\ v.commit = work[q].commit
               /\ v.todo = work[q].todo /\ v.at = work[q].at
               /\ v = work[q] \/ (work[q].pc = "write" /\ work[q].at = o)
  <1> DEFINE v == SpoiledBy(work, o)[q]
  <1>1. v = work[q] \/ /\ work[q].pc = "write" /\ work[q].at = o
                       /\ v = [work[q] EXCEPT !.spoiled = TRUE]
    BY DEF SpoiledBy
  <1> HIDE DEF v
  <1>2. work[q] \in Work /\ WorkShape(work[q])
    BY DEF TypeOK
  <1>3. CASE v = work[q]
    BY <1>2, <1>3 DEF v
  <1>4. CASE /\ work[q].pc = "write" /\ work[q].at = o
             /\ v = [work[q] EXCEPT !.spoiled = TRUE]
    <2>1. /\ v \in Work
          /\ v.op = work[q].op /\ v.pc = work[q].pc /\ v.commit = work[q].commit
          /\ v.todo = work[q].todo /\ v.at = work[q].at /\ v.exp = work[q].exp
      BY <1>2, <1>4 DEF Work
    <2>2. v # Idle /\ work[q] # Idle
      BY <1>4, <2>1, NotIdle
    <2>3. WorkShape(v)
      BY <1>2, <1>4, <2>1, <2>2 DEF WorkShape
    <2> QED
      BY <1>4, <2>1, <2>3 DEF v
  <1> QED
    BY <1>1, <1>3, <1>4

LEMMA OpenMoves ==
    ASSUME TypeOK, \A q \in Procs : WorkShape(work[q]), NEW p \in Procs, Open(p)
    PROVE  /\ work' \in [Procs -> Work]
           /\ \A q \in Procs : WorkShape(work[q])'
           /\ work[p] # Idle /\ work[p].pc = "open" /\ store = "local"
           /\ work[p].at \in work[p].todo /\ work[p].at \in Object
           /\ work'[p].pc = "write" /\ ~work'[p].spoiled
           /\ \A q \in Procs :
                 /\ q = p \/ work'[q].pc = work[q].pc
                 /\ work'[q].commit = work[q].commit
                 /\ work'[q].todo = work[q].todo /\ work'[q].at = work[q].at
                 /\ work[q] # Idle
                       \/ work'[q] = work[q]
  <1> DEFINE o == work[p].at
             sp == SpoiledBy(work, o)
  <1>1. sp \in [Procs -> Work]
    <2>1. \A q \in Procs : sp[q] \in Work
      BY SpoiledFields
    <2> QED
      BY <2>1 DEF SpoiledBy
  <1>2. work[p].pc = "open" /\ work[p] # Idle /\ work[p] \in Work
    BY NotIdle DEF Open, TypeOK
  <1>3. sp[p] = work[p] /\ WorkShape(work[p])
    BY <1>2, SpoiledFields
  <1>4. work' = [sp EXCEPT ![p] = [sp[p] EXCEPT !.pc = "write"]]
    BY DEF Open
  <1>5. \A q \in Procs :
           /\ WorkShape(sp[q]) /\ sp[q].pc = work[q].pc /\ sp[q].commit = work[q].commit
           /\ sp[q].todo = work[q].todo /\ sp[q].at = work[q].at
           /\ sp[q] = work[q] \/ work[q] # Idle
    BY SpoiledFields, NotIdle
  <1> HIDE DEF sp
  <1> DEFINE w == [work[p] EXCEPT !.pc = "write"]
  <1>6. work' = [sp EXCEPT ![p] = w]
    BY <1>3, <1>4
  <1>7. /\ w \in Work /\ w.pc = "write" /\ w.op = work[p].op /\ w.commit = work[p].commit
        /\ w.todo = work[p].todo /\ w.at = work[p].at /\ w.spoiled = work[p].spoiled
        /\ w.exp = work[p].exp
    BY <1>2 DEF Work
  <1> HIDE DEF w
  <1>8. WorkShape(w) /\ ~w.spoiled
    BY <1>2, <1>3, <1>7, NotIdle DEF WorkShape
  <1>9. work' \in [Procs -> Work] /\ work'[p] = w /\ \A q \in Procs \ {p} : work'[q] = sp[q]
    BY <1>1, <1>6, <1>7
  <1>10. \A q \in Procs : WorkShape(work'[q])
    BY <1>5, <1>8, <1>9
  <1>11. UNCHANGED store
    BY DEF Open
  <1>12. \A q \in Procs : WorkShape(work[q])'
    BY <1>10, <1>11 DEF WorkShape
  <1>13. store = "local" /\ work[p].at \in work[p].todo /\ work[p].at \in Object
    BY <1>2, <1>3 DEF WorkShape, Work
  <1>14. \A q \in Procs :
            /\ q = p \/ work'[q].pc = work[q].pc
            /\ work'[q].commit = work[q].commit
            /\ work'[q].todo = work[q].todo /\ work'[q].at = work[q].at
            /\ work[q] # Idle \/ work'[q] = work[q]
    BY <1>2, <1>5, <1>7, <1>9
  <1> QED
    BY <1>2, <1>7, <1>8, <1>9, <1>12, <1>13, <1>14

(* A command that returns, fails or crashes. *)
LEMMA ReturnMoves ==
    ASSUME NEW p \in Procs,
           Refused(p) \/ Fetched(p) \/ Swap(p) \/ WriteRef(p) \/ Crash(p)
    PROVE  Moves(p, Idle) /\ work[p] # Idle
  <1>1. Refused(p) => Moves(p, Idle) /\ work[p] # Idle
    BY NotIdle DEF Refused, Moves, Copying
  <1>2. Fetched(p) => Moves(p, Idle) /\ work[p] # Idle
    BY NotIdle DEF Fetched, Return, Moves
  <1>3. Swap(p) => Moves(p, Idle) /\ work[p] # Idle
    BY NotIdle DEF Swap, AtCas, Return, Moves
  <1>4. WriteRef(p) => Moves(p, Idle) /\ work[p] # Idle
    BY NotIdle DEF WriteRef, Return, Moves
  <1>5. Crash(p) => Moves(p, Idle) /\ work[p] # Idle
    BY DEF Crash, Moves
  <1> QED
    BY <1>1, <1>2, <1>3, <1>4, <1>5

(* A command on its way to the ref. *)
LEMMA PublishMoves ==
    ASSUME TypeOK, NEW p \in Procs, WorkShape(work[p]),
           Forward(p) \/ Compare(p) \/ TruncateRef(p)
    PROVE  \E w \in Work :
              /\ Moves(p, w) /\ WorkShape(w) /\ work[p] # Idle
              /\ work[p].todo = {} /\ work[p].pc # "write"
              /\ \/ w = Idle
                 \/ /\ w.pc \in {"cas", "swap", "ref"}
                    /\ w.commit = work[p].commit /\ w.todo = {}
  <1>0. work[p] \in Work
    BY DEF TypeOK
  <1>1. CASE Forward(p)
    <2> DEFINE head == heads[work[p].branch]
               w == [work[p] EXCEPT !.pc = "cas", !.exp = head]
    <2>1. /\ work[p].op = "push" /\ work[p].pc = "copy" /\ work[p].todo = {}
          /\ work[p] # Idle
      BY <1>1, NotIdle DEF Forward, Copied
    <2>2. head \in Commits \cup {NoCommit, Missing}
      BY <1>0 DEF TypeOK, Work
    <2>3. \/ Moves(p, w) /\ head \in Chain[work[p].commit] \cup {NoCommit}
          \/ Moves(p, Idle)
      BY <1>1 DEF Forward, Moves
    <2> HIDE DEF head
    <2>4. /\ w \in Work /\ w.pc = "cas" /\ w.op = work[p].op /\ w.commit = work[p].commit
          /\ w.todo = work[p].todo /\ w.spoiled = work[p].spoiled /\ w.exp = head
      BY <1>0, <2>2 DEF Work
    <2> HIDE DEF w
    <2>5. head \in Chain[work[p].commit] \cup {NoCommit} => WorkShape(w)
      BY <2>1, <2>4, NotIdle DEF WorkShape
    <2> QED
      BY <2>1, <2>3, <2>4, <2>5, IdleFields, IdleShape
  <1>2. CASE Compare(p)
    <2> DEFINE w == [work[p] EXCEPT !.pc = "swap"]
    <2>1. /\ work[p].pc \in {"cas", "copy"} /\ work[p].todo = {} /\ work[p] # Idle
          /\ store = "local"
      BY <1>2, NotIdle DEF Compare, AtCas, Copied, WorkShape
    <2>2. Moves(p, w) \/ Moves(p, Idle)
      BY <1>2 DEF Compare, Moves
    <2>3. /\ w \in Work /\ w.pc = "swap" /\ w.op = work[p].op /\ w.commit = work[p].commit
          /\ w.todo = work[p].todo /\ w.spoiled = work[p].spoiled /\ w.exp = work[p].exp
      BY <1>0 DEF Work
    <2> HIDE DEF w
    <2>4. WorkShape(w)
      BY <2>1, <2>3, NotIdle DEF WorkShape
    <2> QED
      BY <2>1, <2>2, <2>3, <2>4, IdleFields, IdleShape
  <1>3. CASE TruncateRef(p)
    <2> DEFINE w == [work[p] EXCEPT !.pc = "ref"]
    <2>1. work[p].pc = "swap" /\ work[p].todo = {} /\ work[p] # Idle /\ store = "local"
      BY <1>3, NotIdle DEF TruncateRef, WorkShape
    <2>2. Moves(p, w)
      BY <1>3 DEF TruncateRef, Moves
    <2>3. /\ w \in Work /\ w.pc = "ref" /\ w.op = work[p].op /\ w.commit = work[p].commit
          /\ w.todo = work[p].todo /\ w.spoiled = work[p].spoiled /\ w.exp = work[p].exp
      BY <1>0 DEF Work
    <2> HIDE DEF w
    <2>4. WorkShape(w)
      BY <2>1, <2>3, NotIdle DEF WorkShape
    <2> QED
      BY <2>1, <2>2, <2>3, <2>4
  <1> QED
    BY <1>1, <1>2, <1>3

(* The shape of the commands after a step of one of them. *)
LEMMA CommandWork ==
    ASSUME TypeOK, \A q \in Procs : WorkShape(work[q]), NEW p \in Procs,
           Write(p) \/ Publish(p) \/ Crash(p)
    PROVE  /\ work[p] # Idle /\ UNCHANGED <<store, gc, risk>>
           /\ work' \in [Procs -> Work]
           /\ \A q \in Procs : WorkShape(work[q])'
  <1>1. UNCHANGED <<store, gc, risk>>
    BY DEF Write, Publish, Put, Check, Refused, Open, Close, Fetched, Forward, Swap,
           Compare, TruncateRef, WriteRef, Crash, Return
  <1>2. CASE Put(p)
    BY <1>1, <1>2, PutMoves, OneMoves
  <1>3. CASE Check(p)
    BY <1>1, <1>3, CheckMoves, OneMoves
  <1>4. CASE Open(p)
    BY <1>1, <1>4, OpenMoves
  <1>5. CASE Close(p)
    BY <1>1, <1>5, CloseMoves, OneMoves
  <1>6. CASE Refused(p) \/ Fetched(p) \/ Swap(p) \/ WriteRef(p) \/ Crash(p)
    BY <1>1, <1>6, ReturnMoves, OneMoves, IdleFields, IdleShape
  <1>7. CASE Forward(p) \/ Compare(p) \/ TruncateRef(p)
    BY <1>1, <1>7, PublishMoves, OneMoves
  <1> QED
    BY <1>2, <1>3, <1>4, <1>5, <1>6, <1>7 DEF Write, Publish

LEMMA CommandType ==
    ASSUME TypeOK, \A q \in Procs : WorkShape(work[q]), NEW p \in Procs,
           Write(p) \/ Publish(p) \/ Crash(p)
    PROVE  TypeOK'
  <1>1. work' \in [Procs -> Work] /\ UNCHANGED <<store, gc, risk>>
    BY CommandWork
  <1>2. stored' \in [Object -> {"absent", "torn", "whole"}]
    <2>1. CASE Put(p)
      BY <2>1 DEF Put, TypeOK, Exists
    <2>2. CASE Open(p)
      BY <2>2 DEF Open, TypeOK
    <2>3. CASE Close(p)
      BY <2>3 DEF Close, TypeOK
    <2>4. CASE UNCHANGED stored
      BY <2>4 DEF TypeOK
    <2> QED
      BY <2>1, <2>2, <2>3, <2>4 DEF Write, Publish, Check, Refused, Fetched, Forward, Swap,
           Compare, TruncateRef, WriteRef, Crash, Return
  <1>3. heads' \in [Branches -> Commits \cup {NoCommit, Missing}]
    <2>0. work[p].branch \in Branches /\ work[p].commit \in Commits \cup {NoCommit}
      BY DEF TypeOK, Work
    <2>1. CASE Swap(p)
      BY <2>0, <2>1 DEF Swap, TypeOK
    <2>2. CASE TruncateRef(p)
      BY <2>2 DEF TruncateRef, TypeOK
    <2>3. CASE WriteRef(p)
      BY <2>0, <2>3 DEF WriteRef, TypeOK
    <2>4. CASE UNCHANGED heads
      BY <2>4 DEF TypeOK
    <2> QED
      BY <2>1, <2>2, <2>3, <2>4 DEF Write, Publish, Put, Check, Refused, Open, Close,
           Fetched, Forward, Compare, Crash, Return
  <1>4. CASE Crash(p)
    <2>1. cut' \subseteq Object
      <3>1. work[p].pc = "write" => work[p].at \in Object
        BY DEF WorkShape, TypeOK, Work
      <3> QED
        BY <1>4, <3>1 DEF Crash, CutBy, TypeOK
    <2>2. left' \in [gcs : 0..MaxGcs, crashes : 0..MaxCrashes]
      BY <1>4, ObjectsConstantsOK DEF Crash, TypeOK
    <2> QED
      BY <1>1, <1>2, <1>3, <2>1, <2>2 DEF TypeOK
  <1>5. CASE Write(p) \/ Publish(p)
    <2>1. UNCHANGED <<cut, left>>
      BY <1>5 DEF Write, Publish, Put, Check, Refused, Open, Close, Fetched, Forward, Swap,
           Compare, TruncateRef, WriteRef, Return
    <2> QED
      BY <1>1, <1>2, <1>3, <2>1 DEF TypeOK
  <1> QED
    BY <1>4, <1>5

(* No object becomes torn, and whoever has one open keeps it. *)
LEMMA TornKept ==
    ASSUME TornInv, UNCHANGED store, cut \subseteq cut',
           \A o \in Object : stored'[o] = "torn" => stored[o] = "torn",
           \A q \in Procs : work[q].pc = "write" => work'[q] = work[q]
    PROVE  TornInv'
  BY DEF TornInv

LEMMA CommandTorn ==
    ASSUME TypeOK, TornInv, \A q \in Procs : WorkShape(work[q]), NEW p \in Procs,
           Write(p) \/ Publish(p) \/ Crash(p)
    PROVE  TornInv'
  <1>0. UNCHANGED store /\ store \in {"local", "s3"}
    BY CommandWork DEF TypeOK
  <1>1. CASE Put(p)
    <2>1. \A o \in Object : stored'[o] = "torn" => stored[o] = "torn"
      BY <1>1 DEF Put, TypeOK
    <2>2. \A q \in Procs : work[q].pc = "write" => work'[q] = work[q]
      BY <1>1, PutMoves, OneMoves, <1>0
    <2>3. cut' = cut
      BY <1>1 DEF Put
    <2> QED
      BY <1>0, <2>1, <2>2, <2>3, TornKept
  <1>2. CASE Check(p)
    <2>1. UNCHANGED <<cut, stored>>
      BY <1>2 DEF Check
    <2>2. \A q \in Procs : work[q].pc = "write" => work'[q] = work[q]
      BY <1>2, CheckMoves, OneMoves, <1>0
    <2> QED
      BY <1>0, <2>1, <2>2, TornKept
  <1>3. CASE Refused(p) \/ Fetched(p)
    <2>1. UNCHANGED <<cut, stored>> /\ work[p].pc = "copy"
      BY <1>3 DEF Refused, Copying, Fetched, Copied, Return
    <2>2. \A q \in Procs : work[q].pc = "write" => work'[q] = work[q]
      BY <1>3, <2>1, ReturnMoves, OneMoves, IdleFields, IdleShape, <1>0
    <2> QED
      BY <1>0, <2>1, <2>2, TornKept
  <1>4. CASE Swap(p) \/ WriteRef(p)
    <2>1. UNCHANGED <<cut, stored>> /\ work[p].pc # "write"
      BY <1>4 DEF Swap, WriteRef, AtCas, Copied, Return
    <2>2. \A q \in Procs : work[q].pc = "write" => work'[q] = work[q]
      BY <1>4, <2>1, ReturnMoves, OneMoves, IdleFields, IdleShape, <1>0
    <2> QED
      BY <1>0, <2>1, <2>2, TornKept
  <1>5. CASE Forward(p) \/ Compare(p) \/ TruncateRef(p)
    <2>1. UNCHANGED <<cut, stored>>
      BY <1>5 DEF Forward, Compare, TruncateRef
    <2>2. \A q \in Procs : work[q].pc = "write" => work'[q] = work[q]
      BY <1>5, PublishMoves, OneMoves, <1>0
    <2> QED
      BY <1>0, <2>1, <2>2, TornKept
  <1>6. CASE Open(p)
    <2>1. /\ store = "local" /\ work'[p].pc = "write" /\ ~work'[p].spoiled
          /\ work'[p].at = work[p].at
      BY <1>6, OpenMoves
    <2>2. \A q \in Procs : work[q].pc = "write" /\ work[q].at # work[p].at
                           => work'[q] = work[q]
      BY <1>6 DEF Open, SpoiledBy, TypeOK
    <2>3. /\ cut' = cut
          /\ \A o \in Object : stored'[o] = "torn" => stored[o] = "torn" \/ o = work[p].at
      BY <1>6 DEF Open, TypeOK
    <2>4. ASSUME NEW o \in Object, stored'[o] = "torn", o # work[p].at
          PROVE  o \in cut' \/ \E q \in Procs : work'[q].pc = "write" /\ work'[q].at = o
                                                /\ ~work'[q].spoiled
      BY <2>2, <2>3, <2>4 DEF TornInv
    <2> QED
      BY <1>0, <2>1, <2>3, <2>4 DEF TornInv
  <1>7. CASE Close(p)
    <2>1. cut' = cut /\ work[p].at \in Object
      BY <1>7, CloseMoves DEF Close
    <2>2. \A q \in Procs \ {p} : work'[q] = work[q]
      BY <1>7, CloseMoves, OneMoves, <1>0
    <2>3. \A o \in Object : stored'[o] = "torn" =>
             stored[o] = "torn" /\ (o = work[p].at => work[p].spoiled)
      BY <1>7 DEF Close, TypeOK
    <2>4. ASSUME NEW o \in Object, stored'[o] = "torn"
          PROVE  /\ store = "local"
                 /\ \/ o \in cut'
                    \/ \E q \in Procs : work'[q].pc = "write" /\ work'[q].at = o
                                                /\ ~work'[q].spoiled
      BY <2>1, <2>2, <2>3, <2>4 DEF TornInv
    <2> QED
      BY <1>0, <2>4 DEF TornInv
  <1>8. CASE Crash(p)
    <2>1. /\ stored' = stored /\ cut \subseteq cut'
          /\ work[p].pc = "write" => work[p].at \in cut'
      BY <1>8 DEF Crash, CutBy
    <2>2. \A q \in Procs \ {p} : work'[q] = work[q]
      BY <1>8, ReturnMoves, OneMoves, IdleFields, IdleShape, <1>0
    <2>4. ASSUME NEW o \in Object, stored'[o] = "torn"
          PROVE  /\ store = "local"
                 /\ \/ o \in cut'
                    \/ \E q \in Procs : work'[q].pc = "write" /\ work'[q].at = o
                                                /\ ~work'[q].spoiled
      BY <2>1, <2>2, <2>4 DEF TornInv
    <2> QED
      BY <1>0, <2>4 DEF TornInv
  <1> QED
    BY <1>1, <1>2, <1>3, <1>4, <1>5, <1>6, <1>7, <1>8 DEF Write, Publish

(* gc does not run to itself while a command does something. *)
LEMMA CommandGc ==
    ASSUME TypeOK, GcShape, NEW p \in Procs, work[p] # Idle, UNCHANGED <<store, gc, risk>>
    PROVE  GcShape' /\ (Running => ~gc.alone) /\ (store = "local" => ~Running)
  BY DEF GcShape, Running

LEMMA CommandShape ==
    ASSUME ShapeInv, NEW p \in Procs, Write(p) \/ Publish(p) \/ Crash(p)
    PROVE  ShapeInv'
  BY CommandWork, CommandType, CommandTorn, CommandGc DEF ShapeInv

(* What stays of gc when a writer comes. *)
LEMMA BesideGc ==
    ASSUME TypeOK, GcShape, Beside, UNCHANGED store
    PROVE  /\ gc' \in Gc /\ risk' \in BOOLEAN /\ GcShape'
           /\ gc'.pc = gc.pc /\ gc'.todo = gc.todo /\ gc'.reached = gc.reached
           /\ gc'.kinds = gc.kinds /\ gc'.orphans = gc.orphans /\ gc'.began = gc.began
           /\ gc'.clean = gc.clean
           /\ Running => ~gc'.alone
           /\ ~risk' => ~risk /\ gc.orphans = {}
  <1> DEFINE a == gc.alone /\ gc.pc = "idle"
  <1>1. gc \in Gc /\ gc' = [gc EXCEPT !.alone = a]
    BY DEF TypeOK, Beside
  <1>2. a \in BOOLEAN /\ (gc.pc # "idle" => a = FALSE)
    OBVIOUS
  <1>3. gc.pc = "idle" => a = gc.alone
    <2>1. gc.alone \in BOOLEAN
      BY <1>1 DEF Gc
    <2> QED
      BY <2>1
  <1> HIDE DEF a
  <1>4. /\ gc' \in Gc /\ gc'.alone = a
        /\ gc'.pc = gc.pc /\ gc'.todo = gc.todo /\ gc'.reached = gc.reached
        /\ gc'.kinds = gc.kinds /\ gc'.orphans = gc.orphans /\ gc'.began = gc.began
        /\ gc'.clean = gc.clean
    BY <1>1, <1>2 DEF Gc
  <1>5. gc.pc = "idle" => gc' = gc
    BY <1>1, <1>3 DEF Gc
  <1>6. risk' \in BOOLEAN /\ (~risk' => ~risk /\ gc.pc # "sweep")
    BY DEF Beside, TypeOK
  <1>7. gc.pc = "mark" => (risk' <=> risk)
    BY DEF Beside
  <1>8. ~risk' => ~risk /\ gc.orphans = {}
    BY <1>6 DEF GcShape
  <1>9. Running => ~gc'.alone
    BY <1>2, <1>4 DEF Running
  <1>10. store = "local" => ~Running
    BY DEF Beside, Running
  <1>11. GcShape'
    <2>1. ~Running' => gc' = NoGc
      BY <1>4, <1>5 DEF GcShape, Running
    <2>2. Running' => ~gc'.alone /\ store' # "local"
      BY <1>4, <1>9, <1>10 DEF Running
    <2> QED
      BY <2>1, <2>2, <1>4, <1>7, <1>8 DEF GcShape, Running
  <1> QED
    BY <1>4, <1>6, <1>8, <1>9, <1>11

LEMMA BeginShape ==
    ASSUME ShapeInv, NEW p \in Procs, NEW b \in Branches, NEW c \in Commits,
           BeginCommit(p, b, c) \/ \E op \in {"push", "fetch"} : BeginTransfer(p, b, c, op)
    PROVE  ShapeInv'
  <1>1. /\ UNCHANGED <<store, stored, heads, cut, left>> /\ work[p] = Idle /\ Beside
    BY DEF BeginCommit, BeginTransfer, Begin
  <1>2. PICK w \in Work : Moves(p, w) /\ WorkShape(w)
    BY BeginCommitMoves, BeginTransferMoves DEF ShapeInv
  <1>3. /\ work' \in [Procs -> Work] /\ \A q \in Procs : WorkShape(work[q])'
        /\ \A q \in Procs \ {p} : work'[q] = work[q]
    BY <1>1, <1>2, OneMoves DEF ShapeInv
  <1>4. gc' \in Gc /\ risk' \in BOOLEAN /\ GcShape'
    BY <1>1, BesideGc DEF ShapeInv
  <1>5. TypeOK'
    BY <1>1, <1>3, <1>4 DEF TypeOK, ShapeInv
  <1>6. work[p].pc # "write"
    BY <1>1, IdleFields
  <1>7. \A q \in Procs : work[q].pc = "write" => work'[q] = work[q]
    BY <1>3, <1>6
  <1>8. TornInv'
    BY <1>1, <1>7, TornKept DEF ShapeInv
  <1> QED
    BY <1>3, <1>4, <1>5, <1>8 DEF ShapeInv

LEMMA CreateBranchShape ==
    ASSUME ShapeInv, NEW p \in Procs, NEW b \in Branches, NEW from \in Branches,
           CreateBranch(p, b, from)
    PROVE  ShapeInv'
  <1>1. /\ UNCHANGED <<store, stored, work, cut, left>> /\ Beside
        /\ heads' = [heads EXCEPT ![b] = heads[from]]
    BY DEF CreateBranch
  <1>2. gc' \in Gc /\ risk' \in BOOLEAN /\ GcShape'
    BY <1>1, BesideGc DEF ShapeInv
  <1>3. TypeOK'
    BY <1>1, <1>2 DEF TypeOK, ShapeInv
  <1>4. TornInv'
    BY <1>1, TornKept DEF ShapeInv
  <1>5. \A q \in Procs : WorkShape(work[q])'
    BY <1>1 DEF ShapeInv, WorkShape
  <1> QED
    BY <1>2, <1>3, <1>4, <1>5 DEF ShapeInv

----------------------------------------------------------------------------
(* gc                                                                      *)

LEMMA NoGcFields ==
    /\ NoGc \in Gc
    /\ NoGc.pc = "idle" /\ NoGc.todo = {} /\ NoGc.reached = {} /\ NoGc.kinds = <<>>
    /\ NoGc.orphans = {} /\ NoGc.alone = TRUE /\ NoGc.clean = TRUE
  BY DEF NoGc, Gc

(* A gc that ends leaves nothing behind. *)
LEMMA NoGcShape ==
    ASSUME gc' = NoGc
    PROVE  GcShape' /\ gc' \in Gc
  BY NoGcFields DEF GcShape, Running

LEMMA ReachType == \A v : Reach(v) \subseteq Object
  BY ReachWithin, HistoryOf

LEMMA GcBeginFields ==
    ASSUME TypeOK, GcBegin
    PROVE  /\ gc' \in Gc
           /\ gc'.pc = "mark" /\ gc'.began = heads
           /\ gc'.todo = {b \in Branches : heads[b] # Missing}
           /\ gc'.alone = (\A p \in Procs : work[p] = Idle)
           /\ gc'.clean = ~risk
           /\ gc'.reached = {} /\ gc'.orphans = {} /\ gc'.kinds = <<>>
  <1> DEFINE nogc == NoGc
             T == {b \in Branches : heads[b] # Missing}
             a == \A p \in Procs : work[p] = Idle
             r == ~risk
  <1>1. gc' = [nogc EXCEPT !.pc = "mark", !.began = heads, !.todo = T, !.alone = a,
                           !.clean = r]
    BY DEF GcBegin
  <1>2. nogc \in Gc /\ nogc.reached = {} /\ nogc.orphans = {} /\ nogc.kinds = <<>>
    BY NoGcFields
  <1>3. T \in SUBSET Branches /\ a \in BOOLEAN /\ r \in BOOLEAN
    OBVIOUS
  <1>4. heads \in [Branches -> Commits \cup {NoCommit, Missing}]
    BY DEF TypeOK
  <1> HIDE DEF nogc, T, a, r
  <1>5. /\ gc' \in Gc
        /\ gc'.pc = "mark" /\ gc'.began = heads /\ gc'.todo = T /\ gc'.alone = a
        /\ gc'.clean = r
        /\ gc'.reached = {} /\ gc'.orphans = {} /\ gc'.kinds = <<>>
    BY <1>1, <1>2, <1>3, <1>4 DEF Gc
  <1> QED
    BY <1>5 DEF T, a, r

LEMMA GcMarkFields ==
    ASSUME TypeOK, NEW b \in Branches, GcMark(b)
    PROVE  /\ gc' \in Gc
           /\ \/ gc' = NoGc
              \/ /\ gc'.todo = gc.todo \ {b}
                 /\ gc'.reached = gc.reached \cup Reach(heads[b])
                 /\ heads[b] \in Commits => Readable(Chain[heads[b]] \ gc.reached)
                 /\ gc'.pc = "mark" /\ gc'.kinds = gc.kinds /\ gc'.orphans = gc.orphans
                 /\ gc'.began = gc.began /\ gc'.alone = gc.alone /\ gc'.clean = gc.clean
  <1> DEFINE R == Reach(heads[b])
             g == [gc EXCEPT !.todo = @ \ {b}, !.reached = @ \cup R]
  <1>1. gc \in Gc /\ R \subseteq Object /\ gc.pc = "mark"
    BY ReachType DEF TypeOK, GcMark
  <1>2. gc' = NoGc \/ (gc' = g /\ (heads[b] \in Commits => Readable(Chain[heads[b]] \ gc.reached)))
    BY DEF GcMark
  <1> HIDE DEF R
  <1>3. /\ g \in Gc /\ g.todo = gc.todo \ {b} /\ g.reached = gc.reached \cup R
        /\ g.pc = "mark" /\ g.kinds = gc.kinds /\ g.orphans = gc.orphans
        /\ g.began = gc.began /\ g.alone = gc.alone /\ g.clean = gc.clean
    BY <1>1 DEF Gc
  <1> HIDE DEF g
  <1> QED
    BY <1>2, <1>3, NoGcFields DEF R

LEMMA KindsType == Kinds \in Seq({Kinds[i] : i \in DOMAIN Kinds}) /\ Kinds # <<>>
  BY DEF Kinds

LEMMA GcMarkedFields ==
    ASSUME TypeOK, GcMarked
    PROVE  /\ gc' \in Gc
           /\ \/ gc' = NoGc
              \/ /\ gc'.pc = "sweep" /\ gc'.kinds = Kinds
                 /\ gc'.todo = gc.todo /\ gc'.reached = gc.reached /\ gc'.orphans = gc.orphans
                 /\ gc'.began = gc.began /\ gc'.alone = gc.alone /\ gc'.clean = gc.clean
  <1> DEFINE ks == Kinds
             g == [gc EXCEPT !.pc = "sweep", !.kinds = ks]
  <1>1. gc \in Gc /\ (gc' = NoGc \/ gc' = g)
    BY DEF TypeOK, GcMarked, SweptKinds
  <1>2. ks \in Seq({Kinds[i] : i \in DOMAIN Kinds})
    BY KindsType
  <1> HIDE DEF ks
  <1>3. /\ g \in Gc /\ g.pc = "sweep" /\ g.kinds = ks
        /\ g.todo = gc.todo /\ g.reached = gc.reached /\ g.orphans = gc.orphans
        /\ g.began = gc.began /\ g.alone = gc.alone /\ g.clean = gc.clean
    BY <1>1, <1>2 DEF Gc
  <1> HIDE DEF g
  <1> QED
    BY <1>1, <1>3, NoGcFields DEF ks

LEMMA GcListFields ==
    ASSUME TypeOK, GcList
    PROVE  /\ gc' \in Gc
           /\ gc'.kinds = Tail(gc.kinds)
           /\ gc'.orphans = {o \in OfKind(Head(gc.kinds)) : Exists(o)} \ gc.reached
           /\ gc'.pc = "sweep" /\ gc'.todo = gc.todo /\ gc'.reached = gc.reached
           /\ gc'.began = gc.began /\ gc'.alone = gc.alone /\ gc'.clean = gc.clean
  <1> DEFINE ks == Tail(gc.kinds)
             O == {o \in OfKind(Head(gc.kinds)) : Exists(o)} \ gc.reached
  <1>1. gc \in Gc /\ gc.pc = "sweep" /\ gc' = [gc EXCEPT !.kinds = ks, !.orphans = O]
    BY DEF TypeOK, GcList
  <1>2. ks \in Seq({Kinds[i] : i \in DOMAIN Kinds})
    <2> DEFINE K == {Kinds[i] : i \in DOMAIN Kinds}
    <2>1. gc.kinds \in Seq(K) /\ gc.kinds # <<>>
      BY <1>1 DEF Gc, GcList
    <2> HIDE DEF K
    <2>2. ks \in Seq(K)
      BY <2>1
    <2> QED
      BY <2>2 DEF K
  <1>3. O \in SUBSET Object
    BY DEF OfKind, Object
  <1> HIDE DEF ks, O
  <1>4. /\ gc' \in Gc /\ gc'.kinds = ks /\ gc'.orphans = O /\ gc'.pc = "sweep"
        /\ gc'.todo = gc.todo /\ gc'.reached = gc.reached
        /\ gc'.began = gc.began /\ gc'.alone = gc.alone /\ gc'.clean = gc.clean
    BY <1>1, <1>2, <1>3 DEF Gc
  <1> QED
    BY <1>4 DEF ks, O

(* gc deletes one of its orphans; only in a bucket is anybody writing. *)
LEMMA GcDeleteFields ==
    ASSUME ShapeInv, GcDelete
    PROVE  \E o \in gc.orphans :
              /\ stored' = [stored EXCEPT ![o] = "absent"]
              /\ gc'.orphans = gc.orphans \ {o}
              /\ gc' \in Gc
              /\ gc'.pc = "sweep" /\ gc'.todo = gc.todo /\ gc'.reached = gc.reached
              /\ gc'.kinds = gc.kinds
              /\ gc'.began = gc.began /\ gc'.alone = gc.alone /\ gc'.clean = gc.clean
              /\ work' = work
              /\ risk' \in BOOLEAN /\ (~risk' => ~risk /\ gc.alone)
              /\ UNCHANGED <<store, heads, cut, left>>
  <1> DEFINE o == CHOOSE x \in gc.orphans : TRUE
             g == [gc EXCEPT !.orphans = @ \ {o}]
  <1>1. gc \in Gc /\ gc.pc = "sweep" /\ gc' = g /\ o \in gc.orphans
    BY DEF ShapeInv, TypeOK, GcDelete
  <1>2. /\ stored' = [stored EXCEPT ![o] = "absent"]
        /\ work' = SpoiledBy(work, o)
        /\ UNCHANGED <<store, heads, cut, left>>
        /\ risk' = (risk \/ ~gc.alone)
    BY DEF GcDelete
  <1> HIDE DEF o
  <1>3. /\ g.orphans = gc.orphans \ {o} /\ g \in Gc
        /\ g.pc = "sweep" /\ g.todo = gc.todo /\ g.reached = gc.reached
        /\ g.kinds = gc.kinds
        /\ g.began = gc.began /\ g.alone = gc.alone /\ g.clean = gc.clean
    BY <1>1 DEF Gc
  <1>4. work' = work
    <2>1. \A q \in Procs : work[q].pc # "write"
      <3>1. store # "local" \/ \A q \in Procs : work[q] = Idle
        BY <1>1 DEF ShapeInv, GcShape, Running
      <3> QED
        BY <3>1, IdleFields DEF ShapeInv, WorkShape
    <2>2. work \in [Procs -> Work]
      BY DEF ShapeInv, TypeOK
    <2> QED
      BY <1>2, <2>1, <2>2 DEF SpoiledBy
  <1>5. risk' \in BOOLEAN /\ (~risk' => ~risk /\ gc.alone)
    BY <1>2 DEF ShapeInv, TypeOK
  <1> HIDE DEF g
  <1> QED
    BY <1>1, <1>2, <1>3, <1>4, <1>5

GcNext ==
    \/ \E b \in Branches : GcMark(b)
    \/ GcBegin \/ GcMarked \/ GcList \/ GcDelete \/ GcDone \/ GcCrash

(* The steps of gc that delete nothing. *)
LEMMA GcQuiet ==
    ASSUME (\E b \in Branches : GcMark(b)) \/ GcBegin \/ GcMarked \/ GcList \/ GcDone \/ GcCrash
    PROVE  UNCHANGED <<store, stored, heads, work, cut>>
  BY DEF GcMark, GcBegin, GcMarked, GcList, GcDone, GcCrash

LEMMA GcType ==
    ASSUME ShapeInv, GcNext
    PROVE  TypeOK'
  <1>0. TypeOK
    BY DEF ShapeInv
  <1>1. gc' \in Gc
    <2>1. ASSUME NEW b \in Branches, GcMark(b) PROVE gc' \in Gc
      BY <1>0, <2>1, GcMarkFields
    <2>2. GcDone \/ GcCrash => gc' \in Gc
      BY NoGcFields DEF GcDone, GcCrash
    <2> QED
      BY <1>0, <2>1, <2>2, GcBeginFields, GcMarkedFields, GcListFields, GcDeleteFields DEF GcNext
  <1>2. left' \in [gcs : 0..MaxGcs, crashes : 0..MaxCrashes]
    <2>1. left' = left \/ (left.gcs > 0 /\ left' = [left EXCEPT !.gcs = @ - 1])
                       \/ (left.crashes > 0 /\ left' = [left EXCEPT !.crashes = @ - 1])
      BY DEF GcNext, GcMark, GcBegin, GcMarked, GcList, GcDelete, GcDone, GcCrash
    <2> QED
      BY <1>0, <2>1, ObjectsConstantsOK DEF TypeOK
  <1>3. CASE GcDelete
    BY <1>0, <1>1, <1>2, <1>3, GcDeleteFields DEF TypeOK
  <1>4. CASE GcNext /\ ~GcDelete
    <2>1. UNCHANGED <<store, stored, heads, work, cut>>
      BY <1>4, GcQuiet DEF GcNext
    <2>2. risk' \in BOOLEAN
      <3>1. risk' = risk \/ risk' = (risk \/ gc.orphans \cap Commits # {})
        BY <1>4 DEF GcNext, GcMark, GcBegin, GcMarked, GcList, GcDone, GcCrash
      <3> QED
        BY <1>0, <3>1 DEF TypeOK
    <2> QED
      BY <1>0, <1>1, <1>2, <2>1, <2>2 DEF TypeOK
  <1> QED
    BY <1>3, <1>4

LEMMA GcShapeStep ==
    ASSUME ShapeInv, GcNext
    PROVE  GcShape'
  <1>0. TypeOK /\ GcShape
    BY DEF ShapeInv
  <1>1. ASSUME NEW b \in Branches, GcMark(b) PROVE GcShape'
    <2>1. gc.pc = "mark" /\ UNCHANGED <<store, heads, work, risk>>
      BY <1>1 DEF GcMark
    <2> QED
      BY <1>0, <1>1, <2>1, GcMarkFields, NoGcShape DEF GcShape, Running
  <1>2. CASE GcBegin
    <2>1. /\ UNCHANGED <<store, heads, work, risk>>
          /\ store = "local" => \A p \in Procs : work[p] = Idle
      BY <1>2 DEF GcBegin
    <2> QED
      BY <1>0, <1>2, <2>1, GcBeginFields DEF GcShape, Running
  <1>3. CASE GcMarked
    <2>1. /\ gc.pc = "mark" /\ gc.todo = {} /\ UNCHANGED <<store, heads, work, risk>>
      BY <1>3 DEF GcMarked
    <2> QED
      BY <1>0, <1>3, <2>1, GcMarkedFields, NoGcShape DEF GcShape, Running
  <1>4. CASE GcList
    <2>1. gc.pc = "sweep" /\ UNCHANGED <<store, heads, work, risk>>
      BY <1>4 DEF GcList
    <2> QED
      BY <1>0, <1>4, <2>1, GcListFields DEF GcShape, Running
  <1>5. CASE GcDelete
    <2>1. gc.pc = "sweep"
      BY <1>5 DEF GcDelete
    <2> QED
      BY <1>0, <1>5, <2>1, GcDeleteFields DEF GcShape, Running
  <1>6. CASE GcDone \/ GcCrash
    BY <1>6, NoGcShape DEF GcDone, GcCrash
  <1> QED
    BY <1>1, <1>2, <1>3, <1>4, <1>5, <1>6 DEF GcNext

LEMMA GcKeepsShape ==
    ASSUME ShapeInv, GcNext
    PROVE  ShapeInv'
  <1>1. TypeOK' /\ GcShape'
    BY GcType, GcShapeStep
  <1>2. UNCHANGED <<store, work, cut>>
    BY GcQuiet, GcDeleteFields DEF GcNext
  <1>3. \A o \in Object : stored'[o] = "torn" => stored[o] = "torn"
    <2>1. CASE GcDelete
      BY <2>1, GcDeleteFields DEF ShapeInv, TypeOK
    <2>2. CASE UNCHANGED stored
      BY <2>2
    <2> QED
      BY <2>1, <2>2, GcQuiet DEF GcNext
  <1>4. TornInv'
    BY <1>2, <1>3, TornKept DEF ShapeInv
  <1>5. \A q \in Procs : WorkShape(work[q])'
    BY <1>2 DEF ShapeInv, WorkShape
  <1> QED
    BY <1>1, <1>4, <1>5 DEF ShapeInv

----------------------------------------------------------------------------
(* Types                                                                   *)

LEMMA ShapeInit == Init => ShapeInv
  <1>1. SUFFICES ASSUME Init PROVE ShapeInv
    OBVIOUS
  <1>2. TypeOK
    <2>1. left \in [gcs : 0..MaxGcs, crashes : 0..MaxCrashes]
      BY <1>1, ObjectsConstantsOK DEF Init
    <2>2. heads \in [Branches -> Commits \cup {NoCommit, Missing}]
      BY <1>1, ObjectsConstantsOK DEF Init
    <2>3. stored \in [Object -> {"absent", "torn", "whole"}]
      BY <1>1 DEF Init
    <2>4. work \in [Procs -> Work]
      BY <1>1, IdleFields DEF Init
    <2> QED
      BY <1>1, <2>1, <2>2, <2>3, <2>4, NoGcFields DEF Init, TypeOK
  <1>3. TornInv
    BY <1>1 DEF Init, TornInv
  <1>4. \A p \in Procs : WorkShape(work[p])
    BY <1>1, IdleShape DEF Init
  <1>5. GcShape
    BY <1>1, NoGcFields DEF Init, GcShape, Running
  <1> QED
    BY <1>2, <1>3, <1>4, <1>5 DEF ShapeInv

LEMMA ShapeStep == ShapeInv /\ [Next]_vars => ShapeInv'
  <1>1. SUFFICES ASSUME ShapeInv, [Next]_vars PROVE ShapeInv'
    OBVIOUS
  <1>2. ASSUME NEW p \in Procs, NEW b \in Branches, NEW c \in Commits,
               BeginCommit(p, b, c) \/ \E op \in {"push", "fetch"} : BeginTransfer(p, b, c, op)
        PROVE  ShapeInv'
    BY <1>1, <1>2, BeginShape
  <1>3. ASSUME NEW p \in Procs, NEW b \in Branches, NEW from \in Branches,
               CreateBranch(p, b, from)
        PROVE  ShapeInv'
    BY <1>1, <1>3, CreateBranchShape
  <1>4. ASSUME NEW p \in Procs, Write(p) \/ Publish(p) \/ Crash(p)
        PROVE  ShapeInv'
    BY <1>1, <1>4, CommandShape
  <1>5. CASE GcNext
    BY <1>1, <1>5, GcKeepsShape
  <1>6. CASE UNCHANGED vars
    BY <1>1, <1>6
       DEF vars, ShapeInv, TypeOK, TornInv, WorkShape, GcShape, Running
  <1> QED
    BY <1>1, <1>2, <1>3, <1>4, <1>5, <1>6 DEF Next, GcNext

(* Every value of the state has its type: what is written next is always   *)
(* of the command's own list, whoever else writes, crashes or deletes      *)
(* (repository_sync.py _copy_commits, repository.py gc). *)
THEOREM TypeCorrect == Spec => []TypeOK
  <1>1. Init => ShapeInv
    BY ShapeInit
  <1>2. ShapeInv /\ [Next]_vars => ShapeInv'
    BY ShapeStep
  <1>3. ShapeInv => TypeOK
    BY DEF ShapeInv
  <1> QED
    BY <1>1, <1>2, <1>3, PTL DEF Spec

----------------------------------------------------------------------------
(* Writers                                                                 *)

(* Nothing that is there goes away. *)
Grows == \A o \in Object : Exists(o) => stored'[o] # "absent"

LEMMA ClosedKept ==
    ASSUME Grows, NEW c \in Commits, Closed(c)
    PROVE  Closed(c)'
  <1>1. Content(c) \subseteq Object
    BY ContentType
  <1>2. FirstParent(c) # NoCommit => FirstParent(c) \in Object
    BY FirstParentType DEF Object
  <1>3. \A o \in Content(c) : stored'[o] # "absent"
    BY <1>1 DEF Grows, Closed
  <1>4. FirstParent(c) # NoCommit => stored'[FirstParent(c)] # "absent"
    BY <1>2 DEF Grows, Closed
  <1> QED
    BY <1>3, <1>4 DEF Closed, Exists

(* A command that stands still, or ends, is as safe as it was. *)
LEMMA WorkSafeKept ==
    ASSUME ShapeInv, Grows, NEW q \in Procs, WorkSafe(work[q]),
           \/ work'[q] = Idle
           \/ /\ work[q] # Idle
              /\ work'[q].pc = work[q].pc /\ work'[q].commit = work[q].commit
              /\ work'[q].todo = work[q].todo /\ work'[q].at = work[q].at
    PROVE  WorkSafe(work[q])'
  <1>1. CASE work'[q] = Idle
    BY <1>1 DEF WorkSafe
  <1>2. CASE /\ work[q] # Idle
             /\ work'[q].pc = work[q].pc /\ work'[q].commit = work[q].commit
             /\ work'[q].todo = work[q].todo /\ work'[q].at = work[q].at
    <2> DEFINE w == work[q]
    <2>1. w \in Work /\ w.commit \in Commits
          /\ (w.pc \in {"open", "write"} => w.at \in w.todo)
      BY <1>2 DEF ShapeInv, TypeOK, WorkShape
    <2>2. /\ w.commit \in Object /\ w.todo \in SUBSET Object
          /\ (w.pc = "write" => w.at \in Object)
      BY <2>1 DEF Work, Object
    <2>3. /\ w.commit \in w.todo \/ stored'[w.commit] # "absent"
          /\ w.pc = "write" => stored'[w.at] # "absent"
      BY <1>2, <2>2 DEF WorkSafe, Grows
    <2>4. ASSUME NEW d \in w.todo \cap Commits
          PROVE  /\ \A o \in Content(d) : stored'[o] # "absent" \/ o \in w.todo
                 /\ FirstParent(d) # NoCommit =>
                       stored'[FirstParent(d)] # "absent" \/ FirstParent(d) \in w.todo
      <3>1. /\ Content(d) \subseteq Object
            /\ FirstParent(d) # NoCommit => FirstParent(d) \in Object
        BY ContentType, FirstParentType DEF Object
      <3> QED
        BY <1>2, <3>1 DEF WorkSafe, Grows
    <2>5. w.pc \in {"open", "write"} /\ w.at \in Commits => Closed(w.at)'
      <3>1. ASSUME w.pc \in {"open", "write"}, w.at \in Commits
            PROVE  Closed(w.at)'
        <4> DEFINE c == w.at
        <4>1. c \in Commits /\ Closed(c)
          BY <1>2, <3>1 DEF WorkSafe
        <4>2. \A o \in Content(c) : stored'[o] # "absent"
          BY <4>1, ContentType DEF Grows, Closed
        <4>3. FirstParent(c) # NoCommit => stored'[FirstParent(c)] # "absent"
          <5>1. FirstParent(c) \in Commits \cup {NoCommit}
            BY <4>1, FirstParentType
          <5> QED
            BY <4>1, <5>1 DEF Grows, Closed, Object
        <4>4. work'[q].at = c
          BY <1>2
        <4> HIDE DEF c
        <4>5. /\ \A o \in Content(work'[q].at) : stored'[o] # "absent"
              /\ FirstParent(work'[q].at) # NoCommit =>
                    stored'[FirstParent(work'[q].at)] # "absent"
          BY <4>2, <4>3, <4>4
        <4> QED
          BY <1>2, <4>5 DEF Closed, Exists
      <3> QED
        BY <3>1
    <2> QED
      BY <1>2, <2>3, <2>4, <2>5 DEF WorkSafe, Exists
  <1> QED
    BY <1>1, <1>2


(* A copying command that is done with an object, which is there now. *)
LEMMA WorkSafeRest ==
    ASSUME ShapeInv, Grows, NEW q \in Procs, WorkSafe(work[q]), work[q] # Idle,
           NEW o \in Object, stored'[o] # "absent",
           work'[q].pc = "copy", work'[q].commit = work[q].commit,
           work'[q].todo = work[q].todo \ {o}
    PROVE  WorkSafe(work[q])'
  <1> DEFINE w == work[q]
  <1>1. w \in Work /\ w.commit \in Commits
    BY DEF ShapeInv, TypeOK, WorkShape
  <1>2. w.commit \in Object /\ w.todo \in SUBSET Object
    BY <1>1 DEF Work, Object
  <1>3. w.commit \in w.todo \ {o} \/ stored'[w.commit] # "absent"
    BY <1>2 DEF WorkSafe, Grows
  <1>4. ASSUME NEW d \in w.todo \cap Commits
        PROVE  /\ \A x \in Content(d) : stored'[x] # "absent" \/ x \in w.todo \ {o}
               /\ FirstParent(d) # NoCommit =>
                     stored'[FirstParent(d)] # "absent" \/ FirstParent(d) \in w.todo \ {o}
    <2>1. /\ Content(d) \subseteq Object
          /\ FirstParent(d) # NoCommit => FirstParent(d) \in Object
      BY ContentType, FirstParentType DEF Object
    <2> QED
      BY <2>1 DEF WorkSafe, Grows
  <1> QED
    BY <1>3, <1>4 DEF WorkSafe, Exists

(* When the turn of a commit object comes, what it needs is there. *)
LEMMA UpcomingClosed ==
    ASSUME ShapeInv, NEW p \in Procs, WorkSafe(work[p]), Copying(p),
           Upcoming(p) \in Commits
    PROVE  Closed(Upcoming(p))
  <1> DEFINE o == Upcoming(p)
             w == work[p]
  <1>1. TypeOK /\ WorkShape(w) /\ w # Idle
    BY NotIdle DEF ShapeInv, Copying
  <1>2. o \in w.todo /\ w.todo \cap Content(o) = {} /\ w.todo \cap Commits \cap Chain[o] = {o}
    BY <1>1, UpcomingOK
  <1>3. /\ \A x \in Content(o) : Exists(x) \/ x \in w.todo
        /\ FirstParent(o) # NoCommit => Exists(FirstParent(o)) \/ FirstParent(o) \in w.todo
    BY <1>1, <1>2 DEF WorkSafe
  <1>4. FirstParent(o) # NoCommit => FirstParent(o) \notin w.todo
    <2>1. SUFFICES ASSUME FirstParent(o) # NoCommit, FirstParent(o) \in w.todo PROVE FALSE
      OBVIOUS
    <2> HIDE DEF o
    <2>2. o \in Commits /\ FirstParent(o) \in Commits
      BY <2>1, FirstParentType DEF o
    <2>3. FirstParent(o) \in Chain[FirstParent(o)]
      BY <2>2, ChainStep
    <2>4. FirstParent(o) \in Chain[o] /\ FirstParent(o) # o
      BY <2>2, <2>3, ChainStep, NotBehindItself
    <2> QED
      BY <1>2, <2>1, <2>2, <2>4
  <1> QED
    BY <1>2, <1>3, <1>4 DEF Closed

(* What keeps the store safe. *)
LEMMA SafeStep ==
    ASSUME SafeInv, TypeOK, TypeOK',
           ~risk' =>
              /\ ~risk
              /\ Grows
              /\ \A c \in Commits : ~Exists(c) /\ stored'[c] # "absent" => Closed(c)'
              /\ gc.orphans \cap Commits = {} \/ UNCHANGED gc
              /\ \A b \in Branches : \/ heads'[b] = heads[b]
                                     \/ heads'[b] \in Commits => stored'[heads'[b]] # "absent"
              /\ \A q \in Procs : WorkSafe(work[q])'
    PROVE  SafeInv'
  <1>1. SUFFICES ASSUME ~risk' 
        PROVE  /\ \A c \in Commits : stored'[c] # "absent" =>
                     Closed(c)' \/ (gc'.alone /\ c \in gc'.orphans)
               /\ \A b \in Branches : heads'[b] \in Commits => stored'[heads'[b]] # "absent"
    BY DEF SafeInv, Exists
  <1>2. ~risk /\ Grows
    BY <1>1
  <1>3. ASSUME NEW c \in Commits, stored'[c] # "absent"
        PROVE  Closed(c)' \/ (gc'.alone /\ c \in gc'.orphans)
    <2>1. CASE ~Exists(c)
      BY <1>1, <1>3, <2>1
    <2>2. CASE Exists(c) /\ Closed(c)
      BY <1>2, <2>2, ClosedKept
    <2>3. CASE gc.alone /\ c \in gc.orphans
      BY <1>1, <2>3
    <2> QED
      BY <1>2, <2>1, <2>2, <2>3 DEF SafeInv
  <1>4. ASSUME NEW b \in Branches, heads'[b] \in Commits
        PROVE  stored'[heads'[b]] # "absent"
    <2>1. CASE heads'[b] = heads[b]
      BY <1>2, <1>4, <2>1 DEF SafeInv, Grows, Object
    <2> QED
      BY <1>1, <1>4, <2>1
  <1> QED
    BY <1>3, <1>4

(* Every command writes, opens or publishes what it may. *)
LEMMA CommandSafe ==
    ASSUME ShapeInv, ShapeInv', SafeInv, NEW p \in Procs, Write(p) \/ Publish(p) \/ Crash(p)
    PROVE  SafeInv'
  <1>0. SUFFICES ASSUME ~risk
                 PROVE  /\ Grows
                        /\ \A c \in Commits : ~Exists(c) /\ stored'[c] # "absent" => Closed(c)'
                        /\ \A b \in Branches :
                              \/ heads'[b] = heads[b]
                              \/ heads'[b] \in Commits => stored'[heads'[b]] # "absent"
                        /\ \A q \in Procs : WorkSafe(work[q])'
    <2>1. UNCHANGED <<store, gc, risk>> /\ TypeOK /\ TypeOK'
      BY CommandWork DEF ShapeInv
    <2> QED
      BY <2>1, SafeStep
  <1>1. /\ TypeOK /\ UNCHANGED store /\ \A q \in Procs : WorkShape(work[q])
        /\ \A q \in Procs : WorkSafe(work[q])
        /\ work[p] # Idle
    BY <1>0, CommandWork DEF ShapeInv, SafeInv
  <1>2. CASE Put(p)
    <2> DEFINE o == Upcoming(p)
    <2>1. UNCHANGED heads /\ Copying(p)
      BY <1>2 DEF Put
    <2>2. o \in Object
      BY <1>1, <2>1, UpcomingOK
    <2>3. stored' = [stored EXCEPT ![o] = IF Exists(o) THEN stored[o] ELSE "whole"]
      BY <1>2 DEF Put
    <2>4. o \in Commits => Closed(o)
      BY <1>1, <2>1, UpcomingClosed
    <2> HIDE DEF o
    <2>5. Grows /\ stored'[o] # "absent" /\ \A x \in Object : x # o => stored'[x] = stored[x]
      BY <1>1, <2>2, <2>3 DEF Grows, TypeOK, Exists
    <2>6. ASSUME NEW c \in Commits, ~Exists(c), stored'[c] # "absent" PROVE Closed(c)'
      <3>1. c = o
        BY <2>5, <2>6 DEF Exists, Object
      <3> QED
        BY <2>4, <2>5, <2>6, <3>1, ClosedKept
    <2>7. \A q \in Procs : WorkSafe(work[q])'
      <3>1. PICK w \in Work :
               /\ Moves(p, w) /\ WorkShape(w) /\ w.pc = "copy" /\ w.commit = work[p].commit
               /\ w.todo = work[p].todo \ {o}
        BY <1>1, <1>2, PutMoves DEF o
      <3>2. work'[p] = w /\ \A q \in Procs \ {p} : work'[q] = work[q]
        BY <1>1, <3>1, OneMoves
      <3>3. WorkSafe(work[p])'
        BY <1>1, <2>2, <2>5, <3>1, <3>2, WorkSafeRest
      <3>4. ASSUME NEW q \in Procs \ {p} PROVE WorkSafe(work[q])'
        BY <1>1, <2>5, <3>2, WorkSafeKept
      <3> QED
        BY <3>3, <3>4
    <2> QED
      BY <2>1, <2>5, <2>6, <2>7
  <1>3. CASE Check(p)
    <2> DEFINE o == Upcoming(p)
    <2>1. UNCHANGED <<heads, stored>> /\ Copying(p)
      BY <1>3 DEF Check
    <2>2. o \in Object
      BY <1>1, <2>1, UpcomingOK
    <2>3. o \in Commits => Closed(o)
      BY <1>1, <2>1, UpcomingClosed
    <2>4. Grows /\ \A c \in Commits : ~(~Exists(c) /\ stored'[c] # "absent")
      BY <2>1 DEF Grows, Exists
    <2>5. PICK w \in Work :
             /\ Moves(p, w) /\ WorkShape(w) /\ w.commit = work[p].commit
             /\ \/ Exists(o) /\ w.pc = "copy" /\ w.todo = work[p].todo \ {o}
                \/ w.pc = "open" /\ w.at = o /\ w.todo = work[p].todo
      BY <1>1, <1>3, CheckMoves
    <2>6. work'[p] = w /\ \A q \in Procs \ {p} : work'[q] = work[q]
      BY <1>1, <2>5, OneMoves
    <2>7. ASSUME NEW q \in Procs \ {p} PROVE WorkSafe(work[q])'
      BY <1>1, <2>4, <2>6, WorkSafeKept
    <2> HIDE DEF o
    <2>8. CASE Exists(o) /\ w.pc = "copy" /\ w.todo = work[p].todo \ {o}
      <3>1. stored'[o] # "absent"
        BY <2>1, <2>8 DEF Exists
      <3>2. WorkSafe(work[p])'
        BY <1>1, <2>2, <2>4, <2>5, <2>6, <2>8, <3>1, WorkSafeRest
      <3> QED
        BY <2>1, <2>4, <2>7, <3>2
    <2>9. CASE w.pc = "open" /\ w.at = o /\ w.todo = work[p].todo
      <3>1. WorkSafe(work[p])'
        BY <1>1, <2>1, <2>3, <2>5, <2>6, <2>9 DEF WorkSafe, Closed, Exists
      <3> QED
        BY <2>1, <2>4, <2>7, <3>1
    <2> QED
      BY <2>5, <2>8, <2>9
  <1>4. CASE Open(p)
    <2> DEFINE o == work[p].at
    <2>1. /\ UNCHANGED heads /\ o \in Object /\ work[p].pc = "open"
          /\ stored' = [stored EXCEPT ![o] = "torn"]
      BY <1>1, <1>4, OpenMoves DEF Open
    <2>2. o \in Commits => Closed(o)
      BY <1>1, <2>1 DEF WorkSafe
    <2> HIDE DEF o
    <2>3. Grows /\ stored'[o] # "absent" /\ \A x \in Object : x # o => stored'[x] = stored[x]
      BY <1>1, <2>1 DEF Grows, TypeOK, Exists
    <2>4. ASSUME NEW c \in Commits, ~Exists(c), stored'[c] # "absent" PROVE Closed(c)'
      <3>1. c = o
        BY <2>3, <2>4 DEF Exists, Object
      <3> QED
        BY <2>2, <2>3, <2>4, <3>1, ClosedKept
    <2>5. ASSUME NEW q \in Procs \ {p} PROVE WorkSafe(work[q])'
      <3>1. \/ work'[q] = work[q]
            \/ /\ work[q] # Idle
               /\ work'[q].pc = work[q].pc /\ work'[q].commit = work[q].commit
               /\ work'[q].todo = work[q].todo /\ work'[q].at = work[q].at
        BY <1>1, <1>4, OpenMoves
      <3> QED
        BY <1>1, <2>3, <3>1, WorkSafeKept
    <2>6. WorkSafe(work[p])'
      <3> DEFINE w == work[p]
      <3>1. /\ work'[p].pc = "write" /\ work'[p].commit = w.commit
            /\ work'[p].todo = w.todo /\ work'[p].at = w.at
        BY <1>1, <1>4, OpenMoves
      <3>2. w \in Work /\ w.commit \in Commits
        BY <1>1 DEF TypeOK, WorkShape
      <3>3. w.commit \in w.todo \/ stored'[w.commit] # "absent"
        BY <1>1, <2>3, <3>2 DEF WorkSafe, Grows, Object
      <3>4. ASSUME NEW d \in w.todo \cap Commits
            PROVE  /\ \A x \in Content(d) : stored'[x] # "absent" \/ x \in w.todo
                   /\ FirstParent(d) # NoCommit =>
                         stored'[FirstParent(d)] # "absent" \/ FirstParent(d) \in w.todo
        <4>1. /\ Content(d) \subseteq Object
              /\ FirstParent(d) # NoCommit => FirstParent(d) \in Object
          BY ContentType, FirstParentType DEF Object
        <4> QED
          BY <1>1, <2>3, <4>1 DEF WorkSafe, Grows
      <3>5. w.at \in Commits => /\ \A x \in Content(w.at) : stored'[x] # "absent"
                                /\ FirstParent(w.at) # NoCommit =>
                                      stored'[FirstParent(w.at)] # "absent"
        <4>2. o \in Commits => /\ \A x \in Content(o) : stored'[x] # "absent"
                               /\ FirstParent(o) # NoCommit =>
                                     stored'[FirstParent(o)] # "absent"
          <5>1. SUFFICES ASSUME o \in Commits
                         PROVE  /\ \A x \in Content(o) : stored'[x] # "absent"
                                /\ FirstParent(o) # NoCommit =>
                                      stored'[FirstParent(o)] # "absent"
            OBVIOUS
          <5>2. /\ Content(o) \subseteq Object
                /\ FirstParent(o) # NoCommit => FirstParent(o) \in Object
            BY <5>1, ContentType, FirstParentType DEF Object
          <5> QED
            BY <2>2, <2>3, <5>1, <5>2 DEF Grows, Closed
        <4> QED
          BY <4>2 DEF o
      <3>6. stored'[w.at] # "absent"
        BY <2>3 DEF o
      <3> QED
        BY <3>1, <3>3, <3>4, <3>5, <3>6 DEF WorkSafe, Closed, Exists
    <2> QED
      BY <2>1, <2>3, <2>4, <2>5, <2>6
  <1>5. CASE Close(p)
    <2> DEFINE o == work[p].at
    <2>1. PICK w \in Work :
             /\ Moves(p, w) /\ WorkShape(w) /\ w.pc = "copy" /\ w.commit = work[p].commit
             /\ w.todo = work[p].todo \ {o} /\ o \in Object /\ work[p].pc = "write"
      BY <1>1, <1>5, CloseMoves
    <2>2. UNCHANGED heads /\ Exists(o)
      BY <1>1, <1>5, <2>1 DEF Close, WorkSafe
    <2>3. stored' = [stored EXCEPT ![o] = IF work[p].spoiled THEN stored[o] ELSE "whole"]
      BY <1>5 DEF Close
    <2>4. work'[p] = w /\ \A q \in Procs \ {p} : work'[q] = work[q]
      BY <1>1, <2>1, OneMoves
    <2> HIDE DEF o
    <2>5. /\ Grows /\ stored'[o] # "absent"
          /\ \A c \in Commits : ~(~Exists(c) /\ stored'[c] # "absent")
      BY <1>1, <2>1, <2>2, <2>3 DEF Grows, TypeOK, Exists, Object
    <2>6. WorkSafe(work[p])'
      BY <1>1, <2>1, <2>4, <2>5, WorkSafeRest
    <2>7. ASSUME NEW q \in Procs \ {p} PROVE WorkSafe(work[q])'
      BY <1>1, <2>4, <2>5, WorkSafeKept
    <2> QED
      BY <2>2, <2>5, <2>6, <2>7
  <1>6. CASE Refused(p) \/ Publish(p) \/ Crash(p)
    <2>1. Grows /\ UNCHANGED stored /\ \A c \in Commits : ~(~Exists(c) /\ stored'[c] # "absent")
      BY <1>6 DEF Grows, Exists, Refused, Publish, Fetched, Forward, Swap, Compare,
                  TruncateRef, WriteRef, Crash, Return
    <2>2. \A b \in Branches : \/ heads'[b] = heads[b]
                              \/ heads'[b] \in Commits => stored'[heads'[b]] # "absent"
      <3>1. CASE Swap(p) \/ WriteRef(p)
        <4>1. work[p].todo = {}
          BY <1>1, <3>1 DEF Swap, WriteRef, AtCas, Copied, WorkShape
        <4>2. stored'[work[p].commit] # "absent"
          BY <1>1, <2>1, <4>1 DEF WorkSafe, Exists
        <4>3. \A b \in Branches : heads'[b] \in {heads[b], work[p].commit}
          BY <1>1, <3>1 DEF Swap, WriteRef, TypeOK
        <4> QED
          BY <4>2, <4>3
      <3>2. CASE TruncateRef(p)
        BY <1>1, <3>2, Sentinels DEF TruncateRef, TypeOK
      <3>3. CASE UNCHANGED heads
        BY <3>3
      <3> QED
        BY <1>6, <3>1, <3>2, <3>3 DEF Refused, Publish, Fetched, Forward, Compare, Crash
    <2>3. ASSUME NEW q \in Procs PROVE WorkSafe(work[q])'
      <3>1. CASE Refused(p) \/ Fetched(p) \/ Swap(p) \/ WriteRef(p) \/ Crash(p)
        <4>1. work'[q] = Idle \/ work'[q] = work[q]
          BY <1>1, <3>1, ReturnMoves, OneMoves, IdleFields, IdleShape
        <4> QED
          BY <1>1, <2>1, <4>1, WorkSafeKept
      <3>2. CASE Forward(p) \/ Compare(p) \/ TruncateRef(p)
        <4>1. PICK w \in Work :
                 /\ Moves(p, w) /\ WorkShape(w) /\ work[p].todo = {}
                 /\ \/ w = Idle
                    \/ /\ w.pc \in {"cas", "swap", "ref"}
                       /\ w.commit = work[p].commit /\ w.todo = {}
          BY <1>1, <3>2, PublishMoves
        <4>2. work'[p] = w /\ \A r \in Procs \ {p} : work'[r] = work[r]
          BY <1>1, <4>1, OneMoves
        <4>3. CASE q # p \/ w = Idle
          BY <1>1, <2>1, <4>2, <4>3, WorkSafeKept
        <4>4. CASE q = p /\ w.pc \in {"cas", "swap", "ref"}
                   /\ w.commit = work[p].commit /\ w.todo = {}
          <5>1. Exists(work[p].commit)
            BY <1>1, <4>1 DEF WorkSafe
          <5> QED
            BY <2>1, <4>2, <4>4, <5>1 DEF WorkSafe, Exists
        <4> QED
          BY <4>1, <4>3, <4>4
      <3> QED
        BY <1>6, <3>1, <3>2 DEF Publish
    <2> QED
      BY <2>1, <2>2, <2>3
  <1> QED
    BY <1>2, <1>3, <1>4, <1>5, <1>6 DEF Write

(* A commit that starts: what its tree shares with its parents' trees is   *)
(* there, since its parents are. *)
LEMMA CommitPlanSafe ==
    ASSUME NEW c \in Commits,
           \A i \in DOMAIN Parents[c] :
              Exists(Parents[c][i]) /\ \A o \in Content(Parents[c][i]) : Exists(o),
           NEW T, T = {c} \cup (Content(c) \ UNION {Content(Parents[c][i]) :
                                                        i \in DOMAIN Parents[c]})
    PROVE  \A d \in T \cap Commits :
              /\ \A o \in Content(d) : Exists(o) \/ o \in T
              /\ FirstParent(d) # NoCommit => Exists(FirstParent(d))
  <1>1. T \cap Commits = {c}
    BY CommitCovered
  <1>2. \A o \in Content(c) : Exists(o) \/ o \in T
    OBVIOUS
  <1>3. FirstParent(c) # NoCommit => Exists(FirstParent(c))
    <2>1. SUFFICES ASSUME FirstParent(c) # NoCommit PROVE Exists(FirstParent(c))
      OBVIOUS
    <2>2. Parents[c] \in Seq(Commits) /\ Parents[c] # <<>>
      BY <2>1, ObjectsConstantsOK DEF FirstParent
    <2>3. FirstParent(c) = Parents[c][1] /\ 1 \in DOMAIN Parents[c]
      BY <2>2 DEF FirstParent
    <2> QED
      BY <2>3
  <1> QED
    BY <1>1, <1>2, <1>3

(* A transfer that starts: the plan stops only at a commit that is there,  *)
(* and leaves out only what is there. *)
LEMMA TransferPlanSafe ==
    ASSUME NEW c \in Commits,
           NEW T, T = {o \in WithContent(ToCopy(c)) : ~Exists(o)}
    PROVE  /\ c \in T \/ Exists(c)
           /\ \A d \in T \cap Commits :
                 /\ \A o \in Content(d) : Exists(o) \/ o \in T
                 /\ FirstParent(d) # NoCommit => Exists(FirstParent(d)) \/ FirstParent(d) \in T
  <1>1. T \cap Commits = ToCopy(c)
    BY TransferCovered
  <1>2. \A d \in Chain[c] : d \in Commits /\ d \in Chain[d]
    BY ChainType, ChainStep
  <1>3. c \in Chain[c]
    BY ChainStep
  <1>4. ~Exists(c) => c \in ToCopy(c)
    <2>1. \A e \in Chain[c] : c \in Chain[e] => e = c
      BY <1>2, ChainAntisymmetric
    <2> QED
      BY <1>3, <2>1 DEF ToCopy
  <1>5. ASSUME NEW d \in ToCopy(c), FirstParent(d) # NoCommit, ~Exists(FirstParent(d))
        PROVE  FirstParent(d) \in ToCopy(c)
    <2> DEFINE f == FirstParent(d)
    <2>1. d \in Commits /\ d \in Chain[c]
      BY ToCopyType
    <2>2. f \in Commits /\ f \in Chain[d]
      BY <1>5, <2>1, FirstParentType, ChainStep
    <2>3. f \in Chain[c]
      BY <2>1, <2>2, ChainTransitive
    <2>4. ASSUME NEW e \in Chain[c], f \in Chain[e] PROVE ~Exists(e)
      <3>1. CASE d \in Chain[e]
        BY <3>1 DEF ToCopy
      <3>2. CASE d \notin Chain[e]
        <4>1. e \in Chain[d] /\ e # d /\ e \in Commits
          BY <1>2, <2>1, <3>2, ChainLinear
        <4>2. e \in Chain[f]
          BY <2>1, <4>1, ChainStep
        <4>3. e = f
          BY <2>2, <2>4, <4>1, <4>2, ChainAntisymmetric
        <4> QED
          BY <1>5, <4>3
      <3> QED
        BY <3>1, <3>2
    <2> QED
      BY <2>3, <2>4 DEF ToCopy
  <1>6. \A d \in ToCopy(c) : \A o \in Content(d) : o \in WithContent(ToCopy(c))
    BY DEF WithContent
  <1>7. \A d \in ToCopy(c) : d \in T
    BY <1>1
  <1> QED
    BY <1>1, <1>4, <1>5, <1>6, <1>7

LEMMA BeginSafe ==
    ASSUME ShapeInv, ShapeInv', SafeInv, NEW p \in Procs, NEW b \in Branches, NEW c \in Commits,
           BeginCommit(p, b, c) \/ \E op \in {"push", "fetch"} : BeginTransfer(p, b, c, op)
    PROVE  SafeInv'
  <1>0. /\ UNCHANGED <<store, stored, heads>> /\ work[p] = Idle /\ Beside
        /\ TypeOK /\ GcShape /\ \A q \in Procs : WorkShape(work[q])
    BY DEF BeginCommit, BeginTransfer, Begin, ShapeInv
  <1>1. ~risk' => ~risk /\ gc.orphans = {}
    BY <1>0, BesideGc
  <1>2. Grows /\ \A d \in Commits : ~(~Exists(d) /\ stored'[d] # "absent")
    BY <1>0 DEF Grows, Exists
  <1>3. ASSUME ~risk' PROVE \A q \in Procs : WorkSafe(work[q])'
    <2>1. /\ \A d \in Commits : Exists(d) => Closed(d)
          /\ \A q \in Procs : WorkSafe(work[q])
      BY <1>1, <1>3 DEF SafeInv
    <2>2. PICK w \in Work :
             /\ Moves(p, w) /\ WorkShape(w) /\ w.pc = "copy" /\ w.commit = c
             /\ c \in w.todo \/ Exists(c)
             /\ \A d \in w.todo \cap Commits :
                   /\ \A o \in Content(d) : Exists(o) \/ o \in w.todo
                   /\ FirstParent(d) # NoCommit =>
                         Exists(FirstParent(d)) \/ FirstParent(d) \in w.todo
      <3>1. CASE BeginCommit(p, b, c)
        <4>1. PICK w \in Work :
                 /\ Moves(p, w) /\ WorkShape(w) /\ w.pc = "copy" /\ w.commit = c
                 /\ w.todo = {c} \cup (Content(c) \ UNION {Content(Parents[c][i]) :
                                                            i \in DOMAIN Parents[c]})
          BY <1>0, <3>1, BeginCommitMoves
        <4>2. ASSUME NEW i \in DOMAIN Parents[c]
              PROVE  Exists(Parents[c][i]) /\ \A o \in Content(Parents[c][i]) : Exists(o)
          <5> DEFINE d == Parents[c][i]
          <5>1. d \in Commits
            BY ObjectsConstantsOK
          <5>2. d \in WithContent({d}) \cap (Commits \cup Trees)
            BY <5>1 DEF WithContent
          <5>3. Exists(d)
            BY <3>1, <5>2 DEF BeginCommit, Readable, Exists
          <5> QED
            BY <2>1, <5>1, <5>3 DEF Closed
        <4>3. \A d \in w.todo \cap Commits :
                 /\ \A o \in Content(d) : Exists(o) \/ o \in w.todo
                 /\ FirstParent(d) # NoCommit => Exists(FirstParent(d))
          BY <4>1, <4>2, CommitPlanSafe
        <4> QED
          BY <4>1, <4>3
      <3>2. ASSUME NEW op \in {"push", "fetch"}, BeginTransfer(p, b, c, op)
            PROVE  \E w \in Work :
                      /\ Moves(p, w) /\ WorkShape(w) /\ w.pc = "copy" /\ w.commit = c
                      /\ w.todo = {o \in WithContent(ToCopy(c)) : ~Exists(o)}
        BY <1>0, <3>2, BeginTransferMoves
      <3>3. CASE \E op \in {"push", "fetch"} : BeginTransfer(p, b, c, op)
        <4>1. PICK w \in Work :
                 /\ Moves(p, w) /\ WorkShape(w) /\ w.pc = "copy" /\ w.commit = c
                 /\ w.todo = {o \in WithContent(ToCopy(c)) : ~Exists(o)}
          BY <3>2, <3>3
        <4>2. /\ c \in w.todo \/ Exists(c)
              /\ \A d \in w.todo \cap Commits :
                   /\ \A o \in Content(d) : Exists(o) \/ o \in w.todo
                   /\ FirstParent(d) # NoCommit =>
                         Exists(FirstParent(d)) \/ FirstParent(d) \in w.todo
          BY <4>1, TransferPlanSafe
        <4> QED
          BY <4>1, <4>2
      <3> QED
        BY <3>1, <3>3
    <2>3. work'[p] = w /\ \A q \in Procs \ {p} : work'[q] = work[q]
      BY <1>0, <2>2, OneMoves
    <2>4. WorkSafe(work[p])'
      BY <1>0, <2>2, <2>3 DEF WorkSafe, Exists
    <2>5. ASSUME NEW q \in Procs \ {p} PROVE WorkSafe(work[q])'
      BY <1>2, <2>1, <2>3, WorkSafeKept
    <2> QED
      BY <2>4, <2>5
  <1>4. TypeOK'
    BY DEF ShapeInv
  <1> QED
    BY <1>0, <1>1, <1>2, <1>3, <1>4, SafeStep

LEMMA CreateBranchSafe ==
    ASSUME ShapeInv, ShapeInv', SafeInv, NEW p \in Procs, NEW b \in Branches,
           NEW from \in Branches, CreateBranch(p, b, from)
    PROVE  SafeInv'
  <1>0. /\ UNCHANGED <<store, stored, work>> /\ Beside /\ TypeOK /\ TypeOK' /\ GcShape
        /\ heads' = [heads EXCEPT ![b] = heads[from]]
    BY DEF CreateBranch, ShapeInv
  <1>1. ~risk' => ~risk /\ gc.orphans = {}
    BY <1>0, BesideGc
  <1>2. Grows /\ \A d \in Commits : ~(~Exists(d) /\ stored'[d] # "absent")
    BY <1>0 DEF Grows, Exists
  <1>3. ASSUME ~risk', NEW q \in Procs PROVE WorkSafe(work[q])'
    BY <1>0, <1>1, <1>2, <1>3, WorkSafeKept DEF SafeInv
  <1>4. ~risk' => \A a \in Branches : \/ heads'[a] = heads[a]
                                      \/ heads'[a] \in Commits => stored'[heads'[a]] # "absent"
    BY <1>0, <1>1 DEF SafeInv, TypeOK, Exists
  <1> QED
    BY <1>0, <1>1, <1>2, <1>3, <1>4, SafeStep

(* A gc that deletes with the repository to itself deletes no commit that  *)
(* stays and nothing that one needs. *)
LEMMA GcDeleteSafe ==
    ASSUME IInv, ShapeInv', GcDelete
    PROVE  SafeInv'
  <1>0. ShapeInv /\ TypeOK /\ GcShape /\ gc.pc = "sweep" /\ Running
    BY DEF IInv, ShapeInv, GcDelete, Running
  <1>1. PICK o \in gc.orphans :
           /\ stored' = [stored EXCEPT ![o] = "absent"]
           /\ gc'.orphans = gc.orphans \ {o} /\ gc'.alone = gc.alone
           /\ work' = work /\ heads' = heads
           /\ ~risk' => ~risk /\ gc.alone
    BY <1>0, GcDeleteFields
  <1>2. SUFFICES ASSUME ~risk' PROVE SafeInv'
    BY DEF SafeInv
  <1>3. /\ ~risk /\ gc.alone /\ gc.clean /\ gc.todo = {} /\ heads = gc.began
        /\ \A p \in Procs : work[p] = Idle
        /\ gc.orphans \cap gc.reached = {}
    BY <1>0, <1>1, <1>2 DEF GcShape
  <1>4. o \in Object /\ o \notin gc.reached
    BY <1>0, <1>3 DEF TypeOK, Gc
  <1>5. \A x \in Object : x # o => stored'[x] = stored[x]
    BY <1>0, <1>1 DEF TypeOK
  <1>6. stored'[o] = "absent"
    BY <1>0, <1>1, <1>4 DEF TypeOK
  <1>7. ASSUME NEW c \in Commits, stored'[c] # "absent"
        PROVE  Closed(c)' \/ (gc'.alone /\ c \in gc'.orphans)
    <2>1. c # o /\ Exists(c) /\ c \in Object
      BY <1>5, <1>6, <1>7 DEF Exists, Object
    <2>2. CASE c \in gc.orphans
      BY <1>1, <1>3, <2>1, <2>2
    <2>3. CASE c \notin gc.orphans
      <3>1. Closed(c)
        BY <1>3, <2>1, <2>3 DEF IInv, SafeInv
      <3>2. c \in gc.reached
        <4>1. Commits \cap Unlisted(gc.kinds) = {}
          BY <1>0 DEF IInv, SweepInv
        <4> QED
          BY <1>0, <1>3, <2>1, <2>3, <4>1 DEF IInv, SweepInv
      <3>3. /\ Content(c) \subseteq gc.reached
            /\ FirstParent(c) # NoCommit => FirstParent(c) \in gc.reached
        BY <1>0, <1>3, <3>2 DEF IInv, MarkInv
      <3>4. /\ Content(c) \subseteq Object
            /\ FirstParent(c) # NoCommit => FirstParent(c) \in Object
        BY ContentType, FirstParentType DEF Object
      <3> QED
        BY <1>4, <1>5, <3>1, <3>3, <3>4 DEF Closed, Exists
    <2> QED
      BY <2>2, <2>3
  <1>8. ASSUME NEW b \in Branches, heads'[b] \in Commits PROVE stored'[heads'[b]] # "absent"
    <2>1. heads[b] \in Commits /\ Exists(heads[b]) /\ heads[b] \in Object
      BY <1>1, <1>3, <1>8 DEF IInv, SafeInv, Object
    <2>2. History(heads[b]) \subseteq gc.reached
      BY <1>0, <1>3 DEF IInv, MarkInv
    <2>3. heads[b] \in History(heads[b])
      BY <2>1, HistoryOf, ChainStep
    <2> QED
      BY <1>1, <1>4, <1>5, <2>1, <2>2, <2>3 DEF Exists
  <1>9. ASSUME NEW p \in Procs PROVE WorkSafe(work[p])'
    BY <1>1, <1>3 DEF WorkSafe
  <1> QED
    BY <1>7, <1>8, <1>9 DEF SafeInv, Exists

LEMMA GcSafe ==
    ASSUME IInv, ShapeInv', GcNext
    PROVE  SafeInv'
  <1>1. CASE GcDelete
    BY <1>1, GcDeleteSafe
  <1>2. CASE ~GcDelete
    <2>1. UNCHANGED <<store, stored, heads, work>> /\ TypeOK /\ TypeOK' /\ GcShape
          /\ ShapeInv /\ SafeInv
      BY <1>2, GcQuiet DEF GcNext, IInv, ShapeInv
    <2>2. Grows /\ \A d \in Commits : ~(~Exists(d) /\ stored'[d] # "absent")
      BY <2>1 DEF Grows, Exists
    <2>3. ~risk' => ~risk /\ gc.orphans \cap Commits = {}
      <3>1. ASSUME NEW b \in Branches, GcMark(b)
            PROVE  ~risk' => ~risk /\ gc.orphans \cap Commits = {}
        BY <2>1, <3>1 DEF GcMark, GcShape
      <3>2. CASE GcBegin \/ GcMarked \/ GcList \/ GcDone
        BY <2>1, <3>2 DEF GcBegin, GcMarked, GcList, GcDone, GcShape
      <3>3. CASE GcCrash
        BY <3>3 DEF GcCrash
      <3> QED
        BY <1>2, <3>1, <3>2, <3>3 DEF GcNext
    <2>4. ASSUME ~risk', NEW q \in Procs PROVE WorkSafe(work[q])'
      BY <2>1, <2>2, <2>3, <2>4, WorkSafeKept DEF SafeInv
    <2> QED
      BY <2>1, <2>2, <2>3, <2>4, SafeStep
  <1> QED
    BY <1>1, <1>2

----------------------------------------------------------------------------
(* Marking and sweeping                                                    *)

(* A CAS moves a head forward, if it moves it. *)
LEMMA SwapForward ==
    ASSUME ShapeInv, NEW p \in Procs, Swap(p), NEW b \in Branches, heads[b] \in Commits
    PROVE  heads'[b] \in Commits /\ Chain[heads[b]] \subseteq Chain[heads'[b]]
  <1> DEFINE w == work[p]
  <1>1. /\ w \in Work /\ WorkShape(w) /\ AtCas(p)
        /\ heads' = [heads EXCEPT ![w.branch] = IF @ = w.exp THEN w.commit ELSE @]
        /\ heads \in [Branches -> Commits \cup {NoCommit, Missing}]
    BY DEF ShapeInv, TypeOK, Swap
  <1>2. w.commit \in Commits
    BY <1>1, NotIdle DEF AtCas, WorkShape
  <1>3. w.exp \in Chain[w.commit] \cup {NoCommit}
    <2>1. CASE w.pc = "cas"
      BY <1>1, <2>1 DEF WorkShape
    <2>2. CASE w.op = "commit"
      <3>1. w.exp = FirstParent(w.commit)
        BY <1>1, <2>2 DEF WorkShape
      <3> QED
        BY <1>2, <3>1, FirstParentType, ChainStep
    <2> QED
      BY <1>1, <2>1, <2>2 DEF AtCas
  <1>4. CASE heads'[b] = heads[b]
    BY <1>4
  <1>5. CASE heads'[b] # heads[b]
    <2>1. heads'[b] = w.commit /\ heads[b] = w.exp
      BY <1>1, <1>5
    <2>2. w.exp \in Chain[w.commit]
      BY <1>3, <2>1, Sentinels
    <2> QED
      BY <1>2, <2>1, <2>2, ChainTransitive
  <1> QED
    BY <1>4, <1>5

LEMMA MarkKept ==
    ASSUME MarkInv,
           gc'.pc = gc.pc, gc'.todo = gc.todo, gc'.reached = gc.reached,
           gc'.began = gc.began, gc'.clean = gc.clean,
           Running => \A b \in Branches : heads[b] \in Commits =>
                         heads'[b] \in Commits /\ Chain[heads[b]] \subseteq Chain[heads'[b]],
           gc.todo \subseteq Branches
    PROVE  MarkInv'
  BY DEF MarkInv, Running

LEMMA CommandMark ==
    ASSUME ShapeInv, MarkInv, SweepInv, NEW p \in Procs, Write(p) \/ Publish(p) \/ Crash(p)
    PROVE  MarkInv' /\ SweepInv'
  <1>1. /\ UNCHANGED <<store, gc, risk>> /\ work[p] # Idle /\ GcShape /\ TypeOK
        /\ WorkShape(work[p])
    BY CommandWork DEF ShapeInv
  <1>2. (Running => ~gc.alone) /\ (store = "local" => ~Running)
    BY <1>1, CommandGc
  <1>3. ASSUME Running, NEW b \in Branches, heads[b] \in Commits
        PROVE  heads'[b] \in Commits /\ Chain[heads[b]] \subseteq Chain[heads'[b]]
    <2>1. CASE Swap(p)
      BY <1>3, <2>1, SwapForward
    <2>2. CASE TruncateRef(p) \/ WriteRef(p)
      BY <1>1, <1>2, <1>3, <2>2 DEF TruncateRef, WriteRef, WorkShape
    <2>3. CASE UNCHANGED heads
      BY <1>3, <2>3
    <2> QED
      BY <2>1, <2>2, <2>3 DEF Write, Publish, Put, Check, Refused, Open, Close,
           Fetched, Forward, Compare, Crash, Return
  <1>4. gc.todo \subseteq Branches
    BY <1>1 DEF TypeOK, Gc
  <1>5. MarkInv'
    BY <1>1, <1>3, <1>4, MarkKept
  <1>6. SweepInv'
    BY <1>1, <1>2 DEF SweepInv, Running, GcShape
  <1> QED
    BY <1>5, <1>6

LEMMA BesideMark ==
    ASSUME ShapeInv, MarkInv, SweepInv, Beside, UNCHANGED <<store, stored>>,
           \A b \in Branches : heads[b] \in Commits => heads'[b] = heads[b]
    PROVE  MarkInv' /\ SweepInv'
  <1>1. TypeOK /\ GcShape /\ gc.todo \subseteq Branches
    BY DEF ShapeInv, TypeOK, Gc
  <1>2. /\ gc'.pc = gc.pc /\ gc'.todo = gc.todo /\ gc'.reached = gc.reached
        /\ gc'.kinds = gc.kinds /\ gc'.orphans = gc.orphans /\ gc'.began = gc.began
        /\ gc'.clean = gc.clean
        /\ Running => ~gc'.alone
    BY <1>1, BesideGc
  <1>3. MarkInv'
    BY <1>1, <1>2, MarkKept
  <1>4. SweepInv'
    BY <1>2 DEF SweepInv, Running
  <1> QED
    BY <1>3, <1>4

LEMMA UnlistedStep ==
    ASSUME NEW K, NEW kinds \in Seq(K), kinds # <<>>
    PROVE  Unlisted(kinds) = OfKind(Head(kinds)) \cup Unlisted(Tail(kinds))
  <1>1. /\ Len(kinds) \in Nat /\ Len(kinds) > 0 /\ Head(kinds) = kinds[1]
        /\ DOMAIN kinds = 1 .. Len(kinds)
        /\ DOMAIN Tail(kinds) = 1 .. Len(kinds) - 1
        /\ \A i \in DOMAIN Tail(kinds) : Tail(kinds)[i] = kinds[i + 1]
    OBVIOUS
  <1>2. \A i \in DOMAIN kinds : i = 1 \/ (i - 1 \in DOMAIN Tail(kinds)
                                          /\ kinds[i] = Tail(kinds)[i - 1])
    BY <1>1
  <1>3. \A i \in DOMAIN Tail(kinds) : i + 1 \in DOMAIN kinds
    BY <1>1
  <1>4. 1 \in DOMAIN kinds
    BY <1>1
  <1> QED
    BY <1>1, <1>2, <1>3, <1>4 DEF Unlisted

LEMMA UnlistedKinds ==
    /\ Unlisted(<<>>) = {}
    /\ Unlisted(Kinds) = Object
    /\ Commits \cap Unlisted(Tail(Kinds)) = {}
  <1>1. /\ DOMAIN Kinds = 1..4
        /\ Kinds[1] = "commit" /\ Kinds[2] = "tree" /\ Kinds[3] = "blob" /\ Kinds[4] = "footer"
    BY DEF Kinds
  <1>2. /\ OfKind("commit") = Commits /\ OfKind("tree") = Trees
        /\ OfKind("blob") = Blobs /\ OfKind("footer") = Footers
    BY DEF OfKind
  <1>3. Unlisted(Kinds) = OfKind(Kinds[1]) \cup OfKind(Kinds[2])
                          \cup OfKind(Kinds[3]) \cup OfKind(Kinds[4])
    BY <1>1 DEF Unlisted
  <1>4. Tail(Kinds) = <<"tree", "blob", "footer">>
    BY DEF Kinds
  <1> DEFINE rest == Tail(Kinds)
  <1>7. /\ DOMAIN rest = 1..3
        /\ rest[1] = "tree" /\ rest[2] = "blob" /\ rest[3] = "footer"
    <2> DEFINE lit == <<"tree", "blob", "footer">>
    <2>1. /\ DOMAIN lit = 1..3
          /\ lit[1] = "tree" /\ lit[2] = "blob" /\ lit[3] = "footer"
      OBVIOUS
    <2>2. rest = lit
      BY <1>4
    <2> HIDE DEF lit
    <2> QED
      BY <2>1, <2>2
  <1> HIDE DEF rest
  <1>8. Unlisted(rest) = OfKind(rest[1]) \cup OfKind(rest[2]) \cup OfKind(rest[3])
    BY <1>7 DEF Unlisted
  <1>5. Unlisted(Tail(Kinds)) = Trees \cup Blobs \cup Footers
    BY <1>2, <1>7, <1>8 DEF rest
  <1>6. Unlisted(<<>>) = {}
    BY DEF Unlisted
  <1> QED
    BY <1>1, <1>2, <1>3, <1>5, <1>6, ObjectsGraphOK DEF Object

(* The walk from a head finds its whole history when nothing was put at    *)
(* risk. *)
LEMMA GcMarkFinds ==
    ASSUME IInv, NEW b \in Branches, GcMark(b), gc.clean
    PROVE  Reach(heads[b]) = History(heads[b])
  <1>1. /\ ~risk /\ gc.orphans = {} /\ TypeOK
    BY DEF IInv, ShapeInv, GcShape, GcMark
  <1>2. CASE heads[b] \in Commits
    <2>1. Exists(heads[b]) /\ \A d \in Commits : Exists(d) => Closed(d)
      BY <1>1, <1>2 DEF IInv, SafeInv
    <2>2. \A d \in Chain[heads[b]] : Exists(d) => Closed(d)
      BY <1>2, <2>1, ChainType
    <2>3. \A o \in History(heads[b]) : Exists(o)
      BY <1>2, <2>1, <2>2, HistoryHeld
    <2> QED
      BY <2>3, ReachAll
  <1>3. CASE heads[b] \notin Commits
    BY <1>3 DEF Reach, History
  <1> QED
    BY <1>2, <1>3

LEMMA GcMarkInv ==
    ASSUME IInv, GcNext
    PROVE  MarkInv'
  <1>0. /\ ShapeInv /\ TypeOK /\ GcShape /\ MarkInv /\ gc.todo \subseteq Branches
    BY DEF IInv, ShapeInv, TypeOK, Gc
  <1>1. UNCHANGED heads
    BY <1>0, GcQuiet, GcDeleteFields DEF GcNext
  <1>2. CASE gc' = NoGc
    BY <1>2, NoGcFields DEF MarkInv, Running
  <1>3. CASE GcBegin
    <2>1. /\ gc'.began = heads /\ gc'.todo = {b \in Branches : heads[b] # Missing}
          /\ gc'.reached = {}
      BY <1>0, <1>3, GcBeginFields
    <2>2. \A b \in Branches \ gc'.todo : History(gc'.began[b]) = {}
      BY <2>1, HistoryOf
    <2>3. ASSUME NEW b \in gc'.todo
          PROVE  \/ gc'.began[b] \in {Missing, NoCommit}
                 \/ heads'[b] \in Commits /\ gc'.began[b] \in Chain[heads'[b]]
      BY <1>0, <1>1, <2>1, ChainStep DEF TypeOK
    <2> QED
      BY <2>1, <2>2, <2>3 DEF MarkInv
  <1>4. ASSUME NEW b \in Branches, GcMark(b), gc' # NoGc PROVE MarkInv'
    <2>1. /\ gc'.todo = gc.todo \ {b} /\ gc'.reached = gc.reached \cup Reach(heads[b])
          /\ gc'.began = gc.began /\ gc'.clean = gc.clean
          /\ Running /\ b \in gc.todo
      BY <1>0, <1>4, GcMarkFields DEF GcMark, Running
    <2>2. SUFFICES ASSUME gc.clean PROVE MarkInv'
      BY <2>1 DEF MarkInv
    <2>3. Reach(heads[b]) = History(heads[b])
      BY <1>4, <2>2, GcMarkFinds
    <2>4. History(gc.began[b]) \subseteq History(heads[b])
      <3>1. CASE gc.began[b] \in {Missing, NoCommit}
        BY <3>1, HistoryOf
      <3>2. CASE heads[b] \in Commits /\ gc.began[b] \in Chain[heads[b]]
        BY <3>2, HistoryGrows
      <3> QED
        BY <1>0, <2>1, <2>2, <3>1, <3>2 DEF MarkInv
    <2>5. ASSUME NEW a \in Branches \ gc'.todo PROVE History(gc.began[a]) \subseteq gc'.reached
      BY <1>0, <2>1, <2>2, <2>3, <2>4, <2>5 DEF MarkInv
    <2>6. ASSUME NEW a \in gc'.todo
          PROVE  \/ gc.began[a] \in {Missing, NoCommit}
                 \/ heads[a] \in Commits /\ gc.began[a] \in Chain[heads[a]]
      BY <1>0, <2>1, <2>2, <2>6 DEF MarkInv
    <2>7. ASSUME NEW c \in gc'.reached \cap Commits
          PROVE  /\ Content(c) \subseteq gc'.reached
                 /\ FirstParent(c) # NoCommit => FirstParent(c) \in gc'.reached
      <3>1. CASE c \in gc.reached
        BY <1>0, <2>1, <2>2, <3>1 DEF MarkInv
      <3>2. CASE c \in History(heads[b])
        BY <2>1, <2>3, <3>2, HistoryClosed
      <3> QED
        BY <2>1, <2>3, <3>1, <3>2
    <2> QED
      BY <1>1, <2>1, <2>5, <2>6, <2>7 DEF MarkInv
  <1>5. CASE /\ gc'.todo = gc.todo /\ gc'.reached = gc.reached
             /\ gc'.began = gc.began /\ gc'.clean = gc.clean /\ Running
    BY <1>0, <1>1, <1>5 DEF MarkInv
  <1>6. GcMarked => gc' = NoGc \/ /\ gc'.todo = gc.todo /\ gc'.reached = gc.reached
                                  /\ gc'.began = gc.began /\ gc'.clean = gc.clean /\ Running
    BY <1>0, GcMarkedFields DEF GcMarked, Running
  <1>7. GcList \/ GcDelete => /\ gc'.todo = gc.todo /\ gc'.reached = gc.reached
                              /\ gc'.began = gc.began /\ gc'.clean = gc.clean /\ Running
    BY <1>0, GcListFields, GcDeleteFields DEF GcList, GcDelete, Running
  <1>8. GcDone \/ GcCrash => gc' = NoGc
    BY DEF GcDone, GcCrash
  <1> QED
    BY <1>2, <1>3, <1>4, <1>5, <1>6, <1>7, <1>8 DEF GcNext

LEMMA GcSweepInv ==
    ASSUME IInv, GcNext
    PROVE  SweepInv'
  <1>0. /\ ShapeInv /\ TypeOK /\ GcShape /\ SweepInv
    BY DEF IInv, ShapeInv
  <1>1. UNCHANGED heads
    BY <1>0, GcQuiet, GcDeleteFields DEF GcNext
  <1>2. CASE gc' = NoGc
    BY <1>2, NoGcFields DEF SweepInv, Running
  <1>3. CASE GcBegin
    BY <1>0, <1>3, GcBeginFields DEF SweepInv
  <1>4. ASSUME NEW b \in Branches, GcMark(b), gc' # NoGc PROVE SweepInv'
    <2>1. /\ gc'.pc = "mark" /\ gc'.reached = gc.reached \cup Reach(heads[b])
          /\ gc'.alone = gc.alone /\ Running
      BY <1>0, <1>4, GcMarkFields DEF GcMark, Running
    <2>2. Reach(heads[b]) \subseteq UNION {History(heads[a]) : a \in Branches}
      BY ReachWithin
    <2> QED
      BY <1>0, <1>1, <2>1, <2>2 DEF SweepInv
  <1>5. CASE GcMarked /\ gc' # NoGc
    <2>1. /\ gc'.pc = "sweep" /\ gc'.kinds = Kinds /\ gc'.reached = gc.reached
          /\ gc'.orphans = gc.orphans /\ gc'.alone = gc.alone /\ gc.pc = "mark" /\ Running
      BY <1>0, <1>5, GcMarkedFields DEF GcMarked, Running
    <2>2. gc.orphans = {}
      BY <1>0, <2>1 DEF GcShape
    <2> QED
      BY <1>0, <1>1, <2>1, <2>2, UnlistedKinds DEF SweepInv
  <1>6. CASE GcList
    <2>1. /\ gc'.kinds = Tail(gc.kinds)
          /\ gc'.orphans = {o \in OfKind(Head(gc.kinds)) : Exists(o)} \ gc.reached
          /\ gc'.pc = "sweep" /\ gc'.reached = gc.reached /\ gc'.alone = gc.alone
      BY <1>0, <1>6, GcListFields
    <2>2. /\ gc.pc = "sweep" /\ gc.orphans = {} /\ gc.kinds # <<>> /\ stored' = stored
          /\ Running
      BY <1>6 DEF GcList, Running
    <2>3. Unlisted(gc.kinds) = OfKind(Head(gc.kinds)) \cup Unlisted(Tail(gc.kinds))
      <3>1. gc.kinds \in Seq({Kinds[i] : i \in DOMAIN Kinds})
        BY <1>0 DEF TypeOK, Gc
      <3> HIDE DEF Kinds
      <3> QED
        BY <2>2, <3>1, UnlistedStep
    <2>4. Commits \cap Unlisted(gc'.kinds) = {}
      BY <1>0, <2>1, <2>2, <2>3, UnlistedKinds DEF SweepInv
    <2>5. gc.alone => \A o \in Object : stored'[o] # "absent" =>
                         o \in gc'.reached \cup gc'.orphans \cup Unlisted(gc'.kinds)
      BY <1>0, <2>1, <2>2, <2>3 DEF SweepInv, Exists
    <2> QED
      BY <1>0, <1>1, <2>1, <2>2, <2>4, <2>5 DEF SweepInv, Exists
  <1>7. CASE GcDelete
    <2>1. PICK o \in gc.orphans :
             /\ stored' = [stored EXCEPT ![o] = "absent"]
             /\ gc'.orphans = gc.orphans \ {o}
             /\ gc'.pc = "sweep" /\ gc'.reached = gc.reached /\ gc'.kinds = gc.kinds
             /\ gc'.alone = gc.alone
      BY <1>0, <1>7, GcDeleteFields
    <2>2. gc.pc = "sweep" /\ Running
      BY <1>7 DEF GcDelete, Running
    <2>3. \A x \in Object : stored'[x] # "absent" => x # o /\ Exists(x)
      BY <1>0, <2>1 DEF TypeOK, Exists
    <2> QED
      BY <1>0, <1>1, <2>1, <2>2, <2>3 DEF SweepInv, Exists
  <1>8. GcDone \/ GcCrash => gc' = NoGc
    BY DEF GcDone, GcCrash
  <1> QED
    BY <1>2, <1>3, <1>4, <1>5, <1>6, <1>7, <1>8 DEF GcNext

----------------------------------------------------------------------------
(* What is promised                                                        *)

LEMMA IInvInit == Init => IInv
  <1>1. SUFFICES ASSUME Init PROVE IInv
    OBVIOUS
  <1>2. ShapeInv
    BY <1>1, ShapeInit
  <1>3. MarkInv /\ SweepInv
    BY <1>1, NoGcFields DEF Init, MarkInv, SweepInv, Running
  <1>4. \A b \in Branches : heads[b] \in Commits => Exists(heads[b])
    <2>1. FirstCommit \in History(FirstCommit) /\ FirstCommit \in Object
      BY ObjectsConstantsOK, HistoryOf, ChainStep DEF Object
    <2> QED
      BY <1>1, <2>1, Sentinels DEF Init, Exists
  <1>5. ASSUME NEW c \in Commits, Exists(c) PROVE Closed(c)
    <2>1. c \in Object
      BY DEF Object
    <2>2. c \in History(FirstCommit)
      BY <1>1, <1>5, <2>1 DEF Init, Exists
    <2>3. /\ Content(c) \subseteq History(FirstCommit)
          /\ FirstParent(c) # NoCommit => FirstParent(c) \in History(FirstCommit)
      BY <2>2, HistoryClosed
    <2>4. \A o \in History(FirstCommit) : Exists(o)
      BY <1>1, HistoryOf DEF Init, Exists
    <2> QED
      BY <2>3, <2>4 DEF Closed
  <1>6. \A p \in Procs : WorkSafe(work[p])
    BY <1>1 DEF Init, WorkSafe
  <1> QED
    BY <1>2, <1>3, <1>4, <1>5, <1>6 DEF IInv, SafeInv

LEMMA IInvStep == IInv /\ [Next]_vars => IInv'
  <1>1. SUFFICES ASSUME IInv, [Next]_vars PROVE IInv'
    OBVIOUS
  <1>2. ShapeInv' /\ ShapeInv /\ MarkInv /\ SweepInv /\ SafeInv
    BY <1>1, ShapeStep DEF IInv
  <1>3. ASSUME NEW p \in Procs, NEW b \in Branches, NEW c \in Commits,
               BeginCommit(p, b, c) \/ \E op \in {"push", "fetch"} : BeginTransfer(p, b, c, op)
        PROVE  IInv'
    <2>1. Beside /\ UNCHANGED <<store, stored, heads>>
      BY <1>3 DEF BeginCommit, BeginTransfer, Begin
    <2>2. MarkInv' /\ SweepInv'
      BY <1>2, <2>1, BesideMark
    <2>3. SafeInv'
      BY <1>2, <1>3, BeginSafe
    <2> QED
      BY <1>2, <2>2, <2>3 DEF IInv
  <1>4. ASSUME NEW p \in Procs, NEW b \in Branches, NEW from \in Branches,
               CreateBranch(p, b, from)
        PROVE  IInv'
    <2>1. Beside /\ UNCHANGED <<store, stored>>
      BY <1>4 DEF CreateBranch
    <2>2. \A a \in Branches : heads[a] \in Commits => heads'[a] = heads[a]
      BY <1>2, <1>4, Sentinels DEF CreateBranch, ShapeInv, TypeOK
    <2>3. MarkInv' /\ SweepInv'
      BY <1>2, <2>1, <2>2, BesideMark
    <2>4. SafeInv'
      BY <1>2, <1>4, CreateBranchSafe
    <2> QED
      BY <1>2, <2>3, <2>4 DEF IInv
  <1>5. ASSUME NEW p \in Procs, Write(p) \/ Publish(p) \/ Crash(p)
        PROVE  IInv'
    BY <1>2, <1>5, CommandMark, CommandSafe DEF IInv
  <1>6. CASE GcNext
    BY <1>1, <1>2, <1>6, GcMarkInv, GcSweepInv, GcSafe DEF IInv
  <1>7. CASE UNCHANGED vars
    BY <1>2, <1>7 DEF vars, IInv, MarkInv, SweepInv, SafeInv, WorkSafe, Closed, Exists, Running
  <1> QED
    BY <1>1, <1>3, <1>4, <1>5, <1>6, <1>7 DEF Next, GcNext

LEMMA IInvAlways == Spec => []IInv
  BY IInvInit, IInvStep, PTL DEF Spec

(* A commit object that exists has its whole tree DAG and its first parent *)
(* beside it, for any graph of commits and any interleaving of writers,    *)
(* crashes and gc that put nothing at risk: what _build_plan and           *)
(* object_exists rely on when they stop at a commit that is there. *)
THEOREM ExistingCommitsAreClosed == Spec => []CommitsClosed
  <1>1. IInv => CommitsClosed
    BY DEF IInv, SafeInv, CommitsClosed, Closed
  <1> QED
    BY <1>1, IInvAlways, PTL

(* Every object of the history of a head is whole, or torn by a writer of  *)
(* a directory that is at it or died (local.py write_blob_file and         *)
(* write_commit_bytes). *)
THEOREM HeadsStayWhole == Spec => []HeadsWhole
  <1>1. ASSUME IInv, ~risk, NEW b \in Branches, NEW o \in History(heads[b])
        PROVE  \/ stored[o] = "whole"
               \/ /\ stored[o] = "torn" /\ store = "local"
                  /\ o \in cut \/ \E p \in Procs : work[p].pc = "write" /\ work[p].at = o
    <2>1. ShapeInv /\ TypeOK /\ GcShape /\ TornInv /\ gc.clean
      BY <1>1 DEF IInv, ShapeInv, GcShape
    <2>2. heads[b] \in Commits /\ o \in Object
      BY HistoryOf DEF History
    <2>3. Exists(heads[b])
      BY <1>1, <2>2 DEF IInv, SafeInv
    <2>4. ASSUME NEW d \in Chain[heads[b]], Exists(d) PROVE Closed(d)
      <3>1. d \in Commits /\ d \in History(heads[b])
        BY <2>2, ChainType, HistoryOf
      <3>2. ~(gc.alone /\ d \in gc.orphans)
        <4>1. SUFFICES ASSUME gc.alone, d \in gc.orphans PROVE FALSE
          OBVIOUS
        <4>2. gc.pc = "sweep" /\ Running /\ gc.todo = {} /\ heads = gc.began
          BY <2>1, <4>1 DEF GcShape, Running
        <4>3. d \in gc.reached
          BY <1>1, <2>1, <3>1, <4>2 DEF IInv, MarkInv
        <4> QED
          BY <2>1, <4>1, <4>3 DEF GcShape
      <3> QED
        BY <1>1, <2>4, <3>1, <3>2 DEF IInv, SafeInv
    <2>5. Exists(o)
      BY <2>2, <2>3, <2>4, HistoryHeld
    <2>6. stored[o] \in {"torn", "whole"}
      BY <2>1, <2>2, <2>5 DEF TypeOK, Exists
    <2> QED
      BY <2>1, <2>2, <2>6 DEF TornInv
  <1>2. IInv => HeadsWhole
    BY <1>1 DEF HeadsWhole
  <1> QED
    BY <1>2, IInvAlways, PTL

(* Only gc deletes, and only what it listed as an orphan. *)
LEMMA OnlyGcDeletes ==
    ASSUME ShapeInv, [Next]_vars, NEW o \in Object, Exists(o), stored'[o] = "absent"
    PROVE  GcDelete /\ o \in gc.orphans
  <1>1. stored \in [Object -> {"absent", "torn", "whole"}]
    BY DEF ShapeInv, TypeOK
  <1>2. ASSUME NEW p \in Procs, Put(p) \/ Open(p) \/ Close(p) PROVE FALSE
    BY <1>1, <1>2 DEF Put, Open, Close, Exists
  <1>3. stored' # stored
    BY DEF Exists
  <1>4. GcDelete
    <2>1. ASSUME NEW p \in Procs, Write(p) \/ Publish(p) \/ Crash(p) PROVE FALSE
      BY <1>2, <1>3, <2>1 DEF Write, Publish, Check, Refused, Fetched, Forward, Swap,
         Compare, TruncateRef, WriteRef, Return, Crash
    <2>2. ASSUME NEW p \in Procs, NEW b \in Branches, NEW c \in Commits,
                 BeginCommit(p, b, c) \/ \E op \in {"push", "fetch"} : BeginTransfer(p, b, c, op)
          PROVE  FALSE
      BY <1>3, <2>2 DEF BeginCommit, BeginTransfer, Begin
    <2>3. ASSUME NEW p \in Procs, NEW b \in Branches, NEW from \in Branches,
                 CreateBranch(p, b, from)
          PROVE  FALSE
      BY <1>3, <2>3 DEF CreateBranch
    <2>4. CASE UNCHANGED vars
      BY <1>3, <2>4 DEF vars
    <2>5. CASE GcNext
      BY <1>3, <2>5, GcQuiet DEF GcNext
    <2> QED
      BY <2>1, <2>2, <2>3, <2>4, <2>5 DEF Next, GcNext
  <1>5. PICK x \in gc.orphans : stored' = [stored EXCEPT ![x] = "absent"]
    BY <1>4, GcDeleteFields
  <1>6. o = x
    BY <1>1, <1>5 DEF Exists
  <1> QED
    BY <1>4, <1>6

(* gc deletes nothing that a head reached over first parents when gc       *)
(* began: each branch is read when its turn comes, and has by then only    *)
(* moved forward (repository.py gc). *)
THEOREM GcSparesWhatItFound == Spec => GcSparesHistory
  <1>1. ASSUME IInv, [Next]_vars, gc.clean, NEW o \in Object, Exists(o),
               stored'[o] = "absent", NEW b \in Branches
        PROVE  o \notin History(gc.began[b])
    <2>1. o \in gc.orphans /\ Running /\ gc.todo = {} /\ o \notin gc.reached
      BY <1>1, OnlyGcDeletes DEF IInv, ShapeInv, GcShape, GcDelete, Running
    <2> QED
      BY <1>1, <2>1 DEF IInv, MarkInv
  <1>2. IInv /\ [Next]_vars =>
           [ store = "s3" /\ gc.clean =>
             \A o \in Object : Exists(o) /\ stored'[o] = "absent" =>
                 \A b \in Branches : o \notin History(gc.began[b]) ]_vars
    BY <1>1
  <1> QED
    BY <1>2, IInvAlways, PTL DEF Spec, GcSparesHistory

(* The loop over first parents stays in the commit DAG.                    *)
LEMMA ChainInAncestry == \A v \in Commits : Chain[v] \subseteq Ancestry(v)
  <1> SUFFICES ASSUME NEW v \in Commits, NEW S \in SUBSET Commits, v \in S,
                      \A d \in S : \A i \in DOMAIN Parents[d] : Parents[d][i] \in S
               PROVE  Chain[v] \subseteq S
    BY ChainType DEF Ancestry
  <1> DEFINE G == {c \in Commits : c \in S => Chain[c] \subseteq S}
  <1>1. \A c \in S : FirstParent(c) \in S \cup {NoCommit}
    <2> SUFFICES ASSUME NEW c \in S, Parents[c] # <<>>
                 PROVE  Head(Parents[c]) \in S
      BY DEF FirstParent
    <2>1. Parents[c] \in Seq(Commits)
      BY ObjectsConstantsOK
    <2>2. 1 \in DOMAIN Parents[c] /\ Head(Parents[c]) = Parents[c][1]
      BY <2>1
    <2> QED
      BY <2>2
  <1>2. \A c \in Commits : FirstParent(c) \in G \cup {NoCommit} => c \in G
    BY <1>1, ChainStep
  <1> HIDE DEF G
  <1>3. Commits \subseteq G
    BY <1>2, ChainInduction
  <1> QED
    BY <1>3 DEF G

(* A prune that had the repository to itself and came to its end leaves    *)
(* only what the heads reach, whatever crashed before it, and even where   *)
(* an earlier prune raced a writer (repository.py gc). *)
THEOREM GcCollectsAll == Spec => GcCollects
  <1>1. ASSUME IInv, GcDone, gc.alone, NEW o \in Object, Exists(o)
        PROVE  \E b \in Branches : o \in WithContent(Ancestry(heads[b]))
    <2>1. gc.pc = "sweep" /\ Running /\ gc.orphans = {} /\ gc.kinds = <<>>
      BY <1>1 DEF GcDone, Running
    <2>2. o \in gc.reached
      BY <1>1, <2>1, UnlistedKinds DEF IInv, SweepInv
    <2>3. PICK b \in Branches : o \in History(heads[b])
      BY <1>1, <2>1, <2>2 DEF IInv, SweepInv
    <2>4. heads[b] \in Commits /\ o \in WithContent(Chain[heads[b]])
      BY <2>3 DEF History
    <2>5. Chain[heads[b]] \subseteq Ancestry(heads[b])
      BY <2>4, ChainInAncestry
    <2> QED
      BY <2>4, <2>5 DEF WithContent
  <1>2. IInv /\ [Next]_vars =>
           [ GcDone /\ gc.alone =>
             \A o \in Object : Exists(o) =>
                 \E b \in Branches : o \in WithContent(Ancestry(heads[b])) ]_vars
    BY <1>1
  <1> QED
    BY <1>2, IInvAlways, PTL DEF Spec, GcCollects
=============================================================================
