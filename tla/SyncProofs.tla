----------------------------- MODULE SyncProofs -----------------------------
(***************************************************************************)
(* Proofs about push, pull and fetch for any number of clones, branches    *)
(* and commits.                                                            *)
(***************************************************************************)
EXTENDS Sync, CommitGraphProofs

(* The head of a transfer is at the destination, or is yet to be copied    *)
(* and at the source: only what is missing there is passed over.           *)
TipAtHand(c, todo) ==
    Obj("commit", job[c].tip) \in (todo \cap holds[From(c)]) \cup holds[To(c)]

(* A running transfer: its head is written, and is at the destination      *)
(* before the ref is moved to it.                                          *)
JobOK(c) ==
    LET tip == job[c].tip
    IN  /\ pc[c] # "idle" => tip \in 1 .. Len(commits)
        /\ pc[c] = "copy" => TipAtHand(c, job[c].todo)
        /\ pc[c] = "forward" => Has(To(c), "commit", tip)
        /\ pc[c] = "cas" => Has(Remote, "commit", tip)

(* Inductive, object by object or in batches. *)
HeldInv ==
    /\ TypeOK
    /\ GraphOK(commits)
    /\ \A s \in Store, b \in Branch : ref[s][b] \in Value(commits)
    /\ HeadsHeld
    /\ \A c \in Clone : JobOK(c)

----------------------------------------------------------------------------
(* The shape of a step                                                     *)

(* A step of clone c leaves the other clones' state alone. *)
Acts(c) ==
    \A d \in Clone \ {c} :
        /\ snapshot'[d] = snapshot[d] /\ pushed'[d] = pushed[d]
        /\ pc'[d] = pc[d] /\ job'[d] = job[d]

(* Nothing is deleted. *)
StoresGrow ==
    /\ Prefix(commits, commits')
    /\ \A s \in Store : holds[s] \subseteq holds'[s]

LEMMA NoJobType == NoJob \in Job
  BY SyncConstantsOK DEF NoJob, Job, RefValue, Missing, NoCommit

LEMMA ObjType == \A k \in Kind, i \in Nat : Obj(k, i) \in Object
  BY DEF Obj, Object

LEMMA SamePrefix ==
    ASSUME commits \in Seq(CommitObject), UNCHANGED commits
    PROVE  Prefix(commits, commits')
  BY DEF Prefix

LEMMA OthersKeep ==
    ASSUME HeldInv, NEW c \in Clone, Acts(c), StoresGrow, NEW d \in Clone \ {c}
    PROVE  JobOK(d)'
  <1>1. pc'[d] = pc[d] /\ job'[d] = job[d] /\ JobOK(d)
    BY DEF Acts, HeldInv
  <1>2. /\ To(d) \in Store /\ To(d)' = To(d) /\ Remote \in Store
        /\ From(d) \in Store /\ From(d)' = From(d)
    BY <1>1 DEF To, From, Store
  <1>3. \A i \in 1 .. Len(commits) : i \in 1 .. Len(commits')
    BY DEF StoresGrow, Prefix, HeldInv, TypeOK
  <1> QED
    BY <1>1, <1>2, <1>3 DEF JobOK, TipAtHand, StoresGrow, Has

(* Heads are held when each ref kept its value or names a held commit. *)
LEMMA HeadsKeep ==
    ASSUME HeldInv, StoresGrow,
           \A s \in Store, b \in Branch :
               \/ ref'[s][b] = ref[s][b]
               \/ ref'[s][b] = NoCommit
               \/ ref'[s][b] \in 1 .. Len(commits') /\ Obj("commit", ref'[s][b]) \in holds'[s]
    PROVE  /\ \A s \in Store, b \in Branch : ref'[s][b] \in Value(commits)'
           /\ HeadsHeld'
  <1>1. Value(commits) \subseteq Value(commits)' /\ NoCommit \in Value(commits)'
    BY DEF StoresGrow, Prefix, HeldInv, TypeOK, Value, Commits
  <1>2. \A s \in Store, b \in Branch : ref'[s][b] \in Value(commits)'
    BY <1>1 DEF HeldInv, Value, Commits
  <1>3. ASSUME NEW s \in Store, NEW b \in Branch, ref'[s][b] \in DOMAIN commits'
        PROVE  Has(s, "commit", ref[s][b])'
    <2>1. CASE ref'[s][b] = ref[s][b]
      <3>1. ref[s][b] \in Value(commits) /\ ref'[s][b] \in 1 .. Len(commits')
        BY <1>3 DEF HeldInv, TypeOK, StoresGrow, Prefix
      <3>2. ref[s][b] \in DOMAIN commits
        BY <2>1, <3>1 DEF HeldInv, TypeOK, Value, Commits, Missing, NoCommit
      <3> QED
        BY <2>1, <3>2 DEF HeldInv, HeadsHeld, Has, StoresGrow
    <2>2. CASE ref'[s][b] = NoCommit
      BY <1>3, <2>2 DEF NoCommit
    <2>3. CASE Obj("commit", ref'[s][b]) \in holds'[s]
      BY <2>3 DEF Has
    <2> QED
      BY <2>1, <2>2, <2>3
  <1> QED
    BY <1>2, <1>3 DEF HeadsHeld

(* What every step of a clone does, as the lemmas below show. *)
Sound(c) == HeldInv' /\ Acts(c) /\ StoresGrow

LEMMA HeldStep ==
    ASSUME HeldInv, NEW c \in Clone, Acts(c), StoresGrow, TypeOK',
           GraphOK(commits)', JobOK(c)',
           \A s \in Store, b \in Branch :
               \/ ref'[s][b] = ref[s][b]
               \/ ref'[s][b] = NoCommit
               \/ ref'[s][b] \in 1 .. Len(commits') /\ Obj("commit", ref'[s][b]) \in holds'[s]
    PROVE  Sound(c)
  <1>1. \A d \in Clone \ {c} : JobOK(d)'
    BY OthersKeep
  <1> QED
    BY <1>1, HeadsKeep DEF HeldInv, Sound

(* A step that writes to no store. *)
LEMMA QuietStep ==
    ASSUME HeldInv, NEW c \in Clone, Acts(c), TypeOK', JobOK(c)',
           UNCHANGED <<commits, holds, ref>>
    PROVE  Sound(c)
  <1>1. StoresGrow
    BY DEF StoresGrow, Prefix, HeldInv, TypeOK
  <1>2. GraphOK(commits)'
    BY DEF HeldInv
  <1> QED
    BY <1>1, <1>2, HeldStep

(* The end of a command, and the next step of a transfer. *)
LEMMA ReturnOK ==
    ASSUME HeldInv, NEW c \in Clone, Return(c)
    PROVE  /\ pc' \in [Clone -> Label] /\ job' \in [Clone -> Job]
           /\ \A d \in Clone \ {c} : pc'[d] = pc[d] /\ job'[d] = job[d]
           /\ JobOK(c)'
  <1>1. pc' = [pc EXCEPT ![c] = "idle"] /\ job' = [job EXCEPT ![c] = NoJob]
    BY DEF Return, Goto
  <1>2. pc' \in [Clone -> Label] /\ pc'[c] = "idle"
    BY <1>1 DEF HeldInv, TypeOK, Label
  <1>3. job' \in [Clone -> Job]
    BY <1>1, NoJobType DEF HeldInv, TypeOK
  <1>4. JobOK(c)'
    BY <1>2 DEF JobOK
  <1> QED
    BY <1>1, <1>2, <1>3, <1>4 DEF HeldInv, TypeOK

LEMMA ProceedOK ==
    ASSUME HeldInv, NEW c \in Clone, pc[c] # "idle",
           NEW todo \in SUBSET Object, Proceed(c, todo),
           Obj("commit", job[c].tip) \in (todo \cap holds'[From(c)]) \cup holds'[To(c)],
           StoresGrow
    PROVE  /\ pc' \in [Clone -> Label] /\ job' \in [Clone -> Job]
           /\ \A d \in Clone \ {c} : pc'[d] = pc[d] /\ job'[d] = job[d]
           /\ JobOK(c)'
  <1>0. /\ pc \in [Clone -> Label] /\ job \in [Clone -> Job] /\ job[c] \in Job
        /\ job[c].tip \in 1 .. Len(commits)
    BY DEF HeldInv, TypeOK, JobOK
  <1>1. job[c].tip \in 1 .. Len(commits')
    BY <1>0 DEF StoresGrow, Prefix, HeldInv, TypeOK
  <1>2. CASE todo = {} /\ job[c].op = "fetch"
    BY <1>2, ReturnOK DEF Proceed
  <1> DEFINE next(label) == /\ pc' = [pc EXCEPT ![c] = label]
                            /\ job' = [job EXCEPT ![c].todo = todo]
  <1>3. ASSUME NEW label \in Label, next(label)
        PROVE  /\ pc' \in [Clone -> Label] /\ job' \in [Clone -> Job]
               /\ \A d \in Clone \ {c} : pc'[d] = pc[d] /\ job'[d] = job[d]
               /\ pc'[c] = label
               /\ job'[c].tip = job[c].tip /\ job'[c].op = job[c].op
               /\ job'[c].todo = todo
    BY <1>0, <1>3 DEF Job
  <1>4. CASE todo # {}
    <2>1. next("copy") /\ "copy" \in Label
      BY <1>4 DEF Proceed, Goto, Label
    <2>2. /\ pc'[c] = "copy" /\ To(c)' = To(c) /\ From(c)' = From(c)
          /\ job'[c].tip = job[c].tip /\ job'[c].todo = todo
      BY <2>1, <1>3 DEF To, From
    <2>3. JobOK(c)'
      BY <2>2, <1>1 DEF JobOK, TipAtHand
    <2> HIDE DEF next
    <2> QED
      BY <2>1, <1>3, <2>3
  <1>5. CASE todo = {} /\ job[c].op # "fetch"
    <2>1. next("forward") /\ "forward" \in Label
      BY <1>5 DEF Proceed, Goto, Label
    <2>2. /\ pc'[c] = "forward" /\ To(c)' = To(c) /\ job'[c].tip = job[c].tip
      BY <2>1, <1>3 DEF To
    <2>3. JobOK(c)'
      BY <2>2, <1>1, <1>5 DEF JobOK, Has
    <2> HIDE DEF next
    <2> QED
      BY <2>1, <1>3, <2>3
  <1> QED
    BY <1>2, <1>4, <1>5

(* A plan has the head, unless the destination does. *)
LEMMA PlanHasTip ==
    ASSUME HeldInv, NEW src \in Store, NEW dst \in Store,
           NEW tip \in 1 .. Len(commits)
    PROVE  LET ids == Collected(src, dst, tip)
               todo == Plan(src, dst, ids)
           IN  /\ todo \in SUBSET Object
               /\ (\A i \in ids : Has(src, "commit", i)) =>
                     Obj("commit", tip) \in (todo \cap holds[src]) \cup holds[dst]
  <1>1. tip \in Chain(commits, tip) /\ Chain(commits, tip) \subseteq 1 .. tip
    BY DEF Chain, HeldInv, TypeOK, GraphOK
  <1>2. Collected(src, dst, tip) \subseteq Nat
    BY <1>1 DEF Collected
  <1>3. Plan(src, dst, Collected(src, dst, tip)) \in SUBSET Object
    BY <1>2 DEF Plan, Object
  <1>4. CASE ~Has(dst, "commit", tip)
    <2>1. tip \in Collected(src, dst, tip)
      BY <1>1, <1>4 DEF Collected
    <2>2. Obj("commit", tip) \in [kind : Kind, of : Collected(src, dst, tip)]
      BY <2>1 DEF Obj, Kind
    <2>3. Obj("commit", tip).kind = "commit"
      BY DEF Obj
    <2> QED
      BY <1>3, <1>4, <2>1, <2>2, <2>3 DEF Plan, Has
  <1>5. CASE Has(dst, "commit", tip)
    BY <1>3, <1>5 DEF Has
  <1> QED
    BY <1>4, <1>5

----------------------------------------------------------------------------
(* A clone's own commands                                                  *)

LEMMA MakeCommitOK ==
    ASSUME HeldInv, NEW c \in Clone, NEW b \in Branch,
           NEW second \in Commits(commits),
           ref[c][b] # Missing, pc[c] = "idle", MakeCommit(c, b, second),
           UNCHANGED <<snapshot, pushed, pc, job>>
    PROVE  Sound(c)
  <1> DEFINE n == Len(commits) + 1
  <1>1. /\ commits' = Append(commits, NewCommit(commits, ref[c][b], second))
        /\ holds' = [holds EXCEPT ![c] = @ \cup AllOf(n)]
        /\ ref' = [ref EXCEPT ![c][b] = n]
    BY DEF MakeCommit
  <1>2. c \in Store /\ n \in Nat
    BY DEF Store, HeldInv, TypeOK
  <1>3. ref[c][b] \in Commits(commits)
    BY <1>2 DEF HeldInv, Value
  <1>4. /\ commits' \in Seq(CommitObject) /\ Prefix(commits, commits')
        /\ GraphOK(commits) '
    BY <1>1, <1>3, NewCommitKeepsGraph DEF HeldInv, TypeOK
  <1>5. AllOf(n) \subseteq Object /\ Obj("commit", n) \in AllOf(n)
    BY <1>2, ObjType DEF AllOf, Kind
  <1>6. holds' \in [Store -> SUBSET Object] /\ \A s \in Store : holds[s] \subseteq holds'[s]
    BY <1>1, <1>2, <1>5 DEF HeldInv, TypeOK
  <1>7. ref' \in [Store -> [Branch -> RefValue]]
    BY <1>1, <1>2 DEF HeldInv, TypeOK, RefValue
  <1>8. TypeOK'
    BY <1>4, <1>6, <1>7 DEF HeldInv, TypeOK
  <1>9. Acts(c) /\ StoresGrow
    BY <1>4, <1>6 DEF Acts, StoresGrow
  <1>10. JobOK(c)'
    BY DEF JobOK
  <1>11. \A s \in Store, d \in Branch :
            \/ ref'[s][d] = ref[s][d]
            \/ ref'[s][d] \in 1 .. Len(commits') /\ Obj("commit", ref'[s][d]) \in holds'[s]
    <2>1. n \in 1 .. Len(commits')
      BY <1>1, <1>2, <1>4 DEF HeldInv, TypeOK
    <2>2. Obj("commit", n) \in holds'[c]
      BY <1>1, <1>2, <1>5 DEF HeldInv, TypeOK
    <2>3. \A s \in Store, d \in Branch :
             ref'[s][d] = ref[s][d] \/ (s = c /\ d = b /\ ref'[s][d] = n)
      BY <1>1, <1>2 DEF HeldInv, TypeOK
    <2> HIDE DEF n
    <2> QED
      BY <2>1, <2>2, <2>3
  <1> QED
    BY <1>4, <1>8, <1>9, <1>10, <1>11, HeldStep

LEMMA CommandOK ==
    ASSUME HeldInv, NEW c \in Clone, Command(c)
    PROVE  Sound(c)
  <1>0. c \in Store /\ Remote \in Store
    BY DEF Store
  <1>1. ASSUME NEW b \in Branch, Commit(c, b)
        PROVE  Sound(c)
    BY <1>1, MakeCommitOK DEF Commit, Commits
  <1>2. ASSUME NEW b \in Branch, NEW from \in Branch, CreateBranch(c, b, from)
        PROVE  Sound(c)
    <2>1. ref' = [ref EXCEPT ![c][b] = ref[c][from]]
          /\ UNCHANGED <<commits, holds, snapshot, pushed, pc, job>> /\ pc[c] = "idle"
      BY <1>2 DEF CreateBranch
    <2>2. TypeOK'
      BY <1>0, <2>1 DEF HeldInv, TypeOK
    <2>3. Acts(c) /\ StoresGrow /\ JobOK(c)' /\ GraphOK(commits)'
      BY <2>1 DEF Acts, StoresGrow, Prefix, JobOK, HeldInv, TypeOK
    <2>4. \A s \in Store, d \in Branch :
             \/ ref'[s][d] = ref[s][d]
             \/ s = c /\ ref'[s][d] = ref[c][from]
      BY <1>0, <2>1 DEF HeldInv, TypeOK
    <2>5. \/ ref[c][from] = NoCommit
          \/ ref[c][from] \in 1 .. Len(commits') /\ Obj("commit", ref[c][from]) \in holds'[c]
      <3>1. ref[c][from] \in Value(commits) /\ ref[c][from] # Missing
        BY <1>0, <1>2 DEF HeldInv, CreateBranch
      <3> QED
        BY <1>0, <2>1, <3>1 DEF HeldInv, TypeOK, HeadsHeld, Has, Value, Commits
    <2> QED
      BY <2>2, <2>3, <2>4, <2>5, HeldStep
  <1>3. ASSUME NEW b \in Branch, NEW s \in DOMAIN commits, Merge(c, b, s)
        PROVE  Sound(c)
    <2>1. CASE MakeCommit(c, b, s)
      <3>1. ref[c][b] # Missing /\ s \in Commits(commits)
        BY <1>3 DEF Merge, HeldInv, TypeOK, Commits, Missing
      <3> QED
        BY <1>3, <2>1, <3>1, MakeCommitOK DEF Merge
    <2>2. CASE ~MakeCommit(c, b, s)
      <3>1. /\ ref' = [ref EXCEPT ![c][b] = s] /\ pc[c] = "idle"
            /\ UNCHANGED <<commits, holds, snapshot, pushed, pc, job>>
            /\ Obj("commit", s) \in holds[c] /\ s \in 1 .. Len(commits)
        BY <1>3, <2>2 DEF Merge, Has, HeldInv, TypeOK
      <3>2. TypeOK'
        BY <1>0, <3>1 DEF HeldInv, TypeOK, RefValue
      <3>3. Acts(c) /\ StoresGrow /\ JobOK(c)' /\ GraphOK(commits)'
        BY <3>1 DEF Acts, StoresGrow, Prefix, JobOK, HeldInv, TypeOK
      <3>4. \A t \in Store, d \in Branch :
               ref'[t][d] = ref[t][d] \/ (t = c /\ ref'[t][d] = s)
        BY <1>0, <3>1 DEF HeldInv, TypeOK
      <3> QED
        BY <3>1, <3>2, <3>3, <3>4, HeldStep
    <2> QED
      BY <2>1, <2>2
  <1>4. ASSUME NEW b \in Branch, NEW tip \in 1 .. Len(commits),
               NEW op \in {"push", "pull", "fetch"},
               NEW label \in {"ensure", "check", "plan"},
               Start(c, op, b, tip, label), commits' = commits
        PROVE  /\ pc' \in [Clone -> Label] /\ job' \in [Clone -> Job]
               /\ \A d \in Clone \ {c} : pc'[d] = pc[d] /\ job'[d] = job[d]
               /\ JobOK(c)'
    <2> DEFINE j == [NoJob EXCEPT !.op = op, !.branch = b, !.tip = tip]
    <2> DEFINE j1 == [NoJob EXCEPT !.op = op]
               j2 == [j1 EXCEPT !.branch = b]
               j3 == [j2 EXCEPT !.tip = tip]
    <2>1. j \in Job /\ j.tip = tip
      <3>1. j1 \in Job
        BY NoJobType DEF Job
      <3> HIDE DEF j1
      <3>2. j2 \in Job
        BY <3>1 DEF Job
      <3> HIDE DEF j2
      <3> HIDE DEF j
      <3>3. j3 \in Job /\ j3.tip = tip
        <4>1. tip \in Nat
          BY DEF HeldInv, TypeOK
        <4> QED
          BY <3>2, <4>1 DEF Job
      <3>4. j = j3
        BY DEF j, j1, j2
      <3> QED
        BY <3>3, <3>4
    <2>2. pc' = [pc EXCEPT ![c] = label] /\ job' = [job EXCEPT ![c] = j]
      BY <1>4 DEF Start, Goto
    <2> HIDE DEF j
    <2>3. pc'[c] = label /\ job'[c] = j
      BY <2>2 DEF HeldInv, TypeOK
    <2>4. JobOK(c)'
      BY <1>4, <2>1, <2>3 DEF JobOK
    <2> QED
      BY <2>1, <2>2, <2>4 DEF HeldInv, TypeOK, Label
  <1>5. ASSUME NEW b \in Branch, StartPush(c, b)
        PROVE  Sound(c)
    <2>1. ref[c][b] \in 1 .. Len(commits)
      BY <1>5 DEF StartPush, HeldInv, TypeOK
    <2>2. \E label \in {"ensure", "check", "plan"} : Start(c, "push", b, ref[c][b], label)
      BY <1>5 DEF StartPush
    <2>3. UNCHANGED <<commits, holds, ref, snapshot, pushed>>
      BY <1>5 DEF StartPush
    <2>4. Acts(c) /\ TypeOK' /\ JobOK(c)'
      BY <1>4, <2>1, <2>2, <2>3 DEF Acts, HeldInv, TypeOK
    <2> QED
      BY <2>3, <2>4, QuietStep
  <1>6. ASSUME NEW b \in Branch, StartFetch(c, b)
        PROVE  Sound(c)
    <2>1. ref[Remote][b] \in 1 .. Len(commits)
      BY <1>6 DEF StartFetch, HeldInv, TypeOK
    <2>2. Start(c, "fetch", b, ref[Remote][b], "plan")
          /\ UNCHANGED <<commits, holds, ref, snapshot, pushed>>
      BY <1>6 DEF StartFetch
    <2>3. Acts(c) /\ TypeOK' /\ JobOK(c)'
      BY <1>4, <2>1, <2>2 DEF Acts, HeldInv, TypeOK
    <2> QED
      BY <2>2, <2>3, QuietStep
  <1>7. ASSUME NEW b \in Branch, StartPull(c, b)
        PROVE  Sound(c)
    <2> DEFINE local == IF ref[c][b] = Missing THEN NoCommit ELSE ref[c][b]
    <2>1. /\ pc[c] = "idle" /\ ref' = [ref EXCEPT ![c][b] = local]
          /\ UNCHANGED <<commits, holds, snapshot, pushed>>
          /\ ref[Remote][b] \in 1 .. Len(commits)
      BY <1>7 DEF StartPull, HeldInv, TypeOK
    <2>2. \/ Start(c, "pull", b, ref[Remote][b], "plan")
          \/ UNCHANGED <<pc, job>>
      BY <1>7 DEF StartPull
    <2>3. /\ pc' \in [Clone -> Label] /\ job' \in [Clone -> Job]
          /\ \A d \in Clone \ {c} : pc'[d] = pc[d] /\ job'[d] = job[d]
          /\ JobOK(c)'
      <3>1. CASE Start(c, "pull", b, ref[Remote][b], "plan")
        BY <1>4, <2>1, <3>1
      <3>2. CASE UNCHANGED <<pc, job>>
        BY <2>1, <3>2 DEF HeldInv, TypeOK, JobOK
      <3> QED
        BY <2>2, <3>1, <3>2
    <2>4. ref' \in [Store -> [Branch -> RefValue]]
      BY <1>0, <2>1 DEF HeldInv, TypeOK, RefValue, NoCommit
    <2>5. TypeOK' /\ Acts(c) /\ StoresGrow /\ GraphOK(commits)'
      BY <2>1, <2>3, <2>4 DEF HeldInv, TypeOK, Acts, StoresGrow, Prefix
    <2>6. \A s \in Store, d \in Branch : ref'[s][d] = ref[s][d] \/ ref'[s][d] = NoCommit
      BY <1>0, <2>1 DEF HeldInv, TypeOK
    <2> QED
      BY <2>3, <2>5, <2>6, HeldStep
  <1> QED
    BY <1>1, <1>2, <1>3, <1>5, <1>6, <1>7 DEF Command

----------------------------------------------------------------------------
(* The steps of a transfer                                                 *)

(* An action that returns, having at most copied something. *)
LEMMA EndOK ==
    ASSUME HeldInv, NEW c \in Clone, Return(c), StoresGrow,
           holds' \in [Store -> SUBSET Object],
           UNCHANGED <<commits, ref>>,
           snapshot' \in [Clone -> [Branch -> RefValue]],
           pushed' \in [Clone -> SUBSET [branch : Branch, new : Nat]],
           \A d \in Clone \ {c} : snapshot'[d] = snapshot[d] /\ pushed'[d] = pushed[d]
    PROVE  Sound(c)
  <1>1. TypeOK' /\ Acts(c) /\ JobOK(c)' /\ GraphOK(commits)'
    BY ReturnOK DEF HeldInv, TypeOK, Acts
  <1> QED
    BY <1>1, HeldStep

(* One that copies objects, or none, and goes on. *)
LEMMA GoOnOK ==
    ASSUME HeldInv, NEW c \in Clone, pc[c] # "idle", StoresGrow,
           NEW todo \in SUBSET Object, Proceed(c, todo),
           Obj("commit", job[c].tip) \in (todo \cap holds'[From(c)]) \cup holds'[To(c)],
           holds' \in [Store -> SUBSET Object],
           UNCHANGED <<commits, ref, snapshot, pushed>>
    PROVE  Sound(c)
  <1>1. TypeOK' /\ Acts(c) /\ JobOK(c)' /\ GraphOK(commits)'
    BY ProceedOK DEF HeldInv, TypeOK, Acts
  <1> QED
    BY <1>1, HeldStep

(* Some of what the plan has left, written to the destination. *)
LEMMA CopiedOK ==
    ASSUME HeldInv, NEW c \in Clone, NEW done \in SUBSET job[c].todo,
           holds' = [holds EXCEPT ![To(c)] = @ \cup done],
           UNCHANGED commits
    PROVE  /\ holds' \in [Store -> SUBSET Object] /\ StoresGrow
           /\ holds'[To(c)] = holds[To(c)] \cup done
  <1>1. job[c].todo \in SUBSET Object /\ To(c) \in Store
    BY DEF HeldInv, TypeOK, Job, To, Store
  <1>2. done \in SUBSET Object
    BY <1>1
  <1>3. holds \in [Store -> SUBSET Object]
    BY DEF HeldInv, TypeOK
  <1>4. Prefix(commits, commits')
    BY SamePrefix DEF HeldInv, TypeOK
  <1> QED
    BY <1>1, <1>2, <1>3, <1>4 DEF StoresGrow

LEMMA UntouchedOK ==
    ASSUME HeldInv, UNCHANGED <<commits, holds>>
    PROVE  holds' \in [Store -> SUBSET Object] /\ StoresGrow
  BY SamePrefix DEF StoresGrow, HeldInv, TypeOK

LEMMA MakePlanOK ==
    ASSUME HeldInv, NEW c \in Clone, MakePlan(c)
    PROVE  Sound(c)
  <1> DEFINE todo == Plan(From(c), To(c), Collected(From(c), To(c), job[c].tip))
  <1>1. pc[c] # "idle" /\ UNCHANGED <<commits, holds, ref, snapshot, pushed>>
        /\ \/ /\ Proceed(c, todo)
              /\ \A i \in Collected(From(c), To(c), job[c].tip) : Has(From(c), "commit", i)
           \/ Return(c)
    BY DEF MakePlan
  <1>2. From(c) \in Store /\ To(c) \in Store /\ job[c].tip \in 1 .. Len(commits)
    BY <1>1 DEF From, To, Store, HeldInv, JobOK
  <1>3. todo \in SUBSET Object
    BY <1>2, PlanHasTip
  <1>4. CASE Return(c)
    BY <1>1, <1>4, UntouchedOK, EndOK DEF HeldInv, TypeOK
  <1>5. CASE /\ Proceed(c, todo)
             /\ \A i \in Collected(From(c), To(c), job[c].tip) : Has(From(c), "commit", i)
    <2>1. Obj("commit", job[c].tip) \in (todo \cap holds[From(c)]) \cup holds[To(c)]
      BY <1>2, <1>5, PlanHasTip
    <2>2. holds' = holds
      BY <1>1
    <2> HIDE DEF todo
    <2> QED
      BY <1>1, <1>3, <1>5, <2>1, <2>2, UntouchedOK, GoOnOK
  <1> QED
    BY <1>1, <1>4, <1>5

LEMMA CopyOK ==
    ASSUME HeldInv, NEW c \in Clone, Copy(c)
    PROVE  Sound(c)
  <1>1. pc[c] = "copy" /\ UNCHANGED <<commits, ref, snapshot, pushed>>
    BY DEF Copy
  <1>2. /\ Obj("commit", job[c].tip) \in (job[c].todo \cap holds[From(c)]) \cup holds[To(c)]
        /\ job[c].todo \in SUBSET Object
        /\ From(c) \in Store
    BY <1>1 DEF HeldInv, JobOK, TipAtHand, TypeOK, Job, From, Store
  <1>3. PICK o \in job[c].todo :
           \/ Copied(c, o) /\ Proceed(c, job[c].todo \ {o})
           \/ Return(c) /\ UNCHANGED holds
           \/ /\ o \notin holds[From(c)]
              /\ Proceed(c, job[c].todo \ {o}) /\ UNCHANGED holds
    BY DEF Copy
  <1>4. CASE Copied(c, o) /\ Proceed(c, job[c].todo \ {o})
    <2>1. holds' = [holds EXCEPT ![To(c)] = @ \cup {o}] /\ {o} \in SUBSET job[c].todo
      BY <1>3, <1>4 DEF Copied
    <2>2. /\ holds' \in [Store -> SUBSET Object] /\ StoresGrow
          /\ holds'[To(c)] = holds[To(c)] \cup {o}
      BY <1>1, <2>1, CopiedOK
    <2>3. Obj("commit", job[c].tip) \in
             ((job[c].todo \ {o}) \cap holds'[From(c)]) \cup holds'[To(c)]
      BY <1>2, <2>2 DEF StoresGrow
    <2> QED
      BY <1>1, <1>2, <1>4, <2>2, <2>3, GoOnOK
  <1>5. CASE Return(c) /\ UNCHANGED holds
    BY <1>1, <1>5, UntouchedOK, EndOK DEF HeldInv, TypeOK
  <1>6. CASE /\ o \notin holds[From(c)]
             /\ Proceed(c, job[c].todo \ {o}) /\ UNCHANGED holds
    <2>1. Obj("commit", job[c].tip) \in
             ((job[c].todo \ {o}) \cap holds'[From(c)]) \cup holds'[To(c)]
      BY <1>2, <1>6
    <2> QED
      BY <1>1, <1>2, <1>6, <2>1, UntouchedOK, GoOnOK
  <1> QED
    BY <1>3, <1>4, <1>5, <1>6

LEMMA CopyAnswerLostOK ==
    ASSUME HeldInv, NEW c \in Clone, CopyAnswerLost(c)
    PROVE  Sound(c)
  <1>1. Return(c) /\ UNCHANGED <<commits, ref, snapshot, pushed>>
    BY DEF CopyAnswerLost
  <1>2. PICK o \in job[c].todo : holds' = [holds EXCEPT ![To(c)] = @ \cup {o}]
    BY DEF CopyAnswerLost, Copied
  <1>3. {o} \in SUBSET job[c].todo
    BY <1>2
  <1>4. holds' \in [Store -> SUBSET Object] /\ StoresGrow
    BY <1>1, <1>2, <1>3, CopiedOK
  <1> QED
    BY <1>1, <1>4, EndOK DEF HeldInv, TypeOK

LEMMA CopyBatchOK ==
    ASSUME HeldInv, NEW c \in Clone, CopyBatch(c)
    PROVE  Sound(c)
  <1>1. pc[c] = "copy" /\ UNCHANGED <<commits, ref, snapshot, pushed>>
    BY DEF CopyBatch
  <1>2. PICK done \in SUBSET job[c].todo :
           /\ holds' = [holds EXCEPT ![To(c)] = @ \cup done]
           /\ \/ done = job[c].todo /\ Proceed(c, {})
              \/ Return(c)
    BY DEF CopyBatch
  <1>3. /\ holds' \in [Store -> SUBSET Object] /\ StoresGrow
        /\ holds'[To(c)] = holds[To(c)] \cup done
    BY <1>1, <1>2, CopiedOK
  <1>4. CASE done = job[c].todo /\ Proceed(c, {})
    <2>1. Obj("commit", job[c].tip) \in ({} \cap holds'[From(c)]) \cup holds'[To(c)]
      BY <1>1, <1>3, <1>4 DEF HeldInv, JobOK, TipAtHand
    <2> QED
      BY <1>1, <1>3, <1>4, <2>1, GoOnOK
  <1>5. CASE Return(c)
    BY <1>1, <1>3, <1>5, EndOK DEF HeldInv, TypeOK
  <1> QED
    BY <1>2, <1>4, <1>5

(* A step to one of the places where nothing is claimed of the stores. *)
LEMMA MoveOK ==
    ASSUME HeldInv, NEW c \in Clone, pc[c] # "idle",
           NEW label \in {"check", "plan", "conflict", "refresh", "reflog"},
           Goto(c, label), UNCHANGED job, StoresGrow
    PROVE  /\ pc' \in [Clone -> Label] /\ job' \in [Clone -> Job]
           /\ \A d \in Clone \ {c} : pc'[d] = pc[d] /\ job'[d] = job[d]
           /\ JobOK(c)'
  <1>1. pc' = [pc EXCEPT ![c] = label] /\ pc'[c] = label
    BY DEF Goto, HeldInv, TypeOK
  <1>2. job[c].tip \in 1 .. Len(commits')
    BY DEF HeldInv, JobOK, TypeOK, StoresGrow, Prefix
  <1>3. JobOK(c)'
    BY <1>1, <1>2 DEF JobOK
  <1> QED
    BY <1>1, <1>3 DEF HeldInv, TypeOK, Label

(* The put of the head into the remote's ref. *)
LEMMA PutOK ==
    ASSUME HeldInv, NEW c \in Clone, pc[c] = "cas",
           NEW label \in {"refresh", "conflict"}, Goto(c, label),
           \/ ref' = [ref EXCEPT ![Remote][job[c].branch] = job[c].tip]
           \/ UNCHANGED ref,
           UNCHANGED <<commits, holds, snapshot, pushed, job>>
    PROVE  Sound(c)
  <1>1. /\ job[c].tip \in 1 .. Len(commits) /\ job[c].branch \in Branch
        /\ Obj("commit", job[c].tip) \in holds[Remote] /\ Remote \in Store
    BY DEF HeldInv, JobOK, Has, TypeOK, Job, Store
  <1>2. StoresGrow
    BY UntouchedOK
  <1>3. TypeOK' /\ Acts(c) /\ JobOK(c)' /\ GraphOK(commits)'
    <2>1. ref' \in [Store -> [Branch -> RefValue]]
      <3>1. job[c].tip \in RefValue /\ ref \in [Store -> [Branch -> RefValue]]
        BY <1>1 DEF HeldInv, TypeOK, RefValue
      <3> QED
        BY <1>1, <3>1
    <2> QED
      BY <1>2, <2>1, MoveOK DEF HeldInv, TypeOK, Acts
  <1>4. \A s \in Store, b \in Branch :
           \/ ref'[s][b] = ref[s][b]
           \/ s = Remote /\ ref'[s][b] = job[c].tip
    BY <1>1 DEF HeldInv, TypeOK
  <1> QED
    BY <1>1, <1>2, <1>3, <1>4, HeldStep DEF HeldInv, TypeOK

LEMMA ForwardRemoteOK ==
    ASSUME HeldInv, NEW c \in Clone, ForwardRemote(c)
    PROVE  Sound(c)
  <1> DEFINE b == job[c].branch
             state == RemoteState(c, b)
  <1>1. /\ pc[c] = "forward" /\ job[c].op = "push"
        /\ snapshot' = [snapshot EXCEPT ![c][b] = state]
        /\ UNCHANGED <<commits, holds, ref, pushed>>
        /\ \/ Return(c)
           \/ Goto(c, "cas") /\ job' = [job EXCEPT ![c].exp = state]
    BY DEF ForwardRemote
  <1>2. b \in Branch /\ job[c] \in Job /\ Remote \in Store
    BY DEF HeldInv, TypeOK, Job, Store
  <1>3. state \in RefValue
    BY <1>2 DEF RemoteState, HeldInv, TypeOK
  <1>4. Has(Remote, "commit", job[c].tip) /\ job[c].tip \in 1 .. Len(commits)
    BY <1>1 DEF HeldInv, JobOK, To
  <1> HIDE DEF b, state
  <1>5. snapshot' \in [Clone -> [Branch -> RefValue]]
        /\ \A d \in Clone \ {c} : snapshot'[d] = snapshot[d] /\ pushed'[d] = pushed[d]
    BY <1>1, <1>2, <1>3 DEF HeldInv, TypeOK
  <1>6. CASE Return(c)
    BY <1>1, <1>5, <1>6, UntouchedOK, EndOK DEF HeldInv, TypeOK
  <1>7. CASE Goto(c, "cas") /\ job' = [job EXCEPT ![c].exp = state]
    <2>1. /\ job' \in [Clone -> Job] /\ job'[c].tip = job[c].tip
          /\ \A d \in Clone \ {c} : job'[d] = job[d]
      BY <1>2, <1>3, <1>7 DEF HeldInv, TypeOK, Job
    <2>2. /\ pc' \in [Clone -> Label] /\ pc'[c] = "cas"
          /\ \A d \in Clone \ {c} : pc'[d] = pc[d]
      BY <1>7 DEF HeldInv, TypeOK, Goto, Label
    <2>3. JobOK(c)'
      BY <1>1, <1>4, <2>1, <2>2 DEF JobOK, Has
    <2>4. TypeOK' /\ Acts(c)
      BY <1>1, <1>5, <2>1, <2>2 DEF HeldInv, TypeOK, Acts
    <2> QED
      BY <1>1, <2>3, <2>4, QuietStep
  <1> QED
    BY <1>1, <1>6, <1>7

LEMMA StepOK ==
    ASSUME HeldInv, NEW c \in Clone, Step(c)
    PROVE  Sound(c)
  <1>0. c \in Store /\ Remote \in Store /\ job[c].branch \in Branch /\ job[c].tip \in Nat
    BY DEF Store, HeldInv, TypeOK, Job
  <1>1. CASE Ensure(c)
    <2>1. /\ pc[c] = "ensure" /\ Goto(c, "check")
          /\ ref' = [ref EXCEPT ![Remote][job[c].branch] = NoCommit]
          /\ UNCHANGED <<commits, holds, snapshot, pushed, job>>
      BY <1>1 DEF Ensure
    <2>2. StoresGrow
      BY <2>1, UntouchedOK
    <2>3. ref' \in [Store -> [Branch -> RefValue]]
      BY <1>0, <2>1 DEF HeldInv, TypeOK, RefValue, NoCommit
    <2>4. TypeOK' /\ Acts(c) /\ JobOK(c)' /\ GraphOK(commits)'
      BY <2>1, <2>2, <2>3, MoveOK DEF HeldInv, TypeOK, Acts
    <2>5. \A s \in Store, b \in Branch : ref'[s][b] = ref[s][b] \/ ref'[s][b] = NoCommit
      BY <1>0, <2>1 DEF HeldInv, TypeOK
    <2> QED
      BY <2>2, <2>4, <2>5, HeldStep
  <1>2. CASE CheckPush(c)
    <2>1. pc[c] = "check" /\ UNCHANGED <<commits, holds, ref, snapshot, pushed>>
          /\ (Return(c) \/ (Goto(c, "plan") /\ UNCHANGED job))
      BY <1>2 DEF CheckPush
    <2>2. StoresGrow
      BY <2>1, UntouchedOK
    <2>3. CASE Return(c)
      BY <2>1, <2>2, <2>3, EndOK DEF HeldInv, TypeOK
    <2>4. CASE Goto(c, "plan") /\ UNCHANGED job
      BY <2>1, <2>2, <2>4, MoveOK, QuietStep DEF HeldInv, TypeOK, Acts
    <2> QED
      BY <2>1, <2>3, <2>4
  <1>3. CASE MakePlan(c)
    BY <1>3, MakePlanOK
  <1>4. CASE Copy(c)
    BY <1>4, CopyOK
  <1>5. CASE CopyAnswerLost(c)
    BY <1>5, CopyAnswerLostOK
  <1>6. CASE CopyBatch(c)
    BY <1>6, CopyBatchOK
  <1>7. CASE ForwardLocal(c)
    <2>1. /\ pc[c] = "forward" /\ job[c].op = "pull" /\ Return(c)
          /\ \/ ref' = [ref EXCEPT ![c][job[c].branch] = job[c].tip]
             \/ UNCHANGED ref
          /\ UNCHANGED <<commits, holds, snapshot, pushed>>
      BY <1>7 DEF ForwardLocal
    <2>2. StoresGrow
      BY <2>1, UntouchedOK
    <2>3. Obj("commit", job[c].tip) \in holds[c] /\ job[c].tip \in 1 .. Len(commits)
      BY <2>1 DEF HeldInv, JobOK, To, Has
    <2>4. ref' \in [Store -> [Branch -> RefValue]]
      <3>1. job[c].tip \in RefValue /\ ref \in [Store -> [Branch -> RefValue]]
        BY <1>0 DEF HeldInv, TypeOK, RefValue
      <3> QED
        BY <1>0, <2>1, <3>1
    <2>5. TypeOK' /\ Acts(c) /\ JobOK(c)' /\ GraphOK(commits)'
      BY <2>1, <2>4, ReturnOK DEF HeldInv, TypeOK, Acts
    <2>6. \A s \in Store, b \in Branch :
             ref'[s][b] = ref[s][b] \/ (s = c /\ ref'[s][b] = job[c].tip)
      BY <1>0, <2>1 DEF HeldInv, TypeOK
    <2> QED
      BY <2>1, <2>2, <2>3, <2>5, <2>6, HeldStep DEF HeldInv, TypeOK
  <1>8. CASE ForwardRemote(c)
    BY <1>8, ForwardRemoteOK
  <1>9. CASE Cas(c)
    BY <1>9, PutOK DEF Cas
  <1>10. CASE CasAnswerLost(c)
    BY <1>10, PutOK DEF CasAnswerLost
  <1>11. CASE Conflict(c)
    <2>1. /\ Return(c) /\ UNCHANGED <<commits, holds, ref, pushed>>
          /\ snapshot' = [snapshot EXCEPT ![c][job[c].branch] = ref[Remote][job[c].branch]]
      BY <1>11 DEF Conflict
    <2>2. snapshot' \in [Clone -> [Branch -> RefValue]]
          /\ \A d \in Clone \ {c} : snapshot'[d] = snapshot[d]
      BY <1>0, <2>1 DEF HeldInv, TypeOK
    <2> QED
      BY <2>1, <2>2, UntouchedOK, EndOK DEF HeldInv, TypeOK
  <1>12. CASE Refresh(c)
    <2>1. /\ pc[c] = "refresh" /\ Goto(c, "reflog")
          /\ UNCHANGED <<commits, holds, ref, pushed, job>>
          /\ snapshot' = [snapshot EXCEPT ![c][job[c].branch] = ref[Remote][job[c].branch]]
      BY <1>12 DEF Refresh
    <2>2. snapshot' \in [Clone -> [Branch -> RefValue]]
          /\ \A d \in Clone \ {c} : snapshot'[d] = snapshot[d]
      BY <1>0, <2>1 DEF HeldInv, TypeOK
    <2> QED
      BY <2>1, <2>2, UntouchedOK, MoveOK, QuietStep DEF HeldInv, TypeOK, Acts
  <1>13. CASE AppendReflog(c)
    <2> DEFINE e == [branch |-> job[c].branch, new |-> job[c].tip]
    <2>1. /\ Return(c) /\ UNCHANGED <<commits, holds, ref, snapshot>>
          /\ pushed' = [pushed EXCEPT ![c] = @ \cup {e}]
      BY <1>13 DEF AppendReflog
    <2>2. e \in [branch : Branch, new : Nat]
      BY <1>0
    <2> HIDE DEF e
    <2>3. pushed' \in [Clone -> SUBSET [branch : Branch, new : Nat]]
          /\ \A d \in Clone \ {c} : pushed'[d] = pushed[d]
      BY <2>1, <2>2 DEF HeldInv, TypeOK
    <2> QED
      BY <2>1, <2>3, UntouchedOK, EndOK DEF HeldInv, TypeOK
  <1> QED
    BY <1>1, <1>2, <1>3, <1>4, <1>5, <1>6, <1>7, <1>8, <1>9, <1>10, <1>11,
       <1>12, <1>13 DEF Step

LEMMA StopOK ==
    ASSUME HeldInv, NEW c \in Clone, Stop(c)
    PROVE  Sound(c)
  BY UntouchedOK, EndOK DEF Stop, HeldInv, TypeOK

LEMMA HeldInit == Init => HeldInv
  <1> SUFFICES ASSUME Init PROVE HeldInv
    OBVIOUS
  <1>1. TypeOK
    BY NoJobType, SyncConstantsOK DEF Init, TypeOK, RefValue, Missing, NoCommit, Label
  <1>2. GraphOK(commits) /\ \A s \in Store, b \in Branch : ref[s][b] \in Value(commits)
    BY DEF Init, GraphOK, Value, Commits
  <1>3. HeadsHeld /\ \A c \in Clone : JobOK(c)
    BY DEF Init, HeadsHeld, JobOK
  <1> QED
    BY <1>1, <1>2, <1>3 DEF HeldInv

LEMMA HeldNext == HeldInv /\ [Next]_vars => HeldInv'
  <1> SUFFICES ASSUME HeldInv, [Next]_vars PROVE HeldInv'
    OBVIOUS
  <1>1. CASE UNCHANGED vars
    BY <1>1 DEF vars, HeldInv, TypeOK, HeadsHeld, JobOK, TipAtHand, Has, To, From
  <1>2. ASSUME NEW c \in Clone, Stop(c)
        PROVE  HeldInv'
    BY <1>2, StopOK DEF Sound
  <1> QED
    BY <1>1, <1>2, CommandOK, StepOK DEF Next, Sound

(* Every variable keeps its type, whatever is transferred how. *)
THEOREM SyncTypeCorrect == Spec => []TypeOK
  <1>1. HeldInv => TypeOK
    BY DEF HeldInv
  <1> QED
    BY <1>1, HeldInit, HeldNext, PTL DEF Spec

(* A ref never names a commit its store lacks: a plan has the head unless  *)
(* the destination has it, and only a transfer that copied all of its plan *)
(* moves the ref.  Holds of batches that fail half way too.                *)
THEOREM HeadsAlwaysHeld == Spec => []HeadsHeld
  <1>1. HeldInv => HeadsHeld
    BY DEF HeldInv
  <1> QED
    BY <1>1, HeldInit, HeldNext, PTL DEF Spec

----------------------------------------------------------------------------
(* Whole histories, when objects are copied one by one                     *)

ObjectsOf(ids) == {Obj(kind, i) : kind \in Kind, i \in ids}

(* A store with a commit has everything its history is made of. *)
WholeHistories ==
    \A s \in Store : \A i \in 1 .. Len(commits) :
        Has(s, "commit", i) => ObjectsOf(Chain(commits, i)) \subseteq holds[s]

(* Nothing is held that no clone has written. *)
OnlyWritten ==
    \A s \in Store : \A o \in holds[s] : o.of \in 1 .. Len(commits)

(* What is left of a plan is at the source, and a commit in it is preceded *)
(* there or at the destination by its history.                             *)
TransferOK(c) ==
    pc[c] = "copy" =>
        /\ job[c].todo \subseteq holds[From(c)]
        /\ \A i \in 1 .. Len(commits) : Obj("commit", i) \in job[c].todo =>
              ObjectsOf(Chain(commits, i)) \subseteq job[c].todo \cup holds[To(c)]

WholeInv ==
    /\ HeldInv
    /\ Linear(commits)
    /\ WholeHistories
    /\ OnlyWritten
    /\ \A c \in Clone : TransferOK(c)

LEMMA OfObj == \A kind, i : Obj(kind, i).kind = kind /\ Obj(kind, i).of = i
  BY DEF Obj

(* The step of a clone that writes no commit object. *)
LEMMA OthersTransfer ==
    ASSUME WholeInv, NEW c \in Clone, Sound(c), NEW d \in Clone \ {c}
    PROVE  TransferOK(d)'
  <1>1. pc'[d] = pc[d] /\ job'[d] = job[d] /\ TransferOK(d)
    BY DEF Sound, Acts, WholeInv
  <1>2. /\ From(d) \in Store /\ To(d) \in Store
        /\ From(d)' = From(d) /\ To(d)' = To(d)
    BY <1>1 DEF From, To, Store
  <1>3. /\ \A s \in Store : holds[s] \subseteq holds'[s]
        /\ Len(commits) \in Nat /\ Len(commits') \in Nat
        /\ \A i \in 1 .. Len(commits) :
              i \in 1 .. Len(commits') /\ Chain(commits', i) = Chain(commits, i)
    <2>1. commits \in Seq(CommitObject) /\ commits' \in Seq(CommitObject)
      BY DEF Sound, WholeInv, HeldInv, TypeOK
    <2>2. Prefix(commits, commits') /\ \A s \in Store : holds[s] \subseteq holds'[s]
      BY DEF Sound, StoresGrow
    <2>3. \A i \in 1 .. Len(commits) : i \in Value(commits)
      BY DEF Value, Commits
    <2>4. \A i \in 1 .. Len(commits) : Chain(commits', i) = Chain(commits, i)
      BY <2>1, <2>2, <2>3, ChainPrefix
    <2> QED
      BY <2>1, <2>2, <2>4 DEF Prefix
  <1>4. ASSUME pc[d] = "copy", NEW i \in 1 .. Len(commits'), Obj("commit", i) \in job[d].todo
        PROVE  /\ i \in 1 .. Len(commits)
               /\ ObjectsOf(Chain(commits', i)) \subseteq job[d].todo \cup holds'[To(d)]
    <2>1. Obj("commit", i) \in holds[From(d)]
      BY <1>1, <1>4 DEF TransferOK
    <2>2. i \in 1 .. Len(commits)
      BY <1>2, <2>1, OfObj DEF WholeInv, OnlyWritten
    <2>3. ObjectsOf(Chain(commits, i)) \subseteq job[d].todo \cup holds[To(d)]
      BY <1>1, <1>4, <2>2 DEF TransferOK
    <2> QED
      BY <1>2, <1>3, <2>2, <2>3
  <1>5. pc[d] = "copy" => job[d].todo \subseteq holds'[From(d)]
    BY <1>1, <1>2, <1>3 DEF TransferOK
  <1> QED
    BY <1>1, <1>2, <1>4, <1>5 DEF TransferOK

(* What a step must show, when no commit is made. *)
LEMMA WholeStep ==
    ASSUME WholeInv, NEW c \in Clone, Sound(c), UNCHANGED commits,
           WholeHistories', OnlyWritten', TransferOK(c)'
    PROVE  WholeInv'
  <1>1. \A d \in Clone \ {c} : TransferOK(d)'
    BY OthersTransfer
  <1> QED
    BY <1>1 DEF WholeInv, Sound

(* Most steps copy nothing, and start no copying. *)
LEMMA WholeQuiet ==
    ASSUME WholeInv, NEW c \in Clone, Sound(c), UNCHANGED <<commits, holds>>,
           pc'[c] # "copy"
    PROVE  WholeInv'
  <1>1. WholeHistories' /\ OnlyWritten'
    BY DEF WholeInv, WholeHistories, OnlyWritten, Has
  <1>2. TransferOK(c)'
    BY DEF TransferOK
  <1> QED
    BY <1>1, <1>2, WholeStep

(* A plan is at the source, and with the destination it is whole: the walk *)
(* stops where the destination has a commit, and so all before it.         *)
LEMMA PlanWhole ==
    ASSUME WholeInv, NEW src \in Store, NEW dst \in Store,
           NEW tip \in 1 .. Len(commits), NEW ids,
           ids = Collected(src, dst, tip),
           \A i \in ids : Has(src, "commit", i)
    PROVE  /\ Plan(src, dst, ids) \subseteq holds[src]
           /\ \A i \in 1 .. Len(commits) : Obj("commit", i) \in Plan(src, dst, ids) =>
                 ObjectsOf(Chain(commits, i)) \subseteq Plan(src, dst, ids) \cup holds[dst]
  <1>1. /\ DOMAIN commits = 1 .. Len(commits) /\ Len(commits) \in Nat
        /\ Chain(commits, tip) \subseteq 1 .. Len(commits)
        /\ ids \subseteq Chain(commits, tip)
    BY DEF WholeInv, HeldInv, TypeOK, GraphOK, Chain, Collected
  <1>2. \A i \in 1 .. Len(commits) : i \in Chain(commits, i)
    BY <1>1 DEF WholeInv, HeldInv, GraphOK, Chain
  <1>3. \A i \in ids, kind \in Kind : Obj(kind, i) \in holds[src]
    BY <1>1, <1>2 DEF WholeInv, WholeHistories, ObjectsOf
  <1>4. Plan(src, dst, ids) \subseteq holds[src]
    <2> SUFFICES ASSUME NEW o \in Plan(src, dst, ids) PROVE o \in holds[src]
      OBVIOUS
    <2>1. o \in [kind : Kind, of : ids]
      BY DEF Plan
    <2>2. o = Obj(o.kind, o.of) /\ o.kind \in Kind /\ o.of \in ids
      BY <2>1 DEF Obj
    <2> QED
      BY <1>3, <2>2
  <1>5. ASSUME NEW j \in ids, NEW kind \in Kind
        PROVE  Obj(kind, j) \in Plan(src, dst, ids) \cup holds[dst]
    <2>1. Obj(kind, j) \in [kind : Kind, of : ids] /\ Obj(kind, j).of = j
      BY DEF Obj
    <2>2. Has(src, "tree", j)
      BY <1>3 DEF Has, Kind
    <2> QED
      BY <2>1, <2>2 DEF Plan
  <1>6. ASSUME NEW j \in Chain(commits, tip), j \notin ids, NEW kind \in Kind
        PROVE  Obj(kind, j) \in holds[dst]
    <2>1. PICK m \in Chain(commits, tip) : j <= m /\ Has(dst, "commit", m)
      BY <1>6 DEF Collected
    <2>2. m \in 1 .. Len(commits) /\ j \in Chain(commits, m)
      BY <1>1, <2>1 DEF WholeInv, Linear, Chain
    <2> QED
      BY <2>1, <2>2 DEF WholeInv, WholeHistories, ObjectsOf
  <1>7. ASSUME NEW i \in 1 .. Len(commits), Obj("commit", i) \in Plan(src, dst, ids)
        PROVE  ObjectsOf(Chain(commits, i)) \subseteq Plan(src, dst, ids) \cup holds[dst]
    <2>1. Obj("commit", i) \in [kind : Kind, of : ids]
      BY <1>7 DEF Plan
    <2>2. i \in Chain(commits, tip)
      BY <1>1, <2>1, OfObj
    <2>3. Chain(commits, i) \subseteq Chain(commits, tip)
      BY <1>1, <2>2 DEF WholeInv, HeldInv, GraphOK, Chain
    <2> QED
      BY <1>5, <1>6, <2>3 DEF ObjectsOf
  <1> QED
    BY <1>4, <1>7

(* The next object of a plan: when it is a commit, all its history is at   *)
(* the destination already.                                                *)
LEMMA NextIsWhole ==
    ASSUME WholeInv, NEW c \in Clone, pc[c] = "copy",
           NEW o \in job[c].todo, \A p \in job[c].todo : Before(o, p),
           NEW i \in 1 .. Len(commits), o = Obj("commit", i)
    PROVE  ObjectsOf(Chain(commits, i)) \subseteq holds[To(c)] \cup {o}
  <1>1. ObjectsOf(Chain(commits, i)) \subseteq job[c].todo \cup holds[To(c)]
    BY DEF WholeInv, TransferOK
  <1>2. Chain(commits, i) \subseteq 1 .. i
    BY DEF WholeInv, HeldInv, TypeOK, GraphOK, Chain
  <1>3. ASSUME NEW j \in Chain(commits, i), NEW kind \in Kind, Obj(kind, j) \in job[c].todo
        PROVE  Obj(kind, j) = o
    <2>1. Before(o, Obj(kind, j)) /\ j \in 1 .. i
      BY <1>2, <1>3
    <2>2. j = i /\ Rank("commit") <= Rank(kind)
      BY <2>1, OfObj DEF Before
    <2>3. kind = "commit"
      BY <2>2 DEF Rank, Kind
    <2> QED
      BY <2>2, <2>3
  <1> QED
    BY <1>1, <1>3 DEF ObjectsOf

(* One object written to the destination. *)
LEMMA CopiedWhole ==
    ASSUME WholeInv, NEW c \in Clone, Sound(c), pc[c] = "copy",
           NEW o \in job[c].todo, \A p \in job[c].todo : Before(o, p),
           Copied(c, o), UNCHANGED commits
    PROVE  WholeHistories' /\ OnlyWritten'
  <1>1. holds' = [holds EXCEPT ![To(c)] = @ \cup {o}] /\ {o} \in SUBSET job[c].todo
    BY DEF Copied
  <1>2. /\ holds \in [Store -> SUBSET Object] /\ To(c) \in Store /\ From(c) \in Store
        /\ \A s \in Store : holds[s] \subseteq holds'[s]
        /\ holds'[To(c)] = holds[To(c)] \cup {o}
        /\ \A s \in Store \ {To(c)} : holds'[s] = holds[s]
    <2>1. holds \in [Store -> SUBSET Object] /\ To(c) \in Store /\ From(c) \in Store
      BY DEF WholeInv, HeldInv, TypeOK, To, From, Store
    <2> QED
      BY <1>1, <2>1
  <1>3. o \in holds[From(c)]
    BY DEF WholeInv, TransferOK
  <1>4. OnlyWritten'
    BY <1>2, <1>3 DEF WholeInv, OnlyWritten
  <1>5. ASSUME NEW s \in Store, NEW i \in 1 .. Len(commits), Obj("commit", i) \in holds'[s]
        PROVE  ObjectsOf(Chain(commits, i)) \subseteq holds'[s]
    <2>1. CASE Obj("commit", i) \in holds[s]
      BY <1>2, <2>1 DEF WholeInv, WholeHistories, Has
    <2>2. CASE Obj("commit", i) \notin holds[s]
      <3>1. s = To(c) /\ o = Obj("commit", i)
        BY <1>2, <1>5, <2>2
      <3> QED
        BY <1>2, <3>1, NextIsWhole
    <2> QED
      BY <2>1, <2>2
  <1> QED
    BY <1>4, <1>5 DEF WholeHistories, Has

LEMMA ProceedPlace ==
    ASSUME WholeInv, NEW c \in Clone, NEW todo \in SUBSET Object, Proceed(c, todo)
    PROVE  pc'[c] = "copy" =>
               job'[c].todo = todo /\ From(c)' = From(c) /\ To(c)' = To(c)
  <1>1. pc \in [Clone -> Label] /\ job \in [Clone -> Job]
    BY DEF WholeInv, HeldInv, TypeOK
  <1>2. CASE todo # {}
    <2>1. job' = [job EXCEPT ![c].todo = todo]
      BY <1>2 DEF Proceed
    <2>2. job'[c].todo = todo /\ job'[c].op = job[c].op
      BY <1>1, <2>1 DEF Job
    <2> QED
      BY <2>2 DEF From, To
  <1>3. CASE todo = {}
    <2>1. pc'[c] # "copy"
      BY <1>1, <1>3 DEF Proceed, Return, Goto
    <2> QED
      BY <2>1
  <1> QED
    BY <1>2, <1>3

LEMMA ReturnIdle ==
    ASSUME WholeInv, NEW c \in Clone, Return(c)
    PROVE  pc'[c] = "idle"
  BY DEF Return, Goto, WholeInv, HeldInv, TypeOK

LEMMA MakePlanWhole ==
    ASSUME WholeInv, NEW c \in Clone, MakePlan(c)
    PROVE  WholeInv'
  <1> DEFINE ids == Collected(From(c), To(c), job[c].tip)
             todo == Plan(From(c), To(c), ids)
  <1>1. /\ pc[c] = "plan" /\ UNCHANGED <<commits, holds, ref, snapshot, pushed>>
        /\ \/ (\A i \in ids : Has(From(c), "commit", i)) /\ Proceed(c, todo)
           \/ Return(c)
    BY DEF MakePlan
  <1>2. Sound(c)
    BY MakePlanOK DEF WholeInv
  <1>3. From(c) \in Store /\ To(c) \in Store /\ job[c].tip \in 1 .. Len(commits)
    BY <1>1 DEF From, To, Store, WholeInv, HeldInv, JobOK
  <1>4. CASE Return(c)
    BY <1>1, <1>2, <1>4, ReturnIdle, WholeQuiet
  <1>5. CASE (\A i \in ids : Has(From(c), "commit", i)) /\ Proceed(c, todo)
    <2>1. /\ todo \subseteq holds[From(c)]
          /\ \A i \in 1 .. Len(commits) : Obj("commit", i) \in todo =>
                ObjectsOf(Chain(commits, i)) \subseteq todo \cup holds[To(c)]
      BY <1>3, <1>5, PlanWhole
    <2>2. todo \in SUBSET Object
      BY <1>3, <2>1 DEF WholeInv, HeldInv, TypeOK
    <2> HIDE DEF todo, ids
    <2>3. pc'[c] = "copy" =>
               job'[c].todo = todo /\ From(c)' = From(c) /\ To(c)' = To(c)
      BY <1>5, <2>2, ProceedPlace
    <2>4. TransferOK(c)'
      BY <1>1, <2>1, <2>3 DEF TransferOK
    <2>5. WholeHistories' /\ OnlyWritten'
      BY <1>1 DEF WholeInv, WholeHistories, OnlyWritten, Has
    <2> QED
      BY <1>1, <1>2, <2>4, <2>5, WholeStep
  <1> QED
    BY <1>1, <1>4, <1>5

LEMMA CopyWhole ==
    ASSUME WholeInv, NEW c \in Clone, Copy(c)
    PROVE  WholeInv'
  <1>1. pc[c] = "copy" /\ UNCHANGED <<commits, ref, snapshot, pushed>>
    BY DEF Copy
  <1>2. Sound(c)
    BY CopyOK DEF WholeInv
  <1>3. job[c].todo \subseteq holds[From(c)] /\ job[c].todo \in SUBSET Object
    BY <1>1 DEF WholeInv, HeldInv, TypeOK, Job, TransferOK
  <1>4. PICK o \in job[c].todo :
           /\ \A p \in job[c].todo : Before(o, p)
           /\ \/ Copied(c, o) /\ Proceed(c, job[c].todo \ {o})
              \/ Return(c) /\ UNCHANGED holds
    <2>1. PICK o \in job[c].todo :
           /\ \A p \in job[c].todo : Before(o, p)
           /\ \/ Copied(c, o) /\ Proceed(c, job[c].todo \ {o})
              \/ Return(c) /\ UNCHANGED holds
              \/ o \notin holds[From(c)]
      BY DEF Copy
    <2> QED
      BY <1>3, <2>1
  <1>5. CASE Return(c) /\ UNCHANGED holds
    BY <1>1, <1>2, <1>5, ReturnIdle, WholeQuiet
  <1>6. CASE Copied(c, o) /\ Proceed(c, job[c].todo \ {o})
    <2>1. WholeHistories' /\ OnlyWritten'
      BY <1>1, <1>2, <1>4, <1>6, CopiedWhole
    <2>2. pc'[c] = "copy" => /\ job'[c].todo = job[c].todo \ {o}
                             /\ From(c)' = From(c) /\ To(c)' = To(c)
      <3>1. job[c].todo \ {o} \in SUBSET Object
        BY <1>3
      <3> QED
        BY <1>6, <3>1, ProceedPlace
    <2>3. /\ From(c) \in Store /\ To(c) \in Store
          /\ \A s \in Store : holds[s] \subseteq holds'[s]
          /\ o \in holds'[To(c)]
      <3>1. From(c) \in Store /\ To(c) \in Store /\ holds \in [Store -> SUBSET Object]
        BY DEF From, To, Store, WholeInv, HeldInv, TypeOK
      <3> QED
        BY <1>6, <3>1 DEF Copied
    <2>4. \A i \in 1 .. Len(commits) : Obj("commit", i) \in job[c].todo =>
             ObjectsOf(Chain(commits, i)) \subseteq job[c].todo \cup holds[To(c)]
      BY <1>1 DEF WholeInv, TransferOK
    <2>5. TransferOK(c)'
      BY <1>1, <1>3, <2>2, <2>3, <2>4 DEF TransferOK
    <2> QED
      BY <1>1, <1>2, <2>1, <2>5, WholeStep
  <1> QED
    BY <1>4, <1>5, <1>6

LEMMA CopyAnswerLostWhole ==
    ASSUME WholeInv, NEW c \in Clone, CopyAnswerLost(c)
    PROVE  WholeInv'
  <1>1. pc[c] = "copy" /\ Return(c) /\ UNCHANGED <<commits, ref, snapshot, pushed>>
    BY DEF CopyAnswerLost
  <1>2. Sound(c)
    BY CopyAnswerLostOK DEF WholeInv
  <1>3. PICK o \in job[c].todo : (\A p \in job[c].todo : Before(o, p)) /\ Copied(c, o)
    BY DEF CopyAnswerLost
  <1>4. WholeHistories' /\ OnlyWritten'
    BY <1>1, <1>2, <1>3, CopiedWhole
  <1>5. TransferOK(c)'
    BY <1>1, ReturnIdle DEF TransferOK
  <1> QED
    BY <1>1, <1>2, <1>4, <1>5, WholeStep

(* A commit is written to the clone's store with all it is made of, on top *)
(* of a history that is there.                                             *)
LEMMA MakeCommitWhole ==
    ASSUME WholeInv, NEW c \in Clone, NEW b \in Branch,
           NEW second \in Commits(commits),
           ref[c][b] # Missing, pc[c] = "idle", MakeCommit(c, b, second),
           UNCHANGED <<snapshot, pushed, pc, job>>
    PROVE  WholeInv'
  <1> DEFINE n == Len(commits) + 1
  <1>1. /\ commits' = Append(commits, NewCommit(commits, ref[c][b], second))
        /\ holds' = [holds EXCEPT ![c] = @ \cup ObjectsOf({n})]
        /\ ref' = [ref EXCEPT ![c][b] = n]
    <2>1. AllOf(n) = ObjectsOf({n})
      BY DEF AllOf, ObjectsOf
    <2> QED
      BY <2>1 DEF MakeCommit
  <1>2. c \in Store /\ n \in Nat /\ Len(commits) \in Nat /\ HeldInv
        /\ holds \in [Store -> SUBSET Object]
    BY DEF Store, WholeInv, HeldInv, TypeOK
  <1>3. Sound(c)
    BY <1>2, MakeCommitOK
  <1>4. ref[c][b] \in Commits(commits)
    BY <1>2 DEF HeldInv, Value
  <1>5. Linear(commits)'
    BY <1>1, <1>4, NewCommitKeepsLinear DEF WholeInv, HeldInv, TypeOK
  <1>6. /\ Len(commits') = n /\ Chain(commits', n) = {n} \cup Chain(commits, ref[c][b])
        /\ \A i \in 1 .. Len(commits) : Chain(commits', i) = Chain(commits, i)
    <2>1. commits' \in Seq(CommitObject) /\ Len(commits') = n
          /\ commits'[n] = NewCommit(commits, ref[c][b], second)
          /\ \A i \in 1 .. Len(commits) : commits'[i] = commits[i]
      BY <1>1, <1>2, <1>4, NewCommitKeepsGraph DEF HeldInv, TypeOK
    <2> QED
      BY <1>2, <2>1 DEF Chain, NewCommit, HeldInv, TypeOK
  <1>7. /\ holds'[c] = holds[c] \cup ObjectsOf({n})
        /\ \A s \in Store \ {c} : holds'[s] = holds[s]
    BY <1>1, <1>2
  <1>8. \A o \in ObjectsOf({n}) : o.of = n
    BY OfObj DEF ObjectsOf
  <1> HIDE DEF n
  <1>9. OnlyWritten'
    <2>1. \A i \in 1 .. Len(commits) : i \in 1 .. n
      BY <1>2 DEF n
    <2>2. n \in 1 .. n
      BY <1>2 DEF n
    <2> QED
      BY <1>6, <1>7, <1>8, <2>1, <2>2 DEF WholeInv, OnlyWritten
  <1>10. ASSUME NEW s \in Store, NEW i \in 1 .. n, Obj("commit", i) \in holds'[s]
         PROVE  ObjectsOf(Chain(commits', i)) \subseteq holds'[s]
    <2>1. CASE i \in 1 .. Len(commits)
      <3>1. i # n
        BY <1>2, <2>1 DEF n
      <3>2. Obj("commit", i) \in holds[s]
        BY <1>7, <1>8, <1>10, <3>1, OfObj
      <3>3. ObjectsOf(Chain(commits, i)) \subseteq holds[s]
        BY <2>1, <3>2 DEF WholeInv, WholeHistories, Has
      <3> QED
        BY <1>6, <1>7, <2>1, <3>3
    <2>2. CASE i = n
      <3>1. s = c
        <4>1. n \notin 1 .. Len(commits)
          BY <1>2 DEF n
        <4>2. Obj("commit", n) \notin holds[s]
          BY <4>1, OfObj DEF WholeInv, OnlyWritten
        <4> QED
          BY <1>7, <1>10, <2>2, <4>2
      <3>2. ObjectsOf(Chain(commits, ref[c][b])) \subseteq holds[c]
        <4>1. CASE ref[c][b] = NoCommit
          <5>1. Chain(commits, ref[c][b]) = {}
            BY <1>2, <4>1 DEF Chain, NoCommit, HeldInv, TypeOK
          <5> QED
            BY <5>1 DEF ObjectsOf
        <4>2. CASE ref[c][b] \in 1 .. Len(commits)
          <5>1. Has(c, "commit", ref[c][b])
            BY <1>2, <4>2 DEF HeldInv, HeadsHeld, TypeOK
          <5> QED
            BY <1>2, <4>2, <5>1 DEF WholeInv, WholeHistories
        <4> QED
          BY <1>4, <4>1, <4>2 DEF Commits
      <3>3. ObjectsOf(Chain(commits', n)) = ObjectsOf({n}) \cup ObjectsOf(Chain(commits, ref[c][b]))
        BY <1>6 DEF ObjectsOf
      <3> QED
        BY <1>7, <2>2, <3>1, <3>2, <3>3
    <2> QED
      BY <1>2, <2>1, <2>2 DEF n
  <1>11. \A d \in Clone : TransferOK(d)'
    <2>1. TransferOK(c)'
      BY DEF TransferOK
    <2> QED
      BY <1>3, <2>1, OthersTransfer
  <1> QED
    BY <1>3, <1>5, <1>6, <1>9, <1>10, <1>11 DEF WholeInv, WholeHistories, Has, Sound

(* The clone's other commands copy nothing. *)
LEMMA CommandWhole ==
    ASSUME WholeInv, NEW c \in Clone, Command(c)
    PROVE  WholeInv'
  <1>0. HeldInv /\ c \in Store /\ Remote \in Store
    BY DEF WholeInv, Store
  <1>1. Sound(c)
    BY <1>0, CommandOK
  <1>2. ASSUME NEW b \in Branch, Commit(c, b)
        PROVE  WholeInv'
    BY <1>2, MakeCommitWhole DEF Commit, Commits
  <1>3. ASSUME NEW b \in Branch, NEW s \in DOMAIN commits, Merge(c, b, s)
        PROVE  WholeInv'
    <2>1. CASE MakeCommit(c, b, s)
      <3>1. ref[c][b] # Missing /\ s \in Commits(commits)
        BY <1>0, <1>3 DEF Merge, HeldInv, TypeOK, Commits, Missing
      <3> QED
        BY <1>3, <2>1, <3>1, MakeCommitWhole DEF Merge
    <2>2. CASE ~MakeCommit(c, b, s)
      <3>1. pc'[c] = "idle" /\ UNCHANGED <<commits, holds>>
        BY <1>3, <2>2 DEF Merge
      <3> QED
        BY <1>1, <3>1, WholeQuiet
    <2> QED
      BY <2>1, <2>2
  <1>4. ASSUME NEW b \in Branch, NEW from \in Branch, CreateBranch(c, b, from)
        PROVE  WholeInv'
    <2>1. pc'[c] = "idle" /\ UNCHANGED <<commits, holds>>
      BY <1>4 DEF CreateBranch
    <2> QED
      BY <1>1, <2>1, WholeQuiet
  <1>5. ASSUME NEW b \in Branch, StartPush(c, b) \/ StartPull(c, b) \/ StartFetch(c, b)
        PROVE  WholeInv'
    <2>1. /\ UNCHANGED <<commits, holds>> /\ pc[c] = "idle"
          /\ \/ \E label \in {"ensure", "check", "plan"} : Goto(c, label)
             \/ UNCHANGED pc
      BY <1>5 DEF StartPush, StartPull, StartFetch, Start
    <2>2. pc'[c] # "copy"
      BY <1>0, <2>1 DEF Goto, HeldInv, TypeOK
    <2> QED
      BY <1>1, <2>1, <2>2, WholeQuiet
  <1> QED
    BY <1>2, <1>3, <1>4, <1>5 DEF Command

LEMMA StepWhole ==
    ASSUME WholeInv, ~Batch, NEW c \in Clone, Step(c)
    PROVE  WholeInv'
  <1>1. Sound(c)
    BY StepOK DEF WholeInv
  <1>2. CASE MakePlan(c)
    BY <1>2, MakePlanWhole
  <1>3. CASE Copy(c)
    BY <1>3, CopyWhole
  <1>4. CASE CopyAnswerLost(c)
    BY <1>4, CopyAnswerLostWhole
  <1>5. CASE CopyBatch(c)
    BY <1>5 DEF CopyBatch
  <1>6. CASE Ensure(c) \/ CheckPush(c) \/ ForwardLocal(c) \/ ForwardRemote(c) \/ Cas(c)
             \/ CasAnswerLost(c) \/ Conflict(c) \/ Refresh(c) \/ AppendReflog(c)
    <2>1. /\ UNCHANGED <<commits, holds>>
          /\ \/ Return(c)
             \/ \E label \in {"check", "plan", "cas", "conflict", "refresh", "reflog"} :
                   Goto(c, label)
      BY <1>6 DEF Ensure, CheckPush, ForwardLocal, ForwardRemote, Cas,
                  CasAnswerLost, Conflict, Refresh, AppendReflog
    <2>2. pc'[c] # "copy"
      BY <2>1 DEF Return, Goto, WholeInv, HeldInv, TypeOK
    <2> QED
      BY <1>1, <2>1, <2>2, WholeQuiet
  <1> QED
    BY <1>2, <1>3, <1>4, <1>5, <1>6 DEF Step

LEMMA WholeInit == Init => WholeInv
  <1> SUFFICES ASSUME Init PROVE WholeInv
    OBVIOUS
  <1>1. commits = <<>> /\ \A s \in Store : holds[s] = {}
    BY DEF Init
  <1>2. Linear(commits) /\ WholeHistories /\ OnlyWritten
    BY <1>1 DEF Linear, WholeHistories, OnlyWritten
  <1>3. \A c \in Clone : TransferOK(c)
    BY DEF Init, TransferOK
  <1> QED
    BY <1>2, <1>3, HeldInit DEF WholeInv

LEMMA WholeNext == ASSUME ~Batch PROVE WholeInv /\ [Next]_vars => WholeInv'
  <1> SUFFICES ASSUME WholeInv, [Next]_vars PROVE WholeInv'
    OBVIOUS
  <1>1. CASE UNCHANGED vars
    <2>1. HeldInv'
      BY <1>1, HeldNext DEF WholeInv
    <2>2. Linear(commits)' /\ WholeHistories' /\ OnlyWritten'
      BY <1>1 DEF vars, WholeInv, Linear, WholeHistories, OnlyWritten, Has
    <2>3. \A c \in Clone : TransferOK(c)'
      BY <1>1 DEF vars, WholeInv, TransferOK, From, To
    <2> QED
      BY <2>1, <2>2, <2>3 DEF WholeInv
  <1>2. ASSUME NEW c \in Clone, Stop(c)
        PROVE  WholeInv'
    <2>1. Sound(c)
      BY <1>2, StopOK DEF WholeInv
    <2>2. UNCHANGED <<commits, holds>> /\ pc'[c] # "copy"
      BY <1>2, ReturnIdle DEF Stop
    <2> QED
      BY <2>1, <2>2, WholeQuiet
  <1> QED
    BY <1>1, <1>2, CommandWhole, StepWhole DEF Next

(* Whatever transfers were interrupted, repeated or interleaved, a store   *)
(* with a commit has its whole history: the order of the plan, oldest      *)
(* commit first and each commit last, is all that the proof uses.          *)
THEOREM StoresAlwaysComplete == ASSUME ~Batch PROVE Spec => []StoresComplete
  <1>1. WholeInv => StoresComplete
    <2> SUFFICES ASSUME WholeInv PROVE StoresComplete
      OBVIOUS
    <2>1. DOMAIN commits = 1 .. Len(commits)
      BY DEF WholeInv, HeldInv, TypeOK
    <2>2. ASSUME NEW s \in Store, NEW i \in DOMAIN commits, Has(s, "commit", i),
                 NEW j \in Chain(commits, i)
          PROVE  AllOf(j) \subseteq holds[s]
      <3>1. ObjectsOf(Chain(commits, i)) \subseteq holds[s]
        BY <2>1, <2>2 DEF WholeInv, WholeHistories
      <3>2. AllOf(j) \subseteq ObjectsOf(Chain(commits, i))
        BY DEF AllOf, ObjectsOf
      <3> QED
        BY <3>1, <3>2
    <2> QED
      BY <2>2 DEF StoresComplete, WholeInv, HeldInv, HeadsHeld
  <1> QED
    BY <1>1, WholeInit, WholeNext, PTL DEF Spec

----------------------------------------------------------------------------
(* Heads that only advance, when nobody else creates the branch one pushes *)

(* Two clones never create the same branch of the remote at once: there is *)
(* the branch every repository starts with and no other, or there is one   *)
(* clone.  Finding: without this, a head that was just pushed is erased.   *)
NoCreationRace ==
    \/ Branch = {DefaultBranch}
    \/ \A c, d \in Clone : c = d

SnapshotsOK(c) ==
    \A b \in Branch :
        snapshot[c][b] \in Value(commits) /\ Extends(commits, snapshot[c][b], ref[Remote][b])

PushedOK(c) ==
    \A e \in pushed[c] : e.new \in Chain(commits, ref[Remote][e.branch])

(* What a command expects of the remote is an earlier head there, and of   *)
(* the history it is about to put; what it has put is not rewound.         *)
ExpectOK(c) ==
    LET head == ref[Remote][job[c].branch]
    IN  /\ pc[c] = "ensure" => head = Missing
        /\ pc[c] \in {"cas", "conflict", "refresh", "reflog"} =>
              job[c].exp \in Value(commits) /\ Extends(commits, job[c].exp, head)
        /\ pc[c] = "cas" =>
              job[c].exp # Missing /\ Extends(commits, job[c].exp, job[c].tip)
        /\ pc[c] \in {"refresh", "reflog"} => job[c].tip \in Chain(commits, head)

(* The branch a push is about to create is still missing, so that the empty*)
(* one it writes replaces nothing.                                         *)
HistInv ==
    /\ HeldInv
    /\ ref[Remote][DefaultBranch] # Missing
    /\ \A c \in Clone : SnapshotsOK(c) /\ PushedOK(c) /\ ExpectOK(c)

Advances ==
    \A s \in Store, b \in Branch : Extends(commits', ref[s][b], ref'[s][b])

(* When heads only advance, what was an earlier head remains one. *)
LEMMA EarlierHeads ==
    ASSUME HistInv, NEW c \in Clone, Sound(c), Advances, NEW b \in Branch
    PROVE  /\ ref[Remote][b] # Missing => ref'[Remote][b] # Missing
           /\ \A v \in Value(commits) : Extends(commits, v, ref[Remote][b]) =>
                 v \in Value(commits)' /\ Extends(commits', v, ref'[Remote][b])
           /\ \A i \in Chain(commits, ref[Remote][b]) : i \in Chain(commits', ref'[Remote][b])
  <1>1. /\ commits \in Seq(CommitObject) /\ commits' \in Seq(CommitObject)
        /\ Prefix(commits, commits') /\ GraphOK(commits)'
        /\ Remote \in Store
    BY DEF HistInv, HeldInv, TypeOK, Sound, StoresGrow, Store
  <1>2. ref[Remote][b] \in Value(commits) /\ ref'[Remote][b] \in Value(commits')
    BY <1>1 DEF HistInv, HeldInv, Sound
  <1>3. Value(commits) \subseteq Value(commits')
    BY <1>1 DEF Prefix, Value, Commits
  <1>4. Extends(commits', ref[Remote][b], ref'[Remote][b])
    BY <1>1 DEF Advances
  <1>6. ref[Remote][b] # Missing => ref'[Remote][b] # Missing
    BY <1>1, <1>4 DEF Extends, Chain, Missing
  <1>7. ASSUME NEW v \in Value(commits), Extends(commits, v, ref[Remote][b])
        PROVE  v \in Value(commits') /\ Extends(commits', v, ref'[Remote][b])
    <2>1. Extends(commits', v, ref[Remote][b])
      BY <1>1, <1>2, <1>7, ExtendsPrefix
    <2>2. ref[Remote][b] \in Value(commits')
      BY <1>2, <1>3
    <2> QED
      BY <1>1, <1>2, <1>3, <1>4, <2>1, <2>2, ExtendsTransitive
  <1>8. Chain(commits, ref[Remote][b]) \subseteq Chain(commits', ref'[Remote][b])
    <2>1. Chain(commits', ref[Remote][b]) = Chain(commits, ref[Remote][b])
      BY <1>1, <1>2, ChainPrefix
    <2> QED
      BY <1>1, <1>2, <1>3, <1>4, <2>1, ChainGrows
  <1> QED
    BY <1>6, <1>7, <1>8

(* What a step must show. *)
LEMMA HistStep ==
    ASSUME NoCreationRace, HistInv, NEW c \in Clone, Sound(c), Advances,
           SnapshotsOK(c)', PushedOK(c)', ExpectOK(c)'
    PROVE  HistInv'
  <1>1. ASSUME NEW d \in Clone \ {c}
        PROVE  SnapshotsOK(d)' /\ PushedOK(d)' /\ ExpectOK(d)'
    <2>1. /\ snapshot'[d] = snapshot[d] /\ pushed'[d] = pushed[d]
          /\ pc'[d] = pc[d] /\ job'[d] = job[d]
      BY DEF Sound, Acts
    <2>2. /\ SnapshotsOK(d) /\ PushedOK(d) /\ ExpectOK(d)
          /\ job[d].branch \in Branch /\ \A e \in pushed[d] : e.branch \in Branch
      BY DEF HistInv, HeldInv, TypeOK, Job
    <2>3. SnapshotsOK(d)' /\ PushedOK(d)'
      BY <2>1, <2>2, EarlierHeads DEF SnapshotsOK, PushedOK
    <2>4. pc[d] = "cas" => Extends(commits', job[d].exp, job[d].tip)
      <3>1. /\ commits \in Seq(CommitObject) /\ commits' \in Seq(CommitObject)
            /\ Prefix(commits, commits') /\ Len(commits) \in Nat
            /\ pc[d] = "cas" => job[d].tip \in 1 .. Len(commits)
        BY DEF HistInv, HeldInv, TypeOK, Sound, StoresGrow, JobOK
      <3>2. pc[d] = "cas" => job[d].tip \in Value(commits)
        BY <3>1 DEF Value, Commits
      <3> QED
        BY <2>2, <3>1, <3>2, ExtendsPrefix DEF ExpectOK
    <2>5. pc[d] # "ensure"
      BY <2>2 DEF NoCreationRace, HistInv, ExpectOK
    <2>6. ExpectOK(d)'
      BY <2>1, <2>2, <2>4, <2>5, EarlierHeads DEF ExpectOK
    <2> QED
      BY <2>3, <2>6
  <1>2. ref'[Remote][DefaultBranch] # Missing
    BY EarlierHeads, SyncConstantsOK DEF HistInv
  <1> QED
    BY <1>1, <1>2 DEF HistInv, Sound

(* A step that leaves the clone's views alone. *)
LEMMA HistQuiet ==
    ASSUME NoCreationRace, HistInv, NEW c \in Clone, Sound(c), Advances,
           UNCHANGED <<snapshot, pushed>>,
           pc'[c] \notin {"cas", "conflict", "refresh", "reflog"},
           pc'[c] = "ensure" => ref'[Remote][job'[c].branch] = Missing
    PROVE  HistInv'
  <1>1. \A e \in pushed[c] : e.branch \in Branch
    BY DEF HistInv, HeldInv, TypeOK
  <1>2. SnapshotsOK(c)' /\ PushedOK(c)'
    BY <1>1, EarlierHeads DEF HistInv, SnapshotsOK, PushedOK
  <1>3. ExpectOK(c)'
    BY DEF ExpectOK
  <1> QED
    BY <1>2, <1>3, HistStep

LEMMA SameHeads ==
    ASSUME HistInv, NEW c \in Clone, Sound(c), UNCHANGED ref
    PROVE  Advances
  <1>1. commits' \in Seq(CommitObject) /\ GraphOK(commits)'
        /\ \A s \in Store, b \in Branch : ref'[s][b] \in Value(commits')
    BY DEF Sound, HeldInv, TypeOK
  <1> QED
    BY <1>1, ExtendsReflexive DEF Advances

(* A head that moves along first parents. *)
LEMMA OneAdvances ==
    ASSUME HistInv, NEW c \in Clone, Sound(c), NEW s \in Store, NEW b \in Branch,
           NEW v, ref' = [ref EXCEPT ![s][b] = v],
           Extends(commits', ref[s][b], v)
    PROVE  Advances
  <1>1. commits' \in Seq(CommitObject) /\ GraphOK(commits)'
        /\ \A t \in Store, d \in Branch : ref[t][d] \in Value(commits')
    <2>1. Value(commits) \subseteq Value(commits')
      BY DEF HistInv, HeldInv, TypeOK, Sound, StoresGrow, Prefix, Value, Commits
    <2> QED
      BY <2>1 DEF HistInv, Sound, HeldInv, TypeOK
  <1>2. ref \in [Store -> [Branch -> RefValue]]
    BY DEF HistInv, HeldInv, TypeOK
  <1>3. ASSUME NEW t \in Store, NEW d \in Branch
        PROVE  Extends(commits', ref[t][d], ref'[t][d])
    <2>1. CASE t = s /\ d = b
      BY <1>2, <2>1
    <2>2. CASE ~(t = s /\ d = b)
      <3>1. ref'[t][d] = ref[t][d]
        BY <1>2, <2>2
      <3> QED
        BY <1>1, <3>1, ExtendsReflexive
    <2> QED
      BY <2>1, <2>2
  <1> QED
    BY <1>3 DEF Advances

LEMMA MakeCommitAdvances ==
    ASSUME HistInv, NEW c \in Clone, NEW b \in Branch,
           NEW second \in Commits(commits), Sound(c),
           ref[c][b] # Missing, MakeCommit(c, b, second)
    PROVE  Advances
  <1> DEFINE n == Len(commits) + 1
  <1>1. /\ commits' = Append(commits, NewCommit(commits, ref[c][b], second))
        /\ ref' = [ref EXCEPT ![c][b] = n] /\ c \in Store
    BY DEF MakeCommit, Store
  <1>2. ref[c][b] \in Commits(commits)
    BY <1>1 DEF HistInv, HeldInv, Value
  <1>3. /\ commits \in Seq(CommitObject) /\ commits' \in Seq(CommitObject)
        /\ Len(commits') = n /\ n \in Nat
        /\ commits'[n] = NewCommit(commits, ref[c][b], second)
    BY <1>1, <1>2, NewCommitKeepsGraph DEF HistInv, HeldInv, TypeOK
  <1>4. Chain(commits', n) = {n} \cup Chain(commits, ref[c][b])
    BY <1>3 DEF Chain, NewCommit
  <1>5. Extends(commits', ref[c][b], n)
    <2>1. CASE ref[c][b] = NoCommit
      BY <1>3, <2>1 DEF Extends, Missing
    <2>2. CASE ref[c][b] \in 1 .. Len(commits)
      <3>1. ref[c][b] \in Chain(commits, ref[c][b])
        BY <1>3, <2>2 DEF Chain, HistInv, HeldInv, GraphOK
      <3> QED
        BY <1>4, <3>1 DEF Extends
    <2> QED
      BY <1>2, <2>1, <2>2 DEF Commits
  <1> HIDE DEF n
  <1> QED
    BY <1>1, <1>5, OneAdvances

LEMMA CommandHist ==
    ASSUME NoCreationRace, HistInv, NEW c \in Clone, Command(c)
    PROVE  HistInv' /\ Advances
  <1>0. /\ HeldInv /\ c \in Store /\ Remote \in Store
        /\ commits \in Seq(CommitObject) /\ pc \in [Clone -> Label]
        /\ job \in [Clone -> Job]
    BY DEF HistInv, HeldInv, TypeOK, Store
  <1>1. Sound(c)
    BY <1>0, CommandOK
  <1>2. /\ UNCHANGED <<snapshot, pushed>>
        /\ pc'[c] \notin {"cas", "conflict", "refresh", "reflog"}
        /\ pc'[c] = "ensure" => ref'[Remote][job'[c].branch] = Missing
    <2>1. ASSUME NEW b \in Branch, StartPush(c, b)
          PROVE  /\ UNCHANGED <<snapshot, pushed>> /\ pc'[c] \in {"ensure", "check"}
                 /\ pc'[c] = "ensure" => ref'[Remote][job'[c].branch] = Missing
      <3>1. ref' = ref /\ UNCHANGED <<snapshot, pushed>>
            /\ pc'[c] = IF ref[Remote][b] = Missing THEN "ensure" ELSE "check"
        BY <1>0, <2>1 DEF StartPush, Start, Goto
      <3>2. job'[c].branch = b
        BY <1>0, <2>1 DEF StartPush, Start, NoJob
      <3> QED
        BY <3>1, <3>2
    <2>2. ASSUME NEW b \in Branch, StartPull(c, b) \/ StartFetch(c, b)
          PROVE  UNCHANGED <<snapshot, pushed>> /\ pc'[c] \in {"idle", "plan"}
      BY <1>0, <2>2 DEF StartPull, StartFetch, Start, Goto
    <2>3. ASSUME \/ \E b \in Branch : Commit(c, b)
                 \/ \E b, from \in Branch : CreateBranch(c, b, from)
                 \/ \E b \in Branch, s \in DOMAIN commits : Merge(c, b, s)
          PROVE  UNCHANGED <<snapshot, pushed>> /\ pc'[c] = "idle"
      BY <2>3 DEF Commit, CreateBranch, Merge
    <2> QED
      BY <2>1, <2>2, <2>3 DEF Command
  <1>3. ASSUME NEW b \in Branch, Commit(c, b)
        PROVE  Advances
    BY <1>1, <1>3, MakeCommitAdvances DEF Commit, Commits
  <1>4. ASSUME NEW b \in Branch, NEW from \in Branch, CreateBranch(c, b, from)
        PROVE  Advances
    <2>1. Extends(commits', ref[c][b], ref[c][from])
      BY <1>4 DEF CreateBranch, Extends
    <2> QED
      BY <1>0, <1>1, <1>4, <2>1, OneAdvances DEF CreateBranch
  <1>5. ASSUME NEW b \in Branch, NEW s \in DOMAIN commits, Merge(c, b, s)
        PROVE  Advances
    <2>1. CASE MakeCommit(c, b, s)
      <3>1. ref[c][b] # Missing /\ s \in Commits(commits)
        BY <1>0, <1>5 DEF Merge, Commits, Missing
      <3> QED
        BY <1>1, <2>1, <3>1, MakeCommitAdvances
    <2>2. CASE ~MakeCommit(c, b, s)
      <3>1. ref' = [ref EXCEPT ![c][b] = s] /\ UNCHANGED commits
            /\ Extends(commits, ref[c][b], s)
        BY <1>5, <2>2 DEF Merge, Reaches, Extends
      <3> QED
        BY <1>0, <1>1, <3>1, OneAdvances
    <2> QED
      BY <2>1, <2>2
  <1>6. ASSUME NEW b \in Branch, StartPull(c, b)
        PROVE  Advances
    <2> DEFINE local == IF ref[c][b] = Missing THEN NoCommit ELSE ref[c][b]
    <2>1. ref' = [ref EXCEPT ![c][b] = local] /\ UNCHANGED commits
      BY <1>6 DEF StartPull
    <2>2. Extends(commits, ref[c][b], local)
      <3>1. ref[c][b] \in Value(commits) /\ GraphOK(commits)
        BY <1>0 DEF HeldInv
      <3> QED
        BY <1>0, <3>1, ExtendsReflexive DEF Extends
    <2> HIDE DEF local
    <2> QED
      BY <1>0, <1>1, <2>1, <2>2, OneAdvances
  <1>7. ASSUME NEW b \in Branch, StartPush(c, b) \/ StartFetch(c, b)
        PROVE  Advances
    BY <1>1, <1>7, SameHeads DEF StartPush, StartFetch
  <1>8. Advances
    BY <1>3, <1>4, <1>5, <1>6, <1>7 DEF Command
  <1> QED
    BY <1>1, <1>2, <1>8, HistQuiet

(* What a clone has for the remote's head is its state, or an earlier one. *)
LEMMA RemoteStateEarlier ==
    ASSUME HistInv, NEW c \in Clone, NEW b \in Branch
    PROVE  /\ RemoteState(c, b) \in Value(commits)
           /\ Extends(commits, RemoteState(c, b), ref[Remote][b])
  <1>1. /\ ref[Remote][b] \in Value(commits)
        /\ commits \in Seq(CommitObject) /\ GraphOK(commits)
    BY DEF HistInv, HeldInv, TypeOK, Store
  <1>2. Extends(commits, ref[Remote][b], ref[Remote][b])
    BY <1>1, ExtendsReflexive
  <1> QED
    BY <1>1, <1>2 DEF RemoteState, HistInv, SnapshotsOK

(* The clone's own views are right when the remote's ref stays and the     *)
(* snapshot is replaced by an earlier head.                                *)
LEMMA NewSnapshot ==
    ASSUME HistInv, NEW c \in Clone, NEW b \in Branch, NEW v \in Value(commits),
           Extends(commits, v, ref[Remote][b]),
           snapshot' = [snapshot EXCEPT ![c][b] = v],
           UNCHANGED <<commits, ref>>
    PROVE  SnapshotsOK(c)'
  <1>1. snapshot \in [Clone -> [Branch -> RefValue]] /\ SnapshotsOK(c)
    BY DEF HistInv, HeldInv, TypeOK
  <1>2. \A d \in Branch : snapshot'[c][d] = IF d = b THEN v ELSE snapshot[c][d]
    BY <1>1
  <1> QED
    BY <1>1, <1>2 DEF SnapshotsOK

LEMMA ForwardRemoteHist ==
    ASSUME NoCreationRace, HistInv, NEW c \in Clone, ForwardRemote(c)
    PROVE  HistInv' /\ Advances
  <1> DEFINE b == job[c].branch
             tip == job[c].tip
             state == RemoteState(c, b)
  <1>1. /\ pc[c] = "forward"
        /\ snapshot' = [snapshot EXCEPT ![c][b] = state]
        /\ UNCHANGED <<commits, holds, ref, pushed>>
        /\ \/ Return(c)
           \/ /\ Goto(c, "cas") /\ job' = [job EXCEPT ![c].exp = state]
              /\ state # Missing
              /\ state = NoCommit \/ state \in Chain(commits, tip)
    BY DEF ForwardRemote, Reaches
  <1>2. /\ b \in Branch /\ job \in [Clone -> Job] /\ job[c] \in Job /\ tip \in 1 .. Len(commits)
        /\ pc \in [Clone -> Label] /\ HeldInv /\ PushedOK(c)
    BY <1>1 DEF HistInv, HeldInv, TypeOK, Job, JobOK
  <1>3. state \in Value(commits) /\ Extends(commits, state, ref[Remote][b])
    BY <1>2, RemoteStateEarlier
  <1>4. Sound(c)
    BY <1>2, ForwardRemoteOK
  <1>5. Advances
    BY <1>1, <1>4, SameHeads
  <1> HIDE DEF state
  <1>6. SnapshotsOK(c)' /\ PushedOK(c)'
    BY <1>1, <1>2, <1>3, NewSnapshot DEF PushedOK
  <1>7. ExpectOK(c)'
    <2>1. CASE Return(c)
      BY <1>2, <2>1 DEF Return, Goto, ExpectOK
    <2>2. CASE /\ Goto(c, "cas") /\ job' = [job EXCEPT ![c].exp = state]
               /\ state # Missing
               /\ state = NoCommit \/ state \in Chain(commits, tip)
      <3>1. /\ pc'[c] = "cas"
            /\ job'[c].exp = state /\ job'[c].tip = tip /\ job'[c].branch = b
        BY <1>2, <2>2 DEF Goto, Job
      <3>2. tip # Missing
        BY <1>2 DEF Missing
      <3>3. Extends(commits, state, tip)
        BY <2>2, <3>2 DEF Extends
      <3> QED
        BY <1>1, <1>3, <2>2, <3>1, <3>3 DEF ExpectOK
    <2> QED
      BY <1>1, <2>1, <2>2
  <1> QED
    BY <1>4, <1>5, <1>6, <1>7, HistStep

(* The put finds the head it expected, which its commit is built on.       *)
LEMMA CasHist ==
    ASSUME NoCreationRace, HistInv, NEW c \in Clone, Cas(c) \/ CasAnswerLost(c)
    PROVE  HistInv' /\ Advances
  <1> DEFINE b == job[c].branch
             tip == job[c].tip
             exp == job[c].exp
  <1>1. /\ pc[c] = "cas" /\ UNCHANGED <<commits, holds, snapshot, pushed, job>>
        /\ \/ /\ ref[Remote][b] = exp
              /\ ref' = [ref EXCEPT ![Remote][b] = tip]
              /\ pc' = [pc EXCEPT ![c] = "refresh"] \/ pc' = [pc EXCEPT ![c] = "conflict"]
           \/ UNCHANGED ref /\ pc' = [pc EXCEPT ![c] = "conflict"]
    BY DEF Cas, CasAnswerLost, Goto
  <1>2. Sound(c)
    BY <1>1, PutOK DEF Cas, CasAnswerLost, HistInv
  <1>3. /\ b \in Branch /\ tip \in 1 .. Len(commits) /\ Remote \in Store
        /\ ref \in [Store -> [Branch -> RefValue]] /\ pc \in [Clone -> Label]
        /\ commits \in Seq(CommitObject) /\ GraphOK(commits)
    BY <1>1 DEF HistInv, HeldInv, TypeOK, Job, JobOK, Store
  <1>4. /\ exp \in Value(commits) /\ exp # Missing
        /\ Extends(commits, exp, ref[Remote][b]) /\ Extends(commits, exp, tip)
        /\ SnapshotsOK(c) /\ PushedOK(c)
    BY <1>1 DEF HistInv, ExpectOK
  <1>5. \A e \in pushed[c] : e.branch \in Branch
    BY DEF HistInv, HeldInv, TypeOK
  <1> HIDE DEF b, tip, exp
  <1>6. CASE UNCHANGED ref /\ pc' = [pc EXCEPT ![c] = "conflict"]
    <2>1. Advances
      BY <1>2, <1>6, SameHeads
    <2>2. SnapshotsOK(c)' /\ PushedOK(c)'
      BY <1>1, <1>4, <1>6 DEF SnapshotsOK, PushedOK
    <2>3. ExpectOK(c)'
      BY <1>1, <1>3, <1>4, <1>6 DEF ExpectOK, b, exp
    <2> QED
      BY <1>2, <2>1, <2>2, <2>3, HistStep
  <1>7. CASE /\ ref[Remote][b] = exp
             /\ ref' = [ref EXCEPT ![Remote][b] = tip]
             /\ pc' = [pc EXCEPT ![c] = "refresh"] \/ pc' = [pc EXCEPT ![c] = "conflict"]
    <2>1. Advances
      BY <1>1, <1>2, <1>3, <1>4, <1>7, OneAdvances
    <2>2. SnapshotsOK(c)' /\ PushedOK(c)'
      BY <1>1, <1>2, <1>4, <1>5, <2>1, EarlierHeads DEF SnapshotsOK, PushedOK
    <2>3. ref'[Remote][b] = tip /\ tip \in Chain(commits, tip)
      BY <1>3, <1>7 DEF Chain, GraphOK
    <2>4. pc'[c] \in {"refresh", "conflict"}
      BY <1>3, <1>7
    <2>5. ExpectOK(c)'
      BY <1>1, <1>4, <2>3, <2>4 DEF ExpectOK, b, tip, exp
    <2> QED
      BY <1>2, <2>1, <2>2, <2>5, HistStep
  <1> QED
    BY <1>1, <1>6, <1>7

LEMMA StepHist ==
    ASSUME NoCreationRace, HistInv, NEW c \in Clone, Step(c)
    PROVE  HistInv' /\ Advances
  <1>0. /\ HeldInv /\ c \in Store /\ Remote \in Store
        /\ pc \in [Clone -> Label] /\ job \in [Clone -> Job] /\ job[c].branch \in Branch
        /\ commits \in Seq(CommitObject) /\ GraphOK(commits)
        /\ SnapshotsOK(c) /\ PushedOK(c) /\ ExpectOK(c)
    BY DEF HistInv, HeldInv, TypeOK, Job, Store
  <1>1. Sound(c)
    BY <1>0, StepOK
  <1>2. CASE Ensure(c)
    <2> DEFINE b == job[c].branch
    <2>1. /\ ref[Remote][b] = Missing /\ ref' = [ref EXCEPT ![Remote][b] = NoCommit]
          /\ UNCHANGED <<snapshot, pushed>>
      BY <1>0, <1>2 DEF Ensure, ExpectOK
    <2>2. pc'[c] = "check"
      BY <1>0, <1>2 DEF Ensure, Goto
    <2>3. Extends(commits', ref[Remote][b], NoCommit)
      BY <2>1 DEF Extends
    <2>4. Advances
      <3> HIDE DEF b
      <3>1. b \in Branch
        BY <1>0 DEF b
      <3> QED
        BY <1>0, <1>1, <2>1, <2>3, <3>1, OneAdvances
    <2> QED
      BY <1>1, <2>1, <2>2, <2>4, HistQuiet
  <1>3. CASE CheckPush(c) \/ MakePlan(c) \/ Copy(c) \/ CopyAnswerLost(c) \/ CopyBatch(c)
    <2>1. UNCHANGED <<ref, snapshot, pushed>>
      BY <1>3 DEF CheckPush, MakePlan, Copy, CopyAnswerLost, CopyBatch
    <2>2. \/ Return(c)
          \/ \E label \in {"plan", "copy", "forward"} : Goto(c, label)
      BY <1>3 DEF CheckPush, MakePlan, Copy, CopyAnswerLost, CopyBatch, Proceed
    <2>3. pc'[c] \in {"idle", "plan", "copy", "forward"}
      BY <1>0, <2>2 DEF Return, Goto
    <2> QED
      BY <1>1, <2>1, <2>3, SameHeads, HistQuiet
  <1>4. CASE ForwardLocal(c)
    <2> DEFINE b == job[c].branch
               tip == job[c].tip
    <2>1. /\ UNCHANGED <<commits, snapshot, pushed>> /\ Return(c)
          /\ \/ /\ ref[c][b] = NoCommit \/ ref[c][b] \in Chain(commits, tip)
                /\ ref' = [ref EXCEPT ![c][b] = tip]
             \/ UNCHANGED ref
          /\ tip \in 1 .. Len(commits)
      BY <1>0, <1>4 DEF ForwardLocal, Reaches, HeldInv, JobOK
    <2>2. pc'[c] = "idle"
      BY <1>0, <2>1 DEF Return, Goto
    <2>3. tip # Missing
      BY <2>1 DEF Missing
    <2>4. Advances
      <3>1. CASE UNCHANGED ref
        BY <1>1, <3>1, SameHeads
      <3>2. CASE /\ ref[c][b] = NoCommit \/ ref[c][b] \in Chain(commits, tip)
                 /\ ref' = [ref EXCEPT ![c][b] = tip]
        <4>1. Extends(commits', ref[c][b], tip)
          BY <2>1, <2>3, <3>2 DEF Extends
        <4> HIDE DEF b, tip
        <4>2. b \in Branch
          BY <1>0 DEF b
        <4> QED
          BY <1>0, <1>1, <3>2, <4>1, <4>2, OneAdvances
      <3> QED
        BY <2>1, <3>1, <3>2
    <2> QED
      BY <1>1, <2>1, <2>2, <2>4, HistQuiet
  <1>5. CASE ForwardRemote(c)
    BY <1>5, ForwardRemoteHist
  <1>6. CASE Cas(c) \/ CasAnswerLost(c)
    BY <1>6, CasHist
  <1>7. CASE Conflict(c) \/ Refresh(c)
    <2> DEFINE b == job[c].branch
    <2>1. /\ snapshot' = [snapshot EXCEPT ![c][b] = ref[Remote][b]]
          /\ UNCHANGED <<commits, ref, pushed>>
          /\ \/ Return(c)
             \/ pc[c] = "refresh" /\ Goto(c, "reflog") /\ UNCHANGED job
      BY <1>7 DEF Conflict, Refresh
    <2>2. ref[Remote][b] \in Value(commits)
          /\ Extends(commits, ref[Remote][b], ref[Remote][b])
      BY <1>0, ExtendsReflexive DEF HeldInv
    <2>3. SnapshotsOK(c)' /\ PushedOK(c)'
      BY <1>0, <2>1, <2>2, NewSnapshot DEF PushedOK
    <2>4. ExpectOK(c)'
      BY <1>0, <2>1 DEF ExpectOK, Return, Goto
    <2> QED
      BY <1>1, <2>1, <2>3, <2>4, SameHeads, HistStep
  <1>8. CASE AppendReflog(c)
    <2> DEFINE e == [branch |-> job[c].branch, new |-> job[c].tip]
    <2>1. /\ pc[c] = "reflog" /\ Return(c) /\ UNCHANGED <<commits, holds, ref, snapshot>>
          /\ pushed' = [pushed EXCEPT ![c] = @ \cup {e}]
      BY <1>8 DEF AppendReflog
    <2>2. e.new \in Chain(commits, ref[Remote][e.branch])
      BY <1>0, <2>1 DEF ExpectOK
    <2> HIDE DEF e
    <2>3. pushed'[c] = pushed[c] \cup {e} /\ pc'[c] = "idle"
      BY <1>0, <2>1 DEF HeldInv, TypeOK, Return, Goto
    <2>4. SnapshotsOK(c)' /\ PushedOK(c)' /\ ExpectOK(c)'
      BY <1>0, <2>1, <2>2, <2>3 DEF SnapshotsOK, PushedOK, ExpectOK
    <2> QED
      BY <1>1, <2>1, <2>4, SameHeads, HistStep
  <1> QED
    BY <1>2, <1>3, <1>4, <1>5, <1>6, <1>7, <1>8 DEF Step

LEMMA HistInit == Init => HistInv
  <1> SUFFICES ASSUME Init PROVE HistInv
    OBVIOUS
  <1>1. ref[Remote][DefaultBranch] # Missing
    BY SyncConstantsOK DEF Init, Store, Missing, NoCommit
  <1>2. \A c \in Clone : SnapshotsOK(c) /\ PushedOK(c) /\ ExpectOK(c)
    BY DEF Init, SnapshotsOK, PushedOK, ExpectOK, Value, Extends
  <1> QED
    BY <1>1, <1>2, HeldInit DEF HistInv

LEMMA HistNext ==
    ASSUME NoCreationRace
    PROVE  HistInv /\ [Next]_vars =>
             /\ HistInv'
             /\ [\A s \in Store, b \in Branch : Extends(commits', ref[s][b], ref'[s][b])]_ref
  <1> SUFFICES ASSUME HistInv, [Next]_vars
               PROVE  HistInv' /\ (Advances \/ UNCHANGED ref)
    BY DEF Advances
  <1>1. CASE UNCHANGED vars
    <2>1. HeldInv'
      BY <1>1, HeldNext DEF HistInv
    <2>2. \A c \in Clone : SnapshotsOK(c)' /\ PushedOK(c)' /\ ExpectOK(c)'
      BY <1>1 DEF vars, HistInv, SnapshotsOK, PushedOK, ExpectOK
    <2> QED
      BY <1>1, <2>1, <2>2 DEF vars, HistInv
  <1>2. ASSUME NEW c \in Clone, Stop(c)
        PROVE  HistInv' /\ UNCHANGED ref
    <2>1. Sound(c) /\ UNCHANGED <<ref, snapshot, pushed>>
      BY <1>2, StopOK DEF Stop, HistInv
    <2>2. pc'[c] = "idle"
      BY <1>2 DEF Stop, Return, Goto, HistInv, HeldInv, TypeOK
    <2> QED
      BY <2>1, <2>2, SameHeads, HistQuiet
  <1> QED
    BY <1>1, <1>2, CommandHist, StepHist DEF Next

(* No step of any clone, in any store, rewinds a head or replaces it by a  *)
(* commit that is not built on it ...                                      *)
THEOREM TransfersOnlyAdvance ==
    ASSUME NoCreationRace PROVE Spec => SyncNeverRewinds
  <1> QED
    BY HistInit, HistNext, PTL DEF Spec, SyncNeverRewinds

(* ... what push reported as done stays in the remote's history ...        *)
THEOREM PushesAlwaysKept ==
    ASSUME NoCreationRace PROVE Spec => []PushesKept
  <1>1. HistInv => PushesKept
    BY DEF HistInv, PushedOK, PushesKept
  <1> QED
    BY <1>1, HistInit, HistNext, PTL DEF Spec

(* ... and what a clone believes of the remote is always an earlier head.  *)
THEOREM RemoteViewsAlwaysHistory ==
    ASSUME NoCreationRace PROVE Spec => []RemoteViewsAreHistory
  <1>1. HistInv => RemoteViewsAreHistory
    BY DEF HistInv, SnapshotsOK, ExpectOK, RemoteViewsAreHistory
  <1> QED
    BY <1>1, HistInit, HistNext, PTL DEF Spec
=============================================================================
