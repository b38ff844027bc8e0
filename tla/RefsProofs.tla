----------------------------- MODULE RefsProofs -----------------------------
(***************************************************************************)
(* Proofs about Refs for any number of clients, branches and commits: the  *)
(* types, names that resolve, and that no update is lost unless two        *)
(* clients open an empty bucket at once.  Heads only move forward, every   *)
(* client's view is an earlier head, a staged commit fails only under      *)
(* contention, and Refs implements BranchHistory.                          *)
(***************************************************************************)
EXTENDS Refs, CommitGraphProofs, FiniteSetTheorems

RefsOK(objs, r) == \A b \in Branch : r[b] \in {Missing} \cup Commits(objs)

----------------------------------------------------------------------------
(* Type correctness, and names that resolve                                *)

LEMMA NoJobType == NoJob \in Job
  BY ConstantsOK DEF NoJob, Job, RefValue, Missing, NoCommit

LEMMA BranchStateType ==
    ASSUME TypeOK, NEW c \in Client, NEW b \in Branch
    PROVE  BranchState(c, b) \in RefValue
  BY DEF TypeOK, BranchState

LEMMA KeepSnapshotType ==
    ASSUME TypeOK, NEW c \in Client, NEW b \in Branch, KeepSnapshot(c, b)
    PROVE  snapshot' \in [Client -> [Branch -> RefValue]]
  BY BranchStateType DEF TypeOK, KeepSnapshot

(* A running command expects its branch to be there. *)
Settled(c) ==
    /\ pc[c] \in {"merge_state", "write", "cas", "put", "conflict", "refresh", "reflog"}
    /\ job[c].op # "branch"

(* The part of a client's state that names commits. *)
ClientResolves(c) ==
    /\ \A b \in Branch :
          /\ snapshot[c][b] \in Value(objects)
          /\ snapshot[c][b] # Missing => ref[b] # Missing
    /\ \A e \in reflog[c] : e.old \in Commits(objects) /\ e.new \in Commits(objects)
    /\ job[c].exp \in Commits(objects)
    /\ job[c].new \in Commits(objects)
    /\ job[c].source \in Commits(objects)
    /\ job[c].token \in Value(objects)
    /\ Settled(c) => ref[job[c].branch] # Missing
    /\ pc[c] = "branch_head" => job[c].op = "branch"
    /\ pc[c] = "fast_forward" => job[c].op # "branch"

(* Inductive, whether or not the repository is fresh. *)
RInv ==
    /\ TypeOK
    /\ GraphOK(objects)
    /\ RefsOK(objects, ref)
    /\ \A c \in Client : ClientResolves(c)

LEMMA RInvInit == Init => RInv
  <1> SUFFICES ASSUME Init PROVE RInv
    OBVIOUS
  <1>1. TypeOK
    BY NoJobType, ConstantsOK DEF Init, TypeOK, RefValue, Missing, NoCommit, Label
  <1>2. GraphOK(objects) /\ RefsOK(objects, ref)
    BY DEF Init, GraphOK, RefsOK, Commits
  <1>3. \A c \in Client : ClientResolves(c)
    BY DEF Init, ClientResolves, NoJob, Value, Commits, Settled
  <1> QED
    BY <1>1, <1>2, <1>3 DEF RInv

(* A step of client c leaves the other clients' state alone. *)
Acts(c) ==
    \A d \in Client \ {c} :
        /\ snapshot'[d] = snapshot[d] /\ reflog'[d] = reflog[d]
        /\ pc'[d] = pc[d] /\ job'[d] = job[d]

(* ... and a local one neither writes a ref nor an object. *)
Local(c) == UNCHANGED <<ref, objects>> /\ Acts(c)

(* What the others hold keeps its meaning: commits stay in the store and   *)
(* no ref is deleted.                                                      *)
LEMMA OthersResolve ==
    ASSUME RInv, NEW c \in Client, Acts(c), Prefix(objects, objects'),
           \A b \in Branch : ref[b] # Missing => ref'[b] # Missing,
           objects' \in Seq(CommitObject), job \in [Client -> Job],
           NEW d \in Client \ {c}
    PROVE  ClientResolves(d)'
  <1>1. Commits(objects) \subseteq Commits(objects')
    BY DEF RInv, TypeOK, Prefix, Commits
  <1>2. Value(objects) \subseteq Value(objects')
    BY <1>1 DEF Value
  <1>3. job[d].branch \in Branch
    BY DEF Job
  <1>4. snapshot'[d] = snapshot[d] /\ reflog'[d] = reflog[d]
        /\ pc'[d] = pc[d] /\ job'[d] = job[d]
    BY DEF Acts
  <1>5. ClientResolves(d)
    BY DEF RInv
  <1> QED
    BY <1>1, <1>2, <1>3, <1>4, <1>5 DEF ClientResolves, Settled

LEMMA LocalStep ==
    ASSUME RInv, NEW c \in Client, Local(c), TypeOK', ClientResolves(c)'
    PROVE  RInv'
  <1>1. GraphOK(objects)' /\ RefsOK(objects, ref)'
    BY DEF RInv, Local, GraphOK, RefsOK, Commits
  <1>2. Prefix(objects, objects')
    BY DEF Local, Prefix, RInv, TypeOK
  <1>3. \A d \in Client \ {c} : ClientResolves(d)'
    BY <1>2, OthersResolve DEF RInv, TypeOK, Local
  <1> QED
    BY <1>1, <1>3 DEF RInv

(* _ensure_head's put, answered or not. *)
Ensures(c) == EnsureHead(c) \/ EnsureHeadAnswerLost(c)

LEMMA RInvNext == RInv /\ [Next]_vars => RInv'
  <1> SUFFICES ASSUME RInv, [Next]_vars PROVE RInv'
    OBVIOUS
  <1> USE DEF RInv
  <1>0. CASE UNCHANGED vars
    BY <1>0 DEF vars, TypeOK, GraphOK, RefsOK, ClientResolves, Settled, Value, Commits
  <1>1. ASSUME NEW c \in Client, Open(c)
        PROVE  RInv'
    <2>1. TypeOK'
      BY <1>1
      DEF TypeOK, Open, Goto, Label
    <2>2. Local(c)
      BY <1>1 DEF Local, Acts, TypeOK, Open, Goto
    <2>3. ClientResolves(c)'
      BY <1>1
      DEF TypeOK, Open, Goto, ClientResolves, Settled
    <2> QED
      BY <2>1, <2>2, <2>3, LocalStep
  <1>2. ASSUME NEW c \in Client, Stop(c)
        PROVE  RInv'
    <2>1. TypeOK'
      BY <1>2, NoJobType
      DEF TypeOK, Stop, Goto, Label
    <2>2. Local(c)
      BY <1>2 DEF Local, Acts, TypeOK, Stop, Goto
    <2>3. ClientResolves(c)'
      BY <1>2
      DEF TypeOK, Stop, Goto, ClientResolves, Settled, NoJob, Value, Commits
    <2> QED
      BY <2>1, <2>2, <2>3, LocalStep
  <1>3. ASSUME NEW c \in Client, NEW b \in Branch, SetCurrentBranch(c, b)
        PROVE  RInv'
    <2>1. TypeOK'
      BY <1>3, BranchStateType, KeepSnapshotType
      DEF TypeOK, SetCurrentBranch, KeepSnapshot
    <2>2. Local(c)
      BY <1>3 DEF Local, Acts, TypeOK, SetCurrentBranch, KeepSnapshot
    <2>3. ClientResolves(c)'
      BY <1>3
      DEF TypeOK, SetCurrentBranch, KeepSnapshot, ClientResolves, Settled, BranchState, RefsOK, Value, Commits, Missing, NoCommit
    <2> QED
      BY <2>1, <2>2, <2>3, LocalStep
  <1>4. ASSUME NEW c \in Client, NEW b \in Branch, StartBranch(c, b)
        PROVE  RInv'
    <2>1. TypeOK'
      BY <1>4, NoJobType
      DEF TypeOK, StartBranch, Goto, Label, Job, RefValue, Missing, NoCommit
    <2>2. Local(c)
      BY <1>4 DEF Local, Acts, TypeOK, StartBranch, Goto
    <2>3. ClientResolves(c)'
      BY <1>4
      DEF TypeOK, StartBranch, Goto, ClientResolves, Settled, NoJob, Value, Commits
    <2> QED
      BY <2>1, <2>2, <2>3, LocalStep
  <1>5. ASSUME NEW c \in Client, BranchReadHead(c)
        PROVE  RInv'
    <2>1. TypeOK'
      <3> DEFINE n == IF ref[head[c]] = Missing THEN NoCommit ELSE ref[head[c]]
      <3>1. n \in Nat
        BY DEF TypeOK, RefValue, Missing, NoCommit
      <3>2. job[c] \in Job
        BY DEF TypeOK
      <3>3. [job[c] EXCEPT !.new = n] \in Job
        BY <3>1, <3>2 DEF Job
      <3>4. job' \in [Client -> Job]
        BY <1>5, <3>3 DEF BranchReadHead, TypeOK
      <3>5. pc' \in [Client -> Label]
        BY <1>5 DEF BranchReadHead, Goto, Label, TypeOK
      <3> QED BY <1>5, <3>4, <3>5 DEF BranchReadHead, TypeOK
    <2>2. Local(c)
      BY <1>5 DEF Local, Acts, TypeOK, BranchReadHead, Goto
    <2>3. ClientResolves(c)'
      BY <1>5
      DEF TypeOK, BranchReadHead, Goto, ClientResolves, Settled, RefsOK, Value, Commits, Missing, NoCommit, Job
    <2> QED
      BY <2>1, <2>2, <2>3, LocalStep
  <1>6. ASSUME NEW c \in Client, NEW op \in {"commit", "staged"}, StartCommit(c, op)
        PROVE  RInv'
    <2>1. TypeOK'
      BY <1>6, NoJobType, BranchStateType, KeepSnapshotType
      DEF TypeOK, StartCommit, Goto, KeepSnapshot, Label, Job, RefValue, Missing, NoCommit
    <2>2. Local(c)
      BY <1>6 DEF Local, Acts, TypeOK, StartCommit, Goto, KeepSnapshot
    <2>3. ClientResolves(c)'
      BY <1>6
      DEF TypeOK, StartCommit, Goto, KeepSnapshot, ClientResolves, Settled, BranchState, RefsOK, Value, Commits, Missing, NoCommit, NoJob
    <2> QED
      BY <2>1, <2>2, <2>3, LocalStep
  <1>7. ASSUME NEW c \in Client, NEW b \in Branch, NEW x \in Stored, StartMerge(c, b, x)
        PROVE  RInv'
    <2>1. TypeOK'
      <3>1. x \in Nat /\ ref[b] \in Nat
        BY <1>7 DEF StartMerge, Stored, TypeOK
      <3>2. [NoJob EXCEPT !.op = "merge", !.branch = b, !.exp = ref[b],
                          !.new = x, !.source = x] \in Job
        BY <3>1, NoJobType DEF Job
      <3>3. job' \in [Client -> Job]
        BY <1>7, <3>2 DEF StartMerge, TypeOK
      <3> QED BY <1>7, <3>3 DEF StartMerge, TypeOK, Goto, Label
    <2>2. Local(c)
      BY <1>7 DEF Local, Acts, TypeOK, StartMerge, Goto
    <2>3. ClientResolves(c)'
      BY <1>7
      DEF TypeOK, StartMerge, Goto, ClientResolves, Settled, NoJob, Value, Commits, Stored, RefsOK, Missing
    <2> QED
      BY <2>1, <2>2, <2>3, LocalStep
  <1>8. ASSUME NEW c \in Client, MergeState(c)
        PROVE  RInv'
    <2>1. TypeOK'
      BY <1>8, NoJobType, BranchStateType, KeepSnapshotType
      DEF TypeOK, MergeState, Goto, KeepSnapshot, Label, Job, RefValue, Missing, NoCommit
    <2>2. Local(c)
      BY <1>8 DEF Local, Acts, TypeOK, MergeState, Goto, KeepSnapshot
    <2>3. ClientResolves(c)'
      BY <1>8
      DEF TypeOK, MergeState, Goto, KeepSnapshot, ClientResolves, Settled, BranchState, RefsOK, Value, Commits, Missing, NoCommit, Job
    <2> QED
      BY <2>1, <2>2, <2>3, LocalStep
  <1>9. ASSUME NEW c \in Client, MergeConflict(c)
        PROVE  RInv'
    <2>1. TypeOK'
      BY <1>9, NoJobType
      DEF TypeOK, MergeConflict, Return, Goto, Label
    <2>2. Local(c)
      BY <1>9 DEF Local, Acts, TypeOK, MergeConflict, Return, Goto
    <2>3. ClientResolves(c)'
      BY <1>9
      DEF TypeOK, MergeConflict, Return, Goto, ClientResolves, Settled, NoJob, Value, Commits
    <2> QED
      BY <2>1, <2>2, <2>3, LocalStep
  <1>10. ASSUME NEW c \in Client, NEW b \in Branch, NEW x \in Stored, StartFastForward(c, b, x)
        PROVE  RInv'
    <2>1. TypeOK'
      <3>1. x \in Nat
        BY DEF TypeOK, Stored
      <3>2. [NoJob EXCEPT !.op = "fast_forward", !.branch = b, !.new = x] \in Job
        BY <3>1, NoJobType DEF Job
      <3>3. job' \in [Client -> Job]
        BY <1>10, <3>2 DEF StartFastForward, TypeOK
      <3> QED BY <1>10, <3>3 DEF StartFastForward, TypeOK, Goto, Label
    <2>2. Local(c)
      BY <1>10 DEF Local, Acts, TypeOK, StartFastForward, Goto
    <2>3. ClientResolves(c)'
      BY <1>10
      DEF TypeOK, StartFastForward, Goto, ClientResolves, Settled, NoJob, Value, Commits, Stored, RefsOK, Missing
    <2> QED
      BY <2>1, <2>2, <2>3, LocalStep
  <1>11. ASSUME NEW c \in Client, FastForwardBranch(c)
        PROVE  RInv'
    <2>1. TypeOK'
      <3> DEFINE s == BranchState(c, job[c].branch)
      <3>0. job[c] \in Job BY DEF TypeOK
      <3>1. job[c].branch \in Branch /\ s \in RefValue
        BY <3>0, BranchStateType DEF Job
      <3>2. s # Missing => [job[c] EXCEPT !.exp = s, !.token = s] \in Job
        BY <3>0, <3>1 DEF Job, RefValue
      <3>3. job' \in [Client -> Job]
        BY <1>11, <3>2, NoJobType DEF FastForwardBranch, Return, TypeOK
      <3>4. snapshot' \in [Client -> [Branch -> RefValue]]
        BY <1>11, <3>1, KeepSnapshotType DEF FastForwardBranch
      <3> QED BY <1>11, <3>3, <3>4 DEF FastForwardBranch, TypeOK, Goto, Return, Label
    <2>2. Local(c)
      BY <1>11 DEF Local, Acts, TypeOK, FastForwardBranch, Return, Goto, KeepSnapshot
    <2>3. ClientResolves(c)'
      <3> DEFINE s == BranchState(c, job[c].branch)
      <3>0. job[c] \in Job /\ ClientResolves(c) BY DEF TypeOK
      <3>1. job[c].branch \in Branch BY <3>0 DEF Job
      <3>2. s \in Value(objects) /\ (s # Missing => ref[job[c].branch] # Missing)
        BY <3>0, <3>1 DEF BranchState, ClientResolves, RefsOK, Value
      <3>3. \/ job'[c] = NoJob /\ pc'[c] = "idle"
            \/ /\ job'[c] = [job[c] EXCEPT !.exp = s, !.token = s]
               /\ pc'[c] = "cas" /\ s # Missing
        BY <1>11 DEF FastForwardBranch, Return, Goto, TypeOK
      <3>4. /\ \A b \in Branch : snapshot'[c][b] = IF b = job[c].branch THEN s ELSE snapshot[c][b]
            /\ UNCHANGED <<ref, objects, reflog>>
        BY <1>11, <3>1 DEF FastForwardBranch, KeepSnapshot, TypeOK
      <3>5. \A b \in Branch : /\ snapshot'[c][b] \in Value(objects)
                              /\ snapshot'[c][b] # Missing => ref[b] # Missing
        BY <3>0, <3>2, <3>4 DEF ClientResolves
      <3>6. CASE job'[c] = NoJob /\ pc'[c] = "idle"
        BY <3>0, <3>4, <3>5, <3>6 DEF ClientResolves, Settled, NoJob, Commits, Value
      <3>7. CASE /\ job'[c] = [job[c] EXCEPT !.exp = s, !.token = s]
               /\ pc'[c] = "cas" /\ s # Missing
        <4>1. /\ job'[c].exp = s /\ job'[c].token = s /\ job'[c].branch = job[c].branch
              /\ job'[c].new = job[c].new /\ job'[c].source = job[c].source
          BY <3>0, <3>7 DEF Job
        <4>2. s \in Commits(objects) BY <3>2, <3>7 DEF Value
        <4> QED
          BY <3>0, <3>2, <3>4, <3>5, <3>7, <4>1, <4>2 DEF ClientResolves, Settled, Commits, Value
      <3> QED BY <3>3, <3>6, <3>7
    <2> QED
      BY <2>1, <2>2, <2>3, LocalStep
  <1>12. ASSUME NEW c \in Client, CasCheck(c)
        PROVE  RInv'
    <2>1. TypeOK'
      <3>3. job' \in [Client -> Job]
        BY <1>12, NoJobType DEF CasCheck, CasFailed, Return, TypeOK
      <3>4. pc' \in [Client -> Label]
        BY <1>12 DEF CasCheck, CasFailed, Return, Goto, Label, TypeOK
      <3> QED BY <1>12, <3>3, <3>4 DEF CasCheck, CasFailed, TypeOK
    <2>2. Local(c)
      BY <1>12 DEF Local, Acts, TypeOK, CasCheck, CasFailed, Return, Goto
    <2>3. ClientResolves(c)'
      BY <1>12
      DEF TypeOK, CasCheck, CasFailed, Return, Goto, ClientResolves, Settled, NoJob, Value, Commits, Job
    <2> QED
      BY <2>1, <2>2, <2>3, LocalStep
  <1>13. ASSUME NEW c \in Client, Conflict(c)
        PROVE  RInv'
    <2>1. TypeOK'
      <3> DEFINE r == ref[job[c].branch]
      <3>0. job[c] \in Job /\ ClientResolves(c) BY DEF TypeOK
      <3>1. job[c].branch \in Branch /\ job[c].attempt \in Nat
        BY <3>0 DEF Job
      <3>2. r \in RefValue /\ (job[c].op = "staged" => r \in Nat)
        BY <1>13, <3>0, <3>1 DEF Conflict, ClientResolves, Settled, TypeOK, RefValue
      <3>3. job[c].attempt + 1 \in Nat
        BY <3>1
      <3>4. r \in Nat => [job[c] EXCEPT !.exp = r, !.token = r, !.attempt = @ + 1] \in Job
        BY <3>0, <3>3 DEF Job, RefValue
      <3>5. job' \in [Client -> Job]
        BY <1>13, <3>2, <3>4, NoJobType DEF Conflict, Return, TypeOK
      <3>6. snapshot' \in [Client -> [Branch -> RefValue]]
        BY <1>13, <3>2 DEF Conflict, TypeOK
      <3> QED BY <1>13, <3>5, <3>6 DEF Conflict, TypeOK, Goto, Return, Label
    <2>2. Local(c)
      BY <1>13 DEF Local, Acts, TypeOK, Conflict, Return, Goto
    <2>3. ClientResolves(c)'
      <3> DEFINE r == ref[job[c].branch]
      <3>0. job[c] \in Job /\ ClientResolves(c) BY DEF TypeOK
      <3>1. job[c].branch \in Branch BY <3>0 DEF Job
      <3>2. r \in Value(objects) /\ (job[c].op = "staged" => r # Missing)
        BY <1>13, <3>0, <3>1 DEF Conflict, ClientResolves, Settled, RefsOK, Value
      <3>3. \/ job'[c] = NoJob /\ pc'[c] = "idle"
            \/ /\ job'[c] = [job[c] EXCEPT !.exp = r, !.token = r, !.attempt = @ + 1]
               /\ pc'[c] = "write" /\ r # Missing
        BY <1>13, <3>2 DEF Conflict, Return, Goto, TypeOK
      <3>4. /\ \A b \in Branch : snapshot'[c][b] = IF b = job[c].branch THEN r ELSE snapshot[c][b]
            /\ UNCHANGED <<ref, objects, reflog>>
        BY <1>13, <3>1 DEF Conflict, TypeOK
      <3>5. \A b \in Branch : /\ snapshot'[c][b] \in Value(objects)
                              /\ snapshot'[c][b] # Missing => ref[b] # Missing
        BY <3>0, <3>2, <3>4 DEF ClientResolves
      <3>6. CASE job'[c] = NoJob /\ pc'[c] = "idle"
        BY <3>0, <3>4, <3>5, <3>6 DEF ClientResolves, Settled, NoJob, Commits, Value
      <3>7. CASE /\ job'[c] = [job[c] EXCEPT !.exp = r, !.token = r, !.attempt = @ + 1]
               /\ pc'[c] = "write" /\ r # Missing
        <4>1. /\ job'[c].exp = r /\ job'[c].token = r /\ job'[c].branch = job[c].branch
              /\ job'[c].new = job[c].new /\ job'[c].source = job[c].source
          BY <3>0, <3>7 DEF Job
        <4>2. r \in Commits(objects) BY <3>2, <3>7 DEF Value
        <4> QED
          BY <3>0, <3>2, <3>4, <3>5, <3>7, <4>1, <4>2 DEF ClientResolves, Settled, Commits, Value
      <3> QED BY <3>3, <3>6, <3>7
    <2> QED
      BY <2>1, <2>2, <2>3, LocalStep
  <1>14. ASSUME NEW c \in Client, Refresh(c)
        PROVE  RInv'
    <2>1. TypeOK'
      <3>1. ref[job[c].branch] \in RefValue
        BY DEF TypeOK, Job
      <3>2. snapshot' \in [Client -> [Branch -> RefValue]]
        BY <1>14, <3>1 DEF Refresh, TypeOK
      <3>3. job' \in [Client -> Job]
        BY <1>14, NoJobType DEF Refresh, Return, TypeOK
      <3>4. pc' \in [Client -> Label]
        BY <1>14 DEF Refresh, Return, Goto, Label, TypeOK
      <3> QED BY <1>14, <3>2, <3>3, <3>4 DEF Refresh, TypeOK
    <2>2. Local(c)
      BY <1>14 DEF Local, Acts, TypeOK, Refresh, Return, Goto
    <2>3. ClientResolves(c)'
      BY <1>14
      DEF TypeOK, Refresh, Return, Goto, ClientResolves, Settled, RefsOK, Value, Commits, Missing, NoCommit, NoJob, Job
    <2> QED
      BY <2>1, <2>2, <2>3, LocalStep
  <1>15. ASSUME NEW c \in Client, AppendReflog(c)
        PROVE  RInv'
    <2>1. TypeOK'
      <3>1. [branch |-> job[c].branch, old |-> job[c].exp, new |-> job[c].new] \in ReflogEntry
        BY DEF TypeOK, Job, ReflogEntry
      <3>2. reflog' \in [Client -> SUBSET ReflogEntry]
        BY <1>15, <3>1 DEF AppendReflog, TypeOK
      <3> QED BY <1>15, <3>2, NoJobType DEF AppendReflog, TypeOK, Goto, Return, Label
    <2>2. Local(c)
      BY <1>15 DEF Local, Acts, TypeOK, AppendReflog, Return, Goto
    <2>3. ClientResolves(c)'
      BY <1>15
      DEF TypeOK, AppendReflog, Return, Goto, ClientResolves, Settled, NoJob, Value, Commits, Job
    <2> QED
      BY <2>1, <2>2, <2>3, LocalStep
  <1>16. ASSUME NEW c \in Client, Ensures(c) PROVE RInv'
    <2>1. TypeOK'
      <3>1. /\ ref' = [ref EXCEPT ![DefaultBranch] = NoCommit]
            /\ UNCHANGED <<objects, head, snapshot, reflog, job>>
            /\ pc' = pc \/ pc' = [pc EXCEPT ![c] = "idle"]
        BY <1>16 DEF Ensures, EnsureHead, EnsureHeadAnswerLost, PutEmptyHead, Goto
      <3> QED
        BY <3>1, ConstantsOK DEF TypeOK, Label, RefValue, NoCommit
    <2>2. \A b \in Branch : ref[b] # Missing => ref'[b] # Missing
      BY <1>16 DEF Ensures, EnsureHead, EnsureHeadAnswerLost, PutEmptyHead, TypeOK, NoCommit, Missing
    <2>3. GraphOK(objects)' /\ RefsOK(objects, ref)'
      BY <1>16 DEF Ensures, EnsureHead, EnsureHeadAnswerLost, PutEmptyHead,
                   TypeOK, GraphOK, RefsOK, Commits
    <2>4. Acts(c) /\ Prefix(objects, objects')
      BY <1>16 DEF Ensures, EnsureHead, EnsureHeadAnswerLost, PutEmptyHead, Goto,
                     TypeOK, Acts, Prefix
    <2>5. ClientResolves(c)'
      BY <1>16, <2>2 DEF Ensures, EnsureHead, EnsureHeadAnswerLost, PutEmptyHead, Goto,
                         TypeOK, ClientResolves, Settled, Commits, Value
    <2> QED
      BY <2>1, <2>2, <2>3, <2>4, <2>5, OthersResolve DEF TypeOK
  <1>17. ASSUME NEW c \in Client, WriteCommitObject(c) PROVE RInv'
    <2> DEFINE o == NewCommit(objects, job[c].exp, job[c].source)
    <2>1. job[c].exp \in Commits(objects) /\ job[c].source \in Commits(objects)
      BY DEF ClientResolves
    <2>2. /\ objects' = Append(objects, o) /\ objects' \in Seq(CommitObject)
          /\ Prefix(objects, objects') /\ GraphOK(objects')
          /\ Len(objects') = Len(objects) + 1
      BY <1>17, <2>1, NewCommitKeepsGraph DEF WriteCommitObject, TypeOK
    <2>3. TypeOK'
      <3>0. job[c] \in Job /\ Len(objects) + 1 \in Nat BY DEF TypeOK
      <3>1. [job[c] EXCEPT !.new = Len(objects) + 1] \in Job
        BY <3>0 DEF Job
      <3>2. job' \in [Client -> Job]
        BY <1>17, <3>1 DEF WriteCommitObject, TypeOK
      <3> QED BY <1>17, <2>2, <3>2 DEF WriteCommitObject, TypeOK, Goto, Label
    <2>4. Commits(objects) \subseteq Commits(objects')
          /\ Len(objects) + 1 \in Commits(objects')
      BY <2>2 DEF Commits, TypeOK
    <2>5. RefsOK(objects, ref)'
      BY <1>17, <2>4 DEF WriteCommitObject, RefsOK
    <2>6. Acts(c)
      BY <1>17 DEF WriteCommitObject, Goto, TypeOK, Acts
    <2>7. ClientResolves(c)'
      BY <1>17, <2>4 DEF WriteCommitObject, Goto, TypeOK, ClientResolves, Settled, Value
    <2>8. \A b \in Branch : ref[b] # Missing => ref'[b] # Missing
      BY <1>17 DEF WriteCommitObject
    <2> QED
      BY <2>2, <2>3, <2>5, <2>6, <2>7, <2>8, OthersResolve DEF TypeOK
  <1>18. ASSUME NEW c \in Client, CasPut(c) \/ CasPutAnswerLost(c) PROVE RInv'
    <2>1. job[c] \in Job /\ job[c].branch \in Branch /\ job[c].new \in Commits(objects)
      BY DEF TypeOK, Job, ClientResolves
    <2>2. /\ UNCHANGED <<objects, head, snapshot, reflog>>
          /\ PutRef(c) \/ UNCHANGED ref
      BY <1>18 DEF CasPut, CasPutAnswerLost
    <2>3. /\ \A d \in Client \ {c} : job'[d] = job[d] /\ pc'[d] = pc[d]
          /\ \/ job'[c] = job[c]
             \/ job'[c] = NoJob /\ pc'[c] = "idle"
          /\ pc[c] = "put" /\ pc'[c] \in {"refresh", "idle", "conflict"}
      <3>1. CASE CasFailed(c) /\ pc[c] = "put"
        BY <3>1 DEF CasFailed, Return, Goto, TypeOK
      <3>2. CASE pc[c] = "put" /\ Goto(c, "refresh") /\ UNCHANGED job
        BY <3>2 DEF Goto, TypeOK
      <3> QED
        BY <1>18, <3>1, <3>2 DEF CasPut, CasPutAnswerLost
    <2>4. TypeOK'
      <3>1. job[c].new \in RefValue
        BY <2>1 DEF Job, RefValue
      <3>2. job' \in [Client -> Job]
        BY <1>18, NoJobType DEF CasPut, CasPutAnswerLost, CasFailed, Return, TypeOK
      <3>3. pc' \in [Client -> Label]
        BY <1>18 DEF CasPut, CasPutAnswerLost, CasFailed, Return, Goto, Label, TypeOK
      <3>4. ref' \in [Branch -> RefValue]
        BY <2>2, <3>1 DEF PutRef, TypeOK
      <3> QED BY <2>2, <3>2, <3>3, <3>4 DEF TypeOK
    <2>5. \A b \in Branch : ref[b] # Missing => ref'[b] # Missing
      BY <2>1, <2>2 DEF PutRef, TypeOK, Commits, Missing, NoCommit
    <2>6. GraphOK(objects)' /\ RefsOK(objects, ref)'
      BY <2>1, <2>2 DEF PutRef, TypeOK, GraphOK, RefsOK, Commits
    <2>7. Acts(c) /\ Prefix(objects, objects')
      BY <2>2, <2>3 DEF TypeOK, Acts, Prefix
    <2>8. ClientResolves(c)'
      BY <2>1, <2>2, <2>3, <2>5
      DEF TypeOK, ClientResolves, Settled, NoJob, Commits, Value, Missing, NoCommit
    <2> QED
      BY <2>4, <2>5, <2>6, <2>7, <2>8, OthersResolve DEF TypeOK
  <1> QED
    BY <1>0, <1>1, <1>2, <1>3, <1>4, <1>5, <1>6, <1>7, <1>8, <1>9, <1>10, <1>11,
       <1>12, <1>13, <1>14, <1>15, <1>16, <1>17, <1>18 DEF Next, Start, Step, Ensures

(* Every value of the state is of its type: refs are names, the store      *)
(* holds commit objects, jobs only ever hold commits.                      *)
THEOREM TypeCorrect == Spec => []TypeOK
  <1>1. RInv => TypeOK
    BY DEF RInv
  <1> QED
    BY <1>1, RInvInit, RInvNext, PTL DEF Spec

(* Refs, snapshots, reflogs and parents only ever name commits that were   *)
(* written: nothing refers to a commit object before its put.              *)
THEOREM NamesAlwaysResolve == Spec => []NamesResolve
  <1>1. RInv => NamesResolve
    BY DEF RInv, NamesResolve, GraphOK, RefsOK, ClientResolves, Resolvable, Stored,
           Value, Commits
  <1> QED
    BY <1>1, RInvInit, RInvNext, PTL DEF Spec

(* is_ancestor's generation shortcut never changes its answer.             *)
THEOREM ShortcutAlwaysSound == Spec => []AncestorShortcutSound
  <1>1. RInv => AncestorShortcutSound
    BY ShortcutAgrees DEF RInv, TypeOK, AncestorShortcutSound, Stored, Chain
  <1> QED
    BY <1>1, RInvInit, RInvNext, PTL DEF Spec

----------------------------------------------------------------------------
(* No update is lost *)

(* A client's snapshots name heads the branches had. *)
SnapshotOK(objs, r, sn) ==
    \A b \in Branch :
        /\ sn[b] \in Value(objs)
        /\ Extends(objs, sn[b], r[b])

ReflogOK(objs, r, log) ==
    \A e \in log :
        /\ e.old \in Commits(objs) /\ e.new \in Commits(objs)
        /\ Extends(objs, e.old, e.new)
        /\ Extends(objs, e.new, r[e.branch])

(* What a command that creates a branch holds: the CAS is to find no ref,  *)
(* and the new head is one of some branch's history.                       *)
BranchJobOK(objs, r, p, j) ==
    /\ p \in {"branch_head", "cas", "put"} => j.token = Missing /\ j.exp = NoCommit
    /\ p \in {"cas", "put"} =>
          /\ j.new \in Commits(objs)
          /\ j.new = NoCommit \/ \E d \in Branch : Extends(objs, j.new, r[d])

(* What a command that moves a branch holds, from the moment it has        *)
(* settled the state it expects.                                           *)
UpdateJobOK(objs, r, p, j) ==
    /\ j.exp \in Commits(objs) /\ j.token \in Commits(objs)
    /\ j.exp = j.token \/ j.exp # NoCommit
    /\ Extends(objs, j.exp, r[j.branch])
    /\ Extends(objs, j.token, r[j.branch])
    /\ p \in {"cas", "put", "refresh", "reflog"} =>
          /\ j.new \in 1 .. Len(objs)
          /\ j.new # j.exp
          /\ Extends(objs, j.exp, j.new)
    /\ p = "put" => j.exp = j.token
    /\ p \in {"refresh", "reflog"} => Extends(objs, j.new, r[j.branch])

Creating(p, j) == p \in {"branch_head", "cas", "put", "refresh"} /\ j.op = "branch"

Updating(p, j) ==
    p \in {"write", "cas", "put", "conflict", "refresh", "reflog"} /\ j.op # "branch"

JobOK(objs, r, p, j) ==
    /\ p \in {"write", "conflict", "reflog"} => j.op # "branch"
    /\ p = "merge_state" =>
          /\ j.op # "branch"
          /\ j.exp \in 1 .. Len(objs)
          /\ Extends(objs, j.exp, r[j.branch])
    /\ p = "fast_forward" => j.op # "branch" /\ j.new \in 1 .. Len(objs)
    /\ Creating(p, j) => BranchJobOK(objs, r, p, j)
    /\ Updating(p, j) => UpdateJobOK(objs, r, p, j)

ClientOK(objs, r, sn, log, p, j) ==
    /\ SnapshotOK(objs, r, sn)
    /\ ReflogOK(objs, r, log)
    /\ JobOK(objs, r, p, j)

(* Two clients never open an empty bucket at once: it is not empty, or one *)
(* client opens it first.  Without this the unguarded write of             *)
(* _ensure_head may erase a head.                                          *)
NoInitRace == \A c, d \in Founders : c = d

(* A client that writes the default branch has the bucket to itself, and   *)
(* there is nothing in that branch; every other client found it there.     *)
OpenOK(c) ==
    /\ pc[c] = "ensure_head" =>
          /\ c \in Founders
          /\ ref[DefaultBranch] \in {Missing, NoCommit}
          /\ \A d \in Client \ {c} : pc[d] = "closed"
    /\ pc[c] \notin {"closed", "ensure_head"} => ref[DefaultBranch] # Missing

(* The inductive invariant: _ensure_head replaces nothing, and every       *)
(* client's view is an earlier head.                                       *)
HInv ==
    /\ RInv
    /\ NoInitRace
    /\ \A c \in Client :
          /\ OpenOK(c)
          /\ ClientOK(objects, ref, snapshot[c], reflog[c], pc[c], job[c])

(* A step adds commits at most, and moves heads forward. *)
Grows ==
    /\ Prefix(objects, objects')
    /\ \A b \in Branch : Extends(objects', ref[b], ref'[b])

----------------------------------------------------------------------------
(* What a client holds outlives the steps of its peers                     *)

(* An earlier head stays an earlier head. *)
LEMMA LaterHead ==
    ASSUME NEW objs \in Seq(CommitObject), NEW objs2 \in Seq(CommitObject),
           GraphOK(objs2), Prefix(objs, objs2),
           NEW v \in Value(objs), NEW w \in Value(objs), NEW w2 \in Value(objs2),
           Extends(objs, v, w), Extends(objs2, w, w2)
    PROVE  Extends(objs2, v, w2)
  <1>1. Extends(objs2, v, w)
    BY ExtendsPrefix
  <1>2. v \in Value(objs2) /\ w \in Value(objs2)
    BY DEF Prefix, Value, Commits
  <1> QED
    BY <1>1, <1>2, ExtendsTransitive

LEMMA ViewsSurvive ==
    ASSUME NEW objs \in Seq(CommitObject), NEW objs2 \in Seq(CommitObject),
           GraphOK(objs2), Prefix(objs, objs2),
           NEW r, NEW r2, RefsOK(objs, r), RefsOK(objs2, r2),
           \A b \in Branch : Extends(objs2, r[b], r2[b]),
           NEW sn, NEW log \in SUBSET ReflogEntry, NEW p, NEW j \in Job,
           ClientOK(objs, r, sn, log, p, j)
    PROVE  ClientOK(objs2, r2, sn, log, p, j)
  <1>1. Commits(objs) \subseteq Commits(objs2) /\ Value(objs) \subseteq Value(objs2)
        /\ Commits(objs) \subseteq Value(objs) /\ 1 .. Len(objs) \subseteq 1 .. Len(objs2)
        /\ 1 .. Len(objs) \subseteq Commits(objs)
    BY DEF Prefix, Value, Commits
  <1>2. \A b \in Branch : r[b] \in Value(objs) /\ r2[b] \in Value(objs2)
    BY DEF RefsOK, Value
  <1>3. \A b \in Branch, v \in Value(objs) :
           Extends(objs, v, r[b]) => Extends(objs2, v, r2[b])
    BY <1>2, LaterHead
  <1>4. \A v \in Value(objs), w \in Value(objs) :
           Extends(objs, v, w) => Extends(objs2, v, w)
    BY ExtendsPrefix
  <1>5. j.branch \in Branch /\ \A e \in log : e.branch \in Branch
    BY DEF Job, ReflogEntry
  <1>6. SnapshotOK(objs2, r2, sn)
    BY <1>1, <1>3 DEF ClientOK, SnapshotOK
  <1>7. ReflogOK(objs2, r2, log)
    BY <1>1, <1>3, <1>4, <1>5 DEF ClientOK, ReflogOK
  <1>8. ASSUME BranchJobOK(objs, r, p, j) PROVE BranchJobOK(objs2, r2, p, j)
    BY <1>8, <1>1, <1>3 DEF BranchJobOK
  <1>9. ASSUME UpdateJobOK(objs, r, p, j) PROVE UpdateJobOK(objs2, r2, p, j)
    BY <1>9, <1>1, <1>3, <1>4, <1>5 DEF UpdateJobOK
  <1>10. JobOK(objs2, r2, p, j)
    BY <1>1, <1>3, <1>5, <1>8, <1>9 DEF ClientOK, JobOK
  <1> QED
    BY <1>6, <1>7, <1>10 DEF ClientOK

(* It is enough to look at the client that acts. *)
LEMMA HStep ==
    ASSUME HInv, RInv', NEW c \in Client, Acts(c), Grows, OpenOK(c)',
           \A d \in Client \ {c} : pc[d] # "ensure_head",
           ClientOK(objects', ref', snapshot'[c], reflog'[c], pc'[c], job'[c])
    PROVE  HInv'
  <1>1. ref[DefaultBranch] # Missing => ref'[DefaultBranch] # Missing
    <2>1. Extends(objects', ref[DefaultBranch], ref'[DefaultBranch])
      BY ConstantsOK DEF Grows
    <2> QED
      BY <2>1 DEF RInv, TypeOK, Extends, Chain, Missing
  <1>2. ASSUME NEW d \in Client \ {c}
        PROVE  /\ OpenOK(d)'
               /\ ClientOK(objects', ref', snapshot'[d], reflog'[d], pc'[d], job'[d])
    <2>1. snapshot'[d] = snapshot[d] /\ reflog'[d] = reflog[d]
          /\ pc'[d] = pc[d] /\ job'[d] = job[d]
      BY DEF Acts
    <2>2. ClientOK(objects, ref, snapshot[d], reflog[d], pc[d], job[d]) /\ OpenOK(d)
      BY DEF HInv
    <2>3. reflog[d] \in SUBSET ReflogEntry /\ job[d] \in Job
      BY DEF HInv, RInv, TypeOK
    <2>4. ClientOK(objects', ref', snapshot[d], reflog[d], pc[d], job[d])
      BY <2>2, <2>3, ViewsSurvive DEF HInv, RInv, TypeOK, Grows
    <2>5. OpenOK(d)'
      BY <1>1, <2>1, <2>2 DEF OpenOK
    <2> QED
      BY <2>1, <2>4, <2>5
  <1>3. NoInitRace'
    BY DEF HInv, NoInitRace
  <1> QED
    BY <1>2, <1>3 DEF HInv

(* Nobody is writing the default branch while another client is at work.   *)
LEMMA NobodyFounds ==
    ASSUME HInv, NEW c \in Client, pc[c] # "closed"
    PROVE  \A d \in Client \ {c} : pc[d] # "ensure_head"
  BY DEF HInv, OpenOK

----------------------------------------------------------------------------
(* Steps that only change the state of one client                          *)

LEMMA LocalGrows ==
    ASSUME RInv, UNCHANGED <<ref, objects>>
    PROVE  Grows
  <1>1. Prefix(objects, objects')
    BY DEF Prefix, RInv, TypeOK
  <1>2. \A b \in Branch : ref[b] \in Value(objects)
    BY DEF RInv, RefsOK, Value
  <1>3. \A b \in Branch : Extends(objects, ref[b], ref[b])
    BY <1>2, ExtendsReflexive DEF RInv, TypeOK
  <1> QED
    BY <1>1, <1>3 DEF Grows

LEMMA LocalHStep ==
    ASSUME HInv, RInv', NEW c \in Client, Local(c),
           pc[c] \notin {"closed", "ensure_head"}, pc'[c] # "ensure_head",
           SnapshotOK(objects, ref, snapshot'[c]),
           ReflogOK(objects, ref, reflog'[c]),
           JobOK(objects, ref, pc'[c], job'[c])
    PROVE  HInv'
  <1>1. ref' = ref /\ objects' = objects /\ Acts(c)
    BY DEF Local
  <1>2. Grows
    BY <1>1, LocalGrows DEF HInv
  <1>3. OpenOK(c)'
    <2>1. pc'[c] # "ensure_head" /\ ref'[DefaultBranch] # Missing
      BY <1>1 DEF HInv, OpenOK
    <2> QED
      BY <2>1 DEF OpenOK
  <1> QED
    BY <1>1, <1>2, <1>3, HStep, NobodyFounds DEF ClientOK

(* What the client held before the step. *)
LEMMA OwnView ==
    ASSUME HInv, NEW c \in Client
    PROVE  /\ SnapshotOK(objects, ref, snapshot[c])
           /\ ReflogOK(objects, ref, reflog[c])
           /\ JobOK(objects, ref, pc[c], job[c])
           /\ job[c] \in Job /\ job[c].branch \in Branch
           /\ job[c].exp \in Commits(objects) /\ job[c].new \in Commits(objects)
  BY DEF HInv, ClientOK, RInv, TypeOK, ClientResolves, Job

(* require_branch_state answers with an earlier head, or the current one.  *)
LEMMA BranchStateView ==
    ASSUME HInv, NEW c \in Client, NEW b \in Branch
    PROVE  /\ BranchState(c, b) \in Value(objects)
           /\ Extends(objects, BranchState(c, b), ref[b])
  <1>1. ref[b] \in Value(objects) /\ Extends(objects, ref[b], ref[b])
    BY ExtendsReflexive DEF HInv, RInv, TypeOK, RefsOK, Value
  <1> QED
    BY <1>1, OwnView DEF SnapshotOK, BranchState

LEMMA KeepSnapshotView ==
    ASSUME HInv, NEW c \in Client, NEW b \in Branch, KeepSnapshot(c, b)
    PROVE  SnapshotOK(objects, ref, snapshot'[c])
  <1>1. \A d \in Branch :
           snapshot'[c][d] = IF d = b THEN BranchState(c, b) ELSE snapshot[c][d]
    BY DEF KeepSnapshot, HInv, RInv, TypeOK
  <1> QED
    BY <1>1, BranchStateView, OwnView DEF SnapshotOK

(* Reading the ref into the snapshot. *)
LEMMA ReadSnapshotView ==
    ASSUME HInv, NEW c \in Client, NEW b \in Branch,
           snapshot' = [snapshot EXCEPT ![c][b] = ref[b]]
    PROVE  SnapshotOK(objects, ref, snapshot'[c])
  <1>1. \A d \in Branch :
           snapshot'[c][d] = IF d = b THEN ref[b] ELSE snapshot[c][d]
    BY DEF HInv, RInv, TypeOK
  <1>2. ref[b] \in Value(objects) /\ Extends(objects, ref[b], ref[b])
    BY ExtendsReflexive DEF HInv, RInv, TypeOK, RefsOK, Value
  <1> QED
    BY <1>1, <1>2, OwnView DEF SnapshotOK

LEMMA IdleJobOK ==
    ASSUME NEW objs, NEW r, NEW p \in {"idle", "closed", "ensure_head"}, NEW j
    PROVE  JobOK(objs, r, p, j)
  BY DEF JobOK, Creating, Updating

(* Opening and closing a repository: no command of the client holds        *)
(* anything.                                                               *)
LEMMA OpenStep ==
    ASSUME HInv, RInv', NEW c \in Client, Local(c), OpenOK(c)',
           \A d \in Client \ {c} : pc[d] # "ensure_head",
           pc'[c] \in {"idle", "closed", "ensure_head"},
           snapshot'[c] = snapshot[c], reflog'[c] = reflog[c]
    PROVE  HInv'
  <1>1. ref' = ref /\ objects' = objects /\ Acts(c)
    BY DEF Local
  <1>2. Grows
    BY <1>1, LocalGrows DEF HInv
  <1>3. ClientOK(objects', ref', snapshot'[c], reflog'[c], pc'[c], job'[c])
    BY <1>1, OwnView, IdleJobOK DEF ClientOK
  <1> QED
    BY <1>1, <1>2, <1>3, HStep

LEMMA HOpen ==
    ASSUME HInv, RInv', NEW c \in Client, Open(c)
    PROVE  HInv'
  <1>1. Local(c) /\ snapshot'[c] = snapshot[c] /\ reflog'[c] = reflog[c]
        /\ pc[c] = "closed"
        /\ pc'[c] = IF ref[DefaultBranch] = Missing THEN "ensure_head" ELSE "idle"
    BY DEF Open, Goto, Local, Acts, HInv, RInv, TypeOK
  <1>2. \A d \in Client \ {c} : pc[d] # "ensure_head"
    <2>1. CASE c \in Founders
      BY <2>1 DEF HInv, OpenOK, NoInitRace
    <2>2. CASE c \notin Founders
      BY <2>2 DEF Open, HInv, OpenOK
    <2> QED
      BY <2>1, <2>2
  <1>3. CASE ref[DefaultBranch] = Missing
    <2>1. c \in Founders /\ pc'[c] = "ensure_head" /\ ref'[DefaultBranch] = Missing
      BY <1>1, <1>3 DEF Open, Local
    <2>2. \A d \in Client \ {c} : pc'[d] = "closed"
      BY <1>1, <1>2, <1>3 DEF HInv, OpenOK, Local, Acts
    <2>3. OpenOK(c)'
      BY <2>1, <2>2 DEF OpenOK
    <2> QED
      BY <1>1, <1>2, <2>1, <2>3, OpenStep
  <1>4. CASE ref[DefaultBranch] # Missing
    <2>1. OpenOK(c)'
      BY <1>1, <1>4 DEF OpenOK, Local
    <2> QED
      BY <1>1, <1>2, <1>4, <2>1, OpenStep
  <1> QED
    BY <1>3, <1>4

LEMMA HStop ==
    ASSUME HInv, RInv', NEW c \in Client, Stop(c)
    PROVE  HInv'
  <1>1. Local(c) /\ pc'[c] = "closed" /\ snapshot'[c] = snapshot[c] /\ reflog'[c] = reflog[c]
        /\ pc[c] # "closed"
    BY DEF Stop, Goto, Local, Acts, HInv, RInv, TypeOK
  <1>2. OpenOK(c)'
    BY <1>1 DEF OpenOK
  <1> QED
    BY <1>1, <1>2, OpenStep, NobodyFounds

(* The empty ref that _ensure_head writes, whatever is there and however   *)
(* often it is written, replaces nothing.                                  *)
LEMMA HEnsureHead ==
    ASSUME HInv, RInv', NEW c \in Client, Ensures(c)
    PROVE  HInv' /\ Grows
  <1>1. Acts(c) /\ pc[c] = "ensure_head" /\ pc'[c] \in {"idle", "ensure_head"}
        /\ objects' = objects
        /\ snapshot'[c] = snapshot[c] /\ reflog'[c] = reflog[c] /\ job'[c] = job[c]
        /\ ref'[DefaultBranch] = NoCommit
        /\ \A b \in Branch \ {DefaultBranch} : ref'[b] = ref[b]
    BY ConstantsOK
    DEF Ensures, EnsureHead, EnsureHeadAnswerLost, PutEmptyHead, Goto, Acts, HInv, RInv, TypeOK
  <1>2. c \in Founders /\ ref[DefaultBranch] \in {Missing, NoCommit}
        /\ \A d \in Client \ {c} : pc[d] = "closed"
    BY <1>1 DEF HInv, OpenOK
  <1>3. Grows
    <2>1. Prefix(objects, objects')
      BY <1>1 DEF Prefix, HInv, RInv, TypeOK
    <2>2. \A b \in Branch : Extends(objects, ref[b], ref[b])
      BY ExtendsReflexive DEF HInv, RInv, TypeOK, RefsOK, Value
    <2>3. Extends(objects, ref[DefaultBranch], ref'[DefaultBranch])
      <3>1. CASE ref[DefaultBranch] = Missing
        BY <1>1, <3>1 DEF Extends
      <3>2. CASE ref[DefaultBranch] = NoCommit
        BY <1>1, <3>2, <2>2, ConstantsOK
      <3> QED
        BY <1>2, <3>1, <3>2
    <2> QED
      BY <1>1, <2>1, <2>2, <2>3 DEF Grows
  <1>4. ClientOK(objects', ref', snapshot[c], reflog[c], pc[c], job[c])
    BY <1>3, ViewsSurvive DEF HInv, RInv, TypeOK, Grows
  <1>5. ClientOK(objects', ref', snapshot'[c], reflog'[c], pc'[c], job'[c])
    BY <1>1, <1>4, IdleJobOK DEF ClientOK
  <1>6. OpenOK(c)'
    <2>1. \A d \in Client \ {c} : pc'[d] = "closed"
      BY <1>1, <1>2 DEF Acts
    <2> QED
      BY <1>1, <1>2, <2>1 DEF OpenOK, NoCommit, Missing
  <1>7. \A d \in Client \ {c} : pc[d] # "ensure_head"
    BY <1>2
  <1> QED
    BY <1>1, <1>3, <1>5, <1>6, <1>7, HStep

LEMMA HMergeConflict ==
    ASSUME HInv, RInv', NEW c \in Client, MergeConflict(c)
    PROVE  HInv'
  <1>1. Local(c) /\ pc'[c] = "idle" /\ snapshot'[c] = snapshot[c] /\ reflog'[c] = reflog[c]
        /\ pc[c] = "merge_state"
    BY DEF MergeConflict, Return, Goto, Local, Acts, HInv, RInv, TypeOK
  <1> QED
    BY <1>1, OwnView, IdleJobOK, LocalHStep

LEMMA HSetCurrentBranch ==
    ASSUME HInv, RInv', NEW c \in Client, NEW b \in Branch, SetCurrentBranch(c, b)
    PROVE  HInv'
  <1>1. Local(c) /\ pc[c] = "idle" /\ pc'[c] = "idle" /\ reflog'[c] = reflog[c] /\ KeepSnapshot(c, b)
    BY DEF SetCurrentBranch, KeepSnapshot, Local, Acts, HInv, RInv, TypeOK
  <1> QED
    BY <1>1, KeepSnapshotView, OwnView, IdleJobOK, LocalHStep

LEMMA HStartBranch ==
    ASSUME HInv, RInv', NEW c \in Client, NEW b \in Branch, StartBranch(c, b)
    PROVE  HInv'
  <1>1. Local(c) /\ pc[c] = "idle" /\ pc'[c] = "branch_head" /\ reflog'[c] = reflog[c]
        /\ snapshot'[c] = snapshot[c]
        /\ job'[c] = [NoJob EXCEPT !.op = "branch", !.branch = b]
    BY DEF StartBranch, Goto, Local, Acts, HInv, RInv, TypeOK
  <1>2. JobOK(objects, ref, pc'[c], job'[c])
    BY <1>1 DEF JobOK, Creating, Updating, BranchJobOK, NoJob
  <1> QED
    BY <1>1, <1>2, OwnView, LocalHStep

LEMMA HBranchReadHead ==
    ASSUME HInv, RInv', NEW c \in Client, BranchReadHead(c)
    PROVE  HInv'
  <1> DEFINE h == ref[head[c]]
             n == IF h = Missing THEN NoCommit ELSE h
  <1>1. Local(c) /\ pc[c] = "branch_head" /\ pc'[c] = "cas" /\ reflog'[c] = reflog[c]
        /\ snapshot'[c] = snapshot[c] /\ job'[c] = [job[c] EXCEPT !.new = n]
    BY DEF BranchReadHead, Goto, Local, Acts, HInv, RInv, TypeOK
  <1>2. head[c] \in Branch /\ h \in Value(objects)
    BY DEF HInv, RInv, TypeOK, RefsOK, Value
  <1>3. Extends(objects, h, h)
    BY <1>2, ExtendsReflexive DEF HInv, RInv, TypeOK
  <1>4. job[c].op = "branch" /\ job[c].token = Missing /\ job[c].exp = NoCommit
    <2>1. job[c].op = "branch" /\ pc[c] = "branch_head"
      BY DEF BranchReadHead, HInv, RInv, ClientResolves
    <2> QED
      BY <2>1, OwnView DEF JobOK, Creating, BranchJobOK
  <1>5. job'[c].op = "branch" /\ job'[c].token = Missing /\ job'[c].exp = NoCommit
        /\ job'[c].new = n
    BY <1>1, <1>4, OwnView DEF Job
  <1>6. n \in Commits(objects) /\ (n = NoCommit \/ Extends(objects, n, h))
    BY <1>2, <1>3 DEF Value, Commits
  <1>7. JobOK(objects, ref, pc'[c], job'[c])
    BY <1>1, <1>2, <1>5, <1>6 DEF JobOK, Creating, Updating, BranchJobOK
  <1> QED
    BY <1>1, <1>7, OwnView, LocalHStep

LEMMA HStartCommit ==
    ASSUME HInv, RInv', NEW c \in Client, NEW op \in {"commit", "staged"},
           StartCommit(c, op)
    PROVE  HInv'
  <1> DEFINE b == head[c]
             state == BranchState(c, b)
  <1>1. b \in Branch /\ NoJob \in Job
    BY NoJobType DEF HInv, RInv, TypeOK
  <1>2. Local(c) /\ pc[c] = "idle" /\ pc'[c] = "write" /\ reflog'[c] = reflog[c] /\ KeepSnapshot(c, b)
        /\ state # Missing
    BY DEF StartCommit, KeepSnapshot, Goto, Local, Acts, HInv, RInv, TypeOK
  <1>3. job'[c].op = op /\ job'[c].branch = b /\ job'[c].exp = state
        /\ job'[c].token = state
    BY <1>1 DEF StartCommit, NoJob, HInv, RInv, TypeOK
  <1>4. state \in Commits(objects) /\ Extends(objects, state, ref[b])
    BY <1>1, <1>2, BranchStateView DEF Value
  <1>5. JobOK(objects, ref, pc'[c], job'[c])
    BY <1>2, <1>3, <1>4 DEF JobOK, Creating, Updating, UpdateJobOK
  <1> QED
    BY <1>1, <1>2, <1>5, KeepSnapshotView, OwnView, LocalHStep

LEMMA HStartMerge ==
    ASSUME HInv, RInv', NEW c \in Client, NEW t \in Branch, NEW s \in Stored,
           StartMerge(c, t, s)
    PROVE  HInv'
  <1>1. Local(c) /\ pc[c] = "idle" /\ pc'[c] \in {"fast_forward", "merge_state"}
        /\ reflog'[c] = reflog[c] /\ snapshot'[c] = snapshot[c]
    BY DEF StartMerge, Goto, Local, Acts, HInv, RInv, TypeOK
  <1>2. job'[c].op = "merge" /\ job'[c].branch = t /\ job'[c].exp = ref[t]
        /\ job'[c].new = s
    BY DEF StartMerge, NoJob, HInv, RInv, TypeOK
  <1>3. ref[t] \in 1 .. Len(objects) /\ s \in 1 .. Len(objects)
    BY DEF StartMerge, Stored
  <1>4. Extends(objects, ref[t], ref[t])
    BY <1>3, ExtendsReflexive DEF HInv, RInv, TypeOK, Value, Commits
  <1>5. JobOK(objects, ref, pc'[c], job'[c])
    BY <1>1, <1>2, <1>3, <1>4 DEF JobOK, Creating, Updating
  <1> QED
    BY <1>1, <1>5, OwnView, LocalHStep

LEMMA HStartFastForward ==
    ASSUME HInv, RInv', NEW c \in Client, NEW b \in Branch, NEW x \in Stored,
           StartFastForward(c, b, x)
    PROVE  HInv'
  <1>1. Local(c) /\ pc[c] = "idle" /\ pc'[c] = "fast_forward"
        /\ reflog'[c] = reflog[c] /\ snapshot'[c] = snapshot[c]
    BY DEF StartFastForward, Goto, Local, Acts, HInv, RInv, TypeOK
  <1>2. job'[c].op = "fast_forward" /\ job'[c].new = x
    BY DEF StartFastForward, NoJob, HInv, RInv, TypeOK
  <1>3. JobOK(objects, ref, pc'[c], job'[c])
    BY <1>1, <1>2 DEF JobOK, Creating, Updating, Stored
  <1> QED
    BY <1>1, <1>3, OwnView, LocalHStep

(* The token of a merge comes from the snapshot, which may be older than   *)
(* the head that was merged.                                               *)
LEMMA HMergeState ==
    ASSUME HInv, RInv', NEW c \in Client, MergeState(c)
    PROVE  HInv'
  <1> DEFINE b == job[c].branch
             state == BranchState(c, b)
  <1>1. Local(c) /\ pc[c] = "merge_state" /\ pc'[c] = "write" /\ reflog'[c] = reflog[c] /\ KeepSnapshot(c, b)
    BY DEF MergeState, KeepSnapshot, Goto, Local, Acts, HInv, RInv, TypeOK
  <1>2. job[c].op # "branch" /\ job[c].exp \in 1 .. Len(objects)
        /\ Extends(objects, job[c].exp, ref[b])
    BY OwnView DEF MergeState, JobOK
  <1>3. job'[c].op = job[c].op /\ job'[c].branch = b /\ job'[c].exp = job[c].exp
        /\ job'[c].token = state
    BY OwnView DEF MergeState, HInv, RInv, TypeOK, Job
  <1>4. state \in Value(objects) /\ Extends(objects, state, ref[b])
    BY OwnView, BranchStateView
  <1>5. ref[b] # Missing
    BY <1>2 DEF Extends, Chain, Missing, NoCommit, HInv, RInv, TypeOK
  <1>6. state # Missing
    BY <1>5 DEF BranchState
  <1>7. state \in Commits(objects) /\ job[c].exp \in Commits(objects)
        /\ job[c].exp # NoCommit
    BY <1>2, <1>4, <1>6 DEF Value, Commits, NoCommit
  <1>8. JobOK(objects, ref, pc'[c], job'[c])
    BY <1>1, <1>2, <1>3, <1>4, <1>7 DEF JobOK, Creating, Updating, UpdateJobOK
  <1> QED
    BY <1>1, <1>8, OwnView, KeepSnapshotView, LocalHStep
LEMMA HFastForwardBranch ==
    ASSUME HInv, RInv', NEW c \in Client, FastForwardBranch(c)
    PROVE  HInv'
  <1> DEFINE b == job[c].branch
             state == BranchState(c, b)
             x == job[c].new
             Refused == \/ state \in {Missing, x}
                        \/ (state # NoCommit /\ ~IsAncestor(objects, state, x))
  <1>1. Local(c) /\ reflog'[c] = reflog[c] /\ KeepSnapshot(c, b)
        /\ pc[c] = "fast_forward"
    BY DEF FastForwardBranch, KeepSnapshot, Return, Goto, Local, Acts, HInv, RInv, TypeOK
  <1>2. SnapshotOK(objects, ref, snapshot'[c])
    BY <1>1, OwnView, KeepSnapshotView
  <1>3. CASE Refused
    <2>1. pc'[c] = "idle"
      BY <1>3 DEF FastForwardBranch, Return, Goto, HInv, RInv, TypeOK
    <2> QED
      BY <1>1, <1>2, <2>1, OwnView, IdleJobOK, LocalHStep
  <1>4. CASE ~Refused
    <2>0. state # Missing /\ state # x /\ (state = NoCommit \/ IsAncestor(objects, state, x))
      BY <1>4
    <2>1. pc'[c] = "cas" /\ job'[c] = [job[c] EXCEPT !.exp = state, !.token = state]
      BY <1>4 DEF FastForwardBranch, Goto, HInv, RInv, TypeOK
    <2>2. job'[c].op = job[c].op /\ job'[c].branch = b /\ job'[c].exp = state
          /\ job'[c].token = state /\ job'[c].new = x
      BY <2>1, OwnView DEF Job
    <2>3. job[c].op # "branch" /\ x \in 1 .. Len(objects)
      BY <1>1, OwnView DEF JobOK
    <2>4. state \in Commits(objects) /\ Extends(objects, state, ref[b])
      BY <2>0, OwnView, BranchStateView DEF Value
    <2>5. Extends(objects, state, x)
      <3>1. CASE state = NoCommit
        BY <2>3, <3>1 DEF Extends, Missing
      <3>2. CASE state # NoCommit
        <4>1. state \in 1 .. Len(objects) /\ IsAncestor(objects, state, x)
          BY <2>0, <2>4, <3>2 DEF Commits
        <4>2. state \in objects[x].chain
          BY <2>3, <4>1, ShortcutAgrees DEF HInv, RInv, TypeOK
        <4> QED
          BY <2>3, <4>2 DEF Extends, Chain, HInv, RInv, TypeOK
      <3> QED
        BY <3>1, <3>2
    <2>6. JobOK(objects, ref, pc'[c], job'[c])
      BY <2>0, <2>1, <2>2, <2>3, <2>4, <2>5 DEF JobOK, Creating, Updating, UpdateJobOK
    <2> QED
      BY <1>1, <1>2, <2>1, <2>6, OwnView, LocalHStep
  <1> QED
    BY <1>3, <1>4

(* A lost CAS leaves the command with what it knew. *)
LEMMA CasFailedJob ==
    ASSUME HInv, NEW c \in Client, pc[c] \in {"cas", "put"}, CasFailed(c)
    PROVE  /\ pc'[c] \in {"idle", "conflict"}
           /\ JobOK(objects, ref, pc'[c], job'[c])
  <1>1. CASE job[c].op = "branch"
    <2>1. pc'[c] = "idle"
      BY <1>1 DEF CasFailed, Return, Goto, HInv, RInv, TypeOK
    <2> QED
      BY <2>1, IdleJobOK
  <1>2. CASE job[c].op # "branch"
    <2>1. pc'[c] = "conflict" /\ job'[c] = job[c]
      BY <1>2 DEF CasFailed, Goto, HInv, RInv, TypeOK
    <2> QED
      BY <1>2, <2>1, OwnView DEF JobOK, Creating, Updating, UpdateJobOK
  <1> QED
    BY <1>1, <1>2

LEMMA HCasCheck ==
    ASSUME HInv, RInv', NEW c \in Client, CasCheck(c)
    PROVE  HInv'
  <1> DEFINE current == ref[job[c].branch]
             Same == current = job[c].token /\ (job[c].exp # NoCommit => current = job[c].exp)
  <1>1. Local(c) /\ reflog'[c] = reflog[c] /\ snapshot'[c] = snapshot[c] /\ pc[c] = "cas"
    BY DEF CasCheck, CasFailed, Return, Goto, Local, Acts, HInv, RInv, TypeOK
  <1>2. CASE Same
    <2>1. pc'[c] = "put" /\ job'[c] = job[c]
      BY <1>2 DEF CasCheck, Goto, HInv, RInv, TypeOK
    <2>2. JobOK(objects, ref, pc'[c], job'[c])
      BY <1>1, <1>2, <2>1, OwnView DEF JobOK, Creating, Updating, BranchJobOK, UpdateJobOK
    <2> QED
      BY <1>1, <2>1, <2>2, OwnView, LocalHStep
  <1>3. CASE ~Same
    <2>1. CasFailed(c)
      BY <1>3 DEF CasCheck
    <2> QED
      BY <1>1, <2>1, CasFailedJob, OwnView, LocalHStep
  <1> QED
    BY <1>2, <1>3

LEMMA HConflict ==
    ASSUME HInv, RInv', NEW c \in Client, Conflict(c)
    PROVE  HInv'
  <1> DEFINE b == job[c].branch
             Retry == job[c].op = "staged" /\ job[c].attempt < StagedRetries
  <1>1. Local(c) /\ reflog'[c] = reflog[c] /\ pc[c] = "conflict"
    BY DEF Conflict, Return, Goto, Local, Acts, HInv, RInv, TypeOK
  <1>2. SnapshotOK(objects, ref, snapshot'[c])
    BY OwnView, ReadSnapshotView DEF Conflict
  <1>3. CASE ~Retry
    <2>1. pc'[c] = "idle"
      BY <1>3 DEF Conflict, Return, Goto, HInv, RInv, TypeOK
    <2> QED
      BY <1>1, <1>2, <2>1, OwnView, IdleJobOK, LocalHStep
  <1>4. CASE Retry
    <2>1. pc'[c] = "write"
          /\ job'[c] = [job[c] EXCEPT !.exp = ref[b], !.token = ref[b], !.attempt = @ + 1]
      <3>1. job \in [Client -> Job] /\ pc \in [Client -> Label]
        BY DEF HInv, RInv, TypeOK
      <3>2. job' = [job EXCEPT ![c].exp = ref[b], ![c].token = ref[b], ![c].attempt = @ + 1]
            /\ Goto(c, "write")
        BY <1>4 DEF Conflict
      <3> QED BY <3>1, <3>2 DEF Goto
    <2>2. job'[c].op = job[c].op /\ job'[c].branch = b /\ job'[c].exp = ref[b]
          /\ job'[c].token = ref[b]
      BY <2>1, OwnView DEF Job
    <2>3. ref[b] # Missing
      BY <1>1, <1>4 DEF HInv, RInv, ClientResolves, Settled
    <2>4. ref[b] \in Commits(objects) /\ Extends(objects, ref[b], ref[b])
      BY <2>3, OwnView, ExtendsReflexive DEF HInv, RInv, TypeOK, RefsOK, Value
    <2>5. JobOK(objects, ref, pc'[c], job'[c])
      BY <1>4, <2>1, <2>2, <2>4 DEF JobOK, Creating, Updating, UpdateJobOK
    <2> QED
      BY <1>1, <1>2, <2>1, <2>5, OwnView, LocalHStep
  <1> QED
    BY <1>3, <1>4

LEMMA HRefresh ==
    ASSUME HInv, RInv', NEW c \in Client, Refresh(c)
    PROVE  HInv'
  <1>1. Local(c) /\ reflog'[c] = reflog[c] /\ pc[c] = "refresh"
    BY DEF Refresh, Return, Goto, Local, Acts, HInv, RInv, TypeOK
  <1>2. SnapshotOK(objects, ref, snapshot'[c])
    BY OwnView, ReadSnapshotView DEF Refresh
  <1>3. CASE job[c].op = "branch"
    <2>1. pc'[c] = "idle"
      BY <1>3 DEF Refresh, Return, Goto, HInv, RInv, TypeOK
    <2> QED
      BY <1>1, <1>2, <2>1, OwnView, IdleJobOK, LocalHStep
  <1>4. CASE job[c].op # "branch"
    <2>1. pc'[c] = "reflog" /\ job'[c] = job[c]
      BY <1>4 DEF Refresh, Goto, HInv, RInv, TypeOK
    <2>2. JobOK(objects, ref, pc'[c], job'[c])
      BY <1>1, <1>4, <2>1, OwnView DEF JobOK, Creating, Updating, UpdateJobOK
    <2> QED
      BY <1>1, <1>2, <2>1, <2>2, OwnView, LocalHStep
  <1> QED
    BY <1>3, <1>4

(* The reflog records an update whose commit is in the branch by now. *)
LEMMA HAppendReflog ==
    ASSUME HInv, RInv', NEW c \in Client, AppendReflog(c)
    PROVE  HInv'
  <1> DEFINE e == [branch |-> job[c].branch, old |-> job[c].exp, new |-> job[c].new]
  <1>1. Local(c) /\ pc'[c] = "idle" /\ pc[c] = "reflog" /\ snapshot'[c] = snapshot[c]
        /\ reflog'[c] = reflog[c] \cup {e}
    BY DEF AppendReflog, Return, Goto, Local, Acts, HInv, RInv, TypeOK
  <1>2. UpdateJobOK(objects, ref, "reflog", job[c])
    BY <1>1, OwnView DEF JobOK, Updating
  <1>3. ReflogOK(objects, ref, reflog'[c])
    BY <1>1, <1>2, OwnView DEF ReflogOK, UpdateJobOK
  <1> QED
    BY <1>1, <1>3, OwnView, IdleJobOK, LocalHStep
----------------------------------------------------------------------------
(* The two steps that write to the bucket                                  *)

(* A new commit extends its first parent. *)
LEMMA HWriteCommitObject ==
    ASSUME HInv, RInv', NEW c \in Client, WriteCommitObject(c)
    PROVE  HInv' /\ Grows
  <1> DEFINE o == NewCommit(objects, job[c].exp, job[c].source)
             n == Len(objects) + 1
             p == job[c].exp
  <1>1. Acts(c) /\ pc[c] = "write" /\ pc'[c] = "cas" /\ ref' = ref
        /\ snapshot'[c] = snapshot[c] /\ reflog'[c] = reflog[c]
        /\ job'[c] = [job[c] EXCEPT !.new = n]
    BY DEF WriteCommitObject, Goto, Acts, HInv, RInv, TypeOK
  <1>2. objects' = Append(objects, o) /\ Prefix(objects, objects')
    BY NewCommitKeepsGraph DEF WriteCommitObject, HInv, RInv, TypeOK, ClientResolves
  <1>3. \A b \in Branch : ref[b] \in Value(objects) /\ ref[b] \in Value(objects')
    BY <1>1 DEF HInv, RInv, RefsOK, Value
  <1>4. Grows
    <2>1. ASSUME NEW b \in Branch PROVE Extends(objects', ref[b], ref'[b])
      BY <1>1, <1>3, ExtendsReflexive DEF HInv, RInv, TypeOK
    <2> QED
      BY <1>2, <2>1 DEF Grows
  <1>5. ClientOK(objects', ref', snapshot[c], reflog[c], pc[c], job[c])
    BY <1>4, ViewsSurvive DEF HInv, RInv, TypeOK, Grows
  <1>6. job[c].op # "branch" /\ UpdateJobOK(objects', ref', "write", job[c])
    BY <1>1, <1>5 DEF ClientOK, JobOK, Updating
  <1>7. Len(objects') = n /\ objects'[n] = o /\ p \in Commits(objects)
    BY <1>2, OwnView, NewCommitKeepsGraph DEF HInv, RInv, TypeOK, ClientResolves
  <1>8. n \in 1 .. Len(objects') /\ n # p
    BY <1>7 DEF Commits, NoCommit, HInv, RInv, TypeOK
  <1>9. Extends(objects', p, n)
    <2>1. CASE p = NoCommit
      BY <2>1, <1>8 DEF Extends, Missing
    <2>2. CASE p \in 1 .. Len(objects)
      <3>1. p \in Chain(objects, p)
        BY <2>2 DEF Chain, GraphOK, HInv, RInv
      <3> QED
        BY <1>7, <1>8, <3>1 DEF Extends, Chain, NewCommit, RInv, TypeOK
    <2> QED
      BY <1>7, <2>1, <2>2 DEF Commits
  <1>10. job'[c].op = job[c].op /\ job'[c].branch = job[c].branch /\ job'[c].exp = p
         /\ job'[c].token = job[c].token /\ job'[c].new = n
    BY <1>1, OwnView DEF Job
  <1>11. JobOK(objects', ref', pc'[c], job'[c])
    BY <1>1, <1>6, <1>8, <1>9, <1>10 DEF JobOK, Creating, Updating, UpdateJobOK
  <1>12. ClientOK(objects', ref', snapshot'[c], reflog'[c], pc'[c], job'[c])
    BY <1>1, <1>5, <1>11 DEF ClientOK
  <1>13. OpenOK(c)' /\ ref[DefaultBranch] # Missing
    BY <1>1 DEF HInv, OpenOK
  <1> QED
    BY <1>1, <1>4, <1>12, <1>13, HStep, NobodyFounds

(* What a put that S3 applies replaces: nothing when it creates a branch,  *)
(* and otherwise the very head the new commit was built on.                *)
LEMMA PutReplaces ==
    ASSUME HInv, NEW c \in Client, pc[c] = "put", ref[job[c].branch] = job[c].token
    PROVE  /\ job[c].op = "branch" =>
                 /\ ref[job[c].branch] = Missing
                 /\ \/ job[c].new = NoCommit
                    \/ \E d \in Branch : Extends(objects, job[c].new, ref[d])
           /\ job[c].op # "branch" =>
                 /\ ref[job[c].branch] \in Commits(objects)
                 /\ job[c].new \in 1 .. Len(objects)
                 /\ job[c].new # ref[job[c].branch]
                 /\ Extends(objects, ref[job[c].branch], job[c].new)
  <1>1. CASE job[c].op = "branch"
    BY <1>1, OwnView DEF JobOK, Creating, BranchJobOK
  <1>2. CASE job[c].op # "branch"
    BY <1>2, OwnView DEF JobOK, Updating, UpdateJobOK
  <1> QED
    BY <1>1, <1>2

(* The put of c that S3 applies, whether or not c hears of it.            *)
Applied(c) ==
    /\ pc[c] = "put"
    /\ ref[job[c].branch] = job[c].token
    /\ PutRef(c)
    /\ UNCHANGED objects

LEMMA HCasPut ==
    ASSUME HInv, RInv', NEW c \in Client, CasPut(c) \/ CasPutAnswerLost(c)
    PROVE  HInv' /\ Grows
  <1> DEFINE b == job[c].branch
             x == job[c].new
  <1>1. Acts(c) /\ pc[c] = "put" /\ objects' = objects
        /\ snapshot'[c] = snapshot[c] /\ reflog'[c] = reflog[c]
    BY DEF CasPut, CasPutAnswerLost, CasFailed, Return, Goto, Acts, HInv, RInv, TypeOK
  <1>2. b \in Branch /\ x \in Value(objects)
    BY OwnView DEF Value
  <1>3. \/ CasFailed(c) /\ UNCHANGED ref
        \/ /\ Applied(c)
           /\ CasFailed(c) \/ (pc'[c] = "refresh" /\ job'[c] = job[c])
    <2>1. CASE CasPut(c)
      BY <2>1 DEF CasPut, Applied, Goto, HInv, RInv, TypeOK
    <2>2. CASE CasPutAnswerLost(c)
      BY <2>2 DEF CasPutAnswerLost, Applied
    <2> QED
      BY <2>1, <2>2
  <1>4. CASE CasFailed(c) /\ UNCHANGED ref
    <2>1. Local(c)
      BY <1>1, <1>4 DEF Local
    <2>2. HInv'
      BY <1>1, <1>4, <2>1, CasFailedJob, OwnView, LocalHStep
    <2> QED
      BY <2>1, <2>2, LocalGrows DEF Local, HInv
  <1>5. CASE /\ Applied(c)
             /\ CasFailed(c) \/ (pc'[c] = "refresh" /\ job'[c] = job[c])
    <2>1. \A d \in Branch : ref'[d] = IF d = b THEN x ELSE ref[d]
      BY <1>2, <1>5 DEF Applied, PutRef, HInv, RInv, TypeOK
    <2>2. Extends(objects, ref[b], x)
      BY <1>1, <1>5, PutReplaces DEF Applied, Extends
    <2>3. \A d \in Branch : Extends(objects, ref[d], ref[d])
      BY ExtendsReflexive DEF HInv, RInv, TypeOK, RefsOK, Value
    <2>4. Prefix(objects, objects')
      BY <1>1 DEF Prefix, HInv, RInv, TypeOK
    <2>5. Grows
      BY <1>1, <2>1, <2>2, <2>3, <2>4 DEF Grows
    <2>6. ClientOK(objects', ref', snapshot[c], reflog[c], pc[c], job[c])
      BY <2>5, ViewsSurvive DEF HInv, RInv, TypeOK, Grows
    <2>7. Extends(objects', x, ref'[b])
      BY <1>1, <1>2, <2>1, ExtendsReflexive DEF HInv, RInv, TypeOK
    <2>8. pc'[c] \notin {"closed", "ensure_head"} /\ JobOK(objects', ref', pc'[c], job'[c])
      <3>1. CASE pc'[c] = "refresh" /\ job'[c] = job[c]
        BY <1>1, <2>6, <2>7, <3>1
        DEF ClientOK, JobOK, Creating, Updating, BranchJobOK, UpdateJobOK
      <3>2. CASE CasFailed(c) /\ job[c].op = "branch"
        <4>1. pc'[c] = "idle"
          BY <3>2 DEF CasFailed, Return, Goto, HInv, RInv, TypeOK
        <4> QED
          BY <4>1, IdleJobOK
      <3>3. CASE CasFailed(c) /\ job[c].op # "branch"
        <4>1. pc'[c] = "conflict" /\ job'[c] = job[c]
          BY <3>3 DEF CasFailed, Goto, HInv, RInv, TypeOK
        <4> QED
          BY <1>1, <2>6, <3>3, <4>1 DEF ClientOK, JobOK, Creating, Updating, UpdateJobOK
      <3> QED
        BY <1>5, <3>1, <3>2, <3>3
    <2>9. ClientOK(objects', ref', snapshot'[c], reflog'[c], pc'[c], job'[c])
      BY <1>1, <2>6, <2>8 DEF ClientOK
    <2>10. OpenOK(c)' /\ ref[DefaultBranch] # Missing
      <3>1. ref[DefaultBranch] # Missing
        BY <1>1 DEF HInv, OpenOK
      <3>2. Extends(objects', ref[DefaultBranch], ref'[DefaultBranch])
        BY <2>5, ConstantsOK DEF Grows
      <3>3. ref'[DefaultBranch] # Missing
        BY <3>1, <3>2 DEF RInv, TypeOK, Extends, Chain, Missing
      <3> QED
        BY <2>8, <3>1, <3>3 DEF OpenOK
    <2> QED
      BY <1>1, <2>5, <2>9, <2>10, HStep, NobodyFounds
  <1> QED
    BY <1>3, <1>4, <1>5

----------------------------------------------------------------------------
(* The invariant, and what follows from it                                 *)

LEMMA HInvInit == ASSUME NoInitRace, Init PROVE HInv
  <1>1. RInv /\ \A c \in Client : pc[c] = "closed"
    BY RInvInit DEF Init
  <1>2. ASSUME NEW c \in Client
        PROVE  ClientOK(objects, ref, snapshot[c], reflog[c], pc[c], job[c])
    <2>1. SnapshotOK(objects, ref, snapshot[c]) /\ ReflogOK(objects, ref, reflog[c])
      BY DEF Init, SnapshotOK, ReflogOK, Value, Extends
    <2>2. JobOK(objects, ref, pc[c], job[c])
      BY IdleJobOK DEF Init
    <2> QED
      BY <2>1, <2>2 DEF ClientOK
  <1> QED
    BY <1>1, <1>2 DEF HInv, OpenOK, Init

LEMMA HInvNext == HInv /\ [Next]_vars => HInv' /\ Grows
  <1> SUFFICES ASSUME HInv, [Next]_vars PROVE HInv' /\ Grows
    OBVIOUS
  <1>0. RInv'
    BY RInvNext DEF HInv
  <1>1. CASE UNCHANGED vars
    <2>1. HInv'
      BY <1>0, <1>1 DEF HInv, NoInitRace, OpenOK, vars
    <2> QED
      BY <1>1, <2>1, LocalGrows DEF HInv, vars
  <1>2. ASSUME NEW c \in Client, Start(c) PROVE HInv' /\ Grows
    <2>1. UNCHANGED <<ref, objects>>
      BY <1>2 DEF Start, Open, SetCurrentBranch, StartBranch, StartCommit, StartMerge,
                  StartFastForward
    <2>2. HInv'
      BY <1>0, <1>2, HOpen, HSetCurrentBranch, HStartBranch, HStartCommit, HStartMerge,
         HStartFastForward DEF Start
    <2> QED
      BY <2>1, <2>2, LocalGrows DEF HInv
  <1>3. ASSUME NEW c \in Client, Stop(c) PROVE HInv' /\ Grows
    BY <1>0, <1>3, HStop, LocalGrows DEF Stop, HInv
  <1>4. ASSUME NEW c \in Client, Step(c) PROVE HInv' /\ Grows
    <2>1. CASE Ensures(c)
      BY <1>0, <2>1, HEnsureHead
    <2>2. CASE WriteCommitObject(c)
      BY <1>0, <2>2, HWriteCommitObject
    <2>3. CASE CasPut(c) \/ CasPutAnswerLost(c)
      BY <1>0, <2>3, HCasPut
    <2>4. CASE BranchReadHead(c) \/ MergeState(c) \/ MergeConflict(c)
               \/ FastForwardBranch(c) \/ CasCheck(c) \/ Conflict(c)
               \/ Refresh(c) \/ AppendReflog(c)
      <3>1. UNCHANGED <<ref, objects>>
        BY <2>4 DEF BranchReadHead, MergeState, MergeConflict, FastForwardBranch,
                    CasCheck, Conflict, Refresh, AppendReflog
      <3>2. HInv'
        BY <1>0, <2>4, HBranchReadHead, HMergeState, HMergeConflict, HFastForwardBranch,
           HCasCheck, HConflict, HRefresh, HAppendReflog
      <3> QED
        BY <3>1, <3>2, LocalGrows DEF HInv
    <2> QED
      BY <1>4, <2>1, <2>2, <2>3, <2>4 DEF Step, Ensures
  <1> QED
    BY <1>1, <1>2, <1>3, <1>4 DEF Next

(* No lost update: what a reflog records as done stays in the branch.      *)
THEOREM NoLostUpdate == ASSUME NoInitRace PROVE Spec => []AcknowledgedUpdatesKept
  <1>1. Init => HInv
    BY HInvInit
  <1>2. HInv => AcknowledgedUpdatesKept
    BY DEF HInv, ClientOK, ReflogOK, AcknowledgedUpdatesKept
  <1> QED
    BY <1>1, <1>2, HInvNext, PTL DEF Spec

(* A stale view of a branch is always one of its earlier heads.            *)
THEOREM ViewsAreHistory == ASSUME NoInitRace PROVE Spec => []StaleViewsAreHistory
  <1>1. Init => HInv
    BY HInvInit
  <1>2. HInv => StaleViewsAreHistory
    BY DEF HInv, ClientOK, SnapshotOK, JobOK, Updating, UpdateJobOK,
           StaleViewsAreHistory, Expecting
  <1> QED
    BY <1>1, <1>2, HInvNext, PTL DEF Spec

(* No step, of whichever client, rewinds a branch or replaces a head by a  *)
(* commit that is not built on it.                                         *)
THEOREM HeadsOnlyAdvance == ASSUME NoInitRace PROVE Spec => HeadsNeverRewind
  <1>1. Init => HInv
    BY HInvInit
  <1>2. HInv /\ [Next]_vars => [\A b \in Branch : Extends(objects', ref[b], ref'[b])]_ref
    BY HInvNext DEF Grows
  <1> QED
    BY <1>1, <1>2, HInvNext, PTL DEF Spec, HeadsNeverRewind
----------------------------------------------------------------------------
(* Refs implements BranchHistory                                           *)

(* A head that is built on another has a longer history.                   *)
LEMMA ChainGrowsStrictly ==
    ASSUME NEW objs \in Seq(CommitObject), GraphOK(objs),
           NEW v \in Commits(objs), NEW w \in 1 .. Len(objs),
           Extends(objs, v, w), v # w
    PROVE  Chain(objs, v) # Chain(objs, w)
  <1>1. w \in Chain(objs, w)
    BY DEF Chain, GraphOK
  <1>2. CASE v = NoCommit
    BY <1>1, <1>2 DEF Chain, NoCommit
  <1>3. CASE v \in 1 .. Len(objs)
    <2>1. v \in objs[w].chain /\ objs[w].chain \subseteq 1 .. w
      BY <1>3 DEF Extends, Chain, GraphOK, NoCommit, Missing
    <2>2. objs[v].chain \subseteq 1 .. v
      BY <1>3 DEF GraphOK
    <2>3. w \notin objs[v].chain
      BY <1>3, <2>1, <2>2
    <2> QED
      BY <1>1, <1>3, <2>3 DEF Chain
  <1> QED
    BY <1>2, <1>3 DEF Commits

LEMMA HistoryInit == Init => History!Init
  <1> SUFFICES ASSUME Init PROVE History!Init
    OBVIOUS
  <1>1. \A b \in Branch : Chain(objects, ref[b]) = {}
    BY DEF Init, Chain
  <1> QED
    BY <1>1 DEF History!Init

(* A step that moves no ref publishes nothing.                             *)
LEMMA HistoryStutter ==
    ASSUME HInv, HInv', Prefix(objects, objects'), UNCHANGED ref
    PROVE  UNCHANGED History!vars
  <1>1. \A b \in Branch : Chain(objects', ref[b]) = Chain(objects, ref[b])
    BY ChainPrefix DEF HInv, RInv, TypeOK, RefsOK, Value
  <1> QED
    BY <1>1 DEF History!vars

(* The put that moves a ref creates the branch or adds to its history.     *)
LEMMA HistoryPut ==
    ASSUME HInv, NEW c \in Client, Applied(c)
    PROVE  History!Next
  <1> DEFINE x == job[c].new
  <1>0. PICK b \in Branch : b = job[c].branch
    BY OwnView
  <1>1. pc[c] = "put" /\ objects' = objects
        /\ \A d \in Branch : ref'[d] = IF d = b THEN x ELSE ref[d]
    BY <1>0 DEF Applied, PutRef, HInv, RInv, TypeOK
  <1>2. x \in Commits(objects) /\ x # Missing
        /\ \A d \in Branch : ref[d] \in Value(objects)
    BY OwnView DEF HInv, RInv, RefsOK, Value, Commits, Missing, NoCommit
  <1>3. History!Only(b)
    BY <1>1 DEF History!Only
  <1>4. ref'[b] = x /\ (ref'[b] # Missing)
    BY <1>1, <1>2
  <1>5. CASE job[c].op = "branch"
    <2>1. ref[b] = Missing
      BY <1>0, <1>1, <1>5, PutReplaces DEF Applied
    <2>2. \/ Chain(objects, x) = {}
          \/ \E d \in Branch : Chain(objects, x) \subseteq Chain(objects, ref[d])
      <3>1. CASE x = NoCommit
        BY <3>1 DEF Chain, NoCommit, HInv, RInv, TypeOK
      <3>2. CASE x # NoCommit
        <4>1. PICK d \in Branch : Extends(objects, x, ref[d])
          BY <1>0, <1>1, <1>5, <3>2, PutReplaces DEF Applied
        <4> QED
          BY <1>2, <4>1, ChainGrows DEF HInv, RInv, TypeOK, Value
      <3> QED
        BY <3>1, <3>2
    <2>3. History!Create(b)
      BY <1>1, <1>2, <1>3, <1>4, <2>1, <2>2 DEF History!Create
    <2> QED
      BY <2>3 DEF History!Next
  <1>6. CASE job[c].op # "branch"
    <2>1. ref[b] \in Commits(objects) /\ x \in 1 .. Len(objects) /\ x # ref[b]
          /\ Extends(objects, ref[b], x)
      BY <1>0, <1>1, <1>6, PutReplaces DEF Applied
    <2>2. ref[b] # Missing
      BY <2>1 DEF Commits, Missing, NoCommit
    <2>3. Chain(objects, ref[b]) \subseteq Chain(objects, x)
      BY <1>2, <2>1, ChainGrows DEF HInv, RInv, TypeOK, Value
    <2>4. Chain(objects, ref[b]) # Chain(objects, x)
      BY <2>1, ChainGrowsStrictly DEF HInv, RInv, TypeOK
    <2>5. History!Advance(b)
      BY <1>1, <1>2, <1>3, <1>4, <2>2, <2>3, <2>4 DEF History!Advance
    <2> QED
      BY <2>5 DEF History!Next
  <1> QED
    BY <1>5, <1>6

(* So does the first opening of an empty bucket, with an empty history.    *)
LEMMA HistoryEnsureHead ==
    ASSUME HInv, HInv', NEW c \in Client, Ensures(c), ref[DefaultBranch] = Missing
    PROVE  History!Next
  <1>1. objects' = objects /\ ref'[DefaultBranch] = NoCommit
        /\ \A b \in Branch \ {DefaultBranch} : ref'[b] = ref[b]
    BY ConstantsOK
    DEF Ensures, EnsureHead, EnsureHeadAnswerLost, PutEmptyHead, HInv, RInv, TypeOK
  <1>2. Chain(objects, NoCommit) = {} /\ NoCommit # Missing
    BY DEF Chain, NoCommit, Missing, HInv, RInv, TypeOK
  <1>3. History!Create(DefaultBranch)
    BY <1>1, <1>2, ConstantsOK DEF History!Create, History!Only
  <1> QED
    BY <1>3, ConstantsOK DEF History!Next

LEMMA HistoryNext ==
    ASSUME HInv, HInv', Grows, [Next]_vars
    PROVE  [History!Next]_(History!vars)
  <1>1. CASE UNCHANGED ref
    BY <1>1, HistoryStutter DEF Grows
  <1>2. CASE \E c \in Client : Applied(c)
    BY <1>2, HistoryPut
  <1>3. CASE \E c \in Client : Ensures(c) /\ ref[DefaultBranch] = Missing
    BY <1>3, HistoryEnsureHead
  <1>4. \/ UNCHANGED ref
        \/ \E c \in Client : Applied(c) \/ (Ensures(c) /\ ref[DefaultBranch] = Missing)
    <2>1. CASE UNCHANGED vars
      BY <2>1 DEF vars
    <2>2. ASSUME NEW c \in Client, Start(c) \/ Stop(c) PROVE UNCHANGED ref
      BY <2>2 DEF Start, Open, SetCurrentBranch, StartBranch, StartCommit, StartMerge,
                  StartFastForward, Stop
    <2>3. ASSUME NEW c \in Client, Step(c)
          PROVE  \/ UNCHANGED ref
                 \/ Applied(c)
                 \/ Ensures(c)
      BY <2>3 DEF Step, Ensures, BranchReadHead, MergeState, MergeConflict,
                  FastForwardBranch, WriteCommitObject, CasCheck, CasPut,
                  CasPutAnswerLost, Conflict, Refresh, AppendReflog, Applied
    <2>4. ASSUME NEW c \in Client, Ensures(c), ref[DefaultBranch] # Missing
          PROVE  UNCHANGED ref
      <3>1. ref[DefaultBranch] = NoCommit
        BY <2>4 DEF Ensures, EnsureHead, EnsureHeadAnswerLost, HInv, OpenOK
      <3>2. ref' = [ref EXCEPT ![DefaultBranch] = NoCommit] /\ ref \in [Branch -> RefValue]
        BY <2>4 DEF Ensures, EnsureHead, EnsureHeadAnswerLost, PutEmptyHead, HInv, RInv, TypeOK
      <3> QED
        BY <3>1, <3>2
    <2> QED
      BY <2>1, <2>2, <2>3, <2>4 DEF Next
  <1> QED
    BY <1>1, <1>2, <1>3, <1>4

(* The refs of a repository are an append-only history per branch.         *)
THEOREM RefsImplementHistory == ASSUME NoInitRace PROVE Spec => ImplementsHistory
  <1>1. Init => HInv /\ History!Init
    BY HInvInit, HistoryInit
  <1>2. HInv /\ [Next]_vars => HInv' /\ [History!Next]_(History!vars)
    BY HInvNext, HistoryNext
  <1> QED
    BY <1>1, <1>2, PTL DEF Spec, ImplementsHistory, History!Spec
----------------------------------------------------------------------------
(* commit --staged gives up only when its branch moved                     *)

LEMMA DepthGrows ==
    ASSUME NEW objs \in Seq(CommitObject), GraphOK(objs),
           NEW v \in Value(objs), NEW w \in Value(objs), Extends(objs, v, w)
    PROVE  /\ Cardinality(Chain(objs, v)) \in Nat /\ Cardinality(Chain(objs, w)) \in Nat
           /\ Cardinality(Chain(objs, v)) <= Cardinality(Chain(objs, w))
           /\ v \in Commits(objs) /\ w # v =>
                 Cardinality(Chain(objs, v)) + 1 <= Cardinality(Chain(objs, w))
  <1> DEFINE V == Chain(objs, v)
             W == Chain(objs, w)
  <1>1. V \subseteq W
    BY ChainGrows
  <1>2. W \subseteq 1 .. Len(objs)
    BY DEF Chain, GraphOK
  <1>3. IsFiniteSet(W)
    <2>1. Len(objs) \in Int
      OBVIOUS
    <2> QED
      BY <1>2, <2>1, FS_Interval, FS_Subset
  <1>4. IsFiniteSet(V) /\ Cardinality(V) <= Cardinality(W)
        /\ (Cardinality(W) = Cardinality(V) => W = V)
    BY <1>1, <1>3, FS_Subset
  <1>5. Cardinality(V) \in Nat /\ Cardinality(W) \in Nat
    BY <1>3, <1>4, FS_CardinalityType
  <1>6. ASSUME v \in Commits(objs), w # v PROVE V # W
    <2>1. w \in 1 .. Len(objs)
      BY <1>6 DEF Extends, Chain, Value, Commits, NoCommit, Missing
    <2> QED
      BY <1>6, <2>1, ChainGrowsStrictly
  <1> QED
    BY <1>4, <1>5, <1>6

(* Of every attempt but the first one knows that the branch had moved once *)
(* for each attempt before the last.                                       *)
StagedJobOK(objs, r, p, j) ==
    LET depth(v) == Cardinality(Chain(objs, v))
    IN  /\ j.at \in Value(objs) /\ Extends(objs, j.at, r[j.branch])
        /\ j.attempt >= 1
        /\ j.exp = j.token
        /\ p # "conflict" /\ j.attempt >= 2 =>
              depth(j.token) >= depth(j.at) + j.attempt - 2
        /\ p = "conflict" =>
              depth(r[j.branch]) >= depth(j.at) + j.attempt - 1

AttemptOK(objs, r, p, j) ==
    /\ p \in {"branch_head", "merge_state", "fast_forward"} => j.op # "staged"
    /\ p \in {"write", "cas", "put", "conflict"} /\ j.op = "staged" =>
          StagedJobOK(objs, r, p, j)

AInv == \A c \in Client : AttemptOK(objects, ref, pc[c], job[c])

(* What a client has counted outlives the steps of its peers, and its own  *)
(* commits.                                                                *)
LEMMA AttemptsSurvive ==
    ASSUME HInv, HInv', Grows, NEW c \in Client, AttemptOK(objects, ref, pc[c], job[c])
    PROVE  AttemptOK(objects', ref', pc[c], job[c])
  <1> SUFFICES ASSUME pc[c] \in {"write", "cas", "put", "conflict"}, job[c].op = "staged"
               PROVE  StagedJobOK(objects', ref', pc[c], job[c])
    BY DEF AttemptOK
  <1> DEFINE j == job[c]
             b == j.branch
  <1>1. /\ objects \in Seq(CommitObject) /\ GraphOK(objects)
        /\ objects' \in Seq(CommitObject) /\ GraphOK(objects') /\ Prefix(objects, objects')
        /\ b \in Branch /\ j.attempt \in Nat
    BY DEF HInv, RInv, TypeOK, Job, Grows
  <1>2. /\ ref[b] \in Value(objects) /\ ref'[b] \in Value(objects')
        /\ Value(objects) \subseteq Value(objects')
        /\ Extends(objects', ref[b], ref'[b])
    BY <1>1 DEF HInv, RInv, RefsOK, Value, Grows, Prefix, Commits
  <1>3. StagedJobOK(objects, ref, pc[c], j) /\ j.token \in Commits(objects)
    BY OwnView DEF AttemptOK, JobOK, Updating, UpdateJobOK
  <1>4. j.at \in Value(objects) /\ j.token \in Value(objects)
    BY <1>3 DEF StagedJobOK, Value
  <1>5. Extends(objects', j.at, ref'[b])
    BY <1>1, <1>2, <1>3, <1>4, LaterHead DEF StagedJobOK
  <1>6. /\ Chain(objects', j.at) = Chain(objects, j.at)
        /\ Chain(objects', j.token) = Chain(objects, j.token)
        /\ Chain(objects', ref[b]) = Chain(objects, ref[b])
    BY <1>1, <1>2, <1>4, ChainPrefix
  <1>7. /\ Cardinality(Chain(objects', ref[b])) \in Nat
        /\ Cardinality(Chain(objects', ref'[b])) \in Nat
        /\ Cardinality(Chain(objects', ref[b])) <= Cardinality(Chain(objects', ref'[b]))
        /\ Cardinality(Chain(objects', j.at)) \in Nat
    BY <1>1, <1>2, <1>4, <1>5, DepthGrows
  <1> HIDE DEF j
  <1>8. pc[c] = "conflict" =>
           Cardinality(Chain(objects', ref'[b]))
             >= Cardinality(Chain(objects', j.at)) + j.attempt - 1
    BY <1>1, <1>3, <1>6, <1>7 DEF StagedJobOK
  <1> QED
    BY <1>2, <1>3, <1>4, <1>5, <1>6, <1>8 DEF StagedJobOK, j

(* An attempt is lost to a head that is built on the one it expected.      *)
LEMMA LostAttempt ==
    ASSUME NEW objs \in Seq(CommitObject), GraphOK(objs), NEW r, NEW j \in Job,
           NEW p, p # "conflict", StagedJobOK(objs, r, p, j),
           r[j.branch] \in Value(objs), j.token \in Commits(objs),
           Extends(objs, j.token, r[j.branch]), r[j.branch] # j.token
    PROVE  StagedJobOK(objs, r, "conflict", j)
  <1> DEFINE depth(v) == Cardinality(Chain(objs, v))
             w == r[j.branch]
  <1>1. j.at \in Value(objs) /\ Extends(objs, j.at, w) /\ j.attempt >= 1 /\ j.attempt \in Nat
    BY DEF StagedJobOK, Job
  <1>2. depth(j.at) \in Nat /\ depth(w) \in Nat /\ depth(j.at) <= depth(w)
    BY <1>1, DepthGrows
  <1>3. depth(j.token) \in Nat /\ depth(j.token) + 1 <= depth(w)
    BY DepthGrows DEF Value
  <1>4. j.attempt >= 2 => depth(j.token) >= depth(j.at) + j.attempt - 2
    BY DEF StagedJobOK
  <1>5. depth(w) >= depth(j.at) + j.attempt - 1
    <2> HIDE DEF depth, w
    <2>1. CASE j.attempt = 1
      BY <1>2, <2>1
    <2>2. CASE j.attempt >= 2
      BY <1>1, <1>2, <1>3, <1>4, <2>2
    <2> QED
      BY <1>1, <2>1, <2>2
  <1> QED
    BY <1>5 DEF StagedJobOK

LEMMA NothingToCount ==
    ASSUME NEW objs, NEW r, NEW p, NEW j,
           \/ j.op # "staged"
           \/ p \in {"closed", "ensure_head", "idle", "refresh", "reflog"}
    PROVE  AttemptOK(objs, r, p, j)
  BY DEF AttemptOK

LEMMA OneClientActs ==
    ASSUME RInv, NEW c \in Client, Start(c) \/ Step(c) \/ Stop(c)
    PROVE  Acts(c)
  <1>0. job \in [Client -> Job] /\ pc \in [Client -> Label]
        /\ reflog \in [Client -> SUBSET ReflogEntry]
        /\ snapshot \in [Client -> [Branch -> RefValue]]
    BY DEF RInv, TypeOK
  <1>1. CASE Start(c)
    <2>1. CASE Open(c) \/ \E b \in Branch : SetCurrentBranch(c, b)
      BY <1>0, <2>1 DEF Open, SetCurrentBranch, KeepSnapshot, Goto, Acts
    <2>2. CASE \E op \in {"commit", "staged"} : StartCommit(c, op)
      BY <1>0, <2>2 DEF StartCommit, KeepSnapshot, Goto, Acts
    <2>3. CASE \/ \E b \in Branch : StartBranch(c, b)
               \/ \E t \in Branch, s \in Stored : StartMerge(c, t, s)
               \/ \E b \in Branch, x \in Stored : StartFastForward(c, b, x)
      <3>1. ASSUME NEW b \in Branch, StartBranch(c, b) PROVE Acts(c)
        BY <3>1 DEF StartBranch, Goto, Acts, RInv, TypeOK
      <3>2. ASSUME NEW t \in Branch, NEW s \in Stored, StartMerge(c, t, s) PROVE Acts(c)
        BY <3>2 DEF StartMerge, Goto, Acts, RInv, TypeOK
      <3>3. ASSUME NEW b \in Branch, NEW x \in Stored, StartFastForward(c, b, x)
            PROVE  Acts(c)
        BY <3>3 DEF StartFastForward, Goto, Acts, RInv, TypeOK
      <3> QED
        BY <2>3, <3>1, <3>2, <3>3
    <2> QED
      BY <1>1, <2>1, <2>2, <2>3 DEF Start
  <1>2. CASE Stop(c)
    BY <1>0, <1>2 DEF Stop, Goto, Acts
  <1>3. CASE Ensures(c) \/ BranchReadHead(c) \/ MergeState(c) \/ MergeConflict(c)
    BY <1>0, <1>3 DEF Ensures, EnsureHead, EnsureHeadAnswerLost, BranchReadHead, MergeState, MergeConflict, KeepSnapshot,
                      Return, Goto, Acts
  <1>4. CASE FastForwardBranch(c) \/ WriteCommitObject(c)
    BY <1>0, <1>4 DEF FastForwardBranch, WriteCommitObject, KeepSnapshot, Return, Goto, Acts
  <1>5. CASE CasCheck(c) \/ CasPut(c) \/ CasPutAnswerLost(c)
    BY <1>0, <1>5 DEF CasCheck, CasPut, CasPutAnswerLost, CasFailed, Return, Goto, Acts
  <1>6. CASE Conflict(c) \/ Refresh(c) \/ AppendReflog(c)
    BY <1>0, <1>6 DEF Conflict, Refresh, AppendReflog, Return, Goto, Acts
  <1> QED
    BY <1>1, <1>2, <1>3, <1>4, <1>5, <1>6 DEF Step, Ensures

(* A CAS lost to another head: the branch moved while the attempt ran.     *)
LEMMA AttemptFails ==
    ASSUME HInv, HInv', Grows, AInv, NEW c \in Client, pc[c] \in {"cas", "put"},
           CasFailed(c), ref'[job[c].branch] # job[c].token,
           job[c].op = "staged" =>
              Extends(objects', job[c].token, ref'[job[c].branch])
    PROVE  AttemptOK(objects', ref', pc'[c], job'[c])
  <1>1. CASE job[c].op # "staged"
    <2>1. pc'[c] = "idle" \/ job'[c] = job[c]
      BY DEF CasFailed, Return, Goto, HInv, RInv, TypeOK
    <2> QED
      BY <1>1, <2>1, NothingToCount
  <1>2. CASE job[c].op = "staged"
    <2>1. pc'[c] = "conflict" /\ job'[c] = job[c]
      BY <1>2 DEF CasFailed, Goto, HInv, RInv, TypeOK
    <2>2. AttemptOK(objects', ref', pc[c], job[c])
      BY AttemptsSurvive DEF AInv
    <2>3. StagedJobOK(objects', ref', pc[c], job[c])
      BY <1>2, <2>2 DEF AttemptOK
    <2>4. job[c] \in Job /\ job[c].branch \in Branch
      BY OwnView
    <2>5. job[c].token \in Commits(objects')
      <3>1. job[c].token \in Commits(objects)
        BY <1>2, OwnView DEF JobOK, Updating, UpdateJobOK
      <3> QED
        BY <3>1 DEF Grows, Prefix, Commits
    <2>6. objects' \in Seq(CommitObject) /\ GraphOK(objects')
          /\ ref'[job[c].branch] \in Value(objects')
      BY <2>4 DEF HInv, RInv, TypeOK, RefsOK, Value
    <2>7. StagedJobOK(objects', ref', "conflict", job[c])
      BY <1>2, <2>3, <2>4, <2>5, <2>6, LostAttempt
    <2> QED
      BY <2>1, <2>7 DEF AttemptOK
  <1> QED
    BY <1>1, <1>2

(* The first attempt starts from a view that may be stale already: it      *)
(* knows of no update of the branch.                                       *)
LEMMA AStartCommit ==
    ASSUME HInv, NEW c \in Client, NEW op \in {"commit", "staged"}, StartCommit(c, op)
    PROVE  AttemptOK(objects, ref, pc'[c], job'[c])
  <1> DEFINE b == head[c]
             state == BranchState(c, b)
  <1>1. b \in Branch /\ pc'[c] = "write"
    BY DEF StartCommit, Goto, HInv, RInv, TypeOK
  <1>2. job'[c].op = op /\ job'[c].branch = b /\ job'[c].exp = state
        /\ job'[c].token = state /\ job'[c].attempt = 1
        /\ job'[c].at = IF op = "staged" THEN ref[b] ELSE Missing
    BY <1>1 DEF StartCommit, NoJob, HInv, RInv, TypeOK
  <1>3. ref[b] \in Value(objects) /\ Extends(objects, ref[b], ref[b])
    BY <1>1, ExtendsReflexive DEF HInv, RInv, TypeOK, RefsOK, Value
  <1>4. CASE op = "staged"
    <2> DEFINE j == job'[c]
    <2> HIDE DEF j
    <2>1. j.op = op /\ j.branch = b /\ j.exp = state /\ j.token = state
          /\ j.attempt = 1 /\ j.at = ref[b]
      BY <1>2, <1>4 DEF j
    <2>2. StagedJobOK(objects, ref, "write", j)
      BY <1>3, <2>1 DEF StagedJobOK
    <2>3. AttemptOK(objects, ref, "write", j)
      BY <2>2 DEF AttemptOK
    <2> QED
      BY <1>1, <2>3 DEF j
  <1>5. CASE op # "staged"
    BY <1>2, <1>5, NothingToCount
  <1> QED
    BY <1>4, <1>5

(* A retry starts from the head it has just read, which is as deep as the  *)
(* lost attempts say.                                                      *)
LEMMA AConflict ==
    ASSUME HInv, AInv, NEW c \in Client, Conflict(c)
    PROVE  AttemptOK(objects, ref, pc'[c], job'[c])
  <1> DEFINE b == job[c].branch
             Retry == job[c].op = "staged" /\ job[c].attempt < StagedRetries
  <1>1. job \in [Client -> Job] /\ pc \in [Client -> Label] /\ pc[c] = "conflict"
    BY DEF Conflict, HInv, RInv, TypeOK
  <1>2. CASE ~Retry
    <2>1. pc'[c] = "idle"
      BY <1>1, <1>2 DEF Conflict, Return, Goto
    <2> QED
      BY <2>1, NothingToCount
  <1>3. CASE Retry
    <2>1. pc'[c] = "write"
          /\ job'[c] = [job[c] EXCEPT !.exp = ref[b], !.token = ref[b], !.attempt = @ + 1]
      <3>1. job' = [job EXCEPT ![c].exp = ref[b], ![c].token = ref[b], ![c].attempt = @ + 1]
            /\ Goto(c, "write")
        BY <1>3 DEF Conflict
      <3> QED
        BY <1>1, <3>1 DEF Goto
    <2>2. job'[c].op = "staged" /\ job'[c].branch = b /\ job'[c].exp = ref[b]
          /\ job'[c].token = ref[b] /\ job'[c].at = job[c].at
          /\ job'[c].attempt = job[c].attempt + 1
      BY <1>3, <2>1, OwnView DEF Job
    <2>3. StagedJobOK(objects, ref, "conflict", job[c])
      BY <1>1, <1>3 DEF AInv, AttemptOK
    <2>4. job[c].attempt \in Nat
      BY OwnView DEF Job
    <2> DEFINE j == job'[c]
               i == job[c]
    <2> HIDE DEF j
    <2>5. j.op = "staged" /\ j.branch = i.branch /\ j.exp = ref[i.branch]
          /\ j.token = ref[i.branch] /\ j.at = i.at /\ j.attempt = i.attempt + 1
      BY <2>2 DEF j
    <2> DEFINE depth(v) == Cardinality(Chain(objects, v))
               w == ref[i.branch]
    <2>6. i.at \in Value(objects) /\ Extends(objects, i.at, w) /\ i.attempt >= 1
          /\ depth(w) >= depth(i.at) + i.attempt - 1
      BY <2>3 DEF StagedJobOK
    <2>7. depth(i.at) \in Nat
      <3>1. w \in Value(objects)
        BY OwnView DEF HInv, RInv, RefsOK, Value
      <3> QED
        BY <2>6, <3>1, DepthGrows DEF HInv, RInv, TypeOK
    <2>8. depth(w) >= depth(i.at) + j.attempt - 2 /\ j.attempt >= 1
      <3> HIDE DEF depth, w, i
      <3> QED
        BY <2>4, <2>5, <2>6, <2>7 DEF i
    <2>9. StagedJobOK(objects, ref, "write", j)
      BY <2>5, <2>6, <2>8 DEF StagedJobOK
    <2>10. AttemptOK(objects, ref, "write", j)
      BY <2>9 DEF AttemptOK
    <2> QED
      BY <2>1, <2>10 DEF j
  <1> QED
    BY <1>2, <1>3

LEMMA ACas ==
    ASSUME HInv, HInv', Grows, AInv, NEW c \in Client,
           CasCheck(c) \/ CasPut(c) \/ CasPutAnswerLost(c)
    PROVE  AttemptOK(objects', ref', pc'[c], job'[c])
  <1> DEFINE b == job[c].branch
             j == job[c]
  <1>1. pc[c] \in {"cas", "put"} /\ job \in [Client -> Job] /\ pc \in [Client -> Label]
        /\ b \in Branch /\ ref \in [Branch -> RefValue]
        /\ objects' = objects
    BY OwnView DEF CasCheck, CasPut, CasPutAnswerLost, HInv, RInv, TypeOK
  <1>2. AttemptOK(objects', ref', pc[c], j) /\ AttemptOK(objects, ref, pc[c], j)
    BY AttemptsSurvive DEF AInv
  <1>3. j.op = "staged" => j.exp = j.token /\ UpdateJobOK(objects, ref, pc[c], j)
    BY <1>1, <1>2, OwnView DEF AttemptOK, StagedJobOK, JobOK, Updating
  <1>4. CASE CasFailed(c) /\ ref' = ref /\ (j.op = "staged" => ref[b] # j.token)
    <2>1. CASE j.op = "staged"
      BY <1>1, <1>3, <1>4, <2>1, AttemptFails DEF UpdateJobOK
    <2>2. CASE j.op # "staged"
      <3>1. pc'[c] = "idle" \/ job'[c] = job[c]
        BY <1>1, <1>4 DEF CasFailed, Return, Goto
      <3> QED
        BY <2>2, <3>1, NothingToCount
    <2> QED
      BY <2>1, <2>2
  <1>5. CASE CasCheck(c)
    <2>1. CASE CasFailed(c)
      <3>1. (pc'[c] = "put" /\ job'[c] = j)
            \/ ~(ref[b] = j.token /\ (j.exp # NoCommit => ref[b] = j.exp))
        BY <1>1, <1>5 DEF CasCheck, Goto
      <3>2. pc'[c] \in {"idle", "conflict"}
        BY <1>1, <2>1 DEF CasFailed, Return, Goto
      <3>3. j.op = "staged" => ref[b] # j.token
        BY <1>3, <3>1, <3>2
      <3> QED
        BY <1>4, <1>5, <2>1, <3>3 DEF CasCheck
    <2>2. CASE pc'[c] = "put" /\ job'[c] = j
      BY <1>1, <1>2, <2>2 DEF AttemptOK, StagedJobOK
    <2> QED
      BY <1>1, <1>5, <2>1, <2>2 DEF CasCheck, Goto
  <1>6. CASE CasPut(c)
    <2>1. CASE ref[b] = j.token
      <3>1. pc'[c] = "refresh"
        BY <1>1, <1>6, <2>1 DEF CasPut, Goto
      <3> QED
        BY <3>1, NothingToCount
    <2>2. CASE ref[b] # j.token
      BY <1>4, <1>6, <2>2 DEF CasPut
    <2> QED
      BY <2>1, <2>2
  <1>7. CASE CasPutAnswerLost(c)
    <2>1. CASE j.op # "staged"
      <3>1. pc'[c] = "idle" \/ job'[c] = job[c]
        BY <1>1, <1>7 DEF CasPutAnswerLost, CasFailed, Return, Goto
      <3> QED
        BY <2>1, <3>1, NothingToCount
    <2>2. CASE j.op = "staged"
      <3>1. pc[c] = "put" /\ ref'[b] = j.new /\ ref[b] = j.token /\ CasFailed(c)
        BY <1>1, <1>7 DEF CasPutAnswerLost, PutRef
      <3>2. j.new # j.token /\ Extends(objects, j.token, j.new)
        BY <1>3, <2>2, <3>1 DEF UpdateJobOK
      <3> QED
        BY <1>1, <3>1, <3>2, AttemptFails
    <2> QED
      BY <2>1, <2>2
  <1> QED
    BY <1>5, <1>6, <1>7

LEMMA AWrite ==
    ASSUME HInv, HInv', Grows, AInv, NEW c \in Client, WriteCommitObject(c)
    PROVE  AttemptOK(objects', ref', pc'[c], job'[c])
  <1> DEFINE n == Len(objects) + 1
             i == job[c]
             j == job'[c]
  <1>1. pc[c] = "write" /\ pc'[c] = "cas" /\ j = [i EXCEPT !.new = n]
    BY DEF WriteCommitObject, Goto, HInv, RInv, TypeOK
  <1>2. j.op = i.op /\ j.branch = i.branch /\ j.exp = i.exp /\ j.token = i.token
        /\ j.attempt = i.attempt /\ j.at = i.at
    BY <1>1, OwnView DEF Job
  <1>3. AttemptOK(objects', ref', pc[c], i)
    BY AttemptsSurvive DEF AInv
  <1> HIDE DEF i, j
  <1>4. ASSUME i.op = "staged" PROVE StagedJobOK(objects', ref', "cas", j)
    BY <1>1, <1>2, <1>3, <1>4 DEF AttemptOK, StagedJobOK
  <1>5. AttemptOK(objects', ref', "cas", j)
    BY <1>2, <1>4 DEF AttemptOK
  <1> QED
    BY <1>1, <1>5 DEF j

(* The steps in which nothing is counted: the client runs no staged        *)
(* commit, or it has no attempt under way afterwards.                      *)
LEMMA AOther ==
    ASSUME HInv, AInv, NEW c \in Client,
           \/ Open(c)
           \/ \E b \in Branch : SetCurrentBranch(c, b) \/ StartBranch(c, b)
           \/ \E t \in Branch, s \in Stored : StartMerge(c, t, s)
           \/ \E b \in Branch, x \in Stored : StartFastForward(c, b, x)
           \/ Stop(c)
           \/ Ensures(c) \/ BranchReadHead(c) \/ MergeState(c) \/ MergeConflict(c)
           \/ FastForwardBranch(c) \/ Refresh(c) \/ AppendReflog(c)
    PROVE  \/ pc'[c] \in {"closed", "ensure_head", "idle", "refresh", "reflog"}
           \/ job'[c].op # "staged"
  <1>1. job \in [Client -> Job] /\ pc \in [Client -> Label] /\ job[c] \in Job
    BY DEF HInv, RInv, TypeOK
  <1>2. CASE \/ Open(c)
             \/ \E b \in Branch : SetCurrentBranch(c, b)
             \/ Stop(c) \/ Ensures(c) \/ MergeConflict(c) \/ Refresh(c) \/ AppendReflog(c)
    BY <1>1, <1>2 DEF Open, SetCurrentBranch, Stop, Ensures, EnsureHead,
                      EnsureHeadAnswerLost, MergeConflict, Refresh,
                      AppendReflog, Return, Goto
  <1>3. CASE \/ \E b \in Branch : StartBranch(c, b)
             \/ \E t \in Branch, s \in Stored : StartMerge(c, t, s)
             \/ \E b \in Branch, x \in Stored : StartFastForward(c, b, x)
    <2>1. ASSUME NEW b \in Branch, StartBranch(c, b) PROVE job'[c].op = "branch"
      BY <2>1 DEF StartBranch, NoJob, HInv, RInv, TypeOK
    <2>2. ASSUME NEW t \in Branch, NEW s \in Stored, StartMerge(c, t, s)
          PROVE  job'[c].op = "merge"
      BY <2>2 DEF StartMerge, NoJob, HInv, RInv, TypeOK
    <2>3. ASSUME NEW b \in Branch, NEW x \in Stored, StartFastForward(c, b, x)
          PROVE  job'[c].op = "fast_forward"
      BY <2>3 DEF StartFastForward, NoJob, HInv, RInv, TypeOK
    <2> QED
      BY <1>3, <2>1, <2>2, <2>3
  <1>4. CASE BranchReadHead(c) \/ MergeState(c) \/ FastForwardBranch(c)
    <2>1. job[c].op # "staged"
      BY <1>4 DEF AInv, AttemptOK, BranchReadHead, MergeState, FastForwardBranch
    <2>2. pc'[c] = "idle" \/ job'[c].op = job[c].op
      BY <1>1, <1>4 DEF BranchReadHead, MergeState, FastForwardBranch, Return, Goto, Job
    <2> QED
      BY <2>1, <2>2
  <1> QED
    BY <1>2, <1>3, <1>4

LEMMA AInvNext ==
    ASSUME HInv, AInv, [Next]_vars
    PROVE  AInv'
  <1>1. HInv' /\ Grows
    BY HInvNext
  <1>2. CASE UNCHANGED vars
    BY <1>2 DEF vars, AInv
  <1>3. ASSUME NEW c \in Client, Start(c) \/ Step(c) \/ Stop(c) PROVE AInv'
    <2>1. AttemptOK(objects', ref', pc'[c], job'[c])
      <3>1. CASE \E op \in {"commit", "staged"} : StartCommit(c, op)
        <4>1. ref' = ref /\ objects' = objects
          BY <3>1 DEF StartCommit
        <4> QED
          BY <3>1, <4>1, AStartCommit
      <3>2. CASE Conflict(c)
        <4>1. ref' = ref /\ objects' = objects
          BY <3>2 DEF Conflict
        <4> QED
          BY <3>2, <4>1, AConflict
      <3>3. CASE WriteCommitObject(c) \/ CasCheck(c) \/ CasPut(c) \/ CasPutAnswerLost(c)
        BY <1>1, <3>3, AWrite, ACas
      <3>4. CASE \/ Open(c)
                 \/ \E b \in Branch : SetCurrentBranch(c, b) \/ StartBranch(c, b)
                 \/ \E t \in Branch, s \in Stored : StartMerge(c, t, s)
                 \/ \E b \in Branch, x \in Stored : StartFastForward(c, b, x)
                 \/ Stop(c)
                 \/ Ensures(c) \/ BranchReadHead(c) \/ MergeState(c) \/ MergeConflict(c)
                 \/ FastForwardBranch(c) \/ Refresh(c) \/ AppendReflog(c)
        BY <3>4, AOther, NothingToCount
      <3> QED
        BY <1>3, <3>1, <3>2, <3>3, <3>4 DEF Start, Step, Ensures
    <2>2. ASSUME NEW d \in Client \ {c} PROVE AttemptOK(objects', ref', pc'[d], job'[d])
      <3>1. pc'[d] = pc[d] /\ job'[d] = job[d]
        BY <1>3, OneClientActs DEF Acts, HInv
      <3> QED
        BY <1>1, <3>1, AttemptsSurvive DEF AInv
    <2> QED
      BY <2>1, <2>2 DEF AInv
  <1> QED
    BY <1>2, <1>3 DEF Next

(* The last attempt of a staged commit failed: the counts say how far the  *)
(* branch has moved since it began.                                        *)
LEMMA GivingUp ==
    ASSUME HInv, AInv, [Next]_vars, NEW c \in Client,
           pc[c] = "conflict", pc'[c] = "idle", job[c].op = "staged"
    PROVE  Depth(ref[job[c].branch]) >= Depth(job[c].at) + StagedRetries - 1
  <1>1. job \in [Client -> Job] /\ pc \in [Client -> Label] /\ job[c].branch \in Branch
        /\ job[c].attempt \in Nat
    BY OwnView DEF HInv, RInv, TypeOK, Job
  <1>2. Conflict(c)
    <2>1. PICK d \in Client : Start(d) \/ Step(d) \/ Stop(d)
      BY DEF Next, vars
    <2>2. d = c
      BY <2>1, OneClientActs DEF Acts, HInv
    <2>3. ~Start(c)
      BY DEF Start, Open, SetCurrentBranch, StartBranch, StartCommit, StartMerge,
             StartFastForward
    <2>4. ~Stop(c)
      BY <1>1 DEF Stop, Goto
    <2>5. Step(c)
      BY <2>1, <2>2, <2>3, <2>4
    <2> QED
      BY <2>5 DEF Step, EnsureHead, EnsureHeadAnswerLost, BranchReadHead, MergeState, MergeConflict,
             FastForwardBranch, WriteCommitObject, CasCheck, CasPut, CasPutAnswerLost,
             Refresh, AppendReflog
  <1>3. ~(job[c].attempt < StagedRetries)
    BY <1>1, <1>2 DEF Conflict, Goto
  <1>4. StagedJobOK(objects, ref, "conflict", job[c])
    BY DEF AInv, AttemptOK
  <1> DEFINE depth(v) == Cardinality(Chain(objects, v))
             w == ref[job[c].branch]
             a == job[c].at
             n == job[c].attempt
  <1>5. a \in Value(objects) /\ w \in Value(objects) /\ Extends(objects, a, w)
        /\ depth(w) >= depth(a) + n - 1
    BY <1>1, <1>4 DEF StagedJobOK, HInv, RInv, RefsOK, Value
  <1>6. depth(a) \in Nat /\ depth(w) \in Nat
    BY <1>5, DepthGrows DEF HInv, RInv, TypeOK
  <1>7. depth(w) >= depth(a) + StagedRetries - 1
    <2> HIDE DEF depth, w, a, n
    <2>1. n \in Nat /\ ~(n < StagedRetries) /\ StagedRetries \in Nat
      BY <1>1, <1>3, ConstantsOK DEF n
    <2> QED
      BY <1>5, <1>6, <2>1
  <1> QED
    BY <1>7 DEF Depth

(* commit --staged raises RefConflictError only when its branch moved      *)
(* while it ran, at least once for every attempt but the first.            *)
THEOREM RetriesMeanContention ==
    ASSUME NoInitRace PROVE Spec => StagedGivesUpOnlyUnderContention
  <1>1. Init => HInv /\ AInv
    <2>1. ASSUME Init PROVE AInv
      BY <2>1 DEF Init, AInv, AttemptOK
    <2> QED
      BY <2>1, HInvInit
  <1>2. HInv /\ AInv /\ [Next]_vars => HInv' /\ AInv'
    BY HInvNext, AInvNext
  <1>3. HInv /\ AInv /\ [Next]_vars =>
           [\A c \in Client :
              pc[c] = "conflict" /\ pc'[c] = "idle" /\ job[c].op = "staged"
              => Depth(ref[job[c].branch]) >= Depth(job[c].at) + StagedRetries - 1]_pc
    BY GivingUp
  <1> QED
    BY <1>1, <1>2, <1>3, PTL DEF Spec, StagedGivesUpOnlyUnderContention
=============================================================================
