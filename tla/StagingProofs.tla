--------------------------- MODULE StagingProofs ---------------------------
(***************************************************************************)
(* Proofs about Staging.tla, for any paths, inputs and peers: a commit     *)
(* changes nothing it does not name, for any number of processes, and one  *)
(* process alone publishes every staged change at least once.              *)
(***************************************************************************)
EXTENDS Staging, TLAPS

(* The fields of a process, whatever they hold.                            *)
IsJob(j) ==
    j = [at |-> j.at, op |-> j.op, stage |-> j.stage, adds |-> j.adds,
         base |-> j.base, new |-> j.new, attempt |-> j.attempt]

(* The new files keep what the command does not name.                      *)
Keeps(j, parent) ==
    \A q \in DOMAIN j.new \cup DOMAIN parent :
        MayChange(j, parent, q) \/ At(j.new, q) = At(parent, q)

(* What is known of a process, whatever the others do.                     *)
JobOK(j, h) ==
    /\ IsJob(j)
    /\ j.at = "build" =>
          TakesStage(j) /\ DOMAIN j.adds = AddedIn(j.stage)
    /\ j.at = "cas" =>
          /\ j.base \in 1..Len(h)
          /\ j.base = Len(h) => Keeps(j, h[j.base])
    /\ j.at = "cas" /\ TakesStage(j) =>
          /\ DOMAIN j.adds = AddedIn(j.stage)
          /\ Log!Reflects(j.new, j.stage)

Inv ==
    /\ history \in Seq(Range(history)) /\ Len(history) >= 1
    /\ known \in 1..Len(history)
    /\ proc = [p \in Procs |-> proc[p]]
    /\ \A p \in Procs : JobOK(proc[p], history)

-----------------------------------------------------------------------------
(* A commit is added at the end, the others keep their positions.          *)
LEMMA Appended ==
    ASSUME NEW h, h \in Seq(Range(h)), NEW e
    PROVE  /\ Append(h, e) \in Seq(Range(Append(h, e)))
           /\ Len(Append(h, e)) = Len(h) + 1
           /\ Append(h, e)[Len(h) + 1] = e
           /\ \A i \in 1..Len(h) : Append(h, e)[i] = h[i]
<1> DEFINE S == Range(h) \cup {e}
<1>1. h \in Seq(S) /\ e \in S
  BY DEF Range
<1>2. /\ Append(h, e) \in Seq(S)
      /\ Len(Append(h, e)) = Len(h) + 1
      /\ Append(h, e)[Len(h) + 1] = e
      /\ \A i \in 1..Len(h) : Append(h, e)[i] = h[i]
  BY <1>1
<1>3. \A i \in 1..Len(Append(h, e)) : Append(h, e)[i] \in Range(Append(h, e))
  BY <1>2 DEF Range
<1>4. Append(h, e) \in Seq(Range(Append(h, e)))
  BY <1>2, <1>3
<1> QED
  BY <1>2, <1>4

(* What a staged commit makes of any parent keeps what is not named and    *)
(* has what is staged.                                                     *)
LEMMA StagedKeeps ==
    ASSUME NEW f, NEW adds, NEW s, DOMAIN adds = AddedIn(s),
           NEW q \in DOMAIN Staged(f, adds, RemovedIn(s)) \cup DOMAIN f
    PROVE  \/ q \in AddedIn(s)
           \/ Removed(q, RemovedIn(s))
           \/ At(Staged(f, adds, RemovedIn(s)), q) = At(f, q)
BY DEF Staged, Over, Without, At

(* The abstract specification has the same notion of a path below another. *)
LEMMA SameUnder ==
    \A q, r : Log!Under(q, r) <=> Under(q, r)
BY DEF Under, Log!Under, IsPrefix, Log!IsPrefix

LEMMA StagedReflects ==
    ASSUME NEW f, NEW adds, NEW s, DOMAIN adds = AddedIn(s)
    PROVE  Log!Reflects(Staged(f, adds, RemovedIn(s)), s)
<1>1. ASSUME NEW q \in DOMAIN Staged(f, adds, RemovedIn(s))
      PROVE  q \in AddedIn(s) \/ ~Removed(q, RemovedIn(s))
  BY <1>1 DEF Staged, Over, Without
<1>2. AddedIn(s) \subseteq DOMAIN Staged(f, adds, RemovedIn(s))
  BY DEF Staged, Over
<1> QED
  BY <1>1, <1>2, SameUnder DEF Removed, AddedIn, RemovedIn, Log!Reflects

LEMMA FullReflects ==
    ASSUME NEW f, NEW w, NEW adds, NEW s, DOMAIN adds = AddedIn(s)
    PROVE  Log!Reflects(FullCommit(f, w, adds, RemovedIn(s)), s)
<1>1. ASSUME NEW q \in DOMAIN FullCommit(f, w, adds, RemovedIn(s))
      PROVE  q \in AddedIn(s) \/ ~Removed(q, RemovedIn(s))
  BY <1>1 DEF FullCommit, Staged, Over, Without
<1>2. AddedIn(s) \subseteq DOMAIN FullCommit(f, w, adds, RemovedIn(s))
  BY DEF FullCommit, Staged, Over
<1> QED
  BY <1>1, <1>2, SameUnder DEF Removed, AddedIn, RemovedIn, Log!Reflects

(* What is put over the head changes it only there.                        *)
LEMMA OverKeeps ==
    ASSUME NEW f, NEW j, j.new = Over(j.adds, f),
           j.op = "verify" => \A q \in DOMAIN j.adds : q \in DOMAIN f /\ f[q].mode = "meta"
    PROVE  Keeps(j, f)
BY DEF Keeps, MayChange, Over, At

(* A full commit changes the rest only where a working file differs.       *)
LEMMA FullKeeps ==
    ASSUME NEW f, NEW adds, NEW s, DOMAIN adds = AddedIn(s),
           NEW new, new = FullCommit(f, Worktree(f), adds, RemovedIn(s)),
           NEW q \in DOMAIN new \cup DOMAIN f
    PROVE  \/ q \in AddedIn(s)
           \/ Removed(q, RemovedIn(s))
           \/ /\ q \in DOMAIN new \ Outside
              /\ new[q].mode = Identity /\ Differs(f, q, new[q])
           \/ At(new, q) = At(f, q)
<1>1. CASE q \in DOMAIN Without(Worktree(f), RemovedIn(s))
  <2>1. q \in DOMAIN new /\ new[q] = Without(Worktree(f), RemovedIn(s))[q]
    BY <1>1 DEF FullCommit, Over
  <2>2. q \in WorkingFiles /\ new[q] = WorktreeEntry(f, q)
    BY <1>1, <2>1 DEF Without, Worktree
  <2>3. CASE q \in DOMAIN f /\ f[q].mode = Identity /\ f[q].hash = files[q]
    BY <2>1, <2>2, <2>3 DEF WorktreeEntry, At
  <2>4. CASE ~(q \in DOMAIN f /\ f[q].mode = Identity /\ f[q].hash = files[q])
    <3>1. new[q] = EntryOf(Identity, files[q], q)
      BY <2>2, <2>4 DEF WorktreeEntry
    <3>2. new[q].mode = Identity /\ new[q].hash = files[q]
      BY <3>1 DEF EntryOf
    <3>3. Differs(f, q, new[q])
      BY <2>4, <3>2 DEF Differs
    <3> QED
      BY <2>1, <2>2, <3>2, <3>3 DEF WorkingFiles
  <2> QED
    BY <2>3, <2>4
<1>2. CASE q \notin DOMAIN Without(Worktree(f), RemovedIn(s))
  <2>1. /\ q \in DOMAIN new <=> q \in DOMAIN Staged(f, adds, RemovedIn(s))
        /\ q \in DOMAIN new => new[q] = Staged(f, adds, RemovedIn(s))[q]
    BY <1>2 DEF FullCommit, Over
  <2> QED
    BY <2>1, StagedKeeps DEF At
<1> QED
  BY <1>1, <1>2

-----------------------------------------------------------------------------
(* A commit of the branch does not change what is known of a process.      *)
LEMMA JobStays ==
    ASSUME NEW h, h \in Seq(Range(h)), NEW e, NEW j, JobOK(j, h)
    PROVE  JobOK(j, Append(h, e))
<1>1. /\ Len(Append(h, e)) = Len(h) + 1
      /\ Len(h) \in Nat
  BY Appended
<1> QED
  BY <1>1 DEF JobOK

LEMMA IdleOK ==
    ASSUME NEW h
    PROVE  JobOK(Idle, h)
BY DEF JobOK, IsJob, Idle, Job

(* One attempt makes new files that keep what the command does not name.   *)
LEMMA TreeKeeps ==
    ASSUME NEW p, NEW f, NEW j, NEW b,
           TakesStage(proc[p]),
           DOMAIN proc[p].adds = AddedIn(proc[p].stage),
           j.op = proc[p].op, j.adds = proc[p].adds, j.stage = proc[p].stage, j.new = Tree(p, f)
    PROVE  Keeps(j, f) /\ Log!Reflects(j.new, j.stage)
<1>0. proc[p].op \in {"staged", "full"} /\ j.op # "verify"
  BY DEF TakesStage
<1>1. CASE proc[p].op = "staged"
  <2>1. j.new = Staged(f, proc[p].adds, RemovedIn(j.stage))
    BY <1>1 DEF Tree
  <2>2. Keeps(j, f)
    BY <1>0, <2>1, StagedKeeps DEF Keeps, MayChange
  <2> QED
    BY <2>1, <2>2, StagedReflects
<1>2. CASE proc[p].op = "full"
  <2>1. j.new = FullCommit(f, Worktree(f), proc[p].adds, RemovedIn(j.stage))
    BY <1>2 DEF Tree
  <2>2. Keeps(j, f)
    BY <1>0, <1>2, <2>1, FullKeeps DEF Keeps, MayChange
  <2> QED
    BY <2>1, <2>2, FullReflects
<1> QED
  BY <1>0, <1>1, <1>2

(* The other processes know what they knew.                                *)
LEMMA OneMoves ==
    ASSUME Inv, NEW p \in Procs, NEW j, JobOK(j, history),
           proc' = [proc EXCEPT ![p] = j], UNCHANGED history,
           known' \in 1..Len(history)
    PROVE  Inv'
<1>1. /\ history' \in Seq(Range(history')) /\ Len(history') >= 1
      /\ known' \in 1..Len(history')
  BY DEF Inv
<1>2. proc' = [q \in Procs |-> proc'[q]]
  BY DEF Inv
<1>3. \A q \in Procs : JobOK(proc'[q], history)
  BY DEF Inv
<1>4. history' = history
  OBVIOUS
<1>5. \A q \in Procs : JobOK(proc'[q], history')
  BY <1>3, <1>4
<1> QED
  BY <1>1, <1>2, <1>5 DEF Inv

(* A process that has only loaded the stage, or is done.                   *)
LEMMA NoPromise ==
    ASSUME NEW j, NEW h, IsJob(j),
           j.at \notin {"build", "cas"}
    PROVE  JobOK(j, h)
BY DEF JobOK

THEOREM Invariance == Spec => []Inv
<1>1. Init => Inv
  <2> SUFFICES ASSUME Init PROVE Inv
    OBVIOUS
  <2>1. history = <<NoFiles>> /\ known = 1
    BY DEF Init
  <2>2. /\ history \in Seq(Range(history)) /\ Len(history) = 1
    BY <2>1 DEF Range
  <2>3. proc = [p \in Procs |-> proc[p]] /\ \A p \in Procs : proc[p] = Idle
    BY DEF Init
  <2> QED
    BY <2>1, <2>2, <2>3, IdleOK DEF Inv
<1>2. Inv /\ [Next]_vars => Inv'
  <2> SUFFICES ASSUME Inv, [Next]_vars PROVE Inv'
    OBVIOUS
  <2>0. known \in 1..Len(history)
    BY DEF Inv
  <2>1. ASSUME NEW p \in Procs, Add(p) \/ Rm(p) \/ MoveStaged(p) PROVE Inv'
    <3>1. PICK s : GoSave(p, s)
      BY <2>1 DEF Add, Rm, MoveStaged
    <3> DEFINE j == Job("save", "none", s, NoFiles, 0, NoFiles)
    <3>3. IsJob(j) /\ j.at = "save"
      BY DEF IsJob, Job
    <3> HIDE DEF j
    <3>4. proc' = [proc EXCEPT ![p] = j] /\ UNCHANGED <<history, known>>
      BY <3>1 DEF GoSave, j
    <3>5. JobOK(j, history)
      BY <3>3, NoPromise
    <3> QED
      BY <2>0, <3>4, <3>5, OneMoves
  <2>2. ASSUME NEW p \in Procs, Save(p) \/ Clear(p) \/ Crash(p) PROVE Inv'
    <3>1. proc' = [proc EXCEPT ![p] = Idle] /\ UNCHANGED <<history, known>>
      BY <2>2 DEF Save, Clear, Crash
    <3> QED
      BY <2>0, <3>1, IdleOK, OneMoves
  <2>3. ASSUME NEW p \in Procs, Commit(p) PROVE Inv'
    <3>1. PICK op \in {"staged", "full"} :
            proc' = [proc EXCEPT ![p] =
                      Job("build", op, stage, Additions(stage), 0, NoFiles)]
      BY <2>3 DEF Commit
    <3> DEFINE j == Job("build", op, stage, Additions(stage), 0, NoFiles)
    <3>3. DOMAIN Additions(stage) = AddedIn(stage)
      BY DEF Additions
    <3>4. /\ IsJob(j) /\ j.at = "build" /\ TakesStage(j)
          /\ DOMAIN j.adds = AddedIn(j.stage)
      BY <3>3 DEF IsJob, Job, TakesStage
    <3> HIDE DEF j
    <3>5. proc' = [proc EXCEPT ![p] = j] /\ UNCHANGED <<history, known>>
      BY <2>3, <3>1 DEF Commit, j
    <3>6. JobOK(j, history)
      BY <3>4 DEF JobOK
    <3> QED
      BY <2>0, <3>5, <3>6, OneMoves
  <2>4. ASSUME NEW p \in Procs, ImportS3(p) PROVE Inv'
    <3>1. PICK adds :
            proc' = [proc EXCEPT ![p] =
                      Job("cas", "import", NoFiles, adds, known,
                          Over(adds, history[known]))]
      BY <2>4 DEF ImportS3
    <3> DEFINE j == Job("cas", "import", NoFiles, adds, known,
                        Over(adds, history[known]))
    <3>2. /\ IsJob(j) /\ j.at = "cas" /\ j.op = "import" /\ j.base = known
          /\ j.new = Over(j.adds, history[known])
      BY DEF IsJob, Job
    <3> HIDE DEF j
    <3>3. proc' = [proc EXCEPT ![p] = j] /\ UNCHANGED <<history, known>>
      BY <2>4, <3>1 DEF ImportS3, j
    <3>4. Keeps(j, history[known])
      BY <3>2, OverKeeps
    <3>5. JobOK(j, history)
      BY <2>0, <3>2, <3>4 DEF JobOK, TakesStage
    <3> QED
      BY <2>0, <3>3, <3>5, OneMoves
  <2>10. ASSUME NEW p \in Procs, Verify(p) PROVE Inv'
    <3>1. PICK prefix \in Verified :
            LET found == Pointers(BranchFiles, prefix)
                blobs == [q \in found |->
                             EntryOf("blake3", files[BranchFiles[q].from], q)]
            IN  proc' = [proc EXCEPT ![p] =
                            Job("cas", "verify", NoFiles, blobs, known,
                                Over(blobs, BranchFiles))]
      BY <2>10 DEF Verify
    <3> DEFINE blobs == [q \in Pointers(BranchFiles, prefix) |->
                            EntryOf("blake3", files[BranchFiles[q].from], q)]
    <3>2. DOMAIN blobs = Pointers(BranchFiles, prefix)
      OBVIOUS
    <3>3. proc' = [proc EXCEPT ![p] =
                      Job("cas", "verify", NoFiles, blobs, known,
                          Over(blobs, BranchFiles))]
      BY <3>1
    <3> HIDE DEF blobs
    <3> DEFINE j == Job("cas", "verify", NoFiles, blobs, known,
                        Over(blobs, BranchFiles))
    <3>4. /\ IsJob(j) /\ j.at = "cas" /\ j.op = "verify" /\ j.base = known
          /\ j.adds = blobs /\ j.new = Over(j.adds, BranchFiles)
      BY DEF IsJob, Job
    <3> HIDE DEF j
    <3>5. proc' = [proc EXCEPT ![p] = j] /\ UNCHANGED <<history, known>>
      BY <2>10, <3>3 DEF Verify, j
    <3>6. Keeps(j, BranchFiles)
      BY <3>2, <3>4, OverKeeps DEF Pointers
    <3>7. j.base = Len(history) => Keeps(j, history[j.base])
      BY <3>6 DEF BranchFiles
    <3>8. JobOK(j, history)
      BY <2>0, <3>4, <3>7 DEF JobOK, TakesStage
    <3> QED
      BY <2>0, <3>5, <3>8, OneMoves
  <2>5. ASSUME NEW p \in Procs, Build(p) PROVE Inv'
    <3> DEFINE j == [at |-> "cas", op |-> proc[p].op, stage |-> proc[p].stage,
                     adds |-> proc[p].adds, base |-> known,
                     new |-> Tree(p, history[known]),
                     attempt |-> proc[p].attempt + 1]
    <3>1. /\ IsJob(proc[p])
          /\ TakesStage(proc[p])
          /\ DOMAIN proc[p].adds = AddedIn(proc[p].stage)
          /\ proc = [q \in Procs |-> proc[q]]
      BY <2>5 DEF Build, Inv, JobOK
    <3>2. Keeps(j, history[known]) /\ Log!Reflects(j.new, j.stage)
      BY <3>1, TreeKeeps
    <3>3. JobOK(j, history)
      BY <2>0, <3>1, <3>2 DEF JobOK, IsJob, TakesStage
    <3>4. proc'[p] = [proc[p] EXCEPT !.at = "cas", !.base = known,
                                     !.attempt = proc[p].attempt + 1,
                                     !.new = Tree(p, history[known])]
      BY <2>5, <3>1 DEF Build
    <3>5. proc'[p] = j
      BY <3>1, <3>4 DEF IsJob
    <3> HIDE DEF j
    <3>6. proc' = [proc EXCEPT ![p] = j] /\ UNCHANGED <<history, known>>
      BY <2>5, <3>1, <3>5 DEF Build
    <3> QED
      BY <2>0, <3>3, <3>6, OneMoves
  <2>6. ASSUME NEW p \in Procs, CasSucceeds(p) PROVE Inv'
    <3>1. /\ history' = Append(history, proc[p].new)
          /\ known' = Len(history')
      BY <2>6 DEF CasSucceeds
    <3>2. /\ history' \in Seq(Range(history'))
          /\ Len(history') >= 1
          /\ known' \in 1..Len(history')
      BY <3>1, Appended DEF Inv
    <3>3. PICK j : /\ proc' = [proc EXCEPT ![p] = j]
                   /\ j \in {Idle, Job("clear", "none", proc[p].stage, NoFiles,
                                       0, NoFiles)}
      BY <2>6 DEF CasSucceeds
    <3>4. JobOK(j, history')
      <4>2. CASE j = Idle
        BY <4>2, IdleOK
      <4>3. CASE j # Idle
        <5>1. IsJob(j) /\ j.at = "clear"
          BY <3>3, <4>3 DEF IsJob, Job
        <5> QED
          BY <5>1, NoPromise
      <4> QED
        BY <4>2, <4>3
    <3>5. \A q \in Procs : JobOK(proc[q], history')
      BY <3>1, JobStays DEF Inv
    <3>6. \A q \in Procs : JobOK(proc'[q], history')
      BY <3>3, <3>4, <3>5 DEF Inv
    <3>7. proc' = [q \in Procs |-> proc'[q]]
      BY <3>3 DEF Inv
    <3> QED
      BY <3>2, <3>6, <3>7 DEF Inv
  <2>7. ASSUME NEW p \in Procs, CasFails(p) PROVE Inv'
    <3>1. /\ UNCHANGED history
          /\ known' \in 1..Len(history)
          /\ IsJob(proc[p])
          /\ proc[p].at = "cas"
          /\ proc = [q \in Procs |-> proc[q]]
      BY <2>7 DEF CasFails, Inv, JobOK
    <3>2. CASE proc[p].op = "staged" /\ proc[p].attempt < StagedRetries
      <4> DEFINE j == [at |-> "build", op |-> proc[p].op, stage |-> proc[p].stage,
                       adds |-> proc[p].adds, base |-> proc[p].base,
                       new |-> proc[p].new, attempt |-> proc[p].attempt]
      <4>1. DOMAIN proc[p].adds = AddedIn(proc[p].stage)
        BY <3>1, <3>2 DEF Inv, JobOK, TakesStage
      <4>2. JobOK(j, history)
        BY <3>2, <4>1 DEF JobOK, IsJob, TakesStage
      <4>3. [proc[p] EXCEPT !.at = "build"] = j
        BY <3>1 DEF IsJob
      <4> HIDE DEF j
      <4>4. proc' = [proc EXCEPT ![p] = j]
        BY <2>7, <3>2, <4>3 DEF CasFails
      <4> QED
        BY <3>1, <4>2, <4>4, OneMoves
    <3>3. CASE ~(proc[p].op = "staged" /\ proc[p].attempt < StagedRetries)
      <4>1. proc' = [proc EXCEPT ![p] = Idle]
        BY <2>7, <3>3 DEF CasFails
      <4> QED
        BY <3>1, <4>1, IdleOK, OneMoves
    <3> QED
      BY <3>2, <3>3
  <2>8. CASE Peer
    <3>1. PICK f : history' = Append(history, f)
      BY <2>8 DEF Peer
    <3>2. UNCHANGED <<known, proc>>
      BY <2>8 DEF Peer
    <3>3. /\ history' \in Seq(Range(history'))
          /\ Len(history') >= 1
          /\ known' \in 1..Len(history')
      BY <2>0, <3>1, <3>2, Appended DEF Inv
    <3>4. \A q \in Procs : JobOK(proc[q], history')
      BY <3>1, JobStays DEF Inv
    <3> QED
      BY <3>2, <3>3, <3>4 DEF Inv
  <2>9. CASE Edit \/ RestoreFiles \/ UNCHANGED vars
    BY <2>9 DEF Edit, RestoreFiles, vars, Inv
  <2> QED
    BY <2>1, <2>2, <2>3, <2>4, <2>5, <2>6, <2>7, <2>8, <2>9, <2>10 DEF Next
<1> QED
  BY <1>1, <1>2, PTL DEF Spec

(* The changes of a commit are those it names, for any number of           *)
(* processes, peers, retries and crashes.                                  *)
THEOREM NamedPathsOnly == Spec => OnlyNamedPathsChange
<1>1. ASSUME Inv, [Next]_vars,
             NEW p \in Procs, proc[p].at = "cas", proc'[p] # proc[p],
             history' # history,
             NEW q \in DOMAIN BranchFiles \cup DOMAIN BranchFiles'
      PROVE  \/ MayChange(proc[p], BranchFiles, q)
             \/ At(BranchFiles', q) = At(BranchFiles, q)
  <2>1. CasSucceeds(p)
    <3>1. proc = [r \in Procs |-> proc[r]]
      BY <1>1 DEF Inv
    <3>2. ASSUME NEW r \in Procs, r # p, CasSucceeds(r) PROVE FALSE
      BY <1>1, <3>1, <3>2 DEF CasSucceeds
    <3>3. ASSUME NEW r \in Procs,
                 \/ Add(r) \/ Rm(r) \/ MoveStaged(r) \/ Save(r)
                 \/ Commit(r) \/ ImportS3(r) \/ Verify(r) \/ Build(r)
                 \/ CasFails(r) \/ Clear(r) \/ Crash(r)
          PROVE  FALSE
      BY <1>1, <3>3 DEF Add, Rm, MoveStaged, GoSave, Save, Commit, ImportS3,
                        Verify, Build, CasFails, Clear, Crash
    <3>4. CASE Peer \/ Edit \/ RestoreFiles \/ UNCHANGED vars
      BY <1>1, <3>4 DEF Peer, Edit, RestoreFiles, vars
    <3> QED
      BY <1>1, <3>2, <3>3, <3>4 DEF Next
  <2>2. /\ history' = Append(history, proc[p].new)
        /\ proc[p].base = Len(history)
        /\ Keeps(proc[p], history[proc[p].base])
    BY <1>1, <2>1 DEF CasSucceeds, Inv, JobOK
  <2>3. BranchFiles' = proc[p].new /\ BranchFiles = history[proc[p].base]
    BY <1>1, <2>2, Appended DEF BranchFiles, Inv
  <2> QED
    BY <1>1, <2>2, <2>3 DEF Keeps
<1>2. Inv /\ [Next]_vars =>
        [\A p \in Procs :
            proc[p].at = "cas" /\ proc'[p] # proc[p] /\ history' # history =>
            \A q \in DOMAIN BranchFiles \cup DOMAIN BranchFiles' :
                \/ MayChange(proc[p], BranchFiles, q)
                \/ At(BranchFiles', q) = At(BranchFiles, q)]_vars
  BY <1>1
<1> QED
  BY <1>2, Invariance, PTL DEF Spec, OnlyNamedPathsChange

-----------------------------------------------------------------------------
(* What one process alone may rely on: nobody else changes the stage.      *)
AloneOK(j, s) ==
    /\ j.at = "save" => DOMAIN s \subseteq DOMAIN j.stage
    /\ j.at \in {"build", "clear"} => j.stage = s
    /\ j.at = "cas" /\ TakesStage(j) => j.stage = s

Alone == \A p \in Procs : AloneOK(proc[p], stage)

Published == \E p \in Procs : proc[p].at = "clear" /\ proc[p].stage = stage

LEMMA SavesGrow ==
    ASSUME NEW p \in Procs, Add(p) \/ Rm(p) \/ MoveStaged(p)
    PROVE  \E s : GoSave(p, s) /\ DOMAIN stage \subseteq DOMAIN s
<1>1. CASE Add(p)
  <2>1. PICK a \in Added :
          GoSave(p, WithAdditions(stage, Expanded(a[1], a[2]), a[3]))
    BY <1>1 DEF Add
  <2> QED
    BY <2>1 DEF WithAdditions, Over
<1>2. CASE Rm(p)
  <2>1. PICK n \in RemovedNames : GoSave(p, WithRemoval(stage, n))
    BY <1>2 DEF Rm
  <2> QED
    BY <2>1 DEF WithRemoval, Over
<1>3. CASE MoveStaged(p)
  <2>1. PICK m \in Moves : GoSave(p, WithMove(stage, BranchFiles, m[1], m[2]))
    BY <1>3 DEF MoveStaged
  <2>2. DOMAIN stage \subseteq DOMAIN WithMove(stage, BranchFiles, m[1], m[2])
    BY DEF WithMove, Over
  <2> QED
    BY <2>1, <2>2
<1> QED
  BY <1>1, <1>2, <1>3

(* Each step of the only process is a step of the log, or none.            *)
LEMMA AloneStep ==
    ASSUME \A p, q \in Procs : p = q, Inv, Alone, [Next]_vars
    PROVE  Alone' /\ [Log!Next]_(Log!vars)
<1> DEFINE quiet == UNCHANGED BranchFiles /\ UNCHANGED stage /\ (Published' <=> Published)
<1>0. quiet => [Log!Next]_(Log!vars)
  BY DEF Log!vars, Published
<1>1. proc = [p \in Procs |-> proc[p]] /\ \A p \in Procs : IsJob(proc[p])
  BY DEF Inv, JobOK
<1>2. ASSUME NEW p \in Procs
      PROVE  /\ Published <=> proc[p].at = "clear" /\ proc[p].stage = stage
             /\ Published' <=> proc'[p].at = "clear" /\ proc'[p].stage = stage'
             /\ Alone <=> AloneOK(proc[p], stage)
             /\ Alone' <=> AloneOK(proc'[p], stage')
  BY <1>2 DEF Published, Alone
<1>3. ASSUME NEW p \in Procs, Add(p) \/ Rm(p) \/ MoveStaged(p)
      PROVE  Alone' /\ quiet
  <2>1. PICK s : GoSave(p, s) /\ DOMAIN stage \subseteq DOMAIN s
    BY <1>3, SavesGrow
  <2>2. /\ proc'[p].at = "save" /\ proc'[p].stage = s
        /\ UNCHANGED <<history, stage>>
    BY <1>1, <2>1 DEF GoSave, Job
  <2>3. proc[p].at = "idle"
    BY <1>3 DEF Add, Rm, MoveStaged
  <2> QED
    BY <1>2, <2>1, <2>2, <2>3 DEF AloneOK, BranchFiles
<1>4. ASSUME NEW p \in Procs, Save(p)
      PROVE  Alone' /\ [Log!Next]_(Log!vars)
  <2>1. /\ proc[p].at = "save" /\ stage' = proc[p].stage
        /\ proc'[p].at = "idle" /\ UNCHANGED history
    BY <1>1, <1>4 DEF Save, Idle, Job
  <2>2. /\ DOMAIN stage \subseteq DOMAIN stage'
        /\ ~Published /\ ~Published' /\ UNCHANGED BranchFiles /\ Alone'
    BY <1>2, <2>1 DEF AloneOK, BranchFiles
  <2>3. CASE stage' = stage
    BY <1>0, <2>2, <2>3
  <2>4. CASE stage' # stage
    BY <2>2, <2>4 DEF Log!Next, Log!Stage, Published
  <2> QED
    BY <2>2, <2>3, <2>4
<1>5. ASSUME NEW p \in Procs, Commit(p) \/ ImportS3(p) \/ Verify(p)
      PROVE  Alone' /\ quiet
  <2>1. proc[p].at = "idle" /\ UNCHANGED <<history, stage>>
    BY <1>5 DEF Commit, ImportS3, Verify
  <2>2. \/ proc'[p].at = "build" /\ proc'[p].stage = stage
        \/ proc'[p].at = "cas" /\ ~TakesStage(proc'[p])
    <3>1. CASE Commit(p)
      BY <1>1, <3>1 DEF Commit, Job
    <3>2. CASE ImportS3(p)
      <4>1. proc'[p].at = "cas" /\ proc'[p].op = "import"
        BY <1>1, <3>2 DEF ImportS3, Job
      <4> QED
        BY <4>1 DEF TakesStage
    <3>3. CASE Verify(p)
      <4>1. proc'[p].at = "cas" /\ proc'[p].op = "verify"
        BY <1>1, <3>3 DEF Verify, Job
      <4> QED
        BY <4>1 DEF TakesStage
    <3> QED
      BY <1>5, <3>1, <3>2, <3>3
  <2> QED
    BY <1>2, <2>1, <2>2 DEF AloneOK, BranchFiles
<1>6. ASSUME NEW p \in Procs, Build(p)
      PROVE  Alone' /\ quiet
  <2>1. /\ proc[p].at = "build" /\ proc'[p].at = "cas"
        /\ proc'[p].stage = proc[p].stage /\ UNCHANGED <<history, stage>>
    BY <1>1, <1>6 DEF Build, IsJob
  <2> QED
    BY <1>2, <2>1 DEF AloneOK, BranchFiles
<1>7. ASSUME NEW p \in Procs, CasSucceeds(p)
      PROVE  Alone' /\ [Log!Next]_(Log!vars)
  <2>1. proc[p].at = "cas" /\ UNCHANGED stage
    BY <1>7 DEF CasSucceeds
  <2>2. ~Published
    BY <1>2, <2>1
  <2>3. CASE ~TakesStage(proc[p])
    <3>1. proc'[p].at = "idle"
      BY <1>1, <1>7, <2>3 DEF CasSucceeds, Idle, Job
    <3>2. ~Published' /\ Alone'
      BY <1>2, <3>1 DEF AloneOK
    <3> QED
      BY <2>1, <2>2, <3>2 DEF Log!Next, Log!Elsewhere, Published
  <2>4. CASE TakesStage(proc[p])
    <3>1. proc'[p].at = "clear" /\ proc'[p].stage = proc[p].stage
      BY <1>1, <1>7, <2>4 DEF CasSucceeds, Job
    <3>2. proc[p].stage = stage
      BY <1>2, <2>1, <2>4 DEF AloneOK
    <3>3. Published' /\ Alone'
      BY <1>2, <2>1, <3>1, <3>2 DEF AloneOK
    <3>4. BranchFiles' = proc[p].new
      BY <1>7, Appended DEF CasSucceeds, BranchFiles, Inv
    <3>5. Log!Reflects(BranchFiles', stage)
      BY <2>1, <2>4, <3>2, <3>4 DEF Inv, JobOK
    <3> QED
      BY <2>1, <3>3, <3>5 DEF Log!Next, Log!Publish, Published
  <2> QED
    BY <2>3, <2>4
<1>8. ASSUME NEW p \in Procs, CasFails(p)
      PROVE  Alone' /\ quiet
  <2>1. proc[p].at = "cas" /\ UNCHANGED <<history, stage>>
    BY <1>8 DEF CasFails
  <2>2. \/ proc'[p].at = "idle"
        \/ /\ proc[p].op = "staged" /\ proc'[p].at = "build"
           /\ proc'[p].stage = proc[p].stage
    BY <1>1, <1>8 DEF CasFails, Idle, Job, IsJob
  <2> QED
    BY <1>2, <2>1, <2>2 DEF AloneOK, BranchFiles, TakesStage
<1>9. ASSUME NEW p \in Procs, Clear(p)
      PROVE  Alone' /\ [Log!Next]_(Log!vars)
  <2>1. /\ proc[p].at = "clear" /\ stage' = NoFiles
        /\ proc'[p].at = "idle" /\ UNCHANGED history
    BY <1>1, <1>9 DEF Clear, Idle, Job
  <2>2. Published /\ ~Published' /\ Alone' /\ UNCHANGED BranchFiles
    BY <1>2, <2>1 DEF AloneOK, BranchFiles
  <2>3. NoFiles = Log!NoFiles
    BY DEF NoFiles, Log!NoFiles
  <2> QED
    BY <2>1, <2>2, <2>3 DEF Log!Next, Log!Drop, Published
<1>10. ASSUME NEW p \in Procs, Crash(p)
       PROVE  Alone' /\ [Log!Next]_(Log!vars)
  <2>1. proc'[p].at = "idle" /\ UNCHANGED <<history, stage>>
    BY <1>1, <1>10 DEF Crash, Idle, Job
  <2>2. ~Published' /\ Alone' /\ UNCHANGED BranchFiles
    BY <1>2, <2>1 DEF AloneOK, BranchFiles
  <2> QED
    BY <2>1, <2>2 DEF Log!Next, Log!Forget, Published
<1>11. CASE Peer
  <2>1. UNCHANGED <<stage, proc>>
    BY <1>11 DEF Peer
  <2>2. (Published' <=> Published) /\ Alone'
    BY <2>1 DEF Published, Alone
  <2> QED
    BY <2>1, <2>2 DEF Log!Next, Log!Elsewhere, Published
<1>12. CASE Edit \/ RestoreFiles \/ UNCHANGED vars
  <2>1. UNCHANGED <<history, stage, proc>>
    BY <1>12 DEF Edit, RestoreFiles, vars
  <2> QED
    BY <1>0, <2>1 DEF Published, Alone, BranchFiles
<1> QED
  BY <1>0, <1>3, <1>4, <1>5, <1>6, <1>7, <1>8, <1>9, <1>10, <1>11, <1>12 DEF Next

(* One process: a staged change leaves the stage only after a commit that  *)
(* has it was published, through refusals, retries and crashes.            *)
THEOREM AtLeastOnce ==
    ASSUME \A p, q \in Procs : p = q
    PROVE  Spec => StagedAtLeastOnce
<1>1. Init => Alone /\ Log!Init
  <2> SUFFICES ASSUME Init PROVE Alone /\ Log!Init
    OBVIOUS
  <2>1. stage = NoFiles /\ \A p \in Procs : proc[p].at = "idle"
    BY DEF Init, Idle, Job
  <2>2. BranchFiles = NoFiles
    BY DEF Init, BranchFiles
  <2>3. NoFiles = Log!NoFiles
    BY DEF NoFiles, Log!NoFiles
  <2> QED
    BY <2>1, <2>2, <2>3 DEF Log!Init, Alone, AloneOK
<1>2. Inv /\ Alone /\ [Next]_vars => Alone' /\ [Log!Next]_(Log!vars)
  BY AloneStep
<1> QED
  BY <1>1, <1>2, Invariance, PTL DEF Spec, StagedAtLeastOnce, Log!Spec

-----------------------------------------------------------------------------
(* Types: entries and changes are made of what the inputs are made of.     *)

LEMMA EntryMade ==
    ASSUME NEW m \in {"blake3", "meta"}, NEW c \in Contents, NEW q \in Place
    PROVE  EntryOf(m, c, q) \in Entry
BY DEF Entry

LEMMA EntryParts ==
    ASSUME NEW e \in Entry
    PROVE  /\ e.mode \in {"blake3", "meta"} /\ e.hash \in Contents
           /\ e.from \in Place \cup {Nowhere}
<1>1. PICK m \in {"blake3", "meta"}, c \in Contents, q \in Place : e = EntryOf(m, c, q)
  BY DEF Entry
<1> QED
  BY <1>1 DEF EntryOf

LEMMA ChangeParts ==
    ASSUME NEW c \in Change
    PROVE  /\ IsAddition(c) <=> ~IsRemoval(c)
           /\ IsAddition(c) =>
                c.mode \in {"blake3", "meta"} /\ c.from \in Place \cup {Nowhere}
                /\ c.blob \in Contents \cup {Nowhere}
<1>1. CASE c = Removal
  BY <1>1 DEF Removal, IsAddition, IsRemoval
<1>2. ASSUME NEW m \in {"blake3", "meta"}, NEW q \in Place \cup {Nowhere},
             NEW b \in Contents \cup {Nowhere}, c = Addition(m, q, b)
      PROVE  IsAddition(c) /\ ~IsRemoval(c) /\ c.mode = m /\ c.from = q /\ c.blob = b
  BY <1>2 DEF Addition, IsAddition, IsRemoval
<1> QED
  BY <1>1, <1>2 DEF Change

LEMMA NoFilesTyped == AreEntries(NoFiles) /\ AreChanges(NoFiles)
BY DEF AreEntries, AreChanges, NoFiles, AddedIn

LEMMA OverEntries ==
    ASSUME NEW f, NEW g, AreEntries(f), AreEntries(g)
    PROVE  AreEntries(Over(g, f))
BY DEF AreEntries, Over

LEMMA WithoutEntries ==
    ASSUME NEW f, AreEntries(f), NEW removed
    PROVE  AreEntries(Without(f, removed))
BY DEF AreEntries, Without

LEMMA StagedEntries ==
    ASSUME NEW f, NEW adds, NEW removed, AreEntries(f), AreEntries(adds)
    PROVE  AreEntries(Staged(f, adds, removed))
BY OverEntries, WithoutEntries DEF Staged

LEMMA OverChanges ==
    ASSUME NEW s, NEW t, AreChanges(s), AreChanges(t)
    PROVE  AreChanges(Over(t, s))
<1>1. /\ DOMAIN Over(t, s) = DOMAIN t \cup DOMAIN s
      /\ \A n \in DOMAIN Over(t, s) :
            Over(t, s)[n] = IF n \in DOMAIN t THEN t[n] ELSE s[n]
  BY DEF Over
<1>2. AddedIn(Over(t, s)) \subseteq AddedIn(t) \cup AddedIn(s)
  BY <1>1 DEF AddedIn
<1>3. \A n \in DOMAIN Over(t, s) : Over(t, s)[n] \in Change
  BY <1>1 DEF AreChanges
<1> QED
  BY <1>1, <1>2, <1>3 DEF AreChanges

FilesOK == DOMAIN files \subseteq Place /\ \A q \in DOMAIN files : files[q] \in Contents

(* What a full commit takes from the working tree.                         *)
LEMMA WorktreeEntries ==
    ASSUME NEW f, AreEntries(f), FilesOK
    PROVE  AreEntries(Worktree(f))
<1>1. WorkingFiles \subseteq Paths
  BY DEF FilesOK, WorkingFiles, Place
<1>2. ASSUME NEW q \in WorkingFiles PROVE WorktreeEntry(f, q) \in Entry
  <2>1. EntryOf(Identity, files[q], q) \in Entry
    BY <1>2, ModesAssumption, EntryMade DEF FilesOK, WorkingFiles
  <2> QED
    BY <2>1 DEF WorktreeEntry, AreEntries
<1> QED
  BY <1>1, <1>2 DEF AreEntries, Worktree

LEMMA AttemptEntries ==
    ASSUME NEW p, NEW f, AreEntries(f), FilesOK, AreEntries(proc[p].adds)
    PROVE  AreEntries(Tree(p, f))
<1>1. AreEntries(Staged(f, proc[p].adds, RemovedIn(proc[p].stage)))
  BY StagedEntries
<1>2. AreEntries(FullCommit(f, Worktree(f), proc[p].adds, RemovedIn(proc[p].stage)))
  <2>1. AreEntries(Without(Worktree(f), RemovedIn(proc[p].stage)))
    BY WorktreeEntries, WithoutEntries
  <2> QED
    BY <1>1, <2>1, OverEntries DEF FullCommit
<1> QED
  BY <1>1, <1>2 DEF Tree

(* The additions of a stage that can be read are entries.                  *)
LEMMA AdditionEntries ==
    ASSUME NEW s, AreChanges(s), CanMaterialise(s), FilesOK
    PROVE  AreEntries(Additions(s))
<1>1. ASSUME NEW n \in AddedIn(s)
      PROVE  n \in Paths /\ Additions(s)[n] \in Entry
  <2>1. n \in Paths /\ s[n] \in Change /\ IsAddition(s[n])
    BY <1>1 DEF AreChanges, AddedIn
  <2> DEFINE c == s[n]
  <2>2. c.mode \in {"blake3", "meta"} /\ c.blob \in Contents \cup {Nowhere}
    BY <2>1, ChangeParts
  <2> HIDE DEF c
  <2>3. EntriesFor(c, n, c.mode) \subseteq Entry
    <3>1. CASE c.from # Nowhere
      BY <2>2, <3>1, EntryMade DEF EntriesFor, FilesOK
    <3>2. CASE c.from = Nowhere /\ n \in WorkingFiles
      BY <2>2, <3>2, EntryMade DEF EntriesFor, FilesOK, WorkingFiles
    <3>3. CASE c.from = Nowhere /\ n \notin WorkingFiles
      BY <2>1, <2>2, <3>3, EntryMade DEF EntriesFor, Place
    <3> QED
      BY <3>1, <3>2, <3>3
  <2>4. Materialised(s, n) \subseteq Entry /\ Materialised(s, n) # {}
    BY <1>1, <2>3 DEF Materialised, CanMaterialise, c
  <2>5. Additions(s)[n] \in Materialised(s, n)
    BY <1>1, <2>4 DEF Additions
  <2> QED
    BY <2>1, <2>4, <2>5
<1>2. DOMAIN Additions(s) = AddedIn(s)
  BY DEF Additions
<1> QED
  BY <1>1, <1>2 DEF AreEntries

(* What add, rm and a staged move stage.                                   *)
LEMMA AddedChanges ==
    ASSUME NEW s, AreChanges(s), NEW x, DOMAIN x \subseteq Paths,
           \A n \in DOMAIN x : x[n] \in Place, NEW m \in {"blake3", "meta"}
    PROVE  AreChanges(WithAdditions(s, x, m))
<1> DEFINE t == [n \in DOMAIN x |-> Addition(m, x[n], Nowhere)]
<1>1. \A n \in DOMAIN t : t[n] \in Change
  BY DEF Change
<1>2. AreChanges(t)
  BY <1>1 DEF AreChanges, AddedIn
<1> QED
  BY <1>2, OverChanges DEF WithAdditions

LEMMA RemovedChanges ==
    ASSUME NEW s, AreChanges(s), NEW name \in RemovedNames
    PROVE  AreChanges(WithRemoval(s, name))
<1> DEFINE t == [n \in {name} |-> Removal]
<1>1. AreChanges(t)
  BY DEF AreChanges, AddedIn, Change, Removal, IsAddition
<1> QED
  BY <1>1, OverChanges DEF WithRemoval

LEMMA MovedChanges ==
    ASSUME NEW s, AreChanges(s), NEW f, AreEntries(f), NEW source, NEW destination,
           {MovedPath(q, source, destination) : q \in Moving(f, source)} \subseteq Paths
    PROVE  AreChanges(WithMove(s, f, source, destination))
<1> DEFINE moving  == Moving(f, source)
           to(q)   == MovedPath(q, source, destination)
           kept(n) == {q \in moving : to(q) = n /\ (n \in moving => <<n, q>> \in Earlier)}
           moved(e) == Addition(e.mode, e.from,
                                IF e.mode = "blake3" THEN e.hash ELSE Nowhere)
           change(n) == IF kept(n) = {} THEN Removal
                        ELSE moved(f[CHOOSE q \in kept(n) : TRUE])
           t == [n \in moving \cup {to(q) : q \in moving} |-> change(n)]
<1>1. moving \subseteq DOMAIN f /\ moving \subseteq Paths
  BY DEF Moving, AreEntries
<1>2. ASSUME NEW e \in Entry PROVE moved(e) \in Change
  BY EntryParts DEF Change
<1>3. ASSUME NEW n PROVE change(n) \in Change
  <2>1. CASE kept(n) = {}
    BY <2>1 DEF Change
  <2>2. CASE kept(n) # {}
    <3>1. PICK q \in kept(n) : change(n) = moved(f[q])
      BY <2>2
    <3>2. f[q] \in Entry
      BY <1>1 DEF AreEntries
    <3> QED
      BY <1>2, <3>1, <3>2
  <2> QED
    BY <2>1, <2>2
<1>4. DOMAIN t \subseteq Paths
  BY <1>1
<1>5. \A n \in DOMAIN t : t[n] \in Change
  BY <1>3
<1>6. AreChanges(t)
  BY <1>4, <1>5 DEF AreChanges, AddedIn
<1> QED
  BY <1>6, OverChanges DEF WithMove

(* Where the files are that a source expands to.                           *)
LEMMA ExpandedPlaces ==
    ASSUME FilesOK, NEW source, NEW destination
    PROVE  \A n \in DOMAIN Expanded(source, destination) :
              Expanded(source, destination)[n] \in Place
BY DEF Expanded, SourceFiles, FilesOK

LEMMA ImportedEntries ==
    ASSUME FilesOK, NEW source, NEW m \in {"blake3", "meta"},
           NEW kept \in SUBSET SourceFiles(source),
           DOMAIN Imported(source, kept, m) \subseteq Paths
    PROVE  AreEntries(Imported(source, kept, m))
<1> DEFINE to(q) == IF q = source THEN <<Last(q)>> ELSE SubSeq(q, Len(source) + 1, Len(q))
           at(n) == CHOOSE r \in kept : to(r) = n
<1>1. ASSUME NEW n \in DOMAIN Imported(source, kept, m)
      PROVE  Imported(source, kept, m)[n] \in Entry
  <2>1. Imported(source, kept, m)[n] = EntryOf(m, files[at(n)], at(n))
    BY <1>1 DEF Imported
  <2>2. at(n) \in kept
    BY <1>1 DEF Imported
  <2>3. at(n) \in Place /\ files[at(n)] \in Contents
    BY <2>2 DEF SourceFiles, FilesOK
  <2> QED
    BY <2>1, <2>3, EntryMade
<1> QED
  BY <1>1 DEF AreEntries

LEMMA VerifiedEntries ==
    ASSUME FilesOK, NEW f, AreEntries(f), NEW prefix,
           \A q \in Pointers(f, prefix) : f[q].from \in DOMAIN files
    PROVE  AreEntries([q \in Pointers(f, prefix) |->
                          EntryOf("blake3", files[f[q].from], q)])
<1>1. Pointers(f, prefix) \subseteq Paths
  BY DEF Pointers, AreEntries
<1>2. \A q \in Pointers(f, prefix) : EntryOf("blake3", files[f[q].from], q) \in Entry
  BY <1>1, EntryMade DEF FilesOK, Place
<1> QED
  BY <1>1, <1>2 DEF AreEntries

(* A restore writes what the entries hold.                                 *)
LEMMA RestoredContents ==
    ASSUME FilesOK, NEW e \in Entry
    PROVE  ContentOf(e) \subseteq Contents
BY EntryParts DEF ContentOf, FilesOK

JobTyped(j, n) ==
    /\ j.at \in {"idle", "save", "build", "cas", "clear"}
    /\ j.op \in {"none", "staged", "full", "import", "verify"}
    /\ AreChanges(j.stage)
    /\ AreEntries(j.adds) /\ AreEntries(j.new)
    /\ j.base \in 0..n
    /\ j.attempt \in 0..StagedRetries
    /\ j.at = "build" => j.attempt < StagedRetries

LEMMA JobMade ==
    ASSUME NEW n \in Nat,
           NEW at \in {"idle", "save", "build", "cas", "clear"},
           NEW op \in {"none", "staged", "full", "import", "verify"},
           NEW s, AreChanges(s), NEW adds, AreEntries(adds), NEW new, AreEntries(new),
           NEW base \in 0..n
    PROVE  JobTyped(Job(at, op, s, adds, base, new), n)
BY RetriesAssumption DEF JobTyped, Job

(* The other processes keep their types when one moves.                    *)
LEMMA JobsTyped ==
    ASSUME Inv, TypeOK, NEW p \in Procs, NEW j,
           proc' = [proc EXCEPT ![p] = j], NEW n \in Nat, n >= Len(history), JobTyped(j, n)
    PROVE  \A q \in Procs : JobTyped(proc'[q], n)
<1>1. ASSUME NEW q \in Procs PROVE JobTyped(proc[q], n)
  BY DEF TypeOK, JobTyped, Inv
<1> QED
  BY <1>1 DEF Inv

LEMMA TypedHistory ==
    ASSUME Inv, TypeOK, NEW f, AreEntries(f), history' = Append(history, f)
    PROVE  /\ \A i \in DOMAIN history' : AreEntries(history'[i])
           /\ Len(history') = Len(history) + 1
           /\ DOMAIN history' = 1..Len(history')
<1>1. /\ history \in Seq(Range(history)) /\ history' \in Seq(Range(history'))
      /\ Len(history') = Len(history) + 1 /\ history'[Len(history) + 1] = f
      /\ \A i \in 1..Len(history) : history'[i] = history[i]
  BY Appended DEF Inv
<1>2. DOMAIN history' = 1..Len(history') /\ DOMAIN history = 1..Len(history)
  BY <1>1
<1>3. ASSUME NEW i \in DOMAIN history' PROVE AreEntries(history'[i])
  <2>1. CASE i \in 1..Len(history)
    BY <1>1, <1>2, <2>1 DEF TypeOK
  <2>2. CASE i = Len(history) + 1
    BY <1>1, <2>2
  <2> QED
    BY <1>1, <1>2, <2>1, <2>2
<1> QED
  BY <1>1, <1>2, <1>3

(* What remains to show of a step that leaves the history.                 *)
LEMMA TypesStay ==
    ASSUME Inv, TypeOK, UNCHANGED history,
           known' \in 1..Len(history), AreChanges(stage'), FilesOK',
           \A q \in Procs : JobTyped(proc'[q], Len(history))
    PROVE  TypeOK'
<1>1. DOMAIN history = 1..Len(history) /\ history' = history
  BY DEF Inv
<1>2. /\ \A i \in DOMAIN history' : AreEntries(history'[i])
      /\ known' \in DOMAIN history'
  BY <1>1 DEF TypeOK
<1>3. \A q \in Procs : JobTyped(proc'[q], Len(history'))
  BY <1>1
<1> QED
  BY <1>2, <1>3 DEF TypeOK, FilesOK, JobTyped

(* A command loads, builds or gives up: one process moves.                 *)
LEMMA OneTyped ==
    ASSUME Inv, TypeOK, NEW p \in Procs, NEW j, JobTyped(j, Len(history)),
           proc' = [proc EXCEPT ![p] = j], UNCHANGED <<history, files>>,
           known' \in 1..Len(history), AreChanges(stage')
    PROVE  TypeOK'
<1>1. Len(history) \in Nat /\ Len(history) >= Len(history)
  BY DEF Inv
<1>2. \A q \in Procs : JobTyped(proc'[q], Len(history))
  BY <1>1, JobsTyped
<1>3. FilesOK'
  BY DEF TypeOK, FilesOK
<1> QED
  BY <1>2, <1>3, TypesStay

LEMMA TypeStep ==
    ASSUME Inv, TypeOK, [Next]_vars
    PROVE  TypeOK'
<1>0. /\ known \in 1..Len(history) /\ Len(history) \in Nat /\ Len(history) >= 1
      /\ DOMAIN history = 1..Len(history)
      /\ FilesOK /\ AreChanges(stage)
      /\ AreEntries(BranchFiles) /\ AreEntries(history[known])
      /\ proc = [p \in Procs |-> proc[p]]
      /\ \A p \in Procs : IsJob(proc[p]) /\ JobTyped(proc[p], Len(history))
  BY DEF Inv, TypeOK, FilesOK, BranchFiles, JobOK, JobTyped
<1>m. Modes \subseteq {"blake3", "meta"}
  BY ModesAssumption
<1>i. JobTyped(Idle, Len(history))
  BY <1>0, NoFilesTyped, JobMade DEF Idle
<1>1. ASSUME NEW p \in Procs, NEW s, AreChanges(s), GoSave(p, s) PROVE TypeOK'
  <2> DEFINE j == Job("save", "none", s, NoFiles, 0, NoFiles)
  <2>1. JobTyped(j, Len(history))
    BY <1>0, <1>1, NoFilesTyped, JobMade
  <2> HIDE DEF j
  <2>2. proc' = [proc EXCEPT ![p] = j] /\ UNCHANGED <<history, known, stage, files>>
    BY <1>1 DEF GoSave, j
  <2> QED
    BY <1>0, <2>1, <2>2, OneTyped
<1>2. ASSUME NEW p \in Procs, Add(p) PROVE TypeOK'
  <2>1. PICK a \in Added :
          /\ DOMAIN Expanded(a[1], a[2]) \subseteq Paths
          /\ GoSave(p, WithAdditions(stage, Expanded(a[1], a[2]), a[3]))
    BY <1>2 DEF Add
  <2>2. a[3] \in {"blake3", "meta"}
    BY <1>m, InputsAssumption
  <2>3. AreChanges(WithAdditions(stage, Expanded(a[1], a[2]), a[3]))
    BY <1>0, <2>1, <2>2, ExpandedPlaces, AddedChanges
  <2> QED
    BY <1>1, <2>1, <2>3
<1>3. ASSUME NEW p \in Procs, Rm(p) PROVE TypeOK'
  BY <1>0, <1>1, <1>3, RemovedChanges DEF Rm
<1>4. ASSUME NEW p \in Procs, MoveStaged(p) PROVE TypeOK'
  BY <1>0, <1>1, <1>4, MovedChanges DEF MoveStaged
<1>5. ASSUME NEW p \in Procs, Save(p) PROVE TypeOK'
  <2>1. AreChanges(stage')
    BY <1>0, <1>5 DEF Save, JobTyped
  <2>2. proc' = [proc EXCEPT ![p] = Idle] /\ UNCHANGED <<history, known, files>>
    BY <1>5 DEF Save
  <2> QED
    BY <1>0, <1>i, <2>1, <2>2, OneTyped
<1>6. ASSUME NEW p \in Procs, Clear(p) \/ Crash(p) PROVE TypeOK'
  <2>1. AreChanges(stage')
    BY <1>0, <1>6, NoFilesTyped DEF Clear, Crash
  <2>2. proc' = [proc EXCEPT ![p] = Idle] /\ UNCHANGED <<history, known, files>>
    BY <1>6 DEF Clear, Crash
  <2> QED
    BY <1>0, <1>i, <2>1, <2>2, OneTyped
<1>7. ASSUME NEW p \in Procs, Commit(p) PROVE TypeOK'
  <2>1. PICK op \in {"staged", "full"} :
          proc' = [proc EXCEPT ![p] =
                      Job("build", op, stage, Additions(stage), 0, NoFiles)]
    BY <1>7 DEF Commit
  <2> DEFINE j == Job("build", op, stage, Additions(stage), 0, NoFiles)
  <2>2. AreEntries(Additions(stage))
    BY <1>0, <1>7, AdditionEntries DEF Commit
  <2>3. JobTyped(j, Len(history))
    BY <1>0, <2>2, NoFilesTyped, JobMade
  <2> HIDE DEF j
  <2>4. proc' = [proc EXCEPT ![p] = j] /\ UNCHANGED <<history, known, stage, files>>
    BY <1>7, <2>1 DEF Commit, j
  <2> QED
    BY <1>0, <2>3, <2>4, OneTyped
<1>8. ASSUME NEW p \in Procs, ImportS3(p) PROVE TypeOK'
  <2>0. PICK a \in Added : \E kept \in SUBSET (SourceFiles(a[1]) \cap Outside) :
          LET adds == Imported(a[1], kept, a[3])
          IN  /\ DOMAIN adds \subseteq Paths
              /\ proc' = [proc EXCEPT ![p] =
                      Job("cas", "import", NoFiles, adds, known,
                          Over(adds, history[known]))]
    BY <1>8 DEF ImportS3
  <2>1. PICK kept \in SUBSET (SourceFiles(a[1]) \cap Outside) :
          LET adds == Imported(a[1], kept, a[3])
          IN  /\ DOMAIN adds \subseteq Paths
              /\ proc' = [proc EXCEPT ![p] =
                      Job("cas", "import", NoFiles, adds, known,
                          Over(adds, history[known]))]
    BY <2>0
  <2> DEFINE adds == Imported(a[1], kept, a[3])
             new  == Over(adds, history[known])
             j    == Job("cas", "import", NoFiles, adds, known, new)
  <2>2. AreEntries(adds)
    <3>1. a[3] \in {"blake3", "meta"}
      BY <1>m, InputsAssumption
    <3> QED
      BY <1>0, <2>1, <3>1, ImportedEntries
  <2>3. proc' = [proc EXCEPT ![p] = j] /\ UNCHANGED <<history, known, stage, files>>
    BY <1>8, <2>1 DEF ImportS3
  <2> HIDE DEF adds
  <2>4. AreEntries(new)
    BY <1>0, <2>2, OverEntries
  <2> HIDE DEF new
  <2>5. JobTyped(j, Len(history))
    BY <1>0, <2>2, <2>4, NoFilesTyped, JobMade
  <2> HIDE DEF j
  <2> QED
    BY <1>0, <2>3, <2>5, OneTyped
<1>9. ASSUME NEW p \in Procs, Verify(p) PROVE TypeOK'
  <2>1. PICK prefix \in Verified :
          LET found == Pointers(BranchFiles, prefix)
              blobs == [q \in found |->
                           EntryOf("blake3", files[BranchFiles[q].from], q)]
          IN  /\ \A q \in found : BranchFiles[q].from \in DOMAIN files
              /\ proc' = [proc EXCEPT ![p] =
                            Job("cas", "verify", NoFiles, blobs, known,
                                Over(blobs, BranchFiles))]
    BY <1>9 DEF Verify
  <2> DEFINE blobs == [q \in Pointers(BranchFiles, prefix) |->
                          EntryOf("blake3", files[BranchFiles[q].from], q)]
             new == Over(blobs, BranchFiles)
             j   == Job("cas", "verify", NoFiles, blobs, known, new)
  <2>2. AreEntries(blobs)
    BY <1>0, <2>1, VerifiedEntries
  <2>3. proc' = [proc EXCEPT ![p] = j] /\ UNCHANGED <<history, known, stage, files>>
    BY <1>9, <2>1 DEF Verify
  <2> HIDE DEF blobs
  <2>4. AreEntries(new)
    BY <1>0, <2>2, OverEntries
  <2> HIDE DEF new
  <2>5. JobTyped(j, Len(history))
    BY <1>0, <2>2, <2>4, NoFilesTyped, JobMade
  <2> HIDE DEF j
  <2> QED
    BY <1>0, <2>3, <2>5, OneTyped
<1>10. ASSUME NEW p \in Procs, Build(p) PROVE TypeOK'
  <2> DEFINE new == Tree(p, history[known])
             j == [at |-> "cas", op |-> proc[p].op, stage |-> proc[p].stage,
                   adds |-> proc[p].adds, base |-> known, new |-> new,
                   attempt |-> proc[p].attempt + 1]
  <2>1. AreEntries(new)
    BY <1>0, AttemptEntries DEF JobTyped
  <2>2. proc'[p] = [proc[p] EXCEPT !.at = "cas", !.base = known,
                                   !.attempt = proc[p].attempt + 1, !.new = new]
    BY <1>0, <1>10 DEF Build
  <2> HIDE DEF new
  <2>3. proc'[p] = j
    BY <1>0, <2>2 DEF IsJob
  <2>4. proc[p].attempt + 1 \in 0..StagedRetries
    BY <1>0, <1>10, RetriesAssumption DEF Build, JobTyped
  <2>5. JobTyped(j, Len(history))
    BY <1>0, <2>1, <2>4 DEF JobTyped
  <2> HIDE DEF j
  <2>6. proc' = [proc EXCEPT ![p] = j] /\ UNCHANGED <<history, known, stage, files>>
    BY <1>0, <1>10, <2>3 DEF Build
  <2> QED
    BY <1>0, <2>5, <2>6, OneTyped
<1>11. ASSUME NEW p \in Procs, CasSucceeds(p) PROVE TypeOK'
  <2>1. /\ history' = Append(history, proc[p].new) /\ known' = Len(history')
        /\ UNCHANGED <<stage, files>>
    BY <1>11 DEF CasSucceeds
  <2>2. AreEntries(proc[p].new) /\ AreChanges(proc[p].stage)
    BY <1>0 DEF JobTyped
  <2>3. /\ \A i \in DOMAIN history' : AreEntries(history'[i])
        /\ Len(history') = Len(history) + 1 /\ DOMAIN history' = 1..Len(history')
    BY <2>1, <2>2, TypedHistory
  <2>4. PICK j : /\ proc' = [proc EXCEPT ![p] = j]
                 /\ j \in {Idle, Job("clear", "none", proc[p].stage, NoFiles, 0, NoFiles)}
    BY <1>11 DEF CasSucceeds
  <2>5. Len(history') \in Nat /\ Len(history') >= Len(history)
    BY <1>0, <2>3
  <2>6. JobTyped(j, Len(history'))
    <3>1. \A s : AreChanges(s) =>
            JobTyped(Job("clear", "none", s, NoFiles, 0, NoFiles), Len(history'))
      BY <2>5, NoFilesTyped, JobMade
    <3>2. JobTyped(Idle, Len(history'))
      BY <2>5, NoFilesTyped, JobMade DEF Idle
    <3> QED
      BY <2>2, <2>4, <3>1, <3>2
  <2>7. \A q \in Procs : JobTyped(proc'[q], Len(history'))
    BY <2>4, <2>5, <2>6, JobsTyped
  <2>8. known' \in DOMAIN history'
    BY <1>0, <2>1, <2>3
  <2> QED
    BY <1>0, <2>1, <2>3, <2>7, <2>8 DEF TypeOK, FilesOK, JobTyped
<1>12. ASSUME NEW p \in Procs, CasFails(p) PROVE TypeOK'
  <2>1. /\ known' \in 1..Len(history) /\ UNCHANGED <<history, stage, files>>
    BY <1>0, <1>12 DEF CasFails
  <2>2. PICK j : /\ proc' = [proc EXCEPT ![p] = j]
                 /\ \/ j = Idle
                    \/ /\ proc[p].attempt < StagedRetries
                       /\ j = [proc[p] EXCEPT !.at = "build"]
    BY <1>12 DEF CasFails
  <2>3. JobTyped(j, Len(history))
    <3>1. CASE j = Idle
      BY <1>i, <3>1
    <3>2. CASE j # Idle
      <4>1. /\ j.at = "build" /\ j.op = proc[p].op /\ j.stage = proc[p].stage
            /\ j.adds = proc[p].adds /\ j.base = proc[p].base /\ j.new = proc[p].new
            /\ j.attempt = proc[p].attempt /\ proc[p].attempt < StagedRetries
        BY <1>0, <2>2, <3>2 DEF IsJob
      <4> QED
        BY <1>0, <4>1 DEF JobTyped
    <3> QED
      BY <3>1, <3>2
  <2> QED
    BY <1>0, <2>1, <2>2, <2>3, OneTyped
<1>13. CASE Peer
  <2>1. PICK c \in PeerCommits : history' = Append(history, Staged(BranchFiles, c[1], c[2]))
    BY <1>13 DEF Peer
  <2>2. UNCHANGED <<known, stage, files, proc>>
    BY <1>13 DEF Peer
  <2>3. AreEntries(Staged(BranchFiles, c[1], c[2]))
    BY <1>0, InputsAssumption, StagedEntries
  <2>4. /\ \A i \in DOMAIN history' : AreEntries(history'[i])
        /\ Len(history') = Len(history) + 1 /\ DOMAIN history' = 1..Len(history')
    BY <2>1, <2>3, TypedHistory
  <2>5. known' \in DOMAIN history'
    BY <1>0, <2>2, <2>4
  <2>6. \A q \in Procs : JobTyped(proc'[q], Len(history'))
    BY <1>0, <2>2, <2>4 DEF JobTyped
  <2> QED
    BY <1>0, <2>2, <2>4, <2>5, <2>6 DEF TypeOK, FilesOK, JobTyped
<1>14. CASE Edit
  <2>1. PICK e \in Edits : \/ files' = Over([q \in {e[1]} |-> e[2]], files)
                           \/ files' = Without(files, {e[1]})
    BY <1>14 DEF Edit
  <2>2. UNCHANGED <<history, known, stage, proc>>
    BY <1>14 DEF Edit
  <2>3. FilesOK'
    <3>1. CASE files' = Over([q \in {e[1]} |-> e[2]], files)
      BY <1>0, <3>1, InputsAssumption DEF FilesOK, Over
    <3>2. CASE files' = Without(files, {e[1]})
      BY <1>0, <3>2 DEF FilesOK, Without
    <3> QED
      BY <2>1, <3>1, <3>2
  <2> QED
    BY <1>0, <2>2, <2>3, TypesStay
<1>15. CASE RestoreFiles
  <2>1. PICK f \in Range(history), asked \in Restored, force \in BOOLEAN :
          LET written == {q \in asked \cap DOMAIN f :
                             ContentOf(f[q]) # {} /\ (force \/ q \notin WorkingFiles)}
          IN  files' = Over([q \in written |-> CHOOSE c \in ContentOf(f[q]) : TRUE], files)
    BY <1>15 DEF RestoreFiles
  <2>2. UNCHANGED <<history, known, stage, proc>>
    BY <1>15 DEF RestoreFiles
  <2> DEFINE written == {q \in asked \cap DOMAIN f :
                            ContentOf(f[q]) # {} /\ (force \/ q \notin WorkingFiles)}
             content == [q \in written |-> CHOOSE c \in ContentOf(f[q]) : TRUE]
  <2>3. AreEntries(f)
    BY <2>1 DEF TypeOK, Range
  <2>4. ASSUME NEW q \in written PROVE q \in Place /\ content[q] \in Contents
    <3>1. q \in Paths /\ f[q] \in Entry /\ ContentOf(f[q]) # {}
      BY <2>3 DEF AreEntries
    <3>2. content[q] \in ContentOf(f[q])
      BY <3>1
    <3> QED
      BY <1>0, <3>1, <3>2, RestoredContents DEF Place
  <2>5. files' = Over(content, files) /\ DOMAIN content = written
    BY <2>1
  <2>6. FilesOK'
    <3> HIDE DEF content, written
    <3> QED
      BY <1>0, <2>4, <2>5 DEF FilesOK, Over
  <2> QED
    BY <1>0, <2>2, <2>6, TypesStay
<1>16. CASE UNCHANGED vars
  BY <1>0, <1>16, TypesStay DEF vars, FilesOK
<1> QED
  BY <1>2, <1>3, <1>4, <1>5, <1>6, <1>7, <1>8, <1>9, <1>10, <1>11, <1>12, <1>13,
     <1>14, <1>15, <1>16 DEF Next

(* The snapshot is a commit of the branch, entries are of known files, and *)
(* no commit is attempted more often than _STAGED_COMMIT_RETRIES.          *)
THEOREM TypeCorrect == Spec => []TypeOK
<1>1. Init => TypeOK
  <2> SUFFICES ASSUME Init PROVE TypeOK
    OBVIOUS
  <2>1. history = <<NoFiles>> /\ known = 1 /\ stage = NoFiles /\ files = NoFiles
    BY DEF Init
  <2>2. DOMAIN history = {1} /\ history[1] = NoFiles /\ Len(history) = 1
    BY <2>1
  <2>3. \A p \in Procs : JobTyped(proc[p], Len(history))
    <3>1. JobTyped(Idle, Len(history))
      BY <2>2, NoFilesTyped, JobMade DEF Idle
    <3> QED
      BY <3>1 DEF Init
  <2> QED
    BY <2>1, <2>2, <2>3, NoFilesTyped DEF TypeOK, JobTyped, NoFiles
<1>2. Inv /\ TypeOK /\ [Next]_vars => TypeOK'
  BY TypeStep
<1> QED
  BY <1>1, <1>2, Invariance, PTL DEF Spec

-----------------------------------------------------------------------------
(* What is shown of a branch with its staged changes.                      *)

(* One path of the view: its addition, or the commit's file unless it is   *)
(* removed by its name.                                                    *)
LEMMA ViewAt ==
    ASSUME NEW s, NEW f, NEW q
    PROVE  At(ResolveEntries(s, f), q) =
             IF q \in AddedIn(s) THEN Additions(s)[q]
             ELSE IF q \in DOMAIN f \ RemovedIn(s) THEN f[q] ELSE NoFile
<1>1. DOMAIN Additions(s) = AddedIn(s)
  BY DEF Additions
<1> DEFINE kept == [r \in DOMAIN f \ RemovedIn(s) |-> f[r]]
<1>2. /\ DOMAIN kept = DOMAIN f \ RemovedIn(s)
      /\ \A r \in DOMAIN kept : kept[r] = f[r]
  OBVIOUS
<1>3. ResolveEntries(s, f) = Over(Additions(s), kept)
  BY DEF ResolveEntries
<1> HIDE DEF kept
<1> QED
  BY <1>1, <1>2, <1>3 DEF At, Over

(* The changes under a prefix are the changes there, and read as they are. *)
LEMMA ChangesBelow ==
    ASSUME NEW s, NEW prefix, NEW q, Under(q, prefix),
           NEW t, t = [n \in {m \in DOMAIN s : Under(m, prefix)} |-> s[n]]
    PROVE  /\ q \in AddedIn(t) <=> q \in AddedIn(s)
           /\ q \in RemovedIn(t) <=> q \in RemovedIn(s)
           /\ q \in AddedIn(s) => Additions(t)[q] = Additions(s)[q]
<1>1. /\ q \in DOMAIN t <=> q \in DOMAIN s
      /\ q \in DOMAIN s => t[q] = s[q]
  OBVIOUS
<1>2. /\ q \in AddedIn(t) <=> q \in AddedIn(s)
      /\ q \in RemovedIn(t) <=> q \in RemovedIn(s)
  BY <1>1 DEF AddedIn, RemovedIn
<1>3. ASSUME q \in AddedIn(s) PROVE Additions(t)[q] = Additions(s)[q]
  <2>1. Materialised(t, q) = Materialised(s, q)
    BY <1>1, <1>3 DEF Materialised, AddedIn
  <2> QED
    BY <1>2, <1>3, <2>1 DEF Additions
<1> QED
  BY <1>2, <1>3

LEMMA PrefixViewAt ==
    ASSUME NEW s, NEW f, NEW prefix, NEW q, Under(q, prefix)
    PROVE  At(ResolveEntriesForPrefix(s, f, prefix), q) = At(ResolveEntries(s, f), q)
<1> DEFINE t == [n \in {m \in DOMAIN s : Under(m, prefix)} |-> s[n]]
           g == [r \in {x \in DOMAIN f : StartsWith(x, prefix)} |-> f[r]]
<1>1. /\ q \in AddedIn(t) <=> q \in AddedIn(s)
      /\ q \in RemovedIn(t) <=> q \in RemovedIn(s)
      /\ q \in AddedIn(s) => Additions(t)[q] = Additions(s)[q]
  BY ChangesBelow
<1>2. /\ q \in DOMAIN g <=> q \in DOMAIN f
      /\ q \in DOMAIN f => g[q] = f[q]
  BY DEF StartsWith
<1>3. ResolveEntriesForPrefix(s, f, prefix) = ResolveEntries(t, g)
  BY DEF ResolveEntriesForPrefix
<1> HIDE DEF t, g
<1>4. At(ResolveEntries(t, g), q) =
        IF q \in AddedIn(t) THEN Additions(t)[q]
        ELSE IF q \in DOMAIN g \ RemovedIn(t) THEN g[q] ELSE NoFile
  BY ViewAt
<1>5. At(ResolveEntries(s, f), q) =
        IF q \in AddedIn(s) THEN Additions(s)[q]
        ELSE IF q \in DOMAIN f \ RemovedIn(s) THEN f[q] ELSE NoFile
  BY ViewAt
<1> QED
  BY <1>1, <1>2, <1>3, <1>4, <1>5

LEMMA EntryViewAt ==
    ASSUME NEW s, NEW f, NEW q
    PROVE  ResolveEntry(s, f, q) = At(ResolveEntries(s, f), q)
BY ViewAt DEF ResolveEntry, At

(* resolve_entry, resolve_entries and resolve_entries_for_prefix show the  *)
(* same of each path, whatever is staged on whatever commit.               *)
THEOREM ViewsShowTheSame == Spec => []ViewsAgree
<1>1. ViewsAgree
  BY EntryViewAt, PrefixViewAt DEF ViewsAgree
<1> QED
  BY <1>1, PTL

(* A path is below itself.                                                 *)
LEMMA BelowItself ==
    ASSUME NEW q \in Paths \cup RemovedNames
    PROVE  Under(q, q)
<1>1. Len(q) <= Len(q)
  BY PathsAssumption
<1> QED
  BY <1>1 DEF Under, IsPrefix

(* The commit drops what is below a removal, the view what a removal       *)
(* names: with removals of files only they drop the same, except where an  *)
(* addition comes instead.                                                 *)
THEOREM ViewIsCommitted == Spec => []ViewIsNextCommit
<1>1. ASSUME TypeOK, CanMaterialise(stage), RemovesFiles
      PROVE  ResolveEntries(stage, BranchFiles)
               = Staged(BranchFiles, Additions(stage), RemovedIn(stage))
  <2> DEFINE adds == Additions(stage)
             kept == [q \in DOMAIN BranchFiles \ RemovedIn(stage) |-> BranchFiles[q]]
             left == Without(BranchFiles, RemovedIn(stage))
  <2>1. DOMAIN adds = AddedIn(stage)
    BY DEF Additions
  <2>2. ASSUME NEW q \in DOMAIN BranchFiles, q \notin AddedIn(stage)
        PROVE  Removed(q, RemovedIn(stage)) <=> q \in RemovedIn(stage)
    <3>1. ASSUME q \in RemovedIn(stage) PROVE Removed(q, RemovedIn(stage))
      <4>1. q \in Paths \cup RemovedNames
        BY <1>1, <3>1 DEF RemovedIn, TypeOK, AreChanges
      <4> QED
        BY <3>1, <4>1, BelowItself DEF Removed
    <3>2. ASSUME Removed(q, RemovedIn(stage)) PROVE q \in RemovedIn(stage)
      <4>1. q \in DOMAIN stage
        BY <1>1, <2>2, <3>2 DEF Removed, RemovesFiles
      <4>2. stage[q] \in Change
        BY <1>1, <4>1 DEF TypeOK, AreChanges
      <4> QED
        BY <2>2, <4>1, <4>2, ChangeParts DEF AddedIn, RemovedIn
    <3> QED
      BY <3>1, <3>2
  <2>3. /\ DOMAIN kept = DOMAIN BranchFiles \ RemovedIn(stage)
        /\ \A q \in DOMAIN kept : kept[q] = BranchFiles[q]
    OBVIOUS
  <2>4. /\ DOMAIN left = {q \in DOMAIN BranchFiles : ~Removed(q, RemovedIn(stage))}
        /\ \A q \in DOMAIN left : left[q] = BranchFiles[q]
    BY DEF Without
  <2>5. /\ ResolveEntries(stage, BranchFiles) = Over(adds, kept)
        /\ Staged(BranchFiles, adds, RemovedIn(stage)) = Over(adds, left)
    BY DEF ResolveEntries, Staged
  <2> HIDE DEF adds, kept, left
  <2>6. DOMAIN adds \cup DOMAIN kept = DOMAIN adds \cup DOMAIN left
    BY <2>1, <2>2, <2>3, <2>4
  <2>7. \A q \in DOMAIN adds \cup DOMAIN kept :
           q \notin DOMAIN adds => kept[q] = left[q]
    BY <2>3, <2>4, <2>6
  <2> QED
    BY <2>5, <2>6, <2>7 DEF Over, adds
<1>2. TypeOK => ViewIsNextCommit
  BY <1>1 DEF ViewIsNextCommit
<1> QED
  BY <1>2, TypeCorrect, PTL

(* status compares bytes, a full commit compares identities: they see the  *)
(* same changes, with content hashes, and differ with the identity "meta"  *)
(* as the property says.                                                   *)
THEOREM StatusIsCommitted == Spec => []StatusShowsNextCommit
<1>1. ASSUME Inv, TypeOK PROVE StatusShowsNextCommit
  <2> DEFINE f        == BranchFiles
             next     == FullCommit(f, Worktree(f), NoFiles, {})
             changed  == {q \in DOMAIN next : next[q] # At(f, q)}
             reported == WorkingTreeAdded \cup WorkingTreeModified
             by(mode) == {q \in DOMAIN f : Identity = "meta" /\ f[q].mode = mode}
  <2>1. /\ DOMAIN next = WorkingFiles \cup DOMAIN f
        /\ \A q \in DOMAIN next :
              next[q] = IF q \in WorkingFiles THEN WorktreeEntry(f, q) ELSE f[q]
    <3>1. ASSUME NEW g
          PROVE  /\ DOMAIN Without(g, {}) = DOMAIN g
                 /\ \A q \in DOMAIN g : Without(g, {})[q] = g[q]
      BY DEF Without, Removed
    <3>2. /\ DOMAIN Staged(f, NoFiles, {}) = DOMAIN f
          /\ \A q \in DOMAIN f : Staged(f, NoFiles, {})[q] = f[q]
      BY <3>1 DEF Staged, Over, NoFiles
    <3>3. /\ DOMAIN Worktree(f) = WorkingFiles
          /\ \A q \in WorkingFiles : Worktree(f)[q] = WorktreeEntry(f, q)
      BY DEF Worktree
    <3> QED
      BY <3>1, <3>2, <3>3 DEF FullCommit, Over
  <2> HIDE DEF next
  <2>2. AreEntries(f) /\ FilesOK
    BY <1>1 DEF TypeOK, Inv, BranchFiles, FilesOK
  <2>3. ASSUME NEW q \in WorkingFiles
        PROVE  /\ WorktreeEntry(f, q) # NoFile
               /\ WorktreeEntry(f, q).mode = Identity
               /\ WorktreeEntry(f, q).hash = files[q]
    <3>1. /\ EntryOf(Identity, files[q], q).mode = Identity
          /\ EntryOf(Identity, files[q], q).hash = files[q]
      BY DEF EntryOf
    <3>2. WorktreeEntry(f, q) \in Entry
      BY <2>2, WorktreeEntries DEF AreEntries, Worktree
    <3> QED
      BY <3>1, <3>2, NoFileAssumption DEF WorktreeEntry
  <2>4. Identity \in {"blake3", "meta"}
    BY ModesAssumption
  <2>5. ASSUME NEW q \in changed PROVE q \in reported \cup by("blake3")
    <3>1. q \in WorkingFiles /\ WorktreeEntry(f, q) # At(f, q)
      BY <2>1, <2>5 DEF At
    <3>2. CASE q \notin DOMAIN f
      BY <3>1, <3>2 DEF WorkingTreeAdded
    <3>3. CASE q \in DOMAIN f /\ f[q].mode = "blake3" /\ f[q].hash = files[q]
      BY <2>4, <3>1, <3>3 DEF At, WorktreeEntry
    <3>4. CASE q \in DOMAIN f /\ ~(f[q].mode = "blake3" /\ f[q].hash = files[q])
      BY <3>1, <3>4 DEF WorkingTreeModified
    <3> QED
      BY <3>2, <3>3, <3>4
  <2>6. ASSUME NEW q \in reported PROVE q \in changed \cup by("meta")
    <3>1. q \in WorkingFiles /\ q \in DOMAIN next /\ next[q] = WorktreeEntry(f, q)
      BY <2>1, <2>6 DEF WorkingTreeAdded, WorkingTreeModified
    <3>2. CASE q \notin DOMAIN f
      BY <2>3, <3>1, <3>2 DEF At
    <3>3. CASE q \in DOMAIN f /\ f[q] = WorktreeEntry(f, q)
      <4>1. ~(f[q].mode = "blake3" /\ f[q].hash = files[q])
        BY <2>6, <3>3 DEF WorkingTreeAdded, WorkingTreeModified
      <4> QED
        BY <2>3, <2>4, <3>1, <3>3, <4>1
    <3>4. CASE q \in DOMAIN f /\ f[q] # WorktreeEntry(f, q)
      BY <3>1, <3>4 DEF At
    <3> QED
      BY <3>2, <3>3, <3>4
  <2>7. changed \subseteq reported \cup by("blake3") /\ reported \subseteq changed \cup by("meta")
    BY <2>5, <2>6
  <2> QED
    BY <2>7 DEF StatusShowsNextCommit, next
<1>2. Inv /\ TypeOK => StatusShowsNextCommit
  BY <1>1
<1> QED
  BY <1>2, Invariance, TypeCorrect, PTL
=============================================================================
