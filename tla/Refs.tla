-------------------------------- MODULE Refs --------------------------------
(***************************************************************************)
(* Branch refs in a shared S3 repository: RefManager, the parts of         *)
(* ReflakeRepository that move refs, and S3ObjectStore's conditional puts. *)
(*                                                                         *)
(* Every client has its own working tree and client-state directory (HEAD, *)
(* branch snapshots, reflog) and runs one command at a time; what the      *)
(* clients share is the bucket.  Each request to the bucket and each write *)
(* of client state is a step of its own, so that the steps of the clients  *)
(* interleave, and a client may stop (exit, be killed) between any two.    *)
(*                                                                         *)
(* The value of a ref is Missing (no such key), NoCommit (an empty object) *)
(* or a commit.  Its version token is the object's ETag, a digest of the   *)
(* body: two tokens are equal exactly when the bodies are, so the body a   *)
(* client read also stands for the token it read with it.                  *)
(***************************************************************************)
EXTENDS CommitGraph, FiniteSets

CONSTANTS Client,           \* users of the repository, one command at a time each
          Branch,           \* branch names
          DefaultBranch,    \* RefManager's default_branch, "main"
          Founders,         \* the clients that may open the bucket while it is
                            \* empty, the others are told of it once it is
                            \* open; {}: somebody has opened it before
          StagedRetries,    \* _STAGED_COMMIT_RETRIES
          MaxObjects,       \* bound: no commit starts with this many commit
                            \* objects in the store, no merge with more
          Asks              \* bound: what each client may ask for

(* What a client can do; "stop" stands for its process ending or dying.    *)
Commands == {"switch", "branch", "commit", "staged", "merge", "fast_forward", "stop"}

ASSUME ConstantsOK ==
    /\ Asks \in [Client -> SUBSET Commands]
    /\ DefaultBranch \in Branch
    /\ Founders \subseteq Client
    /\ StagedRetries \in Nat \ {0}
    /\ MaxObjects \in Nat

VARIABLES ref,        \* bucket: refs/heads/<branch>
          objects,    \* bucket: the commit objects
          head,       \* client: .reflake/refs/HEAD
          snapshot,   \* client: .reflake/refs/heads/<branch>.json, or Missing
          reflog,     \* client: .reflake/reflog/<branch>.log, as a set
          pc,         \* client: where the running command is
          job         \* client: the running command's local variables

vars == <<ref, objects, head, snapshot, reflog, pc, job>>

Job ==
    [op      : {"none", "branch", "commit", "staged", "merge", "fast_forward"},
     branch  : Branch,
     exp     : Nat,         \* expected_commit_id, NoCommit for None
     token   : RefValue,    \* expected_version_token, Missing for None
     new     : Nat,         \* the commit the ref is to move to
     source  : Nat,         \* a merge's second parent
     attempt : Nat,
     at      : RefValue]    \* history: the head when a staged commit began

NoJob == [op |-> "none", branch |-> DefaultBranch, exp |-> NoCommit,
          token |-> Missing, new |-> NoCommit, source |-> NoCommit,
          attempt |-> 0, at |-> Missing]

Label == {"closed", "ensure_head", "idle", "branch_head", "merge_state",
          "fast_forward", "write", "cas", "put", "refresh", "reflog", "conflict"}

ReflogEntry == [branch : Branch, old : Nat, new : Nat]

TypeOK ==
    /\ ref \in [Branch -> RefValue]
    /\ objects \in Seq(CommitObject)
    /\ head \in [Client -> Branch]
    /\ snapshot \in [Client -> [Branch -> RefValue]]
    /\ reflog \in [Client -> SUBSET ReflogEntry]
    /\ pc \in [Client -> Label]
    /\ job \in [Client -> Job]

Stored == 1 .. Len(objects)

Init ==
    /\ ref = [b \in Branch |->
                 IF b = DefaultBranch /\ Founders = {} THEN NoCommit ELSE Missing]
    /\ objects = <<>>
    /\ head = [c \in Client |-> DefaultBranch]
    /\ snapshot = [c \in Client |-> [b \in Branch |-> Missing]]
    /\ reflog = [c \in Client |-> {}]
    /\ pc = [c \in Client |-> "closed"]
    /\ job = [c \in Client |-> NoJob]

Goto(c, label) == pc' = [pc EXCEPT ![c] = label]

(* The command returns, or raises: its local variables are gone. *)
Return(c) ==
    /\ Goto(c, "idle")
    /\ job' = [job EXCEPT ![c] = NoJob]

----------------------------------------------------------------------------
(* Opening a repository: RefManager._ensure_head reads the default branch  *)
(* and, when it is missing, writes an empty one with a plain put.  Clients *)
(* that are not founders come when there is a default branch and nobody is *)
(* still writing it.                                                       *)

Open(c) ==
    /\ pc[c] = "closed"
    /\ c \notin Founders =>
          /\ ref[DefaultBranch] # Missing
          /\ \A d \in Founders : pc[d] # "ensure_head"
    /\ Goto(c, IF ref[DefaultBranch] = Missing THEN "ensure_head" ELSE "idle")
    /\ UNCHANGED <<ref, objects, head, snapshot, reflog, job>>

PutEmptyHead == ref' = [ref EXCEPT ![DefaultBranch] = NoCommit]

EnsureHead(c) ==
    /\ pc[c] = "ensure_head"
    /\ PutEmptyHead
    /\ Goto(c, "idle")
    /\ UNCHANGED <<objects, head, snapshot, reflog, job>>

(* The put was applied but its answer was lost: the S3 client sends it     *)
(* again, and nothing keeps it from being applied again.                   *)
EnsureHeadAnswerLost(c) ==
    /\ pc[c] = "ensure_head"
    /\ PutEmptyHead
    /\ UNCHANGED <<objects, head, snapshot, reflog, pc, job>>

(* The command ends or its process dies: only client state on disk and the *)
(* bucket stay.                                                            *)
Stop(c) ==
    /\ pc[c] # "closed"
    /\ Goto(c, "closed")
    /\ job' = [job EXCEPT ![c] = NoJob]
    /\ UNCHANGED <<ref, objects, head, snapshot, reflog>>

----------------------------------------------------------------------------
(* RefManager.require_branch_state: the client's snapshot if there is one, *)
(* else the store's ref, which then becomes the snapshot.  Missing is the  *)
(* ValueError of an unknown branch.                                        *)
BranchState(c, b) ==
    IF snapshot[c][b] # Missing THEN snapshot[c][b] ELSE ref[b]

KeepSnapshot(c, b) == snapshot' = [snapshot EXCEPT ![c][b] = BranchState(c, b)]

SetCurrentBranch(c, b) ==
    /\ pc[c] = "idle"
    /\ BranchState(c, b) # Missing
    /\ KeepSnapshot(c, b)
    /\ head' = [head EXCEPT ![c] = b]
    /\ UNCHANGED <<ref, objects, reflog, pc, job>>

(* RefManager.branch: the name must be free; the new branch starts at the  *)
(* head of the current one, read afterwards.                               *)
StartBranch(c, b) ==
    /\ pc[c] = "idle"
    /\ ref[b] = Missing
    /\ Goto(c, "branch_head")
    /\ job' = [job EXCEPT ![c] = [NoJob EXCEPT !.op = "branch", !.branch = b]]
    /\ UNCHANGED <<ref, objects, head, snapshot, reflog>>

BranchReadHead(c) ==
    /\ pc[c] = "branch_head"
    /\ Goto(c, "cas")
    /\ job' = [job EXCEPT ![c].new =
                  IF ref[head[c]] = Missing THEN NoCommit ELSE ref[head[c]]]
    /\ UNCHANGED <<ref, objects, head, snapshot, reflog>>

(* ReflakeRepository.commit up to the commit object: the parent is the     *)
(* snapshot's commit, never a fresh read of the store.                     *)
StartCommit(c, op) ==
    LET b == head[c]
        state == BranchState(c, b)
    IN  /\ pc[c] = "idle"
        /\ Len(objects) < MaxObjects
        /\ state # Missing
        /\ KeepSnapshot(c, b)
        /\ Goto(c, "write")
        /\ job' = [job EXCEPT ![c] =
                      [NoJob EXCEPT !.op = op, !.branch = b, !.exp = state,
                                    !.token = state, !.attempt = 1,
                                    !.at = IF op = "staged" THEN ref[b] ELSE Missing]]
        /\ UNCHANGED <<ref, objects, head, reflog>>

(* ReflakeRepository.merge of commit s into branch t: resolve_ref reads    *)
(* the target's head from the store.  When the target already contains s   *)
(* nothing happens; when s contains the target the branch is               *)
(* fast-forwarded; else a commit with two parents is written.              *)
StartMerge(c, t, s) ==
    /\ pc[c] = "idle"
    /\ ref[t] \in Stored
    /\ s # ref[t]
    /\ ~IsAncestor(objects, s, ref[t])
    /\ \/ /\ IsAncestor(objects, ref[t], s)
          /\ Goto(c, "fast_forward")
       \/ /\ ~IsAncestor(objects, ref[t], s)
          /\ Len(objects) <= MaxObjects
          /\ Goto(c, "merge_state")
    /\ job' = [job EXCEPT ![c] =
                  [NoJob EXCEPT !.op = "merge", !.branch = t, !.exp = ref[t],
                                !.new = s, !.source = s]]
    /\ UNCHANGED <<ref, objects, head, snapshot, reflog>>

(* The trees are merged; the CAS token comes from the snapshot. *)
MergeState(c) ==
    /\ pc[c] = "merge_state"
    /\ KeepSnapshot(c, job[c].branch)
    /\ job' = [job EXCEPT ![c].token = BranchState(c, job[c].branch)]
    /\ Goto(c, "write")
    /\ UNCHANGED <<ref, objects, head, reflog>>

(* Both sides changed a path: MergeConflictError, nothing was written. *)
MergeConflict(c) ==
    /\ pc[c] = "merge_state"
    /\ Return(c)
    /\ UNCHANGED <<ref, objects, head, snapshot, reflog>>

(* push and pull end with fast_forward_branch on the destination; any      *)
(* stored commit may be asked for.                                         *)
StartFastForward(c, b, x) ==
    /\ pc[c] = "idle"
    /\ Goto(c, "fast_forward")
    /\ job' = [job EXCEPT ![c] =
                  [NoJob EXCEPT !.op = "fast_forward", !.branch = b, !.new = x]]
    /\ UNCHANGED <<ref, objects, head, snapshot, reflog>>

(* The ancestry check left to a caller that made it earlier. *)
FastForwardBranch_NoCheck(c) ==
    LET b == job[c].branch
        state == BranchState(c, b)
    IN  /\ pc[c] = "fast_forward"
        /\ KeepSnapshot(c, b)
        /\ IF state = Missing \/ state = job[c].new
           THEN Return(c)
           ELSE /\ job' = [job EXCEPT ![c].exp = state, ![c].token = state]
                /\ Goto(c, "cas")
        /\ UNCHANGED <<ref, objects, head, reflog>>

(* RefManager.fast_forward_branch: unknown branch, already there or not a  *)
(* fast-forward of the snapshot's commit: return or raise.                 *)
FastForwardBranch(c) ==
    LET b == job[c].branch
        state == BranchState(c, b)
        x == job[c].new
    IN  /\ pc[c] = "fast_forward"
        /\ KeepSnapshot(c, b)
        /\ IF \/ state \in {Missing, x}
              \/ state # NoCommit /\ ~IsAncestor(objects, state, x)
           THEN Return(c)
           ELSE /\ job' = [job EXCEPT ![c].exp = state, ![c].token = state]
                /\ Goto(c, "cas")
        /\ UNCHANGED <<ref, objects, head, reflog>>

----------------------------------------------------------------------------
(* The object's write forgotten: only the ref is updated. *)
WriteCommitObject_RefFirst(c) ==
    /\ pc[c] = "write"
    /\ job' = [job EXCEPT ![c].new = Len(objects) + 1]
    /\ Goto(c, "cas")
    /\ UNCHANGED <<objects, ref, head, snapshot, reflog>>

(* TreeWriter.write_commit_object writes the commit before its CAS.  A     *)
(* failed attempt leaves the object behind, reachable from no branch.      *)
WriteCommitObject(c) ==
    /\ pc[c] = "write"
    /\ objects' = Append(objects, NewCommit(objects, job[c].exp, job[c].source))
    /\ job' = [job EXCEPT ![c].new = Len(objects) + 1]
    /\ Goto(c, "cas")
    /\ UNCHANGED <<ref, head, snapshot, reflog>>

(* A lost CAS tried again in place, with the token that already lost. *)
CasFailed_Spins(c) == Goto(c, "cas") /\ UNCHANGED job

(* The CAS failed.  RefManager.branch turns that into "already exists",    *)
(* update_branch_ref goes on to refresh the snapshot.                      *)
CasFailed(c) ==
    IF job[c].op = "branch" THEN Return(c)
    ELSE Goto(c, "conflict") /\ UNCHANGED job

(* S3ObjectStore.compare_and_set_branch_ref: read and compare...           *)
CasCheck(c) ==
    LET current == ref[job[c].branch]
    IN  /\ pc[c] = "cas"
        /\ IF /\ current = job[c].token
              /\ job[c].exp # NoCommit => current = job[c].exp
           THEN Goto(c, "put") /\ UNCHANGED job
           ELSE CasFailed(c)
        /\ UNCHANGED <<ref, objects, head, snapshot, reflog>>

(* The put that S3 applies. *)
PutRef(c) == ref' = [ref EXCEPT ![job[c].branch] = job[c].new]

(* The put without If-Match: check-then-write. *)
CasPut_Unconditional(c) ==
    /\ pc[c] = "put"
    /\ PutRef(c)
    /\ Goto(c, "refresh")
    /\ UNCHANGED <<objects, head, snapshot, reflog, job>>

(* If-Match sent, If-None-Match forgotten: creating a branch overwrites. *)
CasPut_PlainCreate(c) ==
    LET b == job[c].branch
    IN  /\ pc[c] = "put"
        /\ IF ref[b] = job[c].token \/ job[c].token = Missing
           THEN /\ PutRef(c)
                /\ Goto(c, "refresh")
                /\ UNCHANGED job
           ELSE CasFailed(c) /\ UNCHANGED ref
        /\ UNCHANGED <<objects, head, snapshot, reflog>>

(* ...then a put with If-Match (If-None-Match * when no token was          *)
(* expected), which S3 applies only if the body is still the one read.     *)
CasPut(c) ==
    /\ pc[c] = "put"
    /\ IF ref[job[c].branch] = job[c].token
       THEN PutRef(c) /\ Goto(c, "refresh") /\ UNCHANGED job
       ELSE CasFailed(c) /\ UNCHANGED ref
    /\ UNCHANGED <<objects, head, snapshot, reflog>>

(* The put was applied but its answer was lost: the S3 client sends it     *)
(* again, finds the ref changed (by itself) and reports a conflict.        *)
CasPutAnswerLost(c) ==
    /\ pc[c] = "put"
    /\ ref[job[c].branch] = job[c].token
    /\ PutRef(c)
    /\ CasFailed(c)
    /\ UNCHANGED <<objects, head, snapshot, reflog>>

(* The snapshot taken from what was written instead of a read of the store *)
(* on the failure path, where it was not written.                          *)
Conflict_KeepsOwnCommit(c) ==
    LET b == job[c].branch
    IN  /\ pc[c] = "conflict"
        /\ snapshot' = [snapshot EXCEPT ![c][b] = job[c].new]
        /\ Return(c)
        /\ UNCHANGED <<ref, objects, head, reflog>>

(* A retry that builds on the state of the first attempt again. *)
Conflict_StaleRetry(c) ==
    LET b == job[c].branch
    IN  /\ pc[c] = "conflict"
        /\ IF job[c].op = "staged" /\ job[c].attempt < StagedRetries
           THEN /\ job' = [job EXCEPT ![c].attempt = @ + 1]
                /\ Goto(c, "write")
                /\ UNCHANGED snapshot
           ELSE /\ snapshot' = [snapshot EXCEPT ![c][b] = ref[b]]
                /\ Return(c)
        /\ UNCHANGED <<ref, objects, head, reflog>>

(* update_branch_ref after a lost CAS: re-read the ref into the snapshot   *)
(* and raise RefConflictError.  commit retries a staged commit on top of   *)
(* the fresh snapshot; every other caller lets the error out.              *)
Conflict(c) ==
    LET b == job[c].branch
    IN  /\ pc[c] = "conflict"
        /\ snapshot' = [snapshot EXCEPT ![c][b] = ref[b]]
        /\ IF job[c].op = "staged" /\ job[c].attempt < StagedRetries
           THEN /\ job' = [job EXCEPT ![c].exp = ref[b], ![c].token = ref[b],
                                      ![c].attempt = @ + 1]
                /\ Goto(c, "write")
           ELSE Return(c)
        /\ UNCHANGED <<ref, objects, head, reflog>>

(* update_branch_ref (and branch) after a CAS that succeeded: read the ref *)
(* again, a peer may have moved it since, and keep what was read.          *)
Refresh(c) ==
    LET b == job[c].branch
    IN  /\ pc[c] = "refresh"
        /\ snapshot' = [snapshot EXCEPT ![c][b] = ref[b]]
        /\ IF job[c].op = "branch" THEN Return(c)
           ELSE Goto(c, "reflog") /\ UNCHANGED job
        /\ UNCHANGED <<ref, objects, head, reflog>>

AppendReflog(c) ==
    /\ pc[c] = "reflog"
    /\ reflog' = [reflog EXCEPT ![c] = @ \cup
           {[branch |-> job[c].branch, old |-> job[c].exp, new |-> job[c].new]}]
    /\ Return(c)
    /\ UNCHANGED <<ref, objects, head, snapshot>>

----------------------------------------------------------------------------
(* What a client asks for. *)
Start(c) ==
    \/ Open(c)
    \/ "switch" \in Asks[c] /\ \E b \in Branch : SetCurrentBranch(c, b)
    \/ "branch" \in Asks[c] /\ \E b \in Branch : StartBranch(c, b)
    \/ \E op \in {"commit", "staged"} \cap Asks[c] : StartCommit(c, op)
    \/ "merge" \in Asks[c] /\ \E t \in Branch, s \in Stored : StartMerge(c, t, s)
    \/ /\ "fast_forward" \in Asks[c]
       /\ \E b \in Branch, x \in Stored : StartFastForward(c, b, x)

(* The next step of a command that is running. *)
Step(c) ==
    \/ EnsureHead(c)
    \/ EnsureHeadAnswerLost(c)
    \/ BranchReadHead(c)
    \/ MergeState(c)
    \/ MergeConflict(c)
    \/ FastForwardBranch(c)
    \/ WriteCommitObject(c)
    \/ CasCheck(c)
    \/ CasPut(c)
    \/ CasPutAnswerLost(c)
    \/ Conflict(c)
    \/ Refresh(c)
    \/ AppendReflog(c)

Next ==
    \E c \in Client :
        \/ Start(c)
        \/ Step(c)
        \/ "stop" \in Asks[c] /\ Stop(c)

Spec == Init /\ [][Next]_vars

(* A running command is scheduled until it returns, unless its process     *)
(* dies; nobody has to start one.                                          *)
FairSpec == Spec /\ \A c \in Client : WF_vars(Step(c))

----------------------------------------------------------------------------
(* Properties                                                              *)

(* The values that may stand in a ref: nothing, or a commit object that is *)
(* in the store.                                                           *)
Resolvable == {Missing, NoCommit} \cup Stored

(* Objects are written before anything that names them (write_commit_object*)
(* puts the commit before its CAS): refs, snapshots, reflogs and parents   *)
(* only ever name commits that can be read.                                *)
NamesResolve ==
    /\ \A b \in Branch : ref[b] \in Resolvable
    /\ \A c \in Client, b \in Branch : snapshot[c][b] \in Resolvable
    /\ \A c \in Client : \A e \in reflog[c] : {e.old, e.new} \subseteq Resolvable
    /\ \A i \in Stored : objects[i].first < i /\ objects[i].second < i

(* No lost update: what a client's reflog records as done (a commit, merge *)
(* or fast-forward that update_branch_ref reported as successful) is still *)
(* in the branch's first-parent history, the one `log` prints, and so is   *)
(* the head it replaced.                                                   *)
AcknowledgedUpdatesKept ==
    \A c \in Client : \A e \in reflog[c] :
        /\ Extends(objects, e.old, e.new)
        /\ Extends(objects, e.new, ref[e.branch])

(* The running command has settled the state it expects the branch in. *)
Expecting(c) ==
    /\ pc[c] \in {"write", "cas", "put", "conflict", "refresh", "reflog"}
    /\ job[c].op # "branch"

(* A client's idea of a branch may be stale but is never anything else     *)
(* than an earlier head of that branch: its snapshot, and the commit and   *)
(* token that a running command hands to the CAS.                          *)
StaleViewsAreHistory ==
    \A c \in Client :
        /\ \A b \in Branch : Extends(objects, snapshot[c][b], ref[b])
        /\ Expecting(c) =>
              /\ Extends(objects, job[c].exp, ref[job[c].branch])
              /\ Extends(objects, job[c].token, ref[job[c].branch])

(* The generation shortcut of is_ancestor changes no answer: it agrees     *)
(* with the plain walk over first parents for every two commits, merge     *)
(* commits included.                                                       *)
AncestorShortcutSound ==
    \A a, d \in Stored : IsAncestor(objects, a, d) <=> a \in Chain(objects, d)

(* Heads never rewind: whoever moves a branch moves it to a commit whose   *)
(* first-parent history contains the head it had.  architecture.md section *)
(* 6: compare_and_set_branch_ref is the only safety primitive.             *)
HeadsNeverRewind ==
    [][\A b \in Branch : Extends(objects', ref[b], ref'[b])]_ref

(* How many updates a branch has seen, at least. *)
Depth(v) == Cardinality(Chain(objects, v))

(* commit --staged raises RefConflictError only when the branch advanced   *)
(* while it ran, once for every retry: a snapshot that was stale from the  *)
(* start costs the first attempt and no more.                              *)
StagedGivesUpOnlyUnderContention ==
    [][\A c \in Client :
          pc[c] = "conflict" /\ pc'[c] = "idle" /\ job[c].op = "staged"
          => Depth(ref[job[c].branch]) >= Depth(job[c].at) + StagedRetries - 1]_pc

(* Every command returns (or its process dies), whatever its peers do: the *)
(* retry loop is bounded and no failed CAS waits for anybody.              *)
CommandsReturn ==
    \A c \in Client : pc[c] \notin {"closed", "idle"} ~> pc[c] \in {"closed", "idle"}

(* What the refs promise, without clients or CAS: an append-only history   *)
(* per branch.                                                             *)
History == INSTANCE BranchHistory WITH
    exists    <- [b \in Branch |-> ref[b] # Missing],
    published <- [b \in Branch |-> Chain(objects, ref[b])]

ImplementsHistory == History!Spec
=============================================================================
