-------------------------------- MODULE Sync --------------------------------
(***************************************************************************)
(* push, pull and fetch between clones and a remote in S3 (module          *)
(* repository_sync.py).                                                    *)
(*                                                                         *)
(* Every clone is a directory with its own object store and refs, used by  *)
(* one process at a time; the clones share the remote.  A clone's own      *)
(* commands (commit, merge, branch) touch its store only and are atomic    *)
(* here, Refs has their steps; what a transfer does at the remote goes     *)
(* request by request, and its process may die between any two.            *)
(*                                                                         *)
(* A commit's content is three objects, one for its trees, one for its     *)
(* blobs and one for its footers: they are what a store can lack           *)
(* independently.  The commits of all stores are numbered in one sequence; *)
(* which of them a store has is in "holds".                                *)
(***************************************************************************)
EXTENDS CommitGraph

CONSTANTS Clone,            \* working directories
          Remote,           \* the bucket they push to and pull from
          Branch,
          DefaultBranch,    \* in every repository from the start
          Batch,            \* TRUE: s5cmd, one batch; FALSE: object by object
          MaxCommits        \* bound: commits ever made

ASSUME SyncConstantsOK ==
    /\ Remote \notin Clone
    /\ DefaultBranch \in Branch
    /\ Batch \in BOOLEAN
    /\ MaxCommits \in Nat

Store == Clone \cup {Remote}

VARIABLES commits,      \* every commit made anywhere
          holds,        \* store: its objects
          ref,          \* store: its branch refs
          snapshot,     \* clone: its client state for the remote, by branch
          pushed,       \* clone: its reflog for the remote
          pc,           \* clone: where the running command is
          job           \* clone: the running command's local variables

vars == <<commits, holds, ref, snapshot, pushed, pc, job>>

Kind == {"tree", "blob", "footer", "commit"}

Object == [kind : Kind, of : Nat]

Obj(kind, i) == [kind |-> kind, of |-> i]

Job == [op     : {"none", "push", "pull", "fetch"},
        branch : Branch,
        tip    : Nat,               \* the head to transfer
        todo   : SUBSET Object,     \* what the plan has left to copy
        exp    : RefValue]          \* commit and token handed to the CAS

NoJob == [op |-> "none", branch |-> DefaultBranch, tip |-> NoCommit,
          todo |-> {}, exp |-> Missing]

Label == {"idle", "ensure", "check", "plan", "copy", "forward", "cas",
          "conflict", "refresh", "reflog"}

TypeOK ==
    /\ commits \in Seq(CommitObject)
    /\ holds \in [Store -> SUBSET Object]
    /\ ref \in [Store -> [Branch -> RefValue]]
    /\ snapshot \in [Clone -> [Branch -> RefValue]]
    /\ pushed \in [Clone -> SUBSET [branch : Branch, new : Nat]]
    /\ pc \in [Clone -> Label]
    /\ job \in [Clone -> Job]

Init ==
    /\ commits = <<>>
    /\ holds = [s \in Store |-> {}]
    /\ ref = [s \in Store |->
                 [b \in Branch |-> IF b = DefaultBranch THEN NoCommit ELSE Missing]]
    /\ snapshot = [c \in Clone |-> [b \in Branch |-> Missing]]
    /\ pushed = [c \in Clone |-> {}]
    /\ pc = [c \in Clone |-> "idle"]
    /\ job = [c \in Clone |-> NoJob]

Has(s, kind, i) == Obj(kind, i) \in holds[s]

Goto(c, label) == pc' = [pc EXCEPT ![c] = label]

Return(c) ==
    /\ Goto(c, "idle")
    /\ job' = [job EXCEPT ![c] = NoJob]

(* The walk over first parents from d, in store s, that ends at a: every   *)
(* commit on the way can be read.                                          *)
Reaches(s, a, d) ==
    /\ a \in Chain(commits, d)
    /\ \A i \in Chain(commits, d) : a <= i => Has(s, "commit", i)

----------------------------------------------------------------------------
(* Work in a clone                                                         *)

AllOf(i) == {Obj(kind, i) : kind \in Kind}

MakeCommit(c, b, second) ==
    LET n == Len(commits) + 1
    IN  /\ commits' = Append(commits, NewCommit(commits, ref[c][b], second))
        /\ holds' = [holds EXCEPT ![c] = @ \cup AllOf(n)]
        /\ ref' = [ref EXCEPT ![c][b] = n]

Commit(c, b) ==
    /\ pc[c] = "idle"
    /\ Len(commits) < MaxCommits
    /\ ref[c][b] # Missing
    /\ MakeCommit(c, b, NoCommit)
    /\ UNCHANGED <<snapshot, pushed, pc, job>>

CreateBranch(c, b, from) ==
    /\ pc[c] = "idle"
    /\ ref[c][b] = Missing
    /\ ref[c][from] # Missing
    /\ ref' = [ref EXCEPT ![c][b] = ref[c][from]]
    /\ UNCHANGED <<commits, holds, snapshot, pushed, pc, job>>

(* merge of a commit the clone has: one it made or one it fetched.  The    *)
(* histories it walks and the trees it merges must be there.               *)
Merge(c, b, s) ==
    LET t == ref[c][b]
        base == MergeBase(commits, s, t)
    IN  /\ pc[c] = "idle"
        /\ t \in DOMAIN commits
        /\ Has(c, "commit", s)
        /\ ~IsAncestor(commits, s, t)
        /\ \/ /\ Reaches(c, t, s)
              /\ ref' = [ref EXCEPT ![c][b] = s]
              /\ UNCHANGED <<commits, holds>>
           \/ /\ ~IsAncestor(commits, t, s)
              /\ Len(commits) < MaxCommits
              /\ \A i \in Chain(commits, s) \cup Chain(commits, t) : Has(c, "commit", i)
              /\ \A i \in {s, t, base} \ {NoCommit} : Has(c, "tree", i)
              /\ MakeCommit(c, b, s)
        /\ UNCHANGED <<snapshot, pushed, pc, job>>

----------------------------------------------------------------------------
(* Starting a transfer                                                     *)

Start(c, op, b, tip, label) ==
    /\ Goto(c, label)
    /\ job' = [job EXCEPT ![c] = [NoJob EXCEPT !.op = op, !.branch = b, !.tip = tip]]

(* push: the clone's head is settled first.  A branch the remote does not  *)
(* have is written there, empty, with an unconditional put.                *)
StartPush(c, b) ==
    /\ pc[c] = "idle"
    /\ ref[c][b] \in DOMAIN commits
    /\ Start(c, "push", b, ref[c][b],
             IF ref[Remote][b] = Missing THEN "ensure" ELSE "check")
    /\ UNCHANGED <<commits, holds, ref, snapshot, pushed>>

Ensure(c) ==
    /\ pc[c] = "ensure"
    /\ ref' = [ref EXCEPT ![Remote][job[c].branch] = NoCommit]
    /\ Goto(c, "check")
    /\ UNCHANGED <<commits, holds, snapshot, pushed, job>>

(* The remote's head must be in the first-parent history of the clone's,   *)
(* else NonFastForwardError; when they are equal there is nothing to do.   *)
PushRefused(c) ==
    LET h == ref[Remote][job[c].branch]
    IN  h \in DOMAIN commits /\ ~Reaches(c, h, job[c].tip)

CheckPush(c) ==
    /\ pc[c] = "check"
    /\ IF PushRefused(c) \/ ref[Remote][job[c].branch] = job[c].tip
       THEN Return(c)
       ELSE Goto(c, "plan") /\ UNCHANGED job
    /\ UNCHANGED <<commits, holds, ref, snapshot, pushed>>

(* pull: the remote's head is read once, and the clone's branch, created   *)
(* when missing, must be in its first-parent history there.                *)
StartPull(c, b) ==
    LET tip == ref[Remote][b]
        local == IF ref[c][b] = Missing THEN NoCommit ELSE ref[c][b]
    IN  /\ pc[c] = "idle"
        /\ tip \in DOMAIN commits
        /\ ref' = [ref EXCEPT ![c][b] = local]
        /\ IF local # tip /\ (local = NoCommit \/ Reaches(Remote, local, tip))
           THEN Start(c, "pull", b, tip, "plan")
           ELSE UNCHANGED <<pc, job>>
        /\ UNCHANGED <<commits, holds, snapshot, pushed>>

StartFetch(c, b) ==
    /\ pc[c] = "idle"
    /\ ref[Remote][b] \in DOMAIN commits
    /\ Start(c, "fetch", b, ref[Remote][b], "plan")
    /\ UNCHANGED <<commits, holds, ref, snapshot, pushed>>

----------------------------------------------------------------------------
(* Planning and copying                                                    *)

From(c) == IF job[c].op = "push" THEN c ELSE Remote
To(c) == IF job[c].op = "push" THEN Remote ELSE c

(* _collect_commits_to_push: down the first parents until the destination  *)
(* has a commit.                                                           *)
Collected(src, dst, tip) ==
    {i \in Chain(commits, tip) :
        \A j \in Chain(commits, tip) : i <= j => ~Has(dst, "commit", j)}

(* _build_plan: the trees, the blobs and footers those trees name, and the *)
(* commit.                                                                 *)
Plan(src, dst, ids) ==
    {o \in [kind : Kind, of : ids] :
        /\ o \notin holds[dst]
        /\ o.kind \in {"blob", "footer"} => Has(src, "tree", o.of)}

(* When everything is copied push and pull move the ref, fetch is done.    *)
Proceed(c, todo) ==
    IF todo # {}
    THEN Goto(c, "copy") /\ job' = [job EXCEPT ![c].todo = todo]
    ELSE IF job[c].op = "fetch" THEN Return(c)
    ELSE Goto(c, "forward") /\ job' = [job EXCEPT ![c].todo = {}]

(* The destination is asked for every commit of the walk and every object  *)
(* of the plan, one request each; here they are one step.  Objects are     *)
(* only ever added to a store, so what an answer said is there stays, and  *)
(* what it said is missing a peer may have copied since: Copy has that.    *)
MakePlan(c) ==
    LET ids == Collected(From(c), To(c), job[c].tip)
    IN  /\ pc[c] = "plan"
        /\ IF \A i \in ids : Has(From(c), "commit", i)
           THEN Proceed(c, Plan(From(c), To(c), ids))
           ELSE Return(c)
        /\ UNCHANGED <<commits, holds, ref, snapshot, pushed>>

Rank(kind) == CASE kind = "tree" -> 1 [] kind = "blob" -> 2
                [] kind = "footer" -> 3 [] kind = "commit" -> 4

(* The newest commit first, each before what it is made of. *)
Before_CommitFirst(o, p) ==
    o.of > p.of \/ (o.of = p.of /\ Rank(o.kind) >= Rank(p.kind))

(* The order of the plan: the oldest commit first, each after its trees,   *)
(* blobs and footers.                                                      *)
Before(o, p) ==
    o.of < p.of \/ (o.of = p.of /\ Rank(o.kind) <= Rank(p.kind))

Copied(c, o) == holds' = [holds EXCEPT ![To(c)] = @ \cup {o}]

(* A download reads a tree, a footer or a commit as bytes or None, and     *)
(* passes over None without a word; a blob it opens.                       *)
SkippedWhenMissing(c, o) == job[c].op # "push" /\ o.kind # "blob"

(* _copy_item, one object.  A commit that is there already is an           *)
(* OptimisticLockError; a missing source is passed over or ends the        *)
(* command.                                                                *)
Copy(c) ==
    /\ pc[c] = "copy"
    /\ ~Batch
    /\ \E o \in job[c].todo :
        /\ \A p \in job[c].todo : Before(o, p)
        /\ \/ /\ o \in holds[From(c)]
              /\ ~(o.kind = "commit" /\ o \in holds[To(c)])
              /\ Copied(c, o)
              /\ Proceed(c, job[c].todo \ {o})
           \/ /\ o.kind = "commit" /\ o \in holds[To(c)]
              /\ Return(c)
              /\ UNCHANGED holds
           \/ /\ o \notin holds[From(c)]
              /\ IF SkippedWhenMissing(c, o)
                 THEN Proceed(c, job[c].todo \ {o})
                 ELSE Return(c)
              /\ UNCHANGED holds
    /\ UNCHANGED <<commits, ref, snapshot, pushed>>

(* The upload of a commit object was applied and its answer lost: sent     *)
(* again it fails as existing already.                                     *)
CopyAnswerLost(c) ==
    /\ pc[c] = "copy"
    /\ ~Batch
    /\ job[c].op = "push"
    /\ \E o \in job[c].todo \cap holds[c] :
        /\ o.kind = "commit"
        /\ \A p \in job[c].todo : Before(o, p)
        /\ Copied(c, o)
    /\ Return(c)
    /\ UNCHANGED <<commits, ref, snapshot, pushed>>

(* The exit status of s5cmd ignored. *)
CopyBatch_Unchecked(c) ==
    /\ pc[c] = "copy"
    /\ Batch
    /\ \E done \in SUBSET (job[c].todo \cap holds[From(c)]) :
        holds' = [holds EXCEPT ![To(c)] = @ \cup done]
    /\ Proceed(c, {})
    /\ UNCHANGED <<commits, ref, snapshot, pushed>>

(* The whole plan as one run of s5cmd, which copies in parallel: when it   *)
(* fails, any part of the plan may have been copied.                       *)
CopyBatch(c) ==
    /\ pc[c] = "copy"
    /\ Batch
    /\ \E done \in SUBSET (job[c].todo \cap holds[From(c)]) :
        /\ holds' = [holds EXCEPT ![To(c)] = @ \cup done]
        /\ IF done = job[c].todo THEN Proceed(c, {}) ELSE Return(c)
    /\ UNCHANGED <<commits, ref, snapshot, pushed>>

----------------------------------------------------------------------------
(* Moving the ref                                                          *)

(* fast_forward_branch on the clone: nobody else moves its refs.           *)
ForwardLocal(c) ==
    LET b == job[c].branch
        tip == job[c].tip
    IN  /\ pc[c] = "forward"
        /\ job[c].op = "pull"
        /\ IF ref[c][b] = NoCommit \/ Reaches(c, ref[c][b], tip)
           THEN ref' = [ref EXCEPT ![c][b] = tip]
           ELSE UNCHANGED ref
        /\ Return(c)
        /\ UNCHANGED <<commits, holds, snapshot, pushed>>

(* What the clone believes the remote's branch to be. *)
RemoteState(c, b) ==
    IF snapshot[c][b] # Missing THEN snapshot[c][b] ELSE ref[Remote][b]

(* The ancestry test taken from the check made before copying. *)
ForwardRemote_NoCheck(c) ==
    LET b == job[c].branch
        state == ref[Remote][b]
    IN  /\ pc[c] = "forward"
        /\ job[c].op = "push"
        /\ snapshot' = [snapshot EXCEPT ![c][b] = state]
        /\ Goto(c, "cas")
        /\ job' = [job EXCEPT ![c].exp = state]
        /\ UNCHANGED <<commits, holds, ref, pushed>>

(* fast_forward_branch on the remote: the expected state is the snapshot   *)
(* of the clone, not the head read by the check.                           *)
ForwardRemote(c) ==
    LET b == job[c].branch
        state == RemoteState(c, b)
    IN  /\ pc[c] = "forward"
        /\ job[c].op = "push"
        /\ snapshot' = [snapshot EXCEPT ![c][b] = state]
        /\ IF \/ state \in {Missing, job[c].tip}
              \/ state # NoCommit /\ ~Reaches(Remote, state, job[c].tip)
           THEN Return(c)
           ELSE Goto(c, "cas") /\ job' = [job EXCEPT ![c].exp = state]
        /\ UNCHANGED <<commits, holds, ref, pushed>>

(* A put that nothing guards. *)
Cas_Unconditional(c) ==
    /\ pc[c] = "cas"
    /\ ref' = [ref EXCEPT ![Remote][job[c].branch] = job[c].tip]
    /\ Goto(c, "refresh")
    /\ UNCHANGED <<commits, holds, snapshot, pushed, job>>

(* The compare-and-set of Refs in one step.  Its put is conditional, so it *)
(* takes effect at the put or not at all.                                  *)
Cas(c) ==
    /\ pc[c] = "cas"
    /\ IF ref[Remote][job[c].branch] = job[c].exp
       THEN /\ ref' = [ref EXCEPT ![Remote][job[c].branch] = job[c].tip]
            /\ Goto(c, "refresh")
       ELSE /\ Goto(c, "conflict")
            /\ UNCHANGED ref
    /\ UNCHANGED <<commits, holds, snapshot, pushed, job>>

CasAnswerLost(c) ==
    /\ pc[c] = "cas"
    /\ ref[Remote][job[c].branch] = job[c].exp
    /\ ref' = [ref EXCEPT ![Remote][job[c].branch] = job[c].tip]
    /\ Goto(c, "conflict")
    /\ UNCHANGED <<commits, holds, snapshot, pushed, job>>

(* The snapshot set to what the clone wanted the head to be. *)
Conflict_KeepsTip(c) ==
    /\ pc[c] = "conflict"
    /\ snapshot' = [snapshot EXCEPT ![c][job[c].branch] = job[c].tip]
    /\ Return(c)
    /\ UNCHANGED <<commits, holds, ref, pushed>>

(* RefConflictError, with the snapshot brought up to date. *)
Conflict(c) ==
    /\ pc[c] = "conflict"
    /\ snapshot' = [snapshot EXCEPT ![c][job[c].branch] = ref[Remote][job[c].branch]]
    /\ Return(c)
    /\ UNCHANGED <<commits, holds, ref, pushed>>

Refresh(c) ==
    /\ pc[c] = "refresh"
    /\ snapshot' = [snapshot EXCEPT ![c][job[c].branch] = ref[Remote][job[c].branch]]
    /\ Goto(c, "reflog")
    /\ UNCHANGED <<commits, holds, ref, pushed, job>>

AppendReflog(c) ==
    /\ pc[c] = "reflog"
    /\ pushed' = [pushed EXCEPT ![c] =
                     @ \cup {[branch |-> job[c].branch, new |-> job[c].tip]}]
    /\ Return(c)
    /\ UNCHANGED <<commits, holds, ref, snapshot>>

(* The process dies, or a request fails and the command ends. *)
Stop(c) ==
    /\ pc[c] # "idle"
    /\ Return(c)
    /\ UNCHANGED <<commits, holds, ref, snapshot, pushed>>

----------------------------------------------------------------------------
Command(c) ==
    \/ \E b \in Branch : Commit(c, b)
    \/ \E b, from \in Branch : CreateBranch(c, b, from)
    \/ \E b \in Branch, s \in DOMAIN commits : Merge(c, b, s)
    \/ \E b \in Branch : StartPush(c, b)
    \/ \E b \in Branch : StartPull(c, b)
    \/ \E b \in Branch : StartFetch(c, b)

Step(c) ==
    \/ Ensure(c)
    \/ CheckPush(c)
    \/ MakePlan(c)
    \/ Copy(c)
    \/ CopyAnswerLost(c)
    \/ CopyBatch(c)
    \/ ForwardLocal(c)
    \/ ForwardRemote(c)
    \/ Cas(c)
    \/ CasAnswerLost(c)
    \/ Conflict(c)
    \/ Refresh(c)
    \/ AppendReflog(c)

Next == \E c \in Clone : Command(c) \/ Step(c) \/ Stop(c)

Spec == Init /\ [][Next]_vars

----------------------------------------------------------------------------
(* Properties                                                              *)

(* The ref moves last: whatever transfers were interrupted, repeated or    *)
(* interleaved, a store that has a commit has its trees and blobs and the  *)
(* whole first-parent history, and a ref names a commit of its store.      *)
(* (_build_plan's order, oldest commit first and each commit last, is what *)
(* lets a later transfer stop its walk at the first commit it finds.)      *)
StoresComplete ==
    \A s \in Store :
        /\ \A i \in DOMAIN commits : Has(s, "commit", i) =>
              \A j \in Chain(commits, i) : AllOf(j) \subseteq holds[s]
        /\ \A b \in Branch : ref[s][b] \in DOMAIN commits =>
              Has(s, "commit", ref[s][b])

(* A ref never names a commit its store does not have, even when batches   *)
(* fail half way (push and pull move the ref after execute_transfer_plan). *)
HeadsHeld ==
    \A s \in Store, b \in Branch :
        ref[s][b] \in DOMAIN commits => Has(s, "commit", ref[s][b])

(* What push reported as done stays in the remote's history, whatever      *)
(* other clones push later.                                                *)
PushesKept ==
    \A c \in Clone : \A e \in pushed[c] :
        e.new \in Chain(commits, ref[Remote][e.branch])

(* What a clone believes of the remote, and hands to the compare-and-set,  *)
(* is an earlier head of the branch.                                       *)
RemoteViewsAreHistory ==
    \A c \in Clone :
        /\ \A b \in Branch : Extends(commits, snapshot[c][b], ref[Remote][b])
        /\ pc[c] \in {"cas", "refresh", "reflog", "conflict"} =>
              Extends(commits, job[c].exp, ref[Remote][job[c].branch])

(* push's "a race between the pre-check and the CAS will result in a       *)
(* RefConflictError rather than a silent overwrite", and the same of pull: *)
(* in no store does a head move to anything but a descendant.              *)
SyncNeverRewinds ==
    [][\A s \in Store, b \in Branch : Extends(commits', ref[s][b], ref'[s][b])]_ref
=============================================================================
