------------------------------ MODULE Objects ------------------------------
(***************************************************************************)
(* The object store of one repository under writers that crash and under   *)
(* gc (objects/local.py, objects/s3.py, ReflakeRepository.gc).             *)
(*                                                                         *)
(* Objects are named by their content, so what a commit or a tree refers   *)
(* to is a constant: Parents, TreeOf and Holds say it for every object     *)
(* that a history could ever need.  The state is which of them the store   *)
(* has.  Writers are commands of processes: a commit (or merge, import,    *)
(* verify), whose commit object is new, and a transfer, which copies the   *)
(* commits of another repository object by object and then moves a branch  *)
(* or, as a fetch, does not.                                               *)
(*                                                                         *)
(* The store is a bucket, where a put is atomic and conditional and so is  *)
(* the CAS of a ref, or a directory, where a commit object, a blob of a    *)
(* commit and a ref are truncated and then written in place, and where the *)
(* CAS is a comparison and a write.                                        *)
(***************************************************************************)
EXTENDS Integers, Sequences, FiniteSets

CONSTANTS Procs, Branches,
          Commits, Trees, Blobs, Footers,
          Parents,          \* commit: its parents, the head it extends first
          TreeOf,           \* commit: its root tree
          Holds,            \* tree: the objects its entries name
          NoCommit,         \* an empty branch ref
          Missing,          \* no such ref
          NoObject,
          DefaultBranch, FirstCommit,   \* what the repository starts with
          MaxGcs, MaxCrashes            \* bounds

Object == Commits \cup Trees \cup Blobs \cup Footers

ASSUME ObjectsConstantsOK ==
    /\ Parents \in [Commits -> Seq(Commits)]
    /\ TreeOf \in [Commits -> Trees]
    /\ Holds \in [Trees -> SUBSET (Trees \cup Blobs \cup Footers)]
    /\ {NoCommit, Missing, NoObject} \cap Object = {}
    /\ NoCommit # Missing
    /\ DefaultBranch \in Branches
    /\ FirstCommit \in Commits /\ Parents[FirstCommit] = <<>>
    /\ MaxGcs \in Nat /\ MaxCrashes \in Nat

(* What the trees under a tree name, and the tree DAG of a commit. *)
Below[t \in Trees] == Holds[t] \cup UNION {Below[s] : s \in Holds[t] \cap Trees}

Content(c) == {TreeOf[c]} \cup Below[TreeOf[c]]

FirstParent(c) == IF Parents[c] = <<>> THEN NoCommit ELSE Head(Parents[c])

(* An object is named by the digest of its content, under its kind, so it  *)
(* names only objects that were there before it: among any trees is one    *)
(* with none of them under it, and so for commits.                         *)
ASSUME ObjectsGraphOK ==
    /\ Commits \cap (Trees \cup Blobs \cup Footers) = {}
    /\ Trees \cap (Blobs \cup Footers) = {} /\ Blobs \cap Footers = {}
    /\ \A S \in SUBSET Trees : S # {} => \E t \in S : Holds[t] \cap S = {}
    /\ \A S \in SUBSET Commits : S # {} => \E c \in S : FirstParent(c) \notin S

(* The loop over first parents: transfers and gc follow no other. *)
Chain[c \in Commits \cup {NoCommit}] ==
    IF c = NoCommit THEN {} ELSE {c} \cup Chain[FirstParent(c)]

WithContent(cs) == cs \cup UNION {Content(c) : c \in cs}

History(v) == IF v \in Commits THEN WithContent(Chain[v]) ELSE {}

----------------------------------------------------------------------------
VARIABLES store,    \* "local" or "s3"
          stored,   \* object: "absent", "torn" (begun and not finished), "whole"
          heads,    \* branch: its ref
          work,     \* process: its running command
          gc,       \* the running gc
          cut,      \* objects whose writer crashed while it wrote them
          risk,     \* a prune ran against a writer or was interrupted
          left      \* gcs and crashes left

vars == <<store, stored, heads, work, gc, cut, risk, left>>

Idle == [op |-> "none", pc |-> "idle", branch |-> DefaultBranch,
         commit |-> NoCommit, todo |-> {}, at |-> NoObject,
         spoiled |-> FALSE, exp |-> NoCommit]

NoGc == [pc |-> "idle", todo |-> {}, reached |-> {},
         kinds |-> <<>>, orphans |-> {}, began |-> [b \in Branches |-> Missing],
         alone |-> TRUE, clean |-> TRUE]

Work == [op : {"none", "commit", "push", "fetch"},
         pc : {"idle", "copy", "open", "write", "cas", "swap", "ref"},
         branch : Branches, commit : Commits \cup {NoCommit},
         todo : SUBSET Object, at : Object \cup {NoObject},
         spoiled : BOOLEAN, exp : Commits \cup {NoCommit, Missing}]

Kinds == <<"commit", "tree", "blob", "footer">>

OfKind(kind) == CASE kind = "commit" -> Commits [] kind = "tree" -> Trees
                  [] kind = "blob" -> Blobs     [] OTHER -> Footers

Gc == [pc : {"idle", "mark", "sweep"}, todo : SUBSET Branches,
       reached : SUBSET Object, kinds : Seq({Kinds[i] : i \in DOMAIN Kinds}),
       orphans : SUBSET Object, began : [Branches -> Commits \cup {NoCommit, Missing}],
       alone : BOOLEAN, clean : BOOLEAN]

TypeOK ==
    /\ store \in {"local", "s3"}
    /\ stored \in [Object -> {"absent", "torn", "whole"}]
    /\ heads \in [Branches -> Commits \cup {NoCommit, Missing}]
    /\ work \in [Procs -> Work]
    /\ gc \in Gc
    /\ cut \subseteq Object
    /\ risk \in BOOLEAN
    /\ left \in [gcs : 0..MaxGcs, crashes : 0..MaxCrashes]

(* A repository with one commit on its default branch. *)
Init ==
    /\ store \in {"local", "s3"}
    /\ stored = [o \in Object |->
                    IF o \in History(FirstCommit) THEN "whole" ELSE "absent"]
    /\ heads = [b \in Branches |->
                   IF b = DefaultBranch THEN FirstCommit ELSE Missing]
    /\ work = [p \in Procs |-> Idle]
    /\ gc = NoGc
    /\ cut = {}
    /\ risk = FALSE
    /\ left = [gcs |-> MaxGcs, crashes |-> MaxCrashes]

(* object_exists, and a read that can be parsed. *)
Exists(o) == stored[o] # "absent"

Readable(os) == \A o \in os : stored[o] = "whole"

----------------------------------------------------------------------------
(* Starting a command                                                      *)

(* Mutant: the commit object before its trees. *)
NextToWrite_CommitEarly(op, todo) ==
    LET commit == CHOOSE d \in todo \cap Commits :
                     todo \cap Commits \cap Chain[d] = {d}
        leaves == (todo \cap Content(commit)) \ Trees
    IN  IF leaves # {} THEN leaves ELSE {commit}

(* What is written next, of what is left to write (the set todo).  A       *)
(* transfer copies commit by commit, oldest first, and for each its trees, *)
(* then its blobs and footers, then the commit object; a commit stores the *)
(* leaves first and then builds the trees. *)
NextToWrite(op, todo) ==
    LET commit == CHOOSE d \in todo \cap Commits :
                     todo \cap Commits \cap Chain[d] = {d}
        mine == todo \cap Content(commit)
        first == IF op = "commit" THEN mine \ Trees ELSE mine \cap Trees
    IN  IF first # {} THEN first ELSE IF mine # {} THEN mine ELSE {commit}

(* Mutant: the tip alone. *)
ToCopy_TipOnly(c) == {d \in {c} : ~Exists(d)}

(* _collect_commits_to_push: from c along first parents, up to the first   *)
(* commit that the store has. *)
ToCopy(c) ==
    {d \in Chain[c] : \A e \in Chain[c] : d \in Chain[e] => ~Exists(e)}

(* A writer comes beside a gc that runs.  In a directory nothing is said   *)
(* of that, and the two are kept apart. *)
Beside ==
    /\ store = "local" => gc.pc = "idle"
    /\ gc' = [gc EXCEPT !.alone = @ /\ gc.pc = "idle"]
    /\ risk' = (risk \/ gc.pc = "sweep")

Begin(p, w) ==
    /\ work[p] = Idle
    /\ work' = [work EXCEPT ![p] = w]
    /\ Beside
    /\ UNCHANGED <<store, stored, heads, cut, left>>

(* A commit or a merge whose commit object will be c, on the head of b.    *)
(* What its tree shares with its parents' trees is there and is not        *)
(* written.  Its id holds the time, so it is no other command's. *)
BeginCommit(p, b, c) ==
    /\ work[p] = Idle
    /\ heads[b] = FirstParent(c)
    /\ \A i \in DOMAIN Parents[c] :
          Readable(WithContent({Parents[c][i]}) \cap (Commits \cup Trees))
    /\ ~Exists(c)
    /\ \A q \in Procs : work[q].commit # NoCommit => c \notin Chain[work[q].commit]
    /\ Begin(p, [Idle EXCEPT
          !.op = "commit", !.pc = "copy", !.branch = b, !.commit = c,
          !.exp = heads[b],
          !.todo = {c} \cup (Content(c) \ UNION {Content(Parents[c][i]) :
                                                     i \in DOMAIN Parents[c]})])

(* push or pull (op = "push") of b, or fetch, with c the head of b in the  *)
(* other repository, where no commit is that is still being made here.     *)
(* The plan is what this store lacks. *)
BeginTransfer(p, b, c, op) ==
    /\ work[p] = Idle
    /\ op \in {"push", "fetch"}
    /\ op = "push" => /\ heads[b] \in Chain[c] \cup {NoCommit}
                      /\ heads[b] # c
    /\ op = "fetch" => b = DefaultBranch /\ ~Exists(c)
    /\ \A q \in Procs : work[q].op = "commit" => work[q].commit \notin Chain[c]
    /\ Begin(p, [Idle EXCEPT
          !.op = op, !.pc = "copy", !.branch = b, !.commit = c,
          !.todo = {o \in WithContent(ToCopy(c)) : ~Exists(o)}])

(* branch: a new ref on the head of another one. *)
CreateBranch(p, b, from) ==
    /\ work[p] = Idle
    /\ heads[b] = Missing /\ heads[from] # Missing
    /\ heads' = [heads EXCEPT ![b] = heads[from]]
    /\ Beside
    /\ UNCHANGED <<store, stored, work, cut, left>>

----------------------------------------------------------------------------
(* Writing objects                                                         *)

(* write_commit_bytes and write_blob_file of a directory open the object   *)
(* itself; what is transferred and all trees and footers are renamed into  *)
(* place. *)
InPlace(p, o) ==
    /\ store = "local"
    /\ \/ o \in Commits
       \/ o \in Blobs /\ work[p].op = "commit"

(* The entries of a tree come in one order. *)
Upcoming(p) == CHOOSE o \in NextToWrite(work[p].op, work[p].todo) : TRUE

Copying(p) == work[p].pc = "copy" /\ work[p].todo # {}

(* A put with IfNoneMatch, or a rename unless the object exists.  One that *)
(* exists is taken as it is. *)
Put(p) ==
    LET o == Upcoming(p)
    IN  /\ Copying(p) /\ ~InPlace(p, o)
        /\ o \in Commits => ~Exists(o)
        /\ stored' = [stored EXCEPT ![o] = IF Exists(o) THEN @ ELSE "whole"]
        /\ work' = [work EXCEPT ![p].todo = @ \ {o}]
        /\ UNCHANGED <<store, heads, gc, cut, risk, left>>

(* if_missing, before the file is opened. *)
Check(p) ==
    LET o == Upcoming(p)
    IN  /\ Copying(p) /\ InPlace(p, o)
        /\ o \in Commits => ~Exists(o)
        /\ work' = [work EXCEPT ![p] =
                       IF Exists(o) THEN [work[p] EXCEPT !.todo = @ \ {o}]
                       ELSE [work[p] EXCEPT !.pc = "open", !.at = o]]
        /\ UNCHANGED <<store, stored, heads, gc, cut, risk, left>>

(* A transferred commit object that another command wrote meanwhile: the   *)
(* whole transfer fails. *)
Refused(p) ==
    /\ Copying(p)
    /\ Upcoming(p) \in Commits /\ Exists(Upcoming(p))
    /\ work' = [work EXCEPT ![p] = Idle]
    /\ UNCHANGED <<store, stored, heads, gc, cut, risk, left>>

(* The other processes that have o open no longer decide what is there. *)
SpoiledBy(w, o) ==
    [q \in Procs |-> IF w[q].pc = "write" /\ w[q].at = o
                     THEN [w[q] EXCEPT !.spoiled = TRUE] ELSE w[q]]

(* open("wb") truncates, whatever is there by now. *)
Open(p) ==
    /\ work[p].pc = "open"
    /\ stored' = [stored EXCEPT ![work[p].at] = "torn"]
    /\ work' = [SpoiledBy(work, work[p].at) EXCEPT ![p].pc = "write"]
    /\ UNCHANGED <<store, heads, gc, cut, risk, left>>

(* The last byte.  When the file was truncated under it, what is there is  *)
(* what the other process has written; when it was unlinked, nothing is. *)
Close(p) ==
    LET o == work[p].at
    IN  /\ work[p].pc = "write"
        /\ stored' = [stored EXCEPT ![o] =
                         IF work[p].spoiled THEN @ ELSE "whole"]
        /\ work' = [work EXCEPT ![p] = [work[p] EXCEPT !.pc = "copy", !.at = NoObject,
                                              !.spoiled = FALSE, !.todo = @ \ {o}]]
        /\ UNCHANGED <<store, heads, gc, cut, risk, left>>

Copied(p) == work[p].pc = "copy" /\ work[p].todo = {}

Return(p) ==
    /\ work' = [work EXCEPT ![p] = Idle]
    /\ UNCHANGED <<store, stored, gc, cut, risk, left>>

(* A fetch ends with the objects. *)
Fetched(p) ==
    /\ work[p].op = "fetch" /\ Copied(p)
    /\ Return(p) /\ UNCHANGED heads

(* fast_forward_branch, which reads the head again. *)
Forward(p) ==
    LET c == work[p].commit
        head == heads[work[p].branch]
    IN  /\ work[p].op = "push" /\ Copied(p)
        /\ IF head = NoCommit \/ (head # c /\ head \in Chain[c] /\ Readable({c, head}))
           THEN work' = [work EXCEPT ![p].pc = "cas", ![p].exp = head]
           ELSE work' = [work EXCEPT ![p] = Idle]
        /\ UNCHANGED <<store, stored, heads, gc, cut, risk, left>>

AtCas(p) == work[p].pc = "cas" \/ (work[p].op = "commit" /\ Copied(p))

(* compare_and_set_branch_ref of a bucket: a conditional put. *)
Swap(p) ==
    LET w == work[p]
    IN  /\ store = "s3" /\ AtCas(p)
        /\ heads' = [heads EXCEPT ![w.branch] = IF @ = w.exp THEN w.commit ELSE @]
        /\ Return(p)

(* compare_and_set_branch_ref of a directory: a comparison, and then       *)
(* write_text, which truncates and then writes. *)
Compare(p) ==
    /\ store = "local" /\ AtCas(p)
    /\ work' = [work EXCEPT ![p] =
                   IF heads[@.branch] = @.exp THEN [@ EXCEPT !.pc = "swap"] ELSE Idle]
    /\ UNCHANGED <<store, stored, heads, gc, cut, risk, left>>

TruncateRef(p) ==
    /\ work[p].pc = "swap"
    /\ heads' = [heads EXCEPT ![work[p].branch] = NoCommit]
    /\ work' = [work EXCEPT ![p].pc = "ref"]
    /\ UNCHANGED <<store, stored, gc, cut, risk, left>>

WriteRef(p) ==
    /\ work[p].pc = "ref"
    /\ heads' = [heads EXCEPT ![work[p].branch] = work[p].commit]
    /\ Return(p)

(* Mutant: also the file it has not opened yet. *)
CutBy_Early(p) == {work[p].at}

CutBy(p) == IF work[p].pc = "write" THEN {work[p].at} ELSE {}

Crash(p) ==
    /\ work[p] # Idle /\ left.crashes > 0
    /\ work' = [work EXCEPT ![p] = Idle]
    /\ cut' = cut \cup CutBy(p)
    /\ left' = [left EXCEPT !.crashes = @ - 1]
    /\ UNCHANGED <<store, stored, heads, gc, risk>>

----------------------------------------------------------------------------
(* gc                                                                      *)

(* The branches are listed first. *)
GcBegin ==
    /\ gc.pc = "idle" /\ left.gcs > 0
    /\ store = "local" => \A p \in Procs : work[p] = Idle
    /\ gc' = [NoGc EXCEPT !.pc = "mark", !.began = heads,
                          !.todo = {b \in Branches : heads[b] # Missing},
                          !.alone = \A p \in Procs : work[p] = Idle,
                          !.clean = ~risk]
    /\ left' = [left EXCEPT !.gcs = @ - 1]
    /\ UNCHANGED <<store, stored, heads, work, cut, risk>>

(* iter_tree_hashes and iter_leaf_refs: a tree that is not there is passed *)
(* over. *)
Walked(root) ==
    LET W[t \in Trees] ==
          {t} \cup IF Exists(t)
                   THEN (Holds[t] \ Trees) \cup UNION {W[s] : s \in Holds[t] \cap Trees}
                   ELSE {}
    IN  W[root]

(* What the walk from head v adds to what is reached. *)
(* Mutant: the head and not its history. *)
Reach_HeadOnly(v) == IF v \in Commits THEN {v} \cup Walked(TreeOf[v]) ELSE {}

Reach(v) ==
    IF v \in Commits THEN Chain[v] \cup UNION {Walked(TreeOf[c]) : c \in Chain[v]}
    ELSE {}

(* The walk from the head of one branch, as it is when its turn comes.  A  *)
(* commit that cannot be read ends gc. *)
GcMark(b) ==
    /\ gc.pc = "mark" /\ b \in gc.todo
    /\ gc' = IF heads[b] \in Commits /\ ~Readable(Chain[heads[b]] \ gc.reached)
             THEN NoGc
             ELSE [gc EXCEPT !.todo = @ \ {b}, !.reached = @ \cup Reach(heads[b])]
    /\ UNCHANGED <<store, stored, heads, work, cut, risk, left>>

(* With dry_run gc only counts, and is done when it has marked. *)
(* Mutant: footers forgotten. *)
SweptKinds_NoFooters == SubSeq(Kinds, 1, 3)

SweptKinds == Kinds

GcMarked ==
    /\ gc.pc = "mark" /\ gc.todo = {}
    /\ gc' \in {NoGc, [gc EXCEPT !.pc = "sweep", !.kinds = SweptKinds]}
    /\ UNCHANGED <<store, stored, heads, work, cut, risk, left>>

(* The listing of the next kind. *)
GcList ==
    /\ gc.pc = "sweep" /\ gc.orphans = {} /\ gc.kinds # <<>>
    /\ gc' = [gc EXCEPT !.kinds = Tail(@),
                        !.orphans = {o \in OfKind(Head(gc.kinds)) : Exists(o)} \ gc.reached]
    /\ UNCHANGED <<store, stored, heads, work, cut, risk, left>>

GcDelete ==
    LET o == CHOOSE x \in gc.orphans : TRUE
    IN  /\ gc.pc = "sweep" /\ gc.orphans # {}
        /\ stored' = [stored EXCEPT ![o] = "absent"]
        /\ work' = SpoiledBy(work, o)
        /\ gc' = [gc EXCEPT !.orphans = @ \ {o}]
        /\ risk' = (risk \/ ~gc.alone)
        /\ UNCHANGED <<store, heads, cut, left>>

GcDone ==
    /\ gc.pc = "sweep" /\ gc.orphans = {} /\ gc.kinds = <<>>
    /\ gc' = NoGc
    /\ UNCHANGED <<store, stored, heads, work, cut, risk, left>>

(* The process of gc dies.  Among the orphan commits some may be left      *)
(* without their parents. *)
GcCrash ==
    /\ gc.pc = "sweep" /\ left.crashes > 0
    /\ gc' = NoGc
    /\ risk' = (risk \/ gc.orphans \cap Commits # {})
    /\ left' = [left EXCEPT !.crashes = @ - 1]
    /\ UNCHANGED <<store, stored, heads, work, cut>>

----------------------------------------------------------------------------
Write(p) == Put(p) \/ Check(p) \/ Refused(p) \/ Open(p) \/ Close(p)

Publish(p) ==
    Fetched(p) \/ Forward(p) \/ Swap(p) \/ Compare(p) \/ TruncateRef(p) \/ WriteRef(p)

Next ==
    \/ \E p \in Procs :
          \/ \E b \in Branches, c \in Commits :
                \/ BeginCommit(p, b, c)
                \/ \E op \in {"push", "fetch"} : BeginTransfer(p, b, c, op)
          \/ \E b, from \in Branches : CreateBranch(p, b, from)
          \/ Write(p) \/ Publish(p) \/ Crash(p)
    \/ \E b \in Branches : GcMark(b)
    \/ GcBegin \/ GcMarked \/ GcList \/ GcDelete \/ GcDone \/ GcCrash

Spec == Init /\ [][Next]_vars

----------------------------------------------------------------------------
(* Properties                                                              *)

(* What makes "the store has it, stop" sound in every plan and every skip: *)
(* a commit object that exists, published or left behind by a crash, has   *)
(* its whole tree DAG and its first parent beside it, unless gc is about   *)
(* to delete it.  Writers order their writes for it and gc deletes commits *)
(* before what they need (repository_sync.py _build_plan, repository.py    *)
(* gc); a prune that ran beside a writer or was interrupted breaks it. *)
CommitsClosed ==
    ~risk => \A c \in Commits \ gc.orphans : Exists(c) =>
                /\ \A o \in Content(c) : Exists(o)
                /\ FirstParent(c) # NoCommit => Exists(FirstParent(c))

(* Every object that a branch head reaches over first parents can be read, *)
(* except, in a directory, one that some process has open for writing or   *)
(* died while it wrote (local.py write_blob_file and write_commit_bytes    *)
(* write in place, and a torn file counts as existing). *)
HeadsWhole ==
    ~risk => \A b \in Branches : \A o \in History(heads[b]) :
                \/ stored[o] = "whole"
                \/ /\ stored[o] = "torn" /\ store = "local"
                   /\ o \in cut \/ \E p \in Procs : work[p].pc = "write" /\ work[p].at = o

(* gc in a bucket deletes nothing that a head reached over first parents   *)
(* when it began, whatever is written and published while it runs          *)
(* (repository.py gc reads the branches one by one).  Its docstring and    *)
(* docs/architecture.md, section 11, say the commit DAG instead: what only *)
(* the second parent of a merge reaches is deleted by the code.            *)
GcSparesHistory ==
    [][ store = "s3" /\ gc.clean =>
        \A o \in Object : Exists(o) /\ stored'[o] = "absent" =>
            \A b \in Branches : o \notin History(gc.began[b]) ]_vars

(* The commit DAG from a head: a merge has both its parents in it.         *)
Ancestry(v) ==
    {c \in Commits : \A S \in SUBSET Commits :
        /\ v \in S
        /\ \A d \in S : \A i \in DOMAIN Parents[d] : Parents[d][i] \in S
        => c \in S}

(* A prune that had the repository to itself leaves no garbage: nothing is *)
(* there that the commit DAG of no head has, and the leftovers of crashed  *)
(* writers, torn ones included, of all kinds are gone.  (What the DAG has  *)
(* over second parents may be gone too, see GcSparesHistory.)              *)
GcCollects ==
    [][ GcDone /\ gc.alone =>
        \A o \in Object : Exists(o) =>
            \E b \in Branches : o \in WithContent(Ancestry(heads[b])) ]_vars
=============================================================================
