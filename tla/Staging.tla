------------------------------ MODULE Staging ------------------------------
(***************************************************************************)
(* The staging area of one branch, the commits that publish it and the     *)
(* views that show it.                                                     *)
(*                                                                         *)
(* One working tree and its client state (the stage file and the snapshot  *)
(* of the branch) are used by processes that load the stage, work, and     *)
(* save it; users edit the files meanwhile, peers commit to the branch,    *)
(* and a process may die between any two steps.  A file lives at a place,  *)
(* the sequence of the components of its URI: the working file of a path   *)
(* is at the place that equals the path, other places are outside the      *)
(* working tree.  A commit is seen as the map from logical paths to its    *)
(* entries, which Trees.tla stores as a tree; Refs.tla has the details of  *)
(* the compare-and-set, which is one step here.                            *)
(***************************************************************************)
EXTENDS FileMaps, FiniteSets

CONSTANTS Procs,          \* processes on this working tree
          Contents,       \* what a file may hold
          Nowhere,        \* no place, no content: None
          Modes,          \* identity modes, of "blake3" and "meta"
          Identity,       \* the identity mode of the configuration
          Outside,        \* places outside the working tree
          Earlier,        \* pairs of paths in the order of iter_all_entries
          Continues,      \* pairs of paths: the first goes on, as a string, from
                          \* the second with characters of the same component
          StagedRetries,  \* _STAGED_COMMIT_RETRIES
          \* inputs
          Added,          \* a source, a destination or Nowhere, and a mode
          RemovedNames,   \* what rm names
          Moves,          \* pairs of a source and a destination
          PeerCommits,    \* pairs of a map of additions and a set of removals
          Edits,          \* pairs of a place and what users write there
          Verified,       \* the prefixes verify is asked for
          Restored,       \* the sets of paths restore is asked for
          \* bounds
          Paths,          \* the logical paths: no command stages others
          MaxCommits      \* nobody commits after this many

ASSUME ModesAssumption ==
    Identity \in Modes /\ Modes \subseteq {"blake3", "meta"}

ASSUME NowhereAssumption == Nowhere \notin Contents /\ Nowhere \notin Outside

ASSUME RetriesAssumption == StagedRetries \in Nat \ {0}

(* A path is a sequence of components.                                     *)
ASSUME PathsAssumption == \A q \in Paths \cup RemovedNames : q \in Seq(Range(q))

VARIABLES history,   \* the files of each commit of the branch, oldest first
          known,     \* client state: the snapshot, a position in history
          stage,     \* client state: the staged changes by name
          files,     \* places to the contents of the files there
          proc       \* what each process does

vars == <<history, known, stage, files, proc>>

Place == Paths \cup Outside

(* A leaf of a tree: a blob has no source, a source pointer has no blob.   *)
EntryOf(mode, content, place) ==
    [hash |-> content, mode |-> mode,
     from |-> IF mode = "meta" THEN place ELSE Nowhere]

Entry ==
    {EntryOf(m, c, q) : m \in {"blake3", "meta"}, c \in Contents, q \in Place}

AreEntries(f) == DOMAIN f \subseteq Paths /\ \A q \in DOMAIN f : f[q] \in Entry

ASSUME NoFileAssumption == NoFile \notin Entry

(* What peers commit are entries, and users write contents to places.      *)
ASSUME InputsAssumption ==
    /\ \A a \in Added : a[3] \in Modes
    /\ \A c \in PeerCommits : AreEntries(c[1])
    /\ \A e \in Edits : e[1] \in Place /\ e[2] \in Contents

(* StageChange.  An addition names the place it comes from, or the blob.   *)
Removal ==
    [action |-> "remove", mode |-> Nowhere, from |-> Nowhere, blob |-> Nowhere]

Addition(mode, place, blob) ==
    [action |-> "add", mode |-> mode, from |-> place, blob |-> blob]

Change ==
    {Removal} \cup
    {Addition(m, q, b) : m \in {"blake3", "meta"}, q \in Place \cup {Nowhere},
                         b \in Contents \cup {Nowhere}}

IsAddition(change) == change.action = "add"
IsRemoval(change)  == change.action = "remove"

AddedIn(s)   == {n \in DOMAIN s : IsAddition(s[n])}
RemovedIn(s) == {n \in DOMAIN s : IsRemoval(s[n])}

BranchFiles == history[Len(history)]

(* A commit of what is staged, not an import or a verify.                  *)
TakesStage(j) == j.op \in {"staged", "full"}

(* Where a command is, and its local variables: the stage it has loaded or *)
(* is to save, the entries of its additions, and for one attempt to commit *)
(* the snapshot and the new files.                                         *)
Job(at, op, s, adds, base, new) ==
    [at |-> at, op |-> op, stage |-> s, adds |-> adds,
     base |-> base, new |-> new, attempt |-> 0]

Idle == Job("idle", "none", NoFiles, NoFiles, 0, NoFiles)

Init ==
    /\ history = <<NoFiles>>
    /\ known = 1
    /\ stage = NoFiles
    /\ files = NoFiles
    /\ proc = [p \in Procs |-> Idle]

-----------------------------------------------------------------------------
(* What the commands stage *)

(* The working files: walk_files over the root.                            *)
WorkingFiles == {q \in DOMAIN files : q \notin Outside}

(* expand_stage_source, a file or a directory on disk: each file below the *)
(* source goes to the destination, by default to where it is in the        *)
(* working tree, or to the last component of a source that is outside.     *)
SourceFiles(source) == {q \in DOMAIN files : Under(q, source)}

Destination(source, destination) ==
    IF destination # Nowhere THEN destination
    ELSE IF SourceFiles(source) \subseteq Outside THEN <<Last(source)>>
    ELSE source

Expanded(source, destination) ==
    LET to(q) == IF q = source /\ SourceFiles(source) # {source}
                 THEN Append(Destination(source, destination), Last(source))
                 ELSE MovedPath(q, source, Destination(source, destination))
    IN  [n \in {to(q) : q \in SourceFiles(source)} |->
            CHOOSE q \in SourceFiles(source) : to(q) = n]

(* repo_add: the expanded sources are additions, over what is staged.      *)
WithAdditions(s, expanded, mode) ==
    Over([n \in DOMAIN expanded |-> Addition(mode, expanded[n], Nowhere)], s)

(* repo_rm *)
WithRemoval(s, name) == Over([n \in {name} |-> Removal], s)

Moving(f, source) == {q \in DOMAIN f : Under(q, source)}

(* repo_move_staged goes through the entries in order, and stages for each *)
(* a removal and an addition; the last change of a name stays.             *)
WithMove(s, f, source, destination) ==
    LET moving  == Moving(f, source)
        to(q)   == MovedPath(q, source, destination)
        kept(n) == {q \in moving : to(q) = n /\ (n \in moving => <<n, q>> \in Earlier)}
        change(n) ==
            IF kept(n) = {} THEN Removal
            ELSE LET e == f[CHOOSE q \in kept(n) : TRUE]
                 IN  Addition(e.mode, e.from,
                              IF e.mode = "blake3" THEN e.hash ELSE Nowhere)
    IN  Over([n \in moving \cup {to(q) : q \in moving} |-> change(n)], s)

(* The command has loaded the stage and goes on to save what it made of it.*)
GoSave(p, s) ==
    /\ proc' = [proc EXCEPT ![p] = Job("save", "none", s, NoFiles, 0, NoFiles)]
    /\ UNCHANGED <<history, known, stage, files>>

(* repo_add, up to the save: a source without files is an error.           *)
Add(p) ==
    /\ proc[p].at = "idle"
    /\ \E a \in Added :
          /\ SourceFiles(a[1]) # {}
          /\ DOMAIN Expanded(a[1], a[2]) \subseteq Paths
          /\ GoSave(p, WithAdditions(stage, Expanded(a[1], a[2]), a[3]))

Rm(p) ==
    /\ proc[p].at = "idle"
    /\ \E n \in RemovedNames : GoSave(p, WithRemoval(stage, n))

(* The move reads the branch in the store, not the client's snapshot.      *)
MoveStaged(p) ==
    /\ proc[p].at = "idle"
    /\ \E m \in Moves :
          /\ Moving(BranchFiles, m[1]) # {}
          /\ {MovedPath(q, m[1], m[2]) : q \in Moving(BranchFiles, m[1])} \subseteq Paths
          /\ GoSave(p, WithMove(stage, BranchFiles, m[1], m[2]))

(* StagingArea.save *)
Save(p) ==
    /\ proc[p].at = "save"
    /\ stage' = proc[p].stage
    /\ proc' = [proc EXCEPT ![p] = Idle]
    /\ UNCHANGED <<history, known, files>>

-----------------------------------------------------------------------------
(* Commits *)

(* entry_from_stage_change: the source if one is named, else the working   *)
(* file, else the blob; an error, no entry, if there is none of them.      *)
EntriesFor(change, path, mode) ==
    IF change.from # Nowhere
    THEN {EntryOf(mode, files[q], q) : q \in {change.from} \cap DOMAIN files}
    ELSE IF path \in WorkingFiles
    THEN {EntryOf(mode, files[path], path)}
    ELSE {EntryOf(mode, b, path) :
            b \in {c \in {change.blob} : c # Nowhere /\ mode = "blake3"}}

Materialised(s, path) == EntriesFor(s[path], path, s[path].mode)

CanMaterialise(s) == \A n \in AddedIn(s) : Materialised(s, n) # {}

Additions(s) == [n \in AddedIn(s) |-> CHOOSE e \in Materialised(s, n) : TRUE]

(* A file of the working tree in a full commit: the parent's leaf stays if *)
(* the file is the same by the parent's identity.  (Footers are not part   *)
(* of an entry here: when they are captured, a kept leaf of a Parquet file *)
(* that has none gets one, and a source pointer then the file's own URI.)  *)
WorktreeEntry(parent, q) ==
    IF q \in DOMAIN parent /\ parent[q].mode = Identity /\ parent[q].hash = files[q]
    THEN parent[q]
    ELSE EntryOf(Identity, files[q], q)

Worktree(parent) == [q \in WorkingFiles |-> WorktreeEntry(parent, q)]

(* commit, up to its loop: the stage is loaded and its additions are read, *)
(* once for all attempts.                                                  *)
Commit(p) ==
    /\ proc[p].at = "idle"
    /\ CanMaterialise(stage)
    /\ \E op \in {"staged", "full"} :
          proc' = [proc EXCEPT ![p] =
                      Job("build", op, stage, Additions(stage), 0, NoFiles)]
    /\ UNCHANGED <<history, known, stage, files>>

(* The entries materialize_s3_entries makes: the listing under the source, *)
(* named from the source on, as far as the path filters match.             *)
Imported(source, kept, mode) ==
    LET to(q) == IF q = source THEN <<Last(q)>> ELSE SubSeq(q, Len(source) + 1, Len(q))
    IN  [n \in {to(q) : q \in kept} |->
            LET q == CHOOSE r \in kept : to(r) = n IN EntryOf(mode, files[q], q)]

(* repo_import_s3: the parent is read first, nothing is staged.            *)
ImportS3(p) ==
    /\ proc[p].at = "idle"
    /\ \E a \in Added :
          \E kept \in SUBSET (SourceFiles(a[1]) \cap Outside) :
             LET adds == Imported(a[1], kept, a[3])
             IN  /\ DOMAIN adds \subseteq Paths
                 /\ proc' = [proc EXCEPT ![p] =
                      Job("cas", "import", NoFiles, adds, known,
                          Over(adds, history[known]))]
    /\ UNCHANGED <<history, known, stage, files>>

(* repo_verify: the source pointers below a prefix become blobs of what is *)
(* in the sources now.  It reads the branch in the store and commits with  *)
(* the token of the snapshot.                                              *)
Pointers(f, prefix) == {q \in DOMAIN f : f[q].mode = "meta" /\ Under(q, prefix)}

Verify(p) ==
    /\ proc[p].at = "idle"
    /\ \E prefix \in Verified :
          LET found == Pointers(BranchFiles, prefix)
              blobs == [q \in found |->
                           EntryOf("blake3", files[BranchFiles[q].from], q)]
          IN  /\ found # {}
              /\ \A q \in found : BranchFiles[q].from \in DOMAIN files
              /\ proc' = [proc EXCEPT ![p] =
                      Job("cas", "verify", NoFiles, blobs, known,
                          Over(blobs, BranchFiles))]
    /\ UNCHANGED <<history, known, stage, files>>

(* One attempt: the new tree on top of the commit of the snapshot.         *)
Tree(p, parent) ==
    LET removed == RemovedIn(proc[p].stage)
    IN  IF proc[p].op = "staged" THEN Staged(parent, proc[p].adds, removed)
        ELSE FullCommit(parent, Worktree(parent), proc[p].adds, removed)

(* Mutant: the tree of the first attempt is offered again on a new head.   *)
Build_Once(p) ==
    /\ proc[p].at = "build"
    /\ proc' = [proc EXCEPT ![p].at = "cas", ![p].base = known,
                            ![p].attempt = @ + 1,
                            ![p].new = IF proc[p].attempt > 0 THEN @
                                       ELSE Tree(p, history[known])]
    /\ UNCHANGED <<history, known, stage, files>>

Build(p) ==
    /\ proc[p].at = "build"
    /\ proc' = [proc EXCEPT ![p].at = "cas", ![p].base = known,
                            ![p].attempt = @ + 1,
                            ![p].new = Tree(p, history[known])]
    /\ UNCHANGED <<history, known, stage, files>>

(* Mutant: an import clears the stage too.                                 *)
CasSucceeds_AlwaysClears(p) ==
    /\ proc[p].at = "cas" /\ proc[p].base = Len(history)
    /\ Len(history) <= MaxCommits
    /\ history' = Append(history, proc[p].new)
    /\ known' = Len(history')
    /\ proc' = [proc EXCEPT ![p].at = "clear", ![p].adds = NoFiles, ![p].new = NoFiles]
    /\ UNCHANGED <<stage, files>>

(* write_commit_object: the branch is where the snapshot says, and moves.  *)
CasSucceeds(p) ==
    /\ proc[p].at = "cas" /\ proc[p].base = Len(history)
    /\ Len(history) <= MaxCommits
    /\ history' = Append(history, proc[p].new)
    /\ known' = Len(history')
    /\ proc' = [proc EXCEPT ![p] =
                  IF ~TakesStage(proc[p]) THEN Idle
                  ELSE Job("clear", "none", proc[p].stage, NoFiles, 0, NoFiles)]
    /\ UNCHANGED <<stage, files>>

(* Mutant: the attempts of a staged commit are not counted.                *)
CasFails_AlwaysRetries(p) ==
    /\ proc[p].at = "cas" /\ proc[p].base # Len(history)
    /\ known' = Len(history)
    /\ proc' = [proc EXCEPT ![p] =
                  IF proc[p].op = "staged" THEN [proc[p] EXCEPT !.at = "build"]
                  ELSE Idle]
    /\ UNCHANGED <<history, stage, files>>

(* A peer was faster: the snapshot is refreshed, and a staged commit has   *)
(* another go on the new head; else the error is raised, the stage stays.  *)
CasFails(p) ==
    /\ proc[p].at = "cas" /\ proc[p].base # Len(history)
    /\ known' = Len(history)
    /\ proc' = [proc EXCEPT ![p] =
                  IF proc[p].op = "staged" /\ proc[p].attempt < StagedRetries
                  THEN [proc[p] EXCEPT !.at = "build"]
                  ELSE Idle]
    /\ UNCHANGED <<history, stage, files>>

(* The end of commit: the stage is saved without changes.                  *)
Clear(p) ==
    /\ proc[p].at = "clear"
    /\ stage' = NoFiles
    /\ proc' = [proc EXCEPT ![p] = Idle]
    /\ UNCHANGED <<history, known, files>>

-----------------------------------------------------------------------------
(* The process is killed, or a command raises (the tree writer may refuse  *)
(* the entries): what it knew is gone, what is on disk stays.              *)
Crash(p) ==
    /\ proc[p].at # "idle"
    /\ proc' = [proc EXCEPT ![p] = Idle]
    /\ UNCHANGED <<history, known, stage, files>>

(* Another client of the repository commits.                               *)
Peer ==
    /\ Len(history) <= MaxCommits
    /\ \E c \in PeerCommits :
          history' = Append(history, Staged(BranchFiles, c[1], c[2]))
    /\ UNCHANGED <<known, stage, files, proc>>

(* A user writes or deletes a file.                                        *)
Edit ==
    /\ \E e \in Edits :
          \/ files' = Over([q \in {e[1]} |-> e[2]], files)
          \/ files' = Without(files, {e[1]})
    /\ files' # files
    /\ UNCHANGED <<history, known, stage, proc>>

(* repo_restore_files, of any commit: without force, files that are there  *)
(* stay.  It writes file by file, so that one that ends early, for a       *)
(* source that cannot be read or a crash, is a restore of fewer paths.     *)
ContentOf(e) ==
    IF e.mode = "blake3" THEN {e.hash} ELSE {files[q] : q \in {e.from} \cap DOMAIN files}

RestoreFiles ==
    /\ \E f \in Range(history), asked \in Restored, force \in BOOLEAN :
          LET written == {q \in asked \cap DOMAIN f :
                             ContentOf(f[q]) # {} /\ (force \/ q \notin WorkingFiles)}
          IN  files' = Over([q \in written |-> CHOOSE c \in ContentOf(f[q]) : TRUE], files)
    /\ files' # files
    /\ UNCHANGED <<history, known, stage, proc>>

Next ==
    \/ \E p \in Procs :
          \/ Add(p) \/ Rm(p) \/ MoveStaged(p) \/ Save(p)
          \/ Commit(p) \/ ImportS3(p) \/ Verify(p) \/ Build(p)
          \/ CasSucceeds(p) \/ CasFails(p) \/ Clear(p) \/ Crash(p)
    \/ Peer \/ Edit \/ RestoreFiles

Spec == Init /\ [][Next]_vars
-----------------------------------------------------------------------------
(* What is shown before the commit: a branch with its staged changes.      *)

(* Mutant: a removal is of all below the path it names.                    *)
ResolveEntries_RemovesBelow(s, f) == Staged(f, Additions(s), RemovedIn(s))

(* resolve_entries: a removal is of the file it names.                     *)
ResolveEntries(s, f) ==
    Over(Additions(s), [q \in DOMAIN f \ RemovedIn(s) |-> f[q]])

(* resolve_entry: the change of that name, else the entry of the commit.   *)
ResolveEntry(s, f, q) ==
    IF q \in AddedIn(s) THEN Additions(s)[q]
    ELSE IF q \in RemovedIn(s) THEN NoFile
    ELSE At(f, q)

(* resolve_entries_for_prefix: the entries are chosen by the string, the   *)
(* changes by the components.                                              *)
StartsWith(q, prefix) == Under(q, prefix) \/ <<q, prefix>> \in Continues

ResolveEntriesForPrefix(s, f, prefix) ==
    ResolveEntries([n \in {m \in DOMAIN s : Under(m, prefix)} |-> s[n]],
                   [q \in {r \in DOMAIN f : StartsWith(r, prefix)} |-> f[q]])

(* status, _compare_working_tree: the hash of a file is that of its bytes, *)
(* which the identity of a source pointer never is.                        *)
WorkingTreeAdded == WorkingFiles \ DOMAIN BranchFiles

(* Mutant: files are compared by the identity of the parent's entry.       *)
WorkingTreeModified_ByIdentity ==
    {q \in WorkingFiles \cap DOMAIN BranchFiles : BranchFiles[q].hash # files[q]}

WorkingTreeModified ==
    {q \in WorkingFiles \cap DOMAIN BranchFiles :
        ~(BranchFiles[q].mode = "blake3" /\ BranchFiles[q].hash = files[q])}

-----------------------------------------------------------------------------
(* Properties *)

(* Additions are of paths, a removal may also name a directory.            *)
AreChanges(s) ==
    /\ DOMAIN s \subseteq Paths \cup RemovedNames
    /\ \A n \in DOMAIN s : s[n] \in Change
    /\ AddedIn(s) \subseteq Paths

TypeOK ==
    /\ \A i \in DOMAIN history : AreEntries(history[i])
    /\ known \in DOMAIN history
    /\ AreChanges(stage)
    /\ DOMAIN files \subseteq Place /\ \A q \in DOMAIN files : files[q] \in Contents
    /\ \A p \in Procs :
          /\ proc[p].at \in {"idle", "save", "build", "cas", "clear"}
          /\ proc[p].op \in {"none", "staged", "full", "import", "verify"}
          /\ AreChanges(proc[p].stage)
          /\ AreEntries(proc[p].adds) /\ AreEntries(proc[p].new)
          /\ proc[p].base \in 0..Len(history)
          /\ proc[p].attempt \in 0..StagedRetries
          /\ proc[p].at = "build" => proc[p].attempt < StagedRetries

(* A staged change is published at least once (StageLog.tla): nothing but  *)
(* a commit that has all of the staged changes takes them off the stage,   *)
(* not a commit that was refused, nor an import, nor a crash anywhere.     *)
Log == INSTANCE StageLog WITH
          head <- BranchFiles, pending <- stage,
          published <- \E p \in Procs : proc[p].at = "clear" /\ proc[p].stage = stage

StagedAtLeastOnce == Log!Spec

(* However often it is retried and whatever its base was read from, a      *)
(* commit changes the head it is published on only at the paths that are   *)
(* staged, imported or, as source pointers, verified, below the removals   *)
(* or, in a full commit, where a working file differs from the head's leaf *)
(* by the identity mode: what peers committed meanwhile stays.             *)
Differs(f, q, entry) ==
    ~(q \in DOMAIN f /\ f[q].mode = Identity /\ f[q].hash = entry.hash)

MayChange(j, f, q) ==
    \/ q \in DOMAIN j.adds /\ (j.op = "verify" => q \in DOMAIN f /\ f[q].mode = "meta")
    \/ Removed(q, RemovedIn(j.stage))
    \/ /\ j.op = "full" /\ q \in DOMAIN j.new \ Outside
       /\ j.new[q].mode = Identity /\ Differs(f, q, j.new[q])

OnlyNamedPathsChange ==
    [][\A p \in Procs :
          proc[p].at = "cas" /\ proc'[p] # proc[p] /\ history' # history =>
          \A q \in DOMAIN BranchFiles \cup DOMAIN BranchFiles' :
              \/ MayChange(proc[p], BranchFiles, q)
              \/ At(BranchFiles', q) = At(BranchFiles, q)]_vars

(* The three views of a branch with its staged changes agree on each path, *)
(* whichever of them a reader uses.                                        *)
ViewsAgree ==
    CanMaterialise(stage) =>
        LET all == ResolveEntries(stage, BranchFiles)
        IN  \A q \in Paths :
                /\ ResolveEntry(stage, BranchFiles, q) = At(all, q)
                /\ \A prefix \in RemovedNames :
                      Under(q, prefix) =>
                        At(ResolveEntriesForPrefix(stage, BranchFiles, prefix), q) = At(all, q)

(* The view is what a staged commit on this head makes, as long as what is *)
(* removed is removed by its file names.                                   *)
RemovesFiles ==
    \A n \in RemovedIn(stage), q \in DOMAIN BranchFiles :
        Under(q, n) => q \in DOMAIN stage

ViewIsNextCommit ==
    CanMaterialise(stage) /\ RemovesFiles =>
        ResolveEntries(stage, BranchFiles)
            = Staged(BranchFiles, Additions(stage), RemovedIn(stage))

(* What status reports as added or modified is what a full commit would    *)
(* change with nothing staged.  With the identity "meta" this is not so: a *)
(* source pointer is always reported, and a file that was committed by     *)
(* content becomes a source pointer without being reported.                *)
StatusShowsNextCommit ==
    LET next     == FullCommit(BranchFiles, Worktree(BranchFiles), NoFiles, {})
        changed  == {q \in DOMAIN next : next[q] # At(BranchFiles, q)}
        reported == WorkingTreeAdded \cup WorkingTreeModified
        by(mode) == {q \in DOMAIN BranchFiles :
                        Identity = "meta" /\ BranchFiles[q].mode = mode}
    IN  /\ changed \subseteq reported \cup by("blake3")
        /\ reported \subseteq changed \cup by("meta")
=============================================================================
