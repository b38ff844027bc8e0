------------------------------- MODULE Trees -------------------------------
(***************************************************************************)
(* The commands that make commits, with the trees they build.              *)
(*                                                                         *)
(* Two branches of one repository are kept by the trees of their heads.    *)
(* Every command reads the head's tree, computes the new one as the tree   *)
(* writer does, and either moves the head or raises and changes nothing    *)
(* (outcome tells which).  What the commands promise is Dataset.tla, which *)
(* this module implements with AllEntries as the refinement mapping.       *)
(* Refs.tla has the races of the refs these commits are published with.    *)
(***************************************************************************)
EXTENDS TreeObjects

CONSTANTS Paths, Contents, Branches, NoCommit,
          Additions, Removals, Worktrees, Moves,
          MaxCommits,       \* bound on the commits of a behaviour
          ShardedWorktrees  \* whether full commits are made over shards too

ASSUME PathsAssumption ==
    \A p \in Paths : p # <<>> /\ \A i \in DOMAIN p : p[i] \in Range(NameOrder)

ASSUME NothingAssumption == NoFile \notin Contents /\ NoCommit # NoFile

ASSUME InputsAssumption ==
    /\ \A f \in Additions \cup Worktrees :
          DOMAIN f \subseteq Paths /\ Range(f) \subseteq Contents
    /\ \A m \in Moves : m[1] # <<>> /\ m[2] # <<>>

VARIABLES heads,    \* the tree of each branch's head commit, or NoCommit
          base,     \* the tree of the last commit of both first-parent chains
          ahead,    \* whether a branch has committed since that commit
          outcome,  \* how the last command ended
          commits   \* how many there were

vars == <<heads, base, ahead, outcome, commits>>

Flat == INSTANCE Dataset WITH
            heads <- [b \in Branches |->
                        IF heads[b] = NoCommit THEN NoCommit
                        ELSE FilesOfStream(AllEntries(heads[b]))],
            base <- IF base = NoCommit THEN NoCommit
                    ELSE FilesOfStream(AllEntries(base))

(* The tree writer raised instead of returning a tree.                     *)
Refused == NoCommit

(* A change is staged once per path: as an addition or as a removal.       *)
StagedChanges == {c \in Additions \X Removals : DOMAIN c[1] \cap c[2] = {}}

Outcomes == {"committed", "unsorted", "duplicate", "conflict", "not found"}

-----------------------------------------------------------------------------
(* Trees from trees *)

(* A removal names one file, not what is below it.                         *)
PathIsRemoved_Exactly(path, removed) == path \in removed

(* _path_is_removed *)
PathIsRemoved(path, removed) == \E r \in removed : IsPrefix(r, path)

(* overlay_staged: the parent's entries, with staged ones in their places, *)
(* and the remaining staged entries after them all.                        *)
OverlayStream(parent, adds, removed) ==
    LET kept == SelectSeq(AllEntries(parent),
                          LAMBDA x : ~PathIsRemoved(x.path, removed))
        placed == {kept[i].path : i \in DOMAIN kept}
    IN  [i \in DOMAIN kept |->
            IF kept[i].path \in DOMAIN adds
            THEN File(kept[i].path, adds[kept[i].path]) ELSE kept[i]]
        \o Stream(Restrict(adds, DOMAIN adds \ placed))

(* A directory left without entries stays in the tree. *)
Emptied_Stays(t) == FALSE

(* prune returns None for it. *)
Emptied(t) == t = EmptyTree

(* The entries of a directory's object when it is rebuilt without those    *)
(* that are removed.  A shard is compared under the path of the entry it   *)
(* is named after, and only entered when a removal is below that path.     *)
RECURSIVE Pruned(_, _, _)
Pruned(t, dir, removed) ==
    LET full(e) == Append(dir, e.name)
        enters(e) == /\ IsSubtree(e)
                     /\ \E r \in removed : IsStrictPrefix(full(e), r)
        entered(e) == Pruned(e.node, IF e.kind = "shard" THEN dir ELSE full(e),
                             removed)
        kept == SelectSeq(t, LAMBDA e : /\ ~PathIsRemoved(full(e), removed)
                                        /\ enters(e) => ~Emptied(entered(e)))
    IN  BuildChildren([i \in DOMAIN kept |->
            IF enters(kept[i])
            THEN [kept[i] EXCEPT !.node = entered(kept[i])] ELSE kept[i]])

(* Entries only the parent has are dropped, as in a snapshot of a          *)
(* directory.                                                              *)
MergeParentChildren_Drops(kids, parents) == kids

(* The children of a directory after the parent's entries are folded in:   *)
(* the ones of the working tree come first, entries of the parent, staged  *)
(* additions among them, survive under the names that are left.            *)
MergeParentChildren(kids, parents) ==
    LET names == {kids[i].name : i \in DOMAIN kids}
    IN  kids \o SelectSeq(parents, LAMBDA e : e.name \notin names)

(* parent_children: the parent's entries of a directory, by name, with the *)
(* additions staged right in it in place of those.                         *)
ParentChildren(parent, dir, adds) ==
    LET old == IF parent = NoCommit THEN EmptyTree ELSE ResolveSubtree(parent, dir)
        here == SortedPaths({p \in DOMAIN adds : Front(p) = dir})
        staged == [i \in DOMAIN here |-> Entry(Last(here[i]), "leaf", adds[here[i]])]
    IN  MergeParentChildren(staged, old)

(* The directories that get a frame: the root, and those above a file.     *)
Opened(worktree) ==
    {<<>>} \cup UNION {Prefixes(Front(p)) : p \in DOMAIN worktree}

(* _build_worktree_inner for the directory dir and the ones opened below.  *)
RECURSIVE WorktreeDirectory(_, _, _, _)
WorktreeDirectory(parent, dir, worktree, adds) ==
    LET files == SortedPaths({p \in DOMAIN worktree : Front(p) = dir})
        dirs  == SortedPaths({d \in Opened(worktree) : d # <<>> /\ Front(d) = dir})
        kids  == [i \in DOMAIN files |->
                     Entry(Last(files[i]), "leaf", worktree[files[i]])]
                 \o [i \in DOMAIN dirs |->
                     Entry(Last(dirs[i]), "tree",
                           WorktreeDirectory(parent, dirs[i], worktree, adds))]
    IN  BuildChildren(MergeParentChildren(kids, ParentChildren(parent, dir, adds)))

(* What the walk of the working tree takes, and the staged additions it    *)
(* leaves over because their directory was never opened.                   *)
WalkedFiles(worktree, removed) ==
    Restrict(worktree, {p \in DOMAIN worktree : ~PathIsRemoved(p, removed)})

(* Additions in directories the walk did not open are forgotten. *)
Leftovers_Forgotten(worktree, adds) == Restrict(adds, {})

Leftovers(worktree, adds) ==
    Restrict(adds, {p \in DOMAIN adds : Front(p) \notin Opened(worktree)})

(* build_worktree_tree, with the additions left over as an overlay.        *)
WorktreeTree(parent, worktree, adds, removed) ==
    LET walked == WalkedFiles(worktree, removed)
        pruned == Pruned(WorktreeDirectory(parent, <<>>, walked, adds), <<>>, removed)
        left   == Leftovers(walked, adds)
        stream == OverlayStream(pruned, left, {})
    IN  IF DOMAIN left = {} THEN pruned
        ELSE IF Ascending(stream) THEN Build(stream) ELSE Refused

RECURSIVE HasShards(_)
HasShards(t) ==
    /\ t # NoCommit
    /\ \E i \in DOMAIN t :
          \/ t[i].kind = "shard"
          \/ t[i].kind = "tree" /\ HasShards(t[i].node)

(* Whether the walk finds shards, in the parent or in what it builds.      *)
MeetsShards(parent, worktree, adds, removed) ==
    \/ HasShards(parent)
    \/ HasShards(WorktreeDirectory(parent, <<>>, WalkedFiles(worktree, removed), adds))

-----------------------------------------------------------------------------
(* The three-way merge *)

(* three_way_merge: the three streams are read together, always the least  *)
(* of the paths at their heads.                                            *)
RECURSIVE MergeStreams(_, _, _, _)
MergeStreams(b, o, t, acc) ==
    IF acc.duplicate \/ (b = <<>> /\ o = <<>> /\ t = <<>>) THEN acc
    ELSE LET path    == FirstPath({Head(s).path : s \in {b, o, t} \ {<<>>}})
             at(s)   == EntryAt(s, 1, path)
             rest(s) == SubSeq(s, Past(s, 1, path), Len(s))
             taken   == Taken(at(b), at(o), at(t))
         IN  MergeStreams(rest(b), rest(o), rest(t),
               [merged    |-> IF taken = NoFile THEN acc.merged
                              ELSE Append(acc.merged, File(path, taken)),
                conflict  |-> acc.conflict \/ InConflict(at(b), at(o), at(t)),
                seen      |-> acc.seen \cup {path},
                duplicate |-> path \in acc.seen])

ThreeWayMerge(b, o, t) ==
    MergeStreams(IF b = NoCommit THEN <<>> ELSE AllEntries(b),
                 AllEntries(o), AllEntries(t),
                 [merged |-> <<>>, conflict |-> FALSE, seen |-> {},
                  duplicate |-> FALSE])

-----------------------------------------------------------------------------
Init ==
    /\ heads = [b \in Branches |-> NoCommit]
    /\ base = NoCommit
    /\ ahead = [b \in Branches |-> FALSE]
    /\ outcome = "committed"
    /\ commits = 0

(* write_commit_object with the tree that was built *)
MoveHead(b, tree) ==
    /\ heads' = [heads EXCEPT ![b] = tree]
    /\ ahead' = [ahead EXCEPT ![b] = TRUE]
    /\ outcome' = "committed"
    /\ UNCHANGED base

Commit(b, tree) == MoveHead(b, tree) /\ commits' = commits + 1

(* The command raises before a commit is written.                          *)
Raise(why) ==
    /\ outcome' = why
    /\ UNCHANGED <<heads, base, ahead, commits>>

(* build_from_entries, and the commit when it accepts the stream *)
CommitStream(b, s) ==
    IF Ascending(s) THEN Commit(b, Build(s)) ELSE Raise("unsorted")

(* commit(staged_only) of what repo_add and repo_rm staged *)
StagedCommit(b) ==
    /\ commits < MaxCommits
    /\ \E c \in StagedChanges :
        CommitStream(b, IF heads[b] = NoCommit THEN Stream(c[1])
                       ELSE OverlayStream(heads[b], c[1], c[2]))

(* repo_import_s3: materialised entries over the snapshot's tree *)
ImportS3(b) ==
    /\ commits < MaxCommits
    /\ \E adds \in Additions :
        CommitStream(b, IF heads[b] = NoCommit THEN Stream(adds)
                       ELSE OverlayStream(heads[b], adds, {}))

(* commit of the working tree: the walk, then the removals, then the       *)
(* additions that are left over                                            *)
WorktreeCommit(b) ==
    /\ commits < MaxCommits
    /\ \E worktree \in Worktrees, c \in StagedChanges :
        LET t == WorktreeTree(heads[b], worktree, c[1], c[2])
        IN  /\ ShardedWorktrees \/ ~MeetsShards(heads[b], worktree, c[1], c[2])
            /\ IF t = Refused THEN Raise("unsorted") ELSE Commit(b, t)

(* repo_remove_paths *)
RemovePaths(b) ==
    /\ commits < MaxCommits /\ heads[b] # NoCommit
    /\ \E removed \in Removals :
        LET kept == SelectSeq(AllEntries(heads[b]),
                              LAMBDA x : ~PathIsRemoved(x.path, removed))
        IN  IF Ascending(kept) /\ Len(kept) = Len(AllEntries(heads[b]))
            THEN Raise("not found") ELSE CommitStream(b, kept)

(* repo_move: sorts the moved entries itself.  Leaves are blobs here; one   *)
(* that points to a source gets a new hash for its new path.               *)
Move(b) ==
    /\ commits < MaxCommits /\ heads[b] # NoCommit
    /\ \E m \in Moves :
        LET files  == FilesOfStream(AllEntries(heads[b]))
            moving == {p \in DOMAIN files : IsPrefix(m[1], p)}
            to(p)  == IF p \in moving
                      THEN m[2] \o SubSeq(p, Len(m[1]) + 1, Len(p)) ELSE p
            moved  == {to(p) : p \in moving}
        IN  /\ moved \subseteq Paths
            /\ ~IsPrefix(m[1], m[2])
            /\ IF moving = {} \/ moved \cap (DOMAIN files \ moving) # {}
               THEN Raise("not found")
               ELSE Commit(b, Build(Stream(
                       [q \in {to(p) : p \in DOMAIN files} |->
                           files[CHOOSE p \in DOMAIN files : to(p) = q]])))

(* branch: b is made at the head of the other one *)
Fork(b, from) ==
    /\ heads[b] = NoCommit /\ heads[from] # NoCommit
    /\ heads' = [heads EXCEPT ![b] = heads[from]]
    /\ base' = heads[from]
    /\ ahead' = [c \in Branches |-> FALSE]
    /\ UNCHANGED <<outcome, commits>>

(* merge when the source contains the target *)
FastForward(source, target) ==
    /\ ahead[source] /\ ~ahead[target] /\ heads[target] # NoCommit
    /\ heads' = [heads EXCEPT ![target] = heads[source]]
    /\ base' = heads[source]
    /\ ahead' = [c \in Branches |-> FALSE]
    /\ UNCHANGED <<outcome, commits>>

(* merge when they diverged; merges are not counted *)
Merge(source, target) ==
    /\ ahead[source] /\ ahead[target]
    /\ LET m == ThreeWayMerge(base, heads[target], heads[source])
       IN  IF m.duplicate THEN Raise("duplicate")
           ELSE IF ~Ascending(m.merged) THEN Raise("unsorted")
           ELSE IF m.conflict THEN Raise("conflict")
           ELSE MoveHead(target, Build(m.merged)) /\ UNCHANGED commits

Next ==
    \/ \E b \in Branches :
          \/ StagedCommit(b) \/ ImportS3(b) \/ WorktreeCommit(b)
          \/ RemovePaths(b) \/ Move(b)
    \/ \E b, c \in Branches :
          /\ b # c
          /\ Fork(b, c) \/ FastForward(b, c) \/ Merge(b, c)

Spec == Init /\ [][Next]_vars

-----------------------------------------------------------------------------
(* Properties *)

HasPath(t, p) ==
    t # NoCommit /\ \E i \in DOMAIN AllEntries(t) : AllEntries(t)[i].path = p

TreesOf == {heads[b] : b \in Branches} \cup {base}

(* Every tree that was committed can be read back: parse_tree_object takes *)
(* its objects, names ascend and no file shares its name with a directory. *)
TypeOK ==
    /\ \A t \in TreesOf \ {NoCommit} : Readable(t)
    /\ ahead \in [Branches -> BOOLEAN]
    /\ outcome \in Outcomes
    /\ commits \in 0..MaxCommits

(* The ways of reading a tree agree: for every path lookup_entry and the   *)
(* cached derived manifest (which is only written of an ascending walk)    *)
(* find what iter_all_entries has, and a listing by prefix is the part of  *)
(* the walk that starts with it, in shards too.                            *)
LookupAgrees ==
    \A t \in TreesOf \ {NoCommit} :
        LET walk  == AllEntries(t)
            files == FilesOfStream(walk)
            at(p) == IF p \in DOMAIN files THEN files[p] ELSE NoFile
        IN  \A p \in Paths :
                /\ Lookup(t, p) = at(p)
                /\ Ascending(walk) => LookupDerived(walk, p) = at(p)
                /\ \A prefix \in {p, Front(p)} :
                      EntriesForPrefix(t, prefix)
                          = SelectSeq(walk, LAMBDA x : StartsWith(x.path, prefix))

(* However a head was reached, by staged changes, the working tree folded  *)
(* into the parent's subtrees, pruning, moves or merges, its tree has the  *)
(* shape that build_from_entries gives its entries: no directory is left   *)
(* without entries, split into shards it does not need or out of order,    *)
(* and no entry is in two places.  (Of the shape only: the line of a leaf  *)
(* has more than its content, see Entry.)                                  *)
CanonicalShape ==
    \A t \in TreesOf \ {NoCommit} : t = Build(AllEntries(t))

Files(t) == IF t = NoCommit THEN Flat!NoFiles ELSE FilesOfStream(AllEntries(t))

(* commit --staged makes exactly the files the user staged from every tree *)
(* reached, shards included: removals take all below a prefix but nothing  *)
(* that is staged with them, and every other file stays.                   *)
StagedExact ==
    \A t \in {heads[b] : b \in Branches} \ {NoCommit}, c \in StagedChanges :
        LET s == OverlayStream(t, c[1], c[2])
        IN  Ascending(s) => Files(Build(s)) = Flat!Staged(Files(t), c[1], c[2])

(* So does a full commit of any working tree: its files win, additions     *)
(* survive in directories without files and under a removed prefix, files  *)
(* whose removal is staged go although they are there, and files that only *)
(* the parent has stay, unless shards are met (ParentSurvives).            *)
WorktreeExact ==
    \A t \in {heads[b] : b \in Branches}, w \in Worktrees, c \in StagedChanges :
        \/ MeetsShards(t, w, c[1], c[2])
        \/ WorktreeTree(t, w, c[1], c[2]) = Refused
        \/ Files(WorktreeTree(t, w, c[1], c[2]))
                = Flat!FullCommit(Files(t), w, c[1], c[2])

(* What the commands do with trees is what Dataset.tla says of the files.  *)
Implements == Flat!Spec

(* Staged additions are always accepted (docs/architecture.md, section 5): *)
(* no command hands build_from_entries entries that are out of order,      *)
(* whatever the names of the files and the order they came in.             *)
AdditionsAccepted == outcome # "unsorted"

(* "Parent-only leaves and subtrees survive the commit" (the docstring of  *)
(* build_worktree_tree): when nothing is staged for removal or moved, a    *)
(* path of a branch stays there.                                           *)
ParentSurvives ==
    [][\A b \in Branches, p \in Paths :
          HasPath(heads[b], p) => HasPath(heads'[b], p)]_vars
=============================================================================
