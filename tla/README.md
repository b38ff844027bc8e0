# Reflake, verified: a TLA+ project

Reflake is a client-first version control system for data. A repository is a
directory or an S3 prefix holding immutable, content-addressed objects (commits,
trees, blobs, footers) and mutable branch refs. There is no server and there are
no locks: all coordination between clients is one compare-and-set on a ref. This
directory models that system in TLA+, model-checks it with TLC and proves its
central properties with TLAPS.

Source paths below are relative to `src/reflake/core/` unless they start with
`docs/` or `README`.

## Files

| module | role |
|---|---|
| `CommitGraph` | commit objects, generations, first-parent walks; constant operators only |
| `Refs` | branch refs on S3: every client command that reads or moves a ref, request by request |
| `BranchHistory` | abstract specification: what a repository promises about its branches |
| `MCRefs` | instances for TLC (`Refs*.cfg`) |
| `Sync` | push, pull and fetch between clones and a remote, object by object or in batches |
| `MCSync` | instances for TLC (`Sync*.cfg`) |
| `SyncProofs` | types, heads that are held, whole histories, no rewind and no lost push between any number of clones, proved |
| `CommitGraphProofs` | lemmas about histories that `Refs` and `Sync` share: what a new commit keeps, `is_ancestor`'s shortcut, extension of heads |
| `RefsProofs` | type correctness, the store invariants, no lost update, no rewind, refinement of `BranchHistory`, what a failed `commit --staged` means, proved |
| `FileMaps` | a commit as a map from paths to files: removals, additions, full commits, moves, the merge rule; constant operators only |
| `Dataset` | abstract specification: a commit as a map from paths to contents, and what each command does to it |
| `Streams`, `CommitStreams` | streams of entries: order, reading side by side, the merge of one path, the derived manifest's lookup; constant operators only |
| `StreamMerge`, `StreamDiff`, `StreamOverlay` | the loops of `three_way_merge`, `diff` and `overlay_staged` over streams |
| `TreeFrames` | the loop of `build_from_entries`: a stream becomes tree objects |
| `MCStreams` | small streams for the four loops (`Streams.cfg`) |
| `StreamProofs` | the merge rule keeps changes, commutes and converges; merge, diff, overlay and derived lookup are exact, proved |
| `FramesProofs` | an accepted stream becomes the tree of its files, proved |
| `TreeObjects` | tree objects: walk, lookups, build, shards; constant operators only |
| `Trees` | the commands that make commits, with the trees they build |
| `MCTrees` | instances for TLC (`Trees*.cfg`) |
| `StageLog` | abstract specification: staged changes wait until a commit has them |
| `Staging` | the stage file, the commands that fill it, the commits that take it, import, verify, restore, and the views of a staged branch |
| `MCStaging` | the instance for TLC (`Staging.cfg`) |
| `StagingProofs` | commits change what they name, `Staging` implements `StageLog`, views and `status` show the next commit, proved |
| `Objects` | one object store under writers that crash and under gc |
| `MCObjects` | the instance for TLC (`Objects.cfg`) |
| `ObjectsProofs` | closed commits, whole heads, what gc spares and collects, proved |
| `Footer` | reading the statistics in a Parquet footer |
| `FooterLayout` | how Parquet writers lay footers out (external) |
| `Pruning` | row groups a query may skip, from capture to scan |
| `MCPruning` | small files and queries for TLC (`Pruning.cfg`) |
| `PruningProofs` | pruning is conservative, proved |

`PROJECT.json` is the index: runs, mutants, the source lines behind each
definition, findings, hazards, theorems.

## The system: inventory

| component | state | operations | what makes it correct |
|---|---|---|---|
| commit graph (`domain/models.py`, `services/tree.py` 638-712) | immutable commits, up to two parents, a generation | write, first-parent walk, `is_ancestor`, `_merge_base` | parents exist; the generation shortcut agrees with the walk |
| branch refs (`services/refs.py`, `objects/s3.py` 164-242, `objects/local.py` 105-139) | one value and a version token per branch | open, branch, compare-and-set, fast-forward | histories only grow; no update is lost |
| client state (`client_state.py`) | HEAD, a snapshot of every branch touched, reflog, staged overlay | read/write JSON files | a snapshot is a past head; the reflog names only what happened |
| repository commands (`repository.py`) | working tree | commit, commit --staged with retries, merge, log, diff, gc | optimistic: build on the snapshot, fail or retry when it was stale |
| sync (`repository_sync.py`) | a clone and a remote bucket | push, pull, fetch: negotiate, plan, copy, move the ref last | a ref names only complete commits; transfers can be repeated |
| staging (`services/staging.py`, `services/entries.py`, `repository_ops.py` 35-303) | typed overlay of added and removed paths | add, rm, mv, status, staged views | what was staged is committed before it leaves the stage; what is shown is what is committed |
| trees (`services/tree.py`, `objects/tree.py`, `objects/query.py`) | tree objects, sharded when large; a cache | build, overlay, prune, merge, lookup, walk | the tree denotes the intended map from path to entry |
| blobs (`objects/local.py` 149-184, `objects/s3.py` 298-388, `services/tree.py` 331-384) | bytes under their hash | write if missing, stream, read | the bytes under a name have that hash |
| gc (`repository.py` 594-650) | - | mark from branches, list, delete | nothing reachable, or about to be, is deleted |
| verify, restore, import (`repository_ops.py`) | - | rewrite entries and commit; write files | same as commit |
| footers (`objects/footer.py`), pruning (`query/pruning.py`) | statistics beside a blob | read a footer, decide predicates | no row group with a match is skipped |
| catalog, VFS, CLI, config, layout | derived or formatting | read-only | outside the model |

How they interact. A command runs in one process with its own client state and
talks to the object store; clients never talk to each other. `commit`, `merge`,
`verify` end in `write_commit_object`, which writes the commit object and calls
`update_branch_ref`; push and pull end in `fast_forward_branch`, which does too.
So `update_branch_ref` and the store's compare-and-set below it carry the safety
of the whole system, which is why they are modelled first and proved.

What is hard: any two requests of different clients interleave; a process may
die between any two of its writes; a put may be applied and its answer lost (the
AWS client then repeats it); snapshots are stale by design; merge commits have
two parents but most walks follow one. The complete list, with the line each
hazard bites at and the property that covers it, is `hazards` in `PROJECT.json`.

## Modelled: branch refs on S3

### State and steps

`Refs` has the bucket (`ref`, `objects`), and for every client HEAD (`head`),
`snapshot`, `reflog`, the position in the running command (`pc`) and its local
variables (`job`). A client is a user with one client-state directory, running
one command at a time. Each request to the bucket and each write of client state
is its own action:

| code | actions |
|---|---|
| `RefManager._ensure_head` | `Open`, `EnsureHead` (read, then unconditional put), `EnsureHeadAnswerLost` (the put is repeated) |
| `set_current_branch`, `branch` | `SetCurrentBranch`; `StartBranch`, `BranchReadHead`, then the CAS |
| `ReflakeRepository.commit` | `StartCommit`, `WriteCommitObject`, CAS, `Conflict` retries staged commits |
| `ReflakeRepository.merge` | `StartMerge`, `MergeState`, `MergeConflict`, `WriteCommitObject`, CAS, or a fast-forward |
| `fast_forward_branch` (push, pull, merge) | `StartFastForward`, `FastForwardBranch`, CAS |
| `S3ObjectStore.compare_and_set_branch_ref` | `CasCheck` (read and compare), `CasPut` (conditional put), `CasPutAnswerLost` |
| `update_branch_ref` after the CAS | `Refresh`, `AppendReflog`; or `Conflict` |
| exit, crash, an exception from storage | `Stop`, enabled at every step |

`WriteCommitObject` always precedes the CAS; a failed attempt leaves its object
behind, unreachable, as in the code.

### Abstractions

* A ref's version token is the S3 ETag, a digest of the body, and the body is the
  commit id. Equal tokens are equal bodies, so the body stands for both.
* A commit is its position in the order of writes. Commit ids include
  `created_at`, so no two commits coincide. `chain` and `ancestry` record the
  results of the walks over one and over both parents when a commit is made,
  which keeps recursion out of the module and the module provable.
* `resolve_ref`'s cache is validated against the current token on every use and
  cannot be seen on S3. It matters on a local disk (see the plan).
* Trees and staged paths are left out here (`Trees` has them): a commit's content
  does not influence what happens to refs except through a merge conflict, which
  is `MergeConflict`, a nondeterministic choice.
* A merge source is any stored commit (merge accepts commit ids), a fast-forward
  target likewise.
* `job.at` is a history variable: the branch's head when a staged commit began.

### Properties

* `NamesResolve`: no ref, snapshot, reflog or parent names a missing commit.
* `AcknowledgedUpdatesKept`: no lost update. Whatever a client's reflog says it
  did is in the branch's first-parent history from then on.
* `HeadsNeverRewind` (action): a ref only moves to a descendant.
* `StaleViewsAreHistory`: a snapshot, and what a running command expects, is an
  earlier head of the same branch, however the clients interleave or die.
* `AncestorShortcutSound`: `is_ancestor`'s shortcut on generations changes no
  answer, on graphs with merges.
* `StagedGivesUpOnlyUnderContention` (action): `commit --staged` reports a
  conflict only if the branch moved for each retry after the first attempt.
* `CommandsReturn` (liveness): every command returns or dies.
* `ImplementsHistory`: `Refs` implements `BranchHistory`: branches are created
  once and then only gain commits, one branch at a time. The mapping sends a ref
  to the set of commits in its history.

### Runs

| run | instance | shows |
|---|---|---|
| `refs_shared` | 2 clients, 1 branch, 2 staged attempts, 2 commits before the last starts, symmetric clients | all of the safety properties above in one space of about 500,000 states |
| `refs_branches` | 2 clients with different roles, 2 branches, an empty bucket that one of them opens first, 2 staged attempts, 2 commits before the last starts, fairness | the refinement, with branch creation races, merges of commits of either branch and retried staged commits, and `CommandsReturn`, in about 558,000 states |
| `refs_fresh_race` | an empty bucket that both may open first | `HeadsNeverRewind` violated: see findings |

Bounds. `MaxObjects` guards only the *start* of a commit or a merge; a retry
writes a commit whatever the count, so the objects of a run exceed the bound by
the retries and merges in flight. Two commits plus those suffice for a fork, a
merge with parents of different generations, a fast-forward over two commits and
a CAS lost to a peer at each step. `Founders` are the
clients that may open the bucket while it is empty, and the others open it when
the default branch is there and no founder is still writing it; when there are
none it has been opened before, as in `refs_shared`. `StagedRetries` is 3 in the code and 2 in
the runs: one retry exercises the only transition there is, and the proofs
cover any value. Two clients are enough for each property, all of which relate
one client to "somebody else who moved the ref"; the theorems are for any number.

What makes a second branch affordable in `refs_branches` is `Asks`, the commands each
client may ask for: in `refs_shared` all of them, here `Roles`. One client switches,
makes branches, stages and merges, the other switches, makes branches, commits and
stages; nobody dies and nothing is fast-forwarded but by a merge. Histories of three
commits, a merge commit at a head and a staged commit in its second attempt all
occur, and a retry beside a merge. The `VIEW` leaves out the reflogs and `job.at`: they
record for properties that this run does not check, no action reads them, and
neither do the mapping to `BranchHistory` and `CommandsReturn`.

Fairness. `FairSpec` adds weak fairness of `Step(c)` for every client: a process
that can take a step of its running command is eventually scheduled. Nothing
obliges a client to start a command, so `CommandsReturn` says that no command loops for
ever or waits for another.

### Proofs

`RefsProofs` proves `TypeCorrect`, `NamesAlwaysResolve` and `ShortcutAlwaysSound`
for any clients, branches, retry budget and bound, and for an empty bucket too.
The inductive invariant is `RInv`: types; `GraphOK` (in `CommitGraphProofs`), which says that the `chain`
of a commit is its own id with the chain of its first parent, that ids on a chain
are stored, that generations grow along parents and that chains are transitive;
and the values of refs, snapshots, reflogs and jobs are resolvable.
`AncestorShortcutSound` is not inductive: that a commit with a generation not
below another's is not a proper ancestor of it needs generations to be strictly
monotonic on chains, a fact about all commits at once that `GraphOK` carries.

The second part assumes `NoInitRace`, that one client at most opens the bucket
while it is empty, and proves `NoLostUpdate`, `ViewsAreHistory`, `HeadsOnlyAdvance`,
`RefsImplementHistory` and `RetriesMeanContention`. The assumption is needed:
`refs_fresh_race` is the counterexample with two founders. The
invariant `HInv` says that a client is about to write the empty default branch only
while it is missing (`OpenOK`) and that until then nobody but the founder has
opened the repository, and adds to `RInv` that every
snapshot and both ends of every reflog entry extend to the current ref, and for
each position of a command that what it expects is a past head of its branch and
that the commit it is about to install extends what it expects. A ref that exists
moves only in `PutRef`, under the token comparison, so the new head extends the old one
(`Applied`); every other conjunct follows because `Extends` is transitive and
the graph only grows (`ExtendsTransitive`, `Grows`).

`RetriesMeanContention` adds to `HInv` a count, `AInv`. While the `n`-th attempt of a
staged commit has not failed, the head it expects is at least `n - 2` commits deeper
than the one the command began at, for `n >= 2`; once it has failed, the branch is at
least `n - 1` deeper. The first attempt is the exception: its snapshot may be stale, so
losing it shows no contention beyond what it missed before it began. A lost attempt
adds one because the head that won is built on the one that was expected and is
another (`LostAttempt`, `DepthGrows`). That includes an attempt whose own put was
applied and whose answer was lost: the branch did move.

Only model-checked: `CommandsReturn` (liveness under fairness is beyond the prover).

## Modelled: push, pull and fetch

`Sync` has the stores of the clones and of the remote (`holds`, `ref`), each
clone's client state for the remote (`snapshot`, `pushed`, kept by the code under
`.reflake/clients/<id>`), and the running command (`pc`, `job`).

| code (`repository_sync.py`) | actions |
|---|---|
| push up to the pre-check | `StartPush`, `Ensure` (unconditional creation), `CheckPush` |
| pull, fetch up to the plan | `StartPull` (with its pre-check, which reads only the clone and immutable commits), `StartFetch` |
| `_collect_commits_to_push`, `_build_plan` | `MakePlan` (`Collected`, `Plan`) |
| `_copy_item` | `Copy`, in the order `Before`; `CopyAnswerLost` |
| the s5cmd branch of `execute_transfer_plan` | `CopyBatch`: all of the plan, or any part of it and an error |
| `fast_forward_branch` at the end | `ForwardLocal` (pull); `ForwardRemote`, `Cas`, `CasAnswerLost`, `Conflict`, `Refresh`, `AppendReflog` (push) |
| commit, merge, branch in the clone | `Commit`, `Merge`, `CreateBranch`, one step each |
| crash, exception | `Stop` |

Abstractions. A commit's content is three objects, its trees, its blobs and its
footers: the plan reads the trees to find the others. A download passes over a
tree, a footer or a commit that the remote lacks without a word
(`SkippedWhenMissing`), and a missing blob ends it; an upload reads files, and a
missing one ends it. `MakePlan` is one step, though the walk and the plan ask the
destination once for each commit and object. Objects are only added to a store, so what an
answer said is there stays there; what it said is missing may be copied by a peer in
the meantime, which `Copy` meets. Content shared between commits is
not modelled: it saves copies and, after a torn batch only, could spread the
damage to later commits. A clone is used by one process at a time, so its own
commands are single steps and its own snapshot equals its ref. `Cas` joins the
two requests of the compare-and-set: its put is conditional, so the operation
takes effect at the put or not at all (`Refs` keeps them apart). The default
branch exists on the remote; its creation race is `refs_fresh_race`.

Properties.

* `StoresComplete`: a store that has a commit has its trees, blobs, footers and
  all of its first-parent history, and refs name commits of their store. It is what lets
  `_collect_commits_to_push` stop at the first commit it finds; it rests on the
  order of the plan.
* `PushesKept`, `SyncNeverRewinds`, `RemoteViewsAreHistory`: as in `Refs`, across
  stores and with the snapshot of the remote.
* `HeadsHeld`: what survives of `StoresComplete` when batches fail.

| run | instance | shows |
|---|---|---|
| `sync` | 2 symmetric clones, 1 branch, 3 commits, object by object | completeness, no rewind, no lost push, under every interleaving and crash (170,000 states) |
| `sync_batch` | 1 clone, 2 branches (one new to the remote), 2 commits, batches | heads name held commits, whatever a failed batch leaves |

Three commits give two diverging clones and the merge of one into the other, and
transfers of more than one commit that die between and within commits. `sync_batch`
has one clone: with two, two branches and batches the states are more than can be
checked, and what one clone's failed batch leaves behind is seen by its own later
commands. That heads do not rewind is claimed where it can go wrong, by `sync`, in
which a peer moves the remote between the pre-check and the update. No run has two
clones that create one branch at the same time, which erases heads (also noticed).
`StoresComplete` is claimed for transfers object by object only: a failed batch
breaks it (also noticed).

### Proofs

For any clones, branches and commits, in three layers.

`SyncProofs` proves `SyncTypeCorrect` and `HeadsAlwaysHeld` without assumptions, for
batches too. `HeadsHeld` is not inductive; `HeldInv` adds that commits are graphs
(`GraphOK`), that refs name commits somebody made, and `JobOK`: while a transfer
copies, the commit object of its head is at the destination, or among what is left
to copy and at the source (`TipAtHand`), so that it is not passed over, and from
then on it is at the destination. A plan has the head unless the
destination does (`PlanHasTip`), and a plan is finished only when all of it, save
trees, was copied.

It proves `StoresAlwaysComplete` for `~Batch`. `WholeInv` adds that
of two commits on a chain the older is on the chain of the newer (`Linear`); that
what a plan has left is at the source, and contains, with the destination, the whole
history of every commit in it (`TransferOK`). The first holds of a new plan because
the walk stops where the destination has a commit, and so by the invariant all
before it (`PlanWhole`); the second is kept because the next object copied is the
first in `Before`: if it is a commit, nothing of its history is left (`NextIsWhole`).
In a batch there is no next object, and this is where the proof fails.

It also proves `TransfersOnlyAdvance`, `PushesAlwaysKept` and
`RemoteViewsAlwaysHistory`, object by object or in batches, under `NoCreationRace`:
any clones with the one branch that every repository has from the start, or one clone
with any branches. These are the two families in which no two clones run `Ensure` on
one branch, whose unconditional put rewinds a branch that both create at
once (finding 1). `HistInv` says that a branch about to be created is still missing,
that what a clone holds of the remote is an earlier
head, that the commit to be put is built on what it expects, and that what was put
stays in the history.

## Modelled: trees

`Trees` keeps the tree of each branch's head (`heads`), the tree of the commit a
merge would take for its base (`base`), whether a branch has committed since it
(`ahead`), and how the last command ended (`outcome`). A command is one step: it
reads one immutable tree and computes another, and the race of publishing the
result is what `Refs` is about. A command that raises changes only `outcome`.

| code | definitions |
|---|---|
| `TreeQuery._iter_entries`, `lookup_entry`, `_descend`, `resolve_subtree` | `Walk`, `Lookup`, `Descend`, `ResolveSubtree` |
| `iter_entries_for_prefix` | `MayHoldPrefix`, `PrefixWalk`, `EntriesForPrefix` |
| `export_derived_manifest`, `lookup_derived_entry` | `LookupDerived`, in blocks of `BlockEntries` |
| `parse_tree_object`'s check | `Readable` |
| `TreeWriter._build_children`, `build_from_entries` | `BuildChildren`; `Ascending`, `Build` |
| `overlay_staged` | `OverlayStream` |
| `prune` | `Pruned` |
| `build_worktree_tree`, `_build_worktree_inner`, `_merge_parent_children` | `WorktreeTree`, `WorktreeDirectory`, `ParentChildren`, `MergeParentChildren`, `Leftovers` |
| `three_way_merge` | `MergeStreams`; `Taken`, `InConflict` of `Streams` |
| `commit --staged`, `import`, `commit`, `rm`, `mv` (committed paths) | `StagedCommit`, `ImportS3`, `WorktreeCommit`, `RemovePaths`, `Move` |
| `branch`, `merge` | `Fork`; `FastForward`, `Merge` |

Abstractions.

* Objects are addressed by their content, so the hash of a tree object is modelled
  by the object. A leaf is one content value. The line the code writes for it also
  has the modification time, a pointer's source and the footer (`services/tree.py`
  85-125), so that trees which are equal here have the same shape and contents, but
  need not be the same object: a staged move resets the time and drops the footer.
* Paths are sequences of names. What the code compares are strings, in which `/`
  sorts above some characters (`data.csv` comes before `data/x`) and names are
  compared alone (`data` before `data.csv`). `NameOrder` and `Continues` give both
  orders, since the difference is where the code goes wrong.
* Sharding is in: a directory of more than `MaxTreeEntries` entries is split, each
  shard named after its first entry.
* No input puts a file and a directory under one name; the code makes an
  unreadable tree of that (hazard at `services/tree.py` 480). `TreeFrames` has
  such streams.
* The base stays where the branches forked after a merge, as in `_merge_base`,
  which meets first-parent chains only.

Properties.

* `Implements`: `Trees` implements `Dataset`, the commands on plain maps. The
  mapping walks the trees. Steps of `Dataset` choose among the results for all
  inputs, so this fixes who may change what and when; the two properties
  below fix the result for each input.
* `StagedExact`, `WorktreeExact`: from every tree reached, and for every input, the
  staged commit and the full commit make exactly the files of `Dataset`'s rule or
  refuse. For the merge this is `MergedByRule` of the next section.
* `LookupAgrees`: finding one path, listing a prefix and walking the whole tree
  agree, shards included; so does the lookup in the derived manifest's blocks
  when the walk ascends.
* `CanonicalShape`: the tree of every head has the shape that `build_from_entries`
  gives its entries, whichever commands made it. Staged commits, imports and merges
  build from entries; a full commit and `prune` edit trees level by level, and have
  to leave no empty directory, no shard too many and nothing out of order. Full
  commits that meet shards are excepted (see bounds).
* `AdditionsAccepted`, `ParentSurvives`: violated, see findings.

| run | instance | shows |
|---|---|---|
| `trees` | 2 symmetric branches, 5 paths, 2 contents, 3 commits | everything above, over 5,000 states, from each of which all inputs are tried |
| `trees_order` | the same | `AdditionsAccepted` violated |
| `trees_shards` | a working tree of one file over a sharded directory | `ParentSurvives` violated |

Bounds. `MaxTreeEntries` is 2 (10,000 in the code), so a directory of three files
has shards; `BlockEntries` is 2 (4,096 in the code) for the same reason. The five paths have a directory that can be sharded, a name
that continues the directory's, and a file before both. `MaxCommits` counts commits and
not merges; three commits suffice for a common ancestor and a change on either
side. `ShardedWorktrees` is FALSE in `trees`: a full commit that meets shards, in
the parent or in what it builds, is left to `trees_shards`, because what it does
there is wrong. Other commands meet shards in every run.

`Trees` and `TreeObjects` recurse over trees, which keeps them out of the prover.
What the tree service does in a loop, over streams of entries or a stack of open
directories, is modelled once more, step by step, and proved: the next section.

## Modelled: the loops over entry streams

`iter_all_entries` yields a commit's entries one after the other. Four routines
read such streams in loops with state of their own, and each loop is a module. Its
streams are any sequences of entries from `EntryStreams`: that a walk ascends is
not assumed, because `data/x` may come before `data.csv` (finding 2).

| code | actions |
|---|---|
| `three_way_merge` | `StreamMerge`: `Duplicate`, `Decide`, `Finish` (which builds the tree, then reports conflicts) |
| `ReflakeRepository.diff` | `StreamDiff`: `ReportRemoved`, `ReportAdded`, `Compare`, `Answer` |
| `overlay_staged` | `StreamOverlay`: `PassOver`, `YieldEntry`, `YieldAddition`, `BuildTree` |
| `build_from_entries`, `_close_frame` | `TreeFrames`: `Refuse`, `AddToRoot`, `AddToDirectory`, `CloseFrame`, `WriteRoot` |
| `export_derived_manifest`, `lookup_derived_entry` | `LookupDerived` of `Streams` |

An entry is a path and a content. `Before` is the order of paths as strings;
`OrderAssumption` says that it is strict and total. `DirectoryAssumption` says what the frames
rely on: the strings that begin with a directory's path and `/` are next to each
other. A subtree's hash is the place of its object among those written. The order of
children within an object and its shards are left to `TreeObjects`.

Properties.

* `MergedByRule`: whatever the order of the three walks, a merge that is not refused
  has the files of the merge rule, and one that reports conflicts reports exactly
  the paths both sides changed in their own ways, each once. `seen_paths` is what
  makes this true: entries of one path that meet in different rounds are refused.
* `AscendingAccepted`: walks that ascend are never refused.
* `DiffExact`: of walks that ascend, `diff` reports exactly what differs, in order,
  each path once.
* `OverlayExact`: a staged commit that gets a tree gets the files of the commit to
  come, whatever the order of the parent's walk; over a walk that ascends it gets
  one exactly when every new path comes after every path that stays.
* `FramesExact`: a stream that is accepted becomes one object for each directory
  above a file, with the directory's files and its subdirectories' objects, each once.
  Two children share a name only where the stream has a file and a directory of
  that name.

The run `streams` has all four, over about 241,000 states: a behaviour is that of one
loop. Ascending streams are exhaustive over 3 paths with 2 contents on each of three
sides (merge), 4 paths with 2 contents on two sides (diff), 4 paths with every map
of additions and 8 sets of removals (overlay), and 9 paths of up to four
components, with a file named as a directory and a name that continues a
directory's (frames). Each set has streams that do not ascend, some with a path
that comes twice. The loops decide by the heads of their streams only, so that two
or three paths around a decision are every case there is; the proofs are for any
number.

### Proofs

`StreamProofs` and `FramesProofs` hold for any paths, contents, order, block size and
streams that meet the assumptions above (additions are finite maps).

* The rule itself: `MergeKeepsChanges` (a change of either side is in the result and
  an untouched path stays), `MergeCommutes` (ours and theirs can be swapped) and
  `MergeBackConverges` (merging back, with the old base, has no conflict and gives
  the same files). All three rest on `OneSideDecides`: without conflicts the sides
  agree on a path or one of them left it alone.
* `MergeFollowsRule` and `AscendingWalksMerge`. The invariant `MergeInv` says that a
  path that was read has had one round and has come up once on each side that has
  read past it (`RoundsOnce`), and that `merged` and `conflicts` have, once each,
  what the rule makes of the paths in `seen` (`MergedIsTaken`, `ConflictsAreFound`).
  A second entry of a path, on whichever side, therefore meets `seen`.
* `DiffReportsDifferences`. `DiffInv` says, of walks that ascend, that a path that was
  passed comes before all that is left in both streams, and that the answer has
  what differs among the passed paths, in order.
* `DerivedLookupExact`: over a stream that ascends, the lookup in blocks finds
  what the stream has, for any block size.
* `OverlayIsStagedCommit`. `OverlayInv` says that the output has all that stays, in the
  parent's order, each entry with the staged content or else the parent's
  (`AllThatStays`, `FromStagedOrParent`), that an addition is in `left` until it has been
  yielded, in the place of an entry or after all that stays (`AdditionsPlaced`), and
  that the output ascends when the parent does and new paths come last
  (`OutputAscends`).
* `EntriesBecomeTree`. `FramesInv` says that the open directories lead from the root to
  the innermost one (`StackOK`), that what has been read ascends and that there is a
  frame, open or written, for each directory above it and for no other
  (`ReadAscends`, `ReadDirs`, `FramesOnce`), that a directory was closed by an entry that
  is not below it, after one that is (`ClosedBehind`), and that every frame's and every
  object's children are those of what has been read (`FramesOK`). `FramesExact`
  says nothing before the end, so it needs all of them; `ClosedBehind` with
  `DirectoryAssumption` shows that no directory is opened twice. TLC checked each part
  before it was proved. The proof also shows that a frame that is closed has
  children, so the code's return for an empty one is never taken.

The invariants are proved step by step, so that no loop needs an induction over
its stream. The few facts that do need one, as that a finite set of paths has a
first one in the order, are proved from the least element of a set of naturals, which
`NatLessThanWellFounded` provides without an operator parameter.

## Modelled: staging, its commits and its views

`Staging` has one branch (`history`, the files of each of its commits), one
working tree (`files`) and the client state they meet in (`stage`, and `known`,
the snapshot's position in the history), and for each process what it is doing
(`proc`). Loading the stage, saving it, building a tree, the compare-and-set and
the clearing are separate steps, between which users edit, peers commit and
processes die.

| code | definitions |
|---|---|
| `repo_add`, `expand_stage_source` | `Expanded`, `WithAdditions`, `Add`, then `Save` |
| `repo_rm`, `repo_move_staged` | `Rm`, `WithMove`, `MoveStaged`, then `Save` |
| `entry_from_stage_change` | `EntriesFor`: the named source, else the working file, else the blob |
| `ReflakeRepository.commit`, with and without `--staged` | `Commit` (stage and additions are read once), `Build`, `CasSucceeds` or `CasFails` (retry or give up), `Clear` |
| `repo_import_s3`, `materialize_s3_entries` | `Imported`, `ImportS3`, then the compare-and-set |
| `repo_verify` | `Pointers`, `Verify`: reads the branch, commits with the snapshot's token |
| `repo_restore_files` | `ContentOf`, `RestoreFiles` |
| `resolve_entries`, `resolve_entry`, `resolve_entries_for_prefix` | the same names |
| `status` | `WorkingTreeAdded`, `WorkingTreeModified` |

Abstractions. A commit is the map from paths to entries that its tree denotes:
`Trees` shows what the trees make of it, and where the code refuses a staged
commit there, `Crash` stands for the exception. The compare-and-set is one step
(`Refs` has its requests). A file lives at a place, the components of its URI.
`Restored` and the other inputs are small sets; a restore that ends half way is a
restore of fewer paths. Footers are not part of an entry (`Pruning` has them): when a
full commit captures footers, a kept leaf of a Parquet file that has none gets one, and
a kept source pointer then takes the file's own URI (`services/tree.py` 349-366,
386-405), which is left out. The run has one identity mode, `blake3`; `meta` differs as
`StatusShowsNextCommit` says, and the proofs are for both.

Properties.

* `StagedAtLeastOnce`: `Staging` implements `StageLog`. A staged change leaves the
  stage only after a commit that reflects everything staged is on the branch:
  not after a refused commit, an import, a verify, or a crash anywhere. It is at
  least once and not exactly once: a process that dies after the compare-and-set
  leaves the stage as it was, and the next commit publishes it again.
* `OnlyNamedPathsChange` (action): whatever its base was read from and however
  often it was retried, a commit changes the head it lands on only where its
  additions, removals, pointers to verify or differing working files say. A
  peer's commits are never undone by it.
* `ViewsAgree`: the three routines that show a staged branch agree on each path.
* `ViewIsNextCommit`: they show what `commit --staged` would make, provided that
  removals name files. The view of a removed directory still lists its files
  (also noticed).
* `StatusShowsNextCommit`: what `status` reports as changed is what a full commit
  would change. With the identity `meta` the two differ, in both directions, and
  the property says exactly where: at pointers, which are always reported, and at
  files that were committed by content, which a full commit turns into pointers.

`staging` has one process on the working tree, 3 paths (a file, a directory's, and
a name that continues the directory's), a place outside, 3 commits by others and
the code's three attempts: enough for each attempt to lose to a peer, about
436,000 states. Several processes are covered by the proof below; the log
property does not hold for them, since one clears what another has just staged
(hazard at `repository.py` 290).

Proofs (`StagingProofs`), for any paths, inputs, contents and peers. The
invariant `Inv` says of each process that is about to swap that its base is a
position of the history, that if this is the last one its new files keep
whatever the command may not change, and that the files of a commit reflect the
stage it loaded. It must hold of the *head*, since the base of a verify is read
apart from its token; a process whose token is stale owes nothing, which is what
makes `Inv` inductive when a peer commits. `NamedPathsOnly` follows for any
number of processes. `AtLeastOnce` adds `Alone`, that nobody else changes the
stage between a load and a save, and shows each step to be one of `StageLog` or a
stutter. `Alone` needs the assumption that there is at most one process.

`TypeCorrect` follows every entry from the inputs through the stage, the additions
and the commits: `InputsAssumption` says that peers commit entries and users write
contents, `PathsAssumption` that paths are sequences, `RetriesAssumption` that
there is at least one attempt. The three other invariants rest on it.
`ViewsShowTheSame` compares the routines path by path (`ViewAt`, `PrefixViewAt`,
`EntryViewAt`) and needs nothing of the state. `ViewIsCommitted` needs that a
change is either an addition or a removal and that a path is below itself.
`StatusIsCommitted` needs that an entry is never `NoFile` (`NoFileAssumption`).
The attempt to prove it for any `Identity` showed that an earlier form, which
claimed one direction for `meta` too, was false.

## Modelled: the object store and gc

`Objects` has the objects of one repository, each absent, torn (begun and not
finished) or whole, the branch heads, the commands that write, and a gc. What an
object refers to is constant, because names are digests. Both kinds of store are
initial states of one run: in a bucket a put is atomic and conditional; in a
directory a commit object and a committed blob are truncated and written in place
(`Check`, `Open`, `Close`), trees and transferred objects are renamed into place
(`Put`), and a ref is compared, truncated and written (`Compare`, `TruncateRef`,
`WriteRef`).

| code | actions |
|---|---|
| `commit`, `merge`, `verify` as far as the store sees them | `BeginCommit`: leaves, then trees, then the commit object, then the ref |
| push and pull, fetch | `BeginTransfer` (`ToCopy`), the copies, `Forward` and the swap; or `Fetched` |
| `branch` | `CreateBranch` |
| `write_blob_file`, `write_commit_bytes` | `Put`, `Check`, `Open`, `Close`, `Refused` |
| `ReflakeRepository.gc` | `GcBegin`, `GcMark` per branch, `GcMarked` (or a dry run's end), `GcList` per kind, `GcDelete` per object, `GcDone` |
| a process that dies | `Crash`, `GcCrash` |

`cut` records what a dead writer left torn, and `risk` that a prune deleted
something beside a writer, or died with orphan commits half deleted. gc has no
guard against either: objects a peer has written and not published yet are
orphans to it. What the model shows is where the line is.

* `CommitsClosed`: a commit object that exists, published or not, has its tree DAG
  and its first parent beside it. Plans and `if_missing` rest on it. Torn counts as existing.
* `HeadsWhole`: what a head reaches can be read; in a directory except for what
  some process has open, or died in.
* `GcSparesHistory` (action): in a bucket, nothing is deleted that a head reached
  over first parents when gc began, whatever is written and published meanwhile.
* `GcCollects` (action): a gc that was alone leaves nothing that is in no head's
  commit DAG; torn leftovers are gone too.

Between the two is what only the second parent of a merge reaches. The docstring of
gc and section 11 of the architecture count it as reachable; the code deletes it (also
noticed). Neither property asks for that: the first is silent about it, and the second
lets it stay.

`objects` has two symmetric processes, one gc and one crash, four commits (a root,
a child with a subtree, a footer and a blob of its own, an unrelated root, and a
merge of it that goes back to the first tree), so that content is shared between
commits and one is behind a second parent. Objects that may be written in any
order are written in one fixed order. The `CONSTRAINT` ends behaviours whose prune
is over and was a risk, where nothing is promised, and the `ACTION_CONSTRAINT`
lets only the gc go on while it is; the second branch is created and does not move. In
a directory gc and writers are kept apart, since nothing is promised of them
together.

Proofs (`ObjectsProofs`), for any graph of objects, any branches and any number of
processes, all five properties. The one assumption, `ObjectsGraphOK`, is that kinds
are disjoint and that the graph has no cycles, in the form that any set of trees,
or of commits, has one member that refers to none of the others: an object holds
the digests of what it refers to. Induction over the graph is an argument about a
minimal member of a set, which the provers can follow. `BelowDef`, `ChainDef` and
`WalkedDef` first show that the recursive functions satisfy their equations, by
way of the least set that is closed under the equation.

The properties are not inductive. `CommitsClosed` at a crash or a prune depends on
what writers have yet to write and on what gc has marked. The invariant `IInv` has
four parts:

* `ShapeInv`: types; a torn object is in `cut` or some process has it open; where
  each command and the gc can be.
* `SafeInv`, as long as there is no `risk`: each commit that exists is closed,
  except for the orphans of a gc that has the repository to itself; heads exist; and
  of each writer (`WorkSafe`), all that the commits it has yet to write need is
  there or is written before them.
* `MarkInv`, of a gc that met no prune in between: what was reached when it began is
  marked, or its branch waits for its turn and has only moved forward, so that the
  walk from the new head passes the old one.
* `SweepInv`: commits are listed first, so that what is deleted later belongs to no
  commit that is left; and all that is there is marked, listed or in a kind that is
  yet to be listed.

`GcSparesWhatItFound` follows from `MarkInv` and from the disjointness of what is
marked and what is deleted (`GcShape`), `GcCollectsAll` from `SweepInv` when no kind
is left. Before the proof `IInv` was checked by TLC on the instance of `objects`.
Nothing is promised after a `risk`, in the proofs as in the run.

## Modelled: Parquet footers and pruning

`Footer` is the reader of `objects/footer.py`: a Thrift structure is a sequence of
tokens, a position 0 is an exception, and fields the reader does not know are
stepped over by `Skip`. `FooterLayout` is the writer, external. `Pruning` takes the
statistics from the commit (`CaptureFooter`, then `StoreBlob`, two opens of the
source) through moves and verify, which drop them (`DropFooter`), to a scan
(`PruneRowGroups`), while the source is replaced between commits.

* `Conservative`: a scan skips no row group that has a row satisfying every
  predicate, if the query compares no misordered column. A column is misordered when
  its bounds are stored in another order than its values (`Misread`); for these the
  statement is false of the code (also noticed).
* `CapturedExact`: every footer is read, and what is stored is what its writer
  recorded of the blob in the entry.

`pruning` takes files of one or two row groups of one or two rows; numbers, texts
and booleans; nulls; bounds tight, loose, absent, cut short, under the old and the new
field numbers; decimals stored unscaled, unsigned integers and bytes that are not UTF-8,
the misordered ones; a column without a name, on which the commit fails; fields the reader does not know (numbers, booleans, lists, nested
structures) between and after the ones it does;
lists at the size from which a header holds it apart (`LongList`, 15 in a file, 2
here); every operator with constants below, at, between and above the bounds and
of other types. `Edits` is FALSE, a source does not change between the two opens,
and `Counted` is TRUE, writers record the number of nulls; without either
`Conservative` fails (also noticed). The one file of a misordered kind is enough
to make it fail without its condition, for each of the three kinds.

`PruningProofs` proves `PruningIsConservative` for any files and queries, if the
statistics of a file are true of its rows as they are read, save the bounds of misordered
columns (`TrueOfFile`), and `Edits` is FALSE. The invariant `FromBlob` says that an entry's statistics are
those of its blob. That `Footer` reads them so is the model-checked part: it
recurses over tokens. TLC does not evaluate `TrueOfFile`; `CapturedExact` and the
way `MCPruning` makes its files imply it for them.

## Findings

1. Creating the default branch is not a compare-and-set (`services/refs.py` 69-70).
   Two clients open an empty bucket, both read no ref; one writes it and commits;
   the other writes the empty ref over it. The first commit is lost. The same read
   then unconditional write is in push and pull (`repository_sync.py` 303, 399).
   `docs/architecture.md` section 6 calls compare-and-set the only safety primitive.
2. A staged commit appends the paths that are new after all others
   (`services/tree.py` 631) and `build_from_entries` then refuses the stream: with
   `b` committed, `add a` and `commit --staged` raises `ValueError`. Trees are
   walked by name, so `data/x` before `data.csv` has the same effect on every
   staged commit, `rm` and merge of such a branch (`objects/query.py` 218, whose
   docstring promises ascending paths). `OverlayIsStagedCommit` proves the exact
   condition: over a walk that ascends a staged commit is refused if and only if a
   new path comes before one that stays.
3. `resolve_subtree` does not see through shards (`objects/query.py` 185): a full
   commit in a sharded directory takes a shard for the file it is named after,
   and the other files of that shard leave the branch. `prune` has a related
   problem (hazard at `services/tree.py` 443).

## Also noticed, without a run

Sync.

* A failed s5cmd batch is not resumed (`repository_sync.py` 148-155, 180). It may
  leave a commit at the destination without its content; the next push stops its
  walk there, sends nothing, and moves the ref to it. `StoresComplete` on
  `SyncBatch.cfg` shows it.
* Only first parents are transferred (`repository_sync.py` 183): after a push of a
  merge commit the remote lacks its second parent.
* A merge of the fetched remote head cannot be pushed (`repository_sync.py` 200):
  the pre-check walks first parents and finds the remote's head on none. For the
  same reason (`services/refs.py` 200) `merge` does not see that the target already
  contains a source and makes another merge commit, against the comment in
  `repository.py` 117.
* Two clones that push a branch the remote lacks both create it unconditionally
  (`repository_sync.py` 302-304), the race of finding 1: the second creation
  erases a push that was reported as done.
* A tree, a footer or a commit that is missing at the remote is passed over by a
  download (`repository_sync.py` 112-123), which then moves on as if it had it.
* Two transfers of one blob: the loser's conditional put raises
  (`objects/transfer.py` 35, `objects/s3.py` 337) although the blob is there.

Staging.

* A staged move records the blob of its time: committed later, it drops newer
  content a peer committed to the source. A move whose destination has an
  unrelated working file publishes that file (`services/entries.py` 150). There is
  no check for a move into itself, as there is in `mv`.
* A removed directory: `+staged` views still list its files, the commit removes
  them (`README.md` 171). Prefix views select by the string, so `data` lists
  `data.csv`.
* A crash between the compare-and-set and the clearing publishes the changes
  twice; two processes on one working tree lose changes staged between a load
  and a save, or a clearing.
* `status` compares content hashes whatever the identity is
  (`services/staging.py` 270): with `meta` it reports every pointer entry as
  modified, and does not report that a full commit will turn an unchanged file
  with a blob into a source pointer (`services/tree.py` 352).
* A file that changes between its digest and its copy is stored under the wrong
  hash (`services/tree.py` 369, `services/entries.py` 98).
* `verify` keeps the recorded size with newly hashed bytes, does not check that the
  source is the one that was recorded, drops footers, and with `--dry-run` still
  writes trees.

Trees.

* Over a walk that does not ascend, `diff` reports an unchanged file as added and
  removed (`repository.py` 430-453) and the derived manifest's writer raises.
* `lookup_derived_entry` returns nothing when there is no manifest; its docstring
  (`services/tree.py` 792-798) says it falls back to the tree.

Store and gc.

* gc follows first parents (`repository.py` 622): objects that only a second parent
  reaches are deleted, while a head's commit DAG has them. The docstring
  (`repository.py` 597-600) and section 11 of `docs/architecture.md` say that the commit
  DAG from every head is reachable. `GcSparesHistory` with `Ancestry` in the place of
  the first-parent walk fails in `objects`, at the merge `c3`. Its walk passes over a tree that is missing.
* On a directory, a crash in a ref's write leaves an empty ref, and a gc that
  reads it takes the branch for empty. Files are renamed across file systems
  when the temporary directory is elsewhere (`objects/local.py` 64, 101).

Footers.

* A footer and a blob are read from two opens of the source
  (`services/entries.py` 178): a file replaced in between has the statistics of
  other rows.
* A missing `null_count` is taken for 0 (`objects/footer.py` 372), and `IS NULL`
  then skips the group.
* Bounds are read by the physical type alone (`objects/footer.py` 175-193). The bounds
  of a DECIMAL in an integer stay unscaled, those of unsigned integers are taken for
  signed ones, and bytes that are not UTF-8 become hexadecimal digits, which sort among the
  texts by their digits. `query/pruning.py` compares them with the constants of a query as
  if they were values and skips groups that match, although its first lines say that a
  group is kept unless the statistics prove it cannot match. `Conservative` without
  `Misread` shows each of the three.
* A typed schema element without a name raises `KeyError` (`objects/footer.py` 286),
  which `capture_footer_stats` (507) does not catch: the commit of such a file
  fails, where other unreadable footers only cost the statistics.
* The names of a nested column are joined with `.` (`objects/footer.py` 432), so
  a column `a.b` and a column `b` in `a` cannot be told apart.
* A column is reported as not applicable or not depending on the order
  of the predicates.

Documents. `README.md` (Merge Command) and section 9 of `docs/architecture.md` still
describe merge as fast-forward only; the code makes three-way merges.
`docs/operator-runbook.md` describes branch locks that are gone.

## Plan

Done: `CommitGraph`, `Refs` and `Sync` with their proofs, `Trees`, the loops over streams
and the frames of the tree builder with their proofs, `Staging` and `Objects` with their
proofs, `Footer` and `Pruning` with its proof. What could follow:

1. `LocalRefs`: the local store's token of modification time and size, torn reads
   and the resolve cache, for one process (holds) and two (does not).
2. `MergeBase`: a base that stays at the fork after merges, and what merging again
   then does to reverts.

## Not modelled

Serialisation formats, hashing, the catalog, the read-only file system, the
command line: they change no shared state, or are pure formatting. On a local
disk, the token of a ref and reads of a ref while it is written. The tree cache,
whose keys are digests of what it holds. The AWS client is modelled by what the
code relies on: atomic single object puts with `If-Match` and `If-None-Match`,
read-after-write consistency, and automatic repetition of a request whose answer
is lost.

Only model-checked, for all modules: liveness (`CommandsReturn`; liveness under fairness
is beyond the prover), and what rests on a RECURSIVE definition, which it does not
reason about: walks, lookups and builds of nested trees (`TypeOK`, `LookupAgrees`,
`CanonicalShape`, `StagedExact`, `WorktreeExact` and `Implements` of `Trees`) and the
reading of a footer (`CapturedExact` of `MCPruning`).
