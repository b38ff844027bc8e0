----------------------------- MODULE TreeFrames -----------------------------
(***************************************************************************)
(* The loop of build_from_entries (services/tree.py).                      *)
(*                                                                         *)
(* Entries are read in order.  The directories that are open are a stack   *)
(* of frames, with the root's children at the bottom; an entry that is not *)
(* below the top one closes it, and opens what is missing above itself.    *)
(* A directory's object is written when its frame is closed, and named in  *)
(* the frame below.  How an object is sorted and split into shards is in   *)
(* TreeObjects.tla.                                                        *)
(***************************************************************************)
EXTENDS CommitStreams

CONSTANT Names         \* the components of paths

ASSUME PathsAssumption == Paths \subseteq Seq(Names) \ {<<>>}

(* Strings that begin with a directory's path and a "/" are next to each   *)
(* other in the order of strings.                                          *)
ASSUME DirectoryAssumption ==
    \A p, q, r \in Paths : \A dir \in Prefixes(Front(p)) :
        IsStrictPrefix(dir, r) /\ Before(p, q) /\ Before(q, r)
            => IsStrictPrefix(dir, q)

VARIABLES entries,   \* the stream that is read
          place,     \* the place of the entry that is next
          stack,     \* the open frames
          written,   \* the directories' objects, in the order they were closed
          progress

framesVars == <<entries, place, stack, written, progress>>

(* A child in a tree object; a subtree's node, its hash, is the place of   *)
(* its object in written.                                                  *)
Leaf(path, content) == [name |-> Last(path), kind |-> "leaf", node |-> content]

Subtree(dir, k) == [name |-> Last(dir), kind |-> "tree", node |-> k]

Frame(dir) == [dir |-> dir, children |-> <<>>]

WithChild(frame, child) == [frame EXCEPT !.children = Append(@, child)]

(* All directories become children of the root. *)
Attached_ToRoot(frames, child) ==
    [frames EXCEPT ![1] = WithChild(@, child)]

(* The innermost frame gets a child. *)
Attached(frames, child) ==
    [frames EXCEPT ![Len(frames)] = WithChild(@, child)]

Top == stack[Len(stack)]

Accepted ==
    /\ place <= Len(entries)
    /\ place > 1 => Before(entries[place - 1].path, entries[place].path)

Dir == Front(entries[place].path)

EntryLeaf == Leaf(entries[place].path, entries[place].content)

FramesInit ==
    /\ entries \in EntryStreams
    /\ place = 1
    /\ stack = <<Frame(<<>>)>>
    /\ written = <<>>
    /\ progress = "reading"

Refuse ==
    /\ progress = "reading"
    /\ place <= Len(entries) /\ ~Accepted
    /\ progress' = "unsorted"
    /\ UNCHANGED <<entries, place, stack, written>>

(* A file of the root closes nothing.                                      *)
AddToRoot ==
    /\ progress = "reading" /\ Accepted
    /\ Dir = <<>>
    /\ stack' = [stack EXCEPT ![1] = WithChild(@, EntryLeaf)]
    /\ place' = place + 1
    /\ UNCHANGED <<entries, written, progress>>

(* Frames are opened down to the entry's directory, which gets the entry.  *)
AddToDirectory ==
    /\ progress = "reading" /\ Accepted
    /\ Dir # <<>> /\ IsPrefix(Top.dir, Dir)
    /\ LET frame(k) == IF k \in DOMAIN stack THEN stack[k]
                       ELSE Frame(SubSeq(Dir, 1, k - 1))
           last     == Len(Dir) + 1
       IN  stack' = [k \in 1..last |->
                        IF k = last THEN WithChild(frame(k), EntryLeaf) ELSE frame(k)]
    /\ place' = place + 1
    /\ UNCHANGED <<entries, written, progress>>

(* The next entry is not below the top frame.                              *)
Leaves == Accepted /\ Dir # <<>> /\ ~IsPrefix(Top.dir, Dir)

(* _close_frame *)
CloseFrame ==
    /\ progress = "reading" /\ Len(stack) > 1
    /\ Leaves \/ place > Len(entries)
    /\ IF Top.children = <<>>
       THEN /\ stack' = Front(stack)
            /\ UNCHANGED written
       ELSE /\ written' = Append(written, Top)
            /\ stack' = Attached(Front(stack), Subtree(Top.dir, Len(written) + 1))
    /\ UNCHANGED <<entries, place, progress>>

WriteRoot ==
    /\ progress = "reading"
    /\ place > Len(entries) /\ Len(stack) = 1
    /\ written' = Append(written, Top)
    /\ progress' = "built"
    /\ UNCHANGED <<entries, place, stack>>

FramesNext == Refuse \/ AddToRoot \/ AddToDirectory \/ CloseFrame \/ WriteRoot

FramesSpec == FramesInit /\ [][FramesNext]_framesVars

-----------------------------------------------------------------------------
(* Properties *)

FilePaths(s) == {s[k].path : k \in DOMAIN s}

(* The directories above the files. *)
Directories(s) == {<<>>} \cup UNION {Prefixes(Front(p)) : p \in FilePaths(s)}

(* What a directory's object should have.                                  *)
ChildrenOf(s, w, dir) ==
    {Leaf(s[k].path, s[k].content) : k \in {l \in DOMAIN s : Front(s[l].path) = dir}}
    \cup {Subtree(w[k].dir, k) :
            k \in {l \in DOMAIN w : w[l].dir # <<>> /\ Front(w[l].dir) = dir}}

(* The objects w are the tree of the stream s: there is one for each       *)
(* directory above a file, with the directory's files and the objects of   *)
(* its subdirectories, each once, and two children have one name only when *)
(* the stream has a file where another one has a directory.                *)
IsTreeOf(w, s) ==
    /\ \A k, l \in DOMAIN w : w[k].dir = w[l].dir => k = l
    /\ {w[k].dir : k \in DOMAIN w} = Directories(s)
    /\ \A k \in DOMAIN w :
          LET dir == w[k].dir  children == w[k].children
          IN  /\ {children[i] : i \in DOMAIN children} = ChildrenOf(s, w, dir)
              /\ \A i, j \in DOMAIN children :
                    children[i].name = children[j].name =>
                        \/ i = j
                        \/ Append(dir, children[i].name)
                                \in FilePaths(s) \cap Directories(s)

(* A stream that build_from_entries accepts becomes the tree of its files, *)
(* however often it turns to files of the root while directories are open. *)
FramesExact == progress = "built" => IsTreeOf(written, entries)
=============================================================================
