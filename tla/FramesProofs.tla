---------------------------- MODULE FramesProofs ----------------------------
(***************************************************************************)
(* Proofs about the loop that builds a tree from a stream of entries       *)
(* (TreeFrames.tla): a stream that is accepted becomes the tree of its     *)
(* files.                                                                  *)
(***************************************************************************)
EXTENDS StreamProofs, TreeFrames, SequenceTheorems

-----------------------------------------------------------------------------
(* Paths *)

(* A directory is above a path.                                            *)
Above(dir, p) == Len(dir) < Len(p) /\ \A i \in 1..Len(dir) : dir[i] = p[i]

(* A path has a component.                                                 *)
LEMMA PathIsSeq ==
    ASSUME NEW p \in Paths
    PROVE  p \in Seq(Names) /\ Len(p) \in Nat /\ Len(p) >= 1
<1>1. p \in Seq(Names) /\ p # <<>>
  BY PathsAssumption
<1> QED
  BY <1>1, EmptySeq, LenProperties

(* A path's directory is all of its components but the last.               *)
LEMMA FrontOf ==
    ASSUME NEW p \in Paths
    PROVE  /\ Front(p) \in Seq(Names)
           /\ Len(Front(p)) = Len(p) - 1
           /\ \A i \in 1..(Len(p) - 1) : Front(p)[i] = p[i]
<1>1. p \in Seq(Names) /\ Len(p) \in Nat /\ Len(p) >= 1
  BY PathIsSeq
<1>2. \A i \in 1..(Len(p) - 1) : p[i] \in Names
  BY <1>1
<1>3. /\ SubSeq(p, 1, Len(p) - 1) \in Seq(Names)
      /\ Len(SubSeq(p, 1, Len(p) - 1))
            = IF 1 <= Len(p) - 1 THEN Len(p) - 1 - 1 + 1 ELSE 0
      /\ \A i \in 1..(Len(p) - 1 - 1 + 1) : SubSeq(p, 1, Len(p) - 1)[i] = p[1 + i - 1]
  <2>1. 1 \in Int /\ Len(p) - 1 \in Int
    BY <1>1
  <2> QED
    BY <1>2, <2>1, SubSeqProperties
<1>4. \A i \in 1..(Len(p) - 1) : SubSeq(p, 1, Len(p) - 1)[i] = p[i]
  <2> TAKE i \in 1..(Len(p) - 1)
  <2>1. i \in 1..(Len(p) - 1 - 1 + 1) /\ 1 + i - 1 = i
    BY <1>1
  <2> QED
    BY <1>3, <2>1
<1>5. Len(SubSeq(p, 1, Len(p) - 1)) = Len(p) - 1
  <2> DEFINE f == SubSeq(p, 1, Len(p) - 1)
             n == Len(p)
             m == Len(f)
  <2>1. n \in Nat /\ n >= 1 /\ m = IF 1 <= n - 1 THEN n - 1 - 1 + 1 ELSE 0
    BY <1>1, <1>3
  <2> HIDE DEF n, m
  <2>2. m = n - 1
    BY <2>1
  <2> QED
    BY <2>2 DEF n, m
<1> QED
  BY <1>3, <1>4, <1>5 DEF Front

(* The first components of a sequence.                                     *)
LEMMA FirstOf ==
    ASSUME NEW s \in Seq(Names), NEW n \in 0..Len(s)
    PROVE  /\ SubSeq(s, 1, n) \in Seq(Names)
           /\ Len(SubSeq(s, 1, n)) = n
           /\ \A i \in 1..n : SubSeq(s, 1, n)[i] = s[i]
<1>1. \A i \in 1..n : s[i] \in Names
  OBVIOUS
<1>2. /\ SubSeq(s, 1, n) \in Seq(Names)
      /\ Len(SubSeq(s, 1, n)) = IF 1 <= n THEN n - 1 + 1 ELSE 0
      /\ \A i \in 1..(n - 1 + 1) : SubSeq(s, 1, n)[i] = s[1 + i - 1]
  BY <1>1, SubSeqProperties
<1> QED
  BY <1>2

(* A prefix agrees with the sequence at every point it has.                *)
LEMMA PrefixPoints ==
    ASSUME NEW s \in Seq(Names), NEW t \in Seq(Names)
    PROVE  IsPrefix(s, t) <=> Len(s) <= Len(t) /\ \A i \in 1..Len(s) : s[i] = t[i]
<1>1. SubSeq(s, 1, Len(s)) = s
  <2>1. \A i \in 1..Len(s) : SubSeq(s, 1, Len(s))[i] = s[i]
    BY FirstOf
  <2> QED
    BY <2>1, FirstOf, SeqEqual
<1>2. ASSUME IsPrefix(s, t), NEW i \in 1..Len(s)
      PROVE  s[i] = t[i]
  <2>1. Len(s) \in 0..Len(t) /\ s = SubSeq(t, 1, Len(s))
    BY <1>1, <1>2 DEF IsPrefix
  <2>2. SubSeq(t, 1, Len(s))[i] = t[i]
    BY <2>1, FirstOf
  <2> QED
    BY <2>1, <2>2
<1>3. ASSUME Len(s) <= Len(t), \A i \in 1..Len(s) : s[i] = t[i]
      PROVE  s = SubSeq(t, 1, Len(s))
  <2>1. Len(s) \in 0..Len(t)
    BY <1>3
  <2>2. /\ SubSeq(t, 1, Len(s)) \in Seq(Names)
        /\ Len(SubSeq(t, 1, Len(s))) = Len(s)
        /\ \A i \in 1..Len(s) : SubSeq(t, 1, Len(s))[i] = t[i]
    BY <2>1, FirstOf
  <2> QED
    BY <1>3, <2>2, SeqEqual
<1> QED
  BY <1>1, <1>2, <1>3 DEF IsPrefix

(* A directory above a path is a prefix of the path's own directory.       *)
LEMMA AbovePrefix ==
    ASSUME NEW dir \in Seq(Names), NEW p \in Paths
    PROVE  /\ Above(dir, p) <=> IsPrefix(dir, Front(p))
           /\ Above(dir, p) => dir \in Prefixes(Front(p))
<1>1. Len(dir) \in Nat
  OBVIOUS
<1>2. Above(dir, p) <=> IsPrefix(dir, Front(p))
  BY <1>1, FrontOf, PathIsSeq, PrefixPoints DEF Above
<1>3. ASSUME Above(dir, p)
      PROVE  dir \in Prefixes(Front(p))
  <2>1. Len(dir) \in 0..Len(Front(p))
    BY <1>1, <1>3, FrontOf, PathIsSeq DEF Above
  <2>2. /\ SubSeq(Front(p), 1, Len(dir)) \in Seq(Names)
        /\ Len(SubSeq(Front(p), 1, Len(dir))) = Len(dir)
        /\ \A i \in 1..Len(dir) : SubSeq(Front(p), 1, Len(dir))[i] = Front(p)[i]
    BY <2>1, FrontOf, FirstOf
  <2>3. \A i \in 1..Len(dir) : Front(p)[i] = dir[i]
    BY <1>1, <1>3, FrontOf, PathIsSeq DEF Above
  <2>4. SubSeq(Front(p), 1, Len(dir)) = dir
    BY <2>2, <2>3, SeqEqual
  <2> QED
    BY <2>1, <2>4 DEF Prefixes
<1> QED
  BY <1>2, <1>3

(* What is above a directory that is above a path is above the path.       *)
LEMMA AboveFront ==
    ASSUME NEW p \in Paths, NEW dir \in Seq(Names), dir # <<>>, Above(dir, p)
    PROVE  Front(dir) \in Seq(Names) /\ Above(Front(dir), p)
<1> DEFINE n == Len(dir)
<1>1. n \in Nat /\ n >= 1 /\ n - 1 \in 0..n
  BY EmptySeq
<1>2. /\ SubSeq(dir, 1, n - 1) \in Seq(Names) /\ Len(SubSeq(dir, 1, n - 1)) = n - 1
      /\ \A i \in 1..(n - 1) : SubSeq(dir, 1, n - 1)[i] = dir[i]
  BY <1>1, FirstOf
<1>3. Front(dir) = SubSeq(dir, 1, n - 1)
  BY DEF Front
<1>4. n < Len(p) /\ Len(p) \in Nat /\ \A i \in 1..n : dir[i] = p[i]
  BY PathIsSeq DEF Above
<1> HIDE DEF n
<1>5. n - 1 < Len(p) /\ \A i \in 1..(n - 1) : i \in 1..n
  BY <1>1, <1>4
<1> QED
  BY <1>2, <1>3, <1>4, <1>5 DEF Above

(* Between two paths below a directory all are.                            *)
LEMMA AboveBetween ==
    ASSUME NEW dir \in Seq(Names), NEW p \in Paths, NEW q \in Paths, NEW r \in Paths,
           Above(dir, p), Above(dir, r), Before(p, q), Before(q, r)
    PROVE  Above(dir, q)
<1>1. dir \in Prefixes(Front(p))
  BY AbovePrefix
<1>2. IsStrictPrefix(dir, r)
  <2>1. r \in Seq(Names) /\ Len(dir) < Len(r) /\ Len(dir) \in Nat /\ Len(r) \in Nat
    BY PathIsSeq DEF Above
  <2>2. IsPrefix(dir, r)
    BY <2>1, PrefixPoints DEF Above
  <2> QED
    BY <2>1, <2>2 DEF IsStrictPrefix
<1>3. IsStrictPrefix(dir, q)
  BY <1>1, <1>2, DirectoryAssumption
<1>4. q \in Seq(Names) /\ Len(dir) \in Nat /\ Len(q) \in Nat
  BY PathIsSeq
<1>5. Len(dir) <= Len(q) /\ \A i \in 1..Len(dir) : dir[i] = q[i]
  BY <1>3, <1>4, PrefixPoints DEF IsStrictPrefix
<1>6. Len(dir) # Len(q)
  BY <1>3, <1>4, <1>5, SeqEqual DEF IsStrictPrefix
<1> QED
  BY <1>4, <1>5, <1>6 DEF Above

-----------------------------------------------------------------------------
(* The inductive invariant *)

Children ==
    [name : Names, kind : {"leaf", "tree"}, node : Contents \cup Nat]

FrameSet == [dir : Seq(Names), children : Seq(Children)]

FramesTypeOK ==
    /\ entries \in EntryStreams
    /\ place \in 1..(Len(entries) + 1)
    /\ stack \in Seq(FrameSet) /\ Len(stack) >= 1
    /\ written \in Seq(FrameSet)
    /\ progress \in {"reading", "unsorted", "built"}

(* The open directories lead from the root to the innermost one.           *)
StackOK ==
    /\ \A k \in 1..Len(stack) :
          /\ Len(stack[k].dir) = k - 1
          /\ \A i \in 1..(k - 1) : stack[k].dir[i] = Top.dir[i]
    /\ Len(stack) > 1 => Top.children # <<>>

(* What was read ascends.                                                  *)
ReadAscends ==
    \A k, l \in 1..(place - 1) :
        k < l => Before(entries[k].path, entries[l].path)

ReadBelow(s, n, dir) == \E i \in 1..(n - 1) : Above(dir, s[i].path)

(* There is a frame for each directory above what was read, open or        *)
(* closed, and for no others.                                              *)
ReadDirs ==
    /\ \A k \in 2..Len(stack) : ReadBelow(entries, place, stack[k].dir)
    /\ \A k \in 1..Len(written) :
          written[k].dir # <<>> /\ ReadBelow(entries, place, written[k].dir)
    /\ \A dir \in Seq(Names) :
          dir # <<>> /\ ReadBelow(entries, place, dir) =>
              \/ \E k \in 1..Len(stack) : stack[k].dir = dir
              \/ \E k \in 1..Len(written) : written[k].dir = dir

(* A directory was closed because of an entry that is not below it, after  *)
(* one that is, or at the end.                                             *)
Behind(s, n, w) ==
    \A k \in 1..Len(w) : \E i \in 1..(n - 1) : \E c \in (i + 1)..n :
        Above(w[k].dir, s[i].path) /\ ~Above(w[k].dir, s[c].path)

ClosedBehind == place <= Len(entries) => Behind(entries, place, written)

FramesOnce ==
    /\ \A k, l \in 1..Len(written) : written[k].dir = written[l].dir => k = l
    /\ \A k \in 1..Len(stack), l \in 1..Len(written) : stack[k].dir # written[l].dir

(* What a frame has when the entries of s before place n were read and the *)
(* directories of w are closed.                                            *)
LeafOf(s, k) == Leaf(s[k].path, s[k].content)

FileIn(s, n, dir, k) == k \in 1..(n - 1) /\ Front(s[k].path) = dir

DirIn(w, dir, l) == l \in 1..Len(w) /\ Front(w[l].dir) = dir

FrameOK(f, s, n, w) ==
    /\ \A i \in 1..Len(f.children) :
          \/ \E k \in 1..(n - 1) :
                FileIn(s, n, f.dir, k) /\ f.children[i] = LeafOf(s, k)
          \/ \E l \in 1..Len(w) :
                DirIn(w, f.dir, l) /\ f.children[i] = Subtree(w[l].dir, l)
    /\ \A k \in 1..(n - 1) : FileIn(s, n, f.dir, k) =>
          \E i \in 1..Len(f.children) : f.children[i] = LeafOf(s, k)
    /\ \A l \in 1..Len(w) : DirIn(w, f.dir, l) =>
          \E i \in 1..Len(f.children) : f.children[i] = Subtree(w[l].dir, l)
    /\ \A i, j \in 1..Len(f.children) : f.children[i] = f.children[j] => i = j

FramesOK ==
    /\ \A k \in 1..Len(stack) : FrameOK(stack[k], entries, place, written)
    /\ \A k \in 1..Len(written) : FrameOK(written[k], entries, place, written)

ReadingInv ==
    StackOK /\ ReadAscends /\ ReadDirs /\ ClosedBehind /\ FramesOnce /\ FramesOK

FramesInv ==
    /\ FramesTypeOK
    /\ progress = "reading" => ReadingInv
    /\ FramesExact

-----------------------------------------------------------------------------
(* What a step does to a frame *)

(* A frame without children, of a directory in which nothing was read.     *)
LEMMA NewFrame ==
    ASSUME NEW dir, NEW s, NEW n, NEW w,
           \A k \in 1..(n - 1) : ~FileIn(s, n, dir, k),
           \A l \in 1..Len(w) : ~DirIn(w, dir, l)
    PROVE  FrameOK(Frame(dir), s, n, w)
<1>1. Frame(dir).dir = dir /\ Frame(dir).children = <<>>
  BY DEF Frame
<1>2. 1..Len(<<>>) = {}
  OBVIOUS
<1> QED
  BY <1>1, <1>2 DEF FrameOK

(* An entry of another directory leaves a frame as it is.                  *)
LEMMA ReadElsewhere ==
    ASSUME NEW f, NEW s, NEW n \in Nat, NEW w,
           FrameOK(f, s, n, w), Front(s[n].path) # f.dir
    PROVE  FrameOK(f, s, n + 1, w)
<1>1. \A k : FileIn(s, n + 1, f.dir, k) <=> FileIn(s, n, f.dir, k)
  BY DEF FileIn
<1>2. \A k : FileIn(s, n, f.dir, k) => k \in 1..(n - 1) /\ k \in 1..(n + 1 - 1)
  BY DEF FileIn
<1> QED
  BY <1>1, <1>2 DEF FrameOK

(* An entry of the directory of a frame is one more child of the frame.    *)
LEMMA ReadHere ==
    ASSUME NEW f \in FrameSet, NEW s, NEW n \in Nat \ {0}, NEW w,
           FrameOK(f, s, n, w), Front(s[n].path) = f.dir,
           LeafOf(s, n) \in Children,
           \A k \in 1..(n - 1) : FileIn(s, n, f.dir, k) => LeafOf(s, k) # LeafOf(s, n)
    PROVE  FrameOK(WithChild(f, LeafOf(s, n)), s, n + 1, w)
<1> DEFINE c == LeafOf(s, n)
           g == WithChild(f, c)
<1>1. g.dir = f.dir /\ g.children = Append(f.children, c) /\ f.children \in Seq(Children)
  BY DEF WithChild, FrameSet
<1>2. /\ Len(g.children) = Len(f.children) + 1
      /\ \A i \in 1..Len(f.children) : g.children[i] = f.children[i]
      /\ g.children[Len(f.children) + 1] = c
      /\ Len(f.children) \in Nat
  BY <1>1, AppendProperties
<1>3. \A k \in 1..(n + 1 - 1) :
         FileIn(s, n + 1, f.dir, k) <=> (k = n \/ FileIn(s, n, f.dir, k))
  BY DEF FileIn
<1>4. \A k \in 1..(n - 1) : FileIn(s, n, f.dir, k) => FileIn(s, n + 1, f.dir, k)
  BY DEF FileIn
<1>5. FileIn(s, n + 1, f.dir, n) /\ n \in 1..(n + 1 - 1)
  BY DEF FileIn
<1> HIDE DEF g, c
<1>6. ASSUME NEW i \in 1..Len(g.children)
      PROVE  \/ \E k \in 1..(n + 1 - 1) :
                   FileIn(s, n + 1, f.dir, k) /\ g.children[i] = LeafOf(s, k)
             \/ \E l \in 1..Len(w) :
                   DirIn(w, f.dir, l) /\ g.children[i] = Subtree(w[l].dir, l)
  <2>1. CASE i = Len(f.children) + 1
    BY <1>2, <1>5, <2>1 DEF c
  <2>2. CASE i \in 1..Len(f.children)
    <3>1. \/ \E k \in 1..(n - 1) :
                FileIn(s, n, f.dir, k) /\ f.children[i] = LeafOf(s, k)
          \/ \E l \in 1..Len(w) :
                DirIn(w, f.dir, l) /\ f.children[i] = Subtree(w[l].dir, l)
      BY <2>2 DEF FrameOK
    <3>2. \A k \in 1..(n - 1) : k \in 1..(n + 1 - 1)
      OBVIOUS
    <3> QED
      BY <1>2, <1>4, <2>2, <3>1, <3>2
  <2> QED
    BY <1>2, <2>1, <2>2
<1>7. ASSUME NEW k \in 1..(n + 1 - 1), FileIn(s, n + 1, f.dir, k)
      PROVE  \E i \in 1..Len(g.children) : g.children[i] = LeafOf(s, k)
  <2>1. CASE k = n
    BY <1>2, <2>1 DEF c
  <2>2. CASE k # n
    <3>1. k \in 1..(n - 1) /\ FileIn(s, n, f.dir, k)
      BY <1>3, <1>7, <2>2
    <3>2. PICK i \in 1..Len(f.children) : f.children[i] = LeafOf(s, k)
      BY <3>1 DEF FrameOK
    <3> QED
      BY <1>2, <3>2
  <2> QED
    BY <2>1, <2>2
<1>8. ASSUME NEW l \in 1..Len(w), DirIn(w, f.dir, l)
      PROVE  \E i \in 1..Len(g.children) : g.children[i] = Subtree(w[l].dir, l)
  <2>1. PICK i \in 1..Len(f.children) : f.children[i] = Subtree(w[l].dir, l)
    BY <1>8 DEF FrameOK
  <2> QED
    BY <1>2, <2>1
<1>9. \A i \in 1..Len(f.children) : f.children[i] # c
  <2> TAKE i \in 1..Len(f.children)
  <2>1. \/ \E k \in 1..(n - 1) :
              FileIn(s, n, f.dir, k) /\ f.children[i] = LeafOf(s, k)
        \/ \E l \in 1..Len(w) : f.children[i] = Subtree(w[l].dir, l)
    BY DEF FrameOK
  <2>2. \A l : Subtree(w[l].dir, l) # LeafOf(s, n)
    BY DEF Subtree, LeafOf, Leaf
  <2> QED
    BY <2>1, <2>2 DEF c
<1>10. ASSUME NEW i \in 1..Len(g.children), NEW j \in 1..Len(g.children),
              g.children[i] = g.children[j]
       PROVE  i = j
  <2>1. \A x, y \in 1..Len(f.children) : f.children[x] = f.children[y] => x = y
    BY DEF FrameOK
  <2>2. CASE i \in 1..Len(f.children) /\ j \in 1..Len(f.children)
    BY <1>2, <1>10, <2>1, <2>2
  <2>3. CASE i \in 1..Len(f.children) /\ j = Len(f.children) + 1
    BY <1>2, <1>9, <1>10, <2>3
  <2>4. CASE i = Len(f.children) + 1 /\ j \in 1..Len(f.children)
    BY <1>2, <1>9, <1>10, <2>4
  <2> QED
    BY <1>2, <2>2, <2>3, <2>4
<1>11. g.dir = f.dir
  BY <1>1
<1> QED
  BY <1>6, <1>7, <1>8, <1>10, <1>11 DEF FrameOK, g, c

(* A directory that is closed leaves the frames that are not its parent.   *)
LEMMA ClosedElsewhere ==
    ASSUME NEW f, NEW s, NEW n, NEW w \in Seq(FrameSet), NEW t \in FrameSet,
           FrameOK(f, s, n, w), Front(t.dir) # f.dir
    PROVE  FrameOK(f, s, n, Append(w, t))
<1> DEFINE v == Append(w, t)
<1>1. /\ Len(v) = Len(w) + 1 /\ Len(w) \in Nat
      /\ \A l \in 1..Len(w) : v[l] = w[l]
      /\ v[Len(w) + 1] = t
  BY AppendProperties
<1> HIDE DEF v
<1>2. \A l \in 1..Len(w) :
         l \in 1..Len(v) /\ (DirIn(v, f.dir, l) <=> DirIn(w, f.dir, l))
  BY <1>1 DEF DirIn
<1>3. \A l \in 1..Len(v) : DirIn(v, f.dir, l) => l \in 1..Len(w)
  BY <1>1 DEF DirIn
<1>4. ASSUME NEW i \in 1..Len(f.children)
      PROVE  \/ \E k \in 1..(n - 1) :
                   FileIn(s, n, f.dir, k) /\ f.children[i] = LeafOf(s, k)
             \/ \E l \in 1..Len(v) :
                   DirIn(v, f.dir, l) /\ f.children[i] = Subtree(v[l].dir, l)
  <2>1. \/ \E k \in 1..(n - 1) :
              FileIn(s, n, f.dir, k) /\ f.children[i] = LeafOf(s, k)
        \/ \E l \in 1..Len(w) :
              DirIn(w, f.dir, l) /\ f.children[i] = Subtree(w[l].dir, l)
    BY DEF FrameOK
  <2> QED
    BY <1>1, <1>2, <2>1
<1>5. ASSUME NEW l \in 1..Len(v), DirIn(v, f.dir, l)
      PROVE  \E i \in 1..Len(f.children) : f.children[i] = Subtree(v[l].dir, l)
  <2>1. l \in 1..Len(w) /\ DirIn(w, f.dir, l) /\ v[l] = w[l]
    BY <1>1, <1>2, <1>3, <1>5
  <2> QED
    BY <2>1 DEF FrameOK
<1> QED
  BY <1>4, <1>5 DEF FrameOK, v

(* A directory that is closed is one more child of its parent's frame.     *)
LEMMA ClosedHere ==
    ASSUME NEW f \in FrameSet, NEW s, NEW n, NEW w \in Seq(FrameSet),
           NEW t \in FrameSet, FrameOK(f, s, n, w), Front(t.dir) = f.dir,
           Subtree(t.dir, Len(w) + 1) \in Children
    PROVE  FrameOK(WithChild(f, Subtree(t.dir, Len(w) + 1)), s, n, Append(w, t))
<1> DEFINE v == Append(w, t)
           c == Subtree(t.dir, Len(w) + 1)
           g == WithChild(f, c)
<1>1. /\ Len(v) = Len(w) + 1 /\ Len(w) \in Nat
      /\ \A l \in 1..Len(w) : v[l] = w[l]
      /\ v[Len(w) + 1] = t
  BY AppendProperties
<1>2. g.dir = f.dir /\ g.children = Append(f.children, c) /\ f.children \in Seq(Children)
  BY DEF WithChild, FrameSet
<1>3. /\ Len(g.children) = Len(f.children) + 1
      /\ \A i \in 1..Len(f.children) : g.children[i] = f.children[i]
      /\ g.children[Len(f.children) + 1] = c
      /\ Len(f.children) \in Nat
  BY <1>2, AppendProperties
<1>4. c.kind = "tree" /\ c.node = Len(w) + 1
  BY DEF Subtree
<1>5. Subtree(v[Len(w) + 1].dir, Len(w) + 1) = c /\ DirIn(v, f.dir, Len(w) + 1)
  BY <1>1 DEF DirIn
<1> HIDE DEF v, c, g
<1>6. \A l \in 1..Len(w) :
         l \in 1..Len(v) /\ (DirIn(v, f.dir, l) <=> DirIn(w, f.dir, l))
  BY <1>1 DEF DirIn
<1>7. ASSUME NEW i \in 1..Len(g.children)
      PROVE  \/ \E k \in 1..(n - 1) :
                   FileIn(s, n, f.dir, k) /\ g.children[i] = LeafOf(s, k)
             \/ \E l \in 1..Len(v) :
                   DirIn(v, f.dir, l) /\ g.children[i] = Subtree(v[l].dir, l)
  <2>1. CASE i = Len(f.children) + 1
    BY <1>1, <1>3, <1>5, <2>1
  <2>2. CASE i \in 1..Len(f.children)
    <3>1. \/ \E k \in 1..(n - 1) :
                FileIn(s, n, f.dir, k) /\ f.children[i] = LeafOf(s, k)
          \/ \E l \in 1..Len(w) :
                DirIn(w, f.dir, l) /\ f.children[i] = Subtree(w[l].dir, l)
      BY <2>2 DEF FrameOK
    <3> QED
      BY <1>1, <1>3, <1>6, <2>2, <3>1
  <2> QED
    BY <1>3, <2>1, <2>2
<1>8. ASSUME NEW k \in 1..(n - 1), FileIn(s, n, f.dir, k)
      PROVE  \E i \in 1..Len(g.children) : g.children[i] = LeafOf(s, k)
  <2>1. PICK i \in 1..Len(f.children) : f.children[i] = LeafOf(s, k)
    BY <1>8 DEF FrameOK
  <2> QED
    BY <1>3, <2>1
<1>9. ASSUME NEW l \in 1..Len(v), DirIn(v, f.dir, l)
      PROVE  \E i \in 1..Len(g.children) : g.children[i] = Subtree(v[l].dir, l)
  <2>1. CASE l = Len(w) + 1
    BY <1>3, <1>5, <2>1
  <2>2. CASE l \in 1..Len(w)
    <3>1. PICK i \in 1..Len(f.children) : f.children[i] = Subtree(w[l].dir, l)
      BY <1>6, <1>9, <2>2 DEF FrameOK
    <3> QED
      BY <1>1, <1>3, <2>2, <3>1
  <2> QED
    BY <1>1, <2>1, <2>2
<1>10. \A i \in 1..Len(f.children) : f.children[i] # c
  <2> TAKE i \in 1..Len(f.children)
  <2>1. \/ \E k \in 1..(n - 1) : f.children[i] = LeafOf(s, k)
        \/ \E l \in 1..Len(w) : f.children[i] = Subtree(w[l].dir, l)
    BY DEF FrameOK
  <2>2. \A k : LeafOf(s, k).kind = "leaf"
    BY DEF LeafOf, Leaf
  <2>3. \A l : Subtree(w[l].dir, l).node = l
    BY DEF Subtree
  <2> QED
    BY <1>1, <1>4, <2>1, <2>2, <2>3
<1>11. ASSUME NEW i \in 1..Len(g.children), NEW j \in 1..Len(g.children),
              g.children[i] = g.children[j]
       PROVE  i = j
  <2>1. \A x, y \in 1..Len(f.children) : f.children[x] = f.children[y] => x = y
    BY DEF FrameOK
  <2>2. CASE i \in 1..Len(f.children) /\ j \in 1..Len(f.children)
    BY <1>3, <1>11, <2>1, <2>2
  <2>3. CASE i \in 1..Len(f.children) /\ j = Len(f.children) + 1
    BY <1>3, <1>10, <1>11, <2>3
  <2>4. CASE i = Len(f.children) + 1 /\ j \in 1..Len(f.children)
    BY <1>3, <1>10, <1>11, <2>4
  <2> QED
    BY <1>3, <2>2, <2>3, <2>4
<1>12. g.dir = f.dir
  BY <1>2
<1> QED
  BY <1>7, <1>8, <1>9, <1>11, <1>12 DEF FrameOK, v, c, g

-----------------------------------------------------------------------------
(* The entry that is next *)

(* The invariant holds before the first entry.                             *)
LEMMA FramesInitInv == FramesInit => FramesInv
<1> SUFFICES ASSUME FramesInit PROVE FramesInv
  OBVIOUS
<1>1. /\ Frame(<<>>).dir = <<>> /\ Frame(<<>>).children = <<>>
      /\ Frame(<<>>) \in FrameSet
  BY DEF Frame, FrameSet
<1>2. /\ entries \in Seq(Entries) /\ Len(entries) \in Nat /\ place = 1
      /\ stack = <<Frame(<<>>)>> /\ written = <<>> /\ progress = "reading"
      /\ entries \in EntryStreams
  <2>1. /\ entries \in EntryStreams /\ place = 1 /\ written = <<>>
        /\ stack = <<Frame(<<>>)>> /\ progress = "reading"
    BY DEF FramesInit
  <2>2. entries \in Seq(Entries)
    BY <2>1, StreamsAssumption DEF Entries
  <2> QED
    BY <2>1, <2>2
<1>3. Len(stack) = 1 /\ stack[1] = Frame(<<>>) /\ Len(written) = 0 /\ Len(<<>>) = 0
  BY <1>2
<1>4. FramesTypeOK
  BY <1>1, <1>2, <1>3 DEF FramesTypeOK
<1>5. FrameOK(Frame(<<>>), entries, 1, <<>>)
  BY <1>3, NewFrame DEF FileIn, DirIn
<1>6. StackOK /\ FramesOnce
  BY <1>1, <1>3 DEF StackOK, FramesOnce
<1>7. ReadAscends /\ ReadDirs /\ ClosedBehind
  BY <1>2, <1>3 DEF ReadAscends, ReadDirs, ClosedBehind, Behind, ReadBelow
<1>8. FramesOK
  <2>1. \A k \in 1..Len(stack) : stack[k] = Frame(<<>>)
    BY <1>3
  <2> QED
    BY <1>2, <1>3, <1>5, <2>1 DEF FramesOK
<1>9. FramesExact
  BY <1>2 DEF FramesExact
<1> QED
  BY <1>4, <1>6, <1>7, <1>8, <1>9 DEF FramesInv, ReadingInv

(* A path is its directory and its name.                                   *)
LEMMA PathOfParts ==
    ASSUME NEW p \in Paths, NEW q \in Paths, Front(p) = Front(q), Last(p) = Last(q)
    PROVE  p = q
<1>1. p \in Seq(Names) /\ q \in Seq(Names) /\ Len(p) >= 1 /\ Len(q) >= 1
  BY PathIsSeq
<1>2. Len(p) = Len(q)
  <2> DEFINE a == Len(p)
             b == Len(q)
  <2>1. a \in Nat /\ b \in Nat /\ a - 1 = b - 1
    BY <1>1, FrontOf
  <2> HIDE DEF a, b
  <2>2. a = b
    BY <2>1
  <2> QED
    BY <2>2 DEF a, b
<1>3. \A i \in 1..(Len(p) - 1) : p[i] = q[i]
  BY <1>2, FrontOf
<1>4. p[Len(p)] = q[Len(p)]
  BY <1>2 DEF Last
<1>5. \A i \in 1..Len(p) : p[i] = q[i]
  BY <1>1, <1>3, <1>4
<1> QED
  BY <1>1, <1>2, <1>5, SeqEqual

(* What an entry has.                                                      *)
LEMMA EntryRead ==
    ASSUME FramesTypeOK, NEW k \in 1..Len(entries)
    PROVE  /\ entries[k].path \in Paths /\ entries[k].content \in Contents
           /\ LeafOf(entries, k) \in Children
<1>1. entries \in Seq(Entries)
  BY StreamsAssumption DEF FramesTypeOK, Entries
<1>2. entries[k].path \in Paths /\ entries[k].content \in Contents
  BY <1>1, EntryOfStream
<1>3. Last(entries[k].path) \in Names
  BY <1>2, PathIsSeq DEF Last
<1> QED
  BY <1>2, <1>3 DEF LeafOf, Leaf, Children

(* The places of what was read.                                            *)
LEMMA ReadRange ==
    ASSUME FramesTypeOK
    PROVE  /\ Len(entries) \in Nat /\ place \in Nat /\ place >= 1
           /\ \A k \in 1..(place - 1) : k \in 1..Len(entries)
<1>1. entries \in Seq(Entries) /\ place \in 1..(Len(entries) + 1)
  BY StreamsAssumption DEF FramesTypeOK, Entries
<1> QED
  BY <1>1

(* The next entry, when it is accepted, comes after all that was read, and *)
(* no directory above it is closed.                                        *)
LEMMA AcceptedEntry ==
    ASSUME FramesTypeOK, ReadingInv, Accepted
    PROVE  LET p == entries[place].path
           IN  /\ place \in 1..Len(entries) /\ p \in Paths
               /\ \A k \in 1..(place - 1) : Before(entries[k].path, p)
               /\ EntryLeaf = LeafOf(entries, place) /\ EntryLeaf \in Children
               /\ \A k \in 1..(place - 1) :
                     FileIn(entries, place, Dir, k) =>
                        LeafOf(entries, k) # LeafOf(entries, place)
               /\ \A dir \in Seq(Names) : Above(dir, p) =>
                     \A k \in 1..Len(written) : written[k].dir # dir
<1> DEFINE p == entries[place].path
<1>1. place \in 1..Len(entries) /\ place \in Nat /\ Len(entries) \in Nat
  BY ReadRange DEF Accepted
<1>2. p \in Paths /\ EntryLeaf = LeafOf(entries, place) /\ EntryLeaf \in Children
  BY <1>1, EntryRead DEF EntryLeaf, LeafOf
<1>3. ASSUME NEW k \in 1..(place - 1)
      PROVE  Before(entries[k].path, p)
  <2>1. Before(entries[place - 1].path, p)
    BY <1>1 DEF Accepted
  <2>2. CASE k = place - 1
    BY <2>1, <2>2
  <2>3. CASE k # place - 1
    <3>1. place - 1 \in 1..(place - 1) /\ k < place - 1
      BY <1>1, <2>3
    <3>2. Before(entries[k].path, entries[place - 1].path)
      BY <3>1 DEF ReadingInv, ReadAscends
    <3>3. entries[k].path \in Paths /\ entries[place - 1].path \in Paths
      BY <3>1, ReadRange, EntryRead
    <3> QED
      BY <1>2, <2>1, <3>2, <3>3, OrderAssumption
  <2> QED
    BY <2>2, <2>3
<1>4. ASSUME NEW k \in 1..(place - 1), FileIn(entries, place, Dir, k),
             LeafOf(entries, k) = LeafOf(entries, place)
      PROVE  FALSE
  <2>1. Front(entries[k].path) = Front(p) /\ Last(entries[k].path) = Last(p)
    BY <1>4 DEF FileIn, Dir, LeafOf, Leaf
  <2>2. entries[k].path \in Paths
    BY ReadRange, EntryRead
  <2>3. entries[k].path = p
    BY <1>2, <2>1, <2>2, PathOfParts
  <2> QED
    BY <1>2, <1>3, <2>3, OrderAssumption
<1>5. ASSUME NEW dir \in Seq(Names), Above(dir, p),
             NEW k \in 1..Len(written), written[k].dir = dir
      PROVE  FALSE
  <2>1. PICK i \in 1..(place - 1) : \E c \in (i + 1)..place :
            Above(dir, entries[i].path) /\ ~Above(dir, entries[c].path)
    BY <1>1, <1>5 DEF ReadingInv, ClosedBehind, Behind
  <2>2. PICK c \in (i + 1)..place :
            Above(dir, entries[i].path) /\ ~Above(dir, entries[c].path)
    BY <2>1
  <2>3. c # place
    BY <1>5, <2>2
  <2>4. c \in 1..(place - 1) /\ i < c
    BY <1>1, <2>3
  <2>5. Before(entries[i].path, entries[c].path) /\ Before(entries[c].path, p)
    BY <1>3, <2>4 DEF ReadingInv, ReadAscends
  <2>6. entries[i].path \in Paths /\ entries[c].path \in Paths
    BY <2>4, ReadRange, EntryRead
  <2>7. Above(dir, entries[c].path)
    BY <1>2, <1>5, <2>2, <2>5, <2>6, AboveBetween
  <2> QED
    BY <2>2, <2>7
<1> QED
  BY <1>1, <1>2, <1>3, <1>4, <1>5

(* The place moves on past the entry.                                      *)
LEMMA ReadOneMore ==
    ASSUME FramesTypeOK, ReadingInv, Accepted,
           place' = place + 1, UNCHANGED <<entries, written>>
    PROVE  /\ ReadAscends' /\ ClosedBehind'
           /\ \A dir : ReadBelow(entries', place', dir) <=>
                 ReadBelow(entries, place, dir) \/ Above(dir, entries[place].path)
<1>1. place \in 1..Len(entries) /\ place \in Nat /\ Len(entries) \in Nat
  BY ReadRange DEF Accepted
<1>2. ReadAscends'
  <2>1. ASSUME NEW k \in 1..place, NEW l \in 1..place, k < l
        PROVE  Before(entries[k].path, entries[l].path)
    <3>1. CASE l = place
      <4>1. k \in 1..(place - 1)
        BY <1>1, <2>1, <3>1
      <4> QED
        BY <3>1, <4>1, AcceptedEntry
    <3>2. CASE l # place
      <4>1. k \in 1..(place - 1) /\ l \in 1..(place - 1)
        BY <1>1, <2>1, <3>2
      <4> QED
        BY <2>1, <4>1 DEF ReadingInv, ReadAscends
    <3> QED
      BY <3>1, <3>2
  <2>2. place' - 1 = place
    BY <1>1
  <2> QED
    BY <2>1, <2>2 DEF ReadAscends
<1>3. ClosedBehind'
  <2>1. ASSUME NEW k \in 1..Len(written)
        PROVE  \E i \in 1..(place + 1 - 1) : \E c \in (i + 1)..(place + 1) :
                  /\ Above(written[k].dir, entries[i].path)
                  /\ ~Above(written[k].dir, entries[c].path)
    <3>1. PICK i \in 1..(place - 1) : \E c \in (i + 1)..place :
              /\ Above(written[k].dir, entries[i].path)
              /\ ~Above(written[k].dir, entries[c].path)
      BY <1>1 DEF ReadingInv, ClosedBehind, Behind
    <3>2. PICK c \in (i + 1)..place :
              /\ Above(written[k].dir, entries[i].path)
              /\ ~Above(written[k].dir, entries[c].path)
      BY <3>1
    <3>3. i \in 1..(place + 1 - 1) /\ c \in (i + 1)..(place + 1)
      BY <1>1
    <3> QED
      BY <3>2, <3>3
  <2>2. place' = place + 1 /\ entries' = entries /\ written' = written
    OBVIOUS
  <2>3. Behind(entries, place + 1, written)
    BY <2>1 DEF Behind
  <2> QED
    BY <2>2, <2>3 DEF ClosedBehind
<1>4. ASSUME NEW dir
      PROVE  ReadBelow(entries', place', dir) <=>
                 ReadBelow(entries, place, dir) \/ Above(dir, entries[place].path)
  <2>1. \A i \in 1..(place' - 1) : i = place \/ i \in 1..(place - 1)
    BY <1>1
  <2>2. place \in 1..(place' - 1) /\ \A i \in 1..(place - 1) : i \in 1..(place' - 1)
    BY <1>1
  <2> QED
    BY <2>1, <2>2 DEF ReadBelow
<1> QED
  BY <1>2, <1>3, <1>4

(* What a frame has.                                                       *)
LEMMA FrameTypes ==
    ASSUME NEW s \in Seq(FrameSet), NEW k \in 1..Len(s)
    PROVE  /\ s[k] \in FrameSet
           /\ s[k].dir \in Seq(Names) /\ s[k].children \in Seq(Children)
<1>1. s[k] \in FrameSet
  OBVIOUS
<1> QED
  BY <1>1 DEF FrameSet

(* A frame with a child more.                                              *)
LEMMA WithChildFrame ==
    ASSUME NEW f \in FrameSet, NEW c \in Children
    PROVE  /\ WithChild(f, c) \in FrameSet /\ WithChild(f, c).dir = f.dir
           /\ WithChild(f, c).children # <<>>
<1>1. f.children \in Seq(Children) /\ f.dir \in Seq(Names)
  BY DEF FrameSet
<1>2. Append(f.children, c) \in Seq(Children) /\ Append(f.children, c) # <<>>
  BY <1>1, AppendProperties
<1> QED
  BY <1>1, <1>2 DEF WithChild, FrameSet

(* An accepted entry at the root.                                          *)
LEMMA AddToRootInv ==
    FramesTypeOK /\ ReadingInv /\ AddToRoot => FramesTypeOK' /\ ReadingInv'
<1> SUFFICES ASSUME FramesTypeOK, ReadingInv, AddToRoot
             PROVE  FramesTypeOK' /\ ReadingInv'
  OBVIOUS
<1> DEFINE p == entries[place].path
           g == WithChild(stack[1], EntryLeaf)
<1>1. /\ Accepted /\ Dir = <<>> /\ progress' = progress
      /\ stack' = [stack EXCEPT ![1] = g]
      /\ place' = place + 1 /\ entries' = entries /\ written' = written
  BY DEF AddToRoot
<1>2. /\ place \in 1..Len(entries) /\ p \in Paths
      /\ EntryLeaf = LeafOf(entries, place) /\ EntryLeaf \in Children
      /\ \A k \in 1..(place - 1) : FileIn(entries, place, Dir, k) =>
            LeafOf(entries, k) # LeafOf(entries, place)
  BY <1>1, AcceptedEntry
<1>3. /\ stack \in Seq(FrameSet) /\ Len(stack) \in Nat /\ Len(stack) >= 1
      /\ written \in Seq(FrameSet) /\ Len(written) \in Nat
      /\ place \in Nat /\ Len(entries) \in Nat /\ place >= 1
  BY ReadRange DEF FramesTypeOK
<1>4. stack[1] \in FrameSet
  BY <1>3
<1>5. g \in FrameSet /\ g.dir = stack[1].dir /\ g.children # <<>>
  BY <1>2, <1>4, WithChildFrame
<1> HIDE DEF g
<1>6. /\ stack' \in Seq(FrameSet) /\ Len(stack') = Len(stack)
      /\ \A k \in 1..Len(stack) : stack'[k] = IF k = 1 THEN g ELSE stack[k]
  <2>1. 1 \in 1..Len(stack)
    BY <1>3
  <2> QED
    BY <1>1, <1>3, <1>5, <2>1, ExceptSeq
<1>7. \A k \in 1..Len(stack) : stack'[k].dir = stack[k].dir
  BY <1>5, <1>6
<1>8. Front(p) = <<>>
  BY <1>1 DEF Dir
<1>9. FramesTypeOK'
  <2>1. place' \in 1..(Len(entries') + 1)
    BY <1>1, <1>2, <1>3
  <2> QED
    BY <1>1, <1>3, <1>6, <2>1 DEF FramesTypeOK
<1>10. StackOK'
  <2>1. Len(stack) \in 1..Len(stack)
    BY <1>3
  <2>2. stack'[Len(stack')].dir = stack[Len(stack)].dir
    BY <1>6, <1>7, <2>1
  <2>3. Len(stack') > 1 => stack'[Len(stack')].children # <<>>
    <3>1. ASSUME Len(stack) > 1
          PROVE  stack'[Len(stack)] = stack[Len(stack)]
      BY <1>6, <2>1, <3>1
    <3> QED
      BY <1>6, <3>1 DEF ReadingInv, StackOK, Top
  <2> QED
    BY <1>6, <1>7, <2>2, <2>3 DEF ReadingInv, StackOK, Top
<1>11. /\ ReadAscends' /\ ClosedBehind'
       /\ \A dir : ReadBelow(entries', place', dir) <=>
                      ReadBelow(entries, place, dir) \/ Above(dir, p)
  BY <1>1, ReadOneMore
<1>12. \A dir \in Seq(Names) : Above(dir, p) => dir = <<>>
  <2> TAKE dir \in Seq(Names)
  <2>1. Len(Front(p)) = 0 /\ Len(Front(p)) = Len(p) - 1 /\ Len(p) \in Nat
    BY <1>2, <1>8, FrontOf, PathIsSeq, EmptySeq
  <2>2. Above(dir, p) => Len(dir) = 0
    BY <2>1 DEF Above
  <2> QED
    BY <2>2, EmptySeq
<1>13. ReadDirs'
  <2>1. \A k \in 2..Len(stack') : ReadBelow(entries', place', stack'[k].dir)
    BY <1>6, <1>7, <1>11 DEF ReadingInv, ReadDirs
  <2>2. \A k \in 1..Len(written') :
           written'[k].dir # <<>> /\ ReadBelow(entries', place', written'[k].dir)
    BY <1>1, <1>11 DEF ReadingInv, ReadDirs
  <2>3. ASSUME NEW dir \in Seq(Names), dir # <<>>, ReadBelow(entries', place', dir)
        PROVE  \/ \E k \in 1..Len(stack') : stack'[k].dir = dir
               \/ \E k \in 1..Len(written') : written'[k].dir = dir
    <3>1. ReadBelow(entries, place, dir)
      BY <1>11, <1>12, <2>3
    <3>2. \/ \E k \in 1..Len(stack) : stack[k].dir = dir
          \/ \E k \in 1..Len(written) : written[k].dir = dir
      BY <2>3, <3>1 DEF ReadingInv, ReadDirs
    <3> QED
      BY <1>1, <1>6, <1>7, <3>2
  <2> QED
    BY <2>1, <2>2, <2>3 DEF ReadDirs, ReadBelow
<1>14. FramesOnce'
  BY <1>1, <1>6, <1>7 DEF ReadingInv, FramesOnce
<1>15. FramesOK'
  <2>1. FrameOK(g, entries, place + 1, written)
    <3>1. FrameOK(stack[1], entries, place, written)
      BY <1>3 DEF ReadingInv, FramesOK
    <3>2. stack[1].dir = <<>>
      <4>1. 1 \in 1..Len(stack) /\ stack[1].dir \in Seq(Names)
        BY <1>3, <1>4 DEF FrameSet
      <4>2. Len(stack[1].dir) = 1 - 1
        BY <4>1 DEF ReadingInv, StackOK
      <4> QED
        BY <4>1, <4>2, EmptySeq
    <3>3. Front(entries[place].path) = stack[1].dir /\ Dir = stack[1].dir
      BY <1>1, <1>8, <3>2
    <3> QED
      BY <1>2, <1>3, <1>4, <3>1, <3>3, ReadHere DEF g
  <2>2. ASSUME NEW k \in 2..Len(stack)
        PROVE  FrameOK(stack[k], entries, place + 1, written)
    <3>1. k \in 1..Len(stack) /\ k # 1
      BY <1>3
    <3>2. Len(stack[k].dir) = k - 1 /\ FrameOK(stack[k], entries, place, written)
      BY <3>1 DEF ReadingInv, StackOK, FramesOK
    <3>3. stack[k].dir # Front(p)
      BY <1>8, <3>1, <3>2, EmptySeq
    <3> QED
      BY <1>3, <3>2, <3>3, ReadElsewhere
  <2>3. ASSUME NEW k \in 1..Len(written)
        PROVE  FrameOK(written[k], entries, place + 1, written)
    <3>1. written[k].dir # Front(p) /\ FrameOK(written[k], entries, place, written)
      BY <1>8 DEF ReadingInv, ReadDirs, FramesOK
    <3> QED
      BY <1>3, <3>1, ReadElsewhere
  <2>4. \A k \in 1..Len(stack) : k = 1 \/ k \in 2..Len(stack)
    BY <1>3
  <2> QED
    BY <1>1, <1>6, <2>1, <2>2, <2>3, <2>4 DEF FramesOK
<1> QED
  BY <1>9, <1>10, <1>11, <1>13, <1>14, <1>15 DEF ReadingInv

(* An accepted entry below the innermost directory, or in it: the frames   *)
(* from there down to the entry's directory are opened.                    *)
LEMMA AddToDirectoryInv ==
    FramesTypeOK /\ ReadingInv /\ AddToDirectory => FramesTypeOK' /\ ReadingInv'
<1> SUFFICES ASSUME FramesTypeOK, ReadingInv, AddToDirectory
             PROVE  FramesTypeOK' /\ ReadingInv'
  OBVIOUS
<1> DEFINE p == entries[place].path
           n == Len(stack)
           last == Len(Dir) + 1
           frame(k) == IF k \in DOMAIN stack THEN stack[k]
                       ELSE Frame(SubSeq(Dir, 1, k - 1))
<1>1. /\ Accepted /\ Dir # <<>> /\ IsPrefix(Top.dir, Dir) /\ progress' = progress
      /\ stack' = [k \in 1..last |->
                      IF k = last THEN WithChild(frame(k), EntryLeaf) ELSE frame(k)]
      /\ place' = place + 1 /\ entries' = entries /\ written' = written
  BY DEF AddToDirectory
<1>2. /\ place \in 1..Len(entries) /\ p \in Paths
      /\ EntryLeaf = LeafOf(entries, place) /\ EntryLeaf \in Children
      /\ \A k \in 1..(place - 1) : FileIn(entries, place, Dir, k) =>
            LeafOf(entries, k) # LeafOf(entries, place)
      /\ \A dir \in Seq(Names) : Above(dir, p) =>
            \A k \in 1..Len(written) : written[k].dir # dir
  BY <1>1, AcceptedEntry
<1>3. /\ stack \in Seq(FrameSet) /\ n \in Nat /\ n >= 1 /\ DOMAIN stack = 1..n
      /\ written \in Seq(FrameSet) /\ Len(written) \in Nat
      /\ place \in Nat /\ Len(entries) \in Nat /\ place >= 1
  BY ReadRange DEF FramesTypeOK
<1>4. /\ Dir \in Seq(Names) /\ Len(Dir) \in Nat /\ Len(Dir) = Len(p) - 1
      /\ Len(p) \in Nat /\ last \in Nat /\ last = Len(p) /\ Len(Dir) >= 1
      /\ \A i \in 1..Len(Dir) : Dir[i] = p[i]
  <2>1. /\ Dir \in Seq(Names) /\ Len(Dir) = Len(p) - 1
        /\ \A i \in 1..(Len(p) - 1) : Dir[i] = p[i]
    BY <1>2, FrontOf DEF Dir
  <2>2. Len(p) \in Nat /\ Len(Dir) \in Nat /\ Len(Dir) >= 1
    BY <1>1, <1>2, <2>1, PathIsSeq, EmptySeq
  <2> QED
    BY <2>1, <2>2
<1>5. \A k \in 1..n : stack[k] \in FrameSet /\ stack[k].dir \in Seq(Names)
  BY <1>3, FrameTypes
<1>6. n <= last /\ \A i \in 1..(n - 1) : Top.dir[i] = Dir[i]
  <2>1. Top.dir \in Seq(Names) /\ Len(Top.dir) = n - 1
    <3>1. n \in 1..Len(stack)
      BY <1>3
    <3>2. Len(stack[n].dir) = n - 1
      BY <3>1 DEF ReadingInv, StackOK
    <3> QED
      BY <1>5, <3>1, <3>2 DEF Top
  <2>2. n - 1 <= Len(Dir) /\ \A i \in 1..(n - 1) : Top.dir[i] = Dir[i]
    BY <1>1, <1>4, <2>1, PrefixPoints
  <2> QED
    BY <1>3, <1>4, <2>2
<1>7. ASSUME NEW k \in 1..last
      PROVE  /\ frame(k) \in FrameSet /\ Len(frame(k).dir) = k - 1
             /\ \A i \in 1..(k - 1) : frame(k).dir[i] = Dir[i]
  <2>1. CASE k \in 1..n
    <3>1. frame(k) = stack[k] /\ k - 1 <= n - 1
      BY <1>3, <2>1
    <3>2. Len(stack[k].dir) = k - 1 /\ \A i \in 1..(k - 1) : stack[k].dir[i] = Top.dir[i]
      BY <2>1 DEF ReadingInv, StackOK
    <3>3. \A i \in 1..(k - 1) : i \in 1..(n - 1)
      BY <1>3, <2>1
    <3> QED
      BY <1>5, <1>6, <2>1, <3>1, <3>2, <3>3
  <2>2. CASE k \notin 1..n
    <3>1. frame(k) = Frame(SubSeq(Dir, 1, k - 1)) /\ k - 1 \in 0..Len(Dir)
      BY <1>3, <1>4, <2>2
    <3>2. /\ SubSeq(Dir, 1, k - 1) \in Seq(Names) /\ Len(SubSeq(Dir, 1, k - 1)) = k - 1
          /\ \A i \in 1..(k - 1) : SubSeq(Dir, 1, k - 1)[i] = Dir[i]
      BY <1>4, <3>1, FirstOf
    <3>3. Frame(SubSeq(Dir, 1, k - 1)).dir = SubSeq(Dir, 1, k - 1)
      BY DEF Frame
    <3>4. Frame(SubSeq(Dir, 1, k - 1)) \in FrameSet
      <4>1. <<>> \in Seq(Children)
        OBVIOUS
      <4> QED
        BY <3>2, <4>1 DEF Frame, FrameSet
    <3> HIDE DEF frame
    <3> QED
      BY <3>1, <3>2, <3>3, <3>4
  <2> QED
    BY <2>1, <2>2
<1>8. /\ \A k \in 1..n : k \in 1..last /\ frame(k) = stack[k]
      /\ \A k \in 1..last : k \notin 1..n => frame(k) = Frame(frame(k).dir)
  BY <1>3, <1>4, <1>6 DEF Frame
<1>9. \A k \in 1..last : frame(k).dir \in Seq(Names)
  BY <1>7 DEF FrameSet
<1> HIDE DEF frame
<1>10. /\ stack' \in Seq(FrameSet) /\ Len(stack') = last
       /\ \A k \in 1..last : stack'[k].dir = frame(k).dir
       /\ stack'[last] = WithChild(frame(last), EntryLeaf)
       /\ \A k \in 1..(last - 1) : stack'[k] = frame(k)
       /\ stack'[last].children # <<>>
  <2>1. last \in 1..last /\ \A k \in 1..(last - 1) : k \in 1..last /\ k # last
    BY <1>4
  <2>2. /\ WithChild(frame(last), EntryLeaf) \in FrameSet
        /\ WithChild(frame(last), EntryLeaf).dir = frame(last).dir
        /\ WithChild(frame(last), EntryLeaf).children # <<>>
    BY <1>2, <1>7, <2>1, WithChildFrame
  <2> DEFINE e(k) == IF k = last THEN WithChild(frame(k), EntryLeaf) ELSE frame(k)
  <2>3. \A k \in 1..last : e(k) \in FrameSet
    BY <1>7, <2>2
  <2>4. stack' = [k \in 1..last |-> e(k)]
    BY <1>1
  <2> HIDE DEF e
  <2>5. stack' \in Seq(FrameSet) /\ Len(stack') = last /\ \A k \in 1..last : stack'[k] = e(k)
    BY <1>4, <2>3, <2>4
  <2>6. e(last) = WithChild(frame(last), EntryLeaf) /\ \A k \in 1..(last - 1) : e(k) = frame(k)
    BY <2>1 DEF e
  <2>7. \A k \in 1..last : k = last \/ k \in 1..(last - 1)
    BY <1>4
  <2> QED
    BY <2>1, <2>2, <2>5, <2>6, <2>7
<1>11. frame(last).dir = Dir
  <2>1. last \in 1..last /\ last - 1 = Len(Dir)
    BY <1>4
  <2>2. Len(frame(last).dir) = Len(Dir) /\ \A i \in 1..Len(Dir) : frame(last).dir[i] = Dir[i]
    BY <1>7, <2>1
  <2> QED
    BY <1>4, <1>9, <2>1, <2>2, SeqEqual
<1>12. \A k \in 2..last : Above(frame(k).dir, p)
  <2> TAKE k \in 2..last
  <2>1. /\ k \in 1..last /\ k - 1 < Len(p)
        /\ \A i \in 1..(k - 1) : i \in 1..Len(Dir)
    BY <1>4
  <2> QED
    BY <1>4, <1>7, <2>1 DEF Above
<1>13. FramesTypeOK'
  <2>1. place' \in 1..(Len(entries') + 1)
    BY <1>1, <1>2, <1>3
  <2>2. Len(stack') >= 1
    BY <1>4, <1>10
  <2> QED
    BY <1>1, <1>3, <1>10, <2>1, <2>2 DEF FramesTypeOK
<1>14. StackOK'
  <2>1. stack'[Len(stack')].dir = Dir /\ last \in 1..last
    BY <1>4, <1>10, <1>11
  <2> QED
    BY <1>7, <1>10, <2>1 DEF StackOK, Top
<1>15. /\ ReadAscends' /\ ClosedBehind'
       /\ \A dir : ReadBelow(entries', place', dir) <=>
                      ReadBelow(entries, place, dir) \/ Above(dir, p)
  BY <1>1, ReadOneMore
<1>16. ReadDirs'
  <2>1. \A k \in 2..Len(stack') : ReadBelow(entries', place', stack'[k].dir)
    <3> TAKE k \in 2..Len(stack')
    <3>1. k \in 2..last /\ k \in 1..last
      BY <1>4, <1>10
    <3> QED
      BY <1>10, <1>12, <1>15, <3>1
  <2>2. \A k \in 1..Len(written') :
           written'[k].dir # <<>> /\ ReadBelow(entries', place', written'[k].dir)
    BY <1>1, <1>15 DEF ReadingInv, ReadDirs
  <2>3. ASSUME NEW dir \in Seq(Names), dir # <<>>, ReadBelow(entries', place', dir)
        PROVE  \/ \E k \in 1..Len(stack') : stack'[k].dir = dir
               \/ \E k \in 1..Len(written') : written'[k].dir = dir
    <3>1. CASE ReadBelow(entries, place, dir)
      <4>1. \/ \E k \in 1..n : stack[k].dir = dir
            \/ \E k \in 1..Len(written) : written[k].dir = dir
        BY <2>3, <3>1 DEF ReadingInv, ReadDirs
      <4> QED
        BY <1>1, <1>8, <1>10, <4>1
    <3>2. CASE Above(dir, p)
      <4> DEFINE k == Len(dir) + 1
      <4>1. Len(dir) \in Nat /\ Len(dir) < Len(p) /\ \A i \in 1..Len(dir) : dir[i] = p[i]
        BY <3>2 DEF Above
      <4>2. k \in 1..last /\ k - 1 = Len(dir) /\ \A i \in 1..Len(dir) : i \in 1..Len(Dir)
        BY <1>4, <4>1
      <4> HIDE DEF k
      <4>3. Len(frame(k).dir) = Len(dir) /\ \A i \in 1..Len(dir) : frame(k).dir[i] = dir[i]
        BY <1>4, <1>7, <4>1, <4>2
      <4>4. frame(k).dir = dir
        BY <1>9, <4>2, <4>3, SeqEqual
      <4> QED
        BY <1>10, <4>2, <4>4
    <3> QED
      BY <1>15, <2>3, <3>1, <3>2
  <2> QED
    BY <2>1, <2>2, <2>3 DEF ReadDirs
<1>17. FramesOnce'
  <2>1. ASSUME NEW k \in 1..last, NEW l \in 1..Len(written)
        PROVE  frame(k).dir # written[l].dir
    <3>1. CASE k = 1
      <4>1. frame(k).dir = <<>>
        BY <1>7, <1>9, <3>1, EmptySeq
      <4> QED
        BY <4>1 DEF ReadingInv, ReadDirs
    <3>2. CASE k \in 2..last
      BY <1>2, <1>9, <1>12, <3>2
    <3> QED
      BY <1>4, <3>1, <3>2
  <2> QED
    BY <1>1, <1>10, <2>1 DEF ReadingInv, FramesOnce
<1>18. ASSUME NEW k \in 1..last, k \notin 1..n
       PROVE  FrameOK(frame(k), entries, place, written)
  <2> DEFINE d == frame(k).dir
  <2>1. k \in 2..last /\ d \in Seq(Names) /\ Len(d) = k - 1 /\ d # <<>>
    <3>1. k \in 2..last
      BY <1>3, <1>4, <1>18
    <3> QED
      BY <1>7, <1>9, <3>1, EmptySeq
  <2>2. \A j \in 1..n : stack[j].dir # d
    <3>1. \A j \in 1..n : Len(stack[j].dir) = j - 1
      BY DEF ReadingInv, StackOK
    <3>2. \A j \in 1..n : j - 1 # k - 1
      BY <1>3, <1>18
    <3> QED
      BY <2>1, <3>1, <3>2
  <2>3. \A j \in 1..Len(written) : written[j].dir # d
    BY <1>2, <1>12, <2>1
  <2> HIDE DEF d
  <2>4. ~ReadBelow(entries, place, d)
    BY <2>1, <2>2, <2>3 DEF ReadingInv, ReadDirs
  <2>5. ASSUME NEW j \in 1..(place - 1), FileIn(entries, place, d, j)
        PROVE  FALSE
    <3>1. entries[j].path \in Paths /\ Front(entries[j].path) = d
      BY <2>5, ReadRange, EntryRead DEF FileIn
    <3>2. IsPrefix(d, d)
      BY <2>1, PrefixPoints
    <3>3. Above(d, entries[j].path)
      BY <2>1, <3>1, <3>2, AbovePrefix
    <3> QED
      BY <2>4, <3>3 DEF ReadBelow
  <2>6. ASSUME NEW l \in 1..Len(written), DirIn(written, d, l)
        PROVE  FALSE
    <3>1. written[l].dir \in Seq(Names) /\ written[l].dir # <<>> /\ Front(written[l].dir) = d
      BY <1>3, <2>6, FrameTypes DEF DirIn, ReadingInv, ReadDirs
    <3>2. PICK i \in 1..(place - 1) : Above(written[l].dir, entries[i].path)
      BY DEF ReadingInv, ReadDirs, ReadBelow
    <3>3. entries[i].path \in Paths
      BY ReadRange, EntryRead
    <3>4. Above(d, entries[i].path)
      BY <3>1, <3>2, <3>3, AboveFront
    <3> QED
      BY <2>4, <3>4 DEF ReadBelow
  <2>7. FrameOK(Frame(d), entries, place, written)
    BY <2>5, <2>6, NewFrame
  <2> QED
    BY <1>8, <1>18, <2>7 DEF d
<1>19. \A k \in 1..last : FrameOK(frame(k), entries, place, written)
  <2>1. \A k \in 1..n : FrameOK(stack[k], entries, place, written)
    BY DEF ReadingInv, FramesOK
  <2> QED
    BY <1>8, <1>18, <2>1
<1>20. FramesOK'
  <2>1. FrameOK(WithChild(frame(last), EntryLeaf), entries, place + 1, written)
    <3>1. last \in 1..last
      BY <1>4
    <3>2. frame(last) \in FrameSet /\ FrameOK(frame(last), entries, place, written)
      BY <1>7, <1>19, <3>1
    <3>3. Front(entries[place].path) = frame(last).dir /\ Dir = frame(last).dir
      BY <1>11 DEF Dir
    <3>4. place \in Nat \ {0}
      BY <1>3
    <3> QED
      BY <1>2, <3>2, <3>3, <3>4, ReadHere
  <2>2. ASSUME NEW k \in 1..(last - 1)
        PROVE  FrameOK(frame(k), entries, place + 1, written)
    <3>1. k \in 1..last /\ k - 1 # Len(Dir)
      BY <1>4
    <3>2. frame(k).dir # Front(entries[place].path)
      BY <1>7, <3>1 DEF Dir
    <3> QED
      BY <1>3, <1>19, <3>1, <3>2, ReadElsewhere
  <2>3. ASSUME NEW k \in 1..Len(written)
        PROVE  FrameOK(written[k], entries, place + 1, written)
    <3>1. Above(Dir, p)
      <4>1. last \in 2..last
        BY <1>4
      <4> QED
        BY <1>11, <1>12, <4>1
    <3>2. written[k].dir # Front(entries[place].path)
      BY <1>2, <1>4, <3>1 DEF Dir
    <3>3. FrameOK(written[k], entries, place, written)
      BY DEF ReadingInv, FramesOK
    <3> QED
      BY <1>3, <3>2, <3>3, ReadElsewhere
  <2>4. \A k \in 1..last : k = last \/ k \in 1..(last - 1)
    BY <1>4
  <2>5. \A k \in 1..last : FrameOK(stack'[k], entries, place + 1, written)
    BY <1>10, <2>1, <2>2, <2>4
  <2> QED
    BY <1>1, <1>10, <2>3, <2>5 DEF FramesOK
<1> QED
  BY <1>13, <1>14, <1>15, <1>16, <1>17, <1>20 DEF ReadingInv

(* The innermost frame is closed and becomes a child of the one below.     *)
LEMMA CloseFrameInv ==
    FramesTypeOK /\ ReadingInv /\ CloseFrame => FramesTypeOK' /\ ReadingInv'
<1> SUFFICES ASSUME FramesTypeOK, ReadingInv, CloseFrame
             PROVE  FramesTypeOK' /\ ReadingInv'
  OBVIOUS
<1> DEFINE n == Len(stack)
           t == stack[n]
           c == Subtree(t.dir, Len(written) + 1)
           f == stack[n - 1]
           g == WithChild(f, c)
<1>1. /\ n > 1
      /\ Leaves \/ place > Len(entries)
      /\ written' = Append(written, t)
      /\ stack' = Attached(Front(stack), c)
      /\ place' = place /\ entries' = entries /\ progress' = progress
  BY DEF CloseFrame, Top, ReadingInv, StackOK
<1>2. /\ stack \in Seq(FrameSet) /\ n \in Nat /\ n - 1 \in 1..n /\ n \in 1..n
      /\ written \in Seq(FrameSet) /\ Len(written) \in Nat
      /\ place \in Nat /\ Len(entries) \in Nat /\ place >= 1
  <2>1. stack \in Seq(FrameSet) /\ written \in Seq(FrameSet)
    BY DEF FramesTypeOK
  <2>2. n \in Nat /\ Len(written) \in Nat
    BY <2>1
  <2> HIDE DEF n
  <2>3. n - 1 \in 1..n /\ n \in 1..n
    BY <1>1, <2>2
  <2> QED
    BY <2>1, <2>2, <2>3, ReadRange
<1>3. /\ t \in FrameSet /\ t.dir \in Seq(Names) /\ f \in FrameSet
      /\ f.dir \in Seq(Names)
      /\ \A k \in 1..n : stack[k] \in FrameSet /\ stack[k].dir \in Seq(Names)
  BY <1>2, FrameTypes
<1>4. /\ Len(t.dir) = n - 1 /\ t.dir # <<>> /\ Len(f.dir) = n - 1 - 1
      /\ \A k \in 1..n : Len(stack[k].dir) = k - 1
      /\ \A k \in 1..n : \A i \in 1..(k - 1) : stack[k].dir[i] = t.dir[i]
  <2>1. \A k \in 1..n : /\ Len(stack[k].dir) = k - 1
                        /\ \A i \in 1..(k - 1) : stack[k].dir[i] = t.dir[i]
    BY DEF ReadingInv, StackOK, Top
  <2>2. Len(t.dir) # 0
    BY <1>1, <1>2, <2>1
  <2> QED
    BY <1>2, <2>1, <2>2, EmptySeq
<1>5. c \in Children
  <2>1. Last(t.dir) \in Names
    <3>1. n - 1 \in 1..Len(t.dir)
      BY <1>1, <1>2, <1>4
    <3>2. t.dir[n - 1] \in Names
      BY <1>3, <3>1, ElementOfSeq
    <3> QED
      BY <1>4, <3>2 DEF Last
  <2> QED
    BY <1>2, <2>1 DEF Subtree, Children
<1>6. g \in FrameSet /\ g.dir = f.dir /\ g.children # <<>>
  BY <1>3, <1>5, WithChildFrame
<1>7. Front(t.dir) = f.dir
  <2>1. n - 1 - 1 \in 0..Len(t.dir)
    BY <1>1, <1>2, <1>4
  <2>2. Front(t.dir) = SubSeq(t.dir, 1, n - 1 - 1)
    BY <1>4 DEF Front
  <2>3. /\ SubSeq(t.dir, 1, n - 1 - 1) \in Seq(Names)
        /\ Len(SubSeq(t.dir, 1, n - 1 - 1)) = n - 1 - 1
        /\ \A i \in 1..(n - 1 - 1) : SubSeq(t.dir, 1, n - 1 - 1)[i] = t.dir[i]
    BY <1>3, <2>1, FirstOf
  <2>4. \A i \in 1..(n - 1 - 1) : f.dir[i] = t.dir[i]
    BY <1>2, <1>4
  <2> QED
    BY <1>3, <1>4, <2>2, <2>3, <2>4, SeqEqual
<1>8. /\ Front(stack) \in Seq(FrameSet) /\ Len(Front(stack)) = n - 1
      /\ \A k \in 1..(n - 1) : Front(stack)[k] = stack[k]
  <2> DEFINE m == n - 1
  <2>1. m \in Nat /\ m >= 1 /\ Front(stack) = SubSeq(stack, 1, m)
    BY <1>1, <1>2 DEF Front
  <2>2. \A i \in 1..m : stack[i] \in FrameSet
    BY <1>2, <1>3
  <2> HIDE DEF m
  <2>3. /\ SubSeq(stack, 1, m) \in Seq(FrameSet)
        /\ Len(SubSeq(stack, 1, m)) = IF 1 <= m THEN m - 1 + 1 ELSE 0
        /\ \A i \in 1..(m - 1 + 1) : SubSeq(stack, 1, m)[i] = stack[1 + i - 1]
    BY <2>1, <2>2, SubSeqProperties
  <2>4. Len(SubSeq(stack, 1, m)) = m
    BY <2>1, <2>3
  <2>5. \A i \in 1..m : SubSeq(stack, 1, m)[i] = stack[i]
    <3> TAKE i \in 1..m
    <3>1. i \in 1..(m - 1 + 1) /\ 1 + i - 1 = i
      BY <2>1
    <3> QED
      BY <2>3, <3>1
  <2>6. /\ Front(stack) \in Seq(FrameSet) /\ Len(Front(stack)) = m
        /\ \A k \in 1..m : Front(stack)[k] = stack[k]
    BY <2>1, <2>3, <2>4, <2>5
  <2> QED
    BY <2>6 DEF m
<1> HIDE DEF n, t, c, f, g
<1>9. /\ stack' \in Seq(FrameSet) /\ Len(stack') = n - 1
      /\ \A k \in 1..(n - 1) : stack'[k] = IF k = n - 1 THEN g ELSE stack[k]
  <2>1. n - 1 \in 1..(n - 1) /\ Front(stack)[n - 1] = f
    BY <1>1, <1>2, <1>8 DEF f
  <2>2. stack' = [Front(stack) EXCEPT ![n - 1] = g]
    BY <1>1, <1>8, <2>1 DEF Attached, g
  <2> QED
    BY <1>6, <1>8, <2>1, <2>2, ExceptSeq
<1>10. /\ n - 1 \in 1..(n - 1) /\ n - 1 \in 1..n
       /\ \A k \in 1..(n - 1) : k \in 1..n /\ k # n
       /\ \A k \in 1..n : k = n \/ k \in 1..(n - 1)
  BY <1>1, <1>2
<1>11. \A k \in 1..(n - 1) : stack'[k].dir = stack[k].dir
  BY <1>6, <1>9 DEF f
<1>12. /\ written' \in Seq(FrameSet) /\ Len(written') = Len(written) + 1
       /\ \A k \in 1..Len(written) : written'[k] = written[k]
       /\ written'[Len(written) + 1] = t
       /\ \A k \in 1..Len(written') : k = Len(written) + 1 \/ k \in 1..Len(written)
       /\ \A k \in 1..Len(written) : k \in 1..Len(written')
       /\ Len(written) + 1 \in 1..Len(written')
  <2>1. /\ written' \in Seq(FrameSet) /\ Len(written') = Len(written) + 1
        /\ \A k \in 1..Len(written) : written'[k] = written[k]
        /\ written'[Len(written) + 1] = t
    BY <1>1, <1>2, <1>3, AppendProperties
  <2> QED
    BY <1>2, <2>1
<1>13. FramesTypeOK'
  <2>1. Len(stack') >= 1
    BY <1>1, <1>2, <1>9
  <2> QED
    BY <1>1, <1>9, <1>12, <2>1 DEF FramesTypeOK
<1>14. StackOK'
  <2>1. stack'[Len(stack')].dir = f.dir /\ stack'[Len(stack')].children # <<>>
    BY <1>6, <1>9, <1>10
  <2>2. \A i \in 1..(n - 1 - 1) : f.dir[i] = t.dir[i]
    BY <1>4, <1>10 DEF f
  <2>3. ASSUME NEW k \in 1..(n - 1)
        PROVE  /\ Len(stack[k].dir) = k - 1
               /\ \A i \in 1..(k - 1) : stack[k].dir[i] = f.dir[i]
    <3>1. k \in 1..n /\ \A i \in 1..(k - 1) : i \in 1..(n - 1 - 1)
      BY <1>2
    <3> QED
      BY <1>4, <2>2, <3>1
  <2> QED
    BY <1>9, <1>11, <2>1, <2>3 DEF StackOK, Top
<1>15. ReadAscends'
  BY <1>1 DEF ReadingInv, ReadAscends
<1>16. ReadDirs'
  <2>1. \A k \in 2..Len(stack') : ReadBelow(entries', place', stack'[k].dir)
    <3> TAKE k \in 2..Len(stack')
    <3>1. k \in 2..Len(stack) /\ k \in 1..(n - 1)
      BY <1>2, <1>9 DEF n
    <3> QED
      BY <1>1, <1>11, <3>1 DEF ReadingInv, ReadDirs
  <2>2. ReadBelow(entries, place, t.dir)
    <3>1. n \in 2..Len(stack)
      BY <1>1, <1>2 DEF n
    <3> QED
      BY <3>1 DEF t, ReadingInv, ReadDirs
  <2>3. \A k \in 1..Len(written) :
           written[k].dir # <<>> /\ ReadBelow(entries, place, written[k].dir)
    BY DEF ReadingInv, ReadDirs
  <2>4. \A k \in 1..Len(written') :
           written'[k].dir # <<>> /\ ReadBelow(entries', place', written'[k].dir)
    BY <1>1, <1>4, <1>12, <2>2, <2>3
  <2>5. ASSUME NEW dir \in Seq(Names), dir # <<>>, ReadBelow(entries, place, dir)
        PROVE  \/ \E k \in 1..Len(stack') : stack'[k].dir = dir
               \/ \E k \in 1..Len(written') : written'[k].dir = dir
    <3>1. \/ \E k \in 1..n : stack[k].dir = dir
          \/ \E k \in 1..Len(written) : written[k].dir = dir
      BY <2>5 DEF n, ReadingInv, ReadDirs
    <3>2. CASE t.dir = dir
      BY <1>12, <3>2
    <3>3. CASE t.dir # dir
      <4>1. \/ \E k \in 1..(n - 1) : stack[k].dir = dir
            \/ \E k \in 1..Len(written) : written[k].dir = dir
        BY <1>10, <3>1, <3>3 DEF t
      <4> QED
        BY <1>9, <1>11, <1>12, <4>1
    <3> QED
      BY <3>2, <3>3
  <2> QED
    BY <1>1, <2>1, <2>4, <2>5 DEF ReadDirs
<1>17. ClosedBehind'
  <2>1. ASSUME place <= Len(entries)
        PROVE  Behind(entries, place, written')
    <3>1. Behind(entries, place, written)
      BY <2>1 DEF ReadingInv, ClosedBehind
    <3>2. \E i \in 1..(place - 1) : \E d \in (i + 1)..place :
             Above(t.dir, entries[i].path) /\ ~Above(t.dir, entries[d].path)
      <4>1. n \in 2..Len(stack)
        BY <1>1, <1>2 DEF n
      <4>2. PICK i \in 1..(place - 1) : Above(t.dir, entries[i].path)
        BY <4>1 DEF t, ReadingInv, ReadDirs, ReadBelow
      <4>3. ~IsPrefix(t.dir, Dir)
        BY <1>1, <1>2, <2>1 DEF Leaves, Top, t, n
      <4>4. entries[place].path \in Paths
        <5>1. place \in 1..Len(entries)
          BY <1>2, <2>1
        <5> QED
          BY <5>1, EntryRead
      <4>5. ~Above(t.dir, entries[place].path)
        BY <1>3, <4>3, <4>4, AbovePrefix DEF Dir
      <4>6. place \in (i + 1)..place
        BY <1>2
      <4> QED
        BY <4>2, <4>5, <4>6
    <3>3. ASSUME NEW k \in 1..Len(written')
          PROVE  \E i \in 1..(place - 1) : \E d \in (i + 1)..place :
                    /\ Above(written'[k].dir, entries[i].path)
                    /\ ~Above(written'[k].dir, entries[d].path)
      <4>1. CASE k = Len(written) + 1
        BY <1>12, <3>2, <4>1
      <4>2. CASE k \in 1..Len(written)
        BY <1>12, <3>1, <4>2 DEF Behind
      <4> QED
        BY <1>12, <4>1, <4>2
    <3> QED
      BY <3>3 DEF Behind
  <2> QED
    BY <1>1, <2>1 DEF ClosedBehind
<1>18. FramesOnce'
  <2>1. /\ \A k, l \in 1..Len(written) : written[k].dir = written[l].dir => k = l
        /\ \A k \in 1..n, l \in 1..Len(written) : stack[k].dir # written[l].dir
    BY DEF n, ReadingInv, FramesOnce
  <2>2. \A l \in 1..Len(written) : written[l].dir # t.dir
    BY <1>2, <2>1 DEF t
  <2>3. \A k \in 1..(n - 1) : stack[k].dir # t.dir
    BY <1>2, <1>4, <1>10
  <2>4. ASSUME NEW k \in 1..Len(written'), NEW l \in 1..Len(written'),
               written'[k].dir = written'[l].dir
        PROVE  k = l
    <3>1. CASE k \in 1..Len(written) /\ l \in 1..Len(written)
      BY <1>12, <2>1, <2>4, <3>1
    <3>2. CASE k = Len(written) + 1 /\ l \in 1..Len(written)
      BY <1>12, <2>2, <2>4, <3>2
    <3>3. CASE k \in 1..Len(written) /\ l = Len(written) + 1
      BY <1>12, <2>2, <2>4, <3>3
    <3> QED
      BY <1>12, <3>1, <3>2, <3>3
  <2>5. ASSUME NEW k \in 1..(n - 1), NEW l \in 1..Len(written')
        PROVE  stack'[k].dir # written'[l].dir
    <3>1. CASE l \in 1..Len(written)
      BY <1>10, <1>11, <1>12, <2>1, <3>1
    <3>2. CASE l = Len(written) + 1
      BY <1>11, <1>12, <2>3, <3>2
    <3> QED
      BY <1>12, <3>1, <3>2
  <2> QED
    BY <1>9, <2>4, <2>5 DEF FramesOnce
<1>19. FramesOK'
  <2>1. /\ \A k \in 1..n : FrameOK(stack[k], entries, place, written)
        /\ \A k \in 1..Len(written) : FrameOK(written[k], entries, place, written)
    BY DEF n, ReadingInv, FramesOK
  <2>2. FrameOK(g, entries, place, written')
    <3>1. FrameOK(f, entries, place, written)
      BY <1>10, <2>1 DEF f
    <3>2. Subtree(t.dir, Len(written) + 1) \in Children
      BY <1>5 DEF c
    <3> QED
      BY <1>1, <1>2, <1>3, <1>7, <3>1, <3>2, ClosedHere DEF g, c
  <2>3. ASSUME NEW k \in 1..(n - 1), k # n - 1
        PROVE  FrameOK(stack[k], entries, place, written')
    <3>1. k \in 1..n /\ k - 1 # n - 1 - 1
      BY <1>2, <2>3
    <3>2. stack[k].dir # Front(t.dir)
      BY <1>4, <1>7, <3>1
    <3> QED
      BY <1>1, <1>2, <1>3, <2>1, <3>1, <3>2, ClosedElsewhere
  <2>4. ASSUME NEW k \in 1..Len(written)
        PROVE  FrameOK(written[k], entries, place, written')
    <3>1. written[k].dir # f.dir
      BY <1>10 DEF f, n, ReadingInv, FramesOnce
    <3> QED
      BY <1>1, <1>2, <1>3, <1>7, <2>1, <3>1, ClosedElsewhere
  <2>5. FrameOK(t, entries, place, written')
    <3>1. FrameOK(t, entries, place, written)
      BY <1>2, <2>1 DEF t
    <3>2. Front(t.dir) # t.dir
      <4>1. Len(f.dir) # Len(t.dir)
        BY <1>2, <1>4
      <4> QED
        BY <1>7, <4>1
    <3> QED
      BY <1>1, <1>2, <1>3, <3>1, <3>2, ClosedElsewhere
  <2>6. \A k \in 1..(n - 1) : FrameOK(stack'[k], entries, place, written')
    BY <1>9, <2>2, <2>3
  <2>7. \A k \in 1..Len(written') : FrameOK(written'[k], entries, place, written')
    BY <1>12, <2>4, <2>5
  <2> QED
    BY <1>1, <1>9, <2>6, <2>7 DEF FramesOK
<1> QED
  BY <1>13, <1>14, <1>15, <1>16, <1>17, <1>18, <1>19 DEF ReadingInv

-----------------------------------------------------------------------------
(* What the root's object completes *)

(* A sequence that is not empty is its front and its last component.       *)
LEMMA SeqOfParts ==
    ASSUME NEW s \in Seq(Names), s # <<>>
    PROVE  s = Append(Front(s), Last(s))
<1> DEFINE n == Len(s)
           f == SubSeq(s, 1, n - 1)
<1>1. n \in Nat /\ n >= 1
  BY EmptySeq
<1>2. s[n] \in Names
  BY <1>1
<1> HIDE DEF n
<1>3. n - 1 \in 0..n
  BY <1>1
<1>4. f \in Seq(Names) /\ Len(f) = n - 1 /\ \A i \in 1..(n - 1) : f[i] = s[i]
  BY <1>3, FirstOf DEF n
<1> HIDE DEF f
<1>5. /\ Append(f, s[n]) \in Seq(Names)
      /\ Len(Append(f, s[n])) = n - 1 + 1
      /\ \A i \in 1..(n - 1) : Append(f, s[n])[i] = s[i]
      /\ Append(f, s[n])[n - 1 + 1] = s[n]
  BY <1>2, <1>4, AppendProperties
<1>6. n - 1 + 1 = n /\ \A i \in 1..n : i = n \/ i \in 1..(n - 1)
  BY <1>1
<1>7. Len(Append(f, s[n])) = Len(s) /\ \A i \in 1..Len(s) : Append(f, s[n])[i] = s[i]
  BY <1>5, <1>6 DEF n
<1>8. Append(f, s[n]) = s
  BY <1>5, <1>7, SeqEqual
<1> QED
  BY <1>8 DEF Front, Last, f, n

(* A prefix of a path's directory is above the path.                       *)
LEMMA PrefixAbove ==
    ASSUME NEW p \in Paths, NEW dir \in Prefixes(Front(p))
    PROVE  dir \in Seq(Names) /\ Above(dir, p)
<1>1. PICK m \in 0..Len(Front(p)) : dir = SubSeq(Front(p), 1, m)
  BY DEF Prefixes
<1>2. /\ Front(p) \in Seq(Names) /\ Len(Front(p)) = Len(p) - 1
      /\ \A i \in 1..(Len(p) - 1) : Front(p)[i] = p[i]
      /\ Len(p) \in Nat
  BY FrontOf, PathIsSeq
<1>3. dir \in Seq(Names) /\ Len(dir) = m /\ \A i \in 1..m : dir[i] = Front(p)[i]
  BY <1>1, <1>2, FirstOf
<1>4. m < Len(p) /\ \A i \in 1..m : i \in 1..(Len(p) - 1)
  BY <1>1, <1>2
<1> QED
  BY <1>2, <1>3, <1>4 DEF Above

(* When all is read and closed, the root completes the tree.               *)
LEMMA TreeWritten ==
    ASSUME FramesTypeOK, ReadingInv, place > Len(entries), Len(stack) = 1
    PROVE  IsTreeOf(Append(written, Top), entries)
<1> DEFINE v == Append(written, Top)
           n == Len(written)
<1>1. /\ Top = stack[1] /\ Top \in FrameSet /\ Top.dir = <<>>
      /\ \A k \in 1..Len(stack) : stack[k] = Top
  <2>1. stack \in Seq(FrameSet) /\ 1 \in 1..Len(stack)
    BY DEF FramesTypeOK
  <2>2. Top = stack[1] /\ Top \in FrameSet /\ Top.dir \in Seq(Names)
    BY <2>1, FrameTypes DEF Top
  <2>3. Len(Top.dir) = 0
    BY <2>1, <2>2 DEF ReadingInv, StackOK
  <2> QED
    BY <2>2, <2>3, EmptySeq
<1>2. written \in Seq(FrameSet) /\ n \in Nat
  BY DEF FramesTypeOK
<1>3. /\ v \in Seq(FrameSet) /\ Len(v) = n + 1
      /\ \A k \in 1..n : v[k] = written[k]
      /\ v[n + 1] = Top
  BY <1>1, <1>2, AppendProperties
<1>4. DOMAIN entries = 1..Len(entries) /\ place - 1 = Len(entries)
  <2>1. entries \in Seq(Entries)
    BY StreamsAssumption DEF FramesTypeOK, Entries
  <2>2. place \in 1..(Len(entries) + 1)
    BY DEF FramesTypeOK
  <2> QED
    BY <2>1, <2>2
<1>5. DOMAIN v = 1..(n + 1)
  BY <1>3
<1> HIDE DEF n, v
<1>6. /\ \A k \in 1..(n + 1) : k = n + 1 \/ k \in 1..n
      /\ \A k \in 1..n : k \in 1..(n + 1) /\ k # n + 1
      /\ n + 1 \in 1..(n + 1)
  BY <1>2
<1>7. \A k \in 1..n : v[k].dir # <<>> /\ v[k].dir \in Seq(Names)
  <2>1. \A k \in 1..n : written[k].dir # <<>>
    BY DEF ReadingInv, ReadDirs, n
  <2>2. \A k \in 1..n : written[k].dir \in Seq(Names)
    BY <1>2, FrameTypes DEF n
  <2> QED
    BY <1>3, <2>1, <2>2
<1>8. \A k, l \in 1..(n + 1) : v[k].dir = v[l].dir => k = l
  <2>1. \A k, l \in 1..n : v[k].dir = v[l].dir => k = l
    BY <1>3 DEF ReadingInv, FramesOnce, n
  <2> QED
    BY <1>1, <1>3, <1>6, <1>7, <2>1
<1>9. {v[k].dir : k \in 1..(n + 1)} = Directories(entries)
  <2>1. ASSUME NEW k \in 1..(n + 1)
        PROVE  v[k].dir \in Directories(entries)
    <3>1. CASE k = n + 1
      BY <1>1, <1>3, <3>1 DEF Directories
    <3>2. CASE k \in 1..n
      <4>1. ReadBelow(entries, place, written[k].dir)
        BY <3>2 DEF ReadingInv, ReadDirs, n
      <4>2. PICK i \in 1..Len(entries) : Above(written[k].dir, entries[i].path)
        BY <1>4, <4>1 DEF ReadBelow
      <4>3. entries[i].path \in Paths /\ written[k].dir \in Seq(Names)
        BY <1>3, <1>7, <3>2, EntryRead
      <4>4. v[k].dir \in Prefixes(Front(entries[i].path))
        BY <1>3, <3>2, <4>2, <4>3, AbovePrefix
      <4>5. entries[i].path \in FilePaths(entries)
        BY <1>4 DEF FilePaths
      <4> QED
        BY <4>4, <4>5 DEF Directories
    <3> QED
      BY <1>6, <3>1, <3>2
  <2>2. ASSUME NEW dir \in Directories(entries)
        PROVE  \E k \in 1..(n + 1) : v[k].dir = dir
    <3>1. CASE dir = <<>>
      BY <1>1, <1>3, <1>6, <3>1
    <3>2. CASE dir # <<>>
      <4>1. PICK i \in 1..Len(entries) : dir \in Prefixes(Front(entries[i].path))
        BY <1>4, <3>2 DEF Directories, FilePaths
      <4>2. entries[i].path \in Paths
        BY EntryRead
      <4>3. dir \in Seq(Names) /\ Above(dir, entries[i].path)
        BY <4>1, <4>2, PrefixAbove
      <4>4. ReadBelow(entries, place, dir)
        BY <1>4, <4>3 DEF ReadBelow
      <4>5. \E k \in 1..n : written[k].dir = dir
        BY <1>1, <3>2, <4>3, <4>4 DEF ReadingInv, ReadDirs, n
      <4> QED
        BY <1>3, <1>6, <4>5
    <3> QED
      BY <3>1, <3>2
  <2> QED
    BY <2>1, <2>2
<1>10. ASSUME NEW k \in 1..(n + 1)
       PROVE  LET dir == v[k].dir  children == v[k].children
              IN  /\ {children[i] : i \in DOMAIN children} = ChildrenOf(entries, v, dir)
                  /\ \A i, j \in DOMAIN children :
                        children[i].name = children[j].name =>
                            \/ i = j
                            \/ Append(dir, children[i].name)
                                    \in FilePaths(entries) \cap Directories(entries)
  <2> DEFINE f == v[k]
             m == Len(f.children)
  <2>1. FrameOK(f, entries, place, written)
    BY <1>1, <1>3, <1>6 DEF ReadingInv, FramesOK, n
  <2>2. f.dir \in Seq(Names) /\ DOMAIN f.children = 1..m
    <3>1. k \in 1..Len(v)
      BY <1>3
    <3>2. f.dir \in Seq(Names) /\ f.children \in Seq(Children)
      BY <1>3, <3>1, FrameTypes
    <3> QED
      BY <3>2
  <2>3. ASSUME NEW i \in 1..m
        PROVE  \/ \E x \in 1..Len(entries) :
                     Front(entries[x].path) = f.dir /\ f.children[i] = LeafOf(entries, x)
               \/ \E l \in 1..n :
                     Front(v[l].dir) = f.dir /\ f.children[i] = Subtree(v[l].dir, l)
    <3>1. \/ \E x \in 1..(place - 1) :
                FileIn(entries, place, f.dir, x) /\ f.children[i] = LeafOf(entries, x)
          \/ \E l \in 1..n :
                DirIn(written, f.dir, l) /\ f.children[i] = Subtree(written[l].dir, l)
      BY <2>1 DEF FrameOK, n
    <3> QED
      BY <1>3, <1>4, <3>1 DEF FileIn, DirIn
  <2>4. \A x \in 1..Len(entries) : Front(entries[x].path) = f.dir =>
           \E i \in 1..m : f.children[i] = LeafOf(entries, x)
    BY <1>4, <2>1 DEF FrameOK, FileIn
  <2>5. \A l \in 1..n : Front(v[l].dir) = f.dir =>
           \E i \in 1..m : f.children[i] = Subtree(v[l].dir, l)
    BY <1>3, <2>1 DEF FrameOK, DirIn, n
  <2>6. \A i, j \in 1..m : f.children[i] = f.children[j] => i = j
    BY <2>1 DEF FrameOK
  <2> HIDE DEF f, m
  <2>7. {f.children[i] : i \in 1..m} = ChildrenOf(entries, v, f.dir)
    <3>1. \A c : c \in ChildrenOf(entries, v, f.dir) <=>
             \/ \E x \in 1..Len(entries) :
                   Front(entries[x].path) = f.dir /\ c = LeafOf(entries, x)
             \/ \E l \in 1..n :
                   Front(v[l].dir) = f.dir /\ c = Subtree(v[l].dir, l)
      <4>1. \A l \in 1..(n + 1) : v[l].dir # <<>> <=> l \in 1..n
        BY <1>1, <1>3, <1>6, <1>7
      <4> QED
        <5>1. \A x \in 1..Len(entries) :
                 Leaf(entries[x].path, entries[x].content) = LeafOf(entries, x)
          BY DEF LeafOf
        <5>2. {l \in 1..(n + 1) : v[l].dir # <<>> /\ Front(v[l].dir) = f.dir}
                 = {l \in 1..n : Front(v[l].dir) = f.dir}
          BY <1>6, <4>1
        <5>3. ChildrenOf(entries, v, f.dir) =
                 {Leaf(entries[x].path, entries[x].content) :
                    x \in {y \in 1..Len(entries) : Front(entries[y].path) = f.dir}}
                 \cup {Subtree(v[l].dir, l) :
                         l \in {y \in 1..n : Front(v[y].dir) = f.dir}}
          BY <1>4, <1>5, <5>2 DEF ChildrenOf
        <5> QED
          BY <5>1, <5>3
    <3>2. \A i \in 1..m : f.children[i] \in ChildrenOf(entries, v, f.dir)
      BY <2>3, <3>1
    <3>3. ASSUME NEW c \in ChildrenOf(entries, v, f.dir)
          PROVE  \E i \in 1..m : f.children[i] = c
      BY <2>4, <2>5, <3>1
    <3> QED
      BY <3>2, <3>3
  <2>8. ASSUME NEW i \in 1..m, NEW j \in 1..m, f.children[i].name = f.children[j].name
        PROVE  \/ i = j
               \/ Append(f.dir, f.children[i].name)
                        \in FilePaths(entries) \cap Directories(entries)
    <3>1. \A x \in 1..Len(entries) :
             /\ entries[x].path \in Paths /\ entries[x].path \in FilePaths(entries)
             /\ LeafOf(entries, x).name = Last(entries[x].path)
             /\ Front(entries[x].path) = f.dir =>
                   Append(f.dir, LeafOf(entries, x).name) = entries[x].path
      <4> TAKE x \in 1..Len(entries)
      <4>1. entries[x].path \in Paths /\ LeafOf(entries, x).name = Last(entries[x].path)
        BY EntryRead DEF LeafOf, Leaf
      <4>2. entries[x].path \in Seq(Names) /\ entries[x].path # <<>>
        BY <4>1, PathsAssumption
      <4>3. entries[x].path \in FilePaths(entries)
        BY <1>4 DEF FilePaths
      <4> QED
        BY <4>1, <4>2, <4>3, SeqOfParts
    <3>2. \A l \in 1..n :
             /\ v[l].dir \in Directories(entries)
             /\ Front(v[l].dir) = f.dir =>
                   Append(f.dir, Subtree(v[l].dir, l).name) = v[l].dir
      <4> TAKE l \in 1..n
      <4>1. v[l].dir \in Directories(entries)
        BY <1>6, <1>9
      <4>2. v[l].dir = Append(Front(v[l].dir), Last(v[l].dir))
        BY <1>7, SeqOfParts
      <4> QED
        BY <4>1, <4>2 DEF Subtree
    <3>3. ASSUME NEW x \in 1..Len(entries), NEW y \in 1..Len(entries),
                 entries[x].path = entries[y].path
          PROVE  x = y
      <4>1. x < y => Before(entries[x].path, entries[y].path)
        BY <1>4 DEF ReadingInv, ReadAscends
      <4>2. y < x => Before(entries[y].path, entries[x].path)
        BY <1>4 DEF ReadingInv, ReadAscends
      <4>3. ~Before(entries[x].path, entries[y].path)
        BY <3>1, <3>3, OrderAssumption
      <4>4. ~(x < y) /\ ~(y < x)
        BY <3>3, <4>1, <4>2, <4>3
      <4> QED
        BY <4>4
    <3>4. CASE \E x, y \in 1..Len(entries) :
                  /\ Front(entries[x].path) = f.dir /\ f.children[i] = LeafOf(entries, x)
                  /\ Front(entries[y].path) = f.dir /\ f.children[j] = LeafOf(entries, y)
      <4>1. PICK x \in 1..Len(entries), y \in 1..Len(entries) :
                  /\ Front(entries[x].path) = f.dir /\ f.children[i] = LeafOf(entries, x)
                  /\ Front(entries[y].path) = f.dir /\ f.children[j] = LeafOf(entries, y)
        BY <3>4
      <4>2. entries[x].path = entries[y].path
        BY <2>8, <3>1, <4>1
      <4> QED
        BY <2>6, <3>3, <4>1, <4>2
    <3>5. CASE \E x, y \in 1..n :
                  /\ Front(v[x].dir) = f.dir /\ f.children[i] = Subtree(v[x].dir, x)
                  /\ Front(v[y].dir) = f.dir /\ f.children[j] = Subtree(v[y].dir, y)
      <4>1. PICK x \in 1..n, y \in 1..n :
                  /\ Front(v[x].dir) = f.dir /\ f.children[i] = Subtree(v[x].dir, x)
                  /\ Front(v[y].dir) = f.dir /\ f.children[j] = Subtree(v[y].dir, y)
        BY <3>5
      <4>2. v[x].dir = v[y].dir
        BY <2>8, <3>2, <4>1
      <4>3. x = y
        BY <1>6, <1>8, <4>2
      <4> QED
        BY <2>6, <4>1, <4>3
    <3>6. CASE \E x \in 1..Len(entries), y \in 1..n :
                  /\ Front(entries[x].path) = f.dir
                  /\ Front(v[y].dir) = f.dir
                  /\ \/ /\ f.children[i] = LeafOf(entries, x)
                        /\ f.children[j] = Subtree(v[y].dir, y)
                     \/ /\ f.children[j] = LeafOf(entries, x)
                        /\ f.children[i] = Subtree(v[y].dir, y)
      <4>1. PICK x \in 1..Len(entries), y \in 1..n :
                  /\ Front(entries[x].path) = f.dir
                  /\ Front(v[y].dir) = f.dir
                  /\ \/ /\ f.children[i] = LeafOf(entries, x)
                        /\ f.children[j] = Subtree(v[y].dir, y)
                     \/ /\ f.children[j] = LeafOf(entries, x)
                        /\ f.children[i] = Subtree(v[y].dir, y)
        BY <3>6
      <4>2. Append(f.dir, f.children[i].name) = entries[x].path
        BY <2>8, <3>1, <4>1
      <4>3. Append(f.dir, f.children[i].name) = v[y].dir
        BY <2>8, <3>2, <4>1
      <4> QED
        BY <3>1, <3>2, <4>2, <4>3
    <3> QED
      BY <2>3, <3>4, <3>5, <3>6
  <2> QED
    BY <2>2, <2>7, <2>8 DEF f
<1>11. IsTreeOf(v, entries)
  BY <1>5, <1>8, <1>9, <1>10 DEF IsTreeOf
<1> QED
  BY <1>11 DEF v

-----------------------------------------------------------------------------
(* The invariant and what follows *)

(* The root's object is written.                                           *)
LEMMA WriteRootInv ==
    FramesTypeOK /\ ReadingInv /\ WriteRoot => FramesTypeOK' /\ FramesExact'
<1> SUFFICES ASSUME FramesTypeOK, ReadingInv, WriteRoot
             PROVE  FramesTypeOK' /\ FramesExact'
  OBVIOUS
<1>1. /\ place > Len(entries) /\ Len(stack) = 1
      /\ written' = Append(written, Top) /\ progress' = "built"
      /\ entries' = entries /\ place' = place /\ stack' = stack
  BY DEF WriteRoot
<1>2. IsTreeOf(written', entries')
  BY <1>1, TreeWritten
<1>3. written' \in Seq(FrameSet)
  <2>1. stack \in Seq(FrameSet) /\ Len(stack) \in 1..Len(stack)
    BY <1>1 DEF FramesTypeOK
  <2>2. Top \in FrameSet
    BY <2>1, FrameTypes DEF Top
  <2> QED
    BY <1>1, <2>2, AppendProperties DEF FramesTypeOK
<1> QED
  BY <1>1, <1>2, <1>3 DEF FramesTypeOK, FramesExact

(* Every step keeps the invariant.                                         *)
LEMMA FramesStep == FramesInv /\ [FramesNext]_framesVars => FramesInv'
<1> SUFFICES ASSUME FramesInv, [FramesNext]_framesVars
             PROVE  FramesInv'
  OBVIOUS
<1>1. FramesTypeOK /\ FramesExact /\ (progress = "reading" => ReadingInv)
  BY DEF FramesInv
<1>2. CASE Refuse
  <2>1. FramesTypeOK' /\ progress' = "unsorted"
    BY <1>1, <1>2 DEF Refuse, FramesTypeOK
  <2> QED
    BY <2>1 DEF FramesInv, FramesExact
<1>3. CASE AddToRoot
  <2>1. progress = "reading" /\ progress' = progress
    BY <1>3 DEF AddToRoot
  <2>2. FramesTypeOK' /\ ReadingInv'
    BY <1>1, <1>3, <2>1, AddToRootInv
  <2> QED
    BY <2>1, <2>2 DEF FramesInv, FramesExact
<1>4. CASE AddToDirectory
  <2>1. progress = "reading" /\ progress' = progress
    BY <1>4 DEF AddToDirectory
  <2>2. FramesTypeOK' /\ ReadingInv'
    BY <1>1, <1>4, <2>1, AddToDirectoryInv
  <2> QED
    BY <2>1, <2>2 DEF FramesInv, FramesExact
<1>5. CASE CloseFrame
  <2>1. progress = "reading" /\ progress' = progress
    BY <1>5 DEF CloseFrame
  <2>2. FramesTypeOK' /\ ReadingInv'
    BY <1>1, <1>5, <2>1, CloseFrameInv
  <2> QED
    BY <2>1, <2>2 DEF FramesInv, FramesExact
<1>6. CASE WriteRoot
  <2>1. progress = "reading" /\ progress' = "built"
    BY <1>6 DEF WriteRoot
  <2>2. FramesTypeOK' /\ FramesExact'
    BY <1>1, <1>6, <2>1, WriteRootInv
  <2> QED
    BY <2>1, <2>2 DEF FramesInv
<1>7. CASE UNCHANGED framesVars
  <2>1. /\ entries' = entries /\ place' = place /\ stack' = stack
        /\ written' = written /\ progress' = progress
    BY <1>7 DEF framesVars
  <2>2. FramesTypeOK' /\ FramesExact'
    BY <1>1, <2>1 DEF FramesTypeOK, FramesExact
  <2>3. ReadingInv => ReadingInv'
    BY <2>1 DEF ReadingInv, StackOK, ReadAscends, ReadDirs, ClosedBehind,
                FramesOnce, FramesOK, Top
  <2> QED
    BY <1>1, <2>1, <2>2, <2>3 DEF FramesInv
<1> QED
  BY <1>2, <1>3, <1>4, <1>5, <1>6, <1>7 DEF FramesNext

(* A stream that build_from_entries accepts becomes the tree of its files: *)
(* one object for each directory above a file, each with the files of its  *)
(* directory and the objects of its subdirectories and nothing else. It    *)
(* rests on the order of strings, by which the paths below a directory are *)
(* next to each other: a directory that was closed is never needed again.  *)
THEOREM EntriesBecomeTree == FramesSpec => []FramesExact
<1>1. FramesInv => FramesExact
  BY DEF FramesInv
<1> QED
  BY FramesInitInv, FramesStep, <1>1, PTL DEF FramesSpec

=============================================================================
