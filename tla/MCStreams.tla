----------------------------- MODULE MCStreams -----------------------------
(***************************************************************************)
(* The four loops over streams on small inputs.  A behaviour is that of    *)
(* one loop; the others wait, at their first step with nothing to read.    *)
(*                                                                         *)
(* Paths are files of the root, of a directory a and of directories below  *)
(* it, with a name that goes on from a's and comes before what is in a,    *)
(* and files that have the name of a directory.                            *)
(***************************************************************************)
EXTENDS StreamMerge, StreamDiff, StreamOverlay, TreeFrames

VARIABLE loop

MCPathsInOrder ==
    <<<<"a">>, <<"a.b">>, <<"a", "b">>, <<"a", "b", "c">>, <<"a", "c", "d", "e">>,
      <<"a", "e">>, <<"b">>, <<"b", "a">>, <<"c">>>>

MCPaths == Range(MCPathsInOrder)

MCNames == {"a", "a.b", "b", "c", "d", "e"}

MCContents == {"x", "y"}

MCBefore(p, q) ==
    \E k, l \in DOMAIN MCPathsInOrder :
        k < l /\ MCPathsInOrder[k] = p /\ MCPathsInOrder[l] = q

(* Every ascending stream of the paths ps, with the contents C.            *)
AscendingOf(ps, C) ==
    UNION {LET s == SelectSeq(MCPathsInOrder, LAMBDA p : p \in S)
           IN  {[k \in DOMAIN s |-> File(s[k], f[s[k]])] : f \in [S -> C]} :
              S \in SUBSET ps}

Of(paths, contents) == [k \in DOMAIN paths |-> File(paths[k], contents[k])]

-----------------------------------------------------------------------------
(* What each loop reads: all that ascends over its paths, and streams that *)
(* do not ascend, some with a path that comes twice.                       *)

a  == <<"a">>
ab == <<"a", "b">>
ae == <<"a", "e">>
c  == <<"c">>

MergeStreams ==
    AscendingOf({a, ab, c}, MCContents)
    \cup {Of(<<ab, a>>, <<"x", "y">>), Of(<<a, c, ab>>, <<"x", "y", "x">>),
          Of(<<ab, a, ab>>, <<"x", "x", "y">>)}

DiffStreams ==
    AscendingOf({a, ab, ae, c}, MCContents)
    \cup {Of(<<ab, a>>, <<"x", "y">>), Of(<<a, ae, ab>>, <<"x", "y", "x">>)}

OverlayPaths == {<<"a.b">>, ab, ae, c}

OverlayStreams ==
    AscendingOf(OverlayPaths, {"x"})
    \cup {Of(<<ab, <<"a.b">>>>, <<"x", "x">>),
          Of(<<<<"a.b">>, c, <<"a.b">>>>, <<"x", "x", "y">>)}

MCMaps == UNION {[D -> MCContents] : D \in SUBSET OverlayPaths}

MCRemovals == SUBSET {<<"a.b">>, a, ae}

FramesStreams ==
    AscendingOf(MCPaths, {"x"})
    \cup {Of(<<<<"b">>, <<"a.b">>>>, <<"x", "x">>),
          Of(<<ab, <<"b", "a">>, ab>>, <<"x", "x", "x">>)}

MCStreams == MergeStreams \cup DiffStreams \cup OverlayStreams \cup FramesStreams

Read(l, S) == IF loop = l THEN S ELSE {<<>>}

LoopsInit ==
    /\ loop \in {"merge", "diff", "overlay", "frames"}
    /\ entries \in Read("frames", FramesStreams) /\ FramesInit
    /\ parent \in Read("overlay", OverlayStreams)
    /\ loop # "overlay" => staged = <<>> /\ removed = {}
    /\ OverlayInit
    /\ from \in Read("diff", DiffStreams) /\ to \in Read("diff", DiffStreams) /\ DiffInit
    /\ streams \in [Sides -> Read("merge", MergeStreams)] /\ Init

LoopsNext ==
    /\ \/ loop = "merge"   /\ Next        /\ UNCHANGED <<diffVars, overlayVars, framesVars>>
       \/ loop = "diff"    /\ DiffNext    /\ UNCHANGED <<vars, overlayVars, framesVars>>
       \/ loop = "overlay" /\ OverlayNext /\ UNCHANGED <<vars, diffVars, framesVars>>
       \/ loop = "frames"  /\ FramesNext  /\ UNCHANGED <<vars, diffVars, overlayVars>>
    /\ UNCHANGED loop

LoopsSpec == LoopsInit /\ [][LoopsNext]_<<loop, vars, diffVars, overlayVars, framesVars>>
=============================================================================
