------------------------------ MODULE MCTrees ------------------------------
(* A small dataset for Trees: a directory d of up to three files, which    *)
(* are two shards, a file d.csv whose name goes on from the directory's,   *)
(* and a file before both.                                                 *)
EXTENDS Trees

CONSTANTS c1, c2, main, dev

MCNameOrder == <<"a", "d", "d.csv", "x", "y", "z">>
MCContinues == {<<"d", "d.csv">>}

a    == <<"a">>
d    == <<"d">>
dcsv == <<"d.csv">>
dx   == <<"d", "x">>
dy   == <<"d", "y">>
dz   == <<"d", "z">>

MCPaths == {a, dcsv, dx, dy, dz}

Map(S, c) == [p \in S |-> c]

MCAdditions == {Map({}, c1), Map({a}, c2), Map({dx}, c2), Map({dy}, c2),
                Map({dz}, c1), Map({dx, dy}, c1)}
MCRemovals  == {{}, {d}, {dx}}
MCWorktrees == {Map({}, c1), Map({dy, dcsv}, c1)}
MCMoves     == {<<dx, dz>>, <<dx, a>>}

(* A directory that is two shards, and a working tree with one of its      *)
(* files.                                                                  *)
MCNoRemovals  == {{}}
MCOneFile     == {Map({dx}, c1)}

MCSymmetry == Permutations(Branches)
=============================================================================
