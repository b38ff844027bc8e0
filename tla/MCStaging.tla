----------------------------- MODULE MCStaging -----------------------------
(* A small working tree for Staging: a file a, a directory d with a file a *)
(* and a file d.csv, whose name goes on from that of the directory, and a  *)
(* directory outside with a file a.                                        *)
EXTENDS Staging

CONSTANTS c1, c2

a    == <<"a">>
d    == <<"d">>
dcsv == <<"d.csv">>
da   == <<"d", "a">>
out  == <<"out">>
oa   == <<"out", "a">>

Blob(c) == [hash |-> c, mode |-> "blake3", from |-> Nowhere]

MCPaths        == {a, dcsv, da}
MCOutside      == {oa}
MCEarlier      == {<<a, dcsv>>, <<a, da>>, <<da, dcsv>>}
MCContinues    == {<<dcsv, d>>}
MCAdded        == {<<a, Nowhere, "blake3">>, <<out, d, "meta">>}
MCRemovedNames == {d, da}
MCMoves        == {<<da, a>>}
MCPeerCommits  == {<<[q \in {da, dcsv} |-> Blob(c2)], {}>>, <<NoFiles, {a}>>}
MCVerified     == {<<>>}
MCRestored     == {{a}}
MCEdits        == {<<a, c1>>, <<oa, c1>>}
=============================================================================
