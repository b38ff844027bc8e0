--------------------------- MODULE CommitStreams ---------------------------
(* The commits whose streams are read side by side: what a walk may yield, *)
(* and the order of its paths.                                             *)
EXTENDS Streams

CONSTANTS Paths,
          Contents,      \* the hash and size of a leaf
          EntryStreams   \* the streams that commits may have

ASSUME StreamsAssumption ==
    /\ EntryStreams \subseteq Seq([path : Paths, content : Contents])
    /\ NoFile \notin Contents

(* Paths are compared as strings.                                          *)
ASSUME OrderAssumption ==
    /\ \A p \in Paths : ~Before(p, p)
    /\ \A p, q \in Paths : p = q \/ Before(p, q) \/ Before(q, p)
    /\ \A p, q, r \in Paths : Before(p, q) /\ Before(q, r) => Before(p, r)
=============================================================================
