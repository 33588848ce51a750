----------------------------- MODULE MCStreams -----------------------------
(***************************************************************************)
(* Streams for TLC.  In the runs without a permanent stream the streams    *)
(* are interchangeable, and no property of those runs is a liveness        *)
(* property, so states that differ by a renaming are checked once.         *)
(***************************************************************************)
EXTENDS Streams

StreamSymmetry == Permutations(Stream)
=============================================================================
