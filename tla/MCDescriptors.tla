--------------------------- MODULE MCDescriptors ---------------------------
(***************************************************************************)
(* Descriptors for TLC.  The channels are interchangeable and no property  *)
(* is a liveness property.                                                 *)
(***************************************************************************)
EXTENDS Descriptors, TLC

ChanSymmetry == Permutations(Chan)
=============================================================================
