------------------------------ MODULE MCArray ------------------------------
(***************************************************************************)
(* CluArray for TLC.  The element values are interchangeable: no action    *)
(* and no property of these runs names one, and none is a liveness         *)
(* property, so states that differ by a renaming are checked once.         *)
(***************************************************************************)
EXTENDS CluArray, TLC

ElemSymmetry == Permutations(Elem)
=============================================================================
