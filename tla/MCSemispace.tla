---------------------------- MODULE MCSemispace ----------------------------
(***************************************************************************)
(* Semispace on a heap of six pages of two units: large enough that it is  *)
(* grown, fails to grow at Cap, is shrunk to more than one page and is     *)
(* collected with nothing, something and everything reachable.             *)
(***************************************************************************)
EXTENDS Semispace

CONSTANTS o1, o2, o3

Symmetry == Permutations(Ids)
=============================================================================
