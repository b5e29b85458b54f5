------------------------- MODULE MCNativeReferences -------------------------
(***************************************************************************)
(* Three handles on objects in two places and on null, over any number of   *)
(* collections; and a header word that two entries can run into.            *)
(***************************************************************************)
EXTENDS NativeReferences, TLC

CONSTANTS h1, h2, h3, p1, p2, p3, Header

Symmetry == Permutations({h1, h2, h3}) \cup Permutations({p1, p2, p3})
=============================================================================
