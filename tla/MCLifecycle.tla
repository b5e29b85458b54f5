---------------------------- MODULE MCLifecycle ----------------------------
(***************************************************************************)
(* Five addresses for four ranges: an address may have been given to        *)
(* somebody else by the time it is released, and be had again later.        *)
(***************************************************************************)
EXTENDS Lifecycle

CONSTANTS b1, b2, b3, b4, b5

Addresses == {b1, b2, b3, b4, b5}
=============================================================================
