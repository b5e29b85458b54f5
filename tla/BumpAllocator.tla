--------------------------- MODULE BumpAllocator ---------------------------
(***************************************************************************)
(* The contiguous allocator of memory/bump_allocator.{h,cpp}: one reserved  *)
(* address range [0, Cap), the bump pointer `used`, the end `committed` of  *)
(* what the allocator believes is backed, and -- outside the program, kept  *)
(* by the platform -- the set `backed` of units that really are.            *)
(*                                                                         *)
(* The three pointers are offsets from `base`.  The module has no           *)
(* variables: an owner (the semispace, the metaspace) keeps the record and  *)
(* applies these operators to it.                                           *)
(***************************************************************************)
EXTENDS Integers

CONSTANT Cap            \* max_size, the length of the reservation

ASSUME CapAssumption == Cap \in Nat \ {0}

Allocator == [used : Nat, committed : Nat, backed : SUBSET Nat]

(* bump_allocator::initialize: the range is reserved, nothing is committed. *)
Reserved == [used |-> 0, committed |-> 0, backed |-> {}]

----------------------------------------------------------------------------
(* The platform: commit makes units usable, decommit gives them back.  An   *)
(* empty commit is refused (VirtualAlloc rejects a size of 0).              *)

Back(a, from, to)   == a.backed \cup (from .. to - 1)
Unback(a, from, to) == a.backed \ (from .. to - 1)

----------------------------------------------------------------------------
(* Slips a version of this file could contain, for the mutation runs.       *)
CanAllocateUnchecked(a, n) == a.used <= a.committed
DecommitAllKeepsCommitted(a) ==
  [used |-> 0, committed |-> a.committed, backed |-> Unback(a, 0, a.committed)]

(* allocate(n) succeeds when the bump stays within the committed part.      *)
CanAllocate(a, n) == a.used + n <= a.committed

Allocate(a, n) == [a EXCEPT !.used = @ + n]

Deallocate(a, n) == [a EXCEPT !.used = @ - n]

(* commit(n) succeeds when the range has room and the platform agrees.      *)
CanCommit(a, n) == n > 0 /\ a.committed + n <= Cap

Commit(a, n) ==
  [used      |-> a.used,
   committed |-> a.committed + n,
   backed    |-> Back(a, a.committed, a.committed + n)]

(* commit_to_max asks for at most the length of the whole range.            *)
ToMax(n) == IF n <= Cap THEN n ELSE Cap

(* decommit(m) returns everything from m on, and leaves `committed` alone.  *)
Decommit(a, m) == [a EXCEPT !.backed = Unback(a, m, a.committed)]

DecommitAll(a) ==
  [used |-> 0, committed |-> 0, backed |-> Unback(a, 0, a.committed)]
=============================================================================
