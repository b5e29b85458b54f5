----------------------------- MODULE Semispace -----------------------------
(***************************************************************************)
(* The two-space heap: gc/semispace_allocator.cpp driven by                 *)
(* heap::allocate_memory of memory/oheap.cpp.                               *)
(*                                                                         *)
(* allocate_memory bumps the active space; when that fails it commits the   *)
(* other space to the same size, copies what is reachable into it, resizes  *)
(* and flips, and tries once more.  What the trace does byte by byte is     *)
(* module StopAndCopy; here a reachable object is a block of `size` units   *)
(* and the trace packs the reachable blocks in some order.                  *)
(*                                                                         *)
(* Bounds: Cap, PageSize and Requests are small; Ids bounds the number of   *)
(* objects reachable at a time.                                             *)
(***************************************************************************)
EXTENDS BumpAllocator, FiniteSets, FiniteSetsExt, SequencesExt

CONSTANTS
  PageSize,       \* get_system_info().page_size
  HeaderSize,     \* sizeof(std::uint64_t): the spare word before an object
  MinHeap,        \* min_heap_size
  MinNum, MinDen, \* min_heap_saturation = MinNum / MinDen
  MaxNum, MaxDen, \* max_heap_saturation = MaxNum / MaxDen
  InitialCommit,  \* what is committed before the first allocation
  Requests,       \* the amounts allocate_memory is asked for
  Ids             \* names of objects

ASSUME SizesAssumption ==
  /\ PageSize \in Nat \ {0}
  /\ HeaderSize \in Nat \ {0}
  /\ MinHeap \in Nat
  /\ InitialCommit \in 0 .. Cap
  /\ Requests \subseteq Nat \ {0}

(* Saturations are fractions: 0 < min <= 1 and 0 < max.                     *)
ASSUME SaturationAssumption ==
  /\ MinNum \in Nat \ {0} /\ MinDen \in Nat \ {0} /\ MinNum <= MinDen
  /\ MaxNum \in Nat \ {0} /\ MaxDen \in Nat \ {0}

VARIABLES
  allocators,     \* allocators[2]
  second,         \* use_second_space
  live,           \* reachable objects: id -> [start, size] in the active space
  result,         \* what the last allocate_memory returned
  fault           \* the copy ran past the committed end of the to-space

vars == <<allocators, second, live, result, fault>>

Active   == IF second THEN 1 ELSE 0
Inactive == IF second THEN 0 ELSE 1

TypeOK ==
  /\ allocators \in [{0, 1} -> Allocator]
  /\ second \in BOOLEAN
  /\ result \in {"none", "block", "null"}
  /\ fault \in BOOLEAN
  /\ DOMAIN live \subseteq Ids
  /\ \A i \in DOMAIN live : live[i].size \in Requests

(* semispace::initialize, with the first commit its owner has to make.  The *)
(* code has none yet: there InitialCommit is 0, and every allocation fails. *)
Init ==
  /\ allocators =
       [s \in {0, 1} |->
          IF s = 0 /\ InitialCommit > 0 THEN Commit(Reserved, InitialCommit)
                                        ELSE Reserved]
  /\ second = FALSE
  /\ live = [i \in {} |-> [start |-> 0, size |-> 0]]
  /\ result = "none"
  /\ fault = FALSE

----------------------------------------------------------------------------
(* Sizing.  The code computes with doubles; fractions are exact here.       *)

CeilDiv(a, b) == (a + b - 1) \div b

RoundDown(n) == n - (n % PageSize)    \* a slip: no rounding up to pages

RoundForCommit(n) ==
  LET scaled == n + PageSize - 1 IN scaled - (scaled % PageSize)

Saturated(used, committed)   == used * MaxDen > MaxNum * committed
Undersaturated(used, committed) == used * MinDen < MinNum * committed

(* What the grown space should measure, and what is asked of the platform.  *)
GrowthTarget(used) == CeilDiv(used * MaxDen, MaxNum)

GrowthRequest(used, committed) ==
  ToMax(RoundForCommit(GrowthTarget(used) - committed))

ShrinkTargetTransposed(used) ==       \* a slip: used * min for used / min
  RoundForCommit((used * MinNum) \div MinDen)

ShrinkTarget(used) ==
  LET wanted == CeilDiv(used * MinDen, MinNum)
  IN  RoundForCommit(IF wanted >= MinHeap THEN wanted ELSE MinHeap)

(* gc_prologue commits the to-space to the size of the from-space.          *)
PrologueCanCommit ==
  CanCommit(allocators[Inactive], allocators[Active].committed)

ToSpace == Commit(allocators[Inactive], allocators[Active].committed)

(* The first half of gc_epilogue: the to-space grown, shrunk or kept.       *)
Resized(space, used, os) ==
  CASE Saturated(used, space.committed) ->
         LET n == GrowthRequest(used, space.committed)
         IN  IF os /\ CanCommit(space, n) THEN Commit(space, n) ELSE space
    [] ~Saturated(used, space.committed)
         /\ Undersaturated(used, space.committed) ->
         IF ShrinkTarget(used) < space.committed
         THEN Decommit(space, ShrinkTarget(used)) ELSE space
    [] OTHER -> space

----------------------------------------------------------------------------
(* The trace.  A copy is HeaderSize shorter than the allocation it is of    *)
(* (the total_size of forward_object), so a block moves with its `size`.    *)

(* The units of memory some objects take, each with the object it is of.    *)
Units(ids) == UNION {{i} \X (0 .. live[i].size - 1) : i \in ids}

LiveTotal == Cardinality(Units(DOMAIN live))

(* What the trace copied before it came to i.                               *)
CopiedBefore(order, i) ==
  {order[j] : j \in {j \in DOMAIN order : \E k \in DOMAIN order : j < k /\ order[k] = i}}

Packed(order) ==
  [i \in DOMAIN live |->
     [start |-> Cardinality(Units(CopiedBefore(order, i))), size |-> live[i].size]]

TraceOrders == SetToSeqs(DOMAIN live)

----------------------------------------------------------------------------
(* allocate_memory(n), by its outcome.                                      *)

Amount(n) == n + HeaderSize

With(blocks, id, b) ==
  [i \in DOMAIN blocks \cup {id} |-> IF i = id THEN b ELSE blocks[i]]

Placed(space, n) == [start |-> space.used, size |-> n]

AllocateFast(n, id) ==
  /\ ~fault
  /\ CanAllocate(allocators[Active], Amount(n))
  /\ allocators' = [allocators EXCEPT ![Active] = Allocate(@, Amount(n))]
  /\ live' = With(live, id, Placed(allocators[Active], n))
  /\ result' = "block"
  /\ UNCHANGED <<second, fault>>

(* "Can't even guarantee the gc will work": the prologue could not commit.  *)
AllocateNoToSpace(n, os) ==
  /\ ~fault
  /\ ~CanAllocate(allocators[Active], Amount(n))
  /\ ~(os /\ PrologueCanCommit)
  /\ result' = "null"
  /\ UNCHANGED <<allocators, second, live, fault>>

(* The copies do not fit in the to-space: the trace writes past its end.    *)
CollectionFaults(n) ==
  /\ ~fault
  /\ ~CanAllocate(allocators[Active], Amount(n))
  /\ PrologueCanCommit
  /\ LiveTotal \notin 0 .. allocators[Active].committed
  /\ fault' = TRUE
  /\ UNCHANGED <<allocators, second, live, result>>

(* Both halves of gc_epilogue: the new active space is resized, the old one *)
(* given back, and the spaces flip.  `used` of the new one stays as it was. *)
Flipped(os) ==
  [s \in {0, 1} |->
     IF s = Inactive THEN Resized(ToSpace, LiveTotal, os)
                     ELSE DecommitAll(allocators[s])]

Collect(n, order, os) ==
  /\ ~fault
  /\ ~CanAllocate(allocators[Active], Amount(n))
  /\ PrologueCanCommit
  /\ LiveTotal \in 0 .. allocators[Active].committed
  /\ second' = ~second
  /\ fault' = FALSE

AllocateAfterGc(n, id, order, os) ==
  /\ Collect(n, order, os)
  /\ LET space == Flipped(os)[Inactive] IN
       /\ CanAllocate(space, Amount(n))
       /\ allocators' = [Flipped(os) EXCEPT ![Inactive] = Allocate(@, Amount(n))]
       /\ live' = With(Packed(order), id, Placed(space, n))
  /\ result' = "block"

AllocateFailsAfterGc(n, order, os) ==
  /\ Collect(n, order, os)
  /\ ~CanAllocate(Flipped(os)[Inactive], Amount(n))
  /\ allocators' = Flipped(os)
  /\ live' = Packed(order)
  /\ result' = "null"

(* The program drops its last reference to an object.                       *)
Drop(id) ==
  /\ ~fault
  /\ id \in DOMAIN live
  /\ live' = [i \in DOMAIN live \ {id} |-> live[i]]
  /\ UNCHANGED <<allocators, second, result, fault>>

Next ==
  \/ \E n \in Requests, id \in Ids \ DOMAIN live : AllocateFast(n, id)
  \/ \E n \in Requests, os \in BOOLEAN : AllocateNoToSpace(n, os)
  \/ \E n \in Requests : CollectionFaults(n)
  \/ \E n \in Requests, id \in Ids \ DOMAIN live, order \in TraceOrders,
        os \in BOOLEAN : AllocateAfterGc(n, id, order, os)
  \/ \E n \in Requests, order \in TraceOrders, os \in BOOLEAN :
        AllocateFailsAfterGc(n, order, os)
  \/ \E id \in Ids : Drop(id)

Spec == Init /\ [][Next]_vars
----------------------------------------------------------------------------
(* Properties.                                                              *)

(* Neither bump pointer passes what is committed, nor the commit the        *)
(* reservation: bump_allocator's guards hold across every resize and flip.  *)
BoundsOrdered ==
  \A s \in {0, 1} : /\ allocators[s].used <= allocators[s].committed
                    /\ allocators[s].committed <= Cap

(* Between calls the to-space is exactly as reserved, so the prologue's     *)
(* commit measures it to the from-space and never extends a leftover.       *)
ToSpaceEmpty == allocators[Inactive] = Reserved

(* Between calls, after any successes and failures, both spaces are as the  *)
(* next collection needs them: in bounds, and the one to copy to is empty.  *)
SpacesReady == BoundsOrdered /\ ToSpaceEmpty

(* A resize never takes the memory of an object that was just copied, and   *)
(* when it gives memory back it leaves at least min_heap_size.              *)
ResizeKeepsSurvivors ==
  [][second' # second =>
       LET space == allocators'[Active'] IN
         /\ (0 .. LiveTotal - 1) \subseteq space.backed
         /\ \/ (0 .. space.committed - 1) \subseteq space.backed
            \/ (0 .. MinHeap - 1) \subseteq space.backed]_vars

(* Growth is all or nothing: after a collection the space either measures   *)
(* what it did, or is large enough to be below max_heap_saturation.         *)
GrowthReachesTarget ==
  [][second' # second =>
       LET old == allocators[Active].committed
           new == allocators'[Active'].committed
       IN  new = old \/ (new > old /\ ~Saturated(LiveTotal, new))]_vars

Disjoint(i, j) == \/ live[i].start + live[i].size <= live[j].start
                  \/ live[j].start + live[j].size <= live[i].start

(* No reachable object shares memory with another: a stop-and-copy          *)
(* collection keeps what is reachable (specs/GarbageCollection.md).         *)
SurvivorsIntact == \A i, j \in DOMAIN live : i # j => Disjoint(i, j)

(* Objects that do not overlap always fit in the to-space the prologue      *)
(* committed: the copy only runs out of it after memory was shared.         *)
FaultNeedsOverlap == fault => ~SurvivorsIntact
=============================================================================
