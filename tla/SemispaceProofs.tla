-------------------------- MODULE SemispaceProofs --------------------------
(***************************************************************************)
(* Theorems about module Semispace, for every Cap, page size, saturation,   *)
(* initial commit and set of requests.                                      *)
(***************************************************************************)
EXTENDS Semispace, FiniteSetTheorems, TLAPS

----------------------------------------------------------------------------
(* The arithmetic of the resizing decision.                                 *)

(* A quotient rounded up covers what was divided.                           *)
LEMMA CeilDivCovers ==
  ASSUME NEW a \in Nat, NEW b \in Nat \ {0}
  PROVE  CeilDiv(a, b) \in Nat /\ b * CeilDiv(a, b) >= a
<1>1. /\ (a + b - 1) \div b \in Int
      /\ (a + b - 1) % b \in 0 .. b - 1
      /\ a + b - 1 = b * ((a + b - 1) \div b) + ((a + b - 1) % b)
  OBVIOUS
<1>2. (a + b - 1) \div b >= 0
  OBVIOUS
<1> QED BY <1>1, <1>2 DEF CeilDiv

(* Rounding up to pages gives at least what was asked for. *)
LEMMA RoundForCommitCovers ==
  ASSUME NEW n \in Nat
  PROVE  RoundForCommit(n) \in Nat /\ RoundForCommit(n) >= n
BY SizesAssumption DEF RoundForCommit

(* A product is monotone in its second factor. *)
LEMMA ProductMonotone ==
  ASSUME NEW k \in Nat, NEW m \in Nat, NEW n \in Nat, m <= n
  PROVE  k * m <= k * n
<1>1. PICK d \in Nat : n = m + d
  BY n - m \in Nat
<1>2. k * n = k * m + k * d /\ k * d \in Nat
  BY <1>1
<1> QED BY <1>2

(* The shrunk size holds both the survivors and min_heap_size, because
   min_heap_saturation is at most 1. *)
LEMMA ShrinkTargetCovers ==
  ASSUME NEW used \in Nat
  PROVE  /\ ShrinkTarget(used) \in Nat
         /\ ShrinkTarget(used) >= used
         /\ ShrinkTarget(used) >= MinHeap
<1> DEFINE wanted == CeilDiv(used * MinDen, MinNum)
           floor  == IF wanted >= MinHeap THEN wanted ELSE MinHeap
<1>1. used * MinDen \in Nat
  BY SaturationAssumption
<1>2. wanted \in Nat /\ MinNum * wanted >= used * MinDen
  BY <1>1, CeilDivCovers, SaturationAssumption
<1>3. used * MinDen >= MinNum * used
  <2>1. used * MinNum <= used * MinDen
    BY ProductMonotone, SaturationAssumption
  <2> QED BY <2>1, SaturationAssumption
<1>4. wanted >= used
  <2> SUFFICES ASSUME wanted + 1 <= used PROVE FALSE
    BY <1>2
  <2>1. MinNum * (wanted + 1) <= MinNum * used
    BY <1>2, ProductMonotone, SaturationAssumption
  <2>2. MinNum * (wanted + 1) = MinNum * wanted + MinNum
    BY <1>2, SaturationAssumption
  <2> QED BY <1>1, <1>2, <1>3, <2>1, <2>2, SaturationAssumption
<1>5. floor \in Nat /\ floor >= used /\ floor >= MinHeap
  BY <1>2, <1>4, SizesAssumption
<1>6. ShrinkTarget(used) = RoundForCommit(floor)
  BY DEF ShrinkTarget
<1> HIDE DEF floor
<1> QED BY <1>5, <1>6, RoundForCommitCovers, SizesAssumption

(* A space of at least the growth target is not saturated. *)
LEMMA GrowthTargetSuffices ==
  ASSUME NEW used \in Nat, NEW size \in Nat, size >= GrowthTarget(used)
  PROVE  GrowthTarget(used) \in Nat /\ ~Saturated(used, size)
<1>1. used * MaxDen \in Nat
  BY SaturationAssumption
<1>2. GrowthTarget(used) \in Nat /\ MaxNum * GrowthTarget(used) >= used * MaxDen
  BY <1>1, CeilDivCovers, SaturationAssumption DEF GrowthTarget
<1>3. MaxNum * size >= MaxNum * GrowthTarget(used)
  BY <1>2, ProductMonotone, SaturationAssumption
<1> QED BY <1>1, <1>2, <1>3, SaturationAssumption DEF Saturated

----------------------------------------------------------------------------
(* What an allocator record keeps whatever is done to it.                   *)

Sound(a) ==
  /\ a \in Allocator
  /\ a.used <= a.committed
  /\ a.committed <= Cap
  /\ a.backed \subseteq 0 .. a.committed - 1

(* bump_allocator::initialize gives an allocator whose pointers are in order. *)
LEMMA ReservedSound == Sound(Reserved)
BY CapAssumption DEF Sound, Reserved, Allocator

(* So does every allocation it grants, *)
LEMMA AllocateSound ==
  ASSUME NEW a, Sound(a), NEW n \in Nat, CanAllocate(a, n)
  PROVE  Sound(Allocate(a, n))
BY DEF Sound, Allocator, CanAllocate, Allocate

(* every commit, which backs exactly the units it adds, *)
LEMMA CommitSound ==
  ASSUME NEW a, Sound(a), NEW n \in Nat, CanCommit(a, n)
  PROVE  /\ Sound(Commit(a, n))
         /\ Commit(a, n).used = a.used
         /\ Commit(a, n).committed = a.committed + n
         /\ Commit(a, n).backed = a.backed \cup (a.committed .. a.committed + n - 1)
<1> DEFINE grown == a.backed \cup (a.committed .. a.committed + n - 1)
<1>1. a.used \in Nat /\ a.committed \in Nat /\ a.backed \in SUBSET Nat
  BY DEF Sound, Allocator
<1>2. Commit(a, n) =
        [used |-> a.used, committed |-> a.committed + n, backed |-> grown]
  BY <1>1 DEF Commit, Back
<1>3. grown \in SUBSET Nat /\ grown \subseteq 0 .. a.committed + n - 1
  BY <1>1 DEF Sound
<1> HIDE DEF grown
<1>4. Commit(a, n) \in Allocator
  BY <1>1, <1>2, <1>3 DEF Allocator
<1>5. /\ Commit(a, n).used = a.used
      /\ Commit(a, n).committed = a.committed + n
      /\ Commit(a, n).backed = grown
  BY <1>2
<1> QED BY <1>1, <1>3, <1>4, <1>5 DEF Sound, CanCommit, grown

(* and giving back the end, which leaves the pointers as they are. *)
LEMMA DecommitSound ==
  ASSUME NEW a, Sound(a), NEW m \in Nat, m < a.committed
  PROVE  /\ Sound(Decommit(a, m))
         /\ Decommit(a, m).used = a.used
         /\ Decommit(a, m).committed = a.committed
         /\ Decommit(a, m).backed = a.backed \ (m .. a.committed - 1)
BY DEF Sound, Allocator, Decommit, Unback

(* Giving everything back is the same as starting again. *)
LEMMA DecommitAllEmpties ==
  ASSUME NEW a, Sound(a)
  PROVE  DecommitAll(a) = Reserved
BY DEF Sound, Allocator, DecommitAll, Unback, Reserved

(* The size the epilogue asks to grow by. *)
LEMMA GrowthRequestNat ==
  ASSUME NEW used \in Nat, NEW committed \in Nat, Saturated(used, committed)
  PROVE  /\ GrowthRequest(used, committed) \in Nat
         /\ \/ GrowthRequest(used, committed) = Cap
            \/ committed + GrowthRequest(used, committed) >= GrowthTarget(used)
<1>1. GrowthTarget(used) \in Nat
  <2>1. used * MaxDen \in Nat
    BY SaturationAssumption
  <2> QED BY <2>1, CeilDivCovers, SaturationAssumption DEF GrowthTarget
<1>2. committed < GrowthTarget(used)
  BY <1>1, GrowthTargetSuffices
<1> DEFINE wanted == GrowthTarget(used) - committed
<1>3. wanted \in Nat
  BY <1>1, <1>2
<1>4. RoundForCommit(wanted) \in Nat /\ RoundForCommit(wanted) >= wanted
  BY <1>3, RoundForCommitCovers
<1> QED BY <1>1, <1>4, CapAssumption DEF GrowthRequest, ToMax

----------------------------------------------------------------------------
(* The inductive invariant: TypeOK, the order of the bounds, and two facts  *)
(* the bounds rest on -- only committed units are backed, so giving back a  *)
(* space leaves it as reserved, and so the prologue starts from nothing.    *)

IInv ==
  /\ TypeOK
  /\ \A s \in {0, 1} : Sound(allocators[s])
  /\ ToSpaceEmpty

(* What the prologue's commit leaves in the to-space: the size of the from-space. *)
LEMMA ToSpaceFacts ==
  ASSUME IInv, PrologueCanCommit
  PROVE  /\ Sound(ToSpace)
         /\ ToSpace.used = 0
         /\ ToSpace.committed = allocators[Active].committed
         /\ ToSpace.committed \in Nat \ {0}
         /\ ToSpace.backed = 0 .. ToSpace.committed - 1
<1> DEFINE n == allocators[Active].committed
<1>1. n \in Nat
  BY DEF IInv, TypeOK, Active, Allocator
<1>2. Sound(Reserved) /\ allocators[Inactive] = Reserved
  BY ReservedSound DEF IInv, ToSpaceEmpty
<1>3. CanCommit(Reserved, n) /\ n > 0
  BY <1>2 DEF PrologueCanCommit, CanCommit
<1>4. ToSpace = Commit(Reserved, n)
  BY <1>2 DEF ToSpace
<1>5. Reserved.used = 0 /\ Reserved.committed = 0 /\ Reserved.backed = {}
  BY DEF Reserved
<1> HIDE DEF n
<1>6. /\ Sound(Commit(Reserved, n))
      /\ Commit(Reserved, n).used = Reserved.used
      /\ Commit(Reserved, n).committed = Reserved.committed + n
      /\ Commit(Reserved, n).backed =
           Reserved.backed \cup (Reserved.committed .. Reserved.committed + n - 1)
  BY <1>1, <1>2, <1>3, CommitSound
<1> QED BY <1>1, <1>3, <1>4, <1>5, <1>6 DEF n

(* What the epilogue's resize leaves of the to-space. *)
LEMMA ResizedFacts ==
  ASSUME IInv, PrologueCanCommit, NEW os \in BOOLEAN,
         NEW used \in 0 .. allocators[Active].committed
  PROVE  LET space == Resized(ToSpace, used, os)
             old   == allocators[Active].committed
         IN  /\ Sound(space)
             /\ 0 .. used - 1 \subseteq space.backed
             /\ \/ 0 .. space.committed - 1 \subseteq space.backed
                \/ 0 .. MinHeap - 1 \subseteq space.backed
             /\ \/ space.committed = old
                \/ space.committed > old /\ ~Saturated(used, space.committed)
<1> DEFINE space == Resized(ToSpace, used, os)
           old == allocators[Active].committed
           n   == GrowthRequest(used, ToSpace.committed)
           m   == ShrinkTarget(used)
<1>1. /\ Sound(ToSpace)
      /\ ToSpace.committed = old
      /\ old \in Nat \ {0}
      /\ ToSpace.backed = 0 .. old - 1
  BY ToSpaceFacts
<1>2. used \in Nat /\ used <= old
  BY <1>1
<1>3. CASE space = ToSpace
  BY <1>1, <1>2, <1>3
<1>4. CASE /\ Saturated(used, old)
           /\ CanCommit(ToSpace, n)
           /\ space = Commit(ToSpace, n)
  <2>1. n \in Nat /\ (n = Cap \/ old + n >= GrowthTarget(used))
    BY <1>1, <1>2, <1>4, GrowthRequestNat
  <2>2. n > 0 /\ old + n <= Cap
    BY <1>1, <1>4 DEF CanCommit
  <2>3. old + n >= GrowthTarget(used)
    BY <1>1, <2>1, <2>2, CapAssumption
  <2>4. ~Saturated(used, old + n)
    BY <1>1, <1>2, <2>1, <2>3, GrowthTargetSuffices
  <2>5. /\ Sound(space)
        /\ space.committed = old + n
        /\ space.backed = (0 .. old - 1) \cup (old .. old + n - 1)
    <3> PICK a, k : a = ToSpace /\ k = n
      OBVIOUS
    <3>1. Sound(a) /\ k \in Nat /\ CanCommit(a, k)
      BY <1>1, <1>4, <2>1
    <3>2. /\ Sound(Commit(a, k)) /\ Commit(a, k).committed = a.committed + k
          /\ Commit(a, k).backed = a.backed \cup (a.committed .. a.committed + k - 1)
      BY <3>1, CommitSound
    <3>3. space = Commit(a, k) /\ a.committed = old /\ a.backed = 0 .. old - 1
      BY <1>1, <1>4
    <3> QED
      BY <3>2, <3>3
  <2>6. 0 .. used - 1 \subseteq space.backed
    BY <1>1, <1>2, <2>1, <2>5
  <2>7. 0 .. space.committed - 1 \subseteq space.backed
    BY <1>1, <2>1, <2>5
  <2> QED BY <1>1, <2>1, <2>2, <2>4, <2>5, <2>6, <2>7
<1>5. CASE m < ToSpace.committed /\ space = Decommit(ToSpace, m)
  <2>1. m \in Nat /\ m >= used /\ m >= MinHeap
    BY <1>2, ShrinkTargetCovers
  <2>2. /\ Sound(space)
        /\ space.committed = old
        /\ space.backed = (0 .. old - 1) \ (m .. old - 1)
    BY <1>1, <1>5, <2>1, DecommitSound
  <2>3. 0 .. used - 1 \subseteq space.backed
    BY <1>1, <1>2, <1>5, <2>1, <2>2
  <2>4. 0 .. MinHeap - 1 \subseteq space.backed
    BY <1>1, <1>5, <2>1, <2>2, SizesAssumption
  <2> QED BY <2>2, <2>3, <2>4
<1>6. \/ space = ToSpace
      \/ Saturated(used, old) /\ CanCommit(ToSpace, n) /\ space = Commit(ToSpace, n)
      \/ m < ToSpace.committed /\ space = Decommit(ToSpace, m)
  BY <1>1 DEF Resized
<1> QED BY <1>3, <1>4, <1>5, <1>6

----------------------------------------------------------------------------
(* The invariant holds once the first commit is made. *)
LEMMA InitEstablishes == Init => IInv
<1> SUFFICES ASSUME Init PROVE IInv
  OBVIOUS
<1>1. Sound(Reserved)
  BY ReservedSound
<1>2. ASSUME InitialCommit > 0 PROVE Sound(Commit(Reserved, InitialCommit))
  BY <1>1, <1>2, CommitSound, SizesAssumption DEF CanCommit, Reserved
<1>3. /\ allocators = [s \in {0, 1} |-> allocators[s]]
      /\ \A s \in {0, 1} : Sound(allocators[s])
      /\ allocators[1] = Reserved
  BY <1>1, <1>2 DEF Init
<1>4. ToSpaceEmpty
  BY <1>3 DEF Init, ToSpaceEmpty, Inactive
<1>5. TypeOK
  BY <1>3 DEF Init, TypeOK, Sound
<1> QED BY <1>3, <1>4, <1>5 DEF IInv

(* A collection flips to a sound active space and leaves the other empty.  *)
LEMMA FlippedFacts ==
  ASSUME IInv, NEW n, NEW order, NEW os \in BOOLEAN, Collect(n, order, os)
  PROVE  /\ Flipped(os) = [s \in {0, 1} |-> Flipped(os)[s]]
         /\ Flipped(os)[Inactive] = Resized(ToSpace, LiveTotal, os)
         /\ Sound(Flipped(os)[Inactive])
         /\ Flipped(os)[Active] = Reserved
         /\ Active' = Inactive /\ Inactive' = Active
         /\ LiveTotal \in 0 .. allocators[Active].committed
         /\ PrologueCanCommit
<1>1. Active \in {0, 1} /\ Inactive \in {0, 1} /\ Active # Inactive
  BY DEF Active, Inactive
<1>2. Active' = Inactive /\ Inactive' = Active
  BY DEF Collect, IInv, TypeOK, Active, Inactive
<1>3. LiveTotal \in 0 .. allocators[Active].committed /\ PrologueCanCommit
  BY DEF Collect
<1>4. Sound(Resized(ToSpace, LiveTotal, os))
  BY <1>3, ResizedFacts
<1>5. DecommitAll(allocators[Active]) = Reserved
  BY <1>1, DecommitAllEmpties DEF IInv
<1> QED BY <1>1, <1>2, <1>3, <1>4, <1>5 DEF Flipped

----------------------------------------------------------------------------
(* One lemma per outcome of allocate_memory.                                *)

(* The bump pointer has room.                                               *)
LEMMA FastPreserves ==
  ASSUME IInv, NEW n \in Requests, NEW id \in Ids \ DOMAIN live, AllocateFast(n, id)
  PROVE  IInv'
<1> DEFINE a == Allocate(allocators[Active], Amount(n))
<1>1. Active \in {0, 1} /\ Inactive \in {0, 1} /\ Active # Inactive
  BY DEF Active, Inactive
<1>2. Active' = Active /\ Inactive' = Inactive
  BY DEF AllocateFast, Active, Inactive
<1>3. n \in Nat /\ Amount(n) \in Nat
  BY SizesAssumption DEF Amount
<1>4. Sound(a)
  BY <1>1, <1>3, AllocateSound DEF AllocateFast, IInv
<1>5. /\ \A s \in {0, 1} : s # Active => allocators'[s] = allocators[s]
      /\ allocators'[Active] = a
      /\ allocators' = [s \in {0, 1} |-> allocators'[s]]
  BY <1>1 DEF AllocateFast, IInv, TypeOK
<1> HIDE DEF a
<1>6. \A s \in {0, 1} : Sound(allocators'[s])
  BY <1>4, <1>5 DEF IInv
<1>7. ToSpaceEmpty'
  BY <1>1, <1>2, <1>5 DEF IInv, ToSpaceEmpty
<1>8. /\ DOMAIN live' \subseteq Ids
      /\ \A i \in DOMAIN live' : live'[i].size \in Requests
  BY DEF AllocateFast, IInv, TypeOK, Placed, With
<1>9. TypeOK'
  BY <1>5, <1>6, <1>8 DEF AllocateFast, IInv, TypeOK, Sound
<1> QED BY <1>6, <1>7, <1>9 DEF IInv, Sound

(* An allocation that succeeds after a collection keeps the invariant. *)
LEMMA SuccessAfterGcPreserves ==
  ASSUME IInv, NEW n \in Requests, NEW id \in Ids \ DOMAIN live,
         NEW order, NEW os \in BOOLEAN, AllocateAfterGc(n, id, order, os)
  PROVE  IInv'
<1> DEFINE a == Allocate(Flipped(os)[Inactive], Amount(n))
<1>1. Active \in {0, 1} /\ Inactive \in {0, 1} /\ Active # Inactive
  BY DEF Active, Inactive
<1>2. /\ Flipped(os) = [s \in {0, 1} |-> Flipped(os)[s]]
      /\ Sound(Flipped(os)[Inactive])
      /\ Flipped(os)[Active] = Reserved
      /\ Active' = Inactive /\ Inactive' = Active
  BY FlippedFacts DEF AllocateAfterGc
<1>3. n \in Nat /\ Amount(n) \in Nat
  BY SizesAssumption DEF Amount
<1>4. Sound(a)
  BY <1>2, <1>3, AllocateSound DEF AllocateAfterGc
<1>5. allocators' = [Flipped(os) EXCEPT ![Inactive] = a]
  BY DEF AllocateAfterGc
<1>6. /\ allocators'[Active] = Reserved
      /\ allocators'[Inactive] = a
      /\ allocators' = [s \in {0, 1} |-> allocators'[s]]
  <2> HIDE DEF a
  <2> QED BY <1>1, <1>2, <1>5
<1> HIDE DEF a
<1>7. \A s \in {0, 1} : Sound(allocators'[s])
  BY <1>4, <1>6, ReservedSound DEF Active, Inactive
<1>8. ToSpaceEmpty'
  BY <1>2, <1>6 DEF ToSpaceEmpty
<1>9. /\ DOMAIN live' \subseteq Ids
      /\ \A i \in DOMAIN live' : live'[i].size \in Requests
  BY DEF AllocateAfterGc, IInv, TypeOK, Packed, Placed, With
<1>10. second' \in BOOLEAN /\ fault' \in BOOLEAN /\ result' = "block"
  BY DEF AllocateAfterGc, Collect, IInv, TypeOK
<1>11. TypeOK'
  BY <1>6, <1>7, <1>9, <1>10 DEF TypeOK, Sound
<1> QED BY <1>7, <1>8, <1>11 DEF IInv, Sound

(* So does one that fails even then. *)
LEMMA FailureAfterGcPreserves ==
  ASSUME IInv, NEW n \in Requests, NEW order, NEW os \in BOOLEAN,
         AllocateFailsAfterGc(n, order, os)
  PROVE  IInv'
<1>1. /\ Flipped(os) = [s \in {0, 1} |-> Flipped(os)[s]]
      /\ Sound(Flipped(os)[Inactive])
      /\ Flipped(os)[Active] = Reserved
      /\ Active' = Inactive /\ Inactive' = Active
  BY FlippedFacts DEF AllocateFailsAfterGc
<1>2. allocators' = Flipped(os)
  BY DEF AllocateFailsAfterGc
<1>3. \A s \in {0, 1} : Sound(allocators'[s])
  BY <1>1, <1>2, ReservedSound DEF Active, Inactive
<1>4. ToSpaceEmpty'
  BY <1>1, <1>2 DEF ToSpaceEmpty
<1>5. /\ DOMAIN live' \subseteq Ids
      /\ \A i \in DOMAIN live' : live'[i].size \in Requests
  BY DEF AllocateFailsAfterGc, IInv, TypeOK, Packed
<1>6. second' \in BOOLEAN /\ fault' \in BOOLEAN /\ result' = "null"
  BY DEF AllocateFailsAfterGc, Collect, IInv, TypeOK
<1>7. TypeOK'
  BY <1>1, <1>2, <1>3, <1>5, <1>6 DEF TypeOK, Sound
<1> QED BY <1>3, <1>4, <1>7 DEF IInv, Sound

(* Steps that leave the spaces alone: a refused prologue, a faulting trace, a drop. *)
LEMMA QuietStepsPreserve ==
  ASSUME IInv, UNCHANGED <<allocators, second>>, TypeOK'
  PROVE  IInv'
BY DEF IInv, ToSpaceEmpty, Inactive, Sound

(* The invariant is inductive. *)
LEMMA NextPreserves == IInv /\ [Next]_vars => IInv'
<1> SUFFICES ASSUME IInv, [Next]_vars PROVE IInv'
  OBVIOUS
<1>1. CASE \E n \in Requests, id \in Ids \ DOMAIN live : AllocateFast(n, id)
  BY <1>1, FastPreserves
<1>2. CASE \E n \in Requests, os \in BOOLEAN : AllocateNoToSpace(n, os)
  BY <1>2, QuietStepsPreserve DEF AllocateNoToSpace, IInv, TypeOK
<1>3. CASE \E n \in Requests : CollectionFaults(n)
  BY <1>3, QuietStepsPreserve DEF CollectionFaults, IInv, TypeOK
<1>4. CASE \E n \in Requests, id \in Ids \ DOMAIN live, order \in TraceOrders,
              os \in BOOLEAN : AllocateAfterGc(n, id, order, os)
  BY <1>4, SuccessAfterGcPreserves
<1>5. CASE \E n \in Requests, order \in TraceOrders, os \in BOOLEAN :
              AllocateFailsAfterGc(n, order, os)
  BY <1>5, FailureAfterGcPreserves
<1>6. CASE \E id \in Ids : Drop(id)
  BY <1>6, QuietStepsPreserve DEF Drop, IInv, TypeOK
<1>7. CASE UNCHANGED vars
  BY <1>7, QuietStepsPreserve DEF vars, IInv, TypeOK
<1> QED BY <1>1, <1>2, <1>3, <1>4, <1>5, <1>6, <1>7 DEF Next

----------------------------------------------------------------------------
(* The heap's state is well typed, its bounds stay ordered and the to-space
   is given back whole, whatever is allocated, dropped and collected. *)
THEOREM Invariance == Spec => [](TypeOK /\ SpacesReady)
<1>1. IInv => TypeOK /\ SpacesReady
  BY DEF IInv, SpacesReady, BoundsOrdered, Sound
<1> QED BY <1>1, InitEstablishes, NextPreserves, PTL DEF Spec

(* Only the two collecting outcomes flip the spaces. *)
LEMMA FlipIsCollection ==
  ASSUME IInv, [Next]_vars, second' # second
  PROVE  \E n, order, os :
           /\ os \in BOOLEAN
           /\ Collect(n, order, os)
           /\ allocators'[Inactive].committed = Flipped(os)[Inactive].committed
           /\ allocators'[Inactive].backed = Flipped(os)[Inactive].backed
<1>1. ASSUME NEW n \in Requests, NEW id, NEW order \in TraceOrders,
             NEW os \in BOOLEAN, AllocateAfterGc(n, id, order, os)
      PROVE  /\ Collect(n, order, os)
             /\ allocators'[Inactive].committed = Flipped(os)[Inactive].committed
             /\ allocators'[Inactive].backed = Flipped(os)[Inactive].backed
  <2>1. /\ Flipped(os) = [s \in {0, 1} |-> Flipped(os)[s]]
        /\ Sound(Flipped(os)[Inactive])
    BY <1>1, FlippedFacts DEF AllocateAfterGc
  <2>2. Inactive \in {0, 1}
    BY DEF Inactive
  <2>3. allocators'[Inactive] = Allocate(Flipped(os)[Inactive], Amount(n))
    BY <1>1, <2>1, <2>2 DEF AllocateAfterGc
  <2> QED BY <1>1, <2>1, <2>3 DEF AllocateAfterGc, Allocate, Sound, Allocator
<1>2. ASSUME NEW n \in Requests, NEW order \in TraceOrders,
             NEW os \in BOOLEAN, AllocateFailsAfterGc(n, order, os)
      PROVE  /\ Collect(n, order, os)
             /\ allocators' = Flipped(os)
  BY <1>2 DEF AllocateFailsAfterGc
<1> QED BY <1>1, <1>2 DEF Next, vars, AllocateFast, AllocateNoToSpace,
                          CollectionFaults, Drop

(* A resize never takes the memory of a survivor, and a shrink leaves at
   least min_heap_size: gc_epilogue's rounding is always upwards. *)
THEOREM SurvivorsKept == Spec => ResizeKeepsSurvivors
<1> DEFINE Kept == second' # second =>
             LET space == allocators'[Active'] IN
               /\ (0 .. LiveTotal - 1) \subseteq space.backed
               /\ \/ (0 .. space.committed - 1) \subseteq space.backed
                  \/ (0 .. MinHeap - 1) \subseteq space.backed
<1>1. IInv /\ [Next]_vars => [Kept]_vars
  <2> SUFFICES ASSUME IInv, [Next]_vars, second' # second PROVE Kept
    OBVIOUS
  <2>1. PICK n, order, os :
          /\ os \in BOOLEAN
          /\ Collect(n, order, os)
          /\ allocators'[Inactive].committed = Flipped(os)[Inactive].committed
          /\ allocators'[Inactive].backed = Flipped(os)[Inactive].backed
    BY FlipIsCollection
  <2>2. /\ Active' = Inactive
        /\ Flipped(os)[Inactive] = Resized(ToSpace, LiveTotal, os)
        /\ LiveTotal \in 0 .. allocators[Active].committed
        /\ PrologueCanCommit
    BY <2>1, FlippedFacts
  <2> QED BY <2>1, <2>2, ResizedFacts
<1> QED BY <1>1, InitEstablishes, NextPreserves, PTL DEF Spec, ResizeKeepsSurvivors

(* A collection that grows the space grows it to below max_heap_saturation. *)
THEOREM GrowthSufficient == Spec => GrowthReachesTarget
<1> DEFINE Grown == second' # second =>
             LET old == allocators[Active].committed
                 new == allocators'[Active'].committed
             IN  new = old \/ (new > old /\ ~Saturated(LiveTotal, new))
<1>1. IInv /\ [Next]_vars => [Grown]_vars
  <2> SUFFICES ASSUME IInv, [Next]_vars, second' # second PROVE Grown
    OBVIOUS
  <2>1. PICK n, order, os :
          /\ os \in BOOLEAN
          /\ Collect(n, order, os)
          /\ allocators'[Inactive].committed = Flipped(os)[Inactive].committed
    BY FlipIsCollection
  <2>2. /\ Active' = Inactive
        /\ Flipped(os)[Inactive] = Resized(ToSpace, LiveTotal, os)
        /\ LiveTotal \in 0 .. allocators[Active].committed
        /\ PrologueCanCommit
    BY <2>1, FlippedFacts
  <2> QED BY <2>1, <2>2, ResizedFacts
<1> QED BY <1>1, InitEstablishes, NextPreserves, PTL DEF Spec, GrowthReachesTarget

----------------------------------------------------------------------------
(* Where the blocks lie.  Finitely many, each below what the active space   *)
(* has committed: which is why blocks that do not overlap fit in as much.   *)

Block(i) == {i} \X (0 .. live[i].size - 1)

BlockInv ==
  /\ IsFiniteSet(DOMAIN live)
  /\ \A i \in DOMAIN live :
       /\ live[i].start \in Nat
       /\ live[i].start + live[i].size <= allocators[Active].committed
  /\ FaultNeedsOverlap

(* The units of the blocks are finitely many, those of one as many as its   *)
(* size says.                                                               *)
LEMMA UnitsFinite ==
  ASSUME IInv, BlockInv
  PROVE  /\ IsFiniteSet(Units(DOMAIN live))
         /\ LiveTotal \in Nat
         /\ \A i \in DOMAIN live :
              /\ live[i].size \in Nat \ {0}
              /\ IsFiniteSet(Block(i)) /\ Cardinality(Block(i)) = live[i].size
<1> DEFINE c == allocators[Active].committed
<1>1. c \in Nat
  BY DEF IInv, TypeOK, Active, Allocator
<1>2. \A i \in DOMAIN live : live[i].size \in Nat \ {0}
  BY SizesAssumption DEF IInv, TypeOK
<1> DEFINE T == 0 .. c - 1
<1>3. IsFiniteSet((DOMAIN live) \X T)
  <2>1. IsFiniteSet(DOMAIN live)
    BY DEF BlockInv
  <2>2. IsFiniteSet(T)
    <3> HIDE DEF c
    <3>1. 0 \in Int /\ c - 1 \in Int
      BY <1>1
    <3> QED
      BY <3>1, FS_Interval
  <2> DEFINE D == DOMAIN live
  <2> HIDE DEF T, D
  <2>3. IsFiniteSet(D) /\ IsFiniteSet(T)
    BY <2>1, <2>2 DEF D
  <2>4. IsFiniteSet(D \X T)
    BY <2>3, FS_Product, SMTT(30)
  <2> QED
    BY <2>4, Zenon DEF D
<1>4. Units(DOMAIN live) \subseteq (DOMAIN live) \X T
  <2>1. ASSUME NEW i \in DOMAIN live, NEW k \in 0 .. live[i].size - 1
        PROVE  k \in T
    BY <1>1, <1>2, <2>1 DEF BlockInv
  <2> HIDE DEF T
  <2>2. ASSUME NEW u \in Units(DOMAIN live)
        PROVE  u \in (DOMAIN live) \X T
    <3>1. PICK i \in DOMAIN live : u \in {i} \X (0 .. live[i].size - 1)
      BY <2>2 DEF Units
    <3>2. PICK k \in 0 .. live[i].size - 1 : u = <<i, k>>
      BY <3>1
    <3>3. i \in DOMAIN live /\ k \in T
      BY <2>1
    <3>4. <<i, k>> \in (DOMAIN live) \X T
      BY <3>3, SMT
    <3> QED
      BY <3>2, <3>4, Zenon
  <2> QED
    BY <2>2
<1> HIDE DEF T
<1>5. IsFiniteSet(Units(DOMAIN live)) /\ LiveTotal \in Nat
  BY <1>3, <1>4, FS_Subset, FS_CardinalityType DEF LiveTotal
<1>6. ASSUME NEW i \in DOMAIN live
      PROVE  IsFiniteSet(Block(i)) /\ Cardinality(Block(i)) = live[i].size
  <2>1. PICK n \in Nat \ {0} : n = live[i].size
    BY <1>2
  <2>2. IsFiniteSet(0 .. n - 1) /\ Cardinality(0 .. n - 1) = n
    <3>1. 0 \in Int /\ n - 1 \in Int
      OBVIOUS
    <3>2. /\ IsFiniteSet(0 .. n - 1)
          /\ Cardinality(0 .. n - 1) = IF 0 > n - 1 THEN 0 ELSE (n - 1) - 0 + 1
      BY <3>1, FS_Interval
    <3> QED
      BY <3>2
  <2>3. IsFiniteSet({i}) /\ Cardinality({i}) = 1
    BY FS_Singleton
  <2>4. IsFiniteSet({i} \X (0 .. n - 1)) /\ Cardinality({i} \X (0 .. n - 1)) = 1 * n
    BY <2>2, <2>3, FS_Product
  <2> QED
    BY <2>1, <2>4 DEF Block
<1> QED
  BY <1>2, <1>5, <1>6

(* Blocks that do not overlap fit where they are: the address of a unit     *)
(* tells which it is, and the addresses are those of the space.             *)
LEMMA DisjointFit ==
  ASSUME IInv, BlockInv, SurvivorsIntact
  PROVE  LiveTotal \in 0 .. allocators[Active].committed
<1> DEFINE c == allocators[Active].committed
           U == Units(DOMAIN live)
           f == [u \in U |-> live[u[1]].start + u[2]]
<1>1. c \in Nat
  BY DEF IInv, TypeOK, Active, Allocator
<1>2. ASSUME NEW u \in U
      PROVE  /\ u[1] \in DOMAIN live /\ u[2] \in 0 .. live[u[1]].size - 1
             /\ u = <<u[1], u[2]>>
  BY <1>2 DEF Units
<1>3. ASSUME NEW i \in DOMAIN live, NEW k \in 0 .. live[i].size - 1
      PROVE  live[i].start + k \in 0 .. c - 1
  <2>1. live[i].size \in Nat \ {0}
    BY UnitsFinite
  <2> QED
    BY <1>1, <1>3, <2>1 DEF BlockInv
<1>4. ASSUME NEW i \in DOMAIN live, NEW j \in DOMAIN live,
             NEW k \in 0 .. live[i].size - 1, NEW l \in 0 .. live[j].size - 1,
             live[i].start + k = live[j].start + l
      PROVE  i = j /\ k = l
  <2>1. PICK a \in Nat, b \in Nat, m \in Nat, n \in Nat :
          a = live[i].start /\ b = live[j].start /\ m = live[i].size /\ n = live[j].size
    BY UnitsFinite DEF BlockInv
  <2>2. k \in 0 .. m - 1 /\ l \in 0 .. n - 1 /\ a + k = b + l
    BY <1>4, <2>1
  <2>3. i = j \/ a + m <= b \/ b + n <= a
    BY <2>1 DEF SurvivorsIntact, Disjoint
  <2>4. i = j
    BY <2>2, <2>3
  <2>5. a = b
    BY <2>1, <2>4
  <2> QED
    BY <2>2, <2>4, <2>5
<1>5. f \in Injection(U, 0 .. c - 1)
  <2>1. f \in [U -> 0 .. c - 1]
    BY <1>2, <1>3
  <2>2. ASSUME NEW u \in U, NEW v \in U, f[u] = f[v] PROVE u = v
    BY <1>2, <1>4, <2>2
  <2> HIDE DEF f, U, c
  <2> QED
    BY <2>1, <2>2 DEF Injection, IsInjective
<1>6. IsFiniteSet(0 .. c - 1) /\ Cardinality(0 .. c - 1) = c
  <2> HIDE DEF c
  <2>1. 0 \in Int /\ c - 1 \in Int
    BY <1>1
  <2>2. IsFiniteSet(0 .. c - 1) /\ Cardinality(0 .. c - 1) = IF 0 > c - 1 THEN 0 ELSE (c - 1) - 0 + 1
    BY <2>1, FS_Interval
  <2> QED
    BY <1>1, <2>2
<1>7. Cardinality(U) <= c
  <2> HIDE DEF f, U, c
  <2> QED
    BY <1>5, <1>6, FS_Injection
<1>8. Cardinality(U) \in Nat
  BY UnitsFinite DEF LiveTotal
<1> QED
  BY <1>1, <1>7, <1>8 DEF LiveTotal

(* The copies end where all that is reachable has been counted.             *)
LEMMA PackedFits ==
  ASSUME IInv, BlockInv, NEW order \in TraceOrders, NEW i \in DOMAIN live
  PROVE  /\ Packed(order)[i].start \in Nat
         /\ Packed(order)[i].start + Packed(order)[i].size <= LiveTotal
<1> DEFINE C == CopiedBefore(order, i)
           B == Units(C)
           U == Units(DOMAIN live)
<1>1. /\ order \in [1 .. Cardinality(DOMAIN live) -> DOMAIN live]
      /\ \A j, k \in 1 .. Cardinality(DOMAIN live) : j # k => order[j] # order[k]
  BY DEF TraceOrders, SetToSeqs
<1>2. Cardinality(DOMAIN live) \in Nat
  BY FS_CardinalityType DEF BlockInv
<1>3. C \subseteq DOMAIN live
  BY <1>1 DEF CopiedBefore
<1>4. i \notin C
  <2>1. ASSUME NEW j \in DOMAIN order, NEW k \in DOMAIN order, j < k, order[k] = i
        PROVE  order[j] # i
    BY <1>1, <1>2, <2>1
  <2> QED
    BY <2>1 DEF CopiedBefore
<1>5. B \subseteq U /\ Block(i) \subseteq U /\ B \cap Block(i) = {}
  <2> HIDE DEF C
  <2> QED
    BY <1>3, <1>4 DEF Units, Block
<1>6. IsFiniteSet(U) /\ IsFiniteSet(Block(i)) /\ Cardinality(Block(i)) = live[i].size
      /\ live[i].size \in Nat
  BY UnitsFinite
<1> HIDE DEF B, U
<1>7. IsFiniteSet(B)
  BY <1>5, <1>6, FS_Subset
<1>8. IsFiniteSet(B \cup Block(i))
      /\ Cardinality(B \cup Block(i)) = Cardinality(B) + live[i].size - Cardinality({})
  BY <1>5, <1>6, <1>7, FS_Union
<1>9. Cardinality({}) = 0
  BY FS_EmptySet
<1>10. Cardinality(B \cup Block(i)) <= Cardinality(U)
  BY <1>5, <1>6, FS_Subset
<1>11. Cardinality(B) \in Nat
  BY <1>7, FS_CardinalityType
<1>12. Cardinality(B) + live[i].size <= Cardinality(U)
  BY <1>6, <1>8, <1>9, <1>10, <1>11
<1>13. Packed(order)[i] = [start |-> Cardinality(B), size |-> live[i].size]
  BY DEF Packed, B
<1> QED
  BY <1>11, <1>12, <1>13 DEF LiveTotal, U

(* A collection leaves every copy below what its space has committed.       *)
LEMMA CopiesWithin ==
  ASSUME IInv, BlockInv, NEW n, NEW order \in TraceOrders, NEW os \in BOOLEAN,
         Collect(n, order, os), NEW i \in DOMAIN live
  PROVE  /\ Packed(order)[i].start \in Nat
         /\ Packed(order)[i].start + Packed(order)[i].size <= Flipped(os)[Inactive].committed
<1>1. /\ Flipped(os)[Inactive] = Resized(ToSpace, LiveTotal, os)
      /\ LiveTotal \in 0 .. allocators[Active].committed
      /\ PrologueCanCommit
  BY FlippedFacts
<1>2. PICK s \in Nat : s = Packed(order)[i].start
                       /\ s + Packed(order)[i].size <= LiveTotal
  BY PackedFits
<1>3. Packed(order)[i].size \in Nat
  BY UnitsFinite DEF Packed
<1>4. allocators[Active].committed \in Nat
  BY DEF IInv, TypeOK, Active, Allocator
<1>5. Flipped(os)[Inactive].committed >= allocators[Active].committed
      /\ Flipped(os)[Inactive].committed \in Nat
  <2>1. LET space == Resized(ToSpace, LiveTotal, os)
            old   == allocators[Active].committed
        IN  Sound(space) /\ (space.committed = old \/ space.committed > old)
    BY <1>1, ResizedFacts
  <2> QED
    BY <1>1, <1>4, <2>1 DEF Sound, Allocator
<1> QED
  BY <1>1, <1>2, <1>3, <1>4, <1>5

(* Nothing is reachable at first. *)
LEMMA BlocksFirst == Init => BlockInv
<1> SUFFICES ASSUME Init PROVE BlockInv
  OBVIOUS
<1>1. DOMAIN live = {}
  BY DEF Init
<1>2. IsFiniteSet({})
  BY FS_EmptySet
<1>3. FaultNeedsOverlap
  BY DEF Init, FaultNeedsOverlap
<1> QED
  BY <1>1, <1>2, <1>3 DEF BlockInv

(* A new block placed at the bump pointer, among blocks that lie within.    *)
LEMMA NewBlockWithin ==
  ASSUME NEW blocks, NEW id, NEW n \in Nat, NEW space, Sound(space), NEW c \in Nat,
         IsFiniteSet(DOMAIN blocks), CanAllocate(space, Amount(n)),
         space.committed = c,
         \A i \in DOMAIN blocks : /\ blocks[i].start \in Nat
                                  /\ blocks[i].start + blocks[i].size <= c,
         live' = With(blocks, id, Placed(space, n)),
         allocators'[Active'].committed = c, fault' = FALSE
  PROVE  BlockInv'
<1>1. /\ DOMAIN live' = DOMAIN blocks \cup {id}
      /\ \A i \in DOMAIN live' :
           live'[i] = IF i = id THEN Placed(space, n) ELSE blocks[i]
  BY DEF With
<1>2. IsFiniteSet(DOMAIN live')
  BY <1>1, FS_AddElement
<1>3. Placed(space, n).start \in Nat /\ Placed(space, n).start + Placed(space, n).size <= c
  <2>1. space.used \in Nat /\ space.used + (n + HeaderSize) <= c
    BY DEF Sound, Allocator, CanAllocate, Amount
  <2> QED
    BY <2>1, SizesAssumption DEF Placed
<1>4. ASSUME NEW i \in DOMAIN live'
      PROVE  live'[i].start \in Nat /\ live'[i].start + live'[i].size <= c
  <2>1. CASE i = id
    BY <1>1, <1>3, <2>1
  <2>2. CASE i # id
    BY <1>1, <2>2
  <2> QED
    BY <2>1, <2>2
<1>5. FaultNeedsOverlap'
  BY DEF FaultNeedsOverlap
<1> QED
  BY <1>2, <1>4, <1>5 DEF BlockInv

(* A block at the bump pointer ends within what is committed.               *)
LEMMA FastKeepsBlocks ==
  ASSUME IInv, BlockInv, NEW n \in Requests, NEW id \in Ids \ DOMAIN live,
         AllocateFast(n, id)
  PROVE  BlockInv'
<1> DEFINE space == allocators[Active]
           c == space.committed
<1>1. Active \in {0, 1} /\ Active' = Active
  BY DEF AllocateFast, Active
<1>2. Sound(space) /\ c \in Nat /\ n \in Nat
  BY <1>1, SizesAssumption DEF IInv, Sound, Allocator
<1>3. allocators'[Active'].committed = c
  <2>1. allocators'[Active] = Allocate(space, Amount(n))
    BY <1>1 DEF AllocateFast, IInv, TypeOK
  <2> QED
    BY <1>1, <1>2, <2>1 DEF Allocate, Sound, Allocator
<1>4. CanAllocate(space, Amount(n)) /\ live' = With(live, id, Placed(space, n))
  BY DEF AllocateFast
<1>5. fault' = FALSE
  BY DEF AllocateFast, IInv, TypeOK
<1>6. /\ IsFiniteSet(DOMAIN live)
      /\ \A i \in DOMAIN live : /\ live[i].start \in Nat
                                /\ live[i].start + live[i].size <= c
  BY DEF BlockInv
<1> HIDE DEF space, c
<1> QED
  BY <1>2, <1>3, <1>4, <1>5, <1>6, NewBlockWithin DEF c

(* After a collection the survivors are packed within the new space, and the block*)
(* of the request is within it too, wherever the bump pointer is.           *)
LEMMA SuccessAfterGcKeepsBlocks ==
  ASSUME IInv, BlockInv, NEW n \in Requests, NEW id \in Ids \ DOMAIN live,
         NEW order \in TraceOrders, NEW os \in BOOLEAN,
         AllocateAfterGc(n, id, order, os)
  PROVE  BlockInv'
<1> DEFINE space == Flipped(os)[Inactive]
           c == space.committed
           blocks == Packed(order)
<1>1. Collect(n, order, os)
  BY DEF AllocateAfterGc
<1>2. /\ Flipped(os) = [s \in {0, 1} |-> Flipped(os)[s]]
      /\ Sound(space) /\ Active' = Inactive /\ Inactive \in {0, 1}
  BY <1>1, FlippedFacts DEF Inactive
<1>3. c \in Nat /\ n \in Nat
  BY <1>2, SizesAssumption DEF Sound, Allocator
<1>4. allocators'[Active'].committed = c
  <2>1. allocators'[Inactive] = Allocate(space, Amount(n))
    BY <1>2 DEF AllocateAfterGc
  <2> QED
    BY <1>2, <2>1 DEF Allocate, Sound, Allocator
<1>5. CanAllocate(space, Amount(n)) /\ live' = With(blocks, id, Placed(space, n))
  BY DEF AllocateAfterGc
<1>6. fault' = FALSE
  BY <1>1 DEF Collect
<1>7. \A i \in DOMAIN live : blocks[i].start \in Nat /\ blocks[i].start + blocks[i].size <= c
  BY <1>1, CopiesWithin
<1>8. DOMAIN blocks = DOMAIN live /\ IsFiniteSet(DOMAIN live)
  BY DEF Packed, BlockInv
<1> HIDE DEF space, c, blocks
<1> QED
  BY <1>2, <1>3, <1>4, <1>5, <1>6, <1>7, <1>8, NewBlockWithin DEF c

(* The request may fail after a collection that packed the survivors.       *)
LEMMA FailureAfterGcKeepsBlocks ==
  ASSUME IInv, BlockInv, NEW n \in Requests, NEW order \in TraceOrders,
         NEW os \in BOOLEAN, AllocateFailsAfterGc(n, order, os)
  PROVE  BlockInv'
<1>1. Collect(n, order, os) /\ allocators' = Flipped(os) /\ live' = Packed(order)
  BY DEF AllocateFailsAfterGc
<1>2. Active' = Inactive
  BY <1>1, FlippedFacts
<1>3. \A i \in DOMAIN live :
        /\ Packed(order)[i].start \in Nat
        /\ Packed(order)[i].start + Packed(order)[i].size <= Flipped(os)[Inactive].committed
  BY <1>1, CopiesWithin
<1>4. DOMAIN Packed(order) = DOMAIN live /\ IsFiniteSet(DOMAIN live)
  BY DEF Packed, BlockInv
<1>5. FaultNeedsOverlap'
  BY <1>1 DEF Collect, FaultNeedsOverlap
<1> QED
  BY <1>1, <1>2, <1>3, <1>4, <1>5 DEF BlockInv

(* Steps that leave the spaces alone and take no block or drop one.         *)
LEMMA QuietStepsKeepBlocks ==
  ASSUME BlockInv, UNCHANGED <<allocators, second>>, FaultNeedsOverlap',
         NEW S \in SUBSET DOMAIN live, live' = [i \in S |-> live[i]]
  PROVE  BlockInv'
<1>1. DOMAIN live' = S /\ \A i \in S : live'[i] = live[i] /\ i \in DOMAIN live
  OBVIOUS
<1>2. IsFiniteSet(S)
  BY FS_Subset DEF BlockInv
<1>3. allocators'[Active'] = allocators[Active]
  BY DEF Active
<1> QED
  BY <1>1, <1>2, <1>3 DEF BlockInv

(* Blocks that overlap are still the reachable ones when the trace faults.  *)
LEMMA FaultKeepsBlocks ==
  ASSUME IInv, BlockInv, NEW n \in Requests, CollectionFaults(n)
  PROVE  BlockInv'
<1>1. ~SurvivorsIntact
  BY DisjointFit DEF CollectionFaults
<1>2. UNCHANGED <<allocators, second, live>>
  BY DEF CollectionFaults
<1>3. ~SurvivorsIntact'
  BY <1>1, <1>2 DEF SurvivorsIntact, Disjoint
<1> QED
  BY <1>2, <1>3 DEF BlockInv, FaultNeedsOverlap, Active

(* Every step keeps the blocks within the committed part.                   *)
LEMMA NextKeepsBlocks == IInv /\ BlockInv /\ [Next]_vars => BlockInv'
<1> SUFFICES ASSUME IInv, BlockInv, [Next]_vars PROVE BlockInv'
  OBVIOUS
<1>1. CASE \E n \in Requests, id \in Ids \ DOMAIN live : AllocateFast(n, id)
  BY <1>1, FastKeepsBlocks
<1>2. ASSUME UNCHANGED <<allocators, second, live, fault>> PROVE BlockInv'
  BY <1>2 DEF BlockInv, FaultNeedsOverlap, SurvivorsIntact, Disjoint, Active
<1>3. CASE \E n \in Requests : CollectionFaults(n)
  BY <1>3, FaultKeepsBlocks
<1>4. CASE \E n \in Requests, id \in Ids \ DOMAIN live, order \in TraceOrders,
              os \in BOOLEAN : AllocateAfterGc(n, id, order, os)
  BY <1>4, SuccessAfterGcKeepsBlocks
<1>5. CASE \E n \in Requests, order \in TraceOrders, os \in BOOLEAN :
              AllocateFailsAfterGc(n, order, os)
  BY <1>5, FailureAfterGcKeepsBlocks
<1>6. ASSUME NEW id \in Ids, Drop(id) PROVE BlockInv'
  <2>1. /\ UNCHANGED <<allocators, second>>
        /\ live' = [i \in DOMAIN live \ {id} |-> live[i]]
        /\ DOMAIN live \ {id} \in SUBSET DOMAIN live
    BY <1>6 DEF Drop
  <2>2. FaultNeedsOverlap'
    BY <1>6 DEF Drop, FaultNeedsOverlap, IInv, TypeOK
  <2> QED
    BY <2>1, <2>2, QuietStepsKeepBlocks
<1>7. CASE \E n \in Requests, os \in BOOLEAN : AllocateNoToSpace(n, os)
  BY <1>2, <1>7 DEF AllocateNoToSpace
<1>8. CASE UNCHANGED vars
  BY <1>2, <1>8 DEF vars
<1> QED
  BY <1>1, <1>3, <1>4, <1>5, <1>6, <1>7, <1>8 DEF Next

(* The copies run past the to-space only when reachable blocks overlap:     *)
(* as long as they do not, what the prologue commits holds all of them.     *)
THEOREM FaultsComeFromOverlap == Spec => []FaultNeedsOverlap
<1>1. BlockInv => FaultNeedsOverlap
  BY DEF BlockInv
<1> QED
  BY <1>1, InitEstablishes, NextPreserves, BlocksFirst, NextKeepsBlocks, PTL DEF Spec
=============================================================================
