----------------------- MODULE NativeReferencesProofs -----------------------
(***************************************************************************)
(* Theorems about the handles of native code, for every number of handles,  *)
(* places and references: the table is sound whatever the collector         *)
(* answers, and its counts are right until two entries run together.        *)
(***************************************************************************)
EXTENDS NativeReferences, TLAPS

Sound == TypeOK /\ EntriesPointBack

(* An entry with another count is an entry of the same handle.              *)
LEMMA CountChanged ==
  ASSUME Sound, NEW l \in DOMAIN native_references, NEW n \in Nat \ {0},
         native_references' = [native_references EXCEPT ![l].second = n]
  PROVE  /\ DOMAIN native_references' = DOMAIN native_references
         /\ native_references'[l] = [first |-> native_references[l].first, second |-> n]
         /\ \A k \in DOMAIN native_references : k # l => native_references'[k] = native_references[k]
BY DEF Sound, TypeOK, Entries

(* Another reference through a handle leaves the table sound.              *)
LEMMA AllocateKnownSound ==
  ASSUME Sound, NEW l \in Returnable, AllocateKnown(l)
  PROVE  Sound'
<1>1. native_references[l] \in Entries /\ l \in DOMAIN native_references
  BY DEF Sound, TypeOK, AllocateKnown
<1>2. native_references' = [native_references EXCEPT ![l].second = native_references[l].second + 1]
  BY DEF AllocateKnown
<1>3. native_references[l].second + 1 \in Nat \ {0}
  BY <1>1 DEF Entries
<1>4. /\ DOMAIN native_references' = DOMAIN native_references
      /\ native_references'[l] = [first  |-> native_references[l].first,
                                  second |-> native_references[l].second + 1]
      /\ \A k \in DOMAIN native_references : k # l => native_references'[k] = native_references[k]
  BY <1>1, <1>2, <1>3, CountChanged
<1>5. EntriesPointBack'
  <2>1. \A k \in DOMAIN native_references : native_references'[k].first = native_references[k].first
    BY <1>4
  <2>2. UNCHANGED <<object, allocated>>
    BY DEF AllocateKnown
  <2> QED BY <1>4, <2>1, <2>2 DEF Sound, EntriesPointBack
<1>6. claims' \in [Handles -> Nat]
  BY <1>1 DEF Sound, TypeOK, AllocateKnown, Entries
<1>7. native_references'[l] \in Entries
  BY <1>1, <1>3, <1>4 DEF Entries
<1> QED BY <1>4, <1>5, <1>6, <1>7 DEF Sound, TypeOK, AllocateKnown

(* So does a new handle.                                                   *)
LEMMA AllocateNewSound ==
  ASSUME Sound, NEW l \in Returnable, AllocateNew(l)
  PROVE  Sound'
<1>1. PICK h \in Handles \ allocated :
        /\ native_references' = With(l, h)
        /\ object' = [object EXCEPT ![h] = l]
        /\ allocated' = allocated \cup {h}
        /\ claims' = [claims EXCEPT ![h] = @ + 1]
  BY DEF AllocateNew
<1>2. l \in Locations
  BY DEF Returnable, Locations, Sound, TypeOK
<1>3. /\ DOMAIN native_references' = DOMAIN native_references \cup {l}
      /\ native_references'[l] = [first |-> h, second |-> 1]
      /\ \A k \in DOMAIN native_references : k # l => native_references'[k] = native_references[k]
      /\ l \notin DOMAIN native_references
  BY <1>1 DEF With, AllocateNew
<1>4. TypeOK'
  BY <1>1, <1>2, <1>3 DEF Sound, TypeOK, Entries, AllocateNew
<1>5. EntriesPointBack'
  BY <1>1, <1>3 DEF Sound, TypeOK, EntriesPointBack, Entries
<1> QED BY <1>4, <1>5 DEF Sound

(* So does giving a reference back, which may delete another handle.       *)
LEMMA DeallocateSound ==
  ASSUME Sound, NEW h \in Handles, Deallocate(h)
  PROVE  Sound'
<1> DEFINE l == object[h]
<1>1. claims' \in [Handles -> Nat] /\ UNCHANGED <<object, space, dangling, collided>>
  BY DEF Sound, TypeOK, Deallocate
<1>2. CASE l \notin DOMAIN native_references
  BY <1>1, <1>2 DEF Sound, TypeOK, EntriesPointBack, Deallocate
<1>3. CASE l \in DOMAIN native_references /\ native_references[l].second = 1
  <2>1. native_references' = Without(l) /\ allocated' = allocated \ {native_references[l].first}
    BY <1>3 DEF Deallocate, Release
  <2>2. /\ DOMAIN native_references' = DOMAIN native_references \ {l}
        /\ \A k \in DOMAIN native_references \ {l} : native_references'[k] = native_references[k]
    BY <2>1 DEF Without
  <2>3. EntriesPointBack'
    BY <1>1, <1>3, <2>1, <2>2 DEF Sound, EntriesPointBack
  <2> QED BY <1>1, <2>1, <2>2, <2>3 DEF Sound, TypeOK
<1>4. CASE l \in DOMAIN native_references /\ native_references[l].second # 1
  <2>1. /\ native_references' = [native_references EXCEPT ![l].second = native_references[l].second - 1]
        /\ UNCHANGED allocated
    BY <1>4 DEF Deallocate, Release
  <2>2. native_references[l] \in Entries
    BY <1>4 DEF Sound, TypeOK
  <2>3. native_references[l].second - 1 \in Nat \ {0}
    BY <1>4, <2>2 DEF Entries
  <2>4. /\ DOMAIN native_references' = DOMAIN native_references
        /\ native_references'[l] = [first  |-> native_references[l].first,
                                    second |-> native_references[l].second - 1]
        /\ \A k \in DOMAIN native_references : k # l => native_references'[k] = native_references[k]
    BY <1>4, <2>1, <2>3, CountChanged
  <2>5. native_references'[l] \in Entries
    BY <2>2, <2>3, <2>4 DEF Entries
  <2>6. EntriesPointBack'
    BY <1>1, <1>4, <2>1, <2>4 DEF Sound, EntriesPointBack
  <2> QED BY <1>1, <2>1, <2>4, <2>5, <2>6 DEF Sound, TypeOK
<1> QED BY <1>2, <1>3, <1>4

(* What the table and the handles are after a collection.                   *)
LEMMA Rebuilt ==
  ASSUME Sound, NEW f \in Forwardings, NEW last \in [Range(f) -> DOMAIN f],
         \A l \in Range(f) : f[last[l]] = l,
         native_references' = [l \in Range(f) |-> native_references[last[l]]],
         object' = HandlesMoved(f)
  PROVE  /\ DOMAIN f = DOMAIN native_references
         /\ Range(f) \subseteq Locations
         /\ \A k \in DOMAIN native_references :
              f[k] \in Range(f) /\ object'[native_references[k].first] = f[k]
         /\ object' \in [Handles -> Locations]
<1>1. DOMAIN f = DOMAIN native_references /\ f \in [DOMAIN native_references -> Locations]
  BY DEF Forwardings
<1>2. Range(f) \subseteq Locations /\ \A k \in DOMAIN f : f[k] \in Range(f)
  BY <1>1 DEF Range
<1>3. ASSUME NEW k \in DOMAIN native_references
      PROVE  object'[native_references[k].first] = f[k]
  <2> DEFINE h == native_references[k].first
             chosen == CHOOSE j \in DOMAIN f : native_references[j].first = h
  <2>1. h \in Handles
    BY DEF Sound, TypeOK, Entries
  <2>2. chosen \in DOMAIN f /\ native_references[chosen].first = h
    BY <1>1
  <2>3. chosen = k
    BY <1>1, <2>2 DEF Sound, EntriesPointBack
  <2>4. HandlesMoved(f)[h] = f[chosen]
    BY <1>1, <2>1 DEF HandlesMoved
  <2> QED BY <2>3, <2>4
<1>4. object' \in [Handles -> Locations]
  <2>1. ASSUME NEW h \in Handles
        PROVE  HandlesMoved(f)[h] \in Locations
    <3>1. CASE \E k \in DOMAIN f : native_references[k].first = h
      BY <1>1, <3>1, <2>1 DEF HandlesMoved
    <3>2. CASE ~\E k \in DOMAIN f : native_references[k].first = h
      BY <3>2 DEF HandlesMoved, Sound, TypeOK
    <3> QED BY <3>1, <3>2
  <2> QED BY <2>1 DEF HandlesMoved
<1> QED BY <1>1, <1>2, <1>3, <1>4

(* So does a collection.                                                   *)
LEMMA TrackNativePointersSound ==
  ASSUME Sound, TrackNativePointers
  PROVE  Sound'
<1>1. PICK f \in Forwardings :
        /\ \E last \in [Range(f) -> DOMAIN f] :
             /\ \A l \in Range(f) : f[last[l]] = l
             /\ native_references' = [l \in Range(f) |-> native_references[last[l]]]
        /\ object' = HandlesMoved(f)
  BY DEF TrackNativePointers
<1>2. PICK last \in [Range(f) -> DOMAIN f] :
        /\ \A l \in Range(f) : f[last[l]] = l
        /\ native_references' = [l \in Range(f) |-> native_references[last[l]]]
  BY <1>1
<1>3. /\ DOMAIN f = DOMAIN native_references /\ Range(f) \subseteq Locations
      /\ \A k \in DOMAIN native_references : object'[native_references[k].first] = f[k]
      /\ object' \in [Handles -> Locations]
  BY <1>1, <1>2, Rebuilt
<1>4. /\ DOMAIN native_references' = Range(f)
      /\ \A l \in Range(f) : /\ last[l] \in DOMAIN native_references /\ f[last[l]] = l
                             /\ native_references'[l] = native_references[last[l]]
  BY <1>2, <1>3
<1>5. EntriesPointBack'
  BY <1>3, <1>4 DEF Sound, EntriesPointBack, TrackNativePointers
<1>6. space' \in {0, 1}
  BY DEF Sound, TypeOK, TrackNativePointers
<1> QED BY <1>3, <1>4, <1>5, <1>6 DEF Sound, TypeOK, TrackNativePointers

(* native_references in memory/oheap.cpp: every entry of the table belongs  *)
(* to a handle that exists and points back to the entry's key, after any    *)
(* calls and collections, also when entries run together.                   *)
THEOREM TableSound == Spec => [](TypeOK /\ EntriesPointBack)
<1>1. ASSUME Init PROVE Sound
  <2>1. DOMAIN native_references = {}
    BY <1>1 DEF Init
  <2>2. object \in [Handles -> Locations]
    BY <1>1 DEF Init, Locations
  <2> QED BY <1>1, <2>1, <2>2 DEF Init, Sound, TypeOK, EntriesPointBack
<1>2. Sound /\ [Next]_vars => Sound'
  <2>1. ASSUME Sound, NEW h \in Handles, DeallocateDeleted(h)
        PROVE  Sound'
    BY <2>1 DEF DeallocateDeleted, Sound, TypeOK, EntriesPointBack
  <2>2. ASSUME Sound, UNCHANGED vars
        PROVE  Sound'
    BY <2>2 DEF vars, Sound, TypeOK, EntriesPointBack
  <2> QED BY <2>1, <2>2, AllocateKnownSound, AllocateNewSound, DeallocateSound,
             TrackNativePointersSound DEF Next
<1>3. Sound => TypeOK /\ EntriesPointBack
  BY DEF Sound
<1> QED BY <1>1, <1>2, <1>3, PTL DEF Spec

----------------------------------------------------------------------------
(* The counts, until two entries run together.                              *)

InUse(h) == \E l \in DOMAIN native_references : native_references[l].first = h

(* The handle of an entry is found at its object, and nowhere else.         *)
LEMMA EntryOfHandle ==
  ASSUME Sound, Counted, NEW h \in Handles, claims[h] > 0
  PROVE  /\ object[h] \in DOMAIN native_references
         /\ native_references[object[h]].first = h
         /\ native_references[object[h]].second = claims[h]
<1>1. PICK l \in DOMAIN native_references : native_references[l].first = h
  BY DEF Counted, Sound, TypeOK
<1> QED BY <1>1 DEF Counted, Sound, EntriesPointBack

(* Both accounts count another reference.                                  *)
LEMMA AllocateKnownCounts ==
  ASSUME Sound, Counted, NEW l \in Returnable, AllocateKnown(l)
  PROVE  Counted'
<1> DEFINE h == native_references[l].first
<1>1. /\ l \in DOMAIN native_references /\ native_references[l] \in Entries
      /\ h \in Handles /\ native_references[l].second \in Nat \ {0}
      /\ claims' = [claims EXCEPT ![h] = @ + 1] /\ claims \in [Handles -> Nat]
      /\ native_references' = [native_references EXCEPT ![l].second = native_references[l].second + 1]
  BY DEF Sound, TypeOK, AllocateKnown, Entries
<1>2. /\ DOMAIN native_references' = DOMAIN native_references
      /\ native_references'[l] = [first |-> h, second |-> native_references[l].second + 1]
      /\ \A k \in DOMAIN native_references : k # l => native_references'[k] = native_references[k]
  <2>1. native_references[l].second + 1 \in Nat \ {0}
    BY <1>1
  <2> QED BY <1>1, <2>1, CountChanged
<1>3. \A k \in DOMAIN native_references : native_references[k].first = h => k = l
  BY <1>1 DEF Sound, EntriesPointBack
<1>4. native_references[l].second = claims[h]
  BY <1>1 DEF Counted
<1>5. SUFFICES ASSUME NEW g \in Handles
               PROVE  IF InUse(g)'
                      THEN \A k \in DOMAIN native_references' :
                             native_references'[k].first = g => native_references'[k].second = claims'[g]
                      ELSE claims'[g] = 0
  BY DEF Counted, InUse
<1>6. CASE g = h
  BY <1>1, <1>2, <1>3, <1>4, <1>6 DEF InUse
<1>7. CASE g # h
  <2>1. claims'[g] = claims[g]
    BY <1>1, <1>7
  <2>2. InUse(g)' <=> InUse(g)
    BY <1>1, <1>2, <1>7 DEF InUse
  <2> QED BY <1>1, <1>2, <1>7, <2>1, <2>2 DEF InUse, Counted
<1> QED BY <1>6, <1>7

(* A new handle is one nothing is held through.                            *)
LEMMA AllocateNewCounts ==
  ASSUME Sound, Counted, NEW l \in Returnable, AllocateNew(l)
  PROVE  Counted'
<1>1. PICK h \in Handles \ allocated :
        /\ native_references' = With(l, h)
        /\ claims' = [claims EXCEPT ![h] = @ + 1]
  BY DEF AllocateNew
<1>2. /\ DOMAIN native_references' = DOMAIN native_references \cup {l}
      /\ native_references'[l] = [first |-> h, second |-> 1]
      /\ \A k \in DOMAIN native_references : native_references'[k] = native_references[k]
      /\ l \notin DOMAIN native_references
  BY <1>1 DEF With, AllocateNew
<1>3. ~InUse(h) /\ claims[h] = 0
  BY DEF InUse, Sound, EntriesPointBack, Counted
<1>4. claims'[h] = 1 /\ \A g \in Handles : g # h => claims'[g] = claims[g]
  BY <1>1, <1>3 DEF Sound, TypeOK
<1> QED BY <1>2, <1>3, <1>4 DEF InUse, Counted

(* The reference given back is taken off both accounts.                    *)
LEMMA DeallocateCounts ==
  ASSUME Sound, Counted, NEW h \in Handles, Deallocate(h)
  PROVE  Counted'
<1> DEFINE l == object[h]
<1>1. /\ claims \in [Handles -> Nat] /\ claims[h] > 0
      /\ claims' = [claims EXCEPT ![h] = @ - 1]
  BY DEF Sound, TypeOK, Deallocate
<1>2. /\ l \in DOMAIN native_references
      /\ native_references[l].first = h /\ native_references[l].second = claims[h]
  BY <1>1, EntryOfHandle
<1>3. \A k \in DOMAIN native_references : native_references[k].first = h => k = l
  BY DEF Sound, EntriesPointBack
<1>4. claims'[h] = claims[h] - 1 /\ \A g \in Handles : g # h => claims'[g] = claims[g]
  BY <1>1
<1>5. CASE native_references[l].second = 1
  <2>1. native_references' = Without(l)
    BY <1>2, <1>5 DEF Deallocate, Release
  <2>2. /\ DOMAIN native_references' = DOMAIN native_references \ {l}
        /\ \A k \in DOMAIN native_references \ {l} : native_references'[k] = native_references[k]
    BY <2>1 DEF Without
  <2> QED BY <1>1, <1>2, <1>3, <1>4, <1>5, <2>2 DEF Counted
<1>6. CASE native_references[l].second # 1
  <2>1. native_references' = [native_references EXCEPT ![l].second = native_references[l].second - 1]
    BY <1>2, <1>6 DEF Deallocate, Release
  <2>2. native_references[l].second - 1 \in Nat \ {0}
    BY <1>1, <1>2, <1>6
  <2>3. /\ DOMAIN native_references' = DOMAIN native_references
        /\ native_references'[l] = [first |-> h, second |-> native_references[l].second - 1]
        /\ \A k \in DOMAIN native_references : k # l => native_references'[k] = native_references[k]
    <3>1. PICK n \in Nat \ {0} : n = native_references[l].second - 1
      BY <2>2
    <3>2. native_references' = [native_references EXCEPT ![l].second = n]
      BY <2>1, <3>1
    <3>3. /\ DOMAIN native_references' = DOMAIN native_references
          /\ native_references'[l] = [first |-> native_references[l].first, second |-> n]
          /\ \A k \in DOMAIN native_references :
               k # l => native_references'[k] = native_references[k]
      BY <1>2, <3>2, CountChanged
    <3> QED
      BY <1>2, <3>1, <3>3
  <2>4. \A g \in Handles : InUse(g)' <=> InUse(g)
    BY <1>2, <2>3 DEF InUse
  <2>5. native_references'[l].first = h /\ native_references'[l].second = claims'[h]
    BY <1>2, <1>4, <2>3
  <2> QED BY <1>2, <1>3, <1>4, <2>3, <2>4, <2>5 DEF Counted, InUse
<1> QED BY <1>5, <1>6

(* A collection in which no two keys run together takes every entry to a    *)
(* key of its own.                                                          *)
LEMMA TrackNativePointersCounts ==
  ASSUME Sound, Counted, TrackNativePointers, ~collided'
  PROVE  Counted'
<1>1. PICK f \in Forwardings :
        /\ \E last \in [Range(f) -> DOMAIN f] :
             /\ \A l \in Range(f) : f[last[l]] = l
             /\ native_references' = [l \in Range(f) |-> native_references[last[l]]]
        /\ IsInjective(f)
  BY DEF TrackNativePointers
<1>2. PICK last \in [Range(f) -> DOMAIN f] :
        /\ \A l \in Range(f) : f[last[l]] = l
        /\ native_references' = [l \in Range(f) |-> native_references[last[l]]]
  BY <1>1
<1>3. DOMAIN f = DOMAIN native_references /\ \A k \in DOMAIN f : f[k] \in Range(f)
  BY DEF Forwardings, Range
<1>4. \A k \in DOMAIN f : last[f[k]] = k
  BY <1>1, <1>2, <1>3 DEF IsInjective
<1>5. /\ DOMAIN native_references' = Range(f)
      /\ \A l \in Range(f) : /\ last[l] \in DOMAIN native_references
                             /\ native_references'[l] = native_references[last[l]]
      /\ \A k \in DOMAIN native_references :
           f[k] \in DOMAIN native_references' /\ native_references'[f[k]] = native_references[k]
  BY <1>2, <1>3, <1>4
<1>6. UNCHANGED claims
  BY DEF TrackNativePointers
<1>7. ASSUME NEW g \in Handles
      PROVE  InUse(g)' <=> InUse(g)
  BY <1>5 DEF InUse
<1> QED BY <1>5, <1>6, <1>7 DEF Counted, InUse

(* Entries that ran together stay so, and only a collection makes them.     *)
LEMMA CollidedStays ==
  ASSUME Sound, [Next]_vars, ~collided'
  PROVE  ~collided
BY DEF Sound, TypeOK, Next, vars, AllocateKnown, AllocateNew, Deallocate,
       DeallocateDeleted, TrackNativePointers

(* The count in the table of memory/oheap.cpp is the number of references   *)
(* native code holds, through any calls and collections, until two entries  *)
(* run together.                                                            *)
THEOREM CountsKept == Spec => []CountsMatch
<1>1. ASSUME Init PROVE CountsMatch
  BY <1>1 DEF Init, CountsMatch, Counted
<1>2. ASSUME Sound, Counted, [Next]_vars, ~collided'
      PROVE  Counted'
  <2>1. ASSUME NEW h \in Handles, DeallocateDeleted(h)
        PROVE  Counted'
    BY <1>2, <2>1 DEF DeallocateDeleted, Counted
  <2>2. ASSUME UNCHANGED vars
        PROVE  Counted'
    BY <1>2, <2>2 DEF vars, Counted
  <2> QED BY <1>2, <2>1, <2>2, AllocateKnownCounts, AllocateNewCounts, DeallocateCounts,
             TrackNativePointersCounts DEF Next
<1>3. Sound /\ CountsMatch /\ [Next]_vars => CountsMatch'
  BY <1>2, CollidedStays DEF CountsMatch
<1> QED BY <1>1, <1>3, TableSound, PTL DEF Spec, Sound

(* Until two entries run together native code may compare objects by their  *)
(* handles: two handles in use are handles of two objects                   *)
(* (memory/oheap.cpp, allocate_native_reference).                           *)
THEOREM HandlesDistinct == Spec => []OneHandlePerObject
<1>1. Sound /\ CountsMatch => OneHandlePerObject
  BY EntryOfHandle DEF OneHandlePerObject, CountsMatch
<1> QED BY <1>1, TableSound, CountsKept, PTL DEF Sound
=============================================================================
