-------------------------- MODULE NativeReferences --------------------------
(***************************************************************************)
(* The handles through which native code holds objects:                     *)
(* heap::allocate_native_reference and deallocate_native_reference, and the *)
(* table's passage through a collection, gc::track_native_pointers.         *)
(*                                                                         *)
(* A location is what a pointer to an object holds: a place in one of the   *)
(* two spaces, Null, or a header word.  The last is what forward_object     *)
(* answers for an object an earlier root has moved (StopAndCopy,            *)
(* RootsFollow); with HeaderWords empty, no object with a handle is also    *)
(* referred to by a static or a stack slot.                                 *)
(*                                                                         *)
(* `claims` is native code's own account of the references it was given and *)
(* has not given back.  Bounds: Places and MaxClaims.                       *)
(***************************************************************************)
EXTENDS Integers, FiniteSets, Functions

CONSTANTS
  Handles,        \* addresses `new oops_object_t` may answer
  Places,         \* where an object may lie within a space
  HeaderWords,    \* header words of objects earlier roots have moved
  Null,
  MaxClaims

Space(s) == {s} \X Places

Locations == Space(0) \cup Space(1) \cup HeaderWords \cup {Null}

ASSUME NativeAssumption ==
  /\ Null \notin HeaderWords
  /\ (Space(0) \cup Space(1)) \cap (HeaderWords \cup {Null}) = {}
  /\ MaxClaims \in Nat

VARIABLES
  native_references,   \* location -> handle and count
  object,              \* oops_object_t.object of every handle
  allocated,           \* the handles that exist
  claims,              \* (native code) references held through a handle
  space,               \* the space objects lie in
  dangling,            \* a deleted handle was read
  collided             \* (history) two entries ran together in a collection

vars == <<native_references, object, allocated, claims, space, dangling, collided>>

Init ==
  /\ native_references = [l \in {} |-> Null]
  /\ object = [h \in Handles |-> Null]
  /\ allocated = {}
  /\ claims = [h \in Handles |-> 0]
  /\ space = 0
  /\ dangling = FALSE
  /\ collided = FALSE

----------------------------------------------------------------------------
(* allocate_native_reference, for what a method returns to native code.     *)

Returnable == Space(space) \cup HeaderWords \cup {Null}

AllocateKnown(l) ==
  /\ ~dangling /\ l \in DOMAIN native_references
  /\ LET h == native_references[l].first IN
       /\ claims[h] < MaxClaims
       /\ claims' = [claims EXCEPT ![h] = @ + 1]
  /\ native_references' = [native_references EXCEPT ![l].second = @ + 1]
  /\ UNCHANGED <<object, allocated, space, dangling, collided>>

With(l, h) ==
  [k \in DOMAIN native_references \cup {l} |->
     IF k = l THEN [first |-> h, second |-> 1] ELSE native_references[k]]

(* A slip: an object that has a handle gets another one.                    *)
AllocateAlwaysNew(l) ==
  /\ ~dangling
  /\ \E h \in Handles \ allocated :
       /\ claims[h] < MaxClaims
       /\ native_references' = With(l, h)
       /\ object' = [object EXCEPT ![h] = l]
       /\ allocated' = allocated \cup {h}
       /\ claims' = [claims EXCEPT ![h] = @ + 1]
  /\ UNCHANGED <<space, dangling, collided>>

AllocateNew(l) ==
  /\ ~dangling /\ l \notin DOMAIN native_references
  /\ \E h \in Handles \ allocated :
       /\ claims[h] < MaxClaims
       /\ native_references' = With(l, h)
       /\ object' = [object EXCEPT ![h] = l]
       /\ allocated' = allocated \cup {h}
       /\ claims' = [claims EXCEPT ![h] = @ + 1]
  /\ UNCHANGED <<space, dangling, collided>>

----------------------------------------------------------------------------
(* deallocate_native_reference: the entry is found by the handle's object,  *)
(* and it is the entry's handle that is deleted.                            *)

Without(l) == [k \in DOMAIN native_references \ {l} |-> native_references[k]]

(* A slip: the first reference given back deletes the handle.               *)
ReleaseAtOnce(l) ==
  /\ native_references' = Without(l)
  /\ allocated' = allocated \ {native_references[l].first}

Release(l) ==
  IF native_references[l].second = 1
  THEN /\ native_references' = Without(l)
       /\ allocated' = allocated \ {native_references[l].first}
  ELSE /\ native_references' = [native_references EXCEPT ![l].second = @ - 1]
       /\ UNCHANGED allocated

Deallocate(h) ==
  /\ ~dangling /\ claims[h] > 0 /\ h \in allocated
  /\ IF object[h] \in DOMAIN native_references
     THEN Release(object[h])
     ELSE UNCHANGED <<native_references, allocated>>
  /\ claims' = [claims EXCEPT ![h] = @ - 1]
  /\ UNCHANGED <<object, space, dangling, collided>>

(* obj->object is read from freed memory: whatever follows is undefined.    *)
DeallocateDeleted(h) ==
  /\ ~dangling /\ claims[h] > 0 /\ h \notin allocated
  /\ dangling' = TRUE
  /\ UNCHANGED <<native_references, object, allocated, claims, space, collided>>

----------------------------------------------------------------------------
(* track_native_pointers.                                                   *)

(* What forward_object answers for the keys of the table: an object of the  *)
(* space given up is moved to a place of its own, unless it was moved       *)
(* already; anything else stays as it is.                                   *)
Forwardings ==
  {f \in [DOMAIN native_references -> Locations] :
     \A k \in DOMAIN native_references :
       IF k \in Space(space)
       THEN /\ f[k] \in Space(1 - space) \cup HeaderWords
            /\ f[k] \in Space(1 - space) =>
                 \A j \in DOMAIN native_references : f[j] = f[k] => j = k
       ELSE f[k] = k}

(* A slip: the handles keep pointing into the space given up.               *)
HandlesUnmoved(f) == object

(* ref.first->object = new_location.                                        *)
HandlesMoved(f) ==
  [h \in Handles |->
     IF \E k \in DOMAIN f : native_references[k].first = h
     THEN f[CHOOSE k \in DOMAIN f : native_references[k].first = h]
     ELSE object[h]]

(* Keys with the same new location share an entry of the scratch map, which *)
(* keeps what the last of them assigned.                                    *)
TrackNativePointers ==
  /\ ~dangling
  /\ \E f \in Forwardings :
       /\ \E last \in [Range(f) -> DOMAIN f] :
            /\ \A l \in Range(f) : f[last[l]] = l
            /\ native_references' = [l \in Range(f) |-> native_references[last[l]]]
       /\ object' = HandlesMoved(f)
       /\ collided' = (collided \/ ~IsInjective(f))
  /\ space' = 1 - space
  /\ UNCHANGED <<allocated, claims, dangling>>

Next ==
  \/ \E l \in Returnable : AllocateKnown(l) \/ AllocateNew(l)
  \/ \E h \in Handles : Deallocate(h) \/ DeallocateDeleted(h)
  \/ TrackNativePointers

Spec == Init /\ [][Next]_vars

----------------------------------------------------------------------------
(* Properties.                                                              *)

Entries == [first : Handles, second : Nat \ {0}]

TypeOK ==
  /\ DOMAIN native_references \subseteq Locations
  /\ \A l \in DOMAIN native_references : native_references[l] \in Entries
  /\ object \in [Handles -> Locations]
  /\ allocated \subseteq Handles
  /\ claims \in [Handles -> Nat]
  /\ space \in {0, 1}
  /\ dangling \in BOOLEAN
  /\ collided \in BOOLEAN

(* The handle of an entry exists and refers to the key of the entry, over   *)
(* collections that rebuild the table, even when entries run together.      *)
EntriesPointBack ==
  \A l \in DOMAIN native_references :
    /\ native_references[l].first \in allocated
    /\ object[native_references[l].first] = l

Counted ==
  \A h \in Handles :
    IF \E l \in DOMAIN native_references : native_references[l].first = h
    THEN \A l \in DOMAIN native_references :
           native_references[l].first = h => native_references[l].second = claims[h]
    ELSE claims[h] = 0

(* As long as no two entries ran together, the count of an entry is the     *)
(* number of references native code holds through its handle, and native    *)
(* code holds none through another one: specs/GarbageCollection.md counts   *)
(* native references.                                                       *)
CountsMatch == ~collided => Counted

(* Until then, two handles in use are handles of two objects: native code   *)
(* may compare objects by their handles.                                    *)
OneHandlePerObject ==
  ~collided =>
    \A g, h \in Handles :
      g # h /\ claims[g] > 0 /\ claims[h] > 0 => object[g] # object[h]
=============================================================================
