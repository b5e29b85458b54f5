---------------------------- MODULE StopAndCopy ----------------------------
(***************************************************************************)
(* The copying collector of gc/stop_and_copy.cpp, byte by byte, as          *)
(* heap::allocate_memory drives it: the static pointers of the classes, the *)
(* pointers of the stack frames, the native references, and then the scan   *)
(* of what was copied.  One step is one call of forward_object and the      *)
(* write of its answer back into the slot.                                  *)
(*                                                                         *)
(* An object is named by the address of its header word, 8 bytes.  The word *)
(* before it is the spare word allocate_memory adds, its fields or elements *)
(* follow it, as many bytes as they need: nothing is rounded, so words lie  *)
(* at any address, and a copy can end within a word.  The from-space starts *)
(* at address 0, the to-space right after it.  The heap the collector       *)
(* starts from is any graph over the objects of one of Layouts: their       *)
(* headers are as object.h and array::initialize give them.                 *)
(***************************************************************************)
EXTENDS Integers, Sequences, FiniteSets, Functions

CONSTANTS
  Layouts,      \* what to collect: where objects lie and what they are
  StaticSlots,  \* number of static pointers of the loaded classes
  StackSlots,   \* number of pointer slots the frame iterators visit
  Handles       \* native references that may exist

(* Header words.  A class word stands for a class pointer and carries what  *)
(* the class header holds: the number of reference fields, which come first *)
(* (instance_double_offset), and object_size, the bytes of all fields.  Bit *)
(* 1 of a header is `marked`, except that in an array it is also the low    *)
(* bit of the element type.                                                 *)
ClassWord(c, ptrs, size) ==
  [tag |-> "class", c |-> c, ptrs |-> ptrs, size |-> size, marked |-> FALSE]

ArrayWord(dt, length) ==
  [tag |-> "array", dt |-> dt, length |-> length, marked |-> FALSE]

BYTE   == 0          \* enum datatype
INT    == 2
FLOAT  == 3
OBJECT == 6

(* datatype_size: BYTE, SHORT, INT, FLOAT, LONG, DOUBLE, OBJECT.            *)
Width(dt) == <<1, 2, 4, 4, 8, 8, 8>>[dt + 1]

(* What memory holds is named where it begins: a header or a reference,     *)
(* which take 8 bytes, or a byte of data, named by where it was.  At all    *)
(* other addresses there is Torn: the rest of a word, or a word of which    *)
(* not all bytes are there, which may read as anything.                     *)
Null == [tag |-> "null"]
Torn == [tag |-> "torn"]
Ptr(a) == [tag |-> "ptr", to |-> a]
Data(a) == [tag |-> "data", of |-> a]

IsHeader(w) == w.tag \in {"class", "array"}

Span(w) == IF w.tag \in {"torn", "data"} THEN 1 ELSE 8

IsWord(w) == Span(w) = 8

(* The bytes of the fields or elements, and how many references they begin  *)
(* with.                                                                    *)
FieldBytes(h) == IF h.tag = "array" THEN Width(h.dt) * h.length ELSE h.size

PointerCount(h) ==
  CASE h.tag = "class" -> h.ptrs
    [] h.tag = "array" /\ h.dt = OBJECT -> h.length
    [] OTHER -> 0

(* A layout: `used` bytes hold the objects, whose headers are at `objects`. *)
(* The bytes of an object and its spare word are in the space.  The bytes   *)
(* that are copied (the last 8 of an object are not, its spare word is) are *)
(* different bytes for different objects, and a spare word holds neither    *)
(* references nor a header: it may hold other bytes of another object, as   *)
(* that of a string's byte array does, which shares a block with the string *)
(* (heap::reify_constant_string).                                           *)
NewHeader(h) ==
  \/ /\ h.tag = "class" /\ h = ClassWord(h.c, h.ptrs, h.size)
     /\ h.ptrs \in Nat /\ h.size \in Nat /\ 8 * h.ptrs <= h.size
  \/ /\ h.tag = "array" /\ h = ArrayWord(h.dt, h.length)
     /\ h.dt \in 0 .. 6 /\ h.length \in Nat

WellFormed(layout) ==
  /\ layout.used \in Nat
  /\ layout.objects \subseteq 8 .. layout.used
  /\ \A o \in layout.objects :
       /\ NewHeader(layout.header[o])
       /\ o + FieldBytes(layout.header[o]) + 8 <= layout.used
  /\ \A o, p \in layout.objects : o < p =>
       /\ o + FieldBytes(layout.header[o]) + 8 <= p
       /\ o + 8 * PointerCount(layout.header[o]) + 16 <= p

ASSUME LayoutsAssumption == \A layout \in Layouts : WellFormed(layout)

ASSUME SlotsAssumption == StaticSlots \in Nat /\ StackSlots \in Nat

----------------------------------------------------------------------------
VARIABLES
  heap,         \* which of Layouts is collected, the same throughout
  mem,          \* the two spaces
  statics,      \* the static pointers, in the order the iterators visit
  stacks,       \* the stack slots, in the order the iterators visit
  handles,      \* handle -> oops_object_t.object
  pending,      \* entries of native_references not yet moved to the scratch
  table,        \* the scratch map: new location -> handle
  pc, idx,      \* the phase and the position in it
  scan, dest,   \* `begin` and `end` of the scan
  origin,       \* (history) the roots the collection started from
  copies        \* (history) what was copied, in order: the copy of `of` is `at`

vars == <<heap, mem, statics, stacks, handles, pending, table, pc, idx, scan, dest,
          origin, copies>>

----------------------------------------------------------------------------
(* The from-space.                                                         *)

Objects  == heap.objects
HeaderOf == heap.header
FromUsed == heap.used

Low     == 0
High    == Low + FromUsed
ToStart == High

(* A word may be read at the end of the copies.                             *)
Addresses == Low .. ToStart + FromUsed

(* The words the collector will read as pointers, and what they may hold.   *)
PointerFields ==
  UNION {{o + 8 * i : i \in 1 .. PointerCount(HeaderOf[o])} : o \in Objects}

References == {Null} \cup {Ptr(o) : o \in Objects}

----------------------------------------------------------------------------
(* Where a collection starts.                                               *)

Inside(a) == \E s \in Objects \cup PointerFields : a \in s + 1 .. s + 7

Fresh(contents) ==
  [a \in Addresses |->
     IF a \in Objects THEN HeaderOf[a]
     ELSE IF a \in PointerFields THEN contents[a]
     ELSE IF a >= High \/ Inside(a) THEN Torn
     ELSE Data(a)]

Init ==
  /\ heap \in Layouts
  /\ \E contents \in [PointerFields -> References] : mem = Fresh(contents)
  /\ statics \in [1 .. StaticSlots -> References]
  /\ stacks \in [1 .. StackSlots -> References]
  /\ \E hs \in SUBSET Handles :
       handles \in {f \in [hs -> {Ptr(o) : o \in Objects}] :
                      \A g, h \in hs : f[g] = f[h] => g = h}
  /\ pending = DOMAIN handles
  /\ table = [w \in {} |-> Null]
  /\ pc = "classes" /\ idx = 1
  /\ scan = 0 /\ dest = ToStart
  /\ origin = [statics |-> statics, stacks |-> stacks, handles |-> handles]
  /\ copies = <<>>

----------------------------------------------------------------------------
(* forward_object.                                                          *)

InBounds(w) == w.tag = "ptr" /\ w.to \in Low .. High - 1

(* pointer & 0b10 -- a SHORT, FLOAT or DOUBLE array has that bit anyway.    *)
SecondBit(h) == h.marked \/ (h.tag = "array" /\ (h.dt % 2) = 1)

WithoutSecondBit(h) ==
  IF h.tag = "array" THEN [h EXCEPT !.marked = FALSE, !.dt = @ - (@ % 2)]
                     ELSE [h EXCEPT !.marked = FALSE]

(* total_size: the spare word, the header and all fields but the last 8    *)
(* bytes; of an object with less than 8 bytes of fields, part of the header.*)
TotalSize(h) == FieldBytes(h) + 8

(* n bytes are copied; a word of which not all are is torn.  (No word runs  *)
(* into them: one copy begins where the other ends.)                        *)
CopyBytes(m, from, to, n) ==
  [a \in Addresses |->
     IF a \in to .. to + n - 1
     THEN LET w == m[from + (a - to)]
          IN  IF a + Span(w) <= to + n THEN w ELSE Torn
     ELSE m[a]]

MarkCopied(m, o) == [m EXCEPT ![o] = [@ EXCEPT !.marked = TRUE]]

(* A slip: the mark set before the copy.                                    *)
ForwardMarkingFirst(w) ==
  IF ~InBounds(w) \/ SecondBit(mem[w.to])
  THEN [mem |-> mem, dest |-> dest, copies |-> copies,
        to |-> IF InBounds(w) THEN WithoutSecondBit(mem[w.to]) ELSE w]
  ELSE LET n == TotalSize(mem[w.to]) IN
       [mem |-> CopyBytes(MarkCopied(mem, w.to), w.to - 8, dest, n),
        dest |-> dest + n, to |-> Ptr(dest + 8),
        copies |-> Append(copies, [of |-> w.to, at |-> dest + 8])]

(* The memory, the end of the copies, the new location and the copies made  *)
(* after forwarding the reference w.                                        *)
Forward(w) ==
  IF ~InBounds(w)
  THEN [mem |-> mem, dest |-> dest, to |-> w, copies |-> copies]
  ELSE LET h == mem[w.to] IN
    IF SecondBit(h)
    THEN [mem |-> mem, dest |-> dest, to |-> WithoutSecondBit(h), copies |-> copies]
    ELSE [mem    |-> MarkCopied(CopyBytes(mem, w.to - 8, dest, TotalSize(h)), w.to),
          dest   |-> dest + TotalSize(h),
          to     |-> Ptr(dest + 8),
          copies |-> Append(copies, [of |-> w.to, at |-> dest + 8])]

Apply(f) ==
  /\ dest' = f.dest
  /\ copies' = f.copies

----------------------------------------------------------------------------
(* The phases, in the order of heap::allocate_memory.                       *)

TrackClassPointer ==
  /\ pc = "classes" /\ idx <= StaticSlots
  /\ \E f \in {Forward(statics[idx])} :
       /\ Apply(f)
       /\ mem' = f.mem
       /\ statics' = [statics EXCEPT ![idx] = f.to]
  /\ idx' = idx + 1
  /\ UNCHANGED <<stacks, handles, pending, table, pc, scan, origin>>

ClassesDoneSkippingStacks ==         \* a slip: the executors are not tracked
  /\ pc = "classes" /\ idx > StaticSlots
  /\ pc' = "natives" /\ idx' = 1
  /\ UNCHANGED <<mem, statics, stacks, handles, pending, table, scan, dest,
                 origin, copies>>

ClassesDone ==
  /\ pc = "classes" /\ idx > StaticSlots
  /\ pc' = "stacks" /\ idx' = 1
  /\ UNCHANGED <<mem, statics, stacks, handles, pending, table, scan, dest,
                 origin, copies>>

TrackStackPointerUnwritten ==        \* a slip: the slot keeps its old value
  /\ pc = "stacks" /\ idx <= StackSlots
  /\ \E f \in {Forward(stacks[idx])} : Apply(f) /\ mem' = f.mem
  /\ idx' = idx + 1
  /\ UNCHANGED <<statics, stacks, handles, pending, table, pc, scan, origin>>

TrackStackPointer ==
  /\ pc = "stacks" /\ idx <= StackSlots
  /\ \E f \in {Forward(stacks[idx])} :
       /\ Apply(f)
       /\ mem' = f.mem
       /\ stacks' = [stacks EXCEPT ![idx] = f.to]
  /\ idx' = idx + 1
  /\ UNCHANGED <<statics, handles, pending, table, pc, scan, origin>>

StacksDone ==
  /\ pc = "stacks" /\ idx > StackSlots
  /\ pc' = "natives" /\ idx' = 1
  /\ UNCHANGED <<mem, statics, stacks, handles, pending, table, scan, dest,
                 origin, copies>>

(* The entry of handle h: its key is the handle's object.  The map iterates *)
(* in no particular order; equal new locations share an entry.              *)
TrackNativePointer(h) ==
  /\ pc = "natives" /\ h \in pending
  /\ \E f \in {Forward(handles[h])} :
       /\ Apply(f)
       /\ mem' = f.mem
       /\ table' = [w \in DOMAIN table \cup {f.to} |->
                      IF w = f.to THEN h ELSE table[w]]
       /\ handles' = [handles EXCEPT ![h] = f.to]
  /\ pending' = pending \ {h}
  /\ UNCHANGED <<statics, stacks, pc, idx, scan, origin>>

NativesDone ==
  /\ pc = "natives" /\ pending = {}
  /\ pc' = "cleanup" /\ idx' = 0 /\ scan' = ToStart + 8
  /\ UNCHANGED <<mem, statics, stacks, handles, pending, table, dest, origin,
                 copies>>

(* cleanup_migrated_objects: the reference field at `scan` that is next...  *)
NextField == scan + 8 + 8 * idx

AtField ==
  /\ pc = "cleanup" /\ scan < dest /\ IsHeader(mem[scan])
  /\ idx < PointerCount(mem[scan])

CleanupField ==
  /\ AtField /\ IsWord(mem[NextField])
  /\ \E f \in {Forward(mem[NextField])} :
       /\ Apply(f)
       /\ mem' = [f.mem EXCEPT ![NextField] = f.to]
  /\ idx' = idx + 1
  /\ UNCHANGED <<statics, stacks, handles, pending, table, pc, scan, origin>>

(* ... of which not all bytes were copied: it refers to nothing in the      *)
(* from-space and is left as it is, or to who knows what there.             *)
CleanupTornField ==
  /\ AtField /\ ~IsWord(mem[NextField])
  /\ \/ pc' = pc /\ idx' = idx + 1
     \/ pc' = "wild" /\ idx' = idx
  /\ UNCHANGED <<mem, statics, stacks, handles, pending, table, scan, dest,
                 origin, copies>>

AtEnd ==
  /\ pc = "cleanup" /\ scan < dest /\ IsHeader(mem[scan])
  /\ idx = PointerCount(mem[scan])

(* Slips: the step of the scan is rounded up to words, as an allocator      *)
(* would; the step is missing in the branch of the arrays.                  *)
CleanupNextAligned ==
  /\ AtEnd
  /\ scan' = scan + ((TotalSize(mem[scan]) + 7) \div 8) * 8 /\ idx' = 0
  /\ UNCHANGED <<mem, statics, stacks, handles, pending, table, pc, dest,
                 origin, copies>>

CleanupNextOfClasses ==
  /\ AtEnd /\ mem[scan].tag = "class"
  /\ scan' = scan + TotalSize(mem[scan]) /\ idx' = 0
  /\ UNCHANGED <<mem, statics, stacks, handles, pending, table, pc, dest,
                 origin, copies>>

(* ... and on to the next object when they are done.                        *)
CleanupNext ==
  /\ AtEnd
  /\ scan' = scan + TotalSize(mem[scan]) /\ idx' = 0
  /\ UNCHANGED <<mem, statics, stacks, handles, pending, table, pc, dest,
                 origin, copies>>

(* A header of which not all bytes were copied: the scan takes a length or  *)
(* a class pointer from bytes of something else, and what it does then, a   *)
(* step to anywhere or a write to anywhere, is not followed further.        *)
CleanupWild ==
  /\ pc = "cleanup" /\ scan < dest /\ ~IsHeader(mem[scan])
  /\ pc' = "wild"
  /\ UNCHANGED <<mem, statics, stacks, handles, pending, table, idx, scan, dest,
                 origin, copies>>

CleanupDone ==
  /\ pc = "cleanup" /\ scan >= dest
  /\ pc' = "done"
  /\ UNCHANGED <<mem, statics, stacks, handles, pending, table, idx, scan, dest,
                 origin, copies>>

Step ==
  \/ TrackClassPointer \/ ClassesDone
  \/ TrackStackPointer \/ StacksDone
  \/ (\E h \in Handles : TrackNativePointer(h)) \/ NativesDone
  \/ CleanupField \/ CleanupTornField \/ CleanupNext \/ CleanupWild \/ CleanupDone

Next == Step /\ UNCHANGED heap

(* The collector is straight-line code: it keeps taking steps.              *)
Spec == Init /\ [][Next]_vars /\ WF_vars(Next)

----------------------------------------------------------------------------
(* Properties.                                                              *)

Copied == {copies[k].of : k \in 1 .. Len(copies)}

TypeOK ==
  /\ pc \in {"classes", "stacks", "natives", "cleanup", "done", "wild"}
  /\ pending \subseteq DOMAIN handles
  /\ DOMAIN mem = Addresses
  /\ Copied \subseteq Objects
  /\ dest \in ToStart .. ToStart + FromUsed
  /\ scan \in {0} \cup (ToStart + 8 .. ToStart + FromUsed + 8)
  /\ idx \in Nat

(* No object is copied twice, each copy begins where the one before it      *)
(* ends, and the copies never need more room than the objects they are of:  *)
(* the to-space the prologue committed is enough.                           *)
CopyEnd(k) == copies[k].at + FieldBytes(HeaderOf[copies[k].of])

CopiesFit ==
  /\ \A j, k \in 1 .. Len(copies) : copies[j].of = copies[k].of => j = k
  /\ \A k \in 1 .. Len(copies) :
       copies[k].at = 8 + (IF k = 1 THEN ToStart ELSE CopyEnd(k - 1))
  /\ dest = IF copies = <<>> THEN ToStart ELSE CopyEnd(Len(copies))
  /\ dest <= ToStart + FromUsed

(* The copy is 8 bytes short of its object.  Roomy objects have 8 bytes of  *)
(* fields that are no references, so that header and references are copied. *)
Roomy(h) == 8 * PointerCount(h) + 8 <= FieldBytes(h)

(* No object is short of that, and no array has an element type that looks  *)
(* like a mark.                                                             *)
Ordinary == \A o \in Objects : Roomy(HeaderOf[o]) /\ ~SecondBit(HeaderOf[o])

(* The scan walks from copy to copy, because the step it takes is the size  *)
(* the copy was made with.  It never takes other bytes for a header or for  *)
(* a reference, unless an object was copied that is not roomy.              *)
ScanOnCopies ==
  /\ pc = "cleanup" =>
       scan \in {copies[k].at : k \in 1 .. Len(copies)} \cup {dest + 8}
  /\ pc = "wild" => \E c \in Range(copies) : ~Roomy(HeaderOf[c.of])

(* The copies lie one after another in the to-space, and dest and scan are  *)
(* where one ends and one begins.                                           *)
CopiesInPlace == TypeOK /\ CopiesFit /\ ScanOnCopies

(* Of an object with 8 bytes of fields or more a copy carries the header,   *)
(* without the mark, and of any object every byte of data but the last 8.   *)
CopiesFaithful ==
  \A k \in 1 .. Len(copies) :
    LET o == copies[k].of
        c == copies[k].at
        h == HeaderOf[o]
    IN  /\ FieldBytes(h) >= 8 => mem[c] = h
        /\ \A i \in 8 * PointerCount(h) + 8 .. FieldBytes(h) - 1 :
             mem[c + i] = mem[o + i]

(* Once the collector is done no root and no reference field of a copy      *)
(* refers to the space the epilogue is about to give back.                  *)
NoFromSpaceReference ==
  pc = "done" =>
    /\ \A i \in 1 .. StaticSlots : ~InBounds(statics[i])
    /\ \A i \in 1 .. StackSlots : ~InBounds(stacks[i])
    /\ \A h \in DOMAIN handles : ~InBounds(handles[h])
    /\ \A k \in 1 .. Len(copies) :
         \A i \in 1 .. PointerCount(HeaderOf[copies[k].of]) :
           ~InBounds(mem[copies[k].at + 8 * i])

(* The fields of the original objects stay readable until the end: only     *)
(* headers of the from-space are ever written.                              *)
Targets(S) ==
  {o \in Objects : \E s \in S : \E i \in 1 .. PointerCount(HeaderOf[s]) :
     mem[s + 8 * i] = Ptr(o)}

RootTargets ==
  {o \in Objects : Ptr(o) \in Range(origin.statics) \cup Range(origin.stacks)
                              \cup Range(origin.handles)}

Reachable ==
  {o \in Objects : \A S \in SUBSET Objects :
     (RootTargets \subseteq S /\ Targets(S) \subseteq S) => o \in S}

(* Of ordinary objects the collection copies what the roots reach and       *)
(* nothing else: "performs a traversal to mark every node in the graph"     *)
(* (specs/GarbageCollection.md).                                            *)
CopiesReachable == pc = "done" /\ Ordinary => Copied = Reachable

(* Of ordinary objects the scan ends although it extends its own end: no    *)
(* object is copied twice, and it steps over each copy.                     *)
Terminates == Ordinary ~> pc = "done"

(* A root that referred to an object refers to the copy of that object: a   *)
(* stop-and-copy collection moves objects and keeps the graph.              *)
MovedTo(w) ==
  IF w.tag = "ptr"
  THEN {Ptr(c.at) : c \in {d \in Range(copies) : d.of = w.to}}
  ELSE {w}

RootsFollow ==
  pc = "done" =>
    /\ \A i \in 1 .. StaticSlots : statics[i] \in MovedTo(origin.statics[i])
    /\ \A i \in 1 .. StackSlots : stacks[i] \in MovedTo(origin.stacks[i])
    /\ \A h \in DOMAIN handles : handles[h] \in MovedTo(origin.handles[h])
=============================================================================
