--------------------------- MODULE MCStopAndCopy ---------------------------
(***************************************************************************)
(* Heaps for StopAndCopy.  Every graph over the objects is an initial       *)
(* state: shared objects, cycles, garbage, null references, an object only  *)
(* a native handle holds.                                                   *)
(***************************************************************************)
EXTENDS StopAndCopy, FiniteSetsExt

CONSTANTS h1, Str, Node, Cell

(* Blocks are allocated one after another.  A shape is a header word and   *)
(* the bytes between the object before it and its header: its spare word,   *)
(* or, of the second object in a block, the padding between them.           *)
Extent(shape) == shape.gap + 8 + FieldBytes(shape.header)

Layout(shapes) ==
  LET used(i)   == MapThenSumSet(LAMBDA j : Extent(shapes[j]), 1 .. i)
      address   == [i \in 1 .. Len(shapes) |-> used(i - 1) + shapes[i].gap]
      objects   == {address[i] : i \in 1 .. Len(shapes)}
  IN  [used    |-> used(Len(shapes)),
       objects |-> objects,
       header  |-> [o \in objects |->
                      shapes[CHOOSE i \in 1 .. Len(shapes) : address[i] = o].header]]

Object(header) == [header |-> header, gap |-> 8]

(* Objects the collector handles: a node with two references, a LONG and a  *)
(* BYTE, a BYTE array of 9, a cell with one reference and a LONG.  All but  *)
(* the first begin at odd addresses.                                        *)
NodeHeap ==
  << Object(ClassWord(Node, 2, 25)),
     Object(ArrayWord(BYTE, 9)),
     Object(ClassWord(Cell, 1, 16)) >>

(* What heap::reify_constant_string lays out, a string object of 13 bytes   *)
(* and, 24 bytes behind its header in the same block, its byte array; the   *)
(* copy of the string ends within its only reference.                       *)
StringHeap ==
  << Object(ClassWord(Str, 1, 13)),
     [header |-> ArrayWord(BYTE, 9), gap |-> 3],
     Object(ClassWord(Cell, 1, 16)) >>

(* More that the collector mishandles: an object array, whose last element  *)
(* is not copied; a FLOAT array, which looks marked; an INT array of one    *)
(* element and an object without fields, whose headers are cut.             *)
OddHeap ==
  << Object(ArrayWord(OBJECT, 2)),
     Object(ArrayWord(FLOAT, 2)),
     Object(ArrayWord(INT, 1)),
     Object(ClassWord(Cell, 0, 0)) >>

(* Two objects of one class, one field for a reference and one for a number.*)
PairHeap ==
  << Object(ClassWord(Node, 1, 16)), Object(ClassWord(Node, 1, 16)) >>

AllLayouts  == {Layout(NodeHeap), Layout(StringHeap), Layout(OddHeap)}
PairLayouts == {Layout(PairHeap)}
=============================================================================
