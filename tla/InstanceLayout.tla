--------------------------- MODULE InstanceLayout ---------------------------
(***************************************************************************)
(* Where the fields of an object lie: the sections that                     *)
(* class_writer::set_instance_variable_counts lays out by type, and the     *)
(* readers of clazz that find a field, or the number of fields of a type,   *)
(* from the offsets in the header alone.                                    *)
(***************************************************************************)
EXTENDS Integers

(* enum class datatype.                                                     *)
BYTE   == 0
SHORT  == 1
INT    == 2
FLOAT  == 3
LONG   == 4
DOUBLE == 5
OBJECT == 6

Datatypes == 0 .. 6

datatype_size == [t \in Datatypes |-> CASE t = BYTE -> 1 [] t = SHORT -> 2
                                       [] t \in {INT, FLOAT} -> 4
                                       [] OTHER -> 8]

Counts == [Datatypes -> Nat]

Bytes(counts, t) == counts[t] * datatype_size[t]

(* A slip: the floats and the ints share a section.                         *)
SetCountsFloatAsInt(counts) ==
  LET double == Bytes(counts, OBJECT)
      long   == double + Bytes(counts, DOUBLE)
      float  == long + Bytes(counts, LONG)
      short  == float + Bytes(counts, INT)
      byte   == short + Bytes(counts, SHORT)
  IN  [offset |-> [t \in Datatypes |-> <<byte, short, float, float, long, double, 0>>[t + 1]],
       total  |-> byte + Bytes(counts, BYTE)]

(* A slip: bytes before shorts, to save the padding of the object.          *)
SetCountsBytesFirst(counts) ==
  LET double == Bytes(counts, OBJECT)
      long   == double + Bytes(counts, DOUBLE)
      float  == long + Bytes(counts, LONG)
      int    == float + Bytes(counts, FLOAT)
      byte   == int + Bytes(counts, INT)
      short  == byte + Bytes(counts, BYTE)
  IN  [offset |-> [t \in Datatypes |-> <<byte, short, int, float, long, double, 0>>[t + 1]],
       total  |-> short + Bytes(counts, SHORT)]

(* set_instance_variable_counts: the widest types first.                    *)
SetInstanceVariableCounts(counts) ==
  LET double == Bytes(counts, OBJECT)
      long   == double + Bytes(counts, DOUBLE)
      float  == long + Bytes(counts, LONG)
      int    == float + Bytes(counts, FLOAT)
      short  == int + Bytes(counts, INT)
      byte   == short + Bytes(counts, SHORT)
  IN  [offset |-> [t \in Datatypes |-> <<byte, short, int, float, long, double, 0>>[t + 1]],
       total  |-> byte + Bytes(counts, BYTE)]

(* Where the section of a type ends: the section laid out after it begins   *)
(* there.                                                                   *)
SectionEnd(layout, t) == IF t = BYTE THEN layout.total ELSE layout.offset[t - 1]

(* inherited_variable_counts.                                               *)
InheritedVariableCounts(layout) ==
  [t \in Datatypes |->
     (SectionEnd(layout, t) - layout.offset[t]) \div datatype_size[t]]

(* get_instance_offset: relative to the first byte after the class pointer. *)
InstanceOffset(layout, index, t) == layout.offset[t] + index * datatype_size[t]

FieldBytes(layout, index, t) ==
  InstanceOffset(layout, index, t)
    .. InstanceOffset(layout, index, t) + datatype_size[t] - 1
=============================================================================
