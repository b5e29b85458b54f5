----------------------------- MODULE ClassFile ------------------------------
(***************************************************************************)
(* A class file as class_file_reader sees it: the offsets of its header,    *)
(* the counts derived from them, and the iterators over its tables, which   *)
(* hold a position in bytes.                                                *)
(*                                                                         *)
(* A file is described by how many entries its tables have, the sizes of    *)
(* its methods and the bytes of its string pool.  Header gives the header   *)
(* a file laid out as specs/ClassFileFormat.md says has.                    *)
(***************************************************************************)
EXTENDS Integers, Sequences

HeaderBytes == 28                       \* sizeof(class_file_header)

Walks == {"class_references", "instance_fields", "static_fields", "imports", "methods"}

(* The bytes of the first k methods.                                        *)
MethodsBefore(file, k) ==
  LET sum[n \in 0 .. Len(file.methods)] ==
        IF n = 0 THEN 0 ELSE sum[n - 1] + file.methods[n]
  IN  sum[k]

MethodBytes(file) == MethodsBefore(file, Len(file.methods))

Header(file) ==
  LET instance == HeaderBytes + 4 * file.class_references
      static   == instance + 4 * file.instance_fields
      import   == static + 4 * file.static_fields
      method   == import + 8 * file.imports
  IN  [instance |-> instance, static |-> static, import |-> import, method |-> method,
       pool |-> method + MethodBytes(file)]

----------------------------------------------------------------------------
(* Counts.                                                                  *)

ClassReferenceCount(h) == (h.instance - HeaderBytes) \div 4
InstanceFieldCount(h)  == (h.static - h.instance) \div 4
StaticFieldCount(h)    == (h.import - h.static) \div 4

(* In units of 4 bytes, of which an import has two.                         *)
HeaderImportCount(h) == (h.method - h.import) \div 4

MethodsSize(h) == h.pool - h.method

----------------------------------------------------------------------------
(* Iterators.                                                               *)

WalkBegin(h, walk) ==
  CASE walk = "class_references" -> HeaderBytes
    [] walk = "instance_fields"  -> h.instance
    [] walk = "static_fields"    -> h.static
    [] walk = "imports"          -> h.import
    [] walk = "methods"          -> h.method

WalkEnd(h, walk) ==
  CASE walk = "class_references" -> h.instance
    [] walk = "instance_fields"  -> h.static
    [] walk = "static_fields"    -> h.import
    [] walk = "imports"          -> h.method
    [] walk = "methods"          -> h.pool

Stride(walk) == IF walk = "imports" THEN 8 ELSE 4

(* The sizes found at the places where a method starts.                     *)
MethodStart(file, k) == Header(file).method + MethodsBefore(file, k - 1)

SizeAt(file, position) ==
  LET here == {k \in DOMAIN file.methods : MethodStart(file, k) = position}
  IN  IF here = {} THEN 0 ELSE file.methods[CHOOSE k \in here : TRUE]

(* A slip: every table walked in steps of one word.                         *)
AdvanceByWord(file, walk, position) ==
  position + (IF walk = "methods" THEN SizeAt(file, position) ELSE 4)

(* operator++.                                                              *)
Advance(file, walk, position) ==
  position + (IF walk = "methods" THEN SizeAt(file, position) ELSE Stride(walk))

(* Where an iterator is after n steps from begin().                         *)
Position(file, walk, n) ==
  LET after[k \in 0 .. n] ==
        IF k = 0 THEN WalkBegin(Header(file), walk) ELSE Advance(file, walk, after[k - 1])
  IN  after[n]

(* slice, of a random access iterator: the n-th position of the superclass  *)
(* names impl_load_class loads.                                             *)
SuperclassStart == 7

SlicePosition(h, n) ==
  WalkBegin(h, "class_references") + (SuperclassStart + n) * Stride("class_references")

(* The byte operator* reads its entry from.  The position, in bytes from    *)
(* the start of the file, is taken for an index and scaled once more, or    *)
(* not at all, before the start of the table is added to it again.          *)
ReadFrom(h, walk, position) ==
  CASE walk = "class_references" -> HeaderBytes + position * 4
    [] walk = "instance_fields"  -> h.instance + position + 4
    [] walk = "static_fields"    -> h.static + position + 4
    [] walk = "imports"          -> h.import + position * 8
    [] walk = "methods"          -> position

(* data_idx of the field a method iterator yields.                          *)
MethodDataIdx(h, position) == position - h.method
=============================================================================
