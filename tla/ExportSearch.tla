---------------------------- MODULE ExportSearch ----------------------------
(***************************************************************************)
(* How a member of a class is found by its name: the order in which         *)
(* impl_load_class sorts the exports, the binary search of reflect_index    *)
(* and its own order, and what it reads at the entry found.                 *)
(*                                                                         *)
(* A name is a sequence of bytes.  An export is a record of its name and of *)
(* the bytes of its entry, least first: four of a string index, three of    *)
(* data_idx, one of data_type.  Positions in a table are counted from 0, as *)
(* in the code.  A byte has ByteBase values.                                *)
(*                                                                         *)
(* load_constant_string answers for a class whose class_size is set; the    *)
(* loader never sets it, and no name can be read then.  Here it is set.     *)
(***************************************************************************)
EXTENDS Integers, Sequences, FiniteSets

CONSTANT ByteBase

ASSUME ByteBaseAssumption == ByteBase \in Nat \ {0}

----------------------------------------------------------------------------
(* Names.                                                                   *)

(* The first of the positions both names have where they differ.            *)
DiffersFirst(a, b, i) ==
  /\ i \in DOMAIN a \cap DOMAIN b /\ a[i] # b[i]
  /\ \A j \in DOMAIN a \cap DOMAIN b : j < i => a[j] = b[j]

(* The sign of std::memcmp over the length of the shorter name.             *)
MemcmpLess(a, b) == \E i \in DOMAIN a : DiffersFirst(a, b, i) /\ a[i] < b[i]

MemcmpEqual(a, b) == \A i \in DOMAIN a \cap DOMAIN b : a[i] = b[i]

(* A slip: the operands of memcmp the other way round.                      *)
FieldLessAscending(a, b) ==
  MemcmpLess(a, b) \/ (MemcmpEqual(a, b) /\ Len(a) < Len(b))

(* field::operator<: `a` is before `b` in the sorted table.  It compares    *)
(* the other name with this one.                                            *)
FieldLess(a, b) ==
  MemcmpLess(b, a) \/ (MemcmpEqual(a, b) /\ Len(a) < Len(b))

(* The comparator of reflect_index.  It keeps of memcmp whether it is       *)
(* negative, as 0 or 1, and takes that for the sign.                        *)
SearchLess(a, b) ==
  LET value == IF MemcmpLess(a, b) THEN 1 ELSE 0
  IN  value < 0 \/ (value = 0 /\ Len(a) < Len(b))

----------------------------------------------------------------------------
(* Tables.                                                                  *)

(* What std::sort would make of the table if it could move its entries.     *)
(* The sort of impl_load_class works on proxies: it may permute them in any *)
(* way, for it compares names that cannot be read and its moves rebind a    *)
(* proxy instead of writing an entry.                                       *)
SortedByField(table) ==
  \A i, j \in DOMAIN table : i < j => FieldLess(table[i].name, table[j].name)

(* std::lower_bound over the positions 0 .. n - 1 (external): the search    *)
(* goes on in the `len` positions from `first` on.                          *)
LowerBound(table, name) ==
  LET bound[len \in 0 .. Len(table)] ==
        [first \in 0 .. Len(table) - len |->
           LET half == len \div 2
               mid  == first + half
           IN  IF len = 0 THEN first
               ELSE IF SearchLess(table[mid + 1].name, name)
                    THEN bound[len - half - 1][mid + 1]
                    ELSE bound[half][first]]
  IN  bound[Len(table)][0]

(* The table as bytes.                                                      *)
ByteOf(table, k) ==
  LET entry == table[(k \div 8) + 1]
  IN  (entry.string \o entry.data \o <<entry.type>>)[(k % 8) + 1]

Number(bytes) == bytes[1] + ByteBase * bytes[2] + ByteBase * ByteBase * bytes[3]

OffsetScaled(table, position) ==                            \* as it was meant
  Number([k \in 1 .. 3 |-> ByteOf(table, 8 * position + 3 + k)])

(* export_table_iterator::offset, masked to 24 bits: the four bytes from    *)
(* byte `position` + 4 on, the position not scaled.                         *)
Offset(table, position) ==
  Number([k \in 1 .. 3 |-> ByteOf(table, position + 3 + k)])

NoAnswer == [found |-> FALSE]

(* A slip: whatever the bound is at is taken.                               *)
ReflectIndexUnchecked(table, name) ==
  LET bound == LowerBound(table, name)
  IN  IF bound # Len(table)
      THEN [found |-> TRUE, position |-> bound, index |-> Offset(table, bound)]
      ELSE NoAnswer

ReflectIndex(table, name) ==
  LET bound == LowerBound(table, name)
  IN  IF bound # Len(table) /\ table[bound + 1].name = name
      THEN [found |-> TRUE, position |-> bound, index |-> Offset(table, bound)]
      ELSE NoAnswer

(* reflect_index_recursively, over the tables of a class and its            *)
(* superclasses, the class itself first: the first that answers.            *)
ReflectRecursively(tables, name) ==
  LET here(k)   == ReflectIndex(tables[k], name)
      answering == {k \in DOMAIN tables : here(k).found}
      first     == CHOOSE k \in answering : \A j \in answering : k <= j
  IN  IF answering = {} THEN NoAnswer
      ELSE [found |-> TRUE, class |-> first, position |-> here(first).position,
            index |-> here(first).index]
=============================================================================
