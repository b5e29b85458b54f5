--------------------------- MODULE InstructionWords ---------------------------
(***************************************************************************)
(* Values packed into words: the fields of an instruction, the header of an *)
(* array, the types of the arguments of a method and the entry of an        *)
(* export, with the accessors that take them apart.                         *)
(*                                                                         *)
(* A byte has Unit bits; a short has two bytes, an int four, a word eight.  *)
(***************************************************************************)
EXTENDS Integers, Sequences

CONSTANT Unit

ASSUME UnitAssumption == Unit \in Nat \ {0, 1}

(* The values of n bytes, and n bytes of a word from byte i on.             *)
Values(n) == 2 ^ (n * Unit)

BytesOf(word, i, n) == (word \div Values(i)) % Values(n)

SignedBytes(n, x) == IF x < Values(n) \div 2 THEN x ELSE x - Values(n)

----------------------------------------------------------------------------
(* instruction.                                                             *)

TypeOf(word) == BytesOf(word, 0, 1)
Src1(word)   == BytesOf(word, 4, 2)
Src2(word)   == BytesOf(word, 2, 2)
Dest(word)   == BytesOf(word, 6, 2)
Target(word) == BytesOf(word, 6, 2)

Imm24Unsigned(word) == BytesOf(word, 1, 3)                  \* a slip

(* sign_extend_imm24.                                                       *)
Imm24(word) == SignedBytes(3, BytesOf(word, 1, 3))
Idx24(word) == BytesOf(word, 1, 3)
Imm32(word) == SignedBytes(4, BytesOf(word, 2, 4))
Imm40(word) == BytesOf(word, 1, 5)                          \* without its sign

----------------------------------------------------------------------------
(* The header of an array, a signed word.                                   *)

ShiftLeft(x, n) == x * 2 ^ n                                \* of a signed word

(* array::initialize: the length, room for the type, the type, the tag.     *)
ArrayHeader(length, type) ==
  ShiftLeft(ShiftLeft(length, 4 * Unit - 1) + type, 1) + 1

ArrayLength(header) == header \div Values(4)                \* an arithmetic shift

ElementType(header) == (header \div 2) % 8

IsArray(header) == (header % 2) = 1

----------------------------------------------------------------------------
(* arg_types: two to a byte, the first in the low half.                     *)

ArgType(bytes, k) ==
  ((bytes[(k \div 2) + 1] \div (IF (k % 2) = 1 THEN 16 ELSE 1)) % 16) % 8

----------------------------------------------------------------------------
(* The entry of an export: bdr_reference<field>.                            *)

(* operator=: string_idx moves by the offset of the string pool, data_idx   *)
(* is or-ed below the type, which is an addition while it has three bytes.  *)
WrittenExport(f, pool) ==
  [string |-> f.string_idx + pool, data |-> f.data_type * Values(3) + f.data_idx]

(* operator field.                                                          *)
ReadExport(entry, pool) ==
  [string_idx |-> entry.string - pool,
   data_idx   |-> entry.data % Values(3),
   data_type  |-> BytesOf(entry.data, 3, 1)]

(* swap of two proxies, as the sort would use it.                           *)
Swapped(pair, pool) ==
  <<WrittenExport(ReadExport(pair[2], pool), pool),
    WrittenExport(ReadExport(pair[1], pool), pool)>>
=============================================================================
