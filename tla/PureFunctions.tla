---------------------------- MODULE PureFunctions ----------------------------
(***************************************************************************)
(* The parts of the machine that keep no state, and what they answer:       *)
(* arithmetic, packed words, the walks over a class file and the search for *)
(* an export.  A behaviour is one input.                                    *)
(***************************************************************************)
EXTENDS Arithmetic, InstructionWords, ClassFile, ExportSearch

CONSTANTS
  OperandWidths,  \* the bits of operands
  Fields,         \* the entries of exports that are swapped
  Pools,          \* offsets of string pools
  MaxArguments,   \* the most arguments of a method
  ClassFiles,     \* well-formed class files
  Chains,         \* export tables, of a class and of its superclasses
  Sought          \* names looked for

(* Bytes of a name; the entry of an export is eight of them, and any two    *)
(* exports of a table have different names.                                 *)
ExportEntries ==
  [name : Seq(0 .. ByteBase - 1), string : [1 .. 4 -> 0 .. ByteBase - 1],
   data : [1 .. 3 -> 0 .. ByteBase - 1], type : 0 .. ByteBase - 1]

(* A method holds its own size, in four bytes, and a class names what every *)
(* class does besides the interfaces it implements.                         *)
WellFormedFiles ==
  {f \in [class_references : Nat, implemented : Nat, instance_fields : Nat,
          static_fields : Nat, imports : Nat, methods : Seq(Nat \ 0 .. 3)] :
     SuperclassStart + f.implemented <= f.class_references}

ASSUME InputsAssumption ==
  /\ \A w \in OperandWidths : w \in Nat \ {0, 1}
  /\ \A f \in Fields :
       f \in [string_idx : Nat, data_idx : 0 .. Values(3) - 1, data_type : 0 .. Values(1) - 1]
  /\ Pools \subseteq Nat /\ MaxArguments \in Nat
  /\ \A f \in ClassFiles : f \in WellFormedFiles
  /\ \A tables \in Chains : tables \in Seq(Seq(ExportEntries))
  /\ \A name \in Sought : name \in Seq(0 .. ByteBase - 1)

(* Of exponentiation the proofs use that the powers of two in use double.   *)
ASSUME ExponentsAssumption ==
  (\A w \in OperandWidths : Doubling(w)) /\ Doubling(8 * Unit)

VARIABLE input

NoInput == input = [kind |-> "none"]

Binary(w, a, b) == input' = [kind |-> "operands", width |-> w, a |-> a, b |-> b]

Word(word) == input' = [kind |-> "word", word |-> word]

Array(length, type) == input' = [kind |-> "array", length |-> length, type |-> type]

ArgTypes(types) == input' = [kind |-> "types", types |-> types]

Pair(pool, a, b) == input' = [kind |-> "exports", pool |-> pool, pair |-> <<a, b>>]

File(file) == input' = [kind |-> "file", file |-> file]

Search(tables) == input' = [kind |-> "search", tables |-> tables]

SomeInput ==
  /\ input.kind = "none"
  /\ \/ \E w \in OperandWidths : \E a, b \in Ints(w) : Binary(w, a, b)
     \/ \E word \in 0 .. Values(8) - 1 : Word(word)
     \/ \E length \in Ints(4 * Unit), type \in 0 .. 6 : Array(length, type)
     \/ \E n \in 0 .. MaxArguments : \E types \in [1 .. n -> 0 .. 4] : ArgTypes(types)
     \/ \E pool \in Pools, a, b \in Fields : Pair(pool, a, b)
     \/ \E file \in ClassFiles : File(file)
     \/ \E tables \in Chains : Search(tables)

InputSpec == NoInput /\ [][SomeInput]_input

----------------------------------------------------------------------------
(* Arithmetic.                                                              *)

Congruent(w, x, y) == ((x - y) % (2 ^ w)) = 0

(* Addition, subtraction and multiplication are those of the integers       *)
(* modulo 2^w, for negative operands too, although the code computes        *)
(* them on the unsigned types.                                              *)
RingOperations(w, a, b) ==
  /\ AddSafe(w, a, b) \in Ints(w) /\ Congruent(w, AddSafe(w, a, b), a + b)
  /\ SubSafe(w, a, b) \in Ints(w) /\ Congruent(w, SubSafe(w, a, b), a - b)
  /\ MulSafe(w, a, b) \in Ints(w) /\ Congruent(w, MulSafe(w, a, b), a * b)

(* Shifts and logical operations agree with the arithmetic ones: the        *)
(* arithmetic shift keeps the sign and rounds down, the logical one brings  *)
(* in zeroes, a left shift is undone by one of them; x | y is               *)
(* x + y - (x & y), and x ^ y is what is left.                              *)
BitOperations(w, a, b) ==
  /\ b \in 0 .. w - 1 =>
       /\ SraSafe(w, a, b) * (2 ^ b) \in a - 2 ^ b + 1 .. a
       /\ Unsigned(w, SrlSafe(w, a, b)) < 2 ^ (w - b)
       /\ (a \in 0 .. 2 ^ (w - 1 - b) - 1) =>
            SraSafe(w, SllSafe(w, a, b), b) = a
  /\ Congruent(w, OrSafe(w, a, b), a + b - AndSafe(w, a, b))
  /\ Congruent(w, XorSafe(w, a, b), OrSafe(w, a, b) - AndSafe(w, a, b))

(* What add_safe to xor_safe compute on unsigned types is what the          *)
(* instructions mean on signed ones: the ring of the integers modulo        *)
(* 2^w, and shifts and logical operations that agree with it.               *)
WordOperations ==
  input.kind = "operands" =>
    RingOperations(input.width, input.a, input.b)
      /\ BitOperations(input.width, input.a, input.b)

(* The quotient and the remainder of div_safe and mod_safe fit together:    *)
(* they give the dividend back, the remainder is smaller than the divisor   *)
(* and has the sign of the dividend.  Both fail together, for a zero        *)
(* divisor and no other.                                                    *)
DivisionIdentity ==
  input.kind = "operands" =>
    LET w == input.width
        a == input.a
        b == input.b
        d == DivSafe(w, a, b)
        m == ModSafe(w, a, b)
    IN  /\ d.tag = m.tag
        /\ (d.tag = "none") <=> (b = 0)
        /\ d.tag = "some" =>
             /\ d.v \in Ints(w)
             /\ d.v * b + m.v = a
             /\ Magnitude(m.v) < Magnitude(b)
             /\ m.v # 0 => ((m.v < 0) <=> (a < 0))

----------------------------------------------------------------------------
(* Packed words.                                                            *)

(* The accessors an instruction uses together take every byte of it (but    *)
(* for one that some leave unused) and none twice: put together again, each *)
(* at its own place, what they answer is the word.  imm24 and imm32 have    *)
(* their sign: a negative one borrows from the bytes above it.  The places  *)
(* are those of instructions.cpp, the type in the lowest byte and dest in   *)
(* the highest two.                                                         *)
FormatsCover(w) ==
  LET unused == w - BytesOf(w, 1, 1) * Values(1)
      borrow(x, byte) == IF x < 0 THEN Values(byte) ELSE 0
  IN  /\ TypeOf(w) + Src2(w) * Values(2) + Src1(w) * Values(4) + Dest(w) * Values(6) = unused
      /\ TypeOf(w) + Imm24(w) * Values(1) + Src1(w) * Values(4) + Target(w) * Values(6)
           + borrow(Imm24(w), 4) = w
      /\ TypeOf(w) + Idx24(w) * Values(1) + Src1(w) * Values(4) + Dest(w) * Values(6) = w
      /\ TypeOf(w) + Imm40(w) * Values(1) + Dest(w) * Values(6) = w
      /\ TypeOf(w) + Imm32(w) * Values(2) + Dest(w) * Values(6) + borrow(Imm32(w), 6) = unused
      /\ Imm24(w) \in -(Values(3) \div 2) .. Values(3) \div 2 - 1

(* An array answers the length, negative ones included, and the type it was *)
(* initialized with.                                                        *)
ArraysReadBack(length, type) ==
  LET header == ArrayHeader(length, type)
  IN  IsArray(header) /\ ArrayLength(header) = length /\ ElementType(header) = type

PackedTypes(types) ==
  [byte \in 1 .. (Len(types) + 1) \div 2 |->
     types[2 * byte - 1] + 16 * (IF 2 * byte <= Len(types) THEN types[2 * byte] ELSE 0)]

TypesReadBack(types) ==
  \A k \in 0 .. Len(types) - 1 : ArgType(PackedTypes(types), k) = types[k + 1]

(* Two exports written and swapped are the other's, with data_idx of three  *)
(* bytes and wherever the string pool is.                                   *)
ExportsSwap(pool, pair) ==
  LET written == [k \in 1 .. 2 |-> WrittenExport(pair[k], pool)]
  IN  \A k \in 1 .. 2 :
        /\ ReadExport(written[k], pool) = pair[k]
        /\ ReadExport(Swapped(written, pool)[k], pool) = pair[3 - k]

(* What the writers pack into a word, of an array, a method or an export,   *)
(* is read back by the accessors, its sign included and its neighbours      *)
(* excluded; of an instruction, for which the code has no writer, the       *)
(* accessors partition the word.                                            *)
PackedWordsReadBack ==
  CASE input.kind = "word"    -> FormatsCover(input.word)
    [] input.kind = "array"   -> ArraysReadBack(input.length, input.type)
    [] input.kind = "types"   -> TypesReadBack(input.types)
    [] input.kind = "exports" -> ExportsSwap(input.pool, input.pair)
    [] OTHER -> TRUE

----------------------------------------------------------------------------
(* Class files.                                                             *)

Entered(file, walk) == IF walk = "methods" THEN Len(file.methods) ELSE file[walk]

(* The counts reserve what the walks will write: compute_class_sizes asks   *)
(* for the former, impl_load_class makes the latter.                        *)
CountsFit(file) ==
  LET h == Header(file)
  IN  /\ ClassReferenceCount(h) = file.class_references
      /\ InstanceFieldCount(h) = file.instance_fields
      /\ StaticFieldCount(h) = file.static_fields
      /\ HeaderImportCount(h) = 2 * file.imports
      /\ MethodsSize(h) = MethodBytes(file)
      /\ \A n \in 0 .. file.implemented - 1 :
           SlicePosition(h, n) = Position(file, "class_references", SuperclassStart + n)

(* The iterators stop because their position equals the end, never because  *)
(* it is past it: each walk over a well-formed file, the walk over methods  *)
(* of any sizes included, comes to its end after as many steps as its table *)
(* has entries, no two steps read the same bytes, and a method is told its  *)
(* own offset.                                                              *)
WalksEnd ==
  input.kind = "file" =>
    LET file == input.file
        h    == Header(file)
    IN  /\ CountsFit(file)
        /\ \A walk \in Walks :
             LET n == Entered(file, walk)
                 from(k) == ReadFrom(h, walk, Position(file, walk, k))
             IN  /\ Position(file, walk, n) = WalkEnd(h, walk)
                 /\ \A k \in 0 .. n - 1 :
                      /\ Position(file, walk, k) # WalkEnd(h, walk)
                      /\ k > 0 => from(k) - from(k - 1) >= Stride(walk)
        /\ \A k \in DOMAIN file.methods :
             MethodDataIdx(h, Position(file, "methods", k - 1)) = MethodStart(file, k) - h.method

----------------------------------------------------------------------------
(* The search for an export.                                                *)

NamesOf(table) == {table[k].name : k \in DOMAIN table}

(* Sorted, and every name longer than those before it.                      *)
Graded(table) ==
  /\ SortedByField(table)
  /\ \A i, j \in DOMAIN table : i < j => Len(table[i].name) < Len(table[j].name)

(* An answer is at an export with exactly the name asked for, wherever the  *)
(* sort put it, and has its data_idx if it is the first.  In a graded table *)
(* every name is found, and no superclass answers for one the class has.    *)
LookupAnswers ==
  input.kind = "search" =>
    \A name \in Sought :
      LET answer == ReflectRecursively(input.tables, name)
          entry  == input.tables[answer.class][answer.position + 1]
      IN  /\ answer.found =>
               /\ entry.name = name
               /\ answer.position = 0 => answer.index = Number(entry.data)
          /\ \A k \in DOMAIN input.tables :
               Graded(input.tables[k]) /\ name \in NamesOf(input.tables[k]) =>
                 answer.found /\ answer.class <= k

(* The search and the sort compare names in different ways.  In a sorted    *)
(* table the search never goes past the name it looks for: what is missed   *)
(* is missed on the near side, and the first name is always found.          *)
SearchStopsShort ==
  input.kind = "search" =>
    \A k \in DOMAIN input.tables :
      LET table == input.tables[k]
      IN  SortedByField(table) =>
            \A i \in DOMAIN table :
              /\ LowerBound(table, table[i].name) < i
              /\ i = 1 => ReflectIndex(table, table[i].name).found
=============================================================================
