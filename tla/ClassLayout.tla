----------------------------- MODULE ClassLayout -----------------------------
(***************************************************************************)
(* The memory of a loaded class: the sizes compute_class_sizes reserves,    *)
(* what impl_load_class and class_writer write there, in that order, and    *)
(* what clazz and the collector read back from it.                          *)
(*                                                                         *)
(* The unit of memory is the 8-byte word, except within instances and the   *)
(* static region, which are laid out in bytes.  A class is loaded with the  *)
(* class before it, or none, as its primary superclass.  A class file is    *)
(* what the iterators of class_file_reader yield for it: types of fields,   *)
(* methods with their sizes, and lengths of the other tables.               *)
(*                                                                         *)
(* Names: reflect_virtual_method_index reads the export table of the        *)
(* superclass by names it cannot read (class_size is 0, so                  *)
(* load_constant_string has no answer and its empty optional is used);      *)
(* `found` is what it happens to answer for each virtual method.            *)
(*                                                                         *)
(* Bounds: Files, MaxClasses, and Answers for what a lookup answers.        *)
(***************************************************************************)
EXTENDS InstanceLayout, FiniteSets, FiniteSetsExt, SequencesExt

CONSTANTS
  Files,        \* descriptions of class files
  MaxClasses,
  Answers       \* indices a lookup may answer

HeaderWords == 12                      \* sizeof(class_header) / 8

NoIndex == -1

ASSUME ClassFilesAssumption ==
  /\ \A f \in Files :
       /\ f.statics \in Seq(Datatypes) /\ f.fields \in Seq(Datatypes)
       /\ f.methods \in Seq([virtual : BOOLEAN, words : Nat \ {0}])
       /\ f.class_references \in Nat /\ f.imports \in Nat /\ f.string_words \in Nat
  /\ MaxClasses \in Nat /\ Answers \subseteq Nat

VARIABLE classes     \* the loaded classes, each the superclass of the next

vars == <<classes>>

----------------------------------------------------------------------------
(* compute_class_sizes.                                                     *)

CountOf(types) ==
  [t \in Datatypes |-> Cardinality({i \in DOMAIN types : types[i] = t})]

(* align_to<8>, in words.                                                   *)
WordsOf(bytes) == (bytes + 7) \div 8

StaticBytes(f) ==
  LET bytes(t) == Bytes(CountOf(f.statics), t)
  IN  bytes(BYTE) + bytes(SHORT) + bytes(INT) + bytes(FLOAT) + bytes(LONG) + bytes(DOUBLE)
        + bytes(OBJECT)

(* The words of code: of which method, and which of it.                     *)
CodeWords(f) == UNION {{k} \X (1 .. f.methods[k].words) : k \in DOMAIN f.methods}

MethodWords(f) == Cardinality(CodeWords(f))

Virtual(f) == {k \in DOMAIN f.methods : f.methods[k].virtual}

VirtualMethodCount(header) == header.class_import - header.vmt

(* An import is two words of four bytes: import_count is twice the number.  *)
ImportCount(f) == 2 * f.imports

ExportCountOfVirtuals(f) == Cardinality(Virtual(f))     \* a slip

(* export_count counts the methods, and neither statics nor fields.         *)
ExportCount(f) == Len(f.methods)

(* The offsets the header will hold, in words.                              *)
TableOffsets(f, inherited, found) ==
  LET new == Cardinality({k \in Virtual(f) : found[k] = NoIndex})
      vmt == HeaderWords + WordsOf(StaticBytes(f))
      class_import == vmt + inherited + new
      field_import == class_import + WordsOf(4 * f.class_references)
      exports      == field_import + ImportCount(f)
      bytecodes    == exports + ExportCount(f)
      string_pool  == bytecodes + MethodWords(f)
  IN  [vmt |-> vmt, class_import |-> class_import, field_import |-> field_import,
       exports |-> exports, bytecodes |-> bytecodes, string_pool |-> string_pool,
       total |-> string_pool + f.string_words]

----------------------------------------------------------------------------
(* The static region.                                                       *)

(* What impl_load_class starts the statics of a type at.                    *)
StaticStart(counts, t) == IF t = OBJECT THEN 0 ELSE Bytes(counts, t + 1)

StaticOffset(f, k) ==
  StaticStart(CountOf(f.statics), f.statics[k])
    + datatype_size[f.statics[k]]
        * Cardinality({j \in 1 .. k - 1 : f.statics[j] = f.statics[k]})

(* set_static_variable_offsets: where each type ended, shifted by one.      *)
StaticHeader(f) ==
  LET counts == CountOf(f.statics)
      end(t) == StaticStart(counts, t) + Bytes(counts, t)
  IN  [t \in Datatypes |-> IF t = OBJECT THEN end(BYTE) ELSE end(t + 1)]

StaticSlot(f, k) == StaticOffset(f, k) .. StaticOffset(f, k) + datatype_size[f.statics[k]] - 1

----------------------------------------------------------------------------
(* The words of the class, in the order impl_load_class writes them.        *)

(* The offset of the k-th method in the method table.                       *)
Bytecode(f, k) == Cardinality({w \in CodeWords(f) : w[1] < k})

(* bulk_load_methods: the methods as they are in the file, and at once in   *)
(* the header of each, here its first word, the class (context_class).      *)
Bytecodes(f) ==
  [w \in 1 .. MethodWords(f) |->
     LET k == CHOOSE k \in DOMAIN f.methods :
                w - 1 \in Bytecode(f, k) .. Bytecode(f, k) + f.methods[k].words - 1
         at == w - 1 - Bytecode(f, k)
     IN  IF at = 0 THEN <<"context", k>> ELSE <<"code", k, at>>]

Filled(tag, n) == [w \in 1 .. n |-> <<tag, w>>]

(* loaded_import_reference_iterator advances by one half of a word while    *)
(* each import writes two, its name and its class: the name of the next     *)
(* import lies where the class of this one was, and only the last keeps it. *)
ImportHalf(f, h) ==
  CASE h < f.imports -> <<"name", h + 1>>
    [] h = f.imports -> <<"class", h>>
    [] OTHER -> <<"zero">>

ImportWords(f) ==
  [w \in 1 .. (IF f.imports = 0 THEN 0 ELSE (f.imports + 2) \div 2) |->
     <<ImportHalf(f, 2 * w - 2), ImportHalf(f, 2 * w - 1)>>]

(* The index of a new virtual method grows by sizeof(void pointer).         *)
VmtIndex(f, inherited, found, k) ==
  IF found[k] # NoIndex THEN found[k]
  ELSE inherited + 8 * Cardinality({j \in Virtual(f) : j < k /\ found[j] = NoIndex})

(* set_virtual_method adds bytecodes_offset to an index that contains it.   *)
MethodPointer(o, f, k) == <<"method", o.bytecodes + o.bytecodes + Bytecode(f, k)>>

(* The static and the instance fields, then the methods.                    *)
ExportSequence(f) ==
  [i \in DOMAIN f.statics |-> <<"static", i>>]
    \o [i \in DOMAIN f.fields |-> <<"field", i>>]
    \o [i \in DOMAIN f.methods |-> <<"export", i>>]

(* The table of virtual methods of the superclass, preloaded.               *)
InheritedMethods(primary) ==
  IF primary = <<>> THEN <<>>
  ELSE [w \in 1 .. VirtualMethodCount(primary[1].offsets) |->
          primary[1].memory[primary[1].offsets.vmt + w - 1]]

Put(at, words) == [at |-> at, words |-> words]

(* What is written before the loop over the methods, and what that loop     *)
(* writes: in the table of virtual methods and in the exports, by turns.    *)
(* Exports are sorted afterwards within the same words; their order is not  *)
(* modelled.                                                                *)
TablePuts(f, o, primary) ==
  <<Put(o.string_pool, Filled("string", f.string_words)),
    Put(o.bytecodes, Bytecodes(f)),
    Put(o.vmt, InheritedMethods(primary)),
    Put(o.class_import, Filled("class", WordsOf(4 * f.class_references))),
    Put(o.field_import, ImportWords(f)),
    Put(o.exports, SubSeq(ExportSequence(f), 1, Len(f.statics) + Len(f.fields)))>>

MethodPuts(f, o, inherited, found) ==
  LET early  == Len(f.statics) + Len(f.fields)
      link(k) == IF k \in Virtual(f)
                 THEN Put(o.vmt + VmtIndex(f, inherited, found, k), <<MethodPointer(o, f, k)>>)
                 ELSE Put(o.vmt, <<>>)
      export(k) == Put(o.exports + early + k - 1, <<ExportSequence(f)[early + k]>>)
  IN  [i \in 1 .. 2 * Len(f.methods) |->
         IF (i % 2) = 1 THEN link((i + 1) \div 2) ELSE export(i \div 2)]

Covers(put, w) == w \in put.at .. put.at + Len(put.words) - 1

(* A word holds what was put there last, or the zero of fresh metaspace.    *)
WordAfter(puts, w) ==
  LET covering == {i \in DOMAIN puts : Covers(puts[i], w)}
  IN  IF covering = {} THEN <<"zero">>
      ELSE LET last == puts[Max(covering)] IN last.words[w - last.at + 1]

Inherited(primary) == IF primary = <<>> THEN 0 ELSE VirtualMethodCount(primary[1].offsets)

Memory(f, o, found, primary) ==
  LET puts == TablePuts(f, o, primary) \o MethodPuts(f, o, Inherited(primary), found)
  IN  [w \in 0 .. o.total - 1 |-> WordAfter(puts, w)]

----------------------------------------------------------------------------
(* impl_load_class, from the point where its superclass is known.           *)

Primary == IF classes = <<>> THEN <<>> ELSE <<classes[Len(classes)]>>

InheritedCounts(primary) ==
  IF primary = <<>> THEN [t \in Datatypes |-> 0]
  ELSE InheritedVariableCounts(primary[1].layout)

(* A slip: the counts of the superclass forgotten.                          *)
InstanceCountsOwn(f, primary) == CountOf(f.fields)

InstanceCounts(f, primary) ==
  [t \in Datatypes |-> InheritedCounts(primary)[t] + CountOf(f.fields)[t]]

(* data_idx of the k-th instance field: its number among those of its type. *)
FieldIndex(f, primary, k) ==
  InheritedCounts(primary)[f.fields[k]]
    + Cardinality({j \in 1 .. k - 1 : f.fields[j] = f.fields[k]})

Class(f, primary, found) ==
  LET inherited == Inherited(primary)
      offsets   == TableOffsets(f, inherited, found)
  IN  [file    |-> f,
       offsets |-> offsets,
       static  |-> StaticHeader(f),
       layout  |-> SetInstanceVariableCounts(InstanceCounts(f, primary)),
       indices |-> [k \in DOMAIN f.fields |-> FieldIndex(f, primary, k)],
       slots   |-> [k \in Virtual(f) |-> VmtIndex(f, inherited, found, k)],
       class_size |-> 0,
       memory  |-> Memory(f, offsets, found, primary)]

Load(f) ==
  /\ Len(classes) < MaxClasses
  /\ \E found \in [Virtual(f) -> IF classes = <<>> THEN {NoIndex} ELSE Answers \cup {NoIndex}] :
       classes' = Append(classes, Class(f, Primary, found))

Init == classes = <<>>

Next == \E f \in Files : Load(f)

Spec == Init /\ [][Next]_vars

----------------------------------------------------------------------------
(* Reading back.                                                            *)

(* The words of an object the collector follows.                            *)
PointerWords(class) == {i \in 0 .. class.layout.offset[DOUBLE] - 1 : (i % 8) = 0}

----------------------------------------------------------------------------
(* Properties.                                                              *)

(* The fields of an instance of the n-th class, by what the export of the   *)
(* class that declares them says: <<class, number, index, type>>.           *)
FieldsDeclared(m) ==
  {<<m, k, classes[m].indices[k], classes[m].file.fields[k]>> : k \in DOMAIN classes[m].file.fields}

FieldsOf(n) == UNION {FieldsDeclared(m) : m \in 1 .. n}

Occupied(n, field) == FieldBytes(classes[n].layout, field[3], field[4])

(* The static region, the table of virtual methods and the import tables    *)
(* have room for what is written there, the superclass's table included.    *)
RegionsHold ==
  \A n \in DOMAIN classes :
    LET o == classes[n].offsets
        f == classes[n].file
    IN  /\ \A k \in DOMAIN f.statics :
             StaticSlot(f, k) \subseteq 0 .. 8 * (o.vmt - HeaderWords) - 1
        /\ n > 1 => VirtualMethodCount(o) >= VirtualMethodCount(classes[n - 1].offsets)
        /\ 8 * (o.field_import - o.class_import) >= 4 * f.class_references
        /\ o.exports - o.field_import >= Len(ImportWords(f))
        /\ o.bytecodes + MethodWords(f) <= o.string_pool

(* A field of a superclass is found, in an object of any class below it, by *)
(* the index the superclass exported: no two fields of an object share a    *)
(* byte, and none ends outside it.                                          *)
FieldsDisjoint ==
  \A n \in DOMAIN classes :
    \A a \in FieldsOf(n) :
      /\ Occupied(n, a) \subseteq 0 .. classes[n].layout.total - 1
      /\ \A b \in FieldsOf(n) : a # b => Occupied(n, a) \cap Occupied(n, b) = {}

(* Every field lies at a multiple of its size, however the types of a class *)
(* and its superclasses are mixed.                                          *)
FieldsAligned ==
  \A n \in DOMAIN classes :
    \A a \in FieldsOf(n) :
      (InstanceOffset(classes[n].layout, a[3], a[4]) % datatype_size[a[4]]) = 0

(* The words of an object the collector reads as pointers are its pointer   *)
(* fields, inherited ones included: none is missed, and no number is taken  *)
(* for a pointer.                                                           *)
PointerWordsAreFields ==
  \A n \in DOMAIN classes :
    PointerWords(classes[n]) =
      {InstanceOffset(classes[n].layout, a[3], OBJECT) : a \in {b \in FieldsOf(n) : b[4] = OBJECT}}

(* A class without fields of its own whose virtual methods get slots of its *)
(* table.                                                                   *)
Regular(class) ==
  /\ class.file.statics = <<>> /\ class.file.fields = <<>>
  /\ \A k \in Virtual(class.file) : class.slots[k] < VirtualMethodCount(class.offsets)

(* A regular class holds, when all is written, in every region what was     *)
(* written there: the method loop writes after and between the bulk copies. *)
WordsIntact ==
  \A n \in DOMAIN classes :
    LET o == classes[n].offsets
        f == classes[n].file
        Holds(at, words) ==
          \A w \in DOMAIN words : classes[n].memory[at + w - 1] = words[w]
    IN  Regular(classes[n]) =>
          /\ Holds(o.class_import, Filled("class", WordsOf(4 * f.class_references)))
          /\ Holds(o.field_import, ImportWords(f))
          /\ Holds(o.exports, ExportSequence(f))
          /\ Holds(o.bytecodes, Bytecodes(f))
          /\ Holds(o.string_pool, Filled("string", f.string_words))

(* The regions compute_class_sizes reserves are where the writers of        *)
(* class_writer put things: each has room, and none reaches into another.   *)
RegionsSound == RegionsHold /\ WordsIntact
=============================================================================
