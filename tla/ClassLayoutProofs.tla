------------------------- MODULE ClassLayoutProofs -------------------------
(***************************************************************************)
(* Theorems about what a class holds: the fields of its objects, for every  *)
(* set of class files and hierarchies of every depth, the order of its      *)
(* exports, for names of any length, and the regions of its memory.         *)
(* And about what it is read from and found by, for files, tables and       *)
(* chains of superclasses of any length: walks that end, and a search that  *)
(* answers the name asked for or stops short of it.                         *)
(***************************************************************************)
EXTENDS ClassLayout, PureFunctions, FiniteSetTheorems, FunctionTheorems, WellFoundedInduction,
        TLAPS

----------------------------------------------------------------------------
(* One layout.                                                              *)

(* The widths of the datatypes.                                            *)
LEMMA Sizes ==
  /\ datatype_size[BYTE] = 1 /\ datatype_size[SHORT] = 2
  /\ datatype_size[INT] = 4 /\ datatype_size[FLOAT] = 4
  /\ datatype_size[LONG] = 8 /\ datatype_size[DOUBLE] = 8 /\ datatype_size[OBJECT] = 8
BY DEF datatype_size, Datatypes, BYTE, SHORT, INT, FLOAT, LONG, DOUBLE, OBJECT

(* Each section begins where the one before it ends, pointers first.        *)
LEMMA LayoutOffsets ==
  ASSUME NEW counts \in Counts
  PROVE  LET layout == SetInstanceVariableCounts(counts)
         IN  /\ layout.offset[OBJECT] = 0
             /\ layout.offset[DOUBLE] = Bytes(counts, OBJECT)
             /\ layout.offset[LONG] = layout.offset[DOUBLE] + Bytes(counts, DOUBLE)
             /\ layout.offset[FLOAT] = layout.offset[LONG] + Bytes(counts, LONG)
             /\ layout.offset[INT] = layout.offset[FLOAT] + Bytes(counts, FLOAT)
             /\ layout.offset[SHORT] = layout.offset[INT] + Bytes(counts, INT)
             /\ layout.offset[BYTE] = layout.offset[SHORT] + Bytes(counts, SHORT)
             /\ layout.total = layout.offset[BYTE] + Bytes(counts, BYTE)
BY DEF SetInstanceVariableCounts, Datatypes, BYTE, SHORT, INT, FLOAT, LONG, DOUBLE, OBJECT

(* The bytes each type of field takes.                                      *)
LEMMA BytesValues ==
  ASSUME NEW counts \in Counts
  PROVE  /\ Bytes(counts, BYTE) = counts[BYTE] /\ Bytes(counts, SHORT) = counts[SHORT] * 2
         /\ Bytes(counts, INT) = counts[INT] * 4 /\ Bytes(counts, FLOAT) = counts[FLOAT] * 4
         /\ Bytes(counts, LONG) = counts[LONG] * 8 /\ Bytes(counts, DOUBLE) = counts[DOUBLE] * 8
         /\ Bytes(counts, OBJECT) = counts[OBJECT] * 8
         /\ \A t \in Datatypes : counts[t] \in Nat
<1>1. \A t \in Datatypes : counts[t] \in Nat
  BY DEF Counts
<1> QED BY <1>1, Sizes DEF Bytes, Datatypes, BYTE, SHORT, INT, FLOAT, LONG, DOUBLE, OBJECT

(* Every width is one of four.                                              *)
LEMMA SizeValues == \A t \in Datatypes : datatype_size[t] \in {1, 2, 4, 8}
BY Sizes DEF Datatypes, BYTE, SHORT, INT, FLOAT, LONG, DOUBLE, OBJECT

(* The sections follow each other: one ends where its fields end, and the   *)
(* section of a wider type ends before that of a narrower one begins.       *)
LEMMA SectionsFollow ==
  ASSUME NEW counts \in Counts, NEW t \in Datatypes
  PROVE  LET layout == SetInstanceVariableCounts(counts)
         IN  /\ layout.offset[t] \in Nat
             /\ SectionEnd(layout, t) = layout.offset[t] + Bytes(counts, t)
             /\ SectionEnd(layout, t) <= layout.total
             /\ \A u \in Datatypes : u < t => SectionEnd(layout, t) <= layout.offset[u]
<1> DEFINE layout == SetInstanceVariableCounts(counts)
<1>1. /\ layout.offset[6] = 0
      /\ layout.offset[5] = Bytes(counts, 6)
      /\ layout.offset[4] = layout.offset[5] + Bytes(counts, 5)
      /\ layout.offset[3] = layout.offset[4] + Bytes(counts, 4)
      /\ layout.offset[2] = layout.offset[3] + Bytes(counts, 3)
      /\ layout.offset[1] = layout.offset[2] + Bytes(counts, 2)
      /\ layout.offset[0] = layout.offset[1] + Bytes(counts, 1)
      /\ layout.total = layout.offset[0] + Bytes(counts, 0)
  BY LayoutOffsets DEF BYTE, SHORT, INT, FLOAT, LONG, DOUBLE, OBJECT
<1>2. \A u \in Datatypes : Bytes(counts, u) \in Nat
  BY SizeValues DEF Bytes, Counts
<1> HIDE DEF layout
<1>3. t \in {0, 1, 2, 3, 4, 5, 6} /\ \A u \in Datatypes : u \in {0, 1, 2, 3, 4, 5, 6}
  BY DEF Datatypes
<1>4. \A u \in {0, 1, 2, 3, 4, 5, 6} : Bytes(counts, u) \in Nat
  BY <1>2 DEF Datatypes
<1>5. \A u \in {0, 1, 2, 3, 4, 5, 6} : layout.offset[u] \in Nat
  BY <1>1, <1>4
<1>6. SectionEnd(layout, t) = layout.offset[t] + Bytes(counts, t)
  BY <1>1, <1>3, <1>4, <1>5 DEF SectionEnd, BYTE
<1>7. SectionEnd(layout, t) <= layout.total
  <2>1. \A u \in {0, 1, 2, 3, 4, 5, 6} : layout.offset[u] + Bytes(counts, u) <= layout.total
    BY <1>1, <1>4, <1>5
  <2> QED BY <1>3, <1>6, <2>1
<1>8. \A u \in Datatypes : u < t => SectionEnd(layout, t) <= layout.offset[u]
  BY <1>1, <1>3, <1>4, <1>5, <1>6
<1>9. layout.offset[t] \in Nat
  BY <1>3, <1>5
<1> QED BY <1>6, <1>7, <1>8, <1>9 DEF layout

(* The number of fields of a type can be read back.                         *)
THEOREM CountsReadBack ==
  ASSUME NEW counts \in Counts
  PROVE  InheritedVariableCounts(SetInstanceVariableCounts(counts)) = counts
<1> DEFINE layout == SetInstanceVariableCounts(counts)
<1>1. SUFFICES ASSUME NEW t \in Datatypes
               PROVE  (SectionEnd(layout, t) - layout.offset[t]) \div datatype_size[t] = counts[t]
  BY DEF InheritedVariableCounts, Counts
<1>2. SectionEnd(layout, t) - layout.offset[t] = counts[t] * datatype_size[t]
  <2>1. Bytes(counts, t) \in Nat
    BY SizeValues DEF Bytes, Counts
  <2> QED BY SectionsFollow, <2>1 DEF Bytes
<1>3. counts[t] \in Nat /\ datatype_size[t] \in {1, 2, 4, 8}
  BY SizeValues DEF Counts
<1> QED BY <1>2, <1>3

(* A field lies within the section of its type.                             *)
LEMMA FieldInSection ==
  ASSUME NEW counts \in Counts, NEW t \in Datatypes, NEW i \in Nat, i < counts[t]
  PROVE  LET layout == SetInstanceVariableCounts(counts)
         IN  FieldBytes(layout, i, t) \subseteq layout.offset[t] .. SectionEnd(layout, t) - 1
<1> DEFINE layout == SetInstanceVariableCounts(counts)
<1>1. counts[t] \in Nat /\ datatype_size[t] \in {1, 2, 4, 8}
  BY SizeValues DEF Counts
<1>2. /\ layout.offset[t] \in Nat
      /\ SectionEnd(layout, t) = layout.offset[t] + counts[t] * datatype_size[t]
  BY SectionsFollow DEF Bytes
<1> HIDE DEF layout
<1>3. /\ i * datatype_size[t] \in Nat /\ counts[t] * datatype_size[t] \in Nat
      /\ i * datatype_size[t] + datatype_size[t] <= counts[t] * datatype_size[t]
  BY <1>1
<1>4. SUFFICES layout.offset[t] + i * datatype_size[t] + datatype_size[t] - 1
                 <= SectionEnd(layout, t) - 1
  BY <1>1, <1>2, <1>3 DEF FieldBytes, InstanceOffset, layout
<1> QED BY <1>1, <1>2, <1>3

(* Different fields, of whatever types, share no byte.                      *)
LEMMA FieldsApart ==
  ASSUME NEW counts \in Counts,
         NEW t \in Datatypes, NEW i \in Nat, i < counts[t],
         NEW u \in Datatypes, NEW j \in Nat, j < counts[u],
         t # u \/ i # j
  PROVE  LET layout == SetInstanceVariableCounts(counts)
         IN  FieldBytes(layout, i, t) \cap FieldBytes(layout, j, u) = {}
<1> DEFINE layout == SetInstanceVariableCounts(counts)
<1>1. /\ counts[t] \in Nat /\ datatype_size[t] \in {1, 2, 4, 8}
      /\ layout.offset[t] \in Nat /\ layout.offset[u] \in Nat
  BY SizeValues, SectionsFollow DEF Counts
<1>2. CASE t = u
  <2>1. i # j
    BY <1>2
  <2> HIDE DEF layout
  <2>2. \/ i * datatype_size[t] + datatype_size[t] <= j * datatype_size[t]
        \/ j * datatype_size[t] + datatype_size[t] <= i * datatype_size[t]
    BY <1>1, <2>1
  <2>3. i * datatype_size[t] \in Nat /\ j * datatype_size[t] \in Nat
    BY <1>1
  <2>4. FieldBytes(layout, i, t) \cap FieldBytes(layout, j, t) = {}
    BY <1>1, <2>2, <2>3 DEF FieldBytes, InstanceOffset
  <2> QED BY <1>2, <2>4 DEF layout
<1>3. CASE t # u
  <2>1. /\ FieldBytes(layout, i, t) \subseteq layout.offset[t] .. SectionEnd(layout, t) - 1
        /\ FieldBytes(layout, j, u) \subseteq layout.offset[u] .. SectionEnd(layout, u) - 1
    BY FieldInSection
  <2>2. SectionEnd(layout, t) <= layout.offset[u] \/ SectionEnd(layout, u) <= layout.offset[t]
    BY <1>3, SectionsFollow DEF Datatypes
  <2>3. SectionEnd(layout, t) \in Nat /\ SectionEnd(layout, u) \in Nat
    <3>1. Bytes(counts, t) \in Nat /\ Bytes(counts, u) \in Nat
      BY SizeValues DEF Bytes, Counts
    <3> QED BY <3>1, SectionsFollow
  <2> HIDE DEF layout
  <2>4. FieldBytes(layout, i, t) \cap FieldBytes(layout, j, u) = {}
    BY <1>1, <2>1, <2>2, <2>3
  <2> QED BY <2>4 DEF layout
<1> QED BY <1>2, <1>3

----------------------------------------------------------------------------
(* The numbers of the fields.                                               *)

EarlierOfType(types, k) == {j \in 1 .. k - 1 : types[j] = types[k]}

(* Counting the fields of a class file by type gives a number for each.     *)
LEMMA CountOfType ==
  ASSUME NEW types \in Seq(Datatypes)
  PROVE  CountOf(types) \in Counts
<1>1. SUFFICES ASSUME NEW t \in Datatypes
               PROVE  Cardinality({i \in DOMAIN types : types[i] = t}) \in Nat
  BY DEF CountOf, Counts
<1>2. IsFiniteSet(1 .. Len(types)) /\ DOMAIN types = 1 .. Len(types)
  BY FS_Interval
<1>3. IsFiniteSet({i \in DOMAIN types : types[i] = t})
  BY <1>2, FS_Subset, {i \in DOMAIN types : types[i] = t} \subseteq 1 .. Len(types)
<1> QED BY <1>3, FS_CardinalityType

(* Two sets of which one is a proper part of the other differ in size.      *)
LEMMA ProperPart ==
  ASSUME NEW S, NEW T, IsFiniteSet(T), S \subseteq T, NEW x \in T, x \notin S
  PROVE  /\ Cardinality(S) \in Nat /\ Cardinality(T) \in Nat
         /\ Cardinality(S) < Cardinality(T)
<1>1. /\ IsFiniteSet(S) /\ Cardinality(S) <= Cardinality(T)
      /\ Cardinality(S) = Cardinality(T) => S = T
  BY FS_Subset
<1>2. Cardinality(S) \in Nat /\ Cardinality(T) \in Nat
  BY <1>1, FS_CardinalityType
<1>3. S # T
  OBVIOUS
<1> QED BY <1>1, <1>2, <1>3

(* Fields of a type are numbered upwards from 0, below their count.         *)
LEMMA Numbering ==
  ASSUME NEW types \in Seq(Datatypes), NEW k \in DOMAIN types
  PROVE  /\ Cardinality(EarlierOfType(types, k)) \in Nat
         /\ Cardinality(EarlierOfType(types, k)) < CountOf(types)[types[k]]
         /\ \A j \in 1 .. k - 1 :
              types[j] = types[k] =>
                Cardinality(EarlierOfType(types, j)) < Cardinality(EarlierOfType(types, k))
<1> DEFINE all == {i \in DOMAIN types : types[i] = types[k]}
<1>1. DOMAIN types = 1 .. Len(types) /\ k \in 1 .. Len(types) /\ Len(types) \in Nat
  OBVIOUS
<1>2. IsFiniteSet(1 .. Len(types)) /\ all \subseteq 1 .. Len(types)
  BY <1>1, FS_Interval
<1>3. IsFiniteSet(all)
  BY <1>2, FS_Subset
<1>4. EarlierOfType(types, k) \subseteq all /\ k \in all /\ k \notin EarlierOfType(types, k)
  BY <1>1 DEF EarlierOfType
<1>5. IsFiniteSet(EarlierOfType(types, k))
  BY <1>3, <1>4, FS_Subset
<1>6. Cardinality(all) = CountOf(types)[types[k]]
  <2>1. types[k] \in Datatypes
    OBVIOUS
  <2> QED BY <2>1 DEF CountOf
<1>7. ASSUME NEW j \in 1 .. k - 1, types[j] = types[k]
      PROVE  Cardinality(EarlierOfType(types, j)) < Cardinality(EarlierOfType(types, k))
  <2>1. /\ EarlierOfType(types, j) \subseteq EarlierOfType(types, k)
        /\ j \in EarlierOfType(types, k) /\ j \notin EarlierOfType(types, j)
    BY <1>1, <1>7 DEF EarlierOfType
  <2> QED BY <1>5, <2>1, ProperPart
<1> HIDE DEF all
<1>8. /\ Cardinality(EarlierOfType(types, k)) \in Nat
      /\ Cardinality(EarlierOfType(types, k)) < Cardinality(all)
  BY <1>3, <1>4, ProperPart
<1> QED BY <1>6, <1>7, <1>8

----------------------------------------------------------------------------
(* A hierarchy of classes.                                                  *)

CountsOf(n) == InheritedVariableCounts(classes[n].layout)

(* The layout of a class is determined by counts of its fields, the numbers *)
(* of all fields of its instances are below those, and those of one type    *)
(* are distinct.  FieldsDisjoint alone is not inductive: that a new field   *)
(* misses the inherited ones needs the inherited numbers to be bounded.     *)
LayoutInv ==
  /\ \E S : classes \in Seq(S)
  /\ \A n \in DOMAIN classes :
       /\ CountsOf(n) \in Counts
       /\ classes[n].layout = SetInstanceVariableCounts(CountsOf(n))
       /\ \A a \in FieldsOf(n) :
            /\ a[3] \in Nat /\ a[4] \in Datatypes /\ a[3] < CountsOf(n)[a[4]]
            /\ \A b \in FieldsOf(n) : a # b /\ a[4] = b[4] => a[3] # b[3]

(* What the fields declared by a new class are numbered.                    *)
LEMMA OwnFields ==
  ASSUME ClassFilesAssumption, NEW f \in Files, NEW primary,
         InheritedCounts(primary) \in Counts
  PROVE  /\ InstanceCounts(f, primary) \in Counts
         /\ f.fields \in Seq(Datatypes)
         /\ \A t \in Datatypes : InheritedCounts(primary)[t] <= InstanceCounts(f, primary)[t]
         /\ \A k \in DOMAIN f.fields :
              /\ FieldIndex(f, primary, k) \in Nat
              /\ FieldIndex(f, primary, k) >= InheritedCounts(primary)[f.fields[k]]
              /\ FieldIndex(f, primary, k) < InstanceCounts(f, primary)[f.fields[k]]
              /\ \A j \in DOMAIN f.fields :
                   j # k /\ f.fields[j] = f.fields[k] =>
                     FieldIndex(f, primary, j) # FieldIndex(f, primary, k)
<1> DEFINE own == CountOf(f.fields)
           earlier(k) == Cardinality(EarlierOfType(f.fields, k))
<1>1. f.fields \in Seq(Datatypes)
  BY DEF ClassFilesAssumption
<1>2. own \in Counts
  BY <1>1, CountOfType
<1>3. \A t \in Datatypes : /\ InheritedCounts(primary)[t] \in Nat /\ own[t] \in Nat
                           /\ InstanceCounts(f, primary)[t] = InheritedCounts(primary)[t] + own[t]
  BY <1>2 DEF InstanceCounts, Counts
<1>4. InstanceCounts(f, primary) \in Counts
  BY <1>3 DEF InstanceCounts, Counts
<1>5. \A k \in DOMAIN f.fields :
        FieldIndex(f, primary, k) = InheritedCounts(primary)[f.fields[k]] + earlier(k)
  BY DEF FieldIndex, EarlierOfType
<1>6. \A k \in DOMAIN f.fields :
        /\ earlier(k) \in Nat /\ earlier(k) < own[f.fields[k]] /\ f.fields[k] \in Datatypes
        /\ \A j \in 1 .. k - 1 : f.fields[j] = f.fields[k] => earlier(j) < earlier(k)
  <2>1. TAKE k \in DOMAIN f.fields
  <2>2. f.fields[k] \in Datatypes
    BY <1>1
  <2>3. /\ earlier(k) \in Nat /\ earlier(k) < own[f.fields[k]]
        /\ \A j \in 1 .. k - 1 : f.fields[j] = f.fields[k] => earlier(j) < earlier(k)
    BY <1>1, Numbering, Zenon
  <2> QED
    BY <2>2, <2>3
<1> HIDE DEF earlier, own
<1>7. ASSUME NEW k \in DOMAIN f.fields, NEW j \in DOMAIN f.fields,
             j # k, f.fields[j] = f.fields[k]
      PROVE  FieldIndex(f, primary, j) # FieldIndex(f, primary, k)
  <2>1. j \in 1 .. k - 1 \/ k \in 1 .. j - 1
    <3>1. DOMAIN f.fields = 1 .. Len(f.fields) /\ Len(f.fields) \in Nat
      BY <1>1
    <3>2. k \in Nat \ {0} /\ j \in Nat \ {0}
      BY <3>1
    <3> QED
      BY <1>7, <3>2
  <2>2. earlier(j) # earlier(k)
    <3>1. earlier(j) \in Nat /\ earlier(k) \in Nat
      BY <1>6
    <3>2. j \in 1 .. k - 1 => earlier(j) < earlier(k)
      BY <1>6, <1>7
    <3>3. k \in 1 .. j - 1 => earlier(k) < earlier(j)
      BY <1>6, <1>7
    <3> QED
      BY <2>1, <3>1, <3>2, <3>3
  <2>3. PICK base \in Nat : base = InheritedCounts(primary)[f.fields[k]]
    <3>1. f.fields[k] \in Datatypes
      BY <1>1
    <3> QED
      BY <1>3, <3>1
  <2>4. FieldIndex(f, primary, j) = base + earlier(j) /\ FieldIndex(f, primary, k) = base + earlier(k)
    BY <1>5, <1>7, <2>3
  <2>5. earlier(j) \in Nat /\ earlier(k) \in Nat
    BY <1>6
  <2> QED BY <2>2, <2>3, <2>4, <2>5
<1>8. ASSUME NEW k \in DOMAIN f.fields
      PROVE  /\ FieldIndex(f, primary, k) \in Nat
             /\ FieldIndex(f, primary, k) >= InheritedCounts(primary)[f.fields[k]]
             /\ FieldIndex(f, primary, k) < InstanceCounts(f, primary)[f.fields[k]]
  <2>1. /\ f.fields[k] \in Datatypes /\ earlier(k) \in Nat /\ earlier(k) < own[f.fields[k]]
        /\ FieldIndex(f, primary, k) = InheritedCounts(primary)[f.fields[k]] + earlier(k)
    BY <1>5, <1>6
  <2>2. /\ InheritedCounts(primary)[f.fields[k]] \in Nat /\ own[f.fields[k]] \in Nat
        /\ InstanceCounts(f, primary)[f.fields[k]]
             = InheritedCounts(primary)[f.fields[k]] + own[f.fields[k]]
    BY <1>3, <2>1
  <2> QED BY <2>1, <2>2
<1>9. \A t \in Datatypes : InheritedCounts(primary)[t] <= InstanceCounts(f, primary)[t]
  BY <1>3
<1> QED BY <1>1, <1>4, <1>7, <1>8, <1>9

(* Loading a class leaves those before it as they were.                     *)
LEMMA Appended ==
  ASSUME NEW class, \E S : classes \in Seq(S), classes' = Append(classes, class)
  PROVE  /\ Len(classes) \in Nat /\ DOMAIN classes = 1 .. Len(classes)
         /\ DOMAIN classes' = 1 .. Len(classes) + 1
         /\ \A n \in 1 .. Len(classes) : classes'[n] = classes[n]
         /\ classes'[Len(classes) + 1] = class
         /\ \E S : classes' \in Seq(S)
<1>1. PICK S : classes \in Seq(S)
  OBVIOUS
<1>2. classes \in Seq(S \cup {class})
  BY <1>1
<1>3. classes' \in Seq(S \cup {class})
  BY <1>2
<1> QED BY <1>2, <1>3

(* A class loaded upon the last one keeps LayoutInv.                        *)
LEMMA LoadKeepsLayout ==
  ASSUME ClassFilesAssumption, LayoutInv, NEW f \in Files, Load(f)
  PROVE  LayoutInv'
<1> PICK N : N = Len(classes)
  OBVIOUS
<1> DEFINE counts    == InstanceCounts(f, Primary)
           inherited == InheritedCounts(Primary)
           own       == {<<N + 1, k, FieldIndex(f, Primary, k), f.fields[k]>> : k \in DOMAIN f.fields}
<1>1. PICK found : classes' = Append(classes, Class(f, Primary, found))
  BY DEF Load
<1>2. /\ Class(f, Primary, found).layout = SetInstanceVariableCounts(counts)
      /\ Class(f, Primary, found).file = f
      /\ Class(f, Primary, found).indices = [k \in DOMAIN f.fields |-> FieldIndex(f, Primary, k)]
  BY DEF Class
<1>3. /\ N \in Nat /\ DOMAIN classes = 1 .. N /\ DOMAIN classes' = 1 .. N + 1
      /\ \A n \in 1 .. N : classes'[n] = classes[n]
      /\ classes'[N + 1] = Class(f, Primary, found)
      /\ \E S : classes' \in Seq(S)
  BY <1>1, Appended DEF LayoutInv
<1>4. \A n \in 1 .. N : CountsOf(n)' = CountsOf(n) /\ FieldsDeclared(n)' = FieldsDeclared(n)
  BY <1>3 DEF CountsOf, FieldsDeclared
<1>4b. ASSUME NEW n \in 0 .. N
       PROVE  FieldsOf(n)' = FieldsOf(n)
  <2>1. \A m \in 1 .. n : FieldsDeclared(m)' = FieldsDeclared(m)
    BY <1>3, <1>4
  <2> QED BY <2>1 DEF FieldsOf
<1>5. /\ inherited \in Counts
      /\ N = 0 => FieldsOf(N) = {}
      /\ N # 0 => inherited = CountsOf(N)
  <2>1. CASE classes = <<>>
    <3>1. inherited = [t \in Datatypes |-> 0] /\ N = 0
      BY <2>1 DEF Primary, InheritedCounts
    <3>2. FieldsOf(0) = {}
      BY DEF FieldsOf
    <3> QED BY <3>1, <3>2 DEF Counts
  <2>2. CASE classes # <<>>
    <3>1. N # 0 /\ N \in DOMAIN classes
      BY <1>3, <2>2 DEF LayoutInv
    <3>2. inherited = CountsOf(N)
      BY <2>2 DEF Primary, InheritedCounts, CountsOf
    <3> QED BY <3>1, <3>2 DEF LayoutInv
  <2> QED BY <2>1, <2>2
<1>6. /\ counts \in Counts /\ DOMAIN f.fields = 1 .. Len(f.fields)
      /\ \A k \in DOMAIN f.fields : f.fields[k] \in Datatypes
      /\ \A t \in Datatypes : inherited[t] <= counts[t]
      /\ \A a \in own : /\ a[3] \in Nat /\ a[4] \in Datatypes
                        /\ inherited[a[4]] <= a[3] /\ a[3] < counts[a[4]]
      /\ \A a, b \in own : a # b /\ a[4] = b[4] => a[3] # b[3]
  <2>1. /\ counts \in Counts /\ f.fields \in Seq(Datatypes)
        /\ \A t \in Datatypes : inherited[t] <= counts[t]
    BY <1>5, OwnFields
  <2>2. \A k \in DOMAIN f.fields :
          /\ FieldIndex(f, Primary, k) \in Nat
          /\ FieldIndex(f, Primary, k) >= inherited[f.fields[k]]
          /\ FieldIndex(f, Primary, k) < counts[f.fields[k]]
          /\ \A j \in DOMAIN f.fields :
               j # k /\ f.fields[j] = f.fields[k] =>
                 FieldIndex(f, Primary, j) # FieldIndex(f, Primary, k)
    BY <1>5, OwnFields
  <2>3. \A k \in DOMAIN f.fields : f.fields[k] \in Datatypes /\ inherited[f.fields[k]] \in Nat
    BY <1>5, <2>1 DEF Counts
  <2> HIDE DEF counts, inherited
  <2>4. ASSUME NEW k \in DOMAIN f.fields
        PROVE  LET a == <<N + 1, k, FieldIndex(f, Primary, k), f.fields[k]>>
               IN  /\ a[3] \in Nat /\ a[4] \in Datatypes
                   /\ inherited[a[4]] <= a[3] /\ a[3] < counts[a[4]]
    BY <2>2, <2>3
  <2>5. \A a \in own : /\ a[3] \in Nat /\ a[4] \in Datatypes
                      /\ inherited[a[4]] <= a[3] /\ a[3] < counts[a[4]]
    BY <2>4
  <2>6. ASSUME NEW a \in own, NEW b \in own, a # b, a[4] = b[4]
        PROVE  a[3] # b[3]
    <3>1. PICK j \in DOMAIN f.fields : a = <<N + 1, j, FieldIndex(f, Primary, j), f.fields[j]>>
      OBVIOUS
    <3>2. PICK k \in DOMAIN f.fields : b = <<N + 1, k, FieldIndex(f, Primary, k), f.fields[k]>>
      OBVIOUS
    <3> QED BY <2>2, <2>6, <3>1, <3>2
  <2>7. DOMAIN f.fields = 1 .. Len(f.fields)
    BY <2>1
  <2> QED BY <2>1, <2>3, <2>5, <2>6, <2>7
<1>7. FieldsOf(N + 1)' = FieldsOf(N) \cup own
  <2>1. FieldsDeclared(N + 1)' = own
    BY <1>2, <1>3 DEF FieldsDeclared
  <2>2. FieldsOf(N + 1)' = FieldsOf(N)' \cup FieldsDeclared(N + 1)'
    BY <1>3 DEF FieldsOf
  <2> QED BY <1>3, <1>4b, <2>1, <2>2
<1>8. CountsOf(N + 1)' = counts
  BY <1>2, <1>3, <1>6, CountsReadBack DEF CountsOf
<1>9. \A a \in FieldsOf(N) :
        /\ a[3] \in Nat /\ a[4] \in Datatypes /\ a[3] < inherited[a[4]]
        /\ \A b \in FieldsOf(N) : a # b /\ a[4] = b[4] => a[3] # b[3]
  BY <1>3, <1>5 DEF LayoutInv
<1> HIDE DEF counts, inherited, own
<1>10. \A a \in FieldsOf(N) \cup own :
         /\ a[3] \in Nat /\ a[4] \in Datatypes /\ a[3] < counts[a[4]]
         /\ \A b \in FieldsOf(N) \cup own : a # b /\ a[4] = b[4] => a[3] # b[3]
  <2>1. \A t \in Datatypes : inherited[t] \in Nat /\ counts[t] \in Nat
    BY <1>5, <1>6 DEF Counts
  <2>2. ASSUME NEW a \in FieldsOf(N), NEW b \in own, a[4] = b[4]
        PROVE  a[3] < b[3]
    BY <1>6, <1>9, <2>1, <2>2
  <2> QED BY <1>6, <1>9, <2>1, <2>2
<1>11. ASSUME NEW n \in 1 .. N + 1
       PROVE  /\ CountsOf(n)' \in Counts
              /\ (classes[n].layout = SetInstanceVariableCounts(CountsOf(n)))'
              /\ (\A a \in FieldsOf(n) :
                     /\ a[3] \in Nat /\ a[4] \in Datatypes /\ a[3] < CountsOf(n)[a[4]]
                     /\ \A b \in FieldsOf(n) : a # b /\ a[4] = b[4] => a[3] # b[3])'
  <2>1. CASE n \in 1 .. N
    BY <1>3, <1>4, <1>4b, <2>1 DEF LayoutInv
  <2>2. CASE n = N + 1
    BY <1>2, <1>3, <1>6, <1>7, <1>8, <1>10, <2>2
  <2> QED BY <1>3, <2>1, <2>2
<1> QED BY <1>3, <1>11 DEF LayoutInv

(* Every layout is that of its counts, and fields of a type are numbered    *)
(* apart, however many classes are loaded on top of each other.             *)
THEOREM LayoutInvariance == Spec => []LayoutInv
<1>1. Init => LayoutInv
  BY DEF Init, LayoutInv
<1>2. LayoutInv /\ [Next]_vars => LayoutInv'
  <2>1. ASSUME LayoutInv, NEW f \in Files, Load(f)
        PROVE  LayoutInv'
    BY <2>1, LoadKeepsLayout, ClassFilesAssumption
  <2>2. ASSUME LayoutInv, UNCHANGED vars
        PROVE  LayoutInv'
    BY <2>2 DEF vars, LayoutInv, CountsOf, FieldsOf, FieldsDeclared
  <2> QED BY <2>1, <2>2 DEF Next
<1> QED BY <1>1, <1>2, PTL DEF Spec

(* class_writer::set_instance_variable_counts and the numbering of fields   *)
(* in impl_load_class: in an object of any class, no two fields share a     *)
(* byte and none ends outside the object, for every set of class files.     *)
THEOREM FieldsKeepApart == Spec => []FieldsDisjoint
<1>1. ASSUME LayoutInv PROVE FieldsDisjoint
  <2>1. SUFFICES ASSUME NEW n \in DOMAIN classes, NEW a \in FieldsOf(n)
                 PROVE  /\ Occupied(n, a) \subseteq 0 .. classes[n].layout.total - 1
                        /\ \A b \in FieldsOf(n) : a # b => Occupied(n, a) \cap Occupied(n, b) = {}
    BY DEF FieldsDisjoint
  <2> DEFINE counts == CountsOf(n)
             layout == SetInstanceVariableCounts(counts)
  <2>2. /\ counts \in Counts /\ classes[n].layout = layout
        /\ \A b \in FieldsOf(n) : b[3] \in Nat /\ b[4] \in Datatypes /\ b[3] < counts[b[4]]
        /\ \A b \in FieldsOf(n) : a # b /\ a[4] = b[4] => a[3] # b[3]
    BY <1>1 DEF LayoutInv
  <2>3. Occupied(n, a) \subseteq 0 .. classes[n].layout.total - 1
    <3>1. FieldBytes(layout, a[3], a[4]) \subseteq layout.offset[a[4]] .. SectionEnd(layout, a[4]) - 1
      BY <2>2, FieldInSection
    <3>2. layout.offset[a[4]] \in Nat /\ SectionEnd(layout, a[4]) <= layout.total
      BY <2>2, SectionsFollow
    <3>3. SectionEnd(layout, a[4]) \in Nat /\ layout.total \in Int
      <4>1. \A t \in Datatypes : Bytes(counts, t) \in Nat /\ layout.offset[t] \in Nat
        BY <2>2, SectionsFollow, SizeValues DEF Bytes, Counts
      <4>2. /\ SectionEnd(layout, a[4]) = layout.offset[a[4]] + Bytes(counts, a[4])
            /\ layout.total = layout.offset[BYTE] + Bytes(counts, BYTE)
        BY <2>2, SectionsFollow, LayoutOffsets
      <4>3. BYTE \in Datatypes /\ a[4] \in Datatypes
        BY <2>2 DEF BYTE, Datatypes
      <4> QED BY <4>1, <4>2, <4>3
    <3> QED BY <2>2, <3>1, <3>2, <3>3 DEF Occupied
  <2>4. ASSUME NEW b \in FieldsOf(n), a # b
        PROVE  Occupied(n, a) \cap Occupied(n, b) = {}
    <3>1. a[4] # b[4] \/ a[3] # b[3]
      BY <2>2, <2>4
    <3>2. FieldBytes(layout, a[3], a[4]) \cap FieldBytes(layout, b[3], b[4]) = {}
      BY <2>2, <3>1, FieldsApart
    <3> QED BY <2>2, <3>2 DEF Occupied
  <2> QED BY <2>3, <2>4
<1> QED BY <1>1, LayoutInvariance, PTL

----------------------------------------------------------------------------
(* Alignment.                                                               *)

(* The section of a type begins at a multiple of its width: the sections    *)
(* before it hold wider fields.                                             *)
LEMMA SectionAligned ==
  ASSUME NEW counts \in Counts, NEW t \in Datatypes, NEW i \in Nat
  PROVE  (InstanceOffset(SetInstanceVariableCounts(counts), i, t) % datatype_size[t]) = 0
<1> DEFINE layout == SetInstanceVariableCounts(counts)
<1>1. /\ layout.offset[6] = 0
      /\ layout.offset[5] = counts[6] * 8
      /\ layout.offset[4] = layout.offset[5] + counts[5] * 8
      /\ layout.offset[3] = layout.offset[4] + counts[4] * 8
      /\ layout.offset[2] = layout.offset[3] + counts[3] * 4
      /\ layout.offset[1] = layout.offset[2] + counts[2] * 4
      /\ layout.offset[0] = layout.offset[1] + counts[1] * 2
  BY LayoutOffsets, BytesValues DEF BYTE, SHORT, INT, FLOAT, LONG, DOUBLE, OBJECT
<1>2. \A u \in {0, 1, 2, 3, 4, 5, 6} : counts[u] \in Nat
  BY BytesValues DEF Datatypes
<1>3. InstanceOffset(layout, i, t) = layout.offset[t] + i * datatype_size[t]
  BY DEF InstanceOffset
<1>4. /\ datatype_size[0] = 1 /\ datatype_size[1] = 2 /\ datatype_size[2] = 4
      /\ datatype_size[3] = 4 /\ datatype_size[4] = 8 /\ datatype_size[5] = 8
      /\ datatype_size[6] = 8
  BY Sizes DEF BYTE, SHORT, INT, FLOAT, LONG, DOUBLE, OBJECT
<1> HIDE DEF layout
<1>5. t \in {0, 1, 2, 3, 4, 5, 6}
  BY DEF Datatypes
<1>6. /\ layout.offset[6] = 8 * 0
      /\ layout.offset[5] = 8 * counts[6]
      /\ layout.offset[4] = 8 * (counts[6] + counts[5])
      /\ layout.offset[3] = 8 * (counts[6] + counts[5] + counts[4])
      /\ layout.offset[2] = 4 * (2 * (counts[6] + counts[5] + counts[4]) + counts[3])
      /\ layout.offset[1] = 2 * (4 * (counts[6] + counts[5] + counts[4]) + 2 * counts[3] + 2 * counts[2])
      /\ layout.offset[0] \in Nat
  BY <1>1, <1>2
<1>7. \E q \in Nat : InstanceOffset(layout, i, t) = datatype_size[t] * q
  <2> DEFINE Multiple(q) == q \in Nat /\ layout.offset[t] + i * datatype_size[t] = datatype_size[t] * q
  <2>1. CASE t = 6
    <3>1. Multiple(i)
      BY <2>1, <1>2, <1>4, <1>6
    <3> QED BY <3>1, <1>3
  <2>2. CASE t = 5
    <3>1. Multiple(counts[6] + i)
      BY <2>2, <1>2, <1>4, <1>6
    <3> QED BY <3>1, <1>3
  <2>3. CASE t = 4
    <3>1. Multiple(counts[6] + counts[5] + i)
      BY <2>3, <1>2, <1>4, <1>6
    <3> QED BY <3>1, <1>3
  <2>4. CASE t = 3
    <3>1. Multiple(2 * (counts[6] + counts[5] + counts[4]) + i)
      BY <2>4, <1>2, <1>4, <1>6
    <3> QED BY <3>1, <1>3
  <2>5. CASE t = 2
    <3>1. Multiple(2 * (counts[6] + counts[5] + counts[4]) + counts[3] + i)
      BY <2>5, <1>2, <1>4, <1>6
    <3> QED BY <3>1, <1>3
  <2>6. CASE t = 1
    <3>1. Multiple(4 * (counts[6] + counts[5] + counts[4]) + 2 * counts[3] + 2 * counts[2] + i)
      BY <2>6, <1>2, <1>4, <1>6
    <3> QED BY <3>1, <1>3
  <2>7. CASE t = 0
    <3>1. Multiple(layout.offset[0] + i)
      BY <2>7, <1>2, <1>4, <1>6
    <3> QED BY <3>1, <1>3
  <2> QED BY <1>5, <2>1, <2>2, <2>3, <2>4, <2>5, <2>6, <2>7
<1>8. datatype_size[t] \in {1, 2, 4, 8}
  BY SizeValues
<1> QED BY <1>7, <1>8 DEF layout

(* Fields of every type lie at multiples of their size, however types and   *)
(* superclasses are mixed: nothing pads the sections, their order does it.  *)
THEOREM FieldsStayAligned == Spec => []FieldsAligned
<1>1. ASSUME LayoutInv PROVE FieldsAligned
  <2>1. SUFFICES ASSUME NEW n \in DOMAIN classes, NEW a \in FieldsOf(n)
                 PROVE  (InstanceOffset(classes[n].layout, a[3], a[4]) % datatype_size[a[4]]) = 0
    BY DEF FieldsAligned
  <2>2. /\ CountsOf(n) \in Counts /\ a[3] \in Nat /\ a[4] \in Datatypes
        /\ classes[n].layout = SetInstanceVariableCounts(CountsOf(n))
    BY <1>1 DEF LayoutInv
  <2> QED BY <2>2, SectionAligned
<1> QED BY <1>1, LayoutInvariance, PTL

----------------------------------------------------------------------------
(* What the collector reads as pointers.                                    *)

(* An injection into a set of the same size leaves nothing out.             *)
LEMMA InjectionOnto ==
  ASSUME NEW S, NEW T, NEW f \in Injection(S, T), IsFiniteSet(T),
         Cardinality(S) = Cardinality(T), NEW y \in T
  PROVE  \E x \in S : f[x] = y
<1>1. f \in Surjection(S, T)
  BY FS_Injection
<1> QED BY <1>1, Fun_SurjectionProperties

(* The numbers of the fields of a type leave none out.                      *)
LEMMA EveryNumberGiven ==
  ASSUME NEW types \in Seq(Datatypes), NEW t \in Datatypes,
         NEW i \in Nat, i < CountOf(types)[t]
  PROVE  \E k \in DOMAIN types : types[k] = t /\ Cardinality(EarlierOfType(types, k)) = i
<1> DEFINE all == {k \in DOMAIN types : types[k] = t}
           c   == Cardinality(all)
           num == [k \in all |-> Cardinality(EarlierOfType(types, k))]
<1>1. c = CountOf(types)[t]
  BY DEF CountOf
<1>2. IsFiniteSet(all) /\ c \in Nat
  <2>1. Len(types) \in Nat /\ DOMAIN types = 1 .. Len(types)
    OBVIOUS
  <2>2. IsFiniteSet(1 .. Len(types)) /\ all \subseteq 1 .. Len(types)
    BY <2>1, FS_Interval
  <2>3. IsFiniteSet(all)
    BY <2>2, FS_Subset
  <2> QED BY <2>3, FS_CardinalityType
<1>3. ASSUME NEW k \in all
      PROVE  /\ num[k] \in 0 .. c - 1
             /\ \A j \in all : j # k => num[j] # num[k]
  <2>1. /\ k \in DOMAIN types /\ types[k] = t
        /\ Cardinality(EarlierOfType(types, k)) \in Nat
        /\ Cardinality(EarlierOfType(types, k)) < CountOf(types)[t]
    BY Numbering
  <2>2. ASSUME NEW j \in all, j # k PROVE num[j] # num[k]
    <3>1. j \in 1 .. k - 1 \/ k \in 1 .. j - 1
      BY <2>2
    <3>2. CASE j \in 1 .. k - 1
      <4>1. Cardinality(EarlierOfType(types, j)) < Cardinality(EarlierOfType(types, k))
        BY <3>2, Numbering
      <4>2. Cardinality(EarlierOfType(types, j)) \in Nat
        BY Numbering
      <4> QED BY <2>1, <4>1, <4>2
    <3>3. CASE k \in 1 .. j - 1
      <4>1. Cardinality(EarlierOfType(types, k)) < Cardinality(EarlierOfType(types, j))
        BY <3>3, Numbering
      <4>2. Cardinality(EarlierOfType(types, j)) \in Nat
        BY Numbering
      <4> QED BY <2>1, <4>1, <4>2
    <3> QED BY <3>1, <3>2, <3>3
  <2>3. num[k] \in 0 .. c - 1
    BY <1>1, <1>2, <2>1
  <2> QED BY <2>2, <2>3
<1>4. num \in Injection(all, 0 .. c - 1)
  <2>1. num \in [all -> 0 .. c - 1]
    BY <1>3
  <2>2. \A a, b \in all : num[a] = num[b] => a = b
    BY <1>3
  <2> HIDE DEF num, all, c
  <2> QED BY <2>1, <2>2, Fun_IsInj
<1>5. Cardinality(0 .. c - 1) = c /\ IsFiniteSet(0 .. c - 1)
  <2> HIDE DEF c
  <2> QED BY <1>2, FS_Interval
<1>6. PICK T : T = 0 .. c - 1
  OBVIOUS
<1>7. i \in T
  BY <1>1, <1>2, <1>6
<1>8. \E k \in all : num[k] = i
  <2>1. num \in Injection(all, T) /\ Cardinality(all) = Cardinality(T) /\ IsFiniteSet(T)
    BY <1>4, <1>5, <1>6
  <2> HIDE DEF num, all, c
  <2> QED BY <1>7, <2>1, InjectionOnto
<1> QED BY <1>8

(* Every number below the count of a type is that of a field of the type.   *)
NumbersGiven ==
  \A n \in DOMAIN classes :
    \A t \in Datatypes, i \in Nat :
      i < CountsOf(n)[t] => \E a \in FieldsOf(n) : a[3] = i /\ a[4] = t

(* A class gives the numbers from its inherited counts on, one after another.*)
LEMMA LoadGivesNumbers ==
  ASSUME ClassFilesAssumption, LayoutInv, NumbersGiven, NEW f \in Files, Load(f)
  PROVE  NumbersGiven'
<1> PICK N : N = Len(classes)
  OBVIOUS
<1> DEFINE counts    == InstanceCounts(f, Primary)
           inherited == InheritedCounts(Primary)
<1>1. PICK found : classes' = Append(classes, Class(f, Primary, found))
  BY DEF Load
<1>2. /\ Class(f, Primary, found).layout = SetInstanceVariableCounts(counts)
      /\ Class(f, Primary, found).file = f
      /\ Class(f, Primary, found).indices = [k \in DOMAIN f.fields |-> FieldIndex(f, Primary, k)]
  BY DEF Class
<1>3. /\ N \in Nat /\ DOMAIN classes = 1 .. N /\ DOMAIN classes' = 1 .. N + 1
      /\ \A n \in 1 .. N : classes'[n] = classes[n]
      /\ classes'[N + 1] = Class(f, Primary, found)
  BY <1>1, Appended DEF LayoutInv
<1>4. \A n \in 1 .. N : CountsOf(n)' = CountsOf(n) /\ FieldsDeclared(n)' = FieldsDeclared(n)
  BY <1>3 DEF CountsOf, FieldsDeclared
<1>5. ASSUME NEW n \in 0 .. N PROVE FieldsOf(n)' = FieldsOf(n)
  <2>1. \A m \in 1 .. n : FieldsDeclared(m)' = FieldsDeclared(m)
    BY <1>3, <1>4
  <2> QED BY <2>1 DEF FieldsOf
<1>6. /\ inherited \in Counts
      /\ N = 0 => \A t \in Datatypes : inherited[t] = 0
      /\ N # 0 => inherited = CountsOf(N)
  <2>1. CASE classes = <<>>
    <3>1. inherited = [t \in Datatypes |-> 0] /\ N = 0
      BY <2>1 DEF Primary, InheritedCounts
    <3> QED BY <3>1 DEF Counts
  <2>2. CASE classes # <<>>
    <3>1. N # 0 /\ N \in DOMAIN classes
      BY <1>3, <2>2 DEF LayoutInv
    <3>2. inherited = CountsOf(N)
      BY <2>2 DEF Primary, InheritedCounts, CountsOf
    <3> QED BY <3>1, <3>2 DEF LayoutInv
  <2> QED BY <2>1, <2>2
<1>7. f.fields \in Seq(Datatypes) /\ counts \in Counts
  BY <1>6, OwnFields
<1>8. CountsOf(N + 1)' = counts
  BY <1>2, <1>3, <1>7, CountsReadBack DEF CountsOf
<1>9. FieldsOf(N + 1)' = FieldsOf(N) \cup FieldsDeclared(N + 1)'
  <2>1. FieldsOf(N + 1)' = FieldsOf(N)' \cup FieldsDeclared(N + 1)'
    BY <1>3 DEF FieldsOf
  <2> QED BY <1>3, <1>5, <2>1
<1>10. FieldsDeclared(N + 1)' =
         {<<N + 1, k, FieldIndex(f, Primary, k), f.fields[k]>> : k \in DOMAIN f.fields}
  BY <1>2, <1>3 DEF FieldsDeclared
<1>11. ASSUME NEW t \in Datatypes, NEW i \in Nat, i < counts[t]
       PROVE  \E a \in FieldsOf(N + 1)' : a[3] = i /\ a[4] = t
  <2>1. CASE i < inherited[t]
    <3>1. N # 0 /\ N \in DOMAIN classes
      BY <1>3, <1>6, <2>1
    <3>2. \E a \in FieldsOf(N) : a[3] = i /\ a[4] = t
      BY <1>6, <2>1, <3>1 DEF NumbersGiven
    <3> QED BY <1>9, <3>2
  <2>2. CASE ~(i < inherited[t])
    <3> DEFINE own == CountOf(f.fields)
    <3>1. inherited[t] \in Nat /\ own[t] \in Nat /\ counts[t] = inherited[t] + own[t]
      BY <1>6, <1>7, CountOfType DEF InstanceCounts, Counts
    <3>2. i - inherited[t] \in Nat /\ i - inherited[t] < own[t]
      BY <1>11, <2>2, <3>1
    <3>3. PICK k \in DOMAIN f.fields :
            f.fields[k] = t /\ Cardinality(EarlierOfType(f.fields, k)) = i - inherited[t]
      BY <1>7, <3>2, EveryNumberGiven
    <3>4. FieldIndex(f, Primary, k) = inherited[t] + Cardinality(EarlierOfType(f.fields, k))
      BY <3>3 DEF FieldIndex, EarlierOfType
    <3>5. FieldIndex(f, Primary, k) = i
      BY <3>1, <3>3, <3>4
    <3>6. <<N + 1, k, i, t>> \in FieldsOf(N + 1)'
      BY <1>9, <1>10, <3>3, <3>5
    <3> QED BY <3>6
  <2> QED BY <2>1, <2>2
<1>12. ASSUME NEW n \in 1 .. N + 1, NEW t \in Datatypes, NEW i \in Nat, i < CountsOf(n)'[t]
       PROVE  \E a \in FieldsOf(n)' : a[3] = i /\ a[4] = t
  <2>1. CASE n \in 1 .. N
    <3>1. i < CountsOf(n)[t] /\ n \in DOMAIN classes /\ FieldsOf(n)' = FieldsOf(n)
      BY <1>3, <1>4, <1>5, <1>12, <2>1
    <3> QED BY <3>1 DEF NumbersGiven
  <2>2. CASE n = N + 1
    BY <1>8, <1>11, <1>12, <2>2
  <2> QED BY <1>3, <2>1, <2>2
<1> QED BY <1>3, <1>12 DEF NumbersGiven

(* The words clean_heap follows in an object, from the first to the offset  *)
(* of the doubles, are its pointer fields: none is missed and no number is  *)
(* followed, for every hierarchy.                                           *)
THEOREM PointersAreFields == Spec => []PointerWordsAreFields
<1>1. Init => NumbersGiven
  BY DEF Init, NumbersGiven
<1>2. LayoutInv /\ NumbersGiven /\ [Next]_vars => NumbersGiven'
  <2>1. ASSUME LayoutInv, NumbersGiven, NEW f \in Files, Load(f)
        PROVE  NumbersGiven'
    BY <2>1, LoadGivesNumbers, ClassFilesAssumption
  <2>2. ASSUME NumbersGiven, UNCHANGED vars
        PROVE  NumbersGiven'
    BY <2>2 DEF vars, NumbersGiven, CountsOf, FieldsOf, FieldsDeclared
  <2> QED BY <2>1, <2>2 DEF Next
<1>3. ASSUME LayoutInv, NumbersGiven PROVE PointerWordsAreFields
  <2>1. SUFFICES ASSUME NEW n \in DOMAIN classes
                 PROVE  PointerWords(classes[n]) =
                          {InstanceOffset(classes[n].layout, a[3], OBJECT) :
                             a \in {b \in FieldsOf(n) : b[4] = OBJECT}}
    BY DEF PointerWordsAreFields
  <2> DEFINE c == CountsOf(n)[OBJECT]
  <2>2. /\ CountsOf(n) \in Counts /\ classes[n].layout = SetInstanceVariableCounts(CountsOf(n))
        /\ \A a \in FieldsOf(n) : a[3] \in Nat /\ a[3] < CountsOf(n)[a[4]]
    BY <1>3 DEF LayoutInv
  <2>3. /\ c \in Nat /\ OBJECT \in Datatypes
        /\ classes[n].layout.offset[DOUBLE] = c * 8
        /\ \A i \in Nat : InstanceOffset(classes[n].layout, i, OBJECT) = i * 8
    <3>1. OBJECT \in Datatypes
      BY DEF OBJECT, Datatypes
    <3>2. classes[n].layout.offset[DOUBLE] = c * 8 /\ c \in Nat
      BY <2>2, <3>1, LayoutOffsets, BytesValues
    <3>3. classes[n].layout.offset[OBJECT] = 0
      BY <2>2, LayoutOffsets
    <3>4. \A i \in Nat : InstanceOffset(classes[n].layout, i, OBJECT) = i * 8
      BY <3>3, Sizes DEF InstanceOffset
    <3> QED BY <3>1, <3>2, <3>4
  <2> HIDE DEF c
  <2>4. ASSUME NEW w \in PointerWords(classes[n])
        PROVE  \E a \in FieldsOf(n) : a[4] = OBJECT /\ InstanceOffset(classes[n].layout, a[3], OBJECT) = w
    <3>1. w \in 0 .. c * 8 - 1 /\ (w % 8) = 0
      BY <2>3 DEF PointerWords
    <3>2. PICK i \in Nat : w = i * 8 /\ i < c
      BY <2>3, <3>1
    <3>3. PICK a \in FieldsOf(n) : a[3] = i /\ a[4] = OBJECT
      BY <1>3, <2>3, <3>2 DEF NumbersGiven, c
    <3> QED BY <2>3, <3>2, <3>3
  <2>5. ASSUME NEW a \in FieldsOf(n), a[4] = OBJECT
        PROVE  InstanceOffset(classes[n].layout, a[3], OBJECT) \in PointerWords(classes[n])
    <3>1. a[3] \in Nat /\ a[3] < c
      BY <2>2, <2>5 DEF c
    <3>2. a[3] * 8 \in 0 .. c * 8 - 1 /\ ((a[3] * 8) % 8) = 0
      BY <2>3, <3>1
    <3> QED BY <2>3, <3>1, <3>2 DEF PointerWords
  <2> QED BY <2>4, <2>5
<1> QED BY <1>1, <1>2, <1>3, LayoutInvariance, PTL DEF Spec


----------------------------------------------------------------------------
(* The regions of a class.                                                  *)

(* A function on 1 .. n is a sequence of n elements.                        *)
LEMMA SequenceOf ==
  ASSUME NEW n \in Nat, NEW s, s = [i \in 1 .. n |-> s[i]], NEW T, \A i \in 1 .. n : s[i] \in T
  PROVE  s \in Seq(T) /\ Len(s) = n /\ DOMAIN s = 1 .. n
<1>1. s \in [1 .. n -> T]
  OBVIOUS
<1>2. s \in Seq(T) /\ Len(s) = n
  BY <1>1
<1> QED
  BY <1>1, <1>2

(* The code of a class file is finite.                                      *)
LEMMA CodeIsFinite ==
  ASSUME NEW f \in Files
  PROVE  MethodWords(f) \in Nat
<1> DEFINE methods == DOMAIN f.methods
           part    == [k \in methods |-> {k} \X (1 .. f.methods[k].words)]
           parts   == {part[k] : k \in methods}
<1>1. /\ f.methods \in Seq([virtual : BOOLEAN, words : Nat \ {0}])
      /\ methods = 1 .. Len(f.methods) /\ Len(f.methods) \in Nat
  BY ClassFilesAssumption
<1>2. ASSUME NEW k \in methods PROVE f.methods[k].words \in Nat
  <2>1. PICK Method : Method = [virtual : BOOLEAN, words : Nat \ {0}]
    OBVIOUS
  <2>2. f.methods \in Seq(Method) /\ k \in 1 .. Len(f.methods)
    BY <1>1, <2>1
  <2>3. f.methods[k] \in Method
    BY <2>2
  <2> QED
    BY <2>1, <2>3
<1>3. IsFiniteSet(methods)
  BY <1>1, FS_Interval
<1>4. ASSUME NEW k \in methods PROVE IsFiniteSet(part[k])
  <2>1. IsFiniteSet({k})
    BY FS_Singleton
  <2>2. IsFiniteSet(1 .. f.methods[k].words)
    <3>1. f.methods[k].words \in Int /\ 1 \in Int
      BY <1>2
    <3> QED
      BY <3>1, FS_Interval
  <2> QED
    BY <2>1, <2>2, FS_Product
<1>5. part \in Surjection(methods, parts)
  BY DEF Surjection
<1>6. IsFiniteSet(parts)
  BY <1>3, <1>5, FS_Surjection
<1>7. IsFiniteSet(UNION parts)
  BY <1>4, <1>6, FS_UNION
<1>8. CodeWords(f) = UNION parts
  BY DEF CodeWords
<1> QED
  BY <1>7, <1>8, FS_CardinalityType DEF MethodWords

(* The numbers a class file gives compute_class_sizes.                      *)
LEMMA FileNumbers ==
  ASSUME NEW f \in Files
  PROVE  /\ Len(f.methods) \in Nat /\ DOMAIN f.methods = 1 .. Len(f.methods)
         /\ f.imports \in Nat /\ f.class_references \in Nat /\ f.string_words \in Nat
         /\ MethodWords(f) \in Nat
         /\ StaticBytes(f) \in Nat /\ WordsOf(StaticBytes(f)) \in Nat
         /\ 8 * WordsOf(StaticBytes(f)) >= StaticBytes(f)
         /\ WordsOf(4 * f.class_references) \in Nat
         /\ 8 * WordsOf(4 * f.class_references) >= 4 * f.class_references
<1>1. /\ f.methods \in Seq([virtual : BOOLEAN, words : Nat \ {0}])
      /\ f.statics \in Seq(Datatypes)
      /\ f.imports \in Nat /\ f.class_references \in Nat /\ f.string_words \in Nat
  BY ClassFilesAssumption
<1>2. ASSUME NEW bytes \in Nat
      PROVE  WordsOf(bytes) \in Nat /\ 8 * WordsOf(bytes) >= bytes
  BY DEF WordsOf
<1>3. StaticBytes(f) \in Nat
  <2>1. PICK counts \in Counts : counts = CountOf(f.statics)
    BY <1>1, CountOfType
  <2>2. \A t \in Datatypes : Bytes(counts, t) \in Nat
    BY SizeValues DEF Bytes, Counts
  <2>3. /\ Bytes(counts, BYTE) \in Nat /\ Bytes(counts, SHORT) \in Nat /\ Bytes(counts, INT) \in Nat
        /\ Bytes(counts, FLOAT) \in Nat /\ Bytes(counts, LONG) \in Nat
        /\ Bytes(counts, DOUBLE) \in Nat /\ Bytes(counts, OBJECT) \in Nat
    BY <2>2 DEF Datatypes, BYTE, SHORT, INT, FLOAT, LONG, DOUBLE, OBJECT
  <2> QED
    BY <2>1, <2>3 DEF StaticBytes
<1>4. 4 * f.class_references \in Nat
  BY <1>1
<1>5. Len(f.methods) \in Nat /\ DOMAIN f.methods = 1 .. Len(f.methods)
  BY <1>1
<1> QED
  BY <1>1, <1>2, <1>3, <1>4, <1>5, CodeIsFinite

(* The regions in the order they lie, and what each has room for.           *)
RegionsOf(o, f, inherited) ==
  /\ o.vmt \in Nat /\ o.class_import \in Nat /\ o.field_import \in Nat /\ o.exports \in Nat
  /\ o.bytecodes \in Nat /\ o.string_pool \in Nat /\ o.total \in Nat
  /\ o.vmt = HeaderWords + WordsOf(StaticBytes(f))
  /\ o.class_import >= o.vmt + inherited
  /\ o.field_import = o.class_import + WordsOf(4 * f.class_references)
  /\ o.exports = o.field_import + 2 * f.imports
  /\ o.bytecodes = o.exports + Len(f.methods)
  /\ o.string_pool = o.bytecodes + MethodWords(f)
  /\ o.total = o.string_pool + f.string_words

(* compute_class_sizes makes such regions.                                  *)
LEMMA RegionsFollow ==
  ASSUME NEW f \in Files, NEW inherited \in Nat, NEW found
  PROVE  RegionsOf(TableOffsets(f, inherited, found), f, inherited)
<1> DEFINE unanswered == {k \in Virtual(f) : found[k] = NoIndex}
<1>1. PICK new \in Nat : new = Cardinality(unanswered)
  <2>1. IsFiniteSet(DOMAIN f.methods)
    <3>1. Len(f.methods) \in Int /\ 1 \in Int /\ DOMAIN f.methods = 1 .. Len(f.methods)
      BY FileNumbers
    <3> QED
      BY <3>1, FS_Interval
  <2>2. unanswered \in SUBSET DOMAIN f.methods
    BY DEF Virtual
  <2>3. IsFiniteSet(unanswered)
    BY <2>1, <2>2, FS_Subset
  <2> QED
    BY <2>3, FS_CardinalityType
<1>2. PICK o : o = TableOffsets(f, inherited, found)
  OBVIOUS
<1> HIDE DEF unanswered
<1>3. /\ o.vmt = HeaderWords + WordsOf(StaticBytes(f))
      /\ o.class_import = o.vmt + inherited + new
      /\ o.field_import = o.class_import + WordsOf(4 * f.class_references)
      /\ o.exports = o.field_import + 2 * f.imports
      /\ o.bytecodes = o.exports + Len(f.methods)
      /\ o.string_pool = o.bytecodes + MethodWords(f)
      /\ o.total = o.string_pool + f.string_words
  BY <1>1, <1>2 DEF TableOffsets, ImportCount, ExportCount, unanswered
<1>4. o.vmt \in Nat
  <2>1. HeaderWords \in Nat /\ WordsOf(StaticBytes(f)) \in Nat
    BY FileNumbers DEF HeaderWords
  <2>2. o.vmt = HeaderWords + WordsOf(StaticBytes(f))
    BY <1>3
  <2> QED
    BY <2>1, <2>2
<1>5. o.class_import \in Nat /\ o.class_import >= o.vmt + inherited
  <2>1. o.class_import = o.vmt + inherited + new
    BY <1>3
  <2> QED
    BY <1>1, <1>4, <2>1
<1>6. o.field_import \in Nat
  <2>1. o.field_import = o.class_import + WordsOf(4 * f.class_references)
    BY <1>3
  <2>2. WordsOf(4 * f.class_references) \in Nat
    BY FileNumbers
  <2> QED
    BY <1>5, <2>1, <2>2
<1>7. o.exports \in Nat
  <2>1. o.exports = o.field_import + 2 * f.imports
    BY <1>3
  <2>2. f.imports \in Nat
    BY FileNumbers
  <2> QED
    BY <1>6, <2>1, <2>2
<1>8. o.bytecodes \in Nat
  <2>1. o.bytecodes = o.exports + Len(f.methods)
    BY <1>3
  <2>2. Len(f.methods) \in Nat
    BY FileNumbers
  <2> QED
    BY <1>7, <2>1, <2>2
<1>9. o.string_pool \in Nat
  <2>1. o.string_pool = o.bytecodes + MethodWords(f)
    BY <1>3
  <2> QED
    BY <1>8, <2>1, CodeIsFinite
<1>10. o.total \in Nat
  <2>1. o.total = o.string_pool + f.string_words
    BY <1>3
  <2>2. f.string_words \in Nat
    BY FileNumbers
  <2> QED
    BY <1>9, <2>1, <2>2
<1> QED
  BY <1>2, <1>3, <1>4, <1>5, <1>6, <1>7, <1>8, <1>9, <1>10, Zenon DEF RegionsOf

(* The statics lie in the static region, although those of one type begin   *)
(* where only the next wider type ends.                                     *)
LEMMA StaticsFit ==
  ASSUME NEW f \in Files, NEW k \in DOMAIN f.statics
  PROVE  StaticSlot(f, k) \subseteq 0 .. StaticBytes(f) - 1
<1>1. f.statics \in Seq(Datatypes)
  BY ClassFilesAssumption
<1>2. PICK counts \in Counts : counts = CountOf(f.statics)
  BY <1>1, CountOfType
<1>3. PICK t \in Datatypes : t = f.statics[k]
  BY <1>1
<1>4. PICK size : size = datatype_size[t]
  OBVIOUS
<1>5. size \in {1, 2, 4, 8}
  BY <1>4, SizeValues
<1>6. PICK before \in Nat : before = Cardinality(EarlierOfType(f.statics, k)) /\ before < counts[t]
  BY <1>1, <1>2, <1>3, Numbering
<1>7. counts[t] \in Nat /\ Bytes(counts, t) = counts[t] * size
  BY <1>4 DEF Bytes, Counts
<1>8. size * before \in Nat /\ size * before + size <= Bytes(counts, t)
  BY <1>5, <1>6, <1>7
<1>9. \A u \in {0, 1, 2, 3, 4, 5, 6} : Bytes(counts, u) \in Nat
  BY SizeValues DEF Bytes, Counts, Datatypes
<1>10. StaticBytes(f) = Bytes(counts, 0) + Bytes(counts, 1) + Bytes(counts, 2) + Bytes(counts, 3)
                          + Bytes(counts, 4) + Bytes(counts, 5) + Bytes(counts, 6)
  BY <1>2 DEF StaticBytes, BYTE, SHORT, INT, FLOAT, LONG, DOUBLE, OBJECT
<1>11. /\ StaticStart(counts, t) \in Nat
       /\ StaticStart(counts, t) + Bytes(counts, t) <= StaticBytes(f)
       /\ StaticBytes(f) \in Nat
  <2>1. t \in {0, 1, 2, 3, 4, 5, 6}
    BY DEF Datatypes
  <2>2. StaticStart(counts, t) = IF t = 6 THEN 0 ELSE Bytes(counts, t + 1)
    BY DEF StaticStart, OBJECT
  <2> QED
    BY <1>9, <1>10, <2>1, <2>2
<1>12. StaticOffset(f, k) = StaticStart(counts, t) + size * before
  BY <1>2, <1>3, <1>4, <1>6 DEF StaticOffset, EarlierOfType
<1>13. StaticSlot(f, k)
         = StaticStart(counts, t) + size * before .. StaticStart(counts, t) + size * before + size - 1
  BY <1>3, <1>4, <1>12 DEF StaticSlot
<1>14. PICK low \in Nat : low = StaticStart(counts, t) + size * before /\ low + size <= StaticBytes(f)
  BY <1>5, <1>7, <1>8, <1>9, <1>11
<1> QED
  BY <1>5, <1>11, <1>13, <1>14

(* The primary superclass of the n-th class.                                *)
PrimaryAt(n) == IF n = 1 THEN <<>> ELSE <<classes[n - 1]>>

(* A class is what impl_load_class makes of a file upon the class before    *)
(* it.  How many methods that has is read from its regions, so that they    *)
(* follow each other has to be known of it.                                 *)
Made(n) ==
  \E f \in Files : \E found \in [Virtual(f) -> Answers \cup {NoIndex}] :
    /\ classes[n] = Class(f, PrimaryAt(n), found)
    /\ Inherited(PrimaryAt(n)) \in Nat
    /\ RegionsOf(classes[n].offsets, f, Inherited(PrimaryAt(n)))

RegionInv ==
  /\ \E S : classes \in Seq(S)
  /\ \A n \in DOMAIN classes : Made(n)

(* A class loaded upon the last one.                                        *)
LEMMA LoadKeepsRegions ==
  ASSUME RegionInv, NEW f \in Files, Load(f)
  PROVE  RegionInv'
<1> PICK N, primary : N = Len(classes) /\ primary = Primary
  OBVIOUS
<1>1. PICK found \in [Virtual(f) -> Answers \cup {NoIndex}] :
        classes' = Append(classes, Class(f, primary, found))
  <2>1. PICK found : /\ classes' = Append(classes, Class(f, Primary, found))
                     /\ \/ found \in [Virtual(f) -> {NoIndex}]
                        \/ found \in [Virtual(f) -> Answers \cup {NoIndex}]
    BY DEF Load
  <2>2. found \in [Virtual(f) -> Answers \cup {NoIndex}]
    BY <2>1
  <2> QED
    BY <2>1, <2>2
<1>2. /\ N \in Nat /\ DOMAIN classes = 1 .. N /\ DOMAIN classes' = 1 .. N + 1
      /\ \A n \in 1 .. N : classes'[n] = classes[n]
      /\ classes'[N + 1] = Class(f, primary, found)
      /\ \E S : classes' \in Seq(S)
  BY <1>1, Appended DEF RegionInv
<1>3. ASSUME NEW n \in 1 .. N PROVE Made(n)'
  <2>1. Made(n) /\ classes'[n] = classes[n]
    BY <1>2 DEF RegionInv
  <2>2. PrimaryAt(n)' = PrimaryAt(n)
    <3>1. n # 1 => n - 1 \in 1 .. N
      BY <1>2
    <3>2. n # 1 => classes'[n - 1] = classes[n - 1]
      BY <1>2, <3>1
    <3> QED
      BY <3>2 DEF PrimaryAt
  <2> QED
    BY <2>1, <2>2 DEF Made
<1>4. Inherited(primary) \in Nat
  <2>1. CASE classes = <<>>
    BY <2>1 DEF Primary, Inherited
  <2>2. CASE classes # <<>>
    <3>1. N \in DOMAIN classes /\ primary = <<classes[N]>>
      BY <1>2, <2>2 DEF Primary, RegionInv
    <3>2. PICK g \in Files, inherited \in Nat : RegionsOf(classes[N].offsets, g, inherited)
      BY <3>1 DEF RegionInv, Made
    <3>3. PICK vmt \in Nat, import \in Nat :
            vmt = classes[N].offsets.vmt /\ import = classes[N].offsets.class_import
      BY <3>2 DEF RegionsOf
    <3>4. import >= vmt + inherited
      BY <3>2, <3>3 DEF RegionsOf
    <3>5. import - vmt \in Nat
      <4>1. \A a \in Nat : \A b \in Nat : \A c \in Nat : a >= b + c => a - b \in Nat
        OBVIOUS
      <4> QED
        BY <3>4, <4>1
    <3>6. Inherited(primary) = VirtualMethodCount(classes[N].offsets)
      BY <3>1 DEF Inherited
    <3> QED
      BY <3>3, <3>5, <3>6 DEF VirtualMethodCount
  <2> QED
    BY <2>1, <2>2
<1>5. PrimaryAt(N + 1)' = primary
  <2>1. CASE classes = <<>>
    <3>1. N = 0
      BY <2>1
    <3> QED
      BY <2>1, <3>1 DEF Primary, PrimaryAt
  <2>2. CASE classes # <<>>
    <3>1. N \in 1 .. N /\ primary = <<classes[N]>>
      BY <1>2, <2>2 DEF Primary, RegionInv
    <3>2. N + 1 # 1 /\ (N + 1) - 1 = N
      BY <1>2, <3>1
    <3> QED
      BY <1>2, <3>1, <3>2 DEF PrimaryAt
  <2> QED
    BY <2>1, <2>2
<1>6. Made(N + 1)'
  <2>1. classes'[N + 1].offsets = TableOffsets(f, Inherited(primary), found)
    BY <1>2 DEF Class
  <2>2. RegionsOf(classes'[N + 1].offsets, f, Inherited(primary))
    BY <1>4, <2>1, RegionsFollow
  <2> QED
    BY <1>1, <1>2, <1>4, <1>5, <2>2 DEF Made
<1> QED
  BY <1>2, <1>3, <1>6 DEF RegionInv

(* The imports that are written take no more words than were counted.       *)
LEMMA ImportsWritten ==
  ASSUME NEW f \in Files
  PROVE  /\ Len(ImportWords(f)) \in Nat /\ Len(ImportWords(f)) <= 2 * f.imports
         /\ DOMAIN ImportWords(f) = 1 .. Len(ImportWords(f))
<1>1. PICK imports \in Nat : imports = f.imports
  BY FileNumbers
<1>2. PICK n : n = IF imports = 0 THEN 0 ELSE (imports + 2) \div 2
  OBVIOUS
<1>3. n \in Nat /\ n <= 2 * imports
  BY <1>1, <1>2
<1>4. PICK s : s = ImportWords(f)
  OBVIOUS
<1>5. s = [w \in 1 .. n |-> s[w]]
  BY <1>1, <1>2, <1>4 DEF ImportWords
<1>6. Len(s) = n /\ DOMAIN s = 1 .. n
  <2> PICK T : \A i \in 1 .. n : s[i] \in T
    <3> PICK T : T = {s[i] : i \in 1 .. n}
      OBVIOUS
    <3>1. \A i \in 1 .. n : s[i] \in T
      OBVIOUS
    <3> QED
      BY <3>1
  <2> QED
    BY <1>3, <1>5, SequenceOf
<1> QED
  BY <1>1, <1>3, <1>4, <1>6

(* What compute_class_sizes reserves is enough.                             *)
LEMMA RegionsHaveRoom ==
  ASSUME RegionInv
  PROVE  RegionsHold
<1> SUFFICES ASSUME NEW n \in DOMAIN classes, NEW o, o = classes[n].offsets,
                    NEW f, f = classes[n].file
             PROVE  /\ \A k \in DOMAIN f.statics :
                         StaticSlot(f, k) \subseteq 0 .. 8 * (o.vmt - HeaderWords) - 1
                    /\ n > 1 => VirtualMethodCount(o) >= VirtualMethodCount(classes[n - 1].offsets)
                    /\ 8 * (o.field_import - o.class_import) >= 4 * f.class_references
                    /\ o.exports - o.field_import >= Len(ImportWords(f))
                    /\ o.bytecodes + MethodWords(f) <= o.string_pool
  BY DEF RegionsHold
<1> PICK inherited : inherited = Inherited(PrimaryAt(n))
  OBVIOUS
<1>1. f \in Files /\ inherited \in Nat /\ RegionsOf(o, f, inherited)
  BY DEF RegionInv, Made, Class
<1>2. ASSUME NEW k \in DOMAIN f.statics
      PROVE  StaticSlot(f, k) \subseteq 0 .. 8 * (o.vmt - HeaderWords) - 1
  <2>1. PICK bytes \in Nat, words \in Nat :
          bytes = StaticBytes(f) /\ words = WordsOf(StaticBytes(f)) /\ 8 * words >= bytes
    BY <1>1, FileNumbers
  <2>2. o.vmt = HeaderWords + words
    BY <1>1, <2>1 DEF RegionsOf
  <2>3. o.vmt - HeaderWords = words
    BY <2>1, <2>2 DEF HeaderWords
  <2>4. StaticSlot(f, k) \subseteq 0 .. bytes - 1
    BY <1>1, <2>1, StaticsFit
  <2> QED
    BY <2>1, <2>3, <2>4
<1>3. ASSUME n > 1 PROVE VirtualMethodCount(o) >= VirtualMethodCount(classes[n - 1].offsets)
  <2>1. inherited = VirtualMethodCount(classes[n - 1].offsets)
    BY <1>3 DEF PrimaryAt, Inherited
  <2>2. o.vmt \in Nat /\ o.class_import \in Nat /\ o.class_import >= o.vmt + inherited
    BY <1>1, Zenon DEF RegionsOf
  <2> QED
    BY <1>1, <2>1, <2>2 DEF VirtualMethodCount
<1>4. 8 * (o.field_import - o.class_import) >= 4 * f.class_references
  <2>1. PICK words \in Nat : /\ words = WordsOf(4 * f.class_references)
                            /\ 8 * words >= 4 * f.class_references
    BY <1>1, FileNumbers
  <2>2. o.class_import \in Nat /\ o.field_import = o.class_import + words
    BY <1>1, <2>1, Zenon DEF RegionsOf
  <2> QED
    BY <2>1, <2>2
<1>5. o.exports - o.field_import >= Len(ImportWords(f))
  <2>1. PICK imports \in Nat : imports = f.imports
    BY <1>1, FileNumbers
  <2>2. o.field_import \in Nat /\ o.exports = o.field_import + 2 * imports
    BY <1>1, <2>1, Zenon DEF RegionsOf
  <2>3. Len(ImportWords(f)) <= 2 * imports /\ Len(ImportWords(f)) \in Nat
    BY <1>1, <2>1, ImportsWritten
  <2> QED
    BY <2>1, <2>2, <2>3
<1>6. o.bytecodes + MethodWords(f) <= o.string_pool
  <2>1. o.string_pool = o.bytecodes + MethodWords(f) /\ o.string_pool \in Nat
    BY <1>1, Zenon DEF RegionsOf
  <2> QED
    BY <2>1
<1> QED
  BY <1>2, <1>3, <1>4, <1>5, <1>6

(* A word on which only one put falls holds what that put there.            *)
LEMMA OnlyPut ==
  ASSUME NEW puts, DOMAIN puts \subseteq Nat, NEW i \in DOMAIN puts, NEW w,
         Covers(puts[i], w), \A j \in DOMAIN puts : Covers(puts[j], w) => j = i
  PROVE  WordAfter(puts, w) = puts[i].words[w - puts[i].at + 1]
<1> DEFINE covering == {j \in DOMAIN puts : Covers(puts[j], w)}
<1>1. covering = {i} /\ i \in Nat
  OBVIOUS
<1>2. Max({i}) = i
  <2>1. \A x \in {i} : x = i
    OBVIOUS
  <2>2. i \in {i} /\ \A y \in {i} : i >= y
    BY <1>1
  <2> QED
    BY <2>1, <2>2 DEF Max
<1>3. Max(covering) = i /\ covering # {}
  BY <1>1, <1>2
<1> QED
  BY <1>3 DEF WordAfter

(* Two sequences one after the other, for elements of any kind.             *)
OfLength(s, n) == s = [i \in 1 .. n |-> s[i]]

Joined(s, a, m, b, n) ==
  /\ DOMAIN s = 1 .. m + n
  /\ \A i \in 1 .. m : s[i] = a[i]
  /\ \A i \in 1 .. n : s[m + i] = b[i]

LEMMA Concatenated ==
  ASSUME NEW m \in Nat, NEW n \in Nat, NEW a, NEW b, OfLength(a, m), OfLength(b, n)
  PROVE  Joined(a \o b, a, m, b, n)
<1> a = [i \in 1 .. m |-> a[i]] /\ b = [i \in 1 .. n |-> b[i]]
  BY DEF OfLength
<1> PICK S : (\A i \in 1 .. m : a[i] \in S) /\ (\A i \in 1 .. n : b[i] \in S)
  <2> PICK S : S = {a[i] : i \in 1 .. m} \cup {b[i] : i \in 1 .. n}
    OBVIOUS
  <2>1. (\A i \in 1 .. m : a[i] \in S) /\ (\A i \in 1 .. n : b[i] \in S)
    OBVIOUS
  <2> QED
    BY <2>1
<1>1. Len(a) = m /\ a \in Seq(S)
  BY SequenceOf
<1>2. Len(b) = n /\ b \in Seq(S)
  BY SequenceOf
<1> QED
  BY <1>1, <1>2 DEF Joined

(* Where the i-th put of a regular class may fall: the string pool, the     *)
(* bytecodes, the table of virtual methods, the two import tables, the      *)
(* exports of the fields it has not; then a virtual method and an export by *)
(* turns.                                                                   *)
Home(vmt, class_import, field_import, exports, bytecodes, string_pool, total, i) ==
  IF i = 1 THEN string_pool .. total - 1
  ELSE IF i = 2 THEN bytecodes .. string_pool - 1
  ELSE IF i = 4 THEN class_import .. field_import - 1
  ELSE IF i = 5 THEN field_import .. exports - 1
  ELSE IF i > 6 /\ (i % 2) = 0 THEN {exports + (i \div 2) - 4}
  ELSE vmt .. class_import - 1

HomeOf(o, i) ==
  Home(o.vmt, o.class_import, o.field_import, o.exports, o.bytecodes, o.string_pool, o.total, i)

(* The homes are apart, except of the writers of the virtual methods, who   *)
(* share theirs.                                                            *)
LEMMA HomesApart ==
  ASSUME NEW vmt \in Nat, NEW class_import \in Nat, NEW field_import \in Nat, NEW exports \in Nat,
         NEW bytecodes \in Nat, NEW string_pool \in Nat, NEW total \in Nat, NEW m \in Nat,
         class_import <= field_import, field_import <= exports, bytecodes = exports + m,
         bytecodes <= string_pool,
         NEW i \in 1 .. 6 + 2 * m, NEW j \in 1 .. 6 + 2 * m, i # j,
         i \in {1, 2, 4, 5} \/ (i > 6 /\ (i % 2) = 0),
         NEW w,
         w \in Home(vmt, class_import, field_import, exports, bytecodes, string_pool, total, i),
         w \in Home(vmt, class_import, field_import, exports, bytecodes, string_pool, total, j)
  PROVE  FALSE
<1> DEFINE H(k) == Home(vmt, class_import, field_import, exports, bytecodes, string_pool, total, k)
           Even(k) == k > 6 /\ (k % 2) = 0
<1>1. ASSUME NEW k \in 1 .. 6 + 2 * m, Even(k)
      PROVE  k \div 2 \in 4 .. m + 3 /\ k = 2 * (k \div 2)
  BY <1>1
<1>2. ASSUME NEW k \in 1 .. 6 + 2 * m, w \in H(k)
      PROVE  /\ w \in Int
             /\ k = 1 => w >= string_pool
             /\ k = 2 => w >= bytecodes /\ w < string_pool
             /\ k = 4 => w >= class_import /\ w < field_import
             /\ k = 5 => w >= field_import /\ w < exports
             /\ Even(k) => w = exports + (k \div 2) - 4 /\ w >= exports /\ w < bytecodes
             /\ k \notin {1, 2, 4, 5} /\ ~Even(k) => w < class_import
  <2>1. CASE Even(k)
    <3>1. w = exports + (k \div 2) - 4
      BY <1>2, <2>1 DEF Home
    <3> QED
      BY <1>1, <2>1, <3>1
  <2>2. CASE ~Even(k)
    BY <1>2, <2>2 DEF Home
  <2> QED
    BY <2>1, <2>2
<1> HIDE DEF H
<1>3. w \in H(i) /\ w \in H(j)
  BY DEF H
<1>4. CASE Even(i) /\ Even(j)
  <2>1. i \div 2 = j \div 2
    <3>1. /\ w = exports + (i \div 2) - 4 /\ w = exports + (j \div 2) - 4
          /\ i \div 2 \in Int /\ j \div 2 \in Int
      BY <1>1, <1>2, <1>3, <1>4
    <3> QED
      BY <3>1
  <2>2. i = 2 * (i \div 2) /\ j = 2 * (j \div 2)
    BY <1>1, <1>4
  <2> QED
    BY <2>1, <2>2
<1> HIDE DEF Even
<1>5. CASE ~(Even(i) /\ Even(j))
  <2>1. i \in {1, 2, 4, 5} \/ Even(i)
    BY DEF Even
  <2>2. /\ w \in Int
        /\ i = 1 => w >= string_pool
        /\ i = 2 => w >= bytecodes /\ w < string_pool
        /\ i = 4 => w >= class_import /\ w < field_import
        /\ i = 5 => w >= field_import /\ w < exports
        /\ Even(i) => w >= exports /\ w < bytecodes
    BY <1>2, <1>3
  <2>3. /\ j = 1 => w >= string_pool
        /\ j = 2 => w >= bytecodes /\ w < string_pool
        /\ j = 4 => w >= class_import /\ w < field_import
        /\ j = 5 => w >= field_import /\ w < exports
        /\ Even(j) => w >= exports /\ w < bytecodes
        /\ j \notin {1, 2, 4, 5} /\ ~Even(j) => w < class_import
    BY <1>2, <1>3
  <2> QED
    BY <1>5, <2>1, <2>2, <2>3
<1> QED
  BY <1>4, <1>5

(* Without fields there are only the methods to export.                     *)
LEMMA MethodsExported ==
  ASSUME NEW f \in Files, f.statics = <<>>, f.fields = <<>>
  PROVE  /\ Len(f.statics) + Len(f.fields) = 0
         /\ Len(SubSeq(ExportSequence(f), 1, 0)) = 0
         /\ DOMAIN ExportSequence(f) = 1 .. Len(f.methods)
<1> PICK m \in Nat : m = Len(f.methods) /\ DOMAIN f.methods = 1 .. m
  BY FileNumbers
<1> PICK s : s = [i \in 1 .. m |-> <<"export", i>>]
  OBVIOUS
<1> PICK S : S = {<<"export", i>> : i \in 1 .. m}
  OBVIOUS
<1>1. s \in Seq(S) /\ DOMAIN s = 1 .. m
  BY SequenceOf
<1>2. Len(f.statics) = 0 /\ Len(f.fields) = 0
  OBVIOUS
<1>3. [i \in DOMAIN f.statics |-> <<"static", i>>] = <<>> /\ [i \in DOMAIN f.fields |-> <<"field", i>>] = <<>>
  OBVIOUS
<1>4. ExportSequence(f) = <<>> \o <<>> \o s
  BY <1>3 DEF ExportSequence
<1>5. ExportSequence(f) = s
  BY <1>1, <1>4
<1>6. Len(SubSeq(s, 1, 0)) = 0
  BY <1>1
<1> QED
  BY <1>1, <1>2, <1>5, <1>6

(* The index of a virtual method is none below the first.                   *)
LEMMA SlotsAreNumbers ==
  ASSUME NEW f \in Files, NEW inherited \in Nat,
         NEW found \in [Virtual(f) -> Answers \cup {NoIndex}], NEW k \in Virtual(f)
  PROVE  VmtIndex(f, inherited, found, k) \in Nat
<1>1. CASE found[k] # NoIndex
  BY <1>1, ClassFilesAssumption DEF VmtIndex
<1>2. CASE found[k] = NoIndex
  <2> DEFINE new == {j \in Virtual(f) : j < k /\ found[j] = NoIndex}
  <2>1. IsFiniteSet(DOMAIN f.methods)
    <3>1. Len(f.methods) \in Int /\ 1 \in Int /\ DOMAIN f.methods = 1 .. Len(f.methods)
      BY FileNumbers
    <3> QED
      BY <3>1, FS_Interval
  <2>2. new \in SUBSET DOMAIN f.methods
    BY DEF Virtual
  <2>3. IsFiniteSet(new)
    BY <2>1, <2>2, FS_Subset
  <2>4. Cardinality(new) \in Nat
    BY <2>3, FS_CardinalityType
  <2>5. VmtIndex(f, inherited, found, k) = inherited + 8 * Cardinality(new)
    BY <1>2 DEF VmtIndex
  <2> HIDE DEF new
  <2> QED
    BY <2>4, <2>5
<1> QED
  BY <1>1, <1>2

(* How many words are put.                                                  *)
LEMMA FilledLength ==
  ASSUME NEW n \in Nat, NEW tag
  PROVE  Len(Filled(tag, n)) = n /\ DOMAIN Filled(tag, n) = 1 .. n
<1> PICK T : T = {<<tag, w>> : w \in 1 .. n}
  OBVIOUS
<1> PICK s : s = [w \in 1 .. n |-> <<tag, w>>]
  OBVIOUS
<1>1. s = [w \in 1 .. n |-> s[w]] /\ \A w \in 1 .. n : s[w] \in T
  OBVIOUS
<1>2. Len(s) = n /\ DOMAIN s = 1 .. n
  BY <1>1, SequenceOf
<1> QED
  BY <1>2 DEF Filled

(* The words of the method table are as many as the methods have.           *)
LEMMA CodeLength ==
  ASSUME NEW f \in Files
  PROVE  Len(Bytecodes(f)) = MethodWords(f) /\ DOMAIN Bytecodes(f) = 1 .. MethodWords(f)
<1> PICK n \in Nat : n = MethodWords(f)
  BY CodeIsFinite
<1> PICK s : s = Bytecodes(f)
  OBVIOUS
<1> PICK T : T = {s[w] : w \in 1 .. n}
  OBVIOUS
<1>1. s = [w \in 1 .. n |-> s[w]]
  BY DEF Bytecodes
<1>2. \A w \in 1 .. n : s[w] \in T
  OBVIOUS
<1>3. Len(s) = n /\ DOMAIN s = 1 .. n
  BY <1>1, <1>2, SequenceOf
<1> QED
  BY <1>3

(* As many words are preloaded as the superclass has virtual methods.       *)
LEMMA InheritedLength ==
  ASSUME NEW primary, Inherited(primary) \in Nat
  PROVE  Len(InheritedMethods(primary)) = Inherited(primary)
<1> PICK n \in Nat : n = Inherited(primary)
  OBVIOUS
<1> PICK s : s = InheritedMethods(primary)
  OBVIOUS
<1> PICK T : T = {s[w] : w \in 1 .. n}
  OBVIOUS
<1>1. CASE primary = <<>>
  BY <1>1 DEF Inherited, InheritedMethods
<1>2. CASE primary # <<>>
  <2>1. s = [w \in 1 .. n |-> s[w]]
    BY <1>2 DEF InheritedMethods, Inherited
  <2>2. \A w \in 1 .. n : s[w] \in T
    OBVIOUS
  <2>3. Len(s) = n
    BY <2>1, <2>2, SequenceOf
  <2> QED
    BY <2>3
<1> QED
  BY <1>1, <1>2

(* A region ends where the next begins.                                     *)
LEMMA UpToNext ==
  ASSUME NEW start \in Nat, NEW n \in Nat, NEW next, next = start + n,
         NEW w \in start .. start + n - 1
  PROVE  w \in start .. next - 1
OBVIOUS

(* puts is what impl_load_class and class_writer put in a regular class.    *)
PutsOf(f, o, primary, inherited, found, puts) ==
  /\ f \in Files /\ f.statics = <<>> /\ f.fields = <<>>
  /\ inherited \in Nat /\ inherited = Inherited(primary)
  /\ found \in [Virtual(f) -> Answers \cup {NoIndex}]
  /\ RegionsOf(o, f, inherited)
  /\ \A k \in Virtual(f) : VmtIndex(f, inherited, found, k) < VirtualMethodCount(o)
  /\ puts = TablePuts(f, o, primary) \o MethodPuts(f, o, inherited, found)

(* So does one in which less is put than it has room for.                    *)
LEMMA WithinNext ==
  ASSUME NEW start \in Nat, NEW n \in Nat, NEW room \in Nat, n <= room,
         NEW next, next = start + room, NEW w \in start .. start + n - 1
  PROVE  w \in start .. next - 1
OBVIOUS

(* A slot of a table lies between the table and what follows.               *)
LEMMA InTable ==
  ASSUME NEW table \in Nat, NEW slot \in Nat, NEW next \in Nat, slot < next - table,
         NEW w \in table + slot .. table + slot + 1 - 1
  PROVE  w \in table .. next - 1
OBVIOUS

(* The puts of a regular class one by one, and that each falls in its home.  *)
PutsSettled(f, o, puts) ==
  /\ DOMAIN puts = 1 .. 6 + 2 * Len(f.methods)
  /\ puts[1] = Put(o.string_pool, Filled("string", f.string_words))
  /\ puts[2] = Put(o.bytecodes, Bytecodes(f))
  /\ puts[4] = Put(o.class_import, Filled("class", WordsOf(4 * f.class_references)))
  /\ puts[5] = Put(o.field_import, ImportWords(f))
  /\ \A k \in 1 .. Len(f.methods) :
       puts[6 + 2 * k] = Put(o.exports + k - 1, <<ExportSequence(f)[k]>>)
  /\ \A i \in DOMAIN puts : \A w : Covers(puts[i], w) => w \in HomeOf(o, i)

LEMMA RegularPuts ==
  ASSUME NEW f, NEW o, NEW primary, NEW inherited, NEW found, NEW puts,
         PutsOf(f, o, primary, inherited, found, puts)
  PROVE  PutsSettled(f, o, puts)
<1> f \in Files /\ f.statics = <<>> /\ f.fields = <<>>
  BY Zenon DEF PutsOf
<1> /\ inherited \in Nat /\ inherited = Inherited(primary)
    /\ found \in [Virtual(f) -> Answers \cup {NoIndex}]
    /\ RegionsOf(o, f, inherited)
    /\ \A k \in Virtual(f) : VmtIndex(f, inherited, found, k) < VirtualMethodCount(o)
    /\ puts = TablePuts(f, o, primary) \o MethodPuts(f, o, inherited, found)
  BY Zenon DEF PutsOf
<1> PICK m \in Nat : m = Len(f.methods) /\ DOMAIN f.methods = 1 .. m
  BY FileNumbers
<1> PICK table : table = TablePuts(f, o, primary)
  OBVIOUS
<1> PICK byMethod : byMethod = MethodPuts(f, o, inherited, found)
  OBVIOUS
<1>1. /\ table = [i \in 1 .. 6 |-> table[i]]
      /\ table[1] = Put(o.string_pool, Filled("string", f.string_words))
      /\ table[2] = Put(o.bytecodes, Bytecodes(f))
      /\ table[3] = Put(o.vmt, InheritedMethods(primary))
      /\ table[4] = Put(o.class_import, Filled("class", WordsOf(4 * f.class_references)))
      /\ table[5] = Put(o.field_import, ImportWords(f))
      /\ table[6] = Put(o.exports, SubSeq(ExportSequence(f), 1, 0))
  BY MethodsExported DEF TablePuts
<1>2. /\ byMethod = [i \in 1 .. 2 * m |-> byMethod[i]]
      /\ \A k \in 1 .. m : byMethod[2 * k] = Put(o.exports + k - 1, <<ExportSequence(f)[k]>>)
      /\ \A k \in 1 .. m :
           byMethod[2 * k - 1] =
             IF k \in Virtual(f)
             THEN Put(o.vmt + VmtIndex(f, inherited, found, k), <<MethodPointer(o, f, k)>>)
             ELSE Put(o.vmt, <<>>)
  <2> DEFINE link(k) == IF k \in Virtual(f)
                        THEN Put(o.vmt + VmtIndex(f, inherited, found, k), <<MethodPointer(o, f, k)>>)
                        ELSE Put(o.vmt, <<>>)
             export(k) == Put(o.exports + 0 + k - 1, <<ExportSequence(f)[0 + k]>>)
  <2>1. byMethod = [i \in 1 .. 2 * m |->
                      IF (i % 2) = 1 THEN link((i + 1) \div 2) ELSE export(i \div 2)]
    BY MethodsExported, Zenon DEF MethodPuts
  <2> HIDE DEF link, export
  <2>2. ASSUME NEW k \in 1 .. m
        PROVE  byMethod[2 * k] = export(k) /\ byMethod[2 * k - 1] = link(k)
    <3>1. 2 * k \in 1 .. 2 * m /\ (2 * k) % 2 = 0 /\ (2 * k) \div 2 = k
      OBVIOUS
    <3>2. 2 * k - 1 \in 1 .. 2 * m /\ (2 * k - 1) % 2 = 1 /\ (2 * k - 1 + 1) \div 2 = k
      OBVIOUS
    <3> QED
      BY <2>1, <3>1, <3>2
  <2>3. ASSUME NEW k \in 1 .. m
        PROVE  export(k) = Put(o.exports + k - 1, <<ExportSequence(f)[k]>>)
    <3>1. o.exports \in Nat
      BY Zenon DEF RegionsOf
    <3>2. o.exports + 0 + k - 1 = o.exports + k - 1 /\ 0 + k = k
      BY <3>1
    <3> QED
      BY <3>2 DEF export
  <2> QED
    BY <2>1, <2>2, <2>3 DEF link
<1>3. /\ DOMAIN puts = 1 .. 6 + 2 * m
      /\ \A i \in 1 .. 6 : puts[i] = table[i]
      /\ \A i \in 1 .. 2 * m : puts[6 + i] = byMethod[i]
  <2> PICK n \in Nat : n = 2 * m
    OBVIOUS
  <2>1. OfLength(table, 6) /\ 6 \in Nat
    BY <1>1 DEF OfLength
  <2>2. OfLength(byMethod, n)
    BY <1>2 DEF OfLength
  <2>3. Joined(table \o byMethod, table, 6, byMethod, n)
    BY <2>1, <2>2, Concatenated
  <2>4. Joined(puts, table, 6, byMethod, n)
    BY <2>3
  <2> QED
    BY <2>4 DEF Joined
<1>4. \A k \in 1 .. m : /\ puts[6 + 2 * k] = byMethod[2 * k]
                        /\ puts[6 + (2 * k - 1)] = byMethod[2 * k - 1]
  <2>1. \A k \in 1 .. m : 2 * k \in 1 .. 2 * m /\ 2 * k - 1 \in 1 .. 2 * m
    OBVIOUS
  <2> QED
    BY <1>3, <2>1
<1>5. ASSUME NEW i \in 1 .. 6 + 2 * m, NEW w, Covers(puts[i], w)
      PROVE  w \in HomeOf(o, i)
  <2>1. \A at, words : Covers(Put(at, words), w) => w \in at .. at + Len(words) - 1
    BY DEF Covers, Put
  <2>2. /\ o.vmt \in Nat /\ o.class_import \in Nat /\ o.field_import \in Nat /\ o.exports \in Nat
        /\ o.class_import >= o.vmt + inherited
    BY Zenon DEF RegionsOf
  <2>3. CASE i = 1
    <3>1. Len(Filled("string", f.string_words)) = f.string_words
      BY FileNumbers, FilledLength
    <3>2. Covers(Put(o.string_pool, Filled("string", f.string_words)), w)
      BY <1>1, <1>3, <1>5, <2>3
    <3>3. w \in o.string_pool .. o.string_pool + f.string_words - 1
      BY <2>1, <3>1, <3>2
    <3>4. o.string_pool \in Nat /\ o.total = o.string_pool + f.string_words
      BY Zenon DEF RegionsOf
    <3>5. w \in o.string_pool .. o.total - 1
      BY <3>3, <3>4, UpToNext, FileNumbers
    <3> QED
      BY <2>3, <3>5 DEF HomeOf, Home
  <2>4. CASE i = 2
    <3>1. w \in o.bytecodes .. o.bytecodes + MethodWords(f) - 1
      BY <1>1, <1>3, <1>5, <2>1, <2>4, CodeLength
    <3>2. o.bytecodes \in Nat /\ o.string_pool = o.bytecodes + MethodWords(f)
      BY Zenon DEF RegionsOf
    <3>3. w \in o.bytecodes .. o.string_pool - 1
      BY <3>1, <3>2, UpToNext, CodeIsFinite
    <3> QED
      BY <2>4, <3>3 DEF HomeOf, Home
  <2>5. CASE i = 3
    <3>1. w \in o.vmt .. o.vmt + inherited - 1
      BY <1>1, <1>3, <1>5, <2>1, <2>5, InheritedLength
    <3>2. w \in o.vmt .. o.class_import - 1
      BY <2>2, <3>1
    <3> QED
      BY <2>5, <3>2 DEF HomeOf, Home
  <2>6. CASE i = 4
    <3>1. PICK n \in Nat : n = WordsOf(4 * f.class_references)
      BY FileNumbers
    <3>2. Len(Filled("class", n)) = n
      BY <3>1, FilledLength
    <3>3. Covers(Put(o.class_import, Filled("class", n)), w)
      BY <1>1, <1>3, <1>5, <2>6, <3>1
    <3>4. w \in o.class_import .. o.class_import + n - 1
      BY <2>1, <3>2, <3>3
    <3>5. o.field_import = o.class_import + n
      BY <3>1, Zenon DEF RegionsOf
    <3>6. w \in o.class_import .. o.field_import - 1
      BY <2>2, <3>4, <3>5, UpToNext
    <3> QED
      BY <2>6, <3>6 DEF HomeOf, Home
  <2>7. CASE i = 5
    <3>1. PICK n \in Nat, imports \in Nat :
            n = Len(ImportWords(f)) /\ imports = f.imports /\ n <= 2 * imports
      BY ImportsWritten, FileNumbers
    <3>2. w \in o.field_import .. o.field_import + n - 1
      BY <1>1, <1>3, <1>5, <2>1, <2>7, <3>1
    <3>3. o.exports = o.field_import + 2 * imports
      BY <3>1, Zenon DEF RegionsOf
    <3>4. PICK room \in Nat : room = 2 * imports /\ n <= room
      BY <3>1
    <3>5. w \in o.field_import .. o.exports - 1
      BY <2>2, <3>1, <3>2, <3>3, <3>4, WithinNext
    <3> QED
      BY <2>7, <3>5 DEF HomeOf, Home
  <2>8. CASE i = 6
    <3>1. PICK words : words = SubSeq(ExportSequence(f), 1, 0)
      OBVIOUS
    <3>2. Len(words) = 0
      BY <3>1, MethodsExported
    <3>3. Covers(Put(o.exports, words), w)
      BY <1>1, <1>3, <1>5, <2>8, <3>1
    <3>4. w \in o.exports .. o.exports + 0 - 1
      BY <2>1, <3>2, <3>3
    <3> QED
      BY <2>2, <3>4
  <2>9. CASE i > 6 /\ (i % 2) = 0
    <3>1. PICK k \in 1 .. m : i = 6 + 2 * k
      <4>1. (i \div 2) - 3 \in 1 .. m /\ i = 6 + 2 * ((i \div 2) - 3)
        BY <1>5, <2>9
      <4> QED
        BY <4>1
    <3>2. Covers(Put(o.exports + k - 1, <<ExportSequence(f)[k]>>), w)
      BY <1>2, <1>4, <1>5, <3>1
    <3> PICK words : words = <<ExportSequence(f)[k]>>
      OBVIOUS
    <3>3. PICK at \in Int : at = o.exports + k - 1 /\ Len(words) = 1
      BY <2>2, <3>1
    <3>4. w = o.exports + k - 1
      <4>1. w \in at .. at + 1 - 1
        BY <2>1, <3>2, <3>3
      <4> QED
        BY <3>3, <4>1
    <3>5. o.exports + (i \div 2) - 4 = o.exports + k - 1
      BY <2>2, <3>1
    <3> QED
      BY <2>9, <3>4, <3>5 DEF HomeOf, Home
  <2>10. CASE i > 6 /\ (i % 2) = 1
    <3>1. PICK k \in 1 .. m : i = 6 + (2 * k - 1)
      <4>1. PICK h \in Int : i = 2 * h + 1
        <5>1. i \div 2 \in Int /\ i = 2 * (i \div 2) + 1
          BY <2>10
        <5> QED
          BY <5>1
      <4>2. h - 2 \in 1 .. m /\ i = 6 + (2 * (h - 2) - 1)
        BY <2>10, <4>1
      <4> QED
        BY <4>2
    <3>2. w \in o.vmt .. o.class_import - 1
      <4>1. CASE k \in Virtual(f)
        <5>1. Covers(Put(o.vmt + VmtIndex(f, inherited, found, k), <<MethodPointer(o, f, k)>>), w)
          BY <1>2, <1>4, <1>5, <3>1, <4>1
        <5>2. PICK slot \in Nat : slot = VmtIndex(f, inherited, found, k)
          BY <4>1, SlotsAreNumbers
        <5> PICK words : words = <<MethodPointer(o, f, k)>>
          OBVIOUS
        <5>3. w \in o.vmt + slot .. o.vmt + slot + 1 - 1
          <6>1. Len(words) = 1 /\ Covers(Put(o.vmt + slot, words), w)
            BY <5>1, <5>2
          <6> QED
            BY <2>1, <6>1
        <5>4. slot < o.class_import - o.vmt
          BY <4>1, <5>2 DEF VirtualMethodCount
        <5> QED
          BY <2>2, <5>2, <5>3, <5>4, InTable
      <4>2. CASE k \notin Virtual(f)
        <5>1. Covers(Put(o.vmt, <<>>), w)
          BY <1>2, <1>4, <1>5, <3>1, <4>2
        <5>2. w \in o.vmt .. o.vmt + 0 - 1
          BY <2>1, <5>1
        <5> QED
          BY <2>2, <5>2
      <4> QED
        BY <4>1, <4>2
    <3> QED
      BY <2>10, <3>2 DEF HomeOf, Home
  <2>11. i \in {1, 2, 3, 4, 5, 6} \/ (i > 6 /\ (i % 2) = 0) \/ (i > 6 /\ (i % 2) = 1)
    BY <1>5
  <2> QED
    BY <2>3, <2>4, <2>5, <2>6, <2>7, <2>8, <2>9, <2>10, <2>11
<1>6. \A k \in 1 .. m : puts[6 + 2 * k] = Put(o.exports + k - 1, <<ExportSequence(f)[k]>>)
  BY <1>2, <1>4
<1>7. \A i \in DOMAIN puts : \A w : Covers(puts[i], w) => w \in HomeOf(o, i)
  BY <1>3, <1>5
<1>8. /\ puts[1] = table[1] /\ puts[2] = table[2] /\ puts[4] = table[4] /\ puts[5] = table[5]
  <2>1. 1 \in 1 .. 6 /\ 2 \in 1 .. 6 /\ 4 \in 1 .. 6 /\ 5 \in 1 .. 6
    OBVIOUS
  <2> QED
    BY <1>3, <2>1
<1> QED
  BY <1>1, <1>3, <1>6, <1>7, <1>8 DEF PutsSettled

(* The tables, the code and the string pool follow each other.              *)
LEMMA RegionsAscend ==
  ASSUME NEW f \in Files, NEW inherited \in Nat, NEW o, RegionsOf(o, f, inherited)
  PROVE  /\ o.class_import <= o.field_import /\ o.field_import <= o.exports
         /\ o.exports <= o.bytecodes /\ o.bytecodes <= o.string_pool /\ o.string_pool <= o.total
<1>1. PICK references \in Nat, imports \in Nat, methods \in Nat, code \in Nat, strings \in Nat :
        /\ references = WordsOf(4 * f.class_references) /\ imports = 2 * f.imports
        /\ methods = Len(f.methods) /\ code = MethodWords(f) /\ strings = f.string_words
  <2>1. 2 * f.imports \in Nat
    BY FileNumbers
  <2> QED
    BY <2>1, FileNumbers
<1>2. \A a \in Nat : \A b \in Nat : a <= a + b
  OBVIOUS
<1>3. /\ o.field_import = o.class_import + references /\ o.exports = o.field_import + imports
      /\ o.bytecodes = o.exports + methods /\ o.string_pool = o.bytecodes + code
      /\ o.total = o.string_pool + strings
  BY <1>1, Zenon DEF RegionsOf
<1>4. /\ o.class_import \in Nat /\ o.field_import \in Nat /\ o.exports \in Nat
      /\ o.bytecodes \in Nat /\ o.string_pool \in Nat
  BY Zenon DEF RegionsOf
<1> QED
  BY <1>2, <1>3, <1>4

(* And they lie within the class.                                           *)
LEMMA HomesWithin ==
  ASSUME NEW vmt \in Nat, NEW class_import \in Nat, NEW field_import \in Nat, NEW exports \in Nat,
         NEW bytecodes \in Nat, NEW string_pool \in Nat, NEW total \in Nat, NEW m \in Nat,
         class_import <= field_import, field_import <= exports, bytecodes = exports + m,
         bytecodes <= string_pool, string_pool <= total,
         NEW i \in 1 .. 6 + 2 * m, i \in {1, 2, 4, 5} \/ (i > 6 /\ (i % 2) = 0),
         NEW w \in Nat,
         w \in Home(vmt, class_import, field_import, exports, bytecodes, string_pool, total, i)
  PROVE  w < total
<1>1. CASE i \in {1, 2, 4, 5}
  BY <1>1 DEF Home
<1>2. CASE i > 6 /\ (i % 2) = 0
  <2>1. w = exports + (i \div 2) - 4
    BY <1>2 DEF Home
  <2>2. i \div 2 \in Int /\ i \div 2 <= m + 3
    BY <1>2
  <2> QED
    BY <2>1, <2>2
<1> QED
  BY <1>1, <1>2

(* The puts that share their home with no other.                            *)
OwnHome(i) == i \in {1, 2, 4, 5} \/ (i > 6 /\ (i % 2) = 0)

(* Each put falls in its home.                                              *)
PutsAtHome(f, o, inherited, puts) ==
  /\ f \in Files /\ inherited \in Nat /\ RegionsOf(o, f, inherited)
  /\ DOMAIN puts = 1 .. 6 + 2 * Len(f.methods)
  /\ \A i \in DOMAIN puts : \A w : Covers(puts[i], w) => w \in HomeOf(o, i)

(* The i-th put writes words at a place no other put writes to.             *)
PutAlone(puts, i, at, words) ==
  /\ i \in DOMAIN puts /\ OwnHome(i)
  /\ at \in Nat /\ puts[i] = Put(at, words) /\ Len(words) \in Nat

(* A put that has its home for itself is read back as it was put.           *)
LEMMA RegularWord ==
  ASSUME NEW f, NEW o, NEW inherited, NEW puts, PutsAtHome(f, o, inherited, puts),
         NEW i, NEW at, NEW words, PutAlone(puts, i, at, words),
         NEW k \in 1 .. Len(words)
  PROVE  /\ at + k - 1 \in 0 .. o.total - 1
         /\ WordAfter(puts, at + k - 1) = words[k]
<1> /\ f \in Files /\ inherited \in Nat /\ RegionsOf(o, f, inherited)
    /\ DOMAIN puts = 1 .. 6 + 2 * Len(f.methods)
    /\ \A v \in DOMAIN puts : \A w : Covers(puts[v], w) => w \in HomeOf(o, v)
  BY Zenon DEF PutsAtHome
<1> /\ i \in DOMAIN puts /\ at \in Nat /\ puts[i] = Put(at, words) /\ Len(words) \in Nat
    /\ i \in {1, 2, 4, 5} \/ (i > 6 /\ (i % 2) = 0)
  BY DEF OwnHome, PutAlone
<1> PICK n \in Nat : n = Len(words)
  OBVIOUS
<1> PICK w \in Nat : w = at + k - 1
  OBVIOUS
<1>0. w \in at .. at + n - 1
  OBVIOUS
<1>1. puts[i].at = at /\ puts[i].words = words
  BY DEF Put
<1>2. Covers(puts[i], w)
  BY <1>1, <1>0 DEF Covers
<1> PICK m \in Nat : m = Len(f.methods)
  BY FileNumbers
<1> PICK vmt, class_import, field_import, exports, bytecodes, string_pool, total :
      /\ vmt = o.vmt /\ class_import = o.class_import /\ field_import = o.field_import
      /\ exports = o.exports /\ bytecodes = o.bytecodes /\ string_pool = o.string_pool
      /\ total = o.total
  OBVIOUS
<1>3. /\ vmt \in Nat /\ class_import \in Nat /\ field_import \in Nat /\ exports \in Nat
      /\ bytecodes \in Nat /\ string_pool \in Nat /\ total \in Nat
      /\ bytecodes = exports + m
  BY Zenon DEF RegionsOf
<1>4. /\ class_import <= field_import /\ field_import <= exports /\ bytecodes <= string_pool
      /\ string_pool <= total
  BY RegionsAscend
<1>5. ASSUME NEW j \in DOMAIN puts, Covers(puts[j], w) PROVE j = i
  <2> SUFFICES ASSUME j # i PROVE FALSE
    OBVIOUS
  <2>1. w \in HomeOf(o, i) /\ w \in HomeOf(o, j)
    BY <1>2, <1>5
  <2>2. /\ w \in Home(vmt, class_import, field_import, exports, bytecodes, string_pool, total, i)
        /\ w \in Home(vmt, class_import, field_import, exports, bytecodes, string_pool, total, j)
    BY <2>1 DEF HomeOf
  <2>3. i \in 1 .. 6 + 2 * m /\ j \in 1 .. 6 + 2 * m
    OBVIOUS
  <2> QED
    BY <1>3, <1>4, <2>2, <2>3, HomesApart
<1>6. DOMAIN puts \subseteq Nat
  OBVIOUS
<1>7. WordAfter(puts, w) = puts[i].words[w - puts[i].at + 1]
  BY <1>2, <1>5, <1>6, OnlyPut
<1>8. w - at + 1 = k
  OBVIOUS
<1>9. w < total
  <2>1. w \in Home(vmt, class_import, field_import, exports, bytecodes, string_pool, total, i)
    BY <1>2 DEF HomeOf
  <2>2. i \in 1 .. 6 + 2 * m
    OBVIOUS
  <2> QED
    BY <1>3, <1>4, <1>0, <2>1, <2>2, HomesWithin
<1>10. w \in 0 .. o.total - 1
  BY <1>3, <1>9, <1>0
<1> QED
  BY <1>1, <1>7, <1>8, <1>10

(* A regular class holds what was put in every region.                      *)
LEMMA RegularHolds ==
  ASSUME NEW n, Made(n), Regular(classes[n]),
         NEW o, o = classes[n].offsets, NEW f, f = classes[n].file
  PROVE  /\ \A k \in DOMAIN Filled("class", WordsOf(4 * f.class_references)) :
              classes[n].memory[o.class_import + k - 1]
                = Filled("class", WordsOf(4 * f.class_references))[k]
         /\ \A k \in DOMAIN ImportWords(f) :
              classes[n].memory[o.field_import + k - 1] = ImportWords(f)[k]
         /\ \A k \in DOMAIN ExportSequence(f) :
              classes[n].memory[o.exports + k - 1] = ExportSequence(f)[k]
         /\ \A k \in DOMAIN Bytecodes(f) :
              classes[n].memory[o.bytecodes + k - 1] = Bytecodes(f)[k]
         /\ \A k \in DOMAIN Filled("string", f.string_words) :
              classes[n].memory[o.string_pool + k - 1] = Filled("string", f.string_words)[k]
<1> PICK primary, inherited : primary = PrimaryAt(n) /\ inherited = Inherited(primary)
  OBVIOUS
<1>1. /\ f \in Files /\ inherited \in Nat /\ RegionsOf(o, f, inherited)
      /\ \E found \in [Virtual(f) -> Answers \cup {NoIndex}] : classes[n] = Class(f, primary, found)
  <2>1. PICK g \in Files : \E found \in [Virtual(g) -> Answers \cup {NoIndex}] :
            classes[n] = Class(g, primary, found) /\ inherited \in Nat /\ RegionsOf(o, g, inherited)
    BY Zenon DEF Made
  <2>2. PICK found \in [Virtual(g) -> Answers \cup {NoIndex}] :
            classes[n] = Class(g, primary, found) /\ inherited \in Nat /\ RegionsOf(o, g, inherited)
    BY <2>1
  <2>3. Class(g, primary, found).file = g
    BY DEF Class
  <2>4. f = g
    BY <2>2, <2>3
  <2> QED
    BY <2>1, <2>2, <2>4
<1>2. PICK found \in [Virtual(f) -> Answers \cup {NoIndex}] : classes[n] = Class(f, primary, found)
  BY <1>1
<1>3. PICK puts : puts = TablePuts(f, o, primary) \o MethodPuts(f, o, inherited, found)
  OBVIOUS
<1>4. /\ o = TableOffsets(f, inherited, found)
      /\ classes[n].memory = Memory(f, o, found, primary)
      /\ classes[n].slots = [j \in Virtual(f) |-> VmtIndex(f, inherited, found, j)]
  BY <1>2 DEF Class
<1>5. classes[n].memory = [w \in 0 .. o.total - 1 |-> WordAfter(puts, w)]
  BY <1>3, <1>4 DEF Memory
<1>6. f.statics = <<>> /\ f.fields = <<>>
  BY DEF Regular
<1>7. \A j \in Virtual(f) : VmtIndex(f, inherited, found, j) < VirtualMethodCount(o)
  BY <1>4 DEF Regular
<1>8. /\ DOMAIN puts = 1 .. 6 + 2 * Len(f.methods)
      /\ puts[1] = Put(o.string_pool, Filled("string", f.string_words))
      /\ puts[2] = Put(o.bytecodes, Bytecodes(f))
      /\ puts[4] = Put(o.class_import, Filled("class", WordsOf(4 * f.class_references)))
      /\ puts[5] = Put(o.field_import, ImportWords(f))
      /\ \A j \in 1 .. Len(f.methods) :
           puts[6 + 2 * j] = Put(o.exports + j - 1, <<ExportSequence(f)[j]>>)
      /\ \A i \in DOMAIN puts : \A w : Covers(puts[i], w) => w \in HomeOf(o, i)
  <2>1. PutsOf(f, o, primary, inherited, found, puts)
    BY <1>1, <1>2, <1>3, <1>6, <1>7, Zenon DEF PutsOf
  <2>2. PutsSettled(f, o, puts)
    BY <2>1, RegularPuts
  <2> QED
    BY <2>2, Zenon DEF PutsSettled
<1>9. /\ Len(f.methods) \in Nat
      /\ 1 \in DOMAIN puts /\ 2 \in DOMAIN puts /\ 4 \in DOMAIN puts /\ 5 \in DOMAIN puts
      /\ OwnHome(1) /\ OwnHome(2) /\ OwnHome(4) /\ OwnHome(5)
      /\ \A j \in 1 .. Len(f.methods) : 6 + 2 * j \in DOMAIN puts /\ OwnHome(6 + 2 * j)
  <2>1. PICK m \in Nat : m = Len(f.methods)
    BY <1>1, FileNumbers
  <2>2. DOMAIN puts = 1 .. 6 + 2 * m
    BY <1>8, <2>1
  <2>3. OwnHome(1) /\ OwnHome(2) /\ OwnHome(4) /\ OwnHome(5)
    BY DEF OwnHome
  <2>4. \A j \in 1 .. m : 6 + 2 * j \in DOMAIN puts /\ OwnHome(6 + 2 * j)
    BY <2>2 DEF OwnHome
  <2>5. 1 \in DOMAIN puts /\ 2 \in DOMAIN puts /\ 4 \in DOMAIN puts /\ 5 \in DOMAIN puts
    BY <2>2
  <2> QED
    BY <2>1, <2>3, <2>4, <2>5
<1>10. PutsAtHome(f, o, inherited, puts)
  BY <1>1, <1>8, Zenon DEF PutsAtHome
<1>11. ASSUME NEW i, NEW at, NEW words, PutAlone(puts, i, at, words)
       PROVE  \A k \in 1 .. Len(words) : classes[n].memory[at + k - 1] = words[k]
  <2> TAKE k \in 1 .. Len(words)
  <2>1. /\ at + k - 1 \in 0 .. o.total - 1
        /\ WordAfter(puts, at + k - 1) = words[k]
    BY <1>10, <1>11, RegularWord
  <2> PICK w : w = at + k - 1
    OBVIOUS
  <2> QED
    BY <1>5, <2>1
<1>12. /\ o.class_import \in Nat /\ o.field_import \in Nat /\ o.exports \in Nat
       /\ o.bytecodes \in Nat /\ o.string_pool \in Nat
  BY <1>1, Zenon DEF RegionsOf
<1>13. ASSUME NEW k \in DOMAIN Filled("class", WordsOf(4 * f.class_references))
       PROVE  classes[n].memory[o.class_import + k - 1]
                = Filled("class", WordsOf(4 * f.class_references))[k]
  <2>0. PICK words : words = Filled("class", WordsOf(4 * f.class_references))
    OBVIOUS
  <2>1. Len(words) \in Nat /\ k \in 1 .. Len(words)
    <3>1. PICK length \in Nat : length = WordsOf(4 * f.class_references)
      BY <1>1, FileNumbers
    <3>2. words = Filled("class", length) /\ k \in DOMAIN Filled("class", length)
      BY <2>0, <3>1
    <3> QED
      BY <3>2, FilledLength
  <2>2. PutAlone(puts, 4, o.class_import, words)
    BY <2>0, <1>8, <1>9, <1>12, <2>1 DEF PutAlone
  <2>3. classes[n].memory[o.class_import + k - 1] = words[k]
    BY <1>11, <2>1, <2>2
  <2> QED
    BY <2>0, <2>3
<1>14. ASSUME NEW k \in DOMAIN ImportWords(f)
       PROVE  classes[n].memory[o.field_import + k - 1] = ImportWords(f)[k]
  <2>0. PICK words : words = ImportWords(f)
    OBVIOUS
  <2>1. Len(words) \in Nat /\ k \in 1 .. Len(words)
    BY <2>0, <1>1, ImportsWritten
  <2>2. PutAlone(puts, 5, o.field_import, words)
    BY <2>0, <1>8, <1>9, <1>12, <2>1 DEF PutAlone
  <2>3. classes[n].memory[o.field_import + k - 1] = words[k]
    BY <1>11, <2>1, <2>2
  <2> QED
    BY <2>0, <2>3
<1>15. ASSUME NEW k \in DOMAIN ExportSequence(f)
       PROVE  classes[n].memory[o.exports + k - 1] = ExportSequence(f)[k]
  <2> PICK word, words : word = ExportSequence(f)[k] /\ words = <<word>>
    OBVIOUS
  <2>1. k \in 1 .. Len(f.methods)
    BY <1>1, <1>6, MethodsExported
  <2>2. PICK start \in Nat : start = o.exports + k - 1
    <3>1. PICK m \in Nat : m = Len(f.methods)
      BY <1>9
    <3>2. k \in Nat /\ k >= 1
      BY <2>1, <3>1
    <3>3. o.exports + k - 1 \in Nat
      BY <1>12, <3>2
    <3> QED
      BY <3>3
  <2>3. puts[6 + 2 * k] = Put(start, words)
    BY <1>8, <2>1, <2>2
  <2>4. Len(words) = 1 /\ words[1] = word /\ 1 \in 1 .. Len(words)
    OBVIOUS
  <2>5. classes[n].memory[start + 1 - 1] = words[1]
    <3>1. PutAlone(puts, 6 + 2 * k, start, words)
      BY <1>9, <2>1, <2>3, <2>4 DEF PutAlone
    <3> QED
      BY <1>11, <2>4, <3>1
  <2>6. start + 1 - 1 = start
    OBVIOUS
  <2> QED
    BY <2>2, <2>4, <2>5, <2>6
<1>16. ASSUME NEW k \in DOMAIN Bytecodes(f)
       PROVE  classes[n].memory[o.bytecodes + k - 1] = Bytecodes(f)[k]
  <2>0. PICK words : words = Bytecodes(f)
    OBVIOUS
  <2>1. Len(words) \in Nat /\ k \in 1 .. Len(words)
    BY <2>0, <1>1, CodeLength, CodeIsFinite
  <2>2. PutAlone(puts, 2, o.bytecodes, words)
    BY <2>0, <1>8, <1>9, <1>12, <2>1 DEF PutAlone
  <2>3. classes[n].memory[o.bytecodes + k - 1] = words[k]
    BY <1>11, <2>1, <2>2
  <2> QED
    BY <2>0, <2>3
<1>17. ASSUME NEW k \in DOMAIN Filled("string", f.string_words)
       PROVE  classes[n].memory[o.string_pool + k - 1] = Filled("string", f.string_words)[k]
  <2>0. PICK words : words = Filled("string", f.string_words)
    OBVIOUS
  <2>1. Len(words) \in Nat /\ k \in 1 .. Len(words)
    BY <2>0, <1>1, FileNumbers, FilledLength
  <2>2. PutAlone(puts, 1, o.string_pool, words)
    BY <2>0, <1>8, <1>9, <1>12, <2>1 DEF PutAlone
  <2>3. classes[n].memory[o.string_pool + k - 1] = words[k]
    BY <1>11, <2>1, <2>2
  <2> QED
    BY <2>0, <2>3
<1> QED
  BY <1>13, <1>14, <1>15, <1>16, <1>17

(* Every class of every state was made by impl_load_class.                  *)
LEMMA RegionInvHolds == Spec => []RegionInv
<1>1. Init => RegionInv
  <2> SUFFICES ASSUME Init PROVE RegionInv
    OBVIOUS
  <2>1. classes = <<>> /\ DOMAIN classes = {}
    BY DEF Init
  <2>2. classes \in Seq({})
    BY <2>1
  <2> QED
    BY <2>1, <2>2 DEF RegionInv
<1>2. RegionInv /\ [Next]_vars => RegionInv'
  <2> SUFFICES ASSUME RegionInv, [Next]_vars PROVE RegionInv'
    OBVIOUS
  <2>1. ASSUME NEW f \in Files, Load(f) PROVE RegionInv'
    BY <2>1, LoadKeepsRegions
  <2>2. CASE UNCHANGED vars
    <3>1. classes' = classes
      BY <2>2 DEF vars
    <3>2. \A n : PrimaryAt(n)' = PrimaryAt(n)
      BY <3>1 DEF PrimaryAt
    <3>3. \A n : Made(n)' <=> Made(n)
      BY <3>1, <3>2 DEF Made
    <3> QED
      BY <3>1, <3>3 DEF RegionInv
  <2> QED
    BY <2>1, <2>2 DEF Next
<1> QED
  BY <1>1, <1>2, PTL DEF Spec

(* The regions compute_class_sizes reserves for a class are what            *)
(* class_writer and impl_load_class need, for any files in any number: the  *)
(* statics, the inherited table of virtual methods, the imports and the     *)
(* code have room, and in a regular class every word of the imports, the    *)
(* exports, the code and the string pool is, when all is written, what was  *)
(* put there, although the loop over the methods writes after the copies.   *)
THEOREM RegionsStaySound == Spec => []RegionsSound
<1>1. ASSUME RegionInv PROVE WordsIntact
  <2>1. ASSUME NEW n \in DOMAIN classes, NEW o, o = classes[n].offsets,
               NEW f, f = classes[n].file, Regular(classes[n])
        PROVE  /\ \A w \in DOMAIN Filled("class", WordsOf(4 * f.class_references)) :
                    classes[n].memory[o.class_import + w - 1]
                      = Filled("class", WordsOf(4 * f.class_references))[w]
               /\ \A w \in DOMAIN ImportWords(f) :
                    classes[n].memory[o.field_import + w - 1] = ImportWords(f)[w]
               /\ \A w \in DOMAIN ExportSequence(f) :
                    classes[n].memory[o.exports + w - 1] = ExportSequence(f)[w]
               /\ \A w \in DOMAIN Bytecodes(f) :
                    classes[n].memory[o.bytecodes + w - 1] = Bytecodes(f)[w]
               /\ \A w \in DOMAIN Filled("string", f.string_words) :
                    classes[n].memory[o.string_pool + w - 1] = Filled("string", f.string_words)[w]
    <3>1. Made(n)
      BY <1>1 DEF RegionInv
    <3> QED
      BY <2>1, <3>1, RegularHolds
  <2> QED
    BY <2>1 DEF WordsIntact
<1>2. RegionInv => RegionsSound
  BY <1>1, RegionsHaveRoom DEF RegionsSound
<1> QED
  BY <1>2, RegionInvHolds, PTL
----------------------------------------------------------------------------
(* Exports: the order by which they are sorted is a strict total order on   *)
(* names of any length over any bytes, and how it and the comparator of the *)
(* search relate to each other.                                             *)

Name == Seq(Nat)

(* A non-empty set of positions has a first.                                *)
LEMMA FirstPosition ==
  ASSUME NEW S \in SUBSET Nat, S # {}
  PROVE  \E i \in S : \A j \in S : i <= j
<1>1. PICK i \in S : \A j \in S : ~(<<j, i>> \in OpToRel(<, Nat))
  BY NatLessThanWellFounded, WFMin
<1>2. ASSUME NEW j \in S PROVE i <= j
  <2>1. i \in Nat /\ j \in Nat
    OBVIOUS
  <2>2. ~(j < i)
    BY <1>1, <2>1, Zenon DEF OpToRel
  <2> QED
    BY <2>1, <2>2
<1> QED
  BY <1>2

(* memcmp finds a difference where there is one, and one name is less.      *)
LEMMA MemcmpDecides ==
  ASSUME NEW a \in Name, NEW b \in Name, ~MemcmpEqual(a, b)
  PROVE  MemcmpLess(a, b) \/ MemcmpLess(b, a)
<1> DEFINE D == {i \in DOMAIN a \cap DOMAIN b : a[i] # b[i]}
<1>1. D \in SUBSET Nat /\ D # {}
  BY DEF MemcmpEqual, Name
<1>2. PICK i \in D : \A j \in D : i <= j
  BY <1>1, FirstPosition
<1>3. DiffersFirst(a, b, i) /\ DiffersFirst(b, a, i)
  BY <1>2 DEF DiffersFirst, Name
<1>4. a[i] \in Nat /\ b[i] \in Nat /\ a[i] # b[i]
  BY <1>2 DEF Name
<1> QED
  BY <1>2, <1>3, <1>4 DEF MemcmpLess

(* memcmp gives one sign.                                                   *)
LEMMA MemcmpOneSign ==
  ASSUME NEW a \in Name, NEW b \in Name, MemcmpLess(a, b)
  PROVE  ~MemcmpLess(b, a) /\ ~MemcmpEqual(a, b)
<1>1. PICK i \in DOMAIN a : DiffersFirst(a, b, i) /\ a[i] < b[i]
  BY DEF MemcmpLess
<1>2. i \in Nat /\ a[i] \in Nat /\ b[i] \in Nat
  BY <1>1 DEF DiffersFirst, Name
<1>3. ~MemcmpEqual(a, b)
  BY <1>1 DEF DiffersFirst, MemcmpEqual
<1>4. ASSUME MemcmpLess(b, a) PROVE FALSE
  <2>1. PICK j \in DOMAIN b : DiffersFirst(b, a, j) /\ b[j] < a[j]
    BY <1>4 DEF MemcmpLess
  <2>2. j \in Nat /\ a[j] \in Nat /\ b[j] \in Nat
    BY <2>1 DEF DiffersFirst, Name
  <2>3. i = j
    BY <1>1, <1>2, <2>1, <2>2 DEF DiffersFirst
  <2> QED
    BY <1>1, <1>2, <2>1, <2>2, <2>3
<1> QED
  BY <1>3, <1>4

(* No name is before itself, and of two names at most one is before the     *)
(* other: field::operator< is what std::sort asks for.                      *)
THEOREM FieldOrderAsymmetric ==
  ASSUME NEW a \in Name, NEW b \in Name, FieldLess(a, b)
  PROVE  ~FieldLess(b, a) /\ a # b
<1>1. Len(a) \in Nat /\ Len(b) \in Nat
  BY DEF Name
<1>2. MemcmpEqual(a, b) <=> MemcmpEqual(b, a)
  BY DEF MemcmpEqual
<1>3. ~FieldLess(b, a)
  BY <1>1, <1>2, MemcmpOneSign DEF FieldLess
<1> QED
  BY <1>3

(* Of two different names one is before the other.                          *)
THEOREM FieldOrderTotal ==
  ASSUME NEW a \in Name, NEW b \in Name, a # b
  PROVE  FieldLess(a, b) \/ FieldLess(b, a)
<1>1. Len(a) \in Nat /\ Len(b) \in Nat /\ DOMAIN a = 1 .. Len(a) /\ DOMAIN b = 1 .. Len(b)
  BY DEF Name
<1>2. CASE ~MemcmpEqual(a, b)
  BY <1>2, MemcmpDecides DEF FieldLess
<1>3. CASE MemcmpEqual(a, b) /\ Len(a) = Len(b)
  <2>1. \A i \in 1 .. Len(a) : a[i] = b[i]
    BY <1>1, <1>3 DEF MemcmpEqual
  <2>2. a = b
    BY <1>1, <1>3, <2>1 DEF Name
  <2> QED
    BY <2>2
<1>4. CASE MemcmpEqual(a, b) /\ Len(a) # Len(b)
  <2>1. MemcmpEqual(b, a)
    BY <1>4 DEF MemcmpEqual
  <2>2. \A m, n \in Nat : m # n => m < n \/ n < m
    OBVIOUS
  <2>3. Len(a) < Len(b) \/ Len(b) < Len(a)
    BY <1>1, <1>4, <2>2, Zenon
  <2> QED
    BY <1>4, <2>1, <2>3, Zenon DEF FieldLess
<1> QED
  BY <1>2, <1>3, <1>4

(* And the order is transitive.                                             *)
THEOREM FieldOrderTransitive ==
  ASSUME NEW a \in Name, NEW b \in Name, NEW c \in Name,
         FieldLess(a, b), FieldLess(b, c)
  PROVE  FieldLess(a, c)
<1>1. /\ Len(a) \in Nat /\ Len(b) \in Nat /\ Len(c) \in Nat
      /\ DOMAIN a = 1 .. Len(a) /\ DOMAIN b = 1 .. Len(b) /\ DOMAIN c = 1 .. Len(c)
      /\ \A i \in DOMAIN a : a[i] \in Nat
      /\ \A i \in DOMAIN b : b[i] \in Nat
      /\ \A i \in DOMAIN c : c[i] \in Nat
  BY DEF Name
<1>2. CASE MemcmpLess(b, a) /\ MemcmpLess(c, b)
  <2>1. PICK i \in DOMAIN b : DiffersFirst(b, a, i) /\ b[i] < a[i]
    BY <1>2 DEF MemcmpLess
  <2>2. PICK j \in DOMAIN c : DiffersFirst(c, b, j) /\ c[j] < b[j]
    BY <1>2 DEF MemcmpLess
  <2>3. CASE i <= j
    <3>1. DiffersFirst(c, a, i) /\ c[i] < a[i] /\ i \in DOMAIN c
      BY <1>1, <2>1, <2>2, <2>3 DEF DiffersFirst
    <3> QED
      BY <3>1 DEF FieldLess, MemcmpLess
  <2>4. CASE j < i
    <3>1. DiffersFirst(c, a, j) /\ c[j] < a[j]
      BY <1>1, <2>1, <2>2, <2>4 DEF DiffersFirst
    <3> QED
      BY <3>1, <2>2 DEF FieldLess, MemcmpLess
  <2> QED
    BY <1>1, <2>1, <2>2, <2>3, <2>4
<1>3. CASE MemcmpLess(b, a) /\ MemcmpEqual(b, c) /\ Len(b) < Len(c)
  <2>1. PICK i \in DOMAIN b : DiffersFirst(b, a, i) /\ b[i] < a[i]
    BY <1>3 DEF MemcmpLess
  <2>2. DiffersFirst(c, a, i) /\ c[i] < a[i] /\ i \in DOMAIN c
    BY <1>1, <1>3, <2>1 DEF DiffersFirst, MemcmpEqual
  <2> QED
    BY <2>2 DEF FieldLess, MemcmpLess
<1>4. CASE MemcmpEqual(a, b) /\ Len(a) < Len(b) /\ MemcmpLess(c, b)
  <2>1. PICK j \in DOMAIN c : DiffersFirst(c, b, j) /\ c[j] < b[j]
    BY <1>4 DEF MemcmpLess
  <2>2. CASE j <= Len(a)
    <3>1. DiffersFirst(c, a, j) /\ c[j] < a[j]
      BY <1>1, <1>4, <2>1, <2>2 DEF DiffersFirst, MemcmpEqual
    <3> QED
      BY <2>1, <3>1 DEF FieldLess, MemcmpLess
  <2>3. CASE j > Len(a)
    <3>1. MemcmpEqual(a, c) /\ Len(a) < Len(c)
      BY <1>1, <1>4, <2>1, <2>3 DEF DiffersFirst, MemcmpEqual
    <3> QED
      BY <3>1 DEF FieldLess
  <2> QED
    BY <1>1, <2>1, <2>2, <2>3
<1>5. CASE MemcmpEqual(a, b) /\ Len(a) < Len(b) /\ MemcmpEqual(b, c) /\ Len(b) < Len(c)
  <2>1. MemcmpEqual(a, c) /\ Len(a) < Len(c)
    BY <1>1, <1>5 DEF MemcmpEqual
  <2> QED
    BY <2>1 DEF FieldLess
<1> QED
  BY <1>2, <1>3, <1>4, <1>5 DEF FieldLess

(* What the search relies on, and what it lacks.  It never takes a name     *)
(* sorted after the one it looks for to be before it; it takes one sorted   *)
(* before it to be so if, and only if, that one is shorter.                 *)
THEOREM SearchAgainstSort ==
  ASSUME NEW a \in Name, NEW b \in Name, FieldLess(a, b)
  PROVE  ~SearchLess(b, a) /\ (SearchLess(a, b) <=> Len(a) < Len(b))
<1>1. Len(a) \in Nat /\ Len(b) \in Nat
  BY DEF Name
<1>2. SearchLess(b, a) <=> (~MemcmpLess(b, a) /\ Len(b) < Len(a))
  BY DEF SearchLess
<1>3. SearchLess(a, b) <=> (~MemcmpLess(a, b) /\ Len(a) < Len(b))
  BY DEF SearchLess
<1>4. ~MemcmpLess(a, b)
  <2>1. CASE MemcmpLess(b, a)
    BY <2>1, MemcmpOneSign
  <2>2. CASE MemcmpEqual(a, b)
    BY <2>2, MemcmpOneSign
  <2> QED
    BY <2>1, <2>2 DEF FieldLess
<1> QED
  BY <1>1, <1>2, <1>3, <1>4 DEF FieldLess

(* What lower_bound settles on: the position before it is of a name that is *)
(* less, the one it is at, if any, is not.  This holds in any table, sorted *)
(* or not.                                                                  *)
Settled(table, name, first, last, at) ==
  /\ at \in first .. last
  /\ at > first => SearchLess(table[at].name, name)
  /\ at < last => ~SearchLess(table[at + 1].name, name)

(* The halves of a search, in numbers.                                      *)
LEMMA Halves ==
  ASSUME NEW len \in Nat \ {0}
  PROVE  /\ len \div 2 \in 0 .. len - 1
         /\ len - (len \div 2) - 1 \in 0 .. len - 1
OBVIOUS

(* Wherever a search is narrowed to, it settles within.                     *)
LEMMA BoundSettles ==
  ASSUME NEW table, Len(table) \in Nat, NEW name
  PROVE  Settled(table, name, 0, Len(table), LowerBound(table, name))
<1> DEFINE N == Len(table)
           Step(f, len) ==
             [first \in 0 .. N - len |->
                LET half == len \div 2
                    mid  == first + half
                IN  IF len = 0 THEN first
                    ELSE IF SearchLess(table[mid + 1].name, name)
                         THEN f[len - half - 1][mid + 1]
                         ELSE f[half][first]]
           Good(k) == \E g : g = [len \in 0 .. k |-> Step(g, len)]
           bound == CHOOSE f : f = [len \in 0 .. N |-> Step(f, len)]
           Within(len) == \A first \in 0 .. N - len :
                            Settled(table, name, first, first + len, bound[len][first])
           Astray == {len \in 0 .. N : ~Within(len)}
           Bad == {k \in 0 .. N : ~Good(k)}
<1>0. N \in Nat
  OBVIOUS
<1> HIDE DEF N
<1>1. ASSUME NEW k \in 0 .. N, NEW g, NEW h, \A j \in 0 .. k - 1 : g[j] = h[j]
      PROVE  Step(g, k) = Step(h, k)
  <2>1. CASE k = 0
    BY <2>1
  <2>2. CASE k # 0
    <3>1. k \in Nat \ {0}
      BY <1>0, <2>2
    <3>2. k \div 2 \in 0 .. k - 1 /\ k - (k \div 2) - 1 \in 0 .. k - 1
      BY <3>1, Halves
    <3>3. g[k \div 2] = h[k \div 2] /\ g[k - (k \div 2) - 1] = h[k - (k \div 2) - 1]
      BY <1>1, <3>2
    <3> QED
      BY <3>3
  <2> QED
    BY <2>1, <2>2
<1> HIDE DEF Step
<1>2. Good(N)
  <2>1. SUFFICES ASSUME Bad # {} PROVE FALSE
    BY <1>0
  <2>2. PICK k \in Bad : \A j \in Bad : k <= j
    <3>1. Bad \in SUBSET Nat
      BY <1>0
    <3> HIDE DEF Bad
    <3> QED
      BY <2>1, <3>1, FirstPosition
  <2>3. k \in 0 .. N
    OBVIOUS
  <2>4. \E g : \A j \in 0 .. k - 1 : g[j] = Step(g, j)
    <3>1. CASE k = 0
      BY <3>1
    <3>2. CASE k # 0
      <4>1. k - 1 \in 0 .. N /\ ~(k <= k - 1)
        BY <1>0, <2>3, <3>2
      <4>2. Good(k - 1)
        <5> HIDE DEF Good
        <5> QED
          BY <2>2, <4>1
      <4>3. PICK g : g = [len \in 0 .. k - 1 |-> Step(g, len)]
        BY <4>2
      <4>4. \A j \in 0 .. k - 1 : g[j] = Step(g, j)
        BY <4>3
      <4> QED
        BY <4>4
    <3> QED
      BY <3>1, <3>2
  <2>5. PICK g : \A j \in 0 .. k - 1 : g[j] = Step(g, j)
    BY <2>4
  <2> DEFINE h == [len \in 0 .. k |-> IF len = k THEN Step(g, k) ELSE g[len]]
  <2>6. \A j \in 0 .. k : Step(h, j) = Step(g, j)
    <3>1. TAKE j \in 0 .. k
    <3>2. j \in 0 .. N
      BY <1>0, <2>3
    <3>3. \A i \in 0 .. j - 1 : h[i] = g[i]
      BY <1>0, <2>3
    <3> HIDE DEF h
    <3> QED
      BY <1>1, <3>2, <3>3
  <2>7. \A j \in 0 .. k : h[j] = Step(h, j)
    <3>1. \A j \in 0 .. k : j # k => j \in 0 .. k - 1
      BY <1>0, <2>3
    <3> QED
      BY <2>5, <2>6, <3>1
  <2>8. h = [len \in 0 .. k |-> Step(h, len)]
    BY <2>7
  <2>9. Good(k)
    BY <2>8
  <2> HIDE DEF Good
  <2> QED
    BY <2>2, <2>9
<1>3. bound = [len \in 0 .. N |-> Step(bound, len)]
  BY <1>2
<1> HIDE DEF bound
<1>4. Astray = {}
  <2>1. SUFFICES ASSUME Astray # {} PROVE FALSE
    OBVIOUS
  <2>2. PICK len \in Astray : \A j \in Astray : len <= j
    <3>1. Astray \in SUBSET Nat
      BY <1>0
    <3> HIDE DEF Astray
    <3> QED
      BY <2>1, <3>1, FirstPosition
  <2>3. len \in 0 .. N /\ len \in Nat
    BY <1>0
  <2>4. \A j \in 0 .. len - 1 : Within(j)
    <3>1. \A j \in 0 .. len - 1 : j \in 0 .. N /\ ~(len <= j)
      BY <1>0, <2>3
    <3> HIDE DEF Within
    <3> QED
      BY <2>2, <3>1
  <2>5. Within(len)
    <3> SUFFICES ASSUME NEW first \in 0 .. N - len
                 PROVE  Settled(table, name, first, first + len, bound[len][first])
      OBVIOUS
    <3>0. bound[len] = Step(bound, len)
      BY <1>3, <2>3
    <3>1. CASE len = 0
      <4>1. bound[len][first] = first
        BY <3>0, <3>1 DEF Step
      <4> QED
        BY <1>0, <2>3, <3>1, <4>1 DEF Settled
    <3>2. CASE len # 0
      <4>1. PICK half \in 0 .. len - 1 : half = len \div 2
        BY <2>3, <3>2, Halves
      <4> DEFINE mid == first + half
      <4>2. /\ half \in 0 .. len - 1 /\ len - half - 1 \in 0 .. len - 1
            /\ first \in 0 .. N - half /\ mid + 1 \in 0 .. N - (len - half - 1)
            /\ (mid + 1) + (len - half - 1) = first + len /\ first + half = mid
            /\ mid \in first .. first + len - 1 /\ mid \in Nat /\ first \in Nat
        BY <1>0, <2>3, <3>2, <4>1
      <4>3. bound[len][first] =
              IF SearchLess(table[mid + 1].name, name)
              THEN bound[len - half - 1][mid + 1] ELSE bound[half][first]
        BY <3>0, <3>2, <4>1 DEF Step
      <4>4. Settled(table, name, first, mid, bound[half][first])
        BY <2>4, <4>2
      <4>5. Settled(table, name, mid + 1, first + len, bound[len - half - 1][mid + 1])
        BY <2>4, <4>2
      <4> HIDE DEF mid
      <4>6. CASE SearchLess(table[mid + 1].name, name)
        <5>1. PICK at : at = bound[len][first]
          OBVIOUS
        <5>2. Settled(table, name, mid + 1, first + len, at)
          BY <4>3, <4>5, <4>6, <5>1
        <5>3. at \in first .. first + len
          BY <2>3, <4>2, <5>2 DEF Settled
        <5>4. at > first => SearchLess(table[at].name, name)
          <6>1. at = mid + 1 \/ at > mid + 1
            BY <2>3, <4>2, <5>2 DEF Settled
          <6> QED
            BY <4>6, <5>2, <6>1 DEF Settled
        <5> QED
          BY <5>1, <5>2, <5>3, <5>4 DEF Settled
      <4>7. CASE ~SearchLess(table[mid + 1].name, name)
        <5>1. PICK at : at = bound[len][first]
          OBVIOUS
        <5>2. Settled(table, name, first, mid, at)
          BY <4>3, <4>4, <4>7, <5>1
        <5>3. at \in first .. first + len
          BY <2>3, <4>2, <5>2 DEF Settled
        <5>4. at < first + len => ~SearchLess(table[at + 1].name, name)
          <6>1. at = mid \/ at < mid
            BY <2>3, <4>2, <5>2 DEF Settled
          <6> QED
            BY <4>7, <5>2, <6>1 DEF Settled
        <5> QED
          BY <5>1, <5>2, <5>3, <5>4 DEF Settled
      <4> QED
        BY <4>6, <4>7
    <3> QED
      BY <3>1, <3>2
  <2> HIDE DEF Within
  <2> QED
    BY <2>2, <2>5
<1>5. Settled(table, name, 0, 0 + N, bound[N][0])
  <2>1. N \in 0 .. N /\ 0 \in 0 .. N - N
    BY <1>0
  <2> QED
    BY <1>4, <2>1
<1>6. LowerBound(table, name) = bound[N][0] /\ 0 + N = N
  BY <1>0 DEF LowerBound, bound, Step, N
<1> QED
  BY <1>5, <1>6 DEF N

(* The tables and the names of the inputs are of bytes, which are numbers.  *)
LEMMA TablesTyped ==
  ASSUME NEW tables \in Chains, NEW c \in DOMAIN tables
  PROVE  /\ tables[c] \in Seq(ExportEntries) /\ Len(tables[c]) \in Nat
         /\ DOMAIN tables[c] = 1 .. Len(tables[c]) /\ c \in Nat
         /\ \A k \in DOMAIN tables[c] :
              tables[c][k] \in ExportEntries /\ tables[c][k].name \in Name
<1>1. tables \in Seq(Seq(ExportEntries))
  BY InputsAssumption
<1>2. tables[c] \in Seq(ExportEntries) /\ c \in Nat
  BY <1>1
<1>3. \A k \in DOMAIN tables[c] : tables[c][k] \in ExportEntries
  BY <1>2
<1>4. ByteBase \in Nat
  BY ByteBaseAssumption
<1>5. Seq(0 .. ByteBase - 1) \subseteq Name
  BY <1>4 DEF Name
<1>6. \A e \in ExportEntries : e.name \in Name
  BY <1>5 DEF ExportEntries
<1> QED
  BY <1>2, <1>3, <1>6

(* Of two names of a sorted table, the later one is never taken to be       *)
(* before the other, nor is a name before itself.                           *)
LEMMA NotBefore ==
  ASSUME NEW tables \in Chains, NEW c \in DOMAIN tables, SortedByField(tables[c]),
         NEW i \in DOMAIN tables[c], NEW j \in DOMAIN tables[c], i <= j
  PROVE  ~SearchLess(tables[c][j].name, tables[c][i].name)
<1>1. tables[c][i].name \in Name /\ tables[c][j].name \in Name /\ i \in Nat /\ j \in Nat
  BY TablesTyped
<1>2. CASE i = j
  <2>1. Len(tables[c][i].name) \in Nat
    BY <1>1 DEF Name
  <2> QED
    BY <1>2, <2>1 DEF SearchLess
<1>3. CASE i < j
  <2>1. FieldLess(tables[c][i].name, tables[c][j].name)
    BY <1>3 DEF SortedByField
  <2> QED
    BY <1>1, <2>1, SearchAgainstSort
<1> QED
  BY <1>1, <1>2, <1>3

(* In a sorted table the search for a name never goes past it.              *)
LEMMA StopsShort ==
  ASSUME NEW tables \in Chains, NEW c \in DOMAIN tables, SortedByField(tables[c]),
         NEW i \in DOMAIN tables[c]
  PROVE  LowerBound(tables[c], tables[c][i].name) \in 0 .. i - 1
<1> DEFINE table == tables[c]
           name  == table[i].name
<1>1. Len(table) \in Nat /\ DOMAIN table = 1 .. Len(table)
  BY TablesTyped
<1>2. PICK at : at = LowerBound(table, name)
  OBVIOUS
<1>3. Settled(table, name, 0, Len(table), at)
  BY <1>1, <1>2, BoundSettles
<1>4. at \in 0 .. Len(table) /\ (at > 0 => SearchLess(table[at].name, name))
  BY <1>1, <1>3 DEF Settled
<1>5. ASSUME at >= i PROVE FALSE
  <2>1. at \in DOMAIN table /\ i <= at /\ at > 0
    BY <1>1, <1>4, <1>5
  <2>2. ~SearchLess(table[at].name, name)
    BY <2>1, NotBefore
  <2> QED
    BY <1>4, <2>1, <2>2
<1> QED
  BY <1>1, <1>2, <1>4, <1>5

(* Every search given is over tables of exports.                            *)
LEMMA SearchesGiven == InputSpec => [](input.kind = "search" => input.tables \in Chains)
<1> DEFINE Given == input.kind = "search" => input.tables \in Chains
<1>1. NoInput => Given
  BY DEF NoInput
<1>2. Given /\ [SomeInput]_input => Given'
  BY DEF SomeInput, Binary, Word, Array, ArgTypes, Pair, File, Search
<1> QED
  BY <1>1, <1>2, PTL DEF InputSpec

(* In a table sorted by field::operator<, of any names, the search of       *)
(* reflect_index never goes past the name it looks for, and always finds    *)
(* the first.                                                               *)
THEOREM SearchesStopShort == InputSpec => []SearchStopsShort
<1>1. ASSUME input.kind = "search" => input.tables \in Chains PROVE SearchStopsShort
  <2> SUFFICES ASSUME input.kind = "search",
                      NEW c \in DOMAIN input.tables, SortedByField(input.tables[c]),
                      NEW i \in DOMAIN input.tables[c]
               PROVE  LET table == input.tables[c] IN
                        /\ LowerBound(table, table[i].name) < i
                        /\ i = 1 => ReflectIndex(table, table[i].name).found
    BY DEF SearchStopsShort
  <2> DEFINE table == input.tables[c]
  <2>1. PICK at : at = LowerBound(table, table[i].name)
    OBVIOUS
  <2>2. at \in 0 .. i - 1
    BY <1>1, <2>1, StopsShort
  <2>3. i \in Nat /\ Len(table) \in Nat /\ i \in 1 .. Len(table)
    BY <1>1, TablesTyped
  <2>4. at < i
    BY <2>2, <2>3
  <2>5. i = 1 => ReflectIndex(table, table[i].name).found
    <3>1. i = 1 => at = 0 /\ at # Len(table) /\ at + 1 = i
      BY <2>2, <2>3
    <3> QED
      BY <2>1, <3>1 DEF ReflectIndex
  <2> QED
    BY <2>1, <2>4, <2>5
<1> QED
  BY <1>1, SearchesGiven, PTL

(* In a graded table every name is found where it is.                       *)
LEMMA GradedFinds ==
  ASSUME NEW tables \in Chains, NEW c \in DOMAIN tables, Graded(tables[c]),
         NEW i \in DOMAIN tables[c]
  PROVE  ReflectIndex(tables[c], tables[c][i].name).found
<1> DEFINE table == tables[c]
           name  == table[i].name
<1>1. Len(table) \in Nat /\ DOMAIN table = 1 .. Len(table) /\ i \in 1 .. Len(table)
  BY TablesTyped
<1>2. PICK at : at = LowerBound(table, name)
  OBVIOUS
<1>3. Settled(table, name, 0, Len(table), at)
  BY <1>1, <1>2, BoundSettles
<1>4. at \in 0 .. i - 1
  BY <1>2, StopsShort DEF Graded
<1> HIDE DEF table
<1>5. ASSUME at < i - 1 PROVE FALSE
  <2>1. at + 1 \in DOMAIN table /\ at + 1 < i /\ at < Len(table)
    BY <1>1, <1>4, <1>5
  <2>2. FieldLess(table[at + 1].name, name) /\ Len(table[at + 1].name) < Len(name)
    BY <2>1 DEF Graded, SortedByField, table
  <2>3. table[at + 1].name \in Name /\ name \in Name
    BY <2>1, TablesTyped DEF table
  <2>4. SearchLess(table[at + 1].name, name)
    BY <2>2, <2>3, SearchAgainstSort
  <2> QED
    BY <1>3, <2>1, <2>4 DEF Settled
<1>6. at + 1 = i /\ at # Len(table)
  BY <1>1, <1>4, <1>5
<1> QED
  BY <1>2, <1>6 DEF ReflectIndex, table

(* The bytes the search reads at the first entry are those of its data_idx. *)
LEMMA FirstOffset ==
  ASSUME NEW tables \in Chains, NEW c \in DOMAIN tables, Len(tables[c]) # 0
  PROVE  Offset(tables[c], 0) = Number(tables[c][1].data)
<1> DEFINE e == tables[c][1]
<1>1. 1 \in DOMAIN tables[c]
  BY TablesTyped
<1>2. e \in ExportEntries
  BY <1>1, TablesTyped
<1>3. e.string \in [1 .. 4 -> 0 .. ByteBase - 1] /\ e.data \in [1 .. 3 -> 0 .. ByteBase - 1]
  BY <1>2 DEF ExportEntries
<1> HIDE DEF e
<1>4. OfLength(e.string, 4) /\ OfLength(e.data, 3) /\ OfLength(<<e.type>>, 1)
  BY <1>3 DEF OfLength
<1>5. PICK sd : sd = e.string \o e.data
  OBVIOUS
<1>6. OfLength(sd, 7) /\ \A k \in 1 .. 3 : sd[4 + k] = e.data[k]
  <2>1. Joined(sd, e.string, 4, e.data, 3)
    BY <1>4, <1>5, Concatenated
  <2>2. sd \in Seq(0 .. ByteBase - 1)
    <3>1. e.string \in Seq(0 .. ByteBase - 1) /\ e.data \in Seq(0 .. ByteBase - 1)
      BY <1>3, <1>4, SequenceOf DEF OfLength
    <3> QED
      BY <1>5, <3>1
  <2>3. DOMAIN sd = 1 .. 7 /\ \A k \in 1 .. 3 : sd[4 + k] = e.data[k]
    BY <2>1 DEF Joined
  <2> QED
    BY <2>2, <2>3 DEF OfLength
<1>7. \A k \in 1 .. 3 : ByteOf(tables[c], 0 + 3 + k) = e.data[k]
  <2>1. PICK all : all = sd \o <<e.type>>
    OBVIOUS
  <2>2. Joined(all, sd, 7, <<e.type>>, 1)
    BY <1>4, <1>6, <2>1, Concatenated
  <2>3. TAKE k \in 1 .. 3
  <2>4. (0 + 3 + k) \div 8 = 0 /\ ((0 + 3 + k) % 8) + 1 = 4 + k
    <3>1. k = 1 \/ k = 2 \/ k = 3
      OBVIOUS
    <3> QED
      BY <3>1
  <2>5. ByteOf(tables[c], 0 + 3 + k) = all[4 + k]
    <3>1. ByteOf(tables[c], 0 + 3 + k) =
            LET entry == tables[c][((0 + 3 + k) \div 8) + 1]
            IN  (entry.string \o entry.data \o <<entry.type>>)[((0 + 3 + k) % 8) + 1]
      BY DEF ByteOf
    <3>2. ((0 + 3 + k) \div 8) + 1 = 1
      BY <2>4
    <3>3. ByteOf(tables[c], 0 + 3 + k) = (e.string \o e.data \o <<e.type>>)[4 + k]
      BY <2>4, <3>1, <3>2, Zenon DEF e
    <3> QED
      BY <1>5, <2>1, <3>3
  <2>6. 4 + k \in 1 .. 7
    OBVIOUS
  <2>7. all[4 + k] = sd[4 + k]
    BY <2>2, <2>6 DEF Joined
  <2> QED
    BY <1>6, <2>5, <2>7
<1>8. Offset(tables[c], 0) = Number([k \in 1 .. 3 |-> e.data[k]])
  BY <1>7 DEF Offset
<1> QED
  BY <1>8 DEF Number, e

(* A lookup over the class and its superclasses answers at an export that   *)
(* has the name asked for, with its own data_idx if it is the first of its  *)
(* table; and where names grow it finds every name, in the first class that *)
(* has it.                                                                  *)
THEOREM LookupsAnswer == InputSpec => []LookupAnswers
<1>1. ASSUME input.kind = "search" => input.tables \in Chains PROVE LookupAnswers
  <2> SUFFICES ASSUME input.kind = "search", NEW name \in Sought
               PROVE  LET answer == ReflectRecursively(input.tables, name)
                          entry  == input.tables[answer.class][answer.position + 1]
                      IN  /\ answer.found =>
                               /\ entry.name = name
                               /\ answer.position = 0 => answer.index = Number(entry.data)
                          /\ \A k \in DOMAIN input.tables :
                               Graded(input.tables[k]) /\ name \in NamesOf(input.tables[k]) =>
                                 answer.found /\ answer.class <= k
    BY DEF LookupAnswers
  <2> DEFINE tables == input.tables
             here(k)   == ReflectIndex(tables[k], name)
             answering == {k \in DOMAIN tables : here(k).found}
             first     == CHOOSE k \in answering : \A j \in answering : k <= j
             answer    == ReflectRecursively(tables, name)
  <2>0. tables \in Chains
    BY <1>1
  <2>1. CASE answering = {}
    <3>1. ~answer.found
      BY <2>1 DEF ReflectRecursively, NoAnswer
    <3>2. ASSUME NEW k \in DOMAIN tables, Graded(tables[k]), name \in NamesOf(tables[k])
          PROVE  FALSE
      <4>1. PICK i \in DOMAIN tables[k] : tables[k][i].name = name
        BY <3>2 DEF NamesOf
      <4>2. here(k).found
        BY <2>0, <3>2, <4>1, GradedFinds
      <4> QED
        BY <2>1, <4>2
    <3> QED
      BY <3>1, <3>2
  <2>2. CASE answering # {}
    <3>1. answering \in SUBSET Nat
      BY <2>0, TablesTyped
    <3>2. first \in answering /\ \A j \in answering : first <= j
      <4>1. \E k \in answering : \A j \in answering : k <= j
        <5> HIDE DEF answering
        <5> QED
          BY <2>2, <3>1, FirstPosition
      <4> HIDE DEF answering
      <4> QED
        BY <4>1
    <3>3. /\ answer.found /\ answer.class = first
          /\ answer.position = here(first).position /\ answer.index = here(first).index
      BY <2>2 DEF ReflectRecursively
    <3> HIDE DEF answer, first
    <3>4. first \in DOMAIN tables /\ here(first).found
      BY <3>2
    <3> DEFINE table == tables[first]
               bound == LowerBound(table, name)
    <3>5. /\ bound # Len(table) /\ table[bound + 1].name = name
          /\ here(first).position = bound /\ here(first).index = Offset(table, bound)
      BY <3>4 DEF ReflectIndex, NoAnswer
    <3>6. bound = 0 => Offset(table, bound) = Number(table[bound + 1].data)
      <4>1. Len(table) # 0 /\ bound = 0 => Offset(table, 0) = Number(table[1].data)
        BY <2>0, <3>4, FirstOffset
      <4> QED
        BY <3>5, <4>1
    <3>7. ASSUME NEW k \in DOMAIN tables, Graded(tables[k]), name \in NamesOf(tables[k])
          PROVE  first <= k
      <4>1. PICK i \in DOMAIN tables[k] : tables[k][i].name = name
        BY <3>7 DEF NamesOf
      <4>2. here(k).found
        BY <2>0, <3>7, <4>1, GradedFinds
      <4> QED
        BY <3>2, <4>2
    <3> HIDE DEF here, bound
    <3> QED
      BY <3>3, <3>5, <3>6, <3>7 DEF answer
  <2> QED
    BY <2>1, <2>2
<1> QED
  BY <1>1, SearchesGiven, PTL

----------------------------------------------------------------------------
(* The walks over a class file.                                             *)

(* The sum of the first elements of a sequence, as MethodsBefore has it.    *)
LEMMA Sums ==
  ASSUME NEW m \in Nat, NEW t, \A n \in 1 .. m : t[n] \in Nat
  PROVE  LET sum[n \in 0 .. m] == IF n = 0 THEN 0 ELSE sum[n - 1] + t[n]
         IN  /\ sum[0] = 0
             /\ \A n \in 1 .. m : sum[n] = sum[n - 1] + t[n]
             /\ \A n \in 0 .. m : sum[n] \in Nat
<1> DEFINE Term(f, n) == IF n = 0 THEN 0 ELSE f[n - 1] + t[n]
           Good(k) == \E g : DOMAIN g = 0 .. k /\ \A n \in 0 .. k : g[n] = Term(g, n)
           Bad == {k \in 0 .. m : ~Good(k)}
           s == CHOOSE f : f = [n \in 0 .. m |-> Term(f, n)]
           Wrong == {k \in 0 .. m : s[k] \notin Nat}
<1>1. Good(m)
  <2>1. SUFFICES ASSUME Bad # {} PROVE FALSE
    OBVIOUS
  <2>2. PICK k \in Bad : \A j \in Bad : k <= j
    <3>1. Bad \in SUBSET Nat
      OBVIOUS
    <3> HIDE DEF Bad
    <3> QED
      BY <2>1, <3>1, FirstPosition
  <2>3. k # 0
    <3>1. Good(0)
      <4> DEFINE g == [n \in 0 .. 0 |-> 0]
      <4>1. DOMAIN g = 0 .. 0 /\ \A n \in 0 .. 0 : g[n] = Term(g, n)
        OBVIOUS
      <4> QED
        BY <4>1
    <3> HIDE DEF Good
    <3> QED
      BY <2>2, <3>1
  <2>4. k \in 1 .. m /\ k - 1 \in 0 .. m /\ ~(k <= k - 1)
    BY <2>2, <2>3
  <2>5. Good(k - 1)
    <3> HIDE DEF Good
    <3> QED
      BY <2>2, <2>4
  <2>6. PICK g : DOMAIN g = 0 .. k - 1 /\ \A n \in 0 .. k - 1 : g[n] = Term(g, n)
    BY <2>5
  <2> DEFINE h == [n \in 0 .. k |-> IF n = k THEN g[k - 1] + t[k] ELSE g[n]]
  <2>7. \A n \in 0 .. k : h[n] = Term(h, n)
    <3>1. TAKE n \in 0 .. k
    <3>2. CASE n = k
      <4>1. h[k] = g[k - 1] + t[k] /\ h[k - 1] = g[k - 1]
        BY <2>4
      <4> QED
        BY <2>4, <3>2, <4>1
    <3>3. CASE n # k
      <4>1. n \in 0 .. k - 1 /\ h[n] = g[n]
        BY <2>4, <3>3
      <4>2. n # 0 => n - 1 \in 0 .. k /\ n - 1 # k /\ h[n - 1] = g[n - 1]
        BY <2>4, <3>3
      <4> QED
        BY <2>6, <4>1, <4>2
    <3> QED
      BY <3>2, <3>3
  <2>8. Good(k)
    BY <2>7
  <2> HIDE DEF Good
  <2> QED
    BY <2>2, <2>8
<1>2. s = [n \in 0 .. m |-> Term(s, n)]
  <2>1. PICK g : DOMAIN g = 0 .. m /\ \A n \in 0 .. m : g[n] = Term(g, n)
    BY <1>1
  <2> DEFINE h == [n \in 0 .. m |-> g[n]]
  <2>2. \A n \in 0 .. m : n # 0 => n - 1 \in 0 .. m
    OBVIOUS
  <2>3. h = [n \in 0 .. m |-> Term(h, n)]
    BY <2>1, <2>2
  <2> HIDE DEF Term, h
  <2> QED
    BY <2>3
<1> HIDE DEF s
<1>3. \A n \in 0 .. m : s[n] = Term(s, n)
  BY <1>2
<1>4. Wrong = {}
  <2>1. SUFFICES ASSUME Wrong # {} PROVE FALSE
    OBVIOUS
  <2>2. PICK k \in Wrong : \A j \in Wrong : k <= j
    <3>1. Wrong \in SUBSET Nat
      OBVIOUS
    <3> HIDE DEF Wrong
    <3> QED
      BY <2>1, <3>1, FirstPosition
  <2>3. k # 0
    BY <1>3, <2>2
  <2>4. k \in 1 .. m /\ k - 1 \in 0 .. m /\ ~(k <= k - 1)
    BY <2>2, <2>3
  <2>5. s[k - 1] \in Nat
    BY <2>2, <2>4
  <2>6. s[k] = s[k - 1] + t[k]
    BY <1>3, <2>3, <2>4
  <2> QED
    BY <2>2, <2>4, <2>5, <2>6
<1>5. s[0] = 0 /\ \A n \in 1 .. m : s[n] = s[n - 1] + t[n]
  BY <1>3
<1>6. \A n \in 0 .. m : s[n] \in Nat
  BY <1>4
<1> QED
  BY <1>5, <1>6 DEF s

(* The methods of a file are of four bytes at least, and one starts where   *)
(* the one before it ends.                                                  *)
LEMMA MethodsFollow ==
  ASSUME NEW file \in ClassFiles
  PROVE  /\ Len(file.methods) \in Nat /\ DOMAIN file.methods = 1 .. Len(file.methods)
         /\ MethodsBefore(file, 0) = 0
         /\ \A k \in 1 .. Len(file.methods) :
              /\ file.methods[k] \in Nat /\ file.methods[k] >= 4
              /\ MethodsBefore(file, k) = MethodsBefore(file, k - 1) + file.methods[k]
         /\ \A k \in 0 .. Len(file.methods) : MethodsBefore(file, k) \in Nat
<1>1. file \in WellFormedFiles
  BY InputsAssumption
<1>2. file.methods \in Seq(Nat \ 0 .. 3)
  BY <1>1 DEF WellFormedFiles
<1>3. Len(file.methods) \in Nat /\ DOMAIN file.methods = 1 .. Len(file.methods)
  BY <1>2
<1>4. \A k \in 1 .. Len(file.methods) : file.methods[k] \in Nat /\ file.methods[k] >= 4
  <2>1. \A k \in 1 .. Len(file.methods) : file.methods[k] \in Nat \ 0 .. 3
    BY <1>2, <1>3
  <2> QED
    BY <2>1
<1> DEFINE m == Len(file.methods)
           t == file.methods
<1>5. m \in Nat /\ \A n \in 1 .. m : t[n] \in Nat
  BY <1>3, <1>4
<1> HIDE DEF m, t
<1>6. LET sum[n \in 0 .. m] == IF n = 0 THEN 0 ELSE sum[n - 1] + t[n]
      IN  /\ sum[0] = 0
          /\ \A n \in 1 .. m : sum[n] = sum[n - 1] + t[n]
          /\ \A n \in 0 .. m : sum[n] \in Nat
  BY <1>5, Sums
<1>7. /\ MethodsBefore(file, 0) = 0
      /\ \A n \in 1 .. m : MethodsBefore(file, n) = MethodsBefore(file, n - 1) + t[n]
      /\ \A n \in 0 .. m : MethodsBefore(file, n) \in Nat
  BY <1>6, Zenon DEF MethodsBefore, m, t
<1> QED
  BY <1>3, <1>4, <1>7 DEF m, t

(* No two methods start at the same place.                                  *)
LEMMA MethodsApart ==
  ASSUME NEW file \in ClassFiles, NEW i \in 0 .. Len(file.methods),
         NEW j \in 0 .. Len(file.methods), i < j
  PROVE  MethodsBefore(file, i) < MethodsBefore(file, j)
<1> DEFINE Before(k) == MethodsBefore(file, k)
           Bad == {k \in i + 1 .. Len(file.methods) : ~(Before(i) < Before(k))}
<1>0. Len(file.methods) \in Nat
  BY MethodsFollow
<1>1. SUFFICES ASSUME Bad # {} PROVE FALSE
  <2>1. j \in i + 1 .. Len(file.methods)
    BY <1>0
  <2> QED
    BY <2>1
<1>2. PICK k \in Bad : \A n \in Bad : k <= n
  <2>1. Bad \in SUBSET Nat
    BY <1>0
  <2> HIDE DEF Bad
  <2> QED
    BY <1>1, <2>1, FirstPosition
<1>3. k \in 1 .. Len(file.methods) /\ k - 1 \in i .. Len(file.methods) /\ k - 1 < k
      /\ k - 1 \in 0 .. Len(file.methods)
  BY <1>0
<1>4. Before(k) > Before(k - 1) /\ Before(i) \in Nat /\ Before(k) \in Nat /\ Before(k - 1) \in Nat
  <2>1. Before(i) \in Nat /\ Before(k) \in Nat /\ Before(k - 1) \in Nat
    <3>1. k \in 0 .. Len(file.methods)
      BY <1>3, MethodsFollow
    <3> QED
      BY <1>3, <3>1, MethodsFollow
  <2>2. Before(k) = Before(k - 1) + file.methods[k]
    BY <1>3, MethodsFollow
  <2>3. file.methods[k] \in Nat /\ file.methods[k] >= 4
    BY <1>3, MethodsFollow
  <2> HIDE DEF Before
  <2> QED
    BY <2>1, <2>2, <2>3
<1>5. k - 1 = i \/ Before(i) < Before(k - 1)
  <2>1. k - 1 = i \/ k - 1 \in i + 1 .. Len(file.methods)
    BY <1>3, MethodsFollow
  <2>2. ~(k <= k - 1)
    BY <1>3
  <2>3. k - 1 \notin Bad
    BY <1>2, <2>2
  <2> HIDE DEF Before
  <2> QED
    BY <2>1, <2>3
<1>6. Before(i) < Before(k)
  <2>1. \A a, b, c \in Nat : (a = b \/ a < b) /\ c > b => a < c
    OBVIOUS
  <2>2. Before(i) = Before(k - 1) \/ Before(i) < Before(k - 1)
    BY <1>5, Zenon
  <2> HIDE DEF Before
  <2> QED
    BY <1>4, <2>1, <2>2
<1> HIDE DEF Before
<1> QED
  BY <1>2, <1>6

(* An iterator is where its steps take it.                                  *)
LEMMA PositionsAre ==
  ASSUME NEW file, NEW walk, NEW n \in Nat, NEW p,
         p[0] = WalkBegin(Header(file), walk),
         \A k \in 1 .. n : p[k] = Advance(file, walk, p[k - 1])
  PROVE  Position(file, walk, n) = p[n]
<1> DEFINE Term(f, k) == IF k = 0 THEN WalkBegin(Header(file), walk)
                         ELSE Advance(file, walk, f[k - 1])
           s == CHOOSE f : f = [k \in 0 .. n |-> Term(f, k)]
           g == [k \in 0 .. n |-> p[k]]
           Wrong == {k \in 0 .. n : s[k] # p[k]}
<1>1. \A k \in 0 .. n : g[k] = Term(g, k)
  <2>1. TAKE k \in 0 .. n
  <2>2. CASE k = 0
    BY <2>2
  <2>3. CASE k # 0
    <3>1. k \in 1 .. n /\ k - 1 \in 0 .. n
      BY <2>3
    <3>2. g[k] = p[k] /\ g[k - 1] = p[k - 1]
      BY <3>1
    <3> QED
      BY <2>3, <3>1, <3>2
  <2> QED
    BY <2>2, <2>3
<1>2. g = [k \in 0 .. n |-> Term(g, k)]
  BY <1>1
<1>3. s = [k \in 0 .. n |-> Term(s, k)]
  <2> HIDE DEF Term, g
  <2> QED
    BY <1>2
<1> HIDE DEF s
<1>4. \A k \in 0 .. n : s[k] = Term(s, k)
  BY <1>3
<1>5. Wrong = {}
  <2>1. SUFFICES ASSUME Wrong # {} PROVE FALSE
    OBVIOUS
  <2>2. PICK k \in Wrong : \A j \in Wrong : k <= j
    <3>1. Wrong \in SUBSET Nat
      OBVIOUS
    <3> HIDE DEF Wrong
    <3> QED
      BY <2>1, <3>1, FirstPosition
  <2>3. k # 0
    BY <1>4, <2>2
  <2>4. k \in 1 .. n /\ k - 1 \in 0 .. n /\ ~(k <= k - 1)
    BY <2>2, <2>3
  <2>5. s[k - 1] = p[k - 1]
    BY <2>2, <2>4
  <2> QED
    BY <1>4, <2>2, <2>3, <2>4, <2>5
<1>6. Position(file, walk, n) = s[n]
  BY DEF Position, s
<1> QED
  BY <1>5, <1>6

(* The header of a file, as numbers.                                        *)
LEMMA HeaderNumbers ==
  ASSUME NEW file \in ClassFiles
  PROVE  LET h == Header(file)
         IN  /\ file.class_references \in Nat /\ file.implemented \in Nat
             /\ 7 + file.implemented <= file.class_references
             /\ file.instance_fields \in Nat /\ file.static_fields \in Nat
             /\ file.imports \in Nat
             /\ h.instance = 28 + 4 * file.class_references
             /\ h.static = h.instance + 4 * file.instance_fields
             /\ h.import = h.static + 4 * file.static_fields
             /\ h.method = h.import + 8 * file.imports
             /\ h.pool = h.method + MethodBytes(file)
             /\ h.instance \in Nat /\ h.static \in Nat /\ h.import \in Nat
             /\ h.method \in Nat /\ h.pool \in Nat /\ MethodBytes(file) \in Nat
<1>1. file \in WellFormedFiles
  BY InputsAssumption
<1>2. /\ file.class_references \in Nat /\ file.implemented \in Nat
      /\ 7 + file.implemented <= file.class_references
      /\ file.instance_fields \in Nat /\ file.static_fields \in Nat /\ file.imports \in Nat
  BY <1>1 DEF WellFormedFiles, SuperclassStart
<1> DEFINE h == Header(file)
<1>3. /\ h.instance = 28 + 4 * file.class_references
      /\ h.static = h.instance + 4 * file.instance_fields
      /\ h.import = h.static + 4 * file.static_fields
      /\ h.method = h.import + 8 * file.imports
      /\ h.pool = h.method + MethodBytes(file)
  BY DEF Header, HeaderBytes
<1>4. MethodBytes(file) \in Nat
  <2>1. Len(file.methods) \in 0 .. Len(file.methods)
    BY MethodsFollow
  <2> QED
    BY <2>1, MethodsFollow DEF MethodBytes
<1> HIDE DEF h
<1>5. h.instance \in Nat
  BY <1>2, <1>3
<1>6. h.static \in Nat
  BY <1>2, <1>3, <1>5
<1>7. h.import \in Nat
  BY <1>2, <1>3, <1>6
<1>8. h.method \in Nat
  BY <1>2, <1>3, <1>7
<1>9. h.pool \in Nat
  BY <1>3, <1>4, <1>8
<1> QED
  BY <1>2, <1>3, <1>4, <1>5, <1>6, <1>7, <1>8, <1>9 DEF h

(* In a table of entries of one size an iterator advances by that size.     *)
LEMMA EvenSteps ==
  ASSUME NEW file \in ClassFiles, NEW walk \in Walks, walk # "methods", NEW n \in Nat
  PROVE  Position(file, walk, n) = WalkBegin(Header(file), walk) + n * Stride(walk)
<1> DEFINE b == WalkBegin(Header(file), walk)
           d == Stride(walk)
           p == [k \in 0 .. n |-> b + k * d]
<1>1. b \in Nat /\ d \in Nat
  BY HeaderNumbers DEF WalkBegin, Stride, Walks, HeaderBytes
<1> HIDE DEF b, d
<1>2. p[0] = b
  BY <1>1
<1>3. ASSUME NEW k \in 1 .. n PROVE p[k] = Advance(file, walk, p[k - 1])
  <2>1. k - 1 \in 0 .. n /\ k \in 0 .. n
    OBVIOUS
  <2>2. p[k] = b + k * d /\ p[k - 1] = b + (k - 1) * d
    BY <2>1
  <2>3. b + k * d = (b + (k - 1) * d) + d
    BY <1>1
  <2>4. Advance(file, walk, p[k - 1]) = p[k - 1] + d
    BY DEF Advance, d
  <2> HIDE DEF p
  <2> QED
    BY <2>2, <2>3, <2>4
<1>4. p[n] = b + n * d
  OBVIOUS
<1> HIDE DEF p
<1>5. Position(file, walk, n) = p[n]
  BY <1>2, <1>3, PositionsAre DEF b
<1> QED
  BY <1>4, <1>5 DEF b, d

(* The iterator over methods goes from one to the next.                     *)
LEMMA MethodSteps ==
  ASSUME NEW file \in ClassFiles, NEW n \in 0 .. Len(file.methods)
  PROVE  Position(file, "methods", n) = Header(file).method + MethodsBefore(file, n)
<1> DEFINE b == Header(file).method
           p == [k \in 0 .. Len(file.methods) |-> b + MethodsBefore(file, k)]
<1>1. b \in Nat /\ n \in Nat /\ Len(file.methods) \in Nat
  BY HeaderNumbers, MethodsFollow
<1>2. b = WalkBegin(Header(file), "methods")
  BY DEF WalkBegin
<1> HIDE DEF b
<1>3. p[0] = b
  BY <1>1, MethodsFollow
<1>4. ASSUME NEW k \in 1 .. n PROVE p[k] = Advance(file, "methods", p[k - 1])
  <2>1. /\ k - 1 \in 0 .. Len(file.methods) /\ k \in 0 .. Len(file.methods)
        /\ k \in 1 .. Len(file.methods) /\ k \in DOMAIN file.methods
    BY <1>1, MethodsFollow
  <2> DEFINE here == {j \in DOMAIN file.methods : MethodStart(file, j) = p[k - 1]}
  <2>2. \A j \in DOMAIN file.methods : MethodStart(file, j) = b + MethodsBefore(file, j - 1)
    BY DEF MethodStart, b
  <2>3. p[k - 1] = b + MethodsBefore(file, k - 1)
    BY <2>1
  <2>4. here = {k}
    <3>1. k \in here
      BY <2>1, <2>2, <2>3
    <3>2. ASSUME NEW j \in here PROVE j = k
      <4>1. j - 1 \in 0 .. Len(file.methods) /\ j \in Nat /\ k \in Nat /\ k - 1 \in 0 .. Len(file.methods)
        <5>1. j \in DOMAIN file.methods
          OBVIOUS
        <5>2. j \in 1 .. Len(file.methods)
          BY <5>1, MethodsFollow
        <5> HIDE DEF here
        <5> QED
          BY <1>1, <2>1, <5>2
      <4>2. b + MethodsBefore(file, j - 1) = b + MethodsBefore(file, k - 1)
        BY <2>2, <2>3, <3>2
      <4>3. MethodsBefore(file, j - 1) \in Nat /\ MethodsBefore(file, k - 1) \in Nat
        BY <4>1, MethodsFollow
      <4>4. MethodsBefore(file, j - 1) = MethodsBefore(file, k - 1)
        BY <1>1, <4>2, <4>3
      <4>5. ~(j - 1 < k - 1) /\ ~(k - 1 < j - 1)
        <5>1. j - 1 < k - 1 => MethodsBefore(file, j - 1) < MethodsBefore(file, k - 1)
          BY <4>1, MethodsApart
        <5>2. k - 1 < j - 1 => MethodsBefore(file, k - 1) < MethodsBefore(file, j - 1)
          BY <4>1, MethodsApart
        <5> QED
          BY <4>3, <4>4, <5>1, <5>2
      <4> QED
        BY <4>1, <4>5
    <3> HIDE DEF here
    <3> QED
      BY <3>1, <3>2
  <2>5. SizeAt(file, p[k - 1]) = file.methods[k]
    <3>1. SizeAt(file, p[k - 1]) =
            IF here = {} THEN 0 ELSE file.methods[CHOOSE j \in here : TRUE]
      BY DEF SizeAt
    <3>2. (CHOOSE j \in {k} : TRUE) = k
      OBVIOUS
    <3> HIDE DEF here
    <3> QED
      BY <2>4, <3>1, <3>2
  <2>6. Advance(file, "methods", p[k - 1]) = p[k - 1] + file.methods[k]
    BY <2>5 DEF Advance
  <2>7. /\ MethodsBefore(file, k) = MethodsBefore(file, k - 1) + file.methods[k]
        /\ MethodsBefore(file, k - 1) \in Nat /\ file.methods[k] \in Nat
    BY <2>1, MethodsFollow
  <2>8. p[k] = b + MethodsBefore(file, k)
    BY <2>1
  <2> HIDE DEF p
  <2> QED
    BY <1>1, <2>3, <2>6, <2>7, <2>8
<1>5. p[n] = b + MethodsBefore(file, n)
  OBVIOUS
<1> HIDE DEF p
<1>6. Position(file, "methods", n) = p[n]
  BY <1>1, <1>2, <1>3, <1>4, PositionsAre
<1> QED
  BY <1>5, <1>6 DEF b

(* Where entry k of a table is, and where its last one ends.                *)
LEMMA PositionsOf ==
  ASSUME NEW file \in ClassFiles, NEW k \in Nat
  PROVE  /\ Position(file, "class_references", k) = 28 + k * 4
         /\ Position(file, "instance_fields", k) = Header(file).instance + k * 4
         /\ Position(file, "static_fields", k) = Header(file).static + k * 4
         /\ Position(file, "imports", k) = Header(file).import + k * 8
<1>1. /\ "class_references" \in Walks /\ "class_references" # "methods"
      /\ "instance_fields" \in Walks /\ "instance_fields" # "methods"
      /\ "static_fields" \in Walks /\ "static_fields" # "methods"
      /\ "imports" \in Walks /\ "imports" # "methods"
  BY DEF Walks
<1>2. Position(file, "class_references", k) = 28 + k * 4
  <2>1. WalkBegin(Header(file), "class_references") = 28 /\ Stride("class_references") = 4
    BY DEF WalkBegin, Stride, HeaderBytes
  <2> QED
    BY <1>1, <2>1, EvenSteps
<1>3. Position(file, "instance_fields", k) = Header(file).instance + k * 4
  <2>1. /\ WalkBegin(Header(file), "instance_fields") = Header(file).instance
        /\ Stride("instance_fields") = 4
    BY DEF WalkBegin, Stride
  <2> QED
    BY <1>1, <2>1, EvenSteps
<1>4. Position(file, "static_fields", k) = Header(file).static + k * 4
  <2>1. /\ WalkBegin(Header(file), "static_fields") = Header(file).static
        /\ Stride("static_fields") = 4
    BY DEF WalkBegin, Stride
  <2> QED
    BY <1>1, <2>1, EvenSteps
<1>5. Position(file, "imports", k) = Header(file).import + k * 8
  <2>1. /\ WalkBegin(Header(file), "imports") = Header(file).import
        /\ Stride("imports") = 8
    BY DEF WalkBegin, Stride
  <2> QED
    BY <1>1, <2>1, EvenSteps
<1> QED
  BY <1>2, <1>3, <1>4, <1>5, Zenon

(* Entries of one size: what their numbers mean for the walk.               *)
LEMMA EvenWalk ==
  ASSUME NEW b \in Nat, NEW n \in Nat, NEW d \in Nat \ {0}
  PROVE  \A k \in 0 .. n - 1 :
           /\ b + k * d # b + n * d
           /\ k > 0 => (b + k * d) - (b + (k - 1) * d) = d
<1> TAKE k \in 0 .. n - 1
<1>1. PICK z \in Nat : n = k + 1 + z
  <2>1. n - k - 1 \in Nat /\ n = k + 1 + (n - k - 1)
    OBVIOUS
  <2> QED
    BY <2>1
<1>2. (k + 1 + z) * d = k * d + d + z * d /\ k * d \in Nat /\ z * d \in Nat
  BY <1>1
<1>3. b + k * d # b + n * d
  BY <1>1, <1>2
<1>4. (k - 1) * d = k * d - d
  OBVIOUS
<1> QED
  BY <1>2, <1>3, <1>4

(* The counts of a header are those of its file.                            *)
LEMMA CountsAreThose ==
  ASSUME NEW file \in ClassFiles
  PROVE  CountsFit(file)
<1> DEFINE h == Header(file)
<1>1. \A n \in Nat : (4 * n) \div 4 = n /\ (8 * n) \div 4 = 2 * n
  OBVIOUS
<1>2. \A a, b, n \in Nat : b = a + 4 * n => (b - a) \div 4 = n
  OBVIOUS
<1>3. \A a, b, n \in Nat : b = a + 8 * n => (b - a) \div 4 = 2 * n
  OBVIOUS
<1>4. /\ file.class_references \in Nat /\ file.instance_fields \in Nat
      /\ file.static_fields \in Nat /\ file.imports \in Nat /\ MethodBytes(file) \in Nat
      /\ h.instance \in Nat /\ h.static \in Nat /\ h.import \in Nat /\ h.method \in Nat
      /\ h.pool \in Nat /\ h.instance = 28 + 4 * file.class_references
  BY HeaderNumbers, Zenon
<1>5. /\ h.static = h.instance + 4 * file.instance_fields
      /\ h.import = h.static + 4 * file.static_fields
      /\ h.method = h.import + 8 * file.imports
      /\ h.pool = h.method + MethodBytes(file)
  BY HeaderNumbers, Zenon
<1> HIDE DEF h
<1>6. ClassReferenceCount(h) = file.class_references
  <2>1. 28 \in Nat
    OBVIOUS
  <2> QED
    BY <1>2, <1>4, <2>1 DEF ClassReferenceCount, HeaderBytes
<1>7. InstanceFieldCount(h) = file.instance_fields
  BY <1>2, <1>4, <1>5 DEF InstanceFieldCount
<1>8. StaticFieldCount(h) = file.static_fields
  BY <1>2, <1>4, <1>5 DEF StaticFieldCount
<1>9. HeaderImportCount(h) = 2 * file.imports
  BY <1>3, <1>4, <1>5 DEF HeaderImportCount
<1>10. MethodsSize(h) = MethodBytes(file)
  BY <1>4, <1>5 DEF MethodsSize
<1>11. ASSUME NEW n \in 0 .. file.implemented - 1
       PROVE  SlicePosition(h, n) = Position(file, "class_references", SuperclassStart + n)
  <2>1. file.implemented \in Nat
    BY HeaderNumbers
  <2>2. 7 + n \in Nat
    BY <2>1
  <2>3. Position(file, "class_references", 7 + n) = 28 + (7 + n) * 4
    BY <2>2, PositionsOf
  <2>4. SlicePosition(h, n) = 28 + (7 + n) * 4
    BY DEF SlicePosition, WalkBegin, Stride, SuperclassStart, HeaderBytes
  <2> QED
    BY <2>3, <2>4 DEF SuperclassStart
<1> QED
  BY <1>6, <1>7, <1>8, <1>9, <1>10, <1>11 DEF CountsFit, h

(* What a walk over one table must be.                                      *)
WalkEnds(file, walk) ==
  LET h == Header(file)
      n == Entered(file, walk)
      from(k) == ReadFrom(h, walk, Position(file, walk, k))
  IN  /\ Position(file, walk, n) = WalkEnd(h, walk)
      /\ \A k \in 0 .. n - 1 :
           /\ Position(file, walk, k) # WalkEnd(h, walk)
           /\ k > 0 => from(k) - from(k - 1) >= Stride(walk)

(* The walks over tables of even entries end, each entry read apart.        *)
LEMMA EvenWalksEnd ==
  ASSUME NEW file \in ClassFiles, NEW walk \in Walks, walk # "methods"
  PROVE  WalkEnds(file, walk)
<1> DEFINE h == Header(file)
           b == WalkBegin(h, walk)
           d == Stride(walk)
           n == Entered(file, walk)
           from(k) == ReadFrom(h, walk, Position(file, walk, k))
<1>1. /\ b \in Nat /\ d \in {4, 8} /\ n \in Nat /\ WalkEnd(h, walk) = b + n * d
      /\ h.instance \in Nat /\ h.static \in Nat
  <2>1. /\ file.class_references \in Nat /\ file.instance_fields \in Nat
        /\ file.static_fields \in Nat /\ file.imports \in Nat
        /\ h.instance \in Nat /\ h.static \in Nat /\ h.import \in Nat
    BY HeaderNumbers, Zenon
  <2>2. /\ h.instance = 28 + 4 * file.class_references
        /\ h.static = h.instance + 4 * file.instance_fields
        /\ h.import = h.static + 4 * file.static_fields
        /\ h.method = h.import + 8 * file.imports
    BY HeaderNumbers, Zenon
  <2> HIDE DEF h
  <2>3. CASE walk = "class_references"
    BY <2>1, <2>2, <2>3 DEF WalkBegin, WalkEnd, Stride, Entered, HeaderBytes
  <2>4. CASE walk = "instance_fields"
    BY <2>1, <2>2, <2>4 DEF WalkBegin, WalkEnd, Stride, Entered
  <2>5. CASE walk = "static_fields"
    BY <2>1, <2>2, <2>5 DEF WalkBegin, WalkEnd, Stride, Entered
  <2>6. CASE walk = "imports"
    BY <2>1, <2>2, <2>6 DEF WalkBegin, WalkEnd, Stride, Entered
  <2> QED
    BY <2>3, <2>4, <2>5, <2>6 DEF Walks
<1>2. \A k \in Nat : Position(file, walk, k) = b + k * d
  BY EvenSteps
<1>3. \A x, y \in Nat : y - x = d =>
        ReadFrom(h, walk, y) - ReadFrom(h, walk, x) >= d
  <2> HIDE DEF h
  <2> TAKE x, y \in Nat
  <2> HAVE y - x = d
  <2>1. CASE walk = "class_references"
    BY <1>1, <2>1 DEF ReadFrom, Stride, HeaderBytes
  <2>2. CASE walk = "instance_fields"
    BY <1>1, <2>2 DEF ReadFrom, Stride
  <2>3. CASE walk = "static_fields"
    BY <1>1, <2>3 DEF ReadFrom, Stride
  <2>4. CASE walk = "imports"
    <3>1. h.import \in Nat
      BY HeaderNumbers DEF h
    <3> QED
      BY <1>1, <2>4, <3>1 DEF ReadFrom, Stride
  <2> QED
    BY <2>1, <2>2, <2>3, <2>4 DEF Walks
<1> HIDE DEF h, b, d, n
<1>4. ASSUME NEW k \in 0 .. n - 1
      PROVE  /\ Position(file, walk, k) # WalkEnd(h, walk)
             /\ k > 0 => from(k) - from(k - 1) >= d
  <2>1. /\ b + k * d # b + n * d
        /\ k > 0 => (b + k * d) - (b + (k - 1) * d) = d
    <3>1. d \in Nat \ {0}
      BY <1>1
    <3> QED
      BY <1>1, <3>1, EvenWalk
  <2>2. k \in Nat /\ Position(file, walk, k) = b + k * d /\ b + k * d \in Nat
    BY <1>1, <1>2
  <2>3. ASSUME k > 0 PROVE from(k) - from(k - 1) >= d
    <3>1. k - 1 \in Nat
      BY <1>1, <2>3
    <3>2. Position(file, walk, k - 1) = b + (k - 1) * d
      BY <1>2, <3>1
    <3>3. b + (k - 1) * d \in Nat
      BY <1>1, <3>1
    <3> QED
      BY <1>3, <2>1, <2>2, <2>3, <3>2, <3>3
  <2> QED
    BY <1>1, <2>1, <2>2, <2>3
<1> QED
  BY <1>1, <1>2, <1>4 DEF WalkEnds, h, d, n

(* So does the walk over the methods, whatever their sizes.                 *)
LEMMA MethodWalkEnds ==
  ASSUME NEW file \in ClassFiles
  PROVE  WalkEnds(file, "methods")
<1> DEFINE h == Header(file)
           n == Len(file.methods)
           Before(k) == MethodsBefore(file, k)
<1>1. /\ n \in Nat /\ h.method \in Nat /\ h.pool = h.method + Before(n)
      /\ \A k \in 0 .. n : Before(k) \in Nat
      /\ \A k \in 0 .. n : Position(file, "methods", k) = h.method + Before(k)
  BY HeaderNumbers, MethodsFollow, MethodSteps DEF MethodBytes
<1>2. Entered(file, "methods") = n /\ Stride("methods") = 4 /\ WalkEnd(h, "methods") = h.pool
  BY DEF Entered, Stride, WalkEnd
<1>3. \A p : ReadFrom(h, "methods", p) = p
  BY DEF ReadFrom
<1>4. Position(file, "methods", n) = WalkEnd(h, "methods")
  BY <1>1, <1>2
<1>5. ASSUME NEW k \in 0 .. n - 1
      PROVE  /\ Position(file, "methods", k) # WalkEnd(h, "methods")
             /\ k > 0 => Position(file, "methods", k) - Position(file, "methods", k - 1) >= 4
  <2>1. Before(k) < Before(n) /\ k \in 0 .. n /\ Before(k) \in Nat /\ Before(n) \in Nat
    <3>1. k \in 0 .. n /\ n \in 0 .. n /\ k < n
      BY <1>1
    <3> QED
      BY <1>1, <3>1, MethodsApart
  <2>2. h.method + Before(k) # h.method + Before(n)
    <3> HIDE DEF h, Before
    <3> QED
      BY <1>1, <2>1
  <2>3. ASSUME k > 0
        PROVE  Position(file, "methods", k) - Position(file, "methods", k - 1) >= 4
    <3>1. k \in 1 .. n /\ k - 1 \in 0 .. n
      BY <1>1, <2>3
    <3>2. /\ file.methods[k] \in Nat /\ file.methods[k] >= 4
          /\ Before(k) = Before(k - 1) + file.methods[k]
      BY <3>1, MethodsFollow
    <3>3. /\ Position(file, "methods", k) = h.method + Before(k)
          /\ Position(file, "methods", k - 1) = h.method + Before(k - 1)
          /\ Before(k - 1) \in Nat
      BY <1>1, <2>1, <3>1
    <3> HIDE DEF h, Before
    <3> QED
      BY <1>1, <3>2, <3>3
  <2> QED
    BY <1>1, <1>2, <2>1, <2>2, <2>3
<1> QED
  BY <1>2, <1>3, <1>4, <1>5 DEF WalkEnds

(* Every file given is well formed.                                         *)
LEMMA FilesGiven == InputSpec => [](input.kind = "file" => input.file \in ClassFiles)
<1> DEFINE Given == input.kind = "file" => input.file \in ClassFiles
<1>1. NoInput => Given
  BY DEF NoInput
<1>2. Given /\ [SomeInput]_input => Given'
  BY DEF SomeInput, Binary, Word, Array, ArgTypes, Pair, File, Search
<1> QED
  BY <1>1, <1>2, PTL DEF InputSpec

(* Over any well-formed class file, of any number of entries and methods of *)
(* any sizes, the iterators of class_file_reader meet the ends of their     *)
(* tables exactly, read no byte twice, and the counts agree with the walks. *)
THEOREM WalksComeToTheirEnd == InputSpec => []WalksEnd
<1>1. ASSUME input.kind = "file" => input.file \in ClassFiles PROVE WalksEnd
  <2> SUFFICES ASSUME input.kind = "file" PROVE WalksEnd
    BY DEF WalksEnd
  <2> DEFINE file == input.file
             h == Header(file)
  <2>1. file \in ClassFiles
    BY <1>1
  <2> HIDE DEF file
  <2>2. CountsFit(file)
    BY <2>1, CountsAreThose
  <2>3. \A walk \in Walks : WalkEnds(file, walk)
    BY <2>1, EvenWalksEnd, MethodWalkEnds
  <2>4. ASSUME NEW k \in DOMAIN file.methods
        PROVE  MethodDataIdx(h, Position(file, "methods", k - 1)) = MethodStart(file, k) - h.method
    <3>1. k - 1 \in 0 .. Len(file.methods)
      BY <2>1, MethodsFollow
    <3>2. Position(file, "methods", k - 1) = MethodStart(file, k)
      BY <2>1, <3>1, MethodSteps DEF MethodStart
    <3> QED
      BY <3>2 DEF MethodDataIdx
  <2> QED
    BY <2>2, <2>3, <2>4 DEF WalksEnd, WalkEnds, file
<1> QED
  BY <1>1, FilesGiven, PTL
=============================================================================
