------------------------- MODULE StopAndCopyProofs -------------------------
(***************************************************************************)
(* Theorems about module StopAndCopy, for every layout of objects, every    *)
(* graph over them, every number of roots and every set of handles.         *)
(*                                                                         *)
(* The argument follows the bytes.  In the from-space only headers are ever *)
(* written, and a header is marked exactly when its object was copied.  The *)
(* copies are as many bytes as the bytes they are of, which are different   *)
(* bytes of the from-space, so they fit.  No word runs over the end of a    *)
(* copy: a header or a reference that would is torn, and torn for good.     *)
(* Every other reference is either as it was in the object it belongs to,   *)
(* or was forwarded and no longer points into the from-space; the position  *)
(* of the scan tells which.                                                 *)
(***************************************************************************)
EXTENDS StopAndCopy, TLAPS, FiniteSetTheorems, SequenceTheorems

Size(o) == FieldBytes(HeaderOf[o])
Fields(o) == PointerCount(HeaderOf[o])

Marked(h) == [h EXCEPT !.marked = TRUE]

(* No word begins here: neither a reference nor a header.                   *)
Plain(w) == ~IsWord(w)

CopiedIn(cs) == {cs[k].of : k \in 1 .. Len(cs)}

(* The bytes of o that are copied: the last 8 are not, its spare word is.   *)
CopiedBytes(o) == o - 8 .. o + Size(o) - 1

(* All bytes of reference i of o are among them.                            *)
Whole(o, i) == 8 * i + 8 <= Size(o)

(* Where in the from-space no object begins.                                *)
Contents == (Low .. High - 1) \ Objects

----------------------------------------------------------------------------
(* The inductive invariant.                                                 *)

FromSpace(m, cs) ==
  /\ DOMAIN m = Addresses /\ m = [a \in Addresses |-> m[a]]
  /\ \A o \in Objects :
       m[o] = IF o \in CopiedIn(cs) THEN Marked(HeaderOf[o]) ELSE HeaderOf[o]
  /\ \A a \in Contents :
       IF a \in PointerFields THEN m[a] \in References ELSE Plain(m[a])

(* The copies are as long as the bytes they are of are many.                *)
AsManyBytes(d, cs) ==
  Cardinality(UNION {CopiedBytes(o) : o \in CopiedIn(cs)}) = d - ToStart

Places(d, cs) ==
  /\ cs \in Seq([of : Objects, at : Nat])
  /\ d \in ToStart .. ToStart + FromUsed
  /\ \A j, k \in 1 .. Len(cs) : j < k =>
       cs[j].of # cs[k].of /\ cs[j].at + Size(cs[j].of) + 8 <= cs[k].at
  /\ \A k \in 1 .. Len(cs) :
       /\ cs[k].at = IF k = 1 THEN ToStart + 8
                              ELSE cs[k - 1].at + Size(cs[k - 1].of) + 8
       /\ cs[k].at >= ToStart + 8
       /\ cs[k].at + Size(cs[k].of) <= d
  /\ d = IF Len(cs) = 0 THEN ToStart ELSE cs[Len(cs)].at + Size(cs[Len(cs)].of)
  /\ AsManyBytes(d, cs)

ToSpace(m, d, cs) ==
  /\ \A k \in 1 .. Len(cs) :
       LET o == cs[k].of
           c == cs[k].at
       IN  /\ \A x \in 1 .. 8 : Plain(m[c - x])
           /\ Size(o) >= 8 => m[c] = HeaderOf[o]
           /\ \A x \in 0 .. Size(o) - 1 : x + 8 > Size(o) => Plain(m[c + x])
           /\ \A x \in 8 * Fields(o) + 8 .. Size(o) - 1 : m[c + x] = m[o + x]
  /\ \A a \in d .. ToStart + FromUsed : Plain(m[a])

Space(m, d, cs) == FromSpace(m, cs) /\ Places(d, cs) /\ ToSpace(m, d, cs)

(* Of a heap of ordinary objects, what w refers to was copied.              *)
Kept(w, cs) == Ordinary => \A o \in Objects : w = Ptr(o) => o \in CopiedIn(cs)

(* A slot that held `old` and holds `new`.                                  *)
Followed(old, new, forwarded, cs) ==
  IF forwarded THEN ~InBounds(new) /\ Kept(old, cs) ELSE new = old

(* The scan, at address s and field f, has passed field i of the copy c.    *)
Passed(s, f, c, i) == c.at < s \/ (c.at = s /\ i <= f)

FieldsFollow(m, cs, s, f) ==
  \A k \in 1 .. Len(cs) : \A i \in 1 .. Fields(cs[k].of) :
    Whole(cs[k].of, i) =>
      Followed(m[cs[k].of + 8 * i], m[cs[k].at + 8 * i], Passed(s, f, cs[k], i), cs)

(* Roots, of which those in `waiting` are still to be forwarded.            *)
SlotsFollow(old, new, waiting, cs) ==
  /\ DOMAIN new = DOMAIN old
  /\ \A i \in DOMAIN old :
       old[i] \in References /\ Followed(old[i], new[i], i \notin waiting, cs)

WaitingStatics == IF pc = "classes" THEN idx .. StaticSlots ELSE {}

WaitingStacks == CASE pc = "classes" -> 1 .. StackSlots
                   [] pc = "stacks"  -> idx .. StackSlots
                   [] OTHER          -> {}

RootsKept ==
  /\ DOMAIN origin.statics = 1 .. StaticSlots
  /\ DOMAIN origin.stacks = 1 .. StackSlots
  /\ DOMAIN origin.handles \subseteq Handles
  /\ pending \subseteq DOMAIN origin.handles
  /\ pc \notin {"classes", "stacks", "natives"} => pending = {}
  /\ SlotsFollow(origin.statics, statics, WaitingStatics, copies)
  /\ SlotsFollow(origin.stacks, stacks, WaitingStacks, copies)
  /\ SlotsFollow(origin.handles, handles, pending, copies)

Control ==
  /\ heap \in Layouts
  /\ pc \in {"classes", "stacks", "natives", "cleanup", "done", "wild"}
  /\ idx \in Nat
  /\ pc \in {"classes", "stacks", "natives"} => scan = 0 /\ idx > 0
  /\ pc \in {"cleanup", "done", "wild"} =>
       scan \in {copies[k].at : k \in 1 .. Len(copies)} \cup {dest + 8}
  /\ pc = "done" => scan >= dest
  /\ pc = "wild" => \E k \in 1 .. Len(copies) : ~Roomy(HeaderOf[copies[k].of])

(* Only what the roots reach is copied.                                     *)
OnlyReached ==
  \A S \in SUBSET Objects :
    RootTargets \subseteq S /\ Targets(S) \subseteq S => CopiedIn(copies) \subseteq S

IInv ==
  /\ Control
  /\ Space(mem, dest, copies)
  /\ FieldsFollow(mem, copies, scan, idx)
  /\ RootsKept
  /\ OnlyReached

----------------------------------------------------------------------------
(* Layouts.                                                                 *)

(* The bytes of a new header's fields, the references among them.           *)
LEMMA HeaderSizes ==
  ASSUME NEW h, NewHeader(h)
  PROVE  /\ FieldBytes(h) \in Nat /\ PointerCount(h) \in Nat
         /\ 8 * PointerCount(h) <= FieldBytes(h)
<1>1. CASE h.tag = "class" /\ h = ClassWord(h.c, h.ptrs, h.size)
           /\ h.ptrs \in Nat /\ h.size \in Nat /\ 8 * h.ptrs <= h.size
  BY <1>1 DEF FieldBytes, PointerCount
<1>2. CASE h.tag = "array" /\ h = ArrayWord(h.dt, h.length)
           /\ h.dt \in 0 .. 6 /\ h.length \in Nat
  <2>1. PICK n, w, dt : n = h.length /\ dt = h.dt /\ w = Width(dt)
    OBVIOUS
  <2>2. w \in {1, 2, 4, 8} /\ (dt = OBJECT => w = 8)
    <3>1. dt \in {0, 1, 2, 3, 4, 5, 6}
      BY <1>2, <2>1
    <3> QED BY <2>1, <3>1 DEF Width, OBJECT
  <2>3. w * n \in Nat /\ (w = 8 => w * n = 8 * n) /\ n \in Nat
    BY <1>2, <2>1, <2>2
  <2>4. FieldBytes(h) = w * n
    BY <1>2, <2>1 DEF FieldBytes
  <2>5. PointerCount(h) = IF dt = OBJECT THEN n ELSE 0
    BY <1>2, <2>1 DEF PointerCount
  <2>6. CASE dt = OBJECT
    BY <2>2, <2>3, <2>4, <2>5, <2>6
  <2>7. CASE dt # OBJECT
    BY <2>3, <2>4, <2>5, <2>7
  <2> QED BY <2>6, <2>7
<1> QED BY <1>1, <1>2 DEF NewHeader

(* What LayoutsAssumption says of the heap that is collected.               *)
LEMMA LayoutFacts ==
  ASSUME heap \in Layouts
  PROVE  /\ FromUsed \in Nat
         /\ Objects \subseteq 8 .. FromUsed
         /\ \A o \in Objects :
              /\ Size(o) \in Nat /\ Fields(o) \in Nat /\ 8 * Fields(o) <= Size(o)
              /\ o + Size(o) + 8 <= FromUsed
              /\ NewHeader(HeaderOf[o])
         /\ \A o, p \in Objects : o < p =>
              o + Size(o) + 8 <= p /\ o + 8 * Fields(o) + 16 <= p
<1>1. WellFormed(heap)
  BY LayoutsAssumption
<1>2. \A o \in Objects : NewHeader(HeaderOf[o])
  BY <1>1 DEF WellFormed, Objects, HeaderOf
<1>3. \A o \in Objects :
        Size(o) \in Nat /\ Fields(o) \in Nat /\ 8 * Fields(o) <= Size(o)
  BY <1>2, HeaderSizes DEF Size, Fields
<1> QED BY <1>1, <1>2, <1>3
        DEF WellFormed, Objects, HeaderOf, FromUsed, Size, Fields

(* What takes one byte and what takes 8.                                    *)
LEMMA Spans ==
  /\ \A w : IsWord(w) => Span(w) = 8
  /\ \A w : Plain(w) => Span(w) = 1
  /\ \A w : Plain(w) => ~InBounds(w) /\ ~IsHeader(w)
  /\ Plain(Torn)
<1>1. \A w : IsWord(w) => Span(w) = 8
  BY DEF IsWord
<1>2. \A w : Plain(w) => Span(w) = 1 /\ w.tag \in {"torn", "data"}
  BY DEF Plain, IsWord, Span
<1>3. Plain(Torn)
  BY DEF Plain, IsWord, Span, Torn
<1> QED BY <1>1, <1>2, <1>3 DEF InBounds, IsHeader

(* A new header is a word and not marked, marking it marks it, and neither  *)
(* is a reference, with or without its second bit.                          *)
LEMMA Headers ==
  ASSUME NEW h, NewHeader(h)
  PROVE  /\ IsHeader(h) /\ IsWord(h)
         /\ SecondBit(Marked(h))
         /\ ~InBounds(WithoutSecondBit(h))
         /\ ~InBounds(WithoutSecondBit(Marked(h)))
         /\ ~InBounds(h)
<1>1. CASE h.tag = "class"
  <2>1. PICK c, ptrs, size :
          h = [tag |-> "class", c |-> c, ptrs |-> ptrs, size |-> size, marked |-> FALSE]
    BY <1>1 DEF NewHeader, ClassWord, ArrayWord
  <2>2. Marked(h).marked /\ Marked(h).tag = "class"
    BY <2>1 DEF Marked
  <2>3. WithoutSecondBit(h).tag = "class" /\ WithoutSecondBit(Marked(h)).tag = "class"
    BY <2>1, <2>2 DEF WithoutSecondBit, Marked
  <2> QED BY <1>1, <2>2, <2>3 DEF IsHeader, IsWord, Span, SecondBit, InBounds
<1>2. CASE h.tag = "array"
  <2>1. PICK dt, length :
          h = [tag |-> "array", dt |-> dt, length |-> length, marked |-> FALSE]
    BY <1>2 DEF NewHeader, ClassWord, ArrayWord
  <2>2. Marked(h).marked /\ Marked(h).tag = "array"
    BY <2>1 DEF Marked
  <2>3. WithoutSecondBit(h).tag = "array" /\ WithoutSecondBit(Marked(h)).tag = "array"
    BY <2>1, <2>2 DEF WithoutSecondBit, Marked
  <2> QED BY <1>2, <2>2, <2>3 DEF IsHeader, IsWord, Span, SecondBit, InBounds
<1> QED BY <1>1, <1>2 DEF NewHeader

(* References are words.                                                    *)
LEMMA ReferencesAreWords == \A w \in References : IsWord(w)
BY DEF References, Null, Ptr, IsWord, Span

(* Where the bytes of an object lie: those of its spare word, its header    *)
(* and its fields are in the from-space, and no other object begins there.  *)
LEMMA OwnBytes ==
  ASSUME heap \in Layouts, NEW o \in Objects
  PROVE  /\ o \in Int /\ o \in Low .. High - 1
         /\ \A x \in 1 .. 8 : o - x \in Contents /\ o - x \notin PointerFields
         /\ \A x \in 1 .. Size(o) + 7 :
              /\ o + x \in Contents
              /\ o + x \in PointerFields <=> \E i \in 1 .. Fields(o) : x = 8 * i
<1> USE LayoutFacts DEF Low, High
<1>1. o \in 8 .. FromUsed /\ o \in Int /\ o + Size(o) + 8 <= FromUsed
      /\ Size(o) \in Nat /\ FromUsed \in Nat /\ Fields(o) \in Nat
      /\ 8 * Fields(o) <= Size(o)
  OBVIOUS
<1>2. \A p \in Objects : p \in Int /\ Size(p) \in Nat /\ Fields(p) \in Nat
  OBVIOUS
<1>3. \A p \in Objects : p < o =>
        p + Size(p) + 8 <= o /\ p + 8 * Fields(p) + 16 <= o
  OBVIOUS
<1>4. \A p \in Objects : o < p => o + Size(o) + 8 <= p
  OBVIOUS
<1>5. PointerFields = UNION {{p + 8 * i : i \in 1 .. Fields(p)} : p \in Objects}
  BY DEF PointerFields, Fields
<1>6. ASSUME NEW x \in 1 .. 8
      PROVE  o - x \in Contents /\ o - x \notin PointerFields
  <2>1. o - x \notin Objects
    <3> SUFFICES ASSUME o - x \in Objects PROVE FALSE
      OBVIOUS
    <3>1. PICK p \in Objects : p = o - x
      OBVIOUS
    <3>2. PICK z : z = Size(p)
      OBVIOUS
    <3>3. z \in Nat /\ p + z + 8 <= o /\ p < o
      BY <1>1, <1>2, <1>3, <3>1, <3>2
    <3>4. p = o - 8 /\ z = 0
      BY <1>1, <3>1, <3>3
    <3>5. p + 8 * Fields(p) + 16 <= o
      BY <1>3, <3>3
    <3> QED BY <1>1, <1>2, <3>4, <3>5
  <2>2. o - x \notin PointerFields
    <3> SUFFICES ASSUME NEW p \in Objects, NEW i \in 1 .. Fields(p), o - x = p + 8 * i
                 PROVE  FALSE
      BY <1>5
    <3>1. p < o
      BY <1>1, <1>2
    <3>2. PICK f : f = Fields(p)
      OBVIOUS
    <3>3. f \in Nat /\ p + 8 * f + 16 <= o /\ i \in 1 .. f
      BY <1>2, <1>3, <3>1, <3>2
    <3>4. i <= f /\ i \in Int
      BY <3>3
    <3> QED BY <1>1, <1>2, <3>3, <3>4
  <2>3. o - x \in Low .. High - 1
    BY <1>1
  <2> QED BY <2>1, <2>2, <2>3 DEF Contents
<1>7. ASSUME NEW x \in 1 .. Size(o) + 7
      PROVE  /\ o + x \in Contents
             /\ o + x \in PointerFields <=> \E i \in 1 .. Fields(o) : x = 8 * i
  <2>1. o + x \notin Objects
    <3> SUFFICES ASSUME NEW p \in Objects, p = o + x PROVE FALSE
      OBVIOUS
    <3>1. PICK z : z = Size(o)
      OBVIOUS
    <3>2. z \in Nat /\ x \in 1 .. z + 7
      BY <1>1, <3>1
    <3>3. o < p
      BY <1>1, <3>2
    <3>4. o + z + 8 <= p
      BY <1>4, <3>1, <3>3
    <3> QED BY <1>1, <3>2, <3>4
  <2>2. ASSUME NEW p \in Objects, NEW i \in 1 .. Fields(p), o + x = p + 8 * i
        PROVE  p = o
    <3>1. CASE p < o
      <4>1. PICK f : f = Fields(p)
        OBVIOUS
      <4>2. f \in Nat /\ p + 8 * f + 16 <= o /\ i \in 1 .. f
        BY <1>2, <1>3, <3>1, <4>1
      <4>3. i <= f /\ i \in Int
        BY <4>2
      <4> QED BY <1>1, <1>2, <2>2, <4>2, <4>3
    <3>2. CASE o < p
      <4>1. PICK z : z = Size(o)
        OBVIOUS
      <4>2. z \in Nat /\ x \in 1 .. z + 7 /\ o + z + 8 <= p
        BY <1>1, <1>4, <3>2, <4>1
      <4> QED BY <1>1, <1>2, <2>2, <4>2
    <3> QED BY <1>1, <1>2, <3>1, <3>2
  <2>3. o + x \in Low .. High - 1
    BY <1>1
  <2>4. o + x \in PointerFields => \E i \in 1 .. Fields(o) : x = 8 * i
    <3> SUFFICES ASSUME NEW p \in Objects, NEW i \in 1 .. Fields(p), o + x = p + 8 * i
                 PROVE  i \in 1 .. Fields(o) /\ x = 8 * i
      BY <1>5
    <3>1. p = o
      BY <2>2
    <3> QED BY <1>1, <3>1
  <2>5. ASSUME NEW i \in 1 .. Fields(o), x = 8 * i
        PROVE  o + x \in PointerFields
    BY <1>5, <2>5
  <2> QED BY <2>1, <2>3, <2>4, <2>5 DEF Contents
<1> QED BY <1>1, <1>6, <1>7

(* In particular its references.                                            *)
LEMMA OwnReferences ==
  ASSUME heap \in Layouts, NEW o \in Objects, NEW i \in 1 .. Fields(o)
  PROVE  /\ o + 8 * i \in Contents /\ o + 8 * i \in PointerFields
         /\ i \in Nat /\ i >= 1 /\ 8 * i <= Size(o)
<1>1. PICK f, z : f = Fields(o) /\ z = Size(o)
  OBVIOUS
<1>2. f \in Nat /\ z \in Nat /\ 8 * f <= z /\ i \in 1 .. f
  BY <1>1, LayoutFacts
<1>3. i \in Nat /\ i >= 1 /\ 8 * i <= z /\ 8 * i \in 1 .. z + 7
  BY <1>2
<1>4. 8 * i \in 1 .. Size(o) + 7
  BY <1>1, <1>3
<1> QED BY <1>1, <1>3, <1>4, OwnBytes

(* The bytes copied of different objects are different bytes of the space,  *)
(* so the copies of n objects take no more than it holds.                   *)
LEMMA Room ==
  ASSUME heap \in Layouts, NEW S \in SUBSET Objects, NEW o \in Objects \ S
  PROVE  /\ Cardinality(UNION {CopiedBytes(p) : p \in S \cup {o}})
              = Cardinality(UNION {CopiedBytes(p) : p \in S}) + Size(o) + 8
         /\ Cardinality(UNION {CopiedBytes(p) : p \in S \cup {o}}) <= FromUsed
         /\ Cardinality(UNION {CopiedBytes(p) : p \in S}) \in Nat
<1> DEFINE old   == UNION {CopiedBytes(p) : p \in S}
           added == CopiedBytes(o)
           all   == UNION {CopiedBytes(p) : p \in S \cup {o}}
<1>1. all = old \cup added
  OBVIOUS
<1>2. \A p \in Objects : p \in 8 .. FromUsed /\ Size(p) \in Nat
                         /\ p + Size(p) + 8 <= FromUsed
  BY LayoutFacts
<1>3. \A p \in Objects : CopiedBytes(p) \subseteq 0 .. FromUsed - 1
  BY <1>2, LayoutFacts DEF CopiedBytes
<1>4. \A p \in S : CopiedBytes(p) \cap added = {}
  <2> TAKE p \in S
  <2>1. p < o \/ o < p
    BY <1>2
  <2>2. p + Size(p) + 8 <= o \/ o + Size(o) + 8 <= p
    BY <2>1, LayoutFacts
  <2> QED BY <1>2, <2>2 DEF CopiedBytes
<1>5. old \cap added = {}
  BY <1>4
<1>6. all \subseteq 0 .. FromUsed - 1
  BY <1>3
<1>7. IsFiniteSet(0 .. FromUsed - 1) /\ Cardinality(0 .. FromUsed - 1) = FromUsed
  <2>1. FromUsed \in Nat /\ FromUsed - 1 \in Int
    BY LayoutFacts
  <2>2. IsFiniteSet(0 .. FromUsed - 1)
        /\ Cardinality(0 .. FromUsed - 1) =
             IF 0 > FromUsed - 1 THEN 0 ELSE (FromUsed - 1) - 0 + 1
    BY <2>1, FS_Interval
  <2> QED BY <2>1, <2>2
<1>8. IsFiniteSet(added) /\ Cardinality(added) = Size(o) + 8
  <2>1. o - 8 \in Int /\ o + Size(o) - 1 \in Int /\ Size(o) \in Nat /\ o \in Int
    BY <1>2
  <2>2. IsFiniteSet(o - 8 .. o + Size(o) - 1)
        /\ Cardinality(o - 8 .. o + Size(o) - 1) =
             IF o - 8 > o + Size(o) - 1 THEN 0 ELSE (o + Size(o) - 1) - (o - 8) + 1
    BY <2>1, FS_Interval
  <2> QED BY <2>1, <2>2 DEF CopiedBytes
<1> HIDE DEF old, added, all
<1>9. IsFiniteSet(all) /\ Cardinality(all) <= FromUsed
  BY <1>6, <1>7, FS_Subset
<1>10. IsFiniteSet(old)
  BY <1>1, <1>9, FS_Subset
<1>11. Cardinality(all) = Cardinality(old) + Cardinality(added) - Cardinality({})
  BY <1>1, <1>5, <1>8, <1>10, FS_Union
<1>12. Cardinality(old) \in Nat /\ Size(o) \in Nat
  BY <1>2, <1>10, FS_CardinalityType
<1>13. Cardinality(all) = Cardinality(old) + Size(o) + 8
  BY <1>8, <1>11, <1>12, FS_EmptySet
<1> QED BY <1>9, <1>12, <1>13 DEF old, all

----------------------------------------------------------------------------
(* What forward_object does to the two spaces.                              *)

(* One more copy, of o: the memory, the end of the copies, the copies.      *)
WithCopy(o)  == MarkCopied(CopyBytes(mem, o - 8, dest, Size(o) + 8), o)
EndAfter(o)  == dest + Size(o) + 8
MadeAfter(o) == Append(copies, [of |-> o, at |-> dest + 8])

(* The copies made after one more.                                          *)
LEMMA MadeAfterFacts ==
  ASSUME heap \in Layouts, Places(dest, copies), NEW o \in Objects
  PROVE  /\ MadeAfter(o) \in Seq([of : Objects, at : Nat])
         /\ Len(MadeAfter(o)) = Len(copies) + 1 /\ Len(copies) \in Nat
         /\ \A k \in 1 .. Len(copies) : MadeAfter(o)[k] = copies[k]
         /\ MadeAfter(o)[Len(copies) + 1].of = o
         /\ MadeAfter(o)[Len(copies) + 1].at = dest + 8
         /\ CopiedIn(MadeAfter(o)) = CopiedIn(copies) \cup {o}
         /\ dest \in Nat /\ dest >= ToStart /\ ToStart \in Nat
<1>1. copies \in Seq([of : Objects, at : Nat]) /\ dest \in ToStart .. ToStart + FromUsed
  BY DEF Places
<1>2. dest \in Nat /\ dest >= ToStart /\ ToStart \in Nat
  BY <1>1, LayoutFacts DEF ToStart, High, Low
<1> DEFINE c == [of |-> o, at |-> dest + 8]
<1>3. c \in [of : Objects, at : Nat] /\ c.of = o /\ c.at = dest + 8
  BY <1>2
<1> HIDE DEF c
<1>4. /\ Append(copies, c) \in Seq([of : Objects, at : Nat])
      /\ Len(Append(copies, c)) = Len(copies) + 1
      /\ \A k \in 1 .. Len(copies) : Append(copies, c)[k] = copies[k]
      /\ Append(copies, c)[Len(copies) + 1] = c
      /\ Len(copies) \in Nat
  BY <1>1, <1>3, AppendProperties, LenProperties
<1>5. MadeAfter(o) = Append(copies, c)
  BY DEF MadeAfter, c
<1>6. CopiedIn(MadeAfter(o)) = CopiedIn(copies) \cup {o}
  BY <1>3, <1>4, <1>5 DEF CopiedIn
<1> QED BY <1>2, <1>3, <1>4, <1>5, <1>6

(* They lie one after another, and there is room for them.                  *)
LEMMA PlacesAfter ==
  ASSUME heap \in Layouts, Places(dest, copies),
         NEW o \in Objects, o \notin CopiedIn(copies)
  PROVE  Places(EndAfter(o), MadeAfter(o))
<1> DEFINE n == Len(copies)
<1>1. /\ MadeAfter(o) \in Seq([of : Objects, at : Nat])
      /\ Len(MadeAfter(o)) = n + 1 /\ n \in Nat
      /\ \A k \in 1 .. n : MadeAfter(o)[k] = copies[k]
      /\ MadeAfter(o)[n + 1].of = o
      /\ MadeAfter(o)[n + 1].at = dest + 8
      /\ CopiedIn(MadeAfter(o)) = CopiedIn(copies) \cup {o}
      /\ dest \in Nat /\ dest >= ToStart /\ ToStart \in Nat
  BY MadeAfterFacts
<1>2. /\ Size(o) \in Nat /\ FromUsed \in Nat
      /\ \A p \in Objects : Size(p) \in Nat
  BY LayoutFacts
<1>3. \A k \in 1 .. n : copies[k].of \in Objects /\ copies[k].at \in Nat
  <2> TAKE k \in 1 .. n
  <2>1. copies \in Seq([of : Objects, at : Nat])
    BY DEF Places
  <2>2. copies[k] \in [of : Objects, at : Nat]
    BY <2>1, ElementOfSeq
  <2> QED BY <2>2
<1>4. \A k \in 1 .. n : copies[k].of # o
  BY DEF CopiedIn
<1>5. EndAfter(o) \in ToStart .. ToStart + FromUsed
      /\ Cardinality(UNION {CopiedBytes(p) : p \in CopiedIn(MadeAfter(o))})
           = EndAfter(o) - ToStart
  <2>1. CopiedIn(copies) \in SUBSET Objects
    BY <1>3 DEF CopiedIn
  <2>2. Cardinality(UNION {CopiedBytes(p) : p \in CopiedIn(copies)}) = dest - ToStart
    BY DEF Places, AsManyBytes
  <2>3. /\ Cardinality(UNION {CopiedBytes(p) : p \in CopiedIn(copies) \cup {o}})
             = Cardinality(UNION {CopiedBytes(p) : p \in CopiedIn(copies)}) + Size(o) + 8
        /\ Cardinality(UNION {CopiedBytes(p) : p \in CopiedIn(copies) \cup {o}})
             <= FromUsed
    BY <2>1, Room
  <2>4. PICK x, y, z :
          /\ x = Cardinality(UNION {CopiedBytes(p) : p \in CopiedIn(copies)})
          /\ y = Cardinality(UNION {CopiedBytes(p) : p \in CopiedIn(copies) \cup {o}})
          /\ z = Size(o)
    OBVIOUS
  <2>5. /\ x = dest - ToStart /\ y = x + z + 8 /\ y <= FromUsed
        /\ z \in Nat /\ EndAfter(o) = dest + z + 8
    BY <1>2, <2>2, <2>3, <2>4 DEF EndAfter
  <2>6. PICK e : e = EndAfter(o)
    OBVIOUS
  <2>7. e = dest + z + 8
    BY <2>5, <2>6
  <2>8. e \in ToStart .. ToStart + FromUsed /\ y = e - ToStart
    <3>1. dest \in Nat /\ dest >= ToStart /\ ToStart \in Nat /\ FromUsed \in Nat
          /\ z \in Nat
      BY <1>1, <1>2, <2>5
    <3>2. x = dest - ToStart /\ y = x + z + 8 /\ y <= FromUsed /\ e = dest + z + 8
      BY <2>5, <2>7
    <3>3. y = e - ToStart /\ e >= ToStart /\ e \in Nat
      BY <3>1, <3>2
    <3> QED BY <3>1, <3>2, <3>3
  <2> QED BY <1>1, <2>4, <2>6, <2>8
<1> DEFINE cs == MadeAfter(o)
<1> HIDE DEF cs, n
<1>6. /\ \A k \in 1 .. n : copies[k].at + Size(copies[k].of) <= dest
      /\ \A k \in 1 .. n : copies[k].at >= ToStart + 8
      /\ \A k \in 1 .. n :
           copies[k].at = IF k = 1 THEN ToStart + 8
                          ELSE copies[k - 1].at + Size(copies[k - 1].of) + 8
      /\ \A j, k \in 1 .. n : j < k =>
           copies[j].of # copies[k].of
           /\ copies[j].at + Size(copies[j].of) + 8 <= copies[k].at
      /\ dest = IF n = 0 THEN ToStart ELSE copies[n].at + Size(copies[n].of)
  BY DEF Places, n
<1>7. /\ cs \in Seq([of : Objects, at : Nat])
      /\ Len(cs) = n + 1 /\ n \in Nat
      /\ \A k \in 1 .. n : cs[k] = copies[k]
      /\ cs[n + 1].of = o /\ cs[n + 1].at = dest + 8
  BY <1>1 DEF cs
<1>8. \A j, k \in 1 .. n + 1 : j < k =>
        cs[j].of # cs[k].of /\ cs[j].at + Size(cs[j].of) + 8 <= cs[k].at
  <2> SUFFICES ASSUME NEW j \in 1 .. n + 1, NEW k \in 1 .. n + 1, j < k
               PROVE  cs[j].of # cs[k].of /\ cs[j].at + Size(cs[j].of) + 8 <= cs[k].at
    OBVIOUS
  <2>1. j \in 1 .. n /\ cs[j] = copies[j]
    BY <1>7
  <2>2. CASE k = n + 1
    <3>1. cs[k].of = o /\ cs[k].at = dest + 8
      BY <1>7, <2>2
    <3>2. copies[j].of # o /\ copies[j].at + Size(copies[j].of) <= dest
          /\ copies[j].at \in Nat /\ Size(copies[j].of) \in Nat
      BY <1>2, <1>3, <1>4, <1>6, <2>1
    <3>3. copies[j].at + Size(copies[j].of) + 8 <= dest + 8
      <4>1. PICK e, y : e = copies[j].at /\ y = Size(copies[j].of)
        OBVIOUS
      <4>2. e \in Nat /\ y \in Nat /\ e + y <= dest
        BY <3>2, <4>1
      <4>3. e + y + 8 <= dest + 8
        BY <1>1, <4>2
      <4> QED BY <4>1, <4>3
    <3> QED BY <2>1, <3>1, <3>2, <3>3
  <2>3. CASE k \in 1 .. n
    <3>1. cs[k] = copies[k]
      BY <1>7, <2>3
    <3>2. copies[j].of # copies[k].of
          /\ copies[j].at + Size(copies[j].of) + 8 <= copies[k].at
      BY <1>6, <2>1, <2>3
    <3> QED BY <2>1, <3>1, <3>2
  <2> QED BY <1>7, <2>2, <2>3
<1>9. \A k \in 1 .. n + 1 :
        /\ cs[k].at = IF k = 1 THEN ToStart + 8
                               ELSE cs[k - 1].at + Size(cs[k - 1].of) + 8
        /\ cs[k].at >= ToStart + 8
        /\ cs[k].at + Size(cs[k].of) <= EndAfter(o)
  <2> SUFFICES ASSUME NEW k \in 1 .. n + 1
               PROVE  /\ cs[k].at = IF k = 1 THEN ToStart + 8
                                    ELSE cs[k - 1].at + Size(cs[k - 1].of) + 8
                      /\ cs[k].at >= ToStart + 8
                      /\ cs[k].at + Size(cs[k].of) <= EndAfter(o)
    OBVIOUS
  <2>1. CASE k \in 1 .. n
    <3>1. k # 1 => cs[k - 1] = copies[k - 1]
      <4>1. k # 1 => k - 1 \in 1 .. n
        BY <1>7, <2>1
      <4> QED BY <1>7, <4>1
    <3>2. cs[k] = copies[k]
      BY <1>7, <2>1
    <3>3. copies[k].at + Size(copies[k].of) <= EndAfter(o)
      <4>1. copies[k].at \in Nat /\ Size(copies[k].of) \in Nat
            /\ copies[k].at + Size(copies[k].of) <= dest
        BY <1>2, <1>3, <1>6, <2>1
      <4>2. PICK e, y, z : e = copies[k].at /\ y = Size(copies[k].of) /\ z = Size(o)
        OBVIOUS
      <4>3. e \in Nat /\ y \in Nat /\ z \in Nat /\ e + y <= dest /\ dest \in Nat
        BY <1>1, <1>2, <4>1, <4>2
      <4>4. e + y <= dest + z + 8
        BY <4>3
      <4> QED BY <4>2, <4>4 DEF EndAfter
    <3> QED BY <1>6, <2>1, <3>1, <3>2, <3>3
  <2>2. CASE k = n + 1
    <3>1. n # 0 => n \in 1 .. n
      BY <1>7
    <3>2. cs[k].at = dest + 8 /\ cs[k].of = o
      BY <1>7, <2>2
    <3>3. cs[k].at + Size(cs[k].of) <= EndAfter(o)
      <4>1. (dest + 8) + Size(o) <= EndAfter(o)
        BY <1>1, <1>2 DEF EndAfter
      <4> QED BY <3>2, <4>1
    <3>4. k # 1 => cs[k - 1].at + Size(cs[k - 1].of) = dest
      <4>1. k # 1 => n # 0 /\ k - 1 = n /\ cs[k - 1] = copies[k - 1]
        BY <1>7, <2>2, <3>1
      <4> QED BY <1>6, <4>1
    <3>5. k = 1 => n = 0 /\ dest = ToStart
      BY <1>6, <1>7, <2>2
    <3>6. cs[k].at >= ToStart + 8
      BY <1>1, <3>2
    <3> QED BY <3>2, <3>3, <3>4, <3>5, <3>6
  <2> QED BY <1>7, <2>1, <2>2
<1>10. EndAfter(o) = cs[n + 1].at + Size(cs[n + 1].of) /\ n + 1 # 0
  <2>1. EndAfter(o) = (dest + 8) + Size(o)
    BY <1>1, <1>2 DEF EndAfter
  <2>2. n + 1 # 0
    BY <1>7
  <2> QED BY <1>7, <2>1, <2>2
<1> QED BY <1>5, <1>7, <1>8, <1>9, <1>10 DEF Places, AsManyBytes, cs

(* Memory after one more copy: o's header is marked, its bytes are at the   *)
(* end of the copies, with the words that run over the end of it torn, and  *)
(* nothing else was written.                                                *)
LEMMA BytesAfter ==
  ASSUME heap \in Layouts, FromSpace(mem, copies), Places(dest, copies),
         NEW o \in Objects, o \notin CopiedIn(copies)
  PROVE  /\ DOMAIN WithCopy(o) = Addresses
         /\ WithCopy(o) = [a \in Addresses |-> WithCopy(o)[a]]
         /\ WithCopy(o)[o] = Marked(HeaderOf[o])
         /\ \A a \in Addresses \ {o} : a \notin dest .. EndAfter(o) - 1 =>
              WithCopy(o)[a] = mem[a]
         /\ \A x \in 0 .. Size(o) + 7 :
              WithCopy(o)[dest + x] = IF x + Span(mem[o - 8 + x]) <= Size(o) + 8
                                      THEN mem[o - 8 + x] ELSE Torn
<1>1. /\ o \in Int /\ o \in Low .. High - 1 /\ Low = 0 /\ High \in Nat /\ ToStart = High
      /\ Size(o) \in Nat /\ dest \in Nat /\ dest >= High
      /\ FromUsed \in Nat
  BY LayoutFacts, OwnBytes, MadeAfterFacts DEF Low, High, ToStart
<1>2. mem[o] = HeaderOf[o]
  BY DEF FromSpace
<1>3. EndAfter(o) <= ToStart + FromUsed
  <2>1. Places(EndAfter(o), MadeAfter(o))
    BY PlacesAfter
  <2>2. EndAfter(o) \in ToStart .. ToStart + FromUsed
    BY <2>1 DEF Places
  <2> QED BY <1>1, <2>2
<1> DEFINE m == CopyBytes(mem, o - 8, dest, Size(o) + 8)
<1>4. o \in Addresses /\ (\A x \in 0 .. Size(o) + 7 : dest + x \in Addresses)
  BY <1>1, <1>3 DEF Addresses, EndAfter
<1>5. /\ DOMAIN m = Addresses
      /\ \A a \in Addresses :
           m[a] = IF a \in dest .. dest + (Size(o) + 8) - 1
                  THEN IF a + Span(mem[o - 8 + (a - dest)]) <= dest + (Size(o) + 8)
                       THEN mem[o - 8 + (a - dest)] ELSE Torn
                  ELSE mem[a]
  BY DEF CopyBytes
<1> HIDE DEF m
<1>6. m[o] = HeaderOf[o]
  BY <1>1, <1>2, <1>4, <1>5
<1>7. WithCopy(o) = [m EXCEPT ![o] = Marked(@)]
  BY DEF WithCopy, MarkCopied, Marked, m
<1>8. /\ DOMAIN WithCopy(o) = Addresses
      /\ WithCopy(o) = [a \in Addresses |-> WithCopy(o)[a]]
      /\ WithCopy(o)[o] = Marked(HeaderOf[o])
      /\ \A a \in Addresses \ {o} : WithCopy(o)[a] = m[a]
  BY <1>4, <1>5, <1>6, <1>7
<1>9. \A a \in Addresses \ {o} : a \notin dest .. EndAfter(o) - 1 =>
        WithCopy(o)[a] = mem[a]
  BY <1>1, <1>5, <1>8 DEF EndAfter
<1>10. ASSUME NEW x \in 0 .. Size(o) + 7
       PROVE  WithCopy(o)[dest + x] = IF x + Span(mem[o - 8 + x]) <= Size(o) + 8
                                      THEN mem[o - 8 + x] ELSE Torn
  <2>1. dest + x \in Addresses \ {o} /\ dest + x \in dest .. dest + (Size(o) + 8) - 1
        /\ o - 8 + ((dest + x) - dest) = o - 8 + x
    BY <1>1, <1>4
  <2>2. PICK w : w = mem[o - 8 + x]
    OBVIOUS
  <2>3. Span(w) \in Nat
    BY DEF Span
  <2>4. m[dest + x] = IF (dest + x) + Span(w) <= dest + (Size(o) + 8) THEN w ELSE Torn
    BY <1>5, <2>1, <2>2
  <2>5. (dest + x) + Span(w) <= dest + (Size(o) + 8) <=> x + Span(w) <= Size(o) + 8
    BY <1>1, <2>3
  <2> QED BY <1>8, <2>1, <2>2, <2>4, <2>5
<1> QED BY <1>8, <1>9, <1>10

(* One more copy keeps the from-space: of its words only a header changes,  *)
LEMMA FromSpaceAfter ==
  ASSUME heap \in Layouts, FromSpace(mem, copies), Places(dest, copies),
         NEW o \in Objects, o \notin CopiedIn(copies)
  PROVE  /\ FromSpace(WithCopy(o), MadeAfter(o))
         /\ \A a \in Contents : WithCopy(o)[a] = mem[a]
<1>1. /\ DOMAIN WithCopy(o) = Addresses
      /\ WithCopy(o) = [a \in Addresses |-> WithCopy(o)[a]]
      /\ WithCopy(o)[o] = Marked(HeaderOf[o])
      /\ \A a \in Addresses \ {o} : a \notin dest .. EndAfter(o) - 1 =>
           WithCopy(o)[a] = mem[a]
  BY BytesAfter
<1>2. CopiedIn(MadeAfter(o)) = CopiedIn(copies) \cup {o}
  BY MadeAfterFacts
<1>3. \A a \in Low .. High - 1 : a \in Addresses /\ a \notin dest .. EndAfter(o) - 1
  <2>1. FromUsed \in Nat /\ Size(o) \in Nat
    BY LayoutFacts
  <2>2. dest \in Nat /\ dest >= ToStart
    BY MadeAfterFacts
  <2>3. EndAfter(o) \in Nat
    BY <2>1, <2>2 DEF EndAfter
  <2> QED BY <2>1, <2>2, <2>3 DEF Addresses, ToStart, Low, High
<1>4. \A p \in Objects : p \in Low .. High - 1
  BY OwnBytes
<1>5. \A a \in Contents : WithCopy(o)[a] = mem[a]
  BY <1>1, <1>3 DEF Contents
<1>6. \A p \in Objects : p # o => WithCopy(o)[p] = mem[p]
  BY <1>1, <1>3, <1>4
<1> QED BY <1>1, <1>2, <1>5, <1>6 DEF FromSpace

(* What the new copy holds: a plain spare word, the header if the copy is   *)
(* not too short, its data, the references that fit in it, and no word that *)
(* runs over its end.                                                       *)
LEMMA CopyHolds ==
  ASSUME heap \in Layouts, FromSpace(mem, copies), Places(dest, copies),
         NEW o \in Objects, o \notin CopiedIn(copies),
         NEW c, c = dest + 8, NEW m, m = WithCopy(o)
  PROVE  /\ \A x \in 1 .. 8 : Plain(m[c - x])
         /\ Size(o) >= 8 => m[c] = HeaderOf[o]
         /\ \A x \in 0 .. Size(o) - 1 : x + 8 > Size(o) => Plain(m[c + x])
         /\ \A x \in 8 * Fields(o) + 8 .. Size(o) - 1 : m[c + x] = m[o + x]
         /\ \A i \in 1 .. Fields(o) : Whole(o, i) => m[c + 8 * i] = m[o + 8 * i]
<1>1. /\ o \in Int /\ dest \in Nat /\ Size(o) \in Nat /\ Fields(o) \in Nat
      /\ 8 * Fields(o) <= Size(o)
  BY LayoutFacts, OwnBytes, MadeAfterFacts
<1>2. ASSUME NEW x \in 0 .. Size(o) + 7
      PROVE  m[dest + x] = IF x + Span(mem[o - 8 + x]) <= Size(o) + 8
                           THEN mem[o - 8 + x] ELSE Torn
  BY BytesAfter
<1>3. \A a \in Contents : m[a] = mem[a]
  BY FromSpaceAfter
<1>4. ASSUME NEW x \in 1 .. 8
      PROVE  Plain(m[c - x])
  <2>1. PICK y : y = 8 - x
    OBVIOUS
  <2>2. y \in 0 .. 7 /\ c - x = dest + y /\ o - 8 + y = o - x /\ y \in 0 .. Size(o) + 7
    BY <1>1, <2>1
  <2>3. Plain(mem[o - x])
    BY OwnBytes DEF FromSpace
  <2>4. m[dest + y] = mem[o - x] \/ m[dest + y] = Torn
    BY <1>2, <2>2
  <2> QED BY <2>2, <2>3, <2>4, Spans
<1>5. ASSUME Size(o) >= 8
      PROVE  m[c] = HeaderOf[o]
  <2>1. mem[o] = HeaderOf[o]
    BY DEF FromSpace
  <2>2. Span(mem[o]) = 8
    BY <2>1, LayoutFacts, Headers, Spans
  <2>3. 8 \in 0 .. Size(o) + 7 /\ o - 8 + 8 = o /\ 8 + 8 <= Size(o) + 8
    BY <1>1, <1>5
  <2>4. m[dest + 8] = mem[o]
    BY <1>2, <2>2, <2>3
  <2> QED BY <2>1, <2>4
<1>6. ASSUME NEW x \in 0 .. Size(o) - 1, x + 8 > Size(o)
      PROVE  Plain(m[c + x])
  <2>1. PICK y, w : y = x + 8 /\ w = mem[o - 8 + y]
    OBVIOUS
  <2>2. y \in 0 .. Size(o) + 7 /\ dest + y = c + x /\ y + 8 > Size(o) + 8
    BY <1>1, <1>6, <2>1
  <2>3. m[c + x] = IF y + Span(w) <= Size(o) + 8 THEN w ELSE Torn
    BY <1>2, <2>1, <2>2
  <2>4. IsWord(w) => ~(y + Span(w) <= Size(o) + 8)
    <3>1. IsWord(w) => Span(w) = 8
      BY Spans
    <3> QED BY <1>1, <2>2, <3>1
  <2> QED BY <2>3, <2>4, Spans DEF Plain
<1>7. ASSUME NEW x \in 8 * Fields(o) + 8 .. Size(o) - 1
      PROVE  m[c + x] = m[o + x]
  <2>1. PICK f, z : f = Fields(o) /\ z = Size(o)
    OBVIOUS
  <2>2. f \in Nat /\ z \in Nat /\ x \in 8 * f + 8 .. z - 1
    BY <1>1, <2>1
  <2>3. x \in 1 .. z + 7 /\ x + 8 \in 0 .. z + 7 /\ x > 8 * f /\ x \in Int
    BY <2>2
  <2>4. ~ \E i \in 1 .. f : x = 8 * i
    BY <2>2, <2>3
  <2>5. o + x \in Contents /\ o + x \notin PointerFields
    BY <2>1, <2>3, <2>4, OwnBytes
  <2>6. Span(mem[o + x]) = 1
    BY <2>5, Spans DEF FromSpace
  <2>7. dest + (x + 8) = c + x /\ o - 8 + (x + 8) = o + x /\ (x + 8) + 1 <= z + 8
    BY <1>1, <2>2
  <2>8. m[dest + (x + 8)] = mem[o + x]
    BY <1>2, <2>1, <2>3, <2>6, <2>7
  <2> QED BY <1>3, <2>5, <2>7, <2>8
<1>8. ASSUME NEW i \in 1 .. Fields(o), Whole(o, i)
      PROVE  m[c + 8 * i] = m[o + 8 * i]
  <2>1. o + 8 * i \in Contents /\ o + 8 * i \in PointerFields
        /\ i \in Nat /\ i >= 1 /\ 8 * i <= Size(o)
    BY OwnReferences
  <2>2. Span(mem[o + 8 * i]) = 8
    BY <2>1, ReferencesAreWords, Spans DEF FromSpace
  <2>3. /\ 8 * i + 8 \in 0 .. Size(o) + 7
        /\ dest + (8 * i + 8) = c + 8 * i
        /\ o - 8 + (8 * i + 8) = o + 8 * i
        /\ (8 * i + 8) + 8 <= Size(o) + 8
    BY <1>1, <1>8, <2>1 DEF Whole
  <2>4. m[dest + (8 * i + 8)] = mem[o + 8 * i]
    BY <1>2, <2>2, <2>3
  <2> QED BY <1>3, <2>1, <2>3, <2>4
<1> QED BY <1>4, <1>5, <1>6, <1>7, <1>8

(* The copies there were are left alone, and no word begins behind them.    *)
LEMMA ToSpaceAfter ==
  ASSUME heap \in Layouts, Space(mem, dest, copies),
         NEW o \in Objects, o \notin CopiedIn(copies)
  PROVE  /\ ToSpace(WithCopy(o), EndAfter(o), MadeAfter(o))
         /\ \A a \in ToStart .. dest - 1 : WithCopy(o)[a] = mem[a]
<1> DEFINE m == WithCopy(o)
           n == Len(copies)
           cs == MadeAfter(o)
<1>1. FromSpace(mem, copies) /\ Places(dest, copies) /\ ToSpace(mem, dest, copies)
  BY DEF Space
<1>2. /\ \A a \in Addresses \ {o} : a \notin dest .. EndAfter(o) - 1 => m[a] = mem[a]
      /\ \A a \in Contents : m[a] = mem[a]
  BY <1>1, BytesAfter, FromSpaceAfter
<1>3. /\ Len(cs) = n + 1 /\ n \in Nat
      /\ \A k \in 1 .. n : cs[k] = copies[k]
      /\ cs[n + 1].of = o /\ cs[n + 1].at = dest + 8
      /\ dest \in Nat /\ dest >= ToStart /\ ToStart \in Nat
  BY <1>1, MadeAfterFacts
<1>4. /\ FromUsed \in Nat /\ Size(o) \in Nat
      /\ Low = 0 /\ High = FromUsed /\ ToStart = High
      /\ o \in Low .. High - 1
      /\ EndAfter(o) = dest + Size(o) + 8
  BY LayoutFacts, OwnBytes DEF Low, High, ToStart, EndAfter
<1>5. EndAfter(o) \in ToStart .. ToStart + FromUsed
  <2>1. Places(EndAfter(o), MadeAfter(o))
    BY <1>1, PlacesAfter
  <2> QED BY <2>1 DEF Places
<1>6. /\ \A x \in 1 .. 8 : Plain(m[(dest + 8) - x])
      /\ Size(o) >= 8 => m[dest + 8] = HeaderOf[o]
      /\ \A x \in 0 .. Size(o) - 1 : x + 8 > Size(o) => Plain(m[(dest + 8) + x])
      /\ \A x \in 8 * Fields(o) + 8 .. Size(o) - 1 : m[(dest + 8) + x] = m[o + x]
  <2>1. PICK c : c = dest + 8
    OBVIOUS
  <2>2. /\ \A x \in 1 .. 8 : Plain(m[c - x])
        /\ Size(o) >= 8 => m[c] = HeaderOf[o]
        /\ \A x \in 0 .. Size(o) - 1 : x + 8 > Size(o) => Plain(m[c + x])
        /\ \A x \in 8 * Fields(o) + 8 .. Size(o) - 1 : m[c + x] = m[o + x]
    BY <1>1, <2>1, CopyHolds
  <2> QED BY <2>1, <2>2
<1> HIDE DEF m, cs, n
<1>7. \A a \in ToStart .. dest - 1 : m[a] = mem[a]
  BY <1>2, <1>3, <1>4, <1>5 DEF Addresses
<1>8. \A a \in EndAfter(o) .. ToStart + FromUsed : Plain(m[a])
  <2>1. \A a \in dest .. ToStart + FromUsed : Plain(mem[a])
    BY <1>1 DEF ToSpace
  <2> TAKE a \in EndAfter(o) .. ToStart + FromUsed
  <2>2. a \in dest .. ToStart + FromUsed /\ a \notin dest .. EndAfter(o) - 1
    BY <1>3, <1>4
  <2>3. a \in Addresses \ {o}
    BY <1>3, <1>4 DEF Addresses
  <2> QED BY <1>2, <2>1, <2>2, <2>3
<1>9. ASSUME NEW k \in 1 .. n + 1
      PROVE  /\ \A x \in 1 .. 8 : Plain(m[cs[k].at - x])
             /\ Size(cs[k].of) >= 8 => m[cs[k].at] = HeaderOf[cs[k].of]
             /\ \A x \in 0 .. Size(cs[k].of) - 1 :
                  x + 8 > Size(cs[k].of) => Plain(m[cs[k].at + x])
             /\ \A x \in 8 * Fields(cs[k].of) + 8 .. Size(cs[k].of) - 1 :
                  m[cs[k].at + x] = m[cs[k].of + x]
  <2>1. CASE k = n + 1
    BY <1>3, <1>6, <2>1
  <2>2. CASE k \in 1 .. n
    <3>1. PICK p, c, z, f : /\ p = copies[k].of /\ c = copies[k].at /\ z = Size(p)
                            /\ f = Fields(p)
      OBVIOUS
    <3>2. cs[k].of = p /\ cs[k].at = c
      BY <1>3, <2>2, <3>1
    <3>3. p \in Objects /\ c \in Nat
      <4>1. copies \in Seq([of : Objects, at : Nat])
        BY <1>1 DEF Places
      <4>2. copies[k] \in [of : Objects, at : Nat]
        BY <2>2, <4>1, ElementOfSeq DEF n
      <4> QED BY <3>1, <4>2
    <3>4. c >= ToStart + 8 /\ c + z <= dest
      BY <1>1, <2>2, <3>1 DEF Places, n
    <3>5. /\ \A x \in 1 .. 8 : Plain(mem[c - x])
          /\ z >= 8 => mem[c] = HeaderOf[p]
          /\ \A x \in 0 .. z - 1 : x + 8 > z => Plain(mem[c + x])
          /\ \A x \in 8 * f + 8 .. z - 1 : mem[c + x] = mem[p + x]
      BY <1>1, <2>2, <3>1 DEF ToSpace, n
    <3>6. z \in Nat /\ f \in Nat
      BY <3>1, <3>3, LayoutFacts
    <3>7. \A x \in 1 .. 8 : m[c - x] = mem[c - x]
      <4> TAKE x \in 1 .. 8
      <4>1. c - x \in ToStart .. dest - 1
        BY <1>3, <3>3, <3>4, <3>6
      <4> QED BY <1>7, <4>1
    <3>8. \A x \in 0 .. z - 1 : m[c + x] = mem[c + x]
      <4> TAKE x \in 0 .. z - 1
      <4>1. c + x \in ToStart .. dest - 1
        BY <1>3, <3>3, <3>4, <3>6
      <4> QED BY <1>7, <4>1
    <3>9. z >= 8 => m[c] = mem[c]
      <4>1. z >= 8 => 0 \in 0 .. z - 1 /\ c + 0 = c
        BY <3>3, <3>6
      <4> QED BY <3>8, <4>1
    <3>10. ASSUME NEW x \in 8 * f + 8 .. z - 1
           PROVE  m[c + x] = m[p + x]
      <4>1. x \in 0 .. z - 1 /\ x \in 1 .. z + 7
        BY <3>6
      <4>2. p + x \in Contents
        BY <3>1, <3>3, <4>1, OwnBytes
      <4> QED BY <1>2, <3>5, <3>8, <4>1, <4>2
    <3> QED BY <3>1, <3>2, <3>5, <3>7, <3>8, <3>9, <3>10
  <2> QED BY <1>3, <2>1, <2>2
<1>10. ToSpace(m, EndAfter(o), cs)
  BY <1>3, <1>8, <1>9 DEF ToSpace
<1> QED BY <1>7, <1>10 DEF m, cs

(* What a call of forward_object on w may have changed: further copies after *)
(* the ones there were, the bytes of the object copied, the mark on it.     *)
Extended(m, d, cs, w) ==
  /\ Len(copies) \in Nat /\ Len(cs) \in Nat /\ Len(cs) >= Len(copies)
  /\ \A k \in 1 .. Len(copies) : cs[k] = copies[k]
  /\ \A a \in Contents : m[a] = mem[a]
  /\ \A a \in ToStart .. dest - 1 : m[a] = mem[a]
  /\ d >= dest
  /\ \A k \in Len(copies) + 1 .. Len(cs) :
       /\ cs[k].of \in Objects /\ w = Ptr(cs[k].of)
       /\ cs[k].at > dest
       /\ \A i \in 1 .. Fields(cs[k].of) : Whole(cs[k].of, i) =>
            m[cs[k].at + 8 * i] = m[cs[k].of + 8 * i]

(* forward_object keeps the two spaces sound, its answer is not a reference *)
(* into the from-space, and an ordinary object it was called on is copied.  *)
LEMMA ForwardEffect ==
  ASSUME heap \in Layouts, Space(mem, dest, copies),
         NEW w, w \in References \/ ~InBounds(w)
  PROVE  /\ Space(Forward(w).mem, Forward(w).dest, Forward(w).copies)
         /\ Extended(Forward(w).mem, Forward(w).dest, Forward(w).copies, w)
         /\ ~InBounds(Forward(w).to)
         /\ Kept(w, Forward(w).copies)
         /\ ~InBounds(w) => /\ Forward(w).mem = mem /\ Forward(w).dest = dest
                            /\ Forward(w).copies = copies /\ Forward(w).to = w
<1>1. FromSpace(mem, copies) /\ Places(dest, copies) /\ ToSpace(mem, dest, copies)
  BY DEF Space
<1>2. Len(copies) \in Nat /\ dest \in Nat
  <2>1. copies \in Seq([of : Objects, at : Nat])
    BY <1>1 DEF Places
  <2>2. dest \in Nat
    BY <1>1, LayoutFacts DEF Places, ToStart, High, Low
  <2> QED BY <2>1, <2>2, LenProperties
<1>3. Extended(mem, dest, copies, w)
  BY <1>2 DEF Extended
<1>4. CASE ~InBounds(w)
  <2>1. Forward(w) = [mem |-> mem, dest |-> dest, to |-> w, copies |-> copies]
    BY <1>4 DEF Forward
  <2>2. Kept(w, copies)
    <3>1. \A o \in Objects : InBounds(Ptr(o))
      BY OwnBytes DEF InBounds, Ptr
    <3> QED BY <1>4, <3>1 DEF Kept
  <2> QED BY <1>3, <1>4, <2>1, <2>2
<1>5. CASE InBounds(w)
  <2>1. PICK o \in Objects : w = Ptr(o)
    BY <1>5 DEF References, InBounds, Null
  <2>2. w.to = o
    BY <2>1 DEF Ptr
  <2>3. NewHeader(HeaderOf[o])
    BY LayoutFacts
  <2>4. mem[o] = IF o \in CopiedIn(copies) THEN Marked(HeaderOf[o]) ELSE HeaderOf[o]
    BY <1>1 DEF FromSpace
  <2>5. CASE SecondBit(mem[o])
    <3>1. Forward(w) = [mem |-> mem, dest |-> dest,
                        to |-> WithoutSecondBit(mem[o]), copies |-> copies]
      BY <1>5, <2>2, <2>5 DEF Forward
    <3>2. ~InBounds(WithoutSecondBit(mem[o]))
      BY <2>3, <2>4, Headers
    <3>3. Kept(w, copies)
      <4>1. ASSUME Ordinary PROVE o \in CopiedIn(copies)
        BY <2>4, <2>5, <4>1 DEF Ordinary
      <4>2. \A p \in Objects : w = Ptr(p) => p = o
        BY <2>1 DEF Ptr
      <4> QED BY <4>1, <4>2 DEF Kept
    <3> QED BY <1>3, <1>5, <3>1, <3>2, <3>3
  <2>6. CASE ~SecondBit(mem[o])
    <3>1. o \notin CopiedIn(copies) /\ mem[o] = HeaderOf[o]
      BY <2>3, <2>4, <2>6, Headers
    <3>2. TotalSize(mem[o]) = Size(o) + 8
      BY <3>1 DEF TotalSize, Size
    <3>3. Size(o) \in Nat
      BY LayoutFacts
    <3>4. Forward(w) = [mem |-> WithCopy(o), dest |-> EndAfter(o),
                        to |-> Ptr(dest + 8), copies |-> MadeAfter(o)]
      <4>1. Forward(w) = [mem |-> MarkCopied(CopyBytes(mem, o - 8, dest, Size(o) + 8), o),
                          dest |-> dest + (Size(o) + 8),
                          to |-> Ptr(dest + 8),
                          copies |-> Append(copies, [of |-> o, at |-> dest + 8])]
        BY <1>5, <2>2, <2>6, <3>2 DEF Forward
      <4>2. dest + (Size(o) + 8) = EndAfter(o)
        BY <1>2, <3>3 DEF EndAfter
      <4> QED BY <4>1, <4>2 DEF WithCopy, MadeAfter
    <3>5. Space(WithCopy(o), EndAfter(o), MadeAfter(o))
      BY <1>1, <3>1, PlacesAfter, FromSpaceAfter, ToSpaceAfter DEF Space
    <3>6. ~InBounds(Ptr(dest + 8))
      BY <1>1, LayoutFacts DEF InBounds, Ptr, Places, ToStart, High, Low
    <3>7. /\ Len(MadeAfter(o)) = Len(copies) + 1
          /\ \A k \in 1 .. Len(copies) : MadeAfter(o)[k] = copies[k]
          /\ MadeAfter(o)[Len(copies) + 1].of = o
          /\ MadeAfter(o)[Len(copies) + 1].at = dest + 8
          /\ CopiedIn(MadeAfter(o)) = CopiedIn(copies) \cup {o}
      BY <1>1, MadeAfterFacts
    <3>8. Kept(w, MadeAfter(o))
      BY <2>1, <3>7 DEF Kept, Ptr
    <3>9. Extended(WithCopy(o), EndAfter(o), MadeAfter(o), w)
      <4>1. /\ \A a \in Contents : WithCopy(o)[a] = mem[a]
            /\ \A a \in ToStart .. dest - 1 : WithCopy(o)[a] = mem[a]
            /\ \A i \in 1 .. Fields(o) : Whole(o, i) =>
                 WithCopy(o)[(dest + 8) + 8 * i] = WithCopy(o)[o + 8 * i]
        <5>1. PICK c, m : c = dest + 8 /\ m = WithCopy(o)
          OBVIOUS
        <5>2. \A i \in 1 .. Fields(o) : Whole(o, i) => m[c + 8 * i] = m[o + 8 * i]
          BY <1>1, <3>1, <5>1, CopyHolds
        <5> QED BY <1>1, <3>1, <5>1, <5>2, FromSpaceAfter, ToSpaceAfter
      <4>2. \A k \in Len(copies) + 1 .. Len(MadeAfter(o)) : k = Len(copies) + 1
        BY <1>2, <3>7
      <4>3. EndAfter(o) >= dest /\ dest + 8 > dest
        BY <1>2, <3>3 DEF EndAfter
      <4>4. PICK n, d, cs : n = WithCopy(o) /\ d = EndAfter(o) /\ cs = MadeAfter(o)
        OBVIOUS
      <4>5. /\ Len(copies) \in Nat /\ Len(cs) \in Nat /\ Len(cs) >= Len(copies)
            /\ d >= dest
        BY <1>2, <3>7, <4>3, <4>4
      <4>6. /\ \A k \in 1 .. Len(copies) : cs[k] = copies[k]
            /\ \A a \in Contents : n[a] = mem[a]
            /\ \A a \in ToStart .. dest - 1 : n[a] = mem[a]
        BY <3>7, <4>1, <4>4
      <4>7. ASSUME NEW k \in Len(copies) + 1 .. Len(cs)
            PROVE  /\ cs[k].of \in Objects /\ w = Ptr(cs[k].of)
                   /\ cs[k].at > dest
                   /\ \A i \in 1 .. Fields(cs[k].of) : Whole(cs[k].of, i) =>
                        n[cs[k].at + 8 * i] = n[cs[k].of + 8 * i]
        <5>1. cs[k].of = o /\ cs[k].at = dest + 8
          BY <3>7, <4>2, <4>4
        <5>2. \A i \in 1 .. Fields(o) : Whole(o, i) =>
                n[(dest + 8) + 8 * i] = n[o + 8 * i]
          BY <4>1, <4>4
        <5> QED BY <2>1, <4>3, <5>1, <5>2
      <4>8. Extended(n, d, cs, w)
        BY <4>5, <4>6, <4>7 DEF Extended
      <4> QED BY <4>4, <4>8
    <3> QED BY <1>5, <3>4, <3>5, <3>6, <3>8, <3>9
  <2> QED BY <2>5, <2>6
<1> QED BY <1>4, <1>5

----------------------------------------------------------------------------
(* The heap collected stays the same: what the invariant says after a step  *)
(* is what it says now of the new values.                                   *)

(* The space, while the same heap is collected.                             *)
LEMMA SpacePrimed ==
  ASSUME heap' = heap, Space(mem', dest', copies')
  PROVE  Space(mem, dest, copies)'
<1>1. FromSpace(mem, copies)'
  <2>1. FromSpace(mem', copies')
    BY Zenon DEF Space
  <2> QED BY <2>1 DEF FromSpace, Addresses, Objects, HeaderOf, Contents, PointerFields,
                      References, CopiedIn, Low, High, ToStart, FromUsed
<1>2. Places(dest, copies)'
  <2>1. Places(dest', copies')
    BY Zenon DEF Space
  <2>2. AsManyBytes(dest, copies)'
    <3>1. AsManyBytes(dest', copies')
      BY <2>1 DEF Places
    <3>2. ToStart' = ToStart /\ \A o : CopiedBytes(o)' = CopiedBytes(o)
      BY DEF CopiedBytes, Size, HeaderOf, Low, High, ToStart, FromUsed
    <3> QED BY <3>1, <3>2, Zenon DEF AsManyBytes, CopiedIn
  <2> QED BY <2>1, <2>2 DEF Places, Objects, HeaderOf, Size, Low, High, ToStart, FromUsed
<1>3. ToSpace(mem, dest, copies)'
  <2>1. ToSpace(mem', dest', copies')
    BY Zenon DEF Space
  <2> QED BY <2>1 DEF ToSpace, HeaderOf, Size, Fields, Low, High, ToStart, FromUsed
<1> QED BY <1>1, <1>2, <1>3 DEF Space

(* The fields of the copies, while the same heap is collected.              *)
LEMMA FieldsPrimed ==
  ASSUME heap' = heap, FieldsFollow(mem', copies', scan', idx')
  PROVE  FieldsFollow(mem, copies, scan, idx)'
BY DEF FieldsFollow, Followed, Passed, Kept, Ordinary, Whole, Objects, HeaderOf, Size, Fields,
       CopiedIn, InBounds, Low, High, FromUsed

(* The roots, while the same heap is collected.                             *)
LEMMA SlotsPrimed ==
  ASSUME heap' = heap
  PROVE  /\ SlotsFollow(origin'.statics, statics', WaitingStatics', copies') =>
              SlotsFollow(origin.statics, statics, WaitingStatics, copies)'
         /\ SlotsFollow(origin'.stacks, stacks', WaitingStacks', copies') =>
              SlotsFollow(origin.stacks, stacks, WaitingStacks, copies)'
         /\ SlotsFollow(origin'.handles, handles', pending', copies') =>
              SlotsFollow(origin.handles, handles, pending, copies)'
BY DEF SlotsFollow, Followed, Kept, Ordinary, Objects, HeaderOf, CopiedIn, References,
       InBounds, Low, High, FromUsed

----------------------------------------------------------------------------
(* What a step does to the references.                                      *)

(* Where the copies are.                                                    *)
LEMMA PlaceFacts ==
  ASSUME heap \in Layouts, NEW d, NEW cs, Places(d, cs)
  PROVE  /\ Len(cs) \in Nat /\ d \in Nat /\ ToStart \in Nat /\ ToStart >= 0
         /\ FromUsed \in Nat /\ ToStart = FromUsed
         /\ d >= ToStart /\ d <= ToStart + FromUsed
         /\ \A k \in 1 .. Len(cs) :
              /\ cs[k].of \in Objects /\ cs[k].at \in Nat
              /\ Size(cs[k].of) \in Nat /\ Fields(cs[k].of) \in Nat
              /\ 8 * Fields(cs[k].of) <= Size(cs[k].of)
              /\ cs[k].at >= ToStart + 8 /\ cs[k].at + Size(cs[k].of) <= d
<1>1. FromUsed \in Nat /\ ToStart = FromUsed
  BY LayoutFacts DEF ToStart, High, Low
<1>2. cs \in Seq([of : Objects, at : Nat]) /\ d \in ToStart .. ToStart + FromUsed
  BY DEF Places
<1>3. ASSUME NEW k \in 1 .. Len(cs)
      PROVE  /\ cs[k].of \in Objects /\ cs[k].at \in Nat
             /\ Size(cs[k].of) \in Nat /\ Fields(cs[k].of) \in Nat
              /\ 8 * Fields(cs[k].of) <= Size(cs[k].of)
             /\ cs[k].at >= ToStart + 8 /\ cs[k].at + Size(cs[k].of) <= d
  <2>1. cs[k] \in [of : Objects, at : Nat]
    BY <1>2, ElementOfSeq
  <2>2. cs[k].of \in Objects /\ cs[k].at \in Nat
    BY <2>1
  <2>3. cs[k].at >= ToStart + 8 /\ cs[k].at + Size(cs[k].of) <= d
    BY <1>3, Zenon DEF Places
  <2> QED BY <2>2, <2>3, LayoutFacts
<1>4. Len(cs) \in Nat
  BY <1>2, LenProperties
<1>5. d \in Nat /\ ToStart \in Nat /\ ToStart >= 0 /\ d >= ToStart /\ d <= ToStart + FromUsed
  BY <1>1, <1>2
<1> QED BY <1>1, <1>3, <1>4, <1>5, Zenon

(* What was copied stays copied, so slots that followed still do.           *)
LEMMA SlotsLater ==
  ASSUME NEW m, NEW d, NEW cs, NEW w, Extended(m, d, cs, w)
  PROVE  /\ CopiedIn(copies) \subseteq CopiedIn(cs)
         /\ \A v : Kept(v, copies) => Kept(v, cs)
         /\ \A old, new, waiting :
              SlotsFollow(old, new, waiting, copies) => SlotsFollow(old, new, waiting, cs)
<1>1. CopiedIn(copies) \subseteq CopiedIn(cs)
  BY DEF Extended, CopiedIn
<1>2. \A v : Kept(v, copies) => Kept(v, cs)
  BY <1>1 DEF Kept
<1> QED BY <1>1, <1>2 DEF SlotsFollow, Followed

(* Forwarding the reference in a waiting slot.                              *)
LEMMA SlotForwarded ==
  ASSUME heap \in Layouts, Space(mem, dest, copies),
         NEW old, NEW new, NEW waiting, NEW i \in DOMAIN old, i \in waiting,
         SlotsFollow(old, new, waiting, copies)
  PROVE  /\ new[i] \in References /\ new[i] = old[i]
         /\ SlotsFollow(old, [new EXCEPT ![i] = Forward(new[i]).to], waiting \ {i},
                        Forward(new[i]).copies)
<1>1. new[i] \in References /\ new[i] = old[i] /\ DOMAIN new = DOMAIN old
  BY DEF SlotsFollow, Followed
<1> DEFINE cs == Forward(new[i]).copies
           to == Forward(new[i]).to
<1>2. /\ ~InBounds(to) /\ Kept(new[i], cs)
      /\ Extended(Forward(new[i]).mem, Forward(new[i]).dest, cs, new[i])
  BY <1>1, ForwardEffect
<1> HIDE DEF cs, to
<1>3. SlotsFollow(old, new, waiting, cs)
  BY <1>2, SlotsLater
<1>4. SlotsFollow(old, [new EXCEPT ![i] = to], waiting \ {i}, cs)
  BY <1>1, <1>2, <1>3 DEF SlotsFollow, Followed
<1> QED BY <1>1, <1>4 DEF cs, to

(* While the roots are forwarded no field of a copy was scanned.            *)
LEMMA FieldsUnscanned ==
  ASSUME heap \in Layouts, Space(mem, dest, copies),
         NEW f, FieldsFollow(mem, copies, 0, f),
         NEW m, NEW d, NEW cs, NEW w, Extended(m, d, cs, w), Space(m, d, cs), NEW g
  PROVE  FieldsFollow(m, cs, 0, g)
<1>1. Places(dest, copies) /\ Places(d, cs)
  BY DEF Space
<1>2. \A k \in 1 .. Len(cs) : cs[k].at > 0
  <2>1. ToStart \in Nat /\ \A k \in 1 .. Len(cs) : cs[k].at \in Nat /\ cs[k].at >= ToStart + 8
    BY <1>1, PlaceFacts
  <2> QED BY <2>1
<1>3. /\ dest \in Nat /\ ToStart \in Nat
      /\ \A k \in 1 .. Len(copies) :
           /\ copies[k].of \in Objects /\ copies[k].at \in Nat
           /\ Size(copies[k].of) \in Nat
           /\ copies[k].at >= ToStart + 8 /\ copies[k].at + Size(copies[k].of) <= dest
  BY <1>1, PlaceFacts
<1> SUFFICES ASSUME NEW k \in 1 .. Len(cs), NEW i \in 1 .. Fields(cs[k].of),
                    Whole(cs[k].of, i)
             PROVE  m[cs[k].at + 8 * i] = m[cs[k].of + 8 * i]
  <2>1. \A k \in 1 .. Len(cs), i \in Int : ~Passed(0, g, cs[k], i)
    <3>1. \A k \in 1 .. Len(cs) : cs[k].at \in Nat
      BY <1>1, PlaceFacts
    <3>2. \A k \in 1 .. Len(cs) : ~(cs[k].at < 0) /\ cs[k].at # 0
      BY <1>2, <3>1
    <3> QED BY <3>2 DEF Passed
  <2> QED BY <2>1 DEF FieldsFollow, Followed
<1>5. CASE k \in Len(copies) + 1 .. Len(cs)
  BY <1>5 DEF Extended
<1>6. CASE k \in 1 .. Len(copies)
  <2>1. cs[k] = copies[k]
    BY <1>6 DEF Extended
  <2>2. PICK p, c, z : p = copies[k].of /\ c = copies[k].at /\ z = Size(p)
    OBVIOUS
  <2>3. p \in Objects /\ c \in Nat /\ c >= ToStart + 8 /\ c + z <= dest /\ z \in Nat
    BY <1>3, <1>6, <2>2
  <2>4. mem[c + 8 * i] = mem[p + 8 * i]
    <3>1. ~Passed(0, f, copies[k], i)
      BY <1>3, <2>2, <2>3 DEF Passed
    <3> QED BY <1>6, <2>1, <2>2, <3>1 DEF FieldsFollow, Followed
  <2>5. i \in 1 .. Fields(p) /\ 8 * i + 8 <= z
    BY <2>1, <2>2 DEF Whole
  <2>6. p + 8 * i \in Contents /\ i \in Nat /\ i >= 1
    BY <2>3, <2>5, OwnReferences
  <2>7. c + 8 * i \in ToStart .. dest - 1
    BY <1>3, <2>3, <2>5, <2>6
  <2>8. m[c + 8 * i] = mem[c + 8 * i] /\ m[p + 8 * i] = mem[p + 8 * i]
    BY <2>6, <2>7 DEF Extended
  <2> QED BY <2>1, <2>2, <2>4, <2>8
<1> QED BY <1>5, <1>6 DEF Extended

(* Only objects that every closed set of objects contains are copied, if    *)
(* what is copied next is one of them.                                      *)
LEMMA ReachedLater ==
  ASSUME heap \in Layouts, heap' = heap, origin' = origin, OnlyReached,
         NEW m, NEW d, NEW w, Extended(m, d, copies', w),
         \A a \in Contents : mem'[a] = mem[a],
         \A S \in SUBSET Objects :
           RootTargets \subseteq S /\ Targets(S) \subseteq S
             /\ CopiedIn(copies) \subseteq S
             => \A o \in Objects : w = Ptr(o) => o \in S
  PROVE  OnlyReached'
<1>1. Objects' = Objects
  BY DEF Objects
<1>2. RootTargets' = RootTargets
  BY <1>1 DEF RootTargets
<1>3. ASSUME NEW S \in SUBSET Objects
      PROVE  Targets(S)' = Targets(S)
  <2>1. HeaderOf' = HeaderOf
    BY DEF HeaderOf
  <2>2. \A s \in S : \A i \in 1 .. PointerCount(HeaderOf[s]) :
          mem'[s + 8 * i] = mem[s + 8 * i]
    <3> TAKE s \in S
    <3> TAKE i \in 1 .. PointerCount(HeaderOf[s])
    <3>1. i \in 1 .. Fields(s)
      BY DEF Fields
    <3> QED BY <3>1, OwnReferences
  <2> QED BY <1>1, <2>1, <2>2 DEF Targets
<1>4. ASSUME NEW S \in SUBSET Objects, RootTargets \subseteq S, Targets(S) \subseteq S
      PROVE  CopiedIn(copies') \subseteq S
  <2>1. CopiedIn(copies) \subseteq S
    BY <1>4 DEF OnlyReached
  <2>2. \A o \in Objects : w = Ptr(o) => o \in S
    BY <1>4, <2>1
  <2>3. \A k \in 1 .. Len(copies) : copies'[k].of \in S
    BY <2>1 DEF Extended, CopiedIn
  <2>4. \A k \in Len(copies) + 1 .. Len(copies') : copies'[k].of \in S
    BY <2>2 DEF Extended
  <2>5. \A k \in 1 .. Len(copies') :
          k \in 1 .. Len(copies) \/ k \in Len(copies) + 1 .. Len(copies')
    BY DEF Extended
  <2> QED BY <2>3, <2>4, <2>5 DEF CopiedIn
<1>5. CopiedIn(copies)' = CopiedIn(copies')
  BY DEF CopiedIn
<1> QED BY <1>1, <1>2, <1>3, <1>4, <1>5 DEF OnlyReached

----------------------------------------------------------------------------
(* The scan.                                                                *)

(* Copies that begin at the same place are the same, and a later one begins *)
(* after the end of an earlier one.                                         *)
LEMMA PlacesOrdered ==
  ASSUME heap \in Layouts, NEW d, NEW cs, Places(d, cs),
         NEW j \in 1 .. Len(cs), NEW k \in 1 .. Len(cs)
  PROVE  \/ j = k
         \/ cs[j].at + Size(cs[j].of) + 8 <= cs[k].at
         \/ cs[k].at + Size(cs[k].of) + 8 <= cs[j].at
<1>1. j < k => cs[j].at + Size(cs[j].of) + 8 <= cs[k].at
  BY DEF Places
<1>2. k < j => cs[k].at + Size(cs[k].of) + 8 <= cs[j].at
  BY DEF Places
<1>3. j \in Nat /\ k \in Nat
  BY PlaceFacts
<1> QED BY <1>1, <1>2, <1>3

(* No two copies are at the same place.                                     *)
LEMMA SamePlace ==
  ASSUME heap \in Layouts, NEW d, NEW cs, Places(d, cs),
         NEW j \in 1 .. Len(cs), NEW k \in 1 .. Len(cs), cs[j].at = cs[k].at
  PROVE  j = k
<1>1. \/ j = k
      \/ cs[j].at + Size(cs[j].of) + 8 <= cs[k].at
      \/ cs[k].at + Size(cs[k].of) + 8 <= cs[j].at
  BY PlacesOrdered
<1>2. cs[j].at \in Nat /\ Size(cs[j].of) \in Nat /\ Size(cs[k].of) \in Nat
  BY PlaceFacts
<1> QED BY <1>1, <1>2

(* The end of a copy is 8 bytes short of the next one, or the end of all.   *)
LEMMA NextCopy ==
  ASSUME heap \in Layouts, Places(dest, copies), NEW k \in 1 .. Len(copies)
  PROVE  \/ copies[k].at + Size(copies[k].of) = dest
         \/ \E j \in 1 .. Len(copies) :
              copies[k].at + Size(copies[k].of) + 8 = copies[j].at
<1>1. /\ Len(copies) \in Nat /\ copies[k].at \in Nat /\ Size(copies[k].of) \in Nat
      /\ k \in Nat
  BY PlaceFacts
<1>2. CASE k = Len(copies)
  <2>1. dest = copies[k].at + Size(copies[k].of)
    BY <1>1, <1>2 DEF Places
  <2> QED BY <2>1
<1>3. CASE k # Len(copies)
  <2>1. k + 1 \in 1 .. Len(copies) /\ (k + 1) - 1 = k /\ k + 1 # 1
    BY <1>1, <1>3
  <2>2. copies[k + 1].at = copies[k].at + Size(copies[k].of) + 8
    <3>1. copies[k + 1].at = IF k + 1 = 1 THEN ToStart + 8
            ELSE copies[(k + 1) - 1].at + Size(copies[(k + 1) - 1].of) + 8
      BY <2>1 DEF Places
    <3> QED BY <2>1, <3>1
  <2> QED BY <2>1, <2>2
<1> QED BY <1>2, <1>3

(* What begins within the last 7 bytes of a copy, or right behind it, where *)
(* the next spare word is or nothing yet, is no word.                       *)
LEMMA EndPlain ==
  ASSUME heap \in Layouts, Space(mem, dest, copies), NEW k \in 1 .. Len(copies),
         NEW x \in 0 .. Size(copies[k].of), x + 8 > Size(copies[k].of)
  PROVE  Plain(mem[copies[k].at + x])
<1>1. Places(dest, copies) /\ ToSpace(mem, dest, copies)
  BY DEF Space
<1>2. PICK p, c, z : p = copies[k].of /\ c = copies[k].at /\ z = Size(p)
  OBVIOUS
<1>3. c \in Nat /\ z \in Nat /\ dest \in Nat /\ ToStart \in Nat /\ FromUsed \in Nat
      /\ dest <= ToStart + FromUsed /\ x \in 0 .. z
  BY <1>1, <1>2, PlaceFacts
<1>4. CASE x < z
  <2>1. x \in 0 .. z - 1
    BY <1>3, <1>4
  <2> QED BY <1>1, <1>2, <2>1 DEF ToSpace
<1>5. CASE x = z
  <2>1. \/ c + z = dest
        \/ \E j \in 1 .. Len(copies) : c + z + 8 = copies[j].at
    BY <1>1, <1>2, NextCopy
  <2>2. CASE c + z = dest
    <3>1. c + x \in dest .. ToStart + FromUsed
      BY <1>3, <1>5, <2>2
    <3> QED BY <1>1, <1>2, <3>1 DEF ToSpace
  <2>3. ASSUME NEW j \in 1 .. Len(copies), c + z + 8 = copies[j].at
        PROVE  Plain(mem[c + x])
    <3>1. 8 \in 1 .. 8 /\ copies[j].at - 8 = c + x
      BY <1>3, <1>5, <2>3
    <3>2. Plain(mem[copies[j].at - 8])
      BY <1>1, <3>1 DEF ToSpace
    <3> QED BY <3>1, <3>2
  <2> QED BY <1>2, <2>1, <2>2, <2>3
<1> QED BY <1>3, <1>4, <1>5

(* Short of the end the scan is at a copy, and reads a header there, the    *)
(* one its object had, exactly when the object has 8 bytes of fields.       *)
LEMMA ScanReadsHeader ==
  ASSUME IInv, pc = "cleanup", scan < dest
  PROVE  \E k \in 1 .. Len(copies) :
           /\ scan = copies[k].at
           /\ IsHeader(mem[scan]) => mem[scan] = HeaderOf[copies[k].of]
           /\ ~IsHeader(mem[scan]) => Size(copies[k].of) < 8
<1>1. heap \in Layouts /\ Space(mem, dest, copies)
      /\ Places(dest, copies) /\ ToSpace(mem, dest, copies)
  BY DEF IInv, Control, Space
<1>2. scan \in {copies[k].at : k \in 1 .. Len(copies)} \cup {dest + 8} /\ dest \in Nat
  BY <1>1, PlaceFacts DEF IInv, Control
<1>3. PICK k \in 1 .. Len(copies) : scan = copies[k].at
  BY <1>2
<1>4. PICK p, c, z : p = copies[k].of /\ c = copies[k].at /\ z = Size(p)
  OBVIOUS
<1>5. p \in Objects /\ c \in Nat /\ z \in Nat
  BY <1>1, <1>4, PlaceFacts
<1>6. CASE z >= 8
  <2>1. mem[c] = HeaderOf[p]
    BY <1>1, <1>4, <1>6 DEF ToSpace
  <2>2. IsHeader(HeaderOf[p])
    BY <1>1, <1>5, LayoutFacts, Headers
  <2> QED BY <1>3, <1>4, <2>1, <2>2
<1>7. CASE z < 8
  <2>1. 0 \in 0 .. z /\ 0 + 8 > z /\ c + 0 = c
    BY <1>5, <1>7
  <2>2. Plain(mem[c])
    BY <1>1, <1>4, <2>1, EndPlain
  <2>3. ~IsHeader(mem[c])
    BY <2>2, Spans
  <2> QED BY <1>3, <1>4, <1>7, <2>3
<1> QED BY <1>5, <1>6, <1>7

(* The memory n is m but for what is at a, which is v.                      *)
Written(n, m, a, v) == n = [m EXCEPT ![a] = v]

(* The word at a is reference i of the copy c.                              *)
FieldOf(c, i, a) == a = c.at + 8 * i

(* The word at a is reference i of copy k, and no other reference of one.   *)
FieldAt(a, d, cs, k, i) ==
  /\ a \in ToStart .. d - 1
  /\ \A j \in 1 .. Len(cs) : \A g \in 1 .. Fields(cs[j].of) :
       Whole(cs[j].of, g) /\ cs[j].at + 8 * g = a => j = k /\ g = i

(* Writing a reference of a copy leaves headers, spare words, data and the  *)
(* ends of the copies, the from-space and what lies behind the copies alone.*)
LEMMA FieldWritten ==
  ASSUME heap \in Layouts, NEW m, NEW d, NEW cs, Space(m, d, cs),
         NEW k \in 1 .. Len(cs), NEW i \in 1 .. Fields(cs[k].of),
         Whole(cs[k].of, i), NEW a, FieldOf(cs[k], i, a),
         NEW v, NEW n, Written(n, m, a, v)
  PROVE  Space(n, d, cs) /\ FieldAt(a, d, cs, k, i)
<1>1. FromSpace(m, cs) /\ Places(d, cs) /\ ToSpace(m, d, cs)
  BY DEF Space
<1>2. /\ d \in Nat /\ ToStart \in Nat /\ FromUsed \in Nat
      /\ ToStart = FromUsed /\ d >= ToStart /\ d <= ToStart + FromUsed
  BY <1>1, PlaceFacts
<1>3. \A j \in 1 .. Len(cs) :
        /\ cs[j].of \in Objects /\ cs[j].at \in Nat
        /\ Size(cs[j].of) \in Nat /\ Fields(cs[j].of) \in Nat
        /\ 8 * Fields(cs[j].of) <= Size(cs[j].of)
        /\ cs[j].at >= ToStart + 8 /\ cs[j].at + Size(cs[j].of) <= d
  BY <1>1, PlaceFacts
<1>4. PICK c, z, f : c = cs[k].at /\ z = Size(cs[k].of) /\ f = Fields(cs[k].of)
  OBVIOUS
<1>5. c \in Nat /\ z \in Nat /\ f \in Nat /\ c >= ToStart + 8 /\ c + z <= d
  BY <1>3, <1>4
<1>6. i \in Nat /\ i >= 1 /\ i <= f /\ 8 * i + 8 <= z /\ a = c + 8 * i
  <2>1. a = c + 8 * i
    BY <1>4 DEF FieldOf
  <2>2. i \in 1 .. f /\ 8 * i + 8 <= z
    BY <1>4 DEF Whole
  <2> QED BY <1>5, <2>1, <2>2
<1>7. a \in Nat /\ a >= c + 8 /\ a + 8 <= c + z /\ a < d
  BY <1>2, <1>5, <1>6
<1>8. \A b \in Int : b >= 0 /\ b <= ToStart + FromUsed => b \in Addresses
  BY <1>2 DEF Addresses, Low
<1>9. a \in Addresses
  BY <1>2, <1>7, <1>8
<1>10. DOMAIN n = Addresses /\ n = [b \in Addresses |-> n[b]]
       /\ \A b \in Addresses : n[b] = IF b = a THEN v ELSE m[b]
  BY <1>1, <1>9 DEF FromSpace, Written
<1>11. \A b \in Low .. High - 1 : b \in Addresses /\ b # a
  BY <1>2, <1>5, <1>7 DEF Addresses, Low, High
<1>12. \A b \in Contents : n[b] = m[b]
  BY <1>10, <1>11 DEF Contents
<1>13. FromSpace(n, cs)
  <2>1. \A o \in Objects : n[o] = m[o]
    BY <1>10, <1>11, OwnBytes
  <2> QED BY <1>1, <1>10, <1>12, <2>1 DEF FromSpace
<1>14. ASSUME NEW j \in 1 .. Len(cs), NEW e, e = cs[j].at, NEW y, y = Size(cs[j].of)
       PROVE  /\ e \in Nat /\ y \in Nat /\ e >= ToStart + 8 /\ e + y <= d
              /\ (j = k /\ e = c /\ y = z) \/ e + y + 8 <= c \/ c + z + 8 <= e
  <2>1. \/ j = k
        \/ cs[j].at + Size(cs[j].of) + 8 <= cs[k].at
        \/ cs[k].at + Size(cs[k].of) + 8 <= cs[j].at
    BY <1>1, PlacesOrdered
  <2> QED BY <1>3, <1>4, <1>14, <2>1
<1>15. ASSUME NEW j \in 1 .. Len(cs)
       PROVE  /\ \A x \in 1 .. 8 : Plain(n[cs[j].at - x])
              /\ Size(cs[j].of) >= 8 => n[cs[j].at] = HeaderOf[cs[j].of]
              /\ \A x \in 0 .. Size(cs[j].of) - 1 :
                   x + 8 > Size(cs[j].of) => Plain(n[cs[j].at + x])
              /\ \A x \in 8 * Fields(cs[j].of) + 8 .. Size(cs[j].of) - 1 :
                   n[cs[j].at + x] = n[cs[j].of + x]
  <2>1. PICK p, e, y, g : p = cs[j].of /\ e = cs[j].at /\ y = Size(p) /\ g = Fields(p)
    OBVIOUS
  <2>2. /\ e \in Nat /\ y \in Nat /\ e >= ToStart + 8 /\ e + y <= d
        /\ (j = k /\ e = c /\ y = z) \/ e + y + 8 <= c \/ c + z + 8 <= e
    BY <1>14, <2>1
  <2>3. p \in Objects /\ g \in Nat
    BY <1>3, <2>1
  <2>4. /\ \A x \in 1 .. 8 : Plain(m[e - x])
        /\ y >= 8 => m[e] = HeaderOf[p]
        /\ \A x \in 0 .. y - 1 : x + 8 > y => Plain(m[e + x])
        /\ \A x \in 8 * g + 8 .. y - 1 : m[e + x] = m[p + x]
    BY <1>1, <2>1 DEF ToSpace
  <2>5. ASSUME NEW b \in Int, b >= e - 8, b <= e + y, b # a
        PROVE  n[b] = m[b]
    <3>1. b \in Addresses
      BY <1>2, <1>8, <2>2, <2>5
    <3> QED BY <1>10, <2>5, <3>1
  <2>6. \A x \in 1 .. 8 : Plain(n[e - x])
    <3> TAKE x \in 1 .. 8
    <3>1. e - x \in Int /\ e - x >= e - 8 /\ e - x <= e + y
      BY <2>2
    <3>2. e - x # a
      <4>1. (e = c /\ y = z) \/ e + y + 8 <= c \/ c + z + 8 <= e
        BY <2>2
      <4> QED BY <1>5, <1>7, <2>2, <4>1
    <3> QED BY <2>4, <2>5, <3>1, <3>2
  <2>7. y >= 8 => n[e] = HeaderOf[p]
    <3>1. e \in Int /\ e >= e - 8 /\ e <= e + y
      BY <2>2
    <3>2. e # a
      <4>1. (e = c /\ y = z) \/ e + y + 8 <= c \/ c + z + 8 <= e
        BY <2>2
      <4> QED BY <1>5, <1>7, <2>2, <4>1
    <3> QED BY <2>4, <2>5, <3>1, <3>2
  <2>8. ASSUME NEW x \in 0 .. y - 1, x + 8 > y
        PROVE  Plain(n[e + x])
    <3>1. e + x \in Int /\ e + x >= e - 8 /\ e + x <= e + y
      BY <2>2
    <3>2. e + x # a
      <4>1. (e = c /\ y = z) \/ e + y + 8 <= c \/ c + z + 8 <= e
        BY <2>2
      <4> QED BY <1>5, <1>7, <2>2, <2>8, <4>1
    <3> QED BY <2>4, <2>5, <2>8, <3>1, <3>2
  <2>9. ASSUME NEW x \in 8 * g + 8 .. y - 1
        PROVE  n[e + x] = n[p + x]
    <3>1. x \in Int /\ x >= 8 * g + 8 /\ x <= y - 1
          /\ e + x \in Int /\ e + x >= e - 8 /\ e + x <= e + y
          /\ x \in 1 .. y + 7
      BY <2>2, <2>3
    <3>2. e + x # a
      <4>1. CASE j = k
        <5>1. e = c /\ g = f
          BY <1>4, <2>1, <4>1
        <5> QED BY <1>5, <1>6, <3>1, <5>1
      <4>2. CASE e + y + 8 <= c \/ c + z + 8 <= e
        BY <1>5, <1>7, <2>2, <3>1, <4>2
      <4> QED BY <2>2, <4>1, <4>2
    <3>3. n[e + x] = m[e + x]
      BY <2>5, <3>1, <3>2
    <3>4. p + x \in Contents
      BY <2>1, <2>3, <3>1, OwnBytes
    <3> QED BY <1>12, <2>4, <3>3, <3>4
  <2> QED BY <2>1, <2>6, <2>7, <2>8, <2>9
<1>16. \A b \in d .. ToStart + FromUsed : Plain(n[b])
  <2> TAKE b \in d .. ToStart + FromUsed
  <2>1. b \in Int /\ b >= d /\ b <= ToStart + FromUsed
    BY <1>2
  <2>2. b \in Addresses /\ b # a
    BY <1>2, <1>7, <1>8, <2>1
  <2> QED BY <1>1, <1>10, <2>2 DEF ToSpace
<1>17. ToSpace(n, d, cs)
  BY <1>15, <1>16 DEF ToSpace
<1>18. ASSUME NEW j \in 1 .. Len(cs), NEW g \in 1 .. Fields(cs[j].of),
              Whole(cs[j].of, g), cs[j].at + 8 * g = a
       PROVE  j = k /\ g = i
  <2>1. PICK e, y : e = cs[j].at /\ y = Size(cs[j].of)
    OBVIOUS
  <2>2. /\ e \in Nat /\ y \in Nat /\ e + y <= d
        /\ (j = k /\ e = c /\ y = z) \/ e + y + 8 <= c \/ c + z + 8 <= e
    BY <1>14, <2>1
  <2>3. g \in Nat /\ g >= 1 /\ 8 * g + 8 <= y /\ e + 8 * g = a
    <3>1. Fields(cs[j].of) \in Nat
      BY <1>3
    <3> QED BY <1>18, <2>1, <3>1 DEF Whole
  <2>4. j = k /\ e = c
    BY <1>5, <1>7, <2>2, <2>3
  <2>5. g = i
    BY <1>5, <1>6, <2>3, <2>4
  <2> QED BY <2>4, <2>5
<1>19. FieldAt(a, d, cs, k, i)
  <2>1. a \in ToStart .. d - 1
    BY <1>2, <1>5, <1>7
  <2> QED BY <1>18, <2>1 DEF FieldAt
<1>20. Space(n, d, cs)
  BY <1>1, <1>13, <1>17 DEF Space
<1> QED BY <1>19, <1>20

(* The scan is at reference i of the copy k, which holds w.                 *)
ScanAt(k, i, w, field) ==
  /\ scan = copies[k].at /\ i = idx + 1
  /\ w = mem[copies[k].of + 8 * i] /\ field = copies[k].at + 8 * i

(* Forwarding a reference, once the memory is n and the new value v.        *)
LEMMA FieldStored ==
  ASSUME heap \in Layouts, Space(mem, dest, copies), scan \in Nat, idx \in Nat,
         FieldsFollow(mem, copies, scan, idx),
         NEW k \in 1 .. Len(copies), NEW i \in 1 .. Fields(copies[k].of),
         Whole(copies[k].of, i), NEW w, NEW field, ScanAt(k, i, w, field),
         NEW n, NEW d, NEW cs, Space(n, d, cs), Extended(n, d, cs, w),
         NEW v, ~InBounds(v), Kept(w, cs), NEW m, Written(m, n, field, v)
  PROVE  /\ Space(m, d, cs)
         /\ \A a \in Contents : m[a] = mem[a]
         /\ FieldsFollow(m, cs, scan, i)
<1>1. Places(dest, copies) /\ Places(d, cs) /\ FromSpace(n, cs)
  BY DEF Space
<1>2. /\ dest \in Nat /\ ToStart \in Nat /\ FromUsed \in Nat /\ ToStart = FromUsed
      /\ d \in Nat /\ d <= ToStart + FromUsed
  BY <1>1, PlaceFacts
<1>3. \A j \in 1 .. Len(copies) :
        /\ copies[j].of \in Objects /\ copies[j].at \in Nat
        /\ Size(copies[j].of) \in Nat /\ copies[j].at >= ToStart + 8
        /\ copies[j].at + Size(copies[j].of) <= dest
  BY <1>1, PlaceFacts
<1>4. \A j \in 1 .. Len(cs) :
        /\ cs[j].of \in Objects /\ cs[j].at \in Nat /\ Size(cs[j].of) \in Nat
        /\ cs[j].at >= ToStart + 8 /\ cs[j].at + Size(cs[j].of) <= d
  BY <1>1, PlaceFacts
<1>5. /\ Len(copies) \in Nat /\ Len(cs) \in Nat /\ Len(cs) >= Len(copies)
      /\ \A j \in 1 .. Len(copies) : cs[j] = copies[j]
  BY DEF Extended
<1>6. k \in 1 .. Len(cs) /\ cs[k] = copies[k]
  BY <1>5
<1>7. /\ FieldOf(cs[k], i, field) /\ i \in 1 .. Fields(cs[k].of)
      /\ Whole(cs[k].of, i)
  BY <1>6 DEF ScanAt, FieldOf
<1>8. Space(m, d, cs) /\ FieldAt(field, d, cs, k, i)
  BY <1>6, <1>7, FieldWritten
<1>9. \A j \in 1 .. Len(cs) : \A g \in 1 .. Fields(cs[j].of) :
        Whole(cs[j].of, g) /\ cs[j].at + 8 * g = field => j = k /\ g = i
  BY <1>8 DEF FieldAt
<1>10. field \in Nat /\ field >= ToStart
  <2>1. field \in ToStart .. d - 1
    BY <1>8 DEF FieldAt
  <2> QED BY <1>2, <2>1
<1>11. \A a \in Nat : a < d => a \in Addresses
  BY <1>2 DEF Addresses, Low
<1>12. \A a \in Addresses : m[a] = IF a = field THEN v ELSE n[a]
  BY <1>1 DEF FromSpace, Written
<1>13. ASSUME NEW a \in Contents
       PROVE  m[a] = mem[a] /\ n[a] = mem[a]
  <2>1. a \in Addresses /\ a # field
    BY <1>2, <1>10 DEF Contents, Low, High, ToStart, Addresses
  <2>2. n[a] = mem[a]
    BY DEF Extended
  <2> QED BY <1>12, <2>1, <2>2
<1>14. scan \in Nat /\ scan <= dest
  <2>1. scan = copies[k].at
    BY DEF ScanAt
  <2>2. PICK x, z : x = copies[k].at /\ z = Size(copies[k].of)
    OBVIOUS
  <2>3. x \in Nat /\ z \in Nat /\ x + z <= dest
    BY <1>3, <2>2
  <2>4. x <= dest
    BY <1>2, <2>3
  <2> QED BY <2>1, <2>2, <2>4
<1>15. ASSUME NEW j \in 1 .. Len(cs), NEW g \in 1 .. Fields(cs[j].of),
              Whole(cs[j].of, g)
       PROVE  Followed(m[cs[j].of + 8 * g], m[cs[j].at + 8 * g],
                       Passed(scan, i, cs[j], g), cs)
  <2>1. PICK q, b, z : q = cs[j].of /\ b = cs[j].at /\ z = Size(q)
    OBVIOUS
  <2>2. /\ q \in Objects /\ b \in Nat /\ z \in Nat /\ b >= ToStart + 8 /\ b + z <= d
    BY <1>4, <2>1
  <2>3. g \in 1 .. Fields(q) /\ 8 * g + 8 <= z
    BY <1>15, <2>1 DEF Whole
  <2>4. g \in Nat /\ g >= 1 /\ q + 8 * g \in Contents
    BY <2>2, <2>3, OwnReferences
  <2>5. m[q + 8 * g] = mem[q + 8 * g] /\ n[q + 8 * g] = mem[q + 8 * g]
    BY <1>13, <2>4
  <2>6. b + 8 * g \in Nat /\ b + 8 * g > ToStart /\ b + 8 * g < d
    BY <1>2, <2>2, <2>3, <2>4
  <2>7. b + 8 * g \in Addresses
    BY <1>11, <2>6
  <2>8. CASE j = k /\ g = i
    <3>1. b + 8 * g = field /\ q = copies[k].of /\ mem[q + 8 * g] = w /\ b = scan
      BY <1>6, <2>1, <2>8 DEF ScanAt
    <3>2. m[b + 8 * g] = v /\ m[q + 8 * g] = w
      BY <1>12, <2>5, <2>7, <3>1
    <3>3. Passed(scan, i, cs[j], g)
      <4>1. g <= i
        BY <2>4, <2>8
      <4> QED BY <2>1, <3>1, <4>1 DEF Passed
    <3> QED BY <2>1, <3>2, <3>3 DEF Followed
  <2>9. CASE ~(j = k /\ g = i) /\ j \in 1 .. Len(copies)
    <3>1. cs[j] = copies[j]
      BY <1>5, <2>9
    <3>2. b + z <= dest
      BY <1>3, <2>1, <2>9, <3>1
    <3>3. b + 8 * g \in ToStart .. dest - 1
      BY <1>2, <2>2, <2>3, <2>4, <3>2
    <3>4. b + 8 * g # field
      BY <1>9, <1>15, <2>1, <2>9
    <3>5. m[b + 8 * g] = mem[b + 8 * g]
      <4>1. n[b + 8 * g] = mem[b + 8 * g]
        BY <3>3 DEF Extended
      <4> QED BY <1>12, <2>7, <3>4, <4>1
    <3>6. Followed(mem[q + 8 * g], mem[b + 8 * g], Passed(scan, idx, copies[j], g), copies)
      BY <1>15, <2>1, <2>9, <3>1 DEF FieldsFollow
    <3>7. Passed(scan, idx, copies[j], g) <=> Passed(scan, i, cs[j], g)
      <4>1. i = idx + 1
        BY DEF ScanAt
      <4>2. b = scan => j = k
        <5>1. cs[j].at = cs[k].at => j = k
          BY <1>1, <1>6, SamePlace
        <5> QED BY <1>6, <2>1, <5>1 DEF ScanAt
      <4>3. b = scan => g # idx + 1
        BY <2>9, <4>1, <4>2
      <4>4. copies[j].at = b /\ cs[j].at = b
        BY <2>1, <3>1
      <4>5. b = scan => (g <= idx <=> g <= idx + 1)
        BY <2>4, <4>3
      <4> QED BY <4>1, <4>4, <4>5 DEF Passed
    <3>8. \A u : Kept(u, copies) => Kept(u, cs)
      BY SlotsLater
    <3> QED BY <2>1, <2>5, <3>5, <3>6, <3>7, <3>8 DEF Followed
  <2>10. CASE j \in Len(copies) + 1 .. Len(cs)
    <3>1. b > dest /\ n[b + 8 * g] = n[q + 8 * g]
      BY <1>15, <2>1, <2>10 DEF Extended
    <3>2. j # k
      BY <1>5, <2>10
    <3>3. b + 8 * g # field
      BY <1>9, <1>15, <2>1, <3>2
    <3>4. m[b + 8 * g] = n[b + 8 * g]
      BY <1>12, <2>7, <3>3
    <3>5. ~(b < scan) /\ b # scan
      BY <1>2, <1>14, <2>2, <3>1
    <3>6. ~Passed(scan, i, cs[j], g)
      BY <2>1, <3>5 DEF Passed
    <3> QED BY <2>1, <2>5, <3>1, <3>4, <3>6 DEF Followed
  <2>11. j \in 1 .. Len(copies) \/ j \in Len(copies) + 1 .. Len(cs)
    BY <1>5
  <2> QED BY <2>8, <2>9, <2>10, <2>11
<1>16. FieldsFollow(m, cs, scan, i)
  BY <1>15 DEF FieldsFollow
<1> QED BY <1>8, <1>13, <1>16

(* The word the scan reads next is a reference of the copy it is at, all of *)
(* whose bytes were copied, and still as in the object; or it is no word.   *)
LEMMA NextFieldRead ==
  ASSUME heap \in Layouts, Space(mem, dest, copies), idx \in Nat,
         FieldsFollow(mem, copies, scan, idx),
         NEW k \in 1 .. Len(copies), scan = copies[k].at,
         idx < Fields(copies[k].of)
  PROVE  /\ NextField = copies[k].at + 8 * (idx + 1)
         /\ idx + 1 \in 1 .. Fields(copies[k].of)
         /\ IsWord(mem[NextField]) <=> Whole(copies[k].of, idx + 1)
         /\ Whole(copies[k].of, idx + 1) =>
              /\ mem[NextField] = mem[copies[k].of + 8 * (idx + 1)]
              /\ mem[NextField] \in References
<1>1. FromSpace(mem, copies) /\ Places(dest, copies)
  BY DEF Space
<1>2. PICK p, c, z, f, i : /\ p = copies[k].of /\ c = copies[k].at /\ z = Size(p)
                           /\ f = Fields(p) /\ i = idx + 1
  OBVIOUS
<1>3. p \in Objects /\ c \in Nat /\ z \in Nat /\ f \in Nat /\ 8 * f <= z
  BY <1>1, <1>2, PlaceFacts
<1>4. i \in 1 .. f /\ i \in Nat /\ 8 * i <= z
  BY <1>2, <1>3
<1>5. NextField = c + 8 * i
  BY <1>2, <1>3 DEF NextField
<1>6. ASSUME Whole(p, i)
      PROVE  /\ mem[c + 8 * i] = mem[p + 8 * i] /\ mem[p + 8 * i] \in References
             /\ IsWord(mem[c + 8 * i])
  <2>1. ~Passed(scan, idx, copies[k], i)
    <3>1. ~(c < c) /\ ~(i <= idx)
      BY <1>2, <1>3
    <3> QED BY <1>2, <3>1 DEF Passed
  <2>2. Followed(mem[p + 8 * i], mem[c + 8 * i], Passed(scan, idx, copies[k], i), copies)
    BY <1>2, <1>4, <1>6 DEF FieldsFollow
  <2>3. mem[c + 8 * i] = mem[p + 8 * i]
    BY <2>1, <2>2 DEF Followed
  <2>4. p + 8 * i \in Contents /\ p + 8 * i \in PointerFields
    BY <1>2, <1>3, <1>4, OwnReferences
  <2> QED BY <1>1, <2>3, <2>4, ReferencesAreWords DEF FromSpace
<1>7. ASSUME ~Whole(p, i)
      PROVE  ~IsWord(mem[c + 8 * i])
  <2>1. PICK x : x = 8 * i
    OBVIOUS
  <2>2. x \in 0 .. z /\ x + 8 > z
    BY <1>2, <1>3, <1>4, <1>7, <2>1 DEF Whole
  <2>3. Plain(mem[c + x])
    BY <1>2, <2>2, EndPlain
  <2> QED BY <2>1, <2>3 DEF Plain
<1> QED BY <1>2, <1>4, <1>5, <1>6, <1>7

(* Forwarding the next reference of the copy at the scan.                   *)
LEMMA FieldForwarded ==
  ASSUME heap \in Layouts, Space(mem, dest, copies), scan \in Nat, idx \in Nat,
         FieldsFollow(mem, copies, scan, idx),
         NEW k \in 1 .. Len(copies), scan = copies[k].at,
         idx < Fields(copies[k].of), IsWord(mem[NextField]),
         NEW w, w = mem[NextField],
         NEW f, f = Forward(w), NEW m, Written(m, f.mem, NextField, f.to)
  PROVE  /\ Space(m, f.dest, f.copies)
         /\ Extended(f.mem, f.dest, f.copies, w)
         /\ \A a \in Contents : m[a] = mem[a]
         /\ FieldsFollow(m, f.copies, scan, idx + 1)
         /\ idx + 1 \in 1 .. Fields(copies[k].of)
         /\ w = mem[copies[k].of + 8 * (idx + 1)]
<1>1. PICK i, field : i = idx + 1 /\ field = NextField
  OBVIOUS
<1>2. /\ field = copies[k].at + 8 * i /\ i \in 1 .. Fields(copies[k].of)
      /\ Whole(copies[k].of, i) /\ w = mem[copies[k].of + 8 * i] /\ w \in References
  BY <1>1, NextFieldRead
<1>3. /\ Space(f.mem, f.dest, f.copies)
      /\ Extended(f.mem, f.dest, f.copies, w)
      /\ ~InBounds(f.to)
      /\ Kept(w, f.copies)
  BY <1>2, ForwardEffect
<1>4. PICK n, d, cs, v : n = f.mem /\ d = f.dest /\ cs = f.copies /\ v = f.to
  OBVIOUS
<1>5. /\ Space(n, d, cs) /\ Extended(n, d, cs, w) /\ ~InBounds(v) /\ Kept(w, cs)
      /\ Written(m, n, field, v)
  BY <1>1, <1>3, <1>4
<1>6. ScanAt(k, i, w, field)
  BY <1>1, <1>2 DEF ScanAt
<1>7. /\ Space(m, d, cs)
      /\ \A a \in Contents : m[a] = mem[a]
      /\ FieldsFollow(m, cs, scan, i)
  BY <1>2, <1>5, <1>6, FieldStored
<1> QED BY <1>1, <1>2, <1>3, <1>4, <1>7

----------------------------------------------------------------------------
(* The invariant holds where a collection starts...                         *)

(* There are no copies yet, and every root and field waits.                 *)
LEMMA InitHolds == Init => IInv
<1> SUFFICES ASSUME Init PROVE IInv
  OBVIOUS
<1>1. heap \in Layouts /\ copies = <<>> /\ Len(copies) = 0 /\ pc = "classes" /\ idx = 1
      /\ scan = 0 /\ dest = ToStart /\ pending = DOMAIN handles
  BY DEF Init
<1>2. FromUsed \in Nat /\ ToStart = FromUsed /\ ToStart \in Nat
  BY <1>1, LayoutFacts DEF ToStart, High, Low
<1>3. CopiedIn(copies) = {}
  BY <1>1 DEF CopiedIn
<1>4. Control
  BY <1>1 DEF Control
<1>5. PICK contents \in [PointerFields -> References] : mem = Fresh(contents)
  BY DEF Init
<1>6. DOMAIN mem = Addresses /\ mem = [a \in Addresses |-> mem[a]]
  BY <1>5 DEF Fresh
<1>7. \A a \in Addresses :
        /\ a \in Objects => mem[a] = HeaderOf[a]
        /\ a \notin Objects /\ a \in PointerFields => mem[a] = contents[a]
        /\ a \notin Objects /\ a \notin PointerFields => mem[a] \in {Torn, Data(a)}
  BY <1>5 DEF Fresh
<1>8. \A a \in Low .. High - 1 : a \in Addresses
  BY <1>2 DEF Addresses, Low, High
<1>9. \A a : Plain(Data(a)) /\ Plain(Torn)
  BY DEF Plain, IsWord, Span, Data, Torn
<1>10. FromSpace(mem, copies)
  <2>1. \A o \in Objects : mem[o] = HeaderOf[o]
    BY <1>1, <1>7, <1>8, OwnBytes
  <2>2. ASSUME NEW a \in Contents
        PROVE  IF a \in PointerFields THEN mem[a] \in References ELSE Plain(mem[a])
    <3>1. a \in Addresses /\ a \notin Objects
      BY <1>8 DEF Contents
    <3>2. CASE a \in PointerFields
      BY <1>7, <3>1, <3>2
    <3>3. CASE a \notin PointerFields
      BY <1>7, <1>9, <3>1, <3>3
    <3> QED BY <3>2, <3>3
  <2> QED BY <1>3, <1>6, <2>1, <2>2 DEF FromSpace
<1>11. Places(dest, copies)
  <2>1. AsManyBytes(dest, copies)
    <3>1. UNION {CopiedBytes(o) : o \in CopiedIn(copies)} = {}
      BY <1>3
    <3>2. Cardinality(UNION {CopiedBytes(o) : o \in CopiedIn(copies)}) = 0
      <4>1. Cardinality({}) = 0
        BY FS_EmptySet
      <4> QED BY <3>1, <4>1
    <3>3. dest - ToStart = 0
      BY <1>1, <1>2
    <3> QED BY <3>2, <3>3 DEF AsManyBytes
  <2>3. copies \in Seq([of : Objects, at : Nat])
    BY <1>1, EmptySeq
  <2>4. dest \in ToStart .. ToStart + FromUsed
    BY <1>1, <1>2
  <2> QED BY <1>1, <2>1, <2>3, <2>4 DEF Places
<1>12. ToSpace(mem, dest, copies)
  <2>1. ASSUME NEW a \in dest .. ToStart + FromUsed
        PROVE  Plain(mem[a])
    <3>1. a \in Int /\ a >= FromUsed /\ a \in Addresses /\ a \notin Low .. High - 1
      BY <1>1, <1>2 DEF Addresses, Low, High
    <3>2. a \notin Objects
      BY <1>1, <3>1, OwnBytes
    <3>3. \A o \in Objects : \A i \in 1 .. Fields(o) : a # o + 8 * i
      BY <1>1, <3>1, OwnReferences DEF Contents
    <3>4. a \notin PointerFields
      BY <3>3 DEF PointerFields, Fields
    <3> QED BY <1>7, <1>9, <3>1, <3>2, <3>4
  <2> QED BY <1>1, <2>1 DEF ToSpace
<1>13. FieldsFollow(mem, copies, scan, idx)
  BY <1>1 DEF FieldsFollow
<1>14. RootsKept
  <2>1. /\ statics \in [1 .. StaticSlots -> References]
        /\ stacks \in [1 .. StackSlots -> References]
        /\ origin = [statics |-> statics, stacks |-> stacks, handles |-> handles]
    BY DEF Init
  <2>2. /\ origin.statics = statics /\ origin.stacks = stacks
        /\ origin.handles = handles
    BY <2>1
  <2>3. DOMAIN handles \subseteq Handles /\ \A h \in DOMAIN handles : handles[h] \in References
    BY DEF Init, References
  <2>4. SlotsFollow(origin.statics, statics, WaitingStatics, copies)
    BY <1>1, <2>1, <2>2 DEF SlotsFollow, Followed, WaitingStatics
  <2>5. SlotsFollow(origin.stacks, stacks, WaitingStacks, copies)
    BY <1>1, <2>1, <2>2 DEF SlotsFollow, Followed, WaitingStacks
  <2>6. SlotsFollow(origin.handles, handles, pending, copies)
    BY <1>1, <2>2, <2>3 DEF SlotsFollow, Followed
  <2> QED BY <1>1, <2>1, <2>2, <2>3, <2>4, <2>5, <2>6 DEF RootsKept
<1>15. OnlyReached
  BY <1>3 DEF OnlyReached
<1> QED BY <1>4, <1>10, <1>11, <1>12, <1>13, <1>14, <1>15 DEF IInv, Space

----------------------------------------------------------------------------
(* ... and every step keeps it.  First the roots.                           *)

(* Forwarding a reference the roots of the collection held.                 *)
LEMMA RootForwarded ==
  ASSUME IInv, scan = 0, scan' = 0, heap' = heap, origin' = origin,
         NEW w \in References, \A o \in Objects : w = Ptr(o) => o \in RootTargets,
         mem' = Forward(w).mem, dest' = Forward(w).dest, copies' = Forward(w).copies
  PROVE  /\ Space(mem, dest, copies)'
         /\ FieldsFollow(mem, copies, scan, idx)'
         /\ OnlyReached'
         /\ Extended(mem', dest', copies', w)
<1>1. /\ heap \in Layouts /\ Space(mem, dest, copies) /\ OnlyReached
      /\ FieldsFollow(mem, copies, 0, idx)
  BY DEF IInv, Control
<1>2. Space(mem', dest', copies') /\ Extended(mem', dest', copies', w)
  BY <1>1, ForwardEffect
<1>3. FieldsFollow(mem', copies', 0, idx')
  BY <1>1, <1>2, FieldsUnscanned
<1>4. FieldsFollow(mem, copies, scan, idx)'
  BY <1>3, FieldsPrimed
<1>5. \A a \in Contents : mem'[a] = mem[a]
  BY <1>2 DEF Extended
<1>6. OnlyReached'
  BY <1>1, <1>2, <1>5, ReachedLater
<1> QED BY <1>2, <1>4, <1>6, SpacePrimed

(* A root is one of those the collection started from.                      *)
LEMMA RootsAreTargets ==
  ASSUME IInv, NEW o \in Objects
  PROVE  /\ \A i \in 1 .. StaticSlots : origin.statics[i] = Ptr(o) => o \in RootTargets
         /\ \A i \in 1 .. StackSlots : origin.stacks[i] = Ptr(o) => o \in RootTargets
         /\ \A h \in DOMAIN origin.handles :
              origin.handles[h] = Ptr(o) => o \in RootTargets
BY DEF IInv, RootsKept, SlotsFollow, RootTargets, Range

(* One static pointer is forwarded...                                       *)
LEMMA StaticsStep == ASSUME IInv, TrackClassPointer, heap' = heap PROVE IInv'
<1>1. /\ pc = "classes" /\ pc' = "classes" /\ scan = 0 /\ scan' = 0 /\ idx \in Nat
      /\ idx <= StaticSlots /\ idx' = idx + 1 /\ origin' = origin
      /\ heap \in Layouts /\ Space(mem, dest, copies)
  BY DEF IInv, Control, TrackClassPointer
<1>2. /\ mem' = Forward(statics[idx]).mem /\ dest' = Forward(statics[idx]).dest
      /\ copies' = Forward(statics[idx]).copies
      /\ statics' = [statics EXCEPT ![idx] = Forward(statics[idx]).to]
      /\ stacks' = stacks /\ handles' = handles /\ pending' = pending
  BY DEF TrackClassPointer, Apply
<1>3. /\ DOMAIN origin.statics = 1 .. StaticSlots
      /\ SlotsFollow(origin.statics, statics, idx .. StaticSlots, copies)
      /\ SlotsFollow(origin.stacks, stacks, 1 .. StackSlots, copies)
      /\ SlotsFollow(origin.handles, handles, pending, copies)
  BY <1>1 DEF IInv, RootsKept, WaitingStatics, WaitingStacks
<1>4. idx \in 1 .. StaticSlots /\ idx \in idx .. StaticSlots
  <2>1. idx > 0
    BY <1>1 DEF IInv, Control
  <2> QED BY <1>1, <2>1, SlotsAssumption
<1>5. /\ statics[idx] \in References /\ statics[idx] = origin.statics[idx]
      /\ SlotsFollow(origin.statics, statics', (idx .. StaticSlots) \ {idx}, copies')
  <2>1. /\ statics[idx] \in References /\ statics[idx] = origin.statics[idx]
        /\ SlotsFollow(origin.statics,
                       [statics EXCEPT ![idx] = Forward(statics[idx]).to],
                       (idx .. StaticSlots) \ {idx}, Forward(statics[idx]).copies)
    BY <1>1, <1>3, <1>4, SlotForwarded
  <2> QED BY <1>2, <2>1
<1>6. \A o \in Objects : statics[idx] = Ptr(o) => o \in RootTargets
  BY <1>4, <1>5, RootsAreTargets
<1>7. /\ Space(mem, dest, copies)'
      /\ FieldsFollow(mem, copies, scan, idx)'
      /\ OnlyReached'
      /\ Extended(mem', dest', copies', statics[idx])
  BY <1>1, <1>2, <1>5, <1>6, RootForwarded
<1>8. /\ SlotsFollow(origin.stacks, stacks, 1 .. StackSlots, copies')
      /\ SlotsFollow(origin.handles, handles, pending, copies')
  BY <1>3, <1>7, SlotsLater
<1>9. RootsKept'
  <2>1. WaitingStatics' = (idx .. StaticSlots) \ {idx}
    <3>1. idx + 1 .. StaticSlots = (idx .. StaticSlots) \ {idx}
      BY <1>4, SlotsAssumption
    <3> QED BY <1>1, <3>1 DEF WaitingStatics
  <2>2. WaitingStacks' = 1 .. StackSlots
    BY <1>1 DEF WaitingStacks
  <2>3. /\ SlotsFollow(origin'.statics, statics', WaitingStatics', copies')
        /\ SlotsFollow(origin'.stacks, stacks', WaitingStacks', copies')
        /\ SlotsFollow(origin'.handles, handles', pending', copies')
    BY <1>1, <1>2, <1>5, <1>8, <2>1, <2>2
  <2>4. /\ SlotsFollow(origin.statics, statics, WaitingStatics, copies)'
        /\ SlotsFollow(origin.stacks, stacks, WaitingStacks, copies)'
        /\ SlotsFollow(origin.handles, handles, pending, copies)'
    BY <2>3, SlotsPrimed
  <2> QED BY <1>1, <1>2, <2>4 DEF IInv, RootsKept
<1>10. Control'
  BY <1>1 DEF Control
<1> QED BY <1>7, <1>9, <1>10 DEF IInv

(* ...one slot of the stack...                                              *)
LEMMA StacksStep == ASSUME IInv, TrackStackPointer, heap' = heap PROVE IInv'
<1>1. /\ pc = "stacks" /\ pc' = "stacks" /\ scan = 0 /\ scan' = 0 /\ idx \in Nat
      /\ idx <= StackSlots /\ idx' = idx + 1 /\ origin' = origin
      /\ heap \in Layouts /\ Space(mem, dest, copies)
  BY DEF IInv, Control, TrackStackPointer
<1>2. /\ mem' = Forward(stacks[idx]).mem /\ dest' = Forward(stacks[idx]).dest
      /\ copies' = Forward(stacks[idx]).copies
      /\ stacks' = [stacks EXCEPT ![idx] = Forward(stacks[idx]).to]
      /\ statics' = statics /\ handles' = handles /\ pending' = pending
  BY DEF TrackStackPointer, Apply
<1>3. /\ DOMAIN origin.stacks = 1 .. StackSlots
      /\ SlotsFollow(origin.statics, statics, {}, copies)
      /\ SlotsFollow(origin.stacks, stacks, idx .. StackSlots, copies)
      /\ SlotsFollow(origin.handles, handles, pending, copies)
  BY <1>1 DEF IInv, RootsKept, WaitingStatics, WaitingStacks
<1>4. idx \in 1 .. StackSlots /\ idx \in idx .. StackSlots
  <2>1. idx > 0
    BY <1>1 DEF IInv, Control
  <2> QED BY <1>1, <2>1, SlotsAssumption
<1>5. /\ stacks[idx] \in References /\ stacks[idx] = origin.stacks[idx]
      /\ SlotsFollow(origin.stacks, stacks', (idx .. StackSlots) \ {idx}, copies')
  <2>1. /\ stacks[idx] \in References /\ stacks[idx] = origin.stacks[idx]
        /\ SlotsFollow(origin.stacks,
                       [stacks EXCEPT ![idx] = Forward(stacks[idx]).to],
                       (idx .. StackSlots) \ {idx}, Forward(stacks[idx]).copies)
    BY <1>1, <1>3, <1>4, SlotForwarded
  <2> QED BY <1>2, <2>1
<1>6. \A o \in Objects : stacks[idx] = Ptr(o) => o \in RootTargets
  BY <1>4, <1>5, RootsAreTargets
<1>7. /\ Space(mem, dest, copies)'
      /\ FieldsFollow(mem, copies, scan, idx)'
      /\ OnlyReached'
      /\ Extended(mem', dest', copies', stacks[idx])
  BY <1>1, <1>2, <1>5, <1>6, RootForwarded
<1>8. /\ SlotsFollow(origin.statics, statics, {}, copies')
      /\ SlotsFollow(origin.handles, handles, pending, copies')
  BY <1>3, <1>7, SlotsLater
<1>9. RootsKept'
  <2>1. WaitingStacks' = (idx .. StackSlots) \ {idx}
    <3>1. idx + 1 .. StackSlots = (idx .. StackSlots) \ {idx}
      BY <1>4, SlotsAssumption
    <3> QED BY <1>1, <3>1 DEF WaitingStacks
  <2>2. WaitingStatics' = {}
    BY <1>1 DEF WaitingStatics
  <2>3. /\ SlotsFollow(origin'.statics, statics', WaitingStatics', copies')
        /\ SlotsFollow(origin'.stacks, stacks', WaitingStacks', copies')
        /\ SlotsFollow(origin'.handles, handles', pending', copies')
    BY <1>1, <1>2, <1>5, <1>8, <2>1, <2>2
  <2>4. /\ SlotsFollow(origin.statics, statics, WaitingStatics, copies)'
        /\ SlotsFollow(origin.stacks, stacks, WaitingStacks, copies)'
        /\ SlotsFollow(origin.handles, handles, pending, copies)'
    BY <2>3, SlotsPrimed
  <2> QED BY <1>1, <1>2, <2>4 DEF IInv, RootsKept
<1>10. Control'
  BY <1>1 DEF Control
<1> QED BY <1>7, <1>9, <1>10 DEF IInv
(* ...or one native reference, in any order.                                *)
LEMMA NativesStep ==
  ASSUME IInv, NEW h \in Handles, TrackNativePointer(h), heap' = heap
  PROVE  IInv'
<1>1. /\ pc = "natives" /\ pc' = "natives" /\ scan = 0 /\ scan' = 0 /\ idx \in Nat
      /\ idx > 0 /\ h \in pending /\ idx' = idx /\ origin' = origin
      /\ heap \in Layouts /\ Space(mem, dest, copies)
  BY DEF IInv, Control, TrackNativePointer
<1>2. /\ mem' = Forward(handles[h]).mem /\ dest' = Forward(handles[h]).dest
      /\ copies' = Forward(handles[h]).copies
      /\ handles' = [handles EXCEPT ![h] = Forward(handles[h]).to]
      /\ statics' = statics /\ stacks' = stacks /\ pending' = pending \ {h}
  BY DEF TrackNativePointer, Apply
<1>3. /\ pending \subseteq DOMAIN origin.handles
      /\ SlotsFollow(origin.statics, statics, {}, copies)
      /\ SlotsFollow(origin.stacks, stacks, {}, copies)
      /\ SlotsFollow(origin.handles, handles, pending, copies)
  BY <1>1 DEF IInv, RootsKept, WaitingStatics, WaitingStacks
<1>4. h \in DOMAIN origin.handles
  BY <1>1, <1>3
<1>5. /\ handles[h] \in References /\ handles[h] = origin.handles[h]
      /\ SlotsFollow(origin.handles, handles', pending \ {h}, copies')
  <2>1. /\ handles[h] \in References /\ handles[h] = origin.handles[h]
        /\ SlotsFollow(origin.handles,
                       [handles EXCEPT ![h] = Forward(handles[h]).to],
                       pending \ {h}, Forward(handles[h]).copies)
    BY <1>1, <1>3, <1>4, SlotForwarded
  <2> QED BY <1>2, <2>1
<1>6. \A o \in Objects : handles[h] = Ptr(o) => o \in RootTargets
  BY <1>4, <1>5, RootsAreTargets
<1>7. /\ Space(mem, dest, copies)'
      /\ FieldsFollow(mem, copies, scan, idx)'
      /\ OnlyReached'
      /\ Extended(mem', dest', copies', handles[h])
  BY <1>1, <1>2, <1>5, <1>6, RootForwarded
<1>8. /\ SlotsFollow(origin.statics, statics, {}, copies')
      /\ SlotsFollow(origin.stacks, stacks, {}, copies')
  BY <1>3, <1>7, SlotsLater
<1>9. RootsKept'
  <2>1. WaitingStatics' = {} /\ WaitingStacks' = {}
    BY <1>1 DEF WaitingStatics, WaitingStacks
  <2>2. /\ SlotsFollow(origin'.statics, statics', WaitingStatics', copies')
        /\ SlotsFollow(origin'.stacks, stacks', WaitingStacks', copies')
        /\ SlotsFollow(origin'.handles, handles', pending', copies')
    BY <1>1, <1>2, <1>5, <1>8, <2>1
  <2>3. /\ SlotsFollow(origin.statics, statics, WaitingStatics, copies)'
        /\ SlotsFollow(origin.stacks, stacks, WaitingStacks, copies)'
        /\ SlotsFollow(origin.handles, handles, pending, copies)'
    BY <2>2, SlotsPrimed
  <2> QED BY <1>1, <1>2, <1>3, <2>3 DEF IInv, RootsKept
<1>10. Control'
  BY <1>1 DEF Control
<1> QED BY <1>7, <1>9, <1>10 DEF IInv

(* The steps that only move on: nothing is written.                         *)
LEMMA NothingWritten ==
  ASSUME IInv, heap' = heap, mem' = mem, dest' = dest, copies' = copies,
         origin' = origin, statics' = statics, stacks' = stacks, handles' = handles,
         pending' = pending, WaitingStatics' = WaitingStatics,
         WaitingStacks' = WaitingStacks,
         pc' \notin {"classes", "stacks", "natives"} => pending = {}
  PROVE  Space(mem, dest, copies)' /\ OnlyReached' /\ RootsKept'
<1>1. heap \in Layouts /\ Space(mem, dest, copies) /\ OnlyReached /\ RootsKept
  BY DEF IInv, Control
<1>2. Space(mem, dest, copies)'
  BY <1>1, SpacePrimed
<1>3. PICK w : w = Null
  OBVIOUS
<1>4. \A o \in Objects : w # Ptr(o)
  BY <1>3 DEF Null, Ptr
<1>5. Extended(mem, dest, copies, w)
  BY <1>1, PlaceFacts DEF Extended, Space
<1>6. Extended(mem', dest', copies', w)
  BY <1>5
<1>7. OnlyReached'
  BY <1>1, <1>4, <1>6, ReachedLater
<1>8. /\ SlotsFollow(origin.statics, statics, WaitingStatics, copies)'
      /\ SlotsFollow(origin.stacks, stacks, WaitingStacks, copies)'
      /\ SlotsFollow(origin.handles, handles, pending, copies)'
  <2>1. /\ SlotsFollow(origin'.statics, statics', WaitingStatics', copies')
        /\ SlotsFollow(origin'.stacks, stacks', WaitingStacks', copies')
        /\ SlotsFollow(origin'.handles, handles', pending', copies')
    BY <1>1 DEF RootsKept
  <2> QED BY <2>1, SlotsPrimed
<1>9. RootsKept'
  BY <1>1, <1>8 DEF RootsKept
<1> QED BY <1>2, <1>7, <1>9

(* Between the phases only the phase changes; no root of it waits any more. *)
LEMMA RootsDoneStep ==
  ASSUME IInv, ClassesDone \/ StacksDone \/ NativesDone, heap' = heap
  PROVE  IInv'
<1>1. /\ mem' = mem /\ dest' = dest /\ copies' = copies /\ origin' = origin
      /\ statics' = statics /\ stacks' = stacks /\ handles' = handles
      /\ pending' = pending /\ heap \in Layouts /\ scan = 0
      /\ Space(mem, dest, copies)
  BY DEF IInv, Control, ClassesDone, StacksDone, NativesDone
<1>2. FieldsFollow(mem, copies, 0, idx)
  BY <1>1 DEF IInv
<1>3. /\ Places(dest, copies) /\ Len(copies) \in Nat /\ ToStart \in Nat
      /\ \A k \in 1 .. Len(copies) :
           /\ copies[k].at \in Nat /\ copies[k].at >= ToStart + 8
           /\ Fields(copies[k].of) \in Nat
  BY <1>1, PlaceFacts DEF Space
<1>4. CASE ClassesDone \/ StacksDone
  <2>1. scan' = 0 /\ idx' = 1 /\ pc' \in {"stacks", "natives"}
        /\ \/ pc = "classes" /\ pc' = "stacks" /\ idx > StaticSlots
           \/ pc = "stacks" /\ pc' = "natives" /\ idx > StackSlots
    <3>1. CASE ClassesDone
      BY <1>1, <3>1 DEF ClassesDone
    <3>2. CASE StacksDone
      BY <1>1, <3>2 DEF StacksDone
    <3> QED BY <1>4, <3>1, <3>2
  <2>2. FieldsFollow(mem, copies, 0, idx')
    <3>1. \A k \in 1 .. Len(copies) : \A i \in Int : \A g :
            ~Passed(0, g, copies[k], i)
      BY <1>3 DEF Passed
    <3>2. \A k \in 1 .. Len(copies) : \A i \in 1 .. Fields(copies[k].of) : i \in Int
      BY <1>3
    <3> QED BY <1>2, <3>1, <3>2 DEF FieldsFollow, Followed
  <2>3. FieldsFollow(mem, copies, scan, idx)'
    BY <1>1, <2>1, <2>2, FieldsPrimed
  <2>4. Control'
    BY <1>1, <2>1 DEF Control
  <2>5. WaitingStatics' = WaitingStatics /\ WaitingStacks' = WaitingStacks
    <3>1. idx \in Nat
      BY DEF IInv, Control
    <3>2. idx > StaticSlots => idx .. StaticSlots = {}
      BY <3>1, SlotsAssumption
    <3>3. idx > StackSlots => idx .. StackSlots = {}
      BY <3>1, SlotsAssumption
    <3> QED BY <2>1, <3>2, <3>3 DEF WaitingStatics, WaitingStacks
  <2> QED BY <1>1, <2>1, <2>3, <2>4, <2>5, NothingWritten DEF IInv
<1>5. CASE NativesDone
  <2>1. scan' = ToStart + 8 /\ idx' = 0 /\ pc = "natives" /\ pc' = "cleanup"
        /\ pending = {}
    BY <1>5 DEF NativesDone
  <2>2. FieldsFollow(mem, copies, scan', idx')
    <3>1. ASSUME NEW k \in 1 .. Len(copies), NEW i \in 1 .. Fields(copies[k].of)
          PROVE  ~Passed(ToStart + 8, 0, copies[k], i)
                 /\ ~Passed(0, idx, copies[k], i)
      <4>1. PICK c, z : c = copies[k].at /\ z = Fields(copies[k].of)
        OBVIOUS
      <4>2. c \in Nat /\ c >= ToStart + 8 /\ ToStart \in Nat /\ i \in Int /\ i > 0
        BY <1>3, <4>1
      <4>3. ~(c < ToStart + 8) /\ ~(i <= 0) /\ ~(c < 0) /\ c # 0
        BY <4>2
      <4> QED BY <4>1, <4>3 DEF Passed
    <3> QED BY <1>2, <2>1, <3>1 DEF FieldsFollow, Followed
  <2>3. FieldsFollow(mem, copies, scan, idx)'
    BY <1>1, <2>2, FieldsPrimed
  <2>4. scan' \in {copies[k].at : k \in 1 .. Len(copies)} \cup {dest + 8}
    <3>1. CASE Len(copies) = 0
      <4>1. dest = ToStart
        BY <1>3, <3>1 DEF Places
      <4> QED BY <2>1, <4>1
    <3>2. CASE Len(copies) # 0
      <4>1. 1 \in 1 .. Len(copies)
        BY <1>3, <3>2
      <4>2. copies[1].at = ToStart + 8
        BY <1>3, <4>1 DEF Places
      <4> QED BY <2>1, <4>1, <4>2
    <3> QED BY <3>1, <3>2
  <2>5. Control'
    BY <1>1, <2>1, <2>4 DEF Control
  <2>6. WaitingStatics' = WaitingStatics /\ WaitingStacks' = WaitingStacks
    BY <2>1 DEF WaitingStatics, WaitingStacks
  <2> QED BY <1>1, <2>1, <2>3, <2>5, <2>6, NothingWritten DEF IInv
<1> QED BY <1>4, <1>5

----------------------------------------------------------------------------
(* Then the scan.                                                           *)

(* The next reference of the copy at `scan` is forwarded...                 *)
LEMMA FieldStep == ASSUME IInv, CleanupField, heap' = heap PROVE IInv'
<1>1. /\ pc = "cleanup" /\ pc' = "cleanup" /\ scan < dest /\ IsHeader(mem[scan])
      /\ idx < PointerCount(mem[scan]) /\ idx \in Nat /\ idx' = idx + 1
      /\ scan' = scan /\ heap \in Layouts /\ Space(mem, dest, copies)
      /\ FieldsFollow(mem, copies, scan, idx)
      /\ origin' = origin /\ statics' = statics /\ stacks' = stacks
      /\ handles' = handles /\ pending' = pending
  BY DEF IInv, Control, CleanupField, AtField
<1>2. PICK w, f :
        /\ w = mem[NextField] /\ f = Forward(w) /\ IsWord(mem[NextField])
        /\ Written(mem', f.mem, NextField, f.to)
        /\ dest' = f.dest /\ copies' = f.copies
  BY DEF CleanupField, Apply, Written
<1>3. PICK k \in 1 .. Len(copies) :
        /\ scan = copies[k].at
        /\ mem[scan] = HeaderOf[copies[k].of]
  BY <1>1, ScanReadsHeader
<1>4. scan \in Nat /\ copies[k].of \in Objects
  BY <1>1, <1>3, PlaceFacts DEF Space
<1>5. idx < Fields(copies[k].of)
  BY <1>1, <1>3 DEF Fields
<1>6. /\ Space(mem', f.dest, f.copies)
      /\ Extended(f.mem, f.dest, f.copies, w)
      /\ \A a \in Contents : mem'[a] = mem[a]
      /\ FieldsFollow(mem', f.copies, scan, idx + 1)
      /\ idx + 1 \in 1 .. Fields(copies[k].of)
      /\ w = mem[copies[k].of + 8 * (idx + 1)]
  BY <1>1, <1>2, <1>3, <1>4, <1>5, FieldForwarded
<1>7. /\ Space(mem', dest', copies')
      /\ Extended(f.mem, dest', copies', w)
      /\ FieldsFollow(mem', copies', scan', idx')
  BY <1>1, <1>2, <1>6
<1>8. ASSUME NEW S \in SUBSET Objects, Targets(S) \subseteq S, CopiedIn(copies) \subseteq S,
             NEW o \in Objects, w = Ptr(o)
      PROVE  o \in S
  <2>1. copies[k].of \in S
    BY <1>8 DEF CopiedIn
  <2>2. idx + 1 \in 1 .. PointerCount(HeaderOf[copies[k].of])
        /\ mem[copies[k].of + 8 * (idx + 1)] = Ptr(o)
    BY <1>6, <1>8 DEF Fields
  <2>3. o \in Targets(S)
    BY <2>1, <2>2 DEF Targets
  <2> QED BY <1>8, <2>3
<1>9. OnlyReached'
  <2>1. OnlyReached
    BY DEF IInv
  <2> QED BY <1>1, <1>6, <1>7, <1>8, <2>1, ReachedLater
<1>10. Control'
  <2>1. k \in 1 .. Len(copies') /\ copies'[k] = copies[k]
    BY <1>7 DEF Extended
  <2>2. scan' \in {copies[j].at : j \in 1 .. Len(copies)}'
    BY <1>1, <1>3, <2>1
  <2> QED BY <1>1, <2>2 DEF Control
<1>11. RootsKept'
  <2>1. /\ WaitingStatics = {} /\ WaitingStacks = {}
        /\ WaitingStatics' = {} /\ WaitingStacks' = {}
    BY <1>1 DEF WaitingStatics, WaitingStacks
  <2>2. /\ SlotsFollow(origin.statics, statics, WaitingStatics, copies)
        /\ SlotsFollow(origin.stacks, stacks, WaitingStacks, copies)
        /\ SlotsFollow(origin.handles, handles, pending, copies)
    BY DEF IInv, RootsKept
  <2>3. /\ SlotsFollow(origin.statics, statics, WaitingStatics, copies')
        /\ SlotsFollow(origin.stacks, stacks, WaitingStacks, copies')
        /\ SlotsFollow(origin.handles, handles, pending, copies')
    BY <1>7, <2>2, SlotsLater
  <2>4. /\ SlotsFollow(origin'.statics, statics', WaitingStatics', copies')
        /\ SlotsFollow(origin'.stacks, stacks', WaitingStacks', copies')
        /\ SlotsFollow(origin'.handles, handles', pending', copies')
    BY <1>1, <2>1, <2>3
  <2>5. /\ SlotsFollow(origin.statics, statics, WaitingStatics, copies)'
        /\ SlotsFollow(origin.stacks, stacks, WaitingStacks, copies)'
        /\ SlotsFollow(origin.handles, handles, pending, copies)'
    BY <1>1, <2>4, SlotsPrimed
  <2> QED BY <1>1, <2>5 DEF IInv, RootsKept
<1>12. Space(mem, dest, copies)'
  BY <1>7, SpacePrimed
<1>13. FieldsFollow(mem, copies, scan, idx)'
  BY <1>1, <1>7, FieldsPrimed
<1> QED BY <1>9, <1>10, <1>11, <1>12, <1>13 DEF IInv


(* ... or, when not all of its bytes were copied, left as it is: no bytes   *)
(* of the references that follow were, and the object is not a roomy one.   *)
LEMMA TornStep == ASSUME IInv, CleanupTornField, heap' = heap PROVE IInv'
<1>1. /\ pc = "cleanup" /\ scan < dest /\ IsHeader(mem[scan]) /\ idx \in Nat
      /\ idx < PointerCount(mem[scan]) /\ ~IsWord(mem[NextField])
      /\ scan' = scan /\ heap \in Layouts /\ Space(mem, dest, copies)
      /\ FieldsFollow(mem, copies, scan, idx)
      /\ mem' = mem /\ dest' = dest /\ copies' = copies /\ origin' = origin
      /\ statics' = statics /\ stacks' = stacks /\ handles' = handles
      /\ pending' = pending
  BY DEF IInv, Control, CleanupTornField, AtField
<1>2. pending = {}
  BY <1>1 DEF IInv, RootsKept
<1>3. PICK k \in 1 .. Len(copies) :
        /\ scan = copies[k].at
        /\ mem[scan] = HeaderOf[copies[k].of]
  BY <1>1, ScanReadsHeader
<1>4. Places(dest, copies)
  BY <1>1 DEF Space
<1>5. PICK p, f, z, i : /\ p = copies[k].of /\ f = Fields(p) /\ z = Size(p)
                        /\ i = idx + 1
  OBVIOUS
<1>6. p \in Objects /\ f \in Nat /\ z \in Nat /\ idx < f
  BY <1>1, <1>3, <1>4, <1>5, PlaceFacts DEF Fields
<1>7. ~Whole(p, i)
  BY <1>1, <1>3, <1>5, <1>6, NextFieldRead
<1>8. 8 * f + 8 > z
  <2>1. 8 * i + 8 > z /\ i <= f /\ i \in Nat
    BY <1>1, <1>5, <1>6, <1>7 DEF Whole
  <2> QED BY <1>6, <2>1
<1>9. ~Roomy(HeaderOf[p])
  <2>1. ~(8 * f + 8 <= z)
    BY <1>6, <1>8
  <2> QED BY <1>5, <2>1 DEF Roomy, Fields, Size
<1>10. (pc' = "cleanup" /\ idx' = i) \/ (pc' = "wild" /\ idx' = idx)
  BY <1>1, <1>5 DEF CleanupTornField
<1>11. ASSUME NEW j \in 1 .. Len(copies), NEW g \in 1 .. Fields(copies[j].of),
              Whole(copies[j].of, g)
       PROVE  Passed(scan, i, copies[j], g) <=> Passed(scan, idx, copies[j], g)
  <2>1. copies[j].at = scan => j = k
    BY <1>1, <1>3, <1>4, SamePlace
  <2>2. copies[j].at = scan => g # i
    BY <1>5, <1>7, <1>11, <2>1
  <2>3. g \in Int
    OBVIOUS
  <2>4. copies[j].at = scan => (g <= i <=> g <= idx)
    BY <1>1, <1>5, <2>2, <2>3
  <2> QED BY <2>4 DEF Passed
<1>12. FieldsFollow(mem', copies', scan', idx')
  <2>1. FieldsFollow(mem, copies, scan, i)
    BY <1>1, <1>11 DEF FieldsFollow, Followed
  <2> QED BY <1>1, <1>10, <2>1
<1>13. FieldsFollow(mem, copies, scan, idx)'
  BY <1>12, FieldsPrimed
<1>14. Control'
  <2>1. idx' \in Nat
    BY <1>1, <1>5, <1>10
  <2>2. HeaderOf' = HeaderOf
    BY DEF HeaderOf
  <2>3. \E j \in 1 .. Len(copies) : ~Roomy(HeaderOf[copies[j].of])
    BY <1>5, <1>9
  <2>4. scan \in {copies[j].at : j \in 1 .. Len(copies)} \cup {dest + 8}
    BY <1>3
  <2> QED BY <1>1, <1>10, <2>1, <2>2, <2>3, <2>4 DEF Control
<1>15. WaitingStatics' = WaitingStatics /\ WaitingStacks' = WaitingStacks
  BY <1>1, <1>10 DEF WaitingStatics, WaitingStacks
<1> QED BY <1>1, <1>2, <1>13, <1>14, <1>15, NothingWritten DEF IInv

(* The scan passes an object whose pointer fields are done.                 *)
LEMMA NextStep == ASSUME IInv, CleanupNext, heap' = heap PROVE IInv'
<1>1. /\ pc = "cleanup" /\ pc' = "cleanup" /\ scan < dest /\ IsHeader(mem[scan])
      /\ idx = PointerCount(mem[scan]) /\ idx' = 0
      /\ scan' = scan + (FieldBytes(mem[scan]) + 8)
      /\ heap \in Layouts /\ Space(mem, dest, copies)
      /\ FieldsFollow(mem, copies, scan, idx)
      /\ mem' = mem /\ dest' = dest /\ copies' = copies /\ origin' = origin
      /\ statics' = statics /\ stacks' = stacks /\ handles' = handles
      /\ pending' = pending
  BY DEF IInv, Control, CleanupNext, AtEnd, TotalSize
<1>2. pending = {}
  BY <1>1 DEF IInv, RootsKept
<1>3. PICK k \in 1 .. Len(copies) :
        /\ scan = copies[k].at
        /\ mem[scan] = HeaderOf[copies[k].of]
  BY <1>1, ScanReadsHeader
<1>4. Places(dest, copies)
  BY <1>1 DEF Space
<1>5. PICK c, z : c = copies[k].at /\ z = Size(copies[k].of)
  OBVIOUS
<1>6. c \in Nat /\ z \in Nat /\ scan = c
  BY <1>1, <1>3, <1>4, <1>5, PlaceFacts
<1>7. scan' = c + z + 8 /\ idx = Fields(copies[k].of)
  <2>1. scan' = c + (z + 8)
    BY <1>1, <1>3, <1>5 DEF Size
  <2>2. c + (z + 8) = c + z + 8
    BY <1>6
  <2> QED BY <1>1, <1>3, <2>1, <2>2 DEF Fields
<1>8. scan' \in {copies[j].at : j \in 1 .. Len(copies)} \cup {dest + 8}
  BY <1>1, <1>4, <1>5, <1>7, NextCopy
<1>9. ASSUME NEW j \in 1 .. Len(copies), NEW i \in 1 .. Fields(copies[j].of)
      PROVE  Passed(scan', 0, copies[j], i) <=> Passed(scan, idx, copies[j], i)
  <2>1. PICK e, y : e = copies[j].at /\ y = Size(copies[j].of)
    OBVIOUS
  <2>2. e \in Nat /\ y \in Nat
    BY <1>1, <1>4, <2>1, PlaceFacts
  <2>3. i \in Int /\ i >= 1
    OBVIOUS
  <2>4. j = k \/ e + y + 8 <= c \/ c + z + 8 <= e
    BY <1>1, <1>4, <1>5, <2>1, PlacesOrdered
  <2>5. CASE j = k
    <3>1. e = c /\ i <= idx
      BY <1>5, <1>7, <2>1, <2>3, <2>5
    <3>2. e < c + z + 8
      BY <1>6, <2>2, <3>1
    <3> QED BY <1>6, <1>7, <2>1, <3>1, <3>2 DEF Passed
  <2>6. CASE e + y + 8 <= c
    <3>1. e < c /\ e < c + z + 8
      BY <1>6, <2>2, <2>6
    <3> QED BY <1>6, <1>7, <2>1, <3>1 DEF Passed
  <2>7. CASE c + z + 8 <= e
    <3>1. ~(e < c) /\ e # c /\ ~(e < c + z + 8) /\ ~(i <= 0)
      BY <1>6, <2>2, <2>3, <2>7
    <3> QED BY <1>6, <1>7, <2>1, <3>1 DEF Passed
  <2> QED BY <2>4, <2>5, <2>6, <2>7
<1>10. FieldsFollow(mem', copies', scan', idx')
  BY <1>1, <1>9 DEF FieldsFollow, Followed
<1>11. FieldsFollow(mem, copies, scan, idx)'
  BY <1>10, FieldsPrimed
<1>12. Control'
  BY <1>1, <1>8 DEF Control
<1>13. WaitingStatics' = WaitingStatics /\ WaitingStacks' = WaitingStacks
  BY <1>1 DEF WaitingStatics, WaitingStacks
<1> QED BY <1>1, <1>2, <1>11, <1>12, <1>13, NothingWritten DEF IInv

(* The scan ends.                                                           *)
LEMMA EndStep ==
  ASSUME IInv, CleanupWild \/ CleanupDone, heap' = heap
  PROVE  IInv'
<1>1. /\ pc = "cleanup" /\ pc' \in {"done", "wild"} /\ scan' = scan /\ idx' = idx
      /\ heap \in Layouts /\ FieldsFollow(mem, copies, scan, idx) /\ idx \in Nat
      /\ mem' = mem /\ dest' = dest /\ copies' = copies /\ origin' = origin
      /\ statics' = statics /\ stacks' = stacks /\ handles' = handles
      /\ pending' = pending
      /\ scan \in {copies[k].at : k \in 1 .. Len(copies)} \cup {dest + 8}
  BY DEF IInv, Control, CleanupWild, CleanupDone
<1>2. pending = {}
  BY <1>1 DEF IInv, RootsKept
<1>3. FieldsFollow(mem, copies, scan, idx)'
  <2>1. FieldsFollow(mem', copies', scan', idx')
    BY <1>1
  <2> QED BY <2>1, FieldsPrimed
<1>4. pc' = "done" => scan >= dest
  BY DEF CleanupWild, CleanupDone
<1>5. pc' = "wild" => \E k \in 1 .. Len(copies) : ~Roomy(HeaderOf[copies[k].of])
  <2>1. ASSUME CleanupWild
        PROVE  \E k \in 1 .. Len(copies) : ~Roomy(HeaderOf[copies[k].of])
    <3>1. PICK k \in 1 .. Len(copies) : Size(copies[k].of) < 8
      BY <1>1, <2>1, ScanReadsHeader DEF CleanupWild
    <3>2. PICK f, z : f = Fields(copies[k].of) /\ z = Size(copies[k].of)
      OBVIOUS
    <3>3. Places(dest, copies)
      BY DEF IInv, Space
    <3>4. f \in Nat /\ z \in Nat /\ z < 8
      BY <1>1, <3>1, <3>2, <3>3, PlaceFacts
    <3>5. ~(8 * f + 8 <= z)
      BY <3>4
    <3>6. ~Roomy(HeaderOf[copies[k].of])
      BY <3>2, <3>5 DEF Roomy, Fields, Size
    <3> QED BY <3>6
  <2> QED BY <2>1 DEF CleanupDone
<1>6. HeaderOf' = HeaderOf
  BY DEF HeaderOf
<1>7. Control'
  BY <1>1, <1>4, <1>5, <1>6 DEF Control
<1>8. WaitingStatics' = WaitingStatics /\ WaitingStacks' = WaitingStacks
  BY <1>1 DEF WaitingStatics, WaitingStacks
<1> QED BY <1>1, <1>2, <1>3, <1>7, <1>8, NothingWritten DEF IInv

----------------------------------------------------------------------------
(* The theorems.                                                            *)

(* The inductive invariant holds throughout every collection.               *)
THEOREM CopyInvariance == Spec => []IInv
<1>1. Init => IInv
  BY InitHolds
<1>2. IInv /\ [Next]_vars => IInv'
  <2> SUFFICES ASSUME IInv, [Next]_vars PROVE IInv'
    OBVIOUS
  <2>1. CASE UNCHANGED vars
    <3>1. /\ heap' = heap /\ mem' = mem /\ dest' = dest /\ copies' = copies
          /\ origin' = origin /\ statics' = statics /\ stacks' = stacks
          /\ handles' = handles /\ pending' = pending /\ pc' = pc /\ idx' = idx
          /\ scan' = scan
      BY <2>1 DEF vars
    <3>2. WaitingStatics' = WaitingStatics /\ WaitingStacks' = WaitingStacks
      BY <3>1 DEF WaitingStatics, WaitingStacks
    <3>3. pc \notin {"classes", "stacks", "natives"} => pending = {}
      BY DEF IInv, RootsKept
    <3>4. FieldsFollow(mem, copies, scan, idx)'
      <4>1. FieldsFollow(mem', copies', scan', idx')
        BY <3>1 DEF IInv
      <4> QED BY <3>1, <4>1, FieldsPrimed
    <3>5. Control'
      BY <3>1 DEF IInv, Control, HeaderOf
    <3> QED BY <3>1, <3>2, <3>3, <3>4, <3>5, NothingWritten DEF IInv
  <2>2. CASE Next
    <3>1. heap' = heap /\ Step
      BY <2>2 DEF Next
    <3>2. CASE TrackClassPointer
      BY <3>1, <3>2, StaticsStep
    <3>3. CASE TrackStackPointer
      BY <3>1, <3>3, StacksStep
    <3>4. CASE \E h \in Handles : TrackNativePointer(h)
      BY <3>1, <3>4, NativesStep
    <3>5. CASE ClassesDone \/ StacksDone \/ NativesDone
      BY <3>1, <3>5, RootsDoneStep
    <3>6. CASE CleanupField
      BY <3>1, <3>6, FieldStep
    <3>7. CASE CleanupNext
      BY <3>1, <3>7, NextStep
    <3>9. CASE CleanupTornField
      BY <3>1, <3>9, TornStep
    <3>8. CASE CleanupWild \/ CleanupDone
      BY <3>1, <3>8, EndStep
    <3> QED BY <3>1, <3>2, <3>3, <3>4, <3>5, <3>6, <3>7, <3>8, <3>9 DEF Step
  <2> QED BY <2>1, <2>2
<1> QED BY <1>1, <1>2, PTL DEF Spec

(* No object is copied twice, the copies lie one after another and never    *)
(* need more than the space the prologue commits, and the scan walks from   *)
(* one to the next, unless an object that is not roomy was copied.          *)
THEOREM CopiesStayInPlace == Spec => []CopiesInPlace
<1>1. IInv => CopiesInPlace
  <2> SUFFICES ASSUME IInv PROVE CopiesInPlace
    OBVIOUS
  <2>1. heap \in Layouts /\ FromSpace(mem, copies) /\ Places(dest, copies)
        /\ Control /\ RootsKept
    BY DEF IInv, Control, Space
  <2>2. /\ Len(copies) \in Nat /\ dest \in Nat /\ ToStart \in Nat /\ FromUsed \in Nat
        /\ dest >= ToStart /\ dest <= ToStart + FromUsed
    BY <2>1, PlaceFacts
  <2>3. \A k \in 1 .. Len(copies) :
          /\ copies[k].of \in Objects /\ copies[k].at \in Nat
          /\ Size(copies[k].of) \in Nat /\ copies[k].at >= ToStart + 8
          /\ copies[k].at + Size(copies[k].of) <= dest
    BY <2>1, PlaceFacts
  <2>4. TypeOK
    <3>1. scan \in {0} \cup (ToStart + 8 .. ToStart + FromUsed + 8)
      <4>1. ASSUME NEW k \in 1 .. Len(copies)
            PROVE  copies[k].at \in ToStart + 8 .. ToStart + FromUsed + 8
        <5>1. PICK c, z : c = copies[k].at /\ z = Size(copies[k].of)
          OBVIOUS
        <5>2. c \in Nat /\ z \in Nat /\ c >= ToStart + 8 /\ c + z <= dest
          BY <2>3, <5>1
        <5>3. c \in ToStart + 8 .. ToStart + FromUsed + 8
          BY <2>2, <5>2
        <5> QED BY <5>1, <5>3
      <4>2. dest + 8 \in ToStart + 8 .. ToStart + FromUsed + 8
        BY <2>2
      <4> QED BY <2>1, <4>1, <4>2 DEF Control
    <3>2. pending \subseteq DOMAIN handles
      BY <2>1 DEF RootsKept, SlotsFollow
    <3>3. Copied \subseteq Objects
      BY <2>3 DEF Copied
    <3>4. dest \in ToStart .. ToStart + FromUsed
      BY <2>2
    <3>5. DOMAIN mem = Addresses
      BY <2>1 DEF FromSpace
    <3>6. /\ pc \in {"classes", "stacks", "natives", "cleanup", "done", "wild"}
          /\ idx \in Nat
      BY <2>1 DEF Control
    <3> QED BY <3>1, <3>2, <3>3, <3>4, <3>5, <3>6 DEF TypeOK
  <2>5. CopiesFit
    <3>1. ASSUME NEW j \in 1 .. Len(copies), NEW k \in 1 .. Len(copies),
                 copies[j].of = copies[k].of
          PROVE  j = k
      <4>1. ~(j < k) /\ ~(k < j)
        BY <2>1, <3>1 DEF Places
      <4>2. j \in Int /\ k \in Int
        OBVIOUS
      <4> QED BY <4>1, <4>2
    <3>2. \A k \in 1 .. Len(copies) : CopyEnd(k) = copies[k].at + Size(copies[k].of)
      BY DEF CopyEnd, Size
    <3>3. ASSUME NEW k \in 1 .. Len(copies)
          PROVE  copies[k].at = 8 + (IF k = 1 THEN ToStart ELSE CopyEnd(k - 1))
      <4>1. copies[k].at = IF k = 1 THEN ToStart + 8
                           ELSE copies[k - 1].at + Size(copies[k - 1].of) + 8
        BY <2>1 DEF Places
      <4>2. CASE k = 1
        BY <2>2, <4>1, <4>2
      <4>3. CASE k # 1
        <5>1. k - 1 \in 1 .. Len(copies)
          BY <2>2, <4>3
        <5>2. PICK c, z : c = copies[k - 1].at /\ z = Size(copies[k - 1].of)
          OBVIOUS
        <5>3. c \in Nat /\ z \in Nat /\ CopyEnd(k - 1) = c + z
          BY <2>3, <3>2, <5>1, <5>2
        <5>4. c + z + 8 = 8 + (c + z)
          BY <5>3
        <5> QED BY <4>1, <4>3, <5>2, <5>3, <5>4
      <4> QED BY <4>2, <4>3
    <3>4. dest = IF copies = <<>> THEN ToStart ELSE CopyEnd(Len(copies))
      <4>1. CASE copies = <<>>
        BY <2>1, <4>1 DEF Places
      <4>2. CASE copies # <<>>
        <5>1. Len(copies) # 0 /\ Len(copies) \in 1 .. Len(copies)
          <6>1. copies \in Seq([of : Objects, at : Nat])
            BY <2>1 DEF Places
          <6>2. Len(copies) # 0
            BY <4>2, <6>1, EmptySeq
          <6> QED BY <2>2, <6>2
        <5>2. dest = copies[Len(copies)].at + Size(copies[Len(copies)].of)
          BY <2>1, <5>1 DEF Places
        <5> QED BY <3>2, <4>2, <5>1, <5>2
      <4> QED BY <4>1, <4>2
    <3> QED BY <2>2, <3>1, <3>3, <3>4 DEF CopiesFit
  <2>6. ScanOnCopies
    <3>1. ASSUME NEW k \in 1 .. Len(copies), ~Roomy(HeaderOf[copies[k].of])
          PROVE  \E c \in Range(copies) : ~Roomy(HeaderOf[c.of])
      <4>1. copies \in Seq([of : Objects, at : Nat])
        BY <2>1 DEF Places
      <4>2. copies[k] \in Range(copies)
        BY <4>1 DEF Range
      <4> QED BY <3>1, <4>2
    <3> QED BY <2>1, <3>1 DEF ScanOnCopies, Control
  <2> QED BY <2>4, <2>5, <2>6 DEF CopiesInPlace
<1> QED BY <1>1, CopyInvariance, PTL

(* Of every object with 8 bytes of fields a copy carries the header, and of *)
(* every object the data but for the last 8 bytes, from the moment it is    *)
(* made: nothing is written over them.                                      *)
THEOREM CopiesStayFaithful == Spec => []CopiesFaithful
<1>1. IInv => CopiesFaithful
  <2> SUFFICES ASSUME IInv, NEW k \in 1 .. Len(copies)
               PROVE  LET o == copies[k].of
                          c == copies[k].at
                          h == HeaderOf[o]
                      IN  /\ FieldBytes(h) >= 8 => mem[c] = h
                          /\ \A i \in 8 * PointerCount(h) + 8 .. FieldBytes(h) - 1 :
                               mem[c + i] = mem[o + i]
    BY DEF CopiesFaithful
  <2>1. ToSpace(mem, dest, copies)
    BY DEF IInv, Space
  <2> QED BY <2>1 DEF ToSpace, Size, Fields
<1> QED BY <1>1, CopyInvariance, PTL

(* Once the collector is done the scan has passed every reference of a copy *)
(* all of whose bytes were copied.                                          *)
LEMMA AllPassed ==
  ASSUME IInv, pc = "done"
  PROVE  \A k \in 1 .. Len(copies) : \A i \in 1 .. Fields(copies[k].of) :
           Whole(copies[k].of, i) =>
             Followed(mem[copies[k].of + 8 * i], mem[copies[k].at + 8 * i], TRUE, copies)
<1> SUFFICES ASSUME NEW k \in 1 .. Len(copies), NEW i \in 1 .. Fields(copies[k].of),
                    Whole(copies[k].of, i)
             PROVE  Followed(mem[copies[k].of + 8 * i], mem[copies[k].at + 8 * i],
                             TRUE, copies)
  OBVIOUS
<1>1. heap \in Layouts /\ Places(dest, copies)
  BY DEF IInv, Control, Space
<1>2. PICK c, z : c = copies[k].at /\ z = Size(copies[k].of)
  OBVIOUS
<1>3. c \in Nat /\ z \in Nat /\ c + z <= dest /\ dest \in Nat
  BY <1>1, <1>2, PlaceFacts
<1>4. scan >= dest /\ scan \in Nat
  <2>1. scan >= dest /\ scan \in {copies[j].at : j \in 1 .. Len(copies)} \cup {dest + 8}
    BY DEF IInv, Control
  <2>2. \A j \in 1 .. Len(copies) : copies[j].at \in Nat
    BY <1>1, PlaceFacts
  <2> QED BY <1>3, <2>1, <2>2
<1>5. c < scan
  <2>1. 8 * i + 8 <= z /\ i \in Int /\ i >= 1
    BY <1>2 DEF Whole
  <2> QED BY <1>3, <1>4, <2>1
<1>6. Passed(scan, idx, copies[k], i)
  BY <1>2, <1>5 DEF Passed
<1>7. Followed(mem[copies[k].of + 8 * i], mem[copies[k].at + 8 * i],
               Passed(scan, idx, copies[k], i), copies)
  BY DEF IInv, FieldsFollow
<1> QED BY <1>6, <1>7 DEF Followed

(* Once the collector is done no root and no reference field of a copy      *)
(* refers to the space the epilogue gives back.                             *)
THEOREM NothingPointsBack == Spec => []NoFromSpaceReference
<1>1. IInv => NoFromSpaceReference
  <2> SUFFICES ASSUME IInv, pc = "done"
               PROVE  /\ \A i \in 1 .. StaticSlots : ~InBounds(statics[i])
                      /\ \A i \in 1 .. StackSlots : ~InBounds(stacks[i])
                      /\ \A h \in DOMAIN handles : ~InBounds(handles[h])
                      /\ \A k \in 1 .. Len(copies) :
                           \A i \in 1 .. PointerCount(HeaderOf[copies[k].of]) :
                             ~InBounds(mem[copies[k].at + 8 * i])
    BY DEF NoFromSpaceReference
  <2>1. heap \in Layouts /\ RootsKept /\ Space(mem, dest, copies) /\ Places(dest, copies)
    BY DEF IInv, Control, Space
  <2>2. WaitingStatics = {} /\ WaitingStacks = {} /\ pending = {}
    BY <2>1 DEF WaitingStatics, WaitingStacks, RootsKept
  <2>3. /\ \A i \in 1 .. StaticSlots : ~InBounds(statics[i])
        /\ \A i \in 1 .. StackSlots : ~InBounds(stacks[i])
        /\ \A h \in DOMAIN handles : ~InBounds(handles[h])
    BY <2>1, <2>2 DEF RootsKept, SlotsFollow, Followed
  <2>4. ASSUME NEW k \in 1 .. Len(copies), NEW i \in 1 .. Fields(copies[k].of)
        PROVE  ~InBounds(mem[copies[k].at + 8 * i])
    <3>1. CASE Whole(copies[k].of, i)
      <4>1. Followed(mem[copies[k].of + 8 * i], mem[copies[k].at + 8 * i], TRUE, copies)
        BY <3>1, AllPassed
      <4> QED BY <4>1 DEF Followed
    <3>2. CASE ~Whole(copies[k].of, i)
      <4>1. PICK x, f, z : x = 8 * i /\ f = Fields(copies[k].of) /\ z = Size(copies[k].of)
        OBVIOUS
      <4>2. f \in Nat /\ z \in Nat /\ 8 * f <= z /\ i \in 1 .. f
        BY <2>1, <4>1, PlaceFacts
      <4>3. x \in 0 .. z /\ x + 8 > z
        BY <3>2, <4>1, <4>2 DEF Whole
      <4>4. Plain(mem[copies[k].at + x])
        BY <2>1, <4>1, <4>3, EndPlain
      <4> QED BY <4>1, <4>4, Spans
    <3> QED BY <3>1, <3>2
  <2> QED BY <2>3, <2>4 DEF Fields
<1> QED BY <1>1, CopyInvariance, PTL

(* Of ordinary objects the collection copies those the roots reach and no   *)
(* other: what was copied is in every closed set that holds what the roots  *)
(* refer to, and once the collector is done it is such a set itself.        *)
THEOREM ReachedAreCopied == Spec => []CopiesReachable
<1>1. IInv => CopiesReachable
  <2> SUFFICES ASSUME IInv, pc = "done", Ordinary
               PROVE  Copied = Reachable
    BY DEF CopiesReachable
  <2>1. /\ heap \in Layouts /\ RootsKept /\ OnlyReached /\ Places(dest, copies)
    BY DEF IInv, Control, Space
  <2>2. Copied = CopiedIn(copies)
    BY DEF Copied, CopiedIn
  <2>3. CopiedIn(copies) \subseteq Objects
    BY <2>1, PlaceFacts DEF CopiedIn
  <2>4. CopiedIn(copies) \subseteq Reachable
    BY <2>1, <2>3 DEF OnlyReached, Reachable
  <2>5. RootTargets \subseteq CopiedIn(copies)
    <3>1. WaitingStatics = {} /\ WaitingStacks = {} /\ pending = {}
      BY <2>1 DEF WaitingStatics, WaitingStacks, RootsKept
    <3>2. /\ \A i \in DOMAIN origin.statics : Kept(origin.statics[i], copies)
          /\ \A i \in DOMAIN origin.stacks : Kept(origin.stacks[i], copies)
          /\ \A h \in DOMAIN origin.handles : Kept(origin.handles[h], copies)
      BY <2>1, <3>1 DEF RootsKept, SlotsFollow, Followed
    <3>3. ASSUME NEW o \in RootTargets
          PROVE  \/ \E i \in DOMAIN origin.statics : Ptr(o) = origin.statics[i]
                 \/ \E i \in DOMAIN origin.stacks : Ptr(o) = origin.stacks[i]
                 \/ \E h \in DOMAIN origin.handles : Ptr(o) = origin.handles[h]
      BY DEF RootTargets, Range
    <3>4. RootTargets \subseteq Objects
      BY DEF RootTargets
    <3>5. ASSUME NEW o \in Objects, NEW w, Kept(w, copies), Ptr(o) = w
          PROVE  o \in CopiedIn(copies)
      BY <3>5 DEF Kept
    <3> QED BY <3>2, <3>3, <3>4, <3>5
  <2>6. Targets(CopiedIn(copies)) \subseteq CopiedIn(copies)
    <3> SUFFICES ASSUME NEW o \in Objects, NEW k \in 1 .. Len(copies),
                        NEW i \in 1 .. PointerCount(HeaderOf[copies[k].of]),
                        mem[copies[k].of + 8 * i] = Ptr(o)
                 PROVE  o \in CopiedIn(copies)
      BY DEF Targets, CopiedIn
    <3>1. PICK p, f, z : p = copies[k].of /\ f = Fields(p) /\ z = Size(p)
      OBVIOUS
    <3>2. p \in Objects /\ f \in Nat /\ z \in Nat /\ i \in 1 .. f
      BY <2>1, <3>1, PlaceFacts DEF Fields
    <3>3. 8 * f + 8 <= z
      BY <3>1, <3>2 DEF Ordinary, Roomy, Size, Fields
    <3>4. 8 * i + 8 <= z
      BY <3>2, <3>3
    <3>5. Whole(copies[k].of, i) /\ i \in 1 .. Fields(copies[k].of)
      BY <3>1, <3>2, <3>4 DEF Whole
    <3>6. Followed(mem[copies[k].of + 8 * i], mem[copies[k].at + 8 * i], TRUE, copies)
      BY <3>5, AllPassed
    <3> QED BY <3>6 DEF Followed, Kept
  <2>7. Reachable \subseteq CopiedIn(copies)
    BY <2>3, <2>5, <2>6 DEF Reachable
  <2> QED BY <2>2, <2>4, <2>7
<1> QED BY <1>1, CopyInvariance, PTL
=============================================================================
