---------------------------- MODULE VmStackProofs ----------------------------
(***************************************************************************)
(* The frames of the stack are sound, whatever the methods, their layouts   *)
(* and the size of the stack: no write of a prologue, a return or an        *)
(* instruction touches the header of a live frame.  The argument needs no   *)
(* more of compiled code than that its offsets are not negative: a write    *)
(* past the end of its own frame lands where no frame is.                   *)
(*                                                                          *)
(* What lies within a frame needs that its sections lie in order            *)
(* (LayoutAssumption): then the slots the collector takes for pointers are  *)
(* the pointers the prologue cleared or later stores of whole objects, and  *)
(* no argument is placed over another.                                      *)
(***************************************************************************)
EXTENDS VmStack, FiniteSetTheorems, SequenceTheorems, WellFoundedInduction, TLAPS

(* The headers hold what calls write there.                                 *)
HeadersTyped ==
  \A i \in 1 .. Len(frames) :
    /\ Frame(i).total \in Nat
    /\ i > 1 => Activation(Frame(i)) \in Activations

(* FramesLinked speaks of neighbours; a write above one frame has to be     *)
(* known to be above every other below it.                                  *)
FramesApart ==
  \A i, j \in 1 .. Len(frames) : i < j => frames[i] + Frame(i).total <= frames[j]

(* While an invoke runs there is a frame above the root for it to return,   *)
(* unless its prologue ran past the stack and nothing runs any more.        *)
InvokeHasFrame == (depth > 0 /\ ~fault) => Len(frames) > 1

StackInv ==
  /\ TypeOK /\ HeadersIntact /\ FramesLinked
  /\ HeadersTyped /\ FramesApart /\ InvokeHasFrame

HeaderOf(i) == frames[i] .. frames[i] + HeaderSlots - 1

----------------------------------------------------------------------------
(* Where a prologue writes.                                                 *)

(* Every argument is placed past the header of the frame that is pushed.    *)
LEMMA ArgsAboveHeader ==
  ASSUME NEW base \in Nat, NEW b \in Methods, NEW callee \in Methods,
         NEW k \in 1 .. Len(ArgTypes[callee]),
         NEW s \in ArgSlots(base, Bounds(b), ArgTypes[callee], k)
  PROVE  s >= base + HeaderSlots
<1> DEFINE types == ArgTypes[callee]
           before == {j \in 1 .. k - 1 : types[j] = types[k]}
<1>1. types \in Seq(Types) /\ types[k] \in Types
  BY StackAssumption
<1>2. Bounds(b)[types[k]] \in Nat
  BY <1>1, StackAssumption DEF Bounds, Types
<1>3. Cardinality(before) \in Nat
  <2>1. IsFiniteSet(1 .. k - 1)
    BY FS_Interval
  <2>2. IsFiniteSet(before)
    BY <2>1, FS_Subset
  <2> QED
    BY <2>2, FS_CardinalityType
<1>4. Width(types[k]) \in {1, 2} /\ Bytes(types[k]) \in {4, 8}
  BY DEF Width, Bytes
<1>5. ArgOffset(Bounds(b), types, k) = Bounds(b)[types[k]] + Bytes(types[k]) * Cardinality(before)
  BY DEF ArgOffset
<1> DEFINE n == Cardinality(before)
           w == Bytes(types[k])
           o == Bounds(b)[types[k]]
<1>6. w * n \in Nat
  BY <1>3, <1>4
<1>7. ArgOffset(Bounds(b), types, k) \in Nat
  <2> HIDE DEF n, w, o
  <2>1. ArgOffset(Bounds(b), types, k) = o + w * n
    BY <1>5 DEF n, w, o
  <2>2. o \in Nat
    BY <1>2 DEF o
  <2> QED
    BY <2>1, <2>2, <1>6
<1> QED
  BY <1>4, <1>7, StackAssumption DEF ArgSlots, DataOf

(* A slot no argument is placed in stays as it was.                         *)
LEMMA NoArgumentWritten ==
  ASSUME NEW m, NEW base, NEW bounds, NEW types, NEW args, NEW s \in Slots,
         {k \in 1 .. Len(types) : s \in ArgSlots(base, bounds, types, k)} = {}
  PROVE  WithArgs(m, base, bounds, types, args)[s] = m[s]
BY Zenon DEF WithArgs

(* The memory after a prologue: as it was below the new frame, and its      *)
(* header at the beginning of it.                                           *)
HeaderPlaced(m, base, h, n) ==
  /\ DOMAIN n = Slots
  /\ \A s \in Slots :
       /\ s < base => n[s] = m[s]
       /\ s = base => n[s] = h
       /\ s \in base + 1 .. base + HeaderSlots - 1 => n[s] = Filler

(* Arguments and cleared pointers fall above the header that is written last.*)
LEMMA PrologueMemory ==
  ASSUME NEW base \in Nat, NEW b \in Methods, NEW callee \in Methods,
         NEW args, NEW h, NEW m, NEW n,
         n = WithHeader(WithNulls(WithArgs(m, base, Bounds(b), ArgTypes[callee], args),
                                  base, callee), base, h)
  PROVE  HeaderPlaced(m, base, h, n)
<1> DEFINE a == WithArgs(m, base, Bounds(b), ArgTypes[callee], args)
           c == WithNulls(a, base, callee)
           types == ArgTypes[callee]
<1>1. ASSUME NEW s \in Slots, s < base PROVE a[s] = m[s]
  <2> DEFINE writers == {k \in 1 .. Len(types) : s \in ArgSlots(base, Bounds(b), types, k)}
  <2>1. writers = {}
    <3>1. SUFFICES ASSUME NEW k \in 1 .. Len(types), s \in ArgSlots(base, Bounds(b), types, k)
                   PROVE  FALSE
      OBVIOUS
    <3>2. s >= base + HeaderSlots
      BY <3>1, ArgsAboveHeader
    <3> QED
      BY <1>1, <3>2, StackAssumption DEF Slots
  <2> QED
    BY <2>1, NoArgumentWritten
<1>2. \A s \in Slots : s < base => c[s] = a[s]
  BY StackAssumption DEF WithNulls, NulledOffsets, DataOf, Slots
<1>3. n = WithHeader(c, base, h)
  OBVIOUS
<1> HIDE DEF a, c
<1>4. HeaderSlots \in Nat \ {0} /\ \A s \in Slots : s \in Nat
  BY StackAssumption DEF Slots
<1>5. DOMAIN n = Slots /\ \A s \in Slots : s < base => n[s] = m[s]
  <2>1. \A s \in Slots : s < base => s # base /\ s \notin base + 1 .. base + HeaderSlots - 1
    BY <1>4
  <2> QED
    BY <1>1, <1>2, <1>3, <2>1 DEF WithHeader
<1>6. \A s \in Slots : /\ s = base => n[s] = h
                       /\ s \in base + 1 .. base + HeaderSlots - 1 => n[s] = Filler
  <2>1. \A s \in Slots : s \in base + 1 .. base + HeaderSlots - 1 => s # base
    BY <1>4
  <2> QED
    BY <1>3, <2>1 DEF WithHeader
<1> QED
  BY <1>5, <1>6 DEF HeaderPlaced
----------------------------------------------------------------------------
(* What a step owes the invariant when it leaves the headers of the frames  *)
(* that stay live as they are.                                              *)

(* A frame begins with its header, in the stack.                            *)
LEMMA HeaderBegins ==
  ASSUME StackInv, NEW i \in 1 .. Len(frames)
  PROVE  frames[i] \in HeaderOf(i) /\ frames[i] \in Slots
<1>1. frames[i] \in Slots
  BY DEF StackInv, TypeOK
<1> QED
  BY <1>1, StackAssumption DEF HeaderOf, Slots

(* The header of a frame lies within the stack, above the frames below it.  *)
LEMMA HeadersWithin ==
  ASSUME StackInv, NEW i \in 1 .. Len(frames), NEW s \in HeaderOf(i)
  PROVE  /\ s \in Slots /\ frames[i] \in HeaderOf(i) /\ frames[i] \in Nat
         /\ s < Top
         /\ i < Len(frames) => s < current
<1>1. frames[i] \in Slots /\ frames[i] \in Nat
  <2>1. frames[i] \in Slots
    BY DEF StackInv, TypeOK
  <2> QED
    BY <2>1 DEF Slots
<1>2. /\ Frame(i).total \in Nat /\ Frame(i).total >= HeaderSlots
      /\ frames[i] + Frame(i).total <= MaxSlots
  BY DEF StackInv, HeadersTyped, FramesLinked
<1>3. Len(frames) \in Nat \ {0} /\ current = frames[Len(frames)]
  BY DEF StackInv, TypeOK, FramesLinked
<1>4. s \in Nat /\ s < frames[i] + Frame(i).total
  BY <1>1, <1>2, StackAssumption DEF HeaderOf
<1>5. s \in Slots /\ frames[i] \in HeaderOf(i)
  BY <1>1, <1>2, <1>4, StackAssumption DEF HeaderOf, Slots
<1>6. i < Len(frames) => s < current
  <2>1. SUFFICES ASSUME i < Len(frames) PROVE s < current
    OBVIOUS
  <2>2. frames[i] + Frame(i).total <= frames[Len(frames)]
    BY <2>1, <1>3 DEF StackInv, FramesApart
  <2>3. current \in Nat
    BY DEF StackInv, TypeOK, Slots
  <2> QED
    BY <2>2, <2>3, <1>1, <1>2, <1>3, <1>4
<1>7. s < Top
  <2>1. current \in Nat /\ Current.total \in Nat /\ Current.total >= HeaderSlots
    BY <1>3 DEF StackInv, TypeOK, Slots, HeadersTyped, FramesLinked, Frame, Current
  <2>2. CASE i = Len(frames)
    BY <2>2, <1>3, <1>4 DEF Top, Current, Frame
  <2>3. CASE i < Len(frames)
    BY <2>3, <1>6, <1>4, <2>1 DEF Top
  <2> QED
    BY <2>2, <2>3, <1>3
<1> QED
  BY <1>1, <1>5, <1>6, <1>7

(* The end of the last frame is a slot number.                              *)
LEMMA TopIsNatural ==
  ASSUME StackInv PROVE Top \in Nat /\ Len(frames) \in Nat \ {0} /\ current = frames[Len(frames)]
<1>1. Len(frames) \in Nat \ {0} /\ current = frames[Len(frames)]
  BY DEF StackInv, TypeOK, FramesLinked
<1>2. current \in Nat
  BY DEF StackInv, TypeOK, Slots
<1>3. Current.total \in Nat
  BY <1>1 DEF StackInv, HeadersTyped, Frame, Current
<1> QED
  BY <1>1, <1>2, <1>3 DEF Top

(* Everything but the headers may change: no part of the invariant sees it. *)
LEMMA HeadersKept ==
  ASSUME StackInv, UNCHANGED <<current, depth, frames, fault>>,
         DOMAIN mem' = Slots,
         \A i \in 1 .. Len(frames) : \A s \in HeaderOf(i) : mem'[s] = mem[s]
  PROVE  StackInv'
<1>1. \A i \in 1 .. Len(frames) : Frame(i)' = Frame(i)
  BY HeaderBegins DEF Frame
<1>2. HeadersIntact'
  <2>1. SUFFICES ASSUME NEW i \in 1 .. Len(frames)
                 PROVE  /\ Frame(i)'.kind = "header"
                        /\ \A s \in frames[i] + 1 .. frames[i] + HeaderSlots - 1 : mem'[s] = Filler
    BY DEF HeadersIntact
  <2>2. \A s \in frames[i] + 1 .. frames[i] + HeaderSlots - 1 : s \in HeaderOf(i)
    BY HeadersWithin, StackAssumption DEF HeaderOf, StackInv, TypeOK, Slots
  <2> QED
    BY <1>1, <2>2 DEF StackInv, HeadersIntact
<1>3. FramesLinked'
  <2>1. frames'[1] = 0 /\ current' = frames'[Len(frames')]
    BY DEF StackInv, FramesLinked
  <2>2. ASSUME NEW i \in 2 .. Len(frames)
        PROVE  Frame(i)'.previous = frames[i - 1] /\ frames[i] = frames[i - 1] + Frame(i - 1)'.total
    <3>1. Frame(i)' = Frame(i) /\ Frame(i - 1)' = Frame(i - 1)
      BY <1>1, TopIsNatural
    <3> QED
      BY <3>1 DEF StackInv, FramesLinked
  <2>3. ASSUME NEW i \in 1 .. Len(frames)
        PROVE  Frame(i)'.total >= HeaderSlots /\ frames[i] + Frame(i)'.total <= MaxSlots
    BY <1>1 DEF StackInv, FramesLinked
  <2> QED
    BY <2>1, <2>2, <2>3 DEF FramesLinked
<1>4. HeadersTyped' /\ FramesApart' /\ InvokeHasFrame'
  BY <1>1 DEF StackInv, HeadersTyped, FramesApart, InvokeHasFrame
<1> QED
  BY <1>2, <1>3, <1>4 DEF StackInv, TypeOK

(* A step that changes nothing but results.                                 *)
LEMMA HeadersUntouched ==
  ASSUME StackInv, UNCHANGED <<mem, current, depth, frames, fault>>
  PROVE  StackInv'
BY HeadersKept DEF StackInv, TypeOK

(* The frame a push adds.                                                   *)
Pushed(callee, offset, address) ==
  /\ Top \in Slots /\ Top + FrameSlots(callee) <= MaxSlots
  /\ HeaderPlaced(mem, Top, Header(current, callee, offset, address, FrameSlots(callee)), mem')
  /\ current' = Top /\ frames' = Append(frames, Top)
  /\ fault' = fault

(* A prologue adds a frame or leaves the stack behind its end.              *)
LEMMA PrologueEffect ==
  ASSUME StackInv, NEW callee \in Methods, NEW b \in Methods, NEW args, NEW offset, NEW address,
         Prologue(callee, Bounds(b), args, offset, address)
  PROVE  \/ Pushed(callee, offset, address)
         \/ UNCHANGED <<mem, current, frames>> /\ fault' = TRUE
<1>1. CASE Overruns(Top, Bounds(b), ArgTypes[callee], callee)
  BY <1>1 DEF Prologue
<1>2. CASE ~Overruns(Top, Bounds(b), ArgTypes[callee], callee)
  <2> DEFINE h == Header(current, callee, offset, address, FrameSlots(callee))
  <2>1. Top \in Nat
    BY TopIsNatural
  <2>2. Top + FrameSlots(callee) <= MaxSlots
    BY DEF Prologue, CanAdvance
  <2>3. FrameSlots(callee) \in Nat /\ FrameSlots(callee) > 0
    BY StackAssumption DEF FrameSlots
  <2>4. Top \in Slots
    BY <2>1, <2>2, <2>3, StackAssumption DEF Slots
  <2>5. /\ mem' = WithHeader(WithNulls(WithArgs(mem, Top, Bounds(b), ArgTypes[callee], args),
                                      Top, callee), Top, h)
        /\ current' = Top /\ frames' = Append(frames, Top) /\ fault' = fault
    BY <1>2 DEF Prologue
  <2>6. PICK base \in Nat : base = Top
    BY <2>1
  <2>7. PICK m, n : m = mem /\ n = mem'
    OBVIOUS
  <2>8. n = WithHeader(WithNulls(WithArgs(m, base, Bounds(b), ArgTypes[callee], args),
                                 base, callee), base, h)
    BY <2>5, <2>6, <2>7
  <2>9. HeaderPlaced(m, base, h, n)
    <3> HIDE DEF h
    <3> QED
      BY <2>8, PrologueMemory
  <2> QED
    BY <2>2, <2>4, <2>5, <2>6, <2>7, <2>9 DEF Pushed
<1> QED
  BY <1>1, <1>2

(* A push adds a frame above the others and leaves them as they are.        *)
LEMMA PushKeeps ==
  ASSUME StackInv, NEW callee \in Methods, NEW offset \in ReturnOffsets \cup {0},
         NEW address \in ReturnAddresses \cup {0}, Pushed(callee, offset, address),
         depth' \in 0 .. 1
  PROVE  StackInv'
<1> DEFINE h == Header(current, callee, offset, address, FrameSlots(callee))
           n == Len(frames)
<1>1. n \in Nat \ {0} /\ current = frames[n] /\ Top \in Nat /\ Top \in Slots
  BY TopIsNatural DEF Pushed
<1>2. /\ Len(frames') = n + 1
      /\ \A i \in 1 .. n : frames'[i] = frames[i]
      /\ frames'[n + 1] = Top /\ frames' \in Seq(Slots)
  BY <1>1 DEF Pushed, StackInv, TypeOK
<1>3. ASSUME NEW i \in 1 .. n
      PROVE  /\ Frame(i)' = Frame(i)
             /\ \A s \in HeaderOf(i) : mem'[s] = mem[s]
  <2>1. \A s \in HeaderOf(i) : mem'[s] = mem[s]
    BY HeadersWithin DEF Pushed, HeaderPlaced
  <2> QED
    BY <1>2, <2>1, HeaderBegins DEF Frame
<1>4. ASSUME NEW i, i = n + 1
      PROVE  Frame(i)' = h /\ frames'[i] = Top
  <2>1. mem'[Top] = h
    BY <1>1 DEF Pushed, HeaderPlaced
  <2>2. frames'[i] = Top
    BY <1>2, <1>4
  <2> QED
    BY <2>1, <2>2 DEF Frame
<1>5. h.total = FrameSlots(callee) /\ h.previous = current /\ h.kind = "header"
  BY DEF Header
<1>6. FrameSlots(callee) \in Nat /\ FrameSlots(callee) >= HeaderSlots
  BY StackAssumption DEF FrameSlots
<1>7. TypeOK'
  BY <1>2, <1>1 DEF TypeOK, StackInv, Pushed, HeaderPlaced
<1>8. HeadersIntact'
  <2>1. SUFFICES ASSUME NEW i \in 1 .. n + 1
                 PROVE  /\ Frame(i)'.kind = "header"
                        /\ \A s \in frames'[i] + 1 .. frames'[i] + HeaderSlots - 1 :
                             mem'[s] = Filler
    BY <1>2 DEF HeadersIntact
  <2>2. CASE i \in 1 .. n
    <3>1. \A s \in frames[i] + 1 .. frames[i] + HeaderSlots - 1 : s \in HeaderOf(i)
      BY <2>2, HeaderBegins, StackAssumption DEF HeaderOf, Slots
    <3> QED
      BY <1>2, <1>3, <2>2, <3>1 DEF StackInv, HeadersIntact
  <2>3. CASE i = n + 1
    <3>1. \A s \in Top + 1 .. Top + HeaderSlots - 1 : s \in Slots
      BY <1>1, <1>6, StackAssumption DEF Pushed, Slots
    <3>2. \A s \in Top + 1 .. Top + HeaderSlots - 1 : mem'[s] = Filler
      BY <3>1 DEF Pushed, HeaderPlaced
    <3>3. Frame(i)' = h /\ frames'[i] = Top
      BY <1>4, <2>3
    <3> HIDE DEF h
    <3> QED
      BY <1>5, <3>2, <3>3
  <2> QED
    BY <2>2, <2>3, <1>1
<1>9. FramesLinked'
  <2>1. frames'[1] = 0 /\ current' = frames'[Len(frames')]
    BY <1>1, <1>2 DEF StackInv, FramesLinked, Pushed
  <2>2. ASSUME NEW i \in 2 .. n + 1
        PROVE  /\ Frame(i)'.previous = frames'[i - 1]
               /\ frames'[i] = frames'[i - 1] + Frame(i - 1)'.total
    <3>1. CASE i \in 2 .. n
      <4>1. i \in 1 .. n /\ i - 1 \in 1 .. n
        BY <3>1, <1>1
      <4>2. /\ Frame(i)' = Frame(i) /\ Frame(i - 1)' = Frame(i - 1)
            /\ frames'[i] = frames[i] /\ frames'[i - 1] = frames[i - 1]
        BY <4>1, <1>2, <1>3
      <4> QED
        BY <3>1, <4>2 DEF StackInv, FramesLinked
    <3>2. CASE i = n + 1
      <4>1. i - 1 = n /\ n \in 1 .. n
        BY <3>2, <1>1
      <4>2. Frame(i - 1)' = Current
        BY <4>1, <1>1, <1>3 DEF Frame, Current
      <4>3. Frame(i)' = h /\ frames'[i] = Top
        BY <1>4, <3>2
      <4>4. frames'[i - 1] = current
        BY <4>1, <1>1, <1>2
      <4> HIDE DEF h
      <4> QED
        BY <4>2, <4>3, <4>4, <1>5 DEF Top
    <3> QED
      BY <3>1, <3>2, <1>1
  <2>3. ASSUME NEW i \in 1 .. n + 1
        PROVE  Frame(i)'.total >= HeaderSlots /\ frames'[i] + Frame(i)'.total <= MaxSlots
    <3>1. CASE i \in 1 .. n
      BY <3>1, <1>2, <1>3 DEF StackInv, FramesLinked
    <3>2. CASE i = n + 1
      <4>1. Frame(i)' = h /\ frames'[i] = Top
        BY <1>4, <3>2
      <4>2. Top + FrameSlots(callee) <= MaxSlots
        BY DEF Pushed
      <4> HIDE DEF h
      <4> QED
        BY <4>1, <4>2, <1>5, <1>6
    <3> QED
      BY <3>1, <3>2, <1>1
  <2> QED
    BY <2>1, <2>2, <2>3, <1>2 DEF FramesLinked
<1>10. HeadersTyped'
  <2>1. SUFFICES ASSUME NEW i \in 1 .. n + 1
                 PROVE  Frame(i)'.total \in Nat /\ (i > 1 => Activation(Frame(i)') \in Activations)
    BY <1>2 DEF HeadersTyped
  <2>2. CASE i \in 1 .. n
    BY <2>2, <1>3 DEF StackInv, HeadersTyped
  <2>3. CASE i = n + 1
    <3>1. Activation(h) \in Activations
      BY DEF Activation, Activations, Header
    <3>2. Frame(i)' = h
      BY <1>4, <2>3
    <3> HIDE DEF h
    <3> QED
      BY <3>1, <3>2, <1>5, <1>6
  <2> QED
    BY <2>2, <2>3, <1>1
<1>11. FramesApart'
  <2>1. SUFFICES ASSUME NEW i \in 1 .. n + 1, NEW j \in 1 .. n + 1, i < j
                 PROVE  frames'[i] + Frame(i)'.total <= frames'[j]
    BY <1>2 DEF FramesApart
  <2>2. i \in 1 .. n /\ frames'[i] = frames[i] /\ Frame(i)' = Frame(i)
    BY <2>1, <1>1, <1>2, <1>3
  <2>3. CASE j \in 1 .. n
    BY <2>1, <2>2, <2>3, <1>2 DEF StackInv, FramesApart
  <2>4. CASE j = n + 1
    <3>1. CASE i = n
      BY <3>1, <2>2, <2>4, <1>1, <1>2 DEF Top, Current, Frame
    <3>2. CASE i < n
      <4>1. frames[i] + Frame(i).total <= current
        BY <3>2, <2>2, <1>1 DEF StackInv, FramesApart
      <4>2. current \in Nat /\ Current.total \in Nat /\ frames[i] \in Nat /\ Frame(i).total \in Nat
        <5>1. current \in Nat /\ frames[i] \in Nat
          BY <2>2, HeaderBegins, <1>1 DEF StackInv, TypeOK, Slots
        <5>2. Frame(n).total \in Nat /\ Frame(i).total \in Nat
          BY <2>2, <1>1 DEF StackInv, HeadersTyped
        <5> QED
          BY <5>1, <5>2, <1>1 DEF Frame, Current
      <4> QED
        BY <4>1, <4>2, <2>2, <2>4, <1>2 DEF Top
    <3> QED
      BY <3>1, <3>2, <2>2, <1>1
  <2> QED
    BY <2>3, <2>4, <1>1
<1>12. InvokeHasFrame'
  BY <1>1, <1>2 DEF InvokeHasFrame
<1> QED
  BY <1>7, <1>8, <1>9, <1>10, <1>11, <1>12 DEF StackInv

----------------------------------------------------------------------------
(* The steps.                                                               *)

(* While an invoke runs, the current frame is one of a method.              *)
LEMMA RunsAMethod ==
  ASSUME StackInv, depth > 0, ~fault
  PROVE  /\ Len(frames) - 1 \in 1 .. Len(frames) /\ Len(frames) > 1
         /\ Current = Frame(Len(frames))
         /\ Activation(Current) \in Activations /\ Current.method \in Methods
<1>1. Len(frames) \in Nat /\ Len(frames) > 1 /\ current = frames[Len(frames)]
  BY TopIsNatural DEF StackInv, InvokeHasFrame
<1>2. Current = Frame(Len(frames))
  BY <1>1 DEF Current, Frame
<1>3. Activation(Current) \in Activations
  BY <1>1, <1>2 DEF StackInv, HeadersTyped
<1>4. Activation(Current).method = Current.method
  BY DEF Activation
<1> QED
  BY <1>1, <1>2, <1>3, <1>4 DEF Activations

(* A store of a method falls in no header: frames lie apart.                *)
LEMMA WriteBackLeavesHeaders ==
  ASSUME StackInv, NEW t \in Types, NEW offset \in Variables(Current.method, t),
         WriteBack(t, offset)
  PROVE  \A i \in 1 .. Len(frames) : \A s \in HeaderOf(i) : mem'[s] = mem[s]
<1>1. /\ depth > 0 /\ ~fault /\ UNCHANGED <<current, depth, fault, frames>>
      /\ mem' = Written(mem, DataOf(current, offset), Cells(t, 0))
  BY DEF WriteBack
<1>2. offset \in Nat
  <2>1. Current.method \in Methods
    BY <1>1, RunsAMethod
  <2>2. /\ Bounds(Current.method)[t] \in Nat /\ SectionEnd(Current.method, t) \in Nat
        /\ Width(t) \in Nat
    BY <2>1, StackAssumption DEF Bounds, SectionEnd, Types, Width
  <2> QED
    BY <2>2 DEF Variables
<1>3. \A s \in Slots : s < current + HeaderSlots => mem'[s] = mem[s]
  <2>1. current \in Nat
    BY DEF StackInv, TypeOK, Slots
  <2>2. \A s \in Slots : s < current + HeaderSlots =>
           s \notin DataOf(current, offset) .. DataOf(current, offset) + Len(Cells(t, 0)) - 1
    <3>1. DataOf(current, offset) \in Nat /\ DataOf(current, offset) >= current + HeaderSlots
      BY <2>1, <1>2, StackAssumption DEF DataOf
    <3> QED
      BY <3>1, <2>1, StackAssumption DEF Slots
  <2> QED
    BY <1>1, <2>2, Zenon DEF Written
<1>4. ASSUME NEW i \in 1 .. Len(frames), NEW s \in HeaderOf(i)
      PROVE  mem'[s] = mem[s]
  <2>1. s \in Slots /\ (i < Len(frames) => s < current)
    BY HeadersWithin
  <2>2. Len(frames) \in Nat /\ current = frames[Len(frames)] /\ current \in Nat /\ s \in Nat
    BY <2>1, TopIsNatural DEF StackInv, TypeOK, Slots
  <2>3. CASE i < Len(frames)
    BY <2>1, <2>2, <2>3, <1>3, StackAssumption
  <2>4. CASE i = Len(frames)
    <3>1. s < current + HeaderSlots
      BY <2>2, <2>4, StackAssumption DEF HeaderOf
    <3> QED
      BY <3>1, <2>1, <1>3
  <2> QED
    BY <2>2, <2>3, <2>4
<1> QED
  BY <1>4

(* A store of a method.                                                     *)
LEMMA WriteBackKeeps ==
  ASSUME StackInv, NEW t \in Types, NEW offset \in Variables(Current.method, t),
         WriteBack(t, offset)
  PROVE  StackInv'
<1>1. UNCHANGED <<current, depth, fault, frames>> /\ DOMAIN mem' = Slots
  BY DEF WriteBack, Written
<1> QED
  BY <1>1, WriteBackLeavesHeaders, HeadersKept

(* invoke returns its own frame: nothing is written.                        *)
LEMMA ReturnEffect ==
  ASSUME StackInv, NEW t, Return(t)
  PROVE  /\ depth' = 0 /\ mem' = mem /\ fault' = fault
         /\ current' = frames[Len(frames) - 1]
         /\ frames' = SubSeq(frames, 1, Len(frames) - 1)
<1>1. depth = 1 /\ ~fault
  BY DEF StackInv, TypeOK, Return
<1>2. Current.previous = frames[Len(frames) - 1]
  <2>1. Len(frames) \in 2 .. Len(frames) /\ Current = Frame(Len(frames))
    BY <1>1, RunsAMethod, TopIsNatural
  <2> QED
    BY <2>1 DEF StackInv, FramesLinked
<1>3. depth - 1 = 0
  BY <1>1
<1> QED
  BY <1>1, <1>2, <1>3, Zenon DEF Return

(* A return.                                                                *)
LEMMA ReturnKeeps ==
  ASSUME StackInv, NEW t, Return(t)
  PROVE  StackInv'
<1> DEFINE n == Len(frames) - 1
<1>1. /\ depth' = 0 /\ mem' = mem /\ fault' = fault
      /\ current' = frames[n] /\ frames' = SubSeq(frames, 1, n)
  BY ReturnEffect
<1>2. n \in Nat /\ n > 0 /\ Len(frames) = n + 1
  <2>1. depth > 0 /\ ~fault
    BY DEF Return
  <2> QED
    BY <2>1, RunsAMethod, TopIsNatural
<1>3. frames \in Seq(Slots)
  BY DEF StackInv, TypeOK
<1>4. /\ frames' \in Seq(Slots) /\ Len(frames') = n
      /\ \A i \in 1 .. n : frames'[i] = frames[i]
  BY <1>1, <1>2, <1>3
<1>5. \A i \in 1 .. n : i \in 1 .. Len(frames)
  BY <1>2
<1>6. \A i \in 1 .. n : Frame(i)' = Frame(i)
  BY <1>1, <1>4 DEF Frame
<1>7. TypeOK'
  <2>1. frames' # <<>>
    BY <1>2, <1>4
  <2>2. current' \in Slots
    BY <1>1, <1>2, <1>3
  <2> QED
    BY <1>1, <1>4, <2>1, <2>2 DEF TypeOK, StackInv
<1>8. HeadersIntact'
  BY <1>1, <1>4, <1>5, <1>6 DEF StackInv, HeadersIntact
<1>9. FramesLinked'
  <2>1. frames'[1] = 0 /\ current' = frames'[Len(frames')]
    BY <1>1, <1>2, <1>4 DEF StackInv, FramesLinked
  <2>2. ASSUME NEW i \in 2 .. n
        PROVE  /\ Frame(i)'.previous = frames'[i - 1]
               /\ frames'[i] = frames'[i - 1] + Frame(i - 1)'.total
    <3>1. i \in 2 .. Len(frames) /\ i \in 1 .. n /\ i - 1 \in 1 .. n
      BY <1>2
    <3> QED
      BY <3>1, <1>4, <1>6 DEF StackInv, FramesLinked
  <2>3. ASSUME NEW i \in 1 .. n
        PROVE  Frame(i)'.total >= HeaderSlots /\ frames'[i] + Frame(i)'.total <= MaxSlots
    BY <1>4, <1>5, <1>6 DEF StackInv, FramesLinked
  <2> QED
    BY <2>1, <2>2, <2>3, <1>4 DEF FramesLinked
<1>10. HeadersTyped'
  BY <1>4, <1>5, <1>6 DEF StackInv, HeadersTyped
<1>11. FramesApart'
  BY <1>4, <1>5, <1>6 DEF StackInv, FramesApart
<1>12. InvokeHasFrame'
  BY <1>1 DEF InvokeHasFrame
<1> QED
  BY <1>7, <1>8, <1>9, <1>10, <1>11, <1>12 DEF StackInv

(* A push, by native code or by an instruction.                             *)
LEMMA PrologueKeeps ==
  ASSUME StackInv, NEW callee \in Methods, NEW b \in Methods, NEW args,
         NEW offset \in ReturnOffsets \cup {0}, NEW address \in ReturnAddresses \cup {0},
         Prologue(callee, Bounds(b), args, offset, address),
         depth' \in 0 .. 1
  PROVE  StackInv'
<1>1. CASE Pushed(callee, offset, address)
  BY <1>1, PushKeeps
<1>2. CASE UNCHANGED <<mem, current, frames>> /\ fault' = TRUE
  BY <1>2 DEF StackInv, TypeOK, HeadersIntact, FramesLinked, HeadersTyped, FramesApart,
              InvokeHasFrame, Frame
<1> QED
  BY <1>1, <1>2, PrologueEffect

(* Whether a step is a push, and then of what.                              *)
LEMMA PushNativeIsPrologue ==
  ASSUME NEW m \in Methods, PushNative(m)
  PROVE  /\ \E args : Prologue(m, Bounds(m), args, 0, 0)
         /\ depth' \in 0 .. 1
BY DEF PushNative

(* A call of a method is a prologue with the bounds of the caller.          *)
LEMMA PushIsPrologue ==
  ASSUME StackInv, NEW m \in Methods, NEW slots, NEW offset, NEW address,
         Push(m, slots, offset, address)
  PROVE  /\ \E b \in Methods : \E args : Prologue(m, Bounds(b), args, offset, address)
         /\ depth' \in 0 .. 1
<1>1. depth > 0 /\ ~fault /\ depth' = depth
  BY DEF Push
<1>2. Current.method \in Methods
  BY <1>1, RunsAMethod
<1>3. Prologue(m, Bounds(Current.method), CallerCells(ArgTypes[m], slots), offset, address)
  BY DEF Push
<1> QED
  BY <1>1, <1>2, <1>3 DEF StackInv, TypeOK

(* The invariant, for every stack size and any methods.                     *)
THEOREM StackInvariance == Spec => []StackInv
<1>1. Init => StackInv
  <2> SUFFICES ASSUME Init PROVE StackInv
    OBVIOUS
  <2>2. 0 \in Slots /\ HeaderSlots \in Nat \ {0}
    BY StackAssumption DEF Slots
  <2>0. /\ frames = <<0>> /\ current = 0 /\ depth = 0 /\ fault = FALSE
        /\ mem = [s \in Slots |-> IF s = 0 THEN Header(0, NoMethod, 0, 0, HeaderSlots)
                                 ELSE IF s < HeaderSlots THEN Filler ELSE Zero]
    BY DEF Init
  <2>3. Len(frames) = 1 /\ frames[1] = 0 /\ current = 0 /\ depth = 0 /\ fault = FALSE
    BY <2>0
  <2>4. Frame(1) = Header(0, NoMethod, 0, 0, HeaderSlots)
    BY <2>2, <2>3, <2>0 DEF Frame
  <2>5. Frame(1).kind = "header" /\ Frame(1).total = HeaderSlots
    BY <2>4 DEF Header
  <2>6. TypeOK
    <3>1. frames \in Seq(Slots) /\ frames # <<>>
      BY <2>2, <2>0
    <3>2. DOMAIN mem = Slots
      BY <2>0, Zenon
    <3>3. current \in Slots /\ depth \in 0 .. 1
      BY <2>2, <2>3
    <3>4. fault \in BOOLEAN
      BY <2>3
    <3> QED
      BY <3>1, <3>2, <3>3, <3>4, Zenon DEF TypeOK
  <2>7. HeadersIntact
    <3>1. \A s \in 0 + 1 .. 0 + HeaderSlots - 1 : s \in Slots /\ s # 0 /\ s < HeaderSlots
      BY <2>2, StackAssumption DEF Slots
    <3>2. \A s \in 0 + 1 .. 0 + HeaderSlots - 1 : mem[s] = Filler
      BY <3>1, <2>0, Zenon
    <3> QED
      BY <2>3, <2>5, <3>2 DEF HeadersIntact
  <2>8. FramesLinked
    BY <2>2, <2>3, <2>5, StackAssumption DEF FramesLinked
  <2> QED
    BY <2>2, <2>3, <2>5, <2>6, <2>7, <2>8
    DEF StackInv, HeadersTyped, FramesApart, InvokeHasFrame
<1>2. StackInv /\ [Next]_vars => StackInv'
  <2> SUFFICES ASSUME StackInv, [Next]_vars PROVE StackInv'
    OBVIOUS
  <2>1. ASSUME NEW m \in Methods, PushNative(m) PROVE StackInv'
    <3>1. PICK args : Prologue(m, Bounds(m), args, 0, 0)
      BY <2>1, PushNativeIsPrologue
    <3> QED
      BY <2>1, <3>1, PushNativeIsPrologue, PrologueKeeps
  <2>2. ASSUME NEW m \in Methods, PushRefused(m) PROVE StackInv'
    BY <2>2, HeadersUntouched DEF PushRefused
  <2>3. ASSUME NEW m \in Methods, NEW address \in ReturnAddresses, NEW offset \in Destinations,
               NEW slots, Push(m, slots, offset, address)
        PROVE  StackInv'
    <3>0. PICK b \in Methods : \E args : Prologue(m, Bounds(b), args, offset, address)
      BY <2>3, PushIsPrologue
    <3>1. PICK args : Prologue(m, Bounds(b), args, offset, address)
      BY <3>0
    <3>2. offset \in ReturnOffsets
      BY DEF Destinations
    <3>3. depth' \in 0 .. 1
      BY <2>3, PushIsPrologue
    <3> QED
      BY <3>1, <3>2, <3>3, PrologueKeeps
  <2>4. ASSUME NEW t, Return(t) PROVE StackInv'
    BY <2>4, ReturnKeeps
  <2>5. ASSUME NEW t \in Types, NEW offset \in Variables(Current.method, t), WriteBack(t, offset)
        PROVE  StackInv'
    BY <2>5, WriteBackKeeps
  <2>6. CASE UNCHANGED vars
    BY <2>6, HeadersUntouched DEF vars
  <2> QED
    BY <2>1, <2>2, <2>3, <2>4, <2>5, <2>6 DEF Next
<1> QED
  BY <1>1, <1>2, PTL DEF Spec

(* What pop, the return instructions and the collector rely on holds of     *)
(* every stack: FramesSound of memory/ostack.cpp.                           *)
THEOREM FramesStaySound == Spec => []FramesSound
<1>1. StackInv => FramesSound
  BY DEF StackInv, FramesSound
<1> QED
  BY <1>1, StackInvariance, PTL

(* No prologue changes a slot of a frame that is live when it is made.      *)
THEOREM PushLeavesCallers == Spec => PrologueWritesAbove
<1> DEFINE Kept == Len(frames') > Len(frames) =>
                     \A s \in 0 .. current + Current.total - 1 : mem'[s] = mem[s]
<1>1. StackInv /\ [Next]_vars => [Kept]_vars
  <2> SUFFICES ASSUME StackInv, Next PROVE Kept
    OBVIOUS
  <2>1. ASSUME NEW callee, NEW offset, NEW address, Pushed(callee, offset, address)
        PROVE  Kept
    <3>1. \A s \in 0 .. current + Current.total - 1 : s \in Slots /\ s < Top
      <4>1. Top \in Slots /\ current \in Slots
        BY <2>1 DEF Pushed, StackInv, TypeOK
      <4>2. Current.total \in Nat
        BY TopIsNatural DEF StackInv, HeadersTyped, Frame, Current
      <4> QED
        BY <4>1, <4>2, StackAssumption DEF Slots, Top
    <3> QED
      BY <2>1, <3>1 DEF Pushed, HeaderPlaced
  <2>2. ASSUME frames' = frames PROVE Kept
    BY <2>2, TopIsNatural
  <2>3. ASSUME NEW m \in Methods, PushNative(m) PROVE Kept
    <3>1. PICK args : Prologue(m, Bounds(m), args, 0, 0)
      BY <2>3, PushNativeIsPrologue
    <3> QED
      BY <2>1, <2>2, <3>1, PrologueEffect
  <2>4. ASSUME NEW m \in Methods, NEW slots, NEW offset, NEW address, Push(m, slots, offset, address)
        PROVE  Kept
    <3>0. PICK b \in Methods : \E args : Prologue(m, Bounds(b), args, offset, address)
      BY <2>4, PushIsPrologue
    <3>1. PICK args : Prologue(m, Bounds(b), args, offset, address)
      BY <3>0
    <3> QED
      BY <2>1, <2>2, <3>1, PrologueEffect
  <2>5. ASSUME NEW t, Return(t) PROVE Kept
    <3>1. Len(frames) \in Nat /\ Len(frames) > 1 /\ frames \in Seq(Slots)
      BY <2>5, RunsAMethod, TopIsNatural DEF Return, StackInv, TypeOK
    <3>2. Len(frames') = Len(frames) - 1
      BY <2>5, <3>1, ReturnEffect
    <3> QED
      BY <3>1, <3>2
  <2> QED
    BY <2>2, <2>3, <2>4, <2>5 DEF Next, PushRefused, WriteBack
<1> QED
  BY <1>1, StackInvariance, PTL DEF Spec, PrologueWritesAbove

----------------------------------------------------------------------------
(* The refinement: a prologue enters an activation, a return leaves the     *)
(* last, and nothing else can be told from the headers.                     *)

(* The activations the headers hold, one for each frame but the root.       *)
LEMMA CallsAreActivations ==
  ASSUME StackInv
  PROVE  /\ Len(frames) - 1 \in Nat
         /\ Calls \in Seq(Activations) /\ Len(Calls) = Len(frames) - 1
<1>1. Len(frames) - 1 \in Nat
  BY TopIsNatural
<1>2. \A i \in 1 .. Len(frames) - 1 : Activation(Frame(i + 1)) \in Activations
  <2>1. \A i \in 1 .. Len(frames) - 1 : i + 1 \in 1 .. Len(frames) /\ i + 1 > 1
    BY <1>1
  <2> QED
    BY <2>1 DEF StackInv, HeadersTyped
<1> QED
  BY <1>1, <1>2 DEF Calls

(* A sequence that is another and one element more.                         *)
LEMMA AppendByElements ==
  ASSUME NEW S, NEW c \in Seq(S), NEW d \in Seq(S), NEW a \in S, NEW n \in Nat,
         Len(c) = n - 1, Len(d) = n, \A i \in 1 .. n - 1 : d[i] = c[i], d[n] = a
  PROVE  d = Append(c, a)
<1>1. Append(c, a) \in Seq(S) /\ Len(Append(c, a)) = n
  OBVIOUS
<1>2. \A i \in 1 .. Len(d) : d[i] = Append(c, a)[i]
  OBVIOUS
<1> QED
  BY <1>1, <1>2, SeqEqual

(* A frame more is an activation entered...                                 *)
LEMMA PushEnters ==
  ASSUME StackInv, NEW callee \in Methods, NEW offset \in ReturnOffsets \cup {0},
         NEW address \in ReturnAddresses \cup {0}, Pushed(callee, offset, address)
  PROVE  \E a \in Activations : Calls' = Append(Calls, a)
<1> DEFINE n == Len(frames)
           h == Header(current, callee, offset, address, FrameSlots(callee))
<1>1. n \in Nat \ {0} /\ Top \in Slots /\ frames \in Seq(Slots)
  BY TopIsNatural DEF Pushed, StackInv, TypeOK
<1>2. /\ Len(frames') = n + 1 /\ frames'[n + 1] = Top
      /\ \A i \in 1 .. n : frames'[i] = frames[i]
  BY <1>1 DEF Pushed
<1>3. Activation(h) \in Activations
  BY DEF Activation, Activations, Header
<1>4. Calls' = [i \in 1 .. n |-> Activation(mem'[frames'[i + 1]])]
  BY <1>1, <1>2 DEF Calls, Frame
<1>5. ASSUME NEW i \in 1 .. n - 1
      PROVE  mem'[frames'[i + 1]] = mem[frames[i + 1]]
  <2>1. PICK j \in 1 .. n : j = i + 1
    BY <1>1
  <2>2. frames[j] \in Slots /\ frames[j] < Top
    BY HeaderBegins, HeadersWithin
  <2>3. mem'[frames[j]] = mem[frames[j]]
    BY <2>2 DEF Pushed, HeaderPlaced
  <2> QED
    BY <1>2, <2>1, <2>3
<1>6. mem'[frames'[n + 1]] = h
  <2>1. mem'[Top] = h
    BY <1>1 DEF Pushed, HeaderPlaced
  <2> QED
    BY <2>1, <1>2
<1> HIDE DEF h
<1>7. Calls = [i \in 1 .. n - 1 |-> Activation(mem[frames[i + 1]])]
  BY DEF Calls, Frame
<1>8. PICK c, d : c = Calls /\ d = Calls'
  OBVIOUS
<1>9. c \in Seq(Activations) /\ Len(c) = n - 1
  BY <1>8, CallsAreActivations
<1>10. \A i \in 1 .. n - 1 : d[i] = c[i]
  <2>1. ASSUME NEW i \in 1 .. n - 1 PROVE d[i] = c[i]
    <3>1. i \in 1 .. n
      BY <1>1
    <3>2. d[i] = Activation(mem'[frames'[i + 1]])
      BY <1>4, <1>8, <3>1
    <3>3. c[i] = Activation(mem[frames[i + 1]])
      BY <1>7, <1>8
    <3> QED
      BY <1>5, <3>2, <3>3
  <2> QED
    BY <2>1
<1>11. d[n] = Activation(h)
  <2>1. d[n] = Activation(mem'[frames'[n + 1]])
    BY <1>1, <1>4, <1>8
  <2> QED
    BY <2>1, <1>6
<1>12. d \in Seq(Activations) /\ Len(d) = n
  <2>1. d = [i \in 1 .. n |-> d[i]]
    BY <1>4, <1>8
  <2>2. ASSUME NEW i \in 1 .. n PROVE d[i] \in Activations
    <3>1. CASE i = n
      BY <3>1, <1>3, <1>11
    <3>2. CASE i \in 1 .. n - 1
      BY <3>2, <1>9, <1>10
    <3> QED
      BY <3>1, <3>2, <1>1
  <2> QED
    BY <2>1, <2>2, <1>1
<1>13. d = Append(c, Activation(h))
  BY <1>1, <1>3, <1>9, <1>10, <1>11, <1>12, AppendByElements
<1> QED
  BY <1>3, <1>8, <1>13

(* ...and a frame less one left.                                            *)
LEMMA ReturnLeaves ==
  ASSUME StackInv, NEW t, Return(t)
  PROVE  Calls # <<>> /\ Calls' = SubSeq(Calls, 1, Len(Calls) - 1)
<1> DEFINE n == Len(frames) - 1
<1>1. n \in Nat /\ n > 0 /\ frames \in Seq(Slots)
  BY RunsAMethod, TopIsNatural DEF Return, StackInv, TypeOK
<1>2. /\ mem' = mem /\ Len(frames') = n
      /\ \A i \in 1 .. n : frames'[i] = frames[i]
  BY <1>1, ReturnEffect
<1>3. Calls = [i \in 1 .. n |-> Activation(mem[frames[i + 1]])]
  BY DEF Calls, Frame
<1>4. Calls' = [i \in 1 .. n - 1 |-> Activation(mem[frames[i + 1]])]
  <2>1. Calls' = [i \in 1 .. n - 1 |-> Activation(mem'[frames'[i + 1]])]
    BY <1>2 DEF Calls, Frame
  <2>2. \A i \in 1 .. n - 1 : frames'[i + 1] = frames[i + 1]
    BY <1>1, <1>2
  <2> QED
    BY <2>1, <2>2, <1>2
<1>5. PICK c, d : c = Calls /\ d = Calls'
  OBVIOUS
<1>6. c \in Seq(Activations) /\ Len(c) = n
  BY <1>5, CallsAreActivations
<1>7. \A i \in 1 .. n - 1 : d[i] = c[i]
  BY <1>1, <1>3, <1>4, <1>5
<1>8. d \in Seq(Activations) /\ Len(d) = n - 1
  <2>1. d = [i \in 1 .. n - 1 |-> d[i]]
    BY <1>4, <1>5
  <2>2. \A i \in 1 .. n - 1 : d[i] \in Activations
    BY <1>1, <1>6, <1>7
  <2> QED
    BY <2>1, <2>2, <1>1
<1>9. d = SubSeq(c, 1, n - 1)
  <2>1. SubSeq(c, 1, n - 1) \in Seq(Activations) /\ Len(SubSeq(c, 1, n - 1)) = n - 1
    BY <1>1, <1>6
  <2>2. \A i \in 1 .. Len(d) : d[i] = SubSeq(c, 1, n - 1)[i]
    BY <1>1, <1>6, <1>7, <1>8
  <2> QED
    BY <2>1, <2>2, <1>8, SeqEqual
<1>10. c # <<>>
  BY <1>1, <1>6
<1> QED
  BY <1>5, <1>6, <1>9, <1>10

(* The headers in memory are a stack of activations: entered and left in    *)
(* last-in-first-out order, each found again as the call left it.           *)
THEOREM FramesImplementCalls == Spec => ImplementsCallStack
<1>1. Init => Abstract!Init
  <2>1. SUFFICES ASSUME Init PROVE Calls = <<>>
    BY DEF Abstract!Init
  <2>2. Len(frames) = 1
    BY <2>1 DEF Init
  <2> QED
    BY <2>2 DEF Calls
<1>2. StackInv /\ [Next]_vars => [Abstract!Next]_Calls
  <2> SUFFICES ASSUME StackInv, [Next]_vars PROVE [Abstract!Next]_Calls
    OBVIOUS
  <2>1. ASSUME NEW callee \in Methods, NEW offset \in ReturnOffsets \cup {0},
               NEW address \in ReturnAddresses \cup {0}, Pushed(callee, offset, address)
        PROVE  Abstract!Next
    BY <2>1, PushEnters DEF Abstract!Next, Abstract!Enter
  <2>2. ASSUME UNCHANGED <<mem, frames>> PROVE Calls' = Calls
    BY <2>2 DEF Calls, Frame
  <2>3. ASSUME NEW m \in Methods, PushNative(m) PROVE [Abstract!Next]_Calls
    <3>1. PICK args : Prologue(m, Bounds(m), args, 0, 0)
      BY <2>3, PushNativeIsPrologue
    <3> QED
      BY <2>1, <2>2, <3>1, PrologueEffect
  <2>4. ASSUME NEW m \in Methods, NEW address \in ReturnAddresses, NEW offset \in Destinations,
               NEW slots, Push(m, slots, offset, address)
        PROVE  [Abstract!Next]_Calls
    <3>0. PICK b \in Methods : \E args : Prologue(m, Bounds(b), args, offset, address)
      BY <2>4, PushIsPrologue
    <3>1. PICK args : Prologue(m, Bounds(b), args, offset, address)
      BY <3>0
    <3>2. offset \in ReturnOffsets
      BY DEF Destinations
    <3> QED
      BY <2>1, <2>2, <3>1, <3>2, PrologueEffect
  <2>5. ASSUME NEW t, Return(t) PROVE Abstract!Next
    BY <2>5, ReturnLeaves DEF Abstract!Next, Abstract!Leave
  <2>6. ASSUME NEW t \in Types, NEW offset \in Variables(Current.method, t), WriteBack(t, offset)
        PROVE  [Abstract!Next]_Calls
    <3>1. depth > 0 /\ ~fault /\ frames' = frames
      BY <2>6 DEF WriteBack
    <3>2. \A i \in 1 .. Len(frames) : Frame(i)' = Frame(i)
      BY <2>6, WriteBackLeavesHeaders, HeaderBegins, <3>1 DEF Frame
    <3>3. Calls' = Calls
      <4>1. \A i \in 1 .. Len(frames) - 1 : i + 1 \in 1 .. Len(frames)
        BY TopIsNatural
      <4> QED
        BY <3>1, <3>2, <4>1 DEF Calls
    <3> QED
      BY <3>3
  <2>7. CASE UNCHANGED vars
    BY <2>2, <2>7 DEF vars
  <2>8. ASSUME NEW m \in Methods, PushRefused(m) PROVE [Abstract!Next]_Calls
    BY <2>2, <2>8 DEF PushRefused
  <2> QED
    BY <2>3, <2>4, <2>5, <2>6, <2>7, <2>8 DEF Next
<1> QED
  BY <1>1, <1>2, StackInvariance, PTL DEF Spec, ImplementsCallStack, Abstract!Spec

----------------------------------------------------------------------------
(* What the collector finds.  A frame's size is its method's, so no write   *)
(* to one frame is seen in another; in the frame itself only a store to an  *)
(* object variable reaches a slot the walk over pointers visits, and then   *)
(* both slots of it.                                                        *)

FramesSized ==
  \A i \in 2 .. Len(frames) :
    /\ Frame(i).method \in Methods
    /\ Frame(i).total = FrameSlots(Frame(i).method)

RootPair(a, b) ==
  \/ a = Zero /\ b = Zero
  \/ /\ a.kind = "value" /\ a.type = "OBJECT" /\ a.half = 1
     /\ b.kind = "value" /\ b.type = "OBJECT" /\ b.half = 2
     /\ a.v = b.v

IsRoot(m, at) == RootPair(m[at], m[at + 1])

PointersClear ==
  \A i \in 2 .. Len(frames) :
    \A offset \in Visited(Frame(i).method) : IsRoot(mem, DataOf(frames[i], offset))

RootInv == FramesSized /\ PointersClear

(* A slot the walk visits begins a pair within the section of the pointers. *)
LEMMA VisitedWithin ==
  ASSUME NEW m \in Methods, NEW offset \in Visited(m)
  PROVE  /\ offset \in Nat /\ (offset % 2) = 0 /\ offset + 1 < Layout[m].double
         /\ Layout[m].double \in Nat /\ Layout[m].double <= Layout[m].total
         /\ Layout[m].total \in Nat
<1>1. /\ Layout[m] \in [double : Nat, long : Nat, float : Nat, int : Nat, total : Nat]
      /\ PointerBytes \in Nat \ {0}
  BY StackAssumption
<1>2. Layout[m].double \in Nat /\ Layout[m].total \in Nat /\ Layout[m].double <= Layout[m].total
  BY <1>1, LayoutAssumption
<1>3. PICK d \in Nat, p \in Nat \ {0}, o \in Nat :
        d = Layout[m].double /\ p = PointerBytes /\ o = offset
  BY <1>1, <1>2 DEF Visited
<1>4. (p % 2) = 0 /\ (d % 2) = 0 /\ (o % p) = 0 /\ o < d
  BY <1>2, <1>3, LayoutAssumption DEF Visited
<1>5. PICK h \in Nat : p = 2 * h
  <2>1. p \div 2 \in Nat /\ p = 2 * (p \div 2)
    BY <1>4
  <2> QED
    BY <2>1
<1>6. PICK q \in Nat : o = p * q
  <2>1. o \div p \in Nat /\ o = p * (o \div p) + (o % p)
    OBVIOUS
  <2> QED
    BY <1>4, <2>1
<1>7. PICK r \in Nat : r = h * q
  BY <1>5, <1>6
<1>8. o = 2 * r
  BY <1>5, <1>6, <1>7
<1>9. o % 2 = 0
  BY <1>8
<1>10. o + 1 < d
  BY <1>4, <1>9
<1> QED
  BY <1>2, <1>3, <1>9, <1>10

(* Both slots of such a pair lie in the frame.                              *)
LEMMA PairWithin ==
  ASSUME StackInv, FramesSized, NEW i \in 2 .. Len(frames),
         NEW offset \in Visited(Frame(i).method)
  PROVE  LET at == DataOf(frames[i], offset)
         IN  /\ at \in Slots /\ at + 1 \in Slots /\ at + 1 < Top
             /\ i < Len(frames) => at + 1 < current
             /\ at = frames[i] + HeaderSlots + offset /\ frames[i] \in Nat
<1> DEFINE m == Frame(i).method
<1>1. /\ m \in Methods /\ Frame(i).total = HeaderSlots + Layout[m].total
  BY DEF FramesSized, FrameSlots
<1>2. PICK f \in Nat, o \in Nat, t \in Nat, z \in Nat :
        /\ f = frames[i] /\ o = offset /\ t = Layout[m].total /\ z = HeaderSlots
        /\ o + 1 < t
  <2>1. frames[i] \in Nat
    BY HeaderBegins DEF Slots
  <2>2. /\ offset \in Nat /\ offset + 1 < Layout[m].double
        /\ Layout[m].double \in Nat /\ Layout[m].total \in Nat
        /\ Layout[m].double <= Layout[m].total
    BY <1>1, VisitedWithin
  <2> HIDE DEF m
  <2> QED
    BY <2>1, <2>2, StackAssumption
<1>3. f + (z + t) <= MaxSlots
  BY <1>1, <1>2 DEF StackInv, FramesLinked
<1>4. Len(frames) \in Nat /\ current = frames[Len(frames)] /\ Top = current + Current.total
  BY TopIsNatural DEF Top
<1>5. i < Len(frames) => f + (z + t) <= current
  BY <1>1, <1>2, <1>4 DEF StackInv, FramesApart
<1>6. f + (z + t) <= Top
  <2>1. CASE i < Len(frames)
    <3>1. current \in Nat /\ Current.total \in Nat
      BY <1>4 DEF StackInv, TypeOK, Slots, HeadersTyped, Frame, Current
    <3> QED
      BY <1>4, <1>5, <2>1, <3>1
  <2>2. CASE i = Len(frames)
    <3>1. Current.total = z + t /\ current = f
      BY <1>1, <1>2, <1>4, <2>2 DEF Current, Frame
    <3> QED
      BY <1>4, <3>1
  <2> QED
    BY <1>4, <2>1, <2>2
<1>7. DataOf(frames[i], offset) = f + z + o
  BY <1>2 DEF DataOf
<1>8. PICK cc \in Nat, tp \in Nat, ms \in Nat : cc = current /\ tp = Top /\ ms = MaxSlots
  BY TopIsNatural, StackAssumption DEF StackInv, TypeOK, Slots
<1>9. PICK at : at = DataOf(frames[i], offset)
  OBVIOUS
<1>10. /\ at = f + z + o /\ f + (z + t) <= ms /\ f + (z + t) <= tp
       /\ i < Len(frames) => f + (z + t) <= cc
  BY <1>3, <1>5, <1>6, <1>7, <1>8, <1>9
<1>11. /\ at \in 0 .. ms - 1 /\ at + 1 \in 0 .. ms - 1 /\ at + 1 < tp
       /\ i < Len(frames) => at + 1 < cc
  <2>1. at \in Nat /\ at + 1 < f + (z + t)
    <3>1. o + 1 < t
      BY <1>2
    <3>2. at = f + z + o
      BY <1>10
    <3>3. f + z + o \in Nat /\ (f + z + o) + 1 < f + (z + t)
      BY <3>1
    <3> QED
      BY <3>2, <3>3, Zenon
  <2>2. at + 1 < ms /\ at + 1 < tp
    BY <1>8, <1>10, <2>1
  <2>3. i < Len(frames) => at + 1 < cc
    BY <1>8, <1>10, <2>1
  <2> QED
    BY <2>1, <2>2, <2>3
<1>12. at = frames[i] + HeaderSlots + offset /\ frames[i] \in Nat
  BY <1>2, <1>10
<1> QED
  BY <1>8, <1>9, <1>11, <1>12, Zenon DEF Slots

(* Frames whose slots a step leaves alone keep their pairs.                 *)
LEMMA FrameKeepsPairs ==
  ASSUME StackInv, RootInv, NEW i \in 2 .. Len(frames),
         Frame(i)' = Frame(i), frames'[i] = frames[i],
         \A s \in Slots : s < Top => mem'[s] = mem[s]
  PROVE  \A offset \in Visited(Frame(i)'.method) : IsRoot(mem', DataOf(frames'[i], offset))
<1>1. SUFFICES ASSUME NEW offset \in Visited(Frame(i).method)
               PROVE  IsRoot(mem', DataOf(frames[i], offset))
  OBVIOUS
<1>2. PICK at : at = DataOf(frames[i], offset)
  OBVIOUS
<1>3. at \in Slots /\ at + 1 \in Slots /\ at + 1 < Top
  BY <1>2, PairWithin DEF RootInv
<1>4. at < Top
  BY <1>3, TopIsNatural DEF Slots
<1>5. mem'[at] = mem[at] /\ mem'[at + 1] = mem[at + 1]
  BY <1>3, <1>4
<1>6. IsRoot(mem, at)
  BY <1>2 DEF RootInv, PointersClear
<1> QED
  BY <1>2, <1>5, <1>6 DEF IsRoot

(* The prologue clears every slot the walk will visit in the new frame.     *)
LEMMA NullsPlaced ==
  ASSUME StackInv, NEW callee \in Methods, NEW b, NEW args, NEW offset, NEW address,
         Prologue(callee, b, args, offset, address),
         ~Overruns(Top, b, ArgTypes[callee], callee),
         NEW i \in NulledOffsets(callee)
  PROVE  DataOf(Top, i) \in Slots /\ mem'[DataOf(Top, i)] = Zero
<1> DEFINE a == WithArgs(mem, Top, b, ArgTypes[callee], args)
           h == Header(current, callee, offset, address, FrameSlots(callee))
<1>1. i \in Nat /\ Top \in Nat /\ DataOf(Top, i) = Top + HeaderSlots + i
  <2>1. Layout[callee].double \in Nat
    BY StackAssumption
  <2> QED
    BY <2>1, TopIsNatural DEF NulledOffsets, DataOf
<1>2. DataOf(Top, i) < MaxSlots
  <2>1. ~(DataOf(Top, i) >= MaxSlots)
    BY DEF Overruns
  <2> QED
    BY <1>1, <2>1, StackAssumption
<1>3. DataOf(Top, i) \in Slots
  BY <1>1, <1>2, StackAssumption DEF Slots
<1>4. mem' = WithHeader(WithNulls(a, Top, callee), Top, h)
  BY DEF Prologue
<1> HIDE DEF a, h
<1>5. PICK s \in Slots : s = DataOf(Top, i)
  BY <1>3
<1>6. s - DataOf(Top, 0) = i
  BY <1>1, <1>5, StackAssumption DEF DataOf
<1>7. WithNulls(a, Top, callee)[s] = Zero
  BY <1>6 DEF WithNulls
<1>8. s # Top /\ s \notin Top + 1 .. Top + HeaderSlots - 1
  BY <1>1, <1>5, StackAssumption
<1> QED
  BY <1>3, <1>4, <1>5, <1>7, <1>8 DEF WithHeader

(* Both slots of a visited pair are cleared.                                *)
LEMMA VisitedAreNulled ==
  ASSUME NEW m \in Methods, NEW offset \in Visited(m)
  PROVE  offset \in NulledOffsets(m) /\ offset + 1 \in NulledOffsets(m)
<1>1. /\ Layout[m].double \in Nat /\ PointerBytes \in Nat \ {0} /\ (PointerBytes % 2) = 0
      /\ offset \in Nat /\ offset + 1 < Layout[m].double
  BY StackAssumption, LayoutAssumption, VisitedWithin
<1>2. PICK d \in Nat, p \in Nat \ {0}, o \in Nat :
        d = Layout[m].double /\ p = PointerBytes /\ o = offset
  BY <1>1
<1>3. (o % p) = 0 /\ o + 1 < d /\ p >= 2
  BY <1>1, <1>2 DEF Visited
<1>4. (o + 1) % p = 1
  <2>1. o = p * (o \div p) /\ o \div p \in Nat
    BY <1>3
  <2>2. PICK q \in Nat : o = p * q
    BY <2>1
  <2>3. PICK a \in Nat, r \in Nat :
          /\ a = (o + 1) \div p /\ r = (o + 1) % p
          /\ o + 1 = p * a + r /\ r < p
    OBVIOUS
  <2>4. PICK c \in Int : c = a - q
    OBVIOUS
  <2>5. p * c = 1 - r
    BY <2>2, <2>3, <2>4
  <2>6. ~(c >= 1)
    <3>1. c >= 1 => p * c >= p
      BY <2>4
    <3> QED
      BY <1>3, <2>3, <2>5, <3>1
  <2>7. ~(c <= -1)
    <3>1. c <= -1 => p * c <= -p
      BY <2>4
    <3> QED
      BY <1>3, <2>3, <2>5, <3>1
  <2>8. c = 0
    BY <2>4, <2>6, <2>7
  <2> QED
    BY <2>3, <2>5, <2>8
<1>5. o \in 0 .. 4 * d + 1 /\ o + 1 \in 0 .. 4 * d + 1
      /\ o - (o % p) < 4 * d /\ (o + 1) - ((o + 1) % p) < 4 * d
  BY <1>3, <1>4
<1> QED
  BY <1>2, <1>3, <1>4, <1>5 DEF NulledOffsets

(* A new frame has its pointers cleared, and the frames below are not touched.*)
LEMMA PushKeepsRoots ==
  ASSUME StackInv, RootInv, NEW callee \in Methods, NEW b \in Methods, NEW args, NEW offset,
         NEW address, Prologue(callee, Bounds(b), args, offset, address)
  PROVE  RootInv'
<1> DEFINE h == Header(current, callee, offset, address, FrameSlots(callee))
<1>0. PICK n \in Nat : n = Len(frames)
  BY TopIsNatural
<1>1. CASE Overruns(Top, Bounds(b), ArgTypes[callee], callee)
  <2>1. UNCHANGED <<mem, frames>>
    BY <1>1 DEF Prologue
  <2> QED
    BY <2>1 DEF RootInv, FramesSized, PointersClear, Frame
<1>2. CASE ~Overruns(Top, Bounds(b), ArgTypes[callee], callee)
  <2>1. Pushed(callee, offset, address)
    <3>1. fault' = fault /\ frames' = Append(frames, Top)
      BY <1>2 DEF Prologue
    <3>2. frames' # frames
      BY <3>1, TopIsNatural DEF StackInv, TypeOK, Pushed
    <3> QED
      BY <3>2, PrologueEffect
  <2>2. n \in Nat \ {0} /\ frames \in Seq(Slots) /\ Top \in Slots
    BY <1>0, <2>1, TopIsNatural DEF Pushed, StackInv, TypeOK
  <2>3. /\ Len(frames') = n + 1
        /\ \A i \in 1 .. n : frames'[i] = frames[i]
        /\ frames'[n + 1] = Top
    BY <1>0, <2>1, <2>2 DEF Pushed
  <2>4. \A s \in Slots : s < Top => mem'[s] = mem[s]
    BY <2>1 DEF Pushed, HeaderPlaced
  <2>5. ASSUME NEW i \in 2 .. n
        PROVE  Frame(i)' = Frame(i) /\ frames'[i] = frames[i]
    <3>1. i \in 1 .. n /\ i \in 1 .. Len(frames) /\ frames'[i] = frames[i]
      BY <1>0, <2>2, <2>3
    <3>2. frames[i] \in Slots /\ frames[i] < Top
      BY <3>1, HeaderBegins, HeadersWithin
    <3> QED
      BY <2>4, <3>1, <3>2 DEF Frame
  <2>6. Frame(n + 1)' = h
    <3>1. mem'[Top] = h
      BY <2>1, <2>2 DEF Pushed, HeaderPlaced
    <3> QED
      BY <2>3, <3>1 DEF Frame
  <2>7. h.method = callee /\ h.total = FrameSlots(callee)
    BY DEF Header
  <2> HIDE DEF h
  <2>8. ASSUME NEW i \in 2 .. n + 1
        PROVE  /\ Frame(i)'.method \in Methods
               /\ Frame(i)'.total = FrameSlots(Frame(i)'.method)
               /\ \A o \in Visited(Frame(i)'.method) : IsRoot(mem', DataOf(frames'[i], o))
    <3>1. CASE i \in 2 .. n
      <4>1. \A o \in Visited(Frame(i)'.method) : IsRoot(mem', DataOf(frames'[i], o))
        BY <1>0, <2>4, <2>5, <3>1, FrameKeepsPairs
      <4> QED
        BY <1>0, <2>5, <3>1, <4>1 DEF RootInv, FramesSized
    <3>2. CASE i = n + 1
      <4>1. Frame(i)' = h /\ frames'[i] = Top
        BY <2>3, <2>6, <3>2
      <4>2. ASSUME NEW o \in Visited(callee)
            PROVE  IsRoot(mem', DataOf(Top, o))
        <5>1. o \in NulledOffsets(callee) /\ o + 1 \in NulledOffsets(callee) /\ o \in Nat
          BY VisitedAreNulled, VisitedWithin
        <5>2. mem'[DataOf(Top, o)] = Zero /\ mem'[DataOf(Top, o + 1)] = Zero
          BY <1>2, <5>1, NullsPlaced
        <5>3. DataOf(Top, o + 1) = DataOf(Top, o) + 1
          BY <5>1, TopIsNatural, StackAssumption DEF DataOf
        <5> QED
          BY <5>2, <5>3 DEF IsRoot, RootPair
      <4> QED
        BY <2>7, <4>1, <4>2
    <3> QED
      BY <2>2, <3>1, <3>2
  <2> QED
    BY <2>3, <2>8 DEF RootInv, FramesSized, PointersClear
<1> QED
  BY <1>1, <1>2

(* A store to a variable of the current frame: one of the pairs is replaced *)
(* by an object, or none is touched.                                        *)
LEMMA StoreKeepsPair ==
  ASSUME NEW m \in Methods, NEW t \in Types, NEW o \in Variables(m, t),
         NEW v \in Visited(m), o # v \/ t # "OBJECT"
  PROVE  /\ o \in Nat
         /\ v \notin o .. o + Width(t) - 1 /\ v + 1 \notin o .. o + Width(t) - 1
<1>1. /\ Layout[m] \in [double : Nat, long : Nat, float : Nat, int : Nat, total : Nat]
      /\ v \in Nat /\ (v % 2) = 0 /\ v + 1 < Layout[m].double
  BY StackAssumption, VisitedWithin
<1>2. CASE t = "OBJECT"
  <2>1. Width(t) = 2 /\ Bounds(m)[t] = 0 /\ SectionEnd(m, t) = Layout[m].double
    BY <1>2 DEF Width, Bounds, SectionEnd, Types
  <2>2. o \in 0 .. Layout[m].double - 2 /\ ((o - 0) % 2) = 0
    BY <2>1 DEF Variables
  <2>3. o \in Nat /\ (o % 2) = 0 /\ o # v
    BY <1>1, <1>2, <2>2
  <2>4. o < v => o + 1 < v
    BY <1>1, <2>3
  <2>5. v < o => v + 1 < o
    BY <1>1, <2>3
  <2> QED
    BY <1>1, <2>1, <2>3, <2>4, <2>5
<1>3. CASE t # "OBJECT"
  <2>1. Bounds(m)[t] \in Nat /\ Bounds(m)[t] >= Layout[m].double
    BY <1>1, <1>3, LayoutAssumption DEF Bounds, Types
  <2>2. o \in Bounds(m)[t] .. SectionEnd(m, t) - Width(t)
    BY DEF Variables
  <2>3. o \in Nat /\ o >= Layout[m].double
    BY <1>1, <2>1, <2>2
  <2>4. Width(t) \in Nat
    BY DEF Width
  <2> QED
    BY <1>1, <2>3, <2>4
<1> QED
  BY <1>2, <1>3

(* A store writes a whole object over a pointer, or elsewhere.              *)
LEMMA WriteBackKeepsRoots ==
  ASSUME StackInv, RootInv, NEW t \in Types, NEW o \in Variables(Current.method, t),
         WriteBack(t, o)
  PROVE  RootInv'
<1>1. /\ depth > 0 /\ ~fault /\ UNCHANGED <<current, frames>>
      /\ mem' = Written(mem, DataOf(current, o), Cells(t, 0))
  BY DEF WriteBack
<1>2. /\ Len(frames) \in Nat /\ Len(frames) > 1 /\ current = frames[Len(frames)]
      /\ Current = Frame(Len(frames)) /\ Current.method \in Methods
  BY <1>1, RunsAMethod, TopIsNatural
<1>3. \A i \in 1 .. Len(frames) : Frame(i)' = Frame(i)
  BY <1>1, WriteBackLeavesHeaders, HeaderBegins DEF Frame
<1>4. Len(Cells(t, 0)) = Width(t) /\ Width(t) \in {1, 2}
  BY DEF Cells, Width
<1>5. o \in Nat
  <2>1. /\ Bounds(Current.method)[t] \in Nat /\ SectionEnd(Current.method, t) \in Nat
        /\ Width(t) \in Nat
    BY <1>2, StackAssumption DEF Bounds, SectionEnd, Types, Width
  <2> QED
    BY <2>1 DEF Variables
<1>6. PICK d \in Nat : d = DataOf(current, o) /\ d = current + HeaderSlots + o
  BY <1>5, StackAssumption DEF DataOf, StackInv, TypeOK, Slots
<1>7. /\ \A s \in Slots : s \notin d .. d + Width(t) - 1 => mem'[s] = mem[s]
      /\ \A s \in Slots : s \in d .. d + Width(t) - 1 => mem'[s] = Cells(t, 0)[s - d + 1]
  BY <1>1, <1>4, <1>6, Zenon DEF Written
<1>8. ASSUME NEW i \in 2 .. Len(frames), NEW v \in Visited(Frame(i).method)
      PROVE  IsRoot(mem', DataOf(frames[i], v))
  <2>1. PICK at \in Nat : at = DataOf(frames[i], v)
    BY PairWithin DEF RootInv, Slots
  <2>2. /\ at \in Slots /\ at + 1 \in Slots
        /\ i < Len(frames) => at + 1 < current
        /\ at = frames[i] + HeaderSlots + v /\ frames[i] \in Nat
    BY <2>1, PairWithin DEF RootInv
  <2>3. IsRoot(mem, at)
    BY <2>1 DEF RootInv, PointersClear
  <2>4. ASSUME at \notin d .. d + Width(t) - 1, at + 1 \notin d .. d + Width(t) - 1
        PROVE  IsRoot(mem', at)
    BY <1>7, <2>2, <2>3, <2>4 DEF IsRoot
  <2>5. CASE i < Len(frames)
    <3>1. at < d /\ at + 1 < d
      <4>1. at + 1 < current /\ current \in Nat
        BY <1>2, <2>2, <2>5 DEF StackInv, TypeOK, Slots
      <4> QED
        BY <1>5, <1>6, <4>1, StackAssumption
    <3>2. at \notin d .. d + Width(t) - 1 /\ at + 1 \notin d .. d + Width(t) - 1
      BY <3>1, <1>4
    <3> QED
      BY <2>1, <2>4, <3>2
  <2>6. CASE i = Len(frames) /\ (o # v \/ t # "OBJECT")
    <3>1. /\ v \notin o .. o + Width(t) - 1 /\ v + 1 \notin o .. o + Width(t) - 1
          /\ v \in Nat
      BY <1>2, <2>6, StoreKeepsPair, VisitedWithin
    <3>2. PICK e \in Nat : at = e + v /\ d = e + o
      <4>1. frames[i] + HeaderSlots \in Nat
        BY <2>2, StackAssumption
      <4> QED
        BY <1>2, <1>5, <1>6, <2>2, <2>6, <3>1, <4>1, StackAssumption
    <3>3. at \notin d .. d + Width(t) - 1 /\ at + 1 \notin d .. d + Width(t) - 1
      BY <1>4, <1>5, <3>1, <3>2
    <3> QED
      BY <2>1, <2>4, <3>3
  <2>7. CASE i = Len(frames) /\ o = v /\ t = "OBJECT"
    <3>1. at = d /\ Width(t) = 2
      BY <1>2, <1>6, <2>2, <2>7 DEF Width
    <3>2. mem'[at] = Cells(t, 0)[1] /\ mem'[at + 1] = Cells(t, 0)[2]
      <4>1. at \in d .. d + Width(t) - 1 /\ at - d + 1 = 1
        BY <3>1
      <4>2. at + 1 \in d .. d + Width(t) - 1 /\ (at + 1) - d + 1 = 2
        BY <3>1
      <4> QED
        BY <1>7, <2>2, <4>1, <4>2
    <3>3. Cells(t, 0)[1] = Value("OBJECT", 0, 1) /\ Cells(t, 0)[2] = Value("OBJECT", 0, 2)
      BY <2>7, <3>1 DEF Cells
    <3> QED
      BY <2>1, <3>2, <3>3 DEF IsRoot, RootPair, Value
  <2> QED
    BY <1>2, <2>5, <2>6, <2>7
<1>9. \A i \in 2 .. Len(frames) : Frame(i)' = Frame(i) /\ frames'[i] = frames[i]
  BY <1>1, <1>2, <1>3
<1> QED
  BY <1>1, <1>8, <1>9 DEF RootInv, FramesSized, PointersClear

(* A return uncovers frames that were not touched.                          *)
LEMMA ReturnKeepsRoots ==
  ASSUME StackInv, RootInv, NEW t, Return(t)
  PROVE  RootInv'
<1>1. PICK n \in Nat : n = Len(frames) - 1 /\ n > 0
  BY RunsAMethod, TopIsNatural DEF Return
<1>2. mem' = mem /\ frames' = SubSeq(frames, 1, n)
  BY <1>1, ReturnEffect
<1>3. Len(frames') = n /\ \A i \in 1 .. n : frames'[i] = frames[i]
  BY <1>1, <1>2 DEF StackInv, TypeOK
<1>4. \A i \in 2 .. n : /\ i \in 2 .. Len(frames) /\ frames'[i] = frames[i]
                        /\ Frame(i)' = Frame(i)
  BY <1>1, <1>2, <1>3 DEF Frame
<1> QED
  BY <1>2, <1>3, <1>4 DEF RootInv, FramesSized, PointersClear

(* Whatever the step, both halves of every visited pair are of one object,  *)
(* or clear.                                                                *)
LEMMA RootInvariance == Spec => []RootInv
<1>1. Init => RootInv
  <2> SUFFICES ASSUME Init PROVE RootInv
    OBVIOUS
  <2>1. Len(frames) = 1
    BY DEF Init
  <2>2. 2 .. Len(frames) = {}
    BY <2>1
  <2> QED
    BY <2>2 DEF RootInv, FramesSized, PointersClear
<1>2. StackInv /\ RootInv /\ [Next]_vars => RootInv'
  <2> SUFFICES ASSUME StackInv, RootInv, [Next]_vars PROVE RootInv'
    OBVIOUS
  <2>1. ASSUME UNCHANGED <<mem, frames>> PROVE RootInv'
    BY <2>1 DEF RootInv, FramesSized, PointersClear, Frame
  <2>2. ASSUME NEW m \in Methods, PushNative(m) PROVE RootInv'
    <3>1. PICK args : Prologue(m, Bounds(m), args, 0, 0)
      BY <2>2, PushNativeIsPrologue
    <3> QED
      BY <3>1, PushKeepsRoots
  <2>3. ASSUME NEW m \in Methods, NEW slots, NEW offset, NEW address, Push(m, slots, offset, address)
        PROVE  RootInv'
    <3>0. PICK b \in Methods : \E args : Prologue(m, Bounds(b), args, offset, address)
      BY <2>3, PushIsPrologue
    <3>1. PICK args : Prologue(m, Bounds(b), args, offset, address)
      BY <3>0
    <3> QED
      BY <3>1, PushKeepsRoots
  <2>4. ASSUME NEW t, Return(t) PROVE RootInv'
    BY <2>4, ReturnKeepsRoots
  <2>5. ASSUME NEW t \in Types, NEW offset \in Variables(Current.method, t), WriteBack(t, offset)
        PROVE  RootInv'
    BY <2>5, WriteBackKeepsRoots
  <2>6. ASSUME NEW m \in Methods, PushRefused(m) PROVE RootInv'
    BY <2>1, <2>6 DEF PushRefused
  <2>7. CASE UNCHANGED vars
    BY <2>1, <2>7 DEF vars
  <2> QED
    BY <2>2, <2>3, <2>4, <2>5, <2>6, <2>7 DEF Next
<1> QED
  BY <1>1, <1>2, StackInvariance, PTL DEF Spec

----------------------------------------------------------------------------
(* The walk over the frames, by induction over its steps.                   *)

Lower == {p \in Nat \X Nat : p[1] < p[2]}

(* A set of naturals that is not empty has a least element.                 *)
LEMMA LeastElement ==
  ASSUME NEW S \in SUBSET Nat, S # {}
  PROVE  \E n \in S : \A k \in S : n <= k
<1>1. IsWellFoundedOn(Lower, Nat)
  BY NatLessThanWellFounded DEF OpToRel, Lower
<1>2. PICK n \in S : \A k \in Nat : <<k, n>> \in Lower => k \notin S
  BY <1>1, WFMin
<1>3. \A k \in S : ~(k < n)
  BY <1>2 DEF Lower
<1> QED
  BY <1>3

(* From the last frame, by the links in the headers, down to the root: the  *)
(* walk is the list of the frames, read backwards.                          *)
LEMMA WalkMeetsFrames ==
  ASSUME StackInv, NEW k \in 0 .. Len(frames) - 1
  PROVE  FrameAfter(k) = frames[Len(frames) - k]
<1>1. PICK c \in Nat : c = Len(frames) /\ current = frames[c] /\ c > 0
  BY TopIsNatural
<1> DEFINE Step(f, n) == IF n = 0 THEN current ELSE mem[f[n - 1]].previous
           back == [n \in 0 .. k |-> frames[c - n]]
           walk == CHOOSE f : f = [n \in 0 .. k |-> Step(f, n)]
           Astray == {n \in 0 .. k : walk[n] # frames[c - n]}
<1>2. ASSUME NEW n \in 1 .. k PROVE mem[frames[c - (n - 1)]].previous = frames[c - n]
  <2>1. PICK i \in 2 .. Len(frames) : i = c - (n - 1) /\ i - 1 = c - n
    BY <1>1
  <2> QED
    BY <2>1 DEF StackInv, FramesLinked, Frame
<1>3. back = [n \in 0 .. k |-> Step(back, n)]
  <2>1. ASSUME NEW n \in 0 .. k PROVE back[n] = Step(back, n)
    <3>1. CASE n = 0
      BY <1>1, <3>1
    <3>2. CASE n # 0
      <4>1. n \in 1 .. k /\ n - 1 \in 0 .. k
        BY <3>2
      <4>2. back[n - 1] = frames[c - (n - 1)] /\ back[n] = frames[c - n]
        BY <4>1
      <4> QED
        BY <1>2, <3>2, <4>1, <4>2
    <3> QED
      BY <3>1, <3>2
  <2>2. back = [n \in 0 .. k |-> back[n]]
    OBVIOUS
  <2> HIDE DEF back
  <2> QED
    BY <2>1, <2>2
<1>4. walk = [n \in 0 .. k |-> Step(walk, n)]
  <2> HIDE DEF back
  <2> QED
    BY <1>3
<1> HIDE DEF walk
<1>5. /\ walk[0] = current
      /\ \A n \in 1 .. k : walk[n] = mem[walk[n - 1]].previous
  <2>1. \A n \in 0 .. k : walk[n] = Step(walk, n)
    BY <1>4
  <2> QED
    BY <2>1
<1>6. Astray = {}
  <2>1. SUFFICES ASSUME Astray # {} PROVE FALSE
    OBVIOUS
  <2>2. PICK n \in Astray : \A j \in Astray : n <= j
    <3>1. Astray \in SUBSET Nat
      OBVIOUS
    <3> HIDE DEF Astray
    <3> QED
      BY <2>1, <3>1, LeastElement
  <2>3. n \in 1 .. k
    BY <1>1, <1>5, <2>2
  <2>4. n - 1 \in 0 .. k /\ n - 1 \notin Astray
    <3> HIDE DEF Astray
    <3>1. n - 1 \in 0 .. k /\ ~(n <= n - 1)
      BY <2>3
    <3> QED
      BY <2>2, <3>1
  <2>5. walk[n - 1] = frames[c - (n - 1)]
    BY <2>4
  <2> QED
    BY <1>2, <1>5, <2>2, <2>3, <2>5
<1>7. walk[k] = frames[c - k]
  BY <1>6
<1>8. FrameAfter(k) = walk[k]
  BY Zenon DEF FrameAfter, walk
<1> QED
  BY <1>1, <1>7, <1>8

(* The collector's walk over the stack meets every live frame and, in those *)
(* it can leave again, finds both halves of an object or nothing in every   *)
(* slot it takes for a pointer.                                             *)
THEOREM CollectorFindsObjects == Spec => []RootsAreObjects
<1>1. StackInv /\ RootInv => RootsAreObjects
  <2> SUFFICES ASSUME StackInv, RootInv PROVE RootsAreObjects
    OBVIOUS
  <2>1. \A k \in 0 .. Len(frames) - 1 : FrameAfter(k) = frames[Len(frames) - k]
    BY WalkMeetsFrames
  <2>2. ASSUME NEW i \in 2 .. Len(frames), NEW offset \in Visited(Frame(i).method)
        PROVE  LET at == DataOf(frames[i], offset)
               IN  \/ mem[at] = Zero /\ mem[at + 1] = Zero
                   \/ /\ \A half \in 1 .. 2 :
                           /\ mem[at + half - 1].kind = "value"
                           /\ mem[at + half - 1].type = "OBJECT"
                           /\ mem[at + half - 1].half = half
                      /\ mem[at].v = mem[at + 1].v
    <3>1. PICK at \in Nat : at = DataOf(frames[i], offset)
      BY PairWithin DEF RootInv, Slots
    <3>2. RootPair(mem[at], mem[at + 1])
      BY <3>1 DEF RootInv, PointersClear, IsRoot
    <3>3. \A half \in 1 .. 2 : \/ half = 1 /\ at + half - 1 = at
                               \/ half = 2 /\ at + half - 1 = at + 1
      OBVIOUS
    <3> QED
      BY <3>1, <3>2, <3>3 DEF RootPair
  <2> QED
    BY <2>1, <2>2 DEF RootsAreObjects
<1> QED
  BY <1>1, StackInvariance, RootInvariance, PTL

----------------------------------------------------------------------------
(* Where arguments arrive.                                                  *)

(* The sections of a method do not overlap, and are within naturals.        *)
LEMMA SectionsApart ==
  ASSUME NEW m \in Methods, NEW t \in Types, NEW u \in Types
  PROVE  /\ Bounds(m)[t] \in Nat /\ SectionEnd(m, t) \in Nat /\ Width(t) \in {1, 2}
         /\ t # u => \/ SectionEnd(m, t) <= Bounds(m)[u]
                     \/ SectionEnd(m, u) <= Bounds(m)[t]
<1>1. PICK d \in Nat, l \in Nat, f \in Nat, i \in Nat, n \in Nat :
        /\ d = Layout[m].double /\ l = Layout[m].long /\ f = Layout[m].float
        /\ i = Layout[m].int /\ n = Layout[m].total
        /\ d <= l /\ l <= f /\ f <= i /\ i <= n
  BY StackAssumption, LayoutAssumption
<1>2. ASSUME NEW s \in Types
      PROVE  \/ s = "OBJECT" /\ Bounds(m)[s] = 0 /\ SectionEnd(m, s) = d
             \/ s = "DOUBLE" /\ Bounds(m)[s] = d /\ SectionEnd(m, s) = l
             \/ s = "LONG"   /\ Bounds(m)[s] = l /\ SectionEnd(m, s) = f
             \/ s = "FLOAT"  /\ Bounds(m)[s] = f /\ SectionEnd(m, s) = i
             \/ s = "INT"    /\ Bounds(m)[s] = i /\ SectionEnd(m, s) = n
  BY <1>1 DEF Types, Bounds, SectionEnd
<1>3. Width(t) \in {1, 2}
  BY DEF Width
<1>4. \/ t = "OBJECT" /\ Bounds(m)[t] = 0 /\ SectionEnd(m, t) = d
      \/ t = "DOUBLE" /\ Bounds(m)[t] = d /\ SectionEnd(m, t) = l
      \/ t = "LONG"   /\ Bounds(m)[t] = l /\ SectionEnd(m, t) = f
      \/ t = "FLOAT"  /\ Bounds(m)[t] = f /\ SectionEnd(m, t) = i
      \/ t = "INT"    /\ Bounds(m)[t] = i /\ SectionEnd(m, t) = n
  BY <1>2
<1>5. \/ u = "OBJECT" /\ Bounds(m)[u] = 0 /\ SectionEnd(m, u) = d
      \/ u = "DOUBLE" /\ Bounds(m)[u] = d /\ SectionEnd(m, u) = l
      \/ u = "LONG"   /\ Bounds(m)[u] = l /\ SectionEnd(m, u) = f
      \/ u = "FLOAT"  /\ Bounds(m)[u] = f /\ SectionEnd(m, u) = i
      \/ u = "INT"    /\ Bounds(m)[u] = i /\ SectionEnd(m, u) = n
  BY <1>2
<1> QED
  BY <1>1, <1>3, <1>4, <1>5

(* With one argument of each type nothing is counted before an argument.    *)
LEMMA FirstOfItsType ==
  ASSUME NEW m \in Methods, NEW callee \in Methods, OneOfEachType(ArgTypes[callee]),
         NEW k \in 1 .. Len(ArgTypes[callee])
  PROVE  LET t == ArgTypes[callee][k]
         IN  /\ t \in Types
             /\ ArgOffset(Bounds(m), ArgTypes[callee], k) = Bounds(m)[t]
<1> DEFINE types == ArgTypes[callee]
           before == {j \in 1 .. k - 1 : types[j] = types[k]}
<1>1. types \in Seq(Types) /\ types[k] \in Types /\ DOMAIN types = 1 .. Len(types)
  BY StackAssumption
<1>2. before = {}
  <2>1. SUFFICES ASSUME NEW j \in 1 .. k - 1, types[j] = types[k] PROVE FALSE
    OBVIOUS
  <2>2. j \in DOMAIN types /\ k \in DOMAIN types /\ j # k
    BY <1>1
  <2> QED
    BY <2>1, <2>2 DEF OneOfEachType
<1>3. Cardinality(before) = 0
  <2>1. Cardinality({}) = 0
    BY FS_EmptySet
  <2> QED
    BY <1>2, <2>1
<1>4. Bytes(types[k]) \in {4, 8} /\ Bounds(m)[types[k]] \in Nat
  BY <1>1, SectionsApart DEF Bytes, Width
<1>5. ArgOffset(Bounds(m), types, k) = Bounds(m)[types[k]] + Bytes(types[k]) * Cardinality(before)
  BY DEF ArgOffset
<1> QED
  BY <1>1, <1>3, <1>4, <1>5

(* Then no argument is placed over another.                                 *)
LEMMA OnlyWriter ==
  ASSUME NEW base \in Nat, NEW callee \in Methods, OneOfEachType(ArgTypes[callee]),
         NEW k \in 1 .. Len(ArgTypes[callee]),
         NEW half \in 1 .. Width(ArgTypes[callee][k]), NEW s \in Slots,
         s = DataOf(base, Bounds(callee)[ArgTypes[callee][k]]) + half - 1
  PROVE  /\ {j \in 1 .. Len(ArgTypes[callee]) :
               s \in ArgSlots(base, Bounds(callee), ArgTypes[callee], j)} = {k}
         /\ s - DataOf(base, ArgOffset(Bounds(callee), ArgTypes[callee], k)) + 1 = half
<1> DEFINE types == ArgTypes[callee]
           bounds == Bounds(callee)
           writers == {j \in 1 .. Len(types) : s \in ArgSlots(base, bounds, types, j)}
<1>1. ASSUME NEW j \in 1 .. Len(types)
      PROVE  /\ types[j] \in Types /\ bounds[types[j]] \in Nat
             /\ Width(types[j]) \in {1, 2}
             /\ ArgOffset(bounds, types, j) = bounds[types[j]]
             /\ ArgSlots(base, bounds, types, j) =
                  base + HeaderSlots + bounds[types[j]]
                    .. base + HeaderSlots + bounds[types[j]] + Width(types[j]) - 1
             /\ bounds[types[j]] + Width(types[j]) <= SectionEnd(callee, types[j])
             /\ SectionEnd(callee, types[j]) \in Nat
  <2>1. types[j] \in Types /\ ArgOffset(bounds, types, j) = bounds[types[j]]
    BY FirstOfItsType
  <2>2. /\ bounds[types[j]] \in Nat /\ Width(types[j]) \in {1, 2}
        /\ SectionEnd(callee, types[j]) \in Nat
    BY <2>1, SectionsApart
  <2>3. bounds[types[j]] + Width(types[j]) <= SectionEnd(callee, types[j])
    BY LayoutAssumption
  <2>4. DataOf(base, ArgOffset(bounds, types, j)) = base + HeaderSlots + bounds[types[j]]
    BY <2>1 DEF DataOf
  <2> HIDE DEF bounds, types
  <2> QED
    BY <2>1, <2>2, <2>3, <2>4 DEF ArgSlots
<1>2. s = base + HeaderSlots + bounds[types[k]] + half - 1
  BY DEF DataOf
<1>3. PICK h \in Nat : h = HeaderSlots
  BY StackAssumption
<1> HIDE DEF bounds, types
<1>4. k \in 1 .. Len(types) /\ half \in 1 .. Width(types[k])
  BY DEF types
<1>5. s \in ArgSlots(base, bounds, types, k)
  <2>1. PICK bk \in Nat, wk \in {1, 2} : bk = bounds[types[k]] /\ wk = Width(types[k])
    BY <1>1, <1>4
  <2>2. half \in 1 .. wk /\ s = base + h + bk + half - 1
    BY <1>2, <1>3, <1>4, <2>1
  <2>3. ArgSlots(base, bounds, types, k) = base + h + bk .. base + h + bk + wk - 1
    BY <1>1, <1>3, <1>4, <2>1
  <2>4. s \in base + h + bk .. base + h + bk + wk - 1
    BY <2>2
  <2> QED
    BY <2>3, <2>4
<1>6. ASSUME NEW j \in 1 .. Len(types), s \in ArgSlots(base, bounds, types, j)
      PROVE  j = k
  <2>1. SUFFICES ASSUME types[j] # types[k] PROVE FALSE
    <3>1. j \in DOMAIN types /\ k \in DOMAIN types
      BY <1>4, StackAssumption DEF types
    <3> QED
      BY <3>1 DEF OneOfEachType, types
  <2>2. \/ SectionEnd(callee, types[j]) <= bounds[types[k]]
        \/ SectionEnd(callee, types[k]) <= bounds[types[j]]
    BY <1>1, <1>4, <2>1, SectionsApart DEF bounds
  <2>3. PICK bj \in Nat, bk \in Nat, wj \in {1, 2}, wk \in {1, 2}, ej \in Nat, ek \in Nat :
          /\ bj = bounds[types[j]] /\ bk = bounds[types[k]]
          /\ wj = Width(types[j]) /\ wk = Width(types[k])
          /\ ej = SectionEnd(callee, types[j]) /\ ek = SectionEnd(callee, types[k])
          /\ bj + wj <= ej /\ bk + wk <= ek
    BY <1>1, <1>4
  <2>4. s \in base + h + bj .. base + h + bj + wj - 1
    BY <1>1, <1>3, <1>6, <2>3
  <2>5. s = base + h + bk + half - 1 /\ half \in 1 .. wk
    BY <1>2, <1>3, <1>4, <2>3
  <2>6. ej <= bk \/ ek <= bj
    BY <2>2, <2>3
  <2>7. PICK x \in Nat : x = base + h
    OBVIOUS
  <2>8. bj + wj <= ej /\ bk + wk <= ek
    BY <2>3
  <2>9. s >= x + bj /\ s <= x + bj + wj - 1 /\ s >= x + bk /\ s <= x + bk + wk - 1 /\ s \in Int
    BY <2>4, <2>5, <2>7
  <2> QED
    BY <2>6, <2>8, <2>9
<1>7. writers = {k}
  BY <1>4, <1>5, <1>6
<1>8. s - DataOf(base, ArgOffset(bounds, types, k)) + 1 = half
  BY <1>1, <1>2, <1>3, <1>4 DEF DataOf
<1> QED
  BY <1>7, <1>8 DEF bounds, types

(* With at most one pointer, only the section of the pointers is cleared.   *)
LEMMA NulledWithin ==
  ASSUME NEW m \in Methods, 4 * Layout[m].double <= PointerBytes, NEW i \in NulledOffsets(m)
  PROVE  i \in Nat /\ i < Layout[m].double
<1>1. PICK d \in Nat, p \in Nat \ {0}, o \in Nat :
        d = Layout[m].double /\ p = PointerBytes /\ o = i
  BY StackAssumption DEF NulledOffsets
<1>2. (d % 2) = 0 /\ 4 * d <= p
  BY <1>1, LayoutAssumption
<1>3. (o % p) \in {0, 1} /\ o - (o % p) < 4 * d
  BY <1>1 DEF NulledOffsets
<1>4. PICK q \in Nat, r \in Nat : o = p * q + r /\ r = o % p
  <2>1. o \div p \in Nat /\ o % p \in Nat /\ o = p * (o \div p) + (o % p)
    OBVIOUS
  <2> QED
    BY <2>1
<1>5. q = 0
  <2>1. q >= 1 => p * q >= p
    OBVIOUS
  <2>2. p * q < p
    BY <1>2, <1>3, <1>4
  <2> QED
    BY <2>1, <2>2
<1>6. o = r /\ r \in {0, 1} /\ d > 0
  <2>1. p * q = 0
    BY <1>5
  <2>2. r \in {0, 1} /\ o - r < 4 * d
    BY <1>3, <1>4
  <2>3. o = 0 + r
    BY <1>4, <2>1, Zenon
  <2> QED
    BY <2>2, <2>3
<1>7. o < d
  BY <1>2, <1>6
<1> QED
  BY <1>1, <1>7

(* After a prologue that stays in the stack the arguments are where the callee*)
(* looks for them.                                                          *)
LEMMA PrologueDelivers ==
  ASSUME StackInv, NEW callee \in Methods, NEW b \in Methods, NEW args, NEW offset,
         NEW address, Prologue(callee, Bounds(b), args, offset, address),
         ~Overruns(Top, Bounds(b), ArgTypes[callee], callee),
         OwnBounds' => Bounds(b) = Bounds(callee)
  PROVE  ArgsDelivered'
<1> DEFINE types == ArgTypes[callee]
           h == Header(current, callee, offset, address, FrameSlots(callee))
           a == WithArgs(mem, Top, Bounds(b), types, args)
           c == WithNulls(a, Top, callee)
<1>1. /\ mem' = WithHeader(c, Top, h)
      /\ current' = Top
      /\ passed' = [k \in 1 .. Len(types) |-> <<types[k], args[k]>>]
  BY DEF Prologue
<1>2. Top \in Slots /\ Top \in Nat /\ Len(types) \in Nat
  <2>1. Top \in Nat
    BY TopIsNatural
  <2>2. Top + FrameSlots(callee) <= MaxSlots
    BY DEF Prologue, CanAdvance
  <2>3. FrameSlots(callee) \in Nat /\ FrameSlots(callee) > 0
    BY StackAssumption DEF FrameSlots
  <2> QED
    BY <2>1, <2>2, <2>3, StackAssumption DEF Slots
<1>3. Current' = h /\ Current'.method = callee
  <2>1. mem'[Top] = h
    <3> HIDE DEF c, h
    <3> QED
      BY <1>1, <1>2 DEF WithHeader
  <2>2. h.method = callee
    BY DEF Header
  <2> HIDE DEF h
  <2> QED
    BY <1>1, <2>1, <2>2 DEF Current
<1>4. Len(passed') = Len(types) /\ \A k \in 1 .. Len(types) : passed'[k] = <<types[k], args[k]>>
  <2> HIDE DEF types
  <2> QED
    BY <1>1, <1>2
<1>5. SUFFICES ASSUME OwnBounds', 4 * Layout[callee].double <= PointerBytes,
                      OneOfEachType(types),
                      NEW k \in 1 .. Len(types), types[k] # "OBJECT",
                      NEW half \in 1 .. Width(types[k])
               PROVE  mem'[DataOf(Top, Bounds(callee)[types[k]]) + half - 1] = args[k][half]
  <2> HIDE DEF types, h, c
  <2> QED
    BY <1>1, <1>3, <1>4 DEF ArgsDelivered, types
<1>6. Bounds(b) = Bounds(callee)
  BY <1>5
<1>7. /\ types[k] \in Types /\ Bounds(callee)[types[k]] \in Nat
      /\ Bounds(callee)[types[k]] >= Layout[callee].double /\ Layout[callee].double \in Nat
  <2>1. types[k] \in Types /\ Layout[callee].double \in Nat
    BY StackAssumption
  <2>2. Bounds(callee)[types[k]] \in Nat
    BY <2>1, SectionsApart
  <2>3. \/ SectionEnd(callee, "OBJECT") <= Bounds(callee)[types[k]]
        \/ SectionEnd(callee, types[k]) <= Bounds(callee)["OBJECT"]
    BY <1>5, <2>1, SectionsApart DEF Types
  <2>4. SectionEnd(callee, "OBJECT") = Layout[callee].double /\ Bounds(callee)["OBJECT"] = 0
    BY DEF SectionEnd, Bounds, Types
  <2>5. Bounds(callee)[types[k]] + Width(types[k]) <= SectionEnd(callee, types[k])
    BY LayoutAssumption
  <2>6. Width(types[k]) \in {1, 2} /\ SectionEnd(callee, types[k]) \in Nat
    BY <2>1, SectionsApart
  <2> HIDE DEF types
  <2> QED
    BY <2>1, <2>2, <2>3, <2>4, <2>5, <2>6
<1>8. PICK s : s = DataOf(Top, Bounds(callee)[types[k]]) + half - 1
  OBVIOUS
<1>9. /\ s = Top + HeaderSlots + Bounds(callee)[types[k]] + half - 1 /\ s \in Nat
      /\ s >= Top + HeaderSlots + Layout[callee].double
  <2>1. s = Top + HeaderSlots + Bounds(callee)[types[k]] + half - 1
    BY <1>8 DEF DataOf
  <2>2. half \in Nat /\ half >= 1
    <3>1. Width(types[k]) \in {1, 2}
      BY DEF Width
    <3> QED
      BY <3>1
  <2>3. PICK tp \in Nat, z \in Nat, o \in Nat, d \in Nat :
          /\ tp = Top /\ z = HeaderSlots /\ o = Bounds(callee)[types[k]]
          /\ d = Layout[callee].double /\ o >= d
    BY <1>2, <1>7, StackAssumption
  <2> HIDE DEF types
  <2>4. s = tp + z + o + half - 1 /\ o >= d
    BY <2>1, <2>3
  <2>5. s \in Nat /\ s >= tp + z + d
    BY <2>2, <2>4
  <2> QED
    BY <2>1, <2>3, <2>5
<1>10. s \in ArgSlots(Top, Bounds(callee), types, k)
  <2>1. ArgOffset(Bounds(callee), types, k) = Bounds(callee)[types[k]]
    BY <1>5, FirstOfItsType
  <2>2. Width(types[k]) \in {1, 2}
    BY DEF Width
  <2>3. PICK e \in Nat : e = DataOf(Top, Bounds(callee)[types[k]])
    BY <1>2, <1>7, StackAssumption DEF DataOf
  <2> HIDE DEF types
  <2>4. s = e + half - 1
    BY <1>8, <2>3
  <2>5. s \in e .. e + Width(types[k]) - 1
    BY <2>2, <2>4
  <2> QED
    BY <2>1, <2>3, <2>5 DEF ArgSlots
<1>11. s \in Slots
  <2>1. ~(s >= MaxSlots)
    BY <1>6, <1>10 DEF Overruns
  <2> QED
    BY <1>9, <2>1, StackAssumption DEF Slots
<1>12. a[s] = args[k][half]
  <2> DEFINE writers == {j \in 1 .. Len(types) : s \in ArgSlots(Top, Bounds(callee), types, j)}
             last == CHOOSE j \in writers : \A i \in writers : i <= j
  <2>1. PICK base \in Nat : base = Top
    BY <1>2
  <2>2. s = DataOf(base, Bounds(callee)[ArgTypes[callee][k]]) + half - 1
    BY <1>8, <2>1
  <2>3. /\ {j \in 1 .. Len(types) : s \in ArgSlots(base, Bounds(callee), types, j)} = {k}
        /\ s - DataOf(base, ArgOffset(Bounds(callee), types, k)) + 1 = half
    <3>1. OneOfEachType(ArgTypes[callee])
      BY <1>5
    <3> QED
      BY <1>5, <1>11, <2>1, <2>2, <3>1, OnlyWriter
  <2>4. writers = {k} /\ s - DataOf(Top, ArgOffset(Bounds(callee), types, k)) + 1 = half
    BY <2>1, <2>3
  <2>5. a[s] = IF writers = {} THEN mem[s]
               ELSE args[last][s - DataOf(Top, ArgOffset(Bounds(callee), types, last)) + 1]
    <3>1. a = WithArgs(mem, Top, Bounds(callee), types, args)
      BY <1>6
    <3> HIDE DEF a
    <3>2. WithArgs(mem, Top, Bounds(callee), types, args)[s] =
            IF writers = {} THEN mem[s]
            ELSE args[last][s - DataOf(Top, ArgOffset(Bounds(callee), types, last)) + 1]
      BY <1>11, Zenon DEF WithArgs
    <3> HIDE DEF last, writers
    <3> QED
      BY <3>1, <3>2
  <2> HIDE DEF writers
  <2>6. last = k
    <3>1. k \in Nat
      OBVIOUS
    <3> QED
      BY <2>4, <3>1
  <2> HIDE DEF last, a
  <2> QED
    BY <2>4, <2>5, <2>6
<1>13. c[s] = a[s]
  <2>1. s - DataOf(Top, 0) \notin NulledOffsets(callee)
    <3>1. s - DataOf(Top, 0) >= Layout[callee].double
      BY <1>2, <1>7, <1>9, StackAssumption DEF DataOf
    <3>2. s - DataOf(Top, 0) \in Int
      BY <1>2, <1>9, StackAssumption DEF DataOf
    <3> QED
      BY <1>5, <1>7, <3>1, <3>2, NulledWithin
  <2> HIDE DEF a
  <2> QED
    BY <1>11, <2>1 DEF WithNulls
<1>14. mem'[s] = c[s]
  <2>1. s # Top /\ s \notin Top + 1 .. Top + HeaderSlots - 1
    <3>1. PICK tp \in Nat, z \in Nat, d \in Nat :
            tp = Top /\ z = HeaderSlots /\ d = Layout[callee].double
      BY <1>2, <1>7, StackAssumption
    <3>2. s \in Nat /\ s >= tp + z + d /\ z > 0
      BY <1>9, <3>1, StackAssumption
    <3>3. s # tp /\ s \notin tp + 1 .. tp + z - 1
      BY <3>2
    <3> QED
      BY <3>1, <3>3
  <2> HIDE DEF c, h
  <2> QED
    BY <1>1, <1>11, <2>1 DEF WithHeader
<1> QED
  BY <1>8, <1>12, <1>13, <1>14

(* The arguments of a call arrive where the section of their type begins,   *)
(* under the conditions ArgsDelivered states.                               *)
THEOREM ArgumentsArrive == Spec => []ArgsDelivered
<1>1. Init => ArgsDelivered
  BY DEF Init, ArgsDelivered
<1>2. StackInv /\ ArgsDelivered /\ [Next]_vars => ArgsDelivered'
  <2> SUFFICES ASSUME StackInv, ArgsDelivered, [Next]_vars PROVE ArgsDelivered'
    OBVIOUS
  <2>1. ASSUME UNCHANGED <<mem, current, passed>> PROVE ArgsDelivered'
    BY <2>1 DEF ArgsDelivered, OwnBounds, Current
  <2>2. ASSUME passed' = <<>> PROVE ArgsDelivered'
    BY <2>2 DEF ArgsDelivered
  <2>3. ASSUME NEW callee \in Methods, NEW b \in Methods, NEW args, NEW offset, NEW address,
               Prologue(callee, Bounds(b), args, offset, address),
               OwnBounds' /\ ~Overruns(Top, Bounds(b), ArgTypes[callee], callee)
                 => Bounds(b) = Bounds(callee)
        PROVE  ArgsDelivered'
    <3>1. CASE Overruns(Top, Bounds(b), ArgTypes[callee], callee)
      BY <2>1, <2>3, <3>1 DEF Prologue
    <3>2. CASE ~Overruns(Top, Bounds(b), ArgTypes[callee], callee)
      BY <2>3, <3>2, PrologueDelivers
    <3> QED
      BY <3>1, <3>2
  <2>4. ASSUME NEW m \in Methods, PushNative(m) PROVE ArgsDelivered'
    <3>1. PICK args : Prologue(m, Bounds(m), args, 0, 0)
      BY <2>4, PushNativeIsPrologue
    <3> QED
      BY <2>3, <3>1
  <2>5. ASSUME NEW m \in Methods, NEW address \in ReturnAddresses, NEW offset, NEW slots,
               Push(m, slots, offset, address)
        PROVE  ArgsDelivered'
    <3>1. /\ depth > 0 /\ ~fault
          /\ Prologue(m, Bounds(Current.method), CallerCells(ArgTypes[m], slots), offset, address)
      BY <2>5 DEF Push
    <3>2. PICK b \in Methods : b = Current.method
      BY <3>1, RunsAMethod
    <3>3. ASSUME OwnBounds', ~Overruns(Top, Bounds(b), ArgTypes[m], m)
          PROVE  Bounds(b) = Bounds(m)
      <4>1. Pushed(m, offset, address)
        <5>1. fault' = fault
          BY <3>1, <3>2, <3>3 DEF Prologue
        <5> QED
          BY <3>1, <3>2, <5>1, PrologueEffect
      <4>2. Current' = Header(current, m, offset, address, FrameSlots(m))
        BY <4>1 DEF Pushed, HeaderPlaced, Current
      <4>3. /\ Current'.address = address /\ Current'.method = m
            /\ Current'.previous = current
        BY <4>2 DEF Header
      <4>4. address # 0
        BY StackAssumption
      <4>5. mem'[current] = mem[current]
        <5>1. Len(frames) \in 1 .. Len(frames) /\ current = frames[Len(frames)]
          BY TopIsNatural
        <5>2. current \in Slots /\ current < Top
          BY <5>1, HeaderBegins, HeadersWithin
        <5> QED
          BY <4>1, <5>2 DEF Pushed, HeaderPlaced
      <4> QED
        BY <3>2, <3>3, <4>3, <4>4, <4>5 DEF OwnBounds, Current
    <3> QED
      BY <2>3, <3>1, <3>2, <3>3
  <2>6. ASSUME NEW t, Return(t) PROVE ArgsDelivered'
    BY <2>2, <2>6 DEF Return
  <2>7. ASSUME NEW t, NEW offset, WriteBack(t, offset) PROVE ArgsDelivered'
    BY <2>2, <2>7 DEF WriteBack
  <2>8. ASSUME NEW m \in Methods, PushRefused(m) PROVE ArgsDelivered'
    BY <2>2, <2>8 DEF PushRefused
  <2>9. CASE UNCHANGED vars
    BY <2>1, <2>9 DEF vars
  <2> QED
    BY <2>4, <2>5, <2>6, <2>7, <2>8, <2>9 DEF Next
<1> QED
  BY <1>1, <1>2, StackInvariance, PTL DEF Spec
=============================================================================
