------------------------------ MODULE VmStack ------------------------------
(***************************************************************************)
(* The execution stack of memory/ostack.{h,cpp}: frames laid out one after  *)
(* the other in one committed range, each with a header that links it to    *)
(* the frame below, pushed by executor::invoke and by the call              *)
(* instructions and popped by the return instructions.                      *)
(*                                                                         *)
(* The unit is the 4-byte slot by which instructions address a frame.  A    *)
(* frame at `b` has its header in the HeaderSlots slots from b on and its   *)
(* data region after them.  A header is one value, in the first of its      *)
(* slots; the others only exist to be overwritten.                          *)
(*                                                                         *)
(* Bounds: MaxSlots bounds the depth; Methods, ReturnAddresses and          *)
(* ReturnOffsets are what the calls of a small program would use.           *)
(***************************************************************************)
EXTENDS Integers, Sequences, FiniteSets

CONSTANTS
  MaxSlots,         \* max_stack_size / 4
  HeaderSlots,      \* sizeof(stack_frame_header) / 4
  PointerBytes,     \* sizeof(void *)
  Methods,          \* method names
  Layout,           \* method -> [double, long, float, int, total], in slots
  ArgTypes,         \* method -> the types of its arguments
  ReturnAddresses,
  ReturnOffsets

Types == {"OBJECT", "DOUBLE", "LONG", "FLOAT", "INT"}

ASSUME StackAssumption ==
  /\ HeaderSlots \in Nat \ {0}
  /\ MaxSlots \in Nat /\ HeaderSlots <= MaxSlots
  /\ PointerBytes \in Nat \ {0}
  /\ \A m \in Methods :
       /\ Layout[m] \in [double : Nat, long : Nat, float : Nat, int : Nat, total : Nat]
       /\ ArgTypes[m] \in Seq(Types)
  /\ ReturnAddresses \subseteq Nat \ {0} /\ ReturnOffsets \subseteq Nat

VARIABLES
  mem,        \* slot -> what it holds
  current,    \* the slot where the current frame begins
  depth,      \* the local of executor::invoke; 0 when no invoke is running
  fault,      \* a slot outside the range was written
  frames,     \* (history) the live frames, the root frame first
  passed      \* (history) the arguments of the last push, as <<type, value>>

vars == <<mem, current, depth, fault, frames, passed>>

Slots == 0 .. MaxSlots - 1

NoMethod == "none"
Zero     == [kind |-> "zero"]
Filler   == [kind |-> "filler"]

Header(prev, m, offset, address, total) ==
  [kind |-> "header", previous |-> prev, method |-> m, offset |-> offset,
   address |-> address, total |-> total]

Value(t, v, half) == [kind |-> "value", type |-> t, v |-> v, half |-> half]

(* Half of a 64-bit value that occupies two slots, the whole of a 32-bit    *)
(* one that occupies one.                                                   *)
Width(t) == IF t \in {"OBJECT", "DOUBLE", "LONG"} THEN 2 ELSE 1

Bytes(t) == 4 * Width(t)

Bounds(m) ==
  [t \in Types |->
     CASE t = "OBJECT" -> 0
       [] t = "DOUBLE" -> Layout[m].double
       [] t = "LONG"   -> Layout[m].long
       [] t = "FLOAT"  -> Layout[m].float
       [] t = "INT"    -> Layout[m].int]

(* A slip: the size of a frame without its header.                          *)
FrameSlotsOfData(m) == Layout[m].total

FrameSlots(m) == HeaderSlots + Layout[m].total

Init ==
  /\ mem = [s \in Slots |->
              IF s = 0 THEN Header(0, NoMethod, 0, 0, HeaderSlots)
              ELSE IF s < HeaderSlots THEN Filler ELSE Zero]
  /\ current = 0
  /\ depth = 0
  /\ fault = FALSE
  /\ frames = <<0>>
  /\ passed = <<>>

----------------------------------------------------------------------------
(* Slots of the section of a frame that holds the variables of a type.      *)

SectionEnd(m, t) ==
  CASE t = "OBJECT" -> Layout[m].double
    [] t = "DOUBLE" -> Layout[m].long
    [] t = "LONG"   -> Layout[m].float
    [] t = "FLOAT"  -> Layout[m].int
    [] t = "INT"    -> Layout[m].total

(* The offsets compiled code uses for a variable of type t.                 *)
Variables(m, t) ==
  {i \in Bounds(m)[t] .. SectionEnd(m, t) - Width(t) :
     ((i - Bounds(m)[t]) % Width(t)) = 0}

(* Method headers as a compiler writes them: sections in the order in which *)
(* get_bounds takes them, pointers in pairs of slots, and a variable for    *)
(* every argument.  The size of a pointer is even.                          *)
ASSUME LayoutAssumption ==
  /\ (PointerBytes % 2) = 0
  /\ \A m \in Methods :
       /\ (Layout[m].double % 2) = 0
       /\ Layout[m].double <= Layout[m].long /\ Layout[m].long <= Layout[m].float
       /\ Layout[m].float <= Layout[m].int /\ Layout[m].int <= Layout[m].total
       /\ \A k \in 1 .. Len(ArgTypes[m]) :
            LET t == ArgTypes[m][k] IN Bounds(m)[t] + Width(t) <= SectionEnd(m, t)

DataOfFrame(base, offset) == base + offset      \* a slip: the header forgotten

DataOf(base, offset) == base + HeaderSlots + offset

Written(m, at, cells) ==
  [s \in Slots |-> IF s \in at .. at + Len(cells) - 1 THEN cells[s - at + 1] ELSE m[s]]

Cells(t, v) == [half \in 1 .. Width(t) |-> Value(t, v, half)]

Current == mem[current]

TopShort == current + Current.total - 1          \* a slip: one slot short

Top == current + Current.total

----------------------------------------------------------------------------
(* The prologue: advance_frame, then the arguments, then the null pointers, *)
(* then the header.                                                         *)

CanAdvance(m) == Top + FrameSlots(m) <= MaxSlots

(* A slip: the count advanced before the argument is placed.                *)
ArgOffsetAfter(bounds, types, k) ==
  bounds[types[k]] + Bytes(types[k]) * Cardinality({j \in 1 .. k : types[j] = types[k]})

(* Where the k-th argument goes: `counts` starts at the bounds it is given  *)
(* and advances by the size in bytes of each argument of that type.         *)
ArgOffset(bounds, types, k) ==
  bounds[types[k]]
    + Bytes(types[k]) * Cardinality({j \in 1 .. k - 1 : types[j] = types[k]})

ArgSlots(base, bounds, types, k) ==
  LET at == DataOf(base, ArgOffset(bounds, types, k))
  IN  at .. at + Width(types[k]) - 1

WithArgs(m, base, bounds, types, args) ==
  [s \in Slots |->
     LET writers == {k \in 1 .. Len(types) : s \in ArgSlots(base, bounds, types, k)}
         last == CHOOSE k \in writers : \A j \in writers : j <= k
     IN  IF writers = {} THEN m[s]
         ELSE args[last][s - DataOf(base, ArgOffset(bounds, types, last)) + 1]]

(* A slip: the loop that clears the pointers starts at the second.          *)
NulledOffsetsLate(m) ==
  {i \in PointerBytes .. 4 * Layout[m].double + 1 :
     (i % PointerBytes) \in {0, 1} /\ (i - (i % PointerBytes)) < 4 * Layout[m].double}

(* The loop that clears the pointers steps by PointerBytes slots up to      *)
(* four times the first double, and clears two slots at each step.          *)
NulledOffsets(m) ==
  {i \in 0 .. 4 * Layout[m].double + 1 :
     (i % PointerBytes) \in {0, 1} /\ (i - (i % PointerBytes)) < 4 * Layout[m].double}

WithNulls(m, base, callee) ==
  [s \in Slots |-> IF s - DataOf(base, 0) \in NulledOffsets(callee) THEN Zero ELSE m[s]]

(* A slip: the return address is (also) saved in the frame of the caller.   *)
WithHeaderInCaller(m, base, h) ==
  [s \in Slots |-> IF s = base THEN h
                   ELSE IF s \in base + 1 .. base + HeaderSlots - 1 THEN Filler
                   ELSE IF s = current THEN [m[s] EXCEPT !.address = h.address]
                   ELSE m[s]]

WithHeader(m, base, h) ==
  [s \in Slots |-> IF s = base THEN h
                   ELSE IF s \in base + 1 .. base + HeaderSlots - 1 THEN Filler
                   ELSE m[s]]

(* Whether a write of the prologue lands past the end of the stack.         *)
Overruns(base, bounds, types, callee) ==
  \/ \E k \in 1 .. Len(types) :
       \E s \in ArgSlots(base, bounds, types, k) : s >= MaxSlots
  \/ \E i \in NulledOffsets(callee) : DataOf(base, i) >= MaxSlots

Prologue(callee, bounds, args, offset, address) ==
  LET base  == Top
      types == ArgTypes[callee]
  IN  /\ CanAdvance(callee)
      /\ IF Overruns(base, bounds, types, callee)
         THEN /\ fault' = TRUE
              /\ UNCHANGED <<mem, current, frames, passed>>
         ELSE /\ mem' = WithHeader(
                          WithNulls(WithArgs(mem, base, bounds, types, args), base, callee),
                          base,
                          Header(current, callee, offset, address, FrameSlots(callee)))
              /\ current' = base
              /\ frames' = Append(frames, base)
              /\ passed' = [k \in 1 .. Len(types) |-> <<types[k], args[k]>>]
              /\ UNCHANGED fault

(* try_push_native_frame, by executor::invoke on whatever the last one left.*)
PushNative(m) ==
  /\ ~fault
  /\ depth = 0
  /\ Prologue(m, Bounds(m),
              [k \in 1 .. Len(ArgTypes[m]) |-> Cells(ArgTypes[m][k], k)], 0, 0)
  /\ depth' = 1

(* The cells of the caller's variables named by `slots`.                    *)
CallerCells(types, slots) ==
  [k \in 1 .. Len(types) |->
     [half \in 1 .. Width(types[k]) |-> mem[DataOf(current, slots[k]) + half - 1]]]

(* try_push_frame: the arguments are placed by the caller's bounds.  A call *)
(* does not count in `depth`.                                               *)
Push(m, slots, offset, address) ==
  /\ ~fault
  /\ depth > 0
  /\ \A k \in 1 .. Len(ArgTypes[m]) :
       slots[k] \in Variables(Current.method, ArgTypes[m][k])
  /\ Prologue(m, Bounds(Current.method), CallerCells(ArgTypes[m], slots),
              offset, address)
  /\ UNCHANGED depth

(* Stack overflow: try_push_frame and try_push_native_frame return false.   *)
PushRefused(m) ==
  /\ ~fault
  /\ ~CanAdvance(m)
  /\ passed' = <<>>
  /\ UNCHANGED <<mem, current, depth, fault, frames>>

(* A return instruction pops the frame; unless invoke itself returns it     *)
(* then writes the result (but NRET has none) where the header it popped    *)
(* told to.                                                                 *)
Return(t) ==
  /\ ~fault
  /\ depth > 0
  /\ depth' = depth - 1
  /\ LET caller == Current.previous
         dest   == DataOf(caller, Current.offset)
     IN  /\ current' = caller
         /\ mem' = IF depth = 1 \/ t = "VOID" THEN mem
                   ELSE Written(mem, dest, Cells(t, 0))
  /\ frames' = SubSeq(frames, 1, Len(frames) - 1)
  /\ passed' = <<>>
  /\ UNCHANGED fault

(* Any other instruction that writes back to its destination.               *)
WriteBack(t, offset) ==
  /\ ~fault
  /\ depth > 0
  /\ offset \in Variables(Current.method, t)
  /\ mem' = Written(mem, DataOf(current, offset), Cells(t, 0))
  /\ passed' = <<>>
  /\ UNCHANGED <<current, depth, fault, frames>>

(* Compiled code names destinations that are variables of its frame.        *)
Destinations == {o \in ReturnOffsets : \E t \in Types : o \in Variables(Current.method, t)}

ArgChoices(m) ==
  {f \in [1 .. Len(ArgTypes[m]) -> UNION {Variables(Current.method, t) : t \in Types}] :
     \A k \in 1 .. Len(ArgTypes[m]) : f[k] \in Variables(Current.method, ArgTypes[m][k])}

Next ==
  \/ \E m \in Methods : PushNative(m)
  \/ \E m \in Methods : PushRefused(m)
  \/ /\ depth > 0
     /\ \E m \in Methods, address \in ReturnAddresses :
          \E offset \in Destinations, slots \in ArgChoices(m) :
            Push(m, slots, offset, address)
  \/ \E t \in Types \cup {"VOID"} : Return(t)
  \/ /\ depth > 0
     /\ \E t \in Types : \E offset \in Variables(Current.method, t) :
          WriteBack(t, offset)

Spec == Init /\ [][Next]_vars

----------------------------------------------------------------------------
(* What the collector visits: the frames from stack::begin to stack::end,   *)
(* and in each the slots from frame::begin to frame::end.                   *)

(* The frame stack_frame_iterator is at after k steps.                      *)
FrameAfter(k) ==
  LET at[n \in 0 .. k] == IF n = 0 THEN current ELSE mem[at[n - 1]].previous IN at[k]

(* frame_pointer_iterator advances by PointerBytes slots from 0 and is      *)
(* compared for equality with double_offset, in slots: it meets it, or runs *)
(* on beyond the frame.                                                     *)
WalkEnds(m) == (Layout[m].double % PointerBytes) = 0

Visited(m) == {i \in 0 .. Layout[m].double - 1 : (i % PointerBytes) = 0}

----------------------------------------------------------------------------
(* Properties.                                                              *)

TypeOK ==
  /\ DOMAIN mem = Slots
  /\ current \in Slots
  /\ depth \in 0 .. 1
  /\ fault \in BOOLEAN
  /\ frames \in Seq(Slots) /\ frames # <<>>

Frame(i) == mem[frames[i]]

(* No write of a prologue, a return or an instruction touches a live header:*)
(* whoever reads one finds what the push of that frame wrote.               *)
HeadersIntact ==
  \A i \in 1 .. Len(frames) :
    /\ Frame(i).kind = "header"
    /\ \A s \in frames[i] + 1 .. frames[i] + HeaderSlots - 1 : mem[s] = Filler

(* The live frames fill the stack from its root without gaps or overlaps,   *)
(* each links to the one below, and the last is the current frame and ends  *)
(* within max_stack_size.                                                   *)
FramesLinked ==
  /\ frames[1] = 0
  /\ current = frames[Len(frames)]
  /\ \A i \in 2 .. Len(frames) :
       /\ Frame(i).previous = frames[i - 1]
       /\ frames[i] = frames[i - 1] + Frame(i - 1).total
  /\ \A i \in 1 .. Len(frames) :
       /\ Frame(i).total >= HeaderSlots
       /\ frames[i] + Frame(i).total <= MaxSlots

(* What pop, the return instructions and the collector rely on.             *)
FramesSound == TypeOK /\ HeadersIntact /\ FramesLinked

(* The prologue of a call changes nothing in the frames that are live when  *)
(* it is made: not the variables of the caller, nor any header.             *)
PrologueWritesAbove ==
  [][Len(frames') > Len(frames) =>
       \A s \in 0 .. current + Current.total - 1 : mem'[s] = mem[s]]_vars

(* The frames in memory implement the stack of activations: what a push     *)
(* records is what the matching return finds, calls and stores in between   *)
(* notwithstanding.                                                         *)
Activations ==
  [method : Methods, offset : ReturnOffsets \cup {0}, address : ReturnAddresses \cup {0}]

Activation(h) == [method |-> h.method, offset |-> h.offset, address |-> h.address]

Calls == [i \in 1 .. Len(frames) - 1 |-> Activation(Frame(i + 1))]

Abstract == INSTANCE CallStack WITH calls <- Calls

ImplementsCallStack == Abstract!Spec

(* The walk of the collector meets every live frame but the root, the last  *)
(* first, and then ends; in a frame where the walk over the pointers ends,  *)
(* each slot it visits holds an object or null, both halves of it: never a  *)
(* number a deeper frame left there, nor an argument placed among the       *)
(* pointers by the bounds of another method.                                *)
RootsAreObjects ==
  /\ \A k \in 0 .. Len(frames) - 1 : FrameAfter(k) = frames[Len(frames) - k]
  /\ \A i \in 2 .. Len(frames) :
       WalkEnds(Frame(i).method) =>
         \A offset \in Visited(Frame(i).method) :
           LET at == DataOf(frames[i], offset)
           IN  \/ mem[at] = Zero /\ mem[at + 1] = Zero
               \/ /\ \A half \in 1 .. 2 :
                       /\ mem[at + half - 1].kind = "value"
                       /\ mem[at + half - 1].type = "OBJECT"
                       /\ mem[at + half - 1].half = half
                  /\ mem[at].v = mem[at + 1].v

(* Called from native code, or by a method with its own bounds.             *)
OwnBounds ==
  \/ Current.address = 0
  \/ Bounds(mem[Current.previous].method) = Bounds(Current.method)

OneOfEachType(types) ==
  \A j, k \in DOMAIN types : types[j] = types[k] => j = k

(* After such a push of a method with at most one pointer and one argument  *)
(* of each type, every argument but an object is, whole, where the section  *)
(* of its type begins: "Write arguments in order into appropriate sections  *)
(* of the stack" (specs/CallingConvention.md).                              *)
ArgsDelivered ==
  (/\ passed # <<>> /\ OwnBounds
   /\ 4 * Layout[Current.method].double <= PointerBytes
   /\ OneOfEachType(ArgTypes[Current.method])) =>
    \A k \in 1 .. Len(passed) :
      LET t == passed[k][1]
      IN  t # "OBJECT" =>
            \A half \in 1 .. Width(t) :
              mem[DataOf(current, Bounds(Current.method)[t]) + half - 1] = passed[k][2][half]
=============================================================================
