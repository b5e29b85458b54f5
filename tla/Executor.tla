------------------------------ MODULE Executor ------------------------------
(***************************************************************************)
(* executor::invoke of core/executor.cpp: the loop that fetches, decodes    *)
(* and executes one instruction at a time, one action per family of         *)
(* instructions.                                                            *)
(*                                                                         *)
(* A frame holds slots of 4 bytes, here of Width bits; a long, a double and *)
(* a reference take two of them, low half first.  References are the        *)
(* numbers of heap objects, 0 is null.  A float is an integral value whose  *)
(* pattern differs from that of the integer.  How frames lie in memory is   *)
(* module VmStack, where heap objects go is Semispace; an argument of a     *)
(* call is whatever the callee finds in its slot 0.                         *)
(*                                                                         *)
(* The code executed is a constant.  Nobody verifies it ("TODO actually     *)
(* check the type", "TODO validate next instruction"): what the loop relies *)
(* on is CodeAssumption, and no type of a slot is part of it.               *)
(* Bounds: Width, Slots, StackSize, MaxObjects and PcLimit.                 *)
(***************************************************************************)
EXTENDS Arithmetic, Sequences

CONSTANTS
  Width,          \* bits in a 4-byte slot
  ByteWidth,      \* bits in a byte, a quarter of a slot
  Slots,          \* slots of a frame
  StackSize,      \* units of memory in the stack
  FrameSize,      \* method -> units its frame takes
  MaxObjects,     \* objects that fit in the heap
  PcLimit,        \* instr_idx_t wraps here
  Code,           \* method -> word index -> instruction
  ArgCount,       \* method -> number of arguments
  Entry,          \* methods native code invokes
  Strings,        \* index -> the bytes of a constant string
  Loadable,       \* classes load_class can load
  StaticFields,   \* class -> names of its static ints
  StaticMethods,  \* class -> name -> method
  Vmt,            \* class -> name -> method
  IsSuperclass    \* pairs <<superclass, class>> of the instanceof table

ASSUME ExecutorAssumption ==
  /\ ByteWidth \in Nat \ {0} /\ Width = 4 * ByteWidth
  /\ Slots \in Nat \ {0} /\ StackSize \in Nat \ {0}
  /\ \A m \in DOMAIN Code : FrameSize[m] \in Nat \ {0} /\ ArgCount[m] \in Nat
  /\ MaxObjects \in 0 .. 2 ^ Width - 1 /\ PcLimit \in Nat \ {0}

(* Of exponentiation the proofs use that 2 ^ n doubles, up to two slots.    *)
ASSUME PowersAssumption == Doubling(2 * Width)

(* Methods are found where the classes say, the classes of what the heap    *)
(* holds have tables, and strings are of bytes and of a length that is an   *)
(* int.                                                                     *)
ASSUME ClassesAssumption ==
  /\ Entry \subseteq DOMAIN Code
  /\ Loadable \subseteq DOMAIN StaticFields \cap DOMAIN StaticMethods
  /\ \A c \in DOMAIN StaticMethods :
       \A n \in DOMAIN StaticMethods[c] : StaticMethods[c][n] \in DOMAIN Code
  /\ {"String", "Bytes"} \subseteq DOMAIN Vmt
  /\ \A c \in DOMAIN Vmt : \A n \in DOMAIN Vmt[c] : Vmt[c][n] \in DOMAIN Code
  /\ \A k \in DOMAIN Strings :
       Strings[k] \in Seq(Ints(ByteWidth)) /\ Len(Strings[k]) < 2 ^ (Width - 1)

----------------------------------------------------------------------------
(* Slots, the types in them, and the code that uses them.                   *)

Wide(t) == t \in {"L", "D", "R"}

Size(t) == IF Wide(t) THEN 2 * Width ELSE Width

InFrame(t, s) == s \in 0 .. Slots - 1 /\ (Wide(t) => s + 1 \in 0 .. Slots - 1)

(* The array instructions name the type of an element.  A char and a short  *)
(* are ints in a slot.                                                      *)
SlotType(t) == IF t \in {"C", "S"} THEN "I" ELSE t

Bytes(t) == CASE t = "C" -> 1 [] t = "S" -> 2 [] t \in {"I", "F"} -> 4 [] OTHER -> 8

(* What an instruction reads of its frame: types and slots.                 *)
Operands(i) ==
  CASE i.op = "ALD" -> {<<"R", i.src1>>, <<"I", i.src2>>}
    [] i.op = "ASR" -> {<<"R", i.dest>>, <<SlotType(i.ty), i.src1>>, <<"I", i.src2>>}
    [] i.op = "OSR" -> {<<"R", i.dest>>, <<"R", i.src1>>}
    [] i.op \in {"OLD", "IOF", "BNULL", "VCALL", "DCALL"} -> {<<"R", i.src1>>}
    [] i.op \in {"CSR", "ANEW"} -> {<<"I", i.src1>>}
    [] i.op \in {"CAST", "AS"} -> {<<i.ty, i.src1>>}
    [] i.op = "RET" -> IF i.ty = "VOID" THEN {} ELSE {<<i.ty, i.src1>>}
    [] i.op \in {"LUI", "LDI", "LNUL", "LCS", "CLD", "NEW", "SCALL", "BU", "EXC", "ARGS"} -> {}
    [] OTHER -> {<<i.ty, i.src1>>} \cup (IF i.immediate THEN {} ELSE {<<i.ty, i.src2>>})

IsInstruction(m, at) == at \in DOMAIN Code[m] /\ Code[m][at].op # "ARGS"

(* What the loop takes for granted: operands are slots of the frame, the    *)
(* next instruction is one, and so is the target of a branch.               *)
ASSUME CodeAssumption ==
  \A m \in DOMAIN Code :
    /\ DOMAIN Code[m] \subseteq 0 .. PcLimit - 1 /\ IsInstruction(m, 0)
    /\ \A at \in DOMAIN Code[m] :
         LET i == Code[m][at] IN
           /\ \A o \in Operands(i) : InFrame(o[1], o[2])
           /\ i.dest \in 0 .. Slots - 1 /\ i.imm \in Int
           /\ i.op \in {"BLT", "BLE", "BEQ", "BNULL", "BU"} => IsInstruction(m, i.target)
           /\ i.op \notin {"BU", "RET", "SCALL", "VCALL", "DCALL", "ARGS"} =>
                IsInstruction(m, (at + 1) % PcLimit)

VARIABLES
  stack,      \* frames, innermost last (the root frame is left out)
  pc,         \* next_instruction
  depth,      \* 0 when no invoke is running
  raised,     \* exception_message: "no", "thrown" or "forgot"
  outcome,    \* what the last invoke returned
  heap,       \* sequence of objects
  statics,    \* class -> static field -> value
  loaded,     \* classes loaded so far
  crash       \* why the process stopped, or "no"

vars == <<stack, pc, depth, raised, outcome, heap, statics, loaded, crash>>

(* Changed by no instruction but the few that name them.                    *)
world == <<heap, statics, loaded>>

----------------------------------------------------------------------------
(* Patterns and the values they stand for.                                  *)

(* The pattern of a float is the complement of that of the integer.         *)
Encode(t, x) == Unsigned(Size(t), IF t \in {"F", "D"} THEN -1 - x ELSE x)

Decode(t, p) ==
  CASE t = "R" -> p
    [] t \in {"F", "D"} -> -1 - Signed(Size(t), p)
    [] OTHER -> Signed(Size(t), p)

Pattern(locals, t, s) ==
  IF Wide(t) THEN locals[s] + 2 ^ Width * locals[s + 1] ELSE locals[s]

(* checked_write: what lies past the last slot is not the frame's.          *)
Written(locals, t, d, x) ==
  [s \in 0 .. Slots - 1 |->
     CASE s = d -> Encode(t, x) % (2 ^ Width)
       [] Wide(t) /\ s = d + 1 -> Encode(t, x) \div (2 ^ Width)
       [] OTHER -> locals[s]]

Current == stack[Len(stack)]

(* Where the frames end.                                                    *)
End == IF stack = <<>> THEN 0 ELSE Current.end

Frame(m, arg, address, offset) ==
  [method |-> m, end |-> End + FrameSize[m], address |-> address, offset |-> offset,
   locals |-> [s \in 0 .. Slots - 1 |-> IF s = 0 THEN arg ELSE 0]]

Fits(m) == End + FrameSize[m] <= StackSize

Instr == Code[Current.method][pc]

Read(t, s) == Decode(t, Pattern(Current.locals, t, s))

----------------------------------------------------------------------------
(* How an instruction ends.                                                 *)

Running == depth > 0 /\ raised = "no" /\ crash = "no"

Fetched(ops) == Running /\ Instr.op \in ops

NextPc == (pc + 1) % PcLimit

(* writeback_dest, then on to the next word.                                *)
WriteBack(t, x) ==
  /\ stack' = [stack EXCEPT ![Len(stack)].locals = Written(@, t, Instr.dest, x)]
  /\ pc' = NextPc
  /\ UNCHANGED <<depth, raised, outcome, crash>>

Continue(target) ==
  /\ pc' = target
  /\ UNCHANGED <<stack, depth, raised, outcome, crash>>

RaiseWithNull ==                       \* a slip: null written to the destination
  /\ raised' = "thrown"
  /\ stack' = [stack EXCEPT ![Len(stack)].locals = Written(@, "R", Instr.dest, 0)]
  /\ pc' = NextPc
  /\ UNCHANGED <<depth, outcome, crash>>

(* exception_message is set and control goes to the label `exception`.      *)
Raise ==
  /\ raised' = "thrown"
  /\ pc' = NextPc
  /\ UNCHANGED <<stack, depth, outcome, crash>>

(* Undefined behaviour: what the process does from here, if it goes on at   *)
(* all, is not followed.                                                    *)
Stop(why) ==
  /\ crash' = why
  /\ UNCHANGED <<stack, pc, depth, raised, outcome>>

----------------------------------------------------------------------------
(* Arithmetic, branches, casts and constants.                               *)

Operand2 ==
  IF Instr.immediate THEN Wrap(Size(Instr.ty), Instr.imm) ELSE Read(Instr.ty, Instr.src2)

Compute(op, w, a, b) ==
  CASE op = "ADD" -> AddSafe(w, a, b)
    [] op = "SUB" -> SubSafe(w, a, b)
    [] op = "RSUB" -> SubSafe(w, b, a)
    [] op = "MUL" -> MulSafe(w, a, b)
    [] op = "AND" -> AndSafe(w, a, b)
    [] op = "OR" -> OrSafe(w, a, b)
    [] op = "XOR" -> XorSafe(w, a, b)
    [] op = "SLL" -> SllSafe(w, a, b)
    [] op = "SRL" -> SrlSafe(w, a, b)
    [] op = "SRA" -> SraSafe(w, a, b)

NumericOp ==
  /\ Fetched({"ADD", "SUB", "RSUB", "MUL", "AND", "OR", "XOR", "SLL", "SRL", "SRA"})
  /\ WriteBack(Instr.ty,
       Compute(Instr.op, Size(Instr.ty), Read(Instr.ty, Instr.src1), Operand2))
  /\ UNCHANGED world

DivideOutcome(w, a, b) ==
  CASE Instr.op = "DIV" -> DivSafe(w, a, b)
    [] Instr.op = "RDIV" -> DivSafe(w, b, a)
    [] Instr.op = "MOD" -> ModSafe(w, a, b)

DivMod ==
  /\ Fetched({"DIV", "RDIV", "MOD"})
  /\ LET r == DivideOutcome(Size(Instr.ty), Read(Instr.ty, Instr.src1), Operand2) IN
       \/ r.tag = "none" /\ Raise
       \/ r.tag = "trap" /\ Stop("overflow")
       \/ r.tag = "some" /\ WriteBack(Instr.ty, r.v)
  /\ UNCHANGED world

(* Floating-point results are rounded: any value of the type.  A division by  *)
(* zero raises nothing; FMOD and DMOD then use an optional that is empty.    *)
FloatOp ==
  /\ Fetched({"FADD", "FSUB", "FMUL", "FDIV", "FMOD"})
  /\ \E x \in Ints(Size(Instr.ty)) : WriteBack(Instr.ty, x)
  /\ UNCHANGED world

Taken(op, a, b) ==
  CASE op = "BLT" -> a < b
    [] op = "BLE" -> a <= b
    [] op = "BEQ" -> a = b

Branch ==
  /\ Fetched({"BLT", "BLE", "BEQ"})
  /\ Continue(IF Taken(Instr.op, Read(Instr.ty, Instr.src1), Operand2)
              THEN Instr.target ELSE NextPc)
  /\ UNCHANGED world

BranchNull ==
  /\ Fetched({"BNULL"})
  /\ Continue(IF Read("R", Instr.src1) = 0 THEN Instr.target ELSE NextPc)
  /\ UNCHANGED world

Jump == Fetched({"BU"}) /\ Continue(Instr.target) /\ UNCHANGED world

(* Every cast writes the value back as a 64-bit integer.                    *)
Cast ==
  /\ Fetched({"CAST"})
  /\ WriteBack("L", Read(Instr.ty, Instr.src1))
  /\ UNCHANGED world

(* IASF and the like copy the pattern to a slot of the other type.          *)
Reinterpret ==
  /\ Fetched({"AS"})
  /\ WriteBack(Instr.to, Decode(Instr.to, Encode(Instr.ty, Read(Instr.ty, Instr.src1))))
  /\ UNCHANGED world

(* LUI takes its immediate as it is.                                        *)
LoadConstant ==
  /\ Fetched({"LUI", "LDI", "LNUL"})
  /\ CASE Instr.op = "LUI" -> WriteBack("L", Instr.imm)
       [] Instr.op = "LDI" -> WriteBack("I", Instr.imm)
       [] Instr.op = "LNUL" -> WriteBack("R", 0)
  /\ UNCHANGED world

----------------------------------------------------------------------------
(* The heap.  `raw` is the header of memory nobody initialized.             *)

RawObject   == [kind |-> "raw"]
ArrayOf(b)  == [kind |-> "array", cells |-> b]
StringAt(k) == [kind |-> "object", class |-> "String", chars |-> k]

LoadString ==
  /\ Fetched({"LCS"})
  /\ \/ /\ \/ Instr.imm \notin DOMAIN Strings
           \/ Len(heap) + 2 > MaxObjects
        /\ Raise
        /\ UNCHANGED heap
     \/ /\ Instr.imm \in DOMAIN Strings
        /\ Len(heap) + 2 <= MaxObjects
        /\ heap' = heap \o <<StringAt(Len(heap) + 2), ArrayOf(Strings[Instr.imm])>>
        /\ WriteBack("R", Len(heap) + 1)
  /\ UNCHANGED <<statics, loaded>>

(* What a reference leads to.  One that is no object is the address of      *)
(* something else.                                                          *)
Kind(r) ==
  IF r = 0 THEN "null" ELSE IF r \in 1 .. Len(heap) THEN heap[r].kind ELSE "wild"

(* The first word there is read as a header: that of raw memory says        *)
(* "object", and its class pointer is null.                                 *)
Misread(kind) == IF kind = "raw" THEN Stop("no class") ELSE Stop("wild")

InRangeSigned(length, i) == i < length       \* a slip: the casts left out

(* The comparison is of the unsigned values.                                *)
InRange(length, i) == Unsigned(Width, i) < Unsigned(Width, length)

(* Where element i of type t would be, as cells of the array; a byte of it. *)
Place(t, i) == Bytes(t) * i + 1 .. Bytes(t) * i + Bytes(t)

Byte(p, k) == (p \div 2 ^ (ByteWidth * k)) % 2 ^ ByteWidth

Element(t, p) ==
  IF t \in {"C", "S"} THEN Signed(ByteWidth * Bytes(t), p) ELSE Decode(t, p)

(* array::get reads as many bytes as the type of the instruction has.  The  *)
(* only arrays there are have elements of one byte; nobody compares the two *)
(* ("TODO check type"), and the bounds test is of elements.                 *)
ArrayLoad ==
  /\ Fetched({"ALD"})
  /\ LET r == Read("R", Instr.src1)
         i == Read("I", Instr.src2)
     IN  \/ Kind(r) = "wild" /\ Stop("wild")
         \/ Kind(r) \in {"null", "raw", "object"} /\ Raise
         \/ /\ Kind(r) = "array"
            /\ ~InRange(Len(heap[r].cells), i)
            /\ Raise
         \/ /\ Kind(r) = "array"
            /\ InRange(Len(heap[r].cells), i)
            /\ Place(Instr.ty, i) \subseteq DOMAIN heap[r].cells
            /\ \E p \in Patterns(ByteWidth * Bytes(Instr.ty)) :
                 /\ \A k \in 0 .. Bytes(Instr.ty) - 1 :
                      Byte(p, k) =
                        Unsigned(ByteWidth, heap[r].cells[Bytes(Instr.ty) * i + 1 + k])
                 /\ WriteBack(SlotType(Instr.ty), Element(Instr.ty, p))
         \/ /\ Kind(r) = "array"
            /\ InRange(Len(heap[r].cells), i)
            /\ ~(Place(Instr.ty, i) \subseteq DOMAIN heap[r].cells)
            /\ Stop("stray")
  /\ UNCHANGED world

(* array::set; what a wide store overwrites past the array is not followed. *)
ArrayStore ==
  /\ Fetched({"ASR"})
  /\ LET r == Read("R", Instr.dest)
         i == Read("I", Instr.src2)
         t == SlotType(Instr.ty)
         x == Encode(t, Read(t, Instr.src1))
     IN  \/ Kind(r) = "wild" /\ Stop("wild") /\ UNCHANGED heap
         \/ Kind(r) \in {"null", "raw", "object"} /\ Raise /\ UNCHANGED heap
         \/ /\ Kind(r) = "array"
            /\ ~InRange(Len(heap[r].cells), i)
            /\ Raise
            /\ UNCHANGED heap
         \/ /\ Kind(r) = "array"
            /\ InRange(Len(heap[r].cells), i)
            /\ Place(Instr.ty, i) \subseteq DOMAIN heap[r].cells
            /\ heap' = [heap EXCEPT ![r].cells =
                 [c \in DOMAIN @ |->
                    IF c \in Place(Instr.ty, i)
                    THEN Signed(ByteWidth, Byte(x, c - (Bytes(Instr.ty) * i + 1)))
                    ELSE @[c]]]
            /\ Continue(NextPc)
         \/ /\ Kind(r) = "array"
            /\ InRange(Len(heap[r].cells), i)
            /\ ~(Place(Instr.ty, i) \subseteq DOMAIN heap[r].cells)
            /\ Stop("stray")
            /\ UNCHANGED heap
  /\ UNCHANGED <<statics, loaded>>

(* load_class: what an instruction resolves is loaded, and stays loaded     *)
(* when the instruction fails afterwards.                                   *)
Resolved(c) == c \in Loadable

Load(c) == loaded' = IF Resolved(c) THEN loaded \cup {c} ELSE loaded

ClassField ==
  /\ Fetched({"CLD", "CSR"})
  /\ Load(Instr.class)
  /\ \/ /\ ~Resolved(Instr.class) \/ Instr.name \notin StaticFields[Instr.class]
        /\ Raise
        /\ UNCHANGED statics
     \/ /\ Resolved(Instr.class) /\ Instr.name \in StaticFields[Instr.class]
        /\ \/ /\ Instr.op = "CLD"
              /\ WriteBack("I", statics[Instr.class][Instr.name])
              /\ UNCHANGED statics
           \/ /\ Instr.op = "CSR"
              /\ statics' = [statics EXCEPT ![Instr.class][Instr.name] =
                               Read("I", Instr.src1)]
              /\ Continue(NextPc)
  /\ UNCHANGED heap

(* The reference field of a string; the class of the import is resolved     *)
(* first, the class in the object's header is the one that is used.         *)
ObjectLoad ==
  /\ Fetched({"OLD"})
  /\ Load(Instr.class)
  /\ LET r == Read("R", Instr.src1) IN
       \/ ~Resolved(Instr.class) /\ Raise
       \/ Resolved(Instr.class) /\ Kind(r) \in {"null", "array"} /\ Raise
       \/ Resolved(Instr.class) /\ Kind(r) \in {"raw", "wild"} /\ Misread(Kind(r))
       \/ /\ Resolved(Instr.class)
          /\ Kind(r) = "object"
          /\ WriteBack("R", heap[r].chars)
  /\ UNCHANGED <<heap, statics>>

ObjectStore ==
  /\ Fetched({"OSR"})
  /\ Load(Instr.class)
  /\ LET r == Read("R", Instr.dest) IN
       \/ ~Resolved(Instr.class) /\ Raise /\ UNCHANGED heap
       \/ /\ Resolved(Instr.class)
          /\ Kind(r) \in {"null", "array"}
          /\ Raise
          /\ UNCHANGED heap
       \/ /\ Resolved(Instr.class)
          /\ Kind(r) \in {"raw", "wild"}
          /\ Misread(Kind(r))
          /\ UNCHANGED heap
       \/ /\ Resolved(Instr.class)
          /\ Kind(r) = "object"
          /\ heap' = [heap EXCEPT ![r].chars = Read("R", Instr.src1)]
          /\ Continue(NextPc)
  /\ UNCHANGED statics

(* allocate_object and allocate_array hand out memory as they find it.      *)
New ==
  /\ Fetched({"NEW"})
  /\ Load(Instr.class)
  /\ \/ /\ ~Resolved(Instr.class) \/ Len(heap) + 1 > MaxObjects
        /\ Raise
        /\ UNCHANGED heap
     \/ /\ Resolved(Instr.class) /\ Len(heap) + 1 <= MaxObjects
        /\ heap' = Append(heap, RawObject)
        /\ WriteBack("R", Len(heap) + 1)
  /\ UNCHANGED statics

(* The bytes asked for, header and spare word included, are computed on     *)
(* unsigned 64-bit numbers: a small negative length asks for few.           *)
ArrayBytes(length, elementSize) == length * elementSize + 16

NewArray ==
  /\ Fetched({"ANEW"})
  /\ LET fits == /\ ArrayBytes(Read("I", Instr.src1), Instr.imm) >= 0
                 /\ Len(heap) + 1 <= MaxObjects
     IN  \/ ~fits /\ Raise /\ UNCHANGED heap
         \/ /\ fits
            /\ heap' = Append(heap, RawObject)
            /\ WriteBack("R", Len(heap) + 1)
  /\ UNCHANGED <<statics, loaded>>

(* The class of what a reference leads to; arrays of bytes have one too.    *)
ClassOf(r) == IF Kind(r) = "array" THEN "Bytes" ELSE heap[r].class

Truth(b) == IF b THEN 1 ELSE 0

InstanceOf ==
  /\ Fetched({"IOF"})
  /\ Load(Instr.class)
  /\ LET r == Read("R", Instr.src1) IN
       \/ ~Resolved(Instr.class) /\ Raise
       \/ Resolved(Instr.class) /\ Kind(r) = "null" /\ WriteBack("I", 0)
       \/ Resolved(Instr.class) /\ Kind(r) \in {"raw", "wild"} /\ Misread(Kind(r))
       \/ /\ Resolved(Instr.class)
          /\ Kind(r) = "array"
          /\ WriteBack("I", Truth(Instr.class = "Bytes"))
       \/ /\ Resolved(Instr.class)
          /\ Kind(r) = "object"
          /\ WriteBack("I", Truth(<<Instr.class, ClassOf(r)>> \in IsSuperclass))
  /\ UNCHANGED <<heap, statics>>

----------------------------------------------------------------------------
(* Calls and returns.                                                       *)

ReturnAddress(m) == pc + (ArgCount[m] + 7) \div 8 + 1

CallFromNext(m, arg) ==                \* a slip: next_instruction not reset
  \/ ~Fits(m) /\ Raise
  \/ /\ Fits(m)
     /\ stack' = Append(stack, Frame(m, arg, ReturnAddress(m), Instr.dest))
     /\ pc' = NextPc
     /\ UNCHANGED <<depth, raised, outcome, crash>>

(* try_push_frame, or "Stack overflow".                                     *)
Call(m, arg) ==
  \/ ~Fits(m) /\ Raise
  \/ /\ Fits(m)
     /\ stack' = Append(stack, Frame(m, arg, ReturnAddress(m), Instr.dest))
     /\ pc' = 0
     /\ UNCHANGED <<depth, raised, outcome, crash>>

CallStatic(arg) ==
  /\ Fetched({"SCALL"})
  /\ Load(Instr.class)
  /\ \/ /\ ~Resolved(Instr.class) \/ Instr.name \notin DOMAIN StaticMethods[Instr.class]
        /\ Raise
     \/ /\ Resolved(Instr.class) /\ Instr.name \in DOMAIN StaticMethods[Instr.class]
        /\ Call(StaticMethods[Instr.class][Instr.name], arg)
  /\ UNCHANGED <<heap, statics>>

(* VCALL resolves the class and the method, then tests the receiver.  The   *)
(* index it has found is not compared with the size of the receiver's table.*)
CallVirtual(arg) ==
  /\ Fetched({"VCALL"})
  /\ Load(Instr.class)
  /\ LET r     == Read("R", Instr.src1)
         found == Resolved(Instr.class) /\ Instr.name \in DOMAIN Vmt[Instr.class]
     IN  \/ (~found \/ Kind(r) = "null") /\ Raise
         \/ found /\ Kind(r) \in {"raw", "wild"} /\ Misread(Kind(r))
         \/ /\ found
            /\ Kind(r) \in {"object", "array"}
            /\ IF Instr.name \in DOMAIN Vmt[ClassOf(r)]
               THEN Call(Vmt[ClassOf(r)][Instr.name], arg) ELSE Stop("no method")
  /\ UNCHANGED <<heap, statics>>

(* DCALL does not: the header of null is read.                              *)
CallDynamic(arg) ==
  /\ Fetched({"DCALL"})
  /\ LET r == Read("R", Instr.src1) IN
       \/ Kind(r) = "null" /\ Stop("null receiver")
       \/ Kind(r) \in {"raw", "wild"} /\ Misread(Kind(r))
       \/ /\ Kind(r) \in {"object", "array"}
          /\ IF Instr.name \in DOMAIN Vmt[ClassOf(r)]
             THEN Call(Vmt[ClassOf(r)][Instr.name], arg) ELSE Raise
  /\ UNCHANGED world

Popped == SubSeq(stack, 1, Len(stack) - 1)

ReturnToFrame ==                       \* a slip: the result written before the test
  /\ Fetched({"RET"})
  /\ depth' = depth - 1
  /\ stack' = IF Len(stack) > 1
              THEN [Popped EXCEPT ![Len(Popped)].locals =
                      Written(@, "I", Current.offset, Read("I", Instr.src1))]
              ELSE Popped
  /\ outcome' = [type |-> Instr.ty, v |-> 0]
  /\ pc' = 0
  /\ UNCHANGED <<raised, crash, heap, statics, loaded>>

(* The return instructions.  When `depth` gets to 0 invoke returns to       *)
(* native code; otherwise the result is written to the frame below, and the *)
(* break that follows steps past the return address.                        *)
Return ==
  /\ Fetched({"RET"})
  /\ depth' = depth - 1
  /\ LET x == IF Instr.ty = "VOID" THEN 0 ELSE Read(Instr.ty, Instr.src1) IN
       IF depth = 1
       THEN /\ stack' = Popped
            /\ outcome' = [type |-> Instr.ty, v |-> x]
            /\ pc' = 0
       ELSE /\ stack' = IF Instr.ty = "VOID" THEN Popped
                        ELSE [Popped EXCEPT ![Len(Popped)].locals =
                                Written(@, Instr.ty, Current.offset, x)]
            /\ pc' = (Current.address + 1) % PcLimit
            /\ UNCHANGED outcome
  /\ UNCHANGED <<raised, crash, heap, statics, loaded>>

(* EXC falls into the same label with no message set.                       *)
Exc == Fetched({"EXC"}) /\ Continue(NextPc) /\ UNCHANGED world

(* "Forgot a goto exception somewhere!!": the test at the bottom of the     *)
(* loop finds the message and goes back to the label.  next_instruction     *)
(* goes on counting, but nothing is fetched by it again: it is left alone.  *)
Spin ==
  /\ depth > 0 /\ raised # "no" /\ crash = "no"
  /\ raised' = "forgot"
  /\ UNCHANGED <<stack, pc, depth, outcome, heap, statics, loaded, crash>>

(* invoke, called by native code.                                           *)
Invoke(m, arg) ==
  /\ depth = 0 /\ crash = "no"
  /\ \/ /\ ~Fits(m)
        /\ outcome' = [type |-> "THROWN", v |-> 0]
        /\ UNCHANGED <<stack, pc, depth>>
     \/ /\ Fits(m)
        /\ stack' = Append(stack, Frame(m, arg, 0, 0))
        /\ pc' = 0
        /\ depth' = 1
        /\ UNCHANGED outcome
  /\ UNCHANGED <<raised, heap, statics, loaded, crash>>

Init ==
  /\ stack = <<>> /\ pc = 0 /\ depth = 0 /\ raised = "no"
  /\ outcome = [type |-> "none", v |-> 0]
  /\ heap = <<>>
  /\ statics = [c \in DOMAIN StaticFields |-> [f \in StaticFields[c] |-> 0]]
  /\ loaded = {}
  /\ crash = "no"

Execute ==
  \/ NumericOp \/ DivMod \/ FloatOp \/ Branch \/ BranchNull \/ Jump
  \/ Cast \/ Reinterpret \/ LoadConstant \/ LoadString
  \/ ArrayLoad \/ ArrayStore \/ ClassField \/ ObjectLoad \/ ObjectStore
  \/ New \/ NewArray \/ InstanceOf
  \/ (\E arg \in Patterns(Width) : CallStatic(arg))
  \/ (\E arg \in Patterns(Width) : CallVirtual(arg))
  \/ (\E arg \in Patterns(Width) : CallDynamic(arg))
  \/ Return \/ Exc \/ Spin

Next == Execute \/ \E m \in Entry, arg \in Patterns(Width) : Invoke(m, arg)

(* The loop of invoke never waits; native code need not call again.         *)
Spec == Init /\ [][Next]_vars /\ WF_vars(Execute)

----------------------------------------------------------------------------
(* Properties.                                                              *)

Frames ==
  [method : DOMAIN Code, end : 1 .. StackSize, address : Nat, offset : 0 .. Slots - 1,
   locals : [0 .. Slots - 1 -> Patterns(Width)]]

Arrays == [kind : {"array"}, cells : Seq(Ints(ByteWidth))]

Instances == [kind : {"object"}, class : {"String"}, chars : Patterns(2 * Width)]

(* Every slot holds a pattern of its width and every element of an array    *)
(* one of a byte, whatever was computed and written: checked_write and the  *)
(* casts to the element type never let a value out of its type.             *)
TypeOK ==
  /\ stack \in Seq(Frames) /\ Len(stack) <= StackSize
  /\ pc \in 0 .. PcLimit - 1
  /\ depth \in {0, 1} /\ depth <= Len(stack)
  /\ raised \in {"no", "thrown", "forgot"}
  /\ heap \in Seq({RawObject} \cup Arrays \cup Instances) /\ Len(heap) <= MaxObjects
  /\ loaded \subseteq Loadable
  /\ DOMAIN statics = DOMAIN StaticFields
  /\ \A c \in DOMAIN statics : statics[c] \in [StaticFields[c] -> Ints(Width)]

(* An instruction that raises an exception has done nothing else: neither   *)
(* the frames, nor the heap, nor the static fields show a trace of it, so   *)
(* a handler would find the state the instruction started from.             *)
FailedHasNoEffect ==
  [][(raised = "no" /\ raised' = "thrown") =>
       UNCHANGED <<stack, heap, statics, depth, outcome>>]_vars

(* No step touches a frame but the innermost: callers find their variables  *)
(* as they left them when what they called is done, or has failed.          *)
CallersUntouched ==
  [][\A i \in DOMAIN stack : i < Len(stack) =>
       i \in DOMAIN stack' /\ stack'[i] = stack[i]]_vars

(* The bounds test compares unsigned values, which turns away the negative  *)
(* ones too: no access touches what lies before an array, and what lies     *)
(* after it only one that is wider than the elements of the array, which    *)
(* nobody tests (object.h: "TODO check type").                              *)
OnlyWidthsStray ==
  crash = "stray" =>
    /\ Instr.op \in {"ALD", "ASR"}
    /\ Bytes(Instr.ty) > 1 /\ Read("I", Instr.src2) >= 0

(* The instruction fetched is always one: neither past the end of the       *)
(* method nor one of the argument words that follow a call, through every   *)
(* branch, call and return.                                                 *)
PcAtInstruction == Running => IsInstruction(Current.method, pc)

(* What the interpreter takes for granted at each step: every value has the *)
(* width of its type, and there is an instruction at pc.                    *)
MachineSound == TypeOK /\ PcAtInstruction

(* "Forgot a goto exception somewhere!!": a message still set at the bottom *)
(* of the loop is one no goto took to the label.                            *)
NoForgottenGoto == raised # "forgot"
=============================================================================
