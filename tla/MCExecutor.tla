----------------------------- MODULE MCExecutor -----------------------------
(***************************************************************************)
(* Small programs for the executor, each made to reach every way the        *)
(* instructions in it can end.  Slot 0 holds the argument; calls are        *)
(* followed by one word of arguments.                                       *)
(***************************************************************************)
EXTENDS Executor

Blank == [op |-> "EXC", ty |-> "I", to |-> "I", dest |-> 1, src1 |-> 0, src2 |-> 0,
        immediate |-> FALSE, imm |-> 0, target |-> 0, class |-> "K", name |-> "f"]

Program(instructions) == [i \in 0 .. Len(instructions) - 1 |-> instructions[i + 1]]

Op(o, d, a, b) == [Blank EXCEPT !.op = o, !.dest = d, !.src1 = a, !.src2 = b]

Imm(o, d, a, k) ==
  [Blank EXCEPT !.op = o, !.dest = d, !.src1 = a, !.immediate = TRUE, !.imm = k]

Typed(i, t) == [i EXCEPT !.ty = t]

Constant(o, d, k) == [Blank EXCEPT !.op = o, !.dest = d, !.imm = k]

To(i, t) == [i EXCEPT !.target = t]

Convert(o, from, to, d, a) ==
  [Blank EXCEPT !.op = o, !.ty = from, !.to = to, !.dest = d, !.src1 = a]

Named(o, c, n, d, a) ==
  [Blank EXCEPT !.op = o, !.class = c, !.name = n, !.dest = d, !.src1 = a]

Ret(t, a) == [Blank EXCEPT !.op = "RET", !.ty = t, !.src1 = a]

Args == [Blank EXCEPT !.op = "ARGS"]

----------------------------------------------------------------------------
(* Every integer operation, on the argument.                                *)
Calc == Program(<<
  Op("ADD", 1, 0, 0), Imm("RSUB", 2, 0, 1), Op("SUB", 2, 1, 2), Imm("MUL", 1, 2, 3),
  Op("AND", 3, 0, 1), Op("OR", 2, 0, 3), Op("XOR", 1, 2, 0), Imm("SLL", 2, 1, 1),
  Imm("SRL", 3, 2, 1), Op("SRA", 1, 0, 3), Ret("I", 1)>>)

Divide == Program(<<
  Imm("DIV", 1, 0, -1), Op("DIV", 2, 1, 0), Imm("RDIV", 3, 1, 3), Imm("MOD", 3, 0, 2),
  Op("MOD", 1, 0, 3), Ret("I", 1)>>)

(* A loop that counts the argument down, with every kind of branch.         *)
Loop == Program(<<
  To(Imm("BLE", 0, 0, 0), 4), Imm("ADD", 0, 0, -1), To(Imm("BLT", 0, 0, 1), 4),
  [Blank EXCEPT !.op = "BU", !.target = 0],
  To(Op("BEQ", 0, 0, 1), 5), Blank, Ret("VOID", 0)>>)

Convert1 == Program(<<
  Convert("CAST", "I", "L", 2, 0), Convert("CAST", "I", "F", 1, 0),
  Convert("AS", "F", "I", 3, 1), Constant("LDI", 1, -1), Ret("VOID", 2)>>)

(* LUI and the conversions of floats.                                       *)
Upper == Program(<<
  Constant("LUI", 2, 5), Convert("AS", "I", "F", 0, 0), Ret("F", 0)>>)

(* A division of floats, of any result.                                     *)
Float == Program(<<
  Constant("LDI", 0, 0), Typed(Op("FDIV", 0, 0, 0), "F"),
  Typed(To(Op("BLT", 0, 0, 0), 3), "F"), Ret("VOID", 0)>>)

(* A string: its length is tested by reading it at the argument.            *)
Text == Program(<<
  Constant("LCS", 2, 0), Named("OLD", "String", "chars", 2, 2),
  Typed(Op("ALD", 1, 2, 0), "C"), Typed(Op("ASR", 2, 1, 0), "C"), Ret("VOID", 1)>>)

(* Wider elements of the bytes, at the argument: inside the array, past its *)
(* end, and out of bounds.                                                  *)
Wider == Program(<<
  Constant("LCS", 2, 0), Named("OLD", "String", "chars", 2, 2),
  Typed(Op("ASR", 2, 0, 0), "S"), Typed(Op("ALD", 1, 2, 0), "S"),
  Typed(Op("ASR", 2, 1, 0), "F"), Typed(Op("ALD", 1, 2, 0), "I"),
  Typed(Op("ASR", 2, 2, 0), "R"), Ret("VOID", 1)>>)

WiderLoad == Program(<<
  Constant("LCS", 2, 0), Named("OLD", "String", "chars", 2, 2),
  Typed(Op("ALD", 1, 2, 0), "L"), Ret("VOID", 1)>>)

Objects == Program(<<
  Constant("LCS", 2, 0), To([Blank EXCEPT !.op = "BNULL", !.src1 = 2], 6),
  Named("IOF", "String", "", 1, 2), Named("OSR", "String", "chars", 2, 2),
  Named("OLD", "String", "chars", 2, 2), Named("IOF", "Bytes", "", 1, 2),
  Constant("LNUL", 2, 0), Named("OLD", "String", "chars", 2, 2), Ret("VOID", 0)>>)

Fields == Program(<<
  Imm("AND", 1, 0, 1), Named("CSR", "K", "f", 0, 1), Named("CLD", "K", "f", 1, 0), Named("CLD", "K", "g", 1, 0),
  Ret("VOID", 0)>>)

Missing == Program(<< Named("NEW", "Lost", "", 2, 0), Ret("VOID", 0)>>)

Static == Program(<< Constant("LDI", 0, 0), Named("SCALL", "K", "calc", 1, 0), Args, Ret("VOID", 0) >>)

Deep == Program(<< Constant("LDI", 0, 0), Named("SCALL", "K", "deep", 1, 0), Args, Ret("VOID", 0) >>)

Virtual == Program(<<
  Constant("LNUL", 2, 0), To(Imm("BEQ", 0, 0, 0), 3), Constant("LCS", 2, 0),
  Constant("LDI", 0, 0), Named("VCALL", "String", "hash", 1, 2), Args, Ret("VOID", 1)>>)

Dynamic == Program(<<
  Constant("LCS", 2, 0), To(Imm("BLE", 0, 0, 0), 5), Constant("LDI", 0, 0), Named("DCALL", "String", "none", 1, 2),
  Args, Named("DCALL", "String", "hash", 1, 2), Args, Ret("VOID", 1)>>)

(* A cast to float overwrites half of the reference next to it.             *)
Clobbered == Program(<<
  Constant("LCS", 2, 0), Named("OLD", "String", "chars", 2, 2),
  Convert("CAST", "I", "F", 1, 0), To(Imm("BEQ", 0, 0, -1), 5),
  Typed(Op("ALD", 1, 2, 0), "C"), Typed(Op("ASR", 2, 1, 0), "C"), Ret("VOID", 1)>>)

(* Stores that fail, one way for each argument.                             *)
Store == Program(<<
  Constant("LNUL", 2, 0), To(Imm("BLT", 0, 0, -2), 5), To(Imm("BLT", 0, 0, 0), 6),
  To(Imm("BEQ", 0, 0, 0), 7), Named("NEW", "K", "", 2, 0),
  Named("OSR", "String", "chars", 2, 2), Typed(Op("ASR", 2, 0, 0), "C"),
  Named("OSR", "Lost", "chars", 2, 2), Ret("VOID", 0)>>)

(* The index is not tested before the store; the value is the argument.     *)
Put == Program(<<
  Constant("LCS", 2, 0), Named("OLD", "String", "chars", 2, 2),
  Typed(Op("ASR", 2, 0, 0), "C"), Ret("VOID", 0)>>)

(* New objects, used.                                                       *)
Make == Program(<<
  Imm("ANEW", 2, 0, 8), Named("NEW", "K", "", 2, 0), To(Imm("BEQ", 0, 0, 0), 4),
  Ret("R", 2), Named("OLD", "K", "chars", 2, 2), Ret("VOID", 0)>>)

MCCode ==
  [calc |-> Calc, divide |-> Divide, loop |-> Loop, convert |-> Convert1, upper |-> Upper, float |-> Float,
   text |-> Text, wider |-> Wider, widerload |-> WiderLoad, objects |-> Objects, fields |-> Fields, missing |-> Missing,
   static |-> Static, deep |-> Deep, virtual |-> Virtual, dynamic |-> Dynamic,
   make |-> Make, clobbered |-> Clobbered,
   store |-> Store, put |-> Put]

MCArgCount == [m \in DOMAIN MCCode |-> 1]

(* One frame is large, so that native code meets a full stack too.          *)
MCFrameSize == [m \in DOMAIN MCCode |-> IF m = "missing" THEN 2 ELSE 1]

MCLoadable == {"K", "String", "Bytes"}

MCStrings == [k \in {0} |-> <<0, -1, -1, 0>>]

MCStaticFields == [c \in MCLoadable |-> IF c = "K" THEN {"f"} ELSE {}]

MCStaticMethods ==
  [c \in MCLoadable |-> IF c = "K" THEN [calc |-> "calc", deep |-> "deep"] ELSE <<>>]

MCVmt == [c \in MCLoadable |-> IF c = "String" THEN [hash |-> "loop"] ELSE <<>>]

MCIsSuperclass == {<<c, c>> : c \in MCLoadable}
=============================================================================
