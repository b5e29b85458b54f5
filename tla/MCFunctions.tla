----------------------------- MODULE MCFunctions -----------------------------
(***************************************************************************)
(* Every operand of a few widths, every word, array and list of argument    *)
(* types, and class files, names and export tables of a small size.         *)
(***************************************************************************)
EXTENDS PureFunctions, Functions, SequencesExt

CONSTANTS
  NameBytes,      \* the bytes of names
  LongTable,      \* the most exports of a class looked at alone
  ShortTable      \* and of a class looked at with its superclass

SomeFields ==
  [string_idx : {0, 5}, data_idx : {0, 1, Values(3) - 1}, data_type : {0, Values(1) - 1}]

SomeFiles ==
  {f \in [class_references : 7 .. 9, implemented : 0 .. 2, instance_fields : 0 .. 2,
          static_fields : 0 .. 2, imports : 0 .. 2, methods : SeqOf({32, 40}, 3)] :
     SuperclassStart + f.implemented <= f.class_references}

(* Names of one to n bytes.                                                 *)
Names(n) == UNION {[1 .. k -> NameBytes] : k \in 1 .. n}

LongNames == Names(3)

(* Two exports of a table differ in every byte of their entries.            *)
Export(name, k) ==
  [name |-> name, string |-> <<k, k, k, k>>, data |-> <<k, k, 0>>, type |-> k]

Tables(names, most) ==
  {[k \in DOMAIN order |-> Export(order[k], k)] :
     order \in {s \in SeqOf(names, most) : IsInjective(s)}}

(* A class alone, or with its superclass and shorter names.                 *)
SomeChains ==
  {<<table>> : table \in Tables(LongNames, LongTable)}
    \cup (Tables(Names(2), ShortTable) \X Tables(Names(2), ShortTable))
=============================================================================
