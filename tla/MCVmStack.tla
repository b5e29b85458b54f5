----------------------------- MODULE MCVmStack -----------------------------
(***************************************************************************)
(* VmStack with three methods, each of which may call every other: `leaf`   *)
(* has one int, `node` takes an object and an int, and `wide` has as many   *)
(* pointers as one step of the collector's walk passes.  The stack has room *)
(* for the root and three frames of node: it overflows, and the arguments   *)
(* or the cleared pointers of a call may end up past it.                    *)
(***************************************************************************)
EXTENDS VmStack

MethodLayout ==
  [leaf |-> [double |-> 0, long |-> 0, float |-> 0, int |-> 0, total |-> 1],
   node |-> [double |-> 2, long |-> 2, float |-> 2, int |-> 2, total |-> 3],
   wide |-> [double |-> 8, long |-> 8, float |-> 8, int |-> 8, total |-> 9]]

MethodArgs == [leaf |-> <<"INT">>, node |-> <<"OBJECT", "INT">>, wide |-> <<>>]
=============================================================================
