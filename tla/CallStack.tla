----------------------------- MODULE CallStack -----------------------------
(***************************************************************************)
(* What the execution stack promises to the interpreter: activations are    *)
(* entered and left in last-in-first-out order, and leaving one uncovers    *)
(* the caller exactly as it was left.                                       *)
(***************************************************************************)
EXTENDS Integers, Sequences

CONSTANT Activations     \* what a call records: method, return offset, address

VARIABLE calls           \* the activations, outermost first

Init == calls = <<>>

Enter(a) == calls' = Append(calls, a)

Leave == calls # <<>> /\ calls' = SubSeq(calls, 1, Len(calls) - 1)

Next == (\E a \in Activations : Enter(a)) \/ Leave

Spec == Init /\ [][Next]_calls
=============================================================================
