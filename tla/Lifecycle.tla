------------------------------ MODULE Lifecycle ------------------------------
(***************************************************************************)
(* Starting and stopping the machine: virtual_machine::initialize and       *)
(* destroy with everything they call in logues/, one action per call of     *)
(* the platform.  The two spaces of the heap, the metaspace of the class    *)
(* loader and the stack of the executor each reserve one range of address   *)
(* space; the platform may refuse any of them, and what was reserved by     *)
(* then has to be given back.                                               *)
(*                                                                         *)
(* Each part keeps the address of its range in a field that is not reset    *)
(* when the range is given back, and the rest of the process reserves       *)
(* ranges too: an address given back twice may be somebody else's by then.  *)
(*                                                                         *)
(* classloader::initialize and stack::initialize are unfinished: they       *)
(* acquire, give back and answer false on every path.  `finished` says      *)
(* which of them would answer true where the code has nothing to object;    *)
(* the code as it is has {}.  The callers are as they are in all cases.     *)
(*                                                                         *)
(* Bound: the addresses (Bases).                                            *)
(***************************************************************************)
EXTENDS Naturals, Sequences

CONSTANT Bases         \* where the platform may reserve a range

Parts == {"space0", "space1", "metaspace", "stack"}

VARIABLES
  owner,       \* base -> who holds the range there: "free", "elsewhere" or a part
  base,        \* part -> base, root or stack_root, or NoBase before the first start
  stage,       \* where initialize or destroy has got to
  releasing,   \* the parts still to be given back, in order
  executors,   \* heap::vm_executors holds the bootstrap executor
  finished

vars == <<owner, base, stage, releasing, executors, finished>>

NoBase == "none"

ASSUME NoBaseAssumption == NoBase \notin Bases

Stages ==
  {"down", "space0", "space1", "metaspace", "bootstrap", "stack", "commit",
   "releasing", "running"}

Init ==
  /\ owner = [b \in Bases |-> "free"]
  /\ base = [p \in Parts |-> NoBase]
  /\ stage = "down"
  /\ releasing = <<>>
  /\ executors = FALSE
  /\ finished \in SUBSET {"metaspace", "stack"}

----------------------------------------------------------------------------
(* What is given back on each failing path.                                 *)

(* semispace::destroy.                                                      *)
SemispaceParts == <<"space0", "space1">>

HeapPartsTwice ==                       \* a slip: the loader already gave it back
  SemispaceParts \o <<"metaspace", "metaspace">>

(* heap::destroy: the allocator, then the class loader.                     *)
HeapParts == SemispaceParts \o <<"metaspace">>

RefusedForgetful(part) ==               \* a slip: the first space is kept
  IF part \in {"space0", "space1"} THEN <<>>
  ELSE IF part = "metaspace" THEN SemispaceParts ELSE HeapParts

(* When the reservation of `part` is refused: nothing for the first space;  *)
(* semispace::initialize, heap::initialize and virtual_machine::initialize  *)
(* destroy what came before.                                                *)
Refused(part) ==
  CASE part = "space0"    -> <<>>
    [] part = "space1"    -> <<"space0">>
    [] part = "metaspace" -> SemispaceParts
    [] part = "stack"     -> HeapParts

(* When the part itself fails after its reservation it gives that back and  *)
(* answers false like a refusal.                                            *)
Failed(part) == <<part>> \o Refused(part)

After(part) ==
  CASE part = "space0"    -> "space1"
    [] part = "space1"    -> "metaspace"
    [] part = "metaspace" -> "bootstrap"
    [] part = "stack"     -> "commit"

GiveBack(parts) ==
  /\ releasing' = parts
  /\ stage' = IF parts = <<>> THEN "down" ELSE "releasing"

----------------------------------------------------------------------------
(* virtual_machine::initialize.                                             *)

Start ==
  /\ stage = "down"
  /\ stage' = "space0"
  /\ UNCHANGED <<owner, base, releasing, executors, finished>>

(* platform::reserve_virtual_memory answers a range for the part.           *)
Reserve(part) ==
  /\ stage = part
  /\ \E b \in Bases :
       /\ owner[b] = "free"
       /\ owner' = [owner EXCEPT ![b] = part]
       /\ base' = [base EXCEPT ![part] = b]
  /\ stage' = After(part)
  /\ UNCHANGED <<releasing, executors, finished>>

RefuseAndRetry(part) ==                 \* a slip: asks until there is room
  stage = part /\ UNCHANGED vars

Refuse(part) ==
  /\ stage = part
  /\ GiveBack(Refused(part))
  /\ UNCHANGED <<owner, base, executors, finished>>

(* classloader::initialize has the metaspace.                               *)
Bootstrap ==
  /\ stage = "bootstrap"
  /\ \/ /\ "metaspace" \in finished
        /\ stage' = "stack"
        /\ UNCHANGED releasing
     \/ GiveBack(Failed("metaspace"))
  /\ UNCHANGED <<owner, base, executors, finished>>

(* stack::initialize has its range and asks for it to be committed, and     *)
(* virtual_machine::initialize registers the executor if all went well.     *)
CommitStack ==
  /\ stage = "commit"
  /\ \/ /\ "stack" \in finished
        /\ stage' = "running"
        /\ executors' = TRUE
        /\ UNCHANGED releasing
     \/ /\ GiveBack(Failed("stack"))
        /\ UNCHANGED executors
  /\ UNCHANGED <<owner, base, finished>>

(* virtual_machine::destroy: every registered executor, then the heap.      *)
Stop ==
  /\ stage = "running"
  /\ GiveBack((IF executors THEN <<"stack">> ELSE <<>>) \o HeapParts)
  /\ executors' = FALSE
  /\ UNCHANGED <<owner, base, finished>>

(* platform::dereserve_virtual_memory: the range at an address is released, *)
(* whoever has it; nothing happens where there is none.                     *)
Release ==
  /\ stage = "releasing"
  /\ LET b == base[Head(releasing)]
     IN  owner' = [owner EXCEPT ![b] = "free"]
  /\ GiveBack(Tail(releasing))
  /\ UNCHANGED <<base, executors, finished>>

(* The rest of the process (external).                                      *)
Elsewhere(b) ==
  /\ \/ owner[b] = "free" /\ owner' = [owner EXCEPT ![b] = "elsewhere"]
     \/ owner[b] = "elsewhere" /\ owner' = [owner EXCEPT ![b] = "free"]
  /\ UNCHANGED <<base, stage, releasing, executors, finished>>

Proceed ==
  \/ \E part \in Parts : Reserve(part) \/ Refuse(part)
  \/ Bootstrap
  \/ CommitStack
  \/ Release

Next == Start \/ Stop \/ Proceed \/ \E b \in Bases : Elsewhere(b)

Spec == Init /\ [][Next]_vars /\ WF_vars(Proceed)

----------------------------------------------------------------------------
(* Properties.                                                              *)

TypeOK ==
  /\ owner \in [Bases -> {"free", "elsewhere"} \cup Parts]
  /\ base \in [Parts -> Bases \cup {NoBase}]
  /\ stage \in Stages
  /\ releasing \in Seq(Parts)
  /\ executors \in BOOLEAN
  /\ finished \in SUBSET {"metaspace", "stack"}

Holds(part) == base[part] \in Bases /\ owner[base[part]] = part

(* A start that fails, wherever it does, and a stop leave no range of the   *)
(* machine behind; a machine that runs has all four.                        *)
NothingLeftBehind ==
  /\ stage = "down" => \A b \in Bases : owner[b] \notin Parts
  /\ stage = "running" => \A part \in Parts : Holds(part)

(* Whatever is about to be given back is still held by the part that gives  *)
(* it back: nothing is released twice, nor is a range somebody else has     *)
(* been given since.                                                        *)
ReleasesOwn == \A k \in DOMAIN releasing : Holds(releasing[k])

OwnRanges ==
  /\ ReleasesOwn
  /\ \A j, k \in DOMAIN releasing : releasing[j] = releasing[k] => j = k

(* Every start comes to an end: the machine runs, or it is down again.      *)
StartsEnd == stage = "space0" ~> stage \in {"running", "down"}
=============================================================================
