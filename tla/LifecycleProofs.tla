--------------------------- MODULE LifecycleProofs ---------------------------
(***************************************************************************)
(* However many addresses there are and wherever a start fails, nothing is  *)
(* left reserved and nothing is released by anyone but its holder.          *)
(***************************************************************************)
EXTENDS Lifecycle, SequenceTheorems, TLAPS

Members(parts) == {parts[k] : k \in DOMAIN parts}

Distinct(parts) == \A j, k \in DOMAIN parts : parts[j] = parts[k] => j = k

(* The parts that hold a range at each stage.                               *)
Expected ==
  CASE stage \in {"down", "space0"} -> {}
    [] stage = "space1" -> {"space0"}
    [] stage = "metaspace" -> {"space0", "space1"}
    [] stage \in {"bootstrap", "stack"} -> {"space0", "space1", "metaspace"}
    [] stage \in {"commit", "running"} -> Parts
    [] stage = "releasing" -> Members(releasing)

(* Exactly the expected parts hold a range, each the one it remembers.      *)
HeldBy(parts) ==
  /\ \A part \in parts : Holds(part)
  /\ \A b \in Bases : owner[b] \in Parts => owner[b] \in parts /\ base[owner[b]] = b

IInv ==
  /\ TypeOK
  /\ HeldBy(Expected)
  /\ Distinct(releasing)
  /\ stage = "releasing" <=> releasing # <<>>
  /\ executors <=> stage = "running"

----------------------------------------------------------------------------
(* The lists of what is to be given back.                                   *)

(* A list without repetitions that names the parts of a set.                *)
Lists(list, parts) == list \in Seq(Parts) /\ Distinct(list) /\ Members(list) = parts

(* Nothing to release.                                                      *)
LEMMA EmptyList == Lists(<<>>, {})
  BY DEF Lists, Distinct, Members

(* One range to release.                                                    *)
LEMMA OneList ==
  ASSUME NEW part \in Parts
  PROVE  Lists(<<part>>, {part}) /\ <<part>> # <<>>
  BY DEF Lists, Distinct, Members

(* Two lists of different parts, one after the other.                       *)
LEMMA JoinedLists ==
  ASSUME NEW s, NEW t, NEW S, NEW T, Lists(s, S), Lists(t, T), S \cap T = {}
  PROVE  Lists(s \o t, S \cup T) /\ (s # <<>> => s \o t # <<>>)
<1>1. s \in Seq(Parts) /\ t \in Seq(Parts)
  BY DEF Lists
<1>2. /\ s \o t \in Seq(Parts) /\ Len(s \o t) = Len(s) + Len(t)
      /\ \A i \in 1 .. Len(s) + Len(t) :
           (s \o t)[i] = IF i <= Len(s) THEN s[i] ELSE t[i - Len(s)]
  BY <1>1, ConcatProperties
<1>3. Len(s) \in Nat /\ Len(t) \in Nat /\ DOMAIN s = 1 .. Len(s) /\ DOMAIN t = 1 .. Len(t)
      /\ DOMAIN (s \o t) = 1 .. Len(s) + Len(t)
  BY <1>1, <1>2, LenProperties
<1>4. \A i \in DOMAIN s : s[i] \in S
  BY DEF Lists, Members
<1>5. \A i \in DOMAIN t : t[i] \in T
  BY DEF Lists, Members
<1>6. Members(s \o t) = S \cup T
  <2>1. ASSUME NEW p \in S PROVE p \in Members(s \o t)
    <3>1. PICK i \in DOMAIN s : s[i] = p
      BY DEF Lists, Members
    <3>2. i \in DOMAIN (s \o t) /\ (s \o t)[i] = p
      BY <1>2, <1>3, <3>1
    <3> QED
      BY <3>2 DEF Members
  <2>2. ASSUME NEW p \in T PROVE p \in Members(s \o t)
    <3>1. PICK i \in DOMAIN t : t[i] = p
      BY DEF Lists, Members
    <3>2. Len(s) + i \in DOMAIN (s \o t) /\ (s \o t)[Len(s) + i] = p
      BY <1>2, <1>3, <3>1
    <3> QED
      BY <3>2 DEF Members
  <2>3. ASSUME NEW i \in DOMAIN (s \o t) PROVE (s \o t)[i] \in S \cup T
    BY <1>2, <1>3, <1>4, <1>5
  <2> QED
    BY <2>1, <2>2, <2>3 DEF Members
<1>7. Distinct(s \o t)
  <2> SUFFICES ASSUME NEW j \in DOMAIN (s \o t), NEW k \in DOMAIN (s \o t),
                      (s \o t)[j] = (s \o t)[k]
               PROVE  j = k
    BY DEF Distinct
  <2>1. CASE j <= Len(s) /\ k <= Len(s)
    <3>1. j \in DOMAIN s /\ k \in DOMAIN s /\ s[j] = s[k]
      BY <1>2, <1>3, <2>1
    <3> QED
      BY <3>1 DEF Lists, Distinct
  <2>2. CASE j > Len(s) /\ k > Len(s)
    <3>1. j - Len(s) \in DOMAIN t /\ k - Len(s) \in DOMAIN t /\ t[j - Len(s)] = t[k - Len(s)]
      BY <1>2, <1>3, <2>2
    <3>2. j - Len(s) = k - Len(s)
      BY <3>1 DEF Lists, Distinct
    <3> QED
      BY <1>3, <3>2
  <2>3. CASE (j <= Len(s) /\ k > Len(s)) \/ (j > Len(s) /\ k <= Len(s))
    BY <1>2, <1>3, <1>4, <1>5, <2>3
  <2> QED
    BY <1>3, <2>1, <2>2, <2>3
<1>8. s # <<>> => s \o t # <<>>
  BY <1>2, <1>3
<1> QED
  BY <1>2, <1>6, <1>7, <1>8 DEF Lists

(* One part before others.                                                  *)
LEMMA PartThenList ==
  ASSUME NEW part \in Parts, NEW t, NEW T, Lists(t, T), part \notin T
  PROVE  Lists(<<part>> \o t, {part} \cup T) /\ <<part>> \o t # <<>>
<1>1. Lists(<<part>>, {part}) /\ <<part>> # <<>>
  BY OneList
<1>2. {part} \cap T = {}
  OBVIOUS
<1> QED
  BY <1>1, <1>2, JoinedLists, Zenon

(* One part after others.                                                   *)
LEMMA ListThenPart ==
  ASSUME NEW part \in Parts, NEW t, NEW T, Lists(t, T), part \notin T, t # <<>>
  PROVE  Lists(t \o <<part>>, T \cup {part}) /\ t \o <<part>> # <<>>
<1>1. Lists(<<part>>, {part}) /\ <<part>> # <<>>
  BY OneList
<1>2. T \cap {part} = {}
  OBVIOUS
<1> QED
  BY <1>1, <1>2, JoinedLists, Zenon

(* What each failing path gives back.                                       *)
LEMMA GivenBack ==
  /\ Lists(HeapParts, {"space0", "space1", "metaspace"}) /\ HeapParts # <<>>
  /\ Lists(Refused("space0"), {})
  /\ Lists(Refused("space1"), {"space0"})
  /\ Lists(Refused("metaspace"), {"space0", "space1"})
  /\ Lists(Refused("stack"), {"space0", "space1", "metaspace"})
  /\ Lists(Failed("metaspace"), {"space0", "space1", "metaspace"}) /\ Failed("metaspace") # <<>>
  /\ Lists(Failed("stack"), Parts) /\ Failed("stack") # <<>>
  /\ Lists(<<"stack">> \o HeapParts, Parts) /\ <<"stack">> \o HeapParts # <<>>
<1>1. "space0" \in Parts /\ "space1" \in Parts /\ "metaspace" \in Parts /\ "stack" \in Parts
  BY DEF Parts
<1>2. Lists(SemispaceParts, {"space0", "space1"}) /\ SemispaceParts # <<>>
  BY DEF SemispaceParts, Lists, Distinct, Members, Parts
<1>3. Lists(HeapParts, {"space0", "space1", "metaspace"}) /\ HeapParts # <<>>
  <2>1. "metaspace" \notin {"space0", "space1"}
    OBVIOUS
  <2>2. Lists(HeapParts, {"space0", "space1"} \cup {"metaspace"}) /\ HeapParts # <<>>
    BY <1>1, <1>2, <2>1, ListThenPart, Zenon DEF HeapParts
  <2>3. {"space0", "space1"} \cup {"metaspace"} = {"space0", "space1", "metaspace"}
    OBVIOUS
  <2> QED
    BY <2>2, <2>3, Zenon
<1>4. /\ Refused("space0") = <<>> /\ Refused("space1") = <<"space0">>
      /\ Refused("metaspace") = SemispaceParts /\ Refused("stack") = HeapParts
  BY DEF Refused
<1>5. Lists(<<"space0">>, {"space0"})
  BY <1>1, OneList
<1>6. Lists(Failed("metaspace"), {"space0", "space1", "metaspace"}) /\ Failed("metaspace") # <<>>
  <2>1. "metaspace" \notin {"space0", "space1"}
    OBVIOUS
  <2>2. Lists(Failed("metaspace"), {"metaspace"} \cup {"space0", "space1"})
        /\ Failed("metaspace") # <<>>
    BY <1>1, <1>2, <1>4, <2>1, PartThenList, Zenon DEF Failed
  <2>3. {"metaspace"} \cup {"space0", "space1"} = {"space0", "space1", "metaspace"}
    OBVIOUS
  <2> QED
    BY <2>2, <2>3, Zenon
<1>7. Lists(<<"stack">> \o HeapParts, Parts) /\ <<"stack">> \o HeapParts # <<>>
  <2>1. "stack" \notin {"space0", "space1", "metaspace"}
    OBVIOUS
  <2>2. Lists(<<"stack">> \o HeapParts, {"stack"} \cup {"space0", "space1", "metaspace"})
        /\ <<"stack">> \o HeapParts # <<>>
    BY <1>1, <1>3, <2>1, PartThenList, Zenon
  <2>3. {"stack"} \cup {"space0", "space1", "metaspace"} = Parts
    BY DEF Parts
  <2> QED
    BY <2>2, <2>3, Zenon
<1>8. Failed("stack") = <<"stack">> \o HeapParts
  BY <1>4, Zenon DEF Failed
<1> QED
  BY <1>2, <1>3, <1>4, <1>5, <1>6, <1>7, <1>8, EmptyList, Zenon

(* Giving a list back leads to the stage that expects exactly its parts.    *)
LEMMA GiveBackExpected ==
  ASSUME NEW list, NEW parts, Lists(list, parts), GiveBack(list)
  PROVE  /\ releasing' \in Seq(Parts) /\ stage' \in Stages
         /\ Expected' = parts /\ Distinct(releasing)'
         /\ (stage = "releasing")' <=> (releasing # <<>>)'
         /\ stage' # "running"
<1>1. releasing' = list
  BY DEF GiveBack
<1>2. CASE list = <<>>
  <2>1. stage' = "down" /\ parts = {}
    BY <1>2 DEF GiveBack, Lists, Members
  <2> QED
    BY <1>1, <1>2, <2>1 DEF Expected, Stages, Lists, Distinct
<1>3. CASE list # <<>>
  <2>1. stage' = "releasing"
    BY <1>3 DEF GiveBack
  <2> QED
    BY <1>1, <1>3, <2>1 DEF Expected, Stages, Lists, Distinct, Members
<1> QED
  BY <1>2, <1>3

----------------------------------------------------------------------------
(* The initial states and the actions.                                      *)

(* Nothing is held and nothing remembered.                                  *)
LEMMA Initially == Init => IInv
<1> SUFFICES ASSUME Init PROVE IInv
  OBVIOUS
<1>1. TypeOK
  <2>1. owner \in [Bases -> {"free", "elsewhere"} \cup Parts]
    BY DEF Init
  <2>2. base \in [Parts -> Bases \cup {NoBase}]
    BY DEF Init
  <2>3. releasing \in Seq(Parts)
    BY DEF Init
  <2>4. stage \in Stages /\ executors \in BOOLEAN /\ finished \in SUBSET {"metaspace", "stack"}
    BY DEF Init, Stages
  <2> QED
    BY <2>1, <2>2, <2>3, <2>4 DEF TypeOK
<1>2. Expected = {}
  BY DEF Init, Expected
<1>3. HeldBy({})
  BY DEF Init, HeldBy, Parts
<1>4. Distinct(releasing)
  BY DEF Init, Distinct
<1> QED
  BY <1>1, <1>2, <1>3, <1>4 DEF Init, IInv

(* When no range changes hands, it is enough that the expected parts are    *)
(* the same.                                                                *)
LEMMA NothingMoves ==
  ASSUME IInv, UNCHANGED <<owner, base>>, Expected' = Expected
  PROVE  HeldBy(Expected)'
  BY DEF IInv, HeldBy, Holds

(* A start begins with no range.                                            *)
LEMMA StartStep == ASSUME IInv, Start PROVE IInv'
<1>1. Expected' = Expected /\ stage' \in Stages
  BY DEF Start, Expected, Stages
<1> QED
  BY <1>1, NothingMoves DEF Start, IInv, TypeOK, Distinct

(* A part gets a range that was free.                                       *)
LEMMA ReserveStep ==
  ASSUME IInv, NEW part \in Parts, Reserve(part)
  PROVE  IInv'
<1>1. PICK b \in Bases : /\ owner[b] = "free"
                         /\ owner' = [owner EXCEPT ![b] = part]
                         /\ base' = [base EXCEPT ![part] = b]
  BY DEF Reserve
<1>2. stage = part /\ stage' = After(part) /\ UNCHANGED <<releasing, executors, finished>>
  BY DEF Reserve
<1>3. stage' \in Stages \ {"releasing", "running"} /\ stage # "releasing" /\ stage # "running"
  BY <1>2 DEF After, Parts, Stages
<1>4. Expected' = Expected \cup {part} /\ part \notin Expected /\ Expected \subseteq Parts
  BY <1>2 DEF Expected, After, Parts
<1>5. TypeOK'
  BY <1>1, <1>2, <1>3 DEF IInv, TypeOK
<1>6. \A p \in Expected' : Holds(p)'
  <2>1. CASE TRUE
    <3>1. Holds(part)'
      BY <1>1 DEF Holds, IInv, TypeOK
    <3>2. ASSUME NEW p \in Expected PROVE Holds(p)'
      <4>1. p # part /\ Holds(p) /\ p \in Parts
        BY <1>4 DEF IInv, HeldBy
      <4>2. base[p] # b
        BY <1>1, <4>1 DEF Holds, Parts
      <4> QED
        BY <1>1, <4>1, <4>2 DEF Holds, IInv, TypeOK
    <3> QED
      BY <1>4, <3>1, <3>2
  <2> QED
    BY <2>1
<1>7. ASSUME NEW c \in Bases, owner'[c] \in Parts
      PROVE  owner'[c] \in Expected' /\ base'[owner'[c]] = c
  <2>1. CASE c = b
    BY <1>1, <1>4, <2>1 DEF IInv, TypeOK
  <2>2. CASE c # b
    <3>1. owner'[c] = owner[c] /\ owner[c] \in Expected /\ base[owner[c]] = c
      BY <1>1, <1>7, <2>2 DEF IInv, TypeOK, HeldBy
    <3>2. owner[c] # part /\ owner[c] \in Parts
      BY <1>4, <3>1
    <3> QED
      BY <1>1, <1>4, <3>1, <3>2 DEF IInv, TypeOK
  <2> QED
    BY <2>1, <2>2
<1> QED
  BY <1>2, <1>3, <1>5, <1>6, <1>7 DEF IInv, HeldBy, Distinct

(* The actions that only decide what to give back.                          *)
LEMMA GiveBackStep ==
  ASSUME IInv, NEW list, Lists(list, Expected), GiveBack(list),
         UNCHANGED <<owner, base, finished>>, executors' = FALSE
  PROVE  IInv'
<1>1. /\ releasing' \in Seq(Parts) /\ stage' \in Stages
      /\ Expected' = Expected /\ Distinct(releasing)'
      /\ (stage = "releasing")' <=> (releasing # <<>>)'
      /\ stage' # "running"
  BY GiveBackExpected
<1>2. HeldBy(Expected)'
  BY <1>1, NothingMoves
<1> QED
  BY <1>1, <1>2 DEF IInv, TypeOK

(* A part gets none, and those before it give theirs back.                  *)
LEMMA RefuseStep ==
  ASSUME IInv, NEW part \in Parts, Refuse(part)
  PROVE  IInv'
<1>1. Lists(Refused(part), Expected)
  BY GivenBack DEF Refuse, Expected, Parts
<1>2. executors' = FALSE
  BY DEF Refuse, IInv, TypeOK, Parts
<1> QED
  BY <1>1, <1>2, GiveBackStep DEF Refuse

(* The unfinished end of classloader::initialize.                           *)
LEMMA BootstrapStep == ASSUME IInv, Bootstrap PROVE IInv'
<1>1. CASE stage' = "stack" /\ UNCHANGED releasing
  <2>1. Expected' = Expected /\ stage' \in Stages
    BY <1>1 DEF Bootstrap, Expected, Stages
  <2> QED
    BY <1>1, <2>1, NothingMoves DEF Bootstrap, IInv, TypeOK, Distinct
<1>2. CASE GiveBack(Failed("metaspace"))
  <2>1. Lists(Failed("metaspace"), Expected)
    BY GivenBack DEF Bootstrap, Expected
  <2>2. executors' = FALSE
    BY DEF Bootstrap, IInv, TypeOK
  <2> QED
    BY <1>2, <2>1, <2>2, GiveBackStep DEF Bootstrap
<1> QED
  BY <1>1, <1>2 DEF Bootstrap

(* The unfinished end of stack::initialize.                                 *)
LEMMA CommitStackStep == ASSUME IInv, CommitStack PROVE IInv'
<1>1. CASE stage' = "running" /\ executors' = TRUE /\ UNCHANGED releasing
  <2>1. Expected' = Expected /\ stage' \in Stages
    BY <1>1 DEF CommitStack, Expected, Stages
  <2> QED
    BY <1>1, <2>1, NothingMoves DEF CommitStack, IInv, TypeOK, Distinct
<1>2. CASE GiveBack(Failed("stack")) /\ UNCHANGED executors
  <2>1. Lists(Failed("stack"), Expected)
    BY GivenBack DEF CommitStack, Expected
  <2>2. executors' = FALSE
    BY <1>2 DEF CommitStack, IInv, TypeOK
  <2> QED
    BY <1>2, <2>1, <2>2, GiveBackStep DEF CommitStack
<1> QED
  BY <1>1, <1>2 DEF CommitStack

(* A machine that runs gives back all its ranges.                           *)
LEMMA StopStep == ASSUME IInv, Stop PROVE IInv'
<1>1. executors = TRUE
  BY DEF Stop, IInv, TypeOK
<1>2. GiveBack(<<"stack">> \o HeapParts)
  BY <1>1 DEF Stop
<1>3. Lists(<<"stack">> \o HeapParts, Expected)
  BY GivenBack DEF Stop, Expected
<1> QED
  BY <1>2, <1>3, GiveBackStep DEF Stop

(* The first of the list still holds its range, and no other part that one. *)
LEMMA ReleaseStep == ASSUME IInv, Release PROVE IInv'
<1> DEFINE part == Head(releasing)
           rest == Tail(releasing)
<1>1. stage = "releasing" /\ releasing # <<>> /\ releasing \in Seq(Parts)
      /\ UNCHANGED <<base, executors, finished>> /\ GiveBack(rest)
      /\ Expected = Members(releasing)
  BY DEF Release, IInv, TypeOK, Expected
<1>2. /\ part = releasing[1] /\ 1 \in DOMAIN releasing
      /\ rest \in Seq(Parts) /\ Len(rest) = Len(releasing) - 1
      /\ \A i \in 1 .. Len(rest) : rest[i] = releasing[i + 1]
      /\ DOMAIN releasing = 1 .. Len(releasing) /\ DOMAIN rest = 1 .. Len(rest)
      /\ Len(releasing) \in Nat \ {0}
  BY <1>1, HeadTailProperties
<1>3. Lists(rest, Expected \ {part})
  <2>1. Distinct(rest)
    BY <1>2 DEF IInv, Distinct
  <2>2. ASSUME NEW i \in DOMAIN rest PROVE rest[i] \in Expected \ {part}
    <3>1. i + 1 \in DOMAIN releasing /\ rest[i] = releasing[i + 1] /\ i + 1 # 1
      BY <1>2
    <3>2. releasing[i + 1] # releasing[1]
      BY <1>2, <3>1 DEF IInv, Distinct
    <3> QED
      BY <1>1, <1>2, <3>1, <3>2 DEF Members
  <2>3. ASSUME NEW p \in Expected \ {part} PROVE p \in Members(rest)
    <3>1. PICK i \in DOMAIN releasing : releasing[i] = p
      BY <1>1 DEF Members
    <3>2. i - 1 \in DOMAIN rest /\ rest[i - 1] = p
      BY <1>2, <3>1
    <3> QED
      BY <3>2 DEF Members
  <2> QED
    BY <1>2, <2>1, <2>2, <2>3 DEF Lists, Members
<1>4. /\ releasing' \in Seq(Parts) /\ stage' \in Stages
      /\ Expected' = Expected \ {part} /\ Distinct(releasing)'
      /\ (stage = "releasing")' <=> (releasing # <<>>)'
      /\ stage' # "running"
  BY <1>1, <1>3, GiveBackExpected
<1>5. part \in Parts /\ part \in Expected /\ Holds(part)
  BY <1>1, <1>2 DEF Members, IInv, HeldBy
<1>6. owner' = [owner EXCEPT ![base[part]] = "free"] /\ base[part] \in Bases
  BY <1>5 DEF Release, Holds
<1>7. TypeOK'
  BY <1>1, <1>4, <1>6 DEF IInv, TypeOK
<1>8. ASSUME NEW p \in Expected' PROVE Holds(p)'
  <2>1. p \in Expected /\ p # part /\ Holds(p)
    BY <1>4, <1>8 DEF IInv, HeldBy
  <2>2. base[p] # base[part]
    BY <1>5, <2>1 DEF Holds
  <2> QED
    BY <1>1, <1>6, <2>1, <2>2 DEF Holds, IInv, TypeOK
<1>9. ASSUME NEW c \in Bases, owner'[c] \in Parts
      PROVE  owner'[c] \in Expected' /\ base'[owner'[c]] = c
  <2>1. c # base[part]
    BY <1>6, <1>9 DEF IInv, TypeOK, Parts
  <2>2. owner'[c] = owner[c] /\ owner[c] \in Expected /\ base[owner[c]] = c
    BY <1>6, <1>9, <2>1 DEF IInv, TypeOK, HeldBy
  <2> QED
    BY <1>1, <1>4, <2>1, <2>2
<1> QED
  BY <1>1, <1>4, <1>7, <1>8, <1>9 DEF IInv, HeldBy

(* The rest of the process takes or frees an address that no part holds.    *)
LEMMA ElsewhereStep ==
  ASSUME IInv, NEW b \in Bases, Elsewhere(b)
  PROVE  IInv'
<1>1. /\ UNCHANGED <<base, stage, releasing, executors, finished>>
      /\ owner[b] \notin Parts /\ owner'[b] \notin Parts /\ owner' \in [Bases -> {"free", "elsewhere"} \cup Parts]
      /\ \A c \in Bases \ {b} : owner'[c] = owner[c]
  BY DEF Elsewhere, IInv, TypeOK, Parts
<1>2. Expected' = Expected
  BY <1>1 DEF Expected, Members
<1>3. Expected \subseteq Parts
  <2>1. CASE stage = "releasing"
    <3>1. \A k \in DOMAIN releasing : releasing[k] \in Parts
      BY DEF IInv, TypeOK
    <3> QED
      BY <2>1, <3>1 DEF Expected, Members
  <2>2. CASE stage # "releasing"
    BY <2>2 DEF Expected, IInv, TypeOK, Stages, Parts
  <2> QED
    BY <2>1, <2>2
<1>4. ASSUME NEW p \in Expected' PROVE Holds(p)'
  <2>1. Holds(p) /\ p \in Parts
    BY <1>2, <1>3, <1>4 DEF IInv, HeldBy
  <2> QED
    BY <1>1, <2>1 DEF Holds
<1>5. ASSUME NEW c \in Bases, owner'[c] \in Parts
      PROVE  owner'[c] \in Expected' /\ base'[owner'[c]] = c
  <2>1. c # b
    BY <1>1, <1>5
  <2>2. owner'[c] = owner[c] /\ owner[c] \in Parts
    BY <1>1, <1>5, <2>1
  <2> QED
    BY <1>1, <1>2, <2>2 DEF IInv, HeldBy
<1> QED
  BY <1>1, <1>4, <1>5 DEF IInv, TypeOK, HeldBy, Distinct

----------------------------------------------------------------------------
(* The results.                                                             *)

(* In every reachable state exactly the parts the stage expects hold a      *)
(* range, the one whose address they remember.                              *)
THEOREM Invariance == Spec => []IInv
<1>1. Init => IInv
  BY Initially
<1>2. IInv /\ [Next]_vars => IInv'
  <2> SUFFICES ASSUME IInv, [Next]_vars PROVE IInv'
    OBVIOUS
  <2>1. CASE Start
    BY <2>1, StartStep
  <2>2. CASE Stop
    BY <2>2, StopStep
  <2>3. ASSUME NEW part \in Parts, Reserve(part) PROVE IInv'
    BY <2>3, ReserveStep
  <2>4. ASSUME NEW part \in Parts, Refuse(part) PROVE IInv'
    BY <2>4, RefuseStep
  <2>5. CASE Bootstrap
    BY <2>5, BootstrapStep
  <2>6. CASE CommitStack
    BY <2>6, CommitStackStep
  <2>7. CASE Release
    BY <2>7, ReleaseStep
  <2>8. ASSUME NEW b \in Bases, Elsewhere(b) PROVE IInv'
    BY <2>8, ElsewhereStep
  <2>9. CASE UNCHANGED vars
    <3>1. Expected' = Expected /\ Distinct(releasing)' = Distinct(releasing)
      BY <2>9 DEF vars, Expected, Members, Distinct
    <3>2. HeldBy(Expected)'
      BY <2>9, <3>1, NothingMoves DEF vars
    <3> QED
      BY <2>9, <3>1, <3>2 DEF vars, IInv, TypeOK
  <2> QED
    BY <2>1, <2>2, <2>3, <2>4, <2>5, <2>6, <2>7, <2>8, <2>9 DEF Next, Proceed
<1> QED
  BY <1>1, <1>2, PTL DEF Spec

(* A failed start and a stop leave nothing reserved, however many addresses *)
(* there are and whatever the rest of the process reserves.                 *)
THEOREM LeavesNothing == Spec => []NothingLeftBehind
<1>1. IInv => NothingLeftBehind
  BY DEF IInv, HeldBy, Expected, NothingLeftBehind
<1> QED
  BY <1>1, Invariance, PTL

(* Nothing is released twice, and nothing that is somebody else's.          *)
THEOREM ReleasesOnlyOwn == Spec => []OwnRanges
<1>1. IInv => OwnRanges
  BY DEF IInv, HeldBy, Expected, Members, Distinct, OwnRanges, ReleasesOwn
<1> QED
  BY <1>1, Invariance, PTL
=============================================================================
