-------------------------- MODULE ClassLoaderProofs --------------------------
(***************************************************************************)
(* There is one class of a name, whatever the files say and in whatever     *)
(* order classes are asked for, and loading_classes holds exactly the loads *)
(* in progress.  Both rest on one fact: the names being loaded and the      *)
(* names in the cache are kept apart.                                       *)
(*                                                                          *)
(* Which names can be answered does not depend on the order either.  The    *)
(* loads in progress wait for each other in a chain of superclasses, so one *)
(* that asks for a class being loaded has closed a cycle, and no class of a *)
(* cycle can be loaded.                                                     *)
(*                                                                          *)
(* The entries of the instanceof table rest on that too: when a class is    *)
(* entered its superclasses are in the cache, so what is listed for it are  *)
(* classes, and it is one range of the table that no later load changes.    *)
(***************************************************************************)
EXTENDS ClassLoader, FiniteSetTheorems, FunctionTheorems, WellFoundedInduction, TLAPS

Frames == [name : Names, opened : BOOLEAN, at : Nat \ {0}, primary : Nat]

(* The loads in progress: of different names, each of a file that can be    *)
(* read once it is open, and with a class for a primary superclass.         *)
CallsSound ==
  /\ calls \in Seq(Frames)
  /\ \A i, j \in 1 .. Len(calls) : calls[i].name = calls[j].name => i = j
  /\ \A i \in 1 .. Len(calls) :
       /\ calls[i].opened => Readable(calls[i].name)
       /\ calls[i].primary \in DOMAIN classes \cup {Null}

Loading == loading = {calls[i].name : i \in 1 .. Len(calls)}

(* What OneClassPerName needs to be inductive: a name is either being       *)
(* loaded or in the cache, and a class is what the cache holds for its name.*)
CacheApart ==
  /\ loading \cap DOMAIN cached = {}
  /\ \A c \in DOMAIN classes :
       classes[c].name \in DOMAIN cached /\ cached[classes[c].name] = c

(* A step of the collector's walk leads from a class to a class, or to the  *)
(* end.                                                                     *)
Starts == {metaspace.used} \cup {c - 1 : c \in DOMAIN classes}

StepsOnClasses ==
  /\ 0 \in Starts
  /\ \A c \in DOMAIN classes : c - 1 + classes[c].class_size \in Starts

LoaderInv ==
  /\ TypeOK /\ CallsSound /\ Loading /\ CacheApart /\ StepsOnClasses
  /\ \E S : class_indeces \in Seq(S)

----------------------------------------------------------------------------
(* The calls.                                                               *)

(* What the invariant says of the innermost call.                           *)
LEMMA TopIsACall ==
  ASSUME LoaderInv, calls # <<>>
  PROVE  /\ Len(calls) \in 1 .. Len(calls) /\ Len(calls) \in Nat
         /\ Top \in Frames /\ Top.name \in Names /\ Top.name \in loading
         /\ Top.opened => Readable(Top.name)
         /\ Top.primary \in DOMAIN classes \cup {Null}
<1>1. Len(calls) \in Nat /\ Len(calls) > 0 /\ calls \in Seq(Frames)
  BY DEF LoaderInv, CallsSound
<1>2. Len(calls) \in 1 .. Len(calls)
  BY <1>1
<1>3. Top \in Frames /\ Top = calls[Len(calls)]
  BY <1>1, <1>2 DEF Top
<1>4. Top.name \in loading
  BY <1>2, <1>3 DEF LoaderInv, Loading
<1> QED
  BY <1>1, <1>2, <1>3, <1>4 DEF LoaderInv, CallsSound, Frames

(* A load of a name that is neither being loaded nor in the cache.          *)
LEMMA EnterKeeps ==
  ASSUME LoaderInv, NEW n \in Names, Unknown(n), Enter(n)
  PROVE  LoaderInv'
<1> DEFINE frame == [name |-> n, opened |-> FALSE, at |-> 1, primary |-> Null]
           k == Len(calls)
<1>1. /\ calls' = Append(calls, frame) /\ loading' = loading \cup {n}
      /\ UNCHANGED <<cached, metaspace, classes, class_indeces, superclasses, sized, walk>>
  BY DEF Enter, table
<1>2. calls \in Seq(Frames) /\ k \in Nat /\ frame \in Frames
  BY DEF LoaderInv, CallsSound, Frames, Null
<1>3. /\ calls' \in Seq(Frames) /\ Len(calls') = k + 1 /\ calls'[k + 1] = frame
      /\ \A i \in 1 .. k : calls'[i] = calls[i]
  BY <1>1, <1>2
<1>4. \A i \in 1 .. k : calls[i].name # n
  BY DEF LoaderInv, Loading, Unknown
<1>5. frame.name = n /\ frame.opened = FALSE /\ frame.primary = Null
  OBVIOUS
<1> HIDE DEF frame
<1>6. CallsSound'
  <2>1. ASSUME NEW i \in 1 .. k + 1, NEW j \in 1 .. k + 1, calls'[i].name = calls'[j].name
        PROVE  i = j
    BY <1>2, <1>3, <1>4, <1>5, <2>1 DEF LoaderInv, CallsSound
  <2>2. ASSUME NEW i \in 1 .. k + 1
        PROVE  /\ calls'[i].opened => Readable(calls'[i].name)
               /\ calls'[i].primary \in DOMAIN classes \cup {Null}
    <3>1. CASE i \in 1 .. k
      BY <1>3, <3>1 DEF LoaderInv, CallsSound
    <3>2. CASE i = k + 1
      BY <1>3, <1>5, <3>2
    <3> QED
      BY <1>2, <3>1, <3>2
  <2> QED
    BY <1>1, <1>3, <2>1, <2>2 DEF CallsSound, Readable
<1>7. Loading'
  <2>1. \A i \in 1 .. k + 1 : calls'[i].name \in loading \cup {n}
    BY <1>2, <1>3, <1>5 DEF LoaderInv, Loading
  <2>2. \A m \in loading \cup {n} : \E i \in 1 .. k + 1 : calls'[i].name = m
    BY <1>2, <1>3, <1>5 DEF LoaderInv, Loading
  <2> QED
    BY <1>1, <1>3, <2>1, <2>2 DEF Loading
<1>8. CacheApart'
  BY <1>1 DEF LoaderInv, CacheApart, Unknown
<1>9. TypeOK' /\ StepsOnClasses' /\ (\E S : class_indeces' \in Seq(S))
  BY <1>1 DEF LoaderInv, TypeOK, WalkOnClasses, StepsOnClasses, Starts
<1> QED
  BY <1>6, <1>7, <1>8, <1>9 DEF LoaderInv

(* A step within impl_load_class: the frame changes, nothing else does.     *)
LEMMA AdvanceKeeps ==
  ASSUME LoaderInv, calls # <<>>, NEW frame \in Frames, Advance(frame),
         UNCHANGED <<cached, loading, table, walk>>,
         frame.name = Top.name, frame.opened => Readable(frame.name),
         frame.primary \in DOMAIN classes \cup {Null}
  PROVE  LoaderInv'
<1> DEFINE k == Len(calls)
<1>1. UNCHANGED <<cached, loading, metaspace, classes, class_indeces, superclasses, sized, walk>>
  BY DEF table
<1>2. k \in 1 .. k /\ k \in Nat /\ calls \in Seq(Frames) /\ Top = calls[k]
  BY TopIsACall DEF LoaderInv, CallsSound, Top
<1>3. calls' = [calls EXCEPT ![k] = frame]
  BY DEF Advance
<1>4. /\ calls' \in Seq(Frames) /\ Len(calls') = k /\ calls'[k] = frame
      /\ \A i \in 1 .. k : i # k => calls'[i] = calls[i]
  BY <1>2, <1>3
<1>5. \A i \in 1 .. k : calls'[i].name = calls[i].name
  BY <1>2, <1>4
<1>6. CallsSound'
  <2>1. \A i, j \in 1 .. k : calls'[i].name = calls'[j].name => i = j
    BY <1>5 DEF LoaderInv, CallsSound
  <2>2. ASSUME NEW i \in 1 .. k
        PROVE  /\ calls'[i].opened => Readable(calls'[i].name)
               /\ calls'[i].primary \in DOMAIN classes \cup {Null}
    BY <1>4 DEF LoaderInv, CallsSound
  <2> QED
    BY <1>1, <1>4, <2>1, <2>2 DEF CallsSound, Readable
<1>7. Loading'
  BY <1>1, <1>4, <1>5 DEF LoaderInv, Loading
<1>8. TypeOK' /\ CacheApart' /\ StepsOnClasses' /\ (\E S : class_indeces' \in Seq(S))
  BY <1>1 DEF LoaderInv, TypeOK, WalkOnClasses, CacheApart, StepsOnClasses, Starts
<1> QED
  BY <1>6, <1>7, <1>8 DEF LoaderInv

(* A load that ends: its name leaves loading_classes and enters the cache.  *)
LEMMA LeaveEffect ==
  ASSUME LoaderInv, calls # <<>>, NEW c, Leave(c)
  PROVE  /\ calls' \in Seq(Frames) /\ Len(calls') = Len(calls) - 1
         /\ \A i \in 1 .. Len(calls') : i \in 1 .. Len(calls) /\ calls'[i] = calls[i]
         /\ Loading'
         /\ Top.name \notin DOMAIN cached /\ Top.name \in Names
         /\ Top.name \notin loading'
         /\ DOMAIN cached' = DOMAIN cached \cup {Top.name}
         /\ cached'[Top.name] = c
         /\ \A m \in DOMAIN cached : cached'[m] = cached[m]
         /\ loading' \subseteq loading
<1> DEFINE k == Len(calls)
<1>1. /\ k \in 1 .. k /\ k \in Nat /\ calls \in Seq(Frames) /\ Top = calls[k]
      /\ Top.name \in loading /\ Top.name \in Names
  BY TopIsACall DEF LoaderInv, CallsSound, Top
<1>2. Top.name \notin DOMAIN cached
  BY <1>1 DEF LoaderInv, CacheApart
<1>3. /\ calls' = SubSeq(calls, 1, k - 1) /\ loading' = loading \ {Top.name}
      /\ cached' = Cached(Top.name, c)
  BY DEF Leave, Front
<1>4. /\ calls' \in Seq(Frames) /\ Len(calls') = k - 1
      /\ \A i \in 1 .. k - 1 : i \in 1 .. k /\ calls'[i] = calls[i]
  <2>1. PICK n \in Nat : k = n + 1
    <3>1. k - 1 \in Nat /\ k = (k - 1) + 1
      BY <1>1
    <3> QED
      BY <3>1
  <2>2. Len(calls) = n + 1 /\ calls \in Seq(Frames)
    BY <1>1, <2>1
  <2>3. calls' = SubSeq(calls, 1, n)
    <3>1. k - 1 = n
      BY <2>1
    <3> QED
      BY <1>3, <3>1
  <2>4. calls' \in Seq(Frames) /\ Len(calls') = n
    BY <2>2, <2>3
  <2>5. \A i \in 1 .. n : i \in 1 .. k /\ calls'[i] = calls[i]
    BY <2>1, <2>2, <2>3
  <2> QED
    BY <2>1, <2>4, <2>5
<1>5. Loading'
  <2>1. \A i \in 1 .. k - 1 : calls'[i].name \in loading \ {Top.name}
    <3>1. \A i \in 1 .. k - 1 : i # k
      BY <1>1
    <3> QED
      BY <1>1, <1>4, <3>1 DEF LoaderInv, Loading, CallsSound
  <2>2. ASSUME NEW m \in loading \ {Top.name}
        PROVE  \E i \in 1 .. k - 1 : calls'[i].name = m
    <3>1. PICK i \in 1 .. k : calls[i].name = m
      BY DEF LoaderInv, Loading
    <3>2. i # k
      BY <1>1, <3>1
    <3>3. i \in 1 .. k - 1
      BY <1>1, <3>2
    <3> QED
      BY <1>4, <3>1, <3>3
  <2> QED
    BY <1>3, <1>4, <2>1, <2>2 DEF Loading
<1>6. /\ DOMAIN cached' = DOMAIN cached \cup {Top.name} /\ cached'[Top.name] = c
      /\ \A m \in DOMAIN cached : cached'[m] = cached[m]
  <2>1. PICK name : name = Top.name
    OBVIOUS
  <2>2. cached' = [m \in DOMAIN cached \cup {name} |-> IF m \in DOMAIN cached THEN cached[m] ELSE c]
    BY <1>3, <2>1 DEF Cached
  <2> QED
    BY <1>2, <2>1, <2>2
<1> QED
  BY <1>1, <1>2, <1>3, <1>4, <1>5, <1>6

(* The calls that remain are as sound as they were, in a program with at    *)
(* least the classes there were.                                            *)
LEMMA CallsRemainSound ==
  ASSUME LoaderInv, calls' \in Seq(Frames), Len(calls') = Len(calls) - 1,
         \A i \in 1 .. Len(calls') : i \in 1 .. Len(calls) /\ calls'[i] = calls[i],
         DOMAIN classes \subseteq DOMAIN classes'
  PROVE  CallsSound'
BY DEF LoaderInv, CallsSound, Readable

(* A load that fails leaves nothing but the answer in the cache.            *)
LEMMA FailKeeps ==
  ASSUME LoaderInv, calls # <<>>, Fail
  PROVE  LoaderInv'
<1>1. Leave(Null) /\ UNCHANGED <<metaspace, classes, class_indeces, superclasses, sized, walk>>
  BY DEF Fail, table
<1>2. /\ calls' \in Seq(Frames) /\ Len(calls') = Len(calls) - 1
      /\ \A i \in 1 .. Len(calls') : i \in 1 .. Len(calls) /\ calls'[i] = calls[i]
      /\ Loading'
  BY <1>1, LeaveEffect
<1>3. /\ Top.name \notin DOMAIN cached /\ Top.name \in Names /\ Top.name \notin loading'
      /\ DOMAIN cached' = DOMAIN cached \cup {Top.name} /\ cached'[Top.name] = Null
      /\ \A m \in DOMAIN cached : cached'[m] = cached[m]
      /\ loading' \subseteq loading
  BY <1>1, LeaveEffect
<1>4. CallsSound'
  BY <1>1, <1>2, CallsRemainSound
<1>5. CacheApart'
  <2>1. loading' \cap DOMAIN cached' = {}
    BY <1>3 DEF LoaderInv, CacheApart
  <2>2. \A c \in DOMAIN classes : classes[c].name \in DOMAIN cached' /\ cached'[classes[c].name] = c
    BY <1>3 DEF LoaderInv, CacheApart
  <2> QED
    BY <1>1, <2>1, <2>2 DEF CacheApart
<1>6. TypeOK'
  <2>1. DOMAIN cached' \subseteq Names /\ loading' \subseteq Names
    BY <1>3 DEF LoaderInv, TypeOK
  <2>2. \A n \in DOMAIN cached' : cached'[n] \in DOMAIN classes \cup {Null}
    BY <1>3 DEF LoaderInv, TypeOK
  <2> QED
    BY <1>1, <2>1, <2>2 DEF LoaderInv, TypeOK, WalkOnClasses
<1>7. StepsOnClasses' /\ (\E S : class_indeces' \in Seq(S))
  BY <1>1 DEF LoaderInv, StepsOnClasses, Starts
<1> QED
  BY <1>2, <1>4, <1>5, <1>6, <1>7 DEF LoaderInv

(* A new class, at the end of the metaspace and last in the table.          *)
LEMMA DefineKeeps ==
  ASSUME LoaderInv, Define
  PROVE  LoaderInv'
<1> DEFINE size == Files[Top.name].size
           c    == metaspace.used + 1
<1>1. calls # <<>> /\ Top.opened
  BY DEF Define
<1>2. CASE ~CanAllocate(metaspace, size)
  <2>1. Fail
    BY <1>2 DEF Define
  <2> QED
    BY <1>1, <2>1, FailKeeps
<1>3. CASE CanAllocate(metaspace, size)
  <2>1. /\ metaspace' = Allocate(metaspace, size)
        /\ classes' = [d \in DOMAIN classes \cup {c} |-> IF d = c THEN Header ELSE classes[d]]
        /\ class_indeces' = Append(class_indeces, Index)
        /\ Leave(c) /\ UNCHANGED <<walk, sized>>
    BY <1>3 DEF Define
  <2>2. size \in Nat \ {0} /\ Top.primary \in DOMAIN classes \cup {Null}
    BY <1>1, TopIsACall, FilesAssumption DEF Readable
  <2>3. /\ metaspace \in Allocator /\ metaspace.used \in Nat
        /\ \A d \in DOMAIN classes : d \in 1 .. metaspace.used
    BY DEF LoaderInv, TypeOK, Allocator
  <2>4. /\ metaspace' \in Allocator /\ metaspace'.used = metaspace.used + size
        /\ metaspace'.used <= metaspace'.committed
    <3> HIDE DEF size
    <3>1. PICK n \in Nat : n = metaspace.used + size
      BY <2>2, <2>3
    <3>2. metaspace' = [metaspace EXCEPT !.used = n]
      BY <2>1, <3>1 DEF Allocate
    <3>3. /\ metaspace' \in Allocator
          /\ metaspace'.used = n /\ metaspace'.committed = metaspace.committed
      BY <2>3, <3>1, <3>2 DEF Allocator
    <3>4. n <= metaspace.committed
      BY <1>3, <3>1 DEF CanAllocate
    <3> QED
      BY <3>1, <3>3, <3>4
  <2>5. /\ c \notin DOMAIN classes /\ c \in Nat /\ c - 1 = metaspace.used
        /\ c \in 1 .. metaspace'.used
    BY <2>2, <2>3, <2>4
  <2>6. /\ DOMAIN classes' = DOMAIN classes \cup {c} /\ classes'[c] = Header
        /\ \A d \in DOMAIN classes : classes'[d] = classes[d]
    <3> HIDE DEF c
    <3> QED
      BY <2>1, <2>5
  <2>7. /\ Header.name = Top.name /\ Header.superclass = Top.primary
        /\ Header.class_index = Len(class_indeces) + 1
        /\ Header.class_size = IF sized THEN size ELSE 0
    BY DEF Header
  <2>8. /\ Len(class_indeces) + 1 \in DOMAIN class_indeces'
        /\ DOMAIN class_indeces \subseteq DOMAIN class_indeces'
        /\ \E S : class_indeces' \in Seq(S)
    <3>1. PICK S : class_indeces \in Seq(S)
      BY DEF LoaderInv
    <3>2. class_indeces \in Seq(S \cup {Index}) /\ Index \in S \cup {Index}
      BY <3>1
    <3>3. class_indeces' \in Seq(S \cup {Index}) /\ Len(class_indeces') = Len(class_indeces) + 1
      BY <2>1, <3>2
    <3> QED
      BY <3>2, <3>3
  <2>9. /\ calls' \in Seq(Frames) /\ Len(calls') = Len(calls) - 1
        /\ \A i \in 1 .. Len(calls') : i \in 1 .. Len(calls) /\ calls'[i] = calls[i]
        /\ Loading'
    BY <1>1, <2>1, LeaveEffect
  <2>10. /\ Top.name \notin DOMAIN cached /\ Top.name \in Names /\ Top.name \notin loading'
         /\ DOMAIN cached' = DOMAIN cached \cup {Top.name} /\ cached'[Top.name] = c
         /\ \A m \in DOMAIN cached : cached'[m] = cached[m]
         /\ loading' \subseteq loading
    BY <1>1, <2>1, LeaveEffect
  <2> HIDE DEF c, size
  <2>11. CallsSound'
    BY <2>6, <2>9, CallsRemainSound
  <2>12. CacheApart'
    <3>1. loading' \cap DOMAIN cached' = {}
      BY <2>10 DEF LoaderInv, CacheApart
    <3>2. ASSUME NEW d \in DOMAIN classes'
          PROVE  classes'[d].name \in DOMAIN cached' /\ cached'[classes'[d].name] = d
      <4>1. CASE d = c
        BY <2>6, <2>7, <2>10, <4>1
      <4>2. CASE d \in DOMAIN classes
        BY <2>6, <2>10, <4>2 DEF LoaderInv, CacheApart
      <4> QED
        BY <2>6, <4>1, <4>2
    <3> QED
      BY <3>1, <3>2 DEF CacheApart
  <2>13. Starts' = Starts \cup {metaspace'.used}
    <3>1. {d - 1 : d \in DOMAIN classes'} = {d - 1 : d \in DOMAIN classes} \cup {metaspace.used}
      BY <2>5, <2>6
    <3> QED
      BY <3>1 DEF Starts
  <2>14. StepsOnClasses'
    <3>1. ASSUME NEW d \in DOMAIN classes'
          PROVE  d - 1 + classes'[d].class_size \in Starts'
      <4>1. CASE d = c
        <5>1. CASE sized
          BY <2>2, <2>3, <2>4, <2>5, <2>6, <2>7, <2>13, <4>1, <5>1
        <5>2. CASE ~sized
          <6>1. d - 1 + classes'[d].class_size = metaspace.used
            BY <2>3, <2>5, <2>6, <2>7, <4>1, <5>2
          <6> QED
            BY <2>13, <6>1 DEF Starts
        <5> QED
          BY <5>1, <5>2
      <4>2. CASE d \in DOMAIN classes
        BY <2>6, <2>13, <4>2 DEF LoaderInv, StepsOnClasses
      <4> QED
        BY <2>6, <4>1, <4>2
    <3>2. 0 \in Starts'
      BY <2>13 DEF LoaderInv, StepsOnClasses
    <3> QED
      BY <3>1, <3>2 DEF StepsOnClasses
  <2>15. TypeOK'
    <3>1. DOMAIN cached' \subseteq Names /\ loading' \subseteq Names
      BY <2>10 DEF LoaderInv, TypeOK
    <3>2. \A n \in DOMAIN cached' : cached'[n] \in DOMAIN classes' \cup {Null}
      BY <2>6, <2>10 DEF LoaderInv, TypeOK
    <3>3. ASSUME NEW d \in DOMAIN classes'
          PROVE  /\ d \in 1 .. metaspace'.used
                 /\ classes'[d].class_index \in DOMAIN class_indeces'
                 /\ classes'[d].superclass \in DOMAIN classes' \cup {Null}
      <4>1. CASE d = c
        BY <2>2, <2>5, <2>6, <2>7, <2>8, <4>1
      <4>2. CASE d \in DOMAIN classes
        <5>1. /\ d \in 1 .. metaspace.used /\ classes[d].class_index \in DOMAIN class_indeces
              /\ classes[d].superclass \in DOMAIN classes \cup {Null}
          BY <4>2 DEF LoaderInv, TypeOK
        <5>2. d \in 1 .. metaspace'.used
          BY <2>2, <2>3, <2>4, <5>1
        <5> QED
          BY <2>6, <2>8, <4>2, <5>1, <5>2
      <4> QED
        BY <2>6, <4>1, <4>2
    <3>4. WalkOnClasses'
      <4>1. walk \in {Idle} \cup Starts
        BY DEF LoaderInv, TypeOK, WalkOnClasses, Starts
      <4>2. walk' \in {Idle} \cup Starts'
        BY <2>1, <2>13, <4>1
      <4> QED
        BY <4>2 DEF WalkOnClasses, Starts
    <3>5. sized' \in BOOLEAN
      BY <2>1 DEF LoaderInv, TypeOK
    <3> QED
      BY <2>4, <3>1, <3>2, <3>3, <3>4, <3>5 DEF TypeOK
  <2> QED
    BY <2>8, <2>9, <2>11, <2>12, <2>14, <2>15 DEF LoaderInv
<1> QED
  BY <1>2, <1>3
----------------------------------------------------------------------------
(* The loader's steps.                                                      *)

(* The file of the last call is opened, or cannot be.                       *)
LEMMA OpenKeeps ==
  ASSUME LoaderInv, Open
  PROVE  LoaderInv'
<1>1. calls # <<>>
  BY DEF Open
<1>2. CASE ~Readable(Top.name)
  <2>1. Fail
    BY <1>2 DEF Open
  <2> QED
    BY <1>1, <2>1, FailKeeps
<1>3. CASE Readable(Top.name)
  <2> DEFINE frame == [Top EXCEPT !.opened = TRUE]
  <2>1. Advance(frame) /\ UNCHANGED <<cached, loading, table, walk>>
    BY <1>3 DEF Open
  <2>2. Top \in Frames /\ Top.primary \in DOMAIN classes \cup {Null}
    BY <1>1, TopIsACall
  <2>3. /\ frame \in Frames /\ frame.name = Top.name /\ frame.primary = Top.primary
    BY <2>2 DEF Frames
  <2> HIDE DEF frame
  <2> QED
    BY <1>1, <1>3, <2>1, <2>2, <2>3, AdvanceKeeps
<1> QED
  BY <1>2, <1>3

(* The next superclass: a call of its own, a failure or an answer.          *)
LEMMA LoadSuperKeeps ==
  ASSUME LoaderInv, LoadSuper
  PROVE  LoaderInv'
<1>1. calls # <<>> /\ Top.opened /\ Top.at <= Len(Supers)
  BY DEF LoadSuper, AtSuper
<1>2. Top \in Frames /\ Readable(Top.name) /\ Top.primary \in DOMAIN classes \cup {Null}
  BY <1>1, TopIsACall
<1>3. PICK n : n = Supers[Top.at]
  OBVIOUS
<1>4. n \in Names
  <2>1. Supers \in Seq(Names)
    BY <1>2, FilesAssumption DEF Supers, Readable
  <2>2. Top.at \in 1 .. Len(Supers)
    BY <1>1, <1>2, <2>1 DEF Frames
  <2> QED
    BY <1>3, <2>1, <2>2
<1>5. CASE Unknown(n) /\ Enter(n)
  BY <1>4, <1>5, EnterKeeps
<1>6. CASE Fail
  BY <1>1, <1>6, FailKeeps
<1>7. CASE /\ n \in DOMAIN cached
           /\ Advance(NextSuper(cached[n])) /\ UNCHANGED <<cached, loading, table, walk>>
  <2> DEFINE frame == NextSuper(cached[n])
  <2>1. cached[n] \in DOMAIN classes \cup {Null} /\ DOMAIN classes \subseteq Nat
    BY <1>7 DEF LoaderInv, TypeOK
  <2>2. cached[n] \in Nat
    BY <2>1 DEF Null
  <2>3. PICK t \in Frames : t = Top
    BY <1>2
  <2>4. PICK p \in Nat : p = IF t.primary = Null THEN cached[n] ELSE t.primary
    BY <2>2 DEF Frames
  <2>5. frame = [name |-> t.name, opened |-> t.opened, at |-> t.at + 1, primary |-> p]
    <3>1. NextSuper(cached[n]) = [t EXCEPT !.at = @ + 1, !.primary = p]
      BY <2>3, <2>4, Zenon DEF NextSuper
    <3>2. t = [name |-> t.name, opened |-> t.opened, at |-> t.at, primary |-> t.primary]
      BY DEF Frames
    <3> QED
      BY <3>1, <3>2
  <2>6. t.at + 1 \in Nat \ {0}
    BY DEF Frames
  <2>7. frame \in Frames /\ frame.name = t.name /\ frame.primary = p
    BY <2>5, <2>6 DEF Frames
  <2>8. Advance(frame) /\ frame.name = Top.name /\ Readable(frame.name)
    BY <1>2, <1>7, <2>3, <2>7
  <2>9. frame.primary \in DOMAIN classes \cup {Null}
    BY <1>2, <2>1, <2>3, <2>4, <2>7
  <2> HIDE DEF frame
  <2> QED
    BY <1>1, <1>7, <2>7, <2>8, <2>9, AdvanceKeeps
<1> QED
  BY <1>3, <1>5, <1>6, <1>7 DEF LoadSuper

(* The walk of the collector.                                               *)
LEMMA WalkKeeps ==
  ASSUME LoaderInv, Collect \/ WalkNext \/ WalkDone
  PROVE  LoaderInv'
<1>1. UNCHANGED <<cached, loading, calls, metaspace, classes, class_indeces, superclasses, sized>>
  BY DEF Collect, WalkNext, WalkDone, table
<1>2. walk \in {Idle} \cup Starts
  BY DEF LoaderInv, TypeOK, WalkOnClasses, Starts
<1>3. walk' \in {Idle} \cup Starts
  <2>1. CASE Collect
    BY <2>1 DEF Collect, LoaderInv, StepsOnClasses
  <2>2. CASE WalkNext
    <3>1. PICK c \in DOMAIN classes : walk = c - 1
      BY <1>2, <2>2 DEF WalkNext, Starts
    <3>2. walk + 1 = c
      <4>1. c \in Int
        BY DEF LoaderInv, TypeOK
      <4> QED
        BY <3>1, <4>1
    <3>3. walk' = c - 1 + classes[c].class_size
      BY <2>2, <3>1, <3>2 DEF WalkNext
    <3> QED
      BY <3>3 DEF LoaderInv, StepsOnClasses
  <2>3. CASE WalkDone
    BY <2>3 DEF WalkDone
  <2> QED
    BY <2>1, <2>2, <2>3
<1>4. WalkOnClasses'
  BY <1>1, <1>3 DEF WalkOnClasses, Starts
<1>5. TypeOK'
  BY <1>1, <1>4 DEF LoaderInv, TypeOK
<1> QED
  BY <1>1, <1>5 DEF LoaderInv, CallsSound, Readable, Loading, CacheApart, StepsOnClasses, Starts

(* Before the first request.                                                *)
LEMMA InitSound == Init => LoaderInv
<1> SUFFICES ASSUME Init PROVE LoaderInv
  OBVIOUS
<1>1. /\ cached = [n \in {} |-> Null] /\ loading = {} /\ calls = <<>>
      /\ metaspace = Commit(Reserved, Committed) /\ classes = [c \in {} |-> Null]
      /\ class_indeces = <<>> /\ walk = Idle /\ sized \in BOOLEAN
  BY DEF Init
<1>2. DOMAIN cached = {} /\ DOMAIN classes = {}
  BY <1>1
<1>3. metaspace \in Allocator /\ metaspace.used = 0 /\ metaspace.used <= metaspace.committed
  <2>1. Committed \in Nat
    BY CapAssumption, FilesAssumption
  <2>2. metaspace = [used |-> 0, committed |-> 0 + Committed, backed |-> Back(Reserved, 0, 0 + Committed)]
    BY <1>1 DEF Commit, Reserved
  <2>3. Back(Reserved, 0, 0 + Committed) \subseteq Nat
    BY <2>1 DEF Back, Reserved
  <2> QED
    BY <2>1, <2>2, <2>3 DEF Allocator
<1>4. calls \in Seq(Frames) /\ Len(calls) = 0 /\ class_indeces \in Seq({})
  BY <1>1
<1>5. TypeOK
  BY <1>1, <1>2, <1>3 DEF TypeOK, WalkOnClasses
<1>6. CallsSound /\ Loading /\ CacheApart
  BY <1>1, <1>2, <1>4 DEF CallsSound, Loading, CacheApart
<1>7. StepsOnClasses
  BY <1>2, <1>3 DEF StepsOnClasses, Starts
<1> QED
  BY <1>4, <1>5, <1>6, <1>7 DEF LoaderInv

(* The invariant, for all class files, every metaspace and any requests.    *)
THEOREM LoaderInvariance == Spec => []LoaderInv
<1>1. Init => LoaderInv
  BY InitSound
<1>2. LoaderInv /\ [Next]_vars => LoaderInv'
  <2> SUFFICES ASSUME LoaderInv, [Next]_vars PROVE LoaderInv'
    OBVIOUS
  <2>1. CASE \E n \in Names : Request(n)
    BY <2>1, EnterKeeps DEF Request
  <2>2. CASE Open
    BY <2>2, OpenKeeps
  <2>3. CASE LoadSuper
    BY <2>3, LoadSuperKeeps
  <2>4. CASE Define
    BY <2>4, DefineKeeps
  <2>5. CASE Collect \/ WalkNext \/ WalkDone
    BY <2>5, WalkKeeps
  <2>6. CASE UNCHANGED vars
    <3>1. UNCHANGED <<cached, loading, calls, metaspace, classes, class_indeces, walk, sized>>
      BY <2>6 DEF vars
    <3>2. TypeOK' /\ CallsSound' /\ Loading'
      BY <3>1 DEF LoaderInv, TypeOK, WalkOnClasses, CallsSound, Readable, Loading
    <3>3. CacheApart' /\ StepsOnClasses' /\ (\E S : class_indeces' \in Seq(S))
      BY <3>1 DEF LoaderInv, CacheApart, StepsOnClasses, Starts
    <3> QED
      BY <3>2, <3>3 DEF LoaderInv
  <2> QED
    BY <2>1, <2>2, <2>3, <2>4, <2>5, <2>6 DEF Next, Proceed
<1> QED
  BY <1>1, <1>2, PTL DEF Spec

----------------------------------------------------------------------------
(* What it means.                                                           *)

(* The cache, the classes and the instanceof table fit together, and the    *)
(* collector's walk over the classes never stands between two of them.      *)
THEOREM WalkStaysOnClasses == Spec => []TypeOK
<1>1. LoaderInv => TypeOK
  BY DEF LoaderInv
<1> QED
  BY <1>1, LoaderInvariance, PTL

(* There are as many calls as names being loaded.                           *)
LEMMA OneCallEach == LoaderInv => Cardinality(loading) = Len(calls)
<1> SUFFICES ASSUME LoaderInv PROVE Cardinality(loading) = Len(calls)
  OBVIOUS
<1> DEFINE k == Len(calls)
           f == [i \in 1 .. k |-> calls[i].name]
<1>1. k \in Nat
  BY DEF LoaderInv, CallsSound
<1>2. IsFiniteSet(1 .. k) /\ Cardinality(1 .. k) = k
  <2> HIDE DEF k
  <2>1. 1 \in Int /\ k \in Int /\ (IF 1 > k THEN 0 ELSE k - 1 + 1) = k
    BY <1>1
  <2> QED
    BY <2>1, FS_Interval
<1>3. f \in Bijection(1 .. k, loading)
  <2>1. \A i \in 1 .. k : f[i] \in loading
    BY DEF LoaderInv, Loading
  <2>2. \A m \in loading : \E i \in 1 .. k : f[i] = m
    BY DEF LoaderInv, Loading
  <2>3. \A i, j \in 1 .. k : f[i] = f[j] => i = j
    BY DEF LoaderInv, CallsSound
  <2>4. f \in [1 .. k -> loading]
    BY <2>1
  <2> HIDE DEF f
  <2>5. f \in Injection(1 .. k, loading)
    BY <2>3, <2>4 DEF Injection, IsInjective
  <2>6. f \in Surjection(1 .. k, loading)
    BY <2>2, <2>4 DEF Surjection
  <2> QED
    BY <2>5, <2>6 DEF Bijection
<1>4. ExistsBijection(1 .. k, loading)
  BY <1>3 DEF ExistsBijection
<1>5. Cardinality(loading) = Cardinality(1 .. k)
  <2> HIDE DEF f, k
  <2> QED
    BY <1>2, <1>4, FS_Bijection
<1> QED
  BY <1>2, <1>5

(* loading_classes holds the loads in progress, each once, however deep the *)
(* superclasses nest and wherever a load fails: nothing is left behind that *)
(* would make a class unloadable for good.                                  *)
THEOREM NothingStaysLoading == Spec => []LoadingIsInProgress
<1>1. LoaderInv => LoadingIsInProgress
  <2> SUFFICES ASSUME LoaderInv PROVE LoadingIsInProgress
    OBVIOUS
  <2>1. DOMAIN calls = 1 .. Len(calls)
    BY DEF LoaderInv, CallsSound
  <2> QED
    BY <2>1, OneCallEach DEF LoaderInv, Loading, LoadingIsInProgress
<1> QED
  BY <1>1, LoaderInvariance, PTL

(* No class is ever defined twice, however many paths lead to its name.     *)
THEOREM NoClassTwice == Spec => []OneClassPerName
<1>1. LoaderInv => OneClassPerName
  BY DEF LoaderInv, CacheApart, OneClassPerName
<1> QED
  BY <1>1, LoaderInvariance, PTL
----------------------------------------------------------------------------
(* The order of the requests.                                               *)

(* The names whose class has been loaded.                                   *)
Found == {n \in DOMAIN cached : cached[n] # Null}

SupersOf(n) == Files[n].supers

(* Every load but the last waits, at one of its superclasses, for the next. *)
Waiting ==
  \A i \in 1 .. Len(calls) - 1 :
    /\ calls[i].opened /\ calls[i].at <= Len(SupersOf(calls[i].name))
    /\ calls[i + 1].name = SupersOf(calls[i].name)[calls[i].at]

(* The superclasses a load has gone past have been loaded.                  *)
PassedBy(frame) ==
  IF frame.opened
  THEN \A j \in 1 .. Len(SupersOf(frame.name)) :
         j < frame.at => SupersOf(frame.name)[j] \in Found
  ELSE frame.at = 1

Passed == \A i \in 1 .. Len(calls) : PassedBy(calls[i])

OrderInv == Waiting /\ Passed /\ OrderIndependent

(* The superclasses of a file are names, as many as there are.              *)
LEMMA SupersAreNames ==
  ASSUME NEW n, Readable(n)
  PROVE  /\ n \in Names /\ n \in DOMAIN Files /\ SupersOf(n) \in Seq(Names)
         /\ Len(SupersOf(n)) \in Nat
         /\ \A j \in 1 .. Len(SupersOf(n)) : SupersOf(n)[j] \in Names
         /\ ToSet(SupersOf(n)) = {SupersOf(n)[j] : j \in 1 .. Len(SupersOf(n))}
<1>1. n \in DOMAIN Files /\ n \in Names /\ SupersOf(n) \in Seq(Names)
  BY FilesAssumption DEF Readable, SupersOf
<1> QED
  BY <1>1 DEF ToSet

(* Loadable is closed: a class whose superclasses can all be loaded can be. *)
LEMMA LoadableIsSound ==
  ASSUME NEW n, Readable(n), ToSet(SupersOf(n)) \subseteq Loadable
  PROVE  n \in Loadable
<1>1. n \in Names /\ n \in DOMAIN Files
  BY SupersAreNames
<1>2. ASSUME NEW S \in SUBSET Names, Sound(S)
      PROVE  n \in S
  <2>1. Loadable \subseteq S
    BY <1>2 DEF Loadable
  <2> QED
    BY <1>1, <1>2, <2>1 DEF Sound, SupersOf
<1> QED
  BY <1>1, <1>2 DEF Loadable

(* Nothing else is in it: a class that can be loaded has a file that can be *)
(* read and superclasses that can be loaded.                                *)
LEMMA LoadableIsLeast ==
  ASSUME NEW n \in Loadable
  PROVE  Readable(n) /\ ToSet(SupersOf(n)) \subseteq Loadable
<1> DEFINE S == Loadable \ {n}
<1>1. SUFFICES ASSUME ~(Readable(n) /\ ToSet(SupersOf(n)) \subseteq Loadable)
               PROVE  FALSE
  OBVIOUS
<1>2. S \in SUBSET Names
  BY DEF Loadable
<1>3. Sound(S)
  <2>1. ASSUME NEW m \in DOMAIN Files, Readable(m), ToSet(SupersOf(m)) \subseteq S
        PROVE  m \in S
    <3>1. m \in Loadable
      BY <2>1, LoadableIsSound
    <3>2. m # n
      BY <1>1, <2>1
    <3> QED
      BY <3>1, <3>2
  <2> HIDE DEF S
  <2> QED
    BY <2>1 DEF Sound, SupersOf
<1>4. n \in S
  <2> HIDE DEF S
  <2> QED
    BY <1>2, <1>3 DEF Loadable
<1> QED
  BY <1>4

(* No class of a cycle can be loaded, nor one with a superclass in it.      *)
LEMMA CyclesAreNotLoadable ==
  ASSUME NEW C, \A m \in C : ToSet(SupersOf(m)) \cap C # {}
  PROVE  C \cap Loadable = {}
<1> DEFINE S == Loadable \ C
<1>1. S \in SUBSET Names
  BY DEF Loadable
<1>2. Sound(S)
  <2>1. ASSUME NEW m \in DOMAIN Files, Readable(m), ToSet(SupersOf(m)) \subseteq S
        PROVE  m \in S
    <3>1. m \in Loadable
      BY <2>1, LoadableIsSound
    <3>2. m \notin C
      BY <2>1
    <3> QED
      BY <3>1, <3>2
  <2> HIDE DEF S
  <2> QED
    BY <2>1 DEF Sound, SupersOf
<1>3. Loadable \subseteq S
  <2> HIDE DEF S
  <2> QED
    BY <1>1, <1>2 DEF Loadable
<1> QED
  BY <1>3

(* A class is among its ancestors, and so are those of its superclasses.    *)
LEMMA AncestorsThroughSupers ==
  ASSUME NEW n \in Names
  PROVE  /\ n \in Ancestors(n)
         /\ n \in DOMAIN Files =>
              \A s \in ToSet(SupersOf(n)) : Ancestors(s) \subseteq Ancestors(n)
<1>1. n \in Ancestors(n)
  BY DEF Ancestors
<1>2. ASSUME n \in DOMAIN Files, NEW s \in ToSet(SupersOf(n)), NEW m \in Ancestors(s)
      PROVE  m \in Ancestors(n)
  <2>1. ASSUME NEW S \in SUBSET Names, n \in S,
               \A k \in S \cap DOMAIN Files : ToSet(Files[k].supers) \subseteq S
        PROVE  m \in S
    <3>1. s \in S
      BY <1>2, <2>1 DEF SupersOf
    <3> QED
      BY <1>2, <2>1, <3>1 DEF Ancestors
  <2>2. m \in Names
    BY <1>2 DEF Ancestors
  <2> QED
    BY <2>1, <2>2 DEF Ancestors
<1> QED
  BY <1>1, <1>2

(* A class there was no room for stays without room: metaspace only fills.  *)
LEMMA NoRoomStays ==
  ASSUME LoaderInv, NEW m, NoRoom(m), m \in DOMAIN cached', cached'[m] = cached[m],
         NEW d \in Nat, metaspace'.used = metaspace.used + d,
         metaspace'.committed = metaspace.committed
  PROVE  NoRoom(m)'
<1>1. m \in DOMAIN Files /\ cached[m] = Null /\ ~CanAllocate(metaspace, Files[m].size)
  BY DEF NoRoom
<1>2. PICK size \in Nat : size = Files[m].size
  BY <1>1, FilesAssumption
<1>3. metaspace.used \in Nat /\ metaspace.committed \in Nat
  BY DEF LoaderInv, TypeOK, Allocator
<1>4. ~(metaspace.used + size <= metaspace.committed)
  BY <1>1, <1>2 DEF CanAllocate
<1>5. ~(metaspace'.used + size <= metaspace'.committed)
  BY <1>2, <1>3, <1>4
<1>6. ~CanAllocate(metaspace, Files[m].size)'
  BY <1>2, <1>5 DEF CanAllocate
<1> QED
  BY <1>1, <1>6 DEF NoRoom

(* A load ends with an answer that is right for its name, and the other     *)
(* answers stay right; metaspace has filled by d.                           *)
LEMMA LeaveKeepsOrder ==
  ASSUME LoaderInv, OrderInv, calls # <<>>, NEW c, Leave(c),
         NEW d \in Nat, metaspace'.used = metaspace.used + d,
         metaspace'.committed = metaspace.committed,
         c # Null => Top.name \in Loadable,
         c = Null => \/ Top.name \notin Loadable
                     \/ \E m \in Ancestors(Top.name) : NoRoom(m) \/ (m = Top.name /\ NoRoom(m)')
  PROVE  OrderInv'
<1>1. /\ calls' \in Seq(Frames) /\ Len(calls') = Len(calls) - 1
      /\ \A i \in 1 .. Len(calls') : i \in 1 .. Len(calls) /\ calls'[i] = calls[i]
  BY LeaveEffect
<1>2. /\ DOMAIN cached' = DOMAIN cached \cup {Top.name}
      /\ cached'[Top.name] = c /\ Top.name \notin DOMAIN cached
      /\ \A m \in DOMAIN cached : cached'[m] = cached[m]
  BY LeaveEffect
<1>3. Len(calls) \in Nat /\ Len(calls') \in Nat
  BY <1>1 DEF LoaderInv, CallsSound
<1>4. Waiting'
  <2>1. ASSUME NEW i \in 1 .. Len(calls') - 1
        PROVE  /\ calls'[i].opened /\ calls'[i].at <= Len(SupersOf(calls'[i].name))
               /\ calls'[i + 1].name = SupersOf(calls'[i].name)[calls'[i].at]
    <3>1. i \in 1 .. Len(calls') /\ i + 1 \in 1 .. Len(calls') /\ i \in 1 .. Len(calls) - 1
      BY <1>1, <1>3
    <3>2. calls'[i] = calls[i] /\ calls'[i + 1] = calls[i + 1]
      BY <1>1, <3>1
    <3> QED
      BY <3>1, <3>2 DEF OrderInv, Waiting
  <2> QED
    BY <2>1 DEF Waiting, SupersOf
<1>5. Found \subseteq Found'
  BY <1>2 DEF Found
<1>6. Passed'
  <2>1. ASSUME NEW i \in 1 .. Len(calls')
        PROVE  PassedBy(calls[i])' /\ calls'[i] = calls[i]
    <3>1. i \in 1 .. Len(calls) /\ calls'[i] = calls[i]
      BY <1>1
    <3>2. PassedBy(calls[i])
      BY <3>1 DEF OrderInv, Passed
    <3> QED
      BY <1>5, <3>1, <3>2 DEF PassedBy, SupersOf
  <2> QED
    BY <2>1 DEF Passed
<1>7. \A m : NoRoom(m) => NoRoom(m)'
  <2> SUFFICES ASSUME NEW m, NoRoom(m) PROVE NoRoom(m)'
    OBVIOUS
  <2>1. m \in DOMAIN cached' /\ cached'[m] = cached[m]
    BY <1>2 DEF NoRoom
  <2> QED
    BY <2>1, NoRoomStays
<1>8. OrderIndependent'
  <2>1. ASSUME NEW n \in DOMAIN cached'
        PROVE  IF cached'[n] # Null THEN n \in Loadable
               ELSE n \notin Loadable \/ \E m \in Ancestors(n) : NoRoom(m)'
    <3>1. CASE n = Top.name
      BY <1>2, <1>7, <3>1
    <3>2. CASE n \in DOMAIN cached
      <4>1. IF cached[n] # Null THEN n \in Loadable
            ELSE n \notin Loadable \/ \E m \in Ancestors(n) : NoRoom(m)
        BY <3>2 DEF OrderInv, OrderIndependent
      <4> QED
        BY <1>2, <1>7, <3>2, <4>1
    <3> QED
      BY <1>2, <3>1, <3>2
  <2> QED
    BY <2>1 DEF OrderIndependent, Loadable, Sound, Readable, Ancestors
<1> QED
  BY <1>4, <1>6, <1>8 DEF OrderInv

(* A step that changes neither the answers nor the metaspace leaves them as *)
(* right as they were.                                                      *)
LEMMA AnswersStay ==
  ASSUME OrderIndependent, UNCHANGED <<cached, metaspace>>
  PROVE  OrderIndependent' /\ Found' = Found
BY DEF OrderIndependent, Loadable, Sound, Readable, Ancestors, NoRoom, CanAllocate, Found

(* The last load advances, past a superclass that has been loaded if it is  *)
(* past one.                                                                *)
LEMMA AdvanceKeepsOrder ==
  ASSUME LoaderInv, OrderInv, calls # <<>>, NEW frame \in Frames, Advance(frame),
         UNCHANGED <<cached, metaspace>>, frame.name = Top.name, PassedBy(frame)
  PROVE  OrderInv'
<1> DEFINE k == Len(calls)
<1>1. k \in 1 .. k /\ k \in Nat /\ calls \in Seq(Frames) /\ Top = calls[k]
  BY TopIsACall DEF LoaderInv, CallsSound, Top
<1>2. calls' = [calls EXCEPT ![k] = frame]
  BY DEF Advance
<1>3. /\ Len(calls') = k /\ calls'[k] = frame
      /\ \A i \in 1 .. k : i # k => calls'[i] = calls[i]
  BY <1>1, <1>2
<1>4. OrderIndependent' /\ Found' = Found
  BY AnswersStay DEF OrderInv
<1> HIDE DEF k
<1>5. Waiting'
  <2>1. ASSUME NEW i \in 1 .. k - 1
        PROVE  /\ calls'[i].opened /\ calls'[i].at <= Len(SupersOf(calls'[i].name))
               /\ calls'[i + 1].name = SupersOf(calls'[i].name)[calls'[i].at]
    <3>1. i \in 1 .. k /\ i # k /\ i + 1 \in 1 .. k
      BY <1>1
    <3>2. calls'[i] = calls[i]
      BY <1>3, <3>1
    <3>3. calls'[i + 1].name = calls[i + 1].name
      BY <1>1, <1>3, <3>1
    <3>4. /\ calls[i].opened /\ calls[i].at <= Len(SupersOf(calls[i].name))
          /\ calls[i + 1].name = SupersOf(calls[i].name)[calls[i].at]
      BY DEF OrderInv, Waiting, k
    <3> QED
      BY <3>2, <3>3, <3>4
  <2> QED
    BY <1>3, <2>1 DEF Waiting, SupersOf
<1>6. Passed'
  <2>1. ASSUME NEW i \in 1 .. k
        PROVE  PassedBy(calls'[i])
    <3>1. CASE i = k
      BY <1>3, <3>1
    <3>2. CASE i # k
      BY <1>3, <3>2 DEF OrderInv, Passed, k
    <3> QED
      BY <3>1, <3>2
  <2> QED
    BY <1>3, <1>4, <2>1 DEF Passed, PassedBy, SupersOf
<1> QED
  BY <1>4, <1>5, <1>6 DEF OrderInv

(* A load begins: asked for from outside, or because the last load is at    *)
(* the superclass of that name.                                             *)
LEMMA EnterKeepsOrder ==
  ASSUME LoaderInv, OrderInv, NEW n \in Names, Enter(n),
         calls # <<>> => /\ Top.opened /\ Top.at <= Len(SupersOf(Top.name))
                         /\ n = SupersOf(Top.name)[Top.at]
  PROVE  OrderInv'
<1> DEFINE frame == [name |-> n, opened |-> FALSE, at |-> 1, primary |-> Null]
           k == Len(calls)
<1>1. calls' = Append(calls, frame) /\ UNCHANGED <<cached, metaspace>>
  BY DEF Enter, table
<1>2. calls \in Seq(Frames) /\ k \in Nat /\ frame \in Frames /\ frame.name = n /\ PassedBy(frame)
  BY DEF LoaderInv, CallsSound, Frames, Null, PassedBy
<1>3. /\ Len(calls') = k + 1 /\ calls'[k + 1] = frame
      /\ \A i \in 1 .. k : calls'[i] = calls[i]
  BY <1>1, <1>2
<1>4. OrderIndependent' /\ Found' = Found
  BY <1>1, AnswersStay DEF OrderInv
<1>5. \A i \in 1 .. k : i = k => calls # <<>> /\ Top = calls[i]
  BY <1>2 DEF Top
<1> HIDE DEF k, frame
<1>6. Waiting'
  <2>1. ASSUME NEW i \in 1 .. k
        PROVE  /\ calls'[i].opened /\ calls'[i].at <= Len(SupersOf(calls'[i].name))
               /\ calls'[i + 1].name = SupersOf(calls'[i].name)[calls'[i].at]
    <3>1. calls'[i] = calls[i]
      BY <1>3
    <3>2. CASE i = k
      BY <1>2, <1>3, <1>5, <3>1, <3>2
    <3>3. CASE i # k
      <4>1. i \in 1 .. k - 1 /\ i + 1 \in 1 .. k
        BY <1>2, <3>3
      <4>2. calls'[i + 1] = calls[i + 1]
        BY <1>3, <4>1
      <4> QED
        BY <3>1, <4>1, <4>2 DEF OrderInv, Waiting, k
    <3> QED
      BY <3>2, <3>3
  <2>2. Len(calls') - 1 = k
    BY <1>2, <1>3
  <2> QED
    BY <2>1, <2>2 DEF Waiting, SupersOf
<1>7. Passed'
  <2>1. ASSUME NEW i \in 1 .. k + 1
        PROVE  PassedBy(calls'[i])
    <3>1. CASE i \in 1 .. k
      BY <1>3, <3>1 DEF OrderInv, Passed, k
    <3>2. CASE i = k + 1
      BY <1>2, <1>3, <3>2
    <3> QED
      BY <1>2, <3>1, <3>2
  <2> QED
    BY <1>3, <1>4, <2>1 DEF Passed, PassedBy, SupersOf
<1> QED
  BY <1>4, <1>6, <1>7 DEF OrderInv

(* A superclass that is being loaded closes a cycle: the loads from its own *)
(* to the last are each waiting for the next, and the last for it.          *)
LEMMA CycleFound ==
  ASSUME LoaderInv, Waiting, calls # <<>>, Top.opened, Top.at <= Len(SupersOf(Top.name)),
         SupersOf(Top.name)[Top.at] \in loading
  PROVE  Top.name \notin Loadable
<1> DEFINE k == Len(calls)
<1>1. k \in 1 .. k /\ k \in Nat /\ calls \in Seq(Frames) /\ Top = calls[k]
  BY TopIsACall DEF LoaderInv, CallsSound, Top
<1>2. PICK i \in 1 .. k : calls[i].name = SupersOf(Top.name)[Top.at]
  BY DEF LoaderInv, Loading
<1> DEFINE C == {calls[j].name : j \in i .. k}
<1>3. ASSUME NEW j \in i .. k
      PROVE  ToSet(SupersOf(calls[j].name)) \cap C # {}
  <2> DEFINE supers == SupersOf(calls[j].name)
  <2>1. /\ calls[j].opened /\ calls[j].at <= Len(supers) /\ supers[calls[j].at] \in C
    <3>1. CASE j = k
      <4>1. calls[i].name \in C
        BY <1>1
      <4> QED
        BY <1>1, <1>2, <3>1, <4>1
    <3>2. CASE j # k
      <4>1. j \in 1 .. k - 1 /\ j + 1 \in i .. k
        BY <1>1, <3>2
      <4>2. calls[j + 1].name \in C
        BY <4>1
      <4> QED
        BY <4>1, <4>2 DEF Waiting
    <3> QED
      BY <3>1, <3>2
  <2>2. j \in 1 .. k
    BY <1>1
  <2>3. Readable(calls[j].name) /\ calls[j].at \in Nat \ {0}
    <3>1. calls[j] \in Frames
      BY <1>1, <2>2
    <3>2. Readable(calls[j].name)
      BY <2>1, <2>2 DEF LoaderInv, CallsSound
    <3> QED
      BY <3>1, <3>2 DEF Frames
  <2>4. ToSet(supers) = {supers[l] : l \in 1 .. Len(supers)} /\ Len(supers) \in Nat
    BY <2>3, SupersAreNames
  <2>5. calls[j].at \in 1 .. Len(supers)
    BY <2>1, <2>3, <2>4
  <2> HIDE DEF supers, C
  <2>6. supers[calls[j].at] \in ToSet(supers)
    BY <2>4, <2>5
  <2> QED
    BY <2>1, <2>6 DEF supers
<1>4. C \cap Loadable = {}
  <2>1. \A m \in C : ToSet(SupersOf(m)) \cap C # {}
    BY <1>3
  <2> HIDE DEF C
  <2> QED
    BY <2>1, CyclesAreNotLoadable
<1>5. Top.name \in C
  BY <1>1
<1> QED
  BY <1>4, <1>5

(* The answer "nothing" is kept: it has to be right.                        *)
LEMMA FailKeepsOrder ==
  ASSUME LoaderInv, OrderInv, calls # <<>>, Fail,
         \/ Top.name \notin Loadable
         \/ \E m \in Ancestors(Top.name) : NoRoom(m) \/ (m = Top.name /\ NoRoom(m)')
  PROVE  OrderInv'
<1>1. Leave(Null) /\ metaspace' = metaspace
  BY DEF Fail, table
<1>2. 0 \in Nat /\ metaspace'.used = metaspace.used + 0
  BY <1>1 DEF LoaderInv, TypeOK, Allocator
<1> QED
  BY <1>1, <1>2, LeaveKeepsOrder

(* A file that cannot be read, and one that is read.                        *)
LEMMA OpenKeepsOrder ==
  ASSUME LoaderInv, OrderInv, Open
  PROVE  OrderInv'
<1>1. calls # <<>> /\ ~Top.opened
  BY DEF Open
<1>2. CASE ~Readable(Top.name)
  <2>1. Top.name \notin Loadable
    BY <1>2, LoadableIsLeast
  <2>2. Fail
    BY <1>2 DEF Open
  <2> QED
    BY <1>1, <2>1, <2>2, FailKeepsOrder
<1>3. CASE Readable(Top.name)
  <2> DEFINE frame == [Top EXCEPT !.opened = TRUE]
  <2>1. Advance(frame) /\ UNCHANGED <<cached, metaspace>>
    BY <1>3 DEF Open, table
  <2>2. Top \in Frames
    BY <1>1, TopIsACall
  <2>3. Top.at = 1
    BY <1>1, TopIsACall DEF OrderInv, Passed, PassedBy, Top
  <2>4. frame \in Frames /\ frame.name = Top.name /\ frame.at = 1
    BY <2>2, <2>3 DEF Frames
  <2> HIDE DEF frame
  <2>5. Len(SupersOf(frame.name)) \in Nat
    BY <1>3, <2>4, SupersAreNames
  <2>6. PassedBy(frame)
    BY <2>4, <2>5 DEF PassedBy
  <2> QED
    BY <1>1, <2>1, <2>4, <2>6, AdvanceKeepsOrder
<1> QED
  BY <1>2, <1>3
(* The next superclass: a load of its own, a failure or an answer.          *)
LEMMA LoadSuperKeepsOrder ==
  ASSUME LoaderInv, OrderInv, LoadSuper
  PROVE  OrderInv'
<1>1. calls # <<>> /\ Top.opened /\ Top.at <= Len(SupersOf(Top.name))
  BY DEF LoadSuper, AtSuper, Supers, SupersOf
<1>2. Top \in Frames /\ Readable(Top.name) /\ Top.name \in Names
  BY <1>1, TopIsACall
<1>3. PICK n : n = SupersOf(Top.name)[Top.at]
  OBVIOUS
<1>4. n \in Names /\ n \in ToSet(SupersOf(Top.name))
  <2>1. /\ Len(SupersOf(Top.name)) \in Nat
        /\ \A j \in 1 .. Len(SupersOf(Top.name)) : SupersOf(Top.name)[j] \in Names
        /\ ToSet(SupersOf(Top.name)) = {SupersOf(Top.name)[j] : j \in 1 .. Len(SupersOf(Top.name))}
    BY <1>2, SupersAreNames
  <2>2. Top.at \in 1 .. Len(SupersOf(Top.name))
    BY <1>1, <1>2, <2>1 DEF Frames
  <2> QED
    BY <1>3, <2>1, <2>2
<1>5. CASE Enter(n)
  BY <1>1, <1>3, <1>4, <1>5, EnterKeepsOrder
<1>6. CASE n \in loading /\ Fail
  <2>1. Top.name \notin Loadable
    BY <1>1, <1>3, <1>6, CycleFound DEF OrderInv
  <2> QED
    BY <1>1, <1>6, <2>1, FailKeepsOrder
<1>7. CASE n \in DOMAIN cached /\ cached[n] = Null /\ Fail
  <2>1. n \notin Loadable \/ \E m \in Ancestors(n) : NoRoom(m)
    BY <1>7 DEF OrderInv, OrderIndependent
  <2>2. n \notin Loadable => Top.name \notin Loadable
    BY <1>4, LoadableIsLeast
  <2>3. Ancestors(n) \subseteq Ancestors(Top.name)
    BY <1>2, <1>4, AncestorsThroughSupers, SupersAreNames
  <2> QED
    BY <1>1, <1>7, <2>1, <2>2, <2>3, FailKeepsOrder
<1>8. CASE /\ n \in DOMAIN cached /\ cached[n] # Null
           /\ Advance(NextSuper(cached[n])) /\ UNCHANGED <<cached, loading, table, walk>>
  <2>1. PICK t \in Frames : t = Top
    BY <1>2
  <2>2. PICK p : p = IF t.primary = Null THEN cached[n] ELSE t.primary
    OBVIOUS
  <2>3. cached[n] \in Nat
    <3>1. cached[n] \in DOMAIN classes \cup {Null} /\ DOMAIN classes \subseteq Nat
      BY <1>8 DEF LoaderInv, TypeOK
    <3> QED
      BY <3>1 DEF Null
  <2>4. PICK frame : frame = [name |-> t.name, opened |-> t.opened, at |-> t.at + 1, primary |-> p]
    OBVIOUS
  <2>5. NextSuper(cached[n]) = frame
    <3>1. NextSuper(cached[n]) = [t EXCEPT !.at = @ + 1, !.primary = p]
      BY <2>1, <2>2, Zenon DEF NextSuper
    <3>2. t = [name |-> t.name, opened |-> t.opened, at |-> t.at, primary |-> t.primary]
      BY DEF Frames
    <3> QED
      BY <2>4, <3>1, <3>2
  <2>6. /\ frame \in Frames /\ frame.name = Top.name /\ frame.at = Top.at + 1
        /\ frame.opened = TRUE
    BY <1>1, <2>1, <2>2, <2>3, <2>4 DEF Frames
  <2>7. PassedBy(Top)
    BY <1>1, TopIsACall DEF OrderInv, Passed, Top
  <2>8. n \in Found
    BY <1>8 DEF Found
  <2>9. PassedBy(frame)
    <3>1. ASSUME NEW j \in 1 .. Len(SupersOf(Top.name)), j < Top.at + 1
          PROVE  SupersOf(Top.name)[j] \in Found
      <4>1. j < Top.at \/ j = Top.at
        BY <1>2, <3>1 DEF Frames
      <4> QED
        BY <1>1, <1>3, <2>7, <2>8, <4>1 DEF PassedBy
    <3> QED
      BY <2>6, <3>1 DEF PassedBy
  <2>10. Advance(frame) /\ UNCHANGED <<cached, metaspace>>
    BY <1>8, <2>5 DEF table
  <2> QED
    BY <1>1, <2>6, <2>9, <2>10, AdvanceKeepsOrder
<1> QED
  BY <1>3, <1>5, <1>6, <1>7, <1>8 DEF LoadSuper, Supers, SupersOf

(* All superclasses found: the class is, or there is no room for it.        *)
LEMMA DefineKeepsOrder ==
  ASSUME LoaderInv, OrderInv, Define
  PROVE  OrderInv'
<1>1. calls # <<>> /\ Top.opened /\ Top.at > Len(SupersOf(Top.name))
  BY DEF Define, Supers, SupersOf
<1>2. Top \in Frames /\ Readable(Top.name) /\ Top.name \in Names
  BY <1>1, TopIsACall
<1>3. PICK size \in Nat : size = Files[Top.name].size
  BY <1>2, FilesAssumption DEF Readable
<1>4. metaspace \in Allocator
  BY DEF LoaderInv, TypeOK
<1>5. CASE ~CanAllocate(metaspace, size)
  <2>1. Fail
    BY <1>3, <1>5 DEF Define
  <2>2. PICK name : name = Top.name
    OBVIOUS
  <2>3. NoRoom(name)'
    <3>1. Leave(Null) /\ metaspace' = metaspace
      BY <2>1 DEF Fail, table
    <3>2. Top.name \in DOMAIN cached' /\ cached'[Top.name] = Null
      BY <1>1, <3>1, LeaveEffect
    <3> QED
      BY <1>2, <1>3, <1>5, <2>2, <3>1, <3>2 DEF NoRoom, Readable, CanAllocate
  <2>4. name \in Ancestors(Top.name)
    BY <1>2, <2>2, AncestorsThroughSupers
  <2> QED
    BY <1>1, <2>1, <2>2, <2>3, <2>4, FailKeepsOrder
<1>6. CASE CanAllocate(metaspace, size)
  <2>1. metaspace' = Allocate(metaspace, size) /\ Leave(metaspace.used + 1)
    BY <1>3, <1>6 DEF Define
  <2>2. metaspace'.used = metaspace.used + size /\ metaspace'.committed = metaspace.committed
    BY <1>4, <2>1 DEF Allocate, Allocator
  <2>3. metaspace.used + 1 # Null
    BY <1>4 DEF Null, Allocator
  <2>4. ToSet(SupersOf(Top.name)) \subseteq Found
    <3>1. /\ Len(SupersOf(Top.name)) \in Nat
          /\ ToSet(SupersOf(Top.name)) = {SupersOf(Top.name)[j] : j \in 1 .. Len(SupersOf(Top.name))}
      BY <1>2, SupersAreNames
    <3>2. ASSUME NEW j \in 1 .. Len(SupersOf(Top.name))
          PROVE  SupersOf(Top.name)[j] \in Found
      <4>1. j < Top.at
        BY <1>1, <1>2, <3>1 DEF Frames
      <4>2. PassedBy(Top)
        BY <1>1, TopIsACall DEF OrderInv, Passed, Top
      <4> QED
        BY <1>1, <4>1, <4>2 DEF PassedBy
    <3> QED
      BY <3>1, <3>2
  <2>5. Found \subseteq Loadable
    BY DEF OrderInv, OrderIndependent, Found
  <2>6. Top.name \in Loadable
    BY <1>2, <2>4, <2>5, LoadableIsSound
  <2> QED
    BY <1>1, <1>3, <2>1, <2>2, <2>3, <2>6, LeaveKeepsOrder
<1> QED
  BY <1>5, <1>6

(* Before the first request there are no answers.                           *)
LEMMA NoAnswersYet == Init => OrderInv
<1> SUFFICES ASSUME Init PROVE OrderInv
  OBVIOUS
<1>1. DOMAIN cached = {} /\ Len(calls) = 0
  BY DEF Init
<1> QED
  BY <1>1 DEF OrderInv, Waiting, Passed, OrderIndependent

(* What OrderIndependent needs to be inductive is kept by every step: the    *)
(* chain of the loads in progress, and what each of them has gone past.     *)
THEOREM OrderInvariance == Spec => []OrderInv
<1>1. Init => OrderInv
  BY NoAnswersYet
<1>2. LoaderInv /\ OrderInv /\ [Next]_vars => OrderInv'
  <2> SUFFICES ASSUME LoaderInv, OrderInv, [Next]_vars PROVE OrderInv'
    OBVIOUS
  <2>1. CASE \E n \in Names : Request(n)
    BY <2>1, EnterKeepsOrder DEF Request
  <2>2. CASE Open
    BY <2>2, OpenKeepsOrder
  <2>3. CASE LoadSuper
    BY <2>3, LoadSuperKeepsOrder
  <2>4. CASE Define
    BY <2>4, DefineKeepsOrder
  <2>5. CASE Collect \/ WalkNext \/ WalkDone \/ UNCHANGED vars
    <3>1. UNCHANGED <<cached, metaspace, calls>>
      BY <2>5 DEF Collect, WalkNext, WalkDone, vars, table
    <3>2. OrderIndependent' /\ Found' = Found
      BY <3>1, AnswersStay DEF OrderInv
    <3> QED
      BY <3>1, <3>2 DEF OrderInv, Waiting, Passed, PassedBy, SupersOf
  <2> QED
    BY <2>1, <2>2, <2>3, <2>4, <2>5 DEF Next, Proceed
<1> QED
  BY <1>1, <1>2, LoaderInvariance, PTL DEF Spec

(* What load_class answers for a name is a matter of the class files alone, *)
(* for any files, cyclic and broken ones among them, and any requests: the  *)
(* class is loaded exactly when it and its superclasses can be, unless one  *)
(* of them found metaspace full.                                            *)
THEOREM AnswersDoNotDependOnOrder == Spec => []OrderIndependent
<1>1. OrderInv => OrderIndependent
  BY DEF OrderInv
<1> QED
  BY <1>1, OrderInvariance, PTL

----------------------------------------------------------------------------
(* The instanceof table.                                                    *)

Lower == {ss \in Nat \X Nat : ss[1] < ss[2]}

(* A set of naturals that is not empty has a least element.                 *)
LEMMA LeastElement ==
  ASSUME NEW S \in SUBSET Nat, S # {}
  PROVE  \E n \in S : \A k \in S : n <= k
<1>1. IsWellFoundedOn(Lower, Nat)
  BY NatLessThanWellFounded DEF OpToRel, Lower
<1>2. PICK n \in S : \A k \in Nat : <<k, n>> \in Lower => k \notin S
  BY <1>1, WFMin
<1>3. \A k \in S : ~(k < n)
  BY <1>2 DEF Lower
<1> QED
  BY <1>3

(* One more element finds its place among others that are sorted: before    *)
(* the first that is greater.                                               *)
LEMMA OneMoreSorted ==
  ASSUME NEW m \in Nat, NEW s \in [1 .. m + 1 -> Nat], NEW p \in Bijection(1 .. m, 1 .. m),
         \A i, j \in 1 .. m : i < j => s[p[i]] <= s[p[j]]
  PROVE  \E q \in Bijection(1 .. m + 1, 1 .. m + 1) :
           \A i, j \in 1 .. m + 1 : i < j => s[q[i]] <= s[q[j]]
<1> DEFINE greater == {i \in 1 .. m + 1 : i <= m => s[p[i]] > s[m + 1]}
<1>1. /\ p \in [1 .. m -> 1 .. m]
      /\ \A a, b \in 1 .. m : p[a] = p[b] => a = b
      /\ \A t \in 1 .. m : \E a \in 1 .. m : p[a] = t
  BY DEF Bijection, Injection, Surjection, IsInjective
<1>0. /\ \A i \in 1 .. m : p[i] \in 1 .. m + 1 /\ s[p[i]] \in Nat
      /\ m + 1 \in 1 .. m + 1 /\ s[m + 1] \in Nat
  <2>1. \A i \in 1 .. m + 1 : s[i] \in Nat
    OBVIOUS
  <2>2. m + 1 \in 1 .. m + 1 /\ \A j \in 1 .. m : j \in 1 .. m + 1
    OBVIOUS
  <2>3. \A i \in 1 .. m : p[i] \in 1 .. m + 1
    BY <1>1, <2>2
  <2> QED
    BY <2>1, <2>2, <2>3
<1>2. greater \in SUBSET Nat /\ m + 1 \in greater
  OBVIOUS
<1>3. PICK k \in greater : \A i \in greater : k <= i
  BY <1>2, LeastElement
<1>4. /\ k \in 1 .. m + 1
      /\ \A i \in 1 .. m : i >= k => s[p[i]] >= s[m + 1]
      /\ \A i \in 1 .. m : i < k => s[p[i]] <= s[m + 1]
  <2>1. k \in 1 .. m + 1 /\ (k <= m => s[p[k]] > s[m + 1])
    BY <1>3
  <2>2. ASSUME NEW i \in 1 .. m, i >= k PROVE s[p[i]] >= s[m + 1]
    <3>1. s[p[k]] > s[m + 1] /\ k \in 1 .. m
      BY <2>1, <2>2
    <3>2. k = i \/ s[p[k]] <= s[p[i]]
      BY <2>2, <3>1
    <3>3. s[p[k]] \in Nat /\ s[p[i]] \in Nat /\ s[m + 1] \in Nat
      BY <1>0, <2>2, <3>1
    <3> QED
      BY <3>1, <3>2, <3>3
  <2>3. ASSUME NEW i \in 1 .. m, i < k PROVE s[p[i]] <= s[m + 1]
    <3>1. i \notin greater
      BY <1>3, <2>1, <2>3
    <3>2. s[p[i]] \in Nat /\ s[m + 1] \in Nat
      BY <1>0, <2>3
    <3> QED
      BY <3>1, <3>2
  <2> QED
    BY <2>1, <2>2, <2>3
<1> HIDE DEF greater
<1> DEFINE q == [i \in 1 .. m + 1 |-> IF i < k THEN p[i] ELSE IF i = k THEN m + 1 ELSE p[i - 1]]
<1>5. q \in [1 .. m + 1 -> 1 .. m + 1]
  <2>1. ASSUME NEW i \in 1 .. m + 1 PROVE q[i] \in 1 .. m + 1
    <3>1. CASE i < k
      <4>1. i \in 1 .. m /\ q[i] = p[i]
        BY <1>4, <3>1
      <4> QED
        BY <1>0, <4>1
    <3>2. CASE i = k
      BY <3>2
    <3>3. CASE i > k
      <4>1. i - 1 \in 1 .. m /\ q[i] = p[i - 1]
        BY <1>4, <3>3
      <4> QED
        BY <1>0, <4>1
    <3> QED
      BY <1>4, <3>1, <3>2, <3>3
  <2> QED
    BY <2>1
<1>6. \A a, b \in 1 .. m + 1 : q[a] = q[b] => a = b
  <2>1. \A a \in 1 .. m : p[a] \in 1 .. m
    BY <1>1
  <2>2. ASSUME NEW a \in 1 .. m + 1, NEW b \in 1 .. m + 1, q[a] = q[b]
        PROVE  a = b
    <3>1. CASE a = k
      <4>1. q[b] = m + 1
        BY <1>4, <2>2, <3>1
      <4> QED
        BY <1>4, <2>1, <2>2, <3>1, <4>1
    <3>2. CASE b = k
      <4>1. q[a] = m + 1
        BY <1>4, <2>2, <3>2
      <4> QED
        BY <1>4, <2>1, <2>2, <3>2, <4>1
    <3>3. CASE a # k /\ b # k
      <4>1. PICK c \in 1 .. m : q[a] = p[c] /\ c = (IF a < k THEN a ELSE a - 1)
        BY <1>4, <3>3
      <4>2. PICK d \in 1 .. m : q[b] = p[d] /\ d = (IF b < k THEN b ELSE b - 1)
        BY <1>4, <3>3
      <4>3. c = d
        BY <1>1, <2>2, <4>1, <4>2
      <4> QED
        BY <1>4, <3>3, <4>1, <4>2, <4>3
    <3> QED
      BY <3>1, <3>2, <3>3
  <2> QED
    BY <2>2
<1>7. \A t \in 1 .. m + 1 : \E a \in 1 .. m + 1 : q[a] = t
  <2>1. ASSUME NEW t \in 1 .. m PROVE \E a \in 1 .. m + 1 : q[a] = t
    <3>1. PICK c \in 1 .. m : p[c] = t
      BY <1>1
    <3>2. CASE c < k
      <4>1. q[c] = t /\ c \in 1 .. m + 1
        BY <1>4, <3>1, <3>2
      <4> QED BY <4>1
    <3>3. CASE ~(c < k)
      <4>1. q[c + 1] = t /\ c + 1 \in 1 .. m + 1
        BY <1>4, <3>1, <3>3
      <4> QED BY <4>1
    <3> QED
      BY <3>2, <3>3
  <2>2. q[k] = m + 1
    BY <1>4
  <2>3. \A t \in 1 .. m + 1 : t \in 1 .. m \/ t = m + 1
    OBVIOUS
  <2> HIDE DEF q
  <2> QED
    BY <1>4, <2>1, <2>2, <2>3
<1>8. \A i, j \in 1 .. m + 1 : i < j => s[q[i]] <= s[q[j]]
  <2>1. ASSUME NEW i \in 1 .. m + 1, NEW j \in 1 .. m + 1, i < j
        PROVE  s[q[i]] <= s[q[j]]
    <3>1. CASE i < k /\ j < k
      <4>1. q[i] = p[i] /\ q[j] = p[j] /\ i \in 1 .. m /\ j \in 1 .. m
        BY <1>4, <2>1, <3>1
      <4> QED BY <2>1, <4>1
    <3>2. CASE i < k /\ j = k
      <4>1. q[i] = p[i] /\ q[j] = m + 1 /\ i \in 1 .. m
        BY <1>4, <2>1, <3>2
      <4> QED BY <1>4, <3>2, <4>1
    <3>3. CASE i < k /\ j > k
      <4>1. q[i] = p[i] /\ q[j] = p[j - 1] /\ i \in 1 .. m /\ j - 1 \in 1 .. m /\ i < j - 1
        BY <1>4, <2>1, <3>3
      <4> QED BY <4>1
    <3>4. CASE i = k /\ j > k
      <4>1. q[i] = m + 1 /\ q[j] = p[j - 1] /\ j - 1 \in 1 .. m /\ j - 1 >= k
        BY <1>4, <2>1, <3>4
      <4>2. s[p[j - 1]] >= s[m + 1] /\ s[p[j - 1]] \in Nat /\ s[m + 1] \in Nat
        BY <1>0, <1>4, <4>1
      <4> QED BY <4>1, <4>2
    <3>5. CASE i > k /\ j > k
      <4>1. /\ q[i] = p[i - 1] /\ q[j] = p[j - 1] /\ i - 1 \in 1 .. m /\ j - 1 \in 1 .. m
            /\ i - 1 < j - 1
        BY <1>4, <2>1, <3>5
      <4> QED BY <4>1
    <3> QED
      BY <1>4, <2>1, <3>1, <3>2, <3>3, <3>4, <3>5
  <2> QED
    BY <2>1
<1>9. q \in Bijection(1 .. m + 1, 1 .. m + 1)
  BY <1>5, <1>6, <1>7 DEF Bijection, Injection, Surjection, IsInjective
<1> QED
  BY <1>8, <1>9

SortedBy(s, n, p) ==
  p \in Bijection(1 .. n, 1 .. n) /\ \A i, j \in 1 .. n : i < j => s[p[i]] <= s[p[j]]

(* Hence any number of elements can be sorted.                              *)
LEMMA SortExists ==
  ASSUME NEW n \in Nat
  PROVE  \A s \in [1 .. n -> Nat] : \E p : SortedBy(s, n, p)
<1> DEFINE P(k) == \A s \in [1 .. k -> Nat] : \E p : SortedBy(s, k, p)
           fails == {k \in Nat : ~P(k)}
<1>1. P(0)
  <2>1. ASSUME NEW s \in [1 .. 0 -> Nat] PROVE SortedBy(s, 0, s)
    BY DEF SortedBy, Bijection, Injection, Surjection, IsInjective
  <2> QED
    BY <2>1
<1>2. ASSUME NEW m \in Nat, P(m) PROVE P(m + 1)
  <2>1. ASSUME NEW s \in [1 .. m + 1 -> Nat]
        PROVE  \E p : SortedBy(s, m + 1, p)
    <3> DEFINE r == [i \in 1 .. m |-> s[i]]
    <3>1. r \in [1 .. m -> Nat]
      OBVIOUS
    <3>2. PICK p : SortedBy(r, m, p)
      BY <1>2, <3>1
    <3>3. p \in Bijection(1 .. m, 1 .. m) /\ \A i \in 1 .. m : p[i] \in 1 .. m
      BY <3>2 DEF SortedBy, Bijection, Injection
    <3>4. \A i, j \in 1 .. m : i < j => s[p[i]] <= s[p[j]]
      BY <3>2, <3>3 DEF SortedBy
    <3>5. PICK q \in Bijection(1 .. m + 1, 1 .. m + 1) :
            \A i, j \in 1 .. m + 1 : i < j => s[q[i]] <= s[q[j]]
      BY <3>3, <3>4, OneMoreSorted
    <3> QED
      BY <3>5 DEF SortedBy
  <2> QED
    BY <2>1
<1> HIDE DEF P
<1>3. SUFFICES ASSUME ~P(n) PROVE FALSE
  BY DEF P
<1>4. n \in fails /\ fails \in SUBSET Nat
  BY <1>3
<1>5. PICK k \in fails : \A i \in fails : k <= i
  BY <1>4, LeastElement
<1>6. k \in Nat /\ ~P(k)
  BY <1>5
<1>7. k # 0
  BY <1>1, <1>6
<1>8. k - 1 \in Nat /\ (k - 1) + 1 = k /\ ~(k <= k - 1)
  BY <1>6, <1>7
<1>9. P(k - 1)
  BY <1>5, <1>8
<1>10. P((k - 1) + 1)
  BY <1>2, <1>8, <1>9
<1> QED
  BY <1>6, <1>8, <1>10

(* What std::sort makes of the pointers: the same ones, in order.           *)
LEMMA SortedFacts ==
  ASSUME NEW n \in Nat, NEW s \in [1 .. n -> Nat]
  PROVE  /\ Sorted(s) \in Seq(Nat) /\ Len(Sorted(s)) = n
         /\ Ascending(Sorted(s))
         /\ {Sorted(s)[i] : i \in 1 .. n} = {s[i] : i \in 1 .. n}
<1> DEFINE all == {[i \in DOMAIN s |-> s[p[i]]] : p \in Bijection(DOMAIN s, DOMAIN s)}
<1>1. DOMAIN s = 1 .. n
  OBVIOUS
<1>2. PICK p : SortedBy(s, n, p)
  BY SortExists
<1>3. p \in Bijection(1 .. n, 1 .. n) /\ \A i, j \in 1 .. n : i < j => s[p[i]] <= s[p[j]]
  BY <1>2 DEF SortedBy
<1>4. Ascending([i \in DOMAIN s |-> s[p[i]]])
  BY <1>1, <1>3 DEF Ascending
<1>5. \E t \in all : Ascending(t)
  BY <1>1, <1>3, <1>4
<1>6. Sorted(s) \in all /\ Ascending(Sorted(s))
  BY <1>5 DEF Sorted
<1>7. PICK r \in Bijection(1 .. n, 1 .. n) : Sorted(s) = [i \in 1 .. n |-> s[r[i]]]
  BY <1>1, <1>6
<1>8. r \in [1 .. n -> 1 .. n] /\ \A t \in 1 .. n : \E a \in 1 .. n : r[a] = t
  BY <1>7 DEF Bijection, Injection, Surjection
<1>9. Sorted(s) \in [1 .. n -> Nat] /\ \A i \in 1 .. n : Sorted(s)[i] = s[r[i]]
  BY <1>7, <1>8
<1>10. Sorted(s) \in Seq(Nat) /\ Len(Sorted(s)) = n
  BY <1>9
<1>11. {Sorted(s)[i] : i \in 1 .. n} = {s[i] : i \in 1 .. n}
  BY <1>8, <1>9
<1> QED
  BY <1>6, <1>10, <1>11

(* Where the entry of a class is in the table.                              *)
EntryOf(c) == class_indeces[classes[c].class_index]

(* A class is that of a readable file, its superclasses are loaded, and its *)
(* entry lies in the table and holds what the cache holds for them.         *)
EntrySound(c) ==
  LET supers == SupersOf(classes[c].name)
      first  == EntryOf(c)[1]
      length == EntryOf(c)[2]
  IN  /\ Readable(classes[c].name) /\ ToSet(supers) \subseteq Found
      /\ first \in Nat /\ length = Len(supers) /\ first + length <= Len(superclasses)
      /\ \A i, j \in 1 .. length :
           i < j => superclasses[first + i] <= superclasses[first + j]
      /\ {superclasses[first + i] : i \in 1 .. length} = {cached[m] : m \in ToSet(supers)}

TableInv ==
  /\ superclasses \in Seq(Nat)
  /\ \A c \in DOMAIN classes : EntrySound(c)

(* An entry stays what it is while the table and the cache only grow.       *)
LEMMA EntryStays ==
  ASSUME TableInv, NEW c \in DOMAIN classes, classes'[c] = classes[c], EntryOf(c)' = EntryOf(c),
         superclasses' \in Seq(Nat), Len(superclasses') >= Len(superclasses),
         \A i \in 1 .. Len(superclasses) : superclasses'[i] = superclasses[i],
         DOMAIN cached \subseteq DOMAIN cached',
         \A m \in DOMAIN cached : cached'[m] = cached[m]
  PROVE  EntrySound(c)'
<1> DEFINE supers == SupersOf(classes[c].name)
           first  == EntryOf(c)[1]
           length == EntryOf(c)[2]
<1>1. /\ Readable(classes[c].name) /\ ToSet(supers) \subseteq Found
      /\ first \in Nat /\ length = Len(supers) /\ first + length <= Len(superclasses)
      /\ \A i, j \in 1 .. length :
           i < j => superclasses[first + i] <= superclasses[first + j]
      /\ {superclasses[first + i] : i \in 1 .. length} = {cached[m] : m \in ToSet(supers)}
  BY DEF TableInv, EntrySound
<1>2. /\ SupersOf(classes'[c].name) = supers /\ Readable(classes'[c].name)
      /\ EntryOf(c)'[1] = first /\ EntryOf(c)'[2] = length
  BY <1>1 DEF SupersOf, Readable
<1>3. length \in Nat /\ Len(superclasses) \in Nat /\ Len(superclasses') \in Nat
  BY <1>1, SupersAreNames DEF TableInv
<1> HIDE DEF supers, first, length
<1>4. ToSet(supers) \subseteq Found'
  BY <1>1 DEF Found
<1>5. \A i \in 1 .. length : superclasses'[first + i] = superclasses[first + i]
  <2>1. \A i \in 1 .. length : first + i \in 1 .. Len(superclasses)
    BY <1>1, <1>3
  <2> QED
    BY <2>1
<1>6. {superclasses'[first + i] : i \in 1 .. length} = {superclasses[first + i] : i \in 1 .. length}
  BY <1>5
<1>7. {cached'[m] : m \in ToSet(supers)} = {cached[m] : m \in ToSet(supers)}
  <2>1. \A m \in ToSet(supers) : m \in DOMAIN cached
    BY <1>1 DEF Found
  <2> QED
    BY <2>1
<1>8. first + length <= Len(superclasses')
  BY <1>1, <1>3
<1>9. \A i, j \in 1 .. length : i < j => superclasses'[first + i] <= superclasses'[first + j]
  BY <1>1, <1>5
<1> QED
  BY <1>1, <1>2, <1>4, <1>6, <1>7, <1>8, <1>9 DEF EntrySound

(* A step that enters nothing in the table, and takes no answer back.       *)
LEMMA TableStays ==
  ASSUME TableInv, UNCHANGED <<classes, class_indeces, superclasses>>,
         DOMAIN cached \subseteq DOMAIN cached',
         \A m \in DOMAIN cached : cached'[m] = cached[m]
  PROVE  TableInv'
<1>1. superclasses' \in Seq(Nat) /\ Len(superclasses) \in Nat /\ Len(superclasses') = Len(superclasses)
  BY DEF TableInv
<1>2. ASSUME NEW c \in DOMAIN classes PROVE EntrySound(c)'
  <2>1. classes'[c] = classes[c] /\ EntryOf(c)' = EntryOf(c)
    BY DEF EntryOf
  <2> QED
    BY <1>1, <2>1, EntryStays
<1> QED
  BY <1>1, <1>2 DEF TableInv

(* The pointers that are entered: those of the superclasses, in order.      *)
LEMMA PointersFacts ==
  ASSUME LoaderInv, Readable(Top.name), ToSet(SupersOf(Top.name)) \subseteq Found
  PROVE  /\ SuperclassPointers \in Seq(Nat)
         /\ Len(SuperclassPointers) = Len(SupersOf(Top.name))
         /\ Ascending(SuperclassPointers)
         /\ {SuperclassPointers[i] : i \in 1 .. Len(SupersOf(Top.name))}
              = {cached[m] : m \in ToSet(SupersOf(Top.name))}
<1> DEFINE supers == SupersOf(Top.name)
           n == Len(supers)
           s == [i \in DOMAIN supers |-> cached[supers[i]]]
<1>1. /\ n \in Nat /\ supers \in Seq(Names)
      /\ ToSet(supers) = {supers[j] : j \in 1 .. n}
  BY SupersAreNames
<1>2. DOMAIN supers = 1 .. n
  BY <1>1
<1>3. \A m \in DOMAIN cached : cached[m] \in Nat
  <2>1. \A m \in DOMAIN cached : cached[m] \in DOMAIN classes \cup {Null}
    BY DEF LoaderInv, TypeOK
  <2>2. DOMAIN classes \subseteq Nat /\ Null \in Nat
    BY DEF LoaderInv, TypeOK, Null
  <2> QED
    BY <2>1, <2>2
<1>4. SuperclassPointers = Sorted(s)
  BY DEF SuperclassPointers, Supers, SupersOf
<1> HIDE DEF supers, n
<1>5. \A i \in 1 .. n : supers[i] \in DOMAIN cached
  BY <1>1 DEF Found, supers
<1>6. s \in [1 .. n -> Nat] /\ \A i \in 1 .. n : s[i] = cached[supers[i]]
  <2>1. \A i \in 1 .. n : cached[supers[i]] \in Nat
    BY <1>3, <1>5
  <2>2. s = [i \in 1 .. n |-> cached[supers[i]]]
    BY <1>2
  <2> QED
    BY <2>1, <2>2
<1> HIDE DEF s
<1>7. {s[i] : i \in 1 .. n} = {cached[m] : m \in ToSet(supers)}
  <2>1. \A i \in 1 .. n : supers[i] \in ToSet(supers)
    BY <1>1
  <2>2. \A m \in ToSet(supers) : \E i \in 1 .. n : m = supers[i]
    BY <1>1
  <2>3. {s[i] : i \in 1 .. n} \subseteq {cached[m] : m \in ToSet(supers)}
    BY <1>6, <2>1
  <2>4. {cached[m] : m \in ToSet(supers)} \subseteq {s[i] : i \in 1 .. n}
    BY <1>6, <2>2
  <2> QED
    BY <2>3, <2>4
<1>8. /\ Sorted(s) \in Seq(Nat) /\ Len(Sorted(s)) = n /\ Ascending(Sorted(s))
      /\ {Sorted(s)[i] : i \in 1 .. n} = {s[i] : i \in 1 .. n}
  BY <1>1, <1>6, SortedFacts
<1> QED
  BY <1>4, <1>7, <1>8 DEF n, supers

(* A sequence appended to another.                                          *)
LEMMA Appended ==
  ASSUME NEW a \in Seq(Nat), NEW b \in Seq(Nat)
  PROVE  /\ a \o b \in Seq(Nat) /\ Len(a) \in Nat /\ Len(a \o b) = Len(a) + Len(b)
         /\ \A i \in 1 .. Len(a) : (a \o b)[i] = a[i]
         /\ \A i \in 1 .. Len(b) : (a \o b)[Len(a) + i] = b[i]
OBVIOUS

(* A new class: what is entered for it is right, and what was entered for   *)
(* the others stays.                                                        *)
LEMMA DefineKeepsTable ==
  ASSUME LoaderInv, OrderInv, TableInv, Define
  PROVE  TableInv'
<1> DEFINE supers == SupersOf(Top.name)
           size   == Files[Top.name].size
           k      == Len(class_indeces)
<1>0. PICK c, n : c = metaspace.used + 1 /\ n = Len(superclasses)
  OBVIOUS
<1>1. calls # <<>> /\ Top.opened /\ Top.at > Len(supers)
  BY DEF Define, Supers, SupersOf
<1>2. Top \in Frames /\ Readable(Top.name) /\ Top.name \in Names
  BY <1>1, TopIsACall
<1>3. CASE ~CanAllocate(metaspace, size)
  <2>1. Fail
    BY <1>3 DEF Define
  <2>2. Leave(Null) /\ UNCHANGED <<classes, class_indeces, superclasses>>
    BY <2>1 DEF Fail, table
  <2>3. DOMAIN cached \subseteq DOMAIN cached' /\ \A m \in DOMAIN cached : cached'[m] = cached[m]
    BY <1>1, <2>2, LeaveEffect
  <2> QED
    BY <2>2, <2>3, TableStays
<1>4. CASE CanAllocate(metaspace, size)
  <2>1. /\ classes' = [d \in DOMAIN classes \cup {c} |-> IF d = c THEN Header ELSE classes[d]]
        /\ class_indeces' = Append(class_indeces, Index)
        /\ superclasses' = superclasses \o SuperclassPointers
        /\ Leave(c)
    BY <1>0, <1>4 DEF Define
  <2>2. DOMAIN cached \subseteq DOMAIN cached' /\ \A m \in DOMAIN cached : cached'[m] = cached[m]
    BY <1>1, <2>1, LeaveEffect
  <2>3. ToSet(supers) \subseteq Found
    <3>1. Len(supers) \in Nat /\ ToSet(supers) = {supers[j] : j \in 1 .. Len(supers)}
      BY <1>2, SupersAreNames
    <3>2. PassedBy(Top)
      BY <1>1, TopIsACall DEF OrderInv, Passed, Top
    <3>3. \A j \in 1 .. Len(supers) : j < Top.at
      BY <1>1, <1>2, <3>1 DEF Frames
    <3> QED
      BY <1>1, <3>1, <3>2, <3>3 DEF PassedBy
  <2> DEFINE p == SuperclassPointers
  <2>4. /\ p \in Seq(Nat) /\ Len(p) = Len(supers) /\ Ascending(p)
        /\ {p[i] : i \in 1 .. Len(supers)} = {cached[m] : m \in ToSet(supers)}
    BY <1>2, <2>3, PointersFacts
  <2>5. Len(supers) \in Nat
    BY <1>2, SupersAreNames
  <2>6. c \notin DOMAIN classes
    <3>1. metaspace.used \in Nat /\ \A d \in DOMAIN classes : d \in 1 .. metaspace.used
      BY DEF LoaderInv, TypeOK, Allocator
    <3> QED
      BY <1>0, <3>1
  <2>7. /\ DOMAIN classes' = DOMAIN classes \cup {c} /\ classes'[c] = Header
        /\ \A d \in DOMAIN classes : classes'[d] = classes[d]
    BY <2>1, <2>6
  <2>8. Header.name = Top.name /\ Header.class_index = k + 1
    BY DEF Header
  <2>9. /\ class_indeces'[k + 1] = <<n, Len(p)>>
        /\ \A i \in DOMAIN class_indeces : class_indeces'[i] = class_indeces[i]
    <3>1. PICK S : class_indeces \in Seq(S)
      BY DEF LoaderInv
    <3>2. PICK index : index = Index
      OBVIOUS
    <3>3. class_indeces \in Seq(S \cup {index}) /\ index \in S \cup {index}
      BY <3>1
    <3>4. class_indeces' = Append(class_indeces, index)
      BY <2>1, <3>2
    <3>5. /\ class_indeces'[k + 1] = index
          /\ \A i \in DOMAIN class_indeces : class_indeces'[i] = class_indeces[i]
      BY <3>3, <3>4
    <3>6. index = <<n, Len(p)>>
      BY <1>0, <3>2 DEF Index
    <3> QED
      BY <3>5, <3>6
  <2> HIDE DEF p, k
  <2>10. superclasses' = superclasses \o p
    BY <2>1 DEF p
  <2>11. /\ superclasses \in Seq(Nat) /\ n \in Nat
         /\ superclasses' \in Seq(Nat) /\ Len(superclasses') = n + Len(p)
         /\ \A i \in 1 .. n : superclasses'[i] = superclasses[i]
         /\ \A i \in 1 .. Len(p) : superclasses'[n + i] = p[i]
    BY <1>0, <2>4, <2>10, Appended DEF TableInv
  <2>12. ASSUME NEW d \in DOMAIN classes PROVE EntrySound(d)'
    <3>1. classes'[d] = classes[d]
      BY <2>7
    <3>2. EntryOf(d)' = EntryOf(d)
      <4>1. classes[d].class_index \in DOMAIN class_indeces
        BY DEF LoaderInv, TypeOK
      <4> QED
        BY <2>9, <3>1, <4>1 DEF EntryOf
    <3>3. Len(superclasses') >= Len(superclasses)
      BY <1>0, <2>4, <2>5, <2>11
    <3> QED
      BY <1>0, <2>2, <2>11, <3>1, <3>2, <3>3, EntryStays
  <2>13. EntrySound(c)'
    <3>1. classes'[c].name = Top.name /\ classes'[c].class_index = k + 1
      BY <2>7, <2>8
    <3>2. class_indeces'[classes'[c].class_index] = <<n, Len(p)>>
      BY <2>9, <3>1
    <3>3. \A i \in 1 .. Len(p) : superclasses'[n + i] = p[i]
      BY <2>11
    <3>4. \A i, j \in 1 .. Len(p) : i < j => superclasses'[n + i] <= superclasses'[n + j]
      <4>1. \A i, j \in 1 .. Len(p) : i < j => p[i] <= p[j]
        BY <2>4 DEF Ascending
      <4> QED
        BY <3>3, <4>1
    <3>5. {superclasses'[n + i] : i \in 1 .. Len(p)} = {cached[m] : m \in ToSet(supers)}
      BY <2>4, <3>3
    <3>6. {cached'[m] : m \in ToSet(supers)} = {cached[m] : m \in ToSet(supers)}
      <4>1. \A m \in ToSet(supers) : m \in DOMAIN cached
        BY <2>3 DEF Found
      <4> QED
        BY <2>2, <4>1
    <3>7. ToSet(supers) \subseteq Found'
      BY <2>2, <2>3 DEF Found
    <3>8. n + Len(p) <= Len(superclasses')
      BY <2>4, <2>5, <2>11
    <3>9. PICK e : e = <<n, Len(p)>>
      OBVIOUS
    <3>10. /\ SupersOf(classes'[c].name) = supers /\ Readable(classes'[c].name)
           /\ class_indeces'[classes'[c].class_index] = e
           /\ e[1] = n /\ e[2] = Len(p)
      BY <1>2, <3>1, <3>2, <3>9
    <3>11. /\ e[1] \in Nat /\ e[2] = Len(supers) /\ e[1] + e[2] <= Len(superclasses')
           /\ \A i, j \in 1 .. e[2] :
                i < j => superclasses'[e[1] + i] <= superclasses'[e[1] + j]
           /\ {superclasses'[e[1] + i] : i \in 1 .. e[2]} = {cached'[m] : m \in ToSet(supers)}
      <4>1. e[1] \in Nat /\ e[2] = Len(supers) /\ e[1] + e[2] <= Len(superclasses')
        BY <2>4, <2>11, <3>8, <3>10
      <4>2. \A i, j \in 1 .. e[2] :
              i < j => superclasses'[e[1] + i] <= superclasses'[e[1] + j]
        BY <3>4, <3>10, Zenon
      <4>3. {superclasses'[e[1] + i] : i \in 1 .. e[2]} = {cached'[m] : m \in ToSet(supers)}
        BY <3>5, <3>6, <3>10, Zenon
      <4> QED
        BY <4>1, <4>2, <4>3
    <3> HIDE DEF supers
    <3> QED
      BY <3>7, <3>10, <3>11 DEF EntrySound, EntryOf, SupersOf, Readable
  <2> QED
    BY <2>7, <2>11, <2>12, <2>13 DEF TableInv
<1> QED
  BY <1>3, <1>4

(* No step spoils an entry.                                                 *)
LEMMA StepKeepsTable ==
  ASSUME LoaderInv, OrderInv, TableInv, [Next]_vars
  PROVE  TableInv'
<1>1. ASSUME NEW n, Enter(n) PROVE TableInv'
  <2>1. UNCHANGED <<cached, classes, class_indeces, superclasses>>
    BY <1>1 DEF Enter, table
  <2> QED
    BY <2>1, TableStays
<1>2. ASSUME UNCHANGED <<cached, table>> PROVE TableInv'
  <2>1. UNCHANGED <<cached, classes, class_indeces, superclasses>>
    BY <1>2 DEF table
  <2> QED
    BY <2>1, TableStays
<1>3. ASSUME calls # <<>>, Fail PROVE TableInv'
  <2>1. Leave(Null) /\ UNCHANGED <<classes, class_indeces, superclasses>>
    BY <1>3 DEF Fail, table
  <2>2. DOMAIN cached \subseteq DOMAIN cached' /\ \A m \in DOMAIN cached : cached'[m] = cached[m]
    BY <1>3, <2>1, LeaveEffect
  <2> QED
    BY <2>1, <2>2, TableStays
<1>4. CASE \E n \in Names : Request(n)
  BY <1>1, <1>4 DEF Request
<1>5. CASE Open
  BY <1>2, <1>3, <1>5 DEF Open
<1>6. CASE LoadSuper
  BY <1>1, <1>2, <1>3, <1>6 DEF LoadSuper, AtSuper
<1>7. CASE Define
  BY <1>7, DefineKeepsTable
<1>8. CASE Collect \/ WalkNext \/ WalkDone \/ UNCHANGED vars
  BY <1>2, <1>8 DEF Collect, WalkNext, WalkDone, vars, table
<1> QED
  BY <1>4, <1>5, <1>6, <1>7, <1>8 DEF Next, Proceed

(* What the entry of a class lists is the piece of the table it points at.  *)
LEMMA EntriesListed ==
  ASSUME TableInv
  PROVE  TableEntries
<1> SUFFICES ASSUME NEW c \in DOMAIN classes
             PROVE  /\ Len(Listed(c)) = Len(SupersOf(classes[c].name))
                    /\ ToSet(Listed(c)) = {cached[m] : m \in ToSet(SupersOf(classes[c].name))}
                    /\ Ascending(Listed(c))
  BY DEF TableEntries, SupersOf
<1> DEFINE supers == SupersOf(classes[c].name)
           first  == EntryOf(c)[1]
           length == EntryOf(c)[2]
<1>1. /\ Readable(classes[c].name) /\ ToSet(supers) \subseteq Found
      /\ first \in Nat /\ length = Len(supers) /\ first + length <= Len(superclasses)
      /\ \A i, j \in 1 .. length :
           i < j => superclasses[first + i] <= superclasses[first + j]
      /\ {superclasses[first + i] : i \in 1 .. length} = {cached[m] : m \in ToSet(supers)}
  BY DEF TableInv, EntrySound
<1>2. length \in Nat /\ superclasses \in Seq(Nat) /\ Len(superclasses) \in Nat
  BY <1>1, SupersAreNames DEF TableInv
<1>3. Listed(c) = SubSeq(superclasses, first + 1, first + length)
  BY DEF Listed, EntryOf
<1> HIDE DEF supers, first, length
<1>4. /\ Listed(c) = [i \in 1 .. length |-> superclasses[first + i]]
      /\ Len(Listed(c)) = length /\ DOMAIN Listed(c) = 1 .. length
  <2>1. PICK l : l = SubSeq(superclasses, first + 1, first + length)
    OBVIOUS
  <2>2. first + 1 \in 1 .. Len(superclasses) + 1 /\ first + length \in first .. Len(superclasses)
    BY <1>1, <1>2
  <2>3. /\ Len(l) = length /\ DOMAIN l = 1 .. length /\ l \in Seq(Nat)
        /\ \A i \in 1 .. length : l[i] = superclasses[first + i]
    BY <1>1, <1>2, <2>1, <2>2
  <2>4. l = [i \in 1 .. length |-> superclasses[first + i]]
    BY <2>3
  <2> QED
    BY <1>3, <2>1, <2>3, <2>4
<1>5. ToSet(Listed(c)) = {superclasses[first + i] : i \in 1 .. length}
  BY <1>4 DEF ToSet
<1>6. Ascending(Listed(c))
  BY <1>1, <1>4 DEF Ascending
<1> QED
  BY <1>1, <1>4, <1>5, <1>6 DEF supers

(* The entry of a class in the instanceof table lists its superclasses,     *)
(* all of them and nothing else, ascending as lower_bound needs them, for   *)
(* any files and any order of loads: insert_index comes after the loop that *)
(* loads the superclasses, so no nested load enters anything in between.    *)
THEOREM EntriesAreRight == Spec => []TableEntries
<1>1. Init => TableInv
  <2> SUFFICES ASSUME Init PROVE TableInv
    OBVIOUS
  <2>1. DOMAIN classes = {} /\ superclasses = <<>>
    BY DEF Init
  <2> QED
    BY <2>1 DEF TableInv
<1>2. LoaderInv /\ OrderInv /\ TableInv /\ [Next]_vars => TableInv'
  BY StepKeepsTable
<1>3. TableInv => TableEntries
  BY EntriesListed
<1> QED
  BY <1>1, <1>2, <1>3, LoaderInvariance, OrderInvariance, PTL DEF Spec
=============================================================================
