----------------------------- MODULE ClassLoader -----------------------------
(***************************************************************************)
(* Class loading: load_class_unwrapped of classloader/classloader.cpp, the  *)
(* part of impl_load_class that decides whether a class can be loaded, the  *)
(* instanceof table, and the walk of the collector over the loaded classes. *)
(*                                                                         *)
(* Loading recurses into the superclasses: `calls` is the stack of the      *)
(* loads in progress, outermost first.  When a nested load returns, its     *)
(* answer is what it has just put in the cache, so the caller looks the     *)
(* name up again.  A class is known by the address (plus 1) of its memory   *)
(* in the metaspace.  What is written in that memory is ClassLayout's.      *)
(*                                                                         *)
(* The bootstrap classes are never loaded (classloader::initialize has a    *)
(* TODO there) and nothing commits metaspace; Committed is what a finished  *)
(* initialize would have committed, and 0 in the code as it is.  Nor is     *)
(* class_size ever written: `sized`, chosen at the start, says whether it   *)
(* is, and FALSE is the code as it is.                                      *)
(***************************************************************************)
EXTENDS BumpAllocator, FiniteSets, Functions, SequencesExt

CONSTANTS
  Names,       \* names of classes
  Files,       \* name of a class file -> [valid, supers, size]
  Committed    \* units of metaspace that are committed

ASSUME FilesAssumption ==
  /\ DOMAIN Files \subseteq Names
  /\ \A n \in DOMAIN Files :
       /\ Files[n].valid \in BOOLEAN
       /\ Files[n].supers \in Seq(Names)
       /\ Files[n].size \in Nat \ {0}
  /\ Committed \in 0 .. Cap

VARIABLES
  cached,          \* cached_classes: name -> class, or Null
  loading,         \* loading_classes
  calls,           \* the loads in progress
  metaspace,
  classes,         \* class -> what its header holds
  class_indeces,   \* of the instanceof table: <<first, length>> per index
  superclasses,    \* of the instanceof table: the superclasses, one after another
  walk,            \* the class_iterator of a collection, or Idle
  sized            \* whether impl_load_class writes class_size

vars == <<cached, loading, calls, metaspace, classes, class_indeces, superclasses, walk, sized>>

table == <<metaspace, classes, class_indeces, superclasses, sized>>

Null == 0
Idle == -1

(* reader.initialize and the magic number.                                  *)
Readable(n) == n \in DOMAIN Files /\ Files[n].valid

Top == calls[Len(calls)]

----------------------------------------------------------------------------
(* load_class_unwrapped.                                                    *)

UnknownAgain(n) == n \notin loading         \* a slip: the cache not consulted

(* Not in the cache and not being loaded: impl_load_class is called.        *)
Unknown(n) == n \notin loading /\ n \notin DOMAIN cached

Enter(n) ==
  /\ loading' = loading \cup {n}
  /\ calls' = Append(calls, [name |-> n, opened |-> FALSE, at |-> 1, primary |-> Null])
  /\ UNCHANGED <<cached, table, walk>>

(* emplace keeps an entry that is there already.                            *)
Cached(n, c) ==
  [m \in DOMAIN cached \cup {n} |-> IF m \in DOMAIN cached THEN cached[m] ELSE c]

LeaveLoading(c) ==                     \* a slip: the name stays in loading_classes
  /\ cached' = Cached(Top.name, c)
  /\ calls' = Front(calls)
  /\ UNCHANGED loading

(* impl_load_class has returned c, or nothing.                              *)
Leave(c) ==
  /\ cached' = Cached(Top.name, c)
  /\ loading' = loading \ {Top.name}
  /\ calls' = Front(calls)

Fail == Leave(Null) /\ UNCHANGED <<table, walk>>

(* An instruction, or bootstrapping, asks for a class.                      *)
Request(n) ==
  /\ calls = <<>> /\ walk = Idle
  /\ Unknown(n)
  /\ Enter(n)

----------------------------------------------------------------------------
(* impl_load_class.                                                         *)

Advance(frame) == calls' = [calls EXCEPT ![Len(calls)] = frame]

Open ==
  /\ calls # <<>> /\ ~Top.opened
  /\ IF Readable(Top.name)
     THEN Advance([Top EXCEPT !.opened = TRUE]) /\ UNCHANGED <<cached, loading, table, walk>>
     ELSE Fail

Supers == Files[Top.name].supers

AtSuper == calls # <<>> /\ Top.opened /\ Top.at <= Len(Supers)

(* Of the superclasses the first is the primary one.                        *)
NextSuper(c) ==
  [Top EXCEPT !.at = @ + 1, !.primary = IF @ = Null THEN c ELSE @]

LoadSuperAnyway ==                    \* a slip: a null superclass taken for a class
  /\ AtSuper
  /\ LET n == Supers[Top.at] IN
       \/ Unknown(n) /\ Enter(n)
       \/ n \in loading /\ Fail
       \/ /\ n \notin loading /\ n \in DOMAIN cached
          /\ Advance(NextSuper(cached[n]))
          /\ UNCHANGED <<cached, loading, table, walk>>

LoadSuperAgain ==                     \* a slip: the loop does not advance
  /\ AtSuper
  /\ LET n == Supers[Top.at] IN
       \/ Unknown(n) /\ Enter(n)
       \/ /\ n \in loading \/ (n \in DOMAIN cached /\ cached[n] = Null)
          /\ Fail
       \/ /\ n \notin loading /\ n \in DOMAIN cached /\ cached[n] # Null
          /\ UNCHANGED vars

LoadSuper ==
  /\ AtSuper
  /\ LET n == Supers[Top.at] IN
       \/ Unknown(n) /\ Enter(n)
       \/ /\ n \in loading \/ (n \in DOMAIN cached /\ cached[n] = Null)
          /\ Fail
       \/ /\ n \notin loading /\ n \in DOMAIN cached /\ cached[n] # Null
          /\ Advance(NextSuper(cached[n]))
          /\ UNCHANGED <<cached, loading, table, walk>>

SuperclassesUnsorted == [i \in DOMAIN Supers |-> cached[Supers[i]]]     \* a slip: no sort

Ascending(s) == \A i, j \in DOMAIN s : i < j => s[i] <= s[j]

(* std::sort (external): the same elements, each as often.                  *)
Sorted(s) ==
  CHOOSE t \in {[i \in DOMAIN s |-> s[p[i]]] : p \in Bijection(DOMAIN s, DOMAIN s)} :
    Ascending(t)

(* The entry of the new class in the instanceof table: insert_index, one    *)
(* insert_superclass for each, commit_superclasses.                         *)
SuperclassPointers == Sorted([i \in DOMAIN Supers |-> cached[Supers[i]]])

Index == <<Len(superclasses), Len(SuperclassPointers)>>   \* first, length

(* The header as it is written.                                             *)
Header == [name |-> Top.name, superclass |-> Top.primary,
           class_index |-> Len(class_indeces) + 1,
           class_size |-> IF sized THEN Files[Top.name].size ELSE 0]

(* A metaspace that is full is a failure like the others: class_writer      *)
(* answers false, although it has dereferenced the empty optional before.   *)
Define ==
  /\ calls # <<>> /\ Top.opened /\ Top.at > Len(Supers)
  /\ LET size == Files[Top.name].size
         c    == metaspace.used + 1
     IN  IF CanAllocate(metaspace, size)
         THEN /\ metaspace' = Allocate(metaspace, size)
              /\ classes' = [d \in DOMAIN classes \cup {c} |->
                               IF d = c THEN Header ELSE classes[d]]
              /\ class_indeces' = Append(class_indeces, Index)
              /\ superclasses' = superclasses \o SuperclassPointers
              /\ Leave(c)
              /\ UNCHANGED <<walk, sized>>
         ELSE Fail

----------------------------------------------------------------------------
(* The collector's `for (auto cls : bootstrap_classloader)`.                *)

Collect ==
  /\ calls = <<>> /\ walk = Idle
  /\ walk' = 0
  /\ UNCHANGED <<cached, loading, calls, table>>

WalkNext ==
  /\ walk # Idle /\ walk # metaspace.used
  /\ walk' = walk + classes[walk + 1].class_size
  /\ UNCHANGED <<cached, loading, calls, table>>

WalkDone ==
  /\ walk # Idle /\ walk = metaspace.used
  /\ walk' = Idle
  /\ UNCHANGED <<cached, loading, calls, table>>

Init ==
  /\ cached = [n \in {} |-> Null] /\ loading = {} /\ calls = <<>>
  /\ metaspace = Commit(Reserved, Committed)
  /\ classes = [c \in {} |-> Null]
  /\ class_indeces = <<>> /\ superclasses = <<>>
  /\ walk = Idle
  /\ sized \in BOOLEAN

(* What runs on by itself once called.                                      *)
Proceed == Open \/ LoadSuper \/ Define \/ WalkNext \/ WalkDone

Next == (\E n \in Names : Request(n)) \/ Collect \/ Proceed

Spec == Init /\ [][Next]_vars /\ WF_vars(Proceed)

----------------------------------------------------------------------------
(* What instanceof_table::is_superclass searches.                           *)

Listed(c) ==
  LET entry == class_indeces[classes[c].class_index]
  IN  SubSeq(superclasses, entry[1] + 1, entry[1] + entry[2])

----------------------------------------------------------------------------
(* Properties.                                                              *)

(* The walk of the collector stands on a class or is at its end, which it   *)
(* compares for equality.                                                   *)
WalkOnClasses == walk \in {Idle, metaspace.used} \cup {c - 1 : c \in DOMAIN classes}

TypeOK ==
  /\ DOMAIN cached \subseteq Names
  /\ \A n \in DOMAIN cached : cached[n] \in DOMAIN classes \cup {Null}
  /\ loading \subseteq Names
  /\ metaspace \in Allocator /\ metaspace.used <= metaspace.committed
  /\ \A c \in DOMAIN classes :
       /\ c \in 1 .. metaspace.used
       /\ classes[c].class_index \in DOMAIN class_indeces
       /\ classes[c].superclass \in DOMAIN classes \cup {Null}
  /\ WalkOnClasses
  /\ sized \in BOOLEAN

(* The least set of names that contains every readable class whose          *)
(* superclasses it contains: no missing file, no cycle.                     *)
Sound(S) == \A n \in DOMAIN Files : (Readable(n) /\ ToSet(Files[n].supers) \subseteq S) => n \in S

Loadable == {n \in Names : \A S \in SUBSET Names : Sound(S) => n \in S}

Ancestors(n) ==
  {m \in Names : \A S \in SUBSET Names :
     (n \in S /\ \A k \in S \cap DOMAIN Files : ToSet(Files[k].supers) \subseteq S) => m \in S}

(* The answer for m was "nothing" because metaspace has no room for it.      *)
NoRoom(m) ==
  /\ m \in DOMAIN cached \cap DOMAIN Files /\ cached[m] = Null
  /\ ~CanAllocate(metaspace, Files[m].size)

(* What load_class answers depends on the class files and not on the order  *)
(* in which classes were asked for, nor on the load it was part of: a class *)
(* is loaded exactly when it and its superclasses can be, unless one of     *)
(* them found metaspace full.  The answer "nothing" given within a cycle is *)
(* kept for good, and is right.                                             *)
OrderIndependent ==
  \A n \in DOMAIN cached :
    IF cached[n] # Null THEN n \in Loadable
    ELSE n \notin Loadable \/ \E m \in Ancestors(n) : NoRoom(m)

(* loading_classes holds the loads in progress, each once: a failed load    *)
(* does not leave its name behind, which would make the class unloadable.   *)
LoadingIsInProgress ==
  /\ loading = {calls[i].name : i \in DOMAIN calls}
  /\ Cardinality(loading) = Len(calls)

(* There is one class of a name, however many paths lead to it: objects and *)
(* instanceof compare classes by address.                                   *)
OneClassPerName ==
  \A c, d \in DOMAIN classes : classes[c].name = classes[d].name => c = d

(* The entry of a class in the instanceof table lists its superclasses, all *)
(* of them and no others, in the order lower_bound needs, although other    *)
(* classes were entered while it was being loaded.                          *)
TableEntries ==
  \A c \in DOMAIN classes :
    LET supers == Files[classes[c].name].supers
    IN  /\ Len(Listed(c)) = Len(supers)
        /\ ToSet(Listed(c)) = {cached[m] : m \in ToSet(supers)}
        /\ Ascending(Listed(c))

(* A request ends, whatever the files say: cycles of superclasses do not    *)
(* keep the loader busy.  Nor do the classes keep the collector busy, once  *)
(* each says its size.                                                      *)
LoadsEnd ==
  /\ (calls # <<>>) ~> (calls = <<>>)
  /\ (sized /\ walk # Idle) ~> (walk = Idle)
=============================================================================
