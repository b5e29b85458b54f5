# A TLA+ model of the oops virtual machine

This directory models the virtual machine of `src/`: a small object-oriented VM
in C++ with a two-space copying heap, an execution stack, a bytecode
interpreter and a class loader. The modules follow the code, not the documents
under `src/specs/`; where a run compares the two, the document is quoted.

How to use it, in this directory:

    tlasany Semispace.tla                              parse
    tlc -config MCSemispace.cfg MCSemispace.tla        model-check
    tlapm SemispaceProofs.tla                          check the proofs

`PROJECT.json` lists components, runs, mutants (a slip of the code for every
property, which the property catches), the map from definitions to source
lines, findings, hazards and theorems.

## 1. The system

One `virtual_machine` owns four parts: a class loader, an executor, a heap and
an execution stack. There are no threads, signals or asynchronous callbacks
anywhere in the code: everything happens within one call of
`executor::invoke`. What makes it hard is not concurrency but *protocol*: a
collection may run inside any allocation and moves every object while the
interpreter, the stack, the classes and native code hold references; a call
fails in the middle and has to leave no trace; offsets written in one unit
(bytes, 4-byte slots, 8-byte words) are read in another.

| Component (source) | State | Operations | Talks to |
|---|---|---|---|
| Start and stop (`logues/`) | address ranges, which part holds which | initialize, destroy of every part | platform, all parts |
| Bump allocator (`memory/bump_allocator`) | base, used, committed, reserved | initialize, allocate, deallocate, commit, commit_to_max, decommit, decommit_all | platform; used by both spaces, the metaspace |
| Semispace heap (`gc/semispace_allocator`, `memory/oheap`) | two allocators, which is active | allocate_memory, gc_prologue, gc_epilogue | bump allocators, collector |
| Collector (`gc/stop_and_copy`, `gc/*_iterators`) | none of its own: two spaces, roots, scan position | track class, stack and native pointers, forward_object, cleanup_migrated_objects | classes, stack, native table, heap |
| Native references (`memory/oheap`) | location -> (handle, count) | allocate, deallocate, rebuild in a collection | native code, collector |
| Execution stack (`memory/ostack`) | frames and headers, current frame | try_push_frame, try_push_native_frame, pop_frame, frame reads and writes, frame and pointer iterators | executor, collector, methods |
| Integer arithmetic (`core/arithmetic.h`) | none | the `*_safe` operations | executor |
| Executor (`core/executor`) | instruction pointer, depth, exception message | invoke: some 150 instructions | all the others |
| Class loader (`classloader/`) | cache, names being loaded, metaspace, instanceof table | load_class, instanceof lookup, class iterator | class files, metaspace, collector |
| Class memory (`classes/`, `classloader/class_writer`) | header, tables and regions of a class | size computation, the writes of a load, lookups | class loader, executor, collector |
| Class-file reading (`classloader/class_file_reader`, `loader_iterators`) | mapped file, iterators | header reads, counts, iteration over tables | class loader |
| Export search (`classes/class.cpp`, `classloader/loaded_iterators`) | sorted exports | sort, binary search, lookup through superclasses | class memory |
| Native interface (`native/`) | options, handles | invoke a method, hold a handle | executor, heap |
| Methods and instructions (`methods/`, `instructions/`) | bit fields | accessors | stack, executor |
| Platform (`platform/`) | address space, files | reserve, commit, decommit, map | allocators, class files |

### What is hard in each part, and what makes it correct

* **Start and stop.** Four reservations one after the other, each of which may
  be refused; addresses remembered after they are given back. Correct: a start
  that fails leaves nothing behind, nothing is released twice, every start ends.
* **Bump allocator, semispace heap.** A collection is a protocol of three
  calls, each with its own failure, over an allocator whose `committed` is only
  what it believes: `decommit` returns memory and leaves `committed` alone.
  Correct: used <= committed <= reserved through every resize and flip; the
  to-space is empty between calls; a resize never takes memory a survivor
  occupies; growth reaches its target or does not happen; survivors are not
  overwritten by later allocations.
* **Collector.** Cycles, sharing, garbage, header bits with two meanings, a
  scan over memory that is being extended. Correct: what is reachable and only
  that is copied, once, within the to-space; the scan goes from header to
  header; no slot still refers to the space given up; it ends.
* **Native references.** A table keyed by addresses, over collections that
  change all of them. Correct: an entry and its handle point at each other;
  counts equal what native code holds; two objects have two handles.
* **Execution stack.** Headers and data lie side by side in raw memory and
  everything is addressed by computed offsets. Correct: frames tile the stack;
  headers survive the writes of methods; a callee changes nothing below its
  frame; the arguments arrive; the collector's walk meets every frame and takes
  nothing but objects for roots.
* **Arithmetic.** Overflow, the least integer, shifts by the width, zero
  divisors. Correct: ring operations modulo 2^w; quotient and remainder fit.
* **Executor.** Some forty ways to fail in the middle of an instruction.
  Correct: a failing instruction has no effect, callers are untouched, no index
  leaves its array, the instruction pointer only rests on instructions.
* **Class loader.** Recursion over a graph that may have cycles, missing and
  broken files, with a cache written during the recursion and a metaspace that
  runs out. Correct: the answer does not depend on who asked first; one class
  per name; every request ends; the instanceof table tells superclasses.
* **Class memory.** Sizes are computed by one function and the tables written
  by another. Correct: writes stay in their regions; fields do not overlap and
  are aligned; a subclass continues the numbering of its superclass; the words
  the collector follows are the pointers.
* **Class-file reading, export search, packed words.** Positions in bytes,
  words and entries; walks that stop by equality; two orders on names. Correct:
  what is packed is read back; a walk ends after its entries; a lookup answers
  the right export or none.

## 2. The modules

    Lifecycle        <- MCLifecycle, LifecycleProofs
    BumpAllocator    <- Semispace   <- MCSemispace, SemispaceProofs
                     <- ClassLoader <- MCClassLoader, ClassLoaderProofs
    StopAndCopy      <- MCStopAndCopy, StopAndCopyProofs   (the trace, by bytes)
    CallStack  <-refined by-  VmStack <- MCVmStack, VmStackProofs
    Arithmetic       <- Executor    <- MCExecutor, ExecutorProofs
    InstanceLayout   <- ClassLayout <- MCClassLayout
    NativeReferences <- MCNativeReferences, NativeReferencesProofs
    Arithmetic, InstructionWords, ClassFile, ExportSearch <- PureFunctions <- MCFunctions
    ClassLayout, PureFunctions <- ClassLayoutProofs   (files, names and the search)
    Executor, PureFunctions    <- ExecutorProofs      (arithmetic and packed words)

The seams are explicit. `Semispace` knows a survivor as a block of some size
and takes the trace as "reachable blocks packed in some order"; `StopAndCopy`
is what happens inside that step, byte by byte. `NativeReferences` takes from
the collector any answer `forward_object` may give; `StopAndCopy` shows which
answers those are. `Executor` uses frames of slots; `VmStack` shows how frames
lie in memory. `ClassLoader` decides whether a class exists and where;
`ClassLayout` is what is written there. `Lifecycle` knows the parts by the
ranges they hold; the other modules start where a finished `initialize` ends.

Definitions commented as slips are what the mutants put in the place of the
definition that follows them; nothing else uses them.

### Lifecycle
One action per platform call of `virtual_machine::initialize` and `destroy`:
`Reserve` and `Refuse` for each of the four ranges, `Bootstrap` and
`CommitStack` for the unfinished ends of `classloader::initialize` and
`stack::initialize`, `Release` for each range given back, and `Elsewhere`, the
rest of the process, which may be given an address as soon as it is free. The
release takes whatever the part *remembers* (`base`), not what it holds.
`finished` says which of the two unfinished functions would answer true; the
code as it is has none, and no start succeeds then.

### BumpAllocator, Semispace
`BumpAllocator` has no variables: it is the record (used, committed) with the
operators of `bump_allocator.cpp`, and `backed`, the units the platform really
has. `Semispace` keeps two of them (`allocators`) and `second`
(`use_second_space`), the map `live` of what the program can reach, and the
`result` of the last request. `heap::allocate_memory` is five actions, one per
outcome: `AllocateFast`, `AllocateNoToSpace` (the prologue cannot commit),
`CollectionFaults` (the trace writes past the to-space), `AllocateAfterGc`
and `AllocateFailsAfterGc`. Each of the last two contains both halves of the
epilogue with its resize decision; `os` is the platform's answer to a growth.
`Drop` is the program losing an object, the only thing it can do to a heap
besides allocating. Sizes are exact fractions where the code has doubles.
`Units` are the units of the reachable blocks: that blocks do not overlap is
that there are as many of them as the sizes add up to.

### StopAndCopy
Two spaces of bytes, `mem`; the roots `statics`, `stacks` and `handles`, and
the collector's locals. A step is one call of `forward_object` and the write
of its answer (`TrackClassPointer`, `TrackStackPointer`, `TrackNativePointer`,
`CleanupField`); `CleanupNext` goes to the next copy. `forward_object` is taken
as it is: the mark is set on the old header *after* the copy, the copy begins at
the spare word and has as many bytes as the header and the fields, an object
marked already answers its header.

Nothing in the code rounds a size: not the instance size of a class, not an
allocation, not the copy, not the step of the scan. Addresses and sizes are
therefore bytes. A header or a reference takes 8 of them and is named at the
first; of a word of which not all bytes were copied, as of the inside of a word,
`mem` has `Torn`, which may read as anything. So the header of a copy can be cut,
and a reference in it. `CleanupTornField` is the scan at a reference that was cut,
`CleanupWild` at a header that was: what it does with a length or a class pointer
put together from other bytes is not followed (`pc = "wild"`).

Init is *every* graph over the objects of one of a few layouts (`Layouts`, `heap`),
so one run covers sharing, cycles and garbage in all combinations. `WellFormed`
says what a layout may be: objects within the space, and the bytes of their
copies apart (a spare word may hold bytes of another object, as that of a
string's byte array does, whose header is in the block of the string). Two
history variables, `origin` and `copies`, remember the roots the collection
started from and what was copied where; no action reads them.

### CallStack, VmStack
`VmStack` has the slots of the stack (`mem`), `current`, `depth` and `fault` (a
write past the stack; nothing happens after it). `Push` is `try_push_frame`:
bounds, argument copy, clearing of pointers, header, in the order of the code
and with its arithmetic (argument positions from the bounds of the *calling*
method, counters in bytes, clearing in steps of eight slots). `PushNative`,
`PushRefused` (overflow), `Return` (pop and write-back) and `WriteBack` (any
store of the current method) are the rest. `FrameAfter`, `WalkEnds` and
`Visited` are the two iterators the collector uses. `CallStack` is the abstract
specification: a sequence of activations entered and left at one end. `VmStack`
implements it under `calls <- Calls`, the activations read from the headers in
memory (`ImplementsCallStack`). `LayoutAssumption` is what a compiler promises
of a method header: sections in the order `get_bounds` takes them, pointers in
pairs of slots, and a variable for every argument.

`depth` counts calls of `invoke`, as in the code: a bytecode call does not
change it. A return with `depth` 1 therefore leaves `invoke`, whatever frames
are below, and never writes its result into one of them; the branch that does
is there because it is in the code.

### Arithmetic, Executor
`Arithmetic` is `core/arithmetic.h` at any width, with conversions to and from
the unsigned type where the code has casts. `Executor` has one action per
family of instructions of the big switch: numeric, divisions, floats, branches,
casts, constants, strings, arrays, class and object fields, allocation,
instanceof, the three calls, the returns and `EXC`. Every family has its error
exits (`Raise`) and the label `exception` with what follows it (`Spin`: control
comes back to the same instruction). Where the code dereferences null or an
empty optional the model stops with `crash`. A slot has four bytes, and the array
instructions come in the widths of the code: a load puts an element of 1, 2, 4 or
8 bytes together from the bytes of the array (`Place`, `Byte`, `Element`), a store
takes one apart. The arrays there are (a new one has no header) are those of
strings, which have bytes for elements, and nothing compares the width of the
instruction with that; an access that leaves the array ends with `crash = "stray"`,
and what it reads or overwrites there is not followed. A program is a constant record of
instructions; `Invoke` starts it with any argument. `CodeAssumption` is what the
loop takes for granted of compiled code: operands are slots of the frame, the
next instruction and the target of a branch are instructions (an argument list
is none). A frame ends where its own number and size say, or later if a return
address was wrong. Floats are any values whose patterns are not those of the
integers (the complement), so that a slot read with the wrong type shows.

### ClassLoader
`Request`, `Enter` (a call of `impl_load_class`), `Open`, `LoadSuper` (a
superclass from the cache, one being loaded, or a nested call), `Define`,
`Fail` and `Leave`: the recursion of `load_class_unwrapped` unrolled on the
stack `calls`. `Define` allocates in the metaspace, writes the header and the
instanceof table and leaves; `Leave` writes the cache. `Collect`, `WalkNext` and
`WalkDone` are the collector's loop over the loaded classes; `sized` says whether
the loader writes the `class_size` that loop adds up (it does not today).

### InstanceLayout, ClassLayout
`InstanceLayout` is where fields lie and how readers find them from the header
offsets alone. `ClassLayout` computes sizes as `compute_class_sizes`, then
performs the writes of `impl_load_class` and `class_writer` in their order on
the words of the class (`Memory`), so that overlapping regions show as
overwritten words. The first word of a method stands for its header, which
`bulk_load_methods` gives the class of the method after the bytecodes were
copied. One action, `Load`: a class file loaded as a subclass of
the previous class.

### NativeReferences
`native_references`, the `object` field of every handle, which handles exist
(`allocated`), and `claims`, native code's own count. `AllocateKnown`,
`AllocateNew`, `Deallocate`, `DeallocateDeleted` (reading a handle already
freed) and `TrackNativePointers`, the rebuild of the table in a collection.

### InstructionWords, ClassFile, ExportSearch
These keep no state and are operators. `InstructionWords`: the accessors of an
instruction, the header word of an array, argument types two to a byte, the
entry of an export written, read and swapped through its proxy; a byte has
`Unit` bits. `ClassFile`: the header offsets, the counts `compute_class_sizes`
uses and the five iterators with their positions in bytes, their ends and the
place their `operator*` reads from. `ExportSearch`: `field::operator<`, the
comparator of `reflect_index`, `std::lower_bound`, the offset read at the entry
found and the recursion over superclasses, which is the first class that
answers. `PureFunctions` puts all of them to work: a behaviour is one input,
of a kind of its own (`Binary`, `Word`, `Array`, `ArgTypes`, `Pair`, `File`,
`Search`), and the invariants are about it. Its constants are sets of inputs,
which `MCFunctions` makes small; `WellFormedFiles` and `ExportEntries` say which
files and exports there are at all.

## 3. The runs

All passing runs are exhaustive within their bounds and take seconds. Deadlock
is not checked where the system may really stop: when a program ends, the
process faults, a bound of the model is reached or a finite input is used up.
`lifecycle` checks it: a machine can always be started or stopped.

| Run | Shows | Bounds |
|---|---|---|
| `lifecycle` | `NothingLeftBehind`, `OwnRanges`, `StartsEnd` | five addresses for four ranges |
| `semispace` | `SpacesReady` and `FaultNeedsOverlap` in every state, `ResizeKeepsSurvivors` and `GrowthReachesTarget` of every collection | 6 pages of 2 units, 3 objects, requests 1, 3, 7; saturations 1/2 and 3/4 |
| `copy` | bounds and scan (`CopiesInPlace`), what a copy holds (`CopiesFaithful`), what is copied (`CopiesReachable`), no reference left behind (`NoFromSpaceReference`), the end (`Terminates`) | three heaps, in bytes: objects of 25 and 16 bytes of fields and a BYTE array of 9; a string of 13 bytes with its embedded byte array, and an object; an object array, a FLOAT array, an INT array of one element and an object without fields. One static, one stack slot, one handle |
| `vm_stack` | frames and headers (`FramesSound`), what the collector finds (`RootsAreObjects`), `ArgsDelivered`, calls write only above (`PrologueWritesAbove`), `ImplementsCallStack` | 42 slots: root and three frames of `node`; three methods with different sections |
| `functions` | `WordOperations`, `DivisionIdentity`; `PackedWordsReadBack`; `WalksEnd`; `LookupAnswers`, `SearchStopsShort` | operands of 2 and of 5 bits; words of eight 2-bit bytes; files with up to three methods and two entries of each other kind; tables of up to three names of up to three bytes, and of two classes |
| `executor` | `MachineSound`, `OnlyWidthsStray`, `FailedHasNoEffect`, `CallersUntouched` | slots of four 1-bit bytes, 3 objects, 2 frames, 18 entry programs that reach every family with every failure and array elements of every width, every argument |
| `class_loader` | `TypeOK` (the walk stands on classes), `OrderIndependent`, `OneClassPerName`, `LoadingIsInProgress`, `TableEntries`, `LoadsEnd` | ten names: diamond, 2-cycle, missing, broken, orphan, one more; metaspace of 8 with 6 committed |
| `class_layout` | `RegionsSound`, `FieldsDisjoint`, `FieldsAligned`, `PointerWordsAreFields` | chains of 3 out of 6 class files mixing all widths |
| `native_counts` | `EntriesPointBack`; until two entries run together `CountsMatch`, `OneHandlePerObject` | 3 handles, 3 places and one header word two entries can run into, 3 claims |

Type invariants are parts of the first property of a run where it has one:
`FramesSound` joins `TypeOK`, `HeadersIntact` and `FramesLinked`;
`CopiesInPlace` joins `TypeOK`, `CopiesFit` and `ScanOnCopies`; `MachineSound`
joins `TypeOK` (values keep their width) and `PcAtInstruction`. `SpacesReady` is
`BoundsOrdered` and `ToSpaceEmpty`, `RegionsSound` is `RegionsHold` and
`WordsIntact`. The type invariants of the other modules are left to the proofs.

Some properties are conditional, because the code breaks the unconditional
form (section 6). `CopiesReachable` and `Terminates` are about heaps of *ordinary*
objects (`Ordinary`): no array whose element type looks like the mark, and each
object with 8 bytes of fields or elements behind its references (`Roomy`), so that
its copy has its whole header and all its references. Strings, short arrays and
small objects are not roomy. The first heap of `copy` is ordinary, the others are
not; the other properties hold in all three. `CopiesFaithful` promises a header
where there are 8 bytes of fields and every byte of data but the last 8;
`CopiesInPlace` says that the scan leaves the copies only after an object that is
not roomy was copied; `NoFromSpaceReference` is about collections that end, and a
reference that was cut counts as none. `OnlyWidthsStray` says of an access that
leaves an array that it is wider than a byte and that its index is not negative.
The part `WordsIntact` of `RegionsSound` is about classes without fields
of their own (`Regular`). `ArgsDelivered` is about calls where the caller's bounds
are the callee's, between methods with at most one argument of each type
(`OneOfEachType`), and about the arguments that are not objects; the slots
`RootsAreObjects` looks at are those of frames in which the pointer walk ends
(`WalkEnds`). `OrderIndependent` excepts names that found no room in the
metaspace. `LookupAnswers` promises an answer only in tables sorted by length
too (`Graded`). The walk of `LoadsEnd` is that over classes that have a size.

Why the bounds are enough:

* *Lifecycle*: all four ranges held and one address with somebody else, so that
  an address can be lost, taken and had again. The theorems remove the bound.
* *Semispace*: the interesting cases are fast success, growth, growth refused
  at `Cap`, shrink to `MinHeap`, shrink to more than one page, a collection
  with nothing, something and everything live, an allocation larger than a
  page. All occur with six pages; more pages repeat them. The theorems remove
  the bound for the invariants.
* *StopAndCopy*: an object's treatment depends on its header kind, on whether
  it was seen before, on who refers to it, and on how many bytes of its header and
  its references are copied; two references per object and three objects give
  every combination, including a cycle through two objects. Sizes of 9, 13 and 25
  put objects at addresses that are no multiple of a word. The other heaps have
  the kinds of object the collector treats differently: one whose reference is
  cut, whose last reference is lost, whose header is cut in the middle or is not
  copied at all.
* *VmStack*: overflow needs a stack that holds some but not all calls; three
  frames give a caller with a caller, memory that held a deeper frame, and
  writes past the end. `wide` has as many pointers as one step of the walk.
* *functions*: nothing in the code depends on the width of an operand except
  through the least and greatest value and the shift count; a byte of two bits
  has a sign and a neighbour; three names make a table whose middle is searched
  on both sides.
* *Executor*: two frames let a call succeed, overflow, and return to a caller. An
  array of four bytes has room for one element of 4 bytes, two of 2 and none of 8,
  so a wide access falls inside, across the end and beyond it.
* *ClassLoader*: two paths to one superclass, a cycle, a failure below the
  first and below the second superclass, and a metaspace that runs out in the
  middle of a hierarchy.
* *ClassLayout*: three levels, every width, an odd number of entries in each
  padded table, virtual methods new and inherited.
* *NativeReferences*: three handles, so that two can run together beside a
  third.

Three runs expect a violation: each checks one property a document or an
assertion of the repository states, and TLC shows that the code does something
else. They are listed in section 6.

## 4. Fairness

The system is sequential, so fairness only says that a processor goes on:

* `Lifecycle`: WF of `Proceed`, the calls `initialize` and `destroy` make once
  begun; none on `Start`, `Stop` or the rest of the process.
* `StopAndCopy`: WF of the next step. The collector is straight-line code with
  loops; nothing waits. `Terminates` shows the loops end.
* `Executor`: WF of `Execute`. The interpreter loop runs until it returns. It
  is *not* assumed that native code calls again.
* `ClassLoader`: WF of `Proceed`, the recursion and the walk once begun; no
  fairness on requests or collections.
* The other specifications are safety only and state none.

## 5. What is proved

Each proof has one lemma per operation and one step per action; the invariant is
stated as named parts. Every safety property that a passing run checks is
proved, for every value of the constants. The assumptions are named where the
constants are declared, and TLC evaluates them in every run.

`SemispaceProofs`, for every `Cap`, `PageSize`, `Requests`, number of objects
and saturations (`CapAssumption`, `SizesAssumption`, `SaturationAssumption`:
min <= 1, which the code's 0.5 satisfies):

* `Invariance`: `Spec => [](TypeOK /\ SpacesReady)`. None of these is inductive
  alone: the prologue's commit measures the to-space to the from-space only if it
  starts empty, and it starts empty because the epilogue decommits the space it
  leaves. `IInv` joins the types, `Sound` for both allocators (used <= committed <=
  Cap, backed within committed) and `ToSpaceEmpty`.
* `SurvivorsKept` and `GrowthSufficient`: the action properties, from the same
  invariant and the arithmetic of the resize (`ShrinkTargetCovers`,
  `GrowthTargetSuffices`): the shrink target covers the survivors because the
  minimal saturation is at most 1, and rounding to pages only goes up.
* `FaultsComeFromOverlap`: `Spec => []FaultNeedsOverlap`. Each block ends within
  what is committed (`BlockInv`). If blocks do not overlap, putting each unit of a
  block at its address is an injection into the committed addresses, so the sizes
  add up to no more than is committed (`DisjointFit`), and the packed copies fit
  in a to-space as large, in whatever order they are traced (`PackedFits`).

`LifecycleProofs`, for every set of addresses (`NoBaseAssumption`):

* `LeavesNothing`, `ReleasesOnlyOwn`: `Spec => []NothingLeftBehind` and
  `Spec => []OwnRanges`. The invariant says of every stage which parts hold a
  range (`Expected`) and that exactly these do, each at the address it
  remembers (`HeldBy`); what is to be released is a part of it.

`StopAndCopyProofs`, for any layouts in bytes (`LayoutsAssumption`: what is copied
of one object is apart from what is copied of another), any graph over them, any
number of roots and any handles (`SlotsAssumption`). The invariant `IInv` follows
the bytes, and all four theorems rest on it:

* `CopiesStayInPlace` (`CopiesInPlace`). In the from-space only headers are ever
  written, and a header is marked exactly when its object was copied, so nothing
  is copied twice. The copies have as many bytes as what they are copies of, which
  are different bytes of the from-space (`AsManyBytes` in `Places`), so they fit in
  the to-space and lie one after another. The scan goes from one to the next as
  long as each has its header; after a copy that ends in its header it may find
  anything, and `CleanupWild` takes that step only there.
* `CopiesStayFaithful` (`CopiesFaithful`) and `NothingPointsBack`
  (`NoFromSpaceReference`). Every reference is either what it was in its object or
  what `forward_object` answered for that, or it was cut; which one is told by the
  position of the scan (`FieldsFollow`) and of the phase (`RootsKept`). At the end
  nothing waits.
* `ReachedAreCopied` (`CopiesReachable`). Only what the roots reach is copied:
  what was copied is in every set that holds the roots and is closed under
  references (`OnlyReached`). In a heap of ordinary objects all of it is: at the
  end the copied objects are such a set.

`VmStackProofs`, for every set of methods, layout of their frames, argument types
and stack size (`StackAssumption`):

* `FramesStaySound`: `Spec => []FramesSound`. The tiling is not inductive alone:
  that a store of a method leaves headers alone needs that its frame is as long
  as the method's layout says (`HeadersTyped`), that frames lie apart
  (`FramesApart`), and that an `invoke` has a frame (`InvokeHasFrame`).
  Positions of frames are compared pairwise, so no induction along the chain
  is needed. Sections may lie in any order here.
* `PushLeavesCallers`: `Spec => PrologueWritesAbove`: arguments and cleared
  pointers fall at or above the new frame, wherever the bounds of another
  method put them.
* `FramesImplementCalls`: `Spec => ImplementsCallStack`, the refinement: each
  push enters and each return leaves an activation, stores stutter.
* `CollectorFindsObjects`: `Spec => []RootsAreObjects`, with `LayoutAssumption`. A
  frame is as long as its method says (`FramesSized`), so a write to one is not
  seen in another. In its own frame the prologue clears what the walk will visit
  after it placed the arguments, and a later store reaches a visited slot only as
  a whole object (`PointersClear`). That the walk over the links meets the frames
  one after another is an induction, by the least step that goes astray.
* `ArgumentsArrive`: `Spec => []ArgsDelivered`, with `LayoutAssumption`. With the
  callee's own bounds every argument lands in the section of its type; sections
  lie apart and there is one argument in each, so each slot has one writer; the
  cleared pointers stay in the section of the pointers if one step of the clearing
  covers it.

`ExecutorProofs`, for any code whose operands are slots of its frames and whose
branches lead to instructions (`CodeAssumption`), classes that name existing
methods (`ClassesAssumption`), and any widths and limits (`ExecutorAssumption`;
of exponentiation only that powers of two double up to the widest word, `Doubling`
in `PowersAssumption` and `ExponentsAssumption`):

* `TheMachineIsSound` (`MachineSound`). `Control` says what an instruction finds:
  typed frames, and an instruction where the pointer is. A frame ends no sooner
  than its number says (`FramesEnd`), which bounds the number of frames. An
  invocation has depth 1 whatever it calls, so a return ends it, and control never
  goes to the return address of a frame, which is one word too far (section 6).
* `NoIndexGoesAstray` (`OnlyWidthsStray`). The bounds test compares unsigned values. It
  turns away the negative ones too because an array is shorter than half the
  numbers of a slot (`ShortArrays`), a part of the invariant of the heap. What
  passes it is the index of an element, so an access of one byte stays within the
  array (`AccessPlaced`). That a wider one does is not so, and not claimed.
* `FailuresLeaveNoTrace` (`FailedHasNoEffect`) and `CallersAreUntouched`
  (`CallersUntouched`), the action properties, family by family.

The same module has what the executor takes from `Arithmetic` and
`InstructionWords`, for operands of two bits or more, bytes of two bits or more,
any set of exports and any number of arguments (`InputsAssumption`,
`UnitAssumption`):

* `WordArithmetic` (`WordOperations`). Every cast leaves a number a multiple of 2^w
  away (`Near`, `CastsNear`), which sums, differences and products keep
  (`NearArithmetic`). Shifts are divisions by one of two factors of 2^w
  (`PowersSplit`). The logical operations add up bits (`BitSums`): the bits of a
  value add up to its pattern (`BitsAddUp`), and a union and an intersection to
  what the two sets do (`SumsOfSets`).
* `DivisionFitsTogether` (`DivisionIdentity`), from the division of magnitudes
  (`TruncatedDivision`); only the least value by -1 has a quotient that does not
  fit (`QuotientFits`).
* `PackedWordsAreReadBack` (`PackedWordsReadBack`). Bytes of a word are the
  difference of two remainders (`BytesAreDifferences`), so the fields of a format
  cancel out to the word; a negative field is its bytes less what the next byte
  lends (`SignExtends`).

`ClassLoaderProofs`, for any class files, names and metaspace (`CapAssumption`,
`FilesAssumption`):

* `WalkStaysOnClasses` (`TypeOK`), `NothingStaysLoading`
  (`LoadingIsInProgress`), `NoClassTwice` (`OneClassPerName`). One class per name
  is inductive only with `CacheApart`: a name is being loaded or in the cache,
  never both, and each class is what the cache has for its name, so a call that
  reaches `Define` finds its name unknown still. The walk needs
  `StepsOnClasses`: each class's size leads to the next class or the end.
* `AnswersDoNotDependOnOrder` (`OrderIndependent`). The loads in progress wait for
  each other in a chain of superclasses (`Waiting`), and the superclasses a load
  has passed were answered (`Passed`). A load that asks for a name being loaded
  has therefore closed a cycle, and no name on a cycle is in the least fixed
  point `Loadable`; a load that reaches its end has only loadable superclasses.
* `EntriesAreRight` (`TableEntries`). Each entry is a range of the one vector of
  superclasses (`EntrySound`), which only grows, and the cache takes no answer
  back (`EntryStays`). The new entry is right because of `Passed` and of what
  `std::sort` leaves (`SortedFacts`); that there is a sorted order at all, by
  inserting one element at a time, is `SortExists`.

`ClassLayoutProofs`, for every class file and hierarchy of any depth
(`ClassFilesAssumption`), and for names of any length over any bytes
(`ByteBaseAssumption`):

* `CountsReadBack`: `inherited_variable_counts` inverts
  `set_instance_variable_counts`, although the header has only section ends.
* `LayoutInvariance`: in every class the counts are naturals, the layout is the
  one the counts give, fields of one type have distinct numbers below their
  count, and all fields of the superclass are fields of the class with the
  same numbers.
* `FieldsKeepApart`: `Spec => []FieldsDisjoint`. A field lies in the section of
  its type (`FieldInSection`), sections follow each other (`SectionsFollow`),
  and two fields of one type have two numbers.
* `FieldsStayAligned`: `Spec => []FieldsAligned`, from the order of the sections.
* `PointersAreFields`: `Spec => []PointerWordsAreFields`. The new half is that
  every number below a count is given to some field (`NumbersGiven`), by a
  count of an injection into a finite set.
* `RegionsStaySound`: `Spec => []RegionsSound`. `RegionsFollow`: whatever
  the lookup answers, the regions of `compute_class_sizes` follow each other and
  are as long as what is counted; a class is made upon one whose regions do
  (`RegionInv`), because the size of the inherited table is read from that
  class's header. A word holds what was put there last (`WordAfter`), so what
  was put remains if no later put covers it: `RegularPuts` gives each of the
  writes of a regular class a *home*, `HomesApart` shows that only the writes
  to the table of virtual methods share theirs, and `OnlyPut` reads the word
  back. The premises are needed: with fields of its own, or with a slot beyond
  its table, a class writes out of its homes (section 6).
* `FieldOrderAsymmetric`, `FieldOrderTotal`, `FieldOrderTransitive`:
  `field::operator<` is a strict total order, as `std::sort` requires.
* `SearchAgainstSort`: how the comparator of the search relates to it, which is
  why a search stops short and never goes too far.
* `SearchesStopShort` (`SearchStopsShort`) and `LookupsAnswer` (`LookupAnswers`), for
  tables and chains of any length. In any table, `std::lower_bound` settles where the
  name before is less and the name it is at is not (`BoundSettles`); in a sorted
  table a name that is less lies before the one looked for (`NotBefore`), and in a
  graded table every name before it is less (`GradedFinds`).
* `WalksComeToTheirEnd` (`WalksEnd`), for class files of any size
  (`InputsAssumption`). Positions of a walk are multiples of its stride
  (`EvenWalk`) or sums of sizes (`MethodWalkEnds`); methods are not empty, so at
  each position starts one method (`MethodsApart`) and the size found there is
  its own.

`NativeReferencesProofs`, for every number of handles and places:

* `TableSound`: entries and handles point at each other, whatever the collector
  answers, even if entries run together.
* `CountsKept`, `HandlesDistinct`: until two entries run together in a
  collection (the history variable `collided`) counts equal claims, and two
  handles in use are handles of two objects. The condition cannot be dropped:
  after it the counts are wrong, and the model reaches such states.

Only model-checked:

* Liveness (`Terminates`, `LoadsEnd`, `StartsEnd`): fairness and ENABLED are out of
  this prover's reach.
* That powers of two double, which the provers do not know; TLC evaluates the
  two assumptions that say so.

The induction theorems of the library take an operator, which no prover here can
instantiate. Where a proof needs an induction it takes the set of counterexamples
and its least element (`LeastElement`, `FirstPosition`, `UpTo`). Recursive
functions are shown to exist in the same way before their equations are used
(`BitSums`, `Sums`, `PositionsAre`, `Settled`).

## 6. Where the code and its documents disagree

Three disagreements are runs that end in a counterexample (`PROJECT.json` has the
quotation):

| Run | Property | What the code does |
|---|---|---|
| `semispace_overlap` | `SurvivorsIntact` | After a collection the bump pointer of the new active space is still 0, so the allocation that triggered the collection is placed on top of the survivors. (`src/gc/semispace_allocator.cpp:49`) |
| `copy_shared` | `RootsFollow` | The second reference to an object is replaced by the object's header word, because the mark is set on the header and no forwarding address is stored. (`src/gc/stop_and_copy.cpp:25`) |
| `exec_forgot` | `NoForgottenGoto` | Any exception ends in the assertion that a goto was forgotten: the label falls out of the switch with the message still set, for ever. (`src/core/executor.cpp:1038`) |

Others were met while modelling. The models follow them, and the properties of
the passing runs are stated so that they are true of the code as it is; no run
is devoted to them:

* Start and stop. `classloader::initialize` and `stack::initialize` answer false on
  every path (`logues/classloader.cpp:21`, `logues/ostack.cpp:18`): no start
  succeeds.
* Semispace heap. `semispace::initialize` (`logues/semispace_allocator.cpp:5`) and
  `heap::initialize` (`logues/oheap.cpp:13`) commit no memory to either space, a
  fast allocation takes only what is committed, and a collection commits to the
  to-space what the active space has, which is nothing: every allocation fails
  today. `Semispace` starts with `InitialCommit` units committed, 6 in the runs, so
  that there is something to see; the theorems are for any value, 0 included.
* Collector. SHORT, FLOAT and DOUBLE arrays carry bit 1 in their header from
  birth and are taken for copied (`gc/stop_and_copy.cpp:24`). The copy starts at
  the spare word but has the size of the header and the fields: the last 8 bytes
  of an object stay behind (`:33`, `:40`). Since no size is rounded, that cuts
  the header of every object with less than 8 bytes of fields or elements, such
  as an INT array of one element or a BYTE array of four, of which half a header
  is copied; the scan then reads a length or a class pointer made up of other
  bytes and loses its place (`:80`, `:91`, `:104`). An OBJECT array loses its
  last element, and the copy of every string, which has 13 bytes of fields
  (`memory/oheap.cpp:91`), ends within its only reference: 5 of 8 bytes are
  copied, and what the string's bytes are is lost. Only heaps of ordinary
  objects (section 3) are traced to the end. Two objects already moved by
  earlier roots get the same new key in the native table (`:120`). The pointer
  iterator of a frame advances by 8 slots where a pointer takes two, and its end
  is met by equality only: it runs beyond a frame whose pointers do not take a
  multiple of eight slots (`gc/stack_iterators.h:60`).
* Stack. `try_push_frame` places arguments by the bounds of the calling method and
  advances them in bytes where offsets are slots (`memory/ostack.cpp:81`, `:91`);
  pointers are cleared after the arguments were placed, object arguments
  included, in steps of eight slots (`:102`).
* Arithmetic. `div_safe` and `mod_safe` do not treat the least integer by -1
  (`core/arithmetic.h:52`).
* Instructions and methods. `specs/InstructionListing.md` draws every format
  with the type at the left and the destination at the right, and says "LSB to
  right" (`:8`): the type in the highest byte, dest in the lowest two. The
  accessors have it the other way round, the type in the lowest byte and dest in
  the highest two (`instructions/instructions.cpp:8`, `:13`).
  `PackedWordsReadBack` is about the accessors alone: they partition a word,
  which a mirrored format does as well. A 40-bit immediate has no sign
  (`instructions/instructions.cpp:33`); the arguments of a call, two bytes each,
  are read as single bytes (`methods/method.h:31`).
* Executor. A new object has no class pointer (`core/executor.cpp:752`); a cast
  to int or float writes two slots (`:387`); LUI writes its immediate into the
  low bits (`:425`); the return address of a call with one argument is one word
  past the next instruction (`:922`); an array access is of the width of the
  instruction whatever the elements are, since `array::get` and `array::set`
  never answer that the type is wrong (`classes/object.h:68`, `:79`, "TODO check
  type") and the messages "Incorrect array element type" are dead (`:482`): a
  wide load or store on an array of bytes passes the bounds test and leaves the
  array; a callee's return ends the whole invocation, since calls do not count
  in `depth` (`:819`).
* Class loader. When the metaspace is full `class_writer::initialize`
  dereferences the empty optional before it answers false
  (`classloader/class_writer.cpp:20`); `ClassLoader` takes the answer, a failure
  like the others. Nothing commits metaspace, so no class can be loaded
  (`classloader/classloader_impl.cpp:131`); the instanceof table has the direct
  superclasses only (`:213`); the size of a class is never written, so the walk
  over classes stays at the first (`gc/class_iterators.h:62`) and no name can be
  read (`classes/class.cpp:126`).
* Class files. The iterators hold a byte position that `operator*` takes for an
  index: entries are read elsewhere than where they are
  (`classloader/loader_iterators.cpp:11`).
* Class memory. The export table is sized for the methods alone
  (`classloader/classloader_impl.cpp:57`); virtual method entries count the offset of
  the bytecodes twice (`classloader/class_writer.cpp:116`); the index of a new virtual
  method grows by the size of a pointer and is multiplied by it again
  (`classloader/classloader_impl.cpp:201`); static sections overlap
  (`classloader/classloader_impl.cpp:165`) and the end of the walk over static pointers
  wraps around (`classes/class.cpp:314`); entries of the import table are written four
  bytes apart and have eight (`classloader/loaded_iterators.h:47`).
* Export search. The comparator keeps of `memcmp` whether it is negative, as 0 or
  1, and takes that for the sign (`classes/class.cpp:277`); the offset of the entry
  found is read at its unscaled position (`:260`); the sort swaps proxies that rebind
  themselves instead of moving entries.

Models of other parts do not assume these repaired: `Executor` keeps running with
the return address, the casts and the exception label of the code, `ClassLayout`
with unreadable names. Where one flaw would hide everything behind it the module
says what it takes instead: `ClassLoader` has the constant `Committed` (0 in the
code) and `sized` (false in the code), `Lifecycle` has `finished` (empty in the
code), `ExportSearch` reads names and takes sorted tables as one of the tables
there can be, `StopAndCopy` starts from headers as they should be, and every
module starts from what a finished `initialize` would leave.

## 7. Not modelled, and the plan

Not modelled:

* **`main`, the build, the documents**: no state and no use of the other parts.
* **Mapping a file**: the platform's; a file that cannot be mapped is one that is
  not readable in `ClassLoader`.
* **Strings and flags of a class-file entry, the fields of a method header at
  their offsets, the 7-way switches of the static accessors**: one read each,
  with nothing to decide.
* **Floating point**: the hardware's; any result of the type.

Possible next step:

* A composition of `ClassLoader` and `StopAndCopy`, once the walk over the classes
  has a meaning in the code.
