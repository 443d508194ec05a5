# Verification of lo-runtime

This directory holds TLA+ models of the LO compiler and its garbage-collected
runtime, the TLC configurations that check them on small instances, and proofs
that TLAPS checks for every instance. `PROJECT.json` lists the runs, the lines of
source each definition translates, and the hazards the properties answer.

## The system

LO is a small class-based language. One Rust front end (`compiler/src`) feeds
three ways of running a program: an interpreter, a native x86_64 back end and a
WebAssembly emitter. Compiled programs link a runtime written three times (Rust,
C++, Zig) against one ABI (`runtime-abi.md`); only the Rust one collects garbage.

| Component | State it keeps | Operations | Interacts with |
|---|---|---|---|
| Lexer, parser (`lexer.rs`, `parser.rs`) | cursor, parse context (loop depth, hoisted locals) | tokenize, recursive descent | type checker |
| Type checker (`type_checker/`) | class table, scopes | inheritance resolution, bodies, delegation cycles, LCA of ternaries | all back ends |
| Layout (`layout.rs`, `ir/statics.rs`) | offsets of fields, descriptors, vtables | class_layout, define_class | IR, runtime walks |
| Interpreter (`interpreter/`) | arena, byte budget, frames, input buffer | eval, construct, I/O | none |
| IR (`ir/`) | functions as blocks over mutable virtual registers | lowering, verification, liveness, GC roots | code generation |
| Register allocator (`ir/register_allocator/`) | intervals, active list, free pool | linear scan, spill-everything | code generation |
| Code generation (`codegen/`) | stack frame, parallel moves | select, prologue/epilogue | runtime by calls |
| WASM emitter (`wasm/`) | locals, published roots | publish, call, reload | runtime by calls |
| Heap (`rust/src/{alloc,gc,compaction,heap_layout,shadow_stack}.rs`) | region, `free`, shadow stack, mark bits, side tables | lo_alloc, lo_gc_collect, push/pop frame | compiled code by root slots |
| Strings, casts, I/O, abort (`rust/src/{string_ops,cast,io,abort}.rs`) | input buffer | string operators, reads, exits | heap |
| wasmrun (`tools/wasmrun`) | line buffer between two calls, linear memory | host I/O, trap classification | WASM runtime |
| C++ and Zig runtimes, Cheney reference | same ABI; reference semispaces | same ABI | |

Everything runs on one thread. What is hard is not scheduling but *who knows where
an object is*: the collector moves objects at any call, so every reference must be
in a root slot at every call, every slot and field must be rewritten exactly once,
and nothing may overwrite an object before it has been moved. The compiler's half
of that bargain (which references go to which slot before which call) and the
runtime's half (rewriting all of them) are in different languages' worth of code
and meet only in running programs.

What makes each part correct:

* heap: allocation strides and walk strides agree; a collection preserves the
  reachable object graph, leaves no stale reference and no mark, and ends; memory
  is refused only when it has really run out;
* IR passes: liveness is exact; every reference read after a call was reloaded
  after it; a slot keeps alive only what is read again;
* register allocation: two values needed at the same time never share a register,
  a value needed after a call is in a register the callee preserves;
* moves and frames: a parallel assignment done in sequence, disjoint frame areas;
* language: what the type checker accepts cannot go wrong; subtyping, layout and
  dispatch agree between classes and their parents;
* I/O and aborts: the same bytes and the same exit code from every runtime.

## The managed heap

`HeapLayout` is `heap_layout.rs`: sizes as functions of a descriptor and a length,
for any alignment and header. `MarkCompact` is the allocator, the shadow stack and
the Lisp-2 collector together, because they share one memory; `ManagedHeap` is what
they promise together; `MarkCompactProperties` states the properties and the
refinement; `MCMarkCompact` gives classes and sizes to TLC; `MarkCompactProofs` holds
the proofs, in sections: layout, references and marks, side tables, refinement.

Correspondence. An address is a byte offset from the region's base. `heap` maps the
offset of every *intact* object to its header and fields, so bytes that a slide has
overwritten are simply not there, and reading them sets `pc` to `"wild"`. `free` is
`FREE`; `frames` is the list from `CURRENT_FRAME` along `parent`; `worklist` and
`relocs` are the two vectors of `Scratch`; `walk`, `dest` and `cursor` are the local
variables of `compute_forwarding`, `fix_references` and `slide`. `pc` tells the
phase. One action is one iteration of the loop it models: a slot visited
(`MarkVisit`), an object popped, an object walked, an object's fields fixed, an
object slid. Visiting the roots in the fix phase is one step, as nothing between two
slots depends on the order. Both `lo_alloc` and `bump_alloc_string` are `LoAlloc`;
a request that does not fit starts a collection and comes back through `AllocRetry`.
`expect` and `assert!` failures set `pc` to `"panic"`. The bytes of an object that
are not references are one value of `Payload`: with as many values as the heap holds
objects no two objects carry the same, which the refinement needs to tell them apart;
the other properties never look at a payload, so `strings` has one.

The program around the runtime is the most general one compiled code can be: it
pushes and pops frames, stores any reference it can reach in any root slot or
field, allocates and collects whenever it likes. It never touches a reference it
cannot reach. That compiled code publishes what it needs before a call is the
business of the IR models, and is assumed here.

Bounds. `HeapSize` is a few objects (49 and 84 bytes, neither a multiple of the
alignment), so collections happen after three allocations and survivors slide over
their own old bytes; in 80 bytes a string and two nodes fit exactly, in any order.
`MaxDepth` 2 gives a caller's frame to find along `parent`; frames of one or two slots
give shared and cyclic graphs. Strings of 5 bytes end off an alignment boundary. Larger heaps repeat the same overlaps.

| Run | Checks | What it shows |
|---|---|---|
| `strings` | TypeOK, HeapTiled, NoStaleReference, NoFault, NoLeftoverMarks, OomOnlyAfterRetry, CollectionEnds | two frames, nodes and strings of different strides, x86_64 layout; marking ends on cycles and every request is answered |
| `refine` | ImplementsManagedHeap | the wasm32 layout (12-byte header, 4-byte alignment) and two-field objects, so cycles, sharing and garbage between survivors; moving is invisible, in the middle of a collection too |

Fairness: `FairSpec` assumes weak fairness of the collector's own steps and nothing
of the program: the runtime is straight-line code on one thread.

`ImplementsManagedHeap` maps memory to a graph of identities: a slot that has been
fixed is read through the relocation table, one that has not is read directly, and
an object is looked for where it lies at that moment. Under the mapping only
`MarkDone` (garbage disappears), allocation and the program's own steps are
visible; fixing and sliding are stutters. `OutOfMemory` of the abstract heap is
enabled only when the reachable objects leave no room, so the refinement also says
that exit 137 is never premature.

Proved for every heap size, layout, class set and depth (assumptions
`HeapAssumption`, `LayoutAssumption`), all in `MarkCompactProofs`:

* `TypeCorrect`, `TilingCorrect`. `HeapTiled` is not inductive:
  that a slide lands on no survivor needs the order of the relocation table
  (`TableOrdered`), that what is to be slid still lies at its old offset
  (`UnslidIntact`), and that below the slide front lie exactly the survivors
  (`SlidPrefix`). `LayoutInv` is the conjunction, proved inductive by one lemma per
  phase.
* `ReferencesCurrent`, `CollectorSafe`, `MarksCleared`. That a
  reference found while fixing has a destination depends on every phase before, so
  `ReferenceInv` says what each phase hands to the next: during marking, what has been
  visited is marked or pending and a marked object waits on the worklist or has had its
  fields visited (`MarkFrontier`); after it the marked set holds the roots and is closed
  (`MarksClosed`); the table has exactly the marked objects behind the walk
  (`TableExact`); while fixing, what lies before the cursor names new addresses and the
  rest old ones (`FixFront`); while sliding, a moved object keeps its rewritten fields
  and has lost its mark (`MovedIntact`). It is inductive given `LayoutInv`, which says
  that a slide destroys nothing still needed.
* `TablesSuffice`. Entries of a side table stand for distinct objects
  (`WorklistOnce` for the worklist, `TableOrdered` for relocations), objects are a header
  apart, so dividing their offsets by the header size is injective into
  `0 .. ScratchCapacity - 1`: by the pigeonhole principle a full table has no object left
  to add.

* `ManagedHeapImplemented`: `Spec => ImplementsManagedHeap`, the whole refinement, one
  lemma per action. It assumes `EnoughPayloads`, that payloads tell apart as many objects
  as the heap can hold and are not references to `null` or to the empty string; `refine`
  has four payloads for the four headers its region has room for. That is an assumption on
  the mapping, which names objects by their bytes, and not on the code.

The inductive invariant of the refinement is `MemoryInv`, the three above, together with
`GraphInv`. Payloads stay distinct among the objects that exist (`PayloadsDistinct`).
Marking reaches nothing the program cannot reach (`MarkedReachable`); with `MarksClosed`
this makes the marked set exactly the reachable one when marking is done, so `MarkDone` is
`Reclaim`, and `SurvivorsReachable` keeps that until the retry. `FixTable` says the table
still has exactly the marked objects while references are fixed. The argument that no other
step of the collector shows is one of meaning: before the fix phase a reference means the
object at its address; when it is rewritten its meaning is looked up through the table, and
the entry it was rewritten from makes the two agree (`MovedIdentity`); and a slide takes
the object along with its entry (`SlideSame`, `SlideSpares`, `AtDistinct`), so that what is
looked up changes its place and not its identity. At the end everything lies at its new
address, where plain reading finds it (`CollectDoneMeaning`).

Allocation has to agree with the abstract heap about what fits and what is new. The
abstract heap adds up the sizes of its objects; `AllocatedBytes` shows by induction along
the tiling that the sum is `free`, so the bump allocator has room exactly when the abstract
heap has, and `OutOfMemory` is taken only when the retry finds none. `PayloadLeft` shows by
the pigeonhole principle that a region with room for one more header has a payload unused.

`CollectionEnds` (liveness) is model-checked only.

## The native back end

`Ir` is the intermediate representation as far as later passes look at it: which
registers an instruction or terminator reads and writes, whether it is a call, where
control may go next. Constants, offsets and operators are abstracted away. `Ir` also
holds the reference definition of liveness, by paths over single instructions, which
the passes' block-wise computations are compared with.

| Module | Code | What it is |
|---|---|---|
| `LivenessWalks` | `liveness.rs` | the backward walk over a block that `live_across_calls` and `remove_dead_copies` share |
| `DefiniteAssignment` | `verify.rs` | the verifier's search for reads before assignment: discovery of reachable blocks, rounds of intersection over predecessors, the verdict; then an accepted function is walked |
| `Liveness` | `liveness.rs` | the fixpoint, one action per block visited and per end of a round, and the loop that removes dead copies and starts over |
| `GcRoots` | `gc_roots.rs` | the rewriting of a function around its calls, as operators |
| `LiveIntervals` | `live_intervals.rs` | positions and one interval per register; `values_surviving_calls` |
| `LinearScan` | `allocation.rs` | the scan, one action per interval and outcome: a free register, a spill of the current value, an eviction |
| `Execution` | `select.rs`, `frame.rs` | one activation of a function whose registers have places, while any call may move every object |
| `Backend` | `driver.rs`, `register_allocator/mod.rs` | the composition: roots, sweep, intervals and scan, then execution in the places chosen |

Correspondence. A `<<block, index>>` is the `(usize, usize)` key of
`live_across_calls`; the index past the last instruction is the terminator.
`DefiniteAssignment` discovers pending blocks in any order, of which the code's stack is
one. `Liveness` keeps `block` and `changed` as the inner loop does. In `LinearScan`,
`active` is a set where the code keeps a vector sorted by end and register: the order
is only used to choose the last usable entry, which is `IsCandidate`; `free` is a set
where the code keeps a vector it only searches. `Pool` is a sequence because its order
is the preference. `Execution` gives every place, register or spill slot, a value and,
for a reference, whether the address in it is the object's present one. `truth` is
what the virtual registers hold in a machine that has room for all and never moves
anything; it is the specification the places are compared with. A call overwrites the
caller-saved places and, when it collects, makes every address outside the root slots
a past one; `lo_push_frame` in the prologue is such a call for the parameters.
Callees keep callee-saved registers and their caller's frame: that is what
`ConventionKept` (run `calls`) says of code compiled by this compiler, and the System V
convention of the runtime. The runtime's half, that slots
are rewritten, is what `NoStaleReference` says of `MarkCompact`.

Two of the modules replace an iteration by its result, because the iteration is a run
of its own: `GcRoots` and `LiveIntervals` use the least solution of liveness, which
`LivenessExact` shows is what the fixpoint stops at, and `Backend` sweeps to the end in
one step (`Cleaned`): every sweep that changes anything removes a copy, so the function has
been cleaned after as many sweeps as it has copies.

`Backend` extends `LinearScan`, `LiveIntervals` and `Execution`, so its behaviours are those of the two
machines one after the other: `program.location` is the scan's map, and execution starts
when the last interval has a place.

| Run | Checks | What it shows |
|---|---|---|
| `liveness` | StableIsSolution, LivenessExact, SweepPreservesReads, NoDeadCopyLeft, Terminates | all functions of two blocks of two instructions over two registers; three blocks with joins, loops laid out backwards, loops sharing a block |
| `definite_assignment` | NothingReadUnassigned, VerdictExact, VerdictReached | joins, loops entered in two places, blocks that cannot be reached, with and without a parameter |
| `roots` | ReadsCurrent, RootsPrecise | rooted code with a place per register (spill-everything) |
| `compile` | ReadsCurrent, AllocationJustified, IntervalsCoverLife, RefsReloadedAfterCalls, PlacesDisjoint, SpillsDistinct, SurvivorsKept | from lowered function to execution with two registers |
| `roots_after_sweep` | SlotsHoldOnlyNeeded (violated) | see findings |

Bounds. Functions are all ways to fill the blocks of a control flow with instructions
from a menu that has each kind of interest: copies both ways, a constant, a call with
and without result, a call and a computation that read. The control flows are those in
which a block-wise analysis can go wrong: a join, loops of one and two blocks, a loop
whose body is laid out before its head, two loops sharing a block. Two registers are
enough for a chain of dead copies and for a use before a definition; three, with one
caller-saved and one callee-saved physical register, force spills and evictions. Only
functions that assign before they read are compiled, as `VerdictExact` says of the
verifier.

Fairness is assumed for the loops of liveness and of the verifier only: each is a loop on
one thread.

Finding. `build_ir` inserts roots and
then removes dead copies, so a reference that only a removed copy read is still
rooted across calls, where `gc_roots.rs` says an object the function no longer needs is
not kept alive (`roots_after_sweep`); reads stay right (`compile`), memory is kept
longer.

Proved for every function, register file, number of intervals and choice of the
collector:

* `AcceptedCodeAssignsFirst` (`DefiniteAssignmentProofs`): in a function the verifier
  accepts, control takes no path on which a register is read before it is assigned. The
  invariant has three parts: discovery has recorded every edge out of the blocks it has
  seen; in a round without change the blocks visited satisfy their equations; and what
  the flow promises at the point control has reached has been assigned.
* `VerifierIsExact` (`DefiniteAssignmentProofs`): the verdict is `DefinitelyAssigned`, which
  speaks of paths. That an accepted function is definitely assigned follows from the flow
  equations, since liveness is the least set closed under going backwards. That a refused
  one is not needs an invariant of the rounds (`VerdictInv`): a register missing from a
  set at a point where it is live is missing along a whole path from the entry
  (`MissingIsUnassigned`), so that no later round could bring it back; and the recorded
  predecessors are real (`PredecessorsAreReal`), so that no path is invented.
* `LivenessIsExact`, `NoDeadCopies` (`LivenessProofs`). In every round the sets hold
  nothing that is not live (`LivenessInv`); where the iteration stops they solve the
  equations (`RoundInv`), and liveness, being the least solution, is no larger. So they are
  equal, at block ends and, by the backward walk of a block, across calls. When a sweep
  removes nothing each copy left was in the set the walk had reached, hence is read.
* `SweepsPreserveReads` (`LivenessProofs`). A write *reaches* a point when control can come from it
  there with nothing else writing the register (`ReachedFrom`, the least set that holds the points
  after the write and goes on where the register is kept, `ReachedLeast`). A sweep with exact liveness
  leaves the function without some copies (`Sheds`): each instruction left knows where it was
  (`origin`), each old point knows the first instruction left at it or after it (`ahead`), and a copy passed
  over writes nothing live past it. So a register live at an instruction left is reached there by the
  same writes: forwards, what reached `x` reaches `ahead[x]` (`ReachesKept`), backwards, control that
  arrives at a removed copy carries the value past it (`ReachesPast`, `ReachesNothingNew`). It is
  kept for live registers, not only for those read, since the argument goes through every point between the
  write and the read. The invariant (`DescentInv`) says that the function descends in
  this sense from its source, and descent composes (`DescendsAgain`). Liveness in a later sweep is liveness of
  a shorter function, which is why the invariant rests on `LivenessIsExact`'s. The property names
  instructions by their lines, so it speaks of functions in which these are distinct (`LinesDistinct`). The
  pass never looks at a line, so that costs no generality; the other results do not need it.
* `StableSolution` (`LivenessProofs`): after a round without change the sets solve the
  dataflow equations. Within a round the blocks already visited satisfy their equation
  as long as `changed` is false, since then no set they were computed from has moved;
  that is the invariant.
* `NoTwoInOnePlace`, `SpillSlotsDistinct` and `SurvivorsInCalleeSaved` (`BackendProofs`), for inputs
  satisfying `IsInput`. `PlacesDisjoint` speaks only of placed intervals; what makes it
  inductive is that a register in use by an interval that has not ended is held by an
  active entry, that no register is both free and held, and that slots are numbered
  below the count.
* `JustifiedCodeReadsCurrent` (`ExecutionProofs`): code that satisfies the local
  conditions `Justified` at every point reads only current values. The invariant
  is that every live register's place is right and every slot recorded in `stored`
  holds its register's present contents.
* `RootedCodeReadsCurrent`, `RootedSlotsPrecise` (`ExecutionProofs`): whatever
  `insert_function_roots` makes of a well-typed, definitely assigned function without root
  operations is `Justified` when each register has a place of its own (`RootedJustified`), so it
  reads only current values; and at each of its calls the slots hold the references still
  needed and null elsewhere. The first is local. Every point of the rooted function is
  a `Spot`, some position in the code put in place of one point of the original
  (`IrProofs`). The registers one would expect to be needed at each spot (`Needed`) solve the
  liveness equations of the rooted function, so nothing else is live in it; what a call saves is
  what is live after it (`NeedsExact`), so where the call returns no `Ref` is live but its own result
  (`NoRefsAcross`): each is reloaded first. The second is not local, since a null stored for one call
  must still be there at the
  call and a slot no call uses must never have been written. `RootInv` adds to the first
  invariant what is clean: slots no call uses are empty, and on the way to a call the nulls
  already passed are in their slots.
  Assumed: a slot for each number below the count of `Ref` registers, registers are among the
  locations and none is in a caller-saved register, and every program is some such function
  rooted. The `roots` run's instance satisfies these.

Liveness by paths (`LiveWithin`) is a recursive function over a number of steps. `IrProofs`
shows once what the rest needs of it: that it solves the backward equations on single
instructions (`LiveEquations`), is contained in whatever solves them (`LiveLeast`), and can
be walked through a block (`LiveThroughBlock`). It also shows where rooting puts each
instruction: `FlattenSeq` is an iteration over the pieces, and a position in the result is a
piece and a position in it. Induction is over sets: the strict
inclusion on the subsets of a finite set is well-founded and its induction theorem takes a
set and not an operator, so `Induction` derives from it, for a set of numbers or of sets,
countdowns, iterations that stop growing and sums over finite sets.

For allocated code the parts fit together as in the code, and `BackendProofs` proves that
they do, for `BackendSpec` and every lowered function, pool and choice of the collector:

* Rooting and sweeping leave code that is `Ready` to be given places (`PreparedReady`). A sweep removes
  from a block the copies that what follows does not read. `Sweeps` says which instruction of the
  old block each one left was and what the sweep took to be live there; those sets solve the liveness
  equations of the swept function, so everything live in it was live before (`SweptLive`), and slots
  lose nothing they held, since only copies went (`SweptStored`). So a sweep of code fit for
  places is fit for places (`SweptReady`), with fresh liveness as often as the loop goes round
  (`CleanedReady`).
* `IntervalsCoverEveryLife`: positions number points in the order of the code (`PositionsAscend`); a
  point in a register's life has in its block, before it, the block's start or a definition and, after
  it, a read or the terminator (`LifeTouched`); so the span from the least to the greatest touched
  position covers it. Sorting makes one interval of each span (`IntervalsAreInput`), which is
  what the scan assumes.
* `CompiledCodePlacedApart`: the scan's invariant holds on these intervals.
* `AllocationIsJustified`: when the scan has finished the map `Fits`. Two registers, one written at a
  point and the other still needed after it, both have that position in their spans, so they
  have different places; what is live across a call is in `SurvivingCalls`, with the parameters
  when there are calls, so it is in memory or callee-saved (`PlacesFit`). Code that is `Ready` in places
  that fit is `Justified` (`ReadyJustified`).
* `NoRefIsReadAcrossACall`: no reference is live across a call in `Ready` code, which is why the scan
  need not care about the collector.
* `CompiledCodeReadsCurrent`: the invariant `BackendInv` joins the scan's invariant while intervals are being
  placed and the execution's (`RunInv`) afterwards; the step that places the last interval passes from one
  to the other by `AllocationIsJustified`'s argument.

Assumed: every source function satisfies `Rootable` (well-formed, well-typed, definitely assigned,
without root operations), there is a root slot for each number below the count of `Ref`
registers, places are the pool and as many spill slots as there are registers, and a callee
overwrites the pool's registers it need not preserve. The `compile` run's functions
satisfy these.

What is only model-checked of the back end: that the loops end (`Terminates`, liveness).
`CompiledCodeReadsCurrent` runs the swept function against its own registers; that the sweeps keep what
the source's reads mean is `SweepsPreserveReads`.

## Calls

What `Execution` assumes of a call, that callee-saved registers and the caller's frame
survive it, is checked one level down, on instructions.

| Module | Code | What it is |
|---|---|---|
| `ParallelMove` | `moves.rs` | the loop that orders moves between registers and breaks cycles through r10, one action per instruction emitted |
| `Calling` | `select.rs` (call), `frame.rs` | one call: pointer, padding, stack arguments, register arguments, prologue, parameters, shadow frame, body, epilogue, clean-up |

Correspondence. `ParallelMove` keeps `pending` as the set `left` of indices into the
list, with `parked` for those whose source has been changed to Scratch; emitting an
instruction and running it is one step. A register has two halves, because a 32-bit
move clears the upper one. `Calling` runs that machine twice, for the arguments and for
the parameters. Its stack is counted in 8-byte cells from the caller's rsp, so that
`rsp % 2 = 0` is 16-byte alignment; the frame's areas lie where `Frame::new` puts them.
Instructions between which nothing can be observed are one action (the register saves,
the stores of parameters, the loads of other arguments). The body of the callee writes
whatever code allocated by `LinearScan` may write and nothing else. The callee's own
calls are instances of the same module and appear as junk in what they may overwrite.

| Run | Checks | What it shows |
|---|---|---|
| `moves` | Delivered, ScratchKept, SequencingEnds | every list of three or four moves, with any sources and mixed widths, and lists that are refused |
| `calls` | ArgumentsArrive, AlignedCalls, FrameLinked, ConventionKept | every way to hold three or four arguments meets a callee; every callee meets a caller |

Bounds. Four moves have room for two swaps at once, and for a cycle with a chain. Two
argument registers instead of six put the third and fourth argument on the stack, one
of which needs padding. One callee-saved register is one that is used or not. The
caller and the callee see each other only in the argument registers and on the stack,
so all callers meet one callee and all callees one caller, not all pairs.

Fairness is assumed of the loop in `parallel_move` only.

Proved (`CallingProofs`), for every register file and list of moves: `ParallelMoveDelivers`
and `ScratchNeverOverwritten`. The invariant says that the place a
pending move reads, Scratch for a parked one, still holds what is to be moved, that
destinations written hold what they should, and that no other register has changed.
That Scratch is free
whenever no move is ready is a counting argument: then every destination of a pending
move is a pending move's source, so sources are as many as destinations and Scratch,
which is no destination, is none of them.

Proved for every convention and every set of calls that satisfy `CallingAssumption` and
`CallsAssumption`: `ArgumentsAlwaysArrive`, `CallsAreAligned`, `FramesAreLinked` and
`ConventionIsKept`, all four properties of run `calls`. The inductive invariant `CallInv` has
one predicate per stage of the call, saying what the later stages rely on: which arguments are
already where they go (`StackArrived`, `Arrived`), which registers are still the caller's
(`AsBefore`), and in the callee where its frame stands and what the saved cells hold
(`FrameStands`, `Linked`). The two parallel moves are not proved again: while one runs, nothing
is said of registers but `MoveInv`, everything else speaks of `start`, and the stage that
follows takes what it needs from `Delivered`. The frame's areas are told apart by arithmetic on
the sizes, for any number of saved registers, root slots and spill slots; alignment needs only
that the frame size and the padding are even or odd as the code rounds them.

What is assumed of a call (`IsCall`) is what earlier passes establish and the code relies on:
operands, parameters and locals are in registers the allocator may hand out, which the scratch
registers and rax are not (`target.rs`); one register holds one virtual register and so has one
width; parameters have distinct places, spill slots below the frame's count (`SpillsDistinct`,
`PlacesDisjoint`); in a callee that calls no parameter is in a caller-saved register, since
lo_push_frame is called over it (`AllocationJustified`); a leaf has no root slots. The proof
needed each of them; the instances TLC checks satisfy them, as `ASSUME` is evaluated.
`SequencingEnds` (liveness) is model-checked only.

## The language

Everything that turns a text into behaviour, end to end: the parser, the type checker,
the interpreter, lowering and its verifier, the native machine with the runtime, and
the WebAssembly emitter with the module it emits running under wasmrun. `Pipeline`
takes one program through all of it, as `main.rs` orders the stages, and compares what
the stages make of it.

| Module | Code | What it is |
|---|---|---|
| `Syntax` | `ast.rs` | constructors for the syntax tree |
| `Parser` | `parser.rs` | recursive descent over tokens with two of lookahead; what the parser itself checks (names declared twice, `break` outside a loop, delegations out of place) |
| `Writing` | the productions P1 to P53 quoted in `parser.rs` | the tokens of a program, written from its tree: the reference the parser is compared with |
| `Classes` | `class_table.rs`, `declarations.rs`, `inheritance.rs`, `entry_point.rs`, `add_io_classes.rs`, `layout.rs`, `statics.rs` | the class table, well-formedness, the search for cycles, field offsets, vtables and pointer maps |
| `TypeChecker` | `type_checker.rs`, `bodies*` | bodies, calls, compatibility, the type of a choice; gives the typed tree |
| `Interpreter` | `interpreter/` | the reference semantics of the typed tree |
| `Reading` | `interpreter/io.rs`, `rust/src/io.rs`, `wasmrun` | the three readers of standard input; machine integers |
| `Lowering` | `ir/lower*`, `declare.rs`, `runtime.rs` | typed tree to blocks of instructions over virtual registers |
| `Verifier` | `ir/verify.rs` | structure, symbols, types and signatures of lowered code |
| `NativeRuntime` | `codegen/select.rs`, `rust/src/{string_ops,cast,io,abort,object}.rs` | the arithmetic selected, loads and stores, the runtime's functions |
| `WasmEmitter` | `compiler/src/wasm/` | structured code with locals, root slots and the set of active values |
| `WasmMachine` | WebAssembly, `rust/src`, `wasmrun/src/main.rs` | runs that code over a collector; classifies traps |
| `Pipeline` | `main.rs`, `program.rs`, `select.rs` | the composition; lowered code runs one instruction per step |
| `MCPipeline` | | the programs, the inputs and the broken texts |

Correspondence. A token, a name and a type are values; a program is the sequence of
its class declarations. Of an error the models keep that there is one, except where
the parser's choice among error codes is a branch of its own. The interpreter and the
WebAssembly machine are operators from a program and an input to `[kind, code, out]`:
both are sequential and nothing looks at them halfway. `Pipeline` takes its stages as
constant operators (`Parsed`, `Judged`, `Interpreted`, ...), which each configuration
gives the definitions that model them (`ParseProgram`, `CheckProgram`, `Interpret`, ...). `out` is the sequence of what
was printed, each piece with its stream. The native machine is a state machine instead,
because whether it ends is a question about its steps: a frame is a function, a block,
an index and the registers written so far, `memory` holds objects as offsets to words.
An address that was not laid out, a field of null, a register nothing wrote and a
division the processor would trap on are faults.

A native reference is an object's identity: that references stay current while objects
move is shown for every program by the models of the back end and of the heap. For
WebAssembly nothing else shows it, so there a word carries the number of the collection
it was current in, every allocation collects and moves every object, and a word of an
earlier collection is a fault when it is used and when it lies in a root slot of a
linked frame. Only slots of linked frames and fields the descriptor maps are renewed.
The runtime's functions that allocate are taken apart there: a string operator copies
its operands in the memory before the allocation (`OnOperands`), memory moves
(`AllocRaw`), the string is made in the memory after it (`MakeString`); `lo_read_string`
asks the host for a length, allocates, and has the line the host kept copied
(`LoReadString`). An operand read after the allocation would be a word of an earlier
collection.

Integers have `Bits` bits and wrap; literals and strings are short. `HeapLimit` is the
interpreter's byte budget, high enough for every program here. `Rooms` is how many
allocations a WebAssembly heap answers before it is exhausted: plenty in `programs`,
few in `traps`. `LoopBound` ends an interpreter's loop that runs too long, with
`"cut"`, and the other executions are then not compared; no program here reaches it.

| Run | Checks | What it shows |
|---|---|---|
| `programs` | ReadsWhatIsWritten, CycleSearchExact, PointerMapExact, AcceptedNeverGoesWrong, LoweredVerifies, NativeAgrees, WasmAgrees, LoweredCodeEnds | 954 runs from text to exit status |
| `reads` | ObservablyIdentical (violated) | see findings |
| `traps` | OutOfMemoryIs137 (violated) | see findings |

Bounds. The programs have a class with a field of each kind, a subclass that overrides,
delegates both ways and calls `super`, and a `Main` that prints. They are: five
operators over all pairs of seven operands of every type; division and remainder of
three dividends by six divisors, constant and not, zero and -1 among them; some sixty
further expressions and twenty statement lists (nested loops with `break`, `return` in
a loop, code after a `return`, null receivers, order of evaluation shown by printing);
four loops that allocate in every turn, while the result of a choice is still to be set
and again after it was released, left at their condition, by `break` and by `return`;
every hierarchy of three classes under one another, `Main`, `Input` or an unknown class;
every way three constructors can delegate to one another; some two dozen overridings
and redeclarations, most of them wrong; five programs that read, one of them line by line
to the end, over eighteen inputs.
Half are written with parentheses they do not need. A further 216 token lists are a
program with a token removed or two swapped, and one with a name declared twice.
Together 648 programs, 90 pairs of program and input and 216 token lists make 954 runs,
of which 757 parse and 245 of those are accepted; the others should be, and are,
refused. With 5 bits the least integer is -16, so wrapping, division of the least
integer by -1 and an input just out of range all occur.

Fairness. The native machine goes on while it runs a program (`FairSpec`). The formula
is weak fairness of `NativeStep`, written for a step that is enabled in every state of
the stage: `[]<>(stage # "native") \/ []<><<NativeStep>>_vars`; deadlock is checked, so a
state of that stage with no step would be reported. A program is run on one thread
and nothing else takes steps.

What the properties are about.

* `ReadsWhatIsWritten`: a text written from a program by the grammar is parsed back to
  it, and a text that is not, if it parses, contains the words of the program it is
  parsed to and no others. The cast is the delicate case: the parser decides on a cast
  when a name in parentheses is followed by the start of an expression, so `(A x)`,
  which P29 writes with parentheses round `A`, is a cast as well.
* `CycleSearchExact`: `find_cycle` against reachability.
* `AcceptedNeverGoesWrong`: the checker is sound with respect to the interpreter's
  `unreachable!`s and `expect`s.
* `LoweredVerifies`: the IR verifier refuses nothing lowering makes of an accepted program.
* `NativeAgrees`, `WasmAgrees`: three executions, one behaviour: output, order, streams,
  exit status and abort codes. `WasmAgrees` also fails when a reference is not reloaded
  after a call, when a released local keeps its address into the next turn of a loop,
  when a string operator allocates before it has copied its operands, and when the host
  does not keep the line between the two calls that read it. It does not ask that the
  slot of a released value be cleared: a slot that is not is renewed with the others and
  only keeps an object longer than need be.
* `PointerMapExact`: what lowered code stores in an object agrees with what the class's
  descriptor tells the collector.
* `LoweredCodeEnds`: control reaches the end of every program that has one.

Findings. `lo_read_int` of the native runtime stops at the first byte that is no digit
and leaves the rest to the next read; the interpreter and wasmrun take a
token delimited by white space and abort with 110. On `1x` one goes on and the others do
not, although the interpreter is to behave as compiled code does (`reads`). wasmrun
infers the exit status from the backtrace and looks for `lo_string_repeat` first, so a
heap exhausted inside a repetition exits with 120 rather than 137 (`traps`).

Nothing here is proved: these modules define functions over syntax trees by RECURSIVE
operators, which the proof system does not take.

## Not modelled

* The lexer: characters to tokens. The models start from tokens.
* Printing of assembly and of WebAssembly text, the bytes of the data section,
  instruction encodings and scratch registers of single instructions, `dump.rs`, the
  command line, files and the linker.
* The wording of messages, and positions in errors.
* The C++ and Zig runtimes, and the reference semispace collector
  (`rust/reference`), which a Cargo feature puts in the place of the collector for tests.
* `lo_runtime_init` called again and `lo_runtime_shutdown`: only tests do so.
* Lengths beyond `u32` and failing allocations of the Rust allocator in
  `string_ops.rs`; a heap in which they could occur is out of a checker's reach.
* The interpreter's out-of-memory abort against the native heap's: their budgets are
  counted differently by design, so runs that exhaust one are not compared.

## Plan

In order, most important first.

1. The managed heap: allocator, shadow stack, collector, refinement (done).
2. IR passes: liveness, GC roots, execution of rooted code over a moving heap (done).
3. Register allocation: intervals, linear scan, execution of allocated code (done).
4. Code generation: parallel moves, argument and parameter passing, frame layout,
   return values across `lo_pop_frame` (done).
5. Definite assignment, the verifier's dataflow, against the path definition (done).
6. Language: parser, class table, type checker, interpreter, lowering, IR verifier,
   compiled semantics, against each other (done).
7. Strings, I/O, casts and aborts of the runtime, the WebAssembly emitter's own root
   publication, wasmrun's line protocol and trap classification (done).
8. The reference semispace collector as a second implementation of `ManagedHeap`
   (not done).
9. Proofs: the heap's safety and its refinement of `ManagedHeap` (done); the verifier's
   verdict and liveness against paths (done); that
   sweeping copies keeps what every read reads (done); parallel moves and calls (done); that
   rooted code is `Justified` and that allocated code is, from its intervals and the
   scan (done).
