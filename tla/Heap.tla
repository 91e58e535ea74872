-------------------------------- MODULE Heap --------------------------------
(***************************************************************************)
(* The garbage-collected heap: the size-segregated allocators with their   *)
(* bump pointer and free list (runtime/Allocator), the two halves of       *)
(* CELL_CREATE around a cell's constructor (runtime/Cell.h), and the       *)
(* mark-sweep collector that allocation runs when a block is full          *)
(* (runtime/Heap).                                                         *)
(*                                                                         *)
(* The mutator is the rest of the interpreter, reduced to what it does     *)
(* with cells: it holds some in the native frames of C++ or jitted code,   *)
(* keeps others in the places the collector visits precisely, and reads    *)
(* and writes their fields.                                                *)
(***************************************************************************)
EXTENDS Naturals, Sequences, FiniteSets

CONSTANTS
    Size,           \* the cell sizes; each has an allocator with one block
    Capacity,       \* how many cells fit in a block
    Class,          \* the classes of cells: m_kind, with a type's m_class
    NoClass,        \* m_kind before a create() has finished
    SizeOf,         \* sizeof(CellType)
    ConstructorCreates,       \* the classes a class's constructor creates
    FreshMark,      \* what m_isMarked may read as in memory never used before
    MaxHandles, MaxFields, MaxSlots, MaxRoots  \* bounds on the mutator

ASSUME ConstantsAssumption ==
    /\ Capacity \in Nat \ {0}
    /\ SizeOf \in [Class -> Size]
    /\ NoClass \notin Class
    /\ ConstructorCreates \in [Class -> SUBSET Class]
    /\ FreshMark \subseteq BOOLEAN /\ FreshMark # {}
    /\ {MaxHandles, MaxFields, MaxSlots, MaxRoots} \subseteq Nat

\* An address: a block, and the position of a cell in it.
Cell == Size \X (1..Capacity)

Phase == {"mutator", "roots", "vm", "native", "drain", "stack", "sweep",
          "retry", "oom", "crash"}

\* The precise roots besides m_roots: what VM::visit goes through (base
\* types, global environment, interpreters, unification scopes), and vm.stack.
Place == {"vm", "stack"}

VARIABLES
    current,        \* m_current of each allocator, counted in cells
    freeList,       \* m_freeList of each allocator
    freeMarked,     \* whether a cell's first byte is s_freeMarker
    marked,         \* m_isMarked
    class,          \* the class in memory, NoClass until create() sets it
    fields,         \* the cells a cell's own visit() goes through
    roots,          \* m_roots
    slots,          \* the cells in each Place
    handles,        \* <<cell, static class>>: pointers native frames use
    stale,          \* cells that dead words of the native stack name, while a
                    \* collection can find them there
    building,       \* the create() calls in progress, innermost last
    phase,          \* what runs: the mutator, or a step of the collection
    request,        \* the class whose allocation waits for the collection
    scan,           \* root words the current marking phase has yet to visit
    gray,           \* m_worklist
    unswept,        \* cells the sweep has yet to look at
    disturbed       \* history, no state of the program: whether a collection
                    \* has ever begun where the collector is not at home

allocatorVars == <<current, freeList, freeMarked>>
mutatorVars == <<roots, slots, handles>>
collectVars == <<stale, request, scan, gray, unswept, disturbed>>
vars == <<current, freeList, freeMarked, marked, class, fields, roots, slots,
          handles, stale, building, phase, request, scan, gray, unswept, disturbed>>

RangeOf(s) == {s[i] : i \in DOMAIN s}
HandleCells == {h[1] : h \in handles}
BuildingCells == {building[i].cell : i \in DOMAIN building}
NativeWords == HandleCells \union stale \union BuildingCells

\* The words that Visitor::visit follows without a test.
PreciseRoots == RangeOf(roots) \union slots["vm"] \union slots["stack"]

\* The cells that hold a finished object.
Live == {c \in Cell : class[c] # NoClass /\ ~freeMarked[c]}

Init ==
    /\ current = [s \in Size |-> 0]
    /\ freeList = [s \in Size |-> <<>>]
    /\ freeMarked = [c \in Cell |-> FALSE]
    /\ marked = [c \in Cell |-> FALSE]
    /\ class = [c \in Cell |-> NoClass]
    /\ fields = [c \in Cell |-> {}]
    /\ roots = <<>>
    /\ slots = [p \in Place |-> {}]
    /\ handles = {}
    /\ stale = {}
    /\ building = <<>>
    /\ phase = "mutator"
    /\ request = NoClass
    /\ scan = {}
    /\ gray = {}
    /\ unswept = {}
    /\ disturbed = FALSE

-----------------------------------------------------------------------------
(* CELL_CREATE: allocate, run the constructor, set m_kind.                 *)

\* A create() starts from ordinary native code, or from a constructor that
\* creates a cell of its own (TypeName its name, TypeFunction its arrays, ..).
MayCreate(k) ==
    /\ phase = "mutator"
    /\ building # <<>> => k \in ConstructorCreates[building[Len(building)].class]
    /\ Cardinality(handles) + Len(building) < MaxHandles

\* Who asks an allocator for a cell: a create(), or Heap::allocate once more
\* after the collection it had to run.
Wants(k) == MayCreate(k) \/ (phase = "retry" /\ k = request)

\* The base constructor Cell() writes the vtable pointer over the first byte
\* and clears m_kind; it leaves m_isMarked as it was.
Construct(c, k, mark) ==
    /\ freeMarked' = [freeMarked EXCEPT ![c] = FALSE]
    /\ class' = [class EXCEPT ![c] = NoClass]
    /\ fields' = [fields EXCEPT ![c] = {}]
    /\ marked' = [marked EXCEPT ![c] = mark]
    /\ building' = Append(building, [cell |-> c, class |-> k])
    /\ phase' = "mutator"
    /\ request' = NoClass
    /\ stale' = {}
    /\ UNCHANGED <<mutatorVars, scan, gray, unswept, disturbed>>

AllocateFromFreeList(k) ==
    LET s == SizeOf[k] IN
    /\ Wants(k)
    /\ freeList[s] # <<>>
    /\ freeList' = [freeList EXCEPT ![s] = Tail(@)]
    /\ Construct(Head(freeList[s]), k, marked[Head(freeList[s])])
    /\ UNCHANGED current

AllocateByBumpUnchecked(k) ==   \* variant: m_current runs past m_end
    LET s == SizeOf[k] IN
    /\ Wants(k)
    /\ freeList[s] = <<>>
    /\ current' = [current EXCEPT ![s] = @ + 1]
    /\ \E mark \in FreshMark : Construct(<<s, current[s] + 1>>, k, mark)
    /\ UNCHANGED freeList

AllocateByBump(k) ==
    LET s == SizeOf[k] IN
    /\ Wants(k)
    /\ freeList[s] = <<>>
    /\ current[s] < Capacity
    /\ current' = [current EXCEPT ![s] = @ + 1]
    /\ \E mark \in FreshMark : Construct(<<s, current[s] + 1>>, k, mark)
    /\ UNCHANGED freeList

\* What Heap::collect relies on and nothing ensures: no create() is between
\* its two halves, and every flag is clear.  A constructor that creates cells
\* can break the first, a block that was not zeroed the second.
CollectorAtHome == building = <<>> /\ \A c \in Cell : ~marked[c]

BlockIsFull(s) == freeList[s] = <<>> /\ current[s] = Capacity

\* Allocator::cell() returned nullptr: collect, then retry.  Words that no
\* frame uses any more, or has yet to write, may name any cell that was ever
\* handed out, freed ones included.
StartCollection(k) ==
    /\ MayCreate(k)
    /\ BlockIsFull(SizeOf[k])
    /\ request' = k
    /\ phase' = "roots"
    /\ scan' = RangeOf(roots)
    /\ stale' \in SUBSET {c \in Cell : c[2] <= current[c[1]]}
    /\ disturbed' = (disturbed \/ ~CollectorAtHome)
    /\ UNCHANGED <<allocatorVars, marked, class, fields, mutatorVars, building,
                   gray, unswept>>

\* ASSERT(cell, "OOM: failed to allocate") stops the process.
OutOfMemory ==
    /\ phase = "retry"
    /\ BlockIsFull(SizeOf[request])
    /\ phase' = "oom"
    /\ UNCHANGED <<allocatorVars, marked, class, fields, mutatorVars, building,
                   collectVars>>

\* The constructor is done: its fields are in place, create() sets m_kind and
\* returns the cell to its caller.
FinishCreate(S) ==
    LET top == building[Len(building)] IN
    /\ phase = "mutator"
    /\ building # <<>>
    /\ S \subseteq HandleCells
    /\ Cardinality(S) <= MaxFields
    /\ fields' = [fields EXCEPT ![top.cell] = S]
    /\ class' = [class EXCEPT ![top.cell] = top.class]
    /\ handles' = handles \union {<<top.cell, top.class>>}
    /\ building' = SubSeq(building, 1, Len(building) - 1)
    /\ UNCHANGED <<allocatorVars, marked, roots, slots, phase, collectVars>>

-----------------------------------------------------------------------------
(* The mutator between two allocations.                                    *)

MutatorStep ==
    /\ phase = "mutator"
    /\ building = <<>>
    /\ UNCHANGED <<allocatorVars, marked, class, building, phase, collectVars>>

\* A frame returns or overwrites a local.
DropHandle(h) ==
    /\ MutatorStep
    /\ h \in handles
    /\ handles' = handles \ {h}
    /\ UNCHANGED <<fields, roots, slots>>

\* Object::set, Array::setIndex, Environment::set, ..
SetField(h, d) ==
    /\ MutatorStep
    /\ h \in handles
    /\ d \in HandleCells
    /\ Cardinality(fields[h[1]] \union {d}) <= MaxFields
    /\ fields' = [fields EXCEPT ![h[1]] = @ \union {d}]
    /\ UNCHANGED mutatorVars

ClearField(h, d) ==
    /\ MutatorStep
    /\ h \in handles
    /\ d \in fields[h[1]]
    /\ fields' = [fields EXCEPT ![h[1]] = @ \ {d}]
    /\ UNCHANGED mutatorVars

\* Whatever is read from a field or a root is used at the class it has then.
Acquire(c) ==
    /\ class[c] # NoClass
    /\ Cardinality(handles) < MaxHandles
    /\ handles' = handles \union {<<c, class[c]>>}

GetField(h, d) ==
    /\ MutatorStep
    /\ h \in handles
    /\ d \in fields[h[1]]
    /\ Acquire(d)
    /\ UNCHANGED <<fields, roots, slots>>

\* A register of a frame, an environment, an interpreter is assigned.
SetSlot(p, h) ==
    /\ MutatorStep
    /\ h \in handles
    /\ Cardinality(slots[p] \union {h[1]}) <= MaxSlots
    /\ slots' = [slots EXCEPT ![p] = @ \union {h[1]}]
    /\ UNCHANGED <<fields, roots, handles>>

ClearSlot(p, c) ==
    /\ MutatorStep
    /\ c \in slots[p]
    /\ slots' = [slots EXCEPT ![p] = @ \ {c}]
    /\ UNCHANGED <<fields, roots, handles>>

GetSlot(p, c) ==
    /\ MutatorStep
    /\ c \in slots[p]
    /\ Acquire(c)
    /\ UNCHANGED <<fields, roots, slots>>

\* GC<T>: the constructor registers the cell it creates, destroy() removes
\* the first entry that names it.
AddRoot(h) ==
    /\ MutatorStep
    /\ h \in handles
    /\ Len(roots) < MaxRoots
    /\ roots' = Append(roots, h[1])
    /\ UNCHANGED <<fields, slots, handles>>

RemoveRoot(i) ==
    /\ MutatorStep
    /\ i \in DOMAIN roots
    /\ \A j \in 1..(i - 1) : roots[j] # roots[i]
    /\ roots' = [j \in 1..(Len(roots) - 1) |->
                    IF j < i THEN roots[j] ELSE roots[j + 1]]
    /\ UNCHANGED <<fields, slots, handles>>

-----------------------------------------------------------------------------
(* Heap::collect: markFromRoots, then sweep.                               *)

CollectorStep ==
    UNCHANGED <<current, roots, slots, handles, stale, building, request,
                disturbed>>

\* Visitor::visitCell on each cell of S: set the flag, extend the work list.
VisitCells(S) ==
    LET new == {c \in S : ~marked[c]} IN
    /\ marked' = [c \in Cell |-> marked[c] \/ c \in new]
    /\ gray' = gray \union new

MarkOneAgain(c) ==              \* variant: visitCell ignores isMarked
    /\ phase \in {"roots", "drain", "stack"}
    /\ c \in gray
    /\ marked' = [d \in Cell |-> marked[d] \/ d \in fields[c]]
    /\ gray' = (gray \ {c}) \union fields[c]
    /\ CollectorStep
    /\ UNCHANGED <<freeList, freeMarked, class, fields, phase, scan, unswept>>

MarkOneShallow(c) ==            \* variant: visitCell forgets the work list
    /\ phase \in {"roots", "drain", "stack"}
    /\ c \in gray
    /\ marked' = [d \in Cell |-> marked[d] \/ d \in fields[c]]
    /\ gray' = gray \ {c}
    /\ CollectorStep
    /\ UNCHANGED <<freeList, freeMarked, class, fields, phase, scan, unswept>>

\* Heap::mark takes a cell off the work list and visits what it refers to.
\* Visiting a cell whose vtable pointer free() has overwritten is a crash.
MarkOne(c) ==
    /\ phase \in {"roots", "drain", "stack"}
    /\ c \in gray
    /\ IF freeMarked[c]
       THEN phase' = "crash" /\ UNCHANGED <<marked, gray>>
       ELSE LET new == {d \in fields[c] : ~marked[d]} IN
            /\ marked' = [d \in Cell |-> marked[d] \/ d \in new]
            /\ gray' = (gray \ {c}) \union new
            /\ UNCHANGED phase
    /\ CollectorStep
    /\ UNCHANGED <<freeList, freeMarked, class, fields, scan, unswept>>

\* Heap::markRoot, for one entry of m_roots or of vm.stack: the work list is
\* emptied before the next one.
MarkRoot(c) ==
    /\ phase \in {"roots", "stack"}
    /\ gray = {}
    /\ c \in scan
    /\ scan' = scan \ {c}
    /\ VisitCells({c})
    /\ CollectorStep
    /\ UNCHANGED <<freeList, freeMarked, class, fields, phase, unswept>>

RootsDone ==
    /\ phase = "roots"
    /\ gray = {} /\ scan = {}
    /\ phase' = "vm"
    /\ CollectorStep
    /\ UNCHANGED <<freeList, freeMarked, marked, class, fields, scan, gray,
                   unswept>>

VisitVMSkipped ==               \* variant: m_vm->visit is not called
    /\ phase = "vm"
    /\ phase' = "native"
    /\ CollectorStep
    /\ UNCHANGED <<freeList, freeMarked, marked, class, fields, scan, gray,
                   unswept>>

\* VM::visit
VisitVM ==
    /\ phase = "vm"
    /\ VisitCells(slots["vm"])
    /\ phase' = "native"
    /\ CollectorStep
    /\ UNCHANGED <<freeList, freeMarked, class, fields, scan, unswept>>

VisitNativeStackAnyKind ==      \* variant: the test of m_kind is missing
    /\ phase = "native"
    /\ VisitCells(NativeWords)
    /\ phase' = "drain"
    /\ CollectorStep
    /\ UNCHANGED <<freeList, freeMarked, class, fields, scan, unswept>>

\* Heap::markNativeStack: a word is followed when it names a cell of a block
\* whose m_kind is set.
VisitNativeStack ==
    /\ phase = "native"
    /\ VisitCells({c \in NativeWords : class[c] # NoClass})
    /\ phase' = "drain"
    /\ CollectorStep
    /\ UNCHANGED <<freeList, freeMarked, class, fields, scan, unswept>>

DrainDone ==
    /\ phase = "drain"
    /\ gray = {}
    /\ phase' = "stack"
    /\ scan' = slots["stack"]
    /\ CollectorStep
    /\ UNCHANGED <<freeList, freeMarked, marked, class, fields, gray, unswept>>

MarkingDoneShort ==             \* variant: the last cell handed out is left out
    /\ phase = "stack"
    /\ gray = {} /\ scan = {}
    /\ phase' = "sweep"
    /\ unswept' = {c \in Cell : c[2] < current[c[1]]}
    /\ CollectorStep
    /\ UNCHANGED <<freeList, freeMarked, marked, class, fields, scan, gray>>

\* The sweep walks every block from m_start to m_current.
MarkingDone ==
    /\ phase = "stack"
    /\ gray = {} /\ scan = {}
    /\ phase' = "sweep"
    /\ unswept' = {c \in Cell : c[2] <= current[c[1]]}
    /\ CollectorStep
    /\ UNCHANGED <<freeList, freeMarked, marked, class, fields, scan, gray>>

SweepNext(c) ==
    /\ phase = "sweep"
    /\ c \in unswept
    /\ \A d \in unswept : d[1] = c[1] => c[2] <= d[2]
    /\ unswept' = unswept \ {c}
    /\ CollectorStep
    /\ UNCHANGED <<phase, scan, gray>>

\* Allocator::each passes over a cell that starts with the free marker.
SweepFreeCell(c) ==
    /\ SweepNext(c)
    /\ freeMarked[c]
    /\ UNCHANGED <<freeList, freeMarked, marked, class, fields>>

SweepMarkedCell(c) ==
    /\ SweepNext(c)
    /\ ~freeMarked[c] /\ marked[c]
    /\ marked' = [marked EXCEPT ![c] = FALSE]
    /\ UNCHANGED <<freeList, freeMarked, class, fields>>

SweepDeadCellAgain(c) ==        \* variant: each() visits free cells too
    /\ SweepNext(c)
    /\ ~marked[c]
    /\ freeMarked' = [freeMarked EXCEPT ![c] = TRUE]
    /\ class' = [class EXCEPT ![c] = NoClass]
    /\ fields' = [fields EXCEPT ![c] = {}]
    /\ freeList' = [freeList EXCEPT ![c[1]] = Append(@, c)]
    /\ UNCHANGED marked

\* ~Cell(), then Allocator::free: memset to 0, the marker, the free list.
SweepDeadCell(c) ==
    /\ SweepNext(c)
    /\ ~freeMarked[c] /\ ~marked[c]
    /\ freeMarked' = [freeMarked EXCEPT ![c] = TRUE]
    /\ marked' = [marked EXCEPT ![c] = FALSE]
    /\ class' = [class EXCEPT ![c] = NoClass]
    /\ fields' = [fields EXCEPT ![c] = {}]
    /\ freeList' = [freeList EXCEPT ![c[1]] = Append(@, c)]

SweepDone ==
    /\ phase = "sweep"
    /\ unswept = {}
    /\ phase' = "retry"
    /\ CollectorStep
    /\ UNCHANGED <<freeList, freeMarked, marked, class, fields, scan, gray,
                   unswept>>

-----------------------------------------------------------------------------
Allocation ==
    \/ \E k \in Class : \/ AllocateFromFreeList(k)
                        \/ AllocateByBump(k)
                        \/ StartCollection(k)
    \/ OutOfMemory
    \/ \E S \in SUBSET HandleCells : FinishCreate(S)

Mutation ==
    \/ \E h \in handles :
          \/ DropHandle(h)
          \/ AddRoot(h)
          \/ \E d \in Cell : SetField(h, d) \/ ClearField(h, d) \/ GetField(h, d)
          \/ \E p \in Place : SetSlot(p, h)
    \/ \E p \in Place, c \in Cell : ClearSlot(p, c) \/ GetSlot(p, c)
    \/ \E i \in DOMAIN roots : RemoveRoot(i)

Collection ==
    \/ \E c \in Cell : MarkOne(c) \/ MarkRoot(c)
    \/ RootsDone \/ VisitVM \/ VisitNativeStack \/ DrainDone \/ MarkingDone
    \/ \E c \in Cell : \/ SweepFreeCell(c)
                       \/ SweepMarkedCell(c)
                       \/ SweepDeadCell(c)
    \/ SweepDone

Next == Allocation \/ Mutation \/ Collection

Spec == Init /\ [][Next]_vars

\* A collection is a loop of the thread that allocates: once begun, it runs.
FairSpec == Spec /\ WF_vars(Collection)

-----------------------------------------------------------------------------
(* Properties *)

TypeOK ==
    /\ current \in [Size -> 0..Capacity]
    /\ freeList \in [Size -> Seq(Cell)]
    /\ freeMarked \in [Cell -> BOOLEAN]
    /\ marked \in [Cell -> BOOLEAN]
    /\ class \in [Cell -> Class \union {NoClass}]
    /\ fields \in [Cell -> SUBSET Cell]
    /\ roots \in Seq(Cell)
    /\ slots \in [Place -> SUBSET Cell]
    /\ handles \subseteq Cell \X Class
    /\ stale \subseteq Cell
    /\ building \in Seq([cell : Cell, class : Class])
    /\ phase \in Phase
    /\ request \in Class \union {NoClass}
    /\ scan \subseteq Cell
    /\ gray \subseteq Cell
    /\ unswept \subseteq Cell
    /\ disturbed \in BOOLEAN

\* Each free list holds, once each, exactly the cells of its block that carry
\* the free marker, and none that the bump pointer has yet to hand out: what
\* Allocator::cell returns is never a cell that a create() or an object uses.
FreeListsSound ==
    \A s \in Size :
       /\ RangeOf(freeList[s]) = {c \in Cell : c[1] = s /\ freeMarked[c]}
       /\ \A i, j \in DOMAIN freeList[s] :
             freeList[s][i] = freeList[s][j] => i = j
       /\ \A c \in Cell : c[1] = s /\ c[2] > current[s] => ~freeMarked[c]

\* The properties from here on say what holds of every heap, whatever its
\* constructors create and its blocks held before, up to the first collection
\* that begins where the collector is not at home.  NoInvalidCast alone does
\* not wait for that: see the run heap_invalid_cast.

\* Whenever the program runs, everything it can name, directly or through the
\* fields of an object, is a finished object that no sweep has destroyed.
NoDanglingReference ==
    ~disturbed /\ phase \in {"mutator", "retry"} =>
       /\ PreciseRoots \union HandleCells \subseteq Live
       /\ \A c \in Live : fields[c] \subseteq Live

\* Cell::cast and Type::as assert that a cell has the class its user expects:
\* a pointer taken at one class is never left with memory reused for another.
NoInvalidCast ==
    phase = "mutator" /\ building = <<>> =>
       \A h \in handles : class[h[1]] = h[2]

\* No step of the collector calls visit() on a destroyed cell.
NoCrash == ~disturbed => phase # "crash"

Abstract == INSTANCE ManagedMemory WITH
    live <- Live, held <- PreciseRoots \union HandleCells

\* Right after a sweep, every object is one that a precise root or a word of
\* the native stack leads to.
SweptClean ==
    phase = "retry" =>
       Live \subseteq Abstract!Reachable(
                        PreciseRoots \union (NativeWords \intersect Live))

\* A collection reclaims everything that neither a precise root nor a word of
\* the native stack leads to: no unreachable cycle, no cell missed for a flag
\* left behind by an earlier collection.
CollectionIsComplete == ~disturbed => SweptClean

\* The heap implements managed memory: a sweep only ever destroys what the
\* program can no longer reach, and no other step destroys anything.
ImplementsManagedMemory ==
    /\ Abstract!MemoryInit
    /\ [][Abstract!MemoryNext \/ disturbed]_(Abstract!memoryVars)

\* Every collection ends, with a cell to hand out or out of memory.
CollectionEnds ==
    phase \notin {"mutator", "retry", "oom", "crash"} ~> phase \in {"retry", "crash"}
=============================================================================
