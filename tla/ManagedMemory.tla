--------------------------- MODULE ManagedMemory ---------------------------
(***************************************************************************)
(* What the managed heap promises to the rest of the interpreter, without  *)
(* free lists, mark flags, work lists or phases: objects come into being,  *)
(* the program follows and rewrites references, and only an object the     *)
(* program can no longer reach ever disappears.  Heap.tla, the translation *)
(* of src/runtime/{Allocator,Heap,Cell}, is shown to implement it.         *)
(***************************************************************************)

CONSTANT Cell           \* the addresses an object can have

VARIABLES
    live,               \* the addresses that hold an object
    fields,             \* fields[c]: the objects that the object at c refers to
    held                \* the objects that the program refers to directly

memoryVars == <<live, fields, held>>

ClosedUnderFields(S) == \A c \in S : fields[c] \subseteq S

\* Everything that following references from S leads to: the smallest closed
\* set around S.
Reachable(S) ==
    {c \in Cell : \A T \in SUBSET Cell :
                     S \subseteq T /\ ClosedUnderFields(T) => c \in T}

MemoryTypeOK ==
    /\ live \subseteq Cell
    /\ fields \in [Cell -> SUBSET Cell]
    /\ held \subseteq Cell

MemoryInit ==
    /\ live = {}
    /\ fields = [c \in Cell |-> {}]
    /\ held = {}

\* A new object refers to objects its creator holds, and is itself held.
CreateObject(c, S) ==
    /\ c \notin live
    /\ S \subseteq held
    /\ live' = live \union {c}
    /\ fields' = [fields EXCEPT ![c] = S]
    /\ held' = held \union {c}

\* The program lets go of what it holds, picks up what it can reach, and
\* rewrites the fields of an object it can reach.
UseObjects ==
    /\ held' \subseteq Reachable(held)
    /\ \/ fields' = fields
       \/ \E c \in Reachable(held), S \in SUBSET Reachable(held) :
             fields' = [fields EXCEPT ![c] = S]
    /\ UNCHANGED live

\* An object that cannot be reached disappears.
Reclaim(c) ==
    /\ c \in live \ Reachable(held)
    /\ live' = live \ {c}
    /\ fields' = [fields EXCEPT ![c] = {}]
    /\ UNCHANGED held

MemoryNext ==
    \/ \E c \in Cell, S \in SUBSET Cell : CreateObject(c, S)
    \/ UseObjects
    \/ \E c \in Cell : Reclaim(c)

MemorySpec == MemoryInit /\ [][MemoryNext]_memoryVars

\* The promise: every reference the program can follow leads to an object.
ReachableIsLive == Reachable(held) \subseteq live

=============================================================================
