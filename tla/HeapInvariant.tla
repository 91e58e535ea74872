--------------------------- MODULE HeapInvariant ---------------------------
(***************************************************************************)
(* Why the collector never destroys what the program can name: an          *)
(* inductive strengthening of NoDanglingReference, one named part per      *)
(* reason.  TLC checks it on small heaps, HeapProofs proves it.            *)
(***************************************************************************)
EXTENDS Heap

Held == PreciseRoots \union HandleCells

Marking == phase \in {"roots", "vm", "native", "drain", "stack"}

\* What a sweep in progress leaves alone: the marked cells it has yet to see,
\* and every object it has passed.
Survivors == {c \in Live : marked[c] \/ c \notin unswept}

\* Cells under construction are cells of their own, handed out and not yet
\* objects, however deep constructors nest; a collection meets none.
BuildingApart ==
    /\ phase # "mutator" => building = <<>>
    /\ \A c \in BuildingCells : /\ ~freeMarked[c] /\ c[2] <= current[c[1]]
                                /\ class[c] = NoClass
    /\ \A i, j \in DOMAIN building : building[i].cell = building[j].cell => i = j

\* A destroyed cell has no m_kind, so a word that still names it is ignored.
FreedIsBlank == \A c \in Cell : freeMarked[c] => class[c] = NoClass

LiveIsAllocated == \A c \in Live : c[2] <= current[c[1]]

\* The objects that outlive this moment are closed under references.
ReferencesSurvive ==
    /\ phase # "sweep" => /\ Held \subseteq Live
                          /\ \A c \in Live : fields[c] \subseteq Live
    /\ phase = "sweep" => /\ Held \subseteq Survivors
                          /\ \A c \in Survivors : fields[c] \subseteq Survivors

\* Flags are set on objects only, and only from the start of a collection to
\* the moment the sweep passes; but for those that a block came with.
FlagsAreCurrent ==
    \A c \in Cell : marked[c] =>
       \/ phase = "mutator"
       \/ /\ c \in Live
          /\ Marking \/ (phase = "sweep" /\ c \in unswept)

\* A flagged cell's fields are flagged too, unless it waits in the work list.
WorklistCoversFields ==
    /\ ~Marking => gray = {}
    /\ \A c \in gray : marked[c]
    /\ Marking => \A c \in Live : marked[c] /\ c \notin gray
                     => \A d \in fields[c] : marked[d]

\* Each kind of root is flagged by the end of the phase that visits it.
RootsAreFlagged ==
    /\ scan \subseteq Held
    /\ phase \notin {"roots", "stack"} => scan = {}
    /\ Marking => \A c \in RangeOf(roots) :
                     marked[c] \/ (phase = "roots" /\ c \in scan)
    /\ phase \in {"native", "drain", "stack"} =>
          \A c \in slots["vm"] : marked[c]
    /\ phase \in {"drain", "stack"} => \A c \in HandleCells : marked[c]
    /\ phase = "stack" => \A c \in slots["stack"] : marked[c] \/ c \in scan

NotCrashed == phase # "crash"

\* Everything that can be named outlives every step of a collection, and no
\* step of it meets a destroyed cell.
HeapInv ==
    /\ BuildingApart
    /\ FreedIsBlank
    /\ LiveIsAllocated
    /\ ReferencesSurvive
    /\ FlagsAreCurrent
    /\ WorklistCoversFields
    /\ RootsAreFlagged
    /\ NotCrashed

-----------------------------------------------------------------------------
(* Why a collection leaves nothing behind, and why no step but a sweep     *)
(* changes what an object is.                                              *)

\* Everything that can keep a cell alive through the collection.
Anchors == PreciseRoots \union (NativeWords \intersect Live)

Reached == Abstract!Reachable(Anchors)

\* Only an object has fields.
OnlyObjectsHaveFields == \A c \in Cell \ Live : fields[c] = {}

\* Marking never flags a cell that no anchor leads to: a flag left behind by
\* an earlier collection would be one.
FlagsAreEarned ==
    Marking => \A c \in Cell : marked[c] => c \in Reached

\* Once the native stack is scanned, the sweep passes over what it names.
WordsAreFlagged ==
    /\ phase \in {"drain", "stack"} => \A c \in NativeWords \intersect Live : marked[c]
    /\ phase = "sweep" => NativeWords \intersect Live \subseteq Survivors

\* What the sweep passes over is reachable, up to the end of the collection.
SurvivorsAreReached ==
    /\ phase = "sweep" => Survivors \subseteq Reached
    /\ SweptClean

\* What the collector keeps is what can be named: HeapInv, and its converse.
CollectorInv ==
    /\ HeapInv
    /\ OnlyObjectsHaveFields
    /\ FlagsAreEarned
    /\ WordsAreFlagged
    /\ SurvivorsAreReached

\* Whatever a class's constructor creates and whatever a fresh block holds,
\* the collector keeps exactly what can be named, up to the first collection
\* that begins inside a constructor or with a flag already set.
UndisturbedInv == ~disturbed => CollectorInv
=============================================================================
