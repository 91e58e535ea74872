------------------------------- MODULE MCHeap -------------------------------
(* Small heaps for TLC. *)
EXTENDS HeapInvariant, TLC

CONSTANTS small, large,                 \* cell sizes
          String, TypeName, TypeUnion   \* classes of cells

\* TypeName and TypeUnion add no member to Type, so they share an allocator.
Sizes == [k \in Class |-> IF k = String THEN small ELSE large]

\* The constructor of TypeName creates the String that is its name.
NameIsCreated ==
    [k \in Class |-> IF k = TypeName THEN {String} ELSE {}]

\* The same where cells of one size only are looked at.
NothingCreated == [k \in Class |-> {}]

\* A block that posix_memalign takes from fresh pages, and one it reuses.
ZeroedBlock == {FALSE}
AnyBlock == BOOLEAN
=============================================================================
