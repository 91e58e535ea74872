----------------------------- MODULE HeapProofs -----------------------------
(***************************************************************************)
(* Proofs about the heap, for every number of allocators, every block      *)
(* size, every set of classes, whatever their constructors create and      *)
(* whatever a block held before it was handed out.  First the type         *)
(* invariant and the free lists.  Then, up to the first collection that    *)
(* begins where the collector is not at home (inside a constructor, or     *)
(* with a flag already set): the collector destroys nothing that the       *)
(* program can name (HeapInv is inductive), its collections are complete,  *)
(* and every step is a step of ManagedMemory or a stutter (CollectorInv).  *)
(***************************************************************************)
EXTENDS HeapInvariant, TLAPS

-----------------------------------------------------------------------------
(* Sequences *)

\* What a sequence over S holds at one of its indices is in S.
LEMMA ElementType ==
    ASSUME NEW S, NEW s \in Seq(S), NEW i \in DOMAIN s
    PROVE  s[i] \in S
  OBVIOUS

\* A removal that closes the gap leaves a sequence of the same elements' type.
LEMMA RemoveAtType ==
    ASSUME NEW S, NEW s \in Seq(S), NEW i \in DOMAIN s
    PROVE  [j \in 1..(Len(s) - 1) |-> IF j < i THEN s[j] ELSE s[j + 1]]
             \in Seq(S)
  OBVIOUS

-----------------------------------------------------------------------------
(* Typing *)

LEMMA InitType == Init => TypeOK
<1> SUFFICES ASSUME Init PROVE TypeOK
  OBVIOUS
<1>1. disturbed \in BOOLEAN
  BY DEF Init
<1> QED
  BY <1>1, ConstantsAssumption DEF Init, TypeOK, Place, Phase

LEMMA AllocationType == TypeOK /\ Allocation => TypeOK'
<1> SUFFICES ASSUME TypeOK, Allocation PROVE TypeOK'
  OBVIOUS
<1> USE ConstantsAssumption
<1>0. ASSUME NEW c \in Cell, NEW k \in Class, NEW m,
             Construct(c, k, m),
             marked' \in [Cell -> BOOLEAN],
             freeList' \in [Size -> Seq(Cell)],
             current' \in [Size -> 0..Capacity]
      PROVE  TypeOK'
  <2>1. [cell |-> c, class |-> k] \in [cell : Cell, class : Class]
    OBVIOUS
  <2>2. building' \in Seq([cell : Cell, class : Class])
    BY <1>0, <2>1 DEF Construct, TypeOK
  <2> QED
    BY <1>0, <2>2 DEF Construct, TypeOK, Phase, mutatorVars
<1>1. ASSUME NEW k \in Class, AllocateFromFreeList(k) PROVE TypeOK'
  <2> DEFINE s == SizeOf[k]
             c == Head(freeList[s])
  <2>1. s \in Size /\ freeList[s] \in Seq(Cell) /\ freeList[s] # <<>>
    BY <1>1 DEF AllocateFromFreeList, TypeOK
  <2>2. c \in Cell /\ Tail(freeList[s]) \in Seq(Cell)
    BY <2>1
  <2>3. Construct(c, k, marked[c])
    BY <1>1 DEF AllocateFromFreeList
  <2>4. marked' \in [Cell -> BOOLEAN]
    BY <2>2, <2>3 DEF Construct, TypeOK
  <2>5. freeList' \in [Size -> Seq(Cell)] /\ current' \in [Size -> 0..Capacity]
    BY <1>1, <2>1, <2>2 DEF AllocateFromFreeList, TypeOK
  <2> QED
    BY <1>0, <2>2, <2>3, <2>4, <2>5
<1>2. ASSUME NEW k \in Class, AllocateByBump(k) PROVE TypeOK'
  <2> DEFINE s == SizeOf[k]
  <2>1. s \in Size /\ current[s] \in 0..Capacity /\ current[s] < Capacity
    BY <1>2 DEF AllocateByBump, TypeOK
  <2>2. <<s, current[s] + 1>> \in Cell
    BY <2>1 DEF Cell
  <2>3. PICK m \in FreshMark : Construct(<<s, current[s] + 1>>, k, m)
    BY <1>2 DEF AllocateByBump
  <2>4. marked' \in [Cell -> BOOLEAN]
    BY <2>3 DEF Construct, TypeOK
  <2>5. current' \in [Size -> 0..Capacity] /\ freeList' \in [Size -> Seq(Cell)]
    BY <1>2, <2>1 DEF AllocateByBump, TypeOK
  <2> QED
    BY <1>0, <2>2, <2>3, <2>4, <2>5
<1>3. ASSUME NEW k \in Class, StartCollection(k) PROVE TypeOK'
  <2>1. RangeOf(roots) \subseteq Cell
    BY DEF RangeOf, TypeOK
  <2>2. disturbed' \in BOOLEAN
    BY <1>3 DEF StartCollection
  <2> QED
    BY <1>3, <2>1, <2>2
    DEF StartCollection, TypeOK, allocatorVars, mutatorVars, Phase
<1>4. CASE OutOfMemory
  BY <1>4 DEF OutOfMemory, TypeOK, allocatorVars, mutatorVars, collectVars, Phase
<1>5. ASSUME NEW S \in SUBSET HandleCells, FinishCreate(S) PROVE TypeOK'
  <2> DEFINE top == building[Len(building)]
  <2>1. /\ building \in Seq([cell : Cell, class : Class])
        /\ Len(building) \in DOMAIN building
    BY <1>5 DEF FinishCreate, TypeOK
  <2>2. top.cell \in Cell /\ top.class \in Class
    <3>1. top \in [cell : Cell, class : Class]
      BY <2>1, ElementType
    <3> QED
      BY <3>1
  <2>3. HandleCells \subseteq Cell
    BY DEF HandleCells, TypeOK
  <2>4. SubSeq(building, 1, Len(building) - 1) \in Seq([cell : Cell, class : Class])
    <3> DEFINE Entry == [cell : Cell, class : Class]
    <3>1. building \in Seq(Entry) /\ Len(building) - 1 \in 0..Len(building)
      BY <2>1
    <3> HIDE DEF Entry
    <3>2. SubSeq(building, 1, Len(building) - 1) \in Seq(Entry)
      BY <3>1
    <3> QED
      BY <3>2 DEF Entry
  <2>5. /\ fields' \in [Cell -> SUBSET Cell]
        /\ class' \in [Cell -> Class \union {NoClass}]
        /\ handles' \subseteq Cell \X Class
    <3>1. <<top.cell, top.class>> \in Cell \X Class
      BY <2>2
    <3> QED
      BY <1>5, <2>2, <2>3, <3>1 DEF FinishCreate, TypeOK
  <2> QED
    BY <1>5, <2>4, <2>5 DEF FinishCreate, TypeOK, allocatorVars, collectVars
<1> QED
  BY <1>1, <1>2, <1>3, <1>4, <1>5 DEF Allocation

LEMMA MutationType == TypeOK /\ Mutation => TypeOK'
<1> SUFFICES ASSUME TypeOK, Mutation PROVE TypeOK'
  OBVIOUS
<1>0. ASSUME MutatorStep,
             fields' \in [Cell -> SUBSET Cell],
             roots' \in Seq(Cell),
             slots' \in [Place -> SUBSET Cell],
             handles' \subseteq Cell \X Class
      PROVE  TypeOK'
  BY <1>0 DEF MutatorStep, TypeOK, allocatorVars, collectVars
<1>1. ASSUME NEW h \in handles PROVE h \in Cell \X Class /\ h[1] \in Cell
  BY DEF TypeOK
<1>2. ASSUME NEW c \in Cell, Acquire(c) PROVE handles' \subseteq Cell \X Class
  BY <1>2 DEF Acquire, TypeOK
<1>3. ASSUME NEW h \in handles, DropHandle(h) PROVE TypeOK'
  BY <1>0, <1>1, <1>3 DEF DropHandle, TypeOK
<1>4. ASSUME NEW h \in handles, AddRoot(h) PROVE TypeOK'
  <2>1. roots' \in Seq(Cell)
    BY <1>1, <1>4 DEF AddRoot, TypeOK
  <2> QED
    BY <1>0, <1>4, <2>1 DEF AddRoot, TypeOK
<1>5. ASSUME NEW h \in handles, NEW d \in Cell, SetField(h, d) PROVE TypeOK'
  BY <1>0, <1>1, <1>5 DEF SetField, TypeOK, mutatorVars
<1>6. ASSUME NEW h \in handles, NEW d \in Cell, ClearField(h, d) PROVE TypeOK'
  BY <1>0, <1>1, <1>6 DEF ClearField, TypeOK, mutatorVars
<1>7. ASSUME NEW h \in handles, NEW d \in Cell, GetField(h, d) PROVE TypeOK'
  BY <1>0, <1>2, <1>7 DEF GetField, TypeOK
<1>8. ASSUME NEW h \in handles, NEW p \in Place, SetSlot(p, h) PROVE TypeOK'
  <2>1. slots' \in [Place -> SUBSET Cell]
    BY <1>1, <1>8 DEF SetSlot, TypeOK
  <2> QED
    BY <1>0, <1>8, <2>1 DEF SetSlot, TypeOK
<1>9. ASSUME NEW p \in Place, NEW c \in Cell, ClearSlot(p, c) PROVE TypeOK'
  BY <1>0, <1>9 DEF ClearSlot, TypeOK
<1>10. ASSUME NEW p \in Place, NEW c \in Cell, GetSlot(p, c) PROVE TypeOK'
  BY <1>0, <1>2, <1>10 DEF GetSlot, TypeOK
<1>11. ASSUME NEW i \in DOMAIN roots, RemoveRoot(i) PROVE TypeOK'
  <2>1. roots' \in Seq(Cell)
    BY <1>11, RemoveAtType DEF RemoveRoot, TypeOK
  <2> QED
    BY <1>0, <1>11, <2>1 DEF RemoveRoot, TypeOK
<1> QED
  BY <1>3, <1>4, <1>5, <1>6, <1>7, <1>8, <1>9, <1>10, <1>11 DEF Mutation

LEMMA CollectionType == TypeOK /\ Collection => TypeOK'
<1> SUFFICES ASSUME TypeOK, Collection PROVE TypeOK'
  OBVIOUS
<1> USE DEF TypeOK, CollectorStep
<1>1. ASSUME NEW c \in Cell, MarkOne(c) PROVE TypeOK'
  BY <1>1 DEF MarkOne, Phase
<1>2. ASSUME NEW c \in Cell, MarkRoot(c) PROVE TypeOK'
  BY <1>2 DEF MarkRoot, VisitCells, Phase
<1>3. CASE RootsDone
  BY <1>3 DEF RootsDone, Phase
<1>4. CASE VisitVM
  BY <1>4 DEF VisitVM, VisitCells, Phase, Place
<1>5. CASE VisitNativeStack
  <2>1. {c \in NativeWords : class[c] # NoClass} \subseteq Cell
    <3>1. HandleCells \subseteq Cell
      BY DEF HandleCells
    <3>2. BuildingCells \subseteq Cell
      <4>1. \A i \in DOMAIN building : building[i] \in [cell : Cell, class : Class]
        BY ElementType
      <4> QED
        BY <4>1 DEF BuildingCells
    <3> QED
      BY <3>1, <3>2 DEF NativeWords
  <2> QED
    BY <1>5, <2>1 DEF VisitNativeStack, VisitCells, Phase
<1>6. CASE DrainDone
  BY <1>6 DEF DrainDone, Phase, Place
<1>7. CASE MarkingDone
  BY <1>7 DEF MarkingDone, Phase
<1>8. ASSUME NEW c \in Cell, SweepFreeCell(c) PROVE TypeOK'
  BY <1>8 DEF SweepFreeCell, SweepNext
<1>9. ASSUME NEW c \in Cell, SweepMarkedCell(c) PROVE TypeOK'
  BY <1>9 DEF SweepMarkedCell, SweepNext
<1>10. ASSUME NEW c \in Cell, SweepDeadCell(c) PROVE TypeOK'
  <2>1. c[1] \in Size
    BY DEF Cell
  <2>2. freeList' \in [Size -> Seq(Cell)]
    BY <1>10, <2>1 DEF SweepDeadCell
  <2> QED
    BY <1>10, <2>2 DEF SweepDeadCell, SweepNext
<1>11. CASE SweepDone
  BY <1>11 DEF SweepDone, Phase
<1> QED
  BY <1>1, <1>2, <1>3, <1>4, <1>5, <1>6, <1>7, <1>8, <1>9, <1>10, <1>11
  DEF Collection

\* Every variable keeps its type, whatever the constructors allocate and
\* whatever garbage a fresh block holds.
THEOREM TypeCorrect == Spec => []TypeOK
<1>1. TypeOK /\ [Next]_vars => TypeOK'
  <2> SUFFICES ASSUME TypeOK, [Next]_vars PROVE TypeOK'
    OBVIOUS
  <2>1. CASE UNCHANGED vars
    BY <2>1 DEF vars, TypeOK
  <2> QED
    BY <2>1, AllocationType, MutationType, CollectionType DEF Next
<1> QED
  BY <1>1, InitType, PTL DEF Spec

-----------------------------------------------------------------------------
(* Free lists *)

SweepStaysAllocated == \A c \in unswept : c[2] <= current[c[1]]

\* FreeListsSound is inductive with one fact about the sweep: it frees only
\* cells that the bump pointer has passed.
FreeListInv == TypeOK /\ FreeListsSound /\ SweepStaysAllocated

LEMMA PopKeepsRest ==
    ASSUME NEW S, NEW s \in Seq(S), s # <<>>,
           \A i, j \in DOMAIN s : s[i] = s[j] => i = j
    PROVE  /\ RangeOf(Tail(s)) = RangeOf(s) \ {Head(s)}
           /\ \A i, j \in DOMAIN Tail(s) : Tail(s)[i] = Tail(s)[j] => i = j
<1> DEFINE t == Tail(s)
<1>1. /\ t \in Seq(S) /\ Len(t) = Len(s) - 1 /\ Len(s) \in Nat /\ Len(s) > 0
      /\ \A i \in 1..Len(t) : i + 1 \in 1..Len(s) /\ t[i] = s[i + 1]
      /\ DOMAIN t = 1..Len(t) /\ DOMAIN s = 1..Len(s)
      /\ Head(s) = s[1]
  OBVIOUS
<1> HIDE DEF t
<1>2. ASSUME NEW i \in DOMAIN t, NEW j \in DOMAIN t, t[i] = t[j] PROVE i = j
  <2>1. /\ i \in Nat /\ i + 1 \in DOMAIN s /\ t[i] = s[i + 1]
        /\ j \in Nat /\ j + 1 \in DOMAIN s /\ t[j] = s[j + 1]
    BY <1>1
  <2>2. i + 1 = j + 1
    BY <1>2, <2>1
  <2> QED
    BY <2>1, <2>2
<1>3. RangeOf(t) \subseteq RangeOf(s) \ {Head(s)}
  BY <1>1, SMTT(30) DEF RangeOf
<1>4. ASSUME NEW x \in RangeOf(s) \ {Head(s)} PROVE x \in RangeOf(t)
  <2>1. PICK i \in 1..Len(s) : x = s[i]
    BY <1>1 DEF RangeOf
  <2>2. i # 1 /\ i - 1 \in 1..Len(t) /\ (i - 1) + 1 = i
    BY <1>1, <1>4, <2>1
  <2>3. t[i - 1] = x /\ i - 1 \in DOMAIN t
    BY <1>1, <2>1, <2>2
  <2> QED
    BY <2>3 DEF RangeOf
<1> QED
  BY <1>2, <1>3, <1>4 DEF t

LEMMA PushAddsOne ==
    ASSUME NEW S, NEW s \in Seq(S), NEW c \in S, c \notin RangeOf(s),
           \A i, j \in DOMAIN s : s[i] = s[j] => i = j
    PROVE  /\ RangeOf(Append(s, c)) = RangeOf(s) \union {c}
           /\ \A i, j \in DOMAIN Append(s, c) :
                 Append(s, c)[i] = Append(s, c)[j] => i = j
<1> DEFINE t == Append(s, c)
<1>1. /\ Len(s) \in Nat /\ DOMAIN s = 1..Len(s) /\ DOMAIN t = 1..(Len(s) + 1)
      /\ \A i \in 1..Len(s) : t[i] = s[i]
      /\ t[Len(s) + 1] = c
  OBVIOUS
<1> HIDE DEF t
<1>2. \A i \in 1..Len(s) : s[i] # c
  BY <1>1 DEF RangeOf
<1>3. \A i \in DOMAIN t : i \in 1..Len(s) \/ i = Len(s) + 1
  BY <1>1
<1>4. \A i, j \in DOMAIN t : t[i] = t[j] => i = j
  BY <1>1, <1>2, <1>3
<1>5. RangeOf(t) = RangeOf(s) \union {c}
  <2>1. RangeOf(t) \subseteq RangeOf(s) \union {c}
    BY <1>1, <1>3 DEF RangeOf
  <2>2. RangeOf(s) \subseteq RangeOf(t)
    BY <1>1 DEF RangeOf
  <2>3. c \in RangeOf(t)
    BY <1>1 DEF RangeOf
  <2> QED
    BY <2>1, <2>2, <2>3
<1> QED
  BY <1>4, <1>5 DEF t

LEMMA FreeListInit == Init => FreeListsSound /\ SweepStaysAllocated
  BY DEF Init, FreeListsSound, SweepStaysAllocated, RangeOf, Cell

LEMMA FreeListStutter ==
    ASSUME FreeListInv, UNCHANGED <<current, freeList, freeMarked>>,
           unswept' \subseteq unswept
    PROVE  FreeListsSound' /\ SweepStaysAllocated'
  BY DEF FreeListInv, FreeListsSound, SweepStaysAllocated, RangeOf

LEMMA FreeListPop ==
    ASSUME FreeListInv, NEW k \in Class, AllocateFromFreeList(k)
    PROVE  FreeListsSound' /\ SweepStaysAllocated'
<1> USE ConstantsAssumption
<1> DEFINE s == SizeOf[k]
           c == Head(freeList[s])
<1>1. s \in Size /\ freeList[s] \in Seq(Cell) /\ freeList[s] # <<>>
  BY DEF AllocateFromFreeList, FreeListInv, TypeOK
<1>2. /\ freeList' = [freeList EXCEPT ![s] = Tail(@)]
      /\ freeMarked' = [freeMarked EXCEPT ![c] = FALSE]
      /\ current' = current /\ unswept' = unswept
  BY DEF AllocateFromFreeList, Construct
<1>3. c \in Cell /\ c \in RangeOf(freeList[s])
  BY <1>1 DEF RangeOf
<1>4. c[1] = s
  BY <1>1, <1>3 DEF FreeListInv, FreeListsSound
<1>5. /\ RangeOf(Tail(freeList[s])) = RangeOf(freeList[s]) \ {c}
      /\ \A i, j \in DOMAIN Tail(freeList[s]) :
            Tail(freeList[s])[i] = Tail(freeList[s])[j] => i = j
  BY <1>1, PopKeepsRest DEF FreeListInv, FreeListsSound
<1> HIDE DEF s, c
<1>6. ASSUME NEW z \in Size
      PROVE  /\ RangeOf(freeList'[z]) = {d \in Cell : d[1] = z /\ freeMarked'[d]}
             /\ \A i, j \in DOMAIN freeList'[z] :
                   freeList'[z][i] = freeList'[z][j] => i = j
             /\ \A d \in Cell : d[1] = z /\ d[2] > current'[z] => ~freeMarked'[d]
  <2>1. /\ RangeOf(freeList[z]) = {d \in Cell : d[1] = z /\ freeMarked[d]}
        /\ \A i, j \in DOMAIN freeList[z] :
              freeList[z][i] = freeList[z][j] => i = j
        /\ \A d \in Cell : d[1] = z /\ d[2] > current[z] => ~freeMarked[d]
    BY DEF FreeListInv, FreeListsSound
  <2>2. \A d \in Cell : freeMarked'[d] = IF d = c THEN FALSE ELSE freeMarked[d]
    BY <1>2 DEF FreeListInv, TypeOK
  <2>3. CASE z = s
    <3>1. freeList'[z] = Tail(freeList[s])
      BY <1>1, <1>2, <2>3 DEF FreeListInv, TypeOK
    <3>2. RangeOf(freeList'[z]) = {d \in Cell : d[1] = z /\ freeMarked'[d]}
      BY <1>5, <2>1, <2>2, <2>3, <3>1
    <3>3. \A i, j \in DOMAIN freeList'[z] :
             freeList'[z][i] = freeList'[z][j] => i = j
      BY <1>5, <3>1
    <3> QED
      BY <1>2, <2>1, <2>2, <3>2, <3>3
  <2>4. CASE z # s
    <3>1. freeList'[z] = freeList[z]
      BY <1>1, <1>2, <2>4 DEF FreeListInv, TypeOK
    <3> QED
      BY <1>2, <1>4, <2>1, <2>2, <2>4, <3>1
  <2> QED
    BY <2>3, <2>4
<1>7. SweepStaysAllocated'
  BY <1>2 DEF FreeListInv, SweepStaysAllocated
<1> QED
  BY <1>6, <1>7 DEF FreeListsSound

LEMMA FreeListBump ==
    ASSUME FreeListInv, NEW k \in Class, AllocateByBump(k)
    PROVE  FreeListsSound' /\ SweepStaysAllocated'
<1> USE ConstantsAssumption
<1> DEFINE s == SizeOf[k]
           c == <<s, current[s] + 1>>
<1>1. s \in Size /\ current \in [Size -> 0..Capacity] /\ current[s] < Capacity
  BY DEF AllocateByBump, FreeListInv, TypeOK
<1>2. /\ current' = [current EXCEPT ![s] = @ + 1]
      /\ freeMarked' = [freeMarked EXCEPT ![c] = FALSE]
      /\ freeList' = freeList /\ unswept' = unswept
  BY DEF AllocateByBump, Construct
<1>3. c \in Cell /\ ~freeMarked[c]
  BY <1>1 DEF FreeListInv, FreeListsSound, Cell
<1>4. \A d \in Cell : freeMarked'[d] = freeMarked[d]
  BY <1>2, <1>3 DEF FreeListInv, TypeOK
<1>5. \A z \in Size : current'[z] >= current[z] /\ current[z] \in Nat
                      /\ current'[z] \in Nat
  BY <1>1, <1>2
<1>6. FreeListsSound'
  BY <1>2, <1>4, <1>5 DEF FreeListInv, FreeListsSound, RangeOf, Cell
<1>7. SweepStaysAllocated'
  BY <1>2, <1>5, SMTT(30) DEF FreeListInv, TypeOK, SweepStaysAllocated, Cell
<1> QED
  BY <1>6, <1>7

LEMMA FreeListSweep ==
    ASSUME FreeListInv, NEW c \in Cell, SweepDeadCell(c)
    PROVE  FreeListsSound' /\ SweepStaysAllocated'
<1>1. /\ freeList' = [freeList EXCEPT ![c[1]] = Append(@, c)]
      /\ freeMarked' = [freeMarked EXCEPT ![c] = TRUE]
      /\ current' = current /\ unswept' \subseteq unswept
      /\ ~freeMarked[c] /\ c \in unswept
  BY DEF SweepDeadCell, SweepNext, CollectorStep
<1>2. c[1] \in Size /\ c[2] \in Nat /\ c[2] <= current[c[1]]
  BY <1>1 DEF FreeListInv, SweepStaysAllocated, Cell
<1> DEFINE s == c[1]
<1>3. freeList[s] \in Seq(Cell) /\ c \notin RangeOf(freeList[s])
  BY <1>1, <1>2 DEF FreeListInv, FreeListsSound, TypeOK
<1>4. /\ RangeOf(Append(freeList[s], c)) = RangeOf(freeList[s]) \union {c}
      /\ \A i, j \in DOMAIN Append(freeList[s], c) :
            Append(freeList[s], c)[i] = Append(freeList[s], c)[j] => i = j
  BY <1>2, <1>3, PushAddsOne DEF FreeListInv, FreeListsSound
<1>5. ASSUME NEW z \in Size
      PROVE  /\ RangeOf(freeList'[z]) = {d \in Cell : d[1] = z /\ freeMarked'[d]}
             /\ \A i, j \in DOMAIN freeList'[z] :
                   freeList'[z][i] = freeList'[z][j] => i = j
             /\ \A d \in Cell : d[1] = z /\ d[2] > current'[z] => ~freeMarked'[d]
  <2>1. /\ RangeOf(freeList[z]) = {d \in Cell : d[1] = z /\ freeMarked[d]}
        /\ \A i, j \in DOMAIN freeList[z] :
              freeList[z][i] = freeList[z][j] => i = j
        /\ \A d \in Cell : d[1] = z /\ d[2] > current[z] => ~freeMarked[d]
    BY DEF FreeListInv, FreeListsSound
  <2>2. \A d \in Cell : freeMarked'[d] = IF d = c THEN TRUE ELSE freeMarked[d]
    BY <1>1 DEF FreeListInv, TypeOK
  <2>3. CASE z = s
    <3>1. freeList'[z] = Append(freeList[s], c)
      BY <1>1, <1>2, <2>3 DEF FreeListInv, TypeOK
    <3>2. current[z] \in Nat /\ ~(c[2] > current[z])
      BY <1>2, <2>3 DEF FreeListInv, TypeOK
    <3>3. RangeOf(freeList'[z]) = {d \in Cell : d[1] = z /\ freeMarked'[d]}
      <4>1. RangeOf(freeList'[z]) = RangeOf(freeList[z]) \union {c}
        BY <1>4, <2>3, <3>1
      <4>2. c[1] = z
        BY <2>3
      <4> HIDE DEF s
      <4> QED
        BY <2>1, <2>2, <4>1, <4>2
    <3>4. \A i, j \in DOMAIN freeList'[z] :
             freeList'[z][i] = freeList'[z][j] => i = j
      BY <1>4, <3>1
    <3> QED
      BY <1>1, <2>1, <2>2, <2>3, <3>2, <3>3, <3>4
  <2>4. CASE z # s
    <3>1. freeList'[z] = freeList[z]
      BY <1>1, <2>4 DEF FreeListInv, TypeOK
    <3> QED
      BY <1>1, <2>1, <2>2, <2>4, <3>1
  <2> QED
    BY <2>3, <2>4
<1>6. SweepStaysAllocated'
  BY <1>1 DEF FreeListInv, SweepStaysAllocated
<1> QED
  BY <1>5, <1>6 DEF FreeListsSound

LEMMA FreeListStep ==
    ASSUME FreeListInv, [Next]_vars
    PROVE  FreeListsSound' /\ SweepStaysAllocated'
<1> USE DEF CollectorStep, allocatorVars, collectVars
<1>1. CASE UNCHANGED vars
  BY <1>1, FreeListStutter DEF vars
<1>2. CASE Mutation
  <2>1. MutatorStep
    BY <1>2 DEF Mutation, DropHandle, AddRoot, SetField, ClearField, GetField,
                SetSlot, ClearSlot, GetSlot, RemoveRoot
  <2> QED
    BY <2>1, FreeListStutter DEF MutatorStep
<1>3. CASE Allocation
  <2>1. ASSUME NEW k \in Class, StartCollection(k)
        PROVE  FreeListsSound' /\ SweepStaysAllocated'
    BY <2>1, FreeListStutter DEF StartCollection
  <2>2. CASE OutOfMemory
    BY <2>2, FreeListStutter DEF OutOfMemory
  <2>3. ASSUME NEW S \in SUBSET HandleCells, FinishCreate(S)
        PROVE  FreeListsSound' /\ SweepStaysAllocated'
    BY <2>3, FreeListStutter DEF FinishCreate
  <2> QED
    BY <1>3, <2>1, <2>2, <2>3, FreeListPop, FreeListBump DEF Allocation
<1>4. CASE Collection
  <2>1. ASSUME NEW c \in Cell, MarkOne(c) \/ MarkRoot(c)
        PROVE  FreeListsSound' /\ SweepStaysAllocated'
    BY <2>1, FreeListStutter DEF MarkOne, MarkRoot
  <2>2. CASE RootsDone \/ VisitVM \/ VisitNativeStack \/ DrainDone \/ SweepDone
    BY <2>2, FreeListStutter
    DEF RootsDone, VisitVM, VisitNativeStack, DrainDone, SweepDone
  <2>3. CASE MarkingDone
    <3>1. FreeListsSound'
      BY <2>3 DEF MarkingDone, FreeListInv, FreeListsSound, RangeOf
    <3>2. SweepStaysAllocated'
      BY <2>3 DEF MarkingDone, SweepStaysAllocated
    <3> QED
      BY <3>1, <3>2
  <2>4. ASSUME NEW c \in Cell, SweepFreeCell(c) \/ SweepMarkedCell(c)
        PROVE  FreeListsSound' /\ SweepStaysAllocated'
    BY <2>4, FreeListStutter DEF SweepFreeCell, SweepMarkedCell, SweepNext
  <2> QED
    BY <1>4, <2>1, <2>2, <2>3, <2>4, FreeListSweep DEF Collection
<1> QED
  BY <1>1, <1>2, <1>3, <1>4 DEF Next

\* Allocator::cell never hands out a cell twice, and Allocator::free never
\* queues one twice, whatever the constructors and the mutator do.
THEOREM FreeListsAreSound == Spec => []FreeListsSound
<1>1. Init => FreeListsSound /\ SweepStaysAllocated
  BY FreeListInit
<1>2. TypeOK /\ FreeListsSound /\ SweepStaysAllocated /\ [Next]_vars
        => FreeListsSound' /\ SweepStaysAllocated'
  BY FreeListStep DEF FreeListInv
<1> QED
  BY <1>1, <1>2, TypeCorrect, PTL DEF Spec

-----------------------------------------------------------------------------
(* Nothing dangles                                                         *)

USE DEF Held

\* The last element of a non-empty sequence.
LEMMA LastIndex ==
    ASSUME NEW S, NEW s \in Seq(S), s # <<>>
    PROVE  Len(s) \in DOMAIN s /\ Len(s) \in Nat /\ Len(s) >= 1
  OBVIOUS

\* What is left when the last element of a sequence goes.
LEMMA FrontOf ==
    ASSUME NEW S, NEW s \in Seq(S), s # <<>>
    PROVE  LET t == SubSeq(s, 1, Len(s) - 1) IN
           /\ DOMAIN t = 1..(Len(s) - 1)
           /\ \A i \in DOMAIN t : t[i] = s[i] /\ i \in DOMAIN s /\ i # Len(s)
<1>1. Len(s) \in Nat /\ Len(s) # 0 /\ DOMAIN s = 1..Len(s)
  OBVIOUS
<1> QED
  BY <1>1

-----------------------------------------------------------------------------
(* Frames: what keeps parts of the invariant *)

LEMMA CellTypes ==
    ASSUME TypeOK
    PROVE  /\ HandleCells \subseteq Cell
           /\ RangeOf(roots) \subseteq Cell
           /\ BuildingCells \subseteq Cell
           /\ slots["vm"] \subseteq Cell /\ slots["stack"] \subseteq Cell
<1>1. HandleCells \subseteq Cell
  BY DEF HandleCells, TypeOK
<1>2. RangeOf(roots) \subseteq Cell
  BY DEF RangeOf, TypeOK
<1>3. BuildingCells \subseteq Cell
  <2>1. \A i \in DOMAIN building : building[i] \in [cell : Cell, class : Class]
    BY ElementType DEF TypeOK
  <2> QED
    BY <2>1 DEF BuildingCells
<1> QED
  BY <1>1, <1>2, <1>3 DEF TypeOK, Place

\* A step that leaves allocators, objects and references alone, outside a
\* sweep, keeps the three parts that do not speak of marking.
LEMMA MarkingFrame ==
    ASSUME HeapInv, phase # "sweep", phase' # "sweep", building' = <<>>,
           UNCHANGED <<current, freeMarked, class, fields, roots, slots, handles>>
    PROVE  BuildingApart' /\ FreedIsBlank' /\ LiveIsAllocated' /\ ReferencesSurvive'
<1>1. Live' = Live /\ Held' = Held
  BY DEF Live, PreciseRoots, RangeOf, HandleCells
<1>2. BuildingApart'
  BY DEF BuildingApart, BuildingCells
<1>3. FreedIsBlank' /\ LiveIsAllocated'
  BY <1>1 DEF HeapInv, FreedIsBlank, LiveIsAllocated
<1>4. ReferencesSurvive'
  BY <1>1 DEF HeapInv, ReferencesSurvive
<1> QED
  BY <1>2, <1>3, <1>4

LEMMA InitHeapInv == Init => HeapInv
<1> SUFFICES ASSUME Init PROVE HeapInv
  OBVIOUS
<1>1. Live = {} /\ Held = {} /\ BuildingCells = {}
  BY DEF Init, Live, PreciseRoots, RangeOf, HandleCells, BuildingCells, Place
<1> QED
  BY <1>1
  DEF Init, HeapInv, BuildingApart, LiveIsAllocated, ReferencesSurvive,
      FreedIsBlank, FlagsAreCurrent, WorklistCoversFields, RootsAreFlagged,
      NotCrashed, Marking

-----------------------------------------------------------------------------
(* Allocation *)

\* The cell that an allocator hands out holds no object, and no create() in
\* progress is building it.
LEMMA HandedOutIsBlank ==
    ASSUME TypeOK, FreeListsSound, HeapInv, NEW k \in Class,
           AllocateFromFreeList(k) \/ AllocateByBump(k)
    PROVE  /\ \E c \in Cell, m \in BOOLEAN :
                 /\ Construct(c, k, m) /\ c \notin Live /\ c \notin BuildingCells
                 /\ c[2] <= current'[c[1]]
           /\ \A d \in Cell : /\ current[d[1]] \in Nat /\ current'[d[1]] \in Nat
                              /\ current'[d[1]] >= current[d[1]]
           /\ phase \in {"mutator", "retry"}
<1> USE ConstantsAssumption
<1> DEFINE s == SizeOf[k]
<1>1. s \in Size /\ current \in [Size -> 0..Capacity]
  BY DEF TypeOK
<1>2. phase \in {"mutator", "retry"}
  BY DEF AllocateFromFreeList, AllocateByBump, Wants, MayCreate
<1>3. CASE AllocateFromFreeList(k)
  <2> DEFINE c == Head(freeList[s])
  <2>1. freeList[s] \in Seq(Cell) /\ freeList[s] # <<>>
    BY <1>1, <1>3 DEF AllocateFromFreeList, TypeOK
  <2>2. c \in Cell /\ c \in RangeOf(freeList[s])
    BY <2>1 DEF RangeOf
  <2>3. freeMarked[c] /\ c[1] = s /\ marked[c] \in BOOLEAN
    BY <1>1, <2>2 DEF FreeListsSound, TypeOK
  <2>4. c \notin Live /\ c \notin BuildingCells
    BY <2>3 DEF Live, HeapInv, BuildingApart
  <2>5. Construct(c, k, marked[c]) /\ current' = current
    BY <1>3 DEF AllocateFromFreeList
  <2>6. c[2] <= current[c[1]]
    <3>1. c[2] \in Nat /\ current[s] \in Nat
      BY <1>1, <2>2 DEF Cell
    <3>2. ~(c[2] > current[s])
      BY <1>1, <2>2, <2>3 DEF FreeListsSound
    <3> HIDE DEF c, s
    <3> QED
      BY <2>3, <3>1, <3>2
  <2> HIDE DEF c, s
  <2>7. \A d \in Cell : /\ current[d[1]] \in Nat /\ current'[d[1]] \in Nat
                        /\ current'[d[1]] >= current[d[1]]
    BY <1>1, <2>5 DEF Cell
  <2> QED
    BY <1>2, <2>2, <2>3, <2>4, <2>5, <2>6, <2>7
<1>4. CASE AllocateByBump(k)
  <2> DEFINE c == <<s, current[s] + 1>>
  <2>1. current[s] < Capacity /\ current' = [current EXCEPT ![s] = @ + 1]
    BY <1>4 DEF AllocateByBump
  <2>2. c \in Cell /\ c[1] = s /\ c[2] = current[s] + 1 /\ current[s] \in Nat
    BY <1>1, <2>1 DEF Cell
  <2>3. c \notin Live /\ c \notin BuildingCells
    BY <1>1, <2>2 DEF HeapInv, LiveIsAllocated, BuildingApart
  <2>4. \E m \in BOOLEAN : Construct(c, k, m)
    BY <1>4 DEF AllocateByBump
  <2>5. c[2] <= current'[c[1]]
    BY <1>1, <2>1, <2>2
  <2> HIDE DEF c, s
  <2>6. \A d \in Cell : /\ current[d[1]] \in Nat /\ current'[d[1]] \in Nat
                        /\ current'[d[1]] >= current[d[1]]
    BY <1>1, <2>1 DEF Cell
  <2> QED
    BY <1>2, <2>2, <2>3, <2>4, <2>5, <2>6
<1> QED
  BY <1>3, <1>4

\* One more create() in progress, on a cell of its own.
LEMMA ConstructBuilds ==
    ASSUME TypeOK, BuildingApart, NEW c \in Cell, NEW k \in Class, NEW m,
           Construct(c, k, m), c \notin BuildingCells, c[2] <= current'[c[1]],
           \A d \in Cell : /\ current[d[1]] \in Nat /\ current'[d[1]] \in Nat
                           /\ current'[d[1]] >= current[d[1]]
    PROVE  BuildingApart'
<1> DEFINE Entry == [cell : Cell, class : Class]
           e == [cell |-> c, class |-> k]
<1>1. /\ phase' = "mutator" /\ building' = Append(building, e)
      /\ freeMarked' = [freeMarked EXCEPT ![c] = FALSE]
      /\ class' = [class EXCEPT ![c] = NoClass]
  BY DEF Construct
<1>2. building \in Seq(Entry) /\ e \in Entry /\ e.cell = c
  BY DEF TypeOK
<1> HIDE DEF Entry, e
<1>3. /\ Len(building) \in Nat /\ DOMAIN building = 1..Len(building)
      /\ DOMAIN building' = 1..(Len(building) + 1)
      /\ \A i \in DOMAIN building : building'[i] = building[i]
      /\ building'[Len(building) + 1] = e
  BY <1>1, <1>2
<1>4. \A i \in DOMAIN building' : i \in DOMAIN building \/ i = Len(building) + 1
  BY <1>3
<1>5. \A i \in DOMAIN building : building[i].cell # c
  BY DEF BuildingCells
<1>6. \A i, j \in DOMAIN building' : building'[i].cell = building'[j].cell => i = j
  BY <1>2, <1>3, <1>4, <1>5 DEF BuildingApart
<1>7. \A d \in BuildingCells' : d \in BuildingCells \/ d = c
  BY <1>2, <1>3, <1>4 DEF BuildingCells
<1>8. ASSUME NEW d \in BuildingCells'
      PROVE  ~freeMarked'[d] /\ d[2] <= current'[d[1]] /\ class'[d] = NoClass
  <2>1. CASE d = c
    BY <1>1, <2>1 DEF TypeOK
  <2>2. CASE d # c
    <3>1. d \in BuildingCells /\ d \in Cell
      BY <1>7, <2>2, CellTypes
    <3>2. ~freeMarked[d] /\ d[2] <= current[d[1]] /\ class[d] = NoClass
      BY <3>1 DEF BuildingApart
    <3>3. d[2] <= current'[d[1]]
      BY <3>1, <3>2 DEF Cell
    <3> QED
      BY <1>1, <2>2, <3>1, <3>2, <3>3 DEF TypeOK
  <2> QED
    BY <2>1, <2>2
<1> QED
  BY <1>1, <1>6, <1>8 DEF BuildingApart

\* Handing out a cell that holds no object changes no object.
LEMMA ConstructKeeps ==
    ASSUME TypeOK, HeapInv, NEW c \in Cell, NEW k \in Class, NEW m,
           Construct(c, k, m), c \notin Live, c \notin BuildingCells,
           phase \in {"mutator", "retry"},
           c[2] <= current'[c[1]],
           \A d \in Cell : /\ current[d[1]] \in Nat /\ current'[d[1]] \in Nat
                           /\ current'[d[1]] >= current[d[1]]
    PROVE  HeapInv'
<1>1. /\ phase' = "mutator"
      /\ UNCHANGED <<roots, slots, handles, scan, gray, unswept>>
      /\ freeMarked' = [freeMarked EXCEPT ![c] = FALSE]
      /\ class' = [class EXCEPT ![c] = NoClass]
      /\ fields' = [fields EXCEPT ![c] = {}]
  BY DEF Construct, mutatorVars
<1>2. Live' = Live
  BY <1>1 DEF Live, TypeOK
<1>3. Held' = Held
  BY <1>1 DEF PreciseRoots, RangeOf, HandleCells
<1>4. BuildingApart'
  BY ConstructBuilds DEF HeapInv
<1>5. LiveIsAllocated' /\ FreedIsBlank'
  <2>1. LiveIsAllocated'
    BY <1>2 DEF HeapInv, LiveIsAllocated, Live, Cell
  <2>2. FreedIsBlank'
    BY <1>1 DEF HeapInv, FreedIsBlank, TypeOK
  <2> QED
    BY <2>1, <2>2
<1>6. ReferencesSurvive'
  BY <1>1, <1>2, <1>3 DEF HeapInv, ReferencesSurvive, TypeOK
<1>7. FlagsAreCurrent'
  BY <1>1 DEF FlagsAreCurrent
<1>8. WorklistCoversFields' /\ RootsAreFlagged' /\ NotCrashed'
  BY <1>1, <1>3
  DEF HeapInv, WorklistCoversFields, RootsAreFlagged, NotCrashed, Marking
<1> QED
  BY <1>4, <1>5, <1>6, <1>7, <1>8 DEF HeapInv

\* FinishCreate is where an object comes into being: the cell of the create()
\* that began last.
LEMMA FinishCreateEffect ==
    ASSUME TypeOK, BuildingApart, NEW S \in SUBSET HandleCells, FinishCreate(S)
    PROVE  \E c \in BuildingCells :
              /\ c \in Cell /\ c \notin Live /\ Live' = Live \union {c}
              /\ fields' = [fields EXCEPT ![c] = S]
              /\ \A d \in Cell : d # c => class'[d] = class[d]
              /\ Held' = Held \union {c}
              /\ BuildingCells' \subseteq BuildingCells \ {c}
              /\ \A i, j \in DOMAIN building' :
                    building'[i].cell = building'[j].cell => i = j
<1> USE ConstantsAssumption
<1> DEFINE Entry == [cell : Cell, class : Class]
           top == building[Len(building)]
           c == top.cell
<1>1. /\ building # <<>>
      /\ fields' = [fields EXCEPT ![c] = S]
      /\ class' = [class EXCEPT ![c] = top.class]
      /\ handles' = handles \union {<<c, top.class>>}
      /\ building' = SubSeq(building, 1, Len(building) - 1)
      /\ UNCHANGED <<freeMarked, roots, slots>>
  BY DEF FinishCreate, allocatorVars
<1>2. building \in Seq(Entry)
  BY DEF TypeOK
<1>3. Len(building) \in DOMAIN building
  BY <1>1, <1>2, LastIndex
<1>4. top \in Entry
  BY <1>2, <1>3, ElementType
<1>5. c \in Cell /\ top.class \in Class /\ c \in BuildingCells
  BY <1>3, <1>4 DEF BuildingCells
<1> HIDE DEF Entry
<1>6. \A i \in DOMAIN building' :
         building'[i] = building[i] /\ i \in DOMAIN building /\ i # Len(building)
  BY <1>1, <1>2, FrontOf
<1>7. \A i, j \in DOMAIN building : building[i].cell = building[j].cell => i = j
  BY DEF BuildingApart
<1>8. BuildingCells' \subseteq BuildingCells \ {c}
  BY <1>3, <1>6, <1>7 DEF BuildingCells
<1>9. \A i, j \in DOMAIN building' : building'[i].cell = building'[j].cell => i = j
  BY <1>6, <1>7
<1> HIDE DEF top, c
<1>10. ~freeMarked[c] /\ class[c] = NoClass
  BY <1>5 DEF BuildingApart
<1>11. \A d \in Cell : class'[d] = IF d = c THEN top.class ELSE class[d]
  BY <1>1 DEF TypeOK
<1>12. c \notin Live /\ Live' = Live \union {c}
  BY <1>1, <1>5, <1>10, <1>11 DEF Live
<1>13. HandleCells' = HandleCells \union {c}
  <2>1. <<c, top.class>>[1] = c
    OBVIOUS
  <2> QED
    BY <1>1, <2>1 DEF HandleCells
<1>14. Held' = Held \union {c}
  BY <1>1, <1>13 DEF PreciseRoots, RangeOf
<1> QED
  BY <1>1, <1>5, <1>8, <1>9, <1>11, <1>12, <1>14

LEMMA FinishCreateHeapInv ==
    ASSUME TypeOK, HeapInv, NEW S \in SUBSET HandleCells, FinishCreate(S)
    PROVE  HeapInv'
<1>1. /\ phase = "mutator" /\ phase' = "mutator"
      /\ UNCHANGED <<current, freeMarked, scan, gray>>
  BY DEF FinishCreate, allocatorVars, collectVars
<1>2. PICK c \in BuildingCells :
         /\ c \in Cell /\ c \notin Live /\ Live' = Live \union {c}
         /\ fields' = [fields EXCEPT ![c] = S]
         /\ \A d \in Cell : d # c => class'[d] = class[d]
         /\ Held' = Held \union {c}
         /\ BuildingCells' \subseteq BuildingCells \ {c}
         /\ \A i, j \in DOMAIN building' :
               building'[i].cell = building'[j].cell => i = j
  BY FinishCreateEffect DEF HeapInv
<1>3. /\ \A d \in BuildingCells : /\ ~freeMarked[d] /\ d[2] <= current[d[1]]
                                  /\ class[d] = NoClass /\ d \in Cell
  BY CellTypes DEF HeapInv, BuildingApart
<1>4. BuildingApart'
  BY <1>1, <1>2, <1>3 DEF BuildingApart
<1>5. LiveIsAllocated' /\ FreedIsBlank'
  BY <1>1, <1>2, <1>3 DEF HeapInv, LiveIsAllocated, FreedIsBlank
<1>6. ReferencesSurvive'
  <2>1. Held \subseteq Live /\ \A d \in Live : fields[d] \subseteq Live
    BY <1>1 DEF HeapInv, ReferencesSurvive
  <2>2. S \subseteq Live
    BY <2>1
  <2>3. \A d \in Cell : fields'[d] = IF d = c THEN S ELSE fields[d]
    BY <1>2 DEF TypeOK
  <2>4. \A d \in Live' : fields'[d] \subseteq Live'
    BY <1>2, <2>1, <2>2, <2>3 DEF Live
  <2> QED
    BY <1>1, <1>2, <2>1, <2>4 DEF ReferencesSurvive
<1>7. FlagsAreCurrent'
  BY <1>1 DEF FlagsAreCurrent
<1>8. WorklistCoversFields' /\ RootsAreFlagged' /\ NotCrashed'
  BY <1>1, <1>2
  DEF HeapInv, WorklistCoversFields, RootsAreFlagged, NotCrashed, Marking
<1> QED
  BY <1>4, <1>5, <1>6, <1>7, <1>8 DEF HeapInv

\* The one place where the invariant needs the collector at home.
LEMMA StartCollectionHeapInv ==
    ASSUME TypeOK, HeapInv, NEW k \in Class, StartCollection(k), ~disturbed'
    PROVE  HeapInv' /\ \A c \in Cell : ~marked'[c]
<1>1. /\ phase = "mutator" /\ phase' = "roots" /\ building = <<>>
      /\ scan' = RangeOf(roots) /\ \A c \in Cell : ~marked[c]
      /\ UNCHANGED <<current, freeMarked, marked, class, fields, roots, slots,
                     handles, building, gray, unswept>>
  BY DEF StartCollection, CollectorAtHome, MayCreate, allocatorVars, mutatorVars
<1>2. BuildingApart' /\ FreedIsBlank' /\ LiveIsAllocated' /\ ReferencesSurvive'
  BY <1>1, MarkingFrame
<1>3. FlagsAreCurrent'
  BY <1>1 DEF FlagsAreCurrent
<1>4. WorklistCoversFields'
  BY <1>1 DEF HeapInv, WorklistCoversFields, Marking, Live
<1>5. RootsAreFlagged' /\ NotCrashed'
  BY <1>1
  DEF HeapInv, RootsAreFlagged, NotCrashed, Marking, PreciseRoots, RangeOf,
      HandleCells
<1> QED
  BY <1>1, <1>2, <1>3, <1>4, <1>5 DEF HeapInv

LEMMA AllocationHeapInv ==
    ASSUME TypeOK, FreeListsSound, HeapInv, Allocation, ~disturbed'
    PROVE  HeapInv'
<1>1. ASSUME NEW k \in Class, AllocateFromFreeList(k) \/ AllocateByBump(k)
      PROVE  HeapInv'
  BY <1>1, HandedOutIsBlank, ConstructKeeps
<1>2. CASE OutOfMemory
  <2>1. /\ phase = "retry" /\ phase' = "oom"
        /\ UNCHANGED <<current, freeMarked, marked, class, fields, roots, slots,
                       handles, building, scan, gray, unswept>>
    BY <1>2 DEF OutOfMemory, allocatorVars, mutatorVars, collectVars
  <2>2. \A d \in Cell : ~marked[d]
    BY <2>1 DEF HeapInv, FlagsAreCurrent, Marking
  <2>3. building' = <<>>
    BY <2>1 DEF HeapInv, BuildingApart
  <2>4. BuildingApart' /\ FreedIsBlank' /\ LiveIsAllocated' /\ ReferencesSurvive'
    BY <2>1, <2>3, MarkingFrame
  <2>5. FlagsAreCurrent'
    BY <2>1, <2>2 DEF FlagsAreCurrent
  <2>6. WorklistCoversFields' /\ RootsAreFlagged' /\ NotCrashed'
    BY <2>1
    DEF HeapInv, WorklistCoversFields, RootsAreFlagged, NotCrashed, Marking,
        PreciseRoots, RangeOf, HandleCells
  <2> QED
    BY <2>4, <2>5, <2>6 DEF HeapInv
<1> QED
  BY <1>1, <1>2, StartCollectionHeapInv, FinishCreateHeapInv DEF Allocation

-----------------------------------------------------------------------------
(* Mutation *)

\* A step of the mutator may hold, store and root anything it holds already or
\* can read from an object it holds: all of it is live.
LEMMA MutatorKeeps ==
    ASSUME TypeOK, HeapInv, MutatorStep, Held' \subseteq Live,
           \A c \in Live : fields'[c] \subseteq Live
    PROVE  HeapInv'
<1>1. /\ phase = "mutator" /\ phase' = "mutator" /\ building = <<>>
      /\ UNCHANGED <<current, freeMarked, marked, class, building, scan, gray>>
  BY DEF MutatorStep, allocatorVars, collectVars
<1>2. Live' = Live
  BY <1>1 DEF Live
<1>3. BuildingApart'
  BY <1>1 DEF HeapInv, BuildingApart, BuildingCells
<1>4. FreedIsBlank' /\ LiveIsAllocated' /\ ReferencesSurvive'
  BY <1>1, <1>2 DEF HeapInv, FreedIsBlank, LiveIsAllocated, ReferencesSurvive
<1>5. FlagsAreCurrent'
  BY <1>1 DEF FlagsAreCurrent
<1>6. WorklistCoversFields'
  BY <1>1 DEF HeapInv, WorklistCoversFields, Marking
<1>7. RootsAreFlagged' /\ NotCrashed'
  BY <1>1 DEF HeapInv, RootsAreFlagged, NotCrashed, Marking
<1> QED
  BY <1>3, <1>4, <1>5, <1>6, <1>7 DEF HeapInv

LEMMA MutationHeapInv ==
    ASSUME TypeOK, HeapInv, Mutation
    PROVE  HeapInv'
<1>1. MutatorStep
  BY DEF Mutation, DropHandle, AddRoot, SetField, ClearField, GetField, SetSlot,
         ClearSlot, GetSlot, RemoveRoot
<1>2. Held \subseteq Live /\ \A c \in Live : fields[c] \subseteq Live
  BY <1>1 DEF MutatorStep, HeapInv, ReferencesSurvive
<1>3. \A h \in handles : h[1] \in HandleCells /\ h[1] \in Live /\ h[1] \in Cell
  BY <1>2 DEF HandleCells, Live
<1> DEFINE StillHeld == /\ HandleCells' \subseteq Live
                        /\ RangeOf(roots)' \subseteq Live
                        /\ slots'["vm"] \subseteq Live
                        /\ slots'["stack"] \subseteq Live
           StillClosed == \A c \in Live : fields'[c] \subseteq Live
<1>4. SUFFICES StillHeld /\ StillClosed
  BY <1>1, MutatorKeeps DEF PreciseRoots
<1>5. /\ HandleCells \subseteq Live /\ RangeOf(roots) \subseteq Live
      /\ slots["vm"] \subseteq Live /\ slots["stack"] \subseteq Live
  BY <1>2 DEF PreciseRoots
<1>6. ASSUME NEW c \in Live, Acquire(c) PROVE HandleCells' \subseteq Live
  BY <1>5, <1>6 DEF Acquire, HandleCells
<1>7. fields' = fields => StillClosed
  BY <1>2
<1>8. roots' = roots => RangeOf(roots)' \subseteq Live
  BY <1>5 DEF RangeOf
<1>9. handles' = handles => HandleCells' \subseteq Live
  BY <1>5 DEF HandleCells
<1>10. slots' = slots =>
          slots'["vm"] \subseteq Live /\ slots'["stack"] \subseteq Live
  BY <1>5
<1>11. ASSUME NEW h \in handles, DropHandle(h) PROVE StillHeld /\ StillClosed
  <2>1. HandleCells' \subseteq Live
    BY <1>5, <1>11 DEF DropHandle, HandleCells
  <2> QED
    BY <1>7, <1>8, <1>10, <1>11, <2>1 DEF DropHandle
<1>12. ASSUME NEW h \in handles, AddRoot(h) PROVE StillHeld /\ StillClosed
  <2>1. RangeOf(roots') \subseteq RangeOf(roots) \union {h[1]}
    <3>1. /\ roots \in Seq(Cell) /\ h[1] \in Cell
          /\ roots' = Append(roots, h[1])
      BY <1>3, <1>12 DEF AddRoot, TypeOK
    <3> QED
      BY <3>1 DEF RangeOf
  <2>2. RangeOf(roots)' \subseteq Live
    BY <1>3, <1>5, <2>1 DEF RangeOf
  <2> QED
    BY <1>7, <1>9, <1>10, <1>12, <2>2 DEF AddRoot
<1>13. ASSUME NEW h \in handles, NEW d \in Cell, SetField(h, d)
       PROVE  StillHeld /\ StillClosed
  <2>1. d \in Live /\ fields' = [fields EXCEPT ![h[1]] = @ \union {d}]
    BY <1>5, <1>13 DEF SetField
  <2>2. StillClosed
    BY <1>2, <1>3, <2>1 DEF TypeOK, Live
  <2> QED
    BY <1>8, <1>9, <1>10, <1>13, <2>2 DEF SetField, mutatorVars
<1>14. ASSUME NEW h \in handles, NEW d \in Cell, ClearField(h, d)
       PROVE  StillHeld /\ StillClosed
  <2>1. StillClosed
    BY <1>2, <1>3, <1>14 DEF ClearField, TypeOK, Live
  <2> QED
    BY <1>8, <1>9, <1>10, <1>14, <2>1 DEF ClearField, mutatorVars
<1>15. ASSUME NEW h \in handles, NEW d \in Cell, GetField(h, d)
       PROVE  StillHeld /\ StillClosed
  <2>1. d \in Live
    BY <1>2, <1>3, <1>15 DEF GetField
  <2> QED
    BY <1>6, <1>7, <1>8, <1>10, <1>15, <2>1 DEF GetField
<1>16. ASSUME NEW h \in handles, NEW p \in Place, SetSlot(p, h)
       PROVE  StillHeld /\ StillClosed
  <2>1. slots'["vm"] \subseteq Live /\ slots'["stack"] \subseteq Live
    <3>1. slots' = [slots EXCEPT ![p] = @ \union {h[1]}] /\ h[1] \in Live
      BY <1>3, <1>16 DEF SetSlot
    <3> QED
      BY <1>5, <3>1 DEF TypeOK, Place
  <2> QED
    BY <1>7, <1>8, <1>9, <1>16, <2>1 DEF SetSlot
<1>17. ASSUME NEW p \in Place, NEW c \in Cell, ClearSlot(p, c)
       PROVE  StillHeld /\ StillClosed
  <2>1. slots'["vm"] \subseteq Live /\ slots'["stack"] \subseteq Live
    BY <1>5, <1>17 DEF ClearSlot, TypeOK, Place
  <2> QED
    BY <1>7, <1>8, <1>9, <1>17, <2>1 DEF ClearSlot
<1>18. ASSUME NEW p \in Place, NEW c \in Cell, GetSlot(p, c)
       PROVE  StillHeld /\ StillClosed
  <2>1. c \in Live
    BY <1>5, <1>18 DEF GetSlot, Place
  <2> QED
    BY <1>6, <1>7, <1>8, <1>10, <1>18, <2>1 DEF GetSlot
<1>19. ASSUME NEW i \in DOMAIN roots, RemoveRoot(i) PROVE StillHeld /\ StillClosed
  <2>1. RangeOf(roots') \subseteq RangeOf(roots)
    <3>1. /\ roots' = [j \in 1..(Len(roots) - 1) |->
                          IF j < i THEN roots[j] ELSE roots[j + 1]]
          /\ Len(roots) \in Nat /\ DOMAIN roots = 1..Len(roots)
      BY <1>19 DEF RemoveRoot, TypeOK
    <3>2. ASSUME NEW j \in DOMAIN roots' PROVE roots'[j] \in RangeOf(roots)
      <4>1. j \in 1..(Len(roots) - 1) /\ j \in 1..Len(roots) /\ j + 1 \in 1..Len(roots)
        BY <3>1
      <4> QED
        BY <3>1, <4>1 DEF RangeOf
    <3> QED
      BY <3>2 DEF RangeOf
  <2>2. RangeOf(roots)' \subseteq Live
    BY <1>5, <2>1 DEF RangeOf
  <2> QED
    BY <1>7, <1>9, <1>10, <1>19, <2>2 DEF RemoveRoot
<1> QED
  BY <1>11, <1>12, <1>13, <1>14, <1>15, <1>16, <1>17, <1>18, <1>19
  DEF Mutation

-----------------------------------------------------------------------------
(* Collection *)

\* Flagging some live cells and queueing the new ones keeps the invariant.
LEMMA VisitKeeps ==
    ASSUME TypeOK, HeapInv, Marking, NEW S \in SUBSET Live, VisitCells(S)
    PROVE  /\ \A c \in Cell : marked'[c] <=> marked[c] \/ c \in S
           /\ \A c \in Cell : marked'[c] => c \in Live
           /\ \A c \in gray' : marked'[c]
           /\ fields' = fields =>
                 \A c \in Live : marked'[c] /\ c \notin gray'
                    => \A d \in fields[c] : marked'[d]
<1>1. /\ marked' = [c \in Cell |-> marked[c] \/ c \in {x \in S : ~marked[x]}]
      /\ gray' = gray \union {x \in S : ~marked[x]}
  BY DEF VisitCells
<1>2. \A c \in Cell : marked'[c] <=> marked[c] \/ c \in S
  BY <1>1
<1>3. /\ \A c \in Cell : marked[c] => c \in Live
      /\ \A c \in gray : marked[c]
      /\ \A c \in Live : marked[c] /\ c \notin gray => \A d \in fields[c] : marked[d]
      /\ \A c \in Live : c \in Cell /\ fields[c] \subseteq Cell
  BY DEF HeapInv, FlagsAreCurrent, WorklistCoversFields, Marking, Live, TypeOK
<1>4. \A c \in gray' : c \in Cell /\ marked'[c]
  BY <1>1, <1>2, <1>3 DEF TypeOK
<1>5. ASSUME NEW c \in Live, marked'[c], c \notin gray', NEW d \in fields[c]
      PROVE  marked'[d]
  <2>1. marked[c] /\ c \notin gray
    BY <1>1, <1>2, <1>3, <1>5
  <2> QED
    BY <1>2, <1>3, <2>1
<1> QED
  BY <1>2, <1>3, <1>4, <1>5

\* What every step of marking has in common.
LEMMA MarkingKeeps ==
    ASSUME TypeOK, HeapInv, Marking, phase' # "sweep", CollectorStep,
           UNCHANGED <<freeList, freeMarked, class, fields, unswept>>
    PROVE  /\ BuildingApart' /\ FreedIsBlank' /\ LiveIsAllocated' /\ ReferencesSurvive'
           /\ Live' = Live /\ Held' = Held
           /\ HandleCells' = HandleCells /\ RangeOf(roots)' = RangeOf(roots)
           /\ slots' = slots
           /\ Held \subseteq Live /\ \A c \in Live : fields[c] \subseteq Live
<1>1. building' = <<>>
  BY DEF CollectorStep, HeapInv, BuildingApart, Marking
<1>2. phase # "sweep"
  BY DEF Marking
<1>3. BuildingApart' /\ FreedIsBlank' /\ LiveIsAllocated' /\ ReferencesSurvive'
  BY <1>1, <1>2, MarkingFrame DEF CollectorStep
<1>4. /\ Live' = Live /\ Held' = Held /\ slots' = slots
      /\ HandleCells' = HandleCells /\ RangeOf(roots)' = RangeOf(roots)
  BY DEF CollectorStep, Live, PreciseRoots, RangeOf, HandleCells
<1>5. Held \subseteq Live /\ \A c \in Live : fields[c] \subseteq Live
  BY <1>2 DEF HeapInv, ReferencesSurvive
<1> QED
  BY <1>3, <1>4, <1>5

\* Flags only grow while marking, so roots that are flagged stay flagged.
LEMMA MarkOneHeapInv ==
    ASSUME TypeOK, HeapInv, NEW c \in Cell, MarkOne(c)
    PROVE  HeapInv'
<1>1. Marking /\ c \in gray /\ CollectorStep
  BY DEF MarkOne, Marking
<1>2. c \in Live /\ ~freeMarked[c] /\ marked[c]
  BY <1>1 DEF HeapInv, WorklistCoversFields, FlagsAreCurrent, Marking, Live
<1>3. /\ phase' = phase
      /\ marked' = [d \in Cell |-> marked[d] \/ d \in {x \in fields[c] : ~marked[x]}]
      /\ gray' = (gray \ {c}) \union {x \in fields[c] : ~marked[x]}
      /\ UNCHANGED <<freeList, freeMarked, class, fields, scan, unswept>>
  BY <1>2 DEF MarkOne
<1>4. phase' # "sweep"
  BY <1>1, <1>3 DEF Marking
<1>5. /\ BuildingApart' /\ FreedIsBlank' /\ LiveIsAllocated' /\ ReferencesSurvive'
      /\ Live' = Live /\ Held' = Held
      /\ HandleCells' = HandleCells /\ RangeOf(roots)' = RangeOf(roots)
      /\ slots' = slots
      /\ Held \subseteq Live /\ \A d \in Live : fields[d] \subseteq Live
  BY <1>1, <1>3, <1>4, MarkingKeeps
<1>6. \A d \in Cell : marked'[d] <=> marked[d] \/ d \in fields[c]
  BY <1>3
<1>7. /\ \A d \in Cell : marked[d] => d \in Live
      /\ \A d \in gray : marked[d] /\ d \in Cell
      /\ \A d \in Live : marked[d] /\ d \notin gray => \A e \in fields[d] : marked[e]
      /\ \A d \in Live : d \in Cell /\ fields[d] \subseteq Cell
  BY <1>1
  DEF HeapInv, FlagsAreCurrent, WorklistCoversFields, Marking, Live, TypeOK
<1>8. FlagsAreCurrent'
  BY <1>1, <1>2, <1>3, <1>5, <1>6, <1>7 DEF FlagsAreCurrent, Marking
<1>9. \A d \in gray' : marked'[d]
  BY <1>2, <1>3, <1>6, <1>7
<1>10. ASSUME NEW d \in Live, marked'[d], d \notin gray', NEW e \in fields[d]
       PROVE  marked'[e]
  <2>1. CASE d = c
    BY <1>6, <1>7, <2>1
  <2>2. CASE d # c
    <3>1. marked[d] /\ d \notin gray
      BY <1>3, <1>6, <1>7, <1>10, <2>2
    <3> QED
      BY <1>6, <1>7, <3>1
  <2> QED
    BY <2>1, <2>2
<1>11. WorklistCoversFields'
  BY <1>1, <1>3, <1>5, <1>9, <1>10 DEF WorklistCoversFields, Marking
<1>12. \A d \in Cell : marked[d] => marked'[d]
  BY <1>6
<1>13. RootsAreFlagged'
  BY <1>3, <1>5, <1>12, CellTypes
  DEF HeapInv, RootsAreFlagged, Marking
<1>14. NotCrashed'
  BY <1>3 DEF HeapInv, NotCrashed
<1> QED
  BY <1>5, <1>8, <1>11, <1>13, <1>14 DEF HeapInv

LEMMA MarkRootHeapInv ==
    ASSUME TypeOK, HeapInv, NEW c \in Cell, MarkRoot(c)
    PROVE  HeapInv'
<1>1. /\ Marking /\ CollectorStep /\ phase \in {"roots", "stack"} /\ phase' = phase
      /\ c \in scan /\ scan' = scan \ {c} /\ VisitCells({c})
      /\ UNCHANGED <<freeList, freeMarked, class, fields, unswept>>
  BY DEF MarkRoot, Marking
<1>2. /\ BuildingApart' /\ FreedIsBlank' /\ LiveIsAllocated' /\ ReferencesSurvive'
      /\ Live' = Live /\ Held' = Held
      /\ HandleCells' = HandleCells /\ RangeOf(roots)' = RangeOf(roots)
      /\ slots' = slots
      /\ Held \subseteq Live /\ \A d \in Live : fields[d] \subseteq Live
  BY <1>1, MarkingKeeps DEF Marking
<1>3. {c} \in SUBSET Live
  BY <1>1, <1>2 DEF HeapInv, RootsAreFlagged
<1>4. /\ \A d \in Cell : marked'[d] <=> marked[d] \/ d \in {c}
      /\ \A d \in Cell : marked'[d] => d \in Live
      /\ \A d \in gray' : marked'[d]
      /\ \A d \in Live : marked'[d] /\ d \notin gray'
            => \A e \in fields[d] : marked'[e]
  BY <1>1, <1>3, VisitKeeps
<1>5. FlagsAreCurrent'
  BY <1>1, <1>2, <1>4 DEF FlagsAreCurrent, Marking
<1>6. WorklistCoversFields'
  BY <1>1, <1>2, <1>4 DEF WorklistCoversFields, Marking
<1>7. RootsAreFlagged'
  BY <1>1, <1>2, <1>4, CellTypes DEF HeapInv, RootsAreFlagged, Marking
<1>8. NotCrashed'
  BY <1>1 DEF HeapInv, NotCrashed
<1> QED
  BY <1>2, <1>5, <1>6, <1>7, <1>8 DEF HeapInv

LEMMA VisitVMHeapInv == ASSUME TypeOK, HeapInv, VisitVM PROVE HeapInv'
<1>1. /\ Marking /\ CollectorStep /\ phase = "vm" /\ phase' = "native"
      /\ VisitCells(slots["vm"])
      /\ UNCHANGED <<freeList, freeMarked, class, fields, scan, unswept>>
  BY DEF VisitVM, Marking
<1>2. /\ BuildingApart' /\ FreedIsBlank' /\ LiveIsAllocated' /\ ReferencesSurvive'
      /\ Live' = Live /\ Held' = Held
      /\ HandleCells' = HandleCells /\ RangeOf(roots)' = RangeOf(roots)
      /\ slots' = slots
      /\ Held \subseteq Live /\ \A d \in Live : fields[d] \subseteq Live
  BY <1>1, MarkingKeeps DEF Marking
<1>3. slots["vm"] \in SUBSET Live
  BY <1>2 DEF PreciseRoots
<1>4. /\ \A d \in Cell : marked'[d] <=> marked[d] \/ d \in slots["vm"]
      /\ \A d \in Cell : marked'[d] => d \in Live
      /\ \A d \in gray' : marked'[d]
      /\ \A d \in Live : marked'[d] /\ d \notin gray'
            => \A e \in fields[d] : marked'[e]
  BY <1>1, <1>3, VisitKeeps
<1>5. FlagsAreCurrent'
  BY <1>1, <1>2, <1>4 DEF FlagsAreCurrent, Marking
<1>6. WorklistCoversFields'
  BY <1>1, <1>2, <1>4 DEF WorklistCoversFields, Marking
<1>7. RootsAreFlagged'
  BY <1>1, <1>2, <1>4, CellTypes DEF HeapInv, RootsAreFlagged, Marking
<1>8. NotCrashed'
  BY <1>1 DEF NotCrashed
<1> QED
  BY <1>2, <1>5, <1>6, <1>7, <1>8 DEF HeapInv

LEMMA VisitNativeStackHeapInv ==
    ASSUME TypeOK, HeapInv, VisitNativeStack PROVE HeapInv'
<1> DEFINE S == {c \in NativeWords : class[c] # NoClass}
<1>1. /\ Marking /\ CollectorStep /\ phase = "native" /\ phase' = "drain"
      /\ VisitCells(S)
      /\ UNCHANGED <<freeList, freeMarked, class, fields, scan, unswept>>
  BY DEF VisitNativeStack, Marking
<1>2. /\ BuildingApart' /\ FreedIsBlank' /\ LiveIsAllocated' /\ ReferencesSurvive'
      /\ Live' = Live /\ Held' = Held
      /\ HandleCells' = HandleCells /\ RangeOf(roots)' = RangeOf(roots)
      /\ slots' = slots
      /\ Held \subseteq Live /\ \A d \in Live : fields[d] \subseteq Live
  BY <1>1, MarkingKeeps DEF Marking
<1>3. HandleCells \subseteq S
  BY <1>2 DEF NativeWords, Live
<1>4. S \in SUBSET Live
  BY CellTypes DEF NativeWords, TypeOK, Live, HeapInv, FreedIsBlank
<1> HIDE DEF S
<1>5. /\ \A d \in Cell : marked'[d] <=> marked[d] \/ d \in S
      /\ \A d \in Cell : marked'[d] => d \in Live
      /\ \A d \in gray' : marked'[d]
      /\ \A d \in Live : marked'[d] /\ d \notin gray'
            => \A e \in fields[d] : marked'[e]
  BY <1>1, <1>4, VisitKeeps
<1>6. FlagsAreCurrent'
  BY <1>1, <1>2, <1>5 DEF FlagsAreCurrent, Marking
<1>7. WorklistCoversFields'
  BY <1>1, <1>2, <1>5 DEF WorklistCoversFields, Marking
<1>8. RootsAreFlagged'
  BY <1>1, <1>2, <1>3, <1>5, CellTypes DEF HeapInv, RootsAreFlagged, Marking
<1>9. NotCrashed'
  BY <1>1 DEF NotCrashed
<1> QED
  BY <1>2, <1>6, <1>7, <1>8, <1>9 DEF HeapInv

\* Moving on to the next phase of marking changes no flag.
LEMMA PhaseHeapInv ==
    ASSUME TypeOK, HeapInv, RootsDone \/ DrainDone PROVE HeapInv'
<1>1. /\ Marking /\ CollectorStep /\ phase' \in {"vm", "stack"}
      /\ gray = {}
      /\ phase' = "vm" => phase = "roots" /\ scan = {} /\ scan' = scan
      /\ phase' = "stack" => phase = "drain" /\ scan' = slots["stack"]
      /\ UNCHANGED <<freeList, freeMarked, marked, class, fields, gray, unswept>>
  BY DEF RootsDone, DrainDone, Marking
<1>2. /\ BuildingApart' /\ FreedIsBlank' /\ LiveIsAllocated' /\ ReferencesSurvive'
      /\ Live' = Live /\ Held' = Held
      /\ HandleCells' = HandleCells /\ RangeOf(roots)' = RangeOf(roots)
      /\ slots' = slots
      /\ Held \subseteq Live /\ \A d \in Live : fields[d] \subseteq Live
  BY <1>1, MarkingKeeps DEF Marking
<1>3. FlagsAreCurrent'
  BY <1>1, <1>2 DEF HeapInv, FlagsAreCurrent, Marking
<1>4. WorklistCoversFields'
  BY <1>1, <1>2 DEF HeapInv, WorklistCoversFields, Marking
<1>5. RootsAreFlagged'
  BY <1>1, <1>2 DEF HeapInv, RootsAreFlagged, Marking, PreciseRoots
<1>6. NotCrashed'
  BY <1>1 DEF NotCrashed
<1> QED
  BY <1>2, <1>3, <1>4, <1>5, <1>6 DEF HeapInv

\* When marking ends, the flagged cells are the survivors: they hold every
\* root and are closed under fields.
LEMMA MarkingDoneHeapInv == ASSUME TypeOK, HeapInv, MarkingDone PROVE HeapInv'
<1>1. /\ Marking /\ CollectorStep /\ phase = "stack" /\ phase' = "sweep"
      /\ gray = {} /\ scan = {}
      /\ unswept' = {c \in Cell : c[2] <= current[c[1]]}
      /\ UNCHANGED <<freeList, freeMarked, marked, class, fields, scan, gray>>
  BY DEF MarkingDone, Marking
<1>2. /\ Live' = Live /\ Held' = Held /\ slots' = slots
      /\ HandleCells' = HandleCells /\ RangeOf(roots)' = RangeOf(roots)
      /\ BuildingCells' = BuildingCells
  BY <1>1 DEF CollectorStep, Live, PreciseRoots, RangeOf, HandleCells, BuildingCells
<1>3. \A c \in Live : c \in unswept'
  BY <1>1 DEF HeapInv, LiveIsAllocated, Live
<1>4. Survivors' = {c \in Live : marked[c]}
  BY <1>1, <1>2, <1>3 DEF Survivors
<1>5. Held \subseteq Live /\ \A d \in Live : fields[d] \subseteq Live
  BY <1>1 DEF HeapInv, ReferencesSurvive
<1>6. \A c \in Held : marked[c]
  BY <1>1 DEF HeapInv, RootsAreFlagged, PreciseRoots, Marking
<1>7. \A c \in Live : marked[c] => \A d \in fields[c] : marked[d]
  BY <1>1 DEF HeapInv, WorklistCoversFields
<1>8. ReferencesSurvive'
  <2>1. Held' \subseteq Survivors'
    BY <1>2, <1>4, <1>5, <1>6
  <2>2. \A c \in Survivors' : fields'[c] \subseteq Survivors'
    BY <1>1, <1>4, <1>5, <1>7
  <2> QED
    BY <1>1, <2>1, <2>2 DEF ReferencesSurvive
<1>9. BuildingApart' /\ FreedIsBlank' /\ LiveIsAllocated'
  BY <1>1, <1>2
  DEF HeapInv, BuildingApart, FreedIsBlank, LiveIsAllocated, CollectorStep
<1>10. FlagsAreCurrent'
  BY <1>1, <1>2, <1>3 DEF HeapInv, FlagsAreCurrent
<1>11. WorklistCoversFields' /\ RootsAreFlagged' /\ NotCrashed'
  BY <1>1, <1>2
  DEF HeapInv, WorklistCoversFields, RootsAreFlagged, NotCrashed, Marking
<1> QED
  BY <1>8, <1>9, <1>10, <1>11 DEF HeapInv

\* A step of the sweep keeps the survivors as they are.
LEMMA SweepKeeps ==
    ASSUME TypeOK, HeapInv, phase = "sweep", phase' = "sweep", CollectorStep,
           NEW c \in Cell, c \in unswept, unswept' = unswept \ {c},
           UNCHANGED <<scan, gray>>,
           Survivors' = Survivors, Live' \subseteq Live,
           FreedIsBlank',
           \A d \in Survivors : fields'[d] = fields[d],
           \A d \in Cell : freeMarked'[d] => freeMarked[d] \/ d \notin Survivors,
           \A d \in Cell : marked'[d] => marked[d] /\ d # c /\ d \in Live'
    PROVE  HeapInv'
<1>1. /\ building = <<>> /\ building' = <<>> /\ current' = current
      /\ Held' = Held
  BY DEF CollectorStep, HeapInv, BuildingApart, PreciseRoots, RangeOf, HandleCells
<1>2. BuildingApart' /\ LiveIsAllocated'
  BY <1>1 DEF HeapInv, BuildingApart, BuildingCells, LiveIsAllocated
<1>3. ReferencesSurvive'
  BY <1>1 DEF HeapInv, ReferencesSurvive
<1>4. FlagsAreCurrent'
  BY DEF HeapInv, FlagsAreCurrent, Marking
<1>5. WorklistCoversFields' /\ RootsAreFlagged' /\ NotCrashed'
  BY <1>1 DEF HeapInv, WorklistCoversFields, RootsAreFlagged, NotCrashed, Marking
<1> QED
  BY <1>2, <1>3, <1>4, <1>5 DEF HeapInv

LEMMA SweepHeapInv ==
    ASSUME TypeOK, HeapInv, NEW c \in Cell,
           SweepFreeCell(c) \/ SweepMarkedCell(c) \/ SweepDeadCell(c)
    PROVE  HeapInv'
<1>1. /\ phase = "sweep" /\ phase' = "sweep" /\ CollectorStep
      /\ c \in unswept /\ unswept' = unswept \ {c}
      /\ UNCHANGED <<scan, gray>>
  BY DEF SweepFreeCell, SweepMarkedCell, SweepDeadCell, SweepNext
<1>2. \A d \in Cell : marked[d] => d \in Live
  BY <1>1 DEF HeapInv, FlagsAreCurrent
<1>3. CASE SweepFreeCell(c)
  <2>1. /\ freeMarked[c] /\ c \notin Live
        /\ UNCHANGED <<freeMarked, marked, class, fields>>
    BY <1>3 DEF SweepFreeCell, Live
  <2>2. Live' = Live /\ Survivors' = Survivors
    BY <1>1, <2>1 DEF Live, Survivors
  <2>3. FreedIsBlank'
    BY <2>1 DEF HeapInv, FreedIsBlank
  <2> QED
    BY <1>1, <1>2, <2>1, <2>2, <2>3, SweepKeeps
<1>4. CASE SweepMarkedCell(c)
  <2>1. /\ marked[c] /\ marked' = [marked EXCEPT ![c] = FALSE]
        /\ UNCHANGED <<freeMarked, class, fields>>
    BY <1>4 DEF SweepMarkedCell
  <2>2. \A d \in Cell : marked'[d] <=> marked[d] /\ d # c
    BY <2>1 DEF TypeOK
  <2>3. Live' = Live
    BY <2>1 DEF Live
  <2>4. Survivors' = Survivors
    BY <1>1, <2>1, <2>2, <2>3 DEF Survivors, Live
  <2>5. FreedIsBlank'
    BY <2>1 DEF HeapInv, FreedIsBlank
  <2> QED
    BY <1>1, <1>2, <2>1, <2>2, <2>3, <2>4, <2>5, SweepKeeps
<1>5. CASE SweepDeadCell(c)
  <2>1. /\ ~marked[c]
        /\ freeMarked' = [freeMarked EXCEPT ![c] = TRUE]
        /\ marked' = [marked EXCEPT ![c] = FALSE]
        /\ class' = [class EXCEPT ![c] = NoClass]
        /\ fields' = [fields EXCEPT ![c] = {}]
    BY <1>5 DEF SweepDeadCell
  <2>2. \A d \in Cell : /\ freeMarked'[d] <=> freeMarked[d] \/ d = c
                        /\ class'[d] = IF d = c THEN NoClass ELSE class[d]
                        /\ fields'[d] = IF d = c THEN {} ELSE fields[d]
                        /\ marked'[d] <=> marked[d] /\ d # c
    BY <2>1 DEF TypeOK
  <2>3. Live' = Live \ {c}
    BY <2>2 DEF Live
  <2>4. c \notin Survivors
    BY <1>1, <2>1 DEF Survivors
  <2>5. Survivors' = Survivors
    BY <1>1, <2>2, <2>3, <2>4 DEF Survivors, Live
  <2>6. FreedIsBlank'
    BY <2>2 DEF HeapInv, FreedIsBlank
  <2>7. \A d \in Survivors : fields'[d] = fields[d]
    BY <2>2, <2>4 DEF Survivors, Live
  <2>8. /\ \A d \in Cell : freeMarked'[d] => freeMarked[d] \/ d \notin Survivors
        /\ \A d \in Cell : marked'[d] => marked[d] /\ d # c /\ d \in Live'
    BY <1>2, <2>2, <2>3, <2>4
  <2> QED
    BY <1>1, <2>3, <2>5, <2>6, <2>7, <2>8, SweepKeeps
<1> QED
  BY <1>3, <1>4, <1>5

LEMMA SweepDoneHeapInv == ASSUME TypeOK, HeapInv, SweepDone PROVE HeapInv'
<1>1. /\ phase = "sweep" /\ phase' = "retry" /\ unswept = {} /\ CollectorStep
      /\ UNCHANGED <<freeList, freeMarked, marked, class, fields, scan, gray>>
  BY DEF SweepDone
<1>2. Live' = Live /\ Held' = Held /\ BuildingCells' = BuildingCells
  BY <1>1 DEF CollectorStep, Live, PreciseRoots, RangeOf, HandleCells, BuildingCells
<1>3. Survivors = Live
  BY <1>1 DEF Survivors
<1>4. ReferencesSurvive'
  BY <1>1, <1>2, <1>3 DEF HeapInv, ReferencesSurvive
<1>5. BuildingApart' /\ FreedIsBlank' /\ LiveIsAllocated'
  BY <1>1, <1>2
  DEF HeapInv, BuildingApart, FreedIsBlank, LiveIsAllocated, CollectorStep
<1>6. FlagsAreCurrent'
  BY <1>1 DEF HeapInv, FlagsAreCurrent, Marking
<1>7. WorklistCoversFields' /\ RootsAreFlagged' /\ NotCrashed'
  BY <1>1, <1>2
  DEF HeapInv, WorklistCoversFields, RootsAreFlagged, NotCrashed, Marking
<1> QED
  BY <1>4, <1>5, <1>6, <1>7 DEF HeapInv

LEMMA CollectionHeapInv ==
    ASSUME TypeOK, HeapInv, Collection PROVE HeapInv'
  BY MarkOneHeapInv, MarkRootHeapInv, PhaseHeapInv, VisitVMHeapInv,
     VisitNativeStackHeapInv, MarkingDoneHeapInv, SweepHeapInv, SweepDoneHeapInv
  DEF Collection

-----------------------------------------------------------------------------
\* What has been disturbed stays so.
LEMMA DisturbedStays == ASSUME [Next]_vars, disturbed PROVE disturbed'
<1>1. CASE Allocation
  BY <1>1
  DEF Allocation, AllocateFromFreeList, AllocateByBump, Construct,
      StartCollection, OutOfMemory, FinishCreate, collectVars
<1>2. CASE Mutation
  BY <1>2
  DEF Mutation, DropHandle, AddRoot, SetField, ClearField, GetField, SetSlot,
      ClearSlot, GetSlot, RemoveRoot, MutatorStep, collectVars
<1>3. CASE Collection
  BY <1>3
  DEF Collection, MarkOne, MarkRoot, RootsDone, VisitVM, VisitNativeStack,
      DrainDone, MarkingDone, SweepFreeCell, SweepMarkedCell, SweepDeadCell,
      SweepNext, SweepDone, CollectorStep
<1> QED
  BY <1>1, <1>2, <1>3 DEF Next, vars

LEMMA HeapInvStep ==
    ASSUME TypeOK, FreeListsSound, HeapInv, [Next]_vars, ~disturbed'
    PROVE  HeapInv'
<1>1. CASE UNCHANGED vars
  BY <1>1
  DEF vars, HeapInv, BuildingApart, BuildingCells, FreedIsBlank, LiveIsAllocated,
      ReferencesSurvive, FlagsAreCurrent, WorklistCoversFields, RootsAreFlagged,
      NotCrashed, Marking, Live, Survivors, PreciseRoots, RangeOf, HandleCells
<1> QED
  BY <1>1, AllocationHeapInv, MutationHeapInv, CollectionHeapInv DEF Next

\* HeapInv holds of every class, constructor and block up to the first
\* collection that begins where the collector is not at home.
THEOREM HeapInvHolds == Spec => [](~disturbed => HeapInv)
<1>1. Init => HeapInv
  BY InitHeapInv
<1>2. ASSUME TypeOK, FreeListsSound, ~disturbed => HeapInv, [Next]_vars
      PROVE  (~disturbed => HeapInv)'
  BY <1>2, DisturbedStays, HeapInvStep
<1> QED
  BY <1>1, <1>2, TypeCorrect, FreeListsAreSound, PTL DEF Spec

\* While the program runs, whatever it can name is a live object: Heap::collect
\* destroys no cell that a root, a frame or a live object refers to, also when
\* constructors create cells, as long as none of them had to collect.
THEOREM NothingDangles == Spec => []NoDanglingReference
<1>1. (~disturbed => HeapInv) => NoDanglingReference
  BY DEF HeapInv, ReferencesSurvive, NoDanglingReference
<1> QED
  BY <1>1, HeapInvHolds, PTL

\* The collector never calls visit() on a destroyed cell.
THEOREM CollectorNeverCrashes == Spec => []NoCrash
<1>1. (~disturbed => HeapInv) => NoCrash
  BY DEF HeapInv, NotCrashed, NoCrash
<1> QED
  BY <1>1, HeapInvHolds, PTL

-----------------------------------------------------------------------------
(* Reachability *)

\* Whatever is closed under fields and holds S holds all that S leads to.
LEMMA ReachableIsLeast ==
    ASSUME NEW S, NEW T \in SUBSET Cell, S \subseteq T,
           \A c \in T : fields[c] \subseteq T
    PROVE  Abstract!Reachable(S) \subseteq T
  BY DEF Abstract!Reachable, Abstract!ClosedUnderFields

LEMMA ReachableHolds ==
    ASSUME NEW S \in SUBSET Cell
    PROVE  S \subseteq Abstract!Reachable(S) /\ Abstract!Reachable(S) \subseteq Cell
  BY DEF Abstract!Reachable

LEMMA ReachableIsClosed ==
    ASSUME TypeOK, NEW S, NEW c \in Abstract!Reachable(S)
    PROVE  fields[c] \subseteq Abstract!Reachable(S)
<1>1. c \in Cell /\ fields[c] \subseteq Cell
  BY DEF Abstract!Reachable, TypeOK
<1> QED
  BY <1>1 DEF Abstract!Reachable, Abstract!ClosedUnderFields

\* What leads to a cell: anchors are live, and hold all that the program names.
LEMMA AnchorTypes ==
    ASSUME TypeOK, HeapInv
    PROVE  /\ Anchors \in SUBSET Cell
           /\ Held \in SUBSET Cell
           /\ Held \subseteq Live => Held \subseteq Anchors /\ Anchors \subseteq Live
<1>1. Held \in SUBSET Cell
  BY CellTypes DEF PreciseRoots
<1>2. Anchors \in SUBSET Cell
  BY <1>1 DEF Anchors, Live
<1> QED
  BY <1>1, <1>2 DEF Anchors, NativeWords

-----------------------------------------------------------------------------
(* Outside a collection *)

\* A flag has to be earned during a collection only.
LEMMA QuietKeeps ==
    ASSUME \/ phase' \in {"mutator", "oom"}
           \/ phase' = "roots" /\ \A c \in Cell : ~marked'[c]
    PROVE  FlagsAreEarned' /\ WordsAreFlagged' /\ SurvivorsAreReached'
  BY DEF FlagsAreEarned, WordsAreFlagged, SurvivorsAreReached, SweptClean, Marking

LEMMA ConstructFields ==
    ASSUME TypeOK, CollectorInv, NEW c \in Cell, NEW k \in Class, NEW m \in BOOLEAN,
           c \notin Live, Construct(c, k, m)
    PROVE  fields' = fields /\ Live' = Live /\ OnlyObjectsHaveFields'
<1>1. /\ freeMarked' = [freeMarked EXCEPT ![c] = FALSE]
      /\ class' = [class EXCEPT ![c] = NoClass]
      /\ fields' = [fields EXCEPT ![c] = {}]
  BY DEF Construct
<1>2. fields[c] = {}
  BY DEF CollectorInv, OnlyObjectsHaveFields
<1>3. fields' = fields
  BY <1>1, <1>2 DEF TypeOK
<1>4. Live' = Live
  BY <1>1 DEF Live, TypeOK
<1> QED
  BY <1>3, <1>4 DEF CollectorInv, OnlyObjectsHaveFields

LEMMA AllocationCollectorInv ==
    ASSUME TypeOK, FreeListsSound, CollectorInv, HeapInv', Allocation, ~disturbed'
    PROVE  CollectorInv'
<1>1. ASSUME NEW k \in Class, AllocateFromFreeList(k) \/ AllocateByBump(k)
      PROVE  CollectorInv'
  <2>1. PICK c \in Cell, m \in BOOLEAN : c \notin Live /\ Construct(c, k, m)
    BY <1>1, HandedOutIsBlank DEF CollectorInv
  <2>2. OnlyObjectsHaveFields' /\ phase' = "mutator"
    BY <2>1, ConstructFields DEF Construct
  <2> QED
    BY <2>2, QuietKeeps DEF CollectorInv
<1>2. ASSUME \/ \E k \in Class : StartCollection(k)
             \/ OutOfMemory
      PROVE  CollectorInv'
  <2>1. /\ \/ phase' = "oom"
           \/ phase' = "roots" /\ \A c \in Cell : ~marked'[c]
        /\ UNCHANGED <<freeMarked, class, fields>>
    BY <1>2, StartCollectionHeapInv
    DEF StartCollection, OutOfMemory, CollectorInv, allocatorVars
  <2>2. OnlyObjectsHaveFields'
    BY <2>1 DEF CollectorInv, OnlyObjectsHaveFields, Live
  <2> QED
    BY <2>1, <2>2, QuietKeeps DEF CollectorInv
<1>3. ASSUME NEW S \in SUBSET HandleCells, FinishCreate(S) PROVE CollectorInv'
  <2>1. phase' = "mutator"
    BY <1>3 DEF FinishCreate, collectVars
  <2>2. PICK c \in Cell : /\ Live' = Live \union {c}
                          /\ fields' = [fields EXCEPT ![c] = S]
    BY <1>3, FinishCreateEffect DEF CollectorInv, HeapInv
  <2>3. OnlyObjectsHaveFields'
    BY <2>2 DEF CollectorInv, OnlyObjectsHaveFields, TypeOK
  <2> QED
    BY <2>1, <2>3, QuietKeeps DEF CollectorInv
<1> QED
  BY <1>1, <1>2, <1>3 DEF Allocation

LEMMA MutationCollectorInv ==
    ASSUME TypeOK, CollectorInv, HeapInv', Mutation
    PROVE  CollectorInv'
<1>1. MutatorStep
  BY DEF Mutation, DropHandle, AddRoot, SetField, ClearField, GetField, SetSlot,
         ClearSlot, GetSlot, RemoveRoot
<1>2. /\ phase = "mutator" /\ phase' = "mutator"
      /\ UNCHANGED <<freeMarked, class>>
  BY <1>1 DEF MutatorStep, allocatorVars
<1>3. Live' = Live
  BY <1>2 DEF Live
<1>4. \A h \in handles : h[1] \in Live
  BY <1>2 DEF HandleCells, CollectorInv, HeapInv, ReferencesSurvive
<1>5. \/ fields' = fields
      \/ \E h \in handles, S \in SUBSET Cell : fields' = [fields EXCEPT ![h[1]] = S]
  <2>1. ASSUME NEW h \in handles, NEW d \in Cell, SetField(h, d)
        PROVE  \E S \in SUBSET Cell : fields' = [fields EXCEPT ![h[1]] = S]
    <3>1. fields' = [fields EXCEPT ![h[1]] = fields[h[1]] \union {d}]
      BY <2>1 DEF SetField
    <3>2. fields[h[1]] \union {d} \in SUBSET Cell
      BY <1>4 DEF Live, TypeOK
    <3> QED
      BY <3>1, <3>2
  <2>2. ASSUME NEW h \in handles, NEW d \in Cell, ClearField(h, d)
        PROVE  \E S \in SUBSET Cell : fields' = [fields EXCEPT ![h[1]] = S]
    <3>1. fields' = [fields EXCEPT ![h[1]] = fields[h[1]] \ {d}]
      BY <2>2 DEF ClearField
    <3>2. fields[h[1]] \ {d} \in SUBSET Cell
      BY <1>4 DEF Live, TypeOK
    <3> QED
      BY <3>1, <3>2
  <2> QED
    BY <2>1, <2>2
    DEF Mutation, DropHandle, AddRoot, GetField, SetSlot, ClearSlot, GetSlot,
        RemoveRoot
<1>6. \A c \in Cell \ Live : fields'[c] = fields[c]
  BY <1>4, <1>5 DEF TypeOK
<1>7. OnlyObjectsHaveFields'
  BY <1>3, <1>6 DEF CollectorInv, OnlyObjectsHaveFields
<1> QED
  BY <1>2, <1>7, QuietKeeps DEF CollectorInv

-----------------------------------------------------------------------------
(* During a collection *)

\* A step of marking changes neither objects nor what anchors them.
LEMMA MarkingFrames ==
    ASSUME TypeOK, CollectorInv, Marking, CollectorStep,
           UNCHANGED <<freeMarked, class, fields>>
    PROVE  /\ Live' = Live /\ NativeWords' = NativeWords /\ Anchors' = Anchors
           /\ Reached' = Reached
           /\ Anchors \in SUBSET Cell /\ Held \subseteq Anchors /\ Anchors \subseteq Live
           /\ Anchors \subseteq Reached
           /\ OnlyObjectsHaveFields'
<1>1. Live' = Live /\ NativeWords' = NativeWords /\ PreciseRoots' = PreciseRoots
  BY DEF CollectorStep, Live, NativeWords, HandleCells, BuildingCells, PreciseRoots,
         RangeOf
<1>2. Anchors' = Anchors
  BY <1>1 DEF Anchors
<1>3. Reached' = Reached
  BY <1>2 DEF Reached, Abstract!Reachable, Abstract!ClosedUnderFields
<1>4. Held \subseteq Live
  BY DEF CollectorInv, HeapInv, ReferencesSurvive, Marking
<1>5. Anchors \in SUBSET Cell /\ Held \subseteq Anchors /\ Anchors \subseteq Live
  BY <1>4, AnchorTypes DEF CollectorInv
<1>6. Anchors \subseteq Reached
  BY <1>5, ReachableHolds DEF Reached
<1>7. OnlyObjectsHaveFields'
  BY <1>1 DEF CollectorInv, OnlyObjectsHaveFields
<1> QED
  BY <1>1, <1>2, <1>3, <1>5, <1>6, <1>7

\* Flags spread from anchors, and from flagged cells to their fields.
LEMMA EarnedKeeps ==
    ASSUME TypeOK, CollectorInv, Marking, CollectorStep,
           UNCHANGED <<freeMarked, class, fields>>,
           phase' \notin {"sweep", "retry"},
           \A c \in Cell : marked'[c] => marked[c] \/ c \in Reached,
           \A c \in Cell : marked[c] => marked'[c],
           phase' \in {"drain", "stack"} =>
              \A c \in NativeWords \intersect Live : marked'[c]
    PROVE  /\ OnlyObjectsHaveFields' /\ FlagsAreEarned'
           /\ WordsAreFlagged' /\ SurvivorsAreReached'
<1>1. Reached' = Reached /\ NativeWords' = NativeWords /\ Live' = Live
      /\ OnlyObjectsHaveFields'
  BY MarkingFrames
<1>2. FlagsAreEarned'
  BY <1>1 DEF FlagsAreEarned, CollectorInv
<1>3. WordsAreFlagged' /\ SurvivorsAreReached'
  BY <1>1 DEF WordsAreFlagged, SurvivorsAreReached, SweptClean
<1> QED
  BY <1>1, <1>2, <1>3

LEMMA MarkOneCollectorInv ==
    ASSUME TypeOK, CollectorInv, HeapInv', NEW c \in Cell, MarkOne(c)
    PROVE  CollectorInv'
<1>1. /\ Marking /\ CollectorStep /\ c \in gray /\ phase' \in {phase, "crash"}
      /\ UNCHANGED <<freeMarked, class, fields>>
  BY DEF MarkOne, Marking
<1>2. marked[c] /\ c \in Reached
  BY <1>1 DEF CollectorInv, HeapInv, WorklistCoversFields, FlagsAreEarned
<1>3. fields[c] \subseteq Reached
  BY <1>2, ReachableIsClosed DEF Reached
<1>4. \A d \in Cell : /\ marked'[d] => marked[d] \/ d \in fields[c]
                      /\ marked[d] => marked'[d]
  BY DEF MarkOne
<1>5. phase' \in {"drain", "stack"} =>
          \A d \in NativeWords \intersect Live : marked'[d]
  BY <1>1, <1>4 DEF CollectorInv, WordsAreFlagged, Live
<1> QED
  BY <1>1, <1>3, <1>4, <1>5, EarnedKeeps DEF CollectorInv, Marking

\* Visiting a set of anchors.
LEMMA VisitCollectorInv ==
    ASSUME TypeOK, CollectorInv, HeapInv', Marking, CollectorStep,
           UNCHANGED <<freeMarked, class, fields>>,
           phase' \notin {"sweep", "retry"},
           NEW S \in SUBSET Anchors, VisitCells(S),
           phase' \in {"drain", "stack"} =>
              \/ phase \in {"drain", "stack"}
              \/ NativeWords \intersect Live \subseteq S
    PROVE  CollectorInv'
<1>1. Anchors \subseteq Reached /\ Anchors \subseteq Live
  BY MarkingFrames
<1>2. \A d \in Cell : marked'[d] <=> marked[d] \/ d \in S
  BY DEF VisitCells
<1>3. phase' \in {"drain", "stack"} =>
          \A d \in NativeWords \intersect Live : marked'[d]
  BY <1>2 DEF CollectorInv, WordsAreFlagged, Live
<1> QED
  BY <1>1, <1>2, <1>3, EarnedKeeps DEF CollectorInv

LEMMA MarkingCollectorInv ==
    ASSUME TypeOK, CollectorInv, HeapInv',
           \/ \E c \in Cell : MarkRoot(c)
           \/ RootsDone \/ VisitVM \/ VisitNativeStack \/ DrainDone
    PROVE  CollectorInv'
<1>1. Marking /\ CollectorStep /\ UNCHANGED <<freeMarked, class, fields>>
  BY DEF MarkRoot, RootsDone, VisitVM, VisitNativeStack, DrainDone, Marking
<1>2. Held \subseteq Anchors
  BY <1>1, MarkingFrames
<1>3. ASSUME NEW c \in Cell, MarkRoot(c) PROVE CollectorInv'
  <2>1. {c} \in SUBSET Anchors
    BY <1>2, <1>3 DEF MarkRoot, CollectorInv, HeapInv, RootsAreFlagged
  <2> QED
    BY <1>1, <1>3, <2>1, VisitCollectorInv DEF MarkRoot
<1>4. CASE VisitVM
  <2>1. slots["vm"] \in SUBSET Anchors
    BY <1>2 DEF PreciseRoots
  <2> QED
    BY <1>1, <1>4, <2>1, VisitCollectorInv DEF VisitVM
<1>5. CASE VisitNativeStack
  <2> DEFINE S == {c \in NativeWords : class[c] # NoClass}
  <2>1. NativeWords \subseteq Cell
    BY CellTypes DEF NativeWords, TypeOK
  <2>2. S = NativeWords \intersect Live
    BY <2>1 DEF Live, CollectorInv, HeapInv, FreedIsBlank
  <2>3. VisitCells(S) /\ phase' = "drain"
    BY <1>5 DEF VisitNativeStack
  <2> HIDE DEF S
  <2> QED
    BY <1>1, <2>2, <2>3, VisitCollectorInv DEF Anchors
<1>6. CASE RootsDone \/ DrainDone
  <2>1. /\ marked' = marked /\ phase' \in {"vm", "stack"}
        /\ phase' = "stack" => phase = "drain"
    BY <1>6 DEF RootsDone, DrainDone
  <2>2. phase' \in {"drain", "stack"} =>
            \A d \in NativeWords \intersect Live : marked'[d]
    BY <2>1 DEF CollectorInv, WordsAreFlagged
  <2> QED
    BY <1>1, <2>1, <2>2, EarnedKeeps DEF CollectorInv
<1> QED
  BY <1>3, <1>4, <1>5, <1>6

\* When marking ends, the survivors are the flagged cells: all of them earned.
LEMMA MarkingDoneCollectorInv ==
    ASSUME TypeOK, CollectorInv, HeapInv', MarkingDone
    PROVE  CollectorInv'
<1>1. /\ Marking /\ CollectorStep /\ phase = "stack" /\ phase' = "sweep"
      /\ unswept' = {c \in Cell : c[2] <= current[c[1]]}
      /\ UNCHANGED <<freeMarked, marked, class, fields>>
  BY DEF MarkingDone, Marking
<1>2. /\ Reached' = Reached /\ NativeWords' = NativeWords /\ Live' = Live
      /\ OnlyObjectsHaveFields'
  BY <1>1, MarkingFrames
<1>3. Survivors' = {c \in Live : marked[c]}
  <2>1. \A c \in Live : c \in unswept'
    BY <1>1 DEF CollectorInv, HeapInv, LiveIsAllocated, Live
  <2> QED
    BY <1>1, <1>2, <2>1 DEF Survivors
<1>4. FlagsAreEarned' /\ SurvivorsAreReached'
  BY <1>1, <1>2, <1>3
  DEF CollectorInv, FlagsAreEarned, SurvivorsAreReached, SweptClean,
      Marking, Live
<1>5. WordsAreFlagged'
  BY <1>1, <1>2, <1>3 DEF CollectorInv, WordsAreFlagged
<1> QED
  BY <1>2, <1>4, <1>5 DEF CollectorInv

\* A step of the sweep that keeps the survivors keeps what is reachable.
LEMMA SweepFrames ==
    ASSUME TypeOK, CollectorInv, phase = "sweep", phase' = "sweep", CollectorStep,
           Survivors' = Survivors, Live' \subseteq Live,
           \A d \in Survivors : fields'[d] = fields[d]
    PROVE  FlagsAreEarned' /\ WordsAreFlagged' /\ SurvivorsAreReached'
<1>1. NativeWords' = NativeWords /\ PreciseRoots' = PreciseRoots /\ Held' = Held
  BY DEF CollectorStep, NativeWords, HandleCells, BuildingCells, PreciseRoots, RangeOf
<1>2. /\ Held \subseteq Survivors
      /\ \A c \in Survivors : fields[c] \subseteq Survivors
      /\ NativeWords \intersect Live \subseteq Survivors
      /\ Survivors \subseteq Reached
  BY DEF CollectorInv, HeapInv, ReferencesSurvive, WordsAreFlagged,
         SurvivorsAreReached
<1>3. Survivors \subseteq Live' /\ Survivors \in SUBSET Cell
  BY DEF Survivors, Live
<1>4. Anchors' = Anchors
  BY <1>1, <1>2, <1>3 DEF Anchors
<1>5. Anchors \subseteq Survivors
  BY <1>2 DEF Anchors
<1>6. ASSUME NEW c \in Survivors, NEW U \in SUBSET Cell, Anchors \subseteq U,
             \A d \in U : fields'[d] \subseteq U
      PROVE  c \in U
  <2>1. Anchors \subseteq U \intersect Survivors
    BY <1>5, <1>6
  <2>2. \A d \in U \intersect Survivors : fields[d] \subseteq U \intersect Survivors
    BY <1>2, <1>6
  <2>3. Reached \subseteq U \intersect Survivors
    BY <2>1, <2>2, ReachableIsLeast DEF Reached
  <2> QED
    BY <1>2, <2>3
<1>7. Survivors' \subseteq Reached'
  BY <1>3, <1>4, <1>6 DEF Reached, Abstract!Reachable, Abstract!ClosedUnderFields
<1>8. WordsAreFlagged'
  BY <1>1, <1>2 DEF WordsAreFlagged
<1> QED
  BY <1>7, <1>8
  DEF FlagsAreEarned, SurvivorsAreReached, SweptClean, Marking

LEMMA SweepCollectorInv ==
    ASSUME TypeOK, CollectorInv, HeapInv', NEW c \in Cell,
           SweepFreeCell(c) \/ SweepMarkedCell(c) \/ SweepDeadCell(c)
    PROVE  CollectorInv'
<1>1. /\ phase = "sweep" /\ phase' = "sweep" /\ CollectorStep
      /\ c \in unswept /\ unswept' = unswept \ {c} /\ building' = building
  BY DEF SweepFreeCell, SweepMarkedCell, SweepDeadCell, SweepNext, CollectorStep
<1>2. CASE SweepFreeCell(c) \/ SweepMarkedCell(c)
  <2>1. /\ UNCHANGED <<freeMarked, class, fields>>
        /\ freeMarked[c] \/ marked[c]
        /\ \A d \in Cell : d # c => marked'[d] = marked[d]
    BY <1>2 DEF SweepFreeCell, SweepMarkedCell, TypeOK
  <2>2. Live' = Live
    BY <2>1 DEF Live
  <2>3. Survivors' = Survivors
    BY <1>1, <2>1, <2>2 DEF Survivors, Live
  <2>4. OnlyObjectsHaveFields'
    BY <1>1, <2>1, <2>2 DEF CollectorInv, OnlyObjectsHaveFields
  <2> QED
    BY <1>1, <2>1, <2>2, <2>3, <2>4, SweepFrames DEF CollectorInv
<1>3. CASE SweepDeadCell(c)
  <2>1. \A d \in Cell : /\ freeMarked'[d] <=> freeMarked[d] \/ d = c
                        /\ class'[d] = IF d = c THEN NoClass ELSE class[d]
                        /\ fields'[d] = IF d = c THEN {} ELSE fields[d]
                        /\ marked'[d] <=> marked[d] /\ d # c
    BY <1>3 DEF SweepDeadCell, TypeOK
  <2>2. ~marked[c]
    BY <1>3 DEF SweepDeadCell
  <2>3. Live' = Live \ {c}
    BY <2>1 DEF Live
  <2>4. c \notin Survivors
    BY <1>1, <2>2 DEF Survivors
  <2>5. Survivors' = Survivors
    BY <1>1, <2>1, <2>3, <2>4 DEF Survivors, Live
  <2>6. \A d \in Survivors : fields'[d] = fields[d]
    BY <2>1, <2>4 DEF Survivors, Live
  <2>7. OnlyObjectsHaveFields'
    BY <2>1, <2>3 DEF CollectorInv, OnlyObjectsHaveFields
  <2> QED
    BY <1>1, <2>3, <2>5, <2>6, <2>7, SweepFrames DEF CollectorInv
<1> QED
  BY <1>2, <1>3

LEMMA SweepDoneCollectorInv ==
    ASSUME TypeOK, CollectorInv, HeapInv', SweepDone
    PROVE  CollectorInv'
<1>1. /\ phase = "sweep" /\ phase' = "retry" /\ unswept = {} /\ CollectorStep
      /\ UNCHANGED <<freeMarked, marked, class, fields>>
  BY DEF SweepDone
<1>2. /\ Live' = Live /\ NativeWords' = NativeWords /\ PreciseRoots' = PreciseRoots
      /\ BuildingCells' = BuildingCells
  BY <1>1 DEF CollectorStep, Live, NativeWords, HandleCells, BuildingCells,
              PreciseRoots, RangeOf
<1>3. Anchors' = Anchors /\ Reached' = Reached
  BY <1>1, <1>2
  DEF Anchors, Reached, Abstract!Reachable, Abstract!ClosedUnderFields
<1>4. Live \subseteq Reached
  BY <1>1 DEF CollectorInv, SurvivorsAreReached, Survivors
<1>5. SweptClean'
  BY <1>2, <1>3, <1>4 DEF SweptClean, Reached, Anchors
<1>6. OnlyObjectsHaveFields'
  BY <1>1, <1>2 DEF CollectorInv, OnlyObjectsHaveFields
<1> QED
  BY <1>1, <1>5, <1>6
  DEF CollectorInv, FlagsAreEarned, WordsAreFlagged, SurvivorsAreReached, Marking

LEMMA CollectionCollectorInv ==
    ASSUME TypeOK, CollectorInv, HeapInv', Collection
    PROVE  CollectorInv'
  BY MarkOneCollectorInv, MarkingCollectorInv, MarkingDoneCollectorInv,
     SweepCollectorInv, SweepDoneCollectorInv
  DEF Collection

-----------------------------------------------------------------------------
LEMMA InitCollectorInv == Init => CollectorInv
<1> SUFFICES ASSUME Init PROVE CollectorInv
  OBVIOUS
<1>1. BuildingCells = {}
  BY DEF Init, BuildingCells
<1> QED
  BY <1>1, InitHeapInv
  DEF Init, CollectorInv, OnlyObjectsHaveFields, FlagsAreEarned, WordsAreFlagged,
      SurvivorsAreReached, SweptClean, Marking

LEMMA CollectorInvStep ==
    ASSUME TypeOK, FreeListsSound, CollectorInv, HeapInv', [Next]_vars,
           ~disturbed'
    PROVE  CollectorInv'
<1>1. CASE UNCHANGED vars
  <2>1. UNCHANGED <<Live, Survivors, PreciseRoots, NativeWords, BuildingCells>>
    BY <1>1 DEF vars, Live, Survivors, PreciseRoots, RangeOf, NativeWords, HandleCells,
                BuildingCells
  <2>2. Anchors' = Anchors
    BY <2>1 DEF Anchors
  <2>3. Abstract!Reachable(Anchors)' = Abstract!Reachable(Anchors)
    BY <1>1, <2>2 DEF vars, Abstract!Reachable, Abstract!ClosedUnderFields
  <2>4. SweptClean'
    BY <1>1, <2>1, <2>3
    DEF CollectorInv, SurvivorsAreReached, SweptClean, Anchors, vars
  <2> QED
    BY <1>1, <2>1, <2>3, <2>4
    DEF vars, CollectorInv, OnlyObjectsHaveFields, FlagsAreEarned, WordsAreFlagged,
        SurvivorsAreReached, Marking, Reached
<1> QED
  BY <1>1, AllocationCollectorInv, MutationCollectorInv, CollectionCollectorInv
  DEF Next

\* The collector keeps exactly what can be named, up to the first collection
\* that begins where it is not at home.
THEOREM CollectorInvHolds == Spec => []UndisturbedInv
<1>1. Init => CollectorInv
  BY InitCollectorInv
<1>2. ASSUME TypeOK, FreeListsSound, UndisturbedInv, [Next]_vars,
             (~disturbed => HeapInv)'
      PROVE  UndisturbedInv'
  BY <1>2, DisturbedStays, CollectorInvStep DEF UndisturbedInv
<1>3. Init => UndisturbedInv
  BY <1>1 DEF UndisturbedInv
<1> QED
  BY <1>2, <1>3, TypeCorrect, FreeListsAreSound, HeapInvHolds, PTL DEF Spec

\* A collection reclaims everything that neither a precise root nor a word of
\* the native stack leads to: Heap::collect leaves no garbage but what a stale
\* word happens to name.
THEOREM CollectionsAreComplete == Spec => []CollectionIsComplete
<1>1. UndisturbedInv => CollectionIsComplete
  BY DEF UndisturbedInv, CollectorInv, SurvivorsAreReached, CollectionIsComplete
<1> QED
  BY <1>1, CollectorInvHolds, PTL

-----------------------------------------------------------------------------
(* The heap implements managed memory *)

MemoryStutters == UNCHANGED <<Live, fields, Held>>

LEMMA AllocationImplements ==
    ASSUME TypeOK, FreeListsSound, CollectorInv, Allocation
    PROVE  \/ \E c \in Cell, S \in SUBSET Cell : Abstract!CreateObject(c, S)
           \/ MemoryStutters
<1>1. ASSUME NEW k \in Class, AllocateFromFreeList(k) \/ AllocateByBump(k)
      PROVE  MemoryStutters
  <2>1. PICK c \in Cell, m \in BOOLEAN : c \notin Live /\ Construct(c, k, m)
    BY <1>1, HandedOutIsBlank DEF CollectorInv
  <2>2. Live' = Live /\ fields' = fields
    BY <2>1, ConstructFields
  <2>3. UNCHANGED <<roots, slots, handles>>
    BY <2>1 DEF Construct, mutatorVars
  <2> QED
    BY <2>2, <2>3 DEF MemoryStutters, PreciseRoots, RangeOf, HandleCells
<1>2. ASSUME (\E k \in Class : StartCollection(k)) \/ OutOfMemory
      PROVE  MemoryStutters
  <2>1. UNCHANGED <<freeMarked, class, fields, roots, slots, handles>>
    BY <1>2 DEF StartCollection, OutOfMemory, allocatorVars, mutatorVars
  <2> QED
    BY <2>1 DEF MemoryStutters, Live, PreciseRoots, RangeOf, HandleCells
<1>3. ASSUME NEW S \in SUBSET HandleCells, FinishCreate(S)
      PROVE  \E c \in Cell, T \in SUBSET Cell : Abstract!CreateObject(c, T)
  <2>1. PICK c \in Cell : /\ c \notin Live /\ Live' = Live \union {c}
                          /\ fields' = [fields EXCEPT ![c] = S]
                          /\ Held' = Held \union {c}
    BY <1>3, FinishCreateEffect DEF CollectorInv, HeapInv
  <2>2. S \in SUBSET Cell /\ S \subseteq Held
    BY CellTypes
  <2>3. Abstract!CreateObject(c, S)
    BY <2>1, <2>2 DEF Abstract!CreateObject
  <2> QED
    BY <2>2, <2>3
<1> QED
  BY <1>1, <1>2, <1>3 DEF Allocation

\* What a step of the mutator holds afterwards, it held or read from a field of
\* what it held; what it writes into a field, it held.
LEMMA MutationImplements ==
    ASSUME TypeOK, CollectorInv, Mutation
    PROVE  Abstract!UseObjects
<1> DEFINE R == Abstract!Reachable(Held)
           Holds == Held' \subseteq R
           Writes == \/ fields' = fields
                     \/ \E c \in R, S \in SUBSET R : fields' = [fields EXCEPT ![c] = S]
<1>1. /\ phase = "mutator" /\ UNCHANGED <<freeMarked, class>>
  BY DEF Mutation, DropHandle, AddRoot, SetField, ClearField, GetField, SetSlot,
         ClearSlot, GetSlot, RemoveRoot, MutatorStep, allocatorVars
<1>2. Live' = Live
  BY <1>1 DEF Live
<1>3. Held \in SUBSET Cell /\ Held \subseteq R
  BY AnchorTypes, ReachableHolds DEF CollectorInv
<1>4. \A c \in R : fields[c] \subseteq R
  BY ReachableIsClosed
<1>5. /\ HandleCells \subseteq R /\ RangeOf(roots) \subseteq R
      /\ slots["vm"] \subseteq R /\ slots["stack"] \subseteq R
      /\ \A h \in handles : h[1] \in R /\ h[1] \in Held
  BY <1>3 DEF PreciseRoots, HandleCells
<1> HIDE DEF R
<1>6. SUFFICES Holds /\ Writes
  BY <1>2, <1>6 DEF Abstract!UseObjects, R
<1> DEFINE StillHeld == /\ HandleCells' \subseteq R
                        /\ RangeOf(roots)' \subseteq R
                        /\ slots'["vm"] \subseteq R
                        /\ slots'["stack"] \subseteq R
<1>7. SUFFICES StillHeld /\ Writes
  BY <1>7 DEF PreciseRoots
<1>8. ASSUME NEW c \in R, Acquire(c) PROVE HandleCells' \subseteq R
  BY <1>5, <1>8 DEF Acquire, HandleCells
<1>9. roots' = roots => RangeOf(roots)' \subseteq R
  BY <1>5 DEF RangeOf
<1>10. handles' = handles => HandleCells' \subseteq R
  BY <1>5 DEF HandleCells
<1>11. slots' = slots => slots'["vm"] \subseteq R /\ slots'["stack"] \subseteq R
  BY <1>5
<1>12. ASSUME NEW h \in handles, DropHandle(h) PROVE StillHeld /\ Writes
  <2>1. HandleCells' \subseteq R
    BY <1>5, <1>12 DEF DropHandle, HandleCells
  <2> QED
    BY <1>9, <1>11, <1>12, <2>1 DEF DropHandle
<1>13. ASSUME NEW h \in handles, AddRoot(h) PROVE StillHeld /\ Writes
  <2>1. RangeOf(roots') \subseteq RangeOf(roots) \union {h[1]}
    <3>1. /\ roots \in Seq(Cell) /\ h[1] \in Cell
          /\ roots' = Append(roots, h[1])
      BY <1>3, <1>5, <1>13 DEF AddRoot, TypeOK
    <3> QED
      BY <3>1 DEF RangeOf
  <2>2. RangeOf(roots)' \subseteq R
    BY <1>5, <2>1 DEF RangeOf
  <2> QED
    BY <1>10, <1>11, <1>13, <2>2 DEF AddRoot
<1>14. ASSUME NEW h \in handles, NEW d \in Cell, SetField(h, d)
       PROVE  StillHeld /\ Writes
  <2>1. fields[h[1]] \union {d} \in SUBSET R
    BY <1>4, <1>5, <1>14 DEF SetField
  <2>2. fields' = [fields EXCEPT ![h[1]] = fields[h[1]] \union {d}]
    BY <1>14 DEF SetField
  <2>3. Writes
    BY <1>5, <2>1, <2>2
  <2> QED
    BY <1>9, <1>10, <1>11, <1>14, <2>3 DEF SetField, mutatorVars
<1>15. ASSUME NEW h \in handles, NEW d \in Cell, ClearField(h, d)
       PROVE  StillHeld /\ Writes
  <2>1. fields[h[1]] \ {d} \in SUBSET R
    BY <1>4, <1>5
  <2>2. fields' = [fields EXCEPT ![h[1]] = fields[h[1]] \ {d}]
    BY <1>15 DEF ClearField
  <2>3. Writes
    BY <1>5, <2>1, <2>2
  <2> QED
    BY <1>9, <1>10, <1>11, <1>15, <2>3 DEF ClearField, mutatorVars
<1>16. ASSUME NEW h \in handles, NEW d \in Cell, GetField(h, d)
       PROVE  StillHeld /\ Writes
  <2>1. d \in R
    BY <1>4, <1>5, <1>16 DEF GetField
  <2> QED
    BY <1>8, <1>9, <1>11, <1>16, <2>1 DEF GetField
<1>17. ASSUME NEW h \in handles, NEW p \in Place, SetSlot(p, h)
       PROVE  StillHeld /\ Writes
  <2>1. slots' = [slots EXCEPT ![p] = @ \union {h[1]}]
    BY <1>17 DEF SetSlot
  <2>2. slots'["vm"] \subseteq R /\ slots'["stack"] \subseteq R
    BY <1>5, <2>1 DEF TypeOK, Place
  <2> QED
    BY <1>9, <1>10, <1>17, <2>2 DEF SetSlot
<1>18. ASSUME NEW p \in Place, NEW c \in Cell, ClearSlot(p, c)
       PROVE  StillHeld /\ Writes
  <2>1. slots'["vm"] \subseteq R /\ slots'["stack"] \subseteq R
    BY <1>5, <1>18 DEF ClearSlot, TypeOK, Place
  <2> QED
    BY <1>9, <1>10, <1>18, <2>1 DEF ClearSlot
<1>19. ASSUME NEW p \in Place, NEW c \in Cell, GetSlot(p, c)
       PROVE  StillHeld /\ Writes
  <2>1. c \in R
    BY <1>5, <1>19 DEF GetSlot, Place
  <2> QED
    BY <1>8, <1>9, <1>11, <1>19, <2>1 DEF GetSlot
<1>20. ASSUME NEW i \in DOMAIN roots, RemoveRoot(i) PROVE StillHeld /\ Writes
  <2>1. RangeOf(roots') \subseteq RangeOf(roots)
    <3>1. /\ roots' = [j \in 1..(Len(roots) - 1) |->
                          IF j < i THEN roots[j] ELSE roots[j + 1]]
          /\ Len(roots) \in Nat /\ DOMAIN roots = 1..Len(roots)
      BY <1>20 DEF RemoveRoot, TypeOK
    <3>2. ASSUME NEW j \in DOMAIN roots' PROVE roots'[j] \in RangeOf(roots)
      <4>1. /\ j \in 1..(Len(roots) - 1) /\ j \in 1..Len(roots)
            /\ j + 1 \in 1..Len(roots)
        BY <3>1
      <4> QED
        BY <3>1, <4>1 DEF RangeOf
    <3> QED
      BY <3>2 DEF RangeOf
  <2>2. RangeOf(roots)' \subseteq R
    BY <1>5, <2>1 DEF RangeOf
  <2> QED
    BY <1>10, <1>11, <1>20, <2>2 DEF RemoveRoot
<1> QED
  BY <1>12, <1>13, <1>14, <1>15, <1>16, <1>17, <1>18, <1>19, <1>20
  DEF Mutation

\* The sweep reclaims an object only when the program cannot reach it; every
\* other step of the collector is invisible.
LEMMA CollectionImplements ==
    ASSUME TypeOK, CollectorInv, Collection
    PROVE  (\E c \in Cell : Abstract!Reclaim(c)) \/ MemoryStutters
<1>1. Held' = Held
  BY DEF Collection, MarkOne, MarkRoot, RootsDone, VisitVM, VisitNativeStack,
         DrainDone, MarkingDone, SweepFreeCell, SweepMarkedCell, SweepDeadCell,
         SweepNext, SweepDone, CollectorStep, PreciseRoots, RangeOf, HandleCells
<1>2. ASSUME NEW c \in Cell, SweepDeadCell(c)
      PROVE  Abstract!Reclaim(c) \/ MemoryStutters
  <2>1. /\ fields' = [fields EXCEPT ![c] = {}]
        /\ \A d \in Cell : /\ freeMarked'[d] <=> freeMarked[d] \/ d = c
                           /\ class'[d] = IF d = c THEN NoClass ELSE class[d]
    BY <1>2 DEF SweepDeadCell, TypeOK
  <2>2. Live' = Live \ {c}
    BY <2>1 DEF Live
  <2>3. CASE c \in Live
    <3>1. phase = "sweep" /\ c \notin Survivors
      BY <1>2 DEF SweepDeadCell, SweepNext, Survivors
    <3>2. /\ Held \subseteq Survivors /\ Survivors \in SUBSET Cell
          /\ \A d \in Survivors : fields[d] \subseteq Survivors
      BY <3>1 DEF CollectorInv, HeapInv, ReferencesSurvive, Survivors, Live
    <3>3. c \notin Abstract!Reachable(Held)
      BY <3>1, <3>2, ReachableIsLeast
    <3>4. Abstract!Reclaim(c)
      BY <1>1, <2>1, <2>2, <2>3, <3>3 DEF Abstract!Reclaim
    <3> QED
      BY <3>4
  <2>4. CASE c \notin Live
    <3>1. fields[c] = {}
      BY <2>4 DEF CollectorInv, OnlyObjectsHaveFields
    <3> QED
      BY <1>1, <2>1, <2>2, <2>4, <3>1 DEF MemoryStutters, TypeOK
  <2> QED
    BY <2>3, <2>4
<1>3. ASSUME ~ \E c \in Cell : SweepDeadCell(c) PROVE MemoryStutters
  <2>1. UNCHANGED <<freeMarked, class, fields>>
    BY <1>3
    DEF Collection, MarkOne, MarkRoot, RootsDone, VisitVM, VisitNativeStack,
        DrainDone, MarkingDone, SweepFreeCell, SweepMarkedCell, SweepDone
  <2> QED
    BY <1>1, <2>1 DEF MemoryStutters, Live
<1> QED
  BY <1>2, <1>3

\* A sweep only ever destroys what the program can no longer reach, and no
\* other step of allocators, mutator or collector destroys anything, up to the
\* first collection that begins where the collector is not at home.
THEOREM HeapImplementsManagedMemory == Spec => ImplementsManagedMemory
<1>1. Init => Abstract!MemoryInit
  <2> SUFFICES ASSUME Init PROVE Abstract!MemoryInit
    OBVIOUS
  <2>1. Live = {} /\ Held = {}
    BY DEF Init, Live, PreciseRoots, RangeOf, HandleCells, Place
  <2> QED
    BY <2>1 DEF Init, Abstract!MemoryInit
<1>2. ASSUME TypeOK, FreeListsSound, UndisturbedInv, [Next]_vars
      PROVE  [Abstract!MemoryNext \/ disturbed]_(Abstract!memoryVars)
  <2>1. CASE UNCHANGED vars
    BY <2>1 DEF vars, Abstract!memoryVars, Live, PreciseRoots, RangeOf, HandleCells
  <2>2. MemoryStutters => UNCHANGED Abstract!memoryVars
    BY DEF MemoryStutters, Abstract!memoryVars
  <2> QED
    BY <1>2, <2>1, <2>2, AllocationImplements, MutationImplements,
       CollectionImplements
    DEF Next, Abstract!MemoryNext, UndisturbedInv
<1> QED
  BY <1>1, <1>2, TypeCorrect, FreeListsAreSound, CollectorInvHolds, PTL
  DEF Spec, ImplementsManagedMemory

\* Also in the middle of a sweep, every reference that the program can follow
\* leads to an object.
THEOREM ReachableStaysLive == Spec => [](~disturbed => Abstract!ReachableIsLive)
<1>1. ASSUME TypeOK, UndisturbedInv, ~disturbed PROVE Abstract!ReachableIsLive
  <2>0. CollectorInv
    BY <1>1 DEF UndisturbedInv
  <2>1. /\ Live \in SUBSET Cell /\ Survivors \in SUBSET Cell
        /\ Survivors \subseteq Live
    BY DEF Live, Survivors
  <2>2. CASE phase = "sweep"
    <3>1. Abstract!Reachable(Held) \subseteq Survivors
      BY <2>0, <2>1, <2>2, ReachableIsLeast DEF CollectorInv, HeapInv, ReferencesSurvive
    <3> QED
      BY <2>1, <3>1 DEF Abstract!ReachableIsLive
  <2>3. CASE phase # "sweep"
    BY <2>0, <2>1, <2>3, ReachableIsLeast
    DEF CollectorInv, HeapInv, ReferencesSurvive, Abstract!ReachableIsLive
  <2> QED
    BY <2>2, <2>3
<1>2. TypeOK /\ UndisturbedInv => (~disturbed => Abstract!ReachableIsLive)
  BY <1>1
<1> QED
  BY <1>2, TypeCorrect, CollectorInvHolds, PTL
=============================================================================
