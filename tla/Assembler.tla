----------------------------- MODULE Assembler -----------------------------
(***************************************************************************)
(* How a block of bytecode is put together: bytecode/InstructionStream,    *)
(* Label, BytecodeBlock and the part of BytecodeGenerator that calls them. *)
(*                                                                         *)
(* Instructions are appended word by word, jumps before it is known where  *)
(* their labels are, and source locations with the offset of the           *)
(* instruction they belong to.  All the while constants that are needed    *)
(* for the first time are loaded by a prologue, inserted right after the   *)
(* first word, which moves everything emitted so far.                      *)
(*                                                                         *)
(* A word is only known by the instruction it belongs to (a number, 0 for  *)
(* Enter and the prologue), its place in it, and, if it is the target of a *)
(* jump, its value.                                                        *)
(***************************************************************************)
EXTENDS Integers, Sequences

CONSTANTS
    Labels,
    Locations,    \* SourceLocation: start and end
    NoLocation,   \* an instruction without one
    Sizes,        \* the sizes of instructions that do not jump
    Jumps,        \* size and place of the target of those that do
    MaxWords      \* bound: the size of a block

ASSUME AssemblerAssumption ==
    /\ Sizes \subseteq Nat \ {0}
    /\ Jumps \subseteq [size : Nat, target : Nat]
    /\ \A j \in Jumps : j.target \in 1 .. j.size - 1
    /\ NoLocation \notin Locations
    /\ MaxWords \in Nat

VARIABLES
    words,         \* m_instructions
    prologueSize,  \* m_prologueSize
    codeStart,     \* m_codeStart
    locations,     \* m_locationInfos
    references,    \* of each label: Label::m_references
    finalized,     \* the block is complete
    aborted,       \* a failed assertion
    count,         \* history: how many instructions were emitted
    jumps,         \* history: the jumps among them, and their labels
    linked,        \* history: the instruction each label is in front of
    located        \* history: the instructions with a location

vars == <<words, prologueSize, codeStart, locations, references, finalized, aborted,
          count, jumps, linked, located>>

----------------------------------------------------------------------------
Word(instruction, part, op) ==
    [instruction |-> instruction, part |-> part, op |-> op, value |-> 0]
\* The words of an instruction; a jump is emitted with the target 0.
Instruction(number, op, size) ==
    [k \in 1 .. size |-> Word(number, k - 1, op)]

\* A vector with words inserted in front of the iterator.
Inserted(vector, at, new) ==
    [i \in 1 .. Len(vector) + Len(new) |->
        IF i <= at THEN vector[i]
        ELSE IF i <= at + Len(new) THEN new[i - at]
        ELSE vector[i - Len(new)]]
Appended(op, size) == Inserted(words, Len(words), Instruction(count + 1, op, size))

\* (A mutant: the prologue is subtracted twice.)
AddLocationTwice(location) ==
    Append(locations, [offset |-> Len(words) - 2 * prologueSize, location |-> location])
\* addLocation(): the offset is one without the prologue, so far.
AddLocation(location) ==
    LET last == locations[Len(locations)]
    IN  IF locations # <<>> /\ (last.location = location \/ last.offset = Len(words))
        THEN locations
        ELSE Append(locations, [offset |-> Len(words) - prologueSize,
                                location |-> location])

\* (A mutant: the prologue is forgotten.)
AdjustedNever(info) == info
\* adjustOffsets()
Adjusted(info) ==
    IF info.offset > prologueSize
    THEN [info EXCEPT !.offset = @ + prologueSize] ELSE info

\* (A mutant: what was inserted since is not counted.)
PositionRecorded(r) == r.offset
\* Where a jump is when its label is linked.
Position(r) == r.offset + (prologueSize - r.prologueSize)

\* link(): each jump to the label is told how far it is.
Patched(label) ==
    [i \in 1 .. Len(words) |->
        LET here == {r \in references[label] : Position(r) + r.target + 1 = i}
        IN  IF here = {} THEN words[i]
            ELSE [words[i] EXCEPT !.value =
                    Len(words) - Position(CHOOSE r \in here : TRUE)]]

----------------------------------------------------------------------------
\* The constructor emits Enter.
Init ==
    /\ words = Instruction(0, "Enter", 1)
    /\ prologueSize = 0
    /\ codeStart = 0
    /\ locations = <<>>
    /\ references = [l \in Labels |-> {}]
    /\ finalized = FALSE
    /\ aborted = FALSE
    /\ count = 0
    /\ jumps = {}
    /\ linked = [l \in Labels |-> 0]
    /\ located = {}

Fits(size) == ~finalized /\ ~aborted /\ Len(words) + size <= MaxWords

\* emit<T>(), for those that need one after emitLocation().
Emit(size, location) ==
    /\ Fits(size)
    /\ words' = Appended("Other", size)
    /\ count' = count + 1
    /\ IF location = NoLocation
       THEN UNCHANGED <<locations, located>>
       ELSE /\ locations' = AddLocation(location)
            /\ located' = located \cup {[instruction |-> count + 1, location |-> location]}
    /\ UNCHANGED <<prologueSize, codeStart, references, finalized, aborted, jumps, linked>>

\* jump(), jumpIfFalse(), tryGetField(): the code generator only jumps forward.
EmitJump(jump, label) ==
    /\ Fits(jump.size)
    /\ linked[label] = 0
    /\ references' = [references EXCEPT ![label] = @ \cup
            {[offset |-> Len(words), prologueSize |-> prologueSize, target |-> jump.target]}]
    /\ words' = Appended("Jump", jump.size)
    /\ count' = count + 1
    /\ jumps' = jumps \cup
            {[instruction |-> count + 1, label |-> label, target |-> jump.target]}
    /\ UNCHANGED <<prologueSize, codeStart, locations, finalized, aborted, linked, located>>

\* emit(Label&), once for each label.
Link(label) ==
    /\ Fits(0)
    /\ linked[label] = 0
    /\ words' = Patched(label)
    /\ linked' = [linked EXCEPT ![label] = count + 1]
    /\ UNCHANGED <<prologueSize, codeStart, locations, references, finalized, aborted,
                   count, jumps, located>>

\* (Two mutants: no assertion, and the prologue counted by both emitPrologue().)
EmitPrologueUnchecked(size) ==
    /\ Fits(size)
    /\ words' = Inserted(words, 1, Instruction(0, "Other", size))
    /\ prologueSize' = prologueSize + size
    /\ UNCHANGED <<codeStart, locations, references, finalized, aborted, count, jumps,
                   linked, located>>
EmitPrologueTwice(size) ==
    /\ Fits(size)
    /\ words' = Inserted(words, 1, Instruction(0, "Other", size))
    /\ prologueSize' = prologueSize + 2 * size
    /\ aborted' = (codeStart # 0)
    /\ UNCHANGED <<codeStart, locations, references, finalized, count, jumps, linked,
                   located>>
\* emitPrologue(), which asserts that type checking has not ended.
EmitPrologue(size) ==
    /\ Fits(size)
    /\ words' = Inserted(words, 1, Instruction(0, "Other", size))
    /\ prologueSize' = prologueSize + size
    /\ aborted' = (codeStart # 0)
    /\ UNCHANGED <<codeStart, locations, references, finalized, count, jumps, linked,
                   located>>

\* End of one part and Enter of the other.
EndTypeChecking ==
    /\ Fits(3)
    /\ codeStart = 0
    /\ words' = Inserted(Appended("End", 2), Len(words) + 2,
                         Instruction(count + 2, "Enter", 1))
    /\ codeStart' = Len(words) + 2
    /\ count' = count + 2
    /\ UNCHANGED <<prologueSize, locations, references, finalized, aborted, jumps,
                   linked, located>>

Finalize ==
    /\ Fits(2)
    /\ words' = Appended("End", 2)
    /\ count' = count + 1
    /\ locations' = [i \in 1 .. Len(locations) |-> Adjusted(locations[i])]
    /\ finalized' = TRUE
    /\ UNCHANGED <<prologueSize, codeStart, references, aborted, jumps, linked, located>>

Next ==
    \/ \E size \in Sizes, location \in Locations \cup {NoLocation} : Emit(size, location)
    \/ \E jump \in Jumps, label \in Labels : EmitJump(jump, label)
    \/ \E label \in Labels : Link(label)
    \/ \E size \in Sizes : EmitPrologue(size)
    \/ EndTypeChecking
    \/ Finalize

Spec == Init /\ [][Next]_vars

----------------------------------------------------------------------------
(* What is done with a finished block.                                     *)

\* locationInfo(): a binary search for the last entry that is not after offset.
LocationInfo(offset) ==
    LET after[r \in [low : 0 .. Len(locations), high : 0 .. Len(locations)]] ==
            LET mid == r.low + (r.high - r.low) \div 2
            IN  IF r.low >= r.high THEN r.low
                ELSE IF locations[mid + 1].offset <= offset
                THEN after[[low |-> mid + 1, high |-> r.high]]
                ELSE after[[low |-> r.low, high |-> mid]]
        found == after[[low |-> 0, high |-> Len(locations)]]
    IN  locations[IF found = 0 THEN 1 ELSE found].location

Starts(i, number) == words[i].instruction = number /\ words[i].part = 0

----------------------------------------------------------------------------
(* Properties                                                              *)

TypeOK ==
    /\ words \in Seq([instruction : Nat, part : Nat, op : {"Enter", "End", "Jump", "Other"},
                      value : Int])
    /\ prologueSize \in 0 .. Len(words) - 1
    /\ codeStart \in 0 .. Len(words)
    /\ locations \in Seq([offset : Int, location : Locations])
    /\ references \in
         [Labels -> SUBSET [offset : Nat, prologueSize : Nat, target : Nat]]
    /\ finalized \in BOOLEAN /\ aborted \in BOOLEAN
    /\ count \in Nat
    /\ jumps \subseteq [instruction : Nat, label : Labels, target : Nat]
    /\ linked \in [Labels -> Nat]
    /\ located \subseteq [instruction : Nat, location : Locations]

\* A jump leads to the instruction its label was put in front of, however much
\* was inserted before, between and after the two.
JumpsLand ==
    \A j \in jumps : \A i \in DOMAIN words :
        Starts(i, j.instruction) /\ linked[j.label] \in 1 .. count =>
            LET to == i + words[i + j.target].value
            IN  to \in DOMAIN words /\ Starts(to, linked[j.label])

\* The part that runs begins with its Enter.
CodeStartsAtEnter ==
    codeStart # 0 /\ ~aborted =>
        codeStart + 1 \in DOMAIN words /\ words[codeStart + 1].op = "Enter"

\* The assertions of adjustOffsets, before and after.
LocationsAreOrdered ==
    \A i, k \in DOMAIN locations :
        i < k => locations[i].offset <= locations[k].offset

\* An instruction that is further from the start than the prologue is long is
\* reported at its own location.  (For those in front it is not so.)
LocationsAreFound ==
    finalized => \A l \in located : \A i \in DOMAIN words :
        Starts(i, l.instruction) /\ i - 1 > 2 * prologueSize =>
            LocationInfo(i - 1) = l.location

=============================================================================
