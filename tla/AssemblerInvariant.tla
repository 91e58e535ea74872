------------------------- MODULE AssemblerInvariant -------------------------
(***************************************************************************)
(* What Assembler's properties rest on, as an invariant that its steps     *)
(* preserve.                                                               *)
(***************************************************************************)
EXTENDS Assembler

\* Enter and the prologue come first, and the rest belongs to instructions.
PrologueIsFirst ==
    \A i \in DOMAIN words :
        /\ words[i].instruction \in 0 .. count
        /\ words[i].instruction = 0 <=> i <= 1 + prologueSize

\* The words of an instruction stay together, in order.
InstructionsAreWhole ==
    \A i, k \in DOMAIN words :
        words[i].instruction = words[k].instruction /\ words[i].instruction # 0 =>
            i - words[i].part = k - words[k].part

\* A jump has its target, and no two jumps are the same instruction.
HasTarget(j) ==
    /\ j.instruction \in 1 .. count
    /\ \A i \in DOMAIN words : Starts(i, j.instruction) =>
         /\ i + j.target \in DOMAIN words
         /\ words[i + j.target].instruction = j.instruction
         /\ words[i + j.target].part = j.target
JumpsHaveTargets ==
    /\ \A j \in jumps : HasTarget(j)
    /\ \A j, k \in jumps : j.instruction = k.instruction => j = k

\* Each reference of a label is to a jump, and each jump is referred to.
IsReferenceTo(r, j) ==
    /\ r.target = j.target
    /\ Position(r) + 1 \in DOMAIN words
    /\ Starts(Position(r) + 1, j.instruction)
ReferencesAreJumps ==
    /\ \A label \in Labels : \A r \in references[label] :
         \E j \in jumps : j.label = label /\ IsReferenceTo(r, j)
    /\ \A j \in jumps : \E r \in references[j.label] : IsReferenceTo(r, j)

\* Where a linked label is: in front of its instruction, or at the end.
IsAt(index, number) ==
    IF number <= count THEN index \in DOMAIN words /\ Starts(index, number)
    ELSE index = Len(words) + 1
LeadsToLabel(j) ==
    \A i \in DOMAIN words : Starts(i, j.instruction) /\ linked[j.label] # 0 =>
        IsAt(i + words[i + j.target].value, linked[j.label])
LabelsArePlaced ==
    /\ \A label \in Labels : linked[label] <= count + 1
    /\ \A j \in jumps : LeadsToLabel(j)

\* Until the block is finalized an offset is one without the prologue.
OffsetsAreBounded ==
    ~finalized => \A i \in DOMAIN locations :
        locations[i].offset < Len(words) - prologueSize

\* The entry whose offsets, up to those of the next entry, include this one.
Covers(k, offset) ==
    /\ locations[k].offset <= offset
    /\ k + 1 \in DOMAIN locations => locations[k + 1].offset > offset
HasEntry(offset, location) ==
    \E k \in DOMAIN locations : locations[k].location = location /\ Covers(k, offset)

\* Each instruction with a location is covered by an entry that has it: until the block
\* is finalized, by offset without the prologue; then, if far enough, by offset.
IsCovered(l) ==
    \A i \in DOMAIN words : Starts(i, l.instruction) =>
        /\ ~finalized => HasEntry(i - 1 - prologueSize, l.location)
        /\ finalized /\ i - 1 > 2 * prologueSize => HasEntry(i - 1, l.location)
LocationsCover ==
    \A l \in located : l.instruction \in 1 .. count /\ IsCovered(l)

\* The invariant of the assembler: blocks have this layout after every step.
Layout ==
    /\ PrologueIsFirst
    /\ InstructionsAreWhole
    /\ JumpsHaveTargets
    /\ ReferencesAreJumps
    /\ LabelsArePlaced
    /\ OffsetsAreBounded
    /\ LocationsAreOrdered
    /\ LocationsCover
    /\ CodeStartsAtEnter

=============================================================================
