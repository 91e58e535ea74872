-------------------------- MODULE AssemblerProofs --------------------------
(***************************************************************************)
(* Proofs about the assembler, for every set of labels, locations, sizes   *)
(* and jumps, and blocks of any length.                                    *)
(***************************************************************************)
EXTENDS AssemblerInvariant, NaturalFacts, TLAPS

Op == {"Enter", "End", "Jump", "Other"}
Words == [instruction : Nat, part : Nat, op : Op, value : Int]
Entry == [offset : Int, location : Locations]

-----------------------------------------------------------------------------
(* The operators on vectors                                                *)

\* A function on 1 .. n is a sequence of length n.
LEMMA FunctionIsSequence ==
    ASSUME NEW S, NEW n \in Nat, NEW f \in [1 .. n -> S]
    PROVE  f \in Seq(S) /\ Len(f) = n /\ DOMAIN f = 1 .. n
  OBVIOUS

LEMMA DomainOfSequence ==
    ASSUME NEW S, NEW s \in Seq(S)
    PROVE  /\ DOMAIN s = 1 .. Len(s) /\ Len(s) \in Nat
           /\ \A i \in 1 .. Len(s) : s[i] \in S
  OBVIOUS

\* A new instruction is as long as its size, and its words are numbered.
LEMMA InstructionWords ==
    ASSUME NEW number \in Nat, NEW op \in Op, NEW size \in Nat
    PROVE  /\ Instruction(number, op, size) \in Seq(Words)
           /\ Len(Instruction(number, op, size)) = size
           /\ \A k \in 1 .. size :
                Instruction(number, op, size)[k] = Word(number, k - 1, op)
<1>1. \A k \in 1 .. size : Word(number, k - 1, op) \in Words
  BY DEF Word, Words
<1>2. Instruction(number, op, size) \in [1 .. size -> Words]
  BY <1>1 DEF Instruction
<1> QED
  BY <1>2, FunctionIsSequence DEF Instruction

\* Insertion keeps what is in front, then has the new, then what was behind.
LEMMA Insertion ==
    ASSUME NEW S, NEW v \in Seq(S), NEW new \in Seq(S), NEW at \in 0 .. Len(v)
    PROVE  /\ Inserted(v, at, new) \in Seq(S)
           /\ Len(Inserted(v, at, new)) = Len(v) + Len(new)
           /\ \A i \in 1 .. Len(v) + Len(new) :
                /\ i <= at => Inserted(v, at, new)[i] = v[i]
                /\ i > at /\ i <= at + Len(new) => Inserted(v, at, new)[i] = new[i - at]
                /\ i > at + Len(new) => Inserted(v, at, new)[i] = v[i - Len(new)]
<1> DEFINE n == Len(v) + Len(new)
<1>1. n \in Nat /\ Len(v) \in Nat /\ Len(new) \in Nat
  BY DomainOfSequence
<1>2. \A i \in 1 .. n : Inserted(v, at, new)[i] =
        IF i <= at THEN v[i]
        ELSE IF i <= at + Len(new) THEN new[i - at] ELSE v[i - Len(new)]
  BY DEF Inserted
<1>3. \A i \in 1 .. n : Inserted(v, at, new)[i] \in S
  <2> TAKE i \in 1 .. n
  <2>1. CASE i <= at
    <3>1. i \in 1 .. Len(v)
      BY <2>1, <1>1
    <3> QED
      BY <2>1, <3>1, <1>2, DomainOfSequence
  <2>2. CASE ~(i <= at) /\ i <= at + Len(new)
    <3>1. i - at \in 1 .. Len(new)
      BY <2>2, <1>1
    <3> QED
      BY <2>2, <3>1, <1>2, DomainOfSequence
  <2>3. CASE ~(i <= at) /\ ~(i <= at + Len(new))
    <3>1. i - Len(new) \in 1 .. Len(v)
      BY <2>3, <1>1
    <3> QED
      BY <2>3, <3>1, <1>2, DomainOfSequence
  <2> QED
    BY <2>1, <2>2, <2>3
<1>4. Inserted(v, at, new) \in [1 .. n -> S]
  BY <1>3 DEF Inserted
<1>5. Inserted(v, at, new) \in Seq(S) /\ Len(Inserted(v, at, new)) = n
  BY <1>1, <1>4, FunctionIsSequence
<1> QED
  BY <1>1, <1>2, <1>5

\* What an appended instruction leaves and adds.
LEMMA Appending ==
    ASSUME words \in Seq(Words), count \in Nat, NEW op \in Op, NEW size \in Nat
    PROVE  /\ Appended(op, size) \in Seq(Words)
           /\ Len(Appended(op, size)) = Len(words) + size
           /\ \A i \in 1 .. Len(words) : Appended(op, size)[i] = words[i]
           /\ \A i \in Len(words) + 1 .. Len(words) + size :
                Appended(op, size)[i] = Word(count + 1, i - Len(words) - 1, op)
<1> DEFINE new == Instruction(count + 1, op, size)
<1>1. Len(words) \in Nat /\ Len(words) \in 0 .. Len(words)
  BY DomainOfSequence
<1>2. /\ new \in Seq(Words) /\ Len(new) = size
      /\ \A k \in 1 .. size : new[k] = Word(count + 1, k - 1, op)
  BY InstructionWords
<1>3. Appended(op, size) = Inserted(words, Len(words), new)
  BY DEF Appended
<1> HIDE DEF new
<1>4. /\ Appended(op, size) \in Seq(Words)
      /\ Len(Appended(op, size)) = Len(words) + size
  BY <1>1, <1>2, <1>3, Insertion
<1>5. ASSUME NEW i \in 1 .. Len(words) + size
      PROVE  /\ i <= Len(words) => Appended(op, size)[i] = words[i]
             /\ i > Len(words) => Appended(op, size)[i] = new[i - Len(words)]
  BY <1>1, <1>2, <1>3, <1>5 DEF Inserted
<1>6. ASSUME NEW i \in Len(words) + 1 .. Len(words) + size
      PROVE  Appended(op, size)[i] = Word(count + 1, i - Len(words) - 1, op)
  <2>1. i - Len(words) \in 1 .. size
    BY <1>1, <1>6
  <2> QED
    <3>1. Appended(op, size)[i] = new[i - Len(words)]
      BY <1>1, <1>5, <1>6
    <3> QED
      BY <1>2, <2>1, <3>1
<1> QED
  BY <1>1, <1>4, <1>5, <1>6

\* Linking changes nothing but values.
LEMMA Patching ==
    ASSUME TypeOK, NEW label \in Labels
    PROVE  /\ Patched(label) \in Seq(Words)
           /\ Len(Patched(label)) = Len(words)
           /\ \A i \in 1 .. Len(words) :
                /\ Patched(label)[i].instruction = words[i].instruction
                /\ Patched(label)[i].part = words[i].part
                /\ Patched(label)[i].op = words[i].op
           /\ \A i \in 1 .. Len(words) :
                LET here == {r \in references[label] : Position(r) + r.target + 1 = i}
                IN  Patched(label)[i].value =
                      IF here = {} THEN words[i].value
                      ELSE Len(words) - Position(CHOOSE r \in here : TRUE)
<1>1. words \in Seq(Words) /\ Len(words) \in Nat /\ prologueSize \in Int
  <2>1. words \in Seq(Words)
    BY DEF TypeOK, Words, Op
  <2> QED
    BY <2>1, DomainOfSequence DEF TypeOK
<1>2. references[label] \subseteq [offset : Nat, prologueSize : Nat, target : Nat]
  BY DEF TypeOK
<1> DEFINE Here(i) == {r \in references[label] : Position(r) + r.target + 1 = i}
           NewValue(i) == Len(words) - Position(CHOOSE r \in Here(i) : TRUE)
<1>3. \A i \in 1 .. Len(words) : Here(i) # {} => NewValue(i) \in Int
  <2> SUFFICES ASSUME NEW i \in 1 .. Len(words), Here(i) # {} PROVE NewValue(i) \in Int
    OBVIOUS
  <2> DEFINE r == CHOOSE r \in Here(i) : TRUE
  <2>1. r \in references[label]
    OBVIOUS
  <2> HIDE DEF r
  <2>2. Position(r) \in Int
    BY <1>1, <1>2, <2>1 DEF Position
  <2> QED
    BY <1>1, <2>2 DEF r
<1>4. \A i \in 1 .. Len(words) :
        Patched(label)[i] = IF Here(i) = {} THEN words[i]
                            ELSE [words[i] EXCEPT !.value = NewValue(i)]
  BY DEF Patched
<1>5. \A i \in 1 .. Len(words) : words[i] \in Words
  BY <1>1, DomainOfSequence
<1> HIDE DEF Here, NewValue
<1>6. \A i \in 1 .. Len(words) :
        /\ Patched(label)[i] \in Words
        /\ Patched(label)[i].instruction = words[i].instruction
        /\ Patched(label)[i].part = words[i].part
        /\ Patched(label)[i].op = words[i].op
        /\ Patched(label)[i].value =
             IF Here(i) = {} THEN words[i].value ELSE NewValue(i)
  BY <1>3, <1>4, <1>5 DEF Words
<1>7. Patched(label) \in [1 .. Len(words) -> Words]
  BY <1>6 DEF Patched
<1>8. Patched(label) \in Seq(Words) /\ Len(Patched(label)) = Len(words)
  BY <1>1, <1>7, FunctionIsSequence
<1> QED
  BY <1>6, <1>8 DEF Here, NewValue

\* addLocation() adds at most one entry, with the offset of the end.
LEMMA AddingLocation ==
    ASSUME TypeOK, NEW location \in Locations
    PROVE  /\ locations \in Seq(Entry)
           /\ AddLocation(location) \in Seq(Entry)
           /\ \/ AddLocation(location) = locations
              \/ /\ Len(AddLocation(location)) = Len(locations) + 1
                 /\ \A i \in 1 .. Len(locations) : AddLocation(location)[i] = locations[i]
                 /\ AddLocation(location)[Len(locations) + 1].offset
                      = Len(words) - prologueSize
<1>1. locations \in Seq(Entry)
  BY DEF TypeOK, Entry
<1>2. Len(words) \in Int /\ prologueSize \in Int
  BY DEF TypeOK
<1> DEFINE e == [offset |-> Len(words) - prologueSize, location |-> location]
<1>3. e \in Entry /\ e.offset = Len(words) - prologueSize
  BY <1>2 DEF Entry
<1>4. AddLocation(location) \in {locations, Append(locations, e)}
  BY DEF AddLocation
<1> HIDE DEF e
<1>5. CASE AddLocation(location) = Append(locations, e)
  BY <1>1, <1>3, <1>5
<1> QED
  BY <1>1, <1>4, <1>5

\* adjustOffsets() keeps the entries in their places.
LEMMA Adjusting ==
    ASSUME TypeOK, NEW ls, ls = [i \in 1 .. Len(locations) |-> Adjusted(locations[i])]
    PROVE  /\ ls \in Seq(Entry) /\ Len(ls) = Len(locations)
           /\ DOMAIN locations = 1 .. Len(locations) /\ DOMAIN ls = 1 .. Len(locations)
           /\ \A i \in 1 .. Len(locations) :
                /\ locations[i].offset \in Int
                /\ ls[i].offset = IF locations[i].offset > prologueSize
                                  THEN locations[i].offset + prologueSize
                                  ELSE locations[i].offset
<1>1. locations \in Seq(Entry) /\ Len(locations) \in Nat /\ prologueSize \in Int
      /\ DOMAIN locations = 1 .. Len(locations)
      /\ \A i \in 1 .. Len(locations) : locations[i] \in Entry
  <2>1. locations \in Seq(Entry) /\ prologueSize \in Int
    BY DEF TypeOK, Entry
  <2> QED
    BY <2>1, DomainOfSequence
<1>2. \A i \in 1 .. Len(locations) :
        /\ Adjusted(locations[i]) \in Entry
        /\ locations[i].offset \in Int
        /\ Adjusted(locations[i]).offset =
             IF locations[i].offset > prologueSize
             THEN locations[i].offset + prologueSize ELSE locations[i].offset
  BY <1>1 DEF Adjusted, Entry
<1>3. ls \in [1 .. Len(locations) -> Entry]
  BY <1>2
<1> QED
  BY <1>1, <1>2, <1>3, FunctionIsSequence

-----------------------------------------------------------------------------
(* What the steps do to the words                                          *)

\* One instruction, or two, are appended.
Extends ==
    /\ words' \in Seq(Words)
    /\ Len(words') > Len(words)
    /\ count' \in Nat /\ count' > count
    /\ \A i \in 1 .. Len(words) : words'[i] = words[i]
    /\ \A i \in Len(words) + 1 .. Len(words') :
         words'[i].instruction \in count + 1 .. count'
    /\ words'[Len(words) + 1].instruction = count + 1
    /\ words'[Len(words) + 1].part = 0
    /\ \A i, k \in Len(words) + 1 .. Len(words') :
         words'[i].instruction = words'[k].instruction =>
             i - words'[i].part = k - words'[k].part

LEMMA Extending ==
    ASSUME TypeOK, NEW op \in Op, NEW size \in Nat \ {0},
           words' = Appended(op, size), count' = count + 1
    PROVE  /\ Extends
           /\ Len(words') = Len(words) + size
           /\ \A i \in Len(words) + 1 .. Len(words') :
                words'[i] = Word(count + 1, i - Len(words) - 1, op)
<1>1. words \in Seq(Words) /\ count \in Nat /\ Len(words) \in Nat
  <2>1. words \in Seq(Words) /\ count \in Nat
    BY DEF TypeOK, Words, Op
  <2> QED
    BY <2>1, DomainOfSequence
<1>2. /\ words' \in Seq(Words)
      /\ Len(words') = Len(words) + size
      /\ \A i \in 1 .. Len(words) : words'[i] = words[i]
      /\ \A i \in Len(words) + 1 .. Len(words) + size :
           words'[i] = Word(count + 1, i - Len(words) - 1, op)
  BY <1>1, Appending
<1>3. ASSUME NEW i \in Len(words) + 1 .. Len(words) + size
      PROVE  words'[i].instruction = count + 1 /\ words'[i].part = i - Len(words) - 1
  <2>1. words'[i] = Word(count + 1, i - Len(words) - 1, op)
    BY <1>2
  <2> QED
    BY <2>1 DEF Word
<1>4. Len(words) + 1 \in Len(words) + 1 .. Len(words) + size
  BY <1>1
<1>5. words'[Len(words) + 1].instruction = count + 1 /\ words'[Len(words) + 1].part = 0
  BY <1>1, <1>3, <1>4
<1>6. ASSUME NEW i \in Len(words) + 1 .. Len(words'), NEW k \in Len(words) + 1 .. Len(words')
      PROVE  /\ words'[i].instruction \in count + 1 .. count'
             /\ i - words'[i].part = k - words'[k].part
  <2>1. count' = count + 1 /\ Len(words') = Len(words) + size
    BY <1>2
  <2>2. i \in Len(words) + 1 .. Len(words) + size /\ k \in Len(words) + 1 .. Len(words) + size
    BY <1>6, <2>1
  <2>3. /\ words'[i].instruction = count + 1 /\ words'[i].part = i - Len(words) - 1
        /\ words'[k].part = k - Len(words) - 1
    BY <1>3, <2>2
  <2> QED
    BY <1>1, <2>1, <2>2, <2>3
<1>7. Extends
  BY <1>1, <1>2, <1>5, <1>6 DEF Extends
<1> QED
  BY <1>2, <1>7

LEMMA EndingTypeChecking ==
    ASSUME TypeOK, EndTypeChecking
    PROVE  /\ Extends
           /\ Len(words') = Len(words) + 3
           /\ codeStart' = Len(words) + 2
           /\ words'[Len(words) + 3].op = "Enter"
<1> DEFINE N == Len(words)
           ended == Appended("End", 2)
           enter == Instruction(count + 2, "Enter", 1)
<1>1. words \in Seq(Words) /\ count \in Nat /\ N \in Nat
  <2>1. words \in Seq(Words) /\ count \in Nat
    BY DEF TypeOK, Words, Op
  <2> QED
    BY <2>1, DomainOfSequence
<1>2. /\ ended \in Seq(Words)
      /\ Len(ended) = N + 2
      /\ \A i \in 1 .. N : ended[i] = words[i]
      /\ \A i \in N + 1 .. N + 2 : ended[i] = Word(count + 1, i - N - 1, "End")
  BY <1>1, Appending DEF Op
<1>3. enter \in Seq(Words) /\ Len(enter) = 1 /\ enter[1] = Word(count + 2, 0, "Enter")
  <2>1. count + 2 \in Nat /\ "Enter" \in Op
    BY <1>1 DEF Op
  <2>2. /\ enter \in Seq(Words) /\ Len(enter) = 1
        /\ \A k \in 1 .. 1 : enter[k] = Word(count + 2, k - 1, "Enter")
    BY <2>1, InstructionWords, ZenonT(30)
  <2>3. 1 \in 1 .. 1 /\ 1 - 1 = 0
    OBVIOUS
  <2> HIDE DEF enter
  <2> QED
    BY <2>2, <2>3, Zenon
<1>4. /\ words' = Inserted(ended, N + 2, enter)
      /\ codeStart' = N + 2 /\ count' = count + 2
  BY DEF EndTypeChecking
<1> HIDE DEF ended, enter
<1>5. words' \in Seq(Words) /\ Len(words') = N + 3
  <2>1. N + 2 \in 0 .. Len(ended)
    BY <1>1, <1>2
  <2>2. words' \in Seq(Words) /\ Len(words') = Len(ended) + Len(enter)
    BY <1>2, <1>3, <1>4, <2>1, Insertion, ZenonT(30)
  <2> QED
    BY <1>1, <1>2, <1>3, <2>2
<1>6. /\ \A i \in 1 .. N + 2 : words'[i] = ended[i]
      /\ words'[N + 3] = enter[1]
  BY <1>1, <1>2, <1>3, <1>4, <1>5 DEF Inserted
<1>7. /\ \A i \in 1 .. N : words'[i] = words[i]
      /\ words'[N + 1] = Word(count + 1, 0, "End")
      /\ words'[N + 2] = Word(count + 1, 1, "End")
      /\ words'[N + 3] = Word(count + 2, 0, "Enter")
  <2>1. /\ N + 1 \in N + 1 .. N + 2 /\ N + 2 \in N + 1 .. N + 2
        /\ N + 1 \in 1 .. N + 2 /\ N + 2 \in 1 .. N + 2
        /\ (N + 1) - N - 1 = 0 /\ (N + 2) - N - 1 = 1
    BY <1>1
  <2>2. ended[N + 1] = Word(count + 1, 0, "End") /\ ended[N + 2] = Word(count + 1, 1, "End")
    BY <1>2, <2>1
  <2>3. \A i \in 1 .. N : words'[i] = words[i]
    BY <1>1, <1>2, <1>6
  <2> QED
    BY <1>3, <1>6, <2>1, <2>2, <2>3
<1>8. \A i \in N + 1 .. Len(words') : i = N + 1 \/ i = N + 2 \/ i = N + 3
  BY <1>1, <1>5
<1>9. /\ words'[N + 1].instruction = count + 1 /\ words'[N + 1].part = 0
      /\ words'[N + 2].instruction = count + 1 /\ words'[N + 2].part = 1
      /\ words'[N + 3].instruction = count + 2 /\ words'[N + 3].part = 0
      /\ words'[N + 3].op = "Enter"
  BY <1>7 DEF Word
<1>10. \A i \in N + 1 .. Len(words') : words'[i].instruction \in count + 1 .. count'
  BY <1>1, <1>4, <1>8, <1>9
<1>11. ASSUME NEW i \in N + 1 .. Len(words'), NEW k \in N + 1 .. Len(words'),
              words'[i].instruction = words'[k].instruction
       PROVE  i - words'[i].part = k - words'[k].part
  BY <1>1, <1>8, <1>9, <1>11, SMTT(30)
<1>12. Extends
  BY <1>1, <1>4, <1>5, <1>7, <1>9, <1>10, <1>11 DEF Extends
<1> QED
  BY <1>4, <1>5, <1>9, <1>12

LEMMA EmittingPrologue ==
    ASSUME TypeOK, NEW size \in Nat \ {0}, EmitPrologue(size)
    PROVE  /\ words' \in Seq(Words)
           /\ Len(words') = Len(words) + size
           /\ words'[1] = words[1]
           /\ \A i \in 2 .. 1 + size : words'[i].instruction = 0
           /\ \A i \in 2 + size .. Len(words') : words'[i] = words[i - size]
<1> DEFINE new == Instruction(0, "Other", size)
<1>1. words \in Seq(Words) /\ Len(words) \in Nat /\ 1 \in 0 .. Len(words)
  <2>1. words \in Seq(Words) /\ Len(words) - 1 \in Nat
    BY DEF TypeOK, Words, Op
  <2> QED
    BY <2>1, DomainOfSequence
<1>2. /\ new \in Seq(Words) /\ Len(new) = size
      /\ \A k \in 1 .. size : new[k] = Word(0, k - 1, "Other")
  BY InstructionWords DEF Op
<1>3. words' = Inserted(words, 1, new)
  BY DEF EmitPrologue
<1> HIDE DEF new
<1>4. words' \in Seq(Words) /\ Len(words') = Len(words) + size
  BY <1>1, <1>2, <1>3, Insertion
<1>5. /\ words'[1] = words[1]
      /\ \A i \in 2 .. 1 + size : words'[i] = new[i - 1]
      /\ \A i \in 2 + size .. Len(words') : words'[i] = words[i - size]
  BY <1>1, <1>2, <1>3, <1>4 DEF Inserted
<1>6. \A k \in 1 .. size : new[k].instruction = 0
  BY <1>2 DEF Word
<1>7. \A i \in 2 .. 1 + size : i - 1 \in 1 .. size
  OBVIOUS
<1>8. \A i \in 2 .. 1 + size : words'[i].instruction = 0
  BY <1>5, <1>6, <1>7
<1> QED
  BY <1>4, <1>5, <1>8

-----------------------------------------------------------------------------
(* Typing                                                                  *)

LEMMA JumpSizes ==
    ASSUME NEW jump \in Jumps
    PROVE  /\ jump.size \in Nat \ {0} /\ jump.target \in Nat
           /\ jump.target \in 1 .. jump.size - 1
  BY AssemblerAssumption

LEMMA TypedVariables ==
    ASSUME TypeOK
    PROVE  /\ words \in Seq(Words) /\ Len(words) \in Nat /\ DOMAIN words = 1 .. Len(words)
           /\ \A i \in 1 .. Len(words) : words[i] \in Words
           /\ prologueSize \in Nat /\ prologueSize + 1 <= Len(words)
           /\ codeStart \in Nat /\ codeStart <= Len(words)
           /\ locations \in Seq(Entry)
           /\ count \in Nat
<1>1. words \in Seq(Words) /\ locations \in Seq(Entry)
  BY DEF TypeOK, Words, Op, Entry
<1>2. Len(words) \in Nat /\ DOMAIN words = 1 .. Len(words)
      /\ \A i \in 1 .. Len(words) : words[i] \in Words
  BY <1>1, DomainOfSequence
<1> QED
  BY <1>1, <1>2 DEF TypeOK

LEMMA TypedLocations ==
    ASSUME TypeOK
    PROVE  /\ DOMAIN locations = 1 .. Len(locations) /\ Len(locations) \in Nat
           /\ \A i \in 1 .. Len(locations) : locations[i].offset \in Int
<1>1. locations \in Seq(Entry)
  BY TypedVariables
<1>2. /\ DOMAIN locations = 1 .. Len(locations) /\ Len(locations) \in Nat
      /\ \A i \in 1 .. Len(locations) : locations[i] \in Entry
  BY <1>1, DomainOfSequence
<1> QED
  BY <1>2 DEF Entry

\* Longer words leave the sizes and offsets in their ranges.
LEMMA LongerWords ==
    ASSUME TypeOK, words' \in Seq(Words), Len(words') >= Len(words), Len(words') \in Nat,
           prologueSize' = prologueSize, codeStart' \in 0 .. Len(words')
    PROVE  /\ words' \in Seq([instruction : Nat, part : Nat,
                              op : {"Enter", "End", "Jump", "Other"}, value : Int])
           /\ prologueSize' \in 0 .. Len(words') - 1
           /\ codeStart' \in 0 .. Len(words')
  BY TypedVariables DEF Words, Op

LEMMA InitType == Init => TypeOK
<1> SUFFICES ASSUME Init PROVE TypeOK
  OBVIOUS
<1>1. "Enter" \in Op /\ 1 \in Nat /\ 0 \in Nat
  BY DEF Op
<1>2. words \in Seq(Words) /\ Len(words) = 1
  BY <1>1, InstructionWords DEF Init
<1>3. locations \in Seq([offset : Int, location : Locations])
  BY DEF Init
<1>4. words \in Seq([instruction : Nat, part : Nat, op : {"Enter", "End", "Jump", "Other"},
                     value : Int])
  BY <1>2 DEF Words, Op
<1>5. prologueSize \in 0 .. Len(words) - 1 /\ codeStart \in 0 .. Len(words)
  <2>1. prologueSize = 0 /\ codeStart = 0
    BY DEF Init
  <2> QED
    BY <1>2, <2>1
<1>6. /\ references \in [Labels -> SUBSET [offset : Nat, prologueSize : Nat, target : Nat]]
      /\ finalized \in BOOLEAN /\ aborted \in BOOLEAN
      /\ count \in Nat
      /\ jumps \subseteq [instruction : Nat, label : Labels, target : Nat]
      /\ linked \in [Labels -> Nat]
      /\ located \subseteq [instruction : Nat, location : Locations]
  BY DEF Init
<1> QED
  BY <1>3, <1>4, <1>5, <1>6, Zenon DEF TypeOK

LEMMA EmitType ==
    ASSUME TypeOK, NEW size \in Sizes, NEW location \in Locations \cup {NoLocation},
           Emit(size, location)
    PROVE  TypeOK'
<1>1. words' = Appended("Other", size) /\ count' = count + 1 /\ size \in Nat \ {0}
  BY AssemblerAssumption DEF Emit
<1>2. words' \in Seq(Words) /\ Len(words') > Len(words) /\ Len(words') \in Nat
  <2>1. Len(words') = Len(words) + size /\ Extends
    BY <1>1, Extending DEF Op
  <2> QED
    BY <1>1, <2>1, TypedVariables DEF Extends
<1>3. /\ words' \in Seq([instruction : Nat, part : Nat,
                         op : {"Enter", "End", "Jump", "Other"}, value : Int])
      /\ prologueSize' \in 0 .. Len(words') - 1
      /\ codeStart' \in 0 .. Len(words')
  BY <1>2, LongerWords, TypedVariables DEF Emit
<1>4. /\ locations' \in Seq([offset : Int, location : Locations])
      /\ located' \subseteq [instruction : Nat, location : Locations]
  <2>1. CASE location = NoLocation
    BY <2>1 DEF Emit, TypeOK
  <2>2. CASE location # NoLocation
    <3>1. location \in Locations
      BY <2>2
    <3>2. locations' \in Seq(Entry)
      BY <2>2, <3>1, AddingLocation DEF Emit
    <3>3. located' \subseteq [instruction : Nat, location : Locations]
      BY <2>2, <3>1 DEF Emit, TypeOK
    <3> QED
      BY <3>2, <3>3 DEF Entry
  <2> QED
    BY <2>1, <2>2
<1>5. /\ references' \in [Labels -> SUBSET [offset : Nat, prologueSize : Nat, target : Nat]]
      /\ finalized' \in BOOLEAN /\ aborted' \in BOOLEAN
      /\ count' \in Nat
      /\ jumps' \subseteq [instruction : Nat, label : Labels, target : Nat]
      /\ linked' \in [Labels -> Nat]
  BY DEF Emit, TypeOK
<1> QED
  BY <1>3, <1>4, <1>5, Zenon DEF TypeOK

LEMMA EmitJumpType ==
    ASSUME TypeOK, NEW jump \in Jumps, NEW label \in Labels, EmitJump(jump, label)
    PROVE  TypeOK'
<1>1. words' = Appended("Jump", jump.size) /\ count' = count + 1
  BY DEF EmitJump
<1>2. words' \in Seq(Words) /\ Len(words') > Len(words) /\ Len(words') \in Nat
  <2>1. Len(words') = Len(words) + jump.size /\ Extends
    BY <1>1, Extending, JumpSizes DEF Op
  <2> QED
    BY <1>1, <2>1, TypedVariables, JumpSizes DEF Extends
<1>3. /\ words' \in Seq([instruction : Nat, part : Nat,
                         op : {"Enter", "End", "Jump", "Other"}, value : Int])
      /\ prologueSize' \in 0 .. Len(words') - 1
      /\ codeStart' \in 0 .. Len(words')
  BY <1>2, LongerWords, TypedVariables DEF EmitJump
<1> DEFINE r == [offset |-> Len(words), prologueSize |-> prologueSize, target |-> jump.target]
<1>4. r \in [offset : Nat, prologueSize : Nat, target : Nat]
  BY JumpSizes, TypedVariables
<1>5. references' \in [Labels -> SUBSET [offset : Nat, prologueSize : Nat, target : Nat]]
  <2>1. references' = [references EXCEPT ![label] = @ \cup {r}]
    BY DEF EmitJump
  <2> QED
    BY <1>4, <2>1 DEF TypeOK
<1> HIDE DEF r
<1>6. jumps' \subseteq [instruction : Nat, label : Labels, target : Nat]
  <2>1. jumps' = jumps \cup
            {[instruction |-> count + 1, label |-> label, target |-> jump.target]}
    BY DEF EmitJump
  <2>2. jumps \subseteq [instruction : Nat, label : Labels, target : Nat] /\ count \in Nat
    BY DEF TypeOK
  <2>3. jump.target \in Nat
    BY JumpSizes
  <2> QED
    BY <2>1, <2>2, <2>3
<1>7. /\ locations' \in Seq([offset : Int, location : Locations])
      /\ finalized' \in BOOLEAN /\ aborted' \in BOOLEAN
      /\ count' \in Nat
      /\ linked' \in [Labels -> Nat]
      /\ located' \subseteq [instruction : Nat, location : Locations]
  BY DEF EmitJump, TypeOK
<1> QED
  BY <1>3, <1>5, <1>6, <1>7, Zenon DEF TypeOK

LEMMA LinkType ==
    ASSUME TypeOK, NEW label \in Labels, Link(label)
    PROVE  TypeOK'
<1>1. words' \in Seq(Words) /\ Len(words') = Len(words) /\ Len(words') \in Nat
  BY Patching, TypedVariables DEF Link
<1>2. /\ words' \in Seq([instruction : Nat, part : Nat,
                         op : {"Enter", "End", "Jump", "Other"}, value : Int])
      /\ prologueSize' \in 0 .. Len(words') - 1
      /\ codeStart' \in 0 .. Len(words')
  BY <1>1, LongerWords, TypedVariables DEF Link
<1>3. /\ locations' \in Seq([offset : Int, location : Locations])
      /\ references' \in [Labels -> SUBSET [offset : Nat, prologueSize : Nat, target : Nat]]
      /\ finalized' \in BOOLEAN /\ aborted' \in BOOLEAN
      /\ count' \in Nat
      /\ jumps' \subseteq [instruction : Nat, label : Labels, target : Nat]
      /\ linked' \in [Labels -> Nat]
      /\ located' \subseteq [instruction : Nat, location : Locations]
  BY DEF Link, TypeOK
<1> QED
  BY <1>2, <1>3, Zenon DEF TypeOK

LEMMA EmitPrologueType ==
    ASSUME TypeOK, NEW size \in Sizes, EmitPrologue(size)
    PROVE  TypeOK'
<1>1. size \in Nat \ {0}
  BY AssemblerAssumption
<1>2. words' \in Seq(Words) /\ Len(words') = Len(words) + size
  BY <1>1, EmittingPrologue
<1>3. prologueSize' = prologueSize + size /\ codeStart' = codeStart
  BY DEF EmitPrologue
<1>4. prologueSize' \in 0 .. Len(words') - 1 /\ codeStart' \in 0 .. Len(words')
  BY <1>1, <1>2, <1>3, TypedVariables
<1> QED
  BY <1>2, <1>4 DEF EmitPrologue, TypeOK, Words, Op

LEMMA EndTypeCheckingType ==
    ASSUME TypeOK, EndTypeChecking
    PROVE  TypeOK'
<1>1. words' \in Seq(Words) /\ Len(words') = Len(words) + 3 /\ codeStart' = Len(words) + 2
  BY EndingTypeChecking DEF Extends
<1>2. /\ words' \in Seq([instruction : Nat, part : Nat,
                         op : {"Enter", "End", "Jump", "Other"}, value : Int])
      /\ prologueSize' \in 0 .. Len(words') - 1
      /\ codeStart' \in 0 .. Len(words')
  <2>1. prologueSize' = prologueSize
    BY DEF EndTypeChecking
  <2>2. Len(words') >= Len(words) /\ Len(words') \in Nat /\ codeStart' \in 0 .. Len(words')
    BY <1>1, TypedVariables
  <2> QED
    BY <1>1, <2>1, <2>2, LongerWords
<1>3. /\ locations' \in Seq([offset : Int, location : Locations])
      /\ references' \in [Labels -> SUBSET [offset : Nat, prologueSize : Nat, target : Nat]]
      /\ finalized' \in BOOLEAN /\ aborted' \in BOOLEAN
      /\ count' \in Nat
      /\ jumps' \subseteq [instruction : Nat, label : Labels, target : Nat]
      /\ linked' \in [Labels -> Nat]
      /\ located' \subseteq [instruction : Nat, location : Locations]
  BY SMTT(30) DEF EndTypeChecking, TypeOK
<1> QED
  BY <1>2, <1>3, Zenon DEF TypeOK

LEMMA FinalizeType ==
    ASSUME TypeOK, Finalize
    PROVE  TypeOK'
<1>1. words' = Appended("End", 2) /\ count' = count + 1
  BY DEF Finalize
<1>2. words' \in Seq(Words) /\ Len(words') = Len(words) + 2
  <2>1. "End" \in Op /\ 2 \in Nat \ {0}
    BY DEF Op
  <2> QED
    BY <1>1, <2>1, Extending DEF Extends
<1>3. /\ words' \in Seq([instruction : Nat, part : Nat,
                         op : {"Enter", "End", "Jump", "Other"}, value : Int])
      /\ prologueSize' \in 0 .. Len(words') - 1
      /\ codeStart' \in 0 .. Len(words')
  <2>1. prologueSize' = prologueSize /\ codeStart' = codeStart
    BY DEF Finalize
  <2>2. Len(words') >= Len(words) /\ Len(words') \in Nat /\ codeStart' \in 0 .. Len(words')
    BY <1>2, <2>1, TypedVariables
  <2> QED
    BY <1>2, <2>1, <2>2, LongerWords
<1>4. locations' \in Seq([offset : Int, location : Locations])
  BY Adjusting DEF Finalize, Entry
<1>5. /\ references' \in [Labels -> SUBSET [offset : Nat, prologueSize : Nat, target : Nat]]
      /\ finalized' \in BOOLEAN /\ aborted' \in BOOLEAN
      /\ count' \in Nat
      /\ jumps' \subseteq [instruction : Nat, label : Labels, target : Nat]
      /\ linked' \in [Labels -> Nat]
      /\ located' \subseteq [instruction : Nat, location : Locations]
  BY SMTT(30) DEF Finalize, TypeOK
<1> QED
  BY <1>3, <1>4, <1>5, Zenon DEF TypeOK

LEMMA NextType == TypeOK /\ [Next]_vars => TypeOK'
<1> SUFFICES ASSUME TypeOK, [Next]_vars PROVE TypeOK'
  OBVIOUS
<1>1. CASE UNCHANGED vars
  BY <1>1 DEF TypeOK, vars
<1>2. CASE Next
  BY <1>2, EmitType, EmitJumpType, LinkType, EmitPrologueType, EndTypeCheckingType,
     FinalizeType DEF Next
<1> QED
  BY <1>1, <1>2

\* Whatever is emitted, the assembler's variables keep their types: prologues stay
\* within the block, the code starts within it, and every offset is a number.
THEOREM TypeCorrect == Spec => []TypeOK
<1>1. Init => TypeOK
  BY InitType
<1>2. TypeOK /\ [Next]_vars => TypeOK'
  BY NextType
<1> QED
  BY <1>1, <1>2, PTL DEF Spec

-----------------------------------------------------------------------------
(* Where the code starts                                                   *)

\* The four ways in which a step disturbs the words.
LEMMA StepsOnWords ==
    ASSUME TypeOK, Next
    PROVE  \/ /\ Extends
              /\ prologueSize' = prologueSize
              /\ UNCHANGED linked
           \/ \E label \in Labels : Link(label)
           \/ \E size \in Nat \ {0} : EmitPrologue(size)
<1>1. ASSUME NEW size \in Sizes, NEW location \in Locations \cup {NoLocation},
             Emit(size, location)
      PROVE  Extends /\ prologueSize' = prologueSize /\ UNCHANGED linked
  <2>1. size \in Nat \ {0} /\ "Other" \in Op
    BY AssemblerAssumption DEF Op
  <2> QED
    BY <1>1, <2>1, Extending DEF Emit
<1>2. ASSUME NEW jump \in Jumps, NEW label \in Labels, EmitJump(jump, label)
      PROVE  Extends /\ prologueSize' = prologueSize /\ UNCHANGED linked
  <2>1. jump.size \in Nat \ {0} /\ "Jump" \in Op
    BY JumpSizes DEF Op
  <2> QED
    BY <1>2, <2>1, Extending DEF EmitJump
<1>3. ASSUME EndTypeChecking
      PROVE  Extends /\ prologueSize' = prologueSize /\ UNCHANGED linked
  BY <1>3, EndingTypeChecking DEF EndTypeChecking
<1>4. ASSUME Finalize
      PROVE  Extends /\ prologueSize' = prologueSize /\ UNCHANGED linked
  <2>1. "End" \in Op /\ 2 \in Nat \ {0}
    BY DEF Op
  <2> QED
    BY <1>4, <2>1, Extending DEF Finalize
<1>5. ASSUME NEW size \in Sizes, EmitPrologue(size)
      PROVE  \E n \in Nat \ {0} : EmitPrologue(n)
  BY <1>5, AssemblerAssumption
<1> QED
  BY <1>1, <1>2, <1>3, <1>4, <1>5 DEF Next

LEMMA CodeStartStep ==
    ASSUME TypeOK, CodeStartsAtEnter, Next
    PROVE  CodeStartsAtEnter'
<1>1. CASE EndTypeChecking
  <2>1. /\ codeStart' = Len(words) + 2 /\ Len(words') = Len(words) + 3
        /\ words' \in Seq(Words) /\ words'[Len(words) + 3].op = "Enter"
    BY <1>1, EndingTypeChecking DEF Extends
  <2>2. DOMAIN words' = 1 .. Len(words')
    BY <2>1, DomainOfSequence
  <2>3. codeStart' + 1 = Len(words) + 3 /\ Len(words) + 3 \in 1 .. Len(words')
    BY <2>1, TypedVariables
  <2> QED
    BY <2>1, <2>2, <2>3 DEF CodeStartsAtEnter
<1>2. CASE \E size \in Sizes : EmitPrologue(size)
  BY <1>2 DEF EmitPrologue, CodeStartsAtEnter
<1>3. CASE ~EndTypeChecking /\ ~\E size \in Sizes : EmitPrologue(size)
  <2>1. codeStart' = codeStart /\ aborted' = aborted
    BY <1>3 DEF Next, Emit, EmitJump, Link, Finalize
  <2>2. SUFFICES ASSUME codeStart # 0, ~aborted
                 PROVE  codeStart + 1 \in DOMAIN words' /\ words'[codeStart + 1].op = "Enter"
    BY <2>1 DEF CodeStartsAtEnter
  <2>3. codeStart + 1 \in 1 .. Len(words) /\ words[codeStart + 1].op = "Enter"
    BY <2>2, TypedVariables DEF CodeStartsAtEnter
  <2>4. CASE \E label \in Labels : Link(label)
    <3>1. PICK label \in Labels : Link(label)
      BY <2>4
    <3>2. words' = Patched(label)
      BY <3>1 DEF Link
    <3>3. words' \in Seq(Words) /\ Len(words') = Len(words)
          /\ \A i \in 1 .. Len(words) : words'[i].op = words[i].op
      BY <3>2, Patching
    <3> QED
      BY <2>3, <3>3, DomainOfSequence
  <2>5. CASE Extends
    <3>1. words' \in Seq(Words) /\ Len(words') > Len(words)
          /\ \A i \in 1 .. Len(words) : words'[i] = words[i]
      BY <2>5 DEF Extends
    <3>2. DOMAIN words' = 1 .. Len(words') /\ Len(words') \in Nat
      BY <3>1, DomainOfSequence
    <3> QED
      BY <2>3, <3>1, <3>2, TypedVariables
  <2>6. CASE \E size \in Nat \ {0} : EmitPrologue(size)
    <3>1. aborted' = (codeStart # 0)
      BY <2>6 DEF EmitPrologue
    <3>2. aborted = (codeStart # 0)
      BY <2>1, <3>1
    <3> QED
      BY <2>2, <3>2, Zenon
  <2> QED
    BY <2>4, <2>5, <2>6, StepsOnWords
<1> QED
  BY <1>1, <1>2, <1>3

\* Whatever is inserted before type checking ends, the part of the block that runs
\* begins with its Enter instruction; what would be inserted later aborts.
THEOREM CodeStartsRight == Spec => []CodeStartsAtEnter
<1>1. Init => CodeStartsAtEnter
  BY DEF Init, CodeStartsAtEnter
<1>2. TypeOK /\ CodeStartsAtEnter /\ [Next]_vars => CodeStartsAtEnter'
  <2> SUFFICES ASSUME TypeOK, CodeStartsAtEnter, [Next]_vars PROVE CodeStartsAtEnter'
    OBVIOUS
  <2>1. CASE UNCHANGED vars
    BY <2>1 DEF CodeStartsAtEnter, vars
  <2> QED
    BY <2>1, CodeStartStep
<1> QED
  BY <1>1, <1>2, TypeCorrect, PTL DEF Spec

-----------------------------------------------------------------------------
(* The order of the locations                                              *)

LocationInv == LocationsAreOrdered /\ OffsetsAreBounded

\* An entry at the end keeps the order.
LEMMA AddedLocation ==
    ASSUME TypeOK, LocationInv, ~finalized, ~finalized',
           NEW location \in Locations, locations' = AddLocation(location),
           Len(words') \in Nat, Len(words') > Len(words), prologueSize' = prologueSize
    PROVE  LocationInv'
<1> DEFINE n == Len(locations)
           bound == Len(words) - prologueSize
<1>1. /\ locations \in Seq(Entry) /\ locations' \in Seq(Entry)
      /\ \/ locations' = locations
         \/ /\ Len(locations') = n + 1
            /\ \A i \in 1 .. n : locations'[i] = locations[i]
            /\ locations'[n + 1].offset = bound
  BY AddingLocation
<1>2. /\ DOMAIN locations = 1 .. n /\ n \in Nat
      /\ DOMAIN locations' = 1 .. Len(locations') /\ Len(locations') \in Nat
      /\ \A i \in 1 .. n : locations[i].offset \in Int
  BY <1>1, DomainOfSequence, TypedLocations
<1>3. bound \in Int /\ bound < Len(words') - prologueSize'
  BY TypedVariables
<1>4. \A i \in 1 .. n : locations[i].offset <= bound
  <2>1. \A i \in 1 .. n : locations[i].offset < bound
    BY <1>2 DEF LocationInv, OffsetsAreBounded
  <2> HIDE DEF bound
  <2> QED
    BY <1>2, <1>3, <2>1
<1>5. \A i, k \in 1 .. n : i < k => locations[i].offset <= locations[k].offset
  BY <1>2 DEF LocationInv, LocationsAreOrdered
<1>6. Len(words') - prologueSize' \in Int
  BY TypedVariables
<1> HIDE DEF n, bound
<1>7. CASE locations' = locations
  BY <1>2, <1>3, <1>4, <1>5, <1>6, <1>7
  DEF LocationInv, LocationsAreOrdered, OffsetsAreBounded
<1>8. CASE /\ Len(locations') = n + 1
           /\ \A i \in 1 .. n : locations'[i] = locations[i]
           /\ locations'[n + 1].offset = bound
  <2>1. DOMAIN locations' = 1 .. n + 1
    BY <1>2, <1>8
  <2>2. ASSUME NEW i \in 1 .. n + 1
        PROVE  locations'[i].offset \in Int /\ locations'[i].offset <= bound
    BY <1>2, <1>3, <1>4, <1>8
  <2>3. ASSUME NEW i \in 1 .. n + 1, NEW k \in 1 .. n + 1, i < k
        PROVE  locations'[i].offset <= locations'[k].offset
    <3>1. i \in 1 .. n
      BY <1>2, <2>3
    <3>2. CASE k = n + 1
      BY <1>8, <2>2, <3>2
    <3>3. CASE k \in 1 .. n
      BY <1>5, <1>8, <2>3, <3>1, <3>3
    <3> QED
      BY <1>2, <3>2, <3>3
  <2>4. ASSUME NEW i \in 1 .. n + 1
        PROVE  locations'[i].offset < Len(words') - prologueSize'
    BY <1>3, <1>6, <2>2
  <2> QED
    BY <2>1, <2>3, <2>4 DEF LocationInv, LocationsAreOrdered, OffsetsAreBounded
<1> QED
  BY <1>1, <1>7, <1>8 DEF n, bound

\* Without a new entry the offsets stay within the words.
LEMMA SameLocations ==
    ASSUME TypeOK, LocationInv, ~finalized, locations' = locations,
           Len(words') \in Nat, prologueSize' \in Nat,
           Len(words') - prologueSize' >= Len(words) - prologueSize
    PROVE  LocationInv'
<1>1. DOMAIN locations = 1 .. Len(locations)
      /\ \A i \in 1 .. Len(locations) : locations[i].offset \in Int
  BY TypedLocations
<1>2. Len(words) - prologueSize \in Int /\ Len(words') - prologueSize' \in Int
  BY TypedVariables
<1> QED
  BY <1>1, <1>2 DEF LocationInv, LocationsAreOrdered, OffsetsAreBounded

LEMMA AdjustedLocations ==
    ASSUME TypeOK, LocationInv, Finalize
    PROVE  LocationInv'
<1> DEFINE n == Len(locations)
<1>1. locations' = [i \in 1 .. n |-> Adjusted(locations[i])] /\ finalized' = TRUE
  BY DEF Finalize
<1>2. /\ DOMAIN locations = 1 .. n /\ DOMAIN locations' = 1 .. n
      /\ \A i \in 1 .. n :
           /\ locations[i].offset \in Int
           /\ locations'[i].offset = IF locations[i].offset > prologueSize
                                     THEN locations[i].offset + prologueSize
                                     ELSE locations[i].offset
  BY <1>1, Adjusting
<1>3. \A i, k \in 1 .. n : i < k => locations[i].offset <= locations[k].offset
  BY <1>2 DEF LocationInv, LocationsAreOrdered
<1>4. ASSUME NEW i \in 1 .. n, NEW k \in 1 .. n, i < k
      PROVE  locations'[i].offset <= locations'[k].offset
  <2>1. /\ locations[i].offset \in Int /\ locations[k].offset \in Int
        /\ locations[i].offset <= locations[k].offset /\ prologueSize \in Nat
    BY <1>2, <1>3, <1>4, TypedVariables
  <2> QED
    BY <1>2, <2>1
<1> QED
  BY <1>1, <1>2, <1>4 DEF LocationInv, LocationsAreOrdered, OffsetsAreBounded

LEMMA LocationStep ==
    ASSUME TypeOK, LocationInv, Next
    PROVE  LocationInv'
<1>1. ~finalized
  BY DEF Next, Emit, EmitJump, Link, EmitPrologue, EndTypeChecking, Finalize, Fits
<1>2. CASE Finalize
  BY <1>2, AdjustedLocations
<1>3. CASE ~Finalize
  <2>1. finalized' = finalized
    BY <1>3 DEF Next, Emit, EmitJump, Link, EmitPrologue, EndTypeChecking
  <2>2. CASE \E size \in Nat \ {0} : EmitPrologue(size)
    <3>1. PICK size \in Nat \ {0} : EmitPrologue(size)
      BY <2>2
    <3>2. Len(words') = Len(words) + size
      BY <3>1, EmittingPrologue
    <3>3. locations' = locations /\ prologueSize' = prologueSize + size
      BY <3>1 DEF EmitPrologue
    <3>4. /\ Len(words') \in Nat /\ prologueSize' \in Nat
          /\ Len(words') - prologueSize' >= Len(words) - prologueSize
      BY <3>2, <3>3, TypedVariables
    <3> QED
      BY <1>1, <3>3, <3>4, SameLocations
  <2>3. CASE \E label \in Labels : Link(label)
    <3>1. PICK label \in Labels : Link(label)
      BY <2>3
    <3>2. Len(words') = Len(words) /\ locations' = locations /\ prologueSize' = prologueSize
      BY <3>1, Patching DEF Link
    <3>3. /\ Len(words') \in Nat /\ prologueSize' \in Nat
          /\ Len(words') - prologueSize' >= Len(words) - prologueSize
      BY <3>2, TypedVariables
    <3> QED
      BY <1>1, <3>2, <3>3, SameLocations
  <2>4. CASE Extends /\ prologueSize' = prologueSize
    <3>1. Len(words') \in Nat /\ Len(words') > Len(words)
      <4>1. words' \in Seq(Words) /\ Len(words') > Len(words)
        BY <2>4 DEF Extends
      <4> QED
        BY <4>1, DomainOfSequence, TypedVariables
    <3>2. /\ prologueSize' \in Nat
          /\ Len(words') - prologueSize' >= Len(words) - prologueSize
      BY <2>4, <3>1, TypedVariables
    <3>3. CASE locations' = locations
      BY <1>1, <3>1, <3>2, <3>3, SameLocations
    <3>4. CASE \E location \in Locations : locations' = AddLocation(location)
      BY <1>1, <2>1, <2>4, <3>1, <3>4, AddedLocation
    <3>5. \/ locations' = locations
          \/ \E location \in Locations : locations' = AddLocation(location)
          \/ \E size \in Nat \ {0} : EmitPrologue(size)
      BY <1>3, AssemblerAssumption DEF Next, Emit, EmitJump, Link, EndTypeChecking
    <3> QED
      BY <2>2, <3>3, <3>4, <3>5
  <2> QED
    BY <2>2, <2>3, <2>4, StepsOnWords
<1> QED
  BY <1>2, <1>3

LEMMA LocationInvHolds == Spec => []LocationInv
<1>1. Init => LocationInv
  BY DEF Init, LocationInv, LocationsAreOrdered, OffsetsAreBounded
<1>2. TypeOK /\ LocationInv /\ [Next]_vars => LocationInv'
  <2> SUFFICES ASSUME TypeOK, LocationInv, [Next]_vars PROVE LocationInv'
    OBVIOUS
  <2>1. CASE UNCHANGED vars
    BY <2>1 DEF LocationInv, LocationsAreOrdered, OffsetsAreBounded, vars
  <2> QED
    BY <2>1, LocationStep
<1> QED
  BY <1>1, <1>2, TypeCorrect, PTL DEF Spec

\* The table of source locations is in the order of the offsets, before adjustOffsets()
\* as well as after: its two assertions hold, and a binary search may be used.
THEOREM LocationsStayOrdered == Spec => []LocationsAreOrdered
<1>1. LocationInv => LocationsAreOrdered
  BY DEF LocationInv
<1> QED
  BY <1>1, LocationInvHolds, PTL

-----------------------------------------------------------------------------
(* Where jumps land                                                        *)

JumpInv ==
    /\ PrologueIsFirst
    /\ InstructionsAreWhole
    /\ JumpsHaveTargets
    /\ ReferencesAreJumps
    /\ LabelsArePlaced

LEMMA JumpInvLands ==
    ASSUME TypeOK, JumpInv
    PROVE  JumpsLand
  BY DEF JumpInv, LabelsArePlaced, LeadsToLabel, IsAt, JumpsLand

LEMMA TypedJump ==
    ASSUME TypeOK, NEW j \in jumps
    PROVE  j.instruction \in Nat /\ j.label \in Labels /\ j.target \in Nat
           /\ linked[j.label] \in Nat
  BY DEF TypeOK

LEMMA TypedReference ==
    ASSUME TypeOK, NEW label \in Labels, NEW r \in references[label]
    PROVE  Position(r) \in Int /\ r.target \in Nat /\ r.offset \in Nat
           /\ r.prologueSize \in Nat
<1>1. r \in [offset : Nat, prologueSize : Nat, target : Nat]
  BY DEF TypeOK
<1> QED
  BY <1>1, TypedVariables DEF Position

\* Appended instructions come after the prologue and are whole.
LEMMA ExtendedWords ==
    ASSUME TypeOK, JumpInv, Extends, prologueSize' = prologueSize
    PROVE  PrologueIsFirst' /\ InstructionsAreWhole'
<1> DEFINE N == Len(words)
<1>1. /\ N \in Nat /\ DOMAIN words = 1 .. N /\ prologueSize \in Nat /\ prologueSize + 1 <= N
      /\ count \in Nat
  BY TypedVariables
<1>2. /\ words' \in Seq(Words) /\ Len(words') > N
      /\ count' \in Nat /\ count' > count
      /\ \A i \in 1 .. N : words'[i] = words[i]
      /\ \A i \in N + 1 .. Len(words') : words'[i].instruction \in count + 1 .. count'
      /\ \A i, k \in N + 1 .. Len(words') :
           words'[i].instruction = words'[k].instruction =>
               i - words'[i].part = k - words'[k].part
  BY DEF Extends
<1>3. DOMAIN words' = 1 .. Len(words') /\ Len(words') \in Nat
  BY <1>2, DomainOfSequence
<1>4. \A i \in 1 .. N : /\ words[i].instruction \in 0 .. count
                        /\ words[i].instruction = 0 <=> i <= 1 + prologueSize
  BY <1>1 DEF JumpInv, PrologueIsFirst
<1> HIDE DEF N
<1>5. \A i \in 1 .. Len(words') : i \in 1 .. N \/ i \in N + 1 .. Len(words')
  BY <1>1, <1>3
<1>6. ASSUME NEW i \in 1 .. Len(words')
      PROVE  /\ words'[i].instruction \in 0 .. count'
             /\ words'[i].instruction = 0 <=> i <= 1 + prologueSize'
  <2>1. CASE i \in 1 .. N
    BY <1>1, <1>2, <1>4, <2>1
  <2>2. CASE i \in N + 1 .. Len(words')
    BY <1>1, <1>2, <2>2
  <2> QED
    BY <1>5, <2>1, <2>2
<1>7. ASSUME NEW i \in 1 .. Len(words'), NEW k \in 1 .. Len(words'),
             words'[i].instruction = words'[k].instruction, words'[i].instruction # 0
      PROVE  i - words'[i].part = k - words'[k].part
  <2>1. CASE i \in 1 .. N /\ k \in 1 .. N
    BY <1>1, <1>2, <1>7, <2>1, SMTT(30) DEF JumpInv, InstructionsAreWhole
  <2>2. CASE i \in N + 1 .. Len(words') /\ k \in N + 1 .. Len(words')
    BY <1>2, <1>7, <2>2
  <2>3. CASE i \in 1 .. N /\ k \in N + 1 .. Len(words')
    BY <1>1, <1>2, <1>4, <1>7, <2>3
  <2>4. CASE i \in N + 1 .. Len(words') /\ k \in 1 .. N
    BY <1>1, <1>2, <1>4, <1>7, <2>4
  <2> QED
    BY <1>5, <2>1, <2>2, <2>3, <2>4
<1> QED
  BY <1>3, <1>6, <1>7 DEF PrologueIsFirst, InstructionsAreWhole

\* The jumps before stay what they are, and a label at the end is now in front of the
\* first instruction that was appended.
LEMMA ExtendedJumps ==
    ASSUME TypeOK, JumpInv, Extends, prologueSize' = prologueSize, linked' = linked,
           NEW j \in jumps
    PROVE  /\ HasTarget(j)'
           /\ LeadsToLabel(j)'
           /\ \A r \in references[j.label] : IsReferenceTo(r, j) => IsReferenceTo(r, j)'
<1> DEFINE N == Len(words)
<1>1. N \in Nat /\ DOMAIN words = 1 .. N /\ count \in Nat
      /\ \A i \in 1 .. N : words[i].value \in Int
  BY TypedVariables DEF Words
<1>2. /\ words' \in Seq(Words) /\ Len(words') > N
      /\ count' \in Nat /\ count' > count
      /\ \A i \in 1 .. N : words'[i] = words[i]
      /\ \A i \in N + 1 .. Len(words') : words'[i].instruction \in count + 1 .. count'
      /\ words'[N + 1].instruction = count + 1
      /\ words'[N + 1].part = 0
  BY DEF Extends
<1>3. DOMAIN words' = 1 .. Len(words') /\ Len(words') \in Nat
  BY <1>2, DomainOfSequence
<1>4. /\ j.instruction \in Nat /\ j.target \in Nat /\ linked[j.label] \in Nat
      /\ j.label \in Labels
  BY TypedJump
<1>5. j.instruction \in 1 .. count
  BY DEF JumpInv, JumpsHaveTargets, HasTarget
<1> HIDE DEF N
<1>6. ASSUME NEW i \in 1 .. Len(words'), Starts(i, j.instruction)'
      PROVE  /\ i \in 1 .. N /\ Starts(i, j.instruction)
             /\ i + j.target \in 1 .. N
             /\ words[i + j.target].instruction = j.instruction
             /\ words[i + j.target].part = j.target
             /\ words'[i + j.target] = words[i + j.target]
  <2>1. words'[i].instruction = j.instruction /\ words'[i].part = 0
    BY <1>6 DEF Starts
  <2>2. i \in 1 .. N
    BY <1>1, <1>2, <1>3, <1>5, <2>1
  <2>3. Starts(i, j.instruction)
    BY <1>2, <2>1, <2>2 DEF Starts
  <2> QED
    BY <1>1, <1>2, <2>2, <2>3 DEF JumpInv, JumpsHaveTargets, HasTarget
<1>7. HasTarget(j)'
  <2>1. j.instruction \in 1 .. count'
    BY <1>1, <1>2, <1>5
  <2>2. ASSUME NEW i \in 1 .. Len(words'), Starts(i, j.instruction)'
        PROVE  /\ i + j.target \in 1 .. Len(words')
               /\ words'[i + j.target].instruction = j.instruction
               /\ words'[i + j.target].part = j.target
    BY <1>1, <1>2, <1>3, <1>6, <2>2
  <2> QED
    BY <1>3, <2>1, <2>2 DEF HasTarget
<1>8. LeadsToLabel(j)'
  <2> SUFFICES ASSUME NEW i \in 1 .. Len(words'), Starts(i, j.instruction)',
                      linked[j.label] # 0
               PROVE  IsAt(i + words[i + j.target].value, linked[j.label])'
    BY <1>3, <1>6 DEF LeadsToLabel
  <2> DEFINE to == i + words[i + j.target].value
             number == linked[j.label]
  <2>1. /\ i \in 1 .. N /\ Starts(i, j.instruction) /\ i + j.target \in 1 .. N
        /\ words'[i + j.target] = words[i + j.target]
    BY <1>6
  <2>2. IsAt(to, number)
    BY <1>1, <2>1 DEF JumpInv, LabelsArePlaced, LeadsToLabel
  <2>3. number \in Nat /\ number <= count + 1 /\ number # 0 /\ to \in Int
    BY <1>1, <1>4, <2>1, SMTT(30) DEF JumpInv, LabelsArePlaced
  <2>4. i + words'[i + j.target].value = to /\ linked'[j.label] = number
    BY <2>1
  <2> HIDE DEF to, number
  <2>5. number <= count' /\ to \in 1 .. Len(words')
        /\ words'[to].instruction = number /\ words'[to].part = 0
    <3>1. CASE number <= count
      <4>1. to \in 1 .. N /\ words[to].instruction = number /\ words[to].part = 0
        BY <1>1, <2>2, <3>1 DEF IsAt, Starts
      <4> QED
        BY <1>1, <1>2, <1>3, <2>3, <3>1, <4>1
    <3>2. CASE ~(number <= count)
      <4>1. number = count + 1 /\ to = N + 1
        BY <1>1, <2>2, <2>3, <3>2 DEF IsAt, N
      <4> QED
        BY <1>1, <1>2, <1>3, <4>1
    <3> QED
      BY <3>1, <3>2
  <2> QED
    BY <1>3, <2>4, <2>5 DEF IsAt, Starts, to, number
<1>9. ASSUME NEW r \in references[j.label], IsReferenceTo(r, j)
      PROVE  IsReferenceTo(r, j)'
  <2>1. /\ r.target = j.target /\ Position(r) + 1 \in 1 .. N
        /\ words[Position(r) + 1].instruction = j.instruction
        /\ words[Position(r) + 1].part = 0
    BY <1>1, <1>9 DEF IsReferenceTo, Starts
  <2>2. Position(r)' = Position(r)
    BY DEF Position
  <2>3. words'[Position(r) + 1] = words[Position(r) + 1]
        /\ Position(r) + 1 \in 1 .. Len(words')
    BY <1>1, <1>2, <1>3, <2>1
  <2> QED
    BY <1>3, <2>1, <2>2, <2>3 DEF IsReferenceTo, Starts
<1> QED
  BY <1>7, <1>8, <1>9

\* Steps that append anything but a jump.
LEMMA OtherInstructions ==
    ASSUME TypeOK, JumpInv, Extends, UNCHANGED <<prologueSize, linked, jumps, references>>
    PROVE  JumpInv'
<1>1. PrologueIsFirst' /\ InstructionsAreWhole'
  BY ExtendedWords
<1>2. ASSUME NEW j \in jumps
      PROVE  /\ HasTarget(j)' /\ LeadsToLabel(j)'
             /\ \A r \in references[j.label] : IsReferenceTo(r, j) => IsReferenceTo(r, j)'
  BY ExtendedJumps
<1>3. JumpsHaveTargets'
  BY <1>2 DEF JumpInv, JumpsHaveTargets
<1>4. ReferencesAreJumps'
  <2>1. ASSUME NEW label \in Labels, NEW r \in references[label]
        PROVE  \E j \in jumps : j.label = label /\ IsReferenceTo(r, j)'
    <3>1. PICK j \in jumps : j.label = label /\ IsReferenceTo(r, j)
      BY DEF JumpInv, ReferencesAreJumps
    <3> QED
      BY <1>2, <3>1
  <2>2. ASSUME NEW j \in jumps
        PROVE  \E r \in references[j.label] : IsReferenceTo(r, j)'
    <3>1. PICK r \in references[j.label] : IsReferenceTo(r, j)
      BY DEF JumpInv, ReferencesAreJumps
    <3> QED
      BY <1>2, <3>1
  <2> QED
    BY <2>1, <2>2 DEF ReferencesAreJumps
<1>5. LabelsArePlaced'
  <2>1. ASSUME NEW label \in Labels PROVE linked[label] <= count' + 1
    <3>1. linked[label] <= count + 1 /\ linked[label] \in Nat
      BY DEF JumpInv, LabelsArePlaced, TypeOK
    <3>2. count \in Nat /\ count' \in Nat /\ count' > count
      BY TypedVariables DEF Extends
    <3> QED
      BY <3>1, <3>2
  <2> QED
    BY <1>2, <2>1 DEF LabelsArePlaced
<1> QED
  BY <1>1, <1>3, <1>4, <1>5 DEF JumpInv

\* A jump to a label that is not linked yet.
LEMMA NewJump ==
    ASSUME TypeOK, JumpInv, NEW jump \in Jumps, NEW label \in Labels,
           EmitJump(jump, label)
    PROVE  JumpInv'
<1> DEFINE N == Len(words)
<1>a. PICK new : new = [instruction |-> count + 1, label |-> label, target |-> jump.target]
  OBVIOUS
<1>b. PICK reference : reference = [offset |-> N, prologueSize |-> prologueSize,
                                    target |-> jump.target]
  OBVIOUS
<1>1. /\ N \in Nat /\ DOMAIN words = 1 .. N /\ prologueSize \in Nat /\ count \in Nat
      /\ jump.size \in Nat \ {0} /\ jump.target \in 1 .. jump.size - 1
  BY TypedVariables, JumpSizes
<1>2. /\ words' = Appended("Jump", jump.size) /\ count' = count + 1
      /\ jumps' = jumps \cup {new}
      /\ references' = [references EXCEPT ![label] = @ \cup {reference}]
      /\ linked[label] = 0 /\ linked' = linked /\ prologueSize' = prologueSize
  BY <1>a, <1>b DEF EmitJump
<1>3. /\ new.instruction = count + 1 /\ new.label = label /\ new.target = jump.target
      /\ reference.offset = N /\ reference.prologueSize = prologueSize
      /\ reference.target = jump.target
  BY <1>a, <1>b
<1>4. /\ Extends /\ Len(words') = N + jump.size
      /\ \A i \in N + 1 .. Len(words') : words'[i] = Word(count + 1, i - N - 1, "Jump")
  BY <1>1, <1>2, Extending DEF Op
<1>5. DOMAIN words' = 1 .. N + jump.size
  BY <1>1, <1>4, DomainOfSequence DEF Extends
<1>6. PrologueIsFirst' /\ InstructionsAreWhole'
  BY <1>2, <1>4, ExtendedWords
<1>7. ASSUME NEW j \in jumps
      PROVE  /\ HasTarget(j)' /\ LeadsToLabel(j)'
             /\ \A r \in references[j.label] : IsReferenceTo(r, j) => IsReferenceTo(r, j)'
  BY <1>2, <1>4, ExtendedJumps
<1>8. ASSUME NEW i \in N + 1 .. N + jump.size
      PROVE  words'[i].instruction = count + 1 /\ words'[i].part = i - N - 1
  <2>1. words'[i] = Word(count + 1, i - N - 1, "Jump")
    BY <1>4
  <2> QED
    BY <2>1 DEF Word
<1>9. HasTarget(new)' /\ LeadsToLabel(new)'
  <2>1. new.instruction \in 1 .. count'
    BY <1>1, <1>2, <1>3
  <2>2. ASSUME NEW i \in 1 .. N + jump.size,
               words'[i].instruction = count + 1, words'[i].part = 0
        PROVE  /\ i + jump.target \in 1 .. N + jump.size
               /\ words'[i + jump.target].instruction = count + 1
               /\ words'[i + jump.target].part = jump.target
    <3>1. N + 1 \in N + 1 .. N + jump.size
      BY <1>1
    <3>2. words'[N + 1].instruction = count + 1 /\ words'[N + 1].part = 0
      BY <1>1, <1>8, <3>1
    <3>3. N + 1 \in 1 .. N + jump.size /\ count + 1 # 0
      BY <1>1
    <3>4. i - 0 = N + 1 - 0
      BY <1>5, <1>6, <2>2, <3>2, <3>3 DEF InstructionsAreWhole
    <3>5. i = N + 1 /\ i + jump.target \in N + 1 .. N + jump.size
      BY <1>1, <3>4
    <3> QED
      BY <1>1, <1>8, <3>5, SMTT(30)
  <2>3. HasTarget(new)'
    BY <1>3, <1>5, <2>1, <2>2 DEF HasTarget, Starts
  <2>4. LeadsToLabel(new)'
    BY <1>2, <1>3 DEF LeadsToLabel
  <2> QED
    BY <2>3, <2>4
<1>10. JumpsHaveTargets'
  <2>1. \A j \in jumps : j.instruction \in 1 .. count
    BY DEF JumpInv, JumpsHaveTargets, HasTarget
  <2>2. \A j \in jumps : j.instruction # new.instruction
    BY <1>1, <1>3, <2>1
  <2>3. \A j, k \in jumps : j.instruction = k.instruction => j = k
    BY DEF JumpInv, JumpsHaveTargets
  <2>4. \A j, k \in jumps' : j.instruction = k.instruction => j = k
    BY <1>2, <2>2, <2>3
  <2>5. \A j \in jumps' : HasTarget(j)'
    BY <1>2, <1>7, <1>9
  <2> QED
    BY <2>4, <2>5 DEF JumpsHaveTargets
<1>11. IsReferenceTo(reference, new)'
  <2>1. Position(reference)' = N
    BY <1>1, <1>2, <1>3 DEF Position
  <2>2. N + 1 \in N + 1 .. N + jump.size /\ N + 1 \in 1 .. N + jump.size
    BY <1>1
  <2>3. words'[N + 1].instruction = count + 1 /\ words'[N + 1].part = 0
    BY <1>1, <1>8, <2>2
  <2> QED
    BY <1>3, <1>5, <2>1, <2>2, <2>3 DEF IsReferenceTo, Starts
<1>12. ReferencesAreJumps'
  <2>1. /\ references'[label] = references[label] \cup {reference}
        /\ \A l \in Labels \ {label} : references'[l] = references[l]
        /\ \A l \in Labels : references[l] \subseteq references'[l]
    BY <1>2 DEF TypeOK
  <2>2. ASSUME NEW l \in Labels, NEW r \in references'[l]
        PROVE  \E j \in jumps' : j.label = l /\ IsReferenceTo(r, j)'
    <3>1. CASE r \in references[l]
      <4>1. PICK j \in jumps : j.label = l /\ IsReferenceTo(r, j)
        BY <3>1 DEF JumpInv, ReferencesAreJumps
      <4> QED
        BY <1>2, <1>7, <3>1, <4>1
    <3>2. CASE r \notin references[l]
      <4>1. l = label /\ r = reference
        BY <2>1, <2>2, <3>2
      <4> QED
        BY <1>2, <1>3, <1>11, <4>1
    <3> QED
      BY <3>1, <3>2
  <2>3. ASSUME NEW j \in jumps'
        PROVE  \E r \in references'[j.label] : IsReferenceTo(r, j)'
    <3>1. CASE j \in jumps
      <4>1. PICK r \in references[j.label] : IsReferenceTo(r, j)
        BY <3>1 DEF JumpInv, ReferencesAreJumps
      <4> QED
        BY <1>7, <2>1, <3>1, <4>1, TypedJump
    <3>2. CASE j = new
      BY <1>3, <1>11, <2>1, <3>2
    <3> QED
      BY <1>2, <2>3, <3>1, <3>2
  <2> QED
    BY <2>2, <2>3 DEF ReferencesAreJumps
<1>13. LabelsArePlaced'
  <2>1. ASSUME NEW l \in Labels PROVE linked'[l] <= count' + 1
    <3>1. linked[l] <= count + 1 /\ linked[l] \in Nat
      BY DEF JumpInv, LabelsArePlaced, TypeOK
    <3> QED
      BY <1>1, <1>2, <3>1
  <2>2. \A j \in jumps' : LeadsToLabel(j)'
    BY <1>2, <1>7, <1>9
  <2> QED
    BY <2>1, <2>2 DEF LabelsArePlaced
<1> QED
  BY <1>6, <1>10, <1>12, <1>13 DEF JumpInv

\* A prologue moves jumps and labels alike.
LEMMA InsertedPrologue ==
    ASSUME TypeOK, JumpInv, NEW size \in Nat \ {0}, EmitPrologue(size)
    PROVE  JumpInv'
<1> DEFINE N == Len(words)
<1>1. /\ N \in Nat /\ DOMAIN words = 1 .. N /\ prologueSize \in Nat /\ prologueSize + 1 <= N
      /\ count \in Nat /\ \A i \in 1 .. N : words[i] \in Words
  BY TypedVariables
<1>2. /\ prologueSize' = prologueSize + size
      /\ UNCHANGED <<references, count, jumps, linked>>
  BY DEF EmitPrologue
<1>3. /\ words' \in Seq(Words) /\ Len(words') = N + size
      /\ words'[1] = words[1]
      /\ \A i \in 2 .. 1 + size : words'[i].instruction = 0
      /\ \A i \in 2 + size .. N + size : words'[i] = words[i - size]
  BY EmittingPrologue
<1>4. DOMAIN words' = 1 .. N + size
  BY <1>3, DomainOfSequence
<1>5. \A i \in 1 .. N : /\ words[i].instruction \in 0 .. count
                        /\ words[i].instruction = 0 <=> i <= 1 + prologueSize
  BY <1>1 DEF JumpInv, PrologueIsFirst
<1> HIDE DEF N
\* What is behind the prologue has moved, and is all that belongs to instructions.
<1>6. ASSUME NEW i \in 1 .. N + size, words'[i].instruction # 0
      PROVE  i - size \in 1 .. N /\ words'[i] = words[i - size]
  BY <1>1, <1>3, <1>5, <1>6
<1>7. ASSUME NEW i \in 1 .. N, words[i].instruction # 0
      PROVE  i + size \in 1 .. N + size /\ words'[i + size] = words[i]
  <2>1. i > 1
    BY <1>1, <1>5, <1>7
  <2>2. i + size \in 2 + size .. N + size /\ (i + size) - size = i
    BY <1>1, <2>1
  <2> QED
    BY <1>1, <1>3, <2>2
<1>8. PrologueIsFirst'
  <2>1. ASSUME NEW i \in 1 .. N + size
        PROVE  /\ words'[i].instruction \in 0 .. count
               /\ words'[i].instruction = 0 <=> i <= 1 + (prologueSize + size)
    <3>1. CASE i = 1
      <4>1. 1 \in 1 .. N /\ 1 <= 1 + prologueSize /\ 1 <= 1 + (prologueSize + size)
        BY <1>1
      <4>2. words[1].instruction = 0
        BY <1>5, <4>1
      <4>3. words'[1].instruction = 0 /\ 0 \in 0 .. count
        BY <1>1, <1>3, <4>2
      <4> QED
        BY <3>1, <4>1, <4>3
    <3>2. CASE i \in 2 .. 1 + size
      BY <1>1, <1>3, <3>2
    <3>3. CASE i \in 2 + size .. N + size
      <4>1. words'[i] = words[i - size] /\ i - size \in 1 .. N
        BY <1>1, <1>3, <3>3
      <4>2. /\ words[i - size].instruction \in 0 .. count
            /\ words[i - size].instruction = 0 <=> i - size <= 1 + prologueSize
        BY <1>5, <4>1
      <4>3. i - size <= 1 + prologueSize <=> i <= 1 + (prologueSize + size)
        BY <1>1
      <4> QED
        BY <4>1, <4>2, <4>3
    <3> QED
      BY <1>1, <3>1, <3>2, <3>3
  <2> QED
    BY <1>2, <1>4, <2>1 DEF PrologueIsFirst
<1>9. InstructionsAreWhole'
  <2>1. ASSUME NEW i \in 1 .. N + size, NEW k \in 1 .. N + size,
               words'[i].instruction = words'[k].instruction, words'[i].instruction # 0
        PROVE  i - words'[i].part = k - words'[k].part
    <3>1. /\ i - size \in 1 .. N /\ words'[i] = words[i - size]
          /\ k - size \in 1 .. N /\ words'[k] = words[k - size]
      BY <1>6, <2>1
    <3>2. (i - size) - words[i - size].part = (k - size) - words[k - size].part
      BY <1>1, <2>1, <3>1 DEF JumpInv, InstructionsAreWhole
    <3>3. words[i - size].part \in Nat /\ words[k - size].part \in Nat
      BY <1>1, <3>1 DEF Words
    <3> QED
      BY <3>1, <3>2, <3>3
  <2> QED
    BY <1>4, <2>1 DEF InstructionsAreWhole
<1>10. ASSUME NEW j \in jumps, NEW i \in 1 .. N + size, Starts(i, j.instruction)'
       PROVE  /\ j.instruction \in 1 .. count /\ j.target \in Nat
              /\ i - size \in 1 .. N /\ Starts(i - size, j.instruction)
              /\ (i - size) + j.target \in 1 .. N
              /\ words[(i - size) + j.target].instruction = j.instruction
              /\ words[(i - size) + j.target].part = j.target
              /\ i + j.target \in 1 .. N + size
              /\ words'[i + j.target] = words[(i - size) + j.target]
  <2>1. j.instruction \in 1 .. count /\ j.target \in Nat
    BY TypedJump DEF JumpInv, JumpsHaveTargets, HasTarget
  <2>2. words'[i].instruction = j.instruction /\ words'[i].part = 0
    BY <1>10 DEF Starts
  <2>3. i - size \in 1 .. N /\ Starts(i - size, j.instruction)
    BY <1>1, <1>6, <2>1, <2>2 DEF Starts
  <2>4. /\ (i - size) + j.target \in 1 .. N
        /\ words[(i - size) + j.target].instruction = j.instruction
        /\ words[(i - size) + j.target].part = j.target
    BY <1>1, <2>3 DEF JumpInv, JumpsHaveTargets, HasTarget
  <2>5. /\ ((i - size) + j.target) + size \in 1 .. N + size
        /\ words'[((i - size) + j.target) + size] = words[(i - size) + j.target]
    BY <1>1, <1>7, <2>1, <2>4, SMTT(30)
  <2>6. ((i - size) + j.target) + size = i + j.target
    BY <2>1
  <2> QED
    BY <2>1, <2>3, <2>4, <2>5, <2>6
<1>11. JumpsHaveTargets'
  <2>1. \A j, k \in jumps' : j.instruction = k.instruction => j = k
    BY <1>2 DEF JumpInv, JumpsHaveTargets
  <2>2. ASSUME NEW j \in jumps' PROVE HasTarget(j)'
    <3>1. j \in jumps /\ j.instruction \in 1 .. count
      BY <1>2 DEF JumpInv, JumpsHaveTargets, HasTarget
    <3>2. ASSUME NEW i \in 1 .. N + size, Starts(i, j.instruction)'
          PROVE  /\ i + j.target \in 1 .. N + size
                 /\ words'[i + j.target].instruction = j.instruction
                 /\ words'[i + j.target].part = j.target
      BY <1>10, <3>1, <3>2
    <3> QED
      BY <1>2, <1>4, <3>1, <3>2 DEF HasTarget
  <2> QED
    BY <2>1, <2>2 DEF JumpsHaveTargets
<1>12. ReferencesAreJumps'
  <2>1. ASSUME NEW label \in Labels, NEW r \in references[label], NEW j \in jumps,
               IsReferenceTo(r, j)
        PROVE  IsReferenceTo(r, j)'
    <3>1. /\ r.target = j.target /\ Position(r) + 1 \in 1 .. N
          /\ words[Position(r) + 1].instruction = j.instruction
          /\ words[Position(r) + 1].part = 0
      BY <1>1, <2>1 DEF IsReferenceTo, Starts
    <3>2. j.instruction # 0
      BY <1>1 DEF JumpInv, JumpsHaveTargets, HasTarget
    <3>3. Position(r)' = Position(r) + size /\ Position(r) \in Int
      BY <1>1, <1>2, TypedReference DEF Position
    <3>4. /\ (Position(r) + 1) + size \in 1 .. N + size
          /\ words'[(Position(r) + 1) + size] = words[Position(r) + 1]
      BY <1>7, <3>1, <3>2
    <3>5. (Position(r) + 1) + size = (Position(r) + size) + 1
      BY <3>3
    <3>6. /\ (Position(r) + size) + 1 \in 1 .. N + size
          /\ words'[(Position(r) + size) + 1].instruction = j.instruction
          /\ words'[(Position(r) + size) + 1].part = 0
      BY <3>1, <3>4, <3>5
    <3> QED
      BY <1>4, <3>1, <3>3, <3>6 DEF IsReferenceTo, Starts
  <2>2. ASSUME NEW label \in Labels, NEW r \in references[label]
        PROVE  \E j \in jumps : j.label = label /\ IsReferenceTo(r, j)'
    <3>1. PICK j \in jumps : j.label = label /\ IsReferenceTo(r, j)
      BY DEF JumpInv, ReferencesAreJumps
    <3> QED
      BY <2>1, <3>1
  <2>3. ASSUME NEW j \in jumps
        PROVE  \E r \in references[j.label] : IsReferenceTo(r, j)'
    <3>1. PICK r \in references[j.label] : IsReferenceTo(r, j)
      BY DEF JumpInv, ReferencesAreJumps
    <3>2. j.label \in Labels
      BY TypedJump
    <3> QED
      BY <2>1, <3>1, <3>2
  <2> QED
    BY <1>2, <2>2, <2>3 DEF ReferencesAreJumps
<1>13. LabelsArePlaced'
  <2>1. ASSUME NEW j \in jumps, NEW i \in 1 .. N + size, Starts(i, j.instruction)',
               linked[j.label] # 0
        PROVE  IsAt(i + words[i + j.target].value, linked[j.label])'
    <3> DEFINE to == (i - size) + words[(i - size) + j.target].value
               number == linked[j.label]
    <3>1. /\ i - size \in 1 .. N /\ Starts(i - size, j.instruction)
          /\ (i - size) + j.target \in 1 .. N
          /\ words'[i + j.target] = words[(i - size) + j.target]
      BY <1>10, <2>1
    <3>2. IsAt(to, number)
      BY <1>1, <2>1, <3>1 DEF JumpInv, LabelsArePlaced, LeadsToLabel
    <3>3. number \in Nat /\ number # 0 /\ words[(i - size) + j.target].value \in Int
      BY <1>1, <2>1, <3>1, TypedJump DEF Words
    <3>4. i + words'[i + j.target].value = to + size /\ linked'[j.label] = number
          /\ to \in Int
      BY <1>2, <3>1, <3>3
    <3> HIDE DEF to, number
    <3>5. CASE number <= count
      <4>1. to \in 1 .. N /\ words[to].instruction = number /\ words[to].part = 0
        BY <1>1, <3>2, <3>5 DEF IsAt, Starts
      <4>2. to + size \in 1 .. N + size /\ words'[to + size] = words[to]
        BY <1>7, <3>3, <4>1
      <4>3. number <= count' /\ to + size \in DOMAIN words'
            /\ words'[to + size].instruction = number /\ words'[to + size].part = 0
        BY <1>2, <1>4, <3>5, <4>1, <4>2
      <4> QED
        BY <3>4, <4>3 DEF IsAt, Starts
    <3>6. CASE ~(number <= count)
      <4>1. to = N + 1
        BY <3>2, <3>6 DEF IsAt, N
      <4>2. ~(number <= count') /\ to + size = Len(words') + 1
        BY <1>1, <1>2, <1>3, <3>6, <4>1
      <4> QED
        BY <3>4, <4>2 DEF IsAt
    <3> QED
      BY <3>5, <3>6
  <2>2. ASSUME NEW j \in jumps' PROVE LeadsToLabel(j)'
    <3>1. j \in jumps /\ linked' = linked
      BY <1>2
    <3> QED
      BY <1>4, <2>1, <3>1 DEF LeadsToLabel
  <2>3. \A label \in Labels : linked'[label] <= count' + 1
    BY <1>2 DEF JumpInv, LabelsArePlaced
  <2> QED
    BY <2>2, <2>3 DEF LabelsArePlaced
<1> QED
  BY <1>8, <1>9, <1>11, <1>12, <1>13 DEF JumpInv

\* Linking a label tells each of its jumps, and no other, how far the end is.
LEMMA LinkedLabel ==
    ASSUME TypeOK, JumpInv, NEW label \in Labels, Link(label)
    PROVE  JumpInv'
<1> DEFINE N == Len(words)
           Here(i) == {r \in references[label] : Position(r) + r.target + 1 = i}
<1>1. /\ N \in Nat /\ DOMAIN words = 1 .. N /\ count \in Nat
      /\ \A i \in 1 .. N : words[i] \in Words
  BY TypedVariables
<1>2. /\ words' = Patched(label)
      /\ linked' = [linked EXCEPT ![label] = count + 1]
      /\ linked[label] = 0
      /\ UNCHANGED <<prologueSize, references, count, jumps>>
  BY DEF Link
<1>3. /\ words' \in Seq(Words) /\ Len(words') = N
      /\ \A i \in 1 .. N : /\ words'[i].instruction = words[i].instruction
                           /\ words'[i].part = words[i].part
      /\ \A i \in 1 .. N :
           words'[i].value = IF Here(i) = {} THEN words[i].value
                             ELSE N - Position(CHOOSE r \in Here(i) : TRUE)
  BY <1>2, Patching
<1>4. DOMAIN words' = 1 .. N
  BY <1>3, DomainOfSequence
<1>5. ASSUME NEW i \in 1 .. N, NEW n
      PROVE  Starts(i, n)' <=> Starts(i, n)
  BY <1>3 DEF Starts
<1>6. PrologueIsFirst' /\ InstructionsAreWhole'
  <2>1. PrologueIsFirst'
    BY <1>1, <1>2, <1>3, <1>4 DEF JumpInv, PrologueIsFirst
  <2>2. InstructionsAreWhole'
    BY <1>1, <1>3, <1>4 DEF JumpInv, InstructionsAreWhole
  <2> QED
    BY <2>1, <2>2
<1>7. JumpsHaveTargets'
  <2>1. \A j, k \in jumps' : j.instruction = k.instruction => j = k
    BY <1>2 DEF JumpInv, JumpsHaveTargets
  <2>2. ASSUME NEW j \in jumps' PROVE HasTarget(j)'
    <3>1. j \in jumps /\ HasTarget(j)
      BY <1>2 DEF JumpInv, JumpsHaveTargets
    <3> QED
      BY <1>1, <1>2, <1>3, <1>4, <1>5, <3>1 DEF HasTarget
  <2> QED
    BY <2>1, <2>2 DEF JumpsHaveTargets
<1>8. ASSUME NEW r, NEW j
      PROVE  IsReferenceTo(r, j)' <=> IsReferenceTo(r, j)
  <2>1. Position(r)' = Position(r)
    BY <1>2 DEF Position
  <2> QED
    BY <1>1, <1>4, <1>5, <2>1 DEF IsReferenceTo
<1>9. ReferencesAreJumps'
  <2>1. ASSUME NEW l \in Labels, NEW r \in references[l]
        PROVE  \E j \in jumps : j.label = l /\ IsReferenceTo(r, j)'
    <3>1. PICK j \in jumps : j.label = l /\ IsReferenceTo(r, j)
      BY DEF JumpInv, ReferencesAreJumps
    <3> QED
      BY <1>8, <3>1
  <2>2. ASSUME NEW j \in jumps
        PROVE  \E r \in references[j.label] : IsReferenceTo(r, j)'
    <3>1. PICK r \in references[j.label] : IsReferenceTo(r, j)
      BY DEF JumpInv, ReferencesAreJumps
    <3> QED
      BY <1>8, <3>1
  <2> QED
    BY <1>2, <2>1, <2>2 DEF ReferencesAreJumps
\* A reference of the label that writes into a jump is a reference to it.
<1>10. ASSUME NEW j \in jumps, NEW i \in 1 .. N, Starts(i, j.instruction),
              NEW r \in Here(i + j.target)
       PROVE  j.label = label /\ Position(r) = i - 1
  <2>1. r \in references[label] /\ Position(r) + r.target + 1 = i + j.target
    OBVIOUS
  <2>2. PICK k \in jumps : k.label = label /\ IsReferenceTo(r, k)
    BY <2>1 DEF JumpInv, ReferencesAreJumps
  <2>3. /\ Position(r) \in Int /\ r.target = k.target /\ k.target \in Nat
        /\ j.target \in Nat
        /\ Position(r) + 1 \in 1 .. N /\ Starts(Position(r) + 1, k.instruction)
    BY <1>1, <2>1, <2>2, TypedReference, TypedJump DEF IsReferenceTo
  <2>4. (Position(r) + 1) + k.target = i + j.target
    BY <2>1, <2>3
  <2>5. /\ words[i + j.target].instruction = k.instruction
        /\ words[i + j.target].part = k.target
    BY <1>1, <2>2, <2>3, <2>4 DEF JumpInv, JumpsHaveTargets, HasTarget
  <2>6. /\ words[i + j.target].instruction = j.instruction
        /\ words[i + j.target].part = j.target
    BY <1>1, <1>10 DEF JumpInv, JumpsHaveTargets, HasTarget
  <2>7. j = k
    BY <2>2, <2>5, <2>6 DEF JumpInv, JumpsHaveTargets
  <2> QED
    BY <2>2, <2>3, <2>4, <2>7
<1> HIDE DEF Here
<1>11. ASSUME NEW j \in jumps PROVE LeadsToLabel(j)'
  <2> SUFFICES ASSUME NEW i \in 1 .. N, Starts(i, j.instruction), linked'[j.label] # 0
               PROVE  IsAt(i + words[i + j.target].value, linked[j.label])'
    BY <1>4, <1>5 DEF LeadsToLabel
  <2>1. i + j.target \in 1 .. N /\ j.label \in Labels
    BY <1>1, TypedJump DEF JumpInv, JumpsHaveTargets, HasTarget
  <2>2. CASE j.label = label
    <3>1. PICK r \in references[label] : IsReferenceTo(r, j)
      BY <2>2 DEF JumpInv, ReferencesAreJumps
    <3>2. Position(r) + 1 \in 1 .. N /\ Starts(Position(r) + 1, j.instruction)
          /\ r.target = j.target /\ Position(r) \in Int /\ j.target \in Nat
      BY <1>1, <3>1, TypedReference, TypedJump DEF IsReferenceTo
    <3>3. j.instruction # 0
      BY <1>1 DEF JumpInv, JumpsHaveTargets, HasTarget
    <3>4. (Position(r) + 1) - 0 = i - 0
      BY <1>1, <3>2, <3>3 DEF JumpInv, InstructionsAreWhole, Starts
    <3>5. r \in Here(i + j.target)
      BY <3>1, <3>2, <3>4 DEF Here
    <3>6. (CHOOSE q \in Here(i + j.target) : TRUE) \in Here(i + j.target)
      BY <3>5
    <3>7. words'[i + j.target].value = N - (i - 1)
      BY <1>3, <1>10, <2>1, <3>5, <3>6
    <3>8. linked'[j.label] = count + 1
      BY <1>2, <2>2 DEF TypeOK
    <3>9. i + words'[i + j.target].value = Len(words') + 1 /\ ~(count + 1 <= count')
      BY <1>1, <1>2, <1>3, <3>7
    <3> QED
      BY <3>8, <3>9 DEF IsAt
  <2>3. CASE j.label # label
    <3>1. Here(i + j.target) = {}
      BY <1>10, <2>3
    <3>2. words'[i + j.target].value = words[i + j.target].value
      BY <1>3, <2>1, <3>1
    <3>3. linked'[j.label] = linked[j.label]
      BY <1>2, <2>1, <2>3 DEF TypeOK
    <3>4. IsAt(i + words[i + j.target].value, linked[j.label])
      BY <1>1, <3>3 DEF JumpInv, LabelsArePlaced, LeadsToLabel
    <3> QED
      BY <1>1, <1>2, <1>3, <1>4, <3>2, <3>3, <3>4 DEF IsAt, Starts
  <2> QED
    BY <2>2, <2>3
<1>12. LabelsArePlaced'
  <2>1. ASSUME NEW l \in Labels PROVE linked'[l] <= count' + 1
    BY <1>1, <1>2, SMTT(30) DEF JumpInv, LabelsArePlaced, TypeOK
  <2> QED
    BY <1>2, <1>11, <2>1 DEF LabelsArePlaced
<1> QED
  BY <1>6, <1>7, <1>9, <1>12 DEF JumpInv

LEMMA JumpStep ==
    ASSUME TypeOK, JumpInv, Next
    PROVE  JumpInv'
<1>1. CASE \E jump \in Jumps, label \in Labels : EmitJump(jump, label)
  BY <1>1, NewJump
<1>2. CASE \E label \in Labels : Link(label)
  BY <1>2, LinkedLabel
<1>3. CASE \E size \in Nat \ {0} : EmitPrologue(size)
  BY <1>3, InsertedPrologue
<1>4. CASE Extends /\ prologueSize' = prologueSize /\ UNCHANGED linked
  <2>1. \/ \E jump \in Jumps, label \in Labels : EmitJump(jump, label)
        \/ \E label \in Labels : Link(label)
        \/ \E size \in Nat \ {0} : EmitPrologue(size)
        \/ UNCHANGED <<jumps, references>>
    BY AssemblerAssumption DEF Next, Emit, EndTypeChecking, Finalize
  <2> QED
    BY <1>1, <1>2, <1>3, <1>4, <2>1, OtherInstructions
<1> QED
  BY <1>2, <1>3, <1>4, StepsOnWords

LEMMA InitJumps == Init => JumpInv
<1> SUFFICES ASSUME Init PROVE JumpInv
  OBVIOUS
<1>1. words = Instruction(0, "Enter", 1) /\ 1 \in Nat /\ 0 \in Nat /\ "Enter" \in Op
  BY DEF Init, Op
<1>2. words \in Seq(Words) /\ Len(words) = 1
      /\ \A k \in 1 .. 1 : words[k] = Word(0, k - 1, "Enter")
  BY <1>1, InstructionWords
<1>3. DOMAIN words = 1 .. 1 /\ \A k \in 1 .. 1 : k = 1
  BY <1>2, DomainOfSequence
<1>4. words[1].instruction = 0
  BY <1>2, <1>3 DEF Word
<1>5. /\ jumps = {} /\ count = 0 /\ prologueSize = 0
      /\ linked = [l \in Labels |-> 0] /\ references = [l \in Labels |-> {}]
  BY DEF Init
<1>6. PrologueIsFirst /\ InstructionsAreWhole
  BY <1>3, <1>4, <1>5 DEF PrologueIsFirst, InstructionsAreWhole
<1>7. JumpsHaveTargets /\ ReferencesAreJumps /\ LabelsArePlaced
  BY <1>5 DEF JumpsHaveTargets, ReferencesAreJumps, LabelsArePlaced
<1> QED
  BY <1>6, <1>7 DEF JumpInv

LEMMA JumpInvHolds == Spec => []JumpInv
<1>1. Init => JumpInv
  BY InitJumps
<1>2. TypeOK /\ JumpInv /\ [Next]_vars => JumpInv'
  <2> SUFFICES ASSUME TypeOK, JumpInv, [Next]_vars PROVE JumpInv'
    OBVIOUS
  <2>1. CASE UNCHANGED vars
    BY <2>1 DEF vars, JumpInv, PrologueIsFirst, InstructionsAreWhole, JumpsHaveTargets,
       HasTarget, ReferencesAreJumps, IsReferenceTo, LabelsArePlaced, LeadsToLabel, IsAt,
       Starts, Position
  <2> QED
    BY <2>1, JumpStep
<1> QED
  BY <1>1, <1>2, TypeCorrect, PTL DEF Spec

\* A jump leads to the instruction its label was put in front of, however many prologues
\* were inserted before it was emitted, before its label was linked, and after.
THEOREM JumpsLandOnTheirLabels == Spec => []JumpsLand
<1>1. TypeOK /\ JumpInv => JumpsLand
  BY JumpInvLands
<1> QED
  BY <1>1, TypeCorrect, JumpInvHolds, PTL

-----------------------------------------------------------------------------
(* Which location an instruction is reported at                            *)

CoverInv == LocationsCover /\ LocationInv

\* The binary search of locationInfo() finds the entry an offset belongs to: its
\* interval always holds that entry, and gets shorter.
LEMMA Search ==
    ASSUME locations \in Seq(Entry), LocationsAreOrdered, NEW offset \in Int,
           NEW k \in 1 .. Len(locations), locations[k].offset <= offset,
           k < Len(locations) => locations[k + 1].offset > offset
    PROVE  LocationInfo(offset) = locations[k].location
<1> DEFINE n == Len(locations)
           P == [low : 0 .. n, high : 0 .. n]
           Mid(r) == r.low + (r.high - r.low) \div 2
           Walk(g, r) ==
              IF r.low >= r.high THEN r.low
              ELSE IF locations[Mid(r) + 1].offset <= offset
                   THEN g[[low |-> Mid(r) + 1, high |-> r.high]]
                   ELSE g[[low |-> r.low, high |-> Mid(r)]]
<1>1. (\E g : g = [r \in P |-> Walk(g, r)])
      => \E g : /\ g = [r \in P |-> Walk(g, r)]
                /\ LocationInfo(offset) = locations[IF g[[low |-> 0, high |-> n]] = 0 THEN 1 ELSE g[[low |-> 0, high |-> n]]].location
  BY DEF LocationInfo
<1>2. ASSUME NEW g, g = [r \in P |-> Walk(g, r)]
      PROVE \A r \in P : g[r] = Walk(g, r)
  BY <1>2
<1>3. n \in Nat
  OBVIOUS
<1>4. ASSUME NEW r \in P, r.low < r.high
      PROVE  /\ Mid(r) \in r.low .. (r.high - 1)
             /\ [low |-> Mid(r) + 1, high |-> r.high] \in P
             /\ [low |-> r.low, high |-> Mid(r)] \in P
  <2>1. PICK d \in Nat : d = r.high - r.low /\ d > 0
    BY <1>4
  <2>2. d \div 2 \in 0..(d - 1)
    BY <2>1
  <2>3. r.low \in 0 .. n /\ r.high \in 0 .. n
    OBVIOUS
  <2>4. PICK m : m = r.low + (d \div 2)
    OBVIOUS
  <2>5. PICK a \in Nat, b \in Nat : a = r.low /\ b = r.high /\ b <= n
    BY <1>3, <2>3
  <2>6. m \in a .. (b - 1)
    <3>1. PICK half \in 0 .. (d - 1) : half = d \div 2
      BY <2>2
    <3>2. d = b - a /\ m = a + half
      BY <2>1, <2>4, <2>5, <3>1
    <3> HIDE DEF n
    <3> QED
      BY <3>1, <3>2
  <2>7. Mid(r) = m
    BY <2>1, <2>4
  <2> HIDE DEF Mid, n
  <2>8. m \in 0 .. n /\ m + 1 \in 0 .. n
    BY <1>3, <2>5, <2>6
  <2> QED
    BY <2>3, <2>5, <2>6, <2>7, <2>8
<1>5. ASSUME NEW r \in P, r.low < r.high
      PROVE  /\ r.high - (Mid(r) + 1) \in Nat /\ r.high - (Mid(r) + 1) < r.high - r.low
             /\ Mid(r) - r.low \in Nat /\ Mid(r) - r.low < r.high - r.low
  <2>1. PICK a \in Nat, b \in Nat : a = r.low /\ b = r.high
    BY <1>3
  <2>2. PICK c : c = Mid(r)
    OBVIOUS
  <2>3. c \in a .. (b - 1)
    BY <1>4, <1>5, <2>1, <2>2
  <2>4. b - (c + 1) \in Nat /\ b - (c + 1) < b - a /\ c - a \in Nat /\ c - a < b - a
    BY <2>1, <2>3
  <2> HIDE DEF Mid
  <2> QED
    BY <2>1, <2>2, <2>4
<1> HIDE DEF Mid, n
<1> DEFINE D(m) == {r \in P : r.high - r.low <= m}
           Total == {m \in Nat : \E g : g = [r \in D(m) |-> Walk(g, r)]}
<1>6. 0 \in Total
  <2> DEFINE g == [r \in D(0) |-> r.low]
  <2>1. \A r \in D(0) : r.low >= r.high
    BY <1>3
  <2>2. g = [r \in D(0) |-> Walk(g, r)]
    BY <2>1
  <2> QED
    BY <2>2
<1>7. ASSUME NEW m \in Total PROVE m + 1 \in Total
  <2>1. PICK g : g = [r \in D(m) |-> Walk(g, r)]
    OBVIOUS
  <2>2. m \in Nat
    OBVIOUS
  <2> DEFINE h == [r \in D(m + 1) |-> Walk(g, r)]
  <2>3. \A r \in D(m) : r \in D(m + 1) /\ h[r] = g[r]
    <3>1. \A r \in D(m) : r \in D(m + 1)
      BY <1>3, <2>2
    <3>2. \A r \in D(m) : g[r] = Walk(g, r)
      BY <2>1
    <3> HIDE DEF D, Walk
    <3> QED
      BY <3>1, <3>2
  <2>4. ASSUME NEW r \in D(m + 1) PROVE Walk(g, r) = Walk(h, r)
    <3>1. CASE r.low >= r.high
      BY <3>1
    <3>2. CASE ~(r.low >= r.high)
      <4>1. r \in P /\ r.low < r.high /\ r.high - r.low <= m + 1 /\ r.low \in Nat /\ r.high \in Nat
        BY <1>3, <3>2
      <4>2. /\ [low |-> Mid(r) + 1, high |-> r.high] \in D(m)
            /\ [low |-> r.low, high |-> Mid(r)] \in D(m)
        <5>1. /\ [low |-> Mid(r) + 1, high |-> r.high] \in P
              /\ [low |-> r.low, high |-> Mid(r)] \in P
          BY <1>4, <4>1
        <5>2. PICK a \in Nat, b \in Nat, c \in Int : a = r.low /\ b = r.high /\ c = Mid(r)
          BY <1>4, <4>1
        <5>3. b - (c + 1) < b - a /\ c - a < b - a /\ b - a <= m + 1
          BY <1>5, <4>1, <5>2
        <5>4. b - (c + 1) <= m /\ c - a <= m
          BY <2>2, <5>2, <5>3
        <5> QED
          BY <5>1, <5>2, <5>4
      <4> HIDE DEF D, h
      <4> QED
        BY <2>3, <4>2
    <3> QED
      BY <3>1, <3>2
  <2>5. h = [r \in D(m + 1) |-> Walk(h, r)]
    <3> HIDE DEF Walk, D
    <3> QED
      BY <2>4
  <2> HIDE DEF h, D
  <2> QED
    BY <2>2, <2>5
<1>8. \E g : g = [r \in P |-> Walk(g, r)]
  <2>1. Total = Nat
    <3> HIDE DEF Total
    <3>1. Total \in SUBSET Nat
      BY DEF Total
    <3> QED
      BY <1>6, <1>7, <3>1, SetInduction
  <2>2. D(n) = P
    <3>1. \A r \in P : r.high - r.low <= n
      BY <1>3
    <3> HIDE DEF P
    <3> QED
      BY <3>1
  <2>3. n \in Total
    BY <1>3, <2>1
  <2> HIDE DEF D, Walk
  <2> QED
    BY <2>2, <2>3
<1>9. PICK at : /\ at = [r \in P |-> Walk(at, r)]
                /\ LocationInfo(offset) =
                      locations[IF at[[low |-> 0, high |-> n]] = 0 THEN 1
                                ELSE at[[low |-> 0, high |-> n]]].location
  BY <1>1, <1>8
<1>10. \A r \in P : at[r] = Walk(at, r)
  BY <1>2, <1>9
<1>11. \A j \in 1 .. n : locations[j].offset <= offset <=> j <= k
  <2>0. n = Len(locations)
    BY DEF n
  <2>1. /\ \A i, j \in 1 .. n : i < j => locations[i].offset <= locations[j].offset
        /\ \A i \in 1 .. n : locations[i].offset \in Int
        /\ k \in 1 .. n /\ (k < n => locations[k + 1].offset > offset)
    <3> HIDE DEF P, Walk, D, Total
    <3>1. DOMAIN locations = 1 .. n /\ \A i \in 1 .. n : locations[i] \in Entry
      BY <2>0
    <3>2. \A i, j \in 1 .. n : i < j => locations[i].offset <= locations[j].offset
      BY <3>1 DEF LocationsAreOrdered
    <3>3. \A i \in 1 .. n : locations[i].offset \in Int
      BY <3>1 DEF Entry
    <3> QED
      BY <2>0, <3>2, <3>3
  <2>2. ASSUME NEW j \in 1 .. n, j <= k PROVE locations[j].offset <= offset
    BY <1>3, <2>1, <2>2
  <2>3. ASSUME NEW j \in 1 .. n, ~(j <= k) PROVE ~(locations[j].offset <= offset)
    <3>1. k < n /\ k + 1 \in 1 .. n /\ (j = k + 1 \/ k + 1 < j)
      BY <1>3, <2>1, <2>3
    <3>2. locations[k + 1].offset <= locations[j].offset
      BY <2>1, <3>1
    <3> QED
      BY <2>1, <3>1, <3>2
  <2> QED
    BY <2>2, <2>3
<1> DEFINE Wrong(r) == r.low <= k /\ k <= r.high /\ at[r] # k
           Bad == {d \in Nat : \E r \in P : Wrong(r) /\ d = r.high - r.low}
<1>12. Bad = {}
  <2> SUFFICES ASSUME Bad # {} PROVE FALSE
    OBVIOUS
  <2>1. PICK d \in Bad : \A c \in Bad : d <= c
    <3>1. Bad \in SUBSET Nat
      OBVIOUS
    <3> HIDE DEF Bad
    <3> QED
      BY <3>1, LeastNatural
  <2>2. PICK r \in P : Wrong(r) /\ d = r.high - r.low
    BY <2>1
  <2>3. r.low \in Nat /\ r.high \in Nat /\ r.high <= n /\ k \in Nat
    BY <1>3
  <2>4. r.low < r.high
    <3> SUFFICES ASSUME r.low >= r.high PROVE FALSE
      BY <2>3
    <3>1. at[r] = r.low
      BY <1>10
    <3>2. r.low <= k /\ k <= r.high /\ at[r] # k
      BY <2>2
    <3> HIDE DEF Wrong, Bad, Walk
    <3> QED
      BY <2>3, <3>1, <3>2
  <2>5. PICK m \in Nat : m = Mid(r) /\ m + 1 \in 1 .. n
    <3>1. PICK a \in Nat, b \in Nat : a = r.low /\ b = r.high /\ b <= n
      BY <2>3
    <3>2. PICK c : c = Mid(r)
      OBVIOUS
    <3>3. c \in a .. (b - 1)
      BY <1>4, <2>4, <3>1, <3>2
    <3>4. c \in Nat /\ c + 1 \in 1 .. n
      BY <1>3, <3>1, <3>3
    <3> HIDE DEF Bad, Wrong
    <3> QED
      BY <3>2, <3>4
  <2>6. CASE m + 1 <= k
    <3>1. PICK q : q = [low |-> m + 1, high |-> r.high] /\ q \in P
      BY <1>4, <2>4, <2>5
    <3>2. at[r] = at[q]
      <4>1. at[r] = Walk(at, r) /\ ~(r.low >= r.high) /\ locations[Mid(r) + 1].offset <= offset
        BY <1>10, <1>11, <2>3, <2>4, <2>5, <2>6
      <4> QED
        BY <2>5, <3>1, <4>1
    <3>3. Wrong(q)
      BY <2>2, <2>6, <3>1, <3>2
    <3>4. q.high - q.low \in Nat /\ q.high - q.low < d
      BY <1>5, <2>2, <2>4, <2>5, <3>1
    <3>5. q.high - q.low \in Bad
      BY <3>1, <3>3, <3>4
    <3>6. d \in Nat
      OBVIOUS
    <3> HIDE DEF Bad
    <3> QED
      BY <2>1, <3>4, <3>5, <3>6
  <2>7. CASE ~(m + 1 <= k)
    <3>1. PICK q : q = [low |-> r.low, high |-> m] /\ q \in P
      BY <1>4, <2>4, <2>5
    <3>2. at[r] = at[q]
      <4>0. ~(locations[m + 1].offset <= offset)
        <5> HIDE DEF Bad, Wrong, Walk
        <5> QED
          BY <1>11, <2>5, <2>7
      <4>1. at[r] = Walk(at, r) /\ ~(r.low >= r.high) /\ ~(locations[Mid(r) + 1].offset <= offset)
        <5>1. ~(r.low >= r.high)
          BY <2>3, <2>4
        <5> HIDE DEF Bad, Wrong, Walk, P
        <5>2. at[r] = Walk(at, r)
          BY <1>10
        <5>3. Mid(r) + 1 = m + 1
          BY <2>5
        <5> QED
          BY <4>0, <5>1, <5>2, <5>3, Zenon
      <4> QED
        BY <2>5, <3>1, <4>1
    <3>3. Wrong(q)
      BY <2>2, <2>3, <2>5, <2>7, <3>1, <3>2
    <3>4. q.high - q.low \in Nat /\ q.high - q.low < d
      BY <1>5, <2>2, <2>4, <2>5, <3>1
    <3>5. q.high - q.low \in Bad
      BY <3>1, <3>3, <3>4
    <3>6. d \in Nat
      OBVIOUS
    <3> HIDE DEF Bad
    <3> QED
      BY <2>1, <3>4, <3>5, <3>6
  <2> QED
    BY <2>6, <2>7
<1>13. at[[low |-> 0, high |-> n]] = k
  <2>1. PICK q : q = [low |-> 0, high |-> n]
    OBVIOUS
  <2>2. q \in P /\ q.low = 0 /\ q.high = n /\ k \in 1 .. n
    BY <1>3, <2>1 DEF n
  <2>3. q.high - q.low \in Nat
    BY <1>3, <2>2
  <2>4. ~Wrong(q)
    BY <1>12, <2>2, <2>3
  <2> QED
    BY <1>3, <2>1, <2>2, <2>4
<1> QED
  BY <1>9, <1>13

\* A longer block covers what it covered, by the same entries.
LEMMA StillCovered ==
    ASSUME TypeOK, CoverInv, JumpInv, ~finalized, ~finalized', Extends,
           prologueSize' = prologueSize,
           DOMAIN locations \subseteq DOMAIN locations',
           \A k \in DOMAIN locations : locations'[k] = locations[k],
           \A k \in DOMAIN locations' : k \notin DOMAIN locations =>
               locations'[k].offset = Len(words) - prologueSize,
           NEW l \in located
    PROVE  l.instruction \in 1 .. count' /\ IsCovered(l)'
<1> DEFINE N == Len(words)
<1>1. /\ N \in Nat /\ DOMAIN words = 1 .. N /\ prologueSize \in Nat /\ count \in Nat
  BY TypedVariables
<1>2. l.instruction \in 1 .. count /\ IsCovered(l) /\ count' \in Nat /\ count' > count
  BY DEF CoverInv, LocationsCover, Extends
<1>3. /\ DOMAIN words' = 1 .. Len(words') /\ Len(words') \in Nat
      /\ \A i \in 1 .. N : words'[i] = words[i]
      /\ \A i \in N + 1 .. Len(words') : words'[i].instruction \in count + 1 .. count'
  BY DomainOfSequence DEF Extends
<1>4. ASSUME NEW i \in DOMAIN words', Starts(i, l.instruction)'
      PROVE  i \in 1 .. N /\ Starts(i, l.instruction)
  BY <1>1, <1>2, <1>3, <1>4 DEF Starts
<1>5. ASSUME NEW i \in 1 .. N, Starts(i, l.instruction)
      PROVE  HasEntry(i - 1 - prologueSize, l.location)'
  <2>1. PICK k \in DOMAIN locations :
          locations[k].location = l.location /\ Covers(k, i - 1 - prologueSize)
    BY <1>1, <1>2, <1>5 DEF IsCovered, HasEntry
  <2>2. i - 1 - prologueSize < N - prologueSize
    BY <1>1
  <2>3. Covers(k, i - 1 - prologueSize)'
    BY <2>1, <2>2 DEF Covers
  <2> QED
    BY <2>1, <2>3 DEF HasEntry
<1> QED
  BY <1>1, <1>2, <1>4, <1>5 DEF IsCovered

\* addLocation() leaves the end of the block covered: by a new entry, or by the last,
\* which is in front of it.
LEMMA AddedCovers ==
    ASSUME TypeOK, LocationInv, ~finalized, NEW location \in Locations,
           locations' = AddLocation(location)
    PROVE  /\ DOMAIN locations \subseteq DOMAIN locations'
           /\ \A k \in DOMAIN locations : locations'[k] = locations[k]
           /\ \A k \in DOMAIN locations' : k \notin DOMAIN locations =>
                locations'[k].offset = Len(words) - prologueSize
           /\ \E k \in DOMAIN locations' :
                /\ locations'[k].location = location
                /\ locations'[k].offset <= Len(words) - prologueSize
                /\ k + 1 \notin DOMAIN locations'
<1> DEFINE n == Len(locations)
           e == [offset |-> Len(words) - prologueSize, location |-> location]
<1>1. locations \in Seq(Entry) /\ n \in Nat /\ DOMAIN locations = 1 .. n
  BY TypedVariables, TypedLocations
<1>2. e \in Entry /\ e.offset = Len(words) - prologueSize /\ e.location = location
  BY TypedVariables DEF Entry
<1>3. /\ Len(words) \in Nat /\ prologueSize \in Nat
      /\ \A i \in 1 .. n : /\ locations[i].offset \in Int
                           /\ locations[i].offset < Len(words) - prologueSize
  BY <1>1, TypedVariables, TypedLocations DEF LocationInv, OffsetsAreBounded
<1>4. \/ locations' = Append(locations, e)
      \/ locations' = locations /\ n # 0 /\ locations[n].location = location
  <2>1. n # 0 => locations[n].offset # Len(words)
    <3> SUFFICES ASSUME n # 0 PROVE locations[n].offset # Len(words)
      OBVIOUS
    <3>1. n \in 1 .. n
      BY <1>1
    <3> QED
      BY <1>3, <3>1
  <2>2. locations # <<>> <=> n # 0
    BY <1>1
  <2> QED
    BY <2>1, <2>2 DEF AddLocation
<1> HIDE DEF n, e
<1>5. CASE locations' = Append(locations, e)
  <2>1. /\ DOMAIN locations' = 1 .. n + 1
        /\ \A k \in 1 .. n : locations'[k] = locations[k]
        /\ locations'[n + 1] = e
    BY <1>1, <1>2, <1>5 DEF n
  <2>2. n + 1 \in 1 .. n + 1 /\ n + 1 + 1 \notin 1 .. n + 1 /\ 1 .. n \subseteq 1 .. n + 1
        /\ \A k \in 1 .. n + 1 : k \notin 1 .. n => k = n + 1
    BY <1>1
  <2>3. Len(words) - prologueSize <= Len(words) - prologueSize
    BY <1>3
  <2> QED
    BY <1>1, <1>2, <2>1, <2>2, <2>3
<1>6. CASE locations' = locations /\ n # 0 /\ locations[n].location = location
  <2>1. n \in 1 .. n /\ n + 1 \notin 1 .. n
    BY <1>1, <1>6
  <2>2. locations[n].offset <= Len(words) - prologueSize
    BY <1>3, <2>1
  <2> QED
    BY <1>1, <1>6, <2>1, <2>2
<1> QED
  BY <1>4, <1>5, <1>6

LEMMA EmitCovers ==
    ASSUME TypeOK, CoverInv, JumpInv, ~finalized, NEW size \in Sizes,
           NEW location \in Locations \cup {NoLocation}, Emit(size, location)
    PROVE  LocationsCover'
<1>1. /\ Extends /\ prologueSize' = prologueSize /\ ~finalized' /\ count' = count + 1
  BY AssemblerAssumption, Extending DEF Emit, Op
<1>2. CASE location = NoLocation
  <2>1. locations' = locations /\ located' = located
    BY <1>2 DEF Emit
  <2>2. /\ DOMAIN locations \subseteq DOMAIN locations'
        /\ \A k \in DOMAIN locations : locations'[k] = locations[k]
        /\ \A k \in DOMAIN locations' : k \notin DOMAIN locations =>
               locations'[k].offset = Len(words) - prologueSize
    BY <2>1
  <2>3. \A l \in located : l.instruction \in 1 .. count' /\ IsCovered(l)'
    BY <1>1, <2>2, StillCovered
  <2> QED
    BY <2>1, <2>3 DEF LocationsCover
<1>3. CASE location # NoLocation
  <2>1. /\ location \in Locations /\ locations' = AddLocation(location)
        /\ located' = located \cup {[instruction |-> count + 1, location |-> location]}
    BY <1>3 DEF Emit
  <2>2. /\ DOMAIN locations \subseteq DOMAIN locations'
        /\ \A k \in DOMAIN locations : locations'[k] = locations[k]
        /\ \A k \in DOMAIN locations' : k \notin DOMAIN locations =>
               locations'[k].offset = Len(words) - prologueSize
    BY <2>1, AddedCovers DEF CoverInv
  <2>3. \A l \in located : l.instruction \in 1 .. count' /\ IsCovered(l)'
    BY <1>1, <2>2, StillCovered
  <2>4. PICK l : l = [instruction |-> count + 1, location |-> location]
    OBVIOUS
  <2>5. l.instruction = count + 1 /\ l.location = location /\ count \in Nat
    BY <2>4, TypedVariables
  <2>6. PICK k \in DOMAIN locations' :
          /\ locations'[k].location = location
          /\ locations'[k].offset <= Len(words) - prologueSize
          /\ k + 1 \notin DOMAIN locations'
    BY <2>1, AddedCovers DEF CoverInv
  <2>7. /\ Len(words) \in Nat /\ DOMAIN words = 1 .. Len(words)
        /\ DOMAIN words' = 1 .. Len(words') /\ Len(words') \in Nat
        /\ Len(words') > Len(words) /\ prologueSize \in Nat
        /\ \A i \in 1 .. Len(words) : words'[i] = words[i]
        /\ words'[Len(words) + 1].instruction = count + 1
        /\ words'[Len(words) + 1].part = 0
    BY <1>1, DomainOfSequence, TypedVariables DEF Extends
  <2>8. InstructionsAreWhole'
    BY <1>1, ExtendedWords
  <2>9. ASSUME NEW i \in DOMAIN words', Starts(i, l.instruction)'
        PROVE  i = Len(words) + 1
    <3>1. Len(words) + 1 \in DOMAIN words'
      BY <2>7
    <3>2. words'[i].instruction = count + 1 /\ words'[i].part = 0
      BY <2>5, <2>9 DEF Starts
    <3>3. count + 1 # 0
      BY <2>5
    <3>4. i - 0 = (Len(words) + 1) - 0
      BY <2>7, <2>8, <3>1, <3>2, <3>3 DEF InstructionsAreWhole
    <3> QED
      BY <2>7, <3>4
  <2>10. IsCovered(l)'
    <3> SUFFICES ASSUME NEW i \in DOMAIN words', Starts(i, l.instruction)'
                 PROVE  HasEntry(i - 1 - prologueSize, l.location)'
      BY <1>1, <2>5 DEF IsCovered
    <3>1. i - 1 - prologueSize = Len(words) - prologueSize
      BY <2>7, <2>9
    <3>2. Covers(k, i - 1 - prologueSize)'
      BY <1>1, <2>6, <3>1 DEF Covers
    <3> QED
      BY <1>1, <2>5, <2>6, <3>2 DEF HasEntry
  <2>11. l.instruction \in 1 .. count'
    BY <1>1, <2>5
  <2> QED
    BY <2>1, <2>3, <2>4, <2>10, <2>11 DEF LocationsCover
<1> QED
  BY <1>2, <1>3

\* What is emitted without a location leaves the others.
LEMMA EmitJumpCovers ==
    ASSUME TypeOK, CoverInv, JumpInv, ~finalized, ~finalized', Extends,
           prologueSize' = prologueSize, UNCHANGED <<locations, located>>
    PROVE  LocationsCover'
<1>1. /\ DOMAIN locations \subseteq DOMAIN locations'
      /\ \A k \in DOMAIN locations : locations'[k] = locations[k]
      /\ \A k \in DOMAIN locations' : k \notin DOMAIN locations =>
             locations'[k].offset = Len(words) - prologueSize
  OBVIOUS
<1>2. \A l \in located : l.instruction \in 1 .. count' /\ IsCovered(l)'
  BY <1>1, StillCovered
<1> QED
  BY <1>2 DEF LocationsCover

LEMMA LinkCovers ==
    ASSUME TypeOK, CoverInv, NEW label \in Labels, Link(label)
    PROVE  LocationsCover'
<1>1. /\ words' = Patched(label)
      /\ UNCHANGED <<prologueSize, locations, located, count, finalized>>
  BY DEF Link
<1>2. /\ words' \in Seq(Words) /\ Len(words') = Len(words)
      /\ \A i \in 1 .. Len(words) : /\ words'[i].instruction = words[i].instruction
                                    /\ words'[i].part = words[i].part
  BY <1>1, Patching
<1>3. DOMAIN words' = 1 .. Len(words) /\ DOMAIN words = 1 .. Len(words)
  BY <1>2, DomainOfSequence, TypedVariables
<1>4. ASSUME NEW i \in DOMAIN words, NEW number
      PROVE  Starts(i, number)' <=> Starts(i, number)
  BY <1>2, <1>3 DEF Starts
<1>5. ASSUME NEW offset, NEW location
      PROVE  HasEntry(offset, location)' <=> HasEntry(offset, location)
  BY <1>1 DEF HasEntry, Covers
<1>6. ASSUME NEW l \in located PROVE IsCovered(l)'
  BY <1>1, <1>3, <1>4, <1>5 DEF CoverInv, LocationsCover, IsCovered
<1> QED
  BY <1>1, <1>6 DEF CoverInv, LocationsCover

\* A prologue moves an instruction as far as it makes the offset without it differ.
LEMMA EmitPrologueCovers ==
    ASSUME TypeOK, CoverInv, JumpInv, ~finalized, NEW size \in Nat \ {0}, EmitPrologue(size)
    PROVE  LocationsCover'
<1>1. /\ prologueSize' = prologueSize + size
      /\ UNCHANGED <<locations, located, count, finalized>>
  BY DEF EmitPrologue
<1>2. /\ Len(words) \in Nat /\ DOMAIN words = 1 .. Len(words) /\ prologueSize \in Nat
      /\ count \in Nat /\ prologueSize + 1 <= Len(words)
  BY TypedVariables
<1>3. /\ Len(words') = Len(words) + size /\ DOMAIN words' = 1 .. Len(words) + size
      /\ words'[1] = words[1]
      /\ \A i \in 2 .. 1 + size : words'[i].instruction = 0
      /\ \A i \in 2 + size .. Len(words) + size : words'[i] = words[i - size]
  BY EmittingPrologue, DomainOfSequence
<1>4. words[1].instruction = 0
  BY <1>2 DEF JumpInv, PrologueIsFirst
<1>5. ASSUME NEW l \in located PROVE IsCovered(l)'
  <2>1. l.instruction \in 1 .. count /\ IsCovered(l)
    BY DEF CoverInv, LocationsCover
  <2> SUFFICES ASSUME NEW i \in DOMAIN words', Starts(i, l.instruction)'
               PROVE  HasEntry(i - 1 - prologueSize, l.location)'
    BY <1>1 DEF IsCovered
  <2>2. words'[i].instruction = l.instruction /\ words'[i].part = 0
    BY DEF Starts
  <2>3. i \in 2 + size .. Len(words) + size
    BY <1>2, <1>3, <1>4, <2>1, <2>2
  <2>4. i - size \in DOMAIN words /\ words[i - size] = words'[i]
    BY <1>2, <1>3, <2>3
  <2>5. HasEntry((i - size) - 1 - prologueSize, l.location)
    BY <2>1, <2>2, <2>4 DEF IsCovered, Starts
  <2>6. (i - size) - 1 - prologueSize = i - 1 - prologueSize'
    BY <1>1, <1>2, <2>3
  <2> QED
    BY <1>1, <2>5, <2>6 DEF HasEntry, Covers
<1> QED
  BY <1>1, <1>5 DEF CoverInv, LocationsCover

\* adjustOffsets() moves the entries that are far enough with their instructions.
LEMMA FinalizeCovers ==
    ASSUME TypeOK, CoverInv, Finalize
    PROVE  LocationsCover'
<1> DEFINE n == Len(locations)
<1>1. /\ locations' = [i \in 1 .. n |-> Adjusted(locations[i])] /\ finalized' = TRUE
      /\ ~finalized /\ located' = located /\ prologueSize' = prologueSize
      /\ count' = count + 1 /\ words' = Appended("End", 2)
  BY DEF Finalize, Fits
<1>2. /\ Len(words) \in Nat /\ DOMAIN words = 1 .. Len(words) /\ prologueSize \in Nat
      /\ count \in Nat
  BY TypedVariables
<1>3. /\ DOMAIN words' = 1 .. Len(words') /\ Len(words') \in Nat
      /\ \A i \in 1 .. Len(words) : words'[i] = words[i]
      /\ \A i \in Len(words) + 1 .. Len(words') : words'[i].instruction \in count + 1 .. count'
  <2>1. Extends
    BY <1>1, Extending DEF Op
  <2> QED
    BY <2>1, DomainOfSequence DEF Extends
<1>4. /\ DOMAIN locations = 1 .. n /\ DOMAIN locations' = 1 .. n
      /\ \A i \in 1 .. n :
           /\ locations[i].offset \in Int
           /\ locations'[i].offset = IF locations[i].offset > prologueSize
                                     THEN locations[i].offset + prologueSize
                                     ELSE locations[i].offset
  BY <1>1, Adjusting
<1>5. \A i \in 1 .. n : locations'[i].location = locations[i].location
  BY <1>1, <1>4, TypedVariables DEF Adjusted, Entry
<1> HIDE DEF n
<1>6. ASSUME NEW l \in located PROVE IsCovered(l)'
  <2>1. l.instruction \in 1 .. count /\ IsCovered(l)
    BY DEF CoverInv, LocationsCover
  <2> SUFFICES ASSUME NEW i \in DOMAIN words', Starts(i, l.instruction)',
                      i - 1 > 2 * prologueSize
               PROVE  HasEntry(i - 1, l.location)'
    BY <1>1 DEF IsCovered
  <2>2. i \in 1 .. Len(words) /\ Starts(i, l.instruction)
    BY <1>1, <1>2, <1>3, <2>1 DEF Starts
  <2>3. PICK k \in 1 .. n :
          locations[k].location = l.location /\ Covers(k, i - 1 - prologueSize)
    BY <1>1, <1>2, <1>4, <2>1, <2>2 DEF IsCovered, HasEntry
  <2>4. locations'[k].offset <= i - 1
    BY <1>2, <1>4, <2>2, <2>3 DEF Covers
  <2>5. ASSUME k + 1 \in 1 .. n PROVE locations'[k + 1].offset > i - 1
    <3>1. PICK next \in Int : next = locations[k + 1].offset
      BY <1>4, <2>5
    <3>2. next > i - 1 - prologueSize
      BY <1>4, <2>3, <2>5, <3>1 DEF Covers
    <3>3. next > prologueSize /\ next + prologueSize > i - 1
      BY <1>2, <2>2, <3>2
    <3> QED
      BY <1>4, <2>5, <3>1, <3>3
  <2>6. Covers(k, i - 1)'
    BY <1>4, <2>4, <2>5 DEF Covers
  <2> QED
    BY <1>4, <1>5, <2>3, <2>6 DEF HasEntry
<1>7. \A l \in located : l.instruction \in 1 .. count'
  BY <1>1, <1>2 DEF CoverInv, LocationsCover
<1> QED
  BY <1>1, <1>6, <1>7 DEF LocationsCover

LEMMA CoverStep ==
    ASSUME TypeOK, CoverInv, JumpInv, Next
    PROVE  LocationsCover'
<1>1. ~finalized
  BY DEF Next, Emit, EmitJump, Link, EmitPrologue, EndTypeChecking, Finalize, Fits
<1>2. ASSUME NEW jump \in Jumps, NEW label \in Labels, EmitJump(jump, label)
      PROVE  LocationsCover'
  <2>1. Extends
    BY <1>2, JumpSizes, Extending DEF EmitJump, Op
  <2> QED
    BY <1>1, <1>2, <2>1, EmitJumpCovers DEF EmitJump
<1>3. ASSUME EndTypeChecking PROVE LocationsCover'
  <2>1. Extends
    BY <1>3, EndingTypeChecking
  <2> QED
    BY <1>1, <1>3, <2>1, EmitJumpCovers DEF EndTypeChecking
<1>4. ASSUME NEW size \in Sizes, EmitPrologue(size) PROVE LocationsCover'
  BY <1>1, <1>4, AssemblerAssumption, EmitPrologueCovers
<1>5. ASSUME NEW size \in Sizes, NEW location \in Locations \cup {NoLocation},
             Emit(size, location)
      PROVE  LocationsCover'
  BY <1>1, <1>5, EmitCovers
<1> QED
  BY <1>2, <1>3, <1>4, <1>5, LinkCovers, FinalizeCovers DEF Next

LEMMA LocationsCoverHolds == Spec => []LocationsCover
<1>1. Init => LocationsCover
  BY DEF Init, LocationsCover
<1>2. TypeOK /\ LocationInv /\ JumpInv /\ LocationsCover /\ [Next]_vars => LocationsCover'
  <2> SUFFICES ASSUME TypeOK, LocationInv, JumpInv, LocationsCover, [Next]_vars
               PROVE  LocationsCover'
    OBVIOUS
  <2>1. CASE UNCHANGED vars
    BY <2>1 DEF LocationsCover, IsCovered, HasEntry, Covers, Starts, vars
  <2> QED
    BY <2>1, CoverStep DEF CoverInv
<1> QED
  BY <1>1, <1>2, TypeCorrect, LocationInvHolds, JumpInvHolds, PTL DEF Spec

LEMMA CoveredIsFound ==
    ASSUME TypeOK, LocationInv, LocationsCover
    PROVE  LocationsAreFound
<1> SUFFICES ASSUME finalized, NEW l \in located, NEW i \in DOMAIN words,
                    Starts(i, l.instruction), i - 1 > 2 * prologueSize
             PROVE  LocationInfo(i - 1) = l.location
  BY DEF LocationsAreFound
<1>1. locations \in Seq(Entry) /\ DOMAIN locations = 1 .. Len(locations)
      /\ Len(locations) \in Nat /\ i \in Nat
  BY TypedVariables, TypedLocations
<1>2. PICK k \in DOMAIN locations :
        locations[k].location = l.location /\ Covers(k, i - 1)
  BY DEF LocationsCover, IsCovered, HasEntry
<1>3. k \in 1 .. Len(locations) /\ i - 1 \in Int
  BY <1>1
<1>4. k < Len(locations) => locations[k + 1].offset > i - 1
  <2>1. k < Len(locations) => k + 1 \in DOMAIN locations
    BY <1>1, <1>3
  <2> QED
    BY <1>2, <2>1 DEF Covers
<1>5. locations[k].offset <= i - 1
  BY <1>2 DEF Covers
<1>6. LocationInfo(i - 1) = locations[k].location
  BY <1>1, <1>3, <1>4, <1>5, Search DEF LocationInv
<1> QED
  BY <1>2, <1>6

\* In a finished block locationInfo() reports each instruction that is further from the
\* start than twice the prologue at the location it was emitted with, however many
\* prologues were inserted before it and after: the search finds the entry whose offsets
\* include the instruction's, and that entry is the one addLocation() left for it.
THEOREM LocationsAreFoundRight == Spec => []LocationsAreFound
<1>1. TypeOK /\ LocationInv /\ LocationsCover => LocationsAreFound
  BY CoveredIsFound
<1> QED
  BY <1>1, TypeCorrect, LocationInvHolds, LocationsCoverHolds, PTL

\* Blocks have the assembler's layout after every step: the prologue first, whole
\* instructions, references to jumps, bounded and ordered offsets.
THEOREM LayoutHolds == Spec => []Layout
<1>1. JumpInv /\ LocationInv /\ LocationsCover /\ CodeStartsAtEnter => Layout
  BY DEF Layout, JumpInv, LocationInv
<1> QED
  BY <1>1, JumpInvHolds, LocationInvHolds, LocationsCoverHolds, CodeStartsRight, PTL

=============================================================================
