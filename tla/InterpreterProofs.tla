------------------------- MODULE InterpreterProofs -------------------------
(***************************************************************************)
(* Proofs about the interpreters, for any programs, blocks, registers and  *)
(* bounds: of the code they assume CodeAssumption.  Those about the scopes *)
(* it opens are in InterpreterScopeProofs.                                 *)
(***************************************************************************)
EXTENDS Interpreter, NaturalFacts, TLAPS

\* Frames, of whose environments it is not known yet that they have parents.
Shape ==
    [block : Block, mode : {"check", "run"}, pc : Nat, environment : Int, parent : Int,
     cfr : Pointer, argc : Nat, base : Nat,
     lastBlock : Block \union {Native}, lastInterpreter : Nat,
     hold : {NoHold} \union (Nat \X Nat), result : Val]

Shaped ==
    /\ program \in Program
    /\ stack \in Seq(Val)
    /\ store \in Nat /\ capacity \in Nat
    /\ frames \in Seq(Shape)
    /\ currentBlock \in Block \union {Native}
    /\ functions \in [Block -> Int \union {NoEnvironment}]

Tiles ==
    /\ \A i \in DOMAIN frames : Above(i) = frames[i].base + Extent(frames[i])
    /\ IF frames = <<>> THEN Len(stack) = 1 ELSE frames[1].base = 1
    /\ Len(stack) <= capacity

StackInv == Shaped /\ Control /\ Tiles /\ RegistersAreCurrent

-----------------------------------------------------------------------------
(* Sequences                                                               *)

LEMMA SequenceFacts ==
    ASSUME NEW S, NEW s \in Seq(S)
    PROVE  /\ DOMAIN s = 1 .. Len(s) /\ Len(s) \in Nat
           /\ \A i \in 1 .. Len(s) : s[i] \in S
           /\ s = <<>> <=> Len(s) = 0
  OBVIOUS

LEMMA FunctionIsSequence ==
    ASSUME NEW S, NEW n \in Nat, NEW f \in [1 .. n -> S]
    PROVE  f \in Seq(S) /\ Len(f) = n
  OBVIOUS

LEMMA Replacing ==
    ASSUME NEW S, NEW s \in Seq(S), NEW k \in 1 .. Len(s), NEW e \in S, NEW t,
           t = [s EXCEPT ![k] = e]
    PROVE  /\ t \in Seq(S) /\ Len(t) = Len(s)
           /\ t[k] = e
           /\ \A i \in 1 .. Len(s) : i # k => t[i] = s[i]
  OBVIOUS

LEMMA Appending ==
    ASSUME NEW S, NEW s \in Seq(S), NEW e \in S, NEW t, t = Append(s, e)
    PROVE  /\ t \in Seq(S) /\ Len(t) = Len(s) + 1
           /\ t[Len(s) + 1] = e
           /\ \A i \in 1 .. Len(s) : t[i] = s[i]
  OBVIOUS

LEMMA OuterPart ==
    ASSUME NEW S, NEW s \in Seq(S), s # <<>>
    PROVE  /\ Outer(s) \in Seq(S) /\ Len(Outer(s)) = Len(s) - 1
           /\ \A i \in 1 .. Len(s) - 1 : Outer(s)[i] = s[i]
<1>1. Len(s) \in Nat \ {0} /\ Len(s) - 1 \in 0 .. Len(s)
  OBVIOUS
<1>2. Outer(s) \in Seq(S) /\ Len(Outer(s)) = Len(s) - 1
  <2>1. PICK m \in 0 .. Len(s) : m = Len(s) - 1
    BY <1>1
  <2>2. SubSeq(s, 1, m) \in Seq(S) /\ Len(SubSeq(s, 1, m)) = m
    OBVIOUS
  <2> QED
    BY <2>1, <2>2 DEF Outer
<1>3. ASSUME NEW i \in 1 .. Len(s) - 1 PROVE Outer(s)[i] = s[i]
  <2>1. 1 + i - 1 = i
    OBVIOUS
  <2> QED
    BY <1>1, <2>1 DEF Outer
<1> QED
  BY <1>2, <1>3

LEMMA Joining ==
    ASSUME NEW S, NEW s \in Seq(S), NEW t \in Seq(S)
    PROVE  /\ s \o t \in Seq(S) /\ Len(s \o t) = Len(s) + Len(t)
           /\ \A i \in 1 .. Len(s) : (s \o t)[i] = s[i]
           /\ \A i \in 1 .. Len(t) : (s \o t)[Len(s) + i] = t[i]
<1>1. s \o t \in Seq(S) /\ Len(s \o t) = Len(s) + Len(t)
  OBVIOUS
<1>2. ASSUME NEW i \in 1 .. Len(s) PROVE (s \o t)[i] = s[i]
  OBVIOUS
<1>3. ASSUME NEW i \in 1 .. Len(t) PROVE (s \o t)[Len(s) + i] = t[i]
  <2>1. Len(s) \in Nat /\ Len(t) \in Nat /\ Len(s) + i \in 1 .. Len(s) + Len(t)
        /\ ~(Len(s) + i <= Len(s)) /\ (Len(s) + i) - Len(s) = i
    OBVIOUS
  <2> QED
    BY <2>1
<1> QED
  BY <1>1, <1>2, <1>3

LEMMA Dropping ==
    ASSUME NEW S, NEW s \in Seq(S), NEW n \in 0 .. Len(s)
    PROVE  /\ SubSeq(s, n + 1, Len(s)) \in Seq(S)
           /\ Len(SubSeq(s, n + 1, Len(s))) = Len(s) - n
           /\ \A i \in 1 .. Len(s) - n : SubSeq(s, n + 1, Len(s))[i] = s[n + i]
<1>1. SubSeq(s, n + 1, Len(s)) \in Seq(S) /\ Len(SubSeq(s, n + 1, Len(s))) = Len(s) - n
  OBVIOUS
<1>2. ASSUME NEW i \in 1 .. Len(s) - n PROVE SubSeq(s, n + 1, Len(s))[i] = s[n + i]
  <2>1. (n + 1) + i - 1 = n + i
    OBVIOUS
  <2> QED
    BY <1>1, <2>1
<1> QED
  BY <1>1, <1>2

-----------------------------------------------------------------------------
(* The innermost frame                                                     *)

LEMMA FrameFacts ==
    ASSUME StackInv, NEW i \in DOMAIN frames
    PROVE  LET f == frames[i] IN
           /\ i \in 1 .. Len(frames) /\ Len(frames) \in Nat
           /\ f \in Shape
           /\ f.block \in Compiled(program) /\ f.block \in Block
           /\ NumLocals[f.block] \in Nat \ {0}
           /\ f.pc \in Nat /\ f.pc \in DOMAIN Code[program][f.block]
           /\ f.argc \in Nat /\ f.base \in Nat
           /\ f.cfr.index \in Nat
           /\ f.environment \in Int /\ f.parent \in Int
           /\ Extent(f) \in Nat
           /\ Above(i) = f.base + Extent(f)
           /\ FrameIsInCode(i)
<1> DEFINE f == frames[i]
<1>1. i \in 1 .. Len(frames) /\ Len(frames) \in Nat /\ f \in Shape
  BY SequenceFacts DEF StackInv, Shaped
<1>2. FrameIsInCode(i) /\ Above(i) = f.base + Extent(f)
  BY DEF StackInv, Control, Tiles
<1>3. f.block \in Compiled(program) /\ f.pc \in DOMAIN Code[program][f.block]
  BY <1>2 DEF FrameIsInCode
<1>4. /\ f.block \in Block /\ f.pc \in Nat /\ f.argc \in Nat /\ f.base \in Nat
      /\ f.cfr \in Pointer /\ f.environment \in Int /\ f.parent \in Int
  BY <1>1 DEF Shape
<1>5. NumLocals[f.block] \in Nat \ {0} /\ f.cfr.index \in Nat
  BY <1>4, InterpreterAssumption DEF Pointer
<1>6. Extent(f) \in Nat
  BY <1>4, <1>5 DEF Extent
<1> QED
  BY <1>1, <1>2, <1>3, <1>4, <1>5, <1>6

LEMMA TopFacts ==
    ASSUME StackInv, frames # <<>>
    PROVE  /\ Len(frames) \in Nat \ {0} /\ DOMAIN frames = 1 .. Len(frames)
           /\ Len(frames) \in DOMAIN frames /\ Top = frames[Len(frames)]
           /\ Len(stack) = Top.base + Extent(Top) /\ Len(stack) \in Nat
           /\ current = Len(frames)
<1>1. frames \in Seq(Shape) /\ stack \in Seq(Val)
  BY DEF StackInv, Shaped
<1>2. Len(frames) \in Nat \ {0} /\ DOMAIN frames = 1 .. Len(frames) /\ Len(stack) \in Nat
  BY <1>1, SequenceFacts
<1>3. Len(frames) \in DOMAIN frames /\ Top = frames[Len(frames)]
  BY <1>2 DEF Top, Innermost
<1>4. Above(Len(frames)) = Len(stack)
  BY DEF Above
<1> QED
  BY <1>2, <1>3, <1>4 DEF StackInv, Tiles, Control

LEMMA CompiledCode ==
    ASSUME StackInv, NEW b \in Compiled(program)
    PROVE  StaysInside(program, b) /\ UsesItsLocals(program, b)
           /\ DefinesCompiled(program, b)
  BY CodeAssumption DEF StackInv, Shaped

\* An instruction leads to another of the same part, which is not Enter.
LEMMA NextInstruction ==
    ASSUME StackInv, frames # <<>>
    PROVE  /\ Instruction.op \notin {"end", "runtimeError", "jump"} =>
                /\ Top.pc + 1 \in DOMAIN Code[program][Top.block]
                /\ Code[program][Top.block][Top.pc + 1].op # "enter"
                /\ Top.mode = "check" <=> Top.pc + 1 < CodeStart[program][Top.block]
           /\ Instruction.op \in {"jump", "branch"} =>
                /\ Top.pc + Instruction.by \in DOMAIN Code[program][Top.block]
                /\ Code[program][Top.block][Top.pc + Instruction.by].op # "enter"
                /\ Top.mode = "check" <=>
                     Top.pc + Instruction.by < CodeStart[program][Top.block]
<1> DEFINE code == Code[program][Top.block]
           start == CodeStart[program][Top.block]
<1>1. FrameIsInCode(Len(frames)) /\ Top = frames[Len(frames)]
  BY TopFacts, FrameFacts
<1>2. /\ Top.block \in Compiled(program) /\ Top.pc \in DOMAIN code
      /\ Top.mode = "check" <=> Top.pc < start
  BY <1>1 DEF FrameIsInCode
<1>3. Instruction = code[Top.pc]
  BY DEF Instruction
<1>4. \A pc \in DOMAIN code :
        /\ code[pc].op = "enter" <=> pc \in {1, start}
        /\ code[pc].op \notin {"end", "runtimeError", "jump"} =>
             pc + 1 \in DOMAIN code \ {1, start} /\ (pc + 1 < start <=> pc < start)
        /\ code[pc].op \in {"jump", "branch"} =>
             /\ pc + code[pc].by \in DOMAIN code \ {1, start}
             /\ pc + code[pc].by < start <=> pc < start
  BY <1>2, CompiledCode DEF StaysInside
<1> HIDE DEF code, start
<1> QED
  BY <1>2, <1>3, <1>4 DEF code, start

-----------------------------------------------------------------------------
(* Steps that nest no interpreter and end none                             *)

\* The part of a frame that stays while its interpreter exists.
SameFrame(f, g) ==
    /\ f.block = g.block /\ f.mode = g.mode /\ f.parent = g.parent
    /\ f.argc = g.argc /\ f.base = g.base
    /\ f.lastBlock = g.lastBlock /\ f.lastInterpreter = g.lastInterpreter

LEMMA Stepped ==
    ASSUME NEW f \in Shape, NEW pc \in Nat, NEW g, g = [f EXCEPT !.pc = pc]
    PROVE  /\ g \in Shape /\ SameFrame(g, f) /\ g.pc = pc
           /\ g.cfr = f.cfr /\ g.hold = f.hold /\ g.result = f.result
           /\ g.environment = f.environment
  BY DEF Shape, SameFrame

LEMMA Held ==
    ASSUME NEW f \in Shape, Len(stack) \in Nat
    PROVE  /\ Hold(f) \in Shape /\ SameFrame(Hold(f), f) /\ Hold(f).pc = f.pc
           /\ Hold(f).cfr = f.cfr /\ Hold(f).hold = <<Len(stack), f.cfr.index>>
           /\ Hold(f).hold # NoHold
           /\ Hold(f).environment = f.environment
<1>1. f.cfr.index \in Nat /\ Crash \in Val
  BY InterpreterAssumption DEF Shape, Pointer
<1> DEFINE h == <<Len(stack), f.cfr.index>>
<1>2. h \in Nat \X Nat
  BY <1>1
<1>3. h # NoHold
  BY DEF NoHold
<1>4. Hold(f) = [f EXCEPT !.hold = h, !.result = Crash]
  BY DEF Hold
<1> HIDE DEF h
<1> QED
  BY <1>1, <1>2, <1>3, <1>4 DEF Shape, SameFrame, h

LEMMA IsReleased ==
    ASSUME NEW f \in Shape, NEW size \in Nat, NEW index \in Nat, f.hold = <<size, index>>,
           store \in Nat
    PROVE  /\ Released(f) \in Shape /\ SameFrame(Released(f), f)
           /\ Released(f).pc = f.pc + 1
           /\ Released(f).cfr = [store |-> store, index |-> index]
           /\ Released(f).hold = NoHold
           /\ Released(f).environment = f.environment
           /\ Released(f).result = f.result
<1> DEFINE c == [store |-> store, index |-> f.hold[2]]
<1>1. c = [store |-> store, index |-> index] /\ c \in Pointer
  BY DEF Pointer
<1>2. PICK pc \in Nat : pc = f.pc + 1
  BY DEF Shape
<1>3. Released(f) = [f EXCEPT !.cfr = c, !.hold = NoHold, !.pc = pc]
  BY <1>2 DEF Released
<1> HIDE DEF c
<1>4. Released(f) \in Shape
  BY <1>1, <1>2, <1>3 DEF Shape
<1>5. /\ SameFrame(Released(f), f) /\ Released(f).pc = pc
      /\ Released(f).cfr = c /\ Released(f).hold = NoHold
      /\ Released(f).environment = f.environment /\ Released(f).result = f.result
  BY <1>3 DEF Shape, SameFrame
<1> QED
  BY <1>1, <1>2, <1>4, <1>5

\* A frame that may execute its next instruction, or waits to.
Proper(f) ==
    /\ f.pc \in DOMAIN Code[program][f.block]
    /\ Code[program][f.block][f.pc].op # "enter"
    /\ f.mode = "check" <=> f.pc < CodeStart[program][f.block]
Ready(f) ==
    /\ Proper(f) /\ Entered(f)
    /\ \/ f.hold = NoHold /\ f.cfr = [store |-> store, index |-> NumLocals[f.block] + 1]
       \/ /\ f.hold = <<Len(stack), NumLocals[f.block] + 1>> /\ f.hold # NoHold
          /\ Code[program][f.block][f.pc].op \in Waiting

\* The innermost frame changes, and of the others nothing but their environment.
InPlace ==
    /\ frames # <<>> /\ Entered(Top)
    /\ frames' \in Seq(Shape) /\ Len(frames') = Len(frames)
    /\ \A i \in 1 .. Len(frames) : SameFrame(frames'[i], frames[i])
    /\ \A i \in 1 .. Len(frames) - 1 :
         /\ frames'[i].pc = frames[i].pc /\ frames'[i].cfr = frames[i].cfr
         /\ frames'[i].hold = frames[i].hold
    /\ Ready(frames'[Len(frames)])
    /\ stack' \in Seq(Val) /\ Len(stack') = Len(stack)
    /\ UNCHANGED <<program, store, capacity, current, currentBlock>>
    /\ outcome' \notin {"start", "checked"}
    /\ functions' \in [Block -> Int \union {NoEnvironment}]
    /\ \A b \in Block : functions'[b] # NoEnvironment => b \in Compiled(program)

LEMMA InPlaceKeeps ==
    ASSUME StackInv, InPlace
    PROVE  StackInv'
<1> DEFINE n == Len(frames)
<1>1. /\ n \in Nat \ {0} /\ DOMAIN frames = 1 .. n /\ Len(stack) \in Nat
      /\ Top = frames[n] /\ Len(stack) = Top.base + Extent(Top) /\ current = n
  BY TopFacts DEF InPlace
<1>2. /\ DOMAIN frames' = 1 .. n /\ frames' # <<>> /\ Len(frames') = n
      /\ \A i \in 1 .. n : frames'[i] \in Shape
  BY <1>1, SequenceFacts DEF InPlace
<1>3. \A i \in 1 .. n : SameFrame(frames'[i], frames[i])
  BY DEF InPlace
<1>4. \A i \in 1 .. n - 1 :
         /\ frames'[i].pc = frames[i].pc /\ frames'[i].cfr = frames[i].cfr
         /\ frames'[i].hold = frames[i].hold
  BY DEF InPlace
<1>5. Ready(frames'[n]) /\ Len(stack') = Len(stack) /\ store' = store /\ program' = program
      /\ current' = current
  BY DEF InPlace
<1>6. \A i \in 1 .. n : frames[i] \in Shape /\ NumLocals[frames[i].block] \in Nat \ {0}
  BY <1>1, FrameFacts
<1>7. \A i \in 1 .. n : Entered(frames'[i]) <=> Entered(frames[i])
  <2>1. Entered(frames'[n]) /\ Entered(frames[n])
    BY <1>1, <1>3, <1>5, <1>6 DEF Ready, Entered, InPlace, SameFrame
  <2>2. \A i \in 1 .. n - 1 : Entered(frames'[i]) <=> Entered(frames[i])
    BY <1>4 DEF Entered
  <2> QED
    BY <1>1, <2>1, <2>2
<1>8. \A i \in 1 .. n : Extent(frames'[i]) = Extent(frames[i])
  BY <1>3, <1>7 DEF Extent, SameFrame
<1> HIDE DEF n
<1>9. Shaped'
  BY DEF InPlace, StackInv, Shaped
<1>10. Control'
  <2>1. ASSUME NEW i \in 1 .. n PROVE FrameIsInCode(i)'
    <3>1. FrameIsInCode(i) /\ SameFrame(frames'[i], frames[i])
      BY <1>1, <1>3, FrameFacts
    <3>2. CASE i = n
      BY <1>1, <1>5, <1>6, <1>7, <3>1, <3>2 DEF FrameIsInCode, SameFrame, Ready, Proper, InPlace
    <3>3. CASE i # n
      <4>1. i \in 1 .. n - 1
        BY <1>1, <3>3
      <4> QED
        BY <1>4, <1>5, <1>7, <3>1, <4>1 DEF FrameIsInCode, SameFrame
    <3> QED
      BY <3>2, <3>3
  <2> QED
    BY <1>1, <1>2, <1>5, <2>1 DEF Control, InPlace
<1>11. Tiles'
  <2>1. \A i \in 1 .. n : Above(i)' = Above(i)
    <3>1. ASSUME NEW i \in 1 .. n, i # n PROVE i + 1 \in 1 .. n
      BY <1>1, <3>1
    <3> QED
      BY <1>2, <1>3, <1>5, <3>1 DEF Above, SameFrame, n
  <2>2. \A i \in 1 .. n : frames'[i].base = frames[i].base
    BY <1>3 DEF SameFrame
  <2>3. \A i \in 1 .. n : Above(i) = frames[i].base + Extent(frames[i])
    BY <1>1 DEF StackInv, Tiles
  <2>4. 1 \in 1 .. n /\ frames # <<>>
    BY <1>1, SequenceFacts DEF InPlace
  <2>5. frames'[1].base = 1
    BY <2>2, <2>4 DEF StackInv, Tiles
  <2>6. Len(stack') <= capacity'
    BY <1>5 DEF StackInv, Tiles, InPlace
  <2> QED
    BY <1>2, <1>8, <2>1, <2>2, <2>3, <2>5, <2>6 DEF Tiles
<1>12. RegistersAreCurrent'
  <2>1. ASSUME NEW i \in 1 .. n
        PROVE  /\ Entered(frames'[i]) /\ frames'[i].hold = NoHold =>
                     frames'[i].cfr =
                         [store |-> store', index |-> NumLocals[frames'[i].block] + 1]
               /\ frames'[i].hold # NoHold =>
                     frames'[i].hold = <<frames'[i].base + Extent(frames'[i]),
                                         NumLocals[frames'[i].block] + 1>>
               /\ i < n => frames'[i].hold # NoHold
    <3>1. CASE i = n
      <4>1. Len(stack) = frames'[n].base + Extent(frames'[n])
        BY <1>1, <1>3, <1>8 DEF SameFrame
      <4> QED
        BY <1>1, <1>5, <3>1, <4>1 DEF Ready
    <3>2. CASE i # n
      <4>1. i \in 1 .. n - 1 /\ i < n
        BY <1>1, <3>2
      <4>2. /\ frames[i].hold # NoHold
            /\ frames[i].hold = <<frames[i].base + Extent(frames[i]),
                                  NumLocals[frames[i].block] + 1>>
        BY <1>1, <4>1 DEF StackInv, RegistersAreCurrent, n
      <4>3. frames'[i].hold = frames[i].hold /\ SameFrame(frames'[i], frames[i])
            /\ Extent(frames'[i]) = Extent(frames[i])
        BY <1>3, <1>4, <1>8, <4>1
      <4> QED
        BY <4>2, <4>3 DEF SameFrame
    <3> QED
      BY <3>1, <3>2
  <2> QED
    BY <1>2, <2>1 DEF RegistersAreCurrent
<1> QED
  BY <1>9, <1>10, <1>11, <1>12 DEF StackInv

LEMMA TopStep ==
    ASSUME StackInv, frames # <<>>, Entered(Top),
           NEW g \in Shape, SameFrame(g, Top), TopBecomes(g), Ready(g),
           stack' \in Seq(Val), Len(stack') = Len(stack),
           UNCHANGED <<program, store, capacity, current, currentBlock>>,
           outcome' \notin {"start", "checked"},
           functions' \in [Block -> Int \union {NoEnvironment}],
           \A b \in Block : functions'[b] # NoEnvironment => b \in Compiled(program)
    PROVE  InPlace
<1>1. /\ Len(frames) \in 1 .. Len(frames) /\ frames \in Seq(Shape)
      /\ Top = frames[Len(frames)]
  BY TopFacts DEF StackInv, Shaped
<1>2. /\ frames' \in Seq(Shape) /\ Len(frames') = Len(frames)
      /\ frames'[Len(frames)] = g
      /\ \A i \in 1 .. Len(frames) : i # Len(frames) => frames'[i] = frames[i]
  BY <1>1, Replacing DEF TopBecomes
<1>3. \A i \in 1 .. Len(frames) : SameFrame(frames'[i], frames[i])
  <2>1. \A i \in 1 .. Len(frames) : SameFrame(frames[i], frames[i])
    BY DEF SameFrame
  <2> QED
    BY <1>1, <1>2, <2>1
<1>4. \A i \in 1 .. Len(frames) - 1 : i \in 1 .. Len(frames) /\ i # Len(frames)
  BY <1>1
<1> QED
  BY <1>2, <1>3, <1>4 DEF InPlace

\* What is known of the innermost frame when it executes an instruction.
LEMMA Executing ==
    ASSUME StackInv, NEW names, Executes(names), "enter" \notin names
    PROVE  /\ frames # <<>> /\ outcome \in {"check", "run"}
           /\ Instruction.op \in names
           /\ Top \in Shape /\ Top.hold = NoHold /\ Entered(Top)
           /\ Top.cfr = [store |-> store, index |-> NumLocals[Top.block] + 1]
           /\ NumLocals[Top.block] \in Nat \ {0} /\ Top.pc \in Nat
           /\ Top.block \in Compiled(program)
           /\ Extent(Top) = Top.argc + 1 + NumLocals[Top.block]
           /\ Top.argc \in Nat /\ Top.base \in Nat
           /\ Proper(Top)
<1>1. /\ frames # <<>> /\ outcome \in {"check", "run"} /\ Instruction.op \in names
      /\ Top.hold = NoHold
  BY DEF Executes
<1>2. Len(frames) \in DOMAIN frames /\ Top = frames[Len(frames)]
  BY <1>1, TopFacts
<1>3. /\ FrameIsInCode(Len(frames)) /\ Top \in Shape /\ Top.block \in Compiled(program)
      /\ NumLocals[Top.block] \in Nat \ {0} /\ Top.argc \in Nat /\ Top.base \in Nat
      /\ Top.pc \in Nat
  BY <1>2, FrameFacts
<1>4. Instruction = Code[program][Top.block][Top.pc] /\ Instruction.op # "enter"
  BY <1>1 DEF Instruction
<1>5. Entered(Top) /\ Proper(Top)
  BY <1>2, <1>3, <1>4 DEF FrameIsInCode, Proper
<1>6. Top.cfr = [store |-> store, index |-> NumLocals[Top.block] + 1]
  BY <1>1, <1>2, <1>5 DEF StackInv, RegistersAreCurrent
<1> QED
  BY <1>1, <1>3, <1>5, <1>6 DEF Extent

\* And when its interpreter waits in preserveStack.
LEMMA Waits ==
    ASSUME StackInv, Returned
    PROVE  /\ frames # <<>> /\ outcome \in {"check", "run"}
           /\ Instruction.op \in Waiting
           /\ Top \in Shape /\ Entered(Top)
           /\ Top.hold = <<Len(stack), NumLocals[Top.block] + 1>> /\ Top.hold # NoHold
           /\ NumLocals[Top.block] \in Nat \ {0} /\ Top.pc \in Nat
           /\ Top.block \in Compiled(program)
           /\ Proper(Top)
<1>1. frames # <<>> /\ outcome \in {"check", "run"} /\ Top.hold # NoHold
  BY DEF Returned
<1>2. /\ Len(frames) \in DOMAIN frames /\ Top = frames[Len(frames)]
      /\ Len(stack) = Top.base + Extent(Top)
  BY <1>1, TopFacts
<1>3. /\ FrameIsInCode(Len(frames)) /\ Top \in Shape /\ Top.block \in Compiled(program)
      /\ NumLocals[Top.block] \in Nat \ {0} /\ Top.pc \in Nat
  BY <1>2, FrameFacts
<1>4. Instruction.op \in Waiting
  BY <1>1, <1>2, <1>3 DEF Instruction, FrameIsInCode
<1>5. Entered(Top) /\ Proper(Top)
  BY <1>2, <1>3, <1>4 DEF FrameIsInCode, Proper, Instruction, Waiting
<1>6. Top.hold = <<Len(stack), NumLocals[Top.block] + 1>>
  BY <1>1, <1>2 DEF StackInv, RegistersAreCurrent
<1> QED
  BY <1>1, <1>3, <1>4, <1>5, <1>6

\* Stepping over an instruction leaves the frame ready for the next.
LEMMA SteppingOver ==
    ASSUME StackInv, NEW names, Executes(names),
           names \cap {"enter", "end", "runtimeError", "jump"} = {}
    PROVE  Step(Top) \in Shape /\ SameFrame(Step(Top), Top) /\ Ready(Step(Top))
           /\ Step(Top).environment = Top.environment /\ Step(Top).result = Top.result
           /\ Step(Top).pc = Top.pc + 1
<1>1. /\ frames # <<>> /\ Instruction.op \in names /\ Top \in Shape /\ Top.pc \in Nat
      /\ Top.hold = NoHold
      /\ Top.cfr = [store |-> store, index |-> NumLocals[Top.block] + 1]
  BY Executing
<1>2. PICK pc \in Nat : pc = Top.pc + 1
  BY <1>1
<1>3. /\ pc \in DOMAIN Code[program][Top.block]
      /\ Code[program][Top.block][pc].op # "enter"
      /\ Top.mode = "check" <=> pc < CodeStart[program][Top.block]
  BY <1>1, <1>2, NextInstruction
<1>4. Step(Top) = [Top EXCEPT !.pc = pc]
  BY <1>2 DEF Step
<1>5. /\ Step(Top) \in Shape /\ SameFrame(Step(Top), Top) /\ Step(Top).pc = pc
      /\ Step(Top).cfr = Top.cfr /\ Step(Top).hold = NoHold
      /\ Step(Top).environment = Top.environment /\ Step(Top).result = Top.result
  BY <1>1, <1>4, Stepped
<1>6. Ready(Step(Top))
  <2>1. Entered(Step(Top))
    BY <1>5, Executing DEF Entered
  <2> QED
    BY <1>1, <1>3, <1>5, <2>1 DEF Ready, Proper, SameFrame
<1> QED
  BY <1>2, <1>5, <1>6

\* Returning from preserveStack does too.
LEMMA Releasing ==
    ASSUME StackInv, Returned
    PROVE  Released(Top) \in Shape /\ SameFrame(Released(Top), Top) /\ Ready(Released(Top))
           /\ Released(Top).environment = Top.environment
           /\ Released(Top).pc = Top.pc + 1
           /\ Released(Top).cfr.index = NumLocals[Top.block] + 1
<1>1. /\ frames # <<>> /\ Instruction.op \in Waiting /\ Top \in Shape /\ Top.pc \in Nat
      /\ NumLocals[Top.block] \in Nat \ {0}
      /\ Top.hold = <<Len(stack), NumLocals[Top.block] + 1>>
  BY Waits
<1>2. PICK size \in Nat, index \in Nat :
        size = Len(stack) /\ index = NumLocals[Top.block] + 1
  BY <1>1, TopFacts
<1>3. /\ Released(Top) \in Shape /\ SameFrame(Released(Top), Top)
      /\ Released(Top).pc = Top.pc + 1
      /\ Released(Top).cfr = [store |-> store, index |-> index]
      /\ Released(Top).hold = NoHold
      /\ Released(Top).environment = Top.environment
  BY <1>1, <1>2, IsReleased DEF StackInv, Shaped
<1>4. /\ Top.pc + 1 \in DOMAIN Code[program][Top.block]
      /\ Code[program][Top.block][Top.pc + 1].op # "enter"
      /\ Top.mode = "check" <=> Top.pc + 1 < CodeStart[program][Top.block]
  BY <1>1, NextInstruction DEF Waiting
<1>5. Released(Top).cfr.index = index /\ Entered(Released(Top))
  BY <1>1, <1>2, <1>3 DEF Entered
<1>6. Ready(Released(Top))
  BY <1>2, <1>3, <1>4, <1>5 DEF Ready, Proper, SameFrame
<1> QED
  BY <1>2, <1>3, <1>5, <1>6

\* Writing a local of the innermost frame.
WritesLocal(n) ==
    \E k \in 1 .. n, v \in Val : stack' = [stack EXCEPT ![n + 1 - k] = v]

LEMMA WritingLocal ==
    ASSUME StackInv, frames # <<>>, Entered(Top), NEW f,
           f.cfr.index = NumLocals[Top.block] + 1,
           NEW dst \in 1 .. NumLocals[Top.block], NEW v \in Val,
           stack' = Written(f, stack, dst, v)
    PROVE  /\ stack' \in Seq(Val) /\ Len(stack') = Len(stack)
           /\ WritesLocal(NumLocals[Top.block])
<1>1. /\ NumLocals[Top.block] \in Nat \ {0} /\ Top.base \in Nat /\ Top.argc \in Nat
      /\ Len(stack) = Top.base + Extent(Top)
  BY TopFacts, FrameFacts
<1>2. PICK i : i = f.cfr.index - dst
  OBVIOUS
<1>3. i = NumLocals[Top.block] + 1 - dst /\ i \in 1 .. Len(stack)
  <2>1. PICK n \in Nat \ {0}, base \in Nat, argc \in Nat :
          n = NumLocals[Top.block] /\ base = Top.base /\ argc = Top.argc
    BY <1>1
  <2>2. Extent(Top) = argc + 1 + n
    BY <2>1 DEF Extent
  <2>3. Len(stack) = base + (argc + 1 + n) /\ i = n + 1 - dst /\ dst \in 1 .. n
    BY <1>1, <1>2, <2>1, <2>2
  <2>4. n + 1 - dst \in 1 .. base + (argc + 1 + n)
    BY <2>3
  <2>5. i \in 1 .. Len(stack)
    BY <2>3, <2>4
  <2> QED
    BY <2>1, <2>3, <2>5
<1>4. stack \in Seq(Val)
  BY DEF StackInv, Shaped
<1>5. stack' = [stack EXCEPT ![i] = v]
  BY <1>2 DEF Written
<1>6. stack' \in Seq(Val) /\ Len(stack') = Len(stack)
  BY <1>3, <1>4, <1>5, Replacing
<1> QED
  BY <1>3, <1>5, <1>6 DEF WritesLocal

Quiet == InPlace /\ (stack' = stack \/ WritesLocal(NumLocals[Top.block]))

\* What a step leaves that only its own frame, types and the outcome may change after.
LEMMA SameFunctions ==
    ASSUME StackInv, functions' = functions
    PROVE  /\ functions' \in [Block -> Int \union {NoEnvironment}]
           /\ \A b \in Block : functions'[b] # NoEnvironment => b \in Compiled(program)
  BY DEF StackInv, Shaped, Control

LEMMA SameStack ==
    ASSUME StackInv, stack' = stack
    PROVE  stack' \in Seq(Val) /\ Len(stack') = Len(stack)
  BY DEF StackInv, Shaped

\* Instructions of one's own: the frame steps on, and a register may be written.
LEMMA OwnInstruction ==
    ASSUME StackInv, NEW names, Executes(names),
           names \cap {"enter", "end", "runtimeError", "jump"} = {},
           TopBecomes(Step(Top)),
           stack' = stack \/ \E v \in Val : stack' = Written(Top, stack, Instruction.dst, v),
           stack' # stack => Instruction.op \in Writing,
           UNCHANGED <<program, store, capacity, current, currentBlock, functions>>,
           outcome' \in {outcome, "late"}
    PROVE  Quiet
<1>1. Step(Top) \in Shape /\ SameFrame(Step(Top), Top) /\ Ready(Step(Top))
  BY SteppingOver
<1>2. /\ frames # <<>> /\ outcome \in {"check", "run"} /\ Entered(Top)
      /\ Top.cfr.index = NumLocals[Top.block] + 1
      /\ Top.block \in Compiled(program) /\ Proper(Top)
  BY Executing
<1>3. stack' # stack => Instruction.dst \in 1 .. NumLocals[Top.block]
  BY <1>2, CompiledCode DEF UsesItsLocals, Instruction, Proper
<1>4. /\ stack' \in Seq(Val) /\ Len(stack') = Len(stack)
      /\ stack' = stack \/ WritesLocal(NumLocals[Top.block])
  <2>1. CASE stack' = stack
    BY <2>1, SameStack
  <2>2. CASE stack' # stack
    <3>1. PICK v \in Val : stack' = Written(Top, stack, Instruction.dst, v)
      BY <2>2
    <3> QED
      BY <1>2, <1>3, <2>2, <3>1, WritingLocal
  <2> QED
    BY <2>1, <2>2
<1>5. outcome' \notin {"start", "checked"}
  BY <1>2
<1> QED
  BY <1>1, <1>2, <1>4, <1>5, SameFunctions, TopStep DEF Quiet

LEMMA ComputeQuiet ==
    ASSUME StackInv, ComputeStep \/ GetLocal \/ FallThrough \/ TypeErrorStep
    PROVE  Quiet
<1>1. CASE ComputeStep
  BY <1>1, OwnInstruction DEF ComputeStep, OwnFrame
<1>2. CASE GetLocal
  BY <1>2, OwnInstruction DEF GetLocal, OwnFrame
<1>3. CASE FallThrough
  BY <1>3, OwnInstruction DEF FallThrough, OwnFrame
<1>4. CASE TypeErrorStep
  BY <1>4, OwnInstruction DEF TypeErrorStep, OwnFrame
<1> QED
  BY <1>1, <1>2, <1>3, <1>4

LEMMA WritingQuiet ==
    ASSUME StackInv, Load \/ CallNative
    PROVE  Quiet
<1>1. CASE Load
  <2>1. \E v \in Val : stack' = Written(Top, stack, Instruction.dst, v)
    BY <1>1 DEF Load
  <2>2. Executes({"load"}) /\ Instruction.op \in Writing
    BY <1>1 DEF Load, Executes, Writing
  <2> QED
    BY <1>1, <2>1, <2>2, OwnInstruction DEF Load, OwnFrame
<1>2. CASE CallNative
  <2>1. \E v \in Val : stack' = Written(Top, stack, Instruction.dst, v)
    BY <1>2, InterpreterAssumption DEF CallNative
  <2>2. Executes({"call"}) /\ Instruction.op \in Writing
    BY <1>2 DEF CallNative, Executes, Writing
  <2> QED
    BY <1>2, <2>1, <2>2, OwnInstruction DEF CallNative, OwnFrame
<1> QED
  BY <1>1, <1>2

LEMMA JumpQuiet ==
    ASSUME StackInv, JumpStep
    PROVE  Quiet
<1>1. Executes({"jump", "branch"})
  BY DEF JumpStep
<1>2. /\ frames # <<>> /\ Instruction.op \in {"jump", "branch"} /\ Top \in Shape
      /\ Top.hold = NoHold /\ Entered(Top) /\ outcome \in {"check", "run"}
      /\ Top.cfr = [store |-> store, index |-> NumLocals[Top.block] + 1]
      /\ Top.block \in Compiled(program)
  BY <1>1, Executing
<1>3. PICK pc : pc = Top.pc + Instruction.by
  OBVIOUS
<1>4. /\ pc \in DOMAIN Code[program][Top.block]
      /\ Code[program][Top.block][pc].op # "enter"
      /\ Top.mode = "check" <=> pc < CodeStart[program][Top.block]
  BY <1>2, <1>3, NextInstruction
<1>5. pc \in Nat
  BY <1>2, <1>4, CompiledCode DEF StaysInside
<1>6. PICK g : g = [Top EXCEPT !.pc = pc]
  OBVIOUS
<1>7. /\ g \in Shape /\ SameFrame(g, Top) /\ g.pc = pc /\ g.cfr = Top.cfr
      /\ g.hold = NoHold
  BY <1>2, <1>5, <1>6, Stepped
<1>8. Ready(g)
  BY <1>2, <1>4, <1>7 DEF Ready, Proper, SameFrame, Entered
<1>9. TopBecomes(g)
  BY <1>3, <1>6 DEF JumpStep
<1>10. stack' = stack /\ functions' = functions /\ outcome' \notin {"start", "checked"}
       /\ UNCHANGED <<program, store, capacity, current, currentBlock>>
  BY <1>2 DEF JumpStep, vmVars
<1> QED
  BY <1>2, <1>7, <1>8, <1>9, <1>10, SameFunctions, SameStack, TopStep DEF Quiet

\* Steps that leave the frames alone.
LEMMA FramesUnchanged ==
    ASSUME StackInv, frames # <<>>, Entered(Top), Ready(Top),
           UNCHANGED <<program, vmVars, nestingVars, functions>>,
           outcome' \notin {"start", "checked"}
    PROVE  Quiet
<1>1. UNCHANGED <<program, stack, store, capacity, frames, current, currentBlock, functions>>
  BY DEF vmVars, nestingVars
<1>2. Len(frames) \in DOMAIN frames /\ Top = frames[Len(frames)] /\ frames \in Seq(Shape)
  BY TopFacts DEF StackInv, Shaped
<1>3. \A i \in 1 .. Len(frames) : SameFrame(frames[i], frames[i])
  BY DEF SameFrame
<1> QED
  BY <1>1, <1>2, <1>3, SameFunctions, SameStack DEF Quiet, InPlace

LEMMA RuntimeErrorQuiet ==
    ASSUME StackInv, RuntimeError
    PROVE  Quiet
<1>1. Executes({"runtimeError"})
  BY DEF RuntimeError
<1>2. /\ frames # <<>> /\ Entered(Top) /\ Proper(Top) /\ Top.hold = NoHold
      /\ Top.cfr = [store |-> store, index |-> NumLocals[Top.block] + 1]
  BY <1>1, Executing
<1>3. Ready(Top)
  BY <1>2 DEF Ready
<1> QED
  BY <1>2, <1>3, FramesUnchanged DEF RuntimeError

LEMMA SolveQuiet ==
    ASSUME StackInv, SolveConstraint
    PROVE  Quiet
<1>1. Returned
  BY DEF SolveConstraint, Solves
<1>2. /\ frames # <<>> /\ Entered(Top) /\ Proper(Top) /\ outcome \in {"check", "run"}
      /\ Top.hold = <<Len(stack), NumLocals[Top.block] + 1>> /\ Top.hold # NoHold
      /\ Instruction.op \in Waiting
  BY <1>1, Waits
<1>3. Ready(Top)
  BY <1>2 DEF Ready, Instruction
<1> QED
  BY <1>2, <1>3, FramesUnchanged DEF SolveConstraint

\* Typing instructions of one frame.
LEMMA TypingQuiet ==
    ASSUME StackInv, PushUnification \/ RecordConstraint
    PROVE  Quiet
<1>1. CASE PushUnification
  BY <1>1, OwnInstruction DEF PushUnification, vmVars
<1>2. CASE RecordConstraint
  <2>1. outcome' \in {outcome, "late"}
    BY <1>2 DEF RecordConstraint
  <2> QED
    BY <1>2, <2>1, OwnInstruction DEF RecordConstraint, vmVars
<1> QED
  BY <1>1, <1>2

LEMMA PushScopeQuiet ==
    ASSUME StackInv, PushScope
    PROVE  Quiet
<1>1. Executes({"pushScope"})
  BY DEF PushScope
<1>2. Step(Top) \in Shape /\ SameFrame(Step(Top), Top) /\ Ready(Step(Top))
  BY <1>1, SteppingOver
<1>3. frames # <<>> /\ Entered(Top) /\ outcome \in {"check", "run"}
  BY <1>1, Executing
<1>4. PICK e \in Int : e = Step(Top).environment + 1
  BY <1>2 DEF Shape
<1>5. PICK g : g = [Step(Top) EXCEPT !.environment = e]
  OBVIOUS
<1>6. /\ g \in Shape /\ SameFrame(g, Top) /\ g.pc = Step(Top).pc /\ g.cfr = Step(Top).cfr
      /\ g.hold = Step(Top).hold
  BY <1>2, <1>5 DEF Shape, SameFrame
<1>7. Ready(g)
  BY <1>2, <1>6 DEF Ready, Proper, Entered, SameFrame
<1>8. TopBecomes(g)
  BY <1>4, <1>5 DEF PushScope
<1>9. stack' = stack /\ functions' = functions /\ outcome' \notin {"start", "checked"}
      /\ UNCHANGED <<program, store, capacity, current, currentBlock>>
  BY <1>3 DEF PushScope, vmVars
<1> QED
  BY <1>3, <1>6, <1>7, <1>8, <1>9, SameFunctions, SameStack, TopStep DEF Quiet

\* ~Scope changes an environment, perhaps that of another frame.
LEMMA PopScopeQuiet ==
    ASSUME StackInv, PopScope
    PROVE  Quiet
<1> DEFINE n == Len(frames)
           Base(i) == IF i = n THEN Step(Top) ELSE frames[i]
<1>1. Executes({"popScope"})
  BY DEF PopScope
<1>2. Step(Top) \in Shape /\ SameFrame(Step(Top), Top) /\ Ready(Step(Top))
  BY <1>1, SteppingOver
<1>3. /\ frames # <<>> /\ Entered(Top) /\ outcome \in {"check", "run"}
  BY <1>1, Executing
<1>4. /\ n \in 1 .. n /\ n \in Nat /\ Top = frames[n] /\ DOMAIN frames = 1 .. n
      /\ \A i \in 1 .. n : frames[i] \in Shape
  BY <1>3, TopFacts, FrameFacts
<1>5. ASSUME NEW i \in 1 .. n
      PROVE  /\ Base(i) \in Shape /\ SameFrame(Base(i), frames[i])
             /\ i # n => Base(i) = frames[i]
  BY <1>2, <1>4 DEF SameFrame
<1>6. ASSUME NEW i \in 1 .. n
      PROVE  frames'[i] = Base(i) \/
                 frames'[i] = [Base(i) EXCEPT !.environment = Base(i).environment - 1]
  BY <1>4 DEF PopScope
<1> HIDE DEF n, Base
<1>7. ASSUME NEW i \in 1 .. n
      PROVE  /\ frames'[i] \in Shape /\ SameFrame(frames'[i], Base(i))
             /\ frames'[i].pc = Base(i).pc /\ frames'[i].cfr = Base(i).cfr
             /\ frames'[i].hold = Base(i).hold
  <2>1. PICK b \in Shape : b = Base(i)
    BY <1>5
  <2>2. PICK e \in Int : e = b.environment - 1
    BY DEF Shape
  <2>3. CASE frames'[i] = b
    BY <2>1, <2>3 DEF SameFrame
  <2>4. CASE frames'[i] = [b EXCEPT !.environment = e]
    BY <2>1, <2>4 DEF SameFrame, Shape
  <2> QED
    BY <1>6, <2>1, <2>2, <2>3, <2>4
<1>8. frames' \in [1 .. n -> Shape]
  <2>1. DOMAIN frames' = 1 .. n
    BY <1>4 DEF PopScope
  <2>2. frames' = [i \in 1 .. n |-> frames'[i]]
    BY <1>4 DEF PopScope
  <2> QED
    BY <1>7, <2>2
<1>9. frames' \in Seq(Shape) /\ Len(frames') = n
  BY <1>4, <1>8, FunctionIsSequence
<1>10. \A i \in 1 .. n : SameFrame(frames'[i], frames[i])
  BY <1>5, <1>7 DEF SameFrame
<1>11. \A i \in 1 .. n - 1 :
         /\ frames'[i].pc = frames[i].pc /\ frames'[i].cfr = frames[i].cfr
         /\ frames'[i].hold = frames[i].hold
  <2>1. \A i \in 1 .. n - 1 : i \in 1 .. n /\ i # n
    BY <1>4
  <2> QED
    BY <1>5, <1>7, <2>1
<1>12. Ready(frames'[n])
  <2>1. Base(n) = Step(Top)
    BY DEF Base
  <2>2. /\ SameFrame(frames'[n], Step(Top)) /\ frames'[n].pc = Step(Top).pc
        /\ frames'[n].cfr = Step(Top).cfr /\ frames'[n].hold = Step(Top).hold
    BY <1>4, <1>7, <2>1
  <2> QED
    BY <1>2, <2>2 DEF Ready, Proper, Entered, SameFrame
<1>13. stack' = stack /\ functions' = functions /\ outcome' \notin {"start", "checked"}
       /\ UNCHANGED <<program, store, capacity, current, currentBlock>>
  BY <1>3 DEF PopScope, vmVars
<1>14. InPlace
  BY <1>3, <1>9, <1>10, <1>11, <1>12, <1>13, SameFunctions, SameStack DEF InPlace, n
<1> QED
  BY <1>13, <1>14 DEF Quiet

LEMMA FinalizeQuiet ==
    ASSUME StackInv, Finalize
    PROVE  Quiet
<1>1. Executes({"resolve", "infer", "popUnification"})
  BY DEF Finalize
<1>2. /\ frames # <<>> /\ outcome \in {"check", "run"} /\ Top \in Shape /\ Entered(Top)
      /\ Top.cfr.index = NumLocals[Top.block] + 1 /\ Proper(Top)
      /\ Instruction.op \in {"resolve", "infer", "popUnification"}
  BY <1>1, Executing
<1>3. /\ Hold(Top) \in Shape /\ SameFrame(Hold(Top), Top) /\ Hold(Top).pc = Top.pc
      /\ Hold(Top).cfr = Top.cfr /\ Hold(Top).hold = <<Len(stack), Top.cfr.index>>
      /\ Hold(Top).hold # NoHold
  BY <1>2, Held, TopFacts
<1>4. Ready(Hold(Top))
  BY <1>2, <1>3 DEF Ready, Proper, Entered, SameFrame, Instruction, Waiting
<1>5. stack' = stack /\ functions' = functions /\ outcome' \notin {"start", "checked"}
      /\ UNCHANGED <<program, store, capacity, current, currentBlock>> /\ TopBecomes(Hold(Top))
  BY <1>2 DEF Finalize, vmVars
<1> QED
  BY <1>2, <1>3, <1>4, <1>5, SameFunctions, SameStack, TopStep DEF Quiet

\* What preserveStack returns to: the frame steps on, and its register is written.
LEMMA ReturningWrites ==
    ASSUME StackInv, Returned, Instruction.op \in Writing, TopBecomes(Released(Top)),
           NEW v \in Val, stack' = Written(Released(Top), stack, Instruction.dst, v),
           UNCHANGED <<program, store, capacity, current, currentBlock, outcome>>,
           functions' \in [Block -> Int \union {NoEnvironment}],
           \A b \in Block : functions'[b] # NoEnvironment => b \in Compiled(program)
    PROVE  Quiet
<1>1. /\ Released(Top) \in Shape /\ SameFrame(Released(Top), Top) /\ Ready(Released(Top))
      /\ Released(Top).cfr.index = NumLocals[Top.block] + 1
  BY Releasing
<1>2. /\ frames # <<>> /\ outcome \in {"check", "run"} /\ Entered(Top) /\ Top \in Shape
      /\ Top.block \in Compiled(program) /\ Proper(Top)
  BY Waits
<1>3. Instruction.dst \in 1 .. NumLocals[Top.block]
  BY <1>2, CompiledCode DEF UsesItsLocals, Instruction, Proper
<1>4. /\ stack' \in Seq(Val) /\ Len(stack') = Len(stack)
      /\ WritesLocal(NumLocals[Top.block])
  BY <1>1, <1>2, <1>3, WritingLocal
<1>5. outcome' \notin {"start", "checked"}
  BY <1>2
<1> QED
  BY <1>1, <1>2, <1>4, <1>5, TopStep DEF Quiet

LEMMA FinishQuiet ==
    ASSUME StackInv, FinishPop
    PROVE  Quiet
<1>1. Returned
  BY DEF FinishPop, Solves
<1>2. /\ Released(Top) \in Shape /\ SameFrame(Released(Top), Top) /\ Ready(Released(Top))
  BY <1>1, Releasing
<1>3. frames # <<>> /\ outcome \in {"check", "run"} /\ Entered(Top)
  BY <1>1, Waits
<1>4. stack' = stack /\ functions' = functions /\ outcome' \notin {"start", "checked"}
      /\ UNCHANGED <<program, store, capacity, current, currentBlock>>
      /\ TopBecomes(Released(Top))
  BY <1>3 DEF FinishPop, vmVars
<1> QED
  BY <1>2, <1>3, <1>4, SameFunctions, SameStack, TopStep DEF Quiet

LEMMA FinishResolveQuiet ==
    ASSUME StackInv, FinishResolve
    PROVE  Quiet
<1>1. Returned /\ Instruction.op \in Writing /\ TopBecomes(Released(Top))
  BY DEF FinishResolve, Solves, Writing
<1>2. PICK v \in Val : stack' = Written(Released(Top), stack, Instruction.dst, v)
  BY DEF FinishResolve
<1>3. UNCHANGED <<program, store, capacity, current, currentBlock, functions, outcome>>
  BY DEF FinishResolve
<1> QED
  BY <1>1, <1>2, <1>3, SameFunctions, ReturningWrites

LEMMA FinishCallQuiet ==
    ASSUME StackInv, FinishCall
    PROVE  Quiet
<1>1. Returned /\ Instruction.op \in Writing /\ TopBecomes(Released(Top))
  BY DEF FinishCall, Writing
<1>2. Top.result \in Val
  BY <1>1, Waits DEF Shape
<1>3. stack' = Written(Released(Top), stack, Instruction.dst, Top.result)
  BY DEF FinishCall
<1>4. UNCHANGED <<program, store, capacity, current, currentBlock, functions, outcome>>
  BY DEF FinishCall, OwnFrame
<1> QED
  BY <1>1, <1>2, <1>3, <1>4, SameFunctions, ReturningWrites

\* A definition gives a compiled block an environment.
LEMMA Defining ==
    ASSUME StackInv, NEW f \in Compiled(program), frames # <<>>,
           functions' = [functions EXCEPT ![f] = Top.environment]
    PROVE  /\ functions' \in [Block -> Int \union {NoEnvironment}]
           /\ \A b \in Block : functions'[b] # NoEnvironment => b \in Compiled(program)
<1>1. Top.environment \in Int /\ f \in Block
  BY TopFacts, FrameFacts DEF Compiled
<1>2. functions \in [Block -> Int \union {NoEnvironment}]
      /\ \A b \in Block : functions[b] # NoEnvironment => b \in Compiled(program)
  BY DEF StackInv, Shaped, Control
<1> QED
  BY <1>1, <1>2

LEMMA DefiningQuiet ==
    ASSUME StackInv, RunNewFunction \/ FinishNewFunction
    PROVE  Quiet
<1>1. CASE RunNewFunction
  <2>1. Executes({"newFunction"})
    BY <1>1 DEF RunNewFunction
  <2>2. /\ frames # <<>> /\ outcome \in {"check", "run"} /\ Entered(Top)
        /\ Top.block \in Compiled(program) /\ Proper(Top) /\ Instruction.op = "newFunction"
    BY <2>1, Executing
  <2>3. Step(Top) \in Shape /\ SameFrame(Step(Top), Top) /\ Ready(Step(Top))
    BY <2>1, SteppingOver
  <2>4. Instruction.function \in Compiled(program)
    BY <2>2, CompiledCode DEF DefinesCompiled, Instruction, Proper
  <2>5. /\ functions' \in [Block -> Int \union {NoEnvironment}]
        /\ \A b \in Block : functions'[b] # NoEnvironment => b \in Compiled(program)
    <3>1. CASE functions' = functions
      BY <3>1, SameFunctions
    <3>2. CASE functions' = [functions EXCEPT ![Instruction.function] = Top.environment]
      BY <2>2, <2>4, <3>2, Defining
    <3>3. CASE \E f \in Checked(Top.block) :
                   functions' = [functions EXCEPT ![f] = Top.environment]
      <4>1. PICK f \in Checked(Top.block) :
                functions' = [functions EXCEPT ![f] = Top.environment]
        BY <3>3
      <4>2. PICK i \in 1 .. (CodeStart[program][Top.block] - 1) :
                /\ Code[program][Top.block][i].op = "newFunction"
                /\ f = Code[program][Top.block][i].function
        BY DEF Checked
      <4>3. i \in DOMAIN Code[program][Top.block]
        <5>1. CodeStart[program][Top.block] \in Nat \ {0}
          BY <2>2, InterpreterAssumption DEF Compiled, StackInv, Shaped
        <5>2. 1 .. CodeStart[program][Top.block] \subseteq DOMAIN Code[program][Top.block]
          BY <2>2, CompiledCode DEF StaysInside
        <5> QED
          BY <5>1, <5>2
      <4>4. f \in Compiled(program)
        BY <2>2, <4>2, <4>3, CompiledCode DEF DefinesCompiled
      <4> QED
        BY <2>2, <4>1, <4>4, Defining
    <3> QED
      BY <1>1, <3>1, <3>2, <3>3 DEF RunNewFunction
  <2>6. outcome' \notin {"start", "checked"} /\ TopBecomes(Step(Top))
        /\ UNCHANGED <<program, store, capacity, current, currentBlock>>
    BY <1>1, <2>2 DEF RunNewFunction
  <2>7. Instruction.dst \in 1 .. NumLocals[Top.block]
    BY <2>2, CompiledCode DEF UsesItsLocals, Instruction, Proper, Writing
  <2>8. PICK v \in Val : stack' = Written(Top, stack, Instruction.dst, v)
    BY <1>1 DEF RunNewFunction
  <2>9. Top.cfr.index = NumLocals[Top.block] + 1
    BY <2>1, Executing
  <2>10. /\ stack' \in Seq(Val) /\ Len(stack') = Len(stack)
         /\ WritesLocal(NumLocals[Top.block])
    BY <2>2, <2>7, <2>8, <2>9, WritingLocal
  <2> QED
    BY <2>2, <2>3, <2>5, <2>6, <2>10, TopStep DEF Quiet
<1>2. CASE FinishNewFunction
  <2>1. Returned /\ Instruction.op = "newFunction"
    BY <1>2 DEF FinishNewFunction
  <2>2. /\ frames # <<>> /\ outcome \in {"check", "run"} /\ Entered(Top)
        /\ Top.block \in Compiled(program) /\ Proper(Top)
    BY <2>1, Waits
  <2>3. Instruction.function \in Compiled(program)
    BY <2>1, <2>2, CompiledCode DEF DefinesCompiled, Instruction, Proper
  <2>4. /\ functions' \in [Block -> Int \union {NoEnvironment}]
        /\ \A b \in Block : functions'[b] # NoEnvironment => b \in Compiled(program)
    BY <1>2, <2>2, <2>3, Defining DEF FinishNewFunction
  <2>5. TopBecomes(Released(Top)) /\ Instruction.op \in Writing
        /\ UNCHANGED <<program, store, capacity, current, currentBlock, outcome>>
    BY <1>2, <2>1 DEF FinishNewFunction, Writing
  <2>6. PICK v \in Val : stack' = Written(Released(Top), stack, Instruction.dst, v)
    BY <1>2 DEF FinishNewFunction
  <2> QED
    BY <2>1, <2>4, <2>5, <2>6, ReturningWrites
<1> QED
  BY <1>1, <1>2

-----------------------------------------------------------------------------
(* Steps that grow and shrink the stack                                    *)

LEMMA Inserting ==
    ASSUME StackInv, NEW values \in Seq(Val), InsertAtFront(values)
    PROVE  /\ stack' \in Seq(Val) /\ Len(stack') = Len(values) + Len(stack)
           /\ Len(values) \in Nat /\ Len(stack) \in Nat
           /\ \A i \in 1 .. Len(values) : stack'[i] = values[i]
           /\ \A i \in 1 .. Len(stack) : stack'[Len(values) + i] = stack[i]
           /\ store' \in Nat /\ capacity' \in Nat /\ Len(stack') <= capacity'
<1>1. stack \in Seq(Val) /\ store \in Nat /\ capacity \in Nat /\ Len(stack) <= capacity
  BY DEF StackInv, Shaped, Tiles
<1>2. Len(values) \in Nat /\ Len(stack) \in Nat
  BY <1>1
<1>3. /\ stack' \in Seq(Val) /\ Len(stack') = Len(values) + Len(stack)
      /\ \A i \in 1 .. Len(values) : stack'[i] = values[i]
      /\ \A i \in 1 .. Len(stack) : stack'[Len(values) + i] = stack[i]
  BY <1>1, Joining DEF InsertAtFront
<1>4. PICK l \in Nat, m \in Nat, c \in Nat, s \in Nat :
        l = Len(stack) /\ m = Len(values) /\ c = capacity /\ s = store
  BY <1>1, <1>2
<1>5. /\ capacity' = IF l + m > c THEN Max2(l + m, 2 * c) ELSE c
      /\ store' = IF l + m > c THEN s + 1 ELSE s
  BY <1>4 DEF InsertAtFront
<1>6. store' \in Nat /\ capacity' \in Nat /\ m + l <= capacity'
  BY <1>5 DEF Max2
<1> QED
  BY <1>2, <1>3, <1>4, <1>6

\* The innermost frame at its Enter.
LEMMA AtEnter ==
    ASSUME StackInv, Executes({"enter"})
    PROVE  /\ frames # <<>> /\ outcome \in {"check", "run"}
           /\ Top \in Shape /\ Top.hold = NoHold /\ ~Entered(Top) /\ Top.cfr.index = 0
           /\ NumLocals[Top.block] \in Nat \ {0}
           /\ Extent(Top) = Top.argc + 1
           /\ Top.argc \in Nat /\ Top.base \in Nat
           /\ Top.pc + 1 \in Nat /\ Top.pc + 1 \in DOMAIN Code[program][Top.block]
           /\ Code[program][Top.block][Top.pc + 1].op # "enter"
           /\ Top.mode = "check" <=> Top.pc + 1 < CodeStart[program][Top.block]
<1>1. /\ frames # <<>> /\ outcome \in {"check", "run"} /\ Instruction.op = "enter"
      /\ Top.hold = NoHold
  BY DEF Executes
<1>2. Len(frames) \in DOMAIN frames /\ Top = frames[Len(frames)]
  BY <1>1, TopFacts
<1>3. /\ FrameIsInCode(Len(frames)) /\ Top \in Shape /\ Top.block \in Compiled(program)
      /\ NumLocals[Top.block] \in Nat \ {0} /\ Top.argc \in Nat /\ Top.base \in Nat
      /\ Top.pc \in Nat /\ Top.cfr.index \in Nat
  BY <1>2, FrameFacts
<1>4. Instruction = Code[program][Top.block][Top.pc]
  BY DEF Instruction
<1>5. ~Entered(Top)
  BY <1>1, <1>2, <1>3, <1>4 DEF FrameIsInCode
<1>6. Top.cfr.index = 0
  BY <1>3, <1>5 DEF Entered
<1>7. Extent(Top) = Top.argc + 1
  BY <1>3, <1>5 DEF Extent
<1> QED
  BY <1>1, <1>3, <1>5, <1>6, <1>7, NextInstruction

LEMMA EnterFrame ==
    ASSUME StackInv, Enter
    PROVE  LET n == Len(frames) IN
           /\ frames' \in Seq(Shape) /\ Len(frames') = n
           /\ \A i \in 1 .. n : i # n => frames'[i] = frames[i]
           /\ SameFrame(frames'[n], Top) /\ frames'[n].pc = Top.pc + 1
           /\ frames'[n].hold = NoHold
           /\ frames'[n].cfr = [store |-> store', index |-> NumLocals[Top.block] + 1]
           /\ Entered(frames'[n])
           /\ Extent(frames'[n]) = Extent(Top) + NumLocals[Top.block]
           /\ stack' \in Seq(Val) /\ Len(stack') = NumLocals[Top.block] + Len(stack)
           /\ \A i \in 1 .. NumLocals[Top.block] : stack'[i] = Crash
           /\ \A i \in 1 .. Len(stack) : stack'[NumLocals[Top.block] + i] = stack[i]
           /\ store' \in Nat /\ capacity' \in Nat /\ Len(stack') <= capacity'
<1> DEFINE n == Len(frames)
           values == [i \in 1 .. NumLocals[Top.block] |-> Crash]
<1>1. /\ frames # <<>> /\ Top \in Shape /\ Top.hold = NoHold
      /\ NumLocals[Top.block] \in Nat \ {0} /\ Extent(Top) = Top.argc + 1
      /\ Top.argc \in Nat /\ Top.pc + 1 \in Nat
  BY AtEnter DEF Enter
<1>2. n \in 1 .. n /\ n \in Nat /\ frames \in Seq(Shape) /\ Top = frames[n]
  BY <1>1, TopFacts DEF StackInv, Shaped
<1>3. values \in Seq(Val) /\ Len(values) = NumLocals[Top.block]
      /\ \A i \in 1 .. NumLocals[Top.block] : values[i] = Crash
  <2>1. values \in [1 .. NumLocals[Top.block] -> Val]
    BY InterpreterAssumption
  <2> QED
    BY <1>1, <2>1, FunctionIsSequence
<1> HIDE DEF values
<1>4. InsertAtFront(values)
  BY DEF Enter, values
<1>5. /\ stack' \in Seq(Val) /\ Len(stack') = NumLocals[Top.block] + Len(stack)
      /\ \A i \in 1 .. NumLocals[Top.block] : stack'[i] = values[i]
      /\ \A i \in 1 .. Len(stack) : stack'[NumLocals[Top.block] + i] = stack[i]
      /\ store' \in Nat /\ capacity' \in Nat /\ Len(stack') <= capacity'
  BY <1>3, <1>4, Inserting
<1>6. PICK index \in Nat, pc \in Nat :
        index = NumLocals[Top.block] + 1 /\ pc = Top.pc + 1 /\ index > 0
  BY <1>1
<1>7. PICK c \in Pointer : c = [store |-> store', index |-> index]
  BY <1>5 DEF Pointer
<1>8. PICK g : g = [Step(Top) EXCEPT !.cfr = c]
  OBVIOUS
<1>9. TopBecomes(g)
  BY <1>6, <1>7, <1>8 DEF Enter
<1>10. Step(Top) = [Top EXCEPT !.pc = pc]
  BY <1>6 DEF Step
<1>11. /\ g \in Shape /\ SameFrame(g, Top) /\ g.pc = pc /\ g.cfr = c /\ g.hold = NoHold
  BY <1>1, <1>8, <1>10 DEF Shape, SameFrame
<1>12. Entered(g) /\ Extent(g) = Extent(Top) + NumLocals[Top.block]
  <2>1. Entered(g)
    BY <1>6, <1>7, <1>11 DEF Entered
  <2>2. Extent(g) = Top.argc + 1 + NumLocals[Top.block]
    BY <1>11, <2>1 DEF Extent, SameFrame
  <2> QED
    BY <1>1, <2>1, <2>2
<1>13. /\ frames' \in Seq(Shape) /\ Len(frames') = n /\ frames'[n] = g
       /\ \A i \in 1 .. n : i # n => frames'[i] = frames[i]
  BY <1>2, <1>9, <1>11, Replacing DEF TopBecomes
<1> QED
  BY <1>3, <1>5, <1>6, <1>7, <1>11, <1>12, <1>13

LEMMA EnterKeeps ==
    ASSUME StackInv, Enter
    PROVE  StackInv'
<1> DEFINE n == Len(frames)
           N == NumLocals[Top.block]
<1>1. /\ frames' \in Seq(Shape) /\ Len(frames') = n
      /\ \A i \in 1 .. n : i # n => frames'[i] = frames[i]
      /\ SameFrame(frames'[n], Top) /\ frames'[n].pc = Top.pc + 1
      /\ frames'[n].hold = NoHold
      /\ frames'[n].cfr = [store |-> store', index |-> N + 1]
      /\ Entered(frames'[n])
      /\ Extent(frames'[n]) = Extent(Top) + N
      /\ stack' \in Seq(Val) /\ Len(stack') = N + Len(stack)
      /\ store' \in Nat /\ capacity' \in Nat /\ Len(stack') <= capacity'
  BY EnterFrame
<1>2. /\ frames # <<>> /\ outcome \in {"check", "run"} /\ N \in Nat \ {0}
      /\ Top.base \in Nat /\ Extent(Top) = Top.argc + 1 /\ Top.argc \in Nat
      /\ Top.pc + 1 \in DOMAIN Code[program][Top.block]
      /\ Code[program][Top.block][Top.pc + 1].op # "enter"
      /\ Top.mode = "check" <=> Top.pc + 1 < CodeStart[program][Top.block]
  BY AtEnter DEF Enter
<1>3. /\ n \in 1 .. n /\ n \in Nat \ {0} /\ DOMAIN frames = 1 .. n /\ Top = frames[n]
      /\ Len(stack) = Top.base + Extent(Top) /\ Len(stack) \in Nat /\ current = n
  BY <1>2, TopFacts
<1>4. DOMAIN frames' = 1 .. n /\ frames' # <<>>
  BY <1>1, <1>3, SequenceFacts
<1>5. UNCHANGED <<program, current, currentBlock, functions, outcome>>
  BY DEF Enter
<1> HIDE DEF n, N
<1>6. Shaped'
  BY <1>1, <1>5 DEF StackInv, Shaped
<1>7. Control'
  <2>1. ASSUME NEW i \in 1 .. n PROVE FrameIsInCode(i)'
    <3>1. FrameIsInCode(i)
      BY <1>3, FrameFacts
    <3>2. CASE i = n
      BY <1>1, <1>2, <1>3, <1>5, <3>1, <3>2 DEF FrameIsInCode, SameFrame
    <3>3. CASE i # n
      BY <1>1, <1>5, <3>1, <3>3 DEF FrameIsInCode, Entered
    <3> QED
      BY <3>2, <3>3
  <2> QED
    BY <1>1, <1>2, <1>3, <1>4, <1>5, <2>1 DEF Control, StackInv
<1>8. Tiles'
  <2>1. \A i \in 1 .. n : frames'[i].base = frames[i].base
    BY <1>1, <1>3 DEF SameFrame
  <2>2. ASSUME NEW i \in 1 .. n
        PROVE  Above(i)' = frames'[i].base + Extent(frames'[i])
    <3>1. CASE i = n
      <4>1. Above(i)' = Len(stack')
        BY <1>1, <3>1 DEF Above
      <4>2. PICK base \in Nat, extent \in Nat, locals \in Nat :
              base = Top.base /\ extent = Extent(Top) /\ locals = N
        BY <1>2
      <4>3. Len(stack') = Top.base + (Extent(Top) + N)
        <5>1. Len(stack') = locals + (base + extent)
          BY <1>1, <1>3, <4>2
        <5>2. locals + (base + extent) = base + (extent + locals)
          OBVIOUS
        <5> QED
          BY <4>2, <5>1, <5>2
      <4> QED
        BY <1>1, <1>3, <2>1, <3>1, <4>1, <4>3
    <3>2. CASE i # n
      <4>1. i + 1 \in 1 .. n
        BY <1>3, <3>2
      <4>2. Above(i)' = frames[i + 1].base /\ Above(i) = frames[i + 1].base
        BY <1>1, <2>1, <3>2, <4>1 DEF Above, n
      <4>3. frames'[i] = frames[i] /\ Extent(frames'[i]) = Extent(frames[i])
        BY <1>1, <3>2 DEF Extent, Entered
      <4> QED
        BY <1>3, <4>2, <4>3 DEF StackInv, Tiles
    <3> QED
      BY <3>1, <3>2
  <2>3. frames'[1].base = 1
    BY <1>2, <1>3, <2>1 DEF StackInv, Tiles
  <2> QED
    BY <1>1, <1>4, <2>2, <2>3 DEF Tiles
<1>9. RegistersAreCurrent'
  <2>1. ASSUME NEW i \in 1 .. n, i # n
        PROVE  frames[i].hold # NoHold /\ i < n
               /\ frames[i].hold = <<frames[i].base + Extent(frames[i]),
                                     NumLocals[frames[i].block] + 1>>
    <3>1. i < n
      BY <1>3, <2>1
    <3> QED
      BY <1>3, <2>1, <3>1 DEF StackInv, RegistersAreCurrent, n
  <2>2. ASSUME NEW i \in 1 .. n, i # n
        PROVE  frames'[i] = frames[i] /\ Extent(frames'[i]) = Extent(frames[i])
    BY <1>1, <2>2 DEF Extent, Entered
  <2>3. frames'[n].block = Top.block /\ ~(n < n)
    BY <1>1, <1>3 DEF SameFrame
  <2> QED
    BY <1>1, <1>4, <2>1, <2>2, <2>3 DEF RegistersAreCurrent, N
<1> QED
  BY <1>6, <1>7, <1>8, <1>9 DEF StackInv

\* The end of an interpreter.
LEMMA Ending ==
    ASSUME StackInv, End
    PROVE  LET n == Len(frames)
               gone == NumLocals[Top.block] + Top.argc + 1
           IN
           /\ frames # <<>> /\ outcome \in {"check", "run"} /\ gone \in 0 .. Len(stack)
           /\ stack' \in Seq(Val) /\ Len(stack') = Len(stack) - gone /\ Len(stack') = Top.base
           /\ \A i \in 1 .. Len(stack) - gone : stack'[i] = stack[gone + i]
           /\ frames' \in Seq(Shape) /\ Len(frames') = n - 1
           /\ \A i \in 1 .. n - 1 :
                 /\ frames'[i] \in Shape /\ SameFrame(frames'[i], frames[i])
                 /\ frames'[i].pc = frames[i].pc /\ frames'[i].cfr = frames[i].cfr
                 /\ frames'[i].hold = frames[i].hold
                 /\ frames'[i].environment = frames[i].environment
<1> DEFINE n == Len(frames)
           gone == NumLocals[Top.block] + Top.argc + 1
           result == LocalOf(Top, Instruction.dst)
           below == Outer(frames)
<1>1. Executes({"end"})
  BY DEF End
<1>2. /\ frames # <<>> /\ outcome \in {"check", "run"} /\ Instruction.op = "end"
      /\ Top.cfr = [store |-> store, index |-> NumLocals[Top.block] + 1]
      /\ NumLocals[Top.block] \in Nat \ {0} /\ Top.block \in Compiled(program)
      /\ Extent(Top) = Top.argc + 1 + NumLocals[Top.block]
      /\ Top.argc \in Nat /\ Top.base \in Nat /\ Proper(Top)
  BY <1>1, Executing
<1>3. /\ n \in Nat \ {0} /\ frames \in Seq(Shape) /\ stack \in Seq(Val)
      /\ Len(stack) = Top.base + Extent(Top)
  BY <1>2, TopFacts DEF StackInv, Shaped
<1>4. PICK locals \in Nat \ {0}, argc \in Nat, base \in Nat :
        locals = NumLocals[Top.block] /\ argc = Top.argc /\ base = Top.base
  BY <1>2
<1>5. gone = locals + argc + 1 /\ Len(stack) = base + (argc + 1 + locals)
  BY <1>2, <1>3, <1>4
<1> HIDE DEF gone
<1>6. gone \in 0 .. Len(stack) /\ Len(stack) - gone = base
  <2>1. gone \in 0 .. base + (argc + 1 + locals)
        /\ base + (argc + 1 + locals) - gone = base
    BY <1>5
  <2> QED
    BY <1>5, <2>1
<1>7. stack' = SubSeq(stack, gone + 1, Len(stack))
  <2>1. gone + 1 = NumLocals[Top.block] + Top.argc + 2
    BY <1>4, <1>5
  <2> QED
    BY <2>1 DEF End
<1>8. /\ stack' \in Seq(Val) /\ Len(stack') = Len(stack) - gone
      /\ \A i \in 1 .. Len(stack) - gone : stack'[i] = stack[gone + i]
  BY <1>3, <1>6, <1>7, Dropping
<1>9. result \in Val
  <2>1. PICK dst \in 1 .. locals : dst = Instruction.dst
    BY <1>2, <1>4, CompiledCode DEF UsesItsLocals, Instruction, Proper
  <2>2. PICK i : i = locals + 1 - dst
    OBVIOUS
  <2>3. i \in 1 .. base + (argc + 1 + locals)
    BY <2>2
  <2>4. i \in 1 .. Len(stack)
    BY <1>5, <2>3
  <2>5. result = stack[i]
    BY <1>2, <1>4, <2>1, <2>2 DEF LocalOf
  <2> QED
    BY <1>3, <2>4, <2>5, SequenceFacts
<1> HIDE DEF result
<1>10. /\ below \in Seq(Shape) /\ Len(below) = n - 1
       /\ \A i \in 1 .. n - 1 : below[i] = frames[i]
  BY <1>2, <1>3, OuterPart
<1>11. frames' = IF below = <<>> THEN <<>>
                 ELSE [below EXCEPT ![Len(below)].result = result]
  BY DEF End, result
<1> HIDE DEF below, n
<1>12. /\ frames' \in Seq(Shape) /\ Len(frames') = n - 1
       /\ \A i \in 1 .. n - 1 :
            /\ frames'[i] \in Shape /\ SameFrame(frames'[i], frames[i])
            /\ frames'[i].pc = frames[i].pc /\ frames'[i].cfr = frames[i].cfr
            /\ frames'[i].hold = frames[i].hold
            /\ frames'[i].environment = frames[i].environment
  <2>1. CASE below = <<>>
    <3>1. frames' = <<>> /\ n - 1 = 0
      BY <1>10, <1>11, <2>1
    <3> QED
      BY <3>1
  <2>2. CASE below # <<>>
    <3>1. Len(below) \in 1 .. Len(below) /\ below[Len(below)] \in Shape
      BY <1>10, <2>2
    <3>2. PICK g : g = [below[Len(below)] EXCEPT !.result = result]
      OBVIOUS
    <3>3. frames' = [below EXCEPT ![Len(below)] = g]
      BY <1>11, <2>2, <3>2
    <3>4. /\ g \in Shape /\ SameFrame(g, below[Len(below)])
          /\ g.pc = below[Len(below)].pc /\ g.cfr = below[Len(below)].cfr
          /\ g.hold = below[Len(below)].hold
          /\ g.environment = below[Len(below)].environment
      BY <1>9, <3>1, <3>2 DEF Shape, SameFrame
    <3>5. /\ frames' \in Seq(Shape) /\ Len(frames') = n - 1
          /\ frames'[Len(below)] = g
          /\ \A i \in 1 .. Len(below) : i # Len(below) => frames'[i] = below[i]
      BY <1>10, <3>1, <3>3, <3>4, Replacing
    <3>6. \A i \in 1 .. n - 1 :
            /\ SameFrame(frames'[i], below[i])
            /\ frames'[i].pc = below[i].pc /\ frames'[i].cfr = below[i].cfr
            /\ frames'[i].hold = below[i].hold
            /\ frames'[i].environment = below[i].environment
      BY <1>10, <3>4, <3>5 DEF SameFrame
    <3>7. \A i \in 1 .. n - 1 : frames'[i] \in Shape
      BY <3>5, SequenceFacts
    <3> QED
      BY <1>10, <3>5, <3>6, <3>7
  <2> QED
    BY <2>1, <2>2
<1> QED
  BY <1>2, <1>4, <1>6, <1>8, <1>12 DEF n, gone

LEMMA EndKeeps ==
    ASSUME StackInv, End
    PROVE  StackInv'
<1> DEFINE n == Len(frames)
<1>1. /\ frames # <<>> /\ outcome \in {"check", "run"}
      /\ stack' \in Seq(Val) /\ Len(stack') = Top.base
      /\ frames' \in Seq(Shape) /\ Len(frames') = n - 1
      /\ \A i \in 1 .. n - 1 :
            /\ frames'[i] \in Shape /\ SameFrame(frames'[i], frames[i])
            /\ frames'[i].pc = frames[i].pc /\ frames'[i].cfr = frames[i].cfr
            /\ frames'[i].hold = frames[i].hold
  BY Ending
<1>2. /\ n \in Nat \ {0} /\ DOMAIN frames = 1 .. n /\ Top = frames[n] /\ n \in 1 .. n
      /\ current = n /\ Len(stack) = Top.base + Extent(Top) /\ Len(stack) \in Nat
  BY <1>1, TopFacts
<1>3. /\ Top \in Shape /\ Top.lastInterpreter = n - 1 /\ Extent(Top) \in Nat /\ Top.base \in Nat
      /\ Len(stack) <= capacity /\ capacity \in Nat
  BY <1>2, FrameFacts DEF FrameIsInCode, StackInv, Shaped, Tiles
<1>4. PICK m \in Nat : m = n - 1 /\ \A i \in 1 .. m : i \in 1 .. n /\ i # n /\ i < n
  <2>1. PICK k \in Nat \ {0} : k = n
    BY <1>2
  <2>2. k - 1 \in Nat /\ \A i \in 1 .. k - 1 : i \in 1 .. k /\ i # k /\ i < k
    OBVIOUS
  <2> QED
    BY <2>1, <2>2
<1>5. DOMAIN frames' = 1 .. m /\ Len(frames') = m /\ (frames' = <<>> <=> m = 0)
  BY <1>1, <1>4, SequenceFacts
<1>6. UNCHANGED <<program, store, capacity, functions>>
  BY DEF End
<1>7. current' = m /\ currentBlock' = Top.lastBlock
  BY <1>3, <1>4 DEF End
<1>8. outcome' \in {"start", "checked"} => frames' = <<>>
  <2>1. /\ outcome' = IF Outer(frames) # <<>> THEN outcome
                      ELSE IF outcome = "check" THEN "checked" ELSE "done"
        /\ Outer(frames) = <<>> => frames' = <<>>
    BY DEF End
  <2> QED
    BY <1>1, <2>1
<1>9. \A i \in 1 .. m :
        /\ SameFrame(frames'[i], frames[i]) /\ frames'[i].pc = frames[i].pc
        /\ frames'[i].cfr = frames[i].cfr /\ frames'[i].hold = frames[i].hold
        /\ Extent(frames'[i]) = Extent(frames[i])
        /\ Entered(frames'[i]) <=> Entered(frames[i])
  BY <1>1, <1>4 DEF Extent, Entered, SameFrame
<1> HIDE DEF n
<1>10. Shaped'
  BY <1>1, <1>3, <1>6, <1>7 DEF StackInv, Shaped, Shape
<1>11. Control'
  <2>1. ASSUME NEW i \in 1 .. m PROVE FrameIsInCode(i)'
    <3>1. FrameIsInCode(i)
      BY <1>2, <1>4, FrameFacts
    <3> QED
      BY <1>6, <1>9, <3>1 DEF FrameIsInCode, SameFrame
  <2> QED
    BY <1>5, <1>6, <1>7, <1>8, <2>1 DEF Control, StackInv
<1>12. Tiles'
  <2>1. ASSUME NEW i \in 1 .. m
        PROVE  Above(i)' = frames'[i].base + Extent(frames'[i])
    <3>1. Above(i) = frames[i].base + Extent(frames[i])
      BY <1>2, <1>4 DEF StackInv, Tiles
    <3>2. Above(i) = frames[i + 1].base
      BY <1>2, <1>4 DEF Above, n
    <3>3. Above(i)' = frames[i + 1].base
      <4>1. CASE i = m
        <5>1. Above(i)' = Top.base
          BY <1>1, <1>5, <4>1 DEF Above
        <5>2. i + 1 = n
          BY <1>2, <1>4, <4>1
        <5> QED
          BY <1>2, <5>1, <5>2
      <4>2. CASE i # m
        <5>1. i + 1 \in 1 .. m
          BY <4>2
        <5>2. Above(i)' = frames'[i + 1].base
          BY <1>5, <4>2 DEF Above
        <5> QED
          BY <1>9, <5>1, <5>2 DEF SameFrame
      <4> QED
        BY <4>1, <4>2
    <3> QED
      BY <1>9, <3>1, <3>2, <3>3 DEF SameFrame
  <2>2. IF frames' = <<>> THEN Len(stack') = 1 ELSE frames'[1].base = 1
    <3>1. frames[1].base = 1
      BY <1>1 DEF StackInv, Tiles
    <3>2. CASE m = 0
      <4>1. n = 1
        BY <1>2, <1>4, <3>2
      <4> QED
        BY <1>1, <1>2, <1>5, <3>1, <3>2, <4>1
    <3>3. CASE m # 0
      <4>1. 1 \in 1 .. m
        BY <3>3
      <4> QED
        BY <1>5, <1>9, <3>1, <3>3, <4>1 DEF SameFrame
    <3> QED
      BY <3>2, <3>3
  <2>3. Len(stack') <= capacity'
    <3>1. PICK base \in Nat, extent \in Nat, c \in Nat :
            base = Top.base /\ extent = Extent(Top) /\ c = capacity
      BY <1>3
    <3>2. base + extent <= c
      BY <1>2, <1>3, <3>1
    <3>3. base <= c
      BY <3>2
    <3> QED
      BY <1>1, <1>6, <3>1, <3>3
  <2> QED
    BY <1>5, <2>1, <2>2, <2>3 DEF Tiles
<1>13. RegistersAreCurrent'
  <2>1. ASSUME NEW i \in 1 .. m
        PROVE  /\ frames[i].hold # NoHold
               /\ frames[i].hold = <<frames[i].base + Extent(frames[i]),
                                     NumLocals[frames[i].block] + 1>>
    BY <1>2, <1>4 DEF StackInv, RegistersAreCurrent, n
  <2> QED
    BY <1>5, <1>9, <2>1 DEF RegistersAreCurrent, SameFrame
<1> QED
  BY <1>10, <1>11, <1>12, <1>13 DEF StackInv

-----------------------------------------------------------------------------
(* An interpreter nested in the others, which wait                         *)

Beneath(below) ==
    /\ below \in Seq(Shape) /\ Len(below) = Len(frames)
    /\ \A i \in 1 .. Len(frames) :
          /\ SameFrame(below[i], frames[i])
          /\ below[i].pc = frames[i].pc /\ below[i].cfr = frames[i].cfr
          /\ below[i].environment = frames[i].environment
          /\ Entered(frames[i]) /\ below[i].hold # NoHold
          /\ below[i].hold = <<frames[i].base + Extent(frames[i]),
                               NumLocals[frames[i].block] + 1>>
          /\ Code[program][frames[i].block][frames[i].pc].op \in Waiting

\* The parts a block may be started for.
Starts(block, mode, start) ==
    /\ block \in Compiled(program) /\ mode \in {"check", "run"}
    /\ start \in {1, CodeStart[program][block]}
    /\ mode = "check" <=> start < CodeStart[program][block]

LEMMA Nesting ==
    ASSUME StackInv, NEW below, Beneath(below),
           NEW block, NEW mode, NEW start, Starts(block, mode, start),
           NEW parent \in Int, NEW args \in Seq(Val),
           Nest(below, block, mode, start, parent, args)
    PROVE  LET n == Len(frames)
               g == frames'[n + 1]
           IN
           /\ n \in Nat /\ frames' \in Seq(Shape) /\ Len(frames') = n + 1
           /\ \A i \in 1 .. n : frames'[i] = below[i]
           /\ g.block = block /\ g.mode = mode /\ g.pc = start
           /\ g.environment = parent + 1 /\ g.parent = parent
           /\ g.cfr = [store |-> 0, index |-> 0] /\ ~Entered(g)
           /\ g.argc = Len(args) /\ g.base = Len(stack) /\ Extent(g) = Len(args) + 1
           /\ g.lastInterpreter = current /\ g.hold = NoHold
           /\ current' = n + 1 /\ currentBlock' = block
           /\ stack' \in Seq(Val) /\ Len(stack') = 1 + Len(args) + Len(stack)
           /\ \A j \in 1 .. Len(args) : stack'[1 + j] = args[j]
           /\ \A i \in 1 .. Len(stack) : stack'[1 + Len(args) + i] = stack[i]
           /\ Len(args) \in Nat /\ Len(stack) \in Nat
           /\ store' \in Nat /\ capacity' \in Nat /\ Len(stack') <= capacity'
<1> DEFINE n == Len(frames)
           g == [block |-> block, mode |-> mode, pc |-> start,
                 environment |-> parent + 1, parent |-> parent,
                 cfr |-> [store |-> 0, index |-> 0],
                 argc |-> Len(args), base |-> Len(stack),
                 lastBlock |-> currentBlock, lastInterpreter |-> current,
                 hold |-> NoHold, result |-> Crash]
           values == <<Crash>> \o args
<1>1. /\ frames \in Seq(Shape) /\ stack \in Seq(Val) /\ current = n
      /\ currentBlock \in Block \union {Native} /\ program \in Program
  BY DEF StackInv, Shaped, Control
<1>2. n \in Nat /\ Len(stack) \in Nat /\ Len(args) \in Nat
  BY <1>1
<1>3. /\ below \in Seq(Shape) /\ Len(below) = n
  BY DEF Beneath
<1>4. block \in Block /\ start \in Nat /\ mode \in {"check", "run"}
  BY <1>1, InterpreterAssumption DEF Starts, Compiled
<1>5. g \in Shape
  <2> HIDE DEF n, g, values
  <2>1. PICK c \in Pointer : c = [store |-> 0, index |-> 0]
    BY DEF Pointer
  <2>2. PICK e \in Int : e = parent + 1
    OBVIOUS
  <2>3. PICK a \in Nat, b \in Nat, l \in Nat :
          a = Len(args) /\ b = Len(stack) /\ l = current
    BY <1>1, <1>2
  <2>4. g = [block |-> block, mode |-> mode, pc |-> start,
             environment |-> e, parent |-> parent, cfr |-> c, argc |-> a, base |-> b,
             lastBlock |-> currentBlock, lastInterpreter |-> l,
             hold |-> NoHold, result |-> Crash]
    BY <2>1, <2>2, <2>3 DEF g
  <2> QED
    BY <1>1, <1>4, <2>4, InterpreterAssumption DEF Shape
<1>6. /\ g.block = block /\ g.mode = mode /\ g.pc = start
      /\ g.environment = parent + 1 /\ g.parent = parent
      /\ g.cfr = [store |-> 0, index |-> 0] /\ g.cfr.index = 0
      /\ g.argc = Len(args) /\ g.base = Len(stack)
      /\ g.lastInterpreter = current /\ g.hold = NoHold
  OBVIOUS
<1>7. frames' = Append(below, g) /\ current' = n + 1 /\ currentBlock' = block
      /\ InsertAtFront(values)
  BY <1>3 DEF Nest
<1> HIDE DEF g, n
<1>8. /\ frames' \in Seq(Shape) /\ Len(frames') = n + 1 /\ frames'[n + 1] = g
      /\ \A i \in 1 .. n : frames'[i] = below[i]
  BY <1>3, <1>5, <1>7, Appending
<1>9. ~Entered(g) /\ Extent(g) = Len(args) + 1
  BY <1>2, <1>6 DEF Entered, Extent
<1>10. /\ values \in Seq(Val) /\ Len(values) = 1 + Len(args)
       /\ \A j \in 1 .. Len(args) : values[1 + j] = args[j]
  <2>1. <<Crash>> \in Seq(Val) /\ Len(<<Crash>>) = 1
    BY InterpreterAssumption
  <2> QED
    BY <2>1, Joining
<1> HIDE DEF values
<1>11. /\ stack' \in Seq(Val) /\ Len(stack') = 1 + Len(args) + Len(stack)
       /\ \A i \in 1 .. 1 + Len(args) : stack'[i] = values[i]
       /\ \A i \in 1 .. Len(stack) : stack'[1 + Len(args) + i] = stack[i]
       /\ store' \in Nat /\ capacity' \in Nat /\ Len(stack') <= capacity'
  BY <1>7, <1>10, Inserting
<1>12. \A j \in 1 .. Len(args) : stack'[1 + j] = args[j]
  <2>1. \A j \in 1 .. Len(args) : 1 + j \in 1 .. 1 + Len(args)
    BY <1>2
  <2> QED
    BY <1>10, <1>11, <2>1
<1> QED
  BY <1>2, <1>6, <1>7, <1>8, <1>9, <1>11, <1>12 DEF n

LEMMA NestKeeps ==
    ASSUME StackInv, NEW below, Beneath(below),
           NEW block, NEW mode, NEW start, Starts(block, mode, start),
           NEW parent \in Int, NEW args \in Seq(Val),
           Nest(below, block, mode, start, parent, args),
           UNCHANGED <<program, functions>>, outcome' \notin {"start", "checked"}
    PROVE  StackInv'
<1> DEFINE n == Len(frames)
           m == n + 1
<1>1. /\ n \in Nat /\ frames' \in Seq(Shape) /\ Len(frames') = m
      /\ \A i \in 1 .. n : frames'[i] = below[i]
      /\ frames'[m].block = block /\ frames'[m].mode = mode /\ frames'[m].pc = start
      /\ ~Entered(frames'[m])
      /\ frames'[m].base = Len(stack) /\ Extent(frames'[m]) = Len(args) + 1
      /\ frames'[m].lastInterpreter = current /\ frames'[m].hold = NoHold
      /\ current' = m /\ currentBlock' = block
      /\ stack' \in Seq(Val) /\ Len(stack') = 1 + Len(args) + Len(stack)
      /\ Len(args) \in Nat /\ Len(stack) \in Nat
      /\ store' \in Nat /\ capacity' \in Nat /\ Len(stack') <= capacity'
  BY Nesting
<1>2. DOMAIN frames = 1 .. n /\ (frames = <<>> <=> n = 0) /\ current = n
  BY SequenceFacts DEF StackInv, Shaped, Control
<1>3. /\ DOMAIN frames' = 1 .. m /\ frames' # <<>> /\ m \in Nat /\ n < m
      /\ \A i \in 1 .. m : i \in 1 .. n \/ i = m
      /\ \A i \in 1 .. n : i \in 1 .. m /\ i # m /\ i < m
  <2>1. PICK k \in Nat : k = n
    BY <1>1
  <2>2. /\ k + 1 \in Nat /\ k < k + 1 /\ k + 1 # 0
        /\ \A i \in 1 .. k + 1 : i \in 1 .. k \/ i = k + 1
        /\ \A i \in 1 .. k : i \in 1 .. k + 1 /\ i # k + 1 /\ i < k + 1
    OBVIOUS
  <2> QED
    BY <1>1, <2>1, <2>2, SequenceFacts
<1>4. \A i \in 1 .. n :
          /\ SameFrame(frames'[i], frames[i])
          /\ frames'[i].pc = frames[i].pc /\ frames'[i].cfr = frames[i].cfr
          /\ Entered(frames[i]) /\ frames'[i].hold # NoHold
          /\ frames'[i].hold = <<frames[i].base + Extent(frames[i]),
                                 NumLocals[frames[i].block] + 1>>
          /\ Code[program][frames[i].block][frames[i].pc].op \in Waiting
  BY <1>1 DEF Beneath
<1>5. \A i \in 1 .. n :
          Entered(frames'[i]) /\ Extent(frames'[i]) = Extent(frames[i])
          /\ frames'[i].base = frames[i].base /\ frames'[i].block = frames[i].block
  BY <1>4 DEF Entered, Extent, SameFrame
<1> HIDE DEF n, m
<1>6. Shaped'
  BY <1>1, InterpreterAssumption DEF StackInv, Shaped, Starts, Compiled
<1>7. Control'
  <2>1. ASSUME NEW i \in 1 .. n PROVE FrameIsInCode(i)'
    <3>1. FrameIsInCode(i)
      BY <1>2, <2>1, FrameFacts
    <3> QED
      BY <1>4, <1>5, <2>1, <3>1 DEF FrameIsInCode, SameFrame
  <2>2. ASSUME NEW i, i = m PROVE FrameIsInCode(i)'
    <3>1. start \in DOMAIN Code[program][block] /\ Code[program][block][start].op = "enter"
      <4>1. CodeStart[program][block] \in Nat \ {0}
        BY InterpreterAssumption DEF StackInv, Shaped, Starts, Compiled
      <4>2. StaysInside(program, block)
        BY CompiledCode DEF Starts
      <4> QED
        BY <4>1, <4>2 DEF StaysInside, Starts
    <3>2. current = i - 1
      BY <1>1, <1>2, <2>2 DEF m
    <3> QED
      BY <1>1, <2>2, <3>1, <3>2 DEF FrameIsInCode, Starts
  <2> QED
    BY <1>1, <1>3, <2>1, <2>2 DEF Control, StackInv
<1>8. Tiles'
  <2>1. ASSUME NEW i \in 1 .. m
        PROVE  Above(i)' = frames'[i].base + Extent(frames'[i])
    <3>1. CASE i = m
      <4>1. Above(i)' = Len(stack')
        BY <1>1, <3>1 DEF Above
      <4>2. PICK s \in Nat, a \in Nat : s = Len(stack) /\ a = Len(args)
        BY <1>1
      <4>3. Len(stack') = 1 + a + s /\ 1 + a + s = s + (a + 1)
        BY <1>1, <4>2
      <4> QED
        BY <1>1, <3>1, <4>1, <4>2, <4>3
    <3>2. CASE i # m
      <4>1. i \in 1 .. n
        BY <1>3, <3>2
      <4>2. Above(i) = frames[i].base + Extent(frames[i])
        BY <1>2, <4>1 DEF StackInv, Tiles
      <4>3. Above(i)' = frames'[i + 1].base
        BY <1>1, <3>2 DEF Above
      <4>4. frames'[i + 1].base = Above(i)
        <5>1. CASE i = n
          <6>1. i + 1 = m /\ Above(i) = Len(stack)
            BY <5>1 DEF m, n, Above
          <6> QED
            BY <1>1, <6>1
        <5>2. CASE i # n
          <6>1. i + 1 \in 1 .. n
            BY <1>1, <4>1, <5>2
          <6>2. Above(i) = frames[i + 1].base
            BY <5>2 DEF n, Above
          <6> QED
            BY <1>5, <6>1, <6>2
        <5> QED
          BY <5>1, <5>2
      <4> QED
        BY <1>5, <4>1, <4>2, <4>3, <4>4
    <3> QED
      BY <3>1, <3>2
  <2>2. frames'[1].base = 1
    <3>1. CASE n = 0
      <4>1. Len(stack) = 1 /\ m = 1
        BY <1>2, <3>1 DEF StackInv, Tiles, m
      <4> QED
        BY <1>1, <4>1
    <3>2. CASE n # 0
      <4>1. 1 \in 1 .. n /\ frames # <<>>
        BY <1>1, <1>2, <3>2
      <4> QED
        BY <1>5, <4>1 DEF StackInv, Tiles
    <3> QED
      BY <3>1, <3>2
  <2> QED
    BY <1>1, <1>3, <2>1, <2>2 DEF Tiles
<1>9. RegistersAreCurrent'
  <2>1. ASSUME NEW i \in 1 .. m
        PROVE  /\ Entered(frames'[i]) => frames'[i].hold # NoHold
               /\ frames'[i].hold # NoHold =>
                     frames'[i].hold = <<frames'[i].base + Extent(frames'[i]),
                                         NumLocals[frames'[i].block] + 1>>
               /\ i < m => frames'[i].hold # NoHold
    <3>1. CASE i = m
      BY <1>1, <1>3, <3>1
    <3>2. CASE i # m
      <4>1. i \in 1 .. n
        BY <1>3, <3>2
      <4> QED
        BY <1>4, <1>5, <4>1
    <3> QED
      BY <3>1, <3>2
  <2> QED
    BY <1>1, <1>3, <2>1 DEF RegistersAreCurrent
<1> QED
  BY <1>6, <1>7, <1>8, <1>9 DEF StackInv

\* Arguments are nothing, or consecutive locals of the caller.
PassesLocals(args) ==
    \/ args = <<>>
    \/ \E first \in Nat, argc \in Nat \ {0} :
          /\ frames # <<>> /\ Entered(Top)
          /\ Top.cfr.index = NumLocals[Top.block] + 1
          /\ \A i \in 1 .. argc : first + i - 1 \in 1 .. NumLocals[Top.block]
          /\ args = [i \in 1 .. argc |-> LocalOf(Top, first + i - 1)]

Nests ==
    /\ \E below \in Seq(Shape), block \in Block, mode \in {"check", "run"}, start \in Nat,
          parent \in Int, args \in Seq(Val) :
          /\ Beneath(below) /\ Starts(block, mode, start) /\ PassesLocals(args)
          /\ Nest(below, block, mode, start, parent, args)
    /\ UNCHANGED <<program, functions>> /\ outcome' \notin {"start", "checked"}

LEMMA NestsKeeps ==
    ASSUME StackInv, Nests
    PROVE  StackInv'
<1>1. PICK below \in Seq(Shape), block \in Block, mode \in {"check", "run"}, start \in Nat,
           parent \in Int, args \in Seq(Val) :
        /\ Beneath(below) /\ Starts(block, mode, start)
        /\ Nest(below, block, mode, start, parent, args)
  BY DEF Nests
<1>2. UNCHANGED <<program, functions>> /\ outcome' \notin {"start", "checked"}
  BY DEF Nests
<1> QED
  BY <1>1, <1>2, NestKeeps

LEMMA Started ==
    ASSUME StackInv, NEW b \in Compiled(program), NEW mode \in {"check", "run"},
           mode = "check" => CodeStart[program][b] > 1,
           NEW start, start = IF mode = "check" THEN 1 ELSE CodeStart[program][b]
    PROVE  b \in Block /\ start \in Nat /\ Starts(b, mode, start)
<1>1. b \in Block /\ CodeStart[program][b] \in Nat \ {0}
  BY InterpreterAssumption DEF StackInv, Shaped, Compiled
<1>2. PICK c \in Nat \ {0} : c = CodeStart[program][b]
  BY <1>1
<1>3. CASE mode = "check"
  BY <1>1, <1>2, <1>3 DEF Starts
<1>4. CASE mode = "run"
  BY <1>1, <1>2, <1>4 DEF Starts
<1> QED
  BY <1>3, <1>4

LEMMA StartNests ==
    ASSUME StackInv, StartCheck \/ StartRun
    PROVE  Nests
<1>1. frames = <<>> /\ Main \in Compiled(program) /\ CodeStart[program][Main] > 1
  BY CodeAssumption DEF StartCheck, StartRun, StackInv, Shaped, Control
<1>2. <<>> \in Seq(Shape) /\ <<>> \in Seq(Val) /\ Beneath(<<>>) /\ PassesLocals(<<>>)
  BY <1>1 DEF Beneath, PassesLocals
<1>3. CASE StartCheck
  <2>1. PICK mode \in {"check", "run"}, start \in {1} : mode = "check" /\ start = 1
    OBVIOUS
  <2>2. Main \in Block /\ start \in Nat /\ Starts(Main, mode, start)
    BY <1>1, <2>1, Started
  <2>3. Nest(<<>>, Main, mode, start, 0, <<>>)
    BY <1>3, <2>1 DEF StartCheck
  <2>4. UNCHANGED <<program, functions>> /\ outcome' \notin {"start", "checked"}
    BY <1>3 DEF StartCheck
  <2>5. 0 \in Int
    OBVIOUS
  <2> QED
    BY <1>2, <2>2, <2>3, <2>4, <2>5 DEF Nests
<1>4. CASE StartRun
  <2>1. PICK mode \in {"check", "run"} : mode = "run"
    OBVIOUS
  <2>2. PICK start : start = CodeStart[program][Main]
    OBVIOUS
  <2>3. Main \in Block /\ start \in Nat /\ Starts(Main, mode, start)
    BY <1>1, <2>1, <2>2, Started
  <2>4. Nest(<<>>, Main, mode, start, 0, <<>>)
    BY <1>4, <2>1, <2>2 DEF StartRun
  <2>5. UNCHANGED <<program, functions>> /\ outcome' \notin {"start", "checked"}
    BY <1>4 DEF StartRun
  <2>6. 0 \in Int
    OBVIOUS
  <2> QED
    BY <1>2, <2>3, <2>4, <2>5, <2>6 DEF Nests
<1> QED
  BY <1>3, <1>4

\* A frame that executes an instruction of preserveStack, and the frames under it.
LEMMA HoldingBeneath ==
    ASSUME StackInv, NEW names, Executes(names), names \subseteq Waiting,
           NEW below, below = [frames EXCEPT ![Len(frames)] = Hold(Top)]
    PROVE  Beneath(below)
<1> DEFINE n == Len(frames)
<1>0. "enter" \notin names
  BY DEF Waiting
<1>1. /\ frames # <<>> /\ Instruction.op \in names /\ Top \in Shape /\ Entered(Top)
      /\ Top.cfr = [store |-> store, index |-> NumLocals[Top.block] + 1]
  BY <1>0, Executing
<1>2. /\ n \in 1 .. n /\ n \in Nat /\ frames \in Seq(Shape) /\ Top = frames[n]
      /\ DOMAIN frames = 1 .. n /\ Len(stack) = Top.base + Extent(Top) /\ Len(stack) \in Nat
  BY <1>1, TopFacts DEF StackInv, Shaped
<1>3. /\ Hold(Top) \in Shape /\ SameFrame(Hold(Top), Top) /\ Hold(Top).pc = Top.pc
      /\ Hold(Top).cfr = Top.cfr /\ Hold(Top).hold = <<Len(stack), Top.cfr.index>>
      /\ Hold(Top).hold # NoHold /\ Hold(Top).environment = Top.environment
  BY <1>1, <1>2, Held
<1> HIDE DEF n
<1>4. /\ below \in Seq(Shape) /\ Len(below) = n /\ below[n] = Hold(Top)
      /\ \A i \in 1 .. n : i # n => below[i] = frames[i]
  BY <1>2, <1>3, Replacing DEF n
<1>5. ASSUME NEW i \in 1 .. n
      PROVE  /\ SameFrame(below[i], frames[i])
             /\ below[i].pc = frames[i].pc /\ below[i].cfr = frames[i].cfr
             /\ below[i].environment = frames[i].environment
             /\ Entered(frames[i]) /\ below[i].hold # NoHold
             /\ below[i].hold = <<frames[i].base + Extent(frames[i]),
                                  NumLocals[frames[i].block] + 1>>
             /\ Code[program][frames[i].block][frames[i].pc].op \in Waiting
  <2>1. CASE i = n
    <3>1. Code[program][Top.block][Top.pc].op \in Waiting
      BY <1>1 DEF Instruction
    <3>2. Top.cfr.index = NumLocals[Top.block] + 1
      BY <1>1
    <3> QED
      BY <1>1, <1>2, <1>3, <1>4, <2>1, <3>1, <3>2
  <2>2. CASE i # n
    <3>1. i < n
      BY <1>2, <2>2
    <3>2. /\ frames[i].hold # NoHold
          /\ frames[i].hold = <<frames[i].base + Extent(frames[i]),
                                NumLocals[frames[i].block] + 1>>
      BY <1>2, <3>1 DEF StackInv, RegistersAreCurrent, n
    <3>3. FrameIsInCode(i)
      BY <1>2, FrameFacts
    <3>4. Entered(frames[i]) /\ Code[program][frames[i].block][frames[i].pc].op \in Waiting
      BY <3>2, <3>3 DEF FrameIsInCode, Waiting
    <3>5. below[i] = frames[i]
      BY <1>4, <2>2
    <3> QED
      BY <3>2, <3>4, <3>5 DEF SameFrame
  <2> QED
    BY <2>1, <2>2
<1> QED
  BY <1>4, <1>5 DEF Beneath, n

\* A frame that waits, and the frames under it.
LEMMA WaitingBeneath ==
    ASSUME StackInv, Returned
    PROVE  Beneath(frames)
<1> DEFINE n == Len(frames)
<1>1. frames # <<>> /\ Top.hold # NoHold
  BY DEF Returned
<1>2. /\ n \in 1 .. n /\ n \in Nat /\ frames \in Seq(Shape) /\ Top = frames[n]
      /\ DOMAIN frames = 1 .. n
  BY <1>1, TopFacts DEF StackInv, Shaped
<1>3. ASSUME NEW i \in 1 .. n
      PROVE  /\ Entered(frames[i]) /\ frames[i].hold # NoHold
             /\ frames[i].hold = <<frames[i].base + Extent(frames[i]),
                                   NumLocals[frames[i].block] + 1>>
             /\ Code[program][frames[i].block][frames[i].pc].op \in Waiting
  <2>1. i = n \/ i < n
    <3>1. PICK k \in Nat : k = n
      BY <1>2
    <3>2. i \in 1 .. k => i = k \/ i < k
      OBVIOUS
    <3> QED
      BY <3>1, <3>2
  <2>2. frames[i].hold # NoHold
    BY <1>1, <1>2, <2>1 DEF StackInv, RegistersAreCurrent
  <2>3. frames[i].hold = <<frames[i].base + Extent(frames[i]), NumLocals[frames[i].block] + 1>>
    BY <1>2, <2>2 DEF StackInv, RegistersAreCurrent
  <2>4. FrameIsInCode(i)
    BY <1>2, FrameFacts
  <2>5. Entered(frames[i]) /\ Code[program][frames[i].block][frames[i].pc].op \in Waiting
    BY <2>2, <2>4 DEF FrameIsInCode, Waiting
  <2> QED
    BY <2>2, <2>3, <2>5
<1>4. \A i \in 1 .. n : SameFrame(frames[i], frames[i])
  BY DEF SameFrame
<1> QED
  BY <1>2, <1>3, <1>4 DEF Beneath

LEMMA CallNests ==
    ASSUME StackInv, NEW callee \in Block, Call(callee)
    PROVE  Nests
<1> DEFINE below == [frames EXCEPT ![Len(frames)] = Hold(Top)]
           argc == Instruction.argc
           first == Instruction.firstArg
           args == [i \in 1 .. argc |-> LocalOf(Top, first + i - 1)]
<1>1. Executes({"call"}) /\ {"call"} \subseteq Waiting /\ "enter" \notin {"call"}
  BY DEF Call, Waiting
<1>2. Beneath(below)
  BY <1>1, HoldingBeneath
<1>3. /\ frames # <<>> /\ outcome \in {"check", "run"} /\ Instruction.op = "call" /\ Entered(Top)
      /\ Top.cfr = [store |-> store, index |-> NumLocals[Top.block] + 1]
      /\ NumLocals[Top.block] \in Nat \ {0} /\ Top.block \in Compiled(program)
      /\ Top.base \in Nat /\ Top.argc \in Nat
      /\ Extent(Top) = Top.argc + 1 + NumLocals[Top.block] /\ Proper(Top)
  BY <1>1, Executing
<1>4. /\ argc \in Nat /\ first \in Nat
      /\ \A k \in 1 .. argc : first + k - 1 \in 1 .. NumLocals[Top.block]
  BY <1>3, CompiledCode DEF UsesItsLocals, Instruction, Proper
<1>5. PICK locals \in Nat \ {0}, base \in Nat, given \in Nat :
        locals = NumLocals[Top.block] /\ base = Top.base /\ given = Top.argc
  BY <1>3
<1>6. stack \in Seq(Val) /\ Len(stack) = base + (given + 1 + locals)
  BY <1>3, <1>5, TopFacts DEF StackInv, Shaped
<1> HIDE DEF below, argc, first
<1>7. ASSUME NEW i \in 1 .. argc PROVE LocalOf(Top, first + i - 1) \in Val
  <2>1. PICK r \in 1 .. locals : r = first + i - 1
    BY <1>4, <1>5
  <2>2. PICK at : at = locals + 1 - r
    OBVIOUS
  <2>3. at \in 1 .. base + (given + 1 + locals)
    BY <2>2
  <2>4. at \in 1 .. Len(stack)
    BY <1>6, <2>3
  <2>5. Top.cfr.index = locals + 1
    BY <1>3, <1>5
  <2>6. LocalOf(Top, first + i - 1) = stack[at]
    BY <2>1, <2>2, <2>5 DEF LocalOf
  <2> QED
    BY <1>6, <2>4, <2>6, SequenceFacts
<1>8. args \in Seq(Val) /\ (argc = 0 => args = <<>>)
  <2>1. args \in [1 .. argc -> Val]
    BY <1>7
  <2> HIDE DEF args
  <2>2. args \in Seq(Val) /\ Len(args) = argc
    BY <1>4, <2>1, FunctionIsSequence
  <2> QED
    BY <2>2
<1>9. PassesLocals(args)
  <2>1. CASE argc = 0
    BY <1>8, <2>1 DEF PassesLocals
  <2>2. CASE argc # 0
    <3>1. argc \in Nat \ {0} /\ 1 \in 1 .. argc
      BY <1>4, <2>2
    <3>2. args = [i \in 1 .. argc |-> LocalOf(Top, first + i - 1)]
      OBVIOUS
    <3>3. Top.cfr.index = NumLocals[Top.block] + 1
      BY <1>3
    <3> HIDE DEF args
    <3> QED
      BY <1>3, <1>4, <3>1, <3>2, <3>3 DEF PassesLocals
  <2> QED
    BY <2>1, <2>2
<1>10. functions[callee] \in Int /\ callee \in Compiled(program)
  BY DEF Call, StackInv, Shaped, Control
<1>11. PICK mode \in {"check", "run"} : mode = "run"
  OBVIOUS
<1>12. PICK start : start = CodeStart[program][callee]
  OBVIOUS
<1>13. start \in Nat /\ Starts(callee, mode, start)
  BY <1>10, <1>11, <1>12, Started
<1>14. Nest(below, callee, mode, start, functions[callee], args)
  BY <1>11, <1>12 DEF Call, below, argc, first
<1>15. UNCHANGED <<program, functions>> /\ outcome' \notin {"start", "checked"}
  BY <1>3 DEF Call
<1>16. below \in Seq(Shape)
  BY <1>2 DEF Beneath
<1> HIDE DEF args
<1> QED
  BY <1>2, <1>8, <1>9, <1>10, <1>13, <1>14, <1>15, <1>16 DEF Nests

LEMMA CheckNests ==
    ASSUME StackInv, CheckFunction
    PROVE  Nests
<1> DEFINE below == [frames EXCEPT ![Len(frames)] = Hold(Top)]
           function == Instruction.function
<1>1. Executes({"newFunction"}) /\ {"newFunction"} \subseteq Waiting
      /\ "enter" \notin {"newFunction"}
  BY DEF CheckFunction, Waiting
<1>2. Beneath(below)
  BY <1>1, HoldingBeneath
<1>3. /\ outcome \in {"check", "run"} /\ Instruction.op = "newFunction"
      /\ Top.block \in Compiled(program) /\ Proper(Top) /\ Top \in Shape
  BY <1>1, Executing
<1>4. function \in Compiled(program) /\ CodeStart[program][function] > 1
  BY <1>3, CompiledCode DEF DefinesCompiled, Instruction, Proper
<1>5. PICK mode \in {"check", "run"}, start \in {1} : mode = "check" /\ start = 1
  OBVIOUS
<1>6. function \in Block /\ start \in Nat /\ Starts(function, mode, start)
  BY <1>4, <1>5, Started
<1>7. Nest(below, function, mode, start, Top.environment, <<>>)
  BY <1>5 DEF CheckFunction
<1>8. Top.environment \in Int /\ <<>> \in Seq(Val) /\ PassesLocals(<<>>)
  BY <1>3 DEF Shape, PassesLocals
<1>9. UNCHANGED <<program, functions>> /\ outcome' \notin {"start", "checked"}
  BY <1>3 DEF CheckFunction
<1>10. below \in Seq(Shape)
  BY <1>2 DEF Beneath
<1> HIDE DEF below, function
<1> QED
  BY <1>2, <1>6, <1>7, <1>8, <1>9, <1>10 DEF Nests

LEMMA HoleNests ==
    ASSUME StackInv, EvaluateHole
    PROVE  Nests
<1>1. Returned
  BY DEF EvaluateHole, Solves
<1>2. Beneath(frames)
  BY <1>1, WaitingBeneath
<1>3. frames # <<>> /\ outcome \in {"check", "run"} /\ Top \in Shape
  BY <1>1, Waits
<1>4. Hole \in Compiled(program)
  BY CodeAssumption DEF EvaluateHole, StackInv, Shaped
<1>5. PICK mode \in {"check", "run"} : mode = "run"
  OBVIOUS
<1>6. PICK start : start = CodeStart[program][Hole]
  OBVIOUS
<1>7. Hole \in Block /\ start \in Nat /\ Starts(Hole, mode, start)
  BY <1>4, <1>5, <1>6, Started
<1>8. PICK parent \in Int : parent = frames[current].environment + 1
  <2>1. frames[current].environment \in Int
    BY <1>3, TopFacts, FrameFacts
  <2> QED
    BY <2>1
<1>9. Nest(frames, Hole, mode, start, parent, <<>>)
  BY <1>5, <1>6, <1>8 DEF EvaluateHole
<1>10. UNCHANGED <<program, functions>> /\ outcome' \notin {"start", "checked"}
  BY <1>3 DEF EvaluateHole
<1>11. frames \in Seq(Shape) /\ <<>> \in Seq(Val) /\ PassesLocals(<<>>)
  BY <1>2 DEF Beneath, PassesLocals
<1> QED
  BY <1>2, <1>7, <1>9, <1>10, <1>11 DEF Nests

-----------------------------------------------------------------------------
(* Every step is one of four kinds                                         *)

LEMMA StepKinds ==
    ASSUME StackInv, Next
    PROVE  Quiet \/ Nests \/ Enter \/ End
<1>1. CASE Lifetime
  BY <1>1, StartNests DEF Lifetime
<1>2. CASE OwnStep
  BY <1>2, ComputeQuiet, WritingQuiet, JumpQuiet, RuntimeErrorQuiet DEF OwnStep
<1>3. CASE NestingStep
  BY <1>3, WritingQuiet, CallNests, CheckNests, DefiningQuiet, FinishCallQuiet DEF NestingStep
<1>4. CASE TypingStep
  BY <1>4, PushScopeQuiet, PopScopeQuiet, TypingQuiet, FinalizeQuiet, SolveQuiet, HoleNests,
     FinishQuiet, FinishResolveQuiet DEF TypingStep
<1> QED
  BY <1>1, <1>2, <1>3, <1>4 DEF Next

LEMMA InitStack == Init => StackInv
<1> SUFFICES ASSUME Init PROVE StackInv
  OBVIOUS
<1>1. stack \in Seq(Val) /\ Len(stack) = 1
  BY InterpreterAssumption DEF Init
<1>2. frames \in Seq(Shape) /\ DOMAIN frames = {} /\ Len(frames) = 0
  BY DEF Init
<1>3. Shaped
  BY <1>1, <1>2 DEF Init, Shaped
<1>4. Control
  BY <1>2 DEF Init, Control
<1>5. Tiles /\ RegistersAreCurrent
  BY <1>1, <1>2 DEF Init, Tiles, RegistersAreCurrent
<1> QED
  BY <1>3, <1>4, <1>5 DEF StackInv

LEMMA NextKeeps ==
    ASSUME StackInv, [Next]_vars
    PROVE  StackInv'
<1>1. CASE Next
  BY <1>1, StepKinds, InPlaceKeeps, NestsKeeps, EnterKeeps, EndKeeps DEF Quiet
<1>2. CASE UNCHANGED vars
  BY <1>2 DEF vars, StackInv, Shaped, Control, FrameIsInCode, Tiles, Above, Extent, Entered,
     RegistersAreCurrent
<1> QED
  BY <1>1, <1>2

\* The invariant of the stack: frames are at instructions of compiled blocks, tile
\* vm.stack, and their registers are where the vector is now.
THEOREM StackInvHolds == Spec => []StackInv
  BY InitStack, NextKeeps, PTL DEF Spec

\* For any programs, an interpreter that executes addresses its own frame in the
\* memory vm.stack occupies now, and one that waits in preserveStack will find its
\* frame again, whatever the interpreters nested in it do to the vector.
THEOREM RegistersStayCurrent == Spec => []RegistersAreCurrent
<1>1. StackInv => RegistersAreCurrent
  BY DEF StackInv
<1> QED
  BY <1>1, StackInvHolds, PTL

-----------------------------------------------------------------------------
(* The activations the frames stand for                                    *)

Locals(f) == IF Entered(f) THEN NumLocals[f.block] ELSE 0

\* What frame f holds in the stack s: places are counted from the back.
ActOf(s, f) ==
    [args |-> [j \in 1 .. f.argc |-> s[Len(s) - (f.base + f.argc - j)]],
     locals |-> [k \in 1 .. Locals(f) |-> s[Len(s) - (f.base + f.argc + k)]]]

Acts(s, fs) == [i \in DOMAIN fs |-> ActOf(s, fs[i])]

\* Frames of the same place, and stacks that agree on it.
LEMMA Agreeing ==
    ASSUME NEW s, NEW t, NEW f, NEW g,
           g.argc = f.argc, g.base = f.base, Locals(g) = Locals(f),
           f.argc \in Nat, f.base \in Nat, Locals(f) \in Nat,
           \A p \in f.base .. f.base + f.argc + Locals(f) : t[Len(t) - p] = s[Len(s) - p]
    PROVE  ActOf(t, g) = ActOf(s, f)
<1> DEFINE base == f.base
           argc == f.argc
           locals == Locals(f)
<1>1. PICK b \in Nat, a \in Nat, l \in Nat : b = base /\ a = argc /\ l = locals
  OBVIOUS
<1>2. /\ \A j \in 1 .. a : b + a - j \in b .. b + a + l
      /\ \A k \in 1 .. l : b + a + k \in b .. b + a + l
  OBVIOUS
<1>3. \A p \in b .. b + a + l : t[Len(t) - p] = s[Len(s) - p]
  BY <1>1
<1>4. /\ \A j \in 1 .. a : t[Len(t) - (b + a - j)] = s[Len(s) - (b + a - j)]
      /\ \A k \in 1 .. l : t[Len(t) - (b + a + k)] = s[Len(s) - (b + a + k)]
  BY <1>2, <1>3
<1>5. /\ ActOf(s, f) = [args |-> [j \in 1 .. a |-> s[Len(s) - (b + a - j)]],
                        locals |-> [k \in 1 .. l |-> s[Len(s) - (b + a + k)]]]
      /\ ActOf(t, g) = [args |-> [j \in 1 .. a |-> t[Len(t) - (b + a - j)]],
                        locals |-> [k \in 1 .. l |-> t[Len(t) - (b + a + k)]]]
  BY <1>1 DEF ActOf
<1>6. /\ [j \in 1 .. a |-> s[Len(s) - (b + a - j)]] = [j \in 1 .. a |-> t[Len(t) - (b + a - j)]]
      /\ [k \in 1 .. l |-> s[Len(s) - (b + a + k)]] = [k \in 1 .. l |-> t[Len(t) - (b + a + k)]]
  BY <1>4
<1> QED
  BY <1>5, <1>6

\* Stacks that agree below a height agree on a frame that lies below it.
LEMMA AgreeingBelow ==
    ASSUME NEW s, NEW t, NEW f, NEW g, NEW size \in Nat,
           g.argc = f.argc, g.base = f.base, Locals(g) = Locals(f),
           f.argc \in Nat, f.base \in Nat, Locals(f) \in Nat,
           f.base + f.argc + Locals(f) + 1 <= size,
           \A p \in 0 .. size - 1 : t[Len(t) - p] = s[Len(s) - p]
    PROVE  ActOf(t, g) = ActOf(s, f)
<1>1. PICK b \in Nat, a \in Nat, l \in Nat : b = f.base /\ a = f.argc /\ l = Locals(f)
  OBVIOUS
<1>2. b + a + l + 1 <= size
  BY <1>1
<1>3. b .. b + a + l \subseteq 0 .. size - 1
  BY <1>2
<1>4. \A p \in b .. b + a + l : t[Len(t) - p] = s[Len(s) - p]
  BY <1>3
<1> QED
  BY <1>1, <1>4, Agreeing

LEMMA WithLocals ==
    ASSUME NEW a, NEW l, NEW m, NEW act, act = [args |-> a, locals |-> l]
    PROVE  [act EXCEPT !.locals = m] = [args |-> a, locals |-> m]
<1>1. act = [args |-> a, locals |-> l]
  OBVIOUS
<1> QED
  BY <1>1

LEMMA ShiftedPlaces ==
    ASSUME NEW z \in Nat, NEW b \in Nat, NEW a \in Nat, NEW l \in Nat, NEW d \in Int,
           d = z - b - (a + 1 + l)
    PROVE  /\ \A j \in 1 .. a : d + l + 1 + j = z - (b + a - j)
           /\ \A k \in 1 .. l : d + l + 1 - k = z - (b + a + k)
  OBVIOUS

LEMMA ActivationForm ==
    ASSUME NEW s, NEW f, Len(s) \in Nat, f.argc \in Nat, f.base \in Nat, Locals(f) \in Nat,
           NEW front, front = Len(s) - f.base - Extent(f)
    PROVE  [args |-> [j \in 1 .. f.argc |-> s[front + Locals(f) + 1 + j]],
            locals |-> [k \in 1 .. Locals(f) |-> s[front + Locals(f) + 1 - k]]] = ActOf(s, f)
<1>1. PICK b \in Nat, a \in Nat, l \in Nat, z \in Nat :
        b = f.base /\ a = f.argc /\ l = Locals(f) /\ z = Len(s)
  OBVIOUS
<1>2. Extent(f) = a + 1 + l
  BY <1>1 DEF Extent, Locals
<1>3. PICK d \in Int : d = front /\ d = z - b - (a + 1 + l)
  <2>1. front = z - b - (a + 1 + l) /\ front \in Int
    BY <1>1, <1>2
  <2> QED
    BY <2>1
<1>4. /\ [j \in 1 .. a |-> s[d + l + 1 + j]] = [j \in 1 .. a |-> s[z - (b + a - j)]]
      /\ [k \in 1 .. l |-> s[d + l + 1 - k]] = [k \in 1 .. l |-> s[z - (b + a + k)]]
  <2>1. /\ \A j \in 1 .. a : d + l + 1 + j = z - (b + a - j)
        /\ \A k \in 1 .. l : d + l + 1 - k = z - (b + a + k)
    <3>1. d = z - b - (a + 1 + l)
      BY <1>3
    <3> QED
      BY <3>1, ShiftedPlaces
  <2> QED
    BY <2>1
<1> QED
  BY <1>1, <1>3, <1>4 DEF ActOf

LEMMA ActsAre ==
    ASSUME StackInv
    PROVE  [i \in DOMAIN frames |-> ActivationOf(i)] = Acts(stack, frames)
<1>1. ASSUME NEW i \in DOMAIN frames PROVE ActivationOf(i) = ActOf(stack, frames[i])
  <2>1. /\ frames[i].argc \in Nat /\ frames[i].base \in Nat /\ Locals(frames[i]) \in Nat
        /\ Len(stack) \in Nat
    BY FrameFacts, SequenceFacts DEF Locals, StackInv, Shaped
  <2> QED
    BY <2>1, ActivationForm DEF ActivationOf, FrontOf, Locals
<1> QED
  BY <1>1 DEF Acts

\* Above each frame come the frames over it.
LEMMA Higher ==
    ASSUME StackInv, NEW i \in DOMAIN frames, NEW k \in DOMAIN frames, i < k
    PROVE  Above(i) <= frames[k].base
<1> DEFINE n == Len(frames)
           T == {d \in Nat : i + 1 + d \in 1 .. n => Above(i) <= frames[i + 1 + d].base}
<1>1. n \in Nat /\ DOMAIN frames = 1 .. n
  BY SequenceFacts DEF StackInv, Shaped
<1>2. /\ i \in 1 .. n /\ k \in 1 .. n /\ Above(i) \in Nat
      /\ \A l \in 1 .. n : frames[l].base \in Nat /\ Extent(frames[l]) \in Nat
                           /\ Above(l) = frames[l].base + Extent(frames[l])
  <2>1. \A l \in 1 .. n : frames[l].base \in Nat /\ Extent(frames[l]) \in Nat
                          /\ Above(l) = frames[l].base + Extent(frames[l])
    BY <1>1, FrameFacts
  <2> QED
    BY <1>1, <2>1
<1>3. 0 \in T
  <2>1. ASSUME i + 1 + 0 \in 1 .. n PROVE Above(i) = frames[i + 1 + 0].base
    <3>1. i # n /\ i + 1 + 0 = i + 1
      BY <1>1, <1>2, <2>1
    <3> QED
      BY <3>1 DEF Above
  <2>2. ASSUME i + 1 + 0 \in 1 .. n PROVE Above(i) <= frames[i + 1 + 0].base
    BY <1>2, <2>1, <2>2
  <2> QED
    BY <2>2
<1>4. ASSUME NEW d \in T PROVE d + 1 \in T
  <2> SUFFICES ASSUME i + 1 + (d + 1) \in 1 .. n
               PROVE  Above(i) <= frames[i + 1 + (d + 1)].base
    OBVIOUS
  <2>1. PICK l \in 1 .. n : l = i + 1 + d /\ l # n /\ l + 1 = i + 1 + (d + 1)
    <3>1. PICK m \in Nat : m = n
      BY <1>1
    <3>2. i \in 1 .. m /\ d \in Nat /\ i + 1 + (d + 1) \in 1 .. m
      BY <1>2, <3>1
    <3>3. /\ i + 1 + d \in 1 .. m /\ i + 1 + d # m
          /\ (i + 1 + d) + 1 = i + 1 + (d + 1)
      BY <3>2
    <3> QED
      BY <3>1, <3>3
  <2>2. Above(i) <= frames[l].base
    BY <2>1
  <2>3. Above(l) = frames[l + 1].base
    BY <2>1 DEF Above
  <2>4. PICK a \in Nat, base \in Nat, extent \in Nat :
          a = Above(i) /\ base = frames[l].base /\ extent = Extent(frames[l])
    BY <1>2
  <2>5. a <= base => a <= base + extent
    OBVIOUS
  <2>6. Above(i) <= Above(l)
    BY <1>2, <2>2, <2>4, <2>5
  <2> QED
    BY <2>1, <2>3, <2>6
<1> HIDE DEF T
<1>5. T = Nat
  <2>1. T \in SUBSET Nat
    BY DEF T
  <2> QED
    BY <1>3, <1>4, <2>1, SetInduction
<1>6. PICK d \in Nat : k = i + 1 + d
  <2>1. k - i - 1 \in Nat /\ k = i + 1 + (k - i - 1)
    BY <1>1, <1>2
  <2> QED
    BY <2>1
<1> QED
  BY <1>2, <1>5, <1>6 DEF T

\* The place of a frame.
LEMMA Place ==
    ASSUME StackInv, NEW i \in DOMAIN frames
    PROVE  LET f == frames[i]
               over == f.base + f.argc + Locals(f) + 1
           IN
           /\ f.base \in Nat /\ f.argc \in Nat /\ Locals(f) \in Nat
           /\ Len(stack) \in Nat /\ over <= Len(stack)
           /\ i < Len(frames) => over <= Top.base
           /\ i = Len(frames) => over = Len(stack)
<1> DEFINE n == Len(frames)
           f == frames[i]
           over == f.base + f.argc + Locals(f) + 1
<1>1. /\ f.base \in Nat /\ f.argc \in Nat /\ Locals(f) \in Nat
      /\ Above(i) = f.base + Extent(f) /\ i \in 1 .. n
  BY FrameFacts DEF Locals
<1>2. frames # <<>> /\ DOMAIN frames = 1 .. n /\ n \in Nat \ {0}
  BY <1>1, SequenceFacts DEF StackInv, Shaped
<1>3. /\ n \in DOMAIN frames /\ Top = frames[n]
      /\ Len(stack) = Top.base + Extent(Top) /\ Len(stack) \in Nat
      /\ Top.base \in Nat /\ Extent(Top) \in Nat
  BY <1>2, TopFacts, FrameFacts
<1>4. Above(i) = over
  <2>1. PICK b \in Nat, a \in Nat, l \in Nat : b = f.base /\ a = f.argc /\ l = Locals(f)
    BY <1>1
  <2>2. Extent(f) = a + 1 + l
    BY <2>1 DEF Extent, Locals
  <2>3. b + (a + 1 + l) = b + a + l + 1
    OBVIOUS
  <2> QED
    BY <1>1, <2>1, <2>2, <2>3
<1>5. i = n => over = Len(stack)
  BY <1>4 DEF Above
<1>6. ASSUME i < n PROVE over <= Top.base
  BY <1>3, <1>4, <1>6, Higher
<1>7. over <= Len(stack)
  <2>1. PICK b \in Nat, e \in Nat : b = Top.base /\ e = Extent(Top)
    BY <1>3
  <2>2. b <= b + e
    OBVIOUS
  <2>3. Top.base <= Len(stack)
    BY <1>3, <2>1, <2>2
  <2>4. i = n \/ i < n
    <3>1. PICK k \in Nat : k = n
      BY <1>2
    <3>2. i \in 1 .. k => i = k \/ i < k
      OBVIOUS
    <3> QED
      BY <1>1, <3>1, <3>2
  <2>5. over \in Nat
    BY <1>1
  <2> QED
    BY <1>3, <1>5, <1>6, <2>3, <2>4, <2>5
<1> QED
  BY <1>1, <1>3, <1>5, <1>6, <1>7

LEMMA SamePlace ==
    ASSUME StackInv, InPlace
    PROVE  /\ DOMAIN frames' = DOMAIN frames /\ frames # <<>>
           /\ \A i \in DOMAIN frames :
                 /\ frames'[i].argc = frames[i].argc /\ frames'[i].base = frames[i].base
                 /\ Locals(frames'[i]) = Locals(frames[i])
<1> DEFINE n == Len(frames)
<1>1. /\ frames # <<>> /\ frames' \in Seq(Shape) /\ Len(frames') = n /\ Entered(Top)
      /\ \A i \in 1 .. n : SameFrame(frames'[i], frames[i])
      /\ \A i \in 1 .. n - 1 : frames'[i].cfr = frames[i].cfr
      /\ Ready(frames'[n])
  BY DEF InPlace
<1>2. n \in Nat /\ DOMAIN frames = 1 .. n /\ DOMAIN frames' = 1 .. n /\ Top = frames[n]
  BY <1>1, TopFacts, SequenceFacts
<1>3. \A i \in 1 .. n : i = n \/ i \in 1 .. n - 1
  <2>1. PICK m \in Nat : m = n
    BY <1>2
  <2>2. \A i \in 1 .. m : i = m \/ i \in 1 .. m - 1
    OBVIOUS
  <2> QED
    BY <2>1, <2>2
<1>4. \A i \in 1 .. n : Entered(frames'[i]) <=> Entered(frames[i])
  <2>1. Entered(frames'[n]) /\ Entered(frames[n])
    BY <1>1, <1>2 DEF Ready
  <2>2. \A i \in 1 .. n - 1 : Entered(frames'[i]) <=> Entered(frames[i])
    BY <1>1 DEF Entered
  <2> QED
    BY <1>3, <2>1, <2>2
<1> QED
  BY <1>1, <1>2, <1>4 DEF SameFrame, Locals

LEMMA UnchangedActs ==
    ASSUME StackInv, InPlace, stack' = stack
    PROVE  Acts(stack', frames') = Acts(stack, frames)
<1>1. ASSUME NEW i \in DOMAIN frames PROVE ActOf(stack', frames'[i]) = ActOf(stack, frames[i])
  BY SamePlace DEF ActOf
<1> QED
  BY <1>1, SamePlace DEF Acts

\* Writing a local of the innermost frame changes that local and nothing else.
LEMMA WrittenActs ==
    ASSUME StackInv, InPlace, WritesLocal(NumLocals[Top.block])
    PROVE  \E k \in 1 .. Locals(Top), v \in Val :
              /\ DOMAIN frames' = DOMAIN frames
              /\ \A i \in DOMAIN frames :
                   ActOf(stack', frames'[i]) =
                      IF i = Len(frames)
                      THEN [ActOf(stack, Top) EXCEPT !.locals = [@ EXCEPT ![k] = v]]
                      ELSE ActOf(stack, frames[i])
<1> DEFINE n == Len(frames)
<1>1. frames # <<>> /\ Entered(Top) /\ stack \in Seq(Val)
  BY DEF InPlace, StackInv, Shaped
<1>2. /\ n \in DOMAIN frames /\ DOMAIN frames = 1 .. n /\ Top = frames[n] /\ n \in Nat
      /\ Locals(Top) = NumLocals[Top.block]
  BY <1>1, TopFacts DEF Locals
<1>3. PICK k \in 1 .. Locals(Top), v \in Val :
        stack' = [stack EXCEPT ![Locals(Top) + 1 - k] = v]
  BY <1>2 DEF WritesLocal
<1>4. PICK base \in Nat, argc \in Nat, locals \in Nat, size \in Nat :
        /\ base = Top.base /\ argc = Top.argc /\ locals = Locals(Top) /\ size = Len(stack)
        /\ size = base + argc + locals + 1
  BY <1>2, Place
<1>5. k \in 1 .. locals
  BY <1>4
<1>6. PICK at \in 1 .. size : at = locals + 1 - k
  BY <1>4, <1>5
<1>7. Len(stack') = size /\ stack'[at] = v
      /\ \A i \in 1 .. size : i # at => stack'[i] = stack[i]
  <2>1. stack' = [stack EXCEPT ![at] = v] /\ at \in 1 .. Len(stack)
    BY <1>3, <1>4, <1>6
  <2>2. Len(stack') = Len(stack) /\ stack'[at] = v
        /\ \A i \in 1 .. Len(stack) : i # at => stack'[i] = stack[i]
    BY <1>1, <2>1, Replacing
  <2> QED
    BY <1>4, <2>2
<1> HIDE DEF n
<1>8. ASSUME NEW i \in DOMAIN frames, i # n
      PROVE  ActOf(stack', frames'[i]) = ActOf(stack, frames[i])
  <2>1. i < n
    <3>1. i \in 1 .. n
      BY <1>2
    <3> QED
      BY <1>2, <1>8, <3>1
  <2>2. PICK b \in Nat, a \in Nat, l \in Nat :
          /\ b = frames[i].base /\ a = frames[i].argc /\ l = Locals(frames[i])
          /\ b + a + l + 1 <= base
    BY <1>4, <2>1, Place DEF n
  <2>3. ASSUME NEW p \in b .. b + a + l
        PROVE  stack'[Len(stack') - p] = stack[Len(stack) - p]
    <3>1. size - p \in 1 .. size /\ size - p # at
      BY <1>4, <1>5, <1>6, <2>2
    <3> QED
      BY <1>4, <1>7, <3>1
  <2> QED
    BY <2>2, <2>3, SamePlace, Agreeing
<1>9. ActOf(stack', frames'[n]) = [ActOf(stack, Top) EXCEPT !.locals = [@ EXCEPT ![k] = v]]
  <2>1. /\ frames'[n].argc = argc /\ frames'[n].base = base /\ Locals(frames'[n]) = locals
    BY <1>2, <1>4, SamePlace
  <2>2. ActOf(stack', frames'[n]) =
          [args |-> [j \in 1 .. argc |-> stack'[size - (base + argc - j)]],
           locals |-> [m \in 1 .. locals |-> stack'[size - (base + argc + m)]]]
    BY <1>7, <2>1 DEF ActOf
  <2>3. ActOf(stack, Top) =
          [args |-> [j \in 1 .. argc |-> stack[size - (base + argc - j)]],
           locals |-> [m \in 1 .. locals |-> stack[size - (base + argc + m)]]]
    BY <1>4 DEF ActOf
  <2>4. \A j \in 1 .. argc : size - (base + argc - j) \in 1 .. size
                             /\ size - (base + argc - j) # at
    BY <1>4, <1>5, <1>6
  <2>5. [j \in 1 .. argc |-> stack'[size - (base + argc - j)]] =
        [j \in 1 .. argc |-> stack[size - (base + argc - j)]]
    BY <1>7, <2>4
  <2>6. \A m \in 1 .. locals : size - (base + argc + m) \in 1 .. size
                               /\ (size - (base + argc + m) = at <=> m = k)
    BY <1>4, <1>5, <1>6
  <2>7. \A m \in 1 .. locals : stack'[size - (base + argc + m)] =
                                   IF m = k THEN v ELSE stack[size - (base + argc + m)]
    BY <1>7, <2>6
  <2>8. [m \in 1 .. locals |-> stack'[size - (base + argc + m)]] =
        [[m \in 1 .. locals |-> stack[size - (base + argc + m)]] EXCEPT ![k] = v]
    BY <1>5, <2>7
  <2>9. PICK as, ls, ms :
          /\ as = [j \in 1 .. argc |-> stack[size - (base + argc - j)]]
          /\ ls = [m \in 1 .. locals |-> stack[size - (base + argc + m)]]
          /\ ms = [ls EXCEPT ![k] = v]
    OBVIOUS
  <2>10. ActOf(stack, Top) = [args |-> as, locals |-> ls]
         /\ ActOf(stack', frames'[n]) = [args |-> as, locals |-> ms]
    BY <2>2, <2>3, <2>5, <2>8, <2>9
  <2>11. [ActOf(stack, Top) EXCEPT !.locals = ms] = [args |-> as, locals |-> ms]
    <3>1. \A act : act = [args |-> as, locals |-> ls] =>
                  [act EXCEPT !.locals = ms] = [args |-> as, locals |-> ms]
      BY WithLocals
    <3> QED
      BY <2>10, <3>1
  <2>12. ActOf(stack, Top).locals = ls
    BY <2>10
  <2> QED
    BY <2>9, <2>10, <2>11, <2>12
<1>10. \A i \in DOMAIN frames :
         ActOf(stack', frames'[i]) =
            IF i = n
            THEN [ActOf(stack, Top) EXCEPT !.locals = [@ EXCEPT ![k] = v]]
            ELSE ActOf(stack, frames[i])
  BY <1>8, <1>9
<1> QED
  BY <1>2, <1>10, SamePlace DEF n

\* Enter gives the innermost activation its locals.
LEMMA EnteredActs ==
    ASSUME StackInv, Enter
    PROVE  /\ DOMAIN frames' = DOMAIN frames /\ frames # <<>> /\ Locals(Top) = 0
           /\ NumLocals[Top.block] \in Nat \ {0} /\ Top.block \in Block
           /\ \A i \in DOMAIN frames :
                ActOf(stack', frames'[i]) =
                  IF i = Len(frames)
                  THEN [ActOf(stack, Top) EXCEPT !.locals =
                           [k \in 1 .. NumLocals[Top.block] |-> Crash]]
                  ELSE ActOf(stack, frames[i])
<1> DEFINE n == Len(frames)
<1>1. /\ frames' \in Seq(Shape) /\ Len(frames') = n
      /\ \A i \in 1 .. n : i # n => frames'[i] = frames[i]
      /\ SameFrame(frames'[n], Top) /\ Entered(frames'[n])
      /\ Len(stack') = NumLocals[Top.block] + Len(stack)
      /\ \A i \in 1 .. NumLocals[Top.block] : stack'[i] = Crash
      /\ \A i \in 1 .. Len(stack) : stack'[NumLocals[Top.block] + i] = stack[i]
  BY EnterFrame
<1>2. /\ frames # <<>> /\ ~Entered(Top) /\ NumLocals[Top.block] \in Nat \ {0}
  BY AtEnter DEF Enter
<1>3. /\ n \in DOMAIN frames /\ DOMAIN frames = 1 .. n /\ Top = frames[n] /\ n \in Nat
      /\ DOMAIN frames' = 1 .. n /\ Locals(Top) = 0 /\ Top.block \in Block
      /\ Locals(frames'[n]) = NumLocals[Top.block]
  BY <1>1, <1>2, TopFacts, FrameFacts, SequenceFacts DEF Locals, SameFrame
<1>4. PICK base \in Nat, argc \in Nat, size \in Nat, N \in Nat :
        /\ base = Top.base /\ argc = Top.argc /\ size = Len(stack)
        /\ size = base + argc + 0 + 1 /\ N = NumLocals[Top.block]
  BY <1>2, <1>3, Place
<1> HIDE DEF n
<1>5. /\ Len(stack') = N + size
      /\ \A i \in 1 .. N : stack'[i] = Crash
      /\ \A i \in 1 .. size : stack'[N + i] = stack[i]
  BY <1>1, <1>4
<1>6. \A p \in 0 .. size - 1 : stack'[Len(stack') - p] = stack[Len(stack) - p]
  <2> SUFFICES ASSUME NEW p \in 0 .. size - 1
               PROVE  stack'[Len(stack') - p] = stack[Len(stack) - p]
    OBVIOUS
  <2>1. size - p \in 1 .. size /\ (N + size) - p = N + (size - p)
    BY <1>4
  <2> QED
    BY <1>4, <1>5, <2>1
<1>7. ASSUME NEW i \in DOMAIN frames, i # n
      PROVE  ActOf(stack', frames'[i]) = ActOf(stack, frames[i])
  <2>1. frames'[i] = frames[i]
    BY <1>1, <1>3, <1>7
  <2>2. PICK b \in Nat, a \in Nat, l \in Nat :
          /\ b = frames[i].base /\ a = frames[i].argc /\ l = Locals(frames[i])
          /\ b + a + l + 1 <= size
    BY <1>4, Place
  <2>3. ASSUME NEW p \in b .. b + a + l
        PROVE  stack'[Len(stack') - p] = stack[Len(stack) - p]
    <3>1. p \in 0 .. size - 1
      BY <2>2
    <3> QED
      BY <1>6, <3>1
  <2> QED
    BY <2>1, <2>2, <2>3, Agreeing
<1>8. ActOf(stack', frames'[n]) =
        [ActOf(stack, Top) EXCEPT !.locals = [k \in 1 .. NumLocals[Top.block] |-> Crash]]
  <2>1. frames'[n].argc = argc /\ frames'[n].base = base /\ Locals(frames'[n]) = N
    BY <1>1, <1>3, <1>4 DEF SameFrame
  <2>2. ActOf(stack', frames'[n]) =
          [args |-> [j \in 1 .. argc |-> stack'[Len(stack') - (base + argc - j)]],
           locals |-> [m \in 1 .. N |-> stack'[Len(stack') - (base + argc + m)]]]
    BY <2>1 DEF ActOf
  <2>3. ActOf(stack, Top) =
          [args |-> [j \in 1 .. argc |-> stack[Len(stack) - (base + argc - j)]],
           locals |-> [m \in 1 .. 0 |-> stack[Len(stack) - (base + argc + m)]]]
    BY <1>3, <1>4 DEF ActOf
  <2>4. \A j \in 1 .. argc : base + argc - j \in 0 .. size - 1
    BY <1>4
  <2>5. [j \in 1 .. argc |-> stack'[Len(stack') - (base + argc - j)]] =
        [j \in 1 .. argc |-> stack[Len(stack) - (base + argc - j)]]
    BY <1>6, <2>4
  <2>6. \A m \in 1 .. N : (N + size) - (base + argc + m) \in 1 .. N
    BY <1>4
  <2>7. [m \in 1 .. N |-> stack'[Len(stack') - (base + argc + m)]] = [k \in 1 .. N |-> Crash]
    BY <1>5, <2>6
  <2>8. PICK as, ls, ms :
          /\ as = [j \in 1 .. argc |-> stack[Len(stack) - (base + argc - j)]]
          /\ ls = [m \in 1 .. 0 |-> stack[Len(stack) - (base + argc + m)]]
          /\ ms = [k \in 1 .. N |-> Crash]
    OBVIOUS
  <2>9. ActOf(stack, Top) = [args |-> as, locals |-> ls]
        /\ ActOf(stack', frames'[n]) = [args |-> as, locals |-> ms]
    BY <2>2, <2>3, <2>5, <2>7, <2>8
  <2>10. [ActOf(stack, Top) EXCEPT !.locals = ms] = [args |-> as, locals |-> ms]
    <3>1. \A act : act = [args |-> as, locals |-> ls] =>
                  [act EXCEPT !.locals = ms] = [args |-> as, locals |-> ms]
      BY WithLocals
    <3> QED
      BY <2>9, <3>1
  <2> QED
    BY <1>4, <2>8, <2>9, <2>10
<1> QED
  BY <1>2, <1>3, <1>7, <1>8 DEF n

\* An interpreter that ends leaves the others what they had.
LEMMA EndedActs ==
    ASSUME StackInv, End
    PROVE  /\ frames # <<>> /\ DOMAIN frames' = 1 .. Len(frames) - 1
           /\ \A i \in 1 .. Len(frames) - 1 :
                ActOf(stack', frames'[i]) = ActOf(stack, frames[i])
<1> DEFINE n == Len(frames)
           gone == NumLocals[Top.block] + Top.argc + 1
<1>1. /\ frames # <<>> /\ gone \in 0 .. Len(stack)
      /\ Len(stack') = Len(stack) - gone /\ Len(stack') = Top.base
      /\ \A i \in 1 .. Len(stack) - gone : stack'[i] = stack[gone + i]
      /\ frames' \in Seq(Shape) /\ Len(frames') = n - 1
      /\ \A i \in 1 .. n - 1 :
           /\ SameFrame(frames'[i], frames[i]) /\ frames'[i].cfr = frames[i].cfr
  BY Ending
<1>2. /\ n \in Nat \ {0} /\ DOMAIN frames = 1 .. n /\ n \in DOMAIN frames /\ Top = frames[n]
      /\ Len(stack) \in Nat /\ DOMAIN frames' = 1 .. n - 1
  BY <1>1, TopFacts, SequenceFacts
<1> HIDE DEF gone
<1>3a. PICK base \in Nat, size \in Nat : base = Top.base /\ size = Len(stack)
  BY <1>2, Place
<1>3. PICK g \in 0 .. size : base = Top.base /\ size = Len(stack) /\ g = gone
  BY <1>1, <1>3a
<1> HIDE DEF n
<1>4. base = size - g /\ Len(stack') = base
      /\ \A i \in 1 .. base : stack'[i] = stack[g + i]
  BY <1>1, <1>3
<1>5. \A p \in 0 .. base - 1 : stack'[Len(stack') - p] = stack[Len(stack) - p]
  <2> SUFFICES ASSUME NEW p \in 0 .. base - 1
               PROVE  stack'[Len(stack') - p] = stack[Len(stack) - p]
    OBVIOUS
  <2>1. base - p \in 1 .. base /\ g + (base - p) = size - p
    BY <1>4
  <2> QED
    BY <1>3, <1>4, <2>1
<1>6. ASSUME NEW i \in 1 .. n - 1
      PROVE  ActOf(stack', frames'[i]) = ActOf(stack, frames[i])
  <2>1. i \in DOMAIN frames /\ i < n
    BY <1>2
  <2>2. PICK b \in Nat, a \in Nat, l \in Nat :
          /\ b = frames[i].base /\ a = frames[i].argc /\ l = Locals(frames[i])
          /\ b + a + l + 1 <= base
    BY <1>3, <2>1, Place DEF n
  <2>3. /\ frames'[i].base = frames[i].base /\ frames'[i].argc = frames[i].argc
        /\ Locals(frames'[i]) = Locals(frames[i])
    BY <1>1 DEF SameFrame, Locals, Entered
  <2>4. ASSUME NEW p \in b .. b + a + l
        PROVE  stack'[Len(stack') - p] = stack[Len(stack) - p]
    <3>1. p \in 0 .. base - 1
      BY <2>2
    <3> QED
      BY <1>5, <3>1
  <2>5. \A p \in frames[i].base .. frames[i].base + frames[i].argc + Locals(frames[i]) :
            stack'[Len(stack') - p] = stack[Len(stack) - p]
    BY <2>2, <2>4
  <2>6. /\ frames[i].base \in Nat /\ frames[i].argc \in Nat /\ Locals(frames[i]) \in Nat
    BY <2>2
  <2> QED
    BY <2>3, <2>5, <2>6, Agreeing
<1> QED
  BY <1>1, <1>2, <1>6 DEF n

\* A nested interpreter's activation has its arguments, and the others what they had.
LEMMA NestedActs ==
    ASSUME StackInv, NEW below, Beneath(below),
           NEW block, NEW mode, NEW start, Starts(block, mode, start),
           NEW parent \in Int, NEW args \in Seq(Val),
           Nest(below, block, mode, start, parent, args)
    PROVE  /\ DOMAIN frames' = 1 .. Len(frames) + 1 /\ Len(frames) \in Nat
           /\ DOMAIN frames = 1 .. Len(frames)
           /\ \A i \in 1 .. Len(frames) : ActOf(stack', frames'[i]) = ActOf(stack, frames[i])
           /\ ActOf(stack', frames'[Len(frames) + 1]) = [args |-> args, locals |-> <<>>]
<1> DEFINE n == Len(frames)
           g == frames'[n + 1]
<1>1. /\ n \in Nat /\ frames' \in Seq(Shape) /\ Len(frames') = n + 1
      /\ \A i \in 1 .. n : frames'[i] = below[i]
      /\ ~Entered(g) /\ g.argc = Len(args) /\ g.base = Len(stack)
      /\ Len(stack') = 1 + Len(args) + Len(stack)
      /\ \A j \in 1 .. Len(args) : stack'[1 + j] = args[j]
      /\ \A i \in 1 .. Len(stack) : stack'[1 + Len(args) + i] = stack[i]
      /\ Len(args) \in Nat /\ Len(stack) \in Nat
  BY Nesting
<1>2. DOMAIN frames = 1 .. n /\ DOMAIN frames' = 1 .. n + 1 /\ Locals(g) = 0
  BY <1>1, SequenceFacts DEF StackInv, Shaped, Locals
<1>3. PICK size \in Nat, argc \in Nat : size = Len(stack) /\ argc = Len(args)
  BY <1>1
<1> HIDE DEF n, g
<1>4. /\ Len(stack') = 1 + argc + size
      /\ \A j \in 1 .. argc : stack'[1 + j] = args[j]
      /\ \A i \in 1 .. size : stack'[1 + argc + i] = stack[i]
  BY <1>1, <1>3
<1>5. \A p \in 0 .. size - 1 : stack'[Len(stack') - p] = stack[Len(stack) - p]
  <2> SUFFICES ASSUME NEW p \in 0 .. size - 1
               PROVE  stack'[Len(stack') - p] = stack[Len(stack) - p]
    OBVIOUS
  <2>1. size - p \in 1 .. size /\ (1 + argc + size) - p = 1 + argc + (size - p)
    OBVIOUS
  <2> QED
    BY <1>3, <1>4, <2>1
<1>6. ASSUME NEW i \in 1 .. n
      PROVE  ActOf(stack', frames'[i]) = ActOf(stack, frames[i])
  <2>1. SameFrame(below[i], frames[i]) /\ below[i].cfr = frames[i].cfr /\ frames'[i] = below[i]
    BY <1>1 DEF Beneath, n
  <2>2. /\ frames[i].base \in Nat /\ frames[i].argc \in Nat /\ Locals(frames[i]) \in Nat
        /\ frames[i].base + frames[i].argc + Locals(frames[i]) + 1 <= size
    <3>1. i \in DOMAIN frames
      BY <1>2
    <3>2. PICK b \in Nat, a \in Nat, l \in Nat :
            /\ b = frames[i].base /\ a = frames[i].argc /\ l = Locals(frames[i])
            /\ b + a + l + 1 <= Len(stack)
      BY <3>1, Place
    <3> QED
      BY <3>2, <1>3
  <2>3. /\ frames'[i].base = frames[i].base /\ frames'[i].argc = frames[i].argc
        /\ Locals(frames'[i]) = Locals(frames[i])
    BY <2>1 DEF SameFrame, Locals, Entered
  <2>4. PICK s, t, u, v : s = stack /\ t = stack' /\ u = frames[i] /\ v = frames'[i]
    OBVIOUS
  <2>5. \A p \in 0 .. size - 1 : t[Len(t) - p] = s[Len(s) - p]
    BY <1>5, <2>4
  <2>6. /\ v.argc = u.argc /\ v.base = u.base /\ Locals(v) = Locals(u)
        /\ u.argc \in Nat /\ u.base \in Nat /\ Locals(u) \in Nat
        /\ u.base + u.argc + Locals(u) + 1 <= size
    BY <2>2, <2>3, <2>4
  <2>7. ActOf(t, v) = ActOf(s, u)
    BY <2>5, <2>6, AgreeingBelow
  <2> QED
    BY <2>4, <2>7
<1>7. ActOf(stack', g) = [args |-> args, locals |-> <<>>]
  <2>1. ActOf(stack', g) =
          [args |-> [j \in 1 .. argc |-> stack'[(1 + argc + size) - (size + argc - j)]],
           locals |-> [k \in 1 .. 0 |-> stack'[(1 + argc + size) - (size + argc + k)]]]
    BY <1>1, <1>2, <1>3, <1>4 DEF ActOf
  <2>2. \A j \in 1 .. argc : (1 + argc + size) - (size + argc - j) = 1 + j
    OBVIOUS
  <2>3. [j \in 1 .. argc |-> stack'[(1 + argc + size) - (size + argc - j)]] = args
    <3>1. args = [j \in 1 .. argc |-> args[j]]
      BY <1>3
    <3> QED
      BY <1>4, <2>2, <3>1
  <2>4. [k \in 1 .. 0 |-> stack'[(1 + argc + size) - (size + argc + k)]] = <<>>
    OBVIOUS
  <2> QED
    BY <2>1, <2>3, <2>4
<1> QED
  BY <1>1, <1>2, <1>6, <1>7 DEF n, g

-----------------------------------------------------------------------------
(* The stack of activations                                                *)

Abstract == [i \in DOMAIN frames |-> ActivationOf(i)]

LEMMA AbstractIs == StackInv => Abstract = Acts(stack, frames)
  BY ActsAre DEF Abstract

LEMMA AbstractNext == (StackInv => Abstract = Acts(stack, frames))'
  BY AbstractIs, PTL

LEMMA AbstractFacts ==
    ASSUME StackInv, frames # <<>>, NEW acts, acts = Acts(stack, frames)
    PROVE  LET n == Len(frames) IN
           /\ n \in Nat \ {0} /\ n \in 1 .. n /\ DOMAIN acts = 1 .. n
           /\ DOMAIN frames = 1 .. n
           /\ Len(acts) = n /\ acts # <<>> /\ acts = [i \in 1 .. n |-> acts[i]]
           /\ \A i \in 1 .. n : acts[i] = ActOf(stack, frames[i])
           /\ acts[n] = ActOf(stack, Top) /\ Top = frames[n]
           /\ Locals(Top) \in Nat
           /\ DOMAIN acts[n].locals = 1 .. Locals(Top) /\ Len(acts[n].locals) = Locals(Top)
           /\ acts[n].locals =
                [k \in 1 .. Locals(Top) |-> stack[Len(stack) - (Top.base + Top.argc + k)]]
           /\ Locals(Top) = 0 => acts[n].locals = <<>>
<1> DEFINE n == Len(frames)
<1>1. n \in Nat \ {0} /\ n \in 1 .. n /\ DOMAIN frames = 1 .. n /\ Top = frames[n]
  BY TopFacts
<1>2. Locals(Top) \in Nat
  BY <1>1, Place
<1>3. acts = [i \in 1 .. n |-> ActOf(stack, frames[i])]
  BY <1>1 DEF Acts
<1> HIDE DEF n
<1>4. DOMAIN acts = 1 .. n /\ Len(acts) = n /\ acts # <<>>
      /\ acts = [i \in 1 .. n |-> acts[i]] /\ acts[n] = ActOf(stack, Top)
      /\ \A i \in 1 .. n : acts[i] = ActOf(stack, frames[i])
  BY <1>1, <1>3
<1>5. ActOf(stack, Top).locals =
        [k \in 1 .. Locals(Top) |-> stack[Len(stack) - (Top.base + Top.argc + k)]]
  BY DEF ActOf
<1>6. PICK l \in Nat : l = Locals(Top)
  BY <1>2
<1>7. PICK locals : locals = acts[n].locals
  OBVIOUS
<1>8. locals = [k \in 1 .. l |-> stack[Len(stack) - (Top.base + Top.argc + k)]]
  BY <1>4, <1>5, <1>6, <1>7
<1>9. DOMAIN locals = 1 .. l /\ Len(locals) = l /\ (l = 0 => locals = <<>>)
  BY <1>8
<1> QED
  BY <1>1, <1>2, <1>4, <1>6, <1>7, <1>8, <1>9 DEF n

LEMMA QuietMaps ==
    ASSUME StackInv, Quiet, NEW acts, NEW next,
           acts = Acts(stack, frames), next = Acts(stack', frames')
    PROVE  \/ next = acts
           \/ /\ acts # <<>>
              /\ \E k \in DOMAIN acts[Len(acts)].locals, v \in Val :
                    next = [acts EXCEPT ![Len(acts)].locals[k] = v]
<1>1. CASE stack' = stack
  BY <1>1, UnchangedActs DEF Quiet
<1>2. CASE WritesLocal(NumLocals[Top.block])
  <2> DEFINE n == Len(frames)
  <2>1. PICK k \in 1 .. Locals(Top), v \in Val :
          /\ DOMAIN frames' = DOMAIN frames
          /\ \A i \in DOMAIN frames :
               ActOf(stack', frames'[i]) =
                  IF i = n
                  THEN [ActOf(stack, Top) EXCEPT !.locals = [@ EXCEPT ![k] = v]]
                  ELSE ActOf(stack, frames[i])
    BY <1>2, WrittenActs DEF Quiet
  <2>2. frames # <<>>
    BY DEF Quiet, InPlace
  <2>3. /\ n \in 1 .. n /\ DOMAIN frames = 1 .. n /\ Len(acts) = n /\ acts # <<>>
        /\ acts = [i \in 1 .. n |-> acts[i]]
        /\ \A i \in 1 .. n : acts[i] = ActOf(stack, frames[i])
        /\ acts[n] = ActOf(stack, Top) /\ DOMAIN acts[n].locals = 1 .. Locals(Top)
    BY <2>2, AbstractFacts
  <2> HIDE DEF n
  <2>4. next = [i \in 1 .. n |-> ActOf(stack', frames'[i])]
    BY <2>1, <2>3 DEF Acts
  <2>5. PICK a : a = [acts[Len(acts)] EXCEPT !.locals = [@ EXCEPT ![k] = v]]
    OBVIOUS
  <2>6. next = [i \in 1 .. n |-> next[i]] /\
        \A i \in 1 .. n : next[i] = IF i = Len(acts) THEN a ELSE acts[i]
    <3>1. a = [ActOf(stack, Top) EXCEPT !.locals = [@ EXCEPT ![k] = v]]
      <4>1. acts[Len(acts)] = ActOf(stack, Top)
        BY <2>3
      <4> QED
        BY <2>5, <4>1
    <3>2. \A i \in 1 .. n : ActOf(stack', frames'[i]) = IF i = n THEN a ELSE acts[i]
      BY <2>1, <2>3, <3>1
    <3> QED
      BY <2>3, <2>4, <3>2
  <2>7. next = [acts EXCEPT ![Len(acts)] = a]
    BY <2>3, <2>6
  <2>8. [acts EXCEPT ![Len(acts)].locals[k] = v] = [acts EXCEPT ![Len(acts)] = a]
    BY <2>5
  <2>9. next = [acts EXCEPT ![Len(acts)].locals[k] = v]
    BY <2>7, <2>8
  <2>10. k \in DOMAIN acts[Len(acts)].locals /\ acts # <<>>
    BY <2>3
  <2>11. \E m \in DOMAIN acts[Len(acts)].locals, w \in Val :
            next = [acts EXCEPT ![Len(acts)].locals[m] = w]
    <3> USE <2>10
    <3> WITNESS k \in DOMAIN acts[Len(acts)].locals, v \in Val
    <3> QED
      BY <2>9
  <2> QED
    BY <2>10, <2>11
<1> QED
  BY <1>1, <1>2 DEF Quiet

LEMMA EnterMaps ==
    ASSUME StackInv, Enter, NEW acts, NEW next,
           acts = Acts(stack, frames), next = Acts(stack', frames')
    PROVE  /\ acts # <<>> /\ acts[Len(acts)].locals = <<>>
           /\ \E m \in 1 .. MaxLocals :
                 next = [acts EXCEPT ![Len(acts)].locals = [i \in 1 .. m |-> Crash]]
<1> DEFINE n == Len(frames)
           N == NumLocals[Top.block]
<1>1. /\ DOMAIN frames' = DOMAIN frames /\ frames # <<>> /\ Locals(Top) = 0
      /\ N \in Nat \ {0} /\ Top.block \in Block
      /\ \A i \in DOMAIN frames :
           ActOf(stack', frames'[i]) =
             IF i = n
             THEN [ActOf(stack, Top) EXCEPT !.locals = [k \in 1 .. N |-> Crash]]
             ELSE ActOf(stack, frames[i])
  BY EnteredActs
<1>2. /\ n \in 1 .. n /\ DOMAIN frames = 1 .. n /\ Len(acts) = n /\ acts # <<>>
      /\ acts = [i \in 1 .. n |-> acts[i]]
      /\ \A i \in 1 .. n : acts[i] = ActOf(stack, frames[i])
      /\ acts[n] = ActOf(stack, Top) /\ acts[n].locals = <<>>
  BY <1>1, AbstractFacts
<1>3. N \in 1 .. MaxLocals
  <2> DEFINE Counts == {NumLocals[b] : b \in Block}
  <2>1. \E m \in Counts : \A b \in Block : NumLocals[b] <= m
    BY InterpreterAssumption
  <2>2. MaxLocals \in Counts /\ \A b \in Block : NumLocals[b] <= MaxLocals
    BY <2>1 DEF MaxLocals
  <2>3. \A m \in Counts : m \in Nat
    BY InterpreterAssumption
  <2> HIDE DEF Counts
  <2> QED
    BY <1>1, <2>2, <2>3
<1> HIDE DEF n, N
<1>4. next = [i \in 1 .. n |-> ActOf(stack', frames'[i])]
  BY <1>1, <1>2 DEF Acts
<1>5. PICK ls : ls = [i \in 1 .. N |-> Crash]
  OBVIOUS
<1>6. PICK a : a = [acts[n] EXCEPT !.locals = ls]
  OBVIOUS
<1>7. next = [i \in 1 .. n |-> next[i]] /\
      \A i \in 1 .. n : next[i] = IF i = n THEN a ELSE acts[i]
  <2>1. a = [ActOf(stack, Top) EXCEPT !.locals = ls]
    BY <1>2, <1>6
  <2>2. \A i \in 1 .. n : ActOf(stack', frames'[i]) = IF i = n THEN a ELSE acts[i]
    BY <1>1, <1>2, <1>5, <2>1
  <2> QED
    BY <1>4, <2>2
<1>8. next = [acts EXCEPT ![n] = a]
  BY <1>2, <1>7
<1>9. [acts EXCEPT ![n].locals = ls] = [acts EXCEPT ![n] = a]
  BY <1>6
<1> QED
  BY <1>2, <1>3, <1>5, <1>8, <1>9

LEMMA EndMaps ==
    ASSUME StackInv, End, NEW acts, NEW next,
           acts = Acts(stack, frames), next = Acts(stack', frames')
    PROVE  acts # <<>> /\ next = SubSeq(acts, 1, Len(acts) - 1)
<1> DEFINE n == Len(frames)
<1>1. /\ frames # <<>> /\ DOMAIN frames' = 1 .. n - 1
      /\ \A i \in 1 .. n - 1 : ActOf(stack', frames'[i]) = ActOf(stack, frames[i])
  BY EndedActs
<1>2. /\ n \in Nat \ {0} /\ Len(acts) = n /\ acts # <<>> /\ acts = [i \in 1 .. n |-> acts[i]]
      /\ \A i \in 1 .. n : acts[i] = ActOf(stack, frames[i])
  BY <1>1, AbstractFacts
<1> HIDE DEF n
<1>3. next = [i \in 1 .. n - 1 |-> ActOf(stack', frames'[i])]
  BY <1>1 DEF Acts
<1>4. \A i \in 1 .. n - 1 : i \in 1 .. n /\ 1 + i - 1 = i
  BY <1>2
<1>5. next = [i \in 1 .. n - 1 |-> acts[i]]
  BY <1>1, <1>2, <1>3, <1>4
<1>6. SubSeq(acts, 1, n - 1) = [i \in 1 .. n - 1 |-> acts[i]]
  <2>1. PICK m \in Nat : m = n - 1
    BY <1>2
  <2>2. SubSeq(acts, 1, m) = [i \in 1 .. m - 1 + 1 |-> acts[1 + i - 1]]
    OBVIOUS
  <2>3. m - 1 + 1 = m /\ \A i \in 1 .. m : 1 + i - 1 = i
    OBVIOUS
  <2>4. SubSeq(acts, 1, m) = [i \in 1 .. m |-> acts[i]]
    BY <2>2, <2>3
  <2> QED
    BY <2>1, <2>4
<1> QED
  BY <1>2, <1>5, <1>6

LEMMA NestsMaps ==
    ASSUME StackInv, Nests, NEW acts, NEW next,
           acts = Acts(stack, frames), next = Acts(stack', frames')
    PROVE  \/ next = Append(acts, [args |-> <<>>, locals |-> <<>>])
           \/ /\ acts # <<>>
              /\ LET locals == acts[Len(acts)].locals IN
                 \E first \in DOMAIN locals, argc \in 1 .. Len(locals) :
                    /\ first + argc - 1 <= Len(locals)
                    /\ next = Append(acts, [args |-> SubSeq(locals, first, first + argc - 1),
                                            locals |-> <<>>])
<1> DEFINE n == Len(frames)
<1>1. PICK below \in Seq(Shape), block \in Block, mode \in {"check", "run"}, start \in Nat,
           parent \in Int, args \in Seq(Val) :
        /\ Beneath(below) /\ Starts(block, mode, start) /\ PassesLocals(args)
        /\ Nest(below, block, mode, start, parent, args)
  BY DEF Nests
<1>2. /\ DOMAIN frames' = 1 .. n + 1 /\ n \in Nat /\ DOMAIN frames = 1 .. n
      /\ \A i \in 1 .. n : ActOf(stack', frames'[i]) = ActOf(stack, frames[i])
      /\ ActOf(stack', frames'[n + 1]) = [args |-> args, locals |-> <<>>]
  BY <1>1, NestedActs
<1>3. PICK a : a = [args |-> args, locals |-> <<>>]
  OBVIOUS
<1>4. next = Append(acts, a)
  <2>1. PICK m \in Nat : m = n
    BY <1>2
  <2>2. /\ acts = [i \in 1 .. m |-> ActOf(stack, frames[i])]
        /\ next = [i \in 1 .. m + 1 |-> ActOf(stack', frames'[i])]
    BY <1>2, <2>1 DEF Acts
  <2> HIDE DEF n
  <2>3. \A i \in 1 .. m + 1 : i \in 1 .. m \/ i = m + 1
    OBVIOUS
  <2>4. \A i \in 1 .. m + 1 : next[i] = IF i = m + 1 THEN a ELSE acts[i]
    BY <1>2, <1>3, <2>1, <2>2, <2>3
  <2>5. next = [i \in 1 .. m + 1 |-> IF i = m + 1 THEN a ELSE acts[i]]
    BY <2>2, <2>4
  <2>6. /\ DOMAIN acts = 1 .. m /\ Len(acts) = m
        /\ acts = [i \in 1 .. m |-> acts[i]]
    BY <2>2
  <2>7. Append(acts, a) = [i \in 1 .. m + 1 |-> IF i = m + 1 THEN a ELSE acts[i]]
    <3>1. PICK S : acts \in [1 .. m -> S] /\ a \in S
      <4> WITNESS {acts[i] : i \in 1 .. m} \union {a}
      <4> QED
        BY <2>6
    <3>2. acts \in Seq(S) /\ Len(acts) = m
      BY <3>1, FunctionIsSequence
    <3>3. PICK t : t = Append(acts, a)
      OBVIOUS
    <3>4. t \in Seq(S) /\ Len(t) = m + 1 /\ t[m + 1] = a /\ \A i \in 1 .. m : t[i] = acts[i]
      BY <3>1, <3>2, <3>3, Appending
    <3>5. DOMAIN t = 1 .. m + 1 /\ t = [i \in 1 .. m + 1 |-> t[i]]
      BY <3>4
    <3>6. \A i \in 1 .. m + 1 : t[i] = IF i = m + 1 THEN a ELSE acts[i]
      BY <2>3, <3>4
    <3> QED
      BY <3>3, <3>5, <3>6
  <2> QED
    BY <2>5, <2>7
<1>5. CASE args = <<>>
  BY <1>3, <1>4, <1>5
<1>6. CASE args # <<>>
  <2>1. PICK first \in Nat, argc \in Nat \ {0} :
          /\ frames # <<>> /\ Entered(Top)
          /\ Top.cfr.index = NumLocals[Top.block] + 1
          /\ \A i \in 1 .. argc : first + i - 1 \in 1 .. NumLocals[Top.block]
          /\ args = [i \in 1 .. argc |-> LocalOf(Top, first + i - 1)]
    BY <1>1, <1>6 DEF PassesLocals
  <2>2. /\ n \in 1 .. n /\ DOMAIN frames = 1 .. n /\ Len(acts) = n /\ acts # <<>> /\ Top = frames[n]
        /\ Locals(Top) \in Nat /\ Locals(Top) = NumLocals[Top.block]
        /\ DOMAIN acts[n].locals = 1 .. Locals(Top) /\ Len(acts[n].locals) = Locals(Top)
        /\ acts[n].locals =
             [k \in 1 .. Locals(Top) |-> stack[Len(stack) - (Top.base + Top.argc + k)]]
    BY <2>1, AbstractFacts DEF Locals
  <2>3. PICK b \in Nat, g \in Nat, l \in Nat, size \in Nat :
          /\ b = Top.base /\ g = Top.argc /\ l = Locals(Top) /\ size = Len(stack)
          /\ size = b + g + l + 1
    BY <2>2, Place
  <2> HIDE DEF n
  <2>4. PICK locals : locals = acts[n].locals
    OBVIOUS
  <2>5. /\ locals = [k \in 1 .. l |-> stack[size - (b + g + k)]]
        /\ DOMAIN locals = 1 .. l /\ Len(locals) = l
    BY <2>2, <2>3, <2>4
  <2>6. \A i \in 1 .. argc : first + i - 1 \in 1 .. l
    BY <2>1, <2>2, <2>3
  <2>7. first \in 1 .. l /\ argc \in 1 .. l /\ first + argc - 1 <= l
    <3>1. first + 1 - 1 \in 1 .. l /\ first + argc - 1 \in 1 .. l
      BY <2>6
    <3> QED
      BY <3>1
  <2>8. \A r \in 1 .. l : LocalOf(Top, r) = locals[r]
    <3> SUFFICES ASSUME NEW r \in 1 .. l PROVE LocalOf(Top, r) = locals[r]
      OBVIOUS
    <3>1. Top.cfr.index = l + 1
      BY <2>1, <2>2, <2>3
    <3>2. size - (b + g + r) = l + 1 - r
      <4>1. size = b + g + l + 1
        BY <2>3
      <4> QED
        BY <4>1
    <3>3. locals[r] = stack[l + 1 - r]
      BY <2>5, <3>2
    <3> QED
      BY <3>1, <3>3 DEF LocalOf
  <2>9. args = [i \in 1 .. argc |-> locals[first + i - 1]]
    BY <2>1, <2>6, <2>8
  <2>10. SubSeq(locals, first, first + argc - 1) = [i \in 1 .. argc |-> locals[first + i - 1]]
    <3>1. SubSeq(locals, first, first + argc - 1) =
            [i \in 1 .. (first + argc - 1) - first + 1 |-> locals[first + i - 1]]
      OBVIOUS
    <3>2. (first + argc - 1) - first + 1 = argc
      OBVIOUS
    <3> QED
      BY <3>1, <3>2
  <2>11. args = SubSeq(locals, first, first + argc - 1)
    BY <2>9, <2>10
  <2>12. next = Append(acts, [args |-> SubSeq(locals, first, first + argc - 1), locals |-> <<>>])
    BY <1>3, <1>4, <2>11
  <2>13. locals = acts[Len(acts)].locals
    BY <2>2, <2>4
  <2> QED
    BY <2>2, <2>5, <2>7, <2>12, <2>13
<1> QED
  BY <1>5, <1>6

\* Every step of the interpreters is a step of the activations, or none.
LEMMA StepMaps ==
    ASSUME StackInv, StackInv', [Next]_vars
    PROVE  [A!ActivationsNext]_Abstract
<1>1. Abstract = Acts(stack, frames) /\ Abstract' = Acts(stack', frames')
  BY AbstractIs, AbstractNext
<1>2. CASE Next
  <2>1. CASE Quiet
    <3>1. \/ Abstract' = Abstract
          \/ /\ Abstract # <<>>
             /\ \E k \in DOMAIN Abstract[Len(Abstract)].locals, v \in Val :
                   Abstract' = [Abstract EXCEPT ![Len(Abstract)].locals[k] = v]
      BY <1>1, <2>1, QuietMaps
    <3>2. Abstract' = Abstract \/ A!WriteNext
      BY <3>1 DEF Abstract, A!WriteNext
    <3> QED
      BY <3>2 DEF A!ActivationsNext
  <2>2. CASE Nests
    <3>1. \/ Abstract' = Append(Abstract, [args |-> <<>>, locals |-> <<>>])
          \/ /\ Abstract # <<>>
             /\ LET locals == Abstract[Len(Abstract)].locals IN
                \E first \in DOMAIN locals, argc \in 1 .. Len(locals) :
                   /\ first + argc - 1 <= Len(locals)
                   /\ Abstract' =
                        Append(Abstract, [args |-> SubSeq(locals, first, first + argc - 1),
                                          locals |-> <<>>])
      BY <1>1, <2>2, NestsMaps
    <3>2. A!InvokeNext
      BY <3>1 DEF Abstract, A!InvokeNext, A!Invoke, A!Passed
    <3> QED
      BY <3>2 DEF A!ActivationsNext
  <2>3. CASE Enter
    <3>1. /\ Abstract # <<>> /\ Abstract[Len(Abstract)].locals = <<>>
          /\ \E m \in 1 .. MaxLocals :
                Abstract' = [Abstract EXCEPT ![Len(Abstract)].locals =
                                [i \in 1 .. m |-> Crash]]
      BY <1>1, <2>3, EnterMaps
    <3>2. A!EnterNext
      BY <3>1 DEF Abstract, A!EnterNext
    <3> QED
      BY <3>2 DEF A!ActivationsNext
  <2>4. CASE End
    <3>1. Abstract # <<>> /\ Abstract' = SubSeq(Abstract, 1, Len(Abstract) - 1)
      BY <1>1, <2>4, EndMaps
    <3>2. A!ReturnNext
      BY <3>1 DEF Abstract, A!ReturnNext
    <3> QED
      BY <3>2 DEF A!ActivationsNext
  <2> QED
    BY <1>2, <2>1, <2>2, <2>3, <2>4, StepKinds
<1>3. CASE UNCHANGED vars
  <2>1. Acts(stack', frames') = Acts(stack, frames)
    BY <1>3 DEF vars
  <2> QED
    BY <1>1, <2>1
<1> QED
  BY <1>2, <1>3

\* The interpreters' use of vm.stack implements a stack of activations, for any
\* programs: a call passes copies of locals of the caller, an instruction writes a
\* local of its own interpreter, and an interpreter that returns finds its own again.
THEOREM InterpretersImplementActivations == Spec => ImplementsActivations
<1>1. Init => Abstract = <<>>
  BY DEF Init, Abstract
<1>2. StackInv /\ StackInv' /\ [Next]_vars => [A!ActivationsNext]_Abstract
  BY StepMaps
<1> QED
  BY <1>1, <1>2, StackInvHolds, PTL
     DEF Spec, ImplementsActivations, A!ActivationsSpec, Abstract
=============================================================================
