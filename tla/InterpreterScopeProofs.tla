---------------------- MODULE InterpreterScopeProofs -----------------------
(***************************************************************************)
(* Proofs about the scopes that interpreters open while they check, for    *)
(* any programs whose code nests them (IsNesting): on every path through   *)
(* any number of nested interpreters they close where they were opened,    *)
(* and a program that has been checked has none left, and no error.        *)
(***************************************************************************)
EXTENDS InterpreterProofs, FiniteSetTheorems

ScopeTypes ==
    /\ scopes \in Seq(Nat)
    /\ unifications \in Seq([finalized : BOOLEAN, pending : Nat])
    /\ functions \in [Block -> Environment \union {NoEnvironment}]
    /\ typeErrors \in BOOLEAN
    /\ evals \in 0 .. MaxEvals
    /\ outcome \in Outcome

\* The chain of scopes, and the environments it makes.
ScopesAreOrdered ==
    /\ \A k \in DOMAIN scopes : scopes[k] \in DOMAIN frames
    /\ \A j, k \in DOMAIN scopes : j <= k => scopes[j] <= scopes[k]

EnvironmentsCount ==
    \A i \in DOMAIN frames :
        /\ frames[i].parent \in Nat
        /\ frames[i].environment = frames[i].parent + 1 + OpenScopes(i)

ScopesCount(depth) == \A i \in DOMAIN frames : OpenScopes(i) = DepthOf(depth, i).scopes

\* Each frame's unification scopes lie on those that were open before it.
LiesOn(depth, below) ==
    /\ below \in [1 .. Len(frames) + 1 -> Nat]
    /\ below[1] = 0 /\ below[Len(frames) + 1] = Len(unifications)
    /\ \A i \in DOMAIN frames : below[i + 1] = below[i] + DepthOf(depth, i).unifications
    /\ \A i, k \in 1 .. Len(frames) + 1 : i <= k => below[i] <= below[k]

UnificationsCount(depth) == \E below : LiesOn(depth, below)

ScopeInv(depth) ==
    /\ ScopeTypes /\ ScopesAreOrdered /\ EnvironmentsCount
    /\ ScopesCount(depth) /\ UnificationsCount(depth)
    /\ ModesNest /\ ErrorsAreReported

-----------------------------------------------------------------------------
(* Depths                                                                  *)

LEMMA DepthFacts ==
    ASSUME NEW depth, IsNesting(depth), StackInv, NEW b \in Compiled(program),
           NEW pc \in DOMAIN Code[program][b]
    PROVE  LET op == Code[program][b][pc].op
               here == depth[program][b][pc]
               next == depth[program][b][pc + 1]
           IN
           /\ here \in [scopes : Nat, unifications : Nat]
           /\ op \in {"enter", "end"} => here.scopes = 0 /\ here.unifications = 0
           /\ op \notin {"end", "runtimeError", "jump"} =>
                 /\ next.scopes = here.scopes + (IF op = "pushScope" THEN 1 ELSE
                                                 IF op = "popScope" THEN -1 ELSE 0)
                 /\ next.unifications =
                      here.unifications + (IF op = "pushUnification" THEN 1 ELSE
                                           IF op = "popUnification" THEN -1 ELSE 0)
           /\ op \in {"jump", "branch"} =>
                 depth[program][b][pc + Code[program][b][pc].by] = here
           /\ op \in Checking => pc < CodeStart[program][b]
           /\ b = Main /\ pc < CodeStart[program][b]
                /\ op \in Waiting \cup {"getLocal", "typeError"} => here.unifications > 0
  BY DEF IsNesting, CodeNests, StackInv, Shaped

\* A frame's depth, as numbers.
LEMMA FrameDepth ==
    ASSUME NEW depth, IsNesting(depth), StackInv, NEW i \in DOMAIN frames
    PROVE  /\ DepthOf(depth, i).scopes \in Nat /\ DepthOf(depth, i).unifications \in Nat
           /\ Code[program][frames[i].block][frames[i].pc].op \in {"enter", "end"} =>
                DepthOf(depth, i).scopes = 0 /\ DepthOf(depth, i).unifications = 0
           /\ Code[program][frames[i].block][frames[i].pc].op \in Checking =>
                frames[i].mode = "check"
           /\ /\ frames[i].block = Main /\ frames[i].mode = "check"
              /\ Code[program][frames[i].block][frames[i].pc].op
                   \in Waiting \cup {"getLocal", "typeError"}
              => DepthOf(depth, i).unifications > 0
<1>1. /\ frames[i].block \in Compiled(program)
      /\ frames[i].pc \in DOMAIN Code[program][frames[i].block]
      /\ FrameIsInCode(i)
  BY FrameFacts
<1>2. PICK b, pc :
        /\ b \in Compiled(program) /\ b = frames[i].block
        /\ pc = frames[i].pc /\ pc \in DOMAIN Code[program][b]
  BY <1>1
<1>3. frames[i].mode = "check" <=> pc < CodeStart[program][b]
  BY <1>1, <1>2 DEF FrameIsInCode
<1>4. DepthOf(depth, i) = depth[program][b][pc]
  BY <1>2 DEF DepthOf
<1>5. /\ depth[program][b][pc] \in [scopes : Nat, unifications : Nat]
      /\ Code[program][b][pc].op \in {"enter", "end"} =>
           depth[program][b][pc].scopes = 0 /\ depth[program][b][pc].unifications = 0
      /\ Code[program][b][pc].op \in Checking => pc < CodeStart[program][b]
      /\ b = Main /\ pc < CodeStart[program][b]
           /\ Code[program][b][pc].op \in Waiting \cup {"getLocal", "typeError"} =>
              depth[program][b][pc].unifications > 0
  <2>1. b \in Compiled(program) /\ pc \in DOMAIN Code[program][b]
    BY <1>2
  <2> QED
    BY <2>1, DepthFacts
<1> QED
  BY <1>2, <1>3, <1>4, <1>5

-----------------------------------------------------------------------------
(* Checking and running                                                    *)

\* While a program is run, no interpreter checks.
LEMMA NothingChecksInRun ==
    ASSUME NEW depth, IsNesting(depth), StackInv, ModesNest, frames # <<>>,
           outcome \in {"check", "run"}, Instruction.op \in Checking
    PROVE  outcome = "check"
<1>1. /\ Len(frames) \in Nat \ {0} /\ DOMAIN frames = 1 .. Len(frames)
      /\ Len(frames) \in DOMAIN frames /\ Top = frames[Len(frames)]
  BY TopFacts
<1>2. Top.mode = "check"
  BY <1>1, FrameDepth DEF Instruction
<1>3. CASE outcome = "run"
  <2>1. frames[1].mode = "run" /\ 1 \in DOMAIN frames
    BY <1>1, <1>3 DEF ModesNest
  <2>2. 1 < Len(frames) \/ 1 = Len(frames)
    BY <1>1
  <2>3. Top.mode = "run"
    BY <1>1, <2>1, <2>2 DEF ModesNest
  <2> QED
    BY <1>2, <2>3
<1> QED
  BY <1>3

\* While a program is checked, what can fail does so in a unification scope.
LEMMA OpenWhileChecking ==
    ASSUME NEW depth, IsNesting(depth), StackInv, ScopeInv(depth), frames # <<>>,
           outcome = "check", Instruction.op \in Waiting \cup {"getLocal", "typeError"}
    PROVE  unifications # <<>> /\ Len(unifications) \in Nat \ {0}
<1>1. /\ Len(frames) \in Nat \ {0} /\ DOMAIN frames = 1 .. Len(frames)
      /\ Len(frames) \in DOMAIN frames /\ Top = frames[Len(frames)] /\ 1 \in DOMAIN frames
  BY TopFacts
<1>2. frames[1].block = Main /\ frames[1].mode = "check"
  BY DEF ScopeInv, ModesNest
<1>3. Code[program][frames[1].block][frames[1].pc].op
        \in Waiting \cup {"getLocal", "typeError"}
  <2>1. CASE Len(frames) = 1
    BY <1>1, <2>1 DEF Instruction
  <2>2. CASE 1 < Len(frames)
    <3>1. frames[1].hold # NoHold
      BY <1>1, <2>2 DEF StackInv, RegistersAreCurrent
    <3>2. FrameIsInCode(1)
      BY <1>1, FrameFacts
    <3> QED
      BY <3>1, <3>2 DEF FrameIsInCode
  <2> QED
    BY <1>1, <2>1, <2>2
<1>4. PICK d \in Nat : d = DepthOf(depth, 1).unifications /\ d > 0
  BY <1>1, <1>2, <1>3, FrameDepth
<1>5. PICK below : LiesOn(depth, below)
  BY DEF ScopeInv, UnificationsCount
<1>6. PICK n \in Nat \ {0} : n = Len(frames)
  BY <1>1
<1>7. /\ below \in [1 .. n + 1 -> Nat] /\ below[1] = 0 /\ below[n + 1] = Len(unifications)
      /\ below[1 + 1] = below[1] + d
      /\ \A i, k \in 1 .. n + 1 : i <= k => below[i] <= below[k]
  BY <1>1, <1>4, <1>5, <1>6 DEF LiesOn
<1>8. 2 \in 1 .. n + 1 /\ n + 1 \in 1 .. n + 1 /\ 2 <= n + 1
  OBVIOUS
<1>9. below[2] = d /\ below[2] <= below[n + 1] /\ below[n + 1] \in Nat
  BY <1>4, <1>7, <1>8
<1>10. Len(unifications) \in Nat \ {0}
  BY <1>4, <1>7, <1>9
<1> QED
  BY <1>10, SequenceFacts DEF ScopeInv, ScopeTypes

-----------------------------------------------------------------------------
(* Steps that open and close no scope                                      *)

DepthAt(depth, f) == depth[program][f.block][f.pc]

Calm(depth) ==
    /\ Len(frames') = Len(frames) /\ DOMAIN frames' = DOMAIN frames
    /\ \A i \in DOMAIN frames :
          /\ SameFrame(frames'[i], frames[i])
          /\ frames'[i].environment = frames[i].environment
          /\ DepthAt(depth, frames'[i]) = DepthAt(depth, frames[i])
    /\ scopes' = scopes /\ Len(unifications') = Len(unifications)
    /\ program' = program
    /\ ScopeTypes'
    /\ outcome' \in {outcome, "exit", "late", "unknown", "spins"}
    /\ typeErrors' # typeErrors => outcome = "run" \/ unifications # <<>>

\* The modes of the frames that stay.
LEMMA ModesStay ==
    ASSUME StackInv, ModesNest, Len(frames') = Len(frames), DOMAIN frames' = DOMAIN frames,
           \A i \in DOMAIN frames : SameFrame(frames'[i], frames[i]),
           outcome' \in {outcome, "exit", "late", "unknown", "spins"}
    PROVE  ModesNest'
<1>1. /\ DOMAIN frames = 1 .. Len(frames) /\ Len(frames) \in Nat
      /\ frames # <<>> => 1 \in DOMAIN frames
      /\ frames' # <<>> => frames # <<>>
  BY SequenceFacts DEF StackInv, Shaped
<1>2. \A i \in DOMAIN frames :
        frames'[i].mode = frames[i].mode /\ frames'[i].block = frames[i].block
  BY DEF SameFrame
<1> QED
  BY <1>1, <1>2 DEF ModesNest

LEMMA ErrorsStay ==
    ASSUME NEW depth, ScopeInv(depth), ScopeTypes', Len(unifications') = Len(unifications),
           outcome' \in {outcome, "exit", "late", "unknown", "spins"},
           typeErrors' # typeErrors => outcome = "run" \/ unifications # <<>>
    PROVE  ErrorsAreReported'
<1>1. unifications' = <<>> <=> unifications = <<>>
  <2>1. /\ unifications \in Seq([finalized : BOOLEAN, pending : Nat])
        /\ unifications' \in Seq([finalized : BOOLEAN, pending : Nat])
    BY DEF ScopeInv, ScopeTypes
  <2> QED
    BY <2>1, SequenceFacts
<1> QED
  BY <1>1 DEF ScopeInv, ErrorsAreReported

LEMMA CalmKeeps ==
    ASSUME NEW depth, StackInv, ScopeInv(depth), Calm(depth)
    PROVE  ScopeInv(depth)'
<1>1. /\ Len(frames') = Len(frames) /\ DOMAIN frames' = DOMAIN frames
      /\ \A i \in DOMAIN frames :
          /\ SameFrame(frames'[i], frames[i])
          /\ frames'[i].environment = frames[i].environment
      /\ scopes' = scopes /\ Len(unifications') = Len(unifications)
      /\ program' = program /\ ScopeTypes'
  BY DEF Calm
<1>2. ASSUME NEW i \in DOMAIN frames
      PROVE  OpenScopes(i)' = OpenScopes(i) /\ DepthOf(depth, i)' = DepthOf(depth, i)
  BY <1>1 DEF Calm, OpenScopes, DepthOf, DepthAt
<1>3. ScopesAreOrdered'
  BY <1>1 DEF ScopeInv, ScopesAreOrdered
<1>4. EnvironmentsCount'
  BY <1>1, <1>2 DEF ScopeInv, EnvironmentsCount, SameFrame
<1>5. ScopesCount(depth)'
  BY <1>1, <1>2 DEF ScopeInv, ScopesCount
<1>6. UnificationsCount(depth)'
  <2>1. PICK below : LiesOn(depth, below)
    BY DEF ScopeInv, UnificationsCount
  <2>2. LiesOn(depth, below)'
    BY <1>1, <1>2, <2>1 DEF LiesOn
  <2> QED
    BY <2>2 DEF UnificationsCount
<1>7. ModesNest'
  BY <1>1, ModesStay DEF Calm, ScopeInv
<1>8. ErrorsAreReported'
  BY <1>1, ErrorsStay DEF Calm
<1> QED
  BY <1>1, <1>3, <1>4, <1>5, <1>6, <1>7, <1>8 DEF ScopeInv

\* Instructions that open and close nothing lead to others of the same depth.
LEMMA NextDepth ==
    ASSUME NEW depth, IsNesting(depth), StackInv, frames # <<>>
    PROVE  /\ Instruction.op \notin {"end", "runtimeError", "jump", "pushScope", "popScope",
                                     "pushUnification", "popUnification"} =>
                depth[program][Top.block][Top.pc + 1] = DepthAt(depth, Top)
           /\ Instruction.op \in {"jump", "branch"} =>
                depth[program][Top.block][Top.pc + Instruction.by] = DepthAt(depth, Top)
<1>1. /\ Top.block \in Compiled(program) /\ Top.pc \in DOMAIN Code[program][Top.block]
  BY TopFacts, FrameFacts
<1>2. PICK b, pc : b \in Compiled(program) /\ b = Top.block /\ pc = Top.pc
  BY <1>1
<1>3. b \in Compiled(program) /\ pc \in DOMAIN Code[program][b]
  BY <1>1, <1>2
<1>4. ASSUME Instruction.op \notin {"end", "runtimeError", "jump", "pushScope", "popScope",
                                    "pushUnification", "popUnification"}
      PROVE  depth[program][Top.block][Top.pc + 1] = DepthAt(depth, Top)
  <2>1. pc + 1 \in DOMAIN Code[program][b]
    BY <1>2, <1>4, NextInstruction
  <2>2. /\ depth[program][b][pc] \in [scopes : Nat, unifications : Nat]
        /\ depth[program][b][pc + 1].scopes = depth[program][b][pc].scopes + 0
        /\ depth[program][b][pc + 1].unifications = depth[program][b][pc].unifications + 0
    BY <1>2, <1>3, <1>4, DepthFacts DEF Instruction
  <2>3. depth[program][b][pc + 1] \in [scopes : Nat, unifications : Nat]
    BY <1>3, <2>1, DepthFacts
  <2>4. depth[program][b][pc + 1] = depth[program][b][pc]
    BY <2>2, <2>3
  <2> QED
    BY <1>2, <1>4, <2>4 DEF DepthAt
<1>5. ASSUME Instruction.op \in {"jump", "branch"}
      PROVE  depth[program][Top.block][Top.pc + Instruction.by] = DepthAt(depth, Top)
  <2>1. depth[program][b][pc + Code[program][b][pc].by] = depth[program][b][pc]
    BY <1>2, <1>3, <1>5, DepthFacts DEF Instruction
  <2> QED
    BY <1>2, <1>5, <2>1 DEF DepthAt, Instruction
<1> QED
  BY <1>4, <1>5

LEMMA TypesStay ==
    ASSUME NEW depth, ScopeInv(depth), UNCHANGED <<scopes, unifications, functions, evals>>,
           typeErrors' \in {typeErrors, TRUE},
           outcome' \in {outcome, "exit", "late", "unknown", "spins"}
    PROVE  ScopeTypes' /\ Len(unifications') = Len(unifications)
  BY DEF ScopeInv, ScopeTypes, Outcome

LEMMA TopReplaced ==
    ASSUME StackInv, frames # <<>>, NEW g \in Shape, TopBecomes(g)
    PROVE  /\ frames' \in Seq(Shape) /\ Len(frames') = Len(frames)
           /\ frames'[Len(frames)] = g
           /\ \A i \in 1 .. Len(frames) : i # Len(frames) => frames'[i] = frames[i]
<1>1. Len(frames) \in 1 .. Len(frames) /\ frames \in Seq(Shape)
  BY TopFacts DEF StackInv, Shaped
<1> QED
  BY <1>1, Replacing DEF TopBecomes

\* The innermost frame goes on to an instruction of the same depth.
LEMMA CalmTop ==
    ASSUME NEW depth, StackInv, frames # <<>>,
           NEW g \in Shape, SameFrame(g, Top), g.environment = Top.environment,
           DepthAt(depth, g) = DepthAt(depth, Top), TopBecomes(g),
           scopes' = scopes, Len(unifications') = Len(unifications), program' = program,
           ScopeTypes', outcome' \in {outcome, "exit", "late", "unknown", "spins"},
           typeErrors' # typeErrors => outcome = "run" \/ unifications # <<>>
    PROVE  Calm(depth)
<1> DEFINE n == Len(frames)
<1>1. /\ n \in Nat \ {0} /\ DOMAIN frames = 1 .. n /\ n \in DOMAIN frames
      /\ Len(frames) \in 1 .. Len(frames) /\ Top = frames[n] /\ frames \in Seq(Shape)
  BY TopFacts DEF StackInv, Shaped
<1>2. /\ frames' \in Seq(Shape) /\ Len(frames') = n /\ frames'[n] = g
      /\ \A i \in 1 .. n : i # n => frames'[i] = frames[i]
  BY TopReplaced
<1>3. DOMAIN frames' = DOMAIN frames
  BY <1>1, <1>2, SequenceFacts
<1>4. ASSUME NEW i \in DOMAIN frames
      PROVE  /\ SameFrame(frames'[i], frames[i])
             /\ frames'[i].environment = frames[i].environment
             /\ DepthAt(depth, frames'[i]) = DepthAt(depth, frames[i])
  <2>1. CASE i = n
    BY <1>1, <1>2, <2>1
  <2>2. CASE i # n
    BY <1>1, <1>2, <2>2 DEF SameFrame
  <2> QED
    BY <2>1, <2>2
<1> QED
  BY <1>2, <1>3, <1>4 DEF Calm

\* The frames stay as they are.
LEMMA CalmFrames ==
    ASSUME NEW depth, UNCHANGED <<frames, scopes, program>>, ScopeTypes',
           Len(unifications') = Len(unifications),
           outcome' \in {outcome, "exit", "late", "unknown", "spins"},
           typeErrors' # typeErrors => outcome = "run" \/ unifications # <<>>
    PROVE  Calm(depth)
  BY DEF Calm, SameFrame, DepthAt

LEMMA OwnStepsAreCalm ==
    ASSUME NEW depth, IsNesting(depth), StackInv, ScopeInv(depth),
           ComputeStep \/ GetLocal \/ Load \/ FallThrough \/ TypeErrorStep \/ CallNative
    PROVE  Calm(depth)
<1>1. PICK names \in {{"compute"}, {"getLocal"}, {"load"}, {"branch"}, {"typeError"}, {"call"}} :
        Executes(names) /\ (typeErrors' # typeErrors => names \in {{"getLocal"}, {"typeError"}})
  BY DEF ComputeStep, GetLocal, Load, FallThrough, TypeErrorStep, CallNative
<1>2. /\ TopBecomes(Step(Top))
      /\ UNCHANGED <<program, scopes, unifications, functions, evals, outcome>>
      /\ typeErrors' \in {typeErrors, TRUE}
  BY DEF ComputeStep, GetLocal, Load, FallThrough, TypeErrorStep, CallNative, OwnFrame
<1>3. /\ frames # <<>> /\ outcome \in {"check", "run"} /\ Instruction.op \in names
      /\ Top \in Shape /\ Top.pc \in Nat
  BY <1>1, Executing
<1>4. /\ Step(Top) \in Shape /\ SameFrame(Step(Top), Top)
      /\ Step(Top).environment = Top.environment /\ Step(Top).pc = Top.pc + 1
  BY <1>1, SteppingOver
<1>5. DepthAt(depth, Step(Top)) = DepthAt(depth, Top)
  <2>1. Instruction.op \notin {"end", "runtimeError", "jump", "pushScope", "popScope",
                               "pushUnification", "popUnification"}
    BY <1>1, <1>3
  <2>2. depth[program][Top.block][Top.pc + 1] = DepthAt(depth, Top)
    BY <1>3, <2>1, NextDepth
  <2> QED
    BY <1>4, <2>2 DEF DepthAt, SameFrame
<1>6. typeErrors' # typeErrors => outcome = "run" \/ unifications # <<>>
  BY <1>1, <1>3, OpenWhileChecking
<1>7. ScopeTypes' /\ Len(unifications') = Len(unifications)
  BY <1>2, TypesStay
<1> QED
  BY <1>2, <1>3, <1>4, <1>5, <1>6, <1>7, CalmTop

LEMMA EnvironmentIsNat ==
    ASSUME NEW depth, IsNesting(depth), StackInv, ScopeInv(depth), NEW i \in DOMAIN frames
    PROVE  frames[i].environment \in Nat /\ frames[i].parent \in Nat
<1>1. OpenScopes(i) \in Nat
  BY FrameDepth DEF ScopeInv, ScopesCount
<1> QED
  BY <1>1 DEF ScopeInv, EnvironmentsCount

UnificationRecord == [finalized : BOOLEAN, pending : Nat]

LEMMA InnermostUnification ==
    ASSUME NEW depth, ScopeInv(depth), unifications # <<>>
    PROVE  /\ unifications \in Seq(UnificationRecord) /\ Len(unifications) \in Nat \ {0}
           /\ Len(unifications) \in 1 .. Len(unifications)
           /\ Innermost(unifications) \in UnificationRecord
           /\ Innermost(unifications) = unifications[Len(unifications)]
<1>1. unifications \in Seq(UnificationRecord)
  BY DEF ScopeInv, ScopeTypes, UnificationRecord
<1> QED
  BY <1>1, SequenceFacts DEF Innermost

LEMMA UnificationChanged ==
    ASSUME NEW depth, ScopeInv(depth), unifications # <<>>, NEW u \in UnificationRecord,
           unifications' = [unifications EXCEPT ![Len(unifications)] = u]
    PROVE  /\ unifications' \in Seq(UnificationRecord)
           /\ Len(unifications') = Len(unifications)
  BY InnermostUnification, Replacing

\* Constraints are recorded in the innermost unification scope.
LEMMA RecordingIsCalm ==
    ASSUME NEW depth, IsNesting(depth), StackInv, ScopeInv(depth), RecordConstraint
    PROVE  Calm(depth)
<1>1. /\ Executes({"constrain"}) /\ unifications # <<>> /\ TopBecomes(Step(Top))
      /\ UNCHANGED <<program, scopes, functions, typeErrors, evals>>
  BY DEF RecordConstraint
<1>2. /\ frames # <<>> /\ outcome \in {"check", "run"} /\ Instruction.op = "constrain"
      /\ Top \in Shape
  BY <1>1, Executing
<1>3. /\ Step(Top) \in Shape /\ SameFrame(Step(Top), Top)
      /\ Step(Top).environment = Top.environment /\ Step(Top).pc = Top.pc + 1
  BY <1>1, SteppingOver
<1>4. DepthAt(depth, Step(Top)) = DepthAt(depth, Top)
  BY <1>2, <1>3, NextDepth DEF DepthAt, SameFrame
<1>5. PICK u : u = Innermost(unifications)
  OBVIOUS
<1>6. u \in UnificationRecord /\ u = unifications[Len(unifications)]
  BY <1>1, <1>5, InnermostUnification
<1>7. PICK p \in Nat : p = u.pending + 1
  BY <1>6 DEF UnificationRecord
<1>8. [u EXCEPT !.pending = p] \in UnificationRecord
  BY <1>6 DEF UnificationRecord
<1>9. \/ unifications' = unifications /\ outcome' = "late"
      \/ /\ unifications' = [unifications EXCEPT ![Len(unifications)] = [u EXCEPT !.pending = p]]
         /\ outcome' = outcome
  BY <1>5, <1>6, <1>7 DEF RecordConstraint
<1>10. /\ unifications' \in Seq(UnificationRecord)
       /\ Len(unifications') = Len(unifications)
  BY <1>1, <1>8, <1>9, UnificationChanged, InnermostUnification
<1>11. ScopeTypes'
  BY <1>1, <1>9, <1>10 DEF ScopeInv, ScopeTypes, Outcome, UnificationRecord
<1> QED
  BY <1>1, <1>2, <1>3, <1>4, <1>9, <1>10, <1>11, CalmTop

LEMMA JumpIsCalm ==
    ASSUME NEW depth, IsNesting(depth), StackInv, ScopeInv(depth), JumpStep \/ RuntimeError
    PROVE  Calm(depth)
<1>1. CASE RuntimeError
  <2>1. /\ UNCHANGED <<frames, scopes, unifications, functions, evals, program, typeErrors>>
        /\ outcome' = "exit"
    BY <1>1 DEF RuntimeError, nestingVars, typingVars
  <2> QED
    BY <2>1, TypesStay, CalmFrames
<1>2. CASE JumpStep
  <2>1. /\ Executes({"jump", "branch"}) /\ outcome' \in {outcome, "spins"}
        /\ UNCHANGED <<scopes, unifications, functions, evals, program, typeErrors>>
        /\ TopBecomes([Top EXCEPT !.pc = Top.pc + Instruction.by])
    BY <1>2 DEF JumpStep, typingVars
  <2>2. /\ frames # <<>> /\ Instruction.op \in {"jump", "branch"} /\ Top \in Shape
        /\ Top.block \in Compiled(program)
    BY <2>1, Executing
  <2>3. Top.pc + Instruction.by \in DOMAIN Code[program][Top.block]
    BY <2>2, NextInstruction
  <2>4. PICK pc \in Nat : pc = Top.pc + Instruction.by
    BY <2>2, <2>3, CompiledCode DEF StaysInside
  <2>5. PICK g : g = [Top EXCEPT !.pc = pc]
    OBVIOUS
  <2>6. g \in Shape /\ SameFrame(g, Top) /\ g.pc = pc /\ g.environment = Top.environment
    BY <2>2, <2>5, Stepped
  <2>7. DepthAt(depth, g) = DepthAt(depth, Top)
    BY <2>2, <2>4, <2>6, NextDepth DEF DepthAt, SameFrame
  <2>8. ScopeTypes' /\ Len(unifications') = Len(unifications)
    BY <2>1, TypesStay
  <2>9. TopBecomes(g)
    BY <2>1, <2>4, <2>5
  <2> QED
    BY <2>1, <2>2, <2>6, <2>7, <2>8, <2>9, CalmTop
<1> QED
  BY <1>1, <1>2

LEMMA EnterIsCalm ==
    ASSUME NEW depth, IsNesting(depth), StackInv, ScopeInv(depth), Enter
    PROVE  Calm(depth)
<1> DEFINE c == [store |-> store', index |-> NumLocals[Top.block] + 1]
           g == [Step(Top) EXCEPT !.cfr = c]
<1>1. /\ Executes({"enter"}) /\ TopBecomes(g)
      /\ UNCHANGED <<scopes, unifications, functions, evals, program, typeErrors, outcome>>
  BY DEF Enter, typingVars
<1>2. /\ frames # <<>> /\ Instruction.op = "enter" /\ Top \in Shape
      /\ NumLocals[Top.block] \in Nat \ {0} /\ Top.pc + 1 \in Nat
  BY <1>1, AtEnter DEF Executes
<1>3. store' \in Nat
  BY EnterFrame
<1>4. c \in Pointer
  BY <1>2, <1>3 DEF Pointer
<1> HIDE DEF c
<1>5. /\ Step(Top) \in Shape /\ SameFrame(Step(Top), Top) /\ Step(Top).pc = Top.pc + 1
      /\ Step(Top).environment = Top.environment
  <2>1. PICK pc \in Nat : pc = Top.pc + 1
    BY <1>2
  <2>2. Step(Top) = [Top EXCEPT !.pc = pc]
    BY <2>1 DEF Step
  <2> QED
    BY <1>2, <2>1, <2>2, Stepped
<1>6. /\ g \in Shape /\ SameFrame(g, Top) /\ g.pc = Top.pc + 1
      /\ g.environment = Top.environment
  <2>1. PICK f \in Shape : f = Step(Top)
    BY <1>5
  <2>2. /\ [f EXCEPT !.cfr = c] \in Shape /\ SameFrame([f EXCEPT !.cfr = c], f)
        /\ [f EXCEPT !.cfr = c].pc = f.pc
        /\ [f EXCEPT !.cfr = c].environment = f.environment
    BY <1>4 DEF Shape, SameFrame
  <2> QED
    BY <1>5, <2>1, <2>2 DEF SameFrame
<1> HIDE DEF g
<1>7. DepthAt(depth, g) = DepthAt(depth, Top)
  BY <1>2, <1>6, NextDepth DEF DepthAt, SameFrame
<1>8. ScopeTypes' /\ Len(unifications') = Len(unifications)
  BY <1>1, TypesStay
<1> QED
  BY <1>1, <1>2, <1>6, <1>7, <1>8, CalmTop

\* A definition gives its function the environment of the frame.
LEMMA Defined ==
    ASSUME NEW depth, IsNesting(depth), StackInv, ScopeInv(depth), frames # <<>>,
           NEW f, functions' = [functions EXCEPT ![f] = Top.environment],
           UNCHANGED <<scopes, unifications, evals, typeErrors, outcome>>
    PROVE  ScopeTypes' /\ Len(unifications') = Len(unifications)
<1>1. Top.environment \in Nat
  BY TopFacts, EnvironmentIsNat
<1>2. functions' \in [Block -> Environment \union {NoEnvironment}]
  BY <1>1 DEF ScopeInv, ScopeTypes, Environment
<1> QED
  BY <1>2 DEF ScopeInv, ScopeTypes

LEMMA DefiningIsCalm ==
    ASSUME NEW depth, IsNesting(depth), StackInv, ScopeInv(depth), RunNewFunction
    PROVE  Calm(depth)
<1>1. /\ Executes({"newFunction"}) /\ TopBecomes(Step(Top))
      /\ UNCHANGED <<program, scopes, unifications, evals, typeErrors>>
      /\ \/ functions' = functions /\ outcome' \in {outcome, "unknown"}
         \/ /\ outcome' = outcome
            /\ \E f \in Checked(Top.block) \cup {Instruction.function} :
                 functions' = [functions EXCEPT ![f] = Top.environment]
  BY DEF RunNewFunction, typingVars
<1>2. /\ frames # <<>> /\ Instruction.op = "newFunction" /\ Top \in Shape
  BY <1>1, Executing
<1>3. /\ Step(Top) \in Shape /\ SameFrame(Step(Top), Top)
      /\ Step(Top).environment = Top.environment /\ Step(Top).pc = Top.pc + 1
  BY <1>1, SteppingOver
<1>4. DepthAt(depth, Step(Top)) = DepthAt(depth, Top)
  BY <1>2, <1>3, NextDepth DEF DepthAt, SameFrame
<1>5. ScopeTypes' /\ Len(unifications') = Len(unifications)
  <2>1. CASE functions' = functions /\ outcome' \in {outcome, "unknown"}
    BY <1>1, <2>1, TypesStay
  <2>2. CASE ~(functions' = functions /\ outcome' \in {outcome, "unknown"})
    <3>1. PICK f \in Checked(Top.block) \cup {Instruction.function} :
            functions' = [functions EXCEPT ![f] = Top.environment] /\ outcome' = outcome
      BY <1>1, <2>2
    <3> QED
      BY <1>1, <1>2, <3>1, Defined
  <2> QED
    BY <2>1, <2>2
<1>6. outcome' \in {outcome, "unknown"}
  BY <1>1
<1> QED
  BY <1>1, <1>2, <1>3, <1>4, <1>5, <1>6, CalmTop

\* The functor of preserveStack returns, and closes no unification scope.
LEMMA FinishIsCalm ==
    ASSUME NEW depth, IsNesting(depth), StackInv, ScopeInv(depth),
           FinishCall \/ FinishNewFunction \/ FinishResolve
    PROVE  Calm(depth)
<1>1. /\ Returned /\ TopBecomes(Released(Top))
      /\ Instruction.op \in {"call", "newFunction", "resolve", "infer"}
      /\ UNCHANGED <<program, scopes, unifications, evals, outcome>>
      /\ typeErrors' \in {typeErrors, TRUE}
      /\ typeErrors' # typeErrors => Instruction.op = "infer"
      /\ \/ functions' = functions
         \/ /\ functions' = [functions EXCEPT ![Instruction.function] = Top.environment]
            /\ typeErrors' = typeErrors
  BY DEF FinishCall, FinishNewFunction, FinishResolve, Solves, OwnFrame, typingVars
<1>2. /\ frames # <<>> /\ outcome \in {"check", "run"} /\ Top \in Shape
  BY <1>1, Waits
<1>3. /\ Released(Top) \in Shape /\ SameFrame(Released(Top), Top)
      /\ Released(Top).environment = Top.environment /\ Released(Top).pc = Top.pc + 1
  BY <1>1, Releasing
<1>4. DepthAt(depth, Released(Top)) = DepthAt(depth, Top)
  <2>1. depth[program][Top.block][Top.pc + 1] = DepthAt(depth, Top)
    BY <1>1, <1>2, NextDepth
  <2> QED
    BY <1>3, <2>1 DEF DepthAt, SameFrame
<1>5. ScopeTypes' /\ Len(unifications') = Len(unifications)
  <2>1. CASE functions' = functions
    BY <1>1, <2>1, TypesStay
  <2>2. CASE functions' # functions
    BY <1>1, <1>2, <2>2, Defined
  <2> QED
    BY <2>1, <2>2
<1>6. typeErrors' # typeErrors => outcome = "run" \/ unifications # <<>>
  BY <1>1, <1>2, OpenWhileChecking DEF Waiting
<1> QED
  BY <1>1, <1>2, <1>3, <1>4, <1>5, <1>6, CalmTop

LEMMA FinalizeIsCalm ==
    ASSUME NEW depth, IsNesting(depth), StackInv, ScopeInv(depth), Finalize
    PROVE  Calm(depth)
<1>1. /\ Executes({"resolve", "infer", "popUnification"}) /\ unifications # <<>>
      /\ TopBecomes(Hold(Top))
      /\ UNCHANGED <<program, scopes, functions, typeErrors, evals, outcome>>
  BY DEF Finalize
<1>2. frames # <<>> /\ Top \in Shape /\ Len(stack) \in Nat
  BY <1>1, Executing, TopFacts
<1>3. /\ Hold(Top) \in Shape /\ SameFrame(Hold(Top), Top)
      /\ Hold(Top).environment = Top.environment /\ Hold(Top).pc = Top.pc
  BY <1>2, Held
<1>4. DepthAt(depth, Hold(Top)) = DepthAt(depth, Top)
  BY <1>3 DEF DepthAt, SameFrame
<1>5. PICK u \in UnificationRecord : u = unifications[Len(unifications)]
  BY <1>1, InnermostUnification
<1>6. [u EXCEPT !.finalized = TRUE] \in UnificationRecord
  BY DEF UnificationRecord
<1>7. unifications' = [unifications EXCEPT ![Len(unifications)] = [u EXCEPT !.finalized = TRUE]]
  BY <1>5 DEF Finalize
<1>8. unifications' \in Seq(UnificationRecord) /\ Len(unifications') = Len(unifications)
  BY <1>1, <1>6, <1>7, UnificationChanged
<1>9. ScopeTypes'
  BY <1>1, <1>8 DEF ScopeInv, ScopeTypes, UnificationRecord
<1> QED
  BY <1>1, <1>2, <1>3, <1>4, <1>8, <1>9, CalmTop

LEMMA SolvingIsCalm ==
    ASSUME NEW depth, IsNesting(depth), StackInv, ScopeInv(depth), SolveConstraint
    PROVE  Calm(depth)
<1>1. /\ Returned /\ Instruction.op \in {"resolve", "infer", "popUnification"}
      /\ Innermost(unifications).pending > 0
      /\ UNCHANGED <<program, frames, scopes, functions, evals, outcome>>
      /\ typeErrors' \in {typeErrors, TRUE}
  BY DEF SolveConstraint, Solves, nestingVars
<1>2. frames # <<>> /\ outcome \in {"check", "run"}
  BY <1>1, Waits
<1>3. outcome = "check"
  BY <1>1, <1>2, NothingChecksInRun DEF Checking, ScopeInv
<1>4. unifications # <<>>
  BY <1>1, <1>2, <1>3, OpenWhileChecking DEF Waiting
<1>5. PICK u \in UnificationRecord : u = unifications[Len(unifications)] /\ u.pending > 0
  BY <1>1, <1>4, InnermostUnification
<1>6. PICK p \in Nat : p = u.pending - 1
  BY <1>5 DEF UnificationRecord
<1>7. [u EXCEPT !.pending = p] \in UnificationRecord
  BY <1>6 DEF UnificationRecord
<1>8. unifications' = [unifications EXCEPT ![Len(unifications)] = [u EXCEPT !.pending = p]]
  BY <1>5, <1>6 DEF SolveConstraint
<1>9. unifications' \in Seq(UnificationRecord) /\ Len(unifications') = Len(unifications)
  BY <1>4, <1>7, <1>8, UnificationChanged
<1>10. ScopeTypes'
  BY <1>1, <1>9 DEF ScopeInv, ScopeTypes, UnificationRecord
<1> QED
  BY <1>1, <1>4, <1>9, <1>10, CalmFrames

LEMMA StutteringIsCalm ==
    ASSUME NEW depth, ScopeInv(depth), UNCHANGED vars
    PROVE  Calm(depth)
<1>1. UNCHANGED <<frames, scopes, unifications, functions, evals, program, typeErrors, outcome>>
  BY DEF vars
<1> QED
  BY <1>1, TypesStay, CalmFrames DEF ScopeInv, ScopeTypes

-----------------------------------------------------------------------------
(* Steps that open or close a scope                                        *)

\* How many scopes of the chain s interpreter i has opened.
OpenedBy(s, i) == {k \in DOMAIN s : s[k] = i}
Opened(s, i) == Cardinality(OpenedBy(s, i))

LEMMA OpenedIsNat ==
    ASSUME NEW s \in Seq(Nat), NEW i
    PROVE  /\ Opened(s, i) \in Nat /\ IsFiniteSet(OpenedBy(s, i))
           /\ Opened(s, i) = 0 <=> \A k \in DOMAIN s : s[k] # i
<1>1. IsFiniteSet(1 .. Len(s)) /\ DOMAIN s = 1 .. Len(s)
  BY FS_Interval
<1>2. PICK S : S = OpenedBy(s, i) /\ S = {k \in DOMAIN s : s[k] = i}
  BY DEF OpenedBy
<1>3. IsFiniteSet(S)
  BY <1>1, <1>2, FS_Subset
<1>4. Cardinality(S) \in Nat
  BY <1>3, FS_CardinalityType
<1>5. Cardinality(S) = 0 <=> S = {}
  BY <1>3, FS_EmptySet
<1> QED
  BY <1>2, <1>3, <1>4, <1>5 DEF Opened

\* A chain t that has one scope more than s, of interpreter n.
LEMMA OpenedOneMore ==
    ASSUME NEW s \in Seq(Nat), NEW t \in Seq(Nat), NEW n, Len(t) = Len(s) + 1,
           \A k \in 1 .. Len(s) : t[k] = s[k], t[Len(s) + 1] = n
    PROVE  /\ Opened(t, n) = Opened(s, n) + 1
           /\ \A i : i # n => Opened(t, i) = Opened(s, i)
<1>1. PICK z \in Nat : z = Len(s)
  OBVIOUS
<1>2. DOMAIN s = 1 .. z /\ DOMAIN t = 1 .. z + 1 /\ t[z + 1] = n
      /\ \A k \in 1 .. z : t[k] = s[k]
  BY <1>1
<1>3. \A k : k \in 1 .. z + 1 <=> k \in 1 .. z \/ k = z + 1
  BY <1>1
<1>4. z + 1 \notin 1 .. z
  BY <1>1
<1>5. OpenedBy(t, n) = OpenedBy(s, n) \cup {z + 1}
  BY <1>2, <1>3 DEF OpenedBy
<1>6. Opened(t, n) = Opened(s, n) + 1
  <2>1. IsFiniteSet(OpenedBy(s, n))
    BY OpenedIsNat
  <2>2. z + 1 \notin OpenedBy(s, n)
    BY <1>2, <1>4 DEF OpenedBy
  <2>3. Cardinality(OpenedBy(s, n) \cup {z + 1}) = Cardinality(OpenedBy(s, n)) + 1
    BY <2>1, <2>2, FS_AddElement
  <2> QED
    BY <1>5, <2>3 DEF Opened
<1>7. ASSUME NEW i, i # n PROVE Opened(t, i) = Opened(s, i)
  <2>1. OpenedBy(t, i) = OpenedBy(s, i)
    BY <1>2, <1>3, <1>7 DEF OpenedBy
  <2> QED
    BY <2>1 DEF Opened
<1> QED
  BY <1>6, <1>7

\* Only the innermost frame changes, to g.
TopMoves(g) ==
    /\ g \in Shape /\ SameFrame(g, Top)
    /\ frames # <<>>
    /\ Len(frames') = Len(frames) /\ DOMAIN frames' = DOMAIN frames
    /\ frames'[Len(frames)] = g
    /\ \A i \in DOMAIN frames : i # Len(frames) => frames'[i] = frames[i]
    /\ program' = program

\* The innermost interpreter opens `change` unification scopes.
LEMMA UnificationsMove ==
    ASSUME NEW depth, IsNesting(depth), StackInv, ScopeInv(depth), NEW g, TopMoves(g),
           NEW change \in Int, DepthAt(depth, g).unifications \in Nat,
           DepthAt(depth, g).unifications = DepthAt(depth, Top).unifications + change,
           Len(unifications') = Len(unifications) + change
    PROVE  UnificationsCount(depth)'
<1>1. PICK n \in Nat \ {0} : n = Len(frames) /\ DOMAIN frames = 1 .. n /\ Top = frames[n]
                              /\ n \in DOMAIN frames
  BY TopFacts DEF TopMoves
<1>2. PICK below : LiesOn(depth, below)
  BY DEF ScopeInv, UnificationsCount
<1>3. PICK d \in Nat, e \in Nat :
        d = DepthAt(depth, Top).unifications /\ e = DepthAt(depth, g).unifications
        /\ e = d + change
  BY <1>1, FrameDepth DEF DepthOf, DepthAt
<1>4. /\ below \in [1 .. n + 1 -> Nat] /\ below[1] = 0 /\ below[n + 1] = Len(unifications)
      /\ below[n + 1] = below[n] + d
      /\ \A i \in 1 .. n : below[i + 1] = below[i] + DepthOf(depth, i).unifications
      /\ \A i, k \in 1 .. n + 1 : i <= k => below[i] <= below[k]
  BY <1>1, <1>2, <1>3 DEF LiesOn, DepthOf, DepthAt
<1>5. /\ n \in 1 .. n + 1 /\ n + 1 \in 1 .. n + 1 /\ 1 # n + 1 /\ n # n + 1
      /\ \A i \in 1 .. n : i \in 1 .. n + 1 /\ i # n + 1
      /\ \A i \in 1 .. n + 1 : i \in 1 .. n \/ i = n + 1
  OBVIOUS
<1>6. PICK top \in Nat : top = below[n] + e
  BY <1>4, <1>5
<1>7. PICK above : above = [below EXCEPT ![n + 1] = top]
  OBVIOUS
<1>8. /\ above \in [1 .. n + 1 -> Nat] /\ above[n + 1] = top
      /\ \A i \in 1 .. n : above[i] = below[i]
  BY <1>4, <1>5, <1>7
<1>9. top = Len(unifications')
  <2>1. PICK low \in Nat : low = below[n]
    BY <1>4, <1>5
  <2>2. Len(unifications) = low + d /\ top = low + e /\ e = d + change
    BY <1>3, <1>4, <1>6, <2>1
  <2> QED
    BY <2>2
<1>10. ASSUME NEW i \in 1 .. n
       PROVE  above[i + 1] = above[i] + DepthOf(depth, i)'.unifications
  <2>1. CASE i = n
    BY <1>1, <1>3, <1>5, <1>6, <1>8, <2>1 DEF TopMoves, DepthOf, DepthAt
  <2>2. CASE i # n
    <3>1. i + 1 \in 1 .. n
      BY <2>2
    <3>2. DepthOf(depth, i)' = DepthOf(depth, i)
      BY <1>1, <2>2 DEF TopMoves, DepthOf
    <3> QED
      BY <1>4, <1>8, <3>1, <3>2
  <2> QED
    BY <2>1, <2>2
<1>11. ASSUME NEW i \in 1 .. n + 1, NEW k \in 1 .. n + 1, i <= k
       PROVE  above[i] <= above[k]
  <2>1. \A j \in 1 .. n : below[j] <= below[n] /\ below[j] \in Nat
    BY <1>4, <1>5
  <2>2. \A j \in 1 .. n : below[j] <= top
    BY <1>6, <2>1
  <2>3. CASE k = n + 1 /\ i = n + 1
    BY <1>8, <2>3
  <2>4. CASE k = n + 1 /\ i \in 1 .. n
    BY <1>8, <2>2, <2>4
  <2>5. CASE k \in 1 .. n
    <3>1. i \in 1 .. n
      BY <1>11, <2>5
    <3>2. below[i] <= below[k]
      BY <1>4, <1>11
    <3> QED
      BY <1>8, <2>5, <3>1, <3>2
  <2> QED
    BY <1>5, <2>3, <2>4, <2>5
<1>12. LiesOn(depth, above)'
  <2>1. Len(frames)' = n /\ DOMAIN frames' = 1 .. n
    BY <1>1 DEF TopMoves
  <2>2. above[1] = 0
    BY <1>4, <1>8
  <2> QED
    BY <1>8, <1>9, <1>10, <1>11, <2>1, <2>2 DEF LiesOn
<1> QED
  BY <1>12 DEF UnificationsCount

\* It opens `change` scopes.
LEMMA ScopesMove ==
    ASSUME NEW depth, IsNesting(depth), StackInv, ScopeInv(depth), NEW g, TopMoves(g),
           NEW change \in Int,
           g.environment = Top.environment + change,
           DepthAt(depth, g).scopes = DepthAt(depth, Top).scopes + change,
           Opened(scopes', Len(frames)) = Opened(scopes, Len(frames)) + change,
           \A i \in DOMAIN frames : i # Len(frames) => Opened(scopes', i) = Opened(scopes, i)
    PROVE  EnvironmentsCount' /\ ScopesCount(depth)'
<1>1. PICK n \in Nat \ {0} : n = Len(frames) /\ DOMAIN frames = 1 .. n /\ Top = frames[n]
                              /\ n \in DOMAIN frames
  BY TopFacts DEF TopMoves
<1>2. ASSUME NEW i \in 1 .. n
      PROVE  /\ frames[i].parent \in Nat
             /\ frames[i].environment = frames[i].parent + 1 + Opened(scopes, i)
             /\ Opened(scopes, i) = DepthOf(depth, i).scopes
             /\ Opened(scopes, i) \in Nat
  <2>1. Opened(scopes, i) = OpenScopes(i) /\ i \in DOMAIN frames
    BY <1>1 DEF OpenScopes, Opened, OpenedBy
  <2> QED
    BY <2>1, OpenedIsNat DEF ScopeInv, EnvironmentsCount, ScopesCount, ScopeTypes
<1>3. ASSUME NEW i \in 1 .. n
      PROVE  /\ frames'[i].parent \in Nat
             /\ frames'[i].environment = frames'[i].parent + 1 + Opened(scopes', i)
             /\ Opened(scopes', i) = DepthOf(depth, i)'.scopes
  <2>1. CASE i = n
    <3>1. frames'[i] = g /\ g.parent = Top.parent /\ DepthOf(depth, i)' = DepthAt(depth, g)
      BY <1>1, <2>1 DEF TopMoves, SameFrame, DepthOf, DepthAt
    <3>2. /\ Top.parent \in Nat /\ Top.environment = Top.parent + 1 + Opened(scopes, i)
          /\ Opened(scopes, i) = DepthAt(depth, Top).scopes /\ Opened(scopes, i) \in Nat
      BY <1>1, <1>2, <2>1 DEF DepthOf, DepthAt
    <3>3. Opened(scopes', i) = Opened(scopes, i) + change
      BY <1>1, <2>1
    <3>4. PICK o \in Nat, p \in Nat : o = Opened(scopes, i) /\ p = Top.parent
      BY <3>2
    <3>5. g.environment = (p + 1 + o) + change /\ (p + 1 + o) + change = p + 1 + (o + change)
      BY <3>2, <3>4
    <3> QED
      BY <3>1, <3>2, <3>3, <3>4, <3>5
  <2>2. CASE i # n
    BY <1>1, <1>2, <2>2 DEF TopMoves, DepthOf
  <2> QED
    BY <2>1, <2>2
<1>4. DOMAIN frames' = 1 .. n
  BY <1>1 DEF TopMoves
<1>5. \A i \in 1 .. n : OpenScopes(i)' = Opened(scopes', i)
  BY DEF OpenScopes, Opened, OpenedBy
<1> QED
  BY <1>3, <1>4, <1>5 DEF EnvironmentsCount, ScopesCount

\* The innermost frame steps on to g.
LEMMA Moving ==
    ASSUME StackInv, frames # <<>>, NEW g \in Shape, SameFrame(g, Top), TopBecomes(g),
           program' = program
    PROVE  TopMoves(g)
<1>1. /\ frames' \in Seq(Shape) /\ Len(frames') = Len(frames)
      /\ frames'[Len(frames)] = g
      /\ \A i \in 1 .. Len(frames) : i # Len(frames) => frames'[i] = frames[i]
  BY TopReplaced
<1>2. DOMAIN frames = 1 .. Len(frames) /\ DOMAIN frames' = DOMAIN frames
  BY <1>1, TopFacts, SequenceFacts
<1> QED
  BY <1>1, <1>2 DEF TopMoves

LEMMA MovingModes ==
    ASSUME StackInv, NEW depth, ScopeInv(depth), NEW g, TopMoves(g),
           outcome' \in {outcome, "exit", "late", "unknown", "spins"}
    PROVE  ModesNest'
<1>1. \A i \in DOMAIN frames : SameFrame(frames'[i], frames[i])
  <2>1. Top = frames[Len(frames)]
    BY TopFacts DEF TopMoves
  <2> QED
    BY <2>1 DEF TopMoves, SameFrame
<1> QED
  BY <1>1, ModesStay DEF TopMoves, ScopeInv

\* How many scopes, and unification scopes, an instruction opens.
Opens(op) == IF op = "pushScope" THEN 1 ELSE IF op = "popScope" THEN -1 ELSE 0
Unifies(op) == IF op = "pushUnification" THEN 1 ELSE IF op = "popUnification" THEN -1 ELSE 0

LEMMA DepthsAlong ==
    ASSUME NEW depth, IsNesting(depth), StackInv, NEW b \in Compiled(program),
           NEW pc \in DOMAIN Code[program][b],
           Code[program][b][pc].op \notin {"end", "runtimeError", "jump"}
    PROVE  /\ depth[program][b][pc + 1].scopes =
                depth[program][b][pc].scopes + Opens(Code[program][b][pc].op)
           /\ depth[program][b][pc + 1].unifications =
                depth[program][b][pc].unifications + Unifies(Code[program][b][pc].op)
  BY DEF IsNesting, CodeNests, StackInv, Shaped, Opens, Unifies

LEMMA DepthIsNat ==
    ASSUME NEW depth, IsNesting(depth), StackInv, NEW b \in Compiled(program),
           NEW pc \in DOMAIN Code[program][b]
    PROVE  depth[program][b][pc].scopes \in Nat /\ depth[program][b][pc].unifications \in Nat
  BY DEF IsNesting, CodeNests, StackInv, Shaped

\* Depths around an instruction that leads to the next.
LEMMA TopDepths ==
    ASSUME NEW depth, IsNesting(depth), StackInv, frames # <<>>,
           NEW g, SameFrame(g, Top), g.pc = Top.pc + 1,
           Instruction.op \notin {"end", "runtimeError", "jump"}
    PROVE  /\ DepthAt(depth, Top).scopes \in Nat /\ DepthAt(depth, Top).unifications \in Nat
           /\ DepthAt(depth, g).scopes \in Nat /\ DepthAt(depth, g).unifications \in Nat
           /\ DepthAt(depth, g).scopes = DepthAt(depth, Top).scopes + Opens(Instruction.op)
           /\ DepthAt(depth, g).unifications =
                DepthAt(depth, Top).unifications + Unifies(Instruction.op)
<1>1. /\ Top.block \in Compiled(program) /\ Top.pc \in DOMAIN Code[program][Top.block]
      /\ Top.pc + 1 \in DOMAIN Code[program][Top.block]
  BY TopFacts, FrameFacts, NextInstruction
<1>2. /\ depth[program][Top.block][Top.pc + 1].scopes =
           depth[program][Top.block][Top.pc].scopes + Opens(Instruction.op)
      /\ depth[program][Top.block][Top.pc + 1].unifications =
           depth[program][Top.block][Top.pc].unifications + Unifies(Instruction.op)
  BY <1>1, DepthsAlong DEF Instruction
<1>3. /\ depth[program][Top.block][Top.pc].scopes \in Nat
      /\ depth[program][Top.block][Top.pc].unifications \in Nat
      /\ depth[program][Top.block][Top.pc + 1].scopes \in Nat
      /\ depth[program][Top.block][Top.pc + 1].unifications \in Nat
  BY <1>1, DepthIsNat
<1>4. /\ DepthAt(depth, Top) = depth[program][Top.block][Top.pc]
      /\ DepthAt(depth, g) = depth[program][Top.block][Top.pc + 1]
  BY DEF DepthAt, SameFrame
<1> QED
  BY <1>2, <1>3, <1>4

\* The innermost frame, of another environment.
LEMMA EnvironmentMoved ==
    ASSUME NEW f \in Shape, NEW e \in Int, NEW g, g = [f EXCEPT !.environment = e]
    PROVE  g \in Shape /\ SameFrame(g, f) /\ g.pc = f.pc /\ g.environment = e
  BY DEF Shape, SameFrame

LEMMA PushScopeKeeps ==
    ASSUME NEW depth, IsNesting(depth), StackInv, ScopeInv(depth), PushScope
    PROVE  ScopeInv(depth)'
<1>1. /\ Executes({"pushScope"}) /\ scopes' = Append(scopes, Len(frames))
      /\ UNCHANGED <<program, unifications, functions, typeErrors, evals, outcome>>
  BY DEF PushScope
<1>2. /\ frames # <<>> /\ Instruction.op = "pushScope"
  BY <1>1, Executing
<1>3. /\ Step(Top) \in Shape /\ SameFrame(Step(Top), Top)
      /\ Step(Top).environment = Top.environment /\ Step(Top).pc = Top.pc + 1
  BY <1>1, SteppingOver
<1>4. PICK e \in Int : e = Step(Top).environment + 1
  BY <1>3 DEF Shape
<1>5. PICK g : g = [Step(Top) EXCEPT !.environment = e]
  OBVIOUS
<1>6. /\ g \in Shape /\ SameFrame(g, Top) /\ g.pc = Top.pc + 1
      /\ g.environment = Top.environment + 1
  BY <1>3, <1>4, <1>5, EnvironmentMoved DEF SameFrame
<1>7. TopMoves(g)
  <2>1. TopBecomes(g)
    BY <1>4, <1>5 DEF PushScope
  <2> QED
    BY <1>1, <1>2, <1>6, <2>1, Moving
<1>8. PICK n \in Nat \ {0} : n = Len(frames) /\ DOMAIN frames = 1 .. n
  BY <1>2, TopFacts
<1>9. /\ scopes \in Seq(Nat) /\ scopes' \in Seq(Nat) /\ Len(scopes') = Len(scopes) + 1
      /\ scopes'[Len(scopes) + 1] = n /\ \A k \in 1 .. Len(scopes) : scopes'[k] = scopes[k]
  <2>1. scopes \in Seq(Nat) /\ n \in Nat
    BY DEF ScopeInv, ScopeTypes
  <2> QED
    BY <1>1, <1>8, <2>1, Appending
<1>10. /\ Opened(scopes', n) = Opened(scopes, n) + 1
       /\ \A i : i # n => Opened(scopes', i) = Opened(scopes, i)
  BY <1>9, OpenedOneMore
<1>11. /\ DepthAt(depth, g).unifications \in Nat
       /\ DepthAt(depth, Top).unifications \in Nat
       /\ DepthAt(depth, g).scopes = DepthAt(depth, Top).scopes + 1
       /\ DepthAt(depth, g).unifications = DepthAt(depth, Top).unifications + 0
  BY <1>2, <1>6, TopDepths DEF Opens, Unifies
<1>12. EnvironmentsCount' /\ ScopesCount(depth)'
  BY <1>6, <1>7, <1>8, <1>10, <1>11, ScopesMove
<1>13. UnificationsCount(depth)'
  <2>1. Len(unifications') = Len(unifications) + 0
    <3>1. Len(unifications) \in Nat
      BY SequenceFacts DEF ScopeInv, ScopeTypes
    <3> QED
      BY <1>1, <3>1
  <2> QED
    BY <1>7, <1>11, <2>1, UnificationsMove
<1>14. ScopeTypes'
  BY <1>1, <1>9 DEF ScopeInv, ScopeTypes
<1>15. ScopesAreOrdered'
  <2>1. PICK z \in Nat : z = Len(scopes)
    BY <1>9
  <2>2. /\ DOMAIN scopes = 1 .. z /\ DOMAIN scopes' = 1 .. z + 1
        /\ scopes'[z + 1] = n /\ \A k \in 1 .. z : scopes'[k] = scopes[k]
    BY <1>9, <2>1
  <2>3. /\ \A k \in 1 .. z : scopes[k] \in 1 .. n
        /\ \A j, k \in 1 .. z : j <= k => scopes[j] <= scopes[k]
    BY <1>8, <2>2 DEF ScopeInv, ScopesAreOrdered
  <2>4. \A k \in 1 .. z + 1 : k \in 1 .. z \/ k = z + 1
    OBVIOUS
  <2>5. \A k \in 1 .. z + 1 : scopes'[k] \in 1 .. n
    BY <2>2, <2>3, <2>4
  <2>6. ASSUME NEW j \in 1 .. z + 1, NEW k \in 1 .. z + 1, j <= k
        PROVE  scopes'[j] <= scopes'[k]
    <3>1. CASE k = z + 1
      BY <2>2, <2>5, <3>1
    <3>2. CASE k \in 1 .. z
      <4>1. j \in 1 .. z
        BY <2>6, <3>2
      <4> QED
        BY <2>2, <2>3, <2>6, <3>2, <4>1
    <3> QED
      BY <2>4, <3>1, <3>2
  <2>7. DOMAIN frames' = 1 .. n
    BY <1>7, <1>8 DEF TopMoves
  <2> QED
    BY <2>2, <2>5, <2>6, <2>7 DEF ScopesAreOrdered
<1>16. ModesNest'
  BY <1>1, <1>7, MovingModes
<1>17. ErrorsAreReported'
  BY <1>1, <1>14, ErrorsStay
<1> QED
  BY <1>12, <1>13, <1>14, <1>15, <1>16, <1>17 DEF ScopeInv

\* The scope that is closed is one that the interpreter itself has opened.
LEMMA InnermostIsOwn ==
    ASSUME NEW depth, IsNesting(depth), StackInv, ScopeInv(depth), frames # <<>>,
           DepthAt(depth, Top).scopes # 0
    PROVE  scopes # <<>> /\ Innermost(scopes) = Len(frames)
<1>1. PICK n \in Nat \ {0} : n = Len(frames) /\ DOMAIN frames = 1 .. n /\ Top = frames[n]
  BY TopFacts
<1>2. scopes \in Seq(Nat)
  BY DEF ScopeInv, ScopeTypes
<1>3. PICK z \in Nat : z = Len(scopes) /\ DOMAIN scopes = 1 .. z
  BY <1>2
<1>4. Opened(scopes, n) # 0
  BY <1>1 DEF ScopeInv, ScopesCount, OpenScopes, Opened, OpenedBy, DepthOf, DepthAt
<1>5. PICK k \in 1 .. z : scopes[k] = n
  BY <1>2, <1>3, <1>4, OpenedIsNat
<1>6. z \in 1 .. z /\ k <= z
  OBVIOUS
<1>7. scopes[z] \in 1 .. n /\ scopes[k] <= scopes[z]
  BY <1>1, <1>3, <1>6 DEF ScopeInv, ScopesAreOrdered
<1>8. scopes[z] = n
  <2>1. PICK s \in 1 .. n : s = scopes[z]
    BY <1>7
  <2>2. n <= s
    BY <1>5, <1>7, <2>1
  <2> QED
    BY <2>1, <2>2
<1> QED
  BY <1>1, <1>2, <1>3, <1>6, <1>8 DEF Innermost

LEMMA PopScopeKeeps ==
    ASSUME NEW depth, IsNesting(depth), StackInv, ScopeInv(depth), PopScope
    PROVE  ScopeInv(depth)'
<1>1. /\ Executes({"popScope"}) /\ scopes' = Outer(scopes)
      /\ UNCHANGED <<program, unifications, functions, typeErrors, evals, outcome>>
  BY DEF PopScope
<1>2. /\ frames # <<>> /\ Instruction.op = "popScope"
  BY <1>1, Executing
<1>3. /\ Step(Top) \in Shape /\ SameFrame(Step(Top), Top)
      /\ Step(Top).environment = Top.environment /\ Step(Top).pc = Top.pc + 1
  BY <1>1, SteppingOver
<1>4. PICK e \in Int : e = Step(Top).environment - 1
  BY <1>3 DEF Shape
<1>5. PICK g : g = [Step(Top) EXCEPT !.environment = e]
  OBVIOUS
<1>6. /\ g \in Shape /\ SameFrame(g, Top) /\ g.pc = Top.pc + 1
      /\ g.environment = Top.environment + (-1)
  <2>1. Top.environment \in Int
    BY <1>2, TopFacts, EnvironmentIsNat
  <2> QED
    BY <1>3, <1>4, <1>5, <2>1, EnvironmentMoved DEF SameFrame
<1>7. /\ DepthAt(depth, g).unifications \in Nat
      /\ DepthAt(depth, Top).unifications \in Nat
      /\ DepthAt(depth, g).scopes \in Nat /\ DepthAt(depth, Top).scopes \in Nat
      /\ DepthAt(depth, g).scopes = DepthAt(depth, Top).scopes + (-1)
      /\ DepthAt(depth, g).unifications = DepthAt(depth, Top).unifications + 0
  BY <1>2, <1>6, TopDepths DEF Opens, Unifies
<1>8. PICK n \in Nat \ {0} : n = Len(frames) /\ DOMAIN frames = 1 .. n
  BY <1>2, TopFacts
<1>9. scopes # <<>> /\ Innermost(scopes) = n
  <2>1. DepthAt(depth, Top).scopes # 0
    BY <1>7
  <2> QED
    BY <1>2, <1>8, <2>1, InnermostIsOwn
<1>10. TopMoves(g)
  <2>1. frames' = [i \in 1 .. n |-> IF i = n THEN g ELSE frames[i]]
    BY <1>4, <1>5, <1>8, <1>9 DEF PopScope
  <2>2. /\ DOMAIN frames' = 1 .. n /\ frames'[n] = g
        /\ \A i \in 1 .. n : i # n => frames'[i] = frames[i]
    BY <2>1
  <2>3. Len(frames') = n
    <3>1. \A i \in 1 .. n : frames'[i] \in Shape
      BY <1>6, <1>8, <2>2, FrameFacts
    <3>2. frames' \in [1 .. n -> Shape]
      BY <2>1, <3>1
    <3> QED
      BY <3>2, FunctionIsSequence
  <2> QED
    BY <1>1, <1>2, <1>6, <1>8, <2>2, <2>3 DEF TopMoves
<1>11. PICK z \in Nat : /\ scopes \in Seq(Nat) /\ scopes' \in Seq(Nat)
                         /\ Len(scopes') = z /\ Len(scopes) = z + 1
                         /\ scopes[z + 1] = n /\ \A k \in 1 .. z : scopes[k] = scopes'[k]
  <2>1. scopes \in Seq(Nat)
    BY DEF ScopeInv, ScopeTypes
  <2>2. /\ Outer(scopes) \in Seq(Nat) /\ Len(Outer(scopes)) = Len(scopes) - 1
        /\ \A k \in 1 .. Len(scopes) - 1 : Outer(scopes)[k] = scopes[k]
    BY <1>9, <2>1, OuterPart
  <2>3. PICK z \in Nat : Len(scopes) = z + 1
    BY <2>1, <2>2, SequenceFacts
  <2>4. Len(scopes) - 1 = z
    BY <2>3
  <2> QED
    BY <1>1, <1>9, <2>1, <2>2, <2>3, <2>4 DEF Innermost
<1>12. /\ Opened(scopes', n) = Opened(scopes, n) + (-1)
       /\ \A i : i # n => Opened(scopes', i) = Opened(scopes, i)
  <2>1. /\ Opened(scopes, n) = Opened(scopes', n) + 1
        /\ \A i : i # n => Opened(scopes, i) = Opened(scopes', i)
    BY <1>11, OpenedOneMore
  <2>2. Opened(scopes', n) \in Nat
    BY <1>11, OpenedIsNat
  <2> QED
    BY <2>1, <2>2
<1>13. EnvironmentsCount' /\ ScopesCount(depth)'
  BY <1>6, <1>7, <1>8, <1>10, <1>12, ScopesMove
<1>14. UnificationsCount(depth)'
  <2>1. Len(unifications') = Len(unifications) + 0
    <3>1. Len(unifications) \in Nat
      BY SequenceFacts DEF ScopeInv, ScopeTypes
    <3> QED
      BY <1>1, <3>1
  <2> QED
    BY <1>7, <1>10, <2>1, UnificationsMove
<1>15. ScopeTypes'
  BY <1>1, <1>11 DEF ScopeInv, ScopeTypes
<1>16. ScopesAreOrdered'
  <2>1. /\ DOMAIN scopes = 1 .. z + 1 /\ DOMAIN scopes' = 1 .. z
        /\ \A k \in 1 .. z : scopes'[k] = scopes[k]
    BY <1>11
  <2>2. \A k \in 1 .. z : k \in 1 .. z + 1
    OBVIOUS
  <2>3. DOMAIN frames' = DOMAIN frames
    BY <1>10 DEF TopMoves
  <2> QED
    BY <2>1, <2>2, <2>3 DEF ScopeInv, ScopesAreOrdered
<1>17. ModesNest'
  BY <1>1, <1>10, MovingModes
<1>18. ErrorsAreReported'
  BY <1>1, <1>15, ErrorsStay
<1> QED
  BY <1>13, <1>14, <1>15, <1>16, <1>17, <1>18 DEF ScopeInv

\* The scopes stay, and so do the environments.
LEMMA ScopesStay ==
    ASSUME NEW depth, IsNesting(depth), StackInv, ScopeInv(depth), NEW g, TopMoves(g),
           g.environment = Top.environment, scopes' = scopes,
           DepthAt(depth, g).scopes = DepthAt(depth, Top).scopes + 0
    PROVE  EnvironmentsCount' /\ ScopesCount(depth)' /\ ScopesAreOrdered'
<1>1. scopes \in Seq(Nat) /\ Len(frames) \in DOMAIN frames
  BY TopFacts DEF ScopeInv, ScopeTypes, TopMoves
<1>2. /\ Opened(scopes', Len(frames)) = Opened(scopes, Len(frames)) + 0
      /\ \A i \in DOMAIN frames : i # Len(frames) => Opened(scopes', i) = Opened(scopes, i)
  BY <1>1, OpenedIsNat
<1>3. g.environment = Top.environment + 0
  <2>1. Top.environment \in Nat
    BY TopFacts, EnvironmentIsNat DEF TopMoves
  <2> QED
    BY <2>1
<1>4. EnvironmentsCount' /\ ScopesCount(depth)'
  BY <1>2, <1>3, ScopesMove
<1>5. ScopesAreOrdered'
  BY DEF ScopeInv, ScopesAreOrdered, TopMoves
<1> QED
  BY <1>4, <1>5

LEMMA PushUnificationKeeps ==
    ASSUME NEW depth, IsNesting(depth), StackInv, ScopeInv(depth), PushUnification
    PROVE  ScopeInv(depth)'
<1>1. /\ Executes({"pushUnification"}) /\ TopBecomes(Step(Top))
      /\ unifications' = Append(unifications, [finalized |-> FALSE, pending |-> 0])
      /\ UNCHANGED <<program, scopes, functions, typeErrors, evals, outcome>>
  BY DEF PushUnification
<1>2. /\ frames # <<>> /\ Instruction.op = "pushUnification"
  BY <1>1, Executing
<1>3. /\ Step(Top) \in Shape /\ SameFrame(Step(Top), Top)
      /\ Step(Top).environment = Top.environment /\ Step(Top).pc = Top.pc + 1
  BY <1>1, SteppingOver
<1>4. TopMoves(Step(Top))
  BY <1>1, <1>2, <1>3, Moving
<1>5. /\ DepthAt(depth, Step(Top)).unifications \in Nat
      /\ DepthAt(depth, Step(Top)).scopes = DepthAt(depth, Top).scopes + 0
      /\ DepthAt(depth, Step(Top)).unifications = DepthAt(depth, Top).unifications + 1
  BY <1>2, <1>3, TopDepths DEF Opens, Unifies
<1>6. /\ unifications' \in Seq(UnificationRecord) /\ Len(unifications') = Len(unifications) + 1
      /\ unifications' # <<>>
  <2>1. /\ unifications \in Seq(UnificationRecord)
        /\ [finalized |-> FALSE, pending |-> 0] \in UnificationRecord
    BY DEF ScopeInv, ScopeTypes, UnificationRecord
  <2>2. unifications' \in Seq(UnificationRecord) /\ Len(unifications') = Len(unifications) + 1
    BY <1>1, <2>1, Appending
  <2>3. Len(unifications) \in Nat
    BY <2>1, SequenceFacts
  <2> QED
    BY <2>2, <2>3
<1>7. EnvironmentsCount' /\ ScopesCount(depth)' /\ ScopesAreOrdered'
  BY <1>1, <1>3, <1>4, <1>5, ScopesStay
<1>8. UnificationsCount(depth)'
  BY <1>4, <1>5, <1>6, UnificationsMove
<1>9. ScopeTypes'
  BY <1>1, <1>6 DEF ScopeInv, ScopeTypes, UnificationRecord
<1>10. ModesNest'
  BY <1>1, <1>4, MovingModes
<1>11. ErrorsAreReported'
  BY <1>6 DEF ErrorsAreReported
<1> QED
  BY <1>7, <1>8, <1>9, <1>10, <1>11 DEF ScopeInv

\* With the outermost unification scope errors end the process.
LEMMA FinishPopKeeps ==
    ASSUME NEW depth, IsNesting(depth), StackInv, ScopeInv(depth), FinishPop
    PROVE  ScopeInv(depth)'
<1>1. /\ Returned /\ Instruction.op = "popUnification" /\ TopBecomes(Released(Top))
      /\ unifications' = Outer(unifications)
      /\ outcome' = IF unifications' = <<>> /\ typeErrors THEN "exit" ELSE outcome
      /\ UNCHANGED <<program, scopes, functions, typeErrors, evals>>
  BY DEF FinishPop, Solves
<1>2. frames # <<>> /\ Top \in Shape /\ outcome \in {"check", "run"}
  BY <1>1, Waits
<1>3. /\ Released(Top) \in Shape /\ SameFrame(Released(Top), Top)
      /\ Released(Top).environment = Top.environment /\ Released(Top).pc = Top.pc + 1
  BY <1>1, Releasing
<1>4. TopMoves(Released(Top))
  BY <1>1, <1>2, <1>3, Moving
<1>5. /\ DepthAt(depth, Released(Top)).unifications \in Nat
      /\ DepthAt(depth, Released(Top)).scopes = DepthAt(depth, Top).scopes + 0
      /\ DepthAt(depth, Released(Top)).unifications = DepthAt(depth, Top).unifications + (-1)
  BY <1>1, <1>2, <1>3, TopDepths DEF Opens, Unifies
<1>6. unifications # <<>>
  <2>1. outcome = "check"
    BY <1>1, <1>2, NothingChecksInRun DEF Checking, ScopeInv
  <2> QED
    BY <1>1, <1>2, <2>1, OpenWhileChecking DEF Waiting
<1>7. /\ unifications' \in Seq(UnificationRecord)
      /\ Len(unifications') = Len(unifications) + (-1)
  <2>1. unifications \in Seq(UnificationRecord) /\ Len(unifications) \in Nat
    BY <1>6, InnermostUnification
  <2>2. /\ Outer(unifications) \in Seq(UnificationRecord)
        /\ Len(Outer(unifications)) = Len(unifications) - 1
    BY <1>6, <2>1, OuterPart
  <2> QED
    BY <1>1, <2>1, <2>2
<1>8. EnvironmentsCount' /\ ScopesCount(depth)' /\ ScopesAreOrdered'
  BY <1>1, <1>3, <1>4, <1>5, ScopesStay
<1>9. UnificationsCount(depth)'
  BY <1>4, <1>5, <1>7, UnificationsMove
<1>10. ScopeTypes'
  BY <1>1, <1>7 DEF ScopeInv, ScopeTypes, UnificationRecord, Outcome
<1>11. ModesNest'
  BY <1>1, <1>4, MovingModes
<1>12. ErrorsAreReported'
  BY <1>1 DEF ErrorsAreReported
<1> QED
  BY <1>8, <1>9, <1>10, <1>11, <1>12 DEF ScopeInv

-----------------------------------------------------------------------------
(* A nested interpreter has no scope open                                  *)

Grows(depth) ==
    LET m == Len(frames) + 1
        g == frames'[m]
    IN
    /\ Len(frames') = m /\ DOMAIN frames' = 1 .. m
    /\ \A i \in DOMAIN frames :
          /\ SameFrame(frames'[i], frames[i])
          /\ frames'[i].environment = frames[i].environment
          /\ DepthAt(depth, frames'[i]) = DepthAt(depth, frames[i])
    /\ g.parent \in Nat /\ g.environment = g.parent + 1
    /\ DepthAt(depth, g).scopes = 0 /\ DepthAt(depth, g).unifications = 0
    /\ UNCHANGED <<program, scopes, unifications, typeErrors>>
    /\ ScopeTypes' /\ ModesNest'
    /\ outcome' \in {"start", "check", "checked"} => outcome \in {"start", "check", "checked"}

LEMMA GrowsKeeps ==
    ASSUME NEW depth, IsNesting(depth), StackInv, ScopeInv(depth), Grows(depth)
    PROVE  ScopeInv(depth)'
<1>1. PICK n \in Nat : n = Len(frames) /\ DOMAIN frames = 1 .. n
  BY SequenceFacts DEF StackInv, Shaped
<1>2. PICK m \in Nat : m = n + 1
  OBVIOUS
<1>3. /\ Len(frames') = m /\ DOMAIN frames' = 1 .. m
      /\ \A i \in 1 .. n :
          /\ SameFrame(frames'[i], frames[i])
          /\ frames'[i].environment = frames[i].environment
          /\ DepthOf(depth, i)' = DepthOf(depth, i)
      /\ frames'[m].parent \in Nat /\ frames'[m].environment = frames'[m].parent + 1
      /\ DepthOf(depth, m)'.scopes = 0 /\ DepthOf(depth, m)'.unifications = 0
      /\ UNCHANGED <<program, scopes, unifications, typeErrors>>
  BY <1>1, <1>2 DEF Grows, DepthOf, DepthAt
<1>4. /\ \A i \in 1 .. m : i \in 1 .. n \/ i = m
      /\ \A i \in 1 .. n : i \in 1 .. m /\ i # m
      /\ m \in 1 .. m
  BY <1>2
<1>5. scopes \in Seq(Nat) /\ \A k \in DOMAIN scopes : scopes[k] \in 1 .. n
  BY <1>1 DEF ScopeInv, ScopeTypes, ScopesAreOrdered
<1>6. Opened(scopes, m) = 0
  BY <1>4, <1>5, OpenedIsNat
<1>7. \A i \in 1 .. m : OpenScopes(i)' = Opened(scopes, i)
  BY <1>3 DEF OpenScopes, Opened, OpenedBy
<1>8. \A i \in 1 .. n : OpenScopes(i) = Opened(scopes, i)
  BY DEF OpenScopes, Opened, OpenedBy
<1>9. ScopesAreOrdered'
  BY <1>3, <1>4, <1>5 DEF ScopeInv, ScopesAreOrdered
<1>10. EnvironmentsCount'
  <2>1. ASSUME NEW i \in 1 .. m
        PROVE  /\ frames'[i].parent \in Nat
               /\ frames'[i].environment = frames'[i].parent + 1 + Opened(scopes, i)
    <3>1. CASE i \in 1 .. n
      BY <1>1, <1>3, <1>8, <3>1 DEF ScopeInv, EnvironmentsCount, SameFrame
    <3>2. CASE i = m
      <4>1. PICK p \in Nat : p = frames'[m].parent
        BY <1>3
      <4>2. frames'[m].environment = p + 1 + 0
        BY <1>3, <4>1
      <4> QED
        BY <1>6, <3>2, <4>1, <4>2
    <3> QED
      BY <1>4, <3>1, <3>2
  <2> QED
    BY <1>3, <1>7, <2>1 DEF EnvironmentsCount
<1>11. ScopesCount(depth)'
  <2>1. \A i \in 1 .. n : Opened(scopes, i) = DepthOf(depth, i)'.scopes
    BY <1>1, <1>3, <1>8 DEF ScopeInv, ScopesCount
  <2> QED
    BY <1>3, <1>4, <1>6, <1>7, <2>1 DEF ScopesCount
<1>12. UnificationsCount(depth)'
  <2>1. PICK below : LiesOn(depth, below)
    BY DEF ScopeInv, UnificationsCount
  <2>2. PICK u \in Nat : u = Len(unifications)
    BY SequenceFacts DEF ScopeInv, ScopeTypes
  <2>3. /\ below \in [1 .. m -> Nat] /\ below[1] = 0 /\ below[m] = u
        /\ \A i \in 1 .. n : below[i + 1] = below[i] + DepthOf(depth, i).unifications
        /\ \A i, k \in 1 .. m : i <= k => below[i] <= below[k]
    BY <1>1, <1>2, <2>1, <2>2 DEF LiesOn
  <2>4. PICK above : above = [i \in 1 .. m + 1 |-> IF i = m + 1 THEN u ELSE below[i]]
    OBVIOUS
  <2>5. /\ \A i \in 1 .. m + 1 : i \in 1 .. m \/ i = m + 1
        /\ \A i \in 1 .. m : i \in 1 .. m + 1 /\ i # m + 1 /\ i <= m
        /\ m + 1 \in 1 .. m + 1
        /\ 1 \in 1 .. m
        /\ \A i \in 1 .. n : i + 1 \in 1 .. m
    BY <1>2
  <2>6. /\ above \in [1 .. m + 1 -> Nat] /\ above[m + 1] = u
        /\ \A i \in 1 .. m : above[i] = below[i]
    BY <2>2, <2>3, <2>4, <2>5
  <2>7. ASSUME NEW i \in 1 .. m
        PROVE  above[i + 1] = above[i] + DepthOf(depth, i)'.unifications
    <3>1. CASE i \in 1 .. n
      BY <1>3, <1>4, <2>3, <2>5, <2>6, <3>1
    <3>2. CASE i = m
      BY <1>3, <2>3, <2>5, <2>6, <3>2, <1>4
    <3> QED
      BY <1>4, <3>1, <3>2
  <2>8. ASSUME NEW i \in 1 .. m + 1, NEW k \in 1 .. m + 1, i <= k
        PROVE  above[i] <= above[k]
    <3>1. CASE k \in 1 .. m
      <4>1. i \in 1 .. m
        BY <2>8, <3>1
      <4> QED
        BY <2>3, <2>6, <2>8, <3>1, <4>1
    <3>2. CASE k = m + 1
      <4>1. CASE i = m + 1
        BY <2>6, <3>2, <4>1
      <4>2. CASE i \in 1 .. m
        BY <1>4, <2>3, <2>5, <2>6, <3>2, <4>2
      <4> QED
        BY <2>5, <4>1, <4>2
    <3> QED
      BY <2>5, <3>1, <3>2
  <2>9. LiesOn(depth, above)'
    BY <1>3, <2>2, <2>3, <2>5, <2>6, <2>7, <2>8 DEF LiesOn
  <2> QED
    BY <2>9 DEF UnificationsCount
<1>13. ErrorsAreReported'
  BY DEF Grows, ScopeInv, ErrorsAreReported
<1> QED
  BY <1>9, <1>10, <1>11, <1>12, <1>13 DEF ScopeInv, Grows

LEMMA AppendedTo ==
    ASSUME NEW S, NEW s \in Seq(S), NEW r, NEW t, t = Append(s, r)
    PROVE  /\ Len(t) = Len(s) + 1 /\ DOMAIN t = 1 .. Len(s) + 1
           /\ t[Len(s) + 1] = r
           /\ \A i \in 1 .. Len(s) : t[i] = s[i]
  OBVIOUS

LEMMA NestedFrame ==
    ASSUME NEW depth, IsNesting(depth), StackInv, StackInv', program' = program,
           NEW below, Beneath(below), NEW block, NEW mode, NEW start, NEW parent, NEW args,
           Nest(below, block, mode, start, parent, args)
    PROVE  LET m == Len(frames) + 1
               g == frames'[m]
           IN
           /\ Len(frames') = m /\ DOMAIN frames' = 1 .. m
           /\ \A i \in DOMAIN frames :
                 /\ SameFrame(frames'[i], frames[i])
                 /\ frames'[i].environment = frames[i].environment
                 /\ DepthAt(depth, frames'[i]) = DepthAt(depth, frames[i])
           /\ g.block = block /\ g.mode = mode
           /\ g.parent = parent /\ g.environment = parent + 1
           /\ DepthAt(depth, g).scopes = 0 /\ DepthAt(depth, g).unifications = 0
<1>1. PICK n \in Nat : n = Len(frames) /\ DOMAIN frames = 1 .. n
  BY SequenceFacts DEF StackInv, Shaped
<1>2. PICK m \in Nat : m = n + 1 /\ m \in 1 .. m
  OBVIOUS
<1>3. PICK r : /\ frames' = Append(below, r)
               /\ r.block = block /\ r.mode = mode /\ r.pc = start
               /\ r.parent = parent /\ r.environment = parent + 1
               /\ r.cfr.index = 0
  BY DEF Nest
<1>4. /\ below \in Seq(Shape) /\ Len(below) = n
      /\ \A i \in 1 .. n :
            /\ SameFrame(below[i], frames[i])
            /\ below[i].pc = frames[i].pc /\ below[i].environment = frames[i].environment
  BY <1>1 DEF Beneath
<1>5. /\ Len(frames') = m /\ DOMAIN frames' = 1 .. m /\ frames'[m] = r
      /\ \A i \in 1 .. n : frames'[i] = below[i]
  BY <1>2, <1>3, <1>4, AppendedTo
<1>6. \A i \in 1 .. n : DepthAt(depth, frames'[i]) = DepthAt(depth, frames[i])
  BY <1>4, <1>5 DEF DepthAt, SameFrame
<1>7. FrameIsInCode(m)'
  BY <1>2, <1>5 DEF StackInv, Control
<1>8. /\ block \in Compiled(program) /\ start \in DOMAIN Code[program][block]
      /\ Code[program][block][start].op = "enter"
  <2>1. ~(r.cfr.index > 0)
    BY <1>3
  <2> QED
    BY <1>3, <1>5, <1>7, <2>1 DEF FrameIsInCode, Entered
<1>9. depth[program][block][start].scopes = 0 /\ depth[program][block][start].unifications = 0
  BY <1>8, DepthFacts
<1>10. DepthAt(depth, frames'[m]) = depth[program][block][start]
  BY <1>3, <1>5 DEF DepthAt
<1> QED
  BY <1>1, <1>2, <1>3, <1>4, <1>5, <1>6, <1>9, <1>10

\* Under an interpreter that runs no interpreter checks.
LEMMA GrownModes ==
    ASSUME StackInv, ModesNest, NEW n \in Nat \ {0}, n = Len(frames),
           DOMAIN frames' = 1 .. n + 1,
           \A i \in DOMAIN frames : SameFrame(frames'[i], frames[i]),
           frames'[n + 1].mode = "run" \/ (Top.mode = "check" /\ frames'[n + 1].mode = "check"),
           outcome' = outcome
    PROVE  ModesNest'
<1>1. /\ DOMAIN frames = 1 .. n /\ 1 \in 1 .. n /\ n \in 1 .. n
      /\ frames # <<>> /\ Top = frames[n]
  BY TopFacts, SequenceFacts DEF StackInv, Shaped
<1>2. \A i \in 1 .. n : frames'[i].mode = frames[i].mode /\ frames'[i].block = frames[i].block
  BY <1>1 DEF SameFrame
<1>3. ASSUME NEW i \in 1 .. n + 1, NEW k \in 1 .. n + 1, i < k, frames'[i].mode = "run"
      PROVE  frames'[k].mode = "run"
  <2>1. i \in 1 .. n
    BY <1>3
  <2>2. frames[i].mode = "run"
    BY <1>2, <1>3, <2>1
  <2>3. CASE k \in 1 .. n
    BY <1>1, <1>2, <1>3, <2>1, <2>2, <2>3 DEF ModesNest
  <2>4. CASE k = n + 1
    <3>1. i = n \/ i < n
      BY <2>1
    <3>2. Top.mode = "run"
      BY <1>1, <2>1, <2>2, <3>1 DEF ModesNest
    <3> QED
      BY <2>4, <3>2
  <2> QED
    BY <2>3, <2>4
<1>4. /\ frames[1].block = Main
      /\ outcome = "check" => frames[1].mode = "check"
      /\ outcome = "run" => frames[1].mode = "run"
  BY <1>1 DEF ModesNest
<1> QED
  BY <1>1, <1>2, <1>3, <1>4 DEF ModesNest

\* main() checks the program's block, and runs it.
LEMMA StartGrows ==
    ASSUME NEW depth, IsNesting(depth), StackInv, ScopeInv(depth), StartCheck \/ StartRun
    PROVE  Grows(depth)
<1>1. StackInv' /\ frames = <<>> /\ Len(frames) = 0 /\ DOMAIN frames = {}
  BY StartNests, NestsKeeps DEF StartCheck, StartRun, StackInv, Control
<1>2. Beneath(<<>>)
  BY <1>1 DEF Beneath
<1>3. PICK mode, start :
        /\ mode \in {"check", "run"} /\ outcome' = mode
        /\ Nest(<<>>, Main, mode, start, 0, <<>>)
  BY DEF StartCheck, StartRun
<1>4. UNCHANGED <<program, scopes, unifications, typeErrors, functions, evals>>
  BY DEF StartCheck, StartRun, typingVars
<1>5. /\ Len(frames') = 1 /\ DOMAIN frames' = 1 .. 1
      /\ frames'[1].block = Main /\ frames'[1].mode = mode
      /\ frames'[1].parent = 0 /\ frames'[1].environment = 0 + 1
      /\ DepthAt(depth, frames'[1]).scopes = 0 /\ DepthAt(depth, frames'[1]).unifications = 0
  BY <1>1, <1>2, <1>3, <1>4, NestedFrame
<1>6. ModesNest'
  <2>1. \A i \in 1 .. 1 : i = 1
    OBVIOUS
  <2> QED
    BY <1>3, <1>5, <2>1 DEF ModesNest
<1>7. ScopeTypes'
  BY <1>3, <1>4 DEF ScopeInv, ScopeTypes, Outcome
<1>8. outcome \in {"start", "checked"}
  BY DEF StartCheck, StartRun
<1> QED
  BY <1>1, <1>4, <1>5, <1>6, <1>7, <1>8 DEF Grows

\* What nested interpreters have in common.
LEMMA NestedGrows ==
    ASSUME NEW depth, IsNesting(depth), StackInv, ScopeInv(depth), Nests, frames # <<>>,
           NEW below, Beneath(below), NEW block, NEW mode, NEW start, NEW parent \in Nat,
           NEW args, Nest(below, block, mode, start, parent, args),
           mode = "run" \/ (Top.mode = "check" /\ mode = "check"),
           UNCHANGED <<program, scopes, unifications, typeErrors, functions, outcome>>,
           evals' \in 0 .. MaxEvals
    PROVE  Grows(depth)
<1>1. StackInv'
  BY NestsKeeps
<1>2. PICK n \in Nat \ {0} : n = Len(frames)
  BY TopFacts
<1>3. /\ Len(frames') = n + 1 /\ DOMAIN frames' = 1 .. n + 1
      /\ \A i \in DOMAIN frames :
            /\ SameFrame(frames'[i], frames[i])
            /\ frames'[i].environment = frames[i].environment
            /\ DepthAt(depth, frames'[i]) = DepthAt(depth, frames[i])
      /\ frames'[n + 1].mode = mode
      /\ frames'[n + 1].parent = parent /\ frames'[n + 1].environment = parent + 1
      /\ DepthAt(depth, frames'[n + 1]).scopes = 0
      /\ DepthAt(depth, frames'[n + 1]).unifications = 0
  BY <1>1, <1>2, NestedFrame
<1>4. ModesNest'
  BY <1>2, <1>3, GrownModes DEF ScopeInv
<1>5. ScopeTypes'
  BY DEF ScopeInv, ScopeTypes
<1> QED
  BY <1>2, <1>3, <1>4, <1>5 DEF Grows

LEMMA CallGrows ==
    ASSUME NEW depth, IsNesting(depth), StackInv, ScopeInv(depth),
           NEW callee \in Block, Call(callee)
    PROVE  Grows(depth)
<1>1. Executes({"call"}) /\ {"call"} \subseteq Waiting /\ "enter" \notin {"call"}
  BY DEF Call, Waiting
<1>2. Nests /\ frames # <<>>
  BY <1>1, CallNests, Executing
<1>3. PICK below, args, mode, start, parent :
        /\ below = [frames EXCEPT ![Len(frames)] = Hold(Top)]
        /\ mode = "run" /\ start = CodeStart[program][callee] /\ parent = functions[callee]
        /\ Nest(below, callee, mode, start, parent, args)
  BY DEF Call
<1>4. Beneath(below)
  BY <1>1, <1>3, HoldingBeneath
<1>5. parent \in Nat
  BY <1>3 DEF Call, ScopeInv, ScopeTypes, Environment
<1>6. UNCHANGED <<program, scopes, unifications, typeErrors, functions, outcome, evals>>
  BY DEF Call, typingVars
<1>7. evals' \in 0 .. MaxEvals
  BY <1>6 DEF ScopeInv, ScopeTypes
<1>8. mode = "run" \/ (Top.mode = "check" /\ mode = "check")
  BY <1>3
<1> QED
  BY <1>2, <1>3, <1>4, <1>5, <1>6, <1>7, <1>8, NestedGrows

LEMMA CheckGrows ==
    ASSUME NEW depth, IsNesting(depth), StackInv, ScopeInv(depth), CheckFunction
    PROVE  Grows(depth)
<1>1. Executes({"newFunction"}) /\ {"newFunction"} \subseteq Waiting
      /\ "enter" \notin {"newFunction"}
  BY DEF CheckFunction, Waiting
<1>2. Nests /\ frames # <<>>
  BY <1>1, CheckNests, Executing
<1>3. PICK below :
        /\ below = [frames EXCEPT ![Len(frames)] = Hold(Top)]
        /\ Nest(below, Instruction.function, "check", 1, Top.environment, <<>>)
  BY DEF CheckFunction
<1>4. Beneath(below)
  BY <1>1, <1>3, HoldingBeneath
<1>5. Top.environment \in Nat /\ Top.mode = "check"
  BY <1>2, TopFacts, EnvironmentIsNat DEF CheckFunction
<1>6. UNCHANGED <<program, scopes, unifications, typeErrors, functions, outcome, evals>>
  BY DEF CheckFunction, typingVars
<1>7. evals' \in 0 .. MaxEvals
  BY <1>6 DEF ScopeInv, ScopeTypes
<1> QED
  BY <1>2, <1>3, <1>4, <1>5, <1>6, <1>7, NestedGrows

LEMMA HoleGrows ==
    ASSUME NEW depth, IsNesting(depth), StackInv, ScopeInv(depth), EvaluateHole
    PROVE  Grows(depth)
<1>1. Returned
  BY DEF EvaluateHole, Solves
<1>2. Nests /\ frames # <<>> /\ Beneath(frames)
  BY <1>1, HoleNests, WaitingBeneath, Waits
<1>3. PICK parent \in Nat : parent = frames[current].environment + 1
  <2>1. frames[current].environment \in Nat
    BY <1>2, TopFacts, EnvironmentIsNat
  <2> QED
    BY <2>1
<1>4. PICK mode, start : mode = "run" /\ Nest(frames, Hole, mode, start, parent, <<>>)
  BY <1>3 DEF EvaluateHole
<1>5. UNCHANGED <<program, scopes, unifications, typeErrors, functions, outcome>>
  BY DEF EvaluateHole, typingVars
<1>6. evals' \in 0 .. MaxEvals
  <2>1. /\ evals \in 0 .. MaxEvals /\ MaxEvals \in Nat
        /\ evals < MaxEvals /\ evals' = evals + 1
    BY InterpreterAssumption DEF EvaluateHole, ScopeInv, ScopeTypes
  <2> QED
    BY <2>1
<1>7. mode = "run" \/ (Top.mode = "check" /\ mode = "check")
  BY <1>4
<1> QED
  BY <1>2, <1>3, <1>4, <1>5, <1>6, <1>7, NestedGrows

-----------------------------------------------------------------------------
(* The end of an interpreter, which has closed its scopes                  *)

LEMMA EndKeepsScopes ==
    ASSUME NEW depth, IsNesting(depth), StackInv, ScopeInv(depth), End
    PROVE  ScopeInv(depth)'
<1>1. PICK n \in Nat \ {0} :
        /\ n = Len(frames) /\ DOMAIN frames = 1 .. n /\ Top = frames[n]
        /\ frames # <<>> /\ n \in 1 .. n
  BY Ending, TopFacts
<1>2. PICK m \in Nat : m = n - 1 /\ n = m + 1
  OBVIOUS
<1>3. /\ outcome \in {"check", "run"} /\ Len(frames') = m /\ DOMAIN frames' = 1 .. m
      /\ \A i \in 1 .. m :
            /\ SameFrame(frames'[i], frames[i]) /\ frames'[i].pc = frames[i].pc
            /\ frames'[i].environment = frames[i].environment
  <2>1. frames' \in Seq(Shape) /\ Len(frames') = m
    BY <1>1, <1>2, Ending
  <2> QED
    BY <1>1, <1>2, <2>1, Ending, SequenceFacts
<1>4. UNCHANGED <<program, scopes, unifications, typeErrors, functions, evals>>
  BY DEF End, typingVars
<1>5. \A i \in 1 .. m : DepthOf(depth, i)' = DepthOf(depth, i)
  BY <1>3, <1>4 DEF DepthOf, SameFrame
<1>6. \A i \in 1 .. m : OpenScopes(i)' = OpenScopes(i)
  BY <1>4 DEF OpenScopes
<1>7. \A i \in 1 .. m : i \in 1 .. n /\ i # n /\ i < n
  BY <1>2
<1>8. DepthOf(depth, n).scopes = 0 /\ DepthOf(depth, n).unifications = 0
  <2>1. Instruction.op = "end"
    BY DEF End, Executes
  <2>2. Code[program][frames[n].block][frames[n].pc].op \in {"enter", "end"}
    BY <1>1, <2>1 DEF Instruction
  <2> QED
    BY <1>1, <2>2, FrameDepth
<1>9. ScopesAreOrdered'
  <2>1. Opened(scopes, n) = 0
    BY <1>1, <1>8 DEF ScopeInv, ScopesCount, OpenScopes, Opened, OpenedBy
  <2>2. \A k \in DOMAIN scopes : scopes[k] \in 1 .. n /\ scopes[k] # n
    BY <1>1, <2>1, OpenedIsNat DEF ScopeInv, ScopesAreOrdered, ScopeTypes
  <2>3. \A i \in 1 .. n : i # n => i \in 1 .. m
    BY <1>2
  <2> QED
    BY <1>3, <1>4, <2>2, <2>3 DEF ScopeInv, ScopesAreOrdered
<1>10. EnvironmentsCount'
  BY <1>1, <1>3, <1>6, <1>7 DEF ScopeInv, EnvironmentsCount, SameFrame
<1>11. ScopesCount(depth)'
  BY <1>1, <1>3, <1>5, <1>6, <1>7 DEF ScopeInv, ScopesCount
<1>12. UnificationsCount(depth)'
  <2>1. PICK below : LiesOn(depth, below)
    BY DEF ScopeInv, UnificationsCount
  <2>2. /\ below \in [1 .. n + 1 -> Nat] /\ below[1] = 0 /\ below[n + 1] = Len(unifications)
        /\ \A i \in 1 .. n : below[i + 1] = below[i] + DepthOf(depth, i).unifications
        /\ \A i, k \in 1 .. n + 1 : i <= k => below[i] <= below[k]
    BY <1>1, <2>1 DEF LiesOn
  <2>3. PICK above : above = [i \in 1 .. m + 1 |-> below[i]]
    OBVIOUS
  <2>4. \A i \in 1 .. m + 1 : i \in 1 .. n + 1
    BY <1>2
  <2>5. /\ 1 \in 1 .. m + 1 /\ m + 1 \in 1 .. m + 1
        /\ \A i \in 1 .. m : i \in 1 .. m + 1 /\ i + 1 \in 1 .. m + 1
    OBVIOUS
  <2>6. /\ above \in [1 .. m + 1 -> Nat]
        /\ \A i \in 1 .. m + 1 : above[i] = below[i]
    BY <2>2, <2>3, <2>4
  <2>7. above[m + 1] = Len(unifications')
    <3>1. PICK low \in Nat : low = below[n] /\ below[n + 1] = low + 0
      BY <1>1, <1>8, <2>2
    <3>2. below[n] = below[n + 1]
      BY <3>1
    <3> QED
      BY <1>2, <1>4, <2>2, <2>5, <2>6, <3>2
  <2>8. \A i \in 1 .. m : above[i + 1] = above[i] + DepthOf(depth, i)'.unifications
    BY <1>5, <1>7, <2>2, <2>5, <2>6
  <2>9. above[1] = 0 /\ \A i, k \in 1 .. m + 1 : i <= k => above[i] <= above[k]
    BY <2>2, <2>4, <2>5, <2>6
  <2>10. LiesOn(depth, above)'
    BY <1>3, <2>6, <2>7, <2>8, <2>9 DEF LiesOn
  <2> QED
    BY <2>10 DEF UnificationsCount
<1>13. outcome' = IF m # 0 THEN outcome ELSE IF outcome = "check" THEN "checked" ELSE "done"
  <2>1. frames \in Seq(Shape) /\ frames # <<>>
    BY <1>1 DEF StackInv, Shaped
  <2>2. Outer(frames) \in Seq(Shape) /\ Len(Outer(frames)) = m
    BY <1>1, <1>2, <2>1, OuterPart
  <2>3. Outer(frames) # <<>> <=> m # 0
    BY <2>2, SequenceFacts
  <2> QED
    BY <2>3 DEF End
<1>14. ScopeTypes'
  BY <1>3, <1>4, <1>13 DEF ScopeInv, ScopeTypes, Outcome
<1>15. ModesNest'
  <2>1. \A i \in 1 .. m :
          frames'[i].mode = frames[i].mode /\ frames'[i].block = frames[i].block
    BY <1>3 DEF SameFrame
  <2>2. frames' # <<>> => m # 0 /\ 1 \in 1 .. m
    BY <1>3
  <2> QED
    BY <1>1, <1>3, <1>7, <1>13, <2>1, <2>2 DEF ScopeInv, ModesNest
<1>16. ErrorsAreReported'
  BY <1>3, <1>4, <1>13 DEF ScopeInv, ErrorsAreReported
<1> QED
  BY <1>9, <1>10, <1>11, <1>12, <1>14, <1>15, <1>16 DEF ScopeInv

-----------------------------------------------------------------------------
(* The invariant, and what it says                                         *)

LEMMA InitScopes ==
    ASSUME NEW depth, IsNesting(depth), Init
    PROVE  ScopeInv(depth)
<1>1. /\ frames = <<>> /\ scopes = <<>> /\ unifications = <<>> /\ typeErrors = FALSE
      /\ functions = [b \in Block |-> NoEnvironment] /\ evals = 0 /\ outcome = "start"
  BY DEF Init
<1>2. DOMAIN frames = {} /\ DOMAIN scopes = {} /\ Len(frames) = 0 /\ Len(unifications) = 0
  BY <1>1
<1>3. ScopeTypes
  <2>1. functions \in [Block -> Environment \union {NoEnvironment}]
    BY <1>1
  <2>2. 0 \in 0 .. MaxEvals
    BY InterpreterAssumption
  <2>3. <<>> \in Seq(Nat) /\ <<>> \in Seq([finalized : BOOLEAN, pending : Nat])
    OBVIOUS
  <2> QED
    BY <1>1, <2>1, <2>2, <2>3 DEF ScopeTypes, Outcome
<1>4. UnificationsCount(depth)
  <2>1. PICK below : below = [i \in 1 .. 1 |-> 0]
    OBVIOUS
  <2>2. LiesOn(depth, below)
    BY <1>2, <2>1 DEF LiesOn
  <2> QED
    BY <2>2 DEF UnificationsCount
<1>5. ScopesAreOrdered /\ EnvironmentsCount /\ ScopesCount(depth) /\ ModesNest
  BY <1>1, <1>2 DEF ScopesAreOrdered, EnvironmentsCount, ScopesCount, ModesNest
<1>6. ErrorsAreReported
  BY <1>1 DEF ErrorsAreReported
<1> QED
  BY <1>3, <1>4, <1>5, <1>6 DEF ScopeInv

LEMMA NextKeepsScopes ==
    ASSUME NEW depth, IsNesting(depth), StackInv, ScopeInv(depth), [Next]_vars
    PROVE  ScopeInv(depth)'
<1>1. CASE Lifetime
  BY <1>1, StartGrows, GrowsKeeps, EnterIsCalm, CalmKeeps, EndKeepsScopes DEF Lifetime
<1>2. CASE OwnStep
  BY <1>2, OwnStepsAreCalm, JumpIsCalm, CalmKeeps DEF OwnStep
<1>3. CASE NestingStep
  BY <1>3, OwnStepsAreCalm, CallGrows, CheckGrows, GrowsKeeps, DefiningIsCalm, FinishIsCalm,
     CalmKeeps DEF NestingStep
<1>4. CASE TypingStep
  BY <1>4, PushScopeKeeps, PopScopeKeeps, PushUnificationKeeps, RecordingIsCalm, FinalizeIsCalm,
     SolvingIsCalm, HoleGrows, GrowsKeeps, FinishIsCalm, CalmKeeps, FinishPopKeeps DEF TypingStep
<1>5. CASE UNCHANGED vars
  BY <1>5, StutteringIsCalm, CalmKeeps
<1> QED
  BY <1>1, <1>2, <1>3, <1>4, <1>5 DEF Next

\* For code that nests its scopes: on every path, through any number of interpreters that
\* nest, as many scopes are open as the instructions of the frames are deep.
THEOREM ScopeInvHolds ==
    ASSUME NEW CONSTANT depth, IsNesting(depth)
    PROVE  Spec => [](StackInv /\ ScopeInv(depth))
<1>1. Init => StackInv /\ ScopeInv(depth)
  BY InitStack, InitScopes
<1>2. StackInv /\ ScopeInv(depth) /\ [Next]_vars => (StackInv /\ ScopeInv(depth))'
  BY NextKeeps, NextKeepsScopes
<1> QED
  BY <1>1, <1>2, PTL DEF Spec

LEMMA NestRight ==
    ASSUME NEW depth, IsNesting(depth), StackInv, ScopeInv(depth)
    PROVE  ScopesNest
<1>1. scopes \in Seq(Nat) /\ DOMAIN scopes = 1 .. Len(scopes)
  BY DEF ScopeInv, ScopeTypes
<1>2. ASSUME NEW k \in DOMAIN scopes
      PROVE  scopes[k] \in DOMAIN frames /\ (k > 1 => scopes[k - 1] <= scopes[k])
  <2>1. k \in Nat /\ (k > 1 => k - 1 \in DOMAIN scopes /\ k - 1 <= k)
    BY <1>1
  <2> QED
    BY <2>1 DEF ScopeInv, ScopesAreOrdered
<1>3. \A i \in DOMAIN frames :
        frames[i].environment =
            frames[i].parent + 1 + Cardinality({k \in DOMAIN scopes : scopes[k] = i})
  BY DEF ScopeInv, EnvironmentsCount, OpenScopes
<1>4. ASSUME Executes({"end"}) PROVE Top.environment = Top.parent + 1
  <2>1. frames # <<>> /\ Instruction.op = "end"
    BY <1>4 DEF Executes
  <2>2. Len(frames) \in DOMAIN frames /\ Top = frames[Len(frames)]
    BY <2>1, TopFacts
  <2>3. Code[program][frames[Len(frames)].block][frames[Len(frames)].pc].op \in {"enter", "end"}
    BY <2>1, <2>2 DEF Instruction
  <2>4. DepthOf(depth, Len(frames)).scopes = 0
    BY <2>2, <2>3, FrameDepth
  <2>5. OpenScopes(Len(frames)) = 0
    BY <2>2, <2>4 DEF ScopeInv, ScopesCount
  <2>6. PICK p \in Nat : p = Top.parent
    BY <2>2 DEF ScopeInv, EnvironmentsCount
  <2>7. Top.environment = p + 1 + 0
    BY <2>2, <2>5, <2>6 DEF ScopeInv, EnvironmentsCount
  <2> QED
    BY <2>6, <2>7
<1> QED
  BY <1>2, <1>3, <1>4 DEF ScopesNest

LEMMA CheckedRight ==
    ASSUME NEW depth, IsNesting(depth), StackInv, ScopeInv(depth), outcome = "checked"
    PROVE  ~typeErrors /\ unifications = <<>> /\ scopes = <<>>
<1>1. frames = <<>> /\ DOMAIN frames = {} /\ Len(frames) = 0
  BY DEF StackInv, Control
<1>2. scopes \in Seq(Nat) /\ unifications \in Seq(UnificationRecord)
  BY DEF ScopeInv, ScopeTypes, UnificationRecord
<1>3. scopes = <<>>
  <2>1. DOMAIN scopes = {}
    BY <1>1 DEF ScopeInv, ScopesAreOrdered
  <2> QED
    BY <1>2, <2>1
<1>4. unifications = <<>>
  <2>1. PICK below : LiesOn(depth, below)
    BY DEF ScopeInv, UnificationsCount
  <2>2. Len(unifications) = 0
    BY <1>1, <2>1 DEF LiesOn
  <2> QED
    BY <1>2, <2>2, SequenceFacts
<1>5. ~typeErrors
  BY <1>4 DEF ScopeInv, ErrorsAreReported
<1> QED
  BY <1>3, <1>4, <1>5

LEMMA TilesRight ==
    ASSUME NEW depth, IsNesting(depth), StackInv, ScopeInv(depth)
    PROVE  FramesTileTheStack
<1>1. /\ frames \in Seq(Shape) /\ DOMAIN frames = 1 .. Len(frames) /\ Len(frames) \in Nat
  BY SequenceFacts DEF StackInv, Shaped
<1>2. ASSUME NEW i \in 1 .. Len(frames) PROVE frames[i] \in Frame
  <2>1. PICK f \in Shape : f = frames[i]
    BY <1>1, SequenceFacts
  <2>2. f.environment \in Nat /\ f.parent \in Nat
    BY <1>1, <2>1, EnvironmentIsNat
  <2> QED
    BY <2>1, <2>2 DEF Shape, Frame, Environment
<1>3. frames \in Seq(Frame)
  <2>1. frames = [i \in 1 .. Len(frames) |-> frames[i]]
    BY <1>1
  <2>2. frames \in [1 .. Len(frames) -> Frame]
    BY <1>2, <2>1
  <2> QED
    BY <1>1, <2>2, FunctionIsSequence
<1>4. current \in 0 .. Len(frames)
  BY <1>1 DEF StackInv, Control
<1>5. TypeOK
  BY <1>3, <1>4 DEF TypeOK, StackInv, Shaped, ScopeInv, ScopeTypes
<1> QED
  BY <1>5 DEF FramesTileTheStack, StackInv, Tiles

\* Scopes close in the interpreter that opened them, on every path: its environment is as
\* many levels deep as it has scopes open, and at its End it has none.
THEOREM ScopesNestRight ==
    ASSUME NEW CONSTANT depth, IsNesting(depth)
    PROVE  Spec => []ScopesNest
<1>1. StackInv /\ ScopeInv(depth) => ScopesNest
  BY NestRight
<1> QED
  BY <1>1, ScopeInvHolds, PTL

\* A program that has been checked has no scope open, and no error.
THEOREM CheckedProgramsAreChecked ==
    ASSUME NEW CONSTANT depth, IsNesting(depth)
    PROVE  Spec => []CheckedMeansChecked
<1>1. StackInv /\ ScopeInv(depth) => CheckedMeansChecked
  BY CheckedRight DEF CheckedMeansChecked
<1> QED
  BY <1>1, ScopeInvHolds, PTL

\* The frames divide vm.stack among them, and every variable keeps to its type:
\* environments are never popped below the global one.
THEOREM FramesTile ==
    ASSUME NEW CONSTANT depth, IsNesting(depth)
    PROVE  Spec => []FramesTileTheStack
<1>1. StackInv /\ ScopeInv(depth) => FramesTileTheStack
  BY TilesRight
<1> QED
  BY <1>1, ScopeInvHolds, PTL
=============================================================================
