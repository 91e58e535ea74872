---------------------------- MODULE Interpreter ----------------------------
(***************************************************************************)
(* The bytecode interpreter (runtime/Interpreter): main() checks the       *)
(* program's block and then runs it, each in an Interpreter object;        *)
(* function definitions (while checking), calls, and the holes that        *)
(* constraint solving evaluates nest further ones.  They share the vector  *)
(* vm.stack, which every interpreter addresses through a raw pointer       *)
(* (m_cfr), the chain of typing scopes and the chain of unification        *)
(* scopes.                                                                 *)
(*                                                                         *)
(* The instructions are those of the module Typing, plus "load".           *)
(***************************************************************************)
EXTENDS Integers, Sequences, FiniteSets

CONSTANTS
    Program,        \* the programs reach may be started with
    Block,          \* BytecodeBlocks
    Main, Hole,     \* the program's block; the block of a hole being evaluated
    Native,         \* a function of the runtime, like print
    Code,           \* Code[p][b]: the instructions of block b of program p
    HoleCallees,    \* the functions the types of a program call
    CodeStart,      \* m_codeStart: where the code that runs begins
    NumLocals,      \* m_numLocals of each block
    Val, Crash,     \* register contents; Value::crash()
    NoEnvironment,  \* a function that has no Function object yet
    MaxDepth,       \* bound on nested interpreters
    MaxEvals        \* bound on the holes evaluated in one behaviour

ASSUME InterpreterAssumption ==
    /\ {Main, Hole} \subseteq Block /\ Native \notin Block
    /\ NumLocals \in [Block -> Nat \ {0}]
    /\ \E most \in Block : \A b \in Block : NumLocals[b] <= NumLocals[most]
    /\ CodeStart \in [Program -> [Block -> Nat \ {0}]]
    /\ HoleCallees \in [Program -> SUBSET Block]
    /\ Crash \in Val
    /\ NoEnvironment \notin Nat
    /\ {MaxDepth, MaxEvals} \subseteq Nat

-----------------------------------------------------------------------------
(* What the compiler guarantees of the blocks it has compiled.             *)

Compiled(p) == {b \in Block : CodeStart[p][b] \in DOMAIN Code[p][b]}

\* Instructions that may wait in preserveStack, and those that type check.
Waiting == {"call", "newFunction", "resolve", "infer", "popUnification"}
Checking == {"pushScope", "popScope", "pushUnification", "popUnification",
             "constrain", "resolve", "infer"}

\* Instructions whose result goes to a register of theirs.
Writing == {"load", "call", "newFunction", "resolve", "infer"}

\* Both parts of a block begin with Enter, and no instruction but the last of a
\* part leads out of it, or back to its beginning.
StaysInside(p, b) ==
    LET code == Code[p][b]
        start == CodeStart[p][b]
        Inside(pc, to) == /\ to \in DOMAIN code \ {1, start}
                          /\ to < start <=> pc < start
    IN  /\ DOMAIN code \subseteq Nat \ {0}
        /\ 1..start \subseteq DOMAIN code
        /\ \A pc \in DOMAIN code :
              /\ code[pc].op = "enter" <=> pc \in {1, start}
              /\ code[pc].op \notin {"end", "runtimeError", "jump"} => Inside(pc, pc + 1)
              /\ code[pc].op \in {"jump", "branch"} => Inside(pc, pc + code[pc].by)

\* Registers are locals of the block.
UsesItsLocals(p, b) ==
    LET code == Code[p][b] IN
    \A pc \in DOMAIN code :
        /\ code[pc].op \in Writing \cup {"end"} => code[pc].dst \in 1..NumLocals[b]
        /\ code[pc].op = "call" =>
              /\ code[pc].argc \in Nat /\ code[pc].firstArg \in Nat
              /\ \A k \in 1..code[pc].argc :
                    code[pc].firstArg + k - 1 \in 1..NumLocals[b]

\* The blocks of a program's functions are compiled, to check and to run.
DefinesCompiled(p, b) ==
    LET code == Code[p][b] IN
    \A pc \in DOMAIN code : code[pc].op = "newFunction" =>
        code[pc].function \in Compiled(p) /\ CodeStart[p][code[pc].function] > 1

ASSUME CodeAssumption ==
    \A p \in Program :
        /\ Main \in Compiled(p) /\ CodeStart[p][Main] > 1
        /\ HoleCallees[p] # {} => Hole \in Compiled(p)
        /\ \A b \in Compiled(p) :
              StaysInside(p, b) /\ UsesItsLocals(p, b) /\ DefinesCompiled(p, b)

\* On every path through the instructions of a block the scopes and unification
\* scopes that are open before an instruction are as many as depth says.  The
\* program's own block does nothing that can fail outside its unification scopes.
CodeNests(p, depth) ==
    \A b \in Compiled(p) :
        LET code == Code[p][b]
            start == CodeStart[p][b]
            At(pc) == depth[p][b][pc]
            Change(op, push, pop) == IF op = push THEN 1 ELSE IF op = pop THEN -1 ELSE 0
        IN  \A pc \in DOMAIN code : LET op == code[pc].op IN
              /\ At(pc) \in [scopes : Nat, unifications : Nat]
              /\ op \in {"enter", "end"} => At(pc).scopes = 0 /\ At(pc).unifications = 0
              /\ op \notin {"end", "runtimeError", "jump"} =>
                    /\ At(pc + 1).scopes =
                          At(pc).scopes + Change(op, "pushScope", "popScope")
                    /\ At(pc + 1).unifications =
                          At(pc).unifications
                              + Change(op, "pushUnification", "popUnification")
              /\ op \in {"jump", "branch"} => At(pc + code[pc].by) = At(pc)
              /\ op \in Checking => pc < start
              /\ b = Main /\ pc < start /\ op \in Waiting \cup {"getLocal", "typeError"} =>
                    At(pc).unifications > 0

IsNesting(depth) == \A p \in Program : CodeNests(p, depth)

VARIABLES
    program,        \* the program (does not change)
    stack,          \* vm.stack, its front first
    store,          \* which allocation holds the elements of vm.stack
    capacity,       \* and for how many elements it has room
    frames,         \* the Interpreter objects, innermost last
    current,        \* vm.currentInterpreter, as an index in frames
    currentBlock,   \* vm.currentBlock
    scopes,         \* vm.typingScope and its parents: each scope's interpreter
    unifications,   \* vm.unificationScope and its parents, innermost last
    functions,      \* the environment of each block's Function object
    typeErrors,     \* whether vm.m_typeErrors has an entry
    evals,          \* how many holes have been evaluated
    outcome         \* how far main() is, or how the process ended

vmVars == <<stack, store, capacity>>
typingVars == <<scopes, unifications, typeErrors>>
nestingVars == <<frames, current, currentBlock>>
vars == <<program, stack, store, capacity, frames, current, currentBlock,
          scopes, unifications, functions, typeErrors, evals, outcome>>

Outcome == {"start", "check", "checked", "run", "done",
            "exit", "late", "unknown", "spins"}

\* An environment is known by how many parents it has: 0 is the global one.
Environment == Nat

\* A pointer into vm.stack: the allocation and the element, counted from 1.
Pointer == [store : Nat, index : Nat]

NoHold == <<>>

Frame ==
    [block : Block, mode : {"check", "run"},
     pc : Nat,                  \* m_ip
     environment : Environment, \* m_environment
     parent : Environment,      \* and the one it was created in
     cfr : Pointer,             \* m_cfr
     argc : Nat, base : Nat,    \* args.size(), initialStackSize
     lastBlock : Block \union {Native}, lastInterpreter : Nat,
     hold : {NoHold} \union (Nat \X Nat),   \* preserveStack: size, cfrIndex
     result : Val]              \* what the functor of preserveStack returned

Innermost(s) == s[Len(s)]
Outer(s) == SubSeq(s, 1, Len(s) - 1)
Max2(m, n) == IF m > n THEN m ELSE n

Top == Innermost(frames)
Instruction == Code[program][Top.block][Top.pc]

\* A frame that executes its next instruction, as opposed to one that waits
\* in preserveStack for its functor to return.
Executes(names) ==
    /\ frames # <<>>
    /\ outcome \in {"check", "run"}
    /\ Top.hold = NoHold
    /\ Instruction.op \in names

TopBecomes(f) == frames' = [frames EXCEPT ![Len(frames)] = f]

Step(f) == [f EXCEPT !.pc = @ + 1]

\* vector::insert at the front: past its capacity the vector moves.
InsertAtFront(values) ==
    LET size == Len(stack) + Len(values) IN
    /\ stack' = values \o stack
    /\ capacity' = IF size > capacity THEN Max2(size, 2 * capacity) ELSE capacity
    /\ store' = IF size > capacity THEN store + 1 ELSE store

\* m_cfr[dst] = value, for a local register.
Written(f, s, dst, value) == [s EXCEPT ![f.cfr.index - dst] = value]

LocalOf(f, reg) == stack[f.cfr.index - reg]

Init ==
    /\ program \in Program
    /\ stack = <<Crash>>
    /\ store = 1
    /\ capacity = 1
    /\ frames = <<>>
    /\ current = 0
    /\ currentBlock = Native
    /\ scopes = <<>>
    /\ unifications = <<>>
    /\ functions = [b \in Block |-> NoEnvironment]
    /\ typeErrors = FALSE
    /\ evals = 0
    /\ outcome = "start"

-----------------------------------------------------------------------------
(* An Interpreter's life: check() or run(), Enter, End, ~Interpreter.      *)

\* The constructor, and run() up to the first instruction, on top of `below`.
Nest(below, block, mode, start, parent, args) ==
    /\ Len(below) < MaxDepth
    /\ frames' = Append(below,
          [block |-> block, mode |-> mode, pc |-> start,
           environment |-> parent + 1, parent |-> parent,
           cfr |-> [store |-> 0, index |-> 0],
           argc |-> Len(args), base |-> Len(stack),
           lastBlock |-> currentBlock, lastInterpreter |-> current,
           hold |-> NoHold, result |-> Crash])
    /\ current' = Len(below) + 1
    /\ currentBlock' = block
    /\ InsertAtFront(<<Crash>> \o args)

\* main(): check the program, then run it.
StartCheck ==
    /\ outcome = "start"
    /\ Nest(<<>>, Main, "check", 1, 0, <<>>)
    /\ outcome' = "check"
    /\ UNCHANGED <<program, typingVars, functions, evals>>

StartRun ==
    /\ outcome = "checked"
    /\ Nest(<<>>, Main, "run", CodeStart[program][Main], 0, <<>>)
    /\ outcome' = "run"
    /\ UNCHANGED <<program, typingVars, functions, evals>>

EnterAtBack ==                  \* variant: the locals go to the other end
    /\ Executes({"enter"})
    /\ stack' = stack \o [i \in 1..NumLocals[Top.block] |-> Crash]
    /\ TopBecomes([Step(Top) EXCEPT
          !.cfr = [store |-> store, index |-> NumLocals[Top.block] + 1]])
    /\ UNCHANGED <<program, store, capacity, current, currentBlock, typingVars,
                   functions, evals, outcome>>

Enter ==
    /\ Executes({"enter"})
    /\ InsertAtFront([i \in 1..NumLocals[Top.block] |-> Crash])
    /\ TopBecomes([Step(Top) EXCEPT
          !.cfr = [store |-> store', index |-> NumLocals[Top.block] + 1]])
    /\ UNCHANGED <<program, current, currentBlock, typingVars, functions,
                   evals, outcome>>

EndKeepsReturnAddress ==        \* variant: run() erases the arguments only
    LET left == SubSeq(stack, NumLocals[Top.block] + Top.argc + 1, Len(stack))
        below == Outer(frames)
    IN
    /\ Executes({"end"})
    /\ stack' = left
    /\ outcome' = IF below = <<>> THEN "checked" ELSE outcome
    /\ frames' = below
    /\ current' = Top.lastInterpreter
    /\ currentBlock' = Top.lastBlock
    /\ UNCHANGED <<program, store, capacity, typingVars, functions, evals>>

\* End, the end of run() and the destructor.
End ==
    LET left == SubSeq(stack, NumLocals[Top.block] + Top.argc + 2, Len(stack))
        result == LocalOf(Top, Instruction.dst)
        below == Outer(frames)
    IN
    /\ Executes({"end"})
    /\ stack' = left
    /\ outcome' = IF below # <<>> THEN outcome
                  ELSE IF outcome = "check" THEN "checked" ELSE "done"
    /\ frames' = IF below = <<>> THEN <<>>
                 ELSE [below EXCEPT ![Len(below)].result = result]
    /\ current' = Top.lastInterpreter
    /\ currentBlock' = Top.lastBlock
    /\ UNCHANGED <<program, store, capacity, typingVars, functions, evals>>

-----------------------------------------------------------------------------
(* Instructions that touch nothing but their own frame.                    *)

OwnFrame ==
    UNCHANGED <<program, store, capacity, current, currentBlock, scopes,
                unifications, functions, evals, outcome>>

\* Any instruction whose effect on registers and objects does not matter here.
ComputeStep ==
    /\ Executes({"compute"})
    /\ TopBecomes(Step(Top))
    /\ OwnFrame
    /\ UNCHANGED <<stack, typeErrors>>

\* GetLocal, of a variable that may be unknown.
GetLocal ==
    /\ Executes({"getLocal"})
    /\ TopBecomes(Step(Top))
    /\ typeErrors' \in {typeErrors, TRUE}
    /\ OwnFrame
    /\ UNCHANGED stack

\* An instruction that writes a register.
Load ==
    /\ Executes({"load"})
    /\ \E value \in Val : stack' = Written(Top, stack, Instruction.dst, value)
    /\ TopBecomes(Step(Top))
    /\ OwnFrame
    /\ UNCHANGED typeErrors

\* JUMP: relative to the instruction itself.  A conditional jump to itself
\* tests the same register for ever.
JumpStep ==
    /\ Executes({"jump", "branch"})
    /\ TopBecomes([Top EXCEPT !.pc = @ + Instruction.by])
    /\ outcome' = IF Instruction.by = 0 THEN "spins" ELSE outcome
    /\ UNCHANGED <<program, vmVars, current, currentBlock, typingVars, functions,
                   evals>>

\* A condition that holds: JumpIfFalse and TryGetField fall through.
FallThrough ==
    /\ Executes({"branch"})
    /\ TopBecomes(Step(Top))
    /\ OwnFrame
    /\ UNCHANGED <<stack, typeErrors>>

TypeErrorStep ==
    /\ Executes({"typeError"})
    /\ TopBecomes(Step(Top))
    /\ typeErrors' = TRUE
    /\ OwnFrame
    /\ UNCHANGED stack

\* VM::runtimeError ends the process.
RuntimeError ==
    /\ Executes({"runtimeError"})
    /\ outcome' = "exit"
    /\ UNCHANGED <<program, vmVars, nestingVars, typingVars, functions, evals>>

-----------------------------------------------------------------------------
(* preserveStack: instructions that may nest an interpreter.               *)

Hold(f) == [f EXCEPT !.hold = <<Len(stack), f.cfr.index>>, !.result = Crash]

\* A call passes copies of consecutive locals; the callee is a function of
\* the runtime, or one whose definition has been executed.
CallNative ==
    /\ Executes({"call"})
    /\ Native \in Instruction.callees
    /\ stack' = Written(Top, stack, Instruction.dst, Crash)
    /\ TopBecomes(Step(Top))
    /\ OwnFrame
    /\ UNCHANGED typeErrors

Call(callee) ==
    /\ Executes({"call"})
    /\ callee \in Instruction.callees
    /\ functions[callee] # NoEnvironment
    /\ Nest([frames EXCEPT ![Len(frames)] = Hold(Top)], callee, "run",
            CodeStart[program][callee], functions[callee],
            [i \in 1..Instruction.argc |->
                LocalOf(Top, Instruction.firstArg + i - 1)])
    /\ UNCHANGED <<program, typingVars, functions, evals, outcome>>

\* NewFunction in check mode first checks the function's block ...
CheckFunction ==
    /\ Executes({"newFunction"})
    /\ Top.mode = "check"
    /\ Nest([frames EXCEPT ![Len(frames)] = Hold(Top)], Instruction.function,
            "check", 1, Top.environment, <<>>)
    /\ UNCHANGED <<program, typingVars, functions, evals, outcome>>

\* ... in run mode it finds the Function object that checking has left in the
\* block.  A definition that was never checked has an index never written:
\* out of bounds, or that of some other definition.
Checked(b) ==
    {Code[program][b][i].function : i \in
        {j \in 1..(CodeStart[program][b] - 1) :
            Code[program][b][j].op = "newFunction"}}

RunNewFunction ==
    /\ Executes({"newFunction"})
    /\ Top.mode = "run"
    /\ LET known == Checked(Top.block) IN
       IF Instruction.function \in known
       THEN /\ functions' = [functions EXCEPT
                                ![Instruction.function] = Top.environment]
            /\ UNCHANGED outcome
       ELSE \/ outcome' = "unknown" /\ UNCHANGED functions
            \/ \E f \in known :
                  /\ functions' = [functions EXCEPT ![f] = Top.environment]
                  /\ UNCHANGED outcome
    /\ \E value \in Val : stack' = Written(Top, stack, Instruction.dst, value)
    /\ TopBecomes(Step(Top))
    /\ UNCHANGED <<program, store, capacity, current, currentBlock, typingVars, evals>>

\* The functor has returned: the stack is as it was, though it may have moved.
Returned ==
    /\ frames # <<>>
    /\ outcome \in {"check", "run"}
    /\ Top.hold # NoHold

ReleasedStale(f) ==             \* variant: m_cfr is not computed anew
    [f EXCEPT !.hold = NoHold, !.pc = @ + 1]

Released(f) ==
    [f EXCEPT !.cfr = [store |-> store, index |-> f.hold[2]],
              !.hold = NoHold, !.pc = @ + 1]

FinishCall ==
    /\ Returned
    /\ Instruction.op = "call"
    /\ stack' = Written(Released(Top), stack, Instruction.dst, Top.result)
    /\ TopBecomes(Released(Top))
    /\ OwnFrame
    /\ UNCHANGED typeErrors

FinishNewFunction ==
    /\ Returned
    /\ Instruction.op = "newFunction"
    /\ functions' = [functions EXCEPT ![Instruction.function] = Top.environment]
    /\ \E value \in Val : stack' = Written(Released(Top), stack, Instruction.dst, value)
    /\ TopBecomes(Released(Top))
    /\ UNCHANGED <<program, store, capacity, current, currentBlock, typingVars, evals,
                   outcome>>

-----------------------------------------------------------------------------
(* Scopes and constraints.                                                 *)

PushScope ==
    /\ Executes({"pushScope"})
    /\ scopes' = Append(scopes, Len(frames))
    /\ TopBecomes([Step(Top) EXCEPT !.environment = @ + 1])
    /\ UNCHANGED <<program, vmVars, current, currentBlock, unifications,
                   functions, typeErrors, evals, outcome>>

PopScopeKeepsTop ==             \* variant: typingScope stays at the deleted scope
    /\ Executes({"popScope"})
    /\ scopes # <<>>
    /\ frames' = [i \in DOMAIN frames |->
          LET f == IF i = Len(frames) THEN Step(Top) ELSE frames[i]
          IN IF i = Innermost(scopes) THEN [f EXCEPT !.environment = @ - 1] ELSE f]
    /\ UNCHANGED <<program, vmVars, current, currentBlock, typingVars, functions,
                   evals, outcome>>

\* ~Scope changes the environment of the interpreter that opened the scope.
PopScope ==
    /\ Executes({"popScope"})
    /\ scopes # <<>>
    /\ scopes' = Outer(scopes)
    /\ frames' = [i \in DOMAIN frames |->
          LET f == IF i = Len(frames) THEN Step(Top) ELSE frames[i]
          IN IF i = Innermost(scopes) THEN [f EXCEPT !.environment = @ - 1] ELSE f]
    /\ UNCHANGED <<program, vmVars, current, currentBlock, unifications,
                   functions, typeErrors, evals, outcome>>

PushUnification ==
    /\ Executes({"pushUnification"})
    /\ unifications' = Append(unifications, [finalized |-> FALSE, pending |-> 0])
    /\ TopBecomes(Step(Top))
    /\ UNCHANGED <<program, vmVars, current, currentBlock, scopes, functions,
                   typeErrors, evals, outcome>>

\* unify() and match() record a constraint, and assert that the scope has not
\* solved its constraints yet.
RecordConstraint ==
    /\ Executes({"constrain"})
    /\ unifications # <<>>
    /\ IF Innermost(unifications).finalized
       THEN outcome' = "late" /\ UNCHANGED unifications
       ELSE /\ unifications' = [unifications EXCEPT
                                   ![Len(unifications)].pending = @ + 1]
            /\ UNCHANGED outcome
    /\ TopBecomes(Step(Top))
    /\ UNCHANGED <<program, vmVars, current, currentBlock, scopes, functions,
                   typeErrors, evals>>

\* ResolveType, InferImplicitParameters and PopUnificationScope finalize the
\* innermost scope inside preserveStack, unless an earlier one has.
Finalize ==
    /\ Executes({"resolve", "infer", "popUnification"})
    /\ unifications # <<>>
    /\ unifications' = [unifications EXCEPT ![Len(unifications)].finalized = TRUE]
    /\ TopBecomes(Hold(Top))
    /\ UNCHANGED <<program, vmVars, current, currentBlock, scopes, functions,
                   typeErrors, evals, outcome>>

Solves ==
    /\ Returned
    /\ Instruction.op \in {"resolve", "infer", "popUnification"}

\* One constraint is solved, or fails with an error: typeErrors may stay as it
\* is, when the failure is one side of a union.
SolveConstraint ==
    /\ Solves
    /\ Innermost(unifications).pending > 0
    /\ unifications' = [unifications EXCEPT ![Len(unifications)].pending = @ - 1]
    /\ typeErrors' \in {typeErrors, TRUE}
    /\ UNCHANGED <<program, vmVars, nestingVars, scopes, functions, evals, outcome>>

\* The constraint being solved, or the type to resolve, is a hole that calls a
\* function: UnificationScope::eval runs it in an interpreter of its own.
EvaluateHole ==
    /\ Solves
    /\ Innermost(unifications).pending > 0 \/ Instruction.op = "resolve"
    /\ \E callee \in HoleCallees[program] : functions[callee] # NoEnvironment
    /\ evals < MaxEvals
    /\ evals' = evals + 1
    /\ Nest(frames, Hole, "run", CodeStart[program][Hole],
            frames[current].environment + 1, <<>>)
    /\ UNCHANGED <<program, typingVars, functions, outcome>>

\* resolve() and infer() return a type for the register of the instruction;
\* infer() may fail to.  One register stands for all that infer() fills.
FinishResolve ==
    /\ Solves
    /\ Instruction.op \in {"resolve", "infer"}
    /\ Innermost(unifications).pending = 0
    /\ typeErrors' \in IF Instruction.op = "infer" THEN {typeErrors, TRUE}
                                                   ELSE {typeErrors}
    /\ \E value \in Val : stack' = Written(Released(Top), stack, Instruction.dst, value)
    /\ TopBecomes(Released(Top))
    /\ UNCHANGED <<program, store, capacity, current, currentBlock, scopes, unifications,
                   functions, evals, outcome>>

FinishPopEarlyReport ==         \* variant: errors are reported per scope
    /\ Solves
    /\ Instruction.op = "popUnification"
    /\ unifications' = Outer(unifications)
    /\ outcome' = IF Len(unifications) = 1 THEN outcome ELSE
                  IF typeErrors THEN "exit" ELSE outcome
    /\ TopBecomes(Released(Top))
    /\ UNCHANGED <<program, vmVars, current, currentBlock, scopes, functions,
                   typeErrors, evals>>

\* With the outermost scope gone type checking is over: errors end the process.
FinishPop ==
    /\ Solves
    /\ Instruction.op = "popUnification"
    /\ Innermost(unifications).pending = 0
    /\ unifications' = Outer(unifications)
    /\ outcome' = IF unifications' = <<>> /\ typeErrors THEN "exit" ELSE outcome
    /\ TopBecomes(Released(Top))
    /\ UNCHANGED <<program, vmVars, current, currentBlock, scopes, functions,
                   typeErrors, evals>>

-----------------------------------------------------------------------------
Lifetime == StartCheck \/ StartRun \/ Enter \/ End

OwnStep ==
    \/ ComputeStep \/ GetLocal \/ Load \/ JumpStep \/ FallThrough
    \/ TypeErrorStep \/ RuntimeError

NestingStep ==
    \/ CallNative
    \/ \E callee \in Block : Call(callee)
    \/ CheckFunction \/ RunNewFunction \/ FinishCall \/ FinishNewFunction

TypingStep ==
    \/ PushScope \/ PopScope \/ PushUnification \/ RecordConstraint
    \/ Finalize \/ SolveConstraint \/ EvaluateHole \/ FinishResolve \/ FinishPop

Next == Lifetime \/ OwnStep \/ NestingStep \/ TypingStep

Spec == Init /\ [][Next]_vars

-----------------------------------------------------------------------------
(* Properties.                                                             *)

\* The type invariant; vm.currentInterpreter is never an interpreter that is
\* gone.
TypeOK ==
    /\ program \in Program
    /\ stack \in Seq(Val)
    /\ store \in Nat /\ capacity \in Nat
    /\ frames \in Seq(Frame)
    /\ current \in 0..Len(frames)
    /\ currentBlock \in Block \union {Native}
    /\ scopes \in Seq(Nat)
    /\ unifications \in Seq([finalized : BOOLEAN, pending : Nat])
    /\ functions \in [Block -> Environment \union {NoEnvironment}]
    /\ typeErrors \in BOOLEAN
    /\ evals \in 0..MaxEvals
    /\ outcome \in Outcome

\* A frame has its arguments and the return address, and past Enter its locals.
Entered(f) == f.cfr.index > 0
Extent(f) == f.argc + 1 + (IF Entered(f) THEN NumLocals[f.block] ELSE 0)

\* Above frame i comes the next one, or the front of the vector.
Above(i) == IF i = Len(frames) THEN Len(stack) ELSE frames[i + 1].base

\* The frames of the interpreters divide vm.stack among them: none overlaps
\* another, nothing lies between two; and every variable keeps to its type.
\* This is what both "Inconsistent stack"
\* assertions of Interpreter.cpp rest on.
FramesTileTheStack ==
    /\ TypeOK
    /\ \A i \in DOMAIN frames : Above(i) = frames[i].base + Extent(frames[i])
    /\ IF frames = <<>> THEN Len(stack) = 1 ELSE frames[1].base = 1
    /\ Len(stack) <= capacity

\* An interpreter that executes addresses its own frame, in the memory the
\* vector occupies now, whatever the interpreters nested in it have done to
\* the vector; one that waits in preserveStack will find its frame again.
RegistersAreCurrent ==
    \A i \in DOMAIN frames : LET f == frames[i] IN
        /\ Entered(f) /\ f.hold = NoHold =>
              f.cfr = [store |-> store, index |-> NumLocals[f.block] + 1]
        /\ f.hold # NoHold =>
              f.hold = <<f.base + Extent(f), NumLocals[f.block] + 1>>
        /\ i < Len(frames) => f.hold # NoHold

\* Scopes close in the interpreter that opened them, on every path through
\* the checking code: an interpreter's environment is as many levels deep as
\* it has scopes open, and at its End it has none.
ScopesNest ==
    /\ \A k \in DOMAIN scopes :
          /\ scopes[k] \in DOMAIN frames
          /\ k > 1 => scopes[k - 1] <= scopes[k]
    /\ \A i \in DOMAIN frames :
          frames[i].environment =
              frames[i].parent + 1
                + Cardinality({k \in DOMAIN scopes : scopes[k] = i})
    /\ Executes({"end"}) => Top.environment = Top.parent + 1

\* A program runs only after every unification scope of its check has solved
\* its constraints and none has left a type error.
CheckedMeansChecked ==
    outcome = "checked" =>
        ~typeErrors /\ unifications = <<>> /\ scopes = <<>>

\* The assertions "UnificationScope already finalized": no constraint reaches
\* a scope that has solved its constraints.
NeverLate == outcome # "late"

\* The assertions "Function out of bounds": a function that is defined while
\* the program runs was checked before.
FunctionsAreKnown == outcome # "unknown"

\* An if without an alternate, whose type is unit, gets past its condition.
NeverSpins == outcome # "spins"

-----------------------------------------------------------------------------
(* What these properties rest on.                                          *)

\* Every frame is at an instruction of its block, past Enter but at Enter itself,
\* in the part its interpreter was started for; the frames below the innermost wait.
FrameIsInCode(i) ==
    LET f == frames[i]
        code == Code[program][f.block]
    IN  /\ f.block \in Compiled(program)
        /\ f.pc \in DOMAIN code
        /\ f.mode = "check" <=> f.pc < CodeStart[program][f.block]
        /\ Entered(f) <=> code[f.pc].op # "enter"
        /\ f.hold # NoHold => code[f.pc].op \in Waiting
        /\ f.lastInterpreter = i - 1
Control ==
    /\ \A i \in DOMAIN frames : FrameIsInCode(i)
    /\ current = Len(frames)
    /\ outcome \in {"start", "checked"} => frames = <<>>
    /\ \A b \in Block : functions[b] # NoEnvironment => b \in Compiled(program)

\* The checking of the program is the outermost interpreter's, under it there may be
\* functions being checked, and under any that runs only others that run.
ModesNest ==
    /\ \A i, k \in DOMAIN frames : i < k /\ frames[i].mode = "run" => frames[k].mode = "run"
    /\ frames # <<>> => /\ frames[1].block = Main
                        /\ outcome = "check" => frames[1].mode = "check"
                        /\ outcome = "run" => frames[1].mode = "run"

\* As many scopes, and unification scopes, are open as the frames' instructions are
\* deep: below(i) of the latter were open when frame i was made.
OpenScopes(i) == Cardinality({k \in DOMAIN scopes : scopes[k] = i})
DepthOf(depth, i) == depth[program][frames[i].block][frames[i].pc]
ScopesAreDeep(depth) ==
    /\ \A i \in DOMAIN frames : OpenScopes(i) = DepthOf(depth, i).scopes
    /\ \E below \in [1..Len(frames) + 1 -> 0..Len(unifications)] :
          /\ below[1] = 0 /\ below[Len(frames) + 1] = Len(unifications)
          /\ \A i \in DOMAIN frames :
                below[i + 1] = below[i] + DepthOf(depth, i).unifications

\* Until the program is checked, errors are found only where a unification scope is open.
ErrorsAreReported ==
    outcome \in {"start", "check", "checked"} /\ unifications = <<>> => ~typeErrors

-----------------------------------------------------------------------------
(* The activations the frames stand for.                                   *)

\* Where frame i begins: its locals, the return address, the arguments.
FrontOf(i) == Len(stack) - frames[i].base - Extent(frames[i])

ActivationOf(i) ==
    LET f == frames[i]
        locals == IF Entered(f) THEN NumLocals[f.block] ELSE 0
    IN [args |-> [j \in 1..f.argc |-> stack[FrontOf(i) + locals + 1 + j]],
        locals |-> [k \in 1..locals |-> stack[FrontOf(i) + locals + 1 - k]]]

MaxLocals == CHOOSE n \in {NumLocals[b] : b \in Block} :
                \A b \in Block : NumLocals[b] <= n

A == INSTANCE Activations WITH
        activations <- [i \in DOMAIN frames |-> ActivationOf(i)]

\* The interpreters' use of one vector implements a stack of activations: no
\* nested interpreter changes a register of another one, and a callee's
\* arguments are the registers its caller names.
ImplementsActivations == A!ActivationsSpec
=============================================================================
