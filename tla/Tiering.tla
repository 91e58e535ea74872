------------------------------ MODULE Tiering ------------------------------
(***************************************************************************)
(* Functions and their two tiers (runtime/Function, BytecodeBlock::        *)
(* optimize): a block is interpreted until it has been called often        *)
(* enough, then compiled, from the middle of a program or while it is      *)
(* still being checked (constraint solving calls functions), with          *)
(* interpreted activations of it still on the stack.  Activations of both  *)
(* tiers nest in any order; they share vm.currentBlock, the Function       *)
(* objects and the chain of environments.                                  *)
(*                                                                         *)
(* A function is named by its block, and called by that name: what a       *)
(* declaration binds is what is looked up.  Declarations that are          *)
(* shadowed, and functions passed as values, are not modelled.             *)
(***************************************************************************)
EXTENDS Naturals, Sequences, SequencesExt

CONSTANTS
    Block,              \* BytecodeBlocks
    Main, Hole,         \* the program's block; the block of a hole
    NoBlock,            \* vm.currentBlock before main()'s first interpreter
    FunctionBlocks,     \* m_functionBlocks: what each block declares, in order
    Threshold,          \* optimizationThreshold(), the variable JIT_THRESHOLD
    NoJIT,              \* whether the variable NO_JIT is set
    MaxFrames,          \* bound on nested activations
    MaxEnvironments     \* bound on the environments of one behaviour

ASSUME TieringAssumption ==
    /\ {Main, Hole} \subseteq Block /\ NoBlock \notin Block
    /\ FunctionBlocks \in [Block -> Seq(Block \ {Main, Hole})]
    /\ FunctionBlocks[Hole] = <<>>
    \* Every declaration has a block of its own.
    /\ \A b, c \in Block :
          \A i \in DOMAIN FunctionBlocks[b], j \in DOMAIN FunctionBlocks[c] :
             FunctionBlocks[b][i] = FunctionBlocks[c][j] => b = c /\ i = j
    /\ {Threshold, MaxFrames, MaxEnvironments} \subseteq Nat
    /\ NoJIT \in BOOLEAN

VARIABLES
    frames,         \* the activations, innermost last
    environments,   \* every Environment, in the order they were created
    functions,      \* the Function object of each block (m_functions)
    hits,           \* m_hitCount
    code,           \* m_jitCode: per compilation, the Functions it points to
    currentBlock,   \* vm.currentBlock
    phase,          \* how far main() is
    report          \* the error the process ended with

vars == <<frames, environments, functions, hits, code, currentBlock, phase, report>>

\* Environments are numbered as they are created; 0 is the global one.
Environment == Nat

\* "check" and "run" are Interpreter objects, "jit" is a frame of native code.
Frame == [block : Block, mode : {"check", "run", "jit"},
          environment : Environment,
          found : Environment,  \* where the name of its function was found
          declared : Nat,       \* how many declarations it has executed
          lastBlock : Block \union {NoBlock}]

NoFunction == [parent |-> 0, native |-> FALSE, exists |-> FALSE]
NewFunction(e) == [parent |-> e, native |-> FALSE, exists |-> TRUE]

NoReport == [in |-> NoBlock, shown |-> NoBlock]

Top == Last(frames)
Below == Front(frames)

Running ==
    /\ phase \in {"check", "run"}
    /\ frames # <<>>
    /\ Top.mode \in {"run", "jit"}

Checking ==
    /\ phase = "check"
    /\ frames # <<>>
    /\ Top.mode = "check"

\* What the innermost activation declares next.
Declares == Top.declared < Len(FunctionBlocks[Top.block])
Declaration == FunctionBlocks[Top.block][Top.declared + 1]

Init ==
    /\ frames = <<>>
    /\ environments = <<>>
    /\ functions = [b \in Block |-> NoFunction]
    /\ hits = [b \in Block |-> 0]
    /\ code = [b \in Block |-> <<>>]
    /\ currentBlock = NoBlock
    /\ phase = "start"
    /\ report = NoReport

-----------------------------------------------------------------------------
(* Environments and activations.                                           *)

Parent(e) == IF e = 0 THEN 0 ELSE environments[e].parent

\* Environment::get: the nearest environment that binds the name, or 0.
Lookup(environment, name) ==
    LET at[e \in 0..Len(environments)] ==
            IF e = 0 \/ name \in environments[e].bound THEN e ELSE at[Parent(e)]
    IN at[environment]

\* Environment::set, of a Function and of the name of its declaration.
Bind(e, b) == environments' = [environments EXCEPT ![e].bound = @ \union {b}]

\* Interpreter::Interpreter, or the prologue of native code: native code has
\* an environment of its own but leaves vm.currentBlock alone.
Activate(block, mode, parent, found) ==
    /\ Len(frames) < MaxFrames
    /\ Len(environments) < MaxEnvironments
    /\ environments' = Append(environments,
                              [parent |-> parent, block |-> block, bound |-> {}])
    /\ frames' = Append(frames,
                    [block |-> block, mode |-> mode,
                     environment |-> Len(environments) + 1, found |-> found,
                     declared |-> 0, lastBlock |-> currentBlock])
    /\ currentBlock' = IF mode = "jit" THEN currentBlock ELSE block

KeptBlock ==                    \* variant: the destructor restores nothing
    currentBlock

\* Interpreter::~Interpreter, or the epilogue.
RestoredBlock == IF Top.mode = "jit" THEN currentBlock ELSE Top.lastBlock

Declared(stack) ==
    [stack EXCEPT ![Len(stack)].declared = @ + 1]

-----------------------------------------------------------------------------
(* main(), and functions that are checked where they are declared.         *)

StartCheck ==
    /\ phase = "start"
    /\ Activate(Main, "check", 0, 0)
    /\ phase' = "check"
    /\ UNCHANGED <<functions, hits, code, report>>

StartRun ==
    /\ phase = "checked"
    /\ Activate(Main, "run", 0, 0)
    /\ phase' = "run"
    /\ UNCHANGED <<functions, hits, code, report>>

CheckFunctionInScope ==         \* variant: the function is bound beforehand
    /\ Checking
    /\ Declares
    /\ Len(frames) < MaxFrames
    /\ Len(environments) < MaxEnvironments
    /\ functions' = [functions EXCEPT ![Declaration] = NewFunction(Top.environment)]
    /\ environments' =
          Append([environments EXCEPT ![Top.environment].bound = @ \union {Declaration}],
                 [parent |-> Top.environment, block |-> Declaration, bound |-> {}])
    /\ frames' = Append(frames,
                    [block |-> Declaration, mode |-> "check",
                     environment |-> Len(environments) + 1, found |-> Top.environment,
                     declared |-> 0, lastBlock |-> currentBlock])
    /\ currentBlock' = Declaration
    /\ UNCHANGED <<hits, code, phase, report>>

\* NewFunction while checking: the function's block is checked first.  Its own
\* name is bound to an abstract value there, not to a Function.
CheckFunction ==
    /\ Checking
    /\ Declares
    /\ Activate(Declaration, "check", Top.environment, Top.environment)
    /\ UNCHANGED <<functions, hits, code, phase, report>>

\* The block is checked: Function::create, setFunction, setLocal.
FinishCheck ==
    /\ Checking
    /\ ~Declares
    /\ currentBlock' = RestoredBlock
    /\ IF Below = <<>>
       THEN /\ phase' = "checked"
            /\ frames' = <<>>
            /\ UNCHANGED <<environments, functions>>
       ELSE /\ functions' = [functions EXCEPT ![Top.block] =
                                NewFunction(Last(Below).environment)]
            /\ Bind(Last(Below).environment, Top.block)
            /\ frames' = Declared(Below)
            /\ UNCHANGED phase
    /\ UNCHANGED <<hits, code, report>>

\* UnificationScope::eval: the code of a hole is run while checking.
Evaluate ==
    /\ Checking
    /\ Activate(Hole, "run", Top.environment, Top.environment)
    /\ UNCHANGED <<functions, hits, code, phase, report>>

-----------------------------------------------------------------------------
(* Running, in either tier.                                                *)

\* NewFunction: the Function that checking has made is given the environment
\* of this activation; then setLocal.
Declare ==
    /\ Running
    /\ Declares
    /\ functions' = [functions EXCEPT ![Declaration].parent = Top.environment]
    /\ Bind(Top.environment, Declaration)
    /\ frames' = Declared(frames)
    /\ UNCHANGED <<hits, code, currentBlock, phase, report>>

\* A call finds the function by its name.
Calls(b) ==
    /\ Running
    /\ Lookup(Top.environment, b) # 0

CallerEnvironment(b) ==         \* variant: dynamic scope
    Top.environment

\* The environment a function's activations are created in.
CalleeParent(b) == functions[b].parent

\* BytecodeBlock::optimize, once the hit is counted.
IsHot(b) == ~NoJIT /\ hits[b] + 1 > Threshold

\* Function::call: native code, the interpreter, or first the compiler, which
\* embeds the addresses of the Functions the block declares.
CallNative(b) ==
    /\ Calls(b)
    /\ functions[b].native
    /\ Activate(b, "jit", CalleeParent(b), Lookup(Top.environment, b))
    /\ UNCHANGED <<functions, hits, code, phase, report>>

CallInterpreted(b) ==
    /\ Calls(b)
    /\ ~functions[b].native /\ ~IsHot(b)
    /\ hits' = [hits EXCEPT ![b] = IF NoJIT THEN @ ELSE @ + 1]
    /\ Activate(b, "run", CalleeParent(b), Lookup(Top.environment, b))
    /\ UNCHANGED <<functions, code, phase, report>>

CallCompilesAgain(b) ==         \* variant: m_nativeFunction is not kept
    /\ Calls(b)
    /\ IsHot(b)
    /\ hits' = [hits EXCEPT ![b] = @ + 1]
    /\ code' = [code EXCEPT ![b] =
                   Append(@, {d \in ToSet(FunctionBlocks[b]) : functions[d].exists})]
    /\ Activate(b, "jit", CalleeParent(b), Lookup(Top.environment, b))
    /\ UNCHANGED <<functions, phase, report>>

CallCompiles(b) ==
    /\ Calls(b)
    /\ ~functions[b].native /\ IsHot(b)
    /\ hits' = [hits EXCEPT ![b] = @ + 1]
    /\ code' = [code EXCEPT ![b] =
                   Append(@, {d \in ToSet(FunctionBlocks[b]) : functions[d].exists})]
    /\ functions' = [functions EXCEPT ![b].native = TRUE]
    /\ Activate(b, "jit", CalleeParent(b), Lookup(Top.environment, b))
    /\ UNCHANGED <<phase, report>>

\* An activation may end before it has reached all its declarations.
Return ==
    /\ Running
    /\ currentBlock' = RestoredBlock
    /\ frames' = Below
    /\ phase' = IF Below = <<>> THEN "done" ELSE phase
    /\ UNCHANGED <<environments, functions, hits, code, report>>

\* RuntimeError: VM::runtimeError looks the location up in vm.currentBlock
\* and ends the process.
Fail ==
    /\ Running
    /\ phase' = "failed"
    /\ report' = [in |-> Top.block, shown |-> currentBlock]
    /\ UNCHANGED <<frames, environments, functions, hits, code, currentBlock>>

Next ==
    \/ StartCheck \/ StartRun
    \/ CheckFunction \/ FinishCheck \/ Evaluate
    \/ Declare
    \/ \E b \in Block : CallNative(b) \/ CallInterpreted(b) \/ CallCompiles(b)
    \/ Return
    \/ Fail

Spec == Init /\ [][Next]_vars

-----------------------------------------------------------------------------
(* What should hold.                                                       *)

\* Every variable keeps to its type.
TypeOK ==
    /\ frames \in Seq(Frame) /\ Len(frames) <= MaxFrames
    /\ environments \in Seq([parent : Environment, block : Block,
                             bound : SUBSET Block])
    /\ \A i \in DOMAIN environments :
          /\ environments[i].parent \in 0..(i - 1)
          /\ environments[i].bound \subseteq ToSet(FunctionBlocks[environments[i].block])
    /\ functions \in [Block -> [parent : 0..Len(environments),
                                native : BOOLEAN, exists : BOOLEAN]]
    /\ hits \in [Block -> 0..(Threshold + 1)]
    /\ code \in [Block -> Seq(SUBSET Block)]
    /\ currentBlock \in Block \union {NoBlock}
    /\ phase \in {"start", "check", "checked", "run", "done", "failed"}
    /\ report \in [in : Block \union {NoBlock}, shown : Block \union {NoBlock}]

\* vm.currentBlock, which locates type errors and the holes' errors, is the
\* block of the innermost interpreter, whatever native frames lie above it
\* and however many activations of either tier have come and gone.
BlockIsCurrent ==
    LET interpreters == {i \in DOMAIN frames : frames[i].mode # "jit"}
    IN currentBlock =
          IF interpreters = {} THEN NoBlock ELSE frames[Max(interpreters)].block

\* However many interpreted activations of a block are on the stack when it
\* becomes hot, and however often it is called from them, it is compiled once
\* (code is never unmapped): all its calls up to the threshold are counted,
\* the next one compiles it, and none is counted, or interpreted, after that.
CompiledAtThreshold ==
    \A b \in Block :
       /\ Len(code[b]) <= 1
       /\ functions[b].native => code[b] # <<>>
       /\ ~NoJIT => (code[b] # <<>> <=> hits[b] > Threshold)

\* A block is compiled once, at its threshold; every variable keeps to its type.
CompiledOnce == TypeOK /\ CompiledAtThreshold

\* No block is compiled, not even by a call from a hole in the middle of
\* checking, before the Functions that it declares exist: native code would
\* keep null pointers where the interpreter reads m_functions again.
CodeHasItsFunctions ==
    \A b \in Block : \A i \in DOMAIN code[b] : code[b][i] = ToSet(FunctionBlocks[b])

\* Scope is lexical in both tiers: an activation's parent environment belongs
\* to an activation of the block that declares the function.
ScopesAreLexical ==
    \A i \in DOMAIN environments :
       LET e == environments[i] IN
       e.parent # 0 /\ e.block # Hole =>
          e.block \in ToSet(FunctionBlocks[environments[e.parent].block])

\* tests/correct/lexical-scope.rh: a function runs in the environment it was
\* declared in.  Not so (Interpreter.cpp:265, JIT.cpp:259-261): there is one
\* Function per declaration, and when an activation of the declaring function
\* declares it again, the older activations' function changes its scope.
FunctionsKeepTheirScope ==
    \A i \in DOMAIN frames :
       environments[frames[i].environment].parent = frames[i].found

\* Codegen.cpp:114-118 gives a run-time error the location of its statement,
\* which is looked up in the block that fails.  Not so in native code, which
\* leaves vm.currentBlock at an outer block (VM.cpp:81).
ErrorsAreLocated ==
    report.in = report.shown
=============================================================================
