# A verification project for reach-lang

reach-lang is a small dependently typed language: a program is parsed, compiled
into bytecode that *type checks* it and bytecode that *runs* it, checked by
interpreting the first half and executed by interpreting the second; hot
functions are compiled to machine code, and everything lives in a
conservatively collected heap. It is a single-threaded process. What is hard
about it is not concurrency but re-entrance: a collection starts inside any
allocation, an interpreter starts inside an instruction, a constraint solver
starts inside the end of a scope and runs user code.

This directory holds TLA+ modules translated from `src/`, the TLC
configurations that check them, and theorems that TLAPS proves. `PROJECT.json`
lists runs, mutants (small plausible bugs, each of which must break one
property), the source lines every definition stands for, hazards and theorems.

## Inventory

| component | state | operations | hard behaviour | what makes it correct |
|---|---|---|---|---|
| **Heap, allocators** (`runtime/Heap`, `Allocator`, `Cell.h`, `GC.h`) | one 64K block per cell size: `m_current`, `m_freeList`; `m_isMarked`, `m_kind` in each cell; `m_roots` | `create` = allocate + constructor + set kind; `collect` = mark from roots, VM, native stack, `vm.stack`; sweep | a collection can start in any allocation, also inside a constructor; the native stack is scanned conservatively; cells are reused | nothing the program can reach is swept; unreachable cells are; free lists hold each freed cell once; a pointer never changes class |
| **Interpreter** (`runtime/Interpreter`, `typing/Scope`) | `m_ip`, `m_cfr` (raw pointer into `vm.stack`), `m_environment`, mode | one handler per instruction; `preserveStack` around whatever may nest an interpreter | nested interpreters reallocate the stack; errors jump across scope ends | frames tile the stack; `m_cfr` is current; scopes close in the frame that opened them |
| **VM, main** (`runtime/VM`, `reach.cpp`) | `stack`, `currentInterpreter`, `currentBlock`, `typingScope`, `unificationScope`, `m_typeErrors` | check, run, report errors | errors are reported only at the end of the outermost scope | no program runs with an error |
| **Type-checking code generator** (`typing/Typing`, `TypeChecker`, `ast/CodegenTypeChecking`) | compile-time scopes, prologue registers | `check`/`infer` of every node | `infer` and `check` differ for the same node; some nodes are visited twice, some not at all | the emitted code is balanced on every path and reaches every declaration |
| **Code generator** (`ast/Codegen`, `bytecode/BytecodeGenerator`) | labels, locals, identifiers | `generate` of every node | labels referenced but never emitted | control falls where the statement says |
| **Assembler** (`bytecode/InstructionStream`, `BytecodeBlock`, `Label`) | words, insertion iterator, prologue size, locations | emit, emitPrologue, recordJump, link, addLocation, adjustOffsets | the prologue is inserted in front of code whose jumps and locations are already recorded | every jump lands on its label's instruction, every location on its expression |
| **Constraint solver** (`typing/UnificationScope`) | constraints, substitutions, environment, flags | unify, match, resolve, infer, finalize | order of constraints, alternatives of a union, holes that run code | an accepted constraint holds under the final substitution |
| **Types, substitution, holes** (`typing/Type`, `Substitution`, `Hole`, `PartialEvaluator`) | immutable cells | substitute, collapse, evaluate | single-step substitution | substitution is complete; evaluation agrees with running |
| **Functions and tiering** (`runtime/Function`, `Environment`, `BytecodeBlock::optimize`) | `m_parentEnvironment`, `m_hitCount`, `m_jitCode`, `m_nativeFunction` | call, optimize, setParentEnvironment, lookup | a function changes tier while it is active, or while its program is being checked; one Function object per declaration | scope is lexical; code is compiled once, when all it refers to exists; `vm.currentBlock` is the innermost interpreter's |
| **JIT compiler** (`jit/JIT`, `X64Primitives.cpp.inl`) | `m_buffer`, pending jumps, bytecode mapping | an emitter per instruction, prologue, epilogue, patching | encodings with exceptions; one calling convention per runtime function; jumps before and after their target | a processor decodes what was meant; both tiers ask the runtime for the same and hold the same values |
| **Lexer, parser** (`parser/`) | position, current token, `EndsWith`, errors | next, rewind, getOperator, a function per rule | tokens are scanned again as operators; a rule that failed returns null to a caller that goes on; loops that wait for a token | a program is accepted only from a text that writes it; a text is answered, or has a mistake that explains why it is not |
| **Values, objects, equality** (`runtime/Value`, `Object`, `Array`, `Equality`) | NaN-boxed words, cells | get, set, tryGet, equality | tags in the low bits; equality by class | code computes what its text means |
| AST and instruction generators, Inspector | | | | not modelled: build scripts, debugging output |

Calls between them: `main` → parser → type checker → code generator → assembler
(one block holds both halves); `Interpreter::check` → scopes → solver →
`Interpreter::run` (holes); `Interpreter::run` → `Function::call` → interpreter
or jitted code → `trampoline` → `Function::call`; all of them → `Heap::allocate` → collector → `VM::visit`.

## The modules

**`ManagedMemory`** is what the heap promises: objects come into being, the
program follows and rewrites references, and only what it cannot reach
disappears. **`Heap`** is the translation of the allocators, of `CELL_CREATE`
and of the collector. A cell is a block (one per size) and a position.
`AllocateFromFreeList`, `AllocateByBump`, `StartCollection` and `OutOfMemory`
are the branches of `Heap::allocate`; `Construct` and `FinishCreate` the two
halves of `create()` around the constructor, between which `m_kind` is 0 and
other cells may be created. A collection runs through `phase`: `roots`
(`markRoot` for each root), `vm`, `native`, `drain`, `stack`, `sweep`; `gray`
is the work list. The mutator is reduced to what the rest of the interpreter
does with cells: native frames hold `handles` (each with the static type the
code has for it), dead stack words may name any cell ever handed out (`stale`,
chosen when a collection starts), registers, environments
and interpreters are `slots`. `disturbed` is a history variable: a collection has
begun in the middle of a `create()`, or with a flag already set (`CollectorAtHome`
is what `Heap::collect` relies on and nothing ensures). The properties hold of
every heap until then; `heap_invalid_cast` shows what may happen after.
**`HeapInvariant`** states the inductive invariants, **`HeapProofs`** the theorems,
**`MCHeap`** the small instances.

**`Activations`** is what the interpreters' shared stack stands for: a stack of
private activations. **`Interpreter`** is the translation of
`runtime/Interpreter`: a frame per `Interpreter` object, `stack`, `store` and
`capacity` for the vector (a pointer into it carries the allocation it was
taken from), `scopes` and `unifications` for the two chains. An instruction
that nests an interpreter takes two steps: the first records what
`preserveStack` records and starts the nested frame, the last (`FinishCall`,
`FinishNewFunction`, `FinishResolve`, `FinishPop`) restores `m_cfr`, and, but for
`FinishPop`, writes the result through it. Of the registers that
`InferImplicitParameters` fills, each in a `preserveStack` of its own, one stands for
all. Conditions, failures of constraints and unknown variables are nondeterministic.
**`Typing`** is the compiler: `infer`, `check` and `generate`, functions on the
nodes of syntax trees (`Nodes`, each of which has a `Height` above its parts'), give
the instructions that the member functions of the AST classes emit; an operator
per kind of node (`CheckStatement`, `InferStatement`, `GenerateStatement`, ..) says
what is emitted for it in terms of what is emitted for its parts. `IsCodeOf` puts
the two halves of a block together. **`MCTyping`** has six
programs compiled by `Typing`, and one written in instructions whose
register contents matter; its `CompilationAssumption` has TLC evaluate that the
code of the six is the code of their texts. **`InterpreterProofs`** has the
theorems about frames, registers and activations, **`InterpreterScopeProofs`** those
about scopes, **`TypingProofs`** those about the code that `Typing` emits, and what
follows from both.

**`Types`** has the classes of types with what their constructors and
`substitute`, `instantiate`, `collapse` do, and the evaluation of holes.
**`Solver`** is `UnificationScope::unifies` and `matches`: functions from a scope
to a scope, one case per rule, named as the comments in the code name them;
`RuleFor` is the order in which the rules are tried, `Conclude` what each does. **`Unification`** is the
chain of scopes while one declaration is checked: `CheckStatement` and
`InferExpression` give the instructions the type checker emits for it, and each
action runs one of them (`DoPush`, `DoUnify`, `DoMatch`, `DoInfer`, `DoResolve`,
`DoPop`, `DoLoad`). **`Semantics`** says, independently of the solver, which
values a type stands for and what a type means in a *world*, a choice for
everything that is open while a function is checked; the properties compare the
two. **`MCUnification`** has the universes of types and the declarations over
them (`Exact` names the types the solver is to decide exactly), **`MCCalls`** those that match and
those that call generic, bounded and dependent functions, and **`MCSurprises`** the declarations on which
the checker does not do what its comments and tests say.

**`Assembler`** is `InstructionStream`, `Label`, `BytecodeBlock` and the part of
`BytecodeGenerator` that drives them: an action per kind of emission (`Emit`,
`EmitJump`, `Link`, `EmitPrologue`, `EndTypeChecking`, `Finalize`), and
`LocationInfo`, the binary search done with the result. A word is reduced to
the instruction it belongs to, its place in it, and the value of a jump's
target. The history variables number the instructions, so that a property can
say which one a jump or a location was meant for. **`AssemblerInvariant`** is
the inductive invariant, **`AssemblerProofs`** the theorems, **`MCAssembler`**
the instance.

**`Bytecode`** has the instructions that may be in code that runs, and the tags
of a word. **`Codegen`** is `ast/Codegen.cpp` and `BytecodeGenerator`: an operator
per class of node, from a generator to the generator with the node's code in it;
`Linked` resolves the labels. **`Handlers`** is the run-time half of
`Interpreter::run`, one function per instruction, from the interpreter's state and
the answers of the runtime to what it asks for, what it writes and where it goes
on. **`Execution`** puts both together: a function is compiled, and run
instruction by instruction (`Step`) over a heap of arrays, tuples, objects,
environments and types, whose operations are translated from `runtime/`. The
reference is `Meaning`, an evaluator of the syntax tree that knows no registers,
labels or instructions. **`MCPrograms`** has constructors of trees and
**`MCExecution`** the functions.

**`X64`** has the primitives of `X64Primitives.cpp.inl`, byte by byte, and, as the
external reference, a decoder (`Decode`) and a processor (`Execute`) for x86-64,
written from the architecture and not from the encoder. **`JIT`** is `JIT::compile`:
an emitter per instruction, jumps by label or by bytecode distance, patched as
the code does. **`Encoding`** emits primitives one after another and compares
what a decoder reads with what was meant; **`EncodingProofs`** has the theorems about
that. **`Tiers`** lets the processor execute a
compiled function (`Step`, `Call` of the runtime, `Return`) with the
interpreter following: when the machine code reaches the next bytecode
instruction, `Interpret` runs the handler of the last one with the same answers.
Where a variable is looked up that is not there the tiers part (`apart`): both go on,
with different values, and from there only the machine is followed, to the end of
its call.
**`MCEncoding`** and **`MCTiers`** are the instances.

**`Tiering`** is everything about functions that spans calls: `CheckFunction` and
`FinishCheck` (a declaration is checked, then its Function made), `Evaluate` (a
hole runs user code in the middle of checking), `Declare` (the one Function is
given this activation's environment), `CallInterpreted`, `CallCompiles` and
`CallNative` (the branches of `Function::call`), `Return` and `Fail`. Activations
of both tiers nest in `frames`. **`TieringInvariant`** states the inductive
invariant, **`TieringProofs`** the theorems, **`MCTiering`** has a function that
declares another. **`NaturalFacts`** has what several proofs share: induction over
the natural numbers and over heights, stated of sets, the fixed point that a
recursive function is, and facts about sequences.

**`Lexer`** and **`Parser`** are functions from a lexer or parser to the next one.
A rule of the parser is the sequence of its steps (tokens it consumes, what it
reads into which member), so that a rule reads like the grammar it implements
and failing in the middle is one definition for all of them (`Steps`). Loops that
wait for something that never comes have the outcome `hangs`, null pointers that
are used `segmentation fault`, and a failed assertion of the lexer is an outcome of
its own; an error is recorded after the token that follows it has been read, so one
of these may come before it. **`Grammar`** gives, independently, the texts that
write a tree. **`Reading`** writes a text piece by piece and reads it after every
piece, and has the five mistakes that may stop the parser (`UnclosedBlock`,
`UnclosedComment`, `UnclosedString`, `NoToken`, `FunctionWithoutName`), stated of the
characters and not of the tokens; **`MCReading`** has the alphabets.

Which module uses which: `Heap` refines `ManagedMemory`, `Interpreter` refines
`Activations`; `Typing` supplies the programs of `Interpreter`; `Unification`
extends `Solver` and `Semantics`, both of which extend `Types`; `Bytecode` is
shared by `Codegen`, `Handlers` and `JIT`; `Execution` composes `Codegen` and
`Handlers`, `Tiers` composes `Codegen`, `JIT`, `X64` and `Handlers`; `Grammar` and
`Reading` extend `Parser`, which extends `Lexer`. `Interpreter` knows *when* a
scope solves its constraints and nests interpreters for it, `Unification` *what*
solving them decides; `Tiers` knows what one activation of jitted code does,
`Tiering` which activations there are.

## The runs

| run | shows | bounds |
|---|---|---|
| `heap_safety` | no dangling reference, and complete collections | one block of 3 cells: a live, a dead and a stale cell, reuse and chains of fields all occur; 2 handles, 1 field, 1 slot, 1 root |
| `heap_refines` | types and free lists are sound, always; until a collection begins where the collector is not at home, the inductive invariant holds, the collector visits no destroyed cell and `Heap` implements `ManagedMemory`; a collection ends, always | two blocks of 1 cell, one class whose constructor creates a cell of the other size, blocks zeroed or not: one size has a free cell while the other collects |
| `interpreter` | scopes nest and close on every path; a checked program has no open scope and no error; frames tile the stack, `m_cfr` is current, `Interpreter` implements `Activations` | all seven programs, recursion to depth 5, two values, 3 hole evaluations, 6 nested interpreters |
| `unify` | what is accepted is type safe; between simple types, what is rejected has a counterexample; a failure is always reported; inferred types are within bounds; calls have substituted types; scopes agree on a variable; an accepted pattern can match; no assertion fails | every pair of base types, tuples, records, arrays, unions inside and outside of them, functions; nested calls of six generic or dependent functions, accesses, refined branches, two-case matches: some 15 000 declarations |
| `assembler` | jumps land on their labels, the code starts at its Enter, locations are ordered and found, and the inductive invariant | 15 words: two jumps, two labels, two locations and two prologues in every order |
| `execution` | a function returns or fails as its text says, and every function ends | 16 functions of every kind of expression, pattern and statement, nested so that registers, labels and results of one meet those of another |
| `tiers` | jitted code asks the runtime for what the interpreter asks for, of the same objects, with the same values and in the same order; it goes on where the interpreter goes on and its frame holds what the registers hold, up to a variable that is not there; where they part, only that variable's register differs; stack and caller are kept as the ABI says, and every call ends, also beyond | six functions with every instruction the compiler has code for in functions; every answer the runtime may give |
| `encoding` | what is emitted is decoded as what was meant | every primitive with every register the compiler gives it, displacements and immediates at and around what a byte holds, alone and followed by another |
| `reading` | what is accepted is what is written; every writing of an expression is read as it; where the parser hangs or asserts, the text has one of five mistakes, and for all but three of them an error was recorded before | texts over twelve alphabets (operators, lists, objects, types, declarations, functions, branches, matches, tokens, strings, comments, functions without a name) of 4 to 8 pieces; one piece after the first error |
| `tiering` | `vm.currentBlock` follows the interpreters through frames of both tiers; a block is compiled at its threshold, once, and only with the functions it declares; scope is lexical | three functions, one in another; 4 nested activations, 10 environments, threshold 1 (a call in each of the three branches of `Function::call`, and hot in the middle of a recursion) |
| `heap_invalid_cast`, `tiering_closures` | *violations*: see findings | two blocks of 1 cell; 9 environments |

Deadlock is not checked where the process ends (`done`, `exit`, out of memory, a
failed assertion, a declaration that is checked, a block that is finalized, a text
that is long enough), and the bounds on nesting, evaluation and size stop a
behaviour. `tiers` and `execution` have a step for having ended, and check it.

Each module states a type invariant where typing can go wrong; those of
`Interpreter`, `Unification` and `Tiering` are the first conjunct of
`FramesTileTheStack`, `NeverAborts` and `CompiledOnce`. Words and bytes of
`Execution`, `Encoding` and `Tiers` are within their width by `InWord`, and TLC
fails on a register or an address that does not exist.

The bounds on types are enough for the solver's rules because each rule looks at
one constructor of each side and recurs on its parts; two levels of nesting and
pairs of fields reach every pair of rules in sequence. The variables left open
stand for any of the values in `OpenValues`, so acceptance is required in every
world.

A word has 24 bits and a half word 16 in `X64` (`WordBits`, `HalfBits`): enough for
the tags, for a displacement of 8 bits and one of more, and for addresses that do
not collide; the widths that the encodings distinguish are those of the code. The
texts of `reading` are short, but each piece may be several characters, and every
pair of rules that may follow each other in the grammar meets in one of them.
`MaxLate` limits texts after an error, where only stopping is at stake; a text that so
far only stops the parser may be completed without limit.

**Fairness.** `heap_refines` assumes weak fairness of `Collection`: the collector is
a loop of the thread that allocates, so once begun it is never suspended in
favour of the mutator. `CollectionEnds` says nothing about the mutator. `tiers`
and `execution` assume weak fairness of the processor's and the interpreter's
next instruction: a single thread that nothing suspends forever, and whose
runtime functions return.

**What `unify` leaves out.** Its declarations avoid the six families of
`MCSurprises` (see findings and observations): a type passed where a value of
that type is expected, a rigid type variable that receives a type, functions as
arguments for parameters of the very same function type, unions in the
parameters of generic functions, pattern variables that a nested scope meets
before they are solved, and a caller and a callee that use one name for
different parameters. So `AcceptedIsIncluded` is a statement about programs
without those. Holes are variables and calls with one argument, an `if` has both
branches, and fields are tried in one order where the code follows an
`unordered_map`.

**What the other runs leave out.** In `execution` every `if` has an `else`, the
variables of an inner block have names of their own and a string is not matched
against a pattern; in `tiers` no function type has two parameters, and true may be
the word 1 after a comparison; the observations below are why. Every text of
`reading` ends in a newline. In `tiering` a function is found by its block's name:
nothing shadows it, and functions are not passed as values. In `heap_safety`
constructors create nothing and blocks start zeroed; `heap_refines` has both. What a
collection does that begins inside a constructor, or with a flag set, is excluded
from the heap's properties but for types, free lists and termination, and is the
subject of `heap_invalid_cast`. In `tiers` nothing is compared after a variable that is
not there: from then on the tiers have different values.

## Findings

Each is a run whose property fails.

* `heap_invalid_cast`: `m_kind` is set after the constructor, and the
  conservative scan follows only cells with a kind. A constructor that
  allocates (`TypeName`, `TypeVar`, `TypeFunction`, `TypeTuple`,
  `HoleVariable`) can collect the cell it is constructing. (Whether a program
  meets this depends on when a collection starts.)
* `tiering_closures`: a function declaration has one Function object, and running
  it again changes that object's environment, also for those that hold it from
  before. A recursive function's inner function, called after the recursion
  has returned, sees the variables of the activation that ended. Reproduced in
  both tiers.

### Observations

Disagreements with the code's comments and tests that no run of the suite
checks; all those with a property were found by TLC, and reproduced with the
interpreter where its own behaviour is concerned. To see one, give the named
configuration the constant and, as its only property, the one named.

Of the checker, in `interpreter.cfg`:

* `Program = {"nestedMatch"}`, `MaxEvals = 0`, `NeverLate`: `match` in a position
  that is inferred resolves, and thereby finalizes, the scope it shares with its
  surroundings; an enclosing `match`, or any statement behind it, then adds a
  constraint and the assertion "UnificationScope already finalized" fails.
* `{"inBlock"}`, `FunctionsAreKnown`: a block in a position that is inferred is
  not checked at all (`Typing.cpp:116`); a function in it runs with an
  uninitialised index.
* `{"noElse"}`, `NeverSpins`: an `if` without `else` whose condition is false
  jumps to itself (`Codegen.cpp:73`).

Of the solver, in `unify.cfg` with module `MCSurprises` instead of `MCCalls`, whose
families go to `Programs`:

* `FailedAlternativePrograms`, `InferredWithinBounds`: a binding is recorded
  whether or not its bounds are met, and an alternative of a union that failed
  does not take its bindings back.
* `CapturePrograms`, `AcceptedIsIncluded`: holes of both sides are evaluated in one
  environment, into which the callee's parameter names are written; they
  capture the caller's.
* `RigidPrograms`, `AcceptedIsIncluded`: T-Type-Var returns without an error when
  the variable is rigid (`UnificationScope.cpp:162`; its comment lists the premise
  `!isRigid(T)`), so any type passes for a value of a rigid type variable.
* `TypeForValuePrograms`, `AcceptedIsIncluded`: line 171 takes a type for one of
  its own values; `f({a: Number})` is accepted for `f(x: {a: Number})`.
* `UnionPrograms`, `RejectedHasCounterexample`, `Exact <- MCRejectedTypes`: a union
  of records is collapsed before its alternatives are looked at (line 216), so
  `{a: Number} | {a: String}` is rejected where
  `{a: Number} | {a: String} | Bool` is expected.
* `ReflexivePrograms`, the same: parameters of functions are compared as types
  passed as values (line 293); `(Number) -> Number` is rejected where
  `(Number) -> Number` is expected, against T-Ident's `σ <: σ`.
* `OuterVariablePrograms`, `OneSolution`: a pattern variable is bound by the scope
  of a call in the case's body (line 180), and differently by its own.
* `BranchPrograms`, `NeverAborts`: a block in a refined branch does not see what
  the branch has learnt (line 94), and evaluating the type asserts.

Of the generated code, in `execution.cfg`:

* `Programs <- MCShadowing`, `IndicesAreNumbers`: the checker opens a scope for a
  block (`Typing.cpp:126`), the generator does not (`Codegen.cpp:46`): a variable
  of a branch overwrites the outer one of the same name, of another type.
* `Programs <- MCTexts`, `PatternsFailWhenNoneMatches`: `isEqual` has no case for
  strings (`Equality.cpp`), so a string literal in a pattern matches no string.

Of the compiler, in `tiers.cfg`. The tests are run with both tiers
(`src/Makefile:29-31`), so they are meant to agree:

* `Blocks <- MCFunctionTypes`, `TiersAskTheSame`: the parameters of a function type
  are passed by the address of the first register and read upwards, while
  registers lie downwards (`JIT.cpp:433`): all but the first are other words.
* `ConditionsAreBooleans` (with `MCBlocks`): the fast path of a comparison writes
  the low byte of `false`; the word is then 1, which is no boolean
  (`JIT.cpp:340-342`). Jumps take it for true, since they compare with `false`.
* `Blocks <- MCPutOff`, `NothingElseIsCompiled`: a lazy array, in code that runs,
  has an instruction the compiler refuses with an assertion (`JIT.cpp:492`).
* `UnknownIsUnit` (with `MCBlocks`): a variable that is not there when code runs is
  `Value::crash()` in jitted code (`Environment.cpp:67-73`, stored by `JIT.cpp:173`
  whether or not the lookup fails) and unit in the interpreter
  (`Environment.cpp:22-28`, `Interpreter.cpp:168`). `VM::typeError` only records the
  error (`VM.cpp:74-77`), nothing reports it after type checking, and both go on.
* Base registers r12 and r13, indices from r8 on, and `push`, `pop` and `compare32`
  of r8 and above are not encoded as meant; the compiler uses none of them.

Of tiers and locations: in `tiering.cfg` with `Threshold = 0`, `ErrorsAreLocated`:
`runtimeError` looks its location up in `vm.currentBlock`, which jitted code
leaves at an outer block; with `JIT_THRESHOLD=0` a failed match in a function is
reported at a line of the main program.

Of the lexer and the parser:

* `reading.cfg`, `Alphabets <- MCComments`, `CommentsAreSkipped`: `/*/` is taken for
  a whole comment, also where `/*` opens the next (`Lexer.cpp:189-192`).
* `reading.cfg`, `OnlyOperatorsAreReserved`: after `function`, what is neither a name
  nor an operator fails an assertion (`Lexer.cpp:292`) where other mistakes are
  reported.
* A string that is not closed fails an assertion (`Lexer.cpp:226`), and `/*` that is
  not closed hangs the lexer (`Lexer.cpp:186-200`), wherever they are; no error
  has been recorded then.
* Errors are shown only when `parse()` returns. An unclosed `{`, `if (true) { let }`
  and a character that begins no token (`@`, `Lexer.cpp:254`) where a declaration
  should, never let it; `x.1(2)` ends in a null pointer. `for` and `while` are
  accepted, and are null pointers when checked. `EveryStopHasItsCause` says that
  there are no further ways to stop.
* At the end of a file without a newline, a comment hangs the lexer and a number
  loses its last digit (`12` is read as 1).
* `<A, <B, C>>`, `(#1)` and `(<A, B>)` are rejected, and `1 +/**/ 2` has the
  operator `+/**/`.

Of the assembler:

* `adjustOffsets` (`BytecodeBlock.cpp:152`) shifts only offsets greater than the
  size of the prologue, so an error in one of the first instructions is reported
  at a later location. `LocationsAreFound` states where the table is right.
* `let x = #[]`: `LazyExpression::generate` asks for a type after type checking has
  ended, whose prologue fails the assertion of `BytecodeBlock.cpp:141` (`aborted`
  in `Assembler`).

## What is proved

TLAPS checks every theorem for all values of the constants. Of those it assumes
`ConstantsAssumption`, `AssemblerAssumption`, `TieringAssumption`,
`InterpreterAssumption`, `CodeAssumption`, `EncodingAssumption` and
`SyntaxAssumption`, each next to the constants it is about, and TLC evaluates each
on the instances. The first four say what kind of thing a constant is and that
every function has a block of its own. `CodeAssumption` says what the code
generator guarantees of a block: both parts begin with Enter and control stays
within its part (of compiled code this is `CompiledCodeStaysInside`), registers are
locals of the block, and the functions it declares are compiled.
`EncodingAssumption` says that displacements and immediates have four bytes, and
that an index is one of the first eight registers, since `emitRex` is never given
one. `SyntaxAssumption` says that the parser makes trees: the parts of a node are
nodes of the right class and lower than it, and there is a highest one.

**Heap** (`HeapProofs`).

* `TypeCorrect`: `Spec => []TypeOK`, and `FreeListsAreSound`:
  `Spec => []FreeListsSound`. Soundness of the free lists is inductive together
  with the type invariant: a swept cell does not carry the marker, so it is on
  no list yet, and allocation takes the marker away with the list entry.
* Of every heap, whatever its constructors create and whatever its blocks held
  before, until a collection begins where the collector is not at home
  (`disturbed`): `HeapInvHolds`, and from it `NothingDangles` and
  `CollectorNeverCrashes`. `NoDanglingReference` is not inductive: it says nothing of a collection in
  progress. `HeapInv` adds why marking is complete when the sweep begins (every
  kind of root is flagged by the end of its phase, a flagged cell's fields are
  flagged or the cell is in the work list), why flags are clear between
  collections, what the sweep leaves alone, and that the cells under construction
  are apart from all others, however deep constructors nest (`BuildingApart`).
  What is left out is the case of `heap_invalid_cast`, and its twin with a flag
  that was set when a cell was handed out: while a `create()` that nests does not
  have to collect, nested constructors lose nothing, and a collection that begins
  in one is the *only* way, with an uninitialised flag, by which the modelled
  collector loses an object.
* `CollectionsAreComplete`: what survives a collection is reached by a root, a
  register or a word of the native stack. The converse of safety needs the
  converse invariant: `CollectorInv` adds that a flag is *earned*, that is, set only
  on cells something of the kind leads to (`FlagsAreEarned`), and that the words
  of the native stack stay flagged until the sweep (`WordsAreFlagged`).
* `HeapImplementsManagedMemory`: `Spec => ImplementsManagedMemory`. Every action is
  a step of the abstract memory or a stutter; the only hard case is the
  sweep of a cell, where `CollectorInv` says that the program cannot reach it. With the same proviso
  (`\/ disturbed` in the abstract step); `UndisturbedInv`, which `heap_refines` checks, is
  `CollectorInv` under it.

**Assembler** (`AssemblerProofs`), for any labels, instruction sizes and block
length: `TypeCorrect`, `JumpsLandOnTheirLabels`, `CodeStartsRight`,
`LocationsStayOrdered`, `LayoutHolds`, `LocationsAreFoundRight`.

* `JumpsLand` is not inductive: that a label is patched in the right place rests on
  where each reference's jump is *now* (`ReferencesAreJumps`), that no other jump is
  written to on instructions being whole and references being to different jumps,
  and that a prologue moves both ends of a jump alike on nothing but the prologue
  being in front (`PrologueIsFirst`). `Layout` is the conjunction. Steps that only
  append are treated once (`Extends`), then the new jump, the linked label and the
  inserted prologue each have a lemma of their own.
* `LocationsAreFoundRight`: the binary search of `locationInfo` finds the location
  recorded for an instruction, in tables of any length, by induction over the
  width of the interval that is still searched.

**Functions and tiering** (`TieringProofs`), for any program, threshold and bounds:
`CurrentBlockIsRight`, `BlocksAreCompiledOnce`, `CodeKeepsNoNull`,
`ScopeIsLexical`. They hold together or not at all, by one inductive invariant,
`TieringInv`, whose parts say why: each interpreter keeps in `m_lastBlock` what was
current before it, through jitted frames that keep nothing (`BlocksNest`); the
checks in progress lead from the program to the declaration being checked, what
they have passed exists and what they have not does not (`ChecksNest`,
`DeclaredInside`); an activation runs only when all its block declares exists
(`FramesAreScoped`); what can be looked up has an environment of the block that
declares it (`BoundExists`, `ParentsDeclare`). A hole that runs user code in the
middle of checking is what makes each of them necessary. `tiering.cfg` lists the
four properties; with `INVARIANT TieringInv` added, TLC finds that it holds too.

**Interpreter** (`InterpreterProofs`, `InterpreterScopeProofs`), for any compiled
programs, any numbers of locals, and any bounds:

* `StackInvHolds` and `RegistersStayCurrent`: the frames are at instructions of their
  blocks (`Control`), divide `vm.stack` without gap or overlap (`Tiles`), and `m_cfr`
  points where the vector is now (`RegistersAreCurrent`); the three need each other.
  Every step is of one of four kinds (`StepKinds`): it changes the innermost
  frame in place, nests an interpreter, enters or ends; each kind has one lemma.
* `InterpretersImplementActivations`: `Spec => ImplementsActivations`. The mapping
  reads each activation's arguments and locals out of the shared vector; the proof
  is that the place of a frame's words, counted from the *back* of the vector, never
  changes while the frame exists.
* `ScopesNestRight`, `CheckedProgramsAreChecked`, `FramesTile`: scopes close in
  the interpreter that opened them, a checked program has none left and no error,
  and every variable keeps its type (an environment is never popped below the
  global one). These depend on what the type checker emits, so they are for every
  `depth` with `IsNesting(depth)`: on every path through a block as many scopes
  are open before an instruction as `depth` says, none at Enter and End, and the
  program's own block does nothing that can fail outside its unification scopes.
  `ScopeInv(depth)` says that at any moment each interpreter has as many scopes
  open as its instruction is deep, and that the unification scopes of nested
  interpreters lie on top of each other; the innermost scope being one's own
  (`InnermostIsOwn`) follows. That an interpreter that checks is never nested in one that
  runs (`ModesNest`) is what makes an error in a hole or a call come before the
  report, and `ErrorsAreReported` that nothing is found after it.
* That `IsNesting` is met by what the compiler emits is proved next. Of the seven
  programs of the run, the hand-written one among them, TLC evaluates it with
  `depth` counted in the text of the block (`NestingAssumption`, `TextualDepth`). As
  invariants of that run, `Control`, `ModesNest`, `ScopesAreDeep(TextualDepth)` and
  `ErrorsAreReported` hold as well.

**Compiler** (`TypingProofs`), for any programs whose blocks are the code of syntax
trees (`AreCompiled`), however large:

* `CompiledCodeStaysInside`: neither half of a block leads into the other, or back
  to its own beginning. `CompiledCodeNests`: some `depth` nests all blocks. With it,
  `CompiledScopesNest`, `CompiledProgramsAreChecked` and `CompiledFramesTile` are the
  theorems about scopes without their premise: a checked program has all its
  constraints solved, whatever its text.
* A piece of code is `Balanced` when every place in it can be given a number of
  open scopes and of open unification scopes that each instruction changes as it
  should, with none open at its ends. It may also jump beyond its end, to a
  fixed distance, where nothing is open: the two errors of a call jump to `done`
  from inside `checkArguments` (`ThenOut`, `JumpsOut`). `Joined` is the lemma all
  rests on: of two pieces in a row, the exit of the first may be the end of the
  second or its exit. Branches, the cases of a `match` and the scopes of parameters
  follow from it, and code in a scope is one level deeper (`LevelsAround`).
* Each node's code is balanced when that of its parts is (`InferNodeIsCode`,
  `CheckNodeIsCode`, `GenerateNodeIsCode`), and so all code is, by induction over
  heights. That `infer`, `check` and `generate` are functions with these equations
  needs a proof of its own: what they say of a node must depend on lower nodes
  only (`InferNodeAgrees`, ..), whence the one fixed point is built height by
  height (`FixedPoint` of `NaturalFacts`).
* Code that runs has no instruction that checks (`Codes(Others)`), and a program's
  checks are inside the type checker's topmost unification scope
  (`InsideUnified`), so that no error comes after the report.

**Encoding** (`EncodingProofs`), for any number of primitives, with any of the
registers the JIT gives them and any displacements and immediates of four bytes:

* `PrimitiveIsRead`: wherever the bytes of a primitive are in some code, the decoder
  reads the instruction that was meant, or the two of them, and stops behind
  it. The argument goes from bytes to four- and eight-byte words in two's
  complement, to the REX and ModRM fields, to operands with their exceptions (a base
  that needs a SIB byte or a displacement, `AddressOperand`), to instructions.
* `CodeAlwaysMeant`: `Spec => []CodeIsWhatWasMeant`. The property says nothing of where
  a primitive begins; the inductive invariant `EncodingInv` does: the code is
  the bytes of what was emitted, in a row, without gap. `RowIsRead` then reads a row
  of any length, one primitive after another.

### Model-checked only

* Liveness, which rests on fairness and `ENABLED`: that a collection ends
  (`CollectionEnds`), and that calls and functions do.
* What `Types`, `Solver`, `Semantics`, `Unification`, `Codegen`, `Execution`, `Lexer`,
  `Parser`, `Grammar` and `Reading` say: they use recursive operators over trees and
  types, which the prover does not support. So all about the solver, what compiled
  code computes, and the parser is checked on the families named above.
* What a processor does with a whole function's machine code (`Tiers`): its
  properties compare computations over concrete words, and `Codegen` and
  `Handlers`, which it composes, are recursive.
* That the compiler's registers are locals of its block and that all functions are
  compiled (`UsesItsLocals`, `DefinesCompiled` of `CodeAssumption`): `Typing` abstracts
  registers, and the constants of a run say which functions there are.
* `NestingAssumption` of the program written in instructions, which has no text.

## Not modelled

In `Heap`: the switch `NO_GC`; registers that are not spilled when the native
stack is scanned (`Heap.cpp:97`, a matter of compiled code); block exhaustion by cells larger
than a block. In `Interpreter`: the contents of environments and objects (they
are those of `Execution`), jitted code (`Tiering`), and which type a constraint
relates (that is `Unification`'s). In `Typing`: type expressions and patterns are one instruction
each, the re-checking of literals by `generateForTypeChecking` is folded into it,
and `checkArguments`' rewriting of the AST is left out. In `Types`: holes other
than variables and calls with one argument, dumping, and what another compiler might
make of `collapse` for a union inside a union that is no union of records: `as<>` is
applied to a null pointer there (`Type.cpp:248-249`), which the build (clang++, not
optimised) takes for no record, as `Collapse` does. In `Assembler`:
constants, identifiers and function tables, which only grow. In `JIT`: the
instructions that only code for types has (`StoreConstant`, `GetLocalOrConstant`,
`GetArrayLength`, `NewVarType`, `NewNameType`, `NewBindingType`), protection of the
pages, and relative displacements beyond a word. In `Execution`: builtin functions, printing
and the collector. In `Lexer`: lines and columns, the characters of a
name, and of numbers everything but their digits. The AST's and instructions'
Ruby generators are build scripts, whose output the modules take for granted;
the Inspector prints.

## Plan

1. *Done*: `ManagedMemory`, `Heap` and its proofs; `Activations`,
   `Interpreter`, `Typing`; `Types`, `Solver`, `Semantics`, `Unification`;
   `Assembler` and its proofs; `Tiering`; `Codegen`, `Handlers`, `Execution`;
   `X64`, `JIT`, `Encoding`, `Tiers`; `Lexer`, `Parser`, `Grammar`, `Reading`.
2. *Done*: proofs of the invariants of `Tiering` and `Interpreter` for any program
   and bounds, of `Encoding` for any row of primitives, that all code `Typing` emits
   nests its scopes, that each step of `Interpreter` maps to a step of `Activations` and
   each step of `Heap` to a step of `ManagedMemory` until the collector is disturbed, that
   collections are complete and that locations are found.
3. Proofs: `UsesItsLocals` of the registers that `Codegen` hands out, and that `Tiers`'
   calls restore their caller, both once their trees are recursive functions.
4. Builtin functions, and the instructions that build generic types in `JIT`.
