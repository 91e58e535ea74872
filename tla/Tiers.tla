------------------------------- MODULE Tiers --------------------------------
(***************************************************************************)
(* A function in both tiers: its machine code, executed instruction by     *)
(* instruction by a processor, next to the interpreter's handlers of the   *)
(* same bytecode (runtime/Interpreter.cpp).  The interpreter follows: when *)
(* the machine code is through with a bytecode instruction, the handler of *)
(* that instruction runs, with the same answers from the runtime.          *)
(*                                                                         *)
(* What the two can be compared by is what they ask of the runtime, with   *)
(* which arguments, and what they leave in the virtual registers.  They    *)
(* part where a variable is looked up that is not there: its register is   *)
(* then Value::crash() in jitted code and unit in the interpreter, and     *)
(* VM::typeError() only records the error.  The machine code goes on, and  *)
(* is no longer followed.                                                  *)
(***************************************************************************)
EXTENDS JIT, Handlers

CONSTANTS
    Blocks,         \* the functions: sequences of blocks
    MaxArguments    \* bound: arguments and parameters of a call

(* A block is a record: code, numLocals, constants and functions as in     *)
(* BytecodeBlock, and what the runtime may answer it: arguments, the words *)
(* of its parameters; variables[k], what the variable with that name may   *)
(* hold (crash: there is none); values, what an object, an array or a call *)
(* may yield; and cells, the kinds of the cells among them by address.     *)
ASSUME TiersAssumption ==
    /\ MaxArguments \in Nat
    /\ \A k \in DOMAIN Blocks :
          Blocks[k].numLocals \in Nat \ {0} /\ Len(Blocks[k].arguments) <= MaxArguments

VARIABLES
    block,      \* the block that is called (does not change)
    code,       \* what it was compiled to (does not change)
    cpu,        \* the processor: registers, zero flag, memory, rip
    arrived,    \* both tiers are in front of the same bytecode instruction
    answers,    \* what the runtime answered since then
    made,       \* what the machine code asked of it
    pc,         \* m_ip: the offset of the interpreter's instruction
    registers,  \* the virtual registers, as the interpreter has them
    expected,   \* what its last handler asked of the runtime
    apart,      \* a variable was looked up that is not there
    outcome     \* "running", or how it ended

machine == <<cpu, answers, made>>
interpreter == <<pc, registers, expected, apart>>
vars == <<block, code, cpu, arrived, answers, made, pc, registers, expected, apart,
          outcome>>

InstructionAt(offset) ==
    block.code[CHOOSE k \in DOMAIN block.code : code.offsets[k] = offset]

\* Where things are in memory.
ParentEnvironment == 320
NewEnvironment == 336
NewCell == 352
ArgumentVector == 2048
EntrySP == StackLimit + 264
CallerCFR == EntrySP + 80
ReturnAddress == 30000

----------------------------------------------------------------------------
(* What a function of the runtime is asked, by the words it is passed.     *)

Arity == <<2, 2, 3, 3, 3, 3, 2, 3, 3, 2, 2, 4, 3, 3, 2, 2, 2, 3, 2, 2, 5, 5, 3, 4, 3, 3>>
ArityOf(function) ==
    Arity[CHOOSE k \in DOMAIN RuntimeFunctions : RuntimeFunctions[k] = function]

\* n words, upwards or downwards from an address.
Up(mem, a, n) == [k \in 1 .. (IF n <= MaxArguments THEN n ELSE 0) |-> Read(mem, a + 8 * (k - 1))]
Down(mem, a, n) == [k \in 1 .. (IF n <= MaxArguments THEN n ELSE 0) |-> Read(mem, a - 8 * (k - 1))]

Asked(function, a, mem) ==
    CASE function \in {"trampoline", "createHoleCall"} ->
            <<function, a[1], a[2], a[3]>> \o Down(mem, a[4], a[3])
      [] function = "createTypeFunction" ->
            <<function, a[1], a[2], a[4], a[5]>> \o Up(mem, a[3], a[2])
      [] function = "createTypeRecord" ->
            <<function, a[1], a[2], a[3]>> \o Up(mem, a[4], a[3]) \o Up(mem, a[5], a[3])
      [] function = "Value::operator==" -> <<function, Read(mem, a[1]), Read(mem, a[2])>>
      [] function \in {"createArray", "createTuple", "createObject"} ->
            <<function, a[1], TypeOrNone(a[2]), a[3]>>
      [] OTHER -> <<function>> \o SubSeq(a, 1, ArityOf(function))

\* And what it may answer: a word, or anything when it returns void.
Answers(function, a) ==
    CASE function = "createEnvironment" -> {NewEnvironment}
      [] function = "jitEnvironmentGet" ->
            LET k == (a[2] - identifier(0)) \div 8
            IN  IF k \in DOMAIN block.variables THEN block.variables[k]
                ELSE {Poison}
      [] function \in {"Array::getIndex", "Tuple::getIndex", "Object::get", "trampoline"} ->
            block.values
      [] function = "tryGetJIT" -> block.values \cup {crash}
      [] function = "Value::operator==" -> {0, 1}
      [] function \in {"jitUnknownVariable", "Environment::set", "Array::setIndex",
                       "Tuple::setIndex", "setParentEnvironment", "Object::set",
                       "runtimeError"} -> {Poison}
      [] OTHER -> {NewCell}

----------------------------------------------------------------------------
(* The processor.                                                          *)

\* The interpreter, for its handlers.
Interpreter ==
    [block |-> block, pc |-> pc, registers |-> registers,
     environment |-> NewEnvironment, parent |-> ParentEnvironment, answers |-> answers,
     kinds |-> block.cells]

Loaded(compiled) ==
    [program |-> Disassembled(compiled.bytes), mapping |-> compiled.mapping,
     offsets |-> Offsets(block.code)]

\* compile() fails an assertion when an instruction only checks types.
CanBeCompiled(b) == \A k \in DOMAIN b.code : b.code[k].op \in Compilable
NotCompiled(b) == [program |-> <<>>, mapping |-> 0 :> 0, offsets |-> Offsets(b.code)]

\* Function::call() enters the jitted code as a function of C++.
Init ==
    \E b \in {Blocks[k] : k \in DOMAIN Blocks} : \E argc \in {Len(b.arguments)} :
        /\ block = b
        /\ code = IF CanBeCompiled(b) THEN Loaded(Compile(b)) ELSE NotCompiled(b)
        /\ cpu = [regs |-> [r \in Registers |->
                              CASE r = regA0 -> argc
                                [] r = regA1 -> ArgumentVector
                                [] r = regA2 -> ParentEnvironment
                                [] r = rsp -> EntrySP
                                [] r = rbp -> CallerCFR
                                [] OTHER -> Poison],
                  zf |-> FALSE,
                  mem |-> [a \in {StackLimit + 8 * n : n \in 0 .. 43}
                                 \cup {ArgumentVector + 8 * (n - 1) : n \in 1 .. argc}
                                 \cup {c + KindOffset : c \in DOMAIN b.cells} |->
                             IF a = EntrySP THEN ReturnAddress
                             ELSE IF a >= StackLimit THEN Poison
                             ELSE IF a >= ArgumentVector
                             THEN b.arguments[(a - ArgumentVector) \div 8 + 1]
                             ELSE b.cells[a - KindOffset] + 2^HalfBits],
                  rip |-> 0]
        /\ registers = [r \in {forLocal(n) : n \in 1 .. b.numLocals}
                              \cup {forParameter(n - 1) : n \in 1 .. argc} |->
                          IF r < 0 THEN Poison ELSE b.arguments[r]]
        /\ arrived = TRUE
        /\ pc = 0
        /\ answers = <<>> /\ made = <<>> /\ expected = <<>>
        /\ apart = FALSE
        /\ outcome = IF CanBeCompiled(b) THEN "running" ELSE "not compiled"

\* rip is a position in m_buffer, which counts from 0.
NextInstruction ==
    IF cpu.rip \in DOMAIN code.program THEN code.program[cpu.rip] ELSE Illegal
AtBoundary == \E o \in DOMAIN code.mapping : code.mapping[o] = cpu.rip
Executing == outcome = "running" /\ (arrived \/ apart \/ ~AtBoundary)

\* The machine code leaves the boundary: nothing was asked yet.
SoFar(asked) == IF arrived THEN <<>> ELSE asked

\* An instruction of the processor, other than a call or a return.
Step ==
    /\ Executing
    /\ \E i \in {NextInstruction} :
          /\ i.op \notin {"call", "ret", "illegal"}
          /\ cpu' = Execute(cpu, i)
    /\ arrived' = FALSE
    /\ made' = SoFar(made) /\ answers' = SoFar(answers)
    /\ UNCHANGED <<block, code, interpreter, outcome>>

Arguments == <<cpu.regs[regA0], cpu.regs[regA1], cpu.regs[regA2], cpu.regs[regA3],
               cpu.regs[regA4]>>
Target == Get(cpu, NextInstruction.rm)

\* What the handler of the instruction asks, as long as it follows.
Followed == IF apart THEN expected ELSE Handler(Interpreter, InstructionAt(pc)).asks

\* A call of the runtime, which answers or reports an error and exits.
Call ==
    /\ Executing
    /\ NextInstruction.op = "call" /\ IsFunction(Target)
    /\ \E w \in Answers(FunctionAt(Target), Arguments) :
          /\ cpu' = Returned(cpu, NextInstruction, w)
          /\ answers' = Append(SoFar(answers), w)
    /\ made' = Append(SoFar(made), Asked(FunctionAt(Target), Arguments, cpu.mem))
    /\ arrived' = FALSE
    /\ IF FunctionAt(Target) = "runtimeError"
       THEN /\ outcome' = "exit"
            /\ expected' = Followed
            /\ UNCHANGED <<pc, registers, apart>>
       ELSE UNCHANGED <<interpreter, outcome>>
    /\ UNCHANGED <<block, code>>

\* The machine code is in front of a bytecode instruction: the interpreter
\* runs the handler of the one before.
Interpret ==
    /\ outcome = "running" /\ ~arrived /\ ~apart /\ AtBoundary
    /\ \E h \in {Handler(Interpreter, InstructionAt(pc))} :
          /\ registers' = h.registers
          /\ expected' = h.asks
          /\ pc' = h.to
    /\ arrived' = TRUE
    /\ apart' = (InstructionAt(pc).op = "GetLocal" /\ Head(answers) = crash)
    /\ UNCHANGED <<block, code, machine, outcome>>

\* The value of the register of End is returned, in rax.
Return ==
    /\ Executing
    /\ NextInstruction.op = "ret"
    /\ cpu' = Execute(cpu, NextInstruction)
    /\ made' = Append(SoFar(made), <<"return", cpu.regs[regR0]>>)
    /\ expected' = Followed
    /\ outcome' = "returned"
    /\ UNCHANGED <<block, code, arrived, answers, pc, registers, apart>>

Ended == outcome # "running" /\ UNCHANGED vars

Next == Step \/ Call \/ Interpret \/ Return \/ Ended
Spec == Init /\ [][Next]_vars
FairSpec == Spec /\ WF_vars(Step \/ Call \/ Interpret \/ Return)

----------------------------------------------------------------------------
(* Properties.                                                             *)

\* Between any two instructions of the bytecode, jitted code has asked the
\* runtime for exactly what the interpreter asks for, in the same order, of
\* the same objects and with the same values, and returns the same result:
\* up to, and in, the instruction that looks up a variable that is not there.
TiersAskTheSame ==
    (arrived \/ (~apart /\ outcome \in {"returned", "exit"})) => made = expected

\* The condition of a jump is a boolean, as Value::asBool() asserts of it
\* (it is not: the fast path of IsEqual sets the lowest bit of `false', and
\* forgets the tag).
ConditionsAreBooleans ==
    arrived /\ outcome = "running" /\ InstructionAt(pc).op = "JumpIfFalse" =>
        isBool(Read(cpu.mem, cpu.regs[regCFR] + 8 * InstructionAt(pc).condition))

\* What jitted code takes for true is 1 after the fast path of IsEqual.
Holds(word, value) == word = value \/ (value = Bool(TRUE) /\ word = 1)

\* The registers in which the frame of jitted code holds something else.
VirtualRegisters == DOMAIN registers \ {environmentRegister}
Jitted(r) == Read(cpu.mem, cpu.regs[regCFR] + 8 * r)
Different == {r \in VirtualRegisters : ~Holds(Jitted(r), registers[r])}

\* Jitted code is where the interpreter is, whichever way its jumps were
\* resolved, and its frame holds what the interpreter's registers hold.  Where
\* they part it still does, but for the register of the missing variable.
TiersHoldTheSame ==
    arrived /\ outcome = "running" =>
        /\ code.mapping[pc] = cpu.rip
        /\ pc > 0 =>
              \/ Different = {}
              \/ apart /\ \E r \in VirtualRegisters :
                    Different = {r} /\ Jitted(r) = crash /\ registers[r] = unit

\* A variable that is not there is unit in both tiers (it is not:
\* jitEnvironmentGet() answers Value::crash(), and jitted code keeps it).
UnknownIsUnit == arrived /\ apart => Different = {}

\* The System V ABI: the stack is aligned whenever the runtime is called,
\* and the caller finds its stack and registers again as they were, also
\* when the code went on with a variable that is not there.
CallerIsRestored ==
    /\ outcome = "running" /\ NextInstruction.op = "call" => cpu.regs[regSP] % 16 = 0
    /\ outcome = "returned" =>
          /\ cpu.rip = ReturnAddress
          /\ cpu.regs[regSP] = EntrySP + 8 /\ cpu.regs[regCFR] = CallerCFR
          /\ \A a \in DOMAIN cpu.mem : a > EntrySP => cpu.mem[a] = Poison

\* The code that runs has no instruction that only checks types, as the
\* assertion of the compiler has it (#e generates such code for an array).
NothingElseIsCompiled == outcome # "not compiled"

\* Code whose every label is emitted ends.
EveryCallEnds == <>(outcome # "running")
=============================================================================
