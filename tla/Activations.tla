---------------------------- MODULE Activations ----------------------------
(***************************************************************************)
(* What the stack of the virtual machine stands for: a stack of            *)
(* activations, each with arguments and locals of its own that no other    *)
(* activation can touch.  Interpreter.tla keeps them all in one vector     *)
(* that grows at its front and moves when it is reallocated, and is shown  *)
(* to implement this.                                                      *)
(***************************************************************************)
EXTENDS Naturals, Sequences

CONSTANTS Val, Crash, MaxLocals

VARIABLE activations    \* innermost last

Activation == [args : Seq(Val), locals : Seq(Val)]

ActivationsTypeOK == activations \in Seq(Activation)

\* The arguments are what consecutive locals of the caller hold.
Passed(first, argc) ==
    IF activations = <<>> THEN <<>>
    ELSE SubSeq(activations[Len(activations)].locals, first, first + argc - 1)

Invoke(args) ==
    activations' = Append(activations, [args |-> args, locals |-> <<>>])

\* A call passes registers of the caller, or nothing at all: the program
\* itself, a block under type checking, a hole.
InvokeNext ==
    \/ Invoke(<<>>)
    \/ /\ activations # <<>>
       /\ LET locals == activations[Len(activations)].locals IN
          \E first \in DOMAIN locals, argc \in 1..Len(locals) :
             /\ first + argc - 1 <= Len(locals)
             /\ Invoke(Passed(first, argc))

\* Enter makes room for the locals.
EnterNext ==
    /\ activations # <<>>
    /\ activations[Len(activations)].locals = <<>>
    /\ \E n \in 1..MaxLocals :
          activations' = [activations EXCEPT ![Len(activations)].locals =
                             [i \in 1..n |-> Crash]]

\* An instruction writes one local of the innermost activation.
WriteNext ==
    /\ activations # <<>>
    /\ \E k \in DOMAIN activations[Len(activations)].locals, v \in Val :
          activations' = [activations EXCEPT ![Len(activations)].locals[k] = v]

\* The innermost activation ends: its caller finds its own locals unchanged.
ReturnNext ==
    /\ activations # <<>>
    /\ activations' = SubSeq(activations, 1, Len(activations) - 1)

ActivationsNext == InvokeNext \/ EnterNext \/ WriteNext \/ ReturnNext

ActivationsSpec == activations = <<>> /\ [][ActivationsNext]_activations
=============================================================================
