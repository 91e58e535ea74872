-------------------------- MODULE TieringInvariant --------------------------
(***************************************************************************)
(* Why the two tiers agree on what they share: an inductive strengthening  *)
(* of the properties of Tiering, one named part per reason.  TLC checks it *)
(* on a small program, TieringProofs proves it for every program.          *)
(***************************************************************************)
EXTENDS Tiering

AllDeclared(b) == \A d \in ToSet(FunctionBlocks[b]) : functions[d].exists

\* b is the block of the innermost Interpreter object among the first n
\* activations, NoBlock when there is none.
IsInnermost(b, n) ==
    /\ (\A j \in 1..n : frames[j].mode = "jit") => b = NoBlock
    /\ \A i \in 1..n :
          frames[i].mode # "jit" /\ (\A j \in (i + 1)..n : frames[j].mode = "jit")
             => b = frames[i].block

\* Every Interpreter object keeps, in m_lastBlock, what was current before it.
BlocksNest ==
    /\ IsInnermost(currentBlock, Len(frames))
    /\ \A i \in DOMAIN frames :
          frames[i].mode # "jit" => IsInnermost(frames[i].lastBlock, i - 1)

\* main() checks the whole program before it runs it.
PhasesInOrder ==
    /\ phase \in {"start", "checked", "done"} => frames = <<>>
    /\ phase = "start" => \A b \in Block : ~functions[b].exists
    /\ phase \in {"checked", "run"} => AllDeclared(Main)

\* An activation has an environment of its block, and runs only once whatever
\* its block declares has been checked.
FramesAreScoped ==
    \A i \in DOMAIN frames :
       LET frame == frames[i] IN
       /\ frame.environment \in DOMAIN environments
       /\ environments[frame.environment].block = frame.block
       /\ frame.declared <= Len(FunctionBlocks[frame.block])
       /\ frame.mode # "check" => AllDeclared(frame.block)

Checks(i) == frames[i].mode = "check"

\* The checks in progress lead from the program to the declaration that is being
\* checked, each within the one that declares it; what they have passed exists,
\* what they have yet to reach does not, and no block is checked twice.
ChecksNest ==
    \A i \in DOMAIN frames : Checks(i) =>
       LET declarations == FunctionBlocks[frames[i].block] IN
       /\ ~functions[frames[i].block].exists
       /\ \A k \in DOMAIN declarations :
             functions[declarations[k]].exists <=> k <= frames[i].declared
       /\ i = 1 => frames[i].block = Main
       /\ i > 1 =>
             LET above == frames[i - 1] IN
             /\ Checks(i - 1)
             /\ above.declared < Len(FunctionBlocks[above.block])
             /\ frames[i].block = FunctionBlocks[above.block][above.declared + 1]
       /\ \A j \in DOMAIN frames :
             Checks(j) /\ frames[j].block = frames[i].block => i = j

\* Nothing in a block exists before the check of the block has begun, and all of
\* it does when that has ended.
DeclaredInside ==
    \A b \in Block :
       /\ functions[b].exists => AllDeclared(b)
       /\ ~functions[b].exists /\ b # Main
          /\ (\A i \in DOMAIN frames : Checks(i) => frames[i].block # b)
             => \A d \in ToSet(FunctionBlocks[b]) : ~functions[d].exists

\* What can be looked up exists, and its Function's environment is one of the
\* block that declares it.
BoundExists ==
    \A i \in DOMAIN environments : \A b \in environments[i].bound : functions[b].exists

ParentsDeclare ==
    \A b \in Block :
       functions[b].parent # 0 =>
          b \in ToSet(FunctionBlocks[environments[functions[b].parent].block])

\* Native code is used from the moment it is made, and made for what exists.
CodeIsUsed ==
    \A b \in Block : /\ functions[b].native <=> code[b] # <<>>
                     /\ ~functions[b].exists => code[b] = <<>>

TieringInv ==
    /\ TypeOK
    /\ BlocksNest
    /\ PhasesInOrder
    /\ FramesAreScoped
    /\ ChecksNest
    /\ DeclaredInside
    /\ BoundExists
    /\ ParentsDeclare
    /\ CodeIsUsed
    /\ CompiledAtThreshold
    /\ CodeHasItsFunctions
    /\ ScopesAreLexical
=============================================================================
