---------------------------- MODULE MCAssembler ----------------------------
EXTENDS AssemblerInvariant
\* Jump and JumpIfFalse.
MCJumps == {[size |-> 2, target |-> 1], [size |-> 3, target |-> 2]}
=============================================================================
