----------------------------- MODULE MCTiering -----------------------------
(* A program of a function f, which declares inner, and a function g.      *)
EXTENDS TieringInvariant

CONSTANTS main, hole, f, inner, g

MCFunctionBlocks ==
    [b \in Block |-> CASE b = main -> <<f, g>>
                       [] b = f -> <<inner>>
                       [] OTHER -> <<>>]
=============================================================================
