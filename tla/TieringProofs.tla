--------------------------- MODULE TieringProofs ---------------------------
(***************************************************************************)
(* The tiers agree on what they share, for every program: TieringInv is    *)
(* inductive.                                                              *)
(***************************************************************************)
EXTENDS TieringInvariant, NaturalFacts, TLAPS

-----------------------------------------------------------------------------
(* Lookup *)

\* The nearest environment that binds a name does bind it: walking up the chain
\* of parents ends, for a parent is always older.
LEMMA LookupBinds ==
    ASSUME TypeOK, NEW b \in Block, NEW e \in 0..Len(environments)
    PROVE  /\ Lookup(e, b) \in 0..Len(environments)
           /\ Lookup(e, b) # 0 => b \in environments[Lookup(e, b)].bound
<1> DEFINE N == Len(environments)
           Walk(g, x) == IF x = 0 \/ b \in environments[x].bound THEN x ELSE g[Parent(x)]
           Total == {n \in Nat : n <= N => \E g : g = [x \in 0..n |-> Walk(g, x)]}
<1>1. N \in Nat /\ \A x \in 1..N : Parent(x) \in 0..(x - 1)
  <2>1. /\ environments \in Seq([parent : Environment, block : Block,
                                 bound : SUBSET Block])
        /\ \A i \in DOMAIN environments : environments[i].parent \in 0..(i - 1)
    BY DEF TypeOK
  <2>2. N \in Nat /\ DOMAIN environments = 1..N
    BY <2>1
  <2> QED
    BY <2>1, <2>2 DEF Parent
<1>2. 0 \in Total
  <2> DEFINE g == [x \in 0..0 |-> 0]
  <2>1. g = [x \in 0..0 |-> Walk(g, x)]
    OBVIOUS
  <2> QED
    BY <2>1
<1>3. ASSUME NEW n \in Total PROVE n + 1 \in Total
  <2> SUFFICES ASSUME n + 1 <= N
               PROVE  \E g : g = [x \in 0..(n + 1) |-> Walk(g, x)]
    OBVIOUS
  <2>0. n \in Nat /\ n <= N
    BY <1>1
  <2>1. PICK g : g = [x \in 0..n |-> Walk(g, x)]
    BY <2>0
  <2> HIDE DEF Total, N
  <2> DEFINE h == [x \in 0..(n + 1) |-> Walk(g, x)]
  <2>2. \A x \in 0..n : h[x] = g[x]
    <3>1. \A x \in 0..n : x \in 0..(n + 1) /\ g[x] = Walk(g, x)
      BY <2>0, <2>1
    <3> QED
      BY <3>1
  <2> HIDE DEF h
  <2>3. ASSUME NEW x \in 0..(n + 1) PROVE Walk(g, x) = Walk(h, x)
    <3>1. CASE x = 0
      BY <3>1
    <3>2. CASE x # 0
      <4>1. Parent(x) \in 0..n
        BY <1>1, <2>0, <3>2
      <4> QED
        BY <2>2, <4>1
    <3> QED
      BY <3>1, <3>2
  <2>4. h = [x \in 0..(n + 1) |-> Walk(h, x)]
    BY <2>3 DEF h
  <2> QED
    BY <2>4
<1>4. \E g : g = [x \in 0..N |-> Walk(g, x)]
  <2>1. Total = Nat
    <3> HIDE DEF Total
    <3>1. Total \in SUBSET Nat
      BY DEF Total
    <3> QED
      BY <1>2, <1>3, <3>1, SetInduction
  <2> QED
    BY <1>1, <2>1
<1> HIDE DEF Total
<1>5. PICK at : at = [x \in 0..N |-> Walk(at, x)] /\ Lookup(e, b) = at[e]
  BY <1>4 DEF Lookup
<1>6. \A x \in 0..N : at[x] = Walk(at, x)
  BY <1>5
<1> DEFINE Binds(x) == at[x] \in 0..N /\ (at[x] # 0 => b \in environments[at[x]].bound)
           Bad == {x \in 0..N : ~ Binds(x)}
<1>7. Bad = {}
  <2> SUFFICES ASSUME Bad # {} PROVE FALSE
    OBVIOUS
  <2>1. Bad \in SUBSET Nat
    BY <1>1
  <2>2. PICK x \in Bad : \A y \in Bad : x <= y
    BY <2>1, LeastNatural
  <2>3. x \in 0..N /\ at[x] = Walk(at, x) /\ ~ Binds(x)
    BY <1>6, <2>2
  <2>4. x # 0 /\ b \notin environments[x].bound /\ at[x] = at[Parent(x)]
    BY <1>1, <2>3
  <2>5. Parent(x) \in 0..N /\ Parent(x) < x
    BY <1>1, <2>3, <2>4
  <2>6. Parent(x) \notin Bad
    BY <1>1, <2>2, <2>3, <2>5
  <2>7. Binds(Parent(x))
    BY <2>5, <2>6
  <2> QED
    BY <2>3, <2>4, <2>7
<1>8. Binds(e)
  BY <1>7
<1> QED
  BY <1>5, <1>8

-----------------------------------------------------------------------------
(* The stack of activations and the environments *)

LEMMA Blocks ==
    ASSUME NEW b \in Block
    PROVE  /\ FunctionBlocks[b] \in Seq(Block)
           /\ Len(FunctionBlocks[b]) \in Nat
           /\ DOMAIN FunctionBlocks[b] = 1..Len(FunctionBlocks[b])
           /\ \A k \in 1..Len(FunctionBlocks[b]) :
                 /\ FunctionBlocks[b][k] \in Block \ {Main, Hole}
                 /\ FunctionBlocks[b][k] \in ToSet(FunctionBlocks[b])
           /\ \A d \in ToSet(FunctionBlocks[b]) :
                 \E k \in 1..Len(FunctionBlocks[b]) : d = FunctionBlocks[b][k]
           /\ ToSet(FunctionBlocks[b]) \subseteq Block \ {Main, Hole}
<1>1. FunctionBlocks[b] \in Seq(Block \ {Main, Hole})
  BY TieringAssumption
<1> QED
  BY <1>1 DEF ToSet

\* Every declaration has a block of its own.
LEMMA DeclaredOnce ==
    ASSUME NEW b \in Block, NEW c \in Block, NEW i \in 1..Len(FunctionBlocks[b]),
           NEW j \in 1..Len(FunctionBlocks[c]),
           FunctionBlocks[b][i] = FunctionBlocks[c][j]
    PROVE  b = c /\ i = j
<1>1. i \in DOMAIN FunctionBlocks[b] /\ j \in DOMAIN FunctionBlocks[c]
  BY Blocks
<1> QED
  BY <1>1, TieringAssumption

EnvironmentRecord == [parent : Environment, block : Block, bound : SUBSET Block]

LEMMA Stacks ==
    ASSUME TypeOK
    PROVE  /\ frames \in Seq(Frame) /\ Len(frames) \in Nat
           /\ DOMAIN frames = 1..Len(frames)
           /\ \A i \in 1..Len(frames) : frames[i] \in Frame
           /\ environments \in Seq(EnvironmentRecord) /\ Len(environments) \in Nat
           /\ DOMAIN environments = 1..Len(environments)
           /\ \A i \in 1..Len(environments) :
                 /\ environments[i] \in EnvironmentRecord
                 /\ environments[i].parent \in 0..(i - 1)
                 /\ environments[i].bound
                       \subseteq ToSet(FunctionBlocks[environments[i].block])
           /\ \A b \in Block : /\ functions[b].parent \in 0..Len(environments)
                               /\ functions[b].native \in BOOLEAN
                               /\ functions[b].exists \in BOOLEAN
<1>1. frames \in Seq(Frame) /\ environments \in Seq(EnvironmentRecord)
  BY DEF TypeOK, EnvironmentRecord
<1>2. /\ Len(frames) \in Nat /\ DOMAIN frames = 1..Len(frames)
      /\ \A i \in 1..Len(frames) : frames[i] \in Frame
  BY <1>1
<1>3. /\ Len(environments) \in Nat /\ DOMAIN environments = 1..Len(environments)
      /\ \A i \in 1..Len(environments) : environments[i] \in EnvironmentRecord
  BY <1>1
<1>4. \A i \in 1..Len(environments) :
         /\ environments[i].parent \in 0..(i - 1)
         /\ environments[i].bound \subseteq ToSet(FunctionBlocks[environments[i].block])
  BY <1>3 DEF TypeOK
<1>5. \A b \in Block : /\ functions[b].parent \in 0..Len(environments)
                       /\ functions[b].native \in BOOLEAN
                       /\ functions[b].exists \in BOOLEAN
  <2>1. functions \in [Block -> [parent : 0..Len(environments), native : BOOLEAN,
                                 exists : BOOLEAN]]
    BY DEF TypeOK
  <2> QED
    BY <2>1
<1> QED
  BY <1>1, <1>2, <1>3, <1>4, <1>5

\* The innermost activation, and those below it.
LEMMA TopFrame ==
    ASSUME TypeOK, frames # <<>>
    PROVE  /\ Len(frames) \in 1..Len(frames) /\ Top = frames[Len(frames)]
           /\ Top \in Frame
           /\ Below \in Seq(Frame) /\ Len(Below) = Len(frames) - 1
           /\ DOMAIN Below = 1..(Len(frames) - 1)
           /\ \A i \in 1..(Len(frames) - 1) : Below[i] = frames[i]
           /\ Below = <<>> <=> Len(frames) = 1
           /\ Below # <<>> => Last(Below) = frames[Len(frames) - 1]
<1>1. frames \in Seq(Frame) /\ Len(frames) \in Nat /\ Len(frames) # 0
  BY Stacks
<1>2. Below = SubSeq(frames, 1, Len(frames) - 1)
  BY DEF Below, Front
<1>3. /\ Below \in Seq(Frame) /\ Len(Below) = Len(frames) - 1
      /\ \A i \in 1..(Len(frames) - 1) : Below[i] = frames[i]
  <2> DEFINE n == Len(frames) - 1
  <2>1. n \in 0..Len(frames)
    BY <1>1
  <2>2. Below = SubSeq(frames, 1, n)
    BY <1>2
  <2> HIDE DEF n
  <2>3. /\ Below \in Seq(Frame) /\ Len(Below) = n
        /\ \A i \in 1..n : Below[i] = frames[i]
    BY <1>1, <2>1, <2>2, PrefixOfSequence
  <2> QED
    BY <2>3 DEF n
<1>4. DOMAIN Below = 1..(Len(frames) - 1) /\ (Below = <<>> <=> Len(frames) = 1)
  BY <1>1, <1>3
<1> QED
  BY <1>1, <1>3, <1>4 DEF Top, Last

\* What an activation does to the stack and to the environments.
LEMMA ActivateEffect ==
    ASSUME TypeOK, NEW b \in Block, NEW m \in {"check", "run", "jit"},
           NEW p \in 0..Len(environments), NEW e \in Nat, Activate(b, m, p, e)
    PROVE  /\ frames' \in Seq(Frame) /\ Len(frames') = Len(frames) + 1
           /\ Len(frames') <= MaxFrames
           /\ DOMAIN frames' = 1..(Len(frames) + 1)
           /\ \A i \in 1..Len(frames) : frames'[i] = frames[i]
           /\ frames'[Len(frames) + 1] =
                 [block |-> b, mode |-> m, environment |-> Len(environments) + 1,
                  found |-> e, declared |-> 0, lastBlock |-> currentBlock]
           /\ environments' \in Seq(EnvironmentRecord)
           /\ Len(environments') = Len(environments) + 1
           /\ DOMAIN environments' = 1..(Len(environments) + 1)
           /\ \A i \in 1..Len(environments) : environments'[i] = environments[i]
           /\ environments'[Len(environments) + 1] =
                 [parent |-> p, block |-> b, bound |-> {}]
           /\ currentBlock' = IF m = "jit" THEN currentBlock ELSE b
<1> DEFINE f == [block |-> b, mode |-> m, environment |-> Len(environments) + 1,
                 found |-> e, declared |-> 0, lastBlock |-> currentBlock]
           v == [parent |-> p, block |-> b, bound |-> {}]
<1>1. /\ frames \in Seq(Frame) /\ Len(frames) \in Nat
      /\ environments \in Seq(EnvironmentRecord) /\ Len(environments) \in Nat
  BY Stacks
<1>2. f \in Frame /\ v \in EnvironmentRecord
  BY <1>1 DEF Frame, Environment, EnvironmentRecord, TypeOK
<1>3. /\ frames' = Append(frames, f) /\ environments' = Append(environments, v)
      /\ Len(frames) < MaxFrames /\ MaxFrames \in Nat
      /\ currentBlock' = IF m = "jit" THEN currentBlock ELSE b
  BY TieringAssumption DEF Activate
<1> HIDE DEF f, v
<1>4. /\ frames' \in Seq(Frame) /\ Len(frames') = Len(frames) + 1
      /\ DOMAIN frames' = 1..(Len(frames) + 1)
      /\ \A i \in 1..Len(frames) : frames'[i] = frames[i]
      /\ frames'[Len(frames) + 1] = f
  BY <1>1, <1>2, <1>3
<1>5. /\ environments' \in Seq(EnvironmentRecord)
      /\ Len(environments') = Len(environments) + 1
      /\ DOMAIN environments' = 1..(Len(environments) + 1)
      /\ \A i \in 1..Len(environments) : environments'[i] = environments[i]
      /\ environments'[Len(environments) + 1] = v
  BY <1>1, <1>2, <1>3
<1>6. Len(frames') <= MaxFrames
  BY <1>1, <1>3, <1>4
<1> QED
  BY <1>3, <1>4, <1>5, <1>6 DEF f, v

-----------------------------------------------------------------------------
(* A step that pushes an activation *)

\* All of a Function but whether it is native.
SameFunctions ==
    \A c \in Block : /\ functions'[c].parent = functions[c].parent
                     /\ functions'[c].exists = functions[c].exists

LEMMA SameDeclared ==
    ASSUME NEW b \in Block, SameFunctions
    PROVE  AllDeclared(b)' <=> AllDeclared(b)
  BY Blocks DEF SameFunctions, AllDeclared

\* IsInnermost speaks of the first n activations only.
LEMMA InnermostFrame ==
    ASSUME NEW c, NEW n \in Nat, IsInnermost(c, n),
           \A i \in 1..n : /\ frames'[i].mode = frames[i].mode
                          /\ frames'[i].block = frames[i].block
    PROVE  IsInnermost(c, n)'
<1>1. \A i \in 1..n : \A j \in (i + 1)..n : j \in 1..n
  OBVIOUS
<1> QED
  BY <1>1 DEF IsInnermost

LEMMA InnermostNext ==
    ASSUME NEW c, NEW n \in Nat,
           IF frames'[n + 1].mode = "jit" THEN IsInnermost(c, n)'
                                          ELSE c = frames'[n + 1].block
    PROVE  IsInnermost(c, n + 1)'
<1>1. CASE frames'[n + 1].mode = "jit"
  <2>1. \A i \in 1..(n + 1) : i # n + 1 => i \in 1..n
    OBVIOUS
  <2>2. \A i \in 1..n : \A j \in (i + 1)..n : j \in (i + 1)..(n + 1)
    OBVIOUS
  <2>3. \A j \in 1..n : j \in 1..(n + 1)
    OBVIOUS
  <2> QED
    BY <1>1, <2>1, <2>2, <2>3 DEF IsInnermost
<1>2. CASE frames'[n + 1].mode # "jit"
  <2>1. n + 1 \in 1..(n + 1)
    OBVIOUS
  <2>2. \A i \in 1..(n + 1) : i # n + 1 => n + 1 \in (i + 1)..(n + 1)
    OBVIOUS
  <2> QED
    BY <1>2, <2>1, <2>2 DEF IsInnermost
<1> QED
  BY <1>1, <1>2

LEMMA InnermostBefore ==
    ASSUME NEW c, NEW n \in Nat, IsInnermost(c, n + 1), frames[n + 1].mode = "jit"
    PROVE  IsInnermost(c, n)
<1>1. \A j \in 1..(n + 1) : j \in 1..n \/ j = n + 1
  OBVIOUS
<1>2. \A i \in 1..n : i \in 1..(n + 1)
                      /\ \A j \in (i + 1)..(n + 1) : j \in (i + 1)..n \/ j = n + 1
  OBVIOUS
<1> QED
  BY <1>1, <1>2 DEF IsInnermost

LEMMA ActivationBlocks ==
    ASSUME TypeOK, BlocksNest, NEW b \in Block, NEW m \in {"check", "run", "jit"},
           NEW p \in 0..Len(environments), NEW e \in Nat, Activate(b, m, p, e)
    PROVE  BlocksNest'
<1>0. PICK n \in Nat : n = Len(frames)
  BY Stacks
<1>1. PICK c : c = currentBlock
  OBVIOUS
<1>2. /\ Len(frames') = n + 1
      /\ DOMAIN frames = 1..n /\ DOMAIN frames' = 1..(n + 1)
      /\ \A i \in 1..n : frames'[i] = frames[i]
      /\ frames'[n + 1].mode = m /\ frames'[n + 1].block = b
      /\ frames'[n + 1].lastBlock = c
      /\ currentBlock' = IF m = "jit" THEN c ELSE b
  <2>1. /\ Len(frames') = Len(frames) + 1 /\ DOMAIN frames' = 1..(Len(frames) + 1)
        /\ \A i \in 1..Len(frames) : frames'[i] = frames[i]
        /\ frames'[Len(frames) + 1] =
              [block |-> b, mode |-> m, environment |-> Len(environments) + 1,
               found |-> e, declared |-> 0, lastBlock |-> currentBlock]
        /\ currentBlock' = IF m = "jit" THEN currentBlock ELSE b
    BY ActivateEffect
  <2>2. DOMAIN frames = 1..Len(frames)
    BY Stacks
  <2> QED
    BY <1>0, <1>1, <2>1, <2>2
<1>3. IsInnermost(c, n) /\ IsInnermost(c, n)'
  BY <1>0, <1>1, <1>2, InnermostFrame DEF BlocksNest
<1>4. ASSUME NEW d, d = currentBlock' PROVE IsInnermost(d, n + 1)'
  BY <1>2, <1>3, <1>4, InnermostNext
<1>5. ASSUME NEW i \in 1..(n + 1), frames'[i].mode # "jit", NEW d, d = frames'[i].lastBlock
      PROVE  IsInnermost(d, i - 1)'
  <2>1. CASE i = n + 1
    BY <1>2, <1>3, <1>5, <2>1
  <2>2. CASE i # n + 1
    <3>1. i \in 1..n /\ i - 1 \in Nat /\ \A j \in 1..(i - 1) : j \in 1..n
      BY <2>2
    <3>2. frames[i].mode # "jit" /\ frames[i].lastBlock = d
      BY <1>2, <1>5, <3>1
    <3>3. IsInnermost(d, i - 1)
      BY <1>2, <3>1, <3>2 DEF BlocksNest
    <3> QED
      BY <1>2, <3>1, <3>3, InnermostFrame
  <2> QED
    BY <2>1, <2>2
<1> QED
  BY <1>2, <1>4, <1>5 DEF BlocksNest, IsInnermost

LEMMA ActivationScopes ==
    ASSUME TypeOK, FramesAreScoped, BoundExists, ParentsDeclare, ScopesAreLexical,
           NEW b \in Block, NEW m \in {"check", "run", "jit"},
           NEW p \in 0..Len(environments), NEW e \in Nat, Activate(b, m, p, e),
           SameFunctions, m # "check" => AllDeclared(b),
           p # 0 /\ b # Hole => b \in ToSet(FunctionBlocks[environments[p].block])
    PROVE  FramesAreScoped' /\ BoundExists' /\ ParentsDeclare' /\ ScopesAreLexical'
<1>1. PICK n \in Nat, N \in Nat : n = Len(frames) /\ N = Len(environments)
  BY Stacks
<1>2. /\ DOMAIN frames = 1..n /\ DOMAIN frames' = 1..(n + 1)
      /\ \A i \in 1..n : frames'[i] = frames[i]
      /\ frames'[n + 1] = [block |-> b, mode |-> m, environment |-> N + 1,
                           found |-> e, declared |-> 0, lastBlock |-> currentBlock]
      /\ DOMAIN environments = 1..N /\ DOMAIN environments' = 1..(N + 1)
      /\ \A i \in 1..N : environments'[i] = environments[i]
      /\ environments'[N + 1] = [parent |-> p, block |-> b, bound |-> {}]
  <2>1. /\ DOMAIN frames' = 1..(Len(frames) + 1)
        /\ \A i \in 1..Len(frames) : frames'[i] = frames[i]
        /\ frames'[Len(frames) + 1] =
              [block |-> b, mode |-> m, environment |-> Len(environments) + 1,
               found |-> e, declared |-> 0, lastBlock |-> currentBlock]
        /\ DOMAIN environments' = 1..(Len(environments) + 1)
        /\ \A i \in 1..Len(environments) : environments'[i] = environments[i]
        /\ environments'[Len(environments) + 1] =
              [parent |-> p, block |-> b, bound |-> {}]
    BY ActivateEffect
  <2>2. DOMAIN frames = 1..Len(frames) /\ DOMAIN environments = 1..Len(environments)
    BY Stacks
  <2> QED
    BY <1>1, <2>1, <2>2
<1>3. \A i \in 1..(n + 1) : i \in 1..n \/ i = n + 1
  OBVIOUS
<1>4. \A i \in 1..(N + 1) : i \in 1..N \/ i = N + 1
  OBVIOUS
<1>5. /\ \A i \in 1..n : frames[i].block \in Block
      /\ \A i \in 1..N : /\ environments[i].block \in Block
                         /\ environments[i].parent \in 0..(i - 1)
                         /\ environments[i].bound \subseteq Block
      /\ \A c \in Block : functions[c].parent \in 0..N
  BY <1>1, Stacks DEF Frame, EnvironmentRecord
<1>6. ASSUME NEW i \in 1..(n + 1)
      PROVE  /\ frames'[i].environment \in 1..(N + 1)
             /\ environments'[frames'[i].environment].block = frames'[i].block
             /\ frames'[i].declared <= Len(FunctionBlocks[frames'[i].block])
             /\ frames'[i].mode # "check" =>
                   \A d \in ToSet(FunctionBlocks[frames'[i].block]) : functions'[d].exists
  <2>1. CASE i \in 1..n
    <3>1. /\ frames[i].environment \in 1..N
          /\ environments[frames[i].environment].block = frames[i].block
          /\ frames[i].declared <= Len(FunctionBlocks[frames[i].block])
          /\ frames[i].mode # "check" => AllDeclared(frames[i].block)
      BY <1>2, <2>1 DEF FramesAreScoped
    <3>2. AllDeclared(frames[i].block) => \A d \in ToSet(FunctionBlocks[frames[i].block]) :
                                             functions'[d].exists
      BY <1>5, <2>1, Blocks DEF AllDeclared, SameFunctions
    <3>3. frames'[i] = frames[i]
      BY <1>2, <2>1
    <3> QED
      BY <1>2, <1>4, <3>1, <3>2, <3>3 DEF AllDeclared
  <2>2. CASE i = n + 1
    <3>1. m # "check" => \A d \in ToSet(FunctionBlocks[b]) : functions'[d].exists
      BY Blocks DEF AllDeclared, SameFunctions
    <3>2. N + 1 \in 1..(N + 1) /\ 0 <= Len(FunctionBlocks[b])
      BY Blocks
    <3> QED
      BY <1>2, <2>2, <3>1, <3>2 DEF AllDeclared
  <2> QED
    BY <1>3, <2>1, <2>2
<1>7. FramesAreScoped'
  BY <1>2, <1>6 DEF FramesAreScoped, AllDeclared
<1>8. BoundExists'
  <2>1. ASSUME NEW i \in 1..(N + 1), NEW c \in environments'[i].bound
        PROVE  functions'[c].exists
    <3>1. i \in 1..N /\ c \in environments[i].bound
      BY <1>2, <1>4, <2>1
    <3>2. c \in Block /\ functions[c].exists
      BY <1>2, <1>5, <3>1 DEF BoundExists
    <3> QED
      BY <3>2 DEF SameFunctions
  <2> QED
    BY <1>2, <2>1 DEF BoundExists
<1>9. ParentsDeclare'
  <2>1. ASSUME NEW c \in Block, functions'[c].parent # 0
        PROVE  c \in ToSet(FunctionBlocks[environments'[functions'[c].parent].block])
    <3>1. functions'[c].parent = functions[c].parent /\ functions[c].parent \in 1..N
      BY <1>5, <2>1 DEF SameFunctions
    <3> QED
      BY <1>2, <3>1 DEF ParentsDeclare
  <2> QED
    BY <2>1 DEF ParentsDeclare
<1>10. ScopesAreLexical'
  <2>1. ASSUME NEW i \in 1..(N + 1), environments'[i].parent # 0,
               environments'[i].block # Hole
        PROVE  environments'[i].block \in
                  ToSet(FunctionBlocks[environments'[environments'[i].parent].block])
    <3>1. CASE i \in 1..N
      <4>1. environments[i].parent \in 1..N /\ environments'[i] = environments[i]
        BY <1>2, <1>5, <2>1, <3>1
      <4> QED
        BY <1>2, <2>1, <3>1, <4>1 DEF ScopesAreLexical
    <3>2. CASE i = N + 1
      <4>1. p \in 1..N /\ environments'[i].parent = p /\ environments'[i].block = b
        BY <1>1, <1>2, <2>1, <3>2
      <4> QED
        BY <1>2, <2>1, <4>1
    <3> QED
      BY <1>4, <3>1, <3>2
  <2> QED
    BY <1>2, <2>1 DEF ScopesAreLexical
<1> QED
  BY <1>7, <1>8, <1>9, <1>10

\* An activation that checks nothing leaves the checks in progress alone.
LEMMA ActivationChecks ==
    ASSUME TypeOK, ChecksNest, DeclaredInside,
           NEW b \in Block, NEW m \in {"check", "run", "jit"},
           NEW p \in 0..Len(environments), NEW e \in Nat, Activate(b, m, p, e),
           SameFunctions,
           m = "check" =>
              /\ ~functions[b].exists
              /\ \A d \in ToSet(FunctionBlocks[b]) : ~functions[d].exists
              /\ \A i \in DOMAIN frames : Checks(i) => frames[i].block # b
              /\ IF frames = <<>> THEN b = Main
                 ELSE Top.mode = "check" /\ Declares /\ b = Declaration
    PROVE  ChecksNest' /\ DeclaredInside'
<1>1. PICK n \in Nat : n = Len(frames)
  BY Stacks
<1>2. /\ DOMAIN frames = 1..n /\ DOMAIN frames' = 1..(n + 1)
      /\ \A i \in 1..n : frames'[i] = frames[i]
      /\ frames'[n + 1].block = b /\ frames'[n + 1].mode = m
      /\ frames'[n + 1].declared = 0
  <2>1. /\ DOMAIN frames' = 1..(Len(frames) + 1)
        /\ \A i \in 1..Len(frames) : frames'[i] = frames[i]
        /\ frames'[Len(frames) + 1] =
              [block |-> b, mode |-> m, environment |-> Len(environments) + 1,
               found |-> e, declared |-> 0, lastBlock |-> currentBlock]
    BY ActivateEffect
  <2>2. DOMAIN frames = 1..Len(frames)
    BY Stacks
  <2> QED
    BY <1>1, <2>1, <2>2
<1>3. \A i \in 1..(n + 1) : i \in 1..n \/ i = n + 1
  OBVIOUS
<1>4. \A i \in 1..n : frames[i].block \in Block
  BY <1>1, Stacks DEF Frame
<1>5. \A c \in Block : \A d \in ToSet(FunctionBlocks[c]) :
         functions'[d].exists = functions[d].exists
  BY Blocks DEF SameFunctions
<1>6. DeclaredInside'
  <2>1. ASSUME NEW c \in Block PROVE functions'[c].exists => AllDeclared(c)'
    BY <1>5 DEF SameFunctions, DeclaredInside, AllDeclared
  <2>2. ASSUME NEW c \in Block, ~functions'[c].exists, c # Main,
               \A i \in 1..(n + 1) : frames'[i].mode = "check" => frames'[i].block # c,
               NEW d \in ToSet(FunctionBlocks[c])
        PROVE  ~functions'[d].exists
    <3>1. \A i \in 1..n : frames[i].mode = "check" => frames[i].block # c
      BY <1>2, <2>2
    <3>2. ~functions[c].exists
      BY <2>2 DEF SameFunctions
    <3>3. ~functions[d].exists
      BY <1>2, <2>2, <3>1, <3>2 DEF DeclaredInside, Checks
    <3> QED
      BY <1>5, <2>2, <3>3
  <2> QED
    BY <1>2, <2>1, <2>2 DEF DeclaredInside, Checks
<1>7. ASSUME NEW i \in 1..(n + 1), frames'[i].mode = "check"
      PROVE  /\ ~functions'[frames'[i].block].exists
             /\ \A k \in DOMAIN FunctionBlocks[frames'[i].block] :
                   functions'[FunctionBlocks[frames'[i].block][k]].exists
                      <=> k <= frames'[i].declared
             /\ i = 1 => frames'[i].block = Main
             /\ i > 1 =>
                   /\ frames'[i - 1].mode = "check"
                   /\ frames'[i - 1].declared < Len(FunctionBlocks[frames'[i - 1].block])
                   /\ frames'[i].block =
                         FunctionBlocks[frames'[i - 1].block][frames'[i - 1].declared + 1]
             /\ \A j \in 1..(n + 1) :
                   frames'[j].mode = "check" /\ frames'[j].block = frames'[i].block
                      => i = j
  <2>1. CASE i \in 1..n
    <3>1. frames'[i] = frames[i] /\ Checks(i) /\ (i > 1 => frames'[i - 1] = frames[i - 1])
      <4>1. i > 1 => i - 1 \in 1..n
        BY <2>1
      <4> QED
        BY <1>2, <1>7, <2>1, <4>1 DEF Checks
    <3>2. /\ ~functions[frames[i].block].exists
          /\ \A k \in DOMAIN FunctionBlocks[frames[i].block] :
                functions[FunctionBlocks[frames[i].block][k]].exists
                   <=> k <= frames[i].declared
          /\ i = 1 => frames[i].block = Main
          /\ i > 1 =>
                /\ Checks(i - 1)
                /\ frames[i - 1].declared < Len(FunctionBlocks[frames[i - 1].block])
                /\ frames[i].block =
                      FunctionBlocks[frames[i - 1].block][frames[i - 1].declared + 1]
          /\ \A j \in 1..n : Checks(j) /\ frames[j].block = frames[i].block => i = j
      BY <1>2, <2>1, <3>1 DEF ChecksNest
    <3>3. /\ ~functions'[frames[i].block].exists
          /\ \A k \in DOMAIN FunctionBlocks[frames[i].block] :
                functions'[FunctionBlocks[frames[i].block][k]].exists
                   <=> k <= frames[i].declared
      <4>1. PICK c \in Block : c = frames[i].block
        BY <1>4, <2>1
      <4>2. functions'[c].exists = functions[c].exists
        BY DEF SameFunctions
      <4>3. \A k \in DOMAIN FunctionBlocks[c] :
               functions'[FunctionBlocks[c][k]].exists = functions[FunctionBlocks[c][k]].exists
        BY <1>5, Blocks
      <4> QED
        BY <3>2, <4>1, <4>2, <4>3
    <3>4. ASSUME NEW j \in 1..(n + 1), frames'[j].mode = "check",
                 frames'[j].block = frames[i].block
          PROVE  i = j
      <4>1. CASE j \in 1..n
        BY <1>2, <3>2, <3>4, <4>1 DEF Checks
      <4>2. CASE j = n + 1
        <5>1. m = "check" /\ b = frames[i].block
          BY <1>2, <3>4, <4>2
        <5> QED
          BY <1>2, <2>1, <3>1, <5>1
      <4> QED
        BY <1>3, <4>1, <4>2
    <3> QED
      BY <3>1, <3>2, <3>3, <3>4 DEF Checks
  <2>2. CASE i = n + 1
    <3>1. /\ frames'[i].block = b /\ m = "check" /\ frames'[i].declared = 0
      BY <1>2, <1>7, <2>2
    <3>2. ~functions'[b].exists
      BY <3>1 DEF SameFunctions
    <3>3. \A k \in DOMAIN FunctionBlocks[b] :
             ~functions'[FunctionBlocks[b][k]].exists /\ ~ (k <= 0)
      BY <1>5, <3>1, Blocks
    <3>4. i = 1 => b = Main
      BY <1>1, <2>2, <3>1, Stacks
    <3>5. i > 1 => /\ frames'[i - 1].mode = "check"
                   /\ frames'[i - 1].declared < Len(FunctionBlocks[frames'[i - 1].block])
                   /\ b = FunctionBlocks[frames'[i - 1].block][frames'[i - 1].declared + 1]
      <4> SUFFICES ASSUME i > 1
                   PROVE  /\ frames'[i - 1].mode = "check"
                          /\ frames'[i - 1].declared < Len(FunctionBlocks[frames'[i - 1].block])
                          /\ b = FunctionBlocks[frames'[i - 1].block][frames'[i - 1].declared + 1]
        OBVIOUS
      <4>1. n \in 1..n /\ i - 1 = n /\ frames # <<>>
        BY <1>1, <2>2
      <4>2. frames'[i - 1] = Top
        BY <1>1, <1>2, <4>1, TopFrame
      <4> QED
        BY <3>1, <4>1, <4>2 DEF Declares, Declaration
    <3>6. ASSUME NEW j \in 1..(n + 1), frames'[j].mode = "check", frames'[j].block = b
          PROVE  i = j
      <4>1. CASE j \in 1..n
        BY <1>2, <3>1, <3>6, <4>1 DEF Checks
      <4> QED
        BY <1>3, <2>2, <4>1
    <3> QED
      BY <3>1, <3>2, <3>3, <3>4, <3>5, <3>6
  <2> QED
    BY <1>3, <2>1, <2>2
<1>8. ChecksNest'
  BY <1>2, <1>7 DEF ChecksNest, Checks
<1> QED
  BY <1>6, <1>8

-----------------------------------------------------------------------------
(* Types and code *)

StacksTyped ==
    /\ frames \in Seq(Frame) /\ Len(frames) <= MaxFrames
    /\ environments \in Seq(EnvironmentRecord)
    /\ \A i \in DOMAIN environments :
          /\ environments[i].parent \in 0..(i - 1)
          /\ environments[i].bound \subseteq ToSet(FunctionBlocks[environments[i].block])

FunctionsTyped ==
    functions \in [Block -> [parent : 0..Len(environments),
                             native : BOOLEAN, exists : BOOLEAN]]

LEMMA TypesSplit ==
    TypeOK <=> /\ StacksTyped
               /\ FunctionsTyped
               /\ hits \in [Block -> 0..(Threshold + 1)]
               /\ code \in [Block -> Seq(SUBSET Block)]
               /\ currentBlock \in Block \union {NoBlock}
               /\ phase \in {"start", "check", "checked", "run", "done", "failed"}
               /\ report \in [in : Block \union {NoBlock}, shown : Block \union {NoBlock}]
  BY DEF TypeOK, StacksTyped, FunctionsTyped, EnvironmentRecord

LEMMA ActivationTypes ==
    ASSUME TypeOK, NEW b \in Block, NEW m \in {"check", "run", "jit"},
           NEW p \in 0..Len(environments), NEW e \in Nat, Activate(b, m, p, e)
    PROVE  StacksTyped' /\ currentBlock' \in Block \union {NoBlock}
<1>1. PICK N \in Nat : N = Len(environments)
  BY Stacks
<1>2. /\ frames' \in Seq(Frame) /\ Len(frames') <= MaxFrames
      /\ environments' \in Seq(EnvironmentRecord)
      /\ DOMAIN environments' = 1..(N + 1)
      /\ \A i \in 1..N : environments'[i] = environments[i]
      /\ environments'[N + 1] = [parent |-> p, block |-> b, bound |-> {}]
      /\ currentBlock' = IF m = "jit" THEN currentBlock ELSE b
  <2>1. /\ frames' \in Seq(Frame) /\ Len(frames') <= MaxFrames
        /\ environments' \in Seq(EnvironmentRecord)
        /\ DOMAIN environments' = 1..(Len(environments) + 1)
        /\ \A i \in 1..Len(environments) : environments'[i] = environments[i]
        /\ environments'[Len(environments) + 1] =
              [parent |-> p, block |-> b, bound |-> {}]
        /\ currentBlock' = IF m = "jit" THEN currentBlock ELSE b
    BY ActivateEffect
  <2> QED
    BY <1>1, <2>1
<1>3. ASSUME NEW i \in 1..(N + 1)
      PROVE  /\ environments'[i].parent \in 0..(i - 1)
             /\ environments'[i].bound
                   \subseteq ToSet(FunctionBlocks[environments'[i].block])
  <2>1. CASE i \in 1..N
    BY <1>1, <1>2, <2>1, Stacks
  <2>2. CASE i = N + 1
    BY <1>1, <1>2, <2>2
  <2> QED
    BY <2>1, <2>2
<1>4. currentBlock' \in Block \union {NoBlock}
  BY <1>2 DEF TypeOK
<1> QED
  BY <1>2, <1>3, <1>4 DEF StacksTyped

\* No parent of a Function is lost: environments are never removed.
LEMMA FunctionsKeepTypes ==
    ASSUME FunctionsTyped, Len(environments) \in Nat, Len(environments') \in Nat,
           Len(environments) <= Len(environments'), functions' = functions
    PROVE  FunctionsTyped'
<1>1. \A c \in Block : functions[c] \in [parent : 0..Len(environments'),
                                         native : BOOLEAN, exists : BOOLEAN]
  BY DEF FunctionsTyped
<1> QED
  BY <1>1 DEF FunctionsTyped

FunctionRecord(n) == [parent : 0..n, native : BOOLEAN, exists : BOOLEAN]

LEMMA FunctionRecordGrows ==
    ASSUME NEW n \in Nat, NEW k \in Nat, n <= k, NEW f \in [Block -> FunctionRecord(n)]
    PROVE  f \in [Block -> FunctionRecord(k)]
  BY DEF FunctionRecord

CodeParts == CodeIsUsed /\ CompiledAtThreshold /\ CodeHasItsFunctions

LEMMA SameCode ==
    ASSUME CodeParts, code' = code, hits' = hits,
           \A c \in Block : /\ functions'[c].native = functions[c].native
                            /\ functions[c].exists => functions'[c].exists
    PROVE  CodeParts'
<1>1. CodeIsUsed'
  BY DEF CodeParts, CodeIsUsed
<1>2. CompiledAtThreshold'
  BY DEF CodeParts, CompiledAtThreshold
<1>3. CodeHasItsFunctions'
  BY DEF CodeParts, CodeHasItsFunctions
<1> QED
  BY <1>1, <1>2, <1>3 DEF CodeParts

-----------------------------------------------------------------------------
(* Activations: what each needs, and what it leaves *)

\* The invariant but for its types, the order of the phases and the code.
StackParts ==
    /\ BlocksNest /\ FramesAreScoped /\ ChecksNest /\ DeclaredInside
    /\ BoundExists /\ ParentsDeclare /\ ScopesAreLexical

\* What must hold of a block whose check begins.
Unchecked(b) ==
    /\ ~functions[b].exists
    /\ \A d \in ToSet(FunctionBlocks[b]) : ~functions[d].exists
    /\ \A i \in DOMAIN frames : Checks(i) => frames[i].block # b
    /\ IF frames = <<>> THEN b = Main
       ELSE Top.mode = "check" /\ Declares /\ b = Declaration

LEMMA ActivationInv ==
    ASSUME TypeOK, StackParts, NEW b \in Block, NEW m \in {"check", "run", "jit"},
           NEW p \in 0..Len(environments), NEW e \in Nat, Activate(b, m, p, e),
           SameFunctions, IF m = "check" THEN Unchecked(b) ELSE AllDeclared(b),
           p # 0 /\ b # Hole => b \in ToSet(FunctionBlocks[environments[p].block])
    PROVE  StackParts'
<1>1. BlocksNest'
  BY ActivationBlocks DEF StackParts
<1>2. FramesAreScoped' /\ BoundExists' /\ ParentsDeclare' /\ ScopesAreLexical'
  BY ActivationScopes DEF StackParts
<1>3. ChecksNest' /\ DeclaredInside'
  <2>1. ChecksNest /\ DeclaredInside
    BY DEF StackParts
  <2> QED
    BY <2>1, ActivationChecks DEF Unchecked
<1> QED
  BY <1>1, <1>2, <1>3 DEF StackParts

LEMMA ActivationOnly ==
    ASSUME TypeOK, NEW b \in Block, NEW m \in {"check", "run", "jit"},
           NEW p \in 0..Len(environments), NEW e \in Nat, Activate(b, m, p, e),
           UNCHANGED <<functions, hits, code, report>>,
           phase' \in {"start", "check", "checked", "run", "done", "failed"}
    PROVE  TypeOK' /\ SameFunctions /\ (CodeParts => CodeParts')
<1>1. StacksTyped' /\ currentBlock' \in Block \union {NoBlock}
  BY ActivationTypes
<1>2. FunctionsTyped'
  <2>1. Len(environments) \in Nat /\ Len(environments') = Len(environments) + 1
    BY ActivateEffect, Stacks
  <2> QED
    BY <2>1, FunctionsKeepTypes, TypesSplit
<1>3. TypeOK'
  BY <1>1, <1>2, TypesSplit DEF TypeOK, StacksTyped, FunctionsTyped, EnvironmentRecord
<1>4. SameFunctions
  BY DEF SameFunctions
<1>5. CodeParts => CodeParts'
  BY SameCode
<1> QED
  BY <1>3, <1>4, <1>5

LEMMA InvSplit ==
    TieringInv <=> TypeOK /\ StackParts /\ PhasesInOrder /\ CodeParts
  BY DEF TieringInv, StackParts, CodeParts

\* While the program is checked or run, its phase says nothing of the stack.
LEMMA PhaseKept ==
    ASSUME TieringInv, phase \in {"check", "run"}, phase' = phase, SameFunctions
    PROVE  PhasesInOrder'
<1>1. AllDeclared(Main)' <=> AllDeclared(Main)
  BY SameDeclared, TieringAssumption
<1> QED
  BY <1>1 DEF TieringInv, PhasesInOrder

LEMMA StartCheckInv == ASSUME TieringInv, StartCheck PROVE TieringInv'
<1>1. /\ TypeOK /\ StackParts /\ CodeParts /\ frames = <<>> /\ Main \in Block
      /\ \A c \in Block : ~functions[c].exists
      /\ Activate(Main, "check", 0, 0) /\ phase' = "check"
      /\ UNCHANGED <<functions, hits, code, report>>
  BY InvSplit, TieringAssumption DEF StartCheck, PhasesInOrder
<1>2. 0 \in 0..Len(environments) /\ 0 \in Nat
  BY <1>1, Stacks
<1>3. TypeOK' /\ SameFunctions /\ CodeParts'
  BY <1>1, <1>2, ActivationOnly
<1>4. Unchecked(Main)
  BY <1>1, Blocks DEF Unchecked
<1>5. StackParts'
  BY <1>1, <1>2, <1>3, <1>4, ActivationInv
<1>6. PhasesInOrder'
  BY <1>1 DEF PhasesInOrder
<1> QED
  BY <1>3, <1>5, <1>6, InvSplit DEF TieringInv, StackParts, CodeParts

LEMMA StartRunInv == ASSUME TieringInv, StartRun PROVE TieringInv'
<1>1. /\ TypeOK /\ StackParts /\ CodeParts /\ Main \in Block /\ AllDeclared(Main)
      /\ Activate(Main, "run", 0, 0) /\ phase' = "run"
      /\ UNCHANGED <<functions, hits, code, report>>
  BY InvSplit, TieringAssumption DEF StartRun, PhasesInOrder
<1>2. 0 \in 0..Len(environments) /\ 0 \in Nat
  BY <1>1, Stacks
<1>3. TypeOK' /\ SameFunctions /\ CodeParts'
  BY <1>1, <1>2, ActivationOnly
<1>4. StackParts'
  BY <1>1, <1>2, <1>3, ActivationInv
<1>5. PhasesInOrder'
  BY <1>1, <1>3, SameDeclared DEF PhasesInOrder
<1> QED
  BY <1>3, <1>4, <1>5 DEF TieringInv, StackParts, CodeParts

\* The activation that is running or checking, and its environment.
LEMMA TopScoped ==
    ASSUME TieringInv, frames # <<>>
    PROVE  /\ Len(frames) \in 1..Len(frames) /\ Top = frames[Len(frames)]
           /\ Top \in Frame
           /\ Top.environment \in 1..Len(environments)
           /\ environments[Top.environment].block = Top.block
           /\ Top.declared \in 0..Len(FunctionBlocks[Top.block])
<1>1. TypeOK /\ FramesAreScoped
  BY DEF TieringInv
<1>2. Len(frames) \in 1..Len(frames) /\ Top = frames[Len(frames)] /\ Top \in Frame
  BY <1>1, TopFrame
<1>3. DOMAIN frames = 1..Len(frames) /\ DOMAIN environments = 1..Len(environments)
  BY <1>1, Stacks
<1>4. Top.declared \in Nat /\ Top.block \in Block
  BY <1>2 DEF Frame
<1>5. /\ Top.environment \in 1..Len(environments)
      /\ environments[Top.environment].block = Top.block
      /\ Top.declared <= Len(FunctionBlocks[Top.block])
  BY <1>1, <1>2, <1>3 DEF FramesAreScoped
<1>6. Len(FunctionBlocks[Top.block]) \in Nat
  BY <1>4, Blocks
<1> QED
  BY <1>2, <1>4, <1>5, <1>6

LEMMA EvaluateInv == ASSUME TieringInv, Evaluate PROVE TieringInv'
<1>1. /\ TypeOK /\ StackParts /\ CodeParts /\ Hole \in Block
      /\ phase = "check" /\ frames # <<>>
      /\ Activate(Hole, "run", Top.environment, Top.environment)
      /\ UNCHANGED <<functions, hits, code, phase, report>>
  BY InvSplit, TieringAssumption DEF Evaluate, Checking
<1>2. Top.environment \in 0..Len(environments) /\ Top.environment \in Nat
  BY <1>1, TopScoped
<1>3. TypeOK' /\ SameFunctions /\ CodeParts'
  <2>1. phase' \in {"start", "check", "checked", "run", "done", "failed"}
    BY <1>1
  <2> HIDE DEF StackParts, CodeParts, TypeOK
  <2> QED
    BY <1>1, <1>2, <2>1, ActivationOnly
<1>4. AllDeclared(Hole)
  BY TieringAssumption DEF AllDeclared, ToSet
<1>5. StackParts'
  BY <1>1, <1>2, <1>3, <1>4, ActivationInv
<1>6. PhasesInOrder'
  BY <1>1, <1>3, PhaseKept
<1> QED
  BY <1>3, <1>5, <1>6 DEF TieringInv, StackParts, CodeParts

\* What the innermost check is about to declare has never been checked.
LEMMA DeclarationUnchecked ==
    ASSUME TieringInv, Checking, Declares
    PROVE  /\ Declaration \in Block \ {Main, Hole}
           /\ Declaration \in ToSet(FunctionBlocks[Top.block])
           /\ Unchecked(Declaration)
<1>1. /\ TypeOK /\ ChecksNest /\ DeclaredInside /\ frames # <<>> /\ Top.mode = "check"
      /\ Len(frames) \in 1..Len(frames) /\ Top = frames[Len(frames)]
      /\ Top.block \in Block /\ Top.declared \in Nat
      /\ DOMAIN frames = 1..Len(frames)
      /\ \A i \in 1..Len(frames) : frames[i].block \in Block /\ frames[i].declared \in Nat
  BY TopScoped, Stacks DEF TieringInv, Checking, Frame
<1>2. PICK n \in Nat, c \in Block : n = Len(frames) /\ c = Top.block
  BY <1>1, Stacks
<1>3. PICK k \in Nat : k = Top.declared + 1
  BY <1>1
<1>4. k \in 1..Len(FunctionBlocks[c]) /\ Declaration = FunctionBlocks[c][k]
  <2>1. Len(FunctionBlocks[c]) \in Nat
    BY Blocks
  <2>2. Top.declared < Len(FunctionBlocks[c]) /\ Declaration = FunctionBlocks[c][k]
    BY <1>2, <1>3 DEF Declares, Declaration
  <2> QED
    BY <1>1, <1>3, <2>1, <2>2
<1>5. /\ Declaration \in Block \ {Main, Hole}
      /\ Declaration \in ToSet(FunctionBlocks[c])
  BY <1>4, Blocks
<1>6. ~functions[Declaration].exists
  <2>1. \A j \in DOMAIN FunctionBlocks[c] :
           functions[FunctionBlocks[c][j]].exists <=> j <= Top.declared
    BY <1>1, <1>2 DEF ChecksNest, Checks
  <2>2. k \in DOMAIN FunctionBlocks[c] /\ ~ (k <= Top.declared)
    BY <1>1, <1>3, <1>4, Blocks
  <2> QED
    BY <1>4, <2>1, <2>2
<1>7. ASSUME NEW i \in DOMAIN frames, Checks(i), frames[i].block = Declaration
      PROVE  FALSE
  <2>1. i \in 1..n /\ i > 1
    BY <1>1, <1>2, <1>5, <1>7 DEF ChecksNest
  <2>2. PICK j \in Nat : j = i - 1
    BY <1>2, <2>1
  <2>3. j \in 1..n /\ j < n
    BY <1>2, <2>1, <2>2
  <2>4. PICK d \in Block, l \in Nat : d = frames[j].block /\ l = frames[j].declared + 1
    <3>1. frames[j].block \in Block /\ frames[j].declared + 1 \in Nat
      BY <1>1, <1>2, <2>3
    <3> QED
      BY <3>1
  <2>5. Checks(j) /\ l \in 1..Len(FunctionBlocks[d]) /\ Declaration = FunctionBlocks[d][l]
    <3>1. /\ Checks(i - 1)
          /\ frames[i - 1].declared < Len(FunctionBlocks[frames[i - 1].block])
          /\ frames[i].block =
                FunctionBlocks[frames[i - 1].block][frames[i - 1].declared + 1]
      BY <1>1, <1>7, <2>1 DEF ChecksNest
    <3>2. Len(FunctionBlocks[d]) \in Nat /\ frames[j].declared \in Nat
      BY <1>1, <1>2, <2>3, Blocks
    <3>3. frames[j].declared < Len(FunctionBlocks[d])
      BY <2>2, <2>4, <3>1
    <3> QED
      BY <1>7, <2>2, <2>4, <3>1, <3>2, <3>3
  <2>6. d = c
    BY <1>4, <2>5, DeclaredOnce
  <2>7. Checks(n) /\ frames[j].block = frames[n].block
    BY <1>1, <1>2, <2>4, <2>6 DEF Checks
  <2>8. n \in DOMAIN frames /\ j \in DOMAIN frames
    BY <1>1, <1>2, <2>3
  <2>9. j = n
    BY <1>1, <2>5, <2>7, <2>8 DEF ChecksNest
  <2> QED
    BY <2>3, <2>9
<1>8. \A d \in ToSet(FunctionBlocks[Declaration]) : ~functions[d].exists
  BY <1>1, <1>5, <1>6, <1>7 DEF DeclaredInside
<1> QED
  BY <1>1, <1>2, <1>5, <1>6, <1>7, <1>8 DEF Unchecked

LEMMA CheckFunctionInv == ASSUME TieringInv, CheckFunction PROVE TieringInv'
<1>1. /\ TypeOK /\ StackParts /\ CodeParts /\ phase = "check" /\ frames # <<>>
      /\ Checking /\ Declares
      /\ Activate(Declaration, "check", Top.environment, Top.environment)
      /\ UNCHANGED <<functions, hits, code, phase, report>>
  BY InvSplit DEF CheckFunction, Checking
<1>2. /\ Top.environment \in 0..Len(environments) /\ Top.environment \in Nat
      /\ environments[Top.environment].block = Top.block
  BY <1>1, TopScoped
<1>3. /\ Declaration \in Block
      /\ Declaration \in ToSet(FunctionBlocks[environments[Top.environment].block])
      /\ Unchecked(Declaration)
  BY <1>1, <1>2, DeclarationUnchecked
<1>4. TypeOK' /\ SameFunctions /\ CodeParts'
  <2>1. phase' \in {"start", "check", "checked", "run", "done", "failed"}
    BY <1>1
  <2> QED
    BY <1>1, <1>2, <1>3, <2>1, ActivationOnly
<1>5. StackParts'
  BY <1>1, <1>2, <1>3, <1>4, ActivationInv
<1>6. PhasesInOrder'
  BY <1>1, <1>4, PhaseKept
<1> QED
  BY <1>4, <1>5, <1>6 DEF TieringInv, StackParts, CodeParts

\* A function that is found by its name exists, with all that it declares; its
\* activations are created in an environment of the block that declares it.
LEMMA Callee ==
    ASSUME TieringInv, NEW b \in Block, Calls(b)
    PROVE  /\ functions[b].exists /\ AllDeclared(b)
           /\ CalleeParent(b) \in 0..Len(environments)
           /\ CalleeParent(b) # 0 =>
                 b \in ToSet(FunctionBlocks[environments[CalleeParent(b)].block])
           /\ Lookup(Top.environment, b) \in Nat
           /\ phase \in {"check", "run"}
<1>1. /\ TypeOK /\ DeclaredInside /\ BoundExists /\ ParentsDeclare /\ frames # <<>>
      /\ phase \in {"check", "run"} /\ Lookup(Top.environment, b) # 0
  BY DEF TieringInv, Calls, Running
<1>2. Top.environment \in 0..Len(environments)
  BY <1>1, TopScoped
<1>3. /\ Lookup(Top.environment, b) \in 0..Len(environments)
      /\ b \in environments[Lookup(Top.environment, b)].bound
  BY <1>1, <1>2, LookupBinds
<1>4. Lookup(Top.environment, b) \in DOMAIN environments
  BY <1>1, <1>3, Stacks
<1>5. functions[b].exists
  BY <1>1, <1>3, <1>4 DEF BoundExists
<1>6. AllDeclared(b)
  BY <1>1, <1>5 DEF DeclaredInside
<1>7. CalleeParent(b) \in 0..Len(environments)
  BY <1>1, Stacks DEF CalleeParent
<1> QED
  BY <1>1, <1>3, <1>5, <1>6, <1>7, Stacks DEF ParentsDeclare, CalleeParent

LEMMA CallNativeInv ==
    ASSUME TieringInv, NEW b \in Block, CallNative(b)
    PROVE  TieringInv'
<1>1. /\ TypeOK /\ StackParts /\ CodeParts
      /\ Activate(b, "jit", CalleeParent(b), Lookup(Top.environment, b))
      /\ UNCHANGED <<functions, hits, code, phase, report>>
  BY InvSplit DEF CallNative
<1>2. /\ AllDeclared(b) /\ CalleeParent(b) \in 0..Len(environments)
      /\ CalleeParent(b) # 0 =>
            b \in ToSet(FunctionBlocks[environments[CalleeParent(b)].block])
      /\ Lookup(Top.environment, b) \in Nat /\ phase \in {"check", "run"}
  BY Callee DEF CallNative
<1>3. TypeOK' /\ SameFunctions /\ CodeParts'
  <2>1. phase' \in {"start", "check", "checked", "run", "done", "failed"}
    BY <1>1, <1>2
  <2> QED
    BY <1>1, <1>2, <2>1, ActivationOnly
<1>4. StackParts'
  BY <1>1, <1>2, <1>3, ActivationInv
<1>5. PhasesInOrder'
  BY <1>1, <1>2, <1>3, PhaseKept
<1> QED
  BY <1>3, <1>4, <1>5 DEF TieringInv, StackParts, CodeParts

LEMMA CallInterpretedInv ==
    ASSUME TieringInv, NEW b \in Block, CallInterpreted(b)
    PROVE  TieringInv'
<1>1. /\ TypeOK /\ StackParts /\ CodeParts
      /\ ~functions[b].native /\ ~IsHot(b)
      /\ hits' = [hits EXCEPT ![b] = IF NoJIT THEN @ ELSE @ + 1]
      /\ Activate(b, "run", CalleeParent(b), Lookup(Top.environment, b))
      /\ UNCHANGED <<functions, code, phase, report>>
  BY InvSplit DEF CallInterpreted
<1>2. /\ AllDeclared(b) /\ CalleeParent(b) \in 0..Len(environments)
      /\ CalleeParent(b) # 0 =>
            b \in ToSet(FunctionBlocks[environments[CalleeParent(b)].block])
      /\ Lookup(Top.environment, b) \in Nat /\ phase \in {"check", "run"}
  BY Callee DEF CallInterpreted
<1>3. SameFunctions
  BY <1>1 DEF SameFunctions
<1>4. hits \in [Block -> 0..(Threshold + 1)] /\ Threshold \in Nat
  BY <1>1, TieringAssumption DEF TypeOK
<1>5. hits' \in [Block -> 0..(Threshold + 1)]
  BY <1>1, <1>4 DEF IsHot
<1>6. TypeOK'
  <2>1. StacksTyped' /\ currentBlock' \in Block \union {NoBlock}
    BY <1>1, <1>2, ActivationTypes
  <2>2. Len(environments) \in Nat /\ Len(environments') = Len(environments) + 1
    BY <1>1, <1>2, ActivateEffect, Stacks
  <2>3. FunctionsTyped'
    BY <1>1, <2>2, FunctionsKeepTypes, TypesSplit
  <2> QED
    BY <1>1, <1>5, <2>1, <2>3 DEF TypeOK, StacksTyped, FunctionsTyped, EnvironmentRecord
<1>7. StackParts'
  BY <1>1, <1>2, <1>3, ActivationInv
<1>8. PhasesInOrder'
  BY <1>1, <1>2, <1>3, PhaseKept
<1>9. CodeParts'
  <2>1. code[b] = <<>>
    BY <1>1 DEF CodeParts, CodeIsUsed
  <2>2. \A c \in Block : hits'[c] = IF c = b /\ ~NoJIT THEN hits[c] + 1 ELSE hits[c]
    BY <1>1, <1>4
  <2>3. ~NoJIT => ~(hits[b] + 1 > Threshold) /\ ~(hits[b] > Threshold)
    BY <1>1, <1>4 DEF IsHot
  <2>4. CompiledAtThreshold'
    BY <1>1, <2>1, <2>2, <2>3 DEF CodeParts, CompiledAtThreshold
  <2> QED
    BY <1>1, <2>4 DEF CodeParts, CodeIsUsed, CodeHasItsFunctions
<1> QED
  BY <1>6, <1>7, <1>8, <1>9 DEF TieringInv, StackParts, CodeParts

LEMMA CallCompilesInv ==
    ASSUME TieringInv, NEW b \in Block, CallCompiles(b)
    PROVE  TieringInv'
<1> DEFINE made == {d \in ToSet(FunctionBlocks[b]) : functions[d].exists}
<1>1. /\ TypeOK /\ StackParts /\ CodeParts
      /\ ~functions[b].native /\ ~NoJIT /\ hits[b] + 1 > Threshold
      /\ hits' = [hits EXCEPT ![b] = @ + 1]
      /\ code' = [code EXCEPT ![b] = Append(@, made)]
      /\ functions' = [functions EXCEPT ![b].native = TRUE]
      /\ Activate(b, "jit", CalleeParent(b), Lookup(Top.environment, b))
      /\ UNCHANGED <<phase, report>>
  BY InvSplit DEF CallCompiles, IsHot
<1>2. /\ functions[b].exists /\ AllDeclared(b)
      /\ CalleeParent(b) \in 0..Len(environments)
      /\ CalleeParent(b) # 0 =>
            b \in ToSet(FunctionBlocks[environments[CalleeParent(b)].block])
      /\ Lookup(Top.environment, b) \in Nat /\ phase \in {"check", "run"}
  BY Callee DEF CallCompiles
<1>3. /\ hits \in [Block -> 0..(Threshold + 1)] /\ Threshold \in Nat
      /\ code \in [Block -> Seq(SUBSET Block)]
      /\ FunctionsTyped
  BY <1>1, TypesSplit, TieringAssumption
<1>4. made = ToSet(FunctionBlocks[b]) /\ made \in SUBSET Block
  BY <1>2, Blocks DEF AllDeclared
<1>5. PICK N \in Nat : N = Len(environments) /\ functions \in [Block -> FunctionRecord(N)]
  BY <1>1, <1>3, Stacks DEF FunctionsTyped, FunctionRecord
<1>6. /\ functions' \in [Block -> FunctionRecord(N)]
      /\ SameFunctions
      /\ \A c \in Block : functions'[c].native = IF c = b THEN TRUE ELSE functions[c].native
  <2>1. functions' = [functions EXCEPT ![b].native = TRUE]
    BY <1>1
  <2>2. functions' \in [Block -> FunctionRecord(N)]
    BY <1>5, <2>1 DEF FunctionRecord
  <2>3. \A c \in Block :
           /\ functions'[c].parent = functions[c].parent
           /\ functions'[c].exists = functions[c].exists
           /\ functions'[c].native = IF c = b THEN TRUE ELSE functions[c].native
    BY <1>5, <2>1 DEF FunctionRecord
  <2> QED
    BY <2>2, <2>3 DEF SameFunctions
<1>7. code[b] = <<>> /\ hits[b] <= Threshold
  <2>1. code[b] = <<>>
    BY <1>1 DEF CodeParts, CodeIsUsed
  <2>2. ~(hits[b] > Threshold)
    BY <1>1, <2>1 DEF CodeParts, CompiledAtThreshold
  <2> QED
    BY <1>3, <2>1, <2>2
<1>8. hits' \in [Block -> 0..(Threshold + 1)]
  BY <1>1, <1>3, <1>7
<1> HIDE DEF made
<1>9. /\ code' \in [Block -> Seq(SUBSET Block)]
      /\ \A c \in Block : c # b => code'[c] = code[c]
      /\ Len(code'[b]) = 1 /\ code'[b] # <<>>
      /\ DOMAIN code'[b] = 1..1 /\ code'[b][1] = made
  <2>1. code'[b] = Append(<<>>, made) /\ \A c \in Block : c # b => code'[c] = code[c]
    BY <1>1, <1>3, <1>7
  <2>2. code'[b] = <<made>>
    BY <2>1
  <2>3. <<made>> \in Seq(SUBSET Block)
    BY <1>4
  <2>4. code' \in [Block -> Seq(SUBSET Block)]
    BY <1>1, <1>3, <1>7, <2>3
  <2> QED
    BY <2>1, <2>2, <2>4
<1>10. TypeOK'
  <2>1. StacksTyped' /\ currentBlock' \in Block \union {NoBlock}
    BY <1>1, <1>2, ActivationTypes
  <2>2. Len(environments) \in Nat /\ Len(environments') = Len(environments) + 1
    BY <1>1, <1>2, ActivateEffect, Stacks
  <2>3. FunctionsTyped'
    <3>1. functions' \in [Block -> FunctionRecord(N + 1)]
      BY <1>6, FunctionRecordGrows
    <3> QED
      BY <1>5, <2>2, <3>1 DEF FunctionsTyped, FunctionRecord
  <2>4. /\ phase' \in {"start", "check", "checked", "run", "done", "failed"}
        /\ report' \in [in : Block \union {NoBlock}, shown : Block \union {NoBlock}]
    BY <1>1 DEF TypeOK
  <2> QED
    BY <1>8, <1>9, <2>1, <2>3, <2>4 DEF TypeOK, StacksTyped, FunctionsTyped, EnvironmentRecord
<1>11. StackParts'
  BY <1>1, <1>2, <1>6, ActivationInv
<1>12. PhasesInOrder'
  BY <1>1, <1>2, <1>6, PhaseKept
<1>13. CodeParts'
  <2>1. CodeIsUsed'
    BY <1>1, <1>2, <1>3, <1>5, <1>6, <1>9 DEF CodeParts, CodeIsUsed, SameFunctions, FunctionsTyped
  <2>2. CompiledAtThreshold'
    <3>1. \A c \in Block : hits'[c] = IF c = b THEN hits[c] + 1 ELSE hits[c]
      BY <1>1, <1>3
    <3> QED
      BY <1>1, <1>5, <1>9, <3>1 DEF CodeParts, CompiledAtThreshold
  <2>3. CodeHasItsFunctions'
    BY <1>1, <1>4, <1>9 DEF CodeParts, CodeHasItsFunctions
  <2> QED
    BY <2>1, <2>2, <2>3 DEF CodeParts
<1> QED
  BY <1>10, <1>11, <1>12, <1>13 DEF TieringInv, StackParts, CodeParts

-----------------------------------------------------------------------------
(* Steps that declare a function or end an activation *)

\* Executing a declaration counts it, in the innermost frame of a stack.
LEMMA DeclaredEffect ==
    ASSUME NEW s \in Seq(Frame), NEW n \in Nat, n = Len(s), n # 0
    PROVE  /\ Declared(s) \in Seq(Frame) /\ Len(Declared(s)) = n
           /\ DOMAIN Declared(s) = 1..n
           /\ \A i \in 1..n : /\ Declared(s)[i].block = s[i].block
                              /\ Declared(s)[i].mode = s[i].mode
                              /\ Declared(s)[i].environment = s[i].environment
                              /\ Declared(s)[i].lastBlock = s[i].lastBlock
                              /\ Declared(s)[i].declared =
                                    IF i = n THEN s[i].declared + 1 ELSE s[i].declared
<1>1. \A i \in 1..n : s[i] \in Frame /\ n \in 1..n
  OBVIOUS
<1>2. /\ [s EXCEPT ![n].declared = @ + 1] \in Seq(Frame)
      /\ Len([s EXCEPT ![n].declared = @ + 1]) = n
  BY <1>1 DEF Frame
<1> QED
  BY <1>1, <1>2 DEF Declared, Frame

LEMMA BindEffect ==
    ASSUME TypeOK, NEW e \in 1..Len(environments), NEW b \in Block, Bind(e, b)
    PROVE  /\ environments' \in Seq(EnvironmentRecord)
           /\ Len(environments') = Len(environments)
           /\ DOMAIN environments' = 1..Len(environments)
           /\ \A i \in 1..Len(environments) :
                 /\ environments'[i].parent = environments[i].parent
                 /\ environments'[i].block = environments[i].block
                 /\ environments'[i].bound =
                       IF i = e THEN environments[i].bound \union {b}
                                ELSE environments[i].bound
<1>1. /\ environments \in Seq(EnvironmentRecord) /\ Len(environments) \in Nat
      /\ \A i \in 1..Len(environments) : environments[i] \in EnvironmentRecord
  BY Stacks
<1>2. environments' = [environments EXCEPT ![e].bound = @ \union {b}]
  BY DEF Bind
<1>3. /\ Len(environments') = Len(environments)
      /\ DOMAIN environments' = 1..Len(environments)
  BY <1>1, <1>2
<1>4. ASSUME NEW i \in 1..Len(environments)
      PROVE  /\ environments'[i].parent = environments[i].parent
             /\ environments'[i].block = environments[i].block
             /\ environments'[i].bound = IF i = e THEN environments[i].bound \union {b}
                                                 ELSE environments[i].bound
  <2>1. /\ environments'[i].parent = environments[i].parent
        /\ environments'[i].block = environments[i].block
    BY <1>1, <1>2 DEF EnvironmentRecord
  <2>2. CASE i = e
    BY <1>1, <1>2, <2>2 DEF EnvironmentRecord
  <2>3. CASE i # e
    BY <1>1, <1>2, <2>3 DEF EnvironmentRecord
  <2> QED
    BY <2>1, <2>2, <2>3
<1>5. environments' \in Seq(EnvironmentRecord)
  <2>1. [environments[e] EXCEPT !.bound = @ \union {b}] \in EnvironmentRecord
    BY <1>1 DEF EnvironmentRecord
  <2> QED
    BY <1>1, <1>2, <2>1
<1> QED
  BY <1>3, <1>4, <1>5

\* What is kept of the stack's first n activations.
SameFrames(n) ==
    \A i \in 1..n : /\ frames'[i].block = frames[i].block
                    /\ frames'[i].mode = frames[i].mode
                    /\ frames'[i].environment = frames[i].environment
                    /\ frames'[i].lastBlock = frames[i].lastBlock

LEMMA KeptBlocks ==
    ASSUME BlocksNest, NEW n \in Nat, NEW c, n <= Len(frames), Len(frames) \in Nat,
           DOMAIN frames = 1..Len(frames), DOMAIN frames' = 1..n, Len(frames') = n,
           SameFrames(n), c = currentBlock', IsInnermost(c, n)
    PROVE  BlocksNest'
<1>1. IsInnermost(c, n)'
  BY InnermostFrame DEF SameFrames
<1>2. ASSUME NEW i \in 1..n, frames'[i].mode # "jit", NEW d, d = frames'[i].lastBlock
      PROVE  IsInnermost(d, i - 1)'
  <2>1. i \in DOMAIN frames /\ i - 1 \in Nat /\ \A j \in 1..(i - 1) : j \in 1..n
    OBVIOUS
  <2>2. IsInnermost(d, i - 1)
    BY <1>2, <2>1 DEF BlocksNest, SameFrames
  <2> QED
    BY <2>1, <2>2, InnermostFrame DEF SameFrames
<1> QED
  BY <1>1, <1>2 DEF BlocksNest, IsInnermost

LEMMA PoppedBlocks ==
    ASSUME TypeOK, BlocksNest, NEW n \in Nat, Len(frames) = n + 1,
           DOMAIN frames' = 1..n, Len(frames') = n, SameFrames(n),
           currentBlock' = RestoredBlock
    PROVE  BlocksNest'
<1>1. /\ DOMAIN frames = 1..(n + 1) /\ Top = frames[n + 1] /\ n + 1 \in 1..(n + 1)
      /\ frames # <<>> /\ Len(frames) \in Nat
  BY Stacks, TopFrame
<1>2. PICK c : c = currentBlock'
  OBVIOUS
<1>3. IsInnermost(c, n)
  <2>1. CASE Top.mode = "jit"
    BY <1>1, <1>2, <2>1, InnermostBefore DEF BlocksNest, RestoredBlock
  <2>2. CASE Top.mode # "jit"
    BY <1>1, <1>2, <2>2 DEF BlocksNest, RestoredBlock
  <2> QED
    BY <2>1, <2>2
<1> QED
  BY <1>1, <1>2, <1>3, KeptBlocks

LEMMA FailInv == ASSUME TieringInv, Fail PROVE TieringInv'
<1>1. /\ TypeOK /\ StackParts /\ CodeParts /\ frames # <<>> /\ phase' = "failed"
      /\ report' = [in |-> Top.block, shown |-> currentBlock]
      /\ UNCHANGED <<frames, environments, functions, hits, code, currentBlock>>
  BY InvSplit DEF Fail, Running
<1>2. TypeOK'
  <2>1. Top.block \in Block /\ currentBlock \in Block \union {NoBlock}
    BY <1>1, TopFrame DEF TypeOK, Frame
  <2> QED
    BY <1>1, <2>1 DEF TypeOK
<1>3. PhasesInOrder'
  BY <1>1 DEF PhasesInOrder
<1>4. BlocksNest' /\ FramesAreScoped' /\ ChecksNest' /\ DeclaredInside'
  BY <1>1 DEF StackParts, BlocksNest, IsInnermost, FramesAreScoped, ChecksNest, Checks,
              DeclaredInside, AllDeclared
<1>5. BoundExists' /\ ParentsDeclare' /\ ScopesAreLexical'
  BY <1>1 DEF StackParts, BoundExists, ParentsDeclare, ScopesAreLexical
<1>6. CodeParts'
  BY <1>1, SameCode
<1> QED
  BY <1>2, <1>3, <1>4, <1>5, <1>6 DEF TieringInv, CodeParts

LEMMA StutterInv == ASSUME TieringInv, UNCHANGED vars PROVE TieringInv'
<1>1. /\ TypeOK /\ PhasesInOrder /\ StackParts /\ CodeParts
      /\ UNCHANGED <<frames, environments, functions, hits, code, currentBlock,
                     phase, report>>
  BY InvSplit DEF vars
<1>2. TypeOK' /\ PhasesInOrder'
  BY <1>1 DEF TypeOK, PhasesInOrder, AllDeclared
<1>3. BlocksNest' /\ FramesAreScoped' /\ ChecksNest' /\ DeclaredInside'
  BY <1>1 DEF StackParts, BlocksNest, IsInnermost, FramesAreScoped, ChecksNest, Checks,
              DeclaredInside, AllDeclared
<1>4. BoundExists' /\ ParentsDeclare' /\ ScopesAreLexical'
  BY <1>1 DEF StackParts, BoundExists, ParentsDeclare, ScopesAreLexical
<1>5. CodeParts'
  BY <1>1, SameCode
<1> QED
  BY <1>2, <1>3, <1>4, <1>5 DEF TieringInv, CodeParts

LEMMA ReturnInv == ASSUME TieringInv, Return PROVE TieringInv'
<1>1. /\ TypeOK /\ StackParts /\ CodeParts /\ frames # <<>>
      /\ phase \in {"check", "run"} /\ Top.mode \in {"run", "jit"}
      /\ currentBlock' = RestoredBlock /\ frames' = Below
      /\ phase' = IF Below = <<>> THEN "done" ELSE phase
      /\ UNCHANGED <<environments, functions, hits, code, report>>
  BY InvSplit DEF Return, Running
<1>2. PICK n \in Nat : Len(frames) = n + 1
  <2>1. Len(frames) - 1 \in Nat /\ Len(frames) = (Len(frames) - 1) + 1
    BY <1>1, Stacks
  <2> QED
    BY <2>1
<1>3. /\ DOMAIN frames = 1..(n + 1) /\ DOMAIN frames' = 1..n /\ Len(frames') = n
      /\ frames' \in Seq(Frame)
      /\ Top = frames[n + 1] /\ \A i \in 1..n : frames'[i] = frames[i]
  <2>1. Len(frames) - 1 = n
    BY <1>2
  <2>2. /\ Top = frames[n + 1]
        /\ Below \in Seq(Frame) /\ Len(Below) = n /\ DOMAIN Below = 1..n
        /\ \A i \in 1..n : Below[i] = frames[i]
    BY <1>1, <1>2, <2>1, TopFrame
  <2>3. DOMAIN frames = 1..(n + 1)
    BY <1>1, <1>2, Stacks
  <2> QED
    BY <1>1, <2>2, <2>3
<1>4. BlocksNest'
  <2>1. SameFrames(n)
    BY <1>3 DEF SameFrames
  <2>2. BlocksNest
    BY <1>1 DEF StackParts
  <2> QED
    BY <1>1, <1>2, <1>3, <2>1, <2>2, PoppedBlocks
<1>5. \A i \in 1..n : i \in 1..(n + 1)
  OBVIOUS
<1>6. FramesAreScoped'
  BY <1>1, <1>3, <1>5 DEF StackParts, FramesAreScoped, AllDeclared
<1>7. ASSUME NEW i \in 1..n, frames[i].mode = "check"
      PROVE  /\ ~functions[frames[i].block].exists
             /\ \A k \in DOMAIN FunctionBlocks[frames[i].block] :
                   functions[FunctionBlocks[frames[i].block][k]].exists
                      <=> k <= frames[i].declared
             /\ i = 1 => frames[i].block = Main
             /\ i > 1 =>
                   /\ frames'[i - 1].mode = "check"
                   /\ frames'[i - 1].declared < Len(FunctionBlocks[frames'[i - 1].block])
                   /\ frames[i].block =
                         FunctionBlocks[frames'[i - 1].block][frames'[i - 1].declared + 1]
             /\ \A j \in 1..n :
                   frames'[j].mode = "check" /\ frames'[j].block = frames[i].block
                      => i = j
  <2>1. i \in DOMAIN frames /\ ChecksNest
    BY <1>1, <1>3, <1>5 DEF StackParts
  <2>2. i > 1 => i - 1 \in 1..n
    OBVIOUS
  <2> QED
    BY <1>3, <1>5, <1>7, <2>1, <2>2 DEF ChecksNest, Checks
<1>8. ChecksNest'
  BY <1>1, <1>3, <1>7 DEF ChecksNest, Checks
<1>9. DeclaredInside'
  <2>1. ASSUME NEW b \in Block,
               \A i \in 1..n : frames'[i].mode = "check" => frames'[i].block # b
        PROVE  \A i \in 1..(n + 1) : frames[i].mode = "check" => frames[i].block # b
    <3>1. \A i \in 1..(n + 1) : i \in 1..n \/ i = n + 1
      OBVIOUS
    <3> QED
      BY <1>1, <1>3, <2>1, <3>1
  <2> QED
    BY <1>1, <1>3, <2>1 DEF StackParts, DeclaredInside, Checks, AllDeclared
<1>10. BoundExists' /\ ParentsDeclare' /\ ScopesAreLexical'
  BY <1>1 DEF StackParts, BoundExists, ParentsDeclare, ScopesAreLexical
<1>11. PhasesInOrder'
  BY <1>1, <1>3 DEF PhasesInOrder, TieringInv, AllDeclared
<1>12. TypeOK'
  <2>1. currentBlock' \in Block \union {NoBlock}
    BY <1>1, TopFrame DEF RestoredBlock, Frame, TypeOK
  <2>2. Len(frames') <= MaxFrames
    <3>1. n + 1 <= MaxFrames /\ MaxFrames \in Nat
      BY <1>1, <1>2, TieringAssumption DEF TypeOK
    <3> QED
      BY <1>3, <3>1
  <2> QED
    BY <1>1, <1>3, <2>1, <2>2 DEF TypeOK
<1>13. CodeParts'
  BY <1>1, SameCode
<1> QED
  BY <1>4, <1>6, <1>8, <1>9, <1>10, <1>11, <1>12, <1>13 DEF TieringInv, CodeParts

\* A function is bound where its block's declarations belong.
LEMMA BindScopes ==
    ASSUME TypeOK, BoundExists, ParentsDeclare, ScopesAreLexical,
           NEW e \in 1..Len(environments), NEW b \in Block, Bind(e, b),
           b \in ToSet(FunctionBlocks[environments[e].block]),
           functions'[b].exists,
           \A c \in Block :
              /\ functions[c].exists => functions'[c].exists
              /\ functions'[c].parent = IF c = b THEN e ELSE functions[c].parent
    PROVE  /\ BoundExists' /\ ParentsDeclare' /\ ScopesAreLexical'
           /\ environments' \in Seq(EnvironmentRecord)
           /\ \A i \in DOMAIN environments' :
                 /\ environments'[i].parent \in 0..(i - 1)
                 /\ environments'[i].bound
                       \subseteq ToSet(FunctionBlocks[environments'[i].block])
<1>1. PICK N \in Nat : N = Len(environments)
  BY Stacks
<1>2. /\ environments' \in Seq(EnvironmentRecord) /\ DOMAIN environments' = 1..N
      /\ DOMAIN environments = 1..N
      /\ \A i \in 1..N :
            /\ environments'[i].parent = environments[i].parent
            /\ environments'[i].block = environments[i].block
            /\ environments'[i].bound = IF i = e THEN environments[i].bound \union {b}
                                                 ELSE environments[i].bound
  BY <1>1, BindEffect, Stacks
<1>3. \A i \in 1..N : /\ environments[i].parent \in 0..(i - 1)
                      /\ environments[i].bound \in SUBSET Block
                      /\ environments[i].bound
                            \subseteq ToSet(FunctionBlocks[environments[i].block])
  BY <1>1, Stacks DEF EnvironmentRecord
<1>4. \A c \in Block : functions[c].parent \in 0..N
  BY <1>1, Stacks
<1>5. ASSUME NEW i \in 1..N, NEW c \in environments'[i].bound
      PROVE  functions'[c].exists
  <2>1. c = b \/ c \in environments[i].bound
    BY <1>2, <1>5
  <2> QED
    BY <1>2, <1>3, <2>1 DEF BoundExists
<1>6. ASSUME NEW c \in Block, functions'[c].parent # 0
      PROVE  c \in ToSet(FunctionBlocks[environments'[functions'[c].parent].block])
  <2>1. CASE c = b
    BY <1>1, <1>2, <2>1
  <2>2. CASE c # b
    <3>1. PICK p \in 0..N : p = functions'[c].parent /\ p = functions[c].parent
      BY <1>4, <2>2
    <3>2. p \in 1..N /\ c \in ToSet(FunctionBlocks[environments[p].block])
      BY <1>6, <3>1 DEF ParentsDeclare
    <3> QED
      BY <1>2, <3>1, <3>2
  <2> QED
    BY <2>1, <2>2
<1>7. ASSUME NEW i \in 1..N, environments'[i].parent # 0, environments'[i].block # Hole
      PROVE  environments'[i].block \in
                ToSet(FunctionBlocks[environments'[environments'[i].parent].block])
  <2>1. PICK p \in 0..(i - 1) : p = environments'[i].parent /\ p = environments[i].parent
    BY <1>2, <1>3
  <2>2. p \in 1..N
    BY <1>7, <2>1
  <2> QED
    BY <1>2, <1>7, <2>1, <2>2 DEF ScopesAreLexical
<1>8. ASSUME NEW i \in 1..N
      PROVE  /\ environments'[i].parent \in 0..(i - 1)
             /\ environments'[i].bound
                   \subseteq ToSet(FunctionBlocks[environments'[i].block])
  BY <1>2, <1>3
<1>9. BoundExists' /\ ParentsDeclare' /\ ScopesAreLexical'
  BY <1>2, <1>5, <1>6, <1>7 DEF BoundExists, ParentsDeclare, ScopesAreLexical
<1> QED
  BY <1>2, <1>8, <1>9

LEMMA DeclareInv == ASSUME TieringInv, Declare PROVE TieringInv'
<1>1. /\ TypeOK /\ StackParts /\ CodeParts /\ frames # <<>>
      /\ phase \in {"check", "run"} /\ Top.mode \in {"run", "jit"}
      /\ Declares
      /\ functions' = [functions EXCEPT ![Declaration].parent = Top.environment]
      /\ Bind(Top.environment, Declaration)
      /\ frames' = Declared(frames)
      /\ UNCHANGED <<hits, code, currentBlock, phase, report>>
  BY InvSplit DEF Declare, Running
<1>2. PICK n \in Nat, e \in 1..Len(environments), c \in Block, k \in Nat :
         /\ n = Len(frames) /\ n # 0 /\ e = Top.environment /\ c = Top.block
         /\ k = Top.declared
  <2>1. /\ Len(frames) \in Nat /\ Len(frames) # 0
        /\ Top.environment \in 1..Len(environments) /\ Top \in Frame
    BY <1>1, TopScoped, Stacks
  <2>2. Top.block \in Block /\ Top.declared \in Nat
    BY <2>1 DEF Frame
  <2> QED
    BY <2>1, <2>2
<1>3. /\ DOMAIN frames = 1..n /\ n \in 1..n /\ Top = frames[n]
      /\ environments[e].block = c /\ frames \in Seq(Frame) /\ n <= MaxFrames
  BY <1>1, <1>2, TopScoped, Stacks DEF TypeOK
<1>4. k + 1 \in 1..Len(FunctionBlocks[c]) /\ Declaration = FunctionBlocks[c][k + 1]
  <2>1. Len(FunctionBlocks[c]) \in Nat
    BY Blocks
  <2> QED
    BY <1>1, <1>2, <2>1 DEF Declares, Declaration
<1>5. PICK d \in Block : d = Declaration /\ d \in ToSet(FunctionBlocks[c])
  BY <1>4, Blocks
<1>6. functions[d].exists
  BY <1>1, <1>2, <1>3, <1>5 DEF StackParts, FramesAreScoped, AllDeclared
<1>7. PICK N \in Nat : N = Len(environments) /\ functions \in [Block -> FunctionRecord(N)]
  BY <1>1, Stacks, TypesSplit DEF FunctionsTyped, FunctionRecord
<1>8. /\ functions' \in [Block -> FunctionRecord(N)]
      /\ \A b \in Block : /\ functions'[b].exists = functions[b].exists
                          /\ functions'[b].native = functions[b].native
                          /\ functions'[b].parent = IF b = d THEN e ELSE functions[b].parent
  <2>1. functions' = [functions EXCEPT ![d].parent = e] /\ e \in 0..N
    BY <1>1, <1>2, <1>5, <1>7
  <2>2. functions' \in [Block -> FunctionRecord(N)]
    BY <1>7, <2>1 DEF FunctionRecord
  <2>3. \A b \in Block : /\ functions'[b].exists = functions[b].exists
                         /\ functions'[b].native = functions[b].native
                         /\ functions'[b].parent = IF b = d THEN e ELSE functions[b].parent
    BY <1>7, <2>1 DEF FunctionRecord
  <2> QED
    BY <2>2, <2>3
<1>9. /\ frames' \in Seq(Frame) /\ Len(frames') = n /\ DOMAIN frames' = 1..n
      /\ SameFrames(n)
      /\ \A i \in 1..n : frames'[i].declared = IF i = n THEN frames[i].declared + 1
                                                        ELSE frames[i].declared
  BY <1>1, <1>2, <1>3, DeclaredEffect DEF SameFrames
<1>10. /\ BoundExists' /\ ParentsDeclare' /\ ScopesAreLexical'
       /\ environments' \in Seq(EnvironmentRecord)
       /\ \A i \in DOMAIN environments' :
             /\ environments'[i].parent \in 0..(i - 1)
             /\ environments'[i].bound \subseteq ToSet(FunctionBlocks[environments'[i].block])
  <2>1. Bind(e, d) /\ d \in ToSet(FunctionBlocks[environments[e].block])
    BY <1>1, <1>2, <1>3, <1>5
  <2> QED
    BY <1>1, <1>6, <1>8, <2>1, BindScopes DEF StackParts
<1>11. /\ DOMAIN environments' = 1..N /\ DOMAIN environments = 1..N
       /\ Len(environments') = N
       /\ \A i \in 1..N : environments'[i].block = environments[i].block
  BY <1>1, <1>2, <1>5, <1>7, BindEffect, Stacks
<1>12. BlocksNest'
  <2>1. PICK b : b = currentBlock' /\ b = currentBlock
    BY <1>1
  <2>2. BlocksNest /\ IsInnermost(b, n)
    BY <1>1, <1>2, <2>1 DEF StackParts, BlocksNest
  <2> QED
    BY <1>2, <1>3, <1>9, <2>1, <2>2, KeptBlocks
<1>13. \A b \in Block : \A x \in ToSet(FunctionBlocks[b]) :
          functions'[x].exists = functions[x].exists
  BY <1>8, Blocks
<1>14. \A i \in 1..n : frames[i].block \in Block
  BY <1>1, <1>2, Stacks DEF Frame
<1>15. ASSUME NEW i \in 1..n
       PROVE  /\ frames'[i].environment \in DOMAIN environments'
              /\ environments'[frames'[i].environment].block = frames'[i].block
              /\ frames'[i].declared <= Len(FunctionBlocks[frames'[i].block])
              /\ frames'[i].mode # "check" =>
                    \A x \in ToSet(FunctionBlocks[frames'[i].block]) : functions'[x].exists
  <2>1. /\ frames[i].environment \in 1..N
        /\ environments[frames[i].environment].block = frames[i].block
        /\ frames[i].declared <= Len(FunctionBlocks[frames[i].block])
        /\ frames[i].mode # "check" =>
              \A x \in ToSet(FunctionBlocks[frames[i].block]) : functions[x].exists
    BY <1>1, <1>3, <1>11 DEF StackParts, FramesAreScoped, AllDeclared
  <2>2. frames'[i].declared <= Len(FunctionBlocks[frames[i].block])
    <3>1. CASE i = n
      BY <1>2, <1>3, <1>4, <1>9, <3>1
    <3>2. CASE i # n
      BY <1>9, <2>1, <3>2
    <3> QED
      BY <3>1, <3>2
  <2>3. /\ frames'[i].block = frames[i].block /\ frames'[i].mode = frames[i].mode
        /\ frames'[i].environment = frames[i].environment
    BY <1>9 DEF SameFrames
  <2> QED
    BY <1>11, <1>13, <1>14, <2>1, <2>2, <2>3
<1>16. FramesAreScoped'
  BY <1>9, <1>15 DEF FramesAreScoped, AllDeclared
<1>17. ASSUME NEW i \in 1..n, frames'[i].mode = "check"
       PROVE  /\ ~functions'[frames'[i].block].exists
              /\ \A x \in DOMAIN FunctionBlocks[frames'[i].block] :
                    functions'[FunctionBlocks[frames'[i].block][x]].exists
                       <=> x <= frames'[i].declared
              /\ i = 1 => frames'[i].block = Main
              /\ i > 1 =>
                    /\ frames'[i - 1].mode = "check"
                    /\ frames'[i - 1].declared < Len(FunctionBlocks[frames'[i - 1].block])
                    /\ frames'[i].block =
                          FunctionBlocks[frames'[i - 1].block][frames'[i - 1].declared + 1]
              /\ \A j \in 1..n :
                    frames'[j].mode = "check" /\ frames'[j].block = frames'[i].block
                       => i = j
  <2>1. /\ i # n /\ frames[i].mode = "check"
        /\ frames'[i].block = frames[i].block /\ frames'[i].declared = frames[i].declared
    BY <1>1, <1>3, <1>9, <1>17 DEF SameFrames
  <2>2. i > 1 => i - 1 \in 1..n /\ i - 1 # n
    BY <2>1
  <2>3. PICK b \in Block : b = frames[i].block
    BY <1>14
  <2>4. /\ ~functions[b].exists
        /\ \A x \in DOMAIN FunctionBlocks[b] :
              functions[FunctionBlocks[b][x]].exists <=> x <= frames[i].declared
        /\ i = 1 => b = Main
        /\ i > 1 =>
              /\ frames[i - 1].mode = "check"
              /\ frames[i - 1].declared < Len(FunctionBlocks[frames[i - 1].block])
              /\ b = FunctionBlocks[frames[i - 1].block][frames[i - 1].declared + 1]
        /\ \A j \in 1..n : frames[j].mode = "check" /\ frames[j].block = b => i = j
    BY <1>1, <1>3, <2>1, <2>3 DEF StackParts, ChecksNest, Checks
  <2>5. i > 1 => /\ frames'[i - 1].mode = frames[i - 1].mode
                 /\ frames'[i - 1].block = frames[i - 1].block
                 /\ frames'[i - 1].declared = frames[i - 1].declared
    BY <1>9, <2>2 DEF SameFrames
  <2>6. \A x \in DOMAIN FunctionBlocks[b] :
           functions'[FunctionBlocks[b][x]].exists = functions[FunctionBlocks[b][x]].exists
    BY <1>8, Blocks
  <2>7. \A j \in 1..n : frames'[j].mode = frames[j].mode /\ frames'[j].block = frames[j].block
    BY <1>9 DEF SameFrames
  <2> QED
    BY <1>8, <2>1, <2>3, <2>4, <2>5, <2>6, <2>7
<1>18. ChecksNest'
  BY <1>9, <1>17 DEF ChecksNest, Checks
<1>19. DeclaredInside'
  <2>1. \A i \in 1..n : frames'[i].mode = frames[i].mode /\ frames'[i].block = frames[i].block
    BY <1>9 DEF SameFrames
  <2>2. ASSUME NEW b \in Block
        PROVE  functions'[b].exists =>
                  \A x \in ToSet(FunctionBlocks[b]) : functions'[x].exists
    BY <1>1, <1>8, <1>13 DEF StackParts, DeclaredInside, AllDeclared
  <2>3. ASSUME NEW b \in Block, ~functions'[b].exists, b # Main,
               \A i \in 1..n : frames'[i].mode = "check" => frames'[i].block # b,
               NEW x \in ToSet(FunctionBlocks[b])
        PROVE  ~functions'[x].exists
    <3>1. ~functions[b].exists
      BY <1>8, <2>3
    <3>2. \A i \in 1..n : frames[i].mode = "check" => frames[i].block # b
      BY <2>1, <2>3
    <3>3. ~functions[x].exists
      BY <1>1, <1>3, <2>3, <3>1, <3>2 DEF StackParts, DeclaredInside, Checks
    <3> QED
      BY <1>13, <2>3, <3>3
  <2> QED
    BY <1>9, <2>2, <2>3 DEF DeclaredInside, Checks, AllDeclared
<1>20. PhasesInOrder'
  <2>1. AllDeclared(Main)' <=> AllDeclared(Main)
    BY <1>13, TieringAssumption DEF AllDeclared
  <2> QED
    BY <1>1, <2>1 DEF TieringInv, PhasesInOrder
<1>21. TypeOK'
  <2>1. StacksTyped'
    BY <1>3, <1>9, <1>10 DEF StacksTyped
  <2>2. FunctionsTyped'
    BY <1>8, <1>11 DEF FunctionsTyped, FunctionRecord
  <2> QED
    BY <1>1, <2>1, <2>2 DEF TypeOK, StacksTyped, FunctionsTyped, EnvironmentRecord
<1>22. CodeParts'
  BY <1>1, <1>8, SameCode
<1> QED
  BY <1>10, <1>12, <1>16, <1>18, <1>19, <1>20, <1>21, <1>22 DEF TieringInv, CodeParts

\* The check of the program ends: everything it declares exists.
LEMMA FinishMainInv ==
    ASSUME TieringInv, FinishCheck, Below = <<>>
    PROVE  TieringInv'
<1>1. /\ TypeOK /\ StackParts /\ CodeParts /\ frames # <<>> /\ Top.mode = "check"
      /\ ~Declares /\ currentBlock' = RestoredBlock
      /\ phase' = "checked" /\ frames' = <<>>
      /\ UNCHANGED <<environments, functions, hits, code, report>>
  BY InvSplit DEF FinishCheck, Checking
<1>2. /\ Len(frames) = 1 /\ DOMAIN frames = 1..1 /\ Top = frames[1] /\ Top \in Frame
      /\ Top.declared \in 0..Len(FunctionBlocks[Top.block]) /\ 1 \in DOMAIN frames
  <2>1. Len(frames) = 1 /\ Top = frames[Len(frames)] /\ Top \in Frame
    BY <1>1, TopFrame
  <2>2. DOMAIN frames = 1..Len(frames)
    BY <1>1, Stacks
  <2> QED
    BY <1>1, <2>1, <2>2, TopScoped
<1>3. /\ Top.block = Main /\ Main \in Block
      /\ \A k \in DOMAIN FunctionBlocks[Main] :
            functions[FunctionBlocks[Main][k]].exists <=> k <= Top.declared
  BY <1>1, <1>2, TieringAssumption DEF StackParts, ChecksNest, Checks
<1>4. AllDeclared(Main)
  <2>1. Top.declared = Len(FunctionBlocks[Main]) /\ Len(FunctionBlocks[Main]) \in Nat
    BY <1>1, <1>2, <1>3, Blocks DEF Declares
  <2>2. \A k \in 1..Len(FunctionBlocks[Main]) : functions[FunctionBlocks[Main][k]].exists
    BY <1>3, <2>1, Blocks
  <2>3. ASSUME NEW d \in ToSet(FunctionBlocks[Main]) PROVE functions[d].exists
    <3>1. PICK k \in 1..Len(FunctionBlocks[Main]) : d = FunctionBlocks[Main][k]
      BY <1>3, Blocks
    <3> QED
      BY <2>2, <3>1
  <2> QED
    BY <2>3 DEF AllDeclared
<1>5. DOMAIN frames' = 1..0 /\ Len(frames') = 0 /\ frames' \in Seq(Frame)
  BY <1>1
<1>6. BlocksNest'
  <2>1. SameFrames(0) /\ 0 \in Nat /\ Len(frames) = 0 + 1 /\ BlocksNest
    BY <1>1, <1>2 DEF SameFrames, StackParts
  <2> QED
    BY <1>1, <1>5, <2>1, PoppedBlocks
<1>7. FramesAreScoped' /\ ChecksNest'
  BY <1>5 DEF FramesAreScoped, ChecksNest
<1>8. DeclaredInside'
  <2>1. \A b \in Block : b # Main =>
           \A i \in DOMAIN frames : Checks(i) => frames[i].block # b
    BY <1>2, <1>3
  <2> QED
    BY <1>1, <2>1 DEF StackParts, DeclaredInside, AllDeclared
<1>9. BoundExists' /\ ParentsDeclare' /\ ScopesAreLexical'
  BY <1>1 DEF StackParts, BoundExists, ParentsDeclare, ScopesAreLexical
<1>10. PhasesInOrder'
  BY <1>1, <1>4 DEF PhasesInOrder, AllDeclared
<1>11. TypeOK'
  <2>1. currentBlock' \in Block \union {NoBlock}
    BY <1>1, <1>2 DEF RestoredBlock, Frame, TypeOK
  <2>2. Len(frames') <= MaxFrames
    BY <1>5, TieringAssumption
  <2> QED
    BY <1>1, <1>5, <2>1, <2>2 DEF TypeOK
<1>12. CodeParts'
  BY <1>1, SameCode
<1> QED
  BY <1>6, <1>7, <1>8, <1>9, <1>10, <1>11, <1>12 DEF TieringInv, CodeParts

\* The check of a declared function ends: the function exists, bound in the
\* environment of the activation that checks the block that declares it.
LEMMA FinishFunctionInv ==
    ASSUME TieringInv, FinishCheck, Below # <<>>
    PROVE  TieringInv'
<1>1. /\ TypeOK /\ StackParts /\ CodeParts /\ frames # <<>> /\ Top.mode = "check"
      /\ ~Declares /\ currentBlock' = RestoredBlock /\ phase = "check"
      /\ functions' = [functions EXCEPT ![Top.block] = NewFunction(Last(Below).environment)]
      /\ Bind(Last(Below).environment, Top.block)
      /\ frames' = Declared(Below)
      /\ UNCHANGED <<phase, hits, code, report>>
  BY InvSplit DEF FinishCheck, Checking
<1>2. PICK n \in Nat : Len(frames) = n + 1
  <2>1. Len(frames) - 1 \in Nat /\ Len(frames) = (Len(frames) - 1) + 1
    BY <1>1, Stacks
  <2> QED
    BY <2>1
<1>3. /\ DOMAIN frames = 1..(n + 1) /\ n \in 1..n /\ n + 1 \in DOMAIN frames /\ n \in DOMAIN frames
      /\ Top = frames[n + 1] /\ Last(Below) = frames[n]
      /\ Below \in Seq(Frame) /\ Len(Below) = n
      /\ \A i \in 1..n : Below[i] = frames[i] /\ i \in DOMAIN frames
      /\ n + 1 <= MaxFrames
      /\ \A i \in 1..(n + 1) : frames[i] \in Frame
  <2>1. Len(frames) - 1 = n
    BY <1>2
  <2>2. /\ Top = frames[n + 1] /\ Last(Below) = frames[n] /\ n # 0
        /\ Below \in Seq(Frame) /\ Len(Below) = n
        /\ \A i \in 1..n : Below[i] = frames[i]
    BY <1>1, <1>2, <2>1, TopFrame
  <2>3. DOMAIN frames = 1..(n + 1) /\ n + 1 <= MaxFrames
    BY <1>1, <1>2, Stacks DEF TypeOK
  <2>4. \A i \in 1..(n + 1) : frames[i] \in Frame
    BY <1>1, <1>2, Stacks
  <2> QED
    BY <2>2, <2>3, <2>4
<1>4. \A i \in 1..(n + 1) : frames[i].block \in Block /\ frames[i].declared \in Nat
  BY <1>3 DEF Frame
<1>5. PICK c \in Block, a \in Block, k \in Nat, e \in 1..Len(environments) :
         /\ c = frames[n + 1].block /\ a = frames[n].block /\ k = frames[n].declared
         /\ e = frames[n].environment
  <2>1. frames[n].environment \in 1..Len(environments)
    BY <1>1, <1>3, Stacks DEF StackParts, FramesAreScoped
  <2> QED
    BY <1>3, <1>4, <2>1
<1>6. /\ ~functions[c].exists /\ Checks(n)
      /\ \A x \in DOMAIN FunctionBlocks[c] :
            functions[FunctionBlocks[c][x]].exists <=> x <= frames[n + 1].declared
      /\ k < Len(FunctionBlocks[a]) /\ c = FunctionBlocks[a][k + 1]
      /\ \A j \in 1..n : Checks(j) => frames[j].block # c
  <2>1. Checks(n + 1) /\ n + 1 > 1 /\ n + 1 - 1 = n
    BY <1>1, <1>3 DEF Checks
  <2>2. ChecksNest
    BY <1>1 DEF StackParts
  <2>3. /\ ~functions[c].exists
        /\ \A x \in DOMAIN FunctionBlocks[c] :
              functions[FunctionBlocks[c][x]].exists <=> x <= frames[n + 1].declared
        /\ \A j \in DOMAIN frames : Checks(j) /\ frames[j].block = c => n + 1 = j
    BY <1>3, <1>5, <2>1, <2>2 DEF ChecksNest
  <2>4. /\ Checks(n)
        /\ k < Len(FunctionBlocks[a])
        /\ c = FunctionBlocks[a][k + 1]
    BY <1>3, <1>5, <2>1, <2>2 DEF ChecksNest
  <2>5. \A j \in 1..n : j \in DOMAIN frames /\ j # n + 1
    BY <1>3
  <2> QED
    BY <2>3, <2>4, <2>5
<1>7. k + 1 \in 1..Len(FunctionBlocks[a]) /\ c \in ToSet(FunctionBlocks[a])
  BY <1>6, Blocks
<1>8. \A x \in ToSet(FunctionBlocks[c]) : functions[x].exists
  <2>1. frames[n + 1].declared = Len(FunctionBlocks[c])
    BY <1>1, <1>3, <1>5, Blocks, TopScoped DEF Declares
  <2>2. Len(FunctionBlocks[c]) \in Nat
    BY Blocks
  <2>3. \A x \in 1..Len(FunctionBlocks[c]) : functions[FunctionBlocks[c][x]].exists
    BY <1>6, <2>1, <2>2, Blocks
  <2>4. ASSUME NEW d \in ToSet(FunctionBlocks[c]) PROVE functions[d].exists
    <3>1. PICK x \in 1..Len(FunctionBlocks[c]) : d = FunctionBlocks[c][x]
      BY Blocks
    <3> QED
      BY <2>3, <3>1
  <2> QED
    BY <2>4
<1>9. PICK N \in Nat : N = Len(environments) /\ functions \in [Block -> FunctionRecord(N)]
  BY <1>1, Stacks, TypesSplit DEF FunctionsTyped, FunctionRecord
<1>10. /\ functions' \in [Block -> FunctionRecord(N)]
       /\ functions'[c] = NewFunction(e)
       /\ \A b \in Block : b # c => functions'[b] = functions[b]
  <2>1. functions' = [functions EXCEPT ![c] = NewFunction(e)] /\ e \in 0..N
    BY <1>1, <1>3, <1>5, <1>9
  <2>2. NewFunction(e) \in FunctionRecord(N)
    BY <2>1 DEF NewFunction, FunctionRecord
  <2> QED
    BY <1>9, <2>1, <2>2
<1>11. ~functions[c].native
  BY <1>1, <1>6 DEF CodeParts, CodeIsUsed
<1>12. /\ functions'[c].exists /\ ~functions'[c].native /\ functions'[c].parent = e
       /\ \A b \in Block : b # c => /\ functions'[b].exists = functions[b].exists
                                    /\ functions'[b].native = functions[b].native
                                    /\ functions'[b].parent = functions[b].parent
       /\ \A b \in Block : functions[b].exists => functions'[b].exists
  BY <1>10 DEF NewFunction
<1>13. /\ frames' \in Seq(Frame) /\ Len(frames') = n /\ DOMAIN frames' = 1..n
       /\ SameFrames(n)
       /\ \A i \in 1..n : frames'[i].declared = IF i = n THEN frames[i].declared + 1
                                                         ELSE frames[i].declared
  <2>1. /\ frames' \in Seq(Frame) /\ Len(frames') = n /\ DOMAIN frames' = 1..n
        /\ \A i \in 1..n : /\ frames'[i].block = Below[i].block
                           /\ frames'[i].mode = Below[i].mode
                           /\ frames'[i].environment = Below[i].environment
                           /\ frames'[i].lastBlock = Below[i].lastBlock
                           /\ frames'[i].declared =
                                 IF i = n THEN Below[i].declared + 1 ELSE Below[i].declared
    <3>1. n = Len(Below) /\ n # 0
      BY <1>3
    <3> QED
      BY <1>1, <1>3, <3>1, DeclaredEffect
  <2> QED
    BY <1>3, <2>1 DEF SameFrames
<1>14. /\ BoundExists' /\ ParentsDeclare' /\ ScopesAreLexical'
       /\ environments' \in Seq(EnvironmentRecord)
       /\ \A i \in DOMAIN environments' :
             /\ environments'[i].parent \in 0..(i - 1)
             /\ environments'[i].bound \subseteq ToSet(FunctionBlocks[environments'[i].block])
  <2>1. environments[e].block = a
    BY <1>1, <1>3, <1>5 DEF StackParts, FramesAreScoped
  <2>2. Bind(e, c) /\ c \in ToSet(FunctionBlocks[environments[e].block])
    BY <1>1, <1>3, <1>5, <1>7, <2>1
  <2>3. \A b \in Block :
           /\ functions[b].exists => functions'[b].exists
           /\ functions'[b].parent = IF b = c THEN e ELSE functions[b].parent
    BY <1>12
  <2> QED
    BY <1>1, <1>12, <2>2, <2>3, BindScopes DEF StackParts
<1>15. /\ DOMAIN environments' = 1..N /\ DOMAIN environments = 1..N
       /\ Len(environments') = N
       /\ \A i \in 1..N : environments'[i].block = environments[i].block
  BY <1>1, <1>3, <1>5, <1>9, BindEffect, Stacks
<1>16. BlocksNest'
  BY <1>1, <1>2, <1>13, PoppedBlocks DEF StackParts
<1>17. \A b \in Block : \A x \in ToSet(FunctionBlocks[b]) :
          functions[x].exists => functions'[x].exists
  BY <1>12, Blocks
<1>18. ASSUME NEW i \in 1..n
       PROVE  /\ frames'[i].environment \in DOMAIN environments'
              /\ environments'[frames'[i].environment].block = frames'[i].block
              /\ frames'[i].declared <= Len(FunctionBlocks[frames'[i].block])
              /\ frames'[i].mode # "check" =>
                    \A x \in ToSet(FunctionBlocks[frames'[i].block]) : functions'[x].exists
  <2>1. /\ frames[i].environment \in 1..N
        /\ environments[frames[i].environment].block = frames[i].block
        /\ frames[i].declared <= Len(FunctionBlocks[frames[i].block])
        /\ frames[i].mode # "check" =>
              \A x \in ToSet(FunctionBlocks[frames[i].block]) : functions[x].exists
    BY <1>1, <1>3, <1>15 DEF StackParts, FramesAreScoped, AllDeclared
  <2>2. frames'[i].declared <= Len(FunctionBlocks[frames[i].block])
    <3>1. CASE i = n
      BY <1>5, <1>7, <1>13, <3>1
    <3>2. CASE i # n
      BY <1>13, <2>1, <3>2
    <3> QED
      BY <3>1, <3>2
  <2>3. /\ frames'[i].block = frames[i].block /\ frames'[i].mode = frames[i].mode
        /\ frames'[i].environment = frames[i].environment
    BY <1>13 DEF SameFrames
  <2>4. frames[i].block \in Block
    BY <1>4
  <2> QED
    BY <1>15, <1>17, <2>1, <2>2, <2>3, <2>4
<1>19. FramesAreScoped'
  BY <1>13, <1>18 DEF FramesAreScoped, AllDeclared
<1>20. \A i \in 1..n : frames'[i].mode = frames[i].mode /\ frames'[i].block = frames[i].block
  BY <1>13 DEF SameFrames
<1>21. ASSUME NEW i \in 1..n, frames'[i].mode = "check"
       PROVE  /\ ~functions'[frames'[i].block].exists
              /\ \A x \in DOMAIN FunctionBlocks[frames'[i].block] :
                    functions'[FunctionBlocks[frames'[i].block][x]].exists
                       <=> x <= frames'[i].declared
              /\ i = 1 => frames'[i].block = Main
              /\ i > 1 =>
                    /\ frames'[i - 1].mode = "check"
                    /\ frames'[i - 1].declared < Len(FunctionBlocks[frames'[i - 1].block])
                    /\ frames'[i].block =
                          FunctionBlocks[frames'[i - 1].block][frames'[i - 1].declared + 1]
              /\ \A j \in 1..n :
                    frames'[j].mode = "check" /\ frames'[j].block = frames'[i].block
                       => i = j
  <2>1. frames[i].mode = "check" /\ frames'[i].block = frames[i].block
    BY <1>20, <1>21
  <2>2. i > 1 => i - 1 \in 1..n /\ i - 1 # n
    OBVIOUS
  <2>3. PICK b \in Block : b = frames[i].block
    BY <1>3, <1>4
  <2>4. /\ ~functions[b].exists
        /\ \A x \in DOMAIN FunctionBlocks[b] :
              functions[FunctionBlocks[b][x]].exists <=> x <= frames[i].declared
        /\ i = 1 => b = Main
        /\ i > 1 =>
              /\ frames[i - 1].mode = "check"
              /\ frames[i - 1].declared < Len(FunctionBlocks[frames[i - 1].block])
              /\ b = FunctionBlocks[frames[i - 1].block][frames[i - 1].declared + 1]
        /\ \A j \in 1..n : frames[j].mode = "check" /\ frames[j].block = b => i = j
    <3>1. ChecksNest /\ i \in DOMAIN frames /\ Checks(i)
      BY <1>1, <1>3, <2>1 DEF StackParts, Checks
    <3> QED
      BY <1>3, <2>3, <3>1 DEF ChecksNest, Checks
  <2>5. i > 1 => /\ frames'[i - 1].mode = frames[i - 1].mode
                 /\ frames'[i - 1].block = frames[i - 1].block
                 /\ frames'[i - 1].declared = frames[i - 1].declared
    BY <1>13, <1>20, <2>2
  <2>6. b # c
    BY <1>6, <2>1, <2>3 DEF Checks
  <2>7. ASSUME NEW x \in DOMAIN FunctionBlocks[b]
        PROVE  functions'[FunctionBlocks[b][x]].exists <=> x <= frames'[i].declared
    <3>1. PICK d \in Block : d = FunctionBlocks[b][x]
      BY <2>7, Blocks
    <3>2. x \in 1..Len(FunctionBlocks[b])
      BY <2>7, Blocks
    <3>3. CASE d = c
      <4>1. b = a /\ x = k + 1
        <5>1. PICK y \in 1..Len(FunctionBlocks[a]) : y = k + 1
          BY <1>7
        <5>2. FunctionBlocks[b][x] = FunctionBlocks[a][y]
          BY <1>6, <3>1, <3>3, <5>1
        <5> QED
          BY <3>2, <5>1, <5>2, DeclaredOnce
      <4>2. i = n
        BY <1>3, <1>5, <1>6, <2>4, <4>1 DEF Checks
      <4> QED
        BY <1>5, <1>12, <1>13, <3>1, <3>3, <4>1, <4>2
    <3>4. CASE d # c
      <4>1. functions'[d].exists = functions[d].exists
        BY <1>12, <3>4
      <4>2. CASE i = n
        <5>1. b = a /\ frames'[i].declared = k + 1 /\ frames[i].declared = k
          BY <1>5, <1>13, <2>3, <4>2
        <5>2. x # k + 1
          BY <1>6, <3>1, <3>4, <5>1
        <5> QED
          BY <2>4, <3>1, <3>2, <4>1, <5>1, <5>2
      <4>3. CASE i # n
        BY <1>13, <2>4, <3>1, <4>1, <4>3
      <4> QED
        BY <4>2, <4>3
    <3> QED
      BY <3>3, <3>4
  <2> QED
    BY <1>12, <1>20, <2>1, <2>3, <2>4, <2>5, <2>6, <2>7
<1>22. ChecksNest'
  BY <1>13, <1>21 DEF ChecksNest, Checks
<1>23. DeclaredInside'
  <2>1. ASSUME NEW b \in Block, functions'[b].exists, NEW x \in ToSet(FunctionBlocks[b])
        PROVE  functions'[x].exists
    <3>1. CASE b = c
      BY <1>8, <1>17, <2>1, <3>1
    <3>2. CASE b # c
      <4>1. functions[b].exists
        BY <1>12, <2>1, <3>2
      <4>2. functions[x].exists
        BY <1>1, <2>1, <4>1 DEF StackParts, DeclaredInside, AllDeclared
      <4> QED
        BY <1>17, <2>1, <4>2
    <3> QED
      BY <3>1, <3>2
  <2>2. ASSUME NEW b \in Block, ~functions'[b].exists, b # Main,
               \A i \in 1..n : frames'[i].mode = "check" => frames'[i].block # b,
               NEW x \in ToSet(FunctionBlocks[b])
        PROVE  ~functions'[x].exists
    <3>1. b # c /\ ~functions[b].exists
      BY <1>12, <2>2
    <3>2. \A i \in 1..(n + 1) : frames[i].mode = "check" => frames[i].block # b
      <4>1. \A i \in 1..(n + 1) : i \in 1..n \/ i = n + 1
        OBVIOUS
      <4> QED
        BY <1>5, <1>20, <2>2, <3>1, <4>1
    <3>3. ~functions[x].exists
      BY <1>1, <1>3, <2>2, <3>1, <3>2 DEF StackParts, DeclaredInside, Checks
    <3>4. x # c
      <4> SUFFICES ASSUME x = c PROVE FALSE
        OBVIOUS
      <4>1. PICK y \in 1..Len(FunctionBlocks[b]) : c = FunctionBlocks[b][y]
        BY <2>2, Blocks
      <4>2. b = a
        BY <1>6, <1>7, <4>1, DeclaredOnce
      <4> QED
        BY <1>3, <1>5, <1>6, <3>2, <4>2 DEF Checks
    <3>5. x \in Block
      BY <2>2, Blocks
    <3> QED
      BY <1>12, <3>3, <3>4, <3>5
  <2> QED
    BY <1>13, <2>1, <2>2 DEF DeclaredInside, Checks, AllDeclared
<1>24. PhasesInOrder'
  BY <1>1 DEF PhasesInOrder
<1>25. TypeOK'
  <2>1. StacksTyped'
    <3>1. n <= MaxFrames
      BY <1>3, TieringAssumption
    <3> QED
      BY <1>13, <1>14, <3>1 DEF StacksTyped
  <2>2. FunctionsTyped'
    BY <1>10, <1>15 DEF FunctionsTyped, FunctionRecord
  <2>3. currentBlock' \in Block \union {NoBlock}
    <3>1. frames[n + 1].lastBlock \in Block \union {NoBlock}
      BY <1>3 DEF Frame
    <3> QED
      BY <1>1, <1>3, <3>1 DEF RestoredBlock
  <2> QED
    BY <1>1, <2>1, <2>2, <2>3 DEF TypeOK, StacksTyped, FunctionsTyped, EnvironmentRecord
<1>26. CodeParts'
  <2>1. \A b \in Block : functions'[b].native = functions[b].native
    <3>1. functions'[c].native = functions[c].native
      <4>1. functions[c].native \in BOOLEAN /\ functions'[c].native \in BOOLEAN
        BY <1>1, <1>10, Stacks DEF NewFunction
      <4> QED
        BY <1>11, <1>12, <4>1
    <3> QED
      BY <1>12, <3>1
  <2> QED
    BY <1>1, <1>12, <2>1, SameCode
<1> QED
  BY <1>14, <1>16, <1>19, <1>22, <1>23, <1>24, <1>25, <1>26 DEF TieringInv, CodeParts

-----------------------------------------------------------------------------
(* What holds of every program *)

LEMMA InitInv == ASSUME Init PROVE TieringInv
<1>1. frames = <<>> /\ DOMAIN frames = 1..0 /\ Len(frames) = 0
      /\ environments = <<>> /\ DOMAIN environments = 1..0 /\ Len(environments) = 0
      /\ currentBlock = NoBlock /\ phase = "start"
      /\ \A b \in Block : functions[b] = NoFunction /\ hits[b] = 0 /\ code[b] = <<>>
  BY DEF Init
<1>2. TypeOK
  <2>1. NoFunction \in [parent : 0..Len(environments), native : BOOLEAN, exists : BOOLEAN]
    BY <1>1 DEF NoFunction
  <2>2. functions \in [Block -> [parent : 0..Len(environments), native : BOOLEAN,
                                 exists : BOOLEAN]]
    BY <2>1 DEF Init
  <2>3. hits \in [Block -> 0..(Threshold + 1)] /\ Len(frames) <= MaxFrames
    BY <1>1, TieringAssumption DEF Init
  <2>4. code \in [Block -> Seq(SUBSET Block)]
    BY DEF Init
  <2>5. frames \in Seq(Frame)
        /\ environments \in Seq([parent : Environment, block : Block, bound : SUBSET Block])
    BY <1>1
  <2> QED
    BY <1>1, <2>2, <2>3, <2>4, <2>5 DEF Init, NoReport, TypeOK
<1>3. \A b \in Block : /\ ~functions[b].exists /\ ~functions[b].native
                       /\ functions[b].parent = 0
  BY <1>1 DEF NoFunction
<1>4. BlocksNest
  BY <1>1 DEF BlocksNest, IsInnermost
<1>5. PhasesInOrder /\ FramesAreScoped /\ ChecksNest
  BY <1>1, <1>3 DEF PhasesInOrder, FramesAreScoped, ChecksNest
<1>6. DeclaredInside
  BY <1>3, Blocks DEF DeclaredInside
<1>7. BoundExists /\ ParentsDeclare /\ ScopesAreLexical
  BY <1>1, <1>3 DEF BoundExists, ParentsDeclare, ScopesAreLexical
<1>8. CodeIsUsed /\ CodeHasItsFunctions
  BY <1>1, <1>3 DEF CodeIsUsed, CodeHasItsFunctions
<1>9. CompiledAtThreshold
  <2>1. Threshold \in Nat /\ Len(<<>>) = 0
    BY TieringAssumption
  <2> QED
    BY <1>1, <1>3, <2>1 DEF CompiledAtThreshold
<1> QED
  BY <1>2, <1>4, <1>5, <1>6, <1>7, <1>8, <1>9 DEF TieringInv

\* The two tiers agree on all that they share: every state that the program, its
\* checks and its calls in either tier can reach satisfies the invariant.
THEOREM TieringInvHolds == Spec => []TieringInv
<1>1. Init => TieringInv
  BY InitInv
<1>2. TieringInv /\ [Next]_vars => TieringInv'
  <2> SUFFICES ASSUME TieringInv, [Next]_vars PROVE TieringInv'
    OBVIOUS
  <2>1. CASE StartCheck
    BY <2>1, StartCheckInv
  <2>2. CASE StartRun
    BY <2>2, StartRunInv
  <2>3. CASE CheckFunction
    BY <2>3, CheckFunctionInv
  <2>4. CASE FinishCheck
    BY <2>4, FinishMainInv, FinishFunctionInv
  <2>5. CASE Evaluate
    BY <2>5, EvaluateInv
  <2>6. CASE Declare
    BY <2>6, DeclareInv
  <2>7. ASSUME NEW b \in Block, CallNative(b) PROVE TieringInv'
    BY <2>7, CallNativeInv
  <2>8. ASSUME NEW b \in Block, CallInterpreted(b) PROVE TieringInv'
    BY <2>8, CallInterpretedInv
  <2>9. ASSUME NEW b \in Block, CallCompiles(b) PROVE TieringInv'
    BY <2>9, CallCompilesInv
  <2>10. CASE Return
    BY <2>10, ReturnInv
  <2>11. CASE Fail
    BY <2>11, FailInv
  <2>12. CASE UNCHANGED vars
    BY <2>12, StutterInv
  <2> QED
    BY <2>1, <2>2, <2>3, <2>4, <2>5, <2>6, <2>7, <2>8, <2>9, <2>10, <2>11, <2>12 DEF Next
<1> QED
  BY <1>1, <1>2, PTL DEF Spec

\* vm.currentBlock is the block of the innermost interpreter, however many
\* activations of either tier have come and gone.
THEOREM CurrentBlockIsRight == Spec => []BlockIsCurrent
<1>1. TieringInv => BlockIsCurrent
  <2> SUFFICES ASSUME TieringInv PROVE BlockIsCurrent
    OBVIOUS
  <2> DEFINE I == {i \in DOMAIN frames : frames[i].mode # "jit"}
  <2>1. PICK n \in Nat : n = Len(frames) /\ DOMAIN frames = 1..n
    BY Stacks DEF TieringInv
  <2>2. IsInnermost(currentBlock, n)
    BY <2>1 DEF TieringInv, BlocksNest
  <2>3. CASE I = {}
    <3>1. \A j \in 1..n : frames[j].mode = "jit"
      BY <2>1, <2>3
    <3> QED
      BY <2>2, <2>3, <3>1 DEF BlockIsCurrent, IsInnermost
  <2>4. CASE I # {}
    <3>1. I \in SUBSET (1..n) /\ \A i \in 1..n : i \in I <=> frames[i].mode # "jit"
      BY <2>1
    <3>2. PICK m \in I : m = Max(I) /\ \A y \in I : y <= m
      BY <2>4, <3>1, GreatestOf
    <3>3. m \in 1..n /\ frames[m].mode # "jit"
      BY <3>1, <3>2
    <3>4. ASSUME NEW j \in (m + 1)..n PROVE frames[j].mode = "jit"
      <4>1. j \in 1..n /\ ~(j <= m)
        BY <3>3
      <4> QED
        BY <3>1, <3>2, <4>1
    <3>5. currentBlock = frames[m].block
      BY <2>2, <3>3, <3>4 DEF IsInnermost
    <3> QED
      BY <2>4, <3>2, <3>5 DEF BlockIsCurrent
  <2> QED
    BY <2>3, <2>4
<1> QED
  BY <1>1, TieringInvHolds, PTL

\* A block is compiled once, by the call that makes it hot; all variables keep their types.
THEOREM BlocksAreCompiledOnce == Spec => []CompiledOnce
<1>1. TieringInv => CompiledOnce
  BY DEF TieringInv, CompiledOnce
<1> QED
  BY <1>1, TieringInvHolds, PTL

\* Native code never keeps a null Function: what a block declares exists before
\* the block can be compiled, even by a call in the middle of checking.
THEOREM CodeKeepsNoNull == Spec => []CodeHasItsFunctions
<1>1. TieringInv => CodeHasItsFunctions
  BY DEF TieringInv
<1> QED
  BY <1>1, TieringInvHolds, PTL

\* An activation's scope is an activation of the block that declares its function.
THEOREM ScopeIsLexical == Spec => []ScopesAreLexical
<1>1. TieringInv => ScopesAreLexical
  BY DEF TieringInv
<1> QED
  BY <1>1, TieringInvHolds, PTL

\* Every variable keeps to its type.
THEOREM TieringTypeCorrect == Spec => []TypeOK
<1>1. TieringInv => TypeOK
  BY DEF TieringInv
<1> QED
  BY <1>1, TieringInvHolds, PTL
=============================================================================
