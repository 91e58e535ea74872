---------------------------- MODULE TypingProofs ----------------------------
(***************************************************************************)
(* Proofs about the code the compiler emits, for any syntax trees: control *)
(* stays within each half of a block, and on every path through it scopes  *)
(* are closed in the order they were opened.  With them the theorems about *)
(* scopes are about any compiled programs.                                 *)
(***************************************************************************)
EXTENDS InterpreterScopeProofs, Typing, SequenceTheorems

-----------------------------------------------------------------------------
(* Pieces of code, and the scopes that are open in them                    *)

Others == {"compute", "getLocal", "typeError", "runtimeError", "jump", "branch", "newFunction", "call"}
Emitted == Others \cup Checking

AnyInstruction ==
    [op : {"compute", "getLocal", "constrain", "typeError", "runtimeError",
           "pushScope", "popScope", "pushUnification", "popUnification"}]
    \cup [op : {"resolve", "infer"}, dst : {1}]
    \cup [op : {"jump", "branch"}, by : Nat]
    \cup {i \in UNION {{NewFunction(n)[1], CallFunction(n)[1]} : n \in Nodes} :
             i.op \in {"newFunction", "call"}}

Change(op, push, pop) == IF op = push THEN 1 ELSE IF op = pop THEN -1 ELSE 0

\* What control does after an instruction, with s scopes and u unification scopes
\* open before each: it stays in the piece or comes to its end, or else goes as
\* far beyond as the number exit says, with none open.
Flows(code, exit, s, u, pc) ==
    /\ code[pc].op \notin {"end", "runtimeError", "jump"} =>
          /\ s[pc + 1] = s[pc] + Change(code[pc].op, "pushScope", "popScope")
          /\ u[pc + 1] = u[pc] + Change(code[pc].op, "pushUnification", "popUnification")
    /\ code[pc].op \in {"jump", "branch"} =>
          /\ code[pc].by \in Nat
          /\ \/ /\ pc + code[pc].by <= Len(code) + 1
                /\ s[pc + code[pc].by] = s[pc] /\ u[pc + code[pc].by] = u[pc]
             \/ pc + code[pc].by = Len(code) + 1 + exit /\ s[pc] = 0 /\ u[pc] = 0

Levels(code, exit, s, u) ==
    /\ s \in [1 .. Len(code) + 1 -> Nat] /\ u \in [1 .. Len(code) + 1 -> Nat]
    /\ s[1] = 0 /\ u[1] = 0 /\ s[Len(code) + 1] = 0 /\ u[Len(code) + 1] = 0
    /\ \A pc \in 1 .. Len(code) : Flows(code, exit, s, u, pc)

\* A piece of code that leaves as many scopes open as it found.
Balanced(code, exit, ops) ==
    /\ code \in Seq(AnyInstruction)
    /\ \A pc \in 1 .. Len(code) : code[pc].op \in ops
    /\ \E s, u : Levels(code, exit, s, u)
Codes(ops) == {code \in Seq(AnyInstruction) : Balanced(code, 0, ops)}

LEMMA BalancedAnywhere ==
    ASSUME NEW ops, NEW exit \in Nat, NEW code, Balanced(code, 0, ops)
    PROVE  Balanced(code, exit, ops)
<1>1. PICK s, u : Levels(code, 0, s, u)
  BY DEF Balanced
<1>2. code \in Seq(AnyInstruction) /\ Len(code) \in Nat
  BY DEF Balanced
<1>3. ASSUME NEW pc \in 1 .. Len(code) PROVE Flows(code, exit, s, u, pc)
  <2>1. Flows(code, 0, s, u, pc) /\ s[Len(code) + 1] = 0 /\ u[Len(code) + 1] = 0
    BY <1>1 DEF Levels
  <2> QED
    BY <1>2, <2>1 DEF Flows
<1>4. Levels(code, exit, s, u)
  BY <1>1, <1>3 DEF Levels
<1> QED
  BY <1>4 DEF Balanced

\* One piece after another.  The first may lead to the end of the second, or to
\* where the second may lead.
LEMMA Joined ==
    ASSUME NEW ops, NEW exit \in Nat, NEW beyond \in Nat, NEW a, NEW b,
           Balanced(a, beyond, ops), Balanced(b, exit, ops),
           beyond \in {0, Len(b), Len(b) + exit}
    PROVE  Balanced(a \o b, exit, ops)
<1>1. PICK s1, u1 : Levels(a, beyond, s1, u1)
  BY DEF Balanced
<1>2. PICK s2, u2 : Levels(b, exit, s2, u2)
  BY DEF Balanced
<1>3. a \in Seq(AnyInstruction) /\ b \in Seq(AnyInstruction)
  BY DEF Balanced
<1> DEFINE m == Len(a)
           n == Len(b)
           c == a \o b
<1>4. m \in Nat /\ n \in Nat
  BY <1>3
<1>5. /\ c \in Seq(AnyInstruction) /\ Len(c) = m + n
      /\ \A i \in 1 .. m + n : c[i] = IF i <= m THEN a[i] ELSE b[i - m]
  BY <1>3, ConcatProperties
<1> DEFINE s == [pc \in 1 .. m + n + 1 |-> IF pc <= m THEN s1[pc] ELSE s2[pc - m]]
           u == [pc \in 1 .. m + n + 1 |-> IF pc <= m THEN u1[pc] ELSE u2[pc - m]]
<1>6. /\ \A pc \in 1 .. m + 1 : s[pc] = s1[pc] /\ u[pc] = u1[pc]
      /\ \A pc \in 1 .. n + 1 : s[m + pc] = s2[pc] /\ u[m + pc] = u2[pc]
  <2>1. s1[m + 1] = 0 /\ u1[m + 1] = 0 /\ s2[1] = 0 /\ u2[1] = 0
    BY <1>1, <1>2 DEF Levels
  <2> QED
    BY <1>4, <2>1
<1>7. s \in [1 .. m + n + 1 -> Nat] /\ u \in [1 .. m + n + 1 -> Nat]
  <2>1. /\ \A pc \in 1 .. m + 1 : s1[pc] \in Nat /\ u1[pc] \in Nat
        /\ \A pc \in 1 .. n + 1 : s2[pc] \in Nat /\ u2[pc] \in Nat
    BY <1>1, <1>2 DEF Levels
  <2>2. \A pc \in 1 .. m + n + 1 : ~ (pc <= m) => pc - m \in 1 .. n + 1
    BY <1>4
  <2>3. \A pc \in 1 .. m + n + 1 : s[pc] \in Nat /\ u[pc] \in Nat
    BY <1>4, <2>1, <2>2
  <2> QED
    BY <2>3
<1> HIDE DEF m, n, c, s, u
<1>8. ASSUME NEW pc \in 1 .. m PROVE Flows(c, exit, s, u, pc)
  <2>1. Flows(a, beyond, s1, u1, pc)
    BY <1>1 DEF Levels, m
  <2>2. c[pc] = a[pc]
    BY <1>4, <1>5
  <2>3. pc \in 1 .. m + 1 /\ pc + 1 \in 1 .. m + 1
    BY <1>4
  <2>4. s[pc] = s1[pc] /\ u[pc] = u1[pc] /\ s[pc + 1] = s1[pc + 1] /\ u[pc + 1] = u1[pc + 1]
    BY <1>6, <2>3
  <2>5. ASSUME c[pc].op \in {"jump", "branch"}
        PROVE  /\ c[pc].by \in Nat
               /\ \/ /\ pc + c[pc].by <= Len(c) + 1
                     /\ s[pc + c[pc].by] = s[pc] /\ u[pc + c[pc].by] = u[pc]
                  \/ pc + c[pc].by = Len(c) + 1 + exit /\ s[pc] = 0 /\ u[pc] = 0
    <3>1. PICK by \in Nat : by = a[pc].by
      BY <2>1, <2>2, <2>5 DEF Flows
    <3>2. CASE pc + by <= m + 1 /\ s1[pc + by] = s1[pc] /\ u1[pc + by] = u1[pc]
      <4>1. pc + by \in 1 .. m + 1 /\ pc + by <= m + n + 1
        BY <1>4, <3>2
      <4>2. s[pc + by] = s1[pc + by] /\ u[pc + by] = u1[pc + by]
        BY <1>6, <4>1
      <4> QED
        BY <1>5, <2>2, <2>4, <3>1, <3>2, <4>1, <4>2
    <3>3. CASE pc + by = m + 1 + beyond /\ s1[pc] = 0 /\ u1[pc] = 0
      <4>1. s2[1] = 0 /\ u2[1] = 0 /\ s2[n + 1] = 0 /\ u2[n + 1] = 0
        BY <1>2 DEF Levels, n
      <4>2. 1 \in 1 .. n + 1 /\ n + 1 \in 1 .. n + 1
        BY <1>4
      <4>3. s[m + 1] = 0 /\ u[m + 1] = 0 /\ s[m + (n + 1)] = 0 /\ u[m + (n + 1)] = 0
        BY <1>6, <4>1, <4>2
      <4>4. pc + by \in {m + 1, m + (n + 1), m + n + 1 + exit}
        BY <1>4, <3>3 DEF n
      <4>5. m + 1 <= m + n + 1 /\ m + (n + 1) <= m + n + 1
        BY <1>4
      <4> QED
        BY <1>5, <2>2, <2>4, <3>1, <3>3, <4>3, <4>4, <4>5
    <3> QED
      BY <2>1, <2>2, <2>5, <3>1, <3>2, <3>3 DEF Flows, m
  <2>6. c[pc].op \notin {"end", "runtimeError", "jump"} =>
          /\ s[pc + 1] = s[pc] + Change(c[pc].op, "pushScope", "popScope")
          /\ u[pc + 1] = u[pc] + Change(c[pc].op, "pushUnification", "popUnification")
    BY <2>1, <2>2, <2>4 DEF Flows
  <2> QED
    BY <2>5, <2>6 DEF Flows
<1>9. ASSUME NEW k \in 1 .. n PROVE Flows(c, exit, s, u, m + k)
  <2>1. Flows(b, exit, s2, u2, k)
    BY <1>2 DEF Levels, n
  <2>2. c[m + k] = b[k]
    <3>1. PICK i \in 1 .. m + n : i = m + k /\ ~ (i <= m) /\ i - m = k
      BY <1>4
    <3>2. c[i] = b[i - m]
      BY <1>5, <3>1
    <3> QED
      BY <3>1, <3>2
  <2>3. k \in 1 .. n + 1 /\ k + 1 \in 1 .. n + 1 /\ m + k + 1 = m + (k + 1)
    BY <1>4
  <2>4. /\ s[m + k] = s2[k] /\ u[m + k] = u2[k]
        /\ s[m + k + 1] = s2[k + 1] /\ u[m + k + 1] = u2[k + 1]
    BY <1>6, <2>3
  <2>5. ASSUME c[m + k].op \in {"jump", "branch"}
        PROVE  /\ c[m + k].by \in Nat
               /\ \/ /\ m + k + c[m + k].by <= Len(c) + 1
                     /\ s[m + k + c[m + k].by] = s[m + k] /\ u[m + k + c[m + k].by] = u[m + k]
                  \/ m + k + c[m + k].by = Len(c) + 1 + exit /\ s[m + k] = 0 /\ u[m + k] = 0
    <3>1. PICK by \in Nat : by = b[k].by
      BY <2>1, <2>2, <2>5 DEF Flows
    <3>2. m + k + by = m + (k + by)
      BY <1>4
    <3>3. CASE k + by <= n + 1 /\ s2[k + by] = s2[k] /\ u2[k + by] = u2[k]
      <4>1. k + by \in 1 .. n + 1 /\ m + (k + by) <= m + n + 1
        BY <1>4, <3>3
      <4>2. s[m + (k + by)] = s2[k + by] /\ u[m + (k + by)] = u2[k + by]
        BY <1>6, <4>1
      <4> QED
        BY <1>5, <2>2, <2>4, <3>1, <3>2, <3>3, <4>1, <4>2
    <3>4. CASE k + by = n + 1 + exit /\ s2[k] = 0 /\ u2[k] = 0
      <4>1. m + (k + by) = m + n + 1 + exit
        BY <1>4, <3>4
      <4> QED
        BY <1>5, <2>2, <2>4, <3>1, <3>2, <3>4, <4>1
    <3> QED
      BY <2>1, <2>2, <2>5, <3>1, <3>3, <3>4 DEF Flows, n
  <2>6. c[m + k].op \notin {"end", "runtimeError", "jump"} =>
          /\ s[m + k + 1] = s[m + k] + Change(c[m + k].op, "pushScope", "popScope")
          /\ u[m + k + 1] = u[m + k] + Change(c[m + k].op, "pushUnification", "popUnification")
    BY <2>1, <2>2, <2>4 DEF Flows
  <2> QED
    BY <2>5, <2>6 DEF Flows
<1>10. \A pc \in 1 .. m + n : pc \in 1 .. m \/ \E k \in 1 .. n : pc = m + k
  <2> SUFFICES ASSUME NEW pc \in 1 .. m + n, ~ (pc \in 1 .. m) PROVE \E k \in 1 .. n : pc = m + k
    OBVIOUS
  <2>1. pc - m \in 1 .. n /\ pc = m + (pc - m)
    BY <1>4
  <2> QED
    BY <2>1
<1>11. Levels(c, exit, s, u)
  <2>1. s[1] = 0 /\ u[1] = 0 /\ s[m + n + 1] = 0 /\ u[m + n + 1] = 0
    <3>1. s1[1] = 0 /\ u1[1] = 0 /\ s2[n + 1] = 0 /\ u2[n + 1] = 0
      BY <1>1, <1>2 DEF Levels, n
    <3>2. 1 \in 1 .. m + 1 /\ n + 1 \in 1 .. n + 1 /\ m + (n + 1) = m + n + 1
      BY <1>4
    <3> QED
      BY <1>6, <3>1, <3>2
  <2>2. \A pc \in 1 .. m + n : Flows(c, exit, s, u, pc)
    BY <1>8, <1>9, <1>10
  <2> QED
    BY <1>5, <1>7, <2>1, <2>2 DEF Levels
<1>12. \A pc \in 1 .. Len(c) : c[pc].op \in ops
  <2>1. /\ \A pc \in 1 .. m : a[pc].op \in ops
        /\ \A pc \in 1 .. n : b[pc].op \in ops
    BY DEF Balanced, m, n
  <2>2. ASSUME NEW k \in 1 .. n PROVE c[m + k] = b[k]
    <3>1. PICK i \in 1 .. m + n : i = m + k /\ ~ (i <= m) /\ i - m = k
      BY <1>4
    <3>2. c[i] = b[i - m]
      BY <1>5, <3>1
    <3> QED
      BY <3>1, <3>2
  <2>3. \A k \in 1 .. m : c[k] = a[k]
    BY <1>4, <1>5
  <2> QED
    BY <1>5, <1>10, <2>1, <2>2, <2>3
<1> QED
  BY <1>5, <1>11, <1>12 DEF Balanced, c

\* A single instruction.
LEMMA Alone ==
    ASSUME NEW ops, NEW exit \in Nat, NEW i \in AnyInstruction, i.op \in ops,
           i.op \notin {"pushScope", "popScope", "pushUnification", "popUnification"},
           i.op \in {"jump", "branch"} => i.by \in {0, 1, 1 + exit}
    PROVE  Balanced(<<i>>, exit, ops)
<1> DEFINE s == [pc \in 1 .. 2 |-> 0]
           c == <<i>>
<1>1. c \in Seq(AnyInstruction) /\ Len(c) = 1 /\ c[1] = i
  OBVIOUS
<1> HIDE DEF c
<1>2. Flows(c, exit, s, s, 1)
  <2>1. s[1] = 0 /\ s[2] = 0 /\ 1 + 1 = 2 /\ 0 + 0 = 0
    OBVIOUS
  <2>2. i.op \in {"jump", "branch"} =>
           /\ i.by \in Nat
           /\ \/ 1 + i.by <= 2 /\ s[1 + i.by] = 0
              \/ 1 + i.by = 2 + exit
    OBVIOUS
  <2>3. Change(i.op, "pushScope", "popScope") = 0 /\ Change(i.op, "pushUnification", "popUnification") = 0
    BY DEF Change
  <2> HIDE DEF s
  <2> QED
    BY <1>1, <2>1, <2>2, <2>3 DEF Flows
<1>3. Levels(c, exit, s, s)
  BY <1>1, <1>2 DEF Levels
<1>4. \A pc \in 1 .. Len(c) : c[pc].op \in ops
  BY <1>1
<1> QED
  BY <1>1, <1>3, <1>4 DEF Balanced, c

\* A scope around a piece of code, and that all between is inside of it.
Closes(open, close) ==
    \/ open.op = "pushScope" /\ close.op = "popScope"
    \/ open.op = "pushUnification" /\ close.op = "popUnification"
Around(open, code, close) == <<open>> \o code \o <<close>>

LEMMA AroundIs ==
    ASSUME NEW T, NEW open \in T, NEW close \in T, NEW code \in Seq(T)
    PROVE  LET c == Around(open, code, close)
               n == Len(code)
           IN  /\ c \in Seq(T) /\ Len(c) = n + 2 /\ n \in Nat
               /\ c[1] = open /\ c[n + 2] = close
               /\ \A k \in 1 .. n : c[k + 1] = code[k]
<1> DEFINE a == <<open>>
           z == <<close>>
           b == a \o code
           n == Len(code)
<1>1. a \in Seq(T) /\ z \in Seq(T) /\ Len(a) = 1 /\ Len(z) = 1 /\ a[1] = open /\ z[1] = close /\ n \in Nat
  OBVIOUS
<1> HIDE DEF a, z
<1>2. /\ b \in Seq(T) /\ Len(b) = 1 + n
      /\ \A i \in 1 .. 1 + n : b[i] = IF i <= 1 THEN a[i] ELSE code[i - 1]
  <2>1. a \in Seq(T) /\ code \in Seq(T)
    BY <1>1
  <2>2. /\ a \o code \in Seq(T) /\ Len(a \o code) = Len(a) + Len(code)
        /\ \A i \in 1 .. Len(a) + Len(code) :
              (a \o code)[i] = IF i <= Len(a) THEN a[i] ELSE code[i - Len(a)]
    BY <2>1, ConcatProperties
  <2> QED
    BY <1>1, <2>2
<1> HIDE DEF b
<1>3. /\ b \o z \in Seq(T) /\ Len(b \o z) = 1 + n + 1
      /\ \A i \in 1 .. 1 + n + 1 : (b \o z)[i] = IF i <= 1 + n THEN b[i] ELSE z[i - (1 + n)]
  <2>1. b \in Seq(T) /\ z \in Seq(T)
    BY <1>1, <1>2
  <2>2. /\ b \o z \in Seq(T) /\ Len(b \o z) = Len(b) + Len(z)
        /\ \A i \in 1 .. Len(b) + Len(z) :
              (b \o z)[i] = IF i <= Len(b) THEN b[i] ELSE z[i - Len(b)]
    BY <2>1, ConcatProperties
  <2> QED
    BY <1>1, <1>2, <2>2
<1>4. Around(open, code, close) = b \o z
  BY DEF Around, a, b, z
<1>5. (b \o z)[1] = open
  <2>1. 1 \in 1 .. 1 + n + 1 /\ 1 \in 1 .. 1 + n /\ 1 <= 1 + n
    BY <1>1
  <2> QED
    BY <1>1, <1>2, <1>3, <2>1
<1>6. (b \o z)[n + 2] = close
  <2>1. PICK i \in 1 .. 1 + n + 1 : i = n + 2 /\ ~ (i <= 1 + n) /\ i - (1 + n) = 1
    BY <1>1
  <2> QED
    BY <1>1, <1>3, <2>1
<1>7. ASSUME NEW k \in 1 .. n PROVE (b \o z)[k + 1] = code[k]
  <2>1. PICK i \in 1 .. 1 + n + 1 : i = k + 1 /\ i <= 1 + n /\ i \in 1 .. 1 + n /\ ~ (i <= 1) /\ i - 1 = k
    BY <1>1
  <2> QED
    BY <1>2, <1>3, <2>1
<1>8. 1 + n + 1 = n + 2
  BY <1>1
<1> QED
  BY <1>1, <1>3, <1>4, <1>5, <1>6, <1>7, <1>8

LEMMA LevelsAround ==
    ASSUME NEW ops, NEW open \in AnyInstruction, NEW close \in AnyInstruction,
           open.op \in ops, close.op \in ops, Closes(open, close), NEW code \in Codes(ops)
    PROVE  LET c == Around(open, code, close) IN
           /\ c \in Codes(ops)
           /\ \E s, u : /\ Levels(c, 0, s, u)
                        /\ open.op = "pushUnification" => \A pc \in 2 .. Len(c) : u[pc] > 0
<1> DEFINE c == Around(open, code, close)
           n == Len(code)
           ds == IF open.op = "pushScope" THEN 1 ELSE 0
           du == IF open.op = "pushUnification" THEN 1 ELSE 0
<1>1. code \in Seq(AnyInstruction)
  BY DEF Codes
<1>2. /\ c \in Seq(AnyInstruction) /\ Len(c) = n + 2 /\ n \in Nat
      /\ c[1] = open /\ c[n + 2] = close
      /\ \A k \in 1 .. n : c[k + 1] = code[k]
  BY <1>1, AroundIs
<1>3. PICK s, u : Levels(code, 0, s, u)
  BY DEF Codes, Balanced
<1> DEFINE ss == [pc \in 1 .. n + 3 |-> IF pc = 1 \/ pc = n + 3 THEN 0 ELSE s[pc - 1] + ds]
           uu == [pc \in 1 .. n + 3 |-> IF pc = 1 \/ pc = n + 3 THEN 0 ELSE u[pc - 1] + du]
<1>4. /\ s \in [1 .. n + 1 -> Nat] /\ u \in [1 .. n + 1 -> Nat]
      /\ s[1] = 0 /\ u[1] = 0 /\ s[n + 1] = 0 /\ u[n + 1] = 0
      /\ \A pc \in 1 .. n : Flows(code, 0, s, u, pc)
  BY <1>3 DEF Levels
<1>5. ds \in {0, 1} /\ du \in {0, 1}
  OBVIOUS
<1>6. /\ ss[1] = 0 /\ uu[1] = 0 /\ ss[n + 3] = 0 /\ uu[n + 3] = 0
      /\ \A k \in 1 .. n + 1 : ss[k + 1] = s[k] + ds /\ uu[k + 1] = u[k] + du
  <2> HIDE DEF ds, du
  <2>1. ss[1] = 0 /\ uu[1] = 0 /\ ss[n + 3] = 0 /\ uu[n + 3] = 0
    BY <1>2
  <2>2. ASSUME NEW k \in 1 .. n + 1 PROVE ss[k + 1] = s[k] + ds /\ uu[k + 1] = u[k] + du
    <3>1. PICK i \in 1 .. n + 3 : i = k + 1 /\ i # 1 /\ i # n + 3 /\ i - 1 = k
      BY <1>2
    <3> QED
      BY <3>1
  <2> QED
    BY <2>1, <2>2
<1>7. ss \in [1 .. n + 3 -> Nat] /\ uu \in [1 .. n + 3 -> Nat]
  <2> HIDE DEF ds, du
  <2>1. ASSUME NEW pc \in 1 .. n + 3, pc # 1, pc # n + 3
        PROVE  s[pc - 1] + ds \in Nat /\ u[pc - 1] + du \in Nat
    <3>1. pc - 1 \in 1 .. n + 1
      BY <1>2, <2>1
    <3>2. s[pc - 1] \in Nat /\ u[pc - 1] \in Nat
      BY <1>4, <3>1
    <3> QED
      BY <1>5, <3>2
  <2> QED
    BY <2>1
<1> HIDE DEF c, n, ss, uu, ds, du
<1>8. Flows(c, 0, ss, uu, 1)
  <2>1. 1 \in 1 .. n + 1 /\ 1 + 1 = 2
    BY <1>2
  <2>2. ss[2] = s[1] + ds /\ uu[2] = u[1] + du
    BY <1>6, <2>1
  <2>3. Change(open.op, "pushScope", "popScope") = ds /\ Change(open.op, "pushUnification", "popUnification") = du
    BY DEF Closes, Change, ds, du
  <2>4. open.op \notin {"jump", "branch"}
    BY DEF Closes
  <2> QED
    BY <1>2, <1>4, <1>5, <1>6, <2>2, <2>3, <2>4 DEF Flows
<1>9. Flows(c, 0, ss, uu, n + 2)
  <2>1. PICK k \in 1 .. n + 1 : k = n + 1 /\ k + 1 = n + 2
    BY <1>2
  <2>2. ss[n + 2] = s[n + 1] + ds /\ uu[n + 2] = u[n + 1] + du
    BY <1>6, <2>1
  <2>3. /\ Change(close.op, "pushScope", "popScope") = - ds
        /\ Change(close.op, "pushUnification", "popUnification") = - du
    BY DEF Closes, Change, ds, du
  <2>4. close.op \notin {"jump", "branch"}
    BY DEF Closes
  <2>5. n + 2 + 1 = n + 3 /\ 0 + ds + (- ds) = 0 /\ 0 + du + (- du) = 0
    BY <1>2, <1>5
  <2>6. ss[n + 3] = ss[n + 2] + (- ds) /\ uu[n + 3] = uu[n + 2] + (- du)
    BY <1>4, <1>6, <2>2, <2>5
  <2> QED
    BY <1>2, <2>3, <2>4, <2>5, <2>6 DEF Flows
<1>10. ASSUME NEW k \in 1 .. n PROVE Flows(c, 0, ss, uu, k + 1)
  <2>1. Flows(code, 0, s, u, k)
    BY <1>4
  <2>2. c[k + 1] = code[k]
    BY <1>2
  <2>3. k \in 1 .. n + 1 /\ k + 1 \in 1 .. n + 1
    BY <1>2
  <2>4. /\ ss[k + 1] = s[k] + ds /\ uu[k + 1] = u[k] + du
        /\ ss[k + 1 + 1] = s[k + 1] + ds /\ uu[k + 1 + 1] = u[k + 1] + du
    BY <1>6, <2>3
  <2>5. s[k] \in Nat /\ u[k] \in Nat /\ s[k + 1] \in Nat /\ u[k + 1] \in Nat
    BY <1>4, <2>3
  <2>6. code[k].op \notin {"end", "runtimeError", "jump"} =>
          /\ ss[k + 1 + 1] = ss[k + 1] + Change(code[k].op, "pushScope", "popScope")
          /\ uu[k + 1 + 1] = uu[k + 1] + Change(code[k].op, "pushUnification", "popUnification")
    <3>1. /\ Change(code[k].op, "pushScope", "popScope") \in {0, 1, -1}
          /\ Change(code[k].op, "pushUnification", "popUnification") \in {0, 1, -1}
      BY DEF Change
    <3>2. PICK v \in {0, 1, -1}, w \in {0, 1, -1} :
             /\ v = Change(code[k].op, "pushScope", "popScope")
             /\ w = Change(code[k].op, "pushUnification", "popUnification")
      BY <3>1
    <3>3. code[k].op \notin {"end", "runtimeError", "jump"} =>
             s[k + 1] = s[k] + v /\ u[k + 1] = u[k] + w
      BY <2>1, <3>2 DEF Flows
    <3>4. s[k] + v + ds = s[k] + ds + v /\ u[k] + w + du = u[k] + du + w
      BY <1>5, <2>5
    <3> QED
      BY <2>4, <3>2, <3>3, <3>4
  <2>7. ASSUME code[k].op \in {"jump", "branch"}
        PROVE  /\ code[k].by \in Nat
               /\ k + 1 + code[k].by <= Len(c) + 1
               /\ ss[k + 1 + code[k].by] = ss[k + 1] /\ uu[k + 1 + code[k].by] = uu[k + 1]
    <3>1. PICK by \in Nat : by = code[k].by
      BY <2>1, <2>7 DEF Flows
    <3>2. k + by <= n + 1 /\ s[k + by] = s[k] /\ u[k + by] = u[k]
      <4>1. \/ k + by <= n + 1 /\ s[k + by] = s[k] /\ u[k + by] = u[k]
            \/ k + by = n + 1 + 0 /\ s[k] = 0 /\ u[k] = 0
        BY <2>1, <2>7, <3>1 DEF Flows, n
      <4>2. n + 1 + 0 = n + 1 /\ n + 1 <= n + 1
        BY <1>2
      <4> QED
        BY <1>4, <4>1, <4>2
    <3>3. PICK to \in 1 .. n + 1 : to = k + by
      BY <1>2, <3>2
    <3>4. k + 1 + by = to + 1 /\ to + 1 <= n + 2 + 1
      <4>1. k \in Nat /\ n \in Nat
        BY <1>2
      <4> QED
        BY <3>3, <4>1
    <3>5. ss[to + 1] = s[to] + ds /\ uu[to + 1] = u[to] + du
      BY <1>6
    <3>6. ss[k + 1 + by] = ss[k + 1] /\ uu[k + 1 + by] = uu[k + 1]
      BY <2>4, <3>2, <3>3, <3>4, <3>5
    <3> QED
      BY <1>2, <3>1, <3>4, <3>6
  <2> QED
    BY <2>2, <2>6, <2>7 DEF Flows
<1>11. \A pc \in 1 .. n + 2 : pc = 1 \/ pc = n + 2 \/ \E k \in 1 .. n : pc = k + 1
  <2> SUFFICES ASSUME NEW pc \in 1 .. n + 2, pc # 1, pc # n + 2 PROVE \E k \in 1 .. n : pc = k + 1
    OBVIOUS
  <2>1. pc - 1 \in 1 .. n /\ pc = pc - 1 + 1
    BY <1>2
  <2> QED
    BY <2>1
<1>12. Levels(c, 0, ss, uu)
  <2>1. \A pc \in 1 .. n + 2 : Flows(c, 0, ss, uu, pc)
    BY <1>8, <1>9, <1>10, <1>11
  <2>2. n + 2 + 1 = n + 3
    BY <1>2
  <2> QED
    BY <1>2, <1>6, <1>7, <2>1, <2>2 DEF Levels
<1>13. \A pc \in 1 .. Len(c) : c[pc].op \in ops
  <2> SUFFICES ASSUME NEW pc \in 1 .. n + 2 PROVE c[pc].op \in ops
    BY <1>2
  <2>1. \A k \in 1 .. n : code[k].op \in ops
    BY DEF Codes, Balanced, n
  <2>2. CASE pc = 1 \/ pc = n + 2
    BY <1>2, <2>2
  <2>3. ASSUME NEW k \in 1 .. n, pc = k + 1 PROVE c[pc].op \in ops
    <3>1. c[k + 1] = code[k]
      BY <1>2
    <3> QED
      BY <2>1, <2>3, <3>1
  <2> QED
    BY <1>11, <2>2, <2>3
<1>14. open.op = "pushUnification" => \A pc \in 2 .. Len(c) : uu[pc] > 0
  <2> SUFFICES ASSUME open.op = "pushUnification", NEW pc \in 2 .. n + 2 PROVE uu[pc] > 0
    BY <1>2
  <2>1. PICK k \in 1 .. n + 1 : pc = k + 1
    <3>1. pc - 1 \in 1 .. n + 1 /\ pc = pc - 1 + 1
      BY <1>2
    <3> QED
      BY <3>1
  <2>2. uu[pc] = u[k] + du /\ u[k] \in Nat
    BY <1>4, <1>6, <2>1
  <2> QED
    BY <2>2 DEF du
<1>15. c \in Codes(ops)
  BY <1>2, <1>12, <1>13 DEF Codes, Balanced
<1> QED
  BY <1>12, <1>14, <1>15 DEF c

-----------------------------------------------------------------------------
(* The compiler's pieces                                                   *)

LEMMA NoCode ==
    ASSUME NEW ops
    PROVE  <<>> \in Codes(ops)
<1> DEFINE s == [pc \in 1 .. 1 |-> 0]
           c == << >>
<1>1. c \in Seq(AnyInstruction) /\ Len(c) = 0
  OBVIOUS
<1> HIDE DEF c
<1>2. Levels(c, 0, s, s)
  BY <1>1 DEF Levels
<1>3. c \in Codes(ops)
  BY <1>1, <1>2 DEF Codes, Balanced
<1> QED
  BY <1>3 DEF c

LEMMA BalancedCode ==
    ASSUME NEW ops, NEW code
    PROVE  code \in Codes(ops) <=> Balanced(code, 0, ops)
  BY DEF Codes, Balanced

LEMMA CodesJoined ==
    ASSUME NEW ops, NEW a \in Codes(ops), NEW b \in Codes(ops)
    PROVE  a \o b \in Codes(ops)
<1>1. PICK exit \in Nat, beyond \in Nat : exit = 0 /\ beyond = 0
  OBVIOUS
<1>2. Balanced(a, beyond, ops) /\ Balanced(b, exit, ops)
  BY <1>1, BalancedCode
<1>3. beyond \in {0, Len(b), Len(b) + exit}
  BY <1>1
<1>4. Balanced(a \o b, exit, ops)
  BY <1>2, <1>3, Joined
<1> QED
  BY <1>1, <1>4, BalancedCode

LEMMA LengthOf ==
    ASSUME NEW ops, NEW code, NEW exit, Balanced(code, exit, ops)
    PROVE  Len(code) \in Nat
  BY DEF Balanced

LEMMA EachIsCode ==
    ASSUME NEW ops, NEW codes \in Seq(Codes(ops))
    PROVE  FlattenSeq(codes) \in Codes(ops)
<1> DEFINE n == Len(codes)
<1>1. n \in Nat /\ \A i \in 1 .. n : codes[i] \in Codes(ops)
  OBVIOUS
<1>2. CASE n = 0
  <2>1. codes = <<>>
    BY <1>2
  <2>2. FlattenSeq(codes) = codes
    BY <1>2, Zenon DEF FlattenSeq
  <2> QED
    BY <2>1, <2>2, NoCode
<1>3. CASE n # 0
  <2> HIDE DEF n
  <2>1. PICK f : f = [i \in 1 .. n |-> FlattenStep(f, codes, i)] /\ FlattenSeq(codes) = f[n]
    <3>1. n > 0 /\ Len(codes) = n
      BY <1>1, <1>3 DEF n
    <3> QED
      BY <1>1, <3>1, FlattenSeqIs
  <2>2. \A i \in 1 .. n : f[i] = FlattenStep(f, codes, i)
    BY <2>1
  <2> DEFINE Done == {k \in Nat : k + 1 <= n => f[k + 1] \in Codes(ops)}
  <2>3. 0 \in Done
    <3>1. 1 \in 1 .. n
      BY <1>1, <1>3
    <3>2. f[1] = codes[1]
      BY <2>2, <3>1 DEF FlattenStep
    <3>3. 0 + 1 = 1
      OBVIOUS
    <3> QED
      BY <1>1, <3>1, <3>2, <3>3
  <2>4. ASSUME NEW k \in Done PROVE k + 1 \in Done
    <3>1. k \in Nat /\ k + 1 \in Nat
      OBVIOUS
    <3> SUFFICES ASSUME k + 1 + 1 <= n PROVE f[k + 1 + 1] \in Codes(ops)
      BY <3>1
    <3>2. PICK i \in 1 .. n : i = k + 1 + 1 /\ i # 1 /\ i - 1 = k + 1 /\ k + 1 <= n
      BY <1>1, <3>1
    <3>3. f[i] = f[i - 1] \o codes[i]
      BY <2>2, <3>2 DEF FlattenStep
    <3>4. f[i - 1] \in Codes(ops)
      BY <3>2
    <3>5. codes[i] \in Codes(ops)
      BY <1>1
    <3> QED
      BY <3>2, <3>3, <3>4, <3>5, CodesJoined
  <2>5. n - 1 \in Done
    <3>1. Done = Nat
      <4>1. Done \in SUBSET Nat
        OBVIOUS
      <4> HIDE DEF Done
      <4> QED
        BY <2>3, <2>4, <4>1, SetInduction
    <3>2. n - 1 \in Nat
      BY <1>1, <1>3
    <3> HIDE DEF Done
    <3> QED
      BY <3>1, <3>2
  <2>6. n - 1 + 1 = n
    BY <1>1
  <2> QED
    BY <1>1, <2>1, <2>5, <2>6
<1> QED
  BY <1>2, <1>3

\* Instructions that open and close nothing.
LEMMA Pieces ==
    ASSUME NEW ops, Others \subseteq ops
    PROVE  /\ Compute \in Codes(ops) /\ Lookup \in Codes(ops) /\ TypeError \in Codes(ops)
           /\ <<Op("runtimeError")>> \in Codes(ops)
           /\ Jump(1) \in Codes(ops) /\ Branch(0) \in Codes(ops)
<1>1. ASSUME NEW i \in AnyInstruction, i.op \in Others, i.op \in {"jump", "branch"} => i.by \in {0, 1}
      PROVE  <<i>> \in Codes(ops)
  <2>1. PICK exit \in Nat : exit = 0
    OBVIOUS
  <2>2. i.op \in ops /\ i.op \notin {"pushScope", "popScope", "pushUnification", "popUnification"}
    BY <1>1 DEF Others
  <2>3. Balanced(<<i>>, exit, ops)
    BY <1>1, <2>2, Alone
  <2> QED
    BY <2>1, <2>3, BalancedCode
<1>2. /\ Op("compute") \in AnyInstruction /\ Op("getLocal") \in AnyInstruction
      /\ Op("typeError") \in AnyInstruction /\ Op("runtimeError") \in AnyInstruction
      /\ [op |-> "jump", by |-> 1] \in AnyInstruction /\ [op |-> "branch", by |-> 0] \in AnyInstruction
  BY DEF AnyInstruction, Op
<1>3. /\ Op("compute").op = "compute" /\ Op("getLocal").op = "getLocal"
      /\ Op("typeError").op = "typeError" /\ Op("runtimeError").op = "runtimeError"
  BY DEF Op
<1>4. Compute \in Codes(ops) /\ Lookup \in Codes(ops)
  BY <1>1, <1>2, <1>3 DEF Compute, Lookup, Others
<1>5. TypeError \in Codes(ops) /\ <<Op("runtimeError")>> \in Codes(ops)
  BY <1>1, <1>2, <1>3 DEF TypeError, Others
<1>6. Jump(1) \in Codes(ops) /\ Branch(0) \in Codes(ops)
  <2>1. PICK i \in AnyInstruction : i = [op |-> "jump", by |-> 1]
    BY <1>2
  <2>2. PICK j \in AnyInstruction : j = [op |-> "branch", by |-> 0]
    BY <1>2
  <2>3. <<i>> \in Codes(ops)
    BY <1>1, <2>1 DEF Others
  <2>4. <<j>> \in Codes(ops)
    BY <1>1, <2>2 DEF Others
  <2> QED
    BY <2>1, <2>2, <2>3, <2>4 DEF Jump, Branch
<1> QED
  BY <1>4, <1>5, <1>6

LEMMA FunctionPieces ==
    ASSUME NEW ops, Others \subseteq ops, NEW n \in Nodes
    PROVE  NewFunction(n) \in Codes(ops) /\ CallFunction(n) \in Codes(ops)
<1>1. ASSUME NEW i \in {NewFunction(n)[1], CallFunction(n)[1]}
      PROVE  <<i>> \in Codes(ops)
  <2>1. PICK exit \in Nat : exit = 0
    OBVIOUS
  <2>2. i.op \in {"newFunction", "call"}
    BY DEF NewFunction, CallFunction
  <2>3. i \in AnyInstruction
    BY <2>2 DEF AnyInstruction
  <2>4. i.op \in ops /\ i.op \notin {"pushScope", "popScope", "pushUnification", "popUnification"}
    BY <2>2 DEF Others
  <2>5. Balanced(<<i>>, exit, ops)
    BY <2>2, <2>3, <2>4, Alone
  <2> QED
    BY <2>1, <2>5, BalancedCode
<1>2. NewFunction(n) = <<NewFunction(n)[1]>> /\ CallFunction(n) = <<CallFunction(n)[1]>>
  BY DEF NewFunction, CallFunction
<1> QED
  BY <1>1, <1>2

LEMMA CheckingPieces ==
    /\ Constrain \in Codes(Emitted) /\ Resolve \in Codes(Emitted)
    /\ Infer \in Codes(Emitted)
<1>1. ASSUME NEW i \in AnyInstruction, i.op \in {"constrain", "resolve", "infer"}
      PROVE  <<i>> \in Codes(Emitted)
  <2>1. PICK exit \in Nat : exit = 0
    OBVIOUS
  <2>2. i.op \in Emitted /\ i.op \notin {"pushScope", "popScope", "pushUnification", "popUnification"}
        /\ i.op \notin {"jump", "branch"}
    BY <1>1 DEF Emitted, Checking
  <2>3. Balanced(<<i>>, exit, Emitted)
    BY <1>1, <2>2, Alone
  <2> QED
    BY <2>1, <2>3, BalancedCode
<1>2. Op("constrain") \in AnyInstruction /\ Op("constrain").op = "constrain"
  BY DEF AnyInstruction, Op
<1>3. ASSUME NEW name \in {"resolve", "infer"}
      PROVE  <<[op |-> name, dst |-> 1]>> \in Codes(Emitted)
  <2>1. PICK k \in AnyInstruction : k = [op |-> name, dst |-> 1]
    BY DEF AnyInstruction
  <2>2. k.op \in {"resolve", "infer"}
    BY <2>1
  <2> QED
    BY <1>1, <2>1, <2>2
<1>4. <<Op("constrain")>> \in Codes(Emitted)
  BY <1>1, <1>2
<1> QED
  BY <1>3, <1>4 DEF Constrain, Resolve, Infer

\* A jump as far as `exit` beyond its end, and one that skips `exit` instructions.
LEMMA JumpsOut ==
    ASSUME NEW ops, Others \subseteq ops, NEW exit \in Nat
    PROVE  /\ Balanced(Jump(exit + 1), exit, ops)
           /\ Balanced(Branch(exit + 1), exit, ops)
<1>1. ASSUME NEW name \in {"jump", "branch"}
      PROVE  Balanced(<<[op |-> name, by |-> exit + 1]>>, exit, ops)
  <2> DEFINE i == [op |-> name, by |-> exit + 1]
  <2>1. exit + 1 \in Nat /\ exit + 1 = 1 + exit
    OBVIOUS
  <2>2. i \in AnyInstruction
    BY <2>1 DEF AnyInstruction
  <2>3. i.op = name /\ i.by = 1 + exit
    BY <2>1
  <2> HIDE DEF i
  <2>4. i.op \in ops /\ i.op \notin {"pushScope", "popScope", "pushUnification", "popUnification"}
    BY <2>3 DEF Others
  <2>5. Balanced(<<i>>, exit, ops)
    BY <2>2, <2>3, <2>4, Alone
  <2> QED
    BY <2>5 DEF i
<1> QED
  BY <1>1 DEF Jump, Branch

\* Balanced code after balanced code, where only the second may lead out.
LEMMA ThenOut ==
    ASSUME NEW ops, NEW exit \in Nat, NEW a \in Codes(ops), NEW b, Balanced(b, exit, ops)
    PROVE  Balanced(a \o b, exit, ops)
<1>1. PICK beyond \in Nat : beyond = 0
  OBVIOUS
<1>2. Balanced(a, beyond, ops) /\ beyond \in {0, Len(b), Len(b) + exit}
  BY <1>1, BalancedCode
<1> QED
  BY <1>2, Joined

\* The first leads to the end of the second.
LEMMA ToTheEnd ==
    ASSUME NEW ops, NEW a, NEW b \in Codes(ops), Balanced(a, Len(b), ops)
    PROVE  a \o b \in Codes(ops)
<1>1. PICK exit \in Nat : exit = 0
  OBVIOUS
<1>2. Balanced(b, exit, ops)
  BY <1>1, BalancedCode
<1>3. PICK beyond \in Nat : beyond = Len(b)
  BY <1>2, LengthOf
<1>4. Balanced(a, beyond, ops) /\ beyond \in {0, Len(b), Len(b) + exit}
  BY <1>3
<1>5. Balanced(a \o b, exit, ops)
  BY <1>2, <1>4, Joined
<1> QED
  BY <1>1, <1>5, BalancedCode

LEMMA IfElseBalanced ==
    ASSUME NEW ops, Others \subseteq ops, NEW exit \in Nat,
           NEW consequent \in Codes(ops), NEW alternate, Balanced(alternate, exit, ops)
    PROVE  Balanced(IfElse(consequent, alternate), exit, ops)
<1> DEFINE b == Branch(Len(consequent) + 2)
           j == Jump(Len(alternate) + 1)
<1>1. PICK n \in Nat : n = Len(consequent)
  BY BalancedCode, LengthOf
<1>2. PICK m \in Nat : m = Len(alternate)
  BY LengthOf
<1>3. PICK one \in Nat : one = 1
  OBVIOUS
<1>4. Balanced(b, n + 1, ops)
  <2>1. PICK beyond \in Nat : beyond = n + 1
    OBVIOUS
  <2>2. Balanced(Branch(beyond + 1), beyond, ops)
    BY JumpsOut
  <2>3. beyond + 1 = Len(consequent) + 2
    BY <1>1, <2>1
  <2> QED
    BY <2>1, <2>2, <2>3
<1>5. Balanced(j, m, ops) /\ Len(j) = 1
  BY <1>2, JumpsOut DEF Jump
<1> HIDE DEF b, j
<1>6. Balanced(b \o consequent, one, ops)
  <2>1. PICK beyond \in Nat : beyond = n + 1
    OBVIOUS
  <2>2. Balanced(consequent, one, ops)
    BY BalancedCode, BalancedAnywhere
  <2>3. Balanced(b, beyond, ops) /\ beyond \in {0, Len(consequent), Len(consequent) + one}
    BY <1>1, <1>3, <1>4, <2>1
  <2> QED
    BY <2>2, <2>3, Joined
<1>7. Balanced(b \o consequent \o j, m, ops)
  <2>1. one \in {0, Len(j), Len(j) + m}
    BY <1>3, <1>5
  <2> QED
    BY <1>5, <1>6, <2>1, Joined
<1>8. Balanced(b \o consequent \o j \o alternate, exit, ops)
  <2>1. m \in {0, Len(alternate), Len(alternate) + exit}
    BY <1>2
  <2> QED
    BY <1>7, <2>1, Joined
<1> QED
  BY <1>8 DEF IfElse, b, j

LEMMA IfElseIsCode ==
    ASSUME NEW ops, Others \subseteq ops, NEW consequent \in Codes(ops), NEW alternate \in Codes(ops)
    PROVE  IfElse(consequent, alternate) \in Codes(ops)
<1>1. PICK exit \in Nat : exit = 0
  OBVIOUS
<1>2. Balanced(alternate, exit, ops)
  BY <1>1, BalancedCode
<1>3. Balanced(IfElse(consequent, alternate), exit, ops)
  BY <1>2, IfElseBalanced
<1> QED
  BY <1>1, <1>3, BalancedCode

\* Scopes around code.
LEMMA ScopesAreCode ==
    ASSUME NEW code \in Codes(Emitted)
    PROVE  /\ Scoped(code) \in Codes(Emitted) /\ Unified(code) \in Codes(Emitted)
           /\ \E s, u : /\ Levels(Unified(code), 0, s, u)
                        /\ \A pc \in 2 .. Len(Unified(code)) : u[pc] > 0
<1>1. /\ Op("pushScope") \in AnyInstruction /\ Op("popScope") \in AnyInstruction
      /\ Op("pushUnification") \in AnyInstruction /\ Op("popUnification") \in AnyInstruction
  BY DEF AnyInstruction, Op
<1>2. /\ Op("pushScope").op = "pushScope" /\ Op("popScope").op = "popScope"
      /\ Op("pushUnification").op = "pushUnification" /\ Op("popUnification").op = "popUnification"
  BY DEF Op
<1>3. /\ "pushScope" \in Emitted /\ "popScope" \in Emitted
      /\ "pushUnification" \in Emitted /\ "popUnification" \in Emitted
  BY DEF Emitted, Checking
<1>4. Scoped(code) \in Codes(Emitted)
  <2>1. Closes(Op("pushScope"), Op("popScope"))
    BY <1>2 DEF Closes
  <2>2. Around(Op("pushScope"), code, Op("popScope")) \in Codes(Emitted)
    BY <1>1, <1>2, <1>3, <2>1, LevelsAround
  <2> QED
    BY <2>2 DEF Scoped, Around
<1>5. PICK open \in AnyInstruction, close \in AnyInstruction :
         open = Op("pushUnification") /\ close = Op("popUnification")
  BY <1>1
<1>6. Closes(open, close) /\ open.op \in Emitted /\ close.op \in Emitted /\ open.op = "pushUnification"
  BY <1>2, <1>3, <1>5 DEF Closes
<1> DEFINE c == Around(open, code, close)
<1>7. /\ c \in Codes(Emitted)
      /\ \E s, u : /\ Levels(c, 0, s, u)
                   /\ open.op = "pushUnification" => \A pc \in 2 .. Len(c) : u[pc] > 0
  BY <1>6, LevelsAround
<1>8. c = Unified(code)
  BY <1>5 DEF Unified, Around
<1> QED
  BY <1>4, <1>6, <1>7, <1>8

LEMMA InferAsTypeIsCode ==
    ASSUME NEW code \in Codes(Emitted)
    PROVE  CheckInferred(code) \in Codes(Emitted) /\ InferAsType(code) \in Codes(Emitted)
<1>1. Others \subseteq Emitted
  BY DEF Emitted
<1>2. Compute \in Codes(Emitted) /\ Constrain \in Codes(Emitted) /\ <<>> \in Codes(Emitted)
  BY <1>1, Pieces, CheckingPieces, NoCode
<1>3. CheckInferred(code) \in Codes(Emitted)
  BY <1>2, CodesJoined DEF CheckInferred
<1>4. IfElse(<<>>, Compute) \in Codes(Emitted)
  BY <1>1, <1>2, IfElseIsCode
<1>5. CheckInferred(code) \o Compute \in Codes(Emitted)
  BY <1>2, <1>3, CodesJoined
<1>6. CheckInferred(code) \o Compute \o IfElse(<<>>, Compute) \in Codes(Emitted)
  BY <1>4, <1>5, CodesJoined
<1> QED
  BY <1>3, <1>6 DEF InferAsType

LEMMA ArgumentsAreCode ==
    ASSUME NEW arguments \in Seq(Codes(Emitted)), NEW implicit \in BOOLEAN
    PROVE  ArgumentsAndResult(arguments, implicit) \in Codes(Emitted)
<1> DEFINE each == [i \in DOMAIN arguments |-> Compute \o CheckInferred(arguments[i])]
           inferred == IF implicit THEN Infer \o Compute ELSE <<>>
<1>1. Others \subseteq Emitted
  BY DEF Emitted
<1>2. /\ Compute \in Codes(Emitted) /\ Resolve \in Codes(Emitted) /\ <<>> \in Codes(Emitted)
      /\ Infer \in Codes(Emitted)
  BY <1>1, Pieces, CheckingPieces, NoCode
<1>3. FlattenSeq(each) \in Codes(Emitted)
  <2>1. PICK n \in Nat : n = Len(arguments) /\ DOMAIN arguments = 1 .. n
    OBVIOUS
  <2>2. ASSUME NEW i \in 1 .. n PROVE each[i] \in Codes(Emitted)
    <3>1. arguments[i] \in Codes(Emitted)
      BY <2>1
    <3>2. CheckInferred(arguments[i]) \in Codes(Emitted)
      BY <3>1, InferAsTypeIsCode
    <3>3. each[i] = Compute \o CheckInferred(arguments[i])
      BY <2>1
    <3> QED
      BY <1>2, <3>2, <3>3, CodesJoined
  <2>3. each = [i \in 1 .. n |-> each[i]]
    BY <2>1
  <2> HIDE DEF each
  <2>4. each \in Seq(Codes(Emitted))
    BY <2>2, <2>3, IsSequence
  <2> QED
    BY <2>4, EachIsCode
<1>4. inferred \in Codes(Emitted)
  BY <1>2, CodesJoined
<1> HIDE DEF each, inferred
<1>5. FlattenSeq(each) \o inferred \in Codes(Emitted)
  BY <1>3, <1>4, CodesJoined
<1>6. FlattenSeq(each) \o inferred \o Compute \in Codes(Emitted)
  BY <1>2, <1>5, CodesJoined
<1>7. FlattenSeq(each) \o inferred \o Compute \o Resolve \in Codes(Emitted)
  BY <1>2, <1>6, CodesJoined
<1>8. FlattenSeq(each) \o inferred \o Compute \o Resolve \o Compute \in Codes(Emitted)
  BY <1>2, <1>7, CodesJoined
<1> QED
  BY <1>8 DEF ArgumentsAndResult, each, inferred

\* Both errors of a call lead to its end.
LEMMA CallIsCode ==
    ASSUME NEW callee \in Codes(Emitted), NEW rest \in Codes(Emitted)
    PROVE  InferCall(callee, CheckArguments(rest)) \in Codes(Emitted)
<1>1. Others \subseteq Emitted
  BY DEF Emitted
<1>2. Compute \in Codes(Emitted) /\ TypeError \in Codes(Emitted) /\ <<>> \in Codes(Emitted)
  BY <1>1, Pieces, NoCode
<1>3. CheckArguments(rest) \in Codes(Emitted)
  <2>1. PICK exit \in Nat : exit = Len(rest)
    BY BalancedCode, LengthOf
  <2> DEFINE out == TypeError \o Compute \o Jump(exit + 1)
  <2>2. Balanced(Jump(exit + 1), exit, Emitted)
    BY <1>1, JumpsOut
  <2>3. TypeError \o Compute \in Codes(Emitted)
    BY <1>2, CodesJoined
  <2>4. Balanced(out, exit, Emitted)
    BY <2>2, <2>3, ThenOut
  <2> HIDE DEF out
  <2>5. Balanced(IfElse(<<>>, out), exit, Emitted)
    BY <1>1, <1>2, <2>4, IfElseBalanced
  <2>6. Balanced(Compute \o IfElse(<<>>, out), exit, Emitted)
    BY <1>2, <2>5, ThenOut
  <2>7. Compute \o IfElse(<<>>, out) \o rest \in Codes(Emitted)
    BY <2>1, <2>6, ToTheEnd
  <2> QED
    BY <2>1, <2>7 DEF CheckArguments, out
<1>4. PICK arguments \in Codes(Emitted) : arguments = CheckArguments(rest)
  BY <1>3
<1>5. PICK exit \in Nat : exit = Len(arguments)
  BY BalancedCode, LengthOf
<1> DEFINE out == TypeError \o Jump(exit + 1)
<1>6. Balanced(Jump(exit + 1), exit, Emitted)
  BY <1>1, JumpsOut
<1>7. Balanced(out, exit, Emitted)
  BY <1>2, <1>6, ThenOut
<1> HIDE DEF out
<1>8. Balanced(IfElse(Compute, out), exit, Emitted)
  BY <1>1, <1>2, <1>7, IfElseBalanced
<1>9. callee \o Compute \in Codes(Emitted)
  BY <1>2, CodesJoined
<1>10. Balanced(callee \o Compute \o IfElse(Compute, out), exit, Emitted)
  BY <1>8, <1>9, ThenOut
<1>11. callee \o Compute \o IfElse(Compute, out) \o arguments \in Codes(Emitted)
  BY <1>5, <1>10, ToTheEnd
<1>12. Scoped(Unified(callee \o Compute \o IfElse(Compute, out) \o arguments)) \in Codes(Emitted)
  BY <1>11, ScopesAreCode
<1> QED
  BY <1>4, <1>5, <1>12 DEF InferCall, out

\* The cases of a match, and the parameters of a function, from the last one on.
LEMMA CasesAreCode ==
    ASSUME NEW ops, Others \subseteq ops, NEW cases \in Seq(Codes(ops)), NEW default \in Codes(ops)
    PROVE  GenerateCases(cases, default) \in Codes(ops)
<1> DEFINE n == Len(cases)
           N == 1 .. n + 1
           V == Codes(ops)
           height == [i \in N |-> n + 1 - i]
           F == [f \in [N -> V] |-> [i \in N |-> CasesFrom(f, cases, default, i)]]
<1>1. n \in Nat /\ \A i \in 1 .. n : cases[i] \in V
  OBVIOUS
<1>2. height \in [N -> Nat] /\ \A i \in N : height[i] = n + 1 - i
  BY <1>1
<1>3. Compute \in V
  BY Pieces
<1> HIDE DEF V, height
<1>4. ASSUME NEW f, NEW i \in N, i + 1 \in N => f[i + 1] \in V
      PROVE  CasesFrom(f, cases, default, i) \in V
  <2>1. CASE i > n
    BY <2>1 DEF CasesFrom, V
  <2>2. CASE ~ (i > n)
    <3>1. i \in 1 .. n /\ i + 1 \in N
      BY <1>1, <2>2
    <3>2. PICK a \in Codes(ops), b \in Codes(ops) : a = cases[i] /\ b = f[i + 1]
      BY <1>1, <1>4, <3>1 DEF V
    <3>3. IfElse(a, b) \in Codes(ops)
      BY IfElseIsCode
    <3>4. Compute \o IfElse(a, b) \in Codes(ops)
      BY <1>3, <3>3, CodesJoined DEF V
    <3> QED
      BY <2>2, <3>2, <3>4 DEF CasesFrom, V
  <2> QED
    BY <2>1, <2>2
<1>5. ASSUME NEW f, NEW g, NEW i \in N, i + 1 \in N => f[i + 1] = g[i + 1]
      PROVE  CasesFrom(f, cases, default, i) = CasesFrom(g, cases, default, i)
  <2>1. ~ (i > n) => i + 1 \in N
    BY <1>1
  <2> HIDE DEF N
  <2> QED
    BY <1>5, <2>1 DEF CasesFrom
<1>6. \A i \in N : i + 1 \in N => height[i + 1] < height[i]
  BY <1>1, <1>2
<1>7. \E f : f = [i \in N |-> CasesFrom(f, cases, default, i)]
  <2> HIDE DEF N, n
  <2>1. AreHeights(N, height)
    <3>1. n + 1 \in Nat /\ \A i \in N : height[i] <= n + 1
      BY <1>1, <1>2 DEF N
    <3> QED
      BY <1>2, <3>1 DEF AreHeights
  <2>2. F \in [[N -> V] -> [N -> V]]
    <3> SUFFICES ASSUME NEW f \in [N -> V], NEW i \in N PROVE CasesFrom(f, cases, default, i) \in V
      OBVIOUS
    <3>1. i + 1 \in N => f[i + 1] \in V
      OBVIOUS
    <3> QED
      BY <1>4, <3>1
  <2>3. ASSUME NEW f \in [N -> V], NEW g \in [N -> V], NEW i \in N,
               \A j \in N : height[j] < height[i] => f[j] = g[j]
        PROVE  F[f][i] = F[g][i]
    <3>1. i + 1 \in N => f[i + 1] = g[i + 1]
      BY <1>6, <2>3
    <3>2. CasesFrom(f, cases, default, i) = CasesFrom(g, cases, default, i)
      BY <1>5, <3>1
    <3> QED
      BY <3>2
  <2>4. \E start : start \in [N -> V]
    <3>1. [i \in N |-> Compute] \in [N -> V]
      BY <1>3
    <3> QED
      BY <3>1
  <2> HIDE DEF F
  <2>5. FromBelow(F, N, V, height)
    BY <2>2, <2>3 DEF FromBelow
  <2>6. PICK f \in [N -> V] : f = F[f]
    BY <2>1, <2>4, <2>5, FixedPoint
  <2>7. F[f] = [i \in N |-> CasesFrom(f, cases, default, i)]
    BY DEF F
  <2> QED
    BY <2>6, <2>7
<1>8. PICK f : f = [i \in N |-> CasesFrom(f, cases, default, i)] /\ GenerateCases(cases, default) = f[1]
  BY <1>7 DEF GenerateCases
<1> HIDE DEF N
<1> DEFINE T == {i \in N : f[i] \in V}
<1>9. \A i \in N : f[i] = CasesFrom(f, cases, default, i)
  BY <1>8
<1>10. ASSUME NEW i \in N, \A j \in N : height[j] < height[i] => j \in T
       PROVE  i \in T
  <2>1. i + 1 \in N => f[i + 1] \in V
    BY <1>6, <1>10
  <2> QED
    BY <1>4, <1>9, <2>1
<1>11. \A i \in N : i \in T
  <2> HIDE DEF T
  <2> QED
    BY <1>2, <1>10, HeightInduction
<1>12. 1 \in N
  BY <1>1 DEF N
<1> QED
  BY <1>8, <1>11, <1>12 DEF V

LEMMA ParametersAreCode ==
    ASSUME NEW types \in Seq(Codes(Emitted)), NEW body \in Codes(Emitted)
    PROVE  CheckParameters(types, body) \in Codes(Emitted)
<1> DEFINE n == Len(types)
           N == 1 .. n + 1
           V == Codes(Emitted)
           height == [i \in N |-> n + 1 - i]
           F == [f \in [N -> V] |-> [i \in N |-> ParametersFrom(f, types, body, i)]]
<1>1. n \in Nat /\ \A i \in 1 .. n : types[i] \in V
  OBVIOUS
<1>2. height \in [N -> Nat] /\ \A i \in N : height[i] = n + 1 - i
  BY <1>1
<1>3. Compute \in V
  <2>1. Others \subseteq Emitted
    BY DEF Emitted
  <2> QED
    BY <2>1, Pieces
<1> HIDE DEF V, height
<1>4. ASSUME NEW f, NEW i \in N, i + 1 \in N => f[i + 1] \in V
      PROVE  ParametersFrom(f, types, body, i) \in V
  <2>1. CASE i > n
    BY <2>1, ScopesAreCode DEF ParametersFrom, V
  <2>2. CASE ~ (i > n)
    <3>1. i \in 1 .. n /\ i + 1 \in N
      BY <1>1, <2>2
    <3>2. PICK a \in Codes(Emitted), b \in Codes(Emitted) : a = types[i] /\ b = f[i + 1]
      BY <1>1, <1>4, <3>1 DEF V
    <3>3. a \o Compute \in Codes(Emitted)
      BY <1>3, CodesJoined DEF V
    <3>4. a \o Compute \o b \in Codes(Emitted)
      BY <3>3, CodesJoined
    <3>5. Scoped(a \o Compute \o b) \in Codes(Emitted)
      BY <3>4, ScopesAreCode
    <3> QED
      BY <2>2, <3>2, <3>5 DEF ParametersFrom, V
  <2> QED
    BY <2>1, <2>2
<1>5. ASSUME NEW f, NEW g, NEW i \in N, i + 1 \in N => f[i + 1] = g[i + 1]
      PROVE  ParametersFrom(f, types, body, i) = ParametersFrom(g, types, body, i)
  <2>1. ~ (i > n) => i + 1 \in N
    BY <1>1
  <2> HIDE DEF N
  <2> QED
    BY <1>5, <2>1 DEF ParametersFrom
<1>6. \A i \in N : i + 1 \in N => height[i + 1] < height[i]
  BY <1>1, <1>2
<1>7. \E f : f = [i \in N |-> ParametersFrom(f, types, body, i)]
  <2> HIDE DEF N, n
  <2>1. AreHeights(N, height)
    <3>1. n + 1 \in Nat /\ \A i \in N : height[i] <= n + 1
      BY <1>1, <1>2 DEF N
    <3> QED
      BY <1>2, <3>1 DEF AreHeights
  <2>2. F \in [[N -> V] -> [N -> V]]
    <3> SUFFICES ASSUME NEW f \in [N -> V], NEW i \in N PROVE ParametersFrom(f, types, body, i) \in V
      OBVIOUS
    <3>1. i + 1 \in N => f[i + 1] \in V
      OBVIOUS
    <3> QED
      BY <1>4, <3>1
  <2>3. ASSUME NEW f \in [N -> V], NEW g \in [N -> V], NEW i \in N,
               \A j \in N : height[j] < height[i] => f[j] = g[j]
        PROVE  F[f][i] = F[g][i]
    <3>1. i + 1 \in N => f[i + 1] = g[i + 1]
      BY <1>6, <2>3
    <3>2. ParametersFrom(f, types, body, i) = ParametersFrom(g, types, body, i)
      BY <1>5, <3>1
    <3> QED
      BY <3>2
  <2>4. \E start : start \in [N -> V]
    <3>1. [i \in N |-> Compute] \in [N -> V]
      BY <1>3
    <3> QED
      BY <3>1
  <2> HIDE DEF F
  <2>5. FromBelow(F, N, V, height)
    BY <2>2, <2>3 DEF FromBelow
  <2>6. PICK f \in [N -> V] : f = F[f]
    BY <2>1, <2>4, <2>5, FixedPoint
  <2>7. F[f] = [i \in N |-> ParametersFrom(f, types, body, i)]
    BY DEF F
  <2> QED
    BY <2>6, <2>7
<1>8. PICK f : f = [i \in N |-> ParametersFrom(f, types, body, i)] /\ CheckParameters(types, body) = f[1]
  BY <1>7 DEF CheckParameters
<1> HIDE DEF N
<1> DEFINE T == {i \in N : f[i] \in V}
<1>9. \A i \in N : f[i] = ParametersFrom(f, types, body, i)
  BY <1>8
<1>10. ASSUME NEW i \in N, \A j \in N : height[j] < height[i] => j \in T
       PROVE  i \in T
  <2>1. i + 1 \in N => f[i + 1] \in V
    BY <1>6, <1>10
  <2> QED
    BY <1>4, <1>9, <2>1
<1>11. \A i \in N : i \in T
  <2> HIDE DEF T
  <2> QED
    BY <1>2, <1>10, HeightInduction
<1>12. 1 \in N
  BY <1>1 DEF N
<1> QED
  BY <1>8, <1>11, <1>12 DEF V

-----------------------------------------------------------------------------
(* What infer(), check() and generate() emit for any node                  *)

LEMMA ClassesOfNodes ==
    ASSUME NEW n \in Nodes
    PROVE  n.node \in Expressions
                \cup {"let", "function", "statement", "block", "expression", "if", "match"}
<1>1. IsNode(n)
  BY SyntaxAssumption
<1> QED
  BY <1>1 DEF IsNode, Expressions

LEMMA PartsOfNodes ==
    ASSUME NEW n \in Nodes
    PROVE  /\ n.node \in {"array", "record"} => n.items \in Seq(Below(n))
           /\ n.node = "subscript" => n.target \in Below(n) /\ n.index \in Below(n)
           /\ n.node = "member" => n.object \in Below(n)
           /\ n.node = "call" => /\ n.callee \in Below(n) /\ n.arguments \in Seq(Below(n))
                                 /\ n.implicit \in BOOLEAN
           /\ n.node = "let" => n.initializer \in Below(n) /\ n.type \in Below(n) \cup {None}
           /\ n.node = "function" => /\ n.parameters \in Seq(Below(n))
                                     /\ n.returnType \in Below(n) /\ n.body \in Below(n)
           /\ n.node = "statement" => n.statement \in Below(n)
           /\ n.node = "block" => n.declarations \in Seq(Below(n))
           /\ n.node = "expression" => n.expression \in Below(n)
           /\ n.node = "if" => /\ n.condition \in Below(n) /\ n.consequent \in Below(n)
                               /\ n.alternate \in Below(n) \cup {None}
           /\ n.node = "match" => /\ n.scrutinee \in Below(n) /\ n.cases \in Seq(Below(n))
                                  /\ n.default \in Below(n) \cup {None}
<1>1. IsNode(n)
  BY SyntaxAssumption
<1> QED
  BY <1>1 DEF IsNode

\* The code of several parts.
LEMMA PartsAreCode ==
    ASSUME NEW ops, NEW S, NEW f, \A m \in S : f[m] \in Codes(ops), NEW parts \in Seq(S)
    PROVE  /\ [i \in DOMAIN parts |-> f[parts[i]]] \in Seq(Codes(ops))
           /\ EachOf(f, parts) \in Codes(ops)
<1> DEFINE each == [i \in DOMAIN parts |-> f[parts[i]]]
<1>1. PICK n \in Nat : n = Len(parts) /\ DOMAIN parts = 1 .. n
  OBVIOUS
<1>2. ASSUME NEW i \in 1 .. n PROVE each[i] \in Codes(ops)
  <2>1. parts[i] \in S /\ each[i] = f[parts[i]]
    BY <1>1
  <2> QED
    BY <2>1
<1>3. each = [i \in 1 .. n |-> each[i]]
  BY <1>1
<1> HIDE DEF each
<1>4. each \in Seq(Codes(ops))
  BY <1>2, <1>3, IsSequence
<1>5. FlattenSeq(each) \in Codes(ops)
  BY <1>4, EachIsCode
<1> QED
  BY <1>4, <1>5 DEF EachOf, each

LEMMA PartsAgree ==
    ASSUME NEW S, NEW f, NEW g, \A m \in S : f[m] = g[m], NEW parts \in Seq(S)
    PROVE  /\ [i \in DOMAIN parts |-> f[parts[i]]] = [i \in DOMAIN parts |-> g[parts[i]]]
           /\ EachOf(f, parts) = EachOf(g, parts)
<1>1. \A i \in DOMAIN parts : f[parts[i]] = g[parts[i]]
  OBVIOUS
<1>2. [i \in DOMAIN parts |-> f[parts[i]]] = [i \in DOMAIN parts |-> g[parts[i]]]
  BY <1>1
<1> QED
  BY <1>2 DEF EachOf

LEMMA PiecesChecked ==
    /\ Others \subseteq Emitted
    /\ Compute \in Codes(Emitted) /\ Lookup \in Codes(Emitted) /\ Constrain \in Codes(Emitted)
    /\ Resolve \in Codes(Emitted) /\ <<>> \in Codes(Emitted)
<1>1. Others \subseteq Emitted
  BY DEF Emitted
<1> QED
  BY <1>1, Pieces, CheckingPieces, NoCode

\* The elements of an array after its first.
LEMMA ItemsAreCode ==
    ASSUME NEW S, NEW f, \A m \in S : f[m] \in Codes(Emitted), NEW items \in Seq(S), items # <<>>
    PROVE  f[items[1]] \o FlattenSeq([i \in 1 .. Len(items) - 1 |-> CheckInferred(f[items[i + 1]])])
                \in Codes(Emitted)
<1> DEFINE each == [i \in 1 .. Len(items) - 1 |-> CheckInferred(f[items[i + 1]])]
<1>1. PICK n \in Nat : n = Len(items) - 1
  OBVIOUS
<1>2. items[1] \in S
  OBVIOUS
<1>3. ASSUME NEW i \in 1 .. n PROVE each[i] \in Codes(Emitted)
  <2>1. items[i + 1] \in S
    BY <1>1
  <2>2. CheckInferred(f[items[i + 1]]) \in Codes(Emitted)
    BY <2>1, InferAsTypeIsCode
  <2> QED
    BY <1>1, <2>2
<1>4. each = [i \in 1 .. n |-> each[i]]
  BY <1>1
<1> HIDE DEF each
<1>5. each \in Seq(Codes(Emitted))
  BY <1>3, <1>4, IsSequence
<1>6. FlattenSeq(each) \in Codes(Emitted)
  BY <1>5, EachIsCode
<1>7. f[items[1]] \in Codes(Emitted)
  BY <1>2
<1>8. f[items[1]] \o FlattenSeq(each) \in Codes(Emitted)
  BY <1>6, <1>7, CodesJoined
<1> QED
  BY <1>8 DEF each

LEMMA ItemsAgree ==
    ASSUME NEW S, NEW f, NEW g, \A m \in S : f[m] = g[m], NEW items \in Seq(S), items # <<>>
    PROVE  /\ f[items[1]] = g[items[1]]
           /\ [i \in 1 .. Len(items) - 1 |-> CheckInferred(f[items[i + 1]])]
                = [i \in 1 .. Len(items) - 1 |-> CheckInferred(g[items[i + 1]])]
<1>1. items[1] \in S /\ \A i \in 1 .. Len(items) - 1 : items[i + 1] \in S
  OBVIOUS
<1>2. \A i \in 1 .. Len(items) - 1 : f[items[i + 1]] = g[items[i + 1]]
  BY <1>1
<1> QED
  BY <1>1, <1>2

LEMMA InferExpressionIsCode ==
    ASSUME NEW e \in Nodes, e.node \in Expressions, NEW f, \A m \in Below(e) : f[m] \in Codes(Emitted)
    PROVE  InferExpression(f, e) \in Codes(Emitted)
<1>1. CASE e.node = "literal"
  BY <1>1, PiecesChecked DEF InferExpression
<1>2. CASE e.node = "identifier"
  BY <1>2, PiecesChecked DEF InferExpression
<1>3. CASE e.node = "array"
  <2>1. PICK items \in Seq(Below(e)) : items = e.items
    BY <1>3, PartsOfNodes
  <2> DEFINE c == IF items = <<>> THEN <<>>
                  ELSE f[items[1]] \o FlattenSeq([i \in 1 .. Len(items) - 1 |->
                                                     CheckInferred(f[items[i + 1]])])
  <2>2. c \in Codes(Emitted)
    BY ItemsAreCode, PiecesChecked
  <2>3. InferExpression(f, e) = c \o Compute
    BY <1>3, <2>1 DEF InferExpression
  <2> HIDE DEF c
  <2>4. c \o Compute \in Codes(Emitted)
    BY <2>2, PiecesChecked, CodesJoined
  <2> QED
    BY <2>3, <2>4
<1>4. CASE e.node = "record"
  <2>1. PICK items \in Seq(Below(e)) : items = e.items
    BY <1>4, PartsOfNodes
  <2>2. EachOf(f, items) \in Codes(Emitted)
    BY PartsAreCode
  <2>3. EachOf(f, items) \o Compute \in Codes(Emitted)
    BY <2>2, PiecesChecked, CodesJoined
  <2> QED
    BY <1>4, <2>1, <2>3 DEF InferExpression
<1>5. CASE e.node = "subscript"
  <2>1. PICK a \in Codes(Emitted), b \in Codes(Emitted) : a = f[e.index] /\ b = f[e.target]
    BY <1>5, PartsOfNodes
  <2>2. CheckInferred(a) \in Codes(Emitted) /\ CheckInferred(b) \in Codes(Emitted)
    BY InferAsTypeIsCode
  <2>3. CheckInferred(a) \o Compute \in Codes(Emitted)
    BY <2>2, PiecesChecked, CodesJoined
  <2>4. CheckInferred(a) \o Compute \o CheckInferred(b) \in Codes(Emitted)
    BY <2>2, <2>3, CodesJoined
  <2>5. CheckInferred(a) \o Compute \o CheckInferred(b) \o Resolve \in Codes(Emitted)
    BY <2>4, PiecesChecked, CodesJoined
  <2>6. CheckInferred(a) \o Compute \o CheckInferred(b) \o Resolve \o Compute \in Codes(Emitted)
    BY <2>5, PiecesChecked, CodesJoined
  <2>7. Unified(CheckInferred(a) \o Compute \o CheckInferred(b) \o Resolve \o Compute) \in Codes(Emitted)
    BY <2>6, ScopesAreCode
  <2> QED
    BY <1>5, <2>1, <2>7 DEF InferExpression
<1>6. CASE e.node = "member"
  <2>1. PICK a \in Codes(Emitted) : a = f[e.object]
    BY <1>6, PartsOfNodes
  <2>2. Compute \o CheckInferred(a) \in Codes(Emitted)
    BY InferAsTypeIsCode, PiecesChecked, CodesJoined
  <2>3. Compute \o CheckInferred(a) \o Resolve \in Codes(Emitted)
    BY <2>2, PiecesChecked, CodesJoined
  <2>4. Compute \o CheckInferred(a) \o Resolve \o Compute \in Codes(Emitted)
    BY <2>3, PiecesChecked, CodesJoined
  <2>5. Unified(Compute \o CheckInferred(a) \o Resolve \o Compute) \in Codes(Emitted)
    BY <2>4, ScopesAreCode
  <2> QED
    BY <1>6, <2>1, <2>5 DEF InferExpression
<1>7. CASE e.node = "call"
  <2>1. PICK arguments \in Seq(Below(e)) : arguments = e.arguments
    BY <1>7, PartsOfNodes
  <2>2. PICK implicit \in BOOLEAN : implicit = e.implicit
    BY <1>7, PartsOfNodes
  <2>3. PICK callee \in Codes(Emitted) : callee = f[e.callee]
    BY <1>7, PartsOfNodes
  <2>4. PICK codes \in Seq(Codes(Emitted)) : codes = [i \in DOMAIN arguments |-> f[arguments[i]]]
    BY PartsAreCode
  <2>5. PICK rest \in Codes(Emitted) : rest = ArgumentsAndResult(codes, implicit)
    BY ArgumentsAreCode
  <2>6. InferExpression(f, e) = InferCall(callee, CheckArguments(rest))
    BY <1>7, <2>1, <2>2, <2>3, <2>4, <2>5 DEF InferExpression
  <2> QED
    BY <2>6, CallIsCode
<1> QED
  BY <1>1, <1>2, <1>3, <1>4, <1>5, <1>6, <1>7 DEF Expressions

LEMMA InferExpressionAgrees ==
    ASSUME NEW e \in Nodes, e.node \in Expressions, NEW f, NEW g, \A m \in Below(e) : f[m] = g[m]
    PROVE  InferExpression(f, e) = InferExpression(g, e)
<1>1. CASE e.node \in {"literal", "identifier"}
  BY <1>1 DEF InferExpression
<1>2. CASE e.node = "array"
  <2>1. PICK items \in Seq(Below(e)) : items = e.items
    BY <1>2, PartsOfNodes
  <2>2. CASE items = <<>>
    BY <1>2, <2>1, <2>2 DEF InferExpression
  <2>3. CASE items # <<>>
    <3>1. /\ f[items[1]] = g[items[1]]
          /\ [i \in 1 .. Len(items) - 1 |-> CheckInferred(f[items[i + 1]])]
                = [i \in 1 .. Len(items) - 1 |-> CheckInferred(g[items[i + 1]])]
      BY <2>3, ItemsAgree
    <3> QED
      BY <1>2, <2>1, <3>1 DEF InferExpression
  <2> QED
    BY <2>2, <2>3
<1>3. CASE e.node = "record"
  <2>1. EachOf(f, e.items) = EachOf(g, e.items)
    BY <1>3, PartsOfNodes, PartsAgree
  <2> QED
    BY <1>3, <2>1 DEF InferExpression
<1>4. CASE e.node = "subscript"
  <2>1. f[e.index] = g[e.index] /\ f[e.target] = g[e.target]
    BY <1>4, PartsOfNodes
  <2> QED
    BY <1>4, <2>1 DEF InferExpression
<1>5. CASE e.node = "member"
  <2>1. f[e.object] = g[e.object]
    BY <1>5, PartsOfNodes
  <2> QED
    BY <1>5, <2>1 DEF InferExpression
<1>6. CASE e.node = "call"
  <2>1. f[e.callee] = g[e.callee]
    BY <1>6, PartsOfNodes
  <2>2. [i \in DOMAIN e.arguments |-> f[e.arguments[i]]] = [i \in DOMAIN e.arguments |-> g[e.arguments[i]]]
    BY <1>6, PartsOfNodes, PartsAgree
  <2> QED
    BY <1>6, <2>1, <2>2 DEF InferExpression
<1> QED
  BY <1>1, <1>2, <1>3, <1>4, <1>5, <1>6 DEF Expressions

LEMMA OptionalIsCode ==
    ASSUME NEW ops, NEW S, NEW f, \A m \in S : f[m] \in Codes(ops), NEW part \in S \cup {None}
    PROVE  Optional(f, part) \in Codes(ops)
  BY NoCode DEF Optional

LEMMA OptionalAgrees ==
    ASSUME NEW S, NEW f, NEW g, \A m \in S : f[m] = g[m], NEW part \in S \cup {None}
    PROVE  Optional(f, part) = Optional(g, part)
  BY DEF Optional

LEMMA DeclarationIsCode ==
    ASSUME NEW d \in Nodes, d.node \in {"let", "function"}, NEW f,
           \A m \in Below(d) : f[m] \in Codes(Emitted)
    PROVE  CheckDeclaration(f, d) \in Codes(Emitted)
<1>1. CASE d.node = "let"
  <2>1. PICK a \in Codes(Emitted) : a = f[d.initializer]
    BY <1>1, PartsOfNodes
  <2> DEFINE c == IF d.type = None THEN a ELSE InferAsType(f[d.type]) \o CheckInferred(a)
  <2>2. c \in Codes(Emitted)
    <3>1. CASE d.type # None
      <4>1. PICK b \in Codes(Emitted) : b = f[d.type]
        BY <1>1, <3>1, PartsOfNodes
      <4>2. InferAsType(b) \in Codes(Emitted) /\ CheckInferred(a) \in Codes(Emitted)
        BY InferAsTypeIsCode
      <4>3. InferAsType(b) \o CheckInferred(a) \in Codes(Emitted)
        BY <4>2, CodesJoined
      <4> QED
        BY <3>1, <4>1, <4>3
    <3> QED
      BY <3>1
  <2>3. CheckDeclaration(f, d) = c \o Compute \o Constrain
    BY <1>1, <2>1 DEF CheckDeclaration
  <2> HIDE DEF c
  <2>4. c \o Compute \in Codes(Emitted)
    BY <2>2, PiecesChecked, CodesJoined
  <2>5. c \o Compute \o Constrain \in Codes(Emitted)
    BY <2>4, PiecesChecked, CodesJoined
  <2> QED
    BY <2>3, <2>5
<1>2. CASE d.node = "function"
  <2>1. NewFunction(d) \in Codes(Emitted)
    BY FunctionPieces, PiecesChecked
  <2>2. NewFunction(d) \o Compute \in Codes(Emitted)
    BY <2>1, PiecesChecked, CodesJoined
  <2>3. NewFunction(d) \o Compute \o Constrain \in Codes(Emitted)
    BY <2>2, PiecesChecked, CodesJoined
  <2> QED
    BY <1>2, <2>3 DEF CheckDeclaration
<1> QED
  BY <1>1, <1>2

LEMMA DeclarationAgrees ==
    ASSUME NEW d \in Nodes, d.node \in {"let", "function"}, NEW f, NEW g, \A m \in Below(d) : f[m] = g[m]
    PROVE  CheckDeclaration(f, d) = CheckDeclaration(g, d)
<1>1. CASE d.node = "let"
  <2>1. f[d.initializer] = g[d.initializer] /\ (d.type # None => f[d.type] = g[d.type])
    BY <1>1, PartsOfNodes
  <2> QED
    BY <1>1, <2>1 DEF CheckDeclaration
<1>2. CASE d.node = "function"
  BY <1>2 DEF CheckDeclaration
<1> QED
  BY <1>1, <1>2

\* The cases of a match as type checking code.
LEMMA CasesChecked ==
    ASSUME NEW S, NEW f, \A m \in S : f[m] \in Codes(Emitted), NEW cases \in Seq(S)
    PROVE  FlattenSeq([i \in DOMAIN cases |-> Compute \o Constrain \o f[cases[i]]]) \in Codes(Emitted)
<1> DEFINE each == [i \in DOMAIN cases |-> Compute \o Constrain \o f[cases[i]]]
<1>1. PICK n \in Nat : n = Len(cases) /\ DOMAIN cases = 1 .. n
  OBVIOUS
<1>2. Compute \o Constrain \in Codes(Emitted)
  BY PiecesChecked, CodesJoined
<1>3. ASSUME NEW i \in 1 .. n PROVE each[i] \in Codes(Emitted)
  <2>1. PICK a \in Codes(Emitted) : a = f[cases[i]]
    <3>1. cases[i] \in S
      BY <1>1
    <3> QED
      BY <3>1
  <2>2. Compute \o Constrain \o a \in Codes(Emitted)
    BY <1>2, CodesJoined
  <2> QED
    BY <1>1, <2>1, <2>2
<1>4. each = [i \in 1 .. n |-> each[i]]
  BY <1>1
<1> HIDE DEF each
<1>5. each \in Seq(Codes(Emitted))
  BY <1>3, <1>4, IsSequence
<1>6. FlattenSeq(each) \in Codes(Emitted)
  BY <1>5, EachIsCode
<1> QED
  BY <1>6 DEF each

LEMMA InferStatementIsCode ==
    ASSUME NEW n \in Nodes, n.node \in {"block", "expression", "if", "match"}, NEW f,
           \A m \in Below(n) : f[m] \in Codes(Emitted)
    PROVE  InferStatement(f, n) \in Codes(Emitted)
<1>1. CASE n.node = "block"
  BY <1>1, PiecesChecked DEF InferStatement
<1>2. CASE n.node = "expression"
  BY <1>2, PartsOfNodes DEF InferStatement
<1>3. CASE n.node = "if"
  <2>1. PICK a \in Codes(Emitted), b \in Codes(Emitted) : a = f[n.condition] /\ b = f[n.consequent]
    BY <1>3, PartsOfNodes
  <2>2. PICK c \in Codes(Emitted) : c = Optional(f, n.alternate)
    BY <1>3, PartsOfNodes, OptionalIsCode
  <2>3. CheckInferred(a) \o b \in Codes(Emitted)
    BY InferAsTypeIsCode, CodesJoined
  <2>4. CheckInferred(a) \o b \o c \in Codes(Emitted)
    BY <2>3, CodesJoined
  <2>5. CheckInferred(a) \o b \o c \o Compute \in Codes(Emitted)
    BY <2>4, PiecesChecked, CodesJoined
  <2> QED
    BY <1>3, <2>1, <2>2, <2>5 DEF InferStatement
<1>4. CASE n.node = "match"
  <2>1. PICK a \in Codes(Emitted) : a = f[n.scrutinee]
    BY <1>4, PartsOfNodes
  <2>2. PICK b \in Codes(Emitted) :
           b = FlattenSeq([i \in DOMAIN n.cases |-> Compute \o Constrain \o f[n.cases[i]]])
    BY <1>4, PartsOfNodes, CasesChecked
  <2>3. PICK c \in Codes(Emitted) : c = Optional(f, n.default)
    BY <1>4, PartsOfNodes, OptionalIsCode
  <2>4. a \o b \in Codes(Emitted)
    BY CodesJoined
  <2>5. a \o b \o c \in Codes(Emitted)
    BY <2>4, CodesJoined
  <2>6. a \o b \o c \o Resolve \in Codes(Emitted)
    BY <2>5, PiecesChecked, CodesJoined
  <2>7. a \o b \o c \o Resolve \o Compute \in Codes(Emitted)
    BY <2>6, PiecesChecked, CodesJoined
  <2> QED
    BY <1>4, <2>1, <2>2, <2>3, <2>7 DEF InferStatement
<1> QED
  BY <1>1, <1>2, <1>3, <1>4

LEMMA InferStatementAgrees ==
    ASSUME NEW n \in Nodes, n.node \in {"block", "expression", "if", "match"}, NEW f, NEW g,
           \A m \in Below(n) : f[m] = g[m]
    PROVE  InferStatement(f, n) = InferStatement(g, n)
<1>1. CASE n.node = "block"
  BY <1>1 DEF InferStatement
<1>2. CASE n.node = "expression"
  BY <1>2, PartsOfNodes DEF InferStatement
<1>3. CASE n.node = "if"
  <2>1. f[n.condition] = g[n.condition] /\ f[n.consequent] = g[n.consequent]
    BY <1>3, PartsOfNodes
  <2>2. Optional(f, n.alternate) = Optional(g, n.alternate)
    <3>1. n.alternate \in Below(n) \cup {None}
      BY <1>3, PartsOfNodes
    <3> QED
      BY <3>1, OptionalAgrees
  <2> QED
    BY <1>3, <2>1, <2>2 DEF InferStatement
<1>4. CASE n.node = "match"
  <2>1. f[n.scrutinee] = g[n.scrutinee]
    BY <1>4, PartsOfNodes
  <2>2. Optional(f, n.default) = Optional(g, n.default)
    <3>1. n.default \in Below(n) \cup {None}
      BY <1>4, PartsOfNodes
    <3> QED
      BY <3>1, OptionalAgrees
  <2>3. [i \in DOMAIN n.cases |-> Compute \o Constrain \o f[n.cases[i]]]
            = [i \in DOMAIN n.cases |-> Compute \o Constrain \o g[n.cases[i]]]
    <3>1. n.cases \in Seq(Below(n))
      BY <1>4, PartsOfNodes
    <3>2. \A i \in DOMAIN n.cases : f[n.cases[i]] = g[n.cases[i]]
      BY <3>1
    <3> QED
      BY <3>2
  <2> QED
    BY <1>4, <2>1, <2>2, <2>3 DEF InferStatement
<1> QED
  BY <1>1, <1>2, <1>3, <1>4

LEMMA InferNodeIsCode ==
    ASSUME NEW n \in Nodes, NEW f, \A m \in Below(n) : f[m] \in Codes(Emitted)
    PROVE  InferNode(f, n) \in Codes(Emitted)
<1>1. CASE n.node \in Expressions
  BY <1>1, InferExpressionIsCode DEF InferNode, Expressions
<1>2. CASE n.node \in {"let", "function"}
  <2>1. CheckDeclaration(f, n) \o Compute \in Codes(Emitted)
    BY <1>2, DeclarationIsCode, PiecesChecked, CodesJoined
  <2> QED
    BY <1>2, <2>1 DEF InferNode, Expressions
<1>3. CASE n.node = "statement"
  BY <1>3, PartsOfNodes DEF InferNode, Expressions
<1>4. CASE n.node \in {"block", "expression", "if", "match"}
  BY <1>4, InferStatementIsCode DEF InferNode, Expressions
<1> QED
  BY <1>1, <1>2, <1>3, <1>4, ClassesOfNodes

LEMMA InferNodeAgrees ==
    ASSUME NEW n \in Nodes, NEW f, NEW g, \A m \in Below(n) : f[m] = g[m]
    PROVE  InferNode(f, n) = InferNode(g, n)
<1>1. CASE n.node \in Expressions
  BY <1>1, InferExpressionAgrees DEF InferNode, Expressions
<1>2. CASE n.node \in {"let", "function"}
  BY <1>2, DeclarationAgrees DEF InferNode, Expressions
<1>3. CASE n.node = "statement"
  BY <1>3, PartsOfNodes DEF InferNode, Expressions
<1>4. CASE n.node \in {"block", "expression", "if", "match"}
  BY <1>4, InferStatementAgrees DEF InferNode, Expressions
<1> QED
  BY <1>1, <1>2, <1>3, <1>4, ClassesOfNodes

LEMMA HeightsOfNodes == AreHeights(Nodes, Height)
<1>1. Height \in [Nodes -> Nat] /\ \E top \in Nodes : \A n \in Nodes : Height[n] <= Height[top]
  BY SyntaxAssumption
<1>2. PICK top \in Nodes : \A n \in Nodes : Height[n] <= Height[top]
  BY <1>1
<1>3. PICK h \in Nat : h = Height[top]
  BY <1>1
<1> QED
  BY <1>1, <1>2, <1>3 DEF AreHeights

LEMMA InferIsCode == \A n \in Nodes : infer[n] \in Codes(Emitted)
<1> DEFINE V == Codes(Emitted)
           F == [f \in [Nodes -> V] |-> [n \in Nodes |-> InferNode(f, n)]]
<1>1. FromBelow(F, Nodes, V, Height)
  <2>1. F \in [[Nodes -> V] -> [Nodes -> V]]
    <3> SUFFICES ASSUME NEW f \in [Nodes -> V], NEW n \in Nodes PROVE InferNode(f, n) \in V
      OBVIOUS
    <3>1. \A m \in Below(n) : f[m] \in V
      BY DEF Below
    <3> QED
      BY <3>1, InferNodeIsCode
  <2>2. ASSUME NEW f \in [Nodes -> V], NEW g \in [Nodes -> V], NEW n \in Nodes,
               \A m \in Nodes : Height[m] < Height[n] => f[m] = g[m]
        PROVE  F[f][n] = F[g][n]
    <3>1. \A m \in Below(n) : f[m] = g[m]
      BY <2>2 DEF Below
    <3>2. InferNode(f, n) = InferNode(g, n)
      BY <3>1, InferNodeAgrees
    <3> QED
      BY <3>2
  <2> HIDE DEF V, F
  <2> QED
    BY <2>1, <2>2 DEF FromBelow
<1>2. \E start : start \in [Nodes -> V]
  <2>1. [n \in Nodes |-> Compute] \in [Nodes -> V]
    BY PiecesChecked
  <2> QED
    BY <2>1
<1>3. PICK f \in [Nodes -> V] : f = F[f]
  <2> HIDE DEF V, F
  <2> QED
    BY <1>1, <1>2, HeightsOfNodes, FixedPoint
<1>4. f = [n \in Nodes |-> InferNode(f, n)]
  BY <1>3
<1>5. infer = [n \in Nodes |-> InferNode(infer, n)]
  <2>1. \E g : g = [n \in Nodes |-> InferNode(g, n)]
    BY <1>4
  <2> QED
    BY <2>1 DEF infer
<1> DEFINE T == {n \in Nodes : infer[n] \in Codes(Emitted)}
<1>6. ASSUME NEW n \in Nodes, \A m \in Nodes : Height[m] < Height[n] => m \in T
      PROVE  n \in T
  <2>1. \A m \in Below(n) : infer[m] \in Codes(Emitted)
    BY <1>6 DEF Below
  <2>2. InferNode(infer, n) \in Codes(Emitted)
    BY <2>1, InferNodeIsCode
  <2>3. infer[n] = InferNode(infer, n)
    BY <1>5
  <2> QED
    BY <2>2, <2>3
<1>7. Height \in [Nodes -> Nat]
  BY SyntaxAssumption
<1> HIDE DEF T
<1>8. \A n \in Nodes : n \in T
  BY <1>6, <1>7, HeightInduction
<1> QED
  BY <1>8 DEF T

\* A block's scopes, and what is checked under a condition.
LEMMA CheckStatementIsCode ==
    ASSUME NEW n \in Nodes, n.node \in {"block", "expression", "if", "match"}, NEW f,
           \A m \in Below(n) : f[m] \in Codes(Emitted)
    PROVE  CheckStatement(f, n) \in Codes(Emitted)
<1>1. \A m \in Below(n) : infer[m] \in Codes(Emitted)
  BY InferIsCode DEF Below
<1>2. CASE n.node = "block"
  <2>1. PICK parts \in Seq(Below(n)) : parts = n.declarations
    BY <1>2, PartsOfNodes
  <2> DEFINE c == IF parts = <<>> THEN <<>>
                  ELSE FlattenSeq([i \in 1 .. Len(parts) - 1 |-> infer[parts[i]]])
                          \o f[parts[Len(parts)]]
  <2>2. c \in Codes(Emitted)
    <3>1. CASE parts # <<>>
      <4> DEFINE each == [i \in 1 .. Len(parts) - 1 |-> infer[parts[i]]]
      <4>1. PICK k \in Nat : k = Len(parts) - 1
        BY <3>1
      <4>2. ASSUME NEW i \in 1 .. k PROVE each[i] \in Codes(Emitted)
        <5>1. parts[i] \in Below(n)
          BY <4>1
        <5> QED
          BY <1>1, <4>1, <5>1
      <4>3. each = [i \in 1 .. k |-> each[i]]
        BY <4>1
      <4>4. f[parts[Len(parts)]] \in Codes(Emitted)
        <5>1. parts[Len(parts)] \in Below(n)
          BY <3>1
        <5> QED
          BY <5>1
      <4> HIDE DEF each
      <4>5. each \in Seq(Codes(Emitted))
        BY <4>2, <4>3, IsSequence
      <4>6. FlattenSeq(each) \in Codes(Emitted)
        BY <4>5, EachIsCode
      <4>7. FlattenSeq(each) \o f[parts[Len(parts)]] \in Codes(Emitted)
        BY <4>4, <4>6, CodesJoined
      <4> QED
        BY <3>1, <4>7 DEF each
    <3> QED
      BY <3>1, PiecesChecked
  <2>3. CheckStatement(f, n) = Unified(Scoped(c))
    BY <1>2, <2>1 DEF CheckStatement
  <2> HIDE DEF c
  <2>4. Unified(Scoped(c)) \in Codes(Emitted)
    BY <2>2, ScopesAreCode
  <2> QED
    BY <2>3, <2>4
<1>3. CASE n.node = "expression"
  BY <1>3, PartsOfNodes DEF CheckStatement
<1>4. CASE n.node = "if"
  <2>1. PICK a \in Codes(Emitted), b \in Codes(Emitted) : a = infer[n.condition] /\ b = f[n.consequent]
    BY <1>1, <1>4, PartsOfNodes
  <2> DEFINE c == IF n.alternate = None THEN Constrain ELSE <<>>
             d == IF n.alternate = None THEN <<>> ELSE Unified(Constrain \o f[n.alternate])
  <2>2. c \in Codes(Emitted)
    BY PiecesChecked
  <2>3. d \in Codes(Emitted)
    <3>1. CASE n.alternate # None
      <4>1. PICK e \in Codes(Emitted) : e = f[n.alternate]
        BY <1>4, <3>1, PartsOfNodes
      <4>2. Constrain \o e \in Codes(Emitted)
        BY PiecesChecked, CodesJoined
      <4> QED
        BY <3>1, <4>1, <4>2, ScopesAreCode
    <3> QED
      BY <3>1, PiecesChecked
  <2>4. CheckStatement(f, n) = a \o CheckInferred(a) \o c \o Unified(Constrain \o b) \o d
    BY <1>4, <2>1 DEF CheckStatement
  <2> HIDE DEF c, d
  <2>5. Constrain \o b \in Codes(Emitted)
    BY PiecesChecked, CodesJoined
  <2>6. Unified(Constrain \o b) \in Codes(Emitted)
    BY <2>5, ScopesAreCode
  <2>7. a \o CheckInferred(a) \in Codes(Emitted)
    BY InferAsTypeIsCode, CodesJoined
  <2>8. a \o CheckInferred(a) \o c \in Codes(Emitted)
    BY <2>2, <2>7, CodesJoined
  <2>9. a \o CheckInferred(a) \o c \o Unified(Constrain \o b) \in Codes(Emitted)
    BY <2>6, <2>8, CodesJoined
  <2>10. a \o CheckInferred(a) \o c \o Unified(Constrain \o b) \o d \in Codes(Emitted)
    BY <2>3, <2>9, CodesJoined
  <2> QED
    BY <2>4, <2>10
<1>5. CASE n.node = "match"
  <2>1. PICK a \in Codes(Emitted) : a = infer[n.scrutinee]
    BY <1>1, <1>5, PartsOfNodes
  <2>2. PICK b \in Codes(Emitted) :
           b = FlattenSeq([i \in DOMAIN n.cases |-> Compute \o Constrain \o f[n.cases[i]]])
    BY <1>5, PartsOfNodes, CasesChecked
  <2>3. PICK c \in Codes(Emitted) : c = Optional(f, n.default)
    BY <1>5, PartsOfNodes, OptionalIsCode
  <2>4. a \o b \in Codes(Emitted)
    BY CodesJoined
  <2>5. a \o b \o c \in Codes(Emitted)
    BY <2>4, CodesJoined
  <2> QED
    BY <1>5, <2>1, <2>2, <2>3, <2>5 DEF CheckStatement
<1> QED
  BY <1>2, <1>3, <1>4, <1>5

LEMMA CheckStatementAgrees ==
    ASSUME NEW n \in Nodes, n.node \in {"block", "expression", "if", "match"}, NEW f, NEW g,
           \A m \in Below(n) : f[m] = g[m]
    PROVE  CheckStatement(f, n) = CheckStatement(g, n)
<1>1. CASE n.node = "block"
  <2>1. PICK parts \in Seq(Below(n)) : parts = n.declarations
    BY <1>1, PartsOfNodes
  <2>2. parts # <<>> => f[parts[Len(parts)]] = g[parts[Len(parts)]]
    <3>1. parts # <<>> => parts[Len(parts)] \in Below(n)
      OBVIOUS
    <3> QED
      BY <3>1
  <2> QED
    BY <1>1, <2>1, <2>2 DEF CheckStatement
<1>2. CASE n.node = "expression"
  BY <1>2, PartsOfNodes DEF CheckStatement
<1>3. CASE n.node = "if"
  <2>1. f[n.consequent] = g[n.consequent] /\ (n.alternate # None => f[n.alternate] = g[n.alternate])
    BY <1>3, PartsOfNodes
  <2> QED
    BY <1>3, <2>1 DEF CheckStatement
<1>4. CASE n.node = "match"
  <2>1. Optional(f, n.default) = Optional(g, n.default)
    <3>1. n.default \in Below(n) \cup {None}
      BY <1>4, PartsOfNodes
    <3> QED
      BY <3>1, OptionalAgrees
  <2>2. [i \in DOMAIN n.cases |-> Compute \o Constrain \o f[n.cases[i]]]
            = [i \in DOMAIN n.cases |-> Compute \o Constrain \o g[n.cases[i]]]
    <3>1. n.cases \in Seq(Below(n))
      BY <1>4, PartsOfNodes
    <3>2. \A i \in DOMAIN n.cases : f[n.cases[i]] = g[n.cases[i]]
      BY <3>1
    <3> QED
      BY <3>2
  <2> QED
    BY <1>4, <2>1, <2>2 DEF CheckStatement
<1> QED
  BY <1>1, <1>2, <1>3, <1>4

LEMMA CheckNodeIsCode ==
    ASSUME NEW n \in Nodes, NEW f, \A m \in Below(n) : f[m] \in Codes(Emitted)
    PROVE  CheckNode(f, n) \in Codes(Emitted)
<1>1. CASE n.node \in Expressions
  BY <1>1, InferIsCode, InferAsTypeIsCode DEF CheckNode, Expressions
<1>2. CASE n.node \in {"let", "function"}
  <2>1. \A m \in Below(n) : infer[m] \in Codes(Emitted)
    BY InferIsCode DEF Below
  <2>2. CheckDeclaration(infer, n) \in Codes(Emitted)
    BY <1>2, <2>1, DeclarationIsCode
  <2> QED
    BY <1>2, <2>2 DEF CheckNode, Expressions
<1>3. CASE n.node = "statement"
  BY <1>3, PartsOfNodes DEF CheckNode, Expressions
<1>4. CASE n.node \in {"block", "expression", "if", "match"}
  BY <1>4, CheckStatementIsCode DEF CheckNode, Expressions
<1> QED
  BY <1>1, <1>2, <1>3, <1>4, ClassesOfNodes

LEMMA CheckNodeAgrees ==
    ASSUME NEW n \in Nodes, NEW f, NEW g, \A m \in Below(n) : f[m] = g[m]
    PROVE  CheckNode(f, n) = CheckNode(g, n)
<1>1. CASE n.node \in Expressions \cup {"let", "function"}
  BY <1>1 DEF CheckNode, Expressions
<1>2. CASE n.node = "statement"
  BY <1>2, PartsOfNodes DEF CheckNode, Expressions
<1>3. CASE n.node \in {"block", "expression", "if", "match"}
  BY <1>3, CheckStatementAgrees DEF CheckNode, Expressions
<1> QED
  BY <1>1, <1>2, <1>3, ClassesOfNodes

LEMMA CheckIsCode == \A n \in Nodes : check[n] \in Codes(Emitted)
<1> DEFINE V == Codes(Emitted)
           F == [f \in [Nodes -> V] |-> [n \in Nodes |-> CheckNode(f, n)]]
<1>1. FromBelow(F, Nodes, V, Height)
  <2>1. F \in [[Nodes -> V] -> [Nodes -> V]]
    <3> SUFFICES ASSUME NEW f \in [Nodes -> V], NEW n \in Nodes PROVE CheckNode(f, n) \in V
      OBVIOUS
    <3>1. \A m \in Below(n) : f[m] \in V
      BY DEF Below
    <3> QED
      BY <3>1, CheckNodeIsCode
  <2>2. ASSUME NEW f \in [Nodes -> V], NEW g \in [Nodes -> V], NEW n \in Nodes,
               \A m \in Nodes : Height[m] < Height[n] => f[m] = g[m]
        PROVE  F[f][n] = F[g][n]
    <3>1. \A m \in Below(n) : f[m] = g[m]
      BY <2>2 DEF Below
    <3>2. CheckNode(f, n) = CheckNode(g, n)
      BY <3>1, CheckNodeAgrees
    <3> QED
      BY <3>2
  <2> HIDE DEF V, F
  <2> QED
    BY <2>1, <2>2 DEF FromBelow
<1>2. \E start : start \in [Nodes -> V]
  <2>1. [n \in Nodes |-> Compute] \in [Nodes -> V]
    BY PiecesChecked
  <2> QED
    BY <2>1
<1>3. PICK f \in [Nodes -> V] : f = F[f]
  <2> HIDE DEF V, F
  <2> QED
    BY <1>1, <1>2, HeightsOfNodes, FixedPoint
<1>4. f = [n \in Nodes |-> CheckNode(f, n)]
  BY <1>3
<1>5. check = [n \in Nodes |-> CheckNode(check, n)]
  <2>1. \E g : g = [n \in Nodes |-> CheckNode(g, n)]
    BY <1>4
  <2> QED
    BY <2>1 DEF check
<1> DEFINE T == {n \in Nodes : check[n] \in Codes(Emitted)}
<1>6. ASSUME NEW n \in Nodes, \A m \in Nodes : Height[m] < Height[n] => m \in T
      PROVE  n \in T
  <2>1. \A m \in Below(n) : check[m] \in Codes(Emitted)
    BY <1>6 DEF Below
  <2>2. CheckNode(check, n) \in Codes(Emitted)
    BY <2>1, CheckNodeIsCode
  <2>3. check[n] = CheckNode(check, n)
    BY <1>5
  <2> QED
    BY <2>2, <2>3
<1>7. Height \in [Nodes -> Nat]
  BY SyntaxAssumption
<1> HIDE DEF T
<1>8. \A n \in Nodes : n \in T
  BY <1>6, <1>7, HeightInduction
<1> QED
  BY <1>8 DEF T

LEMMA PiecesRun ==
    /\ Compute \in Codes(Others) /\ Lookup \in Codes(Others) /\ <<>> \in Codes(Others)
    /\ <<Op("runtimeError")>> \in Codes(Others)
    /\ Jump(1) \in Codes(Others) /\ Branch(0) \in Codes(Others)
<1>1. Others \subseteq Others
  OBVIOUS
<1> QED
  BY <1>1, Pieces, NoCode

LEMMA GenerateExpressionIsCode ==
    ASSUME NEW e \in Nodes, e.node \in Expressions, NEW f, \A m \in Below(e) : f[m] \in Codes(Others)
    PROVE  GenerateExpression(f, e) \in Codes(Others)
<1>1. CASE e.node \in {"literal", "identifier"}
  BY <1>1, PiecesRun DEF GenerateExpression
<1>2. CASE e.node \in {"array", "record"}
  <2>1. PICK a \in Codes(Others) : a = EachOf(f, e.items)
    BY <1>2, PartsOfNodes, PartsAreCode
  <2>2. Compute \o a \in Codes(Others)
    BY PiecesRun, CodesJoined
  <2> QED
    BY <1>2, <2>1, <2>2 DEF GenerateExpression
<1>3. CASE e.node = "subscript"
  <2>1. PICK a \in Codes(Others), b \in Codes(Others) : a = f[e.target] /\ b = f[e.index]
    BY <1>3, PartsOfNodes
  <2>2. a \o b \in Codes(Others)
    BY CodesJoined
  <2>3. a \o b \o Compute \in Codes(Others)
    BY <2>2, PiecesRun, CodesJoined
  <2> QED
    BY <1>3, <2>1, <2>3 DEF GenerateExpression
<1>4. CASE e.node = "member"
  <2>1. PICK a \in Codes(Others) : a = f[e.object]
    BY <1>4, PartsOfNodes
  <2>2. a \o Compute \in Codes(Others)
    BY PiecesRun, CodesJoined
  <2> QED
    BY <1>4, <2>1, <2>2 DEF GenerateExpression
<1>5. CASE e.node = "call"
  <2>1. PICK a \in Codes(Others) : a = f[e.callee]
    BY <1>5, PartsOfNodes
  <2>2. PICK b \in Codes(Others) : b = EachOf(f, e.arguments)
    BY <1>5, PartsOfNodes, PartsAreCode
  <2>3. CallFunction(e) \in Codes(Others)
    <3>1. Others \subseteq Others
      OBVIOUS
    <3> QED
      BY <3>1, FunctionPieces
  <2>4. a \o b \in Codes(Others)
    BY CodesJoined
  <2>5. a \o b \o CallFunction(e) \in Codes(Others)
    BY <2>3, <2>4, CodesJoined
  <2> QED
    BY <1>5, <2>1, <2>2, <2>5 DEF GenerateExpression
<1> QED
  BY <1>1, <1>2, <1>3, <1>4, <1>5 DEF Expressions

LEMMA GenerateExpressionAgrees ==
    ASSUME NEW e \in Nodes, e.node \in Expressions, NEW f, NEW g, \A m \in Below(e) : f[m] = g[m]
    PROVE  GenerateExpression(f, e) = GenerateExpression(g, e)
<1>1. CASE e.node \in {"literal", "identifier"}
  BY <1>1 DEF GenerateExpression
<1>2. CASE e.node \in {"array", "record"}
  <2>1. EachOf(f, e.items) = EachOf(g, e.items)
    BY <1>2, PartsOfNodes, PartsAgree
  <2> QED
    BY <1>2, <2>1 DEF GenerateExpression
<1>3. CASE e.node = "subscript"
  <2>1. f[e.index] = g[e.index] /\ f[e.target] = g[e.target]
    BY <1>3, PartsOfNodes
  <2> QED
    BY <1>3, <2>1 DEF GenerateExpression
<1>4. CASE e.node = "member"
  <2>1. f[e.object] = g[e.object]
    BY <1>4, PartsOfNodes
  <2> QED
    BY <1>4, <2>1 DEF GenerateExpression
<1>5. CASE e.node = "call"
  <2>1. f[e.callee] = g[e.callee]
    BY <1>5, PartsOfNodes
  <2>2. EachOf(f, e.arguments) = EachOf(g, e.arguments)
    BY <1>5, PartsOfNodes, PartsAgree
  <2> QED
    BY <1>5, <2>1, <2>2 DEF GenerateExpression
<1> QED
  BY <1>1, <1>2, <1>3, <1>4, <1>5 DEF Expressions

LEMMA GenerateStatementIsCode ==
    ASSUME NEW n \in Nodes, n.node \in {"block", "expression", "if", "match"}, NEW f,
           \A m \in Below(n) : f[m] \in Codes(Others)
    PROVE  GenerateStatement(f, n) \in Codes(Others)
<1>1. CASE n.node = "block"
  <2>1. EachOf(f, n.declarations) \in Codes(Others)
    BY <1>1, PartsOfNodes, PartsAreCode
  <2> QED
    BY <1>1, <2>1, PiecesRun DEF GenerateStatement
<1>2. CASE n.node = "expression"
  BY <1>2, PartsOfNodes DEF GenerateStatement
<1>3. CASE n.node = "if"
  <2>1. PICK a \in Codes(Others), b \in Codes(Others) : a = f[n.condition] /\ b = f[n.consequent]
    BY <1>3, PartsOfNodes
  <2> DEFINE c == IF n.alternate = None THEN Branch(0) \o b \o Jump(1) ELSE IfElse(b, f[n.alternate])
  <2>2. c \in Codes(Others)
    <3>1. Branch(0) \o b \in Codes(Others)
      BY PiecesRun, CodesJoined
    <3>2. Branch(0) \o b \o Jump(1) \in Codes(Others)
      BY <3>1, PiecesRun, CodesJoined
    <3>3. ASSUME n.alternate # None PROVE IfElse(b, f[n.alternate]) \in Codes(Others)
      <4>1. PICK d \in Codes(Others) : d = f[n.alternate]
        BY <1>3, <3>3, PartsOfNodes
      <4>2. Others \subseteq Others
        OBVIOUS
      <4>3. IfElse(b, d) \in Codes(Others)
        BY <4>2, IfElseIsCode
      <4> QED
        BY <4>1, <4>3
    <3> QED
      BY <3>2, <3>3
  <2>3. GenerateStatement(f, n) = a \o c
    BY <1>3, <2>1 DEF GenerateStatement, GenerateIf
  <2> HIDE DEF c
  <2>4. a \o c \in Codes(Others)
    BY <2>2, CodesJoined
  <2> QED
    BY <2>3, <2>4
<1>4. CASE n.node = "match"
  <2>1. PICK a \in Codes(Others) : a = f[n.scrutinee]
    BY <1>4, PartsOfNodes
  <2>2. PICK cases \in Seq(Codes(Others)) : cases = [i \in DOMAIN n.cases |-> f[n.cases[i]]]
    <3>1. PICK parts \in Seq(Below(n)) : parts = n.cases
      BY <1>4, PartsOfNodes
    <3>2. [i \in DOMAIN parts |-> f[parts[i]]] \in Seq(Codes(Others))
      BY PartsAreCode
    <3> QED
      BY <3>1, <3>2
  <2>3. PICK default \in Codes(Others) :
           default = IF n.default = None THEN <<Op("runtimeError")>> ELSE f[n.default]
    BY <1>4, PartsOfNodes, PiecesRun
  <2>4. GenerateCases(cases, default) \in Codes(Others)
    <3>1. Others \subseteq Others
      OBVIOUS
    <3> QED
      BY <3>1, CasesAreCode
  <2>5. a \o GenerateCases(cases, default) \in Codes(Others)
    BY <2>4, CodesJoined
  <2>6. GenerateStatement(f, n) = a \o GenerateCases(cases, default)
    BY <1>4, <2>1, <2>2, <2>3 DEF GenerateStatement
  <2> QED
    BY <2>5, <2>6
<1> QED
  BY <1>1, <1>2, <1>3, <1>4

LEMMA GenerateStatementAgrees ==
    ASSUME NEW n \in Nodes, n.node \in {"block", "expression", "if", "match"}, NEW f, NEW g,
           \A m \in Below(n) : f[m] = g[m]
    PROVE  GenerateStatement(f, n) = GenerateStatement(g, n)
<1>1. CASE n.node = "block"
  <2>1. EachOf(f, n.declarations) = EachOf(g, n.declarations)
    BY <1>1, PartsOfNodes, PartsAgree
  <2> QED
    BY <1>1, <2>1 DEF GenerateStatement
<1>2. CASE n.node = "expression"
  BY <1>2, PartsOfNodes DEF GenerateStatement
<1>3. CASE n.node = "if"
  <2>1. /\ f[n.condition] = g[n.condition] /\ f[n.consequent] = g[n.consequent]
        /\ n.alternate # None => f[n.alternate] = g[n.alternate]
    BY <1>3, PartsOfNodes
  <2> QED
    BY <1>3, <2>1 DEF GenerateStatement, GenerateIf
<1>4. CASE n.node = "match"
  <2>1. f[n.scrutinee] = g[n.scrutinee] /\ (n.default # None => f[n.default] = g[n.default])
    BY <1>4, PartsOfNodes
  <2>2. [i \in DOMAIN n.cases |-> f[n.cases[i]]] = [i \in DOMAIN n.cases |-> g[n.cases[i]]]
    <3>1. n.cases \in Seq(Below(n))
      BY <1>4, PartsOfNodes
    <3>2. \A i \in DOMAIN n.cases : f[n.cases[i]] = g[n.cases[i]]
      BY <3>1
    <3> QED
      BY <3>2
  <2> QED
    BY <1>4, <2>1, <2>2 DEF GenerateStatement
<1> QED
  BY <1>1, <1>2, <1>3, <1>4

LEMMA GenerateNodeIsCode ==
    ASSUME NEW n \in Nodes, NEW f, \A m \in Below(n) : f[m] \in Codes(Others)
    PROVE  GenerateNode(f, n) \in Codes(Others)
<1>1. CASE n.node \in Expressions
  BY <1>1, GenerateExpressionIsCode DEF GenerateNode, Expressions
<1>2. CASE n.node = "let"
  <2>1. PICK a \in Codes(Others) : a = f[n.initializer]
    BY <1>2, PartsOfNodes
  <2>2. a \o Compute \in Codes(Others)
    BY PiecesRun, CodesJoined
  <2> QED
    BY <1>2, <2>1, <2>2 DEF GenerateNode, Expressions
<1>3. CASE n.node = "function"
  <2>1. Others \subseteq Others
    OBVIOUS
  <2>2. NewFunction(n) \in Codes(Others)
    BY <2>1, FunctionPieces
  <2>3. NewFunction(n) \o Compute \in Codes(Others)
    BY <2>2, PiecesRun, CodesJoined
  <2> QED
    BY <1>3, <2>3 DEF GenerateNode, Expressions
<1>4. CASE n.node = "statement"
  BY <1>4, PartsOfNodes DEF GenerateNode, Expressions
<1>5. CASE n.node \in {"block", "expression", "if", "match"}
  BY <1>5, GenerateStatementIsCode DEF GenerateNode, Expressions
<1> QED
  BY <1>1, <1>2, <1>3, <1>4, <1>5, ClassesOfNodes

LEMMA GenerateNodeAgrees ==
    ASSUME NEW n \in Nodes, NEW f, NEW g, \A m \in Below(n) : f[m] = g[m]
    PROVE  GenerateNode(f, n) = GenerateNode(g, n)
<1>1. CASE n.node \in Expressions
  BY <1>1, GenerateExpressionAgrees DEF GenerateNode, Expressions
<1>2. CASE n.node \in {"let", "function", "statement"}
  BY <1>2, PartsOfNodes DEF GenerateNode, Expressions
<1>3. CASE n.node \in {"block", "expression", "if", "match"}
  BY <1>3, GenerateStatementAgrees DEF GenerateNode, Expressions
<1> QED
  BY <1>1, <1>2, <1>3, ClassesOfNodes

LEMMA GenerateIsCode == \A n \in Nodes : generate[n] \in Codes(Others)
<1> DEFINE V == Codes(Others)
           F == [f \in [Nodes -> V] |-> [n \in Nodes |-> GenerateNode(f, n)]]
<1>1. FromBelow(F, Nodes, V, Height)
  <2>1. F \in [[Nodes -> V] -> [Nodes -> V]]
    <3> SUFFICES ASSUME NEW f \in [Nodes -> V], NEW n \in Nodes PROVE GenerateNode(f, n) \in V
      OBVIOUS
    <3>1. \A m \in Below(n) : f[m] \in V
      BY DEF Below
    <3> QED
      BY <3>1, GenerateNodeIsCode
  <2>2. ASSUME NEW f \in [Nodes -> V], NEW g \in [Nodes -> V], NEW n \in Nodes,
               \A m \in Nodes : Height[m] < Height[n] => f[m] = g[m]
        PROVE  F[f][n] = F[g][n]
    <3>1. \A m \in Below(n) : f[m] = g[m]
      BY <2>2 DEF Below
    <3>2. GenerateNode(f, n) = GenerateNode(g, n)
      BY <3>1, GenerateNodeAgrees
    <3> QED
      BY <3>2
  <2> HIDE DEF V, F
  <2> QED
    BY <2>1, <2>2 DEF FromBelow
<1>2. \E start : start \in [Nodes -> V]
  <2>1. [n \in Nodes |-> Compute] \in [Nodes -> V]
    BY PiecesRun
  <2> QED
    BY <2>1
<1>3. PICK f \in [Nodes -> V] : f = F[f]
  <2> HIDE DEF V, F
  <2> QED
    BY <1>1, <1>2, HeightsOfNodes, FixedPoint
<1>4. f = [n \in Nodes |-> GenerateNode(f, n)]
  BY <1>3
<1>5. generate = [n \in Nodes |-> GenerateNode(generate, n)]
  <2>1. \E g : g = [n \in Nodes |-> GenerateNode(g, n)]
    BY <1>4
  <2> QED
    BY <2>1 DEF generate
<1> DEFINE T == {n \in Nodes : generate[n] \in Codes(Others)}
<1>6. ASSUME NEW n \in Nodes, \A m \in Nodes : Height[m] < Height[n] => m \in T
      PROVE  n \in T
  <2>1. \A m \in Below(n) : generate[m] \in Codes(Others)
    BY <1>6 DEF Below
  <2>2. GenerateNode(generate, n) \in Codes(Others)
    BY <2>1, GenerateNodeIsCode
  <2>3. generate[n] = GenerateNode(generate, n)
    BY <1>5
  <2> QED
    BY <2>2, <2>3
<1>7. Height \in [Nodes -> Nat]
  BY SyntaxAssumption
<1> HIDE DEF T
<1>8. \A n \in Nodes : n \in T
  BY <1>6, <1>7, HeightInduction
<1> QED
  BY <1>8 DEF T

-----------------------------------------------------------------------------
(* Halves of blocks                                                        *)

\* What control does after an instruction of a half, from its Enter to its End.
HalfFlows(h, s, u, pc) ==
    /\ h[pc].op = "enter" <=> pc = 1
    /\ h[pc].op \in {"enter", "end"} => s[pc] = 0 /\ u[pc] = 0
    /\ h[pc].op \notin {"end", "runtimeError", "jump"} =>
          /\ pc + 1 \in 2 .. Len(h)
          /\ s[pc + 1] = s[pc] + Change(h[pc].op, "pushScope", "popScope")
          /\ u[pc + 1] = u[pc] + Change(h[pc].op, "pushUnification", "popUnification")
    /\ h[pc].op \in {"jump", "branch"} =>
          /\ h[pc].by \in Nat /\ pc + h[pc].by \in 2 .. Len(h)
          /\ s[pc + h[pc].by] = s[pc] /\ u[pc + h[pc].by] = u[pc]

MayBeHalf(h, s, u) ==
    /\ Len(h) \in Nat /\ h \in Seq({h[pc] : pc \in 1 .. Len(h)})
    /\ s \in [1 .. Len(h) -> Nat] /\ u \in [1 .. Len(h) -> Nat]
    /\ \A pc \in 1 .. Len(h) : HalfFlows(h, s, u, pc)
IsHalf(h, s, u) == MayBeHalf(h, s, u) /\ Len(h) >= 2

\* Enter, the code, and End.
Encloses(h, code) ==
    /\ Len(h) = Len(code) + 2 /\ h \in Seq({h[pc] : pc \in 1 .. Len(code) + 2})
    /\ h[1].op = "enter" /\ h[Len(code) + 2].op = "end"
    /\ \A k \in 1 .. Len(code) : h[k + 1] = code[k]

LEMMA AroundEncloses ==
    ASSUME NEW S, NEW open \in S, NEW close \in S, open.op = "enter", close.op = "end",
           NEW c \in Seq(S)
    PROVE  Encloses(Around(open, c, close), c)
<1> DEFINE h == Around(open, c, close)
           n == Len(c)
<1>1. /\ h \in Seq(S) /\ Len(h) = n + 2 /\ n \in Nat
      /\ h[1] = open /\ h[n + 2] = close
      /\ \A k \in 1 .. n : h[k + 1] = c[k]
  BY AroundIs
<1> HIDE DEF h, n
<1>2. h \in Seq({h[pc] : pc \in 1 .. n + 2})
  <2> DEFINE V == {h[pc] : pc \in 1 .. n + 2}
  <2>1. h = [pc \in 1 .. n + 2 |-> h[pc]]
    BY <1>1
  <2>2. n + 2 \in Nat /\ \A pc \in 1 .. n + 2 : h[pc] \in V
    BY <1>1
  <2> HIDE DEF V
  <2>3. h \in Seq(V)
    BY <2>1, <2>2, IsSequence
  <2> QED
    BY <2>3 DEF V
<1>3. Encloses(h, c)
  BY <1>1, <1>2 DEF Encloses, n
<1> QED
  BY <1>3 DEF h

LEMMA HalfIs ==
    ASSUME NEW T, NEW code \in Seq(T)
    PROVE  Encloses(Half(code), code)
<1>1. PICK S : S = T \cup {Op("enter"), EndCode[1]}
  OBVIOUS
<1>2. PICK open \in S, close \in S : open = Op("enter") /\ close = EndCode[1]
  BY <1>1
<1>3. PICK c \in Seq(S) : c = code
  BY <1>1
<1>4. Half(code) = Around(open, c, close)
  BY <1>2, <1>3 DEF Half, Around, EndCode
<1>5. open.op = "enter" /\ close.op = "end"
  BY <1>2 DEF Op, EndCode
<1>6. Encloses(Around(open, c, close), c)
  BY <1>5, AroundEncloses
<1> QED
  BY <1>3, <1>4, <1>6

LEMMA HalfOfCode ==
    ASSUME NEW ops, ops \subseteq Emitted, NEW code, code \in Codes(ops),
           NEW s, NEW u, Levels(code, 0, s, u)
    PROVE  \E ss, uu : /\ IsHalf(Half(code), ss, uu)
                       /\ \A k \in 1 .. Len(code) : uu[k + 1] = u[k]
<1> DEFINE n == Len(code)
           h == Half(code)
           ss == [pc \in 1 .. n + 2 |-> IF pc = 1 THEN 0 ELSE s[pc - 1]]
           uu == [pc \in 1 .. n + 2 |-> IF pc = 1 THEN 0 ELSE u[pc - 1]]
<1>1. code \in Seq(AnyInstruction) /\ n \in Nat
  BY DEF Codes
<1>2. /\ Len(h) = n + 2 /\ h \in Seq({h[pc] : pc \in 1 .. n + 2})
      /\ h[1].op = "enter" /\ h[n + 2].op = "end"
      /\ \A k \in 1 .. n : h[k + 1] = code[k]
  <2>1. Encloses(h, code)
    BY <1>1, HalfIs
  <2> HIDE DEF h
  <2> QED
    BY <2>1 DEF Encloses
<1>3. /\ s \in [1 .. n + 1 -> Nat] /\ u \in [1 .. n + 1 -> Nat]
      /\ s[1] = 0 /\ u[1] = 0 /\ s[n + 1] = 0 /\ u[n + 1] = 0
      /\ \A pc \in 1 .. n : Flows(code, 0, s, u, pc)
  BY DEF Levels
<1>4. \A pc \in 1 .. n : code[pc].op \in Emitted
  BY DEF Codes, Balanced
<1> HIDE DEF n, h
<1>5. /\ ss[1] = 0 /\ uu[1] = 0 /\ ss[n + 2] = 0 /\ uu[n + 2] = 0
      /\ \A k \in 1 .. n + 1 : ss[k + 1] = s[k] /\ uu[k + 1] = u[k]
  <2>1. ss[1] = 0 /\ uu[1] = 0
    BY <1>1
  <2>2. ASSUME NEW k \in 1 .. n + 1 PROVE ss[k + 1] = s[k] /\ uu[k + 1] = u[k]
    <3>1. PICK pc \in 1 .. n + 2 : pc = k + 1 /\ pc # 1 /\ pc - 1 = k
      BY <1>1
    <3>2. ss[pc] = s[pc - 1] /\ uu[pc] = u[pc - 1]
      BY <3>1
    <3> QED
      BY <3>1, <3>2
  <2>3. PICK k \in 1 .. n + 1 : k = n + 1 /\ k + 1 = n + 2
    BY <1>1
  <2> HIDE DEF ss, uu
  <2>4. ss[n + 2] = 0 /\ uu[n + 2] = 0
    BY <1>3, <2>2, <2>3
  <2> QED
    BY <2>1, <2>2, <2>4
<1>6. ss \in [1 .. n + 2 -> Nat] /\ uu \in [1 .. n + 2 -> Nat]
  <2>1. \A pc \in 1 .. n + 2 : pc # 1 => pc - 1 \in 1 .. n + 1
    BY <1>1
  <2>2. \A pc \in 1 .. n + 2 : ss[pc] \in Nat /\ uu[pc] \in Nat
    BY <1>3, <2>1
  <2> QED
    BY <2>2
<1> HIDE DEF ss, uu
<1>7. HalfFlows(h, ss, uu, 1)
  <2>1. 1 \in 1 .. n + 1 /\ 1 + 1 \in 2 .. n + 2
    BY <1>1
  <2>2. ss[1 + 1] = 0 /\ uu[1 + 1] = 0
    BY <1>3, <1>5, <2>1
  <2>3. 0 = 0 + Change("enter", "pushScope", "popScope") /\ 0 = 0 + Change("enter", "pushUnification", "popUnification")
    BY DEF Change
  <2> QED
    BY <1>2, <1>5, <2>1, <2>2, <2>3 DEF HalfFlows
<1>8. HalfFlows(h, ss, uu, n + 2)
  <2>1. n + 2 # 1
    BY <1>1
  <2> QED
    BY <1>2, <1>5, <2>1 DEF HalfFlows
<1>9. ASSUME NEW k \in 1 .. n PROVE HalfFlows(h, ss, uu, k + 1)
  <2>1. Flows(code, 0, s, u, k) /\ h[k + 1] = code[k] /\ code[k].op \in Emitted
    BY <1>2, <1>3, <1>4
  <2>2. code[k].op \notin {"enter", "end"}
    BY <2>1 DEF Emitted, Others, Checking
  <2>3. /\ k \in 1 .. n + 1 /\ k + 1 \in 1 .. n + 1 /\ k + 1 # 1 /\ k + 1 + 1 \in 2 .. n + 2
    BY <1>1
  <2>4. /\ ss[k + 1] = s[k] /\ uu[k + 1] = u[k]
        /\ ss[k + 1 + 1] = s[k + 1] /\ uu[k + 1 + 1] = u[k + 1]
    BY <1>5, <2>3
  <2>5. ASSUME code[k].op \notin {"end", "runtimeError", "jump"}
        PROVE  /\ ss[k + 1 + 1] = ss[k + 1] + Change(code[k].op, "pushScope", "popScope")
               /\ uu[k + 1 + 1] = uu[k + 1] + Change(code[k].op, "pushUnification", "popUnification")
    BY <2>1, <2>4, <2>5 DEF Flows
  <2>6. ASSUME code[k].op \in {"jump", "branch"}
        PROVE  /\ code[k].by \in Nat /\ k + 1 + code[k].by \in 2 .. n + 2
               /\ ss[k + 1 + code[k].by] = ss[k + 1] /\ uu[k + 1 + code[k].by] = uu[k + 1]
    <3>1. PICK by \in Nat : by = code[k].by
      BY <2>1, <2>6 DEF Flows
    <3>2. k + by <= n + 1 /\ s[k + by] = s[k] /\ u[k + by] = u[k]
      <4>1. \/ k + by <= n + 1 /\ s[k + by] = s[k] /\ u[k + by] = u[k]
            \/ k + by = n + 1 + 0 /\ s[k] = 0 /\ u[k] = 0
        BY <2>1, <2>6, <3>1 DEF Flows, n
      <4>2. n + 1 + 0 = n + 1 /\ n + 1 <= n + 1
        BY <1>1
      <4> QED
        BY <1>3, <4>1, <4>2
    <3>3. PICK to \in 1 .. n + 1 : to = k + by
      BY <1>1, <3>2
    <3>4. k + 1 + by = to + 1 /\ to + 1 \in 2 .. n + 2
      <4>1. k \in Nat /\ n \in Nat
        BY <1>1
      <4> QED
        BY <3>3, <4>1
    <3>5. ss[to + 1] = s[to] /\ uu[to + 1] = u[to]
      BY <1>5
    <3> QED
      BY <2>4, <3>1, <3>2, <3>3, <3>4, <3>5
  <2> QED
    BY <1>2, <2>1, <2>2, <2>3, <2>5, <2>6 DEF HalfFlows
<1>10. \A pc \in 1 .. n + 2 : pc = 1 \/ pc = n + 2 \/ \E k \in 1 .. n : pc = k + 1
  <2> SUFFICES ASSUME NEW pc \in 1 .. n + 2, pc # 1, pc # n + 2 PROVE \E k \in 1 .. n : pc = k + 1
    OBVIOUS
  <2>1. pc - 1 \in 1 .. n /\ pc = pc - 1 + 1
    BY <1>1
  <2> QED
    BY <2>1
<1>11. IsHalf(h, ss, uu)
  <2>1. \A pc \in 1 .. n + 2 : HalfFlows(h, ss, uu, pc)
    BY <1>7, <1>8, <1>9, <1>10
  <2>2. n + 2 \in Nat /\ n + 2 >= 2
    BY <1>1
  <2> QED
    BY <1>2, <1>6, <2>1, <2>2 DEF IsHalf, MayBeHalf
<1>12. \A k \in 1 .. n : uu[k + 1] = u[k]
  <2>1. \A k \in 1 .. n : k \in 1 .. n + 1
    BY <1>1
  <2> QED
    BY <1>5, <2>1
<1> QED
  BY <1>11, <1>12 DEF h, n

\* Code that runs does not type check.
NothingChecks(h) == \A pc \in 1 .. Len(h) : h[pc].op \notin Checking

\* What may fail, or wait, is inside of a unification scope.
InsideUnified(h, u) ==
    \A pc \in 1 .. Len(h) : h[pc].op \in Waiting \cup {"getLocal", "typeError"} => u[pc] > 0

LEMMA HalfOf ==
    ASSUME NEW ops, ops \subseteq Emitted, NEW code \in Codes(ops)
    PROVE  \E s, u : IsHalf(Half(code), s, u)
<1>1. PICK s, u : Levels(code, 0, s, u)
  BY DEF Codes, Balanced
<1>2. \E ss, uu : /\ IsHalf(Half(code), ss, uu)
                  /\ \A k \in 1 .. Len(code) : uu[k + 1] = u[k]
  BY <1>1, HalfOfCode
<1> QED
  BY <1>2

\* An instruction of a half is Enter, End, or one of the code in it.
LEMMA InstructionsOfHalf ==
    ASSUME NEW ops, NEW code \in Codes(ops), NEW pc \in 1 .. Len(Half(code))
    PROVE  \/ pc = 1 /\ Half(code)[pc].op = "enter"
           \/ Half(code)[pc].op = "end"
           \/ \E k \in 1 .. Len(code) : pc = k + 1 /\ Half(code)[pc] = code[k] /\ code[k].op \in ops
<1>1. code \in Seq(AnyInstruction) /\ \A k \in 1 .. Len(code) : code[k].op \in ops
  BY DEF Codes, Balanced
<1>2. PICK n \in Nat : n = Len(code)
  BY <1>1
<1>3. Encloses(Half(code), code)
  BY <1>1, HalfIs
<1>4. /\ Len(Half(code)) = n + 2 /\ Half(code)[1].op = "enter" /\ Half(code)[n + 2].op = "end"
      /\ \A k \in 1 .. n : Half(code)[k + 1] = code[k]
  BY <1>2, <1>3 DEF Encloses
<1>5. CASE pc # 1 /\ pc # n + 2
  <2>1. PICK k \in 1 .. n : pc = k + 1
    <3>1. pc \in 1 .. n + 2
      BY <1>4
    <3>2. pc - 1 \in 1 .. n /\ pc = pc - 1 + 1
      BY <1>5, <3>1
    <3> QED
      BY <3>2
  <2>2. Half(code)[k + 1] = code[k] /\ code[k].op \in ops
    BY <1>1, <1>2, <1>4
  <2> QED
    BY <1>2, <2>1, <2>2
<1> QED
  BY <1>4, <1>5

LEMMA RunsOnly ==
    ASSUME NEW code \in Codes(Others)
    PROVE  (\E s, u : IsHalf(Half(code), s, u)) /\ NothingChecks(Half(code))
<1>1. Others \subseteq Emitted
  BY DEF Emitted
<1>2. \E s, u : IsHalf(Half(code), s, u)
  BY <1>1, HalfOf
<1>3. ASSUME NEW pc \in 1 .. Len(Half(code)) PROVE Half(code)[pc].op \notin Checking
  <2>1. Half(code)[pc].op \in Others \cup {"enter", "end"}
    BY InstructionsOfHalf
  <2> QED
    BY <2>1 DEF Others, Checking
<1> QED
  BY <1>2, <1>3 DEF NothingChecks

LEMMA ProgramHalf ==
    ASSUME NEW declarations \in Seq(Nodes)
    PROVE  /\ \E s, u : IsHalf(ProgramChecks(declarations), s, u) /\ InsideUnified(ProgramChecks(declarations), u)
           /\ \E s, u : IsHalf(ProgramRuns(declarations), s, u)
           /\ NothingChecks(ProgramRuns(declarations))
<1>1. PICK n \in Nat : n = Len(declarations) /\ DOMAIN declarations = 1 .. n
  OBVIOUS
<1> DEFINE each == [i \in DOMAIN declarations |-> Unified(infer[declarations[i]])]
<1>2. FlattenSeq(each) \in Codes(Emitted)
  <2>1. ASSUME NEW i \in 1 .. n PROVE each[i] \in Codes(Emitted)
    <3>1. declarations[i] \in Nodes
      BY <1>1
    <3>2. PICK c \in Codes(Emitted) : c = infer[declarations[i]]
      BY <3>1, InferIsCode
    <3>3. Unified(c) \in Codes(Emitted)
      BY ScopesAreCode
    <3> QED
      BY <1>1, <3>2, <3>3
  <2>2. each = [i \in 1 .. n |-> each[i]]
    BY <1>1
  <2> HIDE DEF each
  <2>3. each \in Seq(Codes(Emitted))
    BY <2>1, <2>2, IsSequence
  <2> QED
    BY <2>3, EachIsCode
<1> HIDE DEF each
<1> DEFINE all == IF declarations = <<>> THEN Compute ELSE FlattenSeq(each)
<1>3. all \o Compute \in Codes(Emitted)
  <2>1. all \in Codes(Emitted)
    BY <1>2, PiecesChecked
  <2> HIDE DEF all
  <2> QED
    BY <2>1, PiecesChecked, CodesJoined
<1> HIDE DEF all
<1>4. PICK c \in Codes(Emitted) : c = all \o Compute \o Resolve
  <2>1. all \o Compute \o Resolve \in Codes(Emitted)
    BY <1>3, PiecesChecked, CodesJoined
  <2> QED
    BY <2>1
<1>5. PICK code \in Codes(Emitted) : code = Unified(c)
  BY ScopesAreCode
<1>6. PICK s, u : Levels(code, 0, s, u) /\ \A pc \in 2 .. Len(code) : u[pc] > 0
  BY <1>5, ScopesAreCode
<1>7. PICK ss, uu : IsHalf(Half(code), ss, uu) /\ \A k \in 1 .. Len(code) : uu[k + 1] = u[k]
  <2>1. Emitted \subseteq Emitted
    OBVIOUS
  <2> QED
    BY <1>6, <2>1, HalfOfCode
<1>8. InsideUnified(Half(code), uu)
  <2> SUFFICES ASSUME NEW pc \in 1 .. Len(Half(code)),
                      Half(code)[pc].op \in Waiting \cup {"getLocal", "typeError"}
               PROVE  uu[pc] > 0
    BY DEF InsideUnified
  <2>1. PICK k \in 1 .. Len(code) : pc = k + 1 /\ Half(code)[pc] = code[k]
    BY InstructionsOfHalf DEF Waiting
  <2>2. code[1].op = "pushUnification"
    <3>1. c \in Seq(AnyInstruction)
      BY DEF Codes
    <3>2. /\ Op("pushUnification") \in AnyInstruction /\ Op("popUnification") \in AnyInstruction
      BY DEF AnyInstruction, Op
    <3>3. PICK open \in AnyInstruction, close \in AnyInstruction :
             open = Op("pushUnification") /\ close = Op("popUnification")
      BY <3>2
    <3>4. Around(open, c, close)[1] = open
      BY <3>1, AroundIs
    <3>5. code = Around(open, c, close)
      BY <1>5, <3>3 DEF Unified, Around
    <3> QED
      BY <3>3, <3>4, <3>5 DEF Op
  <2>3. k # 1
    BY <2>1, <2>2 DEF Waiting
  <2>4. k \in 2 .. Len(code)
    BY <2>3
  <2> QED
    BY <1>6, <1>7, <2>1, <2>4
<1>9. ProgramChecks(declarations) = Half(code)
  BY <1>4, <1>5 DEF ProgramChecks, each, all
<1>10. (IF declarations = <<>> THEN Compute ELSE EachOf(generate, declarations)) \in Codes(Others)
  <2>1. EachOf(generate, declarations) \in Codes(Others)
    BY GenerateIsCode, PartsAreCode
  <2> QED
    BY <2>1, PiecesRun
<1>11. (\E s1, u1 : IsHalf(ProgramRuns(declarations), s1, u1)) /\ NothingChecks(ProgramRuns(declarations))
  BY <1>10, RunsOnly DEF ProgramRuns
<1> QED
  BY <1>7, <1>8, <1>9, <1>11

LEMMA FunctionHalf ==
    ASSUME NEW d \in Nodes, d.node = "function"
    PROVE  /\ \E s, u : IsHalf(FunctionChecks(d), s, u)
           /\ \E s, u : IsHalf(FunctionRuns(d), s, u)
           /\ NothingChecks(FunctionRuns(d))
<1>1. d.parameters \in Seq(Below(d)) /\ d.returnType \in Nodes /\ d.body \in Nodes
  BY PartsOfNodes DEF Below
<1>2. PICK parameters \in Seq(Nodes) : parameters = d.parameters
  BY <1>1 DEF Below
<1>3. PICK n \in Nat : n = Len(parameters) /\ DOMAIN parameters = 1 .. n
  OBVIOUS
<1> DEFINE types == [i \in DOMAIN parameters |-> InferAsType(infer[parameters[i]])]
           starts == [i \in DOMAIN parameters |-> Compute]
<1>4. types \in Seq(Codes(Emitted))
  <2>1. ASSUME NEW i \in 1 .. n PROVE types[i] \in Codes(Emitted)
    <3>1. parameters[i] \in Nodes
      BY <1>3
    <3>2. PICK c \in Codes(Emitted) : c = infer[parameters[i]]
      BY <3>1, InferIsCode
    <3>3. InferAsType(c) \in Codes(Emitted)
      BY InferAsTypeIsCode
    <3> QED
      BY <1>3, <3>2, <3>3
  <2>2. types = [i \in 1 .. n |-> types[i]]
    BY <1>3
  <2> HIDE DEF types
  <2> QED
    BY <2>1, <2>2, IsSequence
<1>5. FlattenSeq(starts) \in Codes(Others)
  <2>1. ASSUME NEW i \in 1 .. n PROVE starts[i] \in Codes(Others)
    BY <1>3, PiecesRun
  <2>2. starts = [i \in 1 .. n |-> starts[i]]
    BY <1>3
  <2> HIDE DEF starts
  <2>3. starts \in Seq(Codes(Others))
    BY <2>1, <2>2, IsSequence
  <2> QED
    BY <2>3, EachIsCode
<1> HIDE DEF types, starts
<1>6. PICK a \in Codes(Emitted), b \in Codes(Emitted) : a = infer[d.returnType] /\ b = check[d.body]
  BY <1>1, InferIsCode, CheckIsCode
<1>7. InferAsType(a) \o Compute \in Codes(Emitted)
  BY InferAsTypeIsCode, PiecesChecked, CodesJoined
<1>8. PICK body \in Codes(Emitted) : body = InferAsType(a) \o Compute \o b
  <2>1. InferAsType(a) \o Compute \o b \in Codes(Emitted)
    BY <1>7, CodesJoined
  <2> QED
    BY <2>1
<1>9. Unified(CheckParameters(types, body)) \in Codes(Emitted)
  <2>1. CheckParameters(types, body) \in Codes(Emitted)
    BY <1>4, ParametersAreCode
  <2> QED
    BY <2>1, ScopesAreCode
<1>10. FunctionChecks(d) = Half(Unified(CheckParameters(types, body)))
  BY <1>2, <1>6, <1>8 DEF FunctionChecks, types
<1>11. \E s, u : IsHalf(FunctionChecks(d), s, u)
  <2>1. Emitted \subseteq Emitted
    OBVIOUS
  <2> QED
    BY <1>9, <1>10, <2>1, HalfOf
<1>12. FlattenSeq(starts) \o generate[d.body] \in Codes(Others)
  BY <1>1, <1>5, GenerateIsCode, CodesJoined
<1>13. FunctionRuns(d) = Half(FlattenSeq(starts) \o generate[d.body])
  BY <1>2 DEF FunctionRuns, starts
<1> QED
  BY <1>11, <1>12, <1>13, RunsOnly

\* A hole's block: Enter, a call, and End.
LEMMA HoleHalf ==
    ASSUME NEW callees
    PROVE  (\E s, u : IsHalf(HoleRuns(callees), s, u)) /\ NothingChecks(HoleRuns(callees))
<1> DEFINE call == [op |-> "call", callees |-> callees, dst |-> 1, firstArg |-> 1, argc |-> 1]
           code == <<call>>
           h == Half(code)
           zero == [pc \in 1 .. 3 |-> 0]
<1>1. HoleRuns(callees) = h
  BY DEF HoleRuns
<1>2. code \in Seq({call}) /\ Len(code) = 1 /\ code[1] = call /\ call.op = "call"
  OBVIOUS
<1>3. /\ Len(h) = 3 /\ h \in Seq({h[pc] : pc \in 1 .. 3})
      /\ h[1].op = "enter" /\ h[2].op = "call" /\ h[3].op = "end"
  <2> HIDE DEF code, call
  <2>1. Encloses(h, code)
    BY <1>2, HalfIs
  <2>2. 1 + 2 = 3 /\ 1 + 1 = 2 /\ 1 \in 1 .. 1
    OBVIOUS
  <2> HIDE DEF h
  <2> QED
    BY <1>2, <2>1, <2>2 DEF Encloses
<1>4. zero \in [1 .. 3 -> Nat] /\ zero[1] = 0 /\ zero[2] = 0 /\ zero[3] = 0
  OBVIOUS
<1> HIDE DEF h, zero
<1>5. /\ Change("enter", "pushScope", "popScope") = 0 /\ Change("enter", "pushUnification", "popUnification") = 0
      /\ Change("call", "pushScope", "popScope") = 0 /\ Change("call", "pushUnification", "popUnification") = 0
  BY DEF Change
<1>6. HalfFlows(h, zero, zero, 1) /\ HalfFlows(h, zero, zero, 2) /\ HalfFlows(h, zero, zero, 3)
  <2>1. 1 + 1 = 2 /\ 2 + 1 = 3 /\ 0 + 0 = 0 /\ 2 \in 2 .. 3 /\ 3 \in 2 .. 3
    OBVIOUS
  <2>2. HalfFlows(h, zero, zero, 1)
    BY <1>3, <1>4, <1>5, <2>1 DEF HalfFlows
  <2>3. HalfFlows(h, zero, zero, 2)
    BY <1>3, <1>4, <1>5, <2>1 DEF HalfFlows
  <2>4. HalfFlows(h, zero, zero, 3)
    BY <1>3, <1>4, <1>5, <2>1 DEF HalfFlows
  <2> QED
    BY <2>2, <2>3, <2>4
<1>7. \A pc \in 1 .. 3 : pc = 1 \/ pc = 2 \/ pc = 3
  OBVIOUS
<1>8. IsHalf(h, zero, zero)
  <2>1. 3 \in Nat /\ 3 >= 2 /\ \A pc \in 1 .. 3 : HalfFlows(h, zero, zero, pc)
    BY <1>6, <1>7
  <2> QED
    BY <1>3, <1>4, <2>1 DEF IsHalf, MayBeHalf
<1>9. NothingChecks(h)
  BY <1>3, <1>7 DEF NothingChecks, Checking
<1> QED
  BY <1>1, <1>8, <1>9

-----------------------------------------------------------------------------
(* Whole blocks                                                            *)

StaysIn(code, start, pc, to) ==
    to \in 1 .. Len(code) /\ to \notin {1, start} /\ (to < start <=> pc < start)

BlockFlows(code, start, s, u, pc) ==
    /\ code[pc].op = "enter" <=> pc \in {1, start}
    /\ code[pc].op \in {"enter", "end"} => s[pc] = 0 /\ u[pc] = 0
    /\ code[pc].op \notin {"end", "runtimeError", "jump"} =>
          /\ StaysIn(code, start, pc, pc + 1)
          /\ s[pc + 1] = s[pc] + Change(code[pc].op, "pushScope", "popScope")
          /\ u[pc + 1] = u[pc] + Change(code[pc].op, "pushUnification", "popUnification")
    /\ code[pc].op \in {"jump", "branch"} =>
          /\ StaysIn(code, start, pc, pc + code[pc].by)
          /\ s[pc + code[pc].by] = s[pc] /\ u[pc + code[pc].by] = u[pc]
    /\ code[pc].op \in Checking => pc < start

IsBlockCode(code, start, s, u) ==
    /\ Len(code) \in Nat /\ DOMAIN code = 1 .. Len(code) /\ start \in 1 .. Len(code)
    /\ s \in [1 .. Len(code) -> Nat] /\ u \in [1 .. Len(code) -> Nat]
    /\ \A pc \in 1 .. Len(code) : BlockFlows(code, start, s, u, pc)

\* What may fail, or wait, in the first half is inside of a unification scope.
ChecksInsideUnified(code, start, u) ==
    \A pc \in 1 .. Len(code) :
        pc < start /\ code[pc].op \in Waiting \cup {"getLocal", "typeError"} => u[pc] > 0

LEMMA NoHalf ==
    MayBeHalf(<<>>, [pc \in 1 .. 0 |-> 0], [pc \in 1 .. 0 |-> 0])
<1> DEFINE h == << >>
<1>1. /\ Len(h) = 0 /\ h \in Seq({h[pc] : pc \in 1 .. Len(h)})
      /\ [pc \in 1 .. 0 |-> 0] \in [1 .. 0 -> Nat]
  OBVIOUS
<1> HIDE DEF h
<1>2. MayBeHalf(h, [pc \in 1 .. 0 |-> 0], [pc \in 1 .. 0 |-> 0])
  BY <1>1 DEF MayBeHalf
<1> QED
  BY <1>2 DEF h

LEMMA HalvesAreBlock ==
    ASSUME NEW checks, NEW runs, NEW s1, NEW u1, NEW s2, NEW u2,
           MayBeHalf(checks, s1, u1), IsHalf(runs, s2, u2), NothingChecks(runs)
    PROVE  \E s, u :
              /\ IsBlockCode(checks \o runs, Len(checks) + 1, s, u)
              /\ InsideUnified(checks, u1) => ChecksInsideUnified(checks \o runs, Len(checks) + 1, u)
<1> DEFINE m == Len(checks)
           n == Len(runs)
           T == {checks[pc] : pc \in 1 .. m} \cup {runs[pc] : pc \in 1 .. n}
           c == checks \o runs
<1>1. m \in Nat /\ n \in Nat /\ n >= 2
  BY DEF IsHalf, MayBeHalf
<1>2. /\ Len(c) = m + n /\ DOMAIN c = 1 .. m + n
      /\ \A i \in 1 .. m + n : c[i] = IF i <= m THEN checks[i] ELSE runs[i - m]
  <2>1. /\ checks \in Seq({checks[pc] : pc \in 1 .. m})
        /\ runs \in Seq({runs[pc] : pc \in 1 .. n})
    BY DEF IsHalf, MayBeHalf
  <2>2. checks \in Seq(T) /\ runs \in Seq(T)
    BY <2>1
  <2> HIDE DEF T
  <2>3. /\ checks \o runs \in Seq(T) /\ Len(checks \o runs) = Len(checks) + Len(runs)
        /\ \A i \in 1 .. Len(checks) + Len(runs) :
              (checks \o runs)[i] = IF i <= Len(checks) THEN checks[i] ELSE runs[i - Len(checks)]
    BY <2>2, ConcatProperties
  <2>4. DOMAIN c = 1 .. Len(c)
    BY <2>3
  <2> QED
    BY <2>3, <2>4
<1>3. /\ s1 \in [1 .. m -> Nat] /\ u1 \in [1 .. m -> Nat]
      /\ \A pc \in 1 .. m : HalfFlows(checks, s1, u1, pc)
      /\ s2 \in [1 .. n -> Nat] /\ u2 \in [1 .. n -> Nat]
      /\ \A pc \in 1 .. n : HalfFlows(runs, s2, u2, pc)
  BY DEF IsHalf, MayBeHalf
<1>4. \A pc \in 1 .. n : runs[pc].op \notin Checking
  BY DEF NothingChecks
<1> DEFINE s == [pc \in 1 .. m + n |-> IF pc <= m THEN s1[pc] ELSE s2[pc - m]]
           u == [pc \in 1 .. m + n |-> IF pc <= m THEN u1[pc] ELSE u2[pc - m]]
           start == m + 1
<1> HIDE DEF m, n, c, T
<1>5. ASSUME NEW pc \in 1 .. m
      PROVE  c[pc] = checks[pc] /\ s[pc] = s1[pc] /\ u[pc] = u1[pc]
  <2>1. pc \in 1 .. m + n /\ pc <= m
    BY <1>1
  <2> QED
    BY <1>2, <2>1
<1>6. ASSUME NEW k \in 1 .. n
      PROVE  c[m + k] = runs[k] /\ s[m + k] = s2[k] /\ u[m + k] = u2[k]
  <2>1. PICK pc \in 1 .. m + n : pc = m + k /\ ~ (pc <= m) /\ pc - m = k
    BY <1>1
  <2> QED
    BY <1>2, <2>1
<1>7. s \in [1 .. m + n -> Nat] /\ u \in [1 .. m + n -> Nat]
  <2>1. \A pc \in 1 .. m + n : ~ (pc <= m) => pc - m \in 1 .. n
    BY <1>1
  <2>2. \A pc \in 1 .. m + n : pc <= m => pc \in 1 .. m
    BY <1>1
  <2>3. \A pc \in 1 .. m + n : s[pc] \in Nat /\ u[pc] \in Nat
    BY <1>3, <2>1, <2>2
  <2> QED
    BY <2>3
<1> HIDE DEF s, u
<1>8. ASSUME NEW pc \in 1 .. m PROVE BlockFlows(c, start, s, u, pc)
  <2>1. HalfFlows(checks, s1, u1, pc) /\ c[pc] = checks[pc] /\ s[pc] = s1[pc] /\ u[pc] = u1[pc]
    BY <1>3, <1>5
  <2>2. pc # start /\ pc < start
    BY <1>1
  <2>3. ASSUME NEW to \in 2 .. m
        PROVE  StaysIn(c, start, pc, to) /\ s[to] = s1[to] /\ u[to] = u1[to]
    <3>1. to \in 1 .. m /\ to \in 1 .. m + n /\ to # 1 /\ to # start /\ to < start
      BY <1>1
    <3> QED
      BY <1>2, <1>5, <2>2, <3>1 DEF StaysIn
  <2>4. ASSUME c[pc].op \notin {"end", "runtimeError", "jump"}
        PROVE  /\ StaysIn(c, start, pc, pc + 1)
               /\ s[pc + 1] = s[pc] + Change(c[pc].op, "pushScope", "popScope")
               /\ u[pc + 1] = u[pc] + Change(c[pc].op, "pushUnification", "popUnification")
    <3>1. PICK to \in 2 .. m : to = pc + 1
      BY <2>1, <2>4 DEF HalfFlows, m
    <3> QED
      BY <2>1, <2>3, <2>4, <3>1 DEF HalfFlows
  <2>5. ASSUME c[pc].op \in {"jump", "branch"}
        PROVE  /\ StaysIn(c, start, pc, pc + c[pc].by)
               /\ s[pc + c[pc].by] = s[pc] /\ u[pc + c[pc].by] = u[pc]
    <3>1. PICK to \in 2 .. m : to = pc + checks[pc].by
      BY <2>1, <2>5 DEF HalfFlows, m
    <3> QED
      BY <2>1, <2>3, <2>5, <3>1 DEF HalfFlows
  <2>6. c[pc].op = "enter" <=> pc \in {1, start}
    BY <2>1, <2>2 DEF HalfFlows
  <2>7. c[pc].op \in {"enter", "end"} => s[pc] = 0 /\ u[pc] = 0
    BY <2>1 DEF HalfFlows
  <2> HIDE DEF start
  <2> QED
    BY <2>2, <2>4, <2>5, <2>6, <2>7 DEF BlockFlows
<1>9. ASSUME NEW k \in 1 .. n PROVE BlockFlows(c, start, s, u, m + k)
  <2>1. HalfFlows(runs, s2, u2, k) /\ c[m + k] = runs[k] /\ s[m + k] = s2[k] /\ u[m + k] = u2[k]
    BY <1>3, <1>6
  <2>2. ~ (m + k < start) /\ (m + k \in {1, start} <=> k = 1)
    BY <1>1
  <2>3. ASSUME NEW to \in 2 .. n
        PROVE  StaysIn(c, start, m + k, m + to) /\ s[m + to] = s2[to] /\ u[m + to] = u2[to]
    <3>1. to \in 1 .. n /\ m + to \in 1 .. m + n /\ m + to # 1 /\ m + to # start /\ ~ (m + to < start)
      BY <1>1
    <3> QED
      BY <1>2, <1>6, <2>2, <3>1 DEF StaysIn
  <2>4. ASSUME c[m + k].op \notin {"end", "runtimeError", "jump"}
        PROVE  /\ StaysIn(c, start, m + k, m + k + 1)
               /\ s[m + k + 1] = s[m + k] + Change(c[m + k].op, "pushScope", "popScope")
               /\ u[m + k + 1] = u[m + k] + Change(c[m + k].op, "pushUnification", "popUnification")
    <3>1. PICK to \in 2 .. n : to = k + 1
      BY <2>1, <2>4 DEF HalfFlows, n
    <3>2. m + k + 1 = m + to
      BY <1>1, <3>1
    <3> QED
      BY <2>1, <2>3, <2>4, <3>1, <3>2 DEF HalfFlows
  <2>5. ASSUME c[m + k].op \in {"jump", "branch"}
        PROVE  /\ StaysIn(c, start, m + k, m + k + c[m + k].by)
               /\ s[m + k + c[m + k].by] = s[m + k] /\ u[m + k + c[m + k].by] = u[m + k]
    <3>1. PICK by \in Nat : by = runs[k].by
      BY <2>1, <2>5 DEF HalfFlows
    <3>2. PICK to \in 2 .. n : to = k + by
      BY <2>1, <2>5, <3>1 DEF HalfFlows, n
    <3>3. m + k + by = m + to
      BY <1>1, <3>2
    <3>4. s2[to] = s2[k] /\ u2[to] = u2[k]
      BY <2>1, <2>5, <3>1, <3>2 DEF HalfFlows
    <3> QED
      BY <2>1, <2>3, <3>1, <3>3, <3>4
  <2>6. c[m + k].op = "enter" <=> m + k \in {1, start}
    BY <2>1, <2>2 DEF HalfFlows
  <2>7. c[m + k].op \in {"enter", "end"} => s[m + k] = 0 /\ u[m + k] = 0
    BY <2>1 DEF HalfFlows
  <2>8. c[m + k].op \notin Checking
    BY <1>4, <2>1
  <2> HIDE DEF start
  <2> QED
    BY <2>4, <2>5, <2>6, <2>7, <2>8 DEF BlockFlows
<1>10. \A pc \in 1 .. m + n : BlockFlows(c, start, s, u, pc)
  <2> SUFFICES ASSUME NEW pc \in 1 .. m + n PROVE BlockFlows(c, start, s, u, pc)
    OBVIOUS
  <2>1. CASE pc \in 1 .. m
    BY <1>8, <2>1
  <2>2. CASE ~ (pc \in 1 .. m)
    <3>1. pc - m \in 1 .. n /\ pc = m + (pc - m)
      BY <1>1, <2>2
    <3>2. PICK k \in 1 .. n : pc = m + k
      BY <3>1
    <3> QED
      BY <1>9, <3>2
  <2> QED
    BY <2>1, <2>2
<1>11. IsBlockCode(c, start, s, u)
  <2>1. m + n \in Nat /\ start \in 1 .. m + n
    BY <1>1
  <2> QED
    BY <1>2, <1>7, <1>10, <2>1 DEF IsBlockCode
<1>12. InsideUnified(checks, u1) => ChecksInsideUnified(c, start, u)
  <2> SUFFICES ASSUME InsideUnified(checks, u1), NEW pc \in 1 .. m + n, pc < start,
                      c[pc].op \in Waiting \cup {"getLocal", "typeError"}
               PROVE  u[pc] > 0
    BY <1>2 DEF ChecksInsideUnified
  <2>1. pc \in 1 .. m
    BY <1>1
  <2>2. checks[pc].op \in Waiting \cup {"getLocal", "typeError"} => u1[pc] > 0
    BY <2>1 DEF InsideUnified, m
  <2> QED
    BY <1>5, <2>1, <2>2
<1> QED
  BY <1>11, <1>12 DEF c, m

LEMMA BlockIsCode ==
    ASSUME NEW n, IsBlock(n)
    PROVE  \E s, u :
              /\ IsBlockCode(BlockChecks(n) \o BlockRuns(n), Len(BlockChecks(n)) + 1, s, u)
              /\ n.node = "program" =>
                    ChecksInsideUnified(BlockChecks(n) \o BlockRuns(n), Len(BlockChecks(n)) + 1, u)
<1>1. PICK checks, runs : checks = BlockChecks(n) /\ runs = BlockRuns(n)
  OBVIOUS
<1>2. ASSUME NEW s1, NEW u1, NEW s2, NEW u2, MayBeHalf(checks, s1, u1), IsHalf(runs, s2, u2),
             NothingChecks(runs), n.node = "program" => InsideUnified(checks, u1)
      PROVE  \E s, u :
                /\ IsBlockCode(checks \o runs, Len(checks) + 1, s, u)
                /\ n.node = "program" => ChecksInsideUnified(checks \o runs, Len(checks) + 1, u)
  <2>1. PICK s, u :
           /\ IsBlockCode(checks \o runs, Len(checks) + 1, s, u)
           /\ InsideUnified(checks, u1) => ChecksInsideUnified(checks \o runs, Len(checks) + 1, u)
    BY <1>2, HalvesAreBlock
  <2> QED
    BY <1>2, <2>1
<1>3. CASE n.node = "program" /\ n.declarations \in Seq(Nodes)
  <2>1. checks = ProgramChecks(n.declarations) /\ runs = ProgramRuns(n.declarations)
    BY <1>1, <1>3 DEF BlockChecks, BlockRuns
  <2>2. PICK s1, u1 : IsHalf(checks, s1, u1) /\ InsideUnified(checks, u1)
    BY <1>3, <2>1, ProgramHalf
  <2>3. PICK s2, u2 : IsHalf(runs, s2, u2)
    BY <1>3, <2>1, ProgramHalf
  <2>4. NothingChecks(runs)
    BY <1>3, <2>1, ProgramHalf
  <2>5. MayBeHalf(checks, s1, u1)
    BY <2>2 DEF IsHalf
  <2> QED
    BY <1>1, <1>2, <2>2, <2>3, <2>4, <2>5
<1>4. CASE n.node = "function" /\ n \in Nodes
  <2>1. checks = FunctionChecks(n) /\ runs = FunctionRuns(n)
    BY <1>1, <1>4 DEF BlockChecks, BlockRuns
  <2>2. PICK s1, u1 : IsHalf(checks, s1, u1)
    BY <1>4, <2>1, FunctionHalf
  <2>3. PICK s2, u2 : IsHalf(runs, s2, u2)
    BY <1>4, <2>1, FunctionHalf
  <2>4. NothingChecks(runs)
    BY <1>4, <2>1, FunctionHalf
  <2>5. MayBeHalf(checks, s1, u1) /\ n.node # "program"
    BY <1>4, <2>2 DEF IsHalf
  <2> QED
    BY <1>1, <1>2, <2>3, <2>4, <2>5
<1>5. CASE n.node = "hole"
  <2>1. checks = <<>> /\ runs = HoleRuns(n.callees)
    BY <1>1, <1>5 DEF BlockChecks, BlockRuns
  <2>2. PICK s1, u1 : MayBeHalf(checks, s1, u1)
    BY <2>1, NoHalf
  <2>3. PICK s2, u2 : IsHalf(runs, s2, u2)
    BY <2>1, HoleHalf
  <2>4. NothingChecks(runs)
    BY <2>1, HoleHalf
  <2>5. n.node # "program"
    BY <1>5
  <2> QED
    BY <1>1, <1>2, <2>2, <2>3, <2>4, <2>5
<1> QED
  BY <1>3, <1>4, <1>5 DEF IsBlock

\* Whatever a program, in the code that the compiler emits for each of its blocks
\* control stays within the half it is in: the type checking code does not run
\* into the code of the function, nor that back into it (BytecodeGenerator's
\* branch and jump, Typing and Codegen of every class of node).
THEOREM CompiledCodeStaysInside ==
    ASSUME NEW p, NEW b, NEW n, IsCodeOf(n, Code[p][b], CodeStart[p][b])
    PROVE  StaysInside(p, b)
<1> DEFINE code == Code[p][b]
           start == CodeStart[p][b]
           Inside(pc, to) == /\ to \in DOMAIN code \ {1, start}
                             /\ to < start <=> pc < start
<1>1. PICK s, u : IsBlockCode(code, start, s, u)
  BY BlockIsCode DEF IsCodeOf
<1> HIDE DEF code, start
<1>2. /\ Len(code) \in Nat /\ DOMAIN code = 1 .. Len(code) /\ start \in 1 .. Len(code)
      /\ \A pc \in 1 .. Len(code) : BlockFlows(code, start, s, u, pc)
  BY <1>1 DEF IsBlockCode
<1>3. DOMAIN code \subseteq Nat \ {0} /\ 1 .. start \subseteq DOMAIN code
  BY <1>2
<1>4. ASSUME NEW pc \in DOMAIN code
      PROVE  /\ code[pc].op = "enter" <=> pc \in {1, start}
             /\ code[pc].op \notin {"end", "runtimeError", "jump"} => Inside(pc, pc + 1)
             /\ code[pc].op \in {"jump", "branch"} => Inside(pc, pc + code[pc].by)
  BY <1>2 DEF BlockFlows, StaysIn
<1> QED
  BY <1>3, <1>4 DEF StaysInside, code, start

\* The syntax trees of the programs' blocks.
AreCompiled(text) ==
    \A p \in Program : \A b \in Compiled(p) :
        /\ IsCodeOf(text[p][b], Code[p][b], CodeStart[p][b])
        /\ b = Main => text[p][b].node = "program"

\* On every path through the code that the compiler emits for a block, the scopes
\* and the unification scopes that are open before an instruction are the same;
\* none is open at its End; and in the program's own block all that can fail or
\* wait while it is type checked is inside of a unification scope (the
\* TypeChecker::Scope and UnificationScope objects of Typing and TypeChecker).
THEOREM CompiledCodeNests ==
    ASSUME NEW text, AreCompiled(text)
    PROVE  \E depth : IsNesting(depth)
<1> DEFINE NestsBlock(p, b, s, u) ==
              /\ IsBlockCode(Code[p][b], CodeStart[p][b], s, u)
              /\ b = Main => ChecksInsideUnified(Code[p][b], CodeStart[p][b], u)
           levels == [p \in Program |-> [b \in Block |->
                         CHOOSE l : NestsBlock(p, b, l[1], l[2])]]
           depth == [p \in Program |-> [b \in Block |-> [pc \in DOMAIN Code[p][b] |->
                        [scopes |-> levels[p][b][1][pc], unifications |-> levels[p][b][2][pc]]]]]
<1>1. ASSUME NEW p \in Program, NEW b \in Compiled(p)
      PROVE  NestsBlock(p, b, levels[p][b][1], levels[p][b][2])
  <2>1. /\ IsCodeOf(text[p][b], Code[p][b], CodeStart[p][b])
        /\ b = Main => text[p][b].node = "program"
    BY DEF AreCompiled
  <2>2. PICK s, u : NestsBlock(p, b, s, u)
    BY <2>1, BlockIsCode DEF IsCodeOf
  <2> DEFINE l == <<s, u>>
  <2>3. l[1] = s /\ l[2] = u
    OBVIOUS
  <2> HIDE DEF NestsBlock, l
  <2>4. \E k : NestsBlock(p, b, k[1], k[2])
    BY <2>2, <2>3
  <2>5. b \in Block
    BY DEF Compiled
  <2>6. levels[p][b] = CHOOSE k : NestsBlock(p, b, k[1], k[2])
    BY <2>5
  <2> HIDE DEF levels
  <2> QED
    BY <2>4, <2>6
<1> HIDE DEF levels
<1>2. ASSUME NEW p \in Program PROVE CodeNests(p, depth)
  <2> SUFFICES ASSUME NEW b \in Compiled(p), NEW pc \in DOMAIN Code[p][b]
               PROVE  LET code == Code[p][b]
                          start == CodeStart[p][b]
                          At(k) == depth[p][b][k]
                          op == code[pc].op
                      IN  /\ At(pc) \in [scopes : Nat, unifications : Nat]
                          /\ op \in {"enter", "end"} => At(pc).scopes = 0 /\ At(pc).unifications = 0
                          /\ op \notin {"end", "runtimeError", "jump"} =>
                                /\ At(pc + 1).scopes =
                                      At(pc).scopes + Change(op, "pushScope", "popScope")
                                /\ At(pc + 1).unifications =
                                      At(pc).unifications
                                          + Change(op, "pushUnification", "popUnification")
                          /\ op \in {"jump", "branch"} => At(pc + code[pc].by) = At(pc)
                          /\ op \in Checking => pc < start
                          /\ b = Main /\ pc < start /\ op \in Waiting \cup {"getLocal", "typeError"} =>
                                At(pc).unifications > 0
    BY DEF CodeNests, Change
  <2> DEFINE code == Code[p][b]
             start == CodeStart[p][b]
             s == levels[p][b][1]
             u == levels[p][b][2]
             At(k) == depth[p][b][k]
  <2>1. b \in Block
    BY DEF Compiled
  <2>2. /\ IsBlockCode(code, start, s, u)
        /\ b = Main => ChecksInsideUnified(code, start, u)
    BY <1>1
  <2>3. \A k \in DOMAIN code : At(k) = [scopes |-> s[k], unifications |-> u[k]]
    BY <2>1
  <2> HIDE DEF code, start, s, u, depth, At
  <2>4. /\ DOMAIN code = 1 .. Len(code)
        /\ s \in [1 .. Len(code) -> Nat] /\ u \in [1 .. Len(code) -> Nat]
        /\ BlockFlows(code, start, s, u, pc)
    BY <2>2 DEF IsBlockCode, code
  <2>5. pc \in DOMAIN code
    BY DEF code
  <2>6. At(pc) = [scopes |-> s[pc], unifications |-> u[pc]] /\ s[pc] \in Nat /\ u[pc] \in Nat
    BY <2>3, <2>4, <2>5
  <2>7. ASSUME NEW to \in 1 .. Len(code) PROVE At(to) = [scopes |-> s[to], unifications |-> u[to]]
    BY <2>3, <2>4
  <2>8. code[pc].op \notin {"end", "runtimeError", "jump"} =>
          /\ At(pc + 1).scopes = At(pc).scopes + Change(code[pc].op, "pushScope", "popScope")
          /\ At(pc + 1).unifications =
                At(pc).unifications + Change(code[pc].op, "pushUnification", "popUnification")
    <3> SUFFICES ASSUME code[pc].op \notin {"end", "runtimeError", "jump"}
                 PROVE  /\ At(pc + 1).scopes = At(pc).scopes + Change(code[pc].op, "pushScope", "popScope")
                        /\ At(pc + 1).unifications =
                              At(pc).unifications + Change(code[pc].op, "pushUnification", "popUnification")
      OBVIOUS
    <3>1. /\ pc + 1 \in 1 .. Len(code)
          /\ s[pc + 1] = s[pc] + Change(code[pc].op, "pushScope", "popScope")
          /\ u[pc + 1] = u[pc] + Change(code[pc].op, "pushUnification", "popUnification")
      BY <2>4 DEF BlockFlows, StaysIn
    <3>2. At(pc + 1).scopes = s[pc + 1] /\ At(pc + 1).unifications = u[pc + 1]
      BY <2>7, <3>1
    <3> QED
      BY <2>6, <3>1, <3>2
  <2>9. code[pc].op \in {"jump", "branch"} => At(pc + code[pc].by) = At(pc)
    BY <2>4, <2>6, <2>7 DEF BlockFlows, StaysIn
  <2>10. code[pc].op \in {"enter", "end"} => At(pc).scopes = 0 /\ At(pc).unifications = 0
    BY <2>4, <2>6 DEF BlockFlows
  <2>11. code[pc].op \in Checking => pc < start
    BY <2>4 DEF BlockFlows
  <2>12. b = Main /\ pc < start /\ code[pc].op \in Waiting \cup {"getLocal", "typeError"} =>
            At(pc).unifications > 0
    BY <2>2, <2>4, <2>5, <2>6 DEF ChecksInsideUnified
  <2>13. At(pc) \in [scopes : Nat, unifications : Nat]
    BY <2>6
  <2> QED
    BY <2>8, <2>9, <2>10, <2>11, <2>12, <2>13 DEF code, start, At
<1>3. IsNesting(depth)
  <2> HIDE DEF depth
  <2> QED
    BY <1>2 DEF IsNesting
<1> QED
  BY <1>3

\* So of any compiled programs: while they are type checked, run and fail, each
\* scope is closed by the interpreter that opened it, the innermost first.
THEOREM CompiledScopesNest ==
    ASSUME NEW CONSTANT text, AreCompiled(text)
    PROVE  Spec => []ScopesNest
<1>1. PICK depth : IsNesting(depth)
  BY CompiledCodeNests
<1> QED
  BY <1>1, ScopesNestRight

\* A compiled program that was type checked without an error has solved all of
\* its constraints, and no scope of its type checker is left open.
THEOREM CompiledProgramsAreChecked ==
    ASSUME NEW CONSTANT text, AreCompiled(text)
    PROVE  Spec => []CheckedMeansChecked
<1>1. PICK depth : IsNesting(depth)
  BY CompiledCodeNests
<1> QED
  BY <1>1, CheckedProgramsAreChecked

\* The frames of a compiled program's interpreters tile vm.stack.
THEOREM CompiledFramesTile ==
    ASSUME NEW CONSTANT text, AreCompiled(text)
    PROVE  Spec => []FramesTileTheStack
<1>1. PICK depth : IsNesting(depth)
  BY CompiledCodeNests
<1> QED
  BY <1>1, FramesTile
=============================================================================
