----------------------------- MODULE DataLemmas -----------------------------
(***************************************************************************)
(* Induction and recursive functions in a form the provers can use: the    *)
(* property is a set, the step of a recursion is a function.  All of it    *)
(* rests on the well-foundedness of the natural numbers.  Then what the    *)
(* proofs of the components use of sequences and of RustData; and of the   *)
(* functions of Attributes and EngineItems, whatever the state is.         *)
(***************************************************************************)
EXTENDS EngineItems, Functions, SequenceTheorems, FiniteSetTheorems, WellFoundedInduction, TLAPS

\* A set of natural numbers that is not empty has a least element.
LEMMA LeastNatural ==
    ASSUME NEW T, T \subseteq Nat, T # {}
    PROVE  \E x \in T : \A y \in T : x <= y
<1> DEFINE Less == OpToRel(<, Nat)
<1>1. \A x, y \in Nat : y < x => <<y, x>> \in Less
  BY DEF OpToRel
<1>2. IsWellFoundedOn(Less, Nat)
  BY NatLessThanWellFounded
<1> HIDE DEF Less
<1>3. PICK x \in T : \A y \in T : <<y, x>> \notin Less
  BY <1>2, WFMin
<1>4. ASSUME NEW y \in T PROVE x <= y
  <2>1. x \in Nat /\ y \in Nat /\ <<y, x>> \notin Less
    BY <1>3
  <2>2. ~(y < x)
    BY <2>1, <1>1
  <2> QED BY <2>1, <2>2
<1> QED BY <1>4

\* A set that holds the first number of an interval, and with a number the next
\* one, holds the interval.
LEMMA IntervalInduction ==
    ASSUME NEW N \in Nat, NEW T, 0 \in T,
           \A n \in 0..(N - 1) : n \in T => n + 1 \in T
    PROVE  0..N \subseteq T
<1> DEFINE Missing == {n \in 0..N : n \notin T}
<1>1. SUFFICES ASSUME Missing # {} PROVE FALSE
  OBVIOUS
<1>2. PICK x \in Missing : \A y \in Missing : x <= y
  <2>1. Missing \subseteq Nat
    OBVIOUS
  <2> HIDE DEF Missing
  <2> QED BY <1>1, <2>1, LeastNatural
<1>3. x \in 0..N /\ x \notin T
  BY <1>2
<1>4. x # 0 /\ x - 1 \in 0..(N - 1)
  BY <1>3
<1>5. x - 1 \in T
  BY <1>2, <1>3, <1>4
<1>6. (x - 1) + 1 \in T
  BY <1>4, <1>5
<1> QED BY <1>3, <1>4, <1>6

\* f is defined by what it is at 0, and at n from what it is at n - 1.
IsRecursion(f, S, e, N, step) ==
    /\ f \in [0..N -> S]
    /\ f[0] = e
    /\ \A n \in 1..N : f[n] = step[<<f[n - 1], n>>]

\* There is such a function.
LEMMA RecursionExists ==
    ASSUME NEW S, NEW e \in S, NEW N \in Nat, NEW step \in [S \X (1..N) -> S]
    PROVE  \E f : IsRecursion(f, S, e, N, step)
<1> DEFINE Upto(m, f) ==
              /\ f \in [0..m -> S]
              /\ \A n \in 0..m : f[n] = IF n = 0 THEN e ELSE step[<<f[n - 1], n>>]
           Reaches == {m \in 0..N : \E f \in [0..m -> S] : Upto(m, f)}
<1>1. 0 \in Reaches
  <2> DEFINE f == [n \in 0..0 |-> e]
  <2>1. f \in [0..0 -> S]
    OBVIOUS
  <2>2. Upto(0, f)
    OBVIOUS
  <2> HIDE DEF f
  <2>3. 0 \in 0..N
    OBVIOUS
  <2> QED BY <2>1, <2>2, <2>3
<1>2. ASSUME NEW m \in 0..(N - 1), m \in Reaches PROVE m + 1 \in Reaches
  <2>1. PICK f \in [0..m -> S] : Upto(m, f)
    BY <1>2
  <2> DEFINE last == step[<<f[m], m + 1>>]
             g == [n \in 0..(m + 1) |-> IF n = m + 1 THEN last ELSE f[n]]
  <2>2. m \in 0..m /\ f[m] \in S
    OBVIOUS
  <2>3. last \in S
    <3>1. m + 1 \in 1..N
      OBVIOUS
    <3>2. <<f[m], m + 1>> \in S \X (1..N)
      BY <2>2, <3>1
    <3> QED BY <3>2
  <2>4. \A n \in 0..m : g[n] = f[n]
    OBVIOUS
  <2>5. g[m + 1] = last
    OBVIOUS
  <2>6. g \in [0..(m + 1) -> S]
    <3> HIDE DEF last
    <3>1. \A n \in 0..(m + 1) : n # m + 1 => f[n] \in S
      OBVIOUS
    <3> QED BY <2>3, <3>1
  <2> HIDE DEF g
  <2>7. ASSUME NEW n \in 0..(m + 1)
        PROVE  g[n] = IF n = 0 THEN e ELSE step[<<g[n - 1], n>>]
    <3>1. CASE n = m + 1
      <4>1. n - 1 = m /\ n # 0
        BY <3>1
      <4>2. g[n - 1] = f[m]
        BY <4>1, <2>2, <2>4
      <4> QED BY <3>1, <4>1, <4>2, <2>5
    <3>2. CASE n # m + 1
      <4>1. n \in 0..m
        BY <3>2
      <4>2. f[n] = IF n = 0 THEN e ELSE step[<<f[n - 1], n>>]
        BY <4>1, <2>1
      <4>3. n # 0 => g[n - 1] = f[n - 1]
        <5>1. n # 0 => n - 1 \in 0..m
          BY <4>1
        <5> QED BY <5>1, <2>4
      <4> QED BY <4>1, <4>2, <4>3, <2>4
    <3> QED BY <3>1, <3>2
  <2>8. Upto(m + 1, g)
    BY <2>6, <2>7
  <2>9. m + 1 \in 0..N
    OBVIOUS
  <2> QED BY <2>6, <2>8, <2>9
<1>3. N \in Reaches
  <2> HIDE DEF Reaches
  <2>1. 0..N \subseteq Reaches
    BY <1>1, <1>2, IntervalInduction
  <2>2. N \in 0..N
    OBVIOUS
  <2> QED BY <2>1, <2>2
<1>4. PICK f \in [0..N -> S] : Upto(N, f)
  BY <1>3
<1>5. 0 \in 0..N /\ \A n \in 1..N : n \in 0..N /\ n # 0
  OBVIOUS
<1>6. f[0] = e /\ \A n \in 1..N : f[n] = step[<<f[n - 1], n>>]
  BY <1>4, <1>5
<1> QED BY <1>4, <1>6 DEF IsRecursion

\* The same where the step does not depend on n.
IsIteration(f, P, e, N, next) ==
    f \in [0..N -> P] /\ f[0] = e /\ \A n \in 1..N : f[n] = next[f[n - 1]]

LEMMA IterationExists ==
    ASSUME NEW P, NEW S \in P, NEW N \in Nat, NEW next \in [P -> P]
    PROVE  \E f : IsIteration(f, P, S, N, next)
<1> DEFINE step == [q \in P \X (1..N) |-> next[q[1]]]
<1>1. step \in [P \X (1..N) -> P]
  <2>1. \A q \in P \X (1..N) : q[1] \in P /\ next[q[1]] \in P
    OBVIOUS
  <2> QED BY <2>1
<1>2. PICK f : IsRecursion(f, P, S, N, step)
  <2> HIDE DEF step
  <2> QED BY <1>1, RecursionExists
<1>3. f \in [0..N -> P] /\ f[0] = S /\ \A n \in 1..N : f[n] = step[<<f[n - 1], n>>]
  BY <1>2 DEF IsRecursion
<1>4. ASSUME NEW n \in 1..N PROVE f[n] = next[f[n - 1]]
  <2>1. n - 1 \in 0..N
    OBVIOUS
  <2>2. <<f[n - 1], n>> \in P \X (1..N)
    BY <1>3, <2>1
  <2> QED BY <1>3, <2>2
<1> QED BY <1>3, <1>4 DEF IsIteration

\* Elements of I that have one above them, nearer to the top.
IsUpward(I, depth, R, up) ==
    /\ depth \in [I -> Nat] /\ R \subseteq I
    /\ \A d \in R : up[d] \in I /\ depth[up[d]] < depth[d]

\* A set that holds an element whenever it holds the one above it, holds all.
LEMMA UpwardInduction ==
    ASSUME NEW I, NEW depth, NEW R, NEW up, IsUpward(I, depth, R, up),
           NEW T, \A d \in I : (d \in R => up[d] \in T) => d \in T
    PROVE  I \subseteq T
<1> DEFINE Bad == {d \in I : d \notin T}
           Depths == {depth[d] : d \in Bad}
<1>1. SUFFICES ASSUME Bad # {} PROVE FALSE
  OBVIOUS
<1>2. Depths \subseteq Nat /\ Depths # {}
  BY <1>1 DEF IsUpward
<1>3. PICK x \in Depths : \A y \in Depths : x <= y
  <2> HIDE DEF Depths
  <2> QED BY <1>2, LeastNatural
<1>4. PICK d \in Bad : x = depth[d]
  BY <1>3
<1>5. d \in R /\ up[d] \in Bad
  BY <1>4 DEF IsUpward
<1>6. depth[up[d]] \in Depths /\ depth[up[d]] \in Nat /\ depth[d] \in Nat
  BY <1>5 DEF IsUpward
<1>7. depth[d] <= depth[up[d]]
  BY <1>3, <1>4, <1>6
<1> QED BY <1>5, <1>6, <1>7 DEF IsUpward

\* What f is at d, when it is start at the top and a step from what is above.
FromAbove(f, R, up, start, step, d) ==
    IF d \in R THEN step[<<f[up[d]], d>>] ELSE start[d]
IsFromAbove(f, S, I, R, up, start, step) ==
    f \in [I -> S] /\ \A d \in I : f[d] = FromAbove(f, R, up, start, step, d)

\* There is a function that is defined by what it is at the element above.
LEMMA UpwardRecursion ==
    ASSUME NEW S, NEW I, NEW depth, NEW R, NEW up, IsUpward(I, depth, R, up),
           NEW start \in [I -> S], NEW step \in [S \X I -> S]
    PROVE  \E f : IsFromAbove(f, S, I, R, up, start, step)
<1> DEFINE Below(n) == {d \in I : depth[d] <= n}
           Solves(n, f) == \A d \in Below(n) : f[d] = FromAbove(f, R, up, start, step, d)
           Solved == {n \in Nat : \E f \in [I -> S] : Solves(n, f)}
<1>1. \A d \in R : up[d] \in I /\ d \in I /\ depth[up[d]] \in Nat /\ depth[d] \in Nat
                   /\ depth[up[d]] < depth[d]
  BY DEF IsUpward
<1>2. \A d \in I : depth[d] \in Nat
  BY DEF IsUpward
<1>3. \A f \in [I -> S] : \A d \in I : FromAbove(f, R, up, start, step, d) \in S
  BY <1>1 DEF FromAbove
<1>4. \A f, g, d : (d \in R => f[up[d]] = g[up[d]]) =>
          FromAbove(f, R, up, start, step, d) = FromAbove(g, R, up, start, step, d)
  BY DEF FromAbove
<1>5. 0 \in Solved
  <2>1. \A d \in Below(0) : d \notin R
    BY <1>1
  <2>2. Solves(0, start)
    BY <2>1 DEF FromAbove
  <2> QED BY <2>2
<1>6. ASSUME NEW n \in Nat, n \in Solved PROVE n + 1 \in Solved
  <2>1. PICK f \in [I -> S] : Solves(n, f)
    BY <1>6
  <2> DEFINE g == [d \in I |-> FromAbove(f, R, up, start, step, d)]
  <2>2. g \in [I -> S]
    BY <1>3
  <2>3. \A d \in Below(n) : g[d] = f[d]
    BY <2>1
  <2>4. \A d \in I : g[d] = FromAbove(f, R, up, start, step, d)
    OBVIOUS
  <2> HIDE DEF g
  <2>5. ASSUME NEW d \in Below(n + 1) PROVE g[d] = FromAbove(g, R, up, start, step, d)
    <3>1. d \in R => up[d] \in Below(n)
      BY <1>1
    <3>2. d \in R => f[up[d]] = g[up[d]]
      BY <3>1, <2>3
    <3>3. FromAbove(f, R, up, start, step, d) = FromAbove(g, R, up, start, step, d)
      BY <3>2, <1>4
    <3> QED BY <3>3, <2>4
  <2>6. Solves(n + 1, g)
    BY <2>5
  <2> HIDE DEF Solves
  <2> QED BY <2>2, <2>6
<1>7. \A n \in Nat : n \in Solved
  <2> HIDE DEF Solved
  <2>1. TAKE n \in Nat
  <2>2. 0..n \subseteq Solved
    <3>1. \A m \in 0..(n - 1) : m \in Solved => m + 1 \in Solved
      BY <1>6
    <3> QED BY <1>5, <3>1, IntervalInduction
  <2> QED BY <2>2
<1> DEFINE Sol(n) == CHOOSE f \in [I -> S] : Solves(n, f)
<1>8. \A n \in Nat : Sol(n) \in [I -> S] /\ Solves(n, Sol(n))
  <2>1. \A n \in Nat : \E f \in [I -> S] : Solves(n, f)
    BY <1>7
  <2> HIDE DEF Solves
  <2> QED BY <2>1
\* Two of these functions agree where both are solutions.
<1>9. ASSUME NEW n \in Nat, NEW m \in Nat, NEW d \in I, depth[d] <= n, depth[d] <= m
      PROVE  Sol(n)[d] = Sol(m)[d]
  <2> DEFINE f == Sol(n)
             g == Sol(m)
             T == {e \in I : depth[e] <= n /\ depth[e] <= m => f[e] = g[e]}
  <2>1. Solves(n, f) /\ Solves(m, g)
    BY <1>8
  <2> HIDE DEF f, g, Sol
  <2>2. ASSUME NEW e \in I, e \in R => up[e] \in T PROVE e \in T
    <3>1. SUFFICES ASSUME depth[e] <= n, depth[e] <= m PROVE f[e] = g[e]
      OBVIOUS
    <3>2. e \in R => depth[up[e]] <= n /\ depth[up[e]] <= m
      BY <3>1, <1>1
    <3>3. e \in R => f[up[e]] = g[up[e]]
      BY <2>2, <3>2
    <3>4. f[e] = FromAbove(f, R, up, start, step, e) /\ g[e] = FromAbove(g, R, up, start, step, e)
      BY <2>1, <3>1
    <3> QED BY <3>3, <3>4, <1>4
  <2> HIDE DEF T
  <2>3. I \subseteq T
    BY <2>2, UpwardInduction
  <2>4. d \in T
    BY <2>3
  <2>5. f[d] = g[d]
    BY <2>4, <1>9 DEF T
  <2> QED BY <2>5 DEF f, g
<1> DEFINE h == [d \in I |-> Sol(depth[d])[d]]
<1>10. h \in [I -> S]
  <2> HIDE DEF Sol
  <2> QED BY <1>2, <1>8
<1>11. ASSUME NEW d \in I PROVE h[d] = FromAbove(h, R, up, start, step, d)
  <2> DEFINE f == Sol(depth[d])
  <2>1. depth[d] \in Nat
    BY <1>2
  <2>2. f[d] = FromAbove(f, R, up, start, step, d)
    <3>1. Solves(depth[d], f)
      BY <1>8, <2>1
    <3> HIDE DEF f
    <3> QED BY <3>1, <2>1
  <2>3. d \in R => f[up[d]] = h[up[d]]
    <3>1. SUFFICES ASSUME d \in R PROVE f[up[d]] = h[up[d]]
      OBVIOUS
    <3>2. up[d] \in I /\ depth[up[d]] \in Nat /\ depth[up[d]] <= depth[d] /\ depth[up[d]] <= depth[up[d]]
      BY <1>1, <3>1
    <3> HIDE DEF Sol
    <3>3. Sol(depth[d])[up[d]] = Sol(depth[up[d]])[up[d]]
      BY <1>9, <2>1, <3>2
    <3> QED BY <3>2, <3>3
  <2>4. h[d] = f[d]
    OBVIOUS
  <2> HIDE DEF h, f
  <2> QED BY <2>2, <2>3, <2>4, <1>4
<1> HIDE DEF h
<1>12. IsFromAbove(h, S, I, R, up, start, step)
  BY <1>10, <1>11 DEF IsFromAbove
<1> QED BY <1>12

-----------------------------------------------------------------------------
(* Sequences *)

\* Sequences over a set.
LEMMA SeqFacts ==
    ASSUME NEW S, NEW s \in Seq(S)
    PROVE  /\ Len(s) \in Nat /\ DOMAIN s = 1..Len(s)
           /\ \A n \in 1..Len(s) : s[n] \in S
           /\ Range(s) \subseteq S
           /\ \A x : x \in Range(s) <=> \E n \in 1..Len(s) : s[n] = x
           /\ s # <<>> => Len(s) >= 1
<1>1. Len(s) \in Nat /\ DOMAIN s = 1..Len(s) /\ \A n \in 1..Len(s) : s[n] \in S
  OBVIOUS
<1>2. \A x : x \in Range(s) <=> \E n \in 1..Len(s) : s[n] = x
  BY <1>1 DEF Range
<1>3. s # <<>> => Len(s) >= 1
  OBVIOUS
<1> QED BY <1>1, <1>2, <1>3

\* The empty sequence has no elements.
LEMMA RangeEmpty == Range(<<>>) = {}
<1>1. DOMAIN <<>> = {}
  <2>1. <<>> \in Seq({})
    OBVIOUS
  <2>2. Len(<<>>) = 0 /\ DOMAIN <<>> = 1..Len(<<>>)
    BY <2>1, SeqFacts
  <2> QED BY <2>2
<1> QED BY <1>1 DEF Range

\* A sequence of length one is not empty.
LEMMA LenNotEmpty == ASSUME NEW s, Len(s) = 1 PROVE s # <<>>
<1>1. Len(<<>>) = 0
  OBVIOUS
<1> QED BY <1>1

\* The elements of a sequence that grew.
LEMMA RangeAppend ==
    ASSUME NEW S, NEW s \in Seq(S), NEW e \in S
    PROVE  Range(Append(s, e)) = Range(s) \cup {e}
<1>1. /\ Append(s, e) \in Seq(S) /\ Len(Append(s, e)) = Len(s) + 1
      /\ \A n \in 1..Len(s) : Append(s, e)[n] = s[n]
      /\ Append(s, e)[Len(s) + 1] = e
  BY AppendProperties
<1>2. Len(s) \in Nat
  OBVIOUS
<1>3. \A x : x \in Range(Append(s, e)) <=> \E n \in 1..(Len(s) + 1) : Append(s, e)[n] = x
  <2> DEFINE q == Append(s, e)
  <2>1. q \in Seq(S) /\ Len(q) = Len(s) + 1
    BY <1>1
  <2> HIDE DEF q
  <2>2. \A x : x \in Range(q) <=> \E n \in 1..Len(q) : q[n] = x
    BY <2>1, SeqFacts
  <2>3. \A x : x \in Range(q) <=> \E n \in 1..(Len(s) + 1) : q[n] = x
    BY <2>1, <2>2
  <2> QED BY <2>3 DEF q
<1>4. \A x : x \in Range(s) <=> \E n \in 1..Len(s) : s[n] = x
  BY SeqFacts
<1> HIDE DEF Range
<1>5. ASSUME NEW x \in Range(Append(s, e)) PROVE x \in Range(s) \cup {e}
  <2>1. PICK n \in 1..(Len(s) + 1) : Append(s, e)[n] = x
    BY <1>3, <1>5
  <2>2. CASE n = Len(s) + 1
    BY <2>1, <2>2, <1>1
  <2>3. CASE n \in 1..Len(s)
    BY <2>1, <2>3, <1>1, <1>4
  <2> QED BY <2>2, <2>3, <1>2
<1>6. ASSUME NEW x \in Range(s) PROVE x \in Range(Append(s, e))
  <2>1. PICK n \in 1..Len(s) : s[n] = x
    BY <1>4, <1>6
  <2>2. n \in 1..(Len(s) + 1) /\ Append(s, e)[n] = x
    BY <2>1, <1>1, <1>2
  <2> QED BY <2>2, <1>3
<1>7. e \in Range(Append(s, e))
  <2>1. Len(s) + 1 \in 1..(Len(s) + 1)
    BY <1>2
  <2> QED BY <2>1, <1>1, <1>3
<1> QED BY <1>5, <1>6, <1>7

\* kept is the recursion that Among(s, K) stands for.
AmongSteps(kept, S, s, K) ==
    /\ kept \in [0..Len(s) -> Seq(S)]
    /\ kept[0] = <<>>
    /\ \A n \in 1..Len(s) :
          kept[n] = IF s[n] \in K THEN Append(kept[n - 1], s[n]) ELSE kept[n - 1]
    /\ Among(s, K) = kept[Len(s)]

\* It has a solution.
LEMMA AmongDef ==
    ASSUME NEW S, NEW s \in Seq(S), NEW K
    PROVE  \E kept : AmongSteps(kept, S, s, K)
<1> DEFINE N == Len(s)
           Next1(q, n) == IF s[n] \in K THEN Append(q, s[n]) ELSE q
           step == [p \in Seq(S) \X (1..N) |-> Next1(p[1], p[2])]
<1>1. N \in Nat
  OBVIOUS
<1>2. step \in [Seq(S) \X (1..N) -> Seq(S)]
  OBVIOUS
<1>3. \A q \in Seq(S), n \in 1..N : step[<<q, n>>] = Next1(q, n)
  OBVIOUS
<1>4. <<>> \in Seq(S)
  OBVIOUS
<1> HIDE DEF N, step
<1>5. PICK f : IsRecursion(f, Seq(S), <<>>, N, step)
  BY <1>1, <1>2, <1>4, RecursionExists
<1>6. \A n \in 0..N : n # 0 => n \in 1..N /\ n - 1 \in 0..N /\ f[n - 1] \in Seq(S)
  BY <1>1, <1>5 DEF IsRecursion
<1>7. \A n \in 0..N : n # 0 => step[<<f[n - 1], n>>] = Next1(f[n - 1], n)
  BY <1>6, <1>3
<1> HIDE DEF Next1
<1>8. f = [n \in 0..N |-> IF n = 0 THEN <<>> ELSE Next1(f[n - 1], n)]
  BY <1>5, <1>6, <1>7 DEF IsRecursion
<1> DEFINE kept == CHOOSE g : g = [n \in 0..N |-> IF n = 0 THEN <<>> ELSE Next1(g[n - 1], n)]
<1>9. kept = [n \in 0..N |-> IF n = 0 THEN <<>> ELSE Next1(kept[n - 1], n)]
  BY <1>8
<1>10. Among(s, K) = kept[N]
  BY DEF Among, N, Next1
<1> HIDE DEF kept
<1>11. kept \in [0..N -> Seq(S)]
  <2> DEFINE T == {n \in 0..N : kept[n] \in Seq(S)}
  <2>1. 0 \in T
    BY <1>1, <1>4, <1>9
  <2>2. ASSUME NEW n \in 0..(N - 1), n \in T PROVE n + 1 \in T
    <3>1. n + 1 \in 1..N /\ n + 1 \in 0..N /\ n + 1 # 0 /\ (n + 1) - 1 = n
      BY <1>1
    <3>2. kept[n + 1] = Next1(kept[n], n + 1)
      BY <3>1, <1>9
    <3>3. kept[n] \in Seq(S)
      BY <2>2
    <3>4. Next1(kept[n], n + 1) \in Seq(S)
      BY <1>2, <1>3, <3>1, <3>3
    <3> QED BY <3>1, <3>2, <3>4
  <2> HIDE DEF T
  <2>3. 0..N \subseteq T
    BY <1>1, <2>1, <2>2, IntervalInduction
  <2>4. \A n \in 0..N : kept[n] \in Seq(S)
    BY <2>3 DEF T
  <2> QED BY <2>4, <1>9
<1>12. kept[0] = <<>>
  BY <1>1, <1>9
<1>13. \A n \in 1..N : kept[n] = Next1(kept[n - 1], n)
  <2>1. \A n \in 1..N : n \in 0..N /\ n # 0
    BY <1>1
  <2> QED BY <2>1, <1>9
<1>14. /\ kept[0] = <<>>
       /\ \A n \in 1..N :
             kept[n] = IF s[n] \in K THEN Append(kept[n - 1], s[n]) ELSE kept[n - 1]
       /\ Among(s, K) = kept[N]
  BY <1>10, <1>12, <1>13 DEF Next1
<1> QED BY <1>11, <1>14 DEF N, AmongSteps

\* Among keeps the elements that are in K, and no others.
LEMMA AmongRange ==
    ASSUME NEW S, NEW s \in Seq(S), NEW K
    PROVE  Among(s, K) \in Seq(S) /\ Range(Among(s, K)) = Range(s) \cap K
<1>1. PICK kept : AmongSteps(kept, S, s, K)
  BY AmongDef
<1> DEFINE N == Len(s)
           Before(n) == {s[i] : i \in 1..n} \cap K
           T == {n \in 0..N : Range(kept[n]) = Before(n)}
<1>0. /\ kept \in [0..N -> Seq(S)] /\ kept[0] = <<>> /\ Among(s, K) = kept[N]
      /\ \A n \in 1..N : kept[n] = IF s[n] \in K THEN Append(kept[n - 1], s[n])
                                                   ELSE kept[n - 1]
  BY <1>1 DEF AmongSteps
<1>2. N \in Nat /\ (\A n \in 1..N : s[n] \in S) /\ Range(s) = {s[i] : i \in 1..N}
  <2>1. N \in Nat /\ (\A n \in 1..N : s[n] \in S) /\ DOMAIN s = 1..N
    OBVIOUS
  <2> QED BY <2>1 DEF Range
<1> HIDE DEF N
<1>3. 0 \in T
  BY <1>0, <1>2, RangeEmpty
<1>4. ASSUME NEW n \in 0..(N - 1), n \in T PROVE n + 1 \in T
  <2>1. n + 1 \in 1..N /\ n + 1 \in 0..N /\ n \in 0..N /\ (n + 1) - 1 = n
    BY <1>2
  <2>2. Range(kept[n]) = Before(n)
    BY <1>4
  <2>3. \A i \in Int : i \in 1..(n + 1) <=> i \in 1..n \/ i = n + 1
    BY <2>1
  <2>4. Before(n + 1) = Before(n) \cup ({s[n + 1]} \cap K)
    BY <2>3
  <2>5. kept[n] \in Seq(S) /\ s[n + 1] \in S
    BY <2>1, <1>0, <1>2
  <2>6. kept[n + 1] = IF s[n + 1] \in K THEN Append(kept[n], s[n + 1]) ELSE kept[n]
    BY <2>1, <1>0
  <2>7. CASE s[n + 1] \in K
    <3>1. Range(kept[n + 1]) = Range(kept[n]) \cup {s[n + 1]}
      BY <2>5, <2>6, <2>7, RangeAppend
    <3>2. Before(n + 1) = Before(n) \cup {s[n + 1]}
      BY <2>4, <2>7
    <3> HIDE DEF Before
    <3> QED BY <3>1, <3>2, <2>1, <2>2
  <2>8. CASE s[n + 1] \notin K
    <3>1. Before(n + 1) = Before(n)
      BY <2>4, <2>8
    <3> HIDE DEF Before
    <3> QED BY <3>1, <2>1, <2>2, <2>6, <2>8
  <2> QED BY <2>7, <2>8
<1>5. Range(kept[N]) = Before(N)
  <2> HIDE DEF T
  <2>1. 0..N \subseteq T
    BY <1>2, <1>3, <1>4, IntervalInduction
  <2>2. N \in 0..N
    BY <1>2
  <2> QED BY <2>1, <2>2 DEF T
<1>6. kept[N] \in Seq(S)
  BY <1>0, <1>2
<1>7. Before(N) = Range(s) \cap K
  BY <1>2
<1> QED BY <1>0, <1>5, <1>6, <1>7

\* A sequence that is not empty is its head and its tail.
LEMMA HeadTail ==
    ASSUME NEW S, NEW s \in Seq(S), s # <<>>
    PROVE  /\ Head(s) \in S /\ Tail(s) \in Seq(S) /\ Head(s) \in Range(s)
           /\ Len(s) \in Nat /\ Len(s) >= 1 /\ Len(Tail(s)) = Len(s) - 1
           /\ Head(s) = s[1] /\ \A n \in 1..(Len(s) - 1) : Tail(s)[n] = s[n + 1]
           /\ Range(s) = {Head(s)} \cup Range(Tail(s))
<1>1. /\ Head(s) \in S /\ Tail(s) \in Seq(S) /\ Len(Tail(s)) = Len(s) - 1
      /\ Len(s) \in Nat /\ Len(s) >= 1 /\ Head(s) = s[1]
  OBVIOUS
<1>2. \A n \in 1..(Len(s) - 1) : Tail(s)[n] = s[n + 1]
  BY <1>1, HeadTailProperties
<1>3. \A x : x \in Range(s) <=> \E n \in 1..Len(s) : s[n] = x
  BY SeqFacts
<1>4. \A x : x \in Range(Tail(s)) <=> \E n \in 1..(Len(s) - 1) : Tail(s)[n] = x
  <2> DEFINE q == Tail(s)
  <2>1. q \in Seq(S) /\ Len(q) = Len(s) - 1
    BY <1>1
  <2> HIDE DEF q
  <2>2. \A x : x \in Range(q) <=> \E n \in 1..Len(q) : q[n] = x
    BY <2>1, SeqFacts
  <2>3. \A x : x \in Range(q) <=> \E n \in 1..(Len(s) - 1) : q[n] = x
    BY <2>1, <2>2
  <2> QED BY <2>3 DEF q
<1>5. ASSUME NEW x \in Range(s) PROVE x \in {Head(s)} \cup Range(Tail(s))
  <2>1. PICK n \in 1..Len(s) : s[n] = x
    BY <1>3, <1>5
  <2>2. CASE n = 1
    BY <2>1, <2>2, <1>1
  <2>3. CASE n # 1
    <3>1. n - 1 \in 1..(Len(s) - 1) /\ (n - 1) + 1 = n
      BY <2>3, <1>1
    <3>2. Tail(s)[n - 1] = x
      BY <3>1, <2>1, <1>2
    <3> QED BY <3>1, <3>2, <1>4
  <2> QED BY <2>2, <2>3
<1>6. ASSUME NEW x \in Range(Tail(s)) PROVE x \in Range(s)
  <2>1. PICK n \in 1..(Len(s) - 1) : Tail(s)[n] = x
    BY <1>4, <1>6
  <2>2. n + 1 \in 1..Len(s) /\ s[n + 1] = x
    BY <2>1, <1>1, <1>2
  <2> QED BY <2>2, <1>3
<1>7. Head(s) \in Range(s)
  <2>1. 1 \in 1..Len(s)
    BY <1>1
  <2> QED BY <2>1, <1>1, <1>3
<1>8. Range(s) = {Head(s)} \cup Range(Tail(s))
  BY <1>5, <1>6, <1>7
<1> QED BY <1>1, <1>2, <1>7, <1>8

\* The elements of a concatenation.
LEMMA ConcatFacts ==
    ASSUME NEW S, NEW s \in Seq(S), NEW t \in Seq(S)
    PROVE  s \o t \in Seq(S) /\ Range(s \o t) = Range(s) \cup Range(t)
BY ConcatProperties, RangeConcatenation

\* A sequence of one element.
LEMMA SingletonFacts ==
    ASSUME NEW S, NEW e \in S
    PROVE  <<e>> \in Seq(S) /\ Range(<<e>>) = {e} /\ <<e>> # <<>> /\ Head(<<e>>) = e
<1>1. <<e>> \in Seq(S) /\ Len(<<e>>) = 1 /\ <<e>>[1] = e /\ <<e>> # <<>> /\ Head(<<e>>) = e
  OBVIOUS
<1>2. \A x : x \in Range(<<e>>) <=> \E n \in 1..1 : <<e>>[n] = x
  <2> DEFINE q == <<e>>
  <2>1. q \in Seq(S) /\ Len(q) = 1
    BY <1>1
  <2> HIDE DEF q
  <2>2. \A x : x \in Range(q) <=> \E n \in 1..1 : q[n] = x
    BY <2>1, SeqFacts
  <2> QED BY <2>2 DEF q
<1>3. \A x : x \in Range(<<e>>) <=> x = e
  BY <1>1, <1>2
<1> QED BY <1>1, <1>3

\* Sequences, whatever their elements.
IsSeq(s) == s \in Seq(Range(s))

\* The empty sequence is one.
LEMMA EmptyIsSeq == IsSeq(<<>>) /\ Len(<<>>) = 0
BY RangeEmpty DEF IsSeq

\* What is in a sequence.
LEMMA SeqElements ==
    ASSUME NEW s, IsSeq(s)
    PROVE  /\ Len(s) \in Nat /\ DOMAIN s = 1..Len(s)
           /\ \A n \in 1..Len(s) : s[n] \in Range(s)
           /\ \A x : x \in Range(s) <=> \E n \in 1..Len(s) : s[n] = x
           /\ s # <<>> => Len(s) >= 1
<1> DEFINE S == Range(s)
<1>1. s \in Seq(S)
  BY DEF IsSeq
<1> HIDE DEF S
<1>2. /\ Len(s) \in Nat /\ DOMAIN s = 1..Len(s)
      /\ \A n \in 1..Len(s) : s[n] \in S
      /\ \A x : x \in Range(s) <=> \E n \in 1..Len(s) : s[n] = x
      /\ s # <<>> => Len(s) >= 1
  BY <1>1, SeqFacts
<1> QED BY <1>2 DEF S

\* A sequence over some set is one over its range.
LEMMA SeqIsSeq == ASSUME NEW S, NEW s \in Seq(S) PROVE IsSeq(s)
<1>1. Len(s) \in Nat /\ DOMAIN s = 1..Len(s) /\ \A n \in 1..Len(s) : s[n] \in Range(s)
  BY SeqFacts
<1>2. s = [n \in 1..Len(s) |-> s[n]]
  BY <1>1
<1> QED BY <1>1, <1>2 DEF IsSeq

\* Functions on an interval are sequences.
LEMMA FunctionIsSeq ==
    ASSUME NEW N \in Nat, NEW s, s = [n \in 1..N |-> s[n]]
    PROVE  IsSeq(s) /\ Len(s) = N
<1> DEFINE S == Range(s)
<1>1. \A n \in 1..N : s[n] \in S
  BY DEF Range
<1> HIDE DEF S
<1>2. s \in Seq(S) /\ Len(s) = N
  BY <1>1
<1> QED BY <1>2 DEF S, IsSeq

\* Two sequences, one after the other.
LEMMA ConcatIsSeq ==
    ASSUME NEW s, NEW t, IsSeq(s), IsSeq(t)
    PROVE  /\ IsSeq(s \o t) /\ Len(s \o t) = Len(s) + Len(t)
           /\ \A i \in 1..Len(s) : (s \o t)[i] = s[i]
           /\ \A i \in 1..Len(t) : (s \o t)[Len(s) + i] = t[i]
           /\ \A i \in 1..Len(s \o t) : \/ i \in 1..Len(s) /\ (s \o t)[i] = s[i]
                                        \/ i - Len(s) \in 1..Len(t) /\ (s \o t)[i] = t[i - Len(s)]
<1> DEFINE S == Range(s) \cup Range(t)
<1>1. s \in Seq(S) /\ t \in Seq(S)
  <2>1. \A R : R \subseteq S => Seq(R) \subseteq Seq(S)
    OBVIOUS
  <2>2. Range(s) \subseteq S /\ Range(t) \subseteq S
    OBVIOUS
  <2> HIDE DEF S
  <2> QED BY <2>1, <2>2 DEF IsSeq
<1> HIDE DEF S
<1>2. /\ s \o t \in Seq(S) /\ Len(s \o t) = Len(s) + Len(t)
      /\ \A i \in 1..Len(s) : (s \o t)[i] = s[i]
      /\ \A i \in 1..Len(t) : (s \o t)[Len(s) + i] = t[i]
  BY <1>1
<1>3. Len(s) \in Nat /\ Len(t) \in Nat
  BY <1>1, SeqFacts
<1>4. ASSUME NEW i \in 1..Len(s \o t), i \notin 1..Len(s)
      PROVE  i - Len(s) \in 1..Len(t) /\ (s \o t)[i] = t[i - Len(s)]
  <2>1. i - Len(s) \in 1..Len(t) /\ Len(s) + (i - Len(s)) = i
    BY <1>2, <1>3, <1>4
  <2> QED BY <2>1, <1>2
<1>5. IsSeq(s \o t)
  BY <1>2, SeqIsSeq
<1> QED BY <1>2, <1>4, <1>5

\* Sequences of one element.
LEMMA OneIsSeq == ASSUME NEW e PROVE IsSeq(<<e>>) /\ Len(<<e>>) = 1 /\ <<e>>[1] = e
<1>1. <<e>> \in Seq({e}) /\ Len(<<e>>) = 1 /\ <<e>>[1] = e
  OBVIOUS
<1> QED BY <1>1, SeqIsSeq

\* Equal sequences.
LEMMA SameSeq ==
    ASSUME NEW s, NEW t, IsSeq(s), IsSeq(t), Len(s) = Len(t), \A i \in 1..Len(s) : s[i] = t[i]
    PROVE  s = t
<1>1. s = [i \in 1..Len(s) |-> s[i]] /\ t = [i \in 1..Len(s) |-> t[i]]
  <2>1. s \in Seq(Range(s)) /\ t \in Seq(Range(t))
    BY DEF IsSeq
  <2>2. \A S : \A q \in Seq(S) : q = [i \in 1..Len(q) |-> q[i]]
    OBVIOUS
  <2> QED BY <2>1, <2>2
<1> QED BY <1>1

\* What Among keeps is a sequence, and starts with what s starts with.
LEMMA AmongIsSeq ==
    ASSUME NEW s, IsSeq(s), NEW K
    PROVE  /\ IsSeq(Among(s, K))
           /\ \A i \in 1..Len(Among(s, K)) : Among(s, K)[i] \in Range(s) \cap K
           /\ \A x \in Range(s) \cap K : \E i \in 1..Len(Among(s, K)) : Among(s, K)[i] = x
<1> DEFINE S == Range(s)
<1>1. s \in Seq(S)
  BY DEF IsSeq
<1> HIDE DEF S
<1>2. Among(s, K) \in Seq(S) /\ Range(Among(s, K)) = Range(s) \cap K
  BY <1>1, AmongRange
<1>3. IsSeq(Among(s, K))
  BY <1>2, SeqIsSeq
<1> QED BY <1>2, <1>3, SeqElements

LEMMA AmongFirst ==
    ASSUME NEW s, IsSeq(s), NEW K, s # <<>>, s[1] \in K
    PROVE  Len(Among(s, K)) >= 1 /\ Among(s, K)[1] = s[1]
<1> DEFINE S == Range(s)
           N == Len(s)
<1>1. s \in Seq(S)
  BY DEF IsSeq
<1>2. N \in Nat /\ N >= 1 /\ \A n \in 1..N : s[n] \in S
  BY SeqElements
<1> HIDE DEF S
<1>3. PICK kept : AmongSteps(kept, S, s, K)
  BY <1>1, AmongDef
<1>4. /\ \A n \in 0..N : kept[n] \in Seq(S)
      /\ kept[0] = <<>>
      /\ \A n \in 1..N : kept[n] = IF s[n] \in K THEN Append(kept[n - 1], s[n]) ELSE kept[n - 1]
      /\ Among(s, K) = kept[N]
  BY <1>3 DEF AmongSteps, N
<1> HIDE DEF N
<1> DEFINE T == {n \in 0..(N - 1) : Len(kept[n + 1]) >= 1 /\ kept[n + 1][1] = s[1]}
<1>5. 0 \in T
  <2>1. kept[1] = Append(<<>>, s[1]) /\ s[1] \in S
    <3>1. 1 \in 1..N /\ 1 - 1 = 0
      BY <1>2
    <3> QED BY <3>1, <1>4, <1>2
  <2>2. Len(kept[1]) >= 1 /\ kept[1][1] = s[1]
    BY <2>1
  <2> QED BY <2>2, <1>2
<1>6. ASSUME NEW n \in 0..(N - 1 - 1), n \in T PROVE n + 1 \in T
  <2>1. /\ n + 1 \in 0..(N - 1) /\ n + 1 \in 0..N /\ n + 1 + 1 \in 1..N /\ (n + 1 + 1) - 1 = n + 1
    BY <1>2
  <2> DEFINE q == kept[n + 1]
             e == s[n + 1 + 1]
  <2>2. kept[n + 1 + 1] = IF e \in K THEN Append(q, e) ELSE q
    BY <2>1, <1>4
  <2>3. q \in Seq(S) /\ e \in S /\ Len(q) >= 1 /\ q[1] = s[1]
    BY <2>1, <1>2, <1>4, <1>6
  <2> HIDE DEF q, e
  <2>4. Len(Append(q, e)) >= 1 /\ Append(q, e)[1] = q[1]
    BY <2>3
  <2> QED BY <2>1, <2>2, <2>3, <2>4
<1> HIDE DEF T
<1>7. N - 1 \in Nat
  BY <1>2
<1>8. 0..(N - 1) \subseteq T
  BY <1>5, <1>6, <1>7, IntervalInduction
<1>9. N - 1 \in T /\ (N - 1) + 1 = N
  <2>1. N - 1 \in 0..(N - 1) /\ (N - 1) + 1 = N
    BY <1>2, <1>7
  <2> QED BY <2>1, <1>8
<1> QED BY <1>9, <1>4 DEF T

-----------------------------------------------------------------------------
(* Sequences of sequences *)

AreSeqs(ss) == IsSeq(ss) /\ \A i \in 1..Len(ss) : IsSeq(ss[i])
Elements(ss) == UNION {Range(ss[i]) : i \in 1..Len(ss)}

\* joined is the recursion that Flat(ss) stands for.
FlatSteps(joined, ss) ==
    /\ joined[0] = <<>> /\ Flat(ss) = joined[Len(ss)]
    /\ \A n \in 1..Len(ss) : joined[n] = joined[n - 1] \o ss[n]
    /\ \A n \in 0..Len(ss) : joined[n] \in Seq(Elements(ss))

\* It has a solution.
LEMMA FlatDef == ASSUME NEW ss, AreSeqs(ss) PROVE \E joined : FlatSteps(joined, ss)
<1> DEFINE N == Len(ss)
           S == Elements(ss)
           step == [p \in Seq(S) \X (1..N) |-> p[1] \o ss[p[2]]]
<1>1. N \in Nat
  BY SeqElements DEF AreSeqs
<1>2. \A n \in 1..N : ss[n] \in Seq(S)
  <2> TAKE n \in 1..N
  <2>1. Range(ss[n]) \subseteq S
    BY DEF Elements
  <2>2. ss[n] \in Seq(Range(ss[n]))
    BY DEF AreSeqs, IsSeq
  <2>3. \A R : R \subseteq S => Seq(R) \subseteq Seq(S)
    OBVIOUS
  <2> QED BY <2>1, <2>2, <2>3
<1> HIDE DEF S, N
<1>3. step \in [Seq(S) \X (1..N) -> Seq(S)] /\ <<>> \in Seq(S)
  BY <1>2
<1>4. \A q \in Seq(S), n \in 1..N : step[<<q, n>>] = q \o ss[n]
  OBVIOUS
<1> HIDE DEF step
<1>5. PICK f : IsRecursion(f, Seq(S), <<>>, N, step)
  BY <1>1, <1>3, RecursionExists
<1>6. \A n \in 0..N : n # 0 => n \in 1..N /\ n - 1 \in 0..N /\ f[n - 1] \in Seq(S)
  BY <1>1, <1>5 DEF IsRecursion
<1>7. \A n \in 0..N : n # 0 => step[<<f[n - 1], n>>] = f[n - 1] \o ss[n]
  BY <1>6, <1>4
<1>8. f = [n \in 0..N |-> IF n = 0 THEN <<>> ELSE f[n - 1] \o ss[n]]
  BY <1>5, <1>6, <1>7 DEF IsRecursion
<1> DEFINE joined == CHOOSE g : g = [n \in 0..N |-> IF n = 0 THEN <<>> ELSE g[n - 1] \o ss[n]]
<1>9. joined = [n \in 0..N |-> IF n = 0 THEN <<>> ELSE joined[n - 1] \o ss[n]]
  BY <1>8
<1>10. Flat(ss) = joined[N]
  BY DEF Flat, N
<1> HIDE DEF joined
<1>11. joined[0] = <<>> /\ \A n \in 1..N : joined[n] = joined[n - 1] \o ss[n]
  <2>1. 0 \in 0..N /\ \A n \in 1..N : n \in 0..N /\ n # 0
    BY <1>1
  <2> QED BY <2>1, <1>9
<1> DEFINE T == {n \in 0..N : joined[n] \in Seq(S)}
<1>12. 0 \in T
  <2>1. 0 \in 0..N /\ joined[0] \in Seq(S)
    BY <1>1, <1>3, <1>11
  <2> QED BY <2>1
<1>13. ASSUME NEW n \in 0..(N - 1), n \in T PROVE n + 1 \in T
  <2>1. n + 1 \in 1..N /\ n + 1 \in 0..N /\ (n + 1) - 1 = n
    BY <1>1
  <2>2. joined[n + 1] = joined[n] \o ss[n + 1] /\ joined[n] \in Seq(S) /\ ss[n + 1] \in Seq(S)
    BY <2>1, <1>2, <1>11, <1>13
  <2>3. \A q \in Seq(S), r \in Seq(S) : q \o r \in Seq(S)
    OBVIOUS
  <2> QED BY <2>1, <2>2, <2>3
<1> HIDE DEF T
<1>14. 0..N \subseteq T
  BY <1>1, <1>12, <1>13, IntervalInduction
<1>15. \A n \in 0..N : joined[n] \in Seq(S)
  BY <1>14 DEF T
<1> QED BY <1>10, <1>11, <1>15 DEF FlatSteps, N, S

\* Flat gives a sequence of the elements, which starts with those of the first.
LEMMA FlatIsSeq ==
    ASSUME NEW ss, AreSeqs(ss)
    PROVE  /\ IsSeq(Flat(ss))
           /\ \A i \in 1..Len(Flat(ss)) : Flat(ss)[i] \in Elements(ss)
<1>1. PICK joined : FlatSteps(joined, ss)
  BY FlatDef
<1>2. Len(ss) \in Nat
  BY SeqElements DEF AreSeqs
<1>3. Flat(ss) \in Seq(Elements(ss))
  <2>1. Len(ss) \in 0..Len(ss)
    BY <1>2
  <2> QED BY <1>1, <2>1 DEF FlatSteps
<1> QED BY <1>3, SeqIsSeq, SeqFacts

LEMMA FlatFirst ==
    ASSUME NEW ss, AreSeqs(ss), ss # <<>>, ss[1] # <<>>
    PROVE  Flat(ss) # <<>> /\ Flat(ss)[1] = ss[1][1]
<1> DEFINE N == Len(ss)
           S == Elements(ss)
<1>1. PICK joined : FlatSteps(joined, ss)
  BY FlatDef
<1>2. N \in Nat /\ N >= 1 /\ IsSeq(ss[1])
  BY SeqElements DEF AreSeqs
<1>3. /\ joined[0] = <<>> /\ Flat(ss) = joined[N]
      /\ \A n \in 1..N : joined[n] = joined[n - 1] \o ss[n]
      /\ \A n \in 0..N : joined[n] \in Seq(S)
      /\ \A n \in 1..N : IsSeq(ss[n])
  BY <1>1 DEF FlatSteps, AreSeqs
<1> HIDE DEF N, S
<1> DEFINE T == {n \in 0..(N - 1) : Len(joined[n + 1]) >= 1 /\ joined[n + 1][1] = ss[1][1]}
<1>4. \A q, r : IsSeq(q) /\ IsSeq(r) /\ Len(q) >= 1 => Len(q \o r) >= 1 /\ (q \o r)[1] = q[1]
  <2> TAKE q, r
  <2> HAVE IsSeq(q) /\ IsSeq(r) /\ Len(q) >= 1
  <2>1. 1 \in 1..Len(q) /\ Len(q) \in Nat /\ Len(r) \in Nat
    BY SeqElements
  <2> QED BY <2>1, ConcatIsSeq
<1>5. 0 \in T
  <2>1. 1 \in 1..N /\ 1 - 1 = 0 /\ 0 \in 0..(N - 1) /\ 0 + 1 = 1
    BY <1>2
  <2>2. joined[1] = <<>> \o ss[1] /\ Len(ss[1]) >= 1 /\ Len(ss[1]) \in Nat
    BY <2>1, <1>2, <1>3, SeqElements
  <2>3. Len(<<>> \o ss[1]) = Len(ss[1]) /\ (<<>> \o ss[1])[1] = ss[1][1]
    <3>1. 1 \in 1..Len(ss[1])
      BY <2>2
    <3>2. /\ Len(<<>> \o ss[1]) = Len(<<>>) + Len(ss[1])
          /\ (<<>> \o ss[1])[Len(<<>>) + 1] = ss[1][1]
      BY <3>1, <1>2, EmptyIsSeq, ConcatIsSeq
    <3>3. Len(<<>>) + 1 = 1 /\ Len(<<>>) + Len(ss[1]) = Len(ss[1])
      BY <2>2, EmptyIsSeq
    <3> QED BY <3>2, <3>3
  <2> QED BY <2>1, <2>2, <2>3
<1>6. ASSUME NEW n \in 0..(N - 1 - 1), n \in T PROVE n + 1 \in T
  <2>1. /\ n + 1 \in 0..(N - 1) /\ n + 1 \in 0..N /\ n + 1 + 1 \in 1..N /\ (n + 1 + 1) - 1 = n + 1
    BY <1>2
  <2>2. /\ joined[n + 1 + 1] = joined[n + 1] \o ss[n + 1 + 1]
        /\ IsSeq(joined[n + 1]) /\ IsSeq(ss[n + 1 + 1])
        /\ Len(joined[n + 1]) >= 1 /\ joined[n + 1][1] = ss[1][1]
    BY <2>1, <1>3, <1>6, SeqIsSeq
  <2>3. Len(joined[n + 1 + 1]) >= 1 /\ joined[n + 1 + 1][1] = ss[1][1]
    <3> DEFINE q == joined[n + 1]
               r == ss[n + 1 + 1]
    <3> HIDE DEF q, r
    <3>1. Len(q \o r) >= 1 /\ (q \o r)[1] = q[1]
      BY <2>2, <1>4 DEF q, r
    <3> QED BY <3>1, <2>2 DEF q, r
  <2> QED BY <2>1, <2>3
<1> HIDE DEF T
<1>7. N - 1 \in Nat
  BY <1>2
<1>8. 0..(N - 1) \subseteq T
  BY <1>5, <1>6, <1>7, IntervalInduction
<1>9. N - 1 \in T /\ (N - 1) + 1 = N
  <2>1. N - 1 \in 0..(N - 1) /\ (N - 1) + 1 = N
    BY <1>2, <1>7
  <2> QED BY <2>1, <1>8
<1>10. Len(Flat(ss)) >= 1 /\ Flat(ss)[1] = ss[1][1]
  BY <1>9, <1>3 DEF T
<1> QED BY <1>10, EmptyIsSeq

\* Flat of sequences of one element, but for the empty one at k if there is one.
LEMMA FlatSingles ==
    ASSUME NEW ss, AreSeqs(ss), NEW k \in 1..(Len(ss) + 1), k <= Len(ss) => ss[k] = <<>>,
           \A i \in 1..Len(ss) : i # k => Len(ss[i]) = 1
    PROVE  /\ Len(Flat(ss)) = IF k <= Len(ss) THEN Len(ss) - 1 ELSE Len(ss)
           /\ \A i \in 1..Len(Flat(ss)) : Flat(ss)[i] = ss[IF i < k THEN i ELSE i + 1][1]
<1> DEFINE N == Len(ss)
           S == Elements(ss)
           At(i) == IF i < k THEN i ELSE i + 1
           Size(n) == IF n < k THEN n ELSE n - 1
<1>1. PICK joined : FlatSteps(joined, ss)
  BY FlatDef
<1>2. N \in Nat /\ k \in 1..(N + 1) /\ (k <= N => ss[k] = <<>>)
  BY SeqElements DEF AreSeqs
<1>3. /\ joined[0] = <<>> /\ Flat(ss) = joined[N]
      /\ \A n \in 1..N : joined[n] = joined[n - 1] \o ss[n]
      /\ \A n \in 0..N : IsSeq(joined[n])
      /\ \A n \in 1..N : IsSeq(ss[n])
  BY <1>1, SeqIsSeq DEF FlatSteps, AreSeqs
<1>4. \A i \in 1..N : i # k => Len(ss[i]) = 1
  OBVIOUS
<1> HIDE DEF N, S
<1> DEFINE T == {n \in 0..N : /\ Len(joined[n]) = Size(n)
                              /\ \A i \in 1..Size(n) : joined[n][i] = ss[At(i)][1]}
<1>5. 0 \in T
  BY <1>2, <1>3, EmptyIsSeq
<1>6. ASSUME NEW n \in 0..(N - 1), n \in T PROVE n + 1 \in T
  <2> DEFINE m == n + 1
             q == joined[n]
             r == ss[m]
  <2>1. m \in 1..N /\ m \in 0..N /\ m - 1 = n /\ n \in 0..N
    BY <1>2
  <2>2. joined[m] = q \o r /\ IsSeq(q) /\ IsSeq(r)
    BY <2>1, <1>3
  <2>3. Len(q) = Size(n) /\ \A i \in 1..Size(n) : q[i] = ss[At(i)][1]
    BY <1>6
  <2> HIDE DEF q, r, T
  <2>4. /\ Len(q \o r) = Len(q) + Len(r)
        /\ \A i \in 1..Len(q) : (q \o r)[i] = q[i]
        /\ \A i \in 1..Len(r) : (q \o r)[Len(q) + i] = r[i]
    BY <2>2, ConcatIsSeq
  <2>5. CASE m = k
    <3>1. Len(r) = 0 /\ Size(m) = Size(n)
      BY <2>5, <1>2, EmptyIsSeq DEF r
    <3>2. Size(n) \in Nat
      BY <1>2, <2>1, <2>5
    <3>3. Len(q \o r) = Size(m)
      BY <3>1, <3>2, <2>3, <2>4
    <3>4. \A i \in 1..Size(m) : (q \o r)[i] = ss[At(i)][1]
      BY <3>1, <2>3, <2>4
    <3> HIDE DEF m, Size, At
    <3> QED BY <3>3, <3>4, <2>1, <2>2 DEF T, m
  <2>6. CASE m # k
    <3>1. Len(r) = 1
      BY <2>6, <2>1, <1>4 DEF r
    <3>2. Size(m) = Size(n) + 1 /\ Size(n) \in Nat /\ At(Size(n) + 1) = m
      BY <2>6, <2>1, <1>2
    <3>3. Len(q \o r) = Size(m) /\ (q \o r)[Size(n) + 1] = r[1]
      BY <3>1, <3>2, <2>3, <2>4
    <3>4. ASSUME NEW i \in 1..Size(m) PROVE (q \o r)[i] = ss[At(i)][1]
      <4>1. i \in 1..Size(n) \/ i = Size(n) + 1
        BY <3>2
      <4>2. CASE i \in 1..Size(n)
        BY <4>2, <2>3, <2>4
      <4>3. CASE i = Size(n) + 1
        BY <4>3, <3>2, <3>3 DEF r
      <4> QED BY <4>1, <4>2, <4>3
    <3> HIDE DEF m, Size, At
    <3> QED BY <3>3, <3>4, <2>1, <2>2 DEF T, m
  <2> QED BY <2>5, <2>6
<1> HIDE DEF T
<1>7. 0..N \subseteq T
  BY <1>2, <1>5, <1>6, IntervalInduction
<1>8. N \in T /\ Size(N) = IF k <= N THEN N - 1 ELSE N
  BY <1>2, <1>7
<1>9. Len(Flat(ss)) = Size(N) /\ \A i \in 1..Size(N) : Flat(ss)[i] = ss[At(i)][1]
  BY <1>8, <1>3 DEF T
<1> QED BY <1>8, <1>9 DEF N

-----------------------------------------------------------------------------
(* Items and companions *)

\* The macros that no other macro leaves.
UserOnly == {"verification_status", "lemma"}

\* A companion, whole.
IsCompanion(its, c) ==
    LET item == its[c]
        u == c[1]
    IN  \/ c[2] = "mod" /\ item.kind = "mod" /\ item.attrs = <<>>
        \/ c[2] = "const" /\ item.kind = "const" /\ item.attrs = <<LateSkip>>
        \/ c[2] = "future" /\ item.kind = "fn" /\ item.attrs = <<LateSkip, <<"Language">>>>
        \/ c[2] = "fn" /\ item.kind = "fn" /\ item.attrs = <<<<"Uid", u>>, LateSkip>>
        \/ c[2] = "fn" /\ item.kind = "fn" /\ item.attrs = <<<<"Uid", u>>, LateSkip>> \o NeverErased
        \/ /\ c[2] = "fn" /\ item.kind = "fn"
           /\ item.parent = <<u, "const">> /\ <<u, "const">> \in DOMAIN its
           /\ Len(item.attrs) = 3 /\ item.attrs[1] = <<"NeverErased">>
           /\ item.attrs[2] = <<"Uid", u>> /\ item.attrs[3][1] = "ItemQuote"
        \/ /\ c[2] \in {"Refinement", "Deref", "RefineAs"} /\ item.kind = "impl"
           /\ item.attrs = <<<<"exclude">>>> \/ item.attrs = <<<<"ItemStatus", "excluded">>>>

-----------------------------------------------------------------------------
(* Formulas, and the items that carry them *)

\* The attributes that stand for a formula of a role.
Carries(a, role) == \/ WrittenAs(a, role)
                    \/ a[1] \in {"impl_fn_decoration", "AssociatedItem"} /\ a[2] = role

\* The formula such an attribute stands for.
Said(its, a) == CASE a[1] = "AssociatedItem" -> its[<<a[3], "fn">>].body.says
                  [] a[1] = "impl_fn_decoration" -> a[3].says
                  [] OTHER -> a[2].says

\* The places of an item that stand for its formulas: attributes, and 0 for
\* the proof a lemma returns.
Places(p, its, d, role) ==
    {k \in 1..Len(its[d].attrs) : Carries(its[d].attrs[k], role)}
    \cup {k \in {0} : role = "ensures" /\ its[d].output[1] = "proof" /\ Has(p[d].attrs, "lemma")}

SaidAt(its, d, k) == IF k = 0 THEN its[d].output[2].says ELSE Said(its, its[d].attrs[k])

\* Each formula written has its place, and no other.
AllSaid(p, its, d, role) ==
    /\ \A k \in Places(p, its, d, role) : SaidAt(its, d, k) \in WrittenOn(p[d], role)
    /\ \A says \in WrittenOn(p[d], role) : \E k \in Places(p, its, d, role) : SaidAt(its, d, k) = says
    /\ \A k, l \in Places(p, its, d, role) : SaidAt(its, d, k) = SaidAt(its, d, l) => k = l

\* The places of an item that are companions by now.
Attachments(its, d) == {k \in 1..Len(its[d].attrs) : /\ its[d].attrs[k][1] = "AssociatedItem"
                                                     /\ its[d].attrs[k][2] \in Roles}

UidOf(its, d, k) == its[d].attrs[k][3]

\* The formulas of all items, with n uids drawn.
Attached(p, its, n) ==
    /\ \A d \in DOMAIN p, role \in Roles : AllSaid(p, its, d, role)
    /\ \A d \in DOMAIN p : \A k \in Attachments(its, d) :
          UidOf(its, d, k) \in 1..n /\ <<UidOf(its, d, k), "fn">> \in DOMAIN its
    /\ \A d, e \in DOMAIN p : \A k \in Attachments(its, d), l \in Attachments(its, e) :
          UidOf(its, d, k) = UidOf(its, e, l) => d = e /\ k = l
    /\ \A d \in DOMAIN p : its[d].output[1] = "proof" /\ Has(p[d].attrs, "lemma") =>
                              Has(its[d].attrs, "lemma")

-----------------------------------------------------------------------------
(* The attributes of items *)

LEMMA RangeIsToSet == \A s : Range(s) = ToSet(s)
BY DEF Range, ToSet

LEMMA RemoveAtFacts ==
    ASSUME NEW s, IsSeq(s), NEW k \in 1..Len(s)
    PROVE  /\ IsSeq(RemoveAt(s, k)) /\ Len(RemoveAt(s, k)) = Len(s) - 1
           /\ \A i \in 1..(Len(s) - 1) : RemoveAt(s, k)[i] = s[IF i < k THEN i ELSE i + 1]
<1> DEFINE S == Range(s)
           a == SubSeq(s, 1, k - 1)
           b == SubSeq(s, k + 1, Len(s))
<1>1. s \in Seq(S) /\ Len(s) \in Nat
  BY SeqElements DEF IsSeq
<1> HIDE DEF S
<1>2. /\ a \in Seq(S) /\ Len(a) = k - 1 /\ \A i \in 1..(k - 1) : a[i] = s[i]
      /\ b \in Seq(S) /\ Len(b) = Len(s) - k /\ \A i \in 1..(Len(s) - k) : b[i] = s[k + i]
  BY <1>1
<1>3. RemoveAt(s, k) = a \o b
  BY DEF RemoveAt
<1>4. IsSeq(a) /\ IsSeq(b)
  BY <1>2, SeqIsSeq
<1> HIDE DEF a, b
<1>5. IsSeq(a \o b) /\ Len(a \o b) = Len(s) - 1
  <2>1. IsSeq(a \o b) /\ Len(a \o b) = Len(a) + Len(b)
    BY <1>4, ConcatIsSeq
  <2> QED BY <2>1, <1>1, <1>2
<1>6. ASSUME NEW i \in 1..(Len(s) - 1)
      PROVE  (a \o b)[i] = s[IF i < k THEN i ELSE i + 1]
  <2>1. CASE i < k
    <3>1. i \in 1..Len(a) /\ i \in 1..(k - 1)
      BY <2>1, <1>1, <1>2
    <3> QED BY <3>1, <2>1, <1>2, <1>4, ConcatIsSeq
  <2>2. CASE ~ i < k
    <3>1. i - (k - 1) \in 1..Len(b) /\ i - (k - 1) \in 1..(Len(s) - k) /\ k + (i - (k - 1)) = i + 1
          /\ (k - 1) + (i - (k - 1)) = i
      BY <2>2, <1>1, <1>2
    <3>2. (a \o b)[Len(a) + (i - (k - 1))] = b[i - (k - 1)]
      BY <3>1, <1>4, ConcatIsSeq
    <3> QED BY <3>1, <3>2, <2>2, <1>2
  <2> QED BY <2>1, <2>2
<1> QED BY <1>3, <1>5, <1>6

LEMMA WithAttrsFacts ==
    ASSUME NEW x, IsItem(x), NEW a
    PROVE  WithAttrs(x, a) = [kind |-> x.kind, parent |-> x.parent, attrs |-> a, inputs |-> x.inputs,
                              output |-> x.output, post |-> x.post, uses |-> x.uses, body |-> x.body]
BY DEF WithAttrs, IsItem

LEMMA WithAttrsIsItem ==
    ASSUME NEW x, IsItem(x), NEW a
    PROVE  /\ IsItem(WithAttrs(x, a)) /\ WithAttrs(x, a).attrs = a /\ WithAttrs(x, a).kind = x.kind
           /\ WithAttrs(x, a).parent = x.parent /\ WithAttrs(x, a).inputs = x.inputs
           /\ WithAttrs(x, a).output = x.output /\ WithAttrs(x, a).body = x.body
BY WithAttrsFacts DEF IsItem

-----------------------------------------------------------------------------
(* The formulas of an item that a step changes *)

\* g leads from the places of an item after a step to those before.
Carried(p, its, its2, n, d, g) ==
    /\ \A role \in Roles :
          /\ \A k \in Places(p, its2, d, role) :
                g[k] \in Places(p, its, d, role) /\ SaidAt(its2, d, k) = SaidAt(its, d, g[k])
          /\ \A k, l \in Places(p, its2, d, role) : g[k] = g[l] => k = l
          /\ \A l \in Places(p, its, d, role) : \E k \in Places(p, its2, d, role) : g[k] = l
    /\ \A k \in Attachments(its2, d) :
          \/ g[k] \in Attachments(its, d) /\ UidOf(its, d, g[k]) = UidOf(its2, d, k)
          \/ UidOf(its2, d, k) > n
    /\ \A k, l \in Attachments(its2, d) : g[k] = g[l] => k = l

LEMMA AllSaidCarried ==
    ASSUME NEW p, NEW its, NEW its2, NEW n, NEW d, NEW g, Carried(p, its, its2, n, d, g),
           NEW role \in Roles, AllSaid(p, its, d, role)
    PROVE  AllSaid(p, its2, d, role)
<1> DEFINE P == Places(p, its, d, role)
           P2 == Places(p, its2, d, role)
           W == WrittenOn(p[d], role)
<1>1. /\ \A k \in P2 : g[k] \in P /\ SaidAt(its2, d, k) = SaidAt(its, d, g[k])
      /\ \A k, l \in P2 : g[k] = g[l] => k = l
      /\ \A l \in P : \E k \in P2 : g[k] = l
  BY DEF Carried
<1>2. /\ \A k \in P : SaidAt(its, d, k) \in W
      /\ \A says \in W : \E k \in P : SaidAt(its, d, k) = says
      /\ \A k, l \in P : SaidAt(its, d, k) = SaidAt(its, d, l) => k = l
  BY DEF AllSaid
<1> HIDE DEF P, P2, W
<1>3. \A k \in P2 : SaidAt(its2, d, k) \in W
  BY <1>1, <1>2
<1>4. \A says \in W : \E k \in P2 : SaidAt(its2, d, k) = says
  <2> TAKE says \in W
  <2>1. PICK l \in P : SaidAt(its, d, l) = says
    BY <1>2
  <2>2. PICK k \in P2 : g[k] = l
    BY <1>1
  <2> QED BY <2>1, <2>2, <1>1
<1>5. \A k, l \in P2 : SaidAt(its2, d, k) = SaidAt(its2, d, l) => k = l
  BY <1>1, <1>2
<1> QED BY <1>3, <1>4, <1>5 DEF AllSaid, P, P2, W

\* The formulas keep their places, if each item keeps its own and the uids that
\* are new are so for one place.
LEMMA AttachedCarried ==
    ASSUME NEW p, NEW its, NEW its2, NEW n \in Nat, NEW n2 \in Nat, n <= n2,
           Attached(p, its, n),
           \A d \in DOMAIN p : \E g : Carried(p, its, its2, n, d, g),
           \A d \in DOMAIN p : \A k \in Attachments(its2, d) :
              UidOf(its2, d, k) > n => UidOf(its2, d, k) \in 1..n2 /\ <<UidOf(its2, d, k), "fn">> \in DOMAIN its2,
           \A d, e \in DOMAIN p : \A k \in Attachments(its2, d), l \in Attachments(its2, e) :
              UidOf(its2, d, k) > n /\ UidOf(its2, d, k) = UidOf(its2, e, l) => d = e /\ k = l,
           \A c \in DOMAIN its : c \in DOMAIN its2,
           \A d \in DOMAIN p : its2[d].output[1] = "proof" /\ Has(p[d].attrs, "lemma") =>
                                  Has(its2[d].attrs, "lemma")
    PROVE  Attached(p, its2, n2)
<1>1. /\ \A d \in DOMAIN p, role \in Roles : AllSaid(p, its, d, role)
      /\ \A d \in DOMAIN p : \A k \in Attachments(its, d) :
            UidOf(its, d, k) \in 1..n /\ <<UidOf(its, d, k), "fn">> \in DOMAIN its
      /\ \A d, e \in DOMAIN p : \A k \in Attachments(its, d), l \in Attachments(its, e) :
            UidOf(its, d, k) = UidOf(its, e, l) => d = e /\ k = l
  BY DEF Attached
<1>2. \A d \in DOMAIN p, role \in Roles : AllSaid(p, its2, d, role)
  BY <1>1, AllSaidCarried
<1>3. ASSUME NEW d \in DOMAIN p, NEW k \in Attachments(its2, d)
      PROVE  UidOf(its2, d, k) \in 1..n2 /\ <<UidOf(its2, d, k), "fn">> \in DOMAIN its2
  <2>1. CASE UidOf(its2, d, k) > n
    BY <2>1
  <2>2. CASE ~ UidOf(its2, d, k) > n
    <3>1. PICK g : Carried(p, its, its2, n, d, g)
      OBVIOUS
    <3>2. g[k] \in Attachments(its, d) /\ UidOf(its, d, g[k]) = UidOf(its2, d, k)
      BY <2>2, <3>1 DEF Carried
    <3>3. UidOf(its2, d, k) \in 1..n /\ <<UidOf(its2, d, k), "fn">> \in DOMAIN its
      BY <3>2, <1>1
    <3>4. 1..n \subseteq 1..n2
      OBVIOUS
    <3> QED BY <3>3, <3>4
  <2> QED BY <2>1, <2>2
<1>4. ASSUME NEW d \in DOMAIN p, NEW e \in DOMAIN p,
             NEW k \in Attachments(its2, d), NEW l \in Attachments(its2, e),
             UidOf(its2, d, k) = UidOf(its2, e, l)
      PROVE  d = e /\ k = l
  <2>1. CASE UidOf(its2, d, k) > n
    BY <2>1, <1>4
  <2>2. CASE ~ UidOf(its2, d, k) > n
    <3>1. PICK g : Carried(p, its, its2, n, d, g)
      OBVIOUS
    <3>2. PICK h : Carried(p, its, its2, n, e, h)
      OBVIOUS
    <3>3. g[k] \in Attachments(its, d) /\ UidOf(its, d, g[k]) = UidOf(its2, d, k)
      BY <2>2, <3>1 DEF Carried
    <3>4. h[l] \in Attachments(its, e) /\ UidOf(its, e, h[l]) = UidOf(its2, e, l)
      BY <2>2, <1>4, <3>2 DEF Carried
    <3>5. d = e /\ g[k] = h[l]
      BY <3>3, <3>4, <1>1, <1>4
    <3>6. CASE g[l] = h[l]
      BY <3>5, <3>6, <3>1 DEF Carried
    <3>7. g[l] = h[l]
      <4>1. l \in Attachments(its2, d)
        BY <3>5
      <4>2. g[l] \in Attachments(its, d) /\ UidOf(its, d, g[l]) = UidOf(its2, d, l)
        BY <4>1, <3>1, <3>5, <2>2, <1>4 DEF Carried
      <4> QED BY <4>2, <3>4, <3>5, <1>1, <1>4
    <3> QED BY <3>6, <3>7
  <2> QED BY <2>1, <2>2
<1> QED BY <1>2, <1>3, <1>4 DEF Attached

\* The companions of n uids keep their bodies.
BodiesKept(its, its2, n) ==
    \A u \in 1..n : <<u, "fn">> \in DOMAIN its => its2[<<u, "fn">>].body = its[<<u, "fn">>].body

LEMMA SaidKept ==
    ASSUME NEW p, NEW its, NEW its2, NEW n \in Nat, NEW d \in DOMAIN p, Attached(p, its, n),
           BodiesKept(its, its2, n), NEW role \in Roles, NEW k \in 1..Len(its[d].attrs),
           Carries(its[d].attrs[k], role)
    PROVE  Said(its2, its[d].attrs[k]) = Said(its, its[d].attrs[k])
<1> DEFINE a == its[d].attrs[k]
<1>1. CASE a[1] = "AssociatedItem"
  <2>1. k \in Attachments(its, d) /\ UidOf(its, d, k) = a[3]
    BY <1>1 DEF Attachments, UidOf, Carries, WrittenAs, Roles
  <2>2. a[3] \in 1..n /\ <<a[3], "fn">> \in DOMAIN its
    BY <2>1 DEF Attached
  <2> QED BY <1>1, <2>2 DEF Said, BodiesKept
<1>2. CASE a[1] # "AssociatedItem"
  BY <1>2 DEF Said
<1> QED BY <1>1, <1>2

\* An item that keeps its attributes and its output.
LEMMA SameCarried ==
    ASSUME NEW p, NEW its, NEW its2, NEW n \in Nat, NEW d \in DOMAIN p, Attached(p, its, n),
           IsSeq(its[d].attrs), BodiesKept(its, its2, n),
           its2[d].attrs = its[d].attrs, its2[d].output = its[d].output
    PROVE  \E g : Carried(p, its, its2, n, d, g)
<1> DEFINE g == [k \in 0..Len(its[d].attrs) |-> k]
<1>1. Len(its[d].attrs) \in Nat
  BY SeqElements
<1>2. \A role : /\ Places(p, its2, d, role) = Places(p, its, d, role)
                /\ Places(p, its, d, role) \subseteq 0..Len(its[d].attrs)
  BY <1>1 DEF Places
<1>3. Attachments(its2, d) = Attachments(its, d) /\ Attachments(its, d) \subseteq 0..Len(its[d].attrs)
  BY <1>1 DEF Attachments
<1>4. \A k \in 0..Len(its[d].attrs) : g[k] = k
  OBVIOUS
<1>5. \A role \in Roles : \A k \in Places(p, its, d, role) : SaidAt(its2, d, k) = SaidAt(its, d, k)
  <2> TAKE role \in Roles
  <2> TAKE k \in Places(p, its, d, role)
  <2>1. CASE k = 0
    BY <2>1 DEF SaidAt
  <2>2. CASE k # 0
    <3>1. k \in 1..Len(its[d].attrs) /\ Carries(its[d].attrs[k], role)
      BY <2>2 DEF Places
    <3> QED BY <2>2, <3>1, SaidKept DEF SaidAt
  <2> QED BY <2>1, <2>2
<1> HIDE DEF g
<1>6. \A k : UidOf(its2, d, k) = UidOf(its, d, k)
  BY DEF UidOf
<1>7. Carried(p, its, its2, n, d, g)
  BY <1>2, <1>3, <1>4, <1>5, <1>6 DEF Carried
<1> QED BY <1>7

\* The places of a sequence but k.
Skip(k, i) == IF i < k THEN i ELSE i + 1

LEMMA SkipFacts ==
    ASSUME NEW N \in Nat, NEW k \in 1..N
    PROVE  /\ \A i \in 1..(N - 1) : Skip(k, i) \in 1..N /\ Skip(k, i) # k /\ Skip(k, i) # 0
           /\ \A i, j \in 1..(N - 1) : Skip(k, i) = Skip(k, j) => i = j
           /\ \A l \in 1..N : l # k => \E i \in 1..(N - 1) : Skip(k, i) = l
<1>1. \A i \in 1..(N - 1) : Skip(k, i) \in 1..N /\ Skip(k, i) # k /\ Skip(k, i) # 0
  BY DEF Skip
<1>2. \A i, j \in 1..(N - 1) : Skip(k, i) = Skip(k, j) => i = j
  BY DEF Skip
<1>3. ASSUME NEW l \in 1..N, l # k PROVE \E i \in 1..(N - 1) : Skip(k, i) = l
  <2>1. CASE l < k
    <3>1. l \in 1..(N - 1) /\ Skip(k, l) = l
      BY <2>1 DEF Skip
    <3> QED BY <3>1
  <2>2. CASE l > k
    <3>1. l - 1 \in 1..(N - 1) /\ Skip(k, l - 1) = l
      BY <2>2 DEF Skip
    <3> QED BY <3>1
  <2> QED BY <1>3, <2>1, <2>2
<1> QED BY <1>1, <1>2, <1>3

\* An attribute carries a formula of one role.
LEMMA CarriesOne ==
    ASSUME NEW a, NEW role \in Roles, NEW other \in Roles, Carries(a, role), Carries(a, other)
    PROVE  role = other
BY DEF Carries, WrittenAs, Roles

\* The uid u that is drawn for role, the place before it was, or none.
Taken(p, its, its2, n, d, k0, P, r, u, src, j) ==
    /\ r \in Roles =>
          /\ j \in 1..Len(P) /\ P[j] = <<"AssociatedItem", r, u>> /\ u > n
          /\ src \in {0, k0} /\ src \in Places(p, its, d, r)
          /\ its2[<<u, "fn">>].body.says = SaidAt(its, d, src)
    /\ \A i \in 1..Len(P), role \in Roles : Carries(P[i], role) => r \in Roles /\ i = j
    /\ \A role \in Roles : Carries(its[d].attrs[k0], role) => r = role /\ src = k0
    /\ \/ its2[d].output = its[d].output /\ (r \in Roles => src = k0)
       \/ its2[d].output[1] # "proof" /\ (its[d].output[1] = "proof" => r = "ensures" /\ src = 0)

\* The attributes of an item are P and what it had but for one, which P takes the
\* place of if it is of a formula.
InItsPlace(p, its, its2, n, d, k0, P, r, u, src, j) ==
    /\ n \in Nat /\ d \in DOMAIN p /\ Attached(p, its, n) /\ IsSeq(its[d].attrs)
    /\ BodiesKept(its, its2, n) /\ k0 \in 1..Len(its[d].attrs) /\ IsSeq(P)
    /\ its2[d].attrs = P \o RemoveAt(its[d].attrs, k0)
    /\ Taken(p, its, its2, n, d, k0, P, r, u, src, j)

LEMMA ReplacedCarried ==
    ASSUME NEW p, NEW its, NEW its2, NEW n, NEW d, NEW k0, NEW P, NEW r, NEW u, NEW src, NEW j,
           InItsPlace(p, its, its2, n, d, k0, P, r, u, src, j)
    PROVE  /\ \E g : Carried(p, its, its2, n, d, g)
           /\ \A k \in Attachments(its2, d) :
                 UidOf(its2, d, k) > n => k = j /\ r \in Roles /\ UidOf(its2, d, k) = u
<1>0. /\ n \in Nat /\ d \in DOMAIN p /\ Attached(p, its, n) /\ IsSeq(its[d].attrs)
      /\ BodiesKept(its, its2, n) /\ k0 \in 1..Len(its[d].attrs) /\ IsSeq(P)
      /\ its2[d].attrs = P \o RemoveAt(its[d].attrs, k0)
      /\ Taken(p, its, its2, n, d, k0, P, r, u, src, j)
  BY DEF InItsPlace
<1> DEFINE old == its[d].attrs
           new == its2[d].attrs
           N == Len(old)
           L == Len(P)
           g == [k \in 0..Len(new) |-> IF k = 0 THEN 0 ELSE IF k <= L THEN src ELSE Skip(k0, k - L)]
<1>1. N \in Nat /\ L \in Nat /\ k0 \in 1..N /\ N >= 1
  BY <1>0, SeqElements
<1>2. /\ Len(new) = L + (N - 1)
      /\ \A i \in 1..L : new[i] = P[i]
      /\ \A i \in 1..(N - 1) : new[L + i] = old[Skip(k0, i)]
  <2> DEFINE q == RemoveAt(old, k0)
  <2>1. IsSeq(q) /\ Len(q) = N - 1 /\ \A i \in 1..(N - 1) : q[i] = old[Skip(k0, i)]
    BY <1>0, RemoveAtFacts DEF Skip
  <2>2. new = P \o q
    BY <1>0
  <2> HIDE DEF q, new
  <2>3. /\ Len(P \o q) = Len(P) + Len(q)
        /\ \A i \in 1..Len(P) : (P \o q)[i] = P[i]
        /\ \A i \in 1..Len(q) : (P \o q)[Len(P) + i] = q[i]
    <3>1. IsSeq(P) /\ IsSeq(q)
      BY <2>1, <1>0
    <3> QED BY ONLY <3>1, ConcatIsSeq
  <2> QED BY <2>1, <2>2, <2>3
<1> HIDE DEF old, new, N, L
<1>3. /\ g[0] = 0
      /\ \A k \in 1..L : g[k] = src
      /\ \A i \in 1..(N - 1) : g[L + i] = Skip(k0, i)
      /\ \A k \in 1..Len(new) : k \in 1..L \/ \E i \in 1..(N - 1) : k = L + i
      /\ \A k \in 1..L : k \in 1..Len(new) /\ k # 0
      /\ \A i \in 1..(N - 1) : L + i \in 1..Len(new) /\ L + i # 0
  <2>1. \A k \in 1..L : k \in 0..Len(new) /\ k # 0 /\ k <= L
    BY <1>1, <1>2
  <2>2. \A i \in 1..(N - 1) : L + i \in 0..Len(new) /\ L + i # 0 /\ ~ (L + i <= L) /\ (L + i) - L = i
    BY <1>1, <1>2
  <2>3. ASSUME NEW k \in 1..Len(new), k \notin 1..L PROVE \E i \in 1..(N - 1) : k = L + i
    <3>1. k - L \in 1..(N - 1) /\ k = L + (k - L)
      BY <2>3, <1>1, <1>2
    <3> QED BY <3>1
  <2>4. 0 \in 0..Len(new)
    BY <1>1, <1>2
  <2>5. \A k \in 1..L : k \in 1..Len(new)
    BY <1>1, <1>2
  <2>6. \A i \in 1..(N - 1) : L + i \in 1..Len(new)
    BY <1>1, <1>2
  <2> QED BY <2>1, <2>2, <2>3, <2>4, <2>5, <2>6
<1> HIDE DEF g
<1>4. /\ \A i \in 1..(N - 1) : Skip(k0, i) \in 1..N /\ Skip(k0, i) # k0 /\ Skip(k0, i) # 0
      /\ \A i, m \in 1..(N - 1) : Skip(k0, i) = Skip(k0, m) => i = m
      /\ \A l \in 1..N : l # k0 => \E i \in 1..(N - 1) : Skip(k0, i) = l
  BY <1>1, SkipFacts
<1>5. r \in Roles =>
          /\ j \in 1..L /\ P[j] = <<"AssociatedItem", r, u>> /\ u > n
          /\ src \in {0, k0} /\ src \in Places(p, its, d, r)
          /\ its2[<<u, "fn">>].body.says = SaidAt(its, d, src)
  BY <1>0 DEF Taken, L
<1>6. \A i \in 1..L, role \in Roles : Carries(P[i], role) => r \in Roles /\ i = j
  BY <1>0 DEF Taken, L
<1>7. \A role \in Roles : Carries(old[k0], role) => r = role /\ src = k0
  BY <1>0 DEF Taken, old
<1>8. \/ its2[d].output = its[d].output /\ (r \in Roles => src = k0)
      \/ its2[d].output[1] # "proof" /\ (its[d].output[1] = "proof" => r = "ensures" /\ src = 0)
  BY <1>0 DEF Taken
<1> DEFINE Proof(i) == i[d].output[1] = "proof" /\ Has(p[d].attrs, "lemma")
<1>9. /\ \A role : 0 \in Places(p, its, d, role) <=> role = "ensures" /\ Proof(its)
      /\ \A role : 0 \in Places(p, its2, d, role) <=> role = "ensures" /\ Proof(its2)
      /\ \A role, k : k # 0 => (k \in Places(p, its, d, role) <=> k \in 1..N /\ Carries(old[k], role))
      /\ \A role, k : k # 0 => (k \in Places(p, its2, d, role) <=> k \in 1..Len(new) /\ Carries(new[k], role))
  BY DEF Places, old, new, N
<1>10. /\ \A role \in Roles : 0 \in Places(p, its2, d, role) =>
              0 \in Places(p, its, d, role) /\ its2[d].output = its[d].output /\ (r \in Roles => src = k0)
       /\ \A role \in Roles : 0 \in Places(p, its, d, role) /\ 0 \notin Places(p, its2, d, role) =>
              role = "ensures" /\ r = "ensures" /\ src = 0
  BY <1>8, <1>9
<1>11. r \in Roles => \A role \in Roles : src \in Places(p, its, d, role) => role = r
  <2> HAVE r \in Roles
  <2> TAKE role \in Roles
  <2> HAVE src \in Places(p, its, d, role)
  <2>1. CASE src = 0
    BY <2>1, <1>5, <1>9
  <2>2. CASE src = k0
    <3>1. Carries(old[k0], role) /\ Carries(old[k0], r)
      BY <2>2, <1>1, <1>5, <1>9
    <3> QED BY <3>1, CarriesOne
  <2> QED BY <2>1, <2>2, <1>5
\* The new attribute.
<1>12. ASSUME r \in Roles
       PROVE  /\ j \in 1..L /\ j \in Places(p, its2, d, r) /\ g[j] = src
              /\ SaidAt(its2, d, j) = SaidAt(its, d, src)
              /\ \A role \in Roles : Carries(P[j], role) => role = r
  <2>1. j \in 1..L
    BY <1>1, <1>5, <1>12
  <2>2. Carries(P[j], r) /\ Said(its2, P[j]) = its2[<<u, "fn">>].body.says
    <3> DEFINE a == P[j]
    <3>1. a[1] = "AssociatedItem" /\ a[2] = r /\ a[3] = u
      BY <1>5, <1>12
    <3> HIDE DEF a
    <3>2. Carries(a, r) /\ Said(its2, a) = its2[<<u, "fn">>].body.says
      BY <3>1 DEF Carries, Said
    <3> QED BY <3>2 DEF a
  <2>3. new[j] = P[j] /\ j \in 1..Len(new) /\ g[j] = src
    BY <2>1, <1>2, <1>3
  <2>4. SaidAt(its2, d, j) = Said(its2, new[j])
    BY <2>1, <1>3 DEF SaidAt, new
  <2>5. j \in Places(p, its2, d, r)
    BY <2>2, <2>3, <1>9
  <2>6. \A role \in Roles : Carries(P[j], role) => role = r
    BY <2>2, <1>12, CarriesOne
  <2> QED BY <2>1, <2>2, <2>3, <2>4, <2>5, <2>6, <1>5, <1>12
\* What was there.
<1>13. ASSUME NEW i \in 1..(N - 1), NEW role \in Roles
       PROVE  /\ L + i \in Places(p, its2, d, role) <=> Skip(k0, i) \in Places(p, its, d, role)
              /\ L + i \in Places(p, its2, d, role) =>
                    SaidAt(its2, d, L + i) = SaidAt(its, d, Skip(k0, i))
  <2> DEFINE l == Skip(k0, i)
             k == L + i
  <2>1. k \in 1..Len(new) /\ k # 0 /\ new[k] = old[l] /\ l \in 1..N /\ l # 0
    BY <1>2, <1>3, <1>4
  <2> HIDE DEF k, l
  <2>2. k \in Places(p, its2, d, role) <=> l \in Places(p, its, d, role)
    BY <2>1, <1>9
  <2>3. ASSUME k \in Places(p, its2, d, role)
        PROVE  SaidAt(its2, d, k) = SaidAt(its, d, l)
    <3>1. Carries(old[l], role)
      BY <2>1, <2>2, <2>3, <1>9
    <3>2. Said(its2, old[l]) = Said(its, old[l])
      BY <1>0, <2>1, <3>1, SaidKept DEF old, N
    <3>3. SaidAt(its2, d, k) = Said(its2, new[k]) /\ SaidAt(its, d, l) = Said(its, old[l])
      BY <2>1 DEF SaidAt, new, old
    <3> QED BY <3>2, <3>3, <2>1
  <2> QED BY <2>2, <2>3 DEF k, l
<1>14. ASSUME NEW role \in Roles, NEW k \in Places(p, its2, d, role)
       PROVE  \/ k = 0
              \/ k = j /\ r \in Roles /\ role = r
              \/ \E i \in 1..(N - 1) : k = L + i /\ Skip(k0, i) \in Places(p, its, d, role)
  <2>1. CASE k = 0
    BY <2>1
  <2>2. CASE k # 0 /\ k \in 1..L
    <3>1. Carries(P[k], role)
      BY <2>2, <1>2, <1>9, <1>14
    <3>2. r \in Roles /\ k = j
      BY <2>2, <3>1, <1>6
    <3> QED BY <3>1, <3>2, <1>12
  <2>3. CASE k # 0 /\ k \notin 1..L
    <3>1. k \in 1..Len(new)
      BY <2>3, <1>9, <1>14
    <3>2. PICK i \in 1..(N - 1) : k = L + i
      BY <2>3, <3>1, <1>3
    <3> QED BY <3>2, <1>13, <1>14
  <2> QED BY <2>1, <2>2, <2>3
<1>15. ASSUME NEW role \in Roles, NEW k \in Places(p, its2, d, role)
       PROVE  g[k] \in Places(p, its, d, role) /\ SaidAt(its2, d, k) = SaidAt(its, d, g[k])
  <2>1. CASE k = 0
    BY <2>1, <1>3, <1>10, <1>15 DEF SaidAt
  <2>2. CASE k = j /\ r \in Roles /\ role = r
    BY <2>2, <1>5, <1>12
  <2>3. CASE \E i \in 1..(N - 1) : k = L + i /\ Skip(k0, i) \in Places(p, its, d, role)
    BY <2>3, <1>3, <1>13, <1>15
  <2> QED BY <2>1, <2>2, <2>3, <1>14, <1>15
<1>16. ASSUME NEW role \in Roles, NEW k \in Places(p, its2, d, role), NEW l \in Places(p, its2, d, role),
              g[k] = g[l]
       PROVE  k = l
  <2> DEFINE Zero(m) == m = 0 /\ g[m] = 0 /\ (r \in Roles => src # 0)
             Here(m) == m = j /\ r \in Roles /\ g[m] = src /\ src \in {0, k0}
             Later(m) == \E i \in 1..(N - 1) : m = L + i /\ g[m] = Skip(k0, i)
  <2>1. \A m \in Places(p, its2, d, role) : Zero(m) \/ Here(m) \/ Later(m)
    <3> TAKE m \in Places(p, its2, d, role)
    <3>1. CASE m = 0
      BY <3>1, <1>1, <1>3, <1>10, <1>16
    <3>2. CASE m = j /\ r \in Roles /\ role = r
      BY <3>2, <1>5, <1>12
    <3>3. CASE \E i \in 1..(N - 1) : m = L + i /\ Skip(k0, i) \in Places(p, its, d, role)
      BY <3>3, <1>3
    <3> QED BY <3>1, <3>2, <3>3, <1>14, <1>16
  <2>2. \A m : Later(m) => g[m] # 0 /\ g[m] # k0
    BY <1>4
  <2>3. Later(k) /\ Later(l) => k = l
    BY <1>4, <1>16
  <2> QED BY <2>1, <2>2, <2>3, <1>16
<1>17. ASSUME NEW role \in Roles, NEW l \in Places(p, its, d, role)
       PROVE  \E k \in Places(p, its2, d, role) : g[k] = l
  <2>1. CASE l = 0 /\ 0 \in Places(p, its2, d, role)
    BY <2>1, <1>3
  <2>2. CASE l = 0 /\ 0 \notin Places(p, its2, d, role)
    <3>1. r = role /\ src = l
      BY <2>2, <1>10, <1>17
    <3> QED BY <3>1, <1>12, <1>17
  <2>3. CASE l # 0 /\ l = k0
    <3>1. r = role /\ src = l
      BY <2>3, <1>7, <1>9, <1>17
    <3> QED BY <3>1, <1>12, <1>17
  <2>4. CASE l # 0 /\ l # k0
    <3>1. l \in 1..N
      BY <2>4, <1>9, <1>17
    <3>2. PICK i \in 1..(N - 1) : Skip(k0, i) = l
      BY <2>4, <3>1, <1>4
    <3>3. L + i \in Places(p, its2, d, role) /\ g[L + i] = l
      BY <3>2, <1>3, <1>13, <1>17
    <3> QED BY <3>3
  <2> QED BY <2>1, <2>2, <2>3, <2>4
\* Attachments are places.
<1>18. /\ \A k : k \in Attachments(its2, d) <=> k \in 1..Len(new) /\ new[k][1] = "AssociatedItem" /\ new[k][2] \in Roles
       /\ \A k : k \in Attachments(its, d) <=> k \in 1..N /\ old[k][1] = "AssociatedItem" /\ old[k][2] \in Roles
       /\ \A k : UidOf(its2, d, k) = new[k][3] /\ UidOf(its, d, k) = old[k][3]
  BY DEF Attachments, UidOf, new, old, N
<1>19. ASSUME NEW k \in Attachments(its2, d)
       PROVE  \/ k = j /\ r \in Roles /\ g[k] = src /\ src \in {0, k0} /\ UidOf(its2, d, k) = u
              \/ \E i \in 1..(N - 1) : /\ k = L + i /\ g[k] = Skip(k0, i) /\ g[k] \in Attachments(its, d)
                                       /\ UidOf(its, d, g[k]) = UidOf(its2, d, k)
  <2>1. k \in 1..Len(new) /\ new[k][1] = "AssociatedItem" /\ new[k][2] \in Roles
    BY <1>18, <1>19
  <2>2. CASE k \in 1..L
    <3>1. new[k] = P[k] /\ Carries(P[k], new[k][2])
      BY <2>1, <2>2, <1>2 DEF Carries
    <3>2. r \in Roles /\ k = j
      BY <3>1, <2>1, <2>2, <1>6
    <3>3. new[k][3] = u
      BY <3>1, <3>2, <1>5
    <3> QED BY <3>2, <3>3, <1>5, <1>12, <1>18
  <2>3. CASE k \notin 1..L
    <3>1. PICK i \in 1..(N - 1) : k = L + i
      BY <2>1, <2>3, <1>3
    <3>2. g[k] = Skip(k0, i) /\ new[k] = old[Skip(k0, i)] /\ Skip(k0, i) \in 1..N
      BY <3>1, <1>2, <1>3, <1>4
    <3> QED BY <3>1, <3>2, <2>1, <1>18
  <2> QED BY <2>2, <2>3
<1>20. ASSUME NEW k \in Attachments(its2, d), NEW l \in Attachments(its2, d), g[k] = g[l]
       PROVE  k = l
  <2> DEFINE Here(m) == m = j /\ g[m] \in {0, k0}
             Later(m) == \E i \in 1..(N - 1) : m = L + i /\ g[m] = Skip(k0, i)
  <2>1. \A m \in Attachments(its2, d) : Here(m) \/ Later(m)
    BY <1>19
  <2>2. \A m : Later(m) => g[m] \notin {0, k0}
    BY <1>4
  <2>3. Later(k) /\ Later(l) => k = l
    BY <1>4, <1>20
  <2> QED BY <2>1, <2>2, <2>3, <1>20
<1>21. Carried(p, its, its2, n, d, g)
  BY <1>5, <1>15, <1>16, <1>17, <1>19, <1>20 DEF Carried
<1>22. n \in Nat /\ \A k \in Attachments(its, d) : UidOf(its, d, k) \in 1..n
  BY <1>0 DEF Attached
<1>23. \A k \in Attachments(its2, d) :
          UidOf(its2, d, k) > n => k = j /\ r \in Roles /\ UidOf(its2, d, k) = u
  BY <1>19, <1>22
<1> QED BY <1>21, <1>23

\* A step on one item of the source.
OwnStep(p, its, its2, n, n2, d, k0, P, r, u, src, j) ==
    /\ n2 \in Nat /\ n <= n2 /\ InItsPlace(p, its, its2, n, d, k0, P, r, u, src, j)
    /\ \A e \in DOMAIN p : IsSeq(its[e].attrs) /\ (e # d => its2[e] = its[e])
    /\ \A c \in DOMAIN its : c \in DOMAIN its2
    /\ its[d].attrs[k0][1] # "lemma" \/ its2[d].output[1] # "proof"
    /\ r \in Roles => u \in 1..n2 /\ <<u, "fn">> \in DOMAIN its2

LEMMA OwnStepAttached ==
    ASSUME NEW p, NEW its, NEW its2, NEW n, NEW n2, NEW d, NEW k0, NEW P, NEW r, NEW u, NEW src, NEW j,
           OwnStep(p, its, its2, n, n2, d, k0, P, r, u, src, j)
    PROVE  Attached(p, its2, n2)
<1>0. /\ n2 \in Nat /\ n <= n2 /\ InItsPlace(p, its, its2, n, d, k0, P, r, u, src, j)
      /\ \A e \in DOMAIN p : IsSeq(its[e].attrs) /\ (e # d => its2[e] = its[e])
      /\ \A c \in DOMAIN its : c \in DOMAIN its2
      /\ its[d].attrs[k0][1] # "lemma" \/ its2[d].output[1] # "proof"
      /\ r \in Roles => u \in 1..n2 /\ <<u, "fn">> \in DOMAIN its2
  BY DEF OwnStep
<1>00. /\ n \in Nat /\ d \in DOMAIN p /\ Attached(p, its, n) /\ IsSeq(its[d].attrs)
       /\ BodiesKept(its, its2, n) /\ k0 \in 1..Len(its[d].attrs) /\ IsSeq(P)
       /\ its2[d].attrs = P \o RemoveAt(its[d].attrs, k0)
       /\ Taken(p, its, its2, n, d, k0, P, r, u, src, j)
  BY <1>0 DEF InItsPlace
<1>1. /\ \E g : Carried(p, its, its2, n, d, g)
      /\ \A k \in Attachments(its2, d) :
            UidOf(its2, d, k) > n => k = j /\ r \in Roles /\ UidOf(its2, d, k) = u
  BY <1>0, ReplacedCarried
<1>2. ASSUME NEW e \in DOMAIN p, e # d
      PROVE  /\ \E g : Carried(p, its, its2, n, e, g)
             /\ \A k \in Attachments(its2, e) : ~ UidOf(its2, e, k) > n
  <2>1. its2[e] = its[e] /\ IsSeq(its[e].attrs)
    BY <1>0, <1>2
  <2>2. \A k \in Attachments(its, e) : UidOf(its, e, k) \in 1..n
    BY <1>00 DEF Attached
  <2>3. \A k \in Attachments(its2, e) : k \in Attachments(its, e) /\ UidOf(its2, e, k) = UidOf(its, e, k)
    BY <2>1 DEF Attachments, UidOf
  <2>4. \E g : Carried(p, its, its2, n, e, g)
    BY <1>00, <2>1, SameCarried
  <2>5. \A k \in Attachments(its2, e) : ~ UidOf(its2, e, k) > n
    BY <1>00, <2>2, <2>3
  <2> QED BY <2>4, <2>5
<1>3. \A e \in DOMAIN p : \E g : Carried(p, its, its2, n, e, g)
  BY <1>1, <1>2
<1>4. \A e \in DOMAIN p : \A k \in Attachments(its2, e) :
         UidOf(its2, e, k) > n => e = d /\ k = j /\ r \in Roles /\ UidOf(its2, e, k) = u
  BY <1>1, <1>2
<1>5. ASSUME NEW e \in DOMAIN p, its2[e].output[1] = "proof", Has(p[e].attrs, "lemma")
      PROVE  Has(its2[e].attrs, "lemma")
  <2>1. its[e].output[1] = "proof"
    BY <1>0, <1>00, <1>5 DEF Taken
  <2>2. Has(its[e].attrs, "lemma")
    BY <2>1, <1>5, <1>00 DEF Attached
  <2>3. CASE e # d
    BY <1>0, <2>2, <2>3
  <2>4. CASE e = d
    <3> DEFINE old == its[d].attrs
               q == RemoveAt(old, k0)
    <3>1. IsSeq(q) /\ Len(q) = Len(old) - 1 /\ \A i \in 1..(Len(old) - 1) : q[i] = old[Skip(k0, i)]
      BY <1>00, RemoveAtFacts DEF Skip
    <3>2. DOMAIN old = 1..Len(old) /\ Len(old) \in Nat
      BY <1>00, SeqElements
    <3>3. PICK l \in 1..Len(old) : old[l][1] = "lemma"
      BY <2>2, <2>4, <3>2 DEF Has
    <3>4. l # k0
      BY <3>3, <2>4, <1>5, <1>0
    <3>5. PICK i \in 1..(Len(old) - 1) : Skip(k0, i) = l
      <4>1. Len(old) \in Nat /\ k0 \in 1..Len(old) /\ l \in 1..Len(old) /\ l # k0
        BY <1>00, <3>2, <3>3, <3>4
      <4> HIDE DEF old
      <4> QED BY ONLY <4>1, SkipFacts
    <3>6. i \in 1..Len(q) /\ q[i][1] = "lemma"
      BY <3>1, <3>3, <3>5
    <3> HIDE DEF q
    <3>7. /\ IsSeq(P \o q) /\ Len(P \o q) = Len(P) + Len(q) /\ Len(P) \in Nat /\ Len(q) \in Nat
          /\ (P \o q)[Len(P) + i] = q[i]
      <4>1. IsSeq(P) /\ IsSeq(q) /\ i \in 1..Len(q)
        BY <1>00, <3>1, <3>6
      <4> QED BY ONLY <4>1, ConcatIsSeq, SeqElements
    <3>8. Len(P) + i \in DOMAIN (P \o q)
      <4>1. Len(P) + i \in 1..Len(P \o q)
        BY <3>6, <3>7
      <4>2. DOMAIN (P \o q) = 1..Len(P \o q)
        BY <3>7, SeqElements
      <4> QED BY ONLY <4>1, <4>2
    <3> QED BY <1>00, <2>4, <3>6, <3>7, <3>8 DEF Has, q
  <2> QED BY <2>3, <2>4
<1>6. \A e \in DOMAIN p : \A k \in Attachments(its2, e) :
         UidOf(its2, e, k) > n => UidOf(its2, e, k) \in 1..n2 /\ <<UidOf(its2, e, k), "fn">> \in DOMAIN its2
  BY <1>0, <1>4
<1>7. \A e1, e2 \in DOMAIN p : \A k \in Attachments(its2, e1), l \in Attachments(its2, e2) :
         UidOf(its2, e1, k) > n /\ UidOf(its2, e1, k) = UidOf(its2, e2, l) => e1 = e2 /\ k = l
  BY <1>4
<1> QED BY <1>0, <1>00, <1>3, <1>5, <1>6, <1>7, AttachedCarried

\* What a visit makes of an attribute.
Turned(its, its2, n, a, b) ==
    /\ \A role \in Roles : /\ Carries(b, role) <=> Carries(a, role)
                           /\ Carries(a, role) => Said(its2, b) = Said(its, a)
    /\ b[1] = "AssociatedItem" /\ b[2] \in Roles => a = b \/ b[3] > n
    /\ a[1] = "lemma" => b[1] = "lemma"

\* The places of a sequence of N but k, if that is one of them.
LEMMA SkipSome ==
    ASSUME NEW N \in Nat, NEW k \in 1..(N + 1), NEW M, M = IF k <= N THEN N - 1 ELSE N
    PROVE  /\ M \in Nat
           /\ \A i \in 1..M : Skip(k, i) \in 1..N /\ Skip(k, i) # k /\ Skip(k, i) # 0
           /\ \A i, j \in 1..M : Skip(k, i) = Skip(k, j) => i = j
           /\ \A l \in 1..N : l # k => \E i \in 1..M : Skip(k, i) = l
<1>1. CASE k <= N
  <2>1. k \in 1..N /\ M = N - 1 /\ N - 1 \in Nat
    BY <1>1
  <2>2. /\ \A i \in 1..(N - 1) : Skip(k, i) \in 1..N /\ Skip(k, i) # k /\ Skip(k, i) # 0
        /\ \A i, j \in 1..(N - 1) : Skip(k, i) = Skip(k, j) => i = j
        /\ \A l \in 1..N : l # k => \E i \in 1..(N - 1) : Skip(k, i) = l
    BY <2>1, SkipFacts
  <2> QED BY ONLY <2>1, <2>2
<1>2. CASE ~ k <= N
  <2>1. M = N /\ \A i \in 1..N : Skip(k, i) = i /\ i # k /\ i # 0
    BY <1>2 DEF Skip
  <2> QED BY <2>1
<1> QED BY <1>1, <1>2

\* An item whose attributes are turned one by one, but for one that is dropped.
Mapped(p, its, its2, n, d, k0) ==
    LET old == its[d].attrs
        new == its2[d].attrs
    IN  /\ n \in Nat /\ d \in DOMAIN p /\ Attached(p, its, n) /\ IsSeq(old) /\ IsSeq(new)
        /\ its2[d].output = its[d].output
        /\ k0 \in 1..(Len(old) + 1)
        /\ Len(new) = IF k0 <= Len(old) THEN Len(old) - 1 ELSE Len(old)
        /\ k0 <= Len(old) => old[k0][1] # "lemma" /\ \A role \in Roles : ~ Carries(old[k0], role)
        /\ \A i \in 1..Len(new) : Turned(its, its2, n, old[Skip(k0, i)], new[i])

LEMMA MappedCarried ==
    ASSUME NEW p, NEW its, NEW its2, NEW n, NEW d, NEW k0, Mapped(p, its, its2, n, d, k0)
    PROVE  /\ \E g : Carried(p, its, its2, n, d, g)
           /\ Has(its[d].attrs, "lemma") => Has(its2[d].attrs, "lemma")
<1> DEFINE old == its[d].attrs
           new == its2[d].attrs
           N == Len(old)
           M == Len(new)
           g == [k \in 0..M |-> IF k = 0 THEN 0 ELSE Skip(k0, k)]
<1>1. /\ n \in Nat /\ d \in DOMAIN p /\ Attached(p, its, n) /\ IsSeq(old) /\ IsSeq(new)
      /\ its2[d].output = its[d].output
      /\ k0 \in 1..(N + 1) /\ M = IF k0 <= N THEN N - 1 ELSE N
      /\ k0 <= N => old[k0][1] # "lemma" /\ \A role \in Roles : ~ Carries(old[k0], role)
      /\ \A i \in 1..M : Turned(its, its2, n, old[Skip(k0, i)], new[i])
  BY DEF Mapped
<1>2. N \in Nat /\ DOMAIN old = 1..N /\ DOMAIN new = 1..M
  BY <1>1, SeqElements
<1> HIDE DEF old, new, N, M
<1>3. /\ M \in Nat
      /\ \A i \in 1..M : Skip(k0, i) \in 1..N /\ Skip(k0, i) # k0 /\ Skip(k0, i) # 0
      /\ \A i, j \in 1..M : Skip(k0, i) = Skip(k0, j) => i = j
      /\ \A l \in 1..N : l # k0 => \E i \in 1..M : Skip(k0, i) = l
  <2>1. N \in Nat /\ k0 \in 1..(N + 1) /\ M = IF k0 <= N THEN N - 1 ELSE N
    BY <1>1, <1>2
  <2>2. M \in Nat
    BY ONLY <2>1, SkipSome
  <2>3. \A i \in 1..M : Skip(k0, i) \in 1..N /\ Skip(k0, i) # k0 /\ Skip(k0, i) # 0
    BY ONLY <2>1, SkipSome
  <2>4. ASSUME NEW i \in 1..M, NEW j \in 1..M, Skip(k0, i) = Skip(k0, j) PROVE i = j
    BY ONLY <2>1, <2>2, <2>4 DEF Skip
  <2>5. \A l \in 1..N : l # k0 => \E i \in 1..M : Skip(k0, i) = l
    BY ONLY <2>1, SkipSome
  <2> QED BY <2>2, <2>3, <2>4, <2>5
<1>4. g[0] = 0 /\ \A i \in 1..M : g[i] = Skip(k0, i) /\ i # 0
  BY <1>3
<1> HIDE DEF g
<1>5. /\ \A role : 0 \in Places(p, its2, d, role) <=> 0 \in Places(p, its, d, role)
      /\ \A role, k : k # 0 => (k \in Places(p, its, d, role) <=> k \in 1..N /\ Carries(old[k], role))
      /\ \A role, k : k # 0 => (k \in Places(p, its2, d, role) <=> k \in 1..M /\ Carries(new[k], role))
  BY <1>1 DEF Places, old, new, N, M
<1>6. \A k : k # 0 => SaidAt(its, d, k) = Said(its, old[k]) /\ SaidAt(its2, d, k) = Said(its2, new[k])
  BY DEF SaidAt, old, new
<1>7. SaidAt(its2, d, 0) = SaidAt(its, d, 0)
  BY <1>1 DEF SaidAt
<1>8. ASSUME NEW role \in Roles, NEW k \in Places(p, its2, d, role)
      PROVE  g[k] \in Places(p, its, d, role) /\ SaidAt(its2, d, k) = SaidAt(its, d, g[k])
  <2>1. CASE k = 0
    BY <2>1, <1>4, <1>5, <1>7, <1>8
  <2>2. CASE k # 0
    <3>1. k \in 1..M /\ Carries(new[k], role)
      BY <2>2, <1>5, <1>8
    <3>2. g[k] = Skip(k0, k) /\ g[k] \in 1..N /\ g[k] # 0
      BY <3>1, <1>3, <1>4
    <3>3. Carries(old[g[k]], role) /\ Said(its2, new[k]) = Said(its, old[g[k]])
      BY <3>1, <3>2, <1>1 DEF Turned
    <3> QED BY <2>2, <3>2, <3>3, <1>5, <1>6
  <2> QED BY <2>1, <2>2
<1>9. ASSUME NEW k \in 0..M, NEW l \in 0..M, g[k] = g[l]
      PROVE  k = l
  <2>1. (k = 0 \/ k \in 1..M) /\ (l = 0 \/ l \in 1..M)
    BY <1>3
  <2> QED BY <2>1, <1>3, <1>4, <1>9
<1>10. \A role : Places(p, its2, d, role) \subseteq 0..M
  <2>1. 0 \in 0..M /\ \A k \in 1..M : k \in 0..M
    BY <1>3
  <2> QED BY <2>1, <1>5
<1>11. ASSUME NEW role \in Roles, NEW l \in Places(p, its, d, role)
       PROVE  \E k \in Places(p, its2, d, role) : g[k] = l
  <2>1. CASE l = 0
    BY <2>1, <1>4, <1>5, <1>11
  <2>2. CASE l # 0
    <3>1. l \in 1..N /\ Carries(old[l], role)
      BY <2>2, <1>5, <1>11
    <3>2. l # k0
      BY <3>1, <1>1, <1>2
    <3>3. PICK i \in 1..M : Skip(k0, i) = l
      BY <3>1, <3>2, <1>3
    <3>4. Carries(new[i], role) /\ g[i] = l /\ i # 0
      BY <3>1, <3>3, <1>1, <1>4 DEF Turned
    <3> QED BY <3>3, <3>4, <1>5
  <2> QED BY <2>1, <2>2
<1>12. /\ \A k : k \in Attachments(its2, d) <=> k \in 1..M /\ new[k][1] = "AssociatedItem" /\ new[k][2] \in Roles
       /\ \A k : k \in Attachments(its, d) <=> k \in 1..N /\ old[k][1] = "AssociatedItem" /\ old[k][2] \in Roles
       /\ \A k : UidOf(its2, d, k) = new[k][3] /\ UidOf(its, d, k) = old[k][3]
  BY DEF Attachments, UidOf, new, old, N, M
<1>13. ASSUME NEW k \in Attachments(its2, d)
       PROVE  /\ k \in 0..M
              /\ \/ g[k] \in Attachments(its, d) /\ UidOf(its, d, g[k]) = UidOf(its2, d, k)
                 \/ UidOf(its2, d, k) > n
  <2>1. k \in 1..M /\ new[k][1] = "AssociatedItem" /\ new[k][2] \in Roles
    BY <1>12, <1>13
  <2>2. g[k] = Skip(k0, k) /\ g[k] \in 1..N /\ Turned(its, its2, n, old[g[k]], new[k])
    BY <2>1, <1>1, <1>3, <1>4
  <2>3. old[g[k]] = new[k] \/ new[k][3] > n
    BY <2>1, <2>2 DEF Turned
  <2>4. k \in 0..M
    BY <2>1, <1>3
  <2> QED BY <2>1, <2>2, <2>3, <2>4, <1>12
<1>14. Carried(p, its, its2, n, d, g)
  <2>1. \A role \in Roles : \A k, l \in Places(p, its2, d, role) : g[k] = g[l] => k = l
    BY <1>9, <1>10
  <2>2. \A k, l \in Attachments(its2, d) : g[k] = g[l] => k = l
    BY <1>9, <1>13
  <2> QED BY <2>1, <2>2, <1>8, <1>11, <1>13 DEF Carried
<1>15. ASSUME Has(old, "lemma") PROVE Has(new, "lemma")
  <2>1. PICK l \in 1..N : old[l][1] = "lemma"
    BY <1>2, <1>15 DEF Has
  <2>2. l # k0
    BY <2>1, <1>1, <1>2
  <2>3. PICK i \in 1..M : Skip(k0, i) = l
    BY <2>1, <2>2, <1>3
  <2>4. new[i][1] = "lemma"
    BY <2>1, <2>3, <1>1 DEF Turned
  <2> QED BY <2>3, <2>4, <1>2 DEF Has
<1> QED BY <1>14, <1>15 DEF old, new

-----------------------------------------------------------------------------
(* The items that macros make *)

\* Items of the uids S.
Made(S, made) ==
    /\ made = [c \in DOMAIN made |-> made[c]] /\ IsFiniteSet(DOMAIN made)
    /\ \A c \in DOMAIN made :
          /\ c \in S \X CompanionKinds /\ IsItem(made[c]) /\ IsSeq(made[c].attrs) /\ IsCompanion(made, c)
          /\ \A k \in 1..Len(made[c].attrs) : made[c].attrs[k][1] \notin UserOnly

LEMMA TwoIsSeq ==
    ASSUME NEW a, NEW b
    PROVE  IsSeq(<<a, b>>) /\ Len(<<a, b>>) = 2 /\ <<a, b>>[1] = a /\ <<a, b>>[2] = b
<1>1. <<a, b>> \in Seq({a, b}) /\ Len(<<a, b>>) = 2 /\ <<a, b>>[1] = a /\ <<a, b>>[2] = b
  OBVIOUS
<1> QED BY <1>1, SeqIsSeq

LEMMA ThreeIsSeq ==
    ASSUME NEW a, NEW b, NEW c
    PROVE  /\ IsSeq(<<a, b, c>>) /\ Len(<<a, b, c>>) = 3
           /\ <<a, b, c>>[1] = a /\ <<a, b, c>>[2] = b /\ <<a, b, c>>[3] = c
<1>1. /\ <<a, b, c>> \in Seq({a, b, c}) /\ Len(<<a, b, c>>) = 3
      /\ <<a, b, c>>[1] = a /\ <<a, b, c>>[2] = b /\ <<a, b, c>>[3] = c
  OBVIOUS
<1> QED BY <1>1, SeqIsSeq

\* The attributes of the function of a decoration.
DecorationAttrs(u) == <<<<"Uid", u>>, LateSkip>> \o NeverErased

LEMMA DecorationAttrsFacts ==
    ASSUME NEW u
    PROVE  /\ IsSeq(DecorationAttrs(u)) /\ Len(DecorationAttrs(u)) = 3
           /\ DecorationAttrs(u)[1] = <<"Uid", u>> /\ DecorationAttrs(u)[2] = LateSkip
           /\ DecorationAttrs(u)[3] = <<"NeverErased">>
<1> DEFINE a == <<<<"Uid", u>>, LateSkip>>
           b == <<<<"NeverErased">>>>
<1>1. IsSeq(a) /\ Len(a) = 2 /\ a[1] = <<"Uid", u>> /\ a[2] = LateSkip
  BY TwoIsSeq
<1>2. IsSeq(b) /\ Len(b) = 1 /\ b[1] = <<"NeverErased">>
  BY OneIsSeq
<1>3. DecorationAttrs(u) = a \o b
  BY DEF DecorationAttrs, NeverErased
<1> HIDE DEF a, b
<1>4. 1 \in 1..Len(a) /\ 2 \in 1..Len(a) /\ 1 \in 1..Len(b) /\ Len(a) + 1 = 3 /\ Len(a) + Len(b) = 3
  BY <1>1, <1>2
<1>5. /\ IsSeq(a \o b) /\ Len(a \o b) = Len(a) + Len(b)
      /\ (a \o b)[1] = a[1] /\ (a \o b)[2] = a[2] /\ (a \o b)[Len(a) + 1] = b[1]
  <2>1. /\ IsSeq(a \o b) /\ Len(a \o b) = Len(a) + Len(b)
        /\ \A i \in 1..Len(a) : (a \o b)[i] = a[i]
        /\ \A i \in 1..Len(b) : (a \o b)[Len(a) + i] = b[i]
    <3>1. IsSeq(a) /\ IsSeq(b)
      BY <1>1, <1>2
    <3> QED BY ONLY <3>1, ConcatIsSeq
  <2> QED BY <2>1, <1>4
<1> QED BY <1>1, <1>2, <1>3, <1>4, <1>5

\* A function that is a companion.
FnCompanion(u, fn) ==
    /\ IsItem(fn) /\ fn.kind = "fn" /\ fn.parent = <<u, "const">> /\ IsSeq(fn.attrs)
    /\ \/ fn.attrs = <<<<"Uid", u>>, LateSkip>>
       \/ fn.attrs = DecorationAttrs(u)
       \/ /\ Len(fn.attrs) = 3 /\ fn.attrs[1] = <<"NeverErased">>
          /\ fn.attrs[2] = <<"Uid", u>> /\ fn.attrs[3][1] = "ItemQuote"

LEMMA FnCompanionTags ==
    ASSUME NEW u, NEW fn, FnCompanion(u, fn), NEW k \in 1..Len(fn.attrs)
    PROVE  fn.attrs[k][1] \in {"Uid", "ItemStatus", "NeverErased", "ItemQuote"}
<1>1. CASE fn.attrs = <<<<"Uid", u>>, LateSkip>>
  <2>1. k = 1 \/ k = 2
    BY <1>1, TwoIsSeq
  <2> QED BY <1>1, <2>1, TwoIsSeq DEF LateSkip, UserOnly
<1>2. CASE fn.attrs = DecorationAttrs(u)
  <2>0. Len(fn.attrs) = 3
    BY <1>2, DecorationAttrsFacts
  <2>1. k = 1 \/ k = 2 \/ k = 3
    BY <2>0
  <2> QED BY <1>2, <2>1, DecorationAttrsFacts DEF LateSkip, UserOnly
<1>3. CASE /\ Len(fn.attrs) = 3 /\ fn.attrs[1] = <<"NeverErased">>
           /\ fn.attrs[2] = <<"Uid", u>> /\ fn.attrs[3][1] = "ItemQuote"
  <2>1. k = 1 \/ k = 2 \/ k = 3
    BY <1>3
  <2> QED BY <1>3, <2>1
<1> QED BY <1>1, <1>2, <1>3 DEF FnCompanion

LEMMA JoinedMade ==
    ASSUME NEW S, NEW a, NEW b, Made(S, a), Made(S, b)
    PROVE  Made(S, Joined(a, b))
<1> DEFINE j == Joined(a, b)
<1>0. j = Joined(a, b)
  OBVIOUS
<1> HIDE DEF j
<1>1. /\ j = [c \in DOMAIN j |-> j[c]] /\ DOMAIN j = DOMAIN a \cup DOMAIN b
      /\ \A c \in DOMAIN a : j[c] = a[c]
      /\ \A c \in DOMAIN b \ DOMAIN a : j[c] = b[c]
  BY <1>0 DEF Joined
<1>2. IsFiniteSet(DOMAIN j)
  <2>1. IsFiniteSet(DOMAIN a) /\ IsFiniteSet(DOMAIN b)
    BY DEF Made
  <2> QED BY ONLY <1>1, <2>1, FS_Union
<1>3. ASSUME NEW c \in DOMAIN j
      PROVE  /\ c \in S \X CompanionKinds /\ IsItem(j[c]) /\ IsSeq(j[c].attrs) /\ IsCompanion(j, c)
             /\ \A k \in 1..Len(j[c].attrs) : j[c].attrs[k][1] \notin UserOnly
  <2>1. CASE c \in DOMAIN a
    BY <2>1, <1>1 DEF Made, IsCompanion
  <2>2. CASE c \in DOMAIN b \ DOMAIN a
    BY <2>2, <1>1 DEF Made, IsCompanion
  <2> QED BY <2>1, <2>2, <1>1
<1> QED BY <1>0, <1>1, <1>2, <1>3 DEF Made

\* A function in a constant.
LEMMA WrappedMade ==
    ASSUME NEW u, NEW parent, NEW fn, FnCompanion(u, fn)
    PROVE  /\ Made({u}, Wrapped(u, parent, fn))
           /\ DOMAIN Wrapped(u, parent, fn) = {<<u, "const">>, <<u, "fn">>}
           /\ Wrapped(u, parent, fn)[<<u, "fn">>] = fn
           /\ Wrapped(u, parent, fn)[<<u, "const">>].parent = parent
<1> DEFINE w == Wrapped(u, parent, fn)
           c == <<u, "const">>
           f == <<u, "fn">>
<1>1. c # f
  OBVIOUS
<1>2. /\ w = [e \in DOMAIN w |-> w[e]] /\ DOMAIN w = {c, f} /\ w[f] = fn /\ w[c] = Wrapper(parent)
  BY <1>1 DEF Wrapped
<1>3. IsFiniteSet({c, f})
  <2>1. IsFiniteSet({c}) /\ IsFiniteSet({f}) /\ {c, f} = {c} \cup {f}
    BY FS_Singleton
  <2> QED BY ONLY <2>1, FS_Union
<1>4. /\ IsItem(w[c]) /\ w[c].parent = parent /\ w[c].kind = "const" /\ w[c].attrs = <<LateSkip>>
      /\ IsSeq(w[c].attrs) /\ \A k \in 1..Len(w[c].attrs) : w[c].attrs[k][1] \notin UserOnly
  <2>1. IsItem(Wrapper(parent)) /\ Wrapper(parent).kind = "const" /\ Wrapper(parent).parent = parent
        /\ Wrapper(parent).attrs = <<LateSkip>>
    BY DEF Wrapper, Item, IsItem
  <2>2. IsSeq(<<LateSkip>>) /\ \A k \in 1..Len(<<LateSkip>>) : <<LateSkip>>[k][1] \notin UserOnly
    BY OneIsSeq DEF LateSkip, UserOnly
  <2> QED BY <1>2, <2>1, <2>2
<1>5. c \in {u} \X CompanionKinds /\ f \in {u} \X CompanionKinds /\ c[1] = u /\ c[2] = "const" /\ f[1] = u /\ f[2] = "fn"
  BY DEF CompanionKinds
<1>6. c \in DOMAIN w
  BY <1>2
<1> HIDE DEF w
<1>7. IsCompanion(w, c)
  BY <1>4, <1>5 DEF IsCompanion
<1>8. IsCompanion(w, f)
  BY <1>2, <1>5, <1>6 DEF IsCompanion, FnCompanion, DecorationAttrs
<1>9. \A k \in 1..Len(fn.attrs) : fn.attrs[k][1] \notin UserOnly
  BY FnCompanionTags DEF UserOnly
<1>10. IsItem(fn) /\ IsSeq(fn.attrs)
  BY DEF FnCompanion
<1>11. ASSUME NEW e \in DOMAIN w
       PROVE  /\ e \in {u} \X CompanionKinds /\ IsItem(w[e]) /\ IsSeq(w[e].attrs) /\ IsCompanion(w, e)
              /\ \A k \in 1..Len(w[e].attrs) : w[e].attrs[k][1] \notin UserOnly
  <2>1. CASE e = c
    BY <2>1, <1>4, <1>5, <1>7
  <2>2. CASE e = f
    BY <2>2, <1>2, <1>5, <1>8, <1>9, <1>10
  <2> QED BY <2>1, <2>2, <1>2
<1>12. Made({u}, w)
  BY <1>2, <1>3, <1>11 DEF Made
<1> QED BY <1>2, <1>4, <1>12 DEF w

LEMMA DecorationFnIsCompanion ==
    ASSUME NEW u, NEW role, NEW fn, NEW phi
    PROVE  /\ FnCompanion(u, DecorationFn(u, role, fn, RewriteSelf(fn, phi)))
           /\ DecorationFn(u, role, fn, RewriteSelf(fn, phi)).body.says = phi.says
<1> DEFINE x == DecorationFn(u, role, fn, RewriteSelf(fn, phi))
<1>1. x.body = RewriteSelf(fn, phi).phi /\ x.kind = "fn" /\ x.parent = <<u, "const">>
      /\ x.attrs = DecorationAttrs(u) /\ IsItem(x)
  BY DEF DecorationFn, Function, DecorationAttrs, IsItem
<1>2. RewriteSelf(fn, phi).phi.says = phi.says
  BY DEF RewriteSelf, Expr
<1> HIDE DEF x
<1>3. FnCompanion(u, x)
  BY <1>1, DecorationAttrsFacts DEF FnCompanion
<1> QED BY <1>1, <1>2, <1>3 DEF x

\* The helper for `future`.
LEMMA FutureMade ==
    ASSUME NEW u, NEW role
    PROVE  LET more == [c \in IF role = "ensures" THEN {<<u, "future">>} ELSE {} |-> FutureHelper(u)]
           IN  /\ Made({u}, more) /\ DOMAIN more \subseteq {<<u, "future">>}
               /\ \A c \in DOMAIN more : more[c].parent = <<u, "const">>
<1> DEFINE D == IF role = "ensures" THEN {<<u, "future">>} ELSE {}
           more == [c \in D |-> FutureHelper(u)]
           h == FutureHelper(u)
<1>1. DOMAIN more = D /\ D \subseteq {<<u, "future">>} /\ \A c \in D : more[c] = h
  OBVIOUS
<1>2. IsFiniteSet(D)
  BY FS_EmptySet, FS_Singleton
<1>3. IsItem(h) /\ h.kind = "fn" /\ h.parent = <<u, "const">> /\ h.attrs = <<LateSkip, <<"Language">>>>
  BY DEF FutureHelper, Item, IsItem
<1>4. IsSeq(h.attrs) /\ \A k \in 1..Len(h.attrs) : h.attrs[k][1] \notin UserOnly
  <2>1. \A k \in 1..2 : k = 1 \/ k = 2
    OBVIOUS
  <2> QED BY <1>3, <2>1, TwoIsSeq DEF LateSkip, UserOnly
<1> HIDE DEF D, h
<1>5. ASSUME NEW c \in DOMAIN more
      PROVE  /\ c \in {u} \X CompanionKinds /\ IsItem(more[c]) /\ IsSeq(more[c].attrs) /\ IsCompanion(more, c)
             /\ \A k \in 1..Len(more[c].attrs) : more[c].attrs[k][1] \notin UserOnly
  <2>1. c = <<u, "future">> /\ more[c] = h
    BY <1>1
  <2>2. c \in {u} \X CompanionKinds /\ c[2] = "future"
    BY <2>1 DEF CompanionKinds
  <2> HIDE DEF more
  <2> QED BY <2>1, <2>2, <1>3, <1>4 DEF IsCompanion
<1>6. more = [c \in DOMAIN more |-> more[c]]
  BY <1>1
<1>7. Made({u}, more)
  BY <1>1, <1>2, <1>5, <1>6 DEF Made
<1>8. \A c \in DOMAIN more : more[c].parent = <<u, "const">>
  BY <1>1, <1>3
<1> QED BY <1>1, <1>7, <1>8 DEF D, h

LEMMA CompanionKept ==
    ASSUME NEW its, NEW its2, NEW c, IsCompanion(its, c), its2[c] = its[c], DOMAIN its \subseteq DOMAIN its2
    PROVE  IsCompanion(its2, c)
BY DEF IsCompanion

\* No formula is taken.
LEMMA TakenNone ==
    ASSUME NEW p, NEW its, NEW its2, NEW n, NEW d, NEW k, NEW P,
           \A i \in 1..Len(P), role \in Roles : ~ Carries(P[i], role),
           \A role \in Roles : ~ Carries(its[d].attrs[k], role),
           its2[d].output = its[d].output
    PROVE  Taken(p, its, its2, n, d, k, P, "none", 0, 0, 0)
<1>1. "none" \notin Roles
  BY DEF Roles
<1> QED BY <1>1 DEF Taken

\* The attributes that carry a formula.
LEMMA CarriesTags ==
    ASSUME NEW a, NEW role \in Roles, Carries(a, role)
    PROVE  \/ a[1] \in {"requires", "ensures", "refine", "refinement_type"}
           \/ a[1] \in {"impl_fn_decoration", "AssociatedItem"} /\ a[2] = role
BY DEF Carries, WrittenAs, Roles

\* The items of the source are left alone.
LEMMA OthersAttached ==
    ASSUME NEW p, NEW its, NEW its2, NEW n \in Nat, NEW n2 \in Nat, n <= n2, Attached(p, its, n),
           BodiesKept(its, its2, n), \A e \in DOMAIN p : its2[e] = its[e] /\ IsSeq(its[e].attrs),
           \A c \in DOMAIN its : c \in DOMAIN its2
    PROVE  Attached(p, its2, n2)
<1>1. \A e \in DOMAIN p : its2[e].attrs = its[e].attrs /\ its2[e].output = its[e].output
  OBVIOUS
<1>2. \A e \in DOMAIN p : \E g : Carried(p, its, its2, n, e, g)
  BY <1>1, SameCarried
<1>3. \A e \in DOMAIN p : \A k \in Attachments(its2, e) : ~ UidOf(its2, e, k) > n
  <2> TAKE e \in DOMAIN p
  <2> TAKE k \in Attachments(its2, e)
  <2>1. k \in Attachments(its, e) /\ UidOf(its2, e, k) = UidOf(its, e, k)
    BY <1>1 DEF Attachments, UidOf
  <2>2. UidOf(its, e, k) \in 1..n
    BY <2>1 DEF Attached
  <2> QED BY <2>1, <2>2
<1>4. \A e \in DOMAIN p : its2[e].output[1] = "proof" /\ Has(p[e].attrs, "lemma") =>
                             Has(its2[e].attrs, "lemma")
  BY <1>1 DEF Attached
<1>5. \A e \in DOMAIN p : \A k \in Attachments(its2, e) :
         UidOf(its2, e, k) > n => UidOf(its2, e, k) \in 1..n2 /\ <<UidOf(its2, e, k), "fn">> \in DOMAIN its2
  BY <1>3
<1>6. \A d, e \in DOMAIN p : \A k \in Attachments(its2, d), l \in Attachments(its2, e) :
         UidOf(its2, d, k) > n /\ UidOf(its2, d, k) = UidOf(its2, e, l) => d = e /\ k = l
  BY <1>3
<1> QED BY <1>2, <1>4, <1>5, <1>6, AttachedCarried

\* Sequences one after the other, in any grouping.
LEMMA ConcatRegroups ==
    ASSUME NEW a, NEW b, NEW c, IsSeq(a), IsSeq(b), IsSeq(c)
    PROVE  (a \o b) \o c = a \o (b \o c)
<1> DEFINE S == Range(a) \cup Range(b) \cup Range(c)
<1>1. a \in Seq(S) /\ b \in Seq(S) /\ c \in Seq(S)
  <2>1. \A R : R \subseteq S => Seq(R) \subseteq Seq(S)
    OBVIOUS
  <2>2. Range(a) \subseteq S /\ Range(b) \subseteq S /\ Range(c) \subseteq S
    OBVIOUS
  <2> HIDE DEF S
  <2> QED BY <2>1, <2>2 DEF IsSeq
<1> HIDE DEF S
<1> QED BY <1>1

\* A short sequence and another.
LEMMA ConcatShort ==
    ASSUME NEW a, NEW b, IsSeq(a), IsSeq(b)
    PROVE  /\ IsSeq(a \o b) /\ Len(a \o b) = Len(a) + Len(b)
           /\ \A i \in 1..Len(a \o b) : \/ \E j \in 1..Len(a) : (a \o b)[i] = a[j]
                                        \/ \E j \in 1..Len(b) : (a \o b)[i] = b[j]
BY ConcatIsSeq

LEMMA ConcatEmpty == ASSUME NEW s, IsSeq(s) PROVE <<>> \o s = s
<1> DEFINE e == <<>>
<1>1. IsSeq(e) /\ Len(e) = 0
  BY EmptyIsSeq
<1> HIDE DEF e
<1>2. /\ IsSeq(e \o s) /\ Len(e \o s) = Len(e) + Len(s)
      /\ \A i \in 1..Len(s) : (e \o s)[Len(e) + i] = s[i]
  BY <1>1, ConcatIsSeq
<1>3. Len(e \o s) = Len(s) /\ \A i \in 1..Len(s) : (e \o s)[i] = s[i]
  <2>1. Len(s) \in Nat
    BY SeqElements
  <2>2. \A i \in 1..Len(s) : Len(e) + i = i
    BY <1>1, <2>1
  <2> QED BY <1>1, <1>2, <2>1, <2>2
<1>4. e \o s = s
  BY <1>2, <1>3, SameSeq
<1> QED BY <1>4 DEF e

LEMMA ImageFinite ==
    ASSUME NEW S, IsFiniteSet(S), NEW f
    PROVE  IsFiniteSet({f[x] : x \in S})
<1> DEFINE T == {f[x] : x \in S}
           g == [x \in S |-> f[x]]
<1>1. g \in Surjection(S, T)
  <2>1. g \in [S -> T] /\ \A y \in T : \E x \in S : g[x] = y
    OBVIOUS
  <2> QED BY <2>1 DEF Surjection
<1> HIDE DEF g, T
<1>2. IsFiniteSet(T)
  BY <1>1, FS_Surjection
<1> QED BY <1>2 DEF T

LEMMA UnionFinite ==
    ASSUME NEW S, IsFiniteSet(S), NEW f, \A x \in S : IsFiniteSet(f[x])
    PROVE  IsFiniteSet(UNION {f[x] : x \in S})
<1> DEFINE T == {f[x] : x \in S}
<1>1. IsFiniteSet(T)
  BY ImageFinite
<1>2. \A R \in T : IsFiniteSet(R)
  OBVIOUS
<1> HIDE DEF T
<1>3. IsFiniteSet(UNION T)
  BY <1>1, <1>2, FS_UNION
<1> QED BY <1>3 DEF T

LEMMA OrderFacts ==
    ASSUME NEW S, IsFiniteSet(S)
    PROVE  /\ Cardinality(S) \in Nat
           /\ \A s \in S : Order(S)[s] \in 1..Cardinality(S)
           /\ \A s, r \in S : Order(S)[s] = Order(S)[r] => s = r
<1> DEFINE C == Cardinality(S)
           IsOrder(o) == o \in [S -> 1..C] /\ \A s, r \in S : o[s] = o[r] => s = r
<1>1. C \in Nat /\ ExistsBijection(1..C, S)
  BY FS_CardinalityType
<1>2. PICK g \in [1..C -> S] : \A s \in S : \E i \in 1..C : g[i] = s
  BY <1>1 DEF ExistsBijection, Bijection, Surjection, Injection
<1> DEFINE h == [s \in S |-> CHOOSE i \in 1..C : g[i] = s]
<1>3. \A s \in S : h[s] \in 1..C /\ g[h[s]] = s
  BY <1>2
<1>4. h \in [S -> 1..C]
  BY <1>3
<1>5. IsOrder(h)
  <2> HIDE DEF h
  <2> QED BY <1>3, <1>4
<1>6. Order(S) = CHOOSE o \in [S -> 1..C] : \A s, r \in S : o[s] = o[r] => s = r
  BY DEF Order
<1> HIDE DEF h, C
<1>7. \E o \in [S -> 1..C] : \A s, r \in S : o[s] = o[r] => s = r
  BY <1>5
<1>8. Order(S) \in [S -> 1..C] /\ \A s, r \in S : Order(S)[s] = Order(S)[r] => s = r
  BY <1>6, <1>7
<1> QED BY <1>1, <1>8 DEF C

LEMMA SameAttrs == ASSUME NEW x, IsItem(x) PROVE WithAttrs(x, x.attrs) = x
<1> DEFINE a == x.attrs
<1>1. WithAttrs(x, a) = [kind |-> x.kind, parent |-> x.parent, attrs |-> a, inputs |-> x.inputs,
                         output |-> x.output, post |-> x.post, uses |-> x.uses, body |-> x.body]
  BY WithAttrsFacts
<1> QED BY <1>1 DEF IsItem

-----------------------------------------------------------------------------
(* The status of an item *)

\* The first status of attrs is this one, at k.
FirstAt(attrs, k, status) ==
    /\ IsSeq(attrs) /\ k \in 1..Len(attrs) /\ attrs[k] = <<"ItemStatus", status>>
    /\ \A l \in 1..Len(attrs) : l < k => attrs[l][1] # "ItemStatus"

LEMMA FirstStatus ==
    ASSUME NEW attrs, NEW k, NEW status, FirstAt(attrs, k, status)
    PROVE  Status(attrs) = status
<1>1. /\ Len(attrs) \in Nat /\ DOMAIN attrs = 1..Len(attrs) /\ k \in 1..Len(attrs)
      /\ k \in Nat /\ \A l \in 1..Len(attrs) : l \in Nat
  <2>1. IsSeq(attrs) /\ k \in 1..Len(attrs)
    BY DEF FirstAt
  <2>2. Len(attrs) \in Nat /\ DOMAIN attrs = 1..Len(attrs)
    BY <2>1, SeqElements
  <2> QED BY <2>1, <2>2
<1>2. k \in Statuses(attrs)
  BY <1>1 DEF Statuses, FirstAt
<1>3. \A l \in Statuses(attrs) : l \in 1..Len(attrs) /\ k <= l
  BY <1>1 DEF Statuses, FirstAt
<1> DEFINE first == CHOOSE j \in Statuses(attrs) : \A l \in Statuses(attrs) : j <= l
<1>4. first \in Statuses(attrs) /\ \A l \in Statuses(attrs) : first <= l
  BY <1>2, <1>3
<1>5. first = k
  <2> HIDE DEF first
  <2>1. first \in Nat /\ k \in Nat /\ k <= first /\ first <= k
    BY <1>1, <1>2, <1>3, <1>4
  <2> QED BY <2>1
<1>6. Status(attrs) = attrs[k][2]
  BY <1>2, <1>5 DEF Status
<1> QED BY <1>6 DEF FirstAt

\* It stays so behind attributes without a status, and in front of others.
LEMMA FirstBehind ==
    ASSUME NEW a, NEW attrs, NEW k, NEW status, FirstAt(attrs, k, status),
           IsSeq(a), \A l \in 1..Len(a) : a[l][1] # "ItemStatus"
    PROVE  FirstAt(a \o attrs, Len(a) + k, status)
<1> DEFINE b == a \o attrs
<1>1. IsSeq(a) /\ IsSeq(attrs)
  BY DEF FirstAt
<1>2. /\ IsSeq(b) /\ Len(b) = Len(a) + Len(attrs)
      /\ \A i \in 1..Len(a) : b[i] = a[i]
      /\ \A i \in 1..Len(attrs) : b[Len(a) + i] = attrs[i]
  BY ONLY <1>1, ConcatIsSeq
<1>3. Len(a) \in Nat /\ Len(attrs) \in Nat /\ k \in 1..Len(attrs)
  BY <1>1, SeqElements DEF FirstAt
<1> HIDE DEF b
<1>4. Len(a) + k \in 1..Len(b) /\ b[Len(a) + k] = <<"ItemStatus", status>>
  BY <1>2, <1>3 DEF FirstAt
<1>5. ASSUME NEW l \in 1..Len(b), l < Len(a) + k PROVE b[l][1] # "ItemStatus"
  <2>1. CASE l <= Len(a)
    BY <2>1, <1>2, <1>3
  <2>2. CASE l > Len(a)
    <3>1. l - Len(a) \in 1..Len(attrs) /\ l - Len(a) < k /\ Len(a) + (l - Len(a)) = l
      BY <2>2, <1>2, <1>3, <1>5
    <3>2. b[l] = attrs[l - Len(a)]
      BY <1>2, <3>1
    <3> QED BY <3>1, <3>2 DEF FirstAt
  <2> QED BY <2>1, <2>2, <1>2, <1>3
<1>6. FirstAt(b, Len(a) + k, status)
  BY <1>2, <1>4, <1>5 DEF FirstAt
<1> QED BY <1>6 DEF b

LEMMA FirstBefore ==
    ASSUME NEW a, NEW attrs, NEW k, NEW status, FirstAt(attrs, k, status), IsSeq(a)
    PROVE  FirstAt(attrs \o a, k, status)
<1> DEFINE b == attrs \o a
<1>1. IsSeq(a) /\ IsSeq(attrs)
  BY DEF FirstAt
<1>2. /\ IsSeq(b) /\ Len(b) = Len(attrs) + Len(a)
      /\ \A i \in 1..Len(attrs) : b[i] = attrs[i]
  BY ONLY <1>1, ConcatIsSeq
<1>3. Len(a) \in Nat /\ Len(attrs) \in Nat /\ k \in 1..Len(attrs)
  BY <1>1, SeqElements DEF FirstAt
<1> HIDE DEF b
<1>4. k \in 1..Len(b) /\ b[k] = <<"ItemStatus", status>>
  BY <1>2, <1>3 DEF FirstAt
<1>5. \A l \in 1..Len(b) : l < k => l \in 1..Len(attrs)
  BY <1>2, <1>3
<1>6. FirstAt(b, k, status)
  BY <1>2, <1>4, <1>5 DEF FirstAt
<1> QED BY <1>6 DEF b

LEMMA FirstErased ==
    ASSUME NEW attrs, NEW k, NEW status, FirstAt(attrs, k, status), NEW by_hax
    PROVE  Status(WithErased(by_hax, attrs)) = status
<1> DEFINE e == <<<<"Erased">>>>
<1>1. WithErased(by_hax, attrs) = attrs \/ WithErased(by_hax, attrs) = e \o attrs
  BY DEF WithErased
<1>2. IsSeq(e) /\ \A l \in 1..Len(e) : e[l][1] # "ItemStatus"
  <2>1. IsSeq(e) /\ Len(e) = 1 /\ e[1] = <<"Erased">>
    BY OneIsSeq
  <2>2. \A l \in 1..1 : l = 1
    OBVIOUS
  <2> HIDE DEF e
  <2> QED BY <2>1, <2>2
<1> HIDE DEF e
<1>3. FirstAt(e \o attrs, Len(e) + k, status)
  BY <1>2, FirstBehind
<1> QED BY <1>1, <1>3, FirstStatus

-----------------------------------------------------------------------------
(* What is reached in a graph *)

\* An image under what tells its elements apart is as large.
LEMMA SameSize ==
    ASSUME NEW S, IsFiniteSet(S), NEW f, \A x, y \in S : f[x] = f[y] => x = y
    PROVE  Cardinality({f[x] : x \in S}) = Cardinality(S)
<1> DEFINE T == {f[x] : x \in S}
           g == [x \in S |-> f[x]]
<1>1. g \in Bijection(S, T)
  <2>1. g \in [S -> T] /\ \A x \in S : g[x] = f[x]
    OBVIOUS
  <2>2. \A t \in T : \E x \in S : g[x] = t
    OBVIOUS
  <2> HIDE DEF g, T
  <2>3. \A x, y \in S : g[x] = g[y] => x = y
    BY <2>1
  <2> QED BY <2>1, <2>2, <2>3 DEF Bijection, Injection, Surjection, IsInjective
<1>2. ExistsBijection(S, T)
  BY <1>1 DEF ExistsBijection
<1> HIDE DEF T
<1>3. Cardinality(S) = Cardinality(T)
  BY <1>2, FS_Bijection
<1> QED BY <1>3 DEF T

\* The rounds of TransitiveDependencies.
Rounds(graph, S, f) ==
    /\ f[0] = S
    /\ \A n \in 1..Cardinality(DOMAIN graph) : f[n] = f[n - 1] \cup Successors(graph, f[n - 1])
    /\ TransitiveDependencies(graph, S) = f[Cardinality(DOMAIN graph)]

LEMMA RoundsExist ==
    ASSUME NEW graph, IsFiniteSet(DOMAIN graph), NEW S
    PROVE  \E f : Rounds(graph, S, f)
<1> DEFINE N == Cardinality(DOMAIN graph)
           U == S \cup UNION {graph[i] : i \in DOMAIN graph}
           P == SUBSET U
           next == [before \in P |-> before \cup Successors(graph, before)]
           L(f) == [n \in 0..N |-> IF n = 0 THEN S ELSE f[n - 1] \cup Successors(graph, f[n - 1])]
           chosen == CHOOSE f : f = L(f)
<1>1. N \in Nat
  BY FS_CardinalityType
<1>2. TransitiveDependencies(graph, S) = chosen[N]
  BY DEF TransitiveDependencies
<1> HIDE DEF N
<1>3. S \in P /\ next \in [P -> P]
  BY DEF Successors
<1>4. PICK f : IsIteration(f, P, S, N, next)
  <2> HIDE DEF next, L, chosen, P
  <2> QED BY <1>1, <1>3, IterationExists
<1>5. f \in [0..N -> P] /\ f[0] = S /\ \A n \in 1..N : f[n] = next[f[n - 1]]
  BY <1>4 DEF IsIteration
<1>6. f = L(f)
  <2>1. ASSUME NEW n \in 0..N PROVE f[n] = L(f)[n]
    <3>1. CASE n = 0
      BY <1>5, <3>1
    <3>2. CASE n # 0
      <4>1. n \in 1..N /\ n - 1 \in 0..N
        BY <1>1, <3>2
      <4>2. f[n - 1] \in P /\ f[n] = next[f[n - 1]]
        BY <1>5, <4>1
      <4>3. f[n] = f[n - 1] \cup Successors(graph, f[n - 1])
        <5> HIDE DEF P
        <5> QED BY <4>2
      <4> QED BY <3>2, <4>3
    <3> QED BY <3>1, <3>2
  <2> HIDE DEF P
  <2> QED BY <1>5, <2>1
<1>7. chosen = L(chosen)
  <2> HIDE DEF L
  <2> QED BY <1>6
<1> HIDE DEF chosen
<1>8. chosen[0] = S /\ \A n \in 1..N : chosen[n] = chosen[n - 1] \cup Successors(graph, chosen[n - 1])
  <2>1. ASSUME NEW n \in 1..N PROVE chosen[n] = chosen[n - 1] \cup Successors(graph, chosen[n - 1])
    <3>1. n \in 0..N /\ n # 0
      BY <1>1
    <3> QED BY <1>7, <3>1
  <2>2. 0 \in 0..N
    BY <1>1
  <2> QED BY <1>7, <2>1, <2>2
<1> QED BY <1>2, <1>8 DEF Rounds, N

\* Nothing but what is in a set that is closed.
LEMMA ReachedInside ==
    ASSUME NEW graph, IsFiniteSet(DOMAIN graph), NEW S, NEW T, S \subseteq T,
           \A i \in T \cap DOMAIN graph : graph[i] \subseteq T
    PROVE  TransitiveDependencies(graph, S) \subseteq T
<1> DEFINE N == Cardinality(DOMAIN graph)
<1>1. N \in Nat
  BY FS_CardinalityType
<1>2. PICK f : Rounds(graph, S, f)
  BY RoundsExist
<1> DEFINE Inside == {n \in 0..N : f[n] \subseteq T}
<1>3. 0 \in Inside
  BY <1>1, <1>2 DEF Rounds
<1>4. ASSUME NEW n \in 0..(N - 1), n \in Inside PROVE n + 1 \in Inside
  <2>1. n + 1 \in 1..N /\ n + 1 \in 0..N /\ (n + 1) - 1 = n
    BY <1>1
  <2>2. f[n + 1] = f[n] \cup Successors(graph, f[n])
    BY <1>2, <2>1 DEF Rounds
  <2>3. Successors(graph, f[n]) \subseteq T
    BY <1>4 DEF Successors
  <2> QED BY <1>4, <2>1, <2>2, <2>3
<1>5. 0..N \subseteq Inside
  <2> HIDE DEF Inside, N
  <2> QED BY <1>1, <1>3, <1>4, IntervalInduction
<1>6. N \in Inside
  BY <1>1, <1>5
<1> QED BY <1>2, <1>6 DEF Rounds

\* A round that adds no item of the graph is the last one that adds anything; the
\* others are no more than there are items.
LEMMA ReachedIsClosed ==
    ASSUME NEW graph, IsFiniteSet(DOMAIN graph), NEW S
    PROVE  /\ S \subseteq TransitiveDependencies(graph, S)
           /\ \A i \in TransitiveDependencies(graph, S) \cap DOMAIN graph :
                 graph[i] \subseteq TransitiveDependencies(graph, S)
<1> DEFINE D == DOMAIN graph
           N == Cardinality(D)
           Size(T) == Cardinality(T \cap D)
           Closed(T) == Successors(graph, T) \subseteq T
<1>1. N \in Nat
  BY FS_CardinalityType
<1>2. PICK f : Rounds(graph, S, f)
  BY RoundsExist
<1>3. \A T : IsFiniteSet(T \cap D) /\ Size(T) \in Nat /\ Size(T) <= N
  <2> SUFFICES ASSUME NEW T PROVE IsFiniteSet(T \cap D) /\ Size(T) \in Nat /\ Size(T) <= N
    OBVIOUS
  <2>1. T \cap D \subseteq D
    OBVIOUS
  <2> QED BY <2>1, FS_Subset, FS_CardinalityType
<1>4. \A T, R : T \subseteq R /\ T \cap D # R \cap D => Size(T) + 1 <= Size(R)
  <2> SUFFICES ASSUME NEW T, NEW R, T \subseteq R, T \cap D # R \cap D PROVE Size(T) + 1 <= Size(R)
    OBVIOUS
  <2>1. T \cap D \subseteq R \cap D
    OBVIOUS
  <2>2. Size(T) # Size(R) /\ Size(T) <= Size(R)
    <3>1. IsFiniteSet(R \cap D)
      BY <1>3
    <3> QED BY <2>1, <3>1, FS_Subset
  <2> QED BY <1>3, <2>2
<1>5. \A T, R : T \cap D = R \cap D => Successors(graph, T) = Successors(graph, R)
  BY DEF Successors
<1> DEFINE Enough == {n \in 0..N : S \subseteq f[n] /\ (Closed(f[n]) \/ Size(f[n]) >= n + 1)}
<1>6. 0 \in Enough
  <2>1. f[0] = S /\ 0 \in 0..N
    BY <1>1, <1>2 DEF Rounds
  <2>2. CASE S \cap D = {}
    BY <2>1, <2>2 DEF Successors
  <2>3. CASE S \cap D # {}
    <3>1. ({} \subseteq S) /\ ({} \cap D # S \cap D)
      BY <2>3
    <3>2. Size({}) + 1 <= Size(S)
      <4> HIDE DEF Size
      <4> QED BY <1>4, <3>1
    <3> HIDE DEF Size, Closed
    <3>3. Size({}) \in Nat /\ Size(S) \in Nat
      BY <1>3 DEF Size
    <3>4. Size(S) >= 0 + 1
      BY <3>2, <3>3
    <3> QED BY <2>1, <3>4
  <2> QED BY <2>2, <2>3
<1>7. ASSUME NEW n \in 0..(N - 1), n \in Enough PROVE n + 1 \in Enough
  <2> DEFINE T == f[n]
             R == f[n + 1]
  <2>1. n + 1 \in 1..N /\ n + 1 \in 0..N /\ (n + 1) - 1 = n /\ n \in Nat
    BY <1>1
  <2>2. R = T \cup Successors(graph, T)
    BY <1>2, <2>1 DEF Rounds
  <2>3. S \subseteq T /\ (Closed(T) \/ Size(T) >= n + 1)
    BY <1>7
  <2> HIDE DEF T, R
  <2>4. CASE T \cap D = R \cap D
    <3>1. Closed(R)
      BY <1>5, <2>2, <2>4
    <3> HIDE DEF Closed
    <3> QED BY <2>1, <2>2, <2>3, <3>1 DEF R
  <2>5. CASE T \cap D # R \cap D
    <3>1. ~ Closed(T)
      BY <2>2, <2>5
    <3>2. Size(T) + 1 <= Size(R)
      <4>1. T \subseteq R
        BY <2>2
      <4> HIDE DEF Size
      <4> QED BY <1>4, <2>5, <4>1
    <3>3. Size(T) \in Nat /\ Size(R) \in Nat
      BY <1>3
    <3> HIDE DEF Size, Closed
    <3>4. Size(R) >= (n + 1) + 1
      BY <2>1, <2>3, <3>1, <3>2, <3>3
    <3> QED BY <2>1, <2>2, <2>3, <3>4 DEF R
  <2> QED BY <2>4, <2>5
<1>8. N \in Enough
  <2>1. 0..N \subseteq Enough
    <3> HIDE DEF Enough, N
    <3> QED BY <1>1, <1>6, <1>7, IntervalInduction
  <2> QED BY <1>1, <2>1
<1>9. S \subseteq f[N] /\ Closed(f[N])
  <2>1. Size(f[N]) \in Nat /\ Size(f[N]) <= N
    BY <1>3
  <2> HIDE DEF Size, Closed
  <2> QED BY <1>1, <1>8, <2>1
<1> QED BY <1>2, <1>9 DEF Rounds, Successors

\* The more there is, the more is reached.
LEMMA ReachesMore ==
    ASSUME NEW graph, IsFiniteSet(DOMAIN graph), NEW more, IsFiniteSet(DOMAIN more),
           DOMAIN graph \subseteq DOMAIN more, \A i \in DOMAIN graph : graph[i] \subseteq more[i],
           NEW S, NEW T, S \subseteq T
    PROVE  TransitiveDependencies(graph, S) \subseteq TransitiveDependencies(more, T)
<1> DEFINE R == TransitiveDependencies(more, T)
<1>1. T \subseteq R /\ \A i \in R \cap DOMAIN more : more[i] \subseteq R
  BY ReachedIsClosed
<1> HIDE DEF R
<1>2. \A i \in R \cap DOMAIN graph : graph[i] \subseteq R
  BY <1>1
<1>3. TransitiveDependencies(graph, S) \subseteq R
  BY <1>1, <1>2, ReachedInside
<1> QED BY <1>3 DEF R

-----------------------------------------------------------------------------
(* What inclusion clauses select *)

\* The clauses one by one, in a pass and in the documentation.
Filtered(cs, its, original, after) ==
    /\ after[0] = [selection |-> DOMAIN its, drop |-> {}]
    /\ \A n \in 1..Len(cs) : after[n] = ApplyClause(ItemGraph(its, original), DOMAIN its, after[n - 1], cs[n])
    /\ FilterBy(cs, its, original) = after[Len(cs)]

LEMMA GraphOfItems ==
    ASSUME NEW its, NEW original
    PROVE  /\ DOMAIN ItemGraph(its, original) = DOMAIN its
           /\ \A i \in DOMAIN its : ItemGraph(its, original)[i] = Mentions(its, i) \cup Associated(original, i)
BY DEF ItemGraph

LEMMA ReachedAmong ==
    ASSUME NEW graph, IsFiniteSet(DOMAIN graph), NEW S \in SUBSET DOMAIN graph
    PROVE  TransitiveDependencies(graph, S) \subseteq DOMAIN graph \cup UNION {graph[i] : i \in DOMAIN graph}
<1> DEFINE U == DOMAIN graph \cup UNION {graph[i] : i \in DOMAIN graph}
<1>1. S \subseteq U /\ \A i \in U \cap DOMAIN graph : graph[i] \subseteq U
  OBVIOUS
<1> HIDE DEF U
<1>2. TransitiveDependencies(graph, S) \subseteq U
  BY <1>1, ReachedInside
<1> QED BY <1>2 DEF U

LEMMA FilteredExists ==
    ASSUME NEW its, IsFiniteSet(DOMAIN its), NEW original, NEW cs, Len(cs) \in Nat
    PROVE  \E after : Filtered(cs, its, original, after)
<1> DEFINE N == Len(cs)
           graph == ItemGraph(its, original)
           all == DOMAIN its
           U == DOMAIN graph \cup UNION {graph[i] : i \in DOMAIN graph}
           P == [selection : SUBSET U, drop : SUBSET U]
           none == [selection |-> all, drop |-> {}]
           step == [q \in P \X (1..N) |-> ApplyClause(graph, all, q[1], cs[q[2]])]
           L(f) == [n \in 0..N |-> IF n = 0 THEN none ELSE ApplyClause(graph, all, f[n - 1], cs[n])]
           chosen == CHOOSE f : f = L(f)
<1>1. FilterBy(cs, its, original) = chosen[N]
  BY DEF FilterBy
<1>2. N \in Nat /\ DOMAIN graph = all
  BY GraphOfItems
<1>3. \A state \in P : \A c : ApplyClause(graph, all, state, c) \in P
  <2> SUFFICES ASSUME NEW state \in P, NEW c PROVE ApplyClause(graph, all, state, c) \in P
    OBVIOUS
  <2> DEFINE matched0 == {i \in all : MatchesNamespace(c, i)}
             matched == IF c.kind \in {"+", "+~"} THEN TransitiveDependencies(graph, matched0) ELSE matched0
             drop == IF c.kind \in {"+~", "+:"} THEN BodiesToDrop(state, matched, matched0) ELSE state.drop
             selection == IF c.kind = "-" THEN state.selection \ matched ELSE state.selection \cup matched
  <2>1. TransitiveDependencies(graph, matched0) \subseteq U
    <3>1. matched0 \in SUBSET DOMAIN graph
      BY <1>2
    <3> HIDE DEF graph, matched0
    <3> QED BY <1>2, <3>1, ReachedAmong
  <2>2. matched0 \subseteq U
    BY <1>2
  <2>3. ApplyClause(graph, all, state, c) = [selection |-> selection, drop |-> drop]
    BY DEF ApplyClause
  <2> HIDE DEF matched0, U
  <2>4. matched \subseteq U
    BY <2>1, <2>2
  <2> HIDE DEF matched
  <2>5. drop \subseteq U /\ selection \subseteq U
    BY <2>4 DEF BodiesToDrop
  <2> HIDE DEF drop, selection
  <2> QED BY <2>3, <2>5
<1>4. none \in P
  BY <1>2
<1> HIDE DEF P, none, graph, all, N
<1>5. step \in [P \X (1..N) -> P]
  <2>1. \A q \in P \X (1..N) : q[1] \in P
    OBVIOUS
  <2> QED BY <1>3, <2>1
<1>6. PICK f : IsRecursion(f, P, none, N, step)
  <2> HIDE DEF step
  <2> QED BY <1>2, <1>4, <1>5, RecursionExists
<1>7. f \in [0..N -> P] /\ f[0] = none /\ \A n \in 1..N : f[n] = step[<<f[n - 1], n>>]
  BY <1>6 DEF IsRecursion
<1>8. f = L(f)
  <2>1. ASSUME NEW n \in 0..N PROVE f[n] = L(f)[n]
    <3>1. CASE n = 0
      BY <1>7, <3>1
    <3>2. CASE n # 0
      <4>1. n \in 1..N /\ n - 1 \in 0..N
        BY <1>2, <3>2
      <4>2. <<f[n - 1], n>> \in P \X (1..N)
        BY <1>7, <4>1
      <4>3. f[n] = ApplyClause(graph, all, f[n - 1], cs[n])
        BY <1>7, <4>1, <4>2
      <4> QED BY <3>2, <4>3
    <3> QED BY <3>1, <3>2
  <2> QED BY <1>7, <2>1
<1>9. chosen = L(chosen)
  <2> HIDE DEF L
  <2> QED BY <1>8
<1> HIDE DEF chosen
<1>10. chosen[0] = none /\ \A n \in 1..N : chosen[n] = ApplyClause(graph, all, chosen[n - 1], cs[n])
  <2>1. ASSUME NEW n \in 1..N PROVE chosen[n] = ApplyClause(graph, all, chosen[n - 1], cs[n])
    <3>1. n \in 0..N /\ n # 0
      BY <1>2
    <3> QED BY <1>9, <3>1
  <2>2. 0 \in 0..N
    BY <1>2
  <2> QED BY <1>9, <2>1, <2>2
<1> QED BY <1>1, <1>10 DEF Filtered, none, graph, all, N

ClauseKinds == {"+", "+~", "+!", "+:", "-"}

\* An item as it is imported, with or without its body and its parts.
SameLinks(a, b) ==
    /\ AssociatedUids(a) = AssociatedUids(b)
    /\ \A u : (\E k \in DOMAIN a : a[k] = <<"Uid", u>>) <=> (\E k \in DOMAIN b : b[k] = <<"Uid", u>>)

Reduced(x, y) ==
    /\ x = EngineItem(x.kind, x.attrs, x.uses, x.body, x.subs)
    /\ x.kind = y.kind /\ x.uses = y.uses /\ x.body \in {y.body, Dropped}
    /\ DOMAIN x.subs \subseteq DOMAIN y.subs /\ \A e \in DOMAIN x.subs : x.subs[e] = y.subs[e]
    /\ SameLinks(x.attrs, y.attrs)

LEMMA EngineItemFacts ==
    ASSUME NEW kind, NEW attrs, NEW uses, NEW body, NEW subs
    PROVE  LET x == EngineItem(kind, attrs, uses, body, subs)
           IN  /\ x.kind = kind /\ x.attrs = attrs /\ x.uses = uses /\ x.body = body /\ x.subs = subs
               /\ x = EngineItem(x.kind, x.attrs, x.uses, x.body, x.subs)
BY DEF EngineItem

LEMMA EngineItemsReduced ==
    ASSUME NEW kind, NEW a, NEW b, SameLinks(a, b), NEW uses, NEW small, NEW body, small \in {body, Dropped},
           NEW some, NEW subs, DOMAIN some \subseteq DOMAIN subs, \A e \in DOMAIN some : some[e] = subs[e]
    PROVE  Reduced(EngineItem(kind, a, uses, small, some), EngineItem(kind, b, uses, body, subs))
<1> DEFINE x == EngineItem(kind, a, uses, small, some)
           y == EngineItem(kind, b, uses, body, subs)
<1>1. /\ x.kind = kind /\ x.attrs = a /\ x.uses = uses /\ x.body = small /\ x.subs = some
      /\ x = EngineItem(x.kind, x.attrs, x.uses, x.body, x.subs)
  BY EngineItemFacts
<1>2. y.kind = kind /\ y.attrs = b /\ y.uses = uses /\ y.body = body /\ y.subs = subs
  BY EngineItemFacts
<1> HIDE DEF x, y
<1>3. Reduced(x, y)
  BY <1>1, <1>2 DEF Reduced
<1> QED BY <1>3 DEF x, y

LEMMA ErasedLinks ==
    ASSUME NEW by_hax, NEW attrs, IsSeq(attrs)
    PROVE  SameLinks(WithErased(by_hax, attrs), attrs)
<1> DEFINE e == <<<<"Erased">>>>
           a == e \o attrs
<1>1. WithErased(by_hax, attrs) = attrs \/ WithErased(by_hax, attrs) = a
  BY DEF WithErased
<1>2. SameLinks(attrs, attrs)
  BY DEF SameLinks
<1>3. IsSeq(e) /\ Len(e) = 1 /\ e[1] = <<"Erased">>
  BY OneIsSeq
<1> HIDE DEF e
<1>4. /\ IsSeq(a) /\ Len(a) = 1 + Len(attrs) /\ a[1] = <<"Erased">>
      /\ \A i \in 1..Len(attrs) : a[i + 1] = attrs[i]
  <2>1. /\ IsSeq(e \o attrs) /\ Len(e \o attrs) = Len(e) + Len(attrs)
        /\ \A i \in 1..Len(e) : (e \o attrs)[i] = e[i]
        /\ \A i \in 1..Len(attrs) : (e \o attrs)[Len(e) + i] = attrs[i]
    <3>1. IsSeq(e) /\ IsSeq(attrs)
      BY <1>3
    <3> QED BY <3>1, ConcatIsSeq
  <2>2. \A i \in 1..Len(attrs) : 1 + i = i + 1
    OBVIOUS
  <2>3. 1 \in 1..1
    OBVIOUS
  <2> QED BY <1>3, <2>1, <2>2, <2>3
<1> HIDE DEF a
<1>5. /\ DOMAIN a = 1..Len(a) /\ DOMAIN attrs = 1..Len(attrs) /\ Len(attrs) \in Nat
  BY <1>4, SeqElements
<1>6. /\ \A k \in DOMAIN a : a[k] = <<"Erased">> \/ \E i \in DOMAIN attrs : attrs[i] = a[k]
      /\ \A i \in DOMAIN attrs : \E k \in DOMAIN a : a[k] = attrs[i]
  <2>1. ASSUME NEW k \in DOMAIN a, k # 1 PROVE \E i \in DOMAIN attrs : attrs[i] = a[k]
    <3>1. k - 1 \in 1..Len(attrs) /\ (k - 1) + 1 = k
      BY <1>4, <1>5, <2>1
    <3> QED BY <1>4, <1>5, <3>1
  <2>2. ASSUME NEW i \in DOMAIN attrs PROVE \E k \in DOMAIN a : a[k] = attrs[i]
    <3>1. i + 1 \in 1..Len(a)
      BY <1>4, <1>5
    <3> QED BY <1>4, <1>5, <3>1
  <2> QED BY <1>4, <2>1, <2>2
<1>7. SameLinks(a, attrs)
  <2>1. <<"Erased">>[1] # "AssociatedItem" /\ \A u : <<"Erased">> # <<"Uid", u>>
    OBVIOUS
  <2>2. AssociatedUids(a) = AssociatedUids(attrs)
    <3>1. \A z : z \in AssociatedUids(a) <=> \E k \in DOMAIN a : a[k][1] = "AssociatedItem" /\ z = <<a[k][2], a[k][3]>>
      BY DEF AssociatedUids
    <3>2. \A z : z \in AssociatedUids(attrs) <=>
                    \E k \in DOMAIN attrs : attrs[k][1] = "AssociatedItem" /\ z = <<attrs[k][2], attrs[k][3]>>
      BY DEF AssociatedUids
    <3>3. \A z : z \in AssociatedUids(a) => z \in AssociatedUids(attrs)
      BY <1>6, <2>1, <3>1, <3>2
    <3>4. \A z : z \in AssociatedUids(attrs) => z \in AssociatedUids(a)
      BY <1>6, <3>1, <3>2
    <3> QED BY <3>3, <3>4
  <2> QED BY <1>6, <2>1, <2>2 DEF SameLinks
<1> QED BY <1>1, <1>2, <1>7

Matched(its, c) == {i \in DOMAIN its : MatchesNamespace(c, i)}

\* The identifiers an item mentions outside of its body.
Signature(its, i) ==
    its[i].uses \cup UNION {its[i].subs[e].uses \cup its[i].subs[e].calls : e \in DOMAIN its[i].subs}

LEMMA MentionsFacts ==
    ASSUME NEW its, NEW i
    PROVE  /\ Signature(its, i) \subseteq Mentions(its, i)
           /\ Mentions(its, i) = Signature(its, i) \cup (IF its[i].kind = "fn" THEN its[i].body.calls ELSE {})
BY DEF Mentions, Signature

LEMMA DroppedCallsNothing == Dropped.calls = {}
BY DEF Dropped, Expr

LEMMA ReducedMentions ==
    ASSUME NEW its, NEW whole, NEW i, Reduced(its[i], whole[i])
    PROVE  /\ Signature(its, i) \subseteq Signature(whole, i)
           /\ Mentions(its, i) \subseteq Mentions(whole, i)
<1>1. Signature(its, i) \subseteq Signature(whole, i)
  BY DEF Reduced, Signature
<1>2. its[i].kind = whole[i].kind /\ its[i].body.calls \subseteq whole[i].body.calls
  <2>1. its[i].body \in {whole[i].body, Dropped} /\ its[i].kind = whole[i].kind
    BY DEF Reduced
  <2> QED BY <2>1, DroppedCallsNothing
<1> QED BY <1>1, <1>2, MentionsFacts

LEMMA DropBodiesFacts ==
    ASSUME NEW its, NEW drop, NEW i \in DOMAIN its, NEW x, Reduced(its[i], x)
    PROVE  /\ DOMAIN DropBodies(its, drop) = DOMAIN its
           /\ i \notin drop => DropBodies(its, drop)[i] = its[i]
           /\ Signature(DropBodies(its, drop), i) = Signature(its, i)
           /\ Mentions(DropBodies(its, drop), i) \subseteq Mentions(its, i)
           /\ i \in drop => Mentions(DropBodies(its, drop), i) = Signature(its, i)
<1> DEFINE dropped == DropBodies(its, drop)
           y == its[i]
<1>1. y = EngineItem(y.kind, y.attrs, y.uses, y.body, y.subs)
  BY DEF Reduced
<1>2. dropped[i] = IF i \in drop /\ y.kind = "fn" THEN [y EXCEPT !.body = Dropped] ELSE y
  BY DEF DropBodies
<1>3. [y EXCEPT !.body = Dropped] = EngineItem(y.kind, y.attrs, y.uses, Dropped, y.subs)
  BY <1>1 DEF EngineItem
<1>4. DOMAIN dropped = DOMAIN its
  BY DEF DropBodies
<1>5. CASE i \in drop /\ y.kind = "fn"
  <2>1. dropped[i] = EngineItem(y.kind, y.attrs, y.uses, Dropped, y.subs)
    BY <1>2, <1>3, <1>5
  <2>2. dropped[i].kind = y.kind /\ dropped[i].uses = y.uses /\ dropped[i].body = Dropped /\ dropped[i].subs = y.subs
    BY <2>1, EngineItemFacts
  <2> HIDE DEF dropped
  <2>3. Signature(dropped, i) = Signature(its, i)
    BY <2>2 DEF Signature
  <2> QED BY <1>4, <1>5, <2>2, <2>3, MentionsFacts, DroppedCallsNothing DEF dropped
<1>6. CASE ~ (i \in drop /\ y.kind = "fn")
  <2>1. dropped[i] = y
    BY <1>2, <1>6
  <2> HIDE DEF dropped
  <2>2. Signature(dropped, i) = Signature(its, i) /\ Mentions(dropped, i) = Mentions(its, i)
    BY <2>1 DEF Signature, Mentions
  <2> QED BY <1>4, <1>6, <2>1, <2>2, MentionsFacts DEF dropped
<1> QED BY <1>5, <1>6

LEMMA ReducedAssociated ==
    ASSUME NEW its, NEW whole, DOMAIN its = DOMAIN whole,
           \A i \in DOMAIN its : Reduced(its[i], whole[i]),
           NEW i \in DOMAIN its
    PROVE  Associated(its, i) \subseteq Associated(whole, i)
<1>1. \A j \in DOMAIN its : \A u : HasUid(its, j, u) <=> HasUid(whole, j, u)
  BY DEF Reduced, SameLinks, HasUid
<1>2. \A attrs : UidAssociatedItems(its, attrs) = UidAssociatedItems(whole, attrs)
  BY <1>1 DEF UidAssociatedItems
<1>3. AssociatedUids(its[i].attrs) = AssociatedUids(whole[i].attrs)
  BY DEF Reduced, SameLinks
<1>4. UidAssociatedItems(its, its[i].attrs) = UidAssociatedItems(whole, whole[i].attrs)
  BY <1>2, <1>3 DEF UidAssociatedItems
<1>5. DOMAIN its[i].subs \subseteq DOMAIN whole[i].subs /\ \A e \in DOMAIN its[i].subs : its[i].subs[e] = whole[i].subs[e]
  BY DEF Reduced
<1>6. \A e \in DOMAIN its[i].subs : UidAssociatedItems(its, its[i].subs[e].attrs)
                                       = UidAssociatedItems(whole, whole[i].subs[e].attrs)
  BY <1>2, <1>5
<1>7. UNION {UidAssociatedItems(its, its[i].subs[e].attrs) : e \in DOMAIN its[i].subs}
        \subseteq UNION {UidAssociatedItems(whole, whole[i].subs[e].attrs) : e \in DOMAIN whole[i].subs}
  BY <1>5, <1>6
<1> QED BY <1>4, <1>7 DEF Associated

LEMMA FilteredStep ==
    ASSUME NEW cs, NEW its, NEW original, NEW after, Filtered(cs, its, original, after), NEW n \in 1..Len(cs)
    PROVE  LET c == cs[n]
               matched == Matched(its, c)
               reached == TransitiveDependencies(ItemGraph(its, original), matched)
           IN  /\ c.kind \in {"+", "+~"} => after[n].selection = after[n - 1].selection \cup reached
               /\ c.kind \in {"+!", "+:"} => after[n].selection = after[n - 1].selection \cup matched
               /\ c.kind = "-" => after[n].selection = after[n - 1].selection \ matched
               /\ c.kind = "+~" => after[n].drop = (after[n - 1].drop \cup reached) \ matched
               /\ c.kind \notin {"+~", "+:"} => after[n].drop = after[n - 1].drop
<1> DEFINE c == cs[n]
           before == after[n - 1]
           matched == Matched(its, c)
           graph == ItemGraph(its, original)
           reached == TransitiveDependencies(graph, matched)
           taken == IF c.kind \in {"+", "+~"} THEN reached ELSE matched
           selection == IF c.kind = "-" THEN before.selection \ taken ELSE before.selection \cup taken
           drop == IF c.kind \in {"+~", "+:"} THEN BodiesToDrop(before, taken, matched) ELSE before.drop
<1>1. after[n] = ApplyClause(graph, DOMAIN its, before, c)
  BY DEF Filtered
<1>2. after[n] = [selection |-> selection, drop |-> drop]
  BY <1>1 DEF ApplyClause, Matched
<1>3. after[n].selection = selection /\ after[n].drop = drop
  <2> HIDE DEF selection, drop
  <2> QED BY <1>2
<1> HIDE DEF before, c, graph, matched
<1>4. /\ after[n].selection = IF c.kind = "-" THEN before.selection \ taken ELSE before.selection \cup taken
      /\ after[n].drop = IF c.kind \in {"+~", "+:"} THEN BodiesToDrop(before, taken, matched) ELSE before.drop
  BY <1>3
<1> HIDE DEF reached
<1>5. /\ c.kind \in {"+", "+~"} => after[n].selection = before.selection \cup reached
      /\ c.kind \in {"+!", "+:"} => after[n].selection = before.selection \cup matched
      /\ c.kind = "-" => after[n].selection = before.selection \ matched
      /\ c.kind = "+~" => after[n].drop = (before.drop \cup reached) \ matched
      /\ c.kind \notin {"+~", "+:"} => after[n].drop = before.drop
  BY <1>4 DEF BodiesToDrop
<1> QED BY <1>5 DEF before, c, graph, matched, reached

-----------------------------------------------------------------------------
(* What a decoration makes of a formula *)

LastOf(post, tag) == {q[2] : q \in {q \in ToSet(post) : q[1] = tag}}

Closed(x) == /\ x.body.names \subseteq InputNames(x.inputs) \cup LastOf(x.post, "result")
             /\ x.body.futures \subseteq LastOf(x.post, "future")

\* The last input of a postcondition, up to what PostconditionFits lets pass.
PostFits(item, post) ==
    \/ item.kind = "struct" \/ item.output = <<"alias">>
    \/ IsProof(item) /\ Has(item.attrs, "ensures")
    \/ \E k \in DOMAIN item.inputs : item.inputs[k] = ByMut("self")
    \/ post = LastInput(MutInputs(item.inputs), IF IsProof(item) THEN Unit ELSE item.output)

SpeaksFor(item, role, x) == Has(x.attrs, "NeverErased") /\ (role = "ensures" => PostFits(item, x.post))

\* Among goes by the places: two sequences that agree where they are kept.
LEMMA AmongSame ==
    ASSUME NEW s, NEW t, IsSeq(s), IsSeq(t), Len(s) = Len(t), NEW K, NEW L,
           \A n \in 1..Len(s) : (s[n] \in K <=> t[n] \in L) /\ (s[n] \in K => s[n] = t[n])
    PROVE  Among(s, K) = Among(t, L)
<1> DEFINE N == Len(s)
<1>1. s \in Seq(Range(s)) /\ t \in Seq(Range(t)) /\ N \in Nat
  BY SeqElements DEF IsSeq
<1>2. PICK a : AmongSteps(a, Range(s), s, K)
  BY <1>1, AmongDef
<1>3. PICK b : AmongSteps(b, Range(t), t, L)
  BY <1>1, AmongDef
<1>4. /\ a[0] = <<>> /\ b[0] = <<>>
      /\ \A n \in 1..N : a[n] = IF s[n] \in K THEN Append(a[n - 1], s[n]) ELSE a[n - 1]
      /\ \A n \in 1..N : b[n] = IF t[n] \in L THEN Append(b[n - 1], t[n]) ELSE b[n - 1]
      /\ Among(s, K) = a[N] /\ Among(t, L) = b[N]
  BY <1>2, <1>3 DEF AmongSteps
<1> HIDE DEF N
<1> DEFINE T == {n \in 0..N : a[n] = b[n]}
<1>5. 0 \in T
  BY <1>1, <1>4
<1>6. ASSUME NEW n \in 0..(N - 1), n \in T PROVE n + 1 \in T
  <2>1. n + 1 \in 1..N /\ (n + 1) - 1 = n /\ a[n] = b[n] /\ n + 1 \in 0..N
    BY <1>1, <1>6
  <2>2. (s[n + 1] \in K <=> t[n + 1] \in L) /\ (s[n + 1] \in K => s[n + 1] = t[n + 1])
    BY <2>1 DEF N
  <2>3. a[n + 1] = b[n + 1]
    BY <1>4, <2>1, <2>2
  <2> QED BY <2>1, <2>3
<1> HIDE DEF T
<1>7. 0..N \subseteq T
  BY <1>1, <1>5, <1>6, IntervalInduction
<1>8. N \in T
  BY <1>1, <1>7
<1> QED BY <1>4, <1>8 DEF T

AreInputs(inputs) == IsSeq(inputs) /\ \A k \in 1..Len(inputs) : inputs[k] = [name |-> inputs[k].name, by |-> inputs[k].by]

LEMMA MutFacts ==
    ASSUME NEW inputs, IsSeq(inputs)
    PROVE  /\ IsSeq(MutInputs(inputs))
           /\ \A i \in 1..Len(MutInputs(inputs)) :
                 MutInputs(inputs)[i] \in Range(inputs) /\ MutInputs(inputs)[i].by = "mut"
           /\ \A k \in 1..Len(inputs) : inputs[k].by = "mut" =>
                 \E i \in 1..Len(MutInputs(inputs)) : MutInputs(inputs)[i] = inputs[k]
           /\ (\A k \in 1..Len(inputs) : inputs[k].by # "mut") => MutInputs(inputs) = <<>>
<1> DEFINE K == {x \in ToSet(inputs) : x.by = "mut"}
           m == MutInputs(inputs)
<1>1. m = Among(inputs, K)
  BY DEF MutInputs
<1>2. Range(inputs) = ToSet(inputs) /\ \A x : x \in Range(inputs) <=> \E k \in 1..Len(inputs) : inputs[k] = x
  BY RangeIsToSet, SeqElements
<1> HIDE DEF m
<1>3. /\ IsSeq(m)
      /\ \A i \in 1..Len(m) : m[i] \in Range(inputs) \cap K
      /\ \A x \in Range(inputs) \cap K : \E i \in 1..Len(m) : m[i] = x
  <2> HIDE DEF K
  <2> QED BY <1>1, AmongIsSeq
<1>4. ASSUME \A k \in 1..Len(inputs) : inputs[k].by # "mut" PROVE m = <<>>
  <2>1. K = {}
    BY <1>2, <1>4
  <2>2. ~ \E i \in 1..Len(m) : TRUE
    BY <1>3, <2>1
  <2>3. m # <<>> => Len(m) >= 1 /\ Len(m) \in Nat
    BY <1>3, SeqElements
  <2> QED BY <2>2, <2>3
<1> QED BY <1>2, <1>3, <1>4 DEF m

\* What a postcondition is given last.
LEMMA LastInputFacts ==
    ASSUME NEW muts, IsSeq(muts), NEW output
    PROVE  /\ LastOf(LastInput(muts, output), "future") = {muts[k].name : k \in 1..Len(muts)}
           /\ output # Unit \/ muts = <<>> => "result" \in LastOf(LastInput(muts, output), "result")
<1> DEFINE a == [k \in DOMAIN muts |-> <<"future", muts[k].name>>]
           b == IF output # Unit \/ muts = <<>> THEN <<<<"result", "result">>>> ELSE <<>>
           s == a \o b
           N == Len(muts)
<1>1. DOMAIN muts = 1..N /\ N \in Nat
  BY SeqElements
<1>2. IsSeq(a) /\ Len(a) = N /\ \A k \in 1..N : a[k] = <<"future", muts[k].name>>
  <2>1. a = [k \in 1..N |-> a[k]] /\ \A k \in 1..N : a[k] = <<"future", muts[k].name>>
    BY <1>1
  <2> HIDE DEF a
  <2> QED BY <1>1, <2>1, FunctionIsSeq
<1>3. /\ IsSeq(b) /\ \A k \in 1..Len(b) : b[k] = <<"result", "result">>
      /\ output # Unit \/ muts = <<>> => Len(b) = 1
  <2>1. CASE output # Unit \/ muts = <<>>
    <3>1. b = <<<<"result", "result">>>>
      BY <2>1
    <3> HIDE DEF b
    <3> QED BY <3>1, OneIsSeq
  <2>2. CASE ~ (output # Unit \/ muts = <<>>)
    <3>1. b = <<>>
      BY <2>2
    <3> HIDE DEF b
    <3> QED BY <2>2, <3>1, EmptyIsSeq
  <2> QED BY <2>1, <2>2
<1>4. LastInput(muts, output) = s
  BY DEF LastInput
<1> HIDE DEF a, b, N
<1>5. /\ IsSeq(s) /\ Len(s) = Len(a) + Len(b)
      /\ \A i \in 1..Len(a) : s[i] = a[i]
      /\ \A i \in 1..Len(b) : s[Len(a) + i] = b[i]
      /\ \A i \in 1..Len(s) : \/ i \in 1..Len(a) /\ s[i] = a[i]
                              \/ i - Len(a) \in 1..Len(b) /\ s[i] = b[i - Len(a)]
  BY <1>2, <1>3, ConcatIsSeq
<1>6. Len(b) \in Nat
  BY <1>3, SeqElements
<1> HIDE DEF s
<1>7. /\ \A x : x \in ToSet(s) <=> \E i \in 1..Len(s) : s[i] = x
      /\ \A i \in 1..Len(s) : s[i] \in ToSet(s)
  BY <1>5, SeqElements, RangeIsToSet
<1>8. LastOf(s, "future") = {muts[k].name : k \in 1..N}
  <2>1. ASSUME NEW q \in ToSet(s), q[1] = "future" PROVE q[2] \in {muts[k].name : k \in 1..N}
    <3>1. PICK i \in 1..Len(s) : s[i] = q
      BY <1>7
    <3>2. CASE i \in 1..Len(a) /\ s[i] = a[i]
      BY <1>2, <3>1, <3>2
    <3>3. CASE i - Len(a) \in 1..Len(b) /\ s[i] = b[i - Len(a)]
      BY <1>3, <2>1, <3>1, <3>3
    <3> QED BY <1>5, <3>2, <3>3
  <2>2. ASSUME NEW k \in 1..N PROVE muts[k].name \in LastOf(s, "future")
    <3>1. k \in 1..Len(s) /\ s[k] = <<"future", muts[k].name>>
      BY <1>1, <1>2, <1>5, <1>6
    <3>2. <<"future", muts[k].name>> \in ToSet(s)
      BY <1>7, <3>1
    <3> QED BY <3>2 DEF LastOf
  <2> QED BY <2>1, <2>2 DEF LastOf
<1>9. ASSUME output # Unit \/ muts = <<>> PROVE "result" \in LastOf(s, "result")
  <2>1. Len(b) = 1 /\ 1 \in 1..Len(b)
    BY <1>3, <1>9
  <2>2. N + 1 \in 1..Len(s) /\ s[N + 1] = <<"result", "result">>
    BY <1>1, <1>2, <1>3, <1>5, <2>1
  <2>3. <<"result", "result">> \in ToSet(s)
    BY <1>7, <2>2
  <2> QED BY <2>3 DEF LastOf
<1> QED BY <1>4, <1>8, <1>9 DEF N

\* RewriteSelf renames the receiver and takes its reference away.
LEMMA RewriteFacts ==
    ASSUME NEW fn, NEW phi, AreInputs(fn.inputs)
    PROVE  LET r == RewriteSelf(fn, phi)
               ins == fn.inputs
           IN  /\ AreInputs(r.inputs) /\ Len(r.inputs) = Len(ins)
               /\ \A k \in 1..Len(ins) : r.inputs[k] = IF ins[k].name = "self" THEN ByValue("self_") ELSE ins[k]
               /\ r.phi.names = {SelfName(x) : x \in phi.names}
               /\ r.phi.futures = {SelfName(x) : x \in phi.futures}
<1> DEFINE r == RewriteSelf(fn, phi).inputs
           ins == fn.inputs
           N == Len(ins)
<1>1. /\ N \in Nat /\ DOMAIN ins = 1..N
      /\ \A k \in 1..N : ins[k] = [name |-> ins[k].name, by |-> ins[k].by]
  BY SeqElements DEF AreInputs
<1>2. /\ r = [k \in 1..N |-> r[k]]
      /\ \A k \in 1..N : r[k] = IF ins[k].name = "self" THEN ByValue("self_") ELSE ins[k]
  BY <1>1 DEF RewriteSelf
<1>3. /\ RewriteSelf(fn, phi).phi.names = {SelfName(x) : x \in phi.names}
      /\ RewriteSelf(fn, phi).phi.futures = {SelfName(x) : x \in phi.futures}
  BY DEF RewriteSelf, Expr
<1> HIDE DEF r, N, ins
<1>4. IsSeq(r) /\ Len(r) = N
  BY <1>1, <1>2, FunctionIsSeq
<1>5. \A k \in 1..N : r[k] = [name |-> r[k].name, by |-> r[k].by]
  <2> TAKE k \in 1..N
  <2>1. CASE ins[k].name = "self"
    BY <1>2, <2>1 DEF ByValue
  <2>2. CASE ins[k].name # "self"
    BY <1>1, <1>2, <2>2
  <2> QED BY <2>1, <2>2
<1> QED BY <1>2, <1>3, <1>4, <1>5 DEF r, N, ins, AreInputs

\* The inputs of the function a decoration becomes keep their names.
LEMMA NamesKept ==
    ASSUME NEW ins, AreInputs(ins), NEW k \in 1..Len(ins)
    PROVE  /\ ins[k].name \in InputNames(UnmutReferences(ins))
           /\ ins[k].name \in InputNames(AddUnitIfNeeded(UnmutReferences(ins)))
<1> DEFINE v == UnmutReferences(ins)
           N == Len(ins)
<1>1. N \in Nat /\ DOMAIN ins = 1..N
  BY SeqElements DEF AreInputs
<1>2. /\ v = [i \in 1..N |-> v[i]]
      /\ v[k] = IF ins[k].by = "mut" THEN ByRef(ins[k].name) ELSE ins[k]
  BY <1>1 DEF UnmutReferences
<1>3. v[k].name = ins[k].name
  BY <1>2 DEF ByRef
<1> HIDE DEF v, N
<1>4. IsSeq(v) /\ Len(v) = N
  BY <1>1, <1>2, FunctionIsSeq
<1>5. v[k] \in ToSet(v)
  BY <1>4, SeqElements, RangeIsToSet DEF N
<1>6. ins[k].name \in InputNames(v)
  BY <1>3, <1>5 DEF InputNames
<1>7. v # <<>>
  <2>1. Len(v) # 0
    BY <1>1, <1>4 DEF N
  <2>2. Len(<<>>) = 0
    BY EmptyIsSeq
  <2> QED BY <2>1, <2>2
<1>8. AddUnitIfNeeded(v) = v
  BY <1>7 DEF AddUnitIfNeeded
<1> QED BY <1>6, <1>8 DEF v

\* The future that a postcondition may name.
InScope(role, fn, phi) ==
    /\ AreInputs(fn.inputs) /\ role \in DecorationKinds
    /\ \A x \in phi.names : \/ x \in InputNames(fn.inputs)
                            \/ /\ role = "ensures" /\ x = "result"
                               /\ fn.output # Unit \/ MutInputs(fn.inputs) = <<>>
    /\ role = "requires" => phi.futures = {}

LEMMA DecorationFnParts ==
    ASSUME NEW u, NEW role, NEW fn, NEW rewritten
    PROVE  LET made == DecorationFn(u, role, fn, rewritten)
               inputs == UnmutReferences(rewritten.inputs)
           IN  /\ made.body = rewritten.phi
               /\ made.inputs = IF role = "ensures" THEN AddUnitIfNeeded(inputs) ELSE inputs
               /\ made.post = IF role = "ensures" THEN LastInput(MutInputs(rewritten.inputs), fn.output) ELSE <<>>
BY DEF DecorationFn, Function

\* A decoration becomes a function of its own.
LEMMA DecorationIsClosed ==
    ASSUME NEW u, NEW role, NEW fn, NEW phi, InScope(role, fn, phi), ~ BadFuture(role, RewriteSelf(fn, phi))
    PROVE  Closed(DecorationFn(u, role, fn, RewriteSelf(fn, phi)))
<1> DEFINE rw == RewriteSelf(fn, phi)
           ins == fn.inputs
           r == rw.inputs
           made == DecorationFn(u, role, fn, rw)
           muts == MutInputs(r)
<1>1. /\ AreInputs(r) /\ Len(r) = Len(ins) /\ AreInputs(ins)
      /\ \A k \in 1..Len(ins) : r[k] = IF ins[k].name = "self" THEN ByValue("self_") ELSE ins[k]
      /\ rw.phi.names = {SelfName(x) : x \in phi.names}
      /\ rw.phi.futures = {SelfName(x) : x \in phi.futures}
  BY RewriteFacts DEF InScope
<1>2. /\ made.body = rw.phi
      /\ made.inputs = IF role = "ensures" THEN AddUnitIfNeeded(UnmutReferences(r)) ELSE UnmutReferences(r)
      /\ made.post = IF role = "ensures" THEN LastInput(muts, fn.output) ELSE <<>>
  BY DecorationFnParts
<1>3. ~ (role = "ensures" /\ ~ (rw.phi.futures \subseteq {x.name : x \in ToSet(muts)}))
  BY DEF BadFuture
<1>4. /\ \A x \in phi.names : \/ x \in InputNames(ins)
                              \/ /\ role = "ensures" /\ x = "result"
                                 /\ fn.output # Unit \/ MutInputs(ins) = <<>>
      /\ role = "requires" => phi.futures = {}
      /\ role \in {"requires", "ensures"}
  BY DEF InScope, DecorationKinds
<1> HIDE DEF made, rw, r, ins
<1>5. IsSeq(muts) /\ IsSeq(ins)
  BY <1>1, MutFacts DEF AreInputs
<1>6. MutInputs(ins) = <<>> => muts = <<>>
  <2>1. SUFFICES ASSUME MutInputs(ins) = <<>> PROVE \A k \in 1..Len(r) : r[k].by # "mut"
    <3>1. IsSeq(r)
      BY <1>1 DEF AreInputs
    <3>2. (\A k \in 1..Len(r) : r[k].by # "mut") => MutInputs(r) = <<>>
      BY <3>1, MutFacts
    <3> QED BY <3>2
  <2> TAKE k \in 1..Len(r)
  <2>2. SUFFICES ASSUME r[k].by = "mut" PROVE FALSE
    OBVIOUS
  <2>3. k \in 1..Len(ins) /\ r[k] = ins[k]
    BY <1>1, <2>2 DEF ByValue
  <2>4. \E i \in 1..Len(MutInputs(ins)) : MutInputs(ins)[i] = ins[k]
    BY <1>5, <2>2, <2>3, MutFacts
  <2>5. Len(MutInputs(ins)) = 0
    BY <2>1, EmptyIsSeq
  <2> QED BY <2>4, <2>5
<1>7. \A x \in InputNames(ins) : SelfName(x) \in InputNames(made.inputs)
  <2> TAKE x \in InputNames(ins)
  <2>1. PICK k \in 1..Len(ins) : ins[k].name = x
    BY <1>5, SeqElements, RangeIsToSet DEF InputNames
  <2>2. r[k].name = SelfName(x)
    BY <1>1, <2>1 DEF SelfName, ByValue
  <2>3. r[k].name \in InputNames(UnmutReferences(r)) /\ r[k].name \in InputNames(AddUnitIfNeeded(UnmutReferences(r)))
    BY <1>1, NamesKept
  <2> QED BY <1>2, <2>2, <2>3
<1>8. made.body.names \subseteq InputNames(made.inputs) \cup LastOf(made.post, "result")
  <2>1. SUFFICES ASSUME NEW x \in phi.names
                 PROVE  SelfName(x) \in InputNames(made.inputs) \cup LastOf(made.post, "result")
    BY <1>1, <1>2
  <2>2. CASE x \in InputNames(ins)
    BY <1>7, <2>2
  <2>3. CASE x \notin InputNames(ins)
    <3>1. role = "ensures" /\ x = "result" /\ (fn.output # Unit \/ muts = <<>>)
      BY <1>4, <1>6, <2>3
    <3>2. "result" \in LastOf(LastInput(muts, fn.output), "result")
      BY <1>5, <3>1, LastInputFacts
    <3>3. made.post = LastInput(muts, fn.output)
      BY <1>2, <3>1
    <3>4. SelfName(x) = "result"
      BY <3>1 DEF SelfName
    <3> QED BY <3>2, <3>3, <3>4
  <2> QED BY <2>2, <2>3
<1>9. made.body.futures \subseteq LastOf(made.post, "future")
  <2>1. CASE role = "requires"
    BY <1>1, <1>2, <1>4, <2>1
  <2>2. CASE role = "ensures"
    <3>1. made.post = LastInput(muts, fn.output) /\ made.body.futures = rw.phi.futures
      BY <1>2, <2>2
    <3>2. rw.phi.futures \subseteq {x.name : x \in ToSet(muts)}
      BY <1>3, <2>2
    <3>3. \A x \in ToSet(muts) : \E k \in 1..Len(muts) : muts[k] = x
      BY <1>5, SeqElements, RangeIsToSet
    <3>4. LastOf(LastInput(muts, fn.output), "future") = {muts[k].name : k \in 1..Len(muts)}
      BY <1>5, LastInputFacts
    <3> QED BY <3>1, <3>2, <3>3, <3>4
  <2> QED BY <1>4, <2>1, <2>2
<1> QED BY <1>8, <1>9 DEF Closed, made, rw

\* Without a receiver `&mut self`, rewriting leaves the `&mut` inputs alone.
LEMMA SameMuts ==
    ASSUME NEW fn, NEW phi, AreInputs(fn.inputs), \A k \in DOMAIN fn.inputs : fn.inputs[k] # ByMut("self")
    PROVE  MutInputs(RewriteSelf(fn, phi).inputs) = MutInputs(fn.inputs)
<1> DEFINE ins == fn.inputs
           r == RewriteSelf(fn, phi).inputs
           K == {x \in ToSet(r) : x.by = "mut"}
           L == {x \in ToSet(ins) : x.by = "mut"}
<1>1. /\ IsSeq(r) /\ IsSeq(ins) /\ Len(r) = Len(ins)
      /\ \A k \in 1..Len(ins) : r[k] = IF ins[k].name = "self" THEN ByValue("self_") ELSE ins[k]
      /\ \A k \in 1..Len(ins) : ins[k] = [name |-> ins[k].name, by |-> ins[k].by]
  <2>1. /\ AreInputs(r) /\ Len(r) = Len(ins) /\ AreInputs(ins)
        /\ \A k \in 1..Len(ins) : r[k] = IF ins[k].name = "self" THEN ByValue("self_") ELSE ins[k]
    BY RewriteFacts
  <2> HIDE DEF r, ins
  <2> QED BY <2>1 DEF AreInputs
<1>2. \A k \in DOMAIN ins : ins[k] # ByMut("self")
  OBVIOUS
<1> HIDE DEF r, ins
<1>3. /\ DOMAIN ins = 1..Len(ins)
      /\ \A k \in 1..Len(ins) : r[k] \in ToSet(r) /\ ins[k] \in ToSet(ins)
  BY <1>1, SeqElements, RangeIsToSet
<1>4. ASSUME NEW k \in 1..Len(r)
      PROVE  (r[k] \in K <=> ins[k] \in L) /\ (r[k] \in K => r[k] = ins[k])
  <2>1. CASE ins[k].name = "self"
    <3>1. ins[k].by # "mut"
      BY <1>1, <1>2, <1>3, <2>1 DEF ByMut
    <3>2. r[k].by # "mut"
      BY <1>1, <2>1 DEF ByValue
    <3> QED BY <3>1, <3>2
  <2>2. CASE ins[k].name # "self"
    BY <1>1, <1>3, <2>2
  <2> QED BY <2>1, <2>2
<1>5. Among(r, K) = Among(ins, L)
  <2> HIDE DEF K, L
  <2> QED BY <1>1, <1>4, AmongSame
<1> QED BY <1>5 DEF MutInputs, r, ins

\* A postcondition is read with the output its function has at the time.
LEMMA DecorationPost ==
    ASSUME NEW u, NEW item, NEW fn, NEW phi, AreInputs(fn.inputs), item.inputs = fn.inputs,
           \/ fn.output = IF IsProof(item) THEN Unit ELSE item.output
           \/ IsProof(item) /\ Has(item.attrs, "ensures")
    PROVE  PostFits(item, DecorationFn(u, "ensures", fn, RewriteSelf(fn, phi)).post)
<1>1. DecorationFn(u, "ensures", fn, RewriteSelf(fn, phi)).post = LastInput(MutInputs(RewriteSelf(fn, phi).inputs), fn.output)
  BY DecorationFnParts
<1>2. CASE \E k \in DOMAIN item.inputs : item.inputs[k] = ByMut("self")
  BY <1>2 DEF PostFits
<1>3. CASE ~ \E k \in DOMAIN item.inputs : item.inputs[k] = ByMut("self")
  <2>1. MutInputs(RewriteSelf(fn, phi).inputs) = MutInputs(item.inputs)
    BY <1>3, SameMuts
  <2> QED BY <1>1, <2>1 DEF PostFits
<1> QED BY <1>2, <1>3

LEMMA NotErased ==
    ASSUME NEW u, NEW role, NEW fn, NEW phi
    PROVE  Has(DecorationFn(u, role, fn, RewriteSelf(fn, phi)).attrs, "NeverErased")
<1> DEFINE a == DecorationAttrs(u)
<1>1. DecorationFn(u, role, fn, RewriteSelf(fn, phi)).attrs = a
  BY DEF DecorationFn, Function, DecorationAttrs
<1>2. IsSeq(a) /\ 3 \in 1..Len(a) /\ a[3][1] = "NeverErased"
  BY DecorationAttrsFacts
<1> HIDE DEF a
<1>3. 3 \in DOMAIN a
  BY <1>2, SeqElements
<1> QED BY <1>1, <1>2, <1>3 DEF Has

LEMMA DecorationAnswers ==
    ASSUME NEW u, NEW role, NEW item, NEW fn, NEW phi, AreInputs(fn.inputs), item.inputs = fn.inputs,
           role = "ensures" => \/ fn.output = IF IsProof(item) THEN Unit ELSE item.output
                               \/ IsProof(item) /\ Has(item.attrs, "ensures")
    PROVE  SpeaksFor(item, role, DecorationFn(u, role, fn, RewriteSelf(fn, phi)))
BY DecorationPost, NotErased DEF SpeaksFor

\* What the macro takes last, by the syntax, and what the engine gives back, by
\* the types.
LEMMA GivenBack ==
    ASSUME NEW muts, IsSeq(muts), NEW output
    PROVE  LET futures == [k \in DOMAIN muts |-> <<"future", muts[k].name>>]
           IN  LastInput(muts, output) = IF output = Unit /\ futures # <<>> THEN futures
                                         ELSE Append(futures, <<"result", "result">>)
<1> DEFINE futures == [k \in DOMAIN muts |-> <<"future", muts[k].name>>]
           result == <<"result", "result">>
           S == Range(futures) \cup {result}
<1>1. Len(muts) \in Nat /\ DOMAIN muts = 1..Len(muts)
  BY SeqElements
<1>2. futures \in [1..Len(muts) -> S]
  BY <1>1 DEF Range
<1>3. futures \in Seq(S)
  BY <1>1, <1>2
<1>4. Len(futures) = Len(muts)
  BY <1>1, <1>2, <1>3
<1>5. futures = <<>> <=> muts = <<>>
  <2>1. muts = <<>> <=> Len(muts) = 0
    BY EmptySeq DEF IsSeq
  <2>2. futures = <<>> <=> Len(futures) = 0
    BY <1>3, EmptySeq
  <2> QED BY <1>4, <2>1, <2>2
<1>6. LastInput(muts, output) = futures \o (IF output # Unit \/ muts = <<>> THEN <<result>> ELSE <<>>)
  BY DEF LastInput
<1> HIDE DEF futures
<1>7. futures \o <<result>> = Append(futures, result)
  BY <1>3
<1>8. futures \o <<>> = futures
  BY <1>3
<1>9. LastInput(muts, output) = IF output = Unit /\ futures # <<>> THEN futures
                                ELSE Append(futures, result)
  <2>1. CASE output # Unit \/ muts = <<>>
    BY <1>5, <1>6, <1>7, <2>1
  <2>2. CASE ~ (output # Unit \/ muts = <<>>)
    BY <1>5, <1>6, <1>8, <2>2
  <2> QED BY <2>1, <2>2
<1> QED BY <1>9 DEF futures

LEMMA ConcatRange ==
    ASSUME NEW s, NEW t, IsSeq(s), IsSeq(t)
    PROVE  Range(s \o t) = Range(s) \cup Range(t)
<1>1. /\ IsSeq(s \o t) /\ Len(s \o t) = Len(s) + Len(t)
      /\ \A i \in 1..Len(s) : (s \o t)[i] = s[i]
      /\ \A i \in 1..Len(t) : (s \o t)[Len(s) + i] = t[i]
      /\ \A i \in 1..Len(s \o t) : \/ i \in 1..Len(s) /\ (s \o t)[i] = s[i]
                                   \/ i - Len(s) \in 1..Len(t) /\ (s \o t)[i] = t[i - Len(s)]
  BY ConcatIsSeq
<1>2. Len(s) \in Nat /\ Len(t) \in Nat
  BY SeqElements
<1>3. \A i \in 1..Len(s) : i \in 1..Len(s \o t)
  BY <1>1, <1>2
<1>4. \A i \in 1..Len(t) : Len(s) + i \in 1..Len(s \o t)
  BY <1>1, <1>2
<1>5. ASSUME NEW x \in Range(s \o t) PROVE x \in Range(s) \cup Range(t)
  <2>1. PICK i \in 1..Len(s \o t) : (s \o t)[i] = x
    BY <1>1, SeqElements
  <2> QED BY <1>1, <2>1, SeqElements
<1>6. ASSUME NEW x \in Range(s) PROVE x \in Range(s \o t)
  <2>1. PICK i \in 1..Len(s) : s[i] = x
    BY SeqElements
  <2> QED BY <1>1, <1>3, <2>1, SeqElements
<1>7. ASSUME NEW x \in Range(t) PROVE x \in Range(s \o t)
  <2>1. PICK i \in 1..Len(t) : t[i] = x
    BY SeqElements
  <2> QED BY <1>1, <1>4, <2>1, SeqElements
<1> QED BY <1>5, <1>6, <1>7

\* Everything is in Flat, and nothing else.
LEMMA FlatRange ==
    ASSUME NEW ss, AreSeqs(ss)
    PROVE  Range(Flat(ss)) = Elements(ss)
<1> DEFINE N == Len(ss)
<1>1. PICK joined : FlatSteps(joined, ss)
  BY FlatDef
<1>2. N \in Nat
  BY SeqElements DEF AreSeqs
<1>3. /\ Flat(ss) = joined[N]
      /\ \A n \in 1..N : joined[n] = joined[n - 1] \o ss[n]
      /\ \A n \in 0..N : IsSeq(joined[n])
      /\ \A n \in 1..N : IsSeq(ss[n])
  BY <1>1, SeqIsSeq DEF FlatSteps, AreSeqs
<1> HIDE DEF N
<1>4. \A n \in 1..N : Range(joined[n]) = Range(joined[n - 1]) \cup Range(ss[n])
  <2> TAKE n \in 1..N
  <2>1. n \in 0..N /\ n - 1 \in 0..N
    BY <1>2
  <2>2. IsSeq(joined[n - 1]) /\ IsSeq(ss[n])
    BY <2>1, <1>3
  <2> QED BY <1>3, <2>2, ConcatRange
<1> DEFINE T == {n \in 0..N : \A k \in 1..n : Range(ss[k]) \subseteq Range(joined[n])}
<1>5. 0 \in T
  BY <1>2
<1>6. ASSUME NEW n \in 0..(N - 1), n \in T PROVE n + 1 \in T
  <2>1. n + 1 \in 1..N /\ n + 1 \in 0..N /\ (n + 1) - 1 = n
    BY <1>2
  <2>2. Range(joined[n + 1]) = Range(joined[n]) \cup Range(ss[n + 1])
    BY <2>1, <1>4
  <2>3. \A k \in 1..(n + 1) : k \in 1..n \/ k = n + 1
    BY <2>1
  <2> QED BY <1>6, <2>1, <2>2, <2>3
<1> HIDE DEF T
<1>7. 0..N \subseteq T
  BY <1>2, <1>5, <1>6, IntervalInduction
<1>8. N \in T
  BY <1>2, <1>7
<1>9. Elements(ss) \subseteq Range(Flat(ss))
  BY <1>3, <1>8 DEF Elements, T, N
<1>10. Range(Flat(ss)) \subseteq Elements(ss)
  <2>1. IsSeq(Flat(ss)) /\ \A i \in 1..Len(Flat(ss)) : Flat(ss)[i] \in Elements(ss)
    BY FlatIsSeq
  <2> QED BY <2>1, SeqElements
<1> QED BY <1>9, <1>10

LEMMA AmongIsRange ==
    ASSUME NEW s, IsSeq(s), NEW K
    PROVE  IsSeq(Among(s, K)) /\ Range(Among(s, K)) = Range(s) \cap K
<1>1. s \in Seq(Range(s))
  BY DEF IsSeq
<1>2. Range(Among(s, K)) = Range(s) \cap K
  BY <1>1, AmongRange
<1> QED BY <1>2, AmongIsSeq

-----------------------------------------------------------------------------
(* What attributes associate *)

\* The links of an item, by what its attributes are.
LEMMA LinksFacts ==
    ASSUME NEW attrs, IsSeq(attrs)
    PROVE  /\ \A z : z \in AssociatedUids(attrs) <=>
                 \E a \in Range(attrs) : a[1] = "AssociatedItem" /\ z = <<a[2], a[3]>>
           /\ \A u : (\E k \in DOMAIN attrs : attrs[k] = <<"Uid", u>>) <=> <<"Uid", u>> \in Range(attrs)
           /\ \A tag : Has(attrs, tag) <=> \E a \in Range(attrs) : a[1] = tag
<1>1. /\ DOMAIN attrs = 1..Len(attrs)
      /\ \A x : x \in Range(attrs) <=> \E n \in 1..Len(attrs) : attrs[n] = x
  BY SeqElements
<1>2. \A z : z \in AssociatedUids(attrs) <=>
                \E k \in DOMAIN attrs : attrs[k][1] = "AssociatedItem" /\ z = <<attrs[k][2], attrs[k][3]>>
  BY DEF AssociatedUids
<1>3. \A z : z \in AssociatedUids(attrs) <=>
                \E a \in Range(attrs) : a[1] = "AssociatedItem" /\ z = <<a[2], a[3]>>
  BY <1>1, <1>2
<1> QED BY <1>1, <1>3 DEF Has

LEMMA RangeLinks ==
    ASSUME NEW s, NEW t, IsSeq(s), IsSeq(t),
           \A a : a[1] \in {"Uid", "AssociatedItem"} => (a \in Range(s) <=> a \in Range(t))
    PROVE  SameLinks(s, t)
<1>1. \A z : z \in AssociatedUids(s) <=> z \in AssociatedUids(t)
  BY LinksFacts
<1>2. \A u : <<"Uid", u>> \in Range(s) <=> <<"Uid", u>> \in Range(t)
  <2> TAKE u
  <2> DEFINE a == <<"Uid", u>>
  <2>1. a[1] = "Uid"
    OBVIOUS
  <2> HIDE DEF a
  <2>2. a \in Range(s) <=> a \in Range(t)
    BY <2>1
  <2> QED BY <2>2 DEF a
<1>3. AssociatedUids(s) = AssociatedUids(t)
  BY <1>1
<1> QED BY <1>2, <1>3, LinksFacts DEF SameLinks

LEMMA FewElements ==
    ASSUME NEW s, IsSeq(s)
    PROVE  /\ Len(s) = 1 => Range(s) = {s[1]}
           /\ Len(s) = 2 => Range(s) = {s[1], s[2]}
           /\ Len(s) = 3 => Range(s) = {s[1], s[2], s[3]}
<1>1. \A x : x \in Range(s) <=> \E n \in 1..Len(s) : s[n] = x
  BY SeqElements
<1>2. /\ \A n : n \in 1..1 <=> n = 1
      /\ \A n : n \in 1..2 <=> n = 1 \/ n = 2
      /\ \A n : n \in 1..3 <=> n = 1 \/ n = 2 \/ n = 3
  OBVIOUS
<1>3. CASE Len(s) = 1
  <2>1. \A x : x \in Range(s) <=> s[1] = x
    BY <1>1, <1>2, <1>3
  <2> QED BY <1>3, <2>1
<1>4. CASE Len(s) = 2
  <2>1. \A x : x \in Range(s) <=> s[1] = x \/ s[2] = x
    BY <1>1, <1>2, <1>4
  <2> QED BY <1>4, <2>1
<1>5. CASE Len(s) = 3
  <2>1. \A x : x \in Range(s) <=> s[1] = x \/ s[2] = x \/ s[3] = x
    BY <1>1, <1>2, <1>5
  <2> QED BY <1>5, <2>1
<1> QED BY <1>3, <1>4, <1>5

\* A pass that selects an item selects what it brings, unless a clause takes the
\* item alone.
LEMMA PassBrings ==
    ASSUME NEW cs, NEW its, NEW original, NEW after, Filtered(cs, its, original, after), Len(cs) \in Nat,
           IsFiniteSet(DOMAIN its), NEW d \in DOMAIN its, NEW A \in SUBSET DOMAIN its,
           A \subseteq Associated(original, d), \A c \in A : c \in Nat \X CompanionKinds,
           \A n \in 1..Len(cs) : /\ cs[n].kind \in ClauseKinds
                                 /\ cs[n].names = Everything \/ \A i \in cs[n].names : i \notin Nat \X CompanionKinds
                                 /\ ~ (cs[n].kind \in {"+!", "+:"} /\ MatchesNamespace(cs[n], d)),
           d \in after[Len(cs)].selection
    PROVE  A \subseteq after[Len(cs)].selection
<1> DEFINE N == Len(cs)
           graph == ItemGraph(its, original)
           T == {n \in 0..N : d \in after[n].selection => A \subseteq after[n].selection}
<1>1. DOMAIN graph = DOMAIN its /\ A \subseteq graph[d]
  BY GraphOfItems
<1>2. 0 \in T
  <2>1. after[0] = [selection |-> DOMAIN its, drop |-> {}]
    BY DEF Filtered
  <2> QED BY <2>1
<1>3. ASSUME NEW n \in 0..(N - 1), n \in T PROVE n + 1 \in T
  <2> DEFINE m == n + 1
             c == cs[m]
             matched == Matched(its, c)
             reached == TransitiveDependencies(graph, matched)
             before == after[n].selection
             now == after[m].selection
  <2>1. m \in 1..N /\ m - 1 = n /\ m \in 0..N
    OBVIOUS
  <2>2. /\ c.kind \in {"+", "+~"} => now = before \cup reached
        /\ c.kind \in {"+!", "+:"} => now = before \cup matched
        /\ c.kind = "-" => now = before \ matched
    BY <2>1, FilteredStep
  <2>3. /\ c.kind \in ClauseKinds
        /\ c.names = Everything \/ \A i \in c.names : i \notin Nat \X CompanionKinds
        /\ ~ (c.kind \in {"+!", "+:"} /\ MatchesNamespace(c, d))
    BY <2>1
  <2>4. d \in reached => A \subseteq reached
    <3>1. \A i \in reached \cap DOMAIN graph : graph[i] \subseteq reached
      <4> HIDE DEF matched, graph
      <4> QED BY <1>1, ReachedIsClosed
    <3> QED BY <1>1, <3>1
  <2>5. \A i : i \in matched <=> i \in DOMAIN its /\ MatchesNamespace(c, i)
    BY DEF Matched
  <2>6. d \in before => A \subseteq before
    BY <1>3
  <2> HIDE DEF matched, reached, before, now, c, m
  <2>7. CASE c.kind \in {"+", "+~"}
    BY <2>1, <2>2, <2>4, <2>6, <2>7 DEF now, m
  <2>8. CASE c.kind \in {"+!", "+:"}
    BY <2>1, <2>2, <2>3, <2>5, <2>6, <2>8 DEF now, m
  <2>9. CASE c.kind = "-"
    <3>1. d \notin matched => A \cap matched = {}
      BY <2>3, <2>5 DEF MatchesNamespace
    <3> QED BY <2>1, <2>2, <2>6, <2>9, <3>1 DEF now, m
  <2> QED BY <2>3, <2>7, <2>8, <2>9 DEF ClauseKinds
<1> HIDE DEF T
<1>4. 0..N \subseteq T
  BY <1>2, <1>3, IntervalInduction
<1>5. N \in 0..N
  OBVIOUS
<1> QED BY <1>4, <1>5 DEF T

LEMMA FewerLinks ==
    ASSUME NEW s, NEW t, IsSeq(s), IsSeq(t), Range(s) \subseteq Range(t)
    PROVE  AssociatedUids(s) \subseteq AssociatedUids(t)
<1> SUFFICES ASSUME NEW z \in AssociatedUids(s) PROVE z \in AssociatedUids(t)
  OBVIOUS
<1>1. PICK a \in Range(s) : a[1] = "AssociatedItem" /\ z = <<a[2], a[3]>>
  BY LinksFacts
<1>2. a \in Range(t)
  BY <1>1
<1> QED BY <1>1, <1>2, LinksFacts

\* What FirstOf looks at: nothing, or one attribute of the role.
OfRole(attrs, role) == {a \in Range(attrs) : a[1] = "AssociatedItem" /\ a[2] = role}

Seen(its, attrs, role, seen) ==
    /\ IsSeq(seen) /\ Range(seen) \subseteq OfRole(attrs, role) /\ FirstOf(its, attrs, role) = Found(its, seen, role)
    /\ \/ FirstOf(its, attrs, role) = {"could not find item"}
       \/ OfRole(attrs, role) = {}
       \/ \E h \in OfRole(attrs, role) : Range(seen) = {h}

LEMMA FirstFacts ==
    ASSUME NEW its, NEW attrs, IsSeq(attrs), NEW role
    PROVE  \E seen : Seen(its, attrs, role, seen)
<1> DEFINE K == OfRole(attrs, role)
           L == {a \in ToSet(attrs) : a[1] = "AssociatedItem" /\ a[2] = role}
           of_role == Among(attrs, L)
           first == FirstOf(its, attrs, role)
<1>1. L = K /\ K \subseteq Range(attrs)
  BY RangeIsToSet DEF OfRole
<1>2. IsSeq(of_role) /\ Range(of_role) = K
  <2> HIDE DEF L
  <2>1. IsSeq(of_role) /\ Range(of_role) = Range(attrs) \cap L
    BY AmongIsRange
  <2> QED BY <1>1, <2>1
<1>3. first = IF Found(its, of_role, role) = {"could not find item"} \/ of_role = <<>>
              THEN Found(its, of_role, role) ELSE Found(its, <<Head(of_role)>>, role)
  BY DEF FirstOf
<1> HIDE DEF of_role, first, L
<1>4. CASE Found(its, of_role, role) = {"could not find item"} \/ of_role = <<>>
  <2>1. first = Found(its, of_role, role) /\ (first = {"could not find item"} \/ K = {})
    BY <1>2, <1>3, <1>4, RangeEmpty
  <2>2. Seen(its, attrs, role, of_role)
    BY <1>2, <2>1 DEF first, Seen
  <2> QED BY <2>2
<1>5. CASE ~ (Found(its, of_role, role) = {"could not find item"} \/ of_role = <<>>)
  <2> DEFINE h == Head(of_role)
             one == <<h>>
  <2>1. first = Found(its, one, role)
    BY <1>3, <1>5
  <2>2. h \in K
    <3>1. of_role \in Seq(Range(of_role)) /\ of_role # <<>>
      BY <1>2, <1>5 DEF IsSeq
    <3>2. h \in Range(of_role)
      BY <3>1, HeadTail
    <3> QED BY <1>2, <3>2
  <2>3. IsSeq(one) /\ Range(one) = {h}
    BY OneIsSeq, FewElements
  <2> HIDE DEF one, h
  <2>4. Seen(its, attrs, role, one)
    BY <2>1, <2>2, <2>3 DEF first, Seen
  <2> QED BY <2>4
<1> QED BY <1>4, <1>5

\* The macro of a refinement type, or the mark it leaves.
Newtyped(attrs) == Has(attrs, "refinement_type") \/ Has(attrs, "NewtypeAsRefinement")

\* A macro that runs takes no mark away.
LEMMA NewtypedKept ==
    ASSUME NEW s, IsSeq(s), NEW k \in 1..Len(s), NEW P, IsSeq(P), s[k][1] \in MacroTags, Newtyped(s),
           s[k][1] = "refinement_type" => Has(P, "NewtypeAsRefinement")
    PROVE  Newtyped(P \o RemoveAt(s, k))
<1> DEFINE r == RemoveAt(s, k)
           new == P \o r
<1>1. /\ IsSeq(r) /\ Len(r) = Len(s) - 1
      /\ \A i \in 1..(Len(s) - 1) : r[i] = s[Skip(k, i)]
  BY RemoveAtFacts DEF Skip
<1>2. Len(s) \in Nat /\ DOMAIN s = 1..Len(s) /\ DOMAIN P = 1..Len(P) /\ Len(P) \in Nat
  BY SeqElements
<1>3. \A l \in 1..Len(s) : l # k => \E i \in 1..(Len(s) - 1) : Skip(k, i) = l
  BY <1>2, SkipFacts
<1> HIDE DEF r
<1>4. /\ IsSeq(new) /\ Len(new) = Len(P) + Len(r)
      /\ \A i \in 1..Len(P) : new[i] = P[i]
      /\ \A i \in 1..Len(r) : new[Len(P) + i] = r[i]
  <2>1. IsSeq(P) /\ IsSeq(r)
    BY <1>1
  <2> QED BY ONLY <2>1, ConcatIsSeq
<1>5. DOMAIN new = 1..(Len(P) + Len(r)) /\ Len(r) \in Nat
  BY <1>1, <1>4, SeqElements
<1> HIDE DEF new
<1>6. CASE s[k][1] = "refinement_type"
  <2>1. PICK i \in 1..Len(P) : P[i][1] = "NewtypeAsRefinement"
    BY <1>2, <1>6 DEF Has
  <2>2. i \in DOMAIN new
    BY <1>2, <1>5
  <2> QED BY <1>4, <2>1, <2>2 DEF Newtyped, Has, new, r
<1>7. CASE s[k][1] # "refinement_type"
  <2>1. PICK l \in 1..Len(s) : s[l][1] \in {"refinement_type", "NewtypeAsRefinement"}
    BY <1>2 DEF Newtyped, Has
  <2>2. "NewtypeAsRefinement" \notin MacroTags
    BY DEF MacroTags, Markers, DecorationKinds
  <2>3. PICK i \in 1..(Len(s) - 1) : Skip(k, i) = l
    BY <1>3, <1>7, <2>1, <2>2
  <2>4. Len(P) + i \in DOMAIN new /\ new[Len(P) + i] = s[l]
    <3>1. i \in 1..Len(r) /\ r[i] = s[l]
      BY <1>1, <1>2, <2>3
    <3> QED BY <1>2, <1>4, <1>5, <3>1
  <2> HIDE DEF MacroTags
  <2> QED BY <2>1, <2>4 DEF Newtyped, Has, new, r
<1> QED BY <1>6, <1>7
=============================================================================
