------------------------------ MODULE RuleProofs ------------------------------
(***************************************************************************)
(* Proofs about the conditional reasoner (ConditionalReasoning, as         *)
(* Sequential asks it), for every value of the constants: what it searches *)
(* for agrees with the model of its rules.  The lemmas on induction,       *)
(* iteration and saturation come first; SequentialProofs cites them too.   *)
(***************************************************************************)
EXTENDS Sequential, SequenceTheorems, FiniteSetTheorems, WellFoundedInduction, TLAPS

-----------------------------------------------------------------------------
(* Induction, in the form of sets, and functions defined by recursion *)

\* Induction on the natural numbers, for a set of them.
LEMMA Induction ==
  ASSUME NEW S \in SUBSET Nat, 0 \in S, \A n \in S : n + 1 \in S
  PROVE  Nat \subseteq S
<1> DEFINE T == Nat \ S
<1>1. SUFFICES ASSUME T # {} PROVE FALSE
  OBVIOUS
<1>2. PICK m \in T : \A n \in T : ~(<<n, m>> \in OpToRel(<, Nat))
  <2> HIDE DEF T
  <2>1. T \subseteq Nat BY DEF T
  <2>2. QED BY <1>1, <2>1, NatLessThanWellFounded, WFMin
<1>3. \A n \in T : ~(n < m)
  BY <1>2 DEF OpToRel
<1>4. m # 0 /\ m - 1 \in Nat /\ m - 1 \notin T
  BY <1>3
<1>5. m \in S
  <2>1. m - 1 \in S BY <1>4
  <2>2. (m - 1) + 1 \in S BY <2>1
  <2>3. QED BY <2>2
<1>6. QED BY <1>5

\* f takes x from step to step by g.
Iterates(f, x, g) == f[0] = x /\ \A n \in Nat : f[n + 1] = g[<<n, f[n]>>]

\* There is such a function: it is built for ever longer beginnings.
LEMMA IterationExists ==
  ASSUME NEW X, NEW x \in X, NEW g \in [Nat \X X -> X]
  PROVE  \E f \in [Nat -> X] : Iterates(f, x, g)
<1> DEFINE Good(n, f) == /\ f \in [0..n -> X] /\ f[0] = x
                         /\ \A m \in 0..n : m # 0 => f[m] = g[<<m - 1, f[m - 1]>>]
           N == {n \in Nat : \E f : Good(n, f)}
<1>1. 0 \in N
  <2>1. Good(0, [m \in 0..0 |-> x])
    OBVIOUS
  <2> HIDE DEF Good
  <2>2. QED BY <2>1
<1>2. ASSUME NEW n \in N PROVE n + 1 \in N
  <2>1. PICK f : Good(n, f)
    OBVIOUS
  <2> DEFINE h == [m \in 0..(n + 1) |-> IF m = n + 1 THEN g[<<n, f[n]>>] ELSE f[m]]
  <2>2. h \in [0..(n + 1) -> X]
    <3>1. <<n, f[n]>> \in Nat \X X
      BY <2>1
    <3>2. \A m \in 0..(n + 1) : m # n + 1 => m \in 0..n
      OBVIOUS
    <3>3. QED BY <2>1, <3>1, <3>2
  <2>3. h[0] = x
    BY <2>1
  <2>4. ASSUME NEW m \in 0..(n + 1), m # 0 PROVE h[m] = g[<<m - 1, h[m - 1]>>]
    <3>1. m - 1 \in 0..n /\ m - 1 # n + 1 /\ m - 1 \in 0..(n + 1) /\ (m # n + 1 => m \in 0..n)
      BY <2>4
    <3>2. h[m - 1] = f[m - 1]
      BY <3>1
    <3>3. CASE m = n + 1
      <4>1. h[m] = g[<<n, f[n]>>] /\ m - 1 = n
        BY <3>3
      <4> HIDE DEF h
      <4>2. QED BY <3>2, <4>1
    <3>4. CASE m # n + 1
      BY <2>1, <2>4, <3>1, <3>2, <3>4
    <3>5. QED BY <3>3, <3>4
  <2>5. Good(n + 1, h)
    <3> HIDE DEF h
    <3>1. QED BY <2>2, <2>3, <2>4
  <2> HIDE DEF Good
  <2>6. QED BY <2>5
<1>3. Nat \subseteq N
  <2> HIDE DEF N
  <2>1. N \in SUBSET Nat BY DEF N
  <2>2. QED BY <1>1, <1>2, <2>1, Induction
<1>4. ASSUME NEW n \in Nat, NEW k \in Nat, NEW f1, NEW f2, Good(n, f1), Good(n + k, f2)
      PROVE  f1[n] = f2[n]
  <2> DEFINE M == {m \in Nat : m <= n => f1[m] = f2[m]}
  <2>1. 0 \in M
    BY <1>4
  <2>2. ASSUME NEW m \in M PROVE m + 1 \in M
    <3>1. SUFFICES ASSUME m + 1 <= n PROVE f1[m + 1] = f2[m + 1]
      OBVIOUS
    <3>2. m + 1 \in 0..n /\ m + 1 \in 0..(n + k) /\ m + 1 # 0 /\ (m + 1) - 1 = m /\ m <= n
      BY <3>1
    <3>3. f1[m] = f2[m]
      BY <3>2
    <3>4. f1[m + 1] = g[<<m, f1[m]>>] /\ f2[m + 1] = g[<<m, f2[m]>>]
      BY <1>4, <3>2
    <3>5. QED BY <3>3, <3>4
  <2>3. Nat \subseteq M
    <3> HIDE DEF M
    <3>1. M \in SUBSET Nat BY DEF M
    <3>2. QED BY <2>1, <2>2, <3>1, Induction
  <2>4. QED BY <2>3
<1> DEFINE app(n) == CHOOSE f : Good(n, f)
           h == [n \in Nat |-> app(n)[n]]
<1>5. \A n \in Nat : Good(n, app(n))
  <2> HIDE DEF Good
  <2>1. QED BY <1>3
<1>6. h \in [Nat -> X]
  <2>1. \A n \in Nat : app(n)[n] \in X
    <3> HIDE DEF app
    <3>1. QED BY <1>5
  <2> HIDE DEF app
  <2>2. QED BY <2>1
<1>7. h[0] = x
  <2> HIDE DEF app
  <2>1. QED BY <1>5
<1>8. ASSUME NEW n \in Nat PROVE h[n + 1] = g[<<n, h[n]>>]
  <2> DEFINE f == app(n + 1)
  <2>1. Good(n + 1, f) /\ Good(n, app(n))
    <3>1. n + 1 \in Nat
      OBVIOUS
    <3> HIDE DEF Good, app
    <3>2. QED BY <1>5, <3>1
  <2>2. h[n + 1] = f[n + 1] /\ h[n] = app(n)[n]
    OBVIOUS
  <2> HIDE DEF f, app, h
  <2>3. app(n)[n] = f[n]
    <3>1. 1 \in Nat
      OBVIOUS
    <3> HIDE DEF Good
    <3>2. QED BY <1>4, <2>1, <3>1
  <2>4. f[n + 1] = g[<<n, f[n]>>]
    <3>1. n + 1 \in 0..(n + 1) /\ n + 1 # 0 /\ (n + 1) - 1 = n
      OBVIOUS
    <3>2. QED BY <2>1, <3>1
  <2>5. QED BY <2>2, <2>3, <2>4
<1>9. Iterates(h, x, g)
  <2> HIDE DEF h
  <2>1. QED BY <1>7, <1>8 DEF Iterates
<1>10. QED
  <2> HIDE DEF h
  <2>1. QED BY <1>6, <1>9

\* Induction on a finite set: what holds of a subset whenever it holds of the
\* subset without any one of its elements holds of every subset.
LEMMA SubsetInduction ==
  ASSUME NEW S, IsFiniteSet(S), NEW Q \in SUBSET SUBSET S,
         \A T \in SUBSET S : (\A x \in T : T \ {x} \in Q) => T \in Q
  PROVE  Q = SUBSET S
<1> DEFINE N == {n \in Nat : \A T \in SUBSET S : Cardinality(T) = n => T \in Q}
<1>1. \A T \in SUBSET S : IsFiniteSet(T) /\ Cardinality(T) \in Nat
  BY FS_Subset, FS_CardinalityType
<1>2. 0 \in N
  BY <1>1, FS_EmptySet
<1>3. ASSUME NEW n \in N PROVE n + 1 \in N
  <2>1. SUFFICES ASSUME NEW T \in SUBSET S, Cardinality(T) = n + 1, NEW x \in T PROVE T \ {x} \in Q
    OBVIOUS
  <2>2. IsFiniteSet(T) /\ Cardinality(T) - 1 = n
    BY <1>1, <2>1
  <2>3. Cardinality(T \ {x}) = n
    BY <2>2, FS_RemoveElement
  <2>4. QED BY <2>3
<1>4. Nat \subseteq N
  <2> HIDE DEF N
  <2>1. N \in SUBSET Nat BY DEF N
  <2>2. QED BY <1>2, <1>3, <2>1, Induction
<1>5. QED BY <1>1, <1>4

Monotone(f, U) == \A S, T \in SUBSET U : S \subseteq T => f[S] \subseteq f[T]

\* c adds to a set what f makes of it, until that is nothing new.
Saturates(c, f, U) == c = [T \in SUBSET U |-> IF f[T] \subseteq T THEN T ELSE c[T \cup f[T]]]

\* c takes a set to the least one around it that f does not leave.
Least(C, T, f, U) ==
  /\ C \in SUBSET U /\ T \subseteq C /\ f[C] \subseteq C
  /\ \A W \in SUBSET U : T \subseteq W /\ f[W] \subseteq W => C \subseteq W

\* Saturating ends, for a finite set, with the least closed one.
LEMMA SaturationIsLeast ==
  ASSUME NEW U, IsFiniteSet(U), NEW f \in [SUBSET U -> SUBSET U], Monotone(f, U),
         NEW c, Saturates(c, f, U)
  PROVE  \A T \in SUBSET U : Least(c[T], T, f, U)
<1> DEFINE Q == {D \in SUBSET U : \A E \in SUBSET D : Least(c[U \ E], U \ E, f, U)}
<1>1. ASSUME NEW D \in SUBSET U, \A x \in D : D \ {x} \in Q
      PROVE  D \in Q
  <2>1. ASSUME NEW E \in SUBSET D, E # D PROVE Least(c[U \ E], U \ E, f, U)
    <3>1. PICK x \in D : x \notin E
      BY <2>1
    <3>2. E \in SUBSET (D \ {x}) /\ D \ {x} \in Q
      BY <1>1, <3>1
    <3>3. QED BY <3>2
  <2> DEFINE T == U \ D
             B == T \cup f[T]
  <2>2. T \in SUBSET U /\ f[T] \in SUBSET U /\ B \in SUBSET U
    OBVIOUS
  <2>3. c[T] = IF f[T] \subseteq T THEN T ELSE c[B]
    BY <2>2 DEF Saturates
  <2>4. Least(c[T], T, f, U)
    <3>1. CASE f[T] \subseteq T
      <4>1. c[T] = T
        BY <2>3, <3>1
      <4> HIDE DEF T
      <4>2. QED BY <2>2, <3>1, <4>1 DEF Least
    <3>2. CASE ~(f[T] \subseteq T)
      <4>1. U \ B \in SUBSET D /\ U \ B # D /\ U \ (U \ B) = B
        BY <2>2, <3>2
      <4>2. Least(c[B], B, f, U)
        <5> HIDE DEF B
        <5>1. Least(c[U \ (U \ B)], U \ (U \ B), f, U)
          BY <2>1, <4>1
        <5>2. QED BY <4>1, <5>1
      <4>3. c[T] = c[B]
        BY <2>3, <3>2
      <4>4. \A W \in SUBSET U : T \subseteq W /\ f[W] \subseteq W => B \subseteq W
        BY <2>2 DEF Monotone
      <4>5. T \subseteq B
        OBVIOUS
      <4> HIDE DEF B, T
      <4>6. QED BY <4>2, <4>3, <4>4, <4>5 DEF Least
    <3>3. QED BY <3>1, <3>2
  <2>5. \A E \in SUBSET D : Least(c[U \ E], U \ E, f, U)
    BY <2>1, <2>4
  <2>6. QED BY <2>5
<1>2. Q = SUBSET U
  <2> HIDE DEF Q
  <2>1. Q \in SUBSET SUBSET U BY DEF Q
  <2>2. QED BY <1>1, <2>1, SubsetInduction
<1>3. ASSUME NEW T \in SUBSET U PROVE Least(c[T], T, f, U)
  <2>1. U \in Q
    BY <1>2
  <2>2. U \ T \in SUBSET U /\ U \ (U \ T) = T
    OBVIOUS
  <2>3. Least(c[U \ (U \ T)], U \ (U \ T), f, U)
    BY <2>1, <2>2
  <2>4. QED BY <2>2, <2>3
<1>4. QED BY <1>3

\* There is a function that saturates: the one to the least closed sets.
LEMMA SaturationExists ==
  ASSUME NEW U, NEW f \in [SUBSET U -> SUBSET U], Monotone(f, U)
  PROVE  \E c : Saturates(c, f, U)
<1> DEFINE least(T) == {x \in U : \A W \in SUBSET U : T \subseteq W /\ f[W] \subseteq W => x \in W}
           c == [T \in SUBSET U |-> least(T)]
<1>1. ASSUME NEW T \in SUBSET U
      PROVE  least(T) = IF f[T] \subseteq T THEN T ELSE c[T \cup f[T]]
  <2>1. CASE f[T] \subseteq T
    BY <2>1
  <2>2. CASE ~(f[T] \subseteq T)
    <3> DEFINE B == T \cup f[T]
    <3>1. B \in SUBSET U /\ c[B] = least(B)
      OBVIOUS
    <3>2. \A W \in SUBSET U : T \subseteq W /\ f[W] \subseteq W <=> B \subseteq W /\ f[W] \subseteq W
      <4>1. ASSUME NEW W \in SUBSET U, T \subseteq W, f[W] \subseteq W PROVE f[T] \subseteq W
        BY <4>1 DEF Monotone
      <4>2. QED BY <4>1
    <3>3. least(T) = least(B)
      BY <3>2
    <3>4. QED BY <2>2, <3>1, <3>3
  <2>3. QED BY <2>1, <2>2
<1>2. c = [T \in SUBSET U |-> IF f[T] \subseteq T THEN T ELSE c[T \cup f[T]]]
  <2> HIDE DEF least
  <2>1. QED BY <1>1
<1>3. Saturates(c, f, U)
  <2> HIDE DEF c
  <2>1. QED BY <1>2 DEF Saturates
<1>4. QED
  <2> HIDE DEF c
  <2>1. QED BY <1>3

\* What a definition by saturation denotes.
LEMMA Saturation ==
  ASSUME NEW U, IsFiniteSet(U), NEW f \in [SUBSET U -> SUBSET U], Monotone(f, U),
         NEW c, c = CHOOSE d : Saturates(d, f, U)
  PROVE  \A T \in SUBSET U : Least(c[T], T, f, U)
<1>1. Saturates(c, f, U)
  BY SaturationExists
<1>2. QED BY <1>1, SaturationIsLeast

-----------------------------------------------------------------------------
(* Finite sets *)

\* A function of a finite domain has finitely many values.
LEMMA ImageIsFinite ==
  ASSUME NEW f, IsFiniteSet(DOMAIN f)
  PROVE  IsFiniteSet({f[x] : x \in DOMAIN f})
<1> DEFINE T == {f[x] : x \in DOMAIN f}
           h == [x \in DOMAIN f |-> f[x]]
<1>1. h \in Surjection(DOMAIN f, T)
  BY DEF Surjection
<1> HIDE DEF T, h
<1>2. IsFiniteSet(T)
  BY <1>1, FS_Surjection
<1>3. QED BY <1>2 DEF T

\* Triples over finite sets are finitely many.
LEMMA TriplesAreFinite ==
  ASSUME NEW S, IsFiniteSet(S), NEW T, IsFiniteSet(T) PROVE IsFiniteSet(S \X T \X S)
<1> DEFINE g == [x \in (S \X T) \X S |-> <<x[1][1], x[1][2], x[2]>>]
<1>1. {g[x] : x \in DOMAIN g} = S \X T \X S
  <2>1. ASSUME NEW t \in S \X T \X S PROVE \E x \in DOMAIN g : g[x] = t
    <3> DEFINE x == <<<<t[1], t[2]>>, t[3]>>
    <3>1. x \in (S \X T) \X S /\ <<x[1][1], x[1][2], x[2]>> = t
      OBVIOUS
    <3> HIDE DEF x
    <3>2. QED BY <3>1
  <2>2. \A x \in DOMAIN g : g[x] \in S \X T \X S
    OBVIOUS
  <2> HIDE DEF g
  <2>3. QED BY <2>1, <2>2
<1>2. DOMAIN g = (S \X T) \X S /\ IsFiniteSet((S \X T) \X S)
  BY FS_Product
<1> HIDE DEF g
<1>3. QED BY <1>1, <1>2, ImageIsFinite

-----------------------------------------------------------------------------
(* Loops *)

\* A loop goes through the values that its step makes one of the other.
Goes(X, n, x, step, value) ==
  \E f \in [0..n -> X] : /\ f[0] = x /\ \A i \in 1..n : f[i] = step[<<i, f[i - 1]>>]
                         /\ f[n] = value

\* A loop goes through the values its step makes.
LEMMA LoopIterates ==
  ASSUME NEW X, NEW n \in Nat, NEW x \in X, NEW step \in [(1..n) \X X -> X]
  PROVE  Goes(X, n, x, step, Rules!Loop(step, n, x))
<1> DEFINE g == [y \in Nat \X X |-> IF y[1] + 1 \in 1..n THEN step[<<y[1] + 1, y[2]>>] ELSE x]
           IsAfter(a) == a = [i \in 0..n |-> IF i = 0 THEN x ELSE step[<<i, a[i - 1]>>]]
<1>1. g \in [Nat \X X -> X]
  <2>1. \A y \in Nat \X X : y[1] \in Nat /\ y[2] \in X
    OBVIOUS
  <2>2. \A y \in Nat \X X : y[1] + 1 \in 1..n => step[<<y[1] + 1, y[2]>>] \in X
    <3>1. \A i \in 1..n, z \in X : step[<<i, z>>] \in X
      OBVIOUS
    <3>2. QED BY <2>1, <3>1
  <2>3. QED BY <2>2
<1>2. PICK h \in [Nat -> X] : Iterates(h, x, g)
  <2> HIDE DEF g
  <2>1. QED BY <1>1, IterationExists
<1> DEFINE f == [i \in 0..n |-> h[i]]
<1>3. f \in [0..n -> X] /\ f[0] = x
  BY <1>2 DEF Iterates
<1>4. ASSUME NEW i \in 1..n PROVE f[i] = step[<<i, f[i - 1]>>]
  <2>1. i - 1 \in Nat /\ (i - 1) + 1 = i /\ i - 1 \in 0..n /\ i \in 0..n
    OBVIOUS
  <2>2. h[i] = g[<<i - 1, h[i - 1]>>]
    BY <1>2, <2>1 DEF Iterates
  <2>3. h[i - 1] \in X
    BY <2>1
  <2>4. g[<<i - 1, h[i - 1]>>] = step[<<i, h[i - 1]>>]
    BY <2>1, <2>3
  <2>5. QED BY <2>1, <2>2, <2>4
<1>5. IsAfter(f)
  <2>1. f = [i \in 0..n |-> f[i]]
    OBVIOUS
  <2> HIDE DEF f
  <2>2. \A i \in 0..n : i # 0 => i \in 1..n
    OBVIOUS
  <2>3. \A i \in 0..n : f[i] = IF i = 0 THEN x ELSE step[<<i, f[i - 1]>>]
    BY <1>3, <1>4, <2>2
  <2>4. QED BY <2>1, <2>3
<1> DEFINE a == CHOOSE b : IsAfter(b)
<1>6. IsAfter(a)
  <2> HIDE DEF IsAfter, f
  <2>1. QED BY <1>5
<1>7. Rules!Loop(step, n, x) = a[n]
  BY DEF Rules!Loop
<1> HIDE DEF a
<1>8. a[0] = x /\ \A i \in 1..n : a[i] = step[<<i, a[i - 1]>>]
  <2>1. \A i \in 0..n : a[i] = IF i = 0 THEN x ELSE step[<<i, a[i - 1]>>]
    BY <1>6
  <2>2. 0 \in 0..n /\ \A i \in 1..n : i \in 0..n /\ i # 0
    OBVIOUS
  <2>3. QED BY <2>1, <2>2
<1>9. a[n] = f[n]
  <2> HIDE DEF IsAfter, f
  <2> DEFINE M == {m \in Nat : m <= n => a[m] = f[m]}
  <2>1. 0 \in M
    BY <1>3, <1>8
  <2>2. ASSUME NEW m \in M PROVE m + 1 \in M
    <3>1. SUFFICES ASSUME m + 1 <= n PROVE a[m + 1] = f[m + 1]
      OBVIOUS
    <3>2. m + 1 \in 1..n /\ (m + 1) - 1 = m /\ m <= n
      BY <3>1
    <3>3. a[m] = f[m]
      BY <3>2
    <3>4. QED BY <1>4, <1>8, <3>2, <3>3
  <2>3. Nat \subseteq M
    <3> HIDE DEF M
    <3>1. M \in SUBSET Nat BY DEF M
    <3>2. QED BY <2>1, <2>2, <3>1, Induction
  <2>4. QED BY <2>3
<1> HIDE DEF f
<1>10. f[n] = Rules!Loop(step, n, x)
  BY <1>7, <1>9
<1>11. QED BY <1>3, <1>4, <1>10, Zenon DEF Goes

\* What its step keeps, a loop keeps.
Keeps(X, n, step, Inv) ==
  \A i \in 1..n, y \in X : <<i - 1, y>> \in Inv => <<i, step[<<i, y>>]>> \in Inv

\* What holds before the first round and is kept by each holds at the end.
LEMMA LoopKeeps ==
  ASSUME NEW X, NEW n \in Nat, NEW x \in X, NEW step \in [(1..n) \X X -> X],
         NEW Inv, <<0, x>> \in Inv, Keeps(X, n, step, Inv)
  PROVE  Rules!Loop(step, n, x) \in X /\ <<n, Rules!Loop(step, n, x)>> \in Inv
<1>1. PICK f \in [0..n -> X] : /\ f[0] = x /\ \A i \in 1..n : f[i] = step[<<i, f[i - 1]>>]
                               /\ f[n] = Rules!Loop(step, n, x)
  <2>1. Goes(X, n, x, step, Rules!Loop(step, n, x))
    BY LoopIterates
  <2>2. QED BY <2>1, Zenon DEF Goes
<1> DEFINE M == {m \in Nat : m <= n => <<m, f[m]>> \in Inv}
<1>2. 0 \in M
  BY <1>1
<1>3. ASSUME NEW m \in M PROVE m + 1 \in M
  <2>1. SUFFICES ASSUME m + 1 <= n PROVE <<m + 1, f[m + 1]>> \in Inv
    OBVIOUS
  <2>2. m + 1 \in 1..n /\ (m + 1) - 1 = m /\ m <= n /\ m \in 0..n
    BY <2>1
  <2>3. f[m] \in X /\ <<m, f[m]>> \in Inv
    BY <2>2
  <2>4. f[m + 1] = step[<<m + 1, f[m]>>]
    BY <1>1, <2>2
  <2>5. QED BY <2>2, <2>3, <2>4 DEF Keeps
<1>4. Nat \subseteq M
  <2> HIDE DEF M
  <2>1. M \in SUBSET Nat BY DEF M
  <2>2. QED BY <1>2, <1>3, <2>1, Induction
<1>5. QED BY <1>1, <1>4

\* A step is a function to where its values are.
LEMMA StepIsTyped ==
  ASSUME NEW X, NEW n, NEW step, step = [z \in (1..n) \X X |-> step[z]],
         \A i \in 1..n, x \in X : step[<<i, x>>] \in X
  PROVE  step \in [(1..n) \X X -> X]
<1>1. \A z \in (1..n) \X X : z = <<z[1], z[2]>> /\ z[1] \in 1..n /\ z[2] \in X
  OBVIOUS
<1>2. \A z \in (1..n) \X X : step[z] \in X
  BY <1>1
<1>3. QED BY <1>2

\* A loop ends with a value of the type its rounds keep.
LEMMA LoopIsTyped ==
  ASSUME NEW X, NEW n \in Nat, NEW x \in X, NEW step \in [(1..n) \X X -> X]
  PROVE  Rules!Loop(step, n, x) \in X
<1>1. Goes(X, n, x, step, Rules!Loop(step, n, x))
  BY LoopIterates
<1>2. PICK f \in [0..n -> X] : f[n] = Rules!Loop(step, n, x)
  BY <1>1, Zenon DEF Goes
<1>3. QED BY <1>2

-----------------------------------------------------------------------------
(* Terms, patterns and bindings *)

\* b binds what b0 binds, alike.
Extends(b, b0) == DOMAIN b0 \subseteq DOMAIN b /\ \A x \in DOMAIN b0 : b[x] = b0[x]

\* A binding gives names to some of the variables.
LEMMA BindingsAre ==
  ASSUME NEW b
  PROVE  b \in Rules!Bindings <=> DOMAIN b \subseteq RuleVariables /\ b \in [DOMAIN b -> RuleEntities]
  BY DEF Rules!Bindings

\* A term is a name or a variable, and never both.
LEMMA TermsAre ==
  ASSUME NEW t \in Rules!Terms
  PROVE  \/ t[1] = "ent" /\ t[1] # "var" /\ t[2] \in RuleEntities
         \/ t[1] = "var" /\ t[1] # "ent" /\ t[2] \in RuleVariables
  BY DEF Rules!Terms

\* The parts of a pattern, and its variables.
LEMMA PatternsAre ==
  ASSUME NEW p \in Rules!Patterns
  PROVE  /\ p.s \in Rules!Terms /\ p.o \in Rules!Terms /\ p.p \in RulePredicates /\ p.neg \in BOOLEAN
         /\ Rules!VarsOf(p) \subseteq RuleVariables
         /\ \A x : x \in Rules!VarsOf(p) <=> (p.s[1] = "var" /\ x = p.s[2]) \/ (p.o[1] = "var" /\ x = p.o[2])
<1>1. p.s \in Rules!Terms /\ p.o \in Rules!Terms /\ p.p \in RulePredicates /\ p.neg \in BOOLEAN
  BY DEF Rules!Patterns
<1>2. \A x : x \in Rules!VarsOf(p) <=> (p.s[1] = "var" /\ x = p.s[2]) \/ (p.o[1] = "var" /\ x = p.o[2])
  BY DEF Rules!VarsOf
<1>3. Rules!VarsOf(p) \subseteq RuleVariables
  BY <1>1, <1>2, TermsAre
<1>4. QED BY <1>1, <1>2, <1>3

\* A pattern is ground when its variables are bound.
LEMMA GroundIs ==
  ASSUME NEW p \in Rules!Patterns, NEW bound
  PROVE  /\ Rules!FreeEnds(p, bound) \in 0..2
         /\ Rules!FreeEnds(p, bound) = 0 <=> Rules!VarsOf(p) \subseteq bound
         /\ Rules!FreeEnds(p, bound) = 0 <=> Rules!IsBound(p.s, bound) /\ Rules!IsBound(p.o, bound)
<1>1. Rules!FreeEnds(p, bound) \in 0..2
      /\ (Rules!FreeEnds(p, bound) = 0 <=> Rules!IsBound(p.s, bound) /\ Rules!IsBound(p.o, bound))
  BY DEF Rules!FreeEnds
<1>2. \A t \in Rules!Terms : Rules!IsBound(t, bound) <=> (t[1] = "var" => t[2] \in bound)
  BY TermsAre DEF Rules!IsBound
<1>3. Rules!VarsOf(p) \subseteq bound <=> Rules!IsBound(p.s, bound) /\ Rules!IsBound(p.o, bound)
  BY <1>2, PatternsAre
<1>4. QED BY <1>1, <1>3

\* A ground pattern is a claim, which does not change when more is bound.
LEMMA GroundStays ==
  ASSUME NEW p \in Rules!Patterns, NEW b0 \in Rules!Bindings, Rules!VarsOf(p) \subseteq DOMAIN b0
  PROVE  /\ Rules!IsGround(p, b0) /\ Rules!Ground(p, b0) \in Rules!GroundClaims /\ Rules!Ground(p, b0)[2] = p.p
         /\ \A b : Extends(b, b0) => Rules!Ground(p, b) = Rules!Ground(p, b0)
<1>1. ASSUME NEW t \in Rules!Terms, Rules!IsBound(t, DOMAIN b0)
      PROVE  /\ Rules!Resolve(t, b0) \in RuleEntities
             /\ \A b : Extends(b, b0) => Rules!Resolve(t, b) = Rules!Resolve(t, b0)
  BY <1>1, TermsAre, BindingsAre DEF Rules!IsBound, Rules!Resolve, Extends
<1>2. Rules!IsBound(p.s, DOMAIN b0) /\ Rules!IsBound(p.o, DOMAIN b0)
  BY GroundIs
<1>3. QED BY <1>1, <1>2, PatternsAre DEF Rules!IsGround, Rules!Ground, Rules!GroundClaims

\* Binding one more variable.
LEMMA BindHolds ==
  ASSUME NEW b0 \in Rules!Bindings, NEW x \in RuleVariables, NEW e \in RuleEntities
  PROVE  /\ Rules!Bind(b0, x, e) \in Rules!Bindings
         /\ DOMAIN Rules!Bind(b0, x, e) = DOMAIN b0 \cup {x}
         /\ x \notin DOMAIN b0 => Extends(Rules!Bind(b0, x, e), b0)
  BY BindingsAre DEF Rules!Bind, Extends

\* A variable that is bound has the value it was bound to.
LEMMA BoundIs == \A b, x, e : Rules!Bind(b, x, e)[x] = e
  BY DEF Rules!Bind

\* What extends a binding and has one value more extends it with that value.
LEMMA BindIsLeast ==
  ASSUME NEW b0, NEW x, NEW e, NEW b, Extends(b, b0), x \in DOMAIN b, b[x] = e
  PROVE  Extends(b, Rules!Bind(b0, x, e))
  BY DEF Rules!Bind, Extends

\* The end of a pattern that is free when one is.
FreeEnd(p, b) == IF Rules!IsBound(p.s, DOMAIN b) THEN p.o ELSE p.s

\* A pattern with one free end has a variable there that is not bound.
LEMMA FreeEndIs ==
  ASSUME NEW p \in Rules!Patterns, NEW b \in Rules!Bindings, Rules!FreeEnds(p, DOMAIN b) = 1
  PROVE  /\ FreeEnd(p, b) \in Rules!Terms /\ FreeEnd(p, b)[1] = "var"
         /\ FreeEnd(p, b)[2] \in RuleVariables /\ FreeEnd(p, b)[2] \notin DOMAIN b
         /\ DOMAIN b \cup {FreeEnd(p, b)[2]} = DOMAIN b \cup Rules!VarsOf(p)
         /\ IF Rules!IsBound(p.s, DOMAIN b) THEN ~Rules!IsBound(p.o, DOMAIN b) /\ FreeEnd(p, b) = p.o
            ELSE Rules!IsBound(p.o, DOMAIN b) /\ FreeEnd(p, b) = p.s
<1>1. IF Rules!IsBound(p.s, DOMAIN b) THEN ~Rules!IsBound(p.o, DOMAIN b) ELSE Rules!IsBound(p.o, DOMAIN b)
  BY DEF Rules!FreeEnds
<1>2. FreeEnd(p, b) \in Rules!Terms /\ ~Rules!IsBound(FreeEnd(p, b), DOMAIN b)
  BY <1>1, PatternsAre DEF FreeEnd
<1>3. /\ FreeEnd(p, b)[1] = "var" /\ FreeEnd(p, b)[2] \in RuleVariables /\ FreeEnd(p, b)[2] \notin DOMAIN b
  BY <1>2, TermsAre DEF Rules!IsBound
<1>4. DOMAIN b \cup {FreeEnd(p, b)[2]} = DOMAIN b \cup Rules!VarsOf(p)
  <2>1. \A t \in Rules!Terms : Rules!IsBound(t, DOMAIN b) /\ t[1] = "var" => t[2] \in DOMAIN b
    BY TermsAre DEF Rules!IsBound
  <2>2. FreeEnd(p, b)[2] \in Rules!VarsOf(p)
    BY <1>1, <1>3, PatternsAre DEF FreeEnd
  <2>3. \A x \in Rules!VarsOf(p) : x \in DOMAIN b \cup {FreeEnd(p, b)[2]}
    BY <1>1, <2>1, PatternsAre DEF FreeEnd
  <2>4. QED BY <2>2, <2>3
<1>5. QED BY <1>1, <1>2, <1>3, <1>4 DEF FreeEnd

-----------------------------------------------------------------------------
(* States *)

\* Work is done and caps are met, and neither is forgotten.
Later(s, t) == s.work <= t.work /\ (s.capped => t.capped)

\* When what is found is true.
Okay(w, st) == ~Rules!HasNegation(w) \/ Rules!MetNoCap(w, st)

\* Counters only go up: a later state that met no cap follows one that met none.
LEMMA LaterHolds ==
  ASSUME NEW w, Rules!IsWorld(w), NEW s \in Rules!States
  PROVE  /\ Later(s, s)
         /\ \A t, u \in Rules!States : Later(s, t) /\ Later(t, u) => Later(s, u)
         /\ \A t \in Rules!States : Later(s, t) =>
              /\ Rules!CanContinue(w, t) => Rules!CanContinue(w, s)
              /\ Rules!MetNoCap(w, t) => Rules!MetNoCap(w, s)
              /\ Okay(w, t) => Okay(w, s)
<1>1. s.work \in Nat /\ w.maxWork \in Nat
  BY DEF Rules!States, Rules!IsWorld
<1>2. Later(s, s)
  BY <1>1 DEF Later
<1>3. ASSUME NEW t \in Rules!States, NEW u \in Rules!States, Later(s, t), Later(t, u) PROVE Later(s, u)
  BY <1>1, <1>3 DEF Later, Rules!States
<1>4. ASSUME NEW t \in Rules!States, Later(s, t), Rules!CanContinue(w, t) PROVE Rules!CanContinue(w, s)
  BY <1>1, <1>4 DEF Later, Rules!States, Rules!CanContinue, Rules!HasWork
<1>5. QED BY <1>2, <1>3, <1>4 DEF Okay, Rules!MetNoCap

\* Work, a cap that is met and a rule that is considered lead to later states.
LEMMA WorkHolds ==
  ASSUME NEW w, Rules!IsWorld(w), NEW s \in Rules!States
  PROVE  /\ Rules!Work(s) \in Rules!States /\ Later(s, Rules!Work(s))
         /\ Rules!Capped(s) \in Rules!States /\ Later(s, Rules!Capped(s))
         /\ ~Rules!CanContinue(w, Rules!Capped(s)) /\ ~Rules!MetNoCap(w, Rules!Capped(s))
         /\ Rules!Consider(w, s) \in Rules!States /\ Later(s, Rules!Consider(w, s))
         /\ ~Rules!MayConsider(w, s) => ~Rules!CanContinue(w, Rules!Consider(w, s))
<1>1. s.work \in Nat /\ s.considered \in Nat /\ w.maxRules \in Nat
  BY DEF Rules!States, Rules!IsWorld
<1>2. ASSUME NEW t \in Rules!States
      PROVE  /\ Rules!Work(t) \in Rules!States /\ Later(t, Rules!Work(t))
             /\ Rules!Capped(t) \in Rules!States /\ Later(t, Rules!Capped(t)) /\ Rules!Capped(t).capped
  <2>1. t.work \in Nat /\ t.work + 1 \in Nat
    BY DEF Rules!States
  <2>2. Rules!Work(t) \in Rules!States /\ Rules!Work(t).work = t.work + 1 /\ Rules!Work(t).capped = t.capped
    BY <2>1 DEF Rules!States, Rules!Work
  <2>3. /\ Rules!Capped(t) \in Rules!States /\ Rules!Capped(t).work = t.work
        /\ Rules!Capped(t).capped = TRUE
    BY DEF Rules!States, Rules!Capped
  <2>4. QED BY <2>1, <2>2, <2>3 DEF Later
<1>3. ~Rules!CanContinue(w, Rules!Capped(s)) /\ ~Rules!MetNoCap(w, Rules!Capped(s))
  BY <1>2 DEF Rules!CanContinue, Rules!MetNoCap
<1> DEFINE more == [s EXCEPT !.considered = @ + 1]
<1>4. more \in Rules!States /\ Later(s, more) /\ more.work = s.work
  BY <1>1 DEF Rules!States, Later
<1> HIDE DEF more
<1>5. Rules!Consider(w, s) \in Rules!States /\ Later(s, Rules!Consider(w, s))
      /\ (~Rules!MayConsider(w, s) => Rules!Consider(w, s).capped)
  <2>1. CASE s.considered >= w.maxRules
    <3>1. Rules!Consider(w, s) = Rules!Capped(s)
      <4>1. ~(s.considered < w.maxRules)
        BY <1>1, <2>1
      <4>2. QED BY <2>1, <4>1 DEF Rules!Consider
    <3>2. QED BY <1>2, <3>1
  <2>2. CASE s.considered < w.maxRules /\ ~Rules!HasWork(w, s)
    <3>1. Rules!Consider(w, s) = Rules!Capped(more)
      <4>1. ~(s.considered >= w.maxRules)
        BY <1>1, <2>2
      <4>2. QED BY <2>2, <4>1, Zenon DEF Rules!Consider, more
    <3>2. QED BY <1>2, <1>4, <3>1, LaterHolds
  <2>3. CASE s.considered < w.maxRules /\ Rules!HasWork(w, s)
    <3>1. Rules!Consider(w, s) = Rules!Work(more)
      <4>1. ~(s.considered >= w.maxRules)
        BY <1>1, <2>3
      <4>2. QED BY <2>3, <4>1, Zenon DEF Rules!Consider, more
    <3>2. Rules!MayConsider(w, s)
      BY <2>3 DEF Rules!MayConsider
    <3>3. QED BY <1>2, <1>4, <3>1, <3>2, LaterHolds
  <2>4. QED BY <1>1, <2>1, <2>2, <2>3
<1>6. QED BY <1>2, <1>3, <1>5 DEF Rules!CanContinue

-----------------------------------------------------------------------------
(* The values of a free end *)

\* The instance's Cardinality is that of finite sets.
LEMMA RulesCardinality == \A S : Rules!Cardinality(S) = Cardinality(S)
  BY DEF Rules!Cardinality, Rules!IsFiniteSet, Cardinality, IsFiniteSet

\* A finite set in some order.
LEMMA ListedHolds ==
  ASSUME NEW S, IsFiniteSet(S)
  PROVE  /\ Rules!Listed(S) \in [1..Cardinality(S) -> S] /\ Cardinality(S) \in Nat
         /\ \A e \in S : \E i \in 1..Cardinality(S) : Rules!Listed(S)[i] = e
<1> DEFINE Lists(f) == \A e \in S : \E i \in DOMAIN f : f[i] = e
<1>1. Cardinality(S) \in Nat /\ \E f : f \in Bijection(1..Cardinality(S), S)
  BY FS_CardinalityType DEF ExistsBijection
<1>2. \E f \in [1..Cardinality(S) -> S] : Lists(f)
  BY <1>1 DEF Bijection, Surjection
<1>3. Rules!Listed(S) = CHOOSE f \in [1..Rules!Cardinality(S) -> S] : Lists(f)
  BY DEF Rules!Listed
<1>4. Rules!Listed(S) \in [1..Cardinality(S) -> S] /\ Lists(Rules!Listed(S))
  <2> HIDE DEF Lists
  <2>1. QED BY <1>2, <1>3, RulesCardinality
<1>5. QED BY <1>1, <1>4

\* A value ends a fact when binding it makes the pattern that fact.
LEMMA EndsAre ==
  ASSUME NEW p \in Rules!Patterns, NEW b \in Rules!Bindings, Rules!FreeEnds(p, DOMAIN b) = 1, NEW known
  PROVE  \A e : e \in Rules!Ends(known, p, b) <=>
           e \in RuleEntities /\ Rules!Ground(p, Rules!Bind(b, FreeEnd(p, b)[2], e)) \in known
<1> DEFINE x == FreeEnd(p, b)[2]
           at(value) == Rules!Bind(b, x, value)
<1>1. ASSUME NEW e \in RuleEntities
      PROVE  Rules!Ground(p, at(e)) = IF Rules!IsBound(p.s, DOMAIN b)
                                      THEN <<Rules!Resolve(p.s, b), p.p, e>>
                                      ELSE <<e, p.p, Rules!Resolve(p.o, b)>>
  <2>1. at(e) \in Rules!Bindings /\ at(e)[x] = e /\ Extends(at(e), b)
    <3>1. x \in RuleVariables /\ x \notin DOMAIN b
      BY FreeEndIs
    <3>2. at(e)[x] = e
      BY BoundIs
    <3>3. at(e) \in Rules!Bindings
      BY <3>1, BindHolds
    <3>4. Extends(at(e), b)
      BY <3>1, BindHolds
    <3>5. QED BY <3>2, <3>3, <3>4
  <2> HIDE DEF at
  <2>2. \A t \in Rules!Terms : Rules!IsBound(t, DOMAIN b) => Rules!Resolve(t, at(e)) = Rules!Resolve(t, b)
    BY <2>1, TermsAre DEF Rules!IsBound, Rules!Resolve, Extends
  <2>3. Rules!Resolve(FreeEnd(p, b), at(e)) = e
    BY <2>1, FreeEndIs DEF Rules!Resolve
  <2>4. QED BY <2>2, <2>3, FreeEndIs, PatternsAre DEF Rules!Ground
<1>2. QED BY <1>1 DEF Rules!Ends

\* A free end takes values that are known to hold, and all of them within MaxBindings.
LEMMA ValuesHold ==
  ASSUME NEW w, Rules!IsWorld(w),
         NEW p \in Rules!Patterns, NEW b \in Rules!Bindings, Rules!FreeEnds(p, DOMAIN b) = 1
  PROVE  LET vs == Rules!Values(w, p, b)
             x == FreeEnd(p, b)[2]
             known == Rules!Stored(w) \cup Rules!Assumed(w)
         IN  /\ vs \in Seq(RuleEntities)
             /\ \A k \in 1..Len(vs) : Rules!Ground(p, Rules!Bind(b, x, vs[k])) \in known
             /\ Cardinality(RuleEntities) <= w.maxBindings =>
                  \A e \in RuleEntities : Rules!Ground(p, Rules!Bind(b, x, e)) \in known =>
                    \E k \in 1..Len(vs) : vs[k] = e
<1> DEFINE x == FreeEnd(p, b)[2]
           A == Rules!Ends(Rules!Assumed(w), p, b)
           B == Rules!Ends(Rules!Stored(w), p, b) \ A
           all == Rules!Listed(A) \o Rules!Listed(B)
           n == Rules!Min2(Len(all), w.maxBindings)
           vs == Rules!Values(w, p, b)
           known == Rules!Stored(w) \cup Rules!Assumed(w)
<1>1. /\ A \cup B \subseteq RuleEntities
      /\ \A e : e \in A \cup B <=> e \in RuleEntities /\ Rules!Ground(p, Rules!Bind(b, x, e)) \in known
  BY EndsAre
<1>2. A \cap B = {}
  OBVIOUS
<1> HIDE DEF A, B
<1>3. IsFiniteSet(A) /\ IsFiniteSet(B) /\ Cardinality(A) + Cardinality(B) <= Cardinality(RuleEntities)
  <2>1. IsFiniteSet(A) /\ IsFiniteSet(B) /\ Cardinality(A \cup B) <= Cardinality(RuleEntities)
    BY <1>1, RuleNamesAreFinite, FS_Subset
  <2>2. Cardinality(A \cup B) = Cardinality(A) + Cardinality(B) - Cardinality(A \cap B)
    BY <2>1, FS_Union
  <2>3. Cardinality(A \cap B) = 0
    BY <1>2, FS_EmptySet
  <2>4. QED BY <2>1, <2>2, <2>3, FS_CardinalityType, RuleNamesAreFinite
<1>4. /\ Rules!Listed(A) \in Seq(A) /\ Len(Rules!Listed(A)) = Cardinality(A) /\ Cardinality(A) \in Nat
      /\ Rules!Listed(B) \in Seq(B) /\ Len(Rules!Listed(B)) = Cardinality(B) /\ Cardinality(B) \in Nat
  <2>1. /\ Cardinality(A) \in Nat /\ Cardinality(B) \in Nat
    BY <1>3, FS_CardinalityType
  <2>2. Rules!Listed(A) \in Seq(A) /\ Len(Rules!Listed(A)) = Cardinality(A)
    BY <1>3, ListedHolds
  <2>3. Rules!Listed(B) \in Seq(B) /\ Len(Rules!Listed(B)) = Cardinality(B)
    BY <1>3, ListedHolds
  <2>4. QED BY <2>1, <2>2, <2>3
<1>5. all \in Seq(A \cup B) /\ Len(all) = Cardinality(A) + Cardinality(B)
  BY <1>4
<1>6. \A e \in A \cup B : \E k \in 1..Len(all) : all[k] = e
  <2>1. ASSUME NEW e \in A PROVE \E k \in 1..Len(all) : all[k] = e
    <3>1. PICK k \in 1..Cardinality(A) : Rules!Listed(A)[k] = e
      BY <1>3, ListedHolds
    <3>2. k \in 1..Len(all) /\ all[k] = e
      BY <1>4, <1>5, <3>1
    <3>3. QED BY <3>2
  <2>2. ASSUME NEW e \in B PROVE \E k \in 1..Len(all) : all[k] = e
    <3>1. PICK k \in 1..Cardinality(B) : Rules!Listed(B)[k] = e
      BY <1>3, ListedHolds
    <3>2. Cardinality(A) + k \in 1..Len(all) /\ all[Cardinality(A) + k] = e
      BY <1>4, <1>5, <3>1
    <3>3. QED BY <3>2
  <2>3. QED BY <2>1, <2>2
<1>7. vs = SubSeq(all, 1, n)
  BY Zenon DEF Rules!Values, A, B
<1>8. n \in 0..Len(all) /\ (Len(all) <= w.maxBindings => n = Len(all))
  <2>1. w.maxBindings \in Nat /\ Len(all) \in Nat
    BY <1>5 DEF Rules!IsWorld
  <2> HIDE DEF all
  <2>2. QED BY <2>1 DEF Rules!Min2
<1> HIDE DEF vs, n, all
<1>9. vs \in Seq(A \cup B) /\ Len(vs) = n /\ \A k \in 1..n : vs[k] = all[k]
  BY <1>5, <1>7, <1>8
<1>10. vs \in Seq(RuleEntities) /\ \A k \in 1..Len(vs) : vs[k] \in A \cup B
  BY <1>1, <1>9
<1>11. Cardinality(RuleEntities) <= w.maxBindings => n = Len(all)
  <2>1. w.maxBindings \in Nat /\ Cardinality(RuleEntities) \in Nat
    BY RuleNamesAreFinite, FS_CardinalityType DEF Rules!IsWorld
  <2>2. QED BY <1>3, <1>4, <1>5, <1>8, <2>1
<1>12. ASSUME Cardinality(RuleEntities) <= w.maxBindings, NEW e \in A \cup B
       PROVE  \E k \in 1..Len(vs) : vs[k] = e
  BY <1>6, <1>9, <1>11, <1>12
<1>13. QED BY <1>1, <1>10, <1>12 DEF vs

-----------------------------------------------------------------------------
(* The order of the conditions *)

\* A set of numbers that is not empty has a least one.
LEMMA LeastExists == ASSUME NEW S \in SUBSET Nat, S # {} PROVE \E x \in S : \A y \in S : x <= y
<1>1. PICK x \in S : \A y \in S : ~(<<y, x>> \in OpToRel(<, Nat))
  BY NatLessThanWellFounded, WFMin
<1>2. \A y \in S : ~(y < x)
  BY <1>1 DEF OpToRel
<1>3. \A y \in S : x <= y
  BY <1>2
<1>4. QED BY <1>3

\* The condition that is chosen next is one of those that are left.
LEMMA ChoiceHolds ==
  ASSUME NEW conditions \in Seq(Rules!Patterns), NEW bound, NEW left \in SUBSET DOMAIN conditions, left # {}
  PROVE  Rules!ChooseCondition(conditions, bound, left) \in left
<1> DEFINE now == bound \cup UNION {Rules!VarsOf(conditions[i]) : i \in DOMAIN conditions \ left}
           score(i) == Rules!Score(conditions[i], now)
           First(i) == \A j \in left : score(i) < score(j) \/ (score(i) = score(j) /\ i <= j)
<1>1. \A i \in left : score(i) \in Nat /\ i \in Nat
  <2>1. ASSUME NEW i \in left PROVE score(i) \in Nat /\ i \in Nat
    <3>1. conditions[i] \in Rules!Patterns /\ i \in Nat
      OBVIOUS
    <3> HIDE DEF now
    <3>2. Rules!FreeEnds(conditions[i], now) \in 0..2
      BY <3>1, GroundIs
    <3>3. score(i) \in Nat
      BY <3>2 DEF Rules!Score
    <3>4. QED BY <3>1, <3>3
  <2>2. QED BY <2>1
<1> HIDE DEF score
<1> DEFINE S == {score(i) : i \in left}
<1>2. PICK m \in S : \A y \in S : m <= y
  <2>1. S \in SUBSET Nat /\ S # {}
    BY <1>1
  <2> HIDE DEF S
  <2>2. QED BY <2>1, LeastExists
<1> DEFINE I == {i \in left : score(i) = m}
<1>3. PICK i \in I : \A j \in I : i <= j
  <2>1. I \in SUBSET Nat /\ I # {}
    BY <1>1, <1>2
  <2> HIDE DEF I
  <2>2. QED BY <2>1, LeastExists
<1>4. i \in left /\ First(i)
  <2>1. i \in left /\ score(i) = m
    OBVIOUS
  <2>2. ASSUME NEW j \in left PROVE score(i) < score(j) \/ (score(i) = score(j) /\ i <= j)
    <3>1. score(j) \in S /\ (score(j) = m => j \in I)
      OBVIOUS
    <3> HIDE DEF S, I
    <3>2. m <= score(j) /\ (score(j) = m => i <= j)
      BY <1>2, <1>3, <3>1
    <3>3. m \in Nat /\ score(j) \in Nat
      BY <1>1, <2>1
    <3>4. QED BY <2>1, <3>2, <3>3
  <2>3. QED BY <2>1, <2>2
<1>5. Rules!ChooseCondition(conditions, bound, left) = CHOOSE j \in left : First(j)
  BY DEF Rules!ChooseCondition, score
<1> HIDE DEF First
<1>6. QED BY <1>4, <1>5

\* Every condition is taken, and no other.
Reorders(ordered, conditions) ==
  /\ ordered \in Seq(Rules!Patterns) /\ Len(ordered) = Len(conditions)
  /\ \A k \in 1..Len(conditions) : \E i \in 1..Len(conditions) : ordered[k] = conditions[i]
  /\ \A i \in 1..Len(conditions) : \E k \in 1..Len(conditions) : ordered[k] = conditions[i]

\* Conditions are ordered, and none is lost or made up.
LEMMA OrderedHolds ==
  ASSUME NEW conditions \in Seq(Rules!Patterns), NEW bound
  PROVE  Reorders(Rules!Ordered(conditions, bound), conditions)
<1> DEFINE D == 1..Len(conditions)
           X == SUBSET D
           n == Len(conditions)
           choice(S) == Rules!ChooseCondition(conditions, bound, S)
           step == [y \in (1..n) \X X |-> y[2] \ {choice(y[2])}]
           IsLeft(f) == f = [k \in 0..n |-> IF k = 0 THEN DOMAIN conditions ELSE f[k - 1] \ {choice(f[k - 1])}]
           left == CHOOSE f : IsLeft(f)
           ordered == Rules!Ordered(conditions, bound)
<1>1. n \in Nat /\ D = DOMAIN conditions
  OBVIOUS
<1>2. ordered = [k \in DOMAIN conditions |-> conditions[choice(left[k - 1])]]
  BY DEF Rules!Ordered
<1> HIDE DEF choice, ordered, left
<1>3. IsLeft(left)
  <2>1. step \in [(1..n) \X X -> X] /\ D \in X
    OBVIOUS
  <2>2. \A k \in 1..n, S \in X : step[<<k, S>>] = S \ {choice(S)}
    OBVIOUS
  <2> HIDE DEF step, X
  <2>3. PICK f \in [0..n -> X] : f[0] = D /\ \A k \in 1..n : f[k] = step[<<k, f[k - 1]>>]
    <3>1. Goes(X, n, D, step, Rules!Loop(step, n, D))
      BY <1>1, <2>1, LoopIterates
    <3>2. QED BY <3>1, Zenon DEF Goes
  <2>4. \A k \in 0..n : f[k] = IF k = 0 THEN DOMAIN conditions ELSE f[k - 1] \ {choice(f[k - 1])}
    <3>1. ASSUME NEW k \in 0..n, k # 0 PROVE f[k] = f[k - 1] \ {choice(f[k - 1])}
      <4>1. k \in 1..n /\ k - 1 \in 0..n
        BY <1>1, <3>1
      <4>2. f[k - 1] \in X
        BY <4>1
      <4>3. QED BY <2>2, <2>3, <4>1, <4>2
    <3>2. QED BY <1>1, <2>3, <3>1
  <2>5. f = [k \in 0..n |-> f[k]]
    OBVIOUS
  <2>6. IsLeft(f)
    <3> HIDE DEF n, D
    <3>1. QED BY <2>4, <2>5
  <2> HIDE DEF IsLeft
  <2>7. QED BY <2>6 DEF left
<1>4. left[0] = D /\ \A k \in 1..n : left[k] = left[k - 1] \ {choice(left[k - 1])}
  <2>1. \A k \in 0..n : left[k] = IF k = 0 THEN DOMAIN conditions ELSE left[k - 1] \ {choice(left[k - 1])}
    BY <1>3
  <2>2. 0 \in 0..n /\ \A k \in 1..n : k \in 0..n /\ k # 0
    BY <1>1
  <2>3. QED BY <1>1, <2>1, <2>2
<1> HIDE DEF IsLeft
<1>5. \A S \in SUBSET D : S # {} => choice(S) \in S
  BY <1>1, ChoiceHolds DEF choice
<1>6. IsFiniteSet(D) /\ Cardinality(D) = n
  BY <1>1, FS_Interval
<1> DEFINE M == {k \in Nat : k <= n =>
                   /\ left[k] \in SUBSET D /\ Cardinality(left[k]) = n - k
                   /\ \A i \in D \ left[k] : \E j \in 1..k : choice(left[j - 1]) = i}
<1>7. 0 \in M
  BY <1>1, <1>4, <1>6
<1>8. ASSUME NEW k \in M PROVE k + 1 \in M
  <2>1. SUFFICES ASSUME k + 1 <= n
                 PROVE  /\ left[k + 1] \in SUBSET D /\ Cardinality(left[k + 1]) = n - (k + 1)
                        /\ \A i \in D \ left[k + 1] : \E j \in 1..(k + 1) : choice(left[j - 1]) = i
    OBVIOUS
  <2>2. k <= n /\ k + 1 \in 1..n /\ (k + 1) - 1 = k /\ k \in Nat
    BY <1>1, <2>1
  <2>3. /\ left[k] \in SUBSET D /\ Cardinality(left[k]) = n - k
        /\ \A i \in D \ left[k] : \E j \in 1..k : choice(left[j - 1]) = i
    BY <2>2
  <2>4. IsFiniteSet(left[k])
    BY <1>6, <2>3, FS_Subset
  <2>5. left[k] # {}
    <3>1. n - k # 0
      BY <1>1, <2>1, <2>2
    <3>2. QED BY <2>3, <3>1, FS_EmptySet
  <2>6. choice(left[k]) \in left[k] /\ left[k + 1] = left[k] \ {choice(left[k])}
    BY <1>4, <1>5, <2>2, <2>3, <2>5
  <2>7. Cardinality(left[k + 1]) = n - (k + 1)
    <3>1. Cardinality(left[k + 1]) = Cardinality(left[k]) - 1
      BY <2>4, <2>6, FS_RemoveElement
    <3>2. QED BY <1>1, <2>2, <2>3, <3>1
  <2>8. ASSUME NEW i \in D \ left[k + 1] PROVE \E j \in 1..(k + 1) : choice(left[j - 1]) = i
    <3>1. CASE i = choice(left[k])
      <4>1. k + 1 \in 1..(k + 1) /\ choice(left[(k + 1) - 1]) = i
        BY <2>2, <3>1
      <4>2. QED BY <4>1
    <3>2. CASE i # choice(left[k])
      <4>1. i \in D \ left[k]
        BY <2>6, <2>8, <3>2
      <4>2. QED BY <2>2, <2>3, <4>1
    <3>3. QED BY <3>1, <3>2
  <2>9. QED BY <2>3, <2>6, <2>7, <2>8
<1>9. Nat \subseteq M
  <2> HIDE DEF M
  <2>1. M \in SUBSET Nat BY DEF M
  <2>2. QED BY <1>7, <1>8, <2>1, Induction
<1>10. ASSUME NEW k \in 1..n PROVE choice(left[k - 1]) \in D
  <2>1. k - 1 \in Nat /\ k - 1 <= n /\ n - (k - 1) # 0
    BY <1>1
  <2>2. left[k - 1] \in SUBSET D /\ Cardinality(left[k - 1]) # 0
    BY <1>9, <2>1
  <2>3. QED BY <1>5, <2>2, FS_EmptySet
<1>11. \A i \in D : \E k \in 1..n : choice(left[k - 1]) = i
  <2>1. left[n] \in SUBSET D /\ Cardinality(left[n]) = 0
    BY <1>1, <1>9
  <2>2. left[n] = {}
    <3>1. IsFiniteSet(left[n])
      BY <1>6, <2>1, FS_Subset
    <3>2. QED BY <2>1, <3>1, FS_EmptySet
  <2>3. n \in M
    <3> HIDE DEF M
    <3>1. QED BY <1>1, <1>9
  <2>4. \A i \in D \ left[n] : \E j \in 1..n : choice(left[j - 1]) = i
    BY <1>1, <2>3
  <2>5. QED BY <2>2, <2>4
<1>12. ordered \in Seq(Rules!Patterns) /\ Len(ordered) = n /\ \A k \in 1..n : ordered[k] = conditions[choice(left[k - 1])]
  <2>1. \A k \in 1..n : conditions[choice(left[k - 1])] \in Rules!Patterns
    BY <1>10
  <2>2. ordered = [k \in 1..n |-> conditions[choice(left[k - 1])]]
    BY <1>2
  <2>3. QED BY <1>1, <2>1, <2>2
<1>13. QED
  <2>1. /\ \A k \in 1..n : \E i \in 1..n : ordered[k] = conditions[i]
        /\ \A i \in 1..n : \E k \in 1..n : ordered[k] = conditions[i]
    BY <1>10, <1>11, <1>12
  <2>2. QED BY <1>12, <2>1 DEF ordered, Reorders

-----------------------------------------------------------------------------
(* Conditions *)

Underived(w, p) == \A i \in 1..Len(w.rules) : ~w.rules[i].head.neg => w.rules[i].head.p # p

\* How a claim is proved that no rule is about.
ProofOf(w, g) ==
  IF Rules!BaseProof(w, g) # {} THEN Rules!BaseProof(w, g)
  ELSE IF g \in Rules!Assumed(w) THEN Rules!Fact(0) ELSE {}

Asks == Rules!GroundClaims \X Rules!States

\* What deeper searches answer agrees with the claims T: about the predicates Q
\* as far as the caps allow, about those that no rule derives exactly.
Oracle(w, T, Q, holds) ==
  /\ Rules!Stored(w) \subseteq T
  /\ \A g \in Rules!GroundClaims, st \in Rules!States : LET r == holds[<<g, st>>] IN
       /\ g[2] \in Q => /\ Later(st, r.st)
                        /\ Okay(w, r.st) /\ r.proof # {} => Rules!IsTrue(w, T, g)
                        /\ Rules!MetNoCap(w, r.st) /\ Rules!IsTrue(w, T, g) => r.proof # {}
       /\ Underived(w, g[2]) => /\ Later(st, r.st) /\ r.proof = ProofOf(w, g)
                                /\ g \in T <=> g \in Rules!Stored(w)

Meets(w, T, p, b) ==
  IF p.neg THEN ~Rules!IsTrue(w, T, Rules!Ground(p, b)) ELSE Rules!IsTrue(w, T, Rules!Ground(p, b))

\* A search from st finds the bindings S: no others, and all of them when it met
\* no cap.
Gives(w, S, st, r) ==
  /\ Later(st, r.st)
  /\ Okay(w, r.st) => \A i \in 1..Len(r.branches) : r.branches[i].b \in S
  /\ Rules!MetNoCap(w, r.st) => \A b \in S : \E i \in 1..Len(r.branches) : r.branches[i].b = b

\* A branch keeps its type when its binding or its costs change.
LEMMA BranchesAre ==
  ASSUME NEW branch \in Rules!Branches
  PROVE  /\ branch.b \in Rules!Bindings /\ branch.cost \in Nat /\ branch.steps \in Nat
         /\ \A b \in Rules!Bindings : [branch EXCEPT !.b = b] \in Rules!Branches /\ [branch EXCEPT !.b = b].b = b
         /\ \A p \in Rules!Proofs : LET more == [branch EXCEPT !.cost = @ + p.cost, !.steps = @ + p.steps] IN
              more \in Rules!Branches /\ more.b = branch.b
<1>1. branch.b \in Rules!Bindings /\ branch.cost \in Nat /\ branch.steps \in Nat
  BY DEF Rules!Branches
<1>2. ASSUME NEW b \in Rules!Bindings
      PROVE  [branch EXCEPT !.b = b] \in Rules!Branches /\ [branch EXCEPT !.b = b].b = b
  BY DEF Rules!Branches
<1>3. ASSUME NEW p \in Rules!Proofs
      PROVE  LET more == [branch EXCEPT !.cost = @ + p.cost, !.steps = @ + p.steps] IN
             more \in Rules!Branches /\ more.b = branch.b
  <2>1. branch.cost + p.cost \in Nat /\ branch.steps + p.steps \in Nat
    BY <1>1 DEF Rules!Proofs
  <2>2. QED BY <1>1, <2>1 DEF Rules!Branches
<1>4. QED BY <1>1, <1>2, <1>3

\* A condition that is ground is answered by one look: the branch is kept if it holds.
LEMMA GroundedGives ==
  ASSUME NEW w, NEW holds \in [Asks -> Rules!Replies],
         NEW p \in Rules!Patterns, NEW branch \in Rules!Branches, Rules!VarsOf(p) \subseteq DOMAIN branch.b,
         NEW st \in Rules!States
  PROVE  LET r == Rules!EvalGrounded(holds, p, branch, st) IN
         /\ r \in Rules!Founds
         /\ \A T, Q : Oracle(w, T, Q, holds) /\ p.p \in Q /\ (p.neg => Rules!HasNegation(w)) =>
              Gives(w, {b \in {branch.b} : Meets(w, T, p, b)}, st, r)
<1> DEFINE r == Rules!EvalGrounded(holds, p, branch, st)
           g == Rules!Ground(p, branch.b)
           found == holds[<<g, st>>]
           some == CHOOSE x \in found.proof : TRUE
           more == [branch EXCEPT !.cost = @ + some.cost, !.steps = @ + some.steps]
<1>1. g \in Rules!GroundClaims /\ g[2] = p.p
  BY BranchesAre, GroundStays
<1>2. found \in Rules!Replies /\ found.st \in Rules!States /\ found.proof \subseteq Rules!Proofs
  <2>1. <<g, st>> \in Asks
    BY <1>1 DEF Asks
  <2>2. found \in Rules!Replies
    BY <2>1
  <2>3. QED BY <2>2 DEF Rules!Replies
<1>3. r = [st |-> found.st,
           branches |-> IF p.neg THEN IF found.proof = {} THEN <<branch>> ELSE <<>>
                        ELSE IF found.proof = {} THEN <<>> ELSE <<more>>]
  BY DEF Rules!EvalGrounded, Rules!BranchesOf, Rules!Negated
<1>4. found.proof # {} => more \in Rules!Branches /\ more.b = branch.b
  BY <1>2, BranchesAre
<1> HIDE DEF r, g, found, more
<1> DEFINE kept == IF p.neg THEN found.proof = {} ELSE found.proof # {}
<1>5. /\ r \in Rules!Founds /\ r.st = found.st
      /\ kept => Len(r.branches) = 1 /\ r.branches[1].b = branch.b
      /\ ~kept => Len(r.branches) = 0
  <2>1. CASE p.neg /\ found.proof = {}
    <3>1. r = [st |-> found.st, branches |-> <<branch>>]
      BY <1>3, <2>1
    <3>2. QED BY <1>2, <2>1, <3>1 DEF Rules!Founds
  <2>2. CASE ~p.neg /\ found.proof # {}
    <3>1. r = [st |-> found.st, branches |-> <<more>>]
      BY <1>3, <2>2
    <3>2. QED BY <1>2, <1>4, <2>2, <3>1 DEF Rules!Founds
  <2>3. CASE ~kept
    <3>1. r = [st |-> found.st, branches |-> <<>>]
      BY <1>3, <2>3
    <3>2. QED BY <1>2, <2>3, <3>1 DEF Rules!Founds
  <2>4. QED BY <2>1, <2>2, <2>3
<1>6. ASSUME NEW T, NEW Q, Oracle(w, T, Q, holds), p.p \in Q, p.neg => Rules!HasNegation(w)
      PROVE  Gives(w, {b \in {branch.b} : Meets(w, T, p, b)}, st, r)
  <2>1. /\ Later(st, found.st)
        /\ Okay(w, found.st) /\ found.proof # {} => Rules!IsTrue(w, T, g)
        /\ Rules!MetNoCap(w, found.st) /\ Rules!IsTrue(w, T, g) => found.proof # {}
    BY <1>1, <1>6 DEF Oracle, found
  <2>2. Okay(w, found.st) /\ kept => Meets(w, T, p, branch.b)
    BY <1>6, <2>1 DEF Okay, Meets, g
  <2>3. Rules!MetNoCap(w, found.st) /\ Meets(w, T, p, branch.b) => kept
    BY <2>1 DEF Meets, g, Okay
  <2> HIDE DEF kept
  <2>4. QED BY <1>5, <2>1, <2>2, <2>3 DEF Gives
<1>7. QED BY <1>5, <1>6 DEF r

\* A loop that gathers adds the bindings S to what it has, unless it is over.
Adds(w, S, x, y) ==
  /\ x.over => y = x
  /\ ~x.over => \E more \in Seq(Rules!Branches) :
       /\ y.branches = x.branches \o more /\ (y.over => ~Rules!CanContinue(w, y.st))
       /\ Gives(w, S, x.st, [st |-> y.st, branches |-> more])

Together(S, n) == UNION {S[i] : i \in 1..n}
Begins(st, start) == start = [st |-> st, branches |-> <<>>, over |-> FALSE]

\* What is gathered comes after what was there.
LEMMA GatherHolds ==
  ASSUME NEW w, NEW x \in Rules!Gathered, NEW more, more.st \in Rules!States, more.branches \in Seq(Rules!Branches)
  PROVE  LET y == Rules!Gather(w, x, more) IN
         /\ y \in Rules!Gathered
         /\ y.st = more.st /\ y.branches = x.branches \o more.branches /\ (y.over => ~Rules!CanContinue(w, y.st))
<1>1. x.branches \in Seq(Rules!Branches)
  BY DEF Rules!Gathered
<1> DEFINE all == x.branches \o more.branches
           Result(over) == [st |-> more.st, branches |-> all, over |-> over]
<1>2. all \in Seq(Rules!Branches)
  BY <1>1
<1>3. Rules!Gather(w, x, more) = Result(~Rules!CanContinue(w, more.st))
  BY Zenon DEF Rules!Gather
<1>4. (~Rules!CanContinue(w, more.st)) = IF Rules!CanContinue(w, more.st) THEN FALSE ELSE TRUE
  BY DEF Rules!CanContinue
<1>5. Rules!Gather(w, x, more) = IF Rules!CanContinue(w, more.st) THEN Result(FALSE) ELSE Result(TRUE)
  <2> HIDE DEF Result
  <2>1. QED BY <1>3, <1>4, Zenon
<1>6. ASSUME NEW over \in BOOLEAN
      PROVE  Result(over) \in Rules!Gathered /\ Result(over).st = more.st /\ Result(over).branches = all
             /\ Result(over).over = over
  <2> HIDE DEF all
  <2>1. QED BY <1>2 DEF Rules!Gathered
<1> HIDE DEF Result
<1>7. CASE Rules!CanContinue(w, more.st)
  <2>1. Rules!Gather(w, x, more) = Result(FALSE)
    BY <1>5, <1>7
  <2>2. QED BY <1>6, <2>1
<1>8. CASE ~Rules!CanContinue(w, more.st)
  <2>1. Rules!Gather(w, x, more) = Result(TRUE)
    BY <1>5, <1>8
  <2>2. QED BY <1>6, <1>8, <2>1
<1>9. QED BY <1>7, <1>8

\* A loop of rounds that each find their own bindings finds all of theirs together.
LEMMA Gathering ==
  ASSUME NEW w, Rules!IsWorld(w), NEW n \in Nat, NEW st \in Rules!States, NEW S,
         NEW step \in [(1..n) \X Rules!Gathered -> Rules!Gathered],
         \A i \in 1..n, x \in Rules!Gathered : Later(st, x.st) => Adds(w, S[i], x, step[<<i, x>>]),
         NEW start, Begins(st, start)
  PROVE  Gives(w, Together(S, n), st, Rules!Loop(step, n, start))
<1> DEFINE G == Rules!Gathered
           Known(i) == UNION {S[k] : k \in 1..i}
           Good(i, x) == /\ Later(st, x.st)
                         /\ x.over => ~Rules!CanContinue(w, x.st)
                         /\ Okay(w, x.st) => \A j \in 1..Len(x.branches) : x.branches[j].b \in Known(i)
                         /\ Rules!MetNoCap(w, x.st) =>
                              \A b \in Known(i) : \E j \in 1..Len(x.branches) : x.branches[j].b = b
           Inv == {y \in (0..n) \X G : Good(y[1], y[2])}
<1>1. start \in G /\ Good(0, start)
  <2>1. start \in G /\ start.st = st /\ start.over = FALSE /\ start.branches = <<>>
    BY DEF Rules!Gathered, Begins
  <2>2. Later(st, start.st)
    BY <2>1, LaterHolds
  <2>3. QED BY <2>1, <2>2
<1>2. \A x \in G : x.st \in Rules!States /\ x.branches \in Seq(Rules!Branches) /\ x.over \in BOOLEAN
  BY DEF Rules!Gathered
<1>3. ASSUME NEW i \in 1..n, NEW x \in G, Good(i - 1, x) PROVE Good(i, step[<<i, x>>])
  <2> DEFINE y == step[<<i, x>>]
  <2>1. Adds(w, S[i], x, y) /\ y \in G
    BY <1>3
  <2>2. Known(i) = Known(i - 1) \cup S[i]
    <3>1. 1..i = 1..(i - 1) \cup {i}
      OBVIOUS
    <3>2. QED BY <3>1
  <2> HIDE DEF y, Known
  <2>3. CASE x.over
    <3>1. y = x /\ ~Rules!MetNoCap(w, x.st)
      BY <1>3, <2>1, <2>3 DEF Adds, Rules!MetNoCap
    <3>2. QED BY <1>3, <2>2, <3>1 DEF y
  <2>4. CASE ~x.over
    <3>1. PICK more \in Seq(Rules!Branches) :
            /\ y.branches = x.branches \o more /\ (y.over => ~Rules!CanContinue(w, y.st))
            /\ Gives(w, S[i], x.st, [st |-> y.st, branches |-> more])
      BY <2>1, <2>4, Zenon DEF Adds
    <3>2. /\ Later(x.st, y.st)
          /\ Okay(w, y.st) => \A j \in 1..Len(more) : more[j].b \in S[i]
          /\ Rules!MetNoCap(w, y.st) => \A b \in S[i] : \E j \in 1..Len(more) : more[j].b = b
      BY <3>1 DEF Gives
    <3>3. /\ Later(st, y.st)
          /\ Okay(w, y.st) => Okay(w, x.st)
          /\ Rules!MetNoCap(w, y.st) => Rules!MetNoCap(w, x.st)
      BY <1>2, <1>3, <2>1, <3>2, LaterHolds
    <3> DEFINE old == x.branches
    <3>4. /\ old \in Seq(Rules!Branches) /\ Len(old) \in Nat /\ Len(more) \in Nat
          /\ Len(y.branches) = Len(old) + Len(more)
          /\ \A j \in 1..Len(old) : y.branches[j] = old[j]
          /\ \A j \in 1..Len(more) : y.branches[Len(old) + j] = more[j]
      BY <1>2, <3>1
    <3>5. ASSUME Okay(w, y.st), NEW j \in 1..Len(y.branches) PROVE y.branches[j].b \in Known(i)
      <4>1. CASE j \in 1..Len(old)
        BY <1>3, <2>2, <3>3, <3>4, <3>5, <4>1
      <4>2. CASE j \notin 1..Len(old)
        <5>1. j - Len(old) \in 1..Len(more) /\ j = Len(old) + (j - Len(old))
          BY <3>4, <3>5, <4>2
        <5>2. QED BY <2>2, <3>2, <3>4, <3>5, <5>1
      <4>3. QED BY <4>1, <4>2
    <3>6. ASSUME Rules!MetNoCap(w, y.st), NEW b \in Known(i)
          PROVE  \E j \in 1..Len(y.branches) : y.branches[j].b = b
      <4>1. CASE b \in S[i]
        <5>1. PICK j \in 1..Len(more) : more[j].b = b
          BY <3>2, <3>6, <4>1
        <5>2. Len(old) + j \in 1..Len(y.branches) /\ y.branches[Len(old) + j].b = b
          BY <3>4, <5>1
        <5>3. QED BY <5>2
      <4>2. CASE b \in Known(i - 1)
        <5>1. PICK j \in 1..Len(old) : old[j].b = b
          BY <1>3, <3>3, <3>6, <4>2
        <5>2. j \in 1..Len(y.branches) /\ y.branches[j].b = b
          BY <3>4, <5>1
        <5>3. QED BY <5>2
      <4>3. QED BY <2>2, <3>6, <4>1, <4>2
    <3>7. QED BY <3>1, <3>3, <3>5, <3>6 DEF y
  <2>5. QED BY <1>2, <1>3, <2>3, <2>4
<1>4. <<n, Rules!Loop(step, n, start)>> \in Inv
  <2>1. <<0, start>> \in Inv
    <3>1. 0 \in 0..n
      OBVIOUS
    <3> HIDE DEF Good
    <3>2. QED BY <1>1, <3>1
  <2>2. ASSUME NEW i \in 1..n, NEW x \in G, <<i - 1, x>> \in Inv PROVE <<i, step[<<i, x>>]>> \in Inv
    <3>1. Good(i - 1, x)
      <4> HIDE DEF Good
      <4>1. QED BY <2>2
    <3>2. Good(i, step[<<i, x>>]) /\ step[<<i, x>>] \in G /\ i \in 0..n
      <4> HIDE DEF Good
      <4>1. QED BY <1>3, <3>1
    <3> HIDE DEF Good
    <3>3. QED BY <3>2
  <2>3. start \in G /\ n \in Nat /\ step \in [(1..n) \X G -> G]
    BY <1>1
  <2> HIDE DEF Inv, G
  <2>4. Keeps(G, n, step, Inv)
    BY <2>2 DEF Keeps
  <2>5. QED BY <2>1, <2>3, <2>4, LoopKeeps
<1>5. Good(n, Rules!Loop(step, n, start))
  BY <1>4
<1>6. QED BY <1>5 DEF Gives, Together

\* The bindings that go on from b0 and make the pattern true; a free end becomes
\* an end of a stored or an assumed fact.
Met(w, T, p, bound, b) ==
  /\ Meets(w, T, p, b)
  /\ Rules!FreeEnds(p, bound) > 0 =>
       Rules!FreeEnds(p, bound) = 1 /\ Rules!Ground(p, b) \in Rules!Stored(w) \cup Rules!Assumed(w)

Meeting(w, T, p, b0) ==
  {b \in [DOMAIN b0 \cup Rules!VarsOf(p) -> RuleEntities] : Extends(b, b0) /\ Met(w, T, p, DOMAIN b0, b)}

\* The bindings that a condition holds for are bindings.
LEMMA MeetingIsTyped ==
  ASSUME NEW w, NEW T, NEW p \in Rules!Patterns, NEW b0 \in Rules!Bindings
  PROVE  Meeting(w, T, p, b0) \subseteq Rules!Bindings
<1>1. ASSUME NEW b \in [DOMAIN b0 \cup Rules!VarsOf(p) -> RuleEntities] PROVE b \in Rules!Bindings
  BY BindingsAre, PatternsAre
<1>2. QED BY <1>1 DEF Meeting

\* The bindings that extend one and bind the same variables: itself.
LEMMA ExtendsSame ==
  ASSUME NEW b0 \in Rules!Bindings, NEW b \in [DOMAIN b0 -> RuleEntities], Extends(b, b0)
  PROVE  b = b0
<1>1. b0 \in [DOMAIN b0 -> RuleEntities]
  BY BindingsAre
<1>2. \A x \in DOMAIN b0 : b[x] = b0[x]
  BY DEF Extends
<1>3. QED BY <1>1, <1>2

\* A condition with a free end finds the bindings it holds for, value by value.
LEMMA EachValueGives ==
  ASSUME NEW w, Rules!IsWorld(w), NEW holds \in [Asks -> Rules!Replies],
         NEW p \in Rules!Patterns, ~p.neg, NEW branch \in Rules!Branches,
         Rules!FreeEnds(p, DOMAIN branch.b) = 1, NEW st \in Rules!States
  PROVE  LET r == Rules!EachValue(w, holds, p, Rules!Values(w, p, branch.b), branch, st) IN
         /\ r \in Rules!Gathered
         /\ \A T, Q : Oracle(w, T, Q, holds) /\ p.p \in Q => Gives(w, Meeting(w, T, p, branch.b), st, r)
<1> DEFINE b0 == branch.b
           values == Rules!Values(w, p, b0)
           n == Len(values)
           G == Rules!Gathered
           free == FreeEnd(p, b0)[2]
           at(e) == Rules!Bind(b0, free, e)
           having(e) == [branch EXCEPT !.b = Rules!Bind(@, free, e)]
           known == Rules!Stored(w) \cup Rules!Assumed(w)
           tried(i, x) == Rules!EvalGrounded(holds, p, having(values[i]), Rules!Work(x.st))
           step == [x \in (1..n) \X G |->
                      IF x[2].over THEN x[2]
                      ELSE IF ~Rules!HasWork(w, x[2].st)
                           THEN [x[2] EXCEPT !.st = Rules!Capped(@), !.over = TRUE]
                      ELSE Rules!Gather(w, x[2], tried(x[1], x[2]))]
           start == [st |-> st, branches |-> <<>>, over |-> FALSE]
           r == Rules!EachValue(w, holds, p, values, branch, st)
<1>1. b0 \in Rules!Bindings
  BY BranchesAre
<1>2. /\ values \in Seq(RuleEntities) /\ n \in Nat
      /\ \A k \in 1..n : Rules!Ground(p, at(values[k])) \in known
      /\ Cardinality(RuleEntities) <= w.maxBindings =>
           \A e \in RuleEntities : Rules!Ground(p, at(e)) \in known => \E k \in 1..n : values[k] = e
  BY <1>1, ValuesHold
<1>3. free \in RuleVariables /\ free \notin DOMAIN b0 /\ DOMAIN b0 \cup {free} = DOMAIN b0 \cup Rules!VarsOf(p)
  BY <1>1, FreeEndIs
<1>4. r = Rules!Loop(step, n, start)
  <2>1. (IF Rules!IsBound(p.s, DOMAIN branch.b) THEN p.o ELSE p.s) = FreeEnd(p, b0)
    BY DEF FreeEnd
  <2>2. QED BY <2>1, Zenon DEF Rules!EachValue
<1> HIDE DEF free, values, r
<1>5. ASSUME NEW e \in RuleEntities
      PROVE  /\ at(e) \in Rules!Bindings /\ DOMAIN at(e) = DOMAIN b0 \cup Rules!VarsOf(p)
             /\ Extends(at(e), b0) /\ at(e)[free] = e
             /\ having(e) \in Rules!Branches /\ having(e).b = at(e)
  <2>1. at(e) \in Rules!Bindings /\ DOMAIN at(e) = DOMAIN b0 \cup Rules!VarsOf(p) /\ Extends(at(e), b0)
    BY <1>1, <1>3, BindHolds
  <2>2. at(e)[free] = e
    BY BoundIs
  <2>3. having(e) = [branch EXCEPT !.b = at(e)]
    OBVIOUS
  <2> HIDE DEF at, having
  <2>4. [branch EXCEPT !.b = at(e)] \in Rules!Branches /\ [branch EXCEPT !.b = at(e)].b = at(e)
    BY <2>1, BranchesAre, Zenon
  <2>5. QED BY <2>1, <2>2, <2>3, <2>4
<1> HIDE DEF at, having, b0
<1>6. ASSUME NEW i \in 1..n, NEW x \in G
      PROVE  /\ values[i] \in RuleEntities
             /\ x.st \in Rules!States /\ x.branches \in Seq(Rules!Branches) /\ x.over \in BOOLEAN
             /\ Rules!Work(x.st) \in Rules!States /\ Later(x.st, Rules!Work(x.st))
             /\ tried(i, x) \in Rules!Founds
             /\ tried(i, x).st \in Rules!States /\ tried(i, x).branches \in Seq(Rules!Branches)
             /\ \A T, Q : Oracle(w, T, Q, holds) /\ p.p \in Q =>
                  Gives(w, {b \in {at(values[i])} : Meets(w, T, p, b)}, Rules!Work(x.st), tried(i, x))
  <2>1. values[i] \in RuleEntities
    BY <1>2
  <2>2. x.st \in Rules!States /\ x.branches \in Seq(Rules!Branches) /\ x.over \in BOOLEAN
    BY DEF Rules!Gathered
  <2>3. Rules!Work(x.st) \in Rules!States /\ Later(x.st, Rules!Work(x.st))
    BY <2>2, WorkHolds
  <2>4. having(values[i]) \in Rules!Branches /\ having(values[i]).b = at(values[i])
        /\ Rules!VarsOf(p) \subseteq DOMAIN having(values[i]).b
    BY <1>5, <2>1
  <2>5. /\ tried(i, x) \in Rules!Founds
        /\ \A T, Q : Oracle(w, T, Q, holds) /\ p.p \in Q =>
             Gives(w, {b \in {at(values[i])} : Meets(w, T, p, b)}, Rules!Work(x.st), tried(i, x))
    BY <2>3, <2>4, GroundedGives
  <2>6. QED BY <2>1, <2>2, <2>3, <2>5 DEF Rules!Founds
<1>7. ASSUME NEW i \in 1..n, NEW x \in G
      PROVE  LET y == step[<<i, x>>] IN
             /\ x.over => y = x
             /\ ~x.over /\ ~Rules!HasWork(w, x.st) => y = [x EXCEPT !.st = Rules!Capped(@), !.over = TRUE]
             /\ ~x.over /\ Rules!HasWork(w, x.st) => y = Rules!Gather(w, x, tried(i, x))
  <2> HIDE DEF tried, G
  <2>1. QED OBVIOUS
<1>8. ASSUME NEW i \in 1..n, NEW x \in G
      PROVE  /\ step[<<i, x>>] \in G
             /\ \A T, Q : Oracle(w, T, Q, holds) /\ p.p \in Q =>
                  Adds(w, {b \in {at(values[i])} : Meets(w, T, p, b)}, x, step[<<i, x>>])
  <2> DEFINE y == step[<<i, x>>]
             found == tried(i, x)
  <2> HIDE DEF step, tried
  <2>1. CASE x.over
    <3>1. y = x
      BY <1>7, <2>1
    <3>2. QED BY <2>1, <3>1 DEF Adds
  <2>2. CASE ~x.over /\ ~Rules!HasWork(w, x.st)
    <3>1. y = [x EXCEPT !.st = Rules!Capped(x.st), !.over = TRUE]
      BY <1>7, <2>2
    <3>2. /\ Rules!Capped(x.st) \in Rules!States /\ Later(x.st, Rules!Capped(x.st))
          /\ ~Rules!CanContinue(w, Rules!Capped(x.st)) /\ ~Rules!MetNoCap(w, Rules!Capped(x.st))
      BY <1>6, WorkHolds
    <3>3. y \in G /\ y.st = Rules!Capped(x.st) /\ y.over = TRUE /\ y.branches = x.branches
      BY <3>1, <3>2 DEF Rules!Gathered
    <3> HIDE DEF y
    <3>4. ASSUME NEW S PROVE Gives(w, S, x.st, [st |-> y.st, branches |-> <<>>])
      BY <3>2, <3>3 DEF Gives
    <3>5. x.branches \o <<>> = x.branches /\ <<>> \in Seq(Rules!Branches)
      BY <1>6, ConcatEmptySeq
    <3>6. ASSUME NEW S PROVE Adds(w, S, x, y)
      BY <2>2, <3>2, <3>3, <3>4, <3>5 DEF Adds
    <3>7. QED BY <3>3, <3>6 DEF y
  <2>3. CASE ~x.over /\ Rules!HasWork(w, x.st)
    <3>1. y = Rules!Gather(w, x, found)
      BY <1>7, <2>3
    <3>2. found.st \in Rules!States /\ found.branches \in Seq(Rules!Branches)
      BY <1>6
    <3> HIDE DEF y, found
    <3>3. y \in G /\ y.st = found.st /\ y.branches = x.branches \o found.branches
          /\ (y.over => ~Rules!CanContinue(w, y.st))
      BY <3>1, <3>2, GatherHolds
    <3>4. ASSUME NEW S, Gives(w, S, Rules!Work(x.st), found)
          PROVE  Adds(w, S, x, y)
      <4>1. Later(x.st, found.st)
        BY <1>6, <3>2, <3>4, LaterHolds DEF Gives
      <4>2. Gives(w, S, x.st, [st |-> y.st, branches |-> found.branches])
        BY <3>3, <3>4, <4>1 DEF Gives
      <4>3. QED BY <2>3, <3>2, <3>3, <4>2 DEF Adds
    <3>5. QED BY <1>6, <3>3, <3>4 DEF y, found
  <2>4. QED BY <2>1, <2>2, <2>3
<1>9. step \in [(1..n) \X G -> G]
  <2>1. step = [z \in (1..n) \X G |-> step[z]]
    OBVIOUS
  <2> HIDE DEF step, G
  <2>2. QED BY <1>8, <2>1, StepIsTyped
<1>10. start \in G
  BY DEF Rules!Gathered
<1>11. Rules!Loop(step, n, start) \in G
  <2> HIDE DEF step, start, G
  <2>1. QED BY <1>2, <1>9, <1>10, LoopIsTyped
<1>12. ASSUME NEW T, NEW Q, Oracle(w, T, Q, holds), p.p \in Q
       PROVE  Gives(w, Meeting(w, T, p, b0), st, r)
  <2> DEFINE S == [i \in 1..n |-> {b \in {at(values[i])} : Meets(w, T, p, b)}]
  <2>1. ASSUME NEW i \in 1..n, NEW x \in G PROVE Adds(w, S[i], x, step[<<i, x>>])
    <3> HIDE DEF step
    <3>1. QED BY <1>8, <1>12
  <2>2. Gives(w, UNION {S[i] : i \in 1..n}, st, Rules!Loop(step, n, start))
    <3>1. Begins(st, start)
      BY DEF Begins
    <3>2. n \in Nat
      BY <1>2
    <3> HIDE DEF step, S, n, start
    <3>3. Gives(w, Together(S, n), st, Rules!Loop(step, n, start))
      BY <1>9, <2>1, <3>1, <3>2, Gathering
    <3>4. QED BY <3>3 DEF Together
  <2>3. \A i \in 1..n : at(values[i]) \in [DOMAIN b0 \cup Rules!VarsOf(p) -> RuleEntities]
                        /\ Extends(at(values[i]), b0)
    <3>1. \A e \in RuleEntities : at(e) \in [DOMAIN b0 \cup Rules!VarsOf(p) -> RuleEntities] /\ Extends(at(e), b0)
      BY <1>5, BindingsAre
    <3>2. \A i \in 1..n : values[i] \in RuleEntities
      BY <1>2
    <3>3. QED BY <3>1, <3>2
  <2>4. Rules!FreeEnds(p, DOMAIN b0) = 1
    BY DEF b0
  <2>5. UNION {S[i] : i \in 1..n} \subseteq Meeting(w, T, p, b0)
    <3>1. ASSUME NEW i \in 1..n, NEW b \in S[i] PROVE b \in Meeting(w, T, p, b0)
      <4>1. b = at(values[i]) /\ Meets(w, T, p, b)
        OBVIOUS
      <4>2. b \in [DOMAIN b0 \cup Rules!VarsOf(p) -> RuleEntities] /\ Extends(b, b0)
        BY <2>3, <4>1
      <4>3. Rules!Ground(p, b) \in Rules!Stored(w) \cup Rules!Assumed(w)
        BY <1>2, <4>1
      <4>4. Met(w, T, p, DOMAIN b0, b)
        BY <2>4, <4>1, <4>3 DEF Met
      <4>5. QED BY <4>2, <4>4 DEF Meeting
    <3> HIDE DEF S
    <3>2. QED BY <3>1
  <2>6. ASSUME Cardinality(RuleEntities) <= w.maxBindings, NEW b \in Meeting(w, T, p, b0)
        PROVE  b \in UNION {S[i] : i \in 1..n}
    <3>1. /\ b \in [DOMAIN b0 \cup Rules!VarsOf(p) -> RuleEntities] /\ Extends(b, b0)
          /\ Meets(w, T, p, b) /\ Rules!Ground(p, b) \in known
      BY <2>4, <2>6 DEF Meeting, Met
    <3>2. free \in DOMAIN b /\ b[free] \in RuleEntities
      BY <1>3, <3>1
    <3>3. Extends(b, at(b[free]))
      BY <3>1, <3>2, BindIsLeast DEF at
    <3>4. b = at(b[free])
      BY <1>5, <3>1, <3>2, <3>3, ExtendsSame
    <3>5. PICK k \in 1..n : values[k] = b[free]
      BY <1>2, <2>6, <3>1, <3>2, <3>4
    <3>6. b \in S[k]
      BY <3>1, <3>4, <3>5
    <3>7. QED BY <3>6
  <2> HIDE DEF S
  <2>7. QED BY <1>4, <2>2, <2>5, <2>6, RulesCardinality DEF Gives, Rules!MetNoCap
<1>13. r \in G
  BY <1>4, <1>11
<1>14. QED BY <1>12, <1>13 DEF r, values, b0

\* A result has a state and branches.
Results == Rules!Founds \cup Rules!Gathered

\* The parts of a result.
LEMMA ResultsAre ==
  ASSUME NEW r \in Results PROVE r.st \in Rules!States /\ r.branches \in Seq(Rules!Branches)
  BY DEF Results, Rules!Founds, Rules!Gathered

\* A condition finds the bindings it holds for, however many of its ends are free.
LEMMA EvalConditionGives ==
  ASSUME NEW w, Rules!IsWorld(w), NEW holds \in [Asks -> Rules!Replies],
         NEW p \in Rules!Patterns, p.neg => Rules!HasNegation(w),
         NEW branch \in Rules!Branches, NEW st \in Rules!States
  PROVE  LET r == Rules!EvalCondition(w, holds, p, branch, st) IN
         /\ r \in Results
         /\ \A T, Q : Oracle(w, T, Q, holds) /\ p.p \in Q => Gives(w, Meeting(w, T, p, branch.b), st, r)
<1> DEFINE b0 == branch.b
           free == Rules!FreeEnds(p, DOMAIN b0)
           r == Rules!EvalCondition(w, holds, p, branch, st)
<1>1. b0 \in Rules!Bindings /\ free \in 0..2
  BY BranchesAre, GroundIs
<1>2. CASE free = 0
  <2>1. r = Rules!EvalGrounded(holds, p, branch, st)
    BY <1>2 DEF Rules!EvalCondition
  <2>2. Rules!VarsOf(p) \subseteq DOMAIN b0
    BY <1>2, GroundIs
  <2> HIDE DEF r
  <2>3. r \in Rules!Founds
    BY <2>1, <2>2, GroundedGives
  <2>4. ASSUME NEW T, NEW Q, Oracle(w, T, Q, holds), p.p \in Q
        PROVE  Gives(w, Meeting(w, T, p, b0), st, r)
    <3>1. Gives(w, {b \in {b0} : Meets(w, T, p, b)}, st, r)
      BY <2>1, <2>2, <2>4, GroundedGives
    <3>2. Meeting(w, T, p, b0) = {b \in {b0} : Meets(w, T, p, b)}
      <4>1. DOMAIN b0 \cup Rules!VarsOf(p) = DOMAIN b0
        BY <2>2
      <4>2. b0 \in [DOMAIN b0 -> RuleEntities] /\ Extends(b0, b0)
        BY <1>1, BindingsAre DEF Extends
      <4>3. \A b \in [DOMAIN b0 -> RuleEntities] : Extends(b, b0) => b = b0
        BY <1>1, ExtendsSame
      <4>4. \A b : Met(w, T, p, DOMAIN b0, b) <=> Meets(w, T, p, b)
        BY <1>2 DEF Met
      <4> HIDE DEF b0
      <4>5. QED BY <4>1, <4>2, <4>3, <4>4 DEF Meeting
    <3>3. QED BY <3>1, <3>2
  <2>5. QED BY <2>3, <2>4 DEF r, Results
<1>3. CASE free = 1 /\ ~p.neg
  <2>1. r = Rules!EachValue(w, holds, p, Rules!Values(w, p, b0), branch, st)
    <3>1. free # 0
      BY <1>3
    <3>2. QED BY <1>3, <3>1, Zenon DEF Rules!EvalCondition
  <2> HIDE DEF r
  <2>2. r \in Rules!Gathered
    BY <1>3, <2>1, EachValueGives
  <2>3. \A T, Q : Oracle(w, T, Q, holds) /\ p.p \in Q => Gives(w, Meeting(w, T, p, b0), st, r)
    BY <1>3, <2>1, EachValueGives
  <2>4. QED BY <2>2, <2>3 DEF r, Results
<1>4. CASE free # 0 /\ ~(free = 1 /\ ~p.neg)
  <2>1. r = [st |-> st, branches |-> <<>>]
    BY <1>4, Zenon DEF Rules!EvalCondition
  <2> HIDE DEF r
  <2>2. r \in Rules!Founds
    BY <2>1 DEF Rules!Founds
  <2>3. ASSUME NEW T, NEW Q, Oracle(w, T, Q, holds) PROVE Gives(w, Meeting(w, T, p, b0), st, r)
    <3>1. Meeting(w, T, p, b0) = {}
      <4>1. SUFFICES ASSUME NEW b, Met(w, T, p, DOMAIN b0, b) PROVE FALSE
        BY DEF Meeting
      <4>2. free = 1 /\ p.neg /\ Rules!Ground(p, b) \in Rules!Stored(w) \cup Rules!Assumed(w)
        BY <1>1, <1>4, <4>1, PatternsAre DEF Met
      <4>3. ~Rules!IsTrue(w, T, Rules!Ground(p, b))
        BY <4>1, <4>2 DEF Met, Meets
      <4>4. QED BY <2>3, <4>2, <4>3 DEF Oracle, Rules!IsTrue
    <3>2. Later(st, st)
      BY LaterHolds
    <3>3. QED BY <2>1, <3>1, <3>2 DEF Gives
  <2>4. QED BY <2>2, <2>3 DEF r, Results
<1>5. QED BY <1>2, <1>3, <1>4

Joined(F, S) == UNION {F[b] : b \in S}

\* What is found for the rest, of every branch.
LEMMA ExtendGives ==
  ASSUME NEW w, Rules!IsWorld(w), NEW rest \in [Rules!Branches \X Rules!States -> Results],
         NEW found \in Results
  PROVE  LET r == Rules!Extend(w, rest, found) IN
         /\ r \in Rules!Gathered
         /\ \A S, F : \A st \in Rules!States :
              /\ Gives(w, S, st, found)
              /\ \A br \in Rules!Branches, t \in Rules!States : Gives(w, F[br.b], t, rest[<<br, t>>])
              => Gives(w, Joined(F, S), st, r)
<1> DEFINE n == Len(found.branches)
           G == Rules!Gathered
           br(i) == found.branches[i]
           tried(i, x) == rest[<<br(i), x.st>>]
           step == [x \in (1..n) \X G |->
                      IF x[2].over THEN x[2]
                      ELSE Rules!Gather(w, x[2], rest[<<found.branches[x[1]], x[2].st>>])]
           start == [st |-> found.st, branches |-> <<>>, over |-> FALSE]
           r == Rules!Extend(w, rest, found)
<1>1. found.st \in Rules!States /\ found.branches \in Seq(Rules!Branches) /\ n \in Nat
      /\ \A i \in 1..n : br(i) \in Rules!Branches
  BY ResultsAre
<1>2. r = Rules!Loop(step, n, start)
  BY Zenon DEF Rules!Extend
<1> HIDE DEF r
<1>3. ASSUME NEW i \in 1..n, NEW x \in G
      PROVE  /\ x.st \in Rules!States /\ x.branches \in Seq(Rules!Branches) /\ x.over \in BOOLEAN
             /\ tried(i, x).st \in Rules!States /\ tried(i, x).branches \in Seq(Rules!Branches)
  <2>1. x.st \in Rules!States /\ x.branches \in Seq(Rules!Branches) /\ x.over \in BOOLEAN
    BY DEF Rules!Gathered
  <2>2. tried(i, x) \in Results
    BY <1>1, <2>1
  <2>3. QED BY <2>1, <2>2, ResultsAre
<1>4. ASSUME NEW i \in 1..n, NEW x \in G
      PROVE  /\ x.over => step[<<i, x>>] = x
             /\ ~x.over => /\ step[<<i, x>>].st = tried(i, x).st
                           /\ step[<<i, x>>].branches = x.branches \o tried(i, x).branches
                           /\ (step[<<i, x>>].over => ~Rules!CanContinue(w, step[<<i, x>>].st))
             /\ step[<<i, x>>] \in G
  <2> DEFINE y == step[<<i, x>>]
             more == tried(i, x)
  <2>1. (x.over => y = x) /\ (~x.over => y = Rules!Gather(w, x, more))
    OBVIOUS
  <2>2. more.st \in Rules!States /\ more.branches \in Seq(Rules!Branches) /\ x.branches \in Seq(Rules!Branches)
    BY <1>3
  <2> HIDE DEF y, more, step
  <2>3. CASE ~x.over
    <3>1. y = Rules!Gather(w, x, more)
      BY <2>1, <2>3
    <3>2. /\ y \in Rules!Gathered
          /\ y.st = more.st /\ y.branches = x.branches \o more.branches /\ (y.over => ~Rules!CanContinue(w, y.st))
      BY <2>2, <3>1, GatherHolds
    <3>3. QED BY <2>3, <3>2 DEF y, more
  <2>4. CASE x.over
    BY <2>1, <2>4 DEF y
  <2>5. QED BY <2>3, <2>4
<1>5. step \in [(1..n) \X G -> G]
  <2>1. step = [z \in (1..n) \X G |-> step[z]]
    OBVIOUS
  <2> HIDE DEF step, G
  <2>2. QED BY <1>4, <2>1, StepIsTyped
<1>6. start \in G
  BY <1>1 DEF Rules!Gathered
<1>7. Rules!Loop(step, n, start) \in G
  <2> HIDE DEF step, start, G
  <2>1. QED BY <1>1, <1>5, <1>6, LoopIsTyped
<1>8. ASSUME NEW S, NEW F, NEW st \in Rules!States, Gives(w, S, st, found),
             \A b \in Rules!Branches, t \in Rules!States : Gives(w, F[b.b], t, rest[<<b, t>>])
      PROVE  Gives(w, Joined(F, S), st, r)
  <2> DEFINE Each == [i \in 1..n |-> F[br(i).b]]
             U == Together(Each, n)
  <2>1. ASSUME NEW i \in 1..n, NEW x \in G PROVE Adds(w, Each[i], x, step[<<i, x>>])
    <3> DEFINE y == step[<<i, x>>]
               more == tried(i, x).branches
    <3>1. Gives(w, Each[i], x.st, tried(i, x))
      BY <1>1, <1>3, <1>8
    <3>2. CASE x.over
      <4>1. y = x
        BY <1>4, <3>2
      <4> HIDE DEF y
      <4>2. QED BY <3>2, <4>1 DEF Adds, y
    <3>3. CASE ~x.over
      <4>1. y.st = tried(i, x).st /\ y.branches = x.branches \o more /\ (y.over => ~Rules!CanContinue(w, y.st))
        BY <1>4, <3>3
      <4>2. more \in Seq(Rules!Branches)
        BY <1>3
      <4> HIDE DEF y, Each
      <4>3. Gives(w, Each[i], x.st, [st |-> y.st, branches |-> more])
        BY <3>1, <4>1 DEF Gives
      <4> HIDE DEF more
      <4>4. QED BY <3>3, <4>1, <4>2, <4>3 DEF Adds, y
    <3>4. QED BY <3>2, <3>3
  <2>2. Gives(w, U, found.st, r)
    <3>1. Begins(found.st, start)
      BY DEF Begins
    <3> DEFINE from == found.st
    <3>2. from \in Rules!States /\ n \in Nat /\ Begins(from, start)
      BY <1>1, <3>1
    <3> HIDE DEF step, Each, n, start, from
    <3>3. Gives(w, U, from, Rules!Loop(step, n, start))
      BY <1>5, <2>1, <3>1, <3>2, Gathering
    <3>4. QED BY <1>2, <3>3 DEF from
  <2>3. r.st \in Rules!States
    BY <1>2, <1>7, <1>5 DEF Rules!Gathered
  <2>4. /\ Later(st, r.st) /\ (Okay(w, r.st) => Okay(w, found.st))
        /\ Rules!MetNoCap(w, r.st) => Rules!MetNoCap(w, found.st)
    BY <1>1, <1>8, <2>2, <2>3, LaterHolds DEF Gives
  <2>5. Okay(w, r.st) => U \subseteq Joined(F, S)
    BY <1>8, <2>4 DEF Gives, Together, Joined
  <2>6. Rules!MetNoCap(w, r.st) => Joined(F, S) \subseteq U
    <3>1. SUFFICES ASSUME Rules!MetNoCap(w, r.st), NEW b \in S PROVE F[b] \subseteq U
      BY DEF Joined
    <3>2. PICK i \in 1..n : br(i).b = b
      BY <1>8, <2>4, <3>1 DEF Gives
    <3>3. QED BY <3>2 DEF Together
  <2> HIDE DEF U
  <2>7. QED BY <2>2, <2>4, <2>5, <2>6 DEF Gives
<1>9. r \in G
  BY <1>2, <1>7
<1>10. QED BY <1>8, <1>9 DEF r

\* Extending the branches by the rest of the conditions finds what both allow.
LEMMA ExtendGivesAll ==
  ASSUME NEW w, Rules!IsWorld(w), NEW rest \in [Rules!Branches \X Rules!States -> Results],
         NEW found \in Results, NEW S, NEW F, NEW st \in Rules!States, Gives(w, S, st, found),
         \A br \in Rules!Branches, t \in Rules!States : Gives(w, F[br.b], t, rest[<<br, t>>])
  PROVE  Gives(w, Joined(F, S), st, Rules!Extend(w, rest, found))
  BY ExtendGives

\* Whether a pattern is met does not change when more is bound.
LEMMA MetStays ==
  ASSUME NEW w, NEW T, NEW p \in Rules!Patterns, NEW bound,
         NEW b1 \in Rules!Bindings, Rules!VarsOf(p) \subseteq DOMAIN b1, NEW b, Extends(b, b1)
  PROVE  Met(w, T, p, bound, b) <=> Met(w, T, p, bound, b1)
<1>1. Rules!Ground(p, b) = Rules!Ground(p, b1)
  BY GroundStays
<1>2. QED BY <1>1 DEF Met, Meets

\* What is bound after the conditions from k to j, and the bindings that go on
\* from b0 and meet all of those from k on, in that order.
After(conditions, bound, k, j) == bound \cup UNION {Rules!VarsOf(conditions[i]) : i \in k..j}
RestOf(w, T, conditions, k, b0) ==
  {b \in [After(conditions, DOMAIN b0, k, Len(conditions)) -> RuleEntities] :
     /\ Extends(b, b0)
     /\ \A j \in k..Len(conditions) :
          Met(w, T, conditions[j], After(conditions, DOMAIN b0, k, j - 1), b)}

\* Before its turn a condition binds nothing.
LEMMA NothingAfter ==
  ASSUME NEW conditions, NEW bound, NEW k \in Int, NEW j \in Int, j < k
  PROVE  After(conditions, bound, k, j) = bound
<1>1. k..j = {}
  OBVIOUS
<1>2. QED BY <1>1 DEF After

\* What is bound after a condition is bound for all that follow.
LEMMA AfterOne ==
  ASSUME NEW conditions, NEW bound, NEW k \in Int, NEW j \in Int, k <= j, NEW further, further = k + 1,
         NEW more, more = bound \cup Rules!VarsOf(conditions[k])
  PROVE  After(conditions, more, further, j) = After(conditions, bound, k, j)
<1>1. k..j = {k} \cup further..j
  OBVIOUS
<1>2. QED BY <1>1 DEF After

\* After the last condition nothing is left to find.
LEMMA RestIsDone ==
  ASSUME NEW w, NEW T, NEW conditions \in Seq(Rules!Patterns), NEW b0 \in Rules!Bindings,
         NEW k, k = Len(conditions) + 1
  PROVE  RestOf(w, T, conditions, k, b0) = {b0}
<1> DEFINE L == Len(conditions)
           D == DOMAIN b0
<1>1. L \in Nat
  OBVIOUS
<1>2. After(conditions, D, L + 1, L) = D
  <2> DEFINE m == L + 1
  <2>1. m \in Int /\ L \in Int /\ L < m
    BY <1>1
  <2> HIDE DEF m, L
  <2>2. After(conditions, D, m, L) = D
    BY <2>1, NothingAfter
  <2>3. QED BY <2>2 DEF m
<1>3. b0 \in [D -> RuleEntities] /\ Extends(b0, b0)
  BY BindingsAre DEF Extends
<1>4. \A b \in [D -> RuleEntities] : Extends(b, b0) => b = b0
  BY ExtendsSame
<1>5. (L + 1)..L = {}
  BY <1>1
<1> HIDE DEF D
<1>6. RestOf(w, T, conditions, L + 1, b0) =
        {b \in [D -> RuleEntities] : Extends(b, b0)
           /\ \A j \in (L + 1)..L : Met(w, T, conditions[j], After(conditions, D, L + 1, j - 1), b)}
  BY <1>2 DEF RestOf, D
<1>7. QED BY <1>3, <1>4, <1>5, <1>6

\* The rest from k on is what meets the k-th, and the rest from the next on.
GoesOn(w, T, conditions, k, further, b0) ==
  \A b : b \in RestOf(w, T, conditions, k, b0) <=>
           \E b1 \in Meeting(w, T, conditions[k], b0) : b \in RestOf(w, T, conditions, further, b1)

\* What the rest finds is what a condition and then the rest after it find.
LEMMA RestGoesOn ==
  ASSUME NEW w, NEW T, NEW conditions \in Seq(Rules!Patterns), NEW b0 \in Rules!Bindings,
         NEW k \in 1..Len(conditions), NEW further, further = k + 1
  PROVE  GoesOn(w, T, conditions, k, further, b0)
<1> DEFINE L == Len(conditions)
           D == DOMAIN b0
<1>1. L \in Nat
  OBVIOUS
<1> DEFINE p == conditions[k]
           E == D \cup Rules!VarsOf(p)
           All == After(conditions, D, k, L)
           At(j, b) == Met(w, T, conditions[j], After(conditions, D, k, j - 1), b)
<1>2. p \in Rules!Patterns /\ k \in Int /\ L \in Int /\ k <= L
  BY <1>1
<1>3. /\ After(conditions, D, k, k - 1) = D
      /\ After(conditions, E, k + 1, L) = All
      /\ \A j \in (k + 1)..L : After(conditions, E, k + 1, j - 1) = After(conditions, D, k, j - 1)
  <2>1. further = k + 1 /\ E = D \cup Rules!VarsOf(conditions[k])
    OBVIOUS
  <2>2. ASSUME NEW j \in Int, j < k PROVE After(conditions, D, k, j) = D
    BY <1>2, <2>2, NothingAfter
  <2> HIDE DEF L, E, D
  <2>3. ASSUME NEW j \in Int, k <= j PROVE After(conditions, E, further, j) = After(conditions, D, k, j)
    BY <1>2, <2>1, <2>3, AfterOne
  <2>4. k - 1 \in Int /\ k - 1 < k /\ \A j \in (k + 1)..L : j - 1 \in Int /\ k <= j - 1
    BY <1>2
  <2>5. After(conditions, D, k, k - 1) = D
    BY <2>2, <2>4
  <2>6. After(conditions, E, further, L) = All
    BY <1>2, <2>3
  <2>7. \A j \in (k + 1)..L : After(conditions, E, further, j - 1) = After(conditions, D, k, j - 1)
    BY <2>3, <2>4
  <2>8. QED BY <2>5, <2>6, <2>7
<1>4. \A j : j \in k..L <=> j = k \/ j \in (k + 1)..L
  BY <1>2
<1>5. E \subseteq All
  BY <1>2, <1>3 DEF After
<1>6. RestOf(w, T, conditions, k, b0) =
        {b \in [All -> RuleEntities] : Extends(b, b0) /\ \A j \in k..L : At(j, b)}
  BY Zenon DEF RestOf
<1>7. ASSUME NEW b1, DOMAIN b1 = E
      PROVE  RestOf(w, T, conditions, k + 1, b1) =
               {b \in [All -> RuleEntities] : Extends(b, b1) /\ \A j \in (k + 1)..L : At(j, b)}
  <2>1. RestOf(w, T, conditions, k + 1, b1) =
          {b \in [After(conditions, E, k + 1, L) -> RuleEntities] :
             Extends(b, b1) /\ \A j \in (k + 1)..L : Met(w, T, conditions[j], After(conditions, E, k + 1, j - 1), b)}
    BY <1>7 DEF RestOf
  <2> HIDE DEF E, D, All, L
  <2>2. QED BY <1>3, <2>1
<1>8. ASSUME NEW b1 \in [E -> RuleEntities], NEW b, Extends(b, b1) PROVE At(k, b) <=> Met(w, T, p, D, b1)
  <2>1. b1 \in Rules!Bindings /\ Rules!VarsOf(p) \subseteq DOMAIN b1
    BY <1>2, BindingsAre, PatternsAre
  <2>2. Met(w, T, p, D, b) <=> Met(w, T, p, D, b1)
    BY <1>2, <1>8, <2>1, MetStays
  <2>3. QED BY <1>3, <2>2
<1>9. Meeting(w, T, p, b0) = {b \in [E -> RuleEntities] : Extends(b, b0) /\ Met(w, T, p, D, b)}
  BY DEF Meeting
<1> HIDE DEF At, E, All, p, L, D
<1>10. ASSUME NEW b \in RestOf(w, T, conditions, k, b0)
      PROVE  \E b1 \in Meeting(w, T, p, b0) : b \in RestOf(w, T, conditions, k + 1, b1)
  <2> DEFINE b1 == [x \in E |-> b[x]]
  <2>1. b \in [All -> RuleEntities] /\ Extends(b, b0) /\ At(k, b) /\ \A j \in (k + 1)..L : At(j, b)
    BY <1>4, <1>6
  <2>2. b1 \in [E -> RuleEntities] /\ DOMAIN b1 = E /\ Extends(b, b1)
    BY <1>5, <2>1 DEF Extends
  <2>3. Extends(b1, b0)
    BY <2>1, <2>2 DEF Extends, E, D
  <2> HIDE DEF b1
  <2>4. b1 \in Meeting(w, T, p, b0)
    BY <1>8, <1>9, <2>1, <2>2, <2>3
  <2>5. b \in RestOf(w, T, conditions, k + 1, b1)
    BY <1>7, <2>1, <2>2
  <2>6. QED BY <2>4, <2>5
<1>11. ASSUME NEW b1 \in Meeting(w, T, p, b0), NEW b \in RestOf(w, T, conditions, k + 1, b1)
       PROVE  b \in RestOf(w, T, conditions, k, b0)
  <2>1. b1 \in [E -> RuleEntities] /\ DOMAIN b1 = E /\ Extends(b1, b0) /\ Met(w, T, p, D, b1)
    BY <1>9
  <2>2. b \in [All -> RuleEntities] /\ Extends(b, b1) /\ \A j \in (k + 1)..L : At(j, b)
    BY <1>7, <2>1
  <2>3. At(k, b)
    BY <1>8, <2>1, <2>2
  <2>4. Extends(b, b0)
    BY <2>1, <2>2 DEF Extends
  <2>5. QED BY <1>4, <1>6, <2>2, <2>3, <2>4
<1>12. QED BY <1>10, <1>11 DEF p, GoesOn

\* All conditions, one after the other, find the bindings that all of them hold for.
LEMMA EvalConditionsGives ==
  ASSUME NEW w, Rules!IsWorld(w), NEW holds \in [Asks -> Rules!Replies],
         NEW conditions \in Seq(Rules!Patterns),
         \A k \in 1..Len(conditions) : conditions[k].neg => Rules!HasNegation(w),
         NEW branch \in Rules!Branches, NEW st \in Rules!States
  PROVE  LET r == Rules!EvalConditions(w, holds, conditions, branch, st) IN
         /\ r \in Results
         /\ \A T, Q : Oracle(w, T, Q, holds) /\ (\A k \in 1..Len(conditions) : conditions[k].p \in Q) =>
              Gives(w, RestOf(w, T, conditions, 1, branch.b), st, r)
<1> DEFINE L == Len(conditions)
           P == Rules!Branches \X Rules!States
           X == [P -> Results]
           found(m, x) == Rules!EvalCondition(w, holds, conditions[L - m + 1], x[1], Rules!Work(x[2]))
           none(x) == [st |-> x[2], branches |-> <<x[1]>>]
           after(m, e, x) ==
             IF ~Rules!HasWork(w, x[2]) THEN [st |-> Rules!Capped(x[2]), branches |-> <<>>]
             ELSE Rules!Extend(w, e, found(m, x))
           base == [x \in P |-> none(x)]
           further(m, e) == [x \in P |-> after(m, e, x)]
           step == [y \in (1..L) \X X |-> further(y[1], y[2])]
           IsEval(f) == f = [m \in 0..L |-> [x \in P |-> IF m = 0 THEN none(x) ELSE after(m, f[m - 1], x)]]
           eval == CHOOSE f : IsEval(f)
           r == Rules!EvalConditions(w, holds, conditions, branch, st)
<1>1. r = eval[L][<<branch, st>>]
  BY DEF Rules!EvalConditions
<1>2. L \in Nat /\ <<branch, st>> \in P /\ \A m \in 1..L : L - m + 1 \in 1..L /\ m \in 0..L /\ m - 1 \in 0..L /\ m # 0
  OBVIOUS
<1>3. ASSUME NEW x \in P
      PROVE  /\ x[1] \in Rules!Branches /\ x[2] \in Rules!States /\ x = <<x[1], x[2]>>
             /\ Rules!Work(x[2]) \in Rules!States /\ Later(x[2], Rules!Work(x[2]))
             /\ none(x) \in Results
             /\ [st |-> Rules!Capped(x[2]), branches |-> <<>>] \in Results
  <2>1. x[1] \in Rules!Branches /\ x[2] \in Rules!States /\ x = <<x[1], x[2]>>
    OBVIOUS
  <2>2. Rules!Work(x[2]) \in Rules!States /\ Later(x[2], Rules!Work(x[2])) /\ Rules!Capped(x[2]) \in Rules!States
    BY <2>1, WorkHolds
  <2> DEFINE s == x[2]
             t == Rules!Capped(x[2])
             b == x[1]
  <2>3. s \in Rules!States /\ t \in Rules!States /\ b \in Rules!Branches
    BY <2>1, <2>2
  <2> HIDE DEF s, t, b
  <2>4. [st |-> s, branches |-> <<b>>] \in Results /\ [st |-> t, branches |-> <<>>] \in Results
    BY <2>3 DEF Results, Rules!Founds
  <2>5. QED BY <2>1, <2>2, <2>4 DEF s, t, b
<1> HIDE DEF r, eval
<1>4. ASSUME NEW m \in 1..L, NEW x \in P
      PROVE  found(m, x) \in Results
  <2> DEFINE p == conditions[L - m + 1]
             s == Rules!Work(x[2])
             br == x[1]
  <2>1. p \in Rules!Patterns /\ (p.neg => Rules!HasNegation(w)) /\ s \in Rules!States /\ br \in Rules!Branches
    <3> DEFINE k == L - m + 1
    <3>1. k \in 1..L
      BY <1>2
    <3> HIDE DEF k
    <3>2. conditions[k] \in Rules!Patterns /\ (conditions[k].neg => Rules!HasNegation(w))
      BY <3>1
    <3>3. QED BY <1>3, <3>2 DEF k
  <2> HIDE DEF p, s, br
  <2>2. Rules!EvalCondition(w, holds, p, br, s) \in Results
    BY <2>1, EvalConditionGives
  <2>3. QED BY <2>2 DEF p, s, br
<1>5. ASSUME NEW m \in 1..L, NEW e \in X PROVE further(m, e) \in X
  <2>1. ASSUME NEW x \in P PROVE after(m, e, x) \in Results
    <3>1. found(m, x) \in Results
      BY <1>4
    <3> HIDE DEF found
    <3>2. Rules!Extend(w, e, found(m, x)) \in Results
      BY <3>1, ExtendGives DEF Results
    <3>3. QED BY <1>3, <3>2
  <2> HIDE DEF after
  <2>2. QED BY <2>1
<1>6. base \in X
  <2> HIDE DEF none
  <2>1. QED BY <1>3
<1>7. PICK f \in [0..L -> X] : f[0] = base /\ \A m \in 1..L : f[m] = further(m, f[m - 1])
  <2>1. \A m \in 1..L, e \in X : step[<<m, e>>] = further(m, e)
    OBVIOUS
  <2>2. step = [y \in (1..L) \X X |-> step[y]]
    OBVIOUS
  <2> HIDE DEF further, base, step, X
  <2>3. step \in [(1..L) \X X -> X]
    <3>1. \A m \in 1..L, e \in X : step[<<m, e>>] \in X
      BY <1>5, <2>1
    <3> HIDE DEF L
    <3>2. QED BY <2>2, <3>1, StepIsTyped
  <2>4. Goes(X, L, base, step, Rules!Loop(step, L, base))
    BY <1>2, <1>6, <2>3, LoopIterates
  <2>5. PICK f \in [0..L -> X] : f[0] = base /\ \A m \in 1..L : f[m] = step[<<m, f[m - 1]>>]
    BY <2>4, Zenon DEF Goes
  <2>6. \A m \in 1..L : f[m] = further(m, f[m - 1])
    BY <1>2, <2>1, <2>5
  <2>7. QED BY <2>5, <2>6
<1>8. IsEval(f)
  <2>1. f = [m \in 0..L |-> f[m]]
    OBVIOUS
  <2>2. \A m \in 0..L : m # 0 => m \in 1..L
    BY <1>2
  <2> HIDE DEF none, after, X, L
  <2>3. \A m \in 0..L : f[m] = [x \in P |-> IF m = 0 THEN none(x) ELSE after(m, f[m - 1], x)]
    <3>1. ASSUME NEW m \in 0..L, m = 0
          PROVE  f[m] = [x \in P |-> IF m = 0 THEN none(x) ELSE after(m, f[m - 1], x)]
      BY <1>7, <3>1
    <3>2. ASSUME NEW m \in 0..L, m # 0
          PROVE  f[m] = [x \in P |-> IF m = 0 THEN none(x) ELSE after(m, f[m - 1], x)]
      <4>1. f[m] = further(m, f[m - 1])
        BY <1>7, <2>2, <3>2
      <4>2. further(m, f[m - 1]) = [x \in P |-> IF m = 0 THEN none(x) ELSE after(m, f[m - 1], x)]
        BY <3>2
      <4> HIDE DEF further, P
      <4>3. QED BY <4>1, <4>2
    <3>3. QED BY <3>1, <3>2
  <2>4. QED BY <2>1, <2>3
<1>9. eval[0] = base /\ \A m \in 1..L : eval[m] = further(m, eval[m - 1])
  <2>1. IsEval(eval)
    <3> HIDE DEF IsEval
    <3>1. QED BY <1>8 DEF eval
  <2> HIDE DEF none, after
  <2>2. \A m \in 0..L : eval[m] = [x \in P |-> IF m = 0 THEN none(x) ELSE after(m, eval[m - 1], x)]
    BY <2>1
  <2>3. 0 \in 0..L
    BY <1>2
  <2> HIDE DEF P, L, IsEval
  <2>4. eval[0] = base
    BY <2>2, <2>3
  <2>5. ASSUME NEW m \in 1..L PROVE eval[m] = further(m, eval[m - 1])
    <3>1. m \in 0..L /\ m # 0
      BY <1>2
    <3>2. eval[m] = [x \in P |-> IF m = 0 THEN none(x) ELSE after(m, eval[m - 1], x)]
      BY <2>2, <3>1
    <3>3. QED BY <3>1, <3>2
  <2>6. QED BY <2>4, <2>5
<1> DEFINE rest(T, k, br) == RestOf(w, T, conditions, k, br.b)
           Right(m, e, T) == \A br \in Rules!Branches, t \in Rules!States :
                               Gives(w, rest(T, L - m + 1, br), t, e[<<br, t>>])
           Fit(T, Q) == Oracle(w, T, Q, holds) /\ \A k \in 1..L : conditions[k].p \in Q
           M == {m \in Nat : m <= L => eval[m] \in X /\ \A T, Q : Fit(T, Q) => Right(m, eval[m], T)}

<1>10. ASSUME NEW T, NEW Q, Fit(T, Q), NEW m \in 1..L, NEW e \in X, Right(m - 1, e, T)
       PROVE  Right(m, further(m, e), T)
  <2> DEFINE k == L - m + 1
             p == conditions[k]
  <2>1. SUFFICES ASSUME NEW br \in Rules!Branches, NEW t \in Rules!States
                 PROVE  Gives(w, rest(T, k, br), t, further(m, e)[<<br, t>>])
    OBVIOUS
  <2> DEFINE x == <<br, t>>
             y == further(m, e)[<<br, t>>]
             s == Rules!Work(t)
             S == Meeting(w, T, p, br.b)
  <2>2. k \in 1..L /\ L - (m - 1) + 1 = k + 1 /\ x \in P /\ x[1] = br /\ x[2] = t
    BY <1>2
  <2>3. y = after(m, e, x)
    BY <2>2
  <2>4. s \in Rules!States /\ Later(t, s) /\ p \in Rules!Patterns /\ p.p \in Q /\ Oracle(w, T, Q, holds)
        /\ (p.neg => Rules!HasNegation(w)) /\ br.b \in Rules!Bindings
    <3>1. s \in Rules!States /\ Later(t, s)
      BY WorkHolds
    <3>2. br.b \in Rules!Bindings
      BY BranchesAre
    <3>3. Oracle(w, T, Q, holds) /\ \A i \in 1..L : conditions[i].p \in Q
      BY <1>10
    <3>4. k \in 1..L
      BY <2>2
    <3> HIDE DEF s, k
    <3>5. p \in Rules!Patterns /\ p.p \in Q /\ (p.neg => Rules!HasNegation(w))
      BY <3>3, <3>4
    <3>6. QED BY <3>1, <3>2, <3>3, <3>5
  <2>5. CASE ~Rules!HasWork(w, t)
    <3>1. y = [st |-> Rules!Capped(t), branches |-> <<>>]
      BY <2>2, <2>3, <2>5
    <3>2. Later(t, Rules!Capped(t)) /\ ~Rules!MetNoCap(w, Rules!Capped(t))
      BY WorkHolds
    <3> HIDE DEF y
    <3>3. y.st = Rules!Capped(t) /\ y.branches = <<>>
      BY <3>1
    <3>4. \A any : Gives(w, any, t, y)
      BY <3>2, <3>3 DEF Gives
    <3>5. QED BY <3>4 DEF y
  <2>6. CASE Rules!HasWork(w, t)
    <3> DEFINE met == Rules!EvalCondition(w, holds, p, br, s)
               F == [b \in Rules!Bindings |-> RestOf(w, T, conditions, k + 1, b)]
    <3>1. y = Rules!Extend(w, e, met)
      BY <2>2, <2>3, <2>6
    <3>2. \A b \in Rules!Branches, u \in Rules!States : Gives(w, F[b.b], u, e[<<b, u>>])
      <4>1. ASSUME NEW b \in Rules!Branches, NEW u \in Rules!States
            PROVE  Gives(w, F[b.b], u, e[<<b, u>>])
        <5>1. b.b \in Rules!Bindings
          BY BranchesAre
        <5>2. Gives(w, RestOf(w, T, conditions, L - (m - 1) + 1, b.b), u, e[<<b, u>>])
          BY <1>10
        <5>3. F[b.b] = RestOf(w, T, conditions, L - (m - 1) + 1, b.b)
          BY <2>2, <5>1
        <5> HIDE DEF F
        <5>4. QED BY <5>2, <5>3
      <4>2. QED BY <4>1
    <3>3. Joined(F, S) = rest(T, k, br)
      <4>1. S \subseteq Rules!Bindings
        BY <2>4, MeetingIsTyped
      <4> DEFINE more == k + 1
      <4>2. k \in 1..L /\ k \in 1..(L + 1) /\ more = k + 1
        BY <1>2, <2>2
      <4>3. \A b \in S : F[b] = RestOf(w, T, conditions, more, b)
        BY <4>1
      <4>4. S = Meeting(w, T, conditions[k], br.b)
        OBVIOUS
      <4> HIDE DEF F, S, k, more
      <4> DEFINE b0 == br.b
      <4>5. \A b : b \in RestOf(w, T, conditions, k, b0) <=>
                     \E b1 \in Meeting(w, T, conditions[k], b0) : b \in RestOf(w, T, conditions, more, b1)
        <5>1. b0 \in Rules!Bindings
          BY <2>4
        <5> HIDE DEF b0
        <5>2. GoesOn(w, T, conditions, k, more, b0)
          BY <4>2, <5>1, RestGoesOn
        <5>3. QED BY <5>2 DEF GoesOn
      <4>6. QED BY <4>3, <4>4, <4>5 DEF Joined
    <3> HIDE DEF F, S, y, s, p, k, x, P, L
    <3>4. met \in Results /\ Gives(w, S, s, met)
      BY <2>4, EvalConditionGives DEF S
    <3>5. e \in [Rules!Branches \X Rules!States -> Results]
      BY DEF P
    <3> HIDE DEF met, X
    <3>6. Gives(w, Joined(F, S), s, y)
      BY <2>4, <3>1, <3>2, <3>4, <3>5, ExtendGivesAll
    <3>7. y.st \in Rules!States
      <4>1. y \in Rules!Gathered
        BY <3>1, <3>4, <3>5, ExtendGives
      <4>2. QED BY <4>1 DEF Rules!Gathered
    <3>8. Later(t, y.st)
      BY <2>4, <3>6, <3>7, LaterHolds DEF Gives
    <3>9. Gives(w, Joined(F, S), t, y)
      BY <3>6, <3>8 DEF Gives
    <3>10. QED BY <3>3, <3>9 DEF y, k
  <2>7. QED BY <2>5, <2>6
<1>11. ASSUME NEW T PROVE Right(0, base, T)
  <2>1. SUFFICES ASSUME NEW br \in Rules!Branches, NEW t \in Rules!States
                 PROVE  Gives(w, rest(T, L - 0 + 1, br), t, base[<<br, t>>])
    OBVIOUS
  <2>2. base[<<br, t>>] = [st |-> t, branches |-> <<br>>]
    OBVIOUS
  <2>3. rest(T, L + 1, br) = {br.b} /\ L - 0 + 1 = L + 1
    <3> DEFINE k == L + 1
               more == k + 1
    <3>1. k = L + 1 /\ k \in 1..(L + 1) /\ more = k + 1 /\ L - 0 + 1 = L + 1
      BY <1>2
    <3>2. br.b \in Rules!Bindings
      BY BranchesAre
    <3> HIDE DEF k, more
    <3>3. rest(T, k, br) = {br.b}
      BY <3>1, <3>2, RestIsDone
    <3>4. QED BY <3>1, <3>3 DEF k
  <2>4. Later(t, t)
    BY LaterHolds
  <2> HIDE DEF base, rest
  <2> DEFINE y == [st |-> t, branches |-> <<br>>]
  <2>5. y.st = t /\ Len(y.branches) = 1 /\ y.branches[1].b = br.b
    OBVIOUS
  <2> HIDE DEF y
  <2>6. Gives(w, {br.b}, t, y)
    BY <2>4, <2>5 DEF Gives
  <2>7. QED BY <2>2, <2>3, <2>6 DEF y
<1> HIDE DEF further, base, found, none, after, Right, Fit
<1>12. 0 \in M
  <2>1. eval[0] \in X /\ \A T, Q : Fit(T, Q) => Right(0, eval[0], T)
    BY <1>6, <1>9, <1>11
  <2>2. QED BY <2>1
<1>13. ASSUME NEW m \in M PROVE m + 1 \in M
  <2>1. SUFFICES ASSUME m + 1 <= L
                 PROVE  eval[m + 1] \in X /\ \A T, Q : Fit(T, Q) => Right(m + 1, eval[m + 1], T)
    OBVIOUS
  <2>2. m \in Nat /\ m <= L /\ m + 1 \in 1..L /\ (m + 1) - 1 = m
    BY <1>2, <2>1
  <2>3. eval[m] \in X /\ \A T, Q : Fit(T, Q) => Right(m, eval[m], T)
    BY <2>2
  <2>4. eval[m + 1] = further(m + 1, eval[m])
    BY <1>9, <2>2
  <2> HIDE DEF X, L, M
  <2>5. eval[m + 1] \in X
    BY <1>5, <2>2, <2>3, <2>4
  <2>6. ASSUME NEW T, NEW Q, Fit(T, Q) PROVE Right(m + 1, eval[m + 1], T)
    <3>1. Right((m + 1) - 1, eval[m], T)
      BY <2>2, <2>3, <2>6
    <3>2. QED BY <1>10, <2>2, <2>3, <2>4, <2>6, <3>1
  <2>7. QED BY <2>5, <2>6
<1>14. Nat \subseteq M
  <2> HIDE DEF M
  <2>1. M \in SUBSET Nat BY DEF M
  <2>2. QED BY <1>12, <1>13, <2>1, Induction
<1>15. eval[L] \in X /\ \A T, Q : Fit(T, Q) => Right(L, eval[L], T)
  <2>1. L \in M
    <3> HIDE DEF M
    <3>1. QED BY <1>2, <1>14
  <2> HIDE DEF X, L
  <2>2. L <= L
    BY <1>2
  <2>3. QED BY <2>1, <2>2
<1>16. r \in Results
  BY <1>1, <1>2, <1>15
<1>17. ASSUME NEW T, NEW Q, Oracle(w, T, Q, holds), \A k \in 1..L : conditions[k].p \in Q
       PROVE  Gives(w, RestOf(w, T, conditions, 1, branch.b), st, r)
  <2>1. Right(L, eval[L], T)
    BY <1>15, <1>17 DEF Fit
  <2>2. L - L + 1 = 1
    BY <1>2
  <2> HIDE DEF L
  <2>3. Gives(w, RestOf(w, T, conditions, L - L + 1, branch.b), st, eval[L][<<branch, st>>])
    BY <2>1 DEF Right
  <2>4. QED BY <1>1, <2>2, <2>3
<1>18. QED BY <1>16, <1>17 DEF r

-----------------------------------------------------------------------------
(* Exceptions *)

Decisions == [st : Rules!States, veto : BOOLEAN]

\* What an exception asks is decided: if it vetoes when what it names does not
\* hold, among the predicates Q, and otherwise where no rule derives anything.
IsDecided(w, Q, exception) == IF exception.neg THEN exception.p \in Q ELSE Underived(w, exception.p)

\* A verdict on the exceptions in a set.
Vets(w, T, S, b, st, v) ==
  /\ Later(st, v.st)
  /\ Okay(w, v.st) /\ ~v.veto => \A e \in S : ~Rules!Vetoed(w, T, T, e, b)
  /\ Rules!MetNoCap(w, v.st) /\ v.veto => \E e \in S : Rules!Vetoed(w, T, T, e, b)

\* What is stored or assumed has a proof, at its cost.
LEMMA ProofOfHolds ==
  ASSUME NEW w, NEW g
  PROVE  /\ ProofOf(w, g) # {} <=> g \in Rules!Stored(w) \cup Rules!Assumed(w)
         /\ \A p \in ProofOf(w, g) : p.cost = IF g \in w.weak \ w.strong THEN WeakCost ELSE 0
<1>1. \A cost : Rules!Fact(cost) # {} /\ \A p \in Rules!Fact(cost) : p.cost = cost
  BY DEF Rules!Fact
<1>2. CASE g \in w.strong
  <2>1. ProofOf(w, g) = Rules!Fact(0)
    BY <1>1, <1>2 DEF ProofOf, Rules!BaseProof
  <2>2. QED BY <1>1, <1>2, <2>1 DEF Rules!Stored
<1>3. CASE g \in w.weak \ w.strong
  <2>1. ProofOf(w, g) = Rules!Fact(WeakCost)
    BY <1>1, <1>3 DEF ProofOf, Rules!BaseProof
  <2>2. QED BY <1>1, <1>3, <2>1 DEF Rules!Stored
<1>4. CASE g \notin w.strong /\ g \notin w.weak
  <2>1. ProofOf(w, g) = IF g \in Rules!Assumed(w) THEN Rules!Fact(0) ELSE {}
    BY <1>4 DEF ProofOf, Rules!BaseProof
  <2>2. QED BY <1>1, <1>4, <2>1 DEF Rules!Stored
<1>5. QED BY <1>2, <1>3, <1>4

\* One exception vetoes where it holds, or, negated, where it does not.
LEMMA DecideVets ==
  ASSUME NEW w, Rules!IsWorld(w), NEW holds \in [Asks -> Rules!Replies],
         NEW e \in Rules!Patterns, NEW b \in Rules!Bindings, Rules!IsGround(e, b), NEW st \in Rules!States,
         NEW v, v = Rules!Decide(e, holds[<<Rules!Ground(e, b), st>>])
  PROVE  /\ v \in Decisions
         /\ \A T, Q : Oracle(w, T, Q, holds) /\ IsDecided(w, Q, e) => Vets(w, T, {e}, b, st, v)
<1> DEFINE g == Rules!Ground(e, b)
           found == holds[<<g, st>>]
<1>1. g \in Rules!GroundClaims /\ g[2] = e.p
  <2>1. Rules!VarsOf(e) \subseteq DOMAIN b
    BY GroundIs DEF Rules!IsGround
  <2>2. QED BY <2>1, GroundStays
<1>2. found \in Rules!Replies /\ found.st \in Rules!States /\ found.proof \subseteq Rules!Proofs
  <2>1. found \in Rules!Replies
    BY <1>1 DEF Asks
  <2>2. QED BY <2>1 DEF Rules!Replies
<1> HIDE DEF g, found
<1>3. CASE e.neg
  <2>1. v.st = found.st /\ (v.veto <=> found.proof = {}) /\ v \in Decisions
    BY <1>2, <1>3 DEF found, g, Rules!Decide, Rules!Vetoes, Decisions
  <2>2. ASSUME NEW T, NEW Q, Oracle(w, T, Q, holds), IsDecided(w, Q, e) PROVE Vets(w, T, {e}, b, st, v)
    <3>1. /\ Later(st, found.st)
          /\ Okay(w, found.st) /\ found.proof # {} => Rules!IsTrue(w, T, g)
          /\ Rules!MetNoCap(w, found.st) /\ Rules!IsTrue(w, T, g) => found.proof # {}
      BY <1>1, <1>3, <2>2 DEF Oracle, IsDecided, found
    <3>2. Rules!Vetoed(w, T, T, e, b) <=> ~Rules!IsTrue(w, T, g)
      BY <1>3 DEF Rules!Vetoed, g
    <3>3. QED BY <2>1, <3>1, <3>2 DEF Vets
  <2>3. QED BY <2>1, <2>2
<1>4. CASE ~e.neg
  <2>1. v.st = found.st /\ (v.veto <=> \E p \in found.proof : p.cost <= Threshold) /\ v \in Decisions
    BY <1>2, <1>4 DEF found, g, Rules!Decide, Rules!Vetoes, Decisions
  <2>2. ASSUME NEW T, NEW Q, Oracle(w, T, Q, holds), IsDecided(w, Q, e) PROVE Vets(w, T, {e}, b, st, v)
    <3>1. Later(st, found.st) /\ found.proof = ProofOf(w, g) /\ (g \in T <=> g \in Rules!Stored(w))
      BY <1>1, <1>4, <2>2 DEF Oracle, IsDecided, found
    <3>2. Rules!Vetoed(w, T, T, e, b) <=>
            Rules!IsTrue(w, T, g) /\ (g \in w.weak \ w.strong => WeakCost <= Threshold)
      BY <1>4 DEF Rules!Vetoed, g
    <3>3. Rules!IsTrue(w, T, g) <=> ProofOf(w, g) # {}
      BY <3>1, ProofOfHolds DEF Rules!IsTrue
    <3>4. Rules!Vetoed(w, T, T, e, b) <=> \E p \in ProofOf(w, g) : p.cost <= Threshold
      BY <3>2, <3>3, ProofOfHolds, CostsAreNatural
    <3>5. QED BY <2>1, <3>1, <3>4 DEF Vets
  <2>3. QED BY <2>1, <2>2
<1>5. QED BY <1>3, <1>4

\* Exceptions veto if one of those that are ground does.
LEMMA VetoVets ==
  ASSUME NEW w, Rules!IsWorld(w), NEW holds \in [Asks -> Rules!Replies],
         NEW exceptions \in Seq(Rules!Patterns), NEW b \in Rules!Bindings, NEW st \in Rules!States
  PROVE  LET v == Rules!Veto(holds, exceptions, b, st) IN
         /\ v \in Decisions
         /\ \A T, Q : Oracle(w, T, Q, holds) /\ (\A k \in 1..Len(exceptions) : IsDecided(w, Q, exceptions[k])) =>
              Vets(w, T, {exceptions[k] : k \in 1..Len(exceptions)}, b, st, v)
<1> DEFINE n == Len(exceptions)
           G == Decisions
           decide(i, x) == Rules!Decide(exceptions[i], holds[<<Rules!Ground(exceptions[i], b), x.st>>])
           step == [x \in (1..n) \X G |->
                      LET e == exceptions[x[1]] IN
                      IF x[2].veto \/ ~Rules!IsGround(e, b) THEN x[2]
                      ELSE Rules!Decide(e, holds[<<Rules!Ground(e, b), x[2].st>>])]
           start == [st |-> st, veto |-> FALSE]
           v == Rules!Veto(holds, exceptions, b, st)
           Upto(i) == {exceptions[k] : k \in 1..i}
<1>1. v = Rules!Loop(step, n, start)
  BY Zenon DEF Rules!Veto, Decisions
<1>2. n \in Nat /\ \A i \in 1..n : exceptions[i] \in Rules!Patterns
  OBVIOUS
<1> HIDE DEF v
<1>3. \A x \in G : x.st \in Rules!States /\ x.veto \in BOOLEAN
  BY DEF Decisions
<1>4. ASSUME NEW i \in 1..n, NEW x \in G
      PROVE  /\ x.veto \/ ~Rules!IsGround(exceptions[i], b) => step[<<i, x>>] = x
             /\ ~x.veto /\ Rules!IsGround(exceptions[i], b) => step[<<i, x>>] = decide(i, x)
  <2> HIDE DEF G
  <2>1. QED OBVIOUS
<1>5. step = [z \in (1..n) \X G |-> step[z]]
  OBVIOUS
<1> HIDE DEF step
<1>6. ASSUME NEW i \in 1..n, NEW x \in G
      PROVE  /\ step[<<i, x>>] \in G
             /\ \A T, Q : Oracle(w, T, Q, holds) /\ IsDecided(w, Q, exceptions[i]) =>
                  /\ x.veto => step[<<i, x>>] = x
                  /\ ~x.veto => Vets(w, T, {exceptions[i]}, b, x.st, step[<<i, x>>])
  <2> DEFINE e == exceptions[i]
             y == step[<<i, x>>]
  <2>1. e \in Rules!Patterns
    BY <1>2
  <2>2. CASE x.veto
    <3>1. y = x
      BY <1>4, <2>2
    <3> HIDE DEF y
    <3>2. QED BY <2>2, <3>1 DEF y
  <2>3. CASE ~x.veto /\ ~Rules!IsGround(e, b)
    <3>1. y = x
      BY <1>4, <2>3
    <3>2. \A T : ~Rules!Vetoed(w, T, T, e, b)
      BY <2>3 DEF Rules!Vetoed
    <3>3. Later(x.st, x.st)
      BY <1>3, LaterHolds
    <3> HIDE DEF y
    <3>4. \A T : Vets(w, T, {e}, b, x.st, y)
      BY <2>3, <3>1, <3>2, <3>3 DEF Vets
    <3>5. QED BY <2>3, <3>1, <3>4 DEF y
  <2>4. CASE ~x.veto /\ Rules!IsGround(e, b)
    <3>1. y = decide(i, x)
      BY <1>4, <2>4
    <3>2. x.st \in Rules!States
      BY <1>3
    <3> HIDE DEF y
    <3>3. y \in Decisions
      BY <2>1, <2>4, <3>1, <3>2, DecideVets
    <3>4. \A T, Q : Oracle(w, T, Q, holds) /\ IsDecided(w, Q, e) => Vets(w, T, {e}, b, x.st, y)
      BY <2>1, <2>4, <3>1, <3>2, DecideVets
    <3>5. QED BY <2>4, <3>3, <3>4 DEF y
  <2>5. QED BY <2>2, <2>3, <2>4
<1>7. step \in [(1..n) \X G -> G] /\ start \in G
  <2>1. start \in G
    BY DEF Decisions
  <2> HIDE DEF G
  <2>2. QED BY <1>5, <1>6, <2>1, StepIsTyped
<1>8. v \in G
  <2> HIDE DEF G, n, start
  <2>1. QED BY <1>1, <1>2, <1>7, LoopIsTyped
<1>9. ASSUME NEW T, NEW Q, Oracle(w, T, Q, holds), \A k \in 1..n : IsDecided(w, Q, exceptions[k])
      PROVE  Vets(w, T, Upto(n), b, st, v)
  <2> DEFINE Good(i, x) == Vets(w, T, Upto(i), b, st, x)
             Inv == {y \in (0..n) \X G : Good(y[1], y[2])}
  <2>1. Good(0, start)
    <3>1. Later(st, start.st) /\ ~start.veto
      BY LaterHolds
    <3>2. Upto(0) = {}
      OBVIOUS
    <3> HIDE DEF start, Upto
    <3>3. QED BY <3>1, <3>2 DEF Vets
  <2>2. ASSUME NEW i \in 1..n, NEW x \in G, Good(i - 1, x) PROVE Good(i, step[<<i, x>>])
    <3> DEFINE y == step[<<i, x>>]
    <3>1. Upto(i) = Upto(i - 1) \cup {exceptions[i]}
      <4>1. 1..i = 1..(i - 1) \cup {i}
        OBVIOUS
      <4>2. QED BY <4>1
    <3>2. y \in G /\ (x.veto => y = x) /\ (~x.veto => Vets(w, T, {exceptions[i]}, b, x.st, y))
      BY <1>6, <1>9
    <3>3. x.st \in Rules!States /\ y.st \in Rules!States
      BY <1>3, <3>2
    <3> HIDE DEF y, Upto
    <3>4. CASE x.veto
      BY <2>2, <3>1, <3>2, <3>4 DEF Vets, y
    <3>5. CASE ~x.veto
      <4>1. Later(st, y.st) /\ (Okay(w, y.st) => Okay(w, x.st))
        BY <2>2, <3>2, <3>3, <3>5, LaterHolds DEF Vets
      <4>2. Good(i, y)
        BY <2>2, <3>1, <3>2, <3>5, <4>1 DEF Vets
      <4>3. QED BY <4>2 DEF y
    <3>6. QED BY <3>4, <3>5
  <2>3. <<0, start>> \in Inv
    <3>1. 0 \in 0..n /\ start \in G
      BY <1>2, <1>7
    <3> HIDE DEF Good, start, G
    <3>2. QED BY <2>1, <3>1
  <2>4. ASSUME NEW i \in 1..n, NEW x \in G, <<i - 1, x>> \in Inv PROVE <<i, step[<<i, x>>]>> \in Inv
    <3> HIDE DEF Good, G
    <3>1. Good(i - 1, x)
      BY <2>4
    <3>2. Good(i, step[<<i, x>>]) /\ step[<<i, x>>] \in G /\ i \in 0..n
      <4>1. Good(i, step[<<i, x>>])
        BY <2>2, <3>1
      <4>2. step[<<i, x>>] \in G
        BY <1>6
      <4>3. QED BY <4>1, <4>2
    <3>3. QED BY <3>2
  <2>5. <<n, v>> \in Inv
    <3> HIDE DEF Inv, G, n, start
    <3>1. Keeps(G, n, step, Inv)
      BY <2>4 DEF Keeps
    <3>2. n \in Nat
      BY <1>2
    <3>3. <<n, Rules!Loop(step, n, start)>> \in Inv
      BY <1>7, <2>3, <3>1, <3>2, LoopKeeps
    <3>4. QED BY <1>1, <3>3
  <2>6. Good(n, v)
    <3> HIDE DEF Good, G
    <3>1. QED BY <2>5
  <2>7. QED BY <2>6
<1>10. QED BY <1>8, <1>9 DEF v

-----------------------------------------------------------------------------
(* Rules *)

Exceptions(rule) == {rule.exceptions[k] : k \in 1..Len(rule.exceptions)}
AreDecided(w, Q, rule) == \A k \in 1..Len(rule.exceptions) : IsDecided(w, Q, rule.exceptions[k])

\* No exception of the rule vetoes b.
Passes(w, T, rule, b) == ~\E e \in Exceptions(rule) : Rules!Vetoed(w, T, T, e, b)

\* An answer from the first n of the branches.
Sums(w, T, rule, branches, n, st, r) ==
  /\ Later(st, r.st)
  /\ Okay(w, r.st) /\ r.proof # {} => \E i \in 1..n : Passes(w, T, rule, branches[i].b)
  /\ Rules!MetNoCap(w, r.st) /\ (\E i \in 1..n : Passes(w, T, rule, branches[i].b)) => r.proof # {}

\* The parts of a rule.
LEMMA RulesAre ==
  ASSUME NEW w, Rules!IsWorld(w), NEW i \in 1..Len(w.rules), NEW rule, rule = w.rules[i]
  PROVE  /\ rule \in Rules!RuleType
         /\ rule.conditions \in Seq(Rules!Patterns) /\ rule.exceptions \in Seq(Rules!Patterns)
         /\ rule.head \in Rules!Patterns /\ rule.cost \in Nat /\ rule.level \in Nat \ {0}
<1>1. rule \in Rules!RuleType
  BY DEF Rules!IsWorld
<1>2. QED BY <1>1 DEF Rules!RuleType

\* The better of two proofs is a proof if one of them is.
LEMMA BetterHolds ==
  ASSUME NEW old \in SUBSET Rules!Proofs, NEW new \in SUBSET Rules!Proofs
  PROVE  /\ Rules!Better(old, new) \in SUBSET Rules!Proofs
         /\ Rules!Better(old, new) = {} <=> old = {} /\ new = {}
  BY DEF Rules!Better

\* A rule's branch makes a proof.
LEMMA ComposeHolds ==
  ASSUME NEW rule, rule.cost \in Nat, NEW branch \in Rules!Branches
  PROVE  Rules!Compose(rule, branch) \in SUBSET Rules!Proofs /\ Rules!Compose(rule, branch) # {}
<1>1. branch.cost \in Nat /\ branch.steps \in Nat
  BY BranchesAre
<1>2. rule.cost + branch.cost + branch.steps + 1 \in Nat /\ branch.steps + 1 \in Nat
  BY <1>1
<1>3. QED BY <1>2 DEF Rules!Compose, Rules!Proofs

\* An answer that adds one branch to the answer x.
AddsBranch(w, T, rule, b, x, y) ==
  /\ Later(x.st, y.st)
  /\ Okay(w, y.st) /\ y.proof # {} => x.proof # {} \/ Passes(w, T, rule, b)
  /\ Rules!MetNoCap(w, y.st) /\ (x.proof # {} \/ Passes(w, T, rule, b)) => y.proof # {}

\* One branch more adds a proof exactly if no exception vetoes it.
LEMMA WithBranchSums ==
  ASSUME NEW w, Rules!IsWorld(w), NEW holds \in [Asks -> Rules!Replies], NEW rule, rule.cost \in Nat,
         rule.exceptions \in Seq(Rules!Patterns), NEW branch \in Rules!Branches, NEW x \in Rules!Replies,
         NEW y, y = Rules!WithBranch(rule, branch, x.proof, Rules!Veto(holds, rule.exceptions, branch.b, x.st))
  PROVE  /\ y \in Rules!Replies
         /\ \A T, Q : Oracle(w, T, Q, holds) /\ AreDecided(w, Q, rule) =>
              AddsBranch(w, T, rule, branch.b, x, y)
<1> DEFINE v == Rules!Veto(holds, rule.exceptions, branch.b, x.st)
           new == Rules!Compose(rule, branch)
<1>1. x.st \in Rules!States /\ x.proof \in SUBSET Rules!Proofs /\ branch.b \in Rules!Bindings
  BY BranchesAre DEF Rules!Replies
<1>2. v \in Decisions
  BY <1>1, VetoVets
<1>3. ASSUME NEW T, NEW Q, Oracle(w, T, Q, holds), AreDecided(w, Q, rule)
      PROVE  Vets(w, T, Exceptions(rule), branch.b, x.st, v)
  <2>1. \A k \in 1..Len(rule.exceptions) : IsDecided(w, Q, rule.exceptions[k])
    BY <1>3 DEF AreDecided
  <2>2. Vets(w, T, {rule.exceptions[k] : k \in 1..Len(rule.exceptions)}, branch.b, x.st, v)
    BY <1>1, <1>3, <2>1, VetoVets
  <2>3. QED BY <2>2 DEF Exceptions
<1>4. new \in SUBSET Rules!Proofs /\ new # {}
  BY ComposeHolds
<1>5. Rules!Better(x.proof, new) \in SUBSET Rules!Proofs /\ Rules!Better(x.proof, new) # {}
  BY <1>1, <1>4, BetterHolds
<1>6. y = [st |-> v.st, proof |-> IF v.veto THEN x.proof ELSE Rules!Better(x.proof, new)]
  BY DEF Rules!WithBranch
<1> HIDE DEF v, new
<1>7. v.st \in Rules!States /\ v.veto \in BOOLEAN
  BY <1>2 DEF Decisions
<1>8. /\ y \in Rules!Replies /\ y.st = v.st
      /\ v.veto => y.proof = x.proof
      /\ ~v.veto => y.proof # {}
  <2>1. CASE v.veto
    <3>1. y = [st |-> v.st, proof |-> x.proof]
      BY <1>6, <2>1
    <3>2. QED BY <1>1, <1>7, <2>1, <3>1 DEF Rules!Replies
  <2>2. CASE ~v.veto
    <3>1. y = [st |-> v.st, proof |-> Rules!Better(x.proof, new)]
      BY <1>6, <2>2
    <3>2. QED BY <1>5, <1>7, <2>2, <3>1 DEF Rules!Replies
  <2>3. QED BY <2>1, <2>2
<1>9. ASSUME NEW T, NEW Q, Oracle(w, T, Q, holds), AreDecided(w, Q, rule)
      PROVE  AddsBranch(w, T, rule, branch.b, x, y)
  <2>1. /\ Later(x.st, v.st)
        /\ Okay(w, v.st) /\ ~v.veto => Passes(w, T, rule, branch.b)
        /\ Rules!MetNoCap(w, v.st) /\ v.veto => ~Passes(w, T, rule, branch.b)
    BY <1>3, <1>9 DEF Vets, Passes
  <2>2. QED BY <1>8, <2>1 DEF AddsBranch
<1>10. QED BY <1>8, <1>9

\* A rule has a proof exactly if one of its branches passes.
LEMMA BestBranchSums ==
  ASSUME NEW w, Rules!IsWorld(w), NEW holds \in [Asks -> Rules!Replies], NEW rule, rule.cost \in Nat,
         rule.exceptions \in Seq(Rules!Patterns), NEW found \in Results
  PROVE  LET r == Rules!BestBranch(holds, rule, found) IN
         /\ r \in Rules!Replies
         /\ \A T, Q : Oracle(w, T, Q, holds) /\ AreDecided(w, Q, rule) =>
              Sums(w, T, rule, found.branches, Len(found.branches), found.st, r)
<1> DEFINE n == Len(found.branches)
           G == Rules!Replies
           br(i) == found.branches[i]
           step == [x \in (1..n) \X G |->
                      LET branch == found.branches[x[1]] IN
                      Rules!WithBranch(rule, branch, x[2].proof,
                        Rules!Veto(holds, rule.exceptions, branch.b, x[2].st))]
           start == [st |-> found.st, proof |-> {}]
           r == Rules!BestBranch(holds, rule, found)
<1>1. r = Rules!Loop(step, n, start)
  BY Zenon DEF Rules!BestBranch
<1>2. found.st \in Rules!States /\ n \in Nat /\ \A i \in 1..n : br(i) \in Rules!Branches
  BY ResultsAre
<1>3. \A i \in 1..n, x \in G : step[<<i, x>>] =
        Rules!WithBranch(rule, br(i), x.proof, Rules!Veto(holds, rule.exceptions, br(i).b, x.st))
  <2> HIDE DEF G
  <2>1. QED OBVIOUS
<1>4. step = [z \in (1..n) \X G |-> step[z]]
  OBVIOUS
<1> HIDE DEF step, r
<1>5. ASSUME NEW i \in 1..n, NEW x \in G
      PROVE  /\ step[<<i, x>>] \in G
             /\ \A T, Q : Oracle(w, T, Q, holds) /\ AreDecided(w, Q, rule) =>
                  AddsBranch(w, T, rule, br(i).b, x, step[<<i, x>>])
  <2> DEFINE y == step[<<i, x>>]
             branch == br(i)
  <2>1. branch \in Rules!Branches
        /\ y = Rules!WithBranch(rule, branch, x.proof, Rules!Veto(holds, rule.exceptions, branch.b, x.st))
    BY <1>2, <1>3
  <2> HIDE DEF y, branch
  <2>2. y \in G
    BY <2>1, WithBranchSums
  <2>3. \A T, Q : Oracle(w, T, Q, holds) /\ AreDecided(w, Q, rule) =>
              AddsBranch(w, T, rule, branch.b, x, y)
    BY <2>1, WithBranchSums
  <2>4. QED BY <2>2, <2>3, Zenon DEF y, branch
<1>6. step \in [(1..n) \X G -> G] /\ start \in G
  <2>1. start \in G
    BY <1>2 DEF Rules!Replies
  <2> HIDE DEF G
  <2>2. QED BY <1>4, <1>5, <2>1, StepIsTyped
<1>7. r \in G
  <2> HIDE DEF G, n, start
  <2>1. QED BY <1>1, <1>2, <1>6, LoopIsTyped
<1>8. ASSUME NEW T, NEW Q, Oracle(w, T, Q, holds), AreDecided(w, Q, rule)
      PROVE  Sums(w, T, rule, found.branches, n, found.st, r)
  <2> DEFINE Good(i, x) == Sums(w, T, rule, found.branches, i, found.st, x)
             Inv == {y \in (0..n) \X G : Good(y[1], y[2])}
  <2>1. Good(0, start)
    <3>1. Later(found.st, start.st) /\ start.proof = {}
      BY <1>2, LaterHolds
    <3> HIDE DEF start
    <3>2. QED BY <3>1 DEF Sums
  <2>2. ASSUME NEW i \in 1..n, NEW x \in G, Good(i - 1, x) PROVE Good(i, step[<<i, x>>])
    <3> DEFINE y == step[<<i, x>>]
               good(j) == Passes(w, T, rule, br(j).b)
    <3>1. \A j : j \in 1..i <=> j \in 1..(i - 1) \/ j = i
      OBVIOUS
    <3>2. /\ Later(x.st, y.st)
          /\ Okay(w, y.st) /\ y.proof # {} => x.proof # {} \/ good(i)
          /\ Rules!MetNoCap(w, y.st) /\ (x.proof # {} \/ good(i)) => y.proof # {}
      <4>1. AddsBranch(w, T, rule, br(i).b, x, y)
        BY <1>5, <1>8
      <4>2. QED BY <4>1 DEF AddsBranch
    <3>3. x.st \in Rules!States /\ y.st \in Rules!States
      <4>1. y \in G
        BY <1>5
      <4> HIDE DEF y
      <4>2. QED BY <4>1 DEF Rules!Replies
    <3> HIDE DEF y
    <3>4. /\ Later(found.st, y.st) /\ (Okay(w, y.st) => Okay(w, x.st))
          /\ (Rules!MetNoCap(w, y.st) => Rules!MetNoCap(w, x.st))
      BY <1>2, <2>2, <3>2, <3>3, LaterHolds DEF Sums
    <3>5. /\ Okay(w, x.st) /\ x.proof # {} => \E j \in 1..(i - 1) : good(j)
          /\ Rules!MetNoCap(w, x.st) /\ (\E j \in 1..(i - 1) : good(j)) => x.proof # {}
      BY <2>2 DEF Sums
    <3> HIDE DEF good
    <3>6. /\ Okay(w, y.st) /\ y.proof # {} => \E j \in 1..i : good(j)
          /\ Rules!MetNoCap(w, y.st) /\ (\E j \in 1..i : good(j)) => y.proof # {}
      BY <3>1, <3>2, <3>4, <3>5
    <3>7. QED BY <3>4, <3>6 DEF Sums, y, good
  <2>3. <<0, start>> \in Inv
    <3>1. 0 \in 0..n /\ start \in G
      BY <1>2, <1>6
    <3> HIDE DEF Good, start, G
    <3>2. QED BY <2>1, <3>1
  <2>4. ASSUME NEW i \in 1..n, NEW x \in G, <<i - 1, x>> \in Inv PROVE <<i, step[<<i, x>>]>> \in Inv
    <3> HIDE DEF Good, G
    <3>1. Good(i - 1, x)
      BY <2>4
    <3>2. Good(i, step[<<i, x>>])
      BY <2>2, <3>1
    <3>3. step[<<i, x>>] \in G
      BY <1>5
    <3>4. QED BY <3>2, <3>3
  <2>5. <<n, r>> \in Inv
    <3> HIDE DEF Inv, G, n, start
    <3>1. Keeps(G, n, step, Inv)
      BY <2>4 DEF Keeps
    <3>2. n \in Nat
      BY <1>2
    <3>3. <<n, Rules!Loop(step, n, start)>> \in Inv
      BY <1>6, <2>3, <3>1, <3>2, LoopKeeps
    <3>4. QED BY <1>1, <3>3
  <2>6. Good(n, r)
    <3> HIDE DEF Good, G
    <3>1. QED BY <2>5
  <2>7. QED BY <2>6
<1>9. QED BY <1>7, <1>8 DEF r

\* The rest of the conditions, in their order, from what the consequent binds.
Satisfies(w, T, conditions, ordered, b0, b) ==
  /\ b \in [Rules!VarsIn(conditions, DOMAIN b0, Len(conditions)) -> RuleEntities]
  /\ Extends(b, b0) /\ Rules!Generated(w, ordered, DOMAIN b0, b)
  /\ \A k \in 1..Len(conditions) : Meets(w, T, conditions[k], b)

\* The order of the conditions changes nothing of what they bind.
LEMMA VarsInOrder ==
  ASSUME NEW conditions \in Seq(Rules!Patterns), NEW bound, NEW ordered, ordered = Rules!Ordered(conditions, bound)
  PROVE  /\ Reorders(ordered, conditions)
         /\ Rules!VarsIn(ordered, bound, Len(conditions)) = Rules!VarsIn(conditions, bound, Len(conditions))
<1> DEFINE n == Len(conditions)
<1>1. /\ ordered \in Seq(Rules!Patterns) /\ Len(ordered) = n /\ n \in Nat
      /\ \A k \in 1..n : \E i \in 1..n : ordered[k] = conditions[i]
      /\ \A i \in 1..n : \E k \in 1..n : ordered[k] = conditions[i]
  <2>1. Reorders(ordered, conditions)
    BY OrderedHolds
  <2>2. QED BY <2>1 DEF Reorders
<1>2. UNION {Rules!VarsOf(ordered[k]) : k \in 1..n} = UNION {Rules!VarsOf(conditions[k]) : k \in 1..n}
  <2>1. \A x : x \in UNION {Rules!VarsOf(ordered[k]) : k \in 1..n} <=> \E k \in 1..n : x \in Rules!VarsOf(ordered[k])
    OBVIOUS
  <2>2. \A x : x \in UNION {Rules!VarsOf(conditions[k]) : k \in 1..n}
                 <=> \E k \in 1..n : x \in Rules!VarsOf(conditions[k])
    OBVIOUS
  <2> HIDE DEF n
  <2>3. ASSUME NEW x
        PROVE  (\E k \in 1..n : x \in Rules!VarsOf(ordered[k])) <=> (\E k \in 1..n : x \in Rules!VarsOf(conditions[k]))
    <3>1. ASSUME NEW k \in 1..n, x \in Rules!VarsOf(ordered[k]) PROVE \E i \in 1..n : x \in Rules!VarsOf(conditions[i])
      <4>1. PICK i \in 1..n : ordered[k] = conditions[i]
        BY <1>1
      <4>2. QED BY <3>1, <4>1
    <3>2. ASSUME NEW i \in 1..n, x \in Rules!VarsOf(conditions[i]) PROVE \E k \in 1..n : x \in Rules!VarsOf(ordered[k])
      <4>1. PICK k \in 1..n : ordered[k] = conditions[i]
        BY <1>1
      <4>2. QED BY <3>2, <4>1
    <3>3. QED BY <3>1, <3>2
  <2>4. QED BY <2>1, <2>2, <2>3
<1>3. Rules!VarsIn(ordered, bound, n) = Rules!VarsIn(conditions, bound, n)
  BY <1>2, Zenon DEF Rules!VarsIn
<1>4. QED BY <1>3, OrderedHolds

\* What is found in order is what satisfies the conditions, in whatever order.
LEMMA RestIsFound ==
  ASSUME NEW w, NEW T, NEW conditions \in Seq(Rules!Patterns), NEW b0,
         NEW ordered, ordered = Rules!Ordered(conditions, DOMAIN b0)
  PROVE  \A b : b \in RestOf(w, T, ordered, 1, b0) <=> Satisfies(w, T, conditions, ordered, b0, b)
<1> DEFINE n == Len(conditions)
           bound == DOMAIN b0
<1>1. /\ ordered \in Seq(Rules!Patterns) /\ Len(ordered) = n /\ n \in Nat
      /\ Rules!VarsIn(ordered, bound, n) = Rules!VarsIn(conditions, bound, n)
      /\ \A k \in 1..n : \E i \in 1..n : ordered[k] = conditions[i]
      /\ \A i \in 1..n : \E k \in 1..n : ordered[k] = conditions[i]
  <2>1. Reorders(ordered, conditions) /\ Rules!VarsIn(ordered, bound, n) = Rules!VarsIn(conditions, bound, n)
    BY VarsInOrder
  <2>2. QED BY <2>1 DEF Reorders
<1>2. \A j : After(ordered, bound, 1, j) = Rules!VarsIn(ordered, bound, j)
  BY DEF After, Rules!VarsIn
<1>3. DOMAIN ordered = 1..n
  BY <1>1
<1> HIDE DEF n, bound
<1>4. ASSUME NEW b
      PROVE  b \in RestOf(w, T, ordered, 1, b0) <=>
               /\ b \in [Rules!VarsIn(conditions, bound, n) -> RuleEntities] /\ Extends(b, b0)
               /\ \A k \in 1..n : Met(w, T, ordered[k], Rules!VarsIn(ordered, bound, k - 1), b)
  <2>1. b \in RestOf(w, T, ordered, 1, b0) <=>
               /\ b \in [After(ordered, bound, 1, n) -> RuleEntities] /\ Extends(b, b0)
               /\ \A k \in 1..n : Met(w, T, ordered[k], After(ordered, bound, 1, k - 1), b)
    <3>1. Len(ordered) = n
      BY <1>1
    <3>2. QED BY <3>1 DEF RestOf, bound
  <2>2. After(ordered, bound, 1, n) = Rules!VarsIn(conditions, bound, n)
    BY <1>1, <1>2
  <2>3. QED BY <1>2, <2>1, <2>2
<1>5. ASSUME NEW b
      PROVE  (\A k \in 1..n : Met(w, T, ordered[k], Rules!VarsIn(ordered, bound, k - 1), b)) <=>
               Rules!Generated(w, ordered, bound, b) /\ \A k \in 1..n : Meets(w, T, ordered[k], b)
  BY <1>3 DEF Met, Rules!Generated
<1>6. ASSUME NEW b
      PROVE  (\A k \in 1..n : Meets(w, T, ordered[k], b)) <=> \A k \in 1..n : Meets(w, T, conditions[k], b)
  BY <1>1
<1>7. QED BY <1>4, <1>5, <1>6 DEF Satisfies, n, bound

-----------------------------------------------------------------------------
(* The consequent *)

\* The least binding that makes the term the value, beyond b0.
UnifiesTerm(b, term, value, b0) ==
  /\ b \in Rules!Bindings /\ DOMAIN b = DOMAIN b0 \cup {x \in {term[2]} : term[1] = "var"}
  /\ Extends(b, b0) /\ Rules!Resolve(term, b) = value
  /\ \A c : Extends(c, b0) /\ Rules!IsBound(term, DOMAIN c) /\ Rules!Resolve(term, c) = value => Extends(c, b)

AreUnifiers(S, term, value, b0) ==
  /\ \A b \in S : UnifiesTerm(b, term, value, b0)
  /\ \A c : Extends(c, b0) /\ Rules!IsBound(term, DOMAIN c) /\ Rules!Resolve(term, c) = value => \E b : S = {b}

\* One end of a consequent is unified with a name where it can be.
LEMMA UnifyTermHolds ==
  ASSUME NEW term \in Rules!Terms, NEW value \in RuleEntities, NEW b0 \in Rules!Bindings
  PROVE  AreUnifiers(Rules!UnifyTerm(term, value, b0), term, value, b0)
<1>1. CASE ~Rules!IsBound(term, DOMAIN b0)
  <2> DEFINE b == Rules!Bind(b0, term[2], value)
  <2>1. term[1] = "var" /\ term[1] # "ent" /\ term[2] \in RuleVariables /\ term[2] \notin DOMAIN b0
    BY <1>1, TermsAre DEF Rules!IsBound
  <2>2. b \in Rules!Bindings /\ DOMAIN b = DOMAIN b0 \cup {term[2]} /\ Extends(b, b0) /\ b[term[2]] = value
    <3>1. b \in Rules!Bindings /\ DOMAIN b = DOMAIN b0 \cup {term[2]} /\ Extends(b, b0)
      BY <2>1, BindHolds
    <3>2. b[term[2]] = value
      BY BoundIs
    <3>3. QED BY <3>1, <3>2
  <2>3. ASSUME NEW c, Extends(c, b0), Rules!IsBound(term, DOMAIN c), Rules!Resolve(term, c) = value
        PROVE  Extends(c, b)
    <3>1. term[2] \in DOMAIN c /\ c[term[2]] = value
      BY <2>1, <2>3 DEF Rules!IsBound, Rules!Resolve
    <3>2. QED BY <2>3, <3>1, BindIsLeast
  <2>4. Rules!UnifyTerm(term, value, b0) = {b}
    BY <1>1 DEF Rules!UnifyTerm
  <2> HIDE DEF b
  <2>5. Rules!Resolve(term, b) = value
    BY <2>1, <2>2 DEF Rules!Resolve
  <2>6. UnifiesTerm(b, term, value, b0)
    <3>1. {x \in {term[2]} : term[1] = "var"} = {term[2]}
      BY <2>1
    <3>2. QED BY <2>2, <2>3, <2>5, <3>1 DEF UnifiesTerm
  <2>7. QED BY <2>4, <2>6 DEF AreUnifiers
<1>2. CASE Rules!IsBound(term, DOMAIN b0)
  <2>1. DOMAIN b0 = DOMAIN b0 \cup {x \in {term[2]} : term[1] = "var"}
    BY <1>2, TermsAre DEF Rules!IsBound
  <2>2. Extends(b0, b0)
    BY DEF Extends
  <2>3. Rules!UnifyTerm(term, value, b0) = IF Rules!Resolve(term, b0) = value THEN {b0} ELSE {}
    BY <1>2 DEF Rules!UnifyTerm
  <2>4. Rules!Resolve(term, b0) = value => UnifiesTerm(b0, term, value, b0)
    BY <2>1, <2>2 DEF UnifiesTerm
  <2>5. \A c : Extends(c, b0) => Rules!Resolve(term, c) = Rules!Resolve(term, b0)
    BY <1>2 DEF Extends, Rules!IsBound, Rules!Resolve
  <2>6. QED BY <2>3, <2>4, <2>5 DEF AreUnifiers
<1>3. QED BY <1>1, <1>2

\* The least binding that makes the consequent the claim: what any other binds,
\* alike.
Unifies(b, head, claim) ==
  /\ b \in Rules!Bindings /\ DOMAIN b = Rules!VarsOf(head) /\ Rules!Ground(head, b) = claim
  /\ \A c : Rules!VarsOf(head) \subseteq DOMAIN c /\ Rules!Ground(head, c) = claim => Extends(c, b)

\* A consequent is unified with a claim exactly where some instance of it is that claim.
LEMMA UnifyHolds ==
  ASSUME NEW head \in Rules!Patterns, NEW claim \in Rules!GroundClaims, NEW S, S = Rules!UnifyConsequent(head, claim)
  PROVE  /\ \A b \in S : Unifies(b, head, claim)
         /\ \A c : Rules!VarsOf(head) \subseteq DOMAIN c /\ Rules!Ground(head, c) = claim => S # {}
<1> DEFINE first == Rules!UnifyTerm(head.s, claim[1], Rules!NoBindings)
           then(b) == Rules!UnifyTerm(head.o, claim[3], b)
<1>1. head.s \in Rules!Terms /\ head.o \in Rules!Terms
      /\ claim[1] \in RuleEntities /\ claim[3] \in RuleEntities
      /\ claim = <<claim[1], claim[2], claim[3]>>
  BY PatternsAre DEF Rules!GroundClaims
<1>2. Rules!NoBindings \in Rules!Bindings /\ DOMAIN Rules!NoBindings = {} /\ \A c : Extends(c, Rules!NoBindings)
  BY BindingsAre DEF Rules!NoBindings, Extends
<1>3. \A b : b \in S <=> head.p = claim[2] /\ \E b1 \in first : b \in then(b1)
  <2>1. CASE head.p = claim[2]
    <3>1. S = UNION {then(b1) : b1 \in first}
      BY <2>1, Zenon DEF Rules!UnifyConsequent
    <3> HIDE DEF first, then
    <3>2. QED BY <2>1, <3>1
  <2>2. CASE head.p # claim[2]
    <3>1. S = {}
      BY <2>2 DEF Rules!UnifyConsequent
    <3>2. QED BY <2>2, <3>1
  <2>3. QED BY <2>1, <2>2
<1>4. /\ \A b \in first : UnifiesTerm(b, head.s, claim[1], Rules!NoBindings)
      /\ \A c : Rules!IsBound(head.s, DOMAIN c) /\ Rules!Resolve(head.s, c) = claim[1] => \E b : first = {b}
  <2>1. AreUnifiers(first, head.s, claim[1], Rules!NoBindings)
    BY <1>1, <1>2, UnifyTermHolds
  <2> HIDE DEF first
  <2>2. QED BY <1>2, <2>1 DEF AreUnifiers
<1> HIDE DEF first
<1>5. ASSUME NEW b1 \in Rules!Bindings
      PROVE  /\ \A b \in then(b1) : UnifiesTerm(b, head.o, claim[3], b1)
             /\ \A c : Extends(c, b1) /\ Rules!IsBound(head.o, DOMAIN c) /\ Rules!Resolve(head.o, c) = claim[3] =>
                  \E b : then(b1) = {b}
  <2>1. AreUnifiers(then(b1), head.o, claim[3], b1)
    BY <1>1, UnifyTermHolds
  <2> HIDE DEF then
  <2>2. QED BY <2>1 DEF AreUnifiers
<1> HIDE DEF then
<1>6. ASSUME NEW c, Rules!VarsOf(head) \subseteq DOMAIN c, Rules!Ground(head, c) = claim
      PROVE  /\ Rules!IsBound(head.s, DOMAIN c) /\ Rules!Resolve(head.s, c) = claim[1]
             /\ Rules!IsBound(head.o, DOMAIN c) /\ Rules!Resolve(head.o, c) = claim[3]
             /\ head.p = claim[2]
  <2>1. Rules!IsBound(head.s, DOMAIN c) /\ Rules!IsBound(head.o, DOMAIN c)
    BY <1>6, GroundIs
  <2>2. QED BY <1>1, <1>6, <2>1 DEF Rules!Ground
<1>7. ASSUME NEW b \in S PROVE Unifies(b, head, claim)
  <2>1. PICK b1 \in first : b \in then(b1) /\ head.p = claim[2]
    BY <1>3
  <2>2. /\ b1 \in Rules!Bindings /\ DOMAIN b1 = {x \in {head.s[2]} : head.s[1] = "var"}
        /\ Rules!Resolve(head.s, b1) = claim[1]
        /\ \A c : Rules!IsBound(head.s, DOMAIN c) /\ Rules!Resolve(head.s, c) = claim[1] => Extends(c, b1)
    BY <1>2, <1>4 DEF UnifiesTerm
  <2>3. /\ b \in Rules!Bindings /\ DOMAIN b = DOMAIN b1 \cup {x \in {head.o[2]} : head.o[1] = "var"}
        /\ Extends(b, b1) /\ Rules!Resolve(head.o, b) = claim[3]
        /\ \A c : Extends(c, b1) /\ Rules!IsBound(head.o, DOMAIN c) /\ Rules!Resolve(head.o, c) = claim[3] =>
             Extends(c, b)
    BY <1>5, <2>1, <2>2 DEF UnifiesTerm
  <2>4. DOMAIN b = Rules!VarsOf(head)
    BY <2>2, <2>3, PatternsAre
  <2>5. Rules!Resolve(head.s, b) = claim[1]
    <3>1. head.s[1] # "ent" => head.s[2] \in DOMAIN b1
      BY <1>1, <2>2, TermsAre
    <3>2. QED BY <2>2, <2>3, <3>1 DEF Extends, Rules!Resolve
  <2>6. Rules!Ground(head, b) = claim
    BY <1>1, <2>1, <2>3, <2>5 DEF Rules!Ground
  <2>7. QED BY <1>6, <2>2, <2>3, <2>4, <2>6 DEF Unifies
<1>8. ASSUME NEW c, Rules!VarsOf(head) \subseteq DOMAIN c, Rules!Ground(head, c) = claim PROVE S # {}
  <2>1. PICK b1 : first = {b1}
    BY <1>4, <1>6, <1>8
  <2>2. b1 \in Rules!Bindings /\ Extends(c, b1)
    BY <1>2, <1>4, <1>6, <1>8, <2>1 DEF UnifiesTerm
  <2>3. PICK b : then(b1) = {b}
    BY <1>5, <1>6, <1>8, <2>2
  <2>4. b \in S
    BY <1>3, <1>6, <1>8, <2>1, <2>3
  <2>5. QED BY <2>4
<1>9. QED BY <1>7, <1>8

\* What a rule needs is among the predicates Q.
Serves(w, Q, rule) == (\A k \in 1..Len(rule.conditions) : rule.conditions[k].p \in Q) /\ AreDecided(w, Q, rule)

\* A rule gives a claim by an instance that satisfies its conditions and passes.
LEMMA ProvesIs ==
  ASSUME NEW w, Rules!IsWorld(w), NEW T, NEW i \in 1..Len(w.rules), NEW claim,
         NEW rule, rule = w.rules[i], NEW b0, Unifies(b0, rule.head, claim)
  PROVE  Rules!Proves(w, T, T, i, claim) <=>
           \E b : /\ Satisfies(w, T, rule.conditions, Rules!Ordered(rule.conditions, DOMAIN b0), b0, b)
                  /\ Passes(w, T, rule, b)
<1> DEFINE conditions == rule.conditions
           n == Len(conditions)
           ordered == Rules!Ordered(conditions, DOMAIN b0)
           bound == Rules!VarsIn(conditions, DOMAIN b0, n)
<1>1. /\ conditions \in Seq(Rules!Patterns) /\ rule.exceptions \in Seq(Rules!Patterns) /\ rule.head \in Rules!Patterns
      /\ DOMAIN conditions = 1..n /\ DOMAIN rule.exceptions = 1..Len(rule.exceptions)
  BY RulesAre
<1>2. /\ b0 \in Rules!Bindings /\ DOMAIN b0 = Rules!VarsOf(rule.head) /\ Rules!Ground(rule.head, b0) = claim
      /\ \A c : Rules!VarsOf(rule.head) \subseteq DOMAIN c /\ Rules!Ground(rule.head, c) = claim => Extends(c, b0)
  BY DEF Unifies
<1>3. Rules!Proves(w, T, T, i, claim) <=>
        \E b \in [bound -> RuleEntities] :
          /\ Rules!Ground(rule.head, b) = claim
          /\ Rules!Generated(w, ordered, DOMAIN b0, b)
          /\ Rules!Fires(w, T, T, rule, b)
  BY <1>2, Zenon DEF Rules!Proves, Rules!Instances
<1>4. ASSUME NEW b PROVE Rules!Fires(w, T, T, rule, b) <=> (\A k \in 1..n : Meets(w, T, conditions[k], b)) /\ Passes(w, T, rule, b)
  <2>1. Rules!Fires(w, T, T, rule, b) <=>
          /\ \A k \in 1..n : Meets(w, T, conditions[k], b)
          /\ \A k \in 1..Len(rule.exceptions) : ~Rules!Vetoed(w, T, T, rule.exceptions[k], b)
    BY <1>1, Zenon DEF Rules!Fires, Meets
  <2>2. Passes(w, T, rule, b) <=> \A k \in 1..Len(rule.exceptions) : ~Rules!Vetoed(w, T, T, rule.exceptions[k], b)
    BY Zenon DEF Passes, Exceptions
  <2>3. QED BY <2>1, <2>2
<1>5. DOMAIN b0 \subseteq bound
  BY DEF Rules!VarsIn
<1> HIDE DEF bound, n, ordered
<1>6. ASSUME NEW b \in [bound -> RuleEntities] PROVE Rules!Ground(rule.head, b) = claim <=> Extends(b, b0)
  <2>1. Extends(b, b0) => Rules!Ground(rule.head, b) = claim
    BY <1>1, <1>2, GroundStays
  <2>2. Rules!VarsOf(rule.head) \subseteq DOMAIN b
    BY <1>2, <1>5
  <2>3. QED BY <1>2, <2>1, <2>2
<1>7. ASSUME NEW b
      PROVE  Satisfies(w, T, conditions, ordered, b0, b) <=>
               /\ b \in [bound -> RuleEntities] /\ Extends(b, b0) /\ Rules!Generated(w, ordered, DOMAIN b0, b)
               /\ \A k \in 1..n : Meets(w, T, conditions[k], b)
  BY Zenon DEF Satisfies, bound, n
<1>8. QED BY <1>3, <1>4, <1>6, <1>7, Zenon DEF ordered

\* What deeper searches answer, with the assumed facts.
LEMMA HoldsIs ==
  ASSUME NEW w, NEW deeper \in [Rules!Calls -> Rules!Replies], NEW active \in Rules!Active
  PROVE  /\ Rules!Holds(w, deeper, active) \in [Asks -> Rules!Replies]
         /\ \A g \in Rules!GroundClaims, st \in Rules!States :
              Rules!Holds(w, deeper, active)[<<g, st>>] = Rules!OrAssumed(w, g, deeper[<<active, g, st>>])
<1> DEFINE holds == Rules!Holds(w, deeper, active)
<1>1. \A x \in Asks : x[1] \in Rules!GroundClaims /\ x[2] \in Rules!States /\ x = <<x[1], x[2]>>
  BY DEF Asks
<1>2. Rules!Fact(0) \in SUBSET Rules!Proofs
  BY DEF Rules!Fact, Rules!Proofs
<1>3. ASSUME NEW g, NEW found \in Rules!Replies PROVE Rules!OrAssumed(w, g, found) \in Rules!Replies
  BY <1>2 DEF Rules!OrAssumed, Rules!Replies
<1>4. ASSUME NEW g \in Rules!GroundClaims, NEW st \in Rules!States PROVE deeper[<<active, g, st>>] \in Rules!Replies
  BY DEF Rules!Calls
<1>5. holds = [x \in Asks |-> Rules!OrAssumed(w, x[1], deeper[<<active, x[1], x[2]>>])]
  BY Zenon DEF Rules!Holds, Asks
<1> HIDE DEF holds
<1>6. \A x \in Asks : Rules!OrAssumed(w, x[1], deeper[<<active, x[1], x[2]>>]) \in Rules!Replies
  BY <1>1, <1>3, <1>4
<1>7. holds \in [Asks -> Rules!Replies]
  BY <1>5, <1>6
<1>8. \A g \in Rules!GroundClaims, st \in Rules!States : <<g, st>> \in Asks
  BY DEF Asks
<1>9. QED BY <1>5, <1>7, <1>8 DEF holds

\* An answer to whether the i-th rule, of those that prove the claim R, proves it.
Tries(w, R, i, st, r) ==
  /\ Later(st, r.st)
  /\ Okay(w, r.st) /\ r.proof # {} => i \in R
  /\ Rules!MetNoCap(w, r.st) /\ i \in R => r.proof # {}

TriesFor(w, i, claim, active, st, r, holds) ==
  \A T, Q, R : /\ Oracle(w, T, Q, holds) /\ Serves(w, Q, w.rules[i])
               /\ i \in R <=> ~w.rules[i].head.neg /\ <<i, claim>> \notin active /\ Rules!Proves(w, T, T, i, claim)
               => Tries(w, R, i, st, r)

\* Trying a rule for a claim finds a proof exactly as its conditions and exceptions say.
LEMMA TryRuleTries ==
  ASSUME NEW w, Rules!IsWorld(w), NEW n \in Nat, NEW deeper \in [Rules!Calls -> Rules!Replies],
         NEW active \in Rules!Active, NEW i \in 1..Len(w.rules), NEW claim \in Rules!GroundClaims, NEW st \in Rules!States,
         NEW r, r = Rules!TryRule(w, n, deeper, active, i, claim, st)
  PROVE  /\ r \in Rules!Replies
         /\ w.rules[i].head.neg \/ n = 0 => Later(st, r.st) /\ r.proof = {} /\ (n = 0 => ~Rules!MetNoCap(w, r.st))
         /\ TriesFor(w, i, claim, active, st, r, Rules!Holds(w, deeper, active \cup {<<i, claim>>}))
<1> DEFINE rule == w.rules[i]
           unified == Rules!UnifyConsequent(rule.head, claim)
           b0 == CHOOSE b \in unified : TRUE
           start == [b |-> b0, cost |-> 0, steps |-> 0]
           holds == Rules!Holds(w, deeper, active \cup {<<i, claim>>})
           ordered == Rules!Ordered(rule.conditions, DOMAIN b0)
           found == Rules!EvalConditions(w, holds, ordered, start, st)
<1>1. /\ rule.conditions \in Seq(Rules!Patterns) /\ rule.exceptions \in Seq(Rules!Patterns)
      /\ rule.head \in Rules!Patterns /\ rule.cost \in Nat
  BY RulesAre
<1>2. /\ \A b \in unified : Unifies(b, rule.head, claim)
      /\ \A c : Rules!VarsOf(rule.head) \subseteq DOMAIN c /\ Rules!Ground(rule.head, c) = claim => unified # {}
  BY <1>1, UnifyHolds
<1>3. \A T : Rules!Proves(w, T, T, i, claim) => unified # {}
  <2>1. ASSUME NEW T, Rules!Proves(w, T, T, i, claim) PROVE unified # {}
    <3>1. PICK b \in Rules!Instances(rule) : Rules!Ground(rule.head, b) = claim
      BY <2>1, Zenon DEF Rules!Proves
    <3>2. Rules!VarsOf(rule.head) \subseteq DOMAIN b
      BY <3>1 DEF Rules!Instances, Rules!VarsIn
    <3>3. QED BY <1>2, <3>1, <3>2
  <2>2. QED BY <2>1
<1>4. CASE rule.head.neg \/ n = 0
  <2>1. r = [st |-> [st EXCEPT !.capped = @ \/ n = 0], proof |-> {}]
    BY <1>4, Zenon DEF Rules!TryRule
  <2>2. /\ r \in Rules!Replies /\ r.proof = {} /\ Later(st, r.st) /\ (n = 0 => ~Rules!MetNoCap(w, r.st))
    <3>1. st.capped \in BOOLEAN /\ st.work \in Nat
      BY DEF Rules!States
    <3>2. CASE n = 0
      <4>1. (st.capped \/ n = 0) = TRUE
        BY <3>2
      <4>2. r = [st |-> [st EXCEPT !.capped = TRUE], proof |-> {}]
        BY <2>1, <4>1
      <4>3. r = [st |-> Rules!Capped(st), proof |-> {}]
        BY <4>2 DEF Rules!Capped
      <4>4. Rules!Capped(st) \in Rules!States /\ Later(st, Rules!Capped(st)) /\ ~Rules!MetNoCap(w, Rules!Capped(st))
        BY WorkHolds
      <4>5. QED BY <4>3, <4>4 DEF Rules!Replies
    <3>3. CASE n # 0
      <4>1. (st.capped \/ n = 0) = st.capped
        BY <3>1, <3>3
      <4>2. r = [st |-> [st EXCEPT !.capped = st.capped], proof |-> {}]
        BY <2>1, <4>1
      <4>3. [st EXCEPT !.capped = st.capped] = st
        BY DEF Rules!States
      <4>4. r = [st |-> st, proof |-> {}]
        BY <4>2, <4>3
      <4>5. QED BY <3>3, <4>4, LaterHolds DEF Rules!Replies
    <3>4. QED BY <3>2, <3>3
  <2>3. ASSUME NEW T, NEW R, i \in R <=> ~rule.head.neg /\ <<i, claim>> \notin active /\ Rules!Proves(w, T, T, i, claim)
        PROVE  Tries(w, R, i, st, r)
    BY <1>4, <2>2, <2>3 DEF Tries
  <2>4. TriesFor(w, i, claim, active, st, r, holds)
    BY <2>3, Zenon DEF TriesFor
  <2>5. QED BY <2>2, <2>4
<1>5. CASE ~(rule.head.neg \/ n = 0) /\ (unified = {} \/ <<i, claim>> \in active)
  <2>1. r = [st |-> st, proof |-> {}]
    BY <1>5, Zenon DEF Rules!TryRule
  <2>2. r \in Rules!Replies /\ r.proof = {} /\ Later(st, r.st)
    BY <2>1, LaterHolds DEF Rules!Replies
  <2>3. ASSUME NEW T, NEW R, i \in R <=> ~rule.head.neg /\ <<i, claim>> \notin active /\ Rules!Proves(w, T, T, i, claim)
        PROVE  Tries(w, R, i, st, r)
    BY <1>3, <1>5, <2>2, <2>3 DEF Tries
  <2>4. TriesFor(w, i, claim, active, st, r, holds)
    BY <2>3, Zenon DEF TriesFor
  <2>5. QED BY <1>5, <2>2, <2>4
<1>6. CASE ~(rule.head.neg \/ n = 0) /\ ~(unified = {} \/ <<i, claim>> \in active)
  <2>1. b0 \in unified
    BY <1>6
  <2> HIDE DEF b0
  <2>2. Unifies(b0, rule.head, claim)
    BY <1>2, <2>1
  <2>3. b0 \in Rules!Bindings /\ DOMAIN b0 = Rules!VarsOf(rule.head)
    BY <2>2 DEF Unifies
  <2>4. r = Rules!BestBranch(holds, rule, found)
    <3>1. r = Rules!BestBranch(holds, rule,
                Rules!EvalConditions(w, holds, Rules!Ordered(rule.conditions, Rules!VarsOf(rule.head)), start, st))
      BY <1>6, Zenon DEF Rules!TryRule, b0
    <3>2. QED BY <2>3, <3>1, Zenon
  <2>5. start \in Rules!Branches /\ start.b = b0
    BY <2>3 DEF Rules!Branches
  <2>6. holds \in [Asks -> Rules!Replies]
    <3>1. active \cup {<<i, claim>>} \in Rules!Active
      BY DEF Rules!Active
    <3>2. QED BY <3>1, HoldsIs
  <2>7. /\ Reorders(ordered, rule.conditions)
        /\ ordered \in Seq(Rules!Patterns) /\ Len(ordered) = Len(rule.conditions)
        /\ \A k \in 1..Len(ordered) : \E j \in 1..Len(rule.conditions) : ordered[k] = rule.conditions[j]
    <3>1. Reorders(ordered, rule.conditions)
      BY <1>1, OrderedHolds
    <3>2. QED BY <3>1 DEF Reorders
  <2> HIDE DEF start, holds
  <2>8. \A k \in 1..Len(ordered) : ordered[k].neg => Rules!HasNegation(w)
    <3>1. \A j \in 1..Len(rule.conditions) : rule.conditions[j].neg => Rules!HasNegation(w)
      <4>1. i \in DOMAIN w.rules /\ DOMAIN rule.conditions = 1..Len(rule.conditions)
        BY <1>1 DEF Rules!IsWorld
      <4>2. QED BY <4>1, Zenon DEF Rules!HasNegation
    <3>2. QED BY <2>7, <3>1
  <2> HIDE DEF ordered
  <2>9. found \in Results
    BY <2>5, <2>6, <2>7, <2>8, EvalConditionsGives
  <2>10. ASSUME NEW T, NEW Q, Oracle(w, T, Q, holds), Serves(w, Q, rule)
         PROVE  Gives(w, RestOf(w, T, ordered, 1, b0), st, found)
    <3>1. \A k \in 1..Len(ordered) : ordered[k].p \in Q
      BY <2>7, <2>10 DEF Serves
    <3>2. QED BY <2>5, <2>6, <2>7, <2>8, <2>10, <3>1, EvalConditionsGives
  <2> HIDE DEF found, rule
  <2>11. r \in Rules!Replies
    BY <1>1, <2>4, <2>6, <2>9, BestBranchSums
  <2>12. ASSUME NEW T, NEW Q, Oracle(w, T, Q, holds), Serves(w, Q, rule)
         PROVE  Sums(w, T, rule, found.branches, Len(found.branches), found.st, r)
    <3>1. AreDecided(w, Q, rule)
      BY <2>12 DEF Serves
    <3>2. QED BY <1>1, <2>4, <2>6, <2>9, <2>12, <3>1, BestBranchSums
  <2>13. ASSUME NEW T
         PROVE  Rules!Proves(w, T, T, i, claim) <=> \E b \in RestOf(w, T, ordered, 1, b0) : Passes(w, T, rule, b)
    <3>1. Rules!Proves(w, T, T, i, claim) <=>
            \E b : Satisfies(w, T, rule.conditions, ordered, b0, b) /\ Passes(w, T, rule, b)
      BY <2>2, ProvesIs DEF ordered, rule
    <3>2. \A b : b \in RestOf(w, T, ordered, 1, b0) <=> Satisfies(w, T, rule.conditions, ordered, b0, b)
      BY <1>1, RestIsFound DEF ordered
    <3>3. QED BY <3>1, <3>2
  <2>14. ASSUME NEW T, NEW Q, NEW R, Oracle(w, T, Q, holds), Serves(w, Q, rule),
                i \in R <=> ~rule.head.neg /\ <<i, claim>> \notin active /\ Rules!Proves(w, T, T, i, claim)
         PROVE  Tries(w, R, i, st, r)
    <3> DEFINE S == RestOf(w, T, ordered, 1, b0)
               branch(j) == found.branches[j].b
               m == Len(found.branches)
    <3>1. /\ Later(st, found.st)
          /\ Okay(w, found.st) => \A j \in 1..m : branch(j) \in S
          /\ Rules!MetNoCap(w, found.st) => \A b \in S : \E j \in 1..m : branch(j) = b
      BY <2>10, <2>14 DEF Gives
    <3>2. /\ Later(found.st, r.st)
          /\ Okay(w, r.st) /\ r.proof # {} => \E j \in 1..m : Passes(w, T, rule, branch(j))
          /\ Rules!MetNoCap(w, r.st) /\ (\E j \in 1..m : Passes(w, T, rule, branch(j))) => r.proof # {}
      BY <2>12, <2>14 DEF Sums
    <3>3. found.st \in Rules!States /\ r.st \in Rules!States
      BY <2>9, <2>11, ResultsAre DEF Rules!Replies
    <3>4. /\ Later(st, r.st) /\ (Okay(w, r.st) => Okay(w, found.st))
          /\ (Rules!MetNoCap(w, r.st) => Rules!MetNoCap(w, found.st))
      BY <3>1, <3>2, <3>3, LaterHolds
    <3>5. i \in R <=> \E b \in S : Passes(w, T, rule, b)
      BY <1>6, <2>13, <2>14 DEF rule
    <3> HIDE DEF S, branch, m
    <3>6. QED BY <3>1, <3>2, <3>4, <3>5 DEF Tries
  <2>15. TriesFor(w, i, claim, active, st, r, holds)
    BY <2>14, Zenon DEF TriesFor, rule
  <2>16. QED BY <1>6, <2>11, <2>15 DEF rule, holds
<1>7. QED BY <1>4, <1>5, <1>6

-----------------------------------------------------------------------------
(* A question to the search *)

Tried == [st : Rules!States, proof : SUBSET Rules!Proofs, over : BOOLEAN]

\* Of the rules about the claim, those in R prove it.
Trying(w, n, deeper, active, claim, R) ==
  /\ \A i \in R : i \in 1..Len(w.rules) /\ w.rules[i].head.p = claim[2]
  /\ \A i \in 1..Len(w.rules), st \in Rules!States : w.rules[i].head.p = claim[2] =>
       Tries(w, R, i, st, Rules!TryRule(w, n, deeper, active, i, claim, st))

\* An answer from those rules among the first n.
TriesMany(w, R, n, st, r) ==
  /\ Later(st, r.st)
  /\ Okay(w, r.st) /\ r.proof # {} => R \cap (1..n) # {}
  /\ Rules!MetNoCap(w, r.st) /\ R \cap (1..n) # {} => r.proof # {}

\* One rule more adds its proof to those found.
LEMMA WithRuleHolds ==
  ASSUME NEW x \in Tried, NEW r \in Rules!Replies, NEW y, y = Rules!WithRule(x, r)
  PROVE  /\ y \in Tried /\ y.st = r.st /\ y.over = x.over
         /\ y.proof = {} <=> x.proof = {} /\ r.proof = {}
<1> DEFINE better == Rules!Better(x.proof, r.proof)
<1>1. x.proof \in SUBSET Rules!Proofs /\ r.proof \in SUBSET Rules!Proofs /\ r.st \in Rules!States /\ x.over \in BOOLEAN
  BY DEF Tried, Rules!Replies
<1>2. better \in SUBSET Rules!Proofs /\ (better = {} <=> x.proof = {} /\ r.proof = {})
  BY <1>1, BetterHolds
<1>3. y = [[x EXCEPT !.st = r.st] EXCEPT !.proof = better]
  BY DEF Rules!WithRule, Tried
<1> HIDE DEF better
<1>4. y \in Tried /\ y.st = r.st /\ y.over = x.over /\ y.proof = better
  BY <1>1, <1>2, <1>3 DEF Tried
<1>5. QED BY <1>2, <1>4

\* Trying the rules that are not being tried yet finds what they give, one by one.
LEMMA TryRulesTries ==
  ASSUME NEW w, Rules!IsWorld(w), NEW n \in Nat, NEW deeper \in [Rules!Calls -> Rules!Replies],
         NEW active \in Rules!Active, NEW claim \in Rules!GroundClaims, NEW st \in Rules!States,
         NEW r, r = Rules!TryRules(w, n, deeper, active, claim, st)
  PROVE  /\ r \in Tried
         /\ \A R : Trying(w, n, deeper, active, claim, R) => TriesMany(w, R, Len(w.rules), st, r)
         /\ Underived(w, claim[2]) => r.proof = {}
<1> DEFINE L == Len(w.rules)
           tried(i, x) == Rules!TryRule(w, n, deeper, active, i, claim, Rules!Consider(w, x.st))
           step == [x \in (1..L) \X Tried |->
                      IF w.rules[x[1]].head.p # claim[2] \/ x[2].over THEN x[2]
                      ELSE IF ~Rules!MayConsider(w, x[2].st)
                           THEN [x[2] EXCEPT !.st = Rules!Consider(w, @), !.over = TRUE]
                      ELSE Rules!WithRule(x[2], tried(x[1], x[2]))]
           start == [st |-> st, proof |-> {}, over |-> FALSE]
           skips(i, x) == w.rules[i].head.p # claim[2] \/ x.over
<1>1. r = Rules!Loop(step, L, start)
  BY Zenon DEF Rules!TryRules, Tried
<1>2. L \in Nat
  BY DEF Rules!IsWorld
<1>3. \A i \in 1..L, x \in Tried :
        LET y == step[<<i, x>>] IN
        /\ skips(i, x) => y = x
        /\ ~skips(i, x) /\ ~Rules!MayConsider(w, x.st) => y = [x EXCEPT !.st = Rules!Consider(w, @), !.over = TRUE]
        /\ ~skips(i, x) /\ Rules!MayConsider(w, x.st) => y = Rules!WithRule(x, tried(i, x))
  <2> HIDE DEF tried
  <2>1. QED OBVIOUS
<1>4. step = [z \in (1..L) \X Tried |-> step[z]]
  OBVIOUS
<1> HIDE DEF step
<1>5. ASSUME NEW i \in 1..L, NEW x \in Tried
      PROVE  LET y == step[<<i, x>>]
                 t == Rules!Consider(w, x.st) IN
             /\ x.st \in Rules!States /\ t \in Rules!States /\ Later(x.st, t)
             /\ skips(i, x) => y = x
             /\ ~skips(i, x) /\ ~Rules!MayConsider(w, x.st) =>
                  y \in Tried /\ y.proof = x.proof /\ y.st = t /\ ~Rules!CanContinue(w, t)
             /\ ~skips(i, x) /\ Rules!MayConsider(w, x.st) =>
                  /\ y \in Tried /\ y.st = tried(i, x).st /\ y.st \in Rules!States /\ y.over = x.over
                  /\ y.proof = {} <=> x.proof = {} /\ tried(i, x).proof = {}
  <2> DEFINE y == step[<<i, x>>]
             t == Rules!Consider(w, x.st)
  <2>1. x.st \in Rules!States /\ x.proof \in SUBSET Rules!Proofs /\ x.over \in BOOLEAN
    BY DEF Tried
  <2>2. t \in Rules!States /\ Later(x.st, t) /\ (~Rules!MayConsider(w, x.st) => ~Rules!CanContinue(w, t))
    BY <2>1, WorkHolds
  <2> HIDE DEF y, t
  <2>3. ASSUME ~skips(i, x), ~Rules!MayConsider(w, x.st)
        PROVE  y \in Tried /\ y.proof = x.proof /\ y.st = t
    <3>1. y = [x EXCEPT !.st = t, !.over = TRUE]
      BY <1>3, <2>3 DEF y, t
    <3>2. QED BY <2>1, <2>2, <3>1 DEF Tried
  <2>4. ASSUME ~skips(i, x), Rules!MayConsider(w, x.st)
        PROVE  /\ y \in Tried /\ y.st = tried(i, x).st /\ y.st \in Rules!States /\ y.over = x.over
               /\ y.proof = {} <=> x.proof = {} /\ tried(i, x).proof = {}
    <3>1. y = Rules!WithRule(x, tried(i, x))
      BY <1>3, <2>4 DEF y
    <3>2. tried(i, x) \in Rules!Replies
      <4>1. tried(i, x) = Rules!TryRule(w, n, deeper, active, i, claim, t)
        BY DEF t
      <4>2. QED BY <2>2, <4>1, TryRuleTries
    <3> HIDE DEF tried
    <3>3. QED BY <3>1, <3>2, WithRuleHolds DEF Rules!Replies
  <2>5. skips(i, x) => y = x
    BY <1>3 DEF y
  <2>6. QED BY <2>1, <2>2, <2>3, <2>4, <2>5 DEF y, t
<1> HIDE DEF skips
<1>6. step \in [(1..L) \X Tried -> Tried] /\ start \in Tried
  <2>1. \A i \in 1..L, x \in Tried : step[<<i, x>>] \in Tried
    BY <1>5
  <2>2. start \in Tried
    BY DEF Tried
  <2> HIDE DEF L
  <2>3. QED BY <1>4, <2>1, <2>2, StepIsTyped
<1>7. r \in Tried
  <2> HIDE DEF L, start
  <2>1. Rules!Loop(step, L, start) \in Tried
    BY <1>2, <1>6, LoopIsTyped
  <2>2. QED BY <1>1, <2>1
<1>8. ASSUME NEW R, Trying(w, n, deeper, active, claim, R) PROVE TriesMany(w, R, L, st, r)
  <2> DEFINE Good(i, x) == TriesMany(w, R, i, st, x) /\ (x.over => ~Rules!CanContinue(w, x.st))
             Inv == {y \in (0..L) \X Tried : Good(y[1], y[2])}
  <2>1. Good(0, start)
    <3>1. Later(st, start.st) /\ start.proof = {} /\ start.over = FALSE
      BY LaterHolds
    <3>2. 1..0 = {}
      OBVIOUS
    <3> HIDE DEF start
    <3>3. QED BY <3>1, <3>2 DEF TriesMany
  <2>2. ASSUME NEW i \in 1..L, NEW x \in Tried, Good(i - 1, x) PROVE Good(i, step[<<i, x>>])
    <3> DEFINE y == step[<<i, x>>]
               t == Rules!Consider(w, x.st)
               q == tried(i, x)
    <3>1. R \cap (1..i) # {} <=> R \cap (1..(i - 1)) # {} \/ i \in R
      OBVIOUS
    <3>2. /\ x.st \in Rules!States /\ t \in Rules!States /\ Later(x.st, t)
          /\ skips(i, x) => y = x
          /\ ~skips(i, x) /\ ~Rules!MayConsider(w, x.st) =>
               y \in Tried /\ y.proof = x.proof /\ y.st = t /\ ~Rules!CanContinue(w, t)
          /\ ~skips(i, x) /\ Rules!MayConsider(w, x.st) =>
               /\ y \in Tried /\ y.st = q.st /\ y.st \in Rules!States /\ y.over = x.over
               /\ y.proof = {} <=> x.proof = {} /\ q.proof = {}
      BY <1>5
    <3>3. ~skips(i, x) => Tries(w, R, i, t, q)
      <4>1. ~skips(i, x) => w.rules[i].head.p = claim[2]
        BY DEF skips
      <4>2. q = Rules!TryRule(w, n, deeper, active, i, claim, t)
        OBVIOUS
      <4> HIDE DEF q, t
      <4>3. QED BY <1>8, <3>2, <4>1, <4>2 DEF Trying
    <3>4. /\ Later(st, x.st) /\ (x.over => ~Rules!CanContinue(w, x.st))
          /\ Okay(w, x.st) /\ x.proof # {} => R \cap (1..(i - 1)) # {}
          /\ Rules!MetNoCap(w, x.st) /\ R \cap (1..(i - 1)) # {} => x.proof # {}
      BY <2>2 DEF TriesMany
    <3>5. skips(i, x) /\ ~x.over => i \notin R
      BY <1>8 DEF Trying, skips
    <3> HIDE DEF y, t, q
    <3>6. CASE skips(i, x)
      <4>1. x.over => ~Rules!MetNoCap(w, x.st)
        BY <3>4 DEF Rules!MetNoCap
      <4>2. QED BY <3>1, <3>2, <3>4, <3>5, <3>6, <4>1 DEF TriesMany, y
    <3>7. CASE ~skips(i, x) /\ ~Rules!MayConsider(w, x.st)
      <4>1. y.proof = x.proof /\ y.st = t /\ ~Rules!CanContinue(w, t) /\ ~Rules!MetNoCap(w, t)
        BY <3>2, <3>7 DEF Rules!MetNoCap
      <4>2. Later(st, t) /\ (Okay(w, t) => Okay(w, x.st))
        BY <3>2, <3>4, LaterHolds
      <4>3. Good(i, y)
        BY <3>1, <3>4, <4>1, <4>2 DEF TriesMany
      <4>4. QED BY <4>3 DEF y
    <3>8. CASE ~skips(i, x) /\ Rules!MayConsider(w, x.st)
      <4>1. /\ y.st = q.st /\ y.st \in Rules!States /\ y.over = x.over
            /\ y.proof = {} <=> x.proof = {} /\ q.proof = {}
        BY <3>2, <3>8
      <4>2. /\ Later(t, y.st)
            /\ Okay(w, y.st) /\ q.proof # {} => i \in R
            /\ Rules!MetNoCap(w, y.st) /\ i \in R => q.proof # {}
        BY <3>3, <3>8, <4>1 DEF Tries
      <4>3. Later(x.st, y.st)
        BY <3>2, <4>1, <4>2, LaterHolds
      <4>4. /\ Later(st, y.st) /\ (Okay(w, y.st) => Okay(w, x.st))
            /\ (Rules!MetNoCap(w, y.st) => Rules!MetNoCap(w, x.st))
            /\ (Rules!CanContinue(w, y.st) => Rules!CanContinue(w, x.st))
        BY <3>2, <3>4, <4>1, <4>3, LaterHolds
      <4>5. Good(i, y)
        BY <3>1, <3>4, <4>1, <4>2, <4>4 DEF TriesMany
      <4>6. QED BY <4>5 DEF y
    <3>9. QED BY <3>6, <3>7, <3>8
  <2>3. <<0, start>> \in Inv
    <3>1. 0 \in 0..L /\ start \in Tried
      BY <1>2, <1>6
    <3> HIDE DEF Good, start
    <3>2. QED BY <2>1, <3>1
  <2>4. ASSUME NEW i \in 1..L, NEW x \in Tried, <<i - 1, x>> \in Inv PROVE <<i, step[<<i, x>>]>> \in Inv
    <3> HIDE DEF Good
    <3>1. Good(i - 1, x)
      BY <2>4
    <3>2. Good(i, step[<<i, x>>])
      BY <2>2, <3>1
    <3>3. step[<<i, x>>] \in Tried
      BY <1>6
    <3>4. QED BY <3>2, <3>3
  <2>5. <<L, r>> \in Inv
    <3> HIDE DEF Inv, L, start
    <3>1. Keeps(Tried, L, step, Inv)
      BY <2>4 DEF Keeps
    <3>2. <<L, Rules!Loop(step, L, start)>> \in Inv
      BY <1>2, <1>6, <2>3, <3>1, LoopKeeps
    <3>3. QED BY <1>1, <3>2
  <2>6. Good(L, r)
    <3> HIDE DEF Good
    <3>1. QED BY <2>5
  <2>7. QED BY <2>6
<1>9. ASSUME Underived(w, claim[2]) PROVE r.proof = {}
  <2> DEFINE Inv == {y \in (0..L) \X Tried : y[2].proof = {}}
  <2>1. <<0, start>> \in Inv
    <3>1. 0 \in 0..L /\ start \in Tried /\ start.proof = {}
      BY <1>2, <1>6
    <3> HIDE DEF start, L
    <3>2. QED BY <3>1
  <2>2. ASSUME NEW i \in 1..L, NEW x \in Tried, <<i - 1, x>> \in Inv PROVE <<i, step[<<i, x>>]>> \in Inv
    <3>1. x.proof = {}
      BY <2>2
    <3>2. step[<<i, x>>] \in Tried
      BY <1>6
    <3>3. CASE skips(i, x) \/ ~Rules!MayConsider(w, x.st)
      BY <1>5, <3>1, <3>2, <3>3
    <3>4. CASE ~skips(i, x) /\ Rules!MayConsider(w, x.st)
      <4>1. w.rules[i].head.neg
        BY <1>9, <3>4 DEF Underived, skips
      <4>2. Rules!Consider(w, x.st) \in Rules!States
        BY <1>5
      <4>3. tried(i, x).proof = {}
        BY <4>1, <4>2, TryRuleTries
      <4> HIDE DEF tried
      <4>4. step[<<i, x>>].proof = {}
        BY <1>5, <3>1, <3>4, <4>3
      <4>5. QED BY <3>2, <4>4
    <3>5. QED BY <3>3, <3>4
  <2>3. <<L, r>> \in Inv
    <3> HIDE DEF Inv, L, start
    <3>1. Keeps(Tried, L, step, Inv)
      BY <2>2 DEF Keeps
    <3>2. <<L, Rules!Loop(step, L, start)>> \in Inv
      BY <1>2, <1>6, <2>1, <3>1, LoopKeeps
    <3>3. QED BY <1>1, <3>2
  <2>4. QED BY <2>3
<1>10. QED BY <1>7, <1>8, <1>9

\* An answer about a claim that the rules R prove.
Judges(w, R, claim, st, r) ==
  /\ Later(st, r.st)
  /\ claim \in Rules!Stored(w) \cup w.contra => r.proof = Rules!BaseProof(w, claim)
  /\ claim \notin Rules!Stored(w) \cup w.contra =>
       /\ Okay(w, r.st) /\ r.proof # {} => R # {}
       /\ Rules!MetNoCap(w, r.st) /\ R # {} => r.proof # {}

\* The base has a proof of what is stored.
LEMMA BaseProofIs ==
  ASSUME NEW w, NEW claim
  PROVE  /\ Rules!BaseProof(w, claim) \in SUBSET Rules!Proofs
         /\ Rules!BaseProof(w, claim) # {} <=> claim \in Rules!Stored(w)
<1>1. Rules!Fact(0) \in SUBSET Rules!Proofs /\ Rules!Fact(WeakCost) \in SUBSET Rules!Proofs
      /\ Rules!Fact(0) # {} /\ Rules!Fact(WeakCost) # {}
  BY CostsAreNatural DEF Rules!Fact, Rules!Proofs
<1>2. QED BY <1>1 DEF Rules!BaseProof, Rules!Stored

\* A question is answered by the base, or else by the rules.
LEMMA EntailsJudges ==
  ASSUME NEW w, Rules!IsWorld(w), NEW n \in Nat, NEW deeper \in [Rules!Calls -> Rules!Replies],
         NEW active \in Rules!Active, NEW claim \in Rules!GroundClaims, NEW st \in Rules!States,
         NEW r, r = Rules!Entails(w, n, deeper, active, claim, st)
  PROVE  /\ r \in Rules!Replies
         /\ \A R : Trying(w, n, deeper, active, claim, R) => Judges(w, R, claim, st, r)
         /\ Underived(w, claim[2]) => r.proof = Rules!BaseProof(w, claim)
<1> DEFINE base == Rules!BaseProof(w, claim)
           all == Rules!TryRules(w, n, deeper, active, claim, st)
<1>1. base \in SUBSET Rules!Proofs /\ (base # {} <=> claim \in Rules!Stored(w))
  BY BaseProofIs
<1>2. CASE base # {} \/ claim \in w.contra
  <2>1. r = [st |-> st, proof |-> base]
    BY <1>2, Zenon DEF Rules!Entails
  <2> HIDE DEF base
  <2>2. r \in Rules!Replies /\ r.st = st /\ r.proof = base /\ Later(st, st)
    BY <1>1, <2>1, LaterHolds DEF Rules!Replies
  <2>3. QED BY <1>1, <1>2, <2>2 DEF Judges, base
<1>3. CASE base = {} /\ claim \notin w.contra
  <2>1. r = [st |-> all.st, proof |-> all.proof]
    BY <1>3, Zenon DEF Rules!Entails
  <2>2. /\ all \in Tried /\ (Underived(w, claim[2]) => all.proof = {})
        /\ \A R : Trying(w, n, deeper, active, claim, R) => TriesMany(w, R, Len(w.rules), st, all)
    BY TryRulesTries
  <2> HIDE DEF base, all
  <2>3. r \in Rules!Replies /\ r.st = all.st /\ r.proof = all.proof
    BY <2>1, <2>2 DEF Rules!Replies, Tried
  <2>4. ASSUME NEW R, Trying(w, n, deeper, active, claim, R) PROVE Judges(w, R, claim, st, r)
    <3>1. R \cap (1..Len(w.rules)) = R
      BY <2>4 DEF Trying
    <3>2. QED BY <1>1, <1>3, <2>2, <2>3, <2>4, <3>1 DEF TriesMany, Judges
  <2>5. QED BY <1>3, <2>2, <2>3, <2>4 DEF base
<1>4. QED BY <1>2, <1>3

\* The search with n levels to go asks the one with a level less.
Levels(w, f) ==
  \A n \in 0..w.maxDepth, active \in Rules!Active, claim \in Rules!GroundClaims, st \in Rules!States :
    \E deeper \in [Rules!Calls -> Rules!Replies] :
      /\ n > 0 => deeper = f[n - 1]
      /\ f[n][<<active, claim, st>>] = Rules!Entails(w, n, deeper, active, claim, st)

\* The search is a function of each depth, made from the one that is less deep.
LEMMA SearchIs ==
  ASSUME NEW w, Rules!IsWorld(w)
  PROVE  \E f \in [0..w.maxDepth -> [Rules!Calls -> Rules!Replies]] :
           f[w.maxDepth] = Rules!Search(w) /\ Levels(w, f)
<1> DEFINE N == w.maxDepth
           X == [Rules!Calls -> Rules!Replies]
           at(n, deeper) == [x \in Rules!Calls |-> Rules!Entails(w, n, deeper, x[1], x[2], x[3])]
           base == at(0, Rules!Unasked)
           step == [y \in (1..N) \X X |-> at(y[1], y[2])]
           IsSearch(f) == f = [n \in 0..N |-> [x \in Rules!Calls |->
                                Rules!Entails(w, n, IF n = 0 THEN Rules!Unasked ELSE f[n - 1], x[1], x[2], x[3])]]
           search == CHOOSE f : IsSearch(f)
<1>1. N \in Nat
  BY DEF Rules!IsWorld
<1>2. Rules!Search(w) = search[N]
  BY Zenon DEF Rules!Search
<1> HIDE DEF search
<1>3. \A x \in Rules!Calls : x[1] \in Rules!Active /\ x[2] \in Rules!GroundClaims /\ x[3] \in Rules!States
  BY DEF Rules!Calls
<1>4. Rules!Unasked \in X
  <2>1. \A x \in Rules!Calls : [st |-> x[3], proof |-> {}] \in Rules!Replies
    BY <1>3 DEF Rules!Replies
  <2>2. QED BY <2>1 DEF Rules!Unasked
<1>5. ASSUME NEW n \in Nat, NEW deeper \in X PROVE at(n, deeper) \in X
  <2>1. \A x \in Rules!Calls : Rules!Entails(w, n, deeper, x[1], x[2], x[3]) \in Rules!Replies
    BY <1>3, EntailsJudges
  <2>2. QED BY <2>1
<1>6. PICK f \in [0..N -> X] : f[0] = base /\ \A n \in 1..N : f[n] = at(n, f[n - 1])
  <2>1. \A n \in 1..N, e \in X : step[<<n, e>>] = at(n, e)
    OBVIOUS
  <2>2. step = [y \in (1..N) \X X |-> step[y]]
    OBVIOUS
  <2>3. \A n \in 1..N : n \in Nat
    OBVIOUS
  <2>4. base \in X
    <3> HIDE DEF at, X
    <3>1. QED BY <1>4, <1>5
  <2> HIDE DEF at, base, step, X
  <2>5. step \in [(1..N) \X X -> X]
    <3>1. \A n \in 1..N, e \in X : step[<<n, e>>] \in X
      BY <1>5, <2>1, <2>3
    <3> HIDE DEF N
    <3>2. QED BY <2>2, <3>1, StepIsTyped
  <2>6. Goes(X, N, base, step, Rules!Loop(step, N, base))
    BY <1>1, <2>4, <2>5, LoopIterates
  <2>7. PICK f \in [0..N -> X] : f[0] = base /\ \A n \in 1..N : f[n] = step[<<n, f[n - 1]>>]
    BY <2>6, Zenon DEF Goes
  <2>8. \A n \in 1..N : n - 1 \in 0..N
    BY <1>1
  <2>9. \A n \in 1..N : f[n] = at(n, f[n - 1])
    BY <2>1, <2>7, <2>8
  <2>10. QED BY <2>7, <2>9
<1> DEFINE before(g, n) == IF n = 0 THEN Rules!Unasked ELSE g[n - 1]
<1>7. IsSearch(f)
  <2>1. f = [n \in 0..N |-> f[n]]
    OBVIOUS
  <2>2. \A n \in 0..N : n # 0 => n \in 1..N
    BY <1>1
  <2>3. \A n \in 0..N : f[n] = at(n, before(f, n))
    <3> HIDE DEF at
    <3>1. QED BY <1>6, <2>2
  <2> HIDE DEF X, N
  <2>4. QED BY <2>1, <2>3
<1>8. IsSearch(search)
  <2> HIDE DEF IsSearch
  <2>1. QED BY <1>7 DEF search
<1>9. \A n \in 0..N : search[n] = at(n, before(search, n))
  <2> HIDE DEF at, before
  <2>1. IsSearch(search) => search = [n \in 0..N |-> at(n, before(search, n))]
    BY Zenon DEF at, before
  <2> HIDE DEF IsSearch, N
  <2>2. QED BY <1>8, <2>1
<1>10. \A n \in 1..N : search[n] = at(n, search[n - 1])
  <2>1. \A n \in 1..N : n \in 0..N /\ n # 0
    BY <1>1
  <2> HIDE DEF at, N, IsSearch
  <2>2. QED BY <1>9, <2>1
<1>11. search[0] = base
  <2>1. 0 \in 0..N
    BY <1>1
  <2> HIDE DEF at, N, IsSearch
  <2>2. QED BY <1>9, <2>1
<1> HIDE DEF IsSearch
<1>12. search[N] = f[N]
  <2> DEFINE M == {m \in Nat : m <= N => search[m] = f[m]}
  <2>1. 0 \in M
    BY <1>6, <1>11
  <2>2. ASSUME NEW m \in M PROVE m + 1 \in M
    <3> HIDE DEF at, base
    <3>1. SUFFICES ASSUME m + 1 <= N PROVE search[m + 1] = f[m + 1]
      OBVIOUS
    <3>2. m + 1 \in 1..N /\ (m + 1) - 1 = m /\ m <= N
      BY <1>1, <3>1
    <3>3. search[m] = f[m]
      BY <3>2
    <3>4. QED BY <1>6, <1>10, <3>2, <3>3
  <2>3. Nat \subseteq M
    <3> HIDE DEF M
    <3>1. M \in SUBSET Nat BY DEF M
    <3>2. QED BY <2>1, <2>2, <3>1, Induction
  <2>4. QED BY <1>1, <2>3
<1>13. Levels(w, f)
  <2>1. SUFFICES ASSUME NEW n \in 0..N, NEW active \in Rules!Active, NEW claim \in Rules!GroundClaims,
                        NEW st \in Rules!States
                 PROVE  \E deeper \in X :
                          /\ n > 0 => deeper = f[n - 1]
                          /\ f[n][<<active, claim, st>>] = Rules!Entails(w, n, deeper, active, claim, st)
    BY Zenon DEF Levels
  <2>2. <<active, claim, st>> \in Rules!Calls
    BY DEF Rules!Calls
  <2>3. \A e : at(n, e)[<<active, claim, st>>] = Rules!Entails(w, n, e, active, claim, st)
    BY <2>2
  <2>4. CASE n = 0
    <3>1. f[n] = at(n, Rules!Unasked)
      BY <1>6, <2>4
    <3> HIDE DEF at
    <3>2. QED BY <1>4, <2>3, <2>4, <3>1
  <2>5. CASE n # 0
    <3>1. n \in 1..N /\ n - 1 \in 0..N
      BY <1>1, <2>5
    <3> HIDE DEF at
    <3>2. f[n] = at(n, f[n - 1]) /\ f[n - 1] \in X
      BY <1>6, <3>1
    <3>3. QED BY <2>3, <3>2
  <2>6. QED BY <2>4, <2>5
<1>14. QED BY <1>2, <1>12, <1>13

-----------------------------------------------------------------------------
(* What the rules mean *)

\* The claim follows from M by a rule of the level, above the claims Below, when
\* the rules with their claims in A are left out.
Follows(w, l, A, Below, M, c) ==
  /\ c \in Rules!GroundClaims /\ c \notin w.contra
  /\ \E i \in 1..Len(w.rules) :
       <<i, c>> \notin A /\ w.rules[i].level = l /\ Rules!Derives(w, i, c) /\ Rules!Proves(w, Below, M, i, c)

IsClosed(w, l, A, Below, M) == Below \subseteq M /\ \A c : Follows(w, l, A, Below, M, c) => c \in M

\* The least closed set.
Reach(w, l, A, Below) == {c \in Rules!GroundClaims : \A M \in SUBSET Rules!GroundClaims : IsClosed(w, l, A, Below, M) => c \in M}

\* What more claims hold, the same rules give.
LEMMA ProvesGrows ==
  ASSUME NEW w, NEW Below, NEW M, NEW N, M \subseteq N, NEW i, NEW c, Rules!Proves(w, Below, M, i, c)
  PROVE  Rules!Proves(w, Below, N, i, c)
<1> DEFINE rule == w.rules[i]
<1>1. \A g : Rules!IsTrue(w, M, g) => Rules!IsTrue(w, N, g)
  BY DEF Rules!IsTrue
<1>2. \A e, b : Rules!Vetoed(w, Below, N, e, b) => Rules!Vetoed(w, Below, M, e, b)
  BY <1>1 DEF Rules!Vetoed
<1>3. \A b : Rules!Fires(w, Below, M, rule, b) => Rules!Fires(w, Below, N, rule, b)
  BY <1>1, <1>2 DEF Rules!Fires
<1>4. QED BY <1>3, Zenon DEF Rules!Proves

\* What more claims hold and fewer rules are left out, more follows.
LEMMA FollowsGrows ==
  ASSUME NEW w, NEW l, NEW A, NEW B, B \subseteq A, NEW Below, NEW M, NEW N, M \subseteq N,
         NEW c, Follows(w, l, A, Below, M, c)
  PROVE  Follows(w, l, B, Below, N, c)
<1>1. PICK i \in 1..Len(w.rules) :
        <<i, c>> \notin A /\ w.rules[i].level = l /\ Rules!Derives(w, i, c) /\ Rules!Proves(w, Below, M, i, c)
  BY DEF Follows
<1>2. Rules!Proves(w, Below, N, i, c)
  BY <1>1, ProvesGrows
<1>3. <<i, c>> \notin B
  BY <1>1
<1>4. QED BY <1>1, <1>2, <1>3, Zenon DEF Follows

\* What is reached is the least set of claims that is closed under the rules.
LEMMA ReachIs ==
  ASSUME NEW w, NEW l, NEW A, NEW Below \in SUBSET Rules!GroundClaims
  PROVE  /\ Reach(w, l, A, Below) \in SUBSET Rules!GroundClaims
         /\ IsClosed(w, l, A, Below, Reach(w, l, A, Below))
         /\ \A M \in SUBSET Rules!GroundClaims : IsClosed(w, l, A, Below, M) => Reach(w, l, A, Below) \subseteq M
<1> DEFINE R == Reach(w, l, A, Below)
<1>1. R \in SUBSET Rules!GroundClaims /\ \A M \in SUBSET Rules!GroundClaims : IsClosed(w, l, A, Below, M) => R \subseteq M
  BY DEF Reach
<1>2. Below \subseteq R
  BY DEF Reach, IsClosed
<1>3. ASSUME NEW c, Follows(w, l, A, Below, R, c) PROVE c \in R
  <2>1. c \in Rules!GroundClaims
    BY <1>3 DEF Follows
  <2>2. ASSUME NEW M \in SUBSET Rules!GroundClaims, IsClosed(w, l, A, Below, M) PROVE c \in M
    <3>1. R \subseteq M
      BY <1>1, <2>2
    <3> HIDE DEF R
    <3>2. Follows(w, l, A, Below, M, c)
      BY <1>3, <3>1, FollowsGrows
    <3>3. QED BY <2>2, <3>2 DEF IsClosed
  <2>3. QED BY <2>1, <2>2, Zenon DEF Reach
<1>4. QED BY <1>1, <1>2, <1>3, Zenon DEF IsClosed

\* Leaving out more, less is reached.
LEMMA ReachShrinks ==
  ASSUME NEW w, NEW l, NEW A, NEW B, B \subseteq A, NEW Below \in SUBSET Rules!GroundClaims
  PROVE  Reach(w, l, A, Below) \subseteq Reach(w, l, B, Below)
<1> DEFINE R == Reach(w, l, B, Below)
<1>1. R \in SUBSET Rules!GroundClaims /\ IsClosed(w, l, B, Below, R)
  BY ReachIs
<1> HIDE DEF R
<1>2. \A c : Follows(w, l, A, Below, R, c) => Follows(w, l, B, Below, R, c)
  BY FollowsGrows
<1>3. IsClosed(w, l, A, Below, R)
  BY <1>1, <1>2 DEF IsClosed
<1>4. QED BY <1>1, <1>3, ReachIs DEF R

\* Only what rules of the level are about is added.
LEMMA ReachAdds ==
  ASSUME NEW w, NEW l, NEW A, NEW Below \in SUBSET Rules!GroundClaims, NEW c \in Reach(w, l, A, Below), c \notin Below
  PROVE  c \notin w.contra /\ \E i \in 1..Len(w.rules) : w.rules[i].level = l /\ Rules!Derives(w, i, c)
<1> DEFINE R == Reach(w, l, A, Below)
           Added(d) == d \notin w.contra /\ \E i \in 1..Len(w.rules) : w.rules[i].level = l /\ Rules!Derives(w, i, d)
           M == {d \in R : d \in Below \/ Added(d)}
<1>1. R \in SUBSET Rules!GroundClaims /\ IsClosed(w, l, A, Below, R)
  BY ReachIs
<1>2. \A d : Follows(w, l, A, Below, R, d) => Added(d)
  BY Zenon DEF Follows
<1> HIDE DEF R, Added
<1>3. M \in SUBSET Rules!GroundClaims /\ M \subseteq R
  BY <1>1
<1>4. \A d : Follows(w, l, A, Below, M, d) => d \in M
  <2>1. ASSUME NEW d, Follows(w, l, A, Below, M, d) PROVE d \in M
    <3>1. Follows(w, l, A, Below, R, d)
      <4> HIDE DEF M
      <4>1. QED BY <1>3, <2>1, FollowsGrows
    <3>2. d \in R
      BY <1>1, <3>1 DEF IsClosed
    <3>3. QED BY <1>2, <3>1, <3>2
  <2>2. QED BY <2>1
<1>5. Below \subseteq M
  BY <1>1 DEF IsClosed
<1>6. IsClosed(w, l, A, Below, M)
  <2> HIDE DEF M
  <2>1. QED BY <1>4, <1>5 DEF IsClosed
<1>7. R \subseteq M
  <2> HIDE DEF M
  <2>1. QED BY <1>3, <1>6, ReachIs DEF R
<1>8. Added(c)
  BY <1>7 DEF R
<1>9. QED BY <1>8 DEF Added

\* The rules that prove a claim, each without itself being tried for it again.
Provers(w, l, A, Below, c) ==
  {i \in 1..Len(w.rules) :
     /\ <<i, c>> \notin A /\ w.rules[i].level = l /\ Rules!Derives(w, i, c)
     /\ Rules!Proves(w, Below, Reach(w, l, A \cup {<<i, c>>}, Below), i, c)}

\* A claim that is reached has such a rule: nothing but the claim itself is lost
\* with all the rules for it, and what they prove needs no more.
LEMMA ReachHasProver ==
  ASSUME NEW w, NEW l, NEW A, NEW Below \in SUBSET Rules!GroundClaims, NEW c \in Rules!GroundClaims, c \notin w.contra, c \notin Below
  PROVE  c \in Reach(w, l, A, Below) <=> Provers(w, l, A, Below, c) # {}
<1> DEFINE R == Reach(w, l, A, Below)
           K == A \cup {<<i, c>> : i \in 1..Len(w.rules)}
           E == Reach(w, l, K, Below)
<1>1. R \in SUBSET Rules!GroundClaims /\ IsClosed(w, l, A, Below, R)
  BY ReachIs
<1>2. E \in SUBSET Rules!GroundClaims /\ IsClosed(w, l, K, Below, E)
  <2> HIDE DEF K
  <2>1. QED BY ReachIs
<1>3. A \subseteq K /\ \A i \in 1..Len(w.rules) : <<i, c>> \in K
  OBVIOUS
<1>4. ASSUME NEW i \in Provers(w, l, A, Below, c) PROVE c \in R
  <2> DEFINE B == A \cup {<<i, c>>}
  <2>1. /\ i \in 1..Len(w.rules) /\ <<i, c>> \notin A /\ w.rules[i].level = l /\ Rules!Derives(w, i, c)
        /\ Rules!Proves(w, Below, Reach(w, l, B, Below), i, c)
    BY DEF Provers
  <2>2. A \subseteq B
    OBVIOUS
  <2> HIDE DEF B
  <2>3. Reach(w, l, B, Below) \subseteq R
    BY <2>2, ReachShrinks
  <2> HIDE DEF R
  <2>4. Rules!Proves(w, Below, R, i, c)
    BY <2>1, <2>3, ProvesGrows
  <2>5. Follows(w, l, A, Below, R, c)
    BY <2>1, <2>4, Zenon DEF Follows
  <2>6. QED BY <1>1, <2>5 DEF IsClosed
<1>5. ASSUME Provers(w, l, A, Below, c) = {} PROVE c \notin R
  <2>1. c \notin E
    <3> DEFINE M == E \ {c}
    <3>1. M \in SUBSET Rules!GroundClaims /\ M \subseteq E
      BY <1>2
    <3>2. ASSUME NEW d, Follows(w, l, K, Below, M, d) PROVE d \in M
      <4>1. Follows(w, l, K, Below, E, d)
        <5> HIDE DEF M, E, K
        <5>1. QED BY <3>1, <3>2, FollowsGrows
      <4>2. d \in E
        BY <1>2, <4>1 DEF IsClosed
      <4>3. d # c
        BY <1>3, <3>2 DEF Follows
      <4>4. QED BY <4>2, <4>3
    <3>3. Below \subseteq M
      BY <1>2 DEF IsClosed
    <3>4. IsClosed(w, l, K, Below, M)
      <4> HIDE DEF M, K
      <4>1. QED BY <3>2, <3>3 DEF IsClosed
    <3>5. E \subseteq M
      <4> HIDE DEF M, K
      <4>1. QED BY <3>1, <3>4, ReachIs
    <3>6. QED BY <3>5
  <2>2. ASSUME NEW d, Follows(w, l, A, Below, E, d) PROVE d \in E
    <3>1. PICK i \in 1..Len(w.rules) :
            <<i, d>> \notin A /\ w.rules[i].level = l /\ Rules!Derives(w, i, d) /\ Rules!Proves(w, Below, E, i, d)
      BY <2>2, Zenon DEF Follows
    <3>2. d \in Rules!GroundClaims /\ d \notin w.contra
      BY <2>2 DEF Follows
    <3>3. d # c
      <4>1. ASSUME d = c PROVE FALSE
        <5> DEFINE B == A \cup {<<i, c>>}
        <5>1. B \subseteq K
          OBVIOUS
        <5> HIDE DEF B, K
        <5>2. E \subseteq Reach(w, l, B, Below)
          BY <5>1, ReachShrinks
        <5> HIDE DEF E
        <5>3. Rules!Proves(w, Below, Reach(w, l, B, Below), i, c)
          BY <3>1, <4>1, <5>2, ProvesGrows
        <5>4. i \in Provers(w, l, A, Below, c)
          BY <3>1, <4>1, <5>3, Zenon DEF Provers, B
        <5>5. QED BY <1>5, <5>4
      <4>2. QED BY <4>1
    <3>4. <<i, d>> \notin K
      BY <3>1, <3>3
    <3> HIDE DEF K, E
    <3>5. Follows(w, l, K, Below, E, d)
      BY <3>1, <3>2, <3>4, Zenon DEF Follows
    <3>6. QED BY <1>2, <3>5 DEF IsClosed
  <2>3. IsClosed(w, l, A, Below, E)
    BY <1>2, <2>2 DEF IsClosed
  <2> HIDE DEF E
  <2>4. R \subseteq E
    BY <1>2, <2>3, ReachIs
  <2>5. QED BY <2>1, <2>4
<1>6. QED
  <2>1. CASE Provers(w, l, A, Below, c) = {}
    BY <1>5, <2>1
  <2>2. CASE Provers(w, l, A, Below, c) # {}
    BY <1>4, <2>2
  <2>3. QED BY <2>1, <2>2

\* The model above a stratum is what is reached with no rule left out.
LEMMA LeastModelIs ==
  ASSUME NEW w, Rules!IsWorld(w), NEW l, NEW Below \in SUBSET Rules!GroundClaims
  PROVE  Rules!LeastModel(w, l, Below) = Reach(w, l, {}, Below)
<1> DEFINE U == Rules!GroundClaims
           cons(M) == Rules!Consequences(w, l, Below, M)
           f == [M \in SUBSET U |-> cons(M)]
           Def(c) == c = [M \in SUBSET U |-> IF cons(M) \subseteq M THEN M ELSE c[M \cup cons(M)]]
           sat == CHOOSE c : Def(c)
           R == Reach(w, l, {}, Below)
           L == sat[Below]
<1>1. IsFiniteSet(U)
  BY RuleNamesAreFinite, TriplesAreFinite DEF Rules!GroundClaims
<1>2. ASSUME NEW M PROVE cons(M) \subseteq U /\ \A c : c \in cons(M) <=> Follows(w, l, {}, Below, M, c)
  <2>1. DOMAIN w.rules = 1..Len(w.rules)
    BY DEF Rules!IsWorld
  <2>2. \A c : c \in cons(M) <=>
          /\ c \in U /\ c \notin w.contra
          /\ \E i \in DOMAIN w.rules : w.rules[i].level = l /\ Rules!Derives(w, i, c) /\ Rules!Proves(w, Below, M, i, c)
    BY DEF Rules!Consequences
  <2> HIDE DEF cons
  <2>3. \A c : c \in cons(M) <=> Follows(w, l, {}, Below, M, c)
    BY <2>1, <2>2 DEF Follows
  <2>4. QED BY <2>2, <2>3
<1>3. Rules!LeastModel(w, l, Below) = L
  BY Zenon DEF Rules!LeastModel
<1> HIDE DEF cons
<1>4. f \in [SUBSET U -> SUBSET U]
  BY <1>2
<1>5. \A M \in SUBSET U : f[M] = cons(M)
  OBVIOUS
<1>6. \A M, N \in SUBSET U : M \subseteq N => cons(M) \subseteq cons(N)
  <2>1. ASSUME NEW M \in SUBSET U, NEW N \in SUBSET U, M \subseteq N, NEW c \in cons(M) PROVE c \in cons(N)
    <3>1. Follows(w, l, {}, Below, M, c)
      BY <1>2
    <3>2. {} \subseteq {}
      OBVIOUS
    <3>3. Follows(w, l, {}, Below, N, c)
      BY <2>1, <3>1, <3>2, FollowsGrows
    <3>4. QED BY <1>2, <3>3
  <2>2. QED BY <2>1
<1>7. Monotone(f, U)
  <2> HIDE DEF U
  <2>1. QED BY <1>6 DEF Monotone
<1>8. \A c : Def(c) <=> Saturates(c, f, U)
  <2> HIDE DEF U
  <2>1. QED BY DEF Saturates
<1>9. Saturates(sat, f, U)
  <2> HIDE DEF f, U, Def
  <2>1. Def(sat)
    BY <1>4, <1>7, <1>8, SaturationExists
  <2>2. QED BY <1>8, <2>1
<1>10. Least(sat[Below], Below, f, U)
  <2>1. Below \in SUBSET U
    OBVIOUS
  <2> HIDE DEF f, sat, U
  <2>2. QED BY <1>1, <1>4, <1>7, <1>9, <2>1, SaturationIsLeast
<1>11. /\ L \in SUBSET U /\ Below \subseteq L /\ cons(L) \subseteq L
       /\ \A W \in SUBSET U : Below \subseteq W /\ cons(W) \subseteq W => L \subseteq W
  <2> HIDE DEF f, sat, U
  <2>1. /\ L \in SUBSET U /\ Below \subseteq L /\ f[L] \subseteq L
        /\ \A W \in SUBSET U : Below \subseteq W /\ f[W] \subseteq W => L \subseteq W
    BY <1>10 DEF Least
  <2> HIDE DEF L
  <2>2. QED BY <1>5, <2>1
<1> HIDE DEF L, f
<1>12. \A M \in SUBSET U : IsClosed(w, l, {}, Below, M) <=> Below \subseteq M /\ cons(M) \subseteq M
  BY <1>2 DEF IsClosed
<1>13. R \in SUBSET U /\ IsClosed(w, l, {}, Below, R) /\ \A M \in SUBSET U : IsClosed(w, l, {}, Below, M) => R \subseteq M
  BY ReachIs
<1> HIDE DEF R
<1>14. L = R
  BY <1>11, <1>12, <1>13
<1>15. QED BY <1>3, <1>14 DEF R

\* A loop with one more round.
OneMore(X, m, n, x, step, before) ==
  /\ m \in Nat /\ n \in Nat /\ n = m + 1 /\ x \in X
  /\ step \in [(1..n) \X X -> X] /\ before \in [(1..m) \X X -> X]
  /\ \A i \in 1..m, y \in X : before[<<i, y>>] = step[<<i, y>>]

\* A loop of one round more takes one step more.
LEMMA LoopGoesOn ==
  ASSUME NEW X, NEW m, NEW n, NEW x, NEW step, NEW before, OneMore(X, m, n, x, step, before)
  PROVE  Rules!Loop(step, n, x) = step[<<n, Rules!Loop(before, m, x)>>]
<1> m \in Nat /\ n \in Nat /\ n = m + 1 /\ x \in X
    /\ step \in [(1..n) \X X -> X] /\ before \in [(1..m) \X X -> X]
  BY DEF OneMore
<1>1. m \in Nat /\ n \in 1..n /\ m \in 0..n /\ \A i \in 1..m : i \in 1..n /\ i - 1 \in 0..m /\ i \in 0..m
  OBVIOUS
<1>2. PICK f \in [0..n -> X] : f[0] = x /\ (\A i \in 1..n : f[i] = step[<<i, f[i - 1]>>])
                               /\ f[n] = Rules!Loop(step, n, x)
  <2>1. Goes(X, n, x, step, Rules!Loop(step, n, x))
    BY LoopIterates
  <2>2. QED BY <2>1, Zenon DEF Goes
<1> DEFINE Inv == {z \in (0..m) \X X : z[2] = f[z[1]]}
<1>3. <<0, x>> \in Inv
  BY <1>1, <1>2
<1>4. ASSUME NEW i \in 1..m, NEW z \in X, <<i - 1, z>> \in Inv PROVE <<i, before[<<i, z>>]>> \in Inv
  <2>1. z = f[i - 1]
    BY <1>4
  <2>2. before[<<i, z>>] = step[<<i, z>>] /\ before[<<i, z>>] \in X
    BY DEF OneMore
  <2>3. f[i] = step[<<i, f[i - 1]>>]
    BY <1>1, <1>2
  <2>4. QED BY <1>1, <2>1, <2>2, <2>3
<1>5. <<m, Rules!Loop(before, m, x)>> \in Inv
  <2> HIDE DEF Inv
  <2>1. Keeps(X, m, before, Inv)
    BY <1>4 DEF Keeps
  <2>2. QED BY <1>1, <1>3, <2>1, LoopKeeps
<1>6. Rules!Loop(before, m, x) = f[m]
  BY <1>5
<1>7. f[n] = step[<<n, f[m]>>]
  BY <1>1, <1>2
<1>8. QED BY <1>2, <1>6, <1>7

\* The strata are reached one above the other, from what is stored.
LEMMA StratumIs ==
  ASSUME NEW w, Rules!IsWorld(w), NEW l \in Nat
  PROVE  /\ Rules!Stratum(w, l) \in SUBSET Rules!GroundClaims
         /\ l = 0 => Rules!Stratum(w, l) = Rules!Stored(w)
         /\ l > 0 => Rules!Stratum(w, l) = Reach(w, l, {}, Rules!Stratum(w, l - 1))
<1> DEFINE X == SUBSET Rules!GroundClaims
           least(i, B) == Rules!LeastModel(w, i, B)
           step(n) == [x \in (1..n) \X X |-> least(x[1], x[2])]
           base == Rules!Stored(w)
<1>1. \A n : Rules!Stratum(w, n) = Rules!Loop(step(n), n, base)
  BY Zenon DEF Rules!Stratum
<1>2. base \in X
  BY DEF Rules!Stored, Rules!IsWorld
<1>3. ASSUME NEW i, NEW B \in X PROVE least(i, B) = Reach(w, i, {}, B) /\ least(i, B) \in X
  BY LeastModelIs, ReachIs
<1> HIDE DEF base, X, least
<1>4. ASSUME NEW n PROVE step(n) \in [(1..n) \X X -> X] /\ \A i \in 1..n, B \in X : step(n)[<<i, B>>] = least(i, B)
  <2>1. \A i \in 1..n, B \in X : step(n)[<<i, B>>] = least(i, B)
    OBVIOUS
  <2>2. step(n) = [z \in (1..n) \X X |-> step(n)[z]]
    OBVIOUS
  <2> DEFINE s == step(n)
  <2> HIDE DEF step
  <2>3. \A i \in 1..n, B \in X : s[<<i, B>>] \in X
    BY <1>3, <2>1
  <2>4. s = [z \in (1..n) \X X |-> s[z]]
    BY <2>2
  <2> HIDE DEF s
  <2>5. s \in [(1..n) \X X -> X]
    BY <2>3, <2>4, StepIsTyped
  <2>6. QED BY <2>1, <2>5 DEF s
<1> HIDE DEF step
<1>5. ASSUME NEW n \in Nat PROVE Rules!Stratum(w, n) \in X
  <2>1. step(n) \in [(1..n) \X X -> X]
    BY <1>4
  <2> DEFINE s == step(n)
  <2> HIDE DEF s
  <2>2. Rules!Loop(s, n, base) \in X
    BY <1>2, <2>1, LoopIsTyped DEF s
  <2>3. QED BY <1>1, <2>2 DEF s
<1>6. CASE l = 0
  <2>1. step(0) \in [(1..0) \X X -> X]
    BY <1>4
  <2> DEFINE s == step(0)
  <2> HIDE DEF s
  <2>2. Goes(X, 0, base, s, Rules!Loop(s, 0, base))
    BY <1>2, <2>1, LoopIterates DEF s
  <2>3. Rules!Loop(s, 0, base) = base
    BY <2>2 DEF Goes
  <2>4. QED BY <1>1, <1>5, <1>6, <2>3 DEF s, X, base
<1>7. CASE l > 0
  <2> DEFINE m == l - 1
             s == step(l)
             t == step(m)
  <2>1. m \in Nat /\ l = m + 1 /\ l \in 1..l /\ \A i \in 1..m : i \in 1..l
    BY <1>7
  <2> HIDE DEF m
  <2>2. s \in [(1..l) \X X -> X] /\ \A i \in 1..l, B \in X : s[<<i, B>>] = least(i, B)
    BY <1>4
  <2>3. t \in [(1..m) \X X -> X] /\ \A i \in 1..m, B \in X : t[<<i, B>>] = least(i, B)
    BY <1>4
  <2> HIDE DEF s, t
  <2>4. OneMore(X, m, l, base, s, t)
    BY <1>2, <2>1, <2>2, <2>3 DEF OneMore
  <2>5. Rules!Loop(s, l, base) = s[<<l, Rules!Loop(t, m, base)>>]
    BY <2>4, LoopGoesOn
  <2>6. Rules!Stratum(w, l) = Rules!Loop(s, l, base) /\ Rules!Stratum(w, m) = Rules!Loop(t, m, base)
    BY <1>1 DEF s, t
  <2>7. Rules!Stratum(w, m) \in X
    BY <1>5, <2>1
  <2>8. Rules!Stratum(w, l) = Reach(w, l, {}, Rules!Stratum(w, m))
    BY <1>3, <2>1, <2>2, <2>5, <2>6, <2>7
  <2>9. QED BY <1>5, <1>7, <2>8 DEF m, X
<1>8. QED BY <1>6, <1>7

-----------------------------------------------------------------------------
(* Strata *)

Heading(w, i, p) == ~w.rules[i].head.neg /\ w.rules[i].head.p = p
OnLevel(w, p, l) == \A i \in 1..Len(w.rules) : Heading(w, i, p) => w.rules[i].level = l

\* No rule of the levels from m, excluded, to l derives the predicate.
NoneBetween(w, p, m, l) ==
  \A i \in 1..Len(w.rules) : Heading(w, i, p) => ~(m < w.rules[i].level /\ w.rules[i].level <= l)

\* What the rule needs is of the level or below, and below if it is negated; what
\* vetoes if it holds is not derived.
NeedsUpTo(w, rule, l) ==
  /\ \A k \in 1..Len(rule.conditions), j \in 1..Len(w.rules) : Heading(w, j, rule.conditions[k].p) =>
       IF rule.conditions[k].neg THEN w.rules[j].level < l ELSE w.rules[j].level <= l
  /\ \A k \in 1..Len(rule.exceptions), j \in 1..Len(w.rules) : Heading(w, j, rule.exceptions[k].p) =>
       rule.exceptions[k].neg /\ w.rules[j].level <= l

\* Where a stratified rule's level lies, and what it needs.
LEMMA StrataAre ==
  ASSUME NEW w, Rules!IsWorld(w), Rules!IsStratified(w), NEW i \in 1..Len(w.rules), NEW rule, rule = w.rules[i]
  PROVE  /\ rule.level \in Nat \ {0} /\ rule.level <= w.strata
         /\ ~rule.head.neg => OnLevel(w, rule.head.p, rule.level)
         /\ NeedsUpTo(w, rule, rule.level)
<1> DEFINE Heads(p) == {w.rules[j] : j \in {j \in DOMAIN w.rules : ~w.rules[j].head.neg /\ w.rules[j].head.p = p}}
<1>1. /\ DOMAIN w.rules = 1..Len(w.rules) /\ rule.level \in Nat \ {0}
      /\ DOMAIN rule.conditions = 1..Len(rule.conditions) /\ DOMAIN rule.exceptions = 1..Len(rule.exceptions)
  <2>1. /\ rule.level \in Nat \ {0} /\ rule.conditions \in Seq(Rules!Patterns)
        /\ rule.exceptions \in Seq(Rules!Patterns)
    BY RulesAre
  <2>2. w.rules \in Seq(Rules!RuleType)
    BY DEF Rules!IsWorld
  <2>3. QED BY <2>1, <2>2
<1>2. /\ rule.level <= w.strata
      /\ \A r \in Heads(rule.head.p) : ~rule.head.neg => r.level = rule.level
      /\ \A k \in 1..Len(rule.conditions) : \A r \in Heads(rule.conditions[k].p) :
           IF rule.conditions[k].neg THEN r.level < rule.level ELSE r.level <= rule.level
      /\ \A k \in 1..Len(rule.exceptions) :
           IF rule.exceptions[k].neg THEN \A r \in Heads(rule.exceptions[k].p) : r.level <= rule.level
           ELSE Heads(rule.exceptions[k].p) = {}
  <2>1. \A j \in DOMAIN w.rules :
          /\ w.rules[j].level <= w.strata
          /\ \A r \in Heads(w.rules[j].head.p) : ~w.rules[j].head.neg => r.level = w.rules[j].level
          /\ \A k \in DOMAIN w.rules[j].conditions : \A r \in Heads(w.rules[j].conditions[k].p) :
               IF w.rules[j].conditions[k].neg THEN r.level < w.rules[j].level ELSE r.level <= w.rules[j].level
          /\ \A k \in DOMAIN w.rules[j].exceptions :
               IF w.rules[j].exceptions[k].neg
               THEN \A r \in Heads(w.rules[j].exceptions[k].p) : r.level <= w.rules[j].level
               ELSE Heads(w.rules[j].exceptions[k].p) = {}
    BY Zenon DEF Rules!IsStratified
  <2> HIDE DEF Heads
  <2>2. i \in DOMAIN w.rules
    BY <1>1
  <2>3. /\ rule.level <= w.strata
        /\ \A r \in Heads(rule.head.p) : ~rule.head.neg => r.level = rule.level
        /\ \A k \in DOMAIN rule.conditions : \A r \in Heads(rule.conditions[k].p) :
             IF rule.conditions[k].neg THEN r.level < rule.level ELSE r.level <= rule.level
        /\ \A k \in DOMAIN rule.exceptions :
             IF rule.exceptions[k].neg THEN \A r \in Heads(rule.exceptions[k].p) : r.level <= rule.level
             ELSE Heads(rule.exceptions[k].p) = {}
    BY <2>1, <2>2
  <2>4. QED BY <1>1, <2>3
<1>3. \A p, j : j \in 1..Len(w.rules) /\ Heading(w, j, p) => w.rules[j] \in Heads(p)
  BY <1>1 DEF Heading
<1> HIDE DEF Heads
<1>4. ~rule.head.neg => OnLevel(w, rule.head.p, rule.level)
  BY <1>2, <1>3 DEF OnLevel
<1>5. ASSUME NEW k \in 1..Len(rule.conditions), NEW j \in 1..Len(w.rules), Heading(w, j, rule.conditions[k].p)
      PROVE  IF rule.conditions[k].neg THEN w.rules[j].level < rule.level ELSE w.rules[j].level <= rule.level
  BY <1>2, <1>3, <1>5
<1>6. ASSUME NEW k \in 1..Len(rule.exceptions), NEW j \in 1..Len(w.rules), Heading(w, j, rule.exceptions[k].p)
      PROVE  rule.exceptions[k].neg /\ w.rules[j].level <= rule.level
  BY <1>2, <1>3, <1>6
<1>7. NeedsUpTo(w, rule, rule.level)
  BY <1>5, <1>6 DEF NeedsUpTo
<1>8. QED BY <1>1, <1>2, <1>4, <1>7

\* S adds to B what the rules of the level are about.
AddsOnLevel(w, l, S, B) ==
  \A c : c \in S /\ c \notin B =>
    c \notin w.contra /\ \E i \in 1..Len(w.rules) : Heading(w, i, c[2]) /\ w.rules[i].level = l

\* A stratum adds claims of its own level only.
LEMMA StratumHolds ==
  ASSUME NEW w, Rules!IsWorld(w), NEW n \in Nat, NEW l, l = n + 1
  PROVE  /\ Rules!Stratum(w, n) \in SUBSET Rules!GroundClaims
         /\ Rules!Stratum(w, l) = Reach(w, l, {}, Rules!Stratum(w, n))
         /\ Rules!Stratum(w, n) \subseteq Rules!Stratum(w, l)
         /\ AddsOnLevel(w, l, Rules!Stratum(w, l), Rules!Stratum(w, n))
<1> DEFINE B == Rules!Stratum(w, n)
           S == Rules!Stratum(w, l)
<1>1. B \in SUBSET Rules!GroundClaims
  BY StratumIs
<1>2. S = Reach(w, l, {}, B)
  <2>1. l \in Nat /\ l > 0 /\ l - 1 = n
    OBVIOUS
  <2>2. S = Reach(w, l, {}, Rules!Stratum(w, l - 1))
    BY <2>1, StratumIs
  <2>3. QED BY <2>1, <2>2
<1> HIDE DEF B, S
<1>3. B \subseteq S
  BY <1>1, <1>2, ReachIs DEF IsClosed
<1>4. ASSUME NEW c, c \in S, c \notin B
      PROVE  c \notin w.contra /\ \E i \in 1..Len(w.rules) : Heading(w, i, c[2]) /\ w.rules[i].level = l
  <2>1. c \notin w.contra /\ \E i \in 1..Len(w.rules) : w.rules[i].level = l /\ Rules!Derives(w, i, c)
    BY <1>1, <1>2, <1>4, ReachAdds
  <2>2. QED BY <2>1 DEF Rules!Derives, Heading
<1>5. QED BY <1>1, <1>2, <1>3, <1>4 DEF B, S, AddsOnLevel

\* Strata without a rule for its predicate leave a claim as it is.
LEMMA StratumSame ==
  ASSUME NEW w, Rules!IsWorld(w), NEW m \in Nat, NEW l \in Nat, m <= l, NEW c, NoneBetween(w, c[2], m, l)
  PROVE  c \in Rules!Stratum(w, l) <=> c \in Rules!Stratum(w, m)
<1> DEFINE In(k) == c \in Rules!Stratum(w, k)
           K == {k \in Nat : m <= k /\ k <= l => (In(k) <=> In(m))}
<1>1. 0 \in K
  OBVIOUS
<1>2. ASSUME NEW k \in K PROVE k + 1 \in K
  <2>1. SUFFICES ASSUME m <= k + 1, k + 1 <= l PROVE In(k + 1) <=> In(m)
    OBVIOUS
  <2>2. CASE m = k + 1
    BY <2>2
  <2>3. CASE m # k + 1
    <3> DEFINE n == k + 1
    <3>1. n \in Nat /\ k \in Nat /\ n = k + 1 /\ m < n /\ n <= l /\ m <= k /\ k <= l
      BY <2>1, <2>3
    <3>2. In(k) <=> In(m)
      BY <3>1
    <3> HIDE DEF n
    <3>3. ASSUME In(n), ~In(k) PROVE FALSE
      <4>1. c \in Rules!Stratum(w, n) /\ c \notin Rules!Stratum(w, k)
        BY <3>3
      <4>2. AddsOnLevel(w, n, Rules!Stratum(w, n), Rules!Stratum(w, k))
        BY <3>1, StratumHolds
      <4>3. PICK i \in 1..Len(w.rules) : Heading(w, i, c[2]) /\ w.rules[i].level = n
        BY <4>1, <4>2 DEF AddsOnLevel
      <4>4. QED BY <3>1, <4>3 DEF NoneBetween
    <3>4. In(k) => In(n)
      BY <3>1, StratumHolds
    <3> HIDE DEF In
    <3>5. In(n) <=> In(m)
      BY <3>2, <3>3, <3>4
    <3>6. QED BY <3>5 DEF n
  <2>4. QED BY <2>2, <2>3
<1>3. Nat \subseteq K
  <2> HIDE DEF K
  <2>1. K \in SUBSET Nat BY DEF K
  <2>2. QED BY <1>1, <1>2, <2>1, Induction
<1>4. l \in K
  BY <1>3
<1>5. QED BY <1>4

\* What is stored is in every stratum.
LEMMA StoredHolds ==
  ASSUME NEW w, Rules!IsWorld(w), NEW l \in Nat
  PROVE  Rules!Stored(w) \subseteq Rules!Stratum(w, l)
<1> DEFINE K == {k \in Nat : Rules!Stored(w) \subseteq Rules!Stratum(w, k)}
<1>1. 0 \in K
  BY StratumIs
<1>2. ASSUME NEW k \in K PROVE k + 1 \in K
  <2> DEFINE n == k + 1
  <2>1. k \in Nat /\ n \in Nat /\ n = k + 1 /\ Rules!Stored(w) \subseteq Rules!Stratum(w, k)
    OBVIOUS
  <2> HIDE DEF n
  <2>2. Rules!Stratum(w, k) \subseteq Rules!Stratum(w, n)
    BY <2>1, StratumHolds
  <2>3. n \in K
    BY <2>1, <2>2
  <2>4. QED BY <2>3 DEF n
<1>3. Nat \subseteq K
  <2> HIDE DEF K
  <2>1. K \in SUBSET Nat BY DEF K
  <2>2. QED BY <1>1, <1>2, <2>1, Induction
<1>4. QED BY <1>3

\* What the rules of a level reach above the stratum n below it.
Reached(w, l, n, A) == Reach(w, l, A, Rules!Stratum(w, n))

\* No rule below the level is being tried.
KeysAbove(w, A, l) == \A i \in 1..Len(w.rules) : \A c : <<i, c>> \in A => l <= w.rules[i].level

\* What is reached with rules left out lies between two strata.
LEMMA ReachedHolds ==
  ASSUME NEW w, Rules!IsWorld(w), NEW n \in Nat, NEW l, l = n + 1, NEW A
  PROVE  /\ Reached(w, l, n, A) \in SUBSET Rules!GroundClaims
         /\ Rules!Stratum(w, n) \subseteq Reached(w, l, n, A)
         /\ Reached(w, l, n, A) \subseteq Rules!Stratum(w, l)
         /\ AddsOnLevel(w, l, Reached(w, l, n, A), Rules!Stratum(w, n))
<1> DEFINE B == Rules!Stratum(w, n)
           R == Reach(w, l, A, B)
<1>1. B \in SUBSET Rules!GroundClaims /\ Rules!Stratum(w, l) = Reach(w, l, {}, B)
  BY StratumHolds
<1> HIDE DEF B
<1>2. R \in SUBSET Rules!GroundClaims /\ B \subseteq R
  BY <1>1, ReachIs DEF IsClosed
<1>3. R \subseteq Reach(w, l, {}, B)
  <2>1. {} \subseteq A
    OBVIOUS
  <2>2. QED BY <1>1, <2>1, ReachShrinks
<1>4. ASSUME NEW c, c \in R, c \notin B
      PROVE  c \notin w.contra /\ \E i \in 1..Len(w.rules) : Heading(w, i, c[2]) /\ w.rules[i].level = l
  <2>1. c \notin w.contra /\ \E i \in 1..Len(w.rules) : w.rules[i].level = l /\ Rules!Derives(w, i, c)
    BY <1>1, <1>4, ReachAdds
  <2>2. QED BY <2>1 DEF Rules!Derives, Heading
<1> HIDE DEF R
<1>5. QED BY <1>1, <1>2, <1>3, <1>4 DEF Reached, AddsOnLevel, B, R

\* Leaving out only rules above the level leaves out nothing.
LEMMA ReachedAll ==
  ASSUME NEW w, Rules!IsWorld(w), NEW n \in Nat, NEW m, m = n + 1,
         NEW A, \A i \in 1..Len(w.rules) : \A c : <<i, c>> \in A => w.rules[i].level # m
  PROVE  Reached(w, m, n, A) = Rules!Stratum(w, m)
<1> DEFINE B == Rules!Stratum(w, n)
           R == Reach(w, m, A, B)
<1>1. B \in SUBSET Rules!GroundClaims /\ Rules!Stratum(w, m) = Reach(w, m, {}, B)
  BY StratumHolds
<1>2. R \subseteq Rules!Stratum(w, m)
  BY ReachedHolds DEF Reached
<1> HIDE DEF B
<1>3. R \in SUBSET Rules!GroundClaims /\ IsClosed(w, m, A, B, R)
  BY <1>1, ReachIs
<1> HIDE DEF R
<1>4. \A c : Follows(w, m, {}, B, R, c) => Follows(w, m, A, B, R, c)
  BY DEF Follows
<1>5. IsClosed(w, m, {}, B, R)
  BY <1>3, <1>4 DEF IsClosed
<1>6. Reach(w, m, {}, B) \subseteq R
  BY <1>1, <1>3, <1>5, ReachIs
<1>7. QED BY <1>1, <1>2, <1>6 DEF Reached, B, R

\* A claim whose predicate is of lower strata only.
LEMMA ReachedSame ==
  ASSUME NEW w, Rules!IsWorld(w), NEW n \in Nat, NEW l, l = n + 1, NEW m \in Nat, m <= n,
         NEW A, NEW c, NoneBetween(w, c[2], m, l)
  PROVE  c \in Reached(w, l, n, A) <=> c \in Rules!Stratum(w, m)
<1>1. NoneBetween(w, c[2], m, n)
  <2>1. \A i \in 1..Len(w.rules) : w.rules[i].level \in Nat
    BY RulesAre
  <2>2. QED BY <2>1 DEF NoneBetween
<1>2. c \in Rules!Stratum(w, n) <=> c \in Rules!Stratum(w, m)
  BY <1>1, StratumSame
<1>3. ASSUME c \in Reached(w, l, n, A), c \notin Rules!Stratum(w, n) PROVE FALSE
  <2>1. PICK i \in 1..Len(w.rules) : Heading(w, i, c[2]) /\ w.rules[i].level = l
    <3>1. AddsOnLevel(w, l, Reached(w, l, n, A), Rules!Stratum(w, n))
      BY ReachedHolds
    <3>2. QED BY <1>3, <3>1 DEF AddsOnLevel
  <2>2. m < l /\ l <= l
    OBVIOUS
  <2>3. QED BY <2>1, <2>2 DEF NoneBetween
<1>4. Rules!Stratum(w, n) \subseteq Reached(w, l, n, A)
  BY ReachedHolds
<1>5. QED BY <1>2, <1>3, <1>4

-----------------------------------------------------------------------------
(* The search, at a level *)

\* The sets have the same claims of the predicate.
Same(p, S, T) == \A g : g[2] = p => (g \in S <=> g \in T)

\* What the rule looks up below is the same in Below and in T.
LooksAlike(rule, Below, T) ==
  /\ \A k \in 1..Len(rule.conditions) : rule.conditions[k].neg => Same(rule.conditions[k].p, Below, T)
  /\ \A k \in 1..Len(rule.exceptions) : ~rule.exceptions[k].neg => Same(rule.exceptions[k].p, Below, T)

\* A rule proves the same from sets that it cannot tell apart.
LEMMA ProvesAlike ==
  ASSUME NEW w, Rules!IsWorld(w), NEW i \in 1..Len(w.rules), NEW rule, rule = w.rules[i],
         NEW Below, NEW T, LooksAlike(rule, Below, T), NEW c
  PROVE  Rules!Proves(w, Below, T, i, c) <=> Rules!Proves(w, T, T, i, c)
<1>1. \A p, b : Rules!Ground(p, b)[2] = p.p
  BY DEF Rules!Ground
<1>2. DOMAIN rule.conditions = 1..Len(rule.conditions) /\ DOMAIN rule.exceptions = 1..Len(rule.exceptions)
  <2>1. rule.conditions \in Seq(Rules!Patterns) /\ rule.exceptions \in Seq(Rules!Patterns)
    BY RulesAre
  <2>2. QED BY <2>1
<1>3. ASSUME NEW b, NEW k \in DOMAIN rule.conditions, rule.conditions[k].neg
      PROVE  Rules!IsTrue(w, Below, Rules!Ground(rule.conditions[k], b)) <=> Rules!IsTrue(w, T, Rules!Ground(rule.conditions[k], b))
  BY <1>1, <1>2, <1>3 DEF LooksAlike, Same, Rules!IsTrue
<1>4. ASSUME NEW b, NEW k \in DOMAIN rule.exceptions
      PROVE  Rules!Vetoed(w, Below, T, rule.exceptions[k], b) <=> Rules!Vetoed(w, T, T, rule.exceptions[k], b)
  <2> DEFINE e == rule.exceptions[k]
  <2>1. CASE e.neg
    BY <2>1 DEF Rules!Vetoed
  <2>2. CASE ~e.neg
    <3>1. Rules!IsTrue(w, Below, Rules!Ground(e, b)) <=> Rules!IsTrue(w, T, Rules!Ground(e, b))
      BY <1>1, <1>2, <2>2 DEF LooksAlike, Same, Rules!IsTrue
    <3> HIDE DEF e
    <3>2. Rules!Vetoed(w, Below, T, e, b) <=> Rules!Vetoed(w, T, T, e, b)
      BY <2>2, <3>1 DEF Rules!Vetoed
    <3>3. QED BY <3>2 DEF e
  <2>3. QED BY <2>1, <2>2
<1>5. \A b : Rules!Fires(w, Below, T, rule, b) <=> Rules!Fires(w, T, T, rule, b)
  BY <1>3, <1>4 DEF Rules!Fires
<1>6. QED BY <1>5, Zenon DEF Rules!Proves

\* The answer is about whether the claim is in T.
Tells(w, T, c, st, r) ==
  /\ Later(st, r.st)
  /\ Okay(w, r.st) /\ r.proof # {} => c \in T
  /\ Rules!MetNoCap(w, r.st) /\ c \in T => r.proof # {}

\* The answer to a question that is asked while the rules in A are tried: of a
\* predicate of the level l, what is reached without them.
SoundOn(w, A, c, st, r, n, l) ==
  l = n + 1 /\ OnLevel(w, c[2], l) /\ KeysAbove(w, A, l) => Tells(w, Reached(w, l, n, A), c, st, r)
Sound(w, A, c, st, r) ==
  /\ Underived(w, c[2]) => Later(st, r.st) /\ r.proof = Rules!BaseProof(w, c)
  /\ \A n \in Nat, l \in Nat : SoundOn(w, A, c, st, r, n, l)
SoundSearch(w, deeper) ==
  \A A \in Rules!Active, c \in Rules!GroundClaims, st \in Rules!States : Sound(w, A, c, st, deeper[<<A, c, st>>])

\* The predicates that the rules up to a level may ask about.
UpTo(w, l) == {p \in RulePredicates : \A i \in 1..Len(w.rules) : Heading(w, i, p) => w.rules[i].level <= l}

\* An assumed fact is a proof where there is no other.
LEMMA OrAssumedIs ==
  ASSUME NEW w, NEW g, NEW d \in Rules!Replies, NEW r, r = Rules!OrAssumed(w, g, d)
  PROVE  /\ r.st = d.st
         /\ r.proof = IF d.proof = {} /\ g \in Rules!Assumed(w) THEN Rules!Fact(0) ELSE d.proof
         /\ r.proof # {} <=> d.proof # {} \/ g \in Rules!Assumed(w)
<1>1. Rules!Fact(0) # {}
  BY DEF Rules!Fact
<1>2. CASE d.proof = {} /\ g \in Rules!Assumed(w)
  BY <1>1, <1>2 DEF Rules!OrAssumed, Rules!Replies
<1>3. CASE ~(d.proof = {} /\ g \in Rules!Assumed(w))
  BY <1>3 DEF Rules!OrAssumed
<1>4. QED BY <1>2, <1>3

\* What no rule derives is reached when it is stored.
LEMMA UnderivedIs ==
  ASSUME NEW w, Rules!IsWorld(w), NEW n \in Nat, NEW l, l = n + 1, NEW A, NEW c, Underived(w, c[2])
  PROVE  c \in Reached(w, l, n, A) <=> c \in Rules!Stored(w)
<1>1. NoneBetween(w, c[2], 0, l)
  BY DEF NoneBetween, Underived, Heading
<1>2. 0 \in Nat /\ 0 <= n
  OBVIOUS
<1>3. c \in Reached(w, l, n, A) <=> c \in Rules!Stratum(w, 0)
  BY <1>1, <1>2, ReachedSame
<1>4. Rules!Stratum(w, 0) = Rules!Stored(w)
  BY <1>2, StratumIs
<1>5. QED BY <1>3, <1>4

\* A search that is sound tells, of what the rules of the level ask, whether it is
\* reached.
LEMMA SoundTells ==
  ASSUME NEW w, Rules!IsWorld(w), Rules!IsStratified(w), NEW deeper, SoundSearch(w, deeper),
         NEW n \in Nat, NEW l, l = n + 1, NEW A \in Rules!Active, KeysAbove(w, A, l),
         NEW g \in Rules!GroundClaims, g[2] \in UpTo(w, l), NEW st \in Rules!States,
         NEW d, d = deeper[<<A, g, st>>]
  PROVE  Tells(w, Reached(w, l, n, A), g, st, d)
<1>1. Sound(w, A, g, st, d)
  BY DEF SoundSearch
<1>2. CASE Underived(w, g[2])
  <2>1. Later(st, d.st) /\ d.proof = Rules!BaseProof(w, g)
    BY <1>1, <1>2 DEF Sound
  <2>2. g \in Reached(w, l, n, A) <=> g \in Rules!Stored(w)
    BY <1>2, UnderivedIs
  <2>3. Rules!BaseProof(w, g) # {} <=> g \in Rules!Stored(w)
    BY BaseProofIs
  <2>4. QED BY <2>1, <2>2, <2>3 DEF Tells
<1>3. ASSUME NEW j \in 1..Len(w.rules), Heading(w, j, g[2]) PROVE Tells(w, Reached(w, l, n, A), g, st, d)
  <2> DEFINE m == w.rules[j].level
             k == m - 1
  <2>1. m \in Nat \ {0} /\ OnLevel(w, g[2], m)
    BY <1>3, StrataAre DEF Heading
  <2>2. m <= l
    BY <1>3 DEF UpTo
  <2> HIDE DEF m
  <2>3. k \in Nat /\ m \in Nat /\ m = k + 1
    BY <2>1
  <2> HIDE DEF k
  <2>4. KeysAbove(w, A, m)
    <3>1. \A i \in 1..Len(w.rules) : w.rules[i].level \in Nat
      BY RulesAre
    <3>2. l \in Nat
      OBVIOUS
    <3>3. QED BY <2>2, <2>3, <3>1, <3>2 DEF KeysAbove
  <2>5. Tells(w, Reached(w, m, k, A), g, st, d)
    BY <1>1, <2>1, <2>3, <2>4 DEF Sound, SoundOn
  <2>6. CASE m = l
    <3>1. k = n
      BY <2>3, <2>6
    <3>2. QED BY <2>5, <2>6, <3>1
  <2>7. CASE m # l
    <3>1. m <= n /\ m < l
      BY <2>2, <2>3, <2>7
    <3>2. \A i \in 1..Len(w.rules) : \A c : <<i, c>> \in A => w.rules[i].level # m
      BY <2>3, <3>1 DEF KeysAbove
    <3>3. Reached(w, m, k, A) = Rules!Stratum(w, m)
      BY <2>3, <3>2, ReachedAll
    <3>4. NoneBetween(w, g[2], m, l)
      BY <2>1, <2>3 DEF NoneBetween, OnLevel
    <3>5. g \in Reached(w, l, n, A) <=> g \in Rules!Stratum(w, m)
      BY <2>3, <3>1, <3>4, ReachedSame
    <3>6. QED BY <2>5, <3>3, <3>5 DEF Tells
  <2>8. QED BY <2>6, <2>7
<1>4. QED BY <1>2, <1>3 DEF Underived, Heading

\* What the search tells of the claims T, it tells with the assumed facts.
TellsAll(w, T, Q, deeper, A) ==
  /\ Rules!Stored(w) \subseteq T
  /\ \A g \in Rules!GroundClaims, st \in Rules!States : LET d == deeper[<<A, g, st>>] IN
       /\ g[2] \in Q => Tells(w, T, g, st, d)
       /\ Underived(w, g[2]) => /\ Later(st, d.st) /\ d.proof = Rules!BaseProof(w, g)
                                /\ g \in T <=> g \in Rules!Stored(w)

\* A search that tells of T makes an oracle for T.
LEMMA OracleHolds ==
  ASSUME NEW w, NEW deeper \in [Rules!Calls -> Rules!Replies], NEW A \in Rules!Active,
         NEW T, NEW Q, TellsAll(w, T, Q, deeper, A)
  PROVE  Oracle(w, T, Q, Rules!Holds(w, deeper, A))
<1> DEFINE holds == Rules!Holds(w, deeper, A)
<1>1. ASSUME NEW g \in Rules!GroundClaims, NEW st \in Rules!States, NEW r, r = holds[<<g, st>>]
      PROVE  /\ g[2] \in Q => /\ Later(st, r.st)
                              /\ Okay(w, r.st) /\ r.proof # {} => Rules!IsTrue(w, T, g)
                              /\ Rules!MetNoCap(w, r.st) /\ Rules!IsTrue(w, T, g) => r.proof # {}
             /\ Underived(w, g[2]) => /\ Later(st, r.st) /\ r.proof = ProofOf(w, g)
                                      /\ g \in T <=> g \in Rules!Stored(w)
  <2> DEFINE d == deeper[<<A, g, st>>]
  <2>1. r = Rules!OrAssumed(w, g, d)
    BY <1>1, HoldsIs
  <2>2. d \in Rules!Replies
    BY DEF Rules!Calls
  <2>3. /\ g[2] \in Q => Tells(w, T, g, st, d)
        /\ Underived(w, g[2]) => /\ Later(st, d.st) /\ d.proof = Rules!BaseProof(w, g)
                                 /\ g \in T <=> g \in Rules!Stored(w)
    BY DEF TellsAll
  <2> HIDE DEF d
  <2>4. /\ r.st = d.st
        /\ r.proof = IF d.proof = {} /\ g \in Rules!Assumed(w) THEN Rules!Fact(0) ELSE d.proof
        /\ r.proof # {} <=> d.proof # {} \/ g \in Rules!Assumed(w)
    BY <2>1, <2>2, OrAssumedIs
  <2>5. ASSUME g[2] \in Q
        PROVE  /\ Later(st, r.st)
               /\ Okay(w, r.st) /\ r.proof # {} => Rules!IsTrue(w, T, g)
               /\ Rules!MetNoCap(w, r.st) /\ Rules!IsTrue(w, T, g) => r.proof # {}
    BY <2>3, <2>4, <2>5 DEF Tells, Rules!IsTrue
  <2>6. ASSUME Underived(w, g[2])
        PROVE  Later(st, r.st) /\ r.proof = ProofOf(w, g) /\ (g \in T <=> g \in Rules!Stored(w))
    BY <2>3, <2>4, <2>6 DEF ProofOf
  <2>7. QED BY <2>5, <2>6
<1> HIDE DEF holds
<1>2. Rules!Stored(w) \subseteq T
  BY DEF TellsAll
<1>3. Oracle(w, T, Q, holds)
  BY <1>1, <1>2 DEF Oracle
<1>4. QED BY <1>3 DEF holds

\* A sound search is an oracle for what is reached without the rules being tried.
LEMMA SoundOracle ==
  ASSUME NEW w, Rules!IsWorld(w), Rules!IsStratified(w),
         NEW deeper \in [Rules!Calls -> Rules!Replies], SoundSearch(w, deeper),
         NEW n \in Nat, NEW l, l = n + 1, NEW A \in Rules!Active, KeysAbove(w, A, l)
  PROVE  Oracle(w, Reached(w, l, n, A), UpTo(w, l), Rules!Holds(w, deeper, A))
<1> DEFINE T == Reached(w, l, n, A)
<1>1. Rules!Stored(w) \subseteq T
  BY StoredHolds, ReachedHolds
<1>2. ASSUME NEW g \in Rules!GroundClaims, NEW st \in Rules!States, NEW d, d = deeper[<<A, g, st>>]
      PROVE  /\ g[2] \in UpTo(w, l) => Tells(w, T, g, st, d)
             /\ Underived(w, g[2]) => /\ Later(st, d.st) /\ d.proof = Rules!BaseProof(w, g)
                                      /\ g \in T <=> g \in Rules!Stored(w)
  <2>1. ASSUME g[2] \in UpTo(w, l) PROVE Tells(w, T, g, st, d)
    BY <1>2, <2>1, SoundTells
  <2>2. ASSUME Underived(w, g[2])
        PROVE  Later(st, d.st) /\ d.proof = Rules!BaseProof(w, g) /\ (g \in T <=> g \in Rules!Stored(w))
    <3>1. Sound(w, A, g, st, d)
      BY <1>2 DEF SoundSearch
    <3>2. g \in T <=> g \in Rules!Stored(w)
      BY <2>2, UnderivedIs
    <3>3. QED BY <2>2, <3>1, <3>2 DEF Sound
  <2>3. QED BY <2>1, <2>2
<1> HIDE DEF T
<1>3. TellsAll(w, T, UpTo(w, l), deeper, A)
  BY <1>1, <1>2 DEF TellsAll
<1>4. QED BY <1>3, OracleHolds DEF T

\* A rule of a level may ask what is up to the level, and looks up below what
\* is no different at its level.
LEMMA RuleIsServed ==
  ASSUME NEW w, Rules!IsWorld(w), Rules!IsStratified(w), NEW i \in 1..Len(w.rules), NEW rule, rule = w.rules[i],
         NEW n \in Nat, NEW l, l = n + 1, rule.level = l, NEW A
  PROVE  Serves(w, UpTo(w, l), rule) /\ LooksAlike(rule, Rules!Stratum(w, n), Reached(w, l, n, A))
<1>1. /\ \A k \in 1..Len(rule.conditions), j \in 1..Len(w.rules) : Heading(w, j, rule.conditions[k].p) =>
           IF rule.conditions[k].neg THEN w.rules[j].level < l ELSE w.rules[j].level <= l
      /\ \A k \in 1..Len(rule.exceptions), j \in 1..Len(w.rules) : Heading(w, j, rule.exceptions[k].p) =>
           rule.exceptions[k].neg /\ w.rules[j].level <= l
  <2>1. NeedsUpTo(w, rule, rule.level)
    BY StrataAre
  <2>2. QED BY <2>1 DEF NeedsUpTo
<1>2. /\ l \in Nat /\ \A j \in 1..Len(w.rules) : w.rules[j].level \in Nat
      /\ \A k \in 1..Len(rule.conditions) : rule.conditions[k] \in Rules!Patterns
      /\ \A k \in 1..Len(rule.exceptions) : rule.exceptions[k] \in Rules!Patterns
  <2>1. \A j \in 1..Len(w.rules) : w.rules[j].level \in Nat
    BY RulesAre
  <2>2. rule.conditions \in Seq(Rules!Patterns) /\ rule.exceptions \in Seq(Rules!Patterns)
    BY RulesAre
  <2>3. QED BY <2>1, <2>2
<1>3. ASSUME NEW k \in 1..Len(rule.conditions)
      PROVE  /\ rule.conditions[k].p \in UpTo(w, l)
             /\ rule.conditions[k].neg => Same(rule.conditions[k].p, Rules!Stratum(w, n), Reached(w, l, n, A))
  <2>1. rule.conditions[k].p \in RulePredicates
    BY <1>2, PatternsAre
  <2>2. \A j \in 1..Len(w.rules) : Heading(w, j, rule.conditions[k].p) => w.rules[j].level <= l
    BY <1>1, <1>2
  <2>3. ASSUME rule.conditions[k].neg, NEW g, g[2] = rule.conditions[k].p
        PROVE  g \in Reached(w, l, n, A) <=> g \in Rules!Stratum(w, n)
    <3>1. ASSUME NEW j \in 1..Len(w.rules), Heading(w, j, g[2]) PROVE w.rules[j].level <= n
      <4>1. w.rules[j].level < l
        BY <1>1, <2>3, <3>1
      <4>2. w.rules[j].level \in Nat
        BY <1>2
      <4>3. QED BY <4>1, <4>2
    <3>2. NoneBetween(w, g[2], n, l)
      BY <1>2, <3>1 DEF NoneBetween
    <3>3. n <= n
      OBVIOUS
    <3>4. QED BY <3>2, <3>3, ReachedSame
  <2>4. QED BY <2>1, <2>2, <2>3 DEF UpTo, Same
<1>4. ASSUME NEW k \in 1..Len(rule.exceptions)
      PROVE  /\ IsDecided(w, UpTo(w, l), rule.exceptions[k])
             /\ ~rule.exceptions[k].neg => Same(rule.exceptions[k].p, Rules!Stratum(w, n), Reached(w, l, n, A))
  <2>1. CASE rule.exceptions[k].neg
    <3>1. rule.exceptions[k].p \in RulePredicates
      BY <1>2, PatternsAre
    <3>2. rule.exceptions[k].p \in UpTo(w, l)
      BY <1>1, <3>1 DEF UpTo
    <3>3. QED BY <2>1, <3>2 DEF IsDecided
  <2>2. CASE ~rule.exceptions[k].neg
    <3>1. Underived(w, rule.exceptions[k].p)
      BY <1>1, <2>2 DEF Underived, Heading
    <3>2. ASSUME NEW g, g[2] = rule.exceptions[k].p
          PROVE  g \in Reached(w, l, n, A) <=> g \in Rules!Stratum(w, n)
      <4>1. NoneBetween(w, g[2], n, l)
        BY <3>1, <3>2 DEF NoneBetween, Underived, Heading
      <4>2. n <= n
        OBVIOUS
      <4>3. QED BY <4>1, <4>2, ReachedSame
    <3>3. QED BY <2>2, <3>1, <3>2 DEF IsDecided, Same
  <2>3. QED BY <2>1, <2>2
<1>5. QED BY <1>3, <1>4 DEF Serves, AreDecided, LooksAlike

\* The rules for a claim are tried with the answers of a search that is sound.
LEMMA TryingIsSound ==
  ASSUME NEW w, Rules!IsWorld(w), Rules!IsStratified(w), NEW m \in Nat,
         NEW deeper \in [Rules!Calls -> Rules!Replies], m > 0 => SoundSearch(w, deeper),
         NEW n \in Nat, NEW l, l = n + 1, NEW A \in Rules!Active, KeysAbove(w, A, l),
         NEW c \in Rules!GroundClaims, OnLevel(w, c[2], l)
  PROVE  Trying(w, m, deeper, A, c, Provers(w, l, A, Rules!Stratum(w, n), c))
<1> DEFINE R == Provers(w, l, A, Rules!Stratum(w, n), c)
<1>1. \A i \in R : i \in 1..Len(w.rules) /\ w.rules[i].head.p = c[2] /\ ~w.rules[i].head.neg
  BY DEF Provers, Rules!Derives
<1>2. ASSUME NEW i \in 1..Len(w.rules), NEW st \in Rules!States, w.rules[i].head.p = c[2],
             NEW r, r = Rules!TryRule(w, m, deeper, A, i, c, st)
      PROVE  Tries(w, R, i, st, r)
  <2> DEFINE further == A \cup {<<i, c>>}
             T == Reached(w, l, n, further)
  <2>1. /\ w.rules[i].head.neg \/ m = 0 => Later(st, r.st) /\ r.proof = {} /\ (m = 0 => ~Rules!MetNoCap(w, r.st))
        /\ TriesFor(w, i, c, A, st, r, Rules!Holds(w, deeper, further))
    BY <1>2, TryRuleTries
  <2>2. CASE w.rules[i].head.neg \/ m = 0
    <3>1. w.rules[i].head.neg => i \notin R
      BY <1>1
    <3> HIDE DEF R
    <3>2. QED BY <2>1, <2>2, <3>1 DEF Tries
  <2>3. CASE ~w.rules[i].head.neg /\ m > 0
    <3>1. w.rules[i].level = l
      BY <1>2, <2>3 DEF OnLevel, Heading
    <3>2. further \in Rules!Active
      BY DEF Rules!Active
    <3>3. KeysAbove(w, further, l)
      <4>1. l <= l
        OBVIOUS
      <4>2. QED BY <3>1, <4>1 DEF KeysAbove
    <3> HIDE DEF further
    <3>4. SoundSearch(w, deeper)
      BY <2>3
    <3>5. Oracle(w, T, UpTo(w, l), Rules!Holds(w, deeper, further))
      BY <3>2, <3>3, <3>4, SoundOracle
    <3>6. Serves(w, UpTo(w, l), w.rules[i]) /\ LooksAlike(w.rules[i], Rules!Stratum(w, n), T)
      BY <3>1, RuleIsServed
    <3>7. Rules!Proves(w, Rules!Stratum(w, n), T, i, c) <=> Rules!Proves(w, T, T, i, c)
      BY <3>6, ProvesAlike
    <3>8. i \in R <=> <<i, c>> \notin A /\ Rules!Proves(w, Rules!Stratum(w, n), T, i, c)
      BY <1>2, <2>3, <3>1 DEF Provers, Reached, Rules!Derives, further
    <3> HIDE DEF T, R
    <3>9. i \in R <=> ~w.rules[i].head.neg /\ <<i, c>> \notin A /\ Rules!Proves(w, T, T, i, c)
      BY <2>3, <3>7, <3>8
    <3>10. QED BY <2>1, <3>5, <3>6, <3>9 DEF TriesFor
  <2>4. QED BY <2>2, <2>3
<1> HIDE DEF R
<1>3. QED BY <1>1, <1>2 DEF Trying, R

\* So every answer is sound.
LEMMA EntailsIsSound ==
  ASSUME NEW w, Rules!IsWorld(w), Rules!IsStratified(w), NEW m \in Nat,
         NEW deeper \in [Rules!Calls -> Rules!Replies], m > 0 => SoundSearch(w, deeper),
         NEW A \in Rules!Active, NEW c \in Rules!GroundClaims, NEW st \in Rules!States,
         NEW r, r = Rules!Entails(w, m, deeper, A, c, st)
  PROVE  Sound(w, A, c, st, r)
<1>1. /\ \A R : Trying(w, m, deeper, A, c, R) => Judges(w, R, c, st, r)
      /\ Underived(w, c[2]) => r.proof = Rules!BaseProof(w, c)
  BY EntailsJudges
<1>2. ASSUME Underived(w, c[2]) PROVE Later(st, r.st)
  <2>1. ASSUME NEW i \in 1..Len(w.rules), NEW t \in Rules!States, w.rules[i].head.p = c[2],
               NEW a, a = Rules!TryRule(w, m, deeper, A, i, c, t)
        PROVE  Tries(w, {}, i, t, a)
    <3>1. w.rules[i].head.neg
      BY <1>2, <2>1 DEF Underived
    <3>2. Later(t, a.st) /\ a.proof = {}
      BY <2>1, <3>1, TryRuleTries
    <3>3. QED BY <3>2 DEF Tries
  <2>2. Trying(w, m, deeper, A, c, {})
    BY <2>1 DEF Trying
  <2>3. QED BY <1>1, <2>2 DEF Judges
<1>3. ASSUME NEW n \in Nat, NEW l \in Nat, l = n + 1, OnLevel(w, c[2], l), KeysAbove(w, A, l)
      PROVE  Tells(w, Reached(w, l, n, A), c, st, r)
  <2> DEFINE B == Rules!Stratum(w, n)
             T == Reached(w, l, n, A)
             R == Provers(w, l, A, B, c)
  <2>1. Judges(w, R, c, st, r)
    <3>1. Trying(w, m, deeper, A, c, R)
      BY <1>3, TryingIsSound
    <3>2. QED BY <1>1, <3>1
  <2>2. B \in SUBSET Rules!GroundClaims /\ B \subseteq T /\ Rules!Stored(w) \subseteq T
    <3>1. B \in SUBSET Rules!GroundClaims
      BY StratumIs
    <3>2. B \subseteq T
      BY <1>3, ReachedHolds
    <3>3. Rules!Stored(w) \subseteq B
      BY StoredHolds
    <3>4. QED BY <3>1, <3>2, <3>3
  <2>3. c \in B => c \in Rules!Stored(w)
    <3>1. 0 \in Nat /\ 0 <= n
      OBVIOUS
    <3>2. NoneBetween(w, c[2], 0, n)
      BY <1>3 DEF NoneBetween, OnLevel
    <3>3. c \in B <=> c \in Rules!Stratum(w, 0)
      BY <3>1, <3>2, StratumSame
    <3>4. Rules!Stratum(w, 0) = Rules!Stored(w)
      BY <3>1, StratumIs
    <3>5. QED BY <3>3, <3>4
  <2>4. c \in T => c \in B \/ c \notin w.contra
    <3>1. AddsOnLevel(w, l, T, B)
      BY <1>3, ReachedHolds
    <3>2. QED BY <3>1 DEF AddsOnLevel
  <2>5. ASSUME c \notin w.contra, c \notin B PROVE c \in T <=> R # {}
    BY <2>2, <2>5, ReachHasProver DEF Reached
  <2>6. Rules!BaseProof(w, c) # {} <=> c \in Rules!Stored(w)
    BY BaseProofIs
  <2> HIDE DEF B, T, R
  <2>7. CASE c \in Rules!Stored(w) \cup w.contra
    <3>1. r.proof = Rules!BaseProof(w, c) /\ Later(st, r.st)
      BY <2>1, <2>7 DEF Judges
    <3>2. c \in T <=> c \in Rules!Stored(w)
      BY <2>2, <2>3, <2>4, <2>7
    <3>3. Tells(w, T, c, st, r)
      BY <2>6, <3>1, <3>2 DEF Tells
    <3>4. QED BY <3>3 DEF T
  <2>8. CASE c \notin Rules!Stored(w) \cup w.contra
    <3>1. c \in T <=> R # {}
      BY <2>3, <2>5, <2>8
    <3>2. Tells(w, T, c, st, r)
      BY <2>1, <2>8, <3>1 DEF Judges, Tells
    <3>3. QED BY <3>2 DEF T
  <2>9. QED BY <2>7, <2>8
<1>4. \A n \in Nat, l \in Nat : SoundOn(w, A, c, st, r, n, l)
  BY <1>3 DEF SoundOn
<1>5. QED BY <1>1, <1>2, <1>4 DEF Sound

\* What a search answers is sound, whatever its depth.
LEMMA SearchAnswersSoundly ==
  ASSUME NEW w, Rules!IsWorld(w), Rules!IsStratified(w)
  PROVE  Rules!Search(w) \in [Rules!Calls -> Rules!Replies] /\ SoundSearch(w, Rules!Search(w))
<1>1. PICK f \in [0..w.maxDepth -> [Rules!Calls -> Rules!Replies]] : f[w.maxDepth] = Rules!Search(w) /\ Levels(w, f)
  BY SearchIs
<1>2. w.maxDepth \in Nat
  BY DEF Rules!IsWorld
<1> DEFINE K == {k \in Nat : k <= w.maxDepth => SoundSearch(w, f[k])}
<1>3. ASSUME NEW k \in 0..w.maxDepth, k > 0 => SoundSearch(w, f[k - 1]) PROVE SoundSearch(w, f[k])
  <2>1. ASSUME NEW A \in Rules!Active, NEW c \in Rules!GroundClaims, NEW st \in Rules!States
        PROVE  Sound(w, A, c, st, f[k][<<A, c, st>>])
    <3>1. PICK deeper \in [Rules!Calls -> Rules!Replies] :
            /\ k > 0 => deeper = f[k - 1]
            /\ f[k][<<A, c, st>>] = Rules!Entails(w, k, deeper, A, c, st)
      BY <1>1 DEF Levels
    <3>2. k \in Nat /\ (k > 0 => SoundSearch(w, deeper))
      BY <1>2, <1>3, <3>1
    <3>3. QED BY <3>1, <3>2, EntailsIsSound
  <2>2. QED BY <2>1 DEF SoundSearch
<1>4. 0 \in K
  <2>1. 0 \in 0..w.maxDepth /\ ~(0 > 0)
    BY <1>2
  <2>2. QED BY <1>3, <2>1
<1>5. ASSUME NEW k \in K PROVE k + 1 \in K
  <2> DEFINE n == k + 1
  <2>1. k \in Nat /\ n \in Nat /\ n - 1 = k /\ (n <= w.maxDepth => n \in 0..w.maxDepth /\ k <= w.maxDepth)
    BY <1>2
  <2>2. n <= w.maxDepth => SoundSearch(w, f[n - 1])
    BY <2>1
  <2> HIDE DEF n
  <2>3. n <= w.maxDepth => SoundSearch(w, f[n])
    BY <1>3, <2>1, <2>2
  <2>4. n \in K
    BY <2>1, <2>3
  <2>5. QED BY <2>4 DEF n
<1>6. Nat \subseteq K
  <2> HIDE DEF K
  <2>1. K \in SUBSET Nat BY DEF K
  <2>2. QED BY <1>4, <1>5, <2>1, Induction
<1>7. w.maxDepth \in K
  BY <1>2, <1>6
<1>8. w.maxDepth <= w.maxDepth /\ w.maxDepth \in 0..w.maxDepth
  BY <1>2
<1>9. QED BY <1>1, <1>7, <1>8

-----------------------------------------------------------------------------
(* What a request is answered *)

\* The search answers what is true in the model.
LEMMA SearchTells ==
  ASSUME NEW w, Rules!IsWorld(w), Rules!IsStratified(w), NEW c \in Rules!GroundClaims, NEW st \in Rules!States,
         NEW d, d = Rules!Search(w)[<<{}, c, st>>]
  PROVE  /\ Tells(w, Rules!Model(w), c, st, d)
         /\ Underived(w, c[2]) => /\ Later(st, d.st) /\ d.proof = Rules!BaseProof(w, c)
                                  /\ c \in Rules!Model(w) <=> c \in Rules!Stored(w)
<1> DEFINE M == Rules!Model(w)
           s == w.strata
<1>1. s \in Nat /\ 0 \in Nat /\ 0 <= s
  BY DEF Rules!IsWorld
<1>2. Sound(w, {}, c, st, d)
  <2>1. {} \in Rules!Active
    BY DEF Rules!Active
  <2>2. SoundSearch(w, Rules!Search(w))
    BY SearchAnswersSoundly
  <2>3. QED BY <2>1, <2>2 DEF SoundSearch
<1>3. M = Rules!Stratum(w, s)
  BY DEF Rules!Model
<1> HIDE DEF M, s
<1>4. ASSUME Underived(w, c[2])
      PROVE  Later(st, d.st) /\ d.proof = Rules!BaseProof(w, c) /\ (c \in M <=> c \in Rules!Stored(w))
  <2>1. NoneBetween(w, c[2], 0, s)
    BY <1>4 DEF NoneBetween, Underived, Heading
  <2>2. c \in Rules!Stratum(w, s) <=> c \in Rules!Stratum(w, 0)
    BY <1>1, <2>1, StratumSame
  <2>3. Rules!Stratum(w, 0) = Rules!Stored(w)
    BY <1>1, StratumIs
  <2>4. QED BY <1>2, <1>3, <1>4, <2>2, <2>3 DEF Sound
<1>5. CASE Underived(w, c[2])
  <2>1. Rules!BaseProof(w, c) # {} <=> c \in Rules!Stored(w)
    BY BaseProofIs
  <2>2. Tells(w, M, c, st, d)
    BY <1>4, <1>5, <2>1 DEF Tells
  <2>3. QED BY <1>4, <2>2 DEF M
<1>6. ASSUME NEW j \in 1..Len(w.rules), Heading(w, j, c[2]) PROVE Tells(w, M, c, st, d)
  <2> DEFINE m == w.rules[j].level
             k == m - 1
  <2>1. m \in Nat \ {0} /\ OnLevel(w, c[2], m)
    BY <1>6, StrataAre DEF Heading
  <2>2. m <= s
    BY StrataAre DEF s
  <2> HIDE DEF m
  <2>3. k \in Nat /\ m \in Nat /\ m = k + 1
    BY <2>1
  <2> HIDE DEF k
  <2>4. KeysAbove(w, {}, m)
    BY DEF KeysAbove
  <2>5. Tells(w, Reached(w, m, k, {}), c, st, d)
    BY <1>2, <2>1, <2>3, <2>4 DEF Sound, SoundOn
  <2>6. Rules!Stratum(w, m) = Reached(w, m, k, {})
    BY <2>3, StratumHolds DEF Reached
  <2>7. NoneBetween(w, c[2], m, s)
    BY <2>1, <2>3 DEF NoneBetween, OnLevel
  <2>8. c \in Rules!Stratum(w, s) <=> c \in Rules!Stratum(w, m)
    BY <1>1, <2>2, <2>3, <2>7, StratumSame
  <2>9. QED BY <1>3, <2>5, <2>6, <2>8 DEF Tells
<1>7. Tells(w, M, c, st, d)
  BY <1>5, <1>6 DEF Underived, Heading, M
<1>8. QED BY <1>4, <1>7 DEF M

\* The search agrees with the model: SearchAgrees for every stratified world.
LEMMA SearchAgreesHolds ==
  ASSUME NEW w, Rules!IsWorld(w), Rules!IsStratified(w), NEW goals \in SUBSET Rules!GroundClaims
  PROVE  Rules!SearchAgrees(w, goals)
<1>1. Rules!NewState \in Rules!States
  BY DEF Rules!NewState, Rules!States
<1>2. ASSUME NEW c \in goals, NEW e, e = Rules!Search(w)[<<{}, c, Rules!NewState>>]
      PROVE  /\ ~Rules!HasNegation(w) /\ e.proof # {} => c \in Rules!Model(w)
             /\ Rules!MetNoCap(w, e.st) => (e.proof # {} <=> c \in Rules!Model(w))
  <2>1. c \in Rules!GroundClaims
    OBVIOUS
  <2>2. Tells(w, Rules!Model(w), c, Rules!NewState, e)
    BY <1>1, <1>2, <2>1, SearchTells
  <2>3. QED BY <2>2 DEF Tells, Okay
<1>3. QED BY <1>2 DEF Rules!SearchAgrees

\* The search is an oracle for the model.
LEMMA ModelOracle ==
  ASSUME NEW w, Rules!IsWorld(w), Rules!IsStratified(w)
  PROVE  Oracle(w, Rules!Model(w), RulePredicates, Rules!Holds(w, Rules!Search(w), {}))
<1>1. Rules!Search(w) \in [Rules!Calls -> Rules!Replies]
  BY SearchAnswersSoundly
<1>2. {} \in Rules!Active
  BY DEF Rules!Active
<1>3. Rules!Stored(w) \subseteq Rules!Model(w)
  <2>1. w.strata \in Nat
    BY DEF Rules!IsWorld
  <2>2. QED BY <2>1, StoredHolds DEF Rules!Model
<1>4. ASSUME NEW g \in Rules!GroundClaims, NEW st \in Rules!States, NEW d, d = Rules!Search(w)[<<{}, g, st>>]
      PROVE  /\ Tells(w, Rules!Model(w), g, st, d)
             /\ Underived(w, g[2]) => /\ Later(st, d.st) /\ d.proof = Rules!BaseProof(w, g)
                                      /\ g \in Rules!Model(w) <=> g \in Rules!Stored(w)
  BY <1>4, SearchTells
<1>5. TellsAll(w, Rules!Model(w), RulePredicates, Rules!Search(w), {})
  BY <1>3, <1>4 DEF TellsAll
<1>6. QED BY <1>1, <1>2, <1>5, OracleHolds

Fired == [st : Rules!States, fired : SUBSET Rules!GroundClaims]

\* The claim is what the rule concludes from a binding that nothing vetoes.
FiredBy(w, T, rule, b, c) == Rules!IsGround(rule.head, b) /\ c = Rules!Ground(rule.head, b) /\ Passes(w, T, rule, b)

\* What fires is an instance that passes.
LEMMA WithFiredHolds ==
  ASSUME NEW w, Rules!IsWorld(w), NEW holds \in [Asks -> Rules!Replies], NEW rule, rule.head \in Rules!Patterns,
         rule.exceptions \in Seq(Rules!Patterns), NEW branch \in Rules!Branches, NEW st \in Rules!States,
         NEW y, y = Rules!WithFired(rule, branch, Rules!Veto(holds, rule.exceptions, branch.b, st))
  PROVE  /\ y \in Fired
         /\ \A T, Q : Oracle(w, T, Q, holds) /\ AreDecided(w, Q, rule) /\ ~Rules!HasNegation(w) =>
              \A c \in y.fired : FiredBy(w, T, rule, branch.b, c)
<1> DEFINE v == Rules!Veto(holds, rule.exceptions, branch.b, st)
<1>1. branch.b \in Rules!Bindings
  BY BranchesAre
<1>2. v \in Decisions
  BY <1>1, VetoVets
<1>3. ASSUME NEW T, NEW Q, Oracle(w, T, Q, holds), AreDecided(w, Q, rule)
      PROVE  Vets(w, T, Exceptions(rule), branch.b, st, v)
  BY <1>1, <1>3, VetoVets DEF AreDecided, Exceptions
<1> HIDE DEF v
<1>4. /\ y.st = v.st
      /\ y.fired = IF v.veto \/ ~Rules!IsGround(rule.head, branch.b) THEN {} ELSE {Rules!Ground(rule.head, branch.b)}
      /\ y = [st |-> y.st, fired |-> y.fired]
  BY DEF Rules!WithFired, v
<1>5. Rules!IsGround(rule.head, branch.b) => Rules!Ground(rule.head, branch.b) \in Rules!GroundClaims
  <2>1. ASSUME Rules!IsGround(rule.head, branch.b) PROVE Rules!VarsOf(rule.head) \subseteq DOMAIN branch.b
    BY <2>1, GroundIs DEF Rules!IsGround
  <2>2. QED BY <1>1, <2>1, GroundStays
<1>6. y \in Fired
  <2>1. v.st \in Rules!States
    BY <1>2 DEF Decisions
  <2>2. y.fired \in SUBSET Rules!GroundClaims
    BY <1>4, <1>5
  <2>3. QED BY <1>4, <2>1, <2>2 DEF Fired
<1>7. ASSUME NEW T, NEW Q, Oracle(w, T, Q, holds), AreDecided(w, Q, rule), ~Rules!HasNegation(w), NEW c \in y.fired
      PROVE  FiredBy(w, T, rule, branch.b, c)
  <2>1. ~v.veto /\ Rules!IsGround(rule.head, branch.b) /\ c = Rules!Ground(rule.head, branch.b)
    BY <1>4, <1>7
  <2>2. Passes(w, T, rule, branch.b)
    BY <1>3, <1>7, <2>1 DEF Vets, Okay, Passes
  <2>3. QED BY <2>1, <2>2 DEF FiredBy
<1>8. QED BY <1>6, <1>7

\* What has fired, has fired by one of the branches.
FiredByOne(w, T, rule, branches, y) ==
  \A c \in y.fired : \E j \in 1..Len(branches) : FiredBy(w, T, rule, branches[j].b, c)

\* The first that fires is one of those that were found.
LEMMA FirstFiredHolds ==
  ASSUME NEW w, Rules!IsWorld(w), NEW holds \in [Asks -> Rules!Replies], NEW rule, rule.head \in Rules!Patterns,
         rule.exceptions \in Seq(Rules!Patterns), NEW found \in Results,
         NEW T, NEW Q, Oracle(w, T, Q, holds), AreDecided(w, Q, rule), ~Rules!HasNegation(w),
         NEW c \in Rules!FirstFired(holds, rule, found)
  PROVE  \E j \in 1..Len(found.branches) : FiredBy(w, T, rule, found.branches[j].b, c)
<1> DEFINE n == Len(found.branches)
           step == [x \in (1..n) \X Fired |->
                      IF x[2].fired # {} THEN x[2]
                      ELSE Rules!WithFired(rule, found.branches[x[1]],
                             Rules!Veto(holds, rule.exceptions, found.branches[x[1]].b, x[2].st))]
           start == [st |-> found.st, fired |-> {}]
           Inv == {z \in (0..n) \X Fired : FiredByOne(w, T, rule, found.branches, z[2])}
<1>1. n \in Nat /\ found.branches \in Seq(Rules!Branches) /\ found.st \in Rules!States
  BY ResultsAre
<1>2. start \in Fired /\ start.fired = {}
  BY <1>1 DEF Fired
<1>3. ASSUME NEW i \in 1..n, NEW y \in Fired
      PROVE  /\ step[<<i, y>>] \in Fired
             /\ FiredByOne(w, T, rule, found.branches, y) => FiredByOne(w, T, rule, found.branches, step[<<i, y>>])
  <2> DEFINE branch == found.branches[i]
             z == Rules!WithFired(rule, branch, Rules!Veto(holds, rule.exceptions, branch.b, y.st))
  <2>1. step[<<i, y>>] = IF y.fired # {} THEN y ELSE z
    BY <1>3
  <2> HIDE DEF step
  <2>2. branch \in Rules!Branches /\ y.st \in Rules!States
    BY <1>1 DEF Fired
  <2>3. z \in Fired /\ \A a \in z.fired : FiredBy(w, T, rule, branch.b, a)
    BY <2>2, WithFiredHolds
  <2> HIDE DEF z
  <2>4. FiredByOne(w, T, rule, found.branches, z)
    BY <2>3 DEF FiredByOne
  <2>5. QED BY <2>1, <2>3, <2>4
<1>4. step \in [(1..n) \X Fired -> Fired]
  <2>1. step = [z \in (1..n) \X Fired |-> step[z]]
    OBVIOUS
  <2> HIDE DEF step, n
  <2>2. QED BY <1>3, <2>1, StepIsTyped
<1>5. Rules!FirstFired(holds, rule, found) = Rules!Loop(step, n, start).fired
  BY Zenon DEF Rules!FirstFired, Fired
<1> HIDE DEF step, start
<1>6. <<0, start>> \in Inv
  <2>1. 0 \in 0..n
    BY <1>1
  <2>2. FiredByOne(w, T, rule, found.branches, start)
    BY <1>2 DEF FiredByOne
  <2>3. QED BY <1>2, <2>1, <2>2
<1>7. Keeps(Fired, n, step, Inv)
  <2>1. ASSUME NEW i \in 1..n, NEW y \in Fired, <<i - 1, y>> \in Inv PROVE <<i, step[<<i, y>>]>> \in Inv
    <3>1. FiredByOne(w, T, rule, found.branches, y)
      BY <2>1
    <3>2. i \in 0..n
      BY <1>1
    <3>3. QED BY <1>3, <3>1, <3>2
  <2> HIDE DEF Inv, n
  <2>2. QED BY <2>1 DEF Keeps
<1> DEFINE z == Rules!Loop(step, n, start)
<1>8. <<n, z>> \in Inv
  <2> HIDE DEF Inv, n
  <2>1. n \in Nat
    BY <1>1 DEF n
  <2>2. QED BY <1>2, <1>4, <1>6, <1>7, <2>1, LoopKeeps
<1>9. FiredByOne(w, T, rule, found.branches, z)
  BY <1>8
<1>10. c \in z.fired
  BY <1>5
<1>11. QED BY <1>9, <1>10 DEF FiredByOne

\* FireRules agrees with the model: FiringAgrees for every stratified world.
LEMMA FiringAgreesHolds ==
  ASSUME NEW w, Rules!IsWorld(w), Rules!IsStratified(w)
  PROVE  Rules!FiringAgrees(w)
<1> DEFINE M == Rules!Model(w)
           holds == Rules!Holds(w, Rules!Search(w), {})
           start == [b |-> Rules!NoBindings, cost |-> 0, steps |-> 0]
           ordered(i) == Rules!Ordered(w.rules[i].conditions, {})
           found(i) == Rules!EvalConditions(w, holds, ordered(i), start, Rules!NewState)
           I == {i \in Rules!ForwardCandidates(w) : ~w.rules[i].head.neg}
<1>1. Rules!FireRules(w) = [i \in I |-> Rules!FirstFired(holds, w.rules[i], found(i))]
  BY Zenon DEF Rules!FireRules
<1>2. I \subseteq 1..Len(w.rules)
  <2>1. w.rules \in Seq(Rules!RuleType)
    BY DEF Rules!IsWorld
  <2>2. DOMAIN w.rules = 1..Len(w.rules)
    BY <2>1
  <2>3. QED BY <2>2 DEF Rules!ForwardCandidates
<1>3. ASSUME ~Rules!HasNegation(w), NEW i \in 1..Len(w.rules), NEW rule, rule = w.rules[i],
             NEW c \in Rules!FirstFired(holds, rule, found(i))
      PROVE  \E b \in Rules!Instances(rule) : Rules!Ground(rule.head, b) = c /\ Rules!Fires(w, M, M, rule, b)
  <2> DEFINE L == Len(rule.conditions)
             O == Rules!Ordered(rule.conditions, {})
             F == Rules!EvalConditions(w, holds, O, start, Rules!NewState)
  <2>1. /\ rule.conditions \in Seq(Rules!Patterns) /\ rule.exceptions \in Seq(Rules!Patterns)
        /\ rule.head \in Rules!Patterns
    BY <1>3, RulesAre
  <2>2. \A k \in 1..L : ~rule.conditions[k].neg
    <3>1. w.rules \in Seq(Rules!RuleType) /\ i \in DOMAIN w.rules
      BY <1>3 DEF Rules!IsWorld
    <3>2. DOMAIN rule.conditions = 1..L
      BY <2>1
    <3>3. QED BY <1>3, <3>1, <3>2 DEF Rules!HasNegation
  <2>3. Reorders(O, rule.conditions)
    BY <2>1, OrderedHolds
  <2>4. /\ O \in Seq(Rules!Patterns) /\ Len(O) = L /\ \A k \in 1..Len(O) : ~O[k].neg /\ O[k].p \in RulePredicates
    <3>1. O \in Seq(Rules!Patterns) /\ Len(O) = L /\ \A k \in 1..L : \E j \in 1..L : O[k] = rule.conditions[j]
      BY <2>3 DEF Reorders
    <3> HIDE DEF O
    <3>2. \A k \in 1..L : ~O[k].neg
      BY <2>2, <3>1
    <3>3. \A k \in 1..Len(O) : O[k] \in Rules!Patterns
      BY <3>1
    <3>4. QED BY <3>1, <3>2, <3>3, PatternsAre
  <2>5. /\ Rules!NoBindings \in Rules!Bindings /\ DOMAIN Rules!NoBindings = {}
        /\ start \in Rules!Branches /\ start.b = Rules!NoBindings /\ Rules!NewState \in Rules!States
    <3>1. DOMAIN Rules!NoBindings = {} /\ Rules!NoBindings \in [{} -> RuleEntities]
      BY DEF Rules!NoBindings
    <3>2. Rules!NoBindings \in Rules!Bindings
      BY <3>1, BindingsAre
    <3>3. Rules!NewState \in Rules!States
      BY DEF Rules!NewState, Rules!States
    <3>4. start \in Rules!Branches
      BY <3>2 DEF Rules!Branches
    <3>5. QED BY <3>1, <3>2, <3>3, <3>4
  <2>6. Oracle(w, M, RulePredicates, holds)
    BY ModelOracle
  <2>7. holds \in [Asks -> Rules!Replies]
    <3>1. {} \in Rules!Active
      BY DEF Rules!Active
    <3>2. Rules!Search(w) \in [Rules!Calls -> Rules!Replies]
      BY SearchAnswersSoundly
    <3>3. QED BY <3>1, <3>2, HoldsIs
  <2> HIDE DEF holds, start, O, M
  <2>8. F \in Results /\ Gives(w, RestOf(w, M, O, 1, Rules!NoBindings), Rules!NewState, F)
    <3>1. \A k \in 1..Len(O) : O[k].neg => Rules!HasNegation(w)
      BY <2>4
    <3>2. /\ F \in Results
          /\ \A T, Q : Oracle(w, T, Q, holds) /\ (\A k \in 1..Len(O) : O[k].p \in Q) =>
               Gives(w, RestOf(w, T, O, 1, start.b), Rules!NewState, F)
      BY <2>4, <2>5, <2>7, <3>1, EvalConditionsGives
    <3>3. Gives(w, RestOf(w, M, O, 1, start.b), Rules!NewState, F)
      BY <2>4, <2>6, <3>2
    <3>4. QED BY <2>5, <3>2, <3>3
  <2>9. AreDecided(w, RulePredicates, rule)
    <3>1. NeedsUpTo(w, rule, rule.level)
      BY <1>3, StrataAre
    <3>2. \A k \in 1..Len(rule.exceptions) : rule.exceptions[k] \in Rules!Patterns
      BY <2>1
    <3>3. \A k \in 1..Len(rule.exceptions) : rule.exceptions[k].p \in RulePredicates
      BY <3>2, PatternsAre
    <3>4. QED BY <3>1, <3>3 DEF AreDecided, IsDecided, NeedsUpTo, Underived, Heading
  <2>10. F = found(i)
    BY <1>3 DEF O
  <2> HIDE DEF F
  <2>11. PICK j \in 1..Len(F.branches) : FiredBy(w, M, rule, F.branches[j].b, c)
    <3>1. c \in Rules!FirstFired(holds, rule, F)
      BY <1>3, <2>10
    <3>2. QED BY <1>3, <2>1, <2>6, <2>7, <2>8, <2>9, <3>1, FirstFiredHolds
  <2> DEFINE b == F.branches[j].b
  <2>12. b \in RestOf(w, M, O, 1, Rules!NoBindings)
    BY <1>3, <2>8 DEF Gives, Okay
  <2> HIDE DEF b
  <2>13. Satisfies(w, M, rule.conditions, O, Rules!NoBindings, b)
    <3>1. O = Rules!Ordered(rule.conditions, DOMAIN Rules!NoBindings)
      BY <2>5 DEF O
    <3>2. QED BY <2>1, <2>5, <2>12, <3>1, RestIsFound
  <2>14. /\ b \in [Rules!VarsIn(rule.conditions, {}, L) -> RuleEntities]
         /\ \A k \in 1..L : Meets(w, M, rule.conditions[k], b)
    BY <2>5, <2>13 DEF Satisfies
  <2>15. Rules!IsGround(rule.head, b) /\ c = Rules!Ground(rule.head, b) /\ Passes(w, M, rule, b)
    BY <2>11 DEF FiredBy, b
  <2>16. b \in Rules!Instances(rule)
    <3>1. DOMAIN b = Rules!VarsIn(rule.conditions, {}, L)
      BY <2>14
    <3>2. Rules!VarsOf(rule.head) \subseteq DOMAIN b
      BY <2>1, <2>15, GroundIs DEF Rules!IsGround
    <3>3. Rules!VarsIn(rule.conditions, Rules!VarsOf(rule.head), L) = Rules!VarsIn(rule.conditions, {}, L)
      BY <3>1, <3>2 DEF Rules!VarsIn
    <3>4. QED BY <2>14, <3>3 DEF Rules!Instances
  <2>17. Rules!Fires(w, M, M, rule, b)
    <3>1. DOMAIN rule.conditions = 1..L /\ DOMAIN rule.exceptions = 1..Len(rule.exceptions)
      BY <2>1
    <3>2. \A k \in 1..L : Rules!IsTrue(w, M, Rules!Ground(rule.conditions[k], b))
      BY <2>2, <2>14 DEF Meets
    <3>3. \A k \in 1..Len(rule.exceptions) : ~Rules!Vetoed(w, M, M, rule.exceptions[k], b)
      BY <2>15 DEF Passes, Exceptions
    <3> HIDE DEF L
    <3>4. QED BY <2>2, <3>1, <3>2, <3>3 DEF Rules!Fires, L
  <2>18. QED BY <2>15, <2>16, <2>17
<1> HIDE DEF M, holds, start, I
<1>4. ASSUME ~Rules!HasNegation(w), NEW i \in I, NEW c \in Rules!FirstFired(holds, w.rules[i], found(i))
      PROVE  \E b \in Rules!Instances(w.rules[i]) :
               Rules!Ground(w.rules[i].head, b) = c /\ Rules!Fires(w, M, M, w.rules[i], b)
  BY <1>2, <1>3, <1>4
<1> HIDE DEF found
<1>5. DOMAIN Rules!FireRules(w) = I /\ \A i \in I : Rules!FireRules(w)[i] = Rules!FirstFired(holds, w.rules[i], found(i))
  BY <1>1
<1>6. QED BY <1>4, <1>5, Zenon DEF Rules!FiringAgrees, M

-----------------------------------------------------------------------------

\* Whatever caps a search meets, without negated conditions it entails only what
\* the rules make true; when it meets none, and with strata for what is negated
\* and for what vetoes, it entails exactly that; and a rule fires only with an
\* instance that is true (conditional.go:192-651).
THEOREM SearchesAreSound == SeqSpec => []SearchIsSound
<1> DEFINE Inv == kind = "rules" => IF "rules" \in DOMAIN Questions THEN job \in Questions["rules"]
                                    ELSE phase = "asked"
<1>1. SeqInit => Inv
  BY DEF SeqInit
<1>2. ASSUME Inv, [SeqNext]_allVars PROVE Inv'
  <2>1. ASSUME kind' = "rules"
        PROVE  kind = "rules" /\ job' = job /\ (phase' = phase \/ "rules" \in DOMAIN Questions)
    BY <1>2, <2>1 DEF SeqNext, Store, Select, Think, Reason, BuildGraph, Answer, allVars, buildVars
  <2>2. QED BY <1>2, <2>1
<1>3. Inv => SearchIsSound
  <2>1. SUFFICES ASSUME Inv, kind = "rules", phase = "answered", Rules!IsStratified(job)
                 PROVE  Rules!SearchAgrees(job, RuleGoals) /\ Rules!FiringAgrees(job)
    BY DEF SearchIsSound
  <2>2. "rules" \in DOMAIN Questions /\ job \in Questions["rules"]
    BY <2>1
  <2>3. Rules!IsWorld(job) /\ RuleGoals \subseteq Rules!GroundClaims
    BY <2>2, RuleQuestionsAreTyped
  <2>4. QED BY <2>1, <2>3, SearchAgreesHolds, FiringAgreesHolds
<1>4. QED BY <1>1, <1>2, <1>3, PTL DEF SeqSpec
================================================================================
