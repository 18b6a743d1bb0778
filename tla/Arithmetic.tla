----------------------------- MODULE Arithmetic -----------------------------
(***************************************************************************)
(* Lemmas about the numbers the models compute, none of which the library   *)
(* has: sums over finite sets and folds of sequences, as the community      *)
(* modules define them, and the remainders that wrapped integers are.       *)
(*                                                                         *)
(* Induction goes over sets: what does not hold of every subset of a finite *)
(* set, or of every natural number, fails at a minimal one (WFMin).         *)
(***************************************************************************)
EXTENDS Integers, FiniteSetsExt, FiniteSetTheorems, WellFoundedInduction, TLAPS

-----------------------------------------------------------------------------
(* Induction.                                                              *)

\* Over the natural numbers.
LEMMA NatInductionInSet ==
    ASSUME NEW Good, 0 \in Good, \A n \in Nat : n \in Good => n + 1 \in Good
    PROVE  Nat \subseteq Good
<1> DEFINE R == OpToRel(<, Nat)
           Bad == Nat \ Good
<1>1. IsWellFoundedOn(R, Nat)
  BY NatLessThanWellFounded
<1>2. ASSUME Bad # {} PROVE FALSE
  <2>1. Bad \subseteq Nat
    OBVIOUS
  <2>2. PICK n \in Bad : \A m \in Bad : <<m, n>> \notin R
    <3> HIDE DEF R, Bad
    <3> QED
      BY <1>1, <1>2, <2>1, WFMin
  <2>3. n \in Nat /\ n # 0 /\ n - 1 \in Nat /\ n - 1 < n
    OBVIOUS
  <2>4. n - 1 \in Bad
    <3>1. n - 1 \in Good => n - 1 + 1 \in Good
      BY <2>3
    <3>2. n - 1 + 1 = n
      BY <2>3
    <3>3. QED
      BY <2>3, <3>1, <3>2
  <2>5. <<n - 1, n>> \in R
    BY <2>3 DEF OpToRel
  <2>6. QED
    BY <2>2, <2>4, <2>5
<1>3. QED
  BY <1>2

\* Over the subsets of a finite set.
LEMMA SubsetInduction ==
    ASSUME NEW S, IsFiniteSet(S), NEW Good,
           \A T \in SUBSET S :
              (\A U \in SUBSET T : U # T => U \in Good) => T \in Good
    PROVE  SUBSET S \subseteq Good
<1> DEFINE R == StrictSubsetOrdering(S)
           F == FiniteSubsetsOf(S)
           Bad == {T \in F : T \notin Good}
<1>1. IsWellFoundedOn(R, F)
  BY FS_StrictSubsetOrderingWellFounded
<1>2. ASSUME Bad # {} PROVE FALSE
  <2>1. Bad \subseteq F
    OBVIOUS
  <2>2. PICK T \in Bad : \A U \in Bad : <<U, T>> \notin R
    <3> HIDE DEF R, F, Bad
    <3> QED
      BY <1>1, <1>2, <2>1, WFMin
  <2>3. QED
    BY <2>2, FS_Subset DEF StrictSubsetOrdering, FiniteSubsetsOf
<1>3. QED
  BY <1>2, FS_Subset DEF FiniteSubsetsOf

-----------------------------------------------------------------------------
(* Folds.                                                                  *)

\* h folds `step` over the subsets of S, from `base`, in the order of `choose`.
IsFold(h, S, base, step, choose) ==
    \A s \in SUBSET S :
        h[s] = IF s = {} THEN base ELSE step[choose[s]][h[s \ {choose[s]}]]

\* choose picks an element of each subset of S.
Chooses(choose, S) == \A s \in SUBSET S : s # {} => choose[s] \in s

\* Where h and k agree on what `choose` leaves, they agree.
Follows(h, k, S, choose) ==
    /\ h[{}] = k[{}]
    /\ \A s \in SUBSET S :
          s # {} /\ h[s \ {choose[s]}] = k[s \ {choose[s]}] => h[s] = k[s]

\* There is one, ...
LEMMA FoldExists ==
    ASSUME NEW S, IsFiniteSet(S), NEW V, NEW base \in V, NEW step \in [S -> [V -> V]],
           NEW choose, Chooses(choose, S)
    PROVE  \E h \in [SUBSET S -> V] : IsFold(h, S, base, step, choose)
<1> DEFINE Value(h, s) == IF s = {} THEN base ELSE step[choose[s]][h[s \ {choose[s]}]]
           UpTo(n) == \E h \in [SUBSET S -> V] :
                         \A s \in SUBSET S : Cardinality(s) <= n => h[s] = Value(h, s)
           Good == {n \in Nat : UpTo(n)}
<1>0. \A s \in SUBSET S : IsFiniteSet(s) /\ Cardinality(s) \in Nat
                          /\ Cardinality(s) <= Cardinality(S)
  BY FS_Subset, FS_CardinalityType
<1>1. \A s \in SUBSET S : s # {} =>
         /\ s \ {choose[s]} \in SUBSET S /\ choose[s] \in S
         /\ Cardinality(s \ {choose[s]}) = Cardinality(s) - 1
  BY <1>0, FS_RemoveElement DEF Chooses
<1>2. ASSUME NEW h \in [SUBSET S -> V], NEW s \in SUBSET S PROVE Value(h, s) \in V
  <2>1. CASE s = {}
    BY <2>1
  <2>2. CASE s # {}
    <3>1. choose[s] \in S /\ h[s \ {choose[s]}] \in V
      BY <1>1, <2>2
    <3> DEFINE x == choose[s]
               v == h[s \ {choose[s]}]
    <3>2. \A y \in S, w \in V : step[y][w] \in V
      OBVIOUS
    <3> HIDE DEF x, v
    <3>3. x \in S /\ v \in V
      BY <3>1 DEF x, v
    <3>4. step[x][v] \in V
      BY <3>2, <3>3
    <3>5. QED
      BY <2>2, <3>4 DEF x, v
  <2>3. QED
    BY <2>1, <2>2
<1>3. UpTo(0)
  <2>1. \A s \in SUBSET S : Cardinality(s) <= 0 => s = {}
    BY <1>0, FS_EmptySet
  <2> DEFINE h == [s \in SUBSET S |-> base]
  <2>2. h \in [SUBSET S -> V] /\ \A s \in SUBSET S : Cardinality(s) <= 0 => h[s] = Value(h, s)
    BY <2>1
  <2>3. QED
    BY <2>2
<1>4. ASSUME NEW n \in Nat, UpTo(n) PROVE UpTo(n + 1)
  <2>1. PICK h \in [SUBSET S -> V] :
           \A s \in SUBSET S : Cardinality(s) <= n => h[s] = Value(h, s)
    BY <1>4
  <2> DEFINE k == [s \in SUBSET S |-> IF Cardinality(s) <= n THEN h[s] ELSE Value(h, s)]
  <2>2. k \in [SUBSET S -> V]
    BY <1>2
  <2>3. ASSUME NEW s \in SUBSET S, Cardinality(s) <= n + 1 PROVE k[s] = Value(k, s)
    <3>1. k[s] = Value(h, s)
      BY <2>1
    <3>2. CASE s = {}
      BY <3>1, <3>2
    <3>3. CASE s # {}
      <4>1. s \ {choose[s]} \in SUBSET S /\ Cardinality(s \ {choose[s]}) <= n
        BY <1>0, <1>1, <2>3, <3>3
      <4>2. k[s \ {choose[s]}] = h[s \ {choose[s]}]
        BY <4>1
      <4>3. QED
        BY <3>1, <3>3, <4>2
    <3>4. QED
      BY <3>2, <3>3
  <2>4. QED
    <3> HIDE DEF k, Value
    <3> QED
      BY <2>2, <2>3
<1>5. Cardinality(S) \in Good
  <2>1. 0 \in Good /\ \A n \in Nat : n \in Good => n + 1 \in Good
    <3> HIDE DEF UpTo
    <3> QED
      BY <1>3, <1>4
  <2> HIDE DEF Good
  <2>2. QED
    BY <1>0, <2>1, NatInductionInSet
<1>6. PICK h \in [SUBSET S -> V] :
         \A s \in SUBSET S : Cardinality(s) <= Cardinality(S) => h[s] = Value(h, s)
  BY <1>5
<1>7. QED
  BY <1>0, <1>6 DEF IsFold

\* ... and what follows from the same values for fewer elements is the same.
LEMMA SameFromFewer ==
    ASSUME NEW S, IsFiniteSet(S), NEW choose,
           Chooses(choose, S),
           NEW h, NEW k, Follows(h, k, S, choose)
    PROVE  \A s \in SUBSET S : h[s] = k[s]
<1> DEFINE Good == {s \in SUBSET S : h[s] = k[s]}
<1>1. ASSUME NEW T \in SUBSET S, \A U \in SUBSET T : U # T => U \in Good
      PROVE  T \in Good
  <2>1. CASE T = {}
    BY <2>1 DEF Follows
  <2>2. CASE T # {}
    <3>1. T \ {choose[T]} \in SUBSET T /\ T \ {choose[T]} # T
      BY <2>2 DEF Chooses
    <3>2. h[T \ {choose[T]}] = k[T \ {choose[T]}]
      BY <1>1, <3>1
    <3>3. QED
      BY <2>2, <3>2 DEF Follows
  <2>3. QED
    BY <2>1, <2>2
<1>2. SUBSET S \subseteq Good
  <2> HIDE DEF Good
  <2> QED
    BY <1>1, SubsetInduction
<1>3. QED
  BY <1>2

-----------------------------------------------------------------------------
(* Sums: SumFunctionOnSet(g, S) of the community modules.                  *)

IsIntOn(g, S) == \A x \in S : g[x] \in Int

\* h is the sum of g over each subset of S.
AddsUp(h, g, S) ==
    \A s \in SUBSET S :
        /\ h[s] \in Int
        /\ h[s] = IF s = {} THEN 0
                  ELSE g[CHOOSE x \in s : TRUE] + h[s \ {CHOOSE x \in s : TRUE}]

\* The definition of the sum has a solution, an integer for each subset.
LEMMA SumDefined ==
    ASSUME NEW S, IsFiniteSet(S), NEW g, IsIntOn(g, S)
    PROVE  \E h : SumFunctionOnSet(g, S) = h[S] /\ AddsUp(h, g, S)
<1> DEFINE pick(s) == CHOOSE x \in s : TRUE
           choose == [s \in SUBSET S |-> pick(s)]
           step == [y \in S |-> [v \in Int |-> g[y] + v]]
           sum == CHOOSE h : h = [s \in SUBSET S |->
                                    IF s = {} THEN 0 ELSE g[pick(s)] + h[s \ {pick(s)}]]
<1>1. SumFunctionOnSet(g, S) = sum[S]
  BY DEF SumFunctionOnSet, FoldFunctionOnSet, MapThenFoldSet
<1>2. \A s \in SUBSET S : s # {} => pick(s) \in s /\ choose[s] = pick(s)
  OBVIOUS
<1>3. step \in [S -> [Int -> Int]] /\ \A y \in S, v \in Int : step[y][v] = g[y] + v
  BY DEF IsIntOn
<1> HIDE DEF pick, choose, step, sum
<1>4. PICK h \in [SUBSET S -> Int] : IsFold(h, S, 0, step, choose)
  <2>1. Chooses(choose, S)
    BY <1>2 DEF Chooses
  <2> DEFINE V == Int
             zero == 0
  <2>2. zero \in V /\ step \in [S -> [V -> V]]
    BY <1>3
  <2> HIDE DEF V, zero
  <2>3. \E h \in [SUBSET S -> V] : IsFold(h, S, zero, step, choose)
    BY <2>1, <2>2, FoldExists
  <2>4. QED
    BY <2>3 DEF V, zero
<1>5. \A s \in SUBSET S :
         h[s] = IF s = {} THEN 0 ELSE g[pick(s)] + h[s \ {pick(s)}]
  BY <1>2, <1>3, <1>4 DEF IsFold
<1>6. h = [s \in SUBSET S |-> IF s = {} THEN 0 ELSE g[pick(s)] + h[s \ {pick(s)}]]
  BY <1>4, <1>5
<1>7. sum = [s \in SUBSET S |-> IF s = {} THEN 0 ELSE g[pick(s)] + sum[s \ {pick(s)}]]
  BY <1>6 DEF sum
<1>8. \A s \in SUBSET S :
         sum[s] = IF s = {} THEN 0 ELSE g[pick(s)] + sum[s \ {pick(s)}]
  BY <1>7
<1> DEFINE Good == {s \in SUBSET S : sum[s] \in Int}
<1>9. ASSUME NEW T \in SUBSET S, \A U \in SUBSET T : U # T => U \in Good
      PROVE  T \in Good
  <2>1. CASE T = {}
    <3>1. sum[{}] = 0
      BY <1>8, <2>1
    <3>2. QED
      BY <2>1, <3>1
  <2>2. CASE T # {}
    <3>1. T \ {pick(T)} \in SUBSET T /\ T \ {pick(T)} # T /\ g[pick(T)] \in Int
      BY <1>2, <2>2 DEF IsIntOn
    <3>2. sum[T \ {pick(T)}] \in Int
      BY <1>9, <3>1
    <3>3. sum[T] = g[pick(T)] + sum[T \ {pick(T)}]
      BY <1>8, <2>2
    <3>4. QED
      BY <3>1, <3>2, <3>3
  <2>3. QED
    BY <2>1, <2>2
<1>10. \A s \in SUBSET S : sum[s] \in Int
  <2> HIDE DEF Good
  <2>1. SUBSET S \subseteq Good
    BY <1>9, SubsetInduction
  <2>2. QED
    BY <2>1 DEF Good
<1>11. AddsUp(sum, g, S)
  BY <1>8, <1>10 DEF AddsUp, pick
<1>12. QED
  BY <1>1, <1>11

\* What adds up over S adds up over its subsets, and there is no other sum.
LEMMA SumUnique ==
    ASSUME NEW S, IsFiniteSet(S), NEW g, NEW h, AddsUp(h, g, S),
           NEW T \in SUBSET S, NEW k, AddsUp(k, g, T)
    PROVE  h[T] = k[T]
<1> DEFINE Good == {s \in SUBSET T : h[s] = k[s]}
<1>1. ASSUME NEW s \in SUBSET T, \A U \in SUBSET s : U # s => U \in Good
      PROVE  s \in Good
  <2>1. CASE s = {}
    BY <2>1 DEF AddsUp
  <2>2. CASE s # {}
    <3> DEFINE x == CHOOSE x \in s : TRUE
    <3>1. s \ {x} \in SUBSET s /\ s \ {x} # s
      BY <2>2
    <3>2. h[s \ {x}] = k[s \ {x}]
      BY <1>1, <3>1
    <3>3. h[s] = g[x] + h[s \ {x}] /\ k[s] = g[x] + k[s \ {x}]
      BY <2>2 DEF AddsUp
    <3>4. QED
      BY <3>2, <3>3
  <2>3. QED
    BY <2>1, <2>2
<1>2. SUBSET T \subseteq Good
  <2> HIDE DEF Good
  <2>1. IsFiniteSet(T)
    BY FS_Subset
  <2>2. QED
    BY <1>1, <2>1, SubsetInduction
<1>3. QED
  BY <1>2

\* The sum over a set is an integer, ...
LEMMA SumType ==
    ASSUME NEW S, IsFiniteSet(S), NEW g, IsIntOn(g, S)
    PROVE  SumFunctionOnSet(g, S) \in Int
<1>1. PICK h : SumFunctionOnSet(g, S) = h[S] /\ AddsUp(h, g, S)
  BY SumDefined
<1>2. h[S] \in Int
  BY <1>1 DEF AddsUp
<1>3. QED
  BY <1>1, <1>2

\* ... 0 over the empty one, ...
LEMMA SumEmpty ==
    ASSUME NEW g
    PROVE  SumFunctionOnSet(g, {}) = 0
<1>1. IsFiniteSet({}) /\ IsIntOn(g, {})
  BY FS_EmptySet DEF IsIntOn
<1>2. QED
  BY <1>1, SumDefined DEF AddsUp

\* ... and grows by what is added.
LEMMA SumPick ==
    ASSUME NEW S, IsFiniteSet(S), S # {}, NEW g, IsIntOn(g, S)
    PROVE  LET x == CHOOSE x \in S : TRUE
           IN  SumFunctionOnSet(g, S) = g[x] + SumFunctionOnSet(g, S \ {x})
<1> DEFINE x == CHOOSE x \in S : TRUE
<1>1. PICK h : SumFunctionOnSet(g, S) = h[S] /\ AddsUp(h, g, S)
  BY SumDefined
<1>2. S \ {x} \in SUBSET S /\ IsFiniteSet(S \ {x}) /\ IsIntOn(g, S \ {x})
  BY FS_Subset DEF IsIntOn
<1>3. PICK k : SumFunctionOnSet(g, S \ {x}) = k[S \ {x}] /\ AddsUp(k, g, S \ {x})
  BY <1>2, SumDefined
<1>4. h[S \ {x}] = k[S \ {x}]
  BY <1>1, <1>2, <1>3, SumUnique
<1>5. h[S] = g[x] + h[S \ {x}]
  BY <1>1 DEF AddsUp
<1>6. QED
  BY <1>1, <1>3, <1>4, <1>5

\* ... whichever element that is.
LEMMA SumRemove ==
    ASSUME NEW S, IsFiniteSet(S), NEW g, IsIntOn(g, S), NEW x \in S
    PROVE  SumFunctionOnSet(g, S) = g[x] + SumFunctionOnSet(g, S \ {x})
<1> DEFINE sum(T) == SumFunctionOnSet(g, T)
           Good == {T \in SUBSET S : \A y \in T : sum(T) = g[y] + sum(T \ {y})}
<1>1. \A T \in SUBSET S : IsFiniteSet(T) /\ IsIntOn(g, T) /\ sum(T) \in Int
  BY FS_Subset, SumType DEF IsIntOn
<1>2. \A y \in S : g[y] \in Int
  BY DEF IsIntOn
<1>3. ASSUME NEW T \in SUBSET S, \A U \in SUBSET T : U # T => U \in Good
      PROVE  T \in Good
  <2> SUFFICES ASSUME NEW y \in T PROVE sum(T) = g[y] + sum(T \ {y})
    OBVIOUS
  <2> DEFINE p == CHOOSE p \in T : TRUE
  <2>1. p \in T /\ sum(T) = g[p] + sum(T \ {p})
    BY <1>1, SumPick
  <2> HIDE DEF p, sum
  <2>2. CASE y = p
    BY <2>1, <2>2
  <2>3. CASE y # p
    <3>1. y \in T \ {p} /\ p \in T \ {y} /\ (T \ {p}) \ {y} = (T \ {y}) \ {p}
      BY <2>1, <2>3
    <3>2. sum(T \ {p}) = g[y] + sum((T \ {p}) \ {y})
      BY <1>3, <2>1, <3>1
    <3>3. sum(T \ {y}) = g[p] + sum((T \ {y}) \ {p})
      BY <1>3, <2>1, <3>1
    <3>4. g[y] \in Int /\ g[p] \in Int /\ sum((T \ {y}) \ {p}) \in Int
      BY <1>1, <1>2, <2>1
    <3> DEFINE a == g[y]
               b == g[p]
               rest == sum((T \ {y}) \ {p})
    <3>5. sum(T) = b + (a + rest) /\ sum(T \ {y}) = b + rest
      BY <2>1, <3>1, <3>2, <3>3
    <3> HIDE DEF a, b, rest
    <3>6. b + (a + rest) = a + (b + rest)
      BY <3>4 DEF a, b, rest
    <3>7. QED
      BY <3>5, <3>6 DEF a
  <2>4. QED
    BY <2>2, <2>3
<1>4. SUBSET S \subseteq Good
  <2> HIDE DEF Good
  <2> QED
    BY <1>3, SubsetInduction
<1>5. QED
  BY <1>4

\* Functions that agree on a set have the same sum over it.
LEMMA SumCongruent ==
    ASSUME NEW S, IsFiniteSet(S), NEW g, IsIntOn(g, S), NEW h, \A x \in S : h[x] = g[x]
    PROVE  SumFunctionOnSet(h, S) = SumFunctionOnSet(g, S)
<1> DEFINE Good == {T \in SUBSET S : SumFunctionOnSet(h, T) = SumFunctionOnSet(g, T)}
<1>1. ASSUME NEW T \in SUBSET S, \A U \in SUBSET T : U # T => U \in Good
      PROVE  T \in Good
  <2>1. CASE T = {}
    BY <2>1, SumEmpty
  <2>2. CASE T # {}
    <3>1. PICK x \in T : TRUE
      BY <2>2
    <3>2. IsFiniteSet(T) /\ IsIntOn(g, T) /\ IsIntOn(h, T)
      BY FS_Subset DEF IsIntOn
    <3>3. T \ {x} \in Good
      BY <1>1, <3>1
    <3>4. /\ SumFunctionOnSet(g, T) = g[x] + SumFunctionOnSet(g, T \ {x})
          /\ SumFunctionOnSet(h, T) = h[x] + SumFunctionOnSet(h, T \ {x})
      BY <3>1, <3>2, SumRemove
    <3>5. QED
      BY <3>1, <3>3, <3>4
  <2>3. QED
    BY <2>1, <2>2
<1>2. SUBSET S \subseteq Good
  <2> HIDE DEF Good
  <2> QED
    BY <1>1, SubsetInduction
<1>3. QED
  BY <1>2

\* The sums over two disjoint sets add up to the sum over both.
LEMMA SumDisjoint ==
    ASSUME NEW S, IsFiniteSet(S), NEW g, IsIntOn(g, S), NEW P \in SUBSET S
    PROVE  SumFunctionOnSet(g, S) = SumFunctionOnSet(g, P) + SumFunctionOnSet(g, S \ P)
<1> DEFINE sum(T) == SumFunctionOnSet(g, T)
           Good == {T \in SUBSET P : sum(S) = sum(T) + sum(S \ T)}
<1>1. \A T \in SUBSET S : IsFiniteSet(T) /\ IsIntOn(g, T) /\ sum(T) \in Int
  BY FS_Subset, SumType DEF IsIntOn
<1>2. ASSUME NEW T \in SUBSET P, \A U \in SUBSET T : U # T => U \in Good
      PROVE  T \in Good
  <2>1. CASE T = {}
    <3>1. sum(T) = 0 /\ sum(S) \in Int
      BY <1>1, <2>1, SumEmpty
    <3>2. sum(S \ T) = sum(S)
      <4>1. S \ T = S
        BY <2>1
      <4>2. QED
        BY <4>1
    <3>3. sum(S) = 0 + sum(S)
      BY <3>1
    <3>4. QED
      BY <3>1, <3>2, <3>3
  <2>2. CASE T # {}
    <3>1. PICK x \in T : TRUE
      BY <2>2
    <3> DEFINE U == T \ {x}
    <3>2. U \in Good
      BY <1>2, <3>1
    <3>3. x \in S \ U /\ S \ U \in SUBSET S /\ (S \ U) \ {x} = S \ T
      BY <3>1
    <3>4. sum(S \ U) = g[x] + sum(S \ T)
      BY <1>1, <3>3, SumRemove
    <3>5. sum(T) = g[x] + sum(U)
      BY <1>1, <3>1, SumRemove
    <3>6. g[x] \in Int /\ sum(U) \in Int /\ sum(S \ T) \in Int
      BY <1>1, <3>1 DEF IsIntOn
    <3> HIDE DEF sum, U
    <3>7. sum(S) = sum(U) + sum(S \ U)
      BY <3>2
    <3> DEFINE a == g[x]
               b == sum(U)
               c == sum(S \ T)
    <3>8. sum(S) = b + (a + c) /\ sum(T) = a + b
      BY <3>4, <3>5, <3>7
    <3> HIDE DEF a, b, c
    <3>9. b + (a + c) = (a + b) + c
      BY <3>6 DEF a, b, c
    <3>10. QED
      BY <3>8, <3>9 DEF c
  <2>3. QED
    BY <2>1, <2>2
<1>3. SUBSET P \subseteq Good
  <2> HIDE DEF Good
  <2>1. IsFiniteSet(P)
    BY FS_Subset
  <2>2. QED
    BY <1>2, <2>1, SubsetInduction
<1>4. P \in Good
  BY <1>3
<1>5. QED
  BY <1>4

\* A sum of naturals is one.
LEMMA SumNat ==
    ASSUME NEW S, IsFiniteSet(S), NEW g, \A x \in S : g[x] \in Nat
    PROVE  SumFunctionOnSet(g, S) \in Nat
<1> DEFINE Good == {T \in SUBSET S : SumFunctionOnSet(g, T) \in Nat}
<1>1. ASSUME NEW T \in SUBSET S, \A U \in SUBSET T : U # T => U \in Good
      PROVE  T \in Good
  <2>1. CASE T = {}
    BY <2>1, SumEmpty
  <2>2. CASE T # {}
    <3>1. PICK x \in T : TRUE
      BY <2>2
    <3>2. IsFiniteSet(T) /\ IsIntOn(g, T) /\ g[x] \in Nat
      BY <3>1, FS_Subset DEF IsIntOn
    <3>3. T \ {x} \in Good
      BY <1>1, <3>1
    <3>4. SumFunctionOnSet(g, T) = g[x] + SumFunctionOnSet(g, T \ {x})
      BY <3>1, <3>2, SumRemove
    <3>5. QED
      BY <3>1, <3>2, <3>3, <3>4
  <2>3. QED
    BY <2>1, <2>2
<1>2. SUBSET S \subseteq Good
  <2> HIDE DEF Good
  <2> QED
    BY <1>1, SubsetInduction
<1>3. QED
  BY <1>2

\* Nothing but zeros adds up to zero.
LEMMA SumZero ==
    ASSUME NEW S, IsFiniteSet(S), NEW g, \A x \in S : g[x] = 0
    PROVE  SumFunctionOnSet(g, S) = 0
<1> DEFINE Good == {T \in SUBSET S : SumFunctionOnSet(g, T) = 0}
<1>1. ASSUME NEW T \in SUBSET S, \A U \in SUBSET T : U # T => U \in Good
      PROVE  T \in Good
  <2>1. CASE T = {}
    BY <2>1, SumEmpty
  <2>2. CASE T # {}
    <3>1. PICK x \in T : TRUE
      BY <2>2
    <3>2. IsFiniteSet(T) /\ IsIntOn(g, T)
      BY FS_Subset DEF IsIntOn
    <3>3. SumFunctionOnSet(g, T \ {x}) = 0 /\ g[x] = 0
      BY <1>1, <3>1
    <3>4. SumFunctionOnSet(g, T) = g[x] + SumFunctionOnSet(g, T \ {x})
      BY <3>1, <3>2, SumRemove
    <3>5. QED
      BY <3>3, <3>4
  <2>3. QED
    BY <2>1, <2>2
<1>2. SUBSET S \subseteq Good
  <2> HIDE DEF Good
  <2> QED
    BY <1>1, SubsetInduction
<1>3. QED
  BY <1>2

\* h is g on X and zero elsewhere.
Filters(h, S, g, X) == \A x \in S : h[x] = IF x \in X THEN g[x] ELSE 0

\* What is left out of a sum counts as zero.
LEMMA SumFiltered ==
    ASSUME NEW S, IsFiniteSet(S), NEW g, IsIntOn(g, S), NEW X,
           NEW h, Filters(h, S, g, X)
    PROVE  IsIntOn(h, S) /\ SumFunctionOnSet(h, S) = SumFunctionOnSet(g, S \cap X)
<1> DEFINE P == S \cap X
<1>1. IsIntOn(h, S)
  BY DEF IsIntOn, Filters
<1>2. P \in SUBSET S /\ IsFiniteSet(P) /\ IsFiniteSet(S \ P) /\ IsIntOn(g, P)
  BY FS_Subset DEF IsIntOn
<1>3. (\A x \in P : h[x] = g[x]) /\ \A x \in S \ P : h[x] = 0
  BY DEF Filters
<1> HIDE DEF P
<1>4. SumFunctionOnSet(h, S) = SumFunctionOnSet(h, P) + SumFunctionOnSet(h, S \ P)
  BY <1>1, <1>2, SumDisjoint
<1>5. SumFunctionOnSet(h, P) = SumFunctionOnSet(g, P)
  BY <1>2, <1>3, SumCongruent
<1>6. SumFunctionOnSet(h, S \ P) = 0
  BY <1>2, <1>3, SumZero
<1>7. SumFunctionOnSet(g, P) \in Int
  BY <1>2, SumType
<1>8. QED
  BY <1>1, <1>4, <1>5, <1>6, <1>7 DEF P

\* A set has as many elements as ones that add up over it.
LEMMA CountIsSum ==
    ASSUME NEW S, IsFiniteSet(S), NEW one, \A x \in S : one[x] = 1
    PROVE  SumFunctionOnSet(one, S) = Cardinality(S)
<1> DEFINE Good == {T \in SUBSET S : SumFunctionOnSet(one, T) = Cardinality(T)}
<1>1. ASSUME NEW T \in SUBSET S, \A U \in SUBSET T : U # T => U \in Good
      PROVE  T \in Good
  <2>1. CASE T = {}
    BY <2>1, SumEmpty, FS_EmptySet
  <2>2. CASE T # {}
    <3>1. PICK x \in T : TRUE
      BY <2>2
    <3>2. IsFiniteSet(T) /\ IsIntOn(one, T)
      BY FS_Subset DEF IsIntOn
    <3>3. SumFunctionOnSet(one, T) = 1 + SumFunctionOnSet(one, T \ {x})
      BY <3>1, <3>2, SumRemove
    <3>4. SumFunctionOnSet(one, T \ {x}) = Cardinality(T \ {x})
      BY <1>1, <3>1
    <3>5. Cardinality(T) \in Nat /\ Cardinality(T \ {x}) = Cardinality(T) - 1
      BY <3>1, <3>2, FS_RemoveElement, FS_CardinalityType
    <3>6. QED
      BY <3>3, <3>4, <3>5
  <2>3. QED
    BY <2>1, <2>2
<1>2. SUBSET S \subseteq Good
  <2> HIDE DEF Good
  <2> QED
    BY <1>1, SubsetInduction
<1>3. QED
  BY <1>2

\* The elements of S in groups, and what those of each group add up to.
GroupsOf(S, key) == {key[x] : x \in S}

AddsUpGroups(total, S, g, key) ==
    \A k \in GroupsOf(S, key) :
        total[k] = SumFunctionOnSet(g, {x \in S : key[x] = k})

\* What the elements of each group add up to adds up over the groups to the sum
\* over all the elements.
LEMMA SumOfGroups ==
    ASSUME NEW S, IsFiniteSet(S), NEW g, IsIntOn(g, S), NEW key, NEW total,
           AddsUpGroups(total, S, g, key)
    PROVE  SumFunctionOnSet(total, GroupsOf(S, key)) = SumFunctionOnSet(g, S)
<1> DEFINE K == {key[x] : x \in S}
           In(L) == {x \in S : key[x] \in L}
           sum(T) == SumFunctionOnSet(g, T)
           Good == {L \in SUBSET K : SumFunctionOnSet(total, L) = sum(In(L))}
<1>0. /\ GroupsOf(S, key) = K
      /\ \A k \in K : total[k] = SumFunctionOnSet(g, {x \in S : key[x] = k})
  BY DEF AddsUpGroups, GroupsOf
<1>1. \A T \in SUBSET S : IsFiniteSet(T) /\ IsIntOn(g, T) /\ sum(T) \in Int
  BY FS_Subset, SumType DEF IsIntOn
<1>2. IsFiniteSet(K) /\ \A k \in K : total[k] \in Int
  <2>1. IsFiniteSet(K)
    <3> DEFINE f == [x \in S |-> key[x]]
    <3>1. f \in Surjection(S, K)
      BY DEF Surjection
    <3>2. QED
      BY <3>1, FS_Surjection
  <2>2. ASSUME NEW k \in K PROVE total[k] \in Int
    <3>1. {x \in S : key[x] = k} \in SUBSET S
      OBVIOUS
    <3>2. QED
      BY <1>0, <1>1, <3>1
  <2>3. QED
    BY <2>1, <2>2
<1>3. ASSUME NEW L \in SUBSET K, \A U \in SUBSET L : U # L => U \in Good
      PROVE  L \in Good
  <2>1. CASE L = {}
    <3>1. In(L) = {}
      BY <2>1
    <3>2. QED
      BY <2>1, <3>1, SumEmpty
  <2>2. CASE L # {}
    <3>1. PICK k \in L : TRUE
      BY <2>2
    <3>2. IsFiniteSet(L) /\ IsIntOn(total, L)
      BY <1>2, FS_Subset DEF IsIntOn
    <3>3. SumFunctionOnSet(total, L) = total[k] + SumFunctionOnSet(total, L \ {k})
      BY <3>1, <3>2, SumRemove
    <3>4. SumFunctionOnSet(total, L \ {k}) = sum(In(L \ {k}))
      BY <1>3, <3>1
    <3> DEFINE P == {x \in S : key[x] = k}
    <3>5. P \in SUBSET In(L) /\ In(L) \ P = In(L \ {k}) /\ In(L) \in SUBSET S
      BY <3>1
    <3>6. sum(In(L)) = sum(P) + sum(In(L) \ P)
      BY <1>1, <3>5, SumDisjoint
    <3>7. total[k] = sum(P)
      BY <1>0, <3>1
    <3>8. QED
      BY <3>3, <3>4, <3>5, <3>6, <3>7
  <2>3. QED
    BY <2>1, <2>2
<1>4. SUBSET K \subseteq Good
  <2> HIDE DEF Good, K
  <2> QED
    BY <1>2, <1>3, SubsetInduction
<1>5. K \in Good
  <2> HIDE DEF Good
  <2> QED
    BY <1>4
<1>6. In(K) = S
  OBVIOUS
<1>7. QED
  BY <1>0, <1>5, <1>6

-----------------------------------------------------------------------------
(* FoldLeft goes from the least index to the largest.                      *)

\* A finite set of integers that is not empty has a largest element.
LEMMA MaxExists ==
    ASSUME NEW S, IsFiniteSet(S), S \subseteq Int
    PROVE  \A T \in SUBSET S : T # {} =>
              Max(T) \in T /\ \A y \in T : Max(T) >= y
<1> DEFINE Good == {T \in SUBSET S : T # {} => \E x \in T : \A y \in T : x >= y}
<1>1. ASSUME NEW T \in SUBSET S, \A U \in SUBSET T : U # T => U \in Good
      PROVE  T \in Good
  <2> SUFFICES ASSUME T # {} PROVE \E x \in T : \A y \in T : x >= y
    OBVIOUS
  <2>1. PICK z \in T : TRUE
    OBVIOUS
  <2>2. CASE T \ {z} = {}
    BY <2>1, <2>2
  <2>3. CASE T \ {z} # {}
    <3>0. T \ {z} \in Good
      BY <1>1, <2>1
    <3>1. PICK x \in T \ {z} : \A y \in T \ {z} : x >= y
      BY <2>3, <3>0
    <3>2. x \in Int /\ z \in Int /\ \A y \in T : y \in Int
      BY <2>1, <3>1
    <3>3. CASE x >= z
      BY <3>1, <3>3
    <3>4. CASE ~(x >= z)
      <4>1. \A y \in T : z >= y
        BY <3>1, <3>2, <3>4
      <4>2. QED
        BY <2>1, <4>1
    <3>5. QED
      BY <3>3, <3>4
  <2>4. QED
    BY <2>2, <2>3
<1>2. SUBSET S \subseteq Good
  <2> HIDE DEF Good
  <2> QED
    BY <1>1, SubsetInduction
<1>3. QED
  BY <1>2 DEF Max

\* h folds digits into a number: g[i] for each i of s, from the least on.
IsDecimal(h, I, g) ==
    \A s \in SUBSET I :
        h[s] = IF s = {} THEN 0 ELSE 10 * h[s \ {Max(s)}] + g[Max(s)]

\* FoldLeft's definition of it.
Decimal(I, g) ==
    CHOOSE h : h = [s \in SUBSET I |->
                      IF s = {} THEN 0 ELSE 10 * h[s \ {Max(s)}] + g[Max(s)]]

\* The definition has a solution, a natural number for each s, ...
LEMMA DecimalDefined ==
    ASSUME NEW I, IsFiniteSet(I), I \subseteq Int, NEW g, \A i \in I : g[i] \in Nat
    PROVE  IsDecimal(Decimal(I, g), I, g) /\ Decimal(I, g)[I] \in Nat
<1>0. PICK fold : fold = Decimal(I, g)
  OBVIOUS
<1>c. PICK choose : choose = [s \in SUBSET I |-> Max(s)]
  OBVIOUS
<1>3. \A s \in SUBSET I : s # {} => choose[s] \in s /\ choose[s] = Max(s)
  BY <1>c, MaxExists
<1>d. PICK step : step = [i \in I |-> [v \in Nat |-> 10 * v + g[i]]]
  OBVIOUS
<1>4. /\ step \in [I -> [Nat -> Nat]]
      /\ \A i \in I, v \in Nat : step[i][v] = 10 * v + g[i]
  BY <1>d
<1>5. PICK h \in [SUBSET I -> Nat] : IsFold(h, I, 0, step, choose)
  <2>1. PICK V, zero : V = Nat /\ zero = 0
    OBVIOUS
  <2>2. zero \in V /\ step \in [I -> [V -> V]]
    BY <1>4, <2>1
  <2>3. Chooses(choose, I)
    BY <1>3 DEF Chooses
  <2>4. \E h \in [SUBSET I -> V] : IsFold(h, I, zero, step, choose)
    BY <2>2, <2>3, FoldExists
  <2>5. QED
    BY <2>1, <2>4
<1>6. ASSUME NEW s \in SUBSET I
      PROVE  h[s] = IF s = {} THEN 0 ELSE 10 * h[s \ {Max(s)}] + g[Max(s)]
  <2>1. CASE s = {}
    BY <1>5, <2>1 DEF IsFold
  <2>2. CASE s # {}
    <3>1. choose[s] = Max(s) /\ Max(s) \in I /\ s \ {Max(s)} \in SUBSET I
      BY <1>3, <2>2
    <3>2. h[s] = step[Max(s)][h[s \ {Max(s)}]]
      BY <1>5, <2>2, <3>1 DEF IsFold
    <3>3. h[s \ {Max(s)}] \in Nat
      BY <3>1
    <3>4. QED
      BY <1>4, <2>2, <3>1, <3>2, <3>3
  <2>3. QED
    BY <2>1, <2>2
<1>7. h = [s \in SUBSET I |-> IF s = {} THEN 0 ELSE 10 * h[s \ {Max(s)}] + g[Max(s)]]
  BY <1>6
<1>8. fold = [s \in SUBSET I |->
                IF s = {} THEN 0 ELSE 10 * fold[s \ {Max(s)}] + g[Max(s)]]
  BY <1>0, <1>7 DEF Decimal
<1>9. ASSUME NEW s \in SUBSET I, s # {}, fold[s \ {choose[s]}] = h[s \ {choose[s]}]
      PROVE  fold[s] = h[s]
  <2>1. choose[s] = Max(s)
    BY <1>3, <1>9
  <2>2. fold[s] = 10 * fold[s \ {Max(s)}] + g[Max(s)]
    BY <1>8, <1>9
  <2>3. h[s] = 10 * h[s \ {Max(s)}] + g[Max(s)]
    BY <1>6, <1>9
  <2>4. QED
    BY <1>9, <2>1, <2>2, <2>3
<1>10. fold[{}] = h[{}]
  <2>1. {} \in SUBSET I
    OBVIOUS
  <2>2. fold[{}] = 0 /\ h[{}] = 0
    BY <1>6, <1>8, <2>1
  <2>3. QED
    BY <2>2
<1>11. \A s \in SUBSET I : fold[s] = h[s]
  <2>1. Chooses(choose, I)
    BY <1>3 DEF Chooses
  <2>2. Follows(fold, h, I, choose)
    BY <1>9, <1>10 DEF Follows
  <2>3. \A k : Follows(fold, k, I, choose) => \A s \in SUBSET I : fold[s] = k[s]
    BY <2>1, SameFromFewer
  <2>4. QED
    BY <2>2, <2>3
<1>12. fold[I] \in Nat
  BY <1>11
<1>13. IsDecimal(fold, I, g)
  BY <1>8 DEF IsDecimal
<1>14. QED
  BY <1>0, <1>12, <1>13

\* The digits f at the places J have the digits g at the places I among them.
Includes(J, f, I, g) ==
    /\ IsFiniteSet(J) /\ J \subseteq Int /\ I \in SUBSET J
    /\ \A i \in I : g[i] = f[i]

\* ... which only depends on what it folds.
LEMMA DecimalUnique ==
    ASSUME NEW J, NEW I, NEW g, NEW f, Includes(J, f, I, g),
           NEW h, IsDecimal(h, I, g), NEW k, IsDecimal(k, J, f)
    PROVE  h[I] = k[I]
<1>0. /\ IsFiniteSet(J) /\ J \subseteq Int /\ I \in SUBSET J
      /\ \A i \in I : g[i] = f[i]
  BY DEF Includes
<1>1. PICK choose : choose = [s \in SUBSET I |-> Max(s)]
  OBVIOUS
<1>2. \A s \in SUBSET I : s # {} => choose[s] \in s /\ choose[s] = Max(s)
  BY <1>0, <1>1, MaxExists
<1>3. ASSUME NEW s \in SUBSET I, s # {}, h[s \ {choose[s]}] = k[s \ {choose[s]}]
      PROVE  h[s] = k[s]
  <2>1. choose[s] \in I /\ choose[s] = Max(s) /\ g[choose[s]] = f[choose[s]]
    BY <1>0, <1>2, <1>3
  <2>2. h[s] = 10 * h[s \ {choose[s]}] + g[choose[s]]
    BY <1>3, <2>1 DEF IsDecimal
  <2>3. s \in SUBSET J
    BY <1>0
  <2>4. k[s] = 10 * k[s \ {choose[s]}] + f[choose[s]]
    BY <1>3, <2>1, <2>3 DEF IsDecimal
  <2>5. QED
    BY <1>3, <2>1, <2>2, <2>4
<1>4. h[{}] = k[{}]
  <2>1. {} \in SUBSET I /\ {} \in SUBSET J
    OBVIOUS
  <2>2. h[{}] = 0 /\ k[{}] = 0
    BY <2>1 DEF IsDecimal
  <2>3. QED
    BY <2>2
<1>5. IsFiniteSet(I) /\ Chooses(choose, I) /\ Follows(h, k, I, choose)
  BY <1>0, <1>2, <1>3, <1>4, FS_Subset DEF Chooses, Follows
<1>6. QED
  BY <1>5, SameFromFewer

-----------------------------------------------------------------------------
(* Remainders.                                                             *)

\* Division leaves a remainder below the modulus.
LEMMA DivMod ==
    ASSUME NEW m \in Nat \ {0}, NEW x \in Int
    PROVE  /\ x \div m \in Int /\ x % m \in 0 .. m - 1
           /\ x = m * (x \div m) + (x % m)
OBVIOUS

\* A remainder differs from its dividend by a multiple of the modulus.
LEMMA Quotient ==
    ASSUME NEW m \in Nat \ {0}, NEW x \in Int
    PROVE  \E q \in Int : x % m = x - m * q
<1> DEFINE d == x \div m
           r == x % m
           k == m * d
<1>1. d \in Int /\ r \in 0 .. m - 1 /\ x = k + r /\ k \in Int
  BY DivMod
<1>2. r = x - k
  <2> HIDE DEF d, r, k
  <2> QED
    BY <1>1
<1>3. QED
  BY <1>1, <1>2

\* ... and is the only one below the modulus that does.
LEMMA ModUnique ==
    ASSUME NEW m \in Nat \ {0}, NEW q \in Int, NEW r \in 0 .. m - 1
    PROVE  (m * q + r) % m = r
OBVIOUS

\* Adding multiples of the modulus does not change a remainder.
LEMMA ModPlus ==
    ASSUME NEW m \in Nat \ {0}, NEW x \in Int, NEW q \in Int
    PROVE  (x + m * q) % m = x % m
<1> DEFINE d == x \div m
           r == x % m
<1>1. d \in Int /\ r \in 0 .. m - 1 /\ x = m * d + r
  BY DivMod
<1> HIDE DEF d, r
<1>2. x + m * q = m * (d + q) + r
  BY <1>1
<1>3. (m * (d + q) + r) % m = r
  BY <1>1, ModUnique
<1>4. QED
  BY <1>2, <1>3 DEF r
=============================================================================
