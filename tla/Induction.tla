------------------------------ MODULE Induction ------------------------------
(***************************************************************************)
(* Induction stated with sets instead of predicates, so that the provers   *)
(* can apply it: to show P(n) for every n, a proof names the set of the    *)
(* numbers of which P holds.  All of it rests on the fact that a set of    *)
(* naturals that is not empty has a least element.                         *)
(***************************************************************************)
EXTENDS Integers, SequencesExt, FiniteSetTheorems, SequenceTheorems, WellFoundedInduction,
        TLAPS

(* A set of naturals that is not empty has a least element.                *)
LEMMA LeastNumber ==
  ASSUME NEW T, T \subseteq Nat, T # {}
  PROVE  \E m \in T : \A n \in T : m <= n
<1> DEFINE less == OpToRel(<, Nat)
<1>1. IsWellFoundedOn(less, Nat)
  BY NatLessThanWellFounded
<1>2. \A x, y \in Nat : y < x => <<y, x>> \in less
  BY Zenon DEF OpToRel
<1> HIDE DEF less
<1>3. \E x \in T : \A y \in T : ~(<<y, x>> \in less)
  BY <1>1, WFMin
<1>4. PICK x \in T : \A y \in T : ~(<<y, x>> \in less)
  BY <1>3
<1>5. ASSUME NEW n \in T PROVE x <= n
  <2>1. x \in Nat /\ n \in Nat /\ ~(n < x)
    BY <1>2, <1>4, <1>5, Zenon
  <2> QED
    BY <2>1
<1> QED
  BY <1>5

(* A set that holds a number whenever it holds all smaller ones holds all. *)
LEMMA StrongInduction ==
  ASSUME NEW S, \A n \in Nat : (\A k \in 0 .. n - 1 : k \in S) => n \in S
  PROVE  \A n \in Nat : n \in S
<1> SUFFICES ASSUME Nat \ S # {} PROVE FALSE
  OBVIOUS
<1>1. PICK m \in Nat \ S : \A n \in Nat \ S : m <= n
  BY LeastNumber
<1>2. ASSUME NEW k \in 0 .. m - 1 PROVE k \in S
  <2>1. k \in Nat /\ ~(m <= k)
    OBVIOUS
  <2> QED
    BY <2>1, <1>1
<1> QED
  BY <1>1, <1>2

(* A set that holds 0 and the successor of every number it holds.          *)
LEMMA UpwardInduction ==
  ASSUME NEW S, 0 \in S, \A n \in Nat : n \in S => n + 1 \in S
  PROVE  \A n \in Nat : n \in S
<1>1. ASSUME NEW n \in Nat, \A k \in 0 .. n - 1 : k \in S PROVE n \in S
  <2>1. CASE n = 0
    BY <2>1
  <2>2. CASE n # 0
    <3>1. n - 1 \in Nat /\ n - 1 \in 0 .. n - 1 /\ (n - 1) + 1 = n
      BY <2>2
    <3> QED
      BY <3>1, <1>1
  <2> QED
    BY <2>1, <2>2
<1> QED
  BY <1>1, StrongInduction

(* A set that holds every position of which it holds all later ones.       *)
LEMMA DownwardInduction ==
  ASSUME NEW N \in Nat, NEW S, \A c \in 1 .. N : (\A k \in c + 1 .. N : k \in S) => c \in S
  PROVE  \A c \in 1 .. N : c \in S
<1> DEFINE R == {n \in Nat : n < N => N - n \in S}
<1>1. ASSUME NEW n \in Nat, \A k \in 0 .. n - 1 : k \in R PROVE n \in R
  <2> SUFFICES ASSUME n < N PROVE N - n \in S
    OBVIOUS
  <2>1. ASSUME NEW k \in (N - n) + 1 .. N PROVE k \in S
    <3>1. N - k \in 0 .. n - 1 /\ N - k < N /\ N - (N - k) = k
      OBVIOUS
    <3> QED
      BY <1>1, <3>1
  <2>2. N - n \in 1 .. N
    OBVIOUS
  <2> QED
    BY <2>1, <2>2
<1> HIDE DEF R
<1>2. \A n \in Nat : n \in R
  BY <1>1, StrongInduction
<1>3. ASSUME NEW c \in 1 .. N PROVE c \in S
  <2>1. N - c \in Nat /\ N - c < N /\ N - (N - c) = c
    OBVIOUS
  <2> QED
    BY <1>2, <2>1 DEF R
<1> QED
  BY <1>3

(* A family of sets that holds the empty set, and every part of S of which *)
(* it holds all that is left when one element is taken out, holds S and    *)
(* all its parts.                                                          *)
LEMMA FiniteInduction ==
  ASSUME NEW S, IsFiniteSet(S), NEW C, {} \in C,
         \A T \in SUBSET S : T # {} /\ (\A x \in T : T \ {x} \in C) => T \in C
  PROVE  \A T \in SUBSET S : T \in C
<1> DEFINE Sizes == {n \in Nat : \A T \in SUBSET S : Cardinality(T) = n => T \in C}
<1>1. \A T \in SUBSET S : IsFiniteSet(T) /\ Cardinality(T) \in Nat
  BY FS_Subset, FS_CardinalityType
<1>2. 0 \in Sizes
  BY <1>1, FS_EmptySet
<1>3. ASSUME NEW n \in Nat, n \in Sizes PROVE n + 1 \in Sizes
  <2> SUFFICES ASSUME NEW T \in SUBSET S, Cardinality(T) = n + 1 PROVE T \in C
    OBVIOUS
  <2> HIDE DEF Sizes
  <2>1. T # {}
    <3>1. Cardinality({}) = 0 /\ n + 1 # 0
      BY FS_EmptySet
    <3> QED
      BY <3>1
  <2>2. ASSUME NEW x \in T PROVE T \ {x} \in C
    <3>1. IsFiniteSet(T)
      BY <1>1
    <3>2. Cardinality(T \ {x}) = Cardinality(T) - 1
      BY <3>1, FS_RemoveElement
    <3> QED
      BY <3>2, <1>3 DEF Sizes
  <2> QED
    BY <2>1, <2>2
<1> HIDE DEF Sizes
<1>4. \A n \in Nat : n \in Sizes
  BY <1>2, <1>3, UpwardInduction
<1> QED
  BY <1>1, <1>4 DEF Sizes

-----------------------------------------------------------------------------
(* The folds of the community modules are defined by recursion over the    *)
(* parts of a set, one element taken out at a time: by this rule.          *)
FoldRule(op, base, S, g) ==
    [s \in SUBSET S |-> IF s = {} THEN base
                       ELSE LET x == CHOOSE y \in s : TRUE IN op[x][g[s \ {x}]]]

Steps(S, V) == [S -> [V -> V]]

HasFold(op, base, S, V) == \E g \in [SUBSET S -> V] : g = FoldRule(op, base, S, g)

(* For a finite set there is a function that follows it.                   *)
LEMMA FoldExists ==
  ASSUME NEW S, NEW V, NEW base \in V, NEW op \in Steps(S, V), IsFiniteSet(S)
  PROVE  HasFold(op, base, S, V)
<1> DEFINE Small(n) == {s \in SUBSET S : Cardinality(s) <= n}
           picked(s) == CHOOSE y \in s : TRUE
           Value(g, s) == IF s = {} THEN base ELSE op[picked(s)][g[s \ {picked(s)}]]
           Follows(g, n) == \A s \in Small(n) : g[s] = Value(g, s)
           Sizes == {n \in Nat : \E g \in [Small(n) -> V] : Follows(g, n)}
<1>1. \A s \in SUBSET S : IsFiniteSet(s) /\ Cardinality(s) \in Nat
  BY FS_Subset, FS_CardinalityType
<1>2. \A s \in SUBSET S : s # {} => picked(s) \in s
  OBVIOUS
<1>3. \A s \in SUBSET S : s # {} => Cardinality(s \ {picked(s)}) = Cardinality(s) - 1
  BY <1>1, <1>2, FS_RemoveElement
<1>4. 0 \in Sizes
  <2>1. Small(0) = {{}}
    BY <1>1, FS_EmptySet
  <2> DEFINE g == [s \in Small(0) |-> base]
  <2>2. g \in [Small(0) -> V] /\ Follows(g, 0)
    BY <2>1
  <2> HIDE DEF g, Small, Follows
  <2> QED
    BY <2>2
<1>5. ASSUME NEW n \in Nat, n \in Sizes PROVE n + 1 \in Sizes
  <2>1. PICK g \in [Small(n) -> V] : Follows(g, n)
    BY <1>5
  <2> DEFINE h == [s \in Small(n + 1) |-> IF s \in Small(n) THEN g[s] ELSE Value(g, s)]
  <2>2. \A s \in Small(n + 1) : s # {} =>
           /\ picked(s) \in S /\ s \ {picked(s)} \in Small(n)
    BY <1>1, <1>2, <1>3
  <2>3. \A s \in Small(n + 1) : Value(g, s) \in V
    <3> HIDE DEF Small, picked
    <3> QED
      BY <2>2 DEF Steps
  <2>4. h \in [Small(n + 1) -> V]
    BY <2>3
  <2>5. \A s \in Small(n) : h[s] = g[s]
    BY <1>1
  <2>6. ASSUME NEW s \in Small(n + 1) PROVE h[s] = Value(h, s)
    <3>1. h[s] = Value(g, s)
      BY <2>1
    <3>2. s # {} => h[s \ {picked(s)}] = g[s \ {picked(s)}]
      BY <2>2, <2>5
    <3> HIDE DEF h, picked
    <3> QED
      BY <3>1, <3>2
  <2>7. Follows(h, n + 1)
    <3> HIDE DEF h, Value
    <3> QED
      BY <2>6
  <2> HIDE DEF h, Small, Follows
  <2> QED
    BY <2>4, <2>7
<1> HIDE DEF Sizes
<1>6. \A n \in Nat : n \in Sizes
  BY <1>4, <1>5, UpwardInduction
<1>7. Cardinality(S) \in Nat /\ Small(Cardinality(S)) = SUBSET S
  BY FS_CardinalityType, FS_Subset
<1>8. PICK g \in [Small(Cardinality(S)) -> V] : Follows(g, Cardinality(S))
  <2> HIDE DEF Small, Follows
  <2> QED
    BY <1>6, <1>7 DEF Sizes
<1>9. g \in [SUBSET S -> V] /\ \A s \in SUBSET S : g[s] = Value(g, s)
  BY <1>7, <1>8
<1>10. g = FoldRule(op, base, S, g)
  BY <1>9 DEF FoldRule
<1> QED
  BY <1>9, <1>10 DEF HasFold

(* The sum of the values of a function on a finite set is a number, and    *)
(* taking any one element out of the set takes its value out of the sum.   *)
SumRule(f, S, g) ==
    [s \in SUBSET S |-> IF s = {} THEN 0
                       ELSE LET x == CHOOSE y \in s : TRUE IN f[x] + g[s \ {x}]]

Sums(f, S, g) == g \in [SUBSET S -> Nat] /\ g = SumRule(f, S, g)

LEMMA SumExists ==
  ASSUME NEW S, IsFiniteSet(S), NEW f, \A x \in S : f[x] \in Nat
  PROVE  \E g : Sums(f, S, g)
<1> DEFINE op == [x \in S |-> [n \in Nat |-> f[x] + n]]
<1>1. op \in Steps(S, Nat) /\ 0 \in Nat
  BY DEF Steps
<1>2. \A x \in S : \A n \in Nat : op[x][n] = f[x] + n
  OBVIOUS
<1> HIDE DEF op
<1>3. PICK g \in [SUBSET S -> Nat] : g = FoldRule(op, 0, S, g)
  <2>1. HasFold(op, 0, S, Nat)
    BY <1>1, FoldExists
  <2> QED
    BY <2>1 DEF HasFold
<1>4. \A s \in SUBSET S : s # {} =>
         LET x == CHOOSE y \in s : TRUE IN x \in S /\ op[x][g[s \ {x}]] = f[x] + g[s \ {x}]
  BY <1>2
<1>5. SumRule(f, S, g) = FoldRule(op, 0, S, g)
  BY <1>4 DEF SumRule, FoldRule
<1> QED
  BY <1>3, <1>5 DEF Sums

TakesOut(f, S, g) == \A T \in SUBSET S : \A x \in T : g[T] = f[x] + g[T \ {x}]

LEMMA SumTakesOut ==
  ASSUME NEW S, NEW f, NEW g, IsFiniteSet(S), \A x \in S : f[x] \in Nat, Sums(f, S, g)
  PROVE  TakesOut(f, S, g)
<1> USE DEF Sums
<1> DEFINE C == {T \in SUBSET S : \A x \in T : g[T] = f[x] + g[T \ {x}]}
<1>1. {} \in C
  OBVIOUS
<1>2. ASSUME NEW T \in SUBSET S, T # {}, \A x \in T : T \ {x} \in C PROVE T \in C
  <2>1. PICK c \in T : g[T] = f[c] + g[T \ {c}]
    <3>1. g[T] = SumRule(f, S, g)[T]
      OBVIOUS
    <3>2. SumRule(f, S, g)[T] = LET x == CHOOSE y \in T : TRUE IN f[x] + g[T \ {x}]
      BY <1>2 DEF SumRule
    <3> QED
      BY <1>2, <3>1, <3>2
  <2>2. ASSUME NEW x \in T, x # c PROVE g[T] = f[x] + g[T \ {x}]
    <3>1. g[T \ {c}] = f[x] + g[(T \ {c}) \ {x}]
      BY <1>2, <2>2
    <3>2. g[T \ {x}] = f[c] + g[(T \ {x}) \ {c}]
      BY <1>2, <2>2
    <3>3. (T \ {c}) \ {x} = (T \ {x}) \ {c}
      OBVIOUS
    <3>4. PICK n \in Nat : n = g[(T \ {c}) \ {x}]
      OBVIOUS
    <3>5. f[c] \in Nat /\ f[x] \in Nat
      OBVIOUS
    <3>6. g[T] = f[c] + (f[x] + n) /\ g[T \ {x}] = f[c] + n
      BY <2>1, <3>1, <3>2, <3>3, <3>4
    <3>7. f[c] + (f[x] + n) = f[x] + (f[c] + n)
      BY <3>5
    <3> QED
      BY <3>6, <3>7
  <2> QED
    BY <2>1, <2>2
<1> HIDE DEF C
<1>3. \A T \in SUBSET S : T \in C
  BY <1>1, <1>2, FiniteInduction
<1> QED
  BY <1>3 DEF C, TakesOut

(* Functions that agree on a set have the same sum over it.                *)
LEMMA SumsAgree ==
  ASSUME NEW S, IsFiniteSet(S), NEW T \in SUBSET S, NEW f, NEW h,
         \A x \in T : f[x] = h[x],
         NEW g, g = SumRule(f, S, g), NEW k, k = SumRule(h, T, k)
  PROVE  \A s \in SUBSET T : g[s] = k[s]
<1> DEFINE C == {s \in SUBSET T : g[s] = k[s]}
<1>1. IsFiniteSet(T)
  BY FS_Subset
<1>2. \A s \in SUBSET T :
         /\ g[s] = IF s = {} THEN 0 ELSE LET x == CHOOSE y \in s : TRUE IN f[x] + g[s \ {x}]
         /\ k[s] = IF s = {} THEN 0 ELSE LET x == CHOOSE y \in s : TRUE IN h[x] + k[s \ {x}]
  BY DEF SumRule
<1>3. {} \in C
  BY <1>2
<1>4. ASSUME NEW s \in SUBSET T, s # {}, \A x \in s : s \ {x} \in C PROVE s \in C
  <2>1. PICK x : x = CHOOSE y \in s : TRUE
    OBVIOUS
  <2>2. x \in s
    BY <1>4, <2>1
  <2>3. g[s] = f[x] + g[s \ {x}] /\ k[s] = h[x] + k[s \ {x}]
    BY <1>2, <1>4, <2>1
  <2>4. f[x] = h[x] /\ g[s \ {x}] = k[s \ {x}]
    BY <1>4, <2>2
  <2> QED
    BY <2>3, <2>4
<1> HIDE DEF C
<1>5. \A s \in SUBSET T : s \in C
  BY <1>1, <1>3, <1>4, FiniteInduction
<1> QED
  BY <1>5 DEF C

(* The library's sum over a set is the value there of any function that    *)
(* follows the rule on a larger one.                                       *)
LEMMA SumIs ==
  ASSUME NEW S, IsFiniteSet(S), NEW f, NEW T \in SUBSET S, \A x \in T : f[x] \in Nat,
         NEW h, \A x \in T : f[x] = h[x], NEW g, g = SumRule(h, S, g)
  PROVE  SumFunctionOnSet(f, T) = g[T]
<1>1. SumFunctionOnSet(f, T) = (CHOOSE k : k = SumRule(f, T, k))[T]
  BY DEF SumFunctionOnSet, FoldFunctionOnSet, MapThenFoldSet, SumRule
<1>2. IsFiniteSet(T)
  BY FS_Subset
<1>3. \E k : k = SumRule(f, T, k)
  BY <1>2, SumExists DEF Sums
<1>4. PICK k : k = SumRule(f, T, k) /\ SumFunctionOnSet(f, T) = k[T]
  BY <1>1, <1>3
<1>5. \A s \in SUBSET T : g[s] = k[s]
  BY <1>4, SumsAgree
<1> QED
  BY <1>4, <1>5

LEMMA SumOverSet ==
  ASSUME NEW S, IsFiniteSet(S), NEW f, \A x \in S : f[x] \in Nat
  PROVE  /\ SumFunctionOnSet(f, S) \in Nat
         /\ S = {} => SumFunctionOnSet(f, S) = 0
         /\ \A x \in S : SumFunctionOnSet(f, S) = f[x] + SumFunctionOnSet(f, S \ {x})
<1>1. PICK g : Sums(f, S, g)
  BY SumExists
<1>2. ASSUME NEW T \in SUBSET S PROVE SumFunctionOnSet(f, T) = g[T]
  BY <1>1, SumIs DEF Sums
<1>3. \A x \in S : g[S] = f[x] + g[S \ {x}]
  <2>1. TakesOut(f, S, g)
    BY <1>1, SumTakesOut
  <2> QED
    BY <2>1 DEF TakesOut
<1>4. S = {} => g[S] = 0
  BY <1>1 DEF SumRule, Sums
<1> QED
  BY <1>1, <1>2, <1>3, <1>4 DEF Sums

LEMMA SumOfAgreeing ==
  ASSUME NEW S, IsFiniteSet(S), NEW f, NEW h, \A x \in S : f[x] \in Nat /\ f[x] = h[x]
  PROVE  SumFunctionOnSet(f, S) = SumFunctionOnSet(h, S)
<1>1. PICK g : Sums(h, S, g)
  <2>1. \A x \in S : h[x] \in Nat
    OBVIOUS
  <2> QED
    BY <2>1, SumExists
<1>2. SumFunctionOnSet(f, S) = g[S]
  BY <1>1, SumIs DEF Sums
<1>3. SumFunctionOnSet(h, S) = g[S]
  BY <1>1, SumIs DEF Sums
<1> QED
  BY <1>2, <1>3

(* Changing the function at one element changes the sum by as much.        *)
LEMMA SumChangesAt ==
  ASSUME NEW S, IsFiniteSet(S), NEW f, NEW h, NEW x \in S,
         \A y \in S : f[y] \in Nat /\ h[y] \in Nat, \A y \in S \ {x} : h[y] = f[y]
  PROVE  SumFunctionOnSet(h, S) = SumFunctionOnSet(f, S) - f[x] + h[x]
<1>1. PICK R : R = S \ {x}
  OBVIOUS
<1>2. IsFiniteSet(R) /\ R \subseteq S
  BY <1>1, FS_Subset
<1>3. SumFunctionOnSet(f, R) = SumFunctionOnSet(h, R)
  <2>1. \A y \in R : f[y] \in Nat /\ f[y] = h[y]
    BY <1>1, <1>2
  <2> QED
    BY <1>2, <2>1, SumOfAgreeing
<1>4. SumFunctionOnSet(f, R) \in Nat
  <2>1. \A y \in R : f[y] \in Nat
    BY <1>2
  <2> QED
    BY <1>2, <2>1, SumOverSet
<1>5. SumFunctionOnSet(f, S) = f[x] + SumFunctionOnSet(f, R)
  <2>1. \A y \in S : f[y] \in Nat
    OBVIOUS
  <2> QED
    BY <1>1, <2>1, SumOverSet
<1>6. SumFunctionOnSet(h, S) = h[x] + SumFunctionOnSet(h, R)
  <2>1. \A y \in S : h[y] \in Nat
    OBVIOUS
  <2> QED
    BY <1>1, <2>1, SumOverSet
<1>7. f[x] \in Nat /\ h[x] \in Nat
  OBVIOUS
<1> QED
  BY <1>3, <1>4, <1>5, <1>6, <1>7

(* Elements at which the function is zero do not count.                    *)
LEMMA SumOnSupport ==
  ASSUME NEW S, IsFiniteSet(S), NEW f, \A x \in S : f[x] \in Nat,
         NEW T \in SUBSET S, \A x \in S \ T : f[x] = 0
  PROVE  SumFunctionOnSet(f, S) = SumFunctionOnSet(f, T)
<1> DEFINE C == {Z \in SUBSET (S \ T) : SumFunctionOnSet(f, T \cup Z) = SumFunctionOnSet(f, T)}
           W == S \ T
<1>1. {} \in C
  <2>1. T \cup {} = T
    OBVIOUS
  <2> QED
    BY <2>1
<1>2. ASSUME NEW Z \in SUBSET W, Z # {}, \A x \in Z : Z \ {x} \in C PROVE Z \in C
  <2>1. PICK x \in Z : TRUE
    BY <1>2
  <2>2. PICK A : A = T \cup Z
    OBVIOUS
  <2>3. A \ {x} = T \cup (Z \ {x}) /\ x \in A /\ A \subseteq S
    BY <2>2
  <2>4. IsFiniteSet(A) /\ \A y \in A : f[y] \in Nat
    BY <2>3, FS_Subset
  <2>5. SumFunctionOnSet(f, A) = f[x] + SumFunctionOnSet(f, A \ {x})
    BY <2>3, <2>4, SumOverSet
  <2>6. SumFunctionOnSet(f, A \ {x}) = SumFunctionOnSet(f, T)
    BY <1>2, <2>3
  <2>7. f[x] = 0
    OBVIOUS
  <2>8. SumFunctionOnSet(f, T) \in Nat
    <3>1. IsFiniteSet(T) /\ \A y \in T : f[y] \in Nat
      BY FS_Subset
    <3> QED
      BY <3>1, SumOverSet
  <2> QED
    BY <2>2, <2>5, <2>6, <2>7, <2>8
<1> HIDE DEF C
<1>3. IsFiniteSet(W)
  BY FS_Subset
<1>4. \A Z \in SUBSET W : Z # {} /\ (\A x \in Z : Z \ {x} \in C) => Z \in C
  BY <1>2
<1> HIDE DEF W
<1>5. \A Z \in SUBSET W : Z \in C
  BY <1>1, <1>3, <1>4, FiniteInduction
<1>6. W \in C /\ T \cup W = S
  BY <1>5 DEF W
<1> QED
  BY <1>6 DEF C

LEMMA SumOfZeros ==
  ASSUME NEW S, IsFiniteSet(S), NEW f, \A x \in S : f[x] = 0
  PROVE  SumFunctionOnSet(f, S) = 0
<1>1. SumFunctionOnSet(f, S) = SumFunctionOnSet(f, {})
  <2>1. \A x \in S : f[x] \in Nat
    OBVIOUS
  <2>2. {} \in SUBSET S
    OBVIOUS
  <2> QED
    BY <2>1, <2>2, SumOnSupport
<1>2. IsFiniteSet({})
  BY FS_EmptySet
<1> QED
  BY <1>1, <1>2, SumOverSet

(* One of the summands is at most the sum.                                 *)
LEMMA SumBounds ==
  ASSUME NEW S, IsFiniteSet(S), NEW f, \A x \in S : f[x] \in Nat, NEW x \in S
  PROVE  f[x] <= SumFunctionOnSet(f, S)
<1>1. PICK R : R = S \ {x}
  OBVIOUS
<1>2. IsFiniteSet(R) /\ \A y \in R : f[y] \in Nat
  BY <1>1, FS_Subset
<1>3. SumFunctionOnSet(f, R) \in Nat
  BY <1>2, SumOverSet
<1>4. SumFunctionOnSet(f, S) = f[x] + SumFunctionOnSet(f, R)
  BY <1>1, SumOverSet
<1> QED
  BY <1>3, <1>4

-----------------------------------------------------------------------------
(* Sequences of sequences, laid end to end.                                *)
(* A set of sequences that holds the empty one, and a longer one with each *)
(* it holds, holds all.                                                    *)
LEMMA SeqInduction ==
  ASSUME NEW S, NEW C, << >> \in C, \A s \in Seq(S) : \A x \in S : s \in C => Append(s, x) \in C
  PROVE  \A s \in Seq(S) : s \in C
<1> DEFINE Sizes == {n \in Nat : \A s \in Seq(S) : Len(s) = n => s \in C}
<1>1. 0 \in Sizes
  <2>1. \A s \in Seq(S) : Len(s) = 0 => s = << >>
    OBVIOUS
  <2> QED
    BY <2>1
<1>2. ASSUME NEW n \in Nat, n \in Sizes PROVE n + 1 \in Sizes
  <2> SUFFICES ASSUME NEW s \in Seq(S), Len(s) = n + 1 PROVE s \in C
    OBVIOUS
  <2>1. PICK front : front = SubSeq(s, 1, n)
    OBVIOUS
  <2>2. front \in Seq(S) /\ Len(front) = n /\ s[n + 1] \in S
    BY <2>1
  <2>3. s = Append(front, s[n + 1])
    BY <2>1, <2>2
  <2>4. front \in C
    BY <1>2, <2>2
  <2> QED
    BY <2>2, <2>3, <2>4
<1> HIDE DEF Sizes
<1>3. \A n \in Nat : n \in Sizes
  BY <1>1, <1>2, UpwardInduction
<1>4. ASSUME NEW s \in Seq(S) PROVE s \in C
  <2>1. Len(s) \in Nat
    OBVIOUS
  <2> QED
    BY <1>3, <2>1 DEF Sizes
<1> QED
  BY <1>4

(* FlattenSeq follows this rule.                                           *)
FlatRule(seqs, g) ==
    [i \in 1 .. Len(seqs) |-> IF i = 1 THEN seqs[i] ELSE g[i - 1] \o seqs[i]]

LEMMA FlatExists ==
  ASSUME NEW S, NEW seqs \in Seq(Seq(S))
  PROVE  \E g \in [1 .. Len(seqs) -> Seq(S)] : g = FlatRule(seqs, g)
<1> DEFINE Value(g, i) == IF i = 1 THEN seqs[i] ELSE g[i - 1] \o seqs[i]
           Follows(g, n) == \A i \in 1 .. n : g[i] = Value(g, i)
           Sizes == {n \in Nat : n <= Len(seqs) => \E g \in [1 .. n -> Seq(S)] : Follows(g, n)}
<1>1. 0 \in Sizes
  <2>1. [i \in 1 .. 0 |-> << >>] \in [1 .. 0 -> Seq(S)]
    OBVIOUS
  <2>2. Follows([i \in 1 .. 0 |-> << >>], 0)
    OBVIOUS
  <2> HIDE DEF Follows
  <2> QED
    BY <2>1, <2>2
<1>2. ASSUME NEW n \in Nat, n \in Sizes PROVE n + 1 \in Sizes
  <2> SUFFICES ASSUME n + 1 <= Len(seqs)
               PROVE  \E g \in [1 .. n + 1 -> Seq(S)] : Follows(g, n + 1)
    <3> HIDE DEF Follows
    <3> QED
      OBVIOUS
  <2>1. PICK g \in [1 .. n -> Seq(S)] : Follows(g, n)
    <3> HIDE DEF Follows
    <3>1. n <= Len(seqs)
      OBVIOUS
    <3> QED
      BY <1>2, <3>1
  <2> DEFINE h == [i \in 1 .. n + 1 |-> IF i = n + 1 THEN Value(g, i) ELSE g[i]]
  <2>2. Value(g, n + 1) \in Seq(S)
    <3>1. seqs[n + 1] \in Seq(S)
      OBVIOUS
    <3>2. n # 0 => g[(n + 1) - 1] \in Seq(S)
      OBVIOUS
    <3> QED
      BY <3>1, <3>2
  <2>3. h \in [1 .. n + 1 -> Seq(S)]
    <3> HIDE DEF Value
    <3> QED
      BY <2>2
  <2>4. ASSUME NEW i \in 1 .. n + 1 PROVE h[i] = Value(h, i)
    <3>1. h[i] = Value(g, i)
      <4>1. CASE i = n + 1
        BY <4>1
      <4>2. CASE i # n + 1
        <5>1. i \in 1 .. n
          BY <4>2
        <5>2. g[i] = Value(g, i)
          BY <2>1, <5>1
        <5>3. h[i] = g[i]
          BY <4>2
        <5> QED
          BY <5>2, <5>3
      <4> QED
        BY <4>1, <4>2
    <3>2. i # 1 => h[i - 1] = g[i - 1]
      OBVIOUS
    <3> HIDE DEF h
    <3> QED
      BY <3>1, <3>2
  <2>5. Follows(h, n + 1)
    <3> HIDE DEF h, Value
    <3> QED
      BY <2>4
  <2> HIDE DEF h, Follows
  <2> QED
    BY <2>3, <2>5
<1> HIDE DEF Sizes
<1>3. \A n \in Nat : n \in Sizes
  BY <1>1, <1>2, UpwardInduction
<1>4. Len(seqs) \in Nat
  OBVIOUS
<1>5. PICK g \in [1 .. Len(seqs) -> Seq(S)] : Follows(g, Len(seqs))
  <2> HIDE DEF Follows
  <2> QED
    BY <1>3, <1>4 DEF Sizes
<1>6. g = FlatRule(seqs, g)
  BY <1>5 DEF FlatRule
<1> QED
  BY <1>6

(* What the rule says at one position.                                     *)
LEMMA FlatStep ==
  ASSUME NEW a, NEW g, g = FlatRule(a, g), NEW i \in 1 .. Len(a)
  PROVE  g[i] = IF i = 1 THEN a[i] ELSE g[i - 1] \o a[i]
<1> DEFINE value(k) == IF k = 1 THEN a[k] ELSE g[k - 1] \o a[k]
<1>1. g = [k \in 1 .. Len(a) |-> value(k)]
  BY DEF FlatRule
<1> HIDE DEF value
<1>2. g[i] = value(i)
  BY <1>1
<1> QED
  BY <1>2 DEF value

LEMMA FlatAgrees ==
  ASSUME NEW a, NEW b, NEW g, NEW h, NEW n \in Nat, Len(a) \in Nat, Len(b) \in Nat,
         n <= Len(a), n <= Len(b), \A i \in 1 .. n : a[i] = b[i],
         g = FlatRule(a, g), h = FlatRule(b, h)
  PROVE  \A i \in 1 .. n : g[i] = h[i]
<1> DEFINE Sizes == {i \in Nat : i \in 1 .. n => g[i] = h[i]}
<1>0. \A i \in 1 .. n : /\ g[i] = IF i = 1 THEN a[i] ELSE g[i - 1] \o a[i]
                        /\ h[i] = IF i = 1 THEN b[i] ELSE h[i - 1] \o b[i]
  <2> SUFFICES ASSUME NEW i \in 1 .. n
               PROVE  /\ g[i] = IF i = 1 THEN a[i] ELSE g[i - 1] \o a[i]
                      /\ h[i] = IF i = 1 THEN b[i] ELSE h[i - 1] \o b[i]
    OBVIOUS
  <2>1. i \in 1 .. Len(a) /\ i \in 1 .. Len(b)
    OBVIOUS
  <2> QED
    BY <2>1, FlatStep
<1>1. 0 \in Sizes
  OBVIOUS
<1>2. ASSUME NEW i \in Nat, i \in Sizes PROVE i + 1 \in Sizes
  <2> SUFFICES ASSUME i + 1 \in 1 .. n PROVE g[i + 1] = h[i + 1]
    OBVIOUS
  <2>1. CASE i = 0
    BY <1>0, <2>1
  <2>2. CASE i # 0
    <3>1. g[i] = h[i] /\ (i + 1) - 1 = i /\ i + 1 # 1
      BY <1>2, <2>2
    <3> QED
      BY <1>0, <3>1
  <2> QED
    BY <2>1, <2>2
<1> HIDE DEF Sizes
<1>3. \A i \in Nat : i \in Sizes
  BY <1>1, <1>2, UpwardInduction
<1> QED
  BY <1>3 DEF Sizes

LEMMA FlattenIs ==
  ASSUME NEW S, NEW seqs \in Seq(Seq(S)), Len(seqs) # 0, NEW g, g = FlatRule(seqs, g)
  PROVE  FlattenSeq(seqs) = g[Len(seqs)]
<1>1. FlattenSeq(seqs) = (CHOOSE f : f = FlatRule(seqs, f))[Len(seqs)]
  BY DEF FlattenSeq, FlatRule
<1>2. PICK f : f = FlatRule(seqs, f) /\ FlattenSeq(seqs) = f[Len(seqs)]
  <2>1. \E f : f = FlatRule(seqs, f)
    BY FlatExists
  <2> QED
    BY <1>1, <2>1
<1>3. Len(seqs) \in 1 .. Len(seqs) /\ Len(seqs) \in Nat
  OBVIOUS
<1>4. \A i \in 1 .. Len(seqs) : g[i] = f[i]
  BY <1>2, <1>3, FlatAgrees
<1> QED
  BY <1>2, <1>3, <1>4

(* Nothing flattened is nothing, and one more sequence goes to the end.    *)
LEMMA FlattenNone == FlattenSeq(<< >>) = << >>
BY DEF FlattenSeq

LEMMA FlattenAppend ==
  ASSUME NEW S, NEW seqs \in Seq(Seq(S)), NEW s \in Seq(S)
  PROVE  /\ FlattenSeq(seqs) \in Seq(S)
         /\ FlattenSeq(Append(seqs, s)) = FlattenSeq(seqs) \o s
<1>1. PICK t : t = Append(seqs, s)
  OBVIOUS
<1>2. t \in Seq(Seq(S)) /\ Len(t) = Len(seqs) + 1 /\ Len(t) # 0 /\ t[Len(t)] = s
  BY <1>1
<1>3. PICK h \in [1 .. Len(t) -> Seq(S)] : h = FlatRule(t, h)
  BY <1>2, FlatExists
<1>4. FlattenSeq(t) = h[Len(t)]
  BY <1>2, <1>3, FlattenIs
<1>5. h[Len(t)] = IF Len(t) = 1 THEN s ELSE h[Len(t) - 1] \o s
  <2>1. Len(t) \in 1 .. Len(t)
    BY <1>2
  <2>2. h[Len(t)] = IF Len(t) = 1 THEN t[Len(t)] ELSE h[Len(t) - 1] \o t[Len(t)]
    BY <1>3, <2>1, FlatStep
  <2> QED
    BY <1>2, <2>2
<1>6. CASE Len(seqs) = 0
  <2>1. seqs = << >>
    BY <1>6
  <2>2. FlattenSeq(t) = s
    BY <1>2, <1>4, <1>5, <1>6
  <2>3. FlattenSeq(seqs) = << >>
    BY <2>1, FlattenNone
  <2>4. << >> \in Seq(S) /\ << >> \o s = s
    OBVIOUS
  <2> QED
    BY <1>1, <2>2, <2>3, <2>4
<1>7. CASE Len(seqs) # 0
  <2>1. PICK g \in [1 .. Len(seqs) -> Seq(S)] : g = FlatRule(seqs, g)
    BY FlatExists
  <2>2. FlattenSeq(seqs) = g[Len(seqs)] /\ g[Len(seqs)] \in Seq(S)
    <3>1. FlattenSeq(seqs) = g[Len(seqs)]
      BY <1>7, <2>1, FlattenIs
    <3> QED
      BY <1>7, <2>1, <3>1
  <2>3. \A i \in 1 .. Len(seqs) : g[i] = h[i]
    <3>1. \A i \in 1 .. Len(seqs) : seqs[i] = t[i]
      BY <1>1
    <3>2. Len(seqs) \in Nat /\ Len(t) \in Nat /\ Len(seqs) <= Len(t) /\ Len(seqs) <= Len(seqs)
      BY <1>2
    <3> QED
      BY <1>3, <2>1, <3>1, <3>2, FlatAgrees
  <2>4. Len(t) # 1 /\ Len(t) - 1 = Len(seqs) /\ Len(seqs) \in 1 .. Len(seqs)
    BY <1>2, <1>7
  <2> QED
    BY <1>1, <1>4, <1>5, <2>2, <2>3, <2>4
<1> QED
  BY <1>6, <1>7

LEMMA FlattenTyped ==
  ASSUME NEW S, NEW seqs \in Seq(Seq(S))
  PROVE  FlattenSeq(seqs) \in Seq(S)
<1>1. << >> \in Seq(S)
  OBVIOUS
<1> QED
  BY <1>1, FlattenAppend

LEMMA FlattenOne ==
  ASSUME NEW S, NEW s \in Seq(S)
  PROVE  FlattenSeq(<<s>>) = s
<1>1. << >> \in Seq(Seq(S)) /\ Append(<< >>, s) = <<s>> /\ << >> \o s = s
  OBVIOUS
<1>2. FlattenSeq(Append(<< >>, s)) = FlattenSeq(<< >>) \o s
  BY <1>1, FlattenAppend
<1> QED
  BY <1>1, <1>2, FlattenNone

(* Concatenation is associative, as a fact on three and on all.           *)
LEMMA ConcatThree ==
  ASSUME NEW B, NEW a \in Seq(B), NEW f \in Seq(B), NEW x \in Seq(B)
  PROVE  a \o (f \o x) = (a \o f) \o x
BY ConcatAssociative

LEMMA ConcatAssociates ==
  ASSUME NEW S
  PROVE  \A a, f, x \in Seq(S) : a \o (f \o x) = (a \o f) \o x
BY ConcatThree

LEMMA FlattenConcat ==
  ASSUME NEW S, NEW a \in Seq(Seq(S)), NEW b \in Seq(Seq(S))
  PROVE  FlattenSeq(a \o b) = FlattenSeq(a) \o FlattenSeq(b)
<1> DEFINE C == {s \in Seq(Seq(S)) : FlattenSeq(a \o s) = FlattenSeq(a) \o FlattenSeq(s)}
<1>0. \A p, q, w \in Seq(S) : p \o (q \o w) = (p \o q) \o w
  BY ConcatAssociates
<1>1. << >> \in C
  <2>1. FlattenSeq(a) \in Seq(S) /\ a \o << >> = a /\ << >> \in Seq(Seq(S))
    BY FlattenTyped
  <2>2. FlattenSeq(a) \o << >> = FlattenSeq(a)
    BY <2>1
  <2> QED
    BY <2>1, <2>2, FlattenNone
<1>2. ASSUME NEW s \in Seq(Seq(S)), NEW x \in Seq(S), s \in C PROVE Append(s, x) \in C
  <2>1. a \o s \in Seq(Seq(S)) /\ a \o Append(s, x) = Append(a \o s, x)
    OBVIOUS
  <2>2. FlattenSeq(a \o Append(s, x)) = FlattenSeq(a \o s) \o x
    BY <2>1, FlattenAppend
  <2>3. FlattenSeq(Append(s, x)) = FlattenSeq(s) \o x
    BY FlattenAppend
  <2>4. FlattenSeq(a) \in Seq(S) /\ FlattenSeq(s) \in Seq(S)
    BY FlattenTyped
  <2>5. FlattenSeq(a \o s) = FlattenSeq(a) \o FlattenSeq(s)
    BY <1>2
  <2>6. (FlattenSeq(a) \o FlattenSeq(s)) \o x = FlattenSeq(a) \o (FlattenSeq(s) \o x)
    BY <1>0, <2>4, Zenon
  <2>7. FlattenSeq(a \o Append(s, x)) = FlattenSeq(a) \o FlattenSeq(Append(s, x))
    BY <2>2, <2>3, <2>5, <2>6, Zenon
  <2>8. Append(s, x) \in Seq(Seq(S))
    OBVIOUS
  <2> QED
    BY <2>7, <2>8
<1> HIDE DEF C
<1>3. \A s \in Seq(Seq(S)) : s \in C
  BY <1>1, <1>2, SeqInduction
<1> QED
  BY <1>3 DEF C

(* Empty sequences leave nothing.                                          *)
LEMMA FlattenEmpties ==
  ASSUME NEW seqs \in Seq({<< >>})
  PROVE  FlattenSeq(seqs) = << >>
<1>1. {<< >>} = Seq({})
  <2>1. ASSUME NEW s \in Seq({}) PROVE s = << >>
    <3>1. Len(s) \in Nat /\ ~(1 \in 1 .. Len(s))
      BY ElementOfSeq
    <3> QED
      BY <3>1
  <2>2. << >> \in Seq({})
    BY EmptySeq
  <2> QED
    BY <2>1, <2>2, Zenon
<1>2. FlattenSeq(seqs) \in Seq({})
  BY <1>1, FlattenTyped
<1> QED
  BY <1>1, <1>2

(* What comes before a sequence, the sequence, and what comes after it.    *)
LEMMA FlattenSplit ==
  ASSUME NEW S, NEW seqs \in Seq(Seq(S)), NEW i \in 1 .. Len(seqs)
  PROVE  FlattenSeq(seqs) = FlattenSeq(SubSeq(seqs, 1, i - 1)) \o seqs[i]
                              \o FlattenSeq(SubSeq(seqs, i + 1, Len(seqs)))
<1> DEFINE a == SubSeq(seqs, 1, i - 1)
           b == SubSeq(seqs, i + 1, Len(seqs))
<1>1. a \in Seq(Seq(S)) /\ b \in Seq(Seq(S)) /\ seqs[i] \in Seq(S)
  OBVIOUS
<1>2. seqs = Append(a, seqs[i]) \o b
  <2>1. SubSeq(seqs, 1, i) = a \o <<seqs[i]>>
    <3>1. 1 \in 1 .. Len(seqs) /\ i \in 1 .. Len(seqs)
      OBVIOUS
    <3> QED
      BY <3>1, SubSeqRecursiveSecond
  <2>2. Append(a, seqs[i]) = a \o <<seqs[i]>>
    BY <1>1, AppendIsConcat
  <2>3. SubSeq(seqs, 1, i) \o b = SubSeq(seqs, 1, Len(seqs))
    <3>1. 1 \in 1 .. Len(seqs) + 1 /\ i \in 1 - 1 .. Len(seqs) /\ Len(seqs) \in i .. Len(seqs)
      OBVIOUS
    <3> QED
      BY <3>1, ConcatAdjacentSubSeq
  <2>4. SubSeq(seqs, 1, Len(seqs)) = seqs
    BY SubSeqFull
  <2> QED
    BY <2>1, <2>2, <2>3, <2>4, Zenon
<1>3. Append(a, seqs[i]) \in Seq(Seq(S))
  BY <1>1
<1> HIDE DEF a, b
<1>4. FlattenSeq(seqs) = FlattenSeq(Append(a, seqs[i])) \o FlattenSeq(b)
  BY <1>1, <1>2, <1>3, FlattenConcat
<1>5. FlattenSeq(Append(a, seqs[i])) = FlattenSeq(a) \o seqs[i]
  BY <1>1, FlattenAppend
<1> QED
  BY <1>4, <1>5 DEF a, b

LEMMA GrownBetween ==
  ASSUME NEW S, NEW a \in Seq(S), NEW b \in Seq(S), NEW x \in Seq(S)
  PROVE  a \o (b \o x) \o << >> = (a \o b \o << >>) \o x
<1>1. (a \o b) \o x = a \o (b \o x)
  BY ConcatAssociative
<1>2. a \o b \in Seq(S) /\ b \o x \in Seq(S) /\ a \o (b \o x) \in Seq(S)
  BY ConcatProperties
<1>3. a \o b \o << >> = a \o b /\ a \o (b \o x) \o << >> = a \o (b \o x)
  BY <1>2, ConcatEmptySeq
<1> QED
  BY <1>1, <1>3

(* When one of the sequences grows, and nothing comes after it, so does    *)
(* the whole.                                                              *)
LastGrows(old, new, i, x) ==
    /\ Len(new) = Len(old)
    /\ i \in 1 .. Len(old)
    /\ new[i] = old[i] \o x
    /\ \A j \in 1 .. i - 1 : new[j] = old[j]
    /\ \A j \in i + 1 .. Len(old) : old[j] = << >> /\ new[j] = << >>

LEMMA FlattenSides ==
  ASSUME NEW S, NEW old \in Seq(Seq(S)), NEW new \in Seq(Seq(S)), NEW i \in 1 .. Len(old), NEW x,
         LastGrows(old, new, i, x)
  PROVE  \E a \in Seq(S) : /\ FlattenSeq(new) = a \o new[i] \o << >>
                           /\ FlattenSeq(old) = a \o old[i] \o << >>
<1> USE DEF LastGrows
<1>1. SubSeq(new, 1, i - 1) = SubSeq(old, 1, i - 1)
  OBVIOUS
<1>2. /\ SubSeq(new, i + 1, Len(new)) \in Seq({<< >>})
      /\ SubSeq(old, i + 1, Len(old)) \in Seq({<< >>})
  OBVIOUS
<1>3. /\ FlattenSeq(SubSeq(new, i + 1, Len(new))) = << >>
      /\ FlattenSeq(SubSeq(old, i + 1, Len(old))) = << >>
  BY <1>2, FlattenEmpties
<1>4. PICK a \in Seq(S) : a = FlattenSeq(SubSeq(old, 1, i - 1))
  <2>1. SubSeq(old, 1, i - 1) \in Seq(Seq(S))
    OBVIOUS
  <2> QED
    BY <2>1, FlattenTyped
<1>5. FlattenSeq(new) = a \o new[i] \o << >>
  <2>1. i \in 1 .. Len(new)
    OBVIOUS
  <2> QED
    BY <1>1, <1>3, <1>4, <2>1, FlattenSplit
<1>6. FlattenSeq(old) = a \o old[i] \o << >>
  BY <1>3, <1>4, FlattenSplit
<1> QED
  BY <1>5, <1>6

LEMMA FlattenGrows ==
  ASSUME NEW S, NEW old \in Seq(Seq(S)), NEW new \in Seq(Seq(S)), NEW i \in 1 .. Len(old),
         NEW x \in Seq(S),
         LastGrows(old, new, i, x)
  PROVE  FlattenSeq(new) = FlattenSeq(old) \o x
<1>1. PICK a \in Seq(S) : /\ FlattenSeq(new) = a \o new[i] \o << >>
                         /\ FlattenSeq(old) = a \o old[i] \o << >>
  <2> QED
    BY FlattenSides
<1>2. old[i] \in Seq(S)
  BY DEF LastGrows
<1>3. PICK b \in Seq(S) : b = old[i]
  BY <1>2
<1>4. a \o (b \o x) \o << >> = (a \o b \o << >>) \o x
  BY GrownBetween
<1>5. new[i] = b \o x
  BY <1>3 DEF LastGrows
<1> QED
  BY <1>1, <1>3, <1>4, <1>5, Zenon

(* The first sequences flattened begin the whole.                          *)
LEMMA FlattenFirst ==
  ASSUME NEW S, NEW seqs \in Seq(Seq(S)), NEW n \in 0 .. Len(seqs)
  PROVE  /\ FlattenSeq(SubSeq(seqs, 1, n)) \in Seq(S)
         /\ n < Len(seqs) => FlattenSeq(SubSeq(seqs, 1, n + 1))
                                = FlattenSeq(SubSeq(seqs, 1, n)) \o seqs[n + 1]
<1>1. SubSeq(seqs, 1, n) \in Seq(Seq(S))
  OBVIOUS
<1>2. n < Len(seqs) => /\ SubSeq(seqs, 1, n + 1) = Append(SubSeq(seqs, 1, n), seqs[n + 1])
                       /\ seqs[n + 1] \in Seq(S)
  OBVIOUS
<1> QED
  BY <1>1, <1>2, FlattenTyped, FlattenAppend

-----------------------------------------------------------------------------
(* The sum over a sequence of what each of its elements weighs.            *)
Weight(s, w) == SumFunctionOnSet([k \in DOMAIN s |-> w[s[k]]], DOMAIN s)

LEMMA WeightTyped ==
  ASSUME NEW S, NEW s \in Seq(S), NEW w \in [S -> Nat]
  PROVE  Weight(s, w) \in Nat /\ (s = << >> => Weight(s, w) = 0)
<1> DEFINE f == [k \in DOMAIN s |-> w[s[k]]]
<1>1. PICK D : D = DOMAIN s /\ IsFiniteSet(D) /\ (s = << >> => D = {})
  <2>1. DOMAIN s = 1 .. Len(s) /\ Len(s) \in Nat /\ (s = << >> => 1 .. Len(s) = {})
    OBVIOUS
  <2> QED
    BY <2>1, FS_Interval
<1>2. \A k \in D : f[k] \in Nat
  BY <1>1
<1> HIDE DEF f
<1>3. SumFunctionOnSet(f, D) \in Nat /\ (D = {} => SumFunctionOnSet(f, D) = 0)
  BY <1>1, <1>2, SumOverSet
<1> QED
  BY <1>1, <1>3 DEF Weight, f

LEMMA WeightAppend ==
  ASSUME NEW S, NEW s \in Seq(S), NEW x \in S, NEW w \in [S -> Nat]
  PROVE  Weight(Append(s, x), w) = Weight(s, w) + w[x]
<1> DEFINE n == Len(s) + 1
           f == [k \in DOMAIN Append(s, x) |-> w[Append(s, x)[k]]]
           g == [k \in DOMAIN s |-> w[s[k]]]
<1>1. DOMAIN s = 1 .. Len(s) /\ DOMAIN Append(s, x) = 1 .. n /\ Len(s) \in Nat /\ n \in Nat
  OBVIOUS
<1>2. /\ \A k \in 1 .. n : f[k] \in Nat
      /\ f[n] = w[x]
      /\ \A k \in 1 .. Len(s) : f[k] \in Nat /\ f[k] = g[k]
  BY <1>1
<1>3. (1 .. n) \ {n} = 1 .. Len(s) /\ n \in 1 .. n
  BY <1>1
<1>4. IsFiniteSet(1 .. n) /\ IsFiniteSet(1 .. Len(s))
  BY <1>1, FS_Interval
<1>5. w[x] \in Nat
  OBVIOUS
<1>6. Weight(Append(s, x), w) = SumFunctionOnSet(f, 1 .. n)
      /\ Weight(s, w) = SumFunctionOnSet(g, 1 .. Len(s))
  BY <1>1 DEF Weight
<1> HIDE DEF n, f, g
<1>7. SumFunctionOnSet(f, 1 .. n) = f[n] + SumFunctionOnSet(f, (1 .. n) \ {n})
  BY <1>2, <1>3, <1>4, SumOverSet
<1>8. SumFunctionOnSet(f, 1 .. Len(s)) = SumFunctionOnSet(g, 1 .. Len(s))
  BY <1>2, <1>4, SumOfAgreeing
<1>9. Weight(s, w) \in Nat
  BY WeightTyped
<1>10. Weight(Append(s, x), w) = w[x] + Weight(s, w)
  BY <1>2, <1>3, <1>6, <1>7, <1>8, Zenon
<1> QED
  BY <1>5, <1>9, <1>10

LEMMA WeightConcat ==
  ASSUME NEW S, NEW a \in Seq(S), NEW b \in Seq(S), NEW w \in [S -> Nat]
  PROVE  Weight(a \o b, w) = Weight(a, w) + Weight(b, w)
<1> DEFINE C == {s \in Seq(S) : Weight(a \o s, w) = Weight(a, w) + Weight(s, w)}
<1>1. << >> \in C
  <2>1. << >> \in Seq(S) /\ a \o << >> = a
    OBVIOUS
  <2>2. Weight(<< >>, w) = 0 /\ Weight(a, w) \in Nat
    BY <2>1, WeightTyped
  <2> QED
    BY <2>1, <2>2
<1>2. ASSUME NEW s \in Seq(S), NEW x \in S, s \in C PROVE Append(s, x) \in C
  <2>1. a \o s \in Seq(S) /\ a \o Append(s, x) = Append(a \o s, x) /\ Append(s, x) \in Seq(S)
    OBVIOUS
  <2>2. Weight(Append(a \o s, x), w) = Weight(a \o s, w) + w[x]
    BY <2>1, WeightAppend
  <2>3. Weight(Append(s, x), w) = Weight(s, w) + w[x]
    BY WeightAppend
  <2>4. Weight(a, w) \in Nat /\ Weight(s, w) \in Nat /\ w[x] \in Nat
    BY WeightTyped
  <2>5. Weight(a \o s, w) = Weight(a, w) + Weight(s, w)
    BY <1>2
  <2>6. Weight(a \o Append(s, x), w) = Weight(a, w) + Weight(Append(s, x), w)
    <3>1. PICK p, q, r, y : p = Weight(a, w) /\ q = Weight(s, w) /\ r = w[x]
                            /\ y = a \o Append(s, x)
      OBVIOUS
    <3>2. Weight(y, w) = (p + q) + r
      BY <2>1, <2>2, <2>5, <3>1, Zenon
    <3>3. p \in Nat /\ q \in Nat /\ r \in Nat
      BY <2>4, <3>1
    <3>4. Weight(y, w) = p + (q + r)
      BY <3>2, <3>3
    <3> QED
      BY <2>3, <3>1, <3>4, Zenon
  <2> QED
    BY <2>1, <2>6
<1> HIDE DEF C
<1>3. \A s \in Seq(S) : s \in C
  BY <1>1, <1>2, SeqInduction
<1> QED
  BY <1>3 DEF C

(* Sequences laid end to end weigh as much as all of them.                 *)
LEMMA WeightOfFlatten ==
  ASSUME NEW S, NEW seqs \in Seq(Seq(S)), NEW w \in [S -> Nat]
  PROVE  Weight(FlattenSeq(seqs), w)
            = SumFunctionOnSet([i \in DOMAIN seqs |-> Weight(seqs[i], w)], DOMAIN seqs)
<1> DEFINE v == [s \in Seq(S) |-> Weight(s, w)]
           C == {ss \in Seq(Seq(S)) : Weight(FlattenSeq(ss), w) = Weight(ss, v)}
<1>1. v \in [Seq(S) -> Nat]
  BY WeightTyped
<1>2. \A s \in Seq(S) : v[s] = Weight(s, w)
  OBVIOUS
<1> HIDE DEF v
<1>3. << >> \in C
  <2>1. << >> \in Seq(Seq(S)) /\ << >> \in Seq(S)
    OBVIOUS
  <2>2. Weight(<< >>, v) = 0 /\ Weight(<< >>, w) = 0
    BY <1>1, <2>1, WeightTyped
  <2> QED
    BY <2>1, <2>2, FlattenNone
<1>4. ASSUME NEW ss \in Seq(Seq(S)), NEW x \in Seq(S), ss \in C PROVE Append(ss, x) \in C
  <2>1. FlattenSeq(ss) \in Seq(S) /\ FlattenSeq(Append(ss, x)) = FlattenSeq(ss) \o x
    BY FlattenAppend
  <2>2. Weight(FlattenSeq(ss) \o x, w) = Weight(FlattenSeq(ss), w) + Weight(x, w)
    BY <2>1, WeightConcat
  <2>3. Weight(Append(ss, x), v) = Weight(ss, v) + v[x]
    BY <1>1, WeightAppend
  <2>4. Weight(FlattenSeq(Append(ss, x)), w) = Weight(Append(ss, x), v)
    BY <1>2, <1>4, <2>1, <2>2, <2>3, Zenon
  <2>5. Append(ss, x) \in Seq(Seq(S))
    OBVIOUS
  <2> QED
    BY <2>4, <2>5
<1> HIDE DEF C
<1>5. \A ss \in Seq(Seq(S)) : ss \in C
  BY <1>3, <1>4, SeqInduction
<1>6. [i \in DOMAIN seqs |-> v[seqs[i]]] = [i \in DOMAIN seqs |-> Weight(seqs[i], w)]
  <2>1. \A i \in DOMAIN seqs : v[seqs[i]] = Weight(seqs[i], w)
    BY <1>2
  <2> QED
    BY <2>1
<1> QED
  BY <1>5, <1>6 DEF C, Weight

-----------------------------------------------------------------------------
(* The least and the greatest of some numbers, and the sum of none.        *)
LEMMA MinIs ==
  ASSUME NEW S, S \subseteq Nat, S # {}
  PROVE  Min(S) \in S /\ \A n \in S : Min(S) <= n
BY LeastNumber DEF Min

(* A set of numbers below a bound has its greatest one.                    *)
LEMMA MaxIs ==
  ASSUME NEW S, NEW n \in Nat, S \subseteq 0 .. n, S # {}
  PROVE  Max(S) \in S /\ \A k \in S : k <= Max(S)
<1> DEFINE Below == {k \in Nat : k <= n /\ n - k \in S}
<1>1. \A x \in S : n - x \in Below
  BY DEF Below
<1>2. Below # {} /\ Below \subseteq Nat
  BY <1>1 DEF Below
<1> HIDE DEF Below
<1>3. PICK k \in Below : \A j \in Below : k <= j
  BY <1>2, LeastNumber
<1>4. n - k \in S /\ \A x \in S : x <= n - k
  BY <1>1, <1>3 DEF Below
<1>5. \E x \in S : \A y \in S : x >= y
  BY <1>4
<1>6. Max(S) \in S /\ \A y \in S : Max(S) >= y
  BY <1>5 DEF Max
<1> QED
  BY <1>6

LEMMA MaxUnique ==
  ASSUME NEW S, NEW n \in Nat, S \subseteq 0 .. n, NEW x \in S, \A k \in S : k <= x
  PROVE  Max(S) = x
<1>1. Max(S) \in S /\ \A k \in S : k <= Max(S)
  BY MaxIs
<1>2. Max(S) <= x /\ x <= Max(S) /\ Max(S) \in 0 .. n /\ x \in 0 .. n
  BY <1>1
<1> HIDE DEF Max
<1> QED
  BY <1>2

LEMMA SumOfNone ==
  ASSUME NEW f
  PROVE  SumFunctionOnSet(f, {}) = 0
<1>1. IsFiniteSet({}) /\ \A x \in {} : f[x] \in Nat
  BY FS_EmptySet
<1> QED
  BY <1>1, SumOverSet

-----------------------------------------------------------------------------
(* Sequences: their elements, one more, two joined, and one cut in two.    *)
LEMMA InSeqOfElements ==
  ASSUME NEW S, NEW s \in Seq(S)
  PROVE  s \in Seq(ToSet(s))
BY DEF ToSet

LEMMA AppendInToSet ==
  ASSUME NEW S, NEW s \in Seq(S), NEW x
  PROVE  Append(s, x) \in Seq(ToSet(Append(s, x)))
<1>1. s \in Seq(S \cup {x}) /\ x \in S \cup {x}
  BY SeqMonotonic
<1>2. Append(s, x) \in Seq(S \cup {x})
  BY <1>1
<1> QED
  BY <1>2, InSeqOfElements

LEMMA LastIs ==
  ASSUME NEW S, NEW s \in Seq(S), NEW x \in S
  PROVE  Append(s, x) # << >> /\ Last(Append(s, x)) = x
BY DEF Last

LEMMA OneMoreIn ==
  ASSUME NEW S, NEW s \in Seq(S), NEW x \in S
  PROVE  /\ DOMAIN s \subseteq DOMAIN Append(s, x) /\ Len(s) + 1 \in DOMAIN Append(s, x)
         /\ \A k \in DOMAIN s : Append(s, x)[k] = s[k] /\ k # Len(s) + 1
         /\ Append(s, x)[Len(s) + 1] = x
         /\ \A k \in DOMAIN Append(s, x) : k \in DOMAIN s \/ k = Len(s) + 1
OBVIOUS

LEMMA JoinedElements ==
  ASSUME NEW S, NEW a \in Seq(S), NEW b \in Seq(S), NEW one, one = a \o b
  PROVE  /\ one \in Seq(S)
         /\ \A k \in DOMAIN one : \/ k \in DOMAIN a /\ one[k] = a[k]
                                  \/ \E j \in DOMAIN b : k = Len(a) + j /\ one[k] = b[j]
         /\ \A k \in DOMAIN a : k \in DOMAIN one /\ one[k] = a[k]
         /\ \A j \in DOMAIN b : Len(a) + j \in DOMAIN one /\ one[Len(a) + j] = b[j]
<1>1. /\ one \in Seq(S) /\ Len(one) = Len(a) + Len(b)
      /\ Len(a) \in Nat /\ Len(b) \in Nat
      /\ DOMAIN a = 1 .. Len(a) /\ DOMAIN b = 1 .. Len(b)
      /\ DOMAIN one = 1 .. Len(a) + Len(b)
  OBVIOUS
<1>2. \A k \in 1 .. Len(a) + Len(b) :
          one[k] = IF k <= Len(a) THEN a[k] ELSE b[k - Len(a)]
  OBVIOUS
<1>3. ASSUME NEW k \in DOMAIN one
      PROVE  \/ k \in DOMAIN a /\ one[k] = a[k]
             \/ \E j \in DOMAIN b : k = Len(a) + j /\ one[k] = b[j]
  <2>1. CASE k <= Len(a)
    BY <1>1, <1>2, <2>1
  <2>2. CASE ~(k <= Len(a))
    <3>1. k - Len(a) \in DOMAIN b /\ k = Len(a) + (k - Len(a))
      BY <1>1, <2>2
    <3>2. one[k] = b[k - Len(a)]
      BY <1>1, <1>2, <2>2
    <3> QED
      BY <3>1, <3>2
  <2> QED
    BY <2>1, <2>2
<1>4. ASSUME NEW j \in DOMAIN b
      PROVE  Len(a) + j \in DOMAIN one /\ one[Len(a) + j] = b[j]
  <2>1. Len(a) + j \in 1 .. Len(a) + Len(b) /\ ~(Len(a) + j <= Len(a))
        /\ (Len(a) + j) - Len(a) = j
    BY <1>1
  <2> QED
    BY <1>1, <1>2, <2>1
<1>5. \A k \in DOMAIN a : k \in DOMAIN one /\ one[k] = a[k]
  BY <1>1, <1>2
<1> QED
  BY <1>1, <1>3, <1>4, <1>5

Rising(s) == \A j, k \in DOMAIN s : j < k => s[j] < s[k]

(* A rising sequence of numbers, with a greater one at its end.            *)
LEMMA OneMore ==
  ASSUME NEW s \in Seq(Nat), Rising(s), NEW i \in Nat, \A j \in ToSet(s) : j < i
  PROVE  ToSet(Append(s, i)) = ToSet(s) \cup {i} /\ Rising(Append(s, i))
<1>1. /\ DOMAIN s = 1 .. Len(s) /\ Len(s) \in Nat
      /\ DOMAIN Append(s, i) = 1 .. Len(s) + 1
      /\ Append(s, i)[Len(s) + 1] = i
      /\ \A k \in 1 .. Len(s) : Append(s, i)[k] = s[k]
  OBVIOUS
<1>2. PICK t : t = Append(s, i)
  OBVIOUS
<1>3. \A k \in 1 .. Len(s) : s[k] < i
  BY <1>1 DEF ToSet
<1>4. ToSet(t) = ToSet(s) \cup {i}
  BY <1>1, <1>2 DEF ToSet
<1>5. Rising(t)
  BY <1>1, <1>2, <1>3 DEF Rising
<1> QED
  BY <1>2, <1>4, <1>5

LEMMA AppendLater ==
  ASSUME NEW S, NEW told \in Seq(S), NEW a \in Seq(S), NEW m \in S
  PROVE  told \o Append(a, m) = Append(told \o a, m)
<1> DEFINE x == told \o Append(a, m)
           y == Append(told \o a, m)
<1>1. Len(told) \in Nat /\ Len(a) \in Nat
  OBVIOUS
<1>2. Append(a, m) \in Seq(S) /\ Len(Append(a, m)) = Len(a) + 1 /\ told \o a \in Seq(S)
      /\ Len(told \o a) = Len(told) + Len(a)
  OBVIOUS
<1>3. x \in Seq(S) /\ y \in Seq(S) /\ Len(x) = Len(told) + Len(a) + 1 /\ Len(y) = Len(x)
  BY <1>1, <1>2
<1>4. ASSUME NEW k \in 1 .. Len(x) PROVE x[k] = y[k]
  <2>1. CASE k <= Len(told)
    <3>1. x[k] = told[k]
      BY <1>1, <1>2, <1>3, <2>1
    <3>2. y[k] = told[k]
      BY <1>1, <1>2, <1>3, <2>1
    <3> QED
      BY <3>1, <3>2
  <2>2. CASE k > Len(told)
    <3>1. x[k] = Append(a, m)[k - Len(told)]
      BY <1>1, <1>2, <1>3, <2>2
    <3>2. CASE k = Len(told) + Len(a) + 1
      BY <1>1, <1>2, <1>3, <3>1, <3>2
    <3>3. CASE k < Len(told) + Len(a) + 1
      BY <1>1, <1>2, <1>3, <2>2, <3>1, <3>3
    <3> QED
      BY <1>1, <1>3, <3>2, <3>3
  <2> QED
    BY <1>1, <2>1, <2>2
<1> HIDE DEF x, y
<1> QED
  BY <1>3, <1>4, SeqEqual DEF x, y

LEMMA ConcatShift ==
  ASSUME NEW S, NEW a \in Seq(S), NEW b \in Seq(S), NEW c \in Seq(S),
         NEW one, one = a \o b, NEW two, two = b \o c
  PROVE  a \o two = one \o c
BY ConcatAssociative

LEMMA WithoutLast ==
  ASSUME NEW S, NEW s \in Seq(S), s # << >>
  PROVE  SubSeq(s, 1, Len(s)) = Append(SubSeq(s, 1, Len(s) - 1), s[Len(s)])
<1>1. PICK n \in Nat : n + 1 = Len(s)
  <2>1. Len(s) \in Nat /\ Len(s) # 0
    OBVIOUS
  <2>2. Len(s) - 1 \in Nat /\ (Len(s) - 1) + 1 = Len(s)
    BY <2>1
  <2> QED
    BY <2>2
<1>2. SubSeq(s, 1, n + 1) = Append(SubSeq(s, 1, n), s[n + 1]) /\ Len(s) - 1 = n
  BY <1>1
<1> QED
  BY <1>1, <1>2

LEMMA CutInTwo ==
  ASSUME NEW S, NEW s \in Seq(S), NEW n \in 0 .. Len(s)
  PROVE  s = SubSeq(s, 1, n) \o SubSeq(s, n + 1, Len(s))
<1>1. Len(s) \in Nat /\ SubSeq(s, 1, Len(s)) = s
  OBVIOUS
<1>2. 1 \in 1 .. Len(s) + 1 /\ n \in 1 - 1 .. Len(s) /\ Len(s) \in n .. Len(s)
  BY <1>1
<1>3. SubSeq(s, 1, n) \o SubSeq(s, n + 1, Len(s)) = SubSeq(s, 1, Len(s))
  BY <1>2, ConcatAdjacentSubSeq
<1> QED
  BY <1>1, <1>3

(* Numbers in a sequence have a bound.                                     *)
LEMMA SeqBounded ==
  ASSUME NEW s \in Seq(Nat)
  PROVE  \E m \in Nat : \A k \in 1 .. Len(s) : s[k] <= m
<1> DEFINE C == {x \in Seq(Nat) : \E m \in Nat : \A k \in 1 .. Len(x) : x[k] <= m}
<1>1. << >> \in C
  OBVIOUS
<1>2. ASSUME NEW x \in Seq(Nat), NEW e \in Nat, x \in C PROVE Append(x, e) \in C
  <2>1. PICK m \in Nat : \A k \in 1 .. Len(x) : x[k] <= m
    BY <1>2
  <2>2. PICK y \in Seq(Nat) : y = Append(x, e)
    BY AppendProperties
  <2>3. Len(y) = Len(x) + 1 /\ y[Len(x) + 1] = e /\ Len(x) \in Nat
        /\ \A k \in 1 .. Len(x) : y[k] = x[k]
    BY <2>2
  <2>4. PICK n \in Nat : n = m + e
    OBVIOUS
  <2>5. ASSUME NEW k \in 1 .. Len(y) PROVE y[k] <= n
    <3>1. CASE k = Len(x) + 1
      BY <2>3, <2>4, <3>1
    <3>2. CASE k # Len(x) + 1
      <4>1. k \in 1 .. Len(x)
        BY <2>3, <3>2
      <4>2. y[k] = x[k] /\ x[k] <= m /\ x[k] \in Nat
        BY <2>1, <2>3, <4>1
      <4> QED
        BY <2>4, <4>2
    <3> QED
      BY <3>1, <3>2
  <2> QED
    BY <2>2, <2>4, <2>5
<1> HIDE DEF C
<1>3. \A x \in Seq(Nat) : x \in C
  BY <1>1, <1>2, SeqInduction
<1> QED
  BY <1>3 DEF C

-----------------------------------------------------------------------------
(* Sequences that begin others, one by one, and each is all of its own if  *)
(* a later one has begun.                                                  *)
Begun(a, b, S) ==
    /\ Len(a) = Len(b)
    /\ \A k \in 1 .. Len(b) : \E r \in Seq(S) : b[k] = a[k] \o r

InTurn(a, b) == \A k \in 1 .. Len(b) : a[k] # << >> => \A j \in 1 .. k - 1 : a[j] = b[j]

(* Then all of the beginnings begin all of the others.                     *)
LEMMA BegunInTurn ==
  ASSUME NEW S, NEW a \in Seq(Seq(S)), NEW b \in Seq(Seq(S)), Begun(a, b, S), InTurn(a, b)
  PROVE  \E r \in Seq(S) : FlattenSeq(b) = FlattenSeq(a) \o r
<1> DEFINE A(n) == FlattenSeq(SubSeq(a, 1, n))
           B(n) == FlattenSeq(SubSeq(b, 1, n))
           Extends(x, y) == \E r \in Seq(S) : y = x \o r
           Good(n) == n <= Len(b) => Extends(A(n), B(n))
           C == {n \in Nat : Good(n)}
<1>0. Len(a) = Len(b) /\ Len(b) \in Nat /\ << >> \in Seq(S)
  BY DEF Begun
<1>6. \A p, q, w \in Seq(S) : p \o (q \o w) = (p \o q) \o w
  BY ConcatAssociates
<1> HIDE DEF A, B, Extends
<1>1. Good(0)
  <2>1. SubSeq(a, 1, 0) = << >> /\ SubSeq(b, 1, 0) = << >>
    OBVIOUS
  <2>2. A(0) = << >> /\ B(0) = << >>
    BY <2>1, FlattenNone DEF A, B
  <2>3. << >> \o << >> = << >>
    BY <1>0, ConcatEmptySeq
  <2> QED
    BY <1>0, <2>2, <2>3, Zenon DEF Extends
<1>2. ASSUME NEW n \in Nat, Good(n) PROVE Good(n + 1)
  <2> SUFFICES ASSUME n + 1 <= Len(b) PROVE Extends(A(n + 1), B(n + 1))
    OBVIOUS
  <2>1. n \in 0 .. Len(a) /\ n \in 0 .. Len(b) /\ n < Len(a) /\ n < Len(b) /\ n + 1 \in 1 .. Len(b)
    BY <1>0
  <2>2. A(n) \in Seq(S) /\ B(n) \in Seq(S) /\ A(n + 1) = A(n) \o a[n + 1] /\ B(n + 1) = B(n) \o b[n + 1]
    BY <2>1, FlattenFirst DEF A, B
  <2>3. PICK an \in Seq(S), bn \in Seq(S) : an = A(n) /\ bn = B(n)
    BY <2>2
  <2>11. PICK an1, bn1 : an1 = A(n + 1) /\ bn1 = B(n + 1)
    OBVIOUS
  <2>4. PICK x \in Seq(S), y \in Seq(S) : x = a[n + 1] /\ y = b[n + 1]
    BY <1>0, <2>1
  <2>12. Extends(A(n), B(n))
    BY <1>2, <2>1
  <2>5. PICK r \in Seq(S) : bn = an \o r
    BY <2>3, <2>12, Zenon DEF Extends
  <2>6. x # << >> => an = bn
    <3> SUFFICES ASSUME x # << >> PROVE an = bn
      OBVIOUS
    <3>1. \A j \in 1 .. n : a[j] = b[j]
      <4>1. n + 1 \in 1 .. Len(b) /\ a[n + 1] # << >> /\ (n + 1) - 1 = n
        BY <2>1, <2>4
      <4>2. \A j \in 1 .. (n + 1) - 1 : a[j] = b[j]
        BY <4>1, Zenon DEF InTurn
      <4> QED
        BY <4>1, <4>2
    <3>2. SubSeq(a, 1, n) = SubSeq(b, 1, n)
      BY <2>1, <3>1
    <3> QED
      BY <2>3, <3>2 DEF A, B
  <2>7. PICK s \in Seq(S) : y = x \o s
    BY <2>1, <2>4 DEF Begun
  <2>8. an1 = an \o x /\ bn1 = bn \o y
    BY <2>2, <2>3, <2>4, <2>11
  <2>9. CASE x = << >>
    <3>1. an \o (r \o y) = (an \o r) \o y
      BY <1>6, ZenonT(60)
    <3>3. r \o y \in Seq(S) /\ an \o << >> = an
      BY ConcatProperties, ConcatEmptySeq
    <3>2. an1 = an /\ bn1 = an \o (r \o y)
      BY <2>5, <2>8, <2>9, <3>1, <3>3, Zenon
    <3>4. PICK z \in Seq(S) : z = r \o y
      BY <3>3
    <3> QED
      BY <2>11, <3>2, <3>4, Zenon DEF Extends
  <2>10. CASE x # << >>
    <3>1. bn1 = an \o (x \o s)
      BY <2>6, <2>7, <2>8, <2>10, Zenon
    <3>2. an \o (x \o s) = (an \o x) \o s
      BY <1>6, ZenonT(60)
    <3>3. bn1 = an1 \o s
      BY <2>8, <3>1, <3>2, Zenon
    <3> QED
      BY <2>11, <3>3, Zenon DEF Extends
  <2> QED
    BY <2>9, <2>10
<1>3. A(Len(b)) = FlattenSeq(a) /\ B(Len(b)) = FlattenSeq(b)
  <2>1. SubSeq(a, 1, Len(b)) = a /\ SubSeq(b, 1, Len(b)) = b
    BY <1>0
  <2> QED
    BY <2>1 DEF A, B
<1>4. \A n \in Nat : n \in C
  <2> HIDE DEF Good
  <2>1. 0 \in C /\ \A n \in Nat : n \in C => n + 1 \in C
    BY <1>1, <1>2
  <2> HIDE DEF C
  <2> QED
    BY <2>1, UpwardInduction
<1>5. Extends(A(Len(b)), B(Len(b)))
  <2>1. Good(Len(b))
    <3> HIDE DEF Good
    <3> QED
      BY <1>0, <1>4
  <2> QED
    BY <1>0, <2>1
<1> QED
  BY <1>3, <1>5, Zenon DEF Extends

(* A sequence whose elements are those of two sequences, or of one and a   *)
(* last element, or begin with those of another.                           *)
LEMMA ConcatIs ==
  ASSUME NEW S, NEW a \in Seq(S), NEW b \in Seq(S), NEW c \in Seq(S), Len(c) = Len(a) + Len(b),
         \A k \in 1 .. Len(a) : c[k] = a[k], \A k \in 1 .. Len(b) : c[Len(a) + k] = b[k]
  PROVE  c = a \o b
<1>1. /\ a \o b \in Seq(S) /\ Len(a \o b) = Len(a) + Len(b)
      /\ \A k \in 1 .. Len(a) + Len(b) :
             (a \o b)[k] = IF k <= Len(a) THEN a[k] ELSE b[k - Len(a)]
  BY ConcatProperties
<1>2. ASSUME NEW k \in 1 .. Len(c) PROVE c[k] = (a \o b)[k]
  <2>1. Len(a) \in Nat /\ Len(b) \in Nat
    OBVIOUS
  <2>2. CASE k <= Len(a)
    BY <1>1, <2>1, <2>2
  <2>3. CASE ~(k <= Len(a))
    <3>1. PICK j : j = k - Len(a)
      OBVIOUS
    <3>2. j \in 1 .. Len(b) /\ k = Len(a) + j /\ k \in 1 .. Len(a) + Len(b)
      BY <2>1, <2>3, <3>1
    <3> QED
      BY <1>1, <2>1, <2>3, <3>1, <3>2
  <2> QED
    BY <2>2, <2>3
<1> QED
  BY <1>1, <1>2, SeqEqual

LEMMA AppendIs ==
  ASSUME NEW S, NEW a \in Seq(S), NEW e \in S, NEW c \in Seq(S), Len(c) = Len(a) + 1,
         c[Len(a) + 1] = e, \A k \in 1 .. Len(a) : c[k] = a[k]
  PROVE  c = Append(a, e)
<1>1. /\ Append(a, e) \in Seq(S) /\ Len(Append(a, e)) = Len(a) + 1 /\ Len(a) \in Nat
      /\ Append(a, e)[Len(a) + 1] = e /\ \A k \in 1 .. Len(a) : Append(a, e)[k] = a[k]
  BY AppendProperties
<1>2. ASSUME NEW k \in 1 .. Len(c) PROVE c[k] = Append(a, e)[k]
  <2>1. k \in 1 .. Len(a) \/ k = Len(a) + 1
    BY <1>1
  <2> QED
    BY <1>1, <2>1
<1> QED
  BY <1>1, <1>2, SeqEqual

LEMMA BeginsWith ==
  ASSUME NEW S, NEW a \in Seq(S), NEW c \in Seq(S), Len(a) <= Len(c),
         \A k \in 1 .. Len(a) : c[k] = a[k]
  PROVE  \E r \in Seq(S) : c = a \o r
<1>1. PICK n, m : n = Len(a) /\ m = Len(c) - n
  OBVIOUS
<1>2. n \in Nat /\ m \in Nat /\ Len(c) = n + m
  BY <1>1
<1>3. PICK r : r = [k \in 1 .. m |-> c[n + k]]
  OBVIOUS
<1>4. r \in Seq(S) /\ Len(r) = m /\ \A k \in 1 .. m : r[k] = c[n + k]
  <2>1. \A k \in 1 .. m : c[n + k] \in S
    BY <1>2
  <2> HIDE <1>1
  <2> QED
    BY <1>2, <1>3, <2>1
<1>5. c = a \o r
  <2>1. Len(c) = Len(a) + Len(r) /\ \A k \in 1 .. Len(r) : c[Len(a) + k] = r[k]
    BY <1>1, <1>2, <1>4
  <2> QED
    BY <1>4, <2>1, ConcatIs
<1> QED
  BY <1>4, <1>5

(* Records of which some fields are replaced.                              *)
LEMMA TaskUpdated ==
  ASSUME NEW P, NEW LS, NEW D, NEW R, NEW A,
         NEW t \in [at : A, pos : P, lines : LS, dicts : D, result : R],
         NEW a \in A, NEW p \in P, NEW x \in LS
  PROVE  [t EXCEPT !.pos = p, !.at = a, !.lines = x]
            \in [at : A, pos : P, lines : LS, dicts : D, result : R]
OBVIOUS

LEMMA DictsUpdated ==
  ASSUME NEW P, NEW LS, NEW D, NEW R, NEW A, NEW E,
         NEW t \in [at : A, pos : P, lines : LS, dicts : D, result : R],
         NEW a \in A, NEW d \in E
  PROVE  [t EXCEPT !.at = a, !.dicts = d] \in [at : A, pos : P, lines : LS, dicts : E, result : R]
OBVIOUS

LEMMA BookUpdated ==
  ASSUME NEW C, NEW T, NEW D, NEW b \in [counts : C, dirty : BOOLEAN, tracked : T, defaults : D],
         NEW c \in C, NEW d \in BOOLEAN, NEW t \in T
  PROVE  [b EXCEPT !.counts = c, !.dirty = d, !.tracked = t]
            \in [counts : C, dirty : BOOLEAN, tracked : T, defaults : D]
OBVIOUS
=============================================================================
