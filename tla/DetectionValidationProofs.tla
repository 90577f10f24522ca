----------------------- MODULE DetectionValidationProofs -----------------------
(***************************************************************************)
(* Proofs about DetectionValidation, for any messages, any number of them  *)
(* and any command lines of the offline tool.                              *)
(*                                                                         *)
(* First the algorithms: sums, the greedy matching, the IoU, the filter    *)
(* and the summary.  What is defined by recursion over the subsets of a    *)
(* finite set (SumFunction, Greedy) is reasoned about by induction on such *)
(* sets (SetInduct).  A greedy matching is the kernel of its pairs: the    *)
(* only set of them that has no conflict and leaves no pair without an     *)
(* earlier conflicting one.  Two orders that agree on the pairs that share *)
(* a detection have the same kernel; this is why the order of arrival, and *)
(* the direction in which ties are broken, can be irrelevant.              *)
(*                                                                         *)
(* Then the state: frames and bad data (IInv), detections (CountsIInv), and *)
(* the totals as a function of the bags (TotalsIInv).                      *)
(***************************************************************************)
EXTENDS DetectionValidation, SequenceTheorems, FiniteSetTheorems, WellFoundedInduction, TLAPS
-----------------------------------------------------------------------------
(* Induction, and recursion over the subsets of a finite set.               *)

Less == {p \in Nat \X Nat : p[1] < p[2]}

LEMMA LessIsWellFounded == IsWellFoundedOn(Less, Nat)
BY NatLessThanWellFounded, Zenon DEF OpToRel, Less

LEMMA Induct ==
  ASSUME NEW S, 0 \in S, \A n \in Nat : n \in S => n + 1 \in S
  PROVE  Nat \subseteq S
<1>1. SUFFICES ASSUME NEW k \in Nat, k \notin S PROVE FALSE
  OBVIOUS
<1> DEFINE rest == Nat \ S
<1>2. rest \subseteq Nat /\ rest # {}
  BY <1>1
<1>3. PICK n \in rest : \A m \in rest : <<m, n>> \notin Less
  BY <1>2, LessIsWellFounded, WFMin
<1>4. n # 0 /\ n - 1 \in Nat
  BY <1>3
<1>5. n - 1 \notin rest
  <2>1. n \in Nat /\ n - 1 < n
    BY <1>4
  <2>2. <<n - 1, n>> \in Less
    BY <2>1, <1>4 DEF Less
  <2>3. QED
    BY <2>2, <1>3
<1>6. n - 1 \in S /\ n = (n - 1) + 1
  BY <1>4, <1>5
<1>7. QED
  BY <1>3, <1>4, <1>6

LEMMA SubsetFacts ==
  ASSUME NEW S, IsFiniteSet(S)
  PROVE  /\ \A T \in SUBSET S : /\ IsFiniteSet(T) /\ Cardinality(T) \in Nat
                                /\ Cardinality(T) = 0 <=> T = {}
                                /\ Cardinality(T) <= Cardinality(S)
         /\ \A T \in SUBSET S : T # S => Cardinality(T) < Cardinality(S)
         /\ \A T \in SUBSET S : \A x \in T :
              T \ {x} \in SUBSET S /\ Cardinality(T \ {x}) = Cardinality(T) - 1
<1>1. \A T \in SUBSET S : IsFiniteSet(T) /\ Cardinality(T) \in Nat
  BY FS_Subset, FS_CardinalityType
<1>2. \A T \in SUBSET S : Cardinality(T) = 0 <=> T = {}
  BY <1>1, FS_EmptySet
<1>3. \A T \in SUBSET S : Cardinality(T) <= Cardinality(S)
  BY FS_Subset
<1>4. ASSUME NEW T \in SUBSET S, T # S PROVE Cardinality(T) < Cardinality(S)
  <2>1. Cardinality(T) # Cardinality(S)
    BY <1>4, FS_Subset
  <2>2. S \in SUBSET S
    OBVIOUS
  <2>3. QED
    BY <1>1, <1>3, <2>1, <2>2
<1>5. ASSUME NEW T \in SUBSET S, NEW x \in T
      PROVE  T \ {x} \in SUBSET S /\ Cardinality(T \ {x}) = Cardinality(T) - 1
  BY <1>1, FS_RemoveElement
<1>6. QED
  BY <1>1, <1>2, <1>3, <1>4, <1>5

\* What holds of no element, and with one more, holds of the whole set.
LEMMA SetInduct ==
  ASSUME NEW S, IsFiniteSet(S), NEW G, {} \in G,
         \A T \in SUBSET S : \A x \in S \ T : T \in G => T \cup {x} \in G
  PROVE  S \in G
<1> DEFINE Done == {k \in Nat : \A T \in SUBSET S : Cardinality(T) = k => T \in G}
<1>1. 0 \in Done
  BY SubsetFacts
<1>2. ASSUME NEW k \in Nat, k \in Done PROVE k + 1 \in Done
  <2> SUFFICES ASSUME NEW T \in SUBSET S, Cardinality(T) = k + 1 PROVE T \in G
    OBVIOUS
  <2>1. T # {}
    BY SubsetFacts
  <2>2. PICK x \in T : TRUE
    BY <2>1
  <2>3. T \ {x} \in SUBSET S /\ Cardinality(T \ {x}) = k
    BY SubsetFacts
  <2>4. T \ {x} \in G
    BY <1>2, <2>3
  <2>5. T = (T \ {x}) \cup {x} /\ x \in S \ (T \ {x})
    OBVIOUS
  <2>6. QED
    BY <2>3, <2>4, <2>5
<1> HIDE DEF Done
<1>3. Nat \subseteq Done
  BY <1>1, <1>2, Induct
<1>4. S \in SUBSET S /\ Cardinality(S) \in Nat
  BY SubsetFacts
<1>5. Cardinality(S) \in Done
  BY <1>3, <1>4
<1>6. QED
  BY <1>4, <1>5 DEF Done

\* d makes a set smaller, h is an operation on a set and the result for the
\* smaller one, and g is a function defined by recursion with the two.
Shrinks(d, S) == \A s \in SUBSET S : s # {} => d[s] \in SUBSET s /\ d[s] # s
Operates(h, S, A) == \A s \in SUBSET S : \A v \in A : s # {} => h[<<s, v>>] \in A
Recurs(g, S, base, d, h) ==
  g = [s \in SUBSET S |-> IF s = {} THEN base ELSE h[<<s, g[d[s]]>>]]

LEMMA RecursionExists ==
  ASSUME NEW S, IsFiniteSet(S), NEW A, NEW base \in A,
         NEW d, Shrinks(d, S), NEW h, Operates(h, S, A)
  PROVE  \E g \in [SUBSET S -> A] : Recurs(g, S, base, d, h)
<1> DEFINE Small(k) == {s \in SUBSET S : Cardinality(s) <= k}
           Solves(g, D) == \A s \in D : g[s] = IF s = {} THEN base ELSE h[<<s, g[d[s]]>>]
           Solved == {k \in Nat : \E g \in [Small(k) -> A] : Solves(g, Small(k))}
<1>1. \A s \in SUBSET S : IsFiniteSet(s) /\ Cardinality(s) \in Nat /\ (Cardinality(s) = 0 <=> s = {})
  BY SubsetFacts
<1>2. ASSUME NEW s \in SUBSET S, s # {}
      PROVE  d[s] \in SUBSET S /\ Cardinality(d[s]) < Cardinality(s)
  <2>1. d[s] \in SUBSET s /\ d[s] # s /\ IsFiniteSet(s)
    BY <1>1, <1>2 DEF Shrinks
  <2>2. QED
    BY <2>1, SubsetFacts
<1>3. 0 \in Solved
  <2>1. \A s \in Small(0) : s = {}
    BY <1>1
  <2>2. [s \in Small(0) |-> base] \in [Small(0) -> A] /\ Solves([s \in Small(0) |-> base], Small(0))
    BY <2>1
  <2>3. QED
    BY <2>2
<1>4. ASSUME NEW k \in Nat, k \in Solved PROVE k + 1 \in Solved
  <2>1. PICK g \in [Small(k) -> A] : Solves(g, Small(k))
    BY <1>4
  <2> DEFINE gg == [s \in Small(k + 1) |-> IF s = {} THEN base ELSE h[<<s, g[d[s]]>>]]
  <2>2. \A s \in Small(k + 1) : s # {} => d[s] \in Small(k)
    BY <1>1, <1>2
  <2>3. gg \in [Small(k + 1) -> A]
    <3>1. ASSUME NEW s \in Small(k + 1), s # {} PROVE h[<<s, g[d[s]]>>] \in A
      BY <3>1, <2>1, <2>2 DEF Operates
    <3>2. QED
      BY <3>1
  <2>4. \A s \in Small(k) : s \in Small(k + 1) /\ gg[s] = g[s]
    BY <1>1, <2>1
  <2>5. ASSUME NEW s \in Small(k + 1)
        PROVE  gg[s] = IF s = {} THEN base ELSE h[<<s, gg[d[s]]>>]
    <3>1. gg[s] = IF s = {} THEN base ELSE h[<<s, g[d[s]]>>]
      OBVIOUS
    <3> HIDE DEF gg
    <3>2. s # {} => gg[d[s]] = g[d[s]]
      BY <2>2, <2>4
    <3>3. QED
      BY <3>1, <3>2
  <2> HIDE DEF gg
  <2>6. Solves(gg, Small(k + 1))
    BY <2>5
  <2>7. \E f \in [Small(k + 1) -> A] : Solves(f, Small(k + 1))
    BY <2>3, <2>6
  <2> HIDE DEF Solves, Small
  <2>8. QED
    BY <2>7
<1> HIDE DEF Solved
<1>5. Nat \subseteq Solved
  BY <1>3, <1>4, Induct
<1> DEFINE all == Cardinality(S)
<1>6. all \in Nat /\ Small(all) = SUBSET S
  <2>1. \A s \in SUBSET S : Cardinality(s) <= Cardinality(S)
    BY SubsetFacts
  <2>2. QED
    BY <2>1, <1>1
<1>7. PICK g \in [SUBSET S -> A] : Solves(g, SUBSET S)
  <2>1. all \in Solved
    BY <1>5, <1>6
  <2>2. QED
    BY <2>1, <1>6 DEF Solved
<1>8. g = [s \in SUBSET S |-> IF s = {} THEN base ELSE h[<<s, g[d[s]]>>]]
  <2>1. \A s \in SUBSET S : g[s] = IF s = {} THEN base ELSE h[<<s, g[d[s]]>>]
    BY <1>7
  <2>2. g = [s \in SUBSET S |-> g[s]]
    OBVIOUS
  <2>3. QED
    BY <2>1, <2>2
<1>9. QED
  BY <1>8 DEF Recurs

-----------------------------------------------------------------------------
(* Sums.                                                                    *)

\* Every value of w is an integer, and there are finitely many.
Summable(w) == IsFiniteSet(DOMAIN w) /\ \A x \in DOMAIN w : w[x] \in Int

\* The equation by which SumFunction is defined.
Adds(g, w) ==
  g = [s \in SUBSET DOMAIN w |-> IF s = {} THEN 0
                                 ELSE LET x == CHOOSE x \in s : TRUE IN w[x] + g[s \ {x}]]

LEMMA SumSolves ==
  ASSUME NEW w, Summable(w)
  PROVE  \E g : Adds(g, w) /\ SumFunction(w) = g[DOMAIN w]
<1> DEFINE S == DOMAIN w
           c(s) == CHOOSE x \in s : TRUE
           d == [s \in SUBSET S |-> s \ {c(s)}]
           h == [p \in (SUBSET S) \X Int |-> w[c(p[1])] + p[2]]
           g0 == CHOOSE g : Adds(g, w)
<1>1. \A s \in SUBSET S : s # {} => c(s) \in s
  OBVIOUS
<1>2. \A s \in SUBSET S : d[s] = s \ {c(s)} /\ \A v \in Int : h[<<s, v>>] = w[c(s)] + v
  OBVIOUS
<1> HIDE DEF c, d, h, g0
<1>3. Shrinks(d, S)
  BY <1>1, <1>2 DEF Shrinks
<1>4. Operates(h, S, Int)
  <2>1. ASSUME NEW s \in SUBSET S, NEW v \in Int, s # {} PROVE h[<<s, v>>] \in Int
    <3>1. w[c(s)] \in Int
      BY <1>1, <2>1 DEF Summable
    <3>2. QED
      BY <1>2, <3>1
  <2>2. QED
    BY <2>1 DEF Operates
<1>5. PICK g \in [SUBSET S -> Int] : Recurs(g, S, 0, d, h)
  <2>1. IsFiniteSet(S) /\ 0 \in Int
    BY DEF Summable
  <2> HIDE DEF S
  <2>2. QED
    BY <1>3, <1>4, <2>1, RecursionExists
<1>6. Adds(g, w)
  <2>1. ASSUME NEW s \in SUBSET S, s # {}
        PROVE  h[<<s, g[d[s]]>>] = LET x == CHOOSE x \in s : TRUE IN w[x] + g[s \ {x}]
    <3>1. g[d[s]] \in Int /\ d[s] = s \ {c(s)}
      BY <1>2
    <3>2. h[<<s, g[d[s]]>>] = w[c(s)] + g[s \ {c(s)}]
      BY <1>2, <3>1
    <3>3. QED
      BY <3>2 DEF c
  <2>2. QED
    BY <1>5, <2>1 DEF Adds, Recurs
<1>7. Adds(g0, w)
  BY <1>6 DEF g0
<1>8. SumFunction(w) = g0[DOMAIN w]
  BY DEF SumFunction, SumFunctionOnSet, FoldFunctionOnSet, MapThenFoldSet, Adds, g0
<1>9. QED
  BY <1>7, <1>8

\* Any element can be added last.
LEMMA AddsAny ==
  ASSUME NEW w, Summable(w), NEW g, Adds(g, w)
  PROVE  \A s \in SUBSET DOMAIN w : g[s] \in Int /\ \A x \in s : g[s] = w[x] + g[s \ {x}]
<1> DEFINE S == DOMAIN w
           Good(s) == g[s] \in Int /\ \A x \in s : g[s] = w[x] + g[s \ {x}]
           Done == {k \in Nat : \A s \in SUBSET S : Cardinality(s) <= k => Good(s)}
<1>1. IsFiniteSet(S)
  BY DEF Summable
<1>2. Good({})
  BY DEF Adds
<1>3. ASSUME NEW s \in SUBSET S, s # {}
      PROVE  \E x \in s : g[s] = w[x] + g[s \ {x}]
  <2>1. (CHOOSE x \in s : TRUE) \in s
    BY <1>3
  <2>2. g[s] = LET x == CHOOSE x \in s : TRUE IN w[x] + g[s \ {x}]
    BY <1>3 DEF Adds
  <2>3. QED
    BY <2>1, <2>2
<1>4. 0 \in Done
  <2> HIDE DEF Good, S
  <2>1. \A s \in SUBSET S : Cardinality(s) <= 0 => s = {}
    BY <1>1, SubsetFacts
  <2>2. QED
    BY <1>2, <2>1
<1>5. ASSUME NEW k \in Nat, k \in Done PROVE k + 1 \in Done
  <2> SUFFICES ASSUME NEW s \in SUBSET S, Cardinality(s) <= k + 1, s # {} PROVE Good(s)
    <3> HIDE DEF Good
    <3> QED
      BY <1>2
  <2>1. PICK y \in s : g[s] = w[y] + g[s \ {y}]
    BY <1>3
  <2>2. \A x \in s : w[x] \in Int
    BY DEF Summable
  <2>3. ASSUME NEW x \in s PROVE s \ {x} \in SUBSET S /\ Good(s \ {x})
    <3> HIDE DEF Good, S
    <3>1. /\ s \ {x} \in SUBSET S /\ Cardinality(s \ {x}) = Cardinality(s) - 1
          /\ Cardinality(s) \in Nat
      BY <1>1, SubsetFacts
    <3>2. Cardinality(s \ {x}) <= k
      BY <3>1
    <3>3. QED
      BY <1>5, <3>1, <3>2
  <2>4. g[s] \in Int
    <3>1. w[y] \in Int /\ g[s \ {y}] \in Int
      BY <2>2, <2>3
    <3>2. QED
      BY <2>1, <3>1
  <2>5. ASSUME NEW x \in s, x # y PROVE g[s] = w[x] + g[s \ {x}]
    <3> DEFINE r == (s \ {x}) \ {y}
    <3>1. x \in s \ {y} /\ y \in s \ {x} /\ (s \ {y}) \ {x} = r
      BY <2>5
    <3>2. g[s \ {y}] = w[x] + g[r] /\ g[s \ {x}] = w[y] + g[r]
      BY <3>1, <2>3
    <3>3. g[r] \in Int
      <4> DEFINE q == s \ {x}
      <4> HIDE DEF Good
      <4>1. q \in SUBSET S /\ y \in q /\ r = q \ {y} /\ r \in SUBSET S
        BY <3>1
      <4> HIDE DEF q, r, S
      <4>2. Cardinality(r) = Cardinality(q) - 1 /\ Cardinality(q) \in Nat
        BY <1>1, <4>1, SubsetFacts
      <4>3. Cardinality(q) = Cardinality(s) - 1 /\ Cardinality(s) \in Nat
        BY <1>1, SubsetFacts DEF q
      <4>4. Cardinality(r) <= k
        BY <4>2, <4>3
      <4>5. Good(r)
        BY <1>5, <4>1, <4>4
      <4>6. QED
        BY <4>5 DEF Good
    <3>4. w[x] \in Int /\ w[y] \in Int
      BY <2>2
    <3> HIDE DEF r
    <3>5. QED
      BY <2>1, <3>2, <3>3, <3>4
  <2>6. QED
    BY <2>1, <2>4, <2>5
<1> HIDE DEF Done, Good, S
<1>6. Nat \subseteq Done
  BY <1>4, <1>5, Induct
<1>7. \A s \in SUBSET S : Cardinality(s) \in Nat
  BY <1>1, SubsetFacts
<1>8. \A s \in SUBSET S : Good(s)
  BY <1>6, <1>7 DEF Done
<1>9. QED
  BY <1>8 DEF Good, S

\* The sum over a set is the same as a part of a larger sum.
LEMMA AddsAgree ==
  ASSUME NEW v, Summable(v), NEW w, DOMAIN w \subseteq DOMAIN v,
         \A x \in DOMAIN w : w[x] = v[x],
         NEW f, Adds(f, w), NEW g, Adds(g, v)
  PROVE  f[DOMAIN w] = g[DOMAIN w]
<1> DEFINE S == DOMAIN w
           G == {T \in SUBSET S : f[T] = g[T]}
<1>1. Summable(w) /\ IsFiniteSet(S)
  BY FS_Subset DEF Summable
<1>2. {} \in G
  BY DEF Adds
<1>3. ASSUME NEW T \in SUBSET S, NEW x \in S \ T, T \in G PROVE T \cup {x} \in G
  <2> DEFINE U == T \cup {x}
  <2>1. U \in SUBSET S /\ U \in SUBSET DOMAIN v /\ x \in U /\ U \ {x} = T
    BY <1>3
  <2> HIDE DEF U, S
  <2>2. \A s \in SUBSET DOMAIN w : f[s] \in Int /\ \A y \in s : f[s] = w[y] + f[s \ {y}]
    BY <1>1, AddsAny
  <2>3. \A s \in SUBSET DOMAIN v : g[s] \in Int /\ \A y \in s : g[s] = v[y] + g[s \ {y}]
    BY AddsAny
  <2>4. f[U] = w[x] + f[T] /\ g[U] = v[x] + g[T]
    BY <2>1, <2>2, <2>3 DEF S
  <2>5. f[U] = g[U]
    BY <1>3, <2>1, <2>4 DEF S
  <2>6. QED
    BY <2>1, <2>5 DEF U
<1> HIDE DEF G, S
<1>4. S \in G
  BY <1>1, <1>2, <1>3, SetInduct
<1>5. QED
  BY <1>4 DEF G, S

\* The three facts about SumFunction that are used.
LEMMA SumIsInt == ASSUME NEW w, Summable(w) PROVE SumFunction(w) \in Int
<1>1. PICK g : Adds(g, w) /\ SumFunction(w) = g[DOMAIN w]
  BY SumSolves
<1>2. \A s \in SUBSET DOMAIN w : g[s] \in Int
  BY <1>1, AddsAny
<1>3. QED
  BY <1>1, <1>2

LEMMA SumOfNone == ASSUME NEW w, DOMAIN w = {} PROVE SumFunction(w) = 0
<1>1. Summable(w)
  BY FS_EmptySet DEF Summable
<1>2. PICK g : Adds(g, w) /\ SumFunction(w) = g[DOMAIN w]
  BY <1>1, SumSolves
<1>3. QED
  BY <1>2 DEF Adds

LEMMA SumOfOneMore ==
  ASSUME NEW v, Summable(v), NEW x \in DOMAIN v,
         NEW w, DOMAIN w = DOMAIN v \ {x}, \A y \in DOMAIN w : w[y] = v[y]
  PROVE  SumFunction(v) = v[x] + SumFunction(w)
<1>1. Summable(w)
  BY FS_Subset DEF Summable
<1>2. PICK f : Adds(f, w) /\ SumFunction(w) = f[DOMAIN w]
  BY <1>1, SumSolves
<1>3. PICK g : Adds(g, v) /\ SumFunction(v) = g[DOMAIN v]
  BY SumSolves
<1>4. f[DOMAIN w] = g[DOMAIN w]
  BY <1>2, <1>3, AddsAgree
<1>5. g[DOMAIN v] = v[x] + g[DOMAIN v \ {x}]
  <2>1. Adds(g, v)
    BY <1>3
  <2>2. \A s \in SUBSET DOMAIN v : g[s] \in Int /\ \A y \in s : g[s] = v[y] + g[s \ {y}]
    BY <2>1, AddsAny
  <2>3. QED
    BY <2>2
<1>6. QED
  BY <1>2, <1>3, <1>4, <1>5

\* The sum of w over a part of what it is defined for.
SumOver(w, T) == SumFunction([x \in T |-> w[x]])

LEMMA SumOverStep ==
  ASSUME NEW S, IsFiniteSet(S), NEW w, \A x \in S : w[x] \in Int
  PROVE  /\ SumOver(w, {}) = 0
         /\ \A T \in SUBSET S : SumOver(w, T) \in Int
         /\ \A T \in SUBSET S : \A x \in S \ T : SumOver(w, T \cup {x}) = w[x] + SumOver(w, T)
<1>1. \A T \in SUBSET S : Summable([x \in T |-> w[x]])
  BY FS_Subset DEF Summable
<1>2. SumOver(w, {}) = 0
  BY SumOfNone DEF SumOver
<1>3. \A T \in SUBSET S : SumOver(w, T) \in Int
  BY <1>1, SumIsInt DEF SumOver
<1>4. ASSUME NEW T \in SUBSET S, NEW x \in S \ T
      PROVE  SumOver(w, T \cup {x}) = w[x] + SumOver(w, T)
  <2> DEFINE U == T \cup {x}
             v == [y \in U |-> w[y]]
             u == [y \in T |-> w[y]]
  <2>1. U \in SUBSET S /\ x \in U /\ U \ {x} = T
    BY <1>4
  <2>2. Summable(v)
    BY <1>1, <2>1
  <2>3. x \in DOMAIN v /\ DOMAIN u = DOMAIN v \ {x} /\ \A y \in DOMAIN u : u[y] = v[y]
    BY <2>1
  <2>4. v[x] = w[x]
    BY <2>1
  <2> HIDE DEF u, v
  <2>5. SumFunction(v) = v[x] + SumFunction(u)
    BY <2>2, <2>3, SumOfOneMore
  <2>6. QED
    BY <2>4, <2>5 DEF SumOver, u, v, U
<1>5. QED
  BY <1>2, <1>3, <1>4

LEMMA SumOverSame ==
  ASSUME NEW S, NEW v, NEW w, \A x \in S : v[x] = w[x]
  PROVE  SumOver(v, S) = SumOver(w, S)
<1>1. [x \in S |-> v[x]] = [x \in S |-> w[x]]
  OBVIOUS
<1>2. QED
  BY <1>1 DEF SumOver

LEMMA SumOfSums ==
  ASSUME NEW S, IsFiniteSet(S), NEW u, NEW v, NEW w,
         \A x \in S : v[x] \in Int /\ w[x] \in Int /\ u[x] = v[x] + w[x]
  PROVE  SumOver(u, S) = SumOver(v, S) + SumOver(w, S)
<1> DEFINE G == {T \in SUBSET S : SumOver(u, T) = SumOver(v, T) + SumOver(w, T)}
<1>1. \A x \in S : u[x] \in Int
  OBVIOUS
<1>2. /\ SumOver(u, {}) = 0
      /\ \A T \in SUBSET S : \A x \in S \ T : SumOver(u, T \cup {x}) = u[x] + SumOver(u, T)
  BY <1>1, SumOverStep
<1>3. /\ SumOver(v, {}) = 0
      /\ \A T \in SUBSET S : SumOver(v, T) \in Int
      /\ \A T \in SUBSET S : \A x \in S \ T : SumOver(v, T \cup {x}) = v[x] + SumOver(v, T)
  BY SumOverStep
<1>4. /\ SumOver(w, {}) = 0
      /\ \A T \in SUBSET S : SumOver(w, T) \in Int
      /\ \A T \in SUBSET S : \A x \in S \ T : SumOver(w, T \cup {x}) = w[x] + SumOver(w, T)
  BY SumOverStep
<1>5. {} \in G
  BY <1>2, <1>3, <1>4
<1>6. ASSUME NEW T \in SUBSET S, NEW x \in S \ T, T \in G PROVE T \cup {x} \in G
  <2>1. SumOver(u, T) = SumOver(v, T) + SumOver(w, T)
    BY <1>6
  <2>2. /\ SumOver(u, T \cup {x}) = u[x] + SumOver(u, T)
        /\ SumOver(v, T \cup {x}) = v[x] + SumOver(v, T)
        /\ SumOver(w, T \cup {x}) = w[x] + SumOver(w, T)
    BY <1>2, <1>3, <1>4
  <2>3. SumOver(v, T) \in Int /\ SumOver(w, T) \in Int /\ v[x] \in Int /\ w[x] \in Int
    BY <1>3, <1>4
  <2>4. SumOver(u, T \cup {x}) = SumOver(v, T \cup {x}) + SumOver(w, T \cup {x})
    BY <2>1, <2>2, <2>3
  <2>5. QED
    BY <2>4
<1> HIDE DEF G
<1>7. S \in G
  BY <1>5, <1>6, SetInduct
<1>8. QED
  BY <1>7 DEF G

LEMMA SumOfUnion ==
  ASSUME NEW S, IsFiniteSet(S), NEW w, \A x \in S : w[x] \in Int, NEW R \in SUBSET S
  PROVE  SumOver(w, S) = SumOver(w, R) + SumOver(w, S \ R)
<1> DEFINE rest == S \ R
           G == {T \in SUBSET rest : SumOver(w, R \cup T) = SumOver(w, R) + SumOver(w, T)}
<1>1. /\ SumOver(w, {}) = 0
      /\ \A T \in SUBSET S : SumOver(w, T) \in Int
      /\ \A T \in SUBSET S : \A x \in S \ T : SumOver(w, T \cup {x}) = w[x] + SumOver(w, T)
  BY SumOverStep
<1>2. {} \in G
  <2>1. R \cup {} = R /\ SumOver(w, R) \in Int
    BY <1>1
  <2>2. QED
    BY <1>1, <2>1
<1>3. ASSUME NEW T \in SUBSET rest, NEW x \in rest \ T, T \in G PROVE T \cup {x} \in G
  <2>1. R \cup T \in SUBSET S /\ T \in SUBSET S /\ x \in S \ (R \cup T) /\ x \in S \ T
    BY <1>3
  <2>2. R \cup (T \cup {x}) = (R \cup T) \cup {x}
    OBVIOUS
  <2>3. /\ SumOver(w, (R \cup T) \cup {x}) = w[x] + SumOver(w, R \cup T)
        /\ SumOver(w, T \cup {x}) = w[x] + SumOver(w, T)
        /\ SumOver(w, R) \in Int /\ SumOver(w, T) \in Int /\ w[x] \in Int
    BY <1>1, <2>1
  <2>4. SumOver(w, R \cup T) = SumOver(w, R) + SumOver(w, T)
    BY <1>3
  <2>5. SumOver(w, R \cup (T \cup {x})) = SumOver(w, R) + SumOver(w, T \cup {x})
    <3>1. SumOver(w, R \cup (T \cup {x})) = w[x] + SumOver(w, R \cup T)
      BY <2>2, <2>3
    <3> HIDE DEF G, rest
    <3>2. QED
      BY <2>3, <2>4, <3>1
  <2>6. QED
    BY <2>5, <1>3
<1>4. IsFiniteSet(rest)
  BY FS_Subset
<1>5. R \cup rest = S
  OBVIOUS
<1> HIDE DEF G
<1>6. rest \in G
  BY <1>2, <1>3, <1>4, SetInduct
<1>7. QED
  BY <1>5, <1>6 DEF G

LEMMA ImageIsFinite ==
  ASSUME NEW P, IsFiniteSet(P), NEW key
  PROVE  /\ IsFiniteSet({key[p] : p \in P})
         /\ (\A p, q \in P : key[p] = key[q] => p = q)
              => Cardinality({key[p] : p \in P}) = Cardinality(P)
<1> DEFINE f == [p \in P |-> key[p]]
           T == {key[p] : p \in P}
<1>1. f \in Surjection(P, T)
  BY DEF Surjection
<1>2. (\A p, q \in P : key[p] = key[q] => p = q) => f \in Injection(P, T)
  BY DEF Injection, IsInjective
<1> HIDE DEF f, T
<1>3. IsFiniteSet(T) /\ (f \in Injection(P, T) => Cardinality(T) = Cardinality(P))
  BY <1>1, FS_Surjection
<1>4. QED
  BY <1>2, <1>3 DEF T

\* A sum over P of what is at p's key, where no two have the same key.
LEMMA SumReindexed ==
  ASSUME NEW P, IsFiniteSet(P), NEW key, \A p, q \in P : key[p] = key[q] => p = q,
         NEW v, NEW w, \A p \in P : v[p] \in Int /\ w[key[p]] = v[p]
  PROVE  SumOver(v, P) = SumOver(w, {key[p] : p \in P})
<1> DEFINE Keys(T) == {key[p] : p \in T}
           G == {T \in SUBSET P : SumOver(v, T) = SumOver(w, Keys(T))}
<1>1. IsFiniteSet(Keys(P)) /\ \A k \in Keys(P) : w[k] \in Int
  BY ImageIsFinite
<1> HIDE DEF Keys
<1>2. /\ SumOver(w, {}) = 0
      /\ \A T \in SUBSET Keys(P) : \A x \in Keys(P) \ T : SumOver(w, T \cup {x}) = w[x] + SumOver(w, T)
  BY <1>1, SumOverStep
<1>3. /\ SumOver(v, {}) = 0
      /\ \A T \in SUBSET P : \A x \in P \ T : SumOver(v, T \cup {x}) = v[x] + SumOver(v, T)
  BY SumOverStep
<1>4. {} \in G
  <2>1. Keys({}) = {}
    BY DEF Keys
  <2>2. QED
    BY <1>2, <1>3, <2>1
<1>5. ASSUME NEW T \in SUBSET P, NEW p \in P \ T, T \in G PROVE T \cup {p} \in G
  <2>1. /\ Keys(T) \in SUBSET Keys(P) /\ Keys(T \cup {p}) = Keys(T) \cup {key[p]}
        /\ key[p] \in Keys(P) \ Keys(T)
    BY <1>5 DEF Keys
  <2>2. /\ SumOver(w, Keys(T) \cup {key[p]}) = w[key[p]] + SumOver(w, Keys(T))
        /\ SumOver(v, T \cup {p}) = v[p] + SumOver(v, T)
    BY <1>2, <1>3, <2>1
  <2>3. SumOver(v, T) = SumOver(w, Keys(T)) /\ w[key[p]] = v[p]
    BY <1>5
  <2>4. SumOver(v, T \cup {p}) = SumOver(w, Keys(T \cup {p}))
    BY <2>1, <2>2, <2>3
  <2>5. QED
    BY <2>4, <1>5
<1> HIDE DEF G
<1>6. P \in G
  BY <1>4, <1>5, SetInduct
<1>7. QED
  BY <1>6 DEF G, Keys

-----------------------------------------------------------------------------
(* Orders, and the greedy loop.                                             *)

\* A strict order of all elements of P.
Orders(before, P) ==
  /\ \A p \in P : <<p, p>> \notin before
  /\ \A p, q \in P : p # q => <<p, q>> \in before \/ <<q, p>> \in before
  /\ \A p, q, r \in P : <<p, q>> \in before /\ <<q, r>> \in before => <<p, r>> \in before

LEMMA FirstExists ==
  ASSUME NEW P, IsFiniteSet(P), NEW before, Orders(before, P), NEW S \in SUBSET P, S # {}
  PROVE  \E p \in S : \A q \in S \ {p} : <<p, q>> \in before
<1> DEFINE HasFirst(T) == \E p \in T : \A q \in T \ {p} : <<p, q>> \in before
           G == {T \in SUBSET S : T # {} => HasFirst(T)}
<1>1. {} \in G
  OBVIOUS
<1>2. ASSUME NEW T \in SUBSET S, NEW x \in S \ T, T \in G PROVE T \cup {x} \in G
  <2>1. CASE T = {}
    <3>1. HasFirst({x})
      OBVIOUS
    <3>2. T \cup {x} = {x}
      BY <2>1
    <3> HIDE DEF HasFirst
    <3>3. QED
      BY <3>1, <3>2
  <2>2. CASE T # {}
    <3>1. PICK p \in T : \A q \in T \ {p} : <<p, q>> \in before
      BY <1>2, <2>2
    <3>2. p \in P /\ x \in P /\ p # x /\ T \in SUBSET P
      OBVIOUS
    <3>3. CASE <<p, x>> \in before
      <4>1. \A q \in (T \cup {x}) \ {p} : <<p, q>> \in before
        BY <3>1, <3>3
      <4>2. HasFirst(T \cup {x})
        BY <4>1
      <4>3. QED
        BY <4>2
    <3>4. CASE <<x, p>> \in before
      <4>1. \A q \in (T \cup {x}) \ {x} : <<x, q>> \in before
        BY <3>1, <3>2, <3>4 DEF Orders
      <4>2. HasFirst(T \cup {x})
        BY <4>1
      <4>3. QED
        BY <4>2
    <3>5. QED
      BY <3>2, <3>3, <3>4 DEF Orders
  <2>3. QED
    BY <2>1, <2>2
<1>3. IsFiniteSet(S)
  BY FS_Subset
<1> HIDE DEF G
<1>4. S \in G
  BY <1>1, <1>2, <1>3, SetInduct
<1>5. QED
  BY <1>4 DEF G

\* What the loop leaves of the pairs once p is taken.
Conflict(p, q) == p[1] = q[1] \/ p[2] = q[2]
FirstOf(S, before) == CHOOSE p \in S : \A q \in S \ {p} : <<p, q>> \in before
Rest(S, p) == {q \in S : q[1] # p[1] /\ q[2] # p[2]}

LEMMA FirstIsFirst ==
  ASSUME NEW P, IsFiniteSet(P), NEW before, Orders(before, P), NEW S \in SUBSET P, S # {}
  PROVE  /\ FirstOf(S, before) \in S
         /\ \A q \in S \ {FirstOf(S, before)} : <<FirstOf(S, before), q>> \in before
         /\ Rest(S, FirstOf(S, before)) \in SUBSET S /\ Rest(S, FirstOf(S, before)) # S
<1> DEFINE p == FirstOf(S, before)
<1>1. \E x \in S : \A q \in S \ {x} : <<x, q>> \in before
  BY FirstExists
<1>2. p \in S /\ \A q \in S \ {p} : <<p, q>> \in before
  BY <1>1 DEF FirstOf
<1>3. p \notin Rest(S, p) /\ Rest(S, p) \in SUBSET S
  BY DEF Rest
<1> HIDE DEF p
<1>4. Rest(S, p) # S
  BY <1>2, <1>3
<1>5. QED
  BY <1>2, <1>3, <1>4 DEF p

\* The equation by which Greedy is defined.
Takes(g, pairs, before) ==
  g = [S \in SUBSET pairs |->
         IF S = {} THEN {}
         ELSE LET first == CHOOSE p \in S : \A q \in S \ {p} : <<p, q>> \in before
              IN  {first} \cup g[{q \in S : q[1] # first[1] /\ q[2] # first[2]}]]

LEMMA GreedySolves ==
  ASSUME NEW pairs, IsFiniteSet(pairs), NEW before, Orders(before, pairs)
  PROVE  \E g : /\ Greedy(pairs, before) = g[pairs]
               /\ g[{}] = {}
               /\ \A S \in SUBSET pairs : S # {} =>
                    g[S] = {FirstOf(S, before)} \cup g[Rest(S, FirstOf(S, before))]
<1> DEFINE f(S) == FirstOf(S, before)
           A == SUBSET pairs
           d == [S \in SUBSET pairs |-> Rest(S, f(S))]
           h == [p \in (SUBSET pairs) \X A |-> {f(p[1])} \cup p[2]]
           g0 == CHOOSE g : Takes(g, pairs, before)
<1>1. \A S \in SUBSET pairs : S # {} =>
        f(S) \in S /\ Rest(S, f(S)) \in SUBSET S /\ Rest(S, f(S)) # S
  BY FirstIsFirst
<1> HIDE DEF f, g0
<1>2. \A S \in SUBSET pairs : d[S] = Rest(S, f(S)) /\ \A v \in A : h[<<S, v>>] = {f(S)} \cup v
  OBVIOUS
<1> HIDE DEF d, h
<1>3. Shrinks(d, pairs)
  BY <1>1, <1>2 DEF Shrinks
<1>4. Operates(h, pairs, A)
  <2>1. ASSUME NEW S \in SUBSET pairs, NEW v \in A, S # {} PROVE h[<<S, v>>] \in A
    <3>1. h[<<S, v>>] = {f(S)} \cup v /\ f(S) \in pairs
      BY <1>1, <1>2, <2>1
    <3>2. QED
      BY <3>1
  <2>2. QED
    BY <2>1 DEF Operates
<1>5. PICK g \in [SUBSET pairs -> A] : Recurs(g, pairs, {}, d, h)
  <2>1. {} \in A
    OBVIOUS
  <2> HIDE DEF A
  <2>2. QED
    BY <1>3, <1>4, <2>1, RecursionExists
<1>6. \A S \in SUBSET pairs : S # {} => h[<<S, g[d[S]]>>] = {f(S)} \cup g[Rest(S, f(S))]
  <2>1. ASSUME NEW S \in SUBSET pairs, S # {}
        PROVE  h[<<S, g[d[S]]>>] = {f(S)} \cup g[Rest(S, f(S))]
    <3>1. d[S] \in SUBSET pairs /\ d[S] = Rest(S, f(S))
      BY <1>1, <1>2, <2>1
    <3>2. g[d[S]] \in A
      BY <3>1
    <3>3. QED
      BY <1>2, <3>1, <3>2
  <2>2. QED
    BY <2>1
<1>7. g = [S \in SUBSET pairs |-> IF S = {} THEN {} ELSE {f(S)} \cup g[Rest(S, f(S))]]
  BY <1>5, <1>6 DEF Recurs
<1>8. Takes(g, pairs, before)
  BY <1>7 DEF Takes, f, FirstOf, Rest
<1>9. Takes(g0, pairs, before)
  BY <1>8 DEF g0
<1>10. Greedy(pairs, before) = g0[pairs]
  BY DEF Greedy, Takes, g0
<1>11. g0 = [S \in SUBSET pairs |-> IF S = {} THEN {} ELSE {f(S)} \cup g0[Rest(S, f(S))]]
  BY <1>9 DEF Takes, f, FirstOf, Rest
<1>12. \A S \in SUBSET pairs : g0[S] = IF S = {} THEN {} ELSE {f(S)} \cup g0[Rest(S, f(S))]
  <2> DEFINE v(S) == IF S = {} THEN {} ELSE {f(S)} \cup g0[Rest(S, f(S))]
             w == [S \in SUBSET pairs |-> v(S)]
  <2>1. \A S \in SUBSET pairs : w[S] = v(S)
    OBVIOUS
  <2>2. g0 = w
    BY <1>11
  <2> HIDE DEF w, v
  <2>3. \A S \in SUBSET pairs : g0[S] = v(S)
    BY <2>1, <2>2
  <2>4. QED
    BY <2>3 DEF v
<1>13. g0[{}] = {}
  BY <1>12
<1>14. \A S \in SUBSET pairs : S # {} => g0[S] = {f(S)} \cup g0[Rest(S, f(S))]
  BY <1>12
<1>15. QED
  BY <1>10, <1>13, <1>14 DEF f

\* What the loop takes of S: the pairs that conflict with no earlier pair it takes.
Kernel(M, S, before) ==
  /\ M \in SUBSET S
  /\ \A p \in S : p \in M <=> \A q \in M : q # p /\ Conflict(q, p) => <<q, p>> \notin before

LEMMA GreedyIsKernel ==
  ASSUME NEW pairs, IsFiniteSet(pairs), NEW before, Orders(before, pairs)
  PROVE  Kernel(Greedy(pairs, before), pairs, before)
<1>1. PICK g : /\ Greedy(pairs, before) = g[pairs]
               /\ g[{}] = {}
               /\ \A S \in SUBSET pairs : S # {} =>
                    g[S] = {FirstOf(S, before)} \cup g[Rest(S, FirstOf(S, before))]
  BY GreedySolves
<1> DEFINE Done == {k \in Nat : \A S \in SUBSET pairs : Cardinality(S) <= k => Kernel(g[S], S, before)}
<1>2. \A S \in SUBSET pairs : Cardinality(S) \in Nat /\ (Cardinality(S) = 0 <=> S = {})
  BY SubsetFacts
<1>3. Kernel(g[{}], {}, before)
  BY <1>1 DEF Kernel
<1>4. 0 \in Done
  <2>1. \A S \in SUBSET pairs : Cardinality(S) <= 0 => S = {}
    BY <1>2
  <2>2. QED
    BY <1>3, <2>1
<1>5. ASSUME NEW k \in Nat, k \in Done PROVE k + 1 \in Done
  <2> SUFFICES ASSUME NEW S \in SUBSET pairs, Cardinality(S) <= k + 1, S # {}
               PROVE  Kernel(g[S], S, before)
    BY <1>3
  <2> DEFINE f == FirstOf(S, before)
             R == Rest(S, f)
             K == g[R]
  <2>1. f \in S /\ (\A q \in S \ {f} : <<f, q>> \in before) /\ R \in SUBSET S /\ R # S
    BY FirstIsFirst
  <2>2. g[S] = {f} \cup K
    BY <1>1
  <2>3. \A q \in S : q \in R <=> ~Conflict(f, q)
    BY DEF Rest, Conflict
  <2> HIDE DEF f, R
  <2>4. Cardinality(R) <= k
    <3>1. IsFiniteSet(S) /\ R \in SUBSET S /\ R # S
      BY <2>1, FS_Subset
    <3>2. Cardinality(R) < Cardinality(S)
      BY <3>1, SubsetFacts
    <3>3. Cardinality(R) \in Nat /\ Cardinality(S) \in Nat
      BY <1>2, <2>1
    <3>4. QED
      BY <3>2, <3>3
  <2>5. R \in SUBSET pairs
    BY <2>1
  <2>6. Kernel(K, R, before)
    BY <1>5, <2>4, <2>5
  <2> HIDE DEF K, Done
  <2> USE DEF Kernel
  <2>7. K \in SUBSET R /\ {f} \cup K \in SUBSET S
    BY <2>1, <2>6
  <2>8. \A q \in S \ {f} : <<q, f>> \notin before
    BY <2>1 DEF Orders
  <2>9. ASSUME NEW p \in S
        PROVE  p \in {f} \cup K <=>
                 \A q \in {f} \cup K : q # p /\ Conflict(q, p) => <<q, p>> \notin before
    <3>1. CASE p = f
      BY <2>7, <2>8, <3>1
    <3>2. CASE p # f /\ p \in R
      <4>1. p \in K <=> \A q \in K : q # p /\ Conflict(q, p) => <<q, p>> \notin before
        BY <2>6, <3>2
      <4>2. ~Conflict(f, p)
        BY <2>3, <3>2
      <4>3. QED
        BY <3>2, <4>1, <4>2
    <3>3. CASE p # f /\ p \notin R
      <4>1. Conflict(f, p) /\ <<f, p>> \in before /\ p \notin K
        BY <2>1, <2>3, <2>7, <3>3
      <4>2. QED
        BY <3>3, <4>1
    <3>4. QED
      BY <3>1, <3>2, <3>3
  <2>10. QED
    BY <2>2, <2>7, <2>9
<1> HIDE DEF Done
<1>6. Nat \subseteq Done
  BY <1>4, <1>5, Induct
<1>7. Kernel(g[pairs], pairs, before)
  <2>1. pairs \in SUBSET pairs /\ Cardinality(pairs) \in Nat
    BY <1>2
  <2>2. Cardinality(pairs) \in Done
    BY <1>6, <2>1
  <2>3. QED
    BY <2>1, <2>2 DEF Done
<1>8. QED
  BY <1>1, <1>7

\* What is taken depends on the order of conflicting pairs only.
AgreeOnConflicts(S, b, c) ==
  \A p, q \in S : p # q /\ Conflict(p, q) => (<<p, q>> \in b <=> <<p, q>> \in c)

LEMMA KernelIsUnique ==
  ASSUME NEW S, IsFiniteSet(S), NEW b, NEW c, Orders(b, S), AgreeOnConflicts(S, b, c),
         NEW M, Kernel(M, S, b), NEW N, Kernel(N, S, c)
  PROVE  M = N
<1> DEFINE D == {p \in S : ~(p \in M <=> p \in N)}
<1> SUFFICES ASSUME D # {} PROVE FALSE
  BY DEF Kernel
<1>1. D \in SUBSET S
  OBVIOUS
<1>2. PICK p \in D : \A q \in D \ {p} : <<p, q>> \in b
  <2> HIDE DEF D
  <2> QED
    BY <1>1, FirstExists
<1>3. M \in SUBSET S /\ N \in SUBSET S /\ p \in S
  BY DEF Kernel
<1>4. \A q \in D \ {p} : <<q, p>> \notin b
  BY <1>2, <1>3 DEF Orders
<1>5. CASE p \in M /\ p \notin N
  <2>1. PICK q \in N : q # p /\ Conflict(q, p) /\ <<q, p>> \in c
    BY <1>3, <1>5 DEF Kernel
  <2>2. <<q, p>> \in b
    BY <1>3, <2>1 DEF AgreeOnConflicts
  <2>3. q \notin M
    BY <1>3, <1>5, <2>1, <2>2 DEF Kernel
  <2>4. q \in D \ {p}
    BY <1>3, <2>1, <2>3
  <2>5. QED
    BY <1>4, <2>2, <2>4
<1>6. CASE p \in N /\ p \notin M
  <2>1. PICK q \in M : q # p /\ Conflict(q, p) /\ <<q, p>> \in b
    BY <1>3, <1>6 DEF Kernel
  <2>2. <<q, p>> \in c
    BY <1>3, <2>1 DEF AgreeOnConflicts
  <2>3. q \notin N
    BY <1>3, <1>6, <2>1, <2>2 DEF Kernel
  <2>4. q \in D \ {p}
    BY <1>3, <2>1, <2>3
  <2>5. QED
    BY <1>4, <2>1, <2>4
<1>7. QED
  BY <1>5, <1>6

\* No detection is in two of the pairs that are taken.
LEMMA KernelIsMatching ==
  ASSUME NEW S, NEW before, Orders(before, S), NEW M, Kernel(M, S, before)
  PROVE  \A p, q \in M : Conflict(p, q) => p = q
<1> SUFFICES ASSUME NEW p \in M, NEW q \in M, Conflict(p, q), p # q PROVE FALSE
  OBVIOUS
<1>1. p \in S /\ q \in S /\ Conflict(q, p)
  BY DEF Kernel, Conflict
<1>2. <<p, q>> \notin before /\ <<q, p>> \notin before
  BY <1>1 DEF Kernel
<1>3. QED
  BY <1>1, <1>2 DEF Orders

\* The same with reference and candidate swapped.
Swap(p) == <<p[2], p[1]>>
Swapped(S) == {Swap(p) : p \in S}

LEMMA SwapFacts ==
  ASSUME NEW X, NEW Y, NEW S \in SUBSET (X \X Y)
  PROVE  /\ \A p \in S : Swap(Swap(p)) = p /\ Swap(p) \in Swapped(S)
         /\ \A p \in Swapped(S) : Swap(Swap(p)) = p /\ Swap(p) \in S
         /\ Swapped(S) \in SUBSET (Y \X X)
         /\ Swapped(Swapped(S)) = S
<1>1. \A p \in S : p = <<p[1], p[2]>>
  OBVIOUS
<1>2. \A p \in S : Swap(Swap(p)) = p /\ Swap(p) \in Swapped(S)
  BY <1>1 DEF Swap, Swapped
<1>3. \A p \in Swapped(S) : Swap(Swap(p)) = p /\ Swap(p) \in S
  BY <1>2 DEF Swapped
<1>4. Swapped(S) \in SUBSET (Y \X X)
  BY DEF Swap, Swapped
<1>5. Swapped(Swapped(S)) = S
  BY <1>2, <1>3 DEF Swapped
<1>6. QED
  BY <1>2, <1>3, <1>4, <1>5

LEMMA KernelSwapped ==
  ASSUME NEW X, NEW Y, NEW S \in SUBSET (X \X Y), NEW b, NEW M, Kernel(M, S, b),
         NEW c, \A p, q \in S : <<p, q>> \in b <=> <<Swap(p), Swap(q)>> \in c
  PROVE  Kernel(Swapped(M), Swapped(S), c)
<1>1. M \in SUBSET S
  BY DEF Kernel
<1>2. Swapped(M) \in SUBSET Swapped(S)
  BY <1>1 DEF Swapped
<1>3. ASSUME NEW p \in Swapped(S)
      PROVE  p \in Swapped(M)
               <=> \A q \in Swapped(M) : q # p /\ Conflict(q, p) => <<q, p>> \notin c
  <2> DEFINE o == Swap(p)
  <2>1. o \in S /\ p = Swap(o) /\ \A q \in M : Swap(q) = p <=> q = o
    <3>1. o \in S /\ p = Swap(o)
      BY SwapFacts
    <3>2. \A q \in M : Swap(Swap(q)) = q
      BY <1>1, SwapFacts
    <3>3. QED
      BY <3>1, <3>2
  <2> HIDE DEF o
  <2>2. p \in Swapped(M) <=> o \in M
    BY <2>1 DEF Swapped
  <2>3. \A q \in M : Conflict(q, o) <=> Conflict(Swap(q), p)
    BY <2>1 DEF Conflict, Swap
  <2>4. o \in M <=> \A q \in M : q # o /\ Conflict(q, o) => <<q, o>> \notin b
    BY <2>1 DEF Kernel
  <2>5. \A q \in M : <<q, o>> \in b <=> <<Swap(q), p>> \in c
    BY <1>1, <2>1
  <2>6. (\A q \in Swapped(M) : q # p /\ Conflict(q, p) => <<q, p>> \notin c)
          <=> \A q \in M : q # o /\ Conflict(q, o) => <<q, o>> \notin b
    BY <2>1, <2>3, <2>5 DEF Swapped
  <2>7. QED
    BY <2>2, <2>4, <2>6
<1>4. QED
  BY <1>2, <1>3 DEF Kernel

-----------------------------------------------------------------------------
(* IoUs are fractions; the two orders of the pairs.                         *)

Fractions == Int \X (Nat \ {0})

LEMMA Cancels ==
  ASSUME NEW a \in Int, NEW b \in Int, NEW c \in Nat \ {0}
  PROVE  /\ a * c > b * c => a > b
         /\ a > b => a * c > b * c
         /\ a * c = b * c => a = b
BY SMTT(30)

LEMMA FractionOrder ==
  ASSUME NEW p \in Fractions, NEW q \in Fractions
  PROVE  /\ ~Above(p, p) /\ Ties(p, p)
         /\ Above(p, q) \/ Above(q, p) \/ Ties(p, q)
         /\ Above(p, q) => ~Above(q, p) /\ ~Ties(p, q) /\ ~Ties(q, p)
         /\ Ties(p, q) => Ties(q, p)
<1>1. p[1] * q[2] \in Int /\ q[1] * p[2] \in Int /\ p[1] * p[2] \in Int
  BY DEF Fractions
<1> DEFINE x == p[1] * q[2]
           y == q[1] * p[2]
           z == p[1] * p[2]
<1> HIDE DEF x, y, z
<1>2. (x > y \/ y > x \/ x = y) /\ (x > y => ~(y > x) /\ x # y) /\ ~(z > z)
  BY <1>1 DEF x, y, z
<1>3. QED
  BY <1>2 DEF Above, Ties, x, y, z

LEMMA AboveTransitive ==
  ASSUME NEW p \in Fractions, NEW q \in Fractions, NEW r \in Fractions
  PROVE  /\ Above(p, q) /\ Above(q, r) => Above(p, r)
         /\ Above(p, q) /\ Ties(q, r) => Above(p, r)
         /\ Ties(p, q) /\ Above(q, r) => Above(p, r)
         /\ Ties(p, q) /\ Ties(q, r) => Ties(p, r)
<1> DEFINE a == p[1]
           b == p[2]
           c == q[1]
           d == q[2]
           e == r[1]
           f == r[2]
<1>1. /\ a \in Int /\ c \in Int /\ e \in Int
      /\ b \in Nat \ {0} /\ d \in Nat \ {0} /\ f \in Nat \ {0}
  BY DEF Fractions
<1> HIDE DEF a, b, c, d, e, f
<1>2. /\ a * d \in Int /\ c * b \in Int /\ c * f \in Int /\ e * d \in Int
      /\ a * f \in Int /\ e * b \in Int
  BY <1>1
<1>3. /\ (a * d) * f = (a * f) * d
      /\ (c * b) * f = (c * f) * b
      /\ (e * d) * b = (e * b) * d
  BY <1>1, SMTT(30)
<1>4. /\ (a * f) * d > (e * b) * d => a * f > e * b
      /\ (a * f) * d = (e * b) * d => a * f = e * b
  BY <1>1, <1>2, Cancels
<1>5. /\ a * d > c * b => (a * d) * f > (c * b) * f
      /\ a * d = c * b => (a * d) * f = (c * b) * f
      /\ c * f > e * d => (c * f) * b > (e * d) * b
      /\ c * f = e * d => (c * f) * b = (e * d) * b
  BY <1>1, <1>2, Cancels
<1> DEFINE x == (a * d) * f
           y == (c * b) * f
           z == (e * d) * b
<1>6. x \in Int /\ y \in Int /\ z \in Int
  BY <1>1, <1>2
<1> HIDE DEF x, y, z
<1>7. /\ Above(p, q) => x > y
      /\ Ties(p, q) => x = y
      /\ Above(q, r) => y > z
      /\ Ties(q, r) => y = z
      /\ x > z => Above(p, r)
      /\ x = z => Ties(p, r)
  BY <1>3, <1>4, <1>5 DEF Above, Ties, x, y, z, a, b, c, d, e, f
<1>8. QED
  BY <1>6, <1>7

\* A frame of which every box can be computed.
IsFrame(dets) == dets \in Seq(Detections) /\ \A i \in DOMAIN dets : Readable(dets[i])

LEMMA ReadableFields ==
  ASSUME NEW d \in Detections, Readable(d)
  PROVE  /\ d.cx \in Int /\ d.cy \in Int /\ d.w \in Int /\ d.h \in Int
         /\ ScoreOf(d) \in Int \cup {None}
<1>1. /\ d.cx \in Numbers /\ d.cy \in Numbers /\ d.w \in Numbers /\ d.h \in Numbers
      /\ d.result \in {None} \cup [class : STRING, score : Numbers]
  BY DEF Detections
<1>2. /\ d.cx # NotFinite /\ d.cy # NotFinite /\ d.w # NotFinite /\ d.h # NotFinite
      /\ ScoreOf(d) # NotFinite
  BY DEF Readable
<1>3. ScoreOf(d) \in Int \cup {None}
  <2>1. d.result # None => d.result.score \in Numbers
    BY <1>1
  <2>2. QED
    BY <1>2, <2>1 DEF ScoreOf, Numbers
<1>4. QED
  BY <1>1, <1>2, <1>3 DEF Numbers

LEMMA BoxCorners ==
  ASSUME NEW d \in Detections, Readable(d)
  PROVE  Box(d)[1] \in Int /\ Box(d)[2] \in Int /\ Box(d)[3] \in Int /\ Box(d)[4] \in Int
BY ReadableFields DEF Box

Overlap(lo, hi, low, high) == Greatest(0, Least(hi, high) - Greatest(lo, low))
Ratio(n, u) == IF u > 0 THEN <<n, u>> ELSE <<0, 1>>

OfCorners(a1, a2, a3, a4, b1, b2, b3, b4) ==
  LET n == Overlap(a1, a3, b1, b3) * Overlap(a2, a4, b2, b4)
  IN  Ratio(n, ((a3 - a1) * (a4 - a2) + (b3 - b1) * (b4 - b2)) - n)

LEMMA IoUIsRatio ==
  ASSUME NEW a, a[1] \in Int, a[2] \in Int, a[3] \in Int, a[4] \in Int,
         NEW b, b[1] \in Int, b[2] \in Int, b[3] \in Int, b[4] \in Int
  PROVE  IoU(a, b) = OfCorners(a[1], a[2], a[3], a[4], b[1], b[2], b[3], b[4])
<1> DEFINE s == (a[3] - a[1]) * (a[4] - a[2])
           t == (b[3] - b[1]) * (b[4] - b[2])
           n == Overlap(a[1], a[3], b[1], b[3]) * Overlap(a[2], a[4], b[2], b[4])
<1>1. IoU(a, b) = Ratio(n, s + (t - n))
  BY Zenon DEF IoU, Ratio, Overlap
<1>2. OfCorners(a[1], a[2], a[3], a[4], b[1], b[2], b[3], b[4]) = Ratio(n, (s + t) - n)
  BY Zenon DEF OfCorners
<1>3. \A lo, hi, low, high \in Int : Overlap(lo, hi, low, high) \in Int
  BY DEF Overlap, Least, Greatest
<1>4. Overlap(a[1], a[3], b[1], b[3]) \in Int /\ Overlap(a[2], a[4], b[2], b[4]) \in Int
  BY <1>3
<1>5. s \in Int /\ t \in Int /\ n \in Int
  BY <1>4
<1> HIDE DEF s, t, n
<1>6. s + (t - n) = (s + t) - n
  BY <1>5
<1>7. QED
  BY <1>1, <1>2, <1>6

\* The IoU of two boxes, whichever is first.
LEMMA IoUIsFraction ==
  ASSUME NEW a, a[1] \in Int, a[2] \in Int, a[3] \in Int, a[4] \in Int,
         NEW b, b[1] \in Int, b[2] \in Int, b[3] \in Int, b[4] \in Int
  PROVE  IoU(a, b) \in Fractions /\ IoU(a, b) = IoU(b, a)
<1> DEFINE a1 == a[1]  a2 == a[2]  a3 == a[3]  a4 == a[4]
           b1 == b[1]  b2 == b[2]  b3 == b[3]  b4 == b[4]
<1>1. /\ a1 \in Int /\ a2 \in Int /\ a3 \in Int /\ a4 \in Int
      /\ b1 \in Int /\ b2 \in Int /\ b3 \in Int /\ b4 \in Int
  OBVIOUS
<1>2. /\ IoU(a, b) = OfCorners(a1, a2, a3, a4, b1, b2, b3, b4)
      /\ IoU(b, a) = OfCorners(b1, b2, b3, b4, a1, a2, a3, a4)
  BY IoUIsRatio
<1> HIDE DEF a1, a2, a3, a4, b1, b2, b3, b4
<1> DEFINE iw == Overlap(a1, a3, b1, b3)
           ih == Overlap(a2, a4, b2, b4)
           s == (a3 - a1) * (a4 - a2)
           t == (b3 - b1) * (b4 - b2)
           n == iw * ih
<1>3. \A lo, hi, low, high \in Int : Overlap(lo, hi, low, high) \in Int
  BY DEF Overlap, Least, Greatest
<1>4. iw \in Int /\ ih \in Int
  BY <1>1, <1>3
<1>5. iw = Overlap(b1, b3, a1, a3) /\ ih = Overlap(b2, b4, a2, a4)
  <2>1. iw = Overlap(b1, b3, a1, a3)
    BY <1>1 DEF iw, Overlap, Least, Greatest
  <2>2. ih = Overlap(b2, b4, a2, a4)
    BY <1>1 DEF ih, Overlap, Least, Greatest
  <2>3. QED
    BY <2>1, <2>2
<1>6. s \in Int /\ t \in Int
  BY <1>1
<1> HIDE DEF iw, ih, s, t
<1>7. n \in Int
  BY <1>4
<1> HIDE DEF n
<1>8. OfCorners(a1, a2, a3, a4, b1, b2, b3, b4) = Ratio(n, (s + t) - n)
  BY Zenon DEF OfCorners, n, iw, ih, s, t
<1>9. OfCorners(b1, b2, b3, b4, a1, a2, a3, a4) = Ratio(n, (t + s) - n)
  <2> DEFINE m == Overlap(b1, b3, a1, a3) * Overlap(b2, b4, a2, a4)
  <2>1. OfCorners(b1, b2, b3, b4, a1, a2, a3, a4) = Ratio(m, (t + s) - m)
    BY Zenon DEF OfCorners, s, t
  <2>2. m = n
    BY <1>5, Zenon DEF n
  <2> HIDE DEF m
  <2>3. QED
    BY <2>1, <2>2
<1>10. s + t = t + s /\ (s + t) - n \in Int
  BY <1>6, <1>7
<1> DEFINE u == (s + t) - n
<1> HIDE DEF u
<1>11. Ratio(n, u) \in Fractions
  BY <1>7, <1>10 DEF Fractions, Ratio, u
<1>12. QED
  BY <1>2, <1>8, <1>9, <1>10, <1>11 DEF u

LEMMA PairIoUFacts ==
  ASSUME NEW ref, IsFrame(ref), NEW cand, IsFrame(cand),
         NEW p \in (DOMAIN ref) \X (DOMAIN cand)
  PROVE  /\ PairIoU(ref, cand, p) \in Fractions
         /\ PairIoU(cand, ref, Swap(p)) = PairIoU(ref, cand, p)
<1>1. ref[p[1]] \in Detections /\ Readable(ref[p[1]])
  BY DEF IsFrame
<1>2. cand[p[2]] \in Detections /\ Readable(cand[p[2]])
  BY DEF IsFrame
<1> DEFINE a == Box(ref[p[1]])
           b == Box(cand[p[2]])
<1>3. a[1] \in Int /\ a[2] \in Int /\ a[3] \in Int /\ a[4] \in Int
  BY <1>1, BoxCorners
<1>4. b[1] \in Int /\ b[2] \in Int /\ b[3] \in Int /\ b[4] \in Int
  BY <1>2, BoxCorners
<1>5. PairIoU(ref, cand, p) = IoU(a, b) /\ PairIoU(cand, ref, Swap(p)) = IoU(b, a)
  BY DEF PairIoU, Swap
<1> HIDE DEF a, b
<1>6. IoU(a, b) \in Fractions /\ IoU(a, b) = IoU(b, a)
  BY <1>3, <1>4, IoUIsFraction
<1>7. QED
  BY <1>5, <1>6

LEMMA FrameFacts ==
  ASSUME NEW ref, IsFrame(ref), NEW cand, IsFrame(cand)
  PROVE  /\ Len(ref) \in Nat /\ DOMAIN ref = 1..Len(ref)
         /\ IsFiniteSet((DOMAIN ref) \X (DOMAIN cand))
         /\ \A p \in (DOMAIN ref) \X (DOMAIN cand) : p[1] \in Int /\ p[2] \in Int /\ p = <<p[1], p[2]>>
<1>1. Len(ref) \in Nat /\ DOMAIN ref = 1..Len(ref) /\ Len(cand) \in Nat /\ DOMAIN cand = 1..Len(cand)
  BY DEF IsFrame
<1>2. IsFiniteSet(DOMAIN ref) /\ IsFiniteSet(DOMAIN cand)
  BY <1>1, FS_Interval
<1>3. IsFiniteSet((DOMAIN ref) \X (DOMAIN cand))
  BY <1>2, FS_Product
<1>4. QED
  BY <1>1, <1>3

\* Falling IoU, and an order of the positions for equal ones.
ByIoU(ref, cand, P, later) ==
  {r \in P \X P : \/ Above(PairIoU(ref, cand, r[1]), PairIoU(ref, cand, r[2]))
                  \/ /\ Ties(PairIoU(ref, cand, r[1]), PairIoU(ref, cand, r[2]))
                     /\ r \in later}

LEMMA IoUOrders ==
  ASSUME NEW ref, IsFrame(ref), NEW cand, IsFrame(cand),
         NEW P \in SUBSET ((DOMAIN ref) \X (DOMAIN cand)), NEW later, Orders(later, P)
  PROVE  Orders(ByIoU(ref, cand, P, later), P)
<1> DEFINE v(p) == PairIoU(ref, cand, p)
           b == ByIoU(ref, cand, P, later)
<1>1. \A p \in P : v(p) \in Fractions
  BY PairIoUFacts
<1>2. \A p, q \in P : <<p, q>> \in b <=> Above(v(p), v(q)) \/ (Ties(v(p), v(q)) /\ <<p, q>> \in later)
  BY DEF ByIoU
<1> HIDE DEF v, b
<1>3. \A p \in P : <<p, p>> \notin b
  BY <1>1, <1>2, FractionOrder DEF Orders
<1>4. ASSUME NEW p \in P, NEW q \in P, p # q PROVE <<p, q>> \in b \/ <<q, p>> \in b
  <2>1. Above(v(p), v(q)) \/ Above(v(q), v(p)) \/ (Ties(v(p), v(q)) /\ Ties(v(q), v(p)))
    BY <1>1, FractionOrder
  <2>2. <<p, q>> \in later \/ <<q, p>> \in later
    BY <1>4 DEF Orders
  <2>3. QED
    BY <1>2, <2>1, <2>2
<1>5. ASSUME NEW p \in P, NEW q \in P, NEW r \in P, <<p, q>> \in b, <<q, r>> \in b
      PROVE  <<p, r>> \in b
  <2>1. v(p) \in Fractions /\ v(q) \in Fractions /\ v(r) \in Fractions
    BY <1>1
  <2>2. <<p, q>> \in later /\ <<q, r>> \in later => <<p, r>> \in later
    BY DEF Orders
  <2>3. /\ Above(v(p), v(q)) \/ (Ties(v(p), v(q)) /\ <<p, q>> \in later)
        /\ Above(v(q), v(r)) \/ (Ties(v(q), v(r)) /\ <<q, r>> \in later)
    BY <1>2, <1>5
  <2>4. Above(v(p), v(r)) \/ (Ties(v(p), v(r)) /\ <<p, r>> \in later)
    BY <2>1, <2>2, <2>3, AboveTransitive
  <2>5. QED
    BY <1>2, <2>4
<1>6. QED
  BY <1>3, <1>4, <1>5 DEF Orders, b

\* The two orders of equal IoUs.
Falling(P) == {r \in P \X P : r[1][1] > r[2][1] \/ (r[1][1] = r[2][1] /\ r[1][2] > r[2][2])}
Rising(P)  == {r \in P \X P : r[1][1] < r[2][1] \/ (r[1][1] = r[2][1] /\ r[1][2] < r[2][2])}

LEMMA PositionsOrder ==
  ASSUME NEW P \in SUBSET (Int \X Int)
  PROVE  Orders(Falling(P), P) /\ Orders(Rising(P), P)
<1>1. \A p \in P : p[1] \in Int /\ p[2] \in Int /\ p = <<p[1], p[2]>>
  OBVIOUS
<1>2. \A p, q \in P : p # q => p[1] # q[1] \/ p[2] # q[2]
  BY <1>1
<1>3. \A p, q \in P : <<p, q>> \in Falling(P) <=> p[1] > q[1] \/ (p[1] = q[1] /\ p[2] > q[2])
  BY DEF Falling
<1>4. \A p, q \in P : <<p, q>> \in Rising(P) <=> p[1] < q[1] \/ (p[1] = q[1] /\ p[2] < q[2])
  BY DEF Rising
<1>5. Orders(Falling(P), P)
  BY <1>1, <1>2, <1>3 DEF Orders
<1>6. Orders(Rising(P), P)
  BY <1>1, <1>2, <1>4 DEF Orders
<1>7. QED
  BY <1>5, <1>6

-----------------------------------------------------------------------------
(* The two matchings.                                                       *)

Overlapping(ref, cand) == {p \in (DOMAIN ref) \X (DOMAIN cand) : PairIoU(ref, cand, p)[1] > 0}
Candidates(ref, cand, classAware) ==
  {p \in (DOMAIN ref) \X (DOMAIN cand) :
     /\ classAware => ClassOf(ref[p[1]]) = ClassOf(cand[p[2]])
     /\ PairIoU(ref, cand, p)[1] > 0}

\* M pairs positions of ref with positions of cand, no position twice.
IsMatching(M, ref, cand) ==
  /\ M \in SUBSET ((DOMAIN ref) \X (DOMAIN cand))
  /\ IsFiniteSet(M)
  /\ Cardinality(M) \in Nat
  /\ \A p, q \in M : Conflict(p, q) => p = q

LEMMA OrderOfPairs ==
  ASSUME NEW ref, IsFrame(ref), NEW cand, IsFrame(cand),
         NEW P \in SUBSET ((DOMAIN ref) \X (DOMAIN cand))
  PROVE  /\ IsFiniteSet(P)
         /\ Orders(ByIoU(ref, cand, P, Falling(P)), P)
         /\ Orders(ByIoU(ref, cand, P, Rising(P)), P)
<1>1. P \in SUBSET (Int \X Int) /\ IsFiniteSet(P)
  BY FrameFacts, FS_Subset
<1>2. Orders(Falling(P), P) /\ Orders(Rising(P), P)
  BY <1>1, PositionsOrder
<1>3. QED
  BY <1>1, <1>2, IoUOrders

LEMMA KernelMatches ==
  ASSUME NEW ref, IsFrame(ref), NEW cand, IsFrame(cand),
         NEW P \in SUBSET ((DOMAIN ref) \X (DOMAIN cand)), NEW before, Orders(before, P),
         NEW M, Kernel(M, P, before)
  PROVE  IsMatching(M, ref, cand)
<1>1. M \in SUBSET P /\ IsFiniteSet(P)
  BY OrderOfPairs DEF Kernel
<1>2. IsFiniteSet(M) /\ Cardinality(M) \in Nat
  BY <1>1, FS_Subset, FS_CardinalityType
<1>3. \A p, q \in M : Conflict(p, q) => p = q
  BY KernelIsMatching
<1>4. QED
  BY <1>1, <1>2, <1>3 DEF IsMatching

LEMMA MatchFrameKernel ==
  ASSUME NEW ref, IsFrame(ref), NEW cand, IsFrame(cand)
  PROVE  LET P == Overlapping(ref, cand)
         IN  /\ Kernel(MatchFrame(ref, cand), P, ByIoU(ref, cand, P, Falling(P)))
             /\ IsMatching(MatchFrame(ref, cand), ref, cand)
<1> DEFINE P == Overlapping(ref, cand)
           order == ByIoU(ref, cand, P, Falling(P))
<1>1. P \in SUBSET ((DOMAIN ref) \X (DOMAIN cand))
  BY DEF Overlapping
<1>2. order = {r \in P \X P : ArrivalOrder(ref, cand, r[1], r[2])}
  BY DEF ByIoU, Falling, ArrivalOrder
<1> HIDE DEF order
<1>3. MatchFrame(ref, cand) = Greedy(P, order)
  BY <1>2 DEF MatchFrame, Overlapping
<1> HIDE DEF P
<1>4. IsFiniteSet(P) /\ Orders(order, P)
  BY <1>1, OrderOfPairs DEF order
<1>5. Kernel(MatchFrame(ref, cand), P, order)
  BY <1>3, <1>4, GreedyIsKernel
<1>6. IsMatching(MatchFrame(ref, cand), ref, cand)
  BY <1>1, <1>4, <1>5, KernelMatches
<1>7. QED
  BY <1>5, <1>6 DEF order, P

LEMMA MatchDetectionsKernel ==
  ASSUME NEW ref, IsFrame(ref), NEW cand, IsFrame(cand), NEW classAware
  PROVE  LET P == Candidates(ref, cand, classAware)
         IN  /\ Kernel(MatchDetections(ref, cand, classAware), P, ByIoU(ref, cand, P, Rising(P)))
             /\ IsMatching(MatchDetections(ref, cand, classAware), ref, cand)
<1> DEFINE P == Candidates(ref, cand, classAware)
           order == ByIoU(ref, cand, P, Rising(P))
<1>1. P \in SUBSET ((DOMAIN ref) \X (DOMAIN cand))
  BY DEF Candidates
<1>2. order = {r \in P \X P : ReferenceOrder(ref, cand, r[1], r[2])}
  BY DEF ByIoU, Rising, ReferenceOrder
<1> HIDE DEF order
<1>3. MatchDetections(ref, cand, classAware) = Greedy(P, order)
  BY <1>2 DEF MatchDetections, Candidates
<1> HIDE DEF P
<1>4. IsFiniteSet(P) /\ Orders(order, P)
  BY <1>1, OrderOfPairs DEF order
<1>5. Kernel(MatchDetections(ref, cand, classAware), P, order)
  BY <1>3, <1>4, GreedyIsKernel
<1>6. IsMatching(MatchDetections(ref, cand, classAware), ref, cand)
  BY <1>1, <1>4, <1>5, KernelMatches
<1>7. QED
  BY <1>5, <1>6 DEF order, P

\* Whichever frame arrives last, the same detections are matched.
THEOREM MatchFrameSwapped ==
  ASSUME NEW ref, IsFrame(ref), NEW cand, IsFrame(cand)
  PROVE  MatchFrame(cand, ref) = Swapped(MatchFrame(ref, cand))
<1> DEFINE P == Overlapping(ref, cand)
           Q == Overlapping(cand, ref)
           b == ByIoU(ref, cand, P, Falling(P))
           c == ByIoU(cand, ref, Q, Falling(Q))
           d == {r \in Q \X Q : <<Swap(r[1]), Swap(r[2])>> \in b}
<1>1. P \in SUBSET ((DOMAIN ref) \X (DOMAIN cand)) /\ Q \in SUBSET ((DOMAIN cand) \X (DOMAIN ref))
  BY DEF Overlapping
<1>2. \A p \in (DOMAIN ref) \X (DOMAIN cand) :
        PairIoU(cand, ref, Swap(p)) = PairIoU(ref, cand, p)
  BY PairIoUFacts
<1>3. Q = Swapped(P)
  <2>1. \A p \in (DOMAIN ref) \X (DOMAIN cand) : p \in P <=> Swap(p) \in Q
    BY <1>2 DEF Overlapping, Swap
  <2>2. \A q \in Q : Swap(q) \in (DOMAIN ref) \X (DOMAIN cand) /\ Swap(Swap(q)) = q
    BY <1>1 DEF Swap
  <2>3. QED
    BY <1>1, <2>1, <2>2 DEF Swapped
<1>4. \A p \in P : Swap(p) \in Q /\ Swap(Swap(p)) = p
  BY <1>1, <1>3, SwapFacts
<1>5. \A q \in Q : Swap(q) \in P /\ Swap(Swap(q)) = q
  BY <1>1, <1>3, SwapFacts
<1>6. Kernel(MatchFrame(ref, cand), P, b) /\ Kernel(MatchFrame(cand, ref), Q, c)
  BY MatchFrameKernel
<1>7. IsFiniteSet(Q) /\ Orders(c, Q)
  BY <1>1, OrderOfPairs
<1>8. AgreeOnConflicts(Q, c, d)
  <2> SUFFICES ASSUME NEW p \in Q, NEW q \in Q, p # q, Conflict(p, q)
               PROVE  <<p, q>> \in c <=> <<Swap(p), Swap(q)>> \in b
    BY DEF AgreeOnConflicts
  <2>1. Swap(p) \in P /\ Swap(q) \in P
    BY <1>5
  <2>2. /\ PairIoU(cand, ref, p) = PairIoU(ref, cand, Swap(p))
        /\ PairIoU(cand, ref, q) = PairIoU(ref, cand, Swap(q))
    BY <1>1, <1>2, <1>5
  <2>3. p[1] \in Int /\ p[2] \in Int /\ q[1] \in Int /\ q[2] \in Int
    BY <1>1, FrameFacts
  <2>4. <<p, q>> \in Falling(Q) <=> <<Swap(p), Swap(q)>> \in Falling(P)
    <3>1. <<p, q>> \in Falling(Q) <=> p[1] > q[1] \/ (p[1] = q[1] /\ p[2] > q[2])
      BY DEF Falling
    <3>2. <<Swap(p), Swap(q)>> \in Falling(P) <=> p[2] > q[2] \/ (p[2] = q[2] /\ p[1] > q[1])
      BY <2>1 DEF Falling, Swap
    <3>3. p[1] = q[1] \/ p[2] = q[2]
      BY DEF Conflict
    <3>4. QED
      BY <2>3, <3>1, <3>2, <3>3
  <2>5. QED
    BY <2>1, <2>2, <2>4 DEF ByIoU
<1>9. Kernel(Swapped(MatchFrame(ref, cand)), Q, d)
  <2>1. \A p, q \in P : <<p, q>> \in b <=> <<Swap(p), Swap(q)>> \in d
    BY <1>4
  <2> HIDE DEF P, Q, b, d
  <2>2. Kernel(Swapped(MatchFrame(ref, cand)), Swapped(P), d)
    BY <1>1, <1>6, <2>1, KernelSwapped
  <2>3. QED
    BY <1>3, <2>2
<1> DEFINE m == MatchFrame(cand, ref)
           n == Swapped(MatchFrame(ref, cand))
<1>10. Kernel(m, Q, c) /\ Kernel(n, Q, d)
  BY <1>6, <1>9
<1> HIDE DEF P, Q, b, c, d, m, n
<1>11. m = n
  BY <1>7, <1>8, <1>10, KernelIsUnique
<1>12. QED
  BY <1>11 DEF m, n

\* Where no pairs that share a detection tie, the two tools match the same.
LEMMA ToolsMatchTheSame ==
  ASSUME NEW ref, IsFrame(ref), NEW cand, IsFrame(cand), NoConflictTies(ref, cand),
         NEW classAware, ~classAware
  PROVE  MatchDetections(ref, cand, classAware) = MatchFrame(ref, cand)
<1> DEFINE P == Overlapping(ref, cand)
           b == ByIoU(ref, cand, P, Falling(P))
           c == ByIoU(ref, cand, P, Rising(P))
<1>1. Candidates(ref, cand, classAware) = P
  BY DEF Candidates, Overlapping
<1>2. Kernel(MatchFrame(ref, cand), P, b)
  BY MatchFrameKernel
<1>3. Kernel(MatchDetections(ref, cand, classAware), P, c)
  BY <1>1, MatchDetectionsKernel
<1>4. P \in SUBSET ((DOMAIN ref) \X (DOMAIN cand))
  BY DEF Overlapping
<1>5. IsFiniteSet(P) /\ Orders(b, P)
  BY <1>4, OrderOfPairs
<1>6. AgreeOnConflicts(P, b, c)
  BY DEF AgreeOnConflicts, NoConflictTies, Overlapping, Conflict, ByIoU
<1> DEFINE m == MatchFrame(ref, cand)
           n == MatchDetections(ref, cand, classAware)
<1>7. Kernel(m, P, b) /\ Kernel(n, P, c)
  BY <1>2, <1>3
<1> HIDE DEF P, b, c, m, n
<1>8. m = n
  BY <1>5, <1>6, <1>7, KernelIsUnique
<1>9. QED
  BY <1>8 DEF m, n

-----------------------------------------------------------------------------
(* What a matching adds to the counts.                                      *)

Observed == {"matches", "mismatches", "unavailable", "ious", "deltas"}

LEMMA ObserveAdds ==
  ASSUME NEW ref, NEW cand, NEW M, IsFiniteSet(M)
  PROVE  LET o == Observe(ref, cand, M)
         IN  /\ o \in [Observed -> Int]
             /\ o.matches + o.mismatches + o.unavailable = Cardinality(M)
<1> DEFINE scored == {p \in M : BothClassified(ref, cand, p)}
           same == {p \in scored : SameClass(ref, cand, p)}
           o == Observe(ref, cand, M)
<1>1. scored \in SUBSET M /\ same \in SUBSET scored /\ same \in SUBSET M
  OBVIOUS
<1>2. /\ o = [matches |-> Cardinality(same), mismatches |-> Cardinality(scored \ same),
              unavailable |-> Cardinality(M \ scored),
              ious |-> IF M = {} THEN 0 ELSE 1, deltas |-> IF scored = {} THEN 0 ELSE 1]
  BY DEF Observe
<1> HIDE DEF scored, same, o
<1>3. IsFiniteSet(scored) /\ IsFiniteSet(same) /\ IsFiniteSet(scored \ same) /\ IsFiniteSet(M \ scored)
  BY <1>1, FS_Subset, FS_Difference
<1>4. /\ Cardinality(same) \in Nat /\ Cardinality(scored \ same) \in Nat
      /\ Cardinality(M \ scored) \in Nat /\ Cardinality(scored) \in Nat
      /\ Cardinality(M) \in Nat
  BY <1>3, FS_CardinalityType
<1>5. Cardinality(scored \ same) = Cardinality(scored) - Cardinality(same)
  <2>1. Cardinality(scored \ same) = Cardinality(scored) - Cardinality(scored \cap same)
    BY <1>3, FS_Difference
  <2>2. scored \cap same = same
    BY <1>1
  <2>3. QED
    BY <2>1, <2>2
<1>6. Cardinality(M \ scored) = Cardinality(M) - Cardinality(scored)
  <2>1. Cardinality(M \ scored) = Cardinality(M) - Cardinality(M \cap scored)
    BY <1>3, FS_Difference
  <2>2. M \cap scored = scored
    BY <1>1
  <2>3. QED
    BY <2>1, <2>2
<1>7. o \in [Observed -> Int]
  BY <1>2, <1>4 DEF Observed
<1>8. o.matches = Cardinality(same) /\ o.mismatches = Cardinality(scored \ same)
      /\ o.unavailable = Cardinality(M \ scored)
  BY <1>2
<1>9. o.matches + o.mismatches + o.unavailable = Cardinality(M)
  BY <1>4, <1>5, <1>6, <1>8
<1>10. QED
  BY <1>7, <1>9 DEF o

LEMMA SwappedSize ==
  ASSUME NEW X, NEW Y, NEW T \in SUBSET (X \X Y), IsFiniteSet(T)
  PROVE  IsFiniteSet(Swapped(T)) /\ Cardinality(Swapped(T)) = Cardinality(T)
<1> DEFINE key == [p \in T |-> Swap(p)]
<1>1. \A p \in T : key[p] = Swap(p)
  OBVIOUS
<1>2. \A p, q \in T : key[p] = key[q] => p = q
  BY <1>1 DEF Swap
<1> HIDE DEF key
<1>3. {key[p] : p \in T} = Swapped(T)
  BY <1>1 DEF Swapped
<1>4. /\ IsFiniteSet({key[p] : p \in T})
      /\ (\A p, q \in T : key[p] = key[q] => p = q)
              => Cardinality({key[p] : p \in T}) = Cardinality(T)
  BY ImageIsFinite
<1>5. QED
  BY <1>2, <1>3, <1>4

LEMMA ObserveSwapped ==
  ASSUME NEW ref, NEW cand, NEW M \in SUBSET ((DOMAIN ref) \X (DOMAIN cand)), IsFiniteSet(M)
  PROVE  Observe(cand, ref, Swapped(M)) = Observe(ref, cand, M)
<1> DEFINE N == Swapped(M)
           scored == {p \in M : BothClassified(ref, cand, p)}
           same == {p \in scored : SameClass(ref, cand, p)}
           scored2 == {p \in N : BothClassified(cand, ref, p)}
           same2 == {p \in scored2 : SameClass(cand, ref, p)}
<1>1. \A p \in M : /\ BothClassified(cand, ref, Swap(p)) <=> BothClassified(ref, cand, p)
                   /\ SameClass(cand, ref, Swap(p)) <=> SameClass(ref, cand, p)
  BY DEF BothClassified, SameClass, Swap
<1>2. \A p, q \in M : Swap(p) = Swap(q) => p = q
  BY DEF Swap
<1>3. /\ scored2 = Swapped(scored) /\ same2 = Swapped(same)
      /\ scored2 \ same2 = Swapped(scored \ same)
      /\ N \ scored2 = Swapped(M \ scored)
  BY <1>1, <1>2 DEF Swapped
<1>4. /\ IsFiniteSet(same) /\ IsFiniteSet(scored \ same) /\ IsFiniteSet(M \ scored)
      /\ same \in SUBSET M /\ scored \ same \in SUBSET M /\ M \ scored \in SUBSET M
  BY FS_Subset
<1>5. (scored = {} <=> scored2 = {}) /\ (M = {} <=> N = {})
  BY <1>3 DEF Swapped
<1>6. Observe(ref, cand, M)
        = [matches |-> Cardinality(same), mismatches |-> Cardinality(scored \ same),
           unavailable |-> Cardinality(M \ scored),
           ious |-> IF M = {} THEN 0 ELSE 1, deltas |-> IF scored = {} THEN 0 ELSE 1]
  BY DEF Observe
<1>7. Observe(cand, ref, N)
        = [matches |-> Cardinality(same2), mismatches |-> Cardinality(scored2 \ same2),
           unavailable |-> Cardinality(N \ scored2),
           ious |-> IF N = {} THEN 0 ELSE 1, deltas |-> IF scored2 = {} THEN 0 ELSE 1]
  BY DEF Observe
<1> HIDE DEF N, scored, same, scored2, same2
<1>8. \A T \in SUBSET M : IsFiniteSet(T) => Cardinality(Swapped(T)) = Cardinality(T)
  <2>1. \A T \in SUBSET M : T \in SUBSET ((DOMAIN ref) \X (DOMAIN cand))
    OBVIOUS
  <2>2. QED
    BY <2>1, SwappedSize
<1>9. /\ Cardinality(same2) = Cardinality(same)
      /\ Cardinality(scored2 \ same2) = Cardinality(scored \ same)
      /\ Cardinality(N \ scored2) = Cardinality(M \ scored)
  BY <1>3, <1>4, <1>8
<1>10. QED
  BY <1>5, <1>6, <1>7, <1>9 DEF N

-----------------------------------------------------------------------------
(* The detections that wait under the stamps of f.                          *)

Waiting(f) == SumFunction([k \in DOMAIN f |-> Len(f[k].dets)])
CanSum(f) == IsFiniteSet(DOMAIN f) /\ \A k \in DOMAIN f : Len(f[k].dets) \in Int

LEMMA WaitingLess ==
  ASSUME NEW f, CanSum(f), NEW g, NEW key \in DOMAIN f, DOMAIN g = DOMAIN f \ {key},
         \A k \in DOMAIN g : g[k] = f[k]
  PROVE  CanSum(g) /\ Waiting(f) = Waiting(g) + Len(f[key].dets) /\ Waiting(g) \in Int
<1> DEFINE v == [k \in DOMAIN f |-> Len(f[k].dets)]
           w == [k \in DOMAIN g |-> Len(g[k].dets)]
<1>1. Summable(v) /\ Summable(w) /\ CanSum(g)
  BY FS_Subset DEF CanSum, Summable
<1>2. key \in DOMAIN v /\ DOMAIN w = DOMAIN v \ {key} /\ \A y \in DOMAIN w : w[y] = v[y]
  OBVIOUS
<1>3. v[key] = Len(f[key].dets) /\ v[key] \in Int
  BY DEF CanSum
<1>4. Waiting(f) = SumFunction(v) /\ Waiting(g) = SumFunction(w)
  BY DEF Waiting
<1> HIDE DEF v, w
<1>5. SumFunction(v) = v[key] + SumFunction(w) /\ SumFunction(w) \in Int
  BY <1>1, <1>2, SumOfOneMore, SumIsInt
<1>6. QED
  BY <1>1, <1>3, <1>4, <1>5

LEMMA WaitingPut ==
  ASSUME NEW f, CanSum(f), NEW key, NEW m, Len(m.dets) \in Int
  PROVE  /\ CanSum(Put(f, key, m)) /\ Waiting(f) \in Int /\ Waiting(Put(f, key, m)) \in Int
         /\ Waiting(Put(f, key, m)) = Waiting(f) + Len(m.dets)
              - (IF key \in DOMAIN f THEN Len(f[key].dets) ELSE 0)
<1> DEFINE g == Put(f, key, m)
           rest == [k \in (DOMAIN f) \ {key} |-> f[k]]
<1>1. /\ DOMAIN g = DOMAIN f \cup {key} /\ g[key] = m
      /\ \A k \in DOMAIN f : k # key => g[k] = f[k]
  BY DEF Put
<1>2. /\ DOMAIN rest = DOMAIN f \ {key} /\ DOMAIN rest = DOMAIN g \ {key}
      /\ \A k \in DOMAIN rest : rest[k] = f[k] /\ rest[k] = g[k]
  BY <1>1
<1> HIDE DEF g, rest
<1>3. CanSum(g)
  <2>1. IsFiniteSet(DOMAIN f \cup {key})
    BY FS_AddElement DEF CanSum
  <2>2. QED
    BY <1>1, <2>1 DEF CanSum
<1>4. Waiting(g) = Waiting(rest) + Len(m.dets) /\ Waiting(rest) \in Int
  BY <1>1, <1>2, <1>3, WaitingLess
<1>5. CASE key \in DOMAIN f
  <2>1. Waiting(f) = Waiting(rest) + Len(f[key].dets) /\ Len(f[key].dets) \in Int
    BY <1>2, <1>5, WaitingLess DEF CanSum
  <2> DEFINE n == Len(m.dets)
             l == Len(f[key].dets)
  <2>2. n \in Int /\ l \in Int
    BY <2>1
  <2> HIDE DEF n, l
  <2>3. Waiting(g) = Waiting(rest) + n /\ Waiting(f) = Waiting(rest) + l
    BY <1>4, <2>1 DEF n, l
  <2>4. Waiting(g) = Waiting(f) + n - l /\ Waiting(f) \in Int /\ Waiting(g) \in Int
    BY <1>4, <2>2, <2>3
  <2>5. QED
    BY <1>3, <1>5, <2>4 DEF g, n, l
<1>6. CASE key \notin DOMAIN f
  <2>1. DOMAIN rest = DOMAIN f /\ \A k \in DOMAIN f : rest[k] = f[k]
    BY <1>2, <1>6
  <2>2. [k \in DOMAIN f |-> Len(f[k].dets)] = [k \in DOMAIN rest |-> Len(rest[k].dets)]
    BY <2>1
  <2>3. Waiting(f) = Waiting(rest)
    BY <2>2 DEF Waiting
  <2>4. QED
    BY <1>3, <1>4, <1>6, <2>3 DEF g
<1>7. QED
  BY <1>5, <1>6

-----------------------------------------------------------------------------
(* What a filter leaves is a frame.                                         *)

LEMMA EveryRankIsTaken ==
  ASSUME NEW P, IsFiniteSet(P), NEW before, Orders(before, P)
  PROVE  /\ Cardinality(P) \in Nat
         /\ \A k \in 1..Cardinality(P) : \E i \in P : Rank(P, before, i) = k
<1> DEFINE Pred(i) == {j \in P : <<j, i>> \in before}
           rank == [i \in P |-> Rank(P, before, i)]
           n == Cardinality(P)
           T == {rank[i] : i \in P}
<1>1. n \in Nat
  BY FS_CardinalityType
<1>2. ASSUME NEW i \in P
      PROVE  /\ rank[i] = 1 + Cardinality(Pred(i)) /\ IsFiniteSet(Pred(i))
             /\ Cardinality(Pred(i)) \in Nat /\ Cardinality(Pred(i)) < n
  <2>1. rank[i] = 1 + Cardinality(Pred(i))
    BY DEF Rank
  <2>2. Pred(i) \in SUBSET P /\ i \notin Pred(i)
    BY DEF Orders
  <2> HIDE DEF Pred, rank
  <2>3. Pred(i) # P
    BY <2>2
  <2>4. QED
    BY <2>1, <2>2, <2>3, SubsetFacts
<1>3. ASSUME NEW i \in P, NEW j \in P, <<i, j>> \in before PROVE rank[i] < rank[j]
  <2>1. Pred(i) \in SUBSET Pred(j) /\ i \in Pred(j) /\ i \notin Pred(i)
    BY <1>3 DEF Orders
  <2>2. /\ rank[i] = 1 + Cardinality(Pred(i)) /\ Cardinality(Pred(i)) \in Nat
        /\ rank[j] = 1 + Cardinality(Pred(j)) /\ Cardinality(Pred(j)) \in Nat
        /\ IsFiniteSet(Pred(j))
    BY <1>2
  <2> HIDE DEF Pred, rank
  <2>3. Pred(i) # Pred(j)
    BY <2>1
  <2>4. Cardinality(Pred(i)) < Cardinality(Pred(j))
    BY <2>1, <2>2, <2>3, SubsetFacts
  <2>5. QED
    BY <2>2, <2>4
<1> HIDE DEF rank, Pred
<1>4. \A i \in P : rank[i] \in 1..n
  BY <1>1, <1>2
<1>5. \A i, j \in P : rank[i] = rank[j] => i = j
  <2> SUFFICES ASSUME NEW i \in P, NEW j \in P, i # j PROVE rank[i] # rank[j]
    OBVIOUS
  <2>1. <<i, j>> \in before \/ <<j, i>> \in before
    BY DEF Orders
  <2>2. rank[i] < rank[j] \/ rank[j] < rank[i]
    BY <1>3, <2>1
  <2>3. QED
    BY <1>1, <1>4, <2>2
<1>6. Cardinality(T) = n
  BY <1>5, ImageIsFinite
<1>7. T \in SUBSET (1..n)
  BY <1>4
<1>8. IsFiniteSet(1..n) /\ Cardinality(1..n) = n
  BY <1>1, FS_Interval
<1> HIDE DEF T, n
<1>9. T = 1..n
  BY <1>6, <1>7, <1>8, FS_Subset
<1>10. ASSUME NEW k \in 1..n PROVE \E i \in P : Rank(P, before, i) = k
  <2>1. PICK i \in P : rank[i] = k
    BY <1>9 DEF T
  <2>2. QED
    BY <2>1 DEF rank
<1>11. QED
  BY <1>1, <1>10 DEF n

LEMMA RanksOrder ==
  ASSUME NEW dets, IsFrame(dets), NEW kept \in SUBSET DOMAIN dets, NEW limit
  PROVE  Orders({r \in kept \X kept : IF limit = 0 THEN r[1] < r[2] ELSE RanksBefore(dets, r[1], r[2])},
                kept)
<1> DEFINE b == {r \in kept \X kept : IF limit = 0 THEN r[1] < r[2] ELSE RanksBefore(dets, r[1], r[2])}
<1>1. \A i \in kept : i \in Int /\ ScoreOf(dets[i]) \in Int \cup {None}
  <2> SUFFICES ASSUME NEW i \in kept PROVE i \in Int /\ ScoreOf(dets[i]) \in Int \cup {None}
    OBVIOUS
  <2>1. i \in DOMAIN dets /\ dets \in Seq(Detections) /\ Readable(dets[i])
    BY DEF IsFrame
  <2>2. i \in Int /\ dets[i] \in Detections
    BY <2>1
  <2>3. QED
    BY <2>1, <2>2, ReadableFields
<1>2. CASE limit = 0
  <2>1. \A i, j \in kept : <<i, j>> \in b <=> i < j
    BY <1>2
  <2> HIDE DEF b
  <2>2. Orders(b, kept)
    BY <1>1, <2>1 DEF Orders
  <2>3. QED
    BY <2>2 DEF b
<1>3. CASE limit # 0
  <2> DEFINE s == [i \in kept |-> ScoreOf(dets[i])]
  <2>1. \A i \in kept : s[i] \in Int \cup {None} /\ i \in Int
    BY <1>1
  <2>2. \A i, j \in kept :
          <<i, j>> \in b <=> \/ s[i] # None /\ s[j] = None
                             \/ s[i] # None /\ s[j] # None /\ s[i] > s[j]
                             \/ s[i] = s[j] /\ i < j
    BY <1>3 DEF RanksBefore
  <2> HIDE DEF b, s
  <2>3. \A i \in kept : <<i, i>> \notin b
    BY <2>1, <2>2
  <2>4. \A i, j \in kept : i # j => <<i, j>> \in b \/ <<j, i>> \in b
    BY <2>1, <2>2
  <2>5. ASSUME NEW i \in kept, NEW j \in kept, NEW k \in kept, <<i, j>> \in b, <<j, k>> \in b
        PROVE  <<i, k>> \in b
    BY <2>1, <2>2, <2>5
  <2>6. Orders(b, kept)
    BY <2>3, <2>4, <2>5 DEF Orders
  <2>7. QED
    BY <2>6 DEF b
<1>4. QED
  BY <1>2, <1>3

LEMMA FilterLeavesFrame ==
  ASSUME NEW dets, IsFrame(dets), NEW o, o.limit \in Nat
  PROVE  IsFrame(Filter(dets, o))
<1> DEFINE Passes(d) == o.minScore = None \/ (ScoreOf(d) # None /\ ScoreOf(d) >= o.minScore)
           kept   == {i \in DOMAIN dets : Passes(dets[i])}
           before == {r \in kept \X kept : IF o.limit = 0 THEN r[1] < r[2]
                                           ELSE RanksBefore(dets, r[1], r[2])}
           size   == IF o.limit = 0 THEN Cardinality(kept) ELSE Least(o.limit, Cardinality(kept))
           At(k)  == CHOOSE i \in kept : Rank(kept, before, i) = k
<1>1. Filter(dets, o) = [k \in 1..size |-> dets[At(k)]]
  BY DEF Filter
<1>2. kept \in SUBSET DOMAIN dets
  OBVIOUS
<1> HIDE DEF kept
<1>3. Orders(before, kept)
  BY <1>2, RanksOrder
<1>4. IsFiniteSet(kept)
  BY <1>2, FS_Subset, FS_Interval DEF IsFrame
<1> HIDE DEF before
<1>5. /\ Cardinality(kept) \in Nat
      /\ \A k \in 1..Cardinality(kept) : \E i \in kept : Rank(kept, before, i) = k
  BY <1>3, <1>4, EveryRankIsTaken
<1>6. size \in Nat /\ size <= Cardinality(kept)
  BY <1>5 DEF Least
<1> HIDE DEF size
<1>7. ASSUME NEW k \in 1..size PROVE At(k) \in kept
  <2>1. k \in 1..Cardinality(kept)
    BY <1>5, <1>6
  <2>2. \E i \in kept : Rank(kept, before, i) = k
    BY <1>5, <2>1
  <2>3. QED
    BY <2>2
<1> HIDE DEF At
<1>8. \A k \in 1..size : dets[At(k)] \in Detections /\ Readable(dets[At(k)])
  BY <1>2, <1>7 DEF IsFrame
<1> DEFINE f == [k \in 1..size |-> dets[At(k)]]
<1>9. /\ f \in [1..size -> Detections] /\ DOMAIN f = 1..size
      /\ \A k \in 1..size : Readable(f[k])
  BY <1>8
<1> HIDE DEF f
<1>10. f \in Seq(Detections)
  BY <1>6, <1>9
<1>11. IsFrame(f)
  BY <1>9, <1>10 DEF IsFrame
<1>12. QED
  BY <1>1, <1>11 DEF f

-----------------------------------------------------------------------------
(* One side of a summary: frames 1..n with len[k] detections, pairs of      *)
(* frames of which one is key[p] of this side, and m[p] of its detections   *)
(* are matched.                                                             *)

Used(key, pairs) == {key[p] : p \in pairs}

IsSide(n, len, pairs, key, m, rest) ==
  /\ n \in Nat /\ \A k \in 1..n : len[k] \in Int
  /\ IsFiniteSet(pairs) /\ \A p \in pairs : key[p] \in 1..n
  /\ \A p, q \in pairs : key[p] = key[q] => p = q
  /\ \A p \in pairs : m[p] \in Int /\ rest[p] = len[key[p]] - m[p]

AddsUp(n, len, pairs, key, m, rest) ==
  /\ Cardinality(pairs) + Cardinality((1..n) \ Used(key, pairs)) = n
  /\ SumOver(m, pairs) + (SumOver(len, (1..n) \ Used(key, pairs)) + SumOver(rest, pairs))
       = SumOver(len, 1..n)

LEMMA SideAddsUp ==
  ASSUME NEW n, NEW len, NEW pairs, NEW key, NEW m, NEW rest, IsSide(n, len, pairs, key, m, rest)
  PROVE  AddsUp(n, len, pairs, key, m, rest)
<1> DEFINE used == {key[p] : p \in pairs}
           all == [p \in pairs |-> len[key[p]]]
<1>0. /\ n \in Nat /\ \A k \in 1..n : len[k] \in Int
      /\ IsFiniteSet(pairs) /\ \A p \in pairs : key[p] \in 1..n
      /\ \A p, q \in pairs : key[p] = key[q] => p = q
      /\ \A p \in pairs : m[p] \in Int /\ rest[p] = len[key[p]] - m[p]
  BY DEF IsSide
<1>1. IsFiniteSet(used) /\ Cardinality(used) = Cardinality(pairs)
  BY <1>0, ImageIsFinite
<1>2. used \in SUBSET (1..n)
  BY <1>0
<1>3. IsFiniteSet(1..n) /\ Cardinality(1..n) = n
  BY <1>0, FS_Interval
<1>4. \A p \in pairs : all[p] = len[key[p]] /\ len[key[p]] \in Int
  BY <1>0
<1> DEFINE N == 1..n
<1>5. SumOver(all, pairs) = SumOver(len, used)
  <2>1. \A p \in pairs : all[p] \in Int /\ len[key[p]] = all[p]
    BY <1>4
  <2> HIDE DEF all
  <2>2. QED
    BY <1>0, <2>1, SumReindexed
<1> HIDE DEF used, all, N
<1>6. Cardinality(pairs) + Cardinality(N \ used) = n
  <2>1. Cardinality(N \ used) = Cardinality(N) - Cardinality(N \cap used)
    BY <1>3, FS_Difference DEF N
  <2>2. N \cap used = used
    BY <1>2 DEF N
  <2>3. Cardinality(used) \in Nat
    BY <1>1, FS_CardinalityType
  <2>4. Cardinality(N) = n
    BY <1>3 DEF N
  <2> DEFINE c == Cardinality(used)
             d == Cardinality(N \ used)
  <2>5. d = n - c
    BY <2>1, <2>2, <2>4
  <2>6. c \in Nat /\ Cardinality(pairs) = c
    BY <1>1, <2>3
  <2> HIDE DEF c, d
  <2>7. c + d = n
    BY <1>0, <2>5, <2>6
  <2>8. QED
    BY <2>6, <2>7 DEF d
<1>7. SumOver(all, pairs) = SumOver(m, pairs) + SumOver(rest, pairs)
  <2>1. \A p \in pairs : m[p] \in Int /\ rest[p] \in Int /\ all[p] = m[p] + rest[p]
    BY <1>0, <1>4
  <2>2. QED
    BY <1>0, <2>1, SumOfSums
<1>8. SumOver(len, N) = SumOver(len, used) + SumOver(len, N \ used)
  <2>1. IsFiniteSet(N) /\ used \in SUBSET N /\ \A k \in N : len[k] \in Int
    BY <1>0, <1>2, <1>3 DEF N
  <2>2. QED
    BY <2>1, SumOfUnion
<1>9. /\ SumOver(m, pairs) \in Int /\ SumOver(rest, pairs) \in Int
      /\ SumOver(len, N \ used) \in Int
  <2>1. \A p \in pairs : rest[p] \in Int /\ m[p] \in Int
    BY <1>0, <1>4
  <2>2. SumOver(m, pairs) \in Int /\ SumOver(rest, pairs) \in Int
    BY <1>0, <2>1, SumOverStep
  <2>3. N \ used \in SUBSET N /\ IsFiniteSet(N) /\ \A k \in N : len[k] \in Int
    BY <1>0, <1>3 DEF N
  <2>4. SumOver(len, N \ used) \in Int
    BY <2>3, SumOverStep
  <2>5. QED
    BY <2>2, <2>4
<1>10. SumOver(m, pairs) + (SumOver(len, N \ used) + SumOver(rest, pairs)) = SumOver(len, N)
  <2> DEFINE a == SumOver(m, pairs)
             b == SumOver(rest, pairs)
             c == SumOver(len, N \ used)
  <2>1. a \in Int /\ b \in Int /\ c \in Int /\ SumOver(len, N) = (a + b) + c
    BY <1>5, <1>7, <1>8, <1>9
  <2> HIDE DEF a, b, c
  <2>2. a + (c + b) = SumOver(len, N)
    BY <2>1
  <2>3. QED
    BY <2>2 DEF a, b, c
<1>11. QED
  BY <1>6, <1>10 DEF AddsUp, used, Used, N

-----------------------------------------------------------------------------
(* The offline summary.                                                     *)

\* n frames of which every box can be computed.
IsBag(bag, n) == n \in Nat /\ DOMAIN bag = 1..n /\ \A k \in 1..n : IsFrame(bag[k].dets)

LEMMA EqualStampsGrow ==
  ASSUME NEW bag, NEW n, IsBag(bag, n), NEW k \in 1..n, NEW l \in 1..n,
         bag[k].stamp = bag[l].stamp, EqualStampsBefore(bag, k) = EqualStampsBefore(bag, l)
  PROVE  k = l
<1> DEFINE Before(j) == {i \in 1..(j - 1) : bag[i].stamp = bag[j].stamp}
<1>1. n \in Nat
  BY DEF IsBag
<1>2. ASSUME NEW i \in 1..n, NEW j \in 1..n, i < j, bag[i].stamp = bag[j].stamp
      PROVE  Cardinality(Before(i)) # Cardinality(Before(j))
  <2>1. Before(i) \in SUBSET Before(j) /\ i \in Before(j) /\ i \notin Before(i)
    BY <1>1, <1>2
  <2>2. IsFiniteSet(Before(j))
    <3>1. Before(j) \in SUBSET (1..(j - 1)) /\ j - 1 \in Int
      BY <1>1
    <3>2. IsFiniteSet(1..(j - 1))
      BY <3>1, FS_Interval
    <3>3. QED
      BY <3>1, <3>2, FS_Subset
  <2> HIDE DEF Before
  <2>3. QED
    BY <2>1, <2>2, FS_Subset
<1>3. Cardinality(Before(k)) = Cardinality(Before(l))
  BY DEF EqualStampsBefore
<1> HIDE DEF Before
<1>4. ~(k < l) /\ ~(l < k)
  BY <1>2, <1>3
<1>5. QED
  BY <1>1, <1>4

LEMMA PairFramesFacts ==
  ASSUME NEW ref, NEW n, IsBag(ref, n), NEW cand, NEW m, IsBag(cand, m), NEW policy
  PROVE  LET pairs == PairFrames(ref, cand, policy)
         IN  /\ IsFiniteSet(pairs)
             /\ \A p \in pairs : p[1] \in 1..n /\ p[2] \in 1..m
             /\ \A p, q \in pairs : p[1] = q[1] => p = q
             /\ \A p, q \in pairs : p[2] = q[2] => p = q
<1> DEFINE pairs == PairFrames(ref, cand, policy)
<1>1. /\ n \in Nat /\ DOMAIN ref = 1..n /\ m \in Nat /\ DOMAIN cand = 1..m
  BY DEF IsBag
<1>2. pairs \in SUBSET ((1..n) \X (1..m))
  <2>1. CASE policy = "index"
    BY <1>1, <2>1 DEF PairFrames
  <2>2. CASE policy # "index"
    BY <1>1, <2>2 DEF PairFrames
  <2>3. QED
    BY <2>1, <2>2
<1>3. IsFiniteSet(pairs)
  <2> HIDE DEF pairs
  <2>1. IsFiniteSet((1..n) \X (1..m))
    <3>1. IsFiniteSet(1..n) /\ IsFiniteSet(1..m)
      BY <1>1, FS_Interval
    <3>2. QED
      BY <3>1, FS_Product
  <2>2. QED
    BY <1>2, <2>1, FS_Subset
<1>4. \A p \in pairs : p = <<p[1], p[2]>> /\ p[1] \in 1..n /\ p[2] \in 1..m
  BY <1>2
<1>5. \A p, q \in pairs : p[1] = q[1] <=> p[2] = q[2]
  <2>1. CASE policy = "index"
    BY <2>1 DEF PairFrames
  <2>2. CASE policy # "index"
    <3>1. \A p \in pairs : /\ ref[p[1]].stamp = cand[p[2]].stamp
                           /\ EqualStampsBefore(ref, p[1]) = EqualStampsBefore(cand, p[2])
      BY <2>2 DEF PairFrames
    <3> HIDE DEF pairs
    <3> SUFFICES ASSUME NEW p \in pairs, NEW q \in pairs PROVE p[1] = q[1] <=> p[2] = q[2]
      OBVIOUS
    <3>2. /\ ref[p[1]].stamp = cand[p[2]].stamp /\ ref[q[1]].stamp = cand[q[2]].stamp
          /\ EqualStampsBefore(ref, p[1]) = EqualStampsBefore(cand, p[2])
          /\ EqualStampsBefore(ref, q[1]) = EqualStampsBefore(cand, q[2])
      BY <3>1
    <3>3. p[1] \in 1..n /\ q[1] \in 1..n /\ p[2] \in 1..m /\ q[2] \in 1..m
      BY <1>4
    <3>4. p[1] = q[1] => p[2] = q[2]
      <4> SUFFICES ASSUME p[1] = q[1] PROVE p[2] = q[2]
        OBVIOUS
      <4>1. /\ cand[p[2]].stamp = cand[q[2]].stamp
            /\ EqualStampsBefore(cand, p[2]) = EqualStampsBefore(cand, q[2])
        BY <3>2
      <4>2. QED
        BY <3>3, <4>1, EqualStampsGrow
    <3>5. p[2] = q[2] => p[1] = q[1]
      <4> SUFFICES ASSUME p[2] = q[2] PROVE p[1] = q[1]
        OBVIOUS
      <4>1. /\ ref[p[1]].stamp = ref[q[1]].stamp
            /\ EqualStampsBefore(ref, p[1]) = EqualStampsBefore(ref, q[1])
        BY <3>2
      <4>2. QED
        BY <3>3, <4>1, EqualStampsGrow
    <3>6. QED
      BY <3>4, <3>5
  <2>3. QED
    BY <2>1, <2>2
<1>6. QED
  BY <1>3, <1>4, <1>5

Sizes(bag) == [k \in DOMAIN bag |-> Len(bag[k].dets)]

\* A summary s of n and m frames of which the filters leave these detections.
Accounts(s, n, m, leftRef, leftCand) ==
  /\ s.paired \in Int /\ s.unpairedRef \in Int /\ s.unpairedCand \in Int
  /\ s.matched \in Int /\ s.unmatchedRef \in Int /\ s.unmatchedCand \in Int
  /\ s.paired + s.unpairedRef = n /\ s.paired + s.unpairedCand = m
  /\ s.matched + s.unmatchedRef = leftRef
  /\ s.matched + s.unmatchedCand = leftCand

LEMMA SummaryAddsUp ==
  ASSUME NEW ref, NEW n, IsBag(ref, n), NEW cand, NEW m, IsBag(cand, m),
         NEW policy, NEW classAware
  PROVE  Accounts(Summarize(ref, cand, PairFrames(ref, cand, policy), classAware),
                  n, m, SumFunction(Sizes(ref)), SumFunction(Sizes(cand)))
<1> DEFINE pairs == PairFrames(ref, cand, policy)
           s == Summarize(ref, cand, pairs, classAware)
           Frame(p) == CompareFrame(ref[p[1]].dets, cand[p[2]].dets, classAware)
           one == [p \in pairs |-> p[1]]
           two == [p \in pairs |-> p[2]]
           got == [p \in pairs |-> Frame(p).matched]
           restRef == [p \in pairs |-> Frame(p).unmatchedRef]
           restCand == [p \in pairs |-> Frame(p).unmatchedCand]
           lenRef == Sizes(ref)
           lenCand == Sizes(cand)
           usedRef == Used(one, pairs)
           usedCand == Used(two, pairs)
<1>1. /\ n \in Nat /\ DOMAIN ref = 1..n /\ m \in Nat /\ DOMAIN cand = 1..m
      /\ \A k \in 1..n : IsFrame(ref[k].dets)
      /\ \A k \in 1..m : IsFrame(cand[k].dets)
  BY DEF IsBag
<1>2. /\ IsFiniteSet(pairs)
      /\ \A p \in pairs : p[1] \in 1..n /\ p[2] \in 1..m
      /\ \A p, q \in pairs : p[1] = q[1] => p = q
      /\ \A p, q \in pairs : p[2] = q[2] => p = q
  BY PairFramesFacts
<1>3. /\ s.paired = Cardinality(pairs)
      /\ s.unpairedRef = Cardinality((1..n) \ usedRef)
      /\ s.unpairedCand = Cardinality((1..m) \ usedCand)
      /\ s.matched = SumFunction(got)
      /\ s.unmatchedRef = SumFunction([k \in (1..n) \ usedRef |-> Len(ref[k].dets)])
                           + SumFunction(restRef)
      /\ s.unmatchedCand = SumFunction([k \in (1..m) \ usedCand |-> Len(cand[k].dets)])
                           + SumFunction(restCand)
  <2> HIDE DEF pairs
  <2>1. usedRef = {p[1] : p \in pairs} /\ usedCand = {p[2] : p \in pairs}
    BY DEF Used
  <2> HIDE DEF usedRef, usedCand
  <2>2. QED
    BY <1>1, <2>1 DEF Summarize, UnpairedFrames, UnpairedDetections
<1> HIDE DEF pairs, s
<1>4. /\ \A k \in 1..n : lenRef[k] = Len(ref[k].dets) /\ lenRef[k] \in Int
      /\ \A k \in 1..m : lenCand[k] = Len(cand[k].dets) /\ lenCand[k] \in Int
  BY <1>1 DEF Sizes, IsFrame
<1>5. \A p \in pairs : /\ got[p] \in Int
                       /\ restRef[p] = lenRef[p[1]] - got[p]
                       /\ restCand[p] = lenCand[p[2]] - got[p]
  <2> SUFFICES ASSUME NEW p \in pairs
               PROVE  /\ Frame(p).matched \in Int
                      /\ Frame(p).unmatchedRef = lenRef[p[1]] - Frame(p).matched
                      /\ Frame(p).unmatchedCand = lenCand[p[2]] - Frame(p).matched
    OBVIOUS
  <2> DEFINE x == ref[p[1]].dets
             y == cand[p[2]].dets
             c == Cardinality(MatchDetections(x, y, classAware))
  <2>1. IsFrame(x) /\ IsFrame(y) /\ lenRef[p[1]] = Len(x) /\ lenCand[p[2]] = Len(y)
    BY <1>1, <1>2, <1>4
  <2>2. /\ Frame(p).matched = c /\ Frame(p).unmatchedRef = Len(x) - c
        /\ Frame(p).unmatchedCand = Len(y) - c
    BY DEF CompareFrame
  <2> HIDE DEF x, y, Frame
  <2>3. c \in Int
    BY <2>1, MatchDetectionsKernel DEF IsMatching
  <2>4. QED
    BY <2>1, <2>2, <2>3
<1>6. /\ \A p \in pairs : one[p] = p[1] /\ two[p] = p[2]
  OBVIOUS
<1>7. /\ SumFunction(got) = SumOver(got, pairs)
      /\ SumFunction(restRef) = SumOver(restRef, pairs)
      /\ SumFunction(restCand) = SumOver(restCand, pairs)
  <2>1. [p \in pairs |-> got[p]] = got /\ [p \in pairs |-> restRef[p]] = restRef
        /\ [p \in pairs |-> restCand[p]] = restCand
    BY Zenon
  <2>2. QED
    BY <2>1 DEF SumOver
<1>8. /\ SumFunction([k \in (1..n) \ usedRef |-> Len(ref[k].dets)]) = SumOver(lenRef, (1..n) \ usedRef)
      /\ SumFunction([k \in (1..m) \ usedCand |-> Len(cand[k].dets)]) = SumOver(lenCand, (1..m) \ usedCand)
  <2>1. /\ [k \in (1..n) \ usedRef |-> Len(ref[k].dets)] = [k \in (1..n) \ usedRef |-> lenRef[k]]
        /\ [k \in (1..m) \ usedCand |-> Len(cand[k].dets)] = [k \in (1..m) \ usedCand |-> lenCand[k]]
    <3> HIDE DEF usedRef, usedCand, lenRef, lenCand
    <3> QED
      BY <1>4
  <2>2. QED
    BY <2>1 DEF SumOver
<1>9. SumFunction(lenRef) = SumOver(lenRef, 1..n) /\ SumFunction(lenCand) = SumOver(lenCand, 1..m)
  BY <1>1 DEF Sizes, SumOver
<1> HIDE DEF one, two, got, restRef, restCand, lenRef, lenCand, Frame
<1>10. /\ Cardinality(pairs) + Cardinality((1..n) \ usedRef) = n
       /\ SumOver(got, pairs) + (SumOver(lenRef, (1..n) \ usedRef) + SumOver(restRef, pairs))
            = SumOver(lenRef, 1..n)
  <2>1. \A k \in 1..n : lenRef[k] \in Int
    BY <1>4
  <2>2. /\ \A p \in pairs : one[p] \in 1..n
        /\ \A p, q \in pairs : one[p] = one[q] => p = q
    BY <1>2, <1>6
  <2>3. /\ \A p \in pairs : got[p] \in Int
        /\ \A p \in pairs : restRef[p] = lenRef[one[p]] - got[p]
    BY <1>5, <1>6
  <2>4. IsSide(n, lenRef, pairs, one, got, restRef)
    BY <1>1, <1>2, <2>1, <2>2, <2>3 DEF IsSide
  <2>5. AddsUp(n, lenRef, pairs, one, got, restRef)
    BY <2>4, SideAddsUp
  <2>6. QED
    BY <2>5 DEF AddsUp
<1>11. /\ Cardinality(pairs) + Cardinality((1..m) \ usedCand) = m
       /\ SumOver(got, pairs) + (SumOver(lenCand, (1..m) \ usedCand) + SumOver(restCand, pairs))
            = SumOver(lenCand, 1..m)
  <2>1. \A k \in 1..m : lenCand[k] \in Int
    BY <1>4
  <2>2. /\ \A p \in pairs : two[p] \in 1..m
        /\ \A p, q \in pairs : two[p] = two[q] => p = q
    BY <1>2, <1>6
  <2>3. /\ \A p \in pairs : got[p] \in Int
        /\ \A p \in pairs : restCand[p] = lenCand[two[p]] - got[p]
    BY <1>5, <1>6
  <2>4. IsSide(m, lenCand, pairs, two, got, restCand)
    BY <1>1, <1>2, <2>1, <2>2, <2>3 DEF IsSide
  <2>5. AddsUp(m, lenCand, pairs, two, got, restCand)
    BY <2>4, SideAddsUp
  <2>6. QED
    BY <2>5 DEF AddsUp
<1> HIDE DEF usedRef, usedCand
<1>12. /\ s.paired + s.unpairedRef = n /\ s.paired + s.unpairedCand = m
       /\ s.matched + s.unmatchedRef = SumFunction(lenRef)
       /\ s.matched + s.unmatchedCand = SumFunction(lenCand)
  BY <1>3, <1>7, <1>8, <1>9, <1>10, <1>11
<1>13. /\ s.paired \in Int /\ s.unpairedRef \in Int /\ s.unpairedCand \in Int
       /\ s.matched \in Int /\ s.unmatchedRef \in Int /\ s.unmatchedCand \in Int
  <2> DEFINE restN == (1..n) \ usedRef
             restM == (1..m) \ usedCand
  <2>1. /\ IsFiniteSet(1..n) /\ IsFiniteSet(1..m)
        /\ restN \in SUBSET (1..n) /\ restM \in SUBSET (1..m)
    BY <1>1, FS_Interval
  <2>2. IsFiniteSet(restN) /\ IsFiniteSet(restM)
    BY <2>1, FS_Subset
  <2>3. /\ Cardinality(restN) \in Int /\ Cardinality(restM) \in Int /\ Cardinality(pairs) \in Int
    BY <1>2, <2>2, FS_CardinalityType
  <2>4. SumOver(lenRef, restN) \in Int /\ SumOver(lenCand, restM) \in Int
    <3>1. \A k \in 1..n : lenRef[k] \in Int
      BY <1>4
    <3>2. \A k \in 1..m : lenCand[k] \in Int
      BY <1>4
    <3>3. QED
      BY <2>1, <3>1, <3>2, SumOverStep
  <2>5. SumOver(got, pairs) \in Int /\ SumOver(restRef, pairs) \in Int
        /\ SumOver(restCand, pairs) \in Int
    <3>1. \A p \in pairs : got[p] \in Int /\ restRef[p] \in Int /\ restCand[p] \in Int
      BY <1>2, <1>4, <1>5
    <3>2. QED
      BY <1>2, <3>1, SumOverStep
  <2>6. QED
    BY <1>3, <1>7, <1>8, <2>3, <2>4, <2>5
<1>14. QED
  BY <1>12, <1>13 DEF Accounts, s, pairs, lenRef, lenCand

-----------------------------------------------------------------------------
(* The frames, and what bad data does.                                      *)

allVars == <<vars, offline>>

\* The types that the proofs need.
TypeOK ==
  /\ DOMAIN buf = Sides
  /\ buf = [s \in Sides |-> buf[s]]
  /\ \A s \in Sides : IsFiniteSet(DOMAIN buf[s])
  /\ frames \in [received : [Sides -> Nat], unpaired : [Sides -> Nat], paired : Nat]
  /\ dataError \in BOOLEAN
  /\ phase \in {"spinning", "spun", "reported", "failed"}
  /\ bags \in [Sides -> Seq(Messages)]

\* What the live tool has accepted is valid, and it does not go on, nor report,
\* with an error.
ErrorsAreSeen ==
  /\ ~dataError => \A s \in Sides : \A k \in DOMAIN bags[s] : ValidMessage(bags[s][k])
  /\ phase \in {"spinning", "reported"} => ~dataError

\* The offline report is that of the bags, which do not change any more.
ReportIsOfBags ==
  /\ report # None => options # None
  /\ options # None =>
       /\ phase \in {"reported", "failed"}
       /\ report = OfflineReport(bags["a"], bags["b"], options)
  /\ report = None => exit # 0
  /\ exit = 0 => report.status # "ERROR" /\ file = report.status

IInv == TypeOK /\ NeverBothPending /\ FramesConserved /\ ErrorsAreSeen /\ ReportIsOfBags

-----------------------------------------------------------------------------

LEMMA SidesFacts ==
  /\ Sides = {"a", "b"}
  /\ Other("a") = "b" /\ Other("b") = "a"
  /\ \A s \in Sides : Other(s) \in Sides /\ Other(s) # s /\ Other(Other(s)) = s
  /\ \A s, t \in Sides : t = s \/ t = Other(s)
BY DEF Sides, Other

LEMMA InitInvariant == ValidationInit => IInv
<1> SUFFICES ASSUME ValidationInit PROVE IInv
  OBVIOUS
<1> USE DEF ValidationInit, Init, OfflineInit
<1>1. \A s \in Sides : DOMAIN buf[s] = {}
  OBVIOUS
<1>2. IsFiniteSet({}) /\ Cardinality({}) = 0
  BY FS_EmptySet
<1>3. TypeOK
  <2>1. frames \in [received : [Sides -> Nat], unpaired : [Sides -> Nat], paired : Nat]
    BY DEF NoFrames
  <2>2. bags \in [Sides -> Seq(Messages)]
    OBVIOUS
  <2>3. DOMAIN buf = Sides /\ buf = [s \in Sides |-> buf[s]]
    OBVIOUS
  <2>4. QED
    BY <1>1, <1>2, <2>1, <2>2, <2>3 DEF TypeOK
<1>4. NeverBothPending
  BY <1>1, SidesFacts DEF NeverBothPending
<1>5. FramesConserved
  BY <1>1, <1>2 DEF FramesConserved, UnmatchedFrames, PendingFrames, NoFrames
<1>6. ErrorsAreSeen
  BY DEF ErrorsAreSeen
<1>7. ReportIsOfBags
  BY OptionsAssumption DEF ReportIsOfBags
<1>8. QED
  BY <1>3, <1>4, <1>5, <1>6, <1>7 DEF IInv

\* A message arrives while the loop spins: no report has been made.
LEMMA NothingReportedYet ==
  ASSUME IInv, phase \notin {"reported", "failed"}, UNCHANGED offline
  PROVE  ReportIsOfBags'
BY DEF IInv, ReportIsOfBags, offline

LEMMA ArriveTypes ==
  ASSUME TypeOK, NEW side \in Sides, NEW m \in Messages, Arrive(side, m)
  PROVE  /\ phase = "spinning" /\ phase' = "spun"
         /\ bags' \in [Sides -> Seq(Messages)]
         /\ \A s \in Sides : \A k \in DOMAIN bags'[s] :
              bags'[s][k] = m \/ (k \in DOMAIN bags[s] /\ bags'[s][k] = bags[s][k])
<1>1. bags' \in [Sides -> Seq(Messages)]
  BY DEF TypeOK, Arrive
<1>2. ASSUME NEW s \in Sides, NEW k \in DOMAIN bags'[s]
      PROVE  bags'[s][k] = m \/ (k \in DOMAIN bags[s] /\ bags'[s][k] = bags[s][k])
  <2>1. bags[s] \in Seq(Messages)
    BY DEF TypeOK
  <2>2. bags'[s] = IF s = side THEN Append(bags[s], m) ELSE bags[s]
    BY DEF TypeOK, Arrive
  <2>3. QED
    BY <2>1, <2>2
<1>3. QED
  BY <1>1, <1>2 DEF Arrive

LEMMA FramesUnchanged ==
  ASSUME NeverBothPending, FramesConserved, UNCHANGED buf, UNCHANGED frames
  PROVE  NeverBothPending' /\ FramesConserved'
<1>1. NeverBothPending'
  BY DEF NeverBothPending
<1>2. \A s \in Sides : frames.received[s]
                           = frames.paired + (frames.unpaired[s] + Cardinality(DOMAIN buf[s]))
  BY DEF FramesConserved, UnmatchedFrames, PendingFrames
<1>3. \A s \in Sides : frames'.received[s]
                           = frames'.paired + (frames'.unpaired[s] + Cardinality(DOMAIN buf'[s]))
  BY <1>2
<1>4. FramesConserved'
  BY <1>3 DEF FramesConserved, UnmatchedFrames, PendingFrames
<1>5. QED
  BY <1>1, <1>4

LEMMA RejectKeeps ==
  ASSUME IInv, UNCHANGED offline, NEW side \in Sides, NEW m \in Messages, Reject(side, m)
  PROVE  IInv'
<1>1. Arrive(side, m) /\ UNCHANGED <<buf, frames>> /\ dataError' = TRUE
  BY DEF Reject, counters
<1>2. TypeOK'
  BY <1>1, ArriveTypes DEF IInv, TypeOK
<1>3. NeverBothPending' /\ FramesConserved'
  <2>1. NeverBothPending /\ FramesConserved
    BY DEF IInv
  <2>2. UNCHANGED buf /\ UNCHANGED frames
    BY <1>1
  <2>3. QED
    BY <2>1, <2>2, FramesUnchanged
<1>4. ErrorsAreSeen'
  BY <1>1, ArriveTypes DEF ErrorsAreSeen, IInv
<1>5. ReportIsOfBags'
  BY <1>1, NothingReportedYet DEF Arrive
<1>6. QED
  BY <1>2, <1>3, <1>4, <1>5 DEF IInv

\* A valid message adds nothing invalid to the bags.
LEMMA ValidArrival ==
  ASSUME IInv, NEW side \in Sides, NEW m \in Messages, Arrive(side, m), ValidMessage(m),
         UNCHANGED dataError
  PROVE  ErrorsAreSeen'
<1>1. \A x : ValidMessage(x)' <=> ValidMessage(x)
  BY DEF ValidMessage, Readable, ScoreOf
<1>2. QED
  BY <1>1, ArriveTypes DEF IInv, ErrorsAreSeen, ValidMessage

LEMMA PairKeeps ==
  ASSUME IInv, UNCHANGED offline, NEW side \in Sides, NEW m \in Messages, Pair(side, m)
  PROVE  IInv'
<1> DEFINE key == StampKey(m)
           there == Other(side)
<1>1. /\ Arrive(side, m) /\ ValidMessage(m) /\ key \in DOMAIN buf[there]
      /\ buf' = [buf EXCEPT ![there] = Restrict(@, (DOMAIN @) \ {key})]
      /\ frames' = [frames EXCEPT !.received[side] = @ + 1, !.paired = @ + 1]
      /\ UNCHANGED dataError
  BY DEF Pair
<1> HIDE DEF key
<1>2. there \in Sides /\ there # side /\ \A s \in Sides : s = side \/ s = there
  BY SidesFacts
<1>3. /\ DOMAIN buf' = Sides /\ buf' = [s \in Sides |-> buf'[s]]
      /\ buf'[side] = buf[side]
      /\ DOMAIN buf'[there] = (DOMAIN buf[there]) \ {key}
  BY <1>1, <1>2 DEF IInv, TypeOK, Restrict
<1>4. IsFiniteSet(DOMAIN buf[there]) /\ IsFiniteSet(DOMAIN buf[side])
  BY <1>2 DEF IInv, TypeOK
<1>5. /\ IsFiniteSet(DOMAIN buf'[there])
      /\ Cardinality(DOMAIN buf'[there]) = Cardinality(DOMAIN buf[there]) - 1
  BY <1>1, <1>3, <1>4, FS_RemoveElement
<1>6. /\ frames' \in [received : [Sides -> Nat], unpaired : [Sides -> Nat], paired : Nat]
      /\ frames'.received[side] = frames.received[side] + 1
      /\ frames'.received[there] = frames.received[there]
      /\ frames'.unpaired = frames.unpaired /\ frames'.paired = frames.paired + 1
  <2>1. frames \in [received : [Sides -> Nat], unpaired : [Sides -> Nat], paired : Nat]
    BY DEF IInv, TypeOK
  <2>2. frames' = [received |-> [frames.received EXCEPT ![side] = @ + 1],
                   unpaired |-> frames.unpaired, paired |-> frames.paired + 1]
    BY <1>1, <2>1
  <2>3. QED
    BY <1>2, <2>1, <2>2
<1>7. TypeOK'
  BY <1>1, <1>2, <1>3, <1>4, <1>5, <1>6, ArriveTypes DEF IInv, TypeOK
<1>8. NeverBothPending'
  BY <1>2, <1>3, SidesFacts DEF IInv, NeverBothPending
<1>9. FramesConserved'
  <2>1. /\ Cardinality(DOMAIN buf[side]) \in Nat /\ Cardinality(DOMAIN buf[there]) \in Nat
        /\ frames \in [received : [Sides -> Nat], unpaired : [Sides -> Nat], paired : Nat]
    BY <1>4, FS_CardinalityType DEF IInv, TypeOK
  <2>2. \A s \in Sides : frames.received[s]
                           = frames.paired + (frames.unpaired[s] + Cardinality(DOMAIN buf[s]))
    BY DEF IInv, FramesConserved, UnmatchedFrames, PendingFrames
  <2>3. frames'.received[side]
          = frames'.paired + (frames'.unpaired[side] + Cardinality(DOMAIN buf'[side]))
    BY <1>3, <1>6, <2>1, <2>2
  <2>4. frames'.received[there]
          = frames'.paired + (frames'.unpaired[there] + Cardinality(DOMAIN buf'[there]))
    BY <1>2, <1>5, <1>6, <2>1, <2>2
  <2>5. QED
    BY <1>2, <2>3, <2>4 DEF FramesConserved, UnmatchedFrames, PendingFrames
<1>10. ErrorsAreSeen'
  BY <1>1, ValidArrival
<1>11. ReportIsOfBags'
  BY <1>1, NothingReportedYet DEF Arrive
<1>12. QED
  BY <1>7, <1>8, <1>9, <1>10, <1>11 DEF IInv

LEMMA KeepKeeps ==
  ASSUME IInv, UNCHANGED offline, NEW side \in Sides, NEW m \in Messages, Keep(side, m)
  PROVE  IInv'
<1> DEFINE key == StampKey(m)
           there == Other(side)
           replaced == IF key \in DOMAIN buf[side] THEN 1 ELSE 0
<1>1. /\ Arrive(side, m) /\ ValidMessage(m) /\ key \notin DOMAIN buf[there]
      /\ buf' = [buf EXCEPT ![side] = Put(@, key, m)]
      /\ frames' = [frames EXCEPT !.received[side] = @ + 1, !.unpaired[side] = @ + replaced]
      /\ UNCHANGED dataError
  BY DEF Keep
<1> HIDE DEF key
<1>2. there \in Sides /\ there # side /\ \A s \in Sides : s = side \/ s = there
  BY SidesFacts
<1>3. /\ DOMAIN buf' = Sides /\ buf' = [s \in Sides |-> buf'[s]]
      /\ buf'[there] = buf[there]
      /\ DOMAIN buf'[side] = (DOMAIN buf[side]) \cup {key}
  BY <1>1, <1>2 DEF IInv, TypeOK, Put
<1>4. IsFiniteSet(DOMAIN buf[there]) /\ IsFiniteSet(DOMAIN buf[side])
  BY <1>2 DEF IInv, TypeOK
<1>5. /\ IsFiniteSet(DOMAIN buf'[side])
      /\ Cardinality(DOMAIN buf'[side]) = Cardinality(DOMAIN buf[side]) + 1 - replaced
      /\ Cardinality(DOMAIN buf[side]) \in Nat
  <2>1. Cardinality(DOMAIN buf[side]) \in Nat
    BY <1>4, FS_CardinalityType
  <2>2. IsFiniteSet((DOMAIN buf[side]) \cup {key})
    BY <1>4, FS_AddElement
  <2>3. CASE key \in DOMAIN buf[side]
    <3>1. DOMAIN buf'[side] = DOMAIN buf[side] /\ replaced = 1
      BY <1>3, <2>3
    <3>2. QED
      BY <1>4, <2>1, <2>2, <3>1
  <2>4. CASE key \notin DOMAIN buf[side]
    <3>1. replaced = 0 /\ Cardinality(DOMAIN buf'[side]) = Cardinality(DOMAIN buf[side]) + 1
      BY <1>3, <1>4, <2>4, FS_AddElement
    <3>2. QED
      BY <1>3, <2>1, <2>2, <3>1
  <2>5. QED
    BY <2>3, <2>4
<1>6. /\ frames' \in [received : [Sides -> Nat], unpaired : [Sides -> Nat], paired : Nat]
      /\ frames'.received[side] = frames.received[side] + 1
      /\ frames'.unpaired[side] = frames.unpaired[side] + replaced
      /\ frames'.received[there] = frames.received[there]
      /\ frames'.unpaired[there] = frames.unpaired[there]
      /\ frames'.paired = frames.paired
  <2>1. replaced \in Nat
    OBVIOUS
  <2> HIDE DEF replaced
  <2>2. frames \in [received : [Sides -> Nat], unpaired : [Sides -> Nat], paired : Nat]
    BY DEF IInv, TypeOK
  <2>3. frames' = [received |-> [frames.received EXCEPT ![side] = @ + 1],
                   unpaired |-> [frames.unpaired EXCEPT ![side] = @ + replaced],
                   paired |-> frames.paired]
    BY <1>1, <2>2
  <2>4. QED
    BY <1>2, <2>1, <2>2, <2>3
<1>7. TypeOK'
  BY <1>1, <1>2, <1>3, <1>4, <1>5, <1>6, ArriveTypes DEF IInv, TypeOK
<1>8. NeverBothPending'
  BY <1>1, <1>2, <1>3, SidesFacts DEF IInv, NeverBothPending
<1>9. FramesConserved'
  <2>1. frames \in [received : [Sides -> Nat], unpaired : [Sides -> Nat], paired : Nat]
    BY DEF IInv, TypeOK
  <2>2. \A s \in Sides : frames.received[s]
                           = frames.paired + (frames.unpaired[s] + Cardinality(DOMAIN buf[s]))
    BY DEF IInv, FramesConserved, UnmatchedFrames, PendingFrames
  <2>3. frames'.received[side]
          = frames'.paired + (frames'.unpaired[side] + Cardinality(DOMAIN buf'[side]))
    BY <1>5, <1>6, <2>1, <2>2
  <2>4. frames'.received[there]
          = frames'.paired + (frames'.unpaired[there] + Cardinality(DOMAIN buf'[there]))
    BY <1>2, <1>3, <1>6, <2>1, <2>2
  <2>5. QED
    BY <1>2, <2>3, <2>4 DEF FramesConserved, UnmatchedFrames, PendingFrames
<1>10. ErrorsAreSeen'
  BY <1>1, ValidArrival
<1>11. ReportIsOfBags'
  BY <1>1, NothingReportedYet DEF Arrive
<1>12. QED
  BY <1>7, <1>8, <1>9, <1>10, <1>11 DEF IInv

\* The loop of main(): nothing but the phase changes.
LEMMA MainLoopKeeps ==
  ASSUME IInv, UNCHANGED offline, Check \/ Deadline \/ ContextDown
  PROVE  IInv'
<1>1. /\ UNCHANGED <<buf, frames, dataError, bags>>
      /\ phase \in {"spun", "spinning"}
      /\ phase' \in {"spinning", "reported", "failed"}
      /\ phase' \in {"spinning", "reported"} => ~dataError
  BY DEF Check, Deadline, ContextDown, counters, IInv, ErrorsAreSeen
<1>2. TypeOK'
  BY <1>1 DEF IInv, TypeOK
<1>3. NeverBothPending' /\ FramesConserved'
  <2>1. NeverBothPending /\ FramesConserved
    BY DEF IInv
  <2>2. UNCHANGED buf /\ UNCHANGED frames
    BY <1>1
  <2>3. QED
    BY <2>1, <2>2, FramesUnchanged
<1>4. ErrorsAreSeen'
  BY <1>1 DEF IInv, ErrorsAreSeen, ValidMessage, Readable, ScoreOf
<1>5. ReportIsOfBags'
  BY <1>1, NothingReportedYet
<1>6. QED
  BY <1>2, <1>3, <1>4, <1>5 DEF IInv

\* The offline tool leaves the live one alone.
LEMMA LiveToolKeeps ==
  ASSUME IInv, UNCHANGED vars
  PROVE  (TypeOK /\ NeverBothPending /\ FramesConserved /\ ErrorsAreSeen)'
<1>1. UNCHANGED <<buf, frames, dataError, phase, bags>>
  BY DEF vars, counters
<1>2. TypeOK'
  BY <1>1 DEF IInv, TypeOK
<1>3. NeverBothPending' /\ FramesConserved'
  <2>1. NeverBothPending /\ FramesConserved
    BY DEF IInv
  <2>2. UNCHANGED buf /\ UNCHANGED frames
    BY <1>1
  <2>3. QED
    BY <2>1, <2>2, FramesUnchanged
<1>4. ErrorsAreSeen'
  BY <1>1 DEF IInv, ErrorsAreSeen, ValidMessage, Readable, ScoreOf
<1>5. QED
  BY <1>2, <1>3, <1>4

LEMMA OfflineKeeps ==
  ASSUME IInv, (\E o \in Options : CompareBags(o)) \/ WriteReport \/ WriteFails
  PROVE  IInv'
<1>1. UNCHANGED vars /\ UNCHANGED <<phase, bags>>
  BY DEF CompareBags, WriteReport, WriteFails, vars
<1>2. ASSUME NEW o \in Options, CompareBags(o) PROVE ReportIsOfBags'
  <2>1. options = None /\ report = None
    BY <1>2 DEF CompareBags, IInv, ReportIsOfBags
  <2>2. exit' # 0
    BY <1>2, <2>1 DEF CompareBags, IInv, ReportIsOfBags
  <2>3. /\ options' = o /\ o # None
        /\ phase' \in {"reported", "failed"}
        /\ report' = OfflineReport(bags["a"], bags["b"], o)
    BY <1>1, <1>2, OptionsAssumption DEF CompareBags
  <2>4. QED
    BY <1>1, <2>2, <2>3 DEF ReportIsOfBags
<1>3. ASSUME report # None, UNCHANGED <<options, report>>,
             exit' = 0 => report.status # "ERROR" /\ file' = report.status
      PROVE  ReportIsOfBags'
  <2>1. OfflineReport(bags["a"], bags["b"], options)' = OfflineReport(bags["a"], bags["b"], options)
    BY <1>1, <1>3
  <2>2. QED
    BY <1>1, <1>3, <2>1 DEF IInv, ReportIsOfBags
<1>4. WriteReport => ReportIsOfBags'
  BY <1>3 DEF WriteReport
<1>5. WriteFails => ReportIsOfBags'
  BY <1>3 DEF WriteFails
<1>6. QED
  BY <1>1, <1>2, <1>4, <1>5, LiveToolKeeps DEF IInv

LEMMA StepInvariant == IInv /\ [ValidationNext]_allVars => IInv'
<1> SUFFICES ASSUME IInv, [ValidationNext]_allVars PROVE IInv'
  OBVIOUS
<1>1. CASE Next /\ UNCHANGED offline
  BY <1>1, RejectKeeps, PairKeeps, KeepKeeps, MainLoopKeeps DEF Next
<1>2. CASE (\E o \in Options : CompareBags(o)) \/ WriteReport \/ WriteFails
  BY <1>2, OfflineKeeps
<1>3. CASE UNCHANGED allVars
  <2>1. UNCHANGED vars /\ UNCHANGED <<phase, bags, options, report, file, exit>>
    BY <1>3 DEF allVars, vars, offline
  <2>2. ReportIsOfBags'
    BY <2>1 DEF IInv, ReportIsOfBags
  <2>3. QED
    BY <2>1, <2>2, LiveToolKeeps DEF IInv
<1>4. QED
  BY <1>1, <1>2, <1>3 DEF ValidationNext

\* A report without an error is one of bags that could be read.
LEMMA ReportNeedsReadableBags ==
  ASSUME NEW ref, NEW cand, NEW o, OfflineReport(ref, cand, o).status # "ERROR"
  PROVE  /\ OfflineReport(ref, cand, o).status = "REPORT_ONLY"
         /\ \A k \in DOMAIN ref : \A i \in DOMAIN ref[k].dets : Readable(ref[k].dets[i])
         /\ \A k \in DOMAIN cand : \A i \in DOMAIN cand[k].dets : Readable(cand[k].dets[i])
<1>1. FiltersValid(o) /\ CanRead(ref, o) /\ CanRead(cand, o)
  BY DEF OfflineReport
<1>2. OfflineReport(ref, cand, o).status = "REPORT_ONLY"
  BY <1>1 DEF OfflineReport
<1>3. QED
  BY <1>1, <1>2 DEF CanRead

-----------------------------------------------------------------------------
(* The counts of detections.                                                *)

CountTypes ==
  /\ detections \in [received : [Sides -> Int], paired : [Sides -> Int], unmatched : [Sides -> Int],
                     unpaired : [Sides -> Int], matched : Int]
  /\ observations \in [Observed -> Int]

PendingAreValid ==
  \A s \in Sides : \A k \in DOMAIN buf[s] :
    buf[s][k] \in Messages /\ ValidMessage(buf[s][k]) /\ StampKey(buf[s][k]) = k

DetectionsConserved ==
  /\ \A s \in Sides :
       /\ detections.received[s]
            = detections.matched + (detections.unmatched[s] + detections.unpaired[s] + Waiting(buf[s]))
       /\ detections.paired[s] = detections.matched + detections.unmatched[s]
  /\ observations.matches + observations.mismatches + observations.unavailable
       = detections.matched

CountsIInv == CountTypes /\ PendingAreValid /\ DetectionsConserved

LEMMA MessageFacts ==
  ASSUME NEW m \in Messages
  PROVE  /\ m.dets \in Seq(Detections) /\ Len(m.dets) \in Nat
         /\ m.sec \in Int /\ m.nanosec \in Int
         /\ ValidMessage(m) => IsFrame(m.dets)
<1>1. m \in [sec : Int, nanosec : Int, dets : Seq(Detections)]
  BY ComparatorAssumption
<1>2. m.dets \in Seq(Detections) /\ m.sec \in Int /\ m.nanosec \in Int
  BY <1>1
<1>3. Len(m.dets) \in Nat
  BY <1>2
<1>4. QED
  BY <1>2, <1>3 DEF ValidMessage, IsFrame

LEMMA PendingCanBeSummed ==
  ASSUME TypeOK, PendingAreValid, NEW s \in Sides
  PROVE  CanSum(buf[s]) /\ Waiting(buf[s]) \in Int
<1>1. \A k \in DOMAIN buf[s] : Len(buf[s][k].dets) \in Int
  BY MessageFacts DEF PendingAreValid
<1>2. CanSum(buf[s])
  BY <1>1 DEF TypeOK, CanSum
<1>3. Summable([k \in DOMAIN buf[s] |-> Len(buf[s][k].dets)])
  BY <1>2 DEF CanSum, Summable
<1>4. QED
  BY <1>2, <1>3, SumIsInt DEF Waiting

LEMMA InitCounts == ValidationInit => CountsIInv
<1> SUFFICES ASSUME ValidationInit PROVE CountsIInv
  OBVIOUS
<1>1. \A s \in Sides : DOMAIN buf[s] = {}
  BY DEF ValidationInit, Init
<1>2. \A s \in Sides : Waiting(buf[s]) = 0
  <2> SUFFICES ASSUME NEW s \in Sides PROVE Waiting(buf[s]) = 0
    OBVIOUS
  <2> DEFINE w == [k \in DOMAIN buf[s] |-> Len(buf[s][k].dets)]
  <2>1. DOMAIN w = {}
    BY <1>1
  <2>2. Waiting(buf[s]) = SumFunction(w)
    BY DEF Waiting
  <2> HIDE DEF w
  <2>3. QED
    BY <2>1, <2>2, SumOfNone
<1>3. detections = NoDetections /\ observations = NothingSeen
  BY DEF ValidationInit, Init
<1>4. CountTypes
  BY <1>3 DEF CountTypes, NoDetections, NothingSeen, Observed
<1>5. PendingAreValid
  BY <1>1 DEF PendingAreValid
<1>6. DetectionsConserved
  BY <1>2, <1>3 DEF DetectionsConserved, NoDetections, NothingSeen
<1>7. QED
  BY <1>4, <1>5, <1>6 DEF CountsIInv

\* Steps that leave the messages and the counts alone.
LEMMA CountsUnchanged ==
  ASSUME CountsIInv, UNCHANGED <<buf, detections, observations>>
  PROVE  CountsIInv'
<1>1. CountTypes' /\ DetectionsConserved'
  <2>1. CountTypes'
    BY DEF CountsIInv, CountTypes
  <2>2. \A s \in Sides : Waiting(buf'[s]) = Waiting(buf[s])
    OBVIOUS
  <2>3. DetectionsConserved'
    BY <2>2 DEF CountsIInv, DetectionsConserved, Waiting
  <2>4. QED
    BY <2>1, <2>3
<1>2. PendingAreValid'
  BY DEF CountsIInv, PendingAreValid, ValidMessage, Readable, ScoreOf, StampKey
<1>3. QED
  BY <1>1, <1>2 DEF CountsIInv

LEMMA PairCounts ==
  ASSUME IInv, CountsIInv, NEW side \in Sides, NEW m \in Messages, Pair(side, m)
  PROVE  CountsIInv'
<1> DEFINE key == StampKey(m)
           there == Other(side)
           other == buf[there][key]
           M == MatchFrame(m.dets, other.dets)
           n == Len(m.dets)
           l == Len(other.dets)
           c == Cardinality(M)
           o == Observe(m.dets, other.dets, M)
<1>1. /\ ValidMessage(m) /\ key \in DOMAIN buf[there]
      /\ buf' = [buf EXCEPT ![there] = Restrict(@, (DOMAIN @) \ {key})]
      /\ detections' =
           [detections EXCEPT
              !.received[side] = @ + n,
              !.paired = [s \in Sides |-> @[s] + Len(IF s = side THEN m.dets ELSE other.dets)],
              !.unmatched = [s \in Sides |-> @[s] + Len(IF s = side THEN m.dets ELSE other.dets) - c],
              !.matched = @ + c]
      /\ observations' = AddRecords(observations, o)
  BY DEF Pair
<1> HIDE DEF key
<1>2. there \in Sides /\ there # side /\ \A s \in Sides : s = side \/ s = there
  BY SidesFacts
<1> HIDE DEF there
<1>3. /\ DOMAIN buf' = Sides /\ buf'[side] = buf[side]
      /\ DOMAIN buf'[there] = (DOMAIN buf[there]) \ {key}
      /\ \A k \in DOMAIN buf'[there] : buf'[there][k] = buf[there][k]
  BY <1>1, <1>2 DEF IInv, TypeOK, Restrict
<1>4. other \in Messages /\ ValidMessage(other)
  BY <1>1, <1>2 DEF CountsIInv, PendingAreValid
<1>5. n \in Nat /\ l \in Nat /\ IsFrame(m.dets) /\ IsFrame(other.dets)
  BY <1>1, <1>4, MessageFacts
<1> HIDE DEF other
<1>6. IsFiniteSet(M) /\ c \in Nat
  BY <1>5, MatchFrameKernel DEF IsMatching
<1>7. o \in [Observed -> Int] /\ o.matches + o.mismatches + o.unavailable = c
  BY <1>6, ObserveAdds
<1> HIDE DEF M, c, o
<1>8. PendingAreValid'
  <2>1. \A x : (ValidMessage(x)' <=> ValidMessage(x)) /\ StampKey(x)' = StampKey(x)
    BY DEF ValidMessage, Readable, ScoreOf, StampKey
  <2>2. \A s \in Sides : \A k \in DOMAIN buf'[s] : k \in DOMAIN buf[s] /\ buf'[s][k] = buf[s][k]
    BY <1>2, <1>3
  <2>3. QED
    BY <2>1, <2>2 DEF CountsIInv, PendingAreValid, ValidMessage, StampKey
<1>9. Waiting(buf[there]) = Waiting(buf'[there]) + l /\ Waiting(buf'[there]) \in Int
      /\ Waiting(buf[side]) \in Int
  <2>1. CanSum(buf[there]) /\ Waiting(buf[side]) \in Int
    BY <1>2, PendingCanBeSummed DEF IInv, CountsIInv
  <2>2. QED
    BY <1>1, <1>3, <2>1, WaitingLess DEF other
<1>10. detections \in [received : [Sides -> Int], paired : [Sides -> Int], unmatched : [Sides -> Int],
                       unpaired : [Sides -> Int], matched : Int]
  BY DEF CountsIInv, CountTypes
<1> DEFINE size == [s \in Sides |-> IF s = side THEN n ELSE l]
<1>11. /\ size \in [Sides -> Int] /\ size[side] = n /\ size[there] = l
       /\ \A s \in Sides : Len(IF s = side THEN m.dets ELSE other.dets) = size[s]
  BY <1>2, <1>5
<1>12. detections' =
         [received |-> [detections.received EXCEPT ![side] = @ + n],
          paired |-> [s \in Sides |-> detections.paired[s] + size[s]],
          unmatched |-> [s \in Sides |-> detections.unmatched[s] + size[s] - c],
          unpaired |-> detections.unpaired,
          matched |-> detections.matched + c]
  <2>1. detections' =
         [received |-> [detections.received EXCEPT ![side] = @ + n],
          paired |-> [s \in Sides |-> detections.paired[s] + Len(IF s = side THEN m.dets ELSE other.dets)],
          unmatched |-> [s \in Sides |-> detections.unmatched[s]
                                           + Len(IF s = side THEN m.dets ELSE other.dets) - c],
          unpaired |-> detections.unpaired,
          matched |-> detections.matched + c]
    BY <1>1, <1>10
  <2> HIDE DEF size
  <2>2. QED
    BY <1>11, <2>1
<1> HIDE DEF n, l, size
<1>13. /\ detections'.received[side] = detections.received[side] + n
       /\ detections'.received[there] = detections.received[there]
       /\ \A s \in Sides : /\ detections'.paired[s] = detections.paired[s] + size[s]
                           /\ detections'.unmatched[s] = detections.unmatched[s] + size[s] - c
       /\ detections'.unpaired = detections.unpaired
       /\ detections'.matched = detections.matched + c
  BY <1>2, <1>10, <1>12
<1>14. observations \in [Observed -> Int]
  BY DEF CountsIInv, CountTypes
<1>15. observations' = [f \in Observed |-> observations[f] + o[f]]
  BY <1>1, <1>14 DEF AddRecords
<1>16. observations' \in [Observed -> Int]
  BY <1>7, <1>14, <1>15
<1>17. CountTypes'
  <2>1. /\ [detections.received EXCEPT ![side] = @ + n] \in [Sides -> Int]
        /\ [s \in Sides |-> detections.paired[s] + size[s]] \in [Sides -> Int]
        /\ [s \in Sides |-> detections.unmatched[s] + size[s] - c] \in [Sides -> Int]
        /\ detections.matched + c \in Int /\ detections.unpaired \in [Sides -> Int]
    <3> DEFINE d == detections
    <3>1. /\ d.received \in [Sides -> Int] /\ d.paired \in [Sides -> Int]
          /\ d.unmatched \in [Sides -> Int] /\ d.unpaired \in [Sides -> Int] /\ d.matched \in Int
      BY <1>10
    <3> HIDE DEF d
    <3>2. /\ [d.received EXCEPT ![side] = @ + n] \in [Sides -> Int]
          /\ d.matched + c \in Int
      BY <1>5, <1>6, <3>1 DEF n
    <3>3. [s \in Sides |-> d.paired[s] + size[s]] \in [Sides -> Int]
      BY <1>11, <3>1
    <3>4. [s \in Sides |-> d.unmatched[s] + size[s] - c] \in [Sides -> Int]
      <4>1. \A s \in Sides : size[s] \in Int /\ d.unmatched[s] \in Int /\ c \in Int
        BY <1>6, <1>11, <3>1
      <4>2. \A s \in Sides : d.unmatched[s] + size[s] - c \in Int
        BY <4>1
      <4>3. QED
        BY <4>2
    <3>5. QED
      BY <3>1, <3>2, <3>3, <3>4 DEF d
  <2>2. QED
    BY <1>12, <1>16, <2>1 DEF CountTypes
<1>18. DetectionsConserved'
  <2>1. /\ \A s \in Sides : /\ detections.received[s] \in Int /\ detections.paired[s] \in Int
                            /\ detections.unmatched[s] \in Int /\ detections.unpaired[s] \in Int
        /\ detections.matched \in Int
    BY <1>10
  <2>2. \A s \in Sides :
       /\ detections.received[s]
            = detections.matched + (detections.unmatched[s] + detections.unpaired[s] + Waiting(buf[s]))
       /\ detections.paired[s] = detections.matched + detections.unmatched[s]
    BY DEF CountsIInv, DetectionsConserved
  <2>3. /\ detections'.received[side]
             = detections'.matched + (detections'.unmatched[side] + detections'.unpaired[side]
                                       + Waiting(buf'[side]))
        /\ detections'.paired[side] = detections'.matched + detections'.unmatched[side]
    <3>1. /\ detections'.received[side] = detections.received[side] + n
          /\ detections'.unmatched[side] = detections.unmatched[side] + n - c
          /\ detections'.paired[side] = detections.paired[side] + n
          /\ detections'.unpaired[side] = detections.unpaired[side]
          /\ detections'.matched = detections.matched + c
          /\ Waiting(buf'[side]) = Waiting(buf[side])
      BY <1>3, <1>11, <1>13
    <3>2. /\ detections.received[side]
               = detections.matched + (detections.unmatched[side] + detections.unpaired[side]
                                        + Waiting(buf[side]))
          /\ detections.paired[side] = detections.matched + detections.unmatched[side]
      BY <2>2
    <3>3. /\ detections.received[side] \in Int /\ detections.paired[side] \in Int
          /\ detections.unmatched[side] \in Int /\ detections.unpaired[side] \in Int
          /\ detections.matched \in Int /\ Waiting(buf[side]) \in Int /\ n \in Int /\ c \in Int
      BY <1>5, <1>6, <1>9, <2>1 DEF n
    <3>4. QED
      BY <3>1, <3>2, <3>3
  <2>4. /\ detections'.received[there]
             = detections'.matched + (detections'.unmatched[there] + detections'.unpaired[there]
                                       + Waiting(buf'[there]))
        /\ detections'.paired[there] = detections'.matched + detections'.unmatched[there]
    <3>1. /\ detections'.received[there] = detections.received[there]
          /\ detections'.unmatched[there] = detections.unmatched[there] + l - c
          /\ detections'.paired[there] = detections.paired[there] + l
          /\ detections'.unpaired[there] = detections.unpaired[there]
          /\ detections'.matched = detections.matched + c
          /\ Waiting(buf[there]) = Waiting(buf'[there]) + l
      BY <1>2, <1>9, <1>11, <1>13
    <3>2. /\ detections.received[there]
               = detections.matched + (detections.unmatched[there] + detections.unpaired[there]
                                        + Waiting(buf[there]))
          /\ detections.paired[there] = detections.matched + detections.unmatched[there]
      BY <1>2, <2>2
    <3>3. /\ detections.received[there] \in Int /\ detections.paired[there] \in Int
          /\ detections.unmatched[there] \in Int /\ detections.unpaired[there] \in Int
          /\ detections.matched \in Int /\ Waiting(buf'[there]) \in Int /\ l \in Int /\ c \in Int
      BY <1>2, <1>5, <1>6, <1>9, <2>1 DEF l
    <3>4. QED
      BY <3>1, <3>2, <3>3
  <2>5. observations'.matches + observations'.mismatches + observations'.unavailable
          = detections'.matched
    <3>1. /\ observations'.matches = observations.matches + o.matches
          /\ observations'.mismatches = observations.mismatches + o.mismatches
          /\ observations'.unavailable = observations.unavailable + o.unavailable
      BY <1>15 DEF Observed
    <3>2. /\ observations.matches \in Int /\ observations.mismatches \in Int
          /\ observations.unavailable \in Int
          /\ o.matches \in Int /\ o.mismatches \in Int /\ o.unavailable \in Int
      BY <1>7, <1>14 DEF Observed
    <3>3. observations.matches + observations.mismatches + observations.unavailable
            = detections.matched
      BY DEF CountsIInv, DetectionsConserved
    <3>4. QED
      BY <1>6, <1>7, <1>13, <2>1, <3>1, <3>2, <3>3
  <2>6. QED
    BY <1>2, <2>3, <2>4, <2>5 DEF DetectionsConserved, Waiting
<1>19. QED
  BY <1>8, <1>17, <1>18 DEF CountsIInv

LEMMA KeepCounts ==
  ASSUME IInv, CountsIInv, NEW side \in Sides, NEW m \in Messages, Keep(side, m)
  PROVE  CountsIInv'
<1> DEFINE key == StampKey(m)
           replaced == IF key \in DOMAIN buf[side] THEN 1 ELSE 0
           lost == IF replaced = 1 THEN Len(buf[side][key].dets) ELSE 0
           n == Len(m.dets)
<1>1. /\ ValidMessage(m)
      /\ buf' = [buf EXCEPT ![side] = Put(@, key, m)]
      /\ detections' = [detections EXCEPT !.received[side] = @ + n, !.unpaired[side] = @ + lost]
      /\ UNCHANGED observations
  BY DEF Keep
<1>2. key = StampKey(m) /\ n = Len(m.dets) /\ n \in Int
  BY MessageFacts
<1>3. lost = (IF key \in DOMAIN buf[side] THEN Len(buf[side][key].dets) ELSE 0)
  OBVIOUS
<1>4. \A s \in Sides : CanSum(buf[s]) /\ Waiting(buf[s]) \in Int
  BY PendingCanBeSummed DEF IInv, CountsIInv
<1>5. lost \in Int
  BY <1>3, <1>4 DEF CanSum
<1> HIDE DEF key, lost, n
<1>6. /\ DOMAIN buf' = Sides /\ buf'[side] = Put(buf[side], key, m)
      /\ \A s \in Sides : s # side => buf'[s] = buf[s]
  BY <1>1 DEF IInv, TypeOK
<1>7. /\ Waiting(buf'[side]) = Waiting(buf[side]) + n - lost
      /\ Waiting(buf'[side]) \in Int
  <2> DEFINE f == buf[side]
  <2>1. CanSum(f) /\ Len(m.dets) \in Int
    BY <1>2, <1>4
  <2> HIDE DEF f
  <2>2. /\ Waiting(Put(f, key, m)) \in Int
        /\ Waiting(Put(f, key, m)) = Waiting(f) + Len(m.dets)
              - (IF key \in DOMAIN f THEN Len(f[key].dets) ELSE 0)
    BY <2>1, WaitingPut
  <2>3. QED
    BY <1>2, <1>3, <1>6, <2>2 DEF f
<1>8. PendingAreValid'
  <2>1. \A x : (ValidMessage(x)' <=> ValidMessage(x)) /\ StampKey(x)' = StampKey(x)
    BY DEF ValidMessage, Readable, ScoreOf, StampKey
  <2>2. \A s \in Sides : \A k \in DOMAIN buf'[s] :
          \/ k \in DOMAIN buf[s] /\ buf'[s][k] = buf[s][k]
          \/ k = key /\ buf'[s][k] = m
    BY <1>6 DEF Put
  <2>3. \A s \in Sides : \A k \in DOMAIN buf'[s] :
          buf'[s][k] \in Messages /\ ValidMessage(buf'[s][k]) /\ StampKey(buf'[s][k]) = k
    BY <1>1, <1>2, <2>2 DEF CountsIInv, PendingAreValid
  <2>4. QED
    BY <2>1, <2>3 DEF PendingAreValid, ValidMessage, StampKey
<1>9. detections \in [received : [Sides -> Int], paired : [Sides -> Int], unmatched : [Sides -> Int],
                      unpaired : [Sides -> Int], matched : Int]
  BY DEF CountsIInv, CountTypes
<1>10. detections' =
         [received |-> [detections.received EXCEPT ![side] = @ + n],
          paired |-> detections.paired,
          unmatched |-> detections.unmatched,
          unpaired |-> [detections.unpaired EXCEPT ![side] = @ + lost],
          matched |-> detections.matched]
  BY <1>1, <1>9
<1>11. CountTypes'
  <2>1. /\ [detections.received EXCEPT ![side] = @ + n] \in [Sides -> Int]
        /\ [detections.unpaired EXCEPT ![side] = @ + lost] \in [Sides -> Int]
    BY <1>2, <1>5, <1>9
  <2>2. QED
    BY <1>1, <1>9, <1>10, <2>1 DEF CountTypes, CountsIInv
<1>12. DetectionsConserved'
  <2>1. \A s \in Sides :
       /\ detections.received[s]
            = detections.matched + (detections.unmatched[s] + detections.unpaired[s] + Waiting(buf[s]))
       /\ detections.paired[s] = detections.matched + detections.unmatched[s]
    BY DEF CountsIInv, DetectionsConserved
  <2>2. ASSUME NEW s \in Sides
        PROVE  /\ detections'.received[s]
                    = detections'.matched + (detections'.unmatched[s] + detections'.unpaired[s]
                                              + Waiting(buf'[s]))
               /\ detections'.paired[s] = detections'.matched + detections'.unmatched[s]
    <3>1. /\ detections.received[s] \in Int /\ detections.paired[s] \in Int
          /\ detections.unmatched[s] \in Int /\ detections.unpaired[s] \in Int
          /\ detections.matched \in Int /\ Waiting(buf[s]) \in Int
      BY <1>4, <1>9
    <3>2. /\ detections.received[s]
                = detections.matched + (detections.unmatched[s] + detections.unpaired[s]
                                         + Waiting(buf[s]))
          /\ detections.paired[s] = detections.matched + detections.unmatched[s]
      BY <2>1
    <3>3. /\ detections'.matched = detections.matched
          /\ detections'.unmatched[s] = detections.unmatched[s]
          /\ detections'.paired[s] = detections.paired[s]
      BY <1>10
    <3>4. CASE s = side
      <4>1. /\ detections'.received[s] = detections.received[s] + n
            /\ detections'.unpaired[s] = detections.unpaired[s] + lost
            /\ Waiting(buf'[s]) = Waiting(buf[s]) + n - lost
        BY <1>7, <1>9, <1>10, <3>4
      <4>2. QED
        <5>1. n \in Int /\ lost \in Int
          BY <1>2, <1>5
        <5>2. detections'.received[s]
                = detections'.matched + (detections'.unmatched[s] + detections'.unpaired[s]
                                          + Waiting(buf'[s]))
          BY <3>1, <3>2, <3>3, <4>1, <5>1
        <5>3. QED
          BY <3>1, <3>2, <3>3, <5>2
    <3>5. CASE s # side
      <4>1. /\ detections'.received[s] = detections.received[s]
            /\ detections'.unpaired[s] = detections.unpaired[s]
            /\ Waiting(buf'[s]) = Waiting(buf[s])
        BY <1>6, <1>9, <1>10, <3>5
      <4>2. QED
        BY <3>1, <3>2, <3>3, <4>1
    <3>6. QED
      BY <3>4, <3>5
  <2>3. observations'.matches + observations'.mismatches + observations'.unavailable
          = detections'.matched
    BY <1>1, <1>10 DEF CountsIInv, DetectionsConserved
  <2>4. QED
    BY <2>2, <2>3 DEF DetectionsConserved, Waiting
<1>13. QED
  BY <1>8, <1>11, <1>12 DEF CountsIInv

LEMMA StepCounts == IInv /\ CountsIInv /\ [ValidationNext]_allVars => CountsIInv'
<1> SUFFICES ASSUME IInv, CountsIInv, [ValidationNext]_allVars PROVE CountsIInv'
  OBVIOUS
<1>1. CASE \E side \in Sides, m \in Messages : Reject(side, m) \/ Pair(side, m) \/ Keep(side, m)
  <2>1. PICK side \in Sides, m \in Messages : Reject(side, m) \/ Pair(side, m) \/ Keep(side, m)
    BY <1>1
  <2>2. Reject(side, m) => UNCHANGED <<buf, detections, observations>>
    BY DEF Reject, counters
  <2>3. QED
    BY <2>1, <2>2, CountsUnchanged, PairCounts, KeepCounts
<1>2. CASE Check \/ Deadline \/ ContextDown
  <2>1. UNCHANGED <<buf, detections, observations>>
    BY <1>2 DEF Check, Deadline, ContextDown, counters
  <2>2. QED
    BY <2>1, CountsUnchanged
<1>3. CASE (\E o \in Options : CompareBags(o)) \/ WriteReport \/ WriteFails \/ UNCHANGED allVars
  <2>1. UNCHANGED <<buf, detections, observations>>
    BY <1>3 DEF CompareBags, WriteReport, WriteFails, allVars, vars, counters
  <2>2. QED
    BY <2>1, CountsUnchanged
<1>4. QED
  BY <1>1, <1>2, <1>3 DEF ValidationNext, Next

LEMMA CountsAreConserved == IInv /\ CountsIInv => EverythingIsCounted
<1> SUFFICES ASSUME IInv, CountsIInv PROVE EverythingIsCounted
  OBVIOUS
<1>1. FramesConserved
  BY DEF IInv
<1>2. \A s \in Sides :
        UnmatchedDetections(s) = detections.unmatched[s] + detections.unpaired[s] + Waiting(buf[s])
  BY DEF UnmatchedDetections, PendingDetections, Waiting
<1>3. QED
  BY <1>1, <1>2 DEF CountsIInv, DetectionsConserved, EverythingIsCounted

-----------------------------------------------------------------------------
(* The report of the offline tool.                                          *)

OptionsAreGiven == options \in Options \cup {None}

LEMMA InitOptions == ValidationInit => OptionsAreGiven
BY DEF ValidationInit, OfflineInit, OptionsAreGiven

LEMMA StepOptions == OptionsAreGiven /\ [ValidationNext]_allVars => OptionsAreGiven'
BY DEF OptionsAreGiven, ValidationNext, CompareBags, WriteReport, WriteFails, allVars, offline

LEMMA ReadFramesAreBag ==
  ASSUME NEW bag \in Seq(Messages), NEW o \in Options, FiltersValid(o), CanRead(bag, o)
  PROVE  IsBag(ReadFrames(bag, o), Len(bag)) /\ DOMAIN ReadFrames(bag, o) = DOMAIN bag
<1> DEFINE read == ReadFrames(bag, o)
           n == Len(bag)
<1>1. n \in Nat /\ DOMAIN bag = 1..n /\ \A k \in 1..n : bag[k] \in Messages
  OBVIOUS
<1>2. DOMAIN read = 1..n /\ \A k \in 1..n : read[k].dets = Filter(bag[k].dets, o)
  BY <1>1 DEF ReadFrames
<1>3. o.limit \in Nat
  BY OptionsAssumption DEF FiltersValid
<1>4. ASSUME NEW k \in 1..n PROVE IsFrame(bag[k].dets)
  <2>1. bag[k].dets \in Seq(Detections)
    BY <1>1, MessageFacts
  <2>2. \A i \in DOMAIN bag[k].dets : Readable(bag[k].dets[i])
    BY <1>1 DEF CanRead
  <2>3. QED
    BY <2>1, <2>2 DEF IsFrame
<1>5. ASSUME NEW k \in 1..n PROVE IsFrame(read[k].dets)
  <2>1. IsFrame(Filter(bag[k].dets, o))
    BY <1>3, <1>4, FilterLeavesFrame
  <2>2. QED
    BY <1>2, <2>1
<1>6. QED
  BY <1>1, <1>2, <1>5 DEF IsBag

\* What a report without an error is.
LEMMA ReportIsSummary ==
  ASSUME IInv, OptionsAreGiven, Compared
  PROVE  /\ options \in Options /\ FiltersValid(options)
         /\ bags["a"] \in Seq(Messages) /\ bags["b"] \in Seq(Messages)
         /\ CanRead(bags["a"], options) /\ CanRead(bags["b"], options)
         /\ LET ref  == ReadFrames(bags["a"], options)
                cand == ReadFrames(bags["b"], options)
            IN  report.summary = Summarize(ref, cand, PairFrames(ref, cand, options.policy),
                                           options.classAware)
<1>1. options # None /\ report.status = "REPORT_ONLY"
  BY DEF Compared
<1>2. options \in Options
  BY <1>1 DEF OptionsAreGiven
<1>3. bags["a"] \in Seq(Messages) /\ bags["b"] \in Seq(Messages)
  BY DEF IInv, TypeOK, Sides
<1>4. report = OfflineReport(bags["a"], bags["b"], options)
  BY <1>1 DEF IInv, ReportIsOfBags
<1>5. FiltersValid(options) /\ CanRead(bags["a"], options) /\ CanRead(bags["b"], options)
  BY <1>1, <1>4 DEF OfflineReport
<1>6. LET ref  == ReadFrames(bags["a"], options)
          cand == ReadFrames(bags["b"], options)
      IN  report.summary = Summarize(ref, cand, PairFrames(ref, cand, options.policy),
                                     options.classAware)
  BY <1>4, <1>5 DEF OfflineReport
<1>7. QED
  BY <1>2, <1>3, <1>5, <1>6

LEMMA SummaryConserves == IInv /\ OptionsAreGiven => OfflineConserves
<1> SUFFICES ASSUME IInv, OptionsAreGiven, Compared PROVE OfflineConserves
  BY DEF OfflineConserves
<1> DEFINE kept(s) == ReadFrames(bags[s], options)
           Left(s) == SumFunction([k \in DOMAIN bags[s] |-> Len(kept(s)[k].dets)])
           s == report.summary
<1>1. /\ options \in Options /\ FiltersValid(options)
      /\ bags["a"] \in Seq(Messages) /\ bags["b"] \in Seq(Messages)
      /\ CanRead(bags["a"], options) /\ CanRead(bags["b"], options)
      /\ s = Summarize(kept("a"), kept("b"), PairFrames(kept("a"), kept("b"), options.policy),
                       options.classAware)
  BY ReportIsSummary
<1>2. /\ IsBag(kept("a"), Len(bags["a"])) /\ DOMAIN kept("a") = DOMAIN bags["a"]
      /\ IsBag(kept("b"), Len(bags["b"])) /\ DOMAIN kept("b") = DOMAIN bags["b"]
  BY <1>1, ReadFramesAreBag
<1>3. Left("a") = SumFunction(Sizes(kept("a"))) /\ Left("b") = SumFunction(Sizes(kept("b")))
  BY <1>2 DEF Sizes
<1> HIDE DEF kept, Left, s
<1>4. Accounts(s, Len(bags["a"]), Len(bags["b"]),
               SumFunction(Sizes(kept("a"))), SumFunction(Sizes(kept("b"))))
  BY <1>1, <1>2, SummaryAddsUp
<1>5. /\ s.paired + s.unpairedRef = Len(bags["a"]) /\ s.paired + s.unpairedCand = Len(bags["b"])
      /\ s.matched + s.unmatchedRef = Left("a")
      /\ s.matched + s.unmatchedCand = Left("b")
  BY <1>3, <1>4 DEF Accounts
<1>6. QED
  BY <1>5 DEF OfflineConserves, kept, Left, s

-----------------------------------------------------------------------------
(* Totals: what is counted is a function of the two bags, while no topic    *)
(* repeats a stamp.                                                         *)

Pairs(A, B) == {p \in (DOMAIN A) \X (DOMAIN B) : StampKey(A[p[1]]) = StampKey(B[p[2]])}
Matching(A, B, p) == MatchFrame(A[p[1]].dets, B[p[2]].dets)
Matched(A, B) == [p \in Pairs(A, B) |-> Cardinality(Matching(A, B, p))]
Seen(A, B, f) ==
  [p \in Pairs(A, B) |-> Observe(A[p[1]].dets, B[p[2]].dets, Matching(A, B, p))[f]]

Stamps(A) == {StampKey(A[k]) : k \in DOMAIN A}

\* All messages of A are valid, and no two have the same stamp.
IsValidBag(A) == A \in Seq(Messages) /\ \A k \in DOMAIN A : ValidMessage(A[k])
NoStampTwice(A) == \A k, l \in DOMAIN A : StampKey(A[k]) = StampKey(A[l]) => k = l

\* What is pending is what has no partner yet.
PendingIsUnpaired ==
  \A s \in Sides :
    /\ DOMAIN buf[s] = Stamps(bags[s]) \ Stamps(bags[Other(s)])
    /\ \A k \in DOMAIN bags[s] :
         StampKey(bags[s][k]) \in DOMAIN buf[s] => buf[s][StampKey(bags[s][k])] = bags[s][k]

PairsAreCounted ==
  /\ frames.paired = Cardinality(Pairs(bags["a"], bags["b"]))
  /\ detections.matched = SumFunction(Matched(bags["a"], bags["b"]))
  /\ \A f \in Observed : observations[f] = SumFunction(Seen(bags["a"], bags["b"], f))

TotalsIInv ==
  /\ ~dataError => \A s \in Sides : frames.received[s] = Len(bags[s])
  /\ ~dataError /\ UniqueStamps => PendingIsUnpaired /\ PairsAreCounted

LEMMA ValidBagFrames ==
  ASSUME NEW A, IsValidBag(A), NEW k \in DOMAIN A
  PROVE  A[k] \in Messages /\ IsFrame(A[k].dets)
<1>1. A[k] \in Messages /\ ValidMessage(A[k])
  BY DEF IsValidBag
<1>2. QED
  BY <1>1, MessageFacts

LEMMA PairsFacts ==
  ASSUME NEW A, IsValidBag(A), NEW B, IsValidBag(B)
  PROVE  /\ IsFiniteSet(Pairs(A, B))
         /\ \A p \in Pairs(A, B) :
              /\ p[1] \in DOMAIN A /\ p[2] \in DOMAIN B
              /\ IsFrame(A[p[1]].dets) /\ IsFrame(B[p[2]].dets)
              /\ Matched(A, B)[p] \in Int
              /\ \A f \in Observed : Seen(A, B, f)[p] \in Int
<1>1. IsFiniteSet(Pairs(A, B))
  <2>1. IsFiniteSet(DOMAIN A) /\ IsFiniteSet(DOMAIN B)
    BY FS_Interval DEF IsValidBag
  <2>2. IsFiniteSet((DOMAIN A) \X (DOMAIN B)) /\ Pairs(A, B) \in SUBSET ((DOMAIN A) \X (DOMAIN B))
    BY <2>1, FS_Product DEF Pairs
  <2>3. QED
    BY <2>2, FS_Subset
<1>2. ASSUME NEW p \in Pairs(A, B)
      PROVE  /\ p[1] \in DOMAIN A /\ p[2] \in DOMAIN B
             /\ IsFrame(A[p[1]].dets) /\ IsFrame(B[p[2]].dets)
             /\ Matched(A, B)[p] \in Int
             /\ \A f \in Observed : Seen(A, B, f)[p] \in Int
  <2> DEFINE x == A[p[1]].dets
             y == B[p[2]].dets
             M == MatchFrame(x, y)
             o == Observe(x, y, M)
  <2>1. p[1] \in DOMAIN A /\ p[2] \in DOMAIN B
    BY DEF Pairs
  <2>2. IsFrame(x) /\ IsFrame(y)
    BY <2>1, ValidBagFrames
  <2>3. Matched(A, B)[p] = Cardinality(M) /\ \A f \in Observed : Seen(A, B, f)[p] = o[f]
    BY DEF Matched, Seen, Matching
  <2> HIDE DEF x, y
  <2>4. IsFiniteSet(M) /\ Cardinality(M) \in Nat
    BY <2>2, MatchFrameKernel DEF IsMatching
  <2>5. o \in [Observed -> Int]
    BY <2>4, ObserveAdds
  <2> HIDE DEF o, M
  <2>6. Matched(A, B)[p] \in Int /\ \A f \in Observed : Seen(A, B, f)[p] \in Int
    BY <2>3, <2>4, <2>5
  <2>7. QED
    BY <2>1, <2>2, <2>6 DEF x, y
<1>3. QED
  BY <1>1, <1>2

\* The totals with one pair more.
OnePairMore(A, B, C, D, new) ==
  /\ new \notin Pairs(A, B)
  /\ Pairs(C, D) = Pairs(A, B) \cup {new}
  /\ \A p \in Pairs(A, B) : C[p[1]] = A[p[1]] /\ D[p[2]] = B[p[2]]

TotalsGrow(A, B, C, D, new) ==
  /\ Cardinality(Pairs(C, D)) = Cardinality(Pairs(A, B)) + 1
  /\ SumFunction(Matched(C, D)) = SumFunction(Matched(A, B)) + Matched(C, D)[new]
  /\ \A f \in Observed : SumFunction(Seen(C, D, f)) = SumFunction(Seen(A, B, f)) + Seen(C, D, f)[new]

LEMMA TotalsOfOneMore ==
  ASSUME NEW A, IsValidBag(A), NEW B, IsValidBag(B), NEW C, IsValidBag(C), NEW D, IsValidBag(D),
         NEW new, OnePairMore(A, B, C, D, new)
  PROVE  TotalsGrow(A, B, C, D, new)
<1> DEFINE P == Pairs(A, B)
           Q == Pairs(C, D)
<1>1. /\ new \notin P /\ Q = P \cup {new}
      /\ \A p \in P : C[p[1]] = A[p[1]] /\ D[p[2]] = B[p[2]]
  BY DEF OnePairMore
<1>2. /\ IsFiniteSet(P) /\ IsFiniteSet(Q)
      /\ \A p \in Q : Matched(C, D)[p] \in Int /\ \A f \in Observed : Seen(C, D, f)[p] \in Int
      /\ \A p \in P : Matched(A, B)[p] \in Int /\ \A f \in Observed : Seen(A, B, f)[p] \in Int
  BY PairsFacts
<1>3. \A p \in P : /\ Matched(C, D)[p] = Matched(A, B)[p]
                   /\ \A f \in Observed : Seen(C, D, f)[p] = Seen(A, B, f)[p]
  BY <1>1 DEF Matched, Seen, Matching
<1>4. /\ DOMAIN Matched(A, B) = P /\ DOMAIN Matched(C, D) = Q
      /\ \A f : DOMAIN Seen(A, B, f) = P /\ DOMAIN Seen(C, D, f) = Q
  BY DEF Matched, Seen
<1> HIDE DEF P, Q
<1>5. Cardinality(Q) = Cardinality(P) + 1
  BY <1>1, <1>2, FS_AddElement
<1>6. ASSUME NEW v, DOMAIN v = Q, \A p \in Q : v[p] \in Int,
             NEW w, DOMAIN w = P, \A p \in P : w[p] \in Int /\ v[p] = w[p]
      PROVE  SumFunction(v) = SumFunction(w) + v[new]
  <2>1. Summable(v) /\ Summable(w)
    BY <1>2, <1>6 DEF Summable
  <2>2. new \in DOMAIN v /\ DOMAIN w = DOMAIN v \ {new} /\ \A y \in DOMAIN w : w[y] = v[y]
    BY <1>1, <1>6
  <2>3. SumFunction(v) = v[new] + SumFunction(w)
    BY <2>1, <2>2, SumOfOneMore
  <2>4. SumFunction(w) \in Int /\ v[new] \in Int
    BY <1>6, <2>1, <2>2, SumIsInt
  <2>5. QED
    BY <2>3, <2>4
<1>7. SumFunction(Matched(C, D)) = SumFunction(Matched(A, B)) + Matched(C, D)[new]
  <2> DEFINE v == Matched(C, D)
             w == Matched(A, B)
  <2>1. /\ DOMAIN v = Q /\ \A p \in Q : v[p] \in Int
        /\ DOMAIN w = P /\ \A p \in P : w[p] \in Int /\ v[p] = w[p]
    BY <1>2, <1>3, <1>4
  <2> HIDE DEF v, w
  <2>2. SumFunction(v) = SumFunction(w) + v[new]
    BY <1>6, <2>1
  <2>3. QED
    BY <2>2 DEF v, w
<1>8. ASSUME NEW f \in Observed
      PROVE  SumFunction(Seen(C, D, f)) = SumFunction(Seen(A, B, f)) + Seen(C, D, f)[new]
  <2> DEFINE v == Seen(C, D, f)
             w == Seen(A, B, f)
  <2>1. /\ DOMAIN v = Q /\ \A p \in Q : v[p] \in Int
        /\ DOMAIN w = P /\ \A p \in P : w[p] \in Int /\ v[p] = w[p]
    BY <1>2, <1>3, <1>4
  <2> HIDE DEF v, w
  <2>2. SumFunction(v) = SumFunction(w) + v[new]
    BY <1>6, <2>1
  <2>3. QED
    BY <2>2 DEF v, w
<1>9. QED
  BY <1>5, <1>7, <1>8 DEF TotalsGrow, P, Q

\* A message more on one side, with one partner or none on the other.
LEMMA AppendFacts ==
  ASSUME NEW A \in Seq(Messages), NEW x \in Messages
  PROVE  LET C == Append(A, x)
             n == Len(A) + 1
         IN  /\ C \in Seq(Messages) /\ DOMAIN C = DOMAIN A \cup {n} /\ n \notin DOMAIN A
             /\ C[n] = x /\ \A k \in DOMAIN A : C[k] = A[k]
             /\ Stamps(C) = Stamps(A) \cup {StampKey(x)}
<1> DEFINE C == Append(A, x)
           n == Len(A) + 1
<1>1. /\ C \in Seq(Messages) /\ DOMAIN C = DOMAIN A \cup {n} /\ n \notin DOMAIN A
      /\ C[n] = x /\ \A k \in DOMAIN A : C[k] = A[k]
  OBVIOUS
<1> HIDE DEF C, n
<1>2. Stamps(C) = Stamps(A) \cup {StampKey(x)}
  BY <1>1 DEF Stamps
<1>3. QED
  BY <1>1, <1>2 DEF C, n

LEMMA FirstSideGrows ==
  ASSUME NEW A \in Seq(Messages), NEW B \in Seq(Messages), NEW x \in Messages
  PROVE  LET C == Append(A, x)
             n == Len(A) + 1
         IN  /\ StampKey(x) \notin Stamps(B) =>
                  /\ Pairs(C, B) = Pairs(A, B)
                  /\ \A p \in Pairs(A, B) : C[p[1]] = A[p[1]]
             /\ \A l \in DOMAIN B :
                  StampKey(B[l]) = StampKey(x) /\ NoStampTwice(B) => OnePairMore(A, B, C, B, <<n, l>>)
<1> DEFINE C == Append(A, x)
           n == Len(A) + 1
<1>1. /\ DOMAIN C = DOMAIN A \cup {n} /\ n \notin DOMAIN A
      /\ C[n] = x /\ \A k \in DOMAIN A : C[k] = A[k]
  BY AppendFacts
<1> HIDE DEF C, n
<1>2. \A p \in Pairs(A, B) : p[1] \in DOMAIN A /\ C[p[1]] = A[p[1]]
  BY <1>1 DEF Pairs
<1>3. ASSUME StampKey(x) \notin Stamps(B) PROVE Pairs(C, B) = Pairs(A, B)
  <2>1. \A l \in DOMAIN B : StampKey(x) # StampKey(B[l])
    BY <1>3 DEF Stamps
  <2>2. QED
    BY <1>1, <2>1 DEF Pairs
<1>4. ASSUME NEW l \in DOMAIN B, StampKey(B[l]) = StampKey(x), NoStampTwice(B)
      PROVE  OnePairMore(A, B, C, B, <<n, l>>)
  <2>1. \A k \in DOMAIN B : StampKey(B[k]) = StampKey(x) => k = l
    BY <1>4 DEF NoStampTwice
  <2>2. <<n, l>> \notin Pairs(A, B)
    BY <1>1 DEF Pairs
  <2>3. Pairs(C, B) = Pairs(A, B) \cup {<<n, l>>}
    <3>1. \A p \in Pairs(C, B) : p \in Pairs(A, B) \/ p = <<n, l>>
      BY <1>1, <2>1 DEF Pairs
    <3>2. \A p \in Pairs(A, B) : p \in Pairs(C, B)
      BY <1>1 DEF Pairs
    <3>3. <<n, l>> \in Pairs(C, B)
      BY <1>1, <1>4 DEF Pairs
    <3>4. QED
      BY <3>1, <3>2, <3>3
  <2>4. QED
    BY <1>2, <2>2, <2>3 DEF OnePairMore
<1>5. QED
  BY <1>2, <1>3, <1>4 DEF C, n

LEMMA SecondSideGrows ==
  ASSUME NEW A \in Seq(Messages), NEW B \in Seq(Messages), NEW x \in Messages
  PROVE  LET D == Append(B, x)
             n == Len(B) + 1
         IN  /\ StampKey(x) \notin Stamps(A) =>
                  /\ Pairs(A, D) = Pairs(A, B)
                  /\ \A p \in Pairs(A, B) : D[p[2]] = B[p[2]]
             /\ \A l \in DOMAIN A :
                  StampKey(A[l]) = StampKey(x) /\ NoStampTwice(A) => OnePairMore(A, B, A, D, <<l, n>>)
<1> DEFINE D == Append(B, x)
           n == Len(B) + 1
<1>1. /\ DOMAIN D = DOMAIN B \cup {n} /\ n \notin DOMAIN B
      /\ D[n] = x /\ \A k \in DOMAIN B : D[k] = B[k]
  BY AppendFacts
<1> HIDE DEF D, n
<1>2. \A p \in Pairs(A, B) : p[2] \in DOMAIN B /\ D[p[2]] = B[p[2]]
  BY <1>1 DEF Pairs
<1>3. ASSUME StampKey(x) \notin Stamps(A) PROVE Pairs(A, D) = Pairs(A, B)
  <2>1. \A l \in DOMAIN A : StampKey(x) # StampKey(A[l])
    BY <1>3 DEF Stamps
  <2>2. QED
    BY <1>1, <2>1 DEF Pairs
<1>4. ASSUME NEW l \in DOMAIN A, StampKey(A[l]) = StampKey(x), NoStampTwice(A)
      PROVE  OnePairMore(A, B, A, D, <<l, n>>)
  <2>1. \A k \in DOMAIN A : StampKey(A[k]) = StampKey(x) => k = l
    BY <1>4 DEF NoStampTwice
  <2>2. <<l, n>> \notin Pairs(A, B)
    BY <1>1 DEF Pairs
  <2>3. Pairs(A, D) = Pairs(A, B) \cup {<<l, n>>}
    <3>1. \A p \in Pairs(A, D) : p \in Pairs(A, B) \/ p = <<l, n>>
      BY <1>1, <2>1 DEF Pairs
    <3>2. \A p \in Pairs(A, B) : p \in Pairs(A, D)
      BY <1>1 DEF Pairs
    <3>3. <<l, n>> \in Pairs(A, D)
      BY <1>1, <1>4 DEF Pairs
    <3>4. QED
      BY <3>1, <3>2, <3>3
  <2>4. QED
    BY <1>2, <2>2, <2>3 DEF OnePairMore
<1>5. QED
  BY <1>2, <1>3, <1>4 DEF D, n

LEMMA InitTotals == ValidationInit => TotalsIInv
<1> SUFFICES ASSUME ValidationInit PROVE TotalsIInv
  OBVIOUS
<1>1. /\ \A s \in Sides : DOMAIN buf[s] = {} /\ bags[s] = <<>>
      /\ frames = NoFrames /\ detections = NoDetections /\ observations = NothingSeen
  BY DEF ValidationInit, Init
<1>2. bags["a"] = <<>> /\ bags["b"] = <<>> /\ DOMAIN <<>> = {}
  BY <1>1 DEF Sides
<1>3. \A s \in Sides : frames.received[s] = Len(bags[s])
  BY <1>1 DEF NoFrames
<1>4. PendingIsUnpaired
  BY <1>1, SidesFacts DEF PendingIsUnpaired, Stamps
<1> DEFINE P == Pairs(bags["a"], bags["b"])
<1>5. P = {}
  BY <1>2 DEF Pairs
<1>6. Cardinality(P) = 0
  BY <1>5, FS_EmptySet
<1>7. SumFunction(Matched(bags["a"], bags["b"])) = 0
  <2> DEFINE w == Matched(bags["a"], bags["b"])
  <2>1. DOMAIN w = {}
    BY <1>5 DEF Matched
  <2> HIDE DEF w
  <2>2. SumFunction(w) = 0
    BY <2>1, SumOfNone
  <2>3. QED
    BY <2>2 DEF w
<1>8. ASSUME NEW f PROVE SumFunction(Seen(bags["a"], bags["b"], f)) = 0
  <2> DEFINE w == Seen(bags["a"], bags["b"], f)
  <2>1. DOMAIN w = {}
    BY <1>5 DEF Seen
  <2> HIDE DEF w
  <2>2. SumFunction(w) = 0
    BY <2>1, SumOfNone
  <2>3. QED
    BY <2>2 DEF w
<1>9. \A f \in Observed : observations[f] = 0
  BY <1>1 DEF NothingSeen, Observed
<1>10. frames.paired = 0 /\ detections.matched = 0
  BY <1>1 DEF NoFrames, NoDetections
<1>11. PairsAreCounted
  BY <1>6, <1>7, <1>8, <1>9, <1>10 DEF PairsAreCounted
<1>12. QED
  BY <1>3, <1>4, <1>11 DEF TotalsIInv

\* Steps that no message arrives in, and one that is refused.
LEMMA TotalsUnchanged ==
  ASSUME TotalsIInv, UNCHANGED <<buf, frames, detections, observations>>,
         dataError' \/ UNCHANGED <<dataError, bags>>
  PROVE  TotalsIInv'
<1>1. CASE dataError' = TRUE
  BY <1>1 DEF TotalsIInv
<1>2. CASE UNCHANGED <<dataError, bags>>
  BY <1>2 DEF TotalsIInv, UniqueStamps, PendingIsUnpaired, PairsAreCounted
<1>3. QED
  BY <1>1, <1>2 DEF TotalsIInv

\* A valid message m of a stamp that is new to its topic.
LEMMA ValidBags ==
  ASSUME IInv, ~dataError
  PROVE  \A s \in Sides : IsValidBag(bags[s])
BY DEF IInv, TypeOK, ErrorsAreSeen, IsValidBag

LEMMA ArriveAppends ==
  ASSUME IInv, NEW side \in Sides, NEW m \in Messages, Arrive(side, m)
  PROVE  /\ bags' = [bags EXCEPT ![side] = Append(@, m)]
         /\ bags'[side] = Append(bags[side], m)
         /\ \A s \in Sides : s # side => bags'[s] = bags[s]
         /\ \A s \in Sides : bags[s] \in Seq(Messages)
         /\ UniqueStamps' => UniqueStamps /\ StampKey(m) \notin Stamps(bags[side])
<1>1. bags \in [Sides -> Seq(Messages)]
  BY DEF IInv, TypeOK
<1>2. bags' = [bags EXCEPT ![side] = Append(@, m)]
  BY DEF Arrive
<1>3. bags'[side] = Append(bags[side], m) /\ \A s \in Sides : s # side => bags'[s] = bags[s]
  BY <1>1, <1>2
<1>4. /\ \A s \in Sides : \A k \in DOMAIN bags[s] : k \in DOMAIN bags'[s] /\ bags'[s][k] = bags[s][k]
      /\ Len(bags[side]) + 1 \in DOMAIN bags'[side] /\ Len(bags[side]) + 1 \notin DOMAIN bags[side]
      /\ bags'[side][Len(bags[side]) + 1] = m
  <2>1. bags[side] \in Seq(Messages)
    BY <1>1
  <2>2. QED
    BY <1>3, <2>1, AppendFacts
<1>5. ASSUME UniqueStamps' PROVE UniqueStamps /\ StampKey(m) \notin Stamps(bags[side])
  <2>1. \A s \in Sides : \A k, l \in DOMAIN bags'[s] :
          StampKey(bags'[s][k]) = StampKey(bags'[s][l]) => k = l
    BY <1>5 DEF UniqueStamps
  <2>2. UniqueStamps
    BY <1>4, <2>1 DEF UniqueStamps
  <2>3. ASSUME NEW k \in DOMAIN bags[side], StampKey(bags[side][k]) = StampKey(m) PROVE FALSE
    <3>1. k = Len(bags[side]) + 1
      BY <1>4, <2>1, <2>3
    <3>2. QED
      BY <1>4, <3>1
  <2>4. QED
    BY <2>2, <2>3 DEF Stamps
<1>6. QED
  BY <1>1, <1>2, <1>3, <1>5

LEMMA ReceivedGrows ==
  ASSUME IInv, TotalsIInv, NEW side \in Sides, NEW m \in Messages, Arrive(side, m),
         UNCHANGED dataError, frames'.received = [frames.received EXCEPT ![side] = @ + 1]
  PROVE  ~dataError' => \A s \in Sides : frames'.received[s] = Len(bags'[s])
<1>1. /\ bags'[side] = Append(bags[side], m)
      /\ \A s \in Sides : s # side => bags'[s] = bags[s]
      /\ bags[side] \in Seq(Messages)
  BY ArriveAppends
<1>2. Len(bags'[side]) = Len(bags[side]) + 1
  BY <1>1
<1>3. frames.received \in [Sides -> Nat]
  BY DEF IInv, TypeOK
<1>4. \A s \in Sides : frames'.received[s] = IF s = side THEN frames.received[s] + 1 ELSE frames.received[s]
  BY <1>3
<1>5. QED
  BY <1>1, <1>2, <1>4 DEF TotalsIInv

\* The totals of a pair more, of which c detections are matched and o observed.
CountsGrow(A, B, C, D, c, o) ==
  /\ Cardinality(Pairs(C, D)) = Cardinality(Pairs(A, B)) + 1
  /\ SumFunction(Matched(C, D)) = SumFunction(Matched(A, B)) + c
  /\ \A f \in Observed : SumFunction(Seen(C, D, f)) = SumFunction(Seen(A, B, f)) + o[f]

CountsStay(A, B, C, D) ==
  /\ Pairs(C, D) = Pairs(A, B) /\ Matched(C, D) = Matched(A, B)
  /\ \A f \in Observed : Seen(C, D, f) = Seen(A, B, f)

LEMMA AppendIsValid ==
  ASSUME NEW A, IsValidBag(A), NEW x \in Messages, ValidMessage(x)
  PROVE  A \in Seq(Messages) /\ IsValidBag(Append(A, x))
<1>1. A \in Seq(Messages) /\ \A k \in DOMAIN A : ValidMessage(A[k])
  BY DEF IsValidBag
<1> DEFINE C == Append(A, x)
<1>2. /\ C \in Seq(Messages) /\ DOMAIN C = DOMAIN A \cup {Len(A) + 1}
      /\ C[Len(A) + 1] = x /\ \A k \in DOMAIN A : C[k] = A[k]
  BY <1>1, AppendFacts
<1> HIDE DEF C
<1>3. IsValidBag(C)
  BY <1>1, <1>2 DEF IsValidBag
<1>4. QED
  BY <1>1, <1>3 DEF C

LEMMA FirstSideCounts ==
  ASSUME NEW A, IsValidBag(A), NEW B, IsValidBag(B), NoStampTwice(B),
         NEW x \in Messages, ValidMessage(x), NEW l \in DOMAIN B, StampKey(B[l]) = StampKey(x)
  PROVE  LET M == MatchFrame(x.dets, B[l].dets)
         IN  CountsGrow(A, B, Append(A, x), B, Cardinality(M), Observe(x.dets, B[l].dets, M))
<1> DEFINE C == Append(A, x)
           n == Len(A) + 1
           new == <<n, l>>
           M == MatchFrame(x.dets, B[l].dets)
           o == Observe(x.dets, B[l].dets, M)
<1>1. A \in Seq(Messages) /\ B \in Seq(Messages) /\ IsValidBag(C)
  BY AppendIsValid DEF IsValidBag
<1>2. OnePairMore(A, B, C, B, new) /\ C[n] = x
  BY <1>1, FirstSideGrows, AppendFacts
<1> HIDE DEF C, n
<1>3. TotalsGrow(A, B, C, B, new)
  BY <1>1, <1>2, TotalsOfOneMore
<1>4. new \in Pairs(C, B) /\ new[1] = n /\ new[2] = l
  BY <1>2 DEF OnePairMore
<1> HIDE DEF new
<1>5. Matching(C, B, new) = M
  BY <1>2, <1>4 DEF Matching
<1>6. Matched(C, B)[new] = Cardinality(M) /\ \A f \in Observed : Seen(C, B, f)[new] = o[f]
  BY <1>2, <1>4, <1>5 DEF Matched, Seen
<1> HIDE DEF M, o
<1>7. CountsGrow(A, B, C, B, Cardinality(M), o)
  BY <1>3, <1>6 DEF TotalsGrow, CountsGrow
<1>8. QED
  BY <1>7 DEF C, M, o

\* The later message is the first argument of match_frame(), whose topic it is.
LEMMA SecondSideCounts ==
  ASSUME NEW A, IsValidBag(A), NEW B, IsValidBag(B), NoStampTwice(A),
         NEW x \in Messages, ValidMessage(x), NEW l \in DOMAIN A, StampKey(A[l]) = StampKey(x)
  PROVE  LET M == MatchFrame(x.dets, A[l].dets)
         IN  CountsGrow(A, B, A, Append(B, x), Cardinality(M), Observe(x.dets, A[l].dets, M))
<1> DEFINE D == Append(B, x)
           n == Len(B) + 1
           new == <<l, n>>
           p == A[l].dets
           q == x.dets
           N == MatchFrame(p, q)
           M == MatchFrame(q, p)
           o == Observe(q, p, M)
<1>1. A \in Seq(Messages) /\ B \in Seq(Messages) /\ IsValidBag(D)
  BY AppendIsValid DEF IsValidBag
<1>2. OnePairMore(A, B, A, D, new) /\ D[n] = x
  BY <1>1, SecondSideGrows, AppendFacts
<1>3. IsFrame(p) /\ IsFrame(q)
  BY ValidBagFrames, MessageFacts
<1> HIDE DEF D, n
<1>4. TotalsGrow(A, B, A, D, new)
  BY <1>1, <1>2, TotalsOfOneMore
<1>5. new \in Pairs(A, D) /\ new[1] = l /\ new[2] = n
  BY <1>2 DEF OnePairMore
<1> HIDE DEF new
<1>6. Matching(A, D, new) = N
  BY <1>2, <1>5 DEF Matching
<1>7. Matched(A, D)[new] = Cardinality(N) /\ \A f \in Observed : Seen(A, D, f)[new] = Observe(p, q, N)[f]
  BY <1>2, <1>5, <1>6 DEF Matched, Seen
<1> HIDE DEF p, q
<1>8. M = Swapped(N) /\ IsMatching(N, p, q)
  BY <1>3, MatchFrameSwapped, MatchFrameKernel
<1> HIDE DEF M, N
<1>9. Cardinality(M) = Cardinality(N) /\ o = Observe(p, q, N)
  <2>1. N \in SUBSET ((DOMAIN p) \X (DOMAIN q)) /\ IsFiniteSet(N)
    BY <1>8 DEF IsMatching
  <2>2. Cardinality(Swapped(N)) = Cardinality(N)
    BY <2>1, SwappedSize
  <2>3. Observe(q, p, Swapped(N)) = Observe(p, q, N)
    BY <2>1, ObserveSwapped
  <2>4. QED
    BY <1>8, <2>2, <2>3
<1> HIDE DEF o
<1>10. CountsGrow(A, B, A, D, Cardinality(M), o)
  BY <1>4, <1>7, <1>9 DEF TotalsGrow, CountsGrow
<1>11. QED
  BY <1>10 DEF D, M, o, p, q

LEMMA CountsOfNoPair ==
  ASSUME NEW A, IsValidBag(A), NEW B, IsValidBag(B), NEW x \in Messages
  PROVE  /\ StampKey(x) \notin Stamps(B) => CountsStay(A, B, Append(A, x), B)
         /\ StampKey(x) \notin Stamps(A) => CountsStay(A, B, A, Append(B, x))
<1> DEFINE C == Append(A, x)
           D == Append(B, x)
<1>1. A \in Seq(Messages) /\ B \in Seq(Messages)
  BY DEF IsValidBag
<1>2. StampKey(x) \notin Stamps(B) =>
        Pairs(C, B) = Pairs(A, B) /\ \A p \in Pairs(A, B) : C[p[1]] = A[p[1]]
  BY <1>1, FirstSideGrows
<1>3. StampKey(x) \notin Stamps(A) =>
        Pairs(A, D) = Pairs(A, B) /\ \A p \in Pairs(A, B) : D[p[2]] = B[p[2]]
  BY <1>1, SecondSideGrows
<1> HIDE DEF C, D
<1>4. ASSUME StampKey(x) \notin Stamps(B) PROVE CountsStay(A, B, C, B)
  BY <1>2, <1>4 DEF CountsStay, Matched, Seen, Matching
<1>5. ASSUME StampKey(x) \notin Stamps(A) PROVE CountsStay(A, B, A, D)
  BY <1>3, <1>5 DEF CountsStay, Matched, Seen, Matching
<1>6. QED
  BY <1>4, <1>5 DEF C, D

LEMMA PairedPending ==
  ASSUME IInv, PendingIsUnpaired, NEW side \in Sides, NEW m \in Messages, Pair(side, m)
  PROVE  PendingIsUnpaired'
<1> DEFINE key == StampKey(m)
           there == Other(side)
<1>1. /\ Arrive(side, m) /\ key \in DOMAIN buf[there]
      /\ buf' = [buf EXCEPT ![there] = Restrict(@, (DOMAIN @) \ {key})]
  BY DEF Pair
<1>2. /\ there \in Sides /\ there # side /\ \A s \in Sides : s = side \/ s = there
      /\ Other(there) = side
  BY SidesFacts
<1>3. /\ bags'[side] = Append(bags[side], m) /\ bags'[there] = bags[there]
      /\ bags[side] \in Seq(Messages)
  BY <1>1, <1>2, ArriveAppends
<1> DEFINE n == Len(bags[side]) + 1
<1>4. /\ DOMAIN bags'[side] = DOMAIN bags[side] \cup {n}
      /\ bags'[side][n] = m /\ \A k \in DOMAIN bags[side] : bags'[side][k] = bags[side][k]
      /\ Stamps(bags'[side]) = Stamps(bags[side]) \cup {key}
  BY <1>3, AppendFacts
<1> HIDE DEF key, there, n
<1>5. /\ buf'[side] = buf[side]
      /\ DOMAIN buf'[there] = (DOMAIN buf[there]) \ {key}
      /\ \A k \in DOMAIN buf'[there] : buf'[there][k] = buf[there][k]
  BY <1>1, <1>2 DEF IInv, TypeOK, Restrict
<1>6. /\ DOMAIN buf[side] = Stamps(bags[side]) \ Stamps(bags[there])
      /\ DOMAIN buf[there] = Stamps(bags[there]) \ Stamps(bags[side])
      /\ \A s \in Sides : \A k \in DOMAIN bags[s] :
           StampKey(bags[s][k]) \in DOMAIN buf[s] => buf[s][StampKey(bags[s][k])] = bags[s][k]
  BY <1>2 DEF PendingIsUnpaired, there
<1>7. /\ DOMAIN buf'[side] = Stamps(bags'[side]) \ Stamps(bags'[there])
      /\ DOMAIN buf'[there] = Stamps(bags'[there]) \ Stamps(bags'[side])
  BY <1>1, <1>3, <1>4, <1>5, <1>6
<1>8. ASSUME NEW k \in DOMAIN bags'[side], StampKey(bags'[side][k]) \in DOMAIN buf'[side]
      PROVE  buf'[side][StampKey(bags'[side][k])] = bags'[side][k]
  <2>1. key \notin DOMAIN buf[side] /\ key = StampKey(m)
    BY <1>1, <1>6 DEF key
  <2>2. k \in DOMAIN bags[side]
    BY <1>4, <1>5, <1>8, <2>1
  <2>3. QED
    BY <1>4, <1>5, <1>6, <1>8, <2>2
<1>9. ASSUME NEW k \in DOMAIN bags'[there], StampKey(bags'[there][k]) \in DOMAIN buf'[there]
      PROVE  buf'[there][StampKey(bags'[there][k])] = bags'[there][k]
  BY <1>2, <1>3, <1>5, <1>6, <1>9
<1>10. \A s \in Sides :
         /\ DOMAIN buf'[s] = Stamps(bags'[s]) \ Stamps(bags'[Other(s)])
         /\ \A k \in DOMAIN bags'[s] :
              StampKey(bags'[s][k]) \in DOMAIN buf'[s] => buf'[s][StampKey(bags'[s][k])] = bags'[s][k]
  BY <1>2, <1>7, <1>8, <1>9 DEF there
<1>11. QED
  BY <1>10 DEF PendingIsUnpaired, Stamps, StampKey, Other

LEMMA KeptPending ==
  ASSUME IInv, PendingIsUnpaired, NEW side \in Sides, NEW m \in Messages, Keep(side, m),
         StampKey(m) \notin Stamps(bags[side])
  PROVE  StampKey(m) \notin Stamps(bags[Other(side)]) /\ PendingIsUnpaired'
<1> DEFINE key == StampKey(m)
           there == Other(side)
<1>1. /\ Arrive(side, m) /\ key \notin DOMAIN buf[there]
      /\ buf' = [buf EXCEPT ![side] = Put(@, key, m)]
  BY DEF Keep
<1>2. /\ there \in Sides /\ there # side /\ \A s \in Sides : s = side \/ s = there
      /\ Other(there) = side
  BY SidesFacts
<1>3. /\ bags'[side] = Append(bags[side], m) /\ bags'[there] = bags[there]
      /\ bags[side] \in Seq(Messages)
  BY <1>1, <1>2, ArriveAppends
<1> DEFINE n == Len(bags[side]) + 1
<1>4. /\ DOMAIN bags'[side] = DOMAIN bags[side] \cup {n}
      /\ bags'[side][n] = m /\ \A k \in DOMAIN bags[side] : bags'[side][k] = bags[side][k]
      /\ Stamps(bags'[side]) = Stamps(bags[side]) \cup {key}
  BY <1>3, AppendFacts
<1>5. key = StampKey(m) /\ \A k \in DOMAIN bags[side] : StampKey(bags[side][k]) # key
  BY DEF Stamps
<1> HIDE DEF key, there, n
<1>6. /\ buf'[there] = buf[there]
      /\ DOMAIN buf'[side] = (DOMAIN buf[side]) \cup {key}
      /\ buf'[side][key] = m /\ \A k \in DOMAIN buf[side] : k # key => buf'[side][k] = buf[side][k]
  BY <1>1, <1>2 DEF IInv, TypeOK, Put
<1>7. /\ DOMAIN buf[side] = Stamps(bags[side]) \ Stamps(bags[there])
      /\ DOMAIN buf[there] = Stamps(bags[there]) \ Stamps(bags[side])
      /\ \A s \in Sides : \A k \in DOMAIN bags[s] :
           StampKey(bags[s][k]) \in DOMAIN buf[s] => buf[s][StampKey(bags[s][k])] = bags[s][k]
  BY <1>2 DEF PendingIsUnpaired, there
<1>8. key \notin Stamps(bags[side]) /\ key \notin Stamps(bags[there])
  BY <1>1, <1>5, <1>7
<1>9. /\ DOMAIN buf'[side] = Stamps(bags'[side]) \ Stamps(bags'[there])
      /\ DOMAIN buf'[there] = Stamps(bags'[there]) \ Stamps(bags'[side])
  BY <1>3, <1>4, <1>6, <1>7, <1>8
<1>10. ASSUME NEW k \in DOMAIN bags'[side], StampKey(bags'[side][k]) \in DOMAIN buf'[side]
       PROVE  buf'[side][StampKey(bags'[side][k])] = bags'[side][k]
  <2>1. CASE k = n
    BY <1>4, <1>5, <1>6, <2>1
  <2>2. CASE k # n
    BY <1>4, <1>5, <1>6, <1>7, <1>10, <2>2
  <2>3. QED
    BY <2>1, <2>2
<1>11. ASSUME NEW k \in DOMAIN bags'[there], StampKey(bags'[there][k]) \in DOMAIN buf'[there]
       PROVE  buf'[there][StampKey(bags'[there][k])] = bags'[there][k]
  BY <1>2, <1>3, <1>6, <1>7, <1>11
<1>12. \A s \in Sides :
         /\ DOMAIN buf'[s] = Stamps(bags'[s]) \ Stamps(bags'[Other(s)])
         /\ \A k \in DOMAIN bags'[s] :
              StampKey(bags'[s][k]) \in DOMAIN buf'[s] => buf'[s][StampKey(bags'[s][k])] = bags'[s][k]
  BY <1>2, <1>9, <1>10, <1>11 DEF there
<1>13. PendingIsUnpaired'
  BY <1>12 DEF PendingIsUnpaired, Stamps, StampKey, Other
<1>14. QED
  BY <1>5, <1>8, <1>13 DEF there

LEMMA PairTotals ==
  ASSUME IInv, CountsIInv, TotalsIInv, NEW side \in Sides, NEW m \in Messages, Pair(side, m)
  PROVE  TotalsIInv'
<1> DEFINE key == StampKey(m)
           there == Other(side)
           other == buf[there][key]
           M == MatchFrame(m.dets, other.dets)
           c == Cardinality(M)
           o == Observe(m.dets, other.dets, M)
           A == bags["a"]
           B == bags["b"]
<1>1. /\ Arrive(side, m) /\ ValidMessage(m) /\ key \in DOMAIN buf[there]
      /\ frames' = [frames EXCEPT !.received[side] = @ + 1, !.paired = @ + 1]
      /\ detections'.matched = detections.matched + c
      /\ observations' = AddRecords(observations, o)
      /\ UNCHANGED dataError
  <2>1. detections \in [received : [Sides -> Int], paired : [Sides -> Int],
                        unmatched : [Sides -> Int], unpaired : [Sides -> Int], matched : Int]
    BY DEF CountsIInv, CountTypes
  <2>2. QED
    BY <2>1 DEF Pair
<1>2. /\ there \in Sides /\ there # side
      /\ side = "a" => there = "b"
      /\ side = "b" => there = "a"
      /\ side = "a" \/ side = "b"
  BY SidesFacts
<1>3. /\ frames'.received = [frames.received EXCEPT ![side] = @ + 1]
      /\ frames'.paired = frames.paired + 1
  BY <1>1 DEF IInv, TypeOK
<1>4. ~dataError' => \A s \in Sides : frames'.received[s] = Len(bags'[s])
  BY <1>1, <1>3, ReceivedGrows
<1>5. observations \in [Observed -> Int]
  BY DEF CountsIInv, CountTypes
<1>6. \A f \in Observed : observations'[f] = observations[f] + o[f]
  BY <1>1, <1>5 DEF AddRecords
<1> HIDE DEF key, there, c, o, M
<1>7. ASSUME ~dataError', UniqueStamps' PROVE PendingIsUnpaired' /\ PairsAreCounted'
  <2>1. /\ UniqueStamps /\ bags'[side] = Append(bags[side], m)
        /\ \A s \in Sides : s # side => bags'[s] = bags[s]
    BY <1>1, <1>7, ArriveAppends
  <2>2. PendingIsUnpaired /\ PairsAreCounted /\ ~dataError
    BY <1>1, <1>7, <2>1 DEF TotalsIInv
  <2>3. PendingIsUnpaired'
    BY <2>2, PairedPending
  <2>4. IsValidBag(A) /\ IsValidBag(B)
    BY <2>2, ValidBags DEF Sides
  <2>5. NoStampTwice(A) /\ NoStampTwice(B)
    BY <2>1 DEF UniqueStamps, NoStampTwice, Sides
  <2>6. PICK l \in DOMAIN bags[there] : StampKey(bags[there][l]) = key
    <3>1. key \in Stamps(bags[there])
      BY <1>1, <1>2, <2>2 DEF PendingIsUnpaired
    <3>2. QED
      BY <3>1 DEF Stamps
  <2>7. other = bags[there][l]
    BY <1>1, <1>2, <2>2, <2>6 DEF PendingIsUnpaired
  <2> HIDE DEF A, B
  <2>8. CountsGrow(A, B, bags'["a"], bags'["b"], c, o)
    <3>1. CASE side = "a"
      <4>1. bags'["a"] = Append(A, m) /\ bags'["b"] = B /\ bags[there] = B
        BY <1>2, <2>1, <3>1 DEF A, B
      <4>2. l \in DOMAIN B /\ StampKey(B[l]) = StampKey(m) /\ other = B[l]
        BY <2>6, <2>7, <4>1 DEF key
      <4>3. CountsGrow(A, B, Append(A, m), B, Cardinality(MatchFrame(m.dets, B[l].dets)),
                       Observe(m.dets, B[l].dets, MatchFrame(m.dets, B[l].dets)))
        BY <1>1, <2>4, <2>5, <4>2, FirstSideCounts
      <4> HIDE DEF other
      <4>4. QED
        BY <4>1, <4>2, <4>3 DEF c, o, M
    <3>2. CASE side = "b"
      <4>1. bags'["a"] = A /\ bags'["b"] = Append(B, m) /\ bags[there] = A
        BY <1>2, <2>1, <3>2 DEF A, B
      <4>2. l \in DOMAIN A /\ StampKey(A[l]) = StampKey(m) /\ other = A[l]
        BY <2>6, <2>7, <4>1 DEF key
      <4>3. CountsGrow(A, B, A, Append(B, m), Cardinality(MatchFrame(m.dets, A[l].dets)),
                       Observe(m.dets, A[l].dets, MatchFrame(m.dets, A[l].dets)))
        BY <1>1, <2>4, <2>5, <4>2, SecondSideCounts
      <4> HIDE DEF other
      <4>4. QED
        BY <4>1, <4>2, <4>3 DEF c, o, M
    <3>3. QED
      BY <1>2, <3>1, <3>2
  <2>9. /\ frames.paired = Cardinality(Pairs(A, B))
        /\ detections.matched = SumFunction(Matched(A, B))
        /\ \A f \in Observed : observations[f] = SumFunction(Seen(A, B, f))
    BY <2>2 DEF PairsAreCounted, A, B
  <2>10. /\ frames'.paired = Cardinality(Pairs(bags'["a"], bags'["b"]))
         /\ detections'.matched = SumFunction(Matched(bags'["a"], bags'["b"]))
         /\ \A f \in Observed : observations'[f] = SumFunction(Seen(bags'["a"], bags'["b"], f))
    BY <1>1, <1>3, <1>6, <2>8, <2>9 DEF CountsGrow
  <2>11. QED
    BY <2>3, <2>10 DEF PairsAreCounted
<1>8. QED
  BY <1>4, <1>7 DEF TotalsIInv

LEMMA KeepTotals ==
  ASSUME IInv, CountsIInv, TotalsIInv, NEW side \in Sides, NEW m \in Messages, Keep(side, m)
  PROVE  TotalsIInv'
<1> DEFINE A == bags["a"]
           B == bags["b"]
<1>1. /\ Arrive(side, m) /\ ValidMessage(m)
      /\ frames'.received = [frames.received EXCEPT ![side] = @ + 1]
      /\ frames'.paired = frames.paired
      /\ detections'.matched = detections.matched
      /\ UNCHANGED <<observations, dataError>>
  <2>1. detections \in [received : [Sides -> Int], paired : [Sides -> Int],
                        unmatched : [Sides -> Int], unpaired : [Sides -> Int], matched : Int]
    BY DEF CountsIInv, CountTypes
  <2>2. frames \in [received : [Sides -> Nat], unpaired : [Sides -> Nat], paired : Nat]
    BY DEF IInv, TypeOK
  <2>3. QED
    BY <2>1, <2>2 DEF Keep
<1>2. ~dataError' => \A s \in Sides : frames'.received[s] = Len(bags'[s])
  BY <1>1, ReceivedGrows
<1>3. ASSUME ~dataError', UniqueStamps' PROVE PendingIsUnpaired' /\ PairsAreCounted'
  <2>1. /\ UniqueStamps /\ bags'[side] = Append(bags[side], m)
        /\ \A s \in Sides : s # side => bags'[s] = bags[s]
        /\ StampKey(m) \notin Stamps(bags[side])
    BY <1>1, <1>3, ArriveAppends
  <2>2. PendingIsUnpaired /\ PairsAreCounted /\ ~dataError
    BY <1>1, <1>3, <2>1 DEF TotalsIInv
  <2>3. PendingIsUnpaired' /\ StampKey(m) \notin Stamps(bags[Other(side)])
    BY <2>1, <2>2, KeptPending
  <2>4. IsValidBag(A) /\ IsValidBag(B)
    BY <2>2, ValidBags DEF Sides
  <2>5. \/ side = "a" /\ Other(side) = "b"
        \/ side = "b" /\ Other(side) = "a"
    BY SidesFacts
  <2>6. CountsStay(A, B, bags'["a"], bags'["b"])
    <3>1. CASE side = "a"
      <4>1. bags'["a"] = Append(A, m) /\ bags'["b"] = B /\ StampKey(m) \notin Stamps(B)
        BY <2>1, <2>3, <2>5, <3>1 DEF Sides
      <4> HIDE DEF A, B
      <4>2. QED
        BY <2>4, <4>1, CountsOfNoPair
    <3>2. CASE side = "b"
      <4>1. bags'["a"] = A /\ bags'["b"] = Append(B, m) /\ StampKey(m) \notin Stamps(A)
        BY <2>1, <2>3, <2>5, <3>2 DEF Sides
      <4> HIDE DEF A, B
      <4>2. QED
        BY <2>4, <4>1, CountsOfNoPair
    <3>3. QED
      BY <2>5, <3>1, <3>2
  <2>7. /\ frames.paired = Cardinality(Pairs(A, B))
        /\ detections.matched = SumFunction(Matched(A, B))
        /\ \A f \in Observed : observations[f] = SumFunction(Seen(A, B, f))
    BY <2>2 DEF PairsAreCounted
  <2> HIDE DEF A, B
  <2>8. /\ frames'.paired = Cardinality(Pairs(bags'["a"], bags'["b"]))
        /\ detections'.matched = SumFunction(Matched(bags'["a"], bags'["b"]))
        /\ \A f \in Observed : observations'[f] = SumFunction(Seen(bags'["a"], bags'["b"], f))
    BY <1>1, <2>6, <2>7 DEF CountsStay
  <2>9. QED
    BY <2>3, <2>8 DEF PairsAreCounted
<1>4. QED
  BY <1>2, <1>3 DEF TotalsIInv

LEMMA StepTotals == IInv /\ CountsIInv /\ TotalsIInv /\ [ValidationNext]_allVars => TotalsIInv'
<1> SUFFICES ASSUME IInv, CountsIInv, TotalsIInv, [ValidationNext]_allVars PROVE TotalsIInv'
  OBVIOUS
<1>1. CASE \E side \in Sides, m \in Messages : Reject(side, m) \/ Pair(side, m) \/ Keep(side, m)
  <2>1. PICK side \in Sides, m \in Messages : Reject(side, m) \/ Pair(side, m) \/ Keep(side, m)
    BY <1>1
  <2>2. Reject(side, m) => UNCHANGED <<buf, frames, detections, observations>> /\ dataError'
    BY DEF Reject, counters
  <2>3. QED
    BY <2>1, <2>2, TotalsUnchanged, PairTotals, KeepTotals
<1>2. CASE Check \/ Deadline \/ ContextDown
  <2>1. UNCHANGED <<buf, frames, detections, observations, dataError, bags>>
    BY <1>2 DEF Check, Deadline, ContextDown, counters
  <2>2. QED
    BY <2>1, TotalsUnchanged
<1>3. CASE (\E o \in Options : CompareBags(o)) \/ WriteReport \/ WriteFails \/ UNCHANGED allVars
  <2>1. UNCHANGED <<buf, frames, detections, observations, dataError, bags>>
    BY <1>3 DEF CompareBags, WriteReport, WriteFails, allVars, vars, counters
  <2>2. QED
    BY <2>1, TotalsUnchanged
<1>4. QED
  BY <1>1, <1>2, <1>3 DEF ValidationNext, Next

LEMMA TotalsAreOfBags == IInv /\ CountsIInv /\ TotalsIInv => TotalsIgnoreArrivalOrder
<1> SUFFICES ASSUME IInv, CountsIInv, TotalsIInv, ~dataError, UniqueStamps
             PROVE  TotalsIgnoreArrivalOrder
  BY DEF TotalsIgnoreArrivalOrder
<1> DEFINE A == bags["a"]
           B == bags["b"]
<1>1. PairsAreCounted /\ \A s \in Sides : frames.received[s] = Len(bags[s])
  BY DEF TotalsIInv
<1>2. StampPairs = Pairs(A, B)
  BY DEF StampPairs, Pairs
<1>3. /\ frames.paired = Cardinality(StampPairs)
      /\ detections.matched = SumFunction(Matched(A, B))
      /\ \A f \in Observed : observations[f] = SumFunction(Seen(A, B, f))
  BY <1>1, <1>2 DEF PairsAreCounted
<1>4. ASSUME NEW s \in Sides PROVE UnmatchedFrames(s) = Len(bags[s]) - Cardinality(StampPairs)
  <2>1. frames.received[s] = frames.paired + UnmatchedFrames(s)
    BY DEF IInv, FramesConserved
  <2>2. frames.paired \in Int /\ UnmatchedFrames(s) \in Int
    <3>1. frames.paired \in Int /\ frames.unpaired[s] \in Int /\ Cardinality(DOMAIN buf[s]) \in Int
      BY FS_CardinalityType DEF IInv, TypeOK
    <3>2. QED
      BY <3>1 DEF UnmatchedFrames, PendingFrames
  <2>3. frames.received[s] = Len(bags[s])
    BY <1>1
  <2> HIDE DEF UnmatchedFrames
  <2>4. QED
    BY <1>3, <2>1, <2>2, <2>3
<1>5. Matched(A, B) = [p \in StampPairs |-> Cardinality(MatchFrame(A[p[1]].dets, B[p[2]].dets))]
  BY <1>2 DEF Matched, Matching
<1>6. \A f \in Observed :
        Seen(A, B, f) = [p \in StampPairs |->
          Observe(A[p[1]].dets, B[p[2]].dets, MatchFrame(A[p[1]].dets, B[p[2]].dets))[f]]
  BY <1>2 DEF Seen, Matching
<1>7. DOMAIN observations = Observed
  BY DEF CountsIInv, CountTypes
<1>8. QED
  BY <1>3, <1>4, <1>5, <1>6, <1>7 DEF TotalsIgnoreArrivalOrder

-----------------------------------------------------------------------------
(* The two tools on the same bags.                                          *)

\* Every detection that has arrived is in a bag, while all are valid.
SizesIInv == ~dataError => \A s \in Sides : detections.received[s] = SumFunction(Sizes(bags[s]))

LEMMA SizesGrow ==
  ASSUME NEW A \in Seq(Messages), NEW x \in Messages
  PROVE  SumFunction(Sizes(Append(A, x))) = SumFunction(Sizes(A)) + Len(x.dets)
<1> DEFINE C == Append(A, x)
           n == Len(A) + 1
           v == Sizes(C)
           w == Sizes(A)
<1>1. /\ C \in Seq(Messages) /\ DOMAIN C = DOMAIN A \cup {n} /\ n \notin DOMAIN A
      /\ C[n] = x /\ \A k \in DOMAIN A : C[k] = A[k]
  BY AppendFacts
<1>2. \A T \in Seq(Messages) : Summable(Sizes(T))
  <2> SUFFICES ASSUME NEW T \in Seq(Messages) PROVE Summable(Sizes(T))
    OBVIOUS
  <2>1. DOMAIN T = 1..Len(T) /\ Len(T) \in Nat /\ \A k \in DOMAIN T : T[k] \in Messages
    OBVIOUS
  <2>2. \A k \in DOMAIN T : Len(T[k].dets) \in Int
    BY <2>1, MessageFacts
  <2>3. IsFiniteSet(DOMAIN T)
    BY <2>1, FS_Interval
  <2>4. QED
    BY <2>2, <2>3 DEF Sizes, Summable
<1>3. Summable(v) /\ Summable(w)
  BY <1>1, <1>2
<1> HIDE DEF C, n
<1>4. /\ n \in DOMAIN v /\ DOMAIN w = DOMAIN v \ {n} /\ \A y \in DOMAIN w : w[y] = v[y]
      /\ v[n] = Len(x.dets)
  BY <1>1 DEF Sizes
<1> HIDE DEF v, w
<1>5. SumFunction(v) = v[n] + SumFunction(w) /\ SumFunction(w) \in Int
  BY <1>3, <1>4, SumOfOneMore, SumIsInt
<1>6. Len(x.dets) \in Int
  BY MessageFacts
<1>7. SumFunction(v) = SumFunction(w) + Len(x.dets)
  BY <1>4, <1>5, <1>6
<1>8. QED
  BY <1>7 DEF v, w, C

LEMMA InitSizes == ValidationInit => SizesIInv
<1> SUFFICES ASSUME ValidationInit, NEW s \in Sides
             PROVE  detections.received[s] = SumFunction(Sizes(bags[s]))
  BY DEF SizesIInv
<1>1. bags[s] = <<>> /\ detections.received[s] = 0
  BY DEF ValidationInit, Init, NoDetections
<1> DEFINE w == Sizes(bags[s])
<1>2. DOMAIN w = {}
  BY <1>1 DEF Sizes
<1> HIDE DEF w
<1>3. SumFunction(w) = 0
  BY <1>2, SumOfNone
<1>4. QED
  BY <1>1, <1>3 DEF w

LEMMA StepSizes == IInv /\ CountsIInv /\ SizesIInv /\ [ValidationNext]_allVars => SizesIInv'
<1> SUFFICES ASSUME IInv, CountsIInv, SizesIInv, [ValidationNext]_allVars PROVE SizesIInv'
  OBVIOUS
<1>1. ASSUME NEW side \in Sides, NEW m \in Messages, Pair(side, m) \/ Keep(side, m)
      PROVE  SizesIInv'
  <2> DEFINE n == Len(m.dets)
  <2>1. /\ Arrive(side, m) /\ UNCHANGED dataError
        /\ detections'.received = [detections.received EXCEPT ![side] = @ + n]
    <3>1. detections \in [received : [Sides -> Int], paired : [Sides -> Int],
                          unmatched : [Sides -> Int], unpaired : [Sides -> Int], matched : Int]
      BY DEF CountsIInv, CountTypes
    <3>2. QED
      BY <1>1, <3>1 DEF Pair, Keep
  <2>2. /\ bags'[side] = Append(bags[side], m)
        /\ \A s \in Sides : s # side => bags'[s] = bags[s]
        /\ bags[side] \in Seq(Messages)
    BY <2>1, ArriveAppends
  <2>3. SumFunction(Sizes(bags'[side])) = SumFunction(Sizes(bags[side])) + n
    BY <2>2, SizesGrow
  <2> HIDE DEF n
  <2>4. detections.received \in [Sides -> Int]
    BY DEF CountsIInv, CountTypes
  <2>5. \A s \in Sides : detections'.received[s]
                           = IF s = side THEN detections.received[s] + n ELSE detections.received[s]
    BY <2>1, <2>4
  <2>6. ~dataError' => \A s \in Sides : detections'.received[s] = SumFunction(Sizes(bags'[s]))
    BY <2>1, <2>2, <2>3, <2>5 DEF SizesIInv
  <2>7. QED
    BY <2>6 DEF SizesIInv, Sizes
<1>2. ASSUME NEW side \in Sides, NEW m \in Messages, Reject(side, m) PROVE SizesIInv'
  BY <1>2 DEF Reject, SizesIInv
<1>3. CASE Check \/ Deadline \/ ContextDown
  <2>1. UNCHANGED <<detections, dataError, bags>>
    BY <1>3 DEF Check, Deadline, ContextDown, counters
  <2>2. QED
    BY <2>1 DEF SizesIInv
<1>4. CASE (\E o \in Options : CompareBags(o)) \/ WriteReport \/ WriteFails \/ UNCHANGED allVars
  <2>1. UNCHANGED <<detections, dataError, bags>>
    BY <1>4 DEF CompareBags, WriteReport, WriteFails, allVars, vars, counters
  <2>2. QED
    BY <2>1 DEF SizesIInv
<1>5. QED
  BY <1>1, <1>2, <1>3, <1>4 DEF ValidationNext, Next

LEMMA Scales ==
  ASSUME NEW a \in Int, NEW b \in Int, a < b
  PROVE  a * NanosPerSecond + NanosPerSecond <= b * NanosPerSecond
<1>1. NanosPerSecond \in Nat
  BY NanosAssumption
<1>2. \A d \in Nat : d * NanosPerSecond >= 0
  BY <1>1
<1>3. b - a - 1 \in Int /\ b = a + 1 + ((b - a) - 1) /\ (b - a) - 1 \in Nat
  OBVIOUS
<1>4. PICK d \in Nat : b = a + 1 + d
  BY <1>3
<1>5. b * NanosPerSecond = a * NanosPerSecond + NanosPerSecond + d * NanosPerSecond
  BY <1>1, <1>4
<1>6. QED
  BY <1>1, <1>2, <1>5

\* stamp_key() loses nothing of the stamps of valid messages.
LEMMA StampsAreKeys ==
  ASSUME NEW x \in Messages, ValidMessage(x), NEW y \in Messages, ValidMessage(y)
  PROVE  StampNs(x) = StampNs(y) <=> StampKey(x) = StampKey(y)
<1>1. /\ x.sec \in Int /\ x.nanosec \in Int /\ 0 <= x.nanosec /\ x.nanosec < NanosPerSecond
      /\ y.sec \in Int /\ y.nanosec \in Int /\ 0 <= y.nanosec /\ y.nanosec < NanosPerSecond
      /\ NanosPerSecond \in Nat
  BY MessageFacts, NanosAssumption DEF ValidMessage
<1>2. x.sec < y.sec => x.sec * NanosPerSecond + NanosPerSecond <= y.sec * NanosPerSecond
  BY <1>1, Scales
<1>3. y.sec < x.sec => y.sec * NanosPerSecond + NanosPerSecond <= x.sec * NanosPerSecond
  BY <1>1, Scales
<1> DEFINE a == x.sec * NanosPerSecond
           b == y.sec * NanosPerSecond
<1>4. a \in Int /\ b \in Int /\ (x.sec = y.sec => a = b)
  BY <1>1
<1>5. a + x.nanosec = b + y.nanosec <=> x.sec = y.sec /\ x.nanosec = y.nanosec
  <2> HIDE DEF a, b
  <2>1. x.sec < y.sec => a + NanosPerSecond <= b
    BY <1>2 DEF a, b
  <2>2. y.sec < x.sec => b + NanosPerSecond <= a
    BY <1>3 DEF a, b
  <2>3. QED
    BY <1>1, <1>4, <2>1, <2>2
<1>6. QED
  BY <1>5 DEF StampNs, StampKey

\* Without options of its own the filter drops nothing and keeps the order.
LEMMA NothingIsFiltered ==
  ASSUME NEW dets, IsFrame(dets), NEW o, Unfiltered(o)
  PROVE  Filter(dets, o) = dets
<1> DEFINE n == Len(dets)
           kept == {i \in DOMAIN dets : o.minScore = None
                                          \/ (ScoreOf(dets[i]) # None /\ ScoreOf(dets[i]) >= o.minScore)}
           before == {r \in kept \X kept : IF o.limit = 0 THEN r[1] < r[2]
                                           ELSE RanksBefore(dets, r[1], r[2])}
           size == IF o.limit = 0 THEN Cardinality(kept) ELSE Least(o.limit, Cardinality(kept))
           At(k) == CHOOSE i \in kept : Rank(kept, before, i) = k
<1>1. Filter(dets, o) = [k \in 1..size |-> dets[At(k)]]
  BY DEF Filter
<1>2. n \in Nat /\ DOMAIN dets = 1..n /\ dets = [k \in 1..n |-> dets[k]]
  BY DEF IsFrame
<1>3. kept = 1..n
  BY <1>2 DEF Unfiltered
<1>4. \A i, j \in kept : <<i, j>> \in before <=> i < j
  BY DEF Unfiltered
<1> HIDE DEF before
<1>5. size = Cardinality(kept)
  BY DEF Unfiltered
<1> HIDE DEF kept, size, n
<1>6. size = n
  BY <1>2, <1>3, <1>5, FS_Interval
<1>7. ASSUME NEW i \in kept PROVE Rank(kept, before, i) = i
  <2>1. i \in 1..n
    BY <1>3
  <2>2. {j \in kept : <<j, i>> \in before} = 1..(i - 1)
    BY <1>2, <1>3, <1>4, <2>1
  <2>3. Cardinality(1..(i - 1)) = i - 1
    <3>1. 1 \in Int /\ i - 1 \in Int /\ 1 <= i
      BY <1>2, <2>1
    <3> DEFINE j == i - 1
    <3> HIDE DEF j
    <3>2. j \in Int /\ (1 > j => j = 0)
      BY <1>2, <2>1, <3>1 DEF j
    <3>3. Cardinality(1..j) = IF 1 > j THEN 0 ELSE j - 1 + 1
      BY <3>2, FS_Interval
    <3>4. QED
      BY <3>2, <3>3 DEF j
  <2>4. Rank(kept, before, i) = 1 + (i - 1)
    BY <2>2, <2>3 DEF Rank
  <2>5. i \in Int
    BY <1>2, <2>1
  <2>6. QED
    BY <2>4, <2>5
<1>8. \A k \in 1..n : At(k) = k
  BY <1>3, <1>7
<1> HIDE DEF At
<1>9. [k \in 1..size |-> dets[At(k)]] = [k \in 1..n |-> dets[k]]
  BY <1>6, <1>8
<1>10. QED
  BY <1>1, <1>2, <1>9

\* What the offline tool reads from the bag A.
ReadsAll(read, A) ==
  /\ DOMAIN read = DOMAIN A
  /\ \A k \in DOMAIN A : read[k].dets = A[k].dets /\ read[k].stamp = StampNs(A[k])

LEMMA ReadFramesReadsAll ==
  ASSUME NEW A, IsValidBag(A), NEW o, Unfiltered(o)
  PROVE  ReadsAll(ReadFrames(A, o), A)
<1>1. \A k \in DOMAIN A : Filter(A[k].dets, o) = A[k].dets
  BY ValidBagFrames, NothingIsFiltered
<1>2. QED
  BY <1>1 DEF ReadsAll, ReadFrames

\* While no stamp repeats, pairing by stamp needs no queue.
LEMMA PairFramesArePairs ==
  ASSUME NEW A, IsValidBag(A), NoStampTwice(A), NEW B, IsValidBag(B), NoStampTwice(B),
         NEW ref, ReadsAll(ref, A), NEW cand, ReadsAll(cand, B)
  PROVE  PairFrames(ref, cand, "stamp") = Pairs(A, B)
<1>1. ASSUME NEW T, IsValidBag(T), NoStampTwice(T), NEW read, ReadsAll(read, T), NEW k \in DOMAIN T
      PROVE  EqualStampsBefore(read, k) = 0
  <2> DEFINE E == {l \in 1..(k - 1) : read[l].stamp = read[k].stamp}
  <2>1. T \in Seq(Messages) /\ DOMAIN T = 1..Len(T) /\ Len(T) \in Nat
    BY <1>1 DEF IsValidBag
  <2>2. ASSUME NEW l \in 1..(k - 1), read[l].stamp = read[k].stamp PROVE FALSE
    <3>1. l \in DOMAIN T /\ l # k
      BY <2>1, <2>2
    <3>2. StampNs(T[l]) = StampNs(T[k])
      BY <1>1, <2>2, <3>1 DEF ReadsAll
    <3>3. /\ T[l] \in Messages /\ ValidMessage(T[l])
          /\ T[k] \in Messages /\ ValidMessage(T[k])
      BY <1>1, <3>1 DEF IsValidBag
    <3>4. StampKey(T[l]) = StampKey(T[k])
      BY <3>2, <3>3, StampsAreKeys
    <3>5. QED
      BY <1>1, <3>1, <3>4 DEF NoStampTwice
  <2>3. E = {}
    BY <2>2
  <2>4. Cardinality(E) = 0
    BY <2>3, FS_EmptySet
  <2>5. QED
    BY <2>4 DEF EqualStampsBefore
<1>2. ASSUME NEW p \in (DOMAIN A) \X (DOMAIN B)
      PROVE  /\ EqualStampsBefore(ref, p[1]) = EqualStampsBefore(cand, p[2])
             /\ ref[p[1]].stamp = cand[p[2]].stamp <=> StampKey(A[p[1]]) = StampKey(B[p[2]])
  <2>1. p[1] \in DOMAIN A /\ p[2] \in DOMAIN B
    OBVIOUS
  <2>2. EqualStampsBefore(ref, p[1]) = 0 /\ EqualStampsBefore(cand, p[2]) = 0
    BY <1>1, <2>1
  <2>3. ref[p[1]].stamp = StampNs(A[p[1]]) /\ cand[p[2]].stamp = StampNs(B[p[2]])
    BY <2>1 DEF ReadsAll
  <2>4. /\ A[p[1]] \in Messages /\ ValidMessage(A[p[1]])
        /\ B[p[2]] \in Messages /\ ValidMessage(B[p[2]])
    BY <2>1 DEF IsValidBag
  <2>5. StampNs(A[p[1]]) = StampNs(B[p[2]]) <=> StampKey(A[p[1]]) = StampKey(B[p[2]])
    BY <2>4, StampsAreKeys
  <2>6. QED
    BY <2>2, <2>3, <2>5
<1>3. PairFrames(ref, cand, "stamp")
        = {p \in (DOMAIN A) \X (DOMAIN B) :
             /\ ref[p[1]].stamp = cand[p[2]].stamp
             /\ EqualStampsBefore(ref, p[1]) = EqualStampsBefore(cand, p[2])}
  BY DEF PairFrames, ReadsAll
<1>4. QED
  BY <1>2, <1>3 DEF Pairs

\* One pair of frames without ties: the live tool has counted what the offline
\* tool counts.
LEMMA FramesCompareAlike ==
  ASSUME NEW x, IsFrame(x), NEW y, IsFrame(y), NoConflictTies(x, y), NEW classAware, ~classAware
  PROVE  LET f == CompareFrame(x, y, classAware)
             M == MatchFrame(x, y)
             o == Observe(x, y, M)
         IN  /\ f.matched = Cardinality(M)
             /\ f.classMatches = o.matches
             /\ f.classSamples = o.matches + o.mismatches
<1> DEFINE M == MatchFrame(x, y)
           scored == {p \in M : BothClassified(x, y, p)}
           same == {p \in scored : SameClass(x, y, p)}
           f == CompareFrame(x, y, classAware)
           o == Observe(x, y, M)
<1>1. MatchDetections(x, y, classAware) = M
  BY ToolsMatchTheSame
<1>2. IsFiniteSet(M)
  BY MatchFrameKernel DEF IsMatching
<1>3. /\ f.matched = Cardinality(M) /\ f.classMatches = Cardinality(same)
      /\ f.classSamples = Cardinality(scored)
  <2> HIDE DEF M
  <2>1. QED
    BY <1>1 DEF CompareFrame
<1>4. o.matches = Cardinality(same) /\ o.mismatches = Cardinality(scored \ same)
  BY DEF Observe
<1> HIDE DEF M, f, o
<1>5. IsFiniteSet(scored) /\ IsFiniteSet(same) /\ same \in SUBSET scored
  <2>1. scored \in SUBSET M /\ same \in SUBSET M
    OBVIOUS
  <2>2. QED
    BY <1>2, <2>1, FS_Subset
<1> HIDE DEF scored, same
<1>6. Cardinality(scored) = Cardinality(same) + Cardinality(scored \ same)
  <2>1. Cardinality(scored \ same) = Cardinality(scored) - Cardinality(scored \cap same)
    BY <1>5, FS_Difference
  <2>2. scored \cap same = same
    BY <1>5
  <2>3. Cardinality(scored) \in Nat /\ Cardinality(same) \in Nat
    BY <1>5, FS_CardinalityType
  <2>4. QED
    BY <2>1, <2>2, <2>3
<1>7. f.classSamples = o.matches + o.mismatches
  BY <1>3, <1>4, <1>6
<1>8. QED
  BY <1>3, <1>4, <1>7 DEF f, M, o

\* What a summary of the bags A and B says that the live tool has counted too.
LEMMA SummaryOfPairs ==
  ASSUME NEW A, IsValidBag(A), NoStampTwice(A), NEW B, IsValidBag(B), NoStampTwice(B),
         NEW ref, ReadsAll(ref, A), NEW cand, ReadsAll(cand, B), NEW classAware, ~classAware
  PROVE  LET s == Summarize(ref, cand, PairFrames(ref, cand, "stamp"), classAware)
         IN  /\ s.paired = Cardinality(Pairs(A, B))
             /\ (\A p \in Pairs(A, B) : NoConflictTies(A[p[1]].dets, B[p[2]].dets)) =>
                  /\ s.matched = SumFunction(Matched(A, B))
                  /\ s.classMatches = SumFunction(Seen(A, B, "matches"))
                  /\ s.classSamples = SumFunction(Seen(A, B, "matches"))
                                        + SumFunction(Seen(A, B, "mismatches"))
<1> DEFINE P == Pairs(A, B)
           s == Summarize(ref, cand, PairFrames(ref, cand, "stamp"), classAware)
           Frame(p) == CompareFrame(ref[p[1]].dets, cand[p[2]].dets, classAware)
<1>1. PairFrames(ref, cand, "stamp") = P
  BY PairFramesArePairs
<1>2. /\ s.paired = Cardinality(P)
      /\ s.matched = SumFunction([p \in P |-> Frame(p).matched])
      /\ s.classMatches = SumFunction([p \in P |-> Frame(p).classMatches])
      /\ s.classSamples = SumFunction([p \in P |-> Frame(p).classSamples])
  <2> HIDE DEF P
  <2>1. QED
    BY <1>1 DEF Summarize
<1> HIDE DEF s
<1>3. ASSUME \A p \in P : NoConflictTies(A[p[1]].dets, B[p[2]].dets)
      PROVE  /\ s.matched = SumFunction(Matched(A, B))
             /\ s.classMatches = SumFunction(Seen(A, B, "matches"))
             /\ s.classSamples = SumFunction(Seen(A, B, "matches"))
                                   + SumFunction(Seen(A, B, "mismatches"))
  <2>1. ASSUME NEW p \in P
        PROVE  /\ Frame(p).matched = Matched(A, B)[p]
               /\ Frame(p).classMatches = Seen(A, B, "matches")[p]
               /\ Frame(p).classSamples = Seen(A, B, "matches")[p] + Seen(A, B, "mismatches")[p]
    <3> DEFINE x == A[p[1]].dets
               y == B[p[2]].dets
               M == MatchFrame(x, y)
               o == Observe(x, y, M)
    <3>1. p[1] \in DOMAIN A /\ p[2] \in DOMAIN B
      BY DEF Pairs
    <3>2. ref[p[1]].dets = x /\ cand[p[2]].dets = y
      BY <3>1 DEF ReadsAll
    <3>3. IsFrame(x) /\ IsFrame(y) /\ NoConflictTies(x, y)
      BY <1>3, <3>1, ValidBagFrames
    <3>4. /\ Matched(A, B)[p] = Cardinality(M) /\ Seen(A, B, "matches")[p] = o.matches
          /\ Seen(A, B, "mismatches")[p] = o.mismatches
      BY DEF Matched, Seen, Matching
    <3> HIDE DEF x, y
    <3> DEFINE f == CompareFrame(x, y, classAware)
    <3>5. f.matched = Cardinality(M) /\ f.classMatches = o.matches
          /\ f.classSamples = o.matches + o.mismatches
      BY <3>3, FramesCompareAlike
    <3>6. Frame(p) = f
      BY <3>2
    <3> HIDE DEF f, M, o, Frame
    <3>7. QED
      BY <3>4, <3>5, <3>6
  <2> HIDE DEF Frame
  <2>2. IsFiniteSet(P) /\ \A p \in P : /\ Seen(A, B, "matches")[p] \in Int
                                       /\ Seen(A, B, "mismatches")[p] \in Int
    BY PairsFacts DEF Observed
  <2>3. /\ DOMAIN Matched(A, B) = P /\ DOMAIN Seen(A, B, "matches") = P
        /\ DOMAIN Seen(A, B, "mismatches") = P
        /\ Matched(A, B) = [p \in P |-> Matched(A, B)[p]]
        /\ Seen(A, B, "matches") = [p \in P |-> Seen(A, B, "matches")[p]]
        /\ Seen(A, B, "mismatches") = [p \in P |-> Seen(A, B, "mismatches")[p]]
    BY DEF Matched, Seen
  <2> HIDE DEF P
  <2>4. [p \in P |-> Frame(p).matched] = [p \in P |-> Matched(A, B)[p]]
        /\ [p \in P |-> Frame(p).classMatches] = [p \in P |-> Seen(A, B, "matches")[p]]
    BY <2>1
  <2> DEFINE u == [p \in P |-> Frame(p).classSamples]
             v == Seen(A, B, "matches")
             w == Seen(A, B, "mismatches")
  <2>5. \A p \in P : v[p] \in Int /\ w[p] \in Int /\ u[p] = v[p] + w[p]
    BY <2>1, <2>2
  <2>6. /\ SumFunction(v) = SumOver(v, P) /\ SumFunction(w) = SumOver(w, P)
    BY <2>3 DEF SumOver
  <2>7. SumFunction(u) = SumOver(u, P)
    <3>1. u = [p \in P |-> u[p]]
      BY Zenon
    <3>2. QED
      BY <3>1 DEF SumOver
  <2> HIDE DEF u, v, w
  <2>8. SumOver(u, P) = SumOver(v, P) + SumOver(w, P)
    BY <2>2, <2>5, SumOfSums
  <2>9. s.classSamples = SumFunction(v) + SumFunction(w)
    BY <1>2, <2>6, <2>7, <2>8 DEF u
  <2>10. s.matched = SumFunction(Matched(A, B)) /\ s.classMatches = SumFunction(v)
    BY <1>2, <2>3, <2>4 DEF v
  <2>11. QED
    BY <2>9, <2>10 DEF v, w
<1>4. QED
  BY <1>2, <1>3 DEF s

LEMMA ToolsAgree ==
  IInv /\ CountsIInv /\ TotalsIInv /\ SizesIInv /\ OptionsAreGiven => AgreesWithOffline
<1> SUFFICES ASSUME IInv, CountsIInv, TotalsIInv, SizesIInv, OptionsAreGiven,
                    Compared, Unfiltered(options), ~dataError, UniqueStamps
             PROVE  AgreesWithOffline
  BY DEF AgreesWithOffline
<1> DEFINE A == bags["a"]
           B == bags["b"]
           ref == ReadFrames(A, options)
           cand == ReadFrames(B, options)
           s == report.summary
           NoTies == \A p \in StampPairs : NoConflictTies(A[p[1]].dets, B[p[2]].dets)
<1>1. /\ options \in Options /\ FiltersValid(options)
      /\ A \in Seq(Messages) /\ B \in Seq(Messages)
      /\ CanRead(A, options) /\ CanRead(B, options)
      /\ s = Summarize(ref, cand, PairFrames(ref, cand, options.policy), options.classAware)
  BY ReportIsSummary
<1>2. /\ IsValidBag(A) /\ IsValidBag(B) /\ NoStampTwice(A) /\ NoStampTwice(B)
  BY ValidBags DEF Sides, UniqueStamps, NoStampTwice
<1>3. options.policy = "stamp" /\ ~options.classAware
  BY DEF Unfiltered
<1>4. StampPairs = Pairs(A, B)
  BY DEF StampPairs, Pairs
<1>5. PairsAreCounted /\ TotalsIgnoreArrivalOrder /\ EverythingIsCounted
  BY TotalsAreOfBags, CountsAreConserved DEF TotalsIInv
<1>6. /\ UnmatchedFrames("a") = Len(A) - Cardinality(Pairs(A, B))
      /\ UnmatchedFrames("b") = Len(B) - Cardinality(Pairs(A, B))
  BY <1>4, <1>5 DEF TotalsIgnoreArrivalOrder, Sides
<1>7. /\ frames.paired = Cardinality(Pairs(A, B))
      /\ detections.matched = SumFunction(Matched(A, B))
      /\ observations.matches = SumFunction(Seen(A, B, "matches"))
      /\ observations.mismatches = SumFunction(Seen(A, B, "mismatches"))
  BY <1>5 DEF PairsAreCounted, Observed
<1>8. /\ detections.matched + UnmatchedDetections("a") = SumFunction(Sizes(A))
      /\ detections.matched + UnmatchedDetections("b") = SumFunction(Sizes(B))
  BY <1>5 DEF EverythingIsCounted, SizesIInv, Sides
<1>9. /\ UnmatchedDetections("a") \in Int /\ UnmatchedDetections("b") \in Int
      /\ detections.matched \in Int
  <2>1. \A t \in Sides : /\ detections.unmatched[t] \in Int /\ detections.unpaired[t] \in Int
                         /\ Waiting(buf[t]) \in Int
    BY PendingCanBeSummed DEF IInv, CountsIInv, CountTypes
  <2>2. \A t \in Sides : UnmatchedDetections(t)
          = detections.unmatched[t] + detections.unpaired[t] + Waiting(buf[t])
    BY DEF UnmatchedDetections, PendingDetections, Waiting
  <2>3. detections.matched \in Int
    BY DEF CountsIInv, CountTypes
  <2> HIDE DEF UnmatchedDetections
  <2>4. QED
    BY <2>1, <2>2, <2>3 DEF Sides
<1> HIDE DEF A, B
<1>10. ReadsAll(ref, A) /\ ReadsAll(cand, B)
  BY <1>2, ReadFramesReadsAll
<1>11. IsBag(ref, Len(A)) /\ IsBag(cand, Len(B)) /\ Len(A) \in Int /\ Len(B) \in Int
  BY <1>1, ReadFramesAreBag
<1>12. SumFunction(Sizes(ref)) = SumFunction(Sizes(A)) /\ SumFunction(Sizes(cand)) = SumFunction(Sizes(B))
  <2> HIDE DEF ref, cand
  <2>1. Sizes(ref) = Sizes(A) /\ Sizes(cand) = Sizes(B)
    BY <1>10 DEF ReadsAll, Sizes
  <2>2. QED
    BY <2>1
<1> HIDE DEF ref, cand, s
<1>13. s = Summarize(ref, cand, PairFrames(ref, cand, "stamp"), options.classAware)
  BY <1>1, <1>3
<1>14. /\ s.paired \in Int /\ s.unpairedRef \in Int /\ s.unpairedCand \in Int
       /\ s.matched \in Int /\ s.unmatchedRef \in Int /\ s.unmatchedCand \in Int
       /\ s.paired + s.unpairedRef = Len(A) /\ s.paired + s.unpairedCand = Len(B)
       /\ s.matched + s.unmatchedRef = SumFunction(Sizes(A))
       /\ s.matched + s.unmatchedCand = SumFunction(Sizes(B))
  <2>1. Accounts(s, Len(A), Len(B), SumFunction(Sizes(ref)), SumFunction(Sizes(cand)))
    BY <1>11, <1>13, SummaryAddsUp
  <2>2. QED
    BY <1>12, <2>1 DEF Accounts
<1>15. /\ s.paired = Cardinality(Pairs(A, B))
       /\ NoTies =>
            /\ s.matched = SumFunction(Matched(A, B))
            /\ s.classMatches = SumFunction(Seen(A, B, "matches"))
            /\ s.classSamples = SumFunction(Seen(A, B, "matches"))
                                  + SumFunction(Seen(A, B, "mismatches"))
  BY <1>2, <1>3, <1>4, <1>10, <1>13, SummaryOfPairs
<1> HIDE DEF NoTies
<1> HIDE DEF UnmatchedFrames, UnmatchedDetections
<1>16. /\ s.paired = frames.paired
       /\ s.unpairedRef = UnmatchedFrames("a")
       /\ s.unpairedCand = UnmatchedFrames("b")
  <2> DEFINE c == Cardinality(Pairs(A, B))
  <2>1. s.paired = c /\ frames.paired = c
    BY <1>7, <1>15
  <2>2. UnmatchedFrames("a") = Len(A) - c /\ UnmatchedFrames("b") = Len(B) - c
    BY <1>6
  <2>3. /\ s.paired \in Int /\ s.unpairedRef \in Int /\ s.unpairedCand \in Int
        /\ s.paired + s.unpairedRef = Len(A) /\ s.paired + s.unpairedCand = Len(B)
    BY <1>14
  <2> HIDE DEF c
  <2>4. s.unpairedRef = Len(A) - c /\ s.unpairedCand = Len(B) - c
    BY <2>1, <2>3
  <2>5. QED
    BY <2>1, <2>2, <2>4
<1>17. NoTies =>
         /\ s.matched = detections.matched
         /\ s.unmatchedRef = UnmatchedDetections("a")
         /\ s.unmatchedCand = UnmatchedDetections("b")
         /\ s.classMatches = observations.matches
         /\ s.classSamples = observations.matches + observations.mismatches
  <2> SUFFICES ASSUME NoTies
               PROVE  /\ s.matched = detections.matched
                      /\ s.unmatchedRef = UnmatchedDetections("a")
                      /\ s.unmatchedCand = UnmatchedDetections("b")
                      /\ s.classMatches = observations.matches
                      /\ s.classSamples = observations.matches + observations.mismatches
    OBVIOUS
  <2>1. s.matched = detections.matched
    BY <1>7, <1>15
  <2>2. s.unmatchedRef = UnmatchedDetections("a") /\ s.unmatchedCand = UnmatchedDetections("b")
    BY <1>8, <1>9, <1>14, <2>1
  <2>3. s.classMatches = observations.matches
        /\ s.classSamples = observations.matches + observations.mismatches
    BY <1>7, <1>15
  <2>4. QED
    BY <2>1, <2>2, <2>3
<1>18. QED
  BY <1>16, <1>17 DEF AgreesWithOffline, NoTies, A, B, s

-----------------------------------------------------------------------------

\* The inductive invariant of the two tools.
THEOREM Invariance == ValidationSpec => []IInv
<1>1. ValidationSpec <=> ValidationInit /\ [][ValidationNext]_allVars
  BY DEF ValidationSpec, allVars
<1>2. QED
  BY <1>1, InitInvariant, StepInvariant, PTL

\* A stamp is never pending on both topics: _on() misses no pair.
THEOREM NoPairIsMissed == ValidationSpec => []NeverBothPending
<1>1. IInv => NeverBothPending
  BY DEF IInv
<1>2. QED
  BY <1>1, Invariance, PTL

\* Every frame the live tool has received is paired, replaced or pending.
THEOREM FramesAreConserved == ValidationSpec => []FramesConserved
<1>1. IInv => FramesConserved
  BY DEF IInv
<1>2. QED
  BY <1>1, Invariance, PTL

\* Unreadable data ends both tools without a report that draws on it.
THEOREM NothingBadIsReported == ValidationSpec => []BadDataIsNotReported
<1>1. IInv => BadDataIsNotReported
  <2> SUFFICES ASSUME IInv PROVE BadDataIsNotReported
    OBVIOUS
  <2>1. phase = "reported" =>
          \A s \in Sides : \A k \in DOMAIN bags[s] : ValidMessage(bags[s][k])
    BY DEF IInv, ErrorsAreSeen
  <2>2. ASSUME exit = 0
        PROVE  /\ file = "REPORT_ONLY"
               /\ \A s \in Sides : \A k \in DOMAIN bags[s] : \A i \in DOMAIN bags[s][k].dets :
                    Readable(bags[s][k].dets[i])
    <3>1. /\ report = OfflineReport(bags["a"], bags["b"], options)
          /\ report.status # "ERROR" /\ file = report.status
      BY <2>2 DEF IInv, ReportIsOfBags
    <3>2. /\ report.status = "REPORT_ONLY"
          /\ \A k \in DOMAIN bags["a"] : \A i \in DOMAIN bags["a"][k].dets :
               Readable(bags["a"][k].dets[i])
          /\ \A k \in DOMAIN bags["b"] : \A i \in DOMAIN bags["b"][k].dets :
               Readable(bags["b"][k].dets[i])
      BY <3>1, ReportNeedsReadableBags
    <3>3. QED
      BY <3>1, <3>2 DEF Sides
  <2>3. QED
    BY <2>1, <2>2 DEF BadDataIsNotReported
<1>2. QED
  BY <1>1, Invariance, PTL

\* The inductive invariant of the counts, next to IInv: what is counted of the
\* detections, and what the counts are of the bags while no stamp repeats.
THEOREM CountsInvariance ==
  ValidationSpec => [](CountsIInv /\ SizesIInv /\ TotalsIInv /\ OptionsAreGiven)
<1>1. ValidationSpec <=> ValidationInit /\ [][ValidationNext]_allVars
  BY DEF ValidationSpec, allVars
<1> DEFINE Inv == IInv /\ CountsIInv /\ SizesIInv /\ TotalsIInv /\ OptionsAreGiven
<1>2. ValidationInit => Inv
  BY InitInvariant, InitCounts, InitSizes, InitTotals, InitOptions
<1>3. Inv /\ [ValidationNext]_allVars => Inv'
  BY StepInvariant, StepCounts, StepSizes, StepTotals, StepOptions
<1>4. Inv => CountsIInv /\ SizesIInv /\ TotalsIInv /\ OptionsAreGiven
  OBVIOUS
<1> HIDE DEF Inv
<1>5. QED
  BY <1>1, <1>2, <1>3, <1>4, PTL

\* Every frame and every detection that the live tool has received is in exactly
\* one of the counts it reports.
THEOREM NothingIsLost == ValidationSpec => []EverythingIsCounted
BY CountsAreConserved, Invariance, CountsInvariance, PTL

\* The offline summary accounts for every frame of the bags and every detection
\* that its filters leave.
THEOREM OfflineAddsUp == ValidationSpec => []OfflineConserves
BY SummaryConserves, Invariance, CountsInvariance, PTL

\* While no topic repeats a stamp, the counts of the live tool depend on what has
\* arrived, not on the order in which the two topics' messages came.
THEOREM TotalsAreOfTheBags == ValidationSpec => []TotalsIgnoreArrivalOrder
BY TotalsAreOfBags, Invariance, CountsInvariance, PTL

\* On bags of what the live tool has received, with unique stamps, the offline
\* tool pairs the same frames, and counts the same detections where no two pairs
\* that share a detection tie.
THEOREM ToolsAgreeWithoutTies == ValidationSpec => []AgreesWithOffline
BY ToolsAgree, Invariance, CountsInvariance, PTL
=============================================================================
