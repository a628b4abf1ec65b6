---------------------------- MODULE SumTheorems -----------------------------
(***************************************************************************)
(* What the proofs about balances need to know of a sum over a finite set  *)
(* of rows.  SumFunctionOnSet(w, S) is a fold whose order is left open by  *)
(* CHOOSE; the lemmas below say that the order does not matter: the sum    *)
(* changes by w[x] when x joins or leaves S, and only the values on S      *)
(* count.                                                                  *)
(*                                                                         *)
(* The induction principles of the library take the induction hypothesis   *)
(* as an operator.  Here induction is used in its set form: a non-empty    *)
(* set of finite sets has a member from which no element can be removed    *)
(* without leaving the set.                                                *)
(***************************************************************************)
EXTENDS Integers, FiniteSets, Functions, FiniteSetTheorems, WellFoundedInduction,
        TLAPS

\* A non-empty set of natural numbers has a least element.
LEMMA LeastNumber ==
  ASSUME NEW T, T \subseteq Nat, T # {}
  PROVE  \E n \in T : \A m \in T : n <= m
<1>. DEFINE R == OpToRel(<, Nat)
<1>1. \A m, n \in Nat : m < n => <<m, n>> \in R
  BY DEF OpToRel
<1>2. IsWellFoundedOn(R, Nat)
  BY NatLessThanWellFounded
<1>. HIDE DEF R
<1>3. \E n \in T : \A m \in T : ~ (<<m, n>> \in R)
  BY ONLY <1>2, WFMin, T \subseteq Nat, T # {}, Zenon
<1>. PICK n \in T : \A m \in T : ~ (<<m, n>> \in R)
  BY <1>3
<1>4. ASSUME NEW m \in T PROVE n <= m
  <2>1. m \in Nat /\ n \in Nat /\ ~ (<<m, n>> \in R)
    OBVIOUS
  <2>2. ~ (m < n)
    BY <1>1, <2>1
  <2>. QED BY <2>1, <2>2
<1>. QED BY <1>4

\* Finite-set induction: a non-empty set of finite sets has a minimal member.
LEMMA MinimalSet ==
  ASSUME NEW B, B # {}, \A s \in B : IsFiniteSet(s)
  PROVE  \E s \in B : \A x \in s : s \ {x} \notin B
<1>. DEFINE T == {Cardinality(s) : s \in B}
<1>1. T \subseteq Nat /\ T # {}
  BY FS_CardinalityType
<1>2. PICK n \in T : \A m \in T : n <= m
  <2>. HIDE DEF T
  <2>. QED BY <1>1, LeastNumber
<1>3. PICK s \in B : Cardinality(s) = n
  OBVIOUS
<1>4. ASSUME NEW x \in s, s \ {x} \in B
      PROVE  FALSE
  <2>1. IsFiniteSet(s) /\ Cardinality(s) \in Nat
    BY FS_CardinalityType
  <2>2. Cardinality(s \ {x}) = Cardinality(s) - 1
    BY <2>1, FS_RemoveElement
  <2>3. n <= Cardinality(s \ {x})
    BY <1>2, <1>4
  <2>. QED BY <1>3, <2>1, <2>2, <2>3
<1>. QED BY <1>4

-----------------------------------------------------------------------------
\* g[s] is the sum of w over s, for every subset s of T: whichever element is
\* taken away first.
IsSum(g, w, T) ==
  /\ g \in [SUBSET T -> Int]
  /\ g[{}] = 0
  /\ \A s \in SUBSET T : \A x \in s : g[s] = w[x] + g[s \ {x}]

\* Sums exist.
LEMMA SumExists ==
  ASSUME NEW U, IsFiniteSet(U), NEW w, \A x \in U : w[x] \in Int
  PROVE  \E g : IsSum(g, w, U)
<1>. DEFINE B == {T \in SUBSET U : ~ \E g : IsSum(g, w, T)}
<1>. SUFFICES ASSUME B # {} PROVE FALSE
  OBVIOUS
<1>1. \A s \in B : IsFiniteSet(s)
  BY FS_Subset
<1>2. PICK T \in B : \A x \in T : T \ {x} \notin B
  <2>. HIDE DEF B
  <2>. QED BY <1>1, MinimalSet
<1>3. CASE T = {}
  <2>1. IsSum([s \in SUBSET T |-> 0], w, T)
    BY <1>3 DEF IsSum
  <2>. QED BY <2>1
<1>4. CASE T # {}
  <2>1. PICK a \in T : TRUE
    BY <1>4
  <2>. DEFINE R == T \ {a}
  <2>2. R \in SUBSET U /\ R \notin B /\ a \in U
    BY <1>2
  <2>3. PICK g : IsSum(g, w, R)
    BY <2>2
  <2>. DEFINE h == [s \in SUBSET T |-> IF a \in s THEN w[a] + g[s \ {a}] ELSE g[s]]
  <2>4. w[a] \in Int /\ g \in [SUBSET R -> Int]
    BY <2>2, <2>3 DEF IsSum
  <2>5. ASSUME NEW s \in SUBSET T
        PROVE  /\ s \ {a} \in SUBSET R /\ g[s \ {a}] \in Int
               /\ a \notin s => s \in SUBSET R /\ g[s] \in Int
    BY <2>4
  <2>6. h \in [SUBSET T -> Int]
    BY <2>4, <2>5
  <2>7. h[{}] = 0
    BY <2>3 DEF IsSum
  <2>8. ASSUME NEW s \in SUBSET T, NEW x \in s
        PROVE  h[s] = w[x] + h[s \ {x}]
    <3>1. s \ {x} \in SUBSET T /\ w[x] \in Int
      OBVIOUS
    <3>2. CASE x = a
      <4>1. h[s] = w[a] + g[s \ {a}]
        BY <3>2
      <4>2. h[s \ {x}] = g[s \ {a}]
        BY <3>1, <3>2
      <4>3. h[s] = w[a] + h[s \ {a}]
        BY <3>2, <4>1, <4>2
      <4>. QED BY <3>2, <4>3
    <3>3. CASE x # a /\ a \in s
      <4>1. h[s] = w[a] + g[s \ {a}]
        BY <3>3
      <4>2. h[s \ {x}] = w[a] + g[(s \ {x}) \ {a}]
        BY <3>1, <3>3
      <4>3. (s \ {x}) \ {a} = (s \ {a}) \ {x} /\ x \in s \ {a}
        BY <3>3
      <4>4. g[s \ {a}] = w[x] + g[(s \ {a}) \ {x}]
        BY <2>3, <2>5, <4>3 DEF IsSum
      <4>5. g[(s \ {a}) \ {x}] \in Int
        BY <2>4, <2>5, <3>1, <4>3
      <4>6. w[a] + (w[x] + g[(s \ {a}) \ {x}]) = w[x] + (w[a] + g[(s \ {a}) \ {x}])
        BY <2>4, <3>1, <4>5
      <4>7. h[s] = w[x] + (w[a] + g[(s \ {a}) \ {x}])
        BY ONLY <4>1, <4>4, <4>6
      <4>. QED BY ONLY <4>2, <4>3, <4>7
    <3>4. CASE x # a /\ a \notin s
      <4>1. h[s] = g[s] /\ h[s \ {x}] = g[s \ {x}]
        BY <3>1, <3>4
      <4>2. s \in SUBSET R
        BY <2>5, <3>4
      <4>3. g[s] = w[x] + g[s \ {x}]
        BY <2>3, <4>2 DEF IsSum
      <4>. HIDE DEF h
      <4>. QED BY <4>1, <4>3
    <3>. QED BY <3>2, <3>3, <3>4
  <2>9. IsSum(h, w, T)
    <3>. HIDE DEF h
    <3>. QED BY <2>6, <2>7, <2>8 DEF IsSum
  <2>. QED BY <2>9
<1>. QED BY <1>3, <1>4

\* The fold computes such a sum, in whatever order it takes the elements.
LEMMA FoldIsSum ==
  ASSUME NEW T, IsFiniteSet(T), NEW w, NEW g, IsSum(g, w, T)
  PROVE  SumFunctionOnSet(w, T) = g[T]
<1>. DEFINE Step(f) == [s \in SUBSET T |->
                          IF s = {} THEN 0
                          ELSE w[CHOOSE x \in s : TRUE]
                               + f[s \ {CHOOSE x \in s : TRUE}]]
            it == CHOOSE f : f = Step(f)
<1>1. SumFunctionOnSet(w, T) = it[T]
  BY DEF SumFunctionOnSet, FoldFunctionOnSet, MapThenFoldSet
<1>2. g = Step(g)
  BY DEF IsSum
<1>3. it = Step(it)
  <2>. HIDE DEF Step
  <2>. QED BY <1>2
<1>. DEFINE B == {s \in SUBSET T : it[s] # g[s]}
<1>. SUFFICES ASSUME B # {} PROVE FALSE
  BY <1>1
<1>4. \A s \in B : IsFiniteSet(s)
  BY FS_Subset
<1>5. PICK s \in B : \A x \in s : s \ {x} \notin B
  <2>. HIDE DEF B
  <2>. QED BY <1>4, MinimalSet
<1>6. it[s] = g[s]
  <2>. HIDE DEF it
  <2>1. CASE s = {}
    BY <1>2, <1>3, <2>1
  <2>2. CASE s # {}
    <3>. DEFINE x == CHOOSE y \in s : TRUE
    <3>1. x \in s /\ s \ {x} \in SUBSET T
      BY <2>2
    <3>2. it[s \ {x}] = g[s \ {x}]
      BY <1>5, <3>1
    <3>3. it[s] = w[x] + it[s \ {x}]
      BY <1>3, <2>2
    <3>4. g[s] = w[x] + g[s \ {x}]
      BY <3>1 DEF IsSum
    <3>. QED BY <3>2, <3>3, <3>4
  <2>. QED BY <2>1, <2>2
<1>. QED BY <1>5, <1>6

\* One function gives the sums over all subsets of U.
LEMMA SumsOfSubsets ==
  ASSUME NEW U, IsFiniteSet(U), NEW w, \A x \in U : w[x] \in Int
  PROVE  \E g : /\ IsSum(g, w, U)
                /\ \A S \in SUBSET U : SumFunctionOnSet(w, S) = g[S]
<1>1. PICK g : IsSum(g, w, U)
  BY SumExists
<1>2. ASSUME NEW S \in SUBSET U
      PROVE  SumFunctionOnSet(w, S) = g[S]
  <2>. DEFINE h == [s \in SUBSET S |-> g[s]]
  <2>1. IsSum(h, w, S)
    BY <1>1 DEF IsSum
  <2>2. IsFiniteSet(S)
    BY FS_Subset
  <2>3. h[S] = g[S]
    OBVIOUS
  <2>. HIDE DEF h
  <2>4. SumFunctionOnSet(w, S) = h[S]
    BY <2>1, <2>2, FoldIsSum
  <2>. QED BY <2>3, <2>4
<1>. QED BY <1>1, <1>2

-----------------------------------------------------------------------------
(***************************************************************************)
(* The facts the other proofs cite.                                        *)
(***************************************************************************)

\* The sum over no rows is zero.
LEMMA SumEmpty == ASSUME NEW w PROVE SumFunctionOnSet(w, {}) = 0
<1>1. PICK g : /\ IsSum(g, w, {})
               /\ \A S \in SUBSET {} : SumFunctionOnSet(w, S) = g[S]
  BY FS_EmptySet, SumsOfSubsets
<1>. QED BY <1>1 DEF IsSum

\* A sum of integers is an integer.
LEMMA SumType ==
  ASSUME NEW S, IsFiniteSet(S), NEW w, \A x \in S : w[x] \in Int
  PROVE  SumFunctionOnSet(w, S) \in Int
<1>1. PICK g : /\ IsSum(g, w, S)
               /\ \A T \in SUBSET S : SumFunctionOnSet(w, T) = g[T]
  BY SumsOfSubsets
<1>. QED BY <1>1 DEF IsSum

\* Taking x out of the set takes w[x] out of the sum.
LEMMA SumRemove ==
  ASSUME NEW S, IsFiniteSet(S), NEW w, \A y \in S : w[y] \in Int, NEW x \in S
  PROVE  /\ SumFunctionOnSet(w, S) \in Int /\ SumFunctionOnSet(w, S \ {x}) \in Int
         /\ SumFunctionOnSet(w, S) = w[x] + SumFunctionOnSet(w, S \ {x})
<1>1. PICK g : /\ IsSum(g, w, S)
               /\ \A T \in SUBSET S : SumFunctionOnSet(w, T) = g[T]
  BY SumsOfSubsets
<1>2. S \in SUBSET S /\ S \ {x} \in SUBSET S
  OBVIOUS
<1>3. SumFunctionOnSet(w, S) = g[S] /\ SumFunctionOnSet(w, S \ {x}) = g[S \ {x}]
  BY <1>1, <1>2
<1>4. g[S] \in Int /\ g[S \ {x}] \in Int /\ g[S] = w[x] + g[S \ {x}]
  BY <1>1, <1>2 DEF IsSum
<1>. QED BY <1>3, <1>4

\* A new row x adds w[x].
LEMMA SumAdd ==
  ASSUME NEW S, IsFiniteSet(S), NEW x, x \notin S,
         NEW w, \A y \in S \cup {x} : w[y] \in Int
  PROVE  /\ SumFunctionOnSet(w, S) \in Int
         /\ SumFunctionOnSet(w, S \cup {x}) = w[x] + SumFunctionOnSet(w, S)
<1>. DEFINE R == S \cup {x}
<1>1. IsFiniteSet(R)
  BY FS_AddElement
<1>2. R \ {x} = S /\ x \in R /\ \A y \in R : w[y] \in Int
  OBVIOUS
<1>. HIDE DEF R
<1>3. /\ SumFunctionOnSet(w, R \ {x}) \in Int
      /\ SumFunctionOnSet(w, R) = w[x] + SumFunctionOnSet(w, R \ {x})
  BY ONLY <1>1, <1>2, SumRemove, Zenon
<1>. QED BY ONLY <1>2, <1>3 DEF R

\* Only the values on S count.
LEMMA SumSame ==
  ASSUME NEW S, IsFiniteSet(S), NEW w, NEW v,
         \A x \in S : w[x] \in Int /\ v[x] = w[x]
  PROVE  SumFunctionOnSet(v, S) = SumFunctionOnSet(w, S)
<1>1. PICK g : IsSum(g, w, S)
  BY SumExists
<1>2. IsSum(g, v, S)
  BY <1>1 DEF IsSum
<1>3. SumFunctionOnSet(w, S) = g[S]
  BY ONLY <1>1, FoldIsSum, IsFiniteSet(S), Zenon
<1>4. SumFunctionOnSet(v, S) = g[S]
  BY ONLY <1>2, FoldIsSum, IsFiniteSet(S), Zenon
<1>. QED BY <1>3, <1>4

\* If one row changes its value, the sum changes by the difference.
LEMMA SumUpdate ==
  ASSUME NEW S, IsFiniteSet(S), NEW w, NEW v, NEW x \in S,
         \A y \in S : w[y] \in Int, v[x] \in Int,
         \A y \in S : y # x => v[y] = w[y]
  PROVE  /\ SumFunctionOnSet(w, S) \in Int
         /\ SumFunctionOnSet(v, S) = SumFunctionOnSet(w, S) - w[x] + v[x]
<1>. DEFINE R == S \ {x}
<1>1. IsFiniteSet(R)
  BY FS_RemoveElement
<1>2. SumFunctionOnSet(v, R) = SumFunctionOnSet(w, R)
  <2>1. \A y \in R : w[y] \in Int /\ v[y] = w[y]
    OBVIOUS
  <2>. HIDE DEF R
  <2>. QED BY ONLY <1>1, <2>1, SumSame, Zenon
<1>3. /\ SumFunctionOnSet(w, S) \in Int /\ SumFunctionOnSet(w, R) \in Int
      /\ SumFunctionOnSet(w, S) = w[x] + SumFunctionOnSet(w, R)
  BY SumRemove
<1>4. \A y \in S : v[y] \in Int
  OBVIOUS
<1>5. SumFunctionOnSet(v, S) = v[x] + SumFunctionOnSet(v, R)
  BY <1>4, SumRemove
<1>. HIDE DEF R
<1>. QED BY <1>2, <1>3, <1>5

\* What x adds to the sum of w over S.
Share(w, S, x) == IF x \in S THEN w[x] ELSE 0

\* A step that rewrites one row x, or inserts it: x may join or leave the set
\* and change its value, all else stays.  The sum changes by the share of x.
LEMMA SumStep ==
  ASSUME NEW S, IsFiniteSet(S), NEW S2, NEW x, S2 \ {x} = S \ {x},
         NEW w, \A y \in S : w[y] \in Int,
         NEW v, \A y \in S2 : v[y] \in Int,
         \A y \in S : y # x => v[y] = w[y]
  PROVE  /\ SumFunctionOnSet(w, S) \in Int
         /\ Share(w, S, x) \in Int /\ Share(v, S2, x) \in Int
         /\ SumFunctionOnSet(v, S2) =
              SumFunctionOnSet(w, S) - Share(w, S, x) + Share(v, S2, x)
<1>. DEFINE R == S \ {x}
<1>1. IsFiniteSet(R)
  BY FS_RemoveElement
<1>2. /\ \A y \in R : w[y] \in Int /\ v[y] = w[y]
      /\ Share(w, S, x) \in Int /\ Share(v, S2, x) \in Int
      /\ R = S2 \ {x} /\ x \notin R
  BY DEF Share
<1>3. SumFunctionOnSet(v, R) = SumFunctionOnSet(w, R) /\ SumFunctionOnSet(w, R) \in Int
  <2>. HIDE DEF R
  <2>1. \A y \in R : w[y] \in Int
    BY <1>2
  <2>2. SumFunctionOnSet(w, R) \in Int
    BY ONLY <1>1, <2>1, SumType, Zenon
  <2>3. SumFunctionOnSet(v, R) = SumFunctionOnSet(w, R)
    BY ONLY <1>1, <1>2, SumSame, Zenon
  <2>. QED BY <2>2, <2>3
<1>4. SumFunctionOnSet(w, S) = SumFunctionOnSet(w, R) + Share(w, S, x)
  <2>1. CASE x \in S
    <3>1. SumFunctionOnSet(w, S) = w[x] + SumFunctionOnSet(w, R)
      BY <2>1, SumRemove
    <3>. QED BY <1>3, <2>1, <3>1 DEF Share
  <2>2. CASE x \notin S
    <3>1. R = S
      BY <2>2
    <3>. QED BY <1>3, <2>2, <3>1 DEF Share
  <2>. QED BY <2>1, <2>2
<1>5. SumFunctionOnSet(v, S2) = SumFunctionOnSet(v, R) + Share(v, S2, x)
  <2>1. CASE x \in S2
    <3>1. S2 = R \cup {x}
      BY <1>2, <2>1
    <3>2. IsFiniteSet(S2) /\ \A y \in S2 : v[y] \in Int
      BY <1>1, <3>1, FS_AddElement
    <3>3. SumFunctionOnSet(v, S2) = v[x] + SumFunctionOnSet(v, S2 \ {x})
      BY <2>1, <3>2, SumRemove
    <3>4. SumFunctionOnSet(v, S2) = v[x] + SumFunctionOnSet(v, R)
      BY ONLY <1>2, <3>3
    <3>5. Share(v, S2, x) = v[x] /\ v[x] \in Int
      BY <2>1 DEF Share
    <3>. HIDE DEF R
    <3>. QED BY ONLY <1>3, <3>4, <3>5
  <2>2. CASE x \notin S2
    <3>1. R = S2
      BY <1>2, <2>2
    <3>. QED BY <1>3, <2>2, <3>1 DEF Share
  <2>. QED BY <2>1, <2>2
<1>6. SumFunctionOnSet(w, S) \in Int
  BY <1>2, <1>3, <1>4
<1>7. SumFunctionOnSet(v, S2) =
        SumFunctionOnSet(w, S) - Share(w, S, x) + Share(v, S2, x)
  <2>. HIDE DEF R
  <2>. QED BY ONLY <1>2, <1>3, <1>4, <1>5, <1>6
<1>. QED BY <1>2, <1>6, <1>7

\* Members that count nothing do not change a sum.
LEMMA SumGrows ==
  ASSUME NEW S2, IsFiniteSet(S2), NEW S \in SUBSET S2,
         NEW w, NEW v, \A y \in S2 : v[y] \in Int,
         \A y \in S : v[y] = w[y],
         \A y \in S2 \ S : v[y] = 0
  PROVE  SumFunctionOnSet(v, S2) = SumFunctionOnSet(w, S)
<1>. DEFINE B == {R \in SUBSET S2 :
                    S \subseteq R /\ SumFunctionOnSet(v, R) # SumFunctionOnSet(w, S)}
<1>. SUFFICES ASSUME B # {} PROVE FALSE
  OBVIOUS
<1>1. \A R \in B : IsFiniteSet(R)
  BY FS_Subset
<1>2. PICK R \in B : \A x \in R : R \ {x} \notin B
  <2>. HIDE DEF B
  <2>. QED BY <1>1, MinimalSet
<1>3. /\ R \in SUBSET S2 /\ S \subseteq R /\ IsFiniteSet(R)
      /\ SumFunctionOnSet(v, R) # SumFunctionOnSet(w, S)
  BY <1>1, <1>2
<1>4. CASE R = S
  <2>1. IsFiniteSet(S) /\ \A y \in S : w[y] \in Int /\ v[y] = w[y]
    BY <1>3, <1>4
  <2>2. SumFunctionOnSet(v, S) = SumFunctionOnSet(w, S)
    BY ONLY <2>1, SumSame, Zenon
  <2>. QED BY <1>3, <1>4, <2>2
<1>5. CASE R # S
  <2>1. PICK x \in R : x \notin S
    BY <1>3, <1>5
  <2>2. R \ {x} \notin B
    BY <1>2
  <2>3. SumFunctionOnSet(v, R \ {x}) = SumFunctionOnSet(w, S)
    BY <1>3, <2>1, <2>2
  <2>4. \A y \in R : v[y] \in Int
    BY <1>3
  <2>5. /\ SumFunctionOnSet(v, R) = v[x] + SumFunctionOnSet(v, R \ {x})
        /\ SumFunctionOnSet(v, R \ {x}) \in Int
    BY <1>3, <2>4, SumRemove
  <2>6. v[x] = 0
    BY <1>3, <2>1
  <2>. HIDE DEF B
  <2>. QED BY <1>3, <2>3, <2>5, <2>6
<1>. QED BY <1>4, <1>5

\* A sum of natural numbers is one.
LEMMA SumNatural ==
  ASSUME NEW S, IsFiniteSet(S), NEW w, \A x \in S : w[x] \in Nat
  PROVE  SumFunctionOnSet(w, S) \in Nat
<1>. DEFINE B == {R \in SUBSET S : SumFunctionOnSet(w, R) \notin Nat}
<1>. SUFFICES ASSUME B # {} PROVE FALSE
  OBVIOUS
<1>1. \A R \in B : IsFiniteSet(R)
  BY FS_Subset
<1>2. PICK R \in B : \A x \in R : R \ {x} \notin B
  <2>. HIDE DEF B
  <2>. QED BY <1>1, MinimalSet
<1>3. R \in SUBSET S /\ IsFiniteSet(R) /\ SumFunctionOnSet(w, R) \notin Nat
  BY <1>1, <1>2
<1>4. R # {}
  BY <1>3, SumEmpty
<1>5. PICK x \in R : R \ {x} \notin B
  BY <1>2, <1>4
<1>6. SumFunctionOnSet(w, R \ {x}) \in Nat
  BY <1>3, <1>5
<1>7. \A y \in R : w[y] \in Int
  BY <1>3
<1>8. SumFunctionOnSet(w, R) = w[x] + SumFunctionOnSet(w, R \ {x})
  BY <1>3, <1>7, SumRemove
<1>9. w[x] \in Nat
  BY <1>3
<1>. HIDE DEF B
<1>. QED BY <1>3, <1>6, <1>8, <1>9

\* It is at least each of its terms.
LEMMA SumMember ==
  ASSUME NEW S, IsFiniteSet(S), NEW w, \A y \in S : w[y] \in Nat, NEW x \in S
  PROVE  w[x] <= SumFunctionOnSet(w, S)
<1>1. IsFiniteSet(S \ {x}) /\ \A y \in S \ {x} : w[y] \in Nat
  BY FS_RemoveElement
<1>2. SumFunctionOnSet(w, S \ {x}) \in Nat
  BY ONLY <1>1, SumNatural, Zenon
<1>3. SumFunctionOnSet(w, S) = w[x] + SumFunctionOnSet(w, S \ {x})
  BY SumRemove
<1>. QED BY <1>2, <1>3

\* A sum no larger term by term is no larger.
LEMMA SumAtMost ==
  ASSUME NEW S, IsFiniteSet(S), NEW w, NEW v,
         \A x \in S : w[x] \in Int /\ v[x] \in Int /\ w[x] <= v[x]
  PROVE  SumFunctionOnSet(w, S) <= SumFunctionOnSet(v, S)
<1>. DEFINE B == {R \in SUBSET S :
                    ~(SumFunctionOnSet(w, R) <= SumFunctionOnSet(v, R))}
<1>. SUFFICES ASSUME B # {} PROVE FALSE
  OBVIOUS
<1>1. \A R \in B : IsFiniteSet(R)
  BY FS_Subset
<1>2. PICK R \in B : \A x \in R : R \ {x} \notin B
  <2>. HIDE DEF B
  <2>. QED BY <1>1, MinimalSet
<1>3. /\ R \in SUBSET S /\ IsFiniteSet(R)
      /\ ~(SumFunctionOnSet(w, R) <= SumFunctionOnSet(v, R))
  BY <1>1, <1>2
<1>4. R # {}
  BY <1>3, SumEmpty
<1>5. PICK x \in R : R \ {x} \notin B
  BY <1>2, <1>4
<1>6. SumFunctionOnSet(w, R \ {x}) <= SumFunctionOnSet(v, R \ {x})
  BY <1>3, <1>5
<1>7. \A y \in R : w[y] \in Int /\ v[y] \in Int
  BY <1>3
<1>8. /\ SumFunctionOnSet(w, R) = w[x] + SumFunctionOnSet(w, R \ {x})
      /\ SumFunctionOnSet(w, R \ {x}) \in Int
  BY <1>3, <1>7, SumRemove
<1>9. /\ SumFunctionOnSet(v, R) = v[x] + SumFunctionOnSet(v, R \ {x})
      /\ SumFunctionOnSet(v, R \ {x}) \in Int
  BY <1>3, <1>7, SumRemove
<1>10. w[x] \in Int /\ v[x] \in Int /\ w[x] <= v[x]
  BY <1>3
<1>. HIDE DEF B
<1>. QED BY <1>3, <1>6, <1>8, <1>9, <1>10

\* w on S after the places id[l] of the l in R were given the values of v.
Mixed(w, v, S, id, R) ==
  [y \in S |-> IF \E l \in R : id[l] = y THEN v[y] ELSE w[y]]

\* A step that adds c[l] at the place id[l], for all l in L at once, each at a
\* place of its own.  The sum grows by the sum of the c[l].
LEMMA SumSpread ==
  ASSUME NEW S, IsFiniteSet(S), NEW w, NEW v,
         \A y \in S : w[y] \in Int /\ v[y] \in Int,
         NEW L, IsFiniteSet(L), NEW c, \A l \in L : c[l] \in Int,
         NEW id \in [L -> S], \A a, b \in L : id[a] = id[b] => a = b,
         \A l \in L : v[id[l]] = w[id[l]] + c[l],
         \A y \in S : (\A l \in L : id[l] # y) => v[y] = w[y]
  PROVE  /\ SumFunctionOnSet(w, S) \in Int /\ SumFunctionOnSet(c, L) \in Int
         /\ SumFunctionOnSet(v, S) = SumFunctionOnSet(w, S) + SumFunctionOnSet(c, L)
<1>. DEFINE Right(R) == SumFunctionOnSet(Mixed(w, v, S, id, R), S) =
                          SumFunctionOnSet(w, S) + SumFunctionOnSet(c, R)
            B == {R \in SUBSET L : ~Right(R)}
<1>1. SumFunctionOnSet(w, S) \in Int /\ SumFunctionOnSet(c, L) \in Int
  BY SumType
<1>2. B = {}
  <2>. SUFFICES ASSUME B # {} PROVE FALSE
    OBVIOUS
  <2>1. \A R \in B : IsFiniteSet(R)
    BY FS_Subset
  <2>2. PICK R \in B : \A x \in R : R \ {x} \notin B
    <3>. HIDE DEF B
    <3>. QED BY <2>1, MinimalSet
  <2>3. R \in SUBSET L /\ IsFiniteSet(R) /\ ~Right(R)
    BY <2>1, <2>2
  <2>4. CASE R = {}
    <3>1. PICK m : m = Mixed(w, v, S, id, R)
      OBVIOUS
    <3>2. \A y \in S : w[y] \in Int /\ m[y] = w[y]
      BY <2>4, <3>1 DEF Mixed
    <3>3. SumFunctionOnSet(m, S) = SumFunctionOnSet(w, S)
      BY ONLY <3>2, SumSame, IsFiniteSet(S), Zenon
    <3>4. SumFunctionOnSet(c, R) = 0
      BY <2>4, SumEmpty
    <3>. HIDE DEF B
    <3>. QED BY <1>1, <2>3, <3>1, <3>3, <3>4
  <2>5. CASE R # {}
    <3>1. PICK x \in R : R \ {x} \notin B
      BY <2>2, <2>5
    <3>2. x \in L /\ R \ {x} \in SUBSET L /\ Right(R \ {x})
      BY <2>3, <3>1
    <3>3. PICK p \in S : p = id[x]
      BY <3>2
    <3>4. PICK m, n : /\ m = Mixed(w, v, S, id, R \ {x})
                       /\ n = Mixed(w, v, S, id, R)
      OBVIOUS
    <3>5. m[p] = w[p] /\ n[p] = v[p] /\ v[p] = w[p] + c[x]
      <4>1. v[p] = w[p] + c[x]
        BY <3>2, <3>3
      <4>2. \A l \in R \ {x} : id[l] # p
        BY <3>2, <3>3
      <4>. QED BY <3>1, <3>3, <3>4, <4>1, <4>2 DEF Mixed
    <3>6. \A y \in S : m[y] \in Int /\ (y # p => n[y] = m[y])
      BY <3>3, <3>4 DEF Mixed
    <3>7. n[p] \in Int /\ \A y \in S : m[y] \in Int
      BY <3>5, <3>6
    <3>8. \A y \in S : y # p => n[y] = m[y]
      BY <3>6
    <3>9. /\ SumFunctionOnSet(m, S) \in Int
          /\ SumFunctionOnSet(n, S) = SumFunctionOnSet(m, S) - m[p] + n[p]
      BY ONLY <3>7, <3>8, SumUpdate, IsFiniteSet(S), p \in S
    <3>10. /\ SumFunctionOnSet(c, R) = c[x] + SumFunctionOnSet(c, R \ {x})
          /\ SumFunctionOnSet(c, R \ {x}) \in Int
      <4>1. \A l \in R : c[l] \in Int
        BY <2>3
      <4>. QED BY ONLY <2>3, <4>1, SumRemove, x \in R
    <3>11. SumFunctionOnSet(m, S) = SumFunctionOnSet(w, S) + SumFunctionOnSet(c, R \ {x})
      BY <3>2, <3>4
    <3>12. c[x] \in Int /\ w[p] \in Int
      BY <3>2
    <3>13. SumFunctionOnSet(n, S) # SumFunctionOnSet(w, S) + SumFunctionOnSet(c, R)
      BY <2>3, <3>4
    <3>. QED BY ONLY <1>1, <3>5, <3>9, <3>10, <3>11, <3>12, <3>13
  <2>. QED BY <2>4, <2>5
<1>3. SumFunctionOnSet(Mixed(w, v, S, id, L), S) =
        SumFunctionOnSet(w, S) + SumFunctionOnSet(c, L)
  <2>1. L \in SUBSET L /\ L \notin B
    BY <1>2
  <2>. QED BY <2>1
<1>4. PICK m : m = Mixed(w, v, S, id, L)
  OBVIOUS
<1>5. \A y \in S : v[y] \in Int /\ m[y] = v[y]
  BY <1>4 DEF Mixed
<1>6. SumFunctionOnSet(m, S) = SumFunctionOnSet(v, S)
  BY ONLY <1>5, SumSame, IsFiniteSet(S), Zenon
<1>. HIDE DEF B
<1>. QED BY <1>1, <1>3, <1>4, <1>6
=============================================================================
