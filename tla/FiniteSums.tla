----------------------------- MODULE FiniteSums -----------------------------
(***************************************************************************)
(* Facts about numbers, finite sets and SumFunctionOnSet (of the community *)
(* module Functions) that the proofs of several components need.  The      *)
(* induction they rest on is a smallest counterexample each time.          *)
(***************************************************************************)
EXTENDS Integers, FiniteSets, Functions, FiniteSetTheorems, WellFoundedInduction, TLAPS

-----------------------------------------------------------------------------
(* Numbers and finite sets                                                 *)

\* A set of numbers has a least one.
LEMMA LeastNat ==
  ASSUME NEW T, T \subseteq Nat, T # {}
  PROVE  \E m \in T : \A k \in T : m <= k
  <1> DEFINE R == OpToRel(<, Nat)
  <1>1. IsWellFoundedOn(R, Nat)
    BY NatLessThanWellFounded
  <1>2. \A x, y \in Nat : x < y => <<x, y>> \in R
    BY DEF OpToRel
  <1> HIDE DEF R
  <1>3. PICK m \in T : \A y \in T : ~(<<y, m>> \in R)
    BY <1>1, WFMin
  <1>4. \A y \in T : ~(y < m)
    BY <1>2, <1>3, Zenon
  <1>5. QED
    BY <1>4

\* A set of numbers up to some number has a greatest one.
LEMMA GreatestNat ==
  ASSUME NEW T, T \subseteq Nat, T # {}, NEW n \in Nat, \A k \in T : k <= n
  PROVE  \E m \in T : \A k \in T : k <= m
  <1> DEFINE Below == {n - k : k \in T}
  <1>1. Below \subseteq Nat /\ Below # {}
    <2>1. \A k \in T : k \in Nat /\ n - k \in Nat
      OBVIOUS
    <2>2. QED
      BY <2>1
  <1>2. PICK b \in Below : \A c \in Below : b <= c
    BY <1>1, LeastNat
  <1>3. PICK m \in T : b = n - m
    BY <1>2
  <1>4. \A k \in T : n - m <= n - k
    BY <1>2, <1>3
  <1>5. QED
    BY <1>3, <1>4

\* Among finite sets there is one that contains no smaller one of them.
LEMMA SmallestSet ==
  ASSUME NEW F, F # {}, \A s \in F : IsFiniteSet(s)
  PROVE  \E s \in F : \A t \in F : t \subseteq s => t = s
  <1> DEFINE Sizes == {Cardinality(s) : s \in F}
  <1>1. Sizes \subseteq Nat /\ Sizes # {}
    BY FS_CardinalityType
  <1>2. PICK m \in Sizes : \A k \in Sizes : m <= k
    BY <1>1, LeastNat
  <1>3. PICK s \in F : m = Cardinality(s)
    BY <1>2
  <1>4. ASSUME NEW t \in F, t \subseteq s, t # s PROVE FALSE
    <2>1. Cardinality(t) < Cardinality(s) /\ Cardinality(t) \in Nat /\ Cardinality(s) \in Nat
      BY <1>4, FS_Subset, FS_CardinalityType
    <2>2. QED
      BY <1>2, <1>3, <2>1
  <1>5. QED
    BY <1>3, <1>4

-----------------------------------------------------------------------------
(* The recursion of SumFunctionOnSet                                       *)

\* g computes the sums of f over the sets of the family F, one element at a time.
Accumulates(g, f, F) ==
  g = [s \in F |-> IF s = {} THEN 0
                   ELSE f[CHOOSE x \in s : TRUE] + g[s \ {CHOOSE x \in s : TRUE}]]

\* There is such a function on the subsets of a finite set.
LEMMA SumsExist ==
  ASSUME NEW S, IsFiniteSet(S), NEW f
  PROVE  \E g : Accumulates(g, f, SUBSET S)
  <1> DEFINE Small(n) == {s \in SUBSET S : Cardinality(s) <= n}
             Bad == {n \in Nat : \A g : ~Accumulates(g, f, Small(n))}
  <1>1. \A s \in SUBSET S : IsFiniteSet(s) /\ Cardinality(s) \in Nat
    BY FS_Subset, FS_CardinalityType
  <1>2. Bad = {}
    <2> SUFFICES ASSUME Bad # {} PROVE FALSE
      OBVIOUS
    <2>1. PICK m \in Bad : \A k \in Bad : m <= k
      BY LeastNat
    <2>2. CASE m = 0
      <3> DEFINE g == [s \in {{}} |-> 0]
      <3>1. Small(0) = {{}}
        BY <1>1, FS_EmptySet
      <3>2. Accumulates(g, f, Small(0))
        BY <3>1 DEF Accumulates
      <3>3. QED
        BY <2>1, <2>2, <3>2
    <2>3. CASE m # 0
      <3>1. m - 1 \in Nat /\ m - 1 \notin Bad /\ m \in Nat
        BY <2>1, <2>3
      <3>2. PICK g : Accumulates(g, f, Small(m - 1))
        BY <3>1
      <3> DEFINE h == [s \in Small(m) |-> IF s = {} THEN 0
                         ELSE f[CHOOSE x \in s : TRUE] + g[s \ {CHOOSE x \in s : TRUE}]]
      <3>3. \A s \in Small(m - 1) : s \in Small(m) /\ h[s] = g[s]
        <4>1. ASSUME NEW s \in Small(m - 1) PROVE s \in Small(m)
          BY <1>1, <3>1
        <4> HIDE DEF Small
        <4>2. ASSUME NEW s \in Small(m - 1) PROVE h[s] = g[s]
          BY <3>2, <4>1 DEF Accumulates
        <4>3. QED
          BY <4>1, <4>2
      <3>4. \A s \in Small(m) : s # {} => s \ {CHOOSE x \in s : TRUE} \in Small(m - 1)
        <4> SUFFICES ASSUME NEW s \in Small(m), s # {}
                     PROVE  s \ {CHOOSE x \in s : TRUE} \in Small(m - 1)
          OBVIOUS
        <4>1. (CHOOSE x \in s : TRUE) \in s
          OBVIOUS
        <4> DEFINE c == CHOOSE x \in s : TRUE
        <4>2. Cardinality(s \ {c}) = Cardinality(s) - 1
          BY <1>1, <4>1, FS_RemoveElement
        <4>3. QED
          BY <1>1, <3>1, <4>2
      <3>5. \A s \in Small(m) :
              h[s] = IF s = {} THEN 0
                     ELSE f[CHOOSE x \in s : TRUE] + h[s \ {CHOOSE x \in s : TRUE}]
        <4> HIDE DEF Small
        <4>1. ASSUME NEW s \in Small(m), s # {}
              PROVE  g[s \ {CHOOSE x \in s : TRUE}] = h[s \ {CHOOSE x \in s : TRUE}]
          BY <3>3, <3>4, <4>1
        <4>2. TAKE s \in Small(m)
        <4>3. CASE s = {}
          BY <4>3
        <4>4. CASE s # {}
          <5> DEFINE c == CHOOSE x \in s : TRUE
          <5>1. h[s] = f[c] + g[s \ {c}]
            BY <4>4
          <5>2. g[s \ {c}] = h[s \ {c}]
            BY <4>1, <4>4
          <5> HIDE DEF c, h
          <5>3. h[s] = f[c] + h[s \ {c}]
            BY <5>1, <5>2
          <5>4. QED
            BY <4>4, <5>3 DEF c
        <4>5. QED
          BY <4>3, <4>4
      <3>6. Accumulates(h, f, Small(m))
        BY <3>5 DEF Accumulates
      <3>7. QED
        BY <2>1, <3>6
    <2>4. QED
      BY <2>2, <2>3
  <1>3. Small(Cardinality(S)) = SUBSET S
    BY <1>1, FS_Subset
  <1>4. QED
    BY <1>1, <1>2, <1>3

\* Two such functions agree on the sets they share.
LEMMA SumsAgree ==
  ASSUME NEW S, IsFiniteSet(S), NEW T \in SUBSET S, NEW f, NEW g, NEW h,
         Accumulates(g, f, SUBSET S), Accumulates(h, f, SUBSET T)
  PROVE  g[T] = h[T]
  <1> DEFINE Bad == {s \in SUBSET T : g[s] # h[s]}
  <1>1. \A s \in SUBSET T : IsFiniteSet(s)
    BY FS_Subset
  <1>2. Bad = {}
    <2> SUFFICES ASSUME Bad # {} PROVE FALSE
      OBVIOUS
    <2>1. PICK s \in Bad : \A t \in Bad : t \subseteq s => t = s
      <3>1. \A s \in Bad : IsFiniteSet(s)
        BY <1>1
      <3> HIDE DEF Bad
      <3>2. QED
        BY <3>1, SmallestSet
    <2> DEFINE c == CHOOSE x \in s : TRUE
    <2>2. CASE s = {}
      BY <2>2 DEF Accumulates
    <2>3. CASE s # {}
      <3>1. c \in s
        BY <2>3
      <3>2. s \ {c} \notin Bad /\ s \ {c} \in SUBSET T
        BY <2>1, <3>1
      <3>3. g[s \ {c}] = h[s \ {c}]
        BY <3>2
      <3>4. g[s] = f[c] + g[s \ {c}] /\ h[s] = f[c] + h[s \ {c}]
        BY <2>3 DEF Accumulates
      <3>5. QED
        BY <3>3, <3>4
    <2>4. QED
      BY <2>2, <2>3
  <1>3. QED
    BY <1>2

\* What SumFunctionOnSet computes, one element at a time.
LEMMA SumUnfolds ==
  ASSUME NEW S, IsFiniteSet(S), NEW f
  PROVE  SumFunctionOnSet(f, S) =
           IF S = {} THEN 0
           ELSE f[CHOOSE x \in S : TRUE] + SumFunctionOnSet(f, S \ {CHOOSE x \in S : TRUE})
  <1> DEFINE g(T) == CHOOSE iter : iter =
                       [s \in SUBSET T |-> IF s = {} THEN 0
                          ELSE f[CHOOSE x \in s : TRUE] + iter[s \ {CHOOSE x \in s : TRUE}]]
             c == CHOOSE x \in S : TRUE
  <1>1. \A T : SumFunctionOnSet(f, T) = g(T)[T]
    BY DEF SumFunctionOnSet, FoldFunctionOnSet, MapThenFoldSet
  <1>2. ASSUME NEW T \in SUBSET S PROVE Accumulates(g(T), f, SUBSET T)
    <2>1. IsFiniteSet(T)
      BY FS_Subset
    <2>2. PICK h : Accumulates(h, f, SUBSET T)
      BY <2>1, SumsExist
    <2>3. QED
      BY <2>2 DEF Accumulates
  <1> HIDE DEF g
  <1>3. Accumulates(g(S), f, SUBSET S)
    BY <1>2
  <1>4. CASE S = {}
    BY <1>1, <1>3, <1>4 DEF Accumulates
  <1>5. CASE S # {}
    <2>1. g(S)[S] = f[c] + g(S)[S \ {c}]
      BY <1>3, <1>5 DEF Accumulates
    <2>2. g(S)[S \ {c}] = g(S \ {c})[S \ {c}]
      <3>1. S \ {c} \in SUBSET S
        OBVIOUS
      <3>2. Accumulates(g(S \ {c}), f, SUBSET (S \ {c}))
        BY <1>2, <3>1
      <3> HIDE DEF c
      <3>3. QED
        BY <1>3, <3>1, <3>2, SumsAgree
    <2>3. QED
      BY <1>1, <1>5, <2>1, <2>2
  <1>6. QED
    BY <1>4, <1>5

-----------------------------------------------------------------------------
(* Sums                                                                    *)

LEMMA SumEmpty == ASSUME NEW f PROVE SumFunctionOnSet(f, {}) = 0
  BY SumUnfolds, FS_EmptySet

\* A sum of integers is one.
LEMMA SumInt ==
  ASSUME NEW S, IsFiniteSet(S), NEW f, \A x \in S : f[x] \in Int
  PROVE  SumFunctionOnSet(f, S) \in Int
  <1> DEFINE Bad == {s \in SUBSET S : SumFunctionOnSet(f, s) \notin Int}
  <1>1. Bad = {}
    <2> SUFFICES ASSUME Bad # {} PROVE FALSE
      OBVIOUS
    <2>1. \A s \in Bad : IsFiniteSet(s)
      BY FS_Subset
    <2>2. PICK s \in Bad : \A t \in Bad : t \subseteq s => t = s
      <3> HIDE DEF Bad
      <3>1. QED
        BY <2>1, SmallestSet
    <2> DEFINE c == CHOOSE x \in s : TRUE
    <2>3. s # {} /\ c \in s
      <3>1. SumFunctionOnSet(f, {}) \in Int
        BY SumEmpty
      <3>2. s # {}
        BY <2>2, <3>1
      <3>3. QED
        BY <3>2
    <2>4. s \ {c} \notin Bad /\ s \ {c} \in SUBSET S
      BY <2>2, <2>3
    <2>5. SumFunctionOnSet(f, s) = f[c] + SumFunctionOnSet(f, s \ {c})
      BY <2>1, <2>2, <2>3, SumUnfolds
    <2>6. QED
      BY <2>2, <2>3, <2>4, <2>5
  <1>2. QED
    BY <1>1

\* Any element may be taken out first: the order does not matter.
LEMMA SumRemove ==
  ASSUME NEW S, IsFiniteSet(S), NEW f, \A x \in S : f[x] \in Int, NEW x \in S
  PROVE  SumFunctionOnSet(f, S) = f[x] + SumFunctionOnSet(f, S \ {x})
  <1> DEFINE Splits(s, y) == SumFunctionOnSet(f, s) = f[y] + SumFunctionOnSet(f, s \ {y})
             Bad == {s \in SUBSET S : \E y \in s : ~Splits(s, y)}
  <1>1. Bad = {}
    <2> SUFFICES ASSUME Bad # {} PROVE FALSE
      OBVIOUS
    <2>1. \A s \in SUBSET S : IsFiniteSet(s)
      BY FS_Subset
    <2>2. PICK s \in Bad : \A t \in Bad : t \subseteq s => t = s
      <3>1. \A t \in Bad : IsFiniteSet(t)
        BY <2>1
      <3> HIDE DEF Bad
      <3>2. QED
        BY <3>1, SmallestSet
    <2>3. PICK y \in s : ~Splits(s, y)
      BY <2>2
    <2> DEFINE c == CHOOSE z \in s : TRUE
    <2>4. c \in s /\ s \in SUBSET S
      BY <2>2, <2>3
    <2>5. SumFunctionOnSet(f, s) = f[c] + SumFunctionOnSet(f, s \ {c})
      BY <2>1, <2>4, SumUnfolds
    <2> HIDE DEF c
    <2>6. c # y
      BY <2>3, <2>5
    <2>7. s \ {c} \notin Bad /\ s \ {y} \notin Bad
      BY <2>2, <2>3, <2>4
    <2>8. Splits(s \ {c}, y) /\ Splits(s \ {y}, c)
      BY <2>3, <2>4, <2>6, <2>7
    <2> DEFINE rest == (s \ {c}) \ {y}
    <2>9. (s \ {y}) \ {c} = rest
      OBVIOUS
    <2>10. \A t \in SUBSET S : SumFunctionOnSet(f, t) \in Int
      BY <2>1, SumInt
    <2>11. /\ SumFunctionOnSet(f, s) \in Int
           /\ SumFunctionOnSet(f, s \ {c}) \in Int
           /\ SumFunctionOnSet(f, s \ {y}) \in Int
           /\ SumFunctionOnSet(f, rest) \in Int
           /\ f[c] \in Int /\ f[y] \in Int
      BY <2>3, <2>4, <2>10
    <2>12. /\ SumFunctionOnSet(f, s \ {c}) = f[y] + SumFunctionOnSet(f, rest)
           /\ SumFunctionOnSet(f, s \ {y}) = f[c] + SumFunctionOnSet(f, rest)
      BY <2>8, <2>9
    <2> HIDE DEF rest
    <2>13. SumFunctionOnSet(f, s) = f[y] + SumFunctionOnSet(f, s \ {y})
      BY <2>5, <2>11, <2>12
    <2>14. QED
      BY <2>3, <2>13
  <1>2. Splits(S, x)
    BY <1>1
  <1>3. QED
    BY <1>2

\* An element that is added counts.
LEMMA SumAdd ==
  ASSUME NEW S, IsFiniteSet(S), NEW x, x \notin S, NEW f, \A y \in S \cup {x} : f[y] \in Int
  PROVE  SumFunctionOnSet(f, S \cup {x}) = SumFunctionOnSet(f, S) + f[x]
  <1>1. IsFiniteSet(S \cup {x}) /\ (S \cup {x}) \ {x} = S
    BY FS_AddElement
  <1>2. SumFunctionOnSet(f, S) \in Int
    BY SumInt
  <1>3. SumFunctionOnSet(f, S \cup {x}) = f[x] + SumFunctionOnSet(f, (S \cup {x}) \ {x})
    BY <1>1, SumRemove
  <1>4. f[x] \in Int
    OBVIOUS
  <1> DEFINE a == SumFunctionOnSet(f, S)
             b == SumFunctionOnSet(f, S \cup {x})
  <1>5. b = f[x] + a /\ a \in Int
    BY <1>1, <1>2, <1>3
  <1> HIDE DEF a, b
  <1>6. b = a + f[x]
    BY <1>4, <1>5
  <1>7. QED
    BY <1>6 DEF a, b

\* Only the values on the set matter.
LEMMA SumSame ==
  ASSUME NEW S, IsFiniteSet(S), NEW f, NEW g, \A x \in S : f[x] = g[x]
  PROVE  SumFunctionOnSet(f, S) = SumFunctionOnSet(g, S)
  <1> DEFINE Bad == {s \in SUBSET S : SumFunctionOnSet(f, s) # SumFunctionOnSet(g, s)}
  <1>1. Bad = {}
    <2> SUFFICES ASSUME Bad # {} PROVE FALSE
      OBVIOUS
    <2>1. \A s \in Bad : IsFiniteSet(s)
      BY FS_Subset
    <2>2. PICK s \in Bad : \A t \in Bad : t \subseteq s => t = s
      <3> HIDE DEF Bad
      <3>1. QED
        BY <2>1, SmallestSet
    <2> DEFINE c == CHOOSE x \in s : TRUE
    <2>3. s # {} /\ c \in s
      BY <2>2, SumEmpty
    <2>4. s \ {c} \notin Bad /\ s \ {c} \in SUBSET S /\ f[c] = g[c]
      BY <2>2, <2>3
    <2>5. /\ SumFunctionOnSet(f, s) = f[c] + SumFunctionOnSet(f, s \ {c})
          /\ SumFunctionOnSet(g, s) = g[c] + SumFunctionOnSet(g, s \ {c})
      BY <2>1, <2>2, <2>3, SumUnfolds
    <2>6. QED
      BY <2>2, <2>4, <2>5
  <1>2. QED
    BY <1>1

\* A change of one value changes the sum by as much.
LEMMA SumChange ==
  ASSUME NEW S, IsFiniteSet(S), NEW f, NEW g, \A y \in S : f[y] \in Int /\ g[y] \in Int,
         NEW x \in S, \A y \in S \ {x} : g[y] = f[y]
  PROVE  SumFunctionOnSet(g, S) = SumFunctionOnSet(f, S) + (g[x] - f[x])
  <1>1. IsFiniteSet(S \ {x})
    BY FS_Subset
  <1>2. /\ SumFunctionOnSet(f, S) = f[x] + SumFunctionOnSet(f, S \ {x})
        /\ SumFunctionOnSet(g, S) = g[x] + SumFunctionOnSet(g, S \ {x})
    BY SumRemove
  <1>3. SumFunctionOnSet(f, S \ {x}) = SumFunctionOnSet(g, S \ {x})
    BY <1>1, SumSame
  <1>4. SumFunctionOnSet(f, S \ {x}) \in Int
    BY <1>1, SumInt
  <1>5. QED
    BY <1>2, <1>3, <1>4

\* A sum of zeros is zero.
LEMMA SumZero ==
  ASSUME NEW S, IsFiniteSet(S), NEW f, \A x \in S : f[x] = 0
  PROVE  SumFunctionOnSet(f, S) = 0
  <1> DEFINE Bad == {s \in SUBSET S : SumFunctionOnSet(f, s) # 0}
  <1>1. Bad = {}
    <2> SUFFICES ASSUME Bad # {} PROVE FALSE
      OBVIOUS
    <2>1. \A s \in Bad : IsFiniteSet(s)
      BY FS_Subset
    <2>2. PICK s \in Bad : \A t \in Bad : t \subseteq s => t = s
      <3> HIDE DEF Bad
      <3>1. QED
        BY <2>1, SmallestSet
    <2> DEFINE c == CHOOSE x \in s : TRUE
    <2>3. s # {} /\ c \in s
      BY <2>2, SumEmpty
    <2>4. s \ {c} \notin Bad /\ s \ {c} \in SUBSET S /\ f[c] = 0
      BY <2>2, <2>3
    <2>5. SumFunctionOnSet(f, s) = f[c] + SumFunctionOnSet(f, s \ {c})
      BY <2>1, <2>2, <2>3, SumUnfolds
    <2>6. QED
      BY <2>2, <2>4, <2>5
  <1>2. QED
    BY <1>1

\* What is added to a set adds its value.
LEMMA SumGrows ==
  ASSUME NEW S, IsFiniteSet(S), NEW x, x \notin S, NEW f, NEW g,
         \A y \in S : f[y] \in Int /\ g[y] = f[y], g[x] \in Int
  PROVE  SumFunctionOnSet(g, S \cup {x}) = SumFunctionOnSet(f, S) + g[x]
  <1>1. \A y \in S \cup {x} : g[y] \in Int
    OBVIOUS
  <1>2. SumFunctionOnSet(g, S \cup {x}) = SumFunctionOnSet(g, S) + g[x]
    BY <1>1, SumAdd
  <1>3. SumFunctionOnSet(f, S) = SumFunctionOnSet(g, S)
    BY SumSame
  <1> QED BY <1>2, <1>3

\* Elements of value zero may be left out.
LEMMA SumSupport ==
  ASSUME NEW S, IsFiniteSet(S), NEW T, T \subseteq S, NEW f, \A x \in S : f[x] \in Int,
         \A x \in S \ T : f[x] = 0
  PROVE  SumFunctionOnSet(f, S) = SumFunctionOnSet(f, T)
  <1> DEFINE Bad == {s \in SUBSET S : SumFunctionOnSet(f, s) # SumFunctionOnSet(f, s \cap T)}
  <1>1. Bad = {}
    <2> SUFFICES ASSUME Bad # {} PROVE FALSE
      OBVIOUS
    <2>1. \A s \in SUBSET S : IsFiniteSet(s)
      BY FS_Subset
    <2>2. PICK s \in Bad : \A t \in Bad : t \subseteq s => t = s
      <3>1. \A t \in Bad : IsFiniteSet(t)
        BY <2>1
      <3> HIDE DEF Bad
      <3>2. QED
        BY <3>1, SmallestSet
    <2>3. CASE s \subseteq T
      <3>1. s \cap T = s
        BY <2>3
      <3> QED BY <2>2, <3>1
    <2>4. CASE ~(s \subseteq T)
      <3>1. PICK x \in s : x \notin T
        BY <2>4
      <3>2. s \in SUBSET S /\ f[x] = 0
        BY <2>2, <3>1
      <3>3. s \ {x} \in SUBSET S /\ s \ {x} \notin Bad /\ (s \ {x}) \cap T = s \cap T
        BY <2>2, <3>1
      <3>4. SumFunctionOnSet(f, s \ {x}) = SumFunctionOnSet(f, s \cap T)
        BY <3>3
      <3>5. SumFunctionOnSet(f, s) = 0 + SumFunctionOnSet(f, s \ {x})
        BY <2>1, <3>1, <3>2, SumRemove
      <3>6. SumFunctionOnSet(f, s \ {x}) \in Int
        BY <2>1, <3>3, SumInt
      <3>7. SumFunctionOnSet(f, s) = SumFunctionOnSet(f, s \cap T)
        BY <3>4, <3>5, <3>6
      <3> QED BY <2>2, <3>7
    <2> QED BY <2>3, <2>4
  <1>2. S \notin Bad /\ S \cap T = T
    BY <1>1
  <1> QED BY <1>2

-----------------------------------------------------------------------------
(* The order of a set of numbers                                           *)

\* How many numbers of T are smaller than t
Rank(T, t) == Cardinality({u \in T : u < t})

LEMMA RankType ==
  ASSUME NEW T, IsFiniteSet(T), NEW t
  PROVE  Rank(T, t) \in Nat /\ IsFiniteSet({u \in T : u < t})
  <1>1. IsFiniteSet({u \in T : u < t})
    BY FS_Subset
  <1> QED BY <1>1, FS_CardinalityType DEF Rank

\* A greater number has more before it.
LEMMA RankGrows ==
  ASSUME NEW T, T \subseteq Nat, IsFiniteSet(T), NEW t \in T, NEW v \in T, t < v
  PROVE  Rank(T, t) < Rank(T, v)
  <1> DEFINE A == {u \in T : u < t}
             B == {u \in T : u < v}
  <1>1. IsFiniteSet(B) /\ Cardinality(B) \in Nat /\ Cardinality(A) \in Nat
    BY RankType DEF Rank
  <1>2. A \subseteq B /\ A # B
    <2>1. t \in B /\ t \notin A
      OBVIOUS
    <2>2. \A u \in T : u < t => u < v
      OBVIOUS
    <2> QED BY <2>1, <2>2
  <1> HIDE DEF A, B
  <1>3. Cardinality(A) < Cardinality(B)
    BY <1>1, <1>2, FS_Subset
  <1> QED BY <1>3 DEF Rank, A, B

\* A number of the set has fewer before it than the set has.
LEMMA RankBelow ==
  ASSUME NEW T, T \subseteq Nat, IsFiniteSet(T), NEW t \in T
  PROVE  Rank(T, t) < Cardinality(T)
  <1> DEFINE A == {u \in T : u < t}
  <1>1. A \subseteq T /\ A # T
    <2>1. ~(t < t)
      OBVIOUS
    <2> QED BY <2>1
  <1> HIDE DEF A
  <1>2. IsFiniteSet(A) /\ Cardinality(A) <= Cardinality(T) /\ Cardinality(A) # Cardinality(T)
    BY <1>1, FS_Subset
  <1>3. Cardinality(A) \in Nat /\ Cardinality(T) \in Nat
    BY <1>2, FS_CardinalityType
  <1>4. Cardinality(A) < Cardinality(T)
    BY <1>2, <1>3
  <1> QED BY <1>4 DEF Rank, A

\* There is a number with as many before it as one likes.
LEMMA RankExists ==
  ASSUME NEW T, T \subseteq Nat, IsFiniteSet(T), NEW n \in Nat, n < Cardinality(T)
  PROVE  \E t \in T : Rank(T, t) = n
  <1>0. Cardinality(T) \in Nat
    BY FS_CardinalityType
  <1> DEFINE Bad == {k \in Nat : k < Cardinality(T) /\ \A t \in T : Rank(T, t) # k}
  <1>1. Bad = {}
    <2> SUFFICES ASSUME Bad # {} PROVE FALSE
      OBVIOUS
    <2>1. PICK m \in Bad : \A k \in Bad : m <= k
      BY LeastNat
    <2>2. m \in Nat /\ m < Cardinality(T) /\ \A t \in T : Rank(T, t) # m
      BY <2>1
    <2>3. CASE m = 0
      <3>1. T # {}
        BY <1>0, <2>2, FS_EmptySet
      <3>2. PICK t \in T : \A k \in T : t <= k
        BY <3>1, LeastNat
      <3>3. {u \in T : u < t} = {}
        <4>1. \A u \in T : ~(u < t)
          BY <3>2
        <4> QED BY <4>1
      <3>4. Rank(T, t) = 0
        BY <3>3, FS_EmptySet DEF Rank
      <3> QED BY <2>2, <2>3, <3>4
    <2>4. CASE m # 0
      <3>1. m - 1 \in Nat /\ m - 1 < Cardinality(T) /\ m - 1 \notin Bad
        BY <1>0, <2>1, <2>2, <2>4
      <3>2. PICK v \in T : Rank(T, v) = m - 1
        BY <3>1
      <3> DEFINE A == {u \in T : u < v}
                 Later == {u \in T : v < u}
      <3>3. IsFiniteSet(A) /\ Cardinality(A) = m - 1 /\ v \notin A
        BY <3>2, RankType DEF Rank
      <3>4. IsFiniteSet(A \cup {v}) /\ Cardinality(A \cup {v}) = m
        <4>1. IsFiniteSet(A \cup {v}) /\ Cardinality(A \cup {v}) = Cardinality(A) + 1
          <5> HIDE DEF A
          <5> QED BY <3>3, FS_AddElement
        <4> QED BY <2>2, <3>3, <4>1
      <3>5. Later # {}
        <4> SUFFICES ASSUME Later = {} PROVE FALSE
          OBVIOUS
        <4>1. T = A \cup {v}
          <5>1. ASSUME NEW u \in T PROVE u \in A \/ u = v
            <6>1. u < v \/ u = v \/ v < u
              OBVIOUS
            <6> QED BY <6>1
          <5> QED BY <5>1
        <4> QED BY <2>2, <3>4, <4>1
      <3>6. PICK t \in Later : \A k \in Later : t <= k
        <4>1. Later \subseteq Nat
          OBVIOUS
        <4> HIDE DEF Later
        <4> QED BY <3>5, <4>1, LeastNat
      <3>7. {u \in T : u < t} = A \cup {v}
        <4>1. ASSUME NEW u \in T PROVE u < t <=> (u < v \/ u = v)
          <5>1. u \in Nat /\ t \in Nat /\ v \in Nat /\ v < t
            BY <3>6
          <5>2. u > v => t <= u
            BY <3>6, <5>1
          <5> QED BY <5>1, <5>2
        <4> QED BY <4>1
      <3>8. Rank(T, t) = m /\ t \in T
        BY <3>4, <3>6, <3>7 DEF Rank
      <3> QED BY <2>2, <3>8
    <2> QED BY <2>3, <2>4
  <1> QED BY <1>1
=============================================================================
