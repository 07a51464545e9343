------------------------------ MODULE SumLemmas ------------------------------
(***************************************************************************)
(* What the sums, the sorted listings and the flattened sequences of the   *)
(* community modules are.  They are recursive functions over the subsets   *)
(* of a finite set or over positions, so each fact here is an induction;   *)
(* the induction itself is the least element of a set of natural numbers   *)
(* (WFMin), which needs no operator as a parameter.                        *)
(***************************************************************************)
EXTENDS Integers, Sequences, SequencesExt, FiniteSets, Functions, FunctionTheorems,
        FiniteSetTheorems, SequenceTheorems, WellFoundedInduction, TLAPS

-----------------------------------------------------------------------------
(* Induction. *)

LEMMA LessThanWellFounded == IsWellFoundedOn({ss \in Nat \X Nat : ss[1] < ss[2]}, Nat)
  BY NatLessThanWellFounded DEF OpToRel

\* A non-empty set of natural numbers has a least element.
LEMMA LeastNatural ==
  ASSUME NEW T \in SUBSET Nat, T # {}
  PROVE  \E m \in T : \A n \in T : m <= n
<1>1. PICK m \in T : \A n \in T : <<n, m>> \notin {ss \in Nat \X Nat : ss[1] < ss[2]}
  BY LessThanWellFounded, WFMin
<1>2. ASSUME NEW n \in T PROVE m <= n
  <2>1. <<n, m>> \in Nat \X Nat
    OBVIOUS
  <2>2. ~ (<<n, m>>[1] < <<n, m>>[2])
    BY <1>1, <2>1, Zenon
  <2>3. QED
    BY <2>2
<1>3. QED
  BY <1>2

\* Induction over the natural numbers, for the set T of those that have the
\* property.
LEMMA AllNaturals ==
  ASSUME NEW T, 0 \in T, \A n \in Nat : n \in T => n + 1 \in T
  PROVE  Nat \subseteq T
<1>1. SUFFICES ASSUME Nat \ T # {} PROVE FALSE
  OBVIOUS
<1>2. PICK m \in Nat \ T : \A n \in Nat \ T : m <= n
  BY <1>1, LeastNatural
<1>3. m - 1 \in Nat /\ m - 1 \in T
  BY <1>2
<1>4. QED
  BY <1>2, <1>3

\* Induction over the subsets of a finite set, for the set T of those that have
\* the property.
LEMMA AllSubsets ==
  ASSUME NEW S, IsFiniteSet(S), NEW T,
         \A s \in SUBSET S : (\A x \in s : s \ {x} \in T) => s \in T
  PROVE  S \in T
<1>1. SUFFICES ASSUME S \notin T PROVE FALSE
  OBVIOUS
<1> DEFINE Sizes == {n \in Nat : \E s \in SUBSET S : s \notin T /\ Cardinality(s) = n}
<1>2. \A s \in SUBSET S : IsFiniteSet(s) /\ Cardinality(s) \in Nat
  BY FS_Subset, FS_CardinalityType
<1>3. Sizes # {}
  BY <1>1, <1>2
<1>4. PICK m \in Sizes : \A n \in Sizes : m <= n
  <2>1. Sizes \in SUBSET Nat
    OBVIOUS
  <2>2. QED
    BY <1>3, <2>1, LeastNatural
<1>5. PICK s \in SUBSET S : s \notin T /\ Cardinality(s) = m
  BY <1>4
<1>6. ASSUME NEW x \in s PROVE s \ {x} \in T
  <2>1. s \ {x} \in SUBSET S /\ Cardinality(s \ {x}) = m - 1
    BY <1>2, <1>5, FS_RemoveElement
  <2>2. m - 1 \in Nat
    BY <1>2, <2>1
  <2>3. QED
    BY <1>4, <2>1, <2>2
<1>7. QED
  BY <1>5, <1>6

-----------------------------------------------------------------------------
(* The sum of a function over a finite set. *)

Chosen(s) == CHOOSE x \in s : TRUE
SumStep(F, g, s) == IF s = {} THEN 0 ELSE F[Chosen(s)] + g[s \ {Chosen(s)}]
Sums(F, S, g) == g = [s \in SUBSET S |-> SumStep(F, g, s)]

LEMMA SumIsRecursive ==
  ASSUME NEW F, NEW S
  PROVE  SumFunctionOnSet(F, S) = (CHOOSE g : Sums(F, S, g))[S]
  BY Zenon DEF SumFunctionOnSet, FoldFunctionOnSet, MapThenFoldSet, Sums, SumStep, Chosen

LEMMA RecursionExists ==
  ASSUME NEW F, NEW S, IsFiniteSet(S)
  PROVE  \E g : Sums(F, S, g)
<1> DEFINE Upto(n) == \E g : \A s \in SUBSET S : Cardinality(s) <= n => g[s] = SumStep(F, g, s)
<1>1. \A s \in SUBSET S : IsFiniteSet(s) /\ Cardinality(s) \in Nat /\ Cardinality(s) <= Cardinality(S)
  BY FS_Subset, FS_CardinalityType
<1>2. Upto(0)
  <2>1. \A s \in SUBSET S : Cardinality(s) <= 0 => s = {}
    BY <1>1, FS_EmptySet
  <2>2. \A s \in SUBSET S : Cardinality(s) <= 0 => [t \in SUBSET S |-> 0][s] = SumStep(F, [t \in SUBSET S |-> 0], s)
    BY <2>1 DEF SumStep
  <2>3. QED
    BY <2>2
<1>3. ASSUME NEW n \in Nat, Upto(n) PROVE Upto(n + 1)
  <2>1. PICK g : \A s \in SUBSET S : Cardinality(s) <= n => g[s] = SumStep(F, g, s)
    BY <1>3
  <2> DEFINE h == [s \in SUBSET S |-> SumStep(F, g, s)]
  <2>2. ASSUME NEW s \in SUBSET S, Cardinality(s) <= n + 1 PROVE h[s] = SumStep(F, h, s)
    <3>1. CASE s = {}
      BY <3>1 DEF SumStep
    <3>2. CASE s # {}
      <4>1. Chosen(s) \in s
        BY <3>2 DEF Chosen
      <4>2. s \ {Chosen(s)} \in SUBSET S /\ Cardinality(s \ {Chosen(s)}) <= n
        BY <1>1, <2>2, <4>1, FS_RemoveElement
      <4>3. h[s \ {Chosen(s)}] = g[s \ {Chosen(s)}]
        BY <2>1, <4>2
      <4>4. QED
        BY <3>2, <4>3 DEF SumStep
    <3>3. QED
      BY <3>1, <3>2
  <2>3. QED
    BY <2>2
<1>4. Upto(Cardinality(S))
  <2>1. Nat \subseteq {n \in Nat : Upto(n)}
    <3> HIDE DEF Upto
    <3>1. 0 \in {n \in Nat : Upto(n)}
      BY <1>2
    <3>2. \A n \in Nat : n \in {m \in Nat : Upto(m)} => n + 1 \in {m \in Nat : Upto(m)}
      BY <1>3
    <3>3. QED
      BY <3>1, <3>2, AllNaturals
  <2>2. Cardinality(S) \in Nat
    BY FS_CardinalityType
  <2>3. QED
    BY <2>1, <2>2
<1>5. PICK g : \A s \in SUBSET S : g[s] = SumStep(F, g, s)
  BY <1>1, <1>4
<1> DEFINE h == [s \in SUBSET S |-> SumStep(F, g, s)]
<1>6. ASSUME NEW s \in SUBSET S PROVE SumStep(F, g, s) = SumStep(F, h, s)
  <2>1. s # {} => s \ {Chosen(s)} \in SUBSET S
    OBVIOUS
  <2>2. QED
    BY <1>5, <2>1 DEF SumStep
<1>7. Sums(F, S, h)
  <2> HIDE DEF h
  <2>1. h = [s \in SUBSET S |-> SumStep(F, g, s)]
    BY DEF h
  <2>2. QED
    BY <1>6, <2>1 DEF Sums
<1>8. QED
  BY <1>7

\* Two such functions agree on the sets both are defined for.
LEMMA RecursionUnique ==
  ASSUME NEW F, NEW S, NEW T, NEW g, NEW h, NEW s \in SUBSET (S \cap T),
         IsFiniteSet(s), Sums(F, S, g), Sums(F, T, h)
  PROVE  g[s] = h[s]
<1> DEFINE Agree == {t \in SUBSET s : g[t] = h[t]}
<1>1. ASSUME NEW t \in SUBSET s, \A x \in t : t \ {x} \in Agree
      PROVE  t \in Agree
  <2>1. g[t] = SumStep(F, g, t) /\ h[t] = SumStep(F, h, t)
    BY DEF Sums
  <2>2. t # {} => Chosen(t) \in t
    BY DEF Chosen
  <2>3. QED
    BY <1>1, <2>1, <2>2 DEF SumStep
<1>2. s \in Agree
  <2> HIDE DEF Agree
  <2>1. QED
    BY <1>1, AllSubsets
<1>3. QED
  BY <1>2

LEMMA SumEquation ==
  ASSUME NEW F, NEW S, IsFiniteSet(S)
  PROVE  /\ S = {} => SumFunctionOnSet(F, S) = 0
         /\ S # {} => /\ Chosen(S) \in S
                      /\ SumFunctionOnSet(F, S) =
                            F[Chosen(S)] + SumFunctionOnSet(F, S \ {Chosen(S)})
<1> DEFINE g == CHOOSE f : Sums(F, S, f)
<1>1. Sums(F, S, g) /\ SumFunctionOnSet(F, S) = g[S]
  <2>1. SumFunctionOnSet(F, S) = g[S]
    BY SumIsRecursive
  <2>2. \E f : Sums(F, S, f)
    BY RecursionExists
  <2>3. Sums(F, S, g)
    BY <2>2
  <2>4. QED
    BY <2>1, <2>3
<1>2. ASSUME S # {}
      PROVE  Chosen(S) \in S /\ g[S \ {Chosen(S)}] = SumFunctionOnSet(F, S \ {Chosen(S)})
  <2>1. Chosen(S) \in S
    BY <1>2 DEF Chosen
  <2> DEFINE R == S \ {Chosen(S)}
             h == CHOOSE f : Sums(F, R, f)
  <2>2. IsFiniteSet(R)
    BY FS_Subset
  <2>3. Sums(F, R, h) /\ SumFunctionOnSet(F, R) = h[R]
    <3>1. SumFunctionOnSet(F, R) = h[R]
      BY SumIsRecursive
    <3>2. \E f : Sums(F, R, f)
      BY <2>2, RecursionExists
    <3>3. Sums(F, R, h)
      BY <3>2
    <3>4. QED
      BY <3>1, <3>3
  <2>4. R \in SUBSET (S \cap R)
    OBVIOUS
  <2>5. g[R] = h[R]
    <3> HIDE DEF g, h, R
    <3>1. QED
      BY <1>1, <2>2, <2>3, <2>4, RecursionUnique
  <2>6. QED
    BY <2>1, <2>3, <2>5
<1>3. g[S] = SumStep(F, g, S)
  <2> HIDE DEF g
  <2>1. QED
    BY <1>1 DEF Sums
<1>4. QED
  BY <1>1, <1>2, <1>3 DEF SumStep

\* The empty sum.
LEMMA SumEmpty == ASSUME NEW F PROVE SumFunctionOnSet(F, {}) = 0
  BY SumEquation, FS_EmptySet

\* A sum of integers is an integer.
LEMMA SumInt ==
  ASSUME NEW F, NEW S, IsFiniteSet(S), \A x \in S : F[x] \in Int
  PROVE  SumFunctionOnSet(F, S) \in Int
<1> DEFINE Good == {s \in SUBSET S : SumFunctionOnSet(F, s) \in Int}
<1>1. ASSUME NEW s \in SUBSET S, \A x \in s : s \ {x} \in Good
      PROVE  s \in Good
  <2>1. IsFiniteSet(s)
    BY FS_Subset
  <2>2. CASE s = {}
    BY <2>2, SumEmpty
  <2>3. CASE s # {}
    <3>1. /\ Chosen(s) \in s
          /\ SumFunctionOnSet(F, s) = F[Chosen(s)] + SumFunctionOnSet(F, s \ {Chosen(s)})
      BY <2>1, <2>3, SumEquation
    <3>2. QED
      BY <1>1, <3>1
  <2>4. QED
    BY <2>2, <2>3
<1>2. S \in Good
  <2> HIDE DEF Good
  <2>1. QED
    BY <1>1, AllSubsets
<1>3. QED
  BY <1>2

\* Any element can be taken out first: the order does not matter.
LEMMA SumRemove ==
  ASSUME NEW F, NEW S, IsFiniteSet(S), \A x \in S : F[x] \in Int, NEW z \in S
  PROVE  SumFunctionOnSet(F, S) = F[z] + SumFunctionOnSet(F, S \ {z})
<1> DEFINE Good == {s \in SUBSET S :
                       \A y \in s : SumFunctionOnSet(F, s) = F[y] + SumFunctionOnSet(F, s \ {y})}
<1>1. ASSUME NEW s \in SUBSET S, \A x \in s : s \ {x} \in Good
      PROVE  s \in Good
  <2>1. SUFFICES ASSUME NEW y \in s
                 PROVE  SumFunctionOnSet(F, s) = F[y] + SumFunctionOnSet(F, s \ {y})
    OBVIOUS
  <2>2. IsFiniteSet(s) /\ IsFiniteSet(s \ {y})
    BY FS_Subset
  <2> DEFINE c == Chosen(s)
  <2>3. c \in s /\ SumFunctionOnSet(F, s) = F[c] + SumFunctionOnSet(F, s \ {c})
    BY <2>2, SumEquation
  <2> HIDE DEF c
  <2>4. CASE y = c
    BY <2>3, <2>4
  <2>5. CASE y # c
    <3> DEFINE r == SumFunctionOnSet(F, (s \ {y}) \ {c})
    <3>1. (s \ {c}) \ {y} = (s \ {y}) \ {c}
      OBVIOUS
    <3>2. SumFunctionOnSet(F, s \ {c}) = F[y] + r
      BY <1>1, <2>3, <2>5, <3>1
    <3>3. SumFunctionOnSet(F, s \ {y}) = F[c] + r
      BY <1>1, <2>3, <2>5
    <3>4. r \in Int
      <4>1. IsFiniteSet((s \ {y}) \ {c}) /\ (s \ {y}) \ {c} \subseteq S
        BY <2>2, FS_Subset
      <4>2. QED
        BY <4>1, SumInt
    <3>5. F[y] \in Int /\ F[c] \in Int
      BY <2>3
    <3> HIDE DEF r
    <3>6. F[c] + (F[y] + r) = F[y] + (F[c] + r)
      BY <3>4, <3>5
    <3>7. QED
      BY <2>3, <3>2, <3>3, <3>6
  <2>6. QED
    BY <2>4, <2>5
<1>2. S \in Good
  <2> HIDE DEF Good
  <2>1. QED
    BY <1>1, AllSubsets
<1>3. QED
  BY <1>2

\* One more element.
LEMMA SumAdd ==
  ASSUME NEW F, NEW S, IsFiniteSet(S), NEW z, z \notin S, \A x \in S \cup {z} : F[x] \in Int
  PROVE  SumFunctionOnSet(F, S \cup {z}) = F[z] + SumFunctionOnSet(F, S)
<1>1. IsFiniteSet(S \cup {z}) /\ (S \cup {z}) \ {z} = S
  BY FS_AddElement
<1>2. QED
  BY <1>1, SumRemove

\* Functions that agree on a set have the same sum over it.
LEMMA SumSame ==
  ASSUME NEW F, NEW G, NEW S, IsFiniteSet(S), \A x \in S : F[x] = G[x]
  PROVE  SumFunctionOnSet(F, S) = SumFunctionOnSet(G, S)
<1> DEFINE Good == {s \in SUBSET S : SumFunctionOnSet(F, s) = SumFunctionOnSet(G, s)}
<1>1. ASSUME NEW s \in SUBSET S, \A x \in s : s \ {x} \in Good
      PROVE  s \in Good
  <2>1. IsFiniteSet(s)
    BY FS_Subset
  <2>2. CASE s = {}
    BY <2>2, SumEmpty
  <2>3. CASE s # {}
    <3>1. /\ Chosen(s) \in s
          /\ SumFunctionOnSet(F, s) = F[Chosen(s)] + SumFunctionOnSet(F, s \ {Chosen(s)})
          /\ SumFunctionOnSet(G, s) = G[Chosen(s)] + SumFunctionOnSet(G, s \ {Chosen(s)})
      BY <2>1, <2>3, SumEquation
    <3>2. QED
      BY <1>1, <3>1
  <2>4. QED
    BY <2>2, <2>3
<1>2. S \in Good
  <2> HIDE DEF Good
  <2>1. QED
    BY <1>1, AllSubsets
<1>3. QED
  BY <1>2

\* The sum over a set is that over a part and that over the rest.
LEMMA SumSplit ==
  ASSUME NEW F, NEW S, IsFiniteSet(S), \A x \in S : F[x] \in Int, NEW T \in SUBSET S
  PROVE  SumFunctionOnSet(F, S) = SumFunctionOnSet(F, T) + SumFunctionOnSet(F, S \ T)
<1> DEFINE Good == {t \in SUBSET S :
                      SumFunctionOnSet(F, S) = SumFunctionOnSet(F, t) + SumFunctionOnSet(F, S \ t)}
<1>1. ASSUME NEW t \in SUBSET T, \A x \in t : t \ {x} \in Good
      PROVE  t \in Good
  <2>1. IsFiniteSet(t) /\ IsFiniteSet(S \ t) /\ t \subseteq S
    BY FS_Subset
  <2>2. CASE t = {}
    <3>1. S \ t = S /\ SumFunctionOnSet(F, S) \in Int
      BY <2>2, SumInt
    <3>2. QED
      BY <2>2, <3>1, SumEmpty
  <2>3. CASE t # {}
    <3>1. PICK x \in t : TRUE
      BY <2>3
    <3>2. SumFunctionOnSet(F, t) = F[x] + SumFunctionOnSet(F, t \ {x})
      BY <2>1, SumRemove
    <3>3. /\ S \ (t \ {x}) = (S \ t) \cup {x} /\ x \notin S \ t
      BY <2>1
    <3>4. SumFunctionOnSet(F, S \ (t \ {x})) = F[x] + SumFunctionOnSet(F, S \ t)
      BY <2>1, <3>3, SumAdd
    <3>5. SumFunctionOnSet(F, S) = SumFunctionOnSet(F, t \ {x}) + SumFunctionOnSet(F, S \ (t \ {x}))
      BY <1>1
    <3>6. /\ SumFunctionOnSet(F, t \ {x}) \in Int /\ SumFunctionOnSet(F, S \ t) \in Int
          /\ F[x] \in Int
      <4>1. IsFiniteSet(t \ {x})
        BY <2>1, FS_Subset
      <4>2. QED
        BY <2>1, <4>1, SumInt
    <3>7. QED
      BY <2>1, <3>2, <3>4, <3>5, <3>6
  <2>4. QED
    BY <2>2, <2>3
<1>2. T \in Good
  <2>1. IsFiniteSet(T)
    BY FS_Subset
  <2> HIDE DEF Good
  <2>2. QED
    BY <1>1, <2>1, AllSubsets
<1>3. QED
  BY <1>2

\* Terms between 0 and a bound.
LEMMA SumBound ==
  ASSUME NEW F, NEW S, IsFiniteSet(S), NEW B \in Nat, \A x \in S : F[x] \in 0..B
  PROVE  SumFunctionOnSet(F, S) \in 0 .. (Cardinality(S) * B)
<1> DEFINE Good == {s \in SUBSET S : SumFunctionOnSet(F, s) \in 0 .. (Cardinality(s) * B)}
<1>1. ASSUME NEW s \in SUBSET S, \A x \in s : s \ {x} \in Good
      PROVE  s \in Good
  <2>1. IsFiniteSet(s) /\ Cardinality(s) \in Nat
    BY FS_Subset, FS_CardinalityType
  <2>2. CASE s = {}
    <3>1. Cardinality(s) = 0 /\ 0 \in 0 .. (0 * B)
      BY <2>2, FS_EmptySet
    <3>2. QED
      BY <2>2, <3>1, SumEmpty
  <2>3. CASE s # {}
    <3>1. PICK x \in s : TRUE
      BY <2>3
    <3>2. SumFunctionOnSet(F, s) = F[x] + SumFunctionOnSet(F, s \ {x})
      BY <2>1, SumRemove
    <3>3. Cardinality(s \ {x}) = Cardinality(s) - 1
      BY <2>1, FS_RemoveElement
    <3>4. SumFunctionOnSet(F, s \ {x}) \in 0 .. ((Cardinality(s) - 1) * B)
      BY <1>1, <3>3
    <3>5. (Cardinality(s) - 1) * B = Cardinality(s) * B - B
      BY <2>1
    <3>6. QED
      BY <2>1, <3>2, <3>4, <3>5
  <2>4. QED
    BY <2>2, <2>3
<1>2. S \in Good
  <2> HIDE DEF Good
  <2>1. QED
    BY <1>1, AllSubsets
<1>3. QED
  BY <1>2

-----------------------------------------------------------------------------
(* Finite sets in order. *)

\* A finite, non-empty set has an element with the largest key.
LEMMA LargestKey ==
  ASSUME NEW S, IsFiniteSet(S), S # {}, NEW K, \A x \in S : K[x] \in Int
  PROVE  \E m \in S : \A x \in S : K[x] <= K[m]
<1> DEFINE Good == {s \in SUBSET S : s = {} \/ \E m \in s : \A x \in s : K[x] <= K[m]}
<1>1. ASSUME NEW s \in SUBSET S, \A x \in s : s \ {x} \in Good
      PROVE  s \in Good
  <2>1. SUFFICES ASSUME s # {} PROVE \E m \in s : \A x \in s : K[x] <= K[m]
    OBVIOUS
  <2>2. PICK y \in s : TRUE
    BY <2>1
  <2>3. CASE s \ {y} = {}
    <3>1. \A x \in s : x = y
      BY <2>2, <2>3
    <3>2. K[y] \in Int
      BY <2>2
    <3>3. QED
      BY <2>2, <3>1, <3>2
  <2>4. CASE s \ {y} # {}
    <3>1. PICK m \in s \ {y} : \A x \in s \ {y} : K[x] <= K[m]
      BY <1>1, <2>2, <2>4
    <3>2. K[y] \in Int /\ \A x \in s : x = y \/ K[x] <= K[m]
      BY <2>2, <3>1
    <3>3. K[m] \in Int
      BY <3>1
    <3>4. CASE K[y] <= K[m]
      BY <3>1, <3>2, <3>4
    <3>5. CASE K[m] <= K[y]
      <4>1. \A x \in s : K[x] \in Int
        OBVIOUS
      <4>2. \A x \in s : K[x] <= K[y]
        BY <3>2, <3>3, <3>5, <4>1
      <4>3. QED
        BY <2>2, <4>2
    <3>6. QED
      BY <3>2, <3>3, <3>4, <3>5
  <2>5. QED
    BY <2>3, <2>4
<1>2. S \in Good
  <2> HIDE DEF Good
  <2>1. QED
    BY <1>1, AllSubsets
<1>3. QED
  BY <1>2

\* A finite set whose elements have different keys can be listed by them.
Ascending(s, K) == \A j, k \in DOMAIN s : j < k => K[s[j]] < K[s[k]]

LEMMA AscendingExists ==
  ASSUME NEW S, IsFiniteSet(S), NEW K, \A x \in S : K[x] \in Int,
         \A x, y \in S : K[x] = K[y] => x = y
  PROVE  \E s \in [1 .. Cardinality(S) -> S] : Ascending(s, K)
<1> DEFINE Good == {t \in SUBSET S : \E s \in [1 .. Cardinality(t) -> t] : Ascending(s, K)}
<1>1. ASSUME NEW t \in SUBSET S, \A x \in t : t \ {x} \in Good
      PROVE  t \in Good
  <2>1. IsFiniteSet(t) /\ Cardinality(t) \in Nat
    BY FS_Subset, FS_CardinalityType
  <2>2. SUFFICES \E s \in [1 .. Cardinality(t) -> t] : Ascending(s, K)
    OBVIOUS
  <2>3. CASE t = {}
    <3>1. Cardinality(t) = 0
      BY <2>3, FS_EmptySet
    <3>2. [k \in 1..0 |-> 0] \in [1..0 -> t] /\ Ascending([k \in 1..0 |-> 0], K)
      BY DEF Ascending
    <3>3. QED
      BY <3>1, <3>2
  <2>4. CASE t # {}
    <3>1. PICK m \in t : \A x \in t : K[x] <= K[m]
      BY <2>1, <2>4, LargestKey
    <3> DEFINE n == Cardinality(t)
    <3>2. n \in Nat \ {0} /\ Cardinality(t \ {m}) = n - 1
      BY <2>1, <3>1, FS_RemoveElement, FS_EmptySet
    <3>3. PICK s \in [1 .. (n - 1) -> t \ {m}] : Ascending(s, K)
      BY <1>1, <3>1, <3>2
    <3> DEFINE r == [k \in 1..n |-> IF k = n THEN m ELSE s[k]]
    <3> HIDE DEF n
    <3>4. r \in [1..n -> t]
      BY <3>1, <3>2, <3>3
    <3>5. ASSUME NEW j \in 1..n, NEW k \in 1..n, j < k PROVE K[r[j]] < K[r[k]]
      <4>1. j \in 1 .. (n - 1) /\ r[j] = s[j] /\ s[j] \in t \ {m}
        BY <3>2, <3>3, <3>5
      <4>2. CASE k = n
        <5>1. /\ K[s[j]] \in Int /\ K[m] \in Int /\ K[s[j]] # K[m] /\ K[s[j]] <= K[m]
          BY <3>1, <4>1
        <5>2. QED
          BY <4>1, <4>2, <5>1
      <4>3. CASE k # n
        <5>1. k \in 1 .. (n - 1) /\ r[k] = s[k]
          BY <3>2, <4>3
        <5>2. QED
          BY <3>3, <3>5, <4>1, <5>1 DEF Ascending
      <4>4. QED
        BY <4>2, <4>3
    <3>6. Ascending(r, K)
      BY <3>5 DEF Ascending
    <3>7. QED
      BY <3>4, <3>6 DEF n
  <2>5. QED
    BY <2>3, <2>4
<1>2. S \in Good
  <2> HIDE DEF Good
  <2>1. QED
    BY <1>1, AllSubsets
<1>3. QED
  BY <1>2

\* Such a list has every element of the set.
LEMMA AscendingComplete ==
  ASSUME NEW S, IsFiniteSet(S), NEW K, \A x \in S : K[x] \in Int,
         NEW s \in [1 .. Cardinality(S) -> S], Ascending(s, K)
  PROVE  \A x \in S : \E k \in 1 .. Cardinality(S) : s[k] = x
<1>1. Cardinality(S) \in Nat
  BY FS_CardinalityType
<1>2. ASSUME NEW j \in 1 .. Cardinality(S), NEW k \in 1 .. Cardinality(S), s[j] = s[k]
      PROVE  j = k
  <2>1. K[s[j]] \in Int
    OBVIOUS
  <2>2. ~ (j < k) /\ ~ (k < j)
    BY <1>2, <2>1 DEF Ascending
  <2>3. QED
    BY <1>1, <2>2
<1>3. s \in Injection(1 .. Cardinality(S), S)
  BY <1>2, Fun_IsInj
<1>4. Cardinality(1 .. Cardinality(S)) = Cardinality(S)
  BY <1>1, FS_Interval
<1>5. s \in Surjection(1 .. Cardinality(S), S)
  BY <1>3, <1>4, FS_Injection
<1>6. QED
  BY <1>5 DEF Surjection

-----------------------------------------------------------------------------
(* FlattenSeq, a recursive function over the positions of a sequence. *)

FlattenStep(seqs, g, n) == IF n = 1 THEN seqs[n] ELSE g[n - 1] \o seqs[n]
Flattens(seqs, g) == g = [n \in 1 .. Len(seqs) |-> FlattenStep(seqs, g, n)]

LEMMA FlattensExist ==
  ASSUME NEW S, NEW seqs \in Seq(S), seqs # <<>> PROVE \E g : Flattens(seqs, g)
<1> DEFINE N == Len(seqs)
           Upto(n) == \E g : \A i \in 1 .. (n + 1) : g[i] = FlattenStep(seqs, g, i)
           good == {n \in Nat : Upto(n)}
<1>1. N \in Nat /\ N # 0
  OBVIOUS
<1> HIDE DEF N
<1>2. Upto(0)
  <2>1. \A i \in 1 .. (0 + 1) : i = 1
    OBVIOUS
  <2>2. \A i \in 1 .. (0 + 1) : [j \in {1} |-> seqs[j]][i] = FlattenStep(seqs, [j \in {1} |-> seqs[j]], i)
    BY <2>1 DEF FlattenStep
  <2>3. QED
    BY <2>2
<1>3. ASSUME NEW n \in Nat, Upto(n) PROVE Upto(n + 1)
  <2>1. PICK g : \A i \in 1 .. (n + 1) : g[i] = FlattenStep(seqs, g, i)
    BY <1>3
  <2> DEFINE h == [i \in 1 .. (n + 2) |-> FlattenStep(seqs, g, i)]
  <2>2. \A i \in 1 .. (n + 2) : h[i] = FlattenStep(seqs, g, i)
    OBVIOUS
  <2> HIDE DEF h
  <2>3. \A i \in 1 .. (n + 1) : i \in 1 .. (n + 2) /\ h[i] = g[i]
    BY <2>1, <2>2
  <2>4. \A i \in 1 .. (n + 2) : i # 1 => i - 1 \in 1 .. (n + 1)
    OBVIOUS
  <2>5. \A i \in 1 .. (n + 2) : h[i] = FlattenStep(seqs, h, i)
    BY <2>2, <2>3, <2>4 DEF FlattenStep
  <2>6. (n + 1) + 1 = n + 2
    OBVIOUS
  <2>7. QED
    BY <2>5, <2>6
<1>4. 0 \in good /\ \A n \in Nat : n \in good => n + 1 \in good
  <2> HIDE DEF Upto
  <2>1. QED
    BY <1>2, <1>3
<1>5. Upto(N - 1)
  <2> HIDE DEF good
  <2>1. Nat \subseteq good
    BY <1>4, AllNaturals
  <2>2. N - 1 \in good
    BY <1>1, <2>1
  <2>3. QED
    BY <2>2 DEF good
<1>6. PICK g : \A i \in 1..N : g[i] = FlattenStep(seqs, g, i)
  <2>1. (N - 1) + 1 = N
    BY <1>1
  <2>2. QED
    BY <1>5, <2>1
<1> DEFINE h == [i \in 1..N |-> FlattenStep(seqs, g, i)]
<1>7. \A i \in 1..N : h[i] = g[i]
  BY <1>6
<1>8. \A i \in 1..N : i # 1 => i - 1 \in 1..N
  BY <1>1
<1>9. h = [i \in 1..N |-> FlattenStep(seqs, g, i)]
  OBVIOUS
<1> HIDE DEF h
<1>10. \A i \in 1..N : FlattenStep(seqs, g, i) = FlattenStep(seqs, h, i)
  BY <1>7, <1>8 DEF FlattenStep
<1>11. Flattens(seqs, h)
  BY <1>9, <1>10 DEF Flattens, N
<1>12. QED
  BY <1>11

LEMMA FlattenAt ==
  ASSUME NEW S, NEW seqs \in Seq(Seq(S)), seqs # <<>>, NEW g, Flattens(seqs, g)
  PROVE  \A n \in 1 .. Len(seqs) :
            /\ g[n] \in Seq(S)
            /\ g[n] = IF n = 1 THEN seqs[n] ELSE g[n - 1] \o seqs[n]
<1> DEFINE N == Len(seqs)
           good == {n \in Nat : n + 1 <= N => g[n + 1] \in Seq(S)}
<1>1. N \in Nat /\ N # 0 /\ \A i \in 1..N : seqs[i] \in Seq(S)
  OBVIOUS
<1>2. \A n \in 1..N : g[n] = IF n = 1 THEN seqs[n] ELSE g[n - 1] \o seqs[n]
  BY DEF Flattens, FlattenStep
<1> HIDE DEF N
<1>3. 0 \in good
  BY <1>1, <1>2
<1>4. ASSUME NEW n \in Nat, n \in good PROVE n + 1 \in good
  <2>1. SUFFICES ASSUME (n + 1) + 1 <= N PROVE g[(n + 1) + 1] \in Seq(S)
    OBVIOUS
  <2>2. (n + 1) + 1 \in 1..N /\ (n + 1) + 1 # 1 /\ ((n + 1) + 1) - 1 = n + 1 /\ n + 1 <= N
    BY <1>1, <2>1
  <2>3. g[(n + 1) + 1] = g[n + 1] \o seqs[(n + 1) + 1]
    BY <1>2, <2>2
  <2>4. g[n + 1] \in Seq(S) /\ seqs[(n + 1) + 1] \in Seq(S)
    BY <1>1, <1>4, <2>2
  <2>5. QED
    BY <2>3, <2>4
<1>5. Nat \subseteq good
  <2> HIDE DEF good
  <2>1. QED
    BY <1>3, <1>4, AllNaturals
<1>6. ASSUME NEW n \in 1..N PROVE g[n] \in Seq(S)
  <2>1. n - 1 \in Nat /\ (n - 1) + 1 = n /\ n <= N
    BY <1>1
  <2>2. QED
    BY <1>5, <2>1
<1>7. QED
  BY <1>2, <1>6 DEF N

\* FlattenSeq, one sequence more at the end.
LEMMA FlattenAppend ==
  ASSUME NEW S, NEW seqs \in Seq(Seq(S))
  PROVE  /\ FlattenSeq(seqs) \in Seq(S)
         /\ seqs = <<>> => FlattenSeq(seqs) = <<>>
         /\ \A s \in Seq(S) : FlattenSeq(Append(seqs, s)) = FlattenSeq(seqs) \o s
<1> DEFINE N == Len(seqs)
<1>1. N \in Nat /\ DOMAIN seqs = 1..N /\ (N = 0 <=> seqs = <<>>)
  OBVIOUS
<1>2. ASSUME NEW t \in Seq(Seq(S)), t # <<>>
      PROVE  \E g : Flattens(t, g) /\ FlattenSeq(t) = g[Len(t)]
  <2> DEFINE g == CHOOSE f : Flattens(t, f)
  <2>1. FlattenSeq(t) = g[Len(t)]
    BY <1>2 DEF FlattenSeq, Flattens, FlattenStep
  <2>2. Flattens(t, g)
    BY <1>2, FlattensExist
  <2>3. QED
    BY <2>1, <2>2
<1>3. seqs = <<>> => FlattenSeq(seqs) = <<>>
  BY <1>1 DEF FlattenSeq
<1>4. FlattenSeq(seqs) \in Seq(S)
  <2>1. CASE seqs = <<>>
    BY <1>3, <2>1, EmptySeq
  <2>2. CASE seqs # <<>>
    <3>1. PICK g : Flattens(seqs, g) /\ FlattenSeq(seqs) = g[N]
      BY <1>2, <2>2
    <3>2. N \in 1..N
      BY <1>1, <2>2
    <3>3. QED
      BY <2>2, <3>1, <3>2, FlattenAt
  <2>3. QED
    BY <2>1, <2>2
<1>5. ASSUME NEW s \in Seq(S) PROVE FlattenSeq(Append(seqs, s)) = FlattenSeq(seqs) \o s
  <2> DEFINE t == Append(seqs, s)
  <2>1. /\ t \in Seq(Seq(S)) /\ t # <<>> /\ Len(t) = N + 1 /\ t[N + 1] = s
        /\ \A n \in 1..N : t[n] = seqs[n]
    <3> DEFINE Q == Seq(S)
    <3>1. seqs \in Seq(Q) /\ s \in Q
      OBVIOUS
    <3> HIDE DEF Q
    <3>2. QED
      BY <3>1, AppendProperties DEF Q
  <2> HIDE DEF t
  <2>2. PICK h : Flattens(t, h) /\ FlattenSeq(t) = h[Len(t)]
    BY <1>2, <2>1
  <2>3. \A n \in 1 .. (N + 1) : h[n] = IF n = 1 THEN t[n] ELSE h[n - 1] \o t[n]
    <3>1. \A n \in 1 .. Len(t) : h[n] = FlattenStep(t, h, n)
      BY <2>2 DEF Flattens
    <3>2. QED
      BY <2>1, <3>1 DEF FlattenStep
  <2>4. CASE N = 0
    <3>1. FlattenSeq(t) = s
      BY <2>1, <2>2, <2>3, <2>4
    <3>2. FlattenSeq(seqs) = <<>>
      BY <1>1, <1>3, <2>4
    <3>3. <<>> \o s = s
      BY ConcatEmptySeq
    <3>4. QED
      BY <3>1, <3>2, <3>3 DEF t
  <2>5. CASE N # 0
    <3>1. seqs # <<>>
      BY <1>1, <2>5
    <3>2. PICK g : Flattens(seqs, g) /\ FlattenSeq(seqs) = g[N]
      BY <1>2, <3>1
    <3>3. \A n \in 1..N : g[n] = IF n = 1 THEN seqs[n] ELSE g[n - 1] \o seqs[n]
      BY <3>1, <3>2, FlattenAt
    <3> DEFINE good == {n \in Nat : n + 1 <= N => g[n + 1] = h[n + 1]}
    <3>4. 0 \in good
      <4>1. 0 + 1 \in 1..N /\ 0 + 1 \in 1 .. (N + 1)
        BY <1>1, <2>5
      <4>2. QED
        BY <2>1, <2>3, <3>3, <4>1
    <3>5. ASSUME NEW n \in Nat, n \in good PROVE n + 1 \in good
      <4>1. SUFFICES ASSUME (n + 1) + 1 <= N PROVE g[(n + 1) + 1] = h[(n + 1) + 1]
        OBVIOUS
      <4> DEFINE m == (n + 1) + 1
      <4>2. m \in 1..N /\ m \in 1 .. (N + 1) /\ m # 1 /\ m - 1 = n + 1 /\ n + 1 <= N
        BY <1>1, <4>1
      <4>3. g[m - 1] = h[m - 1]
        BY <3>5, <4>2
      <4> HIDE DEF m
      <4>4. g[m] = g[m - 1] \o seqs[m]
        BY <3>3, <4>2
      <4>5. h[m] = h[m - 1] \o t[m]
        BY <2>3, <4>2
      <4>6. QED
        BY <2>1, <4>2, <4>3, <4>4, <4>5 DEF m
    <3>6. N - 1 \in good
      <4> HIDE DEF good
      <4>1. Nat \subseteq good
        BY <3>4, <3>5, AllNaturals
      <4>2. QED
        BY <1>1, <2>5, <4>1
    <3>7. g[N] = h[N]
      <4>1. (N - 1) + 1 = N
        BY <1>1
      <4>2. QED
        BY <3>6, <4>1
    <3>8. h[N + 1] = h[N] \o s
      <4>1. N + 1 \in 1 .. (N + 1) /\ N + 1 # 1 /\ (N + 1) - 1 = N
        BY <1>1, <2>5
      <4>2. h[N + 1] = h[(N + 1) - 1] \o t[N + 1]
        BY <2>3, <4>1
      <4>3. QED
        BY <2>1, <4>1, <4>2
    <3>9. QED
      BY <2>1, <2>2, <3>2, <3>7, <3>8 DEF t
  <2>6. QED
    BY <2>4, <2>5
<1>6. QED
  BY <1>3, <1>4, <1>5

\* FlattenSeq, one sequence more at the front.
LEMMA FlattenCons ==
  ASSUME NEW S, NEW s \in Seq(S), NEW seqs \in Seq(Seq(S))
  PROVE  FlattenSeq(<<s>> \o seqs) = s \o FlattenSeq(seqs)
<1>0. \A x, y, z \in Seq(S) : (x \o y) \o z = x \o (y \o z)
  BY ConcatAssociative
<1> DEFINE Right(t) == FlattenSeq(<<s>> \o t) = s \o FlattenSeq(t)
           good == {n \in Nat : \A t \in Seq(Seq(S)) : Len(t) = n => Right(t)}
<1>1. 0 \in good
  <2>1. ASSUME NEW t \in Seq(Seq(S)), Len(t) = 0 PROVE Right(t)
    <3>1. t = <<>> /\ FlattenSeq(t) = <<>>
      <4>1. t = <<>>
        BY <2>1
      <4>2. QED
        BY <4>1, FlattenAppend
    <3>2. <<s>> \o t = Append(<<>>, s) /\ <<>> \in Seq(Seq(S))
      BY <3>1
    <3>3. FlattenSeq(Append(<<>>, s)) = <<>> \o s
      BY <3>2, FlattenAppend
    <3>4. <<>> \o s = s /\ s \o <<>> = s
      BY ConcatEmptySeq
    <3>5. QED
      BY <3>1, <3>2, <3>3, <3>4
  <2>2. QED
    BY <2>1
<1>2. ASSUME NEW n \in Nat, n \in good PROVE n + 1 \in good
  <2>1. ASSUME NEW t \in Seq(Seq(S)), Len(t) = n + 1 PROVE Right(t)
    <3>1. PICK p \in Seq(Seq(S)), b \in Seq(S) : t = Append(p, b)
      <4> DEFINE Q == Seq(S)
      <4>1. t \in Seq(Q) /\ t # <<>>
        BY <2>1
      <4> HIDE DEF Q
      <4>2. \E p \in Seq(Q), b \in Q : t = Append(p, b)
        BY <4>1, SequenceEmptyOrAppend
      <4>3. QED
        BY <4>2 DEF Q
    <3>2. Len(p) = n
      BY <2>1, <3>1
    <3>3. Right(p)
      BY <1>2, <3>2
    <3>4. <<s>> \o t = Append(<<s>> \o p, b) /\ <<s>> \o p \in Seq(Seq(S))
      <4>1. <<s>> \in Seq(Seq(S)) /\ <<b>> \in Seq(Seq(S))
        OBVIOUS
      <4>2. (<<s>> \o p) \o <<b>> = <<s>> \o (p \o <<b>>)
        BY <4>1, ConcatAssociative
      <4>3. <<s>> \o p \in Seq(Seq(S))
        BY <4>1
      <4>4. Append(p, b) = p \o <<b>> /\ Append(<<s>> \o p, b) = (<<s>> \o p) \o <<b>>
        BY <4>3, AppendIsConcat
      <4>5. QED
        BY <3>1, <4>2, <4>3, <4>4
    <3>5. FlattenSeq(<<s>> \o t) = FlattenSeq(<<s>> \o p) \o b
      BY <3>4, FlattenAppend
    <3>6. FlattenSeq(t) = FlattenSeq(p) \o b /\ FlattenSeq(p) \in Seq(S)
      BY <3>1, FlattenAppend
    <3>7. (s \o FlattenSeq(p)) \o b = s \o (FlattenSeq(p) \o b)
      <4> DEFINE u == FlattenSeq(p)
      <4>1. s \in Seq(S) /\ u \in Seq(S) /\ b \in Seq(S)
        BY <3>6
      <4> HIDE DEF u
      <4>2. (s \o u) \o b = s \o (u \o b)
        BY <4>1, <1>0, Zenon
      <4>3. QED
        BY <4>2 DEF u
    <3>8. QED
      BY <3>3, <3>5, <3>6, <3>7
  <2> HIDE DEF Right
  <2>2. QED
    BY <2>1
<1>3. Len(seqs) \in good
  <2> HIDE DEF good
  <2>1. Nat \subseteq good
    BY <1>1, <1>2, AllNaturals
  <2>2. QED
    BY <2>1
<1>4. QED
  BY <1>3

=============================================================================
