--------------------------- MODULE RebalanceMoves ---------------------------
(***************************************************************************)
(* What the steps of Rebalance are made of: sums and other operators, the  *)
(* variables each step leaves alone, and the effect of every move of loads *)
(* on where the loads are and on the queue depths.                         *)
(*                                                                         *)
(* Total is a fold, a function chosen to satisfy a recursive equation; that *)
(* there is such a function is shown first.  Induction over the subsets of *)
(* a finite set is a minimal counterexample argument.                      *)
(***************************************************************************)
EXTENDS Rebalance, FiniteSetTheorems, WellFoundedInduction, TLAPS

-----------------------------------------------------------------------------
(* Induction, and the recursive function behind Total.                     *)

\* If a subset is in G whenever all subsets with one element less are, then
\* every subset of a finite set is in G.
LEMMA SubsetInduction ==
    ASSUME NEW S, IsFiniteSet(S), NEW G,
           \A T \in SUBSET S : (\A x \in T : T \ {x} \in G) => T \in G
    PROVE  \A T \in SUBSET S : T \in G
  <1> DEFINE B == {T \in SUBSET S : T \notin G}
  <1> SUFFICES ASSUME B # {} PROVE FALSE
    BY Zenon
  <1>1. FiniteSubsetsOf(S) = SUBSET S
    BY Zenon, FS_FiniteSubsetsOfFinite
  <1>2. IsWellFoundedOn(StrictSubsetOrdering(S), FiniteSubsetsOf(S))
    BY Zenon, FS_StrictSubsetOrderingWellFounded
  <1>3. IsWellFoundedOn(StrictSubsetOrdering(S), SUBSET S)
    BY Zenon, <1>1, <1>2
  <1>4. B \subseteq SUBSET S
    BY Zenon
  <1>5. \E T \in B : \A U \in B : ~(<<U, T>> \in StrictSubsetOrdering(S))
    <2> HIDE DEF B
    <2> QED
      BY Zenon, <1>3, <1>4, WFMin
  <1>6. PICK T \in B : \A U \in B : ~(<<U, T>> \in StrictSubsetOrdering(S))
    BY Zenon, <1>5
  <1>7. ASSUME NEW x \in T PROVE T \ {x} \in G
    <2>1. T \ {x} \in SUBSET S /\ T \in SUBSET S /\ T \ {x} \subseteq T /\ T \ {x} # T
      OBVIOUS
    <2>2. <<T \ {x}, T>> \in StrictSubsetOrdering(S)
      BY Zenon, <2>1 DEF StrictSubsetOrdering
    <2>3. T \ {x} \notin B
      BY <1>6, <2>2, Zenon
    <2> QED
      BY Zenon, <2>1, <2>3
  <1> QED
    BY Zenon, <1>6, <1>7

\* h is the function that MapThenFoldSet chooses to sum f over the subsets of S.
Sums(f, h, S) ==
    h = [s \in SUBSET S |-> IF s = {} THEN 0
                            ELSE f[CHOOSE x \in s : TRUE]
                                 + h[s \ {CHOOSE x \in s : TRUE}]]

LEMMA SumsUnique ==
    ASSUME NEW f, NEW A, IsFiniteSet(A), NEW B, NEW g, NEW h,
           Sums(f, g, A), Sums(f, h, B)
    PROVE  \A s \in SUBSET A : s \subseteq B => g[s] = h[s]
  <1> DEFINE G == {s \in SUBSET A : s \subseteq B => g[s] = h[s]}
  <1>1. ASSUME NEW s \in SUBSET A, \A x \in s : s \ {x} \in G
        PROVE  s \in G
    <2> SUFFICES ASSUME s \subseteq B PROVE g[s] = h[s]
      BY Zenon
    <2> DEFINE c == CHOOSE x \in s : TRUE
    <2>1. CASE s = {}
      BY Zenon, <2>1 DEF Sums
    <2>2. CASE s # {}
      <3>1. c \in s
        BY Zenon, <2>2
      <3>2. g[s] = f[c] + g[s \ {c}] /\ h[s] = f[c] + h[s \ {c}]
        BY Zenon, <2>2 DEF Sums
      <3>3. g[s \ {c}] = h[s \ {c}]
        BY <1>1, <3>1, Zenon
      <3> QED
        BY Zenon, <3>2, <3>3
    <2> QED
      BY Zenon, <2>1, <2>2
  <1>2. \A s \in SUBSET A : s \in G
    <2> HIDE DEF G
    <2> QED
      BY <1>1, SubsetInduction, Zenon
  <1> QED
    BY Zenon, <1>2

LEMMA SumsExists ==
    ASSUME NEW f, NEW S, IsFiniteSet(S)
    PROVE  \E h : Sums(f, h, S)
  <1> DEFINE G == {T \in SUBSET S : \E h : Sums(f, h, T)}
             ch(s) == CHOOSE x \in s : TRUE
  <1>1. ASSUME NEW T \in SUBSET S, \A x \in T : T \ {x} \in G
        PROVE  T \in G
    <2> DEFINE k(x) == CHOOSE h : Sums(f, h, T \ {x})
               h == [s \in SUBSET T |-> IF s = {} THEN 0
                                        ELSE f[ch(s)] + k(ch(s))[s \ {ch(s)}]]
    <2>1. ASSUME NEW x \in T PROVE Sums(f, k(x), T \ {x})
      <3>1. \E g : Sums(f, g, T \ {x})
        BY Zenon, <1>1
      <3> QED
        BY Zenon, <3>1
    <2>2. ASSUME NEW s \in SUBSET T, s # {}
          PROVE  k(ch(s))[s \ {ch(s)}] = h[s \ {ch(s)}]
      <3> DEFINE c == ch(s)
                 r == s \ {c}
                 d == ch(r)
      <3>1. c \in s
        BY Zenon, <2>2
      <3>2. r \in SUBSET T /\ r \in SUBSET (T \ {c})
        BY Zenon, <3>1
      <3>3. Sums(f, k(c), T \ {c})
        BY <2>1, <3>1, Zenon
      <3>4. CASE r = {}
        <4>1. k(c)[r] = 0
          BY <3>2, <3>3, <3>4, Zenon DEF Sums
        <4> QED
          BY <3>2, <3>4, <4>1
      <3>5. CASE r # {}
        <4>1. d \in r /\ d \in T
          BY Zenon, <3>5, <3>2
        <4>2. k(c)[r] = f[d] + k(c)[r \ {d}]
          <5> HIDE DEF k
          <5> QED BY <3>2, <3>3, <3>5 DEF Sums
        <4>3. h[r] = f[d] + k(d)[r \ {d}]
          <5> HIDE DEF k
          <5> QED BY Zenon, <3>2, <3>5
        <4>4. Sums(f, k(d), T \ {d})
          BY Zenon, <2>1, <4>1
        <4>5. r \ {d} \in SUBSET (T \ {c}) /\ r \ {d} \subseteq T \ {d}
          BY Zenon, <3>2
        <4>6. IsFiniteSet(T \ {c})
          BY Zenon, FS_Subset
        <4>7. k(c)[r \ {d}] = k(d)[r \ {d}]
          <5> HIDE DEF k, c, d, r
          <5> QED
            BY <3>3, <4>4, <4>5, <4>6, SumsUnique
        <4> QED
          BY Zenon, <4>2, <4>3, <4>7
      <3> QED
        BY Zenon, <3>4, <3>5
    <2>3. Sums(f, h, T)
      <3>1. \A s \in SUBSET T :
                h[s] = IF s = {} THEN 0 ELSE f[ch(s)] + h[s \ {ch(s)}]
        <4> SUFFICES ASSUME NEW s \in SUBSET T
                     PROVE h[s] = IF s = {} THEN 0 ELSE f[ch(s)] + h[s \ {ch(s)}]
          BY Zenon
        <4>1. h[s] = IF s = {} THEN 0 ELSE f[ch(s)] + k(ch(s))[s \ {ch(s)}]
          <5> HIDE DEF k
          <5> QED BY Zenon
        <4> HIDE DEF h
        <4> QED
          BY <2>2, <4>1, Zenon
      <3>2. h = [s \in SUBSET T |-> h[s]]
        <4> HIDE DEF k, ch
        <4> QED BY Zenon
      <3> HIDE DEF h
      <3> QED
        BY <3>1, <3>2, Zenon DEF Sums
    <2> HIDE DEF h
    <2> QED
      BY Zenon, <2>3
  <1>2. \A T \in SUBSET S : T \in G
    <2> HIDE DEF G
    <2> QED
      BY <1>1, SubsetInduction, Zenon
  <1> QED
    BY Zenon, <1>2

\* Total(f, S) is the value at S of that function.
LEMMA TotalSums ==
    ASSUME NEW f, NEW S, IsFiniteSet(S), NEW h, Sums(f, h, S)
    PROVE  Total(f, S) = h[S]
  <1> DEFINE g == CHOOSE iter : Sums(f, iter, S)
  <1>1. Total(f, S) = g[S]
    BY Zenon DEF Total, MapThenSumSet, MapThenFoldSet, Sums
  <1>2. Sums(f, g, S)
    BY Zenon
  <1> HIDE DEF g
  <1> QED
    BY <1>1, <1>2, SumsUnique

-----------------------------------------------------------------------------
(* Total.                                                                  *)

LEMMA TotalEmpty == ASSUME NEW f PROVE Total(f, {}) = 0
  <1>1. IsFiniteSet({})
    BY Zenon, FS_EmptySet
  <1>2. PICK h : Sums(f, h, {})
    BY Zenon, <1>1, SumsExists
  <1>3. Total(f, {}) = h[{}]
    BY Zenon, <1>1, <1>2, TotalSums
  <1> QED
    BY Zenon, <1>2, <1>3 DEF Sums

\* The element chosen first is added to the total of the others.
LEMMA TotalChosen ==
    ASSUME NEW f, NEW S, IsFiniteSet(S), S # {}
    PROVE  LET c == CHOOSE x \in S : TRUE
           IN  Total(f, S) = f[c] + Total(f, S \ {c})
  <1> DEFINE c == CHOOSE x \in S : TRUE
             R == S \ {c}
  <1>1. IsFiniteSet(R)
    BY Zenon, FS_Subset
  <1>2. PICK h : Sums(f, h, S)
    BY Zenon, SumsExists
  <1>3. PICK g : Sums(f, g, R)
    BY Zenon, <1>1, SumsExists
  <1>4. Total(f, S) = h[S]
    BY Zenon, <1>2, TotalSums
  <1>5. Total(f, R) = g[R]
    BY Zenon, <1>1, <1>3, TotalSums
  <1>6. h[S] = f[c] + h[R]
    BY Zenon, <1>2 DEF Sums
  <1>7. g[R] = h[R]
    <2>1. R \in SUBSET R /\ R \subseteq S
      BY Zenon
    <2> HIDE DEF R, c
    <2> QED
      BY <1>1, <1>2, <1>3, <2>1, SumsUnique
  <1> QED
    BY Zenon, <1>4, <1>5, <1>6, <1>7

LEMMA TotalNat ==
    ASSUME NEW f, NEW S, IsFiniteSet(S), \A x \in S : f[x] \in Nat
    PROVE  Total(f, S) \in Nat
  <1> DEFINE G == {T \in SUBSET S : Total(f, T) \in Nat}
  <1>1. ASSUME NEW T \in SUBSET S, \A x \in T : T \ {x} \in G
        PROVE  T \in G
    <2>1. CASE T = {}
      BY <2>1, TotalEmpty
    <2>2. CASE T # {}
      <3> DEFINE c == CHOOSE x \in T : TRUE
      <3>1. c \in T
        BY Zenon, <2>2
      <3>2. IsFiniteSet(T)
        BY Zenon, FS_Subset
      <3>3. Total(f, T) = f[c] + Total(f, T \ {c})
        BY <2>2, <3>2, TotalChosen, Zenon
      <3>4. Total(f, T \ {c}) \in Nat /\ f[c] \in Nat
        BY <1>1, <3>1, Zenon
      <3> QED
        BY <3>3, <3>4
    <2> QED
      BY Zenon, <2>1, <2>2
  <1>2. \A T \in SUBSET S : T \in G
    <2> HIDE DEF G
    <2> QED
      BY <1>1, SubsetInduction, Zenon
  <1> QED
    BY Zenon, <1>2

\* Any element may be added last: the order does not matter.
LEMMA TotalRemove ==
    ASSUME NEW f, NEW S, IsFiniteSet(S), \A x \in S : f[x] \in Nat,
           NEW y \in S
    PROVE  Total(f, S) = f[y] + Total(f, S \ {y})
  <1> DEFINE G == {T \in SUBSET S : \A z \in T :
                      Total(f, T) = f[z] + Total(f, T \ {z})}
  <1>1. ASSUME NEW T \in SUBSET S, \A x \in T : T \ {x} \in G
        PROVE  T \in G
    <2> SUFFICES ASSUME NEW z \in T
                 PROVE  Total(f, T) = f[z] + Total(f, T \ {z})
      BY Zenon
    <2> DEFINE c == CHOOSE x \in T : TRUE
    <2>1. c \in T
      BY Zenon
    <2>2. IsFiniteSet(T)
      BY Zenon, FS_Subset
    <2>3. Total(f, T) = f[c] + Total(f, T \ {c})
      BY <2>2, TotalChosen, Zenon
    <2>4. CASE z = c
      BY Zenon, <2>3, <2>4
    <2>5. CASE z # c
      <3> HIDE DEF c
      <3>1. Total(f, T \ {c}) = f[z] + Total(f, (T \ {c}) \ {z})
        BY Zenon, <1>1, <2>1, <2>5
      <3>2. Total(f, T \ {z}) = f[c] + Total(f, (T \ {z}) \ {c})
        BY Zenon, <1>1, <2>1, <2>5
      <3>3. (T \ {c}) \ {z} = (T \ {z}) \ {c}
        BY Zenon
      <3>4. Total(f, (T \ {z}) \ {c}) \in Nat
        <4>1. IsFiniteSet((T \ {z}) \ {c})
          BY Zenon, <2>2, FS_Subset
        <4> QED
          BY Zenon, <4>1, TotalNat
      <3>5. f[z] \in Nat /\ f[c] \in Nat
        BY Zenon, <2>1
      <3> QED
        BY <2>3, <3>1, <3>2, <3>3, <3>4, <3>5
    <2> QED
      BY Zenon, <2>4, <2>5
  <1>2. \A T \in SUBSET S : T \in G
    <2> HIDE DEF G
    <2> QED
      BY <1>1, SubsetInduction, Zenon
  <1> QED
    BY Zenon, <1>2

\* Only the values on S matter.
LEMMA TotalSame ==
    ASSUME NEW f, NEW g, NEW S, IsFiniteSet(S), \A x \in S : f[x] = g[x]
    PROVE  Total(f, S) = Total(g, S)
  <1> DEFINE G == {T \in SUBSET S : Total(f, T) = Total(g, T)}
  <1>1. ASSUME NEW T \in SUBSET S, \A x \in T : T \ {x} \in G
        PROVE  T \in G
    <2>1. CASE T = {}
      BY Zenon, <2>1, TotalEmpty
    <2>2. CASE T # {}
      <3> DEFINE c == CHOOSE x \in T : TRUE
      <3>1. c \in T
        BY Zenon, <2>2
      <3>2. IsFiniteSet(T)
        BY Zenon, FS_Subset
      <3>3. /\ Total(f, T) = f[c] + Total(f, T \ {c})
            /\ Total(g, T) = g[c] + Total(g, T \ {c})
        BY <2>2, <3>2, TotalChosen, Zenon
      <3>4. Total(f, T \ {c}) = Total(g, T \ {c}) /\ f[c] = g[c]
        BY <1>1, <3>1, Zenon
      <3> QED
        BY Zenon, <3>3, <3>4
    <2> QED
      BY Zenon, <2>1, <2>2
  <1>2. \A T \in SUBSET S : T \in G
    <2> HIDE DEF G
    <2> QED
      BY <1>1, SubsetInduction, Zenon
  <1> QED
    BY Zenon, <1>2

\* The total of two sets that have no element in common.
LEMMA TotalUnion ==
    ASSUME NEW f, NEW S, IsFiniteSet(S), NEW U, IsFiniteSet(U), S \cap U = {},
           \A x \in S \cup U : f[x] \in Nat
    PROVE  Total(f, S \cup U) = Total(f, S) + Total(f, U)
  <1> DEFINE G == {T \in SUBSET S : Total(f, T \cup U) = Total(f, T) + Total(f, U)}
  <1>1. ASSUME NEW T \in SUBSET S, \A x \in T : T \ {x} \in G
        PROVE  T \in G
    <2>1. IsFiniteSet(T) /\ IsFiniteSet(T \cup U)
      BY FS_Subset, FS_Union, Zenon
    <2>2. CASE T = {}
      <3>1. Total(f, U) \in Nat
        BY Zenon, TotalNat
      <3>2. T \cup U = U
        BY Zenon, <2>2
      <3> QED
        BY <2>2, <3>1, <3>2, TotalEmpty
    <2>3. CASE T # {}
      <3>1. PICK c \in T : TRUE
        BY Zenon, <2>3
      <3>2. Total(f, T) = f[c] + Total(f, T \ {c})
        BY <2>1, TotalRemove
      <3>3. Total(f, T \cup U) = f[c] + Total(f, (T \cup U) \ {c})
        BY <2>1, TotalRemove
      <3>4. (T \cup U) \ {c} = (T \ {c}) \cup U
        BY Zenon, <3>1
      <3>5. Total(f, (T \ {c}) \cup U) = Total(f, T \ {c}) + Total(f, U)
        BY Zenon, <1>1
      <3>6. Total(f, T \ {c}) \in Nat /\ Total(f, U) \in Nat /\ f[c] \in Nat
        <4>1. IsFiniteSet(T \ {c})
          BY Zenon, FS_Subset
        <4> QED
          BY Zenon, <4>1, TotalNat
      <3>7. Total(f, T \cup U) = Total(f, T) + Total(f, U)
        <4> DEFINE total == Total(f, T \cup U)
                   rest == Total(f, T \ {c})
        <4>1. total = f[c] + (rest + Total(f, U))
          BY <3>3, <3>4, <3>5, Zenon
        <4> HIDE DEF total, rest, G
        <4>2. total = (f[c] + rest) + Total(f, U)
          BY <3>6, <4>1 DEF rest
        <4> QED
          BY Zenon, <3>2, <4>2 DEF total, rest
      <3> QED
        BY Zenon, <3>7
    <2> QED
      BY Zenon, <2>2, <2>3
  <1>2. \A T \in SUBSET S : T \in G
    <2> HIDE DEF G
    <2> QED
      BY <1>1, SubsetInduction, Zenon
  <1> QED
    BY Zenon, <1>2

\* The total of a set is that of a part of it and that of the rest.
LEMMA TotalSplit ==
    ASSUME NEW f, NEW S, IsFiniteSet(S), \A x \in S : f[x] \in Nat,
           NEW T \in SUBSET S
    PROVE  /\ Total(f, S) = Total(f, T) + Total(f, S \ T)
           /\ Total(f, T) \in Nat /\ Total(f, S \ T) \in Nat
  <1>1. IsFiniteSet(T) /\ IsFiniteSet(S \ T) /\ T \cap (S \ T) = {}
    BY Zenon, FS_Subset
  <1>2. T \cup (S \ T) = S
    BY Zenon
  <1>3. Total(f, T \cup (S \ T)) = Total(f, T) + Total(f, S \ T)
    BY Zenon, <1>1, <1>2, TotalUnion
  <1>4. Total(f, T) \in Nat /\ Total(f, S \ T) \in Nat
    BY Zenon, <1>1, TotalNat
  <1> QED
    BY <1>2, <1>3, <1>4, Zenon

LEMMA TotalSingleton ==
    ASSUME NEW f, NEW y, f[y] \in Nat
    PROVE  Total(f, {y}) = f[y]
  <1>1. IsFiniteSet({y})
    BY Zenon, FS_Singleton
  <1>2. Total(f, {y}) = f[y] + Total(f, {y} \ {y})
    BY Zenon, <1>1, TotalRemove
  <1>3. {y} \ {y} = {}
    BY Zenon
  <1> QED
    BY <1>2, <1>3, TotalEmpty

\* What one element gives changes the total by as much.
LEMMA TotalChange ==
    ASSUME NEW f, NEW g, NEW S, IsFiniteSet(S),
           \A x \in S : f[x] \in Nat /\ g[x] \in Nat,
           NEW a \in S, \A x \in S \ {a} : g[x] = f[x]
    PROVE  Total(g, S) + f[a] = Total(f, S) + g[a]
  <1>1. IsFiniteSet(S \ {a})
    BY Zenon, FS_Subset
  <1>2. Total(f, S) = f[a] + Total(f, S \ {a}) /\ Total(g, S) = g[a] + Total(g, S \ {a})
    BY TotalRemove
  <1>3. Total(g, S \ {a}) = Total(f, S \ {a})
    BY Zenon, <1>1, TotalSame
  <1>4. Total(f, S \ {a}) \in Nat
    BY Zenon, <1>1, TotalNat
  <1> DEFINE rest == Total(f, S \ {a})
  <1>5. /\ Total(f, S) = f[a] + rest /\ Total(g, S) = g[a] + rest
        /\ rest \in Nat /\ f[a] \in Nat /\ g[a] \in Nat
    BY Zenon, <1>2, <1>3, <1>4
  <1> HIDE DEF rest
  <1> QED
    BY <1>5

\* What goes from one element to another does not change the total.
LEMMA TotalTransfer ==
    ASSUME NEW f, NEW g, NEW S, IsFiniteSet(S),
           \A x \in S : f[x] \in Nat /\ g[x] \in Nat,
           NEW a \in S, NEW b \in S, a # b,
           g[a] + g[b] = f[a] + f[b],
           \A x \in S \ {a, b} : g[x] = f[x]
    PROVE  Total(g, S) = Total(f, S)
  <1> DEFINE R == S \ {a}
  <1>1. IsFiniteSet(R) /\ b \in R
    BY Zenon, FS_Subset
  <1>2. Total(f, S) = f[a] + Total(f, R) /\ Total(g, S) = g[a] + Total(g, R)
    BY TotalRemove
  <1>3. Total(g, R) + f[b] = Total(f, R) + g[b]
    BY <1>1, TotalChange
  <1>4. Total(f, R) \in Nat /\ Total(g, R) \in Nat
    BY Zenon, <1>1, TotalNat
  <1>5. f[a] \in Nat /\ f[b] \in Nat /\ g[a] \in Nat /\ g[b] \in Nat
    BY Zenon
  <1> HIDE DEF R
  <1> QED
    BY <1>2, <1>3, <1>4, <1>5

-----------------------------------------------------------------------------
(* Least and greatest elements, and quotients.                             *)

LEMMA MinNat ==
    ASSUME NEW S \in SUBSET Nat, S # {}
    PROVE  Min(S) \in S /\ \A y \in S : Min(S) <= y
  <1>1. \E x \in S : \A y \in S : ~(<<y, x>> \in OpToRel(<, Nat))
    BY NatLessThanWellFounded, WFMin, Zenon
  <1>2. PICK x \in S : \A y \in S : ~(<<y, x>> \in OpToRel(<, Nat))
    BY <1>1, Zenon
  <1>3. \A y \in S : x <= y
    <2> SUFFICES ASSUME NEW y \in S PROVE x <= y
      BY Zenon
    <2>1. ~(y < x)
      BY <1>2, Zenon DEF OpToRel
    <2> QED
      BY <2>1
  <1> QED
    BY <1>3, Zenon DEF Min

LEMMA MaxBounded ==
    ASSUME NEW n \in Nat, NEW S \in SUBSET (0..n), S # {}
    PROVE  Max(S) \in S /\ \A y \in S : y <= Max(S)
  <1> DEFINE D == {n - x : x \in S}
  <1>1. D \in SUBSET Nat /\ D # {}
    <2>1. \A x \in S : n - x \in Nat
      OBVIOUS
    <2> QED
      BY <2>1, Zenon
  <1>2. Min(D) \in D /\ \A y \in D : Min(D) <= y
    <2> HIDE DEF D
    <2> QED
      BY Zenon, <1>1, MinNat
  <1>3. PICK x \in S : Min(D) = n - x
    BY <1>2, Zenon
  <1>4. \A y \in S : x >= y
    BY <1>2, <1>3
  <1> QED
    BY <1>4, Zenon DEF Max

\* A function on a finite set that is not empty takes its greatest value.
LEMMA GreatestExists ==
    ASSUME NEW S, IsFiniteSet(S), S # {}, NEW f, \A x \in S : f[x] \in Int
    PROVE  \E x \in S : \A y \in S : f[x] >= f[y]
  <1> DEFINE G == {T \in SUBSET S : T # {} => \E x \in T : \A y \in T : f[x] >= f[y]}
  <1>1. ASSUME NEW T \in SUBSET S, \A x \in T : T \ {x} \in G
        PROVE  T \in G
    <2> SUFFICES ASSUME T # {} PROVE \E x \in T : \A y \in T : f[x] >= f[y]
      BY Zenon
    <2>1. PICK z \in T : TRUE
      BY Zenon
    <2>2. CASE T \ {z} = {}
      <3>1. \A y \in T : y = z
        BY Zenon, <2>2
      <3> QED
        BY <2>1, <3>1
    <2>3. CASE T \ {z} # {}
      <3>1. PICK x \in T \ {z} : \A y \in T \ {z} : f[x] >= f[y]
        BY Zenon, <1>1, <2>3
      <3>2. f[x] \in Int /\ f[z] \in Int /\ \A y \in T : f[y] \in Int
        BY Zenon
      <3>3. CASE f[x] >= f[z]
        BY Zenon, <3>1, <3>3
      <3>4. CASE f[z] >= f[x]
        <4>1. \A y \in T : f[z] >= f[y]
          BY <3>1, <3>2, <3>4
        <4> QED
          BY Zenon, <4>1
      <3> QED
        BY <3>2, <3>3, <3>4
    <2> QED
      BY Zenon, <2>2, <2>3
  <1>2. \A T \in SUBSET S : T \in G
    <2> HIDE DEF G
    <2> QED
      BY <1>1, SubsetInduction, Zenon
  <1> QED
    BY Zenon, <1>2

LEMMA DivNat == ASSUME NEW x \in Nat, NEW w \in Nat \ {0} PROVE x \div w \in Nat
  OBVIOUS

LEMMA ModLess == ASSUME NEW x \in Nat, NEW w \in Nat \ {0} PROVE x % w \in Nat /\ x % w <= x
  OBVIOUS

\* The average of u streams with x IOs that get k IOs more.
LEMMA AverageAfter ==
    ASSUME NEW x \in Nat, NEW k \in Nat, NEW u \in Nat \ {0}, NEW avg \in Nat,
           k <= (avg - (x \div u)) * u, x \div u < avg
    PROVE  (x + k) \div u <= avg
  <1> DEFINE a == x \div u
             b == (x + k) \div u
  <1>1. /\ a \in Nat /\ b \in Nat
        /\ x < (a + 1) * u /\ b * u <= x + k
    OBVIOUS
  <1>2. k <= (avg - a) * u /\ a < avg
    BY Zenon
  <1> HIDE DEF a, b
  <1>3. (avg - a) * u + (a + 1) * u = (avg + 1) * u
    BY <1>1
  <1>4. x + k < (avg + 1) * u
    <2>1. (avg - a) * u \in Int /\ (a + 1) * u \in Int
      BY <1>1
    <2> QED
      BY <1>1, <1>2, <1>3, <2>1
  <1>5. b * u < (avg + 1) * u
    <2>1. b * u \in Int /\ (avg + 1) * u \in Int
      BY <1>1
    <2> QED
      BY <1>1, <1>4, <2>1
  <1>6. b < avg + 1
    BY <1>1, <1>5
  <1> QED
    BY <1>1, <1>6 DEF b

\* Two averages on either side of a third.
LEMMA AverageBetween ==
    ASSUME NEW a \in Nat, NEW b \in Nat, NEW i \in Nat, i > 1, NEW j \in Nat, NEW z \in Nat,
           a \div (i - 1) <= z, b \div (j + 1) >= z
    PROVE  Quot(a, i - 1) <= Quot(b, j + 1)
  <1>1. i - 1 \in Nat \ {0} /\ j + 1 \in Nat \ {0}
    OBVIOUS
  <1>2. PICK x, y \in Nat : x = a \div (i - 1) /\ y = b \div (j + 1)
    BY Zenon, <1>1, DivNat
  <1>3. x <= y
    BY <1>2
  <1> QED
    BY <1>1, <1>2, <1>3, Zenon DEF Quot

-----------------------------------------------------------------------------
(* The inductive invariant of RebalanceProofs.                             *)

\* TypeOK without the bound on the queue depths.
PlaceTypes ==
    /\ part_id \in [Cores -> Parts]
    /\ load_q \in [Cores -> SUBSET Loads]
    /\ dest_rank \in [Loads -> Cores]
    /\ qdepth \in [Cores -> Nat]
EnvTypes ==
    /\ sleep_nsec \in [Cores -> Sleeps] /\ size \in [Loads -> Nat]
    /\ init_rank \in [Loads -> Cores] /\ curr_rank \in [Loads -> Cores]
    /\ fresh \in BOOLEAN
StatTypes ==
    /\ numa_stats \in [Parts -> [Numas -> [used_cores : Nat, qdepth : Nat]]]
    /\ numa_stat \in [Numas -> [used_cores : Nat, avg_qdepth : Nat]]
    /\ ps_pct \in [Numas -> 0..100]
PsTypes == ps_state \in [Numas -> BOOLEAN] /\ nr_ps_numas \in Nat
LoopTypes ==
    /\ pc \in PCs /\ level \in 0..3
    /\ numa_id \in Numas /\ partition_id \in Parts
WorkTypes ==
    /\ from \in Cores \cup {None} /\ to \in Cores \cup {None}
    /\ todo \subseteq Cores \cup Loads /\ mloads \subseteq Loads
    /\ ios \in Nat /\ limit \in Nat
    /\ min_load \in Loads \cup {None} /\ min_lsize \in Nat
Types ==
    /\ PlaceTypes /\ EnvTypes /\ StatTypes /\ PsTypes /\ LoopTypes /\ WorkTypes

\* From the first statistics of a pass to its end, the numbers of cores in
\* them are right: only level 2 moves cores, and it counts again.
CoresCounted ==
    pc \notin {"stat", "trap"} =>
        /\ \A n \in Numas, p \in Parts :
              numa_stats[p][n].used_cores = Cardinality(StreamsOf(part_id, n, p))
        /\ \A n \in Numas : numa_stat[n].used_cores = Cardinality(CoresIn(n))

\* While a NUMA is emptied it is awake and not NUMA 0, there is a stream for
\* the loads of each of its streams, and the streams that were visited are empty.
Emptying ==
    pc = "psmove" =>
        /\ numa_id \in Awake \ {0}
        /\ todo \subseteq CoresIn(numa_id)
        /\ CanCombine(numa_id)
        /\ \A c \in CoresIn(numa_id) \ todo : load_q[c] = {}

\* Level 3 takes loads from the streams of another NUMA in the same partition.
Leveling ==
    pc = "l3move" =>
        /\ to \in Cores /\ NumaOf[to] \in Awake
        /\ \E f \in Numas \ {NumaOf[to]} : todo \subseteq StreamsOf(part_id, f, part_id[to])

\* Level 1 works on two streams of one partition and NUMA, and picks loads of
\* the stream from.
Picking ==
    /\ pc \in {"foreign", "own"} =>
          /\ from \in PartStreams /\ to \in PartStreams /\ from # to
          /\ ios >= qdepth[to]
    /\ pc = "own" =>
          /\ todo \subseteq load_q[from] /\ mloads \subseteq load_q[from]
          /\ min_lsize # 0 => min_load \in load_q[from]
    /\ pc # "own" => mloads = {} /\ min_lsize = 0

Control == CoresCounted /\ Emptying /\ Leveling /\ Picking

Inv == Types /\ Control /\ LoadPlacement /\ PartitionKept /\ PsConsistent

-----------------------------------------------------------------------------
(* The operators the actions are built from.                               *)

LEMMA FiniteParts ==
    /\ IsFiniteSet(Numas) /\ IsFiniteSet(Parts) /\ IsFiniteSet(Cores)
    /\ Numas \subseteq Nat /\ Parts \subseteq Nat
    /\ 0 \in Numas /\ 0 \in Parts
    /\ \A n : IsFiniteSet(CoresIn(n)) /\ CoresIn(n) \subseteq Cores
    /\ \A pid, n, p : /\ IsFiniteSet(StreamsOf(pid, n, p))
                      /\ StreamsOf(pid, n, p) \subseteq CoresIn(n)
  <1>1. NrNumas - 1 \in Int /\ NrParts - 1 \in Int
    BY CoresAssumption
  <1>2. IsFiniteSet(Numas) /\ IsFiniteSet(Parts)
    BY <1>1, FS_Interval DEF Numas, Parts
  <1>3. Numas \subseteq Nat /\ Parts \subseteq Nat /\ 0 \in Numas /\ 0 \in Parts
    BY CoresAssumption DEF Numas, Parts
  <1>4. IsFiniteSet(Cores)
    BY Zenon, CoresAssumption
  <1>5. \A n : CoresIn(n) \in SUBSET Cores
    BY Zenon DEF CoresIn
  <1>6. \A n : IsFiniteSet(CoresIn(n))
    BY Zenon, <1>4, <1>5, FS_Subset
  <1>7. \A pid, n, p : StreamsOf(pid, n, p) \in SUBSET CoresIn(n)
    BY Zenon DEF StreamsOf
  <1>8. \A pid, n, p : IsFiniteSet(StreamsOf(pid, n, p))
    BY <1>6, <1>7, FS_Subset
  <1> QED
    BY Zenon, <1>2, <1>3, <1>4, <1>5, <1>6, <1>7, <1>8

\* A set is counted as a natural number, 0 only if it is empty, and more than 1
\* only if it has two elements.
LEMMA Counting ==
    ASSUME NEW S, IsFiniteSet(S)
    PROVE  /\ Cardinality(S) \in Nat
           /\ Cardinality(S) = 0 <=> S = {}
           /\ Cardinality(S) <= 1 => \A x, y \in S : x = y
  <1>1. Cardinality(S) \in Nat
    BY Zenon, FS_CardinalityType
  <1>2. Cardinality(S) = 0 <=> S = {}
    BY Zenon, FS_EmptySet
  <1>3. ASSUME Cardinality(S) <= 1, NEW x \in S, NEW y \in S PROVE x = y
    <2>1. Cardinality(S) = 1
      BY <1>1, <1>2, <1>3
    <2> QED
      BY <2>1, FS_Singleton
  <1> QED
    BY Zenon, <1>1, <1>2, <1>3

\* qsort only permutes the elements.
LEMMA SortedElements ==
    ASSUME NEW S, IsFiniteSet(S), NEW key, NEW q \in Sorted(S, key)
    PROVE  /\ Len(q) = Cardinality(S)
           /\ \A i \in 1..Len(q) : q[i] \in S
           /\ \A i, j \in 1..Len(q) : i # j => q[i] # q[j]
  <1>1. Cardinality(S) \in Nat
    BY Zenon, FS_CardinalityType
  <1>2. /\ q \in [1..Cardinality(S) -> S]
        /\ \A i, j \in 1..Cardinality(S) : i # j => q[i] # q[j]
    BY Zenon DEF Sorted, Injection, IsInjective
  <1>3. q \in Seq(S) /\ Len(q) = Cardinality(S)
    BY <1>1, <1>2
  <1> QED
    BY Zenon, <1>2, <1>3

\* The streams of a partition in a NUMA.
LEMMA StreamsElements ==
    ASSUME NEW pid, NEW n, NEW p, NEW c
    PROVE  c \in StreamsOf(pid, n, p) <=> c \in Cores /\ NumaOf[c] = n /\ pid[c] = p
  BY Zenon DEF StreamsOf, CoresIn

\* A pair that level 3 finds: two NUMAs of S, and not the same one.
LEMMA NumaPairElements ==
    ASSUME NEW S, IsFiniteSet(S), NEW q \in SortedNumas(S), NEW pair \in NumaPair(q)
    PROVE  /\ pair[1] \in S /\ pair[2] \in S /\ pair[1] # pair[2]
           /\ AvgQdepth(pair[2]) < abtst_get_average_qdepth
           /\ numa_stat[pair[2]].used_cores > 0
  <1> DEFINE avg == abtst_get_average_qdepth
             T == {i \in 1..(Len(q) - 1) : /\ numa_stat[q[i]].used_cores > 0
                                           /\ AvgQdepth(q[i]) < avg}
             F == {i \in (Min(T) + 1)..Len(q) : /\ numa_stat[q[i]].used_cores > 0
                                                /\ AvgQdepth(q[i]) >= 2 * avg
                                                /\ AvgQdepth(q[i]) > 2 * MinIos}
  <1>1. /\ Len(q) = Cardinality(S)
        /\ \A i \in 1..Len(q) : q[i] \in S
        /\ \A i, j \in 1..Len(q) : i # j => q[i] # q[j]
    BY Zenon, SortedElements DEF SortedNumas
  <1>2. Len(q) \in Nat
    BY Zenon, <1>1, FS_CardinalityType
  <1>3. T # {} /\ F # {} /\ pair = <<q[Max(F)], q[Min(T)]>>
    BY Zenon DEF NumaPair
  <1>4. Min(T) \in T
    <2>1. T \in SUBSET Nat
      BY <1>2
    <2> HIDE DEF T
    <2> QED
      BY Zenon, <1>3, <2>1, MinNat
  <1>5. Min(T) \in 1..Len(q) /\ Min(T) \in Nat
    BY <1>2, <1>4
  <1>6. Max(F) \in F
    <2>1. F \in SUBSET (0..Len(q))
      <3> HIDE DEF T
      <3> QED
        BY <1>2, <1>5
    <2> HIDE DEF F
    <2> QED
      BY <1>2, <1>3, <2>1, MaxBounded, Zenon
  <1>7. Max(F) \in 1..Len(q) /\ Max(F) # Min(T)
    <2> DEFINE t == Min(T)
               x == Max(F)
    <2>1. x \in (t + 1)..Len(q) /\ t \in 1..Len(q)
      BY <1>5, <1>6, Zenon
    <2> HIDE DEF t, x
    <2> QED
      BY <1>2, <2>1 DEF t, x
  <1>8. numa_stat[q[Min(T)]].used_cores > 0 /\ AvgQdepth(q[Min(T)]) < avg
    BY Zenon, <1>4
  <1> HIDE DEF T, F
  <1> QED
    BY Zenon, <1>1, <1>3, <1>5, <1>7, <1>8

\* A pair that level 2 finds: two partitions, and the first can give a core.
LEMMA PartPairElements ==
    ASSUME NEW n, NEW q \in SortedParts(n), NEW pair \in PartPair(n, q)
    PROVE  /\ pair[1] \in Parts /\ pair[2] \in Parts /\ pair[1] # pair[2]
           /\ CanGive(n, pair[1]) /\ NeedsCore(n, pair[2])
  <1> DEFINE F == {i \in 1..(Len(q) - 1) : CanGive(n, q[i])}
             T == {i \in (Min(F) + 1)..Len(q) : NeedsCore(n, q[i])}
  <1>1. /\ Len(q) = Cardinality(Parts)
        /\ \A i \in 1..Len(q) : q[i] \in Parts
        /\ \A i, j \in 1..Len(q) : i # j => q[i] # q[j]
    BY Zenon, FiniteParts, SortedElements DEF SortedParts
  <1>2. Len(q) \in Nat
    BY Zenon, <1>1, FiniteParts, FS_CardinalityType
  <1>3. F # {} /\ T # {} /\ pair = <<q[Min(F)], q[Max(T)]>>
    BY Zenon DEF PartPair
  <1>4. Min(F) \in F
    <2>1. F \in SUBSET Nat
      BY <1>2
    <2> HIDE DEF F
    <2> QED
      BY Zenon, <1>3, <2>1, MinNat
  <1>5. Min(F) \in 1..Len(q) /\ Min(F) \in Nat /\ CanGive(n, q[Min(F)])
    BY <1>2, <1>4
  <1>6. Max(T) \in T
    <2>1. T \in SUBSET (0..Len(q))
      <3> HIDE DEF F
      <3> QED
        BY <1>2, <1>5
    <2> HIDE DEF T
    <2> QED
      BY <1>2, <1>3, <2>1, MaxBounded, Zenon
  <1>7. Max(T) \in 1..Len(q) /\ Max(T) # Min(F) /\ NeedsCore(n, q[Max(T)])
    <2> DEFINE f == Min(F)
               x == Max(T)
    <2>1. x \in (f + 1)..Len(q) /\ f \in 1..Len(q) /\ NeedsCore(n, q[x])
      BY Zenon, <1>5, <1>6
    <2> HIDE DEF f, x
    <2> QED
      BY <1>2, <2>1 DEF f, x
  <1> HIDE DEF T, F
  <1> QED
    BY Zenon, <1>1, <1>3, <1>5, <1>7

LEMMA StatTypesStep ==
    ASSUME NEW pid, NEW q \in [Cores -> Nat]
    PROVE  /\ abtst_update_partition_stats(pid, q)
                \in [Parts -> [Numas -> [used_cores : Nat, qdepth : Nat]]]
           /\ abtst_update_numa_stats(q) \in [Numas -> [used_cores : Nat, avg_qdepth : Nat]]
           /\ \A p \in Parts, n \in Numas :
                LET s == abtst_update_partition_stats(pid, q)[p][n]
                IN  /\ s.used_cores = Cardinality(StreamsOf(pid, n, p))
                    /\ s.qdepth = Total(q, StreamsOf(pid, n, p))
           /\ \A n \in Numas :
                LET s == abtst_update_numa_stats(q)[n]
                IN  /\ s.used_cores = Cardinality(CoresIn(n))
                    /\ s.avg_qdepth = Quot(Total(q, CoresIn(n)), Cardinality(CoresIn(n)))
  <1>1. ASSUME NEW n, NEW p
        PROVE  /\ Cardinality(StreamsOf(pid, n, p)) \in Nat
               /\ Total(q, StreamsOf(pid, n, p)) \in Nat
    <2>1. IsFiniteSet(StreamsOf(pid, n, p)) /\ StreamsOf(pid, n, p) \subseteq Cores
      BY Zenon, FiniteParts
    <2> QED
      BY Zenon, <2>1, FS_CardinalityType, TotalNat
  <1>2. ASSUME NEW n
        PROVE  /\ Cardinality(CoresIn(n)) \in Nat
               /\ Quot(Total(q, CoresIn(n)), Cardinality(CoresIn(n))) \in Nat
    <2>1. IsFiniteSet(CoresIn(n)) /\ CoresIn(n) \subseteq Cores
      BY Zenon, FiniteParts
    <2>2. Cardinality(CoresIn(n)) \in Nat /\ Total(q, CoresIn(n)) \in Nat
      BY Zenon, <2>1, FS_CardinalityType, TotalNat
    <2> QED
      BY <2>2 DEF Quot
  <1> QED
    BY Zenon, <1>1, <1>2 DEF abtst_update_partition_stats, abtst_update_numa_stats

\* The statistics of one partition in one NUMA.
LEMMA PartStats ==
    ASSUME NEW pid, NEW q \in [Cores -> Nat], NEW p \in Parts, NEW n \in Numas,
           NEW s, s = abtst_update_partition_stats(pid, q)[p][n]
    PROVE  /\ s.qdepth = Total(q, StreamsOf(pid, n, p))
           /\ s.used_cores = Cardinality(StreamsOf(pid, n, p))
  BY Zenon, StatTypesStep

LEMMA AverageNat ==
    ASSUME StatTypes
    PROVE  abtst_get_average_qdepth \in Nat
  <1> DEFINE used == [n \in Numas |-> numa_stat[n].used_cores]
             work == [n \in Numas |-> numa_stat[n].avg_qdepth * numa_stat[n].used_cores]
  <1>1. \A n \in Numas : numa_stat[n].used_cores \in Nat /\ numa_stat[n].avg_qdepth \in Nat
    BY Zenon DEF StatTypes
  <1>2. \A n \in Numas : used[n] \in Nat /\ work[n] \in Nat
    BY <1>1
  <1> HIDE DEF used, work
  <1>3. Total(used, Numas) \in Nat /\ Total(work, Numas) \in Nat
    BY <1>2, FiniteParts, TotalNat, Zenon
  <1>4. Quot(Total(work, Numas), Total(used, Numas)) \in Nat
    BY <1>3 DEF Quot
  <1> QED
    BY Zenon, <1>4 DEF abtst_get_average_qdepth, used, work

\* The average of a partition is a number when its streams are balanced.
LEMMA AvgType ==
    ASSUME StatTypes, LoopTypes, PartStat.used_cores > 1
    PROVE  Avg \in Nat
  <1>1. PartStat.used_cores \in Nat \ {0} /\ PartStat.qdepth \in Nat
    BY DEF StatTypes, LoopTypes, PartStat
  <1> QED
    BY <1>1 DEF Avg

\* The partitions after this one are left when level 1 goes on.
LEMMA NextPartitionLater ==
    ASSUME LoopTypes, NextPartition
    PROVE  /\ pc' \in {"l1", "reset"}
           /\ \A n \in Numas, p \in Parts :
                Pending(n, p)' => n > numa_id \/ (n = numa_id /\ p > partition_id)
  <1>1. /\ Numas \subseteq Nat /\ Parts \subseteq Nat
        /\ numa_id \in Nat /\ partition_id \in Nat
    BY Zenon, FiniteParts DEF LoopTypes
  <1>2. pc' \in {"l1", "reset"}
    BY Zenon DEF NextPartition
  <1>3. ASSUME NEW n \in Numas, NEW p \in Parts, Pending(n, p)'
        PROVE  n > numa_id \/ (n = numa_id /\ p > partition_id)
    <2>1. n \in Nat /\ p \in Nat
      BY Zenon, <1>1
    <2>2. CASE partition_id + 1 < NrParts
      <3>1. partition_id' = partition_id + 1 /\ numa_id' = numa_id /\ pc' = "l1"
        BY Zenon, <2>2 DEF NextPartition
      <3> QED
        BY <1>1, <1>3, <2>1, <3>1 DEF Pending
    <2>3. CASE ~(partition_id + 1 < NrParts) /\ numa_id + 1 < NrNumas
      <3>1. numa_id' = numa_id + 1 /\ pc' = "l1"
        BY Zenon, <2>3 DEF NextPartition
      <3> QED
        BY <1>1, <1>3, <2>1, <3>1 DEF Pending
    <2>4. CASE ~(partition_id + 1 < NrParts) /\ ~(numa_id + 1 < NrNumas)
      BY Zenon, <1>3, <2>4 DEF NextPartition, Pending
    <2> QED
      BY Zenon, <2>2, <2>3, <2>4
  <1> QED
    BY Zenon, <1>2, <1>3

-----------------------------------------------------------------------------
(* What a step may change: every step but the ones listed leaves a group   *)
(* of variables alone.                                                     *)

LEMMA PlaceFrame ==
    ASSUME [Next]_vars
    PROVE  \/ UNCHANGED placeVars
           \/ UpdateStat \/ L3Move \/ L2Move \/ L1Foreign \/ L1Move
           \/ \E c \in Cores : PsMove(c)
  <1>1. CASE RebStep
    BY <1>1, Zenon DEF RebStep, TrapInStat, ReadLevel, ResetStat, PsKeep, PsSleep, PsSlept,
                PsWake, L3Keep, L3Start, L3StartAmong, L3End, L2Keep, TrapInSort,
                L1Keep, L1Start, L1Pick
  <1>2. CASE Environment
    BY Zenon, <1>2 DEF Environment, Land, SizeChange, Sleep
  <1>3. CASE UNCHANGED vars
    BY Zenon, <1>3 DEF vars
  <1> QED
    BY Zenon, <1>1, <1>2, <1>3 DEF Next

\* Only level 2 changes the partition of a stream.
LEMMA PartFrame ==
    ASSUME [Next]_vars
    PROVE  part_id' = part_id \/ L2Move
  BY PlaceFrame, Zenon DEF placeVars, UpdateStat, L3Move, L1Foreign, L1Move, PsMove

LEMMA StatFrame ==
    ASSUME [Next]_vars
    PROVE  UNCHANGED statVars \/ UpdateStat \/ PsSleep \/ PsSlept \/ L3End \/ L2Move
  <1>1. CASE RebStep
    BY <1>1, Zenon DEF RebStep, TrapInStat, ReadLevel, ResetStat, PsKeep, PsMove,
                PsWake, L3Keep, L3Start, L3StartAmong, L3Move, L2Keep, TrapInSort,
                L1Keep, L1Start, L1Foreign, L1Pick, L1Move
  <1>2. CASE Environment
    BY Zenon, <1>2 DEF Environment, Land, SizeChange, Sleep
  <1>3. CASE UNCHANGED vars
    BY Zenon, <1>3 DEF vars
  <1> QED
    BY Zenon, <1>1, <1>2, <1>3 DEF Next

LEMMA PsFrame ==
    ASSUME [Next]_vars
    PROVE  UNCHANGED psVars \/ PsSlept \/ PsWake
  <1>1. CASE RebStep
    BY <1>1, Zenon DEF RebStep, UpdateStat, TrapInStat, ReadLevel, ResetStat, PsKeep, PsSleep,
                PsMove, L3Keep, L3Start, L3StartAmong, L3Move, L3End, L2Keep, L2Move,
                TrapInSort, L1Keep, L1Start, L1Foreign, L1Pick, L1Move
  <1>2. CASE Environment
    BY Zenon, <1>2 DEF Environment, Land, SizeChange, Sleep
  <1>3. CASE UNCHANGED vars
    BY Zenon, <1>3 DEF vars
  <1> QED
    BY Zenon, <1>1, <1>2, <1>3 DEF Next

LEMMA EnvFrame ==
    ASSUME [Next]_vars
    PROVE  \/ UNCHANGED envVars
           \/ UpdateStat \/ ResetStat \/ Environment
  <1>1. CASE RebStep
    BY <1>1, Zenon DEF RebStep, TrapInStat, ReadLevel, PsKeep, PsSleep, PsMove, PsSlept,
                PsWake, L3Keep, L3Start, L3StartAmong, L3Move, L3End, L2Keep, L2Move,
                TrapInSort, L1Keep, L1Start, L1Foreign, L1Pick, L1Move
  <1>3. CASE UNCHANGED vars
    BY Zenon, <1>3 DEF vars
  <1> QED
    BY Zenon, <1>1, <1>3 DEF Next

\* The loop counters and locals of the pass.
LEMMA LoopFrame ==
    ASSUME [Next]_vars
    PROVE  \/ UNCHANGED <<loopVars, workVars, pc, level>>
           \/ RebStep
  BY Zenon DEF Next, Environment, Land, SizeChange, Sleep, vars

-----------------------------------------------------------------------------
(* Moving loads.                                                           *)

LEMMA MoveKeepsPlacement ==
    ASSUME PlaceTypes, LoadPlacement, NEW f \in Cores, NEW t \in Cores,
           NEW L \in SUBSET load_q[f], MoveLoads(L, f, t)
    PROVE  /\ load_q' \in [Cores -> SUBSET Loads]
           /\ dest_rank' \in [Loads -> Cores]
           /\ LoadPlacement'
  <1>1. load_q \in [Cores -> SUBSET Loads] /\ dest_rank \in [Loads -> Cores]
    BY Zenon DEF PlaceTypes
  <1>2. L \subseteq Loads
    BY Zenon, <1>1
  <1>3. load_q' \in [Cores -> SUBSET Loads] /\ dest_rank' \in [Loads -> Cores]
    BY Zenon, <1>1, <1>2 DEF MoveLoads
  <1>4. ASSUME NEW l \in Loads
        PROVE  \A c \in Cores : l \in load_q'[c] <=> c = dest_rank'[l]
    <2>1. \A c \in Cores : l \in load_q[c] <=> c = dest_rank[l]
      BY Zenon, <1>1 DEF LoadPlacement
    <2>2. \A c \in Cores : load_q'[c] = IF c = t
                                        THEN (IF t = f THEN load_q[t] \ L ELSE load_q[t]) \cup L
                                        ELSE IF c = f THEN load_q[f] \ L ELSE load_q[c]
      BY <1>1, Zenon DEF MoveLoads
    <2>3. dest_rank'[l] = IF l \in L THEN t ELSE dest_rank[l]
      BY Zenon DEF MoveLoads
    <2>4. l \in L => dest_rank[l] = f
      BY Zenon, <2>1
    <2> QED
      BY Zenon, <2>1, <2>2, <2>3, <2>4
  <1>5. LoadPlacement'
    <2> SUFFICES ASSUME NEW l \in Loads
                 PROVE  {c \in Cores : l \in load_q'[c]} = {dest_rank'[l]}
      BY Zenon DEF LoadPlacement
    <2>1. dest_rank'[l] \in Cores
      BY Zenon, <1>3
    <2> QED
      BY Zenon, <1>4, <2>1
  <1> QED
    BY Zenon, <1>3, <1>5

\* Streams are combined by moving all loads of one of them.
LEMMA CombineMoves ==
    ASSUME PlaceTypes, NEW f \in Cores, NEW t \in Cores,
           abtst_combine_streams(f, t)
    PROVE  MoveLoads(load_q[f], f, t) /\ qdepth' \in [Cores -> Nat]
  <1>1. CASE load_q[f] = {}
    <2>1. load_q' = load_q /\ dest_rank' = dest_rank /\ qdepth' = qdepth
      BY Zenon, <1>1 DEF abtst_combine_streams
    <2>2. load_q = [load_q EXCEPT ![f] = @ \ {}, ![t] = @ \cup {}]
      BY Zenon DEF PlaceTypes
    <2>3. dest_rank = [l \in Loads |-> IF l \in {} THEN t ELSE dest_rank[l]]
      BY Zenon DEF PlaceTypes
    <2> QED
      BY Zenon, <1>1, <2>1, <2>2, <2>3 DEF MoveLoads, PlaceTypes
  <1>2. CASE load_q[f] # {}
    BY <1>2 DEF abtst_combine_streams, PlaceTypes
  <1> QED
    BY Zenon, <1>1, <1>2

-----------------------------------------------------------------------------
(* The steps that move loads, seen from outside: loads of a stream go to   *)
(* another stream of its partition whose NUMA is awake, or a stream gives  *)
(* all its loads to one of its partition and NUMA and changes partitions.  *)

Moved(L, f, t) ==
    /\ f \in Cores /\ t \in Cores /\ f # t
    /\ L \in SUBSET load_q[f]
    /\ part_id[t] = part_id[f]
    /\ L # {} => NumaOf[t] \in Awake
    /\ MoveLoads(L, f, t)
    /\ part_id' = part_id

CoreGiven(f, t, p) ==
    /\ f \in Cores /\ t \in Cores /\ f # t
    /\ p \in Parts
    /\ part_id[t] = part_id[f] /\ NumaOf[t] = NumaOf[f]
    /\ MoveLoads(load_q[f], f, t)
    /\ part_id' = [part_id EXCEPT ![f] = p]

LEMMA ToCoreElements ==
    ASSUME Types, CoresCounted, pc = "psmove", NEW n, NEW p \in Parts,
           ToNumas(n, p) # {}
    PROVE  /\ ToCore(n, p) \in Cores
           /\ NumaOf[ToCore(n, p)] \in Awake \ {n}
           /\ part_id[ToCore(n, p)] = p
  <1> DEFINE m == Min(ToNumas(n, p))
  <1>1. ToNumas(n, p) \in SUBSET Numas
    BY Zenon DEF ToNumas, Awake
  <1>2. m \in ToNumas(n, p)
    BY Zenon, <1>1, FiniteParts, MinNat
  <1>3. m \in Awake \ {n} /\ m \in Numas /\ numa_stats[p][m].used_cores > 0
    BY <1>1, <1>2, Zenon DEF ToNumas
  <1> HIDE DEF m
  <1>4. Cardinality(StreamsOf(part_id, m, p)) > 0
    BY Zenon, <1>3 DEF CoresCounted
  <1>5. StreamsOf(part_id, m, p) # {}
    BY <1>4, FS_EmptySet
  <1>6. StreamsOf(part_id, m, p) \in SUBSET Nat
    BY FiniteParts, CoresAssumption, Zenon
  <1>7. Min(StreamsOf(part_id, m, p)) \in StreamsOf(part_id, m, p)
    BY Zenon, <1>5, <1>6, MinNat
  <1>8. ToCore(n, p) \in StreamsOf(part_id, m, p)
    BY Zenon, <1>7 DEF ToCore, m
  <1> QED
    BY <1>3, <1>8, StreamsElements

\* Power saving moves the loads of a stream to another NUMA.
LEMMA PsMoveMoves ==
    ASSUME Inv, NEW c \in Cores, PsMove(c)
    PROVE  LET t == ToCore(numa_id, part_id[c])
           IN  /\ Moved(load_q[c], c, t)
               /\ abtst_combine_streams(c, t)
               /\ NumaOf[c] = numa_id /\ NumaOf[t] # numa_id
  <1> DEFINE t == ToCore(numa_id, part_id[c])
  <1>1. pc = "psmove" /\ c \in todo /\ abtst_combine_streams(c, t) /\ part_id' = part_id
    BY Zenon DEF PsMove
  <1>2. Types /\ CoresCounted /\ Emptying
    BY Zenon DEF Inv, Control
  <1>3. c \in CoresIn(numa_id) /\ CanCombine(numa_id) /\ numa_id \in Numas
    BY Zenon, <1>1, <1>2 DEF Emptying, Types, LoopTypes
  <1>4. NumaOf[c] = numa_id /\ part_id[c] \in Parts
    BY Zenon, <1>2, <1>3 DEF CoresIn, Types, PlaceTypes
  <1>5. c \in StreamsOf(part_id, numa_id, part_id[c])
    BY Zenon, <1>4, StreamsElements
  <1>6. Cardinality(StreamsOf(part_id, numa_id, part_id[c])) # 0
    BY Zenon, <1>5, FiniteParts, FS_EmptySet
  <1>7. numa_stats[part_id[c]][numa_id].used_cores > 0
    <2>1. numa_stats[part_id[c]][numa_id].used_cores
              = Cardinality(StreamsOf(part_id, numa_id, part_id[c]))
      BY Zenon, <1>1, <1>2, <1>3, <1>4 DEF CoresCounted
    <2>2. Cardinality(StreamsOf(part_id, numa_id, part_id[c])) \in Nat
      BY Zenon, FiniteParts, FS_CardinalityType
    <2> QED
      BY <1>6, <2>1, <2>2
  <1>8. ToNumas(numa_id, part_id[c]) # {}
    BY Zenon, <1>3, <1>4, <1>7 DEF CanCombine
  <1>9. t \in Cores /\ NumaOf[t] \in Awake \ {numa_id} /\ part_id[t] = part_id[c]
    BY Zenon, <1>1, <1>2, <1>4, <1>8, ToCoreElements
  <1> HIDE DEF t
  <1>10. MoveLoads(load_q[c], c, t)
    BY Zenon, <1>1, <1>2, <1>9, CombineMoves DEF Types
  <1>11. Moved(load_q[c], c, t)
    BY Zenon, <1>1, <1>4, <1>9, <1>10 DEF Moved
  <1> QED
    BY Zenon, <1>1, <1>4, <1>9, <1>11 DEF t

\* Level 3 moves all loads of a stream, or none.
LEMMA L3MoveMoves ==
    ASSUME Inv, L3Move
    PROVE  \E c \in Greatest(todo, qdepth) :
             /\ todo' = todo \ {c}
             /\ c \in Cores
             /\ \/ UNCHANGED <<ios, placeVars>>
                \/ /\ Moved(load_q[c], c, to)
                   /\ abtst_combine_streams(c, to)
                   /\ ios' = ios + qdepth[c]
                   /\ ios + qdepth[c] <= limit
  <1>1. Types /\ Leveling /\ pc = "l3move" /\ part_id' = part_id
    BY Zenon DEF Inv, Control, L3Move
  <1>2. PICK f \in Numas \ {NumaOf[to]} : todo \subseteq StreamsOf(part_id, f, part_id[to])
    BY Zenon, <1>1 DEF Leveling
  <1>3. to \in Cores /\ NumaOf[to] \in Awake
    BY Zenon, <1>1 DEF Leveling
  <1>4. PICK c \in Greatest(todo, qdepth) :
            /\ todo' = todo \ {c}
            /\ IF qdepth[c] = 0 \/ ios + qdepth[c] > limit
               THEN UNCHANGED <<ios, load_q, dest_rank, qdepth>>
               ELSE /\ ios' = ios + qdepth[c]
                    /\ abtst_combine_streams(c, to)
    BY Zenon DEF L3Move
  <1>5. c \in StreamsOf(part_id, f, part_id[to])
    BY Zenon, <1>2, <1>4 DEF Greatest
  <1>6. c \in Cores /\ NumaOf[c] = f /\ part_id[c] = part_id[to]
    BY <1>5, StreamsElements
  <1>7. c # to
    BY Zenon, <1>2, <1>6
  <1>8. CASE qdepth[c] = 0 \/ ios + qdepth[c] > limit
    <2>1. UNCHANGED <<ios, placeVars>>
      BY Zenon, <1>1, <1>4, <1>8 DEF placeVars
    <2> QED
      BY Zenon, <1>4, <1>6, <2>1
  <1>9. CASE ~(qdepth[c] = 0 \/ ios + qdepth[c] > limit)
    <2>1. ios' = ios + qdepth[c] /\ abtst_combine_streams(c, to)
      BY Zenon, <1>4, <1>9
    <2>2. MoveLoads(load_q[c], c, to)
      BY Zenon, <1>1, <1>3, <1>6, <2>1, CombineMoves DEF Types
    <2>3. Moved(load_q[c], c, to)
      BY Zenon, <1>1, <1>3, <1>6, <1>7, <2>2 DEF Moved
    <2>4. ios + qdepth[c] <= limit
      BY <1>1, <1>6, <1>9 DEF Types, PlaceTypes, WorkTypes
    <2> QED
      BY Zenon, <1>4, <1>6, <2>1, <2>3, <2>4
  <1> QED
    BY Zenon, <1>8, <1>9

\* Level 2 empties a stream of a partition that can give one, and gives it away.
LEMMA L2MoveMoves ==
    ASSUME Inv, L2Move
    PROVE  \E f, t \in Cores, p \in Parts :
             /\ CoreGiven(f, t, p)
             /\ abtst_combine_streams(f, t)
             /\ p # part_id[f] /\ NumaOf[f] = numa_id
             /\ CanGive(numa_id, part_id[f]) /\ NeedsCore(numa_id, p)
  <1>1. Types /\ CoresCounted /\ pc = "l2" /\ numa_id \in Numas
    BY Zenon DEF Inv, Control, L2Move, Types, LoopTypes
  <1>2a. PICK o \in SortedParts(numa_id) : \E pair \in PartPair(numa_id, o) :
            \E q \in Sorted(StreamsOf(part_id, numa_id, pair[1]), qdepth) :
                LET borrowed == {i \in 1..Len(q) : part_id[q[i]] # PartMap[q[i]]}
                    i == IF borrowed = {} THEN 1 ELSE Min(borrowed)
                    j == IF i = 1 THEN 2 ELSE 1
                IN /\ abtst_combine_streams(q[i], q[j])
                   /\ part_id' = [part_id EXCEPT ![q[i]] = pair[2]]
    BY Zenon DEF L2Move
  <1>2. PICK pair \in PartPair(numa_id, o) :
            \E q \in Sorted(StreamsOf(part_id, numa_id, pair[1]), qdepth) :
                LET borrowed == {i \in 1..Len(q) : part_id[q[i]] # PartMap[q[i]]}
                    i == IF borrowed = {} THEN 1 ELSE Min(borrowed)
                    j == IF i = 1 THEN 2 ELSE 1
                IN /\ abtst_combine_streams(q[i], q[j])
                   /\ part_id' = [part_id EXCEPT ![q[i]] = pair[2]]
    BY <1>2a, Zenon
  <1> DEFINE S == StreamsOf(part_id, numa_id, pair[1])
  <1>3. PICK q \in Sorted(S, qdepth) :
                LET borrowed == {i \in 1..Len(q) : part_id[q[i]] # PartMap[q[i]]}
                    i == IF borrowed = {} THEN 1 ELSE Min(borrowed)
                    j == IF i = 1 THEN 2 ELSE 1
                IN /\ abtst_combine_streams(q[i], q[j])
                   /\ part_id' = [part_id EXCEPT ![q[i]] = pair[2]]
    BY <1>2, Zenon
  <1> DEFINE borrowed == {i \in 1..Len(q) : part_id[q[i]] # PartMap[q[i]]}
             i == IF borrowed = {} THEN 1 ELSE Min(borrowed)
             j == IF i = 1 THEN 2 ELSE 1
  <1>4. abtst_combine_streams(q[i], q[j]) /\ part_id' = [part_id EXCEPT ![q[i]] = pair[2]]
    BY <1>3, Zenon
  <1>5. /\ pair[1] \in Parts /\ pair[2] \in Parts /\ pair[1] # pair[2]
        /\ CanGive(numa_id, pair[1]) /\ NeedsCore(numa_id, pair[2])
    BY Zenon, PartPairElements
  <1>6. IsFiniteSet(S)
    BY Zenon, FiniteParts
  <1>7. /\ Len(q) = Cardinality(S)
        /\ \A k \in 1..Len(q) : q[k] \in S
        /\ \A k, m \in 1..Len(q) : k # m => q[k] # q[m]
    BY Zenon, <1>6, SortedElements
  <1>8. Len(q) \in Nat /\ Len(q) > 1
    <2>1. numa_stats[pair[1]][numa_id].used_cores > 1
      BY Zenon, <1>5 DEF CanGive
    <2>2. numa_stats[pair[1]][numa_id].used_cores = Cardinality(S)
      BY Zenon, <1>1, <1>5 DEF CoresCounted
    <2>3. Cardinality(S) \in Nat
      BY Zenon, <1>6, FS_CardinalityType
    <2> HIDE DEF S
    <2> QED
      BY Zenon, <1>7, <2>1, <2>2, <2>3
  <1>9. i \in 1..Len(q)
    <2>1. CASE borrowed = {}
      BY <1>8, <2>1
    <2>2. CASE borrowed # {}
      <3>1. borrowed \in SUBSET Nat /\ borrowed \subseteq 1..Len(q)
        BY <1>8
      <3> HIDE DEF borrowed
      <3>2. Min(borrowed) \in borrowed
        BY Zenon, <2>2, <3>1, MinNat
      <3> QED
        BY <2>2, <3>1, <3>2, Zenon
    <2> HIDE DEF borrowed
    <2> QED
      BY Zenon, <2>1, <2>2
  <1> HIDE DEF i
  <1>10. j \in 1..Len(q) /\ j # i
    BY <1>8
  <1> HIDE DEF j, S
  <1>11. q[i] \in S /\ q[j] \in S /\ q[i] # q[j]
    BY Zenon, <1>7, <1>9, <1>10
  <1>12. /\ q[i] \in Cores /\ NumaOf[q[i]] = numa_id /\ part_id[q[i]] = pair[1]
         /\ q[j] \in Cores /\ NumaOf[q[j]] = numa_id /\ part_id[q[j]] = pair[1]
    BY <1>11, StreamsElements DEF S
  <1>13. MoveLoads(load_q[q[i]], q[i], q[j])
    BY Zenon, <1>1, <1>4, <1>12, CombineMoves DEF Types
  <1>14. CoreGiven(q[i], q[j], pair[2])
    BY <1>4, <1>5, <1>11, <1>12, <1>13, Zenon DEF CoreGiven
  <1> QED
    BY Zenon, <1>4, <1>5, <1>12, <1>14

\* Level 1 moves loads between the two streams it has chosen.
LEMMA MigrateMoves ==
    ASSUME Inv, pc \in {"foreign", "own"}, NEW L \in SUBSET load_q[from], L # {},
           MoveLoads(L, from, to), part_id' = part_id
    PROVE  Moved(L, from, to)
  <1>1. Types /\ Picking /\ PsConsistent
    BY Zenon DEF Inv, Control
  <1>2. from \in PartStreams /\ to \in PartStreams /\ from # to
    BY Zenon, <1>1 DEF Picking
  <1>3. /\ from \in Cores /\ to \in Cores /\ NumaOf[from] = NumaOf[to]
        /\ part_id[from] = part_id[to]
    BY <1>2, StreamsElements DEF PartStreams
  <1>4. NumaOf[from] \in Awake
    BY Zenon, <1>1, <1>3 DEF PsConsistent
  <1> QED
    BY Zenon, <1>2, <1>3, <1>4 DEF Moved

LEMMA L1ForeignMoves ==
    ASSUME Inv, L1Foreign
    PROVE  \/ UNCHANGED placeVars
           \/ \E L \in SUBSET load_q[from] :
                Moved(L, from, to) /\ Migrate(L, Total(size, L))
  <1> DEFINE F == {l \in load_q[from] : curr_rank[l] # init_rank[l]}
  <1>1. pc = "foreign" /\ part_id' = part_id
    BY Zenon DEF L1Foreign
  <1>2. CASE F = {}
    <2>1. UNCHANGED <<load_q, dest_rank, qdepth>>
      BY Zenon, <1>2 DEF L1Foreign
    <2> QED
      BY Zenon, <1>1, <2>1 DEF placeVars
  <1>3. CASE F # {}
    <2>1. Migrate(F, Total(size, F))
      BY Zenon, <1>3 DEF L1Foreign
    <2>2. F \in SUBSET load_q[from]
      BY Zenon
    <2> HIDE DEF F
    <2>3. Moved(F, from, to)
      BY Zenon, <1>1, <1>3, <2>1, <2>2, MigrateMoves DEF Migrate
    <2> QED
      BY Zenon, <2>1, <2>2, <2>3
  <1> QED
    BY Zenon, <1>2, <1>3

LEMMA L1MoveMoves ==
    ASSUME Inv, L1Move
    PROVE  \/ UNCHANGED placeVars
           \/ /\ Moved(mloads, from, to) /\ mloads # {}
              /\ Migrate(mloads, ios - qdepth[to])
           \/ /\ Moved({min_load}, from, to) /\ mloads = {} /\ SmallestGoes
              /\ Migrate({min_load}, min_lsize)
  <1>1. pc = "own" /\ part_id' = part_id
    BY Zenon DEF L1Move
  <1>2. Picking
    BY Zenon DEF Inv, Control
  <1>3. CASE mloads # {} /\ Migrate(mloads, ios - qdepth[to])
    <2>1. Moved(mloads, from, to)
      BY Zenon, <1>1, <1>2, <1>3, MigrateMoves DEF Picking, Migrate
    <2> QED
      BY Zenon, <1>3, <2>1
  <1>4. CASE mloads = {} /\ SmallestGoes /\ Migrate({min_load}, min_lsize)
    <2>1. {min_load} \in SUBSET load_q[from]
      BY Zenon, <1>1, <1>2, <1>4 DEF Picking, SmallestGoes
    <2>2. Moved({min_load}, from, to)
      BY Zenon, <1>1, <1>4, <2>1, MigrateMoves DEF Migrate
    <2> QED
      BY Zenon, <1>4, <2>2
  <1>5. CASE UNCHANGED <<load_q, dest_rank, qdepth>>
    BY Zenon, <1>1, <1>5 DEF placeVars
  <1> QED
    BY Zenon, <1>3, <1>4, <1>5 DEF L1Move

\* Power saving and levels 3 and 2 move loads by combining streams only.
LEMMA CombineSteps ==
    ASSUME Inv, L3Move \/ L2Move \/ \E c \in Cores : PsMove(c)
    PROVE  /\ pc \in {"psmove", "l3move", "l2"}
           /\ UNCHANGED envVars
           /\ \/ UNCHANGED <<load_q, qdepth>>
              \/ \E f, t \in Cores : f # t /\ abtst_combine_streams(f, t)
  <1>1. pc \in {"psmove", "l3move", "l2"} /\ UNCHANGED envVars
    BY Zenon DEF L3Move, L2Move, PsMove
  <1>2. CASE L3Move
    BY <1>1, <1>2, L3MoveMoves, Zenon DEF Moved, placeVars
  <1>3. CASE L2Move
    BY Zenon, <1>1, <1>3, L2MoveMoves DEF CoreGiven
  <1>4. ASSUME NEW c \in Cores, PsMove(c)
        PROVE  \E f, t \in Cores : f # t /\ abtst_combine_streams(f, t)
    BY <1>4, PsMoveMoves, Zenon DEF Moved
  <1> QED
    BY Zenon, <1>1, <1>2, <1>3, <1>4

-----------------------------------------------------------------------------
(* Moving loads and their queue depths.                                    *)

LEMMA DepthTypes ==
    ASSUME PlaceTypes, EnvTypes
    PROVE  /\ \A L \in SUBSET Loads : Total(size, L) \in Nat
           /\ abtst_update_streams_stat \in [Cores -> Nat]
  <1>1. ASSUME NEW L \in SUBSET Loads PROVE Total(size, L) \in Nat
    <2>1. IsFiniteSet(L)
      BY Zenon, CoresAssumption, FS_Subset
    <2> QED
      BY Zenon, <2>1, TotalNat DEF EnvTypes
  <1>2. \A c \in Cores : load_q[c] \in SUBSET Loads
    BY Zenon DEF PlaceTypes
  <1> QED
    BY Zenon, <1>1, <1>2 DEF abtst_update_streams_stat, get_stream_ios

LEMMA MigrateDepths ==
    ASSUME PlaceTypes, NEW L, NEW n \in Nat, Migrate(L, n)
    PROVE  qdepth' \in [Cores -> Nat]
  <1>1. qdepth \in [Cores -> Nat] /\ Word \in Nat \ {0}
    BY Zenon, ValuesAssumption DEF PlaceTypes
  <1>2. qdepth' = [qdepth EXCEPT ![from] = (qdepth[from] - n) % Word,
                                 ![to] = qdepth[to] + n]
    BY Zenon DEF Migrate
  <1>3. from \in Cores => (qdepth[from] - n) % Word \in Nat
    BY <1>1
  <1>4. to \in Cores => qdepth[to] + n \in Nat
    BY <1>1
  <1> QED
    BY <1>1, <1>2, <1>3, <1>4, Zenon

\* Combining streams moves the queue depth of f to t, and nothing else.
LEMMA CombineDepths ==
    ASSUME PlaceTypes, NEW f \in Cores, NEW t \in Cores, f # t,
           abtst_combine_streams(f, t)
    PROVE  /\ qdepth'[f] + qdepth'[t] = qdepth[f] + qdepth[t]
           /\ \A c \in Cores \ {f, t} : qdepth'[c] = qdepth[c]
           /\ load_q[f] # {} => qdepth'[f] = 0 /\ qdepth'[t] = qdepth[f] + qdepth[t]
           /\ load_q[f] = {} => qdepth' = qdepth
  <1>1. qdepth \in [Cores -> Nat]
    BY Zenon DEF PlaceTypes
  <1>2. CASE load_q[f] = {}
    BY Zenon, <1>1, <1>2 DEF abtst_combine_streams
  <1>3. CASE load_q[f] # {}
    <2>1. qdepth' = [qdepth EXCEPT ![t] = qdepth[f] + qdepth[t], ![f] = 0]
      BY Zenon, <1>3 DEF abtst_combine_streams
    <2>2. qdepth'[f] = 0 /\ qdepth'[t] = qdepth[f] + qdepth[t]
      BY Zenon, <1>1, <2>1
    <2>3. \A c \in Cores \ {f, t} : qdepth'[c] = qdepth[c]
      BY Zenon, <1>1, <2>1
    <2>4. qdepth[f] \in Nat /\ qdepth[t] \in Nat
      BY Zenon, <1>1
    <2> QED
      BY <1>3, <2>2, <2>3, <2>4
  <1> QED
    BY Zenon, <1>2, <1>3

\* Streams that belong to a set of streams both, or neither, leave its total.
LEMMA CombineTotal ==
    ASSUME PlaceTypes, PlaceTypes', NEW f \in Cores, NEW t \in Cores, f # t,
           abtst_combine_streams(f, t), NEW S \in SUBSET Cores,
           f \in S <=> t \in S
    PROVE  Total(qdepth', S) = Total(qdepth, S)
  <1>1. IsFiniteSet(S)
    BY CoresAssumption, FS_Subset, Zenon
  <1>2. \A c \in S : qdepth[c] \in Nat /\ qdepth'[c] \in Nat
    BY Zenon DEF PlaceTypes
  <1>3. /\ qdepth'[f] + qdepth'[t] = qdepth[f] + qdepth[t]
        /\ \A c \in Cores \ {f, t} : qdepth'[c] = qdepth[c]
    BY Zenon, CombineDepths
  <1>4. CASE f \in S
    BY <1>1, <1>2, <1>3, <1>4, TotalTransfer
  <1>5. CASE f \notin S
    <2>1. \A c \in S : qdepth'[c] = qdepth[c]
      BY Zenon, <1>3, <1>5
    <2> QED
      BY Zenon, <1>1, <2>1, TotalSame
  <1> QED
    BY Zenon, <1>4, <1>5

\* Level 1 changes the queue depths of its two streams only.
LEMMA MigrateTotal ==
    ASSUME PlaceTypes, NEW L, NEW n, Migrate(L, n), NEW S \in SUBSET Cores,
           from \notin S, to \notin S
    PROVE  Total(qdepth', S) = Total(qdepth, S)
  <1>1. IsFiniteSet(S)
    BY CoresAssumption, FS_Subset, Zenon
  <1>2. \A c \in S : qdepth'[c] = qdepth[c]
    BY Zenon DEF Migrate, PlaceTypes
  <1> QED
    BY Zenon, <1>1, <1>2, TotalSame

\* No load is in the lists of two streams.
LEMMA ListsDisjoint ==
    ASSUME PlaceTypes, LoadPlacement, NEW f \in Cores, NEW t \in Cores, f # t
    PROVE  load_q[f] \cap load_q[t] = {}
  <1> SUFFICES ASSUME NEW l, l \in load_q[f], l \in load_q[t]
               PROVE  FALSE
    BY Zenon
  <1>1. l \in Loads
    BY Zenon DEF PlaceTypes
  <1>2. {c \in Cores : l \in load_q[c]} = {dest_rank[l]}
    BY Zenon, <1>1 DEF LoadPlacement
  <1> QED
    BY <1>2

\* Combining streams keeps the queue depths those of the loads.
LEMMA CombineExplains ==
    ASSUME PlaceTypes, LoadPlacement, NEW f \in Cores, NEW t \in Cores, f # t,
           abtst_combine_streams(f, t), NEW s \in [Loads -> Nat],
           \A c \in Cores : qdepth[c] = Total(s, load_q[c])
    PROVE  \A c \in Cores : qdepth'[c] = Total(s, load_q'[c])
  <1>1. CASE load_q[f] = {}
    BY Zenon, <1>1 DEF abtst_combine_streams
  <1>2. CASE load_q[f] # {}
    <2>1. load_q \in [Cores -> SUBSET Loads]
      BY Zenon DEF PlaceTypes
    <2>2. load_q' = [load_q EXCEPT ![f] = @ \ load_q[f], ![t] = @ \cup load_q[f]]
      BY Zenon, <1>2 DEF abtst_combine_streams, MoveLoads
    <2>3. /\ load_q'[f] = {} /\ load_q'[t] = load_q[t] \cup load_q[f]
          /\ \A c \in Cores \ {f, t} : load_q'[c] = load_q[c]
      BY Zenon, <2>1, <2>2
    <2>4. /\ qdepth'[f] = 0 /\ qdepth'[t] = qdepth[f] + qdepth[t]
          /\ \A c \in Cores \ {f, t} : qdepth'[c] = qdepth[c]
      BY Zenon, <1>2, CombineDepths
    <2>5. qdepth'[f] = Total(s, load_q'[f])
      BY Zenon, <2>3, <2>4, TotalEmpty
    <2>6. qdepth'[t] = Total(s, load_q'[t])
      <3>1. load_q[f] \in SUBSET Loads /\ load_q[t] \in SUBSET Loads
        BY Zenon, <2>1
      <3>2. /\ IsFiniteSet(load_q[f]) /\ IsFiniteSet(load_q[t])
            /\ \A l \in load_q[t] \cup load_q[f] : s[l] \in Nat
        BY Zenon, <3>1, CoresAssumption, FS_Subset
      <3>3. Total(s, load_q[t] \cup load_q[f]) = Total(s, load_q[t]) + Total(s, load_q[f])
        BY <3>2, ListsDisjoint, TotalUnion
      <3>4. qdepth[f] \in Nat /\ qdepth[t] \in Nat
        BY Zenon DEF PlaceTypes
      <3> QED
        BY <2>3, <2>4, <3>3, <3>4
    <2>7. \A c \in Cores \ {f, t} : qdepth'[c] = Total(s, load_q'[c])
      BY Zenon, <2>3, <2>4
    <2> QED
      BY Zenon, <2>5, <2>6, <2>7
  <1> QED
    BY Zenon, <1>1, <1>2

\* The queue depths of all loads together fit in a uint32_t.
DepthsFit == \A s \in [Loads -> Sizes \cup {0}] : Total(s, Loads) < Word

\* The sizes of any loads together fit in a uint32_t.
LEMMA TotalFits ==
    ASSUME DepthsFit, NEW s \in [Loads -> Sizes \cup {0}], NEW L \in SUBSET Loads
    PROVE  Total(s, L) \in Nat /\ Total(s, L) < Word
  <1>1. IsFiniteSet(Loads) /\ \A l \in Loads : s[l] \in Nat
    BY CoresAssumption, ValuesAssumption, Zenon
  <1>2. /\ Total(s, Loads) = Total(s, L) + Total(s, Loads \ L)
        /\ Total(s, L) \in Nat /\ Total(s, Loads \ L) \in Nat
    BY Zenon, <1>1, TotalSplit
  <1>3. Total(s, Loads) < Word /\ Word \in Nat
    BY Zenon, ValuesAssumption DEF DepthsFit
  <1> QED
    BY <1>2, <1>3

\* Migrating loads with their sizes keeps the queue depths those of the loads.
LEMMA MigrateExplains ==
    ASSUME Inv, pc \in {"foreign", "own"}, DepthsFit, size \in [Loads -> Sizes \cup {0}],
           \A c \in Cores : qdepth[c] = Total(size, load_q[c]),
           NEW L \in SUBSET load_q[from], Migrate(L, Total(size, L))
    PROVE  \A c \in Cores : qdepth'[c] = Total(size, load_q'[c])
  <1>1. /\ load_q \in [Cores -> SUBSET Loads] /\ qdepth \in [Cores -> Nat]
        /\ size \in [Loads -> Nat] /\ PlaceTypes /\ LoadPlacement
        /\ from \in Cores /\ to \in Cores /\ from # to
    BY Zenon, StreamsElements DEF Inv, Types, PlaceTypes, EnvTypes, Control, Picking, PartStreams
  <1>2. /\ load_q' = [load_q EXCEPT ![from] = @ \ L, ![to] = @ \cup L]
        /\ qdepth' = [qdepth EXCEPT ![from] = (qdepth[from] - Total(size, L)) % Word,
                                    ![to] = qdepth[to] + Total(size, L)]
    BY Zenon DEF Migrate, MoveLoads
  <1>3. /\ load_q'[from] = load_q[from] \ L /\ load_q'[to] = load_q[to] \cup L
        /\ \A c \in Cores \ {from, to} : load_q'[c] = load_q[c]
    BY Zenon, <1>1, <1>2
  <1>4. /\ qdepth'[from] = (qdepth[from] - Total(size, L)) % Word
        /\ qdepth'[to] = qdepth[to] + Total(size, L)
        /\ \A c \in Cores \ {from, to} : qdepth'[c] = qdepth[c]
    BY Zenon, <1>1, <1>2
  <1>5. load_q[from] \in SUBSET Loads /\ load_q[to] \in SUBSET Loads /\ L \in SUBSET Loads
    BY Zenon, <1>1
  <1>6. /\ IsFiniteSet(load_q[from]) /\ IsFiniteSet(load_q[to]) /\ IsFiniteSet(L)
    BY Zenon, <1>5, CoresAssumption, FS_Subset
  <1>7. qdepth'[from] = Total(size, load_q'[from])
    <2>1. /\ Total(size, load_q[from]) = Total(size, L) + Total(size, load_q[from] \ L)
          /\ Total(size, L) \in Nat /\ Total(size, load_q[from] \ L) \in Nat
      BY <1>1, <1>5, <1>6, TotalSplit, Zenon
    <2>2. load_q[from] \ L \in SUBSET Loads
      BY Zenon, <1>5
    <2>3. Total(size, load_q[from] \ L) < Word /\ Word \in Nat \ {0}
      BY Zenon, <2>2, TotalFits, ValuesAssumption
    <2>4. qdepth[from] - Total(size, L) = Total(size, load_q[from] \ L)
      BY <1>1, <2>1
    <2>5. Total(size, load_q[from] \ L) % Word = Total(size, load_q[from] \ L)
      BY <2>1, <2>3
    <2> QED
      BY Zenon, <1>3, <1>4, <2>4, <2>5
  <1>8. qdepth'[to] = Total(size, load_q'[to])
    <2>1. L \cap load_q[to] = {}
      BY Zenon, <1>1, ListsDisjoint
    <2>2. \A l \in load_q[to] \cup L : size[l] \in Nat
      BY Zenon, <1>1, <1>5
    <2>3. Total(size, load_q[to] \cup L) = Total(size, load_q[to]) + Total(size, L)
      BY <1>6, <2>1, <2>2, TotalUnion
    <2> QED
      BY Zenon, <1>1, <1>3, <1>4, <2>3
  <1>9. \A c \in Cores \ {from, to} : qdepth'[c] = Total(size, load_q'[c])
    BY Zenon, <1>3, <1>4
  <1> QED
    BY Zenon, <1>7, <1>8, <1>9

-----------------------------------------------------------------------------
(* Which steps lead to a stage.                                            *)

LEMMA OutsideSteps ==
    ASSUME Environment \/ UNCHANGED vars
    PROVE  UNCHANGED <<placeVars, statVars, psVars, loopVars, workVars, pc, level>>
  BY Zenon DEF Environment, Land, SizeChange, Sleep, vars

\* The steps of the stages that later proofs tell apart.
LEMMA StageActions ==
    ASSUME RebStep
    PROVE  /\ pc = "stat" => UpdateStat \/ TrapInStat
           /\ pc = "reset" => ResetStat
           /\ pc = "l3move" => L3Move \/ L3End
           /\ pc = "l1" => L1Keep \/ L1Start
           /\ pc = "foreign" => L1Foreign
           /\ pc = "own" => L1Move \/ \E l \in Loads : L1Pick(l)
  BY Zenon DEF RebStep, UpdateStat, TrapInStat, ReadLevel, ResetStat, PsKeep, PsSleep, PsSlept,
               PsWake, PsMove, L3Keep, L3Start, L3StartAmong, L3Move, L3End, L2Keep, L2Move,
               TrapInSort, L1Keep, L1Start, L1Foreign, L1Move, L1Pick

LEMMA StageSteps ==
    ASSUME RebStep
    PROVE  /\ pc' = "psmove" => PsSleep \/ \E c \in Cores : PsMove(c)
           /\ pc' = "l3move" => L3Start \/ L3Move
           /\ pc' = "foreign" => L1Start
           /\ pc' = "own" => L1Foreign \/ \E l \in Loads : L1Pick(l)
           /\ pc' \notin {"stat", "trap"} => UpdateStat \/ pc \notin {"stat", "trap"}
           /\ pc # "trap"
  <1>1. CASE UpdateStat \/ TrapInStat \/ ReadLevel \/ ResetStat
    <2>1. CASE ReadLevel
      <3>1. level' \in 0..3
        BY Zenon, <2>1, ValuesAssumption DEF ReadLevel
      <3>2. pc = "level" /\ pc' \in {"ps", "l2", "l1", "reset"}
        BY <2>1, <3>1 DEF ReadLevel
      <3> QED
        BY Zenon, <3>2
    <2>2. CASE UpdateStat \/ TrapInStat \/ ResetStat
      BY Zenon, <2>2 DEF UpdateStat, TrapInStat, ResetStat
    <2> QED
      BY Zenon, <1>1, <2>1, <2>2
  <1>2. CASE PsKeep \/ PsSleep \/ PsSlept \/ PsWake \/ \E c \in Cores : PsMove(c)
    BY <1>2, Zenon DEF PsKeep, PsSleep, PsSlept, PsWake, PsMove
  <1>3. CASE L3Keep \/ L3Start \/ L3Move \/ L3End
    BY <1>3, Zenon DEF L3Keep, L3Start, L3StartAmong, L3Move, L3End
  <1>4. CASE L2Keep \/ L2Move \/ TrapInSort
    BY <1>4, Zenon DEF L2Keep, L2Move, TrapInSort, NextNuma
  <1>5. CASE L1Keep \/ L1Start \/ L1Foreign
    BY <1>5, Zenon DEF L1Keep, L1Start, L1Foreign, Migrate, NextPartition
  <1>6. CASE L1Move
    BY Zenon, <1>6 DEF L1Move, Migrate, NextPartition
  <1>7. CASE \E l \in Loads : L1Pick(l)
    BY <1>7, Zenon DEF L1Pick
  <1> QED
    BY Zenon, <1>1, <1>2, <1>3, <1>4, <1>5, <1>6, <1>7 DEF RebStep

\* The two streams that level 1 chooses.
LEMMA L1StartEnds ==
    ASSUME Inv, L1Start
    PROVE  /\ from' \in PartStreams /\ to' \in PartStreams /\ from' # to'
           /\ ios' = qdepth[to'] /\ Avg \in Nat /\ PartStat.used_cores > 1
           /\ qdepth[to'] < Avg /\ qdepth[from'] > Avg
           /\ 2 * qdepth[from'] >= 3 * qdepth[to']
  <1>1. PICK e \in Ends : /\ NeedsRebalance(e[1], e[2])
                          /\ to' = e[1] /\ from' = e[2] /\ ios' = qdepth[e[1]]
    BY Zenon DEF L1Start
  <1>2. from' \in PartStreams /\ to' \in PartStreams
    BY Zenon, <1>1 DEF Ends, Least, Greatest
  <1>3. qdepth[from'] \in Nat /\ qdepth[to'] \in Nat
    BY Zenon, <1>2, StreamsElements DEF PartStreams, Inv, Types, PlaceTypes
  <1>4. PartStat.used_cores > 1
    BY Zenon DEF L1Start
  <1>5. Avg \in Nat
    BY Zenon, <1>4, AvgType DEF Inv, Types
  <1>6. /\ qdepth[to'] < Avg /\ qdepth[from'] > Avg
        /\ 2 * qdepth[from'] >= 3 * qdepth[to']
    BY Zenon, <1>1 DEF NeedsRebalance
  <1>7. from' # to'
    BY <1>3, <1>5, <1>6
  <1> QED
    BY Zenon, <1>1, <1>2, <1>4, <1>5, <1>6, <1>7
=============================================================================
