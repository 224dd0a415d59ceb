--------------------------------- MODULE Sums ---------------------------------
(***************************************************************************)
(* The sum of a function over a finite set, as MapThenSumSet computes it:  *)
(* by a recursion over the subsets that takes out some element at a time.  *)
(* Which one does not matter.                                              *)
(***************************************************************************)
EXTENDS Integers, FiniteSetTheorems, WellFoundedInduction, TLAPS

\* Induction over the naturals, for a set of them.
LEMMA NatSetInduction ==
    ASSUME NEW P, 0 \in P, \A n \in Nat : n \in P => n + 1 \in P
    PROVE  \A n \in Nat : n \in P
<1> DEFINE T == Nat \ P
           Below == OpToRel(<, Nat)
<1> SUFFICES ASSUME T # {} PROVE FALSE
  OBVIOUS
<1>1. IsWellFoundedOn(Below, Nat)
  BY NatLessThanWellFounded
<1>2. PICK n \in T : \A m \in T : <<m, n>> \notin Below
  <2>1. T \subseteq Nat
    OBVIOUS
  <2> HIDE DEF Below, T
  <2>2. QED  BY <1>1, <2>1, WFMin
<1>3. n \in Nat /\ n # 0 /\ n \notin P
  OBVIOUS
<1>4. n - 1 \in Nat /\ (n - 1) + 1 = n
  BY <1>3
<1>5. n - 1 \in T
  BY <1>3, <1>4
<1>6. <<n - 1, n>> \in Below
  BY <1>3, <1>4 DEF OpToRel
<1>7. QED  BY <1>2, <1>5, <1>6

\* The element a sum takes out first.
Some(s) == CHOOSE x \in s : TRUE

\* g sums F over the subsets of S, one element after another.
SumsOf(g, F, S) ==
    g = [s \in SUBSET S |-> IF s = {} THEN 0 ELSE F[Some(s)] + g[s \ {Some(s)}]]

\* The subsets of up to n elements.
UpTo(S, n) == {s \in SUBSET S : Cardinality(s) <= n}

\* g sums F over the subsets of up to n elements.
Partial(g, F, S, n) ==
    /\ \A s \in UpTo(S, n) : g[s] \in Int
    /\ g[{}] = 0
    /\ \A s \in UpTo(S, n) : s # {} => g[s] = F[Some(s)] + g[s \ {Some(s)}]

\* A set without one of its elements has one fewer.
LEMMA SmallerSet ==
    ASSUME NEW S, IsFiniteSet(S), NEW s \in SUBSET S, NEW x \in s
    PROVE  /\ s \ {x} \in SUBSET S
           /\ Cardinality(s) \in Nat \ {0} /\ Cardinality(s \ {x}) = Cardinality(s) - 1
<1>1. IsFiniteSet(s)
  BY FS_Subset
<1>2. Cardinality(s) \in Nat /\ Cardinality(s \ {x}) \in Nat
      /\ Cardinality(s \ {x}) = Cardinality(s) - 1
  BY <1>1, FS_RemoveElement, FS_CardinalityType
<1>3. QED  BY <1>2

\* The element taken out is one of the set.
LEMMA SomeIn == \A s : s # {} => Some(s) \in s
  BY DEF Some

\* There is such a function.
LEMMA SumsExist ==
    ASSUME NEW S, IsFiniteSet(S), NEW F, \A x \in S : F[x] \in Int
    PROVE  \E g : SumsOf(g, F, S)
<1> DEFINE P == {n \in Nat : \E g : Partial(g, F, S, n)}
<1>1. \A s \in SUBSET S : Cardinality(s) \in Nat /\ (Cardinality(s) = 0 <=> s = {})
  BY FS_Subset, FS_CardinalityType, FS_EmptySet
<1>2. 0 \in P
  <2> DEFINE g == [s \in SUBSET S |-> 0]
  <2>1. \A s \in UpTo(S, 0) : s = {}
    BY <1>1 DEF UpTo
  <2>2. g[{}] = 0
    OBVIOUS
  <2> HIDE DEF g
  <2>3. Partial(g, F, S, 0)
    BY <2>1, <2>2 DEF Partial
  <2>4. QED  BY <2>3
<1>3. ASSUME NEW n \in Nat, n \in P PROVE n + 1 \in P
  <2>1. PICK g : Partial(g, F, S, n)
    BY <1>3
  <2> DEFINE h == [s \in SUBSET S |-> IF Cardinality(s) <= n THEN g[s]
                                      ELSE F[Some(s)] + g[s \ {Some(s)}]]
  <2>2. \A s \in SUBSET S : Cardinality(s) <= n => h[s] = g[s]
    OBVIOUS
  <2>3. \A s \in SUBSET S : ~(Cardinality(s) <= n) => h[s] = F[Some(s)] + g[s \ {Some(s)}]
    OBVIOUS
  <2> HIDE DEF h
  <2>4. h[{}] = 0
    <3>1. {} \in SUBSET S /\ Cardinality({}) = 0
      BY FS_EmptySet
    <3>2. QED  BY <2>1, <2>2, <3>1 DEF Partial
  <2>5. ASSUME NEW s \in UpTo(S, n + 1), s # {}
        PROVE  h[s] \in Int /\ h[s] = F[Some(s)] + h[s \ {Some(s)}]
    <3> DEFINE t == s \ {Some(s)}
    <3>1. /\ s \in SUBSET S /\ Some(s) \in s /\ t \in SUBSET S
          /\ Cardinality(s) \in Nat /\ Cardinality(t) \in Nat /\ Cardinality(s) <= n + 1
          /\ Cardinality(t) = Cardinality(s) - 1
      BY <2>5, SomeIn, SmallerSet DEF UpTo
    <3>2. F[Some(s)] \in Int
      BY <3>1
    <3> HIDE DEF t
    <3>3. Cardinality(t) <= n
      BY <3>1
    <3>4. h[t] = g[t] /\ g[t] \in Int
      BY <2>1, <2>2, <3>1, <3>3 DEF Partial, UpTo
    <3>5. h[s] = F[Some(s)] + g[t]
      <4>1. CASE Cardinality(s) <= n
        BY <2>1, <2>2, <2>5, <3>1, <4>1 DEF Partial, UpTo, t
      <4>2. CASE ~(Cardinality(s) <= n)
        BY <2>3, <3>1, <4>2 DEF t
      <4>3. QED  BY <4>1, <4>2
    <3>6. QED  BY <3>2, <3>4, <3>5 DEF t
  <2>6. ASSUME NEW s \in UpTo(S, n + 1) PROVE h[s] \in Int
    <3>1. CASE s = {}
      BY <2>4, <3>1
    <3>2. CASE s # {}
      BY <2>5, <3>2
    <3>3. QED  BY <3>1, <3>2
  <2>7. Partial(h, F, S, n + 1)
    BY <2>4, <2>5, <2>6 DEF Partial
  <2>8. QED  BY <2>7
<1> HIDE DEF P
<1>4. \A n \in Nat : n \in P
  BY <1>2, <1>3, NatSetInduction
<1>5. Cardinality(S) \in Nat /\ \A s \in SUBSET S : Cardinality(s) <= Cardinality(S)
  BY FS_Subset, FS_CardinalityType
<1>6. UpTo(S, Cardinality(S)) = SUBSET S
  BY <1>5 DEF UpTo
<1>7. PICK g : Partial(g, F, S, Cardinality(S))
  BY <1>4, <1>5 DEF P
<1> DEFINE h == [s \in SUBSET S |-> g[s]]
<1>8. ASSUME NEW s \in SUBSET S
      PROVE  h[s] = IF s = {} THEN 0 ELSE F[Some(s)] + h[s \ {Some(s)}]
  BY <1>6, <1>7 DEF Partial
<1>9. h = [s \in SUBSET S |-> h[s]]
  OBVIOUS
<1> HIDE DEF h
<1>10. h = [s \in SUBSET S |-> IF s = {} THEN 0 ELSE F[Some(s)] + h[s \ {Some(s)}]]
  BY <1>8, <1>9
<1>11. QED  BY <1>10 DEF SumsOf

Takes(g, F, S) ==
    /\ g[{}] = 0
    /\ \A s \in SUBSET S : g[s] \in Int /\ \A x \in s : g[s] = F[x] + g[s \ {x}]

\* Any element may be the one taken out.
LEMMA SumsTake ==
    ASSUME NEW S, IsFiniteSet(S), NEW F, \A x \in S : F[x] \in Int,
           NEW g, SumsOf(g, F, S)
    PROVE  Takes(g, F, S)
<1> DEFINE P == {n \in Nat : \A s \in SUBSET S : Cardinality(s) <= n =>
                    g[s] \in Int /\ \A x \in s : g[s] = F[x] + g[s \ {x}]}
<1>1. g[{}] = 0
  BY DEF SumsOf
<1>2. \A s \in SUBSET S : Cardinality(s) \in Nat /\ (Cardinality(s) = 0 <=> s = {})
  BY FS_Subset, FS_CardinalityType, FS_EmptySet
<1>3. 0 \in P
  <2> SUFFICES ASSUME NEW s \in SUBSET S, Cardinality(s) <= 0
               PROVE  g[s] \in Int /\ \A x \in s : g[s] = F[x] + g[s \ {x}]
    OBVIOUS
  <2>1. s = {}
    BY <1>2
  <2>2. QED  BY <1>1, <2>1
<1>4. ASSUME NEW n \in Nat, n \in P PROVE n + 1 \in P
  <2> SUFFICES ASSUME NEW s \in SUBSET S, Cardinality(s) <= n + 1
               PROVE  g[s] \in Int /\ \A x \in s : g[s] = F[x] + g[s \ {x}]
    OBVIOUS
  <2> DEFINE c == Some(s)
  <2>1. CASE s = {}
    BY <1>1, <2>1
  <2>2. CASE s # {}
    <3>1. c \in s
      BY <2>2, SomeIn
    <3>2. \A t \in SUBSET S : Cardinality(t) <= n =>
             g[t] \in Int /\ \A x \in t : g[t] = F[x] + g[t \ {x}]
      BY <1>4
    <3> HIDE DEF P
    <3>3. ASSUME NEW x \in s
          PROVE  /\ s \ {x} \in SUBSET S /\ Cardinality(s \ {x}) <= n
                 /\ g[s \ {x}] \in Int /\ F[x] \in Int
      <4>1. /\ s \ {x} \in SUBSET S /\ Cardinality(s) \in Nat
            /\ Cardinality(s \ {x}) = Cardinality(s) - 1
        BY SmallerSet
      <4>2. Cardinality(s \ {x}) <= n
        BY <4>1
      <4>3. QED  BY <3>2, <4>1, <4>2
    <3>4. g[s] = F[c] + g[s \ {c}]
      BY <2>2 DEF SumsOf
    <3> HIDE DEF c
    <3>5. F[c] \in Int /\ g[s \ {c}] \in Int
      BY <3>1, <3>3
    <3>6. ASSUME NEW x \in s PROVE g[s] = F[x] + g[s \ {x}]
      <4>1. CASE x = c
        BY <3>4, <4>1
      <4>2. CASE x # c
        <5>1. PICK r : r = (s \ {x}) \ {c}
          OBVIOUS
        <5>2. r = (s \ {c}) \ {x}
          BY <5>1
        <5>3. g[s \ {c}] = F[x] + g[r]
          BY <3>1, <3>2, <3>3, <4>2, <5>2
        <5>4. g[s \ {x}] = F[c] + g[r]
          BY <3>1, <3>2, <3>3, <4>2, <5>1
        <5>5. g[r] \in Int
          <6>1. s \ {x} \in SUBSET S /\ c \in s \ {x} /\ Cardinality(s \ {x}) <= n
            BY <3>1, <3>3, <4>2
          <6>2. /\ r \in SUBSET S /\ Cardinality(r) = Cardinality(s \ {x}) - 1
                /\ Cardinality(s \ {x}) \in Nat
            BY <5>1, <6>1, SmallerSet
          <6>3. Cardinality(r) <= n
            BY <6>1, <6>2
          <6>4. QED  BY <3>2, <6>2, <6>3
        <5>6. F[x] \in Int
          BY <3>3
        <5>7. QED  BY <3>4, <3>5, <5>3, <5>4, <5>5, <5>6
      <4>3. QED  BY <4>1, <4>2
    <3>7. g[s] \in Int
      BY <3>4, <3>5
    <3>8. QED  BY <3>6, <3>7
  <2>3. QED  BY <2>1, <2>2
<1> HIDE DEF P
<1>5. \A n \in Nat : n \in P
  BY <1>3, <1>4, NatSetInduction
<1>6. ASSUME NEW s \in SUBSET S
      PROVE  g[s] \in Int /\ \A x \in s : g[s] = F[x] + g[s \ {x}]
  <2>1. Cardinality(s) \in Nat /\ Cardinality(s) <= Cardinality(s)
    BY <1>2
  <2>2. QED  BY <1>5, <2>1 DEF P
<1>7. QED  BY <1>1, <1>6 DEF Takes
\* Two such functions agree where what they sum does.
LEMMA SumsAgree ==
    ASSUME NEW S, IsFiniteSet(S), NEW F, \A x \in S : F[x] \in Int,
           NEW g, SumsOf(g, F, S),
           NEW S2, IsFiniteSet(S2), NEW F2, \A x \in S2 : F2[x] \in Int,
           NEW g2, SumsOf(g2, F2, S2),
           NEW s0 \in SUBSET S, s0 \in SUBSET S2, \A x \in s0 : F[x] = F2[x]
    PROVE  g[s0] = g2[s0]
<1> DEFINE P == {n \in Nat : \A s \in SUBSET s0 : Cardinality(s) = n => g[s] = g2[s]}
<1>1. Takes(g, F, S)
  BY SumsTake
<1>2. Takes(g2, F2, S2)
  BY SumsTake
<1>3. \A s \in SUBSET s0 : /\ Cardinality(s) \in Nat /\ (Cardinality(s) = 0 <=> s = {})
                           /\ s \in SUBSET S /\ s \in SUBSET S2
  BY FS_Subset, FS_CardinalityType, FS_EmptySet
<1>4. 0 \in P
  BY <1>1, <1>2, <1>3 DEF Takes
<1>5. ASSUME NEW n \in Nat, n \in P PROVE n + 1 \in P
  <2> SUFFICES ASSUME NEW s \in SUBSET s0, Cardinality(s) = n + 1 PROVE g[s] = g2[s]
    OBVIOUS
  <2>1. PICK x \in s : TRUE
    BY <1>3
  <2>2. s \in SUBSET S /\ s \in SUBSET S2 /\ x \in s0
    BY <2>1
  <2>3. s \ {x} \in SUBSET s0 /\ Cardinality(s \ {x}) = n
    BY <2>1, <2>2, SmallerSet
  <2>4. g[s \ {x}] = g2[s \ {x}]
    BY <1>5, <2>3
  <2> HIDE DEF P
  <2>5. g[s] = F[x] + g[s \ {x}] /\ g2[s] = F2[x] + g2[s \ {x}]
    BY <1>1, <1>2, <2>1, <2>2 DEF Takes
  <2>6. QED  BY <2>2, <2>4, <2>5
<1> HIDE DEF P
<1>6. \A n \in Nat : n \in P
  BY <1>4, <1>5, NatSetInduction
<1>7. s0 \in SUBSET s0
  OBVIOUS
<1>8. QED  BY <1>3, <1>6, <1>7 DEF P

-----------------------------------------------------------------------------
(* The sum of F over S. *)

SumOver(F, S) == CHOOSE v : \E g : SumsOf(g, F, S) /\ v = g[S]

\* It is what any such function gives.
LEMMA SumOverIs ==
    ASSUME NEW S, IsFiniteSet(S), NEW F, \A x \in S : F[x] \in Int,
           NEW g, SumsOf(g, F, S)
    PROVE  SumOver(F, S) = g[S]
<1>1. PICK h : SumsOf(h, F, S) /\ SumOver(F, S) = h[S]
  BY DEF SumOver
<1>2. S \in SUBSET S
  OBVIOUS
<1>3. h[S] = g[S]
  BY <1>1, <1>2, SumsAgree
<1>4. QED  BY <1>1, <1>3

SumTakes(F, S) ==
    /\ SumOver(F, S) \in Int
    /\ S = {} => SumOver(F, S) = 0
    /\ \A x \in S : SumOver(F, S) = F[x] + SumOver(F, S \ {x})

\* The sum of nothing, and of one element and the others.
LEMMA SumOverTake ==
    ASSUME NEW S, IsFiniteSet(S), NEW F, \A x \in S : F[x] \in Int
    PROVE  SumTakes(F, S)
<1>1. PICK g : SumsOf(g, F, S)
  BY SumsExist
<1>2. S \in SUBSET S
  OBVIOUS
<1>3. SumOver(F, S) = g[S]
  BY <1>1, SumOverIs
<1>0. Takes(g, F, S)
  BY <1>1, SumsTake
<1>4. /\ g[{}] = 0 /\ g[S] \in Int /\ \A x \in S : g[S] = F[x] + g[S \ {x}]
  BY <1>0, <1>2 DEF Takes
<1>5. ASSUME NEW x \in S PROVE SumOver(F, S \ {x}) = g[S \ {x}]
  <2>1. PICK r : r = S \ {x}
    OBVIOUS
  <2>2. IsFiniteSet(r) /\ r \in SUBSET S /\ r \in SUBSET r /\ \A y \in r : F[y] \in Int
    BY <2>1, FS_Subset
  <2>3. PICK h : SumsOf(h, F, r)
    BY <2>2, SumsExist
  <2>4. SumOver(F, r) = h[r]
    BY <2>2, <2>3, SumOverIs
  <2>5. h[r] = g[r]
    BY <1>1, <2>2, <2>3, SumsAgree
  <2>6. QED  BY <2>1, <2>4, <2>5
<1>6. QED  BY <1>3, <1>4, <1>5 DEF SumTakes

\* The sum is what the summed values make it.
LEMMA SumOverSame ==
    ASSUME NEW S, IsFiniteSet(S), NEW F, NEW F2,
           \A x \in S : F[x] \in Int /\ F2[x] = F[x]
    PROVE  SumOver(F, S) = SumOver(F2, S)
<1>1. PICK g : SumsOf(g, F, S)
  BY SumsExist
<1>2. PICK h : SumsOf(h, F2, S)
  BY SumsExist
<1>3. S \in SUBSET S
  OBVIOUS
<1>4. g[S] = h[S]
  BY <1>1, <1>2, <1>3, SumsAgree
<1>5. SumOver(F, S) = g[S]
  BY <1>1, SumOverIs
<1>6. SumOver(F2, S) = h[S]
  BY <1>2, SumOverIs
<1>7. QED  BY <1>4, <1>5, <1>6

\* w sums a row of c values from its front.
RowSums(w, F, c) ==
    /\ w[0] = 0
    /\ \A i \in 1 .. c : F[i] \in Int /\ w[i] = w[i - 1] + F[i]

LEMMA SumOfRow ==
    ASSUME NEW c \in Nat, NEW F, NEW w, RowSums(w, F, c)
    PROVE  SumOver(F, 1 .. c) = w[c]
<1> DEFINE P == {n \in Nat : n <= c => SumOver(F, 1 .. n) = w[n]}
<1>1. 0 \in P
  <2>1. 1 .. 0 = {} /\ IsFiniteSet({})
    BY FS_EmptySet
  <2>2. SumOver(F, {}) = 0
    BY <2>1, SumOverTake DEF SumTakes
  <2>3. QED  BY <2>1, <2>2 DEF RowSums
<1>2. ASSUME NEW n \in Nat, n \in P PROVE n + 1 \in P
  <2> SUFFICES ASSUME n + 1 <= c PROVE SumOver(F, 1 .. n + 1) = w[n + 1]
    OBVIOUS
  <2>1. SumOver(F, 1 .. n) = w[n]
    BY <1>2
  <2> HIDE DEF P
  <2>2. /\ IsFiniteSet(1 .. n + 1) /\ n + 1 \in 1 .. n + 1
        /\ (1 .. n + 1) \ {n + 1} = 1 .. n
        /\ \A i \in 1 .. n + 1 : i \in 1 .. c
    <3>1. 1 \in Int /\ n + 1 \in Int
      OBVIOUS
    <3>2. IsFiniteSet(1 .. n + 1)
      BY <3>1, FS_Interval
    <3>3. QED  BY <3>2
  <2>3. \A i \in 1 .. n + 1 : F[i] \in Int
    BY <2>2 DEF RowSums
  <2>0. SumTakes(F, 1 .. n + 1)
    BY <2>2, <2>3, SumOverTake
  <2>4. SumOver(F, 1 .. n + 1) = F[n + 1] + SumOver(F, 1 .. n)
    BY <2>0, <2>2 DEF SumTakes
  <2>5. SumOver(F, 1 .. n) \in Int
    <3>1. IsFiniteSet(1 .. n)
      BY FS_Interval
    <3>2. \A i \in 1 .. n : F[i] \in Int
      BY <2>2 DEF RowSums
    <3>3. SumTakes(F, 1 .. n)
      BY <3>1, <3>2, SumOverTake
    <3>4. QED  BY <3>3 DEF SumTakes
  <2>6. n + 1 \in 1 .. c /\ (n + 1) - 1 = n
    BY <2>2
  <2>7. w[n + 1] = w[n] + F[n + 1] /\ F[n + 1] \in Int
    BY <2>6 DEF RowSums
  <2>8. QED  BY <2>1, <2>4, <2>5, <2>7
<1> HIDE DEF P
<1>3. \A n \in Nat : n \in P
  BY <1>1, <1>2, NatSetInduction
<1>4. QED  BY <1>3 DEF P

-----------------------------------------------------------------------------
(* Bounds on sums. *)

\* Induction over the subsets of a finite set, for a set of them.
LEMMA SubsetInduction ==
    ASSUME NEW S, IsFiniteSet(S), NEW P, {} \in P,
           \A T \in SUBSET S : (\E x \in T : T \ {x} \in P) => T \in P
    PROVE  \A T \in SUBSET S : T \in P
<1> DEFINE N == {n \in Nat : \A T \in SUBSET S : Cardinality(T) = n => T \in P}
<1>1. \A T \in SUBSET S : Cardinality(T) \in Nat /\ (Cardinality(T) = 0 <=> T = {})
  BY FS_Subset, FS_CardinalityType, FS_EmptySet
<1>2. 0 \in N
  BY <1>1
<1>3. ASSUME NEW n \in Nat, n \in N PROVE n + 1 \in N
  <2>1. ASSUME NEW T \in SUBSET S, Cardinality(T) = n + 1 PROVE T \in P
    <3>1. T # {}
      BY <1>1, <2>1
    <3>2. PICK x \in T : TRUE
      BY <3>1
    <3>3. PICK R : R = T \ {x}
      OBVIOUS
    <3>4. R \in SUBSET S /\ Cardinality(R) = (n + 1) - 1
      BY <2>1, <3>3, SmallerSet
    <3>5. R \in P
      BY <1>3, <3>4
    <3>6. QED  BY <3>3, <3>5
  <2>2. QED  BY <2>1
<1> HIDE DEF N
<1>4. \A n \in Nat : n \in N
  BY <1>2, <1>3, NatSetInduction
<1>5. QED  BY <1>1, <1>4 DEF N

\* Fewer and smaller values sum to no more.
LEMMA SumMono ==
    ASSUME NEW S, IsFiniteSet(S), NEW F, \A x \in S : F[x] \in Nat,
           NEW S2, NEW F2, S2 \subseteq S, \A x \in S2 : F2[x] \in Int /\ F2[x] <= F[x]
    PROVE  SumOver(F2, S2) <= SumOver(F, S)
<1> DEFINE P == {T \in SUBSET S : SumOver(F2, T \cap S2) <= SumOver(F, T)}
<1>1. ASSUME NEW T \in SUBSET S
      PROVE  SumTakes(F, T) /\ SumTakes(F2, T \cap S2)
  <2>1. IsFiniteSet(T) /\ IsFiniteSet(T \cap S2)
    BY FS_Subset
  <2>2. (\A x \in T : F[x] \in Int) /\ (\A x \in T \cap S2 : F2[x] \in Int)
    OBVIOUS
  <2>3. SumTakes(F, T)
    BY <2>1, <2>2, SumOverTake
  <2>4. PICK R : R = T \cap S2
    OBVIOUS
  <2>5. SumTakes(F2, R)
    BY <2>1, <2>2, <2>4, SumOverTake
  <2>6. QED  BY <2>3, <2>4, <2>5
<1>2. {} \in P
  <2>1. SumTakes(F, {}) /\ SumTakes(F2, {} \cap S2)
    BY <1>1
  <2>2. {} \cap S2 = {}
    OBVIOUS
  <2>3. SumOver(F, {}) = 0 /\ SumOver(F2, {}) = 0
    BY <2>1, <2>2 DEF SumTakes
  <2>4. QED  BY <2>2, <2>3
<1>3. ASSUME NEW T \in SUBSET S, NEW x \in T, T \ {x} \in P PROVE T \in P
  <2>1. PICK R : R = T \ {x}
    OBVIOUS
  <2>2. R \in SUBSET S /\ SumOver(F2, R \cap S2) <= SumOver(F, R)
    BY <1>3, <2>1
  <2>3. SumTakes(F, T) /\ SumTakes(F2, T \cap S2) /\ SumTakes(F, R) /\ SumTakes(F2, R \cap S2)
    BY <1>1, <2>2
  <2>4. SumOver(F, T) = F[x] + SumOver(F, R)
    BY <2>1, <2>3 DEF SumTakes
  <2>5. /\ SumOver(F, R) \in Int /\ SumOver(F2, R \cap S2) \in Int /\ F[x] \in Nat
        /\ SumOver(F2, T \cap S2) \in Int
    BY <2>3 DEF SumTakes
  <2>6. CASE x \in S2
    <3>1. x \in T \cap S2 /\ (T \cap S2) \ {x} = R \cap S2
      BY <2>1, <2>6
    <3>2. SumOver(F2, T \cap S2) = F2[x] + SumOver(F2, R \cap S2)
      BY <2>3, <3>1 DEF SumTakes
    <3>3. F2[x] \in Int /\ F2[x] <= F[x]
      BY <2>6
    <3>4. SumOver(F2, T \cap S2) <= SumOver(F, T)
      BY <2>2, <2>4, <2>5, <3>2, <3>3
    <3>5. QED  BY <3>4
  <2>7. CASE x \notin S2
    <3>1. T \cap S2 = R \cap S2
      BY <2>1, <2>7
    <3>2. SumOver(F2, T \cap S2) = SumOver(F2, R \cap S2)
      BY <3>1
    <3>3. QED  BY <2>2, <2>4, <2>5, <3>2
  <2>8. QED  BY <2>6, <2>7
<1> HIDE DEF P
<1>4. \A T \in SUBSET S : T \in P
  BY <1>2, <1>3, SubsetInduction
<1>5. S \in P /\ S \cap S2 = S2
  BY <1>4
<1>6. QED  BY <1>5 DEF P

\* Values of at most Q more each sum to at most Q more for each.
LEMMA SumGap ==
    ASSUME NEW S, IsFiniteSet(S), NEW F, NEW G, NEW Q \in Nat,
           \A x \in S : F[x] \in Int /\ G[x] \in Int /\ G[x] <= F[x] + Q
    PROVE  SumOver(G, S) <= SumOver(F, S) + Cardinality(S) * Q
<1> DEFINE P == {T \in SUBSET S : SumOver(G, T) <= SumOver(F, T) + Cardinality(T) * Q}
<1>1. ASSUME NEW T \in SUBSET S
      PROVE  SumTakes(F, T) /\ SumTakes(G, T)
  <2>1. IsFiniteSet(T)
    BY FS_Subset
  <2>2. \A x \in T : F[x] \in Int /\ G[x] \in Int
    OBVIOUS
  <2>3. QED  BY <2>1, <2>2, SumOverTake
<1>2. {} \in P
  <2>1. SumTakes(F, {}) /\ SumTakes(G, {}) /\ Cardinality({}) = 0
    BY <1>1, FS_EmptySet
  <2>2. SumOver(F, {}) = 0 /\ SumOver(G, {}) = 0
    BY <2>1 DEF SumTakes
  <2>3. SumOver(G, {}) <= SumOver(F, {}) + Cardinality({}) * Q
    BY <2>1, <2>2
  <2>4. QED  BY <2>3
<1>3. ASSUME NEW T \in SUBSET S, NEW x \in T, T \ {x} \in P PROVE T \in P
  <2>1. PICK R : R = T \ {x}
    OBVIOUS
  <2>2. R \in SUBSET S /\ SumOver(G, R) <= SumOver(F, R) + Cardinality(R) * Q
    BY <1>3, <2>1
  <2>3. SumTakes(F, T) /\ SumTakes(F, R) /\ SumTakes(G, T) /\ SumTakes(G, R)
    BY <1>1, <2>2
  <2>4. /\ SumOver(F, T) = F[x] + SumOver(F, R) /\ SumOver(F, R) \in Int
        /\ SumOver(G, T) = G[x] + SumOver(G, R) /\ SumOver(G, R) \in Int
    BY <2>1, <2>3 DEF SumTakes
  <2>5. Cardinality(T) \in Nat /\ Cardinality(R) = Cardinality(T) - 1
    BY <2>1, SmallerSet
  <2>6. PICK c \in Nat : c = Cardinality(T)
    BY <2>5
  <2>7. SumOver(G, R) <= SumOver(F, R) + (c - 1) * Q
    BY <2>2, <2>5, <2>6
  <2>8. PICK k \in Int : k = (c - 1) * Q /\ k + Q = c * Q
    BY SMTT(30)
  <2>9. F[x] \in Int /\ G[x] \in Int /\ G[x] <= F[x] + Q
    OBVIOUS
  <2>10. SumOver(G, T) <= SumOver(F, T) + c * Q
    BY <2>4, <2>7, <2>8, <2>9
  <2>11. QED  BY <2>6, <2>10
<1> HIDE DEF P
<1>4. \A T \in SUBSET S : T \in P
  BY <1>2, <1>3, SubsetInduction
<1>5. QED  BY <1>4 DEF P

\* Values of at most Q sum to at most Q for each.
LEMMA SumBound ==
    ASSUME NEW S, IsFiniteSet(S), NEW F, NEW Q \in Nat, \A x \in S : F[x] \in Int /\ F[x] <= Q
    PROVE  SumOver(F, S) <= Cardinality(S) * Q
<1> DEFINE P == {T \in SUBSET S : SumOver(F, T) <= Cardinality(T) * Q}
<1>1. ASSUME NEW T \in SUBSET S
      PROVE  SumTakes(F, T) /\ Cardinality(T) \in Nat
  <2>1. IsFiniteSet(T)
    BY FS_Subset
  <2>2. \A x \in T : F[x] \in Int
    OBVIOUS
  <2>3. QED  BY <2>1, <2>2, SumOverTake, FS_CardinalityType
<1>2. {} \in P
  <2>1. SumTakes(F, {}) /\ Cardinality({}) = 0
    BY <1>1, FS_EmptySet
  <2>2. SumOver(F, {}) = 0
    BY <2>1 DEF SumTakes
  <2>3. SumOver(F, {}) <= Cardinality({}) * Q
    BY <2>1, <2>2
  <2>4. QED  BY <2>3
<1>3. ASSUME NEW T \in SUBSET S, NEW x \in T, T \ {x} \in P PROVE T \in P
  <2>1. PICK R : R = T \ {x}
    OBVIOUS
  <2>2. R \in SUBSET S /\ SumOver(F, R) <= Cardinality(R) * Q
    BY <1>3, <2>1
  <2>3. SumTakes(F, T) /\ SumTakes(F, R)
    BY <1>1, <2>2
  <2>4. SumOver(F, T) = F[x] + SumOver(F, R) /\ SumOver(F, R) \in Int
    BY <2>1, <2>3 DEF SumTakes
  <2>5. Cardinality(T) \in Nat /\ Cardinality(R) = Cardinality(T) - 1
    BY <2>1, SmallerSet
  <2>6. PICK c \in Nat : c = Cardinality(T)
    BY <2>5
  <2>7. SumOver(F, R) <= (c - 1) * Q
    BY <2>2, <2>5, <2>6
  <2>8. (c - 1) * Q + Q = c * Q /\ (c - 1) * Q \in Int
    BY SMTT(30)
  <2>9. SumOver(F, T) <= c * Q
    BY <2>4, <2>7, <2>8
  <2>10. QED  BY <2>6, <2>9
<1> HIDE DEF P
<1>4. \A T \in SUBSET S : T \in P
  BY <1>2, <1>3, SubsetInduction
<1>5. QED  BY <1>4 DEF P

\* What the integer quotient is.
LEMMA Quotient ==
    ASSUME NEW a \in Int, NEW b \in Nat \ {0}
    PROVE  /\ a \div b \in Int
           /\ b * (a \div b) <= a
           /\ a < b * (a \div b) + b
OBVIOUS

-----------------------------------------------------------------------------
(* SumFunction, the sum of all the values of a function. *)

\* It is the sum over its domain.
LEMMA SumFunctionIs ==
    ASSUME NEW F, IsFiniteSet(DOMAIN F), \A x \in DOMAIN F : F[x] \in Int
    PROVE  SumFunction(F) = SumOver(F, DOMAIN F)
<1> DEFINE it == CHOOSE g : SumsOf(g, F, DOMAIN F)
<1>1. SumFunction(F) = it[DOMAIN F]
  BY DEF SumFunction, SumFunctionOnSet, FoldFunctionOnSet, MapThenFoldSet, SumsOf, Some
<1>2. \E g : SumsOf(g, F, DOMAIN F)
  BY SumsExist
<1>3. SumsOf(it, F, DOMAIN F)
  BY <1>2
<1> HIDE DEF it
<1>4. QED  BY <1>1, <1>3, SumOverIs

\* A function without values sums to nothing.
LEMMA SumOfNone ==
    ASSUME NEW F, DOMAIN F = {}
    PROVE  SumFunction(F) = 0
<1>1. IsFiniteSet(DOMAIN F)
  BY FS_EmptySet
<1>2. SumTakes(F, DOMAIN F) /\ SumFunction(F) = SumOver(F, DOMAIN F)
  BY <1>1, SumFunctionIs, SumOverTake
<1>3. QED  BY <1>2 DEF SumTakes

\* A value more adds itself to the sum.
LEMMA SumOneMore ==
    ASSUME NEW F, IsFiniteSet(DOMAIN F), \A x \in DOMAIN F : F[x] \in Int,
           NEW new, new \notin DOMAIN F, NEW F2, DOMAIN F2 = DOMAIN F \cup {new},
           \A x \in DOMAIN F : F2[x] = F[x], F2[new] \in Int
    PROVE  SumFunction(F) \in Int /\ SumFunction(F2) = SumFunction(F) + F2[new]
<1>1. IsFiniteSet(DOMAIN F2) /\ \A x \in DOMAIN F2 : F2[x] \in Int
  BY FS_AddElement
<1>2. /\ SumTakes(F, DOMAIN F) /\ SumFunction(F) = SumOver(F, DOMAIN F)
      /\ SumTakes(F2, DOMAIN F2) /\ SumFunction(F2) = SumOver(F2, DOMAIN F2)
  BY <1>1, SumFunctionIs, SumOverTake
<1>3. PICK S : S = DOMAIN F
  OBVIOUS
<1>4. PICK S2 : S2 = DOMAIN F2
  OBVIOUS
<1>5. new \in S2 /\ S2 \ {new} = S
  BY <1>3, <1>4
<1>6. SumOver(F2, S2) = F2[new] + SumOver(F2, S) /\ SumOver(F, S) \in Int
  BY <1>2, <1>3, <1>4, <1>5 DEF SumTakes
<1>7. SumOver(F2, S) = SumOver(F, S)
  BY <1>3, SumOverSame
<1>8. QED  BY <1>2, <1>3, <1>4, <1>6, <1>7
===============================================================================
