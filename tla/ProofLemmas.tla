---------------------------- MODULE ProofLemmas ----------------------------
(***************************************************************************)
(* What the proofs about the components share: induction over numbers and  *)
(* over finite sets, sums, and sequences put together from parts.  The     *)
(* library's theorems on induction range over predicates, which the        *)
(* provers cannot instantiate; over a set of numbers the same follows from *)
(* < being well-founded, over a family of sets from their cardinality.     *)
(***************************************************************************)
EXTENDS Integers, SequencesExt, Ordering, FiniteSetTheorems, WellFoundedInduction, TLAPS

\* A set of numbers that is not empty has a least member.
LEMMA Least ==
  ASSUME NEW T, T \subseteq Nat, T # {}
  PROVE  \E n \in T : \A m \in T : n <= m
<1> DEFINE R == {ss \in Nat \X Nat : ss[1] < ss[2]}
<1>1. IsWellFoundedOn(R, Nat)
  BY NatLessThanWellFounded DEF OpToRel
<1> HIDE DEF R
<1>2. \E x \in T : \A y \in T : ~ (<<y, x>> \in R)
  BY <1>1, WFMin
<1>3. \A x, y \in Nat : ~ (<<y, x>> \in R) => x <= y
  BY DEF R
<1> QED BY <1>2, <1>3

\* A set with 0 and, with every number below n, the next, reaches n.
LEMMA Induct ==
  ASSUME NEW n \in Nat, NEW T, 0 \in T, \A i \in 1 .. n : i - 1 \in T => i \in T
  PROVE  \A i \in 0 .. n : i \in T
<1> DEFINE U == {i \in 0 .. n : i \notin T}
<1> SUFFICES ASSUME U # {} PROVE FALSE
  OBVIOUS
<1>1. U \subseteq Nat
  OBVIOUS
<1>2. PICK m \in U : \A k \in U : m <= k
  BY <1>1, Least
<1>3. m \in 1 .. n /\ m - 1 \in 0 .. n /\ ~(m <= m - 1)
  BY <1>2
<1>4. m - 1 \in T
  BY <1>2, <1>3
<1> QED BY <1>2, <1>3, <1>4

\* F leads from a member of S to one, at every step up to n.
Closed(S, n, F) == \A t \in S, k \in 1 .. n : F[<<t, k>>] \in S

\* f begins with a and goes on by F.
Iterates(f, S, n, a, F) ==
  /\ f \in [0 .. n -> S]
  /\ f[0] = a
  /\ \A k \in 1 .. n : f[k] = F[<<f[k - 1], k>>]

\* What is defined step by step exists.
LEMMA Iterated ==
  ASSUME NEW S, NEW n \in Nat, NEW a \in S, NEW F, Closed(S, n, F)
  PROVE  \E f : Iterates(f, S, n, a, F)
<1> DEFINE Good(f, m) == f[0] = a /\ \A k \in 1 .. m : f[k] = F[<<f[k - 1], k>>]
           T == {m \in Nat : \E f \in [0 .. m -> S] : Good(f, m)}
<1>1. 0 \in T
  <2> DEFINE f == [k \in 0 .. 0 |-> a]
  <2>1. f \in [0 .. 0 -> S] /\ Good(f, 0)
    OBVIOUS
  <2> QED BY <2>1
<1>2. ASSUME NEW m \in 1 .. n, m - 1 \in T PROVE m \in T
  <2>1. PICK f \in [0 .. m - 1 -> S] : Good(f, m - 1)
    BY <1>2
  <2>2. m \in Nat /\ m - 1 \in 0 .. m - 1 /\ f[m - 1] \in S
    OBVIOUS
  <2> DEFINE v == F[<<f[m - 1], m>>]
             g == [k \in 0 .. m |-> IF k = m THEN v ELSE f[k]]
  <2>3. v \in S
    BY <2>2 DEF Closed
  <2> HIDE DEF v
  <2>4. g \in [0 .. m -> S]
    <3>1. \A k \in 0 .. m : k # m => k \in 0 .. m - 1
      BY <2>2
    <3> QED BY <2>3, <3>1
  <2>5. g[0] = a
    BY <2>1
  <2>6. ASSUME NEW k \in 1 .. m PROVE g[k] = F[<<g[k - 1], k>>]
    <3>1. g[k - 1] = f[k - 1]
      OBVIOUS
    <3>2. CASE k = m
      <4>1. g[k] = v /\ v = F[<<f[m - 1], m>>]
        BY <3>2 DEF v
      <4> QED BY <3>1, <3>2, <4>1
    <3>3. CASE k # m
      <4>1. k \in 1 .. m - 1 /\ g[k] = f[k]
        BY <3>3
      <4> QED BY <2>1, <3>1, <4>1
    <3> QED BY <3>2, <3>3
  <2> HIDE DEF g
  <2>7. Good(g, m)
    BY <2>5, <2>6
  <2> HIDE DEF Good
  <2> QED BY <2>2, <2>4, <2>7
<1>3. \A m \in 0 .. n : m \in T
  <2> HIDE DEF T
  <2> QED BY <1>1, <1>2, Induct
<1>4. n \in T
  <2> HIDE DEF T
  <2> QED BY <1>3
<1>5. \E f \in [0 .. n -> S] : Good(f, n)
  <2> HIDE DEF Good
  <2> QED BY <1>4
<1> QED BY <1>5 DEF Iterates

-----------------------------------------------------------------------------
(* Sequences put together from parts.                                     *)

\* The function by which FlattenSeq is defined exists.
LEMMA FlattenExists ==
  ASSUME NEW s, NEW n \in Nat
  PROVE  \E f : f = [i \in 1 .. n |-> IF i = 1 THEN s[i] ELSE f[i - 1] \o s[i]]
<1> DEFINE Good(g, m) == g = [i \in 1 .. m |-> IF i = 1 THEN s[i] ELSE g[i - 1] \o s[i]]
           T == {m \in Nat : \E g : Good(g, m)}
<1>1. 0 \in T
  <2>1. Good(<<>>, 0)
    OBVIOUS
  <2> QED BY <2>1
<1>2. ASSUME NEW m \in 1 .. n, m - 1 \in T PROVE m \in T
  <2>1. PICK g : Good(g, m - 1)
    BY <1>2
  <2> DEFINE h == [i \in 1 .. m |->
                     IF i = m THEN (IF i = 1 THEN s[i] ELSE g[i - 1] \o s[i]) ELSE g[i]]
  <2>2. ASSUME NEW i \in 1 .. m
        PROVE  h[i] = IF i = 1 THEN s[i] ELSE h[i - 1] \o s[i]
    <3>1. CASE i = m
      <4>1. i # 1 => h[i - 1] = g[i - 1]
        BY <3>1
      <4> QED BY <3>1, <4>1
    <3>2. CASE i # m
      <4>1. i \in 1 .. m - 1 /\ h[i] = g[i]
        BY <3>2
      <4>2. g[i] = IF i = 1 THEN s[i] ELSE g[i - 1] \o s[i]
        BY <2>1, <4>1
      <4>3. i # 1 => h[i - 1] = g[i - 1]
        BY <4>1
      <4> QED BY <4>1, <4>2, <4>3
    <3> QED BY <3>1, <3>2
  <2>3. h = [i \in 1 .. m |-> h[i]]
    OBVIOUS
  <2> HIDE DEF h
  <2>4. Good(h, m)
    <3> DEFINE w == [i \in 1 .. m |-> IF i = 1 THEN s[i] ELSE h[i - 1] \o s[i]]
    <3>1. \A i \in 1 .. m : h[i] = w[i]
      BY <2>2
    <3>2. w = [i \in 1 .. m |-> w[i]]
      OBVIOUS
    <3>3. h = w
      <4> HIDE DEF w
      <4> QED BY <2>3, <3>1, <3>2
    <3> QED BY <3>3
  <2>5. m \in Nat
    OBVIOUS
  <2> HIDE DEF Good
  <2>6. \E f : Good(f, m)
    BY <2>4
  <2> QED BY <2>5, <2>6
<1> HIDE DEF T
<1>3. \A i \in 0 .. n : i \in T
  BY <1>1, <1>2, Induct
<1>4. \E g : Good(g, n)
  <2> HIDE DEF Good
  <2> QED BY <1>3 DEF T
<1> QED BY <1>4

\* FlattenSeq concatenates one part after the other.
LEMMA FlattenParts ==
  ASSUME NEW S, NEW s \in Seq(Seq(S)), Len(s) > 0
  PROVE  \E f \in [1 .. Len(s) -> Seq(S)] :
           /\ f[1] = s[1]
           /\ \A i \in 2 .. Len(s) : f[i] = f[i - 1] \o s[i]
           /\ FlattenSeq(s) = f[Len(s)]
<1> DEFINE n == Len(s)
           Good(g) == g = [i \in 1 .. n |-> IF i = 1 THEN s[i] ELSE g[i - 1] \o s[i]]
           f == CHOOSE g : Good(g)
<1>1. n \in Nat /\ n > 0 /\ \A i \in 1 .. n : s[i] \in Seq(S)
  OBVIOUS
<1>2. FlattenSeq(s) = f[n]
  BY DEF FlattenSeq
<1>3. Good(f)
  <2>1. \E g : Good(g)
    BY <1>1, FlattenExists
  <2> QED BY <2>1
<1> HIDE DEF f, n
<1>4. DOMAIN f = 1 .. n /\ f[1] = s[1]
  BY <1>1, <1>3
<1>5. ASSUME NEW i \in 2 .. n PROVE f[i] = f[i - 1] \o s[i]
  <2>1. i \in 1 .. n /\ i # 1
    BY <1>1
  <2> QED BY <1>3, <2>1
<1> DEFINE T == {i \in Nat : i > 0 => f[i] \in Seq(S)}
<1>6. 0 \in T
  OBVIOUS
<1>7. ASSUME NEW i \in 1 .. n, i - 1 \in T PROVE i \in T
  <2>1. CASE i = 1
    BY <1>1, <1>4, <2>1
  <2>2. CASE i # 1
    <3>1. i \in 2 .. n /\ i - 1 \in Nat /\ i - 1 > 0 /\ i \in Nat
      BY <2>2
    <3>2. f[i - 1] \in Seq(S) /\ s[i] \in Seq(S)
      BY <1>1, <1>7, <3>1
    <3>3. f[i - 1] \o s[i] \in Seq(S)
      BY <3>2
    <3> QED BY <1>5, <3>1, <3>3
  <2> QED BY <2>1, <2>2
<1>8. \A i \in 0 .. n : i \in T
  <2>1. n \in Nat
    BY <1>1
  <2> HIDE DEF T
  <2> QED BY <1>6, <1>7, <2>1, Induct
<1>9. \A i \in 1 .. n : f[i] \in Seq(S)
  BY <1>8
<1>10. f = [i \in 1 .. n |-> f[i]]
  BY <1>3, <1>4
<1>11. f \in [1 .. n -> Seq(S)]
  BY <1>9, <1>10
<1> QED BY <1>2, <1>4, <1>5, <1>11 DEF n

-----------------------------------------------------------------------------
(* Finite sets.                                                            *)

\* A family with the empty set and, with a set, those of one member more, has
\* every finite set.
LEMMA SetInduct ==
  ASSUME NEW S, IsFiniteSet(S), NEW F, {} \in F,
         \A V \in SUBSET S, x \in S : V \in F /\ x \notin V => V \cup {x} \in F
  PROVE  S \in F
<1> DEFINE n == Cardinality(S)
           T == {i \in Nat : \A V \in SUBSET S : Cardinality(V) = i => V \in F}
<1>1. n \in Nat
  BY FS_CardinalityType
<1>2. 0 \in T
  <2>1. ASSUME NEW V \in SUBSET S, Cardinality(V) = 0 PROVE V \in F
    <3>1. IsFiniteSet(V)
      BY FS_Subset
    <3>2. V = {}
      BY <2>1, <3>1, FS_EmptySet
    <3> QED BY <3>2
  <2> QED BY <2>1
<1>3. ASSUME NEW i \in 1 .. n, i - 1 \in T PROVE i \in T
  <2>1. ASSUME NEW V \in SUBSET S, Cardinality(V) = i PROVE V \in F
    <3>1. IsFiniteSet(V)
      BY FS_Subset
    <3>2. V # {}
      BY <2>1, FS_EmptySet
    <3>3. PICK x \in V : TRUE
      BY <3>2
    <3>4. Cardinality(V \ {x}) = i - 1
      BY <2>1, <3>1, FS_RemoveElement
    <3>5. V \ {x} \in F /\ x \in S /\ x \notin V \ {x} /\ (V \ {x}) \cup {x} = V
      BY <1>3, <3>4
    <3> QED BY <3>5
  <2> QED BY <1>1, <2>1
<1>4. \A i \in 0 .. n : i \in T
  <2> HIDE DEF T, n
  <2> QED BY <1>1, <1>2, <1>3, Induct
<1>5. n \in T
  <2> HIDE DEF T, n
  <2> QED BY <1>1, <1>4
<1> QED BY <1>5

-----------------------------------------------------------------------------
(* Sums over a finite set.                                                 *)

\* g has the sum of f over every subset of S.
Sums(g, f, S) ==
  g = [s \in SUBSET S |->
         IF s = {} THEN 0 ELSE LET x == CHOOSE x \in s : TRUE IN f[x] + g[s \ {x}]]

\* The function by which a sum is defined exists.
LEMMA SumsExist ==
  ASSUME NEW S, IsFiniteSet(S), NEW f, \A x \in S : f[x] \in Int
  PROVE  \E g \in [SUBSET S -> Int] : Sums(g, f, S)
<1> DEFINE n == Cardinality(S)
           Up(m) == {s \in SUBSET S : Cardinality(s) <= m}
           One(g, s) == IF s = {} THEN 0
                        ELSE LET x == CHOOSE x \in s : TRUE IN f[x] + g[s \ {x}]
           Good(g, m) == \A s \in Up(m) : g[s] = One(g, s)
           T == {m \in Nat : \E g \in [Up(m) -> Int] : Good(g, m)}
<1>1. n \in Nat
  BY FS_CardinalityType
<1>2. \A s \in SUBSET S : IsFiniteSet(s) /\ Cardinality(s) \in 0 .. n
  <2>1. \A s \in SUBSET S : IsFiniteSet(s) /\ Cardinality(s) <= n
    BY FS_Subset
  <2>2. \A s \in SUBSET S : Cardinality(s) \in Nat
    BY <2>1, FS_CardinalityType
  <2> QED BY <1>1, <2>1, <2>2
<1>3. ASSUME NEW s \in SUBSET S, s # {}
      PROVE  LET x == CHOOSE x \in s : TRUE
             IN  x \in s /\ f[x] \in Int /\ s \ {x} \in SUBSET S
                 /\ Cardinality(s \ {x}) = Cardinality(s) - 1
  <2> DEFINE x == CHOOSE x \in s : TRUE
  <2>1. x \in s
    BY <1>3
  <2>2. Cardinality(s \ {x}) = Cardinality(s) - 1
    BY <1>2, <2>1, FS_RemoveElement
  <2> QED BY <2>1, <2>2
<1>4. 0 \in T
  <2> DEFINE g == [s \in Up(0) |-> 0]
  <2>1. \A s \in Up(0) : s = {}
    BY <1>2, FS_EmptySet
  <2>2. g \in [Up(0) -> Int]
    OBVIOUS
  <2>3. Good(g, 0)
    BY <2>1
  <2> QED BY <2>2, <2>3
<1>5. ASSUME NEW m \in 1 .. n, m - 1 \in T PROVE m \in T
  <2>1. PICK g \in [Up(m - 1) -> Int] : Good(g, m - 1)
    BY <1>5
  <2> DEFINE h == [s \in Up(m) |-> IF Cardinality(s) = m THEN One(g, s) ELSE g[s]]
  <2>2. ASSUME NEW s \in Up(m)
        PROVE  /\ Cardinality(s) # m => s \in Up(m - 1)
               /\ s # {} => LET x == CHOOSE x \in s : TRUE
                            IN  s \ {x} \in Up(m - 1) /\ h[s \ {x}] = g[s \ {x}]
    <3>1. Cardinality(s) \in 0 .. n /\ Cardinality(s) <= m
      BY <1>2
    <3>2. ASSUME s # {}
          PROVE  LET x == CHOOSE x \in s : TRUE
                 IN  s \ {x} \in Up(m - 1) /\ h[s \ {x}] = g[s \ {x}]
      <4> DEFINE x == CHOOSE x \in s : TRUE
      <4>1. s \ {x} \in SUBSET S /\ Cardinality(s \ {x}) = Cardinality(s) - 1
        BY <1>3, <3>2
      <4> HIDE DEF x
      <4>2. Cardinality(s \ {x}) <= m - 1 /\ Cardinality(s \ {x}) # m
        BY <3>1, <4>1
      <4>3. s \ {x} \in Up(m - 1) /\ s \ {x} \in Up(m)
        BY <3>1, <4>1, <4>2
      <4>4. h[s \ {x}] = g[s \ {x}]
        BY <4>2, <4>3
      <4> QED BY <4>3, <4>4 DEF x
    <3> QED BY <3>1, <3>2
  <2>3. ASSUME NEW s \in Up(m - 1) PROVE One(g, s) \in Int
    BY <2>1
  <2>4. ASSUME NEW s \in Up(m) PROVE One(g, s) \in Int
    <3>1. CASE s = {}
      BY <3>1
    <3>2. CASE s # {}
      <4> DEFINE x == CHOOSE x \in s : TRUE
      <4>1. f[x] \in Int
        BY <1>3, <3>2
      <4>2. g[s \ {x}] \in Int
        BY <2>1, <2>2, <3>2
      <4> HIDE DEF x
      <4>3. f[x] + g[s \ {x}] \in Int
        BY <4>1, <4>2
      <4> QED BY <3>2, <4>3 DEF x
    <3> QED BY <3>1, <3>2
  <2>5. h \in [Up(m) -> Int]
    <3> HIDE DEF One, Up
    <3> SUFFICES ASSUME NEW s \in Up(m) PROVE h[s] \in Int
      OBVIOUS
    <3>1. Cardinality(s) # m => g[s] \in Int
      BY <2>1, <2>2
    <3> QED BY <2>4, <3>1
  <2>6. ASSUME NEW s \in Up(m) PROVE h[s] = One(h, s)
    <3>1. One(h, s) = One(g, s)
      <4>1. CASE s = {}
        BY <4>1
      <4>2. CASE s # {}
        <5> HIDE DEF h
        <5> QED BY <2>2, <4>2
      <4> QED BY <4>1, <4>2
    <3>2. h[s] = One(g, s)
      <4>1. CASE Cardinality(s) = m
        BY <4>1
      <4>2. CASE Cardinality(s) # m
        <5>1. s \in Up(m - 1)
          BY <2>2, <4>2
        <5>2. h[s] = g[s]
          BY <4>2
        <5> HIDE DEF h, One, Up
        <5> QED BY <2>1, <5>1, <5>2
      <4> QED BY <4>1, <4>2
    <3> HIDE DEF h, One, Up
    <3> QED BY <3>1, <3>2
  <2> HIDE DEF h, One, Up
  <2>7. Good(h, m)
    BY <2>6
  <2>8. m \in Nat
    OBVIOUS
  <2> HIDE DEF Good
  <2>9. \E gg \in [Up(m) -> Int] : Good(gg, m)
    BY <2>5, <2>7
  <2> QED BY <2>8, <2>9
<1>6. n \in T
  <2> HIDE DEF T, n
  <2>1. \A i \in 0 .. n : i \in T
    BY <1>1, <1>4, <1>5, Induct
  <2> QED BY <1>1, <2>1
<1>7. Up(n) = SUBSET S
  BY <1>1, <1>2
<1>8. PICK g \in [SUBSET S -> Int] : \A s \in SUBSET S : g[s] = One(g, s)
  <2> HIDE DEF One, Up, n
  <2> QED BY <1>6, <1>7
<1>9. g = [s \in SUBSET S |-> One(g, s)]
  <2> HIDE DEF One
  <2> DEFINE w == [s \in SUBSET S |-> One(g, s)]
  <2>1. \A s \in SUBSET S : g[s] = w[s]
    BY <1>8
  <2>2. g = [s \in SUBSET S |-> g[s]] /\ w = [s \in SUBSET S |-> w[s]]
    OBVIOUS
  <2> HIDE DEF w
  <2>3. g = w
    BY <2>1, <2>2
  <2> QED BY <2>3 DEF w
<1> QED BY <1>9 DEF Sums

\* The order in which the members are taken does not matter.
TakesOne(g, f, S) == \A s \in SUBSET S : \A x \in s : g[s] = f[x] + g[s \ {x}]

LEMMA SumsTake ==
  ASSUME NEW S, IsFiniteSet(S), NEW f, \A x \in S : f[x] \in Int,
         NEW g \in [SUBSET S -> Int], Sums(g, f, S)
  PROVE  TakesOne(g, f, S)
<1> DEFINE n == Cardinality(S)
           Take(s) == \A x \in s : g[s] = f[x] + g[s \ {x}]
           T == {i \in Nat : \A s \in SUBSET S : Cardinality(s) = i => Take(s)}
<1>1. n \in Nat /\ \A s \in SUBSET S : IsFiniteSet(s) /\ Cardinality(s) \in 0 .. n
  <2>1. n \in Nat /\ \A s \in SUBSET S : IsFiniteSet(s) /\ Cardinality(s) <= n
    BY FS_Subset, FS_CardinalityType
  <2>2. \A s \in SUBSET S : Cardinality(s) \in Nat
    BY <2>1, FS_CardinalityType
  <2> QED BY <2>1, <2>2
<1>2. ASSUME NEW s \in SUBSET S, s # {}
      PROVE  \E c \in s : g[s] = f[c] + g[s \ {c}]
  <2> DEFINE c == CHOOSE c \in s : TRUE
  <2>1. c \in s
    BY <1>2
  <2>2. g[s] = f[c] + g[s \ {c}]
    BY <1>2 DEF Sums
  <2> QED BY <2>1, <2>2
<1>3. 0 \in T
  <2>1. \A s \in SUBSET S : Cardinality(s) = 0 => s = {}
    BY <1>1, FS_EmptySet
  <2> QED BY <2>1
<1>4. ASSUME NEW i \in 1 .. n, i - 1 \in T PROVE i \in T
  <2>1. ASSUME NEW s \in SUBSET S, Cardinality(s) = i, NEW x \in s
        PROVE  g[s] = f[x] + g[s \ {x}]
    <3>1. PICK c \in s : g[s] = f[c] + g[s \ {c}]
      BY <1>2
    <3>2. ASSUME x # c PROVE g[s] = f[x] + g[s \ {x}]
      <4> DEFINE r == (s \ {c}) \ {x}
      <4>1. Cardinality(s \ {c}) = i - 1 /\ Cardinality(s \ {x}) = i - 1
        BY <1>1, <2>1, FS_RemoveElement
      <4>2. Take(s \ {c}) /\ Take(s \ {x})
        BY <1>4, <4>1
      <4>3. (s \ {x}) \ {c} = r /\ x \in s \ {c} /\ c \in s \ {x}
        BY <3>2
      <4>4. g[s \ {c}] = f[x] + g[r] /\ g[s \ {x}] = f[c] + g[r]
        BY <4>2, <4>3
      <4>5. f[x] \in Int /\ f[c] \in Int /\ g[r] \in Int
        OBVIOUS
      <4> HIDE DEF r
      <4> QED BY <3>1, <4>4, <4>5
    <3> QED BY <3>1, <3>2
  <2> QED BY <2>1
<1>5. \A i \in 0 .. n : i \in T
  <2> HIDE DEF T, n
  <2> QED BY <1>1, <1>3, <1>4, Induct
<1>6. ASSUME NEW s \in SUBSET S PROVE Take(s)
  <2>1. Cardinality(s) \in T
    <3> HIDE DEF T, n
    <3> QED BY <1>1, <1>5
  <2> QED BY <2>1
<1> QED BY <1>6 DEF TakesOne

\* The sums over a set and over a part of it agree.
LEMMA SumsAgree ==
  ASSUME NEW S, IsFiniteSet(S), NEW f, NEW g, Sums(g, f, S),
         NEW U \in SUBSET S, NEW h, Sums(h, f, U)
  PROVE  \A s \in SUBSET U : h[s] = g[s]
<1> DEFINE n == Cardinality(S)
           T == {i \in Nat : \A s \in SUBSET U : Cardinality(s) = i => h[s] = g[s]}
<1>1. n \in Nat /\ \A s \in SUBSET U : IsFiniteSet(s) /\ Cardinality(s) \in 0 .. n
  <2>1. n \in Nat /\ \A s \in SUBSET U : IsFiniteSet(s) /\ Cardinality(s) <= n
    BY FS_Subset, FS_CardinalityType
  <2>2. \A s \in SUBSET U : Cardinality(s) \in Nat
    BY <2>1, FS_CardinalityType
  <2> QED BY <2>1, <2>2
<1>2. ASSUME NEW s \in SUBSET U, s # {}
      PROVE  \E c \in s : h[s] = f[c] + h[s \ {c}] /\ g[s] = f[c] + g[s \ {c}]
  <2> DEFINE c == CHOOSE c \in s : TRUE
  <2>1. c \in s
    BY <1>2
  <2>2. h[s] = f[c] + h[s \ {c}]
    BY <1>2 DEF Sums
  <2>3. s \in SUBSET S
    OBVIOUS
  <2>4. g[s] = f[c] + g[s \ {c}]
    BY <1>2, <2>3 DEF Sums
  <2> HIDE DEF c
  <2> QED BY <2>1, <2>2, <2>4
<1>3. 0 \in T
  <2>1. \A s \in SUBSET U : Cardinality(s) = 0 => s = {}
    BY <1>1, FS_EmptySet
  <2>2. h[{}] = 0 /\ g[{}] = 0
    BY DEF Sums
  <2> QED BY <2>1, <2>2
<1>4. ASSUME NEW i \in 1 .. n, i - 1 \in T PROVE i \in T
  <2>1. ASSUME NEW s \in SUBSET U, Cardinality(s) = i PROVE h[s] = g[s]
    <3>1. s # {}
      BY <2>1, FS_EmptySet
    <3>2. PICK c \in s : h[s] = f[c] + h[s \ {c}] /\ g[s] = f[c] + g[s \ {c}]
      BY <1>2, <3>1
    <3>3. Cardinality(s \ {c}) = i - 1
      BY <1>1, <2>1, FS_RemoveElement
    <3>4. h[s \ {c}] = g[s \ {c}]
      BY <1>4, <3>3
    <3> QED BY <3>2, <3>4
  <2> QED BY <2>1
<1>5. \A i \in 0 .. n : i \in T
  <2> HIDE DEF T, n
  <2> QED BY <1>1, <1>3, <1>4, Induct
<1>6. ASSUME NEW s \in SUBSET U PROVE h[s] = g[s]
  <2>1. Cardinality(s) \in T
    <3> HIDE DEF T, n
    <3> QED BY <1>1, <1>5
  <2> QED BY <2>1
<1> QED BY <1>6

\* What SumFunctionOnSet is, for all parts of a set.
HasSums(g, f, S) ==
  Sums(g, f, S) /\ \A U \in SUBSET S : SumFunctionOnSet(f, U) = g[U]

LEMMA SumIs ==
  ASSUME NEW S, IsFiniteSet(S), NEW f, \A x \in S : f[x] \in Int
  PROVE  \E g \in [SUBSET S -> Int] : HasSums(g, f, S)
<1>1. PICK g \in [SUBSET S -> Int] : Sums(g, f, S)
  BY SumsExist
<1>2. ASSUME NEW U \in SUBSET S PROVE SumFunctionOnSet(f, U) = g[U]
  <2> DEFINE G(h) == h = [s \in SUBSET U |->
               IF s = {} THEN 0 ELSE LET x == CHOOSE x \in s : TRUE IN f[x] + h[s \ {x}]]
             iter == CHOOSE h : G(h)
  <2>1. SumFunctionOnSet(f, U) = iter[U]
    BY DEF SumFunctionOnSet, FoldFunctionOnSet, MapThenFoldSet
  <2>2. \E h : G(h)
    <3>1. IsFiniteSet(U)
      BY FS_Subset
    <3>2. \E h \in [SUBSET U -> Int] : Sums(h, f, U)
      BY <3>1, SumsExist
    <3> QED BY <3>2 DEF Sums
  <2>3. G(iter)
    <3> HIDE DEF G
    <3> QED BY <2>2
  <2>4. Sums(iter, f, U)
    <3> HIDE DEF iter
    <3> QED BY <2>3 DEF Sums
  <2> HIDE DEF iter
  <2>5. iter[U] = g[U]
    BY <1>1, <2>4, SumsAgree
  <2> QED BY <2>1, <2>5
<1>3. HasSums(g, f, S)
  BY <1>1, <1>2 DEF HasSums
<1> QED BY <1>3

LEMMA SumEmpty ==
  ASSUME NEW f
  PROVE  SumFunctionOnSet(f, {}) = 0
<1>1. IsFiniteSet({})
  BY FS_EmptySet
<1>2. PICK g \in [SUBSET {} -> Int] : HasSums(g, f, {})
  BY <1>1, SumIs
<1> QED BY <1>2 DEF Sums, HasSums

\* A sum is an integer, and one member can be taken out of it.
LEMMA SumTake ==
  ASSUME NEW S, IsFiniteSet(S), NEW f, \A x \in S : f[x] \in Int
  PROVE  /\ SumFunctionOnSet(f, S) \in Int
         /\ \A U \in SUBSET S : \A x \in U :
              SumFunctionOnSet(f, U) = f[x] + SumFunctionOnSet(f, U \ {x})
<1>1. PICK g \in [SUBSET S -> Int] : HasSums(g, f, S)
  BY SumIs
<1>2. \A s \in SUBSET S : \A x \in s : g[s] = f[x] + g[s \ {x}]
  <2>1. Sums(g, f, S)
    BY <1>1 DEF HasSums
  <2>2. TakesOne(g, f, S)
    BY <2>1, SumsTake
  <2> QED BY <2>2 DEF TakesOne
<1>3. SumFunctionOnSet(f, S) \in Int
  BY <1>1 DEF HasSums
<1>4. ASSUME NEW U \in SUBSET S, NEW x \in U
      PROVE  SumFunctionOnSet(f, U) = f[x] + SumFunctionOnSet(f, U \ {x})
  BY <1>1, <1>2 DEF HasSums
<1> QED BY <1>3, <1>4

\* The same, for the whole set.
LEMMA SumInt ==
  ASSUME NEW S, IsFiniteSet(S), NEW f, \A x \in S : f[x] \in Int
  PROVE  SumFunctionOnSet(f, S) \in Int
BY SumTake

LEMMA SumOut ==
  ASSUME NEW S, IsFiniteSet(S), NEW f, \A x \in S : f[x] \in Int, NEW x \in S
  PROVE  SumFunctionOnSet(f, S) = f[x] + SumFunctionOnSet(f, S \ {x})
<1>1. S \in SUBSET S
  OBVIOUS
<1> QED BY <1>1, SumTake

\* One member added.
LEMMA SumAdd ==
  ASSUME NEW S, IsFiniteSet(S), NEW f, \A x \in S : f[x] \in Int
  PROVE  \A U \in SUBSET S : \A x \in S :
           x \notin U =>
             SumFunctionOnSet(f, U \cup {x}) = f[x] + SumFunctionOnSet(f, U)
<1> SUFFICES ASSUME NEW U \in SUBSET S, NEW x \in S, x \notin U
             PROVE  SumFunctionOnSet(f, U \cup {x}) = f[x] + SumFunctionOnSet(f, U)
  OBVIOUS
<1>1. U \cup {x} \in SUBSET S /\ x \in U \cup {x} /\ (U \cup {x}) \ {x} = U
  OBVIOUS
<1> QED BY <1>1, SumTake

\* If h is n times f less c, so is its sum.
LEMMA SumLinear ==
  ASSUME NEW S, IsFiniteSet(S), NEW f, \A x \in S : f[x] \in Int,
         NEW n \in Int, NEW c \in Int, NEW h, \A x \in S : h[x] = n * f[x] - c
  PROVE  SumFunctionOnSet(h, S) = n * SumFunctionOnSet(f, S) - Cardinality(S) * c
<1> DEFINE F == {U \in SUBSET S :
             SumFunctionOnSet(h, U) = n * SumFunctionOnSet(f, U) - Cardinality(U) * c}
<1>1. {} \in F
  <2>1. SumFunctionOnSet(h, {}) = 0 /\ SumFunctionOnSet(f, {}) = 0 /\ Cardinality({}) = 0
    BY SumEmpty, FS_EmptySet
  <2> QED BY <2>1
<1>2. ASSUME NEW U \in SUBSET S, NEW x \in S, U \in F, x \notin U
      PROVE  U \cup {x} \in F
  <2>1. IsFiniteSet(U) /\ Cardinality(U) \in Nat
    BY FS_Subset, FS_CardinalityType
  <2>2. Cardinality(U \cup {x}) = Cardinality(U) + 1
    BY <1>2, <2>1, FS_AddElement
  <2>3. \A y \in S : h[y] \in Int
    OBVIOUS
  <2>4. SumFunctionOnSet(h, U \cup {x}) = h[x] + SumFunctionOnSet(h, U)
    BY <1>2, <2>3, SumAdd
  <2>5. SumFunctionOnSet(f, U \cup {x}) = f[x] + SumFunctionOnSet(f, U)
    BY <1>2, SumAdd
  <2>6. SumFunctionOnSet(f, U) \in Int /\ SumFunctionOnSet(h, U) \in Int
    BY <2>1, <2>3, SumTake
  <2> DEFINE a == SumFunctionOnSet(f, U)
             b == SumFunctionOnSet(h, U)
             k == Cardinality(U)
             y == f[x]
  <2>7. b = n * a - k * c
    BY <1>2
  <2>8. a \in Int /\ b \in Int /\ k \in Int /\ y \in Int /\ h[x] = n * y - c
    BY <2>1, <2>6
  <2>9. SumFunctionOnSet(h, U \cup {x}) = (n * y - c) + b
    BY <2>4, <2>8
  <2>10. (n * y - c) + b = n * (y + a) - (k + 1) * c
    <3> HIDE DEF a, b, k, y
    <3>1. n * (y + a) = n * y + n * a /\ (k + 1) * c = k * c + c
      BY <2>8
    <3>2. n * y \in Int /\ n * a \in Int /\ k * c \in Int
      BY <2>8
    <3> QED BY <2>7, <2>8, <3>1, <3>2
  <2> QED BY <2>2, <2>5, <2>9, <2>10
<1>3. S \in F
  <2> HIDE DEF F
  <2> QED BY <1>1, <1>2, SetInduct
<1> QED BY <1>3

\* The sum of equal functions is the same, that of a constant a product.
LEMMA SumEqual ==
  ASSUME NEW S, IsFiniteSet(S), NEW f, \A x \in S : f[x] \in Int,
         NEW h, \A x \in S : h[x] = f[x]
  PROVE  SumFunctionOnSet(h, S) = SumFunctionOnSet(f, S)
<1>1. \A x \in S : h[x] = 1 * f[x] - 0
  OBVIOUS
<1>2. SumFunctionOnSet(h, S) = 1 * SumFunctionOnSet(f, S) - Cardinality(S) * 0
  BY <1>1, SumLinear
<1>3. SumFunctionOnSet(f, S) \in Int /\ Cardinality(S) \in Nat
  BY SumTake, FS_CardinalityType
<1> QED BY <1>2, <1>3

LEMMA SumConstant ==
  ASSUME NEW S, IsFiniteSet(S), NEW c \in Int, NEW h, \A x \in S : h[x] = c
  PROVE  SumFunctionOnSet(h, S) = Cardinality(S) * c
<1>1. \A x \in S : h[x] \in Int /\ h[x] = 0 * h[x] - (-c)
  OBVIOUS
<1>2. SumFunctionOnSet(h, S) = 0 * SumFunctionOnSet(h, S) - Cardinality(S) * (-c)
  BY <1>1, SumLinear
<1>3. SumFunctionOnSet(h, S) \in Int /\ Cardinality(S) \in Nat
  BY <1>1, SumTake, FS_CardinalityType
<1>4. Cardinality(S) * (-c) = -(Cardinality(S) * c)
  BY <1>3
<1> QED BY <1>2, <1>3, <1>4

\* Parts of the lengths len[1], ..., len[n], end to end: part i follows o[i - 1].
Offsets(o, len, n) ==
  /\ o \in [0 .. n -> Nat]
  /\ o[0] = 0
  /\ \A i \in 1 .. n : o[i] = o[i - 1] + len[i]

LEMMA OffsetsExist ==
  ASSUME NEW n \in Nat, NEW len \in [1 .. n -> Nat]
  PROVE  \E o : Offsets(o, len, n)
<1> DEFINE F == [x \in Nat \X (1 .. n) |-> x[1] + len[x[2]]]
<1>1. ASSUME NEW a \in Nat, NEW i \in 1 .. n PROVE F[<<a, i>>] = a + len[i] /\ F[<<a, i>>] \in Nat
  <2>1. <<a, i>> \in Nat \X (1 .. n) /\ <<a, i>>[1] = a /\ <<a, i>>[2] = i
        /\ len[i] \in Nat
    OBVIOUS
  <2> QED BY <2>1
<1> HIDE DEF F
<1>2. Closed(Nat, n, F)
  BY <1>1 DEF Closed
<1>3. PICK o : Iterates(o, Nat, n, 0, F)
  <2>1. 0 \in Nat
    OBVIOUS
  <2> QED BY <1>2, <2>1, Iterated
<1>4. ASSUME NEW i \in 1 .. n PROVE o[i] = o[i - 1] + len[i]
  <2>1. i - 1 \in 0 .. n /\ o[i - 1] \in Nat /\ o[i] = F[<<o[i - 1], i>>]
    BY <1>3 DEF Iterates
  <2> QED BY <1>1, <2>1
<1>5. Offsets(o, len, n)
  BY <1>3, <1>4 DEF Iterates, Offsets
<1> QED BY <1>5

LEMMA OffsetsRise ==
  ASSUME NEW n \in Nat, NEW len \in [1 .. n -> Nat], NEW o, Offsets(o, len, n),
         NEW i \in 0 .. n, NEW j \in i .. n
  PROVE  o[i] <= o[j]
<1> DEFINE T == {k \in Nat : i + k <= n => o[i] <= o[i + k]}
<1>1. ASSUME NEW k \in 1 .. n
      PROVE  o[k] \in Nat /\ o[k - 1] \in Nat /\ o[k - 1] <= o[k]
  <2>1. k - 1 \in 0 .. n /\ k \in 0 .. n /\ len[k] \in Nat
    OBVIOUS
  <2>2. o[k] \in Nat /\ o[k - 1] \in Nat /\ o[k] = o[k - 1] + len[k]
    BY <2>1 DEF Offsets
  <2> QED BY <2>1, <2>2
<1>2. 0 \in T
  <2>1. i + 0 = i /\ o[i] \in Nat
    BY DEF Offsets
  <2> QED BY <2>1
<1>3. ASSUME NEW k \in 1 .. n, k - 1 \in T PROVE k \in T
  <2>1. CASE i + k <= n
    <3>1. i + k \in 1 .. n /\ i + (k - 1) = (i + k) - 1 /\ i + (k - 1) <= n
      BY <2>1
    <3>2. o[i] <= o[(i + k) - 1] /\ o[i] \in Nat
      BY <1>3, <3>1 DEF Offsets
    <3>3. o[i] <= o[i + k]
      BY <1>1, <3>1, <3>2
    <3> QED BY <3>3
  <2>2. CASE ~(i + k <= n)
    BY <2>2
  <2> QED BY <2>1, <2>2
<1>4. \A k \in 0 .. n : k \in T
  <2> HIDE DEF T
  <2> QED BY <1>2, <1>3, Induct
<1>5. j - i \in T /\ i + (j - i) = j /\ j <= n
  <2>1. j - i \in 0 .. n /\ i + (j - i) = j /\ j <= n
    OBVIOUS
  <2> HIDE DEF T
  <2> QED BY <1>4, <2>1
<1> QED BY <1>5

\* Every position belongs to a part.
LEMMA OffsetsCover ==
  ASSUME NEW n \in Nat, NEW len \in [1 .. n -> Nat], NEW o, Offsets(o, len, n),
         NEW p \in 1 .. o[n]
  PROVE  \E i \in 1 .. n : p - o[i - 1] \in 1 .. len[i]
<1> DEFINE U == {i \in 0 .. n : p <= o[i]}
<1>1. o[n] \in Nat
  BY DEF Offsets
<1>2. U \subseteq Nat /\ n \in U
  BY <1>1
<1>3. PICK i \in U : \A k \in U : i <= k
  <2> HIDE DEF U
  <2> QED BY <1>2, Least
<1>4. i # 0
  BY <1>1 DEF Offsets
<1>5. i \in 1 .. n /\ i - 1 \in 0 .. n
  BY <1>4
<1>6. o[i - 1] \in Nat /\ o[i] = o[i - 1] + len[i] /\ len[i] \in Nat
  BY <1>5 DEF Offsets
<1>7. ~(p <= o[i - 1])
  BY <1>3, <1>5
<1>8. p <= o[i] /\ p \in Nat
  BY <1>1, <1>3
<1>9. p - o[i - 1] \in 1 .. len[i]
  BY <1>6, <1>7, <1>8
<1> QED BY <1>5, <1>9

\* The parts of s follow one another in f.
PartsOf(f, s, o) ==
  /\ Len(f) = o[Len(s)]
  /\ \A i \in 1 .. Len(s) : \A t \in 1 .. Len(s[i]) : f[o[i - 1] + t] = s[i][t]

LEMMA Flattened ==
  ASSUME NEW S, NEW n \in Nat, NEW s \in [1 .. n -> Seq(S)], NEW o,
         Offsets(o, [i \in 1 .. n |-> Len(s[i])], n)
  PROVE  FlattenSeq(s) \in Seq(S) /\ PartsOf(FlattenSeq(s), s, o)
<1>1. s \in Seq(Seq(S)) /\ Len(s) = n
  <2> DEFINE R == Seq(S)
  <2>1. s \in [1 .. n -> R]
    OBVIOUS
  <2> HIDE DEF R
  <2>2. s \in Seq(R) /\ Len(s) = n
    BY <2>1
  <2> QED BY <2>2 DEF R
<1>2. CASE n = 0
  <2>1. s = <<>>
    BY <1>1, <1>2
  <2>2. FlattenSeq(s) = <<>>
    BY <1>1, <1>2, <2>1 DEF FlattenSeq
  <2>3. o[0] = 0
    BY DEF Offsets
  <2>4. Len(<<>>) = 0 /\ <<>> \in Seq(S)
    OBVIOUS
  <2> QED BY <1>1, <1>2, <2>2, <2>3, <2>4 DEF PartsOf
<1>3. CASE n # 0
  <2>1. n > 0 /\ \A i \in 1 .. n : s[i] \in Seq(S) /\ Len(s[i]) \in Nat
    BY <1>3
  <2>2. PICK f \in [1 .. n -> Seq(S)] :
          /\ f[1] = s[1]
          /\ \A i \in 2 .. n : f[i] = f[i - 1] \o s[i]
          /\ FlattenSeq(s) = f[n]
    BY <1>1, <2>1, FlattenParts
  <2> DEFINE len == [i \in 1 .. n |-> Len(s[i])]
             Up(m) ==
               /\ Len(f[m]) = o[m]
               /\ \A i \in 1 .. m : \A t \in 1 .. Len(s[i]) : f[m][o[i - 1] + t] = s[i][t]
             T == {m \in Nat : m > 0 => Up(m)}
  <2>3. len \in [1 .. n -> Nat] /\ Offsets(o, len, n)
    BY <2>1
  <2>4. ASSUME NEW i \in 1 .. n
        PROVE  o[i] \in Nat /\ o[i - 1] \in Nat /\ o[i] = o[i - 1] + Len(s[i])
    <3>1. i - 1 \in 0 .. n /\ i \in 0 .. n /\ len[i] = Len(s[i])
      OBVIOUS
    <3> HIDE DEF len
    <3> QED BY <2>3, <3>1 DEF Offsets
  <2> HIDE DEF len
  <2>5. 0 \in T
    OBVIOUS
  <2>6. ASSUME NEW m \in 1 .. n, m - 1 \in T PROVE m \in T
    <3>1. CASE m = 1
      <4>1. o[1] = Len(s[1]) /\ o[0] = 0
        <5>1. o[0] = 0 /\ 1 \in 1 .. n /\ Len(s[1]) \in Nat
          BY <2>1, <2>3 DEF Offsets
        <5>2. o[1] = o[1 - 1] + Len(s[1])
          BY <2>4, <5>1
        <5> QED BY <5>1, <5>2
      <4>2. ASSUME NEW i \in 1 .. 1, NEW t \in 1 .. Len(s[i])
            PROVE  f[1][o[i - 1] + t] = s[i][t]
        <5>1. i = 1 /\ i - 1 = 0 /\ t \in Int
          OBVIOUS
        <5>2. o[i - 1] + t = t
          BY <4>1, <5>1
        <5> QED BY <2>2, <5>1, <5>2
      <4>3. Up(1)
        BY <2>2, <4>1, <4>2
      <4> HIDE DEF Up
      <4> QED BY <3>1, <4>3
    <3>2. CASE m # 1
      <4>1. m \in 2 .. n /\ m - 1 \in 1 .. n /\ m - 1 > 0
        BY <3>2
      <4>2. f[m] = f[m - 1] \o s[m] /\ f[m - 1] \in Seq(S) /\ s[m] \in Seq(S)
        BY <2>1, <2>2, <4>1
      <4>3. Up(m - 1)
        <5> HIDE DEF Up
        <5> QED BY <2>6, <4>1
      <4>4. Len(f[m]) = o[m]
        <5>1. Len(f[m]) = Len(f[m - 1]) + Len(s[m])
          BY <4>2
        <5>2. Len(f[m - 1]) = o[m - 1]
          BY <4>3
        <5>3. o[m] = o[m - 1] + Len(s[m])
          BY <2>4
        <5> QED BY <5>1, <5>2, <5>3
      <4>5. ASSUME NEW i \in 1 .. m, NEW t \in 1 .. Len(s[i])
            PROVE  f[m][o[i - 1] + t] = s[i][t]
        <5>0. i \in 1 .. n /\ t \in Nat /\ 1 <= t /\ t <= Len(s[i]) /\ Len(s[i]) \in Nat
              /\ o[i] \in Nat /\ o[i - 1] \in Nat /\ o[i] = o[i - 1] + Len(s[i])
          <6>1. i \in 1 .. n
            OBVIOUS
          <6>2. Len(s[i]) \in Nat
            BY <2>1, <6>1
          <6> QED BY <2>4, <6>1, <6>2
        <5>1. CASE i = m
          <6>1. f[m][Len(f[m - 1]) + t] = s[m][t]
            BY <4>2, <5>0, <5>1
          <6>2. Len(f[m - 1]) = o[i - 1]
            BY <4>3, <5>1
          <6>3. f[m][o[i - 1] + t] = s[m][t]
            BY <6>1, <6>2
          <6> QED BY <5>1, <6>3
        <5>2. CASE i # m
          <6>1. i \in 1 .. m - 1 /\ i \in 0 .. n /\ m - 1 \in i .. n
            BY <4>1, <5>2
          <6>2. o[i] <= o[m - 1]
            BY <2>3, <6>1, OffsetsRise
          <6>3. o[m - 1] \in Nat /\ Len(f[m - 1]) = o[m - 1]
            <7>1. o[m - 1] \in Nat
              BY <2>4, <4>1
            <7>2. Len(f[m - 1]) = o[m - 1]
              BY <4>3
            <7> QED BY <7>1, <7>2
          <6>4. o[i - 1] + t \in 1 .. Len(f[m - 1])
            <7> DEFINE a == o[i - 1]
                       l == Len(s[i])
                       b == o[i]
                       d == o[m - 1]
            <7>1. a \in Nat /\ l \in Nat /\ b = a + l /\ b <= d /\ d \in Nat
              BY <5>0, <6>2, <6>3
            <7>2. t \in Nat /\ 1 <= t /\ t <= l
              BY <5>0
            <7> HIDE DEF a, b, d, l
            <7>3. a + t \in 1 .. d
              BY <7>1, <7>2
            <7> QED BY <6>3, <7>3 DEF a, d
          <6>5. f[m][o[i - 1] + t] = f[m - 1][o[i - 1] + t]
            <7> DEFINE q == o[i - 1] + t
            <7>1. q \in 1 .. Len(f[m - 1])
              BY <6>4
            <7> HIDE DEF q
            <7>2. f[m][q] = f[m - 1][q]
              BY <4>2, <7>1
            <7> QED BY <7>2 DEF q
          <6>6. f[m - 1][o[i - 1] + t] = s[i][t]
            BY <4>3, <6>1
          <6> QED BY <6>5, <6>6
        <5> QED BY <5>1, <5>2
      <4>6. Up(m)
        BY <4>4, <4>5
      <4>7. m \in Nat
        OBVIOUS
      <4> HIDE DEF Up
      <4> QED BY <4>6, <4>7
    <3> QED BY <3>1, <3>2
  <2>7. \A m \in 0 .. n : m \in T
    <3> HIDE DEF T
    <3> QED BY <2>5, <2>6, Induct
  <2>8. Up(n)
    <3>1. n \in T
      <4> HIDE DEF T
      <4> QED BY <2>7
    <3> HIDE DEF Up
    <3> QED BY <2>1, <3>1
  <2>9. FlattenSeq(s) \in Seq(S)
    BY <2>1, <2>2
  <2>10. PartsOf(FlattenSeq(s), s, o)
    BY <1>1, <2>2, <2>8 DEF PartsOf
  <2> QED BY <2>9, <2>10
<1> QED BY <1>2, <1>3

-----------------------------------------------------------------------------
(* The place of a member in the order of its set.                          *)

\* R orders S linearly: <<a, b>> says that a comes no later than b.
Linear(R, S) ==
  /\ \A a, b \in S : <<a, b>> \in R \/ <<b, a>> \in R
  /\ \A a, b \in S : <<a, b>> \in R /\ <<b, a>> \in R => a = b
  /\ \A a, b, c \in S : <<a, b>> \in R /\ <<b, c>> \in R => <<a, c>> \in R

UpTo(R, S, p) == {q \in S : <<q, p>> \in R}
Place(R, S, p) == Cardinality(UpTo(R, S, p))
NoneLeftOut(R, S) == \A k \in 1 .. Cardinality(S) : \E p \in S : Place(R, S, p) = k

\* Later members have higher places, and no place is left out.
LEMMA PlacesFill ==
  ASSUME NEW S, IsFiniteSet(S), NEW R, Linear(R, S)
  PROVE  /\ \A p \in S : Place(R, S, p) \in 1 .. Cardinality(S)
         /\ \A p, q \in S : <<p, q>> \in R /\ p # q => Place(R, S, p) < Place(R, S, q)
         /\ \A p, q \in S : Place(R, S, p) = Place(R, S, q) => p = q
         /\ NoneLeftOut(R, S)
<1> DEFINE n == Cardinality(S)
<1>1. n \in Nat
  BY FS_CardinalityType
<1>2. ASSUME NEW p \in S
      PROVE  /\ p \in UpTo(R, S, p) /\ IsFiniteSet(UpTo(R, S, p))
             /\ Place(R, S, p) \in 1 .. n
  <2>1. p \in UpTo(R, S, p) /\ UpTo(R, S, p) \in SUBSET S
    BY DEF UpTo, Linear
  <2>2. IsFiniteSet(UpTo(R, S, p)) /\ Place(R, S, p) <= n
    BY <2>1, FS_Subset DEF Place
  <2>3. Place(R, S, p) \in Nat /\ Place(R, S, p) # 0
    BY <2>1, <2>2, FS_CardinalityType, FS_EmptySet DEF Place
  <2> QED BY <1>1, <2>1, <2>2, <2>3
<1>3. ASSUME NEW p \in S, NEW q \in S, <<p, q>> \in R, p # q
      PROVE  Place(R, S, p) < Place(R, S, q)
  <2>1. UpTo(R, S, p) \in SUBSET UpTo(R, S, q)
    BY <1>3 DEF UpTo, Linear
  <2>2. q \in UpTo(R, S, q) /\ q \notin UpTo(R, S, p)
    BY <1>2, <1>3 DEF UpTo, Linear
  <2>3. /\ Cardinality(UpTo(R, S, p)) <= Cardinality(UpTo(R, S, q))
        /\ Cardinality(UpTo(R, S, q)) = Cardinality(UpTo(R, S, p))
             => UpTo(R, S, q) = UpTo(R, S, p)
    BY <1>2, <2>1, FS_Subset
  <2>4. Place(R, S, p) \in 1 .. n /\ Place(R, S, q) \in 1 .. n
    BY <1>2
  <2> HIDE DEF n
  <2> QED BY <1>1, <2>2, <2>3, <2>4 DEF Place
<1>4. ASSUME NEW p \in S, NEW q \in S, Place(R, S, p) = Place(R, S, q)
      PROVE  p = q
  <2>1. Place(R, S, p) \in Nat /\ Place(R, S, q) \in Nat
    BY <1>1, <1>2
  <2>2. <<p, q>> \in R \/ <<q, p>> \in R
    BY DEF Linear
  <2>3. ~(Place(R, S, p) < Place(R, S, q)) /\ ~(Place(R, S, q) < Place(R, S, p))
    BY <1>4, <2>1
  <2> QED BY <1>3, <2>2, <2>3
<1>5. ASSUME NEW k \in 1 .. n PROVE \E p \in S : Place(R, S, p) = k
  <2> DEFINE f == [p \in S |-> Place(R, S, p)]
  <2>1. f \in [S -> 1 .. n]
    <3> HIDE DEF n
    <3> QED BY <1>2
  <2>2. f \in Injection(S, 1 .. n)
    <3>1. IsInjective(f)
      BY <1>4 DEF IsInjective
    <3> HIDE DEF f
    <3> QED BY <2>1, <3>1 DEF Injection
  <2>3. IsFiniteSet(1 .. n) /\ Cardinality(1 .. n) = n
    BY <1>1, FS_Interval
  <2> HIDE DEF f
  <2>4. f \in Surjection(S, 1 .. n)
    BY <2>2, <2>3, FS_Injection
  <2>5. \E p \in S : f[p] = k
    BY <2>4 DEF Surjection
  <2> QED BY <2>5 DEF f
<1> QED BY <1>2, <1>3, <1>4, <1>5 DEF NoneLeftOut

\* The numbers of a set in rising order.
InRisingOrder(R) == R = {x \in Int \X Int : x[1] <= x[2]}

LEMMA RisingIsLinear ==
  ASSUME NEW S \in SUBSET Int, NEW R, InRisingOrder(R)
  PROVE  /\ Linear(R, S)
         /\ \A p \in S : UpTo(R, S, p) = {q \in S : q <= p}
<1>1. \A a, b \in Int : <<a, b>> \in R <=> a <= b
  BY DEF InRisingOrder
<1>2. \A a, b \in S : <<a, b>> \in R <=> a <= b
  BY <1>1
<1>3. Linear(R, S)
  BY <1>2 DEF Linear
<1>4. \A p \in S : UpTo(R, S, p) = {q \in S : q <= p}
  BY <1>2 DEF UpTo
<1> QED BY <1>3, <1>4

\* F leads from a member of S to one, at every step, and f goes on by F.
ClosedForever(S, F) == \A t \in S, k \in Nat : F[<<t, k>>] \in S
IteratesForever(f, S, a, F) ==
  /\ f \in [Nat -> S]
  /\ f[0] = a
  /\ \A k \in Nat : f[k + 1] = F[<<f[k], k + 1>>]

\* What is defined step by step for every number exists.
LEMMA IteratedForever ==
  ASSUME NEW S, NEW a \in S, NEW F, ClosedForever(S, F)
  PROVE  \E f : IteratesForever(f, S, a, F)
<1> DEFINE g(n) == CHOOSE f : Iterates(f, S, n, a, F)
           f == [n \in Nat |-> g(n)[n]]
<1>1. ASSUME NEW n \in Nat PROVE Iterates(g(n), S, n, a, F)
  <2>1. Closed(S, n, F)
    <3>1. 1 .. n \subseteq Nat
      OBVIOUS
    <3> QED BY <3>1 DEF Closed, ClosedForever
  <2>2. \E h : Iterates(h, S, n, a, F)
    BY <2>1, Iterated
  <2> QED BY <2>2
<1> HIDE DEF g
<1>2. ASSUME NEW n \in Nat PROVE f[n] = g(n)[n] /\ f[n] \in S
  BY <1>1 DEF Iterates
<1>3. f[0] = a
  BY <1>1, <1>2 DEF Iterates
<1>4. ASSUME NEW n \in Nat PROVE g(n + 1)[n] = g(n)[n]
  <2> DEFINE T == {k \in Nat : g(n + 1)[k] = g(n)[k]}
  <2>1. /\ g(n)[0] = a /\ \A k \in 1 .. n : g(n)[k] = F[<<g(n)[k - 1], k>>]
        /\ g(n + 1)[0] = a
        /\ \A k \in 1 .. n + 1 : g(n + 1)[k] = F[<<g(n + 1)[k - 1], k>>]
    BY <1>1 DEF Iterates
  <2>2. 0 \in T
    BY <2>1
  <2>3. ASSUME NEW k \in 1 .. n, k - 1 \in T PROVE k \in T
    <3>1. k \in 1 .. n + 1 /\ k \in Nat /\ g(n + 1)[k - 1] = g(n)[k - 1]
      BY <2>3
    <3> QED BY <2>1, <3>1
  <2>4. \A k \in 0 .. n : k \in T
    <3> HIDE DEF T
    <3> QED BY <2>2, <2>3, Induct
  <2>5. n \in T
    <3> HIDE DEF T
    <3> QED BY <2>4
  <2> QED BY <2>5
<1>5. ASSUME NEW k \in Nat PROVE f[k + 1] = F[<<f[k], k + 1>>]
  <2>1. k + 1 \in 1 .. k + 1 /\ k + 1 \in Nat /\ (k + 1) - 1 = k
    OBVIOUS
  <2>2. g(k + 1)[k + 1] = F[<<g(k + 1)[k], k + 1>>]
    BY <1>1, <2>1 DEF Iterates
  <2> HIDE DEF f
  <2> QED BY <1>2, <1>4, <2>1, <2>2
<1>6. f \in [Nat -> S]
  <2>1. \A n \in Nat : g(n)[n] \in S
    BY <1>2
  <2> QED BY <2>1
<1> HIDE DEF f
<1>7. IteratesForever(f, S, a, F)
  BY <1>3, <1>5, <1>6 DEF IteratesForever
<1> QED BY <1>7

\* The greatest number of a finite set.
LEMMA MaxIs ==
  ASSUME NEW S \in SUBSET Int, IsFiniteSet(S), S # {}
  PROVE  Max(S) \in S /\ \A y \in S : Max(S) >= y
<1> DEFINE R == {x \in Int \X Int : x[1] <= x[2]}
           n == Cardinality(S)
<1>1. InRisingOrder(R)
  BY DEF InRisingOrder
<1> HIDE DEF R
<1>2. Linear(R, S) /\ \A p \in S : UpTo(R, S, p) = {q \in S : q <= p}
  BY <1>1, RisingIsLinear
<1>3. n \in Nat /\ n # 0
  BY FS_CardinalityType, FS_EmptySet
<1>4. PICK p \in S : Place(R, S, p) = n
  <2>1. n \in 1 .. n
    BY <1>3
  <2>2. Linear(R, S)
    BY <1>2
  <2>3. NoneLeftOut(R, S)
    BY <2>2, PlacesFill
  <2> QED BY <2>1, <2>3 DEF NoneLeftOut
<1>5. ASSUME NEW y \in S PROVE p >= y
  <2>1. \A a, b \in Int : <<a, b>> \in R <=> a <= b
    BY <1>1 DEF InRisingOrder
  <2>2. <<p, y>> \in R /\ p # y => FALSE
    <3>1. Place(R, S, y) \in 1 .. n
      BY <1>2, PlacesFill
    <3>2. <<p, y>> \in R /\ p # y => Place(R, S, p) < Place(R, S, y)
      BY <1>2, PlacesFill
    <3> QED BY <1>3, <1>4, <3>1, <3>2
  <2>3. p \in Int /\ y \in Int
    OBVIOUS
  <2> QED BY <2>1, <2>2, <2>3
<1>6. \E x \in S : \A y \in S : x >= y
  BY <1>5
<1> QED BY <1>6 DEF Max

\* No position belongs to two parts.
Apart(o, len, n) ==
  \A i, j \in 1 .. n : \A t \in 1 .. len[i], u \in 1 .. len[j] :
    o[i - 1] + t = o[j - 1] + u => i = j /\ t = u

LEMMA OffsetsApart ==
  ASSUME NEW n \in Nat, NEW len \in [1 .. n -> Nat], NEW o, Offsets(o, len, n)
  PROVE  Apart(o, len, n)
<1> SUFFICES ASSUME NEW i \in 1 .. n, NEW j \in 1 .. n,
                    NEW t \in 1 .. len[i], NEW u \in 1 .. len[j],
                    o[i - 1] + t = o[j - 1] + u
             PROVE  i = j /\ t = u
  BY DEF Apart
<1>1. ASSUME NEW a \in 1 .. n, NEW b \in 1 .. n, a < b,
             NEW x \in 1 .. len[a], NEW y \in 1 .. len[b]
      PROVE  o[a - 1] + x # o[b - 1] + y
  <2>1. a \in 0 .. n /\ a - 1 \in 0 .. n /\ b - 1 \in a .. n /\ b - 1 \in 0 .. n
        /\ len[a] \in Nat /\ len[b] \in Nat
    BY <1>1
  <2>2. o[a] <= o[b - 1]
    BY <2>1, OffsetsRise
  <2>3. o[a] \in Nat /\ o[a - 1] \in Nat /\ o[b - 1] \in Nat /\ o[a] = o[a - 1] + len[a]
    BY <2>1 DEF Offsets
  <2>4. x \in Nat /\ x <= len[a] /\ y \in Nat /\ y >= 1
    BY <2>1
  <2> DEFINE A == o[a - 1]
             B == o[b - 1]
             L == len[a]
  <2>5. A + L <= B /\ A \in Nat /\ B \in Nat /\ L \in Nat
    BY <2>1, <2>2, <2>3
  <2>6. x <= L
    BY <2>4
  <2> HIDE DEF A, B, L
  <2>7. A + x # B + y
    BY <2>4, <2>5, <2>6
  <2> QED BY <2>7 DEF A, B
<1>2. ~(i < j) /\ ~(j < i)
  BY <1>1
<1>3. i = j
  BY <1>2
<1>4. o[i - 1] \in Nat /\ t \in Nat /\ u \in Nat
  <2>1. i - 1 \in 0 .. n /\ len[i] \in Nat /\ len[j] \in Nat
    OBVIOUS
  <2>2. o[i - 1] \in Nat
    BY <2>1 DEF Offsets
  <2> QED BY <2>1, <2>2
<1>5. t = u
  BY <1>3, <1>4
<1> QED BY <1>3, <1>5

\* The place of a position within all parts.
LEMMA OffsetsWithin ==
  ASSUME NEW n \in Nat, NEW len \in [1 .. n -> Nat], NEW o, Offsets(o, len, n),
         NEW i \in 1 .. n, NEW t \in 1 .. len[i]
  PROVE  o[i - 1] + t \in 1 .. o[n]
<1>1. i \in 0 .. n /\ i - 1 \in 0 .. n /\ n \in i .. n /\ n \in 0 .. n /\ len[i] \in Nat
  OBVIOUS
<1>2. o[i] <= o[n]
  BY <1>1, OffsetsRise
<1>3. o[i] \in Nat /\ o[i - 1] \in Nat /\ o[n] \in Nat /\ o[i] = o[i - 1] + len[i]
  BY <1>1 DEF Offsets
<1> QED BY <1>1, <1>2, <1>3

-----------------------------------------------------------------------------
(* The numbers of a set in order.                                          *)

\* How many numbers of S are not beyond p.
Below(S, p) == Cardinality({q \in S : q <= p})

LEMMA BelowIs ==
  ASSUME NEW S \in SUBSET Int, IsFiniteSet(S)
  PROVE  /\ \A p \in S : Below(S, p) \in 1 .. Cardinality(S)
         /\ \A p, q \in S : p < q => Below(S, p) < Below(S, q)
         /\ \A p, q \in S : Below(S, p) = Below(S, q) => p = q
         /\ \A k \in 1 .. Cardinality(S) : \E p \in S : Below(S, p) = k
<1> DEFINE R == {x \in Int \X Int : x[1] <= x[2]}
<1>1. InRisingOrder(R) /\ \A a, b \in Int : <<a, b>> \in R <=> a <= b
  BY DEF InRisingOrder
<1> HIDE DEF R
<1>2. Linear(R, S)
  BY <1>1, RisingIsLinear
<1>3. ASSUME NEW p \in S PROVE Below(S, p) = Place(R, S, p)
  <2>1. \A q \in S : <<q, p>> \in R <=> q <= p
    BY <1>1
  <2>2. UpTo(R, S, p) = {q \in S : q <= p}
    BY <2>1 DEF UpTo
  <2> QED BY <2>2 DEF Below, Place
<1>4. ASSUME NEW p \in S PROVE Below(S, p) \in 1 .. Cardinality(S)
  BY <1>2, <1>3, PlacesFill
<1>5. ASSUME NEW p \in S, NEW q \in S, p < q PROVE Below(S, p) < Below(S, q)
  <2>1. <<p, q>> \in R /\ p # q
    BY <1>1, <1>5
  <2>2. Place(R, S, p) < Place(R, S, q)
    BY <1>2, <2>1, PlacesFill
  <2> QED BY <1>3, <2>2
<1>6. ASSUME NEW p \in S, NEW q \in S, Below(S, p) = Below(S, q) PROVE p = q
  BY <1>2, <1>3, <1>6, PlacesFill
<1>7. ASSUME NEW k \in 1 .. Cardinality(S) PROVE \E p \in S : Below(S, p) = k
  <2>1. NoneLeftOut(R, S)
    BY <1>2, PlacesFill
  <2> QED BY <1>3, <2>1 DEF NoneLeftOut
<1> QED BY <1>4, <1>5, <1>6, <1>7

LEMMA OrderedIs ==
  ASSUME NEW S \in SUBSET Int, IsFiniteSet(S)
  PROVE  /\ Ordered(S) \in [1 .. Cardinality(S) -> S]
         /\ \A k \in 1 .. Cardinality(S) : Below(S, Ordered(S)[k]) = k
         /\ \A p \in S : Ordered(S)[Below(S, p)] = p
<1> DEFINE n == Cardinality(S)
<1>1. ASSUME NEW k \in 1 .. n
      PROVE  Ordered(S)[k] \in S /\ Below(S, Ordered(S)[k]) = k
  <2>1. \E p \in S : Below(S, p) = k
    BY BelowIs
  <2>2. \E p \in S : Cardinality({q \in S : q <= p}) = k
    BY <2>1 DEF Below
  <2> DEFINE c == CHOOSE p \in S : Cardinality({q \in S : q <= p}) = k
  <2>3. c \in S /\ Cardinality({q \in S : q <= c}) = k
    BY <2>2
  <2>4. Ordered(S)[k] = c
    BY DEF Ordered
  <2> HIDE DEF c
  <2> QED BY <2>3, <2>4 DEF Below
<1>2. ASSUME NEW p \in S PROVE Ordered(S)[Below(S, p)] = p
  <2>1. Below(S, p) \in 1 .. n
    BY BelowIs
  <2> DEFINE q == Ordered(S)[Below(S, p)]
  <2>2. q \in S /\ Below(S, q) = Below(S, p)
    BY <1>1, <2>1
  <2> HIDE DEF q
  <2>3. q = p
    BY <2>2, BelowIs
  <2> QED BY <2>3 DEF q
<1>3. Ordered(S) \in [1 .. n -> S]
  <2>1. Ordered(S) = [k \in 1 .. n |-> Ordered(S)[k]]
    BY DEF Ordered
  <2> QED BY <1>1, <2>1
<1> QED BY <1>1, <1>2, <1>3

\* If a rising function numbers S from 1 to L, it is the order of S.
LEMMA RisingIsOrder ==
  ASSUME NEW S \in SUBSET Int, IsFiniteSet(S), NEW L \in Nat, NEW time \in [S -> 1 .. L],
         \A k \in 1 .. L : \E p \in S : time[p] = k,
         \A p, q \in S : p < q => time[p] < time[q]
  PROVE  /\ Cardinality(S) = L
         /\ \A p \in S : Below(S, p) = time[p] /\ Ordered(S)[time[p]] = p
<1>0. \A p, q \in S : time[p] = time[q] => p = q
  BY SMT
<1>1. ASSUME NEW p \in S PROVE Below(S, p) = time[p]
  <2> DEFINE low == {q \in S : q <= p}
             f == [q \in low |-> time[q]]
  <2>1. ASSUME NEW q \in low PROVE time[q] \in 1 .. time[p]
    <3>1. q < p \/ q = p
      OBVIOUS
    <3>2. q < p => time[q] < time[p]
      OBVIOUS
    <3>3. time[q] \in 1 .. L /\ time[p] \in 1 .. L
      OBVIOUS
    <3> QED BY <3>1, <3>2, <3>3
  <2>2. ASSUME NEW k \in 1 .. time[p] PROVE \E q \in low : f[q] = k
    <3>1. k \in 1 .. L /\ time[p] \in Nat
      OBVIOUS
    <3>2. PICK q \in S : time[q] = k
      BY <3>1
    <3>3. q <= p
      <4>1. p < q => time[p] < time[q]
        OBVIOUS
      <4>2. ~(time[p] < time[q])
        BY <3>1, <3>2
      <4> QED BY <4>1, <4>2
    <3> QED BY <3>2, <3>3
  <2>3. f \in [low -> 1 .. time[p]]
    BY <2>1
  <2>4. IsInjective(f)
    BY <1>0 DEF IsInjective
  <2> HIDE DEF f, low
  <2>5. f \in Bijection(low, 1 .. time[p])
    BY <2>2, <2>3, <2>4 DEF Bijection, Injection, Surjection
  <2>6. IsFiniteSet(low)
    BY FS_Subset DEF low
  <2>7. Cardinality(1 .. time[p]) = Cardinality(low)
    BY <2>5, <2>6, FS_Bijection DEF ExistsBijection
  <2>8. Cardinality(1 .. time[p]) = time[p]
    <3>1. time[p] \in Int /\ time[p] >= 1
      OBVIOUS
    <3> QED BY <3>1, FS_Interval
  <2> QED BY <2>7, <2>8 DEF Below, low
<1>2. Cardinality(S) = L
  <2>1. time \in Bijection(S, 1 .. L)
    BY <1>0 DEF Bijection, Injection, Surjection, IsInjective
  <2>2. Cardinality(1 .. L) = Cardinality(S)
    BY <2>1, FS_Bijection DEF ExistsBijection
  <2> QED BY <2>2, FS_Interval
<1>3. ASSUME NEW p \in S PROVE Ordered(S)[time[p]] = p
  BY <1>1, OrderedIs
<1> QED BY <1>1, <1>2, <1>3

\* Numbers that follow one another in S follow one another in its order.
LEMMA RunInOrder ==
  ASSUME NEW S \in SUBSET Int, IsFiniteSet(S), NEW a \in Int, NEW j \in Nat,
         a .. a + j \subseteq S
  PROVE  Below(S, a + j) = Below(S, a) + j
<1> DEFINE low == {q \in S : q <= a}
           run == a + 1 .. a + j
<1>1. {q \in S : q <= a + j} = low \cup run /\ low \cap run = {}
  <2>1. \A q \in Int : q <= a + j <=> q <= a \/ q \in run
    OBVIOUS
  <2>2. \A q \in run : q \in S /\ ~(q <= a)
    OBVIOUS
  <2> HIDE DEF run
  <2> QED BY <2>1, <2>2
<1>2. IsFiniteSet(low) /\ Cardinality(low) \in Nat
  <2>1. IsFiniteSet(low)
    BY FS_Subset
  <2> QED BY <2>1, FS_CardinalityType
<1>3. IsFiniteSet(run) /\ Cardinality(run) = j
  <2>1. a + 1 \in Int /\ a + j \in Int /\ (a + 1 > a + j => j = 0) /\ (a + j) - (a + 1) + 1 = j
    OBVIOUS
  <2> QED BY <2>1, FS_Interval
<1>4. Cardinality(low \cup run) = Cardinality(low) + Cardinality(run) - Cardinality(low \cap run)
  <2> HIDE DEF low, run
  <2> QED BY <1>2, <1>3, FS_Union
<1>5. Cardinality(low \cap run) = 0
  BY <1>1, FS_EmptySet
<1>6. Below(S, a) = Cardinality(low) /\ Below(S, a + j) = Cardinality(low \cup run)
  BY <1>1 DEF Below
<1> HIDE DEF low, run
<1> QED BY <1>2, <1>3, <1>4, <1>5, <1>6

\* The order of an interval from 1 on is the numbers themselves.
LEMMA OrderOfAll ==
  ASSUME NEW n \in Nat
  PROVE  Ordered(1 .. n) = [k \in 1 .. n |-> k]
<1> DEFINE S == 1 .. n
<1>1. S \in SUBSET Int /\ IsFiniteSet(S) /\ Cardinality(S) = n
  BY FS_Interval
<1>2. ASSUME NEW k \in 1 .. n PROVE Ordered(S)[k] = k
  <2>1. {q \in S : q <= k} = 1 .. k
    OBVIOUS
  <2>2. Cardinality(1 .. k) = k
    BY FS_Interval
  <2>3. Below(S, k) = k
    BY <2>1, <2>2 DEF Below
  <2>4. k \in S
    OBVIOUS
  <2> HIDE DEF S
  <2> QED BY <1>1, <2>3, <2>4, OrderedIs
<1>3. Ordered(S) = [k \in 1 .. n |-> Ordered(S)[k]]
  <2>1. Ordered(S) \in [1 .. n -> S]
    <3> HIDE DEF S
    <3> QED BY <1>1, OrderedIs
  <2> HIDE DEF S
  <2> QED BY <2>1
<1> HIDE DEF S
<1>4. Ordered(S) = [k \in 1 .. n |-> k]
  BY <1>2, <1>3
<1> QED BY <1>4 DEF S

\* One part more at the end.
LEMMA FlattenAppend ==
  ASSUME NEW S, NEW s \in Seq(Seq(S)), NEW u \in Seq(S)
  PROVE  FlattenSeq(s) \in Seq(S) /\ FlattenSeq(Append(s, u)) = FlattenSeq(s) \o u
<1> DEFINE n == Len(s)
           v == Append(s, u)
<1>1. n \in Nat /\ v \in Seq(Seq(S)) /\ Len(v) = n + 1 /\ v[n + 1] = u
      /\ \A i \in 1 .. n : v[i] = s[i]
  OBVIOUS
<1> HIDE DEF v
<1>2. PICK g \in [1 .. n + 1 -> Seq(S)] :
        /\ g[1] = v[1]
        /\ \A i \in 2 .. n + 1 : g[i] = g[i - 1] \o v[i]
        /\ FlattenSeq(v) = g[n + 1]
  <2>1. Len(v) > 0
    BY <1>1
  <2>2. \E g \in [1 .. Len(v) -> Seq(S)] :
           /\ g[1] = v[1]
           /\ \A i \in 2 .. Len(v) : g[i] = g[i - 1] \o v[i]
           /\ FlattenSeq(v) = g[Len(v)]
    BY <1>1, <2>1, FlattenParts
  <2> QED BY <1>1, <2>2
<1>3. CASE n = 0
  <2>1. s = <<>> /\ FlattenSeq(s) = s
    BY <1>3 DEF FlattenSeq
  <2>2. FlattenSeq(v) = u
    BY <1>1, <1>2, <1>3
  <2>3. <<>> \in Seq(S) /\ <<>> \o u = u
    OBVIOUS
  <2> QED BY <2>1, <2>2, <2>3 DEF v
<1>4. CASE n > 0
  <2>1. PICK f \in [1 .. n -> Seq(S)] :
          /\ f[1] = s[1]
          /\ \A i \in 2 .. n : f[i] = f[i - 1] \o s[i]
          /\ FlattenSeq(s) = f[n]
    BY <1>4, FlattenParts
  <2> DEFINE T == {i \in Nat : i > 0 => g[i] = f[i]}
  <2>2. 0 \in T
    OBVIOUS
  <2>3. ASSUME NEW i \in 1 .. n, i - 1 \in T PROVE i \in T
    <3>1. CASE i = 1
      <4>1. g[1] = f[1]
        BY <1>1, <1>2, <1>4, <2>1
      <4> QED BY <3>1, <4>1
    <3>2. CASE i # 1
      <4>1. i \in 2 .. n /\ i \in 2 .. n + 1 /\ i - 1 > 0 /\ i \in Nat
        BY <1>1, <3>2
      <4>2. g[i - 1] = f[i - 1]
        BY <2>3, <4>1
      <4>3. g[i] = g[i - 1] \o v[i] /\ f[i] = f[i - 1] \o s[i] /\ v[i] = s[i]
        BY <1>1, <1>2, <2>1, <4>1
      <4> QED BY <4>1, <4>2, <4>3
    <3> QED BY <3>1, <3>2
  <2>4. n \in T
    <3> HIDE DEF T
    <3>1. \A i \in 0 .. n : i \in T
      BY <1>1, <2>2, <2>3, Induct
    <3>2. n \in 0 .. n
      BY <1>1
    <3> QED BY <3>1, <3>2
  <2>5. g[n + 1] = g[n] \o u
    <3>1. n + 1 \in 2 .. n + 1 /\ (n + 1) - 1 = n
      BY <1>1, <1>4
    <3> QED BY <1>1, <1>2, <3>1
  <2>6. f[n] \in Seq(S)
    <3>1. n \in 1 .. n
      BY <1>1, <1>4
    <3> QED BY <3>1
  <2> QED BY <1>2, <1>4, <2>1, <2>4, <2>5, <2>6 DEF v
<1> QED BY <1>1, <1>3, <1>4

\* Arranged numbers the members of S by R.
LEMMA ArrangedIs ==
  ASSUME NEW S, IsFiniteSet(S), NEW R, Linear(R, S)
  PROVE  /\ Arranged(S, R) \in [1 .. Cardinality(S) -> S]
         /\ \A k \in 1 .. Cardinality(S) : Place(R, S, Arranged(S, R)[k]) = k
         /\ \A p \in S : /\ Place(R, S, p) \in 1 .. Cardinality(S)
                         /\ Arranged(S, R)[Place(R, S, p)] = p
         /\ \A j, k \in 1 .. Cardinality(S) :
              j <= k => <<Arranged(S, R)[j], Arranged(S, R)[k]>> \in R
<1> DEFINE n == Cardinality(S)
           A == Arranged(S, R)
<1>0. n \in Nat
  BY FS_CardinalityType
<1> HIDE DEF n
<1>1. ASSUME NEW k \in 1 .. n PROVE A[k] \in S /\ Place(R, S, A[k]) = k
  <2>1. \E p \in S : Place(R, S, p) = k
    BY PlacesFill DEF NoneLeftOut, n
  <2>2. \E p \in S : Cardinality({q \in S : <<q, p>> \in R}) = k
    BY <2>1 DEF Place, UpTo
  <2> DEFINE c == CHOOSE p \in S : Cardinality({q \in S : <<q, p>> \in R}) = k
  <2>3. c \in S /\ Cardinality({q \in S : <<q, c>> \in R}) = k
    BY <2>2
  <2>4. A[k] = c
    BY DEF Arranged, n
  <2> HIDE DEF c, A
  <2> QED BY <2>3, <2>4 DEF Place, UpTo
<1>2. ASSUME NEW p \in S PROVE Place(R, S, p) \in 1 .. n /\ A[Place(R, S, p)] = p
  <2>1. Place(R, S, p) \in 1 .. n
    BY PlacesFill DEF n
  <2> DEFINE q == A[Place(R, S, p)]
  <2>2. q \in S /\ Place(R, S, q) = Place(R, S, p)
    BY <1>1, <2>1
  <2> HIDE DEF q
  <2>3. q = p
    BY <2>2, PlacesFill
  <2> QED BY <2>1, <2>3 DEF q
<1>3. A \in [1 .. n -> S]
  <2>1. ASSUME NEW k \in 1 .. n
        PROVE  (CHOOSE p \in S : Cardinality({q \in S : <<q, p>> \in R}) = k) \in S
    <3>1. A[k] = CHOOSE p \in S : Cardinality({q \in S : <<q, p>> \in R}) = k
      BY DEF Arranged, n
    <3> QED BY <1>1, <3>1
  <2> QED BY <2>1 DEF Arranged, n
<1>4. ASSUME NEW j \in 1 .. n, NEW k \in 1 .. n, j <= k PROVE <<A[j], A[k]>> \in R
  <2> DEFINE a == A[j]
             b == A[k]
  <2>1. a \in S /\ b \in S /\ Place(R, S, a) = j /\ Place(R, S, b) = k
    BY <1>1
  <2> HIDE DEF a, b, A
  <2>2. <<a, b>> \in R \/ <<b, a>> \in R
    BY <2>1 DEF Linear
  <2>3. <<b, a>> \in R /\ a # b => k < j
    BY <2>1, PlacesFill
  <2>4. <<a, a>> \in R
    BY <2>1 DEF Linear
  <2>5. <<a, b>> \in R
    <3>1. ~ (k < j)
      BY <1>0, <1>4
    <3> QED BY <2>2, <2>3, <2>4, <3>1
  <2> QED BY <2>5 DEF a, b
<1> QED BY <1>1, <1>2, <1>3, <1>4 DEF n

-----------------------------------------------------------------------------
(* More on sums.                                                           *)

\* A sum of numbers that are not negative is no less than any of them.
LEMMA SumNat ==
  ASSUME NEW S, IsFiniteSet(S), NEW f, \A x \in S : f[x] \in Nat
  PROVE  SumFunctionOnSet(f, S) \in Nat /\ \A x \in S : f[x] <= SumFunctionOnSet(f, S)
<1> DEFINE F == {U \in SUBSET S : SumFunctionOnSet(f, U) \in Nat}
<1>0. \A x \in S : f[x] \in Int
  OBVIOUS
<1>1. {} \in F
  BY SumEmpty
<1>2. ASSUME NEW U \in SUBSET S, NEW x \in S, U \in F, x \notin U
      PROVE  U \cup {x} \in F
  <2>1. SumFunctionOnSet(f, U \cup {x}) = f[x] + SumFunctionOnSet(f, U)
    BY <1>0, <1>2, SumAdd
  <2>2. f[x] \in Nat /\ SumFunctionOnSet(f, U) \in Nat
    BY <1>2
  <2> QED BY <2>1, <2>2
<1>3. ASSUME NEW V, V \in SUBSET S PROVE V \in F
  <2>1. IsFiniteSet(V)
    BY <1>3, FS_Subset
  <2>2. \A U \in SUBSET V, x \in V : U \in F /\ x \notin U => U \cup {x} \in F
    BY <1>2, <1>3
  <2> HIDE DEF F
  <2> QED BY <1>1, <2>1, <2>2, SetInduct
<1>4. ASSUME NEW x \in S PROVE f[x] <= SumFunctionOnSet(f, S)
  <2>1. SumFunctionOnSet(f, S) = f[x] + SumFunctionOnSet(f, S \ {x})
    BY <1>0, SumOut
  <2>2. SumFunctionOnSet(f, S \ {x}) \in Nat
    <3>1. S \ {x} \in SUBSET S
      OBVIOUS
    <3> QED BY <1>3, <3>1
  <2>3. f[x] \in Nat
    OBVIOUS
  <2> QED BY <2>1, <2>2, <2>3
<1>5. S \in SUBSET S
  OBVIOUS
<1> QED BY <1>3, <1>4, <1>5

\* The sum over two sets without a common member.
SumsJoin(f, S) ==
  \A U, V \in SUBSET S : U \cap V = {} =>
    SumFunctionOnSet(f, U \cup V) = SumFunctionOnSet(f, U) + SumFunctionOnSet(f, V)
\* A sum over sets without a common member.
LEMMA SumUnion ==
  ASSUME NEW S, IsFiniteSet(S), NEW f, \A x \in S : f[x] \in Int
  PROVE  SumsJoin(f, S)
<1> SUFFICES ASSUME NEW U \in SUBSET S, NEW V \in SUBSET S, U \cap V = {}
             PROVE  SumFunctionOnSet(f, U \cup V)
                      = SumFunctionOnSet(f, U) + SumFunctionOnSet(f, V)
  BY DEF SumsJoin
<1> DEFINE F == {W \in SUBSET V :
             SumFunctionOnSet(f, U \cup W) = SumFunctionOnSet(f, U) + SumFunctionOnSet(f, W)}
<1>0. IsFiniteSet(U) /\ IsFiniteSet(V) /\ \A W \in SUBSET V : IsFiniteSet(W)
  BY FS_Subset
<1>1. {} \in F
  <2>1. SumFunctionOnSet(f, U) \in Int
    BY <1>0, SumInt
  <2>2. U \cup {} = U
    OBVIOUS
  <2> QED BY <2>1, <2>2, SumEmpty
<1>2. ASSUME NEW W \in SUBSET V, NEW x \in V, W \in F, x \notin W
      PROVE  W \cup {x} \in F
  <2>1. SumFunctionOnSet(f, W \cup {x}) = f[x] + SumFunctionOnSet(f, W)
    BY <1>2, SumAdd
  <2>2. SumFunctionOnSet(f, (U \cup W) \cup {x}) = f[x] + SumFunctionOnSet(f, U \cup W)
    <3>1. U \cup W \in SUBSET S /\ x \in S /\ x \notin U \cup W
      BY <1>2
    <3> QED BY <3>1, SumAdd
  <2>3. (U \cup W) \cup {x} = U \cup (W \cup {x})
    OBVIOUS
  <2>4. f[x] \in Int /\ SumFunctionOnSet(f, U) \in Int /\ SumFunctionOnSet(f, W) \in Int
    BY <1>0, SumInt
  <2>5. SumFunctionOnSet(f, U \cup W) = SumFunctionOnSet(f, U) + SumFunctionOnSet(f, W)
    BY <1>2
  <2>6. SumFunctionOnSet(f, U \cup (W \cup {x}))
          = SumFunctionOnSet(f, U) + SumFunctionOnSet(f, W \cup {x})
    <3> DEFINE a == SumFunctionOnSet(f, U)
               b == SumFunctionOnSet(f, W)
               c == f[x]
               d == SumFunctionOnSet(f, W \cup {x})
    <3>1. a \in Int /\ b \in Int /\ c \in Int /\ d = c + b
      BY <2>1, <2>4
    <3>2. SumFunctionOnSet(f, U \cup (W \cup {x})) = c + (a + b)
      BY <2>2, <2>3, <2>5
    <3> HIDE DEF a, b, c, d
    <3>3. c + (a + b) = a + d
      BY <3>1
    <3> QED BY <3>2, <3>3 DEF a, d
  <2> QED BY <2>6
<1>3. V \in F
  <2> HIDE DEF F
  <2> QED BY <1>0, <1>1, <1>2, SetInduct
<1> QED BY <1>3

\* A sum over other names of the members.
Image(h, S) == {h[x] : x \in S}
\* A sum over other names for the same members.
LEMMA SumMoved ==
  ASSUME NEW S, IsFiniteSet(S), NEW T, IsFiniteSet(T),
         NEW h \in [S -> T], \A x, y \in S : h[x] = h[y] => x = y,
         NEW f, \A x \in T : f[x] \in Int, NEW g, \A x \in S : g[x] = f[h[x]]
  PROVE  SumFunctionOnSet(g, S) = SumFunctionOnSet(f, Image(h, S))
<1> DEFINE F == {U \in SUBSET S :
             SumFunctionOnSet(g, U) = SumFunctionOnSet(f, {h[x] : x \in U})}
<1>1. {} \in F
  <2>1. {h[x] : x \in {}} = {}
    OBVIOUS
  <2> QED BY <2>1, SumEmpty
<1>2. ASSUME NEW U \in SUBSET S, NEW y \in S, U \in F, y \notin U
      PROVE  U \cup {y} \in F
  <2>0. \A x \in S : g[x] \in Int
    OBVIOUS
  <2>1. SumFunctionOnSet(g, U \cup {y}) = g[y] + SumFunctionOnSet(g, U)
    BY <1>2, <2>0, SumAdd
  <2> DEFINE V == {h[x] : x \in U}
  <2>2. V \in SUBSET T /\ h[y] \in T /\ h[y] \notin V
    BY <1>2
  <2>3. {h[x] : x \in U \cup {y}} = V \cup {h[y]}
    OBVIOUS
  <2> HIDE DEF V
  <2>4. SumFunctionOnSet(f, V \cup {h[y]}) = f[h[y]] + SumFunctionOnSet(f, V)
    BY <2>2, SumAdd
  <2>5. SumFunctionOnSet(g, U) = SumFunctionOnSet(f, V)
    BY <1>2 DEF V
  <2>6. g[y] = f[h[y]]
    OBVIOUS
  <2> QED BY <2>1, <2>3, <2>4, <2>5, <2>6
<1>3. S \in F
  <2> HIDE DEF F
  <2> QED BY <1>1, <1>2, SetInduct
<1> QED BY <1>3 DEF Image

\* Parts of length l, end to end.
EndToEnd(f, P, k, l) == \A i \in 1 .. k : \A x \in 1 .. l : f[(i - 1) * l + x] = P[i][x]

\* Sequences of one length, end to end.
LEMMA FlattenEven ==
  ASSUME NEW S, NEW k \in Nat, NEW l \in Nat, NEW P \in [1 .. k -> Seq(S)],
         \A i \in 1 .. k : Len(P[i]) = l,
         NEW f, f = FlattenSeq(P)
  PROVE  /\ f \in Seq(S) /\ Len(f) = k * l
         /\ EndToEnd(f, P, k, l)
<1> DEFINE w == [i \in 1 .. k |-> Len(P[i])]
<1>1. w \in [1 .. k -> Nat] /\ \A i \in 1 .. k : w[i] = l
  OBVIOUS
<1>2. PICK o : Offsets(o, w, k)
  <2> HIDE DEF w
  <2> QED BY <1>1, OffsetsExist
<1>3. f \in Seq(S) /\ PartsOf(f, P, o)
  BY <1>2, Flattened
<1>4. o[0] = 0 /\ \A i \in 1 .. k : o[i] = o[i - 1] + l
  BY <1>1, <1>2 DEF Offsets
<1> DEFINE T == {i \in Nat : o[i] = i * l}
<1>5. \A i \in 0 .. k : i \in T
  <2>1. 0 \in T
    <3>1. 0 * l = 0
      OBVIOUS
    <3> QED BY <1>4, <3>1
  <2>2. ASSUME NEW i \in 1 .. k, i - 1 \in T PROVE i \in T
    <3>1. (i - 1) * l + l = i * l
      OBVIOUS
    <3>2. o[i - 1] = (i - 1) * l
      BY <2>2
    <3>3. o[i] = i * l /\ i \in Nat
      BY <1>4, <3>1, <3>2
    <3> QED BY <3>3
  <2> HIDE DEF T
  <2> QED BY <2>1, <2>2, Induct
<1>6. \A i \in 0 .. k : o[i] = i * l
  BY <1>5
<1>7. Len(P) = k
  OBVIOUS
<1>8. Len(f) = k * l
  <2>1. Len(f) = o[k] /\ k \in 0 .. k
    BY <1>3, <1>7 DEF PartsOf
  <2> QED BY <1>6, <2>1
<1>9. ASSUME NEW i \in 1 .. k, NEW x \in 1 .. l PROVE f[(i - 1) * l + x] = P[i][x]
  <2>1. i - 1 \in 0 .. k
    OBVIOUS
  <2>2. f[o[i - 1] + x] = P[i][x]
    BY <1>3, <1>7 DEF PartsOf
  <2>3. o[i - 1] = (i - 1) * l
    BY <1>6, <2>1
  <2> QED BY <2>2, <2>3
<1> QED BY <1>3, <1>8, <1>9 DEF EndToEnd

\* The place of a number among pieces of l.
InPiece(z, k, l) == \E i \in 1 .. k : \E x \in 1 .. l : z = (i - 1) * l + x

\* Every position is in one of the pieces.
LEMMA PlaceIn ==
  ASSUME NEW k \in Nat, NEW l \in Nat, NEW z \in 1 .. k * l
  PROVE  InPiece(z, k, l)
<1>0. l \in Nat \ {0} /\ k * l \in Nat
  <2>1. l = 0 => k * l = 0
    OBVIOUS
  <2>2. k * l \in Nat
    OBVIOUS
  <2> QED BY <2>1, <2>2
<1> DEFINE q == (z - 1) \div l
           m == (z - 1) % l
<1>1. z - 1 = l * q + m /\ m \in 0 .. l - 1 /\ q \in Int /\ z - 1 \in Nat
  BY <1>0
<1> HIDE DEF q, m
<1>2. l * q = q * l
  BY <1>1
<1>3. q >= 0
  <2>1. q <= -1 => q * l <= (-1) * l
    BY <1>0, <1>1
  <2>2. (-1) * l = -l
    OBVIOUS
  <2> QED BY <1>0, <1>1, <1>2, <2>1, <2>2
<1>4. q < k
  <2>1. q >= k => q * l >= k * l
    BY <1>0, <1>1
  <2> QED BY <1>0, <1>1, <1>2, <2>1
<1> DEFINE i == q + 1
           x == m + 1
<1>5. i \in 1 .. k /\ x \in 1 .. l /\ z = (i - 1) * l + x
  <2>1. i - 1 = q
    BY <1>1
  <2>2. z = q * l + x
    BY <1>1, <1>2
  <2> QED BY <1>1, <1>3, <1>4, <2>1, <2>2
<1> HIDE DEF i, x
<1> QED BY <1>5 DEF InPiece

\* Another piece is before it or after it.
LEMMA PiecesApart ==
  ASSUME NEW k \in Nat, NEW l \in Nat, NEW i \in 1 .. k, NEW j \in 1 .. k,
         NEW x \in 1 .. l, NEW y \in 1 .. l
  PROVE  /\ (i - 1) * l + x \in 1 .. k * l
         /\ (i - 1) * l + x = (j - 1) * l + y => i = j /\ x = y
<1>1. \A a \in 1 .. k : /\ (a - 1) * l \in Nat /\ (a - 1) * l + l = a * l
                        /\ a * l <= k * l /\ k * l \in Nat
  <2> SUFFICES ASSUME NEW a \in 1 .. k
               PROVE  /\ (a - 1) * l \in Nat /\ (a - 1) * l + l = a * l
                      /\ a * l <= k * l /\ k * l \in Nat
    OBVIOUS
  <2>1. a - 1 \in Nat /\ a \in Nat /\ a <= k
    OBVIOUS
  <2>2. (a - 1) * l \in Nat /\ k * l \in Nat
    BY <2>1
  <2>3. (a - 1) * l + l = a * l
    BY <2>1
  <2>4. a * l <= k * l
    BY <2>1
  <2> QED BY <2>2, <2>3, <2>4
<1>2. (i - 1) * l + x \in 1 .. k * l
  <2> DEFINE a == (i - 1) * l
             b == i * l
             c == k * l
  <2>1. a \in Nat /\ a + l = b /\ b <= c /\ c \in Nat
    BY <1>1
  <2> HIDE DEF a, b, c
  <2>2. a + x \in 1 .. c
    BY <2>1
  <2> QED BY <2>2 DEF a, c
<1>3. ASSUME NEW a \in 1 .. k, NEW b \in 1 .. k, a < b, NEW u \in 1 .. l, NEW v \in 1 .. l
      PROVE  (a - 1) * l + u < (b - 1) * l + v
  <2> DEFINE c == (a - 1) * l
             e == (b - 1) * l
             g == a * l
  <2>1. c \in Nat /\ e \in Nat /\ c + l = g
    BY <1>1
  <2>2. g <= e
    <3>1. a \in Nat /\ b - 1 \in Nat /\ a <= b - 1
      BY <1>3
    <3> QED BY <3>1
  <2> HIDE DEF c, e, g
  <2>3. c + u < e + v
    BY <2>1, <2>2
  <2> QED BY <2>3 DEF c, e
<1>4. ASSUME (i - 1) * l + x = (j - 1) * l + y PROVE i = j /\ x = y
  <2>1. ~ (i < j) /\ ~ (j < i)
    <3> DEFINE p == (i - 1) * l + x
               q == (j - 1) * l + y
    <3>1. p \in Int /\ q \in Int /\ p = q
      BY <1>4
    <3>2. (i < j => p < q) /\ (j < i => q < p)
      BY <1>3
    <3> HIDE DEF p, q
    <3> QED BY <3>1, <3>2
  <2>2. i = j
    BY <2>1
  <2>3. (i - 1) * l \in Int
    BY <1>1
  <2> QED BY <1>4, <2>2, <2>3
<1> QED BY <1>2, <1>4

\* What a sequence has.
LEMMA InSeq ==
  ASSUME NEW S, NEW s \in Seq(S)
  PROVE  DOMAIN s = 1 .. Len(s) /\ Len(s) \in Nat /\ \A x \in DOMAIN s : s[x] \in S
OBVIOUS

\* A sequence over a set is one over a larger set.
LEMMA SeqWithin ==
  ASSUME NEW S, NEW T, S \subseteq T, NEW s \in Seq(S)
  PROVE  s \in Seq(T)
<1> DEFINE n == Len(s)
<1>1. n \in Nat /\ s \in [1 .. n -> S]
  OBVIOUS
<1>2. s \in [1 .. n -> T]
  BY <1>1
<1> HIDE DEF n
<1> QED BY <1>1, <1>2

\* A product divided by one of its factors.
LEMMA Quotient ==
  ASSUME NEW k \in Nat \ {0}, NEW l \in Nat, NEW a, a = k * l
  PROVE  a \div k = l /\ a \in Nat
<1> DEFINE q == a \div k
           r == a % k
<1>1. a \in Nat
  OBVIOUS
<1>2. a = k * q + r /\ r \in 0 .. k - 1 /\ q \in Int
  BY <1>1
<1> HIDE DEF q, r
<1>3. k * (l - q) = r
  <2>1. k * (l - q) = k * l - k * q
    BY <1>2
  <2> QED BY <1>2, <2>1
<1>4. l - q <= 0
  <2>1. l - q >= 1 => k * (l - q) >= k * 1
    BY <1>2
  <2> QED BY <1>2, <1>3, <2>1
<1>5. l - q >= 0
  <2>1. l - q <= -1 => k * (l - q) <= k * (-1)
    BY <1>2
  <2>2. k * (-1) = -k
    OBVIOUS
  <2> QED BY <1>2, <1>3, <2>1, <2>2
<1> QED BY <1>1, <1>2, <1>4, <1>5 DEF q

\* A number that divides is a factor.
LEMMA Multiple ==
  ASSUME NEW a \in Nat, NEW k \in Nat \ {0}, (a % k) = 0
  PROVE  a \div k \in Nat /\ a = k * (a \div k)
<1> DEFINE q == a \div k
<1>1. a = k * q + (a % k) /\ q \in Int
  OBVIOUS
<1> HIDE DEF q
<1>2. a = k * q
  BY <1>1
<1>3. q >= 0
  <2>1. q <= -1 => k * q <= k * (-1)
    BY <1>1
  <2>2. k * (-1) = -k
    OBVIOUS
  <2> QED BY <1>1, <1>2, <2>1, <2>2
<1> QED BY <1>1, <1>2, <1>3 DEF q

\* A product leaves no rest.
LEMMA NoRest ==
  ASSUME NEW k \in Nat \ {0}, NEW l \in Nat, NEW a, a = k * l
  PROVE  (a % k) = 0
<1>1. a \div k = l /\ a \in Nat
  BY Quotient
<1>2. a = k * (a \div k) + (a % k) /\ a % k \in Int
  BY <1>1
<1> DEFINE r == a % k
           u == k * l
<1>3. a = u + r /\ a = u /\ r \in Int /\ u \in Nat
  BY <1>1, <1>2
<1> HIDE DEF r, u
<1>4. r = 0
  BY <1>3
<1> QED BY <1>4 DEF r
=============================================================================
