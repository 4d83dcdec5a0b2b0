-------------------------- MODULE AggregatorProofs --------------------------
(***************************************************************************)
(* Proofs about Aggregator.tla, for every set of addresses, ports, packets *)
(* and every max_flows: the types, that the counters of the buckets are    *)
(* the numbers of distinct flows, that a held flow is accounted completely,*)
(* what a flush reports and what its roll-up by address adds, and that the *)
(* counters implement the accounts of Accounts.tla.                        *)
(*                                                                         *)
(* The first two sections are about the operators Flow.tla is built from:  *)
(* sums over a finite set, in whatever order, and a finite set listed in a *)
(* strict total order.  What they say of every finite set is proved by the *)
(* least counterexample, since an induction theorem of the library takes   *)
(* an operator that the provers cannot be given.                           *)
(***************************************************************************)
EXTENDS Aggregator, FiniteSetTheorems, TLAPS

-----------------------------------------------------------------------------
(* A set of numbers that holds 0 and goes on holds them all, and a set of  *)
(* sets that holds {} and goes on by one element holds every finite set.   *)
LEMMA AllNumbers ==
  ASSUME NEW T, 0 \in T, \A n \in Nat : n \in T => n + 1 \in T
  PROVE  \A n \in Nat : n \in T
<1> SUFFICES ASSUME Nat \ T # {} PROVE FALSE
  OBVIOUS
<1>1. \E x \in Nat \ T : \A y \in Nat \ T : ~ (<<y, x>> \in OpToRel(<, Nat))
  BY WFMin, NatLessThanWellFounded
<1>2. PICK x \in Nat \ T : \A y \in Nat \ T : ~ (y < x)
  BY <1>1 DEF OpToRel
<1>3. x - 1 \in Nat /\ x - 1 < x /\ (x - 1) + 1 = x
  BY <1>2
<1>4. x - 1 \in T
  BY <1>2, <1>3
<1> QED BY <1>2, <1>3, <1>4

LEMMA AllSubsets ==
  ASSUME NEW S, IsFiniteSet(S), NEW F, {} \in F,
         \A T \in SUBSET S : \A x \in S \ T : T \in F => T \cup {x} \in F
  PROVE  \A T \in SUBSET S : T \in F
<1> SUFFICES ASSUME (SUBSET S) \ F # {} PROVE FALSE
  OBVIOUS
<1>1. FiniteSubsetsOf(S) = SUBSET S
  BY FS_FiniteSubsetsOfFinite
<1>2. \E T \in (SUBSET S) \ F : \A U \in (SUBSET S) \ F : ~ (<<U, T>> \in StrictSubsetOrdering(S))
  <2>1. (SUBSET S) \ F \subseteq FiniteSubsetsOf(S)
    BY <1>1
  <2> QED BY <2>1, WFMin, FS_StrictSubsetOrderingWellFounded
<1>3. PICK T \in (SUBSET S) \ F : \A U \in (SUBSET S) \ F : ~ (U \subseteq T /\ U # T)
  BY <1>2 DEF StrictSubsetOrdering
<1>4. PICK x \in T : TRUE
  BY <1>3
<1>5. T \ {x} \in SUBSET S /\ T \ {x} \subseteq T /\ T \ {x} # T
      /\ (T \ {x}) \cup {x} = T /\ x \in S \ (T \ {x})
  BY <1>3, <1>4
<1>6. T \ {x} \in F
  BY <1>3, <1>5
<1> QED BY <1>3, <1>5, <1>6

-----------------------------------------------------------------------------
(* Sums of a function over a finite set, in whatever order.                *)

First(s) == CHOOSE x \in s : TRUE

\* The equation of a sum over s, and a table that satisfies it for every s of
\* at most n elements.
Sums(it, f, s) == it[s] = IF s = {} THEN 0 ELSE f[First(s)] + it[s \ {First(s)}]

Adds(it, f, S) ==
  /\ it = [s \in SUBSET S |-> it[s]]
  /\ \A s \in SUBSET S : Sums(it, f, s)

AddsUpTo(it, f, S, n) ==
  /\ it = [s \in SUBSET S |-> it[s]]
  /\ \A s \in SUBSET S : Cardinality(s) <= n => Sums(it, f, s)

LEMMA FirstIn ==
  ASSUME NEW s, s # {}
  PROVE  First(s) \in s
BY DEF First

LEMMA SumsExist ==
  ASSUME NEW f, NEW S, IsFiniteSet(S)
  PROVE  \E it : Adds(it, f, S)
<1> DEFINE T == {n \in Nat : \E it : AddsUpTo(it, f, S, n)}
<1>0. \A s \in SUBSET S : IsFiniteSet(s) /\ Cardinality(s) \in Nat /\ Cardinality(s) <= Cardinality(S)
  BY FS_Subset, FS_CardinalityType
<1>1. 0 \in T
  <2> DEFINE it == [s \in SUBSET S |-> 0]
  <2>1. \A s \in SUBSET S : it[s] = 0
    OBVIOUS
  <2>2. it = [s \in SUBSET S |-> it[s]]
    OBVIOUS
  <2> HIDE DEF it
  <2>3. \A s \in SUBSET S : Cardinality(s) <= 0 => s = {}
    BY <1>0, FS_EmptySet
  <2>4. AddsUpTo(it, f, S, 0)
    BY <2>1, <2>2, <2>3 DEF AddsUpTo, Sums
  <2> QED BY <2>4
<1>2. ASSUME NEW n \in Nat, n \in T PROVE n + 1 \in T
  <2>1. PICK it : AddsUpTo(it, f, S, n)
    BY <1>2
  <2> DEFINE new(s) == IF Cardinality(s) <= n THEN it[s]
                       ELSE IF s = {} THEN 0 ELSE f[First(s)] + it[s \ {First(s)}]
             more == [s \in SUBSET S |-> new(s)]
  <2>2. more = [s \in SUBSET S |-> more[s]] /\ \A s \in SUBSET S : more[s] = new(s)
    <3> HIDE DEF new
    <3> QED OBVIOUS
  <2> HIDE DEF more
  <2>3. ASSUME NEW s \in SUBSET S, Cardinality(s) <= n + 1 PROVE Sums(more, f, s)
    <3>1. CASE s = {}
      <4>1. new(s) = 0
        <5>1. CASE Cardinality(s) <= n
          BY <2>1, <3>1, <5>1 DEF AddsUpTo, Sums
        <5>2. CASE ~ (Cardinality(s) <= n)
          BY <3>1, <5>2
        <5> QED BY <5>1, <5>2
      <4> QED BY <2>2, <3>1, <4>1 DEF Sums
    <3>2. CASE s # {}
      <4> DEFINE x == First(s)  rest == s \ {First(s)}
      <4>1. x \in s /\ rest \in SUBSET S
        BY <3>2, FirstIn
      <4>2. Cardinality(rest) = Cardinality(s) - 1 /\ Cardinality(s) \in Nat
        BY <1>0, <4>1, FS_RemoveElement
      <4>3. Cardinality(rest) <= n
        BY <2>3, <4>2
      <4>4. more[rest] = it[rest]
        <5> HIDE DEF rest
        <5> QED BY <2>2, <4>1, <4>3
      <4>5. new(s) = f[x] + it[rest]
        <5>1. CASE Cardinality(s) <= n
          BY <2>1, <3>2, <5>1 DEF AddsUpTo, Sums
        <5>2. CASE ~ (Cardinality(s) <= n)
          BY <3>2, <5>2
        <5> QED BY <5>1, <5>2
      <4>6. more[s] = f[x] + more[rest]
        <5> HIDE DEF rest, x, new
        <5> QED BY <2>2, <4>4, <4>5
      <4> QED BY <3>2, <4>6 DEF Sums
    <3> QED BY <3>1, <3>2
  <2>4. AddsUpTo(more, f, S, n + 1)
    BY <2>2, <2>3 DEF AddsUpTo
  <2> QED BY <2>4
<1> HIDE DEF T
<1>3. Cardinality(S) \in T
  BY <1>1, <1>2, AllNumbers, FS_CardinalityType
<1>4. PICK it : AddsUpTo(it, f, S, Cardinality(S))
  BY <1>3 DEF T
<1>5. Adds(it, f, S)
  BY <1>0, <1>4 DEF Adds, AddsUpTo
<1> QED BY <1>5

(* Tables that agree on the function agree on every set they share.        *)
LEMMA SumsAgree ==
  ASSUME NEW f, NEW g, NEW S, NEW R, NEW a, NEW b,
         IsFiniteSet(S), R \in SUBSET S, Adds(a, f, S), Adds(b, g, R),
         \A x \in R : f[x] = g[x]
  PROVE  \A s \in SUBSET R : a[s] = b[s]
<1> DEFINE T == {n \in Nat : \A s \in SUBSET R : Cardinality(s) <= n => a[s] = b[s]}
<1>0. \A s \in SUBSET R : /\ IsFiniteSet(s) /\ Cardinality(s) \in Nat
                          /\ s \in SUBSET S
                          /\ Sums(a, f, s) /\ Sums(b, g, s)
  BY FS_Subset, FS_CardinalityType DEF Adds
<1>1. 0 \in T
  <2>1. \A s \in SUBSET R : Cardinality(s) <= 0 => s = {}
    BY <1>0, FS_EmptySet
  <2> QED BY <1>0, <2>1 DEF Sums
<1>2. ASSUME NEW n \in Nat, n \in T PROVE n + 1 \in T
  <2> SUFFICES ASSUME NEW s \in SUBSET R, Cardinality(s) <= n + 1 PROVE a[s] = b[s]
    OBVIOUS
  <2>1. CASE s = {}
    BY <1>0, <2>1 DEF Sums
  <2>2. CASE s # {}
    <3> DEFINE x == First(s)  rest == s \ {First(s)}
    <3>1. x \in s /\ x \in R /\ rest \in SUBSET R
      BY <2>2, FirstIn
    <3>2. Cardinality(rest) = Cardinality(s) - 1 /\ Cardinality(s) \in Nat
      BY <1>0, <3>1, FS_RemoveElement
    <3>3. a[rest] = b[rest]
      <4> HIDE DEF rest
      <4> QED BY <1>2, <3>1, <3>2
    <3>4. a[s] = f[x] + a[rest] /\ b[s] = g[x] + b[rest]
      BY <1>0, <2>2 DEF Sums
    <3> HIDE DEF x, rest
    <3> QED BY <3>1, <3>3, <3>4
  <2> QED BY <2>1, <2>2
<1> HIDE DEF T
<1>3. \A n \in Nat : n \in T
  BY <1>1, <1>2, AllNumbers
<1> QED BY <1>0, <1>3 DEF T

SumOver(f, s) == SumFunction([x \in s |-> f[x]])

LEMMA SumIsATable ==
  ASSUME NEW f, NEW S, IsFiniteSet(S), NEW it, Adds(it, f, S)
  PROVE  \A s \in SUBSET S : SumOver(f, s) = it[s]
<1> SUFFICES ASSUME NEW s \in SUBSET S PROVE SumOver(f, s) = it[s]
  OBVIOUS
<1> DEFINE g == [x \in s |-> f[x]]
           table(t) == [u \in SUBSET s |-> IF u = {} THEN 0
                          ELSE g[CHOOSE x \in u : TRUE] + t[u \ {CHOOSE x \in u : TRUE}]]
           whole(t) == t = table(t)
           b == CHOOSE t : whole(t)
<1>1. DOMAIN g = s /\ \A x \in s : f[x] = g[x]
  OBVIOUS
<1> HIDE DEF g
<1>2. IsFiniteSet(s)
  BY FS_Subset
<1>3. PICK t : Adds(t, g, s)
  BY <1>2, SumsExist
<1>4. \A r : whole(r) <=> Adds(r, g, s)
  <2> SUFFICES ASSUME NEW r PROVE whole(r) <=> Adds(r, g, s)
    OBVIOUS
  <2>1. CASE whole(r)
    BY <2>1 DEF Adds, Sums, First
  <2>2. CASE Adds(r, g, s)
    <3>1. r = [u \in SUBSET s |-> r[u]]
      BY <2>2 DEF Adds
    <3>2. \A u \in SUBSET s : r[u] = IF u = {} THEN 0
             ELSE g[CHOOSE x \in u : TRUE] + r[u \ {CHOOSE x \in u : TRUE}]
      BY <2>2 DEF Adds, Sums, First
    <3>3. [u \in SUBSET s |-> r[u]] =
            [u \in SUBSET s |-> IF u = {} THEN 0
               ELSE g[CHOOSE x \in u : TRUE] + r[u \ {CHOOSE x \in u : TRUE}]]
      BY <3>2
    <3>4. table(r) =
            [u \in SUBSET s |-> IF u = {} THEN 0
               ELSE g[CHOOSE x \in u : TRUE] + r[u \ {CHOOSE x \in u : TRUE}]]
      BY Zenon DEF table
    <3>5. r = table(r)
      BY <3>1, <3>3, <3>4, Zenon
    <3> QED BY <2>2, <3>5, Zenon DEF whole
  <2> QED BY <2>1, <2>2
<1>5. Adds(b, g, s)
  <2> HIDE DEF whole
  <2> QED BY <1>3, <1>4
<1>6. SumFunction(g) = b[s]
  BY <1>1, Zenon DEF SumFunction, SumFunctionOnSet, FoldFunctionOnSet, MapThenFoldSet
<1> HIDE DEF b
<1>7. it[s] = b[s]
  BY <1>1, <1>5, SumsAgree
<1> QED BY <1>6, <1>7 DEF SumOver, g

LEMMA SumOfNone == ASSUME NEW f PROVE SumOver(f, {}) = 0
<1>1. PICK it : Adds(it, f, {})
  BY SumsExist, FS_EmptySet
<1>2. it[{}] = 0
  BY <1>1 DEF Adds, Sums
<1> QED BY <1>1, <1>2, SumIsATable, FS_EmptySet

(* The order of a sum does not matter: any element may be taken out first. *)
LEMMA SumTakesOut ==
  ASSUME NEW f, NEW S, IsFiniteSet(S), \A x \in S : f[x] \in Nat
  PROVE  \A s \in SUBSET S :
            /\ SumOver(f, s) \in Nat
            /\ \A x \in s : SumOver(f, s) = f[x] + SumOver(f, s \ {x})
<1>1. PICK it : Adds(it, f, S)
  BY SumsExist
<1> DEFINE Fine(s) == it[s] \in Nat /\ \A x \in s : it[s] = f[x] + it[s \ {x}]
           T == {n \in Nat : \A s \in SUBSET S : Cardinality(s) <= n => Fine(s)}
<1>0. \A s \in SUBSET S : IsFiniteSet(s) /\ Cardinality(s) \in Nat /\ Sums(it, f, s)
  BY <1>1, FS_Subset, FS_CardinalityType DEF Adds
<1>2. 0 \in T
  <2>1. \A s \in SUBSET S : Cardinality(s) <= 0 => s = {}
    BY <1>0, FS_EmptySet
  <2> QED BY <1>0, <2>1 DEF Sums
<1>3. ASSUME NEW n \in Nat, n \in T PROVE n + 1 \in T
  <2> SUFFICES ASSUME NEW s \in SUBSET S, Cardinality(s) <= n + 1 PROVE Fine(s)
    <3> HIDE DEF Fine
    <3> QED OBVIOUS
  <2>1. CASE s = {}
    <3>1. it[s] = 0
      BY <1>0, <2>1 DEF Sums
    <3> QED BY <2>1, <3>1
  <2>2. CASE s # {}
    <3>1. PICK c : c = First(s)
      OBVIOUS
    <3>2. c \in s /\ c \in S /\ it[s] = f[c] + it[s \ {c}]
      BY <1>0, <2>2, <3>1, FirstIn DEF Sums
    <3>3. \A x \in s : Fine(s \ {x}) /\ s \ {x} \in SUBSET S
      <4> SUFFICES ASSUME NEW x \in s PROVE Fine(s \ {x}) /\ s \ {x} \in SUBSET S
        OBVIOUS
      <4>1. Cardinality(s \ {x}) = Cardinality(s) - 1 /\ Cardinality(s) \in Nat
        BY <1>0, FS_RemoveElement
      <4> DEFINE rest == s \ {x}
      <4>2. rest \in SUBSET S /\ Cardinality(rest) <= n
        BY <4>1
      <4> HIDE DEF rest, Fine
      <4>3. Fine(rest)
        BY <1>3, <4>2
      <4> QED BY <4>2, <4>3 DEF rest
    <3>4. it[s] \in Nat
      <4>1. f[c] \in Nat /\ it[s \ {c}] \in Nat
        BY <3>2, <3>3
      <4> QED BY <3>2, <4>1
    <3>5. ASSUME NEW x \in s PROVE it[s] = f[x] + it[s \ {x}]
      <4>1. CASE x = c
        BY <3>2, <4>1
      <4>2. CASE x # c
        <5>1. x \in s \ {c} /\ c \in s \ {x} /\ (s \ {c}) \ {x} = (s \ {x}) \ {c}
          BY <3>2, <4>2
        <5> DEFINE sc == s \ {c}  sx == s \ {x}  both == (s \ {c}) \ {x}
        <5>2. it[sc] = f[x] + it[both] /\ it[sx] = f[c] + it[both]
          BY <3>2, <3>3, <5>1
        <5>3. f[x] \in Nat /\ f[c] \in Nat /\ it[both] \in Nat
          <6>1. x \in S /\ c \in S
            BY <3>2
          <6>2. both \in SUBSET S /\ Cardinality(both) <= n
            <7>1. Cardinality(sc) = Cardinality(s) - 1 /\ Cardinality(s) \in Nat /\ IsFiniteSet(sc)
              BY <1>0, <3>2, FS_RemoveElement
            <7>2. Cardinality(both) = Cardinality(sc) - 1
              BY <5>1, <7>1, FS_RemoveElement
            <7> HIDE DEF both, sc
            <7>3. Cardinality(both) <= n
              BY <7>1, <7>2
            <7> QED BY <7>3 DEF both, sc
          <6>3. it[both] \in Nat
            <7> HIDE DEF both
            <7> QED BY <1>3, <6>2
          <6> QED BY <6>1, <6>3
        <5>4. it[s] = f[c] + it[sc]
          BY <3>2
        <5> HIDE DEF sc, both
        <5>5. it[s] = f[x] + it[sx]
          <6> HIDE DEF sx
          <6> QED BY <5>2, <5>3, <5>4
        <5> QED BY <5>5
      <4> QED BY <4>1, <4>2
    <3> QED BY <3>4, <3>5
  <2> QED BY <2>1, <2>2
<1> HIDE DEF T
<1>4. \A s \in SUBSET S : Fine(s)
  <2>1. \A n \in Nat : n \in T
    BY <1>2, <1>3, AllNumbers
  <2> HIDE DEF Fine
  <2> QED BY <1>0, <2>1 DEF T
<1>5. \A s \in SUBSET S : SumOver(f, s) = it[s]
  BY <1>1, SumIsATable
<1> QED BY <1>4, <1>5

LEMMA SumOfOneMore ==
  ASSUME NEW f, NEW S, IsFiniteSet(S), NEW x, x \notin S,
         \A y \in S \cup {x} : f[y] \in Nat
  PROVE  SumOver(f, S \cup {x}) = SumOver(f, S) + f[x] /\ SumOver(f, S) \in Nat
<1> DEFINE T == S \cup {x}
<1>1. IsFiniteSet(T) /\ S \in SUBSET T /\ T \in SUBSET T /\ x \in T /\ T \ {x} = S
  BY FS_AddElement
<1>2. \A y \in T : f[y] \in Nat
  OBVIOUS
<1> HIDE DEF T
<1>3. /\ SumOver(f, S) \in Nat
      /\ SumOver(f, T) = f[x] + SumOver(f, T \ {x})
  BY <1>1, <1>2, SumTakesOut
<1>4. f[x] \in Nat
  OBVIOUS
<1>5. SumOver(f, T) = SumOver(f, S) + f[x]
  <2> DEFINE a == SumOver(f, T)  b == SumOver(f, S)
  <2>1. a = f[x] + b /\ b \in Nat
    BY <1>1, <1>3
  <2> HIDE DEF a, b
  <2>2. a = b + f[x]
    BY <1>4, <2>1
  <2> QED BY <2>2 DEF a, b
<1> QED BY <1>3, <1>5 DEF T

LEMMA SameSum ==
  ASSUME NEW f, NEW g, NEW S, \A x \in S : f[x] = g[x]
  PROVE  SumOver(f, S) = SumOver(g, S)
<1>1. [x \in S |-> f[x]] = [x \in S |-> g[x]]
  OBVIOUS
<1> QED BY <1>1, Zenon DEF SumOver

(* The sum of the sums of disjoint parts is the sum over all of them, and  *)
(* so is the sum of their cardinalities.                                   *)
Disjoint(parts) ==
  \A k, m \in DOMAIN parts : k # m => parts[k] \cap parts[m] = {}

Joined(parts, K) == UNION {parts[k] : k \in K}

LEMMA SumOfParts ==
  ASSUME NEW parts, NEW f, NEW sums, IsFiniteSet(DOMAIN parts), Disjoint(parts),
         \A k \in DOMAIN parts : /\ IsFiniteSet(parts[k])
                                 /\ sums[k] = SumOver(f, parts[k]),
         \A k \in DOMAIN parts : \A x \in parts[k] : f[x] \in Nat
  PROVE  SumOver(sums, DOMAIN parts) = SumOver(f, Joined(parts, DOMAIN parts))
<1> DEFINE D == DOMAIN parts
           F == {K \in SUBSET D : /\ IsFiniteSet(Joined(parts, K))
                                  /\ SumOver(sums, K) = SumOver(f, Joined(parts, K))}
<1>1. {} \in F
  <2>1. Joined(parts, {}) = {}
    BY DEF Joined
  <2> QED BY <2>1, SumOfNone, FS_EmptySet
<1>2. ASSUME NEW K \in SUBSET D, NEW k \in D \ K, K \in F PROVE K \cup {k} \in F
  <2> DEFINE J == Joined(parts, K)
             G == {T \in SUBSET parts[k] : /\ IsFiniteSet(J \cup T) /\ IsFiniteSet(T)
                                           /\ SumOver(f, J \cup T) = SumOver(f, J) + SumOver(f, T)
                                           /\ SumOver(f, J) \in Nat}
  <2>1. IsFiniteSet(J) /\ SumOver(sums, K) = SumOver(f, J) /\ IsFiniteSet(parts[k])
    BY <1>2
  <2>2. \A x \in J : f[x] \in Nat
    BY DEF Joined
  <2>3. SumOver(f, J) \in Nat
    BY <2>1, <2>2, SumTakesOut
  <2>4. J \cap parts[k] = {}
    BY <1>2 DEF Joined, Disjoint
  <2>5. {} \in G
    <3>1. J \cup {} = J
      OBVIOUS
    <3> QED BY <2>1, <2>3, <3>1, SumOfNone, FS_EmptySet
  <2>6. ASSUME NEW T \in SUBSET parts[k], NEW x \in parts[k] \ T, T \in G
        PROVE  T \cup {x} \in G
    <3>1. x \notin J \cup T /\ x \notin T
      BY <2>4
    <3>2. /\ \A y \in (J \cup T) \cup {x} : f[y] \in Nat
          /\ \A y \in T \cup {x} : f[y] \in Nat
      BY <2>2
    <3>3. f[x] \in Nat
      BY <3>2
    <3>4. IsFiniteSet(J \cup T) /\ IsFiniteSet(T)
          /\ SumOver(f, J \cup T) = SumOver(f, J) + SumOver(f, T)
      BY <2>6
    <3>5. /\ SumOver(f, (J \cup T) \cup {x}) = SumOver(f, J \cup T) + f[x]
          /\ SumOver(f, T \cup {x}) = SumOver(f, T) + f[x] /\ SumOver(f, T) \in Nat
      BY <3>1, <3>2, <3>4, SumOfOneMore
    <3>6. (J \cup T) \cup {x} = J \cup (T \cup {x})
      OBVIOUS
    <3>7. IsFiniteSet((J \cup T) \cup {x}) /\ IsFiniteSet(T \cup {x})
      BY <3>4, FS_AddElement
    <3> DEFINE a == SumOver(f, J)  b == SumOver(f, T)
               c == SumOver(f, J \cup T)  d == SumOver(f, T \cup {x})
               e == SumOver(f, (J \cup T) \cup {x})
    <3>9. a \in Nat /\ b \in Nat /\ f[x] \in Nat /\ c = a + b /\ e = c + f[x] /\ d = b + f[x]
      BY <2>3, <3>3, <3>4, <3>5
    <3>10. e = a + d
      <4> HIDE DEF a, b, c, d, e
      <4> QED BY <3>9
    <3> HIDE DEF J
    <3>8. SumOver(f, J \cup (T \cup {x})) = SumOver(f, J) + SumOver(f, T \cup {x})
      BY <3>6, <3>10
    <3> QED BY <2>3, <3>6, <3>7, <3>8
  <2> HIDE DEF G
  <2>7. parts[k] \in G
    <3>1. \A T \in SUBSET parts[k] : T \in G
      BY <2>1, <2>5, <2>6, AllSubsets
    <3> QED BY <3>1
  <2>8. IsFiniteSet(J \cup parts[k])
        /\ SumOver(f, J \cup parts[k]) = SumOver(f, J) + SumOver(f, parts[k])
    BY <2>7 DEF G
  <2>9. SumOver(sums, K \cup {k}) = SumOver(sums, K) + sums[k]
    <3>1. IsFiniteSet(K)
      BY FS_Subset
    <3>2. \A m \in K \cup {k} : sums[m] \in Nat
      <4> SUFFICES ASSUME NEW m \in D PROVE sums[m] \in Nat
        OBVIOUS
      <4>1. IsFiniteSet(parts[m]) /\ parts[m] \in SUBSET parts[m] /\ \A x \in parts[m] : f[x] \in Nat
        OBVIOUS
      <4> QED BY <4>1, SumTakesOut
    <3> QED BY <1>2, <3>1, <3>2, SumOfOneMore
  <2>10. Joined(parts, K \cup {k}) = J \cup parts[k]
    BY DEF Joined
  <2> HIDE DEF J
  <2>11. SumOver(sums, K \cup {k}) = SumOver(f, Joined(parts, K \cup {k}))
    BY <2>1, <2>8, <2>9, <2>10
  <2> QED BY <2>8, <2>10, <2>11
<1> HIDE DEF F
<1>3. D \in F
  <2>1. \A K \in SUBSET D : K \in F
    BY <1>1, <1>2, AllSubsets
  <2> QED BY <2>1
<1> QED BY <1>3 DEF F

LEMMA SumOfOnes ==
  ASSUME NEW S, IsFiniteSet(S), NEW f, \A x \in S : f[x] = 1
  PROVE  SumOver(f, S) = Cardinality(S)
<1> DEFINE F == {T \in SUBSET S : IsFiniteSet(T) /\ SumOver(f, T) = Cardinality(T)}
<1>1. {} \in F
  BY SumOfNone, FS_EmptySet
<1>2. ASSUME NEW T \in SUBSET S, NEW x \in S \ T, T \in F PROVE T \cup {x} \in F
  <2>1. SumOver(f, T \cup {x}) = SumOver(f, T) + 1 /\ IsFiniteSet(T)
    <3>1. \A y \in T \cup {x} : f[y] \in Nat
      OBVIOUS
    <3>2. IsFiniteSet(T) /\ f[x] = 1 /\ x \notin T
      BY <1>2
    <3> QED BY <3>1, <3>2, SumOfOneMore
  <2>2. IsFiniteSet(T \cup {x}) /\ Cardinality(T \cup {x}) = Cardinality(T) + 1
    BY <2>1, FS_AddElement
  <2> QED BY <1>2, <2>1, <2>2
<1> HIDE DEF F
<1>3. S \in F
  <2>1. \A T \in SUBSET S : T \in F
    BY <1>1, <1>2, AllSubsets
  <2> QED BY <2>1
<1> QED BY <1>3 DEF F

-----------------------------------------------------------------------------
(* A finite set listed by rank: with a strict total order R of S (a set of *)
(* pairs), the i-th element is the one with i - 1 smaller ones.            *)
Orders(R, S) ==
  /\ \A x \in S : <<x, x>> \notin R
  /\ \A x, y \in S : x # y => <<x, y>> \in R \/ <<y, x>> \in R
  /\ \A x, y, z \in S : <<x, y>> \in R /\ <<y, z>> \in R => <<x, z>> \in R

Below(R, S, x) == {y \in S : <<y, x>> \in R}

ByRank(seq, R, S) ==
  /\ seq = [i \in 1 .. Cardinality(S) |-> seq[i]]
  /\ \A i \in 1 .. Cardinality(S) :
       seq[i] \in S /\ Cardinality(Below(R, S, seq[i])) = i - 1

LEMMA RanksGrow ==
  ASSUME NEW S, IsFiniteSet(S), NEW R, Orders(R, S)
  PROVE  /\ \A x \in S : Cardinality(Below(R, S, x)) \in 0 .. Cardinality(S) - 1
         /\ \A x, y \in S : <<x, y>> \in R =>
              Cardinality(Below(R, S, x)) < Cardinality(Below(R, S, y))
<1>1. \A T \in SUBSET S : IsFiniteSet(T) /\ Cardinality(T) \in Nat
  BY FS_Subset, FS_CardinalityType
<1>2. Cardinality(S) \in Nat
  BY <1>1
<1>3. \A T \in SUBSET S : \A U \in SUBSET T : U # T => Cardinality(U) < Cardinality(T)
  <2> SUFFICES ASSUME NEW T \in SUBSET S, NEW U \in SUBSET T, U # T
               PROVE  Cardinality(U) < Cardinality(T)
    OBVIOUS
  <2>1. Cardinality(U) <= Cardinality(T) /\ Cardinality(U) # Cardinality(T)
    BY <1>1, FS_Subset
  <2>2. Cardinality(U) \in Nat /\ Cardinality(T) \in Nat
    BY <1>1
  <2> QED BY <2>1, <2>2
<1>4. ASSUME NEW x \in S
      PROVE  Cardinality(Below(R, S, x)) \in 0 .. Cardinality(S) - 1
  <2>1. Below(R, S, x) \in SUBSET S /\ Below(R, S, x) # S
    BY DEF Below, Orders
  <2>2. Cardinality(Below(R, S, x)) < Cardinality(S) /\ Cardinality(Below(R, S, x)) \in Nat
    BY <1>1, <1>3, <2>1
  <2> QED BY <1>2, <2>2
<1>5. ASSUME NEW x \in S, NEW y \in S, <<x, y>> \in R
      PROVE  Cardinality(Below(R, S, x)) < Cardinality(Below(R, S, y))
  <2>1. Below(R, S, y) \in SUBSET S
    BY DEF Below
  <2>2. Below(R, S, x) \in SUBSET Below(R, S, y)
    BY <1>5 DEF Below, Orders
  <2>3. x \in Below(R, S, y) /\ x \notin Below(R, S, x)
    BY <1>5 DEF Below, Orders
  <2> QED BY <1>3, <2>1, <2>2, <2>3
<1> QED BY <1>4, <1>5

LEMMA RanksFill ==
  ASSUME NEW S, IsFiniteSet(S), NEW R, Orders(R, S)
  PROVE  \A k \in 0 .. Cardinality(S) - 1 :
            \E x \in S : Cardinality(Below(R, S, x)) = k
<1>1. Cardinality(S) \in Nat
  BY FS_CardinalityType
<1> DEFINE K == 0 .. Cardinality(S) - 1
           rank == [x \in S |-> Cardinality(Below(R, S, x))]
<1>2. IsFiniteSet(K) /\ Cardinality(K) = Cardinality(S)
  BY <1>1, FS_Interval
<1>3. \A x \in S : rank[x] = Cardinality(Below(R, S, x)) /\ rank[x] \in K
  BY RanksGrow
<1>4. rank \in [S -> K]
  <2>1. rank = [x \in S |-> rank[x]]
    OBVIOUS
  <2> HIDE DEF rank
  <2> QED BY <1>3, <2>1
<1>5. \A x, y \in S : rank[x] = rank[y] => x = y
  <2> SUFFICES ASSUME NEW x \in S, NEW y \in S, rank[x] = rank[y], x # y PROVE FALSE
    OBVIOUS
  <2>1. <<x, y>> \in R \/ <<y, x>> \in R
    BY DEF Orders
  <2>2. rank[x] < rank[y] \/ rank[y] < rank[x]
    BY <1>3, <2>1, RanksGrow
  <2>3. rank[x] \in Nat /\ rank[y] \in Nat
    BY <1>1, <1>3
  <2> HIDE DEF rank
  <2> QED BY <2>2, <2>3
<1> HIDE DEF rank, K
<1>6. rank \in Injection(S, K)
  BY <1>4, <1>5 DEF Injection, IsInjective
<1>7. rank \in Surjection(S, K)
  BY <1>2, <1>6, FS_Injection
<1>8. \A k \in K : \E x \in S : rank[x] = k
  BY <1>7 DEF Surjection
<1> QED BY <1>3, <1>8 DEF K

LEMMA ListedByRank ==
  ASSUME NEW S, IsFiniteSet(S), NEW R, Orders(R, S), NEW seq, ByRank(seq, R, S)
  PROVE  /\ Cardinality(S) \in Nat
         /\ Len(seq) = Cardinality(S)
         /\ DOMAIN seq = 1 .. Cardinality(S)
         /\ ToSet(seq) = S
         /\ \A i, j \in DOMAIN seq : i < j => <<seq[i], seq[j]>> \in R
<1>1. Cardinality(S) \in Nat
  BY FS_CardinalityType
<1>2. DOMAIN seq = 1 .. Cardinality(S)
  BY DEF ByRank
<1>3. Len(seq) = Cardinality(S)
  <2>1. seq = [i \in 1 .. Cardinality(S) |-> seq[i]]
    BY DEF ByRank
  <2> QED BY <1>1, <2>1
<1>4. \A i \in DOMAIN seq : seq[i] \in S /\ Cardinality(Below(R, S, seq[i])) = i - 1
  BY <1>2 DEF ByRank
<1>5. \A x, y \in S : Cardinality(Below(R, S, x)) = Cardinality(Below(R, S, y)) => x = y
  <2> SUFFICES ASSUME NEW x \in S, NEW y \in S, x # y,
                      Cardinality(Below(R, S, x)) = Cardinality(Below(R, S, y))
               PROVE  FALSE
    OBVIOUS
  <2>1. <<x, y>> \in R \/ <<y, x>> \in R
    BY DEF Orders
  <2>2. Cardinality(Below(R, S, x)) \in Nat
    BY <1>1, RanksGrow
  <2> QED BY <2>1, <2>2, RanksGrow
<1>6. S \subseteq {seq[i] : i \in DOMAIN seq}
  <2> SUFFICES ASSUME NEW x \in S PROVE \E i \in DOMAIN seq : x = seq[i]
    OBVIOUS
  <2>1. PICK i : i = Cardinality(Below(R, S, x)) + 1
    OBVIOUS
  <2>2. i \in DOMAIN seq /\ i - 1 = Cardinality(Below(R, S, x))
    BY <1>1, <1>2, <2>1, RanksGrow
  <2>3. seq[i] = x
    BY <1>4, <1>5, <2>2
  <2> QED BY <2>2, <2>3
<1>7. ToSet(seq) = S
  BY <1>4, <1>6 DEF ToSet
<1>8. ASSUME NEW i \in DOMAIN seq, NEW j \in DOMAIN seq, i < j
      PROVE  <<seq[i], seq[j]>> \in R
  <2>1. seq[i] \in S /\ seq[j] \in S /\ i \in Nat /\ j \in Nat
    BY <1>1, <1>2, <1>4
  <2>2. Cardinality(Below(R, S, seq[i])) < Cardinality(Below(R, S, seq[j]))
    BY <1>4, <1>8, <2>1
  <2>3. seq[i] # seq[j] /\ <<seq[j], seq[i]>> \notin R
    <3>1. Cardinality(Below(R, S, seq[i])) \in Nat /\ Cardinality(Below(R, S, seq[j])) \in Nat
      BY <1>1, <2>1, RanksGrow
    <3>2. <<seq[j], seq[i]>> \in R =>
            Cardinality(Below(R, S, seq[j])) < Cardinality(Below(R, S, seq[i]))
      BY <2>1, RanksGrow
    <3> QED BY <2>2, <3>1, <3>2
  <2> QED BY <2>1, <2>3 DEF Orders
<1> QED BY <1>1, <1>2, <1>3, <1>7, <1>8

(* The two orders of flow.rs order every set of records.                   *)
LEMMA RecordOrder ==
  ASSUME NEW S,
         \A r \in S : /\ r.external_ip \in Nat /\ r.external_port \in Nat
                      /\ r.protocol \in Protocol,
         \A r, s \in S : (/\ r.external_ip = s.external_ip
                          /\ r.external_port = s.external_port
                          /\ r.protocol = s.protocol) => r = s,
         NEW R, \A x, y \in S : <<x, y>> \in R <=> RecordLess(x, y)
  PROVE  Orders(R, S)
<1>2. \A x \in S : ~ RecordLess(x, x)
  BY DEF RecordLess, Protocol
<1>3. \A x, y \in S : x # y => RecordLess(x, y) \/ RecordLess(y, x)
  <2> SUFFICES ASSUME NEW x \in S, NEW y \in S, x # y
               PROVE  RecordLess(x, y) \/ RecordLess(y, x)
    OBVIOUS
  <2>1. /\ x.external_ip \in Nat /\ x.external_port \in Nat /\ x.protocol \in Protocol
        /\ y.external_ip \in Nat /\ y.external_port \in Nat /\ y.protocol \in Protocol
    OBVIOUS
  <2>2. x.external_ip # y.external_ip \/ x.external_port # y.external_port
          \/ x.protocol # y.protocol
    OBVIOUS
  <2> QED BY <2>1, <2>2 DEF RecordLess, Protocol
<1>4. \A x, y, z \in S : RecordLess(x, y) /\ RecordLess(y, z) => RecordLess(x, z)
  <2> SUFFICES ASSUME NEW x \in S, NEW y \in S, NEW z \in S,
                      RecordLess(x, y), RecordLess(y, z)
               PROVE  RecordLess(x, z)
    OBVIOUS
  <2>1. /\ x.external_ip \in Nat /\ x.external_port \in Nat
        /\ y.external_ip \in Nat /\ y.external_port \in Nat
        /\ z.external_ip \in Nat /\ z.external_port \in Nat
    OBVIOUS
  <2> QED BY <2>1 DEF RecordLess
<1> QED BY <1>2, <1>3, <1>4 DEF Orders

LEMMA RecordsInOrder ==
  ASSUME NEW S, IsFiniteSet(S),
         \A r \in S : /\ r.external_ip \in Nat /\ r.external_port \in Nat
                      /\ r.protocol \in Protocol,
         \A r, s \in S : (/\ r.external_ip = s.external_ip
                          /\ r.external_port = s.external_port
                          /\ r.protocol = s.protocol) => r = s,
         NEW seq, seq = InOrder(S, RecordLess)
  PROVE  /\ Cardinality(S) \in Nat
         /\ Len(seq) = Cardinality(S)
         /\ DOMAIN seq = 1 .. Cardinality(S)
         /\ ToSet(seq) = S
         /\ \A i, j \in DOMAIN seq : i < j => RecordLess(seq[i], seq[j])
<1> DEFINE R == {p \in S \X S : RecordLess(p[1], p[2])}
<1>1. \A x, y \in S : <<x, y>> \in R <=> RecordLess(x, y)
  <2> SUFFICES ASSUME NEW x \in S, NEW y \in S PROVE <<x, y>> \in R <=> RecordLess(x, y)
    OBVIOUS
  <2>1. PICK p : p = <<x, y>>
    OBVIOUS
  <2>2. p \in S \X S /\ p[1] = x /\ p[2] = y
    BY <2>1
  <2>3. p \in R <=> RecordLess(p[1], p[2])
    BY <2>2
  <2> QED BY <2>1, <2>2, <2>3
<1> HIDE DEF R
<1>2. Orders(R, S)
  BY <1>1, RecordOrder
<1>3. ByRank(seq, R, S)
  <2>1. seq = [i \in 1 .. Cardinality(S) |-> seq[i]]
    <3>1. seq = [i \in 1 .. Cardinality(S) |->
                   CHOOSE x \in S : Cardinality({y \in S : RecordLess(y, x)}) = i - 1]
      BY Zenon DEF InOrder
    <3> QED BY <3>1
  <2>2. ASSUME NEW i \in 1 .. Cardinality(S)
        PROVE  seq[i] \in S /\ Cardinality(Below(R, S, seq[i])) = i - 1
    <3>1. \A x \in S : Below(R, S, x) = {y \in S : RecordLess(y, x)}
      BY <1>1 DEF Below
    <3>2. i - 1 \in 0 .. Cardinality(S) - 1
      BY FS_CardinalityType
    <3>3. \E x \in S : Cardinality(Below(R, S, x)) = i - 1
      BY <1>2, <3>2, RanksFill
    <3>4. \E x \in S : Cardinality({y \in S : RecordLess(y, x)}) = i - 1
      BY <3>1, <3>3
    <3>5. seq[i] = CHOOSE x \in S : Cardinality({y \in S : RecordLess(y, x)}) = i - 1
      BY Zenon DEF InOrder
    <3>6. seq[i] \in S /\ Cardinality({y \in S : RecordLess(y, seq[i])}) = i - 1
      BY <3>4, <3>5
    <3> QED BY <3>1, <3>6
  <2> QED BY <2>1, <2>2 DEF ByRank
<1>4. /\ Cardinality(S) \in Nat
      /\ Len(seq) = Cardinality(S)
      /\ DOMAIN seq = 1 .. Cardinality(S)
      /\ ToSet(seq) = S
      /\ \A i, j \in DOMAIN seq : i < j => <<seq[i], seq[j]>> \in R
  BY <1>2, <1>3, ListedByRank
<1>5. \A i \in DOMAIN seq : seq[i] \in S
  BY <1>4 DEF ToSet
<1> QED BY <1>1, <1>4, <1>5

LEMMA IpRecordOrder ==
  ASSUME NEW S,
         \A r \in S : r.external_ip \in Nat /\ r.timestamp \in Nat,
         \A r, s \in S : (/\ r.external_ip = s.external_ip
                          /\ r.timestamp = s.timestamp) => r = s,
         NEW R, \A x, y \in S : <<x, y>> \in R <=> IpRecordLess(x, y)
  PROVE  Orders(R, S)
<1>2. \A x \in S : ~ IpRecordLess(x, x)
  BY DEF IpRecordLess
<1>3. \A x, y \in S : x # y => IpRecordLess(x, y) \/ IpRecordLess(y, x)
  BY DEF IpRecordLess
<1>4. \A x, y, z \in S : IpRecordLess(x, y) /\ IpRecordLess(y, z) => IpRecordLess(x, z)
  BY DEF IpRecordLess
<1> QED BY <1>2, <1>3, <1>4 DEF Orders

LEMMA IpRecordsInOrder ==
  ASSUME NEW S, IsFiniteSet(S),
         \A r \in S : r.external_ip \in Nat /\ r.timestamp \in Nat,
         \A r, s \in S : (/\ r.external_ip = s.external_ip
                          /\ r.timestamp = s.timestamp) => r = s,
         NEW seq, seq = InOrder(S, IpRecordLess)
  PROVE  /\ Cardinality(S) \in Nat
         /\ Len(seq) = Cardinality(S)
         /\ DOMAIN seq = 1 .. Cardinality(S)
         /\ ToSet(seq) = S
         /\ \A i, j \in DOMAIN seq : i < j => IpRecordLess(seq[i], seq[j])
<1> DEFINE R == {p \in S \X S : IpRecordLess(p[1], p[2])}
<1>1. \A x, y \in S : <<x, y>> \in R <=> IpRecordLess(x, y)
  <2> SUFFICES ASSUME NEW x \in S, NEW y \in S PROVE <<x, y>> \in R <=> IpRecordLess(x, y)
    OBVIOUS
  <2>1. PICK p : p = <<x, y>>
    OBVIOUS
  <2>2. p \in S \X S /\ p[1] = x /\ p[2] = y
    BY <2>1
  <2>3. p \in R <=> IpRecordLess(p[1], p[2])
    BY <2>2
  <2> QED BY <2>1, <2>2, <2>3
<1> HIDE DEF R
<1>2. Orders(R, S)
  BY <1>1, IpRecordOrder
<1>3. ByRank(seq, R, S)
  <2>1. seq = [i \in 1 .. Cardinality(S) |-> seq[i]]
    <3>1. seq = [i \in 1 .. Cardinality(S) |->
                   CHOOSE x \in S : Cardinality({y \in S : IpRecordLess(y, x)}) = i - 1]
      BY Zenon DEF InOrder
    <3> QED BY <3>1
  <2>2. ASSUME NEW i \in 1 .. Cardinality(S)
        PROVE  seq[i] \in S /\ Cardinality(Below(R, S, seq[i])) = i - 1
    <3>1. \A x \in S : Below(R, S, x) = {y \in S : IpRecordLess(y, x)}
      BY <1>1 DEF Below
    <3>2. i - 1 \in 0 .. Cardinality(S) - 1
      BY FS_CardinalityType
    <3>3. \E x \in S : Cardinality(Below(R, S, x)) = i - 1
      BY <1>2, <3>2, RanksFill
    <3>4. \E x \in S : Cardinality({y \in S : IpRecordLess(y, x)}) = i - 1
      BY <3>1, <3>3
    <3>5. seq[i] = CHOOSE x \in S : Cardinality({y \in S : IpRecordLess(y, x)}) = i - 1
      BY Zenon DEF InOrder
    <3>6. seq[i] \in S /\ Cardinality({y \in S : IpRecordLess(y, seq[i])}) = i - 1
      BY <3>4, <3>5
    <3> QED BY <3>1, <3>6
  <2> QED BY <2>1, <2>2 DEF ByRank
<1>4. /\ Cardinality(S) \in Nat
      /\ Len(seq) = Cardinality(S)
      /\ DOMAIN seq = 1 .. Cardinality(S)
      /\ ToSet(seq) = S
      /\ \A i, j \in DOMAIN seq : i < j => <<seq[i], seq[j]>> \in R
  BY <1>2, <1>3, ListedByRank
<1>5. \A i \in DOMAIN seq : seq[i] \in S
  BY <1>4 DEF ToSet
<1> QED BY <1>1, <1>4, <1>5

-----------------------------------------------------------------------------
(* The flow of a packet and the key of a flow are of the right types       *)
(* (flow.rs:101-119).                                                      *)
LEMMA FlowOfType ==
  ASSUME NEW local, NEW p \in PacketEvent
  PROVE  FlowOf(local, p) \in FlowKey
BY DEF FlowOf, FlowKey, PacketEvent

(* The bucket of a flow is a bucket key and keeps the endpoint of the flow *)
(* (key, flow.rs:39-49).                                                   *)
LEMMA KeyOfType ==
  ASSUME NEW f \in FlowKey
  PROVE  /\ KeyOf(f) \in AggregateKey
         /\ KeyOf(f).external_ip = f.external_ip
BY DEF KeyOf, FlowKey, AggregateKey

(* Crediting a flow: the shape of the aggregator it leaves.                *)
LEMMA CreditShape ==
  ASSUME agg = [local |-> agg.local, flows |-> agg.flows, buckets |-> agg.buckets],
         NEW flow, NEW length,
         NEW after, after = Credit(agg, flow, length)
  PROVE  /\ after = [local |-> after.local, flows |-> after.flows,
                     buckets |-> after.buckets]
         /\ after.local = agg.local
         /\ after.flows = agg.flows \cup {flow}
         /\ DOMAIN after.buckets = DOMAIN agg.buckets \cup {KeyOf(flow)}
         /\ after.buckets[KeyOf(flow)] =
              [count |-> after.buckets[KeyOf(flow)].count,
               bytes |-> after.buckets[KeyOf(flow)].bytes]
         /\ after.buckets[KeyOf(flow)].count =
              BucketAt(agg.buckets, KeyOf(flow)).count
                + (IF flow \in agg.flows THEN 0 ELSE 1)
         /\ after.buckets[KeyOf(flow)].bytes =
              BucketAt(agg.buckets, KeyOf(flow)).bytes + length
         /\ \A k \in DOMAIN agg.buckets :
              k # KeyOf(flow) => after.buckets[k] = agg.buckets[k]
         /\ after.buckets = [k \in DOMAIN after.buckets |-> after.buckets[k]]
<1> DEFINE key == KeyOf(flow)
           old == BucketAt(agg.buckets, key)
           new == [count |-> old.count + (IF flow \in agg.flows THEN 0 ELSE 1),
                   bytes |-> old.bytes + length]
           bs == [k \in DOMAIN agg.buckets \cup {key} |->
                    IF k = key THEN new ELSE agg.buckets[k]]
<1>1. after = [agg EXCEPT !.flows = agg.flows \cup {flow}, !.buckets = bs]
  BY DEF Credit
<1>2. after = [local |-> agg.local, flows |-> agg.flows \cup {flow}, buckets |-> bs]
  <2> HIDE DEF bs
  <2> QED BY <1>1
<1>3. /\ after.buckets = bs
      /\ after.local = agg.local
      /\ after.flows = agg.flows \cup {flow}
  <2> HIDE DEF bs
  <2> QED BY <1>2
<1>4. /\ DOMAIN bs = DOMAIN agg.buckets \cup {key}
      /\ bs[key] = new
      /\ \A k \in DOMAIN agg.buckets : k # key => bs[k] = agg.buckets[k]
      /\ bs = [k \in DOMAIN bs |-> bs[k]]
  <2> HIDE DEF new, key
  <2> QED OBVIOUS
<1>5. /\ new = [count |-> new.count, bytes |-> new.bytes]
      /\ new.count = old.count + (IF flow \in agg.flows THEN 0 ELSE 1)
      /\ new.bytes = old.bytes + length
  <2> HIDE DEF old
  <2> QED OBVIOUS
<1> QED
  <2> HIDE DEF bs, new
  <2> QED BY <1>2, <1>3, <1>4, <1>5

(* What a step that counts a packet of `flow` does to the aggregator.      *)
Counted(flow, length) ==
  /\ KeyOf(flow) \in AggregateKey
  /\ flow.external_ip \notin Excluded
  /\ KeyOf(flow).external_ip \notin Excluded
  /\ HasRoom(agg, flow)
  /\ length \in Nat
  /\ agg' = [local |-> agg'.local, flows |-> agg'.flows, buckets |-> agg'.buckets]
  /\ agg'.local = agg.local
  /\ agg'.flows = agg.flows \cup {flow}
  /\ DOMAIN agg'.buckets = DOMAIN agg.buckets \cup {KeyOf(flow)}
  /\ agg'.buckets[KeyOf(flow)] = [count |-> agg'.buckets[KeyOf(flow)].count,
                                  bytes |-> agg'.buckets[KeyOf(flow)].bytes]
  /\ agg'.buckets[KeyOf(flow)].count =
       BucketAt(agg.buckets, KeyOf(flow)).count
         + (IF flow \in agg.flows THEN 0 ELSE 1)
  /\ agg'.buckets[KeyOf(flow)].bytes =
       BucketAt(agg.buckets, KeyOf(flow)).bytes + length
  /\ \A k \in DOMAIN agg.buckets :
       k # KeyOf(flow) => agg'.buckets[k] = agg.buckets[k]
  /\ agg'.buckets = [k \in DOMAIN agg'.buckets |-> agg'.buckets[k]]

(* The step that counts a packet, in terms of its flow (flow.rs:113-135).  *)
LEMMA CountedStep ==
  ASSUME TypeOK, NEW p \in Packets, ObservePacket(p),
         Accounted(agg, p) = "counted"
  PROVE  /\ FlowOf(agg.local, p) \in FlowKey
         /\ Counted(FlowOf(agg.local, p), p.ip_length)
<1>1. p \in PacketEvent /\ p.ip_length \in Nat
  BY FlowAssumption, AggregatorAssumption DEF PacketEvent
<1>2. PICK flow : flow = FlowOf(agg.local, p)
  OBVIOUS
<1>3. /\ flow \in FlowKey
      /\ KeyOf(flow) \in AggregateKey
      /\ KeyOf(flow).external_ip = flow.external_ip
  BY <1>1, <1>2, FlowOfType, KeyOfType
<1>4. flow.external_ip \notin Excluded /\ HasRoom(agg, flow)
  BY <1>2 DEF Accounted, Relevant
<1>5. agg' = Credit(agg, flow, p.ip_length)
  BY <1>2 DEF ObservePacket, Observe
<1>6. Counted(flow, p.ip_length)
  BY <1>1, <1>3, <1>4, <1>5, CreditShape DEF TypeOK, Counted
<1> QED BY <1>2, <1>3, <1>6

-----------------------------------------------------------------------------
(* Types hold in every reachable state (the fields of Aggregator,          *)
(* flow.rs:74-80, under new, replace_local, observe and flush).            *)
THEOREM TypeCorrect == Spec => []TypeOK
<1> USE FlowAssumption, AggregatorAssumption
<1>1. Init => TypeOK
  BY DEF Init, NewAggregator, TypeOK, NoBuckets, Bucket
<1>2. TypeOK /\ [Next]_vars => TypeOK'
  <2> SUFFICES ASSUME TypeOK, [Next]_vars PROVE TypeOK'
    OBVIOUS
  <2>1. ASSUME NEW p \in Packets, ObservePacket(p) PROVE TypeOK'
    <3>1. CASE Accounted(agg, p) # "counted"
      BY <2>1, <3>1 DEF ObservePacket, Observe, TypeOK
    <3>2. CASE Accounted(agg, p) = "counted"
      <4>1. PICK flow \in FlowKey : Counted(flow, p.ip_length)
        BY <2>1, <3>2, CountedStep
      <4>2. agg'.buckets[KeyOf(flow)] \in Bucket
        <5>1. /\ BucketAt(agg.buckets, KeyOf(flow)).count \in Nat
              /\ BucketAt(agg.buckets, KeyOf(flow)).bytes \in Nat
          BY DEF BucketAt, TypeOK, Bucket
        <5>2. /\ agg'.buckets[KeyOf(flow)].count \in Nat
              /\ agg'.buckets[KeyOf(flow)].bytes \in Nat
          BY <4>1, <5>1 DEF Counted
        <5>3. agg'.buckets[KeyOf(flow)] =
                [count |-> agg'.buckets[KeyOf(flow)].count,
                 bytes |-> agg'.buckets[KeyOf(flow)].bytes]
          BY <4>1 DEF Counted
        <5> QED BY <5>2, <5>3 DEF Bucket
      <4>3. \A k \in DOMAIN agg.buckets :
              k # KeyOf(flow) => agg'.buckets[k] \in Bucket
        BY <4>1 DEF Counted, TypeOK
      <4>4. agg'.buckets \in [DOMAIN agg'.buckets -> Bucket]
        BY <4>1, <4>2, <4>3 DEF Counted
      <4> QED BY <4>1, <4>4 DEF TypeOK, Counted
    <3> QED BY <3>1, <3>2
  <2>2. ASSUME NEW local \in LocalSets, NewAddresses(local) PROVE TypeOK'
    BY <2>2 DEF NewAddresses, ReplaceLocal, TypeOK
  <2>3. ASSUME NEW end \in Ends, Flush(end) PROVE TypeOK'
    BY <2>3 DEF Flush, Flushed, TypeOK, NoBuckets, Bucket
  <2>4. CASE UNCHANGED vars
    BY <2>4 DEF vars, TypeOK
  <2> QED BY <2>1, <2>2, <2>3, <2>4 DEF Next
<1> QED BY <1>1, <1>2, PTL DEF Spec

-----------------------------------------------------------------------------
(* One more flow in a finite set of flows: the flows of its key grow by    *)
(* one if it is new, those of every other key stay.                        *)
LEMMA FlowsOfKeyGrow ==
  ASSUME NEW flows, IsFiniteSet(flows), NEW flow, NEW k
  PROVE  /\ Cardinality(FlowsOfKey(flows, k)) \in Nat
         /\ KeyOf(flow) # k =>
              FlowsOfKey(flows \cup {flow}, k) = FlowsOfKey(flows, k)
         /\ KeyOf(flow) = k =>
              Cardinality(FlowsOfKey(flows \cup {flow}, k)) =
                Cardinality(FlowsOfKey(flows, k))
                  + (IF flow \in flows THEN 0 ELSE 1)
<1>1. IsFiniteSet(FlowsOfKey(flows, k)) /\ Cardinality(FlowsOfKey(flows, k)) \in Nat
  BY FS_Subset, FS_CardinalityType DEF FlowsOfKey
<1>2. KeyOf(flow) # k => FlowsOfKey(flows \cup {flow}, k) = FlowsOfKey(flows, k)
  BY DEF FlowsOfKey
<1>3. ASSUME KeyOf(flow) = k
      PROVE  Cardinality(FlowsOfKey(flows \cup {flow}, k)) =
               Cardinality(FlowsOfKey(flows, k)) + (IF flow \in flows THEN 0 ELSE 1)
  <2>1. FlowsOfKey(flows \cup {flow}, k) = FlowsOfKey(flows, k) \cup {flow}
    BY <1>3 DEF FlowsOfKey
  <2>2. flow \in FlowsOfKey(flows, k) <=> flow \in flows
    BY <1>3 DEF FlowsOfKey
  <2>3. Cardinality(FlowsOfKey(flows, k) \cup {flow}) =
          IF flow \in FlowsOfKey(flows, k) THEN Cardinality(FlowsOfKey(flows, k))
          ELSE Cardinality(FlowsOfKey(flows, k)) + 1
    BY <1>1, FS_AddElement
  <2> QED BY <1>1, <2>1, <2>2, <2>3
<1> QED BY <1>1, <1>2, <1>3

(* The count of a bucket is the number of the flows of its endpoint, and   *)
(* the limit on flows holds, in every reachable state (the increment in    *)
(* observe, flow.rs:120-134, and both clears of flush, flow.rs:138-139).   *)
THEOREM CountsCorrect == Spec => []FlowCountsAreDistinctFlows
<1> USE FlowAssumption, AggregatorAssumption
<1> DEFINE FC == FlowCountsAreDistinctFlows
<1>1. Init => FC
  BY FS_EmptySet DEF Init, NewAggregator, NoBuckets, FlowCountsAreDistinctFlows
<1>2. TypeOK /\ FC /\ [Next]_vars => FC'
  <2> SUFFICES ASSUME TypeOK, FC, [Next]_vars PROVE FC'
    OBVIOUS
  <2>1. ASSUME NEW p \in Packets, ObservePacket(p) PROVE FC'
    <3>1. CASE Accounted(agg, p) # "counted"
      BY <2>1, <3>1 DEF ObservePacket, Observe, FlowCountsAreDistinctFlows
    <3>2. CASE Accounted(agg, p) = "counted"
      <4>1. PICK flow \in FlowKey : Counted(flow, p.ip_length)
        BY <2>1, <3>2, CountedStep
      <4> DEFINE key == KeyOf(flow)
                 one == IF flow \in agg.flows THEN 0 ELSE 1
      <4>2. /\ agg'.flows = agg.flows \cup {flow}
            /\ DOMAIN agg'.buckets = DOMAIN agg.buckets \cup {key}
            /\ agg'.buckets[key].count = BucketAt(agg.buckets, key).count + one
            /\ \A k \in DOMAIN agg.buckets :
                 k # key => agg'.buckets[k] = agg.buckets[k]
        BY <4>1 DEF Counted
      <4>3. flow \in agg.flows \/ Cardinality(agg.flows) < MaxFlows
        BY <4>1 DEF Counted, HasRoom
      <4>4. IsFiniteSet(agg'.flows) /\ Cardinality(agg'.flows) <= MaxFlows
        <5>1. /\ IsFiniteSet(agg.flows) /\ Cardinality(agg.flows) <= MaxFlows
              /\ Cardinality(agg.flows) \in Nat
          BY FS_CardinalityType DEF FlowCountsAreDistinctFlows
        <5>2. /\ IsFiniteSet(agg.flows \cup {flow})
              /\ Cardinality(agg.flows \cup {flow}) =
                   IF flow \in agg.flows THEN Cardinality(agg.flows)
                   ELSE Cardinality(agg.flows) + 1
          BY <5>1, FS_AddElement
        <5> QED BY <4>2, <4>3, <5>1, <5>2
      <4>5. DOMAIN agg'.buckets = {KeyOf(f) : f \in agg'.flows}
        BY <4>2 DEF FlowCountsAreDistinctFlows
      <4>6. BucketAt(agg.buckets, key).count = Cardinality(FlowsOfKey(agg.flows, key))
        <5>1. CASE key \in DOMAIN agg.buckets
          BY <5>1 DEF BucketAt, FlowCountsAreDistinctFlows
        <5>2. CASE key \notin DOMAIN agg.buckets
          <6>1. FlowsOfKey(agg.flows, key) = {}
            BY <5>2 DEF FlowCountsAreDistinctFlows, FlowsOfKey
          <6> QED BY <5>2, <6>1, FS_EmptySet DEF BucketAt
        <5> QED BY <5>1, <5>2
      <4>7. agg'.buckets[key].count = Cardinality(FlowsOfKey(agg'.flows, key))
        BY <4>2, <4>6, FlowsOfKeyGrow DEF FlowCountsAreDistinctFlows
      <4>8. ASSUME NEW k \in DOMAIN agg.buckets, k # key
            PROVE  agg'.buckets[k].count = Cardinality(FlowsOfKey(agg'.flows, k))
        <5>1. FlowsOfKey(agg'.flows, k) = FlowsOfKey(agg.flows, k)
          BY <4>2, <4>8 DEF FlowsOfKey
        <5> QED BY <4>2, <4>8, <5>1 DEF FlowCountsAreDistinctFlows
      <4> QED BY <4>2, <4>4, <4>5, <4>7, <4>8 DEF FlowCountsAreDistinctFlows
    <3> QED BY <3>1, <3>2
  <2>2. ASSUME NEW local \in LocalSets, NewAddresses(local) PROVE FC'
    <3>1. agg'.flows = agg.flows /\ agg'.buckets = agg.buckets
      BY <2>2 DEF NewAddresses, ReplaceLocal, TypeOK
    <3> QED BY <3>1 DEF FlowCountsAreDistinctFlows
  <2>3. ASSUME NEW end \in Ends, Flush(end) PROVE FC'
    <3>1. agg'.flows = {} /\ agg'.buckets = NoBuckets
      BY <2>3 DEF Flush, Flushed, TypeOK
    <3> QED BY <3>1, FS_EmptySet DEF NoBuckets, FlowCountsAreDistinctFlows
  <2>4. CASE UNCHANGED vars
    BY <2>4 DEF vars, FlowCountsAreDistinctFlows
  <2> QED BY <2>1, <2>2, <2>3, <2>4 DEF Next
<1> QED BY <1>1, <1>2, TypeCorrect, PTL DEF Spec

-----------------------------------------------------------------------------
(* The history of a window as a function of the sequence of its packets,   *)
(* so that the history before a packet and after it can be compared.       *)
Judged == [local: SUBSET Addr, packet: PacketEvent,
           verdict: {"ignored", "counted", "capacity_exceeded"}]

FlowIn(s, i) == FlowOf(s[i].local, s[i].packet)

TrafficIn(s) == {i \in DOMAIN s : Relevant(s[i].local, s[i].packet)}

EarlierFlows(s, j) == {FlowIn(s, k) : k \in {h \in TrafficIn(s) : h < j}}

FirstOf(s, i) == CHOOSE j \in TrafficIn(s) :
                   /\ FlowIn(s, j) = FlowIn(s, i)
                   /\ \A h \in TrafficIn(s) : FlowIn(s, h) = FlowIn(s, i) => j <= h

AdmittedIn(s) ==
  {i \in TrafficIn(s) : Cardinality(EarlierFlows(s, FirstOf(s, i))) < MaxFlows}

AdmittedOf(s, k) == {i \in AdmittedIn(s) : KeyOf(FlowIn(s, i)) = k}

Lengths(s) == [i \in DOMAIN s |-> s[i].packet.ip_length]

LEMMA HistoryNames ==
  /\ Traffic = TrafficIn(seen)
  /\ Admitted = AdmittedIn(seen)
  /\ \A i : FlowAt(i) = FlowIn(seen, i)
BY DEF Traffic, RelevantAt, TrafficIn, Admitted, AdmittedIn, FlowsBefore, FirstOf,
       EarlierFlows, FlowAt, FlowIn

LEMMA HistoryNamesNext ==
  /\ Traffic' = TrafficIn(seen')
  /\ Admitted' = AdmittedIn(seen')
  /\ \A i : FlowAt(i)' = FlowIn(seen', i)
BY DEF Traffic, RelevantAt, TrafficIn, Admitted, AdmittedIn, FlowsBefore, FirstOf,
       EarlierFlows, FlowAt, FlowIn

LEMMA LeastNumber ==
  ASSUME NEW T \in SUBSET Nat, T # {}
  PROVE  \E x \in T : \A y \in T : x <= y
<1>1. \E x \in T : \A y \in T : ~ (<<y, x>> \in OpToRel(<, Nat))
  BY WFMin, NatLessThanWellFounded
<1>2. PICK x \in T : \A y \in T : ~ (y < x)
  BY <1>1 DEF OpToRel
<1> QED BY <1>2

LEMMA ImageIsFinite ==
  ASSUME NEW K, IsFiniteSet(K), NEW f
  PROVE  /\ IsFiniteSet({f[k] : k \in K})
         /\ Cardinality({f[k] : k \in K}) <= Cardinality(K)
<1> DEFINE g == [k \in K |-> f[k]]  T == {f[k] : k \in K}
<1>1. g \in Surjection(K, T)
  BY DEF Surjection
<1> HIDE DEF g, T
<1>2. IsFiniteSet(T) /\ Cardinality(T) <= Cardinality(K)
  BY <1>1, FS_Surjection
<1> QED BY <1>2 DEF T

LEMMA FirstIs ==
  ASSUME NEW s \in Seq(Judged), NEW i \in TrafficIn(s)
  PROVE  /\ FirstOf(s, i) \in TrafficIn(s)
         /\ FlowIn(s, FirstOf(s, i)) = FlowIn(s, i)
         /\ \A h \in TrafficIn(s) : FlowIn(s, h) = FlowIn(s, i) => FirstOf(s, i) <= h
<1> DEFINE T == {h \in TrafficIn(s) : FlowIn(s, h) = FlowIn(s, i)}
<1>1. T \in SUBSET Nat /\ T # {}
  BY DEF TrafficIn
<1>2. PICK j \in T : \A h \in T : j <= h
  BY <1>1, LeastNumber
<1>3. j \in TrafficIn(s) /\ FlowIn(s, j) = FlowIn(s, i)
      /\ \A h \in TrafficIn(s) : FlowIn(s, h) = FlowIn(s, i) => j <= h
  BY <1>2
<1> HIDE DEF T
<1> QED BY <1>3 DEF FirstOf

\* The first packet of a flow is told by what it satisfies.
LEMMA FirstIsOnly ==
  ASSUME NEW s \in Seq(Judged), NEW i \in TrafficIn(s), NEW j \in TrafficIn(s),
         FlowIn(s, j) = FlowIn(s, i),
         \A h \in TrafficIn(s) : FlowIn(s, h) = FlowIn(s, i) => j <= h
  PROVE  FirstOf(s, i) = j
<1>1. FirstOf(s, i) \in Nat /\ j \in Nat
  BY FirstIs DEF TrafficIn
<1>2. FirstOf(s, i) <= j /\ j <= FirstOf(s, i)
  BY FirstIs
<1> QED BY <1>1, <1>2

LEMMA FlowsAreFinite ==
  ASSUME NEW s \in Seq(Judged), NEW K \in SUBSET DOMAIN s
  PROVE  IsFiniteSet(K) /\ IsFiniteSet({FlowIn(s, k) : k \in K})
<1>1. IsFiniteSet(DOMAIN s)
  BY FS_Interval
<1>2. IsFiniteSet(K)
  BY <1>1, FS_Subset
<1> DEFINE f == [k \in DOMAIN s |-> FlowIn(s, k)]
<1>3. {FlowIn(s, k) : k \in K} = {f[k] : k \in K}
  OBVIOUS
<1> HIDE DEF f
<1>4. IsFiniteSet({f[k] : k \in K})
  BY <1>2, ImageIsFinite
<1> QED BY <1>2, <1>3, <1>4

(* One more packet: what was said of the earlier ones stays.               *)
Appends(s, e, t, n) == t = Append(s, e) /\ n = Len(s) + 1

LEMMA Appended ==
  ASSUME NEW s \in Seq(Judged), NEW e \in Judged,
         NEW t, NEW n, Appends(s, e, t, n)
  PROVE  /\ t \in Seq(Judged) /\ n \in Nat
         /\ DOMAIN s = 1 .. (n - 1) /\ DOMAIN t = 1 .. n
         /\ \A i \in DOMAIN s : t[i] = s[i] /\ FlowIn(t, i) = FlowIn(s, i) /\ i < n
         /\ t[n] = e /\ FlowIn(t, n) = FlowOf(e.local, e.packet)
         /\ TrafficIn(s) \in SUBSET DOMAIN s
         /\ Relevant(e.local, e.packet) => TrafficIn(t) = TrafficIn(s) \cup {n}
         /\ ~Relevant(e.local, e.packet) => TrafficIn(t) = TrafficIn(s)
<1>1. /\ t \in Seq(Judged) /\ n \in Nat
      /\ DOMAIN s = 1 .. (n - 1) /\ DOMAIN t = 1 .. n
      /\ \A i \in DOMAIN s : t[i] = s[i] /\ i < n
      /\ t[n] = e
  BY DEF Appends
<1>2. /\ \A i \in DOMAIN s : FlowIn(t, i) = FlowIn(s, i)
      /\ FlowIn(t, n) = FlowOf(e.local, e.packet)
  BY <1>1 DEF FlowIn
<1>3. DOMAIN t = DOMAIN s \cup {n} /\ n \notin DOMAIN s
  <2>1. n \in Nat /\ n >= 1
    BY DEF Appends
  <2> QED BY <1>1, <2>1
<1>4. /\ Relevant(e.local, e.packet) => TrafficIn(t) = TrafficIn(s) \cup {n}
      /\ ~Relevant(e.local, e.packet) => TrafficIn(t) = TrafficIn(s)
  BY <1>1, <1>3 DEF TrafficIn
<1>5. TrafficIn(s) \in SUBSET DOMAIN s
  BY DEF TrafficIn
<1> QED BY <1>1, <1>2, <1>4, <1>5

LEMMA AdmissionsStay ==
  ASSUME NEW s \in Seq(Judged), NEW e \in Judged,
         NEW t, NEW n, Appends(s, e, t, n)
  PROVE  /\ \A j \in DOMAIN s : EarlierFlows(t, j) = EarlierFlows(s, j)
         /\ \A i \in TrafficIn(s) : FirstOf(t, i) = FirstOf(s, i)
         /\ AdmittedIn(t) \cap DOMAIN s = AdmittedIn(s)
<1>1. /\ t \in Seq(Judged) /\ n \in Nat
      /\ DOMAIN s = 1 .. (n - 1)
      /\ \A i \in DOMAIN s : FlowIn(t, i) = FlowIn(s, i)
      /\ TrafficIn(s) \in SUBSET DOMAIN s
      /\ TrafficIn(t) = TrafficIn(s) \cup {n} \/ TrafficIn(t) = TrafficIn(s)
  BY Appended
<1>2. ASSUME NEW j \in DOMAIN s PROVE EarlierFlows(t, j) = EarlierFlows(s, j)
  <2>1. {h \in TrafficIn(t) : h < j} = {h \in TrafficIn(s) : h < j}
    BY <1>1
  <2>2. \A h \in {h \in TrafficIn(s) : h < j} : FlowIn(t, h) = FlowIn(s, h)
    BY <1>1
  <2> QED BY <2>1, <2>2 DEF EarlierFlows
<1>3. ASSUME NEW i \in TrafficIn(s) PROVE FirstOf(t, i) = FirstOf(s, i)
  <2>1. PICK j : j = FirstOf(s, i)
    OBVIOUS
  <2>2. j \in TrafficIn(s) /\ FlowIn(s, j) = FlowIn(s, i)
        /\ \A h \in TrafficIn(s) : FlowIn(s, h) = FlowIn(s, i) => j <= h
    BY <2>1, FirstIs
  <2>3. i \in TrafficIn(t) /\ j \in TrafficIn(t) /\ FlowIn(t, j) = FlowIn(t, i)
    BY <1>1, <2>2
  <2>4. ASSUME NEW h \in TrafficIn(t), FlowIn(t, h) = FlowIn(t, i) PROVE j <= h
    <3>1. CASE h \in TrafficIn(s)
      BY <1>1, <2>2, <2>4, <3>1
    <3>2. CASE h = n
      BY <1>1, <2>2, <3>2
    <3> QED BY <1>1, <3>1, <3>2
  <2> QED BY <1>1, <2>1, <2>3, <2>4, FirstIsOnly
<1>4. ASSUME NEW i \in DOMAIN s PROVE i \in AdmittedIn(t) <=> i \in AdmittedIn(s)
  <2>1. i \in TrafficIn(t) <=> i \in TrafficIn(s)
    BY <1>1
  <2>2. ASSUME i \in TrafficIn(s)
        PROVE  EarlierFlows(t, FirstOf(t, i)) = EarlierFlows(s, FirstOf(s, i))
    BY <1>1, <1>2, <1>3, <2>2, FirstIs
  <2> QED BY <2>1, <2>2 DEF AdmittedIn
<1>5. AdmittedIn(s) \in SUBSET DOMAIN s
  BY <1>1 DEF AdmittedIn
<1> QED BY <1>2, <1>3, <1>4, <1>5

(* A packet of this host is admitted exactly when the aggregator has room  *)
(* for its flow.                                                           *)
Complete(s, flows) ==
  /\ flows = {FlowIn(s, i) : i \in AdmittedIn(s)}
  /\ IsFiniteSet(flows)
  /\ Cardinality(flows) <= MaxFlows
  /\ Cardinality(flows) < MaxFlows => AdmittedIn(s) = TrafficIn(s)

LEMMA AdmittedByFlow ==
  ASSUME NEW s \in Seq(Judged), NEW i \in TrafficIn(s), NEW h \in TrafficIn(s),
         FlowIn(s, i) = FlowIn(s, h)
  PROVE  i \in AdmittedIn(s) <=> h \in AdmittedIn(s)
<1>1. FirstOf(s, i) = FirstOf(s, h)
  BY FirstIs, FirstIsOnly
<1> QED BY <1>1 DEF AdmittedIn

LEMMA Admission ==
  ASSUME NEW s \in Seq(Judged), NEW e \in Judged,
         NEW t, NEW n, Appends(s, e, t, n),
         NEW flows, Complete(s, flows), Relevant(e.local, e.packet),
         NEW flow, flow = FlowOf(e.local, e.packet)
  PROVE  n \in AdmittedIn(t) <=> (flow \in flows \/ Cardinality(flows) < MaxFlows)
<1> USE FlowAssumption
<1>1. /\ t \in Seq(Judged) /\ n \in Nat
      /\ DOMAIN s = 1 .. (n - 1)
      /\ \A i \in DOMAIN s : FlowIn(t, i) = FlowIn(s, i) /\ i < n
      /\ FlowIn(t, n) = flow
      /\ TrafficIn(s) \in SUBSET DOMAIN s
      /\ TrafficIn(t) = TrafficIn(s) \cup {n}
  BY Appended
<1>2. /\ AdmittedIn(t) \cap DOMAIN s = AdmittedIn(s)
      /\ AdmittedIn(s) \in SUBSET TrafficIn(s)
  BY AdmissionsStay DEF AdmittedIn
<1>3. Cardinality(flows) \in Nat
  BY FS_CardinalityType DEF Complete
<1>4. CASE \E h \in TrafficIn(s) : FlowIn(s, h) = flow
  <2>1. PICK h \in TrafficIn(s) : FlowIn(s, h) = flow
    BY <1>4
  <2>2. h \in DOMAIN s /\ h \in TrafficIn(t) /\ n \in TrafficIn(t) /\ FlowIn(t, h) = FlowIn(t, n)
    BY <1>1, <2>1
  <2>3. n \in AdmittedIn(t) <=> h \in AdmittedIn(t)
    BY <1>1, <2>2, AdmittedByFlow
  <2>4. h \in AdmittedIn(t) <=> h \in AdmittedIn(s)
    BY <1>2, <2>2
  <2>5. h \in AdmittedIn(s) => flow \in flows
    BY <2>1 DEF Complete
  <2>6. flow \in flows => h \in AdmittedIn(s)
    <3> SUFFICES ASSUME flow \in flows PROVE h \in AdmittedIn(s)
      OBVIOUS
    <3>1. PICK i \in AdmittedIn(s) : FlowIn(s, i) = flow
      BY DEF Complete
    <3> QED BY <1>2, <2>1, <3>1, AdmittedByFlow
  <2>7. Cardinality(flows) < MaxFlows => h \in AdmittedIn(s)
    BY <2>1 DEF Complete
  <2> QED BY <2>3, <2>4, <2>5, <2>6, <2>7
<1>5. CASE ~ \E h \in TrafficIn(s) : FlowIn(s, h) = flow
  <2> DEFINE all == {FlowIn(s, k) : k \in TrafficIn(s)}
  <2>1. FirstOf(t, n) = n
    <3>1. \A h \in TrafficIn(t) : FlowIn(t, h) = FlowIn(t, n) => n <= h
      BY <1>1, <1>5
    <3> QED BY <1>1, <3>1, FirstIsOnly
  <2>2. EarlierFlows(t, n) = all
    <3>1. {h \in TrafficIn(t) : h < n} = TrafficIn(s)
      BY <1>1
    <3>2. \A h \in TrafficIn(s) : FlowIn(t, h) = FlowIn(s, h)
      BY <1>1
    <3> QED BY <3>1, <3>2 DEF EarlierFlows
  <2>3. n \in AdmittedIn(t) <=> Cardinality(all) < MaxFlows
    BY <1>1, <2>1, <2>2 DEF AdmittedIn
  <2>4. IsFiniteSet(all) /\ flows \in SUBSET all
    BY <1>1, <1>2, FlowsAreFinite DEF Complete
  <2>5. Cardinality(flows) <= Cardinality(all) /\ Cardinality(all) \in Nat
    BY <2>4, FS_Subset, FS_CardinalityType
  <2>6. flow \notin flows
    BY <1>2, <1>5 DEF Complete
  <2>7. Cardinality(flows) < MaxFlows => flows = all
    BY DEF Complete
  <2> HIDE DEF all
  <2> QED BY <1>3, <2>3, <2>5, <2>6, <2>7
<1> QED BY <1>4, <1>5

(* What a packet adds to the admitted ones, to their flows and to the      *)
(* bytes of an endpoint.                                                   *)
Counts(flows, e) ==
  /\ Relevant(e.local, e.packet)
  /\ FlowOf(e.local, e.packet) \in flows \/ Cardinality(flows) < MaxFlows

Bytes(s, k) == SumOver(Lengths(s), AdmittedOf(s, k))

LEMMA AdmittedGrow ==
  ASSUME NEW s \in Seq(Judged), NEW e \in Judged,
         NEW t, NEW n, Appends(s, e, t, n),
         NEW flows, Complete(s, flows)
  PROVE  /\ Counts(flows, e) => AdmittedIn(t) = AdmittedIn(s) \cup {n}
         /\ ~Counts(flows, e) => AdmittedIn(t) = AdmittedIn(s)
<1>1. /\ TrafficIn(s) \in SUBSET DOMAIN s
      /\ DOMAIN t = 1 .. n /\ DOMAIN s = 1 .. (n - 1) /\ n \in Nat
      /\ Relevant(e.local, e.packet) => TrafficIn(t) = TrafficIn(s) \cup {n}
      /\ ~Relevant(e.local, e.packet) => TrafficIn(t) = TrafficIn(s)
  BY Appended
<1>2. /\ AdmittedIn(t) \cap DOMAIN s = AdmittedIn(s)
      /\ AdmittedIn(t) \in SUBSET TrafficIn(t) /\ AdmittedIn(s) \in SUBSET DOMAIN s
  BY <1>1, AdmissionsStay DEF AdmittedIn
<1>3. Relevant(e.local, e.packet) => (n \in AdmittedIn(t) <=> Counts(flows, e))
  BY Admission DEF Counts
<1>4. ~Relevant(e.local, e.packet) => n \notin AdmittedIn(t) /\ ~Counts(flows, e)
  BY <1>1, <1>2 DEF Counts
<1>5. AdmittedIn(t) \in SUBSET (DOMAIN s \cup {n})
  BY <1>1, <1>2
<1> QED BY <1>2, <1>3, <1>4, <1>5

LEMMA StaysComplete ==
  ASSUME NEW s \in Seq(Judged), NEW e \in Judged,
         NEW t, NEW n, Appends(s, e, t, n),
         NEW flows, Complete(s, flows)
  PROVE  /\ Counts(flows, e) => Complete(t, flows \cup {FlowOf(e.local, e.packet)})
         /\ ~Counts(flows, e) => Complete(t, flows)
<1> USE FlowAssumption
<1>1. /\ TrafficIn(s) \in SUBSET DOMAIN s
      /\ \A i \in DOMAIN s : FlowIn(t, i) = FlowIn(s, i)
      /\ FlowIn(t, n) = FlowOf(e.local, e.packet)
      /\ Relevant(e.local, e.packet) => TrafficIn(t) = TrafficIn(s) \cup {n}
      /\ ~Relevant(e.local, e.packet) => TrafficIn(t) = TrafficIn(s)
  BY Appended
<1>2. /\ Counts(flows, e) => AdmittedIn(t) = AdmittedIn(s) \cup {n}
      /\ ~Counts(flows, e) => AdmittedIn(t) = AdmittedIn(s)
      /\ AdmittedIn(s) \in SUBSET DOMAIN s
  BY <1>1, AdmittedGrow DEF AdmittedIn
<1>3. Cardinality(flows) \in Nat
  BY FS_CardinalityType DEF Complete
<1>4. ASSUME Counts(flows, e)
      PROVE  Complete(t, flows \cup {FlowOf(e.local, e.packet)})
  <2> DEFINE flow == FlowOf(e.local, e.packet)
  <2>1. flows \cup {flow} = {FlowIn(t, i) : i \in AdmittedIn(t)}
    <3>1. {FlowIn(t, i) : i \in AdmittedIn(t)} = {FlowIn(t, i) : i \in AdmittedIn(s)} \cup {flow}
      BY <1>1, <1>2, <1>4
    <3>2. {FlowIn(t, i) : i \in AdmittedIn(s)} = {FlowIn(s, i) : i \in AdmittedIn(s)}
      BY <1>1, <1>2
    <3> QED BY <3>1, <3>2 DEF Complete
  <2> HIDE DEF flow
  <2>2. /\ IsFiniteSet(flows \cup {flow})
        /\ Cardinality(flows \cup {flow}) =
             IF flow \in flows THEN Cardinality(flows) ELSE Cardinality(flows) + 1
    BY FS_AddElement DEF Complete
  <2>3. flow \in flows \/ Cardinality(flows) < MaxFlows
    BY <1>4 DEF Counts, flow
  <2>4. Cardinality(flows \cup {flow}) <= MaxFlows
    BY <1>3, <2>2, <2>3 DEF Complete
  <2>5. Cardinality(flows \cup {flow}) < MaxFlows => AdmittedIn(t) = TrafficIn(t)
    <3>1. Cardinality(flows \cup {flow}) < MaxFlows => Cardinality(flows) < MaxFlows
      BY <1>3, <2>2
    <3>2. Relevant(e.local, e.packet)
      BY <1>4 DEF Counts
    <3> QED BY <1>1, <1>2, <1>4, <3>1, <3>2 DEF Complete
  <2> QED BY <2>1, <2>2, <2>4, <2>5 DEF Complete, flow
<1>5. ASSUME ~Counts(flows, e) PROVE Complete(t, flows)
  <2>1. {FlowIn(t, i) : i \in AdmittedIn(t)} = {FlowIn(s, i) : i \in AdmittedIn(s)}
    BY <1>1, <1>2, <1>5
  <2>2. Cardinality(flows) < MaxFlows => AdmittedIn(t) = TrafficIn(t)
    BY <1>1, <1>2, <1>5 DEF Complete, Counts
  <2> QED BY <2>1, <2>2 DEF Complete
<1> QED BY <1>4, <1>5

LEMMA LengthsAreNumbers ==
  ASSUME NEW s \in Seq(Judged)
  PROVE  \A i \in DOMAIN s : Lengths(s)[i] = s[i].packet.ip_length /\ Lengths(s)[i] \in Nat
<1> SUFFICES ASSUME NEW i \in DOMAIN s
             PROVE  Lengths(s)[i] = s[i].packet.ip_length /\ Lengths(s)[i] \in Nat
  OBVIOUS
<1>1. s[i] \in Judged
  OBVIOUS
<1>2. s[i].packet \in PacketEvent
  BY <1>1 DEF Judged
<1>3. s[i].packet.ip_length \in Nat
  BY <1>2, FlowAssumption DEF PacketEvent
<1> QED BY <1>3 DEF Lengths

LEMMA BytesGrow ==
  ASSUME NEW s \in Seq(Judged), NEW e \in Judged,
         NEW t, NEW n, Appends(s, e, t, n),
         NEW flows, Complete(s, flows)
  PROVE  /\ \A k : Bytes(s, k) \in Nat
         /\ Counts(flows, e) =>
              LET key == KeyOf(FlowOf(e.local, e.packet)) IN
              /\ Bytes(t, key) = Bytes(s, key) + e.packet.ip_length
              /\ \A k : k # key => Bytes(t, k) = Bytes(s, k)
         /\ ~Counts(flows, e) => \A k : Bytes(t, k) = Bytes(s, k)
<1>1. /\ t \in Seq(Judged) /\ n \in Nat
      /\ DOMAIN s = 1 .. (n - 1) /\ DOMAIN t = 1 .. n
      /\ \A i \in DOMAIN s : t[i] = s[i] /\ FlowIn(t, i) = FlowIn(s, i) /\ i < n
      /\ t[n] = e /\ FlowIn(t, n) = FlowOf(e.local, e.packet)
      /\ TrafficIn(s) \in SUBSET DOMAIN s
  BY Appended
<1>2. /\ Counts(flows, e) => AdmittedIn(t) = AdmittedIn(s) \cup {n}
      /\ ~Counts(flows, e) => AdmittedIn(t) = AdmittedIn(s)
      /\ AdmittedIn(s) \in SUBSET DOMAIN s
  BY <1>1, AdmittedGrow DEF AdmittedIn
<1>3. n \in DOMAIN t /\ n \notin DOMAIN s /\ DOMAIN s \in SUBSET DOMAIN t
  <2>1. n \in Nat /\ n >= 1
    BY DEF Appends
  <2> QED BY <1>1, <2>1
<1>4. /\ \A i \in DOMAIN s : Lengths(t)[i] = Lengths(s)[i] /\ Lengths(t)[i] \in Nat
      /\ Lengths(t)[n] = e.packet.ip_length /\ Lengths(t)[n] \in Nat
  BY <1>1, <1>3, LengthsAreNumbers
<1>5. ASSUME NEW k PROVE /\ AdmittedOf(s, k) \in SUBSET DOMAIN s
                         /\ IsFiniteSet(AdmittedOf(s, k))
                         /\ Bytes(s, k) \in Nat
                         /\ SumOver(Lengths(t), AdmittedOf(s, k)) = Bytes(s, k)
  <2>1. AdmittedOf(s, k) \in SUBSET DOMAIN s
    BY <1>2 DEF AdmittedOf
  <2>2. IsFiniteSet(AdmittedOf(s, k))
    BY <2>1, FlowsAreFinite
  <2>3. \A i \in AdmittedOf(s, k) : Lengths(s)[i] \in Nat /\ Lengths(s)[i] = Lengths(t)[i]
    BY <1>4, <2>1, LengthsAreNumbers
  <2>4. Bytes(s, k) \in Nat
    BY <2>2, <2>3, SumTakesOut DEF Bytes
  <2>5. SumOver(Lengths(t), AdmittedOf(s, k)) = Bytes(s, k)
    BY <2>3, SameSum DEF Bytes
  <2> QED BY <2>1, <2>2, <2>4, <2>5
<1>6. ASSUME NEW k, ~Counts(flows, e) \/ k # KeyOf(FlowOf(e.local, e.packet))
      PROVE  Bytes(t, k) = Bytes(s, k)
  <2>1. AdmittedOf(t, k) = AdmittedOf(s, k)
    BY <1>1, <1>2, <1>6 DEF AdmittedOf
  <2> QED BY <1>5, <2>1 DEF Bytes
<1>7. ASSUME Counts(flows, e), NEW k, k = KeyOf(FlowOf(e.local, e.packet))
      PROVE  Bytes(t, k) = Bytes(s, k) + e.packet.ip_length
  <2>1. AdmittedOf(t, k) = AdmittedOf(s, k) \cup {n} /\ n \notin AdmittedOf(s, k)
    BY <1>1, <1>2, <1>3, <1>7 DEF AdmittedOf
  <2>2. \A i \in AdmittedOf(s, k) \cup {n} : Lengths(t)[i] \in Nat
    BY <1>4, <1>5
  <2>3. SumOver(Lengths(t), AdmittedOf(s, k) \cup {n}) =
          SumOver(Lengths(t), AdmittedOf(s, k)) + Lengths(t)[n]
    BY <1>5, <2>1, <2>2, SumOfOneMore
  <2> QED BY <1>4, <1>5, <2>1, <2>3 DEF Bytes
<1> QED BY <1>5, <1>6, <1>7

-----------------------------------------------------------------------------
(* HeldFlowsAreComplete is not inductive: that a rejected packet's flow    *)
(* stays rejected needs that nothing is rejected while there is room.      *)
HeldInv ==
  /\ seen \in Seq(Judged)
  /\ agg.flows = {FlowIn(seen, i) : i \in AdmittedIn(seen)}
  /\ Cardinality(agg.flows) < MaxFlows => AdmittedIn(seen) = TrafficIn(seen)
  /\ \A k \in DOMAIN agg.buckets : agg.buckets[k].bytes = Bytes(seen, k)
  /\ \A i \in DOMAIN seen :
       seen[i].verdict = IF i \notin TrafficIn(seen) THEN "ignored"
                         ELSE IF i \in AdmittedIn(seen) THEN "counted"
                         ELSE "capacity_exceeded"

LEMMA HeldInvHolds == Spec => []HeldInv
<1> USE FlowAssumption, AggregatorAssumption
<1>1. Init => HeldInv
  <2> SUFFICES ASSUME Init PROVE HeldInv
    OBVIOUS
  <2>1. seen = <<>> /\ agg.flows = {} /\ agg.buckets = NoBuckets
    BY DEF Init, NewAggregator
  <2>2. TrafficIn(seen) = {} /\ AdmittedIn(seen) = {}
    BY <2>1 DEF TrafficIn, AdmittedIn
  <2>3. seen \in Seq(Judged) /\ DOMAIN seen = {}
    BY <2>1
  <2> QED BY <2>1, <2>2, <2>3 DEF HeldInv, NoBuckets
<1>2. TypeOK /\ FlowCountsAreDistinctFlows /\ HeldInv /\ [Next]_vars => HeldInv'
  <2> SUFFICES ASSUME TypeOK, FlowCountsAreDistinctFlows, HeldInv, [Next]_vars
               PROVE  HeldInv'
    OBVIOUS
  <2>1. ASSUME NEW p \in Packets, ObservePacket(p) PROVE HeldInv'
    <3>1. PICK e : e = [local |-> agg.local, packet |-> p, verdict |-> Accounted(agg, p)]
      OBVIOUS
    <3>2. e.local = agg.local /\ e.packet = p /\ e.verdict = Accounted(agg, p) /\ e \in Judged
      <4>1. e.local = agg.local /\ e.packet = p /\ e.verdict = Accounted(agg, p)
        BY <3>1
      <4>2. Accounted(agg, p) \in {"ignored", "counted", "capacity_exceeded"}
        BY DEF Accounted
      <4> QED BY <3>1, <4>1, <4>2 DEF Judged, TypeOK
    <3>3. PICK s, n : s = seen /\ n = Len(seen) + 1
      OBVIOUS
    <3>4. s \in Seq(Judged) /\ Appends(s, e, seen', n)
      BY <2>1, <3>1, <3>3 DEF ObservePacket, HeldInv, Appends
    <3>5. PICK flows : flows = agg.flows
      OBVIOUS
    <3>6. Complete(s, flows)
      BY <3>3, <3>5 DEF Complete, HeldInv, FlowCountsAreDistinctFlows
    <3>7. PICK flow : flow = FlowOf(agg.local, p)
      OBVIOUS
    <3>8. PICK key : key = KeyOf(flow)
      OBVIOUS
    <3>9. /\ Counts(flows, e) <=> Accounted(agg, p) = "counted"
          /\ Accounted(agg, p) = "ignored" <=> ~Relevant(agg.local, p)
          /\ Accounted(agg, p) \in {"ignored", "counted", "capacity_exceeded"}
      BY <3>2, <3>5 DEF Counts, Accounted, HasRoom
    <3>10. /\ seen' \in Seq(Judged) /\ n \in Nat
           /\ DOMAIN s = 1 .. (n - 1) /\ DOMAIN seen' = 1 .. n
           /\ \A i \in DOMAIN s : seen'[i] = s[i] /\ i < n
           /\ seen'[n] = e
           /\ TrafficIn(s) \in SUBSET DOMAIN s
           /\ Relevant(agg.local, p) => TrafficIn(seen') = TrafficIn(s) \cup {n}
           /\ ~Relevant(agg.local, p) => TrafficIn(seen') = TrafficIn(s)
      BY <3>2, <3>4, Appended
    <3>11. /\ Counts(flows, e) => AdmittedIn(seen') = AdmittedIn(s) \cup {n}
           /\ ~Counts(flows, e) => AdmittedIn(seen') = AdmittedIn(s)
           /\ AdmittedIn(s) \in SUBSET DOMAIN s
      <4>1. AdmittedIn(s) \in SUBSET DOMAIN s
        BY <3>10 DEF AdmittedIn
      <4> QED BY <3>2, <3>4, <3>6, <4>1, AdmittedGrow
    <3>12. \A i \in DOMAIN seen' :
             seen'[i].verdict = IF i \notin TrafficIn(seen') THEN "ignored"
                                ELSE IF i \in AdmittedIn(seen') THEN "counted"
                                ELSE "capacity_exceeded"
      <4> SUFFICES ASSUME NEW i \in DOMAIN seen'
                   PROVE  seen'[i].verdict = IF i \notin TrafficIn(seen') THEN "ignored"
                                ELSE IF i \in AdmittedIn(seen') THEN "counted"
                                ELSE "capacity_exceeded"
        OBVIOUS
      <4>1. CASE i \in DOMAIN s
        <5>1. i # n
          BY <3>10, <4>1
        <5>2. /\ i \in TrafficIn(seen') <=> i \in TrafficIn(s)
              /\ i \in AdmittedIn(seen') <=> i \in AdmittedIn(s)
          BY <3>10, <3>11, <5>1
        <5>3. s[i].verdict = IF i \notin TrafficIn(s) THEN "ignored"
                             ELSE IF i \in AdmittedIn(s) THEN "counted"
                             ELSE "capacity_exceeded"
          BY <3>3, <4>1 DEF HeldInv
        <5> QED BY <3>10, <4>1, <5>2, <5>3
      <4>2. CASE i = n
        <5>1. n \notin DOMAIN s
          BY <3>10
        <5>2. /\ n \in TrafficIn(seen') <=> Relevant(agg.local, p)
              /\ n \in AdmittedIn(seen') <=> Counts(flows, e)
          BY <3>10, <3>11, <5>1
        <5>3. seen'[i].verdict = Accounted(agg, p)
          BY <3>2, <3>10, <4>2
        <5> QED BY <3>9, <4>2, <5>2, <5>3
      <4> QED BY <3>10, <4>1, <4>2
    <3>13. /\ Counts(flows, e) => Complete(seen', flows \cup {flow})
           /\ ~Counts(flows, e) => Complete(seen', flows)
      BY <3>2, <3>4, <3>6, <3>7, StaysComplete
    <3>14. /\ \A k : Bytes(s, k) \in Nat
           /\ Counts(flows, e) =>
                /\ Bytes(seen', key) = Bytes(s, key) + p.ip_length
                /\ \A k : k # key => Bytes(seen', k) = Bytes(s, k)
           /\ ~Counts(flows, e) => \A k : Bytes(seen', k) = Bytes(s, k)
      BY <3>2, <3>4, <3>6, <3>7, <3>8, BytesGrow
    <3>15. CASE Accounted(agg, p) # "counted"
      <4>1. agg' = agg
        BY <2>1, <3>15 DEF ObservePacket, Observe
      <4>2. ~Counts(flows, e)
        BY <3>9, <3>15
      <4>3. \A k \in DOMAIN agg'.buckets : agg'.buckets[k].bytes = Bytes(seen', k)
        BY <3>3, <3>14, <4>1, <4>2 DEF HeldInv
      <4>4. Complete(seen', agg'.flows)
        BY <3>5, <3>13, <4>1, <4>2
      <4> QED BY <3>10, <3>12, <4>3, <4>4 DEF HeldInv, Complete
    <3>16. CASE Accounted(agg, p) = "counted"
      <4>1. Counts(flows, e)
        BY <3>9, <3>16
      <4>2. /\ agg'.flows = agg.flows \cup {flow}
            /\ DOMAIN agg'.buckets = DOMAIN agg.buckets \cup {key}
            /\ agg'.buckets[key].bytes = BucketAt(agg.buckets, key).bytes + p.ip_length
            /\ \A k \in DOMAIN agg.buckets : k # key => agg'.buckets[k] = agg.buckets[k]
        <5>1. Counted(flow, p.ip_length)
          BY <2>1, <3>7, <3>16, CountedStep
        <5> QED BY <3>8, <5>1 DEF Counted
      <4>3. BucketAt(agg.buckets, key).bytes = Bytes(s, key)
        <5>1. CASE key \in DOMAIN agg.buckets
          BY <3>3, <5>1 DEF BucketAt, HeldInv
        <5>2. CASE key \notin DOMAIN agg.buckets
          <6>1. AdmittedOf(s, key) = {}
            BY <3>3, <5>2 DEF AdmittedOf, HeldInv, FlowCountsAreDistinctFlows
          <6> QED BY <5>2, <6>1, SumOfNone DEF BucketAt, Bytes
        <5> QED BY <5>1, <5>2
      <4>4. \A k \in DOMAIN agg'.buckets : agg'.buckets[k].bytes = Bytes(seen', k)
        <5> SUFFICES ASSUME NEW k \in DOMAIN agg'.buckets
                     PROVE  agg'.buckets[k].bytes = Bytes(seen', k)
          OBVIOUS
        <5>1. CASE k = key
          BY <3>14, <4>1, <4>2, <4>3, <5>1
        <5>2. CASE k # key
          BY <3>3, <3>14, <4>1, <4>2, <5>2 DEF HeldInv
        <5> QED BY <5>1, <5>2
      <4>5. Complete(seen', agg'.flows)
        BY <3>5, <3>13, <4>1, <4>2
      <4> QED BY <3>10, <3>12, <4>4, <4>5 DEF HeldInv, Complete
    <3> QED BY <3>15, <3>16
  <2>2. ASSUME NEW local \in LocalSets, NewAddresses(local) PROVE HeldInv'
    <3>1. agg'.flows = agg.flows /\ agg'.buckets = agg.buckets /\ seen' = seen
      BY <2>2 DEF NewAddresses, ReplaceLocal, TypeOK
    <3> QED BY <3>1 DEF HeldInv
  <2>3. ASSUME NEW end \in Ends, Flush(end) PROVE HeldInv'
    <3>1. agg'.flows = {} /\ agg'.buckets = NoBuckets /\ seen' = <<>>
      BY <2>3 DEF Flush, Flushed, TypeOK
    <3>2. TrafficIn(seen') = {} /\ AdmittedIn(seen') = {}
      BY <3>1 DEF TrafficIn, AdmittedIn
    <3>3. seen' \in Seq(Judged) /\ DOMAIN seen' = {}
      BY <3>1
    <3> QED BY <3>1, <3>2, <3>3 DEF HeldInv, NoBuckets
  <2>4. CASE UNCHANGED vars
    BY <2>4 DEF vars, HeldInv
  <2> QED BY <2>1, <2>2, <2>3, <2>4 DEF Next
<1> QED BY <1>1, <1>2, TypeCorrect, CountsCorrect, PTL DEF Spec

(* A window holds exactly its first max_flows flows and accounts each of   *)
(* them completely, in every reachable state (observe, flow.rs:113-135).   *)
THEOREM HeldFlowsComplete == Spec => []HeldFlowsAreComplete
<1>1. HeldInv => HeldFlowsAreComplete
  <2> SUFFICES ASSUME HeldInv PROVE HeldFlowsAreComplete
    OBVIOUS
  <2>1. agg.flows = {FlowAt(i) : i \in Admitted}
    BY HistoryNames DEF HeldInv
  <2>2. \A k : BytesWith(LAMBDA f : KeyOf(f) = k) = Bytes(seen, k)
    <3> SUFFICES ASSUME NEW k PROVE BytesWith(LAMBDA f : KeyOf(f) = k) = Bytes(seen, k)
      OBVIOUS
    <3>1. {j \in Admitted : KeyOf(FlowAt(j)) = k} = AdmittedOf(seen, k)
      BY HistoryNames DEF AdmittedOf
    <3>2. AdmittedOf(seen, k) \in SUBSET DOMAIN seen
      BY DEF AdmittedOf, AdmittedIn, TrafficIn
    <3>3. [i \in AdmittedOf(seen, k) |-> seen[i].packet.ip_length]
            = [i \in AdmittedOf(seen, k) |-> Lengths(seen)[i]]
      BY <3>2 DEF Lengths
    <3>4. BytesWith(LAMBDA f : KeyOf(f) = k) =
            SumFunction([i \in {j \in Admitted : KeyOf(FlowAt(j)) = k} |->
                           seen[i].packet.ip_length])
      BY Zenon DEF BytesWith
    <3> QED BY <3>1, <3>3, <3>4, Zenon DEF Bytes, SumOver
  <2>3. \A i \in DOMAIN seen :
          seen[i].verdict = IF i \notin Traffic THEN "ignored"
                            ELSE IF i \in Admitted THEN "counted"
                            ELSE "capacity_exceeded"
    BY HistoryNames DEF HeldInv
  <2>4. \A k \in DOMAIN agg.buckets :
          agg.buckets[k].bytes = BytesWith(LAMBDA f : KeyOf(f) = k)
    <3>1. \A k \in DOMAIN agg.buckets : agg.buckets[k].bytes = Bytes(seen, k)
      BY DEF HeldInv
    <3> QED BY <2>2, <3>1, Zenon
  <2> QED BY <2>1, <2>3, <2>4, Zenon DEF HeldFlowsAreComplete
<1> QED BY <1>1, HeldInvHolds, PTL

-----------------------------------------------------------------------------
(* The records of a flush: one per bucket, told apart by the endpoint.     *)
Entry(k, end) ==
  [timestamp |-> end,
   external_ip |-> k.external_ip, external_port |-> k.external_port,
   protocol |-> k.protocol,
   flow_count |-> agg.buckets[k].count,
   flow_byte_sum |-> agg.buckets[k].bytes]

LEMMA EntryFields ==
  ASSUME NEW k, NEW end
  PROVE  /\ Entry(k, end).timestamp = end
         /\ Entry(k, end).external_ip = k.external_ip
         /\ Entry(k, end).external_port = k.external_port
         /\ Entry(k, end).protocol = k.protocol
         /\ Entry(k, end).flow_count = agg.buckets[k].count
         /\ Entry(k, end).flow_byte_sum = agg.buckets[k].bytes
BY DEF Entry

LEMMA KeyIsItsFields ==
  ASSUME NEW k \in AggregateKey
  PROVE  k = [external_ip |-> k.external_ip, external_port |-> k.external_port,
              protocol |-> k.protocol]
BY DEF AggregateKey

LEMMA SameKey ==
  ASSUME NEW j \in AggregateKey, NEW k \in AggregateKey,
         j.external_ip = k.external_ip, j.external_port = k.external_port,
         j.protocol = k.protocol
  PROVE  j = k
BY KeyIsItsFields

LEMMA KeyFields ==
  ASSUME NEW f
  PROVE  /\ KeyOf(f).external_ip = f.external_ip
         /\ KeyOf(f).external_port = f.external_port
         /\ KeyOf(f).protocol = f.protocol
BY DEF KeyOf

LEMMA BucketsAreFinite ==
  ASSUME FlowCountsAreDistinctFlows
  PROVE  IsFiniteSet(DOMAIN agg.buckets)
<1> DEFINE key == [f \in agg.flows |-> KeyOf(f)]
<1>1. DOMAIN agg.buckets = {key[f] : f \in agg.flows} /\ IsFiniteSet(agg.flows)
  BY DEF FlowCountsAreDistinctFlows
<1> HIDE DEF key
<1> QED BY <1>1, ImageIsFinite

LEMMA FlushListsTheBuckets ==
  ASSUME TypeOK, FlowCountsAreDistinctFlows, NEW end, NEW records,
         records = FlushRecords(agg, end)
  PROVE  /\ \A k \in DOMAIN agg.buckets : Entry(k, end) \in ToSet(records)
         /\ \A r \in ToSet(records) : \E k \in DOMAIN agg.buckets : r = Entry(k, end)
         /\ \A i, j \in DOMAIN records : i < j => RecordLess(records[i], records[j])
         /\ IsFiniteSet(ToSet(records))
<1> USE FlowAssumption
<1> DEFINE S == {Entry(k, end) : k \in DOMAIN agg.buckets}
<1>1. S = RecordsOf(agg, end)
  BY DEF RecordsOf, Entry
<1>2. IsFiniteSet(S)
  <2> DEFINE f == [k \in DOMAIN agg.buckets |-> Entry(k, end)]
  <2>1. S = {f[k] : k \in DOMAIN agg.buckets}
    OBVIOUS
  <2> HIDE DEF f
  <2>2. IsFiniteSet({f[k] : k \in DOMAIN agg.buckets})
    BY BucketsAreFinite, ImageIsFinite
  <2> QED BY <2>1, <2>2
<1>3. \A k \in DOMAIN agg.buckets : k \in AggregateKey
  BY DEF TypeOK
<1>4. \A r \in S : /\ r.external_ip \in Nat /\ r.external_port \in Nat
                   /\ r.protocol \in Protocol
  <2>1. \A k \in DOMAIN agg.buckets :
          /\ k.external_ip \in Nat /\ k.external_port \in Nat
          /\ k.protocol \in Protocol
    BY <1>3 DEF AggregateKey
  <2> QED BY <2>1, EntryFields
<1>5. \A r, s \in S : (/\ r.external_ip = s.external_ip
                       /\ r.external_port = s.external_port
                       /\ r.protocol = s.protocol) => r = s
  <2> SUFFICES ASSUME NEW j \in DOMAIN agg.buckets, NEW k \in DOMAIN agg.buckets,
                      Entry(j, end).external_ip = Entry(k, end).external_ip,
                      Entry(j, end).external_port = Entry(k, end).external_port,
                      Entry(j, end).protocol = Entry(k, end).protocol
               PROVE  Entry(j, end) = Entry(k, end)
    OBVIOUS
  <2>1. j = k
    BY <1>3, EntryFields, SameKey
  <2> QED BY <2>1
<1> HIDE DEF S
<1>6. records = InOrder(S, RecordLess)
  BY <1>1, Zenon DEF FlushRecords
<1>7. /\ ToSet(records) = S
      /\ \A i, j \in DOMAIN records : i < j => RecordLess(records[i], records[j])
  BY <1>2, <1>4, <1>5, <1>6, RecordsInOrder
<1> QED BY <1>2, <1>7 DEF S

(* The sums of a report, for a set of flows told by a property of them.    *)
LEMMA SumsOfKey ==
  ASSUME TypeOK, FlowCountsAreDistinctFlows, HeldInv, NEW k \in DOMAIN agg.buckets
  PROVE  /\ agg.buckets[k].count = Cardinality(FlowsOfKey(agg.flows, k))
         /\ FlowsOfKey(agg.flows, k) = {FlowIn(seen, i) : i \in AdmittedOf(seen, k)}
         /\ IsFiniteSet(FlowsOfKey(agg.flows, k))
         /\ agg.buckets[k].bytes = SumOver(Lengths(seen), AdmittedOf(seen, k))
         /\ AdmittedOf(seen, k) \in SUBSET DOMAIN seen
         /\ IsFiniteSet(AdmittedOf(seen, k))
<1>1. agg.buckets[k].count = Cardinality(FlowsOfKey(agg.flows, k))
  BY DEF FlowCountsAreDistinctFlows
<1>2. FlowsOfKey(agg.flows, k) = {FlowIn(seen, i) : i \in AdmittedOf(seen, k)}
  BY DEF FlowsOfKey, AdmittedOf, HeldInv
<1>3. IsFiniteSet(FlowsOfKey(agg.flows, k))
  BY FS_Subset DEF FlowsOfKey, FlowCountsAreDistinctFlows
<1>4. agg.buckets[k].bytes = SumOver(Lengths(seen), AdmittedOf(seen, k))
  BY DEF HeldInv, Bytes
<1>5. AdmittedOf(seen, k) \in SUBSET DOMAIN seen
  BY DEF AdmittedOf, AdmittedIn, TrafficIn
<1>6. IsFiniteSet(AdmittedOf(seen, k))
  BY <1>5, FlowsAreFinite DEF HeldInv
<1> QED BY <1>1, <1>2, <1>3, <1>4, <1>5, <1>6

LEMMA SumOfLengths ==
  ASSUME NEW K \in SUBSET DOMAIN seen
  PROVE  SumFunction([i \in K |-> seen[i].packet.ip_length]) = SumOver(Lengths(seen), K)
<1>1. [i \in K |-> seen[i].packet.ip_length] = [i \in K |-> Lengths(seen)[i]]
  BY DEF Lengths
<1> QED BY <1>1, Zenon DEF SumOver

(* Flushing reports the window that was observed and nothing else          *)
(* (flush, flow.rs:137-152).                                               *)
THEOREM FlushReports == Spec => FlushReportsTheWindow
<1> USE FlowAssumption, AggregatorAssumption
<1>1. ASSUME TypeOK, FlowCountsAreDistinctFlows, HeldInv, NEW end \in Ends, Flush(end)
      PROVE  ReportOf(report', end)
  <2>1. report' = FlushRecords(agg, end)
    BY <1>1 DEF Flush
  <2>2. PICK records : records = report'
    OBVIOUS
  <2>3. /\ \A k \in DOMAIN agg.buckets : Entry(k, end) \in ToSet(records)
        /\ \A r \in ToSet(records) : \E k \in DOMAIN agg.buckets : r = Entry(k, end)
        /\ \A i, j \in DOMAIN records : i < j => RecordLess(records[i], records[j])
    BY <1>1, <2>1, <2>2, FlushListsTheBuckets
  <2>4. \A k \in DOMAIN agg.buckets : k \in AggregateKey
    BY <1>1 DEF TypeOK
  <2>5. DOMAIN agg.buckets = {KeyOf(FlowAt(i)) : i \in Admitted}
    BY <1>1, HistoryNames DEF FlowCountsAreDistinctFlows, HeldInv
  <2>6. {[external_ip |-> r.external_ip, external_port |-> r.external_port,
          protocol |-> r.protocol] : r \in ToSet(records)} = DOMAIN agg.buckets
    <3>1. ASSUME NEW k \in DOMAIN agg.buckets
          PROVE  [external_ip |-> Entry(k, end).external_ip,
                  external_port |-> Entry(k, end).external_port,
                  protocol |-> Entry(k, end).protocol] = k
      BY <2>4, EntryFields, KeyIsItsFields
    <3> QED BY <2>3, <3>1
  <2>7. ASSUME NEW r \in ToSet(records)
        PROVE  LET OfRecord(f) == /\ f.external_ip = r.external_ip
                                  /\ f.external_port = r.external_port
                                  /\ f.protocol = r.protocol
               IN  /\ r.timestamp = end
                   /\ r.flow_count = Cardinality(FlowsWith(OfRecord))
                   /\ r.flow_byte_sum = BytesWith(OfRecord)
    <3> DEFINE OfRecord(f) == /\ f.external_ip = r.external_ip
                              /\ f.external_port = r.external_port
                              /\ f.protocol = r.protocol
    <3>1. PICK k \in DOMAIN agg.buckets : r = Entry(k, end)
      BY <2>3
    <3>2. /\ r.timestamp = end
          /\ r.external_ip = k.external_ip /\ r.external_port = k.external_port
          /\ r.protocol = k.protocol
          /\ r.flow_count = agg.buckets[k].count
          /\ r.flow_byte_sum = agg.buckets[k].bytes
      BY <3>1, EntryFields
    <3>3. ASSUME NEW i \in Admitted PROVE OfRecord(FlowAt(i)) <=> KeyOf(FlowAt(i)) = k
      <4>1. KeyOf(FlowAt(i)) \in AggregateKey /\ k \in AggregateKey
        BY <2>4, <2>5
      <4> QED BY <3>2, <4>1, KeyFields, SameKey
    <3>4. {j \in Admitted : OfRecord(FlowAt(j))} = AdmittedOf(seen, k)
      BY <3>3, HistoryNames DEF AdmittedOf
    <3> HIDE DEF OfRecord
    <3>5. FlowsWith(OfRecord) = {FlowIn(seen, i) : i \in AdmittedOf(seen, k)}
      <4>1. FlowsWith(OfRecord) = {FlowAt(i) : i \in {j \in Admitted : OfRecord(FlowAt(j))}}
        BY Zenon DEF FlowsWith
      <4> QED BY <3>4, <4>1, HistoryNames
    <3>6. BytesWith(OfRecord) = SumOver(Lengths(seen), AdmittedOf(seen, k))
      <4>1. BytesWith(OfRecord) =
              SumFunction([i \in {j \in Admitted : OfRecord(FlowAt(j))} |->
                             seen[i].packet.ip_length])
        BY Zenon DEF BytesWith
      <4> QED BY <1>1, <3>4, <4>1, SumOfLengths, SumsOfKey
    <3>7. r.flow_count = Cardinality(FlowsWith(OfRecord))
      BY <1>1, <3>2, <3>5, SumsOfKey
    <3>8. r.flow_byte_sum = BytesWith(OfRecord)
      BY <1>1, <3>2, <3>6, SumsOfKey
    <3> QED BY <3>2, <3>7, <3>8, Zenon DEF OfRecord
  <2> QED BY <2>2, <2>3, <2>5, <2>6, <2>7, Zenon DEF ReportOf
<1>2. TypeOK /\ FlowCountsAreDistinctFlows /\ HeldInv /\ [Next]_vars =>
        [\A end \in Ends : Flush(end) => ReportOf(report', end)]_vars
  BY <1>1
<1> QED BY <1>2, TypeCorrect, CountsCorrect, HeldInvHolds, PTL DEF Spec, FlushReportsTheWindow

-----------------------------------------------------------------------------
(* The roll-up of a flush: the records of an address are those of disjoint *)
(* sets of flows and of packets, so that their sums are those of the union.*)
IpEntry(records, key) ==
  LET OfKey == {r \in ToSet(records) : <<r.timestamp, r.external_ip>> = key}
  IN  [timestamp |-> key[1], external_ip |-> key[2],
       flow_count |-> SumFunction([r \in OfKey |-> r.flow_count]),
       flow_byte_sum |-> SumFunction([r \in OfKey |-> r.flow_byte_sum])]

LEMMA RollUpLists ==
  ASSUME NEW records, IsFiniteSet(ToSet(records)),
         \A r \in ToSet(records) : r.timestamp \in Nat /\ r.external_ip \in Nat,
         NEW byIp, byIp = AggregateByIp(records)
  PROVE  /\ ToSet(byIp) = {IpEntry(records, key) : key \in IpKeysOf(records)}
         /\ Len(byIp) = Cardinality({IpEntry(records, key) : key \in IpKeysOf(records)})
<1> DEFINE T == {IpEntry(records, key) : key \in IpKeysOf(records)}
<1>1. byIp = InOrder(T, IpRecordLess)
  BY Zenon DEF AggregateByIp, IpEntry
<1>2. IsFiniteSet(T)
  <2> DEFINE f == [r \in ToSet(records) |-> IpEntry(records, <<r.timestamp, r.external_ip>>)]
  <2>1. T = {f[r] : r \in ToSet(records)}
    BY DEF IpKeysOf
  <2> HIDE DEF f
  <2>2. IsFiniteSet({f[r] : r \in ToSet(records)})
    BY ImageIsFinite
  <2> QED BY <2>1, <2>2
<1>3. ASSUME NEW key \in IpKeysOf(records)
      PROVE  /\ IpEntry(records, key).timestamp = key[1] /\ key[1] \in Nat
             /\ IpEntry(records, key).external_ip = key[2] /\ key[2] \in Nat
             /\ key = <<key[1], key[2]>>
  <2>1. PICK r \in ToSet(records) : key = <<r.timestamp, r.external_ip>>
    BY DEF IpKeysOf
  <2>2. key[1] \in Nat /\ key[2] \in Nat /\ key = <<key[1], key[2]>>
    BY <2>1
  <2>3. IpEntry(records, key).timestamp = key[1] /\ IpEntry(records, key).external_ip = key[2]
    BY DEF IpEntry
  <2> QED BY <2>2, <2>3
<1>4. \A r \in T : r.external_ip \in Nat /\ r.timestamp \in Nat
  BY <1>3
<1>5. \A r, s \in T : (/\ r.external_ip = s.external_ip
                       /\ r.timestamp = s.timestamp) => r = s
  <2> SUFFICES ASSUME NEW j \in IpKeysOf(records), NEW k \in IpKeysOf(records),
                      IpEntry(records, j).external_ip = IpEntry(records, k).external_ip,
                      IpEntry(records, j).timestamp = IpEntry(records, k).timestamp
               PROVE  IpEntry(records, j) = IpEntry(records, k)
    OBVIOUS
  <2>1. j[1] = k[1] /\ j[2] = k[2]
    BY <1>3
  <2>2. j = <<j[1], j[2]>> /\ k = <<k[1], k[2]>>
    BY <1>3
  <2>3. j = k
    BY <2>1, <2>2
  <2> QED BY <2>3
<1> HIDE DEF T
<1>6. ToSet(byIp) = T /\ Len(byIp) = Cardinality(T)
  BY <1>1, <1>2, <1>4, <1>5, IpRecordsInOrder
<1> QED BY <1>6 DEF T

\* The sums of the records of one address.
EntriesOf(a, end) == {Entry(k, end) : k \in {b \in DOMAIN agg.buckets : b.external_ip = a}}

LEMMA SumsOfAddress ==
  ASSUME TypeOK, FlowCountsAreDistinctFlows, HeldInv, NEW end, NEW a, NEW R,
         R = EntriesOf(a, end)
  PROVE  /\ SumFunction([r \in R |-> r.flow_count])
              = Cardinality({f \in agg.flows : f.external_ip = a})
         /\ SumFunction([r \in R |-> r.flow_byte_sum])
              = SumOver(Lengths(seen), {i \in AdmittedIn(seen) : FlowIn(seen, i).external_ip = a})
<1> USE DEF EntriesOf
<1> DEFINE KeyIn(r) == [external_ip |-> r.external_ip, external_port |-> r.external_port,
                        protocol |-> r.protocol]
           flowsOf == [r \in R |-> FlowsOfKey(agg.flows, KeyIn(r))]
           packetsOf == [r \in R |-> AdmittedOf(seen, KeyIn(r))]
           ones == [f \in agg.flows |-> 1]
           counts == [r \in R |-> r.flow_count]
           bytes == [r \in R |-> r.flow_byte_sum]
<1>1. ASSUME NEW k \in DOMAIN agg.buckets PROVE KeyIn(Entry(k, end)) = k
  <2>1. k \in AggregateKey
    BY DEF TypeOK
  <2> QED BY <2>1, EntryFields, KeyIsItsFields
<1>2. ASSUME NEW r \in R
      PROVE  /\ KeyIn(r) \in DOMAIN agg.buckets /\ KeyIn(r).external_ip = a
             /\ r = Entry(KeyIn(r), end)
             /\ r.flow_count = agg.buckets[KeyIn(r)].count
             /\ r.flow_byte_sum = agg.buckets[KeyIn(r)].bytes
  <2>1. PICK k \in DOMAIN agg.buckets : k.external_ip = a /\ r = Entry(k, end)
    OBVIOUS
  <2>2. KeyIn(r) = k
    BY <1>1, <2>1
  <2> HIDE DEF KeyIn
  <2> QED BY <2>1, <2>2, EntryFields
<1>3. ASSUME NEW k \in DOMAIN agg.buckets, k.external_ip = a
      PROVE  \E r \in R : KeyIn(r) = k
  BY <1>1, <1>3
<1>4. \A r, s \in R : r # s => KeyIn(r) # KeyIn(s)
  <2> HIDE DEF KeyIn
  <2> QED BY <1>2
<1> HIDE DEF KeyIn
<1>5. IsFiniteSet(R)
  <2> DEFINE f == [k \in DOMAIN agg.buckets |-> Entry(k, end)]
             B == {b \in DOMAIN agg.buckets : b.external_ip = a}
  <2>1. IsFiniteSet(B)
    BY BucketsAreFinite, FS_Subset
  <2>2. R = {f[k] : k \in B}
    OBVIOUS
  <2> HIDE DEF f, B
  <2>3. IsFiniteSet({f[k] : k \in B})
    BY <2>1, ImageIsFinite
  <2> QED BY <2>2, <2>3
<1>6. SumFunction(counts) = SumOver(counts, R) /\ SumFunction(bytes) = SumOver(bytes, R)
  <2>1. counts = [r \in R |-> counts[r]] /\ bytes = [r \in R |-> bytes[r]]
    OBVIOUS
  <2> HIDE DEF counts, bytes
  <2> QED BY <2>1, Zenon DEF SumOver
<1>7. SumOver(counts, R) = Cardinality({f \in agg.flows : f.external_ip = a})
  <2>1. /\ DOMAIN flowsOf = R
        /\ \A r \in R : flowsOf[r] = FlowsOfKey(agg.flows, KeyIn(r))
    OBVIOUS
  <2>2. /\ \A f \in agg.flows : ones[f] = 1
        /\ \A r \in R : counts[r] = r.flow_count
    OBVIOUS
  <2> HIDE DEF flowsOf, ones, counts
  <2>3. Disjoint(flowsOf)
    BY <1>4, <2>1 DEF Disjoint, FlowsOfKey
  <2>4. ASSUME NEW r \in R
        PROVE  /\ IsFiniteSet(flowsOf[r])
               /\ counts[r] = SumOver(ones, flowsOf[r])
               /\ \A f \in flowsOf[r] : ones[f] \in Nat
    <3>1. /\ r.flow_count = Cardinality(flowsOf[r])
          /\ IsFiniteSet(flowsOf[r])
      BY <1>2, <2>1, SumsOfKey
    <3>2. \A f \in flowsOf[r] : ones[f] = 1
      BY <2>1, <2>2 DEF FlowsOfKey
    <3>3. SumOver(ones, flowsOf[r]) = Cardinality(flowsOf[r])
      BY <3>1, <3>2, SumOfOnes
    <3> QED BY <2>2, <3>1, <3>2, <3>3
  <2>5. Joined(flowsOf, R) = {f \in agg.flows : f.external_ip = a}
    <3>1. ASSUME NEW f \in agg.flows, f.external_ip = a PROVE \E r \in R : f \in flowsOf[r]
      <4>1. KeyOf(f) \in DOMAIN agg.buckets /\ KeyOf(f).external_ip = a
        BY <3>1, KeyFields DEF FlowCountsAreDistinctFlows
      <4>2. PICK r \in R : KeyIn(r) = KeyOf(f)
        BY <1>3, <4>1
      <4> QED BY <2>1, <4>2 DEF FlowsOfKey
    <3>2. ASSUME NEW r \in R, NEW f \in flowsOf[r]
          PROVE  f \in agg.flows /\ f.external_ip = a
      <4>1. f \in agg.flows /\ KeyOf(f) = KeyIn(r)
        BY <2>1 DEF FlowsOfKey
      <4> QED BY <1>2, <4>1, KeyFields
    <3> QED BY <3>1, <3>2 DEF Joined
  <2>6. SumOver(counts, R) = SumOver(ones, Joined(flowsOf, R))
    BY <1>5, <2>1, <2>3, <2>4, SumOfParts
  <2>7. SumOver(ones, Joined(flowsOf, R)) = Cardinality(Joined(flowsOf, R))
    <3>1. IsFiniteSet(Joined(flowsOf, R))
      BY <2>5, FS_Subset DEF FlowCountsAreDistinctFlows
    <3> QED BY <2>2, <2>5, <3>1, SumOfOnes
  <2> QED BY <2>5, <2>6, <2>7
<1>8. SumOver(bytes, R)
        = SumOver(Lengths(seen), {i \in AdmittedIn(seen) : FlowIn(seen, i).external_ip = a})
  <2>1. /\ DOMAIN packetsOf = R
        /\ \A r \in R : packetsOf[r] = AdmittedOf(seen, KeyIn(r))
        /\ \A r \in R : bytes[r] = r.flow_byte_sum
    OBVIOUS
  <2> HIDE DEF packetsOf, bytes
  <2>2. Disjoint(packetsOf)
    BY <1>4, <2>1 DEF Disjoint, AdmittedOf
  <2>3. ASSUME NEW r \in R
        PROVE  /\ IsFiniteSet(packetsOf[r])
               /\ bytes[r] = SumOver(Lengths(seen), packetsOf[r])
               /\ \A i \in packetsOf[r] : Lengths(seen)[i] \in Nat
    <3>1. /\ bytes[r] = SumOver(Lengths(seen), packetsOf[r])
          /\ packetsOf[r] \in SUBSET DOMAIN seen
          /\ IsFiniteSet(packetsOf[r])
      BY <1>2, <2>1, SumsOfKey
    <3> QED BY <3>1, LengthsAreNumbers DEF HeldInv
  <2>4. Joined(packetsOf, R) = {i \in AdmittedIn(seen) : FlowIn(seen, i).external_ip = a}
    <3>1. ASSUME NEW i \in AdmittedIn(seen), FlowIn(seen, i).external_ip = a
          PROVE  \E r \in R : i \in packetsOf[r]
      <4>1. KeyOf(FlowIn(seen, i)) \in DOMAIN agg.buckets
            /\ KeyOf(FlowIn(seen, i)).external_ip = a
        BY <3>1, KeyFields DEF FlowCountsAreDistinctFlows, HeldInv
      <4>2. PICK r \in R : KeyIn(r) = KeyOf(FlowIn(seen, i))
        BY <1>3, <4>1
      <4> QED BY <2>1, <4>2 DEF AdmittedOf
    <3>2. ASSUME NEW r \in R, NEW i \in packetsOf[r]
          PROVE  i \in AdmittedIn(seen) /\ FlowIn(seen, i).external_ip = a
      <4>1. i \in AdmittedIn(seen) /\ KeyOf(FlowIn(seen, i)) = KeyIn(r)
        BY <2>1 DEF AdmittedOf
      <4> QED BY <1>2, <4>1, KeyFields
    <3> QED BY <3>1, <3>2 DEF Joined
  <2>5. SumOver(bytes, R) = SumOver(Lengths(seen), Joined(packetsOf, R))
    BY <1>5, <2>1, <2>2, <2>3, SumOfParts
  <2> QED BY <2>4, <2>5
<1> QED BY <1>6, <1>7, <1>8

(* The per-address roll-up of a flush counts every flow of the address     *)
(* once (aggregate_by_ip, flow.rs:45-65).                                  *)
THEOREM RollUpCounts == Spec => RollUpCountsFlowsOnce
<1> USE FlowAssumption, AggregatorAssumption
<1> DEFINE Right(records) ==
      LET byIp == AggregateByIp(records) IN
      /\ {r.external_ip : r \in ToSet(byIp)} = {FlowAt(i).external_ip : i \in Admitted}
      /\ Len(byIp) = Cardinality({FlowAt(i).external_ip : i \in Admitted})
      /\ \A r \in ToSet(byIp) :
           LET OfIp(f) == f.external_ip = r.external_ip
           IN  /\ r.flow_count = Cardinality(FlowsWith(OfIp))
               /\ r.flow_byte_sum = BytesWith(OfIp)
<1>1. ASSUME TypeOK, FlowCountsAreDistinctFlows, HeldInv, NEW end \in Ends, Flush(end)
      PROVE  Right(report')
  <2>1. PICK records : records = report' /\ records = FlushRecords(agg, end)
    BY <1>1 DEF Flush
  <2>2. PICK byIp : byIp = AggregateByIp(records)
    OBVIOUS
  <2>3. /\ \A k \in DOMAIN agg.buckets : Entry(k, end) \in ToSet(records)
        /\ \A r \in ToSet(records) : \E k \in DOMAIN agg.buckets : r = Entry(k, end)
        /\ IsFiniteSet(ToSet(records))
    BY <1>1, <2>1, FlushListsTheBuckets
  <2>4. \A k \in DOMAIN agg.buckets : k.external_ip \in Nat
    <3>1. \A k \in DOMAIN agg.buckets : k \in AggregateKey
      BY <1>1 DEF TypeOK
    <3> QED BY <3>1 DEF AggregateKey
  <2>5. \A r \in ToSet(records) :
          /\ r.timestamp \in Nat /\ r.external_ip \in Nat
          /\ r.timestamp = end
    <3>1. end \in Nat
      OBVIOUS
    <3> QED BY <2>3, <2>4, <3>1, EntryFields
  <2>6. /\ ToSet(byIp) = {IpEntry(records, key) : key \in IpKeysOf(records)}
        /\ Len(byIp) = Cardinality({IpEntry(records, key) : key \in IpKeysOf(records)})
    BY <2>2, <2>3, <2>5, RollUpLists
  <2> DEFINE ips == {FlowAt(i).external_ip : i \in Admitted}
             line(a) == IpEntry(records, <<end, a>>)
  <2>7. IpKeysOf(records) = {<<end, a>> : a \in ips}
    <3>1. \A a : a \in ips <=> \E k \in DOMAIN agg.buckets : k.external_ip = a
      <4>1. DOMAIN agg.buckets = {KeyOf(FlowAt(i)) : i \in Admitted}
        BY <1>1, HistoryNames DEF FlowCountsAreDistinctFlows, HeldInv
      <4> QED BY <4>1, KeyFields
    <3>2. \A a : (\E k \in DOMAIN agg.buckets : k.external_ip = a) <=>
                 \E r \in ToSet(records) : r.external_ip = a
      BY <2>3, EntryFields
    <3> HIDE DEF ips
    <3> QED BY <2>5, <3>1, <3>2 DEF IpKeysOf
  <2>8. ASSUME NEW a \in ips
        PROVE  /\ line(a).external_ip = a
               /\ line(a).flow_count = Cardinality({f \in agg.flows : f.external_ip = a})
               /\ line(a).flow_byte_sum =
                    SumOver(Lengths(seen),
                            {i \in AdmittedIn(seen) : FlowIn(seen, i).external_ip = a})
    <3> DEFINE R == {r \in ToSet(records) : <<r.timestamp, r.external_ip>> = <<end, a>>}
    <3>1. R = EntriesOf(a, end)
      <4>1. R = {r \in ToSet(records) : r.external_ip = a}
        BY <2>5
      <4> QED BY <2>3, <4>1, EntryFields DEF EntriesOf
    <3>2. line(a) = [timestamp |-> <<end, a>>[1], external_ip |-> <<end, a>>[2],
                     flow_count |-> SumFunction([r \in R |-> r.flow_count]),
                     flow_byte_sum |-> SumFunction([r \in R |-> r.flow_byte_sum])]
      BY Zenon DEF IpEntry
    <3> HIDE DEF R, line
    <3>3. /\ line(a).external_ip = a
          /\ line(a).flow_count = SumFunction([r \in R |-> r.flow_count])
          /\ line(a).flow_byte_sum = SumFunction([r \in R |-> r.flow_byte_sum])
      BY <3>2
    <3>4. /\ SumFunction([r \in R |-> r.flow_count])
                = Cardinality({f \in agg.flows : f.external_ip = a})
          /\ SumFunction([r \in R |-> r.flow_byte_sum])
                = SumOver(Lengths(seen),
                          {i \in AdmittedIn(seen) : FlowIn(seen, i).external_ip = a})
      BY <1>1, <3>1, SumsOfAddress
    <3> QED BY <3>3, <3>4
  <2>9. {IpEntry(records, key) : key \in IpKeysOf(records)} = {line(a) : a \in ips}
    BY <2>7
  <2> HIDE DEF line
  <2>10. {r.external_ip : r \in ToSet(byIp)} = ips
    <3> HIDE DEF ips
    <3>1. \A r \in ToSet(byIp) : r.external_ip \in ips
      BY <2>6, <2>8, <2>9
    <3>2. \A a \in ips : line(a) \in ToSet(byIp) /\ line(a).external_ip = a
      BY <2>6, <2>8, <2>9
    <3> QED BY <3>1, <3>2
  <2>11. Len(byIp) = Cardinality(ips)
    <3> DEFINE T == {line(a) : a \in ips}
               f == [a \in ips |-> line(a)]
    <3>1. IsFiniteSet(ips)
      <4> DEFINE g == [k \in DOMAIN agg.buckets |-> k.external_ip]
      <4>1. ips = {g[k] : k \in DOMAIN agg.buckets}
        <5>1. DOMAIN agg.buckets = {KeyOf(FlowAt(i)) : i \in Admitted}
          BY <1>1, HistoryNames DEF FlowCountsAreDistinctFlows, HeldInv
        <5>2. ips = {k.external_ip : k \in DOMAIN agg.buckets}
          BY <5>1, KeyFields
        <5> HIDE DEF ips
        <5> QED BY <5>2
      <4> HIDE DEF g, ips
      <4>2. IsFiniteSet({g[k] : k \in DOMAIN agg.buckets})
        BY <1>1, BucketsAreFinite, ImageIsFinite
      <4> QED BY <4>1, <4>2
    <3>2. f \in Bijection(ips, T)
      <4>1. f \in [ips -> T] /\ \A a, b \in ips : f[a] = f[b] => a = b
        BY <2>8
      <4>2. \A t \in T : \E a \in ips : f[a] = t
        OBVIOUS
      <4> QED BY <4>1, <4>2 DEF Bijection, Injection, IsInjective, Surjection
    <3> HIDE DEF T, f, ips
    <3>3. Cardinality(T) = Cardinality(ips)
      BY <3>1, <3>2, FS_Bijection DEF ExistsBijection
    <3> QED BY <2>6, <2>9, <3>3 DEF T
  <2>12. ASSUME NEW r \in ToSet(byIp)
         PROVE  LET OfIp(f) == f.external_ip = r.external_ip
                IN  /\ r.flow_count = Cardinality(FlowsWith(OfIp))
                    /\ r.flow_byte_sum = BytesWith(OfIp)
    <3> DEFINE OfIp(f) == f.external_ip = r.external_ip
    <3>1. PICK a \in ips : r = line(a)
      BY <2>6, <2>9
    <3>2. r.external_ip = a
      BY <2>8, <3>1
    <3>3. {j \in Admitted : OfIp(FlowAt(j))} =
            {i \in AdmittedIn(seen) : FlowIn(seen, i).external_ip = a}
      BY <3>2, HistoryNames
    <3> HIDE DEF OfIp
    <3>4. FlowsWith(OfIp) = {f \in agg.flows : f.external_ip = a}
      <4>1. FlowsWith(OfIp) = {FlowAt(i) : i \in {j \in Admitted : OfIp(FlowAt(j))}}
        BY Zenon DEF FlowsWith
      <4>2. agg.flows = {FlowIn(seen, i) : i \in AdmittedIn(seen)}
        BY <1>1 DEF HeldInv
      <4> QED BY <3>3, <4>1, <4>2, HistoryNames
    <3>5. BytesWith(OfIp) =
            SumOver(Lengths(seen), {i \in AdmittedIn(seen) : FlowIn(seen, i).external_ip = a})
      <4>1. BytesWith(OfIp) =
              SumFunction([i \in {j \in Admitted : OfIp(FlowAt(j))} |->
                             seen[i].packet.ip_length])
        BY Zenon DEF BytesWith
      <4>2. {i \in AdmittedIn(seen) : FlowIn(seen, i).external_ip = a} \in SUBSET DOMAIN seen
        BY DEF AdmittedIn, TrafficIn
      <4> QED BY <3>3, <4>1, <4>2, SumOfLengths
    <3>6. /\ r.flow_count = Cardinality(FlowsWith(OfIp))
          /\ r.flow_byte_sum = BytesWith(OfIp)
      BY <2>8, <3>1, <3>4, <3>5
    <3> QED BY <3>6, Zenon DEF OfIp
  <2>13. Right(records)
    BY <2>2, <2>10, <2>11, <2>12, Zenon
  <2> QED BY <2>1, <2>13, Zenon
<1> HIDE DEF Right
<1>2. TypeOK /\ FlowCountsAreDistinctFlows /\ HeldInv /\ [Next]_vars =>
        [\A end \in Ends : Flush(end) => Right(report')]_vars
  BY <1>1
<1> QED BY <1>2, TypeCorrect, CountsCorrect, HeldInvHolds, PTL
      DEF Spec, RollUpCountsFlowsOnce, Right

-----------------------------------------------------------------------------
(* The counters implement the accounts of Accounts.tla.                    *)
accountsNow == [k \in AggregateKey |-> AccountOf(k)]

\* An instance has a copy of every definition it rests on.
LEMMA SameCardinality ==
  ASSUME NEW S
  PROVE  Abstract!Cardinality(S) = Cardinality(S)
BY Zenon DEF Cardinality, Abstract!Cardinality

LEMMA AccountNow ==
  ASSUME NEW k \in AggregateKey
  PROVE  /\ accountsNow[k] = AccountOf(k)
         /\ AccountOf(k).flows = FlowsOfKey(agg.flows, k)
         /\ AccountOf(k).bytes = BucketAt(agg.buckets, k).bytes
BY DEF accountsNow, AccountOf

LEMMA HeldFlowsAreTheFlows ==
  ASSUME TypeOK
  PROVE  UNION {accountsNow[k].flows : k \in AggregateKey} = agg.flows
<1>1. \A k \in AggregateKey : accountsNow[k].flows = FlowsOfKey(agg.flows, k)
  BY AccountNow
<1>2. \A f \in agg.flows : KeyOf(f) \in AggregateKey
  BY KeyOfType DEF TypeOK
<1> HIDE DEF accountsNow
<1> QED BY <1>1, <1>2 DEF FlowsOfKey

LEMMA CreditsAnAccount ==
  ASSUME TypeOK, FlowCountsAreDistinctFlows, NEW p \in Packets, ObservePacket(p),
         Accounted(agg, p) = "counted", FlowCountsAreDistinctFlows'
  PROVE  \E flow \in FlowKey, length \in Length : Abstract!CreditAccount(flow, length)
<1> USE FlowAssumption, AggregatorAssumption
<1>1. PICK flow \in FlowKey : Counted(flow, p.ip_length)
  BY CountedStep
<1>2. PICK length \in Length : length = p.ip_length
  BY DEF PacketEvent
<1>3. PICK key \in AggregateKey : key = KeyOf(flow)
  BY <1>1 DEF Counted
<1>4. ToSet(report') = {}
  BY DEF ObservePacket, ToSet
<1>5. /\ agg'.flows = agg.flows \cup {flow}
      /\ agg'.buckets[key].bytes = BucketAt(agg.buckets, key).bytes + length
      /\ DOMAIN agg'.buckets = DOMAIN agg.buckets \cup {key}
      /\ \A k \in DOMAIN agg.buckets : k # key => agg'.buckets[k] = agg.buckets[k]
  BY <1>1, <1>2, <1>3 DEF Counted
<1>6. AccountOf(key)' = [flows |-> AccountOf(key).flows \cup {flow},
                         bytes |-> AccountOf(key).bytes + length]
  <2>1. FlowsOfKey(agg'.flows, key) = FlowsOfKey(agg.flows, key) \cup {flow}
    BY <1>3, <1>5 DEF FlowsOfKey
  <2>2. BucketAt(agg'.buckets, key).bytes = BucketAt(agg.buckets, key).bytes + length
    BY <1>5 DEF BucketAt
  <2> QED BY <2>1, <2>2 DEF AccountOf
<1>7. ASSUME NEW k \in AggregateKey, k # key PROVE AccountOf(k)' = AccountOf(k)
  <2>1. FlowsOfKey(agg'.flows, k) = FlowsOfKey(agg.flows, k)
    BY <1>3, <1>5, <1>7 DEF FlowsOfKey
  <2>2. BucketAt(agg'.buckets, k).bytes = BucketAt(agg.buckets, k).bytes
    BY <1>5, <1>7 DEF BucketAt
  <2> QED BY <2>1, <2>2 DEF AccountOf
<1>8. accountsNow' = [accountsNow EXCEPT ![key] =
                        [flows |-> @.flows \cup {flow}, bytes |-> @.bytes + length]]
  <2> DEFINE new == [flows |-> accountsNow[key].flows \cup {flow},
                     bytes |-> accountsNow[key].bytes + length]
  <2>1. accountsNow = [k \in AggregateKey |-> accountsNow[k]]
        /\ accountsNow' = [k \in AggregateKey |-> accountsNow'[k]]
    BY DEF accountsNow
  <2>2. \A k \in AggregateKey : accountsNow[k] = AccountOf(k) /\ accountsNow'[k] = AccountOf(k)'
    BY DEF accountsNow
  <2>3. accountsNow'[key] = new
    BY <1>6, <2>2
  <2>4. \A k \in AggregateKey : k # key => accountsNow'[k] = accountsNow[k]
    BY <1>7, <2>2
  <2> HIDE DEF new
  <2>5. accountsNow' = [accountsNow EXCEPT ![key] = new]
    BY <2>1, <2>3, <2>4
  <2> QED BY <2>5 DEF new
<1>9. Cardinality((UNION {accountsNow[k].flows : k \in AggregateKey}) \cup {flow}) <= MaxFlows
  <2>1. UNION {accountsNow[k].flows : k \in AggregateKey} = agg.flows
    BY HeldFlowsAreTheFlows
  <2>2. Cardinality(agg'.flows) <= MaxFlows
    BY DEF FlowCountsAreDistinctFlows
  <2> QED BY <1>5, <2>1, <2>2
<1>10. Abstract!CreditAccount(flow, length)
  <2>1. Abstract!KeyOf(flow) = key /\ Abstract!AggregateKey = AggregateKey
    BY <1>3 DEF Abstract!KeyOf, KeyOf, Abstract!AggregateKey, AggregateKey, Protocol,
                Abstract!Protocol
  <2>2. Abstract!HeldFlows = UNION {accountsNow[k].flows : k \in AggregateKey}
    BY <2>1, Zenon DEF Abstract!HeldFlows, accountsNow
  <2>3. Abstract!Cardinality(Abstract!HeldFlows \cup {flow}) <= MaxFlows
    BY <1>9, <2>2, SameCardinality
  <2> QED BY <1>4, <1>8, <2>1, <2>3, Zenon DEF Abstract!CreditAccount, accountsNow
<1> QED BY <1>10

LEMMA ClosesTheWindow ==
  ASSUME TypeOK, FlowCountsAreDistinctFlows, NEW end \in Ends, Flush(end)
  PROVE  Abstract!CloseWindow(end)
<1>1. PICK records : records = FlushRecords(agg, end) /\ records = report'
  BY DEF Flush
<1>2. ToSet(records) = {Entry(k, end) : k \in DOMAIN agg.buckets}
  <2>1. /\ \A k \in DOMAIN agg.buckets : Entry(k, end) \in ToSet(records)
        /\ \A r \in ToSet(records) : \E k \in DOMAIN agg.buckets : r = Entry(k, end)
    BY <1>1, FlushListsTheBuckets
  <2> QED BY <2>1
<1>3. DOMAIN agg.buckets = {k \in AggregateKey : accountsNow[k].flows # {}}
  <2>1. \A k \in AggregateKey : accountsNow[k].flows = FlowsOfKey(agg.flows, k)
    BY AccountNow
  <2>2. DOMAIN agg.buckets \subseteq AggregateKey
    BY DEF TypeOK
  <2> HIDE DEF accountsNow
  <2> QED BY <2>1, <2>2 DEF FlowsOfKey, FlowCountsAreDistinctFlows
<1>4. ASSUME NEW k \in DOMAIN agg.buckets
      PROVE  Entry(k, end) =
               [timestamp |-> end,
                external_ip |-> k.external_ip, external_port |-> k.external_port,
                protocol |-> k.protocol,
                flow_count |-> Cardinality(accountsNow[k].flows),
                flow_byte_sum |-> accountsNow[k].bytes]
  <2>1. k \in AggregateKey
    BY DEF TypeOK
  <2>2. accountsNow[k].flows = FlowsOfKey(agg.flows, k) /\ accountsNow[k].bytes = agg.buckets[k].bytes
    BY <2>1, AccountNow DEF BucketAt
  <2>3. agg.buckets[k].count = Cardinality(accountsNow[k].flows)
    BY <2>2 DEF FlowCountsAreDistinctFlows
  <2> QED BY <2>2, <2>3 DEF Entry
<1>5. accountsNow' = [k \in AggregateKey |-> [flows |-> {}, bytes |-> 0]]
  <2>1. agg'.flows = {} /\ agg'.buckets = NoBuckets
    BY DEF Flush, Flushed, TypeOK
  <2>2. \A k \in AggregateKey : AccountOf(k)' = [flows |-> {}, bytes |-> 0]
    BY <2>1 DEF AccountOf, FlowsOfKey, BucketAt, NoBuckets
  <2> QED BY <2>2 DEF accountsNow
<1>6. ToSet(report') =
        {[timestamp |-> end,
          external_ip |-> k.external_ip, external_port |-> k.external_port,
          protocol |-> k.protocol,
          flow_count |-> Cardinality(accountsNow[k].flows),
          flow_byte_sum |-> accountsNow[k].bytes] :
             k \in {x \in AggregateKey : accountsNow[x].flows # {}}}
  <2> DEFINE line(k) ==
               [timestamp |-> end,
                external_ip |-> k.external_ip, external_port |-> k.external_port,
                protocol |-> k.protocol,
                flow_count |-> Cardinality(accountsNow[k].flows),
                flow_byte_sum |-> accountsNow[k].bytes]
  <2>1. \A k \in DOMAIN agg.buckets : Entry(k, end) = line(k)
    BY <1>4
  <2> HIDE DEF line
  <2>2. ToSet(report') = {line(k) : k \in DOMAIN agg.buckets}
    BY <1>1, <1>2, <2>1
  <2>3. ToSet(report') = {line(k) : k \in {x \in AggregateKey : accountsNow[x].flows # {}}}
    BY <1>3, <2>2
  <2> QED BY <2>3 DEF line
<1>7. Abstract!AggregateKey = AggregateKey
  BY DEF Abstract!AggregateKey, AggregateKey, Protocol, Abstract!Protocol
<1>8. ToSet(report') =
        {[timestamp |-> end,
          external_ip |-> k.external_ip, external_port |-> k.external_port,
          protocol |-> k.protocol,
          flow_count |-> Abstract!Cardinality(accountsNow[k].flows),
          flow_byte_sum |-> accountsNow[k].bytes] :
             k \in {x \in AggregateKey : accountsNow[x].flows # {}}}
  <2> HIDE DEF accountsNow
  <2> QED BY <1>6, SameCardinality
<1> QED BY <1>5, <1>7, <1>8, Zenon
        DEF Abstract!CloseWindow, Abstract!EmptyAccounts, accountsNow

(* Every behaviour of the Aggregator is one of the abstract accounts.      *)
THEOREM Refinement == Spec => ImplementsAccounts
<1> USE FlowAssumption, AggregatorAssumption
<1>1. Init => Abstract!AccountsInit
  <2> SUFFICES ASSUME Init PROVE Abstract!AccountsInit
    OBVIOUS
  <2>1. agg.flows = {} /\ agg.buckets = NoBuckets /\ ToSet(report) = {}
    BY DEF Init, NewAggregator, ToSet
  <2>2. \A k \in AggregateKey : AccountOf(k) = [flows |-> {}, bytes |-> 0]
    BY <2>1 DEF AccountOf, FlowsOfKey, BucketAt, NoBuckets
  <2> QED BY <2>1, <2>2 DEF Abstract!AccountsInit, Abstract!EmptyAccounts,
          Abstract!AggregateKey, AggregateKey, Protocol, Abstract!Protocol
<1>2. TypeOK /\ FlowCountsAreDistinctFlows /\ FlowCountsAreDistinctFlows' /\ [Next]_vars
        => [Abstract!AccountsNext]_(Abstract!accountVars)
  <2> SUFFICES ASSUME TypeOK, FlowCountsAreDistinctFlows, FlowCountsAreDistinctFlows', [Next]_vars
               PROVE  Abstract!AccountsNext \/ UNCHANGED Abstract!accountVars
    OBVIOUS
  <2>1. ASSUME agg'.flows = agg.flows, agg'.buckets = agg.buckets, report' = <<>>
        PROVE  Abstract!PassOver
    <3>1. \A k : AccountOf(k)' = AccountOf(k)
      BY <2>1 DEF AccountOf
    <3>2. [k \in AggregateKey |-> AccountOf(k)]' = [k \in AggregateKey |-> AccountOf(k)]
      BY <3>1
    <3>3. ToSet(report)' = {}
      BY <2>1 DEF ToSet
    <3> QED BY <3>2, <3>3 DEF Abstract!PassOver
  <2>2. ASSUME NEW p \in Packets, ObservePacket(p) PROVE Abstract!AccountsNext
    <3>1. CASE Accounted(agg, p) = "counted"
      <4>1. \E flow \in FlowKey, length \in Length : Abstract!CreditAccount(flow, length)
        BY <2>2, <3>1, CreditsAnAccount
      <4> QED BY <4>1 DEF Abstract!AccountsNext, Abstract!FlowKey, FlowKey,
                  Protocol, Abstract!Protocol
    <3>2. CASE Accounted(agg, p) # "counted"
      <4>1. agg' = agg /\ report' = <<>>
        BY <2>2, <3>2 DEF ObservePacket, Observe
      <4> QED BY <2>1, <4>1 DEF Abstract!AccountsNext
    <3> QED BY <3>1, <3>2
  <2>3. ASSUME NEW local \in LocalSets, NewAddresses(local) PROVE Abstract!AccountsNext
    <3>1. agg'.flows = agg.flows /\ agg'.buckets = agg.buckets /\ report' = <<>>
      BY <2>3 DEF NewAddresses, ReplaceLocal, TypeOK
    <3> QED BY <2>1, <3>1 DEF Abstract!AccountsNext
  <2>4. ASSUME NEW end \in Ends, Flush(end) PROVE Abstract!AccountsNext
    BY <2>4, ClosesTheWindow DEF Abstract!AccountsNext
  <2>5. CASE UNCHANGED vars
    <3>1. agg' = agg /\ report' = report
      BY <2>5 DEF vars
    <3>2. \A k : AccountOf(k)' = AccountOf(k)
      BY <3>1 DEF AccountOf
    <3> QED BY <3>1, <3>2 DEF Abstract!accountVars
  <2> QED BY <2>2, <2>3, <2>4, <2>5 DEF Next
<1> QED BY <1>1, <1>2, TypeCorrect, CountsCorrect, PTL
        DEF Spec, ImplementsAccounts, Abstract!AccountsSpec
=============================================================================
