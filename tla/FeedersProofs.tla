--------------------------- MODULE FeedersProofs ---------------------------
(***************************************************************************)
(* Proofs about Feeders.tla, for any number of requests, files and lines,  *)
(* however often posts fail and wherever lines are cut: what is read is    *)
(* kept, a line is stored again only after a failure, each after the lines *)
(* before it, and the replay's stream is a beginning of what it read.      *)
(***************************************************************************)
EXTENDS Feeders, FiniteSetTheorems, SequenceTheorems, TLAPS

-----------------------------------------------------------------------------
(* Numbers.                                                                *)

LEMMA LeastNumber ==
  ASSUME NEW T \in SUBSET Nat, T # {}
  PROVE  \E x \in T : \A y \in T : x <= y
<1>1. \E x \in T : \A y \in T : ~ (<<y, x>> \in OpToRel(<, Nat))
  BY WFMin, NatLessThanWellFounded
<1>2. PICK x \in T : \A y \in T : ~ (y < x)
  BY <1>1 DEF OpToRel
<1> QED BY <1>2

Smaller(S, i) == {j \in S : j < i}

(* In a finite set of numbers, each rank is that of exactly one.           *)
LEMMA NumberRanks ==
  ASSUME NEW S \in SUBSET Nat, IsFiniteSet(S)
  PROVE  /\ Cardinality(S) \in Nat
         /\ \A i \in S : Cardinality(Smaller(S, i)) \in 0..Cardinality(S) - 1
         /\ \A i, j \in S : i < j => Cardinality(Smaller(S, i)) < Cardinality(Smaller(S, j))
         /\ \A k \in 0..Cardinality(S) - 1 : \E i \in S : Cardinality(Smaller(S, i)) = k
<1>1. \A T \in SUBSET S : IsFiniteSet(T) /\ Cardinality(T) \in Nat
  BY FS_Subset, FS_CardinalityType
<1>2. Cardinality(S) \in Nat
  BY <1>1
<1>3. ASSUME NEW T \in SUBSET S, NEW U \in SUBSET T, U # T
      PROVE  Cardinality(U) < Cardinality(T)
  <2>1. Cardinality(U) <= Cardinality(T) /\ Cardinality(U) # Cardinality(T)
    BY <1>1, <1>3, FS_Subset
  <2>2. Cardinality(U) \in Nat /\ Cardinality(T) \in Nat
    BY <1>1
  <2> QED BY <2>1, <2>2
<1>4. ASSUME NEW i \in S
      PROVE  Cardinality(Smaller(S, i)) \in 0..Cardinality(S) - 1
  <2>1. Smaller(S, i) \in SUBSET S /\ Smaller(S, i) # S
    BY DEF Smaller
  <2>2. Cardinality(Smaller(S, i)) < Cardinality(S) /\ Cardinality(Smaller(S, i)) \in Nat
    BY <1>1, <1>3, <2>1
  <2> QED BY <1>2, <2>2
<1>5. ASSUME NEW i \in S, NEW j \in S, i < j
      PROVE  Cardinality(Smaller(S, i)) < Cardinality(Smaller(S, j))
  <2>1. Smaller(S, j) \in SUBSET S
    BY DEF Smaller
  <2>2. Smaller(S, i) \in SUBSET Smaller(S, j)
    <3>1. \A x \in S : x \in Nat
      OBVIOUS
    <3>2. \A x \in S : x < i => x < j
      BY <1>5, <3>1
    <3> QED BY <3>2 DEF Smaller
  <2>3. i \in Smaller(S, j) /\ i \notin Smaller(S, i)
    BY <1>5 DEF Smaller
  <2> QED BY <1>3, <2>1, <2>2, <2>3
<1> DEFINE K == 0..Cardinality(S) - 1
           rank == [i \in S |-> Cardinality(Smaller(S, i))]
<1>6. IsFiniteSet(K) /\ Cardinality(K) = Cardinality(S)
  <2>1. PICK n : n = Cardinality(S)
    OBVIOUS
  <2>2. n \in Nat /\ n - 1 \in Int /\ 0 \in Int
    BY <1>2, <2>1
  <2>3. IsFiniteSet(0..n - 1) /\ Cardinality(0..n - 1) = n
    BY <2>2, FS_Interval
  <2> QED BY <2>1, <2>3
<1>7. \A i \in S : rank[i] = Cardinality(Smaller(S, i)) /\ rank[i] \in K
  BY <1>4
<1>8. rank \in [S -> K]
  <2>1. rank = [i \in S |-> rank[i]]
    OBVIOUS
  <2> HIDE DEF rank
  <2> QED BY <1>7, <2>1
<1>9. \A i, j \in S : rank[i] = rank[j] => i = j
  <2> SUFFICES ASSUME NEW i \in S, NEW j \in S, rank[i] = rank[j], i # j PROVE FALSE
    OBVIOUS
  <2>1. i < j \/ j < i
    OBVIOUS
  <2>2. rank[i] < rank[j] \/ rank[j] < rank[i]
    BY <1>5, <1>7, <2>1
  <2>3. rank[i] \in Nat /\ rank[j] \in Nat
    BY <1>2, <1>7
  <2> HIDE DEF rank
  <2> QED BY <2>2, <2>3
<1> HIDE DEF rank, K
<1>10. rank \in Injection(S, K)
  BY <1>8, <1>9 DEF Injection, IsInjective
<1>11. rank \in Surjection(S, K)
  BY <1>6, <1>10, FS_Injection
<1>12. \A k \in K : \E i \in S : rank[i] = k
  BY <1>11 DEF Surjection
<1> QED BY <1>2, <1>4, <1>5, <1>7, <1>12 DEF K

-----------------------------------------------------------------------------
(* How the server cuts the pieces of a body into lines.                    *)

\* m lines, and where they end.
Marks(t, m) ==
  /\ m \in 0..Len(t)
  /\ \A k \in 0..m : Boundary(t, k) \in 0..Len(t)
  /\ Boundary(t, 0) = 0 /\ Boundary(t, m) = Len(t)
  /\ \A j, k \in 0..m : j < k => Boundary(t, j) < Boundary(t, k)
  /\ \A i \in 1..Len(t) : \E k \in 1..m : Boundary(t, k - 1) < i /\ i <= Boundary(t, k)

LEMMA BoundariesAreMarks ==
  ASSUME NEW P, NEW t \in Seq(P)
  PROVE  Marks(t, Cardinality(Boundaries(t)) - 1)
<1> DEFINE B == Boundaries(t)
           m == Cardinality(B) - 1
<1>1. /\ Len(t) \in Nat /\ B \in SUBSET (0..Len(t)) /\ B \in SUBSET Nat
      /\ 0 \in B /\ Len(t) \in B /\ \A i \in B : i \in 0..Len(t) /\ i \in Nat
  BY DEF Boundaries
<1>2. IsFiniteSet(B) /\ Cardinality(B) \in Nat /\ Cardinality(B) <= Len(t) + 1
  <2>1. IsFiniteSet(0..Len(t)) /\ Cardinality(0..Len(t)) = Len(t) + 1
    BY <1>1, FS_Interval
  <2> QED BY <1>1, <2>1, FS_Subset, FS_CardinalityType
<1> HIDE DEF B
<1>3. /\ \A i \in B : Cardinality(Smaller(B, i)) \in 0..Cardinality(B) - 1
      /\ \A i, j \in B : i < j => Cardinality(Smaller(B, i)) < Cardinality(Smaller(B, j))
      /\ \A k \in 0..Cardinality(B) - 1 : \E i \in B : Cardinality(Smaller(B, i)) = k
  BY <1>1, <1>2, NumberRanks
<1>4. Cardinality(B) # 0
  BY <1>1, <1>2, FS_EmptySet
<1>5. m \in 0..Len(t)
  BY <1>1, <1>2, <1>4
<1>6. ASSUME NEW k \in 0..m
      PROVE  Boundary(t, k) \in B /\ Cardinality(Smaller(B, Boundary(t, k))) = k
  <2>1. \E i \in B : Cardinality(Smaller(B, i)) = k
    BY <1>3, <1>6
  <2>2. Boundary(t, k) = CHOOSE i \in B : Cardinality(Smaller(B, i)) = k
    BY DEF Boundary, Smaller, B
  <2> QED BY <2>1, <2>2
<1> DEFINE rank == [i \in B |-> Cardinality(Smaller(B, i))]
<1>20. /\ \A i \in B : rank[i] \in Nat /\ rank[i] \in 0..m
       /\ \A i, j \in B : i < j => rank[i] < rank[j]
       /\ \A i \in B : rank[i] = Cardinality(Smaller(B, i))
  BY <1>3
<1> HIDE DEF rank
<1>21. ASSUME NEW i \in B, NEW j \in B, rank[i] <= rank[j]
       PROVE  i <= j
  <2>1. i \in Nat /\ j \in Nat /\ rank[i] \in Nat /\ rank[j] \in Nat
    BY <1>1, <1>20
  <2>2. j < i => rank[j] < rank[i]
    BY <1>20
  <2> QED BY <1>21, <2>1, <2>2
<1>22. \A k \in 0..m : Boundary(t, k) \in B /\ rank[Boundary(t, k)] = k /\ k \in Nat
  BY <1>5, <1>6, <1>20
<1>7. ASSUME NEW i \in B, NEW k \in 0..m, Cardinality(Smaller(B, i)) = k
      PROVE  Boundary(t, k) = i
  <2>1. PICK e : e = Boundary(t, k)
    OBVIOUS
  <2>2. e \in B /\ rank[e] = k /\ rank[i] = k /\ k <= k
    BY <1>7, <1>20, <1>22, <2>1
  <2>3. e <= i /\ i <= e /\ e \in Nat /\ i \in Nat
    BY <1>1, <1>21, <2>2
  <2> QED BY <2>1, <2>3
<1>8. ASSUME NEW j \in 0..m, NEW k \in 0..m, j < k
      PROVE  Boundary(t, j) < Boundary(t, k)
  <2>1. PICK d : d = Boundary(t, j)
    OBVIOUS
  <2>2. PICK e : e = Boundary(t, k)
    OBVIOUS
  <2>3. d \in B /\ e \in B /\ rank[d] = j /\ rank[e] = k /\ j <= k /\ j # k
    BY <1>8, <1>22, <2>1, <2>2
  <2>4. d <= e /\ d # e /\ d \in Nat /\ e \in Nat
    BY <1>1, <1>21, <2>3
  <2> QED BY <2>1, <2>2, <2>4
<1>9. Boundary(t, 0) = 0
  <2>1. \A j \in B : ~(j < 0)
    <3>1. \A j \in B : j \in Nat
      BY <1>1
    <3> QED BY <3>1
  <2>3. Smaller(B, 0) = {}
    BY <2>1 DEF Smaller
  <2>2. Cardinality(Smaller(B, 0)) = 0
    BY <2>3, FS_EmptySet
  <2> QED BY <1>1, <1>5, <1>7, <2>2
<1>10. Boundary(t, m) = Len(t)
  <2>1. PICK k : k = Cardinality(Smaller(B, Len(t)))
    OBVIOUS
  <2>2. k \in 0..m /\ Boundary(t, k) = Len(t)
    BY <1>1, <1>3, <1>7, <2>1
  <2>3. Boundary(t, m) \in 0..Len(t)
    <3>1. m \in 0..m
      BY <1>1, <1>5
    <3> QED BY <1>1, <1>22, <3>1
  <2>4. k = m \/ Boundary(t, k) < Boundary(t, m)
    BY <1>5, <1>8, <2>2
  <2> QED BY <1>1, <2>2, <2>3, <2>4
<1>11. ASSUME NEW i \in 1..Len(t)
       PROVE  \E k \in 1..m : Boundary(t, k - 1) < i /\ i <= Boundary(t, k)
  <2> DEFINE T == {k \in 0..m : i <= Boundary(t, k)}
  <2>1. T \in SUBSET Nat /\ m \in T
    BY <1>1, <1>5, <1>10
  <2>2. PICK k \in T : \A j \in T : k <= j
    BY <2>1, LeastNumber
  <2>3. k \in 0..m /\ i <= Boundary(t, k)
    BY <2>2
  <2>4. k # 0
    BY <1>1, <1>9, <2>3
  <2>5. k \in 1..m /\ k - 1 \in 0..m /\ ~(k <= k - 1)
    BY <1>5, <2>3, <2>4
  <2>6. ~(i <= Boundary(t, k - 1)) /\ Boundary(t, k - 1) \in Nat
    BY <1>1, <1>6, <2>2, <2>5
  <2> QED BY <2>3, <2>5, <2>6
<1>12. \A k \in 0..m : Boundary(t, k) \in 0..Len(t)
  BY <1>1, <1>6
<1>13. Marks(t, m)
  BY <1>5, <1>8, <1>9, <1>10, <1>11, <1>12 DEF Marks
<1> QED BY <1>13 DEF B

\* The place in t of a piece of its k-th line.
Place(t, k, x) == Boundary(t, k - 1) + x

LEMMA SplitShape ==
  ASSUME NEW t \in Seq(Piece)
  PROVE  /\ Split(t) \in Seq(Seq(Piece))
         /\ Marks(t, Len(Split(t)))
         /\ \A k \in 1..Len(Split(t)) :
              /\ Len(Split(t)[k]) = Boundary(t, k) - Boundary(t, k - 1)
              /\ \A x \in 1..Len(Split(t)[k]) : Split(t)[k][x] = t[Place(t, k, x)]
<1> DEFINE m == Cardinality(Boundaries(t)) - 1
<1>1. Marks(t, m) /\ Len(t) \in Nat
  BY BoundariesAreMarks
<1>2. m \in Nat /\ m <= Len(t)
  BY <1>1 DEF Marks
<1> DEFINE line(k) == SubSeq(t, Boundary(t, k - 1) + 1, Boundary(t, k))
<1>3. Split(t) = [k \in 1..m |-> line(k)]
  BY DEF Split
<1>4. ASSUME NEW k \in 1..m
      PROVE  /\ line(k) \in Seq(Piece)
             /\ Len(line(k)) = Boundary(t, k) - Boundary(t, k - 1)
             /\ \A x \in 1..Len(line(k)) : line(k)[x] = t[Place(t, k, x)]
  <2>1. k - 1 \in 0..m /\ k \in 0..m /\ k - 1 < k
    BY <1>2
  <2>2. PICK a : a = Boundary(t, k - 1)
    OBVIOUS
  <2>3. PICK b : b = Boundary(t, k)
    OBVIOUS
  <2>4. a \in Nat /\ b \in Nat /\ a < b /\ b <= Len(t)
    BY <1>1, <2>1, <2>2, <2>3 DEF Marks
  <2>5. /\ SubSeq(t, a + 1, b) \in Seq(Piece) /\ Len(SubSeq(t, a + 1, b)) = b - a
        /\ \A x \in 1..b - a : SubSeq(t, a + 1, b)[x] = t[a + x]
    BY <2>4
  <2> QED BY <2>2, <2>3, <2>5 DEF Place
<1> HIDE DEF m, line
<1>5. Len(Split(t)) = m /\ Split(t) \in Seq(Seq(Piece)) /\ \A k \in 1..m : Split(t)[k] = line(k)
  BY <1>2, <1>3, <1>4
<1> QED BY <1>1, <1>4, <1>5

\* As far as it has lines, a body has those of the text t in their order.
LinesFrom(t, b) ==
  /\ b \in Seq(Seq(Piece))
  /\ \A k \in 1..Len(b) : b[k] # <<>> =>
       \A j \in 1..k : j <= Len(Split(t)) /\ b[j] = Split(t)[j]

LEMMA WholeArrival ==
  ASSUME NEW t \in Seq(Piece)
  PROVE  LinesFrom(t, Split(t))
BY SplitShape DEF LinesFrom

CutAfter(t, k) == Append(SubSeq(Split(t), 1, k), <<>>)

LEMMA CutArrival ==
  ASSUME NEW t \in Seq(Piece), NEW k \in 0..Len(Split(t)) - 1
  PROVE  LinesFrom(t, CutAfter(t, k))
<1> DEFINE S == Seq(Piece)
           s == Split(t)
<1>1. s \in Seq(S) /\ Len(s) \in Nat /\ k \in Nat /\ k <= Len(s) /\ <<>> \in S
  BY SplitShape
<1> HIDE DEF S, s
<1>2. PICK c : c = SubSeq(s, 1, k)
  OBVIOUS
<1>3. c \in Seq(S) /\ Len(c) = k /\ \A j \in 1..k : c[j] = s[j]
  BY <1>1, <1>2
<1>4. PICK b : b = Append(c, <<>>)
  OBVIOUS
<1>5. b \in Seq(S) /\ Len(b) = k + 1 /\ b[k + 1] = <<>> /\ \A j \in 1..k : b[j] = c[j]
  BY <1>1, <1>3, <1>4
<1>6. \A i \in 1..Len(b) : b[i] # <<>> => \A j \in 1..i : j <= Len(s) /\ b[j] = s[j]
  BY <1>1, <1>3, <1>5
<1> QED BY <1>2, <1>4, <1>5, <1>6 DEF LinesFrom, CutAfter, S, s

\* The first piece of a line that is not blank, and what comes before it.
LEMMA LinesInOrder ==
  ASSUME NEW t \in Seq(Piece), NEW b, LinesFrom(t, b),
         NEW k \in 1..Len(b), b[k] # <<>>
  PROVE  /\ \A x \in 1..Len(b[k]) :
              Place(t, k, x) \in 1..Len(t) /\ b[k][x] = t[Place(t, k, x)]
         /\ Len(b[k]) > 0
         /\ \A j \in 1..Place(t, k, 1) - 1 :
              \E n \in 1..k - 1 : \E x \in 1..Len(b[n]) : b[n][x] = t[j]
         /\ \A n \in 1..k - 1 : \A x \in 1..Len(b[n]) : Place(t, n, x) < Place(t, k, 1)
<1> DEFINE s == Split(t)
<1>1. /\ k <= Len(s) /\ \A j \in 1..k : b[j] = s[j]
      /\ Len(b) \in Nat /\ k \in Nat /\ Len(t) \in Nat
  BY DEF LinesFrom
<1>20. /\ s \in Seq(Seq(Piece)) /\ Marks(t, Len(s))
       /\ \A j \in 1..Len(s) :
            /\ Len(s[j]) = Boundary(t, j) - Boundary(t, j - 1)
            /\ \A x \in 1..Len(s[j]) : s[j][x] = t[Place(t, j, x)]
  BY SplitShape
<1> HIDE DEF s
<1>2. /\ s \in Seq(Seq(Piece)) /\ Len(s) \in Nat /\ Marks(t, Len(s))
      /\ \A j \in 1..Len(s) :
           /\ Len(s[j]) = Boundary(t, j) - Boundary(t, j - 1)
           /\ \A x \in 1..Len(s[j]) : s[j][x] = t[Place(t, j, x)]
  BY <1>20
<1>3. \A j \in 0..Len(s) : Boundary(t, j) \in Nat /\ Boundary(t, j) <= Len(t)
  BY <1>1, <1>2 DEF Marks
<1>4. ASSUME NEW n \in 1..Len(s), NEW x \in 1..Len(s[n])
      PROVE  Place(t, n, x) \in 1..Len(t) /\ Place(t, n, x) <= Boundary(t, n)
  <2>1. n - 1 \in 0..Len(s) /\ n \in 0..Len(s)
    BY <1>2
  <2>2. PICK d : d = Boundary(t, n - 1)
    OBVIOUS
  <2>3. PICK e : e = Boundary(t, n)
    OBVIOUS
  <2>4. d \in Nat /\ e \in Nat /\ e <= Len(t)
    BY <1>3, <2>1, <2>2, <2>3
  <2>5. x \in 1..e - d
    BY <1>2, <2>2, <2>3
  <2> QED BY <1>1, <2>2, <2>3, <2>4, <2>5, SMTT(30) DEF Place
<1>5. ASSUME NEW x \in 1..Len(b[k])
      PROVE  Place(t, k, x) \in 1..Len(t) /\ b[k][x] = t[Place(t, k, x)]
  <2>1. k \in 1..Len(s) /\ b[k] = s[k]
    BY <1>1
  <2> QED BY <1>2, <1>4, <2>1
<1>6. Len(b[k]) > 0
  <2>1. b[k] \in Seq(Piece)
    BY <1>1 DEF LinesFrom
  <2> QED BY <2>1
<1>7. PICK e : e = Boundary(t, k - 1)
  OBVIOUS
<1>8. e \in Nat /\ Place(t, k, 1) = e + 1
  BY <1>1, <1>2, <1>3, <1>7 DEF Place
<1>9. ASSUME NEW n \in 1..k - 1
      PROVE  Boundary(t, n) <= e
  <2>1. n \in 0..Len(s) /\ k - 1 \in 0..Len(s) /\ (n = k - 1 \/ n < k - 1)
    BY <1>1, <1>2
  <2>2. Boundary(t, n) \in Nat
    BY <1>3, <2>1
  <2>3. n < k - 1 => Boundary(t, n) < Boundary(t, k - 1)
    BY <1>2, <2>1 DEF Marks
  <2> QED BY <1>7, <1>8, <2>1, <2>2, <2>3
<1>10. ASSUME NEW n \in 1..k - 1, NEW x \in 1..Len(b[n])
       PROVE  Place(t, n, x) < Place(t, k, 1)
  <2>1. n \in 1..Len(s) /\ b[n] = s[n] /\ n \in 0..Len(s)
    BY <1>1, <1>2
  <2>2. Place(t, n, x) <= Boundary(t, n) /\ Place(t, n, x) \in Nat /\ Boundary(t, n) \in Nat
    BY <1>3, <1>4, <2>1
  <2> QED BY <1>8, <1>9, <2>2
<1>11. ASSUME NEW j \in 1..e
       PROVE  \E n \in 1..k - 1 : \E x \in 1..Len(b[n]) : b[n][x] = t[j]
  <2>1. j \in 1..Len(t)
    BY <1>1, <1>2, <1>3, <1>7
  <2>2. PICK n \in 1..Len(s) : Boundary(t, n - 1) < j /\ j <= Boundary(t, n)
    BY <1>2, <2>1 DEF Marks
  <2>3. PICK d : d = Boundary(t, n - 1)
    OBVIOUS
  <2>4. d \in Nat /\ n \in Nat
    <3>1. n - 1 \in 0..Len(s) /\ n \in Nat
      BY <1>2
    <3> QED BY <1>3, <2>3, <3>1
  <2>5. n <= k - 1
    <3>1. SUFFICES ASSUME n > k - 1 PROVE FALSE
      BY <1>1, <2>4
    <3>2. n - 1 \in 0..Len(s) /\ k - 1 \in 0..Len(s) /\ (n - 1 = k - 1 \/ k - 1 < n - 1)
      BY <1>1, <1>2, <2>4, <3>1
    <3>3. k - 1 < n - 1 => Boundary(t, k - 1) < Boundary(t, n - 1)
      BY <1>2, <3>2 DEF Marks
    <3>4. e <= d
      BY <1>7, <1>8, <2>3, <2>4, <3>2, <3>3
    <3> QED BY <1>8, <2>2, <2>3, <2>4, <3>4
  <2>6. PICK c : c = Boundary(t, n)
    OBVIOUS
  <2>7. c \in Nat /\ Len(s[n]) = c - d /\ d < j /\ j <= c
    BY <1>2, <1>3, <2>2, <2>3, <2>6
  <2>8. j - d \in 1..Len(s[n]) /\ Place(t, n, j - d) = j
    BY <2>3, <2>4, <2>7 DEF Place
  <2>9. b[n] = s[n] /\ n \in 1..k - 1
    BY <1>1, <2>4, <2>5
  <2>10. b[n][j - d] = t[j] /\ j - d \in 1..Len(b[n])
    BY <1>2, <2>8, <2>9
  <2> QED BY <2>9, <2>10
<1>12. \A j \in 1..Place(t, k, 1) - 1 :
         \E n \in 1..k - 1 : \E x \in 1..Len(b[n]) : b[n][x] = t[j]
  BY <1>8, <1>11, SMTT(30)
<1> QED BY <1>5, <1>6, <1>10, <1>12

\* Every piece is in a line.
LEMMA SplitCovers ==
  ASSUME NEW t \in Seq(Piece), NEW i \in 1..Len(t)
  PROVE  \E k \in 1..Len(Split(t)) : \E x \in 1..Len(Split(t)[k]) : Split(t)[k][x] = t[i]
<1> DEFINE s == Split(t)
<1>10. /\ s \in Seq(Seq(Piece)) /\ Marks(t, Len(s))
       /\ \A j \in 1..Len(s) :
            /\ Len(s[j]) = Boundary(t, j) - Boundary(t, j - 1)
            /\ \A x \in 1..Len(s[j]) : s[j][x] = t[Place(t, j, x)]
  BY SplitShape
<1> HIDE DEF s
<1>1. /\ Len(s) \in Nat /\ Marks(t, Len(s))
      /\ \A j \in 1..Len(s) :
           /\ Len(s[j]) = Boundary(t, j) - Boundary(t, j - 1)
           /\ \A x \in 1..Len(s[j]) : s[j][x] = t[Place(t, j, x)]
  BY <1>10
<1>2. PICK k \in 1..Len(s) : Boundary(t, k - 1) < i /\ i <= Boundary(t, k)
  BY <1>1 DEF Marks
<1>3. PICK d : d = Boundary(t, k - 1)
  OBVIOUS
<1>4. PICK c : c = Boundary(t, k)
  OBVIOUS
<1>5. k - 1 \in 0..Len(s) /\ k \in 0..Len(s)
  BY <1>1
<1>9. d \in Nat /\ c \in Nat
  <2>1. \A j \in 0..Len(s) : Boundary(t, j) \in Nat
    BY <1>1 DEF Marks
  <2> QED BY <1>3, <1>4, <1>5, <2>1
<1>6. d \in Nat /\ c \in Nat /\ d < i /\ i <= c /\ Len(s[k]) = c - d
  BY <1>1, <1>2, <1>3, <1>4, <1>9
<1>7. i - d \in 1..Len(s[k]) /\ Place(t, k, i - d) = i
  BY <1>3, <1>6 DEF Place
<1>8. s[k][i - d] = t[i]
  BY <1>1, <1>7
<1> QED BY <1>7, <1>8 DEF s

-----------------------------------------------------------------------------
(* The server, the files and the post under way, whichever tool runs.      *)

Half == {"no", "head", "bare"}
State == [step : Step, body : Seq(Seq(Piece)), accepted : Nat, answer : Answers]
Entry == [from : Requests, line : Objects]

\* A request that is not made is new; no more lines are accepted than there
\* are, all of them objects, and all there are before a 202.
RequestOk(q) ==
  /\ q \in State
  /\ q.step \in {"none", "adding", "answered"}
  /\ q.step = "none" => q = NotMade
  /\ q.step = "adding" => q.answer = 0
  /\ q.step = "answered" => q.answer # 0
  /\ q.answer = 413 => q.accepted = 0
  /\ q.accepted <= Len(q.body)
  /\ \A k \in 1..q.accepted : q.body[k] \in Objects
  /\ q.answer = 202 => q.accepted = Len(q.body)

ServerInv ==
  /\ request \in [Requests -> State] /\ text \in [Requests -> Seq(Piece)]
  /\ \A r \in Requests :
       RequestOk(request[r]) /\ (text[r] # <<>> => request[r].step = "none")
  /\ stream \in Seq(Entry)
  /\ faults \in Nat

FilesInv ==
  /\ file \in [Files -> [complete : Nat, half : Half]]
  /\ \A f \in Files :
       /\ file[f].complete <= MaxLines[f]
       /\ file[f].half # "no" => file[f].complete < MaxLines[f]

\* What was sent is on its way, or the request has arrived with it.
PostInv ==
  /\ pending \in Seq(Piece) /\ chunk \in Seq(Piece) /\ post \in Requests \cup {None}
  /\ IF post = None THEN chunk = <<>>
     ELSE /\ chunk # <<>>
          /\ text[post] # <<>> => text[post] = chunk
          /\ text[post] = <<>> =>
               /\ request[post].step # "none"
               /\ request[post].answer # 413 => request[post].body = Split(chunk)

\* The steps of a request, for its thread and for the stream.
Becomes(r, q) == request' = [request EXCEPT ![r] = q]
Emptied(r) == text[r] # <<>> /\ text' = [text EXCEPT ![r] = <<>>]
Asked(b) == [step |-> "adding", body |-> b, accepted |-> 0, answer |-> 0]
Following(q) == q.body[q.accepted + 1]
Added(r, line) == stream' = Append(stream, [from |-> r, line |-> line])

Arrives(r, b) ==
  /\ Emptied(r) /\ request[r].step = "none" /\ Becomes(r, Asked(b))
  /\ LinesFrom(text[r], b) /\ (r = post => b = Split(text[r]))
  /\ UNCHANGED <<stream, faults>>
Vanishes(r) == Emptied(r) /\ r # post /\ UNCHANGED <<stream, request, faults>>
TooLong(r) ==
  /\ Emptied(r) /\ request[r].step = "none"
  /\ Becomes(r, [step |-> "answered", body |-> <<>>, accepted |-> 0, answer |-> 413])
  /\ UNCHANGED <<stream, faults>>
Stores(r, line) ==
  /\ request[r].step = "adding" /\ request[r].accepted < Len(request[r].body)
  /\ line = Following(request[r]) /\ line \in Objects
  /\ Added(r, line)
  /\ Becomes(r, [request[r] EXCEPT !.accepted = @ + 1])
  /\ UNCHANGED <<text, faults>>
Ending(r, code) ==
  /\ request[r].step = "adding"
  /\ Becomes(r, [request[r] EXCEPT !.step = "answered", !.answer = code])
  /\ UNCHANGED text
Ends(r, code) ==
  /\ Ending(r, code) /\ code \in {202, 400, 503}
  /\ code = 202 => request[r].accepted = Len(request[r].body)
  /\ faults' = faults + (IF code = 503 THEN 1 ELSE 0)
  /\ UNCHANGED stream
EndsUnsure(r, line) ==
  /\ Ending(r, 503)
  /\ request[r].accepted < Len(request[r].body)
  /\ line = Following(request[r]) /\ line \in Objects
  /\ Added(r, line)
  /\ faults' = faults + 1
Freed(r) ==
  /\ request[r].step = "answered" /\ r # post /\ Becomes(r, NotMade)
  /\ UNCHANGED <<stream, text, faults>>

RequestStep(r) ==
  \/ \E b : Arrives(r, b)
  \/ Vanishes(r) \/ TooLong(r)
  \/ \E line : Stores(r, line) \/ EndsUnsure(r, line)
  \/ \E code : Ends(r, code)
  \/ Freed(r)
Framed == UNCHANGED <<file, pending, chunk, post>>

LEMMA FromNotMade ==
  ASSUME NEW b
  PROVE  /\ [[NotMade EXCEPT !.step = "adding"] EXCEPT !.body = b] = Asked(b)
         /\ [NotMade EXCEPT !.step = "answered", !.answer = 413] =
              [step |-> "answered", body |-> <<>>, accepted |-> 0, answer |-> 413]
<1>1. PICK e : e = <<>>
  OBVIOUS
<1>2. PICK q : q = [step |-> "none", body |-> e, accepted |-> 0, answer |-> 0]
  OBVIOUS
<1>3. q = NotMade
  BY <1>1, <1>2 DEF NotMade
<1> DEFINE S == [step : {"none", "adding", "answered"}, body : {e, b}, accepted : {0},
                 answer : {0, 413}]
<1>4. \A x \in S : x = [step |-> x.step, body |-> x.body, accepted |-> x.accepted,
                        answer |-> x.answer]
  OBVIOUS
<1>5. q \in S /\ q.step = "none" /\ q.body = e /\ q.accepted = 0 /\ q.answer = 0
  BY <1>2
<1>6. PICK p : p = [q EXCEPT !.step = "adding"]
  OBVIOUS
<1>7. p \in S /\ p.step = "adding" /\ p.body = e /\ p.accepted = 0 /\ p.answer = 0
  BY <1>5, <1>6
<1>8. PICK o : o = [p EXCEPT !.body = b]
  OBVIOUS
<1>9. o \in S /\ o.step = "adding" /\ o.body = b /\ o.accepted = 0 /\ o.answer = 0
  BY <1>7, <1>8
<1>10. PICK u : u = [q EXCEPT !.step = "answered", !.answer = 413]
  OBVIOUS
<1>11. u \in S /\ u.step = "answered" /\ u.body = e /\ u.accepted = 0 /\ u.answer = 413
  BY <1>5, <1>10, ZenonT(30)
<1> HIDE DEF S
<1>12. o = [step |-> "adding", body |-> b, accepted |-> 0, answer |-> 0]
  BY <1>4, <1>9
<1>13. u = [step |-> "answered", body |-> e, accepted |-> 0, answer |-> 413]
  BY <1>4, <1>11
<1> QED BY <1>1, <1>3, <1>6, <1>8, <1>10, <1>12, <1>13 DEF Asked

LEMMA PostingSteps ==
  ASSUME ServerInv, PostInv, PostingStep
  PROVE  \/ \E f \in Files : Write(f)
         \/ Framed /\ \E r \in Requests : RequestStep(r)
<1>1. CASE \E f \in Files : Write(f)
  BY <1>1
<1>2. ASSUME NEW r \in Requests, Server(r) \/ ReachInPart(r) \/ ServeFails(r)
      PROVE  Framed /\ RequestStep(r)
  <2>1. request[r] \in State /\ text[r] \in Seq(Piece) /\ request \in [Requests -> State]
    BY DEF ServerInv
  <2>2. RequestOk(request[r])
    BY DEF ServerInv
  <2>3. request[r] = [step |-> request[r].step, body |-> request[r].body,
                      accepted |-> request[r].accepted, answer |-> request[r].answer]
    BY <2>1 DEF State
  <2>4. ASSUME NEW b, Arrive(r, b)
        PROVE  request[r].step = "none" /\ Becomes(r, Asked(b)) /\ UNCHANGED stream
    <3>1. request[r] = NotMade
      BY <2>2, <2>4 DEF Arrive, RequestOk
    <3>2. [[request[r] EXCEPT !.step = "adding"] EXCEPT !.body = b] = Asked(b)
      BY <3>1, FromNotMade
    <3>3. request' = [request EXCEPT ![r].step = "adding", ![r].body = b]
      BY <2>4 DEF Arrive
    <3>4. request' = [request EXCEPT ![r] = [[request[r] EXCEPT !.step = "adding"] EXCEPT !.body = b]]
      BY <2>1, <3>3
    <3> QED BY <2>4, <3>2, <3>4 DEF Arrive, Becomes
  <2>5. ASSUME NEW code, Answer(r, code)
        PROVE  Becomes(r, [request[r] EXCEPT !.step = "answered", !.answer = code])
    BY <2>1, <2>5 DEF Answer, Becomes
  <2>6. CASE Reach(r)
    <3>1. Emptied(r) /\ Framed /\ UNCHANGED faults
      BY <2>6 DEF Reach, Emptied, Framed
    <3>2. CASE Len(text[r]) > MaxBody
      <4>1. RefuseLength(r)
        BY <2>6, <3>2 DEF Reach
      <4>2. request[r] = NotMade
        BY <2>2, <4>1 DEF RefuseLength, RequestOk
      <4>3. [NotMade EXCEPT !.step = "answered", !.answer = 413] =
              [step |-> "answered", body |-> <<>>, accepted |-> 0, answer |-> 413]
        BY FromNotMade
      <4>5. request[r].step = "none" /\ Answer(r, 413) /\ UNCHANGED stream
        BY <4>1 DEF RefuseLength
      <4>6. Becomes(r, [request[r] EXCEPT !.step = "answered", !.answer = 413])
        BY <2>5, <4>5, ZenonT(30)
      <4>4. TooLong(r)
        BY <3>1, <4>2, <4>3, <4>5, <4>6 DEF TooLong
      <4> QED BY <3>1, <4>4 DEF RequestStep
    <3>3. CASE ~(Len(text[r]) > MaxBody)
      <4>1. Arrive(r, Split(text[r]))
        BY <2>6, <3>3 DEF Reach
      <4>2. LinesFrom(text[r], Split(text[r]))
        BY <2>1, WholeArrival
      <4>3. Arrives(r, Split(text[r]))
        BY <2>4, <3>1, <4>1, <4>2 DEF Arrives
      <4> QED BY <3>1, <4>3 DEF RequestStep
    <3> QED BY <3>2, <3>3
  <2>7. CASE ReachInPart(r)
    <3>1. Emptied(r) /\ Framed /\ UNCHANGED faults /\ r # post
      BY <2>7 DEF ReachInPart, Emptied, Framed
    <3>2. CASE UNCHANGED ingestVars
      <4>1. Vanishes(r)
        BY <3>1, <3>2 DEF ingestVars, Vanishes
      <4> QED BY <3>1, <4>1 DEF RequestStep
    <3>3. CASE ~UNCHANGED ingestVars
      <4>1. PICK k \in 0..Len(Split(text[r])) - 1 : Arrive(r, CutAfter(text[r], k))
        BY <2>7, <3>3 DEF ReachInPart, CutAfter
      <4>2. LinesFrom(text[r], CutAfter(text[r], k))
        BY <2>1, CutArrival
      <4>3. Arrives(r, CutAfter(text[r], k))
        BY <2>4, <3>1, <4>1, <4>2 DEF Arrives
      <4> QED BY <3>1, <4>3 DEF RequestStep
    <3> QED BY <3>2, <3>3
  <2>8. ASSUME AddLine(r), UNCHANGED <<text, faults>>
        PROVE  RequestStep(r)
    <3>1. request' = [request EXCEPT ![r] = [request[r] EXCEPT !.accepted = @ + 1]]
      BY <2>1, <2>8 DEF AddLine
    <3>2. Stores(r, Following(request[r]))
      BY <2>8, <3>1 DEF AddLine, Unread, NextLine, Stores, Following, Added, Becomes
    <3> QED BY <3>2 DEF RequestStep
  <2>9. ASSUME NEW code, Answer(r, code), request[r].step = "adding", UNCHANGED <<stream, text>>,
               code \in {202, 400, 503},
               code = 202 => request[r].accepted = Len(request[r].body),
               faults' = faults + (IF code = 503 THEN 1 ELSE 0)
        PROVE  RequestStep(r)
    <3>1. Ends(r, code)
      BY <2>5, <2>9 DEF Ends, Ending
    <3> QED BY <3>1 DEF RequestStep
  <2>10. CASE Serve(r)
    <3>1. Framed /\ UNCHANGED <<text, faults>> /\ faults \in Nat
      BY <2>10 DEF Serve, Framed, ServerInv
    <3>2. CASE AddLine(r)
      BY <2>8, <3>1, <3>2
    <3>3. CASE RefuseLine(r)
      <4>1. Answer(r, 400) /\ request[r].step = "adding" /\ UNCHANGED <<stream, text>>
            /\ faults' = faults + (IF 400 = 503 THEN 1 ELSE 0)
        BY <3>1, <3>3 DEF RefuseLine, Unread
      <4> QED BY <2>9, <3>1, <4>1
    <3>4. CASE AllRead(r) /\ Answer(r, 202) /\ UNCHANGED stream
      <4>1. request[r].step = "adding" /\ request[r].accepted = Len(request[r].body)
            /\ faults' = faults + (IF 202 = 503 THEN 1 ELSE 0)
        BY <3>1, <3>4 DEF AllRead
      <4> QED BY <2>9, <3>1, <3>4, <4>1
    <3> QED BY <2>10, <3>2, <3>3, <3>4 DEF Serve
  <2>11. CASE ServeFails(r)
    <3>1. Framed /\ UNCHANGED text /\ faults' = faults + 1
      BY <2>11 DEF ServeFails, Framed
    <3>2. CASE AddFails(r) /\ UNCHANGED stream
      <4>1. Answer(r, 503) /\ request[r].step = "adding"
        BY <3>2 DEF AddFails, Unread
      <4> QED BY <2>9, <3>1, <3>2, <4>1
    <3>3. CASE AddFails(r) /\ ~UNCHANGED stream
      <4>1. EndsUnsure(r, Following(request[r]))
        BY <2>5, <3>1, <3>3, ZenonT(30)
           DEF AddFails, Unread, NextLine, EndsUnsure, Ending, Following, Added
      <4> QED BY <3>1, <4>1 DEF RequestStep
    <3>4. CASE AllRead(r) /\ Answer(r, 503) /\ UNCHANGED stream
      <4>1. request[r].step = "adding"
        BY <3>4 DEF AllRead
      <4> QED BY <2>9, <3>1, <3>4, <4>1
    <3> QED BY <2>11, <3>2, <3>3, <3>4 DEF ServeFails
  <2>12. CASE Unheard(r)
    <3>1. Framed /\ Freed(r)
      BY <2>12 DEF Unheard, Framed, Freed, Becomes
    <3> QED BY <3>1 DEF RequestStep
  <2> QED BY <1>2, <2>6, <2>7, <2>10, <2>11, <2>12 DEF Server
<1> QED BY <1>1, <1>2 DEF PostingStep

LEMMA ObjectShape ==
  ASSUME NEW o \in Objects
  PROVE  /\ o \in Seq(Piece) /\ o # <<>> /\ Len(o) \in {1, 2}
         /\ o[1] \in Piece /\ o[1].part \in {"whole", "bare", "head"}
         /\ Len(o) = 1 => o[1].part \in {"whole", "bare"}
         /\ Len(o) = 2 => o[1].part = "head" /\ o[2].part = "tail"
         /\ \A x \in 1..Len(o) : o[x] \in Piece /\ o[x].line = o[1].line
<1>1. o \in Records
  BY RecordsAssumption
<1>2. CASE \E p \in [line : FileLines \ BadLines, part : {"whole", "bare"}] : o = <<p>>
  <2>1. PICK p \in [line : FileLines \ BadLines, part : {"whole", "bare"}] : o = <<p>>
    BY <1>2
  <2>2. p \in Piece /\ p.part \in {"whole", "bare"}
    BY DEF Piece, Part
  <2> QED BY <2>1, <2>2
<1>3. CASE \E l \in FileLines \ BadLines :
             o = <<[line |-> l, part |-> "head"], [line |-> l, part |-> "tail"]>>
  <2>1. PICK l \in FileLines \ BadLines :
          o = <<[line |-> l, part |-> "head"], [line |-> l, part |-> "tail"]>>
    BY <1>3
  <2>2. PICK p : p = [line |-> l, part |-> "head"]
    OBVIOUS
  <2>3. PICK q : q = [line |-> l, part |-> "tail"]
    OBVIOUS
  <2>4. /\ p \in Piece /\ p.part = "head" /\ p.line = l
        /\ q \in Piece /\ q.part = "tail" /\ q.line = l
    BY <2>2, <2>3 DEF Piece, Part
  <2>5. o = <<p, q>>
    BY <2>1, <2>2, <2>3
  <2> QED BY <2>4, <2>5
<1> QED BY <1>1, <1>2, <1>3 DEF Records

(* An object of a body begins with a piece of the text.                     *)
LEMMA LineInText ==
  ASSUME NEW t \in Seq(Piece), NEW b, LinesFrom(t, b), NEW k \in 1..Len(b), b[k] \in Objects
  PROVE  \E i \in 1..Len(t) : t[i] = b[k][1]
<1>1. b[k] # <<>> /\ b[k] \in Seq(Piece)
  BY ObjectShape
<1>2. /\ \A x \in 1..Len(b[k]) : Place(t, k, x) \in 1..Len(t) /\ b[k][x] = t[Place(t, k, x)]
      /\ Len(b[k]) > 0
  BY <1>1, LinesInOrder
<1>3. 1 \in 1..Len(b[k])
  BY <1>1, <1>2
<1>4. Place(t, k, 1) \in 1..Len(t) /\ b[k][1] = t[Place(t, k, 1)]
  BY <1>2, <1>3
<1> QED BY <1>4

LEMMA NotMadeOk == RequestOk(NotMade)
<1>1. <<>> \in Seq(Seq(Piece)) /\ Len(<<>>) = 0
  OBVIOUS
<1>2. PICK e : e = <<>>
  OBVIOUS
<1>3. NotMade \in State
  BY <1>1 DEF NotMade, State, Step, Answers
<1>4. NotMade.step = "none" /\ NotMade.body = e /\ NotMade.accepted = 0 /\ NotMade.answer = 0
  BY <1>2 DEF NotMade
<1> QED BY <1>1, <1>2, <1>3, <1>4 DEF RequestOk

\* How the request of a step looks after it, and that it is in order.
LEMMA AskedOk ==
  ASSUME NEW b \in Seq(Seq(Piece))
  PROVE  RequestOk(Asked(b))
<1>1. Asked(b) \in State
  BY DEF Asked, State, Step, Answers
<1>2. Asked(b).step = "adding" /\ Asked(b).body = b /\ Asked(b).accepted = 0 /\ Asked(b).answer = 0
  BY DEF Asked
<1>3. Len(b) \in Nat
  OBVIOUS
<1> QED BY <1>1, <1>2, <1>3 DEF RequestOk

Refused413 == [step |-> "answered", body |-> <<>>, accepted |-> 0, answer |-> 413]

LEMMA TooLongOk == RequestOk(Refused413)
<1>1. <<>> \in Seq(Seq(Piece)) /\ Len(<<>>) = 0
  OBVIOUS
<1>2. PICK e : e = <<>>
  OBVIOUS
<1>3. Refused413 \in State
  BY <1>1 DEF Refused413, State, Step, Answers
<1>4. Refused413.step = "answered" /\ Refused413.body = e /\ Refused413.accepted = 0
      /\ Refused413.answer = 413
  BY <1>2 DEF Refused413
<1> QED BY <1>1, <1>2, <1>3, <1>4 DEF RequestOk

CountedOn(q) == [q EXCEPT !.accepted = @ + 1]
AnsweredBy(q, code) == [q EXCEPT !.step = "answered", !.answer = code]

LEMMA CountedFields ==
  ASSUME NEW q \in State
  PROVE  /\ CountedOn(q) \in State
         /\ CountedOn(q).step = q.step /\ CountedOn(q).body = q.body
         /\ CountedOn(q).accepted = q.accepted + 1 /\ CountedOn(q).answer = q.answer
BY DEF State, CountedOn

LEMMA AnsweredFields ==
  ASSUME NEW q \in State, NEW code \in {202, 400, 503}
  PROVE  /\ AnsweredBy(q, code) \in State
         /\ AnsweredBy(q, code).step = "answered" /\ AnsweredBy(q, code).body = q.body
         /\ AnsweredBy(q, code).accepted = q.accepted /\ AnsweredBy(q, code).answer = code
<1>1. code \in Answers /\ "answered" \in Step
  BY DEF Answers, Step
<1>2. q = [step |-> q.step, body |-> q.body, accepted |-> q.accepted, answer |-> q.answer]
  BY DEF State
<1> QED BY <1>1, <1>2 DEF State, AnsweredBy

LEMMA CountedOk ==
  ASSUME NEW q, RequestOk(q), q.step = "adding", q.accepted < Len(q.body),
         Following(q) \in Objects
  PROVE  RequestOk(CountedOn(q))
<1>1. q \in State /\ q.accepted \in Nat /\ q.body \in Seq(Seq(Piece)) /\ Len(q.body) \in Nat
      /\ q.answer = 0
  BY DEF RequestOk, State
<1>2. PICK p : p = CountedOn(q)
  OBVIOUS
<1>3. p \in State /\ p.step = "adding" /\ p.body = q.body /\ p.accepted = q.accepted + 1
      /\ p.answer = 0
  BY <1>1, <1>2, CountedFields
<1>4. p.accepted <= Len(p.body)
  BY <1>1, <1>3
<1>5. \A k \in 1..p.accepted : p.body[k] \in Objects
  <2> SUFFICES ASSUME NEW k \in 1..q.accepted + 1 PROVE q.body[k] \in Objects
    BY <1>3
  <2>1. k \in 1..q.accepted \/ k = q.accepted + 1
    BY <1>1
  <2> QED BY <2>1 DEF RequestOk, Following
<1>6. RequestOk(p)
  BY <1>3, <1>4, <1>5 DEF RequestOk
<1> QED BY <1>2, <1>6

LEMMA AnsweredOk ==
  ASSUME NEW q, RequestOk(q), q.step = "adding", NEW code \in {202, 400, 503},
         code = 202 => q.accepted = Len(q.body)
  PROVE  RequestOk(AnsweredBy(q, code))
<1>1. q \in State
  BY DEF RequestOk
<1>2. PICK p : p = AnsweredBy(q, code)
  OBVIOUS
<1>3. p \in State /\ p.step = "answered" /\ p.body = q.body /\ p.accepted = q.accepted
      /\ p.answer = code
  BY <1>1, <1>2, AnsweredFields
<1>4. RequestOk(p)
  BY <1>3 DEF RequestOk
<1> QED BY <1>2, <1>4

\* What a step of request r does to the requests and texts.
Only(r, q) ==
  /\ request' \in [Requests -> State] /\ request'[r] = q
  /\ \A s \in Requests : s # r => request'[s] = request[s]
TextOnly(r) ==
  /\ text' \in [Requests -> Seq(Piece)] /\ text'[r] = <<>>
  /\ \A s \in Requests : s # r => text'[s] = text[s]

LEMMA OnlyOne ==
  ASSUME ServerInv, NEW r \in Requests
  PROVE  /\ \A q : Becomes(r, q) /\ q \in State => Only(r, q)
         /\ Emptied(r) => TextOnly(r)
<1>1. request \in [Requests -> State] /\ text \in [Requests -> Seq(Piece)]
  BY DEF ServerInv
<1>2. ASSUME NEW q, Becomes(r, q), q \in State PROVE Only(r, q)
  BY <1>1, <1>2 DEF Becomes, Only
<1>3. ASSUME Emptied(r) PROVE TextOnly(r)
  <2>1. <<>> \in Seq(Piece)
    OBVIOUS
  <2> QED BY <1>1, <1>3, <2>1 DEF Emptied, TextOnly
<1> QED BY <1>2, <1>3

LEMMA OneRequest ==
  ASSUME ServerInv, NEW r \in Requests, NEW q, Only(r, q), RequestOk(q),
         TextOnly(r) \/ (UNCHANGED text /\ (q.step = "none" \/ text[r] = <<>>)),
         stream' \in Seq(Entry), faults' \in Nat
  PROVE  ServerInv'
<1>1. text' \in [Requests -> Seq(Piece)]
  BY DEF ServerInv, TextOnly
<1>2. ASSUME NEW s \in Requests
      PROVE  RequestOk(request'[s]) /\ (text'[s] # <<>> => request'[s].step = "none")
  <2>1. CASE s = r
    BY <2>1 DEF Only, TextOnly
  <2>2. CASE s # r
    <3>1. request'[s] = request[s] /\ text'[s] = text[s]
      BY <2>2 DEF Only, TextOnly
    <3> QED BY <3>1 DEF ServerInv
  <2> QED BY <2>1, <2>2
<1>3. request' \in [Requests -> State]
  BY DEF Only
<1> QED BY <1>1, <1>2, <1>3 DEF ServerInv

LEMMA RequestSteps ==
  ASSUME ServerInv, NEW r \in Requests
  PROVE  /\ RequestOk(request[r]) /\ request[r] \in State /\ text[r] \in Seq(Piece)
         /\ \A b : Arrives(r, b) => Only(r, Asked(b)) /\ TextOnly(r) /\ RequestOk(Asked(b))
         /\ Vanishes(r) => TextOnly(r)
         /\ TooLong(r) => Only(r, Refused413) /\ TextOnly(r)
         /\ \A line : Stores(r, line) =>
              /\ Only(r, CountedOn(request[r])) /\ RequestOk(CountedOn(request[r]))
              /\ text[r] = <<>> /\ stream' \in Seq(Entry)
         /\ \A code : Ends(r, code) =>
              /\ Only(r, AnsweredBy(request[r], code)) /\ RequestOk(AnsweredBy(request[r], code))
              /\ text[r] = <<>>
         /\ \A line : EndsUnsure(r, line) =>
              /\ Only(r, AnsweredBy(request[r], 503)) /\ RequestOk(AnsweredBy(request[r], 503))
              /\ text[r] = <<>> /\ stream' \in Seq(Entry)
         /\ Freed(r) => Only(r, NotMade)
<1>1. RequestOk(request[r]) /\ request[r] \in State /\ text[r] \in Seq(Piece)
      /\ (text[r] # <<>> => request[r].step = "none")
  BY DEF ServerInv
<1>2. ASSUME NEW b, Arrives(r, b)
      PROVE  Only(r, Asked(b)) /\ TextOnly(r) /\ RequestOk(Asked(b))
  <2>1. RequestOk(Asked(b))
    BY <1>2, AskedOk DEF Arrives, LinesFrom
  <2>2. Asked(b) \in State
    BY <2>1 DEF RequestOk
  <2> QED BY <1>2, <2>1, <2>2, OnlyOne DEF Arrives
<1>3. Vanishes(r) => TextOnly(r)
  BY OnlyOne DEF Vanishes
<1>4. TooLong(r) => Only(r, Refused413) /\ TextOnly(r)
  <2>1. Refused413 \in State
    BY TooLongOk DEF RequestOk
  <2> QED BY <2>1, OnlyOne DEF TooLong, Refused413
<1>5. \A line : Added(r, line) /\ line \in Objects => stream' \in Seq(Entry)
  <2> SUFFICES ASSUME NEW line \in Objects, Added(r, line) PROVE stream' \in Seq(Entry)
    OBVIOUS
  <2>1. [from |-> r, line |-> line] \in Entry
    BY DEF Entry
  <2>2. stream \in Seq(Entry)
    BY DEF ServerInv
  <2> HIDE DEF Entry
  <2> QED BY <2>1, <2>2 DEF Added
<1>6. ASSUME NEW line, Stores(r, line)
      PROVE  /\ Only(r, CountedOn(request[r])) /\ RequestOk(CountedOn(request[r]))
             /\ text[r] = <<>> /\ stream' \in Seq(Entry)
  <2>1. RequestOk(CountedOn(request[r]))
    BY <1>1, <1>6, CountedOk DEF Stores
  <2>2. CountedOn(request[r]) \in State
    BY <2>1 DEF RequestOk
  <2>3. Only(r, CountedOn(request[r]))
    BY <1>6, <2>2, OnlyOne DEF Stores, CountedOn
  <2> QED BY <1>1, <1>5, <1>6, <2>1, <2>3 DEF Stores
<1>7. ASSUME NEW code \in {202, 400, 503}, Ending(r, code),
             code = 202 => request[r].accepted = Len(request[r].body)
      PROVE  /\ Only(r, AnsweredBy(request[r], code)) /\ RequestOk(AnsweredBy(request[r], code))
             /\ text[r] = <<>>
  <2>1. RequestOk(AnsweredBy(request[r], code))
    BY <1>1, <1>7, AnsweredOk DEF Ending
  <2>2. AnsweredBy(request[r], code) \in State
    BY <2>1 DEF RequestOk
  <2>3. Becomes(r, AnsweredBy(request[r], code))
    BY <1>7 DEF Ending, AnsweredBy
  <2>4. Only(r, AnsweredBy(request[r], code))
    BY <2>2, <2>3, OnlyOne
  <2>5. request[r].step = "adding"
    BY <1>7 DEF Ending
  <2> QED BY <1>1, <2>1, <2>4, <2>5
<1>8. ASSUME NEW code, Ends(r, code)
      PROVE  /\ Only(r, AnsweredBy(request[r], code)) /\ RequestOk(AnsweredBy(request[r], code))
             /\ text[r] = <<>>
  BY <1>7, <1>8 DEF Ends
<1>9. ASSUME NEW line, EndsUnsure(r, line)
      PROVE  /\ Only(r, AnsweredBy(request[r], 503)) /\ RequestOk(AnsweredBy(request[r], 503))
             /\ text[r] = <<>> /\ stream' \in Seq(Entry)
  <2>1. Ending(r, 503) /\ Added(r, line) /\ line \in Objects
    BY <1>9 DEF EndsUnsure
  <2> QED BY <1>5, <1>7, <2>1
<1>10. Freed(r) => Only(r, NotMade)
  <2>1. NotMade \in State
    BY NotMadeOk DEF RequestOk
  <2> QED BY <2>1, OnlyOne DEF Freed
<1> QED BY <1>1, <1>2, <1>3, <1>4, <1>6, <1>8, <1>9, <1>10

LEMMA ServerKept ==
  ASSUME ServerInv, NEW r \in Requests, RequestStep(r)
  PROVE  ServerInv'
<1>1. stream \in Seq(Entry) /\ faults \in Nat /\ text[r] \in Seq(Piece)
  BY DEF ServerInv
<1>2. ASSUME NEW b, Arrives(r, b) PROVE ServerInv'
  <2>1. Only(r, Asked(b)) /\ TextOnly(r) /\ RequestOk(Asked(b))
    BY <1>2, RequestSteps
  <2>2. stream' \in Seq(Entry) /\ faults' \in Nat
    BY <1>1, <1>2 DEF Arrives
  <2> QED BY <2>1, <2>2, OneRequest
<1>3. CASE Vanishes(r)
  <2>1. TextOnly(r) /\ UNCHANGED <<request, stream, faults>>
    BY <1>3, RequestSteps DEF Vanishes
  <2>2. Only(r, request[r]) /\ RequestOk(request[r])
    BY <2>1 DEF ServerInv, Only
  <2>3. stream' \in Seq(Entry) /\ faults' \in Nat
    BY <1>1, <2>1
  <2> QED BY <2>1, <2>2, <2>3, OneRequest
<1>4. CASE TooLong(r)
  <2>1. Only(r, Refused413) /\ TextOnly(r)
    BY <1>4, RequestSteps
  <2>2. stream' \in Seq(Entry) /\ faults' \in Nat
    BY <1>1, <1>4 DEF TooLong
  <2> QED BY <2>1, <2>2, OneRequest, TooLongOk
<1>5. ASSUME NEW line, Stores(r, line) PROVE ServerInv'
  <2>1. /\ Only(r, CountedOn(request[r])) /\ RequestOk(CountedOn(request[r]))
        /\ text[r] = <<>> /\ stream' \in Seq(Entry)
    BY <1>5, RequestSteps
  <2>2. faults' \in Nat /\ UNCHANGED text
    BY <1>1, <1>5 DEF Stores
  <2> QED BY <2>1, <2>2, OneRequest
<1>6. ASSUME NEW line, EndsUnsure(r, line) PROVE ServerInv'
  <2>1. /\ Only(r, AnsweredBy(request[r], 503)) /\ RequestOk(AnsweredBy(request[r], 503))
        /\ text[r] = <<>> /\ stream' \in Seq(Entry)
    BY <1>6, RequestSteps
  <2>2. faults' \in Nat /\ UNCHANGED text
    BY <1>1, <1>6 DEF EndsUnsure, Ending
  <2> QED BY <2>1, <2>2, OneRequest
<1>7. ASSUME NEW code, Ends(r, code) PROVE ServerInv'
  <2>1. /\ Only(r, AnsweredBy(request[r], code)) /\ RequestOk(AnsweredBy(request[r], code))
        /\ text[r] = <<>>
    BY <1>7, RequestSteps
  <2>2. faults' \in Nat /\ UNCHANGED text /\ stream' \in Seq(Entry)
    BY <1>1, <1>7 DEF Ends, Ending
  <2> QED BY <2>1, <2>2, OneRequest
<1>8. CASE Freed(r)
  <2>1. Only(r, NotMade) /\ NotMade.step = "none"
    BY <1>8, RequestSteps DEF NotMade
  <2>2. stream' \in Seq(Entry) /\ faults' \in Nat /\ UNCHANGED text
    BY <1>1, <1>8 DEF Freed
  <2> QED BY <2>1, <2>2, OneRequest, NotMadeOk
<1> QED BY <1>2, <1>3, <1>4, <1>5, <1>6, <1>7, <1>8 DEF RequestStep

LEMMA PostKept ==
  ASSUME ServerInv, PostInv, NEW r \in Requests, RequestStep(r), Framed
  PROVE  PostInv'
<1>1. pending' = pending /\ chunk' = chunk /\ post' = post
  BY DEF Framed
<1>2. CASE post # r
  <2>1. post # None => text'[post] = text[post] /\ request'[post] = request[post]
    <3> SUFFICES ASSUME post \in Requests
                 PROVE text'[post] = text[post] /\ request'[post] = request[post]
      BY DEF PostInv
    <3>1. TextOnly(r) \/ UNCHANGED text
      BY RequestSteps
         DEF RequestStep, Vanishes, TooLong, Stores, EndsUnsure, Ends, Ending, Freed
    <3>2. (\E q : Only(r, q)) \/ UNCHANGED request
      BY RequestSteps DEF RequestStep, Vanishes
    <3> QED BY <1>2, <3>1, <3>2 DEF Only, TextOnly
  <2> QED BY <1>1, <2>1 DEF PostInv
<1>3. CASE post = r
  <2> DEFINE q == request[r]
  <2>1. r # None
    BY PostingAssumption DEF PostingAssumption
  <2>2. /\ chunk # <<>>
        /\ text[r] # <<>> => text[r] = chunk
        /\ text[r] = <<>> => q.step # "none" /\ (q.answer # 413 => q.body = Split(chunk))
    BY <1>3, <2>1 DEF PostInv
  <2>3. SUFFICES text'[r] = <<>> /\ request'[r].step # "none"
                   /\ (request'[r].answer # 413 => request'[r].body = Split(chunk))
    BY <1>1, <1>3, <2>1, <2>2, <2>3 DEF PostInv
  <2>4. ASSUME NEW b, Arrives(r, b)
        PROVE  text'[r] = <<>> /\ request'[r].step # "none" /\ request'[r].body = Split(chunk)
    <3>1. request'[r] = Asked(b) /\ text'[r] = <<>>
      BY <2>4, RequestSteps DEF Only, TextOnly
    <3>2. b = Split(chunk)
      BY <1>3, <2>2, <2>4 DEF Arrives, Emptied
    <3> QED BY <3>1, <3>2 DEF Asked
  <2>5. CASE TooLong(r)
    <3>1. request'[r] = Refused413 /\ text'[r] = <<>>
      BY <2>5, RequestSteps DEF Only, TextOnly
    <3> QED BY <3>1 DEF Refused413
  <2>6. q \in State /\ (q.step = "adding" => q.answer = 0)
    BY RequestSteps DEF RequestOk
  <2>7. ASSUME NEW line, Stores(r, line)
        PROVE  text'[r] = <<>> /\ request'[r].step # "none" /\ request'[r].body = Split(chunk)
    <3>1. request'[r] = CountedOn(q) /\ text'[r] = <<>> /\ text[r] = <<>> /\ q.step = "adding"
      BY <2>7, RequestSteps DEF Only, Stores
    <3>2. request'[r].step = q.step /\ request'[r].body = q.body
      BY <2>6, <3>1, CountedFields
    <3> QED BY <2>2, <2>6, <3>1, <3>2
  <2>8. ASSUME NEW code \in {202, 400, 503}, request'[r] = AnsweredBy(q, code), q.step = "adding",
               text[r] = <<>>, UNCHANGED text
        PROVE  text'[r] = <<>> /\ request'[r].step # "none" /\ request'[r].body = Split(chunk)
    <3>1. request'[r].step = "answered" /\ request'[r].body = q.body
      BY <2>6, <2>8, AnsweredFields
    <3> QED BY <2>2, <2>6, <2>8, <3>1
  <2>9. ASSUME NEW line, EndsUnsure(r, line)
        PROVE  text'[r] = <<>> /\ request'[r].step # "none" /\ request'[r].body = Split(chunk)
    <3>1. request'[r] = AnsweredBy(q, 503) /\ q.step = "adding" /\ text[r] = <<>> /\ UNCHANGED text
      <4>1. Only(r, AnsweredBy(q, 503)) /\ text[r] = <<>>
        BY <2>9, RequestSteps
      <4>2. q.step = "adding" /\ UNCHANGED text
        BY <2>9 DEF EndsUnsure, Ending
      <4> QED BY <4>1, <4>2 DEF Only
    <3> QED BY <2>8, <3>1
  <2>10. ASSUME NEW code, Ends(r, code)
        PROVE  text'[r] = <<>> /\ request'[r].step # "none" /\ request'[r].body = Split(chunk)
    <3>1. request'[r] = AnsweredBy(q, code) /\ q.step = "adding" /\ text[r] = <<>> /\ UNCHANGED text
          /\ code \in {202, 400, 503}
      <4>1. Only(r, AnsweredBy(q, code)) /\ text[r] = <<>>
        BY <2>10, RequestSteps
      <4>2. q.step = "adding" /\ UNCHANGED text /\ code \in {202, 400, 503}
        BY <2>10 DEF Ends, Ending
      <4> QED BY <4>1, <4>2 DEF Only
    <3> QED BY <2>8, <3>1
  <2> QED BY <1>3, <2>4, <2>5, <2>7, <2>9, <2>10 DEF RequestStep, Vanishes, Freed
<1> QED BY <1>2, <1>3

-----------------------------------------------------------------------------
(* The beginning, the monitor's writes and the clients.                    *)

LEMMA LineShape ==
  /\ \A l \in FileLines :
       /\ l = <<l[1], l[2]>> /\ l[1] \in Files /\ l[2] \in Nat /\ l[2] \in 1..MaxLines[l[1]]
  /\ \A f \in Files : MaxLines[f] \in Nat /\ \A n \in 1..MaxLines[f] : <<f, n>> \in FileLines
<1>1. \A f \in Files : MaxLines[f] \in Nat
  BY PostingAssumption DEF PostingAssumption
<1> QED BY <1>1 DEF FileLines

LEMMA PostingInitOk ==
  ASSUME PostingInit
  PROVE  ServerInv /\ FilesInv /\ PostInv
<1>1. ServerInv
  <2>1. NotMade \in State /\ RequestOk(NotMade)
    BY NotMadeOk DEF RequestOk
  <2>2. stream = <<>> /\ faults = 0 /\ request = [r \in Requests |-> NotMade]
        /\ text = [r \in Requests |-> <<>>]
    BY DEF PostingInit, IngestInit
  <2>3. \A S : <<>> \in Seq(S)
    OBVIOUS
  <2>4. request \in [Requests -> State] /\ text \in [Requests -> Seq(Piece)]
        /\ \A r \in Requests : request[r] = NotMade /\ text[r] = <<>>
    BY <2>1, <2>2, <2>3
  <2> QED BY <2>1, <2>2, <2>3, <2>4 DEF ServerInv
<1>2. FilesInv
  <2>1. file \in [Files -> [complete : 0..1, half : Half]]
    BY DEF PostingInit, Half
  <2>2. file \in [Files -> [complete : Nat, half : Half]]
    BY <2>1
  <2>3. ASSUME NEW f \in Files, file[f].half # "no"
        PROVE  file[f].complete < MaxLines[f]
    <3>1. MayCut(f)
      BY <2>3 DEF PostingInit
    <3>2. <<f, file[f].complete + 1>> \in FileLines
      BY <3>1, PostingAssumption DEF MayCut, PostingAssumption
    <3>3. <<f, file[f].complete + 1>>[1] = f /\ <<f, file[f].complete + 1>>[2] = file[f].complete + 1
      OBVIOUS
    <3>4. file[f].complete + 1 \in 1..MaxLines[f] /\ MaxLines[f] \in Nat /\ file[f].complete \in Nat
      BY <2>2, <3>2, <3>3, LineShape
    <3> QED BY <3>4
  <2>4. \A f \in Files : file[f].complete <= MaxLines[f]
    BY DEF PostingInit
  <2> QED BY <2>2, <2>3, <2>4 DEF FilesInv
<1>3. PostInv
  <2>1. \A S : <<>> \in Seq(S)
    OBVIOUS
  <2> QED BY <2>1 DEF PostingInit, PostInv
<1> QED BY <1>1, <1>2, <1>3

\* What a write does to its file, and to no other.
Grown(f) ==
  /\ file' \in [Files -> [complete : Nat, half : Half]]
  /\ \A g \in Files : g # f => file'[g] = file[g]
  /\ \/ file'[f].complete = file[f].complete + 1 /\ file'[f].half = "no"
     \/ /\ file'[f].complete = file[f].complete
        /\ file[f].half = "no" /\ file'[f].half \in {"head", "bare"}

LEMMA WriteGrows ==
  ASSUME FilesInv, NEW f \in Files, Write(f)
  PROVE  Grown(f) /\ FilesInv'
<1>1. file \in [Files -> [complete : Nat, half : Half]] /\ file[f].complete < MaxLines[f]
      /\ file[f].complete \in Nat /\ MaxLines[f] \in Nat
  BY LineShape DEF FilesInv, Write
<1>2. CASE file' = [file EXCEPT ![f] = [complete |-> @.complete + 1, half |-> "no"]]
  <2>1. [complete |-> file[f].complete + 1, half |-> "no"] \in [complete : Nat, half : Half]
    BY <1>1 DEF Half
  <2>2. file' \in [Files -> [complete : Nat, half : Half]]
        /\ file'[f] = [complete |-> file[f].complete + 1, half |-> "no"]
        /\ \A g \in Files : g # f => file'[g] = file[g]
    BY <1>1, <1>2, <2>1
  <2>3. file'[f].complete = file[f].complete + 1 /\ file'[f].half = "no"
    BY <2>2
  <2>4. file'[f].complete <= MaxLines[f]
    BY <1>1, <2>3
  <2> QED BY <2>2, <2>3, <2>4 DEF Grown, FilesInv
<1>3. CASE file[f].half = "no" /\ \E half \in {"head", "bare"} : file' = [file EXCEPT ![f].half = half]
  <2>1. PICK half \in {"head", "bare"} : file' = [file EXCEPT ![f].half = half]
    BY <1>3
  <2>2. file' \in [Files -> [complete : Nat, half : Half]]
        /\ file'[f].complete = file[f].complete /\ file'[f].half = half
        /\ \A g \in Files : g # f => file'[g] = file[g]
    BY <1>1, <2>1 DEF Half
  <2> QED BY <1>1, <1>3, <2>2 DEF Grown, FilesInv
<1> QED BY <1>2, <1>3 DEF Write

LEMMA WriteKept ==
  ASSUME ServerInv, FilesInv, PostInv, NEW f \in Files, Write(f)
  PROVE  ServerInv' /\ FilesInv' /\ PostInv'
<1>1. UNCHANGED <<ingestVars, pending, chunk, post, text, faults>>
  BY DEF Write
<1>2. ServerInv'
  BY <1>1 DEF ServerInv, ingestVars
<1>3. PostInv'
  BY <1>1 DEF PostInv, ingestVars
<1> QED BY <1>2, <1>3, WriteGrows

\* The first n pending pieces are sent as request r.
SentAs(r, n) ==
  /\ request[r].step = "none" /\ text[r] = <<>>
  /\ post' = r /\ chunk' = SubSeq(pending, 1, n)
  /\ pending' = SubSeq(pending, n + 1, Len(pending))
  /\ text' = [text EXCEPT ![r] = chunk']
  /\ UNCHANGED <<ingestVars, file, faults>>

LEMMA SendOk ==
  ASSUME ServerInv, PostInv, post = None, NEW r \in Requests, NEW n \in 1..Len(pending),
         SentAs(r, n)
  PROVE  /\ ServerInv' /\ PostInv'
         /\ chunk' \in Seq(Piece) /\ Len(chunk') = n /\ \A i \in 1..n : chunk'[i] = pending[i]
         /\ pending' \in Seq(Piece) /\ Len(pending') = Len(pending) - n
         /\ \A i \in 1..Len(pending) - n : pending'[i] = pending[n + i]
         /\ text'[r] = chunk' /\ \A s \in Requests : s # r => text'[s] = text[s]
<1>1. pending \in Seq(Piece) /\ Len(pending) \in Nat
  BY DEF PostInv
<1>2. chunk' \in Seq(Piece) /\ Len(chunk') = n /\ \A i \in 1..n : chunk'[i] = pending[i]
  BY <1>1 DEF SentAs
<1>3. /\ pending' \in Seq(Piece) /\ Len(pending') = Len(pending) - n
      /\ \A i \in 1..Len(pending) - n : pending'[i] = pending[n + i]
  BY <1>1 DEF SentAs
<1>4. /\ text' \in [Requests -> Seq(Piece)] /\ text'[r] = chunk'
      /\ \A s \in Requests : s # r => text'[s] = text[s]
  BY <1>2 DEF SentAs, ServerInv
<1>5. ServerInv'
  BY <1>4 DEF ServerInv, SentAs, ingestVars
<1>6. chunk' # <<>>
  BY <1>2
<1>7. PostInv'
  <2>1. post' = r /\ r # None
    BY PostingAssumption DEF PostingAssumption, SentAs
  <2> QED BY <1>2, <1>3, <1>4, <1>6, <2>1 DEF PostInv
<1> QED BY <1>2, <1>3, <1>4, <1>5, <1>7

\* The post is over; the request is, too, if its answer was heard.
LEMMA HeardOk ==
  ASSUME ServerInv, PostInv, NEW code \in {202, 400, 413, 503}, Heard(code)
  PROVE  /\ post \in Requests /\ chunk # <<>> /\ ServerInv'
         /\ Only(post, NotMade) /\ text[post] = <<>> /\ request[post].answer = code
         /\ request[post].step = "answered"
         /\ code # 413 => request[post].body = Split(chunk)
<1>1. post \in Requests /\ chunk # <<>> /\ post # None /\ request[post].answer = code
  BY DEF Heard, PostInv
<1>2. RequestOk(request[post]) /\ (text[post] # <<>> => request[post].step = "none")
  BY <1>1 DEF ServerInv
<1>3. NotMade.answer = 0 /\ NotMade.step = "none"
  BY DEF NotMade
<1>4. request[post].step # "none" /\ request[post].step = "answered"
  BY <1>1, <1>2, <1>3 DEF RequestOk
<1>5. text[post] = <<>>
  BY <1>2, <1>4
<1>6. Only(post, NotMade)
  <2>1. NotMade \in State /\ Becomes(post, NotMade)
    BY NotMadeOk DEF RequestOk, Heard, Becomes
  <2> QED BY <1>1, <2>1, OnlyOne
<1>7. ServerInv'
  <2>1. UNCHANGED <<stream, text, faults>> /\ stream' \in Seq(Entry) /\ faults' \in Nat
    BY DEF Heard, ServerInv
  <2> QED BY <1>1, <1>3, <1>6, <2>1, OneRequest, NotMadeOk
<1> QED BY <1>1, <1>4, <1>5, <1>6, <1>7 DEF PostInv

LEMMA GivenUpOk ==
  ASSUME ServerInv, PostInv, GivenUp
  PROVE  post \in Requests /\ chunk # <<>> /\ ServerInv' /\ request[post].answer = 0
<1>1. post \in Requests /\ chunk # <<>> /\ request[post].step # "answered"
  BY DEF GivenUp, PostInv
<1>2. RequestOk(request[post]) /\ NotMade.answer = 0
  BY <1>1 DEF ServerInv, NotMade
<1>3. request[post].answer = 0
  BY <1>1, <1>2 DEF RequestOk
<1>4. ServerInv'
  <2>1. UNCHANGED <<request, stream, text>> /\ faults' = faults + 1
    BY DEF GivenUp, ingestVars
  <2>2. faults' \in Nat
    BY <2>1 DEF ServerInv
  <2> QED BY <2>1, <2>2 DEF ServerInv
<1> QED BY <1>1, <1>3, <1>4

-----------------------------------------------------------------------------
(* What the tailer holds: pieces it has read, in order, none left out.     *)

\* A piece was read if its line was, or it is the half that was.
WasRead(p) ==
  \/ p.line[2] <= read[p.line[1]].line
  \/ p.line[2] = read[p.line[1]].line + 1 /\ p.part = read[p.line[1]].half
\* It is after the start of the tailer, or the rest of a line it started in.
Begun(p) ==
  p.line[2] > start[p.line[1]] \/ (p.line[2] = start[p.line[1]] /\ p.part = "tail")
Follows(p, q) ==
  p.line[1] = q.line[1] =>
    p.line[2] < q.line[2] \/ (p.line[2] = q.line[2] /\ p.part = "head" /\ q.part = "tail")
Ordered(t) == \A i, j \in 1..Len(t) : i < j => Follows(t[i], t[j])

Stored(l) == \E i \in 1..Len(stream) : StoredLine(i) = l
Finished(l) ==
  l[2] <= read[l[1]].line \/ (l[2] = read[l[1]].line + 1 /\ read[l[1]].half = "bare")
Before(l) == start[l[1]] + 1..l[2] - 1
InText(t, l, n) == \E j \in 1..n : t[j].line = l

\* The lines before each piece are stored, or before it in the text.
Unbroken(t) ==
  \A i \in 1..Len(t) : \A m \in Before(t[i].line) :
    Stored(<<t[i].line[1], m>>) \/ InText(t, <<t[i].line[1], m>>, i - 1)
Good(t) ==
  /\ \A i \in 1..Len(t) : WasRead(t[i]) /\ Begun(t[i])
  /\ Ordered(t) /\ Unbroken(t)

\* The same for the lines of a body, as far as they are objects.
InLine(line, l) == \E x \in 1..Len(line) : line[x].line = l
GoodBody(b) ==
  /\ \A k \in 1..Len(b) : \A x \in 1..Len(b[k]) : WasRead(b[k][x]) /\ Begun(b[k][x])
  /\ \A j, k \in 1..Len(b) : j < k /\ b[j] \in Objects /\ b[k] \in Objects =>
       b[j][1].line # b[k][1].line
  /\ \A k \in 1..Len(b) : b[k] \in Objects =>
       \A m \in Before(b[k][1].line) :
         \/ Stored(<<b[k][1].line[1], m>>)
         \/ \E j \in 1..k - 1 : InLine(b[j], <<b[k][1].line[1], m>>)

\* What is stored stays, and reading only goes on.
Forward ==
  /\ \A l : Stored(l) => Stored(l)'
  /\ \A p \in Piece : WasRead(p) => WasRead(p)'
  /\ UNCHANGED start

LEMMA GoodForward ==
  ASSUME Forward, NEW t \in Seq(Piece), Good(t)
  PROVE  Good(t)'
<1>1. \A i \in 1..Len(t) : t[i] \in Piece
  OBVIOUS
<1>2. \A i \in 1..Len(t) : WasRead(t[i])' /\ Begun(t[i])'
  BY <1>1 DEF Good, Forward, Begun
<1>3. Unbroken(t)'
  BY DEF Good, Unbroken, Forward, Before, InText
<1>4. Ordered(t)'
  BY DEF Good, Ordered, Follows
<1> QED BY <1>2, <1>3, <1>4 DEF Good

LEMMA BodyForward ==
  ASSUME Forward, NEW b \in Seq(Seq(Piece)), GoodBody(b)
  PROVE  GoodBody(b)'
<1>1. \A k \in 1..Len(b) : b[k] \in Seq(Piece)
  OBVIOUS
<1>2. \A k \in 1..Len(b) : \A x \in 1..Len(b[k]) : b[k][x] \in Piece
  BY <1>1
<1>3. \A k \in 1..Len(b) : \A x \in 1..Len(b[k]) : WasRead(b[k][x])' /\ Begun(b[k][x])'
  BY <1>2 DEF GoodBody, Forward, Begun
<1>4. \A k \in 1..Len(b) : b[k] \in Objects =>
       \A m \in Before(b[k][1].line)' :
         \/ Stored(<<b[k][1].line[1], m>>)'
         \/ \E j \in 1..k - 1 : InLine(b[j], <<b[k][1].line[1], m>>)
  BY DEF GoodBody, Forward, Before
<1> QED BY <1>3, <1>4 DEF GoodBody, InLine

\* A request that arrives has the lines of its text.
LEMMA ArrivedGood ==
  ASSUME NEW t \in Seq(Piece), Good(t), NEW b, LinesFrom(t, b)
  PROVE  GoodBody(b)
<1>1. b \in Seq(Seq(Piece)) /\ Len(b) \in Nat /\ \A k \in 1..Len(b) : b[k] \in Seq(Piece)
  BY DEF LinesFrom
<1>2. ASSUME NEW k \in 1..Len(b), b[k] # <<>>
      PROVE  /\ \A x \in 1..Len(b[k]) : Place(t, k, x) \in 1..Len(t) /\ b[k][x] = t[Place(t, k, x)]
             /\ Len(b[k]) > 0
             /\ \A j \in 1..Place(t, k, 1) - 1 :
                  \E n \in 1..k - 1 : \E x \in 1..Len(b[n]) : b[n][x] = t[j]
             /\ \A n \in 1..k - 1 : \A x \in 1..Len(b[n]) : Place(t, n, x) < Place(t, k, 1)
  BY <1>2, LinesInOrder
<1>3. ASSUME NEW k \in 1..Len(b), NEW x \in 1..Len(b[k])
      PROVE  WasRead(b[k][x]) /\ Begun(b[k][x])
  <2>1. b[k] # <<>>
    BY <1>3
  <2> QED BY <1>2, <2>1 DEF Good
<1>4. ASSUME NEW j \in 1..Len(b), NEW k \in 1..Len(b), j < k, b[j] \in Objects, b[k] \in Objects
      PROVE  b[j][1].line # b[k][1].line
  <2>1. /\ b[j] # <<>> /\ b[k] # <<>> /\ 1 \in 1..Len(b[j]) /\ 1 \in 1..Len(b[k])
        /\ b[k][1] \in Piece /\ b[k][1].part # "tail"
    BY <1>4, ObjectShape
  <2>2. PICK c : c = Place(t, j, 1)
    OBVIOUS
  <2>3. PICK d : d = Place(t, k, 1)
    OBVIOUS
  <2>4. c \in 1..Len(t) /\ b[j][1] = t[c]
    BY <1>2, <2>1, <2>2
  <2>5. d \in 1..Len(t) /\ b[k][1] = t[d]
    BY <1>2, <2>1, <2>3
  <2>6. c < d
    <3>1. j \in 1..k - 1
      BY <1>1, <1>4
    <3> QED BY <1>2, <2>1, <2>2, <2>3, <3>1
  <2>7. Follows(t[c], t[d]) /\ t[d].line \in FileLines /\ t[d].part # "tail"
    BY <2>1, <2>4, <2>5, <2>6 DEF Good, Ordered, Piece
  <2>8. t[d].line[2] \in Nat
    BY <2>7, LineShape
  <2> QED BY <2>4, <2>5, <2>7, <2>8 DEF Follows
<1>5. ASSUME NEW k \in 1..Len(b), b[k] \in Objects, NEW m \in Before(b[k][1].line)
      PROVE  \/ Stored(<<b[k][1].line[1], m>>)
             \/ \E j \in 1..k - 1 : InLine(b[j], <<b[k][1].line[1], m>>)
  <2>1. b[k] # <<>> /\ 1 \in 1..Len(b[k])
    BY <1>5, ObjectShape
  <2>2. PICK d : d = Place(t, k, 1)
    OBVIOUS
  <2>3. d \in 1..Len(t) /\ b[k][1] = t[d]
    BY <1>2, <2>1, <2>2
  <2>4. PICK l : l = <<t[d].line[1], m>>
    OBVIOUS
  <2>5. Stored(l) \/ InText(t, l, d - 1)
    BY <1>5, <2>3, <2>4 DEF Good, Unbroken
  <2>6. InText(t, l, d - 1) => \E j \in 1..k - 1 : InLine(b[j], l)
    <3> SUFFICES ASSUME NEW i \in 1..d - 1, t[i].line = l
                 PROVE  \E j \in 1..k - 1 : InLine(b[j], l)
      BY DEF InText
    <3>1. \E n \in 1..k - 1 : \E x \in 1..Len(b[n]) : b[n][x] = t[i]
      BY <1>2, <2>1, <2>2
    <3> QED BY <3>1 DEF InLine
  <2> QED BY <2>3, <2>4, <2>5, <2>6
<1> QED BY <1>3, <1>4, <1>5 DEF GoodBody

LEMMA GoodPart ==
  ASSUME NEW t \in Seq(Piece), Good(t), NEW s \in Seq(Piece), Len(s) <= Len(t),
         \A i \in 1..Len(s) : s[i] = t[i]
  PROVE  Good(s)
<1>1. Len(s) \in Nat /\ Len(t) \in Nat /\ \A i \in 1..Len(s) : i \in 1..Len(t)
  OBVIOUS
<1>2. \A i \in 1..Len(s) : WasRead(s[i]) /\ Begun(s[i])
  BY <1>1 DEF Good
<1>3. Ordered(s)
  BY <1>1 DEF Good, Ordered
<1>4. ASSUME NEW i \in 1..Len(s), NEW l, InText(t, l, i - 1)
      PROVE  InText(s, l, i - 1)
  BY <1>1, <1>4 DEF InText
<1>5. Unbroken(s)
  BY <1>1, <1>4 DEF Good, Unbroken
<1> QED BY <1>2, <1>3, <1>5 DEF Good

\* Once its first n pieces are stored, the rest is good without them.
LEMMA GoodRest ==
  ASSUME NEW t \in Seq(Piece), Good(t), NEW n \in 0..Len(t),
         \A i \in 1..n : Stored(t[i].line),
         NEW s \in Seq(Piece), Len(s) = Len(t) - n, \A i \in 1..Len(s) : s[i] = t[n + i]
  PROVE  Good(s)
<1>1. Len(s) \in Nat /\ Len(t) \in Nat /\ n \in Nat /\ \A i \in 1..Len(s) : n + i \in 1..Len(t)
  OBVIOUS
<1>2. \A i \in 1..Len(s) : WasRead(s[i]) /\ Begun(s[i])
  BY <1>1 DEF Good
<1>3. Ordered(s)
  <2> SUFFICES ASSUME NEW i \in 1..Len(s), NEW j \in 1..Len(s), i < j
               PROVE  Follows(s[i], s[j])
    BY DEF Ordered
  <2>1. n + i \in 1..Len(t) /\ n + j \in 1..Len(t) /\ n + i < n + j
    BY <1>1
  <2> QED BY <2>1 DEF Good, Ordered
<1>4. ASSUME NEW i \in 1..Len(s), NEW m \in Before(s[i].line)
      PROVE  Stored(<<s[i].line[1], m>>) \/ InText(s, <<s[i].line[1], m>>, i - 1)
  <2>1. PICK l : l = <<s[i].line[1], m>>
    OBVIOUS
  <2>2. s[i] = t[n + i] /\ n + i \in 1..Len(t)
    BY <1>1
  <2>3. Stored(l) \/ InText(t, l, n + i - 1)
    BY <1>4, <2>1, <2>2 DEF Good, Unbroken
  <2>4. ASSUME NEW j \in 1..n + i - 1, t[j].line = l
        PROVE  Stored(l) \/ InText(s, l, i - 1)
    <3>1. CASE j <= n
      <4>1. j \in 1..n
        BY <1>1, <3>1
      <4> QED BY <2>4, <4>1
    <3>2. CASE ~(j <= n)
      <4>1. j - n \in 1..Len(s) /\ j - n \in 1..i - 1 /\ n + (j - n) = j
        BY <1>1, <3>2
      <4>2. s[j - n] = t[j]
        BY <4>1
      <4> QED BY <2>4, <4>1, <4>2 DEF InText
    <3> QED BY <3>1, <3>2
  <2> QED BY <2>1, <2>3, <2>4 DEF InText
<1>5. Unbroken(s)
  BY <1>4 DEF Unbroken
<1> QED BY <1>2, <1>3, <1>5 DEF Good

-----------------------------------------------------------------------------
(* What the tailer read is kept, whatever the server and the posts do.     *)

ReadInv ==
  /\ read \in [Files -> [line : Nat, half : Half]]
  /\ start \in [Files -> Nat]
  /\ refusals \in Nat
  /\ \A f \in Files :
       /\ read[f].line <= file[f].complete
       /\ read[f].half # "no" /\ read[f].line = file[f].complete => file[f].half = read[f].half
       /\ start[f] <= read[f].line \/ (read[f].half # "no" /\ start[f] = read[f].line + 1)

Kept(w) ==
  \A f \in Files : \A n \in 1..MaxLines[f] :
    Taken(f, n) => Stored(<<f, n>>) \/ InText(w, <<f, n>>, Len(w))
\* The pieces that wait: those of the post under way, then the rest.
Waits(w) == w \in Seq(Piece) /\ w = chunk \o pending
WaitingInv == \E w : Waits(w) /\ Good(w) /\ Kept(w)

AllStored(b, n) == \A k \in 1..n : Stored(b[k][1].line)
GoodRequest(r) ==
  \E t \in Seq(Piece) : \E b \in Seq(Seq(Piece)) :
    /\ text[r] = t /\ request[r].body = b
    /\ Good(t) /\ GoodBody(b) /\ AllStored(b, request[r].accepted)

StreamInv == \A i \in 1..Len(stream) : Finished(StoredLine(i))

TailInv ==
  /\ ReadInv /\ WaitingInv /\ StreamInv
  /\ \A r \in Requests : GoodRequest(r)

\* One more entry in the stream.
LEMMA StreamGrows ==
  ASSUME ServerInv, NEW r \in Requests, NEW o \in Objects, Added(r, o)
  PROVE  /\ stream \in Seq(Entry) /\ Len(stream) \in Nat /\ Len(stream') = Len(stream) + 1
         /\ \A i \in 1..Len(stream) : StoredLine(i)' = StoredLine(i)
         /\ stream'[Len(stream) + 1].line = o
         /\ \A l : Stored(l)' <=> Stored(l) \/ l = o[1].line
<1>1. stream \in Seq(Entry) /\ Len(stream) \in Nat
  BY DEF ServerInv
<1>2. PICK e : e = [from |-> r, line |-> o]
  OBVIOUS
<1>3. e \in Entry /\ e.line = o /\ stream' = Append(stream, e)
  BY <1>2 DEF Entry, Added
<1> HIDE DEF Entry
<1>4. /\ Len(stream') = Len(stream) + 1
      /\ \A i \in 1..Len(stream) : stream'[i] = stream[i]
      /\ stream'[Len(stream) + 1] = e
  BY <1>1, <1>3
<1>5. PICK n : n = Len(stream)
  OBVIOUS
<1>6. /\ \A i \in 1..n : StoredLine(i)' = StoredLine(i)
      /\ StoredLine(n + 1)' = o[1].line /\ stream'[n + 1].line = o
  BY <1>3, <1>4, <1>5 DEF StoredLine
<1>7. ASSUME NEW l
      PROVE  Stored(l)' <=> Stored(l) \/ l = o[1].line
  <2>1. n \in Nat /\ \A i : i \in 1..n + 1 <=> (i \in 1..n \/ i = n + 1)
    BY <1>1, <1>5
  <2>2. Stored(l)' <=> \E i \in 1..n + 1 : StoredLine(i)' = l
    BY <1>4, <1>5 DEF Stored
  <2>3. Stored(l) <=> \E i \in 1..n : StoredLine(i) = l
    BY <1>5 DEF Stored
  <2> QED BY <1>6, <2>1, <2>2, <2>3
<1> QED BY <1>1, <1>4, <1>5, <1>6, <1>7

LEMMA StoredLines ==
  ASSUME ServerInv
  PROVE  \A i \in 1..Len(stream) : stream[i].line \in Objects /\ StoredLine(i) \in FileLines
<1>1. stream \in Seq(Entry)
  BY DEF ServerInv
<1>2. \A i \in 1..Len(stream) : stream[i] \in Entry
  BY <1>1
<1> QED BY <1>2, ObjectShape DEF Entry, StoredLine, Piece

\* What the next step of a request may add.
LEMMA NextObject ==
  ASSUME FilesInv, ReadInv, NEW r \in Requests, RequestOk(request[r]), GoodRequest(r),
         request[r].accepted < Len(request[r].body),
         NEW o \in Objects, o = Following(request[r])
  PROVE  /\ o[1].line \in FileLines /\ Finished(o[1].line)
         /\ o[1].line[2] > start[o[1].line[1]]
         /\ \A m \in Before(o[1].line) : Stored(<<o[1].line[1], m>>)
         /\ \A k \in 1..Len(request[r].body) :
              request[r].body[k] \in Objects /\ request[r].body[k][1].line = o[1].line
                => k = request[r].accepted + 1
<1>1. PICK t \in Seq(Piece), b \in Seq(Seq(Piece)) :
        /\ text[r] = t /\ request[r].body = b
        /\ Good(t) /\ GoodBody(b) /\ AllStored(b, request[r].accepted)
  BY DEF GoodRequest
<1>2. PICK a : a = request[r].accepted
  OBVIOUS
<1>3. a \in Nat /\ Len(b) \in Nat /\ a < Len(b) /\ o = b[a + 1] /\ a + 1 \in 1..Len(b)
      /\ \A k \in 1..a : b[k] \in Objects
  BY <1>1, <1>2 DEF RequestOk, State, Following
<1>4. PICK l : l = o[1].line
  OBVIOUS
<1>5. l \in FileLines /\ l[1] \in Files /\ l[2] \in Nat
  BY <1>4, ObjectShape, LineShape DEF Piece
<1>6. \A x \in 1..Len(o) : WasRead(o[x]) /\ Begun(o[x])
  BY <1>1, <1>3 DEF GoodBody
<1>7. read[l[1]].line \in Nat /\ read[l[1]].half \in Half
  BY <1>5 DEF ReadInv
<1>8. Finished(l)
  <2>1. CASE Len(o) = 1
    <3>1. WasRead(o[1]) /\ o[1].part \in {"whole", "bare"} /\ o[1].line = l
      BY <1>4, <1>6, <2>1, ObjectShape
    <3>2. l[2] <= read[l[1]].line \/ (l[2] = read[l[1]].line + 1 /\ o[1].part = read[l[1]].half)
      BY <3>1 DEF WasRead
    <3>3. o[1].part = read[l[1]].half => read[l[1]].half = "bare"
      BY <1>7, <3>1 DEF Half
    <3> QED BY <3>2, <3>3 DEF Finished
  <2>2. CASE Len(o) = 2
    <3>1. WasRead(o[2]) /\ o[2].part = "tail" /\ o[2].line = l
      <4>1. 2 \in 1..Len(o)
        BY <2>2
      <4>2. o[2].part = "tail" /\ \A x \in 1..Len(o) : o[x].line = o[1].line
        BY <2>2, ObjectShape
      <4> QED BY <1>4, <1>6, <4>1, <4>2
    <3>2. l[2] <= read[l[1]].line \/ (l[2] = read[l[1]].line + 1 /\ "tail" = read[l[1]].half)
      BY <3>1 DEF WasRead
    <3> QED BY <1>7, <3>2 DEF Finished, Half
  <2> QED BY <2>1, <2>2, ObjectShape
<1>9. l[2] > start[l[1]]
  <2>1. Begun(o[1]) /\ o[1].part # "tail"
    BY <1>6, ObjectShape
  <2> QED BY <1>4, <2>1 DEF Begun
<1>10. ASSUME NEW m \in Before(l)
       PROVE  Stored(<<l[1], m>>)
  <2>1. \/ Stored(<<l[1], m>>)
        \/ \E j \in 1..a : InLine(b[j], <<l[1], m>>)
    <3>1. \/ Stored(<<l[1], m>>)
          \/ \E j \in 1..(a + 1) - 1 : InLine(b[j], <<l[1], m>>)
      BY <1>1, <1>3, <1>4, <1>10 DEF GoodBody
    <3>2. (a + 1) - 1 = a
      BY <1>3
    <3> QED BY <3>1, <3>2
  <2>2. ASSUME NEW j \in 1..a, InLine(b[j], <<l[1], m>>)
        PROVE  Stored(<<l[1], m>>)
    <3>1. b[j] \in Objects /\ Stored(b[j][1].line)
      BY <1>1, <1>2, <1>3 DEF AllStored
    <3>2. b[j][1].line = <<l[1], m>>
      BY <2>2, <3>1, ObjectShape DEF InLine
    <3> QED BY <3>1, <3>2
  <2> QED BY <2>1, <2>2
<1>11. ASSUME NEW k \in 1..Len(b), b[k] \in Objects, b[k][1].line = l
       PROVE  k = a + 1
  <2>1. k < a + 1 \/ k = a + 1 \/ a + 1 < k
    BY <1>3
  <2> QED BY <1>1, <1>3, <1>4, <1>11, <2>1 DEF GoodBody
<1> QED BY <1>1, <1>2, <1>4, <1>5, <1>8, <1>9, <1>10, <1>11

\* An object that is added keeps what the invariant says of the stream.
LEMMA AddedKept ==
  ASSUME ServerInv, ReadInv, StreamInv, UNCHANGED <<read, start>>,
         NEW r \in Requests, NEW o \in Objects, Added(r, o), Finished(o[1].line)
  PROVE  Forward /\ StreamInv'
<1>1. /\ Len(stream) \in Nat /\ Len(stream') = Len(stream) + 1
      /\ \A i \in 1..Len(stream) : StoredLine(i)' = StoredLine(i)
      /\ stream'[Len(stream) + 1].line = o
      /\ \A l : Stored(l)' <=> Stored(l) \/ l = o[1].line
  BY StreamGrows
<1>2. \A l : Finished(l)' <=> Finished(l)
  BY DEF Finished
<1>3. StreamInv'
  <2> SUFFICES ASSUME NEW i \in 1..Len(stream') PROVE Finished(StoredLine(i)')
    BY <1>2 DEF StreamInv, Finished
  <2>1. i \in 1..Len(stream) \/ i = Len(stream) + 1
    BY <1>1
  <2>2. CASE i \in 1..Len(stream)
    BY <1>1, <2>2 DEF StreamInv
  <2>3. CASE i = Len(stream) + 1
    <3>1. StoredLine(i)' = o[1].line
      BY <1>1, <2>3 DEF StoredLine
    <3> QED BY <3>1
  <2> QED BY <2>1, <2>2, <2>3
<1>4. Forward
  BY <1>1 DEF Forward, WasRead
<1> QED BY <1>3, <1>4

LEMMA StillForward ==
  ASSUME UNCHANGED <<stream, read, start>>, StreamInv
  PROVE  Forward /\ StreamInv'
<1>1. Forward
  BY DEF Forward, Stored, StoredLine, WasRead
<1>2. StreamInv'
  BY DEF StreamInv, Finished, StoredLine
<1> QED BY <1>1, <1>2

\* Where reading and the pieces that wait stay as they are.
LEMMA WaitingForward ==
  ASSUME WaitingInv, Forward, UNCHANGED <<read, start, chunk, pending>>
  PROVE  WaitingInv'
<1>1. PICK w : Waits(w) /\ Good(w) /\ Kept(w)
  BY DEF WaitingInv
<1>2. Waits(w)' /\ w \in Seq(Piece)
  BY <1>1 DEF Waits
<1>3. Good(w)'
  BY <1>1, <1>2, GoodForward
<1>4. Kept(w)'
  BY <1>1 DEF Kept, Forward, Taken, InText
<1> QED BY <1>2, <1>3, <1>4 DEF WaitingInv

LEMMA NothingGood ==
  ASSUME NEW e, e = <<>>
  PROVE  /\ e \in Seq(Piece) /\ e \in Seq(Seq(Piece)) /\ Len(e) = 0
         /\ Good(e) /\ GoodBody(e) /\ Good(e)' /\ GoodBody(e)'
<1>1. Len(e) = 0 /\ 1..Len(e) = {} /\ \A S : e \in Seq(S)
  OBVIOUS
<1> QED BY <1>1 DEF Good, GoodBody, Ordered, Unbroken

LEMMA RequestForward ==
  ASSUME Forward, NEW s, GoodRequest(s),
         request'[s] = request[s], text'[s] = text[s] \/ text'[s] = <<>>
  PROVE  GoodRequest(s)'
<1>1. PICK t \in Seq(Piece), b \in Seq(Seq(Piece)) :
        /\ text[s] = t /\ request[s].body = b
        /\ Good(t) /\ GoodBody(b) /\ AllStored(b, request[s].accepted)
  BY DEF GoodRequest
<1>2. Good(t)' /\ GoodBody(b)' /\ AllStored(b, request[s].accepted)'
  <2>1. PICK a : a = request[s].accepted
    OBVIOUS
  <2>2. AllStored(b, a)'
    BY <1>1, <2>1 DEF AllStored, Forward
  <2>3. request'[s].accepted = a
    BY <2>1
  <2> QED BY <1>1, <2>2, <2>3, GoodForward, BodyForward DEF AllStored
<1>3. CASE text'[s] = t
  BY <1>1, <1>2, <1>3 DEF GoodRequest
<1>4. CASE text'[s] = <<>>
  <2>1. PICK e : e = <<>>
    OBVIOUS
  <2>2. e \in Seq(Piece) /\ Good(e)'
    BY <2>1, NothingGood
  <2> QED BY <1>1, <1>2, <1>4, <2>1, <2>2 DEF GoodRequest
<1> QED BY <1>1, <1>3, <1>4

LEMMA FreedGood ==
  ASSUME NEW s, request'[s] = NotMade, text'[s] = <<>>
  PROVE  GoodRequest(s)'
<1>1. PICK e : e = <<>>
  OBVIOUS
<1>2. /\ e \in Seq(Piece) /\ e \in Seq(Seq(Piece)) /\ Good(e)' /\ GoodBody(e)'
      /\ request'[s].body = e /\ request'[s].accepted = 0
  BY <1>1, NothingGood DEF NotMade
<1>3. AllStored(e, request[s].accepted)'
  BY <1>2 DEF AllStored
<1> QED BY <1>1, <1>2, <1>3 DEF GoodRequest

\* A request that goes on with the lines it has, one more of them stored.
LEMMA RequestGoesOn ==
  ASSUME Forward, NEW s, GoodRequest(s), RequestOk(request[s]),
         request'[s].body = request[s].body, text'[s] = text[s],
         \/ request'[s].accepted = request[s].accepted
         \/ /\ request'[s].accepted = request[s].accepted + 1
            /\ \E o : o = Following(request[s]) /\ Stored(o[1].line)'
  PROVE  GoodRequest(s)'
<1>1. PICK t \in Seq(Piece), b \in Seq(Seq(Piece)) :
        /\ text[s] = t /\ request[s].body = b
        /\ Good(t) /\ GoodBody(b) /\ AllStored(b, request[s].accepted)
  BY DEF GoodRequest
<1>2. PICK a : a = request[s].accepted
  OBVIOUS
<1>3. a \in Nat /\ Good(t)' /\ GoodBody(b)' /\ AllStored(b, a)'
  BY <1>1, <1>2, GoodForward, BodyForward DEF AllStored, Forward, RequestOk, State
<1>4. PICK c : c = request'[s].accepted
  OBVIOUS
<1>5. AllStored(b, c)'
  <2>1. CASE c = a
    BY <1>3, <2>1 DEF AllStored
  <2>2. CASE c # a
    <3>1. c = a + 1 /\ \E o : o = b[a + 1] /\ Stored(o[1].line)'
      BY <1>1, <1>2, <1>4, <2>2 DEF Following
    <3>2. \A k \in 1..c : k \in 1..a \/ k = a + 1
      BY <1>3, <3>1
    <3> QED BY <1>3, <3>1, <3>2 DEF AllStored
  <2> QED BY <2>1, <2>2
<1>6. AllStored(b, request[s].accepted)'
  BY <1>4, <1>5 DEF AllStored
<1> QED BY <1>1, <1>3, <1>6 DEF GoodRequest

\* What a request's step does for the tailer.
LEMMA TailStepOfRequest ==
  ASSUME ServerInv, FilesInv, TailInv, NEW r \in Requests, RequestStep(r),
         UNCHANGED <<read, start>>
  PROVE  /\ Forward /\ StreamInv' /\ GoodRequest(r)'
         /\ \A s \in Requests : s # r => request'[s] = request[s] /\ text'[s] = text[s]
<1> DEFINE q == request[r]
<1>1. /\ RequestOk(q) /\ q \in State /\ text[r] \in Seq(Piece)
      /\ GoodRequest(r) /\ ReadInv /\ StreamInv
  BY DEF ServerInv, RequestOk, TailInv
<1>2. ASSUME UNCHANGED stream PROVE Forward /\ StreamInv'
  BY <1>1, <1>2, StillForward
<1>3. ASSUME NEW o, Stores(r, o) \/ EndsUnsure(r, o)
      PROVE  Forward /\ StreamInv' /\ Stored(o[1].line)'
  <2>1. /\ o \in Objects /\ Added(r, o) /\ o = Following(q) /\ q.accepted < Len(q.body)
    BY <1>3 DEF Stores, EndsUnsure
  <2>2. Finished(o[1].line)
    BY <1>1, <2>1, NextObject
  <2>3. Forward /\ StreamInv'
    BY <1>1, <2>1, <2>2, AddedKept
  <2>4. \A l : Stored(l)' <=> Stored(l) \/ l = o[1].line
    BY <2>1, StreamGrows
  <2> QED BY <2>3, <2>4
<1>4. Forward /\ StreamInv'
  BY <1>2, <1>3 DEF RequestStep, Arrives, Vanishes, TooLong, Ends, Freed
<1>5. \A s \in Requests : s # r => request'[s] = request[s] /\ text'[s] = text[s]
  <2>1. TextOnly(r) \/ UNCHANGED text
    BY RequestSteps DEF RequestStep, Vanishes, TooLong, Stores, EndsUnsure, Ends, Ending, Freed
  <2>2. (\E p : Only(r, p)) \/ UNCHANGED request
    BY RequestSteps DEF RequestStep, Vanishes
  <2> QED BY <2>1, <2>2 DEF Only, TextOnly
<1>6. ASSUME NEW b, Arrives(r, b) PROVE GoodRequest(r)'
  <2>1. request'[r] = Asked(b) /\ text'[r] = <<>> /\ LinesFrom(text[r], b)
    BY <1>6, RequestSteps DEF Only, TextOnly, Arrives
  <2>2. PICK t \in Seq(Piece) : text[r] = t /\ Good(t)
    BY <1>1 DEF GoodRequest
  <2>3. b \in Seq(Seq(Piece)) /\ GoodBody(b)
    BY <2>1, <2>2, ArrivedGood DEF LinesFrom
  <2>4. GoodBody(b)'
    BY <1>4, <2>3, BodyForward
  <2>5. PICK e : e = <<>>
    OBVIOUS
  <2>6. e \in Seq(Piece) /\ Good(e)'
    BY <2>5, NothingGood
  <2>7. request'[r].body = b /\ request'[r].accepted = 0
    BY <2>1 DEF Asked
  <2>8. AllStored(b, request[r].accepted)'
    BY <2>7 DEF AllStored
  <2> QED BY <2>1, <2>3, <2>4, <2>5, <2>6, <2>7, <2>8 DEF GoodRequest
<1>7. ASSUME Vanishes(r) PROVE GoodRequest(r)'
  <2>1. TextOnly(r) /\ request' = request
    BY <1>7, RequestSteps DEF Vanishes
  <2> QED BY <1>1, <1>4, <2>1, RequestForward DEF TextOnly
<1>8. ASSUME TooLong(r) PROVE GoodRequest(r)'
  <2>1. request'[r] = Refused413 /\ text'[r] = <<>>
    BY <1>8, RequestSteps DEF Only, TextOnly
  <2>2. PICK e : e = <<>>
    OBVIOUS
  <2>3. /\ e \in Seq(Piece) /\ e \in Seq(Seq(Piece)) /\ Good(e)' /\ GoodBody(e)'
        /\ request'[r].body = e /\ request'[r].accepted = 0
    BY <2>1, <2>2, NothingGood DEF Refused413
  <2>4. AllStored(e, request[r].accepted)'
    BY <2>3 DEF AllStored
  <2> QED BY <2>1, <2>2, <2>3, <2>4 DEF GoodRequest
<1>9. ASSUME NEW o, Stores(r, o) PROVE GoodRequest(r)'
  <2>1. Only(r, CountedOn(q)) /\ UNCHANGED text /\ o = Following(q)
    BY <1>9, RequestSteps DEF Stores
  <2>2. request'[r].body = q.body /\ request'[r].accepted = q.accepted + 1
    BY <1>1, <2>1, CountedFields DEF Only
  <2>3. Stored(o[1].line)'
    BY <1>3, <1>9
  <2> QED BY <1>1, <1>4, <2>1, <2>2, <2>3, RequestGoesOn
<1>10. ASSUME NEW code \in {202, 400, 503}, Only(r, AnsweredBy(q, code)), UNCHANGED text
      PROVE  GoodRequest(r)'
  <2>1. request'[r].body = q.body /\ request'[r].accepted = q.accepted
    BY <1>1, <1>10, AnsweredFields DEF Only
  <2> QED BY <1>1, <1>4, <1>10, <2>1, RequestGoesOn
<1>11. ASSUME NEW code, Ends(r, code) PROVE GoodRequest(r)'
  <2>1. code \in {202, 400, 503} /\ Only(r, AnsweredBy(q, code)) /\ UNCHANGED text
    BY <1>11, RequestSteps, ZenonT(30) DEF Ends, Ending
  <2> QED BY <1>10, <2>1
<1>12. ASSUME NEW o, EndsUnsure(r, o) PROVE GoodRequest(r)'
  <2>1. Only(r, AnsweredBy(q, 503)) /\ UNCHANGED text
    BY <1>12, RequestSteps, ZenonT(30) DEF EndsUnsure, Ending
  <2> QED BY <1>10, <2>1
<1>13. ASSUME Freed(r) PROVE GoodRequest(r)'
  <2>1. request'[r] = NotMade /\ UNCHANGED text /\ text[r] = <<>>
    BY <1>13, RequestSteps DEF Only, Freed, ServerInv
  <2>2. text'[r] = <<>>
    BY <2>1
  <2> QED BY <2>1, <2>2, FreedGood
<1> QED BY <1>4, <1>5, <1>6, <1>7, <1>8, <1>9, <1>11, <1>12, <1>13 DEF RequestStep

LEMMA TailServerKept ==
  ASSUME ServerInv, FilesInv, TailInv, NEW r \in Requests, RequestStep(r), Framed,
         UNCHANGED tailVars
  PROVE  TailInv'
<1>1. UNCHANGED <<at, read, start, refusals, file, pending, chunk>>
  BY DEF tailVars, Framed
<1>2. /\ Forward /\ StreamInv' /\ GoodRequest(r)'
      /\ \A s \in Requests : s # r => request'[s] = request[s] /\ text'[s] = text[s]
  BY <1>1, TailStepOfRequest
<1>3. ASSUME NEW s \in Requests PROVE GoodRequest(s)'
  <2>1. CASE s = r
    BY <1>2, <2>1
  <2>2. CASE s # r
    BY <1>2, <2>2, RequestForward DEF TailInv
  <2> QED BY <2>1, <2>2
<1>4. WaitingInv'
  BY <1>1, <1>2, WaitingForward DEF TailInv
<1>5. ReadInv'
  BY <1>1 DEF TailInv, ReadInv
<1> QED BY <1>2, <1>3, <1>4, <1>5 DEF TailInv

LEMMA TailWriteKept ==
  ASSUME FilesInv, TailInv, NEW f \in Files, Write(f), UNCHANGED tailVars
  PROVE  TailInv'
<1>1. UNCHANGED <<at, read, start, refusals, stream, request, pending, chunk, text>>
  BY DEF tailVars, Write, ingestVars
<1>2. Forward /\ StreamInv'
  BY <1>1, StillForward DEF TailInv
<1>3. \A s \in Requests : GoodRequest(s)'
  BY <1>1, <1>2, RequestForward DEF TailInv
<1>4. WaitingInv'
  BY <1>1, <1>2, WaitingForward DEF TailInv
<1>5. ReadInv'
  <2>1. ReadInv /\ Grown(f) /\ FilesInv /\ FilesInv'
    BY WriteGrows DEF TailInv
  <2> SUFFICES ASSUME NEW g \in Files
               PROVE  /\ read[g].line <= file'[g].complete
                      /\ read[g].half # "no" /\ read[g].line = file'[g].complete
                           => file'[g].half = read[g].half
    BY <1>1, <2>1 DEF ReadInv
  <2>2. /\ read[g].line \in Nat /\ file[g].complete \in Nat /\ file'[g].complete \in Nat
        /\ read[g].line <= file[g].complete
        /\ read[g].half # "no" /\ read[g].line = file[g].complete => file[g].half = read[g].half
    BY <2>1 DEF ReadInv, FilesInv
  <2>3. CASE g # f
    BY <2>1, <2>2, <2>3 DEF Grown
  <2>4. CASE g = f
    BY <2>1, <2>2, <2>4 DEF Grown
  <2> QED BY <2>3, <2>4
<1> QED BY <1>2, <1>3, <1>4, <1>5 DEF TailInv

\* What readline() finds after n lines and the half h: part, and then it
\* stands after m lines and the half j.
Reads(f, n, h, part, m, j) ==
  \/ n < file[f].complete /\ h = "no" /\ part = "whole" /\ m = n + 1 /\ j = "no"
  \/ n < file[f].complete /\ h = "head" /\ part = "tail" /\ m = n + 1 /\ j = "no"
  \/ n < file[f].complete /\ h = "bare" /\ part = "blank" /\ m = n + 1 /\ j = "no"
  \/ n = file[f].complete /\ h = "no" /\ part \in {"head", "bare"} /\ part = file[f].half
       /\ m = n /\ j = part

Returned == Part \cup {"blank"}

LEMMA ReadLineReads ==
  ASSUME FilesInv, ReadInv, ReadLine
  PROVE  \E n \in Nat, h \in Half, m \in Nat, j \in Half, part \in Returned :
           /\ at \in Files /\ n = read[at].line /\ h = read[at].half
           /\ read' \in [Files -> [line : Nat, half : Half]]
           /\ m = read'[at].line /\ j = read'[at].half
           /\ \A g \in Files : g # at => read'[g] = read[g]
           /\ Reads(at, n, h, part, m, j) /\ n + 1 \in 1..MaxLines[at]
           /\ pending' = IF part = "blank" THEN pending
                         ELSE Append(pending, [line |-> <<at, n + 1>>, part |-> part])
<1> DEFINE n == read[at].line
           h == read[at].half
           part == NextPart(at)
           new == IF part \in {"head", "bare"} THEN [line |-> n, half |-> part]
                                               ELSE [line |-> n + 1, half |-> "no"]
<1>1. at \in Files /\ More(at)
  BY DEF ReadLine
<1>2. /\ n \in Nat /\ h \in Half /\ read \in [Files -> [line : Nat, half : Half]]
      /\ file[at].complete \in Nat /\ file[at].half \in Half /\ n <= file[at].complete
      /\ MaxLines[at] \in Nat /\ file[at].complete <= MaxLines[at]
      /\ file[at].half # "no" => file[at].complete < MaxLines[at]
  BY <1>1, LineShape DEF ReadInv, FilesInv
<1>3. read' = [read EXCEPT ![at] = new]
  <2>1. read' = [read EXCEPT ![at] =
              IF part \in {"head", "bare"} THEN [line |-> @.line, half |-> part]
                                           ELSE [line |-> @.line + 1, half |-> "no"]]
    BY DEF ReadLine
  <2> QED BY <1>1, <1>2, <2>1
<1>4. pending' = IF part = "blank" THEN pending
                 ELSE Append(pending, [line |-> <<at, n + 1>>, part |-> part])
  BY DEF ReadLine
<1>5. n < file[at].complete \/ (n = file[at].complete /\ h = "no" /\ file[at].half # "no")
  BY <1>1, <1>2 DEF More
<1>6. n + 1 \in 1..MaxLines[at]
  BY <1>2, <1>5
<1>7. CASE n < file[at].complete
  <2>1. n # file[at].complete
    BY <1>2, <1>7
  <2>2. \/ h = "no" /\ part = "whole"
        \/ h = "head" /\ part = "tail"
        \/ h = "bare" /\ part = "blank"
    <3>1. h = "no" \/ h = "head" \/ h = "bare"
      BY <1>2 DEF Half
    <3>2. h = "no" => part = "whole"
      BY <2>1 DEF NextPart
    <3>3. h = "head" => part = "tail"
      BY <2>1 DEF NextPart
    <3>4. h = "bare" => part = "blank"
      BY <2>1 DEF NextPart
    <3> QED BY <3>1, <3>2, <3>3, <3>4
  <2>3. part \notin {"head", "bare"}
    BY <2>2
  <2>4. new = [line |-> n + 1, half |-> "no"]
    BY <2>3
  <2> HIDE DEF new, part
  <2>5. new \in [line : Nat, half : Half] /\ new.line = n + 1 /\ new.half = "no"
    BY <1>2, <2>4 DEF Half
  <2>6. /\ read' \in [Files -> [line : Nat, half : Half]] /\ read'[at] = new
        /\ \A g \in Files : g # at => read'[g] = read[g]
    BY <1>1, <1>2, <1>3, <2>5
  <2>7. Reads(at, n, h, part, n + 1, "no")
    BY <1>7, <2>2 DEF Reads
  <2>8. n + 1 \in Nat /\ "no" \in Half
    BY <1>2 DEF Half
  <2>9. part \in Returned
    BY <2>7 DEF Reads, Returned, Part
  <2> QED BY <1>1, <1>2, <1>4, <1>6, <2>5, <2>6, <2>7, <2>8, <2>9
<1>8. CASE n = file[at].complete
  <2>1. h = "no" /\ part = file[at].half /\ part \in {"head", "bare"}
    BY <1>2, <1>5, <1>8 DEF NextPart, Half
  <2>4. new = [line |-> n, half |-> part]
    BY <2>1
  <2> HIDE DEF new, part
  <2>5. new \in [line : Nat, half : Half] /\ new.line = n /\ new.half = part
    BY <1>2, <2>1, <2>4 DEF Half
  <2>6. /\ read' \in [Files -> [line : Nat, half : Half]] /\ read'[at] = new
        /\ \A g \in Files : g # at => read'[g] = read[g]
    BY <1>1, <1>2, <1>3, <2>5
  <2>7. Reads(at, n, h, part, n, part)
    BY <1>8, <2>1 DEF Reads
  <2>8. part \in Half
    BY <2>1 DEF Half
  <2>9. part \in Returned
    BY <2>7 DEF Reads, Returned, Part
  <2> QED BY <1>1, <1>2, <1>4, <1>6, <2>5, <2>6, <2>7, <2>8, <2>9, ZenonT(30)
<1> QED BY <1>5, <1>7, <1>8

LEMMA AppendToBoth ==
  ASSUME NEW S, NEW c \in Seq(S), NEW p \in Seq(S), NEW x \in S
  PROVE  c \o Append(p, x) = Append(c \o p, x)
<1>1. /\ c \o p \in Seq(S) /\ <<x>> \in Seq(S)
  BY ConcatProperties
<1>2. Append(p, x) = p \o <<x>>
  BY AppendIsConcat
<1>3. Append(c \o p, x) = (c \o p) \o <<x>>
  BY <1>1, AppendIsConcat
<1>4. (c \o p) \o <<x>> = c \o (p \o <<x>>)
  BY <1>1, ConcatAssociative
<1> QED BY <1>2, <1>3, <1>4

LEMMA TailReadLineKept ==
  ASSUME ServerInv, FilesInv, PostInv, TailInv, ReadLine
  PROVE  TailInv'
<1>1. ReadInv /\ WaitingInv /\ StreamInv /\ pending \in Seq(Piece) /\ chunk \in Seq(Piece)
  BY DEF TailInv, PostInv
<1>2. PICK n \in Nat, h \in Half, m \in Nat, j \in Half, part \in Returned :
           /\ at \in Files /\ n = read[at].line /\ h = read[at].half
           /\ read' \in [Files -> [line : Nat, half : Half]]
           /\ m = read'[at].line /\ j = read'[at].half
           /\ \A g \in Files : g # at => read'[g] = read[g]
           /\ Reads(at, n, h, part, m, j) /\ n + 1 \in 1..MaxLines[at]
           /\ pending' = IF part = "blank" THEN pending
                         ELSE Append(pending, [line |-> <<at, n + 1>>, part |-> part])
  BY <1>1, ReadLineReads
<1>3. PICK f \in Files : f = at
  BY <1>2
<1>4. UNCHANGED <<start, refusals, request, stream, file, chunk, text>>
  BY DEF ReadLine, ingestVars
<1>5. /\ n = read[f].line /\ h = read[f].half /\ m = read'[f].line /\ j = read'[f].half
      /\ \A g \in Files : g # f => read'[g] = read[g]
      /\ Reads(f, n, h, part, m, j) /\ n + 1 \in 1..MaxLines[f]
  BY <1>2, <1>3
<1>6. Forward
  <2>1. ASSUME NEW p \in Piece, WasRead(p) PROVE WasRead(p)'
    <3>1. p.line[1] \in Files /\ p.line[2] \in Nat /\ p.part # "no"
      BY LineShape DEF Piece, Part
    <3>2. CASE p.line[1] # f
      BY <1>5, <2>1, <3>1, <3>2 DEF WasRead
    <3>3. CASE p.line[1] = f
      <4>1. p.line[2] <= n \/ (p.line[2] = n + 1 /\ p.part = h)
        BY <1>5, <2>1, <3>3 DEF WasRead
      <4>2. p.line[2] <= m
        BY <1>5, <3>1, <4>1 DEF Reads
      <4> QED BY <1>5, <3>3, <4>2 DEF WasRead
    <3> QED BY <3>2, <3>3
  <2>2. \A l : Stored(l) => Stored(l)'
    BY <1>4 DEF Stored, StoredLine
  <2> QED BY <1>4, <2>1, <2>2 DEF Forward
<1>7. ReadInv'
  <2> SUFFICES ASSUME NEW g \in Files
        PROVE  /\ read'[g].line <= file[g].complete
               /\ read'[g].half # "no" /\ read'[g].line = file[g].complete => file[g].half = read'[g].half
               /\ start[g] <= read'[g].line \/ (read'[g].half # "no" /\ start[g] = read'[g].line + 1)
    BY <1>1, <1>2, <1>4 DEF ReadInv
  <2>1. CASE g # f
    BY <1>1, <1>5, <2>1 DEF ReadInv
  <2>2. CASE g = f
    <3>1. /\ n <= file[f].complete /\ start[f] \in Nat /\ file[f].complete \in Nat
          /\ start[f] <= n \/ (h # "no" /\ start[f] = n + 1)
      BY <1>1, <1>5 DEF ReadInv, FilesInv
    <3>2. /\ m <= file[f].complete
          /\ j # "no" /\ m = file[f].complete => file[f].half = j
          /\ start[f] <= m
      BY <1>5, <3>1 DEF Reads
    <3> QED BY <1>5, <2>2, <3>2
  <2> QED BY <2>1, <2>2
<1>8. StreamInv'
  <2>1. \A i \in 1..Len(stream) : StoredLine(i) \in FileLines
    BY StoredLines
  <2>2. ASSUME NEW l \in FileLines, Finished(l) PROVE Finished(l)'
    <3>1. l[1] \in Files /\ l[2] \in Nat
      BY LineShape
    <3>2. CASE l[1] # f
      BY <1>5, <2>2, <3>1, <3>2 DEF Finished
    <3>3. CASE l[1] = f
      <4>1. l[2] <= n \/ (l[2] = n + 1 /\ h = "bare")
        BY <1>5, <2>2, <3>3 DEF Finished
      <4>2. l[2] <= m
        BY <1>5, <3>1, <4>1 DEF Reads
      <4> QED BY <1>5, <3>3, <4>2 DEF Finished
    <3> QED BY <3>2, <3>3
  <2>3. ASSUME NEW i \in 1..Len(stream)' PROVE Finished(StoredLine(i))'
    <3>1. i \in 1..Len(stream) /\ StoredLine(i)' = StoredLine(i)
      BY <1>4 DEF StoredLine
    <3>2. PICK l \in FileLines : l = StoredLine(i)
      BY <2>1, <3>1
    <3>3. Finished(l)' /\ StoredLine(i)' = l
      BY <1>1, <2>2, <3>1, <3>2 DEF StreamInv
    <3> QED BY <3>3 DEF Finished
  <2> QED BY <2>3 DEF StreamInv
<1>9. \A r \in Requests : GoodRequest(r)'
  BY <1>4, <1>6, RequestForward DEF TailInv
<1>10. PICK w : Waits(w) /\ Good(w) /\ Kept(w)
  BY <1>1 DEF WaitingInv
<1>11. ASSUME NEW g \in Files, NEW k \in 1..MaxLines[g], Taken(g, k)'
       PROVE  Taken(g, k) \/ (g = f /\ k = n + 1 /\ part # "blank")
  <2>1. CASE g # f
    BY <1>4, <1>5, <1>11, <2>1 DEF Taken
  <2>2. CASE g = f
    <3>1. k > start[g] /\ (k <= m \/ (k = m + 1 /\ j # "no")) /\ k \in Nat
      BY <1>4, <1>5, <1>11, <2>2 DEF Taken
    <3>2. k <= n \/ (k = n + 1 /\ (part # "blank" \/ h # "no"))
      BY <1>5, <3>1 DEF Reads
    <3> QED BY <1>5, <2>2, <3>1, <3>2 DEF Taken
  <2> QED BY <2>1, <2>2
<1>12. CASE part = "blank"
  <2>1. Waits(w)' /\ w \in Seq(Piece)
    BY <1>2, <1>4, <1>10, <1>12 DEF Waits
  <2>2. Good(w)'
    BY <1>6, <1>10, <2>1, GoodForward
  <2>3. Kept(w)'
    BY <1>6, <1>10, <1>11, <1>12 DEF Kept, Forward, InText
  <2>4. WaitingInv'
    BY <2>1, <2>2, <2>3 DEF WaitingInv
  <2> QED BY <1>7, <1>8, <1>9, <2>4 DEF TailInv
<1>13. CASE part # "blank"
  <2>1. PICK l : l = <<f, n + 1>>
    OBVIOUS
  <2>2. l \in FileLines /\ l[1] = f /\ l[2] = n + 1
    BY <1>5, <2>1, LineShape
  <2>3. PICK p : p = [line |-> l, part |-> part]
    OBVIOUS
  <2>4. p \in Piece /\ p.line = l /\ p.part = part /\ pending' = Append(pending, p)
    <3>1. part \in Part
      BY <1>5, <1>13 DEF Reads, Part
    <3> QED BY <1>2, <1>3, <1>13, <2>1, <2>2, <2>3, <3>1 DEF Piece
  <2>5. PICK v : v = Append(w, p)
    OBVIOUS
  <2>6. w \in Seq(Piece) /\ w = chunk \o pending
    BY <1>10 DEF Waits
  <2>7. v \in Seq(Piece) /\ v = chunk' \o pending'
    <3>1. chunk \o Append(pending, p) = Append(chunk \o pending, p)
      BY <1>1, <2>4, AppendToBoth
    <3>2. v \in Seq(Piece)
      BY <2>4, <2>5, <2>6
    <3> QED BY <1>4, <2>4, <2>5, <2>6, <3>1, <3>2
  <2>8. /\ Len(v) = Len(w) + 1 /\ Len(w) \in Nat /\ v[Len(w) + 1] = p
        /\ \A i \in 1..Len(w) : v[i] = w[i] /\ w[i] \in Piece
    BY <2>4, <2>5, <2>6
  <2>9. WasRead(p)' /\ Begun(p)'
    <3>1. WasRead(p)'
      BY <1>5, <1>13, <2>2, <2>4 DEF WasRead, Reads
    <3>2. start[f] \in Nat /\ (start[f] <= n \/ (h # "no" /\ start[f] = n + 1))
      BY <1>1, <1>5 DEF ReadInv
    <3>3. start[f] <= n \/ (start[f] = n + 1 /\ part = "tail")
      BY <1>5, <1>13, <3>2 DEF Reads
    <3>4. n + 1 > start[f] \/ (n + 1 = start[f] /\ part = "tail")
      BY <3>2, <3>3
    <3>5. Begun(p)
      BY <2>2, <2>4, <3>4 DEF Begun
    <3> QED BY <1>4, <3>1, <3>5 DEF Begun
  <2>10. ASSUME NEW i \in 1..Len(w) PROVE Follows(w[i], p)
    <3>1. WasRead(w[i]) /\ w[i].line \in FileLines /\ w[i].part # "no"
      BY <1>10, <2>8 DEF Good, Piece, Part
    <3>2. w[i].line[2] \in Nat
      BY <3>1, LineShape
    <3>3. CASE w[i].line[1] = f
      <4>1. w[i].line[2] <= n \/ (w[i].line[2] = n + 1 /\ w[i].part = h)
        BY <1>5, <3>1, <3>3 DEF WasRead
      <4>2. w[i].part = h => h = "head" /\ part = "tail"
        BY <1>5, <1>13, <3>1 DEF Reads
      <4> QED BY <2>2, <2>4, <3>2, <4>1, <4>2 DEF Follows
    <3>4. CASE w[i].line[1] # f
      BY <2>2, <2>4, <3>4 DEF Follows
    <3> QED BY <3>3, <3>4
  <2>11. ASSUME NEW k \in Before(l)
         PROVE  Stored(<<f, k>>) \/ InText(w, <<f, k>>, Len(w))
    <3>1. start[f] \in Nat /\ k \in start[f] + 1..n /\ MaxLines[f] \in Nat
      BY <1>1, <2>2, <2>11, LineShape DEF Before, ReadInv
    <3>2. k \in 1..MaxLines[f] /\ Taken(f, k)
      BY <1>5, <3>1 DEF Taken
    <3> QED BY <1>10, <3>2 DEF Kept
  <2>12. ASSUME NEW c, InText(w, c, Len(w)) PROVE InText(v, c, Len(w)) /\ InText(v, c, Len(v))
    BY <2>8, <2>12 DEF InText
  <2>13. \A i \in 1..Len(v) : i \in 1..Len(w) \/ i = Len(w) + 1
    BY <2>8
  <2>14. Ordered(v)
    <3> SUFFICES ASSUME NEW i \in 1..Len(v), NEW k \in 1..Len(v), i < k PROVE Follows(v[i], v[k])
      BY DEF Ordered
    <3>1. i \in 1..Len(w)
      BY <2>8
    <3>2. CASE k \in 1..Len(w)
      BY <1>10, <2>8, <3>1, <3>2 DEF Good, Ordered
    <3>3. CASE k = Len(w) + 1
      BY <2>8, <2>10, <3>1, <3>3
    <3> QED BY <2>13, <3>2, <3>3
  <2>15. Good(w)'
    BY <1>6, <1>10, <2>6, GoodForward
  <2>16. \A i \in 1..Len(v) : WasRead(v[i])' /\ Begun(v[i])'
    <3> SUFFICES ASSUME NEW i \in 1..Len(v) PROVE WasRead(v[i])' /\ Begun(v[i])'
      OBVIOUS
    <3>1. CASE i \in 1..Len(w)
      <4>1. WasRead(w[i])' /\ Begun(w[i])'
        BY <2>15, <3>1 DEF Good
      <4> QED BY <2>8, <3>1, <4>1
    <3>2. CASE i = Len(w) + 1
      BY <2>8, <2>9, <3>2
    <3> QED BY <2>13, <3>1, <3>2
  <2>17. Unbroken(v)'
    <3> SUFFICES ASSUME NEW i \in 1..Len(v), NEW k \in Before(v[i].line)'
          PROVE  Stored(<<v[i].line[1], k>>)' \/ InText(v, <<v[i].line[1], k>>, i - 1)
      BY DEF Unbroken, InText
    <3>1. CASE i \in 1..Len(w)
      <4>1. PICK c : c = <<w[i].line[1], k>>
        OBVIOUS
      <4>2. Stored(c)' \/ InText(w, c, i - 1)
        BY <2>8, <2>15, <3>1, <4>1 DEF Good, Unbroken, InText, Before
      <4>3. InText(w, c, i - 1) => InText(v, c, i - 1)
        BY <2>8, <3>1 DEF InText
      <4> QED BY <2>8, <3>1, <4>1, <4>2, <4>3
    <3>2. CASE i = Len(w) + 1
      <4>1. v[i].line = l /\ i - 1 = Len(w) /\ k \in Before(l)
        BY <1>4, <2>4, <2>8, <3>2 DEF Before
      <4>2. PICK c : c = <<f, k>>
        OBVIOUS
      <4>3. Stored(c) \/ InText(w, c, Len(w))
        BY <2>11, <4>1, <4>2
      <4>4. Stored(c)' \/ InText(v, c, Len(w))
        BY <1>6, <2>12, <4>3 DEF Forward
      <4> QED BY <2>2, <4>1, <4>2, <4>4
    <3> QED BY <2>13, <3>1, <3>2
  <2>18. Good(v)'
    BY <2>14, <2>16, <2>17 DEF Good, Ordered, Follows
  <2>19. Kept(v)'
    <3> SUFFICES ASSUME NEW g \in Files, NEW k \in 1..MaxLines[g], Taken(g, k)'
          PROVE  Stored(<<g, k>>)' \/ InText(v, <<g, k>>, Len(v))
      BY DEF Kept, InText
    <3>1. PICK c : c = <<g, k>>
      OBVIOUS
    <3>2. CASE Taken(g, k)
      <4>1. Stored(c) \/ InText(w, c, Len(w))
        BY <1>10, <3>1, <3>2 DEF Kept
      <4> QED BY <1>6, <2>12, <3>1, <4>1 DEF Forward
    <3>3. CASE g = f /\ k = n + 1
      <4>1. Len(w) + 1 \in 1..Len(v) /\ v[Len(w) + 1].line = c
        BY <2>1, <2>4, <2>8, <3>1, <3>3
      <4> QED BY <3>1, <4>1 DEF InText
    <3> QED BY <1>11, <3>2, <3>3
  <2>20. WaitingInv'
    BY <2>7, <2>18, <2>19 DEF WaitingInv, Waits
  <2> QED BY <1>7, <1>8, <1>9, <2>20 DEF TailInv
<1> QED BY <1>12, <1>13

\* At least one piece is sent, and no more than there are.
LEMMA ChunkSizeOk ==
  ASSUME pending \in Seq(Piece), pending # <<>>
  PROVE  ChunkSize \in 1..Len(pending)
<1>1. PICK n : n = Len(pending)
  OBVIOUS
<1>2. n \in Nat /\ n >= 1 /\ Slots \in Nat /\ Slots >= 1
  BY <1>1, TailerAssumption DEF TailerAssumption
<1>3. PICK s : s = Slots
  OBVIOUS
<1>4. PICK q : q = (n + s - 1) \div s
  OBVIOUS
<1>5. n + s - 1 \in Int /\ s \in Nat /\ s >= 1
  BY <1>2, <1>3
<1>6. q \in Int /\ s * q <= n + s - 1 /\ n + s - 1 < s * (q + 1)
  BY <1>4, <1>5, SMTT(30)
<1>7. q >= 1
  <2> SUFFICES ASSUME q <= 0 PROVE FALSE
    BY <1>6
  <2>1. s * (q + 1) <= s
    BY <1>5, <1>6
  <2> QED BY <1>2, <1>5, <1>6, <2>1
<1>8. q <= n
  <2> SUFFICES ASSUME q >= n + 1 PROVE FALSE
    BY <1>2, <1>6
  <2>1. s * q >= s * (n + 1)
    BY <1>2, <1>5, <1>6
  <2>2. s * (n + 1) >= n + s
    <3>1. s * (n + 1) = s * n + s /\ s * n >= n
      BY <1>2, <1>5
    <3> QED BY <1>2, <1>5, <3>1
  <2> QED BY <1>2, <1>5, <1>6, <2>1, <2>2
<1> QED BY <1>1, <1>2, <1>3, <1>4, <1>6, <1>7, <1>8 DEF ChunkSize

LEMMA TailIdleKept ==
  ASSUME ServerInv, FilesInv, PostInv, TailInv, NextFile \/ Sleep
  PROVE  ServerInv' /\ FilesInv' /\ PostInv' /\ TailInv'
<1>1. UNCHANGED <<stream, request, file, pending, chunk, post, text, faults, read, start, refusals>>
  BY DEF NextFile, Sleep, postingVars, ingestVars
<1>2. ServerInv' /\ FilesInv' /\ PostInv'
  BY <1>1 DEF ServerInv, FilesInv, PostInv
<1>3. Forward /\ StreamInv'
  BY <1>1, StillForward DEF TailInv
<1>4. WaitingInv' /\ \A r \in Requests : GoodRequest(r)'
  BY <1>1, <1>3, WaitingForward, RequestForward DEF TailInv
<1>5. ReadInv'
  BY <1>1 DEF TailInv, ReadInv
<1> QED BY <1>2, <1>3, <1>4, <1>5 DEF TailInv

\* What a post sends still waits, with the rest behind it.
LEMMA TailSends ==
  ASSUME ServerInv, FilesInv, PostInv, TailInv, Flush
  PROVE  /\ post = None /\ UNCHANGED tailVars
         /\ \E r \in Requests : \E n \in 1..Len(pending) : SentAs(r, n)
<1>1. PICK r \in Requests : SentAs(r, ChunkSize)
  BY DEF Flush, Send, SentAs
<1>2. ChunkSize \in 1..Len(pending)
  BY ChunkSizeOk DEF Flush, PostInv
<1> QED BY <1>1, <1>2 DEF Flush

LEMMA TailSendKept ==
  ASSUME ServerInv, FilesInv, PostInv, TailInv, Flush
  PROVE  TailInv'
<1>1. post = None /\ UNCHANGED tailVars
  BY TailSends
<1>2. PICK r \in Requests, n \in 1..Len(pending) : SentAs(r, n)
  BY TailSends
<1>3. UNCHANGED <<at, read, start, refusals, stream, request, file>>
  BY <1>1, <1>2 DEF tailVars, SentAs, ingestVars
<1>4. /\ chunk' \in Seq(Piece) /\ Len(chunk') = n /\ \A i \in 1..n : chunk'[i] = pending[i]
      /\ text'[r] = chunk' /\ \A s \in Requests : s # r => text'[s] = text[s]
  BY <1>1, <1>2, SendOk
<1>5. Forward /\ StreamInv'
  BY <1>3, StillForward DEF TailInv
<1>6. ReadInv'
  BY <1>3 DEF TailInv, ReadInv
<1>7. PICK w : Waits(w) /\ Good(w) /\ Kept(w)
  BY DEF TailInv, WaitingInv
<1>8. w = pending /\ w \in Seq(Piece)
  BY <1>1, <1>7, ConcatEmptySeq DEF Waits, PostInv
<1>9. w = chunk' \o pending'
  <2>1. /\ 1 \in 1..Len(w) + 1 /\ n \in 1 - 1..Len(w) /\ Len(w) \in n..Len(w)
    BY <1>8
  <2>2. SubSeq(w, 1, n) \o SubSeq(w, n + 1, Len(w)) = SubSeq(w, 1, Len(w))
    BY <1>8, <2>1, ConcatAdjacentSubSeq
  <2> QED BY <1>2, <1>8, <2>2, SubSeqFull DEF SentAs
<1>10. WaitingInv'
  <2>1. Good(w)'
    BY <1>5, <1>7, <1>8, GoodForward
  <2>2. Kept(w)'
    BY <1>3, <1>5, <1>7 DEF Kept, Forward, Taken, InText
  <2> QED BY <1>8, <1>9, <2>1, <2>2 DEF WaitingInv, Waits
<1>11. ASSUME NEW s \in Requests, s # r PROVE GoodRequest(s)'
  BY <1>3, <1>4, <1>5, <1>11, RequestForward DEF TailInv
<1>12. GoodRequest(r)'
  <2>1. PICK c : c = chunk'
    OBVIOUS
  <2>2. Good(c)
    BY <1>4, <1>7, <1>8, <2>1, GoodPart
  <2>3. Good(c)' /\ c \in Seq(Piece) /\ text'[r] = c
    BY <1>4, <1>5, <2>1, <2>2, GoodForward
  <2>4. PICK b \in Seq(Seq(Piece)) :
           request[r].body = b /\ GoodBody(b) /\ AllStored(b, request[r].accepted)
    BY DEF TailInv, GoodRequest
  <2>5. GoodBody(b)' /\ AllStored(b, request[r].accepted)'
    BY <1>3, <1>5, <2>4, BodyForward DEF AllStored, Forward
  <2> QED BY <1>3, <2>3, <2>4, <2>5 DEF GoodRequest
<1> QED BY <1>5, <1>6, <1>10, <1>11, <1>12 DEF TailInv

\* After a 202 every line of what was sent is stored.
LEMMA SentIsStored ==
  ASSUME ServerInv, PostInv, TailInv, Heard(202)
  PROVE  \A i \in 1..Len(chunk) : Stored(chunk[i].line)
<1>1. /\ post \in Requests /\ request[post].answer = 202
      /\ request[post].body = Split(chunk)
  BY HeardOk
<1>2. PICK b \in Seq(Seq(Piece)) :
         request[post].body = b /\ AllStored(b, request[post].accepted)
  BY <1>1 DEF TailInv, GoodRequest
<1>3. RequestOk(request[post])
  BY <1>1 DEF ServerInv
<1>4. AllStored(b, Len(b)) /\ \A k \in 1..Len(b) : b[k] \in Objects
  BY <1>1, <1>2, <1>3 DEF RequestOk
<1>5. ASSUME NEW i \in 1..Len(chunk) PROVE Stored(chunk[i].line)
  <2>4. PICK t \in Seq(Piece) : t = chunk
    BY DEF PostInv
  <2>5. b = Split(t) /\ i \in 1..Len(t)
    BY <1>1, <1>2, <2>4
  <2>6. \E k \in 1..Len(Split(t)) : \E x \in 1..Len(Split(t)[k]) : Split(t)[k][x] = t[i]
    BY <2>5, SplitCovers
  <2>3. PICK k \in 1..Len(b) : \E x \in 1..Len(b[k]) : b[k][x] = chunk[i]
    BY <2>4, <2>5, <2>6
  <2>1. PICK x \in 1..Len(b[k]) : b[k][x] = chunk[i]
    BY <2>3
  <2>2. b[k][x].line = b[k][1].line
    BY <1>4, ObjectShape
  <2> QED BY <1>4, <2>1, <2>2 DEF AllStored
<1> QED BY <1>5

LEMMA TailSentKept ==
  ASSUME ServerInv, FilesInv, PostInv, TailInv, Sent
  PROVE  TailInv'
<1>1. Heard(202) /\ UNCHANGED <<file, pending, read, start, refusals, stream, text>> /\ chunk' = <<>>
  BY DEF Sent, Heard
<1>2. post \in Requests /\ Only(post, NotMade) /\ text[post] = <<>>
  BY <1>1, HeardOk
<1>3. Forward /\ StreamInv'
  BY <1>1, StillForward DEF TailInv
<1>4. ReadInv'
  BY <1>1 DEF TailInv, ReadInv
<1>5. ASSUME NEW s \in Requests PROVE GoodRequest(s)'
  <2>1. CASE s = post
    BY <1>1, <1>2, <2>1, FreedGood DEF Only
  <2>2. CASE s # post
    BY <1>1, <1>2, <1>3, <2>2, RequestForward DEF Only, TailInv
  <2> QED BY <2>1, <2>2
<1>6. PICK w : Waits(w) /\ Good(w) /\ Kept(w)
  BY DEF TailInv, WaitingInv
<1>7. PICK c \in Seq(Piece), v \in Seq(Piece) : c = chunk /\ v = pending
  BY DEF PostInv
<1>8. \A i \in 1..Len(c) : Stored(c[i].line)
  BY <1>1, <1>7, SentIsStored
<1>9. /\ w \in Seq(Piece) /\ Len(w) = Len(c) + Len(v)
      /\ \A i \in 1..Len(c) : w[i] = c[i]
      /\ \A i \in 1..Len(v) : v[i] = w[Len(c) + i]
  <2>1. w = c \o v /\ w \in Seq(Piece)
    BY <1>6, <1>7 DEF Waits
  <2>2. /\ Len(c \o v) = Len(c) + Len(v)
        /\ \A i \in 1..Len(c) + Len(v) : (c \o v)[i] = IF i <= Len(c) THEN c[i] ELSE v[i - Len(c)]
    BY ConcatProperties
  <2>3. Len(c) \in Nat /\ Len(v) \in Nat
    OBVIOUS
  <2>4. \A i \in 1..Len(c) : w[i] = c[i]
    BY <2>1, <2>2, <2>3
  <2>5. ASSUME NEW i \in 1..Len(v) PROVE v[i] = w[Len(c) + i]
    <3>1. Len(c) + i \in 1..Len(c) + Len(v) /\ ~(Len(c) + i <= Len(c)) /\ Len(c) + i - Len(c) = i
      BY <2>3
    <3> QED BY <2>1, <2>2, <3>1
  <2> QED BY <2>1, <2>2, <2>4, <2>5
<1>10. Good(v)
  <2>1. Len(c) \in 0..Len(w) /\ Len(v) = Len(w) - Len(c) /\ Len(c) \in Nat /\ Len(v) \in Nat
    BY <1>9
  <2>2. \A i \in 1..Len(c) : Stored(w[i].line)
    BY <1>8, <1>9
  <2> QED BY <1>6, <1>9, <2>1, <2>2, GoodRest
<1>11. Kept(v)
  <2> SUFFICES ASSUME NEW f \in Files, NEW n \in 1..MaxLines[f], Taken(f, n)
               PROVE  Stored(<<f, n>>) \/ InText(v, <<f, n>>, Len(v))
    BY DEF Kept
  <2>1. PICK l : l = <<f, n>>
    OBVIOUS
  <2>2. Stored(l) \/ InText(w, l, Len(w))
    BY <1>6, <2>1 DEF Kept
  <2>3. ASSUME NEW i \in 1..Len(w), w[i].line = l
        PROVE  Stored(l) \/ InText(v, l, Len(v))
    <3>1. CASE i \in 1..Len(c)
      BY <1>8, <1>9, <2>3, <3>1
    <3>2. CASE i \notin 1..Len(c)
      <4>1. i - Len(c) \in 1..Len(v) /\ Len(c) + (i - Len(c)) = i
        BY <1>9, <3>2
      <4> QED BY <1>9, <2>3, <4>1 DEF InText
    <3> QED BY <3>1, <3>2
  <2> QED BY <2>1, <2>2, <2>3 DEF InText
<1>12. WaitingInv'
  <2>1. Good(v)'
    BY <1>3, <1>10, GoodForward
  <2>2. Kept(v)'
    BY <1>1, <1>3, <1>11 DEF Kept, Forward, Taken, InText
  <2>3. v = chunk' \o pending'
    BY <1>1, <1>7, ConcatEmptySeq
  <2> QED BY <2>1, <2>2, <2>3 DEF WaitingInv, Waits
<1> QED BY <1>3, <1>4, <1>5, <1>12 DEF TailInv

LEMMA TailSendFailedKept ==
  ASSUME ServerInv, FilesInv, PostInv, TailInv, SendFailed
  PROVE  TailInv'
<1>1. /\ UNCHANGED <<file, read, start, stream, text>> /\ chunk' = <<>>
      /\ pending' = chunk \o pending
      /\ refusals' = refusals + (IF request[post].answer = 400 THEN 1 ELSE 0)
  BY DEF SendFailed, Refused, Heard, GivenUp, ingestVars
<1>2. Forward /\ StreamInv'
  BY <1>1, StillForward DEF TailInv
<1>3. ReadInv'
  BY <1>1 DEF TailInv, ReadInv
<1>5. ASSUME NEW s \in Requests PROVE GoodRequest(s)'
  <2>1. CASE GivenUp
    BY <1>1, <1>2, <2>1, RequestForward DEF TailInv, GivenUp, ingestVars
  <2>2. ASSUME NEW code \in {400, 413, 503}, Heard(code) PROVE GoodRequest(s)'
    <3>1. post \in Requests /\ Only(post, NotMade) /\ text[post] = <<>>
      BY <2>2, HeardOk
    <3>2. CASE s = post
      BY <1>1, <3>1, <3>2, FreedGood DEF Only
    <3>3. CASE s # post
      BY <1>1, <1>2, <3>1, <3>3, RequestForward DEF Only, TailInv
    <3> QED BY <3>2, <3>3
  <2> QED BY <2>1, <2>2 DEF SendFailed, Refused
<1>6. PICK w : Waits(w) /\ Good(w) /\ Kept(w)
  BY DEF TailInv, WaitingInv
<1>7. WaitingInv'
  <2>1. w \in Seq(Piece) /\ w = pending'
    BY <1>1, <1>6 DEF Waits
  <2>2. Good(w)'
    BY <1>2, <1>6, <2>1, GoodForward
  <2>3. Kept(w)'
    BY <1>1, <1>2, <1>6 DEF Kept, Forward, Taken, InText
  <2>4. w = chunk' \o pending'
    BY <1>1, <2>1, ConcatEmptySeq
  <2> QED BY <2>1, <2>2, <2>3, <2>4 DEF WaitingInv, Waits
<1> QED BY <1>2, <1>3, <1>5, <1>7 DEF TailInv

-----------------------------------------------------------------------------
(* How often a line may be stored: it is in the stream, a request that was *)
(* given up may still add it, or the tailer is to post it; each time more  *)
(* than the first was paid for by a failure.                               *)

InPieces(t, l) == \E i \in 1..Len(t) : t[i].line = l
Accepted(r, l) == \E k \in 1..request[r].accepted : request[r].body[k][1].line = l
MayAdd(r, l) ==
  \/ InPieces(text[r], l)
  \/ /\ request[r].step = "adding"
     /\ \E k \in request[r].accepted + 1..Len(request[r].body) :
          request[r].body[k] \in Objects /\ request[r].body[k][1].line = l
GivenUpWith(l) == {r \in Requests : r # post /\ MayAdd(r, l)}

\* The tailer has it still to read or to post, or its post may add it or
\* will not hear that it did.
Due(l) ==
  \/ ~Finished(l)
  \/ InPieces(pending, l)
  \/ InPieces(chunk, l) /\ (~Accepted(post, l) \/ request[post].answer = 503)
Dues(l) == IF Due(l) THEN 1 ELSE 0
Counted(l) ==
  /\ IsFiniteSet(GivenUpWith(l))
  /\ Copies(l) + Cardinality(GivenUpWith(l)) + Dues(l) <= 1 + faults + refusals
CountInv == \A l \in FileLines : Counted(l)

LEMMA CopiesGrow ==
  ASSUME ServerInv, NEW l
  PROVE  /\ Copies(l) \in Nat
         /\ UNCHANGED stream => Copies(l)' = Copies(l)
         /\ \A r \in Requests, o \in Objects : Added(r, o) =>
              Copies(l)' = Copies(l) + (IF o[1].line = l THEN 1 ELSE 0)
<1> DEFINE I == {i \in 1..Len(stream) : StoredLine(i) = l}
<1>1. stream \in Seq(Entry) /\ Len(stream) \in Nat
  BY DEF ServerInv
<1>2. DOMAIN stream = 1..Len(stream) /\ Copies(l) = Cardinality(I)
  <2>1. DOMAIN stream = 1..Len(stream)
    BY <1>1
  <2> QED BY <2>1 DEF Copies
<1>3. IsFiniteSet(I) /\ Cardinality(I) \in Nat
  <2>1. IsFiniteSet(1..Len(stream)) /\ I \in SUBSET (1..Len(stream))
    BY <1>1, FS_Interval
  <2> QED BY <2>1, FS_Subset, FS_CardinalityType
<1>4. ASSUME UNCHANGED stream PROVE Copies(l)' = Copies(l)
  BY <1>4 DEF Copies, StoredLine
<1>5. ASSUME NEW r \in Requests, NEW o \in Objects, Added(r, o)
      PROVE  Copies(l)' = Copies(l) + (IF o[1].line = l THEN 1 ELSE 0)
  <2>1. /\ Len(stream') = Len(stream) + 1
        /\ \A i \in 1..Len(stream) : StoredLine(i)' = StoredLine(i)
        /\ stream'[Len(stream) + 1].line = o
    BY <1>5, StreamGrows
  <2>2. PICK n : n = Len(stream)
    OBVIOUS
  <2>3. n \in Nat /\ StoredLine(n + 1)' = o[1].line
    BY <1>1, <2>1, <2>2 DEF StoredLine
  <2>4. DOMAIN stream' = 1..n + 1
    <3>1. stream' \in Seq(Entry)
      <4>1. [from |-> r, line |-> o] \in Entry
        BY DEF Entry
      <4> HIDE DEF Entry
      <4> QED BY <1>1, <1>5, <4>1 DEF Added
    <3> QED BY <2>1, <2>2, <3>1
  <2> DEFINE J == {i \in 1..n + 1 : StoredLine(i)' = l}
  <2>5. Copies(l)' = Cardinality(J)
    BY <2>4 DEF Copies
  <2>6. \A i : i \in 1..n + 1 <=> (i \in 1..n \/ i = n + 1)
    BY <2>3
  <2>7. n + 1 \notin I /\ I = {i \in 1..n : StoredLine(i)' = l}
    BY <2>1, <2>2, <2>3
  <2>8. CASE o[1].line = l
    <3>1. J = I \cup {n + 1}
      BY <2>3, <2>6, <2>7, <2>8
    <3>2. Cardinality(I \cup {n + 1}) = Cardinality(I) + 1
      BY <1>3, <2>7, FS_AddElement
    <3> QED BY <1>2, <2>5, <2>8, <3>1, <3>2
  <2>9. CASE o[1].line # l
    <3>1. J = I
      BY <2>3, <2>6, <2>7, <2>9
    <3>2. Cardinality(J) = Cardinality(I)
      BY <3>1
    <3> HIDE DEF I, J
    <3>3. Copies(l)' = Copies(l) /\ Copies(l) \in Nat
      BY <1>2, <1>3, <2>5, <3>2
    <3> QED BY <2>9, <3>3
  <2> QED BY <2>8, <2>9
<1> QED BY <1>2, <1>3, <1>4, <1>5

LEMMA FewerGivenUp ==
  ASSUME NEW l, IsFiniteSet(GivenUpWith(l))
  PROVE  /\ Cardinality(GivenUpWith(l)) \in Nat
         /\ GivenUpWith(l)' \subseteq GivenUpWith(l) =>
              /\ IsFiniteSet(GivenUpWith(l)') /\ Cardinality(GivenUpWith(l)') \in Nat
              /\ Cardinality(GivenUpWith(l)') <= Cardinality(GivenUpWith(l))
         /\ \A r \in GivenUpWith(l) : GivenUpWith(l)' \subseteq GivenUpWith(l) \ {r} =>
              Cardinality(GivenUpWith(l)') <= Cardinality(GivenUpWith(l)) - 1
         /\ \A r : GivenUpWith(l)' \subseteq GivenUpWith(l) \cup {r} =>
              /\ IsFiniteSet(GivenUpWith(l)') /\ Cardinality(GivenUpWith(l)') \in Nat
              /\ Cardinality(GivenUpWith(l)') <= Cardinality(GivenUpWith(l)) + 1
<1>1. PICK Z : Z = GivenUpWith(l)
  OBVIOUS
<1>2. PICK Y : Y = GivenUpWith(l)'
  OBVIOUS
<1>3. IsFiniteSet(Z) /\ Cardinality(Z) \in Nat
  BY <1>1, FS_CardinalityType
<1>4. ASSUME NEW A, IsFiniteSet(A), Y \subseteq A
      PROVE  IsFiniteSet(Y) /\ Cardinality(Y) \in Nat /\ Cardinality(Y) <= Cardinality(A)
  <2>1. Y \in SUBSET A
    BY <1>4
  <2> QED BY <1>4, <2>1, FS_Subset, FS_CardinalityType
<1>5. ASSUME NEW r \in Z
      PROVE  IsFiniteSet(Z \ {r}) /\ Cardinality(Z \ {r}) = Cardinality(Z) - 1
  BY <1>3, FS_RemoveElement
<1>6. ASSUME NEW r
      PROVE  IsFiniteSet(Z \cup {r}) /\ Cardinality(Z \cup {r}) <= Cardinality(Z) + 1
             /\ Cardinality(Z \cup {r}) \in Nat
  <2>1. PICK n : n = Cardinality(Z)
    OBVIOUS
  <2>2. /\ IsFiniteSet(Z \cup {r})
        /\ Cardinality(Z \cup {r}) = IF r \in Z THEN Cardinality(Z) ELSE Cardinality(Z) + 1
    BY <1>3, FS_AddElement
  <2>3. Cardinality(Z \cup {r}) = n \/ Cardinality(Z \cup {r}) = n + 1
    BY <2>1, <2>2
  <2>4. n \in Nat
    BY <1>3, <2>1
  <2> QED BY <2>1, <2>2, <2>3, <2>4
<1>7. \A r \in Z : Y \subseteq Z \ {r} => Cardinality(Y) <= Cardinality(Z) - 1
  BY <1>4, <1>5
<1>8. ASSUME NEW r, Y \subseteq Z \cup {r}
      PROVE  /\ IsFiniteSet(Y) /\ Cardinality(Y) \in Nat
             /\ Cardinality(Y) <= Cardinality(Z) + 1
  <2>1. Cardinality(Y) <= Cardinality(Z \cup {r}) /\ IsFiniteSet(Y) /\ Cardinality(Y) \in Nat
    BY <1>4, <1>6, <1>8
  <2>2. PICK a : a = Cardinality(Y)
    OBVIOUS
  <2>3. PICK b : b = Cardinality(Z \cup {r})
    OBVIOUS
  <2>4. PICK c : c = Cardinality(Z)
    OBVIOUS
  <2>5. a \in Nat /\ b \in Nat /\ c \in Nat /\ a <= b /\ b <= c + 1
    BY <1>3, <1>6, <2>1, <2>2, <2>3, <2>4
  <2>6. a <= c + 1
    BY <2>5
  <2> QED BY <2>1, <2>2, <2>4, <2>6
<1> QED BY <1>1, <1>2, <1>3, <1>4, <1>7, <1>8

\* The sum, step by step.
LEMMA StillCounted ==
  ASSUME NEW l, Counted(l), Copies(l) \in Nat, Cardinality(GivenUpWith(l)) \in Nat,
         faults \in Nat, refusals \in Nat, faults' \in Nat, refusals' \in Nat,
         IsFiniteSet(GivenUpWith(l)'),
         Copies(l)' \in Nat, Cardinality(GivenUpWith(l)') \in Nat,
         Copies(l)' + Cardinality(GivenUpWith(l)') + Dues(l)' + faults + refusals
           <= Copies(l) + Cardinality(GivenUpWith(l)) + Dues(l) + faults' + refusals'
  PROVE  Counted(l)'
<1>1. PICK c : c = Copies(l)
  OBVIOUS
<1>2. PICK d : d = Copies(l)'
  OBVIOUS
<1>3. PICK y : y = Cardinality(GivenUpWith(l))
  OBVIOUS
<1>4. PICK z : z = Cardinality(GivenUpWith(l)')
  OBVIOUS
<1>5. PICK u : u = Dues(l)
  OBVIOUS
<1>6. PICK v : v = Dues(l)'
  OBVIOUS
<1>7. u \in Nat /\ v \in Nat
  BY <1>5, <1>6 DEF Dues
<1>8. c + y + u <= 1 + faults + refusals /\ d + z + v + faults + refusals <= c + y + u + faults' + refusals'
  BY <1>1, <1>2, <1>3, <1>4, <1>5, <1>6 DEF Counted
<1>9. d + z + v <= 1 + faults' + refusals'
  BY <1>1, <1>2, <1>3, <1>4, <1>7, <1>8
<1> QED BY <1>2, <1>4, <1>6, <1>9 DEF Counted

\* What a request may add only shrinks, and what it adds it may not again.
LEMMA MayAddShrinks ==
  ASSUME ServerInv, FilesInv, TailInv, NEW r \in Requests, RequestStep(r)
  PROVE  /\ \A l : MayAdd(r, l)' => MayAdd(r, l)
         /\ \A s \in Requests : s # r => request'[s] = request[s] /\ text'[s] = text[s]
         /\ \A o : Stores(r, o) =>
              /\ o \in Objects /\ MayAdd(r, o[1].line) /\ ~MayAdd(r, o[1].line)'
              /\ ~Accepted(r, o[1].line) /\ Accepted(r, o[1].line)'
              /\ \A l : Accepted(r, l) => Accepted(r, l)'
              /\ request[r].answer = 0 /\ request'[r].answer = 0
         /\ \A o : EndsUnsure(r, o) =>
              o \in Objects /\ MayAdd(r, o[1].line) /\ ~Accepted(r, o[1].line)
         /\ \A code : Ends(r, code) =>
              /\ request[r].answer = 0 /\ request'[r].answer = code
              /\ \A l : Accepted(r, l) => Accepted(r, l)'
<1> DEFINE q == request[r]
<1>1. /\ RequestOk(q) /\ q \in State /\ text[r] \in Seq(Piece) /\ GoodRequest(r) /\ ReadInv
      /\ (text[r] # <<>> => q.step = "none") /\ (q.step = "adding" => q.answer = 0)
  BY DEF ServerInv, RequestOk, TailInv
<1>2. \A s \in Requests : s # r => request'[s] = request[s] /\ text'[s] = text[s]
  <2>1. TextOnly(r) \/ UNCHANGED text
    BY RequestSteps DEF RequestStep, Vanishes, TooLong, Stores, EndsUnsure, Ends, Ending, Freed
  <2>2. (\E p : Only(r, p)) \/ UNCHANGED request
    BY RequestSteps DEF RequestStep, Vanishes
  <2> QED BY <2>1, <2>2 DEF Only, TextOnly
<1>3. ASSUME NEW b, Arrives(r, b), NEW l, MayAdd(r, l)' PROVE MayAdd(r, l)
  <2>1. request'[r] = Asked(b) /\ text'[r] = <<>> /\ LinesFrom(text[r], b)
    BY <1>3, RequestSteps DEF Only, TextOnly, Arrives
  <2>2. PICK t \in Seq(Piece) : t = text[r]
    BY <1>1
  <2>3. Len(<<>>) = 0
    OBVIOUS
  <2>4. ~InPieces(text[r], l)'
    BY <2>1, <2>3 DEF InPieces
  <2>5. PICK k \in 1..Len(b) : b[k] \in Objects /\ b[k][1].line = l
    BY <1>3, <2>1, <2>4 DEF MayAdd, Asked
  <2>6. LinesFrom(t, b) /\ b[k] # <<>> /\ 1 \in 1..Len(b[k])
    BY <2>1, <2>2, <2>5, ObjectShape
  <2>7. Place(t, k, 1) \in 1..Len(t) /\ b[k][1] = t[Place(t, k, 1)]
    BY <2>6, LinesInOrder
  <2> QED BY <2>2, <2>5, <2>7 DEF MayAdd, InPieces
<1>4. ASSUME text'[r] = <<>>, request'[r].step # "adding", NEW l PROVE ~MayAdd(r, l)'
  <2>1. Len(<<>>) = 0
    OBVIOUS
  <2> QED BY <1>4, <2>1 DEF MayAdd, InPieces
<1>5. ASSUME Vanishes(r), NEW l PROVE ~MayAdd(r, l)'
  <2>1. text'[r] = <<>> /\ request'[r].step = "none"
    BY <1>1, <1>5, RequestSteps DEF Vanishes, Emptied, TextOnly
  <2> QED BY <1>4, <2>1
<1>6. ASSUME TooLong(r), NEW l PROVE ~MayAdd(r, l)'
  <2>1. text'[r] = <<>> /\ request'[r].step = "answered"
    BY <1>6, RequestSteps DEF Only, TextOnly, Refused413
  <2> QED BY <1>4, <2>1
<1>7. ASSUME NEW code \in {202, 400, 503}, Only(r, AnsweredBy(q, code)), UNCHANGED text,
             text[r] = <<>>, NEW l
      PROVE  ~MayAdd(r, l)' /\ (Accepted(r, l) => Accepted(r, l)') /\ request'[r].answer = code
  <2>1. /\ text'[r] = <<>> /\ request'[r].step = "answered" /\ request'[r].answer = code
        /\ request'[r].body = q.body /\ request'[r].accepted = q.accepted
    BY <1>1, <1>7, AnsweredFields DEF Only
  <2> QED BY <1>4, <2>1 DEF Accepted
<1>8. ASSUME Freed(r), NEW l PROVE ~MayAdd(r, l)'
  <2>1. text'[r] = <<>> /\ request'[r].step = "none"
    BY <1>1, <1>8, RequestSteps DEF Only, Freed, NotMade
  <2> QED BY <1>4, <2>1
<1>9. ASSUME NEW o \in Objects, o = Following(q), q.step = "adding", q.accepted < Len(q.body)
      PROVE  MayAdd(r, o[1].line) /\ ~Accepted(r, o[1].line)
  <2>1. \A k \in 1..Len(q.body) : q.body[k] \in Objects /\ q.body[k][1].line = o[1].line
                                     => k = q.accepted + 1
    BY <1>1, <1>9, NextObject
  <2>2. /\ q.accepted \in Nat /\ q.accepted + 1 \in q.accepted + 1..Len(q.body) /\ Len(q.body) \in Nat
        /\ q.body[q.accepted + 1] = o /\ \A k \in 1..q.accepted : q.body[k] \in Objects
    BY <1>1, <1>9, SMTT(30) DEF Following, RequestOk, State
  <2>3. ~Accepted(r, o[1].line)
    <3> SUFFICES ASSUME NEW k \in 1..q.accepted, q.body[k][1].line = o[1].line PROVE FALSE
      BY DEF Accepted
    <3>1. k \in 1..Len(q.body) /\ q.body[k] \in Objects /\ k # q.accepted + 1
      BY <1>9, <2>2
    <3> QED BY <2>1, <3>1
  <2> QED BY <1>9, <2>2, <2>3 DEF MayAdd
<1>10. ASSUME NEW o, Stores(r, o)
       PROVE  /\ o \in Objects /\ MayAdd(r, o[1].line) /\ ~MayAdd(r, o[1].line)'
              /\ ~Accepted(r, o[1].line) /\ Accepted(r, o[1].line)'
              /\ \A l : Accepted(r, l) => Accepted(r, l)'
              /\ \A l : MayAdd(r, l)' => MayAdd(r, l)
              /\ request[r].answer = 0 /\ request'[r].answer = 0
  <2>1. /\ o \in Objects /\ o = Following(q) /\ q.step = "adding" /\ q.accepted < Len(q.body)
        /\ request'[r] = CountedOn(q) /\ text[r] = <<>> /\ UNCHANGED text
    BY <1>10, RequestSteps DEF Stores, Only
  <2>2. /\ request'[r].step = "adding" /\ request'[r].body = q.body
        /\ request'[r].accepted = q.accepted + 1 /\ request'[r].answer = 0 /\ q.answer = 0
    BY <1>1, <2>1, CountedFields
  <2>3. MayAdd(r, o[1].line) /\ ~Accepted(r, o[1].line)
    BY <1>9, <2>1
  <2>4. \A k \in 1..Len(q.body) : q.body[k] \in Objects /\ q.body[k][1].line = o[1].line
                                     => k = q.accepted + 1
    BY <1>1, <2>1, NextObject
  <2>5. /\ q.accepted \in Nat /\ Len(q.body) \in Nat /\ q.body[q.accepted + 1] = o
    BY <1>1, <2>1 DEF Following, State
  <2>6. PICK a \in Nat, b \in {q.body} : a = q.accepted /\ b = q.body
    BY <2>5
  <2>7. \A l : MayAdd(r, l)' => \E k \in (a + 1) + 1..Len(b) : b[k] \in Objects /\ b[k][1].line = l
    <3>1. \A l : ~InPieces(text[r], l)'
      <4>1. text'[r] = <<>> /\ Len(<<>>) = 0
        BY <2>1
      <4> QED BY <4>1 DEF InPieces
    <3> QED BY <2>2, <2>6, <3>1 DEF MayAdd
  <2>8. ~MayAdd(r, o[1].line)'
    <3> SUFFICES ASSUME NEW k \in (a + 1) + 1..Len(b), b[k] \in Objects, b[k][1].line = o[1].line
                 PROVE  FALSE
      BY <2>7
    <3>1. k \in 1..Len(b) /\ k # a + 1
      BY <2>5, <2>6
    <3> QED BY <2>4, <2>6, <3>1
  <2>9. \A l : MayAdd(r, l)' => MayAdd(r, l)
    <3>1. \A k \in (a + 1) + 1..Len(b) : k \in a + 1..Len(b)
      BY <2>5, <2>6
    <3> QED BY <2>1, <2>6, <2>7, <3>1 DEF MayAdd
  <2>10. Accepted(r, o[1].line)' /\ \A l : Accepted(r, l) => Accepted(r, l)'
    <3>1. a + 1 \in 1..a + 1 /\ \A k \in 1..a : k \in 1..a + 1
      OBVIOUS
    <3> QED BY <2>2, <2>5, <2>6, <3>1 DEF Accepted
  <2> QED BY <2>1, <2>2, <2>3, <2>8, <2>9, <2>10
<1>11. ASSUME NEW o, EndsUnsure(r, o)
       PROVE  /\ o \in Objects /\ MayAdd(r, o[1].line) /\ ~Accepted(r, o[1].line)
              /\ \A l : ~MayAdd(r, l)'
  <2>1. /\ o \in Objects /\ o = Following(q) /\ q.step = "adding" /\ q.accepted < Len(q.body)
        /\ UNCHANGED text
    BY <1>11 DEF EndsUnsure, Ending
  <2>2. Only(r, AnsweredBy(q, 503)) /\ text[r] = <<>>
    BY <1>11, RequestSteps
  <2> QED BY <1>7, <1>9, <2>1, <2>2
<1>12. ASSUME NEW code, Ends(r, code)
       PROVE  /\ request[r].answer = 0 /\ request'[r].answer = code
              /\ \A l : ~MayAdd(r, l)' /\ (Accepted(r, l) => Accepted(r, l)')
  <2>1. code \in {202, 400, 503} /\ q.step = "adding" /\ UNCHANGED text
    BY <1>12 DEF Ends, Ending
  <2>2. Only(r, AnsweredBy(q, code)) /\ text[r] = <<>>
    BY <1>12, RequestSteps
  <2>3. /\ request'[r].answer = code
        /\ \A l : ~MayAdd(r, l)' /\ (Accepted(r, l) => Accepted(r, l)')
    BY <1>7, <2>1, <2>2
  <2> QED BY <1>1, <2>1, <2>3
<1>13. \A l : MayAdd(r, l)' => MayAdd(r, l)
  BY <1>3, <1>5, <1>6, <1>8, <1>10, <1>11, <1>12 DEF RequestStep
<1> QED BY <1>2, <1>10, <1>11, <1>12, <1>13

\* The object the post's request is about to add is in the chunk, and no
\* later piece of its line waits behind.
LEMMA PostedObject ==
  ASSUME ServerInv, PostInv, TailInv, post \in Requests, request[post].step = "adding",
         request[post].accepted < Len(request[post].body),
         NEW o \in Objects, o = Following(request[post])
  PROVE  InPieces(chunk, o[1].line) /\ ~InPieces(pending, o[1].line)
<1>1. /\ RequestOk(request[post]) /\ text[post] = <<>> /\ request[post].answer = 0
      /\ request[post].accepted \in Nat
  BY DEF ServerInv, RequestOk, State
<1>2. post # None
  BY PostingAssumption DEF PostingAssumption
<1>3. request[post].body = Split(chunk)
  BY <1>1, <1>2 DEF PostInv
<1>4. PICK c \in Seq(Piece), v \in Seq(Piece) : c = chunk /\ v = pending
  BY DEF PostInv
<1>5. PICK k : k = request[post].accepted + 1
  OBVIOUS
<1>6. PICK b : b = Split(c)
  OBVIOUS
<1>7. LinesFrom(c, b) /\ k \in 1..Len(b) /\ o = b[k] /\ b[k] # <<>>
  <2>1. LinesFrom(c, b) /\ Len(b) \in Nat
    BY <1>6, WholeArrival DEF LinesFrom
  <2> QED BY <1>1, <1>3, <1>4, <1>5, <1>6, <2>1, ObjectShape DEF Following
<1>8. \A x \in 1..Len(o) : Place(c, k, x) \in 1..Len(c) /\ o[x] = c[Place(c, k, x)]
  BY <1>7, LinesInOrder
<1>9. PICK l : l = o[1].line
  OBVIOUS
<1>10. InPieces(chunk, l)
  <2>1. 1 \in 1..Len(o)
    BY ObjectShape
  <2> QED BY <1>4, <1>8, <1>9, <2>1 DEF InPieces
<1>11. PICK d \in 1..Len(c) : c[d].line = l /\ c[d].part # "head"
  <2>1. PICK x : x = Len(o)
    OBVIOUS
  <2>2. x \in 1..Len(o) /\ o[x].part # "head" /\ o[x].line = l
    <3>1. CASE Len(o) = 1
      BY <1>9, <2>1, <3>1, ObjectShape
    <3>2. CASE Len(o) = 2
      <4>1. 2 \in 1..Len(o)
        BY <3>2
      <4>2. o[2].part = "tail" /\ \A y \in 1..Len(o) : o[y].line = o[1].line
        BY <3>2, ObjectShape
      <4> QED BY <1>9, <2>1, <3>2, <4>1, <4>2
    <3> QED BY <3>1, <3>2, ObjectShape
  <2> QED BY <1>8, <2>2
<1>12. ASSUME NEW i \in 1..Len(v), v[i].line = l PROVE FALSE
  <2>1. PICK w : Waits(w) /\ Good(w)
    BY DEF TailInv, WaitingInv
  <2>2. w = c \o v /\ Len(c) \in Nat /\ Len(v) \in Nat
    BY <1>4, <2>1 DEF Waits
  <2>3. /\ Len(w) = Len(c) + Len(v)
        /\ \A j \in 1..Len(c) + Len(v) : w[j] = IF j <= Len(c) THEN c[j] ELSE v[j - Len(c)]
    BY <2>2, ConcatProperties
  <2>4. /\ d \in 1..Len(w) /\ Len(c) + i \in 1..Len(w) /\ d < Len(c) + i
        /\ d <= Len(c) /\ ~(Len(c) + i <= Len(c)) /\ Len(c) + i - Len(c) = i
    BY <2>2, <2>3
  <2>5. w[d] = c[d] /\ w[Len(c) + i] = v[i]
    BY <2>3, <2>4
  <2>6. Follows(w[d], w[Len(c) + i])
    BY <2>1, <2>4 DEF Good, Ordered
  <2>9. v[i] \in Piece
    OBVIOUS
  <2>7. l \in FileLines
    BY <1>12, <2>9 DEF Piece
  <2>8. l[2] \in Nat
    BY <2>7, LineShape
  <2> QED BY <1>11, <1>12, <2>5, <2>6, <2>8 DEF Follows
<1>13. ~InPieces(pending, l)
  BY <1>4, <1>12 DEF InPieces
<1> QED BY <1>9, <1>10, <1>13

LEMMA CountServerKept ==
  ASSUME ServerInv, ServerInv', FilesInv, PostInv, TailInv, CountInv,
         NEW r \in Requests, RequestStep(r), Framed, UNCHANGED tailVars
  PROVE  CountInv'
<1> SUFFICES ASSUME NEW l \in FileLines PROVE Counted(l)'
  BY DEF CountInv
<1>1. Counted(l) /\ faults \in Nat /\ refusals \in Nat /\ faults' \in Nat /\ refusals' = refusals
      /\ ReadInv
  BY DEF CountInv, ServerInv, TailInv, ReadInv, tailVars
<1>2. UNCHANGED <<file, pending, chunk, post, read, start>>
  BY DEF Framed, tailVars
<1>3. /\ \A k : MayAdd(r, k)' => MayAdd(r, k)
      /\ \A s \in Requests : s # r => request'[s] = request[s] /\ text'[s] = text[s]
  BY MayAddShrinks
<1>4. \A s \in Requests : s # r => (MayAdd(s, l)' <=> MayAdd(s, l))
  BY <1>3 DEF MayAdd, InPieces
<1>5. GivenUpWith(l)' \subseteq GivenUpWith(l)
  BY <1>2, <1>3, <1>4 DEF GivenUpWith
<1>6. /\ Cardinality(GivenUpWith(l)) \in Nat
      /\ IsFiniteSet(GivenUpWith(l)') /\ Cardinality(GivenUpWith(l)') \in Nat
      /\ Cardinality(GivenUpWith(l)') <= Cardinality(GivenUpWith(l))
  BY <1>1, <1>5, FewerGivenUp DEF Counted
<1>7. /\ Copies(l) \in Nat
      /\ UNCHANGED stream => Copies(l)' = Copies(l)
      /\ \A o \in Objects : Added(r, o) => Copies(l)' = Copies(l) + (IF o[1].line = l THEN 1 ELSE 0)
  BY CopiesGrow
<1>8. Dues(l) \in 0..1 /\ Dues(l)' \in 0..1
  BY DEF Dues
<1>9. (Due(l)' => Due(l)) => Dues(l)' <= Dues(l)
  BY DEF Dues
<1>10. Finished(l)' <=> Finished(l)
  BY <1>2 DEF Finished
<1>11. ASSUME r # post PROVE Due(l)' => Due(l)
  <2>1. CASE post \in Requests
    <3>1. request'[post] = request[post]
      BY <1>3, <1>11, <2>1
    <3> QED BY <1>2, <1>10, <3>1 DEF Due, InPieces, Accepted
  <2>2. CASE post \notin Requests
    <3>1. chunk = <<>> /\ Len(<<>>) = 0
      BY <2>2 DEF PostInv
    <3>2. ~InPieces(chunk, l) /\ ~InPieces(chunk, l)'
      BY <1>2, <3>1 DEF InPieces
    <3> QED BY <1>2, <1>10, <3>2 DEF Due, InPieces
  <2> QED BY <2>1, <2>2
\* The post's request is not done worse by: what it accepted it keeps, and
\* its answer is not a 503.
<1>12. ASSUME r = post, Accepted(r, l) => Accepted(r, l)', request'[r].answer # 503
       PROVE  Due(l)' => Due(l)
  <2>1. InPieces(chunk, l)' <=> InPieces(chunk, l)
    BY <1>2 DEF InPieces
  <2>2. InPieces(pending, l)' <=> InPieces(pending, l)
    BY <1>2 DEF InPieces
  <2>3. Accepted(post, l)' <=> Accepted(r, l)'
    BY <1>2, <1>12 DEF Accepted
  <2>4. request'[post'].answer # 503
    BY <1>2, <1>12
  <2> QED BY <1>10, <1>12, <2>1, <2>2, <2>3, <2>4 DEF Due
<1>13. ASSUME UNCHANGED <<stream, faults>>, Due(l)' => Due(l) PROVE Counted(l)'
  <2>1. Copies(l)' = Copies(l) /\ Dues(l)' <= Dues(l)
    BY <1>7, <1>9, <1>13
  <2> QED BY <1>1, <1>6, <1>7, <1>8, <1>13, <2>1, StillCounted
<1>14. ASSUME NEW b, Arrives(r, b) PROVE Counted(l)'
  <2>1. request'[r] = Asked(b)
    BY <1>14, RequestSteps DEF Only
  <2>2. request[r] = NotMade
    BY <1>14 DEF Arrives, Emptied, ServerInv, RequestOk
  <2>3. ~Accepted(r, l) /\ request'[r].answer # 503
    BY <2>1, <2>2 DEF Accepted, NotMade, Asked
  <2> QED BY <1>11, <1>12, <1>13, <1>14, <2>3 DEF Arrives
<1>15. CASE Vanishes(r)
  BY <1>11, <1>13, <1>15 DEF Vanishes
<1>16. CASE TooLong(r)
  <2>1. request'[r] = Refused413
    BY <1>16, RequestSteps DEF Only
  <2>2. request[r] = NotMade
    BY <1>16 DEF TooLong, Emptied, ServerInv, RequestOk
  <2>3. ~Accepted(r, l) /\ request'[r].answer # 503
    BY <2>1, <2>2 DEF Accepted, NotMade, Refused413
  <2> QED BY <1>11, <1>12, <1>13, <1>16, <2>3 DEF TooLong
<1>17. CASE Freed(r)
  BY <1>11, <1>13, <1>17 DEF Freed
<1>18. ASSUME NEW code, Ends(r, code) PROVE Counted(l)'
  <2>1. UNCHANGED stream /\ faults' = faults + (IF code = 503 THEN 1 ELSE 0)
    BY <1>18 DEF Ends
  <2>2. request'[r].answer = code /\ (Accepted(r, l) => Accepted(r, l)')
    BY <1>18, MayAddShrinks
  <2>3. CASE code = 503
    <3>1. faults' = faults + 1 /\ Copies(l)' = Copies(l)
      BY <1>7, <2>1, <2>3
    <3> QED BY <1>1, <1>6, <1>7, <1>8, <3>1, StillCounted
  <2>4. CASE code # 503
    <3>1. UNCHANGED faults
      BY <1>1, <2>1, <2>4
    <3> QED BY <1>11, <1>12, <1>13, <2>1, <2>2, <2>4, <3>1
  <2> QED BY <2>3, <2>4
<1>19. ASSUME NEW o, EndsUnsure(r, o) PROVE Counted(l)'
  <2>1. o \in Objects /\ Added(r, o) /\ faults' = faults + 1
    BY <1>19 DEF EndsUnsure
  <2>2. Copies(l)' = Copies(l) + (IF o[1].line = l THEN 1 ELSE 0)
    BY <1>7, <2>1
  <2>3. CASE o[1].line # l
    <3>1. Copies(l)' = Copies(l)
      BY <1>7, <2>2, <2>3
    <3> QED BY <1>1, <1>6, <1>7, <1>8, <2>1, <3>1, StillCounted
  <2>4. CASE o[1].line = l /\ r # post
    <3>1. Copies(l)' = Copies(l) + 1 /\ Dues(l)' <= Dues(l)
      BY <1>9, <1>11, <2>2, <2>4
    <3> QED BY <1>1, <1>6, <1>7, <1>8, <2>1, <3>1, StillCounted
  <2>5. CASE o[1].line = l /\ r = post
    <3>1. Copies(l)' = Copies(l) + 1
      BY <2>2, <2>5
    <3>2. InPieces(chunk, l) /\ ~Accepted(r, l)
      <4>1. /\ o = Following(request[post]) /\ request[post].step = "adding"
            /\ request[post].accepted < Len(request[post].body)
        BY <1>19, <2>5 DEF EndsUnsure, Ending
      <4> QED BY <1>19, <2>1, <2>5, <4>1, PostedObject, MayAddShrinks
    <3>3. Dues(l) = 1
      BY <2>5, <3>2 DEF Dues, Due
    <3> QED BY <1>1, <1>6, <1>7, <1>8, <2>1, <3>1, <3>3, StillCounted
  <2> QED BY <2>3, <2>4, <2>5
<1>20. ASSUME NEW o, Stores(r, o) PROVE Counted(l)'
  <2>1. /\ o \in Objects /\ Added(r, o) /\ faults' = faults
        /\ o = Following(request[r]) /\ request[r].step = "adding"
        /\ request[r].accepted < Len(request[r].body)
    BY <1>20 DEF Stores
  <2>2. Copies(l)' = Copies(l) + (IF o[1].line = l THEN 1 ELSE 0)
    BY <1>7, <2>1
  <2>3. /\ MayAdd(r, o[1].line) /\ ~MayAdd(r, o[1].line)' /\ ~Accepted(r, o[1].line)
        /\ Accepted(r, o[1].line)' /\ (Accepted(r, l) => Accepted(r, l)')
        /\ request'[r].answer = 0
    BY <1>20, MayAddShrinks
  <2>4. CASE o[1].line # l
    <3>1. Copies(l)' = Copies(l) /\ Dues(l)' <= Dues(l)
      BY <1>7, <1>9, <1>11, <1>12, <2>2, <2>3, <2>4
    <3> QED BY <1>1, <1>6, <1>7, <1>8, <2>1, <3>1, StillCounted
  <2>5. CASE o[1].line = l /\ r # post
    <3>1. Copies(l)' = Copies(l) + 1 /\ Dues(l)' <= Dues(l)
      BY <1>9, <1>11, <2>2, <2>5
    <3>2. r \in GivenUpWith(l) /\ GivenUpWith(l)' \subseteq GivenUpWith(l) \ {r}
      BY <1>5, <2>3, <2>5 DEF GivenUpWith
    <3>3. Cardinality(GivenUpWith(l)') <= Cardinality(GivenUpWith(l)) - 1
      BY <1>1, <3>2, FewerGivenUp DEF Counted
    <3>4. Copies(l)' + Cardinality(GivenUpWith(l)') + Dues(l)'
            <= Copies(l) + Cardinality(GivenUpWith(l)) + Dues(l)
      BY <1>6, <1>7, <1>8, <3>1, <3>3
    <3>5. Copies(l)' \in Nat
      BY <1>7, <3>1
    <3>6. Copies(l)' + Cardinality(GivenUpWith(l)') + Dues(l)' + faults + refusals
            <= Copies(l) + Cardinality(GivenUpWith(l)) + Dues(l) + faults' + refusals'
      BY <1>1, <1>6, <1>7, <1>8, <2>1, <3>4, <3>5
    <3> QED BY <1>1, <1>6, <1>7, <2>1, <3>5, <3>6, StillCounted
  <2>6. CASE o[1].line = l /\ r = post
    <3>1. Copies(l)' = Copies(l) + 1
      BY <2>2, <2>6
    <3>2. InPieces(chunk, l) /\ ~InPieces(pending, l)
      BY <2>1, <2>6, PostedObject
    <3>3. Dues(l) = 1
      BY <2>3, <2>6, <3>2 DEF Dues, Due
    <3>4. Finished(l)
      <4>1. RequestOk(request[r]) /\ GoodRequest(r)
        BY DEF ServerInv, TailInv
      <4> QED BY <1>1, <2>1, <2>6, <4>1, NextObject
    <3>5. ~Due(l)'
      <4>1. ~InPieces(pending, l)'
        BY <1>2, <3>2 DEF InPieces
      <4>2. Accepted(post, l)' /\ request'[post'].answer # 503
        BY <1>2, <2>3, <2>6 DEF Accepted
      <4> QED BY <1>10, <3>4, <4>1, <4>2 DEF Due
    <3>6. Dues(l)' = 0
      BY <3>5 DEF Dues
    <3> QED BY <1>1, <1>6, <1>7, <1>8, <2>1, <3>1, <3>3, <3>6, StillCounted
  <2> QED BY <2>4, <2>5, <2>6
<1> QED BY <1>14, <1>15, <1>16, <1>17, <1>18, <1>19, <1>20 DEF RequestStep

LEMMA NoPieces ==
  ASSUME NEW l
  PROVE  /\ \A t : t = <<>> => ~InPieces(t, l)
         /\ \A r : text[r] = <<>> /\ request[r].step # "adding" => ~MayAdd(r, l)
<1>1. Len(<<>>) = 0
  OBVIOUS
<1> QED BY <1>1 DEF InPieces, MayAdd

\* Where no request changes, no count does, unless something is due anew.
LEMMA CountStill ==
  ASSUME ServerInv, ReadInv, NEW l, Counted(l), UNCHANGED <<stream, faults, refusals>>,
         GivenUpWith(l)' \subseteq GivenUpWith(l), Due(l)' => Due(l)
  PROVE  Counted(l)'
<1>1. faults \in Nat /\ refusals \in Nat
  BY DEF ServerInv, ReadInv
<1>2. Copies(l) \in Nat /\ Copies(l)' = Copies(l)
  BY CopiesGrow
<1>3. /\ Cardinality(GivenUpWith(l)) \in Nat
      /\ IsFiniteSet(GivenUpWith(l)') /\ Cardinality(GivenUpWith(l)') \in Nat
      /\ Cardinality(GivenUpWith(l)') <= Cardinality(GivenUpWith(l))
  BY FewerGivenUp DEF Counted
<1>4. Dues(l) \in 0..1 /\ Dues(l)' \in 0..1 /\ Dues(l)' <= Dues(l)
  BY DEF Dues
<1> QED BY <1>1, <1>2, <1>3, <1>4, StillCounted

LEMMA OneMoreFault ==
  ASSUME NEW c \in Nat, NEW y \in Nat, NEW z \in Nat, NEW u \in 0..1, NEW v \in 0..1,
         NEW f \in Nat, NEW g \in Nat, NEW h \in Nat, NEW i \in Nat,
         h + i = f + g + 1, z <= y \/ (u = 1 /\ z <= y + 1)
  PROVE  c + z + v + f + g <= c + y + u + h + i
OBVIOUS

LEMMA CountFailed ==
  ASSUME ServerInv, ReadInv, NEW l, Counted(l), UNCHANGED stream,
         faults' \in Nat, refusals' \in Nat, faults' + refusals' = faults + refusals + 1,
         \/ GivenUpWith(l)' \subseteq GivenUpWith(l)
         \/ Due(l) /\ \E r : GivenUpWith(l)' \subseteq GivenUpWith(l) \cup {r}
  PROVE  Counted(l)'
<1>1. faults \in Nat /\ refusals \in Nat
  BY DEF ServerInv, ReadInv
<1>2. Copies(l) \in Nat /\ Copies(l)' = Copies(l)
  BY CopiesGrow
<1>3. /\ Cardinality(GivenUpWith(l)) \in Nat
      /\ IsFiniteSet(GivenUpWith(l)') /\ Cardinality(GivenUpWith(l)') \in Nat
      /\ \/ Cardinality(GivenUpWith(l)') <= Cardinality(GivenUpWith(l))
         \/ Due(l) /\ Cardinality(GivenUpWith(l)') <= Cardinality(GivenUpWith(l)) + 1
  BY FewerGivenUp DEF Counted
<1>4. Dues(l) \in 0..1 /\ Dues(l)' \in 0..1 /\ (Due(l) => Dues(l) = 1)
  BY DEF Dues
<1>5. PICK c \in Nat, y \in Nat, z \in Nat, u \in 0..1, v \in 0..1 :
        /\ c = Copies(l) /\ y = Cardinality(GivenUpWith(l)) /\ z = Cardinality(GivenUpWith(l)')
        /\ u = Dues(l) /\ v = Dues(l)'
  BY <1>2, <1>3, <1>4
<1>6. z <= y \/ (u = 1 /\ z <= y + 1)
  BY <1>3, <1>4, <1>5
<1>9. PICK f \in Nat, g \in Nat, h \in Nat, i \in Nat :
         f = faults /\ g = refusals /\ h = faults' /\ i = refusals' /\ h + i = f + g + 1
  BY <1>1
<1>10. c + z + v + f + g <= c + y + u + h + i
  BY <1>5, <1>6, <1>9, OneMoreFault, ZenonT(30)
<1>7. c + z + v + faults + refusals <= c + y + u + faults' + refusals'
  BY <1>9, <1>10
<1>8. Copies(l)' = c /\ Copies(l)' \in Nat
  BY <1>2, <1>5
<1> QED BY <1>1, <1>2, <1>3, <1>5, <1>7, <1>8, StillCounted

LEMMA CountWriteKept ==
  ASSUME ServerInv, TailInv, CountInv, NEW f \in Files, Write(f), UNCHANGED tailVars
  PROVE  CountInv'
<1>1. UNCHANGED <<read, refusals, stream, request, pending, chunk, post, text, faults>>
  BY DEF tailVars, Write, ingestVars
<1>2. ASSUME NEW l \in FileLines PROVE Counted(l)'
  <2>1. Due(l)' => Due(l)
    BY <1>1 DEF Due, InPieces, Accepted, Finished
  <2>2. GivenUpWith(l)' \subseteq GivenUpWith(l)
    BY <1>1 DEF GivenUpWith, MayAdd, InPieces
  <2> QED BY <1>1, <2>1, <2>2, CountStill DEF CountInv, TailInv
<1> QED BY <1>2 DEF CountInv

LEMMA CountIdleKept ==
  ASSUME ServerInv, TailInv, CountInv, NextFile \/ Sleep
  PROVE  CountInv'
<1>1. UNCHANGED <<stream, request, file, pending, chunk, post, text, faults, read, start, refusals>>
  BY DEF NextFile, Sleep, postingVars, ingestVars
<1>2. ASSUME NEW l \in FileLines PROVE Counted(l)'
  <2>1. Due(l)' => Due(l)
    BY <1>1 DEF Due, InPieces, Accepted, Finished
  <2>2. GivenUpWith(l)' \subseteq GivenUpWith(l)
    BY <1>1 DEF GivenUpWith, MayAdd, InPieces
  <2> QED BY <1>1, <2>1, <2>2, CountStill DEF CountInv, TailInv
<1> QED BY <1>2 DEF CountInv

\* A line that is read was not finished before.
LEMMA CountReadLineKept ==
  ASSUME ServerInv, FilesInv, PostInv, TailInv, CountInv, ReadLine
  PROVE  CountInv'
<1>1. ReadInv /\ pending \in Seq(Piece)
  BY DEF TailInv, PostInv
<1>2. PICK n \in Nat, h \in Half, m \in Nat, j \in Half, part \in Returned :
           /\ at \in Files /\ n = read[at].line /\ h = read[at].half
           /\ read' \in [Files -> [line : Nat, half : Half]]
           /\ m = read'[at].line /\ j = read'[at].half
           /\ \A g \in Files : g # at => read'[g] = read[g]
           /\ Reads(at, n, h, part, m, j) /\ n + 1 \in 1..MaxLines[at]
           /\ pending' = IF part = "blank" THEN pending
                         ELSE Append(pending, [line |-> <<at, n + 1>>, part |-> part])
  BY <1>1, ReadLineReads
<1>3. PICK f \in Files : f = at
  BY <1>2
<1>4. UNCHANGED <<start, refusals, request, stream, chunk, post, text, faults>>
  BY DEF ReadLine, ingestVars
<1>5. /\ n = read[f].line /\ h = read[f].half /\ m = read'[f].line /\ j = read'[f].half
      /\ \A g \in Files : g # f => read'[g] = read[g]
      /\ Reads(f, n, h, part, m, j)
  BY <1>2, <1>3
<1>6. ASSUME NEW l \in FileLines, Finished(l) PROVE Finished(l)'
  <2>1. l[1] \in Files /\ l[2] \in Nat
    BY LineShape
  <2>2. CASE l[1] # f
    BY <1>5, <1>6, <2>1, <2>2 DEF Finished
  <2>3. CASE l[1] = f
    <3>1. l[2] <= n \/ (l[2] = n + 1 /\ h = "bare")
      BY <1>5, <1>6, <2>3 DEF Finished
    <3>2. l[2] <= m
      BY <1>5, <2>1, <3>1 DEF Reads
    <3> QED BY <1>5, <2>3, <3>2 DEF Finished
  <2> QED BY <2>2, <2>3
<1>7. ASSUME NEW l \in FileLines, InPieces(pending, l)', ~InPieces(pending, l)
      PROVE  ~Finished(l)
  <2>1. PICK p : p = [line |-> <<f, n + 1>>, part |-> part]
    OBVIOUS
  <2>2. p.line = <<f, n + 1>> /\ part # "blank" /\ pending' = Append(pending, p)
    BY <1>2, <1>3, <1>7, <2>1 DEF InPieces
  <2>3. PICK i \in 1..Len(pending) + 1 : pending'[i].line = l
    BY <1>1, <1>7, <2>2 DEF InPieces
  <2>7. /\ Len(pending) \in Nat /\ pending'[Len(pending) + 1] = p
        /\ \A k \in 1..Len(pending) : pending'[k] = pending[k]
    BY <1>1, <2>2
  <2>4. i = Len(pending) + 1
    <3>1. i \notin 1..Len(pending)
      BY <1>7, <2>3, <2>7 DEF InPieces
    <3> QED BY <2>3, <2>7, <3>1
  <2>5. l = <<f, n + 1>>
    BY <2>2, <2>3, <2>4, <2>7
  <2>6. l[1] = f /\ l[2] = n + 1 /\ h # "bare"
    BY <1>5, <2>2, <2>5 DEF Reads
  <2> QED BY <1>5, <2>6 DEF Finished
<1>8. ASSUME NEW l \in FileLines PROVE Counted(l)'
  <2>1. Due(l)' => Due(l)
    <3>1. InPieces(chunk, l)' <=> InPieces(chunk, l)
      BY <1>4 DEF InPieces
    <3>2. Accepted(post, l)' <=> Accepted(post, l)
      BY <1>4 DEF Accepted
    <3> QED BY <1>4, <1>6, <1>7, <3>1, <3>2 DEF Due
  <2>2. GivenUpWith(l)' \subseteq GivenUpWith(l)
    BY <1>4 DEF GivenUpWith, MayAdd, InPieces
  <2> QED BY <1>1, <1>4, <2>1, <2>2, CountStill DEF CountInv
<1> QED BY <1>8 DEF CountInv

LEMMA CountSendKept ==
  ASSUME ServerInv, FilesInv, PostInv, TailInv, CountInv, Flush
  PROVE  CountInv'
<1>1. post = None /\ UNCHANGED tailVars
  BY TailSends
<1>2. PICK r \in Requests, n \in 1..Len(pending) : SentAs(r, n)
  BY TailSends
<1>3. UNCHANGED <<read, start, refusals, stream, request, faults>>
  BY <1>1, <1>2 DEF tailVars, SentAs, ingestVars
<1>4. /\ chunk' \in Seq(Piece) /\ Len(chunk') = n /\ \A i \in 1..n : chunk'[i] = pending[i]
      /\ pending' \in Seq(Piece) /\ Len(pending') = Len(pending) - n
      /\ \A i \in 1..Len(pending) - n : pending'[i] = pending[n + i]
      /\ \A s \in Requests : s # r => text'[s] = text[s]
  BY <1>1, <1>2, SendOk
<1>5. Len(pending) \in Nat
  BY DEF PostInv
<1>6. ASSUME NEW l \in FileLines PROVE Counted(l)'
  <2>1. (InPieces(pending, l)' \/ InPieces(chunk, l)') => InPieces(pending, l)
    <3>1. ASSUME NEW i \in 1..n, chunk'[i].line = l PROVE InPieces(pending, l)
      <4>1. i \in 1..Len(pending)
        BY <1>5
      <4> QED BY <1>4, <3>1, <4>1 DEF InPieces
    <3>2. ASSUME NEW i \in 1..Len(pending) - n, pending'[i].line = l PROVE InPieces(pending, l)
      <4>1. n + i \in 1..Len(pending)
        BY <1>5
      <4> QED BY <1>4, <3>2, <4>1 DEF InPieces
    <3> QED BY <1>4, <3>1, <3>2 DEF InPieces
  <2>2. Due(l)' => Due(l)
    BY <1>3, <2>1 DEF Due, Finished
  <2>3. GivenUpWith(l)' \subseteq GivenUpWith(l)
    <3> SUFFICES ASSUME NEW s \in GivenUpWith(l)' PROVE s \in GivenUpWith(l)
      OBVIOUS
    <3>1. s \in Requests /\ s # r /\ MayAdd(s, l)'
      BY <1>2 DEF GivenUpWith, SentAs
    <3>2. text'[s] = text[s] /\ request'[s] = request[s]
      BY <1>3, <1>4, <3>1
    <3>3. MayAdd(s, l) /\ s # post
      BY <1>1, <3>1, <3>2, PostingAssumption DEF MayAdd, InPieces, PostingAssumption
    <3> QED BY <3>1, <3>3 DEF GivenUpWith
  <2> QED BY <1>3, <2>2, <2>3, CountStill DEF CountInv, TailInv
<1> QED BY <1>6 DEF CountInv

LEMMA CountSentKept ==
  ASSUME ServerInv, FilesInv, PostInv, TailInv, CountInv, Sent
  PROVE  CountInv'
<1>1. /\ Heard(202) /\ UNCHANGED <<file, pending, read, start, refusals, stream, text, faults>>
      /\ chunk' = <<>> /\ post' = None
  BY DEF Sent, Heard
<1>2. post \in Requests /\ Only(post, NotMade) /\ text[post] = <<>>
  BY <1>1, HeardOk
<1>3. ASSUME NEW l \in FileLines PROVE Counted(l)'
  <2>1. Due(l)' => Due(l)
    <3>1. ~InPieces(chunk, l)'
      BY <1>1, NoPieces DEF InPieces
    <3> QED BY <1>1, <3>1 DEF Due, Finished, InPieces
  <2>2. GivenUpWith(l)' \subseteq GivenUpWith(l)
    <3> SUFFICES ASSUME NEW s \in GivenUpWith(l)' PROVE s \in GivenUpWith(l)
      OBVIOUS
    <3>1. s \in Requests /\ MayAdd(s, l)'
      BY DEF GivenUpWith
    <3>2. s # post
      <4> SUFFICES ASSUME s = post PROVE FALSE
        OBVIOUS
      <4>1. text'[s] = <<>> /\ request'[s] = NotMade /\ Len(<<>>) = 0
        BY <1>1, <1>2 DEF Only
      <4> QED BY <3>1, <4>1 DEF MayAdd, InPieces, NotMade
    <3>3. MayAdd(s, l)
      <4>1. text'[s] = text[s] /\ request'[s] = request[s]
        BY <1>1, <1>2, <3>1, <3>2 DEF Only
      <4> QED BY <3>1, <4>1 DEF MayAdd, InPieces
    <3> QED BY <3>1, <3>2, <3>3 DEF GivenUpWith
  <2> QED BY <1>1, <2>1, <2>2, CountStill DEF CountInv, TailInv
<1> QED BY <1>3 DEF CountInv

\* A refusal counts as one where something was stored before it, and a post
\* that is given up as a failure, whatever its request does in the end.
LEMMA CountSendFailedKept ==
  ASSUME ServerInv, ServerInv', FilesInv, PostInv, TailInv, CountInv, SendFailed
  PROVE  CountInv'
<1>1. /\ UNCHANGED <<file, read, start, stream, text>> /\ chunk' = <<>> /\ post' = None
      /\ pending' = chunk \o pending
      /\ refusals' = refusals + (IF request[post].answer = 400 THEN 1 ELSE 0)
      /\ faults \in Nat /\ faults' \in Nat /\ refusals \in Nat /\ ReadInv
  BY DEF SendFailed, Refused, Heard, GivenUp, ingestVars, ServerInv, TailInv, ReadInv
<1>2. PICK c \in Seq(Piece), v \in Seq(Piece) : c = chunk /\ v = pending
  BY DEF PostInv
<1>3. ASSUME NEW l, InPieces(pending, l)' PROVE InPieces(chunk, l) \/ InPieces(pending, l)
  <2>1. /\ Len(c \o v) = Len(c) + Len(v) /\ Len(c) \in Nat /\ Len(v) \in Nat
        /\ \A i \in 1..Len(c) + Len(v) : (c \o v)[i] = IF i <= Len(c) THEN c[i] ELSE v[i - Len(c)]
    BY ConcatProperties
  <2>2. PICK i \in 1..Len(c) + Len(v) : (c \o v)[i].line = l
    BY <1>1, <1>2, <1>3, <2>1 DEF InPieces
  <2>3. CASE i <= Len(c)
    <3>1. i \in 1..Len(c) /\ c[i].line = l
      BY <2>1, <2>2, <2>3
    <3> QED BY <1>2, <3>1 DEF InPieces
  <2>4. CASE ~(i <= Len(c))
    <3>1. i - Len(c) \in 1..Len(v) /\ v[i - Len(c)].line = l
      BY <2>1, <2>2, <2>4
    <3> QED BY <1>2, <3>1 DEF InPieces
  <2> QED BY <2>3, <2>4
<1>4. ASSUME NEW l, Due(l)' PROVE Due(l) \/ InPieces(chunk, l)
  <2>1. ~InPieces(chunk, l)'
    BY <1>1, NoPieces DEF InPieces
  <2> QED BY <1>1, <1>3, <1>4, <2>1 DEF Due, Finished
<1>6. ASSUME NEW code \in {400, 413, 503}, Heard(code), NEW l \in FileLines PROVE Counted(l)'
  <2>1. /\ post \in Requests /\ Only(post, NotMade) /\ text[post] = <<>>
        /\ request[post].answer = code /\ faults' = faults
    BY <1>6, HeardOk DEF Heard
  <2>2. GivenUpWith(l)' \subseteq GivenUpWith(l)
    <3> SUFFICES ASSUME NEW s \in GivenUpWith(l)' PROVE s \in GivenUpWith(l)
      OBVIOUS
    <3>1. s \in Requests /\ MayAdd(s, l)'
      BY DEF GivenUpWith
    <3>2. s # post
      <4> SUFFICES ASSUME s = post PROVE FALSE
        OBVIOUS
      <4>1. text'[s] = <<>> /\ request'[s] = NotMade /\ Len(<<>>) = 0
        BY <1>1, <2>1 DEF Only
      <4> QED BY <3>1, <4>1 DEF MayAdd, InPieces, NotMade
    <3>3. MayAdd(s, l)
      <4>1. text'[s] = text[s] /\ request'[s] = request[s]
        BY <1>1, <2>1, <3>1, <3>2 DEF Only
      <4> QED BY <3>1, <4>1 DEF MayAdd, InPieces
    <3> QED BY <3>1, <3>2, <3>3 DEF GivenUpWith
  <2>3. CASE code = 400
    <3>1. refusals' = refusals + 1
      BY <1>1, <2>1, <2>3
    <3>3. faults \in Nat /\ refusals \in Nat /\ faults' = faults
      BY <1>1, <2>1
    <3>2. faults' + refusals' = faults + refusals + 1 /\ refusals' \in Nat
      BY <3>1, <3>3
    <3>4. Counted(l) /\ ReadInv /\ UNCHANGED stream /\ faults' \in Nat
      BY <1>1 DEF CountInv
    <3> QED BY <2>2, <3>2, <3>4, CountFailed
  <2>4. CASE code # 400
    <3>1. refusals' = refusals
      BY <1>1, <2>1, <2>4
    <3>2. InPieces(chunk, l) => Due(l)
      <4>1. CASE code = 503
        BY <2>1, <4>1 DEF Due
      <4>2. CASE code = 413
        <5>1. request[post].accepted = 0
          BY <2>1, <4>2 DEF ServerInv, RequestOk
        <5> QED BY <5>1 DEF Due, Accepted
      <4> QED BY <2>4, <4>1, <4>2
    <3> QED BY <1>1, <1>4, <2>1, <2>2, <3>1, <3>2, CountStill DEF CountInv
  <2> QED BY <2>3, <2>4
<1>7. ASSUME GivenUp, NEW l \in FileLines PROVE Counted(l)'
  <2>1. /\ post \in Requests /\ request[post].answer = 0
        /\ UNCHANGED request /\ faults' = faults + 1 /\ refusals' = refusals
    BY <1>1, <1>7, GivenUpOk DEF GivenUp, ingestVars
  <2>2. \A s : MayAdd(s, l)' <=> MayAdd(s, l)
    BY <1>1, <2>1 DEF MayAdd, InPieces
  <2>3. faults' + refusals' = faults + refusals + 1 /\ refusals' \in Nat
    BY <1>1, <2>1
  <2>5. CASE MayAdd(post, l)
    <3>1. GivenUpWith(l)' \subseteq GivenUpWith(l) \cup {post}
      BY <2>2 DEF GivenUpWith
    <3>3. Due(l)
      <4>1. RequestOk(request[post]) /\ post # None
        BY <2>1, PostingAssumption DEF ServerInv, PostingAssumption
      <4>2. CASE InPieces(text[post], l)
        <5>1. text[post] # <<>>
          BY <4>2, NoPieces
        <5>2. InPieces(chunk, l) /\ request[post] = NotMade
          BY <2>1, <4>1, <4>2, <5>1 DEF PostInv, ServerInv, RequestOk
        <5>3. ~Accepted(post, l)
          BY <5>2 DEF Accepted, NotMade
        <5> QED BY <5>2, <5>3 DEF Due
      <4>3. CASE ~InPieces(text[post], l)
        <5>1. PICK b \in Seq(Seq(Piece)) : b = request[post].body
          BY <4>1 DEF RequestOk, State
        <5>2. PICK k \in request[post].accepted + 1..Len(b) :
                 b[k] \in Objects /\ b[k][1].line = l
          BY <2>5, <4>3, <5>1 DEF MayAdd
        <5>3. request[post].step = "adding" /\ text[post] = <<>>
          BY <2>1, <2>5, <4>3 DEF MayAdd, ServerInv
        <5>4. b = Split(chunk) /\ chunk \in Seq(Piece)
          BY <2>1, <4>1, <5>1, <5>3 DEF PostInv
        <5>5. PICK c1 \in Seq(Piece) : c1 = chunk
          BY <5>4
        <5>6. request[post].accepted \in Nat /\ k \in 1..Len(b) /\ Len(b) \in Nat
          BY <4>1, <5>1, <5>2 DEF RequestOk, State
        <5>7. InPieces(chunk, l)
          <6>1. LinesFrom(c1, b)
            BY <5>4, <5>5, WholeArrival
          <6>2. PICK i \in 1..Len(c1) : c1[i] = b[k][1]
            BY <5>2, <5>5, <5>6, <6>1, LineInText, ZenonT(30)
          <6> QED BY <5>2, <5>5, <6>2 DEF InPieces
        <5>8. ~Accepted(post, l)
          <6> SUFFICES ASSUME NEW j \in 1..request[post].accepted, b[j][1].line = l PROVE FALSE
            BY <5>1 DEF Accepted
          <6>3. PICK a \in Nat : a = request[post].accepted
            BY <5>6
          <6>4. a <= Len(b) /\ \A i \in 1..a : b[i] \in Objects
            BY <4>1, <5>1, <6>3 DEF RequestOk
          <6>5. j \in 1..a /\ k \in a + 1..Len(b)
            BY <5>2, <6>3
          <6>6. b[j] \in Objects
            BY <6>4, <6>5
          <6>7. j \in Nat /\ k \in Nat /\ j <= a /\ a + 1 <= k /\ 1 <= j
            BY <5>6, <6>3, <6>5
          <6>8. PICK m \in Nat : m = Len(b)
            BY <5>6
          <6>9. j \in 1..m /\ j < k
            BY <6>3, <6>4, <6>7, <6>8
          <6>1. j \in 1..Len(b) /\ b[j] \in Objects /\ j < k
            BY <6>6, <6>8, <6>9
          <6>2. GoodBody(b)
            BY <2>1, <5>1 DEF TailInv, GoodRequest
          <6> QED BY <5>2, <5>6, <6>1, <6>2 DEF GoodBody
        <5> QED BY <5>7, <5>8 DEF Due
      <4> QED BY <4>2, <4>3
    <3> QED BY <1>1, <2>3, <3>1, <3>3, CountFailed DEF CountInv
  <2>6. CASE ~MayAdd(post, l)
    <3>1. GivenUpWith(l)' \subseteq GivenUpWith(l)
      BY <2>2, <2>6 DEF GivenUpWith
    <3> QED BY <1>1, <2>3, <3>1, CountFailed DEF CountInv
  <2> QED BY <2>5, <2>6
<1> QED BY <1>6, <1>7 DEF CountInv, SendFailed, Refused

-----------------------------------------------------------------------------
(* A post that is over.                                                    *)
LEMMA PostOver ==
  ASSUME ServerInv, PostInv, (\E code \in {202, 400, 413, 503} : Heard(code)) \/ GivenUp,
         chunk' = <<>>, post' = None, pending' \in Seq(Piece)
  PROVE  ServerInv' /\ PostInv'
<1>1. ServerInv'
  BY HeardOk, GivenUpOk
<1>2. chunk' \in Seq(Piece)
  OBVIOUS
<1> QED BY <1>1, <1>2 DEF PostInv

LEMMA FilesStill ==
  ASSUME FilesInv, UNCHANGED file
  PROVE  FilesInv'
BY DEF FilesInv

LEMMA TailStepKept ==
  ASSUME ServerInv, FilesInv, PostInv, TailInv, CountInv, TailStep
  PROVE  ServerInv' /\ FilesInv' /\ PostInv' /\ TailInv' /\ CountInv'
<1>1. CASE ReadLine
  <2>1. TailInv' /\ CountInv'
    BY <1>1, TailReadLineKept, CountReadLineKept
  <2>2. UNCHANGED <<stream, request, file, chunk, post, text, faults>>
    BY <1>1 DEF ReadLine, ingestVars
  <2>3. ServerInv' /\ FilesInv'
    BY <2>2, FilesStill DEF ServerInv
  <2>4. pending' \in Seq(Piece)
    <3>0. ReadInv
      BY DEF TailInv
    <3>1. PICK n \in Nat, h \in Half, m \in Nat, j \in Half, part \in Returned :
            /\ at \in Files
            /\ Reads(at, n, h, part, m, j) /\ n + 1 \in 1..MaxLines[at]
            /\ pending' = IF part = "blank" THEN pending
                          ELSE Append(pending, [line |-> <<at, n + 1>>, part |-> part])
      BY <1>1, <3>0, ReadLineReads, ZenonT(30)
    <3>2. <<at, n + 1>> \in FileLines
      BY <3>1, LineShape
    <3>3. part # "blank" => part \in Part
      BY <3>1 DEF Reads, Part
    <3>4. pending \in Seq(Piece)
      BY DEF PostInv
    <3>5. part # "blank" => [line |-> <<at, n + 1>>, part |-> part] \in Piece
      BY <3>2, <3>3 DEF Piece
    <3> QED BY <3>1, <3>4, <3>5
  <2>5. PostInv'
    BY <2>2, <2>4 DEF PostInv
  <2> QED BY <2>1, <2>3, <2>5
<1>2. CASE NextFile \/ Sleep
  BY <1>2, TailIdleKept, CountIdleKept
<1>3. CASE Flush
  <2>1. TailInv' /\ CountInv'
    BY <1>3, TailSendKept, CountSendKept
  <2>2. PICK r \in Requests : \E n \in 1..Len(pending) : SentAs(r, n)
    BY <1>3, TailSends
  <2>3. post = None
    BY <1>3, TailSends
  <2>4. ServerInv' /\ PostInv'
    BY <2>2, <2>3, SendOk
  <2>5. UNCHANGED file
    BY <2>2 DEF SentAs
  <2> QED BY <2>1, <2>4, <2>5, FilesStill
<1>4. CASE Sent
  <2>1. TailInv' /\ CountInv'
    BY <1>4, TailSentKept, CountSentKept
  <2>2. Heard(202) /\ chunk' = <<>> /\ post' = None /\ UNCHANGED <<file, pending>>
    BY <1>4 DEF Sent
  <2>3. pending' \in Seq(Piece)
    BY <2>2 DEF PostInv
  <2> QED BY <2>1, <2>2, <2>3, PostOver, FilesStill
<1>5. CASE SendFailed
  <2>2. /\ Refused \/ GivenUp
        /\ chunk' = <<>> /\ post' = None /\ UNCHANGED file /\ pending' = chunk \o pending
    BY <1>5 DEF SendFailed
  <2>3. pending' \in Seq(Piece)
    <3>1. chunk \in Seq(Piece) /\ pending \in Seq(Piece)
      BY DEF PostInv
    <3> QED BY <2>2, <3>1, ConcatProperties
  <2>4. (\E code \in {202, 400, 413, 503} : Heard(code)) \/ GivenUp
    BY <2>2 DEF Refused
  <2>5. ServerInv' /\ PostInv' /\ FilesInv'
    BY <2>2, <2>3, <2>4, PostOver, FilesStill
  <2> QED BY <1>5, <2>5, TailSendFailedKept, CountSendFailedKept
<1> QED BY <1>1, <1>2, <1>3, <1>4, <1>5 DEF TailStep, TailRead, TailPost

LEMMA TailPostingKept ==
  ASSUME ServerInv, FilesInv, PostInv, TailInv, CountInv, PostingStep, UNCHANGED tailVars
  PROVE  ServerInv' /\ FilesInv' /\ PostInv' /\ TailInv' /\ CountInv'
<1>1. ASSUME NEW f \in Files, Write(f)
      PROVE  ServerInv' /\ FilesInv' /\ PostInv' /\ TailInv' /\ CountInv'
  BY <1>1, WriteKept, TailWriteKept, CountWriteKept
<1>2. ASSUME NEW r \in Requests, RequestStep(r), Framed
      PROVE  ServerInv' /\ FilesInv' /\ PostInv' /\ TailInv' /\ CountInv'
  <2>1. ServerInv' /\ PostInv' /\ TailInv'
    BY <1>2, ServerKept, PostKept, TailServerKept
  <2>2. FilesInv'
    BY <1>2, FilesStill DEF Framed
  <2> QED BY <1>2, <2>1, <2>2, CountServerKept
<1> QED BY <1>1, <1>2, PostingSteps

LEMMA TailStart ==
  ASSUME TailInit
  PROVE  ServerInv /\ FilesInv /\ PostInv /\ TailInv /\ CountInv
<1>1. ServerInv /\ FilesInv /\ PostInv
  BY PostingInitOk DEF TailInit
<1>2. /\ stream = <<>> /\ request = [r \in Requests |-> NotMade] /\ pending = <<>>
      /\ chunk = <<>> /\ text = [r \in Requests |-> <<>>] /\ faults = 0 /\ refusals = 0
  BY DEF TailInit, PostingInit, IngestInit
<1>3. ReadInv
  <2>1. \A f \in Files : file[f].complete \in Nat /\ file[f].half \in Half
    BY <1>1 DEF FilesInv
  <2>2. "no" \in Half
    BY DEF Half
  <2>3. /\ read \in [Files -> [line : Nat, half : Half]] /\ start \in [Files -> Nat]
        /\ \A f \in Files :
             \/ read[f].line = 0 /\ read[f].half = "no" /\ start[f] = 0
             \/ /\ read[f].line = file[f].complete /\ read[f].half = file[f].half
                /\ start[f] = file[f].complete + (IF file[f].half = "no" THEN 0 ELSE 1)
    BY <2>1, <2>2 DEF TailInit
  <2> QED BY <1>2, <2>1, <2>3 DEF ReadInv
<1>4. ASSUME NEW f \in Files, NEW n \in 1..MaxLines[f] PROVE ~Taken(f, n)
  <2>1. start[f] \in Nat /\ file[f].complete \in Nat /\ MaxLines[f] \in Nat
    BY <1>1, <1>3, LineShape DEF FilesInv, ReadInv
  <2>2. \/ read[f].line = 0 /\ read[f].half = "no" /\ start[f] = 0
        \/ /\ read[f].line = file[f].complete /\ read[f].half = file[f].half
           /\ start[f] = file[f].complete + (IF file[f].half = "no" THEN 0 ELSE 1)
    BY DEF TailInit
  <2> QED BY <2>1, <2>2 DEF Taken
<1>5. Len(stream) = 0 /\ WaitingInv
  <2>1. chunk \o pending = <<>>
    BY <1>2
  <2>2. Kept(<<>>)
    BY <1>4 DEF Kept
  <2> QED BY <1>2, <2>1, <2>2, NothingGood DEF WaitingInv, Waits
<1>6. ASSUME NEW r \in Requests PROVE GoodRequest(r)
  <2>1. text[r] = <<>> /\ request[r].body = <<>> /\ request[r].accepted = 0
    BY <1>2 DEF NotMade
  <2> QED BY <2>1, NothingGood DEF GoodRequest, AllStored
<1>7. TailInv
  BY <1>3, <1>5, <1>6 DEF TailInv, StreamInv
<1>8. ASSUME NEW l \in FileLines PROVE Counted(l)
  <2>1. \A r \in Requests : ~MayAdd(r, l)
    <3>1. \A r \in Requests : text[r] = <<>> /\ request[r].step # "adding"
      BY <1>2 DEF NotMade
    <3> QED BY <3>1, NoPieces
  <2>2. GivenUpWith(l) = {}
    BY <2>1 DEF GivenUpWith
  <2>3. IsFiniteSet(GivenUpWith(l)) /\ Cardinality(GivenUpWith(l)) = 0
    BY <2>2, FS_EmptySet
  <2>4. {i \in DOMAIN stream : StoredLine(i) = l} = {}
    BY <1>2
  <2>5. Copies(l) = 0
    BY <2>4, FS_EmptySet DEF Copies
  <2>6. Dues(l) \in 0..1
    BY DEF Dues
  <2> QED BY <1>2, <2>3, <2>5, <2>6 DEF Counted
<1> QED BY <1>1, <1>7, <1>8 DEF CountInv

-----------------------------------------------------------------------------
(* The replay.  What it read: each line once, whole or, as the last of its *)
(* file, a head or a bare record, and never without those before it.       *)
ReadOnce(L) ==
  /\ L \in Seq(Piece)
  /\ \A i \in 1..Len(L) : L[i].part # "tail"
  /\ \A i, j \in 1..Len(L) : i < j => L[i].line # L[j].line
  /\ \A i \in 1..Len(L) : \A m \in 1..L[i].line[2] - 1 :
       InText(L, <<L[i].line[1], m>>, i - 1)
Written(f) == file[f].complete + (IF file[f].half = "bare" THEN 1 ELSE 0)
SoFar(L) ==
  \A i \in 1..Len(L) :
    /\ L[i].line[1] <= opened
    /\ L[i].part # "head" => L[i].line[2] <= Written(L[i].line[1])

\* The post that is or was under way is the n pieces after the first b.
Share(L, b, n) == SubSeq(L, b + 1, b + n)
Rest(L, b) == SubSeq(L, b + 1, Len(L))
Busy(r) == text[r] # <<>> \/ request[r].step # "none"
Sharing(r, t, b) ==
  \/ text[r] # <<>> /\ text[r] = t /\ Len(stream) = b
  \/ /\ text[r] = <<>> /\ LinesFrom(t, request[r].body)
     /\ \/ Len(stream) = b + request[r].accepted
        \/ request[r].answer = 503 /\ Len(stream) = b + request[r].accepted + 1

Replayed(L) ==
  \A i \in 1..Len(stream) : i <= Len(L) /\ StoredLine(i) = L[i].line /\ L[i].part # "head"

Progress(L, b, n) ==
  /\ b + n <= Len(L) /\ Len(stream) <= b + n
  /\ Replayed(L)
  /\ \A r \in Requests : Busy(r) => Sharing(r, Share(L, b, n), b)
  /\ post # None => chunk = Share(L, b, n) /\ pending = Rest(L, b + n)
  /\ stage \in {"reading", "posting"} /\ post = None => Len(stream) = b /\ pending = Rest(L, b)
  /\ stage = "complete" => Len(stream) = Len(L)

Staged ==
  /\ stage \in {"reading", "posting", "failed", "complete"}
  /\ opened \in 0..Cardinality(Files)
  /\ stage = "reading" => opened < Cardinality(Files) /\ stream = <<>>
  /\ stage # "posting" => post = None
  /\ stage # "failed" /\ post = None => \A r \in Requests : ~Busy(r)
  /\ \A r, s \in Requests : Busy(r) /\ Busy(s) => r = s

Unused ==
  /\ start = [f \in Files |-> 0] /\ refusals = 0
  /\ read = [f \in Files |-> [line |-> 0, half |-> "no"]]

CatInv ==
  /\ Unused /\ Staged
  /\ \E L : L = lines /\ ReadOnce(L) /\ SoFar(L) /\ \E b, n \in Nat : Progress(L, b, n)

(* The lines of a post the server accepts are its pieces, one by one.      *)
LEMMA OneEach ==
  ASSUME NEW t \in Seq(Piece), \A i \in 1..Len(t) : t[i].part # "tail",
         NEW b, LinesFrom(t, b), NEW m \in 0..Len(b),
         \A j \in 1..m : b[j] \in Objects
  PROVE  /\ m <= Len(Split(t)) /\ m <= Len(t) /\ Boundary(t, m) = m
         /\ \A j \in 1..m : b[j] = <<t[j]>> /\ t[j].part # "head"
<1>1. b \in Seq(Seq(Piece)) /\ Len(b) \in Nat /\ Len(t) \in Nat
  BY DEF LinesFrom
<1>2. ASSUME NEW j \in 1..m PROVE b[j] # <<>> /\ j <= Len(Split(t)) /\ b[j] = Split(t)[j]
  <2>1. b[j] # <<>>
    BY ObjectShape
  <2>2. j \in 1..Len(b) /\ j \in 1..j
    BY <1>1
  <2> QED BY <2>1, <2>2 DEF LinesFrom
<1>3. Split(t) \in Seq(Seq(Piece)) /\ Marks(t, Len(Split(t))) /\ Len(Split(t)) \in Nat
  BY SplitShape
<1>4. m <= Len(Split(t))
  <2>1. CASE m = 0
    BY <2>1, <1>3
  <2>2. CASE m # 0
    <3>1. m \in 1..m
      BY <2>2, <1>1
    <3> QED BY <3>1, <1>2
  <2> QED BY <2>1, <2>2
<1>5. \A j \in 0..m : Boundary(t, j) \in 0..Len(t)
  BY <1>1, <1>3, <1>4 DEF Marks
<1>6. ASSUME NEW j \in 1..m
      PROVE  /\ Boundary(t, j) = Boundary(t, j - 1) + 1
             /\ Len(b[j]) = 1 /\ b[j][1] = t[Boundary(t, j - 1) + 1]
  <2>1. j \in 1..Len(Split(t)) /\ b[j] = Split(t)[j]
    BY <1>1, <1>2, <1>3
  <2>2. /\ Len(b[j]) = Boundary(t, j) - Boundary(t, j - 1)
        /\ \A x \in 1..Len(b[j]) : b[j][x] = t[Place(t, j, x)]
    BY <2>1, SplitShape
  <2>3. b[j] \in Objects
    OBVIOUS
  <2>4. /\ Len(b[j]) \in {1, 2}
        /\ Len(b[j]) = 2 => b[j][2].part = "tail"
    BY <2>3, ObjectShape
  <2>5. j - 1 \in 0..m /\ j \in 0..m
    BY <1>1
  <2>6. PICK y \in 0..Len(t), z \in 0..Len(t) : y = Boundary(t, j - 1) /\ z = Boundary(t, j)
    BY <1>5, <2>5
  <2>7. PICK d \in Nat, e \in Nat : d = Len(t) /\ e = Len(b[j]) /\ e = z - y
    BY <1>1, <2>2, <2>4, <2>6
  <2>12. y \in Nat /\ z \in Nat /\ z <= d /\ e \in {1, 2}
    BY <1>1, <2>4, <2>6, <2>7
  <2>8. Len(b[j]) # 2
    <3>1. SUFFICES ASSUME e = 2 PROVE FALSE
      BY <2>7
    <3>2. y + 2 \in 1..d
      BY <2>7, <2>12, <3>1
    <3>3. b[j][2] = t[y + 2]
      <4>1. b[j][2] = t[Place(t, j, 2)]
        BY <2>2, <2>7, <3>1
      <4>2. Place(t, j, 2) = y + 2
        BY <2>6 DEF Place
      <4> QED BY <4>1, <4>2
    <3>4. b[j][2].part = "tail"
      BY <2>4, <2>7, <3>1
    <3> QED BY <2>7, <3>2, <3>3, <3>4
  <2>9. e = 1
    BY <2>7, <2>8, <2>12
  <2>10. z = y + 1
    BY <2>7, <2>9, <2>12
  <2>11. b[j][1] = t[y + 1]
    <3>1. b[j][1] = t[Place(t, j, 1)]
      BY <2>2, <2>7, <2>9
    <3>2. Place(t, j, 1) = y + 1
      BY <2>6 DEF Place
    <3> QED BY <3>1, <3>2
  <2> QED BY <2>6, <2>7, <2>9, <2>10, <2>11
<1>7. \A j \in 0..m : Boundary(t, j) = j
  <2>1. SUFFICES ASSUME {j \in 0..m : Boundary(t, j) # j} # {} PROVE FALSE
    OBVIOUS
  <2>2. PICK x \in {j \in 0..m : Boundary(t, j) # j} :
          \A y \in {j \in 0..m : Boundary(t, j) # j} : x <= y
    <3>1. {j \in 0..m : Boundary(t, j) # j} \in SUBSET Nat
      OBVIOUS
    <3> QED BY <2>1, <3>1, LeastNumber
  <2>3. x # 0
    BY <1>3, <2>2 DEF Marks
  <2>4. x \in 1..m /\ x - 1 \in 0..m /\ ~(x <= x - 1)
    BY <2>2, <2>3
  <2>5. Boundary(t, x - 1) = x - 1
    BY <2>2, <2>4
  <2>6. Boundary(t, x) = x
    BY <1>6, <2>4, <2>5
  <2> QED BY <2>2, <2>6
<1>8. m <= Len(t) /\ Boundary(t, m) = m
  <2>1. m \in 0..m
    BY <1>1
  <2> QED BY <2>1, <1>1, <1>5, <1>7
<1>9. ASSUME NEW j \in 1..m PROVE b[j] = <<t[j]>> /\ t[j].part # "head"
  <2>1. j - 1 \in 0..m /\ j \in 1..Len(t) /\ j - 1 + 1 = j
    BY <1>1, <1>8
  <2>2. Boundary(t, j - 1) = j - 1
    BY <1>7, <2>1
  <2>3. Len(b[j]) = 1 /\ b[j][1] = t[j]
    BY <1>6, <2>1, <2>2
  <2>4. b[j] \in Seq(Piece) /\ (Len(b[j]) = 1 => b[j][1].part \in {"whole", "bare"})
    BY ObjectShape
  <2>5. b[j] = <<b[j][1]>>
    BY <2>3, <2>4
  <2> QED BY <2>3, <2>4, <2>5
<1> QED BY <1>4, <1>8, <1>9

(* A post whose lines are all accepted was accepted whole.                 *)
LEMMA AllAccepted ==
  ASSUME NEW t \in Seq(Piece), \A i \in 1..Len(t) : t[i].part # "tail",
         \A j \in 1..Len(Split(t)) : Split(t)[j] \in Objects
  PROVE  Len(Split(t)) = Len(t)
<1>1. LinesFrom(t, Split(t))
  BY WholeArrival
<1>2. Marks(t, Len(Split(t))) /\ Len(Split(t)) \in Nat
  BY SplitShape
<1>3. Len(Split(t)) \in 0..Len(Split(t))
  BY <1>2
<1>4. Boundary(t, Len(Split(t))) = Len(Split(t))
  BY <1>1, <1>3, OneEach
<1> QED BY <1>2, <1>4 DEF Marks

LEMMA ShareShape ==
  ASSUME NEW L, ReadOnce(L), NEW b \in Nat, NEW n \in Nat, b + n <= Len(L)
  PROVE  /\ Share(L, b, n) \in Seq(Piece) /\ Len(Share(L, b, n)) = n
         /\ \A i \in 1..n : Share(L, b, n)[i] = L[b + i] /\ L[b + i].part # "tail"
         /\ Rest(L, b) \in Seq(Piece) /\ Len(Rest(L, b)) = Len(L) - b
         /\ \A i \in 1..Len(L) - b : Rest(L, b)[i] = L[b + i]
<1>1. L \in Seq(Piece) /\ Len(L) \in Nat /\ \A i \in 1..Len(L) : L[i].part # "tail"
  BY DEF ReadOnce
<1>2. /\ Share(L, b, n) \in Seq(Piece) /\ Len(Share(L, b, n)) = n
      /\ \A i \in 1..n : Share(L, b, n)[i] = L[b + i]
  BY <1>1 DEF Share
<1>3. /\ Rest(L, b) \in Seq(Piece) /\ Len(Rest(L, b)) = Len(L) - b
      /\ \A i \in 1..Len(L) - b : Rest(L, b)[i] = L[b + i]
  BY <1>1 DEF Rest
<1>4. ASSUME NEW i \in 1..n PROVE L[b + i].part # "tail"
  <2>1. PICK m \in Nat : m = Len(L)
    BY <1>1
  <2>2. b + i \in 1..m
    BY <2>1
  <2> QED BY <1>1, <2>1, <2>2
<1> QED BY <1>2, <1>3, <1>4

\* The next piece of a share is stored.
Adds(b, k, t) ==
  /\ Len(stream) = b + k - 1 /\ Len(stream') = b + k
  /\ \A i \in 1..Len(stream) : StoredLine(i)' = StoredLine(i)
  /\ StoredLine(b + k)' = t[k].line /\ t[k].part # "head"

LEMMA NextAdds ==
  ASSUME ServerInv, NEW r \in Requests, NEW t \in Seq(Piece),
         \A i \in 1..Len(t) : t[i].part # "tail", NEW b \in Nat, Sharing(r, t, b),
         request[r].step = "adding", request[r].accepted < Len(request[r].body),
         NEW o \in Objects, o = Following(request[r]), Added(r, o)
  PROVE  \E k \in 1..Len(t) : k = request[r].accepted + 1 /\ Adds(b, k, t)
<1>1. RequestOk(request[r]) /\ request[r] \in State /\ text[r] = <<>>
  BY DEF ServerInv
<1>2. PICK c \in Seq(Seq(Piece)), a \in Nat : c = request[r].body /\ a = request[r].accepted
  BY <1>1 DEF State
<1>3. /\ a < Len(c) /\ \A j \in 1..a : c[j] \in Objects
      /\ request[r].answer = 0 /\ c[a + 1] = o
  BY <1>1, <1>2 DEF RequestOk, Following
<1>4. Len(c) \in Nat
  BY <1>2
<1>5. a + 1 \in 0..Len(c) /\ a + 1 \in 1..a + 1
  BY <1>2, <1>3, <1>4, SMTT(30)
<1>6. \A j \in 1..a + 1 : c[j] \in Objects
  <2>1. \A j \in 1..a + 1 : j \in 1..a \/ j = a + 1
    BY <1>2
  <2> QED BY <2>1, <1>3
<1>7. LinesFrom(t, c) /\ Len(stream) = b + a
  BY <1>1, <1>2, <1>3 DEF Sharing
<1>8. a + 1 <= Len(t) /\ c[a + 1] = <<t[a + 1]>> /\ t[a + 1].part # "head"
  BY <1>5, <1>6, <1>7, OneEach
<1>9. /\ Len(stream') = Len(stream) + 1
      /\ \A i \in 1..Len(stream) : StoredLine(i)' = StoredLine(i)
      /\ stream'[Len(stream) + 1].line = o
  BY StreamGrows
<1>10. Len(stream) = b + (a + 1) - 1 /\ Len(stream') = b + (a + 1) /\ Len(stream) + 1 = b + (a + 1)
  BY <1>2, <1>7, <1>9
<1>11. stream'[b + (a + 1)].line = <<t[a + 1]>>
  BY <1>3, <1>8, <1>9, <1>10
<1>12. StoredLine(b + (a + 1))' = t[a + 1].line
  BY <1>11 DEF StoredLine
<1>13. a + 1 \in 1..Len(t)
  BY <1>2, <1>8
<1>14. Adds(b, a + 1, t)
  BY <1>8, <1>9, <1>10, <1>12 DEF Adds
<1> QED BY <1>2, <1>13, <1>14

LEMMA SharingGoesOn ==
  ASSUME ServerInv, NEW r \in Requests, RequestStep(r), NEW t \in Seq(Piece),
         \A i \in 1..Len(t) : t[i].part # "tail", NEW b \in Nat, Sharing(r, t, b)
  PROVE  /\ Busy(r)' => Sharing(r, t, b)'
         /\ UNCHANGED stream \/ \E k \in 1..Len(t) : Adds(b, k, t)
<1>1. RequestOk(request[r]) /\ request[r] \in State
  BY DEF ServerInv
<1>2. ASSUME NEW c, Arrives(r, c)
      PROVE  Sharing(r, t, b)' /\ UNCHANGED stream
  <2>1. request'[r] = Asked(c) /\ text'[r] = <<>>
    BY <1>2, RequestSteps DEF Only, TextOnly
  <2>2. text[r] = t /\ Len(stream) = b /\ LinesFrom(t, c) /\ UNCHANGED stream
    BY <1>2 DEF Arrives, Emptied, Sharing
  <2>3. request'[r].body = c /\ request'[r].accepted = 0
    BY <2>1 DEF Asked
  <2> QED BY <2>1, <2>2, <2>3 DEF Sharing
<1>3. ASSUME Vanishes(r)
      PROVE  ~Busy(r)' /\ UNCHANGED stream
  <2>1. text'[r] = <<>> /\ UNCHANGED <<stream, request>> /\ text[r] # <<>>
    BY <1>3, RequestSteps DEF TextOnly, Vanishes, Emptied
  <2>2. request[r].step = "none"
    BY <2>1 DEF ServerInv
  <2> QED BY <2>1, <2>2 DEF Busy
<1>4. ASSUME TooLong(r)
      PROVE  Sharing(r, t, b)' /\ UNCHANGED stream
  <2>1. request'[r] = Refused413 /\ text'[r] = <<>>
    BY <1>4, RequestSteps DEF Only, TextOnly
  <2>2. text[r] = t /\ Len(stream) = b /\ UNCHANGED stream
    BY <1>4 DEF TooLong, Emptied, Sharing
  <2>3. request'[r].body = <<>> /\ request'[r].accepted = 0
    BY <2>1 DEF Refused413
  <2>4. LinesFrom(t, <<>>)
    BY DEF LinesFrom
  <2> QED BY <2>1, <2>2, <2>3, <2>4 DEF Sharing
<1>5. ASSUME NEW o, Stores(r, o)
      PROVE  Sharing(r, t, b)' /\ \E k \in 1..Len(t) : Adds(b, k, t)
  <2>1. /\ request'[r] = CountedOn(request[r]) /\ text[r] = <<>> /\ text' = text
    BY <1>5, RequestSteps DEF Only, Stores
  <2>2. /\ request'[r].body = request[r].body
        /\ request'[r].accepted = request[r].accepted + 1
    BY <2>1, <1>1, CountedFields
  <2>3. PICK k \in 1..Len(t) : k = request[r].accepted + 1 /\ Adds(b, k, t)
    BY <1>5, NextAdds DEF Stores
  <2>4. Len(stream') = b + request'[r].accepted
    BY <2>2, <2>3 DEF Adds
  <2>5. LinesFrom(t, request[r].body)
    BY <2>1 DEF Sharing
  <2> QED BY <2>1, <2>2, <2>3, <2>4, <2>5 DEF Sharing
<1>6. ASSUME NEW code, Ends(r, code)
      PROVE  Sharing(r, t, b)' /\ UNCHANGED stream
  <2>1. /\ request'[r] = AnsweredBy(request[r], code) /\ text[r] = <<>> /\ text' = text
        /\ UNCHANGED stream /\ code \in {202, 400, 503} /\ request[r].step = "adding"
    <3>1. Only(r, AnsweredBy(request[r], code)) /\ text[r] = <<>>
      BY <1>6, RequestSteps
    <3>2. /\ UNCHANGED <<text, stream>> /\ code \in {202, 400, 503} /\ request[r].step = "adding"
      BY <1>6 DEF Ends, Ending
    <3> QED BY <3>1, <3>2 DEF Only
  <2>2. /\ request'[r].body = request[r].body /\ request'[r].accepted = request[r].accepted
    BY <2>1, <1>1, AnsweredFields
  <2>3. request[r].answer = 0
    BY <2>1, <1>1 DEF RequestOk
  <2>4. LinesFrom(t, request[r].body) /\ Len(stream) = b + request[r].accepted
    BY <2>1, <2>3 DEF Sharing
  <2> QED BY <2>1, <2>2, <2>4 DEF Sharing
<1>7. ASSUME NEW o, EndsUnsure(r, o)
      PROVE  Sharing(r, t, b)' /\ \E k \in 1..Len(t) : Adds(b, k, t)
  <2>1. /\ request'[r] = AnsweredBy(request[r], 503) /\ text[r] = <<>> /\ text' = text
    <3>1. Only(r, AnsweredBy(request[r], 503)) /\ text[r] = <<>>
      BY <1>7, RequestSteps
    <3>2. UNCHANGED text
      BY <1>7 DEF EndsUnsure, Ending
    <3> QED BY <3>1, <3>2 DEF Only
  <2>2. /\ request'[r].body = request[r].body
        /\ request'[r].accepted = request[r].accepted /\ request'[r].answer = 503
    BY <2>1, <1>1, AnsweredFields
  <2>3. PICK k \in 1..Len(t) : k = request[r].accepted + 1 /\ Adds(b, k, t)
    BY <1>7, NextAdds DEF EndsUnsure, Ending
  <2>6. request[r].accepted \in Nat
    BY <1>1 DEF State
  <2>4. Len(stream') = b + request'[r].accepted + 1
    BY <2>2, <2>3, <2>6, SMTT(30) DEF Adds
  <2>5. LinesFrom(t, request[r].body)
    BY <2>1 DEF Sharing
  <2> QED BY <2>1, <2>2, <2>3, <2>4, <2>5 DEF Sharing
<1>8. ASSUME Freed(r)
      PROVE  ~Busy(r)' /\ UNCHANGED stream
  <2>1. request'[r] = NotMade /\ UNCHANGED <<stream, text>> /\ request[r].step = "answered"
    BY <1>8, RequestSteps DEF Only, Freed
  <2>2. text[r] = <<>>
    BY <2>1 DEF ServerInv
  <2> QED BY <2>1, <2>2 DEF Busy, NotMade
<1>9. Busy(r)
  BY DEF Busy, RequestStep, Arrives, Vanishes, TooLong, Emptied, Stores, Ending, Ends,
         EndsUnsure, Freed
<1> QED BY <1>2, <1>3, <1>4, <1>5, <1>6, <1>7, <1>8, <1>9 DEF RequestStep

LEMMA WrittenGrows ==
  ASSUME FilesInv, NEW f \in Files, Grown(f)
  PROVE  \A g \in Files : Written(g) \in Nat /\ Written(g)' \in Nat /\ Written(g) <= Written(g)'
<1>1. ASSUME NEW g \in Files
      PROVE  /\ file[g].complete \in Nat /\ file'[g].complete \in Nat
             /\ file[g].half \in Half /\ file'[g].half \in Half
  BY <1>1 DEF FilesInv, Grown
<1>2. ASSUME NEW g \in Files, g # f
      PROVE  Written(g) \in Nat /\ Written(g)' \in Nat /\ Written(g) <= Written(g)'
  BY <1>1, <1>2 DEF Grown, Written
<1>3. Written(f) \in Nat /\ Written(f)' \in Nat /\ Written(f) <= Written(f)'
  <2>1. PICK c \in Nat, d \in Nat : c = file[f].complete /\ d = file'[f].complete
    BY <1>1
  <2>2. \/ d = c + 1 /\ file'[f].half = "no"
        \/ d = c /\ file[f].half = "no"
    BY <2>1 DEF Grown
  <2>3. Written(f) \in {c, c + 1} /\ (file[f].half = "no" => Written(f) = c)
    BY <2>1 DEF Written
  <2>4. Written(f)' \in {d, d + 1}
    BY <2>1 DEF Written
  <2> QED BY <2>2, <2>3, <2>4
<1> QED BY <1>2, <1>3

LEMMA ReplayServerKept ==
  ASSUME ServerInv, CatInv, NEW r \in Requests, RequestStep(r), Framed,
         UNCHANGED <<tailVars, replayVars>>
  PROVE  CatInv'
<1>1. PICK L : L = lines /\ ReadOnce(L) /\ SoFar(L) /\ \E b, n \in Nat : Progress(L, b, n)
  BY DEF CatInv
<1>2. PICK b \in Nat, n \in Nat : Progress(L, b, n)
  BY <1>1
<1>3. UNCHANGED <<start, read, refusals, stage, opened, lines, file, pending, chunk, post>>
  BY DEF tailVars, replayVars, Framed
<1>4. /\ Share(L, b, n) \in Seq(Piece) /\ Len(Share(L, b, n)) = n
      /\ \A i \in 1..n : Share(L, b, n)[i] = L[b + i] /\ L[b + i].part # "tail"
  <2>1. b + n <= Len(L)
    BY <1>2 DEF Progress
  <2>2. ReadOnce(L) /\ b \in Nat /\ n \in Nat
    BY <1>1, <1>2
  <2> QED BY <2>1, <2>2, ShareShape
<1>5. PICK t \in Seq(Piece) : t = Share(L, b, n)
  BY <1>4
<1>6. Busy(r)
  BY DEF Busy, RequestStep, Arrives, Vanishes, TooLong, Emptied, Stores, Ending, Ends,
         EndsUnsure, Freed
<1>7. Sharing(r, t, b)
  BY <1>2, <1>5, <1>6 DEF Progress
<1>8. /\ Busy(r)' => Sharing(r, t, b)'
      /\ UNCHANGED stream \/ \E k \in 1..n : Adds(b, k, t)
  <2>1. Len(t) = n /\ \A i \in 1..Len(t) : t[i].part # "tail"
    BY <1>4, <1>5
  <2>2. t \in Seq(Piece) /\ b \in Nat
    BY <1>2, <1>5
  <2>3. /\ Busy(r)' => Sharing(r, t, b)'
        /\ UNCHANGED stream \/ \E k \in 1..Len(t) : Adds(b, k, t)
    BY <1>6, <1>7, <2>1, <2>2, SharingGoesOn
  <2> QED BY <2>1, <2>3
<1>9. \A s \in Requests : s # r => ~Busy(s) /\ ~Busy(s)'
  <2>1. \A s \in Requests : s # r => request'[s] = request[s] /\ text'[s] = text[s]
    <3>1. CASE \E c : Arrives(r, c)
      BY <3>1, RequestSteps DEF Only, TextOnly
    <3>2. CASE Vanishes(r)
      BY <3>2, RequestSteps DEF TextOnly, Vanishes
    <3>3. CASE TooLong(r)
      BY <3>3, RequestSteps DEF Only, TextOnly
    <3>4. CASE \E o : Stores(r, o)
      <4>1. PICK o : Stores(r, o)
        BY <3>4
      <4>2. Only(r, CountedOn(request[r])) /\ UNCHANGED text
        BY <4>1, RequestSteps DEF Stores
      <4> QED BY <4>2 DEF Only
    <3>5. CASE \E code : Ends(r, code)
      <4>1. PICK code : Ends(r, code)
        BY <3>5
      <4>2. Only(r, AnsweredBy(request[r], code))
        BY <4>1, RequestSteps
      <4>3. UNCHANGED text
        BY <4>1 DEF Ends, Ending
      <4> QED BY <4>2, <4>3 DEF Only
    <3>6. CASE \E o : EndsUnsure(r, o)
      <4>1. PICK o : EndsUnsure(r, o)
        BY <3>6
      <4>2. Only(r, AnsweredBy(request[r], 503))
        BY <4>1, RequestSteps
      <4>3. UNCHANGED text
        BY <4>1 DEF EndsUnsure, Ending
      <4> QED BY <4>2, <4>3 DEF Only
    <3>7. CASE Freed(r)
      BY <3>7, RequestSteps DEF Only, Freed
    <3> QED BY <3>1, <3>2, <3>3, <3>4, <3>5, <3>6, <3>7 DEF RequestStep
  <2>2. \A s \in Requests : s # r => ~Busy(s)
    BY <1>6 DEF CatInv, Staged
  <2> QED BY <2>1, <2>2 DEF Busy
<1>10. Len(stream) \in Nat /\ L \in Seq(Piece) /\ Len(L) \in Nat
  BY <1>1 DEF ReadOnce, ServerInv
<1>11. Len(stream') <= b + n /\ Replayed(L)'
  <2>1. CASE UNCHANGED stream
    BY <1>2, <2>1 DEF Progress, Replayed, StoredLine
  <2>2. ASSUME NEW k \in 1..n, Adds(b, k, t) PROVE Len(stream') <= b + n /\ Replayed(L)'
    <3>1. Len(stream) = b + k - 1 /\ Len(stream') = b + k
      BY <2>2 DEF Adds
    <3>2. b + k <= b + n /\ b + k <= Len(L)
      BY <1>2, <1>10 DEF Progress
    <3>3. /\ StoredLine(b + k)' = L[b + k].line /\ L[b + k].part # "head"
      BY <1>4, <1>5, <2>2 DEF Adds
    <3>4. ASSUME NEW i \in 1..b + k, i # b + k
          PROVE i <= Len(L) /\ StoredLine(i)' = L[i].line /\ L[i].part # "head"
      <4>1. i \in 1..Len(stream)
        BY <3>1, <3>4
      <4>2. StoredLine(i)' = StoredLine(i)
        BY <2>2, <4>1 DEF Adds
      <4> QED BY <1>2, <4>1, <4>2 DEF Progress, Replayed
    <3>5. \A i \in 1..Len(stream') : i <= Len(L) /\ StoredLine(i)' = L[i].line /\ L[i].part # "head"
      BY <3>1, <3>2, <3>3, <3>4
    <3> QED BY <3>1, <3>2, <3>5 DEF Replayed
  <2> QED BY <1>8, <2>1, <2>2
<1>12. stage # "failed" => post # None
  BY <1>6 DEF CatInv, Staged
<1>13. Progress(L, b, n)'
  <2>1. \A s \in Requests : Busy(s)' => Sharing(s, Share(L, b, n), b)'
    BY <1>5, <1>8, <1>9
  <2>2. stage' \in {"reading", "posting"} => post' # None
    BY <1>3, <1>12
  <2>3. stage' # "complete"
    BY <1>3, <1>12 DEF CatInv, Staged
  <2>4. b + n <= Len(L) /\ (post' # None => chunk' = Share(L, b, n) /\ pending' = Rest(L, b + n))
    BY <1>2, <1>3 DEF Progress
  <2> QED BY <1>11, <2>1, <2>2, <2>3, <2>4 DEF Progress
<1>14. Staged'
  <2>1. stage' # "reading"
    BY <1>3, <1>12 DEF CatInv, Staged
  <2>2. \A x, y \in Requests : Busy(x)' /\ Busy(y)' => x = y
    BY <1>9
  <2> QED BY <1>3, <1>12, <2>1, <2>2 DEF CatInv, Staged
<1>15. Unused' /\ SoFar(L)'
  BY <1>1, <1>3 DEF CatInv, Unused, SoFar, Written
<1> QED BY <1>1, <1>3, <1>13, <1>14, <1>15 DEF CatInv

LEMMA ReplayWriteKept ==
  ASSUME FilesInv, CatInv, NEW f \in Files, Write(f), UNCHANGED <<tailVars, replayVars>>
  PROVE  CatInv'
<1>1. PICK L : L = lines /\ ReadOnce(L) /\ SoFar(L) /\ \E b, n \in Nat : Progress(L, b, n)
  BY DEF CatInv
<1>2. PICK b \in Nat, n \in Nat : Progress(L, b, n)
  BY <1>1
<1>3. UNCHANGED <<start, read, refusals, stage, opened, lines, stream, request, pending, chunk,
                  post, text>>
  BY DEF tailVars, replayVars, Write, ingestVars
<1>4. \A g \in Files : Written(g) \in Nat /\ Written(g)' \in Nat /\ Written(g) <= Written(g)'
  BY WriteGrows, WrittenGrows
<1>5. SoFar(L)'
  <2>1. ASSUME NEW i \in 1..Len(L), L[i].part # "head"
        PROVE  L[i].line[2] <= Written(L[i].line[1])'
    <3>0. L \in Seq(Piece)
      BY <1>1 DEF ReadOnce
    <3>6. L[i] \in Piece
      BY <3>0
    <3>1. L[i].line \in FileLines
      BY <3>6 DEF Piece
    <3>2. L[i].line[1] \in Files /\ L[i].line[2] \in Nat
      BY <3>1, LineShape
    <3>3. PICK g \in Files, m \in Nat : g = L[i].line[1] /\ m = L[i].line[2]
      BY <3>2
    <3>4. m <= Written(g)
      BY <1>1, <2>1, <3>3 DEF SoFar
    <3>5. m <= Written(g)'
      BY <1>4, <3>4
    <3> QED BY <3>3, <3>5
  <2> QED BY <1>1, <1>3, <2>1 DEF SoFar
<1>6. Progress(L, b, n)'
  BY <1>2, <1>3 DEF Progress, Replayed, StoredLine, Busy, Sharing
<1>7. Staged' /\ Unused'
  BY <1>3 DEF CatInv, Staged, Unused, Busy
<1> QED BY <1>1, <1>3, <1>5, <1>6, <1>7 DEF CatInv

LEMMA ContentsShape ==
  ASSUME FilesInv, NEW f \in Files
  PROVE  /\ Contents(f) \in Seq(Piece)
         /\ \A i \in 1..Len(Contents(f)) :
              /\ Contents(f)[i].line = <<f, i>> /\ Contents(f)[i].part # "tail"
              /\ Contents(f)[i].part # "head" => i <= Written(f)
<1>1. PICK c \in Nat : c = file[f].complete
  BY DEF FilesInv
<1>2. /\ file[f].half \in Half /\ c <= MaxLines[f] /\ (file[f].half # "no" => c + 1 <= MaxLines[f])
      /\ MaxLines[f] \in Nat
  BY <1>1, LineShape DEF FilesInv
<1>3. PICK s : s = [n \in 1..c |-> [line |-> <<f, n>>, part |-> "whole"]]
  OBVIOUS
<1>4. \A n \in 1..c : <<f, n>> \in FileLines
  BY <1>2, LineShape
<1>5. s \in Seq(Piece) /\ Len(s) = c /\ \A i \in 1..c : s[i].line = <<f, i>> /\ s[i].part = "whole"
  <2>1. \A n \in 1..c : [line |-> <<f, n>>, part |-> "whole"] \in Piece
    BY <1>4 DEF Piece, Part
  <2> QED BY <1>3, <2>1
<1>6. Written(f) \in Nat /\ c <= Written(f) /\ (file[f].half = "bare" => Written(f) = c + 1)
  BY <1>1 DEF Written
<1>7. CASE file[f].half = "no"
  <2>1. Contents(f) = s
    <3>1. Contents(f) = s \o <<>>
      BY <1>1, <1>3, <1>7 DEF Contents
    <3> QED BY <3>1, <1>5, ConcatEmptySeq
  <2> QED BY <1>5, <1>6, <2>1
<1>8. CASE file[f].half # "no"
  <2>1. PICK p : p = [line |-> <<f, c + 1>>, part |-> file[f].half]
    OBVIOUS
  <2>2. <<f, c + 1>> \in FileLines /\ file[f].half \in {"head", "bare"}
    BY <1>2, <1>8, LineShape DEF Half
  <2>3. p \in Piece /\ p.line = <<f, c + 1>> /\ p.part = file[f].half
    BY <2>1, <2>2 DEF Piece, Part
  <2>4. Contents(f) = s \o <<p>>
    BY <1>1, <1>3, <1>8, <2>1 DEF Contents
  <2>5. /\ s \o <<p>> \in Seq(Piece) /\ Len(s \o <<p>>) = c + 1
        /\ \A i \in 1..c : (s \o <<p>>)[i] = s[i]
        /\ (s \o <<p>>)[c + 1] = p
    BY <1>5, <2>3
  <2>6. \A i \in 1..c + 1 : i \in 1..c \/ i = c + 1
    OBVIOUS
  <2>7. ASSUME NEW i \in 1..c + 1
        PROVE  /\ Contents(f)[i].line = <<f, i>> /\ Contents(f)[i].part # "tail"
               /\ Contents(f)[i].part # "head" => i <= Written(f)
    <3>1. CASE i \in 1..c
      BY <1>5, <1>6, <2>4, <2>5, <3>1
    <3>2. CASE i = c + 1
      BY <1>6, <2>2, <2>3, <2>4, <2>5, <3>2
    <3> QED BY <2>6, <3>1, <3>2
  <2> QED BY <2>4, <2>5, <2>7
<1> QED BY <1>7, <1>8

Filed(C, f) == \A i \in 1..Len(C) : C[i].line = <<f, i>> /\ C[i].part # "tail"
NotOf(L, f) == \A i \in 1..Len(L) : L[i].line[1] # f

LEMMA ReadMore ==
  ASSUME NEW L, ReadOnce(L), NEW C \in Seq(Piece), NEW f, NotOf(L, f), Filed(C, f)
  PROVE  /\ ReadOnce(L \o C)
         /\ \A i \in 1..Len(L \o C) :
              (\E j \in 1..Len(L) : (L \o C)[i] = L[j]) \/ (\E j \in 1..Len(C) : (L \o C)[i] = C[j])
<1>1. L \in Seq(Piece)
  BY DEF ReadOnce
<1>2. PICK a \in Nat, d \in Nat, M \in Seq(Piece) : a = Len(L) /\ d = Len(C) /\ M = L \o C
  <2>1. L \o C \in Seq(Piece)
    BY <1>1, ConcatProperties
  <2>2. Len(L) \in Nat /\ Len(C) \in Nat
    BY <1>1
  <2> QED BY <2>1, <2>2
<1>3. /\ Len(M) = a + d /\ \A i \in 1..a : M[i] = L[i]
      /\ \A i \in 1..d : M[a + i] = C[i]
  BY <1>1, <1>2
<1>4. ASSUME NEW i \in 1..a + d PROVE i \in 1..a \/ \E k \in 1..d : i = a + k
  <2>1. i \notin 1..a => i - a \in 1..d /\ i = a + (i - a)
    BY <1>2
  <2> QED BY <2>1
<1>5. \A i \in 1..d : M[a + i].line = <<f, i>> /\ M[a + i].part # "tail"
  BY <1>2, <1>3 DEF Filed
<1>6. \A i \in 1..a : M[i].line[1] # f
  BY <1>2, <1>3 DEF NotOf
<1>7. \A i \in 1..a + d : M[i].part # "tail"
  <2>1. \A i \in 1..a : M[i].part # "tail"
    BY <1>2, <1>3 DEF ReadOnce
  <2> QED BY <1>4, <1>5, <2>1
<1>8. ASSUME NEW i \in 1..a + d, NEW j \in 1..a + d, i < j PROVE M[i].line # M[j].line
  <2>1. CASE j \in 1..a
    <3>1. i \in 1..a
      BY <1>2, <1>8, <2>1
    <3> QED BY <1>2, <1>3, <1>8, <2>1, <3>1 DEF ReadOnce
  <2>2. ASSUME NEW k \in 1..d, j = a + k PROVE M[i].line # M[j].line
    <3>1. M[j].line = <<f, k>>
      BY <1>5, <2>2
    <3>2. CASE i \in 1..a
      BY <1>6, <3>1, <3>2
    <3>3. ASSUME NEW x \in 1..d, i = a + x PROVE M[i].line # M[j].line
      <4>1. M[i].line = <<f, x>>
        BY <1>5, <3>3
      <4>2. x # k
        BY <1>8, <2>2, <3>3
      <4> QED BY <3>1, <4>1, <4>2
    <3> QED BY <1>4, <3>2, <3>3
  <2> QED BY <1>4, <2>1, <2>2
<1>9. ASSUME NEW i \in 1..a + d, NEW m \in 1..M[i].line[2] - 1
      PROVE  InText(M, <<M[i].line[1], m>>, i - 1)
  <2>1. CASE i \in 1..a
    <3>1. M[i] = L[i] /\ InText(L, <<L[i].line[1], m>>, i - 1)
      BY <1>2, <1>3, <2>1 DEF ReadOnce
    <3>2. PICK j \in 1..i - 1 : L[j].line = <<L[i].line[1], m>>
      BY <3>1 DEF InText
    <3>3. j \in 1..a
      BY <1>2, <2>1
    <3> QED BY <1>3, <3>1, <3>2, <3>3 DEF InText
  <2>2. ASSUME NEW k \in 1..d, i = a + k PROVE InText(M, <<M[i].line[1], m>>, i - 1)
    <3>1. M[i].line = <<f, k>>
      BY <1>5, <2>2
    <3>2. m \in 1..k - 1
      BY <3>1
    <3>3. m \in 1..d /\ a + m \in 1..i - 1
      BY <1>2, <2>2, <3>2
    <3>4. M[a + m].line = <<f, m>>
      BY <1>5, <3>3
    <3> QED BY <3>1, <3>3, <3>4 DEF InText
  <2> QED BY <1>4, <2>1, <2>2
<1>10. ReadOnce(M)
  <2>1. M \in Seq(Piece) /\ Len(M) = a + d
    BY <1>2, <1>3
  <2>2. \A i \in 1..Len(M) : i \in 1..a + d
    BY <2>1
  <2>3. \A i \in 1..Len(M) : M[i].part # "tail"
    BY <2>2, <1>7
  <2>4. \A i, j \in 1..Len(M) : i < j => M[i].line # M[j].line
    BY <2>2, <1>8
  <2>5. \A i \in 1..Len(M) : \A m \in 1..M[i].line[2] - 1 :
          InText(M, <<M[i].line[1], m>>, i - 1)
    BY <2>2, <1>9
  <2> QED BY <2>1, <2>3, <2>4, <2>5 DEF ReadOnce
<1>11. \A i \in 1..Len(M) :
         (\E j \in 1..Len(L) : M[i] = L[j]) \/ (\E j \in 1..Len(C) : M[i] = C[j])
  <2>1. Len(M) = a + d
    BY <1>3
  <2>2. \A i \in 1..a : \E j \in 1..Len(L) : M[i] = L[j]
    BY <1>2, <1>3
  <2>3. \A k \in 1..d : \E j \in 1..Len(C) : M[a + k] = C[j]
    BY <1>2, <1>3
  <2>4. ASSUME NEW i \in 1..a + d
        PROVE  (\E j \in 1..Len(L) : M[i] = L[j]) \/ (\E j \in 1..Len(C) : M[i] = C[j])
    BY <1>4, <2>2, <2>3
  <2> QED BY <2>1, <2>4
<1> QED BY <1>2, <1>10, <1>11

LEMMA ReplayReadKept ==
  ASSUME ServerInv, FilesInv, CatInv, ReadFile, UNCHANGED tailVars
  PROVE  CatInv' /\ pending' \in Seq(Piece)
<1>1. PICK L : L = lines /\ ReadOnce(L) /\ SoFar(L) /\ \E b, n \in Nat : Progress(L, b, n)
  BY DEF CatInv
<1>2. /\ UNCHANGED <<start, read, refusals, stream, request, file, chunk, post, text>>
      /\ stage = "reading" /\ opened' = opened + 1
      /\ lines' = lines \o Contents(opened') /\ pending' = lines'
      /\ stage' = IF opened' = Cardinality(Files) THEN "posting" ELSE "reading"
  BY DEF tailVars, ReadFile, ingestVars
<1>17. PICK N \in Nat : N = Cardinality(Files) /\ Files = 1..N
  BY PostingAssumption, FS_CardinalityType
<1>3. PICK f : f = opened' /\ N = Cardinality(Files)
  BY <1>17
<1>4. f \in Files /\ opened \in 0..N /\ f = opened + 1 /\ f <= N
  <2>1. opened \in 0..N /\ opened < N
    BY <1>2, <1>3 DEF CatInv, Staged
  <2>3. f = opened + 1
    BY <1>2, <1>3
  <2>2. f \in 1..N /\ f <= N
    BY <1>17, <2>1, <2>3
  <2> QED BY <1>17, <2>1, <2>2, <2>3
<1>5. PICK C \in Seq(Piece) : C = Contents(f)
  BY <1>4, ContentsShape
<1>6. \A i \in 1..Len(C) :
        /\ C[i].line = <<f, i>> /\ C[i].part # "tail"
        /\ C[i].part # "head" => i <= Written(f)
  BY <1>4, <1>5, ContentsShape
<1>7. NotOf(L, f)
  <2>1. L \in Seq(Piece)
    BY <1>1 DEF ReadOnce
  <2>2. ASSUME NEW i \in 1..Len(L) PROVE L[i].line[1] # f
    <3>1. L[i].line[1] <= opened
      BY <1>1 DEF SoFar
    <3> QED BY <1>4, <3>1
  <2> QED BY <2>2 DEF NotOf
<1>8. PICK M : M = L \o C
  OBVIOUS
<1>9. /\ ReadOnce(M)
      /\ \A i \in 1..Len(M) :
           (\E j \in 1..Len(L) : M[i] = L[j]) \/ (\E j \in 1..Len(C) : M[i] = C[j])
  <2>1. ReadOnce(L) /\ C \in Seq(Piece)
    BY <1>1, <1>5
  <2>2. Filed(C, f)
    BY <1>6 DEF Filed
  <2>3. /\ ReadOnce(L \o C)
        /\ \A i \in 1..Len(L \o C) :
             (\E j \in 1..Len(L) : (L \o C)[i] = L[j]) \/ (\E j \in 1..Len(C) : (L \o C)[i] = C[j])
    BY <1>7, <2>1, <2>2, ReadMore
  <2> QED BY <1>8, <2>3
<1>10. lines' = M /\ pending' = M
  BY <1>1, <1>2, <1>3, <1>5, <1>8
<1>11. M \in Seq(Piece) /\ Len(M) \in Nat
  BY <1>9 DEF ReadOnce
<1>12. SoFar(M)'
  <2>1. ASSUME NEW i \in 1..Len(M)
        PROVE  M[i].line[1] <= f /\ (M[i].part # "head" => M[i].line[2] <= Written(M[i].line[1]))
    <3>1. ASSUME NEW j \in 1..Len(L), M[i] = L[j]
          PROVE  M[i].line[1] <= f
                 /\ (M[i].part # "head" => M[i].line[2] <= Written(M[i].line[1]))
      <4>1. /\ L[j].line[1] <= opened
            /\ L[j].part # "head" => L[j].line[2] <= Written(L[j].line[1])
        BY <1>1 DEF SoFar
      <4>2. L[j].line[1] \in Nat
        <5>1. M[i] \in Piece
          BY <1>11
        <5>2. M[i].line \in FileLines
          BY <5>1 DEF Piece
        <5>3. M[i].line[1] \in Files
          BY <5>2, LineShape
        <5> QED BY <1>17, <3>1, <5>3
      <4> QED BY <1>4, <3>1, <4>1, <4>2
    <3>2. ASSUME NEW j \in 1..Len(C), M[i] = C[j]
          PROVE  M[i].line[1] <= f
                 /\ (M[i].part # "head" => M[i].line[2] <= Written(M[i].line[1]))
      <4>1. M[i].line = <<f, j>> /\ (M[i].part # "head" => j <= Written(f))
        BY <1>6, <3>2
      <4>2. f \in Nat
        BY <1>4
      <4> QED BY <4>1, <4>2
    <3> QED BY <1>9, <3>1, <3>2
  <2>2. \A i \in 1..Len(M) : Written(M[i].line[1])' = Written(M[i].line[1])
    BY <1>2 DEF Written
  <2> QED BY <1>3, <2>1, <2>2 DEF SoFar
<1>13. Len(stream) = 0 /\ post = None /\ \A r \in Requests : ~Busy(r)
  BY <1>2 DEF CatInv, Staged
<1>14. Progress(M, 0, 0)'
  <2>1. Rest(M, 0) = M
    BY <1>11, SubSeqFull DEF Rest
  <2>2. \A r \in Requests : ~Busy(r)'
    BY <1>2, <1>13 DEF Busy
  <2>3. Len(stream') = 0 /\ post' = None /\ stage' # "complete" /\ pending' = Rest(M, 0)
    BY <1>2, <1>10, <1>13, <2>1
  <2> QED BY <1>11, <2>2, <2>3 DEF Progress, Replayed
<1>15. Staged'
  <2>1. opened' \in 0..N /\ (opened' # N => opened' < N)
    BY <1>3, <1>4
  <2>2. stage' \in {"reading", "posting"} /\ (stage' = "reading" => opened' # N)
    BY <1>2, <1>3
  <2>3. stream' = <<>> /\ post' = None /\ \A r \in Requests : ~Busy(r)'
    BY <1>2, <1>13 DEF Busy, CatInv, Staged
  <2> QED BY <1>3, <2>1, <2>2, <2>3 DEF Staged
<1>16. Unused'
  BY <1>2 DEF CatInv, Unused
<1> QED BY <1>9, <1>10, <1>11, <1>12, <1>14, <1>15, <1>16 DEF CatInv

LEMMA ShareOfRest ==
  ASSUME NEW L, ReadOnce(L), NEW b \in Nat, b <= Len(L), NEW n \in 0..Len(L) - b
  PROVE  /\ SubSeq(Rest(L, b), 1, n) = Share(L, b, n)
         /\ SubSeq(Rest(L, b), n + 1, Len(Rest(L, b))) = Rest(L, b + n)
<1>1. L \in Seq(Piece) /\ Len(L) \in Nat
  BY DEF ReadOnce
<1>2. Len(Rest(L, b)) = Len(L) - b
  BY <1>1 DEF Rest
<1>3. SubSeq(Rest(L, b), 1, n) = Share(L, b, n)
  <2>1. SubSeq(Rest(L, b), 1, n) = [i \in 1..n |-> L[b + i]]
    BY <1>1 DEF Rest
  <2>2. Share(L, b, n) = [i \in 1..n |-> L[b + i]]
    BY <1>1 DEF Share
  <2> QED BY <2>1, <2>2
<1>4. SubSeq(Rest(L, b), n + 1, Len(Rest(L, b))) = Rest(L, b + n)
  <2>1. SubSeq(Rest(L, b), n + 1, Len(L) - b) = [i \in 1..Len(L) - b - n |-> L[b + n + i]]
    BY <1>1 DEF Rest
  <2>2. Rest(L, b + n) = [i \in 1..Len(L) - b - n |-> L[b + n + i]]
    BY <1>1 DEF Rest
  <2> QED BY <1>2, <2>1, <2>2
<1> QED BY <1>3, <1>4

LEMMA ReplayPostKept ==
  ASSUME ServerInv, FilesInv, PostInv, CatInv, PostChunk, UNCHANGED tailVars
  PROVE  ServerInv' /\ PostInv' /\ CatInv'
<1>1. PICK L : L = lines /\ ReadOnce(L) /\ SoFar(L) /\ \E b, n \in Nat : Progress(L, b, n)
  BY DEF CatInv
<1>2. PICK b \in Nat, m \in Nat : Progress(L, b, m)
  BY <1>1
<1>3. stage = "posting" /\ post = None /\ pending # <<>> /\ UNCHANGED <<stage, opened, lines>>
  BY DEF PostChunk, replayVars
<1>4. L \in Seq(Piece) /\ Len(L) \in Nat
  BY <1>1 DEF ReadOnce
<1>5. b <= Len(L) /\ pending = Rest(L, b) /\ Len(stream) = b
  BY <1>2, <1>3, <1>4 DEF Progress
<1>6. Len(pending) = Len(L) - b /\ Len(pending) \in Nat /\ Len(pending) # 0
  <2>1. pending \in Seq(Piece)
    BY DEF PostInv
  <2> QED BY <1>3, <1>4, <1>5, <2>1 DEF Rest
<1>7. PICK n : n = IF ChunkLines < Len(pending) THEN ChunkLines ELSE Len(pending)
  OBVIOUS
<1>8. n \in 1..Len(pending) /\ n \in 0..Len(L) - b
  BY <1>6, <1>7, ReplayAssumption
<1>9. PICK r \in Requests : SentAs(r, n)
  BY <1>7 DEF PostChunk, Send, SentAs
<1>10. ServerInv' /\ PostInv'
  BY <1>3, <1>8, <1>9, SendOk
<1>11. /\ chunk' = Share(L, b, n) /\ pending' = Rest(L, b + n)
       /\ text'[r] = Share(L, b, n)
       /\ \A s \in Requests : s # r => text'[s] = text[s]
  <2>1. /\ chunk' = SubSeq(Rest(L, b), 1, n)
        /\ pending' = SubSeq(Rest(L, b), n + 1, Len(Rest(L, b)))
    BY <1>5, <1>9 DEF SentAs
  <2>2. chunk' = Share(L, b, n) /\ pending' = Rest(L, b + n)
    BY <1>1, <1>2, <1>5, <1>8, <2>1, ShareOfRest
  <2>3. text'[r] = chunk' /\ \A s \in Requests : s # r => text'[s] = text[s]
    BY <1>3, <1>8, <1>9, SendOk
  <2> QED BY <2>2, <2>3
<1>12. UNCHANGED <<stream, request, file>> /\ post' = r
  BY <1>9 DEF SentAs, ingestVars
<1>13. r # None
  BY <1>9, PostingAssumption
<1>14. \A s \in Requests : Busy(s)' => s = r
  <2>1. \A s \in Requests : ~Busy(s)
    BY <1>3 DEF CatInv, Staged
  <2> QED BY <1>11, <1>12, <2>1 DEF Busy
<1>15. Progress(L, b, n)'
  <2>1. b + n <= Len(L) /\ b <= b + n
    BY <1>2, <1>4, <1>8
  <2>2. Replayed(L)'
    BY <1>2, <1>12 DEF Progress, Replayed, StoredLine
  <2>3. Sharing(r, Share(L, b, n), b)'
    <3>1. text'[r] # <<>>
      <4>1. chunk' # <<>>
        BY <1>10, <1>12, <1>13 DEF PostInv
      <4> QED BY <1>11, <4>1
    <3> QED BY <1>5, <1>11, <1>12, <3>1 DEF Sharing
  <2> QED BY <1>3, <1>5, <1>11, <1>12, <1>13, <1>14, <2>1, <2>2, <2>3 DEF Progress
<1>16. Staged' /\ Unused' /\ SoFar(L)'
  <2>1. Unused' /\ SoFar(L)'
    BY <1>1, <1>3, <1>12 DEF CatInv, Unused, SoFar, Written, tailVars
  <2>2. stage' = "posting" /\ post' # None /\ opened' = opened
    BY <1>3, <1>12, <1>13
  <2> QED BY <1>14, <2>1, <2>2 DEF CatInv, Staged
<1>17. b + n \in Nat /\ n \in Nat
  BY <1>2, <1>8
<1> QED BY <1>1, <1>2, <1>3, <1>10, <1>15, <1>16, <1>17 DEF CatInv

\* A post under way is the only one at work.
LEMMA PostIsBusy ==
  ASSUME PostInv, CatInv, post \in Requests
  PROVE  stage = "posting" /\ Busy(post) /\ \A s \in Requests : s # post => ~Busy(s)
<1>1. post # None /\ Busy(post)
  BY PostingAssumption DEF PostInv, Busy
<1> QED BY <1>1 DEF CatInv, Staged

LEMMA ReplaySentKept ==
  ASSUME ServerInv, FilesInv, PostInv, CatInv, ChunkSent, UNCHANGED tailVars
  PROVE  CatInv'
<1>1. PICK L : L = lines /\ ReadOnce(L) /\ SoFar(L) /\ \E b, n \in Nat : Progress(L, b, n)
  BY DEF CatInv
<1>2. PICK b \in Nat, n \in Nat : Progress(L, b, n)
  BY <1>1
<1>3. /\ Heard(202) /\ chunk' = <<>> /\ post' = None
      /\ UNCHANGED <<file, pending, stage, opened, lines, stream, text>>
  BY DEF ChunkSent, replayVars, Heard
<1>4. /\ post \in Requests /\ Only(post, NotMade) /\ text[post] = <<>>
      /\ request[post].answer = 202 /\ request[post].body = Split(chunk)
  BY <1>3, HeardOk
<1>5. stage = "posting" /\ Busy(post) /\ \A s \in Requests : s # post => ~Busy(s)
  BY <1>4, PostIsBusy
<1>6. post # None
  BY <1>4, PostingAssumption
<1>7. PICK t : t = Share(L, b, n)
  OBVIOUS
<1>8. /\ b + n <= Len(L) /\ chunk = t /\ pending = Rest(L, b + n) /\ Sharing(post, t, b)
  BY <1>2, <1>4, <1>5, <1>6, <1>7 DEF Progress
<1>9. /\ t \in Seq(Piece) /\ Len(t) = n /\ \A i \in 1..Len(t) : t[i].part # "tail"
  <2>1. ReadOnce(L) /\ b \in Nat /\ n \in Nat
    BY <1>1, <1>2
  <2>2. /\ Share(L, b, n) \in Seq(Piece) /\ Len(Share(L, b, n)) = n
        /\ \A i \in 1..n : Share(L, b, n)[i] = L[b + i] /\ L[b + i].part # "tail"
    BY <1>8, <2>1, ShareShape, ZenonT(30)
  <2> QED BY <1>7, <2>2
<1>10. request[post].accepted = n
  <2>1. RequestOk(request[post])
    BY <1>4 DEF ServerInv
  <2>2. /\ request[post].accepted = Len(Split(t))
        /\ \A k \in 1..Len(Split(t)) : Split(t)[k] \in Objects
    BY <1>4, <1>8, <2>1 DEF RequestOk
  <2> QED BY <1>9, <2>2, AllAccepted
<1>11. Len(stream) = b + n
  BY <1>4, <1>8, <1>10 DEF Sharing
<1>12. \A s \in Requests : ~Busy(s)'
  <2>1. ASSUME NEW s \in Requests, s # post PROVE ~Busy(s)'
    BY <1>3, <1>4, <1>5, <2>1 DEF Busy, Only
  <2>2. request'[post] = NotMade /\ text' = text
    BY <1>3, <1>4 DEF Only
  <2>3. \A s \in Requests : s = post => ~(text'[s] # <<>> \/ request'[s].step # "none")
    BY <1>4, <2>2 DEF NotMade
  <2>4. \A s \in Requests : s = post => ~Busy(s)'
    BY <2>3 DEF Busy
  <2> QED BY <2>1, <2>4
<1>13. Progress(L, b + n, 0)'
  <2>1. Replayed(L)'
    BY <1>2, <1>3 DEF Progress, Replayed, StoredLine
  <2>2. b + n + 0 = b + n
    BY <1>2
  <2> QED BY <1>3, <1>5, <1>8, <1>11, <1>12, <2>1, <2>2 DEF Progress
<1>14. Staged' /\ Unused' /\ SoFar(L)'
  <2>1. Unused' /\ SoFar(L)'
    BY <1>1, <1>3 DEF CatInv, Unused, SoFar, Written, tailVars
  <2> QED BY <1>3, <1>5, <1>12, <2>1 DEF CatInv, Staged
<1>15. b + n \in Nat
  BY <1>2
<1> QED BY <1>1, <1>3, <1>13, <1>14, <1>15 DEF CatInv

LEMMA ReplayFailedKept ==
  ASSUME ServerInv, FilesInv, PostInv, CatInv, ChunkFailed, UNCHANGED tailVars
  PROVE  CatInv'
<1>1. PICK L : L = lines /\ ReadOnce(L) /\ SoFar(L) /\ \E b, n \in Nat : Progress(L, b, n)
  BY DEF CatInv
<1>2. PICK b \in Nat, n \in Nat : Progress(L, b, n)
  BY <1>1
<1>3. /\ \E code \in {400, 413, 503} : Heard(code) \/ GivenUp
      /\ stage' = "failed" /\ chunk' = <<>> /\ post' = None
      /\ UNCHANGED <<file, pending, opened, lines, stream, text>>
  BY DEF ChunkFailed, Refused, Heard, GivenUp, ingestVars
<1>4. \A s \in Requests : Busy(s)' => Busy(s) /\ request'[s] = request[s]
  <2>1. ASSUME NEW code \in {400, 413, 503}, Heard(code)
        PROVE  \A s \in Requests : Busy(s)' => Busy(s) /\ request'[s] = request[s]
    <3>1. post \in Requests /\ Only(post, NotMade) /\ text[post] = <<>>
      BY <2>1, HeardOk
    <3>2. \A s \in Requests : s = post => ~Busy(s)'
      BY <1>3, <3>1 DEF Only, NotMade, Busy
    <3> QED BY <1>3, <3>1, <3>2 DEF Only, Busy
  <2>2. ASSUME GivenUp
        PROVE  \A s \in Requests : Busy(s)' => Busy(s) /\ request'[s] = request[s]
    BY <2>2 DEF GivenUp, ingestVars, Busy
  <2> QED BY <1>3, <2>1, <2>2
<1>5. Progress(L, b, n)'
  <2>1. Replayed(L)'
    BY <1>2, <1>3 DEF Progress, Replayed, StoredLine
  <2>2. \A s \in Requests : Busy(s)' => Sharing(s, Share(L, b, n), b)'
    <3>1. \A s \in Requests : Busy(s) => Sharing(s, Share(L, b, n), b)
      BY <1>2 DEF Progress
    <3> QED BY <1>3, <1>4, <3>1 DEF Sharing
  <2> QED BY <1>2, <1>3, <2>1, <2>2 DEF Progress
<1>6. Staged' /\ Unused' /\ SoFar(L)'
  <2>1. Unused' /\ SoFar(L)'
    BY <1>1, <1>3 DEF CatInv, Unused, SoFar, Written, tailVars
  <2> QED BY <1>3, <1>4, <2>1 DEF CatInv, Staged
<1> QED BY <1>1, <1>2, <1>3, <1>5, <1>6 DEF CatInv

LEMMA ReplayCompleteKept ==
  ASSUME ServerInv, FilesInv, PostInv, CatInv, Complete, UNCHANGED tailVars
  PROVE  CatInv'
<1>1. PICK L : L = lines /\ ReadOnce(L) /\ SoFar(L) /\ \E b, n \in Nat : Progress(L, b, n)
  BY DEF CatInv
<1>2. PICK b \in Nat, n \in Nat : Progress(L, b, n)
  BY <1>1
<1>3. /\ stage = "posting" /\ post = None /\ pending = <<>> /\ stage' = "complete"
      /\ UNCHANGED <<stream, request, file, pending, chunk, post, text, opened, lines>>
  BY DEF Complete, postingVars, ingestVars
<1>4. Len(stream) = Len(L)
  <2>1. L \in Seq(Piece) /\ Len(L) \in Nat
    BY <1>1 DEF ReadOnce
  <2>2. b <= Len(L) /\ Rest(L, b) = <<>> /\ Len(stream) = b
    BY <1>2, <1>3, <2>1 DEF Progress
  <2>3. Len(Rest(L, b)) = Len(L) - b
    BY <1>2, <2>1, <2>2 DEF Rest
  <2> QED BY <1>2, <2>1, <2>2, <2>3
<1>5. Progress(L, b, n)'
  <2>1. Replayed(L)'
    BY <1>2, <1>3 DEF Progress, Replayed, StoredLine
  <2>2. \A s \in Requests : Busy(s)' => Sharing(s, Share(L, b, n), b)'
    BY <1>2, <1>3 DEF Progress, Sharing, Busy
  <2> QED BY <1>2, <1>3, <1>4, <2>1, <2>2 DEF Progress
<1>6. Staged' /\ Unused' /\ SoFar(L)'
  <2>1. Unused' /\ SoFar(L)'
    BY <1>1, <1>3 DEF CatInv, Unused, SoFar, Written, tailVars
  <2> QED BY <1>3, <2>1 DEF CatInv, Staged, Busy
<1> QED BY <1>1, <1>2, <1>3, <1>5, <1>6 DEF CatInv

LEMMA ReplayStart ==
  ASSUME ReplayInit, read = [f \in Files |-> [line |-> 0, half |-> "no"]],
         start = [f \in Files |-> 0], refusals = 0
  PROVE  ServerInv /\ FilesInv /\ PostInv /\ CatInv
<1>1. ServerInv /\ FilesInv /\ PostInv
  BY PostingInitOk DEF ReplayInit
<1>2. /\ stage = "reading" /\ opened = 0 /\ lines = <<>> /\ stream = <<>> /\ post = None
      /\ pending = <<>> /\ request = [r \in Requests |-> NotMade]
      /\ text = [r \in Requests |-> <<>>]
  BY DEF ReplayInit, PostingInit, IngestInit
<1>3. \A r \in Requests : ~Busy(r)
  BY <1>2 DEF Busy, NotMade
<1>4. PICK L \in Seq(Piece) : L = <<>>
  <2>1. PICK e : e = <<>>
    OBVIOUS
  <2>2. e \in Seq(Piece)
    BY <2>1, NothingGood
  <2> QED BY <2>1, <2>2
<1>5. Len(L) = 0 /\ ReadOnce(L) /\ SoFar(L) /\ L = lines
  BY <1>2, <1>4 DEF ReadOnce, SoFar
<1>6. Progress(L, 0, 0)
  <2>1. Rest(L, 0) = <<>>
    BY <1>4 DEF Rest
  <2> QED BY <1>2, <1>3, <1>4, <1>5, <2>1 DEF Progress, Replayed
<1>7. Staged
  <2>1. IsFiniteSet(Files) /\ Files # {}
    BY PostingAssumption
  <2>2. Cardinality(Files) \in Nat /\ Cardinality(Files) # 0
    BY <2>1, FS_CardinalityType, FS_EmptySet
  <2>3. 0 \in 0..Cardinality(Files) /\ 0 < Cardinality(Files)
    BY <2>2
  <2> QED BY <1>2, <1>3, <2>3 DEF Staged
<1> QED BY <1>1, <1>5, <1>6, <1>7 DEF CatInv, Unused

LEMMA ReplayStepKept ==
  ASSUME ServerInv, FilesInv, PostInv, CatInv, ReplayStep, UNCHANGED tailVars
  PROVE  ServerInv' /\ FilesInv' /\ PostInv' /\ CatInv'
<1>1. CASE ReadFile
  <2>1. CatInv' /\ pending' \in Seq(Piece)
    BY <1>1, ReplayReadKept
  <2>2. UNCHANGED <<stream, request, file, chunk, post, text, faults>>
    BY <1>1 DEF ReadFile, ingestVars
  <2>3. ServerInv'
    BY <2>2 DEF ServerInv
  <2>4. PostInv'
    BY <2>1, <2>2 DEF PostInv
  <2> QED BY <2>1, <2>2, <2>3, <2>4, FilesStill
<1>2. CASE PostChunk
  <2>1. ServerInv' /\ PostInv' /\ CatInv'
    BY <1>2, ReplayPostKept
  <2>2. UNCHANGED file
    BY <1>2 DEF PostChunk, Send
  <2> QED BY <2>1, <2>2, FilesStill
<1>3. CASE ChunkSent
  <2>1. Heard(202) /\ chunk' = <<>> /\ post' = None /\ UNCHANGED <<file, pending>>
    BY <1>3 DEF ChunkSent
  <2>2. pending' \in Seq(Piece)
    BY <2>1 DEF PostInv
  <2>3. ServerInv' /\ PostInv' /\ FilesInv'
    BY <2>1, <2>2, PostOver, FilesStill
  <2> QED BY <1>3, <2>3, ReplaySentKept
<1>4. CASE ChunkFailed
  <2>1. /\ Refused \/ GivenUp
        /\ chunk' = <<>> /\ post' = None /\ UNCHANGED <<file, pending>>
    BY <1>4 DEF ChunkFailed
  <2>2. pending' \in Seq(Piece)
    BY <2>1 DEF PostInv
  <2>3. (\E code \in {202, 400, 413, 503} : Heard(code)) \/ GivenUp
    BY <2>1 DEF Refused
  <2>4. ServerInv' /\ PostInv' /\ FilesInv'
    BY <2>1, <2>2, <2>3, PostOver, FilesStill
  <2> QED BY <1>4, <2>4, ReplayFailedKept
<1>5. CASE Complete
  <2>1. UNCHANGED <<stream, request, file, pending, chunk, post, text, faults>>
    BY <1>5 DEF Complete, postingVars, ingestVars
  <2>2. ServerInv' /\ PostInv' /\ FilesInv'
    BY <2>1, FilesStill DEF ServerInv, PostInv
  <2> QED BY <1>5, <2>2, ReplayCompleteKept
<1> QED BY <1>1, <1>2, <1>3, <1>4, <1>5 DEF ReplayStep

LEMMA ReplayPostingKept ==
  ASSUME ServerInv, FilesInv, PostInv, CatInv, PostingStep, UNCHANGED <<tailVars, replayVars>>
  PROVE  ServerInv' /\ FilesInv' /\ PostInv' /\ CatInv'
<1>1. ASSUME NEW f \in Files, Write(f)
      PROVE  ServerInv' /\ FilesInv' /\ PostInv' /\ CatInv'
  BY <1>1, WriteKept, ReplayWriteKept
<1>2. ASSUME NEW r \in Requests, RequestStep(r), Framed
      PROVE  ServerInv' /\ FilesInv' /\ PostInv' /\ CatInv'
  <2>1. ServerInv' /\ PostInv' /\ CatInv'
    BY <1>2, ServerKept, PostKept, ReplayServerKept
  <2>2. FilesInv'
    BY <1>2, FilesStill DEF Framed
  <2> QED BY <2>1, <2>2
<1> QED BY <1>1, <1>2, PostingSteps

-----------------------------------------------------------------------------
(* The inductive invariant of a feeder, whichever it is.                   *)
FeedersInv ==
  /\ ServerInv /\ FilesInv /\ PostInv
  /\ \/ tool = "tail" /\ stage = "unused" /\ TailInv /\ CountInv
     \/ tool = "cat" /\ CatInv

LEMMA FeedersStart ==
  ASSUME Init
  PROVE  FeedersInv
BY TailStart, ReplayStart DEF Init, FeedersInv

LEMMA FeedersStill ==
  ASSUME FeedersInv, UNCHANGED vars
  PROVE  FeedersInv'
<1>1. UNCHANGED <<stream, request, file, pending, chunk, post, text, faults, at, read, start,
                  refusals, stage, opened, lines, tool>>
  BY DEF vars, postingVars, ingestVars, tailVars, replayVars
<1>2. ServerInv' /\ FilesInv' /\ PostInv'
  BY <1>1 DEF FeedersInv, ServerInv, FilesInv, PostInv
<1>3. ASSUME TailInv, CountInv, ServerInv PROVE TailInv' /\ CountInv'
  <2>1. ReadInv /\ WaitingInv /\ StreamInv /\ \A r \in Requests : GoodRequest(r)
    BY <1>3 DEF TailInv
  <2>2. Forward /\ StreamInv'
    BY <1>1, <2>1, StillForward
  <2>3. WaitingInv' /\ ReadInv'
    BY <1>1, <2>1, <2>2, WaitingForward DEF ReadInv
  <2>4. \A r \in Requests : GoodRequest(r)'
    BY <1>1, <2>1, <2>2, RequestForward
  <2>5. ASSUME NEW l \in FileLines PROVE Counted(l)'
    <3>1. Due(l)' => Due(l)
      BY <1>1 DEF Due, InPieces, Accepted, Finished
    <3>2. GivenUpWith(l)' \subseteq GivenUpWith(l)
      BY <1>1 DEF GivenUpWith, MayAdd, InPieces
    <3> QED BY <1>1, <1>3, <2>1, <3>1, <3>2, CountStill DEF CountInv
  <2> QED BY <2>2, <2>3, <2>4, <2>5 DEF TailInv, CountInv
<1>4. ASSUME CatInv PROVE CatInv'
  <2>1. PICK L : L = lines /\ ReadOnce(L) /\ SoFar(L) /\ \E b, n \in Nat : Progress(L, b, n)
    BY <1>4 DEF CatInv
  <2>2. PICK b \in Nat, n \in Nat : Progress(L, b, n)
    BY <2>1
  <2>3. Progress(L, b, n)'
    BY <1>1, <2>2 DEF Progress, Replayed, StoredLine, Busy, Sharing
  <2>4. Staged' /\ Unused' /\ SoFar(L)'
    BY <1>1, <1>4, <2>1 DEF CatInv, Staged, Busy, Unused, SoFar, Written
  <2> QED BY <1>1, <2>1, <2>2, <2>3, <2>4 DEF CatInv
<1> QED BY <1>1, <1>2, <1>3, <1>4 DEF FeedersInv

LEMMA FeedersStep ==
  ASSUME FeedersInv, [Next]_vars
  PROVE  FeedersInv'
<1>1. ServerInv /\ FilesInv /\ PostInv
  BY DEF FeedersInv
<1>2. CASE PostingStep /\ UNCHANGED <<tailVars, replayVars, tool>>
  <2>1. ASSUME tool = "tail", stage = "unused", TailInv, CountInv PROVE FeedersInv'
    <3>1. ServerInv' /\ FilesInv' /\ PostInv' /\ TailInv' /\ CountInv'
      BY <1>1, <1>2, <2>1, TailPostingKept
    <3> QED BY <1>2, <2>1, <3>1 DEF FeedersInv, replayVars
  <2>2. ASSUME tool = "cat", CatInv PROVE FeedersInv'
    <3>1. ServerInv' /\ FilesInv' /\ PostInv' /\ CatInv'
      BY <1>1, <1>2, <2>2, ReplayPostingKept
    <3> QED BY <1>2, <2>2, <3>1 DEF FeedersInv
  <2> QED BY <2>1, <2>2 DEF FeedersInv
<1>3. CASE tool = "tail" /\ TailStep /\ UNCHANGED <<replayVars, tool>>
  <2>1. stage = "unused" /\ TailInv /\ CountInv
    BY <1>3 DEF FeedersInv
  <2>2. ServerInv' /\ FilesInv' /\ PostInv' /\ TailInv' /\ CountInv'
    BY <1>1, <1>3, <2>1, TailStepKept
  <2> QED BY <1>3, <2>1, <2>2 DEF FeedersInv, replayVars
<1>4. CASE tool = "cat" /\ ReplayStep /\ UNCHANGED <<tailVars, tool>>
  <2>1. CatInv
    BY <1>4 DEF FeedersInv
  <2>2. ServerInv' /\ FilesInv' /\ PostInv' /\ CatInv'
    BY <1>1, <1>4, <2>1, ReplayStepKept
  <2> QED BY <1>4, <2>2 DEF FeedersInv
<1> QED BY <1>2, <1>3, <1>4, FeedersStill DEF Next

LEMMA FeedersInvariant == Spec => []FeedersInv
<1>1. Init => FeedersInv
  BY FeedersStart
<1>2. FeedersInv /\ [Next]_vars => FeedersInv'
  BY FeedersStep
<1> QED BY <1>1, <1>2, PTL DEF Spec

-----------------------------------------------------------------------------
LEMMA CopiesOfStored ==
  ASSUME ServerInv, NEW l, Stored(l)
  PROVE  Copies(l) > 0
<1>1. PICK i \in 1..Len(stream) : StoredLine(i) = l
  BY DEF Stored
<1>2. PICK S : S = {j \in DOMAIN stream : StoredLine(j) = l}
  OBVIOUS
<1>3. DOMAIN stream = 1..Len(stream) /\ Len(stream) \in Nat
  BY DEF ServerInv
<1>4. S \subseteq 1..Len(stream) /\ i \in S
  BY <1>1, <1>2, <1>3
<1>5. IsFiniteSet(1..Len(stream))
  BY <1>3, FS_Interval
<1>6. IsFiniteSet(S) /\ S # {}
  BY <1>4, <1>5, FS_Subset
<1>7. Cardinality(S) \in Nat /\ Cardinality(S) # 0
  BY <1>6, FS_CardinalityType, FS_EmptySet
<1> QED BY <1>2, <1>7 DEF Copies

LEMMA KeptLines ==
  ASSUME FeedersInv
  PROVE  ReadLinesAreKept
<1>1. SUFFICES ASSUME NEW f \in Files, NEW n \in 1..MaxLines[f], Taken(f, n)
               PROVE  Copies(<<f, n>>) > 0 \/ \E piece \in Pieces : piece.line = <<f, n>>
  BY DEF ReadLinesAreKept
<1>2. CASE TailInv
  <2>1. PICK w : Waits(w) /\ Kept(w)
    BY <1>2 DEF TailInv, WaitingInv
  <2>2. CASE Stored(<<f, n>>)
    BY <2>2, CopiesOfStored DEF FeedersInv
  <2>3. CASE InText(w, <<f, n>>, Len(w))
    <3>1. PICK j \in 1..Len(w) : w[j].line = <<f, n>>
      BY <2>3 DEF InText
    <3>2. chunk \in Seq(Piece) /\ pending \in Seq(Piece) /\ w = chunk \o pending
      BY <2>1 DEF FeedersInv, PostInv, Waits
    <3>3. PICK a \in Nat, b \in Nat : a = Len(chunk) /\ b = Len(pending)
      BY <3>2
    <3>4. /\ Len(w) = a + b /\ \A i \in 1..a : w[i] = chunk[i]
          /\ \A i \in 1..b : w[a + i] = pending[i]
      BY <3>2, <3>3
    <3>5. DOMAIN chunk = 1..a /\ DOMAIN pending = 1..b
      BY <3>2, <3>3
    <3>6. CASE j \in 1..a
      <4>1. w[j] = chunk[j]
        BY <3>4, <3>6
      <4>2. chunk[j] \in Range(chunk)
        BY <3>5, <3>6 DEF Range
      <4> QED BY <3>1, <4>1, <4>2 DEF Pieces
    <3>7. CASE j \notin 1..a
      <4>1. j - a \in 1..b /\ a + (j - a) = j
        BY <3>3, <3>4, <3>7
      <4>2. w[j] = pending[j - a]
        BY <3>4, <4>1
      <4>3. pending[j - a] \in Range(pending)
        BY <3>5, <4>1 DEF Range
      <4> QED BY <3>1, <4>2, <4>3 DEF Pieces
    <3> QED BY <3>6, <3>7
  <2> QED BY <1>1, <2>1, <2>2, <2>3 DEF Kept
<1>3. CASE CatInv
  <2>1. start[f] = 0 /\ read[f] = [line |-> 0, half |-> "no"]
    BY <1>3 DEF CatInv, Unused
  <2>2. ~Taken(f, n)
    BY <2>1 DEF Taken
  <2> QED BY <1>1, <2>2
<1> QED BY <1>2, <1>3 DEF FeedersInv

LEMMA CopiesBounded ==
  ASSUME FeedersInv
  PROVE  CopiesAreRetries
<1>1. SUFFICES ASSUME NEW f \in Files, NEW n \in 1..MaxLines[f]
               PROVE  Copies(<<f, n>>) <= 1 + faults + refusals
  BY DEF CopiesAreRetries
<1>2. PICK l \in FileLines : l = <<f, n>>
  BY LineShape
<1>3. ServerInv /\ Copies(l) \in Nat /\ faults \in Nat
  <2>1. ServerInv
    BY DEF FeedersInv
  <2> QED BY <2>1, CopiesGrow DEF ServerInv
<1>4. CASE TailInv /\ CountInv
  <2>1. /\ IsFiniteSet(GivenUpWith(l))
        /\ Copies(l) + Cardinality(GivenUpWith(l)) + Dues(l) <= 1 + faults + refusals
    BY <1>2, <1>4 DEF CountInv, Counted
  <2>2. Cardinality(GivenUpWith(l)) \in Nat /\ Dues(l) \in 0..1 /\ refusals \in Nat
    BY <1>4, <2>1, FS_CardinalityType DEF Dues, TailInv, ReadInv
  <2>3. PICK c \in Nat, y \in Nat, d \in Nat, h \in Nat, i \in Nat :
          /\ c = Copies(l) /\ y = Cardinality(GivenUpWith(l)) /\ d = Dues(l)
          /\ h = faults /\ i = refusals
    BY <1>3, <2>2
  <2>4. c + y + d <= 1 + h + i
    BY <2>1, <2>3
  <2>5. c <= 1 + h + i
    BY <2>3, <2>4
  <2> QED BY <1>2, <2>3, <2>5
<1>5. CASE CatInv
  <2>1. PICK L : ReadOnce(L) /\ \E b, m \in Nat : Progress(L, b, m)
    BY <1>5 DEF CatInv
  <2>2. Replayed(L)
    BY <2>1 DEF Progress
  <2>3. PICK S : S = {i \in DOMAIN stream : StoredLine(i) = l}
    OBVIOUS
  <2>4. DOMAIN stream = 1..Len(stream) /\ Len(stream) \in Nat /\ Len(L) \in Nat
    BY <1>3, <2>1 DEF ServerInv, ReadOnce
  <2>5. ASSUME NEW i \in S, NEW j \in S PROVE i = j
    <3>1. i \in 1..Len(L) /\ j \in 1..Len(L) /\ L[i].line = l /\ L[j].line = l
      BY <2>2, <2>3, <2>4 DEF Replayed
    <3>2. ~(i < j) /\ ~(j < i)
      BY <2>1, <3>1 DEF ReadOnce
    <3> QED BY <3>1, <3>2
  <2>6. Cardinality(S) <= 1
    <3>1. CASE S = {}
      BY <3>1, FS_EmptySet
    <3>2. ASSUME NEW x \in S PROVE Cardinality(S) <= 1
      <4>1. S = {x}
        BY <2>5
      <4>2. Cardinality({x}) = 1
        BY FS_Singleton
      <4> QED BY <4>1, <4>2
    <3> QED BY <3>1, <3>2
  <2>7. Copies(l) <= 1 /\ refusals = 0
    BY <1>5, <2>3, <2>6 DEF Copies, CatInv, Unused
  <2> QED BY <1>2, <1>3, <2>7
<1> QED BY <1>4, <1>5 DEF FeedersInv

LEMMA InOrder ==
  ASSUME FeedersInv
  PROVE  ReplayedInOrder
<1>1. CASE stage = "unused"
  BY <1>1 DEF ReplayedInOrder
<1>2. CASE CatInv
  <2>1. PICK L : L = lines /\ ReadOnce(L) /\ \E b, m \in Nat : Progress(L, b, m)
    BY <1>2 DEF CatInv
  <2>2. PICK b \in Nat, m \in Nat : Progress(L, b, m)
    BY <2>1
  <2>3. Len(stream) \in Nat /\ DOMAIN stream = 1..Len(stream) /\ Len(L) \in Nat
    BY <2>1 DEF FeedersInv, ServerInv, ReadOnce
  <2>4. Len(stream) <= Len(L)
    <3>1. b + m <= Len(L) /\ Len(stream) <= b + m
      BY <2>2 DEF Progress
    <3>2. PICK x \in Nat, y \in Nat : x = Len(stream) /\ y = Len(L)
      BY <2>3
    <3>3. x <= y
      BY <2>2, <3>1, <3>2
    <3> QED BY <3>2, <3>3
  <2>5. \A i \in DOMAIN stream : StoredLine(i) = lines[i].line
    BY <2>1, <2>2, <2>3 DEF Progress, Replayed
  <2>6. stage = "complete" => Len(stream) = Len(lines)
    BY <2>1, <2>2 DEF Progress
  <2> QED BY <2>1, <2>4, <2>5, <2>6 DEF ReplayedInOrder
<1> QED BY <1>1, <1>2 DEF FeedersInv

(* Nothing the tailer read is forgotten: it is stored or still to be       *)
(* posted, whichever posts failed, timed out or were cut.                  *)
THEOREM ReadLinesKept == Spec => []ReadLinesAreKept
BY FeedersInvariant, KeptLines, PTL

(* A line is stored once, and once more only for each failed post.         *)
THEOREM OneCopyPerFailure == Spec => []CopiesAreRetries
BY FeedersInvariant, CopiesBounded, PTL

(* The stream holds a beginning of what the replay read, in order, and all *)
(* of it when the replay says it is complete.                              *)
THEOREM ReplaysInOrder == Spec => []ReplayedInOrder
BY FeedersInvariant, InOrder, PTL

-----------------------------------------------------------------------------
(* What Delivery sees of a feeder.                                         *)
Seen == [f \in Files |-> Written(f)]
Log == [i \in DOMAIN stream |-> StoredLine(i)]

LEMMA FeederMapsTo ==
  /\ Delivered!Init = (start \in [Files -> Nat] /\ Seen \in [Files -> Nat] /\ Log = <<>>)
  /\ Delivered!Write = (Seen' \in [Files -> Nat] /\ (\A f \in Files : Seen'[f] >= Seen[f])
                        /\ UNCHANGED <<start, Log>>)
  /\ \A f, n : Delivered!Deliver(f, n) =
       /\ n > start[f] /\ n <= Seen[f]
       /\ \A m \in start[f] + 1..n - 1 : Delivered!Delivered(f, m)
       /\ Log' = Append(Log, <<f, n>>) /\ UNCHANGED <<start, Seen>>
  /\ \A f, n : Delivered!Delivered(f, n) = \E i \in DOMAIN Log : Log[i] = <<f, n>>
  /\ (UNCHANGED Delivered!vars) = UNCHANGED <<start, Seen, Log>>
BY DEF Delivered!Init, Delivered!Write, Delivered!Deliver, Delivered!Delivered, Delivered!vars,
       Seen, Log, Written

LEMMA DeliveredNext ==
  Delivered!Next = (Delivered!Write
                    \/ \E f \in Files : \E n \in 1..Seen[f] : Delivered!Deliver(f, n))
BY DEF Delivered!Next, Seen, Written

LEMMA ViewStays ==
  /\ UNCHANGED stream => Log' = Log
  /\ UNCHANGED file => Seen' = Seen
BY DEF Log, StoredLine, Seen, Written

LEMMA LogShape ==
  ASSUME ServerInv
  PROVE  /\ Log \in Seq(FileLines) /\ Len(Log) = Len(stream) /\ DOMAIN Log = 1..Len(stream)
         /\ \A i \in 1..Len(stream) : Log[i] = StoredLine(i)
<1>1. DOMAIN stream = 1..Len(stream) /\ Len(stream) \in Nat
  BY DEF ServerInv
<1>2. \A i \in 1..Len(stream) : StoredLine(i) \in FileLines
  BY StoredLines
<1>3. Log = [i \in 1..Len(stream) |-> StoredLine(i)]
  BY <1>1 DEF Log
<1> QED BY <1>1, <1>2, <1>3

LEMMA StoringDelivers ==
  ASSUME ServerInv, ServerInv', FilesInv, start \in [Files -> Nat], UNCHANGED <<file, start>>,
         NEW r \in Requests, NEW o \in Objects, Added(r, o),
         NEW f \in Files, NEW n \in Nat, o[1].line = <<f, n>>,
         n > start[f], n <= Written(f),
         \A m \in start[f] + 1..n - 1 : Stored(<<f, m>>)
  PROVE  Delivered!Next
<1>1. Written(f) \in Nat /\ Seen[f] = Written(f) /\ start[f] \in Nat
  BY DEF FilesInv, Seen, Written
<1>2. PICK d \in Nat : d = Len(stream)
  BY DEF ServerInv
<1>3. /\ Len(stream') = d + 1 /\ stream'[d + 1].line = o
      /\ \A i \in 1..d : StoredLine(i)' = StoredLine(i)
  BY <1>2, StreamGrows
<1>4. Log' = Append(Log, <<f, n>>)
  <2>1. Log \in Seq(FileLines) /\ Len(Log) = d /\ \A i \in 1..d : Log[i] = StoredLine(i)
    BY <1>2, LogShape
  <2>2. DOMAIN stream' = 1..d + 1
    BY <1>3 DEF ServerInv
  <2>3. Log' = [i \in 1..d + 1 |-> StoredLine(i)']
    BY <2>2 DEF Log
  <2>4. StoredLine(d + 1)' = <<f, n>>
    <3>1. stream'[d + 1].line[1].line = <<f, n>>
      BY <1>3
    <3> QED BY <3>1 DEF StoredLine
  <2>5. \A i \in 1..d + 1 : i \in 1..d \/ i = d + 1
    BY <1>2
  <2>6. Append(Log, <<f, n>>) = [i \in 1..d + 1 |-> IF i = d + 1 THEN <<f, n>> ELSE Log[i]]
    BY <1>2, <2>1
  <2>7. \A i \in 1..d + 1 :
          StoredLine(i)' = IF i = d + 1 THEN <<f, n>> ELSE Log[i]
    BY <1>3, <2>1, <2>4, <2>5
  <2> QED BY <2>3, <2>6, <2>7
<1>5. ASSUME NEW m \in start[f] + 1..n - 1 PROVE Delivered!Delivered(f, m)
  <2>1. PICK i \in 1..Len(stream) : StoredLine(i) = <<f, m>>
    BY DEF Stored
  <2>2. i \in DOMAIN Log /\ Log[i] = <<f, m>>
    BY <2>1, LogShape
  <2> QED BY <2>2, FeederMapsTo
<1>6. UNCHANGED <<start, Seen>>
  BY ViewStays
<1>7. Delivered!Deliver(f, n)
  BY <1>1, <1>4, <1>5, <1>6, FeederMapsTo
<1>8. n \in 1..Seen[f]
  BY <1>1
<1> QED BY <1>7, <1>8, DeliveredNext

LEMMA WritingDelivers ==
  ASSUME FilesInv, NEW f \in Files, Write(f), UNCHANGED start
  PROVE  Delivered!Next
<1>1. \A g \in Files : Written(g) \in Nat /\ Written(g)' \in Nat /\ Written(g) <= Written(g)'
  BY WriteGrows, WrittenGrows
<1>2. Seen' = [g \in Files |-> Written(g)'] /\ Seen = [g \in Files |-> Written(g)]
  BY DEF Seen
<1>3. Seen' \in [Files -> Nat] /\ \A g \in Files : Seen'[g] >= Seen[g]
  BY <1>1, <1>2
<1>4. UNCHANGED stream
  BY DEF Write, ingestVars
<1> QED BY <1>3, <1>4, ViewStays, FeederMapsTo, DeliveredNext

\* A step of a request stores one line or leaves the stream alone.
LEMMA StoresOrNot ==
  ASSUME NEW r \in Requests, RequestStep(r)
  PROVE  \/ UNCHANGED stream
         \/ \E o \in Objects :
              /\ request[r].step = "adding" /\ request[r].accepted < Len(request[r].body)
              /\ o = Following(request[r]) /\ Added(r, o)
<1>1. ASSUME NEW o, Stores(r, o) \/ EndsUnsure(r, o)
      PROVE  /\ o \in Objects
             /\ request[r].step = "adding" /\ request[r].accepted < Len(request[r].body)
             /\ o = Following(request[r]) /\ Added(r, o)
  BY <1>1 DEF Stores, EndsUnsure, Ending
<1>2. ASSUME NEW o, Stores(r, o) \/ EndsUnsure(r, o)
      PROVE  \E x \in Objects :
               /\ request[r].step = "adding" /\ request[r].accepted < Len(request[r].body)
               /\ x = Following(request[r]) /\ Added(r, x)
  BY <1>1, <1>2
<1>3. CASE \E b : Arrives(r, b)
  BY <1>3 DEF Arrives
<1>4. CASE Vanishes(r) \/ TooLong(r) \/ Freed(r)
  BY <1>4 DEF Vanishes, TooLong, Freed
<1>5. CASE \E code : Ends(r, code)
  BY <1>5 DEF Ends
<1> QED BY <1>2, <1>3, <1>4, <1>5 DEF RequestStep

LEMMA TailStoringDelivers ==
  ASSUME ServerInv, FilesInv, TailInv, NEW r \in Requests, RequestStep(r),
         UNCHANGED <<file, start>>
  PROVE  Delivered!Next \/ UNCHANGED Delivered!vars
<1>1. CASE UNCHANGED stream
  BY <1>1, ViewStays, FeederMapsTo
<1>2. ASSUME NEW o \in Objects,
             request[r].step = "adding", request[r].accepted < Len(request[r].body),
             o = Following(request[r]), Added(r, o)
      PROVE  Delivered!Next
  <2>1. RequestOk(request[r]) /\ ReadInv /\ GoodRequest(r)
    BY DEF ServerInv, TailInv
  <2>2. /\ o[1].line \in FileLines /\ Finished(o[1].line)
        /\ o[1].line[2] > start[o[1].line[1]]
        /\ \A m \in Before(o[1].line) : Stored(<<o[1].line[1], m>>)
    BY <1>2, <2>1, NextObject
  <2>3. PICK f \in Files, n \in Nat : o[1].line = <<f, n>>
    BY <2>2, LineShape
  <2>4. /\ n > start[f] /\ \A m \in start[f] + 1..n - 1 : Stored(<<f, m>>)
        /\ n <= read[f].line \/ (n = read[f].line + 1 /\ read[f].half = "bare")
    BY <2>2, <2>3 DEF Before, Finished
  <2>5. n <= Written(f)
    <3>1. PICK c \in Nat, m \in Nat : c = file[f].complete /\ m = read[f].line
      BY <2>1 DEF ReadInv, FilesInv
    <3>2. /\ m <= c
          /\ read[f].half = "bare" /\ m = c => file[f].half = "bare"
      BY <2>1, <3>1 DEF ReadInv
    <3>3. Written(f) \in {c, c + 1} /\ (file[f].half = "bare" => Written(f) = c + 1)
      BY <3>1 DEF Written
    <3> QED BY <2>4, <3>1, <3>2, <3>3
  <2>6. start \in [Files -> Nat]
    BY <2>1 DEF ReadInv
  <2> QED BY <1>2, <2>3, <2>4, <2>5, <2>6, ServerKept, StoringDelivers
<1> QED BY <1>1, <1>2, StoresOrNot

LEMMA ReplayStoringDelivers ==
  ASSUME ServerInv, FilesInv, CatInv, NEW r \in Requests, RequestStep(r),
         UNCHANGED <<file, start>>
  PROVE  Delivered!Next \/ UNCHANGED Delivered!vars
<1>1. CASE UNCHANGED stream
  BY <1>1, ViewStays, FeederMapsTo
<1>2. ASSUME NEW o \in Objects,
             request[r].step = "adding", request[r].accepted < Len(request[r].body),
             o = Following(request[r]), Added(r, o)
      PROVE  Delivered!Next
  <2>1. PICK L : ReadOnce(L) /\ SoFar(L) /\ \E b, n \in Nat : Progress(L, b, n)
    BY DEF CatInv
  <2>2. PICK b \in Nat, m \in Nat : Progress(L, b, m)
    BY <2>1
  <2>3. PICK t : t = Share(L, b, m)
    OBVIOUS
  <2>4. b + m <= Len(L) /\ Sharing(r, t, b) /\ Replayed(L)
    <3>1. Busy(r)
      BY <1>2 DEF Busy
    <3> QED BY <2>2, <2>3, <3>1 DEF Progress
  <2>5. /\ t \in Seq(Piece) /\ Len(t) = m /\ \A i \in 1..Len(t) : t[i].part # "tail"
        /\ \A i \in 1..Len(t) : t[i] = L[b + i]
    <3>1. ReadOnce(L) /\ b \in Nat /\ m \in Nat
      BY <2>1, <2>2
    <3>2. /\ Share(L, b, m) \in Seq(Piece) /\ Len(Share(L, b, m)) = m
          /\ \A i \in 1..m : Share(L, b, m)[i] = L[b + i] /\ L[b + i].part # "tail"
      BY <2>4, <3>1, ShareShape, ZenonT(30)
    <3> QED BY <2>3, <3>2
  <2>6. PICK k \in 1..Len(t) : Adds(b, k, t)
    <3>1. t \in Seq(Piece) /\ (\A i \in 1..Len(t) : t[i].part # "tail") /\ b \in Nat
      BY <2>2, <2>5
    <3> QED BY <1>2, <2>4, <3>1, NextAdds
  <2>7. /\ Len(stream) = b + k - 1 /\ Len(stream') = b + k
        /\ StoredLine(b + k)' = L[b + k].line /\ L[b + k].part # "head"
    BY <2>5, <2>6 DEF Adds
  <2>8. stream'[b + k].line = o /\ Len(stream) \in Nat
    <3>1. stream'[Len(stream) + 1].line = o /\ Len(stream) \in Nat
      BY <1>2, StreamGrows
    <3>2. Len(stream) + 1 = b + k
      BY <2>2, <2>6, <2>7
    <3> QED BY <3>1, <3>2
  <2>9. o[1].line = L[b + k].line
    BY <2>7, <2>8 DEF StoredLine
  <2>10. b + k \in 1..Len(L)
    <3>1. L \in Seq(Piece) /\ Len(L) \in Nat
      BY <2>1 DEF ReadOnce
    <3>2. k \in 1..m
      BY <2>5, <2>6
    <3> QED BY <2>2, <2>4, <3>1, <3>2
  <2>11. PICK f \in Files, n \in Nat : o[1].line = <<f, n>> /\ n > 0
    <3>1. o[1] \in Piece
      BY ObjectShape
    <3>2. o[1].line \in FileLines
      BY <3>1 DEF Piece
    <3> QED BY <3>2, LineShape
  <2>16. PICK x \in 1..Len(L) : x = b + k /\ L[x].line = <<f, n>> /\ L[x].part # "head"
    BY <2>7, <2>9, <2>10, <2>11
  <2>17. L[x].line[1] = f /\ L[x].line[2] = n
    BY <2>16
  <2>12. n <= Written(f)
    <3>1. L[x].line[2] <= Written(L[x].line[1])
      BY <2>1, <2>16 DEF SoFar
    <3> QED BY <2>17, <3>1
  <2>13. start \in [Files -> Nat] /\ start[f] = 0
    BY DEF CatInv, Unused
  <2>14. ASSUME NEW j \in start[f] + 1..n - 1 PROVE Stored(<<f, j>>)
    <3>1. j \in 1..n - 1
      BY <2>13
    <3>2. InText(L, <<f, j>>, b + k - 1)
      <4>1. InText(L, <<L[x].line[1], j>>, x - 1)
        BY <2>1, <2>16, <2>17, <3>1 DEF ReadOnce
      <4> QED BY <2>16, <2>17, <4>1
    <3>3. PICK i \in 1..b + k - 1 : L[i].line = <<f, j>>
      BY <3>2 DEF InText
    <3>4. i \in 1..Len(stream)
      BY <2>7, <3>3
    <3> QED BY <2>4, <3>3, <3>4 DEF Replayed, Stored
  <2>15. n > start[f]
    BY <2>11, <2>13
  <2> QED BY <1>2, <2>11, <2>12, <2>13, <2>14, <2>15, ServerKept, StoringDelivers
<1> QED BY <1>1, <1>2, StoresOrNot

LEMMA DeliveredStart ==
  ASSUME Init
  PROVE  Delivered!Init
<1>1. FeedersInv
  BY FeedersStart
<1>2. \A f \in Files : Written(f) \in Nat
  BY <1>1 DEF FeedersInv, FilesInv, Written
<1>3. Seen \in [Files -> Nat]
  BY <1>2 DEF Seen
<1>4. start \in [Files -> Nat]
  BY <1>1 DEF FeedersInv, TailInv, ReadInv, CatInv, Unused
<1>5. stream = <<>>
  BY DEF Init, TailInit, ReplayInit, PostingInit, IngestInit
<1>6. Log = <<>>
  BY <1>5 DEF Log
<1> QED BY <1>3, <1>4, <1>6, FeederMapsTo

LEMMA DeliveredStep ==
  ASSUME FeedersInv, [Next]_vars
  PROVE  [Delivered!Next]_Delivered!vars
<1>1. SUFFICES Delivered!Next \/ UNCHANGED Delivered!vars
  OBVIOUS
<1>2. ServerInv /\ FilesInv /\ PostInv
  BY DEF FeedersInv
<1>3. CASE UNCHANGED <<stream, file, start>>
  BY <1>3, ViewStays, FeederMapsTo
<1>4. CASE PostingStep /\ UNCHANGED <<tailVars, replayVars, tool>>
  <2>1. UNCHANGED start
    BY <1>4 DEF tailVars
  <2>2. ASSUME NEW f \in Files, Write(f) PROVE Delivered!Next
    BY <1>2, <2>1, <2>2, WritingDelivers
  <2>3. ASSUME NEW r \in Requests, RequestStep(r), Framed
        PROVE  Delivered!Next \/ UNCHANGED Delivered!vars
    <3>1. UNCHANGED file
      BY <2>3 DEF Framed
    <3> QED BY <1>2, <2>1, <2>3, <3>1, TailStoringDelivers, ReplayStoringDelivers DEF FeedersInv
  <2> QED BY <1>2, <1>4, <2>2, <2>3, PostingSteps
<1>5. CASE TailStep
  <2>1. UNCHANGED <<stream, file, start>>
    BY <1>5 DEF TailStep, TailRead, TailPost, ReadLine, NextFile, Sleep, Flush, Send, Sent,
                SendFailed, Heard, Refused, GivenUp, ingestVars, postingVars, tailVars
  <2> QED BY <1>3, <2>1
<1>6. CASE ReplayStep /\ UNCHANGED tailVars
  <2>1. UNCHANGED <<stream, file, start>>
    BY <1>6 DEF ReplayStep, ReadFile, PostChunk, ChunkSent, ChunkFailed, Complete, Send,
                Heard, Refused, GivenUp, ingestVars, postingVars, tailVars
  <2> QED BY <1>3, <2>1
<1>7. CASE UNCHANGED vars
  BY <1>3, <1>7 DEF vars, postingVars, ingestVars, tailVars
<1> QED BY <1>4, <1>5, <1>6, <1>7 DEF Next

(* What a feeder puts in the stream is a delivery of lines it has read,    *)
(* each after all earlier ones of its file.                                *)
THEOREM FeedersDeliver == Spec => Delivers
<1>1. Init => Delivered!Init
  BY DeliveredStart
<1>2. FeedersInv /\ [Next]_vars => [Delivered!Next]_Delivered!vars
  BY DeliveredStep
<1> QED BY <1>1, <1>2, FeedersInvariant, PTL DEF Spec, Delivers, Delivered!Spec
=============================================================================
