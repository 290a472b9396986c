----------------------------- MODULE ListLemmas -----------------------------
(***************************************************************************)
(* What the proofs about rows, batches and copies need of the operators    *)
(* they share: counting, sorting a set of ids (Sorting), joining sequences *)
(* (FlattenSeq) and totals (SumFunction).                                  *)
(***************************************************************************)
EXTENDS Sorting, Sequences, SequencesExt, FiniteSetTheorems, FunctionTheorems, SequenceTheorems,
        WellFoundedInduction, TLAPS

-----------------------------------------------------------------------------
(* Counting and sorting.                                                   *)

\* Counting up to a number.
LEMMA Reach ==
  ASSUME NEW N \in Nat, NEW S, 0 \in S, \A n \in 0 .. N - 1 : n \in S => n + 1 \in S
  PROVE  \A n \in 0 .. N : n \in S
<1> SUFFICES ASSUME NEW x \in 0 .. N, x \notin S PROVE FALSE
  OBVIOUS
<1> DEFINE F == {0 .. n : n \in {m \in 0 .. N : m \notin S}}
<1>1. F \subseteq FiniteSubsetsOf(Nat) /\ 0 .. x \in F
  <2>1. \A n \in 0 .. N : IsFiniteSet(0 .. n) /\ 0 .. n \subseteq Nat
    BY FS_Interval
  <2>2. QED BY <2>1 DEF FiniteSubsetsOf
<1> HIDE DEF F
<1>2. PICK X \in F : \A Y \in F : ~(<<Y, X>> \in StrictSubsetOrdering(Nat))
  BY <1>1, WFMin, FS_StrictSubsetOrderingWellFounded
<1>3. PICK n \in 0 .. N : n \notin S /\ X = 0 .. n
  BY <1>2 DEF F
<1>4. n - 1 \in 0 .. N - 1 /\ n - 1 \notin S /\ n - 1 + 1 = n
  BY <1>3
<1>5. 0 .. n - 1 \in F
  BY <1>4 DEF F
<1>6. n \in 0 .. n /\ n \notin 0 .. n - 1 /\ 0 .. n - 1 \subseteq 0 .. n /\ 0 .. n \subseteq Nat
  OBVIOUS
<1>7. <<0 .. n - 1, X>> \in StrictSubsetOrdering(Nat)
  BY <1>3, <1>6 DEF StrictSubsetOrdering
<1>8. QED BY <1>2, <1>5, <1>7

\* How many numbers of S lie below n.
Below(S, n) == {m \in S : m < n}

\* A number has fewer below it than there are, and a larger number has more.
LEMMA Places ==
  ASSUME NEW S \in SUBSET Int, IsFiniteSet(S)
  PROVE  /\ Cardinality(S) \in Nat
         /\ \A n \in S : Cardinality(Below(S, n)) \in 0 .. Cardinality(S) - 1
         /\ \A m, n \in S : m < n => Cardinality(Below(S, m)) < Cardinality(Below(S, n))
<1> DEFINE N == Cardinality(S)
<1>1. N \in Nat
  BY FS_CardinalityType
<1>2. \A n \in S : IsFiniteSet(Below(S, n)) /\ Cardinality(Below(S, n)) \in 0 .. N - 1
  <2> SUFFICES ASSUME NEW n \in S
               PROVE  IsFiniteSet(Below(S, n)) /\ Cardinality(Below(S, n)) \in 0 .. N - 1
    OBVIOUS
  <2>1. Below(S, n) \in SUBSET S /\ n \notin Below(S, n)
    BY DEF Below
  <2>2. /\ IsFiniteSet(Below(S, n)) /\ Cardinality(Below(S, n)) <= N
        /\ N = Cardinality(Below(S, n)) => S = Below(S, n)
    BY <2>1, FS_Subset
  <2>3. Cardinality(Below(S, n)) \in Nat
    BY <2>2, FS_CardinalityType
  <2> QED BY <1>1, <2>1, <2>2, <2>3
<1>3. ASSUME NEW m \in S, NEW n \in S, m < n
      PROVE  Cardinality(Below(S, m)) < Cardinality(Below(S, n))
  <2>1. m \in Int /\ n \in Int /\ \A x \in S : x \in Int
    OBVIOUS
  <2>2. \A x \in S : x < m => x < n
    BY <1>3, <2>1
  <2>3. Below(S, m) \in SUBSET Below(S, n)
    BY <2>2 DEF Below
  <2>4. m \in Below(S, n)
    BY <1>3 DEF Below
  <2>5. m \notin Below(S, m)
    BY <2>1 DEF Below
  <2>6. /\ Cardinality(Below(S, m)) <= Cardinality(Below(S, n))
        /\ Cardinality(Below(S, n)) = Cardinality(Below(S, m)) => Below(S, n) = Below(S, m)
    BY <1>2, <2>3, FS_Subset
  <2> QED BY <1>1, <1>2, <2>4, <2>5, <2>6
<1> QED BY <1>1, <1>2, <1>3

\* Every place below the size of the set is the place of one of its numbers.
LEMMA PlacesTaken ==
  ASSUME NEW S \in SUBSET Int, IsFiniteSet(S), NEW k \in 0 .. Cardinality(S) - 1
  PROVE  \E n \in S : Cardinality(Below(S, n)) = k
<1> DEFINE N == Cardinality(S)
           place == [n \in S |-> Cardinality(Below(S, n))]
<1>1. N \in Nat
  BY Places
<1>2. place \in [S -> 0 .. N - 1]
  BY Places
<1>3. ASSUME NEW m \in S, NEW n \in S, place[m] = place[n] PROVE m = n
  <2>1. m \in Int /\ n \in Int
    OBVIOUS
  <2>2. ~(m < n) /\ ~(n < m)
    BY <1>1, <1>3, Places
  <2> QED BY <2>1, <2>2
<1>4. place \in Injection(S, 0 .. N - 1)
  BY <1>2, <1>3 DEF Injection, IsInjective
<1>5. IsFiniteSet(0 .. N - 1) /\ Cardinality(0 .. N - 1) = N
  BY <1>1, FS_Interval
<1>6. place \in Surjection(S, 0 .. N - 1)
  BY <1>4, <1>5, FS_Injection
<1>7. \E n \in S : place[n] = k
  BY <1>6 DEF Surjection
<1> QED BY <1>7

\* Sorting a finite set keeps its numbers, and puts them in order.
LEMMA SortedSet ==
  ASSUME NEW S \in SUBSET Int, IsFiniteSet(S)
  PROVE  /\ Sorted(S) \in Seq(Int) /\ DOMAIN Sorted(S) = 1 .. Cardinality(S)
         /\ Len(Sorted(S)) = Cardinality(S)
         /\ ToSet(Sorted(S)) = S
         /\ \A i, j \in DOMAIN Sorted(S) : i <= j => Sorted(S)[i] <= Sorted(S)[j]
         /\ \A i, j \in DOMAIN Sorted(S) : Sorted(S)[i] = Sorted(S)[j] => i = j
<1> DEFINE N == Cardinality(S)
           u == Sorted(S)
<1>1. /\ N \in Nat
      /\ \A n \in S : Cardinality(Below(S, n)) \in 0 .. N - 1
      /\ \A m, n \in S : m < n => Cardinality(Below(S, m)) < Cardinality(Below(S, n))
  BY Places
<1>2. \A i \in 1 .. N : u[i] \in S /\ Cardinality(Below(S, u[i])) = i - 1
  <2> SUFFICES ASSUME NEW i \in 1 .. N
               PROVE  u[i] \in S /\ Cardinality(Below(S, u[i])) = i - 1
    OBVIOUS
  <2>1. \E n \in S : Cardinality(Below(S, n)) = i - 1
    BY <1>1, PlacesTaken
  <2>2. u[i] = CHOOSE n \in S : Cardinality(Below(S, n)) = i - 1
    BY DEF Sorted, Below
  <2> QED BY <2>1, <2>2
<1>3. DOMAIN u = 1 .. N /\ u = [i \in 1 .. N |-> u[i]]
  BY DEF Sorted
<1> HIDE DEF u
<1>4. u \in [1 .. N -> S] /\ u \in [1 .. N -> Int]
  BY <1>2, <1>3
<1> HIDE DEF N
<1>5. u \in Seq(Int)
  BY <1>1, <1>4, IsASeq
<1>6. Len(u) = N
  BY <1>1, <1>3, <1>5, LenProperties
<1>7. \A m, n \in S : Cardinality(Below(S, m)) = Cardinality(Below(S, n)) => m = n
  <2> SUFFICES ASSUME NEW m \in S, NEW n \in S,
                      Cardinality(Below(S, m)) = Cardinality(Below(S, n))
               PROVE  m = n
    OBVIOUS
  <2>1. m \in Int /\ n \in Int /\ ~(m < n) /\ ~(n < m)
    BY <1>1
  <2> QED BY <2>1
<1>8. \A n \in S : \E i \in 1 .. N : u[i] = n
  <2> SUFFICES ASSUME NEW n \in S PROVE \E i \in 1 .. N : u[i] = n
    OBVIOUS
  <2> DEFINE i == Cardinality(Below(S, n)) + 1
  <2>1. i \in 1 .. N /\ i - 1 = Cardinality(Below(S, n))
    BY <1>1
  <2> HIDE DEF i
  <2>2. u[i] = n
    BY <1>2, <1>7, <2>1
  <2> QED BY <2>1, <2>2
<1>9. ToSet(u) = S
  BY <1>3, <1>4, <1>8 DEF ToSet
<1>10. ASSUME NEW i \in 1 .. N, NEW j \in 1 .. N, i <= j PROVE u[i] <= u[j]
  <2>1. u[i] \in Int /\ u[j] \in Int
    BY <1>4
  <2>2. ASSUME u[j] < u[i] PROVE FALSE
    <3>1. Cardinality(Below(S, u[j])) < Cardinality(Below(S, u[i]))
      BY <1>1, <1>2, <2>2
    <3>2. j - 1 < i - 1
      BY <1>2, <3>1
    <3> QED BY <1>1, <1>10, <3>2
  <2> QED BY <2>1, <2>2
<1>11. ASSUME NEW i \in 1 .. N, NEW j \in 1 .. N, u[i] = u[j] PROVE i = j
  <2>1. i - 1 = j - 1
    BY <1>2, <1>11
  <2> QED BY <2>1
<1> QED BY <1>3, <1>5, <1>6, <1>9, <1>10, <1>11 DEF u, N

\* The ids of a call are finitely many.
LEMMA FiniteIds ==
  ASSUME NEW s \in Seq(Int)
  PROVE  ToSet(s) \in SUBSET Int /\ IsFiniteSet(ToSet(s))
<1>1. Len(s) \in Nat /\ DOMAIN s = 1 .. Len(s) /\ \A i \in 1 .. Len(s) : s[i] \in Int
  BY LenProperties, ElementOfSeq
<1>2. s \in Surjection(1 .. Len(s), ToSet(s))
  BY <1>1 DEF Surjection, ToSet
<1>3. IsFiniteSet(1 .. Len(s))
  BY <1>1, FS_Interval
<1> QED BY <1>1, <1>2, <1>3, FS_Surjection DEF ToSet

-----------------------------------------------------------------------------
(* Sequences, one after the other.                                         *)

LEMMA Joined ==
  ASSUME NEW M, NEW s \in Seq(M), NEW t \in Seq(M)
  PROVE  /\ s \o t \in Seq(M) /\ Len(s) \in Nat
         /\ \A k \in DOMAIN s : k \in DOMAIN (s \o t) /\ (s \o t)[k] = s[k]
         /\ \A k \in DOMAIN t : /\ Len(s) + k \in DOMAIN (s \o t)
                                /\ (s \o t)[Len(s) + k] = t[k]
         /\ \A k \in DOMAIN (s \o t) : k \in Int /\ (k \in DOMAIN s \/ k - Len(s) \in DOMAIN t)
<1>1. /\ DOMAIN s = 1 .. Len(s) /\ DOMAIN t = 1 .. Len(t) /\ Len(s) \in Nat /\ Len(t) \in Nat
      /\ DOMAIN (s \o t) = 1 .. Len(s) + Len(t) /\ s \o t \in Seq(M)
  OBVIOUS
<1>2. \A k \in 1 .. Len(s) : (s \o t)[k] = s[k]
  OBVIOUS
<1>3. \A k \in 1 .. Len(t) : (s \o t)[Len(s) + k] = t[k]
  OBVIOUS
<1>4. \A k \in 1 .. Len(s) + Len(t) : k \in Int /\ (k \in 1 .. Len(s) \/ k - Len(s) \in 1 .. Len(t))
  BY <1>1
<1>5. \A k \in 1 .. Len(s) : k \in 1 .. Len(s) + Len(t)
  BY <1>1
<1>6. \A k \in 1 .. Len(t) : Len(s) + k \in 1 .. Len(s) + Len(t)
  BY <1>1
<1>7. QED BY <1>1, <1>2, <1>3, <1>4, <1>5, <1>6

\* The first n of the sequences s, one after the other, in flat; at[t] is how
\* much precedes the t-th.
Placed(flat, s, at, n, M) ==
  /\ flat \in Seq(M) /\ at \in [1 .. n -> Nat]
  /\ \A t \in 1 .. n : /\ at[t] + Len(s[t]) <= Len(flat)
                       /\ \A k \in DOMAIN s[t] : /\ at[t] + k \in DOMAIN flat
                                                 /\ flat[at[t] + k] = s[t][k]
  /\ \A k \in DOMAIN flat : \E t \in 1 .. n : k - at[t] \in DOMAIN s[t]
  /\ \A t, u \in 1 .. n : t < u => at[t] + Len(s[t]) <= at[u]

LEMMA PlacedNext ==
  ASSUME NEW M, NEW n \in Nat, NEW s, \A t \in 1 .. n + 1 : s[t] \in Seq(M),
         NEW flat, NEW at, Placed(flat, s, at, n, M)
  PROVE  \E to : Placed(flat \o s[n + 1], s, to, n + 1, M)
<1> DEFINE v == s[n + 1]
           e == Len(flat)
           g == flat \o v
           to == [t \in 1 .. n + 1 |-> IF t <= n THEN at[t] ELSE e]
<1>1. flat \in Seq(M) /\ at \in [1 .. n -> Nat] /\ v \in Seq(M)
  BY DEF Placed
<1>2. /\ g \in Seq(M) /\ e \in Nat
      /\ \A k \in DOMAIN flat : k \in DOMAIN g /\ g[k] = flat[k]
      /\ \A k \in DOMAIN v : e + k \in DOMAIN g /\ g[e + k] = v[k]
      /\ \A k \in DOMAIN g : k \in Int /\ (k \in DOMAIN flat \/ k - e \in DOMAIN v)
  BY <1>1, Joined
<1>3. Len(g) = e + Len(v) /\ Len(v) \in Nat
  BY <1>1
<1>4. /\ to \in [1 .. n + 1 -> Nat] /\ to[n + 1] = e
      /\ \A t \in 1 .. n : to[t] = at[t] /\ at[t] \in Nat
      /\ \A t \in 1 .. n + 1 : t \in 1 .. n \/ t = n + 1
      /\ \A t \in 1 .. n : t \in 1 .. n + 1 /\ Len(s[t]) \in Nat /\ ~(n + 1 < t) /\ t < n + 1
      /\ n + 1 \in 1 .. n + 1
  BY <1>1, <1>2
<1> HIDE DEF g, to, e
<1>5. ASSUME NEW t \in 1 .. n + 1
      PROVE  /\ to[t] + Len(s[t]) <= Len(g)
             /\ \A k \in DOMAIN s[t] : to[t] + k \in DOMAIN g /\ g[to[t] + k] = s[t][k]
  <2>1. CASE t \in 1 .. n
    <3>1. /\ at[t] + Len(s[t]) <= e
          /\ \A k \in DOMAIN s[t] : at[t] + k \in DOMAIN flat /\ flat[at[t] + k] = s[t][k]
      BY <2>1 DEF Placed, e
    <3>2. QED BY <1>2, <1>3, <1>4, <2>1, <3>1
  <2>2. CASE t = n + 1
    BY <1>2, <1>3, <1>4, <2>2
  <2>3. QED BY <1>4, <2>1, <2>2
<1>6. ASSUME NEW k \in DOMAIN g PROVE \E t \in 1 .. n + 1 : k - to[t] \in DOMAIN s[t]
  <2>1. CASE k \in DOMAIN flat
    <3>1. PICK t \in 1 .. n : k - at[t] \in DOMAIN s[t]
      BY <2>1 DEF Placed
    <3>2. QED BY <1>4, <3>1
  <2>2. CASE k - e \in DOMAIN v
    BY <1>4, <2>2
  <2>3. QED BY <1>2, <2>1, <2>2
<1>7. ASSUME NEW t \in 1 .. n + 1, NEW u \in 1 .. n + 1, t < u
      PROVE  to[t] + Len(s[t]) <= to[u]
  <2>1. t \in 1 .. n
    BY <1>7
  <2>2. CASE u \in 1 .. n
    BY <1>4, <1>7, <2>1, <2>2 DEF Placed
  <2>3. CASE u = n + 1
    BY <1>4, <2>1, <2>3 DEF Placed, e
  <2>4. QED BY <1>4, <2>2, <2>3
<1>8. Placed(g, s, to, n + 1, M)
  BY <1>2, <1>4, <1>5, <1>6, <1>7 DEF Placed
<1>9. QED BY <1>8 DEF g

\* The function by which FlattenSeq is defined, on the first n.
Flattens(f, s, n) ==
  f = [i \in 1 .. n |-> IF i = 1 THEN s[i] ELSE f[i - 1] \o s[i]]

LEMMA FlattensExists ==
  ASSUME NEW s, NEW N \in Nat
  PROVE  \E f : Flattens(f, s, N)
<1> DEFINE S == {n \in 0 .. N : \E f : Flattens(f, s, n)}
<1>1. 0 \in S
  <2>1. Flattens(<<>>, s, 0)
    BY DEF Flattens
  <2>2. QED BY <2>1
<1>2. ASSUME NEW n \in 0 .. N - 1, n \in S PROVE n + 1 \in S
  <2>1. PICK f : Flattens(f, s, n)
    BY <1>2
  <2> DEFINE g == [i \in 1 .. n + 1 |-> IF i <= n THEN f[i]
                                        ELSE IF i = 1 THEN s[i] ELSE f[i - 1] \o s[i]]
  <2>2. \A i \in 1 .. n + 1 : g[i] = IF i = 1 THEN s[i] ELSE g[i - 1] \o s[i]
    <3>1. SUFFICES ASSUME NEW i \in 1 .. n + 1
                   PROVE  g[i] = IF i = 1 THEN s[i] ELSE g[i - 1] \o s[i]
      OBVIOUS
    <3>2. i # 1 => g[i - 1] = f[i - 1]
      OBVIOUS
    <3>3. CASE i <= n
      <4>1. g[i] = f[i] /\ i \in 1 .. n
        BY <3>3
      <4>2. f[i] = IF i = 1 THEN s[i] ELSE f[i - 1] \o s[i]
        BY <2>1, <4>1, Zenon DEF Flattens
      <4>3. QED BY <3>2, <4>1, <4>2
    <3>4. CASE ~(i <= n)
      BY <3>2, <3>4
    <3>5. QED BY <3>3, <3>4
  <2>3. g = [i \in 1 .. n + 1 |-> g[i]]
    OBVIOUS
  <2> HIDE DEF g
  <2>4. Flattens(g, s, n + 1)
    BY <2>2, <2>3 DEF Flattens
  <2>5. QED BY <2>4
<1> HIDE DEF S
<1>3. N \in S
  BY <1>1, <1>2, Reach
<1>4. QED BY <1>3 DEF S

\* FlattenSeq keeps each sequence whole and in its turn.
LEMMA FlattenPlaces ==
  ASSUME NEW M, NEW N \in Nat, NEW s \in [1 .. N -> Seq(M)]
  PROVE  \E at : Placed(FlattenSeq(s), s, at, N, M)
<1>1. Len(s) = N
  OBVIOUS
<1>2. CASE N = 0
  <2>1. s = <<>>
    BY <1>2
  <2>2. FlattenSeq(s) = <<>>
    BY <1>1, <1>2, <2>1 DEF FlattenSeq
  <2>3. Placed(<<>>, s, <<>>, 0, M)
    BY DEF Placed
  <2>4. QED BY <1>2, <2>2, <2>3
<1>3. CASE N # 0
  <2> DEFINE f == CHOOSE x : Flattens(x, s, N)
  <2>1. Flattens(f, s, N)
    BY FlattensExists, Zenon
  <2>2. FlattenSeq(s) = f[N]
    BY <1>1, <1>3 DEF FlattenSeq, Flattens
  <2> HIDE DEF f
  <2>3. \A i \in 1 .. N : f[i] = IF i = 1 THEN s[i] ELSE f[i - 1] \o s[i]
    BY <2>1, Zenon DEF Flattens
  <2> DEFINE S == {n \in 0 .. N : n > 0 => \E at : Placed(f[n], s, at, n, M)}
  <2>4. 0 \in S
    OBVIOUS
  <2>5. ASSUME NEW n \in 0 .. N - 1, n \in S PROVE n + 1 \in S
    <3>1. CASE n = 0
      <4>1. Placed(<<>>, s, <<>>, 0, M)
        BY DEF Placed
      <4>a. 0 \in Nat /\ \A t \in 1 .. 0 + 1 : s[t] \in Seq(M)
        BY <1>3
      <4>b. \E at : Placed(<<>> \o s[0 + 1], s, at, 0 + 1, M)
        BY <4>1, <4>a, PlacedNext
      <4>2. PICK at : Placed(<<>> \o s[0 + 1], s, at, 0 + 1, M)
        BY <4>b
      <4>3. s[1] \in Seq(M) /\ <<>> \o s[1] = s[1]
        BY <1>3
      <4>4. f[1] = s[1]
        BY <1>3, <2>3
      <4>5. QED BY <1>3, <3>1, <4>2, <4>3, <4>4
    <3>2. CASE n > 0
      <4>1. PICK at : Placed(f[n], s, at, n, M)
        BY <2>5, <3>2
      <4>2. f[n + 1] = f[n] \o s[n + 1]
        <5> DEFINE m == n + 1
        <5>1. m \in 1 .. N /\ m # 1 /\ m - 1 = n
          BY <3>2
        <5> HIDE DEF m
        <5>2. f[m] = f[n] \o s[m]
          BY <2>3, <5>1
        <5>3. QED BY <5>2 DEF m
      <4>3. n \in Nat /\ \A t \in 1 .. n + 1 : s[t] \in Seq(M)
        OBVIOUS
      <4>4. \E to : Placed(f[n] \o s[n + 1], s, to, n + 1, M)
        BY <4>1, <4>3, PlacedNext
      <4>5. \E to : Placed(f[n + 1], s, to, n + 1, M)
        BY <4>2, <4>4
      <4>6. n + 1 \in 0 .. N
        OBVIOUS
      <4>7. QED BY <4>5, <4>6, Zenon
    <3>3. QED BY <3>1, <3>2
  <2> HIDE DEF S
  <2>a. \A n \in 0 .. N - 1 : n \in S => n + 1 \in S
    BY <2>5
  <2>b. \A n \in 0 .. N : n \in S
    BY <2>4, <2>a, Reach
  <2>6. N \in S
    BY <2>b
  <2>7. QED BY <1>3, <2>2, <2>6 DEF S
<1>4. QED BY <1>2, <1>3

-----------------------------------------------------------------------------
(* Totals.                                                                 *)

\* A property of finite sets that one more element keeps.
LEMMA Growing ==
  ASSUME NEW S, IsFiniteSet(S), NEW Good, {} \in Good,
         \A T \in SUBSET S : \A x \in S \ T : T \in Good => T \cup {x} \in Good
  PROVE  \A T \in SUBSET S : T \in Good
<1> SUFFICES ASSUME NEW T \in SUBSET S, T \notin Good PROVE FALSE
  OBVIOUS
<1> DEFINE F == {U \in SUBSET S : U \notin Good}
<1>1. F \subseteq FiniteSubsetsOf(S) /\ T \in F
  <2>1. \A U \in SUBSET S : IsFiniteSet(U)
    BY FS_Subset
  <2>2. QED BY <2>1 DEF FiniteSubsetsOf
<1> HIDE DEF F
<1>2. PICK X \in F : \A Y \in F : ~(<<Y, X>> \in StrictSubsetOrdering(S))
  BY <1>1, WFMin, FS_StrictSubsetOrderingWellFounded
<1>3. X \in SUBSET S /\ X \notin Good /\ X # {}
  BY <1>2 DEF F
<1>4. PICK x \in X : TRUE
  BY <1>3
<1> DEFINE Y == X \ {x}
<1>5. Y \in SUBSET S /\ x \in S \ Y /\ Y \cup {x} = X /\ Y # X /\ Y \subseteq X
  BY <1>3, <1>4
<1> HIDE DEF Y
<1>6. Y \in F
  BY <1>3, <1>5 DEF F
<1>7. <<Y, X>> \in StrictSubsetOrdering(S)
  BY <1>3, <1>5 DEF StrictSubsetOrdering
<1>8. QED BY <1>2, <1>6, <1>7

\* The function by which SumFunctionOnSet is defined, on the subsets in D.
Sums(g, f, D) ==
  g = [s \in D |-> IF s = {} THEN 0
                   ELSE f[CHOOSE x \in s : TRUE] + g[s \ {CHOOSE x \in s : TRUE}]]

UpTo(S, n) == {s \in SUBSET S : Cardinality(s) <= n}

LEMMA SumsExists ==
  ASSUME NEW S, IsFiniteSet(S), NEW f
  PROVE  \E g : Sums(g, f, SUBSET S)
<1> DEFINE N == Cardinality(S)
           G == {n \in 0 .. N : \E g : Sums(g, f, UpTo(S, n))}
<1>1. N \in Nat /\ \A s \in SUBSET S : IsFiniteSet(s) /\ Cardinality(s) \in Nat /\ Cardinality(s) <= N
  BY FS_Subset, FS_CardinalityType
<1>2. UpTo(S, N) = SUBSET S
  BY <1>1 DEF UpTo
<1>3. \A s \in SUBSET S : \A x \in s : /\ s \ {x} \in SUBSET S
                                       /\ Cardinality(s \ {x}) = Cardinality(s) - 1
  BY <1>1, FS_RemoveElement
<1> HIDE DEF N
<1>4. 0 \in G
  <2> DEFINE g == [s \in UpTo(S, 0) |-> 0]
  <2>1. \A s \in UpTo(S, 0) : s = {}
    <3>1. SUFFICES ASSUME NEW s \in UpTo(S, 0), s # {} PROVE FALSE
      OBVIOUS
    <3>2. s \in SUBSET S /\ Cardinality(s) <= 0 /\ IsFiniteSet(s) /\ Cardinality(s) \in Nat
      BY <1>1 DEF UpTo
    <3>3. Cardinality(s) = 0
      BY <3>2
    <3>4. QED BY <3>1, <3>2, <3>3, FS_EmptySet
  <2>2. Sums(g, f, UpTo(S, 0))
    BY <2>1 DEF Sums
  <2>3. QED BY <1>1, <2>2
<1>5. ASSUME NEW n \in 0 .. N - 1, n \in G PROVE n + 1 \in G
  <2>1. PICK g : Sums(g, f, UpTo(S, n))
    BY <1>5
  <2> DEFINE c(s) == CHOOSE x \in s : TRUE
             h == [s \in UpTo(S, n + 1) |->
                     IF s \in UpTo(S, n) THEN g[s] ELSE f[c(s)] + g[s \ {c(s)}]]
  <2>2. {} \in UpTo(S, n) /\ UpTo(S, n) \subseteq UpTo(S, n + 1)
    <3>1. Cardinality({}) = 0
      BY FS_EmptySet
    <3>2. \A s \in UpTo(S, n) : s \in SUBSET S /\ Cardinality(s) <= n /\ Cardinality(s) \in Nat
      BY <1>1 DEF UpTo
    <3>3. \A s \in UpTo(S, n) : s \in SUBSET S /\ Cardinality(s) <= n + 1
      BY <3>2
    <3>4. {} \in SUBSET S /\ Cardinality({}) <= n
      BY <3>1
    <3>5. QED BY <3>3, <3>4 DEF UpTo
  <2>3. ASSUME NEW s \in UpTo(S, n + 1), s # {} PROVE s \ {c(s)} \in UpTo(S, n)
    <3>1. c(s) \in s /\ s \in SUBSET S /\ Cardinality(s) <= n + 1 /\ Cardinality(s) \in Nat
      BY <1>1, <2>3 DEF UpTo
    <3>2. s \ {c(s)} \in SUBSET S /\ Cardinality(s \ {c(s)}) = Cardinality(s) - 1
      BY <1>3, <3>1
    <3>3. QED BY <3>1, <3>2 DEF UpTo
  <2>4. \A s \in UpTo(S, n) : g[s] = IF s = {} THEN 0 ELSE f[c(s)] + g[s \ {c(s)}]
    BY <2>1, Zenon DEF Sums
  <2>5. \A s \in UpTo(S, n + 1) : s \in UpTo(S, n) => h[s] = g[s]
    OBVIOUS
  <2>6. \A s \in UpTo(S, n + 1) : h[s] = IF s = {} THEN 0 ELSE f[c(s)] + h[s \ {c(s)}]
    <3>1. SUFFICES ASSUME NEW s \in UpTo(S, n + 1)
                   PROVE  h[s] = IF s = {} THEN 0 ELSE f[c(s)] + h[s \ {c(s)}]
      OBVIOUS
    <3>2. s # {} => h[s \ {c(s)}] = g[s \ {c(s)}]
      <4> HIDE DEF h
      <4>1. QED BY <2>2, <2>3, <2>5
    <3>3. CASE s \in UpTo(S, n)
      <4> HIDE DEF h
      <4>1. h[s] = g[s]
        BY <2>5, <3>3
      <4>2. QED BY <2>4, <3>2, <3>3, <4>1
    <3>4. CASE s \notin UpTo(S, n)
      <4>1. s # {} /\ h[s] = f[c(s)] + g[s \ {c(s)}]
        BY <2>2, <3>4
      <4> HIDE DEF h
      <4>2. QED BY <3>2, <4>1
    <3>5. QED BY <3>3, <3>4
  <2>7. h = [s \in UpTo(S, n + 1) |-> h[s]]
    OBVIOUS
  <2> HIDE DEF h
  <2>8. Sums(h, f, UpTo(S, n + 1))
    BY <2>6, <2>7 DEF Sums
  <2>9. n + 1 \in 0 .. N
    BY <1>1
  <2>10. QED BY <2>8, <2>9
<1> HIDE DEF G
<1>6. \A n \in 0 .. N - 1 : n \in G => n + 1 \in G
  BY <1>5
<1>7. \A n \in 0 .. N : n \in G
  BY <1>1, <1>4, <1>6, Reach
<1>8. N \in G
  BY <1>1, <1>7
<1>9. QED BY <1>2, <1>8 DEF G

\* Whatever element is taken first, the sum is the same.
LEMMA AnyFirst ==
  ASSUME NEW S, IsFiniteSet(S), NEW f, \A x \in S : f[x] \in Int, NEW g, Sums(g, f, SUBSET S)
  PROVE  /\ g[{}] = 0
         /\ \A T \in SUBSET S : g[T] \in Int /\ \A x \in T : g[T] = f[x] + g[T \ {x}]
<1> DEFINE c(s) == CHOOSE x \in s : TRUE
           Right(T) == g[T] \in Int /\ \A x \in T : g[T] = f[x] + g[T \ {x}]
           F == {U \in SUBSET S : ~Right(U)}
<1>1. \A s \in SUBSET S : g[s] = IF s = {} THEN 0 ELSE f[c(s)] + g[s \ {c(s)}]
  BY Zenon DEF Sums
<1>2. g[{}] = 0
  BY <1>1
<1>3. ASSUME NEW X \in SUBSET S, \A Y \in SUBSET X : Y # X => Right(Y) PROVE Right(X)
  <2>1. CASE X = {}
    BY <1>2, <2>1
  <2>2. CASE X # {}
    <3> DEFINE d == c(X)
               W == X \ {d}
    <3>1. d \in X /\ W \in SUBSET X /\ W # X /\ d \in S
      BY <2>2
    <3>2. g[X] = f[d] + g[W]
      BY <1>1, <2>2
    <3>3. g[W] \in Int /\ f[d] \in Int /\ \A x \in W : g[W] = f[x] + g[W \ {x}]
      BY <1>3, <3>1
    <3> HIDE DEF d
    <3>4. ASSUME NEW x \in X PROVE g[X] = f[x] + g[X \ {x}]
      <4>1. CASE x = d
        BY <3>2, <4>1
      <4>2. CASE x # d
        <5> DEFINE V == X \ {x}
        <5>1. V \in SUBSET X /\ V # X /\ d \in V /\ x \in W /\ V \ {d} = W \ {x}
          BY <3>1, <4>2
        <5>2. W \ {x} \in SUBSET X /\ W \ {x} # X
          BY <3>1
        <5>3. g[V] \in Int /\ g[V] = f[d] + g[V \ {d}]
          BY <1>3, <5>1
        <5>4. g[W \ {x}] \in Int /\ f[x] \in Int
          BY <1>3, <5>2
        <5>5. g[W] = f[x] + g[W \ {x}]
          BY <3>3, <5>1
        <5>6. g[V] = f[d] + g[W \ {x}]
          BY <5>1, <5>3
        <5> HIDE DEF V, W
        <5>7. g[X] = f[x] + g[V]
          BY <3>2, <3>3, <5>3, <5>4, <5>5, <5>6
        <5>8. QED BY <5>7 DEF V
      <4>3. QED BY <4>1, <4>2
    <3>5. g[X] \in Int
      BY <3>2, <3>3
    <3>6. QED BY <3>4, <3>5
  <2>3. QED BY <2>1, <2>2
<1> HIDE DEF Right
<1>4. ASSUME NEW T \in SUBSET S, ~Right(T) PROVE FALSE
  <2>1. F \subseteq FiniteSubsetsOf(S) /\ T \in F
    <3>1. \A U \in SUBSET S : IsFiniteSet(U)
      BY FS_Subset
    <3>2. QED BY <1>4, <3>1 DEF FiniteSubsetsOf
  <2> HIDE DEF F
  <2>2. PICK X \in F : \A Y \in F : ~(<<Y, X>> \in StrictSubsetOrdering(S))
    BY <2>1, WFMin, FS_StrictSubsetOrderingWellFounded
  <2>3. X \in SUBSET S /\ ~Right(X)
    BY <2>2 DEF F
  <2>4. \A Y \in SUBSET X : Y # X => <<Y, X>> \in StrictSubsetOrdering(S)
    BY <2>3 DEF StrictSubsetOrdering
  <2>5. \A Y \in SUBSET X : Y # X => Right(Y)
    BY <2>2, <2>3, <2>4 DEF F
  <2>6. QED BY <1>3, <2>3, <2>5
<1>5. \A T \in SUBSET S : Right(T)
  BY <1>4
<1>6. QED BY <1>2, <1>5 DEF Right

\* A sum over a finite set: nothing of nothing, and any element and the rest.
LEMMA SumStep ==
  ASSUME NEW S, IsFiniteSet(S), NEW f, \A x \in S : f[x] \in Int
  PROVE  /\ SumFunctionOnSet(f, {}) = 0 /\ SumFunctionOnSet(f, S) \in Int
         /\ \A x \in S : SumFunctionOnSet(f, S) = f[x] + SumFunctionOnSet(f, S \ {x})
<1> DEFINE sums(T) == CHOOSE g : Sums(g, f, SUBSET T)
<1>1. \A T : SumFunctionOnSet(f, T) = sums(T)[T]
  BY DEF SumFunctionOnSet, FoldFunctionOnSet, MapThenFoldSet, Sums
<1>2. ASSUME NEW T \in SUBSET S
      PROVE  /\ Sums(sums(T), f, SUBSET T) /\ sums(T)[{}] = 0
             /\ \A U \in SUBSET T : /\ sums(T)[U] \in Int
                                    /\ \A x \in U : sums(T)[U] = f[x] + sums(T)[U \ {x}]
  <2>1. IsFiniteSet(T) /\ \A x \in T : f[x] \in Int
    BY FS_Subset
  <2>2. Sums(sums(T), f, SUBSET T)
    BY <2>1, SumsExists, Zenon
  <2> HIDE DEF sums
  <2> DEFINE h == sums(T)
  <2>3. Sums(h, f, SUBSET T)
    BY <2>2
  <2> HIDE DEF h
  <2>4. h[{}] = 0
    BY <2>1, <2>3, AnyFirst
  <2>5. \A U \in SUBSET T : h[U] \in Int
    BY <2>1, <2>3, AnyFirst
  <2>6. ASSUME NEW U \in SUBSET T, NEW x \in U PROVE h[U] = f[x] + h[U \ {x}]
    BY <2>1, <2>3, AnyFirst
  <2>7. QED BY <2>2, <2>4, <2>5, <2>6 DEF h
<1> HIDE DEF sums
<1>3. ASSUME NEW T \in SUBSET S PROVE sums(T)[T] = sums(S)[T]
  <2> DEFINE Good == {U \in SUBSET T : sums(T)[U] = sums(S)[U]}
  <2>1. {} \in Good
    BY <1>2
  <2>2. ASSUME NEW U \in SUBSET T, NEW x \in T \ U, U \in Good PROVE U \cup {x} \in Good
    <3> DEFINE V == U \cup {x}
    <3>1. V \in SUBSET T /\ V \in SUBSET S /\ x \in V /\ V \ {x} = U /\ S \in SUBSET S
      OBVIOUS
    <3> HIDE DEF V
    <3>2. sums(T)[V] = f[x] + sums(T)[V \ {x}] /\ sums(S)[V] = f[x] + sums(S)[V \ {x}]
      BY <1>2, <3>1
    <3>3. QED BY <2>2, <3>1, <3>2 DEF V
  <2> HIDE DEF Good
  <2>3. IsFiniteSet(T)
    BY FS_Subset
  <2>4. T \in Good
    BY <2>1, <2>2, <2>3, Growing
  <2>5. QED BY <2>4 DEF Good
<1>4. SumFunctionOnSet(f, {}) = 0
  BY <1>1, <1>2
<1>5. ASSUME NEW x \in S PROVE SumFunctionOnSet(f, S) = f[x] + SumFunctionOnSet(f, S \ {x})
  <2>1. S \ {x} \in SUBSET S /\ S \in SUBSET S
    OBVIOUS
  <2>2. sums(S)[S] = f[x] + sums(S)[S \ {x}] /\ sums(S \ {x})[S \ {x}] = sums(S)[S \ {x}]
    BY <1>2, <1>3, <2>1
  <2>3. QED BY <1>1, <2>2
<1>6. SumFunctionOnSet(f, S) \in Int
  <2>1. S \in SUBSET S
    OBVIOUS
  <2>2. sums(S)[S] \in Int
    BY <1>2, <2>1
  <2>3. QED BY <1>1, <2>2
<1>7. QED BY <1>4, <1>5, <1>6

\* One more of a list of numbers.
LEMMA SumNext ==
  ASSUME NEW n \in Nat, NEW f, \A i \in 1 .. n + 1 : f[i] \in Int
  PROVE  /\ SumFunctionOnSet(f, 1 .. 0) = 0
         /\ SumFunctionOnSet(f, 1 .. n) \in Int
         /\ SumFunctionOnSet(f, 1 .. n + 1) = SumFunctionOnSet(f, 1 .. n) + f[n + 1]
<1>1. IsFiniteSet(1 .. n) /\ IsFiniteSet(1 .. n + 1) /\ 1 .. 0 = {}
  BY FS_Interval
<1>2. n + 1 \in 1 .. n + 1 /\ (1 .. n + 1) \ {n + 1} = 1 .. n /\ \A i \in 1 .. n : i \in 1 .. n + 1
  OBVIOUS
<1>3. /\ SumFunctionOnSet(f, {}) = 0 /\ SumFunctionOnSet(f, 1 .. n + 1) \in Int
      /\ SumFunctionOnSet(f, 1 .. n + 1) = f[n + 1] + SumFunctionOnSet(f, (1 .. n + 1) \ {n + 1})
  BY <1>1, <1>2, SumStep
<1>4. SumFunctionOnSet(f, 1 .. n) \in Int
  BY <1>1, <1>2, SumStep
<1> DEFINE a == SumFunctionOnSet(f, 1 .. n) b == SumFunctionOnSet(f, 1 .. n + 1) k == n + 1
<1>5. f[k] \in Int /\ a \in Int /\ b = f[k] + a
  BY <1>2, <1>3, <1>4
<1>6. SumFunctionOnSet(f, 1 .. 0) = 0
  BY <1>1, <1>3
<1> HIDE DEF a, b, k
<1>7. b = a + f[k]
  BY <1>5
<1>8. QED BY <1>5, <1>6, <1>7 DEF a, b, k

-----------------------------------------------------------------------------
(* Joined sequences, element by element and in all.                        *)

\* The elements of flat are the places of the N sequences of s, each once: the
\* k-th is at place[k] of the turn[k]-th.
Listed(flat, turn, place, s, N) ==
  /\ \A k \in DOMAIN flat : /\ turn[k] \in 1 .. N /\ place[k] \in DOMAIN s[turn[k]]
                           /\ flat[k] = s[turn[k]][place[k]]
  /\ \A k, l \in DOMAIN flat : turn[k] = turn[l] /\ place[k] = place[l] => k = l
  /\ \A t \in 1 .. N : \A i \in DOMAIN s[t] : \E k \in DOMAIN flat : turn[k] = t /\ place[k] = i

\* FlattenSeq, element by element.
LEMMA FlattenFrom ==
  ASSUME NEW M, NEW N \in Nat, NEW s \in [1 .. N -> Seq(M)]
  PROVE  /\ FlattenSeq(s) \in Seq(M)
         /\ \E turn, place : Listed(FlattenSeq(s), turn, place, s, N)
<1> DEFINE flat == FlattenSeq(s)
<1>1. PICK at : Placed(flat, s, at, N, M)
  BY FlattenPlaces
<1> HIDE DEF flat
<1>2. /\ flat \in Seq(M) /\ at \in [1 .. N -> Nat]
      /\ \A t \in 1 .. N : \A i \in DOMAIN s[t] : at[t] + i \in DOMAIN flat /\ flat[at[t] + i] = s[t][i]
      /\ \A k \in DOMAIN flat : k \in Int /\ \E t \in 1 .. N : k - at[t] \in DOMAIN s[t]
      /\ \A t, u \in 1 .. N : t < u => at[t] + Len(s[t]) <= at[u]
  BY <1>1 DEF Placed
<1>3. \A t \in 1 .. N : at[t] \in Int /\ Len(s[t]) \in Nat /\ DOMAIN s[t] = 1 .. Len(s[t])
  BY <1>2
<1>4. ASSUME NEW t \in 1 .. N, NEW u \in 1 .. N, NEW k \in Int,
             k - at[t] \in DOMAIN s[t], k - at[u] \in DOMAIN s[u]
      PROVE  ~(t < u)
  <2>1. at[t] \in Int /\ at[u] \in Int /\ k - at[t] <= Len(s[t]) /\ 1 <= k - at[u]
    BY <1>3, <1>4
  <2>2. t < u => at[t] + Len(s[t]) <= at[u]
    BY <1>2
  <2>3. Len(s[t]) \in Int
    BY <1>3
  <2>4. QED BY <2>1, <2>2, <2>3
<1>5. \A t, u \in 1 .. N : \A k \in Int : k - at[t] \in DOMAIN s[t] /\ k - at[u] \in DOMAIN s[u] => t = u
  <2>1. SUFFICES ASSUME NEW t \in 1 .. N, NEW u \in 1 .. N, NEW k \in Int,
                        k - at[t] \in DOMAIN s[t], k - at[u] \in DOMAIN s[u]
                 PROVE  t = u
    OBVIOUS
  <2>2. ~(t < u) /\ ~(u < t)
    BY <1>4, <2>1
  <2>3. QED BY <2>2
<1> DEFINE turn == [k \in DOMAIN flat |-> CHOOSE t \in 1 .. N : k - at[t] \in DOMAIN s[t]]
           place == [k \in DOMAIN flat |-> k - at[turn[k]]]
<1>6. ASSUME NEW k \in DOMAIN flat
      PROVE  /\ turn[k] \in 1 .. N /\ place[k] \in DOMAIN s[turn[k]] /\ flat[k] = s[turn[k]][place[k]]
             /\ k \in Int /\ place[k] = k - at[turn[k]]
  <2> DEFINE t == turn[k] i == k - at[t]
  <2>1. t \in 1 .. N /\ i \in DOMAIN s[t] /\ k \in Int /\ place[k] = i
    BY <1>2
  <2> HIDE DEF turn, place
  <2>2. at[t] + i = k
    BY <1>3, <2>1
  <2>3. flat[at[t] + i] = s[t][i]
    BY <1>2, <2>1
  <2>4. QED BY <2>1, <2>2, <2>3
<1> HIDE DEF turn, place
<1>7. ASSUME NEW k \in DOMAIN flat, NEW l \in DOMAIN flat, turn[k] = turn[l], place[k] = place[l]
      PROVE  k = l
  <2>1. k \in Int /\ l \in Int /\ turn[k] \in 1 .. N /\ k - at[turn[k]] = l - at[turn[k]]
    BY <1>6, <1>7
  <2>2. at[turn[k]] \in Int
    BY <1>3, <2>1
  <2>3. QED BY <2>1, <2>2
<1>8. ASSUME NEW t \in 1 .. N, NEW i \in DOMAIN s[t]
      PROVE  \E k \in DOMAIN flat : turn[k] = t /\ place[k] = i
  <2> DEFINE k == at[t] + i
  <2>1. k \in DOMAIN flat /\ at[t] \in Int /\ i \in Int
    BY <1>2, <1>3
  <2>2. k - at[t] = i
    BY <2>1
  <2> HIDE DEF k
  <2>3. k \in Int /\ turn[k] \in 1 .. N /\ k - at[turn[k]] \in DOMAIN s[turn[k]] /\ place[k] = k - at[turn[k]]
    BY <1>6, <2>1
  <2>4. turn[k] = t
    BY <1>5, <2>2, <2>3
  <2>5. QED BY <2>1, <2>2, <2>3, <2>4
<1>9. Listed(flat, turn, place, s, N)
  BY <1>6, <1>7, <1>8 DEF Listed
<1>10. \E u, v : Listed(flat, u, v, s, N)
  BY <1>9, Zenon
<1>11. QED BY <1>2, <1>10 DEF flat

\* It is as long as its sequences together.
LEMMA FlattenLength ==
  ASSUME NEW M, NEW N \in Nat, NEW s \in [1 .. N -> Seq(M)]
  PROVE  Len(FlattenSeq(s)) = SumFunctionOnSet([i \in 1 .. N |-> Len(s[i])], 1 .. N)
<1> DEFINE lens == [i \in 1 .. N |-> Len(s[i])]
           sum(n) == SumFunctionOnSet(lens, 1 .. n)
<1>1. Len(s) = N /\ \A i \in 1 .. N : s[i] \in Seq(M) /\ Len(s[i]) \in Nat
  OBVIOUS
<1>2. \A i \in 1 .. N : lens[i] = Len(s[i]) /\ lens[i] \in Int
  BY <1>1
<1> HIDE DEF lens
<1>3. ASSUME NEW n \in 0 .. N - 1
      PROVE  sum(0) = 0 /\ sum(n + 1) = sum(n) + Len(s[n + 1])
  <2>1. n \in Nat /\ n + 1 \in 1 .. N /\ \A i \in 1 .. n + 1 : i \in 1 .. N
    OBVIOUS
  <2>2. \A i \in 1 .. n + 1 : lens[i] \in Int
    BY <1>2, <2>1
  <2>3. sum(0) = 0 /\ sum(n + 1) = sum(n) + lens[n + 1]
    BY <2>1, <2>2, SumNext
  <2>4. QED BY <1>2, <2>1, <2>3
<1> HIDE DEF sum
<1>4. CASE N = 0
  <2>1. FlattenSeq(s) = s /\ s = <<>>
    BY <1>1, <1>4 DEF FlattenSeq
  <2>2. SumFunctionOnSet(lens, 1 .. N) = 0
    <3>1. \A i \in 1 .. 1 : TRUE
      OBVIOUS
    <3>2. SumFunctionOnSet(lens, {}) = 0
      <4>1. IsFiniteSet({}) /\ \A x \in {} : lens[x] \in Int
        BY FS_EmptySet
      <4>2. QED BY <4>1, SumStep
    <3>3. 1 .. N = {}
      BY <1>4
    <3>4. QED BY <3>2, <3>3
  <2>3. QED BY <1>1, <1>4, <2>1, <2>2 DEF lens
<1>5. CASE N # 0
  <2> DEFINE f == CHOOSE x : Flattens(x, s, N)
  <2>1. Flattens(f, s, N)
    BY FlattensExists, Zenon
  <2>2. FlattenSeq(s) = f[N]
    BY <1>1, <1>5 DEF FlattenSeq, Flattens
  <2> HIDE DEF f
  <2>3. \A i \in 1 .. N : f[i] = IF i = 1 THEN s[i] ELSE f[i - 1] \o s[i]
    BY <2>1, Zenon DEF Flattens
  <2> DEFINE S == {n \in 0 .. N : n > 0 => f[n] \in Seq(M) /\ Len(f[n]) = sum(n)}
  <2>4. 0 \in S
    OBVIOUS
  <2>5. ASSUME NEW n \in 0 .. N - 1, n \in S PROVE n + 1 \in S
    <3> DEFINE m == n + 1
    <3>1. m \in 1 .. N /\ m - 1 = n /\ m \in 0 .. N /\ s[m] \in Seq(M)
      BY <1>1
    <3>2. sum(0) = 0 /\ sum(m) = sum(n) + Len(s[m])
      BY <1>3
    <3> HIDE DEF m
    <3>3. CASE n = 0
      <4>1. m = 1
        BY <3>1, <3>3
      <4>2. f[m] = s[m]
        BY <2>3, <3>1, <4>1
      <4>3. Len(f[m]) = sum(m)
        BY <3>1, <3>2, <3>3, <4>2
      <4>4. QED BY <3>1, <4>2, <4>3 DEF m
    <3>4. CASE n > 0
      <4>1. m # 1 /\ f[n] \in Seq(M) /\ Len(f[n]) = sum(n)
        BY <2>5, <3>1, <3>4
      <4>2. f[m] = f[n] \o s[m]
        BY <2>3, <3>1, <4>1
      <4>3. f[m] \in Seq(M) /\ Len(f[m]) = Len(f[n]) + Len(s[m])
        <5> DEFINE a == f[n] b == s[m]
        <5>1. a \in Seq(M) /\ b \in Seq(M)
          BY <3>1, <4>1
        <5> HIDE DEF a, b
        <5>2. a \o b \in Seq(M) /\ Len(a \o b) = Len(a) + Len(b)
          BY <5>1
        <5>3. QED BY <4>2, <5>2 DEF a, b
      <4>4. QED BY <3>1, <3>2, <4>1, <4>3 DEF m
    <3>5. QED BY <3>3, <3>4
  <2> HIDE DEF S
  <2>6. \A n \in 0 .. N - 1 : n \in S => n + 1 \in S
    BY <2>5
  <2>7. \A n \in 0 .. N : n \in S
    BY <2>4, <2>6, Reach
  <2>8. N \in S
    BY <2>7
  <2>9. Len(f[N]) = sum(N)
    BY <1>5, <2>8 DEF S
  <2>10. QED BY <2>2, <2>9 DEF sum, lens
<1>6. QED BY <1>4, <1>5

\* The elements of flat are those of the sequences of sequences of s, each once:
\* the k-th is at place[k] of the inner[k]-th of the turn[k]-th.
ListedDeep(flat, turn, inner, place, s) ==
  /\ \A k \in DOMAIN flat :
       /\ turn[k] \in DOMAIN s /\ inner[k] \in DOMAIN s[turn[k]]
       /\ place[k] \in DOMAIN s[turn[k]][inner[k]]
       /\ flat[k] = s[turn[k]][inner[k]][place[k]]
  /\ \A k, l \in DOMAIN flat :
       turn[k] = turn[l] /\ inner[k] = inner[l] /\ place[k] = place[l] => k = l
  /\ \A t \in DOMAIN s : \A u \in DOMAIN s[t] : \A i \in DOMAIN s[t][u] :
       \E k \in DOMAIN flat : turn[k] = t /\ inner[k] = u /\ place[k] = i

Flattened(s) == FlattenSeq([t \in DOMAIN s |-> FlattenSeq(s[t])])
Lengths(s) == SumFunction([t \in DOMAIN s |-> SumFunction([u \in DOMAIN s[t] |-> Len(s[t][u])])])

\* Sequences of sequences, joined twice.
LEMMA FlattenDeep ==
  ASSUME NEW M, NEW s \in Seq(Seq(Seq(M)))
  PROVE  /\ Flattened(s) \in Seq(M) /\ Len(Flattened(s)) = Lengths(s)
         /\ \E turn, inner, place : ListedDeep(Flattened(s), turn, inner, place, s)
<1> DEFINE N == Len(s)
           f == [t \in 1 .. N |-> FlattenSeq(s[t])]
           flat == FlattenSeq(f)
<1>1. N \in Nat /\ DOMAIN s = 1 .. N /\ \A t \in 1 .. N : s[t] \in Seq(Seq(M))
  OBVIOUS
<1>2. Flattened(s) = flat
  BY <1>1 DEF Flattened
<1> HIDE DEF N
<1>3. ASSUME NEW t \in 1 .. N
      PROVE  /\ Len(s[t]) \in Nat /\ DOMAIN s[t] = 1 .. Len(s[t]) /\ f[t] \in Seq(M)
             /\ \E u, v : Listed(f[t], u, v, s[t], Len(s[t]))
             /\ Len(f[t]) = SumFunction([u \in DOMAIN s[t] |-> Len(s[t][u])])
  <2> DEFINE x == s[t] n == Len(x)
  <2>1. x \in Seq(Seq(M))
    BY <1>1
  <2> HIDE DEF x
  <2>2. n \in Nat /\ DOMAIN x = 1 .. n /\ x \in [1 .. n -> Seq(M)]
    BY <2>1
  <2> HIDE DEF n
  <2>3. FlattenSeq(x) \in Seq(M) /\ \E u, v : Listed(FlattenSeq(x), u, v, x, n)
    BY <2>2, FlattenFrom, Zenon
  <2>4. Len(FlattenSeq(x)) = SumFunctionOnSet([u \in 1 .. n |-> Len(x[u])], 1 .. n)
    BY <2>2, FlattenLength
  <2>5. Len(FlattenSeq(x)) = SumFunction([u \in DOMAIN x |-> Len(x[u])])
    BY <2>2, <2>4 DEF SumFunction
  <2>6. f[t] = FlattenSeq(x)
    BY DEF x
  <2>7. QED BY <2>2, <2>3, <2>5, <2>6 DEF x, n
<1>4. f \in [1 .. N -> Seq(M)] /\ DOMAIN f = 1 .. N
  BY <1>3
<1>5. Len(flat) = Lengths(s)
  <2> DEFINE a == [t \in 1 .. N |-> Len(f[t])]
             b == [t \in 1 .. N |-> SumFunction([u \in DOMAIN s[t] |-> Len(s[t][u])])]
  <2>1. \A t \in 1 .. N : a[t] = b[t]
    BY <1>3
  <2>2. a = b
    BY <2>1
  <2>3. Lengths(s) = SumFunctionOnSet(b, 1 .. N)
    BY <1>1 DEF Lengths, SumFunction
  <2> HIDE DEF f, b
  <2>4. Len(flat) = SumFunctionOnSet(a, 1 .. N)
    BY <1>1, <1>4, FlattenLength
  <2>5. QED BY <2>2, <2>3, <2>4
<1> HIDE DEF f
<1>6. flat \in Seq(M) /\ \E u, v : Listed(flat, u, v, f, N)
  BY <1>1, <1>4, FlattenFrom, Zenon
<1>7. PICK turn, place : Listed(flat, turn, place, f, N)
  BY <1>6
<1> DEFINE us == [t \in 1 .. N |-> CHOOSE u : \E v : Listed(f[t], u, v, s[t], Len(s[t]))]
           vs == [t \in 1 .. N |-> CHOOSE v : Listed(f[t], us[t], v, s[t], Len(s[t]))]
<1>8. \A t \in 1 .. N : Listed(f[t], us[t], vs[t], s[t], Len(s[t]))
  <2>1. SUFFICES ASSUME NEW t \in 1 .. N PROVE Listed(f[t], us[t], vs[t], s[t], Len(s[t]))
    OBVIOUS
  <2>2. \E v : Listed(f[t], us[t], v, s[t], Len(s[t]))
    BY <1>3, Zenon
  <2> HIDE DEF us
  <2>3. QED BY <2>2, Zenon
<1> HIDE DEF flat, us, vs
<1> DEFINE inner == [k \in DOMAIN flat |-> us[turn[k]][place[k]]]
           last == [k \in DOMAIN flat |-> vs[turn[k]][place[k]]]
<1>9. ASSUME NEW k \in DOMAIN flat
      PROVE  /\ turn[k] \in 1 .. N /\ place[k] \in DOMAIN f[turn[k]]
             /\ inner[k] = us[turn[k]][place[k]] /\ last[k] = vs[turn[k]][place[k]]
             /\ inner[k] \in DOMAIN s[turn[k]] /\ last[k] \in DOMAIN s[turn[k]][inner[k]]
             /\ flat[k] = s[turn[k]][inner[k]][last[k]]
  <2> DEFINE t == turn[k] p == place[k]
  <2>1. t \in 1 .. N /\ p \in DOMAIN f[t] /\ flat[k] = f[t][p]
    BY <1>7 DEF Listed
  <2>2. inner[k] = us[t][p] /\ last[k] = vs[t][p]
    OBVIOUS
  <2> HIDE DEF t, p, inner, last
  <2>3. /\ us[t][p] \in 1 .. Len(s[t]) /\ vs[t][p] \in DOMAIN s[t][us[t][p]]
        /\ f[t][p] = s[t][us[t][p]][vs[t][p]]
    BY <1>8, <2>1 DEF Listed
  <2>4. QED BY <1>3, <2>1, <2>2, <2>3 DEF t, p
<1> HIDE DEF inner, last
<1>10. ASSUME NEW k \in DOMAIN flat, NEW l \in DOMAIN flat,
              turn[k] = turn[l], inner[k] = inner[l], last[k] = last[l]
       PROVE  k = l
  <2>1. place[k] = place[l]
    <3>1. Listed(f[turn[k]], us[turn[k]], vs[turn[k]], s[turn[k]], Len(s[turn[k]]))
      BY <1>8, <1>9
    <3>2. place[k] \in DOMAIN f[turn[k]] /\ place[l] \in DOMAIN f[turn[k]]
      BY <1>9, <1>10
    <3>3. /\ us[turn[k]][place[k]] = us[turn[k]][place[l]]
          /\ vs[turn[k]][place[k]] = vs[turn[k]][place[l]]
      BY <1>9, <1>10
    <3>4. QED BY <3>1, <3>2, <3>3 DEF Listed
  <2>2. QED BY <1>7, <1>10, <2>1 DEF Listed
<1>11. ASSUME NEW t \in DOMAIN s, NEW u \in DOMAIN s[t], NEW i \in DOMAIN s[t][u]
       PROVE  \E k \in DOMAIN flat : turn[k] = t /\ inner[k] = u /\ last[k] = i
  <2>0. t \in 1 .. N
    BY <1>1
  <2>1. u \in 1 .. Len(s[t]) /\ Listed(f[t], us[t], vs[t], s[t], Len(s[t]))
    BY <1>3, <1>8, <2>0
  <2>2. \E p \in DOMAIN f[t] : us[t][p] = u /\ vs[t][p] = i
    BY <2>1 DEF Listed
  <2>3. PICK p \in DOMAIN f[t] : us[t][p] = u /\ vs[t][p] = i
    BY <2>2
  <2>4. PICK k \in DOMAIN flat : turn[k] = t /\ place[k] = p
    BY <1>7, <2>0 DEF Listed
  <2>5. QED BY <1>9, <2>3, <2>4
<1>12. ListedDeep(flat, turn, inner, last, s)
  <2>1. \A k \in DOMAIN flat :
          /\ turn[k] \in DOMAIN s /\ inner[k] \in DOMAIN s[turn[k]]
          /\ last[k] \in DOMAIN s[turn[k]][inner[k]]
          /\ flat[k] = s[turn[k]][inner[k]][last[k]]
    BY <1>1, <1>9
  <2>2. \A t \in DOMAIN s : \A u \in DOMAIN s[t] : \A i \in DOMAIN s[t][u] :
          \E k \in DOMAIN flat : turn[k] = t /\ inner[k] = u /\ last[k] = i
    BY <1>11
  <2>3. QED BY <1>10, <2>1, <2>2 DEF ListedDeep
<1>13. \E u, v, w : ListedDeep(flat, u, v, w, s)
  BY <1>12, Zenon
<1>14. QED BY <1>2, <1>5, <1>6, <1>13

\* As many numbers, none above K, add up to no more than so many times K.
LEMMA SumAtMost ==
  ASSUME NEW n \in Nat, NEW K \in Nat, NEW f, \A i \in 1 .. n : f[i] \in 0 .. K
  PROVE  SumFunctionOnSet(f, 1 .. n) \in Int /\ SumFunctionOnSet(f, 1 .. n) <= n * K
<1> DEFINE sum(m) == SumFunctionOnSet(f, 1 .. m)
           S == {m \in 0 .. n : sum(m) \in Int /\ sum(m) <= m * K}
<1>1. sum(0) = 0
  <2>1. IsFiniteSet({}) /\ \A x \in {} : f[x] \in Int
    BY FS_EmptySet
  <2>2. SumFunctionOnSet(f, {}) = 0
    BY <2>1, SumStep
  <2>3. 1 .. 0 = {}
    OBVIOUS
  <2>4. QED BY <2>2, <2>3
<1>2. 0 \in S
  BY <1>1
<1>3. ASSUME NEW m \in 0 .. n - 1, m \in S PROVE m + 1 \in S
  <2>1. m \in Nat /\ m + 1 \in 1 .. n /\ \A i \in 1 .. m + 1 : f[i] \in Int
    OBVIOUS
  <2>2. sum(m + 1) = sum(m) + f[m + 1]
    BY <2>1, SumNext
  <2>3. sum(m) \in Int /\ sum(m) <= m * K /\ f[m + 1] \in 0 .. K
    BY <1>3, <2>1
  <2> HIDE DEF sum
  <2>4. m * K \in Int /\ (m + 1) * K = m * K + K
    BY <2>1
  <2>5. sum(m + 1) \in Int /\ sum(m + 1) <= (m + 1) * K
    BY <2>2, <2>3, <2>4
  <2>6. QED BY <2>1, <2>5
<1> HIDE DEF S, sum
<1>4. \A m \in 0 .. n - 1 : m \in S => m + 1 \in S
  BY <1>3
<1>5. \A m \in 0 .. n : m \in S
  BY <1>2, <1>4, Reach
<1>6. n \in S
  BY <1>5
<1>7. QED BY <1>6 DEF S, sum

=============================================================================
