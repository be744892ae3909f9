--------------------------- MODULE SeqFilterProofs ---------------------------
(***************************************************************************)
(* What a filter leaves of a sequence: the members of the set, in their    *)
(* order, each as often as it was there.                                   *)
(***************************************************************************)
EXTENDS SeqFilter, Integers, FiniteSetTheorems, TLAPS

Positions(seq, S) == {i \in DOMAIN seq : seq[i] \in S}

(* f lists the positions in increasing order. *)
Lists(f, n, positions) ==
    /\ f \in [1..n -> positions]
    /\ \A j, k \in 1..n : j < k => f[j] < f[k]
    /\ \A i \in positions : \E j \in 1..n : f[j] = i

(* What is kept is found at the positions of S, in their order. *)
LEMMA KeepLists ==
    ASSUME NEW T, NEW seq \in Seq(T), NEW S
    PROVE  /\ Keep(seq, S) \in Seq(T)
           /\ \E f : /\ Lists(f, Len(Keep(seq, S)), Positions(seq, S))
                    /\ \A j \in 1 .. Len(Keep(seq, S)) : Keep(seq, S)[j] = seq[f[j]]
<1> DEFINE positions == {i \in DOMAIN seq : seq[i] \in S}
           n == Cardinality(positions)
           rank(i) == Cardinality(positions \cap 1..i)
           at(j) == CHOOSE i \in positions : rank(i) = j
<1>1. positions \in SUBSET (1 .. Len(seq)) /\ IsFiniteSet(positions) /\ n \in Nat
  <2>1. positions \in SUBSET (1 .. Len(seq))
    OBVIOUS
  <2>2. IsFiniteSet(1 .. Len(seq))
    BY FS_Interval
  <2>3. IsFiniteSet(positions)
    BY <2>1, <2>2, FS_Subset
  <2> QED
    BY <2>1, <2>3, FS_CardinalityType
<1>2. \A i \in positions : seq[i] \in S /\ seq[i] \in T
  OBVIOUS
<1>3. Keep(seq, S) = [j \in 1..n |-> seq[at(j)]]
  BY DEF Keep
<1> HIDE DEF positions
<1>4. ASSUME NEW i \in positions
      PROVE  /\ rank(i) \in 1..n
             /\ \A k \in positions : k < i => rank(k) < rank(i)
  <2>1. i \in Int /\ i >= 1
    BY <1>1
  <2>2. \A k \in Int : positions \cap 1..k \in SUBSET positions
    OBVIOUS
  <2>3. \A k \in Int : IsFiniteSet(positions \cap 1..k) /\ rank(k) \in Nat /\ rank(k) <= n
    BY <1>1, <2>2, FS_Subset, FS_CardinalityType
  <2>4. i \in positions \cap 1..i
    BY <2>1
  <2>5. rank(i) # 0
    BY <2>1, <2>3, <2>4, FS_EmptySet
  <2>6. ASSUME NEW k \in positions, k < i
        PROVE  rank(k) <= rank(i) /\ rank(k) # rank(i)
    <3>1. k \in Int
      BY <1>1
    <3>2. positions \cap 1..k \in SUBSET (positions \cap 1..i)
      BY <2>1, <2>6, <3>1
    <3>3. i \notin positions \cap 1..k
      BY <2>1, <2>6, <3>1
    <3> QED
      BY <2>1, <2>3, <2>4, <3>2, <3>3, FS_Subset
  <2>7. \A k \in positions : rank(k) \in Nat /\ rank(k) <= n
    <3>1. \A k \in positions : k \in Int
      BY <1>1
    <3> HIDE DEF rank, n
    <3> QED
      BY <2>3, <3>1 DEF rank
  <2> HIDE DEF rank, n
  <2> QED
    BY <1>1, <2>5, <2>6, <2>7
<1> HIDE DEF rank
<1>5. \A i, k \in positions : rank(i) = rank(k) => i = k
  BY <1>1, <1>4
<1>6. \A j \in 1..n : \E i \in positions : rank(i) = j
  <2> DEFINE r == [i \in positions |-> rank(i)]
  <2>1. r \in Injection(positions, 1..n)
    BY <1>4, <1>5 DEF Injection, IsInjective
  <2>2. IsFiniteSet(1..n) /\ Cardinality(1..n) = n
    BY <1>1, FS_Interval
  <2>3. r \in Surjection(positions, 1..n)
    BY <2>1, <2>2, FS_Injection
  <2> QED
    BY <2>3 DEF Surjection
<1>7. \A j \in 1..n : at(j) \in positions /\ rank(at(j)) = j
  BY <1>6
<1> HIDE DEF at
<1>8. \A i \in positions : rank(i) \in 1..n /\ at(rank(i)) = i
  BY <1>4, <1>5, <1>7
<1> HIDE DEF n
<1>9. Keep(seq, S) \in Seq(T) /\ Len(Keep(seq, S)) = n
  <2>1. Keep(seq, S) \in [1..n -> T]
    BY <1>2, <1>3, <1>7
  <2>2. n \in Nat
    BY <1>1 DEF n
  <2> QED
    BY <2>1, <2>2
<1>10. PICK f : f = [j \in 1..n |-> at(j)]
  OBVIOUS
<1>11. Lists(f, n, positions)
  <2>1. f \in [1..n -> positions] /\ \A j \in 1..n : f[j] = at(j)
    BY <1>7, <1>10
  <2>2. ASSUME NEW j \in 1..n, NEW k \in 1..n, j < k
        PROVE  at(j) < at(k)
    <3>1. /\ at(j) \in positions /\ at(k) \in positions
          /\ rank(at(j)) = j /\ rank(at(k)) = k
      BY <1>7
    <3>2. at(j) \in Int /\ at(k) \in Int /\ j \in Int /\ k \in Int
      <4>1. \A i \in positions : i \in Int
        BY <1>1
      <4>2. \A i \in 1..n : i \in Int
        BY <1>1
      <4> QED
        BY <3>1, <4>1, <4>2
    <3>3. ~(at(k) < at(j)) /\ at(j) # at(k)
      BY <1>4, <2>2, <3>1, <3>2
    <3> QED
      BY <3>2, <3>3
  <2> QED
    BY <1>8, <2>1, <2>2 DEF Lists
<1>12. \A j \in 1..n : Keep(seq, S)[j] = seq[f[j]]
  BY <1>3, <1>10
<1>13. positions = Positions(seq, S)
  BY DEF positions, Positions
<1> QED
  BY <1>9, <1>11, <1>12, <1>13

LEMMA KeepFacts ==
    ASSUME NEW T, NEW seq \in Seq(T), NEW S
    PROVE  /\ Keep(seq, S) \in Seq(T)
           /\ Range(Keep(seq, S)) = Range(seq) \cap S
           /\ IsInjective(seq) => IsInjective(Keep(seq, S))
<1> DEFINE kept == Keep(seq, S)
           n == Len(kept)
<1>1. PICK f : Lists(f, n, Positions(seq, S)) /\ \A j \in 1..n : kept[j] = seq[f[j]]
  BY KeepLists
<1>2. kept \in Seq(T) /\ n \in Nat /\ DOMAIN kept = 1..n
  BY KeepLists
<1> HIDE DEF kept, n
<1>3. \A j \in 1..n : /\ f[j] \in DOMAIN seq /\ seq[f[j]] \in S
                       /\ kept[j] = seq[f[j]]
  BY <1>1 DEF Lists, Positions
<1>4. \A i \in DOMAIN seq : seq[i] \in S => \E j \in 1..n : f[j] = i
  BY <1>1 DEF Lists, Positions
<1>5. Range(kept) = Range(seq) \cap S
  <2>1. Range(kept) \subseteq Range(seq) \cap S
    BY <1>2, <1>3 DEF Range
  <2>2. ASSUME NEW x \in Range(seq), x \in S PROVE x \in Range(kept)
    <3>1. PICK i \in DOMAIN seq : seq[i] = x
      BY DEF Range
    <3>2. PICK j \in 1..n : f[j] = i
      BY <1>4, <2>2, <3>1
    <3>3. kept[j] = x /\ j \in DOMAIN kept
      BY <1>2, <1>3, <3>1, <3>2
    <3> QED
      BY <3>3 DEF Range
  <2> QED
    BY <2>1, <2>2
<1>6. ASSUME IsInjective(seq) PROVE IsInjective(kept)
  <2> SUFFICES ASSUME NEW j \in 1..n, NEW k \in 1..n, kept[j] = kept[k]
               PROVE  j = k
    BY <1>2 DEF IsInjective
  <2>1. f[j] = f[k]
    BY <1>3, <1>6 DEF IsInjective
  <2>2. DOMAIN seq \subseteq Int /\ j \in Int /\ k \in Int
    BY <1>2
  <2>3. ~(j < k) /\ ~(k < j)
    BY <1>1, <1>3, <2>1, <2>2 DEF Lists
  <2> QED
    BY <2>2, <2>3
<1> QED
  BY <1>2, <1>5, <1>6 DEF kept

-----------------------------------------------------------------------------
(* There is only one way to list the positions in increasing order, so     *)
(* whatever has been found in that order is what was kept.                 *)
LEMMA KeepIs ==
    ASSUME NEW T, NEW seq \in Seq(T), NEW S, NEW U, NEW t \in Seq(U), NEW f,
           Lists(f, Len(t), Positions(seq, S)),
           \A j \in 1 .. Len(t) : t[j] = seq[f[j]]
    PROVE  Keep(seq, S) = t
<1> DEFINE positions == Positions(seq, S)
           n == Len(t)
           rank(i) == Cardinality(positions \cap 1..i)
<1>1. positions \subseteq Nat \ {0} /\ n \in Nat /\ t = [j \in 1..n |-> t[j]]
  BY DEF Positions
<1>2. Keep(seq, S) = [j \in 1 .. Cardinality(positions) |->
                        seq[CHOOSE i \in positions : rank(i) = j]]
  BY DEF Keep, Positions
<1>3. /\ f \in [1..n -> positions]
      /\ \A j, k \in 1..n : j < k => f[j] < f[k]
      /\ \A i \in positions : \E j \in 1..n : f[j] = i
  BY DEF Lists
<1> HIDE DEF positions, n
<1>4. \A j, k \in 1..n : f[j] = f[k] => j = k
  <2> SUFFICES ASSUME NEW j \in 1..n, NEW k \in 1..n, f[j] = f[k] PROVE j = k
    OBVIOUS
  <2>1. f[j] \in Int /\ j \in Int /\ k \in Int
    BY <1>1, <1>3
  <2> QED
    BY <1>3, <2>1
<1>5. \A j, k \in 1..n : f[j] <= f[k] <=> j <= k
  <2> SUFFICES ASSUME NEW j \in 1..n, NEW k \in 1..n PROVE f[j] <= f[k] <=> j <= k
    OBVIOUS
  <2>1. f[j] \in Int /\ f[k] \in Int /\ j \in Int /\ k \in Int
    BY <1>1, <1>3
  <2> QED
    BY <1>3, <1>4, <2>1
<1>6. ASSUME NEW m \in 0..n, NEW P, P = {f[j] : j \in 1..m}
      PROVE  Cardinality(P) = m
  <2> DEFINE g == [j \in 1..m |-> f[j]]
  <2>1. IsFiniteSet(1..m) /\ Cardinality(1..m) = m
    <3>1. m \in Nat
      BY <1>1
    <3>2. /\ IsFiniteSet(1..m)
          /\ Cardinality(1..m) = IF 1 > m THEN 0 ELSE m - 1 + 1
      BY <3>1, FS_Interval
    <3> QED
      BY <3>1, <3>2
  <2>2. \A j \in 1..m : j \in 1..n
    BY <1>1
  <2>3. g \in Injection(1..m, P) /\ g \in Surjection(1..m, P)
    BY <1>4, <1>6, <2>2 DEF Injection, Surjection, IsInjective
  <2>4. ExistsBijection(1..m, P)
    BY <2>3 DEF ExistsBijection, Bijection
  <2> HIDE DEF g
  <2> QED
    BY <2>1, <2>4, FS_Bijection
<1>7. Cardinality(positions) = n
  <2>1. positions = {f[j] : j \in 1..n}
    BY <1>3
  <2> QED
    BY <1>1, <1>6, <2>1
<1>8. \A j \in 1..n : rank(f[j]) = j
  <2> SUFFICES ASSUME NEW j \in 1..n PROVE rank(f[j]) = j
    OBVIOUS
  <2>1. positions \cap 1 .. f[j] = {f[k] : k \in 1..j}
    <3>1. \A k \in 1..n : k \in 1..j <=> f[k] \in 1 .. f[j]
      <4>1. \A k \in 1..n : f[k] \in Int /\ f[k] >= 1 /\ k \in Int /\ k >= 1
        BY <1>1, <1>3
      <4> QED
        BY <1>5, <4>1
    <3>2. \A k \in 1..j : k \in 1..n
      BY <1>1
    <3>3. \A i \in positions \cap 1 .. f[j] : \E k \in 1..j : f[k] = i
      BY <1>3, <3>1
    <3>4. \A k \in 1..j : f[k] \in positions \cap 1 .. f[j]
      BY <1>3, <3>1, <3>2
    <3> QED
      BY <3>3, <3>4
  <2>2. j \in 0..n
    BY <1>1
  <2> QED
    BY <1>6, <2>1, <2>2
<1> HIDE DEF rank
<1>9. \A j \in 1..n : (CHOOSE i \in positions : rank(i) = j) = f[j]
  <2> SUFFICES ASSUME NEW j \in 1..n
               PROVE  (CHOOSE i \in positions : rank(i) = j) = f[j]
    OBVIOUS
  <2>1. \A i \in positions : rank(i) = j => i = f[j]
    BY <1>3, <1>8
  <2>2. f[j] \in positions /\ rank(f[j]) = j
    BY <1>3, <1>8
  <2> QED
    BY <2>1, <2>2
<1>10. Keep(seq, S) = [j \in 1..n |-> seq[f[j]]]
  BY <1>2, <1>7, <1>9
<1>11. \A j \in 1..n : t[j] = seq[f[j]]
  BY DEF n
<1> QED
  BY <1>1, <1>10, <1>11

(* Filtering twice. *)
LEMMA KeepKeep ==
    ASSUME NEW T, NEW seq \in Seq(T), NEW S, NEW R
    PROVE  Keep(Keep(seq, S), R) = Keep(seq, S \cap R)
<1> DEFINE once == Keep(seq, S)
           twice == Keep(once, R)
           n == Len(once)
           m == Len(twice)
<1>1. once \in Seq(T) /\ twice \in Seq(T) /\ n \in Nat /\ m \in Nat /\ DOMAIN once = 1..n
  BY KeepLists
<1>2. PICK f : Lists(f, n, Positions(seq, S)) /\ \A j \in 1..n : once[j] = seq[f[j]]
  BY KeepLists
<1> HIDE DEF once
<1>3. PICK g : Lists(g, m, Positions(once, R)) /\ \A j \in 1..m : twice[j] = once[g[j]]
  BY <1>1, KeepLists
<1> HIDE DEF twice, n, m
<1> DEFINE h == [j \in 1..m |-> f[g[j]]]
<1>4. \A j \in 1..n : f[j] \in DOMAIN seq /\ seq[f[j]] \in S
  BY <1>2 DEF Lists, Positions
<1>5. \A j \in 1..m : g[j] \in 1..n /\ once[g[j]] \in R
  BY <1>1, <1>3 DEF Lists, Positions
<1>6. h \in [1..m -> Positions(seq, S \cap R)]
  BY <1>2, <1>4, <1>5 DEF Positions
<1>7. \A j, k \in 1..m : j < k => h[j] < h[k]
  BY <1>2, <1>3, <1>5 DEF Lists
<1>8. ASSUME NEW i \in Positions(seq, S \cap R) PROVE \E j \in 1..m : h[j] = i
  <2>1. PICK k \in 1..n : f[k] = i
    BY <1>2 DEF Lists, Positions
  <2>2. k \in Positions(once, R)
    BY <1>1, <1>2, <2>1 DEF Positions
  <2> QED
    BY <1>3, <2>1, <2>2 DEF Lists
<1>9. Lists(h, m, Positions(seq, S \cap R))
  BY <1>6, <1>7, <1>8, Zenon DEF Lists
<1>10. \A j \in 1..m : twice[j] = seq[h[j]]
  BY <1>2, <1>3, <1>5
<1> HIDE DEF h
<1>11. Keep(seq, S \cap R) = twice
  <2>1. Lists(h, Len(twice), Positions(seq, S \cap R))
    BY <1>9 DEF m
  <2>2. \A j \in 1 .. Len(twice) : twice[j] = seq[h[j]]
    BY <1>10 DEF m
  <2> QED
    BY <1>1, <2>1, <2>2, KeepIs
<1> QED
  BY <1>11 DEF twice, once

=============================================================================
