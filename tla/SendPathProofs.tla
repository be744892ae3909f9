---------------------------- MODULE SendPathProofs ----------------------------
(***************************************************************************)
(* Theorems about the timing, the order and the contents of what SendPath  *)
(* sends, for any messages, latencies, limits and bursts.                  *)
(***************************************************************************)
EXTENDS SendPath, CodecProofs, SequenceTheorems

(* A unit of time passes: an age grows by what the wait of another shrinks. *)
LEMMA UnitPasses ==
    ASSUME NEW age \in Nat, NEW before \in Nat, NEW limit \in Nat,
           age + before <= limit
    PROVE  (age + 1) + (before - 1) <= limit /\ before - 1 <= limit
  OBVIOUS

-----------------------------------------------------------------------------
(* How often something is in a sequence.                                   *)

Count(s, x) == Cardinality({j \in 1 .. Len(s) : s[j] = x})

LEMMA CountConcat ==
    ASSUME NEW T, NEW s \in Seq(T), NEW t \in Seq(T), NEW x
    PROVE  /\ Count(s, x) \in Nat /\ Count(t, x) \in Nat
           /\ Count(s \o t, x) = Count(s, x) + Count(t, x)
<1> DEFINE m == Len(s)
           n == Len(t)
           A == {j \in 1..m : s[j] = x}
           B == {j \in 1..n : t[j] = x}
           C == {j \in m + 1 .. m + n : t[j - m] = x}
           f == [j \in B |-> j + m]
<1>1. m \in Nat /\ n \in Nat
  OBVIOUS
<1>2. /\ Len(s \o t) = m + n
      /\ \A j \in 1 .. m + n : (s \o t)[j] = IF j <= m THEN s[j] ELSE t[j - m]
  BY ConcatProperties
<1> HIDE DEF m, n
<1>3. {j \in 1 .. Len(s \o t) : (s \o t)[j] = x} = A \cup C
  <2>1. \A j \in 1..m : j \in 1 .. m + n /\ (s \o t)[j] = s[j]
    BY <1>1, <1>2
  <2>2. \A j \in m + 1 .. m + n : j \in 1 .. m + n /\ (s \o t)[j] = t[j - m]
    BY <1>1, <1>2
  <2>3. \A j \in 1 .. m + n : j \in 1..m \/ j \in m + 1 .. m + n
    BY <1>1
  <2>4. Len(s \o t) = m + n
    BY <1>2
  <2> QED
    BY <2>1, <2>2, <2>3, <2>4
<1>4. IsFiniteSet(A) /\ IsFiniteSet(B) /\ IsFiniteSet(C)
  <2>1. IsFiniteSet(1..m) /\ IsFiniteSet(1..n) /\ IsFiniteSet(m + 1 .. m + n)
    BY <1>1, FS_Interval
  <2>2. A \in SUBSET (1..m) /\ B \in SUBSET (1..n) /\ C \in SUBSET (m + 1 .. m + n)
    OBVIOUS
  <2> QED
    BY <2>1, <2>2, FS_Subset
<1>5. f \in Bijection(B, C)
  <2>1. \A j \in B : j + m \in C
    BY <1>1
  <2>2. \A j \in C : j - m \in B /\ (j - m) + m = j
    BY <1>1
  <2>3. \A i, j \in B : i + m = j + m => i = j
    BY <1>1
  <2> QED
    BY <2>1, <2>2, <2>3 DEF Bijection, Injection, Surjection, IsInjective
<1>6. Cardinality(C) = Cardinality(B)
  BY <1>4, <1>5, FS_Bijection DEF ExistsBijection
<1>7. A \cap C = {}
  BY <1>1
<1>8. Cardinality(A \cup C) = Cardinality(A) + Cardinality(C)
  <2>1. Cardinality(A \cup C) = Cardinality(A) + Cardinality(C) - Cardinality(A \cap C)
    BY <1>4, FS_Union
  <2>2. Cardinality(A \cap C) = 0 /\ Cardinality(A) \in Nat /\ Cardinality(C) \in Nat
    BY <1>4, <1>7, FS_EmptySet, FS_CardinalityType
  <2> QED
    BY <2>1, <2>2
<1>9. Cardinality(A) \in Nat /\ Cardinality(B) \in Nat
  BY <1>4, FS_CardinalityType
<1> QED
  BY <1>3, <1>6, <1>8, <1>9 DEF Count, m, n

LEMMA CountAbsent ==
    ASSUME NEW T, NEW s \in Seq(T), NEW x, x \notin Range(s)
    PROVE  Count(s, x) = 0
<1>1. {j \in 1 .. Len(s) : s[j] = x} = {}
  BY DEF Range
<1> QED
  BY <1>1, FS_EmptySet DEF Count

LEMMA CountBound ==
    ASSUME NEW T, NEW s \in Seq(T), NEW x
    PROVE  Count(s, x) \in 0 .. Len(s)
<1> DEFINE len == Len(s)
<1>1. len \in Nat
  OBVIOUS
<1> HIDE DEF len
<1>2. IsFiniteSet(1..len) /\ Cardinality(1..len) = IF 1 > len THEN 0 ELSE len - 1 + 1
  BY <1>1, FS_Interval
<1>3. {j \in 1..len : s[j] = x} \in SUBSET (1..len)
  OBVIOUS
<1>4. Count(s, x) \in Nat /\ Count(s, x) <= len
  BY <1>1, <1>2, <1>3, FS_Subset, FS_CardinalityType DEF Count, len
<1> QED
  BY <1>1, <1>4 DEF len

-----------------------------------------------------------------------------
(* The order of numbers in a sequence.                                     *)

(* Between two that changed places there is none of X. *)
Neighbourly(s, X) ==
    \A i, j \in 1 .. Len(s) : i < j => \A k \in X : ~(s[j] < k /\ k < s[i])

(* What is sent later does not spoil the order: t is not smaller than s,   *)
(* and neither is anything that is new in X.                               *)
LEMMA NeighbourlyConcat ==
    ASSUME NEW s \in Seq(Nat), NEW t \in Seq(Nat),
           NEW X \in SUBSET Nat, NEW old \in SUBSET Nat,
           Neighbourly(s, old), Neighbourly(t, X),
           \A x \in Range(s), y \in Range(t) : x <= y,
           \A x \in Range(s), k \in X \ old : x <= k
    PROVE  Neighbourly(s \o t, X)
<1> DEFINE m == Len(s)
           n == Len(t)
           c == s \o t
<1>1. /\ m \in Nat /\ n \in Nat /\ c \in Seq(Nat) /\ Len(c) = m + n
      /\ \A j \in 1 .. m + n : c[j] = IF j <= m THEN s[j] ELSE t[j - m]
  BY ConcatProperties
<1>2. /\ \A j \in 1..m : s[j] \in Nat /\ s[j] \in Range(s)
      /\ \A j \in 1..n : t[j] \in Nat /\ t[j] \in Range(t)
  BY DEF Range
<1>3. /\ \A i, j \in 1..m : i < j => \A k \in old : ~(s[j] < k /\ k < s[i])
      /\ \A i, j \in 1..n : i < j => \A k \in X : ~(t[j] < k /\ k < t[i])
  BY DEF Neighbourly
<1> HIDE DEF m, n, c
<1> SUFFICES ASSUME NEW i \in 1 .. m + n, NEW j \in 1 .. m + n, i < j, NEW k \in X,
                    c[j] < k, k < c[i]
             PROVE  FALSE
  BY <1>1 DEF Neighbourly, c
<1>4. k \in Nat
  OBVIOUS
<1>5. CASE j <= m
  <2>1. i \in 1..m /\ j \in 1..m /\ c[i] = s[i] /\ c[j] = s[j]
    BY <1>1, <1>5
  <2> QED
    BY <1>2, <1>3, <1>4, <2>1
<1>6. CASE i <= m /\ ~(j <= m)
  <2>1. i \in 1..m /\ j - m \in 1..n /\ c[i] = s[i] /\ c[j] = t[j - m]
    BY <1>1, <1>6
  <2> QED
    BY <1>2, <1>4, <2>1
<1>7. CASE ~(i <= m)
  <2>1. /\ i - m \in 1..n /\ j - m \in 1..n /\ i - m < j - m
        /\ c[i] = t[i - m] /\ c[j] = t[j - m]
    BY <1>1, <1>7
  <2> QED
    BY <1>3, <2>1
<1> QED
  BY <1>1, <1>5, <1>6, <1>7

(* Nothing in X is between the two numbers that t is made of.              *)
LEMMA NeighbourlyTwo ==
    ASSUME NEW t \in Seq(Nat), NEW X \in SUBSET Nat, NEW a \in Nat, NEW b \in Nat, a <= b,
           \A x \in Range(t) : x \in {a, b},
           \A k \in X : k <= a \/ k >= b
    PROVE  Neighbourly(t, X)
<1>1. \A i \in 1 .. Len(t) : t[i] = a \/ t[i] = b
  <2>1. \A i \in 1 .. Len(t) : t[i] \in Range(t)
    BY SeqFacts
  <2> QED
    BY <2>1
<1> SUFFICES ASSUME NEW i \in 1 .. Len(t), NEW j \in 1 .. Len(t), NEW k \in X,
                    t[j] < k, k < t[i]
             PROVE  FALSE
  BY DEF Neighbourly
<1>2. k \in Nat /\ (k <= a \/ k >= b)
  OBVIOUS
<1>3. (t[i] = a \/ t[i] = b) /\ (t[j] = a \/ t[j] = b)
  BY <1>1
<1> QED
  BY <1>2, <1>3

(* To s, of which nothing is repeated more than twice, comes what is made  *)
(* of two larger numbers.                                                  *)
LEMMA Joining ==
    ASSUME NEW s \in Seq(Nat), NEW t \in Seq(Nat), NEW a \in Nat, NEW b \in Nat, a <= b,
           Range(t) \subseteq {a, b}, \A x \in Range(s) : x < a,
           \A k \in Nat : Count(s, k) <= 2 /\ Count(t, k) <= 2
    PROVE  /\ s \o t \in Seq(Nat)
           /\ \A k \in Nat : Count(s \o t, k) <= 2
           /\ \A X \in SUBSET Nat :
                 X \subseteq Range(s) \cup {a} /\ Range(s) \subseteq X /\ Neighbourly(s, X)
                     => Neighbourly(s \o t, Range(s \o t))
<1>1. s \o t \in Seq(Nat) /\ Range(s \o t) = Range(s) \cup Range(t)
  BY ConcatProperties, RangeConcatenation
<1>2. Range(s) \in SUBSET Nat /\ Range(t) \in SUBSET Nat
  BY RangeOfSeq
<1>3. ASSUME NEW k \in Nat PROVE Count(s \o t, k) <= 2
  <2>1. Count(s, k) \in Nat /\ Count(t, k) \in Nat /\ Count(s \o t, k) = Count(s, k) + Count(t, k)
    BY CountConcat
  <2>2. CASE k \in Range(t)
    <3>1. k \notin Range(s)
      BY <1>2, <2>2
    <3>2. Count(s, k) = 0
      BY <3>1, CountAbsent
    <3> QED
      BY <2>1, <3>2
  <2>3. CASE k \notin Range(t)
    <3>1. Count(t, k) = 0
      BY <2>3, CountAbsent
    <3> QED
      BY <2>1, <3>1
  <2> QED
    BY <2>2, <2>3
<1>4. ASSUME NEW X \in SUBSET Nat, X \subseteq Range(s) \cup {a}, Range(s) \subseteq X,
             Neighbourly(s, X)
      PROVE  Neighbourly(s \o t, Range(s \o t))
  <2> DEFINE Y == Range(s) \cup Range(t)
  <2>1. Y \in SUBSET Nat
    BY <1>2
  <2>2. \A k \in Y : k <= a \/ k >= b
    BY <1>2
  <2>3. \A x \in Range(t) : x \in {a, b}
    OBVIOUS
  <2>4. Neighbourly(t, Y)
    BY <2>1, <2>2, <2>3, NeighbourlyTwo
  <2>5. \A x \in Range(s) : x \in Nat /\ x < a
    BY <1>2
  <2>6. \A x \in Range(s), y \in Range(t) : x <= y
    BY <2>3, <2>5
  <2>7. \A x \in Range(s), k \in Y \ X : x <= k
    BY <1>4, <2>6
  <2> HIDE DEF Y
  <2>8. Neighbourly(s \o t, Y)
    BY <1>4, <2>1, <2>4, <2>6, <2>7, NeighbourlyConcat
  <2> QED
    BY <1>1, <2>8 DEF Y
<1> QED
  BY <1>1, <1>3, <1>4

-----------------------------------------------------------------------------
(* The timing.                                                             *)

USE SendPathAssumption

LEMMA LargerFacts ==
    ASSUME NEW limit \in Nat, NEW age \in Nat, age <= limit \/ age <= HoldMax
    PROVE  age <= Larger(HoldMax, limit)
  BY DEF Larger

(* The queue is in the order of its deadlines, none of them further off    *)
(* than the latency.                                                       *)
InOrder ==
    /\ delayed \in Seq([n : Nat, wait : Nat])
    /\ \A i \in 1 .. Len(delayed) :
          /\ delayed[i].wait <= delay
          /\ \A j \in 1..i : delayed[j].wait <= delayed[i].wait

(* While a datagram is held nothing joins the queue, so every deadline in  *)
(* it was set before the datagram was held.                                *)
HeldLast ==
    \A h \in held :
        /\ h \in [n : Nat, age : Nat]
        /\ \A i \in 1 .. Len(delayed) : h.age + delayed[i].wait <= delay

Inv ==
    /\ delay \in Nat
    /\ \E T : sent \in Seq(T)
    /\ InOrder
    /\ HeldLast
    /\ LeavesInTime

LEMMA InitInv == Init => Inv
  BY DEF Init, Inv, InOrder, HeldLast, LeavesInTime

-----------------------------------------------------------------------------
(* Facts about the operators.                                              *)

LEMMA Elements ==
    ASSUME NEW T, NEW q \in Seq(T)
    PROVE  Len(q) \in Nat /\ \A i \in 1 .. Len(q) : q[i] \in T
  OBVIOUS

LEMMA CopiesAreSeqs ==
    ASSUME NEW n \in Nat, NEW c \in Copies(n)
    PROVE  c \in Seq(Nat)
<1>1. PICK k \in Survivors : c = [i \in 1..k |-> n]
  BY DEF Copies
<1>2. k \in Nat
  BY DEF Survivors
<1> QED
  BY <1>1, <1>2

(* What joins the queue goes to its end, with the longest wait. *)
LEMMA PipelineInOrder ==
    ASSUME delay \in Nat, delay' = delay, InOrder, NEW ns \in Seq(Nat), Pipeline(ns)
    PROVE  InOrder'
<1>1. CASE delayed' = delayed
  BY <1>1 DEF InOrder
<1>2. CASE delayed' = delayed \o Wait(ns)
  <2> DEFINE tail == Wait(ns)
             old == Len(delayed)
             new == Len(ns)
  <2>1. /\ tail \in Seq([n : Nat, wait : Nat]) /\ Len(tail) = new /\ new \in Nat
        /\ \A i \in 1..new : tail[i].wait = delay
    BY DEF Wait
  <2>2. old \in Nat /\ delayed \in Seq([n : Nat, wait : Nat])
    BY DEF InOrder
  <2> HIDE DEF tail
  <2>8. /\ delayed \o tail \in Seq([n : Nat, wait : Nat])
        /\ Len(delayed \o tail) = Len(delayed) + Len(tail)
        /\ \A i \in 1 .. Len(delayed) + Len(tail) :
              (delayed \o tail)[i] =
                  IF i <= Len(delayed) THEN delayed[i] ELSE tail[i - Len(delayed)]
    <3> DEFINE Waiter == [n : Nat, wait : Nat]
    <3>1. delayed \in Seq(Waiter) /\ tail \in Seq(Waiter)
      BY <2>1, <2>2
    <3> HIDE DEF Waiter
    <3>2. /\ delayed \o tail \in Seq(Waiter)
          /\ Len(delayed \o tail) = Len(delayed) + Len(tail)
          /\ \A i \in 1 .. Len(delayed) + Len(tail) :
                (delayed \o tail)[i] =
                    IF i <= Len(delayed) THEN delayed[i] ELSE tail[i - Len(delayed)]
      BY <3>1, ConcatProperties
    <3> QED
      BY <3>2 DEF Waiter
  <2>9. delayed' = delayed \o tail
    BY <1>2 DEF tail
  <2> HIDE DEF new, old
  <2>3. /\ delayed' \in Seq([n : Nat, wait : Nat]) /\ Len(delayed') = old + new
        /\ \A i \in 1 .. old + new :
              delayed'[i] = IF i <= old THEN delayed[i] ELSE tail[i - old]
    BY <2>1, <2>8, <2>9 DEF old
  <2>4. \A i \in 1..old : delayed'[i] = delayed[i]
    <3>1. old \in Nat /\ new \in Nat
      BY <2>1, <2>2
    <3>2. \A i \in 1..old : i \in 1 .. old + new /\ i <= old
      BY <3>1
    <3> QED
      BY <2>3, <3>2
  <2>5. \A i \in 1 .. old + new : i \notin 1..old => delayed'[i].wait = delay
    <3> SUFFICES ASSUME NEW i \in 1 .. old + new, i \notin 1..old
                 PROVE  delayed'[i].wait = delay
      OBVIOUS
    <3>1. i - old \in 1..new /\ ~(i <= old)
      BY <2>1, <2>2
    <3> QED
      BY <2>1, <2>3, <3>1
  <2>6. \A i \in 1..old : /\ delayed[i].wait <= delay
                          /\ \A j \in 1..i : delayed[j].wait <= delayed[i].wait
    BY DEF InOrder, old
  <2>7. ASSUME NEW i \in 1 .. old + new
        PROVE  /\ delayed'[i].wait <= delay
               /\ \A j \in 1..i : delayed'[j].wait <= delayed'[i].wait
    <3>1. \A j \in 1 .. old + new : delayed'[j].wait <= delay
      BY <2>4, <2>5, <2>6
    <3>2. CASE i \in 1..old
      <4>1. \A j \in 1..i : j \in 1..old
        BY <2>2, <3>2
      <4> QED
        BY <2>4, <2>6, <3>1, <3>2, <4>1
    <3>3. CASE i \notin 1..old
      <4>1. \A j \in 1..i : j \in 1 .. old + new
        BY <2>1, <2>2
      <4> QED
        BY <2>5, <3>1, <3>3, <4>1
    <3> QED
      BY <3>2, <3>3
  <2> QED
    BY <2>3, <2>7 DEF InOrder
<1> QED
  BY <1>1, <1>2 DEF Pipeline

-----------------------------------------------------------------------------
(* Every step keeps the invariant.                                         *)

(* Without a held datagram the rest of the invariant is InOrder. *)
LEMMA NothingHeld == ASSUME held' = {} PROVE HeldLast' /\ LeavesInTime'
  BY DEF HeldLast, LeavesInTime

LEMMA SendStep == ASSUME Inv, NEW m, Send(m) PROVE Inv'
<1> DEFINE n == Len(sent')
<1>1. (\E T : sent' \in Seq(T)) /\ n \in Nat /\ delay' = delay /\ delay \in Nat
  <2>1. PICK T : sent \in Seq(T)
    BY DEF Inv
  <2>2. sent \in Seq(T \cup {m}) /\ sent' = Append(sent, m)
    BY <2>1 DEF Send
  <2>3. sent' \in Seq(T \cup {m})
    BY <2>2
  <2> QED
    BY <2>3 DEF Send, Inv
<1> HIDE DEF n
<1>2. SendInBurst \/ SendSwapped(n) \/ Hold(n) \/ SendPlain(n)
  BY DEF Send, n
<1>3. CASE SendInBurst
  BY <1>1, <1>3 DEF SendInBurst, Inv, InOrder, HeldLast, LeavesInTime
<1>4. CASE SendSwapped(n)
  <2>1. PICK h \in held : \E new \in Copies(n), old \in Copies(h.n) : Pipeline(new \o old)
    BY <1>4 DEF SendSwapped
  <2>2. PICK new \in Copies(n), old \in Copies(h.n) : Pipeline(new \o old)
    BY <2>1
  <2>3. new \o old \in Seq(Nat)
    <3>1. new \in Seq(Nat) /\ old \in Seq(Nat)
      BY <1>1, CopiesAreSeqs DEF Inv, HeldLast
    <3> QED
      BY <3>1, ConcatProperties
  <2>4. InOrder'
    BY <1>1, <2>2, <2>3, PipelineInOrder DEF Inv
  <2> QED
    BY <1>1, <1>4, <2>4, NothingHeld DEF SendSwapped, Inv
<1>5. CASE Hold(n)
  <2>1. held' = {[n |-> n, age |-> 0]} /\ delayed' = delayed
    BY <1>5 DEF Hold
  <2>2. InOrder'
    BY <1>1, <2>1 DEF InOrder, Inv
  <2>3. \A i \in 1 .. Len(delayed) : delayed[i].wait \in Nat /\ delayed[i].wait <= delay
    <3>1. \A i \in 1 .. Len(delayed) : delayed[i] \in [n : Nat, wait : Nat]
      BY Elements DEF Inv, InOrder
    <3> QED
      BY <3>1 DEF Inv, InOrder
  <2>4. HeldLast'
    BY <1>1, <2>1, <2>3 DEF HeldLast
  <2>5. LeavesInTime'
    BY <1>1, <2>1 DEF LeavesInTime, Larger
  <2> QED
    BY <1>1, <2>2, <2>4, <2>5 DEF Inv
<1>6. CASE SendPlain(n)
  <2>1. PICK copies \in Copies(n) : Pipeline(copies)
    BY <1>6 DEF SendPlain
  <2>2. InOrder'
    BY <1>1, <2>1, CopiesAreSeqs, PipelineInOrder DEF Inv
  <2>3. held' = {}
    BY <1>6 DEF SendPlain
  <2> QED
    BY <1>1, <2>2, <2>3, NothingHeld DEF Inv
<1> QED
  BY <1>2, <1>3, <1>4, <1>5, <1>6

(* What is left of a queue after its first d elements. *)
LEMMA DropFirst ==
    ASSUME NEW T, NEW q \in Seq(T), NEW d \in 0 .. Len(q)
    PROVE  /\ SubSeq(q, d + 1, Len(q)) \in Seq(T)
           /\ Len(SubSeq(q, d + 1, Len(q))) = Len(q) - d
           /\ \A i \in 1 .. Len(q) - d : SubSeq(q, d + 1, Len(q))[i] = q[i + d]
  OBVIOUS

LEMMA DueIsShort == ASSUME InOrder PROVE Cardinality(Due) \in 0 .. Len(delayed)
<1> DEFINE len == Len(delayed)
<1>1. Due \in SUBSET (1..len) /\ len \in Nat
  BY DEF Due, InOrder
<1> HIDE DEF len
<1>2. IsFiniteSet(1..len) /\ Cardinality(1..len) = IF 1 > len THEN 0 ELSE len - 1 + 1
  BY <1>1, FS_Interval
<1>3. Cardinality(1..len) = len
  BY <1>1, <1>2
<1>4. IsFiniteSet(Due) /\ Cardinality(Due) <= len
  BY <1>1, <1>2, <1>3, FS_Subset
<1>5. Cardinality(Due) \in 0..len
  BY <1>1, <1>4, FS_CardinalityType
<1> QED
  BY <1>5 DEF len

LEMMA DrainStep == ASSUME Inv, Drain PROVE Inv'
<1> DEFINE d == Cardinality(Due)
           left == Len(delayed) - d
<1>1. /\ delayed' = SubSeq(delayed, d + 1, Len(delayed)) /\ held' \subseteq held
      /\ UNCHANGED <<delay, sent>>
  BY DEF Drain
<1>2. delayed \in Seq([n : Nat, wait : Nat]) /\ Len(delayed) \in Nat /\ d \in 0 .. Len(delayed)
  BY DueIsShort DEF Inv, InOrder
<1> HIDE DEF d
<1>3. /\ delayed' \in Seq([n : Nat, wait : Nat]) /\ Len(delayed') = left
      /\ \A i \in 1..left : delayed'[i] = delayed[i + d]
  BY <1>1, <1>2, DropFirst
<1>4. left \in Int /\ d \in Int /\ \A i \in 1..left : i + d \in 1 .. Len(delayed)
  BY <1>2
<1> HIDE DEF left
<1>5. ASSUME NEW i \in 1..left
      PROVE  /\ delayed'[i].wait <= delay
             /\ \A j \in 1..i : delayed'[j].wait <= delayed'[i].wait
  <2>1. \A j \in 1..i : j \in 1..left /\ j + d \in 1 .. i + d
    BY <1>2, <1>4
  <2>2. \A j \in 1 .. i + d : delayed[j].wait <= delayed[i + d].wait
    BY <1>4 DEF Inv, InOrder
  <2>3. delayed[i + d].wait <= delay
    BY <1>4 DEF Inv, InOrder
  <2> QED
    BY <1>3, <2>1, <2>2, <2>3
<1>6. InOrder'
  BY <1>1, <1>3, <1>5 DEF InOrder
<1>7. HeldLast'
  BY <1>1, <1>3, <1>4 DEF HeldLast, Inv
<1>8. LeavesInTime'
  BY <1>1 DEF LeavesInTime, Inv
<1> QED
  BY <1>1, <1>6, <1>7, <1>8 DEF Inv

LEMMA TickStep == ASSUME Inv, Tick PROVE Inv'
<1>1. /\ delayed' = [i \in 1 .. Len(delayed) |-> [delayed[i] EXCEPT !.wait = @ - 1]]
      /\ held' = {[h EXCEPT !.age = @ + 1] : h \in held}
      /\ UNCHANGED <<delay, sent>>
  BY DEF Tick
<1>2. delayed \in Seq([n : Nat, wait : Nat]) /\ Len(delayed) \in Nat /\ delay \in Nat
  BY DEF Inv, InOrder
<1>3. \A i \in 1 .. Len(delayed) : delayed[i] \in [n : Nat, wait : Nat]
  BY <1>2, Elements
<1>4. \A i \in 1 .. Len(delayed) : delayed[i].wait > 0
  <2> SUFFICES ASSUME NEW i \in 1 .. Len(delayed) PROVE delayed[i].wait > 0
    OBVIOUS
  <2>1. delayed # <<>> /\ 1 \in 1..i /\ 1 \in 1 .. Len(delayed)
    BY <1>2
  <2>2. Head(delayed) = delayed[1]
    BY <1>2, <2>1
  <2>3. delayed[1].wait # 0
    BY <2>1, <2>2 DEF Tick, Overdue
  <2>4. delayed[1].wait <= delayed[i].wait
    BY <2>1 DEF Inv, InOrder
  <2> QED
    BY <1>3, <2>1, <2>3, <2>4
<1>5. \A i \in 1 .. Len(delayed) :
          /\ delayed'[i] \in [n : Nat, wait : Nat]
          /\ delayed'[i].wait = delayed[i].wait - 1
  <2> SUFFICES ASSUME NEW i \in 1 .. Len(delayed)
               PROVE  /\ delayed'[i] \in [n : Nat, wait : Nat]
                      /\ delayed'[i].wait = delayed[i].wait - 1
    OBVIOUS
  <2>1. delayed'[i] = [delayed[i] EXCEPT !.wait = @ - 1]
    BY <1>1
  <2>2. delayed[i].wait - 1 \in Nat
    BY <1>3, <1>4
  <2> QED
    BY <1>3, <2>1, <2>2
<1>6. delayed' \in Seq([n : Nat, wait : Nat]) /\ Len(delayed') = Len(delayed)
  <2> DEFINE next == delayed'
             len == Len(delayed)
  <2>1. len \in Nat /\ next = [i \in 1..len |-> next[i]]
        /\ \A i \in 1..len : next[i] \in [n : Nat, wait : Nat]
    BY <1>1, <1>2, <1>5
  <2> DEFINE Waiter == [n : Nat, wait : Nat]
  <2> HIDE DEF next, len, Waiter
  <2>2. \A i \in 1..len : next[i] \in Waiter
    BY <2>1 DEF Waiter
  <2>3. next \in [1..len -> Waiter]
    BY <2>1, <2>2
  <2>4. next \in Seq(Waiter) /\ Len(next) = len
    BY <2>1, <2>3
  <2> QED
    BY <2>4 DEF next, len, Waiter
<1>7. InOrder'
  <2>1. \A i \in 1 .. Len(delayed) :
            /\ delayed[i].wait <= delay
            /\ \A j \in 1..i : delayed[j].wait <= delayed[i].wait
    BY DEF Inv, InOrder
  <2>2. \A i \in 1 .. Len(delayed) : \A j \in 1..i : j \in 1 .. Len(delayed)
    BY <1>2
  <2>3. \A i \in 1 .. Len(delayed) :
            /\ delayed'[i].wait <= delay
            /\ \A j \in 1..i : delayed'[j].wait <= delayed'[i].wait
    <3>1. \A i \in 1 .. Len(delayed) : /\ delayed'[i].wait = delayed[i].wait - 1
                                       /\ delayed[i].wait \in Nat
      BY <1>3, <1>5
    <3> SUFFICES ASSUME NEW i \in 1 .. Len(delayed)
                 PROVE  /\ delayed'[i].wait <= delay
                        /\ \A j \in 1..i : delayed'[j].wait <= delayed'[i].wait
      OBVIOUS
    <3>2. delayed'[i].wait = delayed[i].wait - 1 /\ delayed[i].wait \in Nat
          /\ delayed[i].wait <= delay
      BY <2>1, <3>1
    <3>3. delay \in Nat
      BY <1>2
    <3>4. delayed'[i].wait <= delay
      <4>1. 0 \in Nat /\ 0 + delayed[i].wait <= delay
        BY <3>2
      <4>2. delayed[i].wait - 1 <= delay
        BY <3>2, <3>3, <4>1, UnitPasses
      <4> QED
        BY <3>2, <4>2
    <3>5. ASSUME NEW j \in 1..i PROVE delayed'[j].wait <= delayed'[i].wait
      <4>1. j \in 1 .. Len(delayed) /\ delayed[j].wait <= delayed[i].wait
        BY <2>1, <2>2
      <4>2. delayed'[j].wait = delayed[j].wait - 1 /\ delayed[j].wait \in Nat
        BY <3>1, <4>1
      <4> QED
        BY <3>2, <4>1, <4>2
    <3> QED
      BY <3>4, <3>5
  <2> QED
    BY <1>1, <1>6, <2>3 DEF InOrder
<1>8. ASSUME NEW g \in held'
      PROVE  /\ g \in [n : Nat, age : Nat]
             /\ \A i \in 1 .. Len(delayed) : g.age + delayed'[i].wait <= delay
             /\ g.age <= Larger(HoldMax, delay)
  <2>1. PICK h \in held : g = [h EXCEPT !.age = @ + 1]
    BY <1>1
  <2>2. h \in Ripe <=> h.age >= HoldMax
    BY DEF Ripe
  <2>3. /\ h \in [n : Nat, age : Nat]
        /\ \A i \in 1 .. Len(delayed) : h.age + delayed[i].wait <= delay
    BY DEF Inv, HeldLast
  <2>4. g \in [n : Nat, age : Nat] /\ g.age = h.age + 1
    BY <2>1, <2>3
  <2>5. CASE delayed = <<>>
    <3>1. ~(h.age >= HoldMax)
      BY <2>2, <2>5 DEF Tick, Overdue
    <3>2. 1 .. Len(delayed) = {}
      BY <2>5
    <3>3. h.age + 1 <= HoldMax /\ h.age + 1 \in Nat
      BY <2>3, <3>1
    <3>4. h.age + 1 <= Larger(HoldMax, delay)
      BY <1>2, <3>3, LargerFacts
    <3> QED
      BY <2>4, <3>2, <3>4
  <2>6. CASE delayed # <<>>
    <3>1. 1 \in 1 .. Len(delayed)
      BY <1>2, <2>6
    <3>2. h.age + 1 <= delay
      <4>1. delayed[1].wait \in Nat /\ delayed[1].wait > 0
        BY <1>3, <1>4, <3>1
      <4>2. h.age \in Nat /\ h.age + delayed[1].wait <= delay
        BY <2>3, <3>1
      <4>3. delay \in Nat
        BY <1>2
      <4> QED
        BY <4>1, <4>2, <4>3
    <3>3. \A i \in 1 .. Len(delayed) : g.age + delayed'[i].wait <= delay
      <4>1. \A i \in 1 .. Len(delayed) : /\ delayed'[i].wait = delayed[i].wait - 1
                                         /\ delayed[i].wait \in Nat
        BY <1>3, <1>5
      <4>2. h.age \in Nat
        BY <2>3
      <4> SUFFICES ASSUME NEW i \in 1 .. Len(delayed)
                   PROVE  g.age + delayed'[i].wait <= delay
        OBVIOUS
      <4>3. h.age + delayed[i].wait <= delay
        BY <2>3
      <4>4. delayed'[i].wait = delayed[i].wait - 1 /\ delayed[i].wait \in Nat
        BY <4>1
      <4>5. g.age = h.age + 1
        BY <2>4
      <4>6. delay \in Nat
        BY <1>2
      <4>7. (h.age + 1) + (delayed[i].wait - 1) <= delay
        BY <4>2, <4>3, <4>4, <4>6, UnitPasses
      <4> QED
        BY <4>4, <4>5, <4>7
    <3> QED
      <4>1. h.age + 1 \in Nat
        BY <2>3
      <4>2. h.age + 1 <= Larger(HoldMax, delay)
        BY <1>2, <3>2, <4>1, LargerFacts
      <4> QED
        BY <2>4, <3>3, <4>2
  <2> QED
    BY <2>5, <2>6
<1>9. HeldLast'
  <2>1. delay' = delay /\ Len(delayed') = Len(delayed)
    BY <1>1, <1>6
  <2>2. \A g \in held' :
            /\ g \in [n : Nat, age : Nat]
            /\ \A i \in 1 .. Len(delayed') : g.age + delayed'[i].wait <= delay'
    BY <1>8, <2>1
  <2> QED
    BY <2>2, Zenon DEF HeldLast
<1>10. LeavesInTime'
  <2>1. delay' = delay
    BY <1>1
  <2> QED
    BY <1>8, <2>1 DEF LeavesInTime, Larger
<1> QED
  BY <1>1, <1>7, <1>9, <1>10 DEF Inv

LEMMA StepInv == ASSUME Inv, [Next]_vars PROVE Inv'
<1>1. ASSUME NEW m, Send(m) PROVE Inv'
  BY <1>1, SendStep
<1>2. CASE UNCHANGED vars
  BY <1>2 DEF vars, Inv, InOrder, HeldLast, LeavesInTime
<1> QED
  BY <1>1, <1>2, DrainStep, TickStep DEF Next

(* No datagram is kept longer than HOLD_MAX or the latency, although the   *)
(* loop forgets the held one as long as another is delayed (next_deadline, *)
(* drain).                                                                 *)
THEOREM LeavesOnTime == Spec => []LeavesInTime
<1>1. Inv => LeavesInTime
  BY DEF Inv
<1> QED
  BY <1>1, InitInv, StepInv, PTL DEF Spec

-----------------------------------------------------------------------------
(* The order.  What is on the wire and what waits in the queue behind it   *)
(* is one sequence, in which a datagram keeps its place from the moment it *)
(* leaves the rolls: draining moves it from one part to the other.         *)

NumbersOf(q) == [i \in 1 .. Len(q) |-> q[i].n]
Queue == NumbersOf(delayed)
Released == wire \o Queue
HeldNumbers == {h.n : h \in held}
Present == Range(Released) \cup HeldNumbers

(* A datagram is held after everything before it has been released, and    *)
(* nothing is released while it is held.  Without latency nothing waits.   *)
Ordered ==
    /\ delay \in Delays /\ phase \in Nat
    /\ sent \in Seq(Messages)
    /\ wire \in Seq(Numbers) /\ Queue \in Seq(Numbers)
    /\ delay = 0 => delayed = <<>>
    /\ held = {} \/ \E h : held = {h}
    /\ \A n \in HeldNumbers : n \in Numbers /\ \A x \in Range(Released) : x < n
    /\ \A k \in Nat : Count(Released, k) <= 2
    /\ delay <= HoldMax => Neighbourly(Released, Present)

Waiter == [n : Nat, wait : Nat]

LEMMA NumbersOfFacts ==
    ASSUME NEW q \in Seq(Waiter)
    PROVE  /\ NumbersOf(q) \in Seq(Nat)
           /\ Len(NumbersOf(q)) = Len(q)
           /\ \A i \in 1 .. Len(q) : NumbersOf(q)[i] = q[i].n
<1> DEFINE len == Len(q)
<1>1. len \in Nat /\ \A i \in 1..len : q[i] \in Waiter
  BY Elements
<1>2. \A i \in 1..len : q[i].n \in Nat
  BY <1>1 DEF Waiter
<1>3. NumbersOf(q) = [i \in 1..len |-> q[i].n]
  BY DEF NumbersOf
<1> HIDE DEF len
<1>4. NumbersOf(q) \in Seq(Nat) /\ Len(NumbersOf(q)) = len
  BY <1>1, <1>2, <1>3
<1> QED
  BY <1>3, <1>4 DEF len

LEMMA NumbersOfConcat ==
    ASSUME NEW q \in Seq(Waiter), NEW r \in Seq(Waiter)
    PROVE  NumbersOf(q \o r) = NumbersOf(q) \o NumbersOf(r)
<1>1. /\ q \o r \in Seq(Waiter) /\ Len(q \o r) = Len(q) + Len(r)
      /\ \A i \in 1 .. Len(q) + Len(r) : (q \o r)[i] = IF i <= Len(q) THEN q[i] ELSE r[i - Len(q)]
  BY ConcatProperties
<1>2. /\ NumbersOf(q) \in Seq(Nat) /\ Len(NumbersOf(q)) = Len(q)
      /\ \A i \in 1 .. Len(q) : NumbersOf(q)[i] = q[i].n
      /\ NumbersOf(r) \in Seq(Nat) /\ Len(NumbersOf(r)) = Len(r)
      /\ \A i \in 1 .. Len(r) : NumbersOf(r)[i] = r[i].n
      /\ NumbersOf(q \o r) \in Seq(Nat) /\ Len(NumbersOf(q \o r)) = Len(q \o r)
      /\ \A i \in 1 .. Len(q \o r) : NumbersOf(q \o r)[i] = (q \o r)[i].n
  BY <1>1, NumbersOfFacts
<1> DEFINE s == NumbersOf(q)
           t == NumbersOf(r)
           c == NumbersOf(q \o r)
           k == Len(q)
           l == Len(r)
<1>3. k \in Nat /\ l \in Nat
  BY Elements
<1>4. /\ s \o t \in Seq(Nat) /\ Len(s \o t) = k + l
      /\ \A i \in 1 .. k + l : (s \o t)[i] = IF i <= k THEN s[i] ELSE t[i - k]
  <2>1. s \in Seq(Nat) /\ t \in Seq(Nat) /\ Len(s) = k /\ Len(t) = l
    BY <1>2
  <2> HIDE DEF s, t, k, l
  <2> QED
    BY <2>1, ConcatProperties
<1>5. ASSUME NEW i \in 1 .. k + l PROVE c[i] = (s \o t)[i]
  <2> HIDE DEF s, t, c, k, l
  <2>1. c[i] = (q \o r)[i].n
    BY <1>1, <1>2 DEF c, k, l
  <2>2. CASE i <= k
    <3>1. i \in 1..k
      BY <1>3, <2>2
    <3>2. (q \o r)[i] = q[i] /\ s[i] = q[i].n
      BY <1>1, <1>2, <2>2, <3>1 DEF s, k, l
    <3> QED
      BY <1>4, <2>1, <2>2, <3>2
  <2>3. CASE ~(i <= k)
    <3>1. i - k \in 1..l
      BY <1>3, <2>3
    <3>2. (q \o r)[i] = r[i - k] /\ t[i - k] = r[i - k].n
      BY <1>1, <1>2, <2>3, <3>1 DEF t, k, l
    <3> QED
      BY <1>4, <2>1, <2>3, <3>2
  <2> QED
    BY <2>2, <2>3
<1> HIDE DEF s, t, c, k, l
<1>6. c \in Seq(Nat) /\ Len(c) = k + l
  BY <1>1, <1>2 DEF c, k, l
<1>7. c = s \o t
  BY <1>4, <1>5, <1>6, SeqEqual
<1> QED
  BY <1>7 DEF c, s, t

(* The first d datagrams of a queue and the others. *)
LEMMA NumbersOfParts ==
    ASSUME NEW q \in Seq(Waiter), NEW d \in 0 .. Len(q)
    PROVE  LET s == NumbersOf(q)
           IN  /\ [i \in 1..d |-> q[i].n] = SubSeq(s, 1, d)
               /\ NumbersOf(SubSeq(q, d + 1, Len(q))) = SubSeq(s, d + 1, Len(s))
               /\ s = SubSeq(s, 1, d) \o SubSeq(s, d + 1, Len(s))
               /\ d = Len(q) => SubSeq(s, d + 1, Len(s)) = <<>>
<1> DEFINE s == NumbersOf(q)
           len == Len(q)
<1>1. s \in Seq(Nat) /\ Len(s) = len /\ \A i \in 1..len : s[i] = q[i].n
  BY NumbersOfFacts
<1>2. len \in Nat /\ d \in 0..len
  BY Elements
<1> HIDE DEF s, len
<1>3. [i \in 1..d |-> q[i].n] = SubSeq(s, 1, d)
  <2>1. SubSeq(s, 1, d) = [i \in 1..d |-> s[i]]
    BY <1>1, <1>2
  <2>2. \A i \in 1..d : s[i] = q[i].n
    BY <1>1, <1>2
  <2> QED
    BY <2>1, <2>2
<1>4. NumbersOf(SubSeq(q, d + 1, len)) = SubSeq(s, d + 1, len)
  <2> DEFINE r == SubSeq(q, d + 1, len)
             left == len - d
  <2>1. left \in Nat /\ \A i \in 1..left : i + d \in 1..len
    BY <1>2
  <2>2. r \in Seq(Waiter) /\ Len(r) = left /\ \A i \in 1..left : r[i] = q[i + d]
    BY DropFirst DEF len
  <2>3. /\ SubSeq(s, d + 1, len) \in Seq(Nat) /\ Len(SubSeq(s, d + 1, len)) = left
        /\ \A i \in 1..left : SubSeq(s, d + 1, len)[i] = s[i + d]
    BY <1>1, <1>2, DropFirst
  <2> HIDE DEF r, left
  <2>4. NumbersOf(r) \in Seq(Nat) /\ Len(NumbersOf(r)) = left
        /\ \A i \in 1..left : NumbersOf(r)[i] = r[i].n
    BY <2>2, NumbersOfFacts
  <2>5. \A i \in 1..left : NumbersOf(r)[i] = SubSeq(s, d + 1, len)[i]
    BY <1>1, <2>1, <2>2, <2>3, <2>4
  <2>6. NumbersOf(r) = SubSeq(s, d + 1, len)
    BY <2>3, <2>4, <2>5, SeqEqual
  <2> QED
    BY <2>6 DEF r
<1>5. s = SubSeq(s, 1, d) \o SubSeq(s, d + 1, len)
  <2>1. SubSeq(s, 1, d) \o SubSeq(s, d + 1, len) = SubSeq(s, 1, len)
    <3>1. 1 \in 1 .. Len(s) + 1 /\ d \in 1 - 1 .. Len(s) /\ len \in d .. Len(s)
      BY <1>1, <1>2
    <3> QED
      BY <1>1, <3>1, ConcatAdjacentSubSeq
  <2>2. SubSeq(s, 1, len) = s
    BY <1>1, SubSeqFull
  <2> QED
    BY <2>1, <2>2
<1>6. d = len => SubSeq(s, d + 1, len) = <<>>
  BY <1>2, SubSeqEmpty
<1> QED
  BY <1>1, <1>3, <1>4, <1>5, <1>6 DEF s, len

(* The rolls of pipeline. *)

LEMMA CopiesFacts ==
    ASSUME NEW n \in Nat, NEW c \in Copies(n)
    PROVE  /\ c \in Seq(Nat) /\ c \in Seq({n}) /\ Range(c) \subseteq {n}
           /\ \A k \in Nat : Count(c, k) <= 2
<1>1. PICK m \in Survivors : c = [i \in 1..m |-> n]
  BY DEF Copies
<1>2. m \in Nat /\ m <= 2
  BY DEF Survivors
<1>3. c \in Seq({n}) /\ c \in Seq(Nat) /\ Len(c) = m
  BY <1>1, <1>2
<1>4. \A k \in Nat : Count(c, k) \in 0 .. m
  BY <1>3, CountBound
<1>5. Range(c) \subseteq {n}
  BY <1>3, RangeOfSeq
<1>6. \A k \in Nat : Count(c, k) <= 2
  BY <1>2, <1>4
<1> QED
  BY <1>3, <1>5, <1>6

LEMMA SwappedCopies ==
    ASSUME NEW n \in Nat, NEW h \in Nat, h < n, NEW new \in Copies(n), NEW old \in Copies(h)
    PROVE  /\ new \o old \in Seq(Nat) /\ Range(new \o old) \subseteq {h, n}
           /\ \A k \in Nat : Count(new \o old, k) <= 2
<1>1. /\ new \in Seq(Nat) /\ Range(new) \subseteq {n}
      /\ old \in Seq(Nat) /\ Range(old) \subseteq {h}
      /\ \A k \in Nat : Count(new, k) <= 2 /\ Count(old, k) <= 2
  BY CopiesFacts
<1>2. new \o old \in Seq(Nat) /\ Range(new \o old) = Range(new) \cup Range(old)
  BY <1>1, ConcatProperties, RangeConcatenation
<1>3. ASSUME NEW k \in Nat PROVE Count(new \o old, k) <= 2
  <2>1. Count(new, k) \in Nat /\ Count(old, k) \in Nat
        /\ Count(new \o old, k) = Count(new, k) + Count(old, k)
    BY <1>1, CountConcat
  <2>2. CASE k = n
    <3>1. Count(old, k) = 0
      BY <1>1, <2>2, CountAbsent
    <3> QED
      BY <1>1, <2>1, <3>1
  <2>3. CASE k # n
    <3>1. Count(new, k) = 0
      BY <1>1, <2>3, CountAbsent
    <3> QED
      BY <1>1, <2>1, <3>1
  <2> QED
    BY <2>2, <2>3
<1> QED
  BY <1>1, <1>2, <1>3

(* With or without latency, the copies are released after everything else. *)
LEMMA PipelineReleases ==
    ASSUME Inv, Ordered, delay' = delay,
           NEW S \in SUBSET Nat, NEW ns \in Seq(S), Pipeline(ns),
           wire \in Seq(S), Queue \in Seq(S)
    PROVE  /\ wire' \in Seq(S) /\ Queue' \in Seq(S)
           /\ Released' = Released \o ns
           /\ delay' = 0 => delayed' = <<>>
<1>0. delay \in Nat /\ delayed \in Seq(Waiter)
  BY DEF Inv, InOrder, Waiter
<1>1. CASE delay > 0
  <2>1. delayed' = delayed \o Wait(ns) /\ wire' = wire
    BY <1>1 DEF Pipeline
  <2>2. Wait(ns) \in Seq(Waiter) /\ NumbersOf(Wait(ns)) = ns
    <3> DEFINE w == Wait(ns)
               len == Len(ns)
    <3>1. len \in Nat /\ \A i \in 1..len : ns[i] \in Nat
      <4>1. len \in Nat /\ \A i \in 1..len : ns[i] \in S
        BY Elements
      <4> QED
        BY <4>1
    <3>2. w = [i \in 1..len |-> [n |-> ns[i], wait |-> delay]]
      BY DEF Wait
    <3>3. ns = [i \in 1..len |-> ns[i]]
      BY SeqFacts
    <3> HIDE DEF w, len
    <3>4. \A i \in 1..len : w[i] \in Waiter /\ w[i].n = ns[i]
      BY <1>0, <3>1, <3>2 DEF Waiter
    <3>5. w \in Seq(Waiter) /\ Len(w) = len
      BY <3>1, <3>2, <3>4
    <3>6. NumbersOf(w) = [i \in 1..len |-> w[i].n]
      BY <3>5 DEF NumbersOf
    <3>7. NumbersOf(w) = ns
      BY <3>3, <3>4, <3>6
    <3> QED
      BY <3>5, <3>7 DEF w
  <2>3. Queue' = Queue \o ns
    <3>1. NumbersOf(delayed \o Wait(ns)) = NumbersOf(delayed) \o NumbersOf(Wait(ns))
      BY <1>0, <2>2, NumbersOfConcat
    <3>2. Queue' = NumbersOf(delayed')
      BY DEF Queue, NumbersOf
    <3> QED
      BY <2>1, <2>2, <3>1, <3>2 DEF Queue
  <2>4. Released' = wire \o (Queue \o ns)
    BY <2>1, <2>3 DEF Released
  <2>5. Queue \o ns \in Seq(S) /\ wire \o (Queue \o ns) = (wire \o Queue) \o ns
    BY ConcatProperties, ConcatAssociative, SMTT(30)
  <2> QED
    BY <1>1, <2>1, <2>3, <2>4, <2>5 DEF Released
<1>2. CASE ~(delay > 0)
  <2>1. wire' = wire \o ns /\ delayed' = delayed /\ delayed = <<>>
    BY <1>0, <1>2 DEF Pipeline, Emit, Ordered
  <2>2. Queue = <<>> /\ Queue' = <<>>
    BY <2>1 DEF Queue, NumbersOf
  <2>3. wire \o ns \in Seq(S) /\ wire \o Queue = wire /\ (wire \o ns) \o Queue' = wire \o ns
    BY <2>2, ConcatProperties, ConcatEmptySeq
  <2>4. Released' = wire' \o Queue'
    BY DEF Released
  <2> QED
    BY <2>1, <2>2, <2>3, <2>4 DEF Released
<1> QED
  BY <1>1, <1>2

(* Every step keeps the order.                                             *)

LEMMA SeqOfNumbers ==
    ASSUME NEW T, NEW S, NEW q \in Seq(T), Range(q) \subseteq S
    PROVE  q \in Seq(S)
  BY SeqOfRange, SeqMonotonic

LEMMA OrderedFacts ==
    ASSUME Ordered
    PROVE  /\ Len(sent) \in Nat /\ Numbers \in SUBSET Nat
           /\ wire \in Seq(Nat) /\ Queue \in Seq(Nat)
           /\ Released \in Seq(Numbers) /\ Released \in Seq(Nat)
           /\ Range(Released) = Range(wire) \cup Range(Queue)
           /\ Range(Released) \subseteq Numbers
           /\ HeldNumbers \subseteq Numbers
<1>1. Len(sent) \in Nat
  BY DEF Ordered
<1>2. Numbers \in SUBSET Nat
  BY <1>1 DEF Numbers
<1>3. wire \in Seq(Numbers) /\ Queue \in Seq(Numbers) /\ HeldNumbers \subseteq Numbers
  BY DEF Ordered
<1>4. Released \in Seq(Numbers) /\ Range(Released) = Range(wire) \cup Range(Queue)
  BY <1>3, ConcatProperties, RangeConcatenation DEF Released
<1>5. Range(Released) \subseteq Numbers
  BY <1>4, RangeOfSeq
<1>6. wire \in Seq(Nat) /\ Queue \in Seq(Nat) /\ Released \in Seq(Nat)
  BY <1>2, <1>3, <1>4, SeqMonotonic
<1> QED
  BY <1>1, <1>2, <1>3, <1>4, <1>5, <1>6

LEMMA SendOrdered == ASSUME Inv, Ordered, NEW m \in Messages, Send(m) PROVE Ordered'
<1> DEFINE n == Len(sent')
<1>1. /\ sent' = Append(sent, m) /\ delay' = delay /\ phase' = phase
      /\ SendInBurst \/ SendSwapped(n) \/ Hold(n) \/ SendPlain(n)
  BY DEF Send
<1>2. sent' \in Seq(Messages) /\ n = Len(sent) + 1
  BY <1>1, AppendProperties DEF Ordered
<1>3. /\ n \in Nat /\ n \in 1..n /\ 1..n \in SUBSET Nat
      /\ Numbers' = 1..n /\ Numbers \subseteq 1..n
      /\ \A x \in Numbers : x < n
  BY <1>2, OrderedFacts DEF Numbers
<1> HIDE DEF n
<1>4. wire \in Seq(1..n) /\ Queue \in Seq(1..n)
  BY <1>3, SeqMonotonic DEF Ordered
<1>a. Range(Released) \subseteq Numbers
  BY OrderedFacts
<1>b. \A y \in Range(Released) : y < n
  BY <1>3, <1>a, Zenon
<1>5. ASSUME NEW ns \in Seq(Nat), NEW a \in 1..n, Range(ns) \subseteq {a, n},
             \A x \in Range(Released) : x < a, HeldNumbers \subseteq {a},
             \A k \in Nat : Count(ns, k) <= 2, Pipeline(ns), held' = {}
      PROVE  Ordered'
  <2>1. ns \in Seq(1..n)
    BY <1>3, <1>5, SeqOfNumbers
  <2>2. /\ wire' \in Seq(1..n) /\ Queue' \in Seq(1..n) /\ Released' = Released \o ns
        /\ delay' = 0 => delayed' = <<>>
    <3>1. Pipeline(ns) /\ delay' = delay /\ 1..n \in SUBSET Nat
      BY <1>1, <1>3, <1>5
    <3> QED
      BY <1>4, <2>1, <3>1, PipelineReleases, Zenon
  <2>3. a \in Nat /\ a <= n
    BY <1>3
  <2>4. Released \in Seq(Nat) /\ \A k \in Nat : Count(Released, k) <= 2
    BY OrderedFacts DEF Ordered
  <2>5. /\ \A k \in Nat : Count(Released \o ns, k) <= 2
        /\ \A X \in SUBSET Nat :
              X \subseteq Range(Released) \cup {a} /\ Range(Released) \subseteq X
              /\ Neighbourly(Released, X)
                  => Neighbourly(Released \o ns, Range(Released \o ns))
    BY <1>3, <1>5, <2>3, <2>4, Joining
  <2>6. HeldNumbers' = {}
    BY <1>5 DEF HeldNumbers
  <2>7. Present' = Range(Released')
    BY <2>6 DEF Present
  <2>8. ASSUME delay' <= HoldMax PROVE Neighbourly(Released', Present')
    <3>1. Neighbourly(Released, Present)
      BY <1>1, <2>8 DEF Ordered
    <3>2. /\ Present \in SUBSET Nat /\ Present \subseteq Range(Released) \cup {a}
          /\ Range(Released) \subseteq Present
      BY <1>5, OrderedFacts DEF Present
    <3> QED
      BY <2>2, <2>5, <2>7, <3>1, <3>2
  <2>9. (\A k \in Nat : Count(Released, k) <= 2)'
    BY <2>2, <2>5
  <2>10. (\A x \in HeldNumbers : x \in Numbers /\ \A y \in Range(Released) : y < x)'
    BY <2>6
  <2>11. (held = {} \/ \E h : held = {h})'
    BY <1>5
  <2>12. delay' \in Delays /\ phase' \in Nat
    BY <1>1 DEF Ordered
  <2> QED
    BY <1>2, <1>3, <2>2, <2>8, <2>9, <2>10, <2>11, <2>12, Zenon DEF Ordered
<1>6. ASSUME UNCHANGED <<wire, delayed>>
      PROVE  Released' = Released /\ Queue' = Queue /\ wire' = wire
             /\ (delay' = 0 => delayed' = <<>>)
  BY <1>1, <1>6 DEF Released, Queue, NumbersOf, Ordered
<1>7. CASE SendInBurst
  <2>1. UNCHANGED <<wire, delayed>> /\ held' = held
    BY <1>7 DEF SendInBurst
  <2>2. HeldNumbers' = HeldNumbers
    BY <2>1 DEF HeldNumbers
  <2>3. Present' = Present
    BY <1>6, <2>1, <2>2 DEF Present
  <2>4. (\A x \in HeldNumbers : x \in Numbers /\ \A y \in Range(Released) : y < x)'
    BY <1>3, <1>6, <2>1, <2>2 DEF Ordered
  <2>5. /\ delay' \in Delays /\ phase' \in Nat
        /\ (held = {} \/ \E h : held = {h})'
        /\ (\A k \in Nat : Count(Released, k) <= 2)'
        /\ (delay <= HoldMax => Neighbourly(Released, Present))'
    BY <1>1, <1>6, <2>1, <2>3 DEF Ordered
  <2> QED
    BY <1>2, <1>3, <1>4, <1>6, <2>1, <2>4, <2>5, Zenon DEF Ordered
<1>8. CASE Hold(n)
  <2>1. UNCHANGED <<wire, delayed>> /\ held' = {[n |-> n, age |-> 0]} /\ held = {}
    BY <1>8 DEF Hold
  <2>2. HeldNumbers' = {n} /\ HeldNumbers = {}
    BY <2>1 DEF HeldNumbers
  <2>3. (\A x \in HeldNumbers : x \in Numbers /\ \A y \in Range(Released) : y < x)'
    <3>1. n \in Numbers'
      BY <1>3
    <3>2. Released' = Released
      BY <1>6, <2>1
    <3> QED
      BY <1>b, <2>2, <3>1, <3>2
  <2>4. ASSUME delay' <= HoldMax PROVE Neighbourly(Released', Present')
    <3>1. Neighbourly(Released, Range(Released)) /\ Present' = Range(Released) \cup {n}
      BY <1>1, <1>6, <2>1, <2>2, <2>4 DEF Ordered, Present
    <3>2. \A i \in 1 .. Len(Released) : Released[i] \in Numbers
      BY OrderedFacts, Elements
    <3>3. \A i \in 1 .. Len(Released) : ~(n < Released[i])
      BY <1>3, <3>2, OrderedFacts
    <3> QED
      BY <1>6, <2>1, <3>1, <3>3 DEF Neighbourly
  <2>5. /\ delay' \in Delays /\ phase' \in Nat
        /\ (held = {} \/ \E h : held = {h})'
        /\ (\A k \in Nat : Count(Released, k) <= 2)'
    BY <1>1, <1>6, <2>1 DEF Ordered
  <2> QED
    BY <1>2, <1>3, <1>4, <1>6, <2>1, <2>3, <2>4, <2>5, Zenon DEF Ordered
<1>9. CASE SendPlain(n)
  <2>1. PICK copies \in Copies(n) : Pipeline(copies)
    BY <1>9 DEF SendPlain
  <2>2. copies \in Seq(Nat) /\ Range(copies) \subseteq {n, n}
        /\ \A k \in Nat : Count(copies, k) <= 2
    BY <1>3, CopiesFacts
  <2>3. held = {} /\ held' = {} /\ HeldNumbers \subseteq {n}
    BY <1>9 DEF SendPlain, HeldNumbers
  <2> QED
    BY <1>3, <1>5, <1>b, <2>1, <2>2, <2>3, Zenon
<1>10. CASE SendSwapped(n)
  <2>1. PICK h \in held : \E new \in Copies(n), old \in Copies(h.n) : Pipeline(new \o old)
    BY <1>10 DEF SendSwapped
  <2>2. PICK new \in Copies(n), old \in Copies(h.n) : Pipeline(new \o old)
    BY <2>1
  <2>3. h.n \in Numbers /\ HeldNumbers \subseteq {h.n}
        /\ \A x \in Range(Released) : x < h.n
    <3>1. held = {h} /\ h.n \in HeldNumbers
      BY <2>1 DEF Ordered, HeldNumbers
    <3> QED
      BY <3>1 DEF Ordered, HeldNumbers
  <2>4. h.n \in Nat /\ h.n < n /\ h.n \in 1..n
    BY <1>3, <2>3
  <2>5. new \o old \in Seq(Nat) /\ Range(new \o old) \subseteq {h.n, n}
        /\ \A k \in Nat : Count(new \o old, k) <= 2
    BY <1>3, <2>4, SwappedCopies
  <2>6. held' = {}
    BY <1>10 DEF SendSwapped
  <2> QED
    BY <1>5, <2>2, <2>3, <2>4, <2>5, <2>6
<1> QED
  BY <1>1, <1>7, <1>8, <1>9, <1>10

(* A held datagram that is ripe is behind everything else: no latency was  *)
(* left when it was held that has not passed by now.                       *)
LEMMA RipeIsLast ==
    ASSUME Inv, delay <= HoldMax, Ripe # {}
    PROVE  Cardinality(Due) = Len(delayed)
<1> DEFINE len == Len(delayed)
<1>1. PICK h \in held : h.age >= HoldMax
  BY DEF Ripe
<1>2. /\ delay \in Nat /\ HoldMax \in Nat /\ h.age \in Nat
      /\ \A i \in 1..len : h.age + delayed[i].wait <= delay
  BY DEF Inv, HeldLast
<1>3. len \in Nat /\ \A i \in 1..len : delayed[i].wait \in Nat
  <2>1. len \in Nat /\ \A i \in 1..len : delayed[i] \in [n : Nat, wait : Nat]
    BY Elements DEF Inv, InOrder
  <2> QED
    BY <2>1
<1>4. \A i \in 1..len : delayed[i].wait = 0
  BY <1>1, <1>2, <1>3
<1>5. Due = 1..len
  BY <1>3, <1>4 DEF Due
<1> HIDE DEF len
<1>6. Cardinality(1..len) = IF 1 > len THEN 0 ELSE len - 1 + 1
  BY <1>3, FS_Interval
<1> QED
  BY <1>3, <1>5, <1>6 DEF len

LEMMA CountOnce == ASSUME NEW x \in Nat, NEW k \in Nat PROVE Count(<<x>>, k) \in 0..1
<1>1. <<x>> \in Seq(Nat) /\ Len(<<x>>) = 1
  OBVIOUS
<1> QED
  BY <1>1, CountBound

LEMMA DrainOrdered == ASSUME Inv, Ordered, Drain PROVE Ordered'
<1> DEFINE d == Cardinality(Due)
           front == SubSeq(Queue, 1, d)
           rest == SubSeq(Queue, d + 1, Len(Queue))
<1>1. delayed \in Seq(Waiter) /\ d \in 0 .. Len(delayed)
  BY DueIsShort DEF Inv, InOrder, Waiter
<1>2. /\ [i \in 1..d |-> delayed[i].n] = front
      /\ NumbersOf(SubSeq(delayed, d + 1, Len(delayed))) = rest
      /\ Queue = front \o rest
      /\ d = Len(delayed) => rest = <<>>
  BY <1>1, NumbersOfParts DEF Queue
<1>3. /\ delayed' = SubSeq(delayed, d + 1, Len(delayed))
      /\ held' = held \ Ripe
      /\ delay' = delay /\ phase' = phase /\ sent' = sent
      /\ wire' = wire \o (front \o IF Ripe = {} THEN <<>>
                                   ELSE <<(CHOOSE h \in Ripe : TRUE).n>>)
  <2> DEFINE due == [i \in 1..d |-> delayed[i].n]
             ripe == IF Ripe = {} THEN <<>> ELSE <<(CHOOSE h \in Ripe : TRUE).n>>
  <2>1. /\ delayed' = SubSeq(delayed, d + 1, Len(delayed))
        /\ held' = held \ Ripe
        /\ delay' = delay /\ phase' = phase /\ sent' = sent
    BY DEF Drain
  <2>2. wire' = wire \o (due \o ripe)
    BY Zenon DEF Drain, Emit
  <2>3. due = front
    BY <1>2
  <2> HIDE DEF due, front
  <2>4. wire' = wire \o (front \o ripe)
    BY <2>2, <2>3
  <2> QED
    BY <2>1, <2>4, Zenon
<1>4. Queue' = rest
  BY <1>2, <1>3 DEF Queue, NumbersOf
<1>5. front \in Seq(Numbers) /\ rest \in Seq(Numbers) /\ wire \in Seq(Numbers)
  <2>1. Queue \in Seq(Numbers) /\ Len(Queue) = Len(delayed)
    BY <1>1, NumbersOfFacts DEF Ordered, Queue
  <2>2. \A i \in 1 .. Len(Queue) : Queue[i] \in Numbers
    BY <2>1, Elements
  <2>3. d \in Int /\ d + 1 \in Int /\ Len(Queue) \in Int /\ 1 \in Int
        /\ (\A i \in 1..d : i \in 1 .. Len(Queue))
        /\ (\A i \in d + 1 .. Len(Queue) : i \in 1 .. Len(Queue))
    BY <1>1, <2>1
  <2>4. front \in Seq(Numbers) /\ rest \in Seq(Numbers)
    BY <2>2, <2>3, SubSeqProperties
  <2> QED
    BY <2>4 DEF Ordered
<1>6. delay' = 0 => delayed' = <<>>
  <2>1. CASE delay = 0
    <3>1. delayed = <<>> /\ Len(delayed) = 0
      BY <2>1 DEF Ordered
    <3>2. d = 0
      BY <1>1, <3>1
    <3> QED
      BY <1>1, <1>3, <3>1, <3>2, SubSeqEmpty
  <2> QED
    BY <1>3, <2>1
<1>7. Numbers' = Numbers
  BY <1>3 DEF Numbers
<1> HIDE DEF front, rest, d
<1>8. CASE Ripe = {}
  <2>1. wire' = wire \o front
    <3>1. wire' = wire \o (front \o <<>>)
      BY <1>3, <1>8
    <3> QED
      BY <1>5, <3>1, ConcatEmptySeq
  <2>2. Released' = Released
    <3>1. (wire \o front) \o rest = wire \o (front \o rest)
      BY <1>5, ConcatAssociative, SMTT(30)
    <3> QED
      BY <1>2, <1>4, <2>1, <3>1 DEF Released
  <2>3. held' = held
    BY <1>3, <1>8
  <2>4. HeldNumbers' = HeldNumbers
    BY <2>3 DEF HeldNumbers
  <2>5. Present' = Present
    BY <2>2, <2>4 DEF Present
  <2>6. wire' \in Seq(Numbers') /\ Queue' \in Seq(Numbers')
    BY <1>4, <1>5, <1>7, <2>1, ConcatProperties
  <2>7. (\A x \in HeldNumbers : x \in Numbers /\ \A y \in Range(Released) : y < x)'
    BY <1>7, <2>2, <2>4 DEF Ordered
  <2>8. /\ delay' \in Delays /\ phase' \in Nat /\ sent' \in Seq(Messages)
        /\ (held = {} \/ \E h : held = {h})'
        /\ (\A k \in Nat : Count(Released, k) <= 2)'
        /\ (delay <= HoldMax => Neighbourly(Released, Present))'
    BY <1>3, <2>2, <2>3, <2>5 DEF Ordered
  <2> QED
    BY <1>6, <2>6, <2>7, <2>8, Zenon DEF Ordered
<1>9. CASE Ripe # {}
  <2>1. PICK h : held = {h} /\ Ripe = {h}
    <3>1. PICK h : held = {h}
      BY <1>9 DEF Ordered, Ripe
    <3> QED
      BY <1>9, <3>1 DEF Ripe
  <2> DEFINE x == h.n
             old == <<x>>
  <2>2. held' = {} /\ HeldNumbers = {x} /\ HeldNumbers' = {}
    BY <1>3, <2>1 DEF HeldNumbers
  <2>3. x \in Numbers /\ x \in Nat /\ \A y \in Range(Released) : y < x
    BY <2>2, OrderedFacts DEF Ordered
  <2>4. wire' = wire \o (front \o old)
    <3>1. (CHOOSE g \in Ripe : TRUE) = h
      BY <2>1
    <3> QED
      BY <1>3, <1>9, <3>1
  <2> HIDE DEF x
  <2>5. old \in Seq(Numbers) /\ old \in Seq(Nat) /\ Range(old) = {x}
        /\ \A k \in Nat : Count(old, k) \in 0..1
    <3>1. old \in Seq(Numbers) /\ old \in Seq(Nat)
      BY <2>3
    <3>2. Range(old) = {x}
      BY DEF Range
    <3> QED
      BY <2>3, <3>1, <3>2, CountOnce
  <2> HIDE DEF old
  <2>6. wire' \in Seq(Numbers') /\ Queue' \in Seq(Numbers')
    <3>1. front \o old \in Seq(Numbers)
      BY <1>5, <2>5, ConcatProperties
    <3>2. wire \o (front \o old) \in Seq(Numbers)
      BY <1>5, <3>1, ConcatProperties
    <3> QED
      BY <1>4, <1>5, <1>7, <2>4, <3>2
  <2>7. ASSUME NEW k \in Nat PROVE Count(Released', k) = Count(Released, k) + Count(old, k)
    <3>1. front \o old \in Seq(Numbers) /\ front \o rest \in Seq(Numbers)
          /\ wire \o (front \o old) \in Seq(Numbers)
      BY <1>5, <2>5, ConcatProperties
    <3>2. Released' = (wire \o (front \o old)) \o rest /\ Released = wire \o (front \o rest)
      BY <1>2, <1>4, <2>4 DEF Released
    <3>3. /\ Count((wire \o (front \o old)) \o rest, k)
                = Count(wire \o (front \o old), k) + Count(rest, k)
          /\ Count(wire \o (front \o old), k) = Count(wire, k) + Count(front \o old, k)
          /\ Count(front \o old, k) = Count(front, k) + Count(old, k)
          /\ Count(wire \o (front \o rest), k) = Count(wire, k) + Count(front \o rest, k)
          /\ Count(front \o rest, k) = Count(front, k) + Count(rest, k)
          /\ Count(wire, k) \in Nat /\ Count(front, k) \in Nat
          /\ Count(rest, k) \in Nat /\ Count(old, k) \in Nat
      <4>1. /\ Count((wire \o (front \o old)) \o rest, k)
                  = Count(wire \o (front \o old), k) + Count(rest, k)
            /\ Count(wire \o (front \o old), k) = Count(wire, k) + Count(front \o old, k)
        BY <1>5, <3>1, CountConcat, ZenonT(40)
      <4>2. /\ Count(front \o old, k) = Count(front, k) + Count(old, k)
            /\ Count(front, k) \in Nat /\ Count(old, k) \in Nat
        BY <1>5, <2>5, CountConcat
      <4>3. /\ Count(wire \o (front \o rest), k) = Count(wire, k) + Count(front \o rest, k)
            /\ Count(wire, k) \in Nat
        BY <1>5, <3>1, CountConcat, ZenonT(40)
      <4>4. /\ Count(front \o rest, k) = Count(front, k) + Count(rest, k)
            /\ Count(rest, k) \in Nat
        BY <1>5, CountConcat
      <4> QED
        BY <4>1, <4>2, <4>3, <4>4
    <3> QED
      BY <3>2, <3>3
  <2>8. ASSUME NEW k \in Nat PROVE Count(Released', k) <= 2
    <3>1. Count(Released', k) = Count(Released, k) + Count(old, k)
      BY <2>7
    <3>2. Count(old, k) \in 0..1 /\ Count(Released, k) <= 2
      BY <2>5 DEF Ordered
    <3>3. Count(Released, k) \in Nat
      BY OrderedFacts, CountConcat
    <3>4. CASE k = x
      <4>1. Count(Released, k) = 0
        BY <2>3, <3>4, OrderedFacts, CountAbsent
      <4> QED
        BY <3>1, <3>2, <4>1
    <3>5. CASE k # x
      <4>1. Count(old, k) = 0
        BY <2>5, <3>5, CountAbsent
      <4> QED
        BY <3>1, <3>2, <3>3, <4>1
    <3> QED
      BY <3>4, <3>5
  <2>9. ASSUME delay' <= HoldMax PROVE Neighbourly(Released', Present')
    <3>1. d = Len(delayed)
      BY <1>3, <1>9, <2>9, RipeIsLast DEF d
    <3>2. rest = <<>>
      BY <1>2, <3>1
    <3>3. Released' = Released \o old
      <4>1. front \o old \in Seq(Numbers) /\ wire \o (front \o old) \in Seq(Numbers)
            /\ (wire \o front) \o old = wire \o (front \o old)
        <5>1. front \o old \in Seq(Numbers)
          BY <1>5, <2>5, ConcatProperties
        <5>2. wire \o (front \o old) \in Seq(Numbers)
          BY <1>5, <5>1, ConcatProperties
        <5>3. (wire \o front) \o old = wire \o (front \o old)
          <6>1. old \in Seq(Numbers)
            BY <2>5
          <6> QED
            BY <1>5, <6>1, ConcatAssociative, SMTT(30)
        <5> QED
          BY <5>1, <5>2, <5>3
      <4>2. Released' = wire \o (front \o old)
        BY <1>4, <2>4, <3>2, <4>1, ConcatEmptySeq DEF Released
      <4>3. Released = wire \o front
        BY <1>2, <1>5, <3>2, ConcatEmptySeq DEF Released
      <4> QED
        BY <4>1, <4>2, <4>3
    <3>4. Range(old) \subseteq {x, x} /\ x <= x
      BY <2>3, <2>5
    <3>5. \A k \in Nat : Count(Released, k) <= 2 /\ Count(old, k) <= 2
      <4>1. \A k \in Nat : Count(old, k) <= 2
        BY <2>5
      <4> QED
        BY <4>1 DEF Ordered
    <3>6. /\ Present \in SUBSET Nat /\ Present \subseteq Range(Released) \cup {x}
          /\ Range(Released) \subseteq Present
      BY <2>2, OrderedFacts DEF Present
    <3>7. Neighbourly(Released, Present)
      BY <1>3, <2>9 DEF Ordered
    <3>8. Neighbourly(Released \o old, Range(Released \o old))
      BY <2>3, <2>5, <3>4, <3>5, <3>6, <3>7, OrderedFacts, Joining
    <3>9. Present' = Range(Released')
      BY <2>2 DEF Present
    <3> QED
      BY <3>3, <3>8, <3>9
  <2>10. (\A y \in HeldNumbers : y \in Numbers /\ \A z \in Range(Released) : z < y)'
    BY <2>2
  <2>11. /\ delay' \in Delays /\ phase' \in Nat /\ sent' \in Seq(Messages)
         /\ (held = {} \/ \E g : held = {g})'
    BY <1>3, <2>2 DEF Ordered
  <2>12. (\A k \in Nat : Count(Released, k) <= 2)'
    BY <2>8
  <2> QED
    BY <1>6, <2>6, <2>9, <2>10, <2>11, <2>12, Zenon DEF Ordered
<1> QED
  BY <1>8, <1>9

LEMMA TickOrdered == ASSUME Inv, Ordered, Tick PROVE Ordered'
<1>1. /\ delayed' = [i \in 1 .. Len(delayed) |-> [delayed[i] EXCEPT !.wait = @ - 1]]
      /\ held' = {[h EXCEPT !.age = @ + 1] : h \in held}
      /\ phase' = IF BurstEvery = 0 THEN 0 ELSE (phase + 1) % BurstEvery
      /\ delay' = delay /\ sent' = sent /\ wire' = wire
  BY DEF Tick
<1>2. Len(delayed) \in Nat /\ \A i \in 1 .. Len(delayed) : delayed[i] \in [n : Nat, wait : Nat]
  BY Elements DEF Inv, InOrder
<1>3. Len(delayed') = Len(delayed) /\ \A i \in 1 .. Len(delayed) : delayed'[i].n = delayed[i].n
  <2> DEFINE len == Len(delayed)
             next == delayed'
  <2>1. \A i \in 1..len : next[i].n = delayed[i].n
    BY <1>1, <1>2
  <2>2. next = [i \in 1..len |-> next[i]] /\ len \in Nat
    BY <1>1, <1>2
  <2> HIDE DEF len, next
  <2>3. Len(next) = len
    BY <2>2
  <2> QED
    BY <2>1, <2>3 DEF len, next
<1>4. Queue' = Queue
  BY <1>3 DEF Queue, NumbersOf
<1>5. Released' = Released /\ Numbers' = Numbers
  BY <1>1, <1>4 DEF Released, Numbers
<1>6. \A h \in held : [h EXCEPT !.age = @ + 1].n = h.n
  <2>1. \A h \in held : h \in [n : Nat, age : Nat]
    BY DEF Inv, HeldLast
  <2> QED
    BY <2>1
<1>7. HeldNumbers' = HeldNumbers
  BY <1>1, <1>6, ZenonT(40) DEF HeldNumbers
<1>8. Present' = Present
  BY <1>5, <1>7 DEF Present
<1>9. phase' \in Nat
  <2>1. \A a \in Nat, b \in Nat \ {0} : a % b \in Nat
    OBVIOUS
  <2> QED
    BY <1>1, <2>1 DEF Ordered
<1>10. (held = {} \/ \E h : held = {h})'
  <2>1. CASE held = {}
    BY <1>1, <2>1
  <2>2. ASSUME NEW h, held = {h} PROVE \E g : held' = {g}
    <3>1. held' = {[h EXCEPT !.age = @ + 1]}
      BY <1>1, <2>2
    <3> QED
      BY <3>1
  <2> QED
    BY <2>1, <2>2 DEF Ordered
<1>11. delay' = 0 => delayed' = <<>>
  <2>1. CASE delay = 0
    <3>1. delayed = <<>> /\ Len(delayed) = 0
      BY <2>1 DEF Ordered
    <3>2. delayed' = [i \in 1..0 |-> [delayed[i] EXCEPT !.wait = @ - 1]]
      BY <1>1, <3>1
    <3> QED
      BY <3>2
  <2> QED
    BY <1>1, <2>1
<1>12. /\ delay' \in Delays /\ sent' \in Seq(Messages)
       /\ wire' \in Seq(Numbers') /\ Queue' \in Seq(Numbers')
       /\ (\A n \in HeldNumbers : n \in Numbers /\ \A x \in Range(Released) : x < n)'
       /\ (\A k \in Nat : Count(Released, k) <= 2)'
       /\ (delay <= HoldMax => Neighbourly(Released, Present))'
  BY <1>1, <1>4, <1>5, <1>7, <1>8 DEF Ordered
<1> QED
  BY <1>9, <1>10, <1>11, <1>12, Zenon DEF Ordered

LEMMA InitOrdered == Init => Ordered
<1> SUFFICES ASSUME Init PROVE Ordered
  OBVIOUS
<1>1. /\ delay \in Delays /\ phase = 0 /\ sent = <<>> /\ held = {}
      /\ delayed = <<>> /\ wire = <<>>
  BY DEF Init
<1>2. Queue = <<>>
  BY <1>1 DEF Queue, NumbersOf
<1>3. \A T : <<>> \in Seq(T)
  OBVIOUS
<1>4. Released = <<>>
  BY <1>1, <1>2 DEF Released
<1>5. HeldNumbers = {}
  BY <1>1 DEF HeldNumbers
<1>6. ASSUME NEW k \in Nat PROVE Count(Released, k) <= 2
  <2>1. Released \in Seq(Nat) /\ Len(Released) = 0
    BY <1>4
  <2>2. Count(Released, k) \in 0 .. Len(Released)
    BY <2>1, CountBound
  <2> QED
    BY <2>1, <2>2
<1>7. Neighbourly(Released, Present)
  BY <1>4 DEF Neighbourly
<1> QED
  BY <1>1, <1>2, <1>3, <1>5, <1>6, <1>7 DEF Ordered

LEMMA StepOrdered == ASSUME Inv, Ordered, [Next]_vars PROVE Ordered'
<1>1. ASSUME NEW m \in Outgoing[Len(sent) + 1], Len(sent) < Len(Outgoing), Send(m)
      PROVE  Ordered'
  <2>1. Len(sent) \in Nat /\ Len(Outgoing) \in Nat
        /\ \A k \in 1 .. Len(Outgoing) : Outgoing[k] \in SUBSET Messages
    BY Elements, OrderedFacts
  <2>2. Len(sent) + 1 \in 1 .. Len(Outgoing)
    BY <1>1, <2>1
  <2>3. m \in Messages
    BY <2>1, <2>2
  <2> QED
    BY <1>1, <2>3, SendOrdered
<1>2. CASE UNCHANGED vars
  <2>1. /\ delay' = delay /\ phase' = phase /\ sent' = sent
        /\ held' = held /\ delayed' = delayed /\ wire' = wire
    BY <1>2 DEF vars
  <2>2. Queue' = Queue /\ HeldNumbers' = HeldNumbers /\ Numbers' = Numbers
    BY <2>1 DEF Queue, NumbersOf, HeldNumbers, Numbers
  <2>3. Released' = Released
    BY <2>1, <2>2 DEF Released
  <2>4. Present' = Present
    BY <2>2, <2>3 DEF Present
  <2> QED
    BY <2>1, <2>2, <2>3, <2>4 DEF Ordered
<1> QED
  BY <1>1, <1>2, DrainOrdered, TickOrdered DEF Next

LEMMA AlwaysOrdered == Spec => [](Inv /\ Ordered)
  BY InitInv, InitOrdered, StepInv, StepOrdered, PTL DEF Spec

-----------------------------------------------------------------------------
(* What follows.                                                           *)

LEMMA WireFacts ==
    ASSUME Ordered
    PROVE  /\ \A i \in 1 .. Len(wire) : /\ wire[i] \in Numbers
                                        /\ i \in 1 .. Len(Released)
                                        /\ wire[i] = Released[i]
           /\ OnWire = Range(wire)
           /\ OnWire \cup Waiting = Present
<1>1. wire \in Seq(Numbers) /\ Queue \in Seq(Numbers)
  BY DEF Ordered
<1>2. /\ Len(Released) = Len(wire) + Len(Queue) /\ Len(wire) \in Nat /\ Len(Queue) \in Nat
      /\ \A i \in 1 .. Len(wire) + Len(Queue) :
            Released[i] = IF i <= Len(wire) THEN wire[i] ELSE Queue[i - Len(wire)]
  BY <1>1, ConcatProperties DEF Released
<1>3. \A i \in 1 .. Len(wire) : wire[i] \in Numbers
  BY <1>1, Elements
<1>4. \A i \in 1 .. Len(wire) : i \in 1 .. Len(Released) /\ wire[i] = Released[i]
  BY <1>2
<1>5. OnWire = Range(wire)
  BY <1>1, RangeEquality DEF OnWire
<1>6. Range(Queue) = {delayed[i].n : i \in 1 .. Len(delayed)}
  BY DEF Queue, NumbersOf, Range
<1>7. Range(Released) = Range(wire) \cup Range(Queue)
  BY OrderedFacts
<1> QED
  BY <1>3, <1>4, <1>5, <1>6, <1>7 DEF Waiting, Present, HeldNumbers

(* The types of the pipeline: the queue is in the order of its deadlines,  *)
(* and a datagram is held or delayed, not both (pipeline, drain).          *)
THEOREM SendPathTypes == Spec => []TypeOK
<1>1. ASSUME Inv, Ordered PROVE TypeOK
  <2>1. delay \in Delays /\ phase \in Nat
    BY <1>1 DEF Ordered
  <2>2. Cardinality(held) <= 1
    <3>1. CASE held = {}
      BY <3>1, FS_EmptySet
    <3>2. ASSUME NEW h, held = {h} PROVE Cardinality(held) <= 1
      <4>1. Cardinality({h}) = 1
        BY FS_Singleton
      <4> QED
        BY <3>2, <4>1
    <3> QED
      BY <1>1, <3>1, <3>2 DEF Ordered
  <2>3. \A h \in held : h.n \in Numbers /\ h.age \in Nat
    <3>1. \A h \in held : h.age \in Nat /\ h.n \in HeldNumbers
      BY <1>1 DEF Inv, HeldLast, HeldNumbers
    <3> QED
      BY <1>1, <3>1 DEF Ordered
  <2>4. ASSUME NEW i \in 1 .. Len(delayed)
        PROVE  /\ delayed[i].n \in Numbers
               /\ delayed[i].wait \in 0..delay
               /\ \A j \in 1..i : delayed[j].wait <= delayed[i].wait
               /\ \A h \in held : h.n # delayed[i].n
    <3>1. delayed[i] \in [n : Nat, wait : Nat] /\ delay \in Nat
      BY <1>1, Elements DEF Inv, InOrder
    <3>2. delayed[i].wait <= delay /\ \A j \in 1..i : delayed[j].wait <= delayed[i].wait
      BY <1>1 DEF Inv, InOrder
    <3>3. delayed[i].n \in Range(Queue)
      BY DEF Queue, NumbersOf, Range
    <3>4. delayed[i].n \in Range(Released) /\ delayed[i].n \in Numbers
      BY <1>1, <3>3, OrderedFacts
    <3>5. \A h \in held : h.n # delayed[i].n
      <4>1. \A h \in held : h.n \in HeldNumbers
        BY DEF HeldNumbers
      <4>2. \A h \in held : delayed[i].n < h.n
        BY <1>1, <3>4, <4>1 DEF Ordered
      <4> QED
        BY <3>1, <4>2
    <3> QED
      BY <3>1, <3>2, <3>4, <3>5
  <2>5. OnWire \subseteq Numbers
    BY <1>1, WireFacts DEF OnWire
  <2> QED
    BY <2>1, <2>2, <2>3, <2>4, <2>5, Zenon DEF TypeOK
<1> QED
  BY <1>1, AlwaysOrdered, PTL

(* Reordering swaps a datagram with the next one that is not dropped, and  *)
(* with no other, as long as the latency is not longer than HOLD_MAX       *)
(* (pipeline, drain).                                                      *)
THEOREM SwapsNeighboursOnly == Spec => []OnlyNeighboursSwap
<1>1. ASSUME Ordered PROVE OnlyNeighboursSwap
  <2> SUFFICES ASSUME delay <= HoldMax,
                      NEW i \in 1 .. Len(wire), NEW j \in 1 .. Len(wire), i < j,
                      NEW k \in wire[j] + 1 .. wire[i] - 1, k \in OnWire \cup Waiting
               PROVE  FALSE
    BY DEF OnlyNeighboursSwap
  <2>1. Neighbourly(Released, Present) /\ k \in Present
    BY <1>1, WireFacts DEF Ordered
  <2>2. /\ i \in 1 .. Len(Released) /\ j \in 1 .. Len(Released)
        /\ wire[i] = Released[i] /\ wire[j] = Released[j]
        /\ wire[i] \in Nat /\ wire[j] \in Nat
    BY <1>1, WireFacts, OrderedFacts
  <2>3. wire[j] < k /\ k < wire[i]
    BY <2>2, SMTT(30)
  <2> QED
    BY <2>1, <2>2, <2>3 DEF Neighbourly
<1> QED
  BY <1>1, AlwaysOrdered, PTL

(* Whatever is delivered is understood as it was meant (encode, decode),   *)
(* and none is sent more than twice (pipeline).                            *)
THEOREM DeliversWhatWasSent == Spec => []DeliveredAsSent
<1>1. ASSUME Ordered PROVE DeliveredAsSent
  <2> SUFFICES ASSUME NEW i \in 1 .. Len(wire)
               PROVE  /\ Fits(sent[wire[i]])
                            => Decode(Encode(sent[wire[i]])) = Understood(sent[wire[i]])
                      /\ Cardinality({j \in 1 .. Len(wire) : wire[j] = wire[i]}) <= 2
    BY DEF DeliveredAsSent
  <2>1. wire[i] \in Numbers /\ wire[i] \in Nat
    BY <1>1, WireFacts, OrderedFacts
  <2>2. sent[wire[i]] \in Messages
    <3>1. \A k \in 1 .. Len(sent) : sent[k] \in Messages
      BY <1>1, Elements DEF Ordered
    <3> QED
      BY <2>1, <3>1 DEF Numbers
  <2>3. ASSUME Fits(sent[wire[i]])
        PROVE  Decode(Encode(sent[wire[i]])) = Understood(sent[wire[i]])
    <3>1. Payload(sent[wire[i]]) \in Seq(Byte)
      BY <2>2, PayloadTyped
    <3>2. Len(Payload(sent[wire[i]])) \in Nat
      BY <3>1
    <3>3. Len(Payload(sent[wire[i]])) < U16Size
      BY <2>3, <3>2, Sizes DEF Fits
    <3> QED
      BY <2>2, <3>3, RoundTrip
  <2>4. Count(wire, wire[i]) <= 2
    <3>1. wire \in Seq(Numbers) /\ Queue \in Seq(Numbers)
      BY <1>1 DEF Ordered
    <3>2. /\ Count(Released, wire[i]) = Count(wire, wire[i]) + Count(Queue, wire[i])
          /\ Count(wire, wire[i]) \in Nat /\ Count(Queue, wire[i]) \in Nat
      BY <3>1, CountConcat DEF Released
    <3>3. Count(Released, wire[i]) <= 2
      BY <1>1, <2>1 DEF Ordered
    <3> QED
      BY <3>2, <3>3
  <2> QED
    BY <2>3, <2>4 DEF Count
<1> QED
  BY <1>1, AlwaysOrdered, PTL

=============================================================================
