--------------------------- MODULE SchedulerProofs ---------------------------
(***************************************************************************)
(* Theorems about Scheduler, for any segments, peers, playlists and limits.*)
(***************************************************************************)
EXTENDS Scheduler, SeqFilterProofs, FiniteSetTheorems, TLAPS

USE SchedulerAssumption

-----------------------------------------------------------------------------
(* Facts about sequences.                                                  *)

LEMMA ReverseFacts ==
    ASSUME NEW T, NEW seq \in Seq(T)
    PROVE  /\ Reverse(seq) \in Seq(T)
           /\ Range(Reverse(seq)) = Range(seq)
           /\ IsInjective(seq) => IsInjective(Reverse(seq))
<1> DEFINE n == Len(seq)
<1>1. n \in Nat /\ DOMAIN seq = 1..n /\ \A i \in 1..n : seq[i] \in T
  OBVIOUS
<1>2. Reverse(seq) = [i \in 1..n |-> seq[(n - i) + 1]]
  BY DEF Reverse
<1> HIDE DEF n
<1>3. \A i \in 1..n : (n - i) + 1 \in 1..n /\ (n - ((n - i) + 1)) + 1 = i
  BY <1>1
<1>4. Reverse(seq) \in [1..n -> T]
  BY <1>1, <1>2, <1>3
<1>5. Range(Reverse(seq)) = {seq[(n - i) + 1] : i \in 1..n}
  BY <1>2 DEF Range
<1>6. {seq[(n - i) + 1] : i \in 1..n} = {seq[i] : i \in 1..n}
  BY <1>3
<1>7. IsInjective(seq) => IsInjective(Reverse(seq))
  <2> SUFFICES ASSUME IsInjective(seq), NEW i \in 1..n, NEW k \in 1..n,
                      seq[(n - i) + 1] = seq[(n - k) + 1]
               PROVE  i = k
    BY <1>2 DEF IsInjective
  <2>1. (n - i) + 1 = (n - k) + 1
    BY <1>1, <1>3 DEF IsInjective
  <2> QED
    BY <1>1, <2>1
<1>8. Range(seq) = {seq[i] : i \in 1..n}
  BY <1>1 DEF Range
<1>9. Reverse(seq) \in Seq(T)
  BY <1>1, <1>4
<1> QED
  BY <1>5, <1>6, <1>7, <1>8, <1>9

LEMMA ConcatFacts ==
    ASSUME NEW T, NEW a \in Seq(T), NEW b \in Seq(T)
    PROVE  /\ a \o b \in Seq(T)
           /\ Range(a \o b) = Range(a) \cup Range(b)
           /\ IsInjective(a) /\ IsInjective(b) /\ Range(a) \cap Range(b) = {}
                 => IsInjective(a \o b)
<1> DEFINE n == Len(a)
           m == Len(b)
<1>1. /\ n \in Nat /\ DOMAIN a = 1..n
      /\ m \in Nat /\ DOMAIN b = 1..m
      /\ a \o b \in Seq(T) /\ DOMAIN (a \o b) = 1 .. n + m
  OBVIOUS
<1>2. \A i \in 1 .. n + m : (a \o b)[i] = IF i <= n THEN a[i] ELSE b[i - n]
  OBVIOUS
<1> HIDE DEF n, m
<1>3. \A i \in 1..n : i \in 1 .. n + m /\ (a \o b)[i] = a[i]
  BY <1>1, <1>2
<1>4. \A i \in 1..m : i + n \in 1 .. n + m /\ (a \o b)[i + n] = b[i]
  BY <1>1, <1>2
<1>5. \A i \in 1 .. n + m : i \in 1..n \/ (i - n \in 1..m /\ i = (i - n) + n)
  BY <1>1
<1>6. Range(a \o b) = Range(a) \cup Range(b)
  <2>1. \A x \in Range(a \o b) : x \in Range(a) \/ x \in Range(b)
    BY <1>1, <1>3, <1>4, <1>5 DEF Range
  <2>2. \A x \in Range(a) : x \in Range(a \o b)
    BY <1>1, <1>3 DEF Range
  <2>3. \A x \in Range(b) : x \in Range(a \o b)
    BY <1>1, <1>4 DEF Range
  <2> QED
    BY <2>1, <2>2, <2>3
<1>7. ASSUME IsInjective(a), IsInjective(b), Range(a) \cap Range(b) = {}
      PROVE  IsInjective(a \o b)
  <2> SUFFICES ASSUME NEW i \in 1 .. n + m, NEW k \in 1 .. n + m,
                      (a \o b)[i] = (a \o b)[k]
               PROVE  i = k
    BY <1>1 DEF IsInjective
  <2>1. \A j \in 1..n, l \in 1..m : a[j] # b[l]
    <3>1. \A j \in 1..n : a[j] \in Range(a)
      BY <1>1 DEF Range
    <3>2. \A l \in 1..m : b[l] \in Range(b)
      BY <1>1 DEF Range
    <3> QED
      BY <1>7, <3>1, <3>2
  <2>2. CASE i \in 1..n /\ k \in 1..n
    BY <1>1, <1>3, <1>7, <2>2 DEF IsInjective
  <2>3. CASE i - n \in 1..m /\ k - n \in 1..m
    <3>1. i = (i - n) + n /\ k = (k - n) + n
      BY <1>1
    <3>2. (a \o b)[i] = b[i - n] /\ (a \o b)[k] = b[k - n]
      BY <1>4, <2>3, <3>1, Zenon
    <3>3. b[i - n] = b[k - n]
      BY <3>2
    <3>4. i - n = k - n
      BY <1>1, <1>7, <2>3, <3>3 DEF IsInjective
    <3> QED
      BY <1>1, <3>4
  <2>4. CASE i \in 1..n /\ k - n \in 1..m
    BY <1>1, <1>3, <1>4, <1>5, <2>1, <2>4
  <2>5. CASE i - n \in 1..m /\ k \in 1..n
    BY <1>1, <1>3, <1>4, <1>5, <2>1, <2>5
  <2> QED
    BY <1>5, <2>2, <2>3, <2>4, <2>5
<1> QED
  BY <1>1, <1>6, <1>7

LEMMA SingleFacts ==
    ASSUME NEW T, NEW x \in T
    PROVE  <<x>> \in Seq(T) /\ Range(<<x>>) = {x} /\ IsInjective(<<x>>)
<1>1. <<x>> \in Seq(T) /\ Len(<<x>>) = 1 /\ <<x>>[1] = x
  OBVIOUS
<1>2. DOMAIN <<x>> = {1}
  OBVIOUS
<1> QED
  BY <1>1, <1>2 DEF Range, IsInjective

LEMMA TailFacts ==
    ASSUME NEW T, NEW q \in Seq(T), q # <<>>
    PROVE  /\ Head(q) \in T
           /\ Tail(q) \in Seq(T)
           /\ Range(q) = {Head(q)} \cup Range(Tail(q))
           /\ IsInjective(q) => IsInjective(Tail(q)) /\ Head(q) \notin Range(Tail(q))
<1>1. q = <<Head(q)>> \o Tail(q) /\ Head(q) \in T /\ Tail(q) \in Seq(T)
  OBVIOUS
<1>2. /\ Len(q) \in Nat \ {0} /\ DOMAIN q = 1 .. Len(q) /\ Head(q) = q[1]
      /\ DOMAIN Tail(q) = 1 .. Len(q) - 1
      /\ \A i \in 1 .. Len(q) - 1 : Tail(q)[i] = q[i + 1]
  OBVIOUS
<1>3. Range(q) = {Head(q)} \cup Range(Tail(q))
  <2> DEFINE h == <<Head(q)>>
             t == Tail(q)
  <2>1. h \in Seq(T) /\ Range(h) = {Head(q)} /\ t \in Seq(T)
    BY <1>1, SingleFacts
  <2>2. q = h \o t
    BY <1>1
  <2> HIDE DEF h, t
  <2>3. Range(h \o t) = Range(h) \cup Range(t)
    BY <2>1, ConcatFacts
  <2>4. Range(q) = Range(h) \cup Range(t)
    BY <2>2, <2>3
  <2> QED
    BY <2>1, <2>4 DEF t
<1>4. ASSUME IsInjective(q)
      PROVE  IsInjective(Tail(q)) /\ Head(q) \notin Range(Tail(q))
  <2>1. \A i \in 1 .. Len(q) - 1 : i + 1 \in 1 .. Len(q) /\ i + 1 # 1
    BY <1>2
  <2>2. \A i, k \in 1 .. Len(q) - 1 : q[i + 1] = q[k + 1] => i = k
    BY <1>2, <1>4, <2>1 DEF IsInjective
  <2>3. \A i \in 1 .. Len(q) - 1 : q[i + 1] # q[1]
    BY <1>2, <1>4, <2>1 DEF IsInjective
  <2>4. IsInjective(Tail(q))
    BY <1>2, <2>2 DEF IsInjective
  <2>5. Head(q) \notin Range(Tail(q))
    BY <1>2, <2>3 DEF Range
  <2> QED
    BY <2>4, <2>5
<1> QED
  BY <1>1, <1>3, <1>4

LEMMA AppendFacts ==
    ASSUME NEW T, NEW q \in Seq(T), NEW x \in T
    PROVE  /\ Append(q, x) \in Seq(T)
           /\ Range(Append(q, x)) = Range(q) \cup {x}
           /\ IsInjective(q) /\ x \notin Range(q) => IsInjective(Append(q, x))
<1> DEFINE n == Len(q)
<1>1. /\ n \in Nat /\ DOMAIN q = 1..n
      /\ Append(q, x) \in Seq(T) /\ DOMAIN Append(q, x) = 1 .. n + 1
  OBVIOUS
<1>2. \A i \in 1 .. n + 1 : Append(q, x)[i] = IF i <= n THEN q[i] ELSE x
  OBVIOUS
<1> HIDE DEF n
<1>3. \A i \in 1..n : i \in 1 .. n + 1 /\ Append(q, x)[i] = q[i]
  BY <1>1, <1>2
<1>4. n + 1 \in 1 .. n + 1 /\ Append(q, x)[n + 1] = x
  BY <1>1, <1>2
<1>5. \A i \in 1 .. n + 1 : i \in 1..n \/ i = n + 1
  BY <1>1
<1>6. Range(Append(q, x)) = Range(q) \cup {x}
  BY <1>1, <1>3, <1>4, <1>5 DEF Range
<1>7. ASSUME IsInjective(q), x \notin Range(q)
      PROVE  IsInjective(Append(q, x))
  <2>1. \A i \in 1..n : q[i] # x
    BY <1>1, <1>7 DEF Range
  <2>2. \A i, k \in 1..n : q[i] = q[k] => i = k
    BY <1>1, <1>7 DEF IsInjective
  <2> SUFFICES ASSUME NEW i \in 1 .. n + 1, NEW k \in 1 .. n + 1,
                      Append(q, x)[i] = Append(q, x)[k]
               PROVE  i = k
    BY <1>1 DEF IsInjective
  <2> QED
    BY <1>3, <1>4, <1>5, <2>1, <2>2
<1> QED
  BY <1>1, <1>6, <1>7

LEMMA RangeType ==
    ASSUME NEW T, NEW seq \in Seq(T)
    PROVE  Range(seq) \in SUBSET T
<1>1. \A i \in DOMAIN seq : seq[i] \in T
  OBVIOUS
<1> QED
  BY <1>1 DEF Range

-----------------------------------------------------------------------------
(* Facts about single steps.                                               *)

(* The segments that sync_queue adds. *)
New(manifest) ==
    {s \in Range(manifest) : s \notin store /\ s \notin queued /\ failed[s] # "cooling"}

LEMMA SyncFacts ==
    ASSUME queue \in Seq(Segs), NEW manifest \in Seq(Segs), SyncQueue(manifest)
    PROVE  /\ queue' \in Seq(Segs)
           /\ Range(queue') = New(manifest) \cup (Range(queue) \cap Range(manifest))
           /\ queued' = (queued \cap Range(manifest)) \cup New(manifest)
           /\ IsInjective(queue) /\ IsInjective(manifest) /\ New(manifest) \cap Range(queue) = {}
                 => IsInjective(queue')
<1> DEFINE new == Missing(manifest)
           kept == Keep(queue, Range(manifest))
           back == Reverse(new)
<1>1. /\ new \in Seq(Segs) /\ Range(new) = Range(manifest) \cap New(manifest)
      /\ IsInjective(manifest) => IsInjective(new)
  BY KeepFacts DEF Missing, New
<1>2. /\ kept \in Seq(Segs) /\ Range(kept) = Range(queue) \cap Range(manifest)
      /\ IsInjective(queue) => IsInjective(kept)
  BY KeepFacts
<1>3. queue' = back \o kept /\ queued' = (queued \cap Range(manifest)) \cup Range(new)
  BY DEF SyncQueue
<1> HIDE DEF new, kept
<1>4. /\ back \in Seq(Segs) /\ Range(back) = Range(new)
      /\ IsInjective(new) => IsInjective(back)
  BY <1>1, ReverseFacts
<1> HIDE DEF back
<1>5. Range(manifest) \cap New(manifest) = New(manifest)
  BY DEF New
<1>6. /\ back \o kept \in Seq(Segs)
      /\ Range(back \o kept) = Range(back) \cup Range(kept)
      /\ IsInjective(back) /\ IsInjective(kept) /\ Range(back) \cap Range(kept) = {}
             => IsInjective(back \o kept)
  BY <1>2, <1>4, ConcatFacts
<1> QED
  BY <1>1, <1>2, <1>3, <1>4, <1>5, <1>6

LEMMA StepTypes ==
    ASSUME NEW step \in ManifestSteps
    PROVE  /\ step[1] \in Seq(Segs) /\ step[2] \in Seq(Segs) /\ IsInjective(step[2])
  OBVIOUS

(* A slot in use holds a job; a slot that has an outcome is in use. *)
LEMMA JobTypes ==
    ASSUME TypeOK, NEW i \in Busy
    PROVE  /\ i \in Slots
           /\ jobs[i].file \in Segs /\ jobs[i].peer \in Peers
           /\ jobs[i].result \in AllResults \cup {"pending"}
           /\ jobs[i] \in Jobs
<1>1. i \in Slots /\ jobs[i] \in Jobs
  BY DEF Busy, TypeOK
<1> QED
  BY <1>1 DEF Jobs

LEMMA JobIsNotFree ==
    ASSUME NEW job \in Jobs
    PROVE  job # Free
  BY DEF Jobs, Free, AllResults

LEMMA JudgeTypes ==
    ASSUME TypeOK, NEW p \in Peers, NEW result, JudgePeer(p, result)
    PROVE  /\ hits' \in [Peers -> 0 .. EvictAfter - 1]
           /\ known' \subseteq known
<1>1. known' \subseteq known
  BY DEF JudgePeer
<1>2. hits[p] \in 0 .. EvictAfter - 1 /\ 0 \in 0 .. EvictAfter - 1
  BY DEF TypeOK
<1>3. ~(hits[p] + 1 >= EvictAfter) => hits[p] + 1 \in 0 .. EvictAfter - 1
  BY <1>2
<1>4. \/ UNCHANGED hits
      \/ hits' = [hits EXCEPT ![p] = 0]
      \/ ~(hits[p] + 1 >= EvictAfter) /\ hits' = [hits EXCEPT ![p] = hits[p] + 1]
  BY DEF JudgePeer, TypeOK
<1>5. hits \in [Peers -> 0 .. EvictAfter - 1]
  BY DEF TypeOK
<1> DEFINE Counts == 0 .. EvictAfter - 1
<1> HIDE DEF Counts
<1>6. hits' \in [Peers -> Counts]
  <2>1. hits \in [Peers -> Counts] /\ 0 \in Counts
    BY <1>2, <1>5 DEF Counts
  <2>2. ~(hits[p] + 1 >= EvictAfter) => hits[p] + 1 \in Counts
    BY <1>3 DEF Counts
  <2> QED
    BY <1>4, <2>1, <2>2
<1> QED
  BY <1>1, <1>6 DEF Counts

LEMMA CandidateTypes ==
    ASSUME TypeOK, NEW s, NEW inventory
    PROVE  Candidates(s, inventory) \subseteq Peers
<1>1. Eligible(s, inventory) \subseteq Peers
  BY DEF Eligible, EffectiveAddr, TypeOK
<1>2. ParentsFirst(Eligible(s, inventory), s, inventory) \subseteq Peers
  BY <1>1 DEF ParentsFirst
<1>3. Recovery(s) \subseteq Peers
  BY DEF Recovery, TypeOK
<1> QED
  BY <1>2, <1>3 DEF Candidates, AdvertisedFirst

-----------------------------------------------------------------------------
(* Type correctness.                                                       *)

LEMMA EmptyTypes ==
    /\ [p \in Peers |-> 0] \in [Peers -> 0 .. EvictAfter - 1]
    /\ [p \in Peers |-> 0] \in [Peers -> 0 .. EvictAfter]
<1>1. 0 \in 0 .. EvictAfter - 1 /\ 0 \in 0 .. EvictAfter
  OBVIOUS
<1> QED
  BY <1>1

LEMMA InitTypes == Init => TypeOK
<1> SUFFICES ASSUME Init PROVE TypeOK
  OBVIOUS
<1>1. queue \in Seq(Segs) /\ live \in Seq(Segs)
  BY DEF Init
<1>2. hits \in [Peers -> 0 .. EvictAfter - 1] /\ streak \in [Peers -> 0 .. EvictAfter - 1]
  BY EmptyTypes DEF Init
<1>3. jobs \in [Slots -> Jobs \cup {Free}]
  BY DEF Init
<1> QED
  BY <1>1, <1>2, <1>3 DEF Init, TypeOK

LEMMA EventTypes == ASSUME TypeOK, Event PROVE TypeOK'
<1>1. CASE \E step \in ManifestSteps : NewManifest(step[2])
  <2>1. PICK step \in ManifestSteps : NewManifest(step[2])
    BY <1>1
  <2>2. queue' \in Seq(Segs) /\ queued' \subseteq Segs /\ step[2] \in Seq(Segs)
    BY <2>1, StepTypes, SyncFacts, RangeType DEF TypeOK, NewManifest, New
  <2> QED
    BY <2>1, <2>2 DEF NewManifest, TypeOK
<1>2. CASE SameManifest \/ RecvTimeout
  BY <1>2 DEF SameManifest, RecvTimeout, jobVars, TypeOK
<1>3. ASSUME NEW i \in Slots, NEW result \in Results, PullAnswered(i, result)
      PROVE  TypeOK'
  <2>1. jobs[i] \in Jobs /\ jobs[i].file \in Segs /\ result \in AllResults
    BY <1>3, JobTypes DEF PullAnswered, Pending
  <2>2. jobs' \in [Slots -> Jobs \cup {Free}]
    BY <1>3, <2>1 DEF PullAnswered, End, TypeOK, Jobs
  <2> QED
    BY <1>3, <2>1, <2>2 DEF PullAnswered, TypeOK
<1>4. ASSUME NEW p \in Peers, Register(p) PROVE TypeOK'
  BY <1>4 DEF Register, TypeOK
<1> QED
  BY <1>1, <1>2, <1>3, <1>4 DEF Event

LEMMA TimerTypes == ASSUME TypeOK, Timers PROVE TypeOK'
<1>1. ASSUME NEW i \in Slots, NEW result \in Results, PullExpires(i, result)
      PROVE  TypeOK'
  <2>1. jobs[i] \in Jobs /\ result \in AllResults
    BY <1>1, JobTypes DEF PullExpires, Pending
  <2>2. jobs' \in [Slots -> Jobs \cup {Free}]
    BY <1>1, <2>1 DEF PullExpires, End, TypeOK, Jobs
  <2> QED
    BY <1>1, <2>2 DEF PullExpires, TypeOK
<1>2. ASSUME NEW p \in Peers, Forget(p) PROVE TypeOK'
  BY <1>2 DEF Forget, TypeOK
<1>3. ASSUME NEW s \in Segs, Prune(s) \/ CooldownEnds(s) PROVE TypeOK'
  BY <1>3 DEF Prune, CooldownEnds, jobVars, TypeOK
<1>4. ASSUME NEW s \in Segs, NEW p \in Peers, RetryCooldownEnds(s, p) PROVE TypeOK'
  BY <1>4 DEF RetryCooldownEnds, TypeOK
<1>5. CASE TimersDone
  BY <1>5 DEF TimersDone, jobVars, TypeOK
<1> QED
  BY <1>1, <1>2, <1>3, <1>4, <1>5 DEF Timers

LEMMA ReapTypes == ASSUME TypeOK, NEW i \in Slots, Reap(i) PROVE TypeOK'
<1> DEFINE s == jobs[i].file
           p == jobs[i].peer
           result == jobs[i].result
<1>1. i \in Busy /\ s \in Segs /\ p \in Peers
  BY JobTypes DEF Reap, Finished
<1>2. jobs' \in [Slots -> Jobs \cup {Free}] /\ UNCHANGED <<pc, live, store, synced>>
  BY DEF Reap, Clear, TypeOK
<1>3. streak' \in [Peers -> 0 .. EvictAfter - 1]
  <2>1. streak' = [streak EXCEPT ![p] = RowAfter(@, result, p \in known \ known')]
    BY DEF Reap
  <2> DEFINE Counts == 0 .. EvictAfter - 1
             row == RowAfter(streak[p], result, p \in known \ known')
  <2>2. streak \in [Peers -> Counts] /\ streak[p] \in Counts
    BY <1>1 DEF TypeOK
  <2>3. row \in Counts
    <3> HIDE DEF p, result
    <3> QED
      BY <2>2 DEF RowAfter, Lesser
  <2> HIDE DEF p, result, Counts, row
  <2>4. streak' = [streak EXCEPT ![p] = row]
    BY <2>1 DEF row
  <2> QED
    BY <2>2, <2>3, <2>4 DEF Counts
<1>4. \/ ReapOk(i, s, p) \/ ReapNotReady(i, s, p) \/ ReapFailed(i, s, p, result)
  BY DEF Reap
<1> HIDE DEF s, p, result
<1>5. CASE ReapOk(i, s, p)
  BY <1>1, <1>2, <1>3, <1>5 DEF ReapOk, TypeOK
<1>6. CASE ReapNotReady(i, s, p)
  <2>1. queue' \in Seq(Segs)
    <3>1. queue \in Seq(Segs)
      BY DEF TypeOK
    <3>2. Append(queue, s) \in Seq(Segs)
      BY <1>1, <3>1
    <3> QED
      BY <1>6, <3>2 DEF ReapNotReady
  <2>2. tried' \in [Segs -> SUBSET Peers]
    <3>1. tried \in [Segs -> SUBSET Peers]
      BY DEF TypeOK
    <3> QED
      BY <1>6, <3>1 DEF ReapNotReady
  <2>3. cooling' \subseteq Segs \X Peers
    BY <1>1, <1>6 DEF ReapNotReady, TypeOK
  <2>4. UNCHANGED <<queued, failed, hits, known>>
    BY <1>6 DEF ReapNotReady
  <2> QED
    BY <1>2, <1>3, <2>1, <2>2, <2>3, <2>4 DEF TypeOK
<1>7. CASE ReapFailed(i, s, p, result)
  <2>1. hits' \in [Peers -> 0 .. EvictAfter - 1] /\ known' \subseteq known
    BY <1>1, <1>7, JudgeTypes DEF ReapFailed
  <2>2. queue' \in Seq(Segs)
    <3>1. <<s>> \in Seq(Segs)
      BY <1>1, SingleFacts
    <3>2. queue \in Seq(Segs)
      BY DEF TypeOK
    <3>3. <<s>> \o queue \in Seq(Segs)
      BY <3>1, <3>2
    <3>4. queue' = queue \/ queue' = <<s>> \o queue
      BY <1>7 DEF ReapFailed
    <3> QED
      BY <3>2, <3>3, <3>4
  <2> QED
    BY <1>1, <1>2, <1>3, <1>7, <2>1, <2>2 DEF ReapFailed, TypeOK
<1> QED
  BY <1>4, <1>5, <1>6, <1>7

(* What a turn of the filling loop may do. *)
LEMMA FillFacts ==
    ASSUME TypeOK, Fill
    PROVE  \/ FillDone
           \/ /\ Busy # Slots /\ queue # <<>>
              /\ \E p \in Peers : StartPull(Head(queue), p)
  BY CandidateTypes DEF Fill

LEMMA PullFacts ==
    ASSUME TypeOK, Busy # Slots, queue # <<>>,
           NEW p \in Peers, StartPull(Head(queue), p)
    PROVE  \E i \in Slots \ Busy :
               /\ jobs' = [jobs EXCEPT ![i] =
                      [file |-> Head(queue), peer |-> p, result |-> "pending"]]
               /\ [file |-> Head(queue), peer |-> p, result |-> "pending"] \in Jobs
<1>1. Head(queue) \in Segs
  BY TailFacts DEF TypeOK
<1>2. [file |-> Head(queue), peer |-> p, result |-> "pending"] \in Jobs
  BY <1>1 DEF Jobs
<1>3. \E j \in Slots : j \notin Busy
  BY DEF Busy
<1>4. (CHOOSE j \in Slots : j \notin Busy) \in Slots \ Busy
  BY <1>3
<1> QED
  BY <1>2, <1>4 DEF StartPull

LEMMA FillTypes == ASSUME TypeOK, Fill PROVE TypeOK'
<1>1. CASE FillDone
  BY <1>1 DEF FillDone, jobVars, TypeOK
<1>2. ASSUME Busy # Slots, queue # <<>>, NEW p \in Peers, StartPull(Head(queue), p)
      PROVE  TypeOK'
  <2>1. jobs' \in [Slots -> Jobs \cup {Free}]
    BY <1>2, PullFacts DEF TypeOK
  <2>2. Tail(queue) \in Seq(Segs) /\ Head(queue) \in Segs
    BY <1>2, TailFacts DEF TypeOK
  <2> QED
    BY <1>2, <2>1, <2>2 DEF StartPull, TypeOK
<1> QED
  BY <1>1, <1>2, FillFacts

LEMMA StepTypeOK == ASSUME TypeOK, [Next]_vars PROVE TypeOK'
<1>1. CASE ScheduleJobs
  <2>1. CASE ReapDone
    BY <2>1 DEF ReapDone, jobVars, TypeOK
  <2> QED
    BY <1>1, <2>1, ReapTypes, FillTypes DEF ScheduleJobs
<1>2. CASE Restart
  <2>1. <<>> \in Seq(Segs)
    OBVIOUS
  <2>2. hits' \in [Peers -> 0 .. EvictAfter - 1] /\ streak' \in [Peers -> 0 .. EvictAfter - 1]
    BY <1>2, EmptyTypes DEF Restart
  <2>3. jobs' \in [Slots -> Jobs \cup {Free}]
    BY <1>2 DEF Restart
  <2> QED
    BY <1>2, <2>1, <2>2, <2>3 DEF Restart, TypeOK
<1>3. CASE UNCHANGED vars
  BY <1>3 DEF vars, jobVars, TypeOK
<1> QED
  BY <1>1, <1>2, <1>3, EventTypes, TimerTypes DEF Next

(* Every variable keeps its type, whatever the playlists and the peers do: *)
(* in particular the counters of sync_queue and schedule_jobs hold only    *)
(* segments, known addresses and counts below the limit.                   *)
THEOREM SchedulerTypes == Spec => []TypeOK
<1>1. QED
  BY InitTypes, StepTypeOK, PTL DEF Spec

-----------------------------------------------------------------------------
(* No segment is forgotten.                                                *)

(* In the queue, or being pulled with no good result so far. *)
Underway(s) ==
    \/ s \in Range(queue)
    \/ \E i \in Busy : jobs[i].file = s /\ jobs[i].result # "ok"

Covered(s) == s \in store \/ Underway(s)

(* `queued` is what sync_queue trusts: whatever it holds is listed, and is *)
(* on disk or under way, also when the reaping lags behind the disk.       *)
QueuedIsCovered == queued \subseteq Wanted /\ \A s \in queued : Covered(s)

ListedIsCovered == synced => \A s \in Wanted : Covered(s) \/ failed[s] # "never"

Ledger == QueuedIsCovered /\ ListedIsCovered

LEMMA InitLedger == Init => Ledger
  BY DEF Init, Ledger, QueuedIsCovered, ListedIsCovered

(* A step that leaves the playlist alone and uncovers no segment. *)
LEMMA LedgerKept ==
    ASSUME Ledger, live' = live, synced' = synced,
           queued' \subseteq queued,
           \A s \in queued' : Covered(s) => Covered(s)',
           \A s \in Wanted : Covered(s) => Covered(s)' \/ failed'[s] # "never",
           \A s \in Wanted : failed[s] # "never" => failed'[s] # "never"
    PROVE  Ledger'
<1>1. Wanted' = Wanted
  BY DEF Wanted
<1> QED
  BY <1>1 DEF Ledger, QueuedIsCovered, ListedIsCovered

LEMMA Untouched ==
    ASSUME Ledger, UNCHANGED <<live, store, queue, queued, failed, jobs, synced>>
    PROVE  Ledger'
  BY DEF Ledger, QueuedIsCovered, ListedIsCovered, Covered, Underway, Wanted, Busy

(* A download that gets its result is still under way, or saved. *)
LEMMA EndFacts ==
    ASSUME TypeOK, NEW i \in Pending, NEW result \in AllResults, End(i, result),
           queue' = queue
    PROVE  \A s : Underway(s) => Underway(s)' \/ (result = "ok" /\ s = jobs[i].file)
<1> SUFFICES ASSUME NEW s, Underway(s), ~(result = "ok" /\ s = jobs[i].file)
             PROVE  Underway(s)'
  OBVIOUS
<1>1. i \in Busy /\ jobs[i] \in Jobs
  BY JobTypes DEF Pending
<1>2. jobs' = [jobs EXCEPT ![i].result = result] /\ jobs \in [Slots -> Jobs \cup {Free}]
  BY DEF End, TypeOK
<1>3. /\ i \in Slots /\ jobs'[i] \in Jobs
      /\ jobs'[i].file = jobs[i].file /\ jobs'[i].result = result
  BY <1>1, <1>2 DEF Busy, Jobs
<1>4. CASE s \in Range(queue)
  BY <1>4 DEF Underway
<1>5. ASSUME NEW j \in Busy, jobs[j].file = s, jobs[j].result # "ok"
      PROVE  Underway(s)'
  <2>1. j \in Slots /\ jobs[j] # Free
    BY DEF Busy
  <2>2. CASE j = i
    <3>1. jobs'[i] # Free /\ jobs'[i].result # "ok"
      BY <1>3, <1>5, <2>2, JobIsNotFree
    <3> QED
      BY <1>3, <1>5, <2>2, <3>1 DEF Underway, Busy
  <2>3. CASE j # i
    <3>1. jobs'[j] = jobs[j]
      BY <1>2, <2>1, <2>3
    <3> QED
      BY <1>5, <2>1, <3>1 DEF Underway, Busy
  <2> QED
    BY <2>2, <2>3
<1> QED
  BY <1>4, <1>5 DEF Underway

(* Of the segments under way only that of the reaped slot may come off. *)
LEMMA ClearFacts ==
    ASSUME TypeOK, NEW i \in Busy, Clear(i), Range(queue) \subseteq Range(queue)'
    PROVE  \A s : Underway(s) =>
               Underway(s)' \/ (s = jobs[i].file /\ jobs[i].result # "ok")
<1> SUFFICES ASSUME NEW s, Underway(s), ~(s = jobs[i].file /\ jobs[i].result # "ok")
             PROVE  Underway(s)'
  OBVIOUS
<1>1. CASE s \in Range(queue)
  BY <1>1 DEF Underway
<1>2. ASSUME NEW j \in Busy, jobs[j].file = s, jobs[j].result # "ok"
      PROVE  Underway(s)'
  <2>1. j # i /\ j \in Slots /\ jobs[j] # Free
    BY <1>2 DEF Busy
  <2>2. jobs'[j] = jobs[j]
    BY <2>1 DEF Clear, TypeOK
  <2> QED
    BY <1>2, <2>1, <2>2 DEF Underway, Busy
<1> QED
  BY <1>1, <1>2 DEF Underway

(* A job that is started leaves the queue for a slot. *)
LEMMA PullUnderway ==
    ASSUME TypeOK, Busy # Slots, queue # <<>>,
           NEW p \in Peers, StartPull(Head(queue), p)
    PROVE  \A s : Underway(s) => Underway(s)'
<1> SUFFICES ASSUME NEW s, Underway(s) PROVE Underway(s)'
  OBVIOUS
<1> DEFINE job == [file |-> Head(queue), peer |-> p, result |-> "pending"]
<1>1. PICK i \in Slots \ Busy : jobs' = [jobs EXCEPT ![i] = job] /\ job \in Jobs
  BY PullFacts
<1>2. jobs \in [Slots -> Jobs \cup {Free}] /\ queue \in Seq(Segs)
  BY DEF TypeOK
<1>3. jobs'[i] = job /\ job # Free
  BY <1>1, <1>2, JobIsNotFree
<1>4. \A j \in Busy : jobs'[j] = jobs[j] /\ jobs[j] # Free /\ j \in Slots
  BY <1>1, <1>2 DEF Busy
<1>5. Range(queue) = {Head(queue)} \cup Range(queue')
  BY <1>2, TailFacts DEF StartPull
<1>6. CASE s = Head(queue)
  <2>1. jobs'[i].file = s /\ jobs'[i].result # "ok" /\ jobs'[i] # Free
    BY <1>3, <1>6
  <2> QED
    BY <1>1, <2>1 DEF Underway, Busy
<1>7. CASE s \in Range(queue')
  BY <1>7 DEF Underway
<1>8. CASE \E j \in Busy : jobs[j].file = s /\ jobs[j].result # "ok"
  BY <1>4, <1>8 DEF Underway, Busy
<1> QED
  BY <1>5, <1>6, <1>7, <1>8 DEF Underway

LEMMA EventLedger == ASSUME TypeOK, Ledger, Event PROVE Ledger'
<1>1. ASSUME NEW step \in ManifestSteps, NewManifest(step[2]) PROVE Ledger'
  <2> DEFINE m == step[2]
  <2>1. /\ Range(queue') = New(m) \cup (Range(queue) \cap Range(m))
        /\ queued' = (queued \cap Range(m)) \cup New(m)
    BY <1>1, StepTypes, SyncFacts DEF NewManifest, TypeOK
  <2>2. Wanted' = Range(m) /\ UNCHANGED <<store, failed, jobs>>
    BY <1>1 DEF NewManifest, Wanted
  <2> HIDE DEF m
  <2>3. \A s \in Range(m) : Underway(s) => Underway(s)'
    BY <2>1, <2>2 DEF Underway, Busy
  <2>4. \A s \in Range(m) : Covered(s) => Covered(s)'
    BY <2>2, <2>3 DEF Covered
  <2>5. \A s \in New(m) : Covered(s)'
    BY <2>1 DEF Covered, Underway
  <2>6. New(m) \subseteq Range(m)
    BY DEF New
  <2>7. QueuedIsCovered'
    BY <2>1, <2>2, <2>4, <2>5, <2>6 DEF Ledger, QueuedIsCovered
  <2>8. \A s \in Range(m) : Covered(s)' \/ failed[s] # "never"
    BY <2>4, <2>5 DEF New, Ledger, QueuedIsCovered, Covered
  <2>9. ListedIsCovered'
    BY <2>2, <2>8 DEF ListedIsCovered
  <2> QED
    BY <2>7, <2>9 DEF Ledger
<1>2. CASE SameManifest \/ RecvTimeout
  BY <1>2, Untouched DEF SameManifest, RecvTimeout, jobVars
<1>3. ASSUME NEW i \in Slots, NEW result \in Results, PullAnswered(i, result)
      PROVE  Ledger'
  <2>1. \A s : Underway(s) => Underway(s)' \/ (result = "ok" /\ s = jobs[i].file)
    BY <1>3, EndFacts DEF PullAnswered
  <2>2. store \subseteq store' /\ (result = "ok" => jobs[i].file \in store')
    BY <1>3 DEF PullAnswered
  <2>3. \A s : Covered(s) => Covered(s)'
    BY <2>1, <2>2 DEF Covered
  <2> QED
    BY <1>3, <2>3, LedgerKept DEF PullAnswered
<1>4. ASSUME NEW p \in Peers, Register(p) PROVE Ledger'
  BY <1>4, Untouched DEF Register
<1> QED
  BY <1>1, <1>2, <1>3, <1>4 DEF Event

LEMMA TimerLedger == ASSUME TypeOK, Ledger, Timers PROVE Ledger'
<1>1. ASSUME NEW i \in Slots, NEW result \in Results, PullExpires(i, result)
      PROVE  Ledger'
  <2>1. \A s : Underway(s) => Underway(s)'
    BY <1>1, EndFacts DEF PullExpires
  <2>2. \A s : Covered(s) => Covered(s)'
    BY <1>1, <2>1 DEF Covered, PullExpires
  <2> QED
    BY <1>1, <2>2, LedgerKept DEF PullExpires
<1>2. ASSUME NEW p \in Peers, Forget(p) PROVE Ledger'
  BY <1>2, Untouched DEF Forget
<1>3. ASSUME NEW s \in Segs, Prune(s) PROVE Ledger'
  <2>1. \A t : Underway(t) => Underway(t)'
    BY <1>3 DEF Prune, jobVars, Underway, Busy
  <2>2. \A t \in Wanted : Covered(t) => Covered(t)'
    BY <1>3, <2>1 DEF Covered, Prune
  <2>3. queued' \subseteq queued /\ queued \subseteq Wanted
    BY <1>3 DEF Prune, jobVars, Ledger, QueuedIsCovered
  <2> QED
    BY <1>3, <2>2, <2>3, LedgerKept DEF Prune, jobVars
<1>4. ASSUME NEW s \in Segs, CooldownEnds(s) PROVE Ledger'
  <2>1. \A t : Covered(t) => Covered(t)'
    BY <1>4 DEF CooldownEnds, Covered, Underway, Busy
  <2>2. \A t \in Segs : failed[t] # "never" => failed'[t] # "never"
    BY <1>4 DEF CooldownEnds, TypeOK
  <2>3. Wanted \subseteq Segs
    BY RangeType DEF Wanted, TypeOK
  <2> QED
    BY <1>4, <2>1, <2>2, <2>3, LedgerKept DEF CooldownEnds
<1>5. ASSUME NEW s \in Segs, NEW p \in Peers, RetryCooldownEnds(s, p) PROVE Ledger'
  BY <1>5, Untouched DEF RetryCooldownEnds
<1>6. CASE TimersDone
  BY <1>6, Untouched DEF TimersDone, jobVars
<1> QED
  BY <1>1, <1>2, <1>3, <1>4, <1>5, <1>6 DEF Timers

LEMMA ReapLedger == ASSUME TypeOK, Ledger, NEW i \in Slots, Reap(i) PROVE Ledger'
<1> DEFINE s == jobs[i].file
           p == jobs[i].peer
           result == jobs[i].result
<1>1. i \in Busy /\ s \in Segs /\ p \in Peers
  BY JobTypes DEF Reap, Finished
<1>2. Clear(i) /\ UNCHANGED <<live, store, synced>>
  BY DEF Reap
<1>3. /\ queue \in Seq(Segs) /\ Wanted \subseteq Segs
      /\ failed \in [Segs -> {"never", "cooling", "cooled"}]
  BY RangeType DEF TypeOK, Wanted
<1>4. \/ result = "ok" /\ ReapOk(i, s, p)
      \/ ReapNotReady(i, s, p)
      \/ ReapFailed(i, s, p, result)
  BY DEF Reap
<1>5. ASSUME Range(queue) \subseteq Range(queue')
      PROVE  \A t : Covered(t) => Covered(t)' \/ (t = s /\ result # "ok")
  <2>1. \A t : Underway(t) => Underway(t)' \/ (t = s /\ result # "ok")
    BY <1>1, <1>2, <1>5, ClearFacts
  <2> QED
    BY <1>2, <2>1 DEF Covered
<1>6. \A t : t \in Range(queue') => Covered(t)'
  BY DEF Covered, Underway
<1> HIDE DEF s, p, result
<1>7. CASE result = "ok" /\ ReapOk(i, s, p)
  <2>1. UNCHANGED <<queue, failed>> /\ queued' \subseteq queued
    BY <1>7 DEF ReapOk
  <2>2. \A t : Covered(t) => Covered(t)'
    BY <1>5, <1>7, <2>1
  <2> QED
    BY <1>2, <2>1, <2>2, LedgerKept
<1>8. CASE ReapNotReady(i, s, p)
  <2>1. UNCHANGED <<queued, failed>> /\ Range(queue') = Range(queue) \cup {s}
    BY <1>1, <1>3, <1>8, AppendFacts DEF ReapNotReady
  <2>2. \A t : Covered(t) => Covered(t)'
    BY <1>5, <1>6, <2>1
  <2> QED
    BY <1>2, <2>1, <2>2, LedgerKept
<1>9. CASE ReapFailed(i, s, p, result)
  <2>1. CASE known' \ tried[s] # {}
    <3>1. queue' = <<s>> \o queue /\ UNCHANGED <<queued, failed>>
      BY <1>9, <2>1 DEF ReapFailed
    <3> DEFINE front == <<s>>
    <3>2. front \in Seq(Segs) /\ Range(front) = {s} /\ queue' = front \o queue
      BY <1>1, <3>1, SingleFacts
    <3> HIDE DEF front
    <3>3. Range(front \o queue) = Range(front) \cup Range(queue)
      BY <1>3, <3>2, ConcatFacts
    <3>4. Range(queue') = {s} \cup Range(queue)
      BY <3>2, <3>3
    <3>5. \A t : Covered(t) => Covered(t)'
      BY <1>5, <1>6, <3>4
    <3> QED
      BY <1>2, <3>1, <3>5, LedgerKept
  <2>2. CASE known' \ tried[s] = {}
    <3>1. /\ queued' = queued \ {s} /\ queue' = queue
          /\ failed' = [failed EXCEPT ![s] = "cooling"]
      BY <1>9, <2>2 DEF ReapFailed
    <3>2. \A t : Covered(t) => Covered(t)' \/ t = s
      BY <1>5, <3>1
    <3>3. failed'[s] # "never" /\ \A t \in Wanted : t # s => failed'[t] = failed[t]
      BY <1>1, <1>3, <3>1
    <3> QED
      BY <1>2, <3>1, <3>2, <3>3, LedgerKept
  <2> QED
    BY <2>1, <2>2
<1> QED
  BY <1>4, <1>7, <1>8, <1>9

LEMMA StepLedger == ASSUME TypeOK, Ledger, [Next]_vars PROVE Ledger'
<1>1. CASE Fill
  <2>1. CASE FillDone
    BY <2>1, Untouched DEF FillDone, jobVars
  <2>2. ASSUME Busy # Slots, queue # <<>>, NEW p \in Peers, StartPull(Head(queue), p)
        PROVE  Ledger'
    <3>1. \A s : Underway(s) => Underway(s)'
      BY <2>2, PullUnderway
    <3>2. \A s : Covered(s) => Covered(s)'
      BY <2>2, <3>1 DEF Covered, StartPull
    <3> QED
      BY <2>2, <3>2, LedgerKept DEF StartPull
  <2> QED
    BY <1>1, <2>1, <2>2, FillFacts
<1>2. CASE ScheduleJobs
  <2>1. CASE ReapDone
    BY <2>1, Untouched DEF ReapDone, jobVars
  <2> QED
    BY <1>1, <1>2, <2>1, ReapLedger DEF ScheduleJobs
<1>3. CASE Restart
  BY <1>3 DEF Restart, Ledger, QueuedIsCovered, ListedIsCovered
<1>4. CASE UNCHANGED vars
  BY <1>4, Untouched DEF vars, jobVars
<1> QED
  BY <1>2, <1>3, <1>4, EventLedger, TimerLedger DEF Next

LEMMA LedgerInvariance == Spec => [](TypeOK /\ Ledger)
<1>1. Init => TypeOK /\ Ledger
  BY InitTypes, InitLedger
<1>2. TypeOK /\ Ledger /\ [Next]_vars => (TypeOK /\ Ledger)'
  BY StepTypeOK, StepLedger
<1> QED
  BY <1>1, <1>2, PTL DEF Spec

(* No segment of a synchronised manifest falls through the cracks, whatever *)
(* the order of manifests, results, cooldowns and prunings (sync_queue, the *)
(* reaping in schedule_jobs).                                               *)
THEOREM NoneForgotten == Spec => []NothingForgotten
<1>1. TypeOK /\ Ledger => NothingForgotten
  BY DEF Ledger, ListedIsCovered, NothingForgotten, Covered, Underway, InFlight
<1> QED
  BY <1>1, LedgerInvariance, PTL

-----------------------------------------------------------------------------
(* Each segment is pulled once at a time, as long as the playlist rolls on. *)

(* The segments have an order in which a playlist never lists one that it   *)
(* has dropped or passed over, and is never empty again.                    *)
RollsOn(rank) ==
    \A step \in ManifestSteps :
        LET old == Range(step[1])
            new == Range(step[2])
        IN  /\ new # {}
            /\ \A s \in old, t \in new \ old : rank[s] < rank[t]
            /\ \A s \in old \ new, t \in old \cap new : rank[s] < rank[t]

Behind(rank, s) == Wanted # {} /\ \A t \in Wanted : rank[s] < rank[t]

(* What is waiting or being pulled but is not in `queued` has rolled out:  *)
(* sync_queue, which looks only at `queued`, will not meet it again.       *)
OneInv(rank) ==
    /\ OnePullEach
    /\ \A s \in Range(queue) \cup InFlight : s \in queued \/ Behind(rank, s)

LEMMA InitOne == ASSUME NEW rank, Init PROVE OneInv(rank)
<1>1. Busy = {} /\ InFlight = {}
  BY DEF Init, Busy, InFlight
<1>2. queue = <<>> /\ Range(queue) = {} /\ IsInjective(queue)
  BY DEF Init, Range, IsInjective
<1> QED
  BY <1>1, <1>2 DEF OneInv, OnePullEach

(* The slots and the queue hold the same segments as before. *)
LEMMA SameFiles ==
    ASSUME NEW rank, OneInv(rank), UNCHANGED <<live, queue, queued>>,
           Busy' = Busy, \A i \in Busy : jobs'[i].file = jobs[i].file
    PROVE  OneInv(rank)'
<1>1. InFlight' = InFlight
  BY DEF InFlight
<1>2. \A s : Behind(rank, s)' = Behind(rank, s)
  BY DEF Behind, Wanted
<1> QED
  BY <1>1, <1>2 DEF OneInv, OnePullEach

LEMMA SameJobs ==
    ASSUME NEW rank, OneInv(rank), UNCHANGED <<live, queue, queued, jobs>>
    PROVE  OneInv(rank)'
  BY SameFiles DEF Busy

LEMMA EndFiles ==
    ASSUME TypeOK, NEW i \in Pending, NEW result \in AllResults, End(i, result)
    PROVE  Busy' = Busy /\ \A j \in Busy : jobs'[j].file = jobs[j].file
<1>1. i \in Busy /\ i \in Slots /\ jobs[i] \in Jobs
  BY JobTypes DEF Pending
<1>2. jobs' = [jobs EXCEPT ![i].result = result] /\ jobs \in [Slots -> Jobs \cup {Free}]
  BY DEF End, TypeOK
<1>3. jobs'[i] \in Jobs /\ jobs'[i].file = jobs[i].file
  BY <1>1, <1>2 DEF Jobs
<1>4. \A j \in Slots \ {i} : jobs'[j] = jobs[j]
  BY <1>2
<1> QED
  BY <1>1, <1>3, <1>4, JobIsNotFree DEF Busy

LEMMA ClearFiles ==
    ASSUME TypeOK, NEW i \in Busy, Clear(i)
    PROVE  Busy' = Busy \ {i} /\ \A j \in Busy' : jobs'[j] = jobs[j]
  BY DEF Clear, TypeOK, Busy

(* A job leaves its slot: back to the queue, or off the books. *)
LEMMA ReapOne ==
    ASSUME TypeOK, NEW rank, OneInv(rank), NEW i \in Busy, Clear(i), live' = live,
           NEW s, s = jobs[i].file, IsInjective(queue'),
           \/ Range(queue') = Range(queue) \cup {s} /\ queued' = queued
           \/ Range(queue') = Range(queue) /\ queued \ {s} \subseteq queued'
    PROVE  OneInv(rank)'
<1>1. Busy' = Busy \ {i} /\ \A j \in Busy' : jobs'[j] = jobs[j]
  BY ClearFiles
<1>2. s \in InFlight
  BY DEF InFlight
<1>3. InFlight' = {jobs[j].file : j \in Busy \ {i}}
  BY <1>1 DEF InFlight
<1>4. InFlight' \subseteq InFlight /\ s \notin InFlight' /\ s \notin Range(queue)
  BY <1>2, <1>3 DEF InFlight, OneInv, OnePullEach
<1>5. \A t : Behind(rank, t)' = Behind(rank, t)
  BY DEF Behind, Wanted
<1>6. \A t \in Range(queue') \cup InFlight' : t \in queued' \/ Behind(rank, t)'
  BY <1>2, <1>4, <1>5 DEF OneInv
<1>7. \A j, k \in Busy' : j # k => jobs'[j].file # jobs'[k].file
  BY <1>1 DEF OneInv, OnePullEach
<1>8. Range(queue') \cap InFlight' = {}
  BY <1>4 DEF OneInv, OnePullEach
<1> QED
  BY <1>6, <1>7, <1>8 DEF OneInv, OnePullEach

LEMMA ReapingOne ==
    ASSUME TypeOK, NEW rank, OneInv(rank), NEW i \in Slots, Reap(i)
    PROVE  OneInv(rank)'
<1>1. PICK s, p, result :
          /\ s = jobs[i].file /\ p = jobs[i].peer /\ result = jobs[i].result
          /\ \/ ReapOk(i, s, p) \/ ReapNotReady(i, s, p) \/ ReapFailed(i, s, p, result)
  BY DEF Reap
<1>2. i \in Busy /\ s \in Segs /\ Clear(i) /\ live' = live
  BY <1>1, JobTypes DEF Reap, Finished
<1>3. queue \in Seq(Segs) /\ IsInjective(queue)
  BY DEF TypeOK, OneInv, OnePullEach
<1>4. s \in InFlight /\ s \notin Range(queue)
  BY <1>1, <1>2 DEF InFlight, OneInv, OnePullEach
<1>5. CASE queue' = queue /\ queued' = queued \ {s}
  BY <1>1, <1>2, <1>3, <1>5, ReapOne
<1>6. CASE queue' = Append(queue, s) /\ queued' = queued
  <2>1. Range(queue') = Range(queue) \cup {s} /\ IsInjective(queue')
    BY <1>2, <1>3, <1>4, <1>6, AppendFacts
  <2> QED
    BY <1>1, <1>2, <1>6, <2>1, ReapOne
<1>7. CASE queue' = <<s>> \o queue /\ queued' = queued
  <2> DEFINE front == <<s>>
  <2>1. /\ front \in Seq(Segs) /\ Range(front) = {s} /\ IsInjective(front)
        /\ queue' = front \o queue
    BY <1>2, <1>7, SingleFacts
  <2> HIDE DEF front
  <2>2. /\ Range(front \o queue) = Range(front) \cup Range(queue)
        /\ Range(front) \cap Range(queue) = {} => IsInjective(front \o queue)
    BY <1>3, <2>1, ConcatFacts
  <2>3. Range(queue') = Range(queue) \cup {s} /\ IsInjective(queue')
    BY <1>4, <2>1, <2>2
  <2> QED
    BY <1>1, <1>2, <1>7, <2>3, ReapOne
<1> QED
  BY <1>1, <1>5, <1>6, <1>7 DEF ReapOk, ReapNotReady, ReapFailed

LEMMA PullOne ==
    ASSUME TypeOK, NEW rank, OneInv(rank), Busy # Slots, queue # <<>>,
           NEW p \in Peers, StartPull(Head(queue), p)
    PROVE  OneInv(rank)'
<1> DEFINE job == [file |-> Head(queue), peer |-> p, result |-> "pending"]
<1>1. PICK i \in Slots \ Busy : jobs' = [jobs EXCEPT ![i] = job] /\ job \in Jobs
  BY PullFacts
<1>2. jobs \in [Slots -> Jobs \cup {Free}] /\ queue \in Seq(Segs) /\ IsInjective(queue)
  BY DEF TypeOK, OneInv, OnePullEach
<1>3. jobs'[i].file = Head(queue) /\ jobs'[i] # Free
  BY <1>1, <1>2, JobIsNotFree
<1>4. \A j \in Slots \ {i} : jobs'[j] = jobs[j]
  BY <1>1, <1>2
<1>5. Busy' = Busy \cup {i} /\ \A j \in Busy : jobs'[j] = jobs[j]
  BY <1>1, <1>3, <1>4 DEF Busy
<1>6. InFlight' = InFlight \cup {Head(queue)}
  BY <1>3, <1>5 DEF InFlight
<1>7. /\ queue' = Tail(queue) /\ UNCHANGED <<live, queued>>
      /\ Range(queue) = {Head(queue)} \cup Range(queue')
      /\ IsInjective(queue') /\ Head(queue) \notin Range(queue')
  BY <1>2, TailFacts DEF StartPull
<1>8. Head(queue) \notin InFlight
  BY <1>7 DEF OneInv, OnePullEach
<1>9. \A j, k \in Busy' : j # k => jobs'[j].file # jobs'[k].file
  BY <1>3, <1>5, <1>8 DEF InFlight, OneInv, OnePullEach
<1>10. Range(queue') \cap InFlight' = {}
  BY <1>6, <1>7 DEF OneInv, OnePullEach
<1>11. \A s : Behind(rank, s)' = Behind(rank, s)
  BY <1>7 DEF Behind, Wanted
<1>12. \A s \in Range(queue') \cup InFlight' : s \in queued' \/ Behind(rank, s)'
  BY <1>6, <1>7, <1>11 DEF OneInv
<1> QED
  BY <1>7, <1>9, <1>10, <1>12 DEF OneInv, OnePullEach

(* The playlist moves on: what leaves it is behind all that stays. *)
LEMMA RollsForward ==
    ASSUME TypeOK, NEW rank, RollsOn(rank), NEW m, NewManifest(m)
    PROVE  /\ Range(m) # {}
           /\ \A s \in Wanted, t \in Range(m) \ Wanted : rank[s] < rank[t]
           /\ \A s \in Wanted \ Range(m), t \in Wanted \cap Range(m) : rank[s] < rank[t]
<1>1. <<live, m>> \in ManifestSteps
  BY DEF NewManifest
<1> QED
  BY <1>1 DEF RollsOn, Wanted

LEMMA SegmentSets ==
    ASSUME TypeOK, Ledger, NEW m \in Seq(Segs)
    PROVE  /\ queued \subseteq Wanted /\ Wanted \subseteq Segs /\ Range(m) \subseteq Segs
           /\ Range(queue) \cup InFlight \subseteq Segs
<1>1. queued \subseteq Wanted /\ Wanted \subseteq Segs /\ Range(m) \subseteq Segs
  BY RangeType DEF Ledger, QueuedIsCovered, Wanted, TypeOK
<1>2. Range(queue) \subseteq Segs
  BY RangeType DEF TypeOK
<1>3. InFlight \subseteq Segs
  BY JobTypes DEF InFlight
<1> QED
  BY <1>1, <1>2, <1>3

(* `queued` knows of every job whose segment a new manifest lists. *)
LEMMA ListedJobsAreQueued ==
    ASSUME TypeOK, Ledger, NEW rank \in [Segs -> Nat], RollsOn(rank), OneInv(rank),
           NEW m \in Seq(Segs), NewManifest(m)
    PROVE  \A s \in Range(queue) \cup InFlight : s \in Range(m) => s \in queued
<1> SUFFICES ASSUME NEW s \in Range(queue) \cup InFlight, s \in Range(m), Behind(rank, s)
             PROVE  FALSE
  BY DEF OneInv
<1>1. \A t \in Segs : rank[t] \in Nat
  OBVIOUS
<1>2. s \in Segs /\ Wanted \subseteq Segs
  BY SegmentSets
<1>3. s \notin Wanted
  BY <1>1, <1>2 DEF Behind
<1>4. PICK t \in Wanted : rank[s] < rank[t]
  BY DEF Behind
<1>5. rank[t] < rank[s]
  BY <1>3, RollsForward
<1> QED
  BY <1>1, <1>2, <1>4, <1>5

(* A new manifest: what it adds is in nobody's hands. *)
LEMMA ManifestOne ==
    ASSUME TypeOK, Ledger, NEW rank \in [Segs -> Nat], RollsOn(rank), OneInv(rank),
           NEW m \in Seq(Segs), IsInjective(m), NewManifest(m)
    PROVE  OneInv(rank)'
<1>1. /\ Range(queue') = New(m) \cup (Range(queue) \cap Range(m))
      /\ queued' = (queued \cap Range(m)) \cup New(m)
      /\ New(m) \cap Range(queue) = {} => IsInjective(queue')
  BY SyncFacts DEF NewManifest, TypeOK, OneInv, OnePullEach
<1>2. Wanted' = Range(m) /\ jobs' = jobs /\ Busy' = Busy /\ InFlight' = InFlight
  BY DEF NewManifest, Wanted, Busy, InFlight
<1>3. /\ Range(m) # {}
      /\ \A s \in Wanted, t \in Range(m) \ Wanted : rank[s] < rank[t]
      /\ \A s \in Wanted \ Range(m), t \in Wanted \cap Range(m) : rank[s] < rank[t]
  BY RollsForward
<1>4. /\ queued \subseteq Wanted /\ Wanted \subseteq Segs /\ Range(m) \subseteq Segs
      /\ Range(queue) \cup InFlight \subseteq Segs
  BY SegmentSets
<1>5. \A s \in Segs : rank[s] \in Nat
  OBVIOUS
<1>6. \A s \in Range(queue) \cup InFlight : s \in Range(m) => s \in queued
  BY ListedJobsAreQueued
<1>7. ASSUME NEW s \in InFlight, s \notin Range(m)
      PROVE  \A t \in Range(m) : rank[s] < rank[t]
  <2> SUFFICES ASSUME NEW t \in Range(m) PROVE rank[s] < rank[t]
    OBVIOUS
  <2>1. CASE s \in queued
    BY <1>3, <1>4, <1>7, <2>1
  <2>2. CASE Behind(rank, s)
    <3>1. CASE t \in Wanted
      BY <2>2, <3>1 DEF Behind
    <3>2. CASE t \notin Wanted
      <4>1. PICK u \in Wanted : rank[s] < rank[u]
        BY <2>2 DEF Behind
      <4>2. rank[u] < rank[t]
        BY <1>3, <3>2
      <4> QED
        BY <1>4, <1>5, <4>1, <4>2
    <3> QED
      BY <3>1, <3>2
  <2> QED
    BY <2>1, <2>2 DEF OneInv
<1>8. New(m) \cap (Range(queue) \cup InFlight) = {}
  BY <1>6 DEF New
<1>9. Range(queue') \cap InFlight' = {} /\ IsInjective(queue')
  BY <1>1, <1>2, <1>8 DEF OneInv, OnePullEach
<1>10. \A s \in Range(queue') : s \in queued'
  BY <1>1, <1>6
<1>11. \A s \in InFlight' : s \in queued' \/ Behind(rank, s)'
  BY <1>1, <1>2, <1>3, <1>6, <1>7 DEF Behind
<1>12. \A i, j \in Busy' : i # j => jobs'[i].file # jobs'[j].file
  BY <1>2 DEF OneInv, OnePullEach
<1> QED
  BY <1>9, <1>10, <1>11, <1>12 DEF OneInv, OnePullEach

LEMMA StepOne ==
    ASSUME TypeOK, Ledger, NEW rank \in [Segs -> Nat], RollsOn(rank), OneInv(rank),
           [Next]_vars
    PROVE  OneInv(rank)'
<1>1. CASE Event
  <2>1. ASSUME NEW step \in ManifestSteps, NewManifest(step[2]) PROVE OneInv(rank)'
    BY <2>1, StepTypes, ManifestOne
  <2>2. CASE SameManifest \/ RecvTimeout \/ \E p \in Peers : Register(p)
    BY <2>2, SameJobs DEF SameManifest, RecvTimeout, Register, jobVars
  <2>3. ASSUME NEW i \in Slots, NEW result \in Results, PullAnswered(i, result)
        PROVE  OneInv(rank)'
    <3>1. Busy' = Busy /\ \A j \in Busy : jobs'[j].file = jobs[j].file
      BY <2>3, EndFiles DEF PullAnswered
    <3> QED
      BY <2>3, <3>1, SameFiles DEF PullAnswered
  <2> QED
    BY <1>1, <2>1, <2>2, <2>3 DEF Event
<1>2. CASE Timers
  <2>1. ASSUME NEW i \in Slots, NEW result \in Results, PullExpires(i, result)
        PROVE  OneInv(rank)'
    <3>1. Busy' = Busy /\ \A j \in Busy : jobs'[j].file = jobs[j].file
      BY <2>1, EndFiles DEF PullExpires
    <3> QED
      BY <2>1, <3>1, SameFiles DEF PullExpires
  <2>2. CASE TimersDone \/ (\E p \in Peers : Forget(p))
             \/ (\E s \in Segs : Prune(s) \/ CooldownEnds(s))
             \/ (\E s \in Segs, p \in Peers : RetryCooldownEnds(s, p))
    BY <2>2, SameJobs
       DEF TimersDone, Forget, Prune, CooldownEnds, RetryCooldownEnds, jobVars
  <2> QED
    BY <1>2, <2>1, <2>2 DEF Timers
<1>3. CASE Fill
  <2>1. CASE FillDone
    BY <2>1, SameJobs DEF FillDone, jobVars
  <2> QED
    BY <1>3, <2>1, FillFacts, PullOne
<1>4. CASE ScheduleJobs
  <2>1. CASE ReapDone
    BY <2>1, SameJobs DEF ReapDone, jobVars
  <2> QED
    BY <1>3, <1>4, <2>1, ReapingOne DEF ScheduleJobs
<1>5. CASE Restart
  <2>1. Busy' = {} /\ InFlight' = {}
    BY <1>5 DEF Restart, Busy, InFlight
  <2>2. Range(queue') = {} /\ IsInjective(queue')
    BY <1>5 DEF Restart, Range, IsInjective
  <2> QED
    BY <2>1, <2>2 DEF OneInv, OnePullEach
<1>6. CASE UNCHANGED vars
  BY <1>6, SameJobs DEF vars, jobVars
<1> QED
  BY <1>1, <1>2, <1>4, <1>5, <1>6 DEF Next

(* A segment is queued or pulled at most once at a time, on playlists that  *)
(* roll on (sync_queue, schedule_jobs).  On one that goes back `queued` has *)
(* lost a segment that is still being pulled, and it is pulled again.       *)
THEOREM OnePullAtATime ==
    ASSUME NEW CONSTANT rank \in [Segs -> Nat], RollsOn(rank)
    PROVE  Spec => []OnePullEach
<1>1. Init => OneInv(rank)
  BY InitOne
<1>2. TypeOK /\ Ledger /\ OneInv(rank) /\ [Next]_vars => OneInv(rank)'
  BY StepOne
<1>3. OneInv(rank) => OnePullEach
  BY DEF OneInv
<1> QED
  BY <1>1, <1>2, <1>3, LedgerInvariance, PTL DEF Spec

-----------------------------------------------------------------------------
(* What is stored is not pulled again, as long as the playlist rolls on.    *)

(* Neither the queue nor a job that has not succeeded has a stored segment. *)
Unstored ==
    /\ store \cap Range(queue) = {}
    /\ \A i \in Busy : jobs[i].result # "ok" => jobs[i].file \notin store

LEMMA InitUnstored == Init => Unstored
  BY DEF Init, Unstored, Busy, Range

(* The store loses files at most; queue and slots are as before. *)
LEMMA SameQueueAndJobs ==
    ASSUME Unstored, UNCHANGED <<queue, jobs>>, store' \subseteq store
    PROVE  Unstored'
  BY DEF Unstored, Busy

(* A download gets its result; its file is stored if that is "ok". *)
LEMMA EndUnstored ==
    ASSUME TypeOK, OnePullEach, Unstored, queue' = queue,
           NEW i \in Pending, NEW result \in AllResults, End(i, result),
           \/ store' = store
           \/ result = "ok" /\ store' = store \cup {jobs[i].file}
    PROVE  Unstored'
<1>1. Busy' = Busy /\ \A j \in Busy : jobs'[j].file = jobs[j].file
  BY EndFiles
<1>2. i \in Busy /\ i \in Slots /\ jobs[i] \in Jobs /\ jobs[i].result = "pending"
  BY JobTypes DEF Pending
<1>3. jobs'[i].result = result /\ \A j \in Busy \ {i} : jobs'[j] = jobs[j]
  BY <1>2 DEF End, TypeOK, Busy, Jobs
<1>4. jobs[i].file \notin Range(queue) /\ jobs[i].file \notin store
  BY <1>2 DEF OnePullEach, InFlight, Unstored
<1>5. store' \cap Range(queue') = {}
  BY <1>4 DEF Unstored
<1>6. ASSUME NEW j \in Busy, jobs'[j].result # "ok"
      PROVE  jobs'[j].file \notin store'
  <2>1. CASE j = i
    BY <1>1, <1>2, <1>3, <1>4, <1>6, <2>1
  <2>2. CASE j # i
    <3>1. jobs[j].file # jobs[i].file
      BY <1>2, <2>2 DEF OnePullEach
    <3> QED
      BY <1>3, <1>6, <2>2, <3>1 DEF Unstored
  <2> QED
    BY <2>1, <2>2
<1> QED
  BY <1>1, <1>5, <1>6 DEF Unstored

(* Only a job that has failed goes back to the queue. *)
LEMMA ReapUnstored ==
    ASSUME TypeOK, Unstored, NEW i \in Slots, Reap(i)
    PROVE  Unstored'
<1>1. PICK s, p, result :
          /\ s = jobs[i].file /\ p = jobs[i].peer /\ result = jobs[i].result
          /\ \/ result = "ok" /\ ReapOk(i, s, p)
             \/ result # "ok" /\ (ReapNotReady(i, s, p) \/ ReapFailed(i, s, p, result))
  BY DEF Reap
<1>2. i \in Busy /\ s \in Segs /\ Clear(i) /\ store' = store /\ queue \in Seq(Segs)
  BY <1>1, JobTypes DEF Reap, Finished, TypeOK
<1>3. Busy' = Busy \ {i} /\ \A j \in Busy' : jobs'[j] = jobs[j]
  BY <1>2, ClearFiles
<1>4. \A j \in Busy' : jobs'[j].result # "ok" => jobs'[j].file \notin store'
  BY <1>2, <1>3 DEF Unstored
<1>5. CASE queue' = queue
  BY <1>2, <1>4, <1>5 DEF Unstored
<1>6. CASE result # "ok" /\ queue' = Append(queue, s)
  <2>1. Range(queue') = Range(queue) \cup {s}
    BY <1>2, <1>6, AppendFacts
  <2> QED
    BY <1>1, <1>2, <1>4, <1>6, <2>1 DEF Unstored
<1>7. CASE result # "ok" /\ queue' = <<s>> \o queue
  <2> DEFINE front == <<s>>
  <2>1. front \in Seq(Segs) /\ Range(front) = {s} /\ queue' = front \o queue
    BY <1>2, <1>7, SingleFacts
  <2> HIDE DEF front
  <2>2. Range(front \o queue) = Range(front) \cup Range(queue)
    BY <1>2, <2>1, ConcatFacts
  <2> QED
    BY <1>1, <1>2, <1>4, <1>7, <2>1, <2>2 DEF Unstored
<1> QED
  BY <1>1, <1>5, <1>6, <1>7 DEF ReapOk, ReapNotReady, ReapFailed

LEMMA PullUnstored ==
    ASSUME TypeOK, Unstored, Busy # Slots, queue # <<>>,
           NEW p \in Peers, StartPull(Head(queue), p)
    PROVE  Unstored'
<1> DEFINE job == [file |-> Head(queue), peer |-> p, result |-> "pending"]
<1>1. PICK i \in Slots \ Busy : jobs' = [jobs EXCEPT ![i] = job] /\ job \in Jobs
  BY PullFacts
<1>2. jobs \in [Slots -> Jobs \cup {Free}] /\ queue \in Seq(Segs)
  BY DEF TypeOK
<1>3. jobs'[i].file = Head(queue) /\ \A j \in Slots \ {i} : jobs'[j] = jobs[j]
  BY <1>1, <1>2
<1>4. \A j \in Busy' : j = i \/ (j \in Busy /\ jobs'[j] = jobs[j])
  BY <1>3 DEF Busy
<1>5. store' = store /\ Range(queue) = {Head(queue)} \cup Range(queue')
  BY <1>2, TailFacts DEF StartPull
<1> QED
  BY <1>3, <1>4, <1>5 DEF Unstored

LEMMA StepUnstored ==
    ASSUME TypeOK, OnePullEach, Unstored, [Next]_vars
    PROVE  Unstored'
<1>1. CASE Event
  <2>1. ASSUME NEW step \in ManifestSteps, NewManifest(step[2]) PROVE Unstored'
    <3>1. Range(queue') = New(step[2]) \cup (Range(queue) \cap Range(step[2]))
      BY <2>1, StepTypes, SyncFacts DEF NewManifest, TypeOK
    <3> QED
      BY <2>1, <3>1 DEF NewManifest, New, Unstored, Busy
  <2>2. CASE SameManifest \/ RecvTimeout \/ \E p \in Peers : Register(p)
    BY <2>2, SameQueueAndJobs DEF SameManifest, RecvTimeout, Register, jobVars
  <2>3. ASSUME NEW i \in Slots, NEW result \in Results, PullAnswered(i, result)
        PROVE  Unstored'
    BY <2>3, EndUnstored DEF PullAnswered, AllResults
  <2> QED
    BY <1>1, <2>1, <2>2, <2>3 DEF Event
<1>2. CASE Timers
  <2>1. ASSUME NEW i \in Slots, NEW result \in Results, PullExpires(i, result)
        PROVE  Unstored'
    BY <2>1, EndUnstored DEF PullExpires, AllResults
  <2>2. CASE TimersDone \/ (\E p \in Peers : Forget(p))
             \/ (\E s \in Segs : Prune(s) \/ CooldownEnds(s))
             \/ (\E s \in Segs, p \in Peers : RetryCooldownEnds(s, p))
    BY <2>2, SameQueueAndJobs
       DEF TimersDone, Forget, Prune, CooldownEnds, RetryCooldownEnds, jobVars
  <2> QED
    BY <1>2, <2>1, <2>2 DEF Timers
<1>3. CASE ScheduleJobs
  <2>1. CASE ReapDone \/ FillDone
    BY <2>1, SameQueueAndJobs DEF ReapDone, FillDone, jobVars
  <2>2. CASE Fill
    BY <2>1, <2>2, FillFacts, PullUnstored
  <2> QED
    BY <1>3, <2>1, <2>2, ReapUnstored DEF ScheduleJobs
<1>4. CASE Restart
  BY <1>4 DEF Restart, Unstored, Busy, Range
<1>5. CASE UNCHANGED vars
  BY <1>5, SameQueueAndJobs DEF vars, jobVars
<1> QED
  BY <1>1, <1>2, <1>3, <1>4, <1>5 DEF Next

(* A stored segment is neither queued nor pulled, on playlists that roll on *)
(* (sync_queue, schedule_jobs): whatever failures put a job back, nobody    *)
(* stores its file meanwhile, as nobody else pulls it (OnePullAtATime).     *)
THEOREM StoredOnceOnly ==
    ASSUME NEW CONSTANT rank \in [Segs -> Nat], RollsOn(rank)
    PROVE  Spec => []NoRepeatedPull
<1>1. Spec => []OnePullEach
  BY OnePullAtATime
<1>2. TypeOK /\ OnePullEach /\ Unstored /\ [Next]_vars => Unstored'
  BY StepUnstored
<1>3. Unstored => NoRepeatedPull
  BY DEF Unstored, NoRepeatedPull, Pending
<1> QED
  BY <1>1, <1>2, <1>3, InitUnstored, SchedulerTypes, PTL DEF Spec

-----------------------------------------------------------------------------
(* The scheduler implements Replication, as long as the playlist rolls on.  *)

LEMMA SameReplica ==
    ASSUME UNCHANGED <<live, store, queue, jobs, failed>>
    PROVE  UNCHANGED Replica!vars
  BY DEF Replica!vars, Wanted, Pulled, Busy, GivenUp

(* A download is over when its file is saved, and not when it fails. *)
LEMMA EndPulled ==
    ASSUME TypeOK, OnePullEach, NEW i \in Pending, NEW result \in AllResults,
           End(i, result)
    PROVE  /\ jobs[i].file \in Pulled \cap Segs
           /\ result = "ok" => Pulled' = Pulled \ {jobs[i].file}
           /\ result # "ok" => Pulled' = Pulled
<1>1. Busy' = Busy /\ \A j \in Busy : jobs'[j].file = jobs[j].file
  BY EndFiles
<1>2. i \in Busy /\ i \in Slots /\ jobs[i] \in Jobs /\ jobs[i].result = "pending"
  BY JobTypes DEF Pending
<1>3. jobs'[i].result = result /\ \A j \in Busy \ {i} : jobs'[j] = jobs[j]
  BY <1>2 DEF End, TypeOK, Busy, Jobs
<1>4. Pulled' = {jobs[j].file : j \in {k \in Busy : jobs'[k].result # "ok"}}
  BY <1>1 DEF Pulled
<1>5. \A j \in Busy \ {i} : jobs[j].file # jobs[i].file
  BY <1>2 DEF OnePullEach
<1>6. jobs[i].file \in Pulled \cap Segs
  BY <1>2, JobTypes DEF Pulled
<1>7. ASSUME result = "ok" PROVE Pulled' = Pulled \ {jobs[i].file}
  <2>1. {k \in Busy : jobs'[k].result # "ok"} = {k \in Busy : jobs[k].result # "ok"} \ {i}
    BY <1>3, <1>7
  <2> QED
    BY <1>4, <1>5, <2>1 DEF Pulled
<1>8. ASSUME result # "ok" PROVE Pulled' = Pulled
  <2>1. {k \in Busy : jobs'[k].result # "ok"} = {k \in Busy : jobs[k].result # "ok"}
    BY <1>2, <1>3, <1>8
  <2> QED
    BY <1>4, <2>1 DEF Pulled
<1> QED
  BY <1>6, <1>7, <1>8

(* A slot that is cleared held a failed download, or one that was over. *)
LEMMA ClearPulled ==
    ASSUME TypeOK, OnePullEach, NEW i \in Busy, Clear(i)
    PROVE  /\ jobs[i].result # "ok" => /\ jobs[i].file \in Pulled \cap Segs
                                      /\ Pulled' = Pulled \ {jobs[i].file}
           /\ jobs[i].result = "ok" => Pulled' = Pulled
<1>1. Busy' = Busy \ {i} /\ \A j \in Busy' : jobs'[j] = jobs[j]
  BY ClearFiles
<1>2. Pulled' = {jobs[j].file : j \in {k \in Busy : jobs[k].result # "ok"} \ {i}}
  <2>1. {k \in Busy' : jobs'[k].result # "ok"} = {k \in Busy : jobs[k].result # "ok"} \ {i}
    BY <1>1
  <2>2. \A k \in {k \in Busy : jobs[k].result # "ok"} \ {i} : jobs'[k].file = jobs[k].file
    BY <1>1
  <2> QED
    BY <2>1, <2>2 DEF Pulled
<1>3. \A j \in Busy \ {i} : jobs[j].file # jobs[i].file
  BY DEF OnePullEach
<1> QED
  BY <1>2, <1>3, JobTypes DEF Pulled

(* The job at the front of the queue takes a free slot. *)
LEMMA StartReplica ==
    ASSUME TypeOK, OnePullEach, Busy # Slots, queue # <<>>,
           NEW p \in Peers, StartPull(Head(queue), p)
    PROVE  Replica!Next
<1> DEFINE s == Head(queue)
           job == [file |-> s, peer |-> p, result |-> "pending"]
<1>1. PICK i \in Slots \ Busy : jobs' = [jobs EXCEPT ![i] = job] /\ job \in Jobs
  BY PullFacts
<1>2. jobs \in [Slots -> Jobs \cup {Free}] /\ queue \in Seq(Segs) /\ IsInjective(queue)
  BY DEF TypeOK, OnePullEach
<1>3. jobs'[i].file = s /\ jobs'[i].result = "pending" /\ jobs'[i] # Free
  BY <1>1, <1>2, JobIsNotFree
<1>4. \A j \in Slots \ {i} : jobs'[j] = jobs[j]
  BY <1>1, <1>2
<1>5. Busy' = Busy \cup {i} /\ \A j \in Busy : jobs'[j] = jobs[j]
  BY <1>1, <1>3, <1>4 DEF Busy
<1>6. Pulled' = Pulled \cup {s}
  <2>1. {j \in Busy' : jobs'[j].result # "ok"} = {j \in Busy : jobs[j].result # "ok"} \cup {i}
    BY <1>3, <1>5
  <2>2. \A j \in Busy : jobs'[j].file = jobs[j].file
    BY <1>5
  <2>3. Pulled' = {jobs'[j].file : j \in {k \in Busy : jobs[k].result # "ok"} \cup {i}}
    BY <2>1 DEF Pulled
  <2>4. \A t \in Pulled' : t \in Pulled \/ t = s
    BY <1>3, <2>2, <2>3 DEF Pulled
  <2>5. \A t \in Pulled : t \in Pulled'
    BY <2>2, <2>3 DEF Pulled
  <2>6. s \in Pulled'
    BY <1>3, <2>3
  <2> HIDE DEF s
  <2> QED
    BY <2>4, <2>5, <2>6
<1>7. /\ s \in Segs /\ s \in Range(queue) /\ Range(queue') = Range(queue) \ {s}
      /\ UNCHANGED <<live, store, failed>>
  BY <1>2, TailFacts DEF StartPull
<1>8. Wanted' = Wanted /\ GivenUp' = GivenUp
  BY <1>7 DEF Wanted, GivenUp
<1> HIDE DEF s
<1> QED
  BY <1>6, <1>7, <1>8 DEF Replica!Next, Replica!Start

LEMMA ManifestReplica ==
    ASSUME TypeOK, Ledger, NEW rank \in [Segs -> Nat], RollsOn(rank), OneInv(rank),
           NEW m \in Seq(Segs), NewManifest(m)
    PROVE  Replica!Next
<1>1. /\ Range(queue') = New(m) \cup (Range(queue) \cap Range(m))
      /\ UNCHANGED <<store, jobs, failed>>
  BY SyncFacts DEF NewManifest, TypeOK
<1>2. Wanted' = Range(m) /\ Pulled' = Pulled /\ GivenUp' = GivenUp
  BY DEF NewManifest, Wanted, Pulled, Busy, GivenUp
<1>3. Range(m) \subseteq Segs /\ New(m) \subseteq Range(m)
  BY SegmentSets DEF New
<1>4. New(m) \cap (store \cup Range(queue) \cup Pulled) = {}
  BY ListedJobsAreQueued DEF New, Pulled, InFlight
<1>5. ASSUME NEW s \in Range(m), s \notin store, s \notin Range(queue), s \notin Pulled,
             s \notin GivenUp
      PROVE  s \in New(m)
  <2>1. s \notin queued
    BY <1>5 DEF Ledger, QueuedIsCovered, Covered, Underway, Pulled
  <2>2. failed[s] = "never"
    BY <1>3, <1>5 DEF GivenUp
  <2> QED
    BY <1>5, <2>1, <2>2 DEF New
<1>6. Replica!Publish
  BY <1>1, <1>2, <1>3, <1>4, <1>5 DEF Replica!Publish, Replica!AtHand
<1> QED
  BY <1>6 DEF Replica!Next

(* A download gets its result: its file is saved, or nothing happens yet. *)
LEMMA EndReplica ==
    ASSUME TypeOK, OnePullEach, NEW i \in Pending, NEW result \in AllResults,
           End(i, result), UNCHANGED <<live, queue, failed>>,
           store' = IF result = "ok" THEN store \cup {jobs[i].file} ELSE store
    PROVE  [Replica!Next]_(Replica!vars)
<1>1. /\ jobs[i].file \in Pulled \cap Segs
      /\ result = "ok" => Pulled' = Pulled \ {jobs[i].file}
      /\ result # "ok" => Pulled' = Pulled
  BY EndPulled
<1>2. Wanted' = Wanted /\ GivenUp' = GivenUp
  BY DEF Wanted, GivenUp
<1>3. CASE result = "ok"
  BY <1>1, <1>2, <1>3 DEF Replica!Next, Replica!Finish
<1>4. CASE result # "ok"
  BY <1>1, <1>2, <1>4 DEF Replica!vars
<1> QED
  BY <1>3, <1>4

(* A slot is reaped: the job is over, back in the queue, or given up. *)
LEMMA ReapReplica ==
    ASSUME TypeOK, OnePullEach, NEW i \in Slots, Reap(i)
    PROVE  [Replica!Next]_(Replica!vars)
<1>1. PICK s, p, result :
          /\ s = jobs[i].file /\ p = jobs[i].peer /\ result = jobs[i].result
          /\ \/ result = "ok" /\ ReapOk(i, s, p)
             \/ result # "ok" /\ (ReapNotReady(i, s, p) \/ ReapFailed(i, s, p, result))
  BY DEF Reap
<1>2. i \in Busy /\ s \in Segs /\ Clear(i) /\ UNCHANGED <<live, store>>
  BY <1>1, JobTypes DEF Reap, Finished
<1>3. queue \in Seq(Segs) /\ Wanted' = Wanted
  BY <1>2 DEF TypeOK, Wanted
<1>4. /\ result # "ok" => s \in Pulled /\ Pulled' = Pulled \ {s}
      /\ result = "ok" => Pulled' = Pulled
  BY <1>1, <1>2, ClearPulled
<1>5. CASE result = "ok" /\ queue' = queue /\ failed' = failed
  BY <1>2, <1>3, <1>4, <1>5 DEF Replica!vars, GivenUp
<1>6. ASSUME result # "ok", failed' = failed, Range(queue') = Range(queue) \cup {s}
      PROVE  Replica!Return(s)
  BY <1>2, <1>3, <1>4, <1>6 DEF Replica!Return, GivenUp
<1>7. CASE result # "ok" /\ failed' = failed /\ queue' = Append(queue, s)
  <2>1. Range(queue') = Range(queue) \cup {s}
    BY <1>2, <1>3, <1>7, AppendFacts
  <2> QED
    BY <1>2, <1>6, <1>7, <2>1 DEF Replica!Next
<1>8. CASE result # "ok" /\ failed' = failed /\ queue' = <<s>> \o queue
  <2> DEFINE front == <<s>>
  <2>1. front \in Seq(Segs) /\ Range(front) = {s} /\ queue' = front \o queue
    BY <1>2, <1>8, SingleFacts
  <2> HIDE DEF front
  <2>2. Range(front \o queue) = Range(front) \cup Range(queue)
    BY <1>3, <2>1, ConcatFacts
  <2> QED
    BY <1>2, <1>6, <1>8, <2>1, <2>2 DEF Replica!Next
<1>9. CASE result # "ok" /\ failed' = [failed EXCEPT ![s] = "cooling"] /\ queue' = queue
  <2>1. GivenUp' = GivenUp \cup {s}
    BY <1>2, <1>9 DEF GivenUp, TypeOK
  <2>2. Replica!GiveUp(s)
    BY <1>2, <1>3, <1>4, <1>9, <2>1 DEF Replica!GiveUp
  <2> QED
    BY <1>2, <2>2 DEF Replica!Next
<1> QED
  BY <1>1, <1>5, <1>7, <1>8, <1>9 DEF ReapOk, ReapNotReady, ReapFailed

LEMMA StepReplica ==
    ASSUME TypeOK, Ledger, NEW rank \in [Segs -> Nat], RollsOn(rank), OneInv(rank),
           [Next]_vars
    PROVE  [Replica!Next]_(Replica!vars)
<1> USE DEF OneInv
<1>1. CASE Event
  <2>1. ASSUME NEW step \in ManifestSteps, NewManifest(step[2]) PROVE Replica!Next
    BY <2>1, StepTypes, ManifestReplica
  <2>2. CASE SameManifest \/ RecvTimeout \/ \E p \in Peers : Register(p)
    BY <2>2, SameReplica DEF SameManifest, RecvTimeout, Register, jobVars
  <2>3. ASSUME NEW i \in Slots, NEW result \in Results, PullAnswered(i, result)
        PROVE  [Replica!Next]_(Replica!vars)
    BY <2>3, EndReplica DEF PullAnswered, AllResults
  <2> QED
    BY <1>1, <2>1, <2>2, <2>3 DEF Event
<1>2. CASE Timers
  <2>1. ASSUME NEW i \in Slots, NEW result \in Results, PullExpires(i, result)
        PROVE  [Replica!Next]_(Replica!vars)
    BY <2>1, EndReplica DEF PullExpires, AllResults
  <2>2. ASSUME NEW s \in Segs, Prune(s) PROVE Replica!Next
    <3>1. s \notin Wanted /\ store' = store \ {s} /\ UNCHANGED <<live, queue, jobs, failed>>
      BY <2>2 DEF Prune, jobVars
    <3>2. UNCHANGED <<Wanted, Range(queue), Pulled, GivenUp>>
      BY <3>1 DEF Wanted, Pulled, Busy, GivenUp
    <3> QED
      BY <3>1, <3>2 DEF Replica!Next, Replica!Prune
  <2>3. ASSUME NEW s \in Segs, CooldownEnds(s) PROVE UNCHANGED Replica!vars
    <3>1. UNCHANGED <<live, store, queue, jobs>>
      BY <2>3 DEF CooldownEnds
    <3>2. GivenUp' = GivenUp
      BY <2>3 DEF CooldownEnds, GivenUp, TypeOK
    <3> QED
      BY <3>1, <3>2 DEF Replica!vars, Wanted, Pulled, Busy
  <2>4. CASE TimersDone \/ (\E p \in Peers : Forget(p))
             \/ (\E s \in Segs, p \in Peers : RetryCooldownEnds(s, p))
    BY <2>4, SameReplica DEF TimersDone, Forget, RetryCooldownEnds, jobVars
  <2> QED
    BY <1>2, <2>1, <2>2, <2>3, <2>4 DEF Timers
<1>3. CASE ScheduleJobs
  <2>1. CASE ReapDone \/ FillDone
    BY <2>1, SameReplica DEF ReapDone, FillDone, jobVars
  <2>2. CASE Fill
    BY <2>1, <2>2, FillFacts, StartReplica
  <2> QED
    BY <1>3, <2>1, <2>2, ReapReplica DEF ScheduleJobs
<1>4. CASE Restart
  <2>1. UNCHANGED <<live, store>> /\ queue' = <<>> /\ Busy' = {} /\ GivenUp' = {}
    BY <1>4 DEF Restart, Busy, GivenUp
  <2>2. Wanted' = Wanted /\ Range(queue') = {} /\ Pulled' = {}
    BY <2>1 DEF Wanted, Range, Pulled
  <2> QED
    BY <2>1, <2>2 DEF Replica!Next, Replica!Restart
<1>5. CASE UNCHANGED vars
  BY <1>5, SameReplica DEF vars, jobVars
<1> QED
  BY <1>1, <1>2, <1>3, <1>4, <1>5 DEF Next

(* The scheduler keeps the promise of Replication, on playlists that roll   *)
(* on: whatever the sources answer and in whatever order results, retries,  *)
(* evictions, new playlists and crashes come, no job is lost or doubled     *)
(* (sync_queue, schedule_jobs).                                             *)
THEOREM ReplicationImplemented ==
    ASSUME NEW CONSTANT rank \in [Segs -> Nat], RollsOn(rank)
    PROVE  Spec => ReplicationPromise
<1>1. Init => Replica!Init
  BY DEF Init, Replica!Init, Wanted, Pulled, Busy, GivenUp, Range
<1>2. TypeOK /\ Ledger /\ OneInv(rank) /\ [Next]_vars => [Replica!Next]_(Replica!vars)
  BY StepReplica
<1>3. Init => OneInv(rank)
  BY InitOne
<1>4. TypeOK /\ Ledger /\ OneInv(rank) /\ [Next]_vars => OneInv(rank)'
  BY StepOne
<1> QED
  BY <1>1, <1>2, <1>3, <1>4, LedgerInvariance, PTL DEF Spec, ReplicationPromise, Replica!Spec

-----------------------------------------------------------------------------
(* Evictions are earned.                                                   *)

(* The count of a peer never runs ahead of the pulls it left unanswered.   *)
Fair == \A p \in Peers : hits[p] <= streak[p]

LEMMA InitFair == Init => Fair
  BY DEF Init, Fair

LEMMA SameCounts ==
    ASSUME Fair, UNCHANGED <<hits, streak>>
    PROVE  Fair'
  BY DEF Fair

(* What a reaped slot does to the counts and to the peers. *)
LEMMA ReapCounts ==
    ASSUME TypeOK, Fair, NEW i \in Slots, Reap(i)
    PROVE  /\ Fair'
           /\ \A q \in known \ known' :
                 /\ streak[q] + 1 >= EvictAfter
                 /\ i \in Busy \ Busy'
                 /\ jobs[i].peer = q /\ jobs[i].result = "timeout"
<1>1. PICK s, p, result :
          /\ s = jobs[i].file /\ p = jobs[i].peer /\ result = jobs[i].result
          /\ \/ result = "ok" /\ ReapOk(i, s, p)
             \/ result = "not_ready" /\ ReapNotReady(i, s, p)
             \/ result \notin {"ok", "not_ready"} /\ ReapFailed(i, s, p, result)
          /\ streak' = [streak EXCEPT ![p] = RowAfter(@, result, p \in known \ known')]
  BY DEF Reap
<1>2. i \in Busy \ Busy' /\ p \in Peers
  BY <1>1, JobTypes, ClearFiles DEF Reap, Finished
<1>3. /\ hits \in [Peers -> 0 .. EvictAfter - 1]
      /\ streak \in [Peers -> 0 .. EvictAfter - 1]
      /\ hits[p] \in 0 .. EvictAfter - 1 /\ streak[p] \in 0 .. EvictAfter - 1
      /\ hits[p] <= streak[p]
  BY <1>2 DEF TypeOK, Fair
<1>4. /\ streak'[p] = RowAfter(streak[p], result, p \in known \ known')
      /\ \A q \in Peers \ {p} : streak'[q] = streak[q]
  BY <1>1, <1>2, <1>3
<1>5. streak'[p] \in 0 .. EvictAfter - 1
  BY <1>3, <1>4 DEF RowAfter, Lesser
<1>6. /\ hits'[p] <= streak'[p]
      /\ \A q \in Peers \ {p} : hits'[q] = hits[q]
      /\ \A q \in known \ known' :
            q = p /\ result = "timeout" /\ streak[p] + 1 >= EvictAfter
  <2>1. CASE result = "ok" /\ ReapOk(i, s, p)
    BY <1>2, <1>3, <1>5, <2>1 DEF ReapOk
  <2>2. CASE result = "not_ready" /\ ReapNotReady(i, s, p)
    <3>1. UNCHANGED <<hits, known>>
      BY <2>2 DEF ReapNotReady
    <3>2. streak'[p] = streak[p]
      BY <1>4, <2>2, <3>1 DEF RowAfter
    <3> QED
      BY <1>3, <3>1, <3>2
  <2>3. CASE result \notin {"ok", "not_ready"} /\ ReapFailed(i, s, p, result)
    <3>1. JudgePeer(p, result)
      BY <2>3 DEF ReapFailed
    <3>2. CASE result # "timeout"
      BY <1>2, <1>3, <1>5, <3>1, <3>2 DEF JudgePeer
    <3>3. CASE result = "timeout" /\ hits[p] + 1 >= EvictAfter
      <4>1. hits' = [hits EXCEPT ![p] = 0] /\ known' = known \ {p}
        BY <3>1, <3>3 DEF JudgePeer
      <4>2. streak[p] + 1 >= EvictAfter
        BY <1>3, <3>3
      <4> QED
        BY <1>2, <1>3, <1>5, <3>3, <4>1, <4>2
    <3>4. CASE result = "timeout" /\ ~(hits[p] + 1 >= EvictAfter)
      <4>1. hits' = [hits EXCEPT ![p] = @ + 1] /\ known' = known
        BY <3>1, <3>4 DEF JudgePeer
      <4>2. streak'[p] = Lesser(streak[p] + 1, EvictAfter - 1)
        BY <1>4, <3>4, <4>1 DEF RowAfter
      <4>3. hits[p] + 1 <= streak'[p]
        BY <1>3, <3>4, <4>2 DEF Lesser
      <4> QED
        BY <1>2, <1>3, <4>1, <4>3
    <3> QED
      BY <3>2, <3>3, <3>4
  <2> QED
    BY <1>1, <2>1, <2>2, <2>3
<1>7. \A q \in Peers : hits'[q] <= streak'[q]
  BY <1>4, <1>6 DEF Fair
<1> QED
  BY <1>1, <1>2, <1>6, <1>7 DEF Fair

LEMMA StepFair == ASSUME TypeOK, Fair, [Next]_vars PROVE Fair'
<1>1. CASE Event
  BY <1>1, SameCounts
     DEF Event, NewManifest, SameManifest, PullAnswered, Register, RecvTimeout, jobVars
<1>2. CASE Timers
  BY <1>2, SameCounts
     DEF Timers, PullExpires, Forget, Prune, CooldownEnds, RetryCooldownEnds,
         TimersDone, jobVars
<1>3. CASE Fill
  <2>1. UNCHANGED <<hits, streak>>
    BY <1>3 DEF Fill, FillDone, StartPull, jobVars
  <2> QED
    BY <2>1, SameCounts
<1>4. CASE ReapDone
  BY <1>4, SameCounts DEF ReapDone, jobVars
<1>5. CASE \E i \in Slots : Reap(i)
  BY <1>5, ReapCounts
<1>6. CASE Restart
  BY <1>6 DEF Restart, Fair
<1>7. CASE UNCHANGED vars
  BY <1>7, SameCounts DEF vars, jobVars
<1> QED
  BY <1>1, <1>2, <1>3, <1>4, <1>5, <1>6, <1>7 DEF Next, ScheduleJobs

LEMMA OnlyReapingEvicts ==
    ASSUME TypeOK, Fair, [Next]_vars, pc = "reap", pc' = "reap"
    PROVE  \A p \in known \ known' :
              /\ streak[p] + 1 >= EvictAfter
              /\ \E i \in Busy \ Busy' :
                    jobs[i].peer = p /\ jobs[i].result = "timeout"
<1>1. ~Event /\ ~Timers /\ ~Fill /\ ~ReapDone /\ ~Restart
  BY DEF Event, NewManifest, SameManifest, PullAnswered, Register, RecvTimeout,
         Timers, PullExpires, Forget, Prune, CooldownEnds, RetryCooldownEnds,
         TimersDone, Fill, ReapDone, Restart
<1>2. CASE \E i \in Slots : Reap(i)
  BY <1>2, ReapCounts
<1>3. CASE UNCHANGED vars
  BY <1>3 DEF vars, jobVars
<1> QED
  BY <1>1, <1>2, <1>3 DEF Next, ScheduleJobs

(* Reaping evicts a peer only for a pull it has just left unanswered, the  *)
(* last of a full row in which it answered nothing, or only to be asked    *)
(* later (schedule_jobs), whatever the limit, the peers, the playlists and *)
(* the answers.                                                            *)
THEOREM EvictionsEarned == Spec => EvictionIsEarned
<1>1. Init => Fair
  BY InitFair
<1>2. TypeOK /\ Fair /\ [Next]_vars => Fair'
  BY StepFair
<1>3. TypeOK /\ Fair /\ [Next]_vars =>
          [pc = "reap" /\ pc' = "reap" =>
               \A p \in known \ known' :
                  /\ streak[p] + 1 >= EvictAfter
                  /\ \E i \in Busy \ Busy' :
                        jobs[i].peer = p /\ jobs[i].result = "timeout"]_vars
  BY OnlyReapingEvicts
<1> QED
  BY <1>1, <1>2, <1>3, LedgerInvariance, PTL DEF Spec, EvictionIsEarned

=============================================================================
