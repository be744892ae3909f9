------------------------------ MODULE Scheduler ------------------------------
(***************************************************************************)
(* The download scheduler of a peer (src/src/peer.rs): sync_queue turns a  *)
(* new manifest into pull jobs, schedule_jobs reaps the downloads that     *)
(* ended and fills the free slots, pick_peer chooses the source.           *)
(*                                                                         *)
(* The peer is one loop: one datagram, the timers, then schedule_jobs.     *)
(* The variable pc walks through that loop, so the environment acts only   *)
(* between two iterations, as it does in the code.  A download is reduced  *)
(* to its outcome; SegmentTransfer models how it gets there.  Inventories  *)
(* learnt from PONG and NOT_FOUND change under the scheduler at any time:  *)
(* every choice of a source sees one of the constant Inventories.          *)
(***************************************************************************)
EXTENDS Naturals, Sequences, FiniteSets, SequencesExt, SeqFilter

CONSTANTS
    Segs,           \* segment names with a valid_filename
    Peers,          \* socket addresses of other nodes
    Bootstrap,      \* the master's address
    LanOf,          \* LanOf[p]: another address with p's display name, or p
    Parents,        \* addresses flagged PEER_PARENT in the last peerlist
    Inventories,    \* possible values of peer_availability
    ManifestSteps,  \* <<old, new>>: live.m3u8 lists old, then new is sent
    Results,        \* pull results that may occur, a subset of AllResults
    MaxParallel,    \* MAX_PARALLEL_DOWNLOADS
    MaxPerPeer,     \* MAX_INFLIGHT_PER_PEER
    EvictAfter,     \* EVICT_AFTER_UNRESPONSIVE
    Leaving,        \* peers that may stop answering and be forgotten
    RegistryMayFill, \* start_receiver may find the registry full
    Restarts        \* the process may crash and be started again

AllResults == {"ok", "timeout", "not_ready", "not_found", "other"}
Answers == {"yes", "no", "unknown"}  \* Some(true), Some(false), None
Slots == 1..MaxParallel
Free == [file |-> "none", peer |-> "none", result |-> "none"]

ASSUME SchedulerAssumption ==
    /\ Bootstrap \in Peers
    /\ LanOf \in [Peers -> Peers]
    /\ Parents \subseteq Peers
    /\ Inventories \subseteq [Peers -> [Segs -> Answers]]
    /\ ManifestSteps \subseteq Seq(Segs) \X Seq(Segs)
    /\ \A step \in ManifestSteps : IsInjective(step[2])
    /\ Results \subseteq AllResults
    /\ MaxParallel \in Nat \ {0}
    /\ MaxPerPeer \in Nat \ {0}
    /\ EvictAfter \in Nat \ {0}
    /\ Leaving \subseteq Peers
    /\ RegistryMayFill \in BOOLEAN
    /\ Restarts \in BOOLEAN

VARIABLES
    pc,      \* where the loop is: "recv", "timers", "reap" or "fill"
    live,    \* the manifest in live.m3u8, <<>> before the first one
    store,   \* segments in data_dir
    queue,   \* pull_queue
    queued,  \* "queued or in-flight"
    tried,   \* tried[s]: addresses asked for s; {} when s has no entry
    failed,  \* failed_at[s]: "never", "cooling" or "cooled"
    cooling, \* retry_after: <<segment, address>> still cooling
    hits,    \* unresponsive_hits
    jobs,    \* active: slot -> file, peer and result of its receiver
    known,   \* node.peers
    streak,  \* history: pulls in a row that each address left unanswered
    synced   \* history: this process has synchronised the manifest in live

jobVars == <<queue, queued, tried, failed, cooling, hits, jobs, known, streak>>
vars == <<pc, live, store, jobVars, synced>>

-----------------------------------------------------------------------------
Wanted == Range(live)
Busy == {i \in Slots : jobs[i] # Free}
Pending == {i \in Busy : jobs[i].result = "pending"}
Finished == Busy \ Pending
InFlight == {jobs[i].file : i \in Busy}
Load(p) == Cardinality({i \in Busy : jobs[i].peer = p})

Init ==
    /\ pc = "recv"
    /\ live = <<>>
    /\ store = {}
    /\ queue = <<>>
    /\ queued = {}
    /\ tried = [s \in Segs |-> {}]
    /\ failed = [s \in Segs |-> "never"]
    /\ cooling = {}
    /\ hits = [p \in Peers |-> 0]
    /\ jobs = [i \in Slots |-> Free]
    /\ known = {}
    /\ streak = [p \in Peers |-> 0]
    /\ synced = FALSE

-----------------------------------------------------------------------------
(* The event of an iteration.                                              *)

MissingStored(manifest) ==  \* mutated: the disk is not looked at
    Keep(manifest, {s \in Range(manifest) : s \notin queued /\ failed[s] # "cooling"})

(* sync_queue: the segments it adds, oldest first as the manifest has them. *)
Missing(manifest) ==
    Keep(manifest, {s \in Range(manifest) : /\ s \notin store
                                            /\ s \notin queued
                                            /\ failed[s] # "cooling"})

SyncQueueKeepsAll(manifest) ==  \* mutated: the queue keeps what rolled out
    LET new == Missing(manifest)
    IN  /\ queue' = Reverse(new) \o queue
        /\ queued' = (queued \cap Range(manifest)) \cup Range(new)

(* sync_queue: drop what rolled out of the window, put the missing segments *)
(* in front, newest first.                                                  *)
SyncQueue(manifest) ==
    LET new == Missing(manifest)
    IN  /\ queue' = Reverse(new) \o Keep(queue, Range(manifest))
        /\ queued' = (queued \cap Range(manifest)) \cup Range(new)

(* Event::ManifestResponse with another text than live.m3u8 holds; its     *)
(* segments may be the same.                                               *)
NewManifest(manifest) ==
    /\ pc = "recv"
    /\ <<live, manifest>> \in ManifestSteps
    /\ pc' = "timers"
    /\ live' = manifest
    /\ SyncQueue(manifest)
    /\ synced' = TRUE
    /\ UNCHANGED <<store, tried, failed, cooling, hits, jobs, known, streak>>

(* write_manifest finds the same text, or the response is empty: the queue *)
(* is left as it is.                                                       *)
SameManifest ==
    /\ pc = "recv"
    /\ live # <<>>
    /\ pc' = "timers"
    /\ UNCHANGED <<live, store, jobVars, synced>>

End(i, result) == jobs' = [jobs EXCEPT ![i].result = result]

(* A datagram ends a download: its last packet, or a NOT_FOUND.  The write *)
(* of the last packet may fail ("other").                                  *)
PullAnswered(i, result) ==
    /\ pc = "recv"
    /\ i \in Pending
    /\ result \in Results \cap {"ok", "not_ready", "not_found", "other"}
    /\ pc' = "timers"
    /\ End(i, result)
    /\ store' = IF result = "ok" THEN store \cup {jobs[i].file} ELSE store
    /\ UNCHANGED <<live, queue, queued, tried, failed, cooling, hits, known, streak, synced>>

(* A handshake or PING registers a peer. *)
Register(p) ==
    /\ pc = "recv"
    /\ p \notin known
    /\ known' = known \cup {p}
    /\ pc' = "timers"
    /\ UNCHANGED <<live, store, queue, queued, tried, failed, cooling, hits, jobs, streak, synced>>

(* No datagram before the earliest deadline: the loop only ticks. *)
RecvTimeout ==
    /\ pc = "recv"
    /\ pc' = "timers"
    /\ UNCHANGED <<live, store, jobVars, synced>>

-----------------------------------------------------------------------------
(* The timers of an iteration.                                             *)

(* A receiver gives up: the peer never answered ("timeout"), or the        *)
(* content stopped coming ("other").  Several may in one iteration.        *)
PullExpires(i, result) ==
    /\ pc = "timers"
    /\ i \in Pending
    /\ result \in Results \cap {"timeout", "other"}
    /\ End(i, result)
    /\ UNCHANGED <<pc, live, store, queue, queued, tried, failed, cooling, hits, known, streak, synced>>

(* prune_peers, and the handshake retries of a discovered peer running out. *)
Forget(p) ==
    /\ pc = "timers"
    /\ p \in known \cap Leaving
    /\ known' = known \ {p}
    /\ UNCHANGED <<pc, live, store, queue, queued, tried, failed, cooling, hits, jobs, streak, synced>>

(* prune_segments removes a segment the manifest no longer lists. *)
Prune(s) ==
    /\ pc = "timers"
    /\ s \in store \ Wanted
    /\ store' = store \ {s}
    /\ UNCHANGED <<pc, live, jobVars, synced>>

(* FAIL_RETRY_COOLDOWN passes, for a segment or for one of its sources. *)
CooldownEnds(s) ==
    /\ pc = "timers"
    /\ failed[s] = "cooling"
    /\ failed' = [failed EXCEPT ![s] = "cooled"]
    /\ UNCHANGED <<pc, live, store, queue, queued, tried, cooling, hits, jobs, known, streak, synced>>

RetryCooldownEnds(s, p) ==
    /\ pc = "timers"
    /\ <<s, p>> \in cooling
    /\ cooling' = cooling \ {<<s, p>>}
    /\ UNCHANGED <<pc, live, store, queue, queued, tried, failed, hits, jobs, known, streak, synced>>

TimersDone ==
    /\ pc = "timers"
    /\ pc' = "reap"
    /\ UNCHANGED <<live, store, jobVars, synced>>

-----------------------------------------------------------------------------
(* schedule_jobs, part 1: reap the downloads that have an outcome.         *)

Clear(i) == jobs' = [jobs EXCEPT ![i] = Free]

(* Saved: the job is done with, and so are all records of its attempts. *)
ReapOk(i, s, p) ==
    /\ queued' = queued \ {s}
    /\ tried' = [tried EXCEPT ![s] = {}]
    /\ cooling' = {c \in cooling : c[1] # s}
    /\ hits' = [hits EXCEPT ![p] = 0]
    /\ UNCHANGED <<queue, failed, known>>

ReapNotReadyKeepsTried(i, s, p) ==  \* mutated: p stays tried for s
    /\ cooling' = cooling \cup {<<s, p>>}
    /\ queue' = Append(queue, s)
    /\ UNCHANGED <<queued, tried, failed, hits, known>>

(* An origin that is not ready is asked again after a cooldown; the job    *)
(* goes to the back of the queue.                                          *)
ReapNotReady(i, s, p) ==
    /\ cooling' = cooling \cup {<<s, p>>}
    /\ tried' = [tried EXCEPT ![s] = @ \ {p}]
    /\ queue' = Append(queue, s)
    /\ UNCHANGED <<queued, failed, hits, known>>

JudgePeerLate(p, result) ==  \* mutated: > for >=
    IF result # "timeout"
    THEN /\ hits' = [hits EXCEPT ![p] = 0]
         /\ UNCHANGED known
    ELSE IF hits[p] + 1 > EvictAfter
         THEN /\ hits' = [hits EXCEPT ![p] = 0]
              /\ known' = known \ {p}
         ELSE /\ hits' = [hits EXCEPT ![p] = @ + 1]
              /\ UNCHANGED known

JudgePeerGrudge(p, result) ==  \* mutated: an answer does not reset the count
    IF result # "timeout"
    THEN UNCHANGED <<hits, known>>
    ELSE IF hits[p] + 1 >= EvictAfter
         THEN /\ hits' = [hits EXCEPT ![p] = 0]
              /\ known' = known \ {p}
         ELSE /\ hits' = [hits EXCEPT ![p] = @ + 1]
              /\ UNCHANGED known

(* A peer that keeps silent is counted, and evicted at the limit; one that *)
(* answered is forgiven.                                                   *)
JudgePeer(p, result) ==
    IF result # "timeout"
    THEN /\ hits' = [hits EXCEPT ![p] = 0]
         /\ UNCHANGED known
    ELSE IF hits[p] + 1 >= EvictAfter
         THEN /\ hits' = [hits EXCEPT ![p] = 0]
              /\ known' = known \ {p}
         ELSE /\ hits' = [hits EXCEPT ![p] = @ + 1]
              /\ UNCHANGED known

ReapFailedUnrecorded(i, s, p, result) ==  \* mutated: given up without a record
    /\ JudgePeer(p, result)
    /\ IF known' \ tried[s] # {}
       THEN /\ queue' = <<s>> \o queue
            /\ UNCHANGED <<queued, tried>>
       ELSE /\ queued' = queued \ {s}
            /\ tried' = [tried EXCEPT ![s] = {}]
            /\ UNCHANGED queue
    /\ UNCHANGED <<failed, cooling>>

(* Any other failure: first in line for another peer, if one is untried,   *)
(* otherwise given up until a new manifest lists it after its cooldown.    *)
ReapFailed(i, s, p, result) ==
    /\ JudgePeer(p, result)
    /\ IF known' \ tried[s] # {}
       THEN /\ queue' = <<s>> \o queue
            /\ UNCHANGED <<queued, tried, failed>>
       ELSE /\ queued' = queued \ {s}
            /\ tried' = [tried EXCEPT ![s] = {}]
            /\ failed' = [failed EXCEPT ![s] = "cooling"]
            /\ UNCHANGED queue
    /\ UNCHANGED cooling

Lesser(a, b) == IF a <= b THEN a ELSE b

(* The row that ends with this result, up to one less than the limit.  An  *)
(* answer breaks it, but "ask me later" is left out of account; an         *)
(* eviction begins it anew.                                                *)
RowAfter(row, result, evicted) ==
    IF evicted THEN 0
    ELSE CASE result = "timeout"   -> Lesser(row + 1, EvictAfter - 1)
           [] result = "not_ready" -> row
           [] OTHER                -> 0

Reap(i) ==
    LET s == jobs[i].file
        p == jobs[i].peer
        result == jobs[i].result
    IN  /\ pc = "reap"
        /\ i \in Finished
        /\ Clear(i)
        /\ CASE result = "ok"        -> ReapOk(i, s, p)
             [] result = "not_ready" -> ReapNotReady(i, s, p)
             [] OTHER                -> ReapFailed(i, s, p, result)
        /\ streak' = [streak EXCEPT ![p] = RowAfter(@, result, p \in known \ known')]
        /\ UNCHANGED <<pc, live, store, synced>>

ReapDone ==
    /\ pc = "reap"
    /\ Finished = {}
    /\ pc' = "fill"
    /\ UNCHANGED <<live, store, jobVars, synced>>

-----------------------------------------------------------------------------
(* schedule_jobs, part 2: fill the free slots.                             *)

(* effective_addr: a LAN address with the same display name, if known. *)
EffectiveAddr(p) == IF LanOf[p] \in known THEN LanOf[p] ELSE p

Cooling(s, p) == <<s, p>> \in cooling

(* pick_peer: who may be asked at all. *)
Eligible(s, inventory) ==
    {p \in {EffectiveAddr(k) : k \in known} :
        /\ p = Bootstrap \/ inventory[p][s] # "no"
        /\ ~Cooling(s, p)
        /\ p \notin tried[s]
        /\ Load(p) < MaxPerPeer}

(* Assigned parents that advertise the segment come first. *)
ParentsFirst(candidates, s, inventory) ==
    LET sources == {p \in candidates \cap Parents : inventory[p][s] = "yes"}
    IN  IF sources # {} THEN sources ELSE candidates

(* prefer_advertised_peers: a peer that advertises the segment keeps the   *)
(* origin out; an origin that advertises it keeps unknown peers out.       *)
AdvertisedFirst(candidates, s, inventory) ==
    LET sources == {p \in candidates \ {Bootstrap} : inventory[p][s] = "yes"}
    IN  IF sources # {} THEN sources
        ELSE IF inventory[Bootstrap][s] = "yes" THEN candidates \cap {Bootstrap}
        ELSE candidates

(* The recovery path when nobody else is left. *)
Recovery(s) ==
    {p \in {Bootstrap} \cap known :
        /\ ~Cooling(s, p)
        /\ Load(p) < MaxPerPeer
        /\ p \notin tried[s]}

(* pick_peer: the scores weigh the choice among these, whoever they are. *)
Candidates(s, inventory) ==
    LET chosen == AdvertisedFirst(
                      ParentsFirst(Eligible(s, inventory), s, inventory), s, inventory)
    IN  IF chosen # {} THEN chosen ELSE Recovery(s)

StartPullUnqueued(s, p) ==  \* mutated: a job taken from the queue is not queued
    LET i == CHOOSE j \in Slots : j \notin Busy
    IN  /\ jobs' = [jobs EXCEPT ![i] = [file |-> s, peer |-> p, result |-> "pending"]]
        /\ queue' = Tail(queue)
        /\ queued' = queued \ {s}
        /\ tried' = [tried EXCEPT ![s] = @ \cup {p}]
        /\ UNCHANGED <<pc, live, store, failed, cooling, hits, known, streak, synced>>

StartPull(s, p) ==
    LET i == CHOOSE j \in Slots : j \notin Busy
    IN  /\ jobs' = [jobs EXCEPT ![i] = [file |-> s, peer |-> p, result |-> "pending"]]
        /\ queue' = Tail(queue)
        /\ tried' = [tried EXCEPT ![s] = @ \cup {p}]
        /\ UNCHANGED <<pc, live, store, queued, failed, cooling, hits, known, streak, synced>>

FillDone == pc' = "recv" /\ UNCHANGED <<live, store, jobVars, synced>>

(* One turn of the filling loop.  A job nobody can serve stays at the      *)
(* front, and ends the loop.                                               *)
Fill ==
    /\ pc = "fill"
    /\ IF Busy = Slots \/ queue = <<>>
       THEN FillDone
       ELSE LET s == Head(queue)
            IN  \E inventory \in Inventories :
                  IF Candidates(s, inventory) = {}
                  THEN FillDone
                  ELSE \/ \E p \in Candidates(s, inventory) : StartPull(s, p)
                       \/ RegistryMayFill /\ FillDone

-----------------------------------------------------------------------------
(* A crash, and a start on the same data_dir: live.m3u8 and the segments   *)
(* are on disk, everything else was in memory.                             *)
Restart ==
    /\ Restarts
    /\ pc' = "recv"
    /\ queue' = <<>>
    /\ queued' = {}
    /\ tried' = [s \in Segs |-> {}]
    /\ failed' = [s \in Segs |-> "never"]
    /\ cooling' = {}
    /\ hits' = [p \in Peers |-> 0]
    /\ jobs' = [i \in Slots |-> Free]
    /\ known' = {}
    /\ streak' = [p \in Peers |-> 0]
    /\ synced' = FALSE
    /\ UNCHANGED <<live, store>>

Event ==
    \/ \E step \in ManifestSteps : NewManifest(step[2])
    \/ SameManifest
    \/ \E i \in Slots, result \in Results : PullAnswered(i, result)
    \/ \E p \in Peers : Register(p)
    \/ RecvTimeout

Timers ==
    \/ \E i \in Slots, result \in Results : PullExpires(i, result)
    \/ \E p \in Peers : Forget(p)
    \/ \E s \in Segs : Prune(s) \/ CooldownEnds(s)
    \/ \E s \in Segs, p \in Peers : RetryCooldownEnds(s, p)
    \/ TimersDone

ScheduleJobs ==
    \/ \E i \in Slots : Reap(i)
    \/ ReapDone
    \/ Fill

Next == Event \/ Timers \/ ScheduleJobs \/ Restart

Spec == Init /\ [][Next]_vars

(* The loop keeps turning and keeps polling the manifest, the bootstrap    *)
(* answers handshakes and pings, every download ends                       *)
(* (SegmentTransfer!DeliveryEnds) and every cooldown passes.               *)
PullEnds(i) ==
    \E result \in Results : PullAnswered(i, result) \/ PullExpires(i, result)

Fairness ==
    /\ WF_vars(RecvTimeout)
    /\ WF_vars(TimersDone)
    /\ WF_vars(ScheduleJobs)
    /\ \A step \in ManifestSteps : SF_vars(NewManifest(step[2]))
    /\ SF_vars(SameManifest)
    /\ SF_vars(Register(Bootstrap))
    /\ \A i \in Slots : SF_vars(PullEnds(i))
    /\ \A s \in Segs : SF_vars(CooldownEnds(s))
    /\ \A s \in Segs, p \in Peers : SF_vars(RetryCooldownEnds(s, p))

FairSpec == Spec /\ Fairness

(* Sources that are never ready starve everyone; with these, one of them   *)
(* delivers when a segment is asked for again and again.                   *)
Saved(s) == \E i \in Slots : jobs[i].file = s /\ PullAnswered(i, "ok")
ServedSpec == FairSpec /\ \A s \in Segs : SF_vars(Saved(s))

-----------------------------------------------------------------------------
(* Properties.                                                             *)

Jobs == [file : Segs, peer : Peers, result : AllResults \cup {"pending"}]

TypeOK ==
    /\ pc \in {"recv", "timers", "reap", "fill"}
    /\ live \in Seq(Segs)
    /\ store \subseteq Segs
    /\ queue \in Seq(Segs)
    /\ queued \subseteq Segs
    /\ tried \in [Segs -> SUBSET Peers]
    /\ failed \in [Segs -> {"never", "cooling", "cooled"}]
    /\ cooling \subseteq Segs \X Peers
    /\ hits \in [Peers -> 0 .. EvictAfter - 1]
    /\ jobs \in [Slots -> Jobs \cup {Free}]
    /\ known \subseteq Peers
    /\ streak \in [Peers -> 0 .. EvictAfter - 1]
    /\ synced \in BOOLEAN

(* No segment of a manifest that this process has synchronised falls       *)
(* through the cracks: it is on disk, queued, being downloaded, or         *)
(* recorded as failed (sync_queue, the reaping in schedule_jobs).          *)
NothingForgotten ==
    synced => \A s \in Wanted :
        s \in store \cup Range(queue) \cup InFlight \/ failed[s] # "never"

(* Each segment is pulled once at a time, and queued only while it is not  *)
(* being pulled (queued: "queued or in-flight").                           *)
OnePullEach ==
    /\ \A i, j \in Busy : i # j => jobs[i].file # jobs[j].file
    /\ Range(queue) \cap InFlight = {}
    /\ IsInjective(queue)

(* What is on disk is not pulled again: sync_queue looks for the file once, *)
(* and the job may wait, fail and be taken up again long after that         *)
(* (sync_queue, schedule_jobs).                                             *)
NoRepeatedPull ==
    /\ store \cap Range(queue) = {}
    /\ \A i \in Pending : jobs[i].file \notin store

(* Reaping evicts a peer only for a pull that it has just left unanswered, *)
(* the last of EvictAfter in a row since it was last evicted, whichever    *)
(* slots and segments they were for.  Any answer breaks the row but a      *)
(* deferral, which the code does not count as one (schedule_jobs); hence   *)
(* this is less than "three consecutive unresponsive pulls" (SPEC.md 7.4). *)
EvictionIsEarned ==
    [][pc = "reap" /\ pc' = "reap" =>
            \A p \in known \ known' :
                /\ streak[p] + 1 >= EvictAfter
                /\ \E i \in Busy \ Busy' :
                      jobs[i].peer = p /\ jobs[i].result = "timeout"]_vars

(* The segments of a manifest that stays are all downloaded in the end,    *)
(* also by a process that starts with a manifest on disk and an empty      *)
(* queue (write_manifest, sync_queue).                                     *)
EventuallyStored ==
    <>[][~Restart]_vars =>
        \A s \in Segs : <>[](s \in Wanted) => <>(s \in store)

(* "preserve one recovery path instead of leaving the queue idle           *)
(* indefinitely" (pick_peer): queued jobs do not wait for ever while       *)
(* nothing is being pulled.                                                *)
QueueNotIdle == (queue # <<>> /\ Busy = {}) ~> (queue = <<>> \/ Busy # {})

(* What Replication sees: a download that has succeeded is over before its *)
(* slot is reaped, one that has failed only then.                          *)
Pulled == {jobs[i].file : i \in {j \in Busy : jobs[j].result # "ok"}}
GivenUp == {s \in Segs : failed[s] # "never"}

Replica ==
    INSTANCE Replication WITH
        wanted <- Wanted, waiting <- Range(queue), pulling <- Pulled,
        givenUp <- GivenUp

(* The scheduler implements Replication: a job leaves the queue only for a *)
(* slot or because the playlist dropped its segment, a pull is never of a  *)
(* segment at hand, and its failure is never without a consequence         *)
(* (sync_queue, schedule_jobs).                                            *)
ReplicationPromise == Replica!Spec

=============================================================================
