---------------------------- MODULE OriginSeeding ----------------------------
(***************************************************************************)
(* The seed admission of the master (src/src/node.rs) for one segment: the *)
(* leases of origin_seed_allowed, decided on what PONGs have told the      *)
(* master about its peers, and the peers that ask it for the segment.      *)
(*                                                                         *)
(* Leases of different segments do not influence each other, so one        *)
(* segment is enough.  A transfer is reduced to its end (SegmentTransfer), *)
(* and what a denied peer does to its cooldown (Scheduler).  The segment   *)
(* stays inside the window of 16 that an inventory covers, and peers keep  *)
(* it: with equal retention times the master, whose file is older, prunes  *)
(* it first.  The master pulls nothing, so it has no record_missing.       *)
(***************************************************************************)
EXTENDS Naturals, FiniteSets

CONSTANTS
    Peers,   \* socket addresses of the peers
    Remote,  \* those for which remote_public holds
    Limit,   \* QSTREAM_ORIGIN_SEEDERS
    MayPrune, \* the master may prune the segment
    MaxPongs \* PONGs in flight at a time (a bound)

ASSUME SeedingAssumption ==
    /\ IsFiniteSet(Peers)
    /\ Remote \subseteq Peers
    /\ Limit \in Nat
    /\ MayPrune \in BOOLEAN
    /\ MaxPongs \in Nat

Phases == {"idle", "asked", "served", "denied"}
Answers == {"yes", "no", "unknown"}  \* Some(true), Some(false), None

VARIABLES
    (* the master *)
    stored,    \* registry.has_segment
    known,     \* node.peers
    fresh,     \* peers with a fresh path
    inventory, \* the fresh answers of peer_availability
    seeders,   \* origin_seeders of the segment
    (* the peers and the network *)
    alive,     \* peers that are running
    held,      \* peers that have stored the segment
    phase,     \* how far a peer's request to the master is
    pongs      \* PONGs in flight: <<peer, what its inventory says>>

masterVars == <<stored, known, fresh, inventory, seeders>>
peerVars == <<alive, held, phase, pongs>>
vars == <<masterVars, peerVars>>

-----------------------------------------------------------------------------
Init ==
    /\ stored = TRUE
    /\ known = {}
    /\ fresh = {}
    /\ inventory = [p \in Peers |-> "unknown"]
    /\ seeders = {}
    /\ alive = Peers
    /\ held = {}
    /\ phase = [p \in Peers |-> "idle"]
    /\ pongs = {}

SetPhase(p, now) == phase' = [phase EXCEPT ![p] = now]

(* Peers that can reach each other: all remote, or all local. *)
Reachable(p) == {q \in Peers : q \in Remote <=> p \in Remote}

-----------------------------------------------------------------------------
(* The master's decision.                                                  *)

(* Leases that still help: of a known peer that answers and does not say   *)
(* it lacks the segment.                                                   *)
Viable == {q \in seeders \cap known \cap fresh : inventory[q] # "no"}

(* Peers with a fresh positive inventory that p could ask instead. *)
SourcesEager(p) ==  \* mutated: unknown counts as positive
    {q \in (known \cap fresh \cap Reachable(p)) \ {p} : inventory[q] # "no"}
Sources(p) ==
    {q \in (known \cap fresh \cap Reachable(p)) \ {p} : inventory[q] = "yes"}

(* seed_lease_allowed: a lease of one's own, or room in the budget. *)
LeaseAllowed(p) ==
    \/ p \in Viable \cap Reachable(p)
    \/ Cardinality(Viable \cap Reachable(p)) < Limit

(* Either the budget admits p, or nobody else can serve it. *)
AdmittedStrictly(p) == LeaseAllowed(p)  \* mutated: the budget alone
Admitted(p) == LeaseAllowed(p) \/ Sources(p) = {}

(* Leases of peers that never registered do not survive the next tick. *)
KeepAll(leases) == leases  \* mutated: a tick that does not prune
prune_origin_seeders(leases) == leases \cap known

(* SEGMENT_REQUEST, and the tick that follows it. *)
OnRequest(p) ==
    /\ phase[p] = "asked"
    /\ \/ /\ ~stored
          /\ SetPhase(p, "idle")
          /\ UNCHANGED seeders
       \/ /\ stored /\ Admitted(p)
          /\ SetPhase(p, "served")
          /\ seeders' = prune_origin_seeders(Viable \cup {p})
       \/ /\ stored /\ ~Admitted(p)
          /\ SetPhase(p, "denied")
          /\ seeders' = Viable
    /\ UNCHANGED <<stored, known, fresh, inventory, alive, held, pongs>>

-----------------------------------------------------------------------------
(* What the master learns.                                                 *)

(* A handshake or PING.  The master never forgets a peer: its loop does    *)
(* not call prune_peers.                                                   *)
Register(p) ==
    /\ p \in alive \ known
    /\ known' = known \cup {p}
    /\ UNCHANGED <<stored, fresh, inventory, seeders, peerVars>>

(* segment_availability: an empty store has no inventory; otherwise a      *)
(* segment that is missing is "no" below the newest one and "unknown"      *)
(* beyond it.                                                              *)
CanSay(p) == IF p \in held THEN {"yes"} ELSE {"no", "unknown", "empty"}

(* An answer to PING, or announce_availability.  At most MaxPongs PONGs    *)
(* are in flight, one of each content.                                     *)
SendPong(p, says) ==
    /\ p \in alive
    /\ says \in CanSay(p)
    /\ Cardinality(pongs) < MaxPongs
    /\ pongs' = pongs \cup {<<p, says>>}
    /\ UNCHANGED <<masterVars, alive, held, phase>>

(* record_pong and record_availability, in any order of arrival: the last  *)
(* to arrive stands, and a PONG without an inventory leaves the old one.   *)
OnPong(p, says) ==
    /\ <<p, says>> \in pongs
    /\ pongs' = pongs \ {<<p, says>>}
    /\ fresh' = fresh \cup {p}
    /\ inventory' = IF says = "empty" THEN inventory
                    ELSE [inventory EXCEPT ![p] = says]
    /\ UNCHANGED <<stored, known, seeders, alive, held, phase>>

(* AVAILABILITY_TTL and PATH_FRESH pass without another PONG. *)
InventoryExpires(p) ==
    /\ inventory[p] # "unknown"
    /\ inventory' = [inventory EXCEPT ![p] = "unknown"]
    /\ UNCHANGED <<stored, known, fresh, seeders, peerVars>>

PathExpires(p) ==
    /\ p \in fresh
    /\ inventory[p] = "unknown"
    /\ fresh' = fresh \ {p}
    /\ UNCHANGED <<stored, known, inventory, seeders, peerVars>>

MasterPrunes ==
    /\ MayPrune
    /\ stored' = FALSE
    /\ UNCHANGED <<known, fresh, inventory, seeders, peerVars>>

(* The master dies and comes back: its files are there, the transfers and  *)
(* everything it knew are not.                                             *)
MasterRestart ==
    /\ known' = {}
    /\ fresh' = {}
    /\ inventory' = [p \in Peers |-> "unknown"]
    /\ seeders' = {}
    /\ phase' = [p \in Peers |-> IF phase[p] = "served" THEN "idle" ELSE phase[p]]
    /\ UNCHANGED <<stored, alive, held, pongs>>

-----------------------------------------------------------------------------
(* The peers.                                                              *)

Ask(p) ==
    /\ p \in alive \ held
    /\ phase[p] = "idle"
    /\ SetPhase(p, "asked")
    /\ UNCHANGED <<masterVars, alive, held, pongs>>

(* The request or its answer is lost, or the transfer fails. *)
PullFails(p) ==
    /\ phase[p] \in {"asked", "served"}
    /\ SetPhase(p, "idle")
    /\ UNCHANGED <<masterVars, alive, held, pongs>>

(* FAIL_RETRY_COOLDOWN passes. *)
Cooldown(p) ==
    /\ phase[p] = "denied"
    /\ SetPhase(p, "idle")
    /\ UNCHANGED <<masterVars, alive, held, pongs>>

Store(p) ==
    /\ held' = held \cup {p}
    /\ SetPhase(p, "idle")
    /\ UNCHANGED <<masterVars, alive, pongs>>

OriginDelivers(p) == phase[p] = "served" /\ Store(p)

(* A pull from another peer. *)
OverlayDelivers(p) ==
    /\ p \in alive \ held
    /\ phase[p] \in {"idle", "denied"}
    /\ (alive \cap held \cap Reachable(p)) # {}
    /\ Store(p)

(* A peer leaves for good; its files and its last PONGs are of no use. *)
Crash(p) ==
    /\ p \in alive
    /\ alive' = alive \ {p}
    /\ SetPhase(p, "idle")
    /\ UNCHANGED <<masterVars, held, pongs>>

-----------------------------------------------------------------------------
MasterStep(p) ==
    \/ OnRequest(p)
    \/ Register(p)
    \/ \E says \in Answers \cup {"empty"} : OnPong(p, says)
    \/ InventoryExpires(p)
    \/ PathExpires(p)

PeerStep(p) ==
    \/ Ask(p)
    \/ \E says \in Answers \cup {"empty"} : SendPong(p, says)
    \/ PullFails(p)
    \/ Cooldown(p)
    \/ OriginDelivers(p)
    \/ OverlayDelivers(p)
    \/ Crash(p)

Next ==
    \/ \E p \in Peers : MasterStep(p) \/ PeerStep(p)
    \/ MasterPrunes
    \/ MasterRestart

Spec == Init /\ [][Next]_vars

(* A peer keeps asking, its request arrives now and then, a transfer that  *)
(* is started often enough succeeds once, from the master as from a peer;  *)
(* inventories expire.  PONGs and registration may fail for ever.          *)
Fairness ==
    /\ \A p \in Peers :
        /\ WF_vars(Ask(p))
        /\ SF_vars(OnRequest(p))
        /\ WF_vars(Cooldown(p))
        /\ SF_vars(OriginDelivers(p))
        /\ SF_vars(OverlayDelivers(p))
        /\ WF_vars(InventoryExpires(p) /\ p \notin alive)

FairSpec == Spec /\ Fairness

-----------------------------------------------------------------------------
(* Properties.                                                             *)

TypeOK ==
    /\ stored \in BOOLEAN
    /\ known \subseteq Peers
    /\ fresh \subseteq Peers
    /\ inventory \in [Peers -> Answers]
    /\ seeders \subseteq known
    /\ alive \subseteq Peers
    /\ held \subseteq Peers
    /\ phase \in [Peers -> Phases]
    /\ pongs \subseteq Peers \X (Answers \cup {"empty"})

(* "Never deny the only recovery path" (origin_seed_allowed): whatever     *)
(* PONGs are late or lost, a peer is denied only when another one that it  *)
(* can reach has stored the segment, though that one may have left since.  *)
DenialHasSource ==
    \A p \in Peers :
        phase[p] = "denied" => (held \cap Reachable(p)) \ {p} # {}

(* The bounded policy starves nobody: while the master has the segment, a  *)
(* peer that does not leave gets it, from the master or from a peer.       *)
EveryoneServed ==
    \A p \in Peers :
        [](stored /\ p \in alive) => <>(p \in held)

=============================================================================
