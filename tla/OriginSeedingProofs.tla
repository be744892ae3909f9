------------------------- MODULE OriginSeedingProofs -------------------------
(***************************************************************************)
(* Theorems about OriginSeeding, for every set of peers, every division of *)
(* them into remote and local ones, every limit and any number of PONGs in *)
(* flight.                                                                 *)
(***************************************************************************)
EXTENDS OriginSeeding, TLAPS

(* A positive inventory is true of the past, wherever it is now: the peer  *)
(* stored the segment before it sent the PONG.                             *)
InventoryIsTrue ==
    /\ \A q \in Peers : inventory[q] = "yes" => q \in held
    /\ \A q \in Peers : <<q, "yes">> \in pongs => q \in held

IInv == TypeOK /\ InventoryIsTrue /\ DenialHasSource

(* A source the master sees has stored the segment (origin_seed_allowed).  *)
LEMMA SourceHolds ==
    ASSUME TypeOK, InventoryIsTrue, NEW p \in Peers
    PROVE  Sources(p) \subseteq (held \cap Reachable(p)) \ {p}
BY DEF Sources, InventoryIsTrue, TypeOK, Reachable

(* A denial rests on a source (origin_seed_allowed). *)
LEMMA DeniedOverSource ==
    ASSUME TypeOK, InventoryIsTrue, NEW p \in Peers, ~Admitted(p)
    PROVE  (held \cap Reachable(p)) \ {p} # {}
BY SourceHolds DEF Admitted

(* The master's new state has only leases of known peers. *)
LEMMA LeasesKnown ==
    ASSUME NEW p \in Peers, TypeOK
    PROVE  /\ Viable \subseteq known
           /\ prune_origin_seeders(Viable \cup {p}) \subseteq known
BY DEF Viable, prune_origin_seeders, TypeOK

LEMMA Initially == Init => IInv
BY DEF Init, IInv, TypeOK, InventoryIsTrue, DenialHasSource, Phases, Answers

(* Types are kept by every step. *)
LEMMA TypeStep == TypeOK /\ [Next]_vars => TypeOK'
<1> SUFFICES ASSUME TypeOK, [Next]_vars PROVE TypeOK'
    OBVIOUS
<1> USE DEF TypeOK, Phases, Answers, masterVars, peerVars
<1>1. ASSUME NEW p \in Peers, MasterStep(p) PROVE TypeOK'
    <2>1. CASE OnRequest(p)
        BY <2>1, LeasesKnown DEF OnRequest, SetPhase
    <2>2. CASE Register(p)
        BY <2>2 DEF Register
    <2>3. ASSUME NEW says \in Answers \cup {"empty"}, OnPong(p, says)
          PROVE  TypeOK'
        BY <2>3 DEF OnPong
    <2>4. CASE InventoryExpires(p)
        BY <2>4 DEF InventoryExpires
    <2>5. CASE PathExpires(p)
        BY <2>5 DEF PathExpires
    <2> QED
        BY <1>1, <2>1, <2>2, <2>3, <2>4, <2>5 DEF MasterStep
<1>2. ASSUME NEW p \in Peers, PeerStep(p) PROVE TypeOK'
    <2>1. CASE Ask(p)
        BY <2>1 DEF Ask, SetPhase
    <2>2. ASSUME NEW says \in Answers \cup {"empty"}, SendPong(p, says)
          PROVE  TypeOK'
        BY <2>2 DEF SendPong
    <2>3. CASE PullFails(p)
        BY <2>3 DEF PullFails, SetPhase
    <2>4. CASE Cooldown(p)
        BY <2>4 DEF Cooldown, SetPhase
    <2>5. CASE OriginDelivers(p) \/ OverlayDelivers(p)
        BY <2>5 DEF OriginDelivers, OverlayDelivers, Store, SetPhase
    <2>6. CASE Crash(p)
        BY <2>6 DEF Crash, SetPhase
    <2> QED
        BY <1>2, <2>1, <2>2, <2>3, <2>4, <2>5, <2>6 DEF PeerStep
<1>3. CASE MasterPrunes
    BY <1>3 DEF MasterPrunes
<1>4. CASE MasterRestart
    BY <1>4 DEF MasterRestart
<1>5. CASE UNCHANGED vars
    BY <1>5 DEF vars
<1> QED
    BY <1>1, <1>2, <1>3, <1>4, <1>5 DEF Next

(* Nobody loses a stored segment, and PONGs are sent by those who have it. *)
LEMMA TruthStep ==
    TypeOK /\ InventoryIsTrue /\ [Next]_vars
        => held \subseteq held' /\ InventoryIsTrue'
<1> SUFFICES ASSUME TypeOK, InventoryIsTrue, [Next]_vars
             PROVE  held \subseteq held' /\ InventoryIsTrue'
    OBVIOUS
<1> DEFINE Goal == held \subseteq held' /\ InventoryIsTrue'
<1> USE DEF TypeOK, InventoryIsTrue, masterVars, peerVars
<1>1. ASSUME NEW p \in Peers, MasterStep(p) PROVE Goal
    <2>1. CASE OnRequest(p)
        BY <2>1 DEF OnRequest
    <2>2. CASE Register(p)
        BY <2>2 DEF Register
    <2>3. ASSUME NEW says \in Answers \cup {"empty"}, OnPong(p, says)
          PROVE  Goal
        BY <2>3 DEF OnPong
    <2>4. CASE InventoryExpires(p)
        BY <2>4 DEF InventoryExpires
    <2>5. CASE PathExpires(p)
        BY <2>5 DEF PathExpires
    <2> QED
        BY <1>1, <2>1, <2>2, <2>3, <2>4, <2>5 DEF MasterStep
<1>2. ASSUME NEW p \in Peers, PeerStep(p) PROVE Goal
    <2>1. CASE Ask(p) \/ PullFails(p) \/ Cooldown(p) \/ Crash(p)
        BY <2>1 DEF Ask, PullFails, Cooldown, Crash
    <2>2. ASSUME NEW says \in Answers \cup {"empty"}, SendPong(p, says)
          PROVE  Goal
        <3>1. says = "yes" => p \in held
            BY <2>2 DEF SendPong, CanSay
        <3> QED
            BY <2>2, <3>1 DEF SendPong
    <2>3. CASE OriginDelivers(p) \/ OverlayDelivers(p)
        BY <2>3 DEF OriginDelivers, OverlayDelivers, Store
    <2> QED
        BY <1>2, <2>1, <2>2, <2>3 DEF PeerStep
<1>3. CASE MasterPrunes
    BY <1>3 DEF MasterPrunes
<1>4. CASE MasterRestart
    BY <1>4 DEF MasterRestart
<1>5. CASE UNCHANGED vars
    BY <1>5 DEF vars
<1> QED
    BY <1>1, <1>2, <1>3, <1>4, <1>5 DEF Next

(* Only a refusal of the master makes a peer "denied". *)
LEMMA DenialStep ==
    ASSUME TypeOK, [Next]_vars, NEW p \in Peers, phase'[p] = "denied"
    PROVE  phase[p] = "denied" \/ ~Admitted(p)
<1> USE DEF TypeOK, masterVars, peerVars, SetPhase
<1>1. ASSUME NEW q \in Peers, MasterStep(q)
      PROVE  phase[p] = "denied" \/ ~Admitted(p)
    BY <1>1 DEF MasterStep, OnRequest, Register, OnPong, InventoryExpires,
                PathExpires
<1>2. ASSUME NEW q \in Peers, PeerStep(q) PROVE phase[p] = "denied"
    BY <1>2 DEF PeerStep, Ask, SendPong, PullFails, Cooldown, OriginDelivers,
                OverlayDelivers, Store, Crash
<1>3. CASE MasterPrunes
    BY <1>3 DEF MasterPrunes
<1>4. CASE MasterRestart
    BY <1>4 DEF MasterRestart
<1>5. CASE UNCHANGED vars
    BY <1>5 DEF vars
<1> QED
    BY <1>1, <1>2, <1>3, <1>4, <1>5 DEF Next

(* The three conjuncts hold together in every reachable state. *)
THEOREM SeedingInvariance == Spec => []IInv
<1>1. ASSUME IInv, [Next]_vars PROVE IInv'
    <2>1. TypeOK'
        BY <1>1, TypeStep DEF IInv
    <2>2. held \subseteq held' /\ InventoryIsTrue'
        BY <1>1, TruthStep DEF IInv
    <2>3. ASSUME NEW p \in Peers, phase'[p] = "denied"
          PROVE  (held \cap Reachable(p)) \ {p} # {}
        BY <1>1, <2>3, DenialStep, DeniedOverSource DEF IInv, DenialHasSource
    <2>4. DenialHasSource'
        BY <2>2, <2>3 DEF DenialHasSource, Reachable
    <2> QED
        BY <2>1, <2>2, <2>4 DEF IInv
<1> QED
    BY <1>1, Initially, PTL DEF Spec

(* Every variable keeps its type, and leases belong to registered peers    *)
(* (prune_origin_seeders).                                                 *)
THEOREM SeedingTypes == Spec => []TypeOK
BY SeedingInvariance, PTL DEF IInv

(* "Never deny the only recovery path" (origin_seed_allowed). *)
THEOREM NeverTheOnlyPath == Spec => []DenialHasSource
BY SeedingInvariance, PTL DEF IInv

=============================================================================
