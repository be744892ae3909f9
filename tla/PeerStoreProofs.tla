--------------------------- MODULE PeerStoreProofs ---------------------------
(***************************************************************************)
(* Theorems about PeerStore, for streams, playlists, masks and numbers of  *)
(* datagrams in flight of any size.                                        *)
(***************************************************************************)
EXTENDS PeerStore, FiniteSetTheorems, WellFoundedInduction, TLAPS

USE PeerStoreAssumption

(* An inventory, however old, names only segments that were stored once. *)
Honest(inv) == \A d \in inv.mask : inv.newest - d \in ever

AllHonest == Honest(inventory) /\ \A m \in net : Honest(m.inv)

(* What playback.m3u8 lists is on disk. *)
PlaybackStored == playback \subseteq store

Inv ==
    /\ TypeOK
    /\ IsFiniteSet(net)
    /\ AllHonest
    /\ PlaybackStored
    /\ playback \subseteq Live
    /\ HeldBack

-----------------------------------------------------------------------------
(* Facts about the operators.                                              *)

LEMMA LeastElement ==
    ASSUME NEW T \in SUBSET Nat, T # {}
    PROVE  \E x \in T : \A y \in T : x <= y
<1> DEFINE R == OpToRel(<, Nat)
<1>1. IsWellFoundedOn(R, Nat)
  BY NatLessThanWellFounded, Zenon
<1>2. \A x, y \in Nat : x < y => <<x, y>> \in R
  BY DEF OpToRel
<1> HIDE DEF R
<1>3. PICK x \in T : \A y \in T : <<y, x>> \notin R
  BY <1>1, WFMin, Zenon
<1>4. \A y \in T : ~(y < x)
  BY <1>2, <1>3
<1> QED
  BY <1>4

LEMMA NewestIsGreatest ==
    ASSUME NEW stored \in SUBSET Segs, stored # {}
    PROVE  /\ Newest(stored) \in stored
           /\ \A t \in stored : t <= Newest(stored)
<1> DEFINE below == {LastSegment - s : s \in stored}
<1>1. below \in SUBSET Nat
  BY DEF Segs
<1>6. below # {}
  OBVIOUS
<1>2. PICK b \in below : \A c \in below : b <= c
  BY <1>1, <1>6, LeastElement
<1>3. PICK s \in stored : b = LastSegment - s
  OBVIOUS
<1>4. \A t \in stored : LastSegment - s <= LastSegment - t
  BY <1>2, <1>3
<1>5. \A t \in stored : t <= s
  BY <1>4 DEF Segs
<1> QED
  BY <1>5 DEF Newest

(* segment_availability is an inventory, and it tells the truth. *)
LEMMA AvailabilityFacts ==
    ASSUME NEW stored \in SUBSET Segs
    PROVE  /\ Availability(stored) \in Inventories
           /\ \A d \in Availability(stored).mask :
                  Availability(stored).newest - d \in stored
<1>1. CASE stored = {}
  BY <1>1 DEF Availability, Inventories, NoInventory
<1>2. CASE stored # {}
  <2> DEFINE top == Newest(stored)
             mask == {top - s : s \in {t \in stored : top - t < MaskBits}}
  <2>1. top \in stored /\ \A t \in stored : t <= top
    BY <1>2, NewestIsGreatest
  <2>2. Availability(stored) = [newest |-> top, mask |-> mask]
    BY <1>2 DEF Availability
  <2>3. ASSUME NEW d \in mask
        PROVE  d \in 0 .. MaskBits - 1 /\ top - d \in stored
    <3>1. PICK s \in stored : d = top - s /\ top - s < MaskBits
      OBVIOUS
    <3> HIDE DEF top
    <3>2. s \in Int /\ top \in Int /\ s <= top
      BY <2>1 DEF Segs
    <3>3. top - d = s /\ d \in Int /\ d >= 0 /\ d < MaskBits
      BY <3>1, <3>2
    <3> QED
      BY <3>1, <3>2, <3>3
  <2>4. mask \in SUBSET (0 .. MaskBits - 1)
    BY <2>3
  <2>5. top \in Segs
    BY <2>1
  <2> HIDE DEF top, mask
  <2>6. Availability(stored) \in [newest : Segs, mask : SUBSET (0 .. MaskBits - 1)]
    BY <2>2, <2>4, <2>5
  <2>7. Availability(stored).mask = mask /\ Availability(stored).newest = top
    BY <2>2
  <2> QED
    BY <2>3, <2>6, <2>7 DEF Inventories
<1> QED
  BY <1>1, <1>2

LEMMA FiniteSegs == IsFiniteSet(Segs) /\ \A S \in SUBSET Segs : IsFiniteSet(S)
<1>1. IsFiniteSet(Segs)
  BY FS_Interval DEF Segs
<1> QED
  BY <1>1, FS_Subset

LEMMA SmallerSet ==
    ASSUME NEW S \in SUBSET Segs, NEW T \in SUBSET S
    PROVE  /\ Cardinality(S) \in Nat /\ Cardinality(T) \in Nat
           /\ Cardinality(T) <= Cardinality(S)
  BY FiniteSegs, FS_Subset, FS_CardinalityType

(* playback_playlist: listed, stored and followed by enough others. *)
LEMMA PlaylistFacts ==
    ASSUME NEW listed, NEW stored
    PROVE  /\ PlaybackPlaylist(listed, stored) \subseteq listed \cap stored
           /\ \A p \in PlaybackPlaylist(listed, stored) :
                 Cardinality({s \in listed \cap stored : s > p}) >= Holdback
  BY DEF PlaybackPlaylist

(* One datagram more, one fewer. *)
LEMMA NetGrows ==
    ASSUME IsFiniteSet(net), Cardinality(net) < MaxFlight, NEW m
    PROVE  IsFiniteSet(net \cup {m}) /\ Cardinality(net \cup {m}) <= MaxFlight
<1>1. IsFiniteSet(net \cup {m})
  BY FS_AddElement
<1>2. Cardinality(net) \in Nat /\ MaxFlight \in Nat
  BY FS_CardinalityType
<1>3. Cardinality(net \cup {m}) \in {Cardinality(net), Cardinality(net) + 1}
  BY FS_AddElement
<1>4. Cardinality(net) <= MaxFlight /\ Cardinality(net) + 1 <= MaxFlight
  BY <1>2
<1> QED
  BY <1>1, <1>3, <1>4

LEMMA NetShrinks ==
    ASSUME IsFiniteSet(net), Cardinality(net) <= MaxFlight, NEW m
    PROVE  IsFiniteSet(net \ {m}) /\ Cardinality(net \ {m}) <= MaxFlight
  BY FS_RemoveElement, FS_CardinalityType

-----------------------------------------------------------------------------
(* The parts of the invariant that an action can disturb.                  *)

NetPart ==
    /\ IsFiniteSet(net)
    /\ Cardinality(net) <= MaxFlight
    /\ \A m \in net :
          /\ m.inv \in Inventories
          /\ m = Pong(m.inv) \/ (m = NotFound(m.seg, m.inv) /\ m.seg \in Wanted)
          /\ Honest(m.inv)

PeerPart ==
    /\ edge \in 0..LastSegment
    /\ newest \in edge..LastSegment
    /\ store \subseteq ever /\ ever \subseteq Segs
    /\ playback \subseteq Segs
    /\ PlaybackStored
    /\ playback \subseteq Live
    /\ HeldBack

NeighbourPart ==
    /\ inventory \in Inventories
    /\ Honest(inventory)
    /\ missing \subseteq Wanted

LEMMA Parts == Inv <=> PeerPart /\ NetPart /\ NeighbourPart
  BY DEF Inv, TypeOK, AllHonest, PeerPart, NetPart, NeighbourPart

(* What is sent is what the peer has at that moment. *)
LEMMA SendingKeepsNet ==
    ASSUME NetPart, PeerPart', ever \subseteq ever',
           Cardinality(net) < MaxFlight,
           NEW stored \in SUBSET store',
           NEW m, net' = net \cup {m}, m.inv = Availability(stored),
           m = Pong(m.inv) \/ (m = NotFound(m.seg, m.inv) /\ m.seg \in Wanted)
    PROVE  NetPart'
<1>1. stored \subseteq ever' /\ stored \in SUBSET Segs
  BY DEF PeerPart
<1>2. m.inv \in Inventories /\ \A d \in m.inv.mask : m.inv.newest - d \in ever'
  BY <1>1, AvailabilityFacts
<1>3. IsFiniteSet(net') /\ Cardinality(net') <= MaxFlight
  BY NetGrows DEF NetPart
<1>4. \A k \in net : Honest(k.inv)'
  BY DEF NetPart, Honest
<1>5. Honest(m.inv)'
  BY <1>2 DEF Honest
<1> QED
  BY <1>2, <1>3, <1>4, <1>5 DEF NetPart

(* announce_availability, after a change of the store. *)
LEMMA AnnouncingKeepsNet ==
    ASSUME NetPart, PeerPart', ever \subseteq ever', Announces(store')
    PROVE  NetPart'
<1>1. CASE UNCHANGED net
  BY <1>1 DEF NetPart, Honest
<1>2. CASE /\ Cardinality(net) < MaxFlight
           /\ net' = net \cup {Pong(Availability(store'))}
  <2>1. Pong(Availability(store')).inv = Availability(store')
    BY DEF Pong
  <2> QED
    BY <1>2, <2>1, SendingKeepsNet
<1> QED
  BY <1>1, <1>2 DEF Announces

(* A datagram less, and nothing new at the peer. *)
LEMMA TakingKeepsNet ==
    ASSUME NetPart, NEW m \in net, net' = net \ {m}, ever' = ever
    PROVE  NetPart'
<1>1. IsFiniteSet(net') /\ Cardinality(net') <= MaxFlight
  BY NetShrinks DEF NetPart
<1> QED
  BY <1>1 DEF NetPart, Honest

LEMMA SameNet ==
    ASSUME NetPart, net' = net, ever \subseteq ever'
    PROVE  NetPart'
  BY DEF NetPart, Honest

LEMMA SamePeer == ASSUME PeerPart, UNCHANGED peerVars PROVE PeerPart'
  BY DEF PeerPart, peerVars, PlaybackStored, HeldBack, Live, Listed

LEMMA SameNeighbour ==
    ASSUME NeighbourPart, UNCHANGED neighbourVars, ever \subseteq ever'
    PROVE  NeighbourPart'
  BY DEF NeighbourPart, neighbourVars, Honest

LEMMA HearingKeepsNeighbour ==
    ASSUME NeighbourPart, NEW inv \in Inventories, Honest(inv), ever' = ever,
           inventory' \in {inventory, inv},
           missing' \subseteq Wanted
    PROVE  NeighbourPart'
  BY DEF NeighbourPart, Honest

-----------------------------------------------------------------------------
LEMMA InitInv == Init => Inv
<1> SUFFICES ASSUME Init PROVE PeerPart /\ NetPart /\ NeighbourPart
  BY Parts
<1>1. PeerPart
  BY DEF Init, PeerPart, PlaybackStored, HeldBack, Segs
<1>2. NetPart
  BY FS_EmptySet DEF Init, NetPart
<1>3. NeighbourPart
  BY DEF Init, NeighbourPart, Inventories, NoInventory, Honest
<1> QED
  BY <1>1, <1>2, <1>3

LEMMA StepInv == ASSUME Inv, [Next]_vars PROVE Inv'
<1> SUFFICES PeerPart' /\ NetPart' /\ NeighbourPart'
  BY Parts DEF Inv, TypeOK, AllHonest, PeerPart, NetPart, NeighbourPart
<1>0. PeerPart /\ NetPart /\ NeighbourPart
  BY Parts
<1>1. ASSUME NEW n \in Segs, NewManifest(n) PROVE PeerPart' /\ NetPart' /\ NeighbourPart'
  <2>1. playback' = PlaybackPlaylist(Live', store')
    BY <1>1 DEF NewManifest, Live, Listed
  <2>2. playback' \subseteq Live' \cap store' /\ HeldBack'
    BY <2>1, PlaylistFacts DEF HeldBack
  <2>3. PeerPart'
    BY <1>0, <1>1, <2>2 DEF NewManifest, PeerPart, PlaybackStored, Live, Listed, Segs
  <2> QED
    BY <1>0, <1>1, <2>3, SameNet, SameNeighbour DEF NewManifest
<1>2. ASSUME NEW s \in Segs, Save(s) PROVE PeerPart' /\ NetPart' /\ NeighbourPart'
  <2>1. ever' = ever \cup {s} /\ store' = store \cup {s} /\ Live' = Live
    BY <1>2 DEF Save, Live, Listed
  <2>7. edge' = edge /\ newest' = newest
    BY <1>2 DEF Save
  <2>8. edge \in 0..LastSegment /\ newest \in edge..LastSegment
        /\ ever' \subseteq Segs /\ store' \subseteq ever'
    BY <1>0, <2>1 DEF PeerPart
  <2>2. ASSUME playback' = PlaybackPlaylist(Live, store') PROVE PeerPart'
    <3>1. playback' \subseteq Live' \cap store' /\ HeldBack'
      BY <2>1, <2>2, PlaylistFacts DEF HeldBack
    <3>2. playback' \subseteq Segs
      BY <1>0, <2>8, <3>1 DEF PeerPart
    <3>3. /\ edge' \in 0..LastSegment /\ newest' \in edge'..LastSegment
          /\ store' \subseteq ever' /\ ever' \subseteq Segs
      BY <2>7, <2>8
    <3>4. PlaybackStored' /\ playback' \subseteq Live' /\ HeldBack'
      BY <3>1 DEF PlaybackStored
    <3> QED
      BY <3>2, <3>3, <3>4, Zenon DEF PeerPart
  <2>3. ASSUME playback' = playback PROVE PeerPart'
    <3>1. HeldBack'
      <4> SUFFICES ASSUME NEW p \in playback
                   PROVE  Cardinality({t \in Live \cap store' : t > p}) >= Holdback
        BY <2>1, <2>3 DEF HeldBack
      <4> DEFINE old == {t \in Live \cap store : t > p}
                 new == {t \in Live \cap store' : t > p}
      <4>1. Cardinality(old) >= Holdback
        BY <1>0 DEF PeerPart, HeldBack
      <4>2. new \in SUBSET Segs /\ old \in SUBSET new
        BY <2>1 DEF Live, Listed
      <4> HIDE DEF old, new
      <4>3. Cardinality(old) \in Nat /\ Cardinality(new) \in Nat
            /\ Cardinality(old) <= Cardinality(new)
        BY <4>2, SmallerSet
      <4>4. Cardinality(new) >= Holdback
        BY <4>1, <4>3
      <4> QED
        BY <4>4 DEF new
    <3>2. playback \subseteq Live /\ playback \subseteq store /\ playback \subseteq Segs
      BY <1>0 DEF PeerPart, PlaybackStored
    <3>3. /\ edge' \in 0..LastSegment /\ newest' \in edge'..LastSegment
          /\ store' \subseteq ever' /\ ever' \subseteq Segs
      BY <2>7, <2>8
    <3>4. playback' \subseteq Segs /\ PlaybackStored' /\ playback' \subseteq Live'
      BY <2>1, <2>3, <3>2 DEF PlaybackStored
    <3> QED
      BY <3>1, <3>3, <3>4, Zenon DEF PeerPart
  <2>4. PeerPart'
    BY <1>2, <2>2, <2>3 DEF Save
  <2>5. NetPart'
    BY <1>0, <1>2, <2>1, <2>4, AnnouncingKeepsNet DEF Save
  <2>6. NeighbourPart'
    BY <1>0, <1>2, <2>1, SameNeighbour DEF Save
  <2> QED
    BY <2>4, <2>5, <2>6
<1>3. ASSUME NEW s \in Segs, Prune(s) PROVE PeerPart' /\ NetPart' /\ NeighbourPart'
  <2>1. store' = store \ {s} /\ s \notin Live /\ Live' = Live
        /\ ever' = ever /\ playback' = playback
    BY <1>3 DEF Prune, Live, Listed
  <2>2. \A p : {t \in Live' \cap store' : t > p} = {t \in Live \cap store : t > p}
    BY <2>1
  <2>3. HeldBack'
    BY <1>0, <2>1, <2>2 DEF PeerPart, HeldBack
  <2>4. PeerPart'
    BY <1>0, <1>3, <2>1, <2>3 DEF Prune, PeerPart, PlaybackStored
  <2>5. NetPart'
    BY <1>0, <1>3, <2>1, <2>4, AnnouncingKeepsNet DEF Prune
  <2>6. NeighbourPart'
    BY <1>0, <1>3, <2>1, SameNeighbour DEF Prune
  <2> QED
    BY <2>4, <2>5, <2>6
<1>4. CASE Restart
  <2>1. HeldBack' /\ playback' = {}
    BY <1>4 DEF Restart, HeldBack
  <2>2. PeerPart'
    BY <1>0, <1>4, <2>1 DEF Restart, PeerPart, PlaybackStored
  <2> QED
    BY <1>0, <1>4, <2>2, SameNet, SameNeighbour DEF Restart
<1>5. CASE SendPong
  <2>1. PeerPart' /\ NeighbourPart' /\ ever' = ever /\ store' = store
    BY <1>0, <1>5, SamePeer, SameNeighbour DEF SendPong, peerVars
  <2>2. Pong(Availability(store)).inv = Availability(store)
    BY DEF Pong
  <2> QED
    BY <1>0, <1>5, <2>1, <2>2, SendingKeepsNet DEF SendPong
<1>6. ASSUME NEW s \in Wanted, Refuse(s) PROVE PeerPart' /\ NetPart' /\ NeighbourPart'
  <2>1. PeerPart' /\ NeighbourPart' /\ ever' = ever /\ store' = store
    BY <1>0, <1>6, SamePeer, SameNeighbour DEF Refuse, peerVars
  <2> DEFINE m == NotFound(s, Availability(store))
  <2>2. m.inv = Availability(store) /\ m.seg = s /\ m = NotFound(m.seg, m.inv)
    BY DEF NotFound
  <2>3. Cardinality(net) < MaxFlight /\ net' = net \cup {m}
    BY <1>6 DEF Refuse
  <2> HIDE DEF m
  <2> QED
    BY <1>0, <2>1, <2>2, <2>3, SendingKeepsNet
<1>7. ASSUME NEW m \in net, OnPong(m) PROVE PeerPart' /\ NetPart' /\ NeighbourPart'
  <2>1. PeerPart' /\ NetPart' /\ ever' = ever
    BY <1>0, <1>7, SamePeer, TakingKeepsNet DEF OnPong, peerVars
  <2>2. m.inv \in Inventories /\ Honest(m.inv)
    BY <1>0 DEF NetPart
  <2>3. inventory' \in {inventory, m.inv} /\ missing' \subseteq Wanted
    BY <1>0, <1>7 DEF OnPong, RecordAvailability, NeighbourPart, neighbourVars
  <2> QED
    BY <1>0, <2>1, <2>2, <2>3, HearingKeepsNeighbour
<1>8. ASSUME NEW m \in net, OnNotFound(m) PROVE PeerPart' /\ NetPart' /\ NeighbourPart'
  <2>1. PeerPart' /\ NetPart' /\ ever' = ever
    BY <1>0, <1>8, SamePeer, TakingKeepsNet DEF OnNotFound, peerVars
  <2>2. m.inv \in Inventories /\ Honest(m.inv)
    BY <1>0 DEF NetPart
  <2>3. m.seg \in Wanted
    BY <1>0, <1>8 DEF OnNotFound, NetPart, Pong
  <2>4. inventory' \in {inventory, m.inv} /\ missing' \subseteq Wanted
    BY <1>0, <1>8, <2>3 DEF OnNotFound, NeighbourPart
  <2> QED
    BY <1>0, <2>1, <2>2, <2>4, HearingKeepsNeighbour
<1>9. ASSUME NEW m \in net, Lose(m) PROVE PeerPart' /\ NetPart' /\ NeighbourPart'
  BY <1>0, <1>9, SamePeer, TakingKeepsNet, SameNeighbour DEF Lose, peerVars
<1>10. CASE InventoryExpires
  <2>1. NeighbourPart'
    BY <1>0, <1>10 DEF InventoryExpires, NeighbourPart, Inventories, NoInventory, Honest
  <2> QED
    BY <1>0, <1>10, <2>1, SamePeer, SameNet DEF InventoryExpires, peerVars
<1>11. ASSUME NEW s \in Wanted, MissingExpires(s) PROVE PeerPart' /\ NetPart' /\ NeighbourPart'
  <2>1. NeighbourPart'
    BY <1>0, <1>11 DEF MissingExpires, NeighbourPart, peerVars, Honest
  <2> QED
    BY <1>0, <1>11, <2>1, SamePeer, SameNet DEF MissingExpires, peerVars
<1>12. CASE UNCHANGED vars
  BY <1>0, <1>12, SamePeer, SameNet, SameNeighbour DEF vars, peerVars
<1> QED
  BY <1>1, <1>2, <1>3, <1>4, <1>5, <1>6, <1>7, <1>8, <1>9, <1>10, <1>11, <1>12
     DEF Next

THEOREM Invariance == Spec => []Inv
  BY InitInv, StepInv, PTL DEF Spec

-----------------------------------------------------------------------------
(* Every variable keeps its type: every datagram and the neighbour's entry *)
(* hold an inventory whose bits are within the mask (segment_availability).*)
THEOREM StoreTypes == Spec => []TypeOK
  BY Invariance, PTL DEF Inv

(* What the player is told to play is listed and on disk, and so is what   *)
(* is left of it at each GET (refresh_playback_manifest, filter_playlist). *)
THEOREM PlaylistOnDisk == Spec => []PlaybackOnDisk
<1>1. Inv => PlaybackOnDisk
  BY DEF Inv, PlaybackStored, PlaybackOnDisk, Served
<1> QED
  BY <1>1, Invariance, PTL

(* The player stays Holdback segments behind (playback_playlist). *)
THEOREM PlayerHeldBack == Spec => []HeldBack
  BY Invariance, PTL DEF Inv

(* A neighbour believes that the peer has a segment only if it once had    *)
(* it, whatever datagrams are lost, late or out of order                   *)
(* (record_availability, peer_availability).                               *)
THEOREM NoFalseYes == Spec => []YesWasTrue
<1>1. ASSUME Inv, NEW s \in Segs, Says(s) = "yes" PROVE s \in ever
  <2>1. Contains(inventory, s) = "yes"
    BY <1>1 DEF Says
  <2>2. inventory # NoInventory /\ inventory.newest - s \in inventory.mask
    BY <2>1 DEF Contains
  <2>3. inventory.newest \in Int /\ s \in Int
    BY <1>1, <2>2 DEF Inv, TypeOK, Inventories, Segs
  <2>4. inventory.newest - (inventory.newest - s) = s
    BY <2>3
  <2> QED
    BY <1>1, <2>2, <2>4 DEF Inv, AllHonest, Honest
<1>2. Inv => YesWasTrue
  BY <1>1 DEF YesWasTrue
<1> QED
  BY <1>2, Invariance, PTL

=============================================================================
