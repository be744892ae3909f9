------------------------------ MODULE PeerStore ------------------------------
(***************************************************************************)
(* The segment files of one peer and the two views derived from them:      *)
(* playback.m3u8, which its player follows (http.rs, peer.rs), and the     *)
(* compact inventory by which a neighbour decides what to ask it for       *)
(* (node.rs, protocol.rs, transfer.rs).                                    *)
(*                                                                         *)
(* A segment is its number; playlists list segments in ascending order, so *)
(* a playlist is a set.  The neighbour's entries expire by the clock; here *)
(* they may expire at any time, and an expired entry is an absent one.     *)
(***************************************************************************)
EXTENDS Integers, FiniteSets

CONSTANTS
    LastSegment,    \* bound: the stream ends with this segment
    ListLength,     \* how many segments the master's playlist lists
    Holdback,       \* QSTREAM_PLAYBACK_HOLDBACK_SEGMENTS
    MaskBits,       \* AVAILABILITY_MASK_BITS
    MaxFlight,      \* bound: datagrams on their way to the neighbour
    Wanted          \* bound: the segments the neighbour asks for

Segs == 1..LastSegment

ASSUME PeerStoreAssumption ==
    /\ LastSegment \in Nat
    /\ ListLength \in Nat \ {0}
    /\ Holdback \in Nat
    /\ MaskBits \in Nat \ {0}
    /\ MaxFlight \in Nat
    /\ Wanted \subseteq Segs

VARIABLES
    (* the peer *)
    edge,      \* newest segment of live.m3u8, 0 before the first manifest
    newest,    \* newest segment any manifest has listed
    store,     \* segments in data_dir
    playback,  \* segments of playback.m3u8, {} when there is no such file
    ever,      \* history: segments that have been in store
    (* what its neighbour has heard *)
    net,       \* PONGs and SEGMENT_NOT_FOUNDs on their way
    inventory, \* the neighbour's entry in `availability`, or NoInventory
    missing    \* missing_segments: exact negative answers not yet expired

peerVars == <<edge, newest, store, playback, ever>>
neighbourVars == <<inventory, missing>>
vars == <<peerVars, net, neighbourVars>>

NoInventory == [newest |-> 0, mask |-> {}]

-----------------------------------------------------------------------------
(* The playlist of the player.                                             *)

Listed(n) == {s \in Segs : n - ListLength < s /\ s <= n}
Live == Listed(edge)

HeldBackShort(listed, stored) ==  \* mutated: one segment too few held back
    LET kept == listed \cap stored
    IN  {s \in kept : Cardinality({t \in kept : t > s}) >= Holdback - 1}

(* playback_playlist: the stored segments of the manifest, but for the     *)
(* newest ones.  If nothing is left there is no playlist.                  *)
PlaybackPlaylist(listed, stored) ==
    LET kept == listed \cap stored
    IN  {s \in kept : Cardinality({t \in kept : t > s}) >= Holdback}

(* filter_playlist, at each GET: a list of which nothing is stored is      *)
(* served as it is.                                                        *)
Served(listed) == IF listed \cap store = {} THEN listed ELSE listed \cap store

-----------------------------------------------------------------------------
(* The inventory.                                                          *)

Newest(stored) == CHOOSE s \in stored : \A t \in stored : t <= s

AvailabilityShifted(stored) ==  \* mutated: the bits are one place too high
    IF stored = {} THEN NoInventory
    ELSE LET top == Newest(stored)
         IN  [newest |-> top,
              mask |-> {top - s + 1 : s \in {t \in stored : top - t < MaskBits}}]

(* segment_availability: the newest segment and a mask of the segments     *)
(* behind it; bit d stands for newest - d.                                 *)
Availability(stored) ==
    IF stored = {} THEN NoInventory
    ELSE LET top == Newest(stored)
         IN  [newest |-> top,
              mask |-> {top - s : s \in {t \in stored : top - t < MaskBits}}]

(* SegmentAvailability::contains: outside the mask is unknown, not absent. *)
Contains(inv, s) ==
    IF inv = NoInventory \/ s > inv.newest \/ inv.newest - s >= MaskBits
    THEN "unknown"
    ELSE IF inv.newest - s \in inv.mask THEN "yes" ELSE "no"

(* peer_availability: an exact negative answer counts before the mask. *)
Says(s) == IF s \in missing THEN "no" ELSE Contains(inventory, s)

Pong(inv) == [type |-> "pong", inv |-> inv]
NotFound(s, inv) == [type |-> "not_found", seg |-> s, inv |-> inv]

-----------------------------------------------------------------------------
Init ==
    /\ edge = 0
    /\ newest = 0
    /\ store = {}
    /\ playback = {}
    /\ ever = {}
    /\ net = {}
    /\ inventory = NoInventory
    /\ missing = {}

(* Event::ManifestResponse with another text, which may be an older one    *)
(* that was late: live.m3u8 is replaced and playback.m3u8 derived anew, or *)
(* removed when nothing is left of it.  That the removal works is assumed. *)
NewManifest(n) ==
    /\ n # edge
    /\ edge' = n
    /\ newest' = IF n > newest THEN n ELSE newest
    /\ playback' = PlaybackPlaylist(Listed(n), store)
    /\ UNCHANGED <<store, ever, net, neighbourVars>>

(* The neighbours hear of a change at once (announce_availability), unless *)
(* the datagram is lost.                                                   *)
Announces(stored) ==
    \/ UNCHANGED net
    \/ /\ Cardinality(net) < MaxFlight
       /\ net' = net \cup {Pong(Availability(stored))}

(* A pull of a segment that was listed once ends well (schedule_jobs); if  *)
(* playback.m3u8 cannot be written the old one stays.                      *)
Save(s) ==
    /\ s <= newest
    /\ s \notin store
    /\ store' = store \cup {s}
    /\ ever' = ever \cup {s}
    /\ playback' \in {PlaybackPlaylist(Live, store'), playback}
    /\ Announces(store')
    /\ UNCHANGED <<edge, newest, neighbourVars>>

PruneListed(s) ==  \* mutated: listed segments are removed too
    /\ s \in store
    /\ store' = store \ {s}
    /\ Announces(store')
    /\ UNCHANGED <<edge, newest, playback, ever, neighbourVars>>

(* prune_segments: an old segment that is not listed any more goes. *)
Prune(s) ==
    /\ s \in store \ Live
    /\ store' = store \ {s}
    /\ Announces(store')
    /\ UNCHANGED <<edge, newest, playback, ever, neighbourVars>>

(* A crash and a start on the same files, but for playback.m3u8. *)
Restart ==
    /\ playback # {}
    /\ playback' = {}
    /\ UNCHANGED <<edge, newest, store, ever, net, neighbourVars>>

(* The answer to a PING. *)
SendPong ==
    /\ Cardinality(net) < MaxFlight
    /\ net' = net \cup {Pong(Availability(store))}
    /\ UNCHANGED <<peerVars, neighbourVars>>

(* The neighbour asks for s and is refused: the file is not there, or the  *)
(* registry of transfers is full.                                          *)
Refuse(s) ==
    /\ Says(s) # "no"
    /\ Cardinality(net) < MaxFlight
    /\ net' = net \cup {NotFound(s, Availability(store))}
    /\ UNCHANGED <<peerVars, neighbourVars>>

-----------------------------------------------------------------------------
(* The neighbour.                                                          *)

MergeInventory(inv) ==  \* mutated: what was there once stays in the mask
    IF inv = NoInventory THEN UNCHANGED neighbourVars
    ELSE /\ inventory' = [newest |-> inv.newest,
                          mask |-> inv.mask \cup {d \in 0 .. MaskBits - 1 :
                              Contains(inventory, inv.newest - d) = "yes"}]
         /\ missing' = missing \ {inv.newest - d : d \in inv.mask}

(* record_availability replaces the entry, and takes back exact negative   *)
(* answers that the mask contradicts.                                      *)
RecordAvailability(inv) ==
    IF inv = NoInventory THEN UNCHANGED neighbourVars
    ELSE /\ inventory' = inv
         /\ missing' = missing \ {inv.newest - d : d \in inv.mask}

OnPong(m) ==
    /\ m \in net /\ m.type = "pong"
    /\ net' = net \ {m}
    /\ RecordAvailability(m.inv)
    /\ UNCHANGED peerVars

(* The mark is set after the inventory of the same datagram is recorded.   *)
(* A pull that has been given up meanwhile leaves no mark.                 *)
OnNotFound(m) ==
    /\ m \in net /\ m.type = "not_found"
    /\ net' = net \ {m}
    /\ inventory' = IF m.inv = NoInventory THEN inventory ELSE m.inv
    /\ LET cleared == missing \ {m.inv.newest - d : d \in m.inv.mask}
       IN  missing' \in {cleared, cleared \cup {m.seg}}
    /\ UNCHANGED peerVars

Lose(m) ==
    /\ net' = net \ {m}
    /\ UNCHANGED <<peerVars, neighbourVars>>

(* AVAILABILITY_TTL and MISSING_TTL, both 15 s. *)
InventoryExpires ==
    /\ inventory # NoInventory
    /\ inventory' = NoInventory
    /\ UNCHANGED <<peerVars, net, missing>>

MissingStays(s) ==  \* mutated: an exact negative answer has no end
    /\ s \in missing
    /\ UNCHANGED vars

MissingExpires(s) ==
    /\ s \in missing
    /\ missing' = missing \ {s}
    /\ UNCHANGED <<peerVars, net, inventory>>

-----------------------------------------------------------------------------
Next ==
    \/ \E s \in Segs : NewManifest(s) \/ Save(s) \/ Prune(s)
    \/ \E s \in Wanted : Refuse(s) \/ MissingExpires(s)
    \/ Restart
    \/ SendPong
    \/ \E m \in net : OnPong(m) \/ OnNotFound(m) \/ Lose(m)
    \/ InventoryExpires

Spec == Init /\ [][Next]_vars

(* A datagram does not stay in the network for ever, and the clock runs.   *)
(* Each inventory that arrives puts off the expiry of the entry; a         *)
(* negative answer expires on its day.                                     *)
Renewed == \E m \in net : m.inv # NoInventory /\ (OnPong(m) \/ OnNotFound(m))

Clock ==
    /\ WF_vars(\E m \in net : OnPong(m) \/ OnNotFound(m) \/ Lose(m))
    /\ WF_vars(InventoryExpires \/ Renewed)
    /\ \A s \in Wanted : WF_vars(MissingExpires(s))

FairSpec == Spec /\ Clock

-----------------------------------------------------------------------------
(* Properties.                                                             *)

Inventories ==
    [newest : Segs, mask : SUBSET (0 .. MaskBits - 1)] \cup {NoInventory}

(* The types; a datagram and the neighbour's entry hold an inventory. *)
TypeOK ==
    /\ edge \in 0..LastSegment
    /\ newest \in edge..LastSegment
    /\ store \subseteq ever /\ ever \subseteq Segs
    /\ playback \subseteq Segs
    /\ \A m \in net :
          /\ m.inv \in Inventories
          /\ m = Pong(m.inv) \/ (m = NotFound(m.seg, m.inv) /\ m.seg \in Wanted)
    /\ Cardinality(net) <= MaxFlight
    /\ inventory \in Inventories
    /\ missing \subseteq Wanted

(* What the player is told to play is listed by the current manifest and   *)
(* on disk, after every change of either and after every GET's filtering   *)
(* (refresh_playback_manifest, prune_segments, filter_playlist).           *)
PlaybackOnDisk == playback \subseteq Live /\ Served(playback) \subseteq store

(* The player stays behind: as long as there is a playlist, Holdback       *)
(* listed and stored segments come after its last one (playback_playlist:  *)
(* "so a live player stays behind the replication edge").                  *)
HeldBack ==
    \A p \in playback : Cardinality({s \in Live \cap store : s > p}) >= Holdback

(* Whatever PONGs are lost, late or out of order, a neighbour believes     *)
(* that the peer has a segment only if it once had it.                     *)
YesWasTrue == \A s \in Segs : Says(s) = "yes" => s \in ever

(* Nor does it believe so for good after the segment has been pruned       *)
(* (AVAILABILITY_TTL, record_availability).                                *)
StaleYesEnds ==
    \A s \in Segs : <>[](s \notin store) => <>[](Says(s) # "yes")

(* A neighbour that was refused is not kept from asking for good as long   *)
(* as the peer has the segment (MISSING_TTL, record_availability).         *)
DenialEnds ==
    \A s \in Segs : <>[](s \in store) => []<>(Says(s) # "no")

(* The playlist "advances media sequence appropriately" (SPEC.md 5.4,      *)
(* playback_playlist): while the manifests roll on, the number of the      *)
(* first segment, which is the media sequence, does not go back.           *)
MediaSequence(list) == CHOOSE s \in list : \A t \in list : s <= t

MediaSequenceAdvances ==
    [][playback # {} /\ playback' # {} /\ edge <= edge' =>
            MediaSequence(playback) <= MediaSequence(playback')]_vars

=============================================================================
