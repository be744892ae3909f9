# qstream in TLA+

qstream replicates a live HLS playlist and its segment files over UDP: a
master serves them, peers pull them from the master and from each other.
This directory specifies the parts of it that are hard to test, model-checks
them with TLC and proves the central results with TLAPS.

## 1. The system

Every node, master or peer, is one single-threaded loop around one UDP
socket: receive a datagram (or time out at the earliest deadline), dispatch it
(`Node::handle`), run the timers (`Node::tick`), and, in a peer, schedule
downloads (`schedule_jobs`). HTTP threads only read files and one snapshot.
So there is no concurrency inside a node; what is hard is between nodes
(datagrams lost, duplicated, late, out of order; crashes) and along long
sequences of loop iterations.

| Component | State | Operations | Talks to |
|---|---|---|---|
| Segment transfer (`transfer.rs`) | `ReceiverTransfer`: packets, range, retries, outcome; `SenderTransfer`: range, packets sent, ACK timer | `start_receiver`, `serve`, `on_content`, `on_ack`, `on_not_found`, `tick` | the other node, by datagrams; the scheduler, by outcomes |
| Transfer registry (`transfer.rs`) | all transfers of a node by 16-bit ID, a shared limit of 32 | routing by ID, fresh IDs | the node loop |
| Download scheduler (`peer.rs`) | `pull_queue`, `queued`, `tried`, `failed_at`, `retry_after`, `unresponsive_hits`, `active` | `sync_queue`, reap, fill, `pick_peer` | the registry, `node.peers`, the inventories, the disk |
| Origin seeding (`node.rs`) | inventories, missing marks, seed leases | `record_availability`, `record_missing`, `origin_seed_allowed`, prune | PONG, SEGMENT_NOT_FOUND, `serve` |
| Membership (`node.rs`, `peer.rs`, `server.rs`) | `peers`, `paths`, pending handshakes, parents | handshake, PING/PONG, LAN beacon, PEERLIST, TTL, eviction | the scheduler |
| Playback playlist (`http.rs`, `peer.rs`) | `playback.m3u8` | filter, hold back, MEDIA-SEQUENCE | the player |
| Inventory and codec (`protocol.rs`) | none | encode, decode, 16-entry bitmaps | all messages |
| Fault injector (`fault.rs`) | held datagrams, a burst flag | send, drain | every send |
| HTTP, UPnP, statistics, CLI, log, lab scripts | none of the protocol's | I/O and text | |

What makes each correct:

- *Transfer*: a file is written only when whole; a download ends once and
  always; requester and server agree on the range despite old datagrams; a
  server never keeps a sender for ever, and counts a serve only if the file
  was saved.
- *Registry*: a datagram reaches only the transfer it belongs to; a full
  registry harms no transfer that is under way.
- *Scheduler*: no listed segment is forgotten, none is pulled twice at once or
  when it is already stored;
  the queue never stands still for good; only unresponsive peers are evicted.
- *Origin seeding*: two leases per segment unless nobody else can serve; a
  lease that no longer helps does not starve the others.
- *Membership*: a live node stays known or is found again; traffic for one
  node is not sent to another.
- *Playback*: every segment listed is on disk and in the manifest, the player
  stays behind the edge, and the media sequence does not run backwards.
- *Inventory*: nobody believes in a segment that never was there, nor for good
  in one that is gone, nor is kept from asking for good.
- *Codec and fault injector*: what arrives is what was meant; nothing is kept
  for ever, and a swap is one of neighbours.

PROJECT.json lists the hazards of this code line by line, with the properties
that cover each; those without one carry a note, and section 9 says why.

## 2. Modules

| Module | What it is |
|---|---|
| `FileDelivery` | abstract: what a transfer promises the scheduler and the accounting |
| `SegmentTransfer` | one transfer: receiver, senders, datagrams, faults |
| `MCSegmentTransfer` | instances for TLC; the patient environment |
| `SegmentTransferProofs` | theorems about `SegmentTransfer`, for TLAPS |
| `Replication` | abstract: what the download scheduler does with jobs, without sources, slots and order |
| `Scheduler` | the loop of a peer and its download scheduler |
| `MCScheduler` | instances for TLC: playlists, inventories |
| `OriginSeeding` | the master's admission of peers to one segment |
| `OriginSeedingProofs` | theorems about `OriginSeeding`, for TLAPS |
| `SchedulerProofs` | theorems about `Scheduler`, for TLAPS |
| `Membership` | who knows whom: handshakes, peerlist, PING, restarts |
| `MCMembership` | the instance of `Membership` for TLC: the links with late PINGs |
| `MembershipProofs` | theorems about `Membership`, for TLAPS |
| `PeerStore` | a peer's files, its playback playlist, and a neighbour's view of them |
| `PeerStoreProofs` | theorems about `PeerStore`, for TLAPS |
| `SeqFilter`, `SeqFilterProofs` | `Keep`, the filter of a sequence, and the facts about it |
| `Codec` | the wire format: encode and decode |
| `CodecProofs` | theorems about `Codec`, for TLAPS |
| `SendPath` | a datagram on its way through codec and fault injector |
| `MCSendPath` | the instance of `SendPath` for TLC: all messages |
| `SendPathProofs` | theorems about `SendPath`, for TLAPS |

`SegmentTransfer` implements `FileDelivery`; `Scheduler` uses a pull as
`FileDelivery` promises it, reduced to its outcome, and so do the peers of
`OriginSeeding`, whose requests are refused or served. `Scheduler` in turn
implements `Replication`. The other modules are
tied by what they leave to each other: `Membership` justifies that `Scheduler`
lets peers come and go, and `OriginSeeding` that they register again;
`PeerStore` says what the inventories are worth that `Scheduler` draws freely;
`SendPath` produces the swaps, copies and losses that the network of
`SegmentTransfer` has. Operators marked "mutated"
stand next to the definition they get wrong; they are used by nothing here and
name the mistake each property is there to catch.

## 3. SegmentTransfer and the code

One transfer ID between one requester and one server. An action is a handler
of one datagram, with every reply it sends, or one timer.

| Action | Code |
|---|---|
| `StartReceiver` | `TransferRegistry::start_receiver` |
| `OnRequest` | `Node::handle` SEGMENT_REQUEST, `serve`, `reject_not_found` |
| `OnContent`, `OnStrayContent` | `on_content`, `advance`, `complete`; the grace period's re-ACK |
| `OnProgress`, `OnComplete`, `OnStrayAck` | `on_ack` of registry and sender |
| `OnNotFound` | `on_not_found` |
| `ReceiverTick`, `GraceExpire` | `ReceiverTransfer::on_tick`, registry `tick` |
| `SenderSend`, `SenderTimeout` | `SenderTransfer::tick`, `send_packets` |
| `StoreChanges` | `prune_segments`, or the server obtaining the file |
| `SenderCrash`, `ReceiverCrash`, `Lose` | process death, the network |

`rstate` is the life of the receiver: `active` (no outcome), `ok` (in its grace
period), `spoiled` (an outcome overwritten in the grace period), `failed`,
`gone`. `rStart = 0` stands for `total == None`. Deadlines are abstracted to
whether they are armed: a timer may fire at any moment it is armed, so every
choice of the adaptive timeouts is covered. One call of `on_tick` may find both
of its timers due: `due` says which. `net` is a set; that two equal datagrams
are both in flight shows as a delivery that leaves the datagram there, at most
`MaxDups` times in a run. A datagram that stays in `net` for ever is as good as
lost; `Lose`, bounded by `MaxLosses`, is there for `Converges`, where all
others must arrive.

A sender holds the file it read when the request arrived, so `StoreChanges`
does not touch it. A write that fails ("disk"), an origin that defers
("not_ready"), crashes and a changing store are switched on by `Faults`. Other
transfers at the server enter as their number, `OtherTransfers`, chosen anew at
each request.

Not in the model: the payload of packets; files beyond 65535 packets
(`packet_count` caps their number, and `N` is the capped one); a transfer ID in
use twice.

## 4. Scheduler and the code

`pc` walks through one iteration of the loop in `peer::run`: `recv` (one
datagram or none), `timers`, `reap` and `fill` (the two halves of
`schedule_jobs`). A pull is its outcome: `PullAnswered` when a datagram ends
it, `PullExpires` when a timer does. The reaping order is a choice, as that of
a `HashMap` is.

| Action | Code |
|---|---|
| `NewManifest`, `SameManifest` | `Event::ManifestResponse`, `write_manifest`, `sync_queue` |
| `Register`, `Forget` | handshakes and PINGs; `prune_peers`, `pending_handshakes` |
| `PullAnswered`, `PullExpires` | the outcome of a receiver appears |
| `Prune` | `prune_segments` |
| `CooldownEnds`, `RetryCooldownEnds` | `FAIL_RETRY_COOLDOWN` in `sync_queue` and `pick_peer` |
| `Reap` (`ReapOk`, `ReapNotReady`, `ReapFailed`, `JudgePeer`) | part 1 of `schedule_jobs` |
| `Fill` (`Candidates`, `StartPull`) | part 2, `pick_peer`, `prefer_advertised_peers` |
| `Restart` | a crash, and a start on the same `data_dir` |

`live` is the list of segments in `live.m3u8`; a pair `<<m, m>>` in
`ManifestSteps` is a text that changed around the same segments. Every job of
`active` has a slot. `pick_peer` draws one of its candidates by weights that are
never zero, so `Fill` takes any of them; scores are left out. What the
inventories say is drawn from `Inventories` at each choice, so PONG and
NOT_FOUND may have changed them at will; `LanOf` and the known peers decide
`effective_addr`. `streak` is a history variable: the unresponsive pulls in a
row that `unresponsive_hits` is meant to count; `synced` says that the process
has synchronised the manifest on disk, which a restarted one has not. An I/O error that makes
`peer::run` return is a crash.

### OriginSeeding

One segment at the master, the peers that ask for it, and what the master
knows of them; leases of different segments are independent.

| Action | Code |
|---|---|
| `OnRequest` (`Viable`, `Sources`, `LeaseAllowed`, `Admitted`) | `Node::handle` SEGMENT_REQUEST, `origin_seed_allowed`, `seed_lease_allowed`, the next tick's `prune_origin_seeders` |
| `Register` | `register_peer`, by a handshake or PING |
| `SendPong` (`CanSay`), `OnPong` | the answer to PING, `announce_availability`; `record_pong`, `record_availability` |
| `InventoryExpires`, `PathExpires` | `peer_availability`'s 15 s, `PathState::fresh`'s 30 s |
| `MasterPrunes`, `MasterRestart` | `prune_segments`; a crash and a start on the same files |
| `Ask`, `PullFails`, `Cooldown`, `OriginDelivers`, `OverlayDelivers` | `schedule_jobs`, reduced to one segment |
| `Crash` | a peer leaves for good |

`inventory` holds what `peer_availability` answers for the segment: yes, no, or
unknown, which an expired or absent inventory gives too. A PONG in flight keeps
what was true when it was sent and may arrive any time later, after newer ones
as well. A peer never loses a stored segment in the model: with equal retention
times the master's file is the older one. The two places where the master lets a
peer become `denied` or `served` are the two results of `origin_seed_allowed`.

### Membership

`known[n]` is the key set of `node.peers` at `n`. Handshakes and PINGs are
datagrams, as they race with timers, evictions and crashes; a poll of the
peerlist is one step. A PING registers an unknown source, at a peer and at the
master, whether or not its sender still knows the receiver by then. It arrives
before anything else happens, or stays in `net` for as long as it likes; the
latter only on the links in `Slow`, which is a bound. `Lan` are the nodes that
hear each other's broadcasts, the master among them if it is on that LAN and
has the same port. PONGs only keep entries fresh: that they fail to is the
choice of when `Forget` happens.

| Action | Code |
|---|---|
| `Start`, `Crash` | `peer::run` and the server from their first line; process death |
| `OnRequest`, `OnResponse` | `Node::handle` HANDSHAKE_REQUEST; `Event::HandshakeResponse` |
| `RetryHandshake` | the retry of the bootstrap handshake until `handshake_done` |
| `PollPeers` | PEERLIST_REQUEST, its answer, and `Event::PeerlistResponse` |
| `HandshakeExpires` | the expiry of `pending_handshakes` |
| `Ping`, `Beacon` (`Probes`) | `ping_cycle`: to everybody known; a peer's broadcast to its LAN |
| `OnPing` (`HearsPing`) | `Node::handle` PING, but for the PONG |
| `Forget` | `prune_peers`, and eviction; at peers only, as the master's loop has neither |

A crash, a loss and the silence of a running node count as faults and are
bounded by `MaxFaults`; a loss at a dead process and forgetting a dead node do
not. A peer is its socket address. Left out: the filters of the peerlist by
kind of address (all nodes of the model can reach each other), its limit of 16
entries, and the flags, which are inputs of `Scheduler` (`Parents`, `LanOf`).

### PeerStore

A segment is its number. `live.m3u8` lists the `ListLength` newest segments up
to `edge`, and a manifest response may be an older one that was late.

| Action | Code |
|---|---|
| `NewManifest`, `PlaybackPlaylist` | `Event::ManifestResponse`, `refresh_playback_manifest`, `playback_playlist` |
| `Save` | a pull that ended well in `schedule_jobs`; writing the playlist may fail |
| `Served` | `filter_playlist` |
| `Prune`, `Restart` | `prune_segments`; the start of `run`, which removes `playback.m3u8` |
| `Announces`, `SendPong`, `Availability` | `announce_availability`, the answer to PING, `segment_availability` |
| `Refuse` | SEGMENT_NOT_FOUND, for an absent file or a full registry |
| `OnPong`, `OnNotFound`, `RecordAvailability` | `Node::handle`, `record_availability`, `record_missing` |
| `Says`, `Contains` | `peer_availability`, `SegmentAvailability::contains` |
| `MissingExpires`, `InventoryExpires` | the two limits of 15 s |

### Codec and SendPath

`Codec` has `encode` and `decode` field by field: numbers become bytes of base
`Base`, in the widths of the code (`U16Bytes`, `U16At`...: to_be_bytes and
from_be_bytes); addresses, peerlists and inventories are packed and unpacked;
lengths are cut to 16 bits and checked. Magic and version are constants and left
out, and a message type stands for its code. `Understood` is no code: it says
what a receiver should make of a message, the addresses that have no six bytes
left out. `wire` is what has been given to the socket; what does not fit into a
UDP datagram is lost there (`Fits`).
`SendPath` passes the messages of `Outgoing` through the injector, in time:

| Action | Code |
|---|---|
| `Send` (`SendInBurst`, `SendSwapped`, `Hold`, `SendPlain`, `Pipeline`) | `FaultInjector::send`, `pipeline` |
| `Drain` | `FaultInjector::drain`, at every turn of a node's loop |
| `Tick`, `Overdue` | the loop sleeps until `next_deadline` |

Rolls are choices, so every percentage is covered. Ages and waits are relative
to now; the loop also wakes up for datagrams, so `Drain` may happen at any time,
but time does not pass a deadline.

## 5. Runs

Every run of `SegmentTransfer` allows deadlock, as a transfer really ends; the
other runs do not.

| Run | Question | Result |
|---|---|---|
| `transfer_faults` | Do the invariants hold, is `FileDelivery` implemented, and do timers alone end every download and free every sender, under all faults? | holds |
| `transfer_converges` | Does the file arrive, and the server hear of it, within the retry budgets, while the window doubles, is cut by its cap and then by the end of the file? | holds |
| `transfer_abort` | Does a transfer survive a duplicate of its request (SPEC.md 7.1)? | violated |
| `queue` | Is no listed segment forgotten, none pulled or queued twice or once it is stored, nobody evicted without a full row of pulls left unanswered (deferrals aside), and `Replication` implemented? | holds |
| `served` | Is everything stored in the end when sources deliver or defer, after restarts, and with a peer that has the master's name? | holds |
| `idle` | Does the queue always move on (`pick_peer`)? | violated |
| `seeding` | Is a peer refused only when another one has stored the segment, and does everyone who stays get it while the master has it? | holds |
| `membership` | Do nodes that run find each other again, and is the one exception (both sides have forgotten, nothing between them is in flight, the master hears no beacon) for good? | holds |
| `origin_lost` | Does a peer that runs always find its master again (README.md, SPEC.md 7.4)? | violated |
| `store` | Is the player told only of files that are there, and behind the edge; does a neighbour never believe in what was not there, nor for good in what is gone, nor stay denied for good? | holds |
| `sequence` | Does the media sequence of the playback playlist advance (SPEC.md 5.4)? | violated |
| `send_path` | Does every message arrive as it was meant, are only neighbours swapped, and is nothing kept too long? | holds |

What the violations show, in short; PROJECT.json has the lines under "findings":

- `transfer_abort`: the request is resent or duplicated; the registry is full,
  the transfer itself included; the refusal of the copy reaches a receiver that
  is collecting packets and fails it as "not found".
- `idle`: a pull from the master fails after it began; the other peer lacks the
  segment. It counts as untried, so the job stays first in the queue; the
  master is tried, so it is no candidate. While the playlist stays nothing is
  pulled; when it rolls on, the newer segments are put in front and pulled, and
  all that is behind the job waits until the playlist drops its segment.
- `origin_lost`: the master dies, a peer drops it, and the master starts again.
  The peer has done its handshake and will not repeat it; the master knows
  nobody and pings nobody, and no old PING of the peer arrives. The peer goes on polling manifest and peerlist, which
  register nobody, and has no master to pull from. A master on the LAN of the
  peer and on its port would be found again by the peer's beacon; in the run the
  two peers share a LAN and the master is elsewhere.
- `sequence`: segments 1 and 2 are listed, 2 is pulled first, and 1 arrives
  when 2 is the first one of `playback.m3u8`: the playlist now begins with 1.

More disagreements appeared while the modules were written. They follow from
the definitions named and have no run of their own:

- A full registry answers an unflagged SEGMENT_NOT_FOUND for a file it has
  (`OnRequest`), which SPEC.md 5.2 reserves for absent files; it is the answer
  that `transfer_abort` ends with. `OnNotFound` spoils a receiver in its grace
  period, which SPEC.md 7.1 says lasts four seconds.
- A copy of the request that arrives after COMPLETE makes the server send its
  first window again; the receiver in its grace period answers COMPLETE, and the
  serve is credited once more (`served` may be 2), though DEVLOG.md has
  `uploaded_bytes` as completed payload.
- A deferred answer does not clear `unresponsive_hits` (`ReapNotReady`,
  peer.rs:434), so a peer may be evicted after timeouts that are not
  consecutive, against SPEC.md:309-310. Hence `EvictionIsEarned` leaves
  deferrals out of the row; with `RowAfter` breaking the row at a deferral, as
  SPEC.md has it, TLC finds it violated.
- `sync_queue` drops a segment that is in flight from `queued` when a manifest
  does not list it (`SyncQueue`, peer.rs:726); if an older response that was
  late lists it again, it is queued and pulled twice, against peer.rs:119 and
  peer.rs:753-754. Hence the premise of `OnePullAtATime` and `StoredOnceOnly`,
  and `queue` has no late manifests.
- A failed segment is queued again only when the text of the playlist changes
  (peer.rs:193), while REPORT.md:82-84 has it re-queued by the next sync; a
  restarted peer finds its manifest unchanged and reconciles nothing
  (peer.rs:675), while SPEC.md:178-179 says each response does. `served` has
  a playlist whose text changes again.
- A datagram that was held back too long is sent past the latency and the loss
  that fault.rs:4-6 and 14-15 promise for all datagrams (`Drain`). With a latency longer
  than HOLD_MAX it overtakes all that are delayed, so `OnlyNeighboursSwap` is
  stated for latencies up to HOLD_MAX; and while another datagram is delayed
  it may be held as long as the latency, so `LeavesInTime` names the larger of
  the two.

## 6. Bounds

*Transfers.* `transfer_faults` has a file of more than one window, so that
each of advance, nudge, retransmission and completion occurs, with every
fault. `transfer_converges` has seven packets, initial window 1 and cap 3: the
window doubles from one packet to two, is cut by the cap to packets 4 to 6, and
by the end of the file to packet 7, with two losses and two duplicate
deliveries. The retry limits are 1 or 2 instead of 8 and 30; they only
decide when a side gives up, which it may do in either order. Capacity and
`OtherTransfers` make the registry full with and without the transfer's own
sender. The proofs remove all of these bounds.

*Scheduler.* Two slots, the master and one peer, two or three segments: two
jobs compete for slots and sources, one segment rolls out while another is
added, and in `served` the peer shares the master's display name, so that
`effective_addr` sends the master's traffic to it. `EvictAfter` is 2: a count
can be reset or left alone between two timeouts, and the code's 3 adds nothing
to that; sources answer in each way, "not found" apart, which the scheduler
treats as any other failure.
Nothing in the module is a counter that grows. The playlists roll on by one
segment at a time, and `queue` has no peer that leaves (`Leaving = {}`), which
`served` has.

*Seeding.* Two peers on the same side and a limit of one (the code's default is
two): one holds the lease, the other is refused, leaves or outlives it. Two
PONGs in flight are enough for an old "no" to arrive after a "yes" and for the
PONGs of both peers to cross. That peers of different sides do not serve each
other is in the theorem only, where `Remote`, `Limit`, `Peers` and `MaxPongs` are
arbitrary.

*Membership.* The master and two peers, each of which may be the one that crashes
or is forgotten. In `membership` the master shares a LAN with `p`, which
`StrangersStay` leaves out, and not with `q`, of which it speaks; the PINGs from
`q` to the master may be late (`Slow`), as those can arrive at a master that `q`
has evicted and that has restarted since. `origin_lost` has the two peers on a LAN
without the master. One fault, since what is no fault follows from it without a
bound: everybody may forget the dead node, and its datagrams are lost. The
theorem has any LAN, any late PINGs and any number of faults.

*Store.* Three segments in a playlist of two, one of them held back, so that a
segment rolls out, is pruned, and may be listed again by a late response; a
mask of two bits, so that one segment is outside of it. Two datagrams are
enough to arrive in the wrong order. The neighbour asks for segment 1, which
lives through all of this. The theorems remove these bounds.

*Send path.* Base 4 instead of 256 keeps the carries between bytes; the
messages have values at the edges of their widths, among them lengths around
the longest payload, scaled down to `MaxPayload` = 14. Two requests go before
the message that is looked at, so that there is one to swap with and one to be
delayed. The latency is none, HOLD_MAX and more than HOLD_MAX; one unit in
four is a burst.

## 7. Fairness

`SegmentTransfer!Fairness`: both loops wake up at the earliest deadline and
then call `tick`, so a timer that stays armed fires. Nothing is assumed of the
network. `PatientSpec` is the environment of `Converges` and says what "the
retry budgets cover" means: timers fire only when nothing is in flight, before
the first packet at most the losses that the one resend repairs, and
datagrams not lost arrive.

`Scheduler!Fairness`: the loop turns, polls the manifest, and the master's
answers and PINGs arrive again and again; every pull ends, which is
`DeliveryEnds`; every cooldown passes. These are strong where the loop passes
through the state in which they can happen only once per iteration.
`ServedSpec` adds that a segment asked for again and again is once delivered;
without it a source could defer for ever, which the code cannot prevent. The
property itself assumes that restarts end (`<>[][~Restart]_vars`).

`OriginSeeding!Fairness`: a peer asks again (`schedule_jobs`, its cooldown
passes), its request reaches the master again and again and is once served, a
transfer that is started again and again succeeds once, and the inventory of a
peer that has left runs out. PONGs and registrations may fail for ever, and no
path is assumed to go stale.

`Membership!Fairness`: a dead process is started again, the timers of a running
loop fire (`RetryHandshake`, `PollPeers`, `HandshakeExpires`, `Ping`), and PINGs and
handshakes arrive unless they are lost, which `MaxFaults` bounds. Nothing is
assumed of beacons and of `Forget`: a beacon may never arrive. Each property speaks only of nodes that
run for good in the end.

`PeerStore!Clock`: no datagram stays in the network for ever, and the two
limits of 15 s pass; the one of the inventory starts anew with each inventory,
the one of a negative answer does not. `SendPath`: time passes, and the loop
drains when its deadline has come (`Node::next_deadline` includes that of the
injector).

## 8. Proofs

`SegmentTransferProofs` proves, for every file size, window, retry budget,
capacity, set of faults and bound on duplicates and losses (`SizesAssumption`,
`LimitsAssumption`):

- `TypeCorrect`, `WindowTheorem`, `WholeFile`, `SenderFollows`,
  `SenderIsWoken`, `CreditTheorem`, `AdvanceNeverUnderflows`: the invariants of
  `transfer_faults`;
- `Implements`: `Spec => Delivery!Spec`, the safety half of the refinement.

None of these is inductive by itself. Whether the sender's range is one the
receiver asked for depends on the ACKs still in flight; whether a COMPLETE may
be credited, on how it came to be sent. The invariant `IInv` therefore speaks
of the datagrams too: an ACK in flight names a range of the file that the
receiver has asked for and whose prefix it holds; a content packet in flight
has been asked for; a COMPLETE is in flight only when the file was saved. With
`WindowCoversPrefix` this is inductive: the receiver's range only moves
forward, so what an old datagram may say stays true. `Invariance` proves it
action by action; `FullIsWhole` turns the count of packets the code compares
into the set of packets (a subset of `1..N` with `N` members is `1..N`). For
`Implements` each action is mapped to a step of `FileDelivery` or to a stutter;
`CreditOnlySaved` is what makes `OnComplete` a `Credit`.

`OriginSeedingProofs` proves `SeedingTypes` and `NeverTheOnlyPath`, the
invariants of `seeding`. A refusal rests on an inventory that the master has
heard, and that one on a PONG that was in flight before; the invariant
`InventoryIsTrue` says of both that a positive one comes from a peer that stored
the segment. Storing is never undone, so a PONG may be as late as it likes.

`SchedulerProofs` proves, for every set of segments and peers, every set of
playlists and inventories and all limits (`SchedulerAssumption`):

- `SchedulerTypes`, among it that a count of unresponsive pulls stays below the
  limit;
- `NoneForgotten`: the invariant `Ledger` says what `queued` is worth: a queued
  segment is wanted, and is stored or under way (in `queue` or in flight).
  Reaping takes a segment out of `queued` only together with a record of where
  it went;
- `OnePullAtATime`: under `RollsOn(rank)`, an order of the segments in which a
  playlist never lists again what an earlier one has dropped or passed over.
  Whatever is under way without being in `queued` is then behind everything
  that is listed (`OneInv`), so `sync_queue` cannot add it again. `MCRolling` is such a
  set of playlists. Without the premise the theorem is false, as section 5
  says;
- `StoredOnceOnly`, under the same premise: neither the queue nor a job that has
  not succeeded has a stored segment (`Unstored`). A job that ends well stores
  its file; that nobody else has it in the queue or in a slot is `OnePullEach`,
  so the two theorems build on each other;
- `ReplicationImplemented`, under that premise too: `Range(queue)` is what waits,
  the files of the slots without a good result are what is pulled, and `failed`
  names what was given up. A download that ends well is a `Finish` when its last
  packet comes and a stutter when it is reaped; one that fails, a stutter first
  and a `Return` or a `GiveUp` when it is reaped. The hard step is a new playlist:
  what `sync_queue` adds must be in nobody's hands though it looks only at
  `queued` (`ListedJobsAreQueued`), and must leave nothing out though `queued`
  may hold it (`QueuedIsCovered`);
- `EvictionsEarned`: `hits` is at most `streak` (`Fair`), the history of the
  pulls in a row that a peer left unanswered, so that an eviction finds a full
  row, and it happens at the reaping of a pull that adds to it. Deferred answers
  are included: they leave both as they are (`ReapNotReady`).

The module begins with facts about sequences (`ConcatFacts`, `ReverseFacts`...).
Those about `Keep`, which filters a sequence, are in `SeqFilterProofs`; it is
written with ranks instead of recursion so that they can be proved. `KeepLists`
says that the members kept are listed in their order and none is left out;
`KeepIs`, that a sequence which does that is the one that `Keep` returns; and
`KeepKeep`, that filtering twice is filtering once.

`MembershipProofs` proves `MembershipTypes` and `StrangersForGood`, for any LAN and
any links with late PINGs. The second is an action property: when a peer and the
master have forgotten each other and nothing between them is in flight, neither a
handshake nor a PING, no step of anybody but a crash of the peer changes that
(`CutStep`), unless the master hears the peer's beacons. Both conditions are
needed: TLC finds the old PING that a restarted master registers, and the beacon.
PINGs are sent only to nodes that are known, and by a beacon only within the LAN,
so none crosses the cut (`CutProbes`). The proof needs that a peer that is down
has forgotten its handshake (`DownForgets`), so that a restart is the one way out.

`PeerStoreProofs` proves `StoreTypes`, `PlaylistOnDisk`, `PlayerHeldBack` and
`NoFalseYes`. The invariant has three parts: the playlist is one of stored and
listed segments with `Holdback` newer ones behind it; every inventory in flight
is honest, that is, each bit names a segment that has been stored at some time;
so is the one the neighbour recorded. `ever` only grows, so an old inventory
stays honest. `AvailabilityFacts` shows that the mask and `Contains` count the
same way; `LeastElement` and `NewestIsGreatest` that a newest segment exists.

`CodecProofs` proves, for every base and hence every width, and for names, data
and peerlists of any length:

- `RoundTrip`: what `encode` makes of a message, `decode` turns into what was
  meant, as long as the payload's length fits into its 16 bits. Numbers are
  split and put together again (`TwoDigits`). The rest is a matter of positions:
  a value whose bytes begin at position i of a payload (`Holds`) is read back at
  i (`U16Back`, `AddressBack`, `EntryBack`...), and `HoldsParts` says where the
  parts of a concatenation begin. For a peerlist, the k-th entry begins at
  7(k-1)+1, and the entries that `encode_peers` leaves out and those that
  `decode_peers` skips are filtered one after the other (`PeersBack`, `KeepKeep`).
- `DecodeTotal`: whatever header and payload arrive, `decode` rejects the
  datagram or returns a well-typed message. In TLA+ as in the code this means
  that no index lies beyond the payload: `WellSized` has every length check
  that the indices need.

`SendPathProofs` proves all the invariants of `send_path`, for every list of
messages, all latencies, every HOLD_MAX, every burst and all rolls
(`SendPathAssumption`):

- `LeavesOnTime`. While a datagram is held nothing joins the delayed ones, since
  a second datagram releases the first; so every deadline in the queue was set
  before, and the age of the held one and the wait of any delayed one add up to
  the latency at most (`HeldLast`). The loop wakes up for the last of these, and
  then for the held one.
- `SwapsNeighboursOnly`. The invariant `Ordered` looks at the wire and the
  queue behind it as one sequence, `Released`: a datagram keeps its place in it
  from the moment it is released, so draining does not change it. The invariant
  says of it what `OnlyNeighboursSwap` says of the wire (`Neighbourly`), and
  that the held datagram is the newest one that is left. The one step that goes
  past the queue is the flush of a held datagram that grew old; by then the
  queue is empty if the latency is at most HOLD_MAX (`RipeIsLast`), which is
  the invariant of `LeavesOnTime` again.
- `DeliversWhatWasSent`: a datagram that is held has not been released, and none
  is more than twice in `Released`; with `RoundTrip` each is understood as
  it was meant.
- `SendPathTypes`: the queue is in the order of its deadlines, which `drain` and
  `next_deadline` rely on.

Every safety invariant and action property of a passing run is so proved for all
values of the constants, three of the scheduler's under the premise `RollsOn`.
Left to TLC: liveness (`DeliveryEnds`, `Converges`,
`EventuallyStored`, `EveryoneServed`, `FoundOrStrangers`, `OverlayForms`,
`StaleYesEnds`, `DenialEnds`, `EverythingLeaves`), as the prover does not reason
about fairness and ENABLED.

## 9. Not modelled

- *Two transfers in one registry.* ACKs and packets are routed by ID alone, and
  each requester draws its IDs at random from 65535; two at one server may
  coincide. It takes two receivers, the senders that replace each other and one
  network for both. With the faults of `transfer_faults` that is out of TLC's
  reach, and without them it says little. `OtherTransfers` has what other
  transfers do to the shared limit.
- *The limits of the peerlist.* 16 entries, those that served least first, while
  the master never forgets: dead peers can crowd out live ones. It takes more
  peers than TLC can explore together with handshakes. The filters by kind of
  address need NAT and hairpin behaviour, which is not in the source.
- *Time in transfers.* The adaptive timeouts, pacing and gap estimates only
  choose when a timer fires, and it may fire at any time in the model.
- *Files of more than 65535 packets*, and an unreadable manifest in
  `prune_segments`: see the notes in PROJECT.json.
- *A playback playlist that cannot be removed.* `refresh_playback_manifest`
  (peer.rs:701) and the start of `run` (peer.rs:68) ignore a failing
  `remove_file`; the old playlist would then stay and may list what the manifest
  no longer does, so `PlaybackOnDisk` and `HeldBack` hold only where removing a
  file works. `NewManifest` and `Restart` assume that it does; a playlist that
  cannot be written ends the process there, by the `?` at peer.rs:201.
- *Scores and statistics.* They weigh a choice that the model leaves open, and
  text.
- *UPnP, HTTP transport, command line, logging, lab scripts.* They do I/O or
  formatting and keep no state of the protocol.
