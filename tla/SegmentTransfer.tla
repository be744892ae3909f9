--------------------------- MODULE SegmentTransfer ---------------------------
(***************************************************************************)
(* One download of one segment file: the ReceiverTransfer of the requester *)
(* and the SenderTransfers that its SEGMENT_REQUEST creates at the server  *)
(* (src/src/transfer.rs), joined by UDP datagrams that may be lost,        *)
(* reordered or duplicated.  The receiver owns the window: it names the    *)
(* range of packets it wants next, and every ACK restarts the sender on    *)
(* that range.                                                             *)
(*                                                                         *)
(* Packet payloads are abstracted to packet numbers, and deadlines to      *)
(* timers that may fire whenever the code has them armed: adaptive_quiet,  *)
(* ack_timeout and retry_interval only choose when.                        *)
(***************************************************************************)
EXTENDS Integers, FiniteSets

CONSTANTS
    N,                \* packet_count of the file
    InitialWindow,    \* INITIAL_WINDOW
    MaxWindow,        \* MAX_WINDOW
    SendChunk,        \* SEND_CHUNK
    RetryLimit,       \* RETRY_LIMIT, the receiver's budget
    SenderRetryLimit, \* SENDER_RETRY_LIMIT
    Capacity,         \* MAX_CONCURRENT_TRANSFERS of the server's registry
    OtherTransfers,   \* how many other transfers that registry may hold
    Faults,           \* which of FaultKinds the environment may produce
    MaxDups,          \* bound: deliveries that leave the datagram in flight
    MaxLosses         \* bound: datagrams the network drops explicitly

(* "churn": the server prunes or obtains the file.  "not_ready": the server *)
(* is an origin whose seed admission denies the request.  "disk": the       *)
(* receiver's write fails.  "crash": either process dies.                   *)
FaultKinds == {"churn", "not_ready", "disk", "crash"}

ASSUME SizesAssumption ==
    /\ N \in Nat \ {0}
    /\ InitialWindow \in Nat \ {0}
    /\ MaxWindow \in Nat \ {0}
    /\ SendChunk \in Nat \ {0}

ASSUME LimitsAssumption ==
    /\ RetryLimit \in Nat
    /\ SenderRetryLimit \in Nat
    /\ Capacity \in Nat
    /\ OtherTransfers \subseteq Nat
    /\ Faults \subseteq FaultKinds
    /\ MaxDups \in Nat
    /\ MaxLosses \in Nat

VARIABLES
    net,      \* datagrams in flight
    dups,     \* duplicate deliveries so far
    losses,   \* explicit losses so far
    (* the requester *)
    rstate,   \* life cycle of the ReceiverTransfer
    why,      \* how its pull failed, as schedule_jobs will classify it
    packets,  \* numbers of the packets received
    rStart, rCount, \* the requested range; (0, 0) before the first content
    retries,  \* retry_count
    resent,   \* request_resent
    saved,    \* the file was written and renamed into place
    (* the server *)
    stored,   \* the file is in segment_root
    sLive,    \* the registry holds a SenderTransfer for this id
    sStart, sCount, \* its range
    sSent,    \* range_sent
    sRetries, \* retry_count
    sArmed,   \* ack_deadline.is_some()
    served    \* RegEvent::Served emitted for this transfer

receiverVars == <<rstate, why, packets, rStart, rCount, retries, resent, saved>>
senderVars == <<sLive, sStart, sCount, sSent, sRetries, sArmed, served>>
vars == <<net, dups, losses, receiverVars, stored, senderVars>>

-----------------------------------------------------------------------------
(* Datagrams of the transfer.  Two equal ones in flight are one member of  *)
(* net: the independent delivery of the second is a duplicate delivery.    *)

Request == [type |-> "request"]
Data(pn) == [type |-> "data", pn |-> pn]
Ack(start, count) == [type |-> "ack", start |-> start, count |-> count]
Complete == [type |-> "complete"]
NotFound(retryable) == [type |-> "not_found", retryable |-> retryable]

Messages ==
    [type : {"request", "complete"}]
        \cup [type : {"data"}, pn : Nat]
        \cup [type : {"ack"}, start : Nat, count : Nat]
        \cup [type : {"not_found"}, retryable : BOOLEAN]

Lesser(a, b) == IF a <= b THEN a ELSE b

Window(start, count) == start .. start + count - 1

(* The handler of datagram m runs and sends out.  A delivery that leaves m *)
(* in flight is a duplicate.                                               *)
Receive(m, out) ==
    /\ m \in net
    /\ UNCHANGED losses
    /\ \/ /\ net' = (net \ {m}) \cup out
          /\ UNCHANGED dups
       \/ /\ dups < MaxDups
          /\ net' = net \cup out
          /\ dups' = dups + 1

Send(out) ==
    /\ net' = net \cup out
    /\ UNCHANGED <<dups, losses>>

-----------------------------------------------------------------------------
Init ==
    /\ net = {}
    /\ dups = 0
    /\ losses = 0
    /\ rstate = "idle"
    /\ why = "none"
    /\ packets = {}
    /\ rStart = 0
    /\ rCount = 0
    /\ retries = 0
    /\ resent = FALSE
    /\ saved = FALSE
    /\ stored \in (IF "churn" \in Faults THEN BOOLEAN ELSE {TRUE})
    /\ sLive = FALSE
    /\ sStart = 0
    /\ sCount = 0
    /\ sSent = 0
    /\ sRetries = 0
    /\ sArmed = FALSE
    /\ served = 0

-----------------------------------------------------------------------------
(* The requester.  An idle, failed or gone receiver has no entry in the    *)
(* registry: its other variables are then what it held last.               *)

(* TransferRegistry::start_receiver with a fresh id. *)
StartReceiver ==
    /\ rstate = "idle"
    /\ rstate' = "active"
    /\ Send({Request})
    /\ UNCHANGED <<why, packets, rStart, rCount, retries, resent, saved,
                   stored, senderVars>>

(* ReceiverTransfer::fail, and schedule_jobs removing the receiver before  *)
(* the next datagram is read.                                              *)
Fail(reason) ==
    /\ rstate' = "failed"
    /\ why' = reason

(* The range in force once a content packet is being handled: the first    *)
(* one fixes total and the initial range.                                  *)
CurrentRange ==
    IF rStart = 0 THEN <<1, Lesser(InitialWindow, N)>> ELSE <<rStart, rCount>>

(* ReceiverTransfer::complete: assemble, write, rename, ACK_COMPLETE. *)
FinishFile(m) ==
    /\ UNCHANGED <<retries, resent>>
    /\ \/ /\ rstate' = "ok"
          /\ saved' = TRUE
          /\ UNCHANGED why
          /\ Receive(m, {Complete})
       \/ /\ "disk" \in Faults
          /\ Fail("disk")
          /\ UNCHANGED saved
          /\ Receive(m, {})

(* Mutated forms of the definitions below are named for the mistake. *)
FileFullEarly(held) == Cardinality(held) >= N - 1
FileFullLate(held) == Cardinality(held) > N
RangeHeldShort(held, start, count) == Window(start, count - 1) \subseteq held

(* packets.len() >= total, and ReceiverTransfer::range_complete. *)
FileFull(held) == Cardinality(held) >= N

RangeHeld(held, start, count) == Window(start, count) \subseteq held

NextCountUnclipped(start, count) == Lesser(2 * count, MaxWindow)
NextCountShort(start, count) ==
    Lesser(Lesser(2 * count, MaxWindow), N - (start + count) - 1)

(* ReceiverTransfer::advance: double the window within cap and file. *)
NextCount(start, count) ==
    Lesser(Lesser(2 * count, MaxWindow), N - (start + count) + 1)

(* A new packet inside the range: store it, then finish, advance or wait.  *)
(* That advance never runs past the file, where its u32 subtraction would  *)
(* underflow, is the invariant AdvanceHasRoom.                             *)
StorePacket(m, start, count) ==
    LET full == FileFull(packets \cup {m.pn})
        done == RangeHeld(packets \cup {m.pn}, start, count)
        next == start + count
        size == NextCount(start, count)
    IN  /\ packets' = packets \cup {m.pn}
        /\ \/ /\ full
              /\ rStart' = start
              /\ rCount' = count
              /\ FinishFile(m)
           \/ /\ ~full /\ done
              /\ rStart' = next
              /\ rCount' = size
              /\ retries' = 0
              /\ Receive(m, {Ack(next, size)})
              /\ UNCHANGED <<rstate, why, resent, saved>>
           \/ /\ ~full /\ ~done
              /\ rStart' = start
              /\ rCount' = count
              /\ Receive(m, {})
              /\ UNCHANGED <<rstate, why, retries, resent, saved>>

(* A packet of the file outside the range is answered with the current     *)
(* request; one already held, or beyond the file, is ignored.              *)
NudgeOrIgnore(m, start, count) ==
    /\ rStart' = start
    /\ rCount' = count
    /\ Receive(m, IF m.pn \in (1..N) \ Window(start, count)
                  THEN {Ack(start, count)} ELSE {})
    /\ UNCHANGED <<rstate, why, packets, retries, resent, saved>>

(* ReceiverTransfer::on_content of a receiver without an outcome. *)
OnContent(m) ==
    /\ m.type = "data"
    /\ rstate = "active"
    /\ LET start == CurrentRange[1]
           count == CurrentRange[2]
       IN  IF m.pn \in Window(start, count) \ packets
           THEN StorePacket(m, start, count)
           ELSE NudgeOrIgnore(m, start, count)
    /\ UNCHANGED <<stored, senderVars>>

StrayReplyAlways == {Complete}
StrayReplyNever == {}
StrayReply == IF rstate = "ok" THEN {Complete} ELSE {}

(* on_content after the outcome: in its grace period a finished receiver   *)
(* re-ACKs COMPLETE; with any other outcome, or for an unknown transfer,   *)
(* the packet is dropped.                                                  *)
OnStrayContent(m) ==
    /\ m.type = "data"
    /\ rstate # "active"
    /\ Receive(m, StrayReply)
    /\ UNCHANGED <<receiverVars, stored, senderVars>>

(* TransferRegistry::on_not_found.  It does not look at the outcome: in    *)
(* the grace period it turns a finished receiver's Ok into an Err, which   *)
(* nobody reaps any more but which silences the re-ACKs ("spoiled").       *)
OnNotFound(m) ==
    /\ m.type = "not_found"
    /\ Receive(m, {})
    /\ \/ /\ rstate = "active"
          /\ Fail(IF m.retryable THEN "not_ready" ELSE "not_found")
       \/ /\ rstate \in {"ok", "spoiled"}
          /\ rstate' = "spoiled"
          /\ UNCHANGED why
       \/ /\ rstate \notin {"active", "ok", "spoiled"}
          /\ UNCHANGED <<rstate, why>>
    /\ UNCHANGED <<packets, rStart, rCount, retries, resent, saved,
                   stored, senderVars>>

(* ReceiverTransfer::on_tick.  "response" is the timer of the first answer: *)
(* half the timeout resends the request once and renews the timer, then a  *)
(* still empty receiver gives the peer up.  "quiet" re-requests the range. *)
ReceiverTick(due) ==
    LET silent   == "response" \in due /\ packets = {}
        request  == IF silent /\ ~resent THEN {Request} ELSE {}
        stalled  == "quiet" \in due /\ rStart # 0 /\ ~RangeHeld(packets, rStart, rCount)
    IN  /\ rstate = "active"
        /\ resent' = (resent \/ silent)
        /\ \/ /\ silent /\ resent
              /\ Fail("unresponsive")
              /\ Send({})
              /\ UNCHANGED retries
           \/ /\ ~(silent /\ resent)
              /\ stalled
              /\ retries' = retries + 1
              /\ IF retries' > RetryLimit
                 THEN Fail("stalled") /\ Send(request)
                 ELSE /\ Send(request \cup {Ack(rStart, rCount)})
                      /\ UNCHANGED <<rstate, why>>
           \/ /\ ~(silent /\ resent)
              /\ ~stalled
              /\ Send(request)
              /\ UNCHANGED <<rstate, why, retries>>
        /\ UNCHANGED <<packets, rStart, rCount, saved, stored, senderVars>>

(* TransferRegistry::tick after COMPLETE_GRACE. *)
GraceExpire ==
    /\ rstate \in {"ok", "spoiled"}
    /\ rstate' = "gone"
    /\ UNCHANGED <<net, dups, losses, why, packets, rStart, rCount, retries,
                   resent, saved, stored, senderVars>>

(* The requester's process dies; a restarted one knows nothing of the id. *)
ReceiverCrash ==
    /\ "crash" \in Faults
    /\ rstate \in {"active", "ok", "spoiled"}
    /\ rstate' = "gone"
    /\ UNCHANGED <<net, dups, losses, why, packets, rStart, rCount, retries,
                   resent, saved, stored, senderVars>>

-----------------------------------------------------------------------------
(* The server.                                                             *)

(* SenderTransfer::new replaces whatever sender the id had. *)
NewSender ==
    /\ sLive' = TRUE
    /\ sStart' = 1
    /\ sCount' = Lesser(InitialWindow, N)
    /\ sSent' = 0
    /\ sRetries' = 0
    /\ sArmed' = FALSE

FreeSender ==
    /\ sLive' = FALSE
    /\ sStart' = 0
    /\ sCount' = 0
    /\ sSent' = 0
    /\ sRetries' = 0
    /\ sArmed' = FALSE

(* Node::handle of SEGMENT_REQUEST and TransferRegistry::serve.  An origin *)
(* may deny a segment it has; active_count includes this transfer's own    *)
(* sender, so a repeated request can be refused because of the first one.  *)
OnRequest(m) ==
    /\ m.type = "request"
    /\ \/ /\ "not_ready" \in Faults /\ stored
          /\ Receive(m, {NotFound(TRUE)})
          /\ UNCHANGED senderVars
       \/ \E others \in OtherTransfers :
            LET active == others + (IF sLive THEN 1 ELSE 0)
            IN  IF active >= Capacity \/ ~stored
                THEN /\ Receive(m, {NotFound(FALSE)})
                     /\ UNCHANGED senderVars
                ELSE /\ NewSender
                     /\ Receive(m, {})
                     /\ UNCHANGED served
    /\ UNCHANGED <<receiverVars, stored>>

(* SenderTransfer::on_ack of ACK_PROGRESS: restart on the range named; a   *)
(* range outside the file parks the sender on an empty range.              *)
OnProgress(m) ==
    /\ m.type = "ack"
    /\ sLive
    /\ Receive(m, {})
    /\ sSent' = 0
    /\ IF m.start \in 1..N
       THEN /\ sStart' = m.start
            /\ sCount' = Lesser(m.count, N - m.start + 1)
            /\ sArmed' = FALSE
            /\ sRetries' = 0
       ELSE /\ sStart' = 1
            /\ sCount' = 0
            /\ sArmed' = TRUE
            /\ UNCHANGED sRetries
    /\ UNCHANGED <<receiverVars, stored, sLive, served>>

OnCompleteKeepsSender(m) ==
    /\ m.type = "complete"
    /\ sLive
    /\ Receive(m, {})
    /\ served' = served + 1
    /\ UNCHANGED <<receiverVars, stored, sLive, sStart, sCount, sSent, sRetries, sArmed>>

(* TransferRegistry::on_ack of ACK_COMPLETE: credit the serve, free the    *)
(* sender.                                                                 *)
OnComplete(m) ==
    /\ m.type = "complete"
    /\ sLive
    /\ Receive(m, {})
    /\ FreeSender
    /\ served' = served + 1
    /\ UNCHANGED <<receiverVars, stored>>

(* Either ACK for an unknown transfer is dropped. *)
OnStrayAck(m) ==
    /\ m.type \in {"ack", "complete"}
    /\ ~sLive
    /\ Receive(m, {})
    /\ UNCHANGED <<receiverVars, stored, senderVars>>

(* SenderTransfer::tick, sending: the next chunk of the window; the ACK    *)
(* timer is armed with its last packet.                                    *)
SenderSend ==
    /\ sLive
    /\ sSent < sCount
    /\ LET n == Lesser(SendChunk, sCount - sSent)
       IN  /\ Send({Data(pn) : pn \in Window(sStart + sSent, n)})
           /\ sSent' = sSent + n
           /\ sArmed' = (sArmed \/ sSent + n >= sCount)
    /\ UNCHANGED <<receiverVars, stored, sLive, sStart, sCount, sRetries, served>>

SenderTimeoutKeepsSent ==
    /\ sLive
    /\ sSent >= sCount
    /\ sArmed
    /\ IF sRetries + 1 > SenderRetryLimit
       THEN FreeSender
       ELSE /\ sRetries' = sRetries + 1
            /\ sArmed' = FALSE
            /\ UNCHANGED <<sLive, sStart, sCount, sSent>>
    /\ UNCHANGED <<net, dups, losses, receiverVars, stored, served>>

(* SenderTransfer::tick, ACK timer: send the window again, or give up and  *)
(* have the registry drop the sender (SenderFailed).                       *)
SenderTimeout ==
    /\ sLive
    /\ sSent >= sCount
    /\ sArmed
    /\ IF sRetries + 1 > SenderRetryLimit
       THEN FreeSender
       ELSE /\ sRetries' = sRetries + 1
            /\ sSent' = 0
            /\ sArmed' = FALSE
            /\ UNCHANGED <<sLive, sStart, sCount>>
    /\ UNCHANGED <<net, dups, losses, receiverVars, stored, served>>

(* The server's process dies: its senders are gone, its files are not. *)
SenderCrash ==
    /\ "crash" \in Faults
    /\ sLive
    /\ FreeSender
    /\ UNCHANGED <<net, dups, losses, receiverVars, stored, served>>

(* prune_segments removes the file, or the server obtains it.  A sender    *)
(* keeps the copy it read when it was created.                             *)
StoreChanges ==
    /\ "churn" \in Faults
    /\ stored' = ~stored
    /\ UNCHANGED <<net, dups, losses, receiverVars, senderVars>>

-----------------------------------------------------------------------------
Lose(m) ==
    /\ losses < MaxLosses
    /\ losses' = losses + 1
    /\ net' = net \ {m}
    /\ UNCHANGED <<dups, receiverVars, stored, senderVars>>

Handle(m) ==
    \/ OnRequest(m)
    \/ OnContent(m)
    \/ OnStrayContent(m)
    \/ OnNotFound(m)
    \/ OnProgress(m)
    \/ OnComplete(m)
    \/ OnStrayAck(m)

RequesterTick == \E due \in SUBSET {"response", "quiet"} : ReceiverTick(due)

Next ==
    \/ StartReceiver
    \/ \E m \in net : Handle(m)
    \/ \E m \in net : Lose(m)
    \/ RequesterTick
    \/ GraceExpire
    \/ ReceiverCrash
    \/ SenderSend
    \/ SenderTimeout
    \/ SenderCrash
    \/ StoreChanges

Spec == Init /\ [][Next]_vars

(* Both loops call Node::tick on every iteration and wake up for the next  *)
(* deadline, so an armed timer fires.  Nothing obliges the network to      *)
(* deliver, nor anyone to start the download.                              *)
Fairness ==
    /\ WF_vars(RequesterTick)
    /\ WF_vars(GraceExpire)
    /\ WF_vars(SenderSend)
    /\ WF_vars(SenderTimeout)

FairSpec == Spec /\ Fairness

-----------------------------------------------------------------------------
(* Properties.                                                             *)

RStates == {"idle", "active", "ok", "spoiled", "failed", "gone"}
Reasons == {"none", "unresponsive", "not_found", "not_ready", "stalled", "disk"}

(* The type invariant. *)
TypeOK ==
    /\ net \subseteq Messages
    /\ dups \in Nat
    /\ losses \in Nat
    /\ rstate \in RStates
    /\ why \in Reasons
    /\ packets \subseteq Nat
    /\ rStart \in Nat
    /\ rCount \in Nat
    /\ retries \in Nat
    /\ resent \in BOOLEAN
    /\ saved \in BOOLEAN
    /\ stored \in BOOLEAN
    /\ sLive \in BOOLEAN
    /\ sStart \in Nat
    /\ sCount \in Nat
    /\ sSent \in Nat
    /\ sRetries \in Nat
    /\ sArmed \in BOOLEAN
    /\ served \in Nat

(* The last packet the receiver has asked for, SEGMENT_REQUEST itself      *)
(* asking for the initial window.                                          *)
Requested ==
    IF rStart = 0 THEN Lesser(InitialWindow, N) ELSE rStart + rCount - 1

(* However the datagrams of old windows are reordered, the receiver holds  *)
(* every packet before its window and none after it, and the window is a   *)
(* non-empty part of the file (on_content, advance).                       *)
WindowCoversPrefix ==
    IF rStart = 0
    THEN packets = {}
    ELSE /\ rCount >= 1
         /\ Requested <= N
         /\ 1 .. rStart - 1 \subseteq packets
         /\ packets \subseteq 1 .. Requested

(* The packet that completes the range completes the file, or leaves a     *)
(* packet to ask for: `total as u32 - next_start + 1` in advance never     *)
(* underflows, and its `remaining == 0` branch is never needed.            *)
AdvanceHasRoom ==
    LET start == CurrentRange[1]
        count == CurrentRange[2]
    IN  rstate = "active" =>
            \A pn \in Window(start, count) \ packets :
                RangeHeld(packets \cup {pn}, start, count) =>
                    FileFull(packets \cup {pn}) \/ start + count <= N

(* A file is written only when every packet of it has arrived: counting    *)
(* packets, as on_content does, is as good as looking at them.             *)
SavedIsWhole == saved => packets = 1..N

(* Whatever ACK reaches it, the sender works on a range of the file that   *)
(* the receiver has asked for, and never skips a packet the receiver lacks *)
(* (SenderTransfer::on_ack takes the range on trust).                      *)
SenderWithinRequest ==
    sLive =>
        /\ sStart >= 1
        /\ sCount >= 1
        /\ sSent <= sCount
        /\ sStart + sCount - 1 <= Requested
        /\ 1 .. sStart - 1 \subseteq packets

(* A sender in the registry has packets to send or a timer to wait for: it *)
(* is never forgotten there (tick, on_ack).                                *)
SenderNeverStuck == sLive => (sArmed <=> sSent >= sCount)

(* The server credits a serve only for a file the requester has on disk.   *)
CreditOnlySaved == served > 0 => saved

(* The download as the scheduler sees it. *)
Download ==
    CASE rstate = "idle"   -> "idle"
      [] rstate = "active" -> "open"
      [] OTHER             -> IF saved THEN "delivered" ELSE "failed"

(* The promise the protocol makes to the rest of the program: a download   *)
(* ends once, the server credits itself only for a delivered file and once *)
(* for each sender it created (serve, on_ack, schedule_jobs).              *)
Delivery ==
    INSTANCE FileDelivery WITH
        download <- Download,
        serving <- sLive,
        credits <- served

DeliveryPromise == Delivery!Spec

(* With fairness of the timers alone, and whatever the network does, every *)
(* download ends and every sender is freed.                                *)
DeliveryEnds == Delivery!FairSpec

(* "This converges under content loss, ACK loss, duplicates, reordering,   *)
(* and burst loss" (SPEC.md 7.1): in a network that loses no more than the *)
(* retry budgets cover, the file is saved and the server hears of it, the  *)
(* grace period repairing a lost COMPLETE (on_content, on_ack).            *)
Converges == <>(saved /\ served >= 1)

-----------------------------------------------------------------------------
(* What the documents say and the code does not do.                        *)

(* A duplicate of the request is one of the faults under which 7.1 says    *)
(* the transfer converges.  The answer to the duplicate ends a download    *)
(* that is receiving its file (on_not_found).                              *)
NotFoundSparesProgress ==
    [][rstate = "active" /\ packets # {} => why' # "not_found"]_vars

=============================================================================
