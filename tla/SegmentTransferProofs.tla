------------------------ MODULE SegmentTransferProofs ------------------------
(***************************************************************************)
(* Proofs about SegmentTransfer, for every file size, window, chunk, retry *)
(* limit and fault bound.                                                  *)
(***************************************************************************)
EXTENDS SegmentTransfer, FiniteSetTheorems, TLAPS

USE SizesAssumption

-----------------------------------------------------------------------------
(* The inductive invariant.                                                *)

(* What a datagram in flight may say, whatever its age: content and ranges *)
(* stay within what the receiver has asked for, an ACK acknowledges a      *)
(* prefix the receiver holds, COMPLETE means the file is saved.            *)
MessageOK(m) ==
    /\ m.type = "data" => m.pn \in 1 .. Requested
    /\ m.type = "ack" =>
          /\ m.start >= 1
          /\ m.count >= 1
          /\ m.start + m.count - 1 <= Requested
          /\ 1 .. m.start - 1 \subseteq packets
    /\ m.type = "complete" => saved

NetOK == \A m \in net : MessageOK(m)

(* The life cycle of the receiver says whether the file is saved. *)
SavedByOutcome ==
    /\ rstate \in {"idle", "active", "failed"} => ~saved
    /\ rstate \in {"ok", "spoiled"} => saved

(* A repeated request is served from the first packet, whatever the        *)
(* receiver asks for by then: the initial window never exceeds it.         *)
InitialRequested == Lesser(InitialWindow, N) <= Requested

IInv ==
    /\ TypeOK
    /\ InitialRequested
    /\ WindowCoversPrefix
    /\ SavedIsWhole
    /\ SavedByOutcome
    /\ NetOK
    /\ SenderWithinRequest
    /\ SenderNeverStuck
    /\ CreditOnlySaved

-----------------------------------------------------------------------------
(* Facts about the helpers.                                                *)

LEMMA WholeInterval == IsFiniteSet(1..N) /\ Cardinality(1..N) = N
BY FS_Interval

(* Counting the packets held is as good as comparing them with the file. *)
LEMMA FullIsWhole ==
    ASSUME NEW held \in SUBSET (1..N)
    PROVE  FileFull(held) <=> held = 1..N
<1>1. IsFiniteSet(held) /\ Cardinality(held) <= N
      /\ (Cardinality(held) = N => held = 1..N)
  BY WholeInterval, FS_Subset
<1>2. Cardinality(held) \in Nat
  BY <1>1, FS_CardinalityType
<1>3. QED
  BY <1>1, <1>2, WholeInterval DEF FileFull

LEMMA InitialRange ==
    /\ Lesser(InitialWindow, N) \in 1..N
    /\ 1 + Lesser(InitialWindow, N) - 1 = Lesser(InitialWindow, N)
BY DEF Lesser

(* The range an arriving packet is compared with. *)
LEMMA RangeFacts ==
    ASSUME IInv
    PROVE  /\ CurrentRange[1] \in Nat /\ CurrentRange[1] >= 1
           /\ CurrentRange[2] \in Nat /\ CurrentRange[2] >= 1
           /\ CurrentRange[1] + CurrentRange[2] - 1 = Requested
           /\ Requested \in 1..N
           /\ 1 .. CurrentRange[1] - 1 \subseteq packets
           /\ packets \subseteq 1 .. Requested
<1>1. CASE rStart = 0
  BY <1>1, InitialRange DEF IInv, WindowCoversPrefix, CurrentRange, Requested
<1>2. CASE rStart # 0
  BY <1>2 DEF IInv, TypeOK, WindowCoversPrefix, CurrentRange, Requested
<1>3. QED
  BY <1>1, <1>2

LEMMA MessageTypes ==
    /\ Request \in Messages
    /\ Complete \in Messages
    /\ \A b \in BOOLEAN : NotFound(b) \in Messages
    /\ \A pn \in Nat : Data(pn) \in Messages
    /\ \A a, c \in Nat : Ack(a, c) \in Messages
BY DEF Messages, Request, Complete, NotFound, Data, Ack

LEMMA MessageFields ==
    ASSUME NEW m \in Messages
    PROVE  /\ m.type = "data" => m.pn \in Nat
           /\ m.type = "ack" => m.start \in Nat /\ m.count \in Nat
           /\ m.type = "not_found" => m.retryable \in BOOLEAN
BY DEF Messages

(* What a handler does to the network. *)
LEMMA ReceiveNet ==
    ASSUME NEW m, NEW out, Receive(m, out), dups \in Nat, losses \in Nat
    PROVE  /\ m \in net
           /\ net' \subseteq net \cup out
           /\ dups' \in Nat
           /\ losses' \in Nat
BY DEF Receive

LEMMA SendNet ==
    ASSUME NEW out, Send(out), dups \in Nat, losses \in Nat
    PROVE  /\ net' \subseteq net \cup out
           /\ dups' \in Nat
           /\ losses' \in Nat
BY DEF Send

(* Old datagrams stay true as the receiver advances. *)
LEMMA NetStep ==
    ASSUME IInv, NEW out, net' \subseteq net \cup out,
           Requested' \in Nat, Requested <= Requested',
           packets \subseteq packets',
           saved => saved',
           \A m \in out : MessageOK(m)'
    PROVE  NetOK'
<1>1. Requested \in Nat
  BY RangeFacts
<1>2. ASSUME NEW m \in net PROVE MessageOK(m)'
  <2>1. MessageOK(m) /\ m \in Messages
    BY <1>2 DEF IInv, NetOK, TypeOK
  <2>2. QED
    BY <1>1, <2>1, MessageFields DEF MessageOK
<1>3. QED
  BY <1>2 DEF NetOK

LEMMA NetKept ==
    ASSUME IInv, net' \subseteq net,
           Requested' \in Nat, Requested <= Requested',
           packets \subseteq packets',
           saved => saved'
    PROVE  NetOK'
<1> DEFINE out == {}
<1>1. net' \subseteq net \cup out /\ (\A m \in out : MessageOK(m)')
  OBVIOUS
<1> HIDE DEF out
<1>2. QED
  BY <1>1, NetStep

-----------------------------------------------------------------------------
(* The requester's steps.                                                  *)

(* Steps of the requester leave the server's half of the invariant alone   *)
(* as long as the request only grows.                                      *)
LEMMA SenderKept ==
    ASSUME IInv, UNCHANGED <<senderVars, stored>>,
           Requested' \in Nat, Requested <= Requested',
           packets \subseteq packets',
           saved => saved'
    PROVE  /\ SenderWithinRequest' /\ SenderNeverStuck' /\ CreditOnlySaved'
           /\ InitialRequested'
<1>1. Requested \in Nat
  BY RangeFacts
<1>2. SenderWithinRequest'
  BY <1>1 DEF IInv, TypeOK, senderVars, SenderWithinRequest
<1>3. InitialRequested'
  BY <1>1, InitialRange DEF IInv, InitialRequested
<1>4. QED
  BY <1>2, <1>3 DEF IInv, senderVars, SenderNeverStuck, CreditOnlySaved

LEMMA StartReceiverStep == ASSUME IInv, StartReceiver PROVE IInv'
<1>1. /\ net' \subseteq net \cup {Request}
      /\ dups' \in Nat /\ losses' \in Nat
  BY SendNet DEF IInv, TypeOK, StartReceiver
<1>2. /\ rstate' = "active"
      /\ UNCHANGED <<why, packets, rStart, rCount, retries, resent, saved>>
      /\ UNCHANGED <<senderVars, stored>>
  BY DEF StartReceiver
<1>3. TypeOK'
  BY <1>1, <1>2, MessageTypes DEF IInv, TypeOK, RStates, senderVars
<1>4. Requested' = Requested /\ Requested \in Nat
  BY <1>2, RangeFacts DEF Requested
<1>5. WindowCoversPrefix' /\ SavedIsWhole'
  BY <1>2, <1>4 DEF IInv, WindowCoversPrefix, SavedIsWhole
<1>6. SavedByOutcome'
  BY <1>2 DEF IInv, SavedByOutcome, StartReceiver
<1>7. /\ packets \subseteq packets' /\ (saved => saved')
      /\ Requested' \in Nat /\ Requested <= Requested'
  BY <1>2, <1>4
<1>8. NetOK'
  <2>1. \A m \in {Request} : MessageOK(m)'
    BY DEF Request, MessageOK
  <2>2. QED
    BY <1>1, <1>7, <2>1, NetStep
<1>9. QED
  BY <1>2, <1>3, <1>5, <1>6, <1>7, <1>8, SenderKept DEF IInv

(* A content packet the receiver handles, in terms of the range in force.  *)
LEMMA StorePacketStep ==
    ASSUME IInv, NEW m \in net, m.type = "data", rstate = "active",
           m.pn \in Window(CurrentRange[1], CurrentRange[2]) \ packets,
           StorePacket(m, CurrentRange[1], CurrentRange[2]),
           UNCHANGED <<stored, senderVars>>
    PROVE  IInv'
<1> DEFINE start == CurrentRange[1]
           count == CurrentRange[2]
           held  == packets \cup {m.pn}
           size  == NextCount(start, count)
<1>1. /\ start \in Nat /\ start >= 1
      /\ count \in Nat /\ count >= 1
      /\ start + count - 1 = Requested
      /\ Requested \in 1..N
      /\ 1 .. start - 1 \subseteq packets
      /\ packets \subseteq 1 .. Requested
  BY RangeFacts
<1>2. held \in SUBSET (1 .. Requested) /\ held \in SUBSET (1 .. N)
  <2>1. m.pn \in start .. start + count - 1
    BY DEF Window
  <2>2. m.pn \in 1 .. Requested
    BY <1>1, <2>1
  <2>3. packets \subseteq 1 .. Requested /\ 1 .. Requested \subseteq 1 .. N
    BY <1>1
  <2>4. QED
    BY <2>2, <2>3
<1>3. packets' = held
  BY DEF StorePacket
<1> HIDE DEF start, count, held, size
<1>4. ~saved
  BY DEF IInv, SavedByOutcome
<1>5. CASE /\ FileFull(held)
           /\ rStart' = start
           /\ rCount' = count
           /\ FinishFile(m)
  <2>1. held = 1..N
    BY <1>2, <1>5, FullIsWhole
  <2>2. Requested' = Requested
    BY <1>1, <1>5 DEF Requested
  <2>3. /\ retries' = retries /\ resent' = resent
        /\ \/ rstate' = "ok" /\ saved' = TRUE /\ why' = why /\ Receive(m, {Complete})
           \/ rstate' = "failed" /\ saved' = saved /\ why' = "disk" /\ Receive(m, {})
    BY <1>5 DEF FinishFile, Fail
  <2>4. /\ net' \subseteq net \cup (IF saved' THEN {Complete} ELSE {})
        /\ dups' \in Nat /\ losses' \in Nat
    BY <1>4, <2>3, ReceiveNet DEF IInv, TypeOK
  <2>5. TypeOK'
    <3>1. rstate' \in RStates /\ why' \in Reasons /\ saved' \in BOOLEAN
      BY <2>3 DEF IInv, TypeOK, RStates, Reasons
    <3>2. net' \subseteq Messages
      BY <2>4, MessageTypes DEF IInv, TypeOK
    <3>3. QED
      BY <1>1, <1>2, <1>3, <1>5, <2>3, <2>4, <3>1, <3>2 DEF IInv, TypeOK, senderVars
  <2>6. WindowCoversPrefix' /\ SavedIsWhole' /\ SavedByOutcome'
    BY <1>1, <1>2, <1>3, <1>4, <1>5, <2>1, <2>2, <2>3
       DEF WindowCoversPrefix, SavedIsWhole, SavedByOutcome
  <2>7. /\ packets \subseteq packets' /\ (saved => saved')
        /\ Requested' \in Nat /\ Requested <= Requested'
    BY <1>1, <1>3, <1>4, <2>2 DEF held
  <2>8. NetOK'
    <3> DEFINE out == IF saved' THEN {Complete} ELSE {}
    <3>1. \A x \in out : MessageOK(x)'
      BY DEF Complete, MessageOK
    <3>2. net' \subseteq net \cup out
      BY <2>4
    <3> HIDE DEF out
    <3>3. QED
      BY <2>7, <3>1, <3>2, NetStep
  <2>9. QED
    BY <2>5, <2>6, <2>7, <2>8, SenderKept DEF IInv
<1>6. CASE /\ ~FileFull(held) /\ RangeHeld(held, start, count)
           /\ rStart' = start + count
           /\ rCount' = size
           /\ retries' = 0
           /\ Receive(m, {Ack(start + count, size)})
           /\ UNCHANGED <<rstate, why, resent, saved>>
  (* The range is a prefix of the file and all of it is held, so a file    *)
  (* that is not full has at least one packet after it.                    *)
  <2>1. held = 1 .. Requested
    <3>1. 1 .. Requested \subseteq held
      BY <1>1, <1>6 DEF RangeHeld, Window, held
    <3>2. QED
      BY <1>2, <3>1
  <2>2. start + count <= N
    <3>1. Requested # N
      BY <1>2, <1>6, <2>1, FullIsWhole
    <3>2. QED
      BY <1>1, <3>1
  <2>3. size \in Nat /\ size >= 1 /\ start + count + size - 1 <= N
    BY <1>1, <2>2 DEF size, NextCount, Lesser
  <2>4. Requested' = start + count + size - 1
    BY <1>1, <1>6 DEF Requested
  <2>5. /\ net' \subseteq net \cup {Ack(start + count, size)}
        /\ dups' \in Nat /\ losses' \in Nat
    BY <1>6, ReceiveNet DEF IInv, TypeOK
  <2>6. TypeOK'
    BY <1>1, <1>2, <1>3, <1>6, <2>3, <2>5, MessageTypes DEF IInv, TypeOK, senderVars
  <2>7. 1 .. (start + count) - 1 \subseteq packets'
    BY <1>1, <1>3, <2>1
  <2>8. WindowCoversPrefix' /\ SavedIsWhole' /\ SavedByOutcome'
    BY <1>1, <1>2, <1>3, <1>4, <1>6, <2>3, <2>4, <2>7
       DEF WindowCoversPrefix, SavedIsWhole, SavedByOutcome
  <2>9. /\ packets \subseteq packets' /\ (saved => saved')
        /\ Requested' \in Nat /\ Requested <= Requested'
    BY <1>1, <1>3, <1>4, <2>3, <2>4 DEF held
  <2>10. NetOK'
    <3>1. \A x \in {Ack(start + count, size)} : MessageOK(x)'
      BY <1>1, <2>3, <2>4, <2>7 DEF Ack, MessageOK
    <3>2. QED
      BY <2>5, <2>9, <3>1, NetStep
  <2>11. QED
    BY <2>6, <2>8, <2>9, <2>10, SenderKept DEF IInv
<1>7. CASE /\ ~FileFull(held) /\ ~RangeHeld(held, start, count)
           /\ rStart' = start
           /\ rCount' = count
           /\ Receive(m, {})
           /\ UNCHANGED <<rstate, why, retries, resent, saved>>
  <2>1. Requested' = Requested
    BY <1>1, <1>7 DEF Requested
  <2>2. net' \subseteq net /\ dups' \in Nat /\ losses' \in Nat
    BY <1>7, ReceiveNet DEF IInv, TypeOK
  <2>3. TypeOK'
    BY <1>1, <1>2, <1>3, <1>7, <2>2 DEF IInv, TypeOK, senderVars
  <2>4. /\ packets \subseteq packets' /\ (saved => saved')
        /\ Requested' \in Nat /\ Requested <= Requested'
    BY <1>1, <1>3, <1>4, <2>1 DEF held
  <2>5. WindowCoversPrefix' /\ SavedIsWhole' /\ SavedByOutcome'
    BY <1>1, <1>2, <1>3, <1>4, <1>7, <2>1, <2>4
       DEF WindowCoversPrefix, SavedIsWhole, SavedByOutcome
  <2>6. NetOK'
    BY <2>2, <2>4, NetKept
  <2>7. QED
    BY <2>3, <2>4, <2>5, <2>6, SenderKept DEF IInv
<1>8. QED
  BY <1>5, <1>6, <1>7 DEF StorePacket, start, count, held, size

(* Steps that change none of the receiver's variables: the requester's     *)
(* half of the invariant.                                                  *)
LEMMA ReceiverKept ==
    ASSUME IInv, UNCHANGED receiverVars
    PROVE  /\ WindowCoversPrefix' /\ SavedIsWhole' /\ SavedByOutcome'
           /\ InitialRequested'
           /\ packets \subseteq packets' /\ (saved => saved')
           /\ Requested' \in Nat /\ Requested <= Requested'
<1>1. Requested' = Requested /\ Requested \in Nat
  BY RangeFacts DEF receiverVars, Requested
<1>2. WindowCoversPrefix'
  BY <1>1 DEF IInv, receiverVars, WindowCoversPrefix
<1>3. QED
  BY <1>1, <1>2 DEF IInv, receiverVars, SavedIsWhole, SavedByOutcome, InitialRequested

LEMMA NudgeStep ==
    ASSUME IInv, NEW m \in net, rstate = "active",
           NudgeOrIgnore(m, CurrentRange[1], CurrentRange[2]),
           UNCHANGED <<stored, senderVars>>
    PROVE  IInv'
<1> DEFINE start == CurrentRange[1]
           count == CurrentRange[2]
           out == IF m.pn \in (1..N) \ Window(start, count)
                  THEN {Ack(start, count)} ELSE {}
<1>1. /\ start \in Nat /\ start >= 1
      /\ count \in Nat /\ count >= 1
      /\ start + count - 1 = Requested
      /\ Requested \in 1..N
      /\ 1 .. start - 1 \subseteq packets
      /\ packets \subseteq 1 .. Requested
  BY RangeFacts
<1>2. /\ rStart' = start /\ rCount' = count
      /\ UNCHANGED <<rstate, why, packets, retries, resent, saved>>
  BY DEF NudgeOrIgnore
<1>3. net' \subseteq net \cup out /\ dups' \in Nat /\ losses' \in Nat
  BY ReceiveNet DEF NudgeOrIgnore, IInv, TypeOK
<1>4. \A x \in out : x = Ack(start, count)
  OBVIOUS
<1> HIDE DEF start, count, out
<1>5. Requested' = Requested
  BY <1>1, <1>2 DEF Requested
<1>6. /\ packets \subseteq packets' /\ (saved => saved')
      /\ Requested' \in Nat /\ Requested <= Requested'
  BY <1>1, <1>2, <1>5
<1>7. TypeOK'
  BY <1>1, <1>2, <1>3, <1>4, MessageTypes DEF IInv, TypeOK, senderVars
<1>8. WindowCoversPrefix' /\ SavedIsWhole' /\ SavedByOutcome'
  BY <1>1, <1>2, <1>5 DEF IInv, WindowCoversPrefix, SavedIsWhole, SavedByOutcome
<1>9. NetOK'
  <2>1. \A x \in out : MessageOK(x)'
    BY <1>1, <1>2, <1>4, <1>5 DEF Ack, MessageOK
  <2>2. QED
    BY <1>3, <1>6, <2>1, NetStep
<1>10. QED
  BY <1>6, <1>7, <1>8, <1>9, SenderKept DEF IInv

LEMMA OnContentStep == ASSUME IInv, NEW m \in net, OnContent(m) PROVE IInv'
<1>1. m.type = "data" /\ rstate = "active" /\ UNCHANGED <<stored, senderVars>>
  BY DEF OnContent
<1>2. CASE m.pn \in Window(CurrentRange[1], CurrentRange[2]) \ packets
  <2>1. StorePacket(m, CurrentRange[1], CurrentRange[2])
    BY <1>2 DEF OnContent
  <2>2. QED
    BY <1>1, <1>2, <2>1, StorePacketStep
<1>3. CASE m.pn \notin Window(CurrentRange[1], CurrentRange[2]) \ packets
  <2>1. NudgeOrIgnore(m, CurrentRange[1], CurrentRange[2])
    BY <1>3 DEF OnContent
  <2>2. QED
    BY <1>1, <2>1, NudgeStep
<1>4. QED
  BY <1>2, <1>3

LEMMA OnStrayContentStep ==
    ASSUME IInv, NEW m \in net, OnStrayContent(m) PROVE IInv'
<1> DEFINE out == StrayReply
<1>1. net' \subseteq net \cup out /\ dups' \in Nat /\ losses' \in Nat
  BY ReceiveNet DEF OnStrayContent, IInv, TypeOK
<1>2. UNCHANGED receiverVars /\ UNCHANGED <<stored, senderVars>>
  BY DEF OnStrayContent
<1>3. \A x \in out : x = Complete /\ saved
  BY DEF StrayReply, IInv, SavedByOutcome
<1> HIDE DEF out
<1>4. TypeOK'
  BY <1>1, <1>2, <1>3, MessageTypes DEF IInv, TypeOK, receiverVars, senderVars
<1>5. \A x \in out : MessageOK(x)'
  BY <1>2, <1>3 DEF receiverVars, Complete, MessageOK
<1>6. NetOK'
  BY <1>1, <1>2, <1>5, ReceiverKept, NetStep
<1>7. QED
  BY <1>2, <1>4, <1>6, ReceiverKept, SenderKept DEF IInv

(* Steps that change nothing of the receiver but its outcome, and whose    *)
(* datagrams, if any, say what the receiver knows.                         *)
LEMMA OutcomeStep ==
    ASSUME IInv, NEW out,
           UNCHANGED <<packets, rStart, rCount, saved, stored, senderVars>>,
           net' \subseteq net \cup out, dups' \in Nat, losses' \in Nat,
           out \subseteq Messages,
           \A m \in out : MessageOK(m),
           rstate' \in RStates, why' \in Reasons,
           retries' \in Nat, resent' \in BOOLEAN,
           SavedByOutcome'
    PROVE  IInv'
<1>1. Requested' = Requested /\ Requested \in Nat
  BY RangeFacts DEF Requested
<1>2. /\ packets \subseteq packets' /\ (saved => saved')
      /\ Requested' \in Nat /\ Requested <= Requested'
  BY <1>1
<1>3. TypeOK'
  BY DEF IInv, TypeOK, senderVars
<1>4. WindowCoversPrefix' /\ SavedIsWhole'
  BY <1>1 DEF IInv, WindowCoversPrefix, SavedIsWhole
<1>5. \A m \in out : MessageOK(m)'
  BY <1>1 DEF MessageOK
<1>6. NetOK'
  BY <1>2, <1>5, NetStep
<1>7. QED
  BY <1>2, <1>3, <1>4, <1>6, SenderKept DEF IInv

LEMMA OnNotFoundStep == ASSUME IInv, NEW m \in net, OnNotFound(m) PROVE IInv'
<1> DEFINE out == {}
<1>1. net' \subseteq net \cup out /\ dups' \in Nat /\ losses' \in Nat
  BY ReceiveNet DEF OnNotFound, IInv, TypeOK
<1>2. UNCHANGED <<packets, rStart, rCount, retries, resent, saved, stored, senderVars>>
  BY DEF OnNotFound
<1>3. rstate' \in RStates /\ why' \in Reasons
  BY DEF OnNotFound, Fail, IInv, TypeOK, RStates, Reasons
<1>4. SavedByOutcome'
  BY <1>2 DEF OnNotFound, Fail, IInv, SavedByOutcome
<1>5. out \subseteq Messages /\ \A x \in out : MessageOK(x)
  OBVIOUS
<1>6. retries' \in Nat /\ resent' \in BOOLEAN
  BY <1>2 DEF IInv, TypeOK
<1> HIDE DEF out
<1>7. QED
  BY <1>1, <1>2, <1>3, <1>4, <1>5, <1>6, OutcomeStep

LEMMA ReceiverTickStep ==
    ASSUME IInv, NEW due \in SUBSET {"response", "quiet"}, ReceiverTick(due)
    PROVE  IInv'
<1> DEFINE silent == "response" \in due /\ packets = {}
           request == IF silent /\ ~resent THEN {Request} ELSE {}
           ack == IF rStart # 0 THEN {Ack(rStart, rCount)} ELSE {}
           out == request \cup ack
<1>1. /\ rstate = "active"
      /\ resent' \in BOOLEAN
      /\ UNCHANGED <<packets, rStart, rCount, saved, stored, senderVars>>
  BY DEF ReceiverTick, IInv, TypeOK
<1>2. /\ Send({}) \/ Send(request) \/ (rStart # 0 /\ Send(request \cup {Ack(rStart, rCount)}))
      /\ \/ rstate' = "failed" /\ why' \in {"unresponsive", "stalled"}
         \/ UNCHANGED <<rstate, why>>
      /\ retries' = retries \/ retries' = retries + 1
  BY DEF ReceiverTick, Fail
<1>3. out \subseteq Messages
  BY MessageTypes DEF IInv, TypeOK
<1>4. \A x \in out : MessageOK(x)
  <2>1. \A x \in request : MessageOK(x)
    BY DEF Request, MessageOK
  <2>2. \A x \in ack : MessageOK(x)
    BY DEF Ack, MessageOK, IInv, TypeOK, WindowCoversPrefix, Requested
  <2>3. QED
    BY <2>1, <2>2
<1>5. net' \subseteq net \cup out /\ dups' \in Nat /\ losses' \in Nat
  BY <1>2, SendNet DEF IInv, TypeOK
<1>6. rstate' \in RStates /\ why' \in Reasons /\ retries' \in Nat
  BY <1>2 DEF IInv, TypeOK, RStates, Reasons
<1>7. SavedByOutcome'
  BY <1>1, <1>2 DEF IInv, SavedByOutcome
<1> HIDE DEF out
<1>8. QED
  BY <1>1, <1>3, <1>4, <1>5, <1>6, <1>7, OutcomeStep

(* GraceExpire and ReceiverCrash. *)
LEMMA ReceiverGoneStep ==
    ASSUME IInv, GraceExpire \/ ReceiverCrash
    PROVE  IInv'
<1> DEFINE out == {}
<1>1. UNCHANGED <<net, dups, losses, why, packets, rStart, rCount, retries,
                  resent, saved, stored, senderVars>>
  BY DEF GraceExpire, ReceiverCrash
<1>2. rstate' = "gone"
  BY DEF GraceExpire, ReceiverCrash
<1>3. SavedByOutcome' /\ rstate' \in RStates
  BY <1>2 DEF SavedByOutcome, RStates
<1>4. /\ net' \subseteq net \cup out /\ dups' \in Nat /\ losses' \in Nat
      /\ why' \in Reasons /\ retries' \in Nat /\ resent' \in BOOLEAN
  BY <1>1 DEF IInv, TypeOK
<1>5. out \subseteq Messages /\ \A x \in out : MessageOK(x)
  OBVIOUS
<1> HIDE DEF out
<1>6. QED
  BY <1>1, <1>3, <1>4, <1>5, OutcomeStep

-----------------------------------------------------------------------------
(* The server's steps.                                                     *)

(* Steps of the server send only content of the range it works on.         *)
LEMMA ServerStep ==
    ASSUME IInv, NEW out,
           UNCHANGED receiverVars,
           net' \subseteq net \cup out, dups' \in Nat, losses' \in Nat,
           stored' \in BOOLEAN,
           \A m \in out : \/ m \in [type : {"not_found"}, retryable : BOOLEAN]
                          \/ \E pn \in 1 .. Requested : m = Data(pn),
           /\ sLive' \in BOOLEAN /\ sStart' \in Nat /\ sCount' \in Nat
           /\ sSent' \in Nat /\ sRetries' \in Nat /\ sArmed' \in BOOLEAN
           /\ served' \in Nat,
           SenderWithinRequest', SenderNeverStuck', CreditOnlySaved'
    PROVE  IInv'
<1>1. Requested' = Requested
  BY DEF receiverVars, Requested
<1>2. \A m \in out : m \in Messages /\ MessageOK(m)'
  BY <1>1, RangeFacts DEF Messages, Data, MessageOK
<1>3. TypeOK'
  BY <1>2 DEF IInv, TypeOK, receiverVars
<1>4. NetOK'
  BY <1>2, ReceiverKept, NetStep
<1>5. QED
  BY <1>3, <1>4, ReceiverKept DEF IInv

(* Freeing the sender, with or without a credit. *)
LEMMA FreeSenderStep ==
    ASSUME IInv, FreeSender, UNCHANGED receiverVars, UNCHANGED stored,
           net' \subseteq net, dups' \in Nat, losses' \in Nat,
           served' \in Nat, CreditOnlySaved'
    PROVE  IInv'
<1> DEFINE out == {}
<1>1. net' \subseteq net \cup out /\ \A m \in out : m \in {}
  OBVIOUS
<1>2. stored' \in BOOLEAN
  BY DEF IInv, TypeOK
<1>3. /\ sLive' \in BOOLEAN /\ sStart' \in Nat /\ sCount' \in Nat
      /\ sSent' \in Nat /\ sRetries' \in Nat /\ sArmed' \in BOOLEAN
      /\ SenderWithinRequest' /\ SenderNeverStuck'
  BY DEF FreeSender, SenderWithinRequest, SenderNeverStuck
<1> HIDE DEF out
<1>4. QED
  BY <1>1, <1>2, <1>3, ServerStep

LEMMA OnRequestStep == ASSUME IInv, NEW m \in net, OnRequest(m) PROVE IInv'
<1>1. UNCHANGED receiverVars /\ stored' \in BOOLEAN
  BY DEF OnRequest, IInv, TypeOK
<1>2. CASE NewSender /\ Receive(m, {}) /\ UNCHANGED served
  <2> DEFINE out == {}
  <2>1. net' \subseteq net \cup out /\ dups' \in Nat /\ losses' \in Nat
    BY <1>2, ReceiveNet DEF IInv, TypeOK
  <2>2. /\ sLive' = TRUE /\ sStart' = 1 /\ sCount' = Lesser(InitialWindow, N)
        /\ sSent' = 0 /\ sRetries' = 0 /\ sArmed' = FALSE
    BY <1>2 DEF NewSender
  <2>3. Lesser(InitialWindow, N) \in 1 .. Requested
    BY InitialRange, RangeFacts DEF IInv, InitialRequested
  <2>4. SenderWithinRequest' /\ SenderNeverStuck' /\ CreditOnlySaved'
    <3>1. SenderWithinRequest'
      <4>1. Requested' = Requested /\ Requested \in Nat
        BY <1>1, RangeFacts DEF receiverVars, Requested
      <4>2. 1 .. sStart' - 1 = {}
        BY <2>2
      <4>3. /\ sStart' >= 1 /\ sCount' >= 1 /\ sSent' <= sCount'
            /\ sStart' + sCount' - 1 <= Requested'
        BY <2>2, <2>3, <4>1
      <4>4. QED
        BY <4>2, <4>3 DEF SenderWithinRequest
    <3>2. SenderNeverStuck'
      <4>1. sSent' = 0 /\ sCount' \in 1..N
        BY <2>2, InitialRange
      <4>2. ~(sSent' >= sCount')
        BY <4>1
      <4>3. QED
        BY <2>2, <4>2 DEF SenderNeverStuck
    <3>3. CreditOnlySaved'
      BY <1>1, <1>2 DEF CreditOnlySaved, IInv, receiverVars
    <3>4. QED
      BY <3>1, <3>2, <3>3
  <2>5. /\ sLive' \in BOOLEAN /\ sStart' \in Nat /\ sCount' \in Nat
        /\ sSent' \in Nat /\ sRetries' \in Nat /\ sArmed' \in BOOLEAN
        /\ served' \in Nat
    <3>1. sCount' \in Nat /\ sStart' \in Nat /\ sSent' \in Nat /\ sRetries' \in Nat
      BY <2>2, InitialRange
    <3>2. sLive' \in BOOLEAN /\ sArmed' \in BOOLEAN /\ served' \in Nat
      BY <1>2, <2>2 DEF IInv, TypeOK
    <3>3. QED
      BY <3>1, <3>2
  <2>6. \A x \in out : x \in {}
    OBVIOUS
  <2> HIDE DEF out
  <2>7. QED
    BY <1>1, <2>1, <2>4, <2>5, <2>6, ServerStep
<1>3. ASSUME NEW b \in BOOLEAN, Receive(m, {NotFound(b)}), UNCHANGED senderVars
      PROVE  IInv'
  <2>1. net' \subseteq net \cup {NotFound(b)} /\ dups' \in Nat /\ losses' \in Nat
    BY <1>3, ReceiveNet DEF IInv, TypeOK
  <2>2. \A x \in {NotFound(b)} : x \in [type : {"not_found"}, retryable : BOOLEAN]
    BY DEF NotFound
  <2>3. /\ sLive' \in BOOLEAN /\ sStart' \in Nat /\ sCount' \in Nat
        /\ sSent' \in Nat /\ sRetries' \in Nat /\ sArmed' \in BOOLEAN
        /\ served' \in Nat
    BY <1>3 DEF IInv, TypeOK, senderVars
  <2>4. SenderWithinRequest' /\ SenderNeverStuck' /\ CreditOnlySaved'
    BY <1>1, <1>3, ReceiverKept
       DEF SenderWithinRequest, SenderNeverStuck, CreditOnlySaved, IInv,
           receiverVars, senderVars, Requested
  <2>5. QED
    BY <1>1, <2>1, <2>2, <2>3, <2>4, ServerStep
<1>4. QED
  BY <1>2, <1>3 DEF OnRequest

(* An ACK of progress names a range of the file, so it never parks the     *)
(* sender, and the clipping of its count changes nothing.                  *)
LEMMA OnProgressStep == ASSUME IInv, NEW m \in net, OnProgress(m) PROVE IInv'
<1> DEFINE out == {}
<1>1. /\ UNCHANGED receiverVars /\ UNCHANGED <<stored, sLive, served>>
      /\ net' \subseteq net \cup out /\ dups' \in Nat /\ losses' \in Nat
  BY ReceiveNet DEF OnProgress, IInv, TypeOK
<1>2. /\ m.start \in Nat /\ m.start >= 1
      /\ m.count \in Nat /\ m.count >= 1
      /\ m.start + m.count - 1 <= Requested
      /\ 1 .. m.start - 1 \subseteq packets
  BY MessageFields DEF OnProgress, IInv, TypeOK, NetOK, MessageOK
<1>3. /\ sStart' = m.start /\ sCount' = m.count
      /\ sSent' = 0 /\ sRetries' = 0 /\ sArmed' = FALSE
  <2>1. m.start \in 1..N /\ m.count <= N - m.start + 1
    BY <1>2, RangeFacts
  <2>2. Lesser(m.count, N - m.start + 1) = m.count
    BY <1>2, <2>1 DEF Lesser
  <2>3. QED
    BY <2>1, <2>2 DEF OnProgress
<1>4. SenderWithinRequest'
  <2>1. Requested' = Requested /\ packets' = packets
    BY <1>1 DEF receiverVars, Requested
  <2>2. QED
    BY <1>2, <1>3, <2>1 DEF SenderWithinRequest
<1>5. SenderNeverStuck' /\ CreditOnlySaved'
  <2>1. ~(sSent' >= sCount')
    BY <1>2, <1>3
  <2>2. QED
    BY <1>1, <1>3, <2>1 DEF SenderNeverStuck, CreditOnlySaved, IInv, receiverVars
<1>6. /\ sStart' \in Nat /\ sCount' \in Nat /\ sSent' \in Nat /\ sRetries' \in Nat
      /\ served' \in Nat
  BY <1>1, <1>2, <1>3 DEF IInv, TypeOK
<1>7. sLive' \in BOOLEAN /\ sArmed' \in BOOLEAN /\ stored' \in BOOLEAN
  BY <1>1, <1>3 DEF IInv, TypeOK
<1>8. \A x \in out : x \in {}
  OBVIOUS
<1> HIDE DEF out
<1>9. QED
  BY <1>1, <1>4, <1>5, <1>6, <1>7, <1>8, ServerStep

LEMMA OnCompleteStep == ASSUME IInv, NEW m \in net, OnComplete(m) PROVE IInv'
<1>1. /\ FreeSender /\ UNCHANGED receiverVars /\ UNCHANGED stored
      /\ net' \subseteq net /\ dups' \in Nat /\ losses' \in Nat
      /\ served' \in Nat
  BY ReceiveNet DEF OnComplete, IInv, TypeOK
<1>2. saved
  BY DEF OnComplete, IInv, NetOK, MessageOK
<1>3. CreditOnlySaved'
  BY <1>1, <1>2 DEF CreditOnlySaved, receiverVars
<1>4. QED
  BY <1>1, <1>3, FreeSenderStep

LEMMA OnStrayAckStep == ASSUME IInv, NEW m \in net, OnStrayAck(m) PROVE IInv'
<1> DEFINE out == {}
<1>1. /\ UNCHANGED receiverVars /\ UNCHANGED <<stored, senderVars>>
      /\ net' \subseteq net \cup out /\ dups' \in Nat /\ losses' \in Nat
  BY ReceiveNet DEF OnStrayAck, IInv, TypeOK
<1>2. /\ sLive' \in BOOLEAN /\ sStart' \in Nat /\ sCount' \in Nat
      /\ sSent' \in Nat /\ sRetries' \in Nat /\ sArmed' \in BOOLEAN
      /\ served' \in Nat /\ stored' \in BOOLEAN
  BY <1>1 DEF IInv, TypeOK, senderVars
<1>3. SenderWithinRequest' /\ SenderNeverStuck' /\ CreditOnlySaved'
  BY <1>1, ReceiverKept, SenderKept
<1>4. \A x \in out : x \in {}
  OBVIOUS
<1> HIDE DEF out
<1>5. QED
  BY <1>1, <1>2, <1>3, <1>4, ServerStep

LEMMA SenderSendStep == ASSUME IInv, SenderSend PROVE IInv'
<1> DEFINE n == Lesser(SendChunk, sCount - sSent)
           out == {Data(pn) : pn \in Window(sStart + sSent, n)}
<1>1. /\ sLive /\ sSent < sCount
      /\ UNCHANGED receiverVars
      /\ UNCHANGED <<stored, sLive, sStart, sCount, sRetries, served>>
      /\ sSent' = sSent + n
      /\ sArmed' = (sArmed \/ sSent + n >= sCount)
  BY DEF SenderSend
<1>2. net' \subseteq net \cup out /\ dups' \in Nat /\ losses' \in Nat
  BY SendNet DEF SenderSend, IInv, TypeOK
<1>3. n \in Nat /\ n >= 1 /\ sSent + n <= sCount
  BY <1>1 DEF Lesser, IInv, TypeOK
<1> HIDE DEF n
<1>4. \A x \in out : \E pn \in 1 .. Requested : x = Data(pn)
  <2>1. Window(sStart + sSent, n) \subseteq 1 .. Requested
    BY <1>1, <1>3, RangeFacts DEF Window, IInv, TypeOK, SenderWithinRequest
  <2>2. QED
    BY <2>1
<1> HIDE DEF out
<1>5. SenderWithinRequest'
  BY <1>1, <1>3 DEF IInv, TypeOK, SenderWithinRequest, receiverVars, Requested
<1>6. SenderNeverStuck'
  <2>1. ~sArmed
    BY <1>1 DEF IInv, TypeOK, SenderNeverStuck
  <2>2. QED
    BY <1>1, <2>1 DEF SenderNeverStuck
<1>7. CreditOnlySaved'
  BY <1>1 DEF IInv, CreditOnlySaved, receiverVars
<1>8. sStart' \in Nat /\ sCount' \in Nat /\ sSent' \in Nat /\ sRetries' \in Nat
  BY <1>1, <1>3 DEF IInv, TypeOK
<1>9. sLive' \in BOOLEAN /\ sArmed' \in BOOLEAN /\ served' \in Nat /\ stored' \in BOOLEAN
  BY <1>1 DEF IInv, TypeOK
<1>10. QED
  BY <1>1, <1>2, <1>4, <1>5, <1>6, <1>7, <1>8, <1>9, ServerStep

LEMMA SenderTimeoutStep == ASSUME IInv, SenderTimeout PROVE IInv'
<1> DEFINE out == {}
<1>1. /\ UNCHANGED receiverVars /\ UNCHANGED <<net, dups, losses, stored, served>>
      /\ sLive
  BY DEF SenderTimeout
<1>2. net' \subseteq net \cup out /\ dups' \in Nat /\ losses' \in Nat
  BY <1>1 DEF IInv, TypeOK
<1>3. CreditOnlySaved' /\ served' \in Nat /\ stored' \in BOOLEAN
  BY <1>1 DEF IInv, TypeOK, CreditOnlySaved, receiverVars
<1>4. CASE FreeSender
  BY <1>1, <1>2, <1>3, <1>4, FreeSenderStep
<1>5. CASE ~FreeSender
  <2>1. /\ sRetries' = sRetries + 1 /\ sSent' = 0 /\ sArmed' = FALSE
        /\ UNCHANGED <<sLive, sStart, sCount>>
    BY <1>5 DEF SenderTimeout
  <2>2. /\ sStart' \in Nat /\ sCount' \in Nat /\ sSent' \in Nat /\ sRetries' \in Nat
    BY <2>1 DEF IInv, TypeOK
  <2>3. sLive' \in BOOLEAN /\ sArmed' \in BOOLEAN
    BY <2>1 DEF IInv, TypeOK
  <2>4. SenderWithinRequest'
    BY <1>1, <2>1 DEF IInv, TypeOK, SenderWithinRequest, receiverVars, Requested
  <2>5. SenderNeverStuck'
    <3>1. ~(sSent' >= sCount')
      BY <1>1, <2>1 DEF IInv, TypeOK, SenderWithinRequest
    <3>2. QED
      BY <2>1, <3>1 DEF SenderNeverStuck
  <2>6. \A x \in out : x \in {}
    OBVIOUS
  <2> HIDE DEF out
  <2>7. QED
    BY <1>1, <1>2, <1>3, <2>2, <2>3, <2>4, <2>5, <2>6, ServerStep
<1>6. QED
  BY <1>4, <1>5

LEMMA SenderCrashStep == ASSUME IInv, SenderCrash PROVE IInv'
<1>1. FreeSender /\ UNCHANGED <<net, dups, losses, stored, served>>
      /\ UNCHANGED receiverVars
  BY DEF SenderCrash
<1>2. net' \subseteq net /\ dups' \in Nat /\ losses' \in Nat /\ served' \in Nat
  BY <1>1 DEF IInv, TypeOK
<1>3. CreditOnlySaved'
  BY <1>1 DEF IInv, CreditOnlySaved, receiverVars
<1>4. QED
  BY <1>1, <1>2, <1>3, FreeSenderStep

(* The server's store, a loss and a stuttering step. *)
LEMMA EnvironmentStep ==
    ASSUME IInv,
           StoreChanges \/ (\E m \in net : Lose(m)) \/ UNCHANGED vars
    PROVE  IInv'
<1> DEFINE out == {}
<1>1. UNCHANGED receiverVars /\ UNCHANGED senderVars
  BY DEF StoreChanges, Lose, vars, receiverVars, senderVars
<1>2. net' \subseteq net \cup out /\ dups' \in Nat /\ losses' \in Nat
  BY DEF StoreChanges, Lose, vars, IInv, TypeOK
<1>3. stored' \in BOOLEAN
  BY DEF StoreChanges, Lose, vars, IInv, TypeOK
<1>4. /\ sLive' \in BOOLEAN /\ sStart' \in Nat /\ sCount' \in Nat
      /\ sSent' \in Nat /\ sRetries' \in Nat /\ sArmed' \in BOOLEAN
      /\ served' \in Nat
  BY <1>1 DEF IInv, TypeOK, senderVars
<1>5. SenderWithinRequest' /\ SenderNeverStuck' /\ CreditOnlySaved'
  BY <1>1 DEF IInv, receiverVars, senderVars, Requested,
              SenderWithinRequest, SenderNeverStuck, CreditOnlySaved
<1>6. \A x \in out : x \in {}
  OBVIOUS
<1> HIDE DEF out
<1>7. QED
  BY <1>1, <1>2, <1>3, <1>4, <1>5, <1>6, ServerStep

-----------------------------------------------------------------------------
LEMMA InitInv == Init => IInv
<1> SUFFICES ASSUME Init PROVE IInv
  OBVIOUS
<1>1. TypeOK
  BY DEF Init, TypeOK, RStates, Reasons
<1>2. InitialRequested /\ WindowCoversPrefix
  BY InitialRange DEF Init, InitialRequested, Requested, WindowCoversPrefix
<1>3. SavedIsWhole /\ SavedByOutcome /\ NetOK /\ CreditOnlySaved
  BY DEF Init, SavedIsWhole, SavedByOutcome, NetOK, CreditOnlySaved
<1>4. SenderWithinRequest /\ SenderNeverStuck
  BY DEF Init, SenderWithinRequest, SenderNeverStuck
<1>5. QED
  BY <1>1, <1>2, <1>3, <1>4 DEF IInv

LEMMA NextInv == IInv /\ [Next]_vars => IInv'
<1> SUFFICES ASSUME IInv, [Next]_vars PROVE IInv'
  OBVIOUS
<1>1. CASE StartReceiver
  BY <1>1, StartReceiverStep
<1>2. ASSUME NEW m \in net, Handle(m) PROVE IInv'
  <2>1. CASE OnRequest(m)
    BY <2>1, OnRequestStep
  <2>2. CASE OnContent(m)
    BY <2>2, OnContentStep
  <2>3. CASE OnStrayContent(m)
    BY <2>3, OnStrayContentStep
  <2>4. CASE OnNotFound(m)
    BY <2>4, OnNotFoundStep
  <2>5. CASE OnProgress(m)
    BY <2>5, OnProgressStep
  <2>6. CASE OnComplete(m)
    BY <2>6, OnCompleteStep
  <2>7. CASE OnStrayAck(m)
    BY <2>7, OnStrayAckStep
  <2>8. QED
    BY <1>2, <2>1, <2>2, <2>3, <2>4, <2>5, <2>6, <2>7 DEF Handle
<1>3. CASE \E m \in net : Lose(m)
  BY <1>3, EnvironmentStep
<1>4. CASE RequesterTick
  BY <1>4, ReceiverTickStep DEF RequesterTick
<1>5. CASE GraceExpire \/ ReceiverCrash
  BY <1>5, ReceiverGoneStep
<1>6. CASE SenderSend
  BY <1>6, SenderSendStep
<1>7. CASE SenderTimeout
  BY <1>7, SenderTimeoutStep
<1>8. CASE SenderCrash
  BY <1>8, SenderCrashStep
<1>9. CASE StoreChanges \/ UNCHANGED vars
  BY <1>9, EnvironmentStep
<1>10. QED
  BY <1>1, <1>2, <1>3, <1>4, <1>5, <1>6, <1>7, <1>8, <1>9 DEF Next

THEOREM Invariance == Spec => []IInv
<1>1. QED
  BY InitInv, NextInv, PTL DEF Spec

(* Type correctness: in particular the requested count never goes negative *)
(* where advance subtracts, so a u16 holds every range (on_content,        *)
(* advance, on_ack).                                                       *)
THEOREM TypeCorrect == Spec => []TypeOK
BY Invariance, PTL DEF IInv

(* The receiver holds every packet before its window and none after it, in *)
(* spite of lost, repeated and reordered datagrams (on_content, advance).  *)
THEOREM WindowTheorem == Spec => []WindowCoversPrefix
BY Invariance, PTL DEF IInv

(* A saved file is the whole file (on_content, complete). *)
THEOREM WholeFile == Spec => []SavedIsWhole
BY Invariance, PTL DEF IInv

(* The sender follows the receiver: it works inside the file on a range    *)
(* the receiver asked for and never skips a missing packet (on_request,    *)
(* on_ack).                                                                *)
THEOREM SenderFollows == Spec => []SenderWithinRequest
BY Invariance, PTL DEF IInv

(* A sender that has sent its range waits for the answer with a timer, so  *)
(* the parked range of on_ack, from which no timer wakes it, is never      *)
(* reached.                                                                *)
THEOREM SenderIsWoken == Spec => []SenderNeverStuck
BY Invariance, PTL DEF IInv

(* Only saved files are credited (TransferRegistry::on_ack). *)
THEOREM CreditTheorem == Spec => []CreditOnlySaved
BY Invariance, PTL DEF IInv

(* The u32 subtraction in advance never underflows. *)
THEOREM AdvanceNeverUnderflows == Spec => []AdvanceHasRoom
<1>1. IInv => AdvanceHasRoom
  <2> DEFINE start == CurrentRange[1]
             count == CurrentRange[2]
  <2> SUFFICES ASSUME IInv
               PROVE  \A pn \in Window(start, count) \ packets :
                          RangeHeld(packets \cup {pn}, start, count) =>
                              FileFull(packets \cup {pn}) \/ start + count <= N
    BY DEF AdvanceHasRoom
  <2> SUFFICES ASSUME NEW pn \in Window(start, count) \ packets,
                      RangeHeld(packets \cup {pn}, start, count),
                      ~(start + count <= N)
               PROVE  FileFull(packets \cup {pn})
    OBVIOUS
  <2>1. /\ start \in Nat /\ count \in Nat
        /\ start + count - 1 = Requested /\ Requested \in 1..N
        /\ 1 .. start - 1 \subseteq packets
        /\ packets \subseteq 1 .. Requested
        /\ start >= 1
    BY RangeFacts
  <2>2. pn \in start .. start + count - 1
        /\ start .. start + count - 1 \subseteq packets \cup {pn}
    BY DEF Window, RangeHeld
  <2> HIDE DEF start, count
  <2>3. Requested = N
    BY <2>1
  <2>4. packets \cup {pn} \subseteq 1 .. N
    BY <2>1, <2>2, <2>3
  <2>5. 1 .. N \subseteq packets \cup {pn}
    BY <2>1, <2>2, <2>3
  <2>6. QED
    BY <2>4, <2>5, FullIsWhole
<1>2. QED
  BY <1>1, Invariance, PTL

-----------------------------------------------------------------------------
(* SegmentTransfer implements FileDelivery: what happens to the receiver   *)
(* is Open, Deliver or Fail, what happens to the sender is Serve, GiveUp   *)
(* or Credit, and no step is both.                                         *)

LEMMA ReceiverSide ==
    ASSUME IInv, IInv', UNCHANGED senderVars,
           \/ rstate' = rstate
           \/ rstate = "idle" /\ rstate' = "active"
           \/ rstate = "active" /\ rstate' \in {"ok", "failed"}
           \/ rstate = "active" /\ rstate' = "gone" /\ saved' = saved
           \/ rstate \in {"ok", "spoiled"} /\ rstate' \in {"spoiled", "gone"},
           saved => saved',
           rstate \notin {"idle", "active"} => saved' = saved
    PROVE  [Delivery!Next]_(Delivery!vars)
<1>1. sLive' = sLive /\ served' = served
  BY DEF senderVars
<1>2. /\ rstate \in {"idle", "active", "failed"} => ~saved
      /\ rstate \in {"ok", "spoiled"} => saved
      /\ rstate' \in {"idle", "active", "failed"} => ~saved'
      /\ rstate' \in {"ok", "spoiled"} => saved'
      /\ rstate \in RStates
  BY DEF IInv, SavedByOutcome, TypeOK
<1>3. \/ Download' = Download
      \/ Download = "idle" /\ Download' = "open"
      \/ Download = "open" /\ Download' \in {"delivered", "failed"}
  BY <1>2 DEF Download, RStates
<1>4. QED
  BY <1>1, <1>3 DEF Delivery!Next, Delivery!vars, Delivery!Open, Delivery!Deliver, Delivery!Fail

LEMMA SenderSide ==
    ASSUME IInv, UNCHANGED receiverVars,
           \/ UNCHANGED <<sLive, served>>
           \/ ~sLive /\ sLive' /\ served' = served /\ rstate # "idle"
           \/ sLive /\ ~sLive' /\ served' = served
           \/ sLive /\ ~sLive' /\ served' = served + 1 /\ saved,
           sLive' \in BOOLEAN
    PROVE  [Delivery!Next]_(Delivery!vars)
<1>1. Download' = Download
  BY DEF Download, receiverVars
<1>2. rstate # "idle" => Download # "idle"
  BY DEF Download
<1>3. saved => Download = "delivered"
  BY DEF Download, IInv, SavedByOutcome
<1>4. sLive \in BOOLEAN
  BY DEF IInv, TypeOK
<1>5. QED
  BY <1>1, <1>2, <1>3, <1>4
     DEF Delivery!Next, Delivery!vars, Delivery!Serve, Delivery!GiveUp, Delivery!Credit

(* Before the download starts nothing is in flight and nothing is served. *)
IdleIsSilent == rstate = "idle" => net = {} /\ sLive = FALSE

LEMMA IdleInv == Spec => []IdleIsSilent
<1>1. Init => IdleIsSilent
  BY DEF Init, IdleIsSilent
<1>2. IdleIsSilent /\ [Next]_vars => IdleIsSilent'
  <2> SUFFICES ASSUME IdleIsSilent, [Next]_vars, rstate' = "idle"
               PROVE  net' = {} /\ sLive' = FALSE
    BY DEF IdleIsSilent
  <2>1. CASE rstate = "idle"
    <3>1. net = {} /\ sLive = FALSE
      BY <2>1 DEF IdleIsSilent
    <3>2. CASE UNCHANGED vars
      BY <3>1, <3>2 DEF vars, senderVars
    <3>3. CASE StoreChanges
      BY <3>1, <3>3 DEF StoreChanges, senderVars
    <3>4. CASE Next /\ ~StoreChanges
      BY <2>1, <3>1, <3>4 DEF Next, StartReceiver, RequesterTick, ReceiverTick,
           GraceExpire, ReceiverCrash, SenderSend, SenderTimeout, SenderCrash
    <3>5. QED
      BY <3>2, <3>3, <3>4
  <2>2. CASE rstate # "idle"
    <3>1. ~UNCHANGED rstate
      BY <2>2
    <3>2. \A m \in net : ~Handle(m)
      BY <3>1 DEF Handle, OnRequest, OnContent, StorePacket, FinishFile, NudgeOrIgnore,
           OnStrayContent, OnNotFound, OnProgress, OnComplete, OnStrayAck, Fail, receiverVars
    <3>3. \A due \in SUBSET {"response", "quiet"} : ~ReceiverTick(due)
      BY <3>1 DEF ReceiverTick, Fail
    <3>4. QED
      BY <3>1, <3>2, <3>3 DEF Next, vars, StartReceiver, Lose, RequesterTick, GraceExpire,
           ReceiverCrash, SenderSend, SenderTimeout, SenderCrash, StoreChanges, receiverVars
  <2>3. QED
    BY <2>1, <2>2
<1>3. QED
  BY <1>1, <1>2, PTL DEF Spec

LEMMA HandleImplements ==
    ASSUME IInv, IInv', IdleIsSilent, NEW m \in net, Handle(m)
    PROVE  [Delivery!Next]_(Delivery!vars)
<1>1. rstate # "idle"
  BY DEF IdleIsSilent
<1>2. sLive' \in BOOLEAN
  BY DEF IInv, TypeOK
<1>3. CASE OnRequest(m)
  <2>1. UNCHANGED receiverVars
    BY <1>3 DEF OnRequest
  <2>2. UNCHANGED senderVars \/ (sLive' = TRUE /\ served' = served)
    BY <1>3 DEF OnRequest, NewSender
  <2>3. sLive \in BOOLEAN
    BY DEF IInv, TypeOK
  <2>4. \/ UNCHANGED <<sLive, served>>
        \/ ~sLive /\ sLive' /\ served' = served
    BY <2>2, <2>3 DEF senderVars
  <2>5. QED
    BY <1>1, <1>2, <2>1, <2>4, SenderSide
<1>4. CASE OnContent(m)
  <2>1. UNCHANGED senderVars /\ rstate = "active"
    BY <1>4 DEF OnContent
  <2>2. /\ rstate' = rstate \/ rstate' \in {"ok", "failed"}
        /\ saved => saved'
    BY <1>4 DEF OnContent, StorePacket, FinishFile, Fail, NudgeOrIgnore
  <2>3. QED
    BY <2>1, <2>2, ReceiverSide
<1>5. CASE OnStrayContent(m) \/ OnStrayAck(m)
  <2>1. UNCHANGED receiverVars /\ UNCHANGED <<sLive, served>>
    BY <1>5 DEF OnStrayContent, OnStrayAck, senderVars
  <2>2. QED
    BY <1>2, <2>1, SenderSide
<1>6. CASE OnNotFound(m)
  <2>1. UNCHANGED senderVars /\ saved' = saved
    BY <1>6 DEF OnNotFound
  <2>2. \/ rstate' = rstate
        \/ rstate = "active" /\ rstate' = "failed"
        \/ rstate \in {"ok", "spoiled"} /\ rstate' = "spoiled"
    BY <1>6 DEF OnNotFound, Fail
  <2>3. QED
    BY <2>1, <2>2, ReceiverSide
<1>7. CASE OnProgress(m)
  <2>1. UNCHANGED receiverVars /\ UNCHANGED <<sLive, served>>
    BY <1>7 DEF OnProgress
  <2>2. QED
    BY <1>2, <2>1, SenderSide
<1>8. CASE OnComplete(m)
  <2>1. UNCHANGED receiverVars /\ sLive /\ ~sLive' /\ served' = served + 1
    BY <1>8 DEF OnComplete, FreeSender
  <2>2. saved
    BY <1>8 DEF OnComplete, IInv, NetOK, MessageOK
  <2>3. QED
    BY <1>2, <2>1, <2>2, SenderSide
<1>9. QED
  BY <1>3, <1>4, <1>5, <1>6, <1>7, <1>8 DEF Handle

LEMMA StepImplements ==
    ASSUME IInv, IInv', IdleIsSilent, [Next]_vars
    PROVE  [Delivery!Next]_(Delivery!vars)
<1>1. sLive' \in BOOLEAN
  BY DEF IInv, TypeOK
<1>2. CASE StartReceiver
  BY <1>2, ReceiverSide DEF StartReceiver
<1>3. CASE \E m \in net : Handle(m)
  BY <1>3, HandleImplements
<1>4. CASE (\E m \in net : Lose(m)) \/ StoreChanges \/ UNCHANGED vars
  <2>1. UNCHANGED receiverVars /\ UNCHANGED <<sLive, served>>
    BY <1>4 DEF Lose, StoreChanges, vars, receiverVars, senderVars
  <2>2. QED
    BY <1>1, <2>1, SenderSide
<1>5. CASE RequesterTick
  <2>1. UNCHANGED senderVars /\ saved' = saved /\ rstate = "active"
    BY <1>5 DEF RequesterTick, ReceiverTick
  <2>2. rstate' = rstate \/ rstate' = "failed"
    BY <1>5 DEF RequesterTick, ReceiverTick, Fail
  <2>3. QED
    BY <2>1, <2>2, ReceiverSide
<1>6. CASE GraceExpire \/ ReceiverCrash
  <2>1. UNCHANGED senderVars /\ saved' = saved
    BY <1>6 DEF GraceExpire, ReceiverCrash
  <2>2. rstate \in {"active", "ok", "spoiled"} /\ rstate' = "gone"
    BY <1>6 DEF GraceExpire, ReceiverCrash
  <2>3. QED
    BY <2>1, <2>2, ReceiverSide
<1>7. CASE SenderSend
  <2>1. UNCHANGED receiverVars /\ UNCHANGED <<sLive, served>>
    BY <1>7 DEF SenderSend
  <2>2. QED
    BY <1>1, <2>1, SenderSide
<1>8. CASE SenderTimeout \/ SenderCrash
  <2>1. UNCHANGED receiverVars /\ served' = served /\ sLive
    BY <1>8 DEF SenderTimeout, SenderCrash
  <2>2. sLive' = sLive \/ ~sLive'
    BY <1>8 DEF SenderTimeout, SenderCrash, FreeSender
  <2>3. QED
    BY <1>1, <2>1, <2>2, SenderSide
<1>9. QED
  BY <1>2, <1>3, <1>4, <1>5, <1>6, <1>7, <1>8 DEF Next

(* Every behaviour of the transfer is one FileDelivery allows (serve,      *)
(* on_ack, on_content, on_not_found and schedule_jobs taken together).     *)
THEOREM Implements == Spec => DeliveryPromise
<1>1. Init => Delivery!Init
  BY DEF Init, Delivery!Init, Download
<1>2. IInv /\ IInv' /\ IdleIsSilent /\ [Next]_vars => [Delivery!Next]_(Delivery!vars)
  BY StepImplements
<1>3. QED
  BY <1>1, <1>2, Invariance, IdleInv, PTL DEF Spec, DeliveryPromise, Delivery!Spec

=============================================================================
