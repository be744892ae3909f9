------------------------------- MODULE SendPath -------------------------------
(***************************************************************************)
(* The way of an outgoing datagram: encoded (Codec), passed through the    *)
(* fault injector (fault.rs), and sent when the node's loop wakes up for   *)
(* it (Node::next_deadline, Node::tick).                                   *)
(*                                                                         *)
(* Time is counted in units.  Times are kept relative to now, and time     *)
(* does not pass a deadline that the loop wakes up for.                    *)
(***************************************************************************)
EXTENDS Codec

CONSTANTS
    Outgoing,    \* bound: Outgoing[k] is the set of messages the k-th may be
    Delays,      \* values of QSTREAM_FAULT_DELAY_MS
    HoldMax,     \* HOLD_MAX
    Faults,      \* subset of {"drop", "dup", "reorder"}: rolls that may succeed
    BurstEvery,  \* QSTREAM_FAULT_BURST_EVERY_MS, 0 = off
    BurstDur,    \* QSTREAM_FAULT_BURST_DUR_MS
    MaxPayload   \* the longest payload that UDP takes: 65507 - 14

ASSUME SendPathAssumption ==
    /\ Outgoing \in Seq(SUBSET Messages)
    /\ Delays \subseteq Nat
    /\ HoldMax \in Nat
    /\ Faults \subseteq {"drop", "dup", "reorder"}
    /\ BurstEvery \in Nat /\ BurstDur \in Nat
    /\ MaxPayload \in Nat /\ MaxPayload < U16Size

VARIABLES
    delay,    \* delay_ms, read once
    phase,    \* time since the start, modulo BurstEvery
    sent,     \* history: the messages given to Node::send, in order
    held,     \* {} or the one datagram kept for reordering: [n, age]
    delayed,  \* datagrams waiting out their latency: [n, wait]
    wire      \* history: what has been given to the socket, in order

vars == <<delay, phase, sent, held, delayed, wire>>

(* A datagram is known by its number n: it is Encode(sent[n]).  The socket *)
(* takes it if it fits into UDP's.                                         *)
Fits(m) == Len(Payload(m)) <= MaxPayload

Init ==
    /\ delay \in Delays
    /\ phase = 0
    /\ sent = <<>>
    /\ held = {}
    /\ delayed = <<>>
    /\ wire = <<>>

-----------------------------------------------------------------------------
(* send_to, whose error nobody looks at. *)
Emit(ns) == wire' = wire \o ns

(* in_burst *)
InBurst == BurstEvery # 0 /\ phase < BurstDur

(* The copies of one datagram that survive pipeline's rolls. *)
Survivors ==
    {k \in 0..2 : (k = 0 => "drop" \in Faults) /\ (k = 2 => "dup" \in Faults)}
Copies(n) == {[i \in 1..k |-> n] : k \in Survivors}

Wait(ns) == [i \in 1 .. Len(ns) |-> [n |-> ns[i], wait |-> delay]]

(* pipeline: the copies wait for their latency, if there is one. *)
Pipeline(ns) ==
    IF delay > 0 THEN delayed' = delayed \o Wait(ns) /\ UNCHANGED wire
                 ELSE Emit(ns) /\ UNCHANGED delayed

SendInBurst ==
    /\ InBurst
    /\ UNCHANGED <<held, delayed, wire>>

SendSwappedKeepsHeld(n) ==  \* mutated: `held` is read, not taken
    /\ ~InBurst
    /\ held # {}
    /\ UNCHANGED held
    /\ \E h \in held : \E new \in Copies(n), old \in Copies(h.n) :
          Pipeline(new \o old)

(* The new one goes first, then the one held back. *)
SendSwapped(n) ==
    /\ ~InBurst
    /\ held # {}
    /\ held' = {}
    /\ \E h \in held : \E new \in Copies(n), old \in Copies(h.n) :
          Pipeline(new \o old)

Hold(n) ==
    /\ ~InBurst
    /\ "reorder" \in Faults
    /\ held = {}
    /\ held' = {[n |-> n, age |-> 0]}
    /\ UNCHANGED <<delayed, wire>>

SendPlain(n) ==
    /\ ~InBurst
    /\ held = {}
    /\ \E copies \in Copies(n) : Pipeline(copies)
    /\ UNCHANGED held

(* FaultInjector::send *)
Send(m) ==
    /\ sent' = Append(sent, m)
    /\ LET n == Len(sent')
       IN  SendInBurst \/ SendSwapped(n) \/ Hold(n) \/ SendPlain(n)
    /\ UNCHANGED <<delay, phase>>

-----------------------------------------------------------------------------
(* The datagrams at the front of the queue whose time has come. *)
Due == {i \in 1 .. Len(delayed) : \A j \in 1..i : delayed[j].wait = 0}
Ripe == {h \in held : h.age >= HoldMax}

DrainHeldFirst ==  \* mutated: the held datagram goes before the delayed ones
    LET due == Cardinality(Due)
        old == IF Ripe = {} THEN <<>> ELSE <<(CHOOSE h \in Ripe : TRUE).n>>
    IN  /\ delayed' = SubSeq(delayed, due + 1, Len(delayed))
        /\ held' = held \ Ripe
        /\ UNCHANGED <<delay, phase, sent>>
        /\ Emit(old \o [i \in 1..due |-> delayed[i].n])

DrainDelayedOnly ==  \* mutated: a held datagram waits for the next one
    LET due == Cardinality(Due)
    IN  /\ delayed' = SubSeq(delayed, due + 1, Len(delayed))
        /\ UNCHANGED <<held, delay, phase, sent>>
        /\ Emit([i \in 1..due |-> delayed[i].n])

(* drain, at every turn of the loop.  A datagram that was held too long is *)
(* sent at once: it meets neither drop nor latency.                        *)
Drain ==
    LET due == Cardinality(Due)
        old == IF Ripe = {} THEN <<>> ELSE <<(CHOOSE h \in Ripe : TRUE).n>>
    IN  /\ delayed' = SubSeq(delayed, due + 1, Len(delayed))
        /\ held' = held \ Ripe
        /\ UNCHANGED <<delay, phase, sent>>
        /\ Emit([i \in 1..due |-> delayed[i].n] \o old)

OverdueIgnoresHeld ==  \* mutated: nobody wakes up for a held datagram
    delayed # <<>> /\ Head(delayed).wait = 0

(* next_deadline has come: that of the first delayed datagram or, if there *)
(* is none, that of the held one.                                          *)
Overdue ==
    IF delayed # <<>> THEN Head(delayed).wait = 0 ELSE Ripe # {}

(* A unit of time passes while the loop sleeps. *)
Tick ==
    /\ ~Overdue
    /\ phase' = IF BurstEvery = 0 THEN 0 ELSE (phase + 1) % BurstEvery
    /\ held' = {[h EXCEPT !.age = @ + 1] : h \in held}
    /\ delayed' = [i \in 1 .. Len(delayed) |-> [delayed[i] EXCEPT !.wait = @ - 1]]
    /\ UNCHANGED <<delay, sent, wire>>

-----------------------------------------------------------------------------
Next ==
    \/ /\ Len(sent) < Len(Outgoing)
       /\ \E m \in Outgoing[Len(sent) + 1] : Send(m)
    \/ Drain
    \/ Tick

Spec == Init /\ [][Next]_vars

(* Time passes, and the loop wakes up for its deadline. *)
FairSpec == Spec /\ WF_vars(Tick) /\ WF_vars(Drain)

-----------------------------------------------------------------------------
(* Properties.                                                             *)

Numbers == 1 .. Len(sent)
Waiting == {delayed[i].n : i \in 1 .. Len(delayed)} \cup {h.n : h \in held}
OnWire == {wire[i] : i \in 1 .. Len(wire)}
Larger(a, b) == IF a >= b THEN a ELSE b

(* The types.  The queue is in the order of its deadlines, which drain and *)
(* next_deadline rely on when they look at its front only; a datagram is   *)
(* held or delayed, not both.                                              *)
TypeOK ==
    /\ delay \in Delays
    /\ phase \in Nat
    /\ Cardinality(held) <= 1
    /\ \A h \in held : h.n \in Numbers /\ h.age \in Nat
    /\ \A i \in 1 .. Len(delayed) :
          /\ delayed[i].n \in Numbers
          /\ delayed[i].wait \in 0..delay
          /\ \A j \in 1..i : delayed[j].wait <= delayed[i].wait
          /\ \A h \in held : h.n # delayed[i].n
    /\ OnWire \subseteq Numbers

(* No datagram is kept longer than HOLD_MAX or the latency, whichever is   *)
(* more, though the loop sleeps until the first delayed datagram is due    *)
(* and forgets the held one (next_deadline).                               *)
LeavesInTime == \A h \in held : h.age <= Larger(HoldMax, delay)

(* "% of sends swapped with the next one" (fault.rs): no datagram          *)
(* overtakes another except the next one that is not dropped, as long as   *)
(* the latency is not longer than HOLD_MAX.                                *)
OnlyNeighboursSwap ==
    delay <= HoldMax =>
        \A i, j \in 1 .. Len(wire) :
            i < j => \A k \in wire[j] + 1 .. wire[i] - 1 :
                        k \notin OnWire \cup Waiting

(* Whatever is delivered is understood as it was meant: no datagram that   *)
(* UDP takes is rejected, cut or taken for another (encode, decode), and   *)
(* none is sent more than twice.                                           *)
DeliveredAsSent ==
    \A i \in 1 .. Len(wire) :
        /\ LET m == sent[wire[i]] IN Fits(m) => Decode(Encode(m)) = Understood(m)
        /\ Cardinality({j \in 1 .. Len(wire) : wire[j] = wire[i]}) <= 2

(* Nothing is kept for good: a datagram held back or delayed leaves even   *)
(* when nothing else is sent (next_deadline, drain).                       *)
EverythingLeaves ==
    \A n \in 1 .. Len(Outgoing) : n \in Waiting ~> n \notin Waiting

=============================================================================
