----------------------------- MODULE Membership -----------------------------
(***************************************************************************)
(* Who knows whom: node.peers of the master and of the peers (node.rs),    *)
(* the bootstrap and discovery handshakes and the peerlist poll of a peer  *)
(* (peer.rs), and the master's loop, which forgets nobody (server.rs).     *)
(*                                                                         *)
(* Handshakes and PINGs travel as datagrams, since they race with timers,  *)
(* evictions and crashes.  A peerlist poll is one step: an old list names  *)
(* nobody whom the master, which forgets nobody, would not name later too. *)
(* PONGs, which only keep an entry fresh, are reduced to the choice of     *)
(* when Forget happens.                                                    *)
(***************************************************************************)
EXTENDS Naturals

CONSTANTS
    Master,     \* the bootstrap of every peer
    Peers,      \* the other nodes
    Lan,        \* nodes that hear a beacon of their own: one LAN, one UDP port
    MaxFaults,  \* bound: crashes, losses and spells of silence, all together
    Slow        \* bound: the pairs <<n, m>> whose PINGs other steps may overtake

Nodes == Peers \cup {Master}

ASSUME MembershipAssumption ==
    /\ Master \notin Peers
    /\ Lan \subseteq Nodes
    /\ MaxFaults \in Nat
    /\ Slow \subseteq Nodes \X Nodes

VARIABLES
    up,       \* running processes
    known,    \* known[n]: the addresses in n's node.peers
    pending,  \* pending[p]: pending_handshakes
    done,     \* done[p]: handshake_done
    net,      \* datagrams in flight
    faults    \* crashes, losses and spells of silence so far

vars == <<up, known, pending, done, net, faults>>

Request(p, n) == [type |-> "request", from |-> p, to |-> n]
Response(n, p) == [type |-> "response", from |-> n, to |-> p]
Probe(n, m) == [type |-> "ping", from |-> n, to |-> m]

(* Everybody has just started, and the peers have greeted the bootstrap. *)
Init ==
    /\ up = Nodes
    /\ known = [n \in Nodes |-> {}]
    /\ pending = [p \in Peers |-> {}]
    /\ done = [p \in Peers |-> FALSE]
    /\ net = {Request(p, Master) : p \in Peers}
    /\ faults = 0

(* register_peer: n has heard from m. *)
Registers(n, m) == known' = [known EXCEPT ![n] = @ \cup {m}]

-----------------------------------------------------------------------------
(* Processes start and die.                                                *)

(* A node that died starts with nothing in memory; a peer greets the       *)
(* bootstrap.                                                              *)
Start(n) ==
    /\ n \notin up
    /\ up' = up \cup {n}
    /\ net' = net \cup (IF n \in Peers THEN {Request(n, Master)} ELSE {})
    /\ UNCHANGED <<known, pending, done, faults>>

(* A step that is no fault only because something is down already. *)
FaultUnless(excused) ==
    IF excused THEN UNCHANGED faults
               ELSE faults < MaxFaults /\ faults' = faults + 1

Crash(n) ==
    /\ n \in up
    /\ FaultUnless(FALSE)
    /\ up' = up \ {n}
    /\ known' = [known EXCEPT ![n] = {}]
    /\ pending' = [p \in Peers |-> IF p = n THEN {} ELSE pending[p]]
    /\ done' = [p \in Peers |-> p # n /\ done[p]]
    /\ UNCHANGED net

(* Loss, or delivery to a process that is not there. *)
Lose(m) ==
    /\ FaultUnless(m.to \notin up)
    /\ net' = net \ {m}
    /\ UNCHANGED <<up, known, pending, done>>

-----------------------------------------------------------------------------
(* Handshakes.                                                             *)

OnRequest(n, m) ==
    /\ n \in up
    /\ m \in net /\ m.type = "request" /\ m.to = n
    /\ Registers(n, m.from)
    /\ net' = (net \ {m}) \cup {Response(n, m.from)}
    /\ UNCHANGED <<up, pending, done, faults>>

(* Event::HandshakeResponse: the bootstrap's is the one the loop waits for. *)
OnResponse(p, m) ==
    /\ p \in up
    /\ m \in net /\ m.type = "response" /\ m.to = p
    /\ Registers(p, m.from)
    /\ done' = [done EXCEPT ![p] = @ \/ m.from = Master]
    /\ pending' = [pending EXCEPT ![p] = @ \ {m.from}]
    /\ net' = net \ {m}
    /\ UNCHANGED <<up, faults>>

RetryForEver(p) ==  \* mutated: greets the bootstrap whenever it is unknown
    /\ p \in up
    /\ ~done[p] \/ Master \notin known[p]
    /\ net' = net \cup {Request(p, Master)}
    /\ UNCHANGED <<up, known, pending, done, faults>>

(* The bootstrap handshake is repeated until it is answered once. *)
RetryHandshake(p) ==
    /\ p \in up
    /\ ~done[p]
    /\ net' = net \cup {Request(p, Master)}
    /\ UNCHANGED <<up, known, pending, done, faults>>

(* No answer in time: the address is dropped, though it may have been      *)
(* registered meanwhile by a request or PING of its own.                   *)
HandshakeExpires(p, n) ==
    /\ p \in up
    /\ n \in pending[p]
    /\ pending' = [pending EXCEPT ![p] = @ \ {n}]
    /\ known' = [known EXCEPT ![p] = @ \ {n}]
    /\ UNCHANGED <<up, done, net, faults>>

-----------------------------------------------------------------------------
(* Discovery and keep-alive.                                               *)

PollPeersBack(p) ==  \* mutated: the requester is in its own list
    /\ {p, Master} \subseteq up
    /\ LET new == known[Master] \ (known[p] \cup pending[p])
       IN  /\ pending' = [pending EXCEPT ![p] = @ \cup new]
           /\ net' = net \cup {Request(p, n) : n \in new}
    /\ UNCHANGED <<up, known, done, faults>>

PollPeersKnown(p) ==  \* mutated: a master answers only peers it knows
    /\ {p, Master} \subseteq up
    /\ p \in known[Master]
    /\ LET new == known[Master] \ ({p} \cup known[p] \cup pending[p])
       IN  /\ pending' = [pending EXCEPT ![p] = @ \cup new]
           /\ net' = net \cup {Request(p, n) : n \in new}
    /\ UNCHANGED <<up, known, done, faults>>

(* PEERLIST_REQUEST, its answer, and what the peer does with it: it greets *)
(* everybody the master knows and it does not.                             *)
PollPeers(p) ==
    /\ {p, Master} \subseteq up
    /\ LET new == known[Master] \ ({p} \cup known[p] \cup pending[p])
       IN  /\ pending' = [pending EXCEPT ![p] = @ \cup new]
           /\ net' = net \cup {Request(p, n) : n \in new}
    /\ UNCHANGED <<up, known, done, faults>>

HearsNobody(n, m) ==  \* mutated: a PING registers nobody
    /\ n \in up
    /\ UNCHANGED <<up, known, pending, done, faults>>

(* n gets a PING of m: an unknown source is registered, at a peer and at   *)
(* the master, whoever m knows by now.                                     *)
HearsPing(n, m) ==
    /\ n \in up
    /\ Registers(n, m)
    /\ UNCHANGED <<up, pending, done, faults>>

(* A PING from n to m arrives before anything else happens, or is one of   *)
(* those that crashes, evictions and other datagrams overtake.             *)
Probes(n, m) ==
    \/ HearsPing(m, n) /\ UNCHANGED net
    \/ /\ <<n, m>> \in Slow
       /\ net' = net \cup {Probe(n, m)}
       /\ UNCHANGED <<up, known, pending, done, faults>>

(* ping_cycle: to everybody n knows. *)
Ping(n, m) ==
    /\ n \in up
    /\ m \in known[n]
    /\ Probes(n, m)

(* ping_cycle of a peer: to its LAN and UDP port, whoever listens there.   *)
Beacon(p, n) ==
    /\ p \in up
    /\ p # n /\ {p, n} \subseteq Lan
    /\ Probes(p, n)

OnPing(n, m) ==
    /\ m \in net /\ m.type = "ping" /\ m.to = n
    /\ HearsPing(n, m.from)
    /\ net' = net \ {m}

(* A peer forgets who was silent: prune_peers after PEER_TTL, or the       *)
(* eviction after unresponsive pulls.  Silence of a running node is the    *)
(* network's fault.                                                        *)
Forget(p, n) ==
    /\ p \in up
    /\ n \in known[p]
    /\ FaultUnless(n \notin up)
    /\ known' = [known EXCEPT ![p] = @ \ {n}]
    /\ UNCHANGED <<up, pending, done, net>>

-----------------------------------------------------------------------------
Next ==
    \/ \E n \in Nodes : Start(n) \/ Crash(n)
    \/ \E m \in net : Lose(m)
    \/ \E n \in Nodes, m \in net : OnRequest(n, m) \/ OnPing(n, m)
    \/ \E p \in Peers, m \in net : OnResponse(p, m)
    \/ \E p \in Peers : RetryHandshake(p) \/ PollPeers(p)
    \/ \E p \in Peers, n \in Nodes : HandshakeExpires(p, n) \/ Forget(p, n)
    \/ \E n, m \in Nodes : Ping(n, m)
    \/ \E p \in Peers, n \in Nodes : Beacon(p, n)

Spec == Init /\ [][Next]_vars

(* Processes are started again, the timers of a loop fire, and after the   *)
(* last fault the datagrams arrive.  Beacons may be lost for ever.         *)
Fairness ==
    /\ \A n \in Nodes : WF_vars(Start(n))
    /\ \A p \in Peers :
          /\ WF_vars(RetryHandshake(p))
          /\ WF_vars(PollPeers(p))
          /\ \A q \in Peers \ {p} : WF_vars(HandshakeExpires(p, q))
          /\ \A n \in Nodes \ {p} :
                /\ WF_vars(OnRequest(n, Request(p, n)))
                /\ WF_vars(OnResponse(p, Response(n, p)))
    /\ \A n \in Nodes : \A m \in Nodes \ {n} :
          /\ WF_vars(Ping(n, m))
          /\ WF_vars(OnPing(m, Probe(n, m)))

FairSpec == Spec /\ Fairness

-----------------------------------------------------------------------------
(* Properties.                                                             *)

Messages ==
    {Request(p, n) : p \in Peers, n \in Nodes}
        \cup {Response(n, p) : n \in Nodes, p \in Peers}
        \cup {Probe(n, m) : n \in Nodes, m \in Nodes}

(* The types; nobody knows or greets itself, and the master, which is in   *)
(* no peerlist, is never a pending handshake.                              *)
TypeOK ==
    /\ up \subseteq Nodes
    /\ known \in [Nodes -> SUBSET Nodes]
    /\ \A n \in Nodes : n \notin known[n]
    /\ pending \in [Peers -> SUBSET Peers]
    /\ \A p \in Peers : p \notin pending[p]
    /\ done \in [Peers -> BOOLEAN]
    /\ net \subseteq Messages
    /\ \A m \in net : m.from # m.to
    /\ faults \in 0..MaxFaults

(* p and the master have forgotten each other after p's first handshake. *)
Strangers(p) == done[p] /\ p \notin known[Master] /\ Master \notin known[p]
BothUp(p, n) == {p, n} \subseteq up

(* A peer and the master know each other again and again while both run,   *)
(* unless they have become strangers (ping_cycle, RetryHandshake).         *)
FoundOrStrangers ==
    \A p \in Peers :
        <>[]BothUp(p, Master) =>
            /\ []<>(Master \in known[p] \/ Strangers(p))
            /\ []<>(p \in known[Master] \/ Strangers(p))

(* Two peers know each other again and again while they and the master     *)
(* run, whatever handshakes are lost, late or expired, if the master knows *)
(* one of them (PEERLIST_RESPONSE, pending_handshakes).                    *)
OverlayForms ==
    \A p, q \in Peers :
        p # q /\ <>[](BothUp(p, q) /\ Master \in up) =>
            []<>(q \in known[p] \/ (Strangers(p) /\ Strangers(q)))

(* p and the master are strangers, and no handshake or PING between them   *)
(* is in flight.                                                           *)
Cut(p) ==
    /\ Strangers(p)
    /\ \A m \in net : {m.from, m.to} # {p, Master}

(* A peer that is cut off stays so until it restarts, unless the master    *)
(* hears its beacons: handshake_done is never reset and ping_cycle goes to *)
(* known nodes only, whatever the master and the other peers do meanwhile. *)
StrangersStay ==
    [][\A p \in Peers :
          ~({p, Master} \subseteq Lan) /\ Cut(p) /\ p \in up' => Cut(p)']_vars

(* "The master retains the origin as an authoritative recovery path"       *)
(* (SPEC.md 7.4; the recovery candidate of pick_peer has to be known): a   *)
(* peer knows the running master again and again.                          *)
OriginStaysKnown ==
    \A p \in Peers : <>[]BothUp(p, Master) => []<>(Master \in known[p])

=============================================================================
