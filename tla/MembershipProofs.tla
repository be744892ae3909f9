--------------------------- MODULE MembershipProofs ---------------------------
(***************************************************************************)
(* Theorems about Membership, for any set of peers, any LAN and any number *)
(* of faults.                                                              *)
(***************************************************************************)
EXTENDS Membership, TLAPS

USE MembershipAssumption

(* A process that is down has forgotten its handshake. *)
DownForgets == \A p \in Peers \ up : ~done[p]

Inv == TypeOK /\ DownForgets

(* A datagram is the one its fields say. *)
LEMMA MessageShape ==
    ASSUME NEW m \in Messages
    PROVE  /\ m.type = "request" => m.from \in Peers /\ m = Request(m.from, m.to)
           /\ m.type = "response" => m.to \in Peers /\ m = Response(m.from, m.to)
           /\ m.type = "ping" => m = Probe(m.from, m.to)
           /\ m.type \in {"request", "response", "ping"}
           /\ m.from \in Nodes /\ m.to \in Nodes
  BY DEF Messages, Request, Response, Probe, Nodes

LEMMA InitInv == Init => Inv
  BY DEF Init, Inv, TypeOK, DownForgets, Nodes, Messages, Request

(* A PING, at once or late, spoils no type, and no late one is to oneself.  *)
LEMMA ProbesInv ==
    ASSUME Inv, NEW n \in Nodes, NEW m \in Nodes, n # m, Probes(n, m)
    PROVE  Inv'
<1> USE DEF Inv, TypeOK, DownForgets
<1>1. CASE HearsPing(m, n) /\ UNCHANGED net
  BY <1>1 DEF HearsPing, Registers, Messages
<1>2. CASE /\ net' = net \cup {Probe(n, m)}
           /\ UNCHANGED <<up, known, pending, done, faults>>
  BY <1>2 DEF Messages, Probe
<1> QED
  BY <1>1, <1>2 DEF Probes

(* Every step but a crash leaves who has done its handshake alone, or adds. *)
LEMMA StepInv == ASSUME Inv, [Next]_vars PROVE Inv'
<1> USE DEF Inv, TypeOK, DownForgets
<1>1. ASSUME NEW n \in Nodes, Start(n) PROVE Inv'
  BY <1>1 DEF Start, Nodes, Messages, Request
<1>2. ASSUME NEW n \in Nodes, Crash(n) PROVE Inv'
  <2>1. faults' \in 0..MaxFaults
    BY <1>2 DEF Crash, FaultUnless
  <2>2. done' \in [Peers -> BOOLEAN] /\ \A p \in Peers \ up' : ~done'[p]
    <3>1. done' = [p \in Peers |-> p # n /\ done[p]] /\ up' = up \ {n}
      BY <1>2 DEF Crash
    <3>2. \A p \in Peers : done'[p] = (p # n /\ done[p])
      BY <3>1
    <3> QED
      BY <3>1, <3>2
  <2>3. known' \in [Nodes -> SUBSET Nodes] /\ \A k \in Nodes : k \notin known'[k]
    BY <1>2 DEF Crash
  <2>4. pending' \in [Peers -> SUBSET Peers] /\ \A k \in Peers : k \notin pending'[k]
    BY <1>2 DEF Crash
  <2> QED
    BY <1>2, <2>1, <2>2, <2>3, <2>4 DEF Crash, Messages
<1>3. ASSUME NEW m \in net, Lose(m) PROVE Inv'
  BY <1>3 DEF Lose, FaultUnless
<1>4. ASSUME NEW n \in Nodes, NEW m \in net, OnRequest(n, m) PROVE Inv'
  <2>1. m.from \in Peers /\ m.from # n
    BY <1>4, MessageShape DEF OnRequest
  <2>2. Response(n, m.from) \in Messages
    BY <2>1 DEF Messages
  <2>3. Response(n, m.from).from # Response(n, m.from).to
    BY <2>1 DEF Response
  <2>4. known' \in [Nodes -> SUBSET Nodes] /\ \A k \in Nodes : k \notin known'[k]
    BY <1>4, <2>1 DEF OnRequest, Registers, Nodes
  <2> QED
    BY <1>4, <2>2, <2>3, <2>4 DEF OnRequest
<1>5. ASSUME NEW p \in Peers, NEW m \in net, OnResponse(p, m) PROVE Inv'
  <2>1. m.from \in Nodes /\ m.from # p
    BY <1>5, MessageShape DEF OnResponse
  <2>2. known' \in [Nodes -> SUBSET Nodes] /\ \A k \in Nodes : k \notin known'[k]
    BY <1>5, <2>1 DEF OnResponse, Registers, Nodes
  <2>3. done' \in [Peers -> BOOLEAN] /\ \A k \in Peers \ up : ~done'[k]
    BY <1>5 DEF OnResponse
  <2>4. pending' \in [Peers -> SUBSET Peers] /\ \A k \in Peers : k \notin pending'[k]
    BY <1>5 DEF OnResponse
  <2> QED
    BY <1>5, <2>2, <2>3, <2>4 DEF OnResponse
<1>6. ASSUME NEW p \in Peers, RetryHandshake(p) PROVE Inv'
  BY <1>6 DEF RetryHandshake, Messages, Request, Nodes
<1>7. ASSUME NEW p \in Peers, PollPeers(p) PROVE Inv'
  <2> DEFINE new == known[Master] \ ({p} \cup known[p] \cup pending[p])
  <2>1. new \subseteq Peers \ {p}
    BY DEF Nodes
  <2>2. pending' = [pending EXCEPT ![p] = @ \cup new]
        /\ net' = net \cup {Request(p, n) : n \in new}
    BY <1>7 DEF PollPeers
  <2>3. \A m \in {Request(p, n) : n \in new} : m \in Messages /\ m.from # m.to
    BY <2>1 DEF Messages, Request, Nodes
  <2>4. pending' \in [Peers -> SUBSET Peers] /\ \A k \in Peers : k \notin pending'[k]
    BY <2>1, <2>2
  <2> HIDE DEF new
  <2>5. net' \subseteq Messages /\ \A m \in net' : m.from # m.to
    BY <2>2, <2>3
  <2> QED
    BY <1>7, <2>4, <2>5 DEF PollPeers, Messages
<1>8. ASSUME NEW p \in Peers, NEW n \in Nodes, HandshakeExpires(p, n) PROVE Inv'
  BY <1>8 DEF HandshakeExpires, Nodes
<1>9. ASSUME NEW p \in Peers, NEW n \in Nodes, Forget(p, n) PROVE Inv'
  BY <1>9 DEF Forget, FaultUnless, Nodes
<1>10. ASSUME NEW n \in Nodes, NEW m \in Nodes, Ping(n, m) PROVE Inv'
  <2>1. n # m /\ Probes(n, m)
    BY <1>10 DEF Ping
  <2> QED
    BY <2>1, ProbesInv
<1>11. ASSUME NEW p \in Peers, NEW n \in Nodes, Beacon(p, n) PROVE Inv'
  <2>1. p # n /\ p \in Nodes /\ Probes(p, n)
    BY <1>11 DEF Beacon, Nodes
  <2> QED
    BY <2>1, ProbesInv
<1>12. ASSUME NEW n \in Nodes, NEW m \in net, OnPing(n, m) PROVE Inv'
  <2>1. m.from \in Nodes /\ m.from # n
    BY <1>12, MessageShape DEF OnPing
  <2> QED
    BY <1>12, <2>1 DEF OnPing, HearsPing, Registers, Messages
<1>13. CASE UNCHANGED vars
  BY <1>13 DEF vars, Messages
<1> QED
  BY <1>1, <1>2, <1>3, <1>4, <1>5, <1>6, <1>7, <1>8, <1>9, <1>10, <1>11, <1>12,
     <1>13 DEF Next

THEOREM Invariance == Spec => []Inv
  BY InitInv, StepInv, PTL DEF Spec

(* Every variable keeps its type, nobody knows or greets itself, and no    *)
(* peer ever waits for a discovery handshake with the master (node.peers,  *)
(* pending_handshakes).                                                    *)
THEOREM MembershipTypes == Spec => []TypeOK
  BY Invariance, PTL DEF Inv

-----------------------------------------------------------------------------
(* A PING of others, or of p to others, is no word between p and the master. *)
LEMMA CutProbes ==
    ASSUME Inv, NEW p \in Peers, Cut(p),
           NEW n \in Nodes, NEW m \in Nodes, {n, m} # {p, Master}, Probes(n, m)
    PROVE  Cut(p)'
<1> USE DEF Cut, Strangers, Inv, TypeOK
<1>0. Master \in Nodes /\ p \in Nodes
  BY DEF Nodes
<1>1. CASE HearsPing(m, n) /\ UNCHANGED net
  <2>1. ~(m = Master /\ n = p) /\ ~(m = p /\ n = Master)
    OBVIOUS
  <2>2. p \notin known'[Master] /\ Master \notin known'[p]
    BY <1>0, <1>1, <2>1 DEF HearsPing, Registers
  <2> QED
    BY <1>1, <2>2 DEF HearsPing
<1>2. CASE /\ net' = net \cup {Probe(n, m)}
           /\ UNCHANGED <<up, known, pending, done, faults>>
  <2>1. Probe(n, m).from = n /\ Probe(n, m).to = m
    BY DEF Probe
  <2> QED
    BY <1>2, <2>1
<1> QED
  BY <1>1, <1>2 DEF Probes

(* One step of anybody leaves strangers strangers, when the master does    *)
(* not hear the beacons of p.                                              *)
LEMMA CutStep ==
    ASSUME Inv, [Next]_vars, NEW p \in Peers, ~({p, Master} \subseteq Lan),
           Cut(p), p \in up'
    PROVE  Cut(p)'
<1> USE DEF Cut, Strangers, Inv, TypeOK
<1>0. Master \in Nodes /\ p \in Nodes /\ p # Master /\ done[p] /\ p \in up
  BY DEF Nodes, DownForgets
<1>1. ASSUME NEW n \in Nodes, Start(n) PROVE Cut(p)'
  <2>1. n # p
    BY <1>0, <1>1 DEF Start
  <2>2. Request(n, Master).from = n /\ Request(n, Master).to = Master
    BY DEF Request
  <2>3. {n, Master} # {p, Master} \/ n = Master
    BY <1>0, <2>1
  <2>4. n \in Peers => {n, Master} # {p, Master}
    BY <2>3
  <2> QED
    BY <1>1, <2>2, <2>4 DEF Start
<1>2. ASSUME NEW n \in Nodes, Crash(n) PROVE Cut(p)'
  BY <1>0, <1>2 DEF Crash
<1>3. ASSUME NEW m \in net, Lose(m) PROVE Cut(p)'
  BY <1>3 DEF Lose
<1>4. ASSUME NEW n \in Nodes, NEW m \in net, OnRequest(n, m) PROVE Cut(p)'
  <2>1. m.to = n /\ m.from \in Peers /\ {m.from, m.to} # {p, Master}
    BY <1>4, MessageShape DEF OnRequest
  <2>2. p \notin known'[Master] /\ Master \notin known'[p]
    BY <1>0, <1>4, <2>1 DEF OnRequest, Registers
  <2>3. Response(n, m.from).from = n /\ Response(n, m.from).to = m.from
    BY DEF Response
  <2>4. {n, m.from} # {p, Master}
    BY <2>1
  <2> QED
    BY <1>4, <2>2, <2>3, <2>4 DEF OnRequest
<1>5. ASSUME NEW q \in Peers, NEW m \in net, OnResponse(q, m) PROVE Cut(p)'
  <2>1. m.to = q /\ m.from \in Nodes /\ {m.from, m.to} # {p, Master}
    BY <1>5, MessageShape DEF OnResponse
  <2>2. p \notin known'[Master] /\ Master \notin known'[p]
    BY <1>0, <1>5, <2>1 DEF OnResponse, Registers
  <2> QED
    BY <1>5, <2>2 DEF OnResponse
<1>6. ASSUME NEW q \in Peers, RetryHandshake(q) PROVE Cut(p)'
  <2>1. q # p
    BY <1>0, <1>6 DEF RetryHandshake
  <2>2. Request(q, Master).from = q /\ Request(q, Master).to = Master
    BY DEF Request
  <2>3. {q, Master} # {p, Master}
    BY <1>0, <2>1
  <2> QED
    BY <1>6, <2>2, <2>3 DEF RetryHandshake
<1>7. ASSUME NEW q \in Peers, PollPeers(q) PROVE Cut(p)'
  <2> DEFINE new == known[Master] \ ({q} \cup known[q] \cup pending[q])
  <2>1. net' = net \cup {Request(q, n) : n \in new} /\ Master \notin new
    BY <1>0, <1>7 DEF PollPeers
  <2> HIDE DEF new
  <2>2. \A n \in new : {q, n} # {p, Master}
    BY <1>0, <2>1
  <2>3. \A d \in {Request(q, n) : n \in new} : {d.from, d.to} # {p, Master}
    BY <2>2 DEF Request
  <2> QED
    BY <1>7, <2>1, <2>3 DEF PollPeers
<1>8. ASSUME NEW q \in Peers, NEW n \in Nodes, HandshakeExpires(q, n) PROVE Cut(p)'
  BY <1>0, <1>8 DEF HandshakeExpires, Nodes
<1>9. ASSUME NEW q \in Peers, NEW n \in Nodes, Forget(q, n) PROVE Cut(p)'
  BY <1>0, <1>9 DEF Forget, Nodes
<1>10. ASSUME NEW n \in Nodes, NEW m \in Nodes, Ping(n, m) PROVE Cut(p)'
  <2>1. ~(n = p /\ m = Master) /\ ~(n = Master /\ m = p) /\ n # m
    BY <1>10 DEF Ping
  <2>2. {n, m} # {p, Master}
    BY <2>1
  <2> QED
    BY <1>10, <2>2, CutProbes DEF Ping
<1>11. ASSUME NEW q \in Peers, NEW n \in Nodes, Beacon(q, n) PROVE Cut(p)'
  <2>1. q \in Nodes /\ {q, n} # {p, Master}
    BY <1>11 DEF Beacon, Nodes
  <2> QED
    BY <1>11, <2>1, CutProbes DEF Beacon
<1>12. ASSUME NEW n \in Nodes, NEW m \in net, OnPing(n, m) PROVE Cut(p)'
  <2>1. m.to = n /\ m.from \in Nodes /\ {m.from, m.to} # {p, Master}
    BY <1>12, MessageShape DEF OnPing
  <2>2. p \notin known'[Master] /\ Master \notin known'[p]
    BY <1>0, <1>12, <2>1 DEF OnPing, HearsPing, Registers
  <2> QED
    BY <1>12, <2>2 DEF OnPing, HearsPing
<1>13. CASE UNCHANGED vars
  BY <1>13 DEF vars
<1> QED
  BY <1>1, <1>2, <1>3, <1>4, <1>5, <1>6, <1>7, <1>8, <1>9, <1>10, <1>11, <1>12,
     <1>13 DEF Next

(* A peer that has finished its handshake and a master that have forgotten *)
(* each other, with no word between them in flight, stay strangers for as  *)
(* long as the peer runs, whoever else comes, goes, is restarted or        *)
(* PINGs, unless the master hears the peer's beacons (handshake_done is    *)
(* never reset).                                                           *)
THEOREM StrangersForGood == Spec => StrangersStay
<1>1. Inv /\ [Next]_vars =>
          [\A p \in Peers :
              ~({p, Master} \subseteq Lan) /\ Cut(p) /\ p \in up' => Cut(p)']_vars
  BY CutStep
<1> QED
  BY <1>1, Invariance, PTL DEF Spec, StrangersStay

=============================================================================
