-------------------------- MODULE MCSegmentTransfer --------------------------
(***************************************************************************)
(* Instances of SegmentTransfer for TLC, and the patient environment in    *)
(* which the protocol is expected to converge: datagrams arrive before     *)
(* timers fire, except for a few that the network drops.                   *)
(***************************************************************************)
EXTENDS SegmentTransfer

(* Nothing is in flight and nothing is waiting to be sent. *)
Quiescent == net = {} /\ ~(sLive /\ sSent < sCount)

(* Before the first packet the receiver sends its request twice and then   *)
(* gives up, so there one datagram may be lost; later MaxLosses in all.    *)
TolerableLoss ==
    /\ packets = {} => losses = 0
    /\ \E m \in net : Lose(m)

PatientRequesterTick == Quiescent /\ RequesterTick
PatientSenderTimeout == Quiescent /\ SenderTimeout
(* The grace period outlasts the sender's first ACK timers. *)
PatientGraceExpire == Quiescent /\ ~sLive /\ GraceExpire
Deliver == \E m \in net : Handle(m)

PatientNext ==
    \/ StartReceiver
    \/ Deliver
    \/ TolerableLoss
    \/ PatientRequesterTick
    \/ PatientGraceExpire
    \/ SenderSend
    \/ PatientSenderTimeout

PatientSpec ==
    /\ Init /\ [][PatientNext]_vars
    /\ WF_vars(StartReceiver)
    /\ WF_vars(Deliver)
    /\ WF_vars(PatientRequesterTick)
    /\ WF_vars(PatientGraceExpire)
    /\ WF_vars(SenderSend)
    /\ WF_vars(PatientSenderTimeout)

=============================================================================
