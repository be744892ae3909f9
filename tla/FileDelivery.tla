----------------------------- MODULE FileDelivery -----------------------------
(***************************************************************************)
(* What a segment transfer promises the scheduler of the requester and the *)
(* accounting of the server: a download is delivered or fails, once; the   *)
(* server works for it only while it serves; it credits itself only for a  *)
(* delivered file, and at most once each time it has served.               *)
(***************************************************************************)
EXTENDS Naturals

VARIABLES
    download, \* "idle", "open", "delivered" or "failed"
    serving,  \* the server holds a sender for the download
    credits   \* how often the server counted it as served

vars == <<download, serving, credits>>

Init ==
    /\ download = "idle"
    /\ serving = FALSE
    /\ credits = 0

Open ==
    /\ download = "idle"
    /\ download' = "open"
    /\ UNCHANGED <<serving, credits>>

Deliver ==
    /\ download = "open"
    /\ download' = "delivered"
    /\ UNCHANGED <<serving, credits>>

Fail ==
    /\ download = "open"
    /\ download' = "failed"
    /\ UNCHANGED <<serving, credits>>

(* A delayed request may be served after the download has ended. *)
Serve ==
    /\ download # "idle"
    /\ ~serving
    /\ serving' = TRUE
    /\ UNCHANGED <<download, credits>>

GiveUp ==
    /\ serving
    /\ serving' = FALSE
    /\ UNCHANGED <<download, credits>>

Credit ==
    /\ serving
    /\ download = "delivered"
    /\ serving' = FALSE
    /\ credits' = credits + 1
    /\ UNCHANGED download

Next == Open \/ Deliver \/ Fail \/ Serve \/ GiveUp \/ Credit

Spec == Init /\ [][Next]_vars

FairSpec == Spec /\ WF_vars(Deliver \/ Fail) /\ WF_vars(GiveUp \/ Credit)

=============================================================================
