----------------------------- MODULE Replication -----------------------------
(***************************************************************************)
(* What the download scheduler of a peer promises, without sources, slots  *)
(* and the order of the queue: a job is queued only for a segment that is  *)
(* not at hand, it leaves the queue only to be pulled or because the       *)
(* playlist has moved on, and a pull ends with the file, with the job back *)
(* in the queue, or with the failure on record.                            *)
(***************************************************************************)
CONSTANT Segs

VARIABLES
    wanted,   \* the segments that the playlist lists
    store,    \* the segments on disk
    waiting,  \* the segments queued for download
    pulling,  \* the segments being downloaded
    givenUp   \* the segments whose download failed at every source

vars == <<wanted, store, waiting, pulling, givenUp>>

Init ==
    /\ wanted = {}
    /\ store = {}
    /\ waiting = {}
    /\ pulling = {}
    /\ givenUp = {}

AtHand == store \cup waiting \cup pulling

(* A new playlist: jobs that are no longer listed are dropped, the others  *)
(* stay.  What is not at hand is queued, and nothing else; what was given  *)
(* up is queued only if the scheduler sees fit.                            *)
Publish ==
    /\ wanted' \subseteq Segs
    /\ waiting \cap wanted' \subseteq waiting'
    /\ waiting' \subseteq wanted'
    /\ wanted' \ (AtHand \cup givenUp) \subseteq waiting'
    /\ (waiting' \ waiting) \cap AtHand = {}
    /\ UNCHANGED <<store, pulling, givenUp>>

Start(s) ==
    /\ s \in waiting
    /\ waiting' = waiting \ {s}
    /\ pulling' = pulling \cup {s}
    /\ UNCHANGED <<wanted, store, givenUp>>

(* FileDelivery!Deliver *)
Finish(s) ==
    /\ s \in pulling
    /\ pulling' = pulling \ {s}
    /\ store' = store \cup {s}
    /\ UNCHANGED <<wanted, waiting, givenUp>>

(* FileDelivery!Fail, and another source or another time is left *)
Return(s) ==
    /\ s \in pulling
    /\ pulling' = pulling \ {s}
    /\ waiting' = waiting \cup {s}
    /\ UNCHANGED <<wanted, store, givenUp>>

(* FileDelivery!Fail, and nothing is left *)
GiveUp(s) ==
    /\ s \in pulling
    /\ pulling' = pulling \ {s}
    /\ givenUp' = givenUp \cup {s}
    /\ UNCHANGED <<wanted, store, waiting>>

Prune(s) ==
    /\ s \notin wanted
    /\ store' = store \ {s}
    /\ UNCHANGED <<wanted, waiting, pulling, givenUp>>

(* A restart finds the playlist and the files, and nothing else. *)
Restart ==
    /\ waiting' = {}
    /\ pulling' = {}
    /\ givenUp' = {}
    /\ UNCHANGED <<wanted, store>>

Next ==
    \/ Publish
    \/ \E s \in Segs : Start(s) \/ Finish(s) \/ Return(s) \/ GiveUp(s) \/ Prune(s)
    \/ Restart

Spec == Init /\ [][Next]_vars

=============================================================================
