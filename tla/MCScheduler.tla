---------------------------- MODULE MCScheduler ----------------------------
(***************************************************************************)
(* Instances of Scheduler for TLC: a master and a peer, a playlist that    *)
(* rolls on, and what the two may say they have.                           *)
(***************************************************************************)
EXTENDS Scheduler

MCSegs == {"s1", "s2", "s3"}
MCTwoSegs == {"s1", "s2"}
MCPeers == {"master", "p"}

\* p is on the LAN and has the display name of the master (both default).
MCSameName == [a \in MCPeers |-> "p"]
MCNoLan == [a \in MCPeers |-> a]

\* A live playlist that rolls on: what rolled out is not listed again.
MCRolling == {<< <<>>, <<"s1", "s2">> >>,
              << <<"s1", "s2">>, <<"s2", "s3">> >>}

\* A playlist that stays as it is.
MCFixed == {<< <<>>, <<"s1", "s2">> >>}

\* A playlist whose text changes now and then, but not its segments.
MCSameSegments == MCFixed \cup {<< <<"s1", "s2">>, <<"s1", "s2">> >>}

Says(peers, m, p) ==
    [a \in peers |-> [s \in Segs |-> IF a = Bootstrap THEN m ELSE p]]

\* The bootstrap stays eligible whatever it denies, so that "no" from it is
\* the same as "unknown".
MCInventories == {Says(MCPeers, m, p) : m \in {"yes", "unknown"}, p \in Answers}
MCOriginOnly == {Says(MCPeers, "yes", "no")}

=============================================================================
