------------------------------ MODULE MCSendPath ------------------------------
(* Instance of SendPath: two requests, and after them every message, with  *)
(* values at the edges of their widths.                                    *)
EXTENDS SendPath

Name == <<1, 2>>
Words == {Base, U16Size - 1}
Routable == Endpoint(Base + 2, 3)
MCAddresses == {Routable, Endpoint(7, 0), V6(5)}
MCInventories == {NoAvailability} \cup
    {Availability(newest, mask) : newest \in {Base, Base ^ 8 - 1}, mask \in {0, 3}}
Lists == {<<>>} \cup {<<Entry(a, 0), Entry(b, 2)>> : a, b \in MCAddresses}
    \cup {<<Entry(Routable, 1), Entry(Routable, 1), Entry(Routable, 1)>>}

MCMessages ==
    [type : Handshakes, endpoint : MCAddresses, name : {Name}]
    \cup [type : Requests]
    \cup [type : {"manifest_response"},
          data : {[i \in 1..n |-> 1] : n \in {0, 14, 15, 16}}]
    \cup [type : {"segment_request"}, transfer_id : Words, filename : {Name}]
    \cup [type : {"segment_contents"}, transfer_id : {1}, packet_number : {1},
          total_packets : Words, data : {<<3>>}]
    \cup [type : {"segment_not_found"}, transfer_id : {2},
          availability : MCInventories, retryable : BOOLEAN]
    \cup [type : {"progress"}, transfer_id : {3}, next_start : Words,
          next_count : {0, 5}]
    \cup [type : {"complete"}, transfer_id : Words]
    \cup [type : {"peerlist_response"}, peers : Lists]
    \cup [type : {"ping"}, nonce : {0, Base ^ 4 - 1}, name : {<<>>, Name}]
    \cup [type : {"pong"}, availability : MCInventories]

Poll == {[type |-> "manifest_request"]}
MCOutgoing == <<Poll, Poll, MCMessages>>

=============================================================================
