-------------------------------- MODULE Codec --------------------------------
(***************************************************************************)
(* The wire format of qstream (protocol.rs): encode and decode.  A datagram *)
(* is its header, a record of fields, and its payload, a sequence of bytes. *)
(* Magic and version, which all nodes share, are left out, and a message   *)
(* type stands for its code.                                               *)
(***************************************************************************)
EXTENDS SeqFilter

CONSTANT Base  \* values of a byte: 256

ASSUME BaseAssumption == Base \in Nat \ {0, 1}

U16Size == Base * Base
U32Size == U16Size * U16Size
U64Size == U32Size * U32Size

Byte == 0 .. Base - 1
U16 == 0 .. U16Size - 1
U32 == 0 .. U32Size - 1
U64 == 0 .. U64Size - 1

(* to_be_bytes of a number of 2, 4 or 8 bytes. *)
U16Bytes(n) == <<n \div Base, n % Base>>
U32Bytes(n) == U16Bytes(n \div U16Size) \o U16Bytes(n % U16Size)
U64Bytes(n) == U32Bytes(n \div U32Size) \o U32Bytes(n % U32Size)

(* from_be_bytes of the number that begins at the i-th byte of p. *)
U16At(p, i) == p[i] * Base + p[i + 1]
U32At(p, i) == U16At(p, i) * U16Size + U16At(p, i + 2)
U64At(p, i) == U32At(p, i) * U32Size + U32At(p, i + 4)

Rest(p, first) == SubSeq(p, first, Len(p))

-----------------------------------------------------------------------------
(* Values inside a payload.                                                *)

Endpoint(ip, port) == [v4 |-> TRUE, ip |-> ip, port |-> port]
Nowhere == Endpoint(0, 0)                                 \* 0.0.0.0:0
V6(port) == [v4 |-> FALSE, ip |-> 0, port |-> port]       \* any IPv6 address
Addresses == [v4 : BOOLEAN, ip : U32, port : U16]

AddressSize == 6
AddressBytes(a) == U32Bytes(a.ip) \o U16Bytes(a.port)
EndpointAt(p, i) == Endpoint(U32At(p, i), U16At(p, i + 4))

(* What can be written in six bytes, and then still means a destination. *)
Reachable(a) == a.v4 /\ a.port # 0

(* endpoint_bytes: what has no IPv4 address or no port is nowhere. *)
EndpointBytes(a) == AddressBytes(IF Reachable(a) THEN a ELSE Nowhere)

(* An entry of a peerlist: an address and a flag byte. *)
EntrySize == AddressSize + 1
Entry(a, flag) == [addr |-> a, flag |-> flag]
Entries == [addr : Addresses, flag : Byte]
EntryBytes(e) == AddressBytes(e.addr) \o <<e.flag>>
EntryAt(p, k) ==
    Entry(EndpointAt(p, EntrySize * (k - 1) + 1), p[EntrySize * k])

(* encode_peers leaves out IPv6 addresses, decode_peers those without port. *)
PeersBytes(peers) ==
    LET v4 == Keep(peers, {e \in Range(peers) : e.addr.v4})
    IN  [i \in 1 .. EntrySize * Len(v4) |->
            EntryBytes(v4[(i - 1) \div EntrySize + 1])[((i - 1) % EntrySize) + 1]]

PeersOf(p) ==
    LET all == [k \in 1 .. Len(p) \div EntrySize |-> EntryAt(p, k)]
    IN  Keep(all, {e \in Range(all) : e.addr.port # 0})

(* An inventory, or none: older nodes send an empty PONG. *)
NoAvailability == <<>>
Availability(newest, mask) == <<[newest |-> newest, mask |-> mask]>>
Inventories == {a \in Seq([newest : U64, mask : U16]) : Len(a) <= 1}

AvailabilityBytes(a) ==
    IF a = NoAvailability THEN <<>>
    ELSE U64Bytes(a[1].newest) \o U16Bytes(a[1].mask)

AvailabilityOf(p) ==
    IF p = <<>> THEN NoAvailability ELSE Availability(U64At(p, 1), U16At(p, 9))

-----------------------------------------------------------------------------
(* Messages.  A handshake's claimed or observed address is its endpoint.   *)

Handshakes == {"handshake_request", "handshake_response"}
Requests == {"manifest_request", "peerlist_request"}

Payload(m) ==
    CASE m.type \in Handshakes            -> EndpointBytes(m.endpoint) \o m.name
      [] m.type \in Requests              -> <<>>
      [] m.type = "segment_request"       -> m.filename
      [] m.type \in {"manifest_response",
                     "segment_contents"}  -> m.data
      [] m.type \in {"segment_not_found",
                     "pong"}              -> AvailabilityBytes(m.availability)
      [] m.type = "progress"              -> U16Bytes(m.next_start)
                                                \o U16Bytes(m.next_count)
      [] m.type = "complete"              -> <<>>
      [] m.type = "peerlist_response"     -> PeersBytes(m.peers)
      [] m.type = "ping"                  -> U32Bytes(m.nonce) \o m.name

(* The values that a Message of protocol.rs may have. *)
Messages ==
    [type : Handshakes, endpoint : Addresses, name : Seq(Byte)]
    \cup [type : Requests]
    \cup [type : {"manifest_response"}, data : Seq(Byte)]
    \cup [type : {"segment_request"}, transfer_id : U16, filename : Seq(Byte)]
    \cup [type : {"segment_contents"}, transfer_id : U16, packet_number : U16,
          total_packets : U16, data : Seq(Byte)]
    \cup [type : {"segment_not_found"}, transfer_id : U16,
          availability : Inventories, retryable : BOOLEAN]
    \cup [type : {"progress"}, transfer_id : U16, next_start : U16,
          next_count : U16]
    \cup [type : {"complete"}, transfer_id : U16]
    \cup [type : {"peerlist_response"}, peers : Seq(Entries)]
    \cup [type : {"ping"}, nonce : U32, name : Seq(Byte)]
    \cup [type : {"pong"}, availability : Inventories]

Field(m, f) == IF f \in DOMAIN m THEN m[f] ELSE 0

EncodeSwapped(m) ==  \* mutated: packet number and total change places
    [type |-> m.type,
     retryable |-> m.type = "segment_not_found" /\ m.retryable,
     length |-> Len(Payload(m)) % U16Size,
     transfer_id |-> Field(m, "transfer_id"),
     packet_number |-> Field(m, "total_packets"),
     total_packets |-> Field(m, "packet_number"),
     payload |-> Payload(m)]

(* The length field is 16 bits wide.  ACK's subtype is part of the type;   *)
(* SEGMENT_NOT_READY is the only other flag.                               *)
Encode(m) ==
    [type |-> m.type,
     retryable |-> m.type = "segment_not_found" /\ m.retryable,
     length |-> Len(Payload(m)) % U16Size,
     transfer_id |-> Field(m, "transfer_id"),
     packet_number |-> Field(m, "packet_number"),
     total_packets |-> Field(m, "total_packets"),
     payload |-> Payload(m)]

BadDatagram == [type |-> "bad"]

(* The lengths that decode accepts. *)
WellSized(d) ==
    /\ d.length <= Len(d.payload)
    /\ CASE d.type \in Handshakes                    -> d.length >= AddressSize
         [] d.type \in {"segment_not_found", "pong"} -> d.length \in {0, 10}
         [] d.type = "progress"                      -> d.length = 4
         [] d.type = "peerlist_response"             -> d.length % EntrySize = 0
         [] d.type = "ping"                          -> d.length >= 4
         [] OTHER                                    -> TRUE

Decode(d) ==
    LET p == SubSeq(d.payload, 1, d.length)
    IN  IF ~WellSized(d) THEN BadDatagram
        ELSE CASE d.type \in Handshakes ->
                    [type |-> d.type, endpoint |-> EndpointAt(p, 1),
                     name |-> Rest(p, 7)]
               [] d.type \in Requests -> [type |-> d.type]
               [] d.type = "manifest_response" -> [type |-> d.type, data |-> p]
               [] d.type = "segment_request" ->
                    [type |-> d.type, transfer_id |-> d.transfer_id,
                     filename |-> p]
               [] d.type = "segment_contents" ->
                    [type |-> d.type, transfer_id |-> d.transfer_id,
                     packet_number |-> d.packet_number,
                     total_packets |-> d.total_packets, data |-> p]
               [] d.type = "segment_not_found" ->
                    [type |-> d.type, transfer_id |-> d.transfer_id,
                     availability |-> AvailabilityOf(p),
                     retryable |-> d.retryable]
               [] d.type = "progress" ->
                    [type |-> d.type, transfer_id |-> d.transfer_id,
                     next_start |-> U16At(p, 1),
                     next_count |-> U16At(p, 3)]
               [] d.type = "complete" ->
                    [type |-> d.type, transfer_id |-> d.transfer_id]
               [] d.type = "peerlist_response" ->
                    [type |-> d.type, peers |-> PeersOf(p)]
               [] d.type = "ping" ->
                    [type |-> d.type, nonce |-> U32At(p, 1),
                     name |-> Rest(p, 5)]
               [] d.type = "pong" ->
                    [type |-> d.type, availability |-> AvailabilityOf(p)]

(* What a receiver makes of a message: addresses that cannot be written    *)
(* are nowhere, or missing in a peerlist.                                  *)
Understood(m) ==
    CASE m.type \in Handshakes ->
            [m EXCEPT !.endpoint = IF Reachable(@) THEN @ ELSE Nowhere]
      [] m.type = "peerlist_response" ->
            [m EXCEPT !.peers = Keep(@, {e \in Range(@) : Reachable(e.addr)})]
      [] OTHER -> m

=============================================================================
