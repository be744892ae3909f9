----------------------------- MODULE CodecProofs -----------------------------
(***************************************************************************)
(* What encode writes is what decode reads, for every message and any size *)
(* of a byte; and whatever decode accepts is a message.                    *)
(***************************************************************************)
EXTENDS Codec, SeqFilterProofs

(* Quotient and remainder.                                                 *)

LEMMA DivMod ==
    ASSUME NEW n \in Nat, NEW b \in Nat \ {0}
    PROVE  /\ n = (n \div b) * b + (n % b)
           /\ n % b \in 0 .. b - 1
           /\ n \div b \in Nat
  OBVIOUS

LEMMA DivBound ==
    ASSUME NEW c \in Nat, NEW b \in Nat \ {0}, NEW n \in 0 .. c * b - 1
    PROVE  n \div b \in 0 .. c - 1
<1>1. n \in Nat /\ c * b \in Nat /\ n < c * b
  OBVIOUS
<1> DEFINE q == n \div b
<1>2. q \in Nat /\ q * b <= n
  BY <1>1
<1> HIDE DEF q
<1>3. ASSUME q >= c PROVE FALSE
  <2>1. q * b >= c * b
    BY <1>2, <1>3
  <2> QED
    BY <1>1, <1>2, <2>1
<1>4. q < c
  BY <1>2, <1>3
<1>5. q \in 0 .. c - 1
  BY <1>2, <1>4
<1> QED
  BY <1>5 DEF q

LEMMA TwoDigits ==
    ASSUME NEW c \in Nat, NEW b \in Nat, NEW q \in 0 .. c - 1, NEW r \in 0 .. b - 1
    PROVE  q * b + r \in 0 .. c * b - 1
<1>1. q * b + r \in Nat /\ c * b \in Nat /\ (q + 1) * b = q * b + b
  OBVIOUS
<1>2. q + 1 <= c
  OBVIOUS
<1>3. (q + 1) * b <= c * b
  BY <1>2
<1>4. q * b + r < c * b
  BY <1>1, <1>3
<1> QED
  BY <1>1, <1>4

LEMMA Sizes == U16Size \in Nat \ {0} /\ U32Size \in Nat \ {0} /\ U64Size \in Nat \ {0}
<1>1. \A a, b \in Nat \ {0} : a * b \in Nat \ {0}
  OBVIOUS
<1> QED
  BY <1>1, BaseAssumption DEF U16Size, U32Size, U64Size

-----------------------------------------------------------------------------
(* Bytes within bytes.                                                     *)

(* The bytes b are found in p, from position i on. *)
Holds(p, i, b) == \A j \in 1 .. Len(b) : p[i + j - 1] = b[j]

Bytes(len) == {b \in Seq(Byte) : Len(b) = len}

LEMMA BytesConcat ==
    ASSUME NEW k \in Nat, NEW l \in Nat, NEW a \in Bytes(k), NEW b \in Bytes(l)
    PROVE  a \o b \in Bytes(k + l)
<1>1. \A T : a \in Seq(T) /\ b \in Seq(T) => a \o b \in Seq(T) /\ Len(a \o b) = Len(a) + Len(b)
  OBVIOUS
<1> QED
  BY <1>1 DEF Bytes

(* A part of what is found is found where it is. *)
LEMMA HoldsParts ==
    ASSUME NEW p, NEW i \in Nat, NEW a \in Seq(Byte), NEW b \in Seq(Byte),
           Holds(p, i, a \o b)
    PROVE  Holds(p, i, a) /\ Holds(p, i + Len(a), b)
<1> DEFINE T == Byte
<1> HIDE DEF T
<1>1. a \in Seq(T) /\ b \in Seq(T)
  BY DEF T
<1>2. /\ Len(a \o b) = Len(a) + Len(b) /\ Len(a) \in Nat /\ Len(b) \in Nat
      /\ \A j \in 1 .. Len(a) + Len(b) :
            (a \o b)[j] = IF j <= Len(a) THEN a[j] ELSE b[j - Len(a)]
  BY <1>1
<1>3. \A j \in 1 .. Len(a) + Len(b) : p[i + j - 1] = (a \o b)[j]
  BY <1>2 DEF Holds
<1>4. Holds(p, i, a)
  BY <1>2, <1>3 DEF Holds
<1>5. ASSUME NEW j \in 1 .. Len(b) PROVE p[(i + Len(a)) + j - 1] = b[j]
  <2>1. /\ Len(a) + j \in 1 .. Len(a) + Len(b) /\ ~(Len(a) + j <= Len(a))
        /\ (Len(a) + j) - Len(a) = j /\ i + (Len(a) + j) - 1 = (i + Len(a)) + j - 1
    BY <1>2
  <2> QED
    BY <1>2, <1>3, <2>1
<1> QED
  BY <1>4, <1>5 DEF Holds

LEMMA SeqFacts ==
    ASSUME NEW T, NEW q \in Seq(T)
    PROVE  /\ Len(q) \in Nat
           /\ q = [k \in 1 .. Len(q) |-> q[k]]
           /\ \A k \in 1 .. Len(q) : q[k] \in T /\ q[k] \in Range(q)
  BY DEF Range

LEMMA HoldsSelf == ASSUME NEW p \in Seq(Byte) PROVE Holds(p, 1, p)
  BY DEF Holds

-----------------------------------------------------------------------------
(* Numbers.                                                                *)

LEMMA U16Back ==
    ASSUME NEW n \in U16
    PROVE  /\ U16Bytes(n) \in Bytes(2)
           /\ \A p : \A i \in Nat : Holds(p, i, U16Bytes(n)) => U16At(p, i) = n
<1> DEFINE q == n \div Base
           r == n % Base
<1>1. n \in Nat /\ Base \in Nat \ {0}
  BY BaseAssumption, Sizes DEF U16
<1>2. q \in Byte /\ r \in Byte /\ n = q * Base + r
  BY <1>1, DivMod, DivBound, BaseAssumption DEF U16, U16Size, Byte
<1> HIDE DEF q, r
<1>3. U16Bytes(n) = <<q, r>>
  BY DEF U16Bytes, q, r
<1>4. <<q, r>> \in Bytes(2)
  BY <1>2 DEF Bytes
<1>5. ASSUME NEW p, NEW i \in Nat, Holds(p, i, <<q, r>>) PROVE p[i] = q /\ p[i + 1] = r
  <2>1. Len(<<q, r>>) = 2 /\ <<q, r>>[1] = q /\ <<q, r>>[2] = r
    OBVIOUS
  <2>2. \A j \in 1..2 : p[i + j - 1] = <<q, r>>[j]
    BY <1>5, <2>1 DEF Holds
  <2>3. p[i + 1 - 1] = q /\ p[i + 2 - 1] = r
    BY <2>1, <2>2
  <2>4. i + 1 - 1 = i /\ i + 2 - 1 = i + 1
    OBVIOUS
  <2> QED
    BY <2>3, <2>4
<1> QED
  BY <1>2, <1>3, <1>4, <1>5 DEF U16At

LEMMA U32Back ==
    ASSUME NEW n \in U32
    PROVE  /\ U32Bytes(n) \in Bytes(4)
           /\ \A p : \A i \in Nat : Holds(p, i, U32Bytes(n)) => U32At(p, i) = n
<1> DEFINE q == n \div U16Size
           r == n % U16Size
<1>1. n \in Nat
  BY Sizes DEF U32
<1>2. q \in U16 /\ r \in U16 /\ n = q * U16Size + r
  BY <1>1, DivMod, DivBound, Sizes DEF U16, U32, U32Size
<1> HIDE DEF q, r
<1>3. U32Bytes(n) = U16Bytes(q) \o U16Bytes(r)
  BY DEF U32Bytes, q, r
<1>4. U16Bytes(q) \in Bytes(2) /\ U16Bytes(r) \in Bytes(2)
  BY <1>2, U16Back
<1>5. U32Bytes(n) \in Bytes(2 + 2)
  BY <1>3, <1>4, BytesConcat
<1>6. ASSUME NEW p, NEW i \in Nat, Holds(p, i, U32Bytes(n)) PROVE U32At(p, i) = n
  <2>1. Holds(p, i, U16Bytes(q)) /\ Holds(p, i + 2, U16Bytes(r))
    BY <1>3, <1>4, <1>6, HoldsParts, ZenonT(40) DEF Bytes
  <2>2. U16At(p, i) = q /\ U16At(p, i + 2) = r
    BY <1>2, <2>1, U16Back
  <2> QED
    BY <1>2, <2>2 DEF U32At
<1> QED
  BY <1>5, <1>6

LEMMA U64Back ==
    ASSUME NEW n \in U64
    PROVE  /\ U64Bytes(n) \in Bytes(8)
           /\ \A p : \A i \in Nat : Holds(p, i, U64Bytes(n)) => U64At(p, i) = n
<1> DEFINE q == n \div U32Size
           r == n % U32Size
<1>1. n \in Nat
  BY Sizes DEF U64
<1>2. q \in U32 /\ r \in U32 /\ n = q * U32Size + r
  BY <1>1, DivMod, DivBound, Sizes DEF U32, U64, U64Size
<1> HIDE DEF q, r
<1>3. U64Bytes(n) = U32Bytes(q) \o U32Bytes(r)
  BY DEF U64Bytes, q, r
<1>4. U32Bytes(q) \in Bytes(4) /\ U32Bytes(r) \in Bytes(4)
  BY <1>2, U32Back
<1>5. U64Bytes(n) \in Bytes(4 + 4)
  BY <1>3, <1>4, BytesConcat
<1>6. ASSUME NEW p, NEW i \in Nat, Holds(p, i, U64Bytes(n)) PROVE U64At(p, i) = n
  <2>1. Holds(p, i, U32Bytes(q)) /\ Holds(p, i + 4, U32Bytes(r))
    BY <1>3, <1>4, <1>6, HoldsParts, ZenonT(40) DEF Bytes
  <2>2. U32At(p, i) = q /\ U32At(p, i + 4) = r
    BY <1>2, <2>1, U32Back
  <2> QED
    BY <1>2, <2>2 DEF U64At
<1> QED
  BY <1>5, <1>6

-----------------------------------------------------------------------------
(* Addresses and the entries of a peerlist.                                *)

LEMMA AddressBack ==
    ASSUME NEW a \in Addresses
    PROVE  /\ AddressBytes(a) \in Bytes(AddressSize)
           /\ \A p : \A i \in Nat :
                 Holds(p, i, AddressBytes(a)) => EndpointAt(p, i) = Endpoint(a.ip, a.port)
<1>1. a.ip \in U32 /\ a.port \in U16
  BY DEF Addresses
<1>2. U32Bytes(a.ip) \in Bytes(4) /\ U16Bytes(a.port) \in Bytes(2)
  BY <1>1, U32Back, U16Back
<1>3. AddressBytes(a) \in Bytes(4 + 2)
  BY <1>2, BytesConcat DEF AddressBytes
<1>4. ASSUME NEW p, NEW i \in Nat, Holds(p, i, AddressBytes(a))
      PROVE  EndpointAt(p, i) = Endpoint(a.ip, a.port)
  <2>1. Holds(p, i, U32Bytes(a.ip)) /\ Holds(p, i + 4, U16Bytes(a.port))
    BY <1>2, <1>4, HoldsParts DEF AddressBytes, Bytes
  <2>2. U32At(p, i) = a.ip /\ U16At(p, i + 4) = a.port
    BY <1>1, <2>1, U32Back, U16Back
  <2> QED
    BY <2>2 DEF EndpointAt
<1> QED
  BY <1>3, <1>4 DEF AddressSize

LEMMA EntryBack ==
    ASSUME NEW e \in Entries, e.addr.v4
    PROVE  /\ EntryBytes(e) \in Bytes(EntrySize)
           /\ \A p : \A i \in Nat :
                 Holds(p, i, EntryBytes(e)) => Entry(EndpointAt(p, i), p[i + 6]) = e
<1>1. e.addr \in Addresses /\ e.flag \in Byte
  BY DEF Entries
<1>2. AddressBytes(e.addr) \in Bytes(6) /\ <<e.flag>> \in Bytes(1)
  BY <1>1, AddressBack DEF AddressSize, Bytes
<1>3. EntryBytes(e) \in Bytes(6 + 1)
  BY <1>2, BytesConcat DEF EntryBytes
<1>4. ASSUME NEW p, NEW i \in Nat, Holds(p, i, EntryBytes(e))
      PROVE  Entry(EndpointAt(p, i), p[i + 6]) = e
  <2>1. Holds(p, i, AddressBytes(e.addr)) /\ Holds(p, i + 6, <<e.flag>>)
    BY <1>2, <1>4, HoldsParts DEF EntryBytes, Bytes
  <2>2. EndpointAt(p, i) = Endpoint(e.addr.ip, e.addr.port)
    BY <1>1, <2>1, AddressBack
  <2>3. p[i + 6] = e.flag
    <3>1. Len(<<e.flag>>) = 1 /\ <<e.flag>>[1] = e.flag /\ 1 \in 1..1 /\ (i + 6) + 1 - 1 = i + 6
      OBVIOUS
    <3> QED
      BY <2>1, <3>1 DEF Holds
  <2>4. e.addr = Endpoint(e.addr.ip, e.addr.port)
    BY <1>1 DEF Addresses, Endpoint
  <2>5. e = Entry(e.addr, e.flag)
    BY DEF Entries, Entry
  <2> QED
    BY <2>2, <2>3, <2>4, <2>5
<1> QED
  BY <1>3, <1>4 DEF EntrySize, AddressSize

(* The entry that the i-th byte of n entries is in, and its place there. *)
LEMMA PlaceEntry ==
    ASSUME NEW n \in Nat, NEW at \in 1 .. 7 * n
    PROVE  (at - 1) \div 7 + 1 \in 1..n /\ ((at - 1) % 7) + 1 \in 1..7
  OBVIOUS

(* A list of IPv4 entries is written one after the other, and read back.   *)
LEMMA PeersBack ==
    ASSUME NEW peers \in Seq(Entries)
    PROVE  /\ PeersBytes(peers) \in Seq(Byte)
           /\ Len(PeersBytes(peers)) % EntrySize = 0
           /\ PeersOf(PeersBytes(peers)) =
                 Keep(peers, {e \in Range(peers) : Reachable(e.addr)})
<1> DEFINE ipv4 == {e \in Range(peers) : e.addr.v4}
           v4 == Keep(peers, ipv4)
           n == Len(v4)
           p == PeersBytes(peers)
           all == [k \in 1 .. Len(p) \div EntrySize |-> EntryAt(p, k)]
<1>1. v4 \in Seq(Entries) /\ Range(v4) = Range(peers) \cap ipv4
  BY KeepFacts
<1>2. n \in Nat /\ v4 = [k \in 1..n |-> v4[k]]
  BY <1>1, SeqFacts
<1>3. \A k \in 1..n : v4[k] \in Entries /\ v4[k].addr.v4
  <2>1. \A k \in 1..n : v4[k] \in Range(v4) /\ v4[k] \in Entries
    BY <1>1, SeqFacts
  <2>2. \A e \in ipv4 : e.addr.v4
    OBVIOUS
  <2> QED
    BY <1>1, <2>1, <2>2
<1>4. p = [i \in 1 .. 7 * n |->
              EntryBytes(v4[(i - 1) \div 7 + 1])[((i - 1) % 7) + 1]]
  BY DEF PeersBytes, EntrySize, AddressSize
<1> HIDE DEF p, v4, n, ipv4
<1>5. \A k \in 1..n : EntryBytes(v4[k]) \in Bytes(7)
  BY <1>3, EntryBack DEF EntrySize, AddressSize
<1>6. \A i \in 1 .. 7 * n : p[i] \in Byte
  <2> SUFFICES ASSUME NEW i \in 1 .. 7 * n PROVE p[i] \in Byte
    OBVIOUS
  <2> DEFINE k == (i - 1) \div 7 + 1
             j == ((i - 1) % 7) + 1
  <2>1. k \in 1..n /\ j \in 1..7
    BY <1>2, PlaceEntry
  <2>2. p[i] = EntryBytes(v4[k])[j]
    BY <1>4
  <2> HIDE DEF k, j
  <2> QED
    BY <1>5, <2>1, <2>2 DEF Bytes
<1>7. p \in Seq(Byte) /\ Len(p) = 7 * n
  <2> DEFINE len == 7 * n
  <2>1. len \in Nat
    BY <1>2
  <2>2. p = [i \in 1..len |-> p[i]] /\ \A i \in 1..len : p[i] \in Byte
    BY <1>4, <1>6
  <2> HIDE DEF len
  <2>3. p \in Seq(Byte) /\ Len(p) = len
    BY <2>1, <2>2
  <2> QED
    BY <2>3 DEF len
<1>8. ASSUME NEW k \in 1..n
      PROVE  Holds(p, 7 * (k - 1) + 1, EntryBytes(v4[k]))
  <2> SUFFICES ASSUME NEW j \in 1..7
               PROVE  p[(7 * (k - 1) + 1) + j - 1] = EntryBytes(v4[k])[j]
    BY <1>5 DEF Holds, Bytes
  <2> DEFINE at == 7 * (k - 1) + j
  <2>0. at = 7 * (k - 1) + j
    OBVIOUS
  <2> HIDE DEF at
  <2>1. at \in 1 .. 7 * n /\ (at - 1) \div 7 + 1 = k /\ ((at - 1) % 7) + 1 = j
    <3>1. n \in Nat
      BY <1>2
    <3>2. k \in 1..n /\ j \in 1..7
      OBVIOUS
    <3> HIDE DEF n
    <3> QED
      BY <2>0, <3>1, <3>2
  <2>2. (7 * (k - 1) + 1) + j - 1 = at
    BY <1>2, <2>0
  <2>3. p[at] = EntryBytes(v4[(at - 1) \div 7 + 1])[((at - 1) % 7) + 1]
    BY <1>4, <2>1
  <2> QED
    BY <2>1, <2>2, <2>3
<1>9. \A k \in 1..n : EntryAt(p, k) = v4[k]
  <2> SUFFICES ASSUME NEW k \in 1..n PROVE EntryAt(p, k) = v4[k]
    OBVIOUS
  <2>1. 7 * (k - 1) + 1 \in Nat /\ (7 * (k - 1) + 1) + 6 = 7 * k
    BY <1>2
  <2>2. Entry(EndpointAt(p, 7 * (k - 1) + 1), p[(7 * (k - 1) + 1) + 6]) = v4[k]
    BY <1>3, <1>8, <2>1, EntryBack
  <2> QED
    BY <2>1, <2>2 DEF EntryAt, EntrySize, AddressSize
<1>10. all = v4
  <2>1. Len(p) \div 7 = n
    BY <1>2, <1>7
  <2> QED
    BY <1>2, <1>9, <2>1 DEF EntrySize, AddressSize
<1>11. PeersOf(p) = Keep(v4, {e \in Range(v4) : e.addr.port # 0})
  BY <1>10 DEF PeersOf
<1>12. PeersOf(p) = Keep(peers, ipv4 \cap {e \in Range(v4) : e.addr.port # 0})
  BY <1>11, KeepKeep DEF v4
<1>13. ipv4 \cap {e \in Range(v4) : e.addr.port # 0}
          = {e \in Range(peers) : Reachable(e.addr)}
  BY <1>1 DEF ipv4, Reachable
<1>14. Len(p) % 7 = 0
  BY <1>2, <1>7
<1>15. /\ p \in Seq(Byte) /\ Len(p) % EntrySize = 0
       /\ PeersOf(p) = Keep(peers, {e \in Range(peers) : Reachable(e.addr)})
  <2>1. Len(p) % EntrySize = 0
    BY <1>14 DEF EntrySize, AddressSize
  <2>2. PeersOf(p) = Keep(peers, {e \in Range(peers) : Reachable(e.addr)})
    BY <1>12, <1>13, Zenon
  <2> QED
    BY <1>7, <2>1, <2>2, Zenon
<1> QED
  BY <1>15 DEF p

-----------------------------------------------------------------------------
(* Inventories.                                                            *)

LEMMA AvailabilityBack ==
    ASSUME NEW a \in Inventories
    PROVE  /\ AvailabilityBytes(a) \in Seq(Byte)
           /\ Len(AvailabilityBytes(a)) \in {0, 10}
           /\ AvailabilityOf(AvailabilityBytes(a)) = a
<1>1. CASE a = <<>>
  BY <1>1 DEF AvailabilityBytes, AvailabilityOf, NoAvailability
<1>2. CASE a # <<>>
  <2> DEFINE p == AvailabilityBytes(a)
  <2>1. Len(a) = 1 /\ a \in Seq([newest : U64, mask : U16])
    BY <1>2 DEF Inventories
  <2> DEFINE T == [newest : U64, mask : U16]
  <2> HIDE DEF T
  <2>2. a[1] \in T /\ a = <<a[1]>>
    <3>1. a \in Seq(T) /\ Len(a) = 1
      BY <2>1 DEF T
    <3>2. a = [i \in 1..1 |-> a[i]] /\ a[1] \in T
      BY <3>1
    <3> QED
      BY <3>2
  <2>3. a[1].newest \in U64 /\ a[1].mask \in U16
        /\ a[1] = [newest |-> a[1].newest, mask |-> a[1].mask]
    BY <2>2 DEF T
  <2>4. p = U64Bytes(a[1].newest) \o U16Bytes(a[1].mask)
    BY <1>2 DEF AvailabilityBytes, NoAvailability
  <2>5. U64Bytes(a[1].newest) \in Bytes(8) /\ U16Bytes(a[1].mask) \in Bytes(2)
    BY <2>3, U64Back, U16Back
  <2>6. p \in Bytes(8 + 2)
    BY <2>4, <2>5, BytesConcat
  <2> HIDE DEF p
  <2>7. Holds(p, 1, p) /\ p # <<>>
    <3>1. p \in Seq(Byte) /\ Len(p) = 10
      BY <2>6 DEF Bytes
    <3>2. Holds(p, 1, p)
      BY <3>1, HoldsSelf
    <3>3. p # <<>>
      BY <3>1
    <3> QED
      BY <3>2, <3>3
  <2>8. Holds(p, 1, U64Bytes(a[1].newest)) /\ Holds(p, 1 + 8, U16Bytes(a[1].mask))
    BY <2>4, <2>5, <2>7, HoldsParts DEF Bytes
  <2>9. U64At(p, 1) = a[1].newest /\ U16At(p, 9) = a[1].mask
    BY <2>3, <2>8, U64Back, U16Back
  <2>10. AvailabilityOf(p) = <<a[1]>>
    BY <2>3, <2>7, <2>9 DEF AvailabilityOf, Availability
  <2> QED
    BY <2>2, <2>6, <2>10 DEF p, Bytes
<1> QED
  BY <1>1, <1>2

-----------------------------------------------------------------------------
(* Messages.                                                               *)

(* The whole payload is read when its length fits into the length field.   *)
LEMMA WholePayload ==
    ASSUME NEW p \in Seq(Byte), Len(p) < U16Size
    PROVE  Len(p) % U16Size = Len(p) /\ SubSeq(p, 1, Len(p)) = p
<1>1. Len(p) \in Nat /\ U16Size \in Nat \ {0}
  BY Sizes
<1>2. \A n \in Nat, b \in Nat \ {0} : n < b => n % b = n
  OBVIOUS
<1>3. \A T : \A q \in Seq(T) : SubSeq(q, 1, Len(q)) = q
  OBVIOUS
<1> QED
  BY <1>1, <1>2, <1>3

LEMMA FrontAndRest ==
    ASSUME NEW k \in Nat, NEW a \in Bytes(k), NEW b \in Seq(Byte)
    PROVE  /\ a \o b \in Seq(Byte)
           /\ Len(a \o b) = k + Len(b)
           /\ Holds(a \o b, 1, a)
           /\ Rest(a \o b, k + 1) = b
<1> DEFINE T == Byte
<1> HIDE DEF T
<1>1. a \in Seq(T) /\ Len(a) = k /\ b \in Seq(T)
  BY DEF Bytes, T
<1>2. a \o b \in Seq(T) /\ Len(a \o b) = k + Len(b) /\ Len(b) \in Nat
      /\ \A j \in 1 .. k + Len(b) : (a \o b)[j] = IF j <= k THEN a[j] ELSE b[j - k]
  BY <1>1
<1>3. SubSeq(a \o b, k + 1, Len(a \o b)) = b
  <2> DEFINE c == a \o b
             len == Len(c)
             rest == SubSeq(c, k + 1, len)
  <2>1. c \in Seq(T) /\ len = k + Len(b) /\ k + 1 \in 1 .. len + 1
    BY <1>2
  <2> HIDE DEF c
  <2>2. rest \in Seq(T) /\ Len(rest) = Len(b) /\ \A j \in 1 .. Len(b) : rest[j] = c[j + k]
    BY <1>2, <2>1
  <2>3. \A j \in 1 .. Len(b) : c[j + k] = b[j]
    BY <1>2 DEF c
  <2> HIDE DEF rest
  <2>4. rest = b
    BY <1>1, <2>2, <2>3, SMTT(30)
  <2> QED
    BY <2>4 DEF rest, c
<1>4. a \o b \in Seq(Byte)
  BY <1>2 DEF T
<1>5. a \in Seq(Byte)
  BY DEF Bytes
<1>6. Holds(a \o b, 1, a)
  BY <1>4, <1>5, HoldsSelf, HoldsParts
<1> QED
  BY <1>2, <1>3, <1>4, <1>6 DEF Rest

(* encode, decode and their sizes for each type of message. *)

LEMMA PayloadOf ==
    ASSUME NEW m
    PROVE  /\ m.type \in Handshakes => Payload(m) = EndpointBytes(m.endpoint) \o m.name
           /\ m.type \in Requests => Payload(m) = <<>>
           /\ m.type = "segment_request" => Payload(m) = m.filename
           /\ m.type \in {"manifest_response", "segment_contents"} => Payload(m) = m.data
           /\ m.type \in {"segment_not_found", "pong"}
                 => Payload(m) = AvailabilityBytes(m.availability)
           /\ m.type = "progress"
                 => Payload(m) = U16Bytes(m.next_start) \o U16Bytes(m.next_count)
           /\ m.type = "complete" => Payload(m) = <<>>
           /\ m.type = "peerlist_response" => Payload(m) = PeersBytes(m.peers)
           /\ m.type = "ping" => Payload(m) = U32Bytes(m.nonce) \o m.name
  BY Zenon DEF Payload, Handshakes, Requests

LEMMA UnderstoodOf ==
    ASSUME NEW m
    PROVE  /\ m.type \in Handshakes
                 => Understood(m) =
                       [m EXCEPT !.endpoint = IF Reachable(m.endpoint) THEN m.endpoint
                                                                      ELSE Nowhere]
           /\ m.type = "peerlist_response"
                 => Understood(m) =
                       [m EXCEPT !.peers =
                           Keep(m.peers, {e \in Range(m.peers) : Reachable(e.addr)})]
           /\ m.type \notin Handshakes /\ m.type # "peerlist_response" => Understood(m) = m
  BY Zenon DEF Understood, Handshakes

LEMMA WellSizedOf ==
    ASSUME NEW d, d.length <= Len(d.payload)
    PROVE  /\ d.type \in Handshakes => (WellSized(d) <=> d.length >= AddressSize)
           /\ d.type \in {"segment_not_found", "pong"}
                 => (WellSized(d) <=> d.length \in {0, 10})
           /\ d.type = "progress" => (WellSized(d) <=> d.length = 4)
           /\ d.type = "peerlist_response" => (WellSized(d) <=> d.length % EntrySize = 0)
           /\ d.type = "ping" => (WellSized(d) <=> d.length >= 4)
           /\ d.type \in Requests \cup {"manifest_response", "segment_request",
                                        "segment_contents", "complete"}
                 => WellSized(d)
  BY Zenon DEF WellSized, Handshakes, Requests

LEMMA DecodeOf ==
    ASSUME NEW d, WellSized(d), NEW p, p = SubSeq(d.payload, 1, d.length)
    PROVE  /\ d.type \in Handshakes
                 => Decode(d) = [type |-> d.type, endpoint |-> EndpointAt(p, 1),
                                 name |-> Rest(p, 7)]
           /\ d.type \in Requests => Decode(d) = [type |-> d.type]
           /\ d.type = "manifest_response" => Decode(d) = [type |-> d.type, data |-> p]
           /\ d.type = "segment_request"
                 => Decode(d) = [type |-> d.type, transfer_id |-> d.transfer_id,
                                 filename |-> p]
           /\ d.type = "segment_contents"
                 => Decode(d) = [type |-> d.type, transfer_id |-> d.transfer_id,
                                 packet_number |-> d.packet_number,
                                 total_packets |-> d.total_packets, data |-> p]
           /\ d.type = "segment_not_found"
                 => Decode(d) = [type |-> d.type, transfer_id |-> d.transfer_id,
                                 availability |-> AvailabilityOf(p),
                                 retryable |-> d.retryable]
           /\ d.type = "progress"
                 => Decode(d) = [type |-> d.type, transfer_id |-> d.transfer_id,
                                 next_start |-> U16At(p, 1), next_count |-> U16At(p, 3)]
           /\ d.type = "complete"
                 => Decode(d) = [type |-> d.type, transfer_id |-> d.transfer_id]
           /\ d.type = "peerlist_response"
                 => Decode(d) = [type |-> d.type, peers |-> PeersOf(p)]
           /\ d.type = "ping"
                 => Decode(d) = [type |-> d.type, nonce |-> U32At(p, 1), name |-> Rest(p, 5)]
           /\ d.type = "pong"
                 => Decode(d) = [type |-> d.type, availability |-> AvailabilityOf(p)]
  BY Zenon DEF Decode, Handshakes, Requests

(* The payload of each type of message means what was to be said. *)

LEMMA HandshakeBack ==
    ASSUME NEW m \in [type : Handshakes, endpoint : Addresses, name : Seq(Byte)]
    PROVE  LET p == Payload(m)
           IN  /\ p \in Seq(Byte) /\ Len(p) >= AddressSize
               /\ [type |-> m.type, endpoint |-> EndpointAt(p, 1), name |-> Rest(p, 7)]
                     = Understood(m)
<1> DEFINE p == Payload(m)
           a == IF Reachable(m.endpoint) THEN m.endpoint ELSE Nowhere
<1>1. p = AddressBytes(a) \o m.name /\ m.name \in Seq(Byte)
  BY PayloadOf DEF EndpointBytes
<1>2. a \in Addresses /\ a.v4
  BY Sizes DEF Addresses, Reachable, Nowhere, Endpoint, U16, U32
<1>3. Understood(m) = [type |-> m.type, endpoint |-> a, name |-> m.name]
  BY UnderstoodOf, ZenonT(40)
<1> HIDE DEF a, p
<1>4. AddressBytes(a) \in Bytes(6)
  BY <1>2, AddressBack DEF AddressSize
<1>5. p \in Seq(Byte) /\ Len(p) = 6 + Len(m.name) /\ Holds(p, 1, AddressBytes(a))
      /\ Rest(p, 6 + 1) = m.name
  BY <1>1, <1>4, FrontAndRest
<1>6. EndpointAt(p, 1) = Endpoint(a.ip, a.port)
  BY <1>2, <1>5, AddressBack
<1>7. Endpoint(a.ip, a.port) = a
  BY <1>2 DEF Addresses, Endpoint
<1>8. Len(p) >= 6
  BY <1>1, <1>5
<1> QED
  BY <1>3, <1>5, <1>6, <1>7, <1>8 DEF p, AddressSize

LEMMA ProgressBack ==
    ASSUME NEW a \in U16, NEW b \in U16
    PROVE  LET p == U16Bytes(a) \o U16Bytes(b)
           IN  p \in Bytes(4) /\ U16At(p, 1) = a /\ U16At(p, 3) = b
<1> DEFINE p == U16Bytes(a) \o U16Bytes(b)
<1>1. U16Bytes(a) \in Bytes(2) /\ U16Bytes(b) \in Bytes(2)
  BY U16Back
<1>2. p \in Bytes(2 + 2)
  BY <1>1, BytesConcat
<1>3. Holds(p, 1, U16Bytes(a)) /\ Holds(p, 1 + 2, U16Bytes(b))
  BY <1>1, <1>2, HoldsSelf, HoldsParts DEF Bytes
<1> HIDE DEF p
<1>4. U16At(p, 1) = a /\ U16At(p, 3) = b
  BY <1>3, U16Back
<1> QED
  BY <1>2, <1>4 DEF p

LEMMA PingBack ==
    ASSUME NEW n \in U32, NEW name \in Seq(Byte)
    PROVE  LET p == U32Bytes(n) \o name
           IN  p \in Seq(Byte) /\ Len(p) >= 4 /\ U32At(p, 1) = n /\ Rest(p, 5) = name
<1> DEFINE p == U32Bytes(n) \o name
<1>1. U32Bytes(n) \in Bytes(4)
  BY U32Back
<1>2. p \in Seq(Byte) /\ Len(p) = 4 + Len(name) /\ Holds(p, 1, U32Bytes(n))
      /\ Rest(p, 4 + 1) = name
  BY <1>1, FrontAndRest
<1> HIDE DEF p
<1>3. U32At(p, 1) = n
  BY <1>2, U32Back
<1>4. Len(p) >= 4
  BY <1>2
<1> QED
  BY <1>2, <1>3, <1>4 DEF p

(* A payload is bytes. *)
LEMMA PayloadTyped == ASSUME NEW m \in Messages PROVE Payload(m) \in Seq(Byte)
<1>1. CASE m \in [type : Handshakes, endpoint : Addresses, name : Seq(Byte)]
  BY <1>1, HandshakeBack
<1>2. CASE m \in [type : Requests] \cup [type : {"complete"}, transfer_id : U16]
  <2>1. Payload(m) = <<>>
    BY <1>2, PayloadOf
  <2> QED
    BY <2>1
<1>3. CASE m \in [type : {"manifest_response"}, data : Seq(Byte)]
                 \cup [type : {"segment_contents"}, transfer_id : U16,
                       packet_number : U16, total_packets : U16, data : Seq(Byte)]
  BY <1>3, PayloadOf
<1>4. CASE m \in [type : {"segment_request"}, transfer_id : U16, filename : Seq(Byte)]
  BY <1>4, PayloadOf
<1>5. CASE m \in [type : {"segment_not_found"}, transfer_id : U16,
                  availability : Inventories, retryable : BOOLEAN]
                 \cup [type : {"pong"}, availability : Inventories]
  BY <1>5, PayloadOf, AvailabilityBack
<1>6. CASE m \in [type : {"progress"}, transfer_id : U16, next_start : U16,
                  next_count : U16]
  BY <1>6, PayloadOf, ProgressBack, ZenonT(40) DEF Bytes
<1>7. CASE m \in [type : {"peerlist_response"}, peers : Seq(Entries)]
  BY <1>7, PayloadOf, PeersBack
<1>8. CASE m \in [type : {"ping"}, nonce : U32, name : Seq(Byte)]
  BY <1>8, PayloadOf, PingBack
<1> QED
  BY <1>1, <1>2, <1>3, <1>4, <1>5, <1>6, <1>7, <1>8 DEF Messages

LEMMA EncodeOf ==
    ASSUME NEW m, Payload(m) \in Seq(Byte), Len(Payload(m)) < U16Size
    PROVE  LET d == Encode(m)
           IN  /\ d.type = m.type
               /\ d.length = Len(Payload(m)) /\ d.length <= Len(d.payload)
               /\ Payload(m) = SubSeq(d.payload, 1, d.length)
               /\ m.type = "segment_not_found" /\ m.retryable \in BOOLEAN
                     => d.retryable = m.retryable
               /\ "transfer_id" \in DOMAIN m => d.transfer_id = m.transfer_id
               /\ "packet_number" \in DOMAIN m => d.packet_number = m.packet_number
               /\ "total_packets" \in DOMAIN m => d.total_packets = m.total_packets
<1>1. Len(Payload(m)) \in Nat /\ Len(Payload(m)) % U16Size = Len(Payload(m))
      /\ SubSeq(Payload(m), 1, Len(Payload(m))) = Payload(m)
  BY WholePayload
<1>2. /\ Encode(m).type = m.type /\ Encode(m).payload = Payload(m)
      /\ Encode(m).length = Len(Payload(m)) % U16Size
      /\ Encode(m).retryable = (m.type = "segment_not_found" /\ m.retryable)
      /\ Encode(m).transfer_id = Field(m, "transfer_id")
      /\ Encode(m).packet_number = Field(m, "packet_number")
      /\ Encode(m).total_packets = Field(m, "total_packets")
  BY DEF Encode
<1>3. Encode(m).length = Len(Payload(m)) /\ Encode(m).length <= Len(Encode(m).payload)
      /\ Payload(m) = SubSeq(Encode(m).payload, 1, Encode(m).length)
  BY <1>1, <1>2
<1>4. m.type = "segment_not_found" /\ m.retryable \in BOOLEAN
         => Encode(m).retryable = m.retryable
  BY <1>2
<1> QED
  BY <1>2, <1>3, <1>4 DEF Field

(* Whatever is sent in a datagram is understood as it was meant (encode,   *)
(* decode): of every message whose payload the length field can count,     *)
(* every field comes back, except the addresses that cannot be written.    *)
THEOREM RoundTrip ==
    ASSUME NEW m \in Messages, Len(Payload(m)) < U16Size
    PROVE  Decode(Encode(m)) = Understood(m)
<1> DEFINE d == Encode(m)
           p == Payload(m)
<1>a. ASSUME p \in Seq(Byte)
      PROVE  /\ d.type = m.type
             /\ d.length = Len(p) /\ d.length <= Len(d.payload)
             /\ p = SubSeq(d.payload, 1, d.length)
             /\ m.type = "segment_not_found" /\ m.retryable \in BOOLEAN
                   => d.retryable = m.retryable
             /\ "transfer_id" \in DOMAIN m => d.transfer_id = m.transfer_id
             /\ "packet_number" \in DOMAIN m => d.packet_number = m.packet_number
             /\ "total_packets" \in DOMAIN m => d.total_packets = m.total_packets
  BY <1>a, EncodeOf
<1> HIDE DEF d, p
<1>1. CASE m \in [type : Handshakes, endpoint : Addresses, name : Seq(Byte)]
  <2>1. /\ p \in Seq(Byte) /\ Len(p) >= AddressSize
        /\ [type |-> m.type, endpoint |-> EndpointAt(p, 1), name |-> Rest(p, 7)]
              = Understood(m)
    BY <1>1, HandshakeBack DEF p
  <2>2. d.type \in Handshakes /\ WellSized(d)
    BY <1>1, <1>a, <2>1, WellSizedOf
  <2> QED
    BY <1>a, <2>1, <2>2, DecodeOf DEF d
<1>2. CASE m \in [type : Requests]
  <2>1. p = <<>> /\ m = [type |-> m.type] /\ m.type \in Requests
    BY <1>2, PayloadOf DEF p
  <2>2. p \in Seq(Byte)
    BY <2>1
  <2>3. WellSized(d) /\ Understood(m) = m
    BY <1>a, <2>1, <2>2, WellSizedOf, UnderstoodOf DEF Requests, Handshakes
  <2> QED
    BY <1>a, <2>1, <2>2, <2>3, DecodeOf DEF d
<1>3. CASE m \in [type : {"manifest_response"}, data : Seq(Byte)]
  <2>1. p = m.data /\ m = [type |-> m.type, data |-> m.data]
        /\ m.type = "manifest_response" /\ p \in Seq(Byte)
    BY <1>3, PayloadOf DEF p
  <2>2. WellSized(d) /\ Understood(m) = m
    BY <1>a, <2>1, WellSizedOf, UnderstoodOf DEF Handshakes
  <2> QED
    BY <1>a, <2>1, <2>2, DecodeOf DEF d
<1>4. CASE m \in [type : {"segment_request"}, transfer_id : U16, filename : Seq(Byte)]
  <2>1. /\ p = m.filename /\ p \in Seq(Byte) /\ m.type = "segment_request"
        /\ m = [type |-> m.type, transfer_id |-> m.transfer_id, filename |-> m.filename]
    BY <1>4, PayloadOf DEF p
  <2>2. WellSized(d) /\ Understood(m) = m
    BY <1>a, <2>1, WellSizedOf, UnderstoodOf DEF Handshakes
  <2>3. d.transfer_id = m.transfer_id
    BY <1>4, <1>a, <2>1
  <2>4. d.type = "segment_request" /\ p = SubSeq(d.payload, 1, d.length)
    BY <1>a, <2>1
  <2>5. Decode(d) = [type |-> d.type, transfer_id |-> d.transfer_id, filename |-> p]
    BY <2>2, <2>4, DecodeOf
  <2> QED
    BY <2>1, <2>2, <2>3, <2>4, <2>5 DEF d
<1>5. CASE m \in [type : {"segment_contents"}, transfer_id : U16, packet_number : U16,
                  total_packets : U16, data : Seq(Byte)]
  <2>1. /\ p = m.data /\ p \in Seq(Byte) /\ m.type = "segment_contents"
        /\ m = [type |-> m.type, transfer_id |-> m.transfer_id,
                packet_number |-> m.packet_number, total_packets |-> m.total_packets,
                data |-> m.data]
    BY <1>5, PayloadOf DEF p
  <2>2. WellSized(d) /\ Understood(m) = m
    BY <1>a, <2>1, WellSizedOf, UnderstoodOf DEF Handshakes
  <2>3. /\ d.transfer_id = m.transfer_id /\ d.packet_number = m.packet_number
        /\ d.total_packets = m.total_packets
    BY <1>5, <1>a, <2>1
  <2> QED
    BY <1>a, <2>1, <2>2, <2>3, DecodeOf DEF d
<1>6. CASE m \in [type : {"segment_not_found"}, transfer_id : U16,
                  availability : Inventories, retryable : BOOLEAN]
  <2>1. /\ p = AvailabilityBytes(m.availability) /\ m.type = "segment_not_found"
        /\ m.availability \in Inventories
        /\ m = [type |-> m.type, transfer_id |-> m.transfer_id,
                availability |-> m.availability, retryable |-> m.retryable]
    BY <1>6, PayloadOf DEF p
  <2>2. p \in Seq(Byte) /\ Len(p) \in {0, 10} /\ AvailabilityOf(p) = m.availability
    BY <2>1, AvailabilityBack
  <2>3. WellSized(d) /\ Understood(m) = m
    BY <1>a, <2>1, <2>2, WellSizedOf, UnderstoodOf DEF Handshakes
  <2>4. d.transfer_id = m.transfer_id /\ d.retryable = m.retryable
    BY <1>6, <1>a, <2>1, <2>2
  <2> QED
    BY <1>a, <2>1, <2>2, <2>3, <2>4, DecodeOf DEF d
<1>7. CASE m \in [type : {"progress"}, transfer_id : U16, next_start : U16,
                  next_count : U16]
  <2>1. /\ p = U16Bytes(m.next_start) \o U16Bytes(m.next_count) /\ m.type = "progress"
        /\ m.next_start \in U16 /\ m.next_count \in U16
        /\ m = [type |-> m.type, transfer_id |-> m.transfer_id,
                next_start |-> m.next_start, next_count |-> m.next_count]
    BY <1>7, PayloadOf DEF p
  <2>2. p \in Seq(Byte) /\ Len(p) = 4 /\ U16At(p, 1) = m.next_start
        /\ U16At(p, 3) = m.next_count
    BY <2>1, ProgressBack DEF Bytes
  <2>3. WellSized(d) /\ Understood(m) = m
    BY <1>a, <2>1, <2>2, WellSizedOf, UnderstoodOf DEF Handshakes
  <2>4. d.transfer_id = m.transfer_id
    BY <1>7, <1>a, <2>1, <2>2
  <2>5. d.type = "progress" /\ p = SubSeq(d.payload, 1, d.length)
    BY <1>a, <2>1, <2>2
  <2>6. Decode(d) = [type |-> d.type, transfer_id |-> d.transfer_id,
                     next_start |-> U16At(p, 1), next_count |-> U16At(p, 3)]
    BY <2>3, <2>5, DecodeOf
  <2> QED
    BY <2>1, <2>2, <2>3, <2>4, <2>5, <2>6 DEF d
<1>8. CASE m \in [type : {"complete"}, transfer_id : U16]
  <2>1. p = <<>> /\ m = [type |-> m.type, transfer_id |-> m.transfer_id]
        /\ m.type = "complete"
    BY <1>8, PayloadOf DEF p
  <2>2. p \in Seq(Byte)
    BY <2>1
  <2>3. WellSized(d) /\ Understood(m) = m
    BY <1>a, <2>1, <2>2, WellSizedOf, UnderstoodOf DEF Handshakes
  <2>4. d.transfer_id = m.transfer_id
    BY <1>8, <1>a, <2>1, <2>2
  <2> QED
    BY <1>a, <2>1, <2>2, <2>3, <2>4, DecodeOf, ZenonT(40) DEF d
<1>9. CASE m \in [type : {"peerlist_response"}, peers : Seq(Entries)]
  <2>1. /\ p = PeersBytes(m.peers) /\ m.type = "peerlist_response"
        /\ m.peers \in Seq(Entries) /\ m = [type |-> m.type, peers |-> m.peers]
    BY <1>9, PayloadOf DEF p
  <2> DEFINE reachable == Keep(m.peers, {e \in Range(m.peers) : Reachable(e.addr)})
  <2>2. p \in Seq(Byte) /\ Len(p) % EntrySize = 0 /\ PeersOf(p) = reachable
    BY <2>1, PeersBack
  <2>3. Understood(m) = [m EXCEPT !.peers = reachable]
    BY <2>1, UnderstoodOf
  <2> HIDE DEF reachable
  <2>4. Understood(m) = [type |-> m.type, peers |-> reachable]
    BY <2>1, <2>3
  <2>5. WellSized(d)
    BY <1>a, <2>1, <2>2, WellSizedOf
  <2> QED
    BY <1>a, <2>1, <2>2, <2>4, <2>5, DecodeOf DEF d
<1>10. CASE m \in [type : {"ping"}, nonce : U32, name : Seq(Byte)]
  <2>1. /\ p = U32Bytes(m.nonce) \o m.name /\ m.type = "ping"
        /\ m.nonce \in U32 /\ m.name \in Seq(Byte)
        /\ m = [type |-> m.type, nonce |-> m.nonce, name |-> m.name]
    BY <1>10, PayloadOf DEF p
  <2>2. p \in Seq(Byte) /\ Len(p) >= 4 /\ U32At(p, 1) = m.nonce /\ Rest(p, 5) = m.name
    BY <2>1, PingBack
  <2>3. WellSized(d) /\ Understood(m) = m
    BY <1>a, <2>1, <2>2, WellSizedOf, UnderstoodOf DEF Handshakes
  <2>4. d.type = "ping" /\ p = SubSeq(d.payload, 1, d.length)
    BY <1>a, <2>1, <2>2
  <2>5. Decode(d) = [type |-> d.type, nonce |-> U32At(p, 1), name |-> Rest(p, 5)]
    BY <2>3, <2>4, DecodeOf
  <2> QED
    BY <2>1, <2>2, <2>3, <2>4, <2>5 DEF d
<1>11. CASE m \in [type : {"pong"}, availability : Inventories]
  <2>1. /\ p = AvailabilityBytes(m.availability) /\ m.type = "pong"
        /\ m.availability \in Inventories
        /\ m = [type |-> m.type, availability |-> m.availability]
    BY <1>11, PayloadOf DEF p
  <2>2. p \in Seq(Byte) /\ Len(p) \in {0, 10} /\ AvailabilityOf(p) = m.availability
    BY <2>1, AvailabilityBack
  <2>3. WellSized(d) /\ Understood(m) = m
    BY <1>a, <2>1, <2>2, WellSizedOf, UnderstoodOf DEF Handshakes
  <2> QED
    BY <1>a, <2>1, <2>2, <2>3, DecodeOf DEF d
<1> QED
  BY <1>1, <1>2, <1>3, <1>4, <1>5, <1>6, <1>7, <1>8, <1>9, <1>10, <1>11, Zenon DEF Messages

-----------------------------------------------------------------------------
(* What decode makes of any datagram.                                      *)

LEMMA NumbersAt ==
    ASSUME NEW p \in Seq(Byte), NEW i \in Nat \ {0}
    PROVE  /\ i + 1 <= Len(p) => U16At(p, i) \in U16
           /\ i + 3 <= Len(p) => U32At(p, i) \in U32
           /\ i + 7 <= Len(p) => U64At(p, i) \in U64
<1> DEFINE len == Len(p)
<1>0. len \in Nat /\ \A j \in 1..len : p[j] \in Byte
  OBVIOUS
<1> HIDE DEF len
<1>1. ASSUME NEW j \in Nat \ {0}, j + 1 <= len PROVE U16At(p, j) \in U16
  <2>1. j \in 1..len /\ j + 1 \in 1..len
    BY <1>0, <1>1
  <2>2. p[j] \in 0 .. Base - 1 /\ p[j + 1] \in 0 .. Base - 1
    BY <1>0, <2>1 DEF Byte
  <2> QED
    BY <2>2, TwoDigits, BaseAssumption DEF U16At, U16, U16Size
<1>2. ASSUME NEW j \in Nat \ {0}, j + 3 <= len PROVE U32At(p, j) \in U32
  <2>1. j + 2 \in Nat \ {0} /\ j + 1 <= len /\ (j + 2) + 1 <= len
    BY <1>0, <1>2
  <2>2. U16At(p, j) \in 0 .. U16Size - 1 /\ U16At(p, j + 2) \in 0 .. U16Size - 1
    BY <1>1, <2>1 DEF U16
  <2> QED
    BY <2>2, TwoDigits, Sizes DEF U32At, U32, U32Size
<1>3. ASSUME NEW j \in Nat \ {0}, j + 7 <= len PROVE U64At(p, j) \in U64
  <2>1. j + 4 \in Nat \ {0} /\ j + 3 <= len /\ (j + 4) + 3 <= len
    BY <1>0, <1>3
  <2>2. U32At(p, j) \in 0 .. U32Size - 1 /\ U32At(p, j + 4) \in 0 .. U32Size - 1
    BY <1>2, <2>1 DEF U32
  <2> QED
    BY <2>2, TwoDigits, Sizes DEF U64At, U64, U64Size
<1> QED
  BY <1>1, <1>2, <1>3 DEF len

LEMMA ValuesAt ==
    ASSUME NEW p \in Seq(Byte)
    PROVE  /\ \A i \in Nat \ {0} : i + 5 <= Len(p) => EndpointAt(p, i) \in Addresses
           /\ Len(p) \in {0, 10} => AvailabilityOf(p) \in Inventories
           /\ \A i \in Nat \ {0} : i <= Len(p) + 1 => Rest(p, i) \in Seq(Byte)
           /\ PeersOf(p) \in Seq(Entries)
<1> DEFINE len == Len(p)
<1>0. len \in Nat /\ \A j \in 1..len : p[j] \in Byte
  OBVIOUS
<1>1. ASSUME NEW i \in Nat \ {0}, i + 5 <= len PROVE EndpointAt(p, i) \in Addresses
  <2>1. i + 3 <= len /\ i + 4 \in Nat \ {0} /\ (i + 4) + 1 <= len
    BY <1>0, <1>1
  <2>2. U32At(p, i) \in U32 /\ U16At(p, i + 4) \in U16
    BY <2>1, NumbersAt
  <2> QED
    BY <2>2 DEF EndpointAt, Endpoint, Addresses
<1>2. ASSUME len \in {0, 10} PROVE AvailabilityOf(p) \in Inventories
  <2> DEFINE T == [newest : U64, mask : U16]
  <2>1. CASE p = <<>>
    <3>1. <<>> \in Seq(T) /\ Len(<<>>) = 0
      OBVIOUS
    <3> QED
      BY <2>1, <3>1 DEF AvailabilityOf, NoAvailability, Inventories
  <2>2. CASE p # <<>>
    <3>1. 1 + 7 <= len /\ 9 + 1 <= len
      <4>1. \A T0 : \A q \in Seq(T0) : Len(q) = 0 => q = <<>>
        OBVIOUS
      <4>2. len # 0
        BY <2>2, <4>1 DEF len
      <4>3. len = 10
        BY <1>2, <4>2
      <4> QED
        BY <4>3
    <3>2. U64At(p, 1) \in U64 /\ U16At(p, 9) \in U16
      BY <3>1, NumbersAt
    <3> DEFINE a == [newest |-> U64At(p, 1), mask |-> U16At(p, 9)]
    <3>3. a \in T
      BY <3>2
    <3>4. AvailabilityOf(p) = <<a>>
      BY <2>2 DEF AvailabilityOf, Availability
    <3> HIDE DEF a, T
    <3>5. <<a>> \in Seq(T) /\ Len(<<a>>) <= 1
      BY <3>3
    <3> QED
      BY <3>4, <3>5 DEF Inventories, T
  <2> QED
    BY <2>1, <2>2
<1>3. ASSUME NEW i \in Nat \ {0}, i <= len + 1 PROVE Rest(p, i) \in Seq(Byte)
  <2>1. \A T : \A q \in Seq(T) : i <= Len(q) + 1 => SubSeq(q, i, Len(q)) \in Seq(T)
    OBVIOUS
  <2> QED
    BY <1>3, <2>1 DEF Rest
<1>4. PeersOf(p) \in Seq(Entries)
  <2> DEFINE n == len \div 7
             all == [k \in 1..n |-> EntryAt(p, k)]
  <2>1. n \in Nat /\ 7 * n <= len
    BY <1>0
  <2>2. ASSUME NEW k \in 1..n PROVE EntryAt(p, k) \in Entries
    <3> HIDE DEF n
    <3>1. 7 * (k - 1) + 1 \in Nat \ {0} /\ (7 * (k - 1) + 1) + 5 <= len /\ 7 * k \in 1..len
      BY <1>0, <2>1
    <3>2. EndpointAt(p, 7 * (k - 1) + 1) \in Addresses /\ p[7 * k] \in Byte
      BY <1>0, <1>1, <3>1
    <3> QED
      BY <3>2 DEF EntryAt, Entry, Entries, EntrySize, AddressSize
  <2>3. PeersOf(p) = Keep(all, {e \in Range(all) : e.addr.port # 0})
    BY DEF PeersOf, EntrySize, AddressSize
  <2> HIDE DEF n
  <2>4. all \in Seq(Entries)
    BY <2>1, <2>2
  <2> HIDE DEF all
  <2> QED
    BY <2>3, <2>4, KeepFacts
<1> QED
  BY <1>1, <1>2, <1>3, <1>4

Types ==
    Handshakes \cup Requests
    \cup {"manifest_response", "segment_request", "segment_contents",
          "segment_not_found", "progress", "complete", "peerlist_response",
          "ping", "pong"}

(* Any datagram with a header, its length field right or wrong. *)
Datagrams ==
    [type : Types, retryable : BOOLEAN, length : U16, transfer_id : U16,
     packet_number : U16, total_packets : U16, payload : Seq(Byte)]

(* decode is total: a datagram is rejected, or it is a message whose every *)
(* field has its range; nothing is read beyond the payload, whatever the   *)
(* length field and the payload are.                                       *)
THEOREM DecodeTotal ==
    ASSUME NEW d \in Datagrams
    PROVE  Decode(d) \in Messages \cup {BadDatagram}
<1>1. CASE ~WellSized(d)
  BY <1>1, Zenon DEF Decode
<1>2. CASE WellSized(d)
  <2> DEFINE p == SubSeq(d.payload, 1, d.length)
  <2>1. d.length \in Nat /\ d.payload \in Seq(Byte) /\ d.length <= Len(d.payload)
        /\ d.type \in Types /\ d.retryable \in BOOLEAN /\ d.transfer_id \in U16
        /\ d.packet_number \in U16 /\ d.total_packets \in U16
    BY <1>2, Sizes DEF WellSized, Datagrams, U16
  <2>2. p \in Seq(Byte) /\ Len(p) = d.length
    <3>1. \A T : \A q \in Seq(T) : \A n \in 0 .. Len(q) :
              SubSeq(q, 1, n) \in Seq(T) /\ Len(SubSeq(q, 1, n)) = n
      OBVIOUS
    <3>2. d.length \in 0 .. Len(d.payload)
      BY <2>1
    <3> QED
      BY <2>1, <3>1, <3>2
  <2>3. p = SubSeq(d.payload, 1, d.length)
    OBVIOUS
  <2> HIDE DEF p
  <2>4. CASE d.type \in Handshakes
    <3>1. d.length >= 6
      BY <1>2, <2>1, <2>4, WellSizedOf DEF AddressSize
    <3>2. EndpointAt(p, 1) \in Addresses /\ Rest(p, 7) \in Seq(Byte)
      BY <2>1, <2>2, <3>1, ValuesAt
    <3>3. Decode(d) = [type |-> d.type, endpoint |-> EndpointAt(p, 1), name |-> Rest(p, 7)]
      BY <1>2, <2>3, <2>4, DecodeOf
    <3> QED
      BY <2>4, <3>2, <3>3 DEF Messages
  <2>5. CASE d.type \in Requests
    <3>1. Decode(d) = [type |-> d.type]
      BY <1>2, <2>3, <2>5, DecodeOf
    <3> QED
      BY <2>5, <3>1 DEF Messages
  <2>6. CASE d.type = "manifest_response"
    BY <1>2, <2>2, <2>3, <2>6, DecodeOf DEF Messages
  <2>7. CASE d.type = "segment_request"
    <3>1. Decode(d) = [type |-> d.type, transfer_id |-> d.transfer_id, filename |-> p]
      BY <1>2, <2>3, <2>7, DecodeOf
    <3> QED
      BY <2>1, <2>2, <2>7, <3>1 DEF Messages
  <2>8. CASE d.type = "segment_contents"
    <3>1. Decode(d) = [type |-> d.type, transfer_id |-> d.transfer_id,
                       packet_number |-> d.packet_number,
                       total_packets |-> d.total_packets, data |-> p]
      BY <1>2, <2>3, <2>8, DecodeOf
    <3> QED
      BY <2>1, <2>2, <2>8, <3>1 DEF Messages
  <2>9. CASE d.type = "segment_not_found"
    <3>1. d.length \in {0, 10}
      BY <1>2, <2>1, <2>9, WellSizedOf
    <3>2. AvailabilityOf(p) \in Inventories
      BY <2>2, <3>1, ValuesAt
    <3>3. Decode(d) = [type |-> d.type, transfer_id |-> d.transfer_id,
                       availability |-> AvailabilityOf(p), retryable |-> d.retryable]
      BY <1>2, <2>3, <2>9, DecodeOf
    <3> QED
      BY <2>1, <2>9, <3>2, <3>3 DEF Messages
  <2>10. CASE d.type = "progress"
    <3>1. d.length = 4
      BY <1>2, <2>1, <2>10, WellSizedOf
    <3>2. U16At(p, 1) \in U16 /\ U16At(p, 3) \in U16
      <4>1. 1 \in Nat \ {0} /\ 1 + 1 <= Len(p) /\ 3 \in Nat \ {0} /\ 3 + 1 <= Len(p)
        BY <2>2, <3>1
      <4> QED
        BY <2>2, <4>1, NumbersAt
    <3>3. Decode(d) = [type |-> d.type, transfer_id |-> d.transfer_id,
                       next_start |-> U16At(p, 1), next_count |-> U16At(p, 3)]
      BY <1>2, <2>3, <2>10, DecodeOf
    <3> QED
      BY <2>1, <2>10, <3>2, <3>3 DEF Messages
  <2>11. CASE d.type = "complete"
    BY <1>2, <2>1, <2>3, <2>11, DecodeOf DEF Messages
  <2>12. CASE d.type = "peerlist_response"
    BY <1>2, <2>2, <2>3, <2>12, DecodeOf, ValuesAt DEF Messages
  <2>13. CASE d.type = "ping"
    <3>1. d.length >= 4
      BY <1>2, <2>1, <2>13, WellSizedOf
    <3>2. U32At(p, 1) \in U32 /\ Rest(p, 5) \in Seq(Byte)
      BY <2>1, <2>2, <3>1, NumbersAt, ValuesAt
    <3>3. Decode(d) = [type |-> d.type, nonce |-> U32At(p, 1), name |-> Rest(p, 5)]
      BY <1>2, <2>3, <2>13, DecodeOf
    <3> QED
      BY <2>13, <3>2, <3>3 DEF Messages
  <2>14. CASE d.type = "pong"
    <3>1. d.length \in {0, 10}
      BY <1>2, <2>1, <2>14, WellSizedOf
    <3>2. AvailabilityOf(p) \in Inventories
      BY <2>2, <3>1, ValuesAt
    <3>3. Decode(d) = [type |-> d.type, availability |-> AvailabilityOf(p)]
      BY <1>2, <2>3, <2>14, DecodeOf
    <3> QED
      BY <2>14, <3>2, <3>3 DEF Messages
  <2> QED
    BY <2>1, <2>4, <2>5, <2>6, <2>7, <2>8, <2>9, <2>10, <2>11, <2>12, <2>13, <2>14,
       Zenon DEF Types
<1> QED
  BY <1>1, <1>2

=============================================================================
