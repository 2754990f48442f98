----------------------------- MODULE PeersProofs -----------------------------
(***************************************************************************)
(* A node and its peers: whom it hears on the local network, and what it   *)
(* shows of their pages.                                                   *)
(*                                                                         *)
(* Peering on a local network is safe for any nodes, addresses, packets,   *)
(* intervals, tables and rings, and any number of sends and faults.  The   *)
(* inductive invariant says where in the ring a fresh packet is: as many   *)
(* slots from the end as packets were handed up after it.                  *)
(*                                                                         *)
(* The browser shows what its address says, submits a form once and keeps  *)
(* no more pages than it has slots, for any pages, sizes, lifetimes and    *)
(* number of navigations.                                                  *)
(***************************************************************************)
EXTENDS Lan, Browser, FiniteSetTheorems, SequenceTheorems, TLAPS

-----------------------------------------------------------------------------
(* The local network.                                                      *)

Slot == [packet : Datagrams, left : 0..DedupeTicks]
PeerSlot == [left : 0..PeerTimeout + 1, reverse : 0..ReverseEvery + 1]

\* A table of peers of node n: none of them is the node itself, and there are no
\* more of them than slots.
Live(table) == {a \in Addresses : table[a].left > 0}
Table(n, table) ==
  /\ table \in [Addresses -> PeerSlot]
  /\ Live(table) \cap Own(n) = {} /\ Cardinality(Live(table)) <= PeerCapacity

\* A ring that remembers a packet which is fresh for so many ticks, with so many
\* handed up since.
Remembers(ring, p, fresh, since) ==
  fresh > 0 /\ since < DedupeCapacity =>
     \E i \in DOMAIN ring : i = Len(ring) - since /\ ring[i].packet = p /\ ring[i].left = fresh
Ring(ring) == ring \in Seq(Slot) /\ Len(ring) <= DedupeCapacity

Times ==
  /\ online_in \in [LanNodes -> 0..InitialWait]
  /\ announce_in \in [Addresses -> 0..AnnounceEvery]
  /\ ether \subseteq Flights /\ polled \subseteq LanNodes
  /\ sends \in 0..MaxLanEvents /\ lan_faults \in 0..MaxLanFaults
Tables ==
  /\ peer_table \in [LanNodes -> [Addresses -> PeerSlot]]
  /\ \A n \in LanNodes : Table(n, peer_table[n])
Rings ==
  /\ dedupe_ring \in [LanNodes -> Seq(Slot)]
  /\ fresh_ticks \in [LanNodes -> [Datagrams -> 0..DedupeTicks]]
  /\ ups_since \in [LanNodes -> [Datagrams -> 0..DedupeCapacity]]
  /\ \A n \in LanNodes : Ring(dedupe_ring[n])
  /\ \A n \in LanNodes, p \in Datagrams :
       Remembers(dedupe_ring[n], p, fresh_ticks[n][p], ups_since[n][p])
  /\ repeated_up = {}

Peering == Times /\ Tables /\ Rings

-----------------------------------------------------------------------------
(* Tables of peers.                                                         *)

\* A table that has at most the peers of another is a table.
LEMMA TableShrinks ==
  ASSUME NEW n, NEW table, Table(n, table), NEW other \in [Addresses -> PeerSlot],
         Live(other) \subseteq Live(table)
  PROVE  Table(n, other)
<1>1. IsFiniteSet(Live(table))
  BY LanConfig, FS_Subset, Zenon DEF Live
<1>2. /\ Cardinality(Live(other)) <= Cardinality(Live(table))
      /\ Cardinality(Live(other)) \in Nat /\ Cardinality(Live(table)) \in Nat
  BY Zenon, <1>1, FS_Subset, FS_CardinalityType
<1> QED
  BY <1>2, LanConfig DEF Table

LEMMA AdmittedTable ==
  ASSUME NEW n, NEW table, Table(n, table), NEW source \in Addresses
  PROVE  Table(n, Admitted(n, table, source))
<1>1. table \in [Addresses -> PeerSlot] /\ PeerTimeout + 1 \in 0..PeerTimeout + 1
      /\ ReverseEvery + 1 \in 0..ReverseEvery + 1 /\ PeerTimeout + 1 > 0
  BY LanConfig DEF Table
<1>2. PICK e \in PeerSlot : e = table[source]
  BY Zenon, <1>1
<1>3. CASE source \in Own(n)
  BY <1>3, Zenon DEF Admitted
<1>4. CASE source \notin Own(n) /\ table[source].left > 0
  <2>1. PICK f : f = [e EXCEPT !.left = PeerTimeout + 1]
    BY Zenon
  <2>2. f \in PeerSlot
    BY <1>1, <2>1, Zenon DEF PeerSlot
  <2>3. PICK t : t = [table EXCEPT ![source] = f]
    BY Zenon
  <2>4. Admitted(n, table, source) = t
    BY <1>1, <1>2, <1>4, <2>1, <2>3, Zenon DEF Admitted
  <2>5. t \in [Addresses -> PeerSlot]
    BY Zenon, <1>1, <2>2, <2>3
  <2>6. Live(t) \subseteq Live(table)
    BY <1>1, <1>4, <2>3, Zenon DEF Live
  <2> QED
    BY Zenon, <2>4, <2>5, <2>6, TableShrinks
<1>5. CASE source \notin Own(n) /\ ~(table[source].left > 0) /\ Cardinality(Live(table)) = PeerCapacity
  BY <1>5, Zenon DEF Admitted, Live
<1>6. CASE source \notin Own(n) /\ ~(table[source].left > 0) /\ Cardinality(Live(table)) # PeerCapacity
  <2>1. PICK f : f = [left |-> PeerTimeout + 1, reverse |-> ReverseEvery + 1]
    BY Zenon
  <2>2. f \in PeerSlot /\ f.left > 0
    BY <1>1, <2>1, Zenon DEF PeerSlot
  <2>3. PICK t : t = [table EXCEPT ![source] = f]
    BY Zenon
  <2>4. Admitted(n, table, source) = t
    BY <1>6, <2>1, <2>3, Zenon DEF Admitted, Live
  <2>5. t \in [Addresses -> PeerSlot] /\ t[source] = f /\ \A a \in Addresses \ {source} : t[a] = table[a]
    BY Zenon, <1>1, <2>2, <2>3
  <2>6. Live(t) = Live(table) \cup {source} /\ source \notin Live(table)
    BY <1>6, <2>2, <2>5 DEF Live
  <2>7. IsFiniteSet(Live(table)) /\ Cardinality(Live(table)) \in Nat
    BY LanConfig, FS_Subset, FS_CardinalityType, Zenon DEF Live
  <2>8. Cardinality(Live(t)) = Cardinality(Live(table)) + 1
    BY Zenon, <2>6, <2>7, FS_AddElement
  <2>9. Cardinality(Live(table)) <= PeerCapacity
    BY Zenon DEF Table
  <2>10. Cardinality(Live(t)) <= PeerCapacity
    BY <1>6, <2>7, <2>8, <2>9, LanConfig
  <2> QED
    BY <1>6, <2>4, <2>5, <2>6, <2>10, Zenon DEF Table
<1> QED
  BY Zenon, <1>3, <1>4, <1>5, <1>6

LEMMA RenewedTable ==
  ASSUME NEW n, NEW table, Table(n, table), NEW source \in Addresses
  PROVE  Table(n, Renewed(table, source))
<1>1. table \in [Addresses -> PeerSlot] /\ PeerTimeout + 1 \in 0..PeerTimeout + 1
  BY LanConfig DEF Table
<1>2. PICK e \in PeerSlot : e = table[source]
  BY Zenon, <1>1
<1>3. CASE ~(table[source].left > 0)
  BY <1>3, Zenon DEF Renewed
<1>4. CASE table[source].left > 0
  <2>1. PICK f : f = [e EXCEPT !.left = PeerTimeout + 1]
    BY Zenon
  <2>2. f \in PeerSlot
    BY <1>1, <2>1, Zenon DEF PeerSlot
  <2>3. PICK t : t = [table EXCEPT ![source] = f]
    BY Zenon
  <2>4. Renewed(table, source) = t
    BY <1>1, <1>2, <1>4, <2>1, <2>3, Zenon DEF Renewed
  <2>5. t \in [Addresses -> PeerSlot]
    BY Zenon, <1>1, <2>2, <2>3
  <2>6. Live(t) \subseteq Live(table)
    BY <1>1, <1>4, <2>3, Zenon DEF Live
  <2> QED
    BY Zenon, <2>4, <2>5, <2>6, TableShrinks
<1> QED
  BY Zenon, <1>3, <1>4

\* One node's table changes.
LEMMA TableSet ==
  ASSUME Tables, NEW n \in LanNodes, NEW t, Table(n, t), peer_table' = [peer_table EXCEPT ![n] = t]
  PROVE  Tables'
<1>1. t \in [Addresses -> PeerSlot]
  BY Zenon DEF Table
<1>2. peer_table' \in [LanNodes -> [Addresses -> PeerSlot]] /\ peer_table'[n] = t
      /\ \A m \in LanNodes \ {n} : peer_table'[m] = peer_table[m]
  BY <1>1, Zenon DEF Tables
<1>3. \A m \in LanNodes : Table(m, peer_table'[m])
  BY <1>2, Zenon DEF Tables
<1> QED
  BY <1>2, <1>3, Zenon DEF Tables, Table, Live, Own

-----------------------------------------------------------------------------
(* The ring of packets handed up.                                           *)

\* A ring that remembers a fresh packet knows it for a duplicate.
LEMMA FreshIsDuplicate ==
  ASSUME Rings, NEW n \in LanNodes, NEW p \in Datagrams, ~Duplicate(n, p)
  PROVE  ~(fresh_ticks[n][p] > 0 /\ ups_since[n][p] < DedupeCapacity)
BY DEF Rings, Remembers, Duplicate

\* A new packet enters at the end, and pushes the others one place on.
LEMMA RingEntered ==
  ASSUME NEW ring, Ring(ring), NEW p \in Datagrams
  PROVE  /\ Ring(Entered(ring, p)) /\ Len(Entered(ring, p)) \in Nat \ {0}
         /\ Entered(ring, p)[Len(Entered(ring, p))] = [packet |-> p, left |-> DedupeTicks]
         /\ \A i \in DOMAIN ring : LET back == Len(ring) - i IN
              back + 1 < DedupeCapacity =>
                 /\ Len(Entered(ring, p)) - (back + 1) \in DOMAIN Entered(ring, p)
                 /\ Entered(ring, p)[Len(Entered(ring, p)) - (back + 1)] = ring[i]
<1>1. PICK e : e = [packet |-> p, left |-> DedupeTicks]
  BY Zenon
<1>2. e \in Slot
  BY <1>1, LanConfig DEF Slot
<1>3. PICK R : R = Slot
  OBVIOUS
<1>4. ring \in Seq(R) /\ Len(ring) \in Nat /\ Len(ring) <= DedupeCapacity /\ e \in R
      /\ DOMAIN ring = 1 .. Len(ring) /\ DedupeCapacity \in Nat /\ DedupeCapacity > 0
  BY <1>2, <1>3, LanConfig DEF Ring
<1>5. PICK kept : kept = IF Len(ring) = DedupeCapacity THEN Tail(ring) ELSE ring
  BY Zenon
<1>6. PICK s \in 0 .. 1 :
        /\ kept \in Seq(R) /\ Len(kept) = Len(ring) - s /\ Len(kept) < DedupeCapacity
        /\ Len(kept) \in Nat /\ (s = 1 => Len(ring) = DedupeCapacity)
        /\ \A j \in 1 .. Len(kept) : kept[j] = ring[j + s]
  <2>1. CASE Len(ring) # DedupeCapacity
    <3>1. kept = ring
      BY Zenon, <1>5, <2>1
    <3>2. Len(kept) = Len(ring) - 0 /\ Len(kept) < DedupeCapacity /\ Len(kept) \in Nat
      <4>1. PICK l \in Nat, c \in Nat : l = Len(ring) /\ c = DedupeCapacity /\ l <= c
        BY Zenon, <1>4
      <4>2. l # c /\ Len(kept) = l
        BY Zenon, <2>1, <3>1, <4>1
      <4> QED
        BY <4>1, <4>2
    <3>3. \A j \in 1 .. Len(kept) : kept[j] = ring[j + 0]
      BY <3>1, <3>2
    <3>4. kept \in Seq(R) /\ 0 \in 0 .. 1 /\ 0 # 1
      BY <1>4, <3>1
    <3> QED
      BY Zenon, <3>2, <3>3, <3>4
  <2>2. CASE Len(ring) = DedupeCapacity
    <3>1. ring # <<>> /\ kept = Tail(ring)
      BY <1>4, <1>5, <2>2
    <3>2. kept \in Seq(R) /\ Len(kept) = Len(ring) - 1
          /\ \A j \in 1 .. Len(kept) : kept[j] = ring[j + 1]
      BY Zenon, <1>4, <3>1, HeadTailProperties
    <3>3. Len(kept) < DedupeCapacity /\ Len(kept) \in Nat
      BY <1>4, <2>2, <3>2
    <3> QED
      BY <2>2, <3>2, <3>3
  <2> QED
    BY Zenon, <2>1, <2>2
<1>7. PICK new : new = Append(kept, e)
  BY Zenon
<1>8. /\ new \in Seq(R) /\ Len(new) = Len(kept) + 1 /\ new[Len(kept) + 1] = e
      /\ \A j \in 1 .. Len(kept) : new[j] = kept[j]
  <2>1. kept \in Seq(R) /\ e \in R /\ Len(kept) \in Nat
    BY Zenon, <1>4, <1>6
  <2> QED
    BY <1>7, <2>1, AppendProperties
<1>9. new = Entered(ring, p)
  BY <1>1, <1>5, <1>7, Zenon DEF Entered
<1>10. Len(new) \in Nat \ {0} /\ Len(new) <= DedupeCapacity /\ Len(kept) \in Nat
  <2>1. PICK k \in Nat, c \in Nat : k = Len(kept) /\ c = DedupeCapacity
    BY Zenon, <1>4, <1>6
  <2>2. k < c /\ Len(new) = k + 1
    BY Zenon, <1>6, <1>8, <2>1
  <2> QED
    BY <2>1, <2>2
<1>11. ASSUME NEW i \in DOMAIN ring, Len(ring) - i + 1 < DedupeCapacity
       PROVE  /\ Len(new) - (Len(ring) - i + 1) \in DOMAIN new
              /\ new[Len(new) - (Len(ring) - i + 1)] = ring[i]
  <2>1. PICK l \in Nat, k \in Nat, c \in Nat : l = Len(ring) /\ k = Len(kept) /\ c = DedupeCapacity
    BY Zenon, <1>4, <1>6
  <2>2. i \in 1 .. l /\ k = l - s /\ (s = 1 => l = c) /\ l - i + 1 < c /\ Len(new) = k + 1
    BY Zenon, <1>4, <1>6, <1>8, <1>11, <2>1
  <2>3. i - s \in 1 .. k /\ (k + 1) - (l - i + 1) = i - s /\ i - s \in 1 .. k + 1 /\ (i - s) + s = i
    <3>1. CASE s = 0
      BY <2>2, <3>1
    <3>2. CASE s = 1
      BY <2>2, <3>2
    <3> QED
      BY <3>1, <3>2
  <2>4. new[i - s] = kept[i - s] /\ kept[i - s] = ring[(i - s) + s]
    BY Zenon, <1>6, <1>8, <2>1, <2>3
  <2>5. DOMAIN new = 1 .. k + 1
    BY <1>8, <2>1
  <2> QED
    BY <2>1, <2>2, <2>3, <2>4, <2>5
<1>12. Ring(new)
  BY <1>3, <1>8, <1>10, Zenon DEF Ring
<1> QED
  BY Zenon, <1>1, <1>8, <1>9, <1>10, <1>11, <1>12

\* Handing up a packet keeps what the ring remembers of it and of the others.
LEMMA HandUpStep ==
  ASSUME Rings, NEW n \in LanNodes, NEW p \in Datagrams, ~Duplicate(n, p), HandUp(n, p)
  PROVE  Rings'
<1>1. PICK ring : ring = dedupe_ring[n]
  OBVIOUS
<1>2. PICK new : new = Entered(ring, p)
  OBVIOUS
<1>3. Ring(ring) /\ DedupeCapacity \in Nat \ {0} /\ DedupeTicks \in Nat
  BY <1>1, LanConfig, Zenon DEF Rings
<1>4. Ring(new) /\ Len(new) \in Nat \ {0} /\ new[Len(new)] = [packet |-> p, left |-> DedupeTicks]
  BY Zenon, <1>2, <1>3, RingEntered
<1>5. dedupe_ring' \in [LanNodes -> Seq(Slot)] /\ dedupe_ring'[n] = new
      /\ \A m \in LanNodes \ {n} : dedupe_ring'[m] = dedupe_ring[m]
  BY <1>1, <1>2, <1>4 DEF HandUp, Rings, Ring
<1>6. fresh_ticks' \in [LanNodes -> [Datagrams -> 0..DedupeTicks]]
      /\ \A m \in LanNodes, q \in Datagrams :
           fresh_ticks'[m][q] = IF m = n /\ q = p THEN DedupeTicks ELSE fresh_ticks[m][q]
  BY <1>3 DEF HandUp, Rings
<1>7. ups_since' \in [LanNodes -> [Datagrams -> 0..DedupeCapacity]]
      /\ \A m \in LanNodes, q \in Datagrams :
           ups_since'[m][q] = IF m # n THEN ups_since[m][q]
                              ELSE IF q = p THEN 0
                              ELSE IF ups_since[n][q] = DedupeCapacity THEN DedupeCapacity
                              ELSE ups_since[n][q] + 1
  <2>1. PICK f : f = [q \in Datagrams |-> IF q = p THEN 0
                         ELSE IF ups_since[n][q] = DedupeCapacity THEN DedupeCapacity
                         ELSE ups_since[n][q] + 1]
    BY Zenon
  <2>2. \A q \in Datagrams : ups_since[n][q] \in 0 .. DedupeCapacity
    BY Zenon DEF Rings
  <2>3. f \in [Datagrams -> 0..DedupeCapacity]
    BY <1>3, <2>1, <2>2
  <2>4. ups_since' = [ups_since EXCEPT ![n] = f]
    BY <2>1, Zenon DEF HandUp
  <2>5. ups_since \in [LanNodes -> [Datagrams -> 0..DedupeCapacity]]
    BY Zenon DEF Rings
  <2> QED
    BY Zenon, <2>1, <2>3, <2>4, <2>5
<1>8. repeated_up' = {}
  BY FreshIsDuplicate, Zenon DEF HandUp, Rings
<1>9. \A m \in LanNodes : Ring(dedupe_ring'[m])
  BY <1>4, <1>5, Zenon DEF Rings
<1>10. ASSUME NEW m \in LanNodes, NEW q \in Datagrams
       PROVE  Remembers(dedupe_ring'[m], q, fresh_ticks'[m][q], ups_since'[m][q])
  <2>0. Remembers(dedupe_ring[m], q, fresh_ticks[m][q], ups_since[m][q])
    BY Zenon DEF Rings
  <2>1. CASE m # n
    BY <1>5, <1>6, <1>7, <2>0, <2>1
  <2>2. CASE m = n /\ q = p
    <3>1. fresh_ticks'[m][q] = DedupeTicks /\ ups_since'[m][q] = 0 /\ dedupe_ring'[m] = new
      BY <1>5, <1>6, <1>7, <2>2
    <3>2. Len(new) \in DOMAIN new /\ Len(new) = Len(new) - 0
          /\ new[Len(new)].packet = q /\ new[Len(new)].left = DedupeTicks
      BY <1>4, <2>2 DEF Ring
    <3> QED
      BY <3>1, <3>2 DEF Remembers
  <2>3. CASE m = n /\ q # p
    <3>1. PICK since \in 0 .. DedupeCapacity, fresh \in 0 .. DedupeTicks :
            since = ups_since[n][q] /\ fresh = fresh_ticks[n][q]
      BY Zenon DEF Rings
    <3>2. /\ fresh_ticks'[m][q] = fresh /\ dedupe_ring'[m] = new
          /\ ups_since'[m][q] = IF since = DedupeCapacity THEN DedupeCapacity ELSE since + 1
      BY <1>5, <1>6, <1>7, <2>3, <3>1
    <3>3. CASE fresh > 0 /\ since + 1 < DedupeCapacity
      <4>1. PICK i \in DOMAIN ring : i = Len(ring) - since /\ ring[i].packet = q /\ ring[i].left = fresh
        BY <1>1, <1>3, <2>0, <2>3, <3>1, <3>3 DEF Remembers
      <4>2. i \in Nat /\ Len(ring) \in Nat /\ Len(ring) - i = since
        BY <1>3, <4>1 DEF Ring
      <4>3. Len(new) - (since + 1) \in DOMAIN new /\ new[Len(new) - (since + 1)] = ring[i]
        BY Zenon, <1>2, <1>3, <3>3, <4>2, RingEntered
      <4>4. ups_since'[m][q] = since + 1
        BY <1>3, <3>2, <3>3
      <4> QED
        BY <3>2, <4>1, <4>3, <4>4 DEF Remembers
    <3>4. CASE ~(fresh > 0 /\ since + 1 < DedupeCapacity)
      BY <1>3, <3>1, <3>2, <3>4 DEF Remembers
    <3> QED
      BY <3>3, <3>4
  <2> QED
    BY Zenon, <2>1, <2>2, <2>3
<1> QED
  BY <1>5, <1>6, <1>7, <1>8, <1>9, <1>10 DEF Rings, Ring, Remembers

-----------------------------------------------------------------------------
(* One lemma per action.                                                    *)

LEMMA ReceiveTokenStep ==
  ASSUME Peering, NEW n \in LanNodes, ReceiveToken(n)
  PROVE  Peering'
<1>1. PICK d \in Waiting(n) :
        /\ ether' = ether \ {d}
        /\ peer_table' = [peer_table EXCEPT ![n] =
                             IF Online(n) THEN Admitted(n, peer_table[n], d.from) ELSE peer_table[n]]
        /\ UNCHANGED <<online_in, announce_in, dedupeVars, polled, sends, lan_faults>>
  BY Zenon DEF ReceiveToken, Peering, Tables
<1>2. d.from \in Addresses
  BY Zenon DEF Waiting, Peering, Times, Flights
<1>3. Times'
  BY <1>1, Zenon DEF Peering, Times
<1>4. Rings'
  BY <1>1, Zenon DEF Peering, Rings, dedupeVars
<1>5. PICK table : table = IF Online(n) THEN Admitted(n, peer_table[n], d.from) ELSE peer_table[n]
  OBVIOUS
<1>6. Table(n, peer_table[n])
  BY Zenon DEF Peering, Tables
<1>7. Table(n, table)
  BY <1>2, <1>5, <1>6, AdmittedTable
<1>8. Tables'
  BY <1>1, <1>5, <1>7, TableSet, Zenon DEF Peering
<1> QED
  BY <1>3, <1>4, <1>8 DEF Peering

LEMMA ReceiveDataStep ==
  ASSUME Peering, NEW n \in LanNodes, ReceiveData(n)
  PROVE  Peering'
<1>1. PICK d \in Waiting(n) :
        LET known == Online(n) /\ peer_table[n][d.from].left > 0
        IN  /\ d.kind # "token" /\ ether' = ether \ {d}
            /\ peer_table' = [peer_table EXCEPT ![n] =
                                 IF known THEN Renewed(peer_table[n], d.from) ELSE peer_table[n]]
            /\ IF known /\ ~Duplicate(n, d.kind) THEN HandUp(n, d.kind)
               ELSE UNCHANGED dedupeVars
            /\ UNCHANGED <<online_in, announce_in, polled, sends, lan_faults>>
  BY Zenon DEF ReceiveData, Peering, Tables
<1>2. d.from \in Addresses /\ d.kind \in Datagrams
  BY <1>1, Zenon DEF Waiting, Peering, Times, Flights, Kinds
<1>3. Times'
  BY <1>1, Zenon DEF Peering, Times
<1>4. Rings'
  <2>1. CASE ~Duplicate(n, d.kind) /\ HandUp(n, d.kind)
    BY <1>2, <2>1, HandUpStep DEF Peering
  <2>2. CASE UNCHANGED dedupeVars
    BY <2>2 DEF Peering, Rings, dedupeVars
  <2> QED
    BY <1>1, <2>1, <2>2
<1>5. PICK table : table = IF Online(n) /\ peer_table[n][d.from].left > 0
                           THEN Renewed(peer_table[n], d.from) ELSE peer_table[n]
  OBVIOUS
<1>6. Table(n, peer_table[n])
  BY Zenon DEF Peering, Tables
<1>7. Table(n, table)
  BY <1>2, <1>5, <1>6, RenewedTable
<1>8. Tables'
  BY <1>1, <1>5, <1>7, TableSet, Zenon DEF Peering
<1> QED
  BY <1>3, <1>4, <1>8, Zenon DEF Peering

LEMMA PollStep ==
  ASSUME Peering, NEW n \in LanNodes, Poll(n)
  PROVE  Peering'
<1>1. PICK via \in Own(n) :
        /\ ether' = ether \cup {[kind |-> "token", from |-> via, to |-> a] : a \in ReverseDue(n)}
                          \cup UNION {Heard(b) : b \in AnnounceDue(n)}
        /\ peer_table' = [peer_table EXCEPT ![n] =
               [a \in Addresses |-> IF a \in ReverseDue(n)
                                    THEN [peer_table[n][a] EXCEPT !.reverse = ReverseEvery + 1]
                                    ELSE peer_table[n][a]]]
        /\ announce_in' = [a \in Addresses |->
               IF a \in AnnounceDue(n) THEN AnnounceEvery ELSE announce_in[a]]
        /\ polled' = polled \cup {n}
        /\ UNCHANGED <<online_in, dedupeVars, sends, lan_faults>>
  BY Zenon DEF Poll
<1>2. Times'
  <2>1. \A b \in Addresses : Heard(b) \subseteq Flights
    <3>1. SUFFICES ASSUME NEW b \in Addresses, NEW h \in Heard(b) PROVE h \in Flights
      OBVIOUS
    <3>2. PICK a \in Addresses : h = [kind |-> "token", from |-> b, to |-> a]
      BY <3>1, Zenon DEF Heard
    <3> QED
      BY <3>1, <3>2, Zenon DEF Flights, Kinds
  <2>2. {[kind |-> "token", from |-> via, to |-> a] : a \in ReverseDue(n)} \subseteq Flights
    BY DEF Flights, Kinds, ReverseDue, Known, Own
  <2>3. UNION {Heard(b) : b \in AnnounceDue(n)} \subseteq Flights
    BY <2>1, Zenon DEF AnnounceDue, Own
  <2>4. ether' \subseteq Flights
    BY <1>1, <2>2, <2>3, Zenon DEF Peering, Times
  <2>5. announce_in' \in [Addresses -> 0..AnnounceEvery]
    BY <1>1, LanConfig DEF Peering, Times
  <2> QED
    BY <1>1, <2>4, <2>5 DEF Peering, Times
<1>3. Rings'
  BY <1>1, Zenon DEF Peering, Rings, dedupeVars
<1>4. PICK table : table = [a \in Addresses |-> IF a \in ReverseDue(n)
                               THEN [peer_table[n][a] EXCEPT !.reverse = ReverseEvery + 1]
                               ELSE peer_table[n][a]]
  BY Zenon
<1>5. Table(n, peer_table[n])
  BY Zenon DEF Peering, Tables
<1>6. ASSUME NEW a \in Addresses
      PROVE  table[a] \in PeerSlot /\ table[a].left = peer_table[n][a].left
  <2>1. PICK s \in PeerSlot : s = peer_table[n][a]
    BY <1>5, Zenon DEF Table
  <2>2. [s EXCEPT !.reverse = ReverseEvery + 1] \in PeerSlot
        /\ [s EXCEPT !.reverse = ReverseEvery + 1].left = s.left
    BY LanConfig DEF PeerSlot
  <2> QED
    BY Zenon, <1>4, <2>1, <2>2
<1>7. Table(n, table)
  <2>1. table \in [Addresses -> PeerSlot]
    BY Zenon, <1>4, <1>6
  <2>2. Live(table) \subseteq Live(peer_table[n])
    BY <1>6, Zenon DEF Live
  <2> QED
    BY Zenon, <1>5, <2>1, <2>2, TableShrinks
<1>8. Tables'
  BY <1>1, <1>4, <1>7, TableSet, Zenon DEF Peering
<1> QED
  BY <1>2, <1>3, <1>8 DEF Peering

LEMMA SendStep ==
  ASSUME Peering, NEW n \in LanNodes, Send(n)
  PROVE  Peering'
<1>1. PICK p \in Datagrams, via \in Own(n) :
        /\ sends + lan_faults < MaxLanEvents
        /\ ether' = ether \cup {[kind |-> p, from |-> via, to |-> a] : a \in Known(n)}
        /\ sends' = sends + 1
        /\ UNCHANGED <<online_in, announce_in, peer_table, dedupeVars, polled, lan_faults>>
  BY Zenon DEF Send
<1>2. {[kind |-> p, from |-> via, to |-> a] : a \in Known(n)} \subseteq Flights
  BY DEF Flights, Kinds, Known, Own
<1>3. Times'
  BY <1>1, <1>2, LanConfig DEF Peering, Times
<1>4. Tables' /\ Rings'
  BY <1>1, Zenon DEF Peering, Tables, Rings, dedupeVars
<1> QED
  BY <1>3, <1>4 DEF Peering

LEMMA DropStep ==
  ASSUME Peering, Drop
  PROVE  Peering'
<1>1. ether' \subseteq ether /\ LanFault
      /\ UNCHANGED <<online_in, announce_in, peer_table, dedupeVars, polled, sends>>
  BY Zenon DEF Drop
<1>2. Times'
  BY <1>1, LanConfig DEF Peering, Times, LanFault
<1>3. Tables' /\ Rings'
  BY <1>1, Zenon DEF Peering, Tables, Rings, dedupeVars
<1> QED
  BY <1>2, <1>3 DEF Peering

LEMMA RestartStep ==
  ASSUME Peering, NEW n \in LanNodes, Restart(n)
  PROVE  Peering'
<1>1. Times'
  BY LanConfig DEF Peering, Times, Restart, LanFault
<1>2. Tables'
  <2>1. PICK table : table = [a \in Addresses |-> NoPeer]
    BY Zenon
  <2>2. NoPeer \in PeerSlot /\ NoPeer.left = 0
    BY LanConfig DEF NoPeer, PeerSlot
  <2>3. table \in [Addresses -> PeerSlot] /\ Live(table) = {}
    BY <2>1, <2>2 DEF Live
  <2>4. Table(n, table)
    BY <2>3, FS_EmptySet, LanConfig DEF Table
  <2> QED
    BY <2>1, <2>4, TableSet, Zenon DEF Peering, Restart
<1>3. Rings'
  <2>1. dedupe_ring' = [dedupe_ring EXCEPT ![n] = <<>>]
        /\ fresh_ticks' = [fresh_ticks EXCEPT ![n] = [p \in Datagrams |-> 0]]
        /\ ups_since' = ups_since /\ repeated_up' = repeated_up
    BY Zenon DEF Restart
  <2>2. <<>> \in Seq(Slot) /\ Len(<<>>) = 0
    OBVIOUS
  <2>3. dedupe_ring' \in [LanNodes -> Seq(Slot)] /\ dedupe_ring'[n] = <<>>
        /\ \A m \in LanNodes \ {n} : dedupe_ring'[m] = dedupe_ring[m]
    BY <2>1, <2>2 DEF Peering, Rings
  <2>4. fresh_ticks' \in [LanNodes -> [Datagrams -> 0..DedupeTicks]]
        /\ \A m \in LanNodes, p \in Datagrams :
             fresh_ticks'[m][p] = IF m = n THEN 0 ELSE fresh_ticks[m][p]
    BY <2>1, LanConfig DEF Peering, Rings
  <2>5. \A m \in LanNodes : Ring(dedupe_ring'[m])
    <3>1. Ring(<<>>)
      BY <2>2, LanConfig DEF Ring
    <3>2. \A m \in LanNodes : Ring(dedupe_ring[m])
      BY Zenon DEF Peering, Rings
    <3> QED
      BY Zenon, <2>3, <3>1, <3>2
  <2>6. ASSUME NEW m \in LanNodes, NEW p \in Datagrams
        PROVE  Remembers(dedupe_ring'[m], p, fresh_ticks'[m][p], ups_since'[m][p])
    <3>1. CASE m = n
      BY <2>4, <3>1 DEF Remembers
    <3>2. CASE m # n
      <4>1. Remembers(dedupe_ring[m], p, fresh_ticks[m][p], ups_since[m][p])
        BY Zenon DEF Peering, Rings
      <4> QED
        BY Zenon, <2>1, <2>3, <2>4, <3>2, <4>1
    <3> QED
      BY Zenon, <3>1, <3>2
  <2> QED
    BY <2>1, <2>3, <2>4, <2>5, <2>6, Zenon DEF Peering, Rings, Ring, Remembers
<1> QED
  BY <1>1, <1>2, <1>3, Zenon DEF Peering

LEMMA TickStep ==
  ASSUME Peering, Tick
  PROVE  Peering'
<1>1. \A k \in Nat : \A t \in 0 .. k : Down(t) \in 0 .. k
  BY DEF Down
<1>2. Times'
  BY <1>1, LanConfig DEF Peering, Times, Tick
<1>3. Tables'
  <2>1. peer_table' = [n \in LanNodes |-> [a \in Addresses |->
           LET left == Down(peer_table[n][a].left)
           IN  IF left = 0 THEN NoPeer
               ELSE [left |-> left, reverse |-> Down(peer_table[n][a].reverse)]]]
    BY Zenon DEF Tick
  <2>2. ASSUME NEW n \in LanNodes, NEW a \in Addresses
        PROVE  peer_table'[n][a] \in PeerSlot
               /\ (peer_table'[n][a].left > 0 => peer_table[n][a].left > 0)
    <3>1. PICK s \in PeerSlot : s = peer_table[n][a]
      BY Zenon DEF Peering, Tables
    <3>2. s.left \in 0 .. PeerTimeout + 1 /\ s.reverse \in 0 .. ReverseEvery + 1
          /\ PeerTimeout + 1 \in Nat /\ ReverseEvery + 1 \in Nat
      BY LanConfig DEF PeerSlot
    <3>3. PICK l \in 0 .. PeerTimeout + 1, r \in 0 .. ReverseEvery + 1 :
            l = Down(s.left) /\ r = Down(s.reverse) /\ (l > 0 => s.left > 0)
      BY <1>1, <3>2 DEF Down
    <3>4. peer_table'[n][a] = IF l = 0 THEN NoPeer ELSE [left |-> l, reverse |-> r]
      BY <2>1, <3>1, <3>3
    <3>5. NoPeer \in PeerSlot /\ NoPeer.left = 0 /\ [left |-> l, reverse |-> r] \in PeerSlot
      BY <3>2 DEF NoPeer, PeerSlot
    <3> QED
      BY <3>1, <3>3, <3>4, <3>5
  <2>3. peer_table' \in [LanNodes -> [Addresses -> PeerSlot]]
    BY Zenon, <2>1, <2>2
  <2>4. ASSUME NEW n \in LanNodes PROVE Table(n, peer_table'[n])
    <3>1. Live(peer_table'[n]) \subseteq Live(peer_table[n])
      BY <2>2, Zenon DEF Live
    <3>2. peer_table'[n] \in [Addresses -> PeerSlot] /\ Table(n, peer_table[n])
      BY <2>3, Zenon DEF Peering, Tables
    <3> QED
      BY Zenon, <3>1, <3>2, TableShrinks
  <2> QED
    BY <2>3, <2>4, Zenon DEF Tables, Table, Live, Own
<1>4. Rings'
  <2>1. /\ dedupe_ring' = [n \in LanNodes |-> [i \in DOMAIN dedupe_ring[n] |->
               [dedupe_ring[n][i] EXCEPT !.left = Down(dedupe_ring[n][i].left)]]]
        /\ fresh_ticks' = [n \in LanNodes |-> [p \in Datagrams |-> Down(fresh_ticks[n][p])]]
        /\ ups_since' = ups_since /\ repeated_up' = repeated_up
    BY Zenon DEF Tick
  <2>2. ASSUME NEW n \in LanNodes
        PROVE  /\ Ring(dedupe_ring'[n]) /\ Len(dedupe_ring'[n]) = Len(dedupe_ring[n])
               /\ DOMAIN dedupe_ring'[n] = DOMAIN dedupe_ring[n]
               /\ \A i \in DOMAIN dedupe_ring[n] :
                    /\ dedupe_ring'[n][i].packet = dedupe_ring[n][i].packet
                    /\ dedupe_ring'[n][i].left = Down(dedupe_ring[n][i].left)
    <3>1. PICK ring : ring = dedupe_ring[n]
      OBVIOUS
    <3>2. Ring(ring)
      BY <3>1 DEF Peering, Rings
    <3>3. PICK R : R = Slot
      OBVIOUS
    <3>4. ring \in Seq(R) /\ Len(ring) \in Nat /\ Len(ring) <= DedupeCapacity
          /\ DOMAIN ring = 1 .. Len(ring) /\ \A i \in 1 .. Len(ring) : ring[i] \in R
      BY <3>2, <3>3 DEF Ring
    <3>5. PICK new : new = [i \in 1 .. Len(ring) |-> [ring[i] EXCEPT !.left = Down(ring[i].left)]]
      BY Zenon
    <3>6. new = dedupe_ring'[n]
      BY Zenon, <2>1, <3>1, <3>4, <3>5
    <3>7. ASSUME NEW i \in 1 .. Len(ring)
          PROVE  new[i] \in R /\ new[i].packet = ring[i].packet /\ new[i].left = Down(ring[i].left)
      <4>1. PICK s \in Slot : s = ring[i]
        BY <3>3, <3>4
      <4>2. s.left \in 0 .. DedupeTicks /\ s.packet \in Datagrams
        BY Zenon DEF Slot
      <4>3. Down(s.left) \in 0 .. DedupeTicks
        BY Zenon, <1>1, <4>2, LanConfig
      <4>4. PICK t : t = [s EXCEPT !.left = Down(s.left)]
        BY Zenon
      <4>5. t \in Slot /\ t.packet = s.packet /\ t.left = Down(s.left)
        BY <4>3, <4>4, Zenon DEF Slot
      <4>6. new[i] = t
        BY Zenon, <3>5, <4>1, <4>4
      <4> QED
        BY Zenon, <3>3, <4>1, <4>5, <4>6
    <3>8. DOMAIN new = 1 .. Len(ring)
      BY <3>5
    <3>9. new \in Seq(R) /\ Len(new) = Len(ring)
      <4>1. new \in [1 .. Len(ring) -> R]
        BY <3>5, <3>7
      <4> QED
        BY <3>4, <4>1, IsASeq, LenProperties
    <3>10. Ring(new)
      BY <3>3, <3>4, <3>9 DEF Ring
    <3> QED
      BY <3>1, <3>4, <3>6, <3>7, <3>8, <3>9, <3>10
  <2>3. dedupe_ring' \in [LanNodes -> Seq(Slot)]
    BY <2>1, <2>2 DEF Ring
  <2>4. fresh_ticks' \in [LanNodes -> [Datagrams -> 0..DedupeTicks]]
    BY <1>1, <2>1, LanConfig DEF Peering, Rings
  <2>5. ASSUME NEW n \in LanNodes, NEW p \in Datagrams
        PROVE  Remembers(dedupe_ring'[n], p, fresh_ticks'[n][p], ups_since'[n][p])
    <3>1. PICK fresh \in Nat, since \in Nat : fresh = fresh_ticks[n][p] /\ since = ups_since[n][p]
      BY LanConfig DEF Peering, Rings
    <3>2. Remembers(dedupe_ring[n], p, fresh, since)
      BY <3>1, Zenon DEF Peering, Rings
    <3>3. fresh_ticks'[n][p] = Down(fresh) /\ ups_since'[n][p] = since /\ (Down(fresh) > 0 => fresh > 0)
      BY <2>1, <3>1 DEF Down
    <3> QED
      BY <2>2, <3>2, <3>3, Zenon DEF Remembers
  <2> QED
    BY <2>1, <2>2, <2>3, <2>4, <2>5, Zenon DEF Peering, Rings, Ring, Remembers
<1> QED
  BY <1>2, <1>3, <1>4, Zenon DEF Peering

-----------------------------------------------------------------------------
LEMMA PeeringInit == LanInit => Peering
<1>1. SUFFICES ASSUME LanInit PROVE Peering
  OBVIOUS
<1>2. Times
  BY <1>1, LanConfig DEF LanInit, Times
<1>3. NoPeer \in PeerSlot /\ NoPeer.left = 0
  BY LanConfig DEF NoPeer, PeerSlot
<1>4. ASSUME NEW n \in LanNodes PROVE Table(n, peer_table[n])
  <2>1. peer_table[n] \in [Addresses -> PeerSlot] /\ Live(peer_table[n]) = {}
    BY <1>1, <1>3 DEF LanInit, Live
  <2> QED
    BY <2>1, FS_EmptySet, LanConfig DEF Table
<1>5. Tables
  BY <1>1, <1>3, <1>4, Zenon DEF LanInit, Tables
<1>6. <<>> \in Seq(Slot) /\ Len(<<>>) = 0
  OBVIOUS
<1>7. Rings
  BY <1>1, <1>6, LanConfig DEF LanInit, Rings, Ring, Remembers
<1> QED
  BY <1>2, <1>5, <1>7, Zenon DEF Peering

LEMMA PeeringStep == Peering /\ [LanNext]_lanVars => Peering'
<1>1. SUFFICES ASSUME Peering, [LanNext]_lanVars PROVE Peering'
  OBVIOUS
<1>2. ASSUME NEW n \in LanNodes,
             ReceiveToken(n) \/ ReceiveData(n) \/ Poll(n) \/ Send(n) \/ Restart(n)
      PROVE  Peering'
  BY Zenon, <1>1, <1>2, ReceiveTokenStep, ReceiveDataStep, PollStep, SendStep, RestartStep
<1>3. CASE UNCHANGED lanVars
  BY <1>1, <1>3 DEF lanVars, dedupeVars, Peering, Times, Tables, Rings
<1> QED
  BY <1>1, <1>2, <1>3, DropStep, TickStep, Zenon DEF LanNext

LEMMA PeeringHandsUpOnce == Peering => LanHandsUpOnce
<1>1. SUFFICES ASSUME Peering PROVE LanTypeOK /\ HandedUpOnce
  BY Zenon DEF LanHandsUpOnce
<1>2. ASSUME NEW n \in LanNodes
      PROVE  /\ Known(n) \cap Own(n) = {} /\ Cardinality(Known(n)) <= PeerCapacity
             /\ Len(dedupe_ring[n]) <= DedupeCapacity
  BY <1>1, Zenon DEF Peering, Tables, Table, Live, Known, Rings, Ring
<1>3. dedupe_ring \in [LanNodes -> Seq([packet : Datagrams, left : 0..DedupeTicks])]
  BY <1>1, Zenon DEF Peering, Rings, Slot
<1>4. LanTypeOK
  BY <1>1, <1>2, <1>3, Zenon DEF Peering, Times, Tables, Rings, LanTypeOK, PeerSlot
<1> QED
  BY <1>1, <1>4 DEF Peering, Rings, HandedUpOnce

\* A packet that reaches a node over several addresses is handed up once while
\* duplicate_packet is to remember it, a node is never its own peer and its table
\* never holds more peers than slots: rns_auto_ingest_data, rns_auto_ingest_discovery.
THEOREM LanIsTrue == LanSpec => []LanHandsUpOnce
<1>1. LanInit => Peering
  BY PeeringInit
<1>2. Peering /\ [LanNext]_lanVars => Peering'
  BY Zenon, PeeringStep
<1>3. Peering => LanHandsUpOnce
  BY Zenon, PeeringHandsUpOnce
<1> QED
  BY <1>1, <1>2, <1>3, PTL DEF LanSpec

------------------------------------------------------------------------------
(* The browser.                                                             *)


Entry == [version : Int, age : 0 .. Lifetime]
Cached(c) ==
  /\ c \in [DOMAIN c -> Entry]
  /\ DOMAIN c \subseteq Urls /\ Cardinality(DOMAIN c) <= CacheEntries

Shapes ==
  /\ phase \in Settled \cup {"IDLE", "PATH", "LINK", "REQUEST"}
  /\ target \in [url : Urls \cup {"none"}, form : BOOLEAN]
  /\ wire_link = [to |-> wire_link.to, state |-> wire_link.state]
  /\ wire_link.to \in Hosts \cup {"none"}
  /\ wire_link.state \in {"NONE", "PENDING", "ACTIVE", "CLOSED"}
  /\ receipt \in {"NONE", "PENDING", "OVER"}
  /\ request \in [for : Urls \cup {"none"}, form : BOOLEAN,
                  state : {"none", "sent", "answered", "unanswered"}, version : Int]
  /\ page.url \in Urls \cup {"none"}
  /\ waited \in 0 .. PathTimeout /\ files \in [Urls -> Int] /\ submitted \in Nat

\* There is a target once there is a link, and a request is for the target and
\* has its receipt; without a receipt, or before it was served, it has not been
\* submitted.
Asked ==
  /\ wire_link.state # "NONE" \/ phase = "PATH" => target.url \in Urls
  /\ request.state # "none" => request.for = target.url /\ target.url \in Urls /\ receipt = "PENDING"
  /\ request.state = "sent" \/ receipt = "NONE" => submitted = 0

Browsing == Shapes /\ Cached(cache) /\ Asked /\ PageTrue /\ SubmittedOnce

-----------------------------------------------------------------------------
\* What is left of the cache is a cache.
LEMMA WithoutCached ==
  ASSUME NEW c, Cached(c), NEW urls
  PROVE  Cached(Without(c, urls)) /\ DOMAIN Without(c, urls) = DOMAIN c \ urls
<1>1. PICK d : d = Without(c, urls)
  OBVIOUS
<1>2. DOMAIN d = DOMAIN c \ urls /\ d \in [DOMAIN d -> Entry]
  BY <1>1 DEF Without, Restrict, Cached
<1>3. Cardinality(DOMAIN d) <= Cardinality(DOMAIN c) /\ Cardinality(DOMAIN d) \in Nat
      /\ Cardinality(DOMAIN c) \in Nat
  <2>1. IsFiniteSet(DOMAIN c)
    BY BrowserConfig, FS_Subset DEF Cached
  <2> QED
    BY <1>2, <2>1, FS_Subset, FS_CardinalityType
<1>4. Cached(d)
  BY <1>2, <1>3, BrowserConfig DEF Cached
<1> QED
  BY <1>1, <1>2, <1>4

\* So is one with a new page, whatever had to go.
LEMMA StoresCached ==
  ASSUME NEW c, Cached(c), NEW u \in Urls, NEW version \in Int, NEW d \in Stores(c, u, version)
  PROVE  Cached(d)
<1>1. PICK rest : rest = Without(c, {u})
  OBVIOUS
<1>2. Cached(rest)
  BY Zenon, <1>1, WithoutCached
<1>3. ASSUME NEW gone \in Evictions(rest, u), d = KeptPage(Without(rest, gone), u, version)
      PROVE  Cached(d)
  <2>1. PICK k : k = Without(rest, gone)
    OBVIOUS
  <2>2. Cached(k) /\ DOMAIN k = DOMAIN rest \ gone
    BY <1>2, <2>1, WithoutCached
  <2>3. Cardinality(DOMAIN k) < CacheEntries
    BY <1>3, <2>2 DEF Evictions, Fits
  <2>4. IsFiniteSet(DOMAIN k)
    BY <2>2, BrowserConfig, FS_Subset DEF Cached
  <2>5. d = [v \in DOMAIN k \cup {u} |-> IF v = u THEN [version |-> version, age |-> 0] ELSE k[v]]
    BY <1>3, <2>1 DEF KeptPage
  <2>6. [version |-> version, age |-> 0] \in Entry
    BY BrowserConfig DEF Entry
  <2>7. DOMAIN d = DOMAIN k \cup {u} /\ d \in [DOMAIN d -> Entry]
    BY <2>2, <2>5, <2>6 DEF Cached
  <2>8. Cardinality(DOMAIN d) <= CacheEntries
    <3>1. Cardinality(DOMAIN k) \in Nat
      BY <2>4, FS_CardinalityType
    <3>2. Cardinality(DOMAIN d) = Cardinality(DOMAIN k) \/ Cardinality(DOMAIN d) = Cardinality(DOMAIN k) + 1
      BY Zenon, <2>4, <2>7, FS_AddElement
    <3> QED
      BY <2>3, <3>1, <3>2, BrowserConfig
  <2> QED
    BY <2>2, <2>7, <2>8 DEF Cached
<1> QED
  BY <1>1, <1>2, <1>3, Zenon DEF Stores

\* Time passes for every page.
LEMMA AgedCached ==
  ASSUME NEW c, Cached(c),
         NEW d, d = [u \in DOMAIN c |-> [c[u] EXCEPT !.age = IF @ < Lifetime THEN @ + 1 ELSE @]]
  PROVE  Cached(d)
<1>1. \A u \in DOMAIN c : [c[u] EXCEPT !.age = IF @ < Lifetime THEN @ + 1 ELSE @] \in Entry
  <2> SUFFICES ASSUME NEW u \in DOMAIN c
               PROVE  [c[u] EXCEPT !.age = IF @ < Lifetime THEN @ + 1 ELSE @] \in Entry
    OBVIOUS
  <2>1. PICK e \in Entry : e = c[u]
    BY Zenon DEF Cached
  <2>2. (IF e.age < Lifetime THEN e.age + 1 ELSE e.age) \in 0 .. Lifetime
    BY BrowserConfig DEF Entry
  <2>3. [e EXCEPT !.age = IF @ < Lifetime THEN @ + 1 ELSE @] \in Entry
    BY <2>2, Zenon DEF Entry
  <2> QED
    BY <2>1, <2>3
<1>2. DOMAIN d = DOMAIN c /\ d \in [DOMAIN d -> Entry]
  BY Zenon, <1>1
<1> QED
  BY <1>2 DEF Cached

-----------------------------------------------------------------------------
\* What a step that leaves the page, the cache and the node alone has to keep.
LEMMA Untouched ==
  ASSUME Browsing, Shapes', Asked', UNCHANGED <<page, cache, submitted>>
  PROVE  Browsing'
BY Zenon DEF Browsing, PageTrue, SubmittedOnce, Cached

\* A link that is active asks for the target, unless that was done.
LEMMA LinkActiveStep ==
  ASSUME Browsing, LinkActive, wire_link.state # "NONE", wire_link'.state \in {"PENDING", "ACTIVE"},
         wire_link' = [to |-> wire_link.to, state |-> wire_link'.state],
         UNCHANGED <<target, waited, page, cache, files, submitted>>
  PROVE  Browsing'
<1>1. target.url \in Urls /\ target.form \in BOOLEAN
  BY DEF Browsing, Shapes, Asked
<1>2. Shapes'
  <2>1. PICK sent : sent = [for |-> target.url, form |-> target.form, state |-> "sent", version |-> 0]
    BY Zenon
  <2>2. sent \in [for : Urls \cup {"none"}, form : BOOLEAN,
                  state : {"none", "sent", "answered", "unanswered"}, version : Int]
    BY <1>1, <2>1
  <2>3. /\ request' = sent \/ request' = request
        /\ receipt' \in {receipt, "PENDING"} /\ phase' \in {"REQUEST", "FAILED", phase}
    BY <2>1 DEF LinkActive, Failed
  <2> QED
    BY <2>2, <2>3 DEF Browsing, Shapes, Settled
<1>3. Asked'
  <2>1. \/ receipt = "NONE" /\ receipt' = "PENDING"
           /\ request' = [for |-> target.url, form |-> target.form, state |-> "sent", version |-> 0]
        \/ UNCHANGED <<receipt, request>>
    BY Zenon DEF LinkActive, RequestIfNone
  <2>2. CASE UNCHANGED <<receipt, request>>
    BY <1>1, <2>2 DEF Browsing, Asked
  <2>3. CASE receipt = "NONE" /\ receipt' = "PENDING"
             /\ request' = [for |-> target.url, form |-> target.form, state |-> "sent", version |-> 0]
    BY <1>1, <2>3 DEF Browsing, Asked
  <2> QED
    BY <2>1, <2>2, <2>3
<1> QED
  BY Zenon, <1>2, <1>3, Untouched

LEMMA LinkSteps ==
  ASSUME Browsing, LinkUp \/ LinkNoise
  PROVE  Browsing'
<1>1. wire_link = [to |-> wire_link.to, state |-> wire_link.state]
  BY DEF Browsing, Shapes
<1>2. CASE LinkUp
  <2>1. wire_link' = [to |-> wire_link.to, state |-> "ACTIVE"]
    BY <1>1, <1>2 DEF LinkUp
  <2> QED
    BY <1>2, <2>1, LinkActiveStep, Zenon DEF LinkUp
<1>3. CASE LinkNoise
  BY <1>1, <1>3, LinkActiveStep DEF LinkNoise
<1> QED
  BY <1>2, <1>3

\* A navigation begins; the answer to the last one finds nobody.
LEMMA OpenStep ==
  ASSUME Browsing, NEW u \in Urls, NEW form \in BOOLEAN, Open(u, form)
  PROVE  Browsing'
<1>1. /\ target' = [url |-> u, form |-> form] /\ waited' = 0 /\ submitted' = 0 /\ files' = files
      /\ wire_link' \in {wire_link, NoLink}
  BY DEF Open
<1>2. \/ receipt' = "NONE" /\ request' = NoRequest
      \/ receipt' = "PENDING"
         /\ request' = [for |-> u, form |-> form, state |-> "sent", version |-> 0]
  BY DEF Open, Forget
<1>3. phase' \in {"COMPLETE", "REQUEST", "FAILED", "PATH"}
  BY DEF Open
<1>4. UNCHANGED page \/ (page'.url = u /\ page'.of = u)
  BY DEF Open
<1>5. Cached(cache')
  <2>1. cache' = cache \/ \E urls : cache' = Without(cache, urls)
    BY Zenon DEF Open
  <2>2. Cached(cache)
    BY Zenon DEF Browsing
  <2>3. ASSUME NEW urls, cache' = Without(cache, urls) PROVE Cached(cache')
    BY Zenon, <2>2, <2>3, WithoutCached
  <2> QED
    BY Zenon, <2>1, <2>2, <2>3
<1>6. Shapes'
  <2>1. request' \in [for : Urls \cup {"none"}, form : BOOLEAN,
                      state : {"none", "sent", "answered", "unanswered"}, version : Int]
    <3>1. PICK sent : sent = [for |-> u, form |-> form, state |-> "sent", version |-> 0]
      BY Zenon
    <3>2. sent \in [for : Urls \cup {"none"}, form : BOOLEAN,
                    state : {"none", "sent", "answered", "unanswered"}, version : Int]
      BY <3>1
    <3>3. NoRequest \in [for : Urls \cup {"none"}, form : BOOLEAN,
                         state : {"none", "sent", "answered", "unanswered"}, version : Int]
      BY DEF NoRequest
    <3> QED
      BY Zenon, <1>2, <3>1, <3>2, <3>3
  <2>2. target' \in [url : Urls \cup {"none"}, form : BOOLEAN]
    BY <1>1
  <2>3. wire_link' = [to |-> wire_link'.to, state |-> wire_link'.state]
        /\ wire_link'.to \in Hosts \cup {"none"}
        /\ wire_link'.state \in {"NONE", "PENDING", "ACTIVE", "CLOSED"}
    BY <1>1 DEF NoLink, Browsing, Shapes
  <2>4. page'.url \in Urls \cup {"none"}
    BY <1>4, Zenon DEF Browsing, Shapes
  <2> QED
    BY <1>1, <1>2, <1>3, <2>1, <2>2, <2>3, <2>4, BrowserConfig DEF Browsing, Shapes, Settled
<1>7. Asked'
  BY <1>1, <1>2 DEF Asked, NoRequest
<1>8. PageTrue' /\ SubmittedOnce'
  BY <1>1, <1>4 DEF Browsing, PageTrue, SubmittedOnce
<1> QED
  BY <1>5, <1>6, <1>7, <1>8 DEF Browsing, Cached

\* The request ends without an answer, or the link with it.
LEMMA EndSteps ==
  ASSUME Browsing, Cancel \/ LinkDown \/ RequestFails
  PROVE  Browsing'
<1>1. /\ UNCHANGED <<target, waited, page, cache, files, submitted>>
      /\ phase' \in {"CANCELLED", "FAILED", phase}
  BY DEF Cancel, LinkDown, RequestFails, Failed
<1>2. \/ receipt' = "OVER" /\ request' = NoRequest
      \/ receipt # "PENDING" /\ receipt' = receipt /\ request' \in {request, NoRequest}
  BY DEF Cancel, LinkDown, RequestFails
<1>3. /\ wire_link' = [to |-> wire_link.to, state |-> wire_link'.state]
      /\ wire_link' = wire_link \/ (wire_link.state # "NONE" /\ wire_link'.state = "CLOSED")
  BY DEF Browsing, Shapes, Cancel, LinkDown, RequestFails
<1>4. NoRequest \in [for : Urls \cup {"none"}, form : BOOLEAN,
                     state : {"none", "sent", "answered", "unanswered"}, version : Int]
      /\ NoRequest.state = "none"
  BY DEF NoRequest
<1>5. Shapes'
  BY <1>1, <1>2, <1>3, <1>4 DEF Browsing, Shapes, Settled
<1>6. Asked'
  <2>1. wire_link'.state # "NONE" \/ phase' = "PATH" => target'.url \in Urls
    BY <1>1, <1>3 DEF Browsing, Asked
  <2>2. request'.state = "none"
    BY <1>2, <1>4 DEF Browsing, Asked
  <2>3. receipt' = "NONE" => submitted' = 0
    BY <1>1, <1>2 DEF Browsing, Asked
  <2> QED
    BY <2>1, <2>2, <2>3, Zenon DEF Asked
<1> QED
  BY <1>1, <1>5, <1>6, Untouched

\* The node answers the request or not; it counts what was submitted to it.
LEMMA ServeStep ==
  ASSUME Browsing, Serve
  PROVE  Browsing'
<1>1. /\ UNCHANGED <<phase, target, receipt, waited, wire_link, page, cache, files>>
      /\ request.state = "sent" /\ request.for \in Urls /\ submitted = 0
  BY DEF Serve, navVars, Browsing, Asked
<1>2. PICK content \in Contents(request.for) :
        /\ submitted' = 0 \/ submitted' = 1
        /\ request' \in {AnsweredWith(content), AnsweredWith(Denied), Unanswered}
  BY <1>1 DEF Serve
<1>3. content \in Int
  BY <1>1, <1>2 DEF Contents, Unread, Browsing, Shapes
<1>4. request \in [for : Urls \cup {"none"}, form : BOOLEAN,
                   state : {"none", "sent", "answered", "unanswered"}, version : Int]
  BY Zenon DEF Browsing, Shapes
<1>5. /\ request' \in [for : Urls \cup {"none"}, form : BOOLEAN,
                       state : {"none", "sent", "answered", "unanswered"}, version : Int]
      /\ request'.state # "sent" /\ request'.for = request.for
  <2>1. CASE request' = Unanswered
    BY <1>4, <2>1 DEF Unanswered
  <2>2. ASSUME NEW v \in Int, request' = AnsweredWith(v)
        PROVE  /\ request' \in [for : Urls \cup {"none"}, form : BOOLEAN,
                                state : {"none", "sent", "answered", "unanswered"}, version : Int]
               /\ request'.state # "sent" /\ request'.for = request.for
    BY <1>4, <2>2, Zenon DEF AnsweredWith
  <2>3. Denied \in Int
    BY DEF Denied
  <2> QED
    BY Zenon, <1>2, <1>3, <2>1, <2>2, <2>3
<1>6. Shapes'
  BY <1>1, <1>2, <1>5 DEF Browsing, Shapes
<1>7. Asked' /\ SubmittedOnce' /\ PageTrue' /\ Cached(cache')
  BY <1>1, <1>2, <1>5 DEF Browsing, Asked, SubmittedOnce, PageTrue
<1> QED
  BY <1>6, <1>7 DEF Browsing, Cached

\* The answer is shown under the address it was asked for.
LEMMA RespondStep ==
  ASSUME Browsing, Respond
  PROVE  Browsing'
<1>1. /\ UNCHANGED <<target, waited, wire_link, files, submitted>>
      /\ request' = NoRequest /\ receipt' = "OVER"
      /\ request.for = target.url /\ target.url \in Urls /\ request.version \in Int
      /\ phase' \in {"COMPLETE", "FAILED", phase}
  BY DEF Respond, Browsing, Asked, Shapes, Commit, Failed
<1>2. UNCHANGED page \/ (page'.url = target.url /\ page'.of = request.for)
  BY DEF Respond, Commit
<1>3. cache' = cache \/ cache' \in Stores(cache, target.url, request.version)
  BY DEF Respond
<1>4. Cached(cache')
  BY <1>1, <1>3, StoresCached DEF Browsing
<1>5. Shapes'
  BY <1>1, <1>2 DEF Browsing, Shapes, NoRequest, Settled
<1>6. Asked' /\ PageTrue' /\ SubmittedOnce'
  BY <1>1, <1>2, Zenon DEF Browsing, Asked, PageTrue, SubmittedOnce, NoRequest
<1> QED
  BY <1>4, <1>5, <1>6, Zenon DEF Browsing, Cached

LEMMA OtherSteps ==
  ASSUME Browsing,
         \/ BrowserPoll \/ ClearCache \/ TimePasses \/ UNCHANGED browserVars
         \/ \E u \in Urls : Edit(u)
  PROVE  Browsing'
<1>1. CASE BrowserPoll
  <2>1. /\ target.url \in Urls /\ UNCHANGED <<target, receipt, waited, request, page, cache, files, submitted>>
        /\ phase' \in {"FAILED", "LINK"}
        /\ wire_link' = wire_link \/ wire_link' = [to |-> NodeOf[target.url], state |-> "PENDING"]
    BY <1>1 DEF BrowserPoll, Browsing, Asked
  <2>3. NodeOf[target.url] \in Hosts
    BY <2>1, Zenon DEF Hosts
  <2>2. Shapes' /\ Asked'
    BY <2>1, <2>3 DEF Browsing, Shapes, Asked, Settled
  <2> QED
    BY <2>1, <2>2, Untouched
<1>2. CASE ClearCache
  <2>1. UNCHANGED <<navVars, wire_link, request, page, files, submitted>>
    BY <1>2 DEF ClearCache
  <2>2. Cached(cache')
    BY <1>2, WithoutCached, Zenon DEF ClearCache, Browsing
  <2>3. Shapes' /\ Asked' /\ PageTrue' /\ SubmittedOnce'
    BY <2>1 DEF Browsing, Shapes, Asked, PageTrue, SubmittedOnce, navVars
  <2> QED
    BY <2>2, <2>3, Zenon DEF Browsing, Cached
<1>3. CASE TimePasses
  <2>1. /\ UNCHANGED <<phase, target, receipt, wire_link, request, page, files, submitted>>
        /\ waited' \in 0 .. PathTimeout
    BY <1>3, BrowserConfig DEF TimePasses, Browsing, Shapes
  <2>2. Cached(cache')
    BY <1>3, AgedCached, Zenon DEF TimePasses, Browsing
  <2>3. Shapes' /\ Asked' /\ PageTrue' /\ SubmittedOnce'
    BY <2>1 DEF Browsing, Shapes, Asked, PageTrue, SubmittedOnce
  <2> QED
    BY <2>2, <2>3, Zenon DEF Browsing, Cached
<1>4. ASSUME NEW u \in Urls, Edit(u) PROVE Browsing'
  <2>1. /\ UNCHANGED <<navVars, wire_link, request, page, cache, submitted>>
        /\ files' \in [Urls -> Int]
    BY <1>4 DEF Edit, Browsing, Shapes
  <2>2. Shapes' /\ Asked'
    BY <2>1 DEF Browsing, Shapes, Asked, navVars
  <2> QED
    BY Zenon, <2>1, <2>2, Untouched
<1>5. CASE UNCHANGED browserVars
  BY <1>5 DEF browserVars, navVars, Browsing, Shapes, Asked, PageTrue, SubmittedOnce, Cached
<1> QED
  BY <1>1, <1>2, <1>3, <1>4, <1>5

-----------------------------------------------------------------------------
\* Whatever is opened, cancelled and answered late: the page on show is the one
\* its address names (response_received shows it under browser->url), a form
\* reaches the node at most once for each time it is submitted (link_changed asks
\* only without a receipt), and the cache holds no more pages than it has slots
\* (cache_store evicts before it stores).
THEOREM BrowserIsTrue == BrowserSpec => []BrowserShowsTrue
<1>1. BrowserInit => Browsing
  <2> SUFFICES ASSUME BrowserInit PROVE Browsing
    OBVIOUS
  <2>1. DOMAIN cache = {} /\ Cached(cache)
    <3>1. cache = [u \in {} |-> NoPage]
      BY Zenon DEF BrowserInit
    <3>2. DOMAIN cache = {}
      BY <3>1
    <3>3. Cardinality({}) = 0
      BY FS_EmptySet
    <3> QED
      BY <3>1, <3>2, <3>3, BrowserConfig DEF Cached
  <2>2. Shapes
    BY BrowserConfig DEF BrowserInit, Shapes, NoLink, NoRequest, NoPage, Settled
  <2>3. Asked /\ PageTrue /\ SubmittedOnce
    BY DEF BrowserInit, Asked, NoLink, NoRequest, NoPage, PageTrue, SubmittedOnce
  <2> QED
    BY <2>1, <2>2, <2>3, Zenon DEF Browsing
<1>2. Browsing /\ [BrowserNext]_browserVars => Browsing'
  BY OpenStep, LinkSteps, EndSteps, ServeStep, RespondStep, OtherSteps DEF BrowserNext
<1>3. Browsing => BrowserShowsTrue
  BY Zenon DEF Browsing, BrowserShowsTrue, BrowserTypeOK, Shapes, Cached, Entry
<1> QED
  BY <1>1, <1>2, <1>3, PTL DEF BrowserSpec
==============================================================================
