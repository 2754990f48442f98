-------------------------- MODULE ForwardingProofs ---------------------------
(***************************************************************************)
(* Packets, table entries and proofs tell one story at every transport     *)
(* node, for any network, paths, table sizes and number of packets, links, *)
(* failed sends and lost entries.                                          *)
(***************************************************************************)
EXTENDS Forwarding, SequenceTheorems, TLAPS

\* The packets in the air.  A node that remembers its hashes remembers what it
\* has sent on, so it does not send it on again.
Typed(p) ==
  /\ p \in Packet
  /\ p.kind \in {"data", "proof"} => p.id \in Packets
  /\ p.kind \notin {"data", "proof"} => p.id \in Links
Remembers(p) ==
  p.kind \in {"data", "request"} /\ p.by \notin forgetful \cup {Source}
     => Hash(p) \in dedupe[p.by]
AirOK ==
  /\ \A p \in air : Typed(p) /\ Remembers(p)
  /\ ForwardedOnce /\ ProofsRetrace

\* The tables of the nodes.
TablesOK ==
  /\ reverse \in [Nodes -> Seq(Reverse)] /\ links \in [Nodes -> Seq(Link)]
  /\ \A n \in Nodes : Len(reverse[n]) <= ReverseCapacity /\ Len(links[n]) <= LinkCapacity
  /\ EntriesTrue

\* Everything else.
Hashes == Kinds \X (Packets \cup Links)
RestOK ==
  /\ path \in [Nodes -> (UNION {Routes[n] : n \in Nodes}) \cup {NULL}]
  /\ \A n \in Nodes : path[n] \in Routes[n] \cup {NULL}
  /\ dedupe \in [Nodes -> SUBSET Hashes]
  /\ receipt \in [Packets -> {"NONE", "PENDING", "DELIVERED", "FAILED"}]
  /\ faults \in 0 .. MaxFaults /\ reroutes \in 0 .. MaxReroutes /\ forgetful \subseteq Nodes
EndsOK ==
  /\ ends \in [{Source, Target} -> [Links -> End]]
  /\ \A n \in {Source, Target}, l \in Links : ends[n][l].state # "NONE" => ends[n][l].iface \in Media

Story == AirOK /\ TablesOK /\ RestOK /\ EndsOK

-----------------------------------------------------------------------------
(* The air.                                                                 *)

\* Hashes are forgotten only by a node that counts as forgetful.
Recalls ==
  /\ forgetful \subseteq forgetful'
  /\ \A n \in Nodes : n \in forgetful' \/ dedupe[n] \subseteq dedupe'[n]

LEMMA AirKept ==
  ASSUME AirOK, air' = air, Recalls PROVE AirOK'
<1>1. \A p \in air : p.by \in Nodes
  BY DEF AirOK, Typed, Packet
<1>2. \A p \in air : Typed(p) /\ Remembers(p)'
  BY <1>1, Zenon DEF AirOK, Remembers, Recalls, Hash
<1>3. ForwardedOnce' /\ ProofsRetrace'
  BY DEF AirOK, ForwardedOnce, ProofsRetrace, Recalls, Hash
<1> QED
  BY <1>2, <1>3 DEF AirOK, Typed

\* A packet is sent: for the first time if it is remembered, and where its data
\* came from if it is a proof.
LEMMA AirSent ==
  ASSUME AirOK, Recalls, NEW q, air' = air \cup {q}, Typed(q),
         q.kind \in {"data", "request"} /\ q.by \notin forgetful' \cup {Source}
            => Hash(q) \notin dedupe[q.by] /\ Hash(q) \in dedupe'[q.by],
         q.kind = "proof" =>
            \E d \in air : d.kind = "data" /\ d.id = q.id /\ d.on = q.on /\ d.by # q.by
  PROVE  AirOK'
<1>1. \A p \in air : p.by \in Nodes
  BY DEF AirOK, Typed, Packet
<1>2. \A p \in air : Typed(p) /\ Remembers(p)'
  BY <1>1, Zenon DEF AirOK, Remembers, Recalls, Hash
<1>3. Remembers(q)'
  BY DEF Remembers, Hash
<1>4. ForwardedOnce'
  <2> SUFFICES ASSUME NEW p \in air', NEW r \in air', Hash(p) = Hash(r),
                      p.kind \in {"data", "request"}, p.by = r.by,
                      p.by \notin forgetful' \cup {Source}
               PROVE  p = r
    BY DEF ForwardedOnce, Hash
  <2>1. p.kind = r.kind
    BY DEF Hash
  <2>2. CASE p \in air /\ r \in air
    BY <2>2 DEF AirOK, ForwardedOnce, Recalls
  <2>3. CASE p = q /\ r # q
    <3>1. r \in air /\ Remembers(r)
      BY <2>3 DEF AirOK
    <3>2. Hash(r) \in dedupe[r.by]
      BY <2>1, <3>1 DEF Remembers, Recalls
    <3> QED
      BY <2>3, <3>2
  <2>4. CASE r = q /\ p # q
    <3>1. p \in air /\ Remembers(p)
      BY <2>4 DEF AirOK
    <3>2. Hash(p) \in dedupe[p.by]
      BY <3>1 DEF Remembers, Recalls
    <3> QED
      BY <2>1, <2>4, <3>2
  <2> QED
    BY <2>2, <2>3, <2>4
<1>5. ProofsRetrace'
  BY DEF AirOK, ProofsRetrace
<1> QED
  BY <1>2, <1>3, <1>4, <1>5 DEF AirOK, Typed

-----------------------------------------------------------------------------
(* The tables.                                                              *)

\* A full table gives up its oldest entry for a new one.
LEMMA RecordedTable ==
  ASSUME NEW R, NEW table \in Seq(R), NEW entry \in R, NEW capacity \in Nat \ {0},
         Len(table) <= capacity
  PROVE  /\ Recorded(table, entry, capacity) \in Seq(R)
         /\ Len(Recorded(table, entry, capacity)) <= capacity
         /\ \A i \in DOMAIN Recorded(table, entry, capacity) :
              \/ Recorded(table, entry, capacity)[i] = entry
              \/ \E k \in DOMAIN table : Recorded(table, entry, capacity)[i] = table[k]
<1>1. PICK t : t = IF Len(table) = capacity THEN Tail(table) ELSE table
  BY Zenon
<1>2. /\ t \in Seq(R) /\ Len(t) + 1 <= capacity /\ Len(t) \in Nat
      /\ \A i \in 1 .. Len(t) : \E k \in DOMAIN table : t[i] = table[k]
  <2>1. CASE Len(table) = capacity
    <3>1. table # <<>> /\ Len(table) \in Nat /\ DOMAIN table = 1 .. Len(table)
      BY <2>1
    <3>2. /\ t \in Seq(R) /\ Len(t) = Len(table) - 1
          /\ \A i \in 1 .. Len(t) : t[i] = table[i + 1]
      BY <1>1, <2>1, <3>1
    <3>3. \A i \in 1 .. Len(t) : i + 1 \in DOMAIN table
      BY <3>1, <3>2
    <3> QED
      BY <2>1, <3>1, <3>2, <3>3
  <2>2. CASE Len(table) # capacity
    BY <1>1, <2>2
  <2> QED
    BY <2>1, <2>2
<1>3. PICK u : u = Append(t, entry)
  BY Zenon
<1>4. /\ u \in Seq(R) /\ Len(u) = Len(t) + 1 /\ DOMAIN u = 1 .. Len(t) + 1
      /\ \A i \in 1 .. Len(t) : u[i] = t[i]
      /\ u[Len(t) + 1] = entry
  BY <1>2, <1>3
<1>5. \A i \in DOMAIN u : u[i] = entry \/ \E k \in DOMAIN table : u[i] = table[k]
  <2> SUFFICES ASSUME NEW i \in DOMAIN u, i # Len(t) + 1
               PROVE  \E k \in DOMAIN table : u[i] = table[k]
    BY <1>4
  <2>1. i \in 1 .. Len(t)
    BY <1>2, <1>4
  <2> QED
    BY <1>2, <1>4, <2>1
<1>6. u = Recorded(table, entry, capacity)
  BY <1>1, <1>3 DEF Recorded
<1> QED
  BY <1>2, <1>4, <1>5, <1>6

\* Removing an entry leaves the others.
LEMMA RemovedTable ==
  ASSUME NEW R, NEW table \in Seq(R), NEW i \in DOMAIN table
  PROVE  /\ Removed(table, i) \in Seq(R) /\ Len(Removed(table, i)) <= Len(table)
         /\ \A j \in DOMAIN Removed(table, i) :
              \E k \in DOMAIN table : Removed(table, i)[j] = table[k]
<1>1. PICK n \in Nat : n = Len(table)
  OBVIOUS
<1>2. i \in 1 .. n /\ DOMAIN table = 1 .. n
  BY <1>1
<1>3. PICK a, b : a = SubSeq(table, 1, i - 1) /\ b = SubSeq(table, i + 1, n)
  BY Zenon
<1>4. /\ a \in Seq(R) /\ Len(a) = i - 1
      /\ \A j \in 1 .. i - 1 : a[j] = table[j]
  <2>1. \A j \in 1 .. i - 1 : table[j] \in R
    BY <1>1, <1>2
  <2>2. i - 1 \in Int /\ 1 <= (i - 1) + 1
    BY <1>2
  <2> QED
    BY <1>1, <1>2, <1>3, <2>1, <2>2, SubSeqProperties
<1>5. /\ b \in Seq(R) /\ Len(b) = n - i
      /\ \A j \in 1 .. n - i : b[j] = table[i + j]
  BY <1>1, <1>2, <1>3, SubSeqProperties
<1>6. PICK u : u = a \o b
  BY Zenon
<1>7. /\ u \in Seq(R) /\ Len(u) = Len(a) + Len(b) /\ DOMAIN u = 1 .. Len(u)
      /\ \A j \in 1 .. Len(u) : u[j] = IF j <= Len(a) THEN a[j] ELSE b[j - Len(a)]
  <2>1. /\ u \in Seq(R) /\ Len(u) = Len(a) + Len(b)
        /\ \A j \in 1 .. Len(a) + Len(b) : u[j] = IF j <= Len(a) THEN a[j] ELSE b[j - Len(a)]
    BY <1>4, <1>5, <1>6, ConcatProperties
  <2>2. DOMAIN u = 1 .. Len(u)
    BY <2>1
  <2> QED
    BY <2>1, <2>2
<1>8. \A j \in DOMAIN u : \E k \in DOMAIN table : u[j] = table[k]
  <2> SUFFICES ASSUME NEW j \in 1 .. n - 1 PROVE \E k \in DOMAIN table : u[j] = table[k]
    BY <1>2, <1>4, <1>5, <1>7
  <2>0. j \in 1 .. Len(u) /\ Len(a) = i - 1
    BY <1>2, <1>4, <1>5, <1>7
  <2>1. CASE j <= i - 1
    <3>1. j \in 1 .. i - 1 /\ j \in 1 .. n
      BY <1>2, <2>1
    <3> QED
      BY Zenon, <1>2, <1>4, <1>7, <2>0, <2>1, <3>1
  <2>2. CASE ~(j <= i - 1)
    <3>1. j - (i - 1) \in 1 .. n - i /\ i + (j - (i - 1)) = j + 1 /\ j + 1 \in 1 .. n
      BY <1>2, <2>2
    <3>2. u[j] = b[j - (i - 1)]
      BY <1>7, <2>0, <2>2
    <3> QED
      BY <1>2, <1>5, <3>1, <3>2
  <2> QED
    BY <2>1, <2>2
<1>9. u = Removed(table, i)
  BY <1>1, <1>3, <1>6 DEF Removed
<1>10. Len(u) <= n
  BY <1>2, <1>4, <1>5, <1>7
<1> QED
  BY <1>1, <1>7, <1>8, <1>9, <1>10

\* A packet that passed a node has passed it, whatever is sent later.
PassedIn(A, n, kind, id, received, outbound) ==
  \E p, q \in A : /\ p.kind = kind /\ p.id = id /\ p.on = received /\ p.by # n
                  /\ q.kind = kind /\ q.id = id /\ q.on = outbound /\ q.by = n
                  /\ q.hops = p.hops + 1

LEMMA PassedStays ==
  ASSUME NEW A, NEW B, A \subseteq B, NEW n, NEW kind, NEW id, NEW in, NEW out,
         PassedIn(A, n, kind, id, in, out)
  PROVE  PassedIn(B, n, kind, id, in, out)
BY DEF PassedIn

\* The entries of the tables, by what is in the air.
LEMMA EntriesAre ==
  ASSUME EntriesTrue, NEW n \in Nodes
  PROVE  /\ \A i \in DOMAIN reverse[n] : PassedIn(air, n, "data", reverse[n][i].id,
                                        reverse[n][i].received, reverse[n][i].outbound)
         /\ \A i \in DOMAIN links[n] : PassedIn(air, n, "request", links[n][i].id,
                                        links[n][i].received, links[n][i].next)
BY DEF EntriesTrue, Passed, PassedIn

LEMMA AreEntries ==
  ASSUME \A n \in Nodes :
           /\ \A i \in DOMAIN reverse'[n] : PassedIn(air', n, "data", reverse'[n][i].id,
                                          reverse'[n][i].received, reverse'[n][i].outbound)
           /\ \A i \in DOMAIN links'[n] : PassedIn(air', n, "request", links'[n][i].id,
                                          links'[n][i].received, links'[n][i].next)
  PROVE  EntriesTrue'
BY DEF EntriesTrue, Passed, PassedIn

LEMMA TablesKept ==
  ASSUME TablesOK, UNCHANGED <<reverse, links>>, air \subseteq air' PROVE TablesOK'
<1>1. EntriesTrue'
  BY EntriesAre, AreEntries, PassedStays DEF TablesOK
<1> QED
  BY <1>1 DEF TablesOK

\* One node's reverse table changes: its entries are old, or tell of a packet
\* that has passed now.
LEMMA ReverseChanged ==
  ASSUME TablesOK, links' = links, air \subseteq air', NEW n \in Nodes, NEW table \in Seq(Reverse),
         Len(table) <= ReverseCapacity, reverse' = [reverse EXCEPT ![n] = table],
         \A i \in DOMAIN table :
            \/ \E k \in DOMAIN reverse[n] : table[i] = reverse[n][k]
            \/ PassedIn(air', n, "data", table[i].id, table[i].received, table[i].outbound)
  PROVE  TablesOK'
<1>1. /\ reverse' \in [Nodes -> Seq(Reverse)] /\ links' \in [Nodes -> Seq(Link)]
      /\ \A m \in Nodes : Len(reverse'[m]) <= ReverseCapacity /\ Len(links'[m]) <= LinkCapacity
      /\ reverse'[n] = table /\ \A m \in Nodes : m # n => reverse'[m] = reverse[m]
  BY DEF TablesOK
<1>2. ASSUME NEW m \in Nodes, NEW i \in DOMAIN reverse'[m]
      PROVE  PassedIn(air', m, "data", reverse'[m][i].id, reverse'[m][i].received,
                    reverse'[m][i].outbound)
  <2>1. CASE m # n
    BY <1>1, <2>1, EntriesAre, PassedStays DEF TablesOK
  <2>2. CASE m = n
    <3>1. i \in DOMAIN table /\ reverse'[m][i] = table[i]
      BY <1>1, <2>2
    <3>2. ASSUME NEW k \in DOMAIN reverse[n], table[i] = reverse[n][k]
          PROVE  PassedIn(air', n, "data", table[i].id, table[i].received, table[i].outbound)
      BY <3>2, EntriesAre, PassedStays DEF TablesOK
    <3> QED
      BY <2>2, <3>1, <3>2
  <2> QED
    BY <2>1, <2>2
<1>3. ASSUME NEW m \in Nodes, NEW i \in DOMAIN links'[m]
      PROVE  PassedIn(air', m, "request", links'[m][i].id, links'[m][i].received, links'[m][i].next)
  BY EntriesAre, PassedStays DEF TablesOK
<1>4. EntriesTrue'
  BY <1>2, <1>3, AreEntries
<1> QED
  BY <1>1, <1>4 DEF TablesOK

LEMMA LinksChanged ==
  ASSUME TablesOK, reverse' = reverse, air \subseteq air', NEW n \in Nodes, NEW table \in Seq(Link),
         Len(table) <= LinkCapacity, links' = [links EXCEPT ![n] = table],
         \A i \in DOMAIN table :
            \/ \E k \in DOMAIN links[n] :
                  /\ table[i].id = links[n][k].id /\ table[i].received = links[n][k].received
                  /\ table[i].next = links[n][k].next
            \/ PassedIn(air', n, "request", table[i].id, table[i].received, table[i].next)
  PROVE  TablesOK'
<1>1. /\ reverse' \in [Nodes -> Seq(Reverse)] /\ links' \in [Nodes -> Seq(Link)]
      /\ \A m \in Nodes : Len(reverse'[m]) <= ReverseCapacity /\ Len(links'[m]) <= LinkCapacity
      /\ links'[n] = table /\ \A m \in Nodes : m # n => links'[m] = links[m]
  BY DEF TablesOK
<1>2. ASSUME NEW m \in Nodes, NEW i \in DOMAIN links'[m]
      PROVE  PassedIn(air', m, "request", links'[m][i].id, links'[m][i].received, links'[m][i].next)
  <2>1. CASE m # n
    BY <1>1, <2>1, EntriesAre, PassedStays DEF TablesOK
  <2>2. CASE m = n
    <3>1. i \in DOMAIN table /\ links'[m][i] = table[i]
      BY <1>1, <2>2
    <3>2. ASSUME NEW k \in DOMAIN links[n], table[i].id = links[n][k].id,
                 table[i].received = links[n][k].received, table[i].next = links[n][k].next
          PROVE  PassedIn(air', n, "request", table[i].id, table[i].received, table[i].next)
      BY <3>2, EntriesAre, PassedStays DEF TablesOK
    <3> QED
      BY <2>2, <3>1, <3>2
  <2> QED
    BY <2>1, <2>2
<1>3. ASSUME NEW m \in Nodes, NEW i \in DOMAIN reverse'[m]
      PROVE  PassedIn(air', m, "data", reverse'[m][i].id, reverse'[m][i].received,
                    reverse'[m][i].outbound)
  BY EntriesAre, PassedStays DEF TablesOK
<1>4. EntriesTrue'
  BY <1>2, <1>3, AreEntries
<1> QED
  BY <1>1, <1>4 DEF TablesOK

-----------------------------------------------------------------------------
(* What does not touch the tables: the two ends and the paths.              *)

\* The hash of a packet is remembered.
LEMMA RememberStep ==
  ASSUME RestOK, NEW n \in Nodes, NEW p, Typed(p), Remember(n, p), forgetful' = forgetful
  PROVE  /\ dedupe' \in [Nodes -> SUBSET Hashes] /\ Recalls
         /\ Hash(p) \in dedupe'[n]
<1>1. Hash(p) \in Hashes
  BY DEF Hash, Hashes, Typed, Packet
<1>2. dedupe' = [dedupe EXCEPT ![n] = dedupe[n] \cup {Hash(p)}] /\ dedupe \in [Nodes -> SUBSET Hashes]
  BY DEF Remember, RestOK
<1> QED
  BY <1>1, <1>2 DEF Recalls

\* A packet or a link request of the source.
LEMMA LaunchStep ==
  ASSUME AirOK, RestOK, NEW kind, NEW id, Launch(kind, id), UNCHANGED <<dedupe, forgetful>>,
         (kind = "data" /\ id \in Packets) \/ (kind = "request" /\ id \in Links)
  PROVE  AirOK' /\ air \subseteq air' /\ path[Source].iface \in Media
<1>1. path[Source] \in [next_hop : Nodes, iface : Media, hops : Nat \ {0}] /\ Source \in Nodes
  BY ForwardingConfig DEF RestOK, Launch
<1>2. PICK q : q = [kind |-> kind, id |-> id, on |-> path[Source].iface, by |-> Source,
                    to |-> Along(path[Source]), hops |-> 0]
  BY Zenon
<1>3. Along(path[Source]) \in Nodes \cup {NULL} /\ 0 \in 0 .. MaxHops /\ kind \in Kinds
      /\ path[Source].iface \in Media /\ id \in Packets \cup Links
  BY <1>1, ForwardingConfig DEF Along, Kinds
<1>4. q \in Packet /\ q.kind = kind /\ q.id = id /\ q.by = Source
  BY <1>1, <1>2, <1>3 DEF Packet
<1>5. Typed(q) /\ q.kind # "proof"
  BY <1>4 DEF Typed
<1>6. air' = air \cup {q}
  BY <1>2 DEF Launch
<1>7. Recalls
  BY DEF Recalls
<1> QED
  BY <1>3, <1>4, <1>5, <1>6, <1>7, AirSent

LEMMA SendRoutedStep ==
  ASSUME Story, NEW id \in Packets, SendRouted(id) PROVE Story'
<1>1. AirOK' /\ air \subseteq air'
  BY LaunchStep DEF SendRouted, Story, tables
<1>2. TablesOK'
  BY <1>1, TablesKept DEF SendRouted, Story, tables
<1>3. RestOK'
  BY DEF SendRouted, Story, tables, RestOK
<1>4. EndsOK'
  BY DEF SendRouted, Story, EndsOK
<1> QED
  BY <1>1, <1>2, <1>3, <1>4 DEF Story

LEMMA LinkOpenStep ==
  ASSUME Story, NEW id \in Links, LinkOpen(id) PROVE Story'
<1>1. AirOK' /\ air \subseteq air' /\ path[Source].iface \in Media
  BY LaunchStep DEF LinkOpen, Story, tables
<1>2. TablesOK'
  BY <1>1, TablesKept DEF LinkOpen, Story, tables
<1>3. RestOK'
  BY DEF LinkOpen, Story, tables, RestOK
<1>4. EndsOK'
  <2>1. PICK e : e = [state |-> "PENDING", iface |-> path[Source].iface]
    BY Zenon
  <2>2. e \in End /\ e.iface \in Media
    BY <1>1, <2>1 DEF End
  <2>3. ends' = [ends EXCEPT ![Source][id] = e]
    BY <2>1 DEF LinkOpen
  <2> QED
    BY <2>2, <2>3 DEF Story, EndsOK
<1> QED
  BY <1>1, <1>2, <1>3, <1>4 DEF Story

\* A packet that an end of a link sends on it.
LEMMA EndSends ==
  ASSUME AirOK, Recalls, NEW kind \in {"lrproof", "up", "down"}, NEW id \in Links,
         NEW on \in Media, NEW by \in Nodes,
         air' = air \cup {[kind |-> kind, id |-> id, on |-> on, by |-> by, to |-> NULL, hops |-> 0]}
  PROVE  AirOK' /\ air \subseteq air'
<1>1. PICK q : q = [kind |-> kind, id |-> id, on |-> on, by |-> by, to |-> NULL, hops |-> 0]
  BY Zenon
<1>2. 0 \in 0 .. MaxHops /\ kind \in Kinds
  BY ForwardingConfig DEF Kinds
<1>3. q \in Packet /\ q.kind = kind /\ q.id = id
  BY <1>1, <1>2 DEF Packet
<1>4. Typed(q) /\ q.kind \notin {"data", "request", "proof"}
  BY <1>3 DEF Typed
<1> QED
  BY <1>1, <1>4, AirSent

\* The target takes a packet and proves it where it came from.
LEMMA DeliverDataStep ==
  ASSUME Story, NEW p \in air, DeliverData(p) PROVE Story'
<1>1. /\ Remember(Target, p) /\ p.kind = "data" /\ p.by # Target
      /\ UNCHANGED <<path, reverse, links, receipt, ends, faults, reroutes, forgetful>>
  BY DEF DeliverData, Heard
<1>2. Typed(p) /\ Target \in Nodes /\ p.on \in Media /\ p.id \in Packets
  BY <1>1, ForwardingConfig DEF Story, AirOK, Typed, Packet
<1>3. dedupe' \in [Nodes -> SUBSET Hashes] /\ Recalls
  BY <1>1, <1>2, RememberStep DEF Story
<1>4. PICK q : q = [kind |-> "proof", id |-> p.id, on |-> p.on, by |-> Target, to |-> NULL,
                    hops |-> 0]
  BY Zenon
<1>5. 0 \in 0 .. MaxHops /\ "proof" \in Kinds
  BY ForwardingConfig DEF Kinds
<1>6. /\ q \in Packet /\ q.kind = "proof" /\ q.id = p.id /\ q.on = p.on /\ q.by = Target
      /\ air' = air \cup {q}
  BY <1>2, <1>4, <1>5 DEF Packet, DeliverData
<1>7. Typed(q)
  BY <1>2, <1>6 DEF Typed
<1>8. AirOK'
  BY <1>1, <1>3, <1>6, <1>7, AirSent DEF Story
<1>9. TablesOK' /\ EndsOK'
  BY <1>1, <1>6, TablesKept DEF Story, EndsOK
<1>10. RestOK'
  BY <1>1, <1>3 DEF Story, RestOK
<1> QED
  BY <1>8, <1>9, <1>10 DEF Story

LEMMA AcceptLinkStep ==
  ASSUME Story, NEW p \in air, AcceptLink(p) PROVE Story'
<1>1. /\ Remember(Target, p) /\ p.kind = "request"
      /\ UNCHANGED <<path, reverse, links, receipt, faults, reroutes, forgetful>>
      /\ ends' = [ends EXCEPT ![Target][p.id] = [state |-> "HANDSHAKE", iface |-> p.on]]
      /\ air' = air \cup {[kind |-> "lrproof", id |-> p.id, on |-> p.on, by |-> Target,
                           to |-> NULL, hops |-> 0]}
  BY DEF AcceptLink
<1>2. Typed(p) /\ Target \in Nodes /\ p.on \in Media /\ p.id \in Links
  BY <1>1, ForwardingConfig DEF Story, AirOK, Typed, Packet
<1>3. dedupe' \in [Nodes -> SUBSET Hashes] /\ Recalls
  BY <1>1, <1>2, RememberStep DEF Story
<1>4. AirOK' /\ air \subseteq air'
  BY <1>1, <1>2, <1>3, EndSends DEF Story
<1>5. TablesOK'
  BY <1>1, <1>4, TablesKept DEF Story
<1>6. RestOK'
  BY <1>1, <1>3 DEF Story, RestOK
<1>7. EndsOK'
  <2>1. PICK e : e = [state |-> "HANDSHAKE", iface |-> p.on]
    BY Zenon
  <2>2. e \in End /\ e.iface \in Media /\ ends' = [ends EXCEPT ![Target][p.id] = e]
    BY <1>1, <1>2, <2>1 DEF End
  <2> QED
    BY <1>2, <2>2 DEF Story, EndsOK
<1> QED
  BY <1>4, <1>5, <1>6, <1>7 DEF Story

\* The state of an end changes; its interface stays.
LEMMA EndChanges ==
  ASSUME EndsOK, NEW n \in {Source, Target}, NEW l \in Links, ends[n][l].state # "NONE",
         NEW state \in {"ACTIVE", "CLOSED"}, ends' = [ends EXCEPT ![n][l].state = state]
  PROVE  EndsOK'
<1>1. ends[n][l] \in End /\ ends[n][l].iface \in Media
  BY DEF EndsOK
<1>2. PICK e : e = [ends[n][l] EXCEPT !.state = state]
  BY Zenon
<1>3. e \in End /\ e.iface \in Media
  BY <1>1, <1>2 DEF End
<1>4. ends' = [ends EXCEPT ![n][l] = e]
  BY <1>2 DEF EndsOK
<1> QED
  BY <1>3, <1>4 DEF EndsOK

LEMMA LinkIngressStep ==
  ASSUME Story, NEW n \in {Source, Target}, NEW p \in air, LinkIngress(n, p) PROVE Story'
<1>1. /\ Remember(n, p) /\ p.kind \in {"lrproof", "up", "down"} /\ p.id \in Links
      /\ ends[n][p.id].state # "NONE"
      /\ UNCHANGED <<path, reverse, links, receipt, faults, reroutes, forgetful>>
  BY DEF LinkIngress
<1>2. Typed(p) /\ n \in Nodes /\ p.on \in Media
  BY ForwardingConfig DEF Story, AirOK, Typed, Packet
<1>3. dedupe' \in [Nodes -> SUBSET Hashes] /\ Recalls
  BY <1>1, <1>2, RememberStep DEF Story
<1>4. AirOK' /\ air \subseteq air'
  <2>1. \/ air' = air
        \/ air' = air \cup {[kind |-> "up", id |-> p.id, on |-> p.on, by |-> n, to |-> NULL,
                             hops |-> 0]}
    BY DEF LinkIngress
  <2>2. CASE air' = air
    BY <1>3, <2>2, AirKept DEF Story
  <2>3. CASE air' = air \cup {[kind |-> "up", id |-> p.id, on |-> p.on, by |-> n, to |-> NULL,
                               hops |-> 0]}
    BY <1>1, <1>2, <1>3, <2>3, EndSends DEF Story
  <2> QED
    BY <2>1, <2>2, <2>3
<1>5. EndsOK'
  <2>1. \/ ends' = ends
        \/ \E state \in {"ACTIVE", "CLOSED"} : ends' = [ends EXCEPT ![n][p.id].state = state]
    BY DEF LinkIngress
  <2>2. CASE ends' = ends
    BY <2>2 DEF Story, EndsOK
  <2> QED
    BY <1>1, <2>1, <2>2, EndChanges DEF Story
<1>6. TablesOK'
  BY <1>1, <1>4, TablesKept DEF Story
<1>7. RestOK'
  BY <1>1, <1>3 DEF Story, RestOK
<1> QED
  BY <1>4, <1>5, <1>6, <1>7 DEF Story

LEMMA LinkSendStep ==
  ASSUME Story, NEW id \in Links, LinkSend(id) PROVE Story'
<1>1. /\ UNCHANGED <<path, dedupe, reverse, links, receipt, ends, faults, reroutes, forgetful>>
      /\ air' = air \cup {[kind |-> "down", id |-> id, on |-> ends[Target][id].iface, by |-> Target,
                           to |-> NULL, hops |-> 0]}
      /\ ends[Target][id].state # "NONE"
  BY DEF LinkSend, tables
<1>2. ends[Target][id].iface \in Media /\ Target \in Nodes
  BY <1>1, ForwardingConfig DEF Story, EndsOK
<1>3. Recalls
  BY <1>1 DEF Recalls
<1>4. AirOK' /\ air \subseteq air'
  BY <1>1, <1>2, <1>3, EndSends DEF Story
<1>5. TablesOK'
  BY <1>1, <1>4, TablesKept DEF Story
<1> QED
  BY <1>1, <1>4, <1>5 DEF Story, RestOK, EndsOK

\* The rest that leaves the tables and the air alone.
LEMMA QuietStep ==
  ASSUME Story, air' = air, UNCHANGED <<reverse, links, ends>>, RestOK', Recalls PROVE Story'
<1>1. AirOK' /\ TablesOK'
  BY AirKept, TablesKept DEF Story
<1> QED
  BY <1>1 DEF Story, EndsOK

LEMMA FaultCounted ==
  ASSUME RestOK, faults' = faults \/ Fault PROVE faults' \in 0 .. MaxFaults
BY ForwardingConfig DEF RestOK, Fault

LEMMA QuietSteps ==
  ASSUME Story,
         \/ \E n \in Nodes, p \in air : NoPath(n, p)
         \/ \E p \in air : ProofArrives(p)
         \/ \E n \in Nodes : \E e \in Routes[n] \cup {NULL} : Reroute(n, e)
         \/ \E n \in Nodes : \E h \in dedupe[n] : LoseHash(n, h)
         \/ \E id \in Packets : ReceiptTimeout(id)
         \/ UNCHANGED vars
  PROVE  Story'
<1>1. ASSUME NEW n \in Nodes, NEW p \in air, NoPath(n, p) PROVE Story'
  <2>1. /\ Remember(n, p)
        /\ UNCHANGED <<path, reverse, links, air, receipt, ends, faults, reroutes, forgetful>>
    BY <1>1 DEF NoPath
  <2>2. dedupe' \in [Nodes -> SUBSET Hashes] /\ Recalls
    BY <2>1, RememberStep DEF Story, AirOK
  <2>3. RestOK'
    BY <2>1, <2>2 DEF Story, RestOK
  <2> QED
    BY <2>1, <2>2, <2>3, QuietStep
<1>2. ASSUME NEW p \in air, ProofArrives(p) PROVE Story'
  <2>1. /\ receipt' = [receipt EXCEPT ![p.id] = "DELIVERED"]
        /\ UNCHANGED <<path, dedupe, reverse, links, air, ends, faults, reroutes, forgetful>>
    BY <1>2 DEF ProofArrives, tables
  <2>2. RestOK' /\ Recalls
    BY <2>1, Zenon DEF Story, RestOK, Recalls
  <2> QED
    BY <2>1, <2>2, QuietStep
<1>3. ASSUME NEW n \in Nodes, NEW e \in Routes[n] \cup {NULL}, Reroute(n, e) PROVE Story'
  <2>1. /\ path' = [path EXCEPT ![n] = e] /\ reroutes' \in 0 .. MaxReroutes
        /\ UNCHANGED <<dedupe, reverse, links, air, receipt, ends, faults, forgetful>>
    <3>1. /\ path' = [path EXCEPT ![n] = e] /\ reroutes < MaxReroutes /\ reroutes' = reroutes + 1
          /\ UNCHANGED <<dedupe, reverse, links, air, receipt, ends, faults, forgetful>>
      BY <1>3 DEF Reroute, tables
    <3>2. reroutes \in 0 .. MaxReroutes /\ MaxReroutes \in Nat
      BY ForwardingConfig DEF Story, RestOK
    <3> QED
      BY <3>1, <3>2
  <2>2. PICK T : T = (UNION {Routes[m] : m \in Nodes}) \cup {NULL}
    BY Zenon
  <2>3. e \in T /\ path \in [Nodes -> T] /\ \A m \in Nodes : path[m] \in Routes[m] \cup {NULL}
    BY <2>2 DEF Story, RestOK
  <2>4. path' \in [Nodes -> T] /\ \A m \in Nodes : path'[m] \in Routes[m] \cup {NULL}
    BY <2>1, <2>3
  <2>5. RestOK' /\ Recalls
    BY <2>1, <2>2, <2>4 DEF Story, RestOK, Recalls
  <2> QED
    BY <2>1, <2>5, QuietStep
<1>4. ASSUME NEW n \in Nodes, NEW h \in dedupe[n], LoseHash(n, h) PROVE Story'
  <2>1. /\ dedupe' = [dedupe EXCEPT ![n] = dedupe[n] \ {h}] /\ forgetful' = forgetful \cup {n}
        /\ UNCHANGED <<path, reverse, links, air, receipt, ends, reroutes>>
        /\ faults' \in 0 .. MaxFaults
    BY <1>4, FaultCounted DEF LoseHash, Story
  <2>2. RestOK' /\ Recalls
    BY <2>1 DEF Story, RestOK, Recalls
  <2> QED
    BY <2>1, <2>2, QuietStep
<1>5. ASSUME NEW id \in Packets, ReceiptTimeout(id) PROVE Story'
  <2>1. /\ receipt' = [receipt EXCEPT ![id] = "FAILED"] /\ faults' \in 0 .. MaxFaults
        /\ UNCHANGED <<path, dedupe, reverse, links, air, ends, reroutes, forgetful>>
    BY <1>5, FaultCounted DEF ReceiptTimeout, tables, Story
  <2>2. RestOK' /\ Recalls
    BY <2>1 DEF Story, RestOK, Recalls
  <2> QED
    BY <2>1, <2>2, QuietStep
<1>6. CASE UNCHANGED vars
  <2>1. RestOK' /\ Recalls
    BY <1>6 DEF Story, RestOK, Recalls, vars
  <2> QED
    BY <1>6, <2>1, QuietStep DEF vars
<1> QED
  BY <1>1, <1>2, <1>3, <1>4, <1>5, <1>6

-----------------------------------------------------------------------------
(* The nodes in between.                                                    *)

LEMMA SendsCounted ==
  ASSUME RestOK, NEW n, NEW sent, Sends(n, sent) PROVE faults' \in 0 .. MaxFaults
BY FaultCounted DEF Sends

\* A packet that may travel on, and the packet q that node n then sends.
Travels(p) == Typed(p) /\ p.hops < MaxHops
SentOn(p, q, on, n, to) ==
  \/ q = [p EXCEPT !.on = on, !.by = n, !.to = to, !.hops = @ + 1]
  \/ q = [p EXCEPT !.on = on, !.by = n, !.hops = @ + 1]

\* A packet on its way from one medium to the next.
LEMMA Relayed ==
  ASSUME NEW p, Travels(p), NEW on \in Media, NEW n \in Nodes,
         NEW to \in Nodes \cup {NULL}, NEW q, SentOn(p, q, on, n, to)
  PROVE  /\ Typed(q) /\ q.kind = p.kind /\ q.id = p.id /\ q.on = on /\ q.by = n
         /\ q.hops = p.hops + 1 /\ Hash(q) = Hash(p)
<1>1. p \in Packet /\ Typed(p) /\ p.hops + 1 \in 0 .. MaxHops
  BY ForwardingConfig DEF Travels, Typed, Packet
<1>2. /\ q \in Packet /\ q.kind = p.kind /\ q.id = p.id /\ q.on = on /\ q.by = n
      /\ q.hops = p.hops + 1
  BY <1>1, Zenon DEF Packet, SentOn
<1> QED
  BY <1>1, <1>2 DEF Typed, Hash

\* A node that was not forgetful has not sent a fresh packet on.
LEMMA FreshSent ==
  ASSUME AirOK, Recalls, forgetful' = forgetful, NEW p \in air, NEW n \in Nodes, Fresh(n, p),
         Hash(p) \in dedupe'[n], p.kind \in {"data", "request"}, NEW q, Typed(q), q.kind = p.kind,
         q.by = n, Hash(q) = Hash(p), air' = air \cup {q}
  PROVE  AirOK' /\ air \subseteq air'
<1>1. Hash(q) \notin dedupe[q.by] /\ Hash(q) \in dedupe'[q.by] /\ q.kind # "proof"
  BY DEF Fresh
<1>2. AirOK'
  BY <1>1, AirSent, Zenon
<1> QED
  BY <1>2, Zenon

\* A table's entry is recorded with the send, and only with it.
LEMMA HandleRoutedStep ==
  ASSUME Story, NEW n \in Nodes, NEW p \in air, NEW sent \in BOOLEAN, HandleRouted(n, p, sent)
  PROVE  Story'
<1>1. /\ p.kind \in {"data", "request"} /\ Heard(n, p) /\ Fresh(n, p) /\ path[n] # NULL
      /\ Remember(n, p) /\ Sends(n, sent)
      /\ UNCHANGED <<path, receipt, ends, reroutes, forgetful>>
  BY DEF HandleRouted
<1>2. Typed(p) /\ p.on \in Media /\ p.hops < MaxHops /\ p.by # n /\ p.hops \in Nat
  BY <1>1, ForwardingConfig DEF Story, AirOK, Typed, Packet, Heard
<1>3. dedupe' \in [Nodes -> SUBSET Hashes] /\ Recalls /\ Hash(p) \in dedupe'[n]
  BY <1>1, <1>2, RememberStep DEF Story
<1>4. PICK e \in [next_hop : Nodes, iface : Media, hops : Nat \ {0}] : e = path[n]
  BY <1>1, ForwardingConfig DEF Story, RestOK
<1>5. PICK q : q = [p EXCEPT !.on = e.iface, !.by = n, !.to = Along(e), !.hops = @ + 1]
  OBVIOUS
<1>6. Along(e) \in Nodes \cup {NULL} /\ e.iface \in Media
  BY DEF Along
<1>7. /\ Typed(q) /\ q.kind = p.kind /\ q.id = p.id /\ q.on = e.iface /\ q.by = n
      /\ q.hops = p.hops + 1 /\ Hash(q) = Hash(p)
  <2>1. PICK on \in Media, to \in Nodes \cup {NULL} : on = e.iface /\ to = Along(e)
    BY <1>6
  <2>2. SentOn(p, q, on, n, to)
    BY <1>5, <2>1 DEF SentOn
  <2> QED
    BY <1>2, <2>1, <2>2, Relayed DEF Travels
<1>8. RestOK'
  BY <1>1, <1>3, SendsCounted DEF Story, RestOK
<1>9. EndsOK'
  BY <1>1 DEF Story, EndsOK
<1>10. CASE ~sent
  <2>1. air' = air
    BY <1>10 DEF HandleRouted
  <2>2. reverse' = reverse /\ links' = links
    <3>1. \/ reverse' = [reverse EXCEPT ![n] = reverse[n]] /\ links' = links
          \/ links' = [links EXCEPT ![n] = links[n]] /\ reverse' = reverse
      BY <1>10 DEF HandleRouted, Completed
    <3> QED
      BY <3>1 DEF Story, TablesOK
  <2>3. AirOK' /\ TablesOK'
    BY <1>3, <2>1, <2>2, AirKept, TablesKept DEF Story
  <2> QED
    BY <1>8, <1>9, <2>3 DEF Story
<1>11. CASE sent
  <2>1. air' = air \cup {q}
    BY <1>4, <1>5, <1>11 DEF HandleRouted
  <2>2. AirOK' /\ air \subseteq air'
    BY <1>1, <1>3, <1>7, <2>1, FreshSent DEF Story
  <2>3. PassedIn(air', n, p.kind, p.id, p.on, e.iface)
    BY <1>2, <1>7, <2>1 DEF PassedIn
  <2>4. CASE p.kind = "data"
    <3>1. PICK entry : entry = [id |-> p.id, received |-> p.on, outbound |-> e.iface]
      BY Zenon
    <3>2. /\ entry \in Reverse /\ entry.id = p.id /\ entry.received = p.on
          /\ entry.outbound = e.iface
      BY <1>2, <1>6, <2>4, <3>1 DEF Reverse, Typed
    <3>3. PICK table : table = Recorded(reverse[n], entry, ReverseCapacity)
      OBVIOUS
    <3>4. reverse' = [reverse EXCEPT ![n] = table] /\ links' = links
      <4>1. /\ reverse' = [reverse EXCEPT ![n] = Completed(reverse[n], Recorded(reverse[n],
                 [id |-> p.id, received |-> p.on, outbound |-> path[n].iface], ReverseCapacity), sent)]
            /\ links' = links
        BY <2>4 DEF HandleRouted
      <4> QED
        BY <1>4, <1>11, <3>1, <3>3, <4>1 DEF Completed
    <3>5. reverse[n] \in Seq(Reverse) /\ Len(reverse[n]) <= ReverseCapacity
          /\ ReverseCapacity \in Nat \ {0}
      BY ForwardingConfig DEF Story, TablesOK
    <3>6. /\ table \in Seq(Reverse) /\ Len(table) <= ReverseCapacity
          /\ \A i \in DOMAIN table :
               table[i] = entry \/ \E k \in DOMAIN reverse[n] : table[i] = reverse[n][k]
      BY <3>2, <3>3, <3>5, RecordedTable
    <3>7. \A i \in DOMAIN table :
            \/ \E k \in DOMAIN reverse[n] : table[i] = reverse[n][k]
            \/ PassedIn(air', n, "data", table[i].id, table[i].received, table[i].outbound)
      BY <2>3, <2>4, <3>2, <3>6
    <3>8. TablesOK'
      BY <2>2, <3>4, <3>6, <3>7, ReverseChanged, Zenon DEF Story
    <3> QED
      BY <1>8, <1>9, <2>2, <3>8 DEF Story
  <2>5. CASE p.kind = "request"
    <3>1. PICK entry : entry = [id |-> p.id, received |-> p.on, next |-> e.iface,
                                remaining |-> e.hops, taken |-> p.hops + 1, validated |-> FALSE]
      BY Zenon
    <3>2. /\ entry \in Link /\ entry.id = p.id /\ entry.received = p.on
          /\ entry.next = e.iface
      <4>1. p.id \in Links /\ p.hops + 1 \in Nat /\ e.hops \in Nat
        BY <1>2, <2>5 DEF Typed
      <4> QED
        BY <1>2, <1>6, <3>1, <4>1 DEF Link
    <3>3. PICK table : table = Recorded(links[n], entry, LinkCapacity)
      OBVIOUS
    <3>4. links' = [links EXCEPT ![n] = table] /\ reverse' = reverse
      BY <1>4, <1>11, <2>5, <3>1, <3>3 DEF HandleRouted, Completed
    <3>5. links[n] \in Seq(Link) /\ Len(links[n]) <= LinkCapacity /\ LinkCapacity \in Nat \ {0}
      BY ForwardingConfig DEF Story, TablesOK
    <3>6. /\ table \in Seq(Link) /\ Len(table) <= LinkCapacity
          /\ \A i \in DOMAIN table :
               table[i] = entry \/ \E k \in DOMAIN links[n] : table[i] = links[n][k]
      BY <3>2, <3>3, <3>5, RecordedTable
    <3>7. \A i \in DOMAIN table :
            \/ \E k \in DOMAIN links[n] :
                 /\ table[i].id = links[n][k].id /\ table[i].received = links[n][k].received
                 /\ table[i].next = links[n][k].next
            \/ PassedIn(air', n, "request", table[i].id, table[i].received, table[i].next)
      BY <2>3, <2>5, <3>2, <3>6
    <3>8. TablesOK'
      BY <2>2, <3>4, <3>6, <3>7, LinksChanged, Zenon DEF Story
    <3> QED
      BY <1>8, <1>9, <2>2, <3>8 DEF Story
  <2> QED
    BY <1>1, <2>4, <2>5
<1> QED
  BY <1>10, <1>11

\* A reverse entry is used up by a proof, or lost.
LEMMA ReverseRemoved ==
  ASSUME TablesOK, links' = links, air \subseteq air', NEW n \in Nodes, NEW i \in DOMAIN reverse[n],
         reverse' = [reverse EXCEPT ![n] = Removed(reverse[n], i)]
  PROVE  TablesOK'
<1>1. PICK table : table = Removed(reverse[n], i)
  OBVIOUS
<1>2. reverse[n] \in Seq(Reverse) /\ Len(reverse[n]) <= ReverseCapacity
  BY DEF TablesOK
<1>3. /\ table \in Seq(Reverse) /\ Len(table) <= Len(reverse[n])
      /\ \A j \in DOMAIN table : \E k \in DOMAIN reverse[n] : table[j] = reverse[n][k]
  BY <1>1, <1>2, RemovedTable
<1>4. Len(table) <= ReverseCapacity
  BY <1>2, <1>3, ForwardingConfig
<1> QED
  BY Zenon, <1>1, <1>3, <1>4, ReverseChanged

LEMMA LinkRemoved ==
  ASSUME TablesOK, reverse' = reverse, air \subseteq air', NEW n \in Nodes, NEW i \in DOMAIN links[n],
         links' = [links EXCEPT ![n] = Removed(links[n], i)]
  PROVE  TablesOK'
<1>1. PICK table : table = Removed(links[n], i)
  OBVIOUS
<1>2. links[n] \in Seq(Link) /\ Len(links[n]) <= LinkCapacity
  BY DEF TablesOK
<1>3. /\ table \in Seq(Link) /\ Len(table) <= Len(links[n])
      /\ \A j \in DOMAIN table : \E k \in DOMAIN links[n] : table[j] = links[n][k]
  BY <1>1, <1>2, RemovedTable
<1>4. Len(table) <= LinkCapacity
  BY <1>2, <1>3, ForwardingConfig
<1> QED
  BY Zenon, <1>1, <1>3, <1>4, LinksChanged

\* A proof follows its packet's reverse entry, which tells where the packet
\* came from.
LEMMA HandleOrdinaryProofStep ==
  ASSUME Story, NEW n \in Nodes, NEW p \in air, NEW sent \in BOOLEAN,
         HandleOrdinaryProof(n, p, sent)
  PROVE  Story'
<1>1. /\ p.kind = "proof" /\ Heard(n, p) /\ Remember(n, p)
      /\ UNCHANGED <<path, links, receipt, ends, reroutes, forgetful>>
  BY Zenon DEF HandleOrdinaryProof
<1>2. Typed(p) /\ p.hops < MaxHops
  BY <1>1 DEF Story, AirOK, Heard
<1>3. dedupe' \in [Nodes -> SUBSET Hashes] /\ Recalls
  BY <1>1, <1>2, RememberStep DEF Story
<1>4. EndsOK'
  BY <1>1 DEF Story, EndsOK
<1>5. faults' \in 0 .. MaxFaults
  <2>1. faults' = faults \/ Sends(n, sent)
    BY Zenon DEF HandleOrdinaryProof
  <2> QED
    BY <2>1, SendsCounted DEF Story, RestOK
<1>6. RestOK'
  BY <1>1, <1>3, <1>5 DEF Story, RestOK
<1>7. CASE reverse' = reverse /\ air' = air
  <2>1. AirOK' /\ TablesOK'
    BY <1>1, <1>3, <1>7, AirKept, TablesKept DEF Story
  <2> QED
    BY <1>4, <1>6, <2>1 DEF Story
<1>8. ASSUME NEW i \in DOMAIN reverse[n], reverse[n][i].id = p.id,
             reverse' = [reverse EXCEPT ![n] = Removed(reverse[n], i)],
             \/ air' = air
             \/ air' = air \cup {[p EXCEPT !.on = OnwardSide(reverse[n][i]), !.by = n,
                                           !.hops = @ + 1]}
      PROVE  Story'
  <2>1. PICK e \in Reverse : e = reverse[n][i]
    BY DEF Story, TablesOK
  <2>2. PassedIn(air, n, "data", p.id, e.received, e.outbound)
    BY <1>8, <2>1, EntriesAre DEF Story, TablesOK
  <2>3. AirOK' /\ air \subseteq air'
    <3>1. CASE air' = air
      BY <1>3, <3>1, AirKept DEF Story
    <3>2. PICK on \in Media : on = e.received
      BY DEF Reverse
    <3>3. PICK q : q = [p EXCEPT !.on = on, !.by = n, !.hops = @ + 1]
      OBVIOUS
    <3>4. Typed(q) /\ q.kind = p.kind /\ q.id = p.id /\ q.on = on /\ q.by = n
      <4>1. p \in Packet /\ p.hops + 1 \in 0 .. MaxHops
        BY <1>2, ForwardingConfig DEF Typed, Packet
      <4>2. q \in Packet /\ q.kind = p.kind /\ q.id = p.id /\ q.on = on /\ q.by = n
        BY <3>3, <4>1, Zenon DEF Packet
      <4> QED
        BY <1>2, <4>2 DEF Typed
    <3>5. \E d \in air : d.kind = "data" /\ d.id = q.id /\ d.on = q.on /\ d.by # q.by
      BY <2>2, <3>2, <3>4 DEF PassedIn
    <3>6. CASE air' = air \cup {[p EXCEPT !.on = OnwardSide(reverse[n][i]), !.by = n,
                                          !.hops = @ + 1]}
      <4>1. air' = air \cup {q}
        BY <2>1, <3>2, <3>3, <3>6 DEF OnwardSide
      <4> QED
        BY <1>1, <1>3, <3>4, <3>5, <4>1, AirSent DEF Story
    <3> QED
      BY <1>8, <3>1, <3>6
  <2>4. TablesOK'
    BY <1>1, <1>8, <2>3, ReverseRemoved, Zenon DEF Story
  <2> QED
    BY <1>4, <1>6, <2>3, <2>4 DEF Story
<1> QED
  BY <1>7, <1>8, Zenon DEF HandleOrdinaryProof

\* A packet on a link crosses the node between the two media of its entry.
LEMMA HandleLinkPacketStep ==
  ASSUME Story, NEW n \in Nodes, NEW p \in air, NEW sent \in BOOLEAN, HandleLinkPacket(n, p, sent)
  PROVE  Story'
<1>1. /\ p.kind \in {"lrproof", "up", "down"} /\ Heard(n, p)
      /\ UNCHANGED <<path, dedupe, reverse, receipt, ends, reroutes, forgetful>>
  BY DEF HandleLinkPacket
<1>2. Typed(p) /\ p.hops < MaxHops
  BY <1>1 DEF Story, AirOK, Heard
<1>3. PICK i \in DOMAIN links[n] :
        /\ Sends(n, sent)
        /\ links' = [links EXCEPT ![n][i].validated = @ \/ (p.kind = "lrproof" /\ sent)]
        /\ air' = IF sent
                  THEN air \cup {[p EXCEPT !.on = Opposite(links[n][i], p), !.by = n, !.hops = @ + 1]}
                  ELSE air
  BY Zenon DEF HandleLinkPacket
<1>4. Recalls
  BY <1>1 DEF Recalls
<1>5. links[n] \in Seq(Link) /\ Len(links[n]) <= LinkCapacity /\ links \in [Nodes -> Seq(Link)]
  BY DEF Story, TablesOK
<1>6. PICK e \in Link : e = links[n][i]
  BY <1>5
<1>7. AirOK' /\ air \subseteq air'
  <2>1. CASE air' = air
    BY <1>4, <2>1, AirKept DEF Story
  <2>2. PICK on \in Media, to \in Nodes \cup {NULL} : on = Opposite(e, p) /\ to = NULL
    BY DEF Link, Opposite
  <2>3. PICK q : q = [p EXCEPT !.on = on, !.by = n, !.hops = @ + 1]
    OBVIOUS
  <2>4. Typed(q) /\ q.kind = p.kind
    <3>1. SentOn(p, q, on, n, to)
      BY <2>3 DEF SentOn
    <3> QED
      BY <1>2, <3>1, Relayed DEF Travels
  <2>5. CASE air' = air \cup {q}
    BY <1>1, <1>4, <2>4, <2>5, AirSent DEF Story
  <2> QED
    BY <1>3, <1>6, <2>1, <2>2, <2>3, <2>5
<1>8. TablesOK'
  <2>1. PICK v \in BOOLEAN : v = (e.validated \/ (p.kind = "lrproof" /\ sent))
    BY Zenon
  <2>2. PICK f : f = [e EXCEPT !.validated = v]
    BY Zenon
  <2>3. f \in Link /\ f.id = e.id /\ f.received = e.received /\ f.next = e.next
    BY <2>2 DEF Link
  <2>4. PICK table : table = [links[n] EXCEPT ![i] = f]
    BY Zenon
  <2>5. links' = [links EXCEPT ![n] = table]
    <3>1. links' = [links EXCEPT ![n] = [links[n] EXCEPT ![i] = [e EXCEPT !.validated = v]]]
      BY <1>3, <1>5, <1>6, <2>1
    <3> QED
      BY <2>2, <2>4, <3>1
  <2>6. table \in Seq(Link) /\ Len(table) = Len(links[n]) /\ DOMAIN table = DOMAIN links[n]
    BY <1>5, <2>3, <2>4
  <2>7. \A j \in DOMAIN table : table[j] = IF j = i THEN f ELSE links[n][j]
    BY <1>5, <2>4, <2>6
  <2>8. \A j \in DOMAIN table : \E k \in DOMAIN links[n] :
          /\ table[j].id = links[n][k].id /\ table[j].received = links[n][k].received
          /\ table[j].next = links[n][k].next
    BY <1>6, <2>3, <2>6, <2>7
  <2> QED
    BY <1>1, <1>5, <1>7, <2>5, <2>6, <2>8, LinksChanged, Zenon DEF Story
<1>9. RestOK' /\ EndsOK'
  BY <1>1, <1>3, SendsCounted DEF Story, RestOK, EndsOK
<1> QED
  BY <1>7, <1>8, <1>9 DEF Story

\* Entries expire or give way to other traffic.
LEMMA LoseStep ==
  ASSUME Story, NEW n \in Nodes,
         \/ \E i \in DOMAIN reverse[n] : LoseReverse(n, i)
         \/ \E i \in DOMAIN links[n] : LoseLink(n, i)
  PROVE  Story'
<1>1. /\ UNCHANGED <<path, dedupe, air, receipt, ends, reroutes, forgetful>>
      /\ Fault
  BY DEF LoseReverse, LoseLink
<1>2. RestOK' /\ EndsOK' /\ Recalls
  BY <1>1, FaultCounted, Zenon DEF Story, RestOK, EndsOK, Recalls
<1>3. AirOK'
  BY <1>1, <1>2, AirKept DEF Story
<1>4. TablesOK'
  <2>1. ASSUME NEW i \in DOMAIN reverse[n], LoseReverse(n, i) PROVE TablesOK'
    BY <1>1, <2>1, ReverseRemoved, Zenon DEF LoseReverse, Story
  <2>2. ASSUME NEW i \in DOMAIN links[n], LoseLink(n, i) PROVE TablesOK'
    BY <1>1, <2>2, LinkRemoved, Zenon DEF LoseLink, Story
  <2> QED
    BY <2>1, <2>2
<1> QED
  BY <1>2, <1>3, <1>4 DEF Story

-----------------------------------------------------------------------------

\* No packet was sent yet.
LEMMA StoryBegins == ASSUME Init PROVE Story
<1>1. /\ reverse \in [Nodes -> Seq(Reverse)] /\ links \in [Nodes -> Seq(Link)]
      /\ \A n \in Nodes : reverse[n] = <<>> /\ links[n] = <<>>
  BY DEF Init
<1>2. TablesOK
  <2>1. EntriesTrue
    BY <1>1 DEF EntriesTrue
  <2>2. \A n \in Nodes : Len(reverse[n]) <= ReverseCapacity /\ Len(links[n]) <= LinkCapacity
    BY <1>1, ForwardingConfig
  <2> QED
    BY <1>1, <2>1, <2>2 DEF TablesOK
<1>3. AirOK
  BY DEF Init, AirOK, ForwardedOnce, ProofsRetrace
<1>4. RestOK
  <2>1. PICK T : T = UNION {Routes[n] : n \in Nodes}
    BY Zenon
  <2>2. path \in [Nodes -> {NULL} \cup T]
    BY <2>1 DEF Init
  <2>3. path \in [Nodes -> T \cup {NULL}] /\ \A n \in Nodes : path[n] \in Routes[n] \cup {NULL}
    <3>1. \A n \in Nodes : path[n] # NULL => path[n] \in Routes[n]
      BY DEF Init
    <3> QED
      BY <2>2, <3>1
  <2>4. /\ dedupe \in [Nodes -> SUBSET Hashes]
        /\ receipt \in [Packets -> {"NONE", "PENDING", "DELIVERED", "FAILED"}]
        /\ faults \in 0 .. MaxFaults /\ reroutes \in 0 .. MaxReroutes /\ forgetful \subseteq Nodes
    BY ForwardingConfig DEF Init
  <2> QED
    BY <2>1, <2>3, <2>4 DEF RestOK
<1>5. EndsOK
  <2>1. PICK e : e = [state |-> "NONE", iface |-> NULL]
    BY Zenon
  <2>2. e \in End /\ e.state = "NONE"
    BY <2>1 DEF End
  <2>3. ends = [n \in {Source, Target} |-> [l \in Links |-> e]]
    BY <2>1 DEF Init
  <2> QED
    BY <2>2, <2>3 DEF EndsOK
<1> QED
  BY <1>2, <1>3, <1>4, <1>5 DEF Story

\* In every network, with whatever paths, failed sends and full tables: a
\* reverse or link entry tells of a packet that really crossed the node
\* (rns_node_complete_forward), a node sends a packet on once however its
\* path changes (the dedupe check of rns_node_ingress), and a proof goes only
\* where its packet came from (rns_transport_consume_reverse).
THEOREM TrafficIsTrue == Spec => []ForwardingTrue
<1>1. Init => Story
  BY StoryBegins
<1>2. Story /\ [Next]_vars => Story'
  <2> SUFFICES ASSUME Story, [Next]_vars PROVE Story'
    OBVIOUS
  <2>1. ASSUME NEW id \in Packets, SendRouted(id) PROVE Story'
    BY <2>1, SendRoutedStep
  <2>2. ASSUME NEW id \in Links, LinkOpen(id) \/ LinkSend(id) PROVE Story'
    BY <2>2, LinkOpenStep, LinkSendStep
  <2>3. ASSUME NEW n \in Nodes, NEW p \in air,
               \E sent \in BOOLEAN : \/ HandleRouted(n, p, sent)
                                     \/ HandleOrdinaryProof(n, p, sent)
                                     \/ HandleLinkPacket(n, p, sent)
        PROVE  Story'
    BY <2>3, HandleRoutedStep, HandleOrdinaryProofStep, HandleLinkPacketStep
  <2>4. ASSUME NEW p \in air, DeliverData(p) \/ AcceptLink(p) PROVE Story'
    BY <2>4, DeliverDataStep, AcceptLinkStep
  <2>5. ASSUME NEW n \in {Source, Target}, NEW p \in air, LinkIngress(n, p) PROVE Story'
    BY <2>5, LinkIngressStep
  <2>6. CASE \/ \E n \in Nodes, p \in air : NoPath(n, p)
             \/ \E p \in air : ProofArrives(p)
             \/ \E n \in Nodes : \E e \in Routes[n] \cup {NULL} : Reroute(n, e)
             \/ \E n \in Nodes : \E h \in dedupe[n] : LoseHash(n, h)
             \/ \E id \in Packets : ReceiptTimeout(id)
             \/ UNCHANGED vars
    BY <2>6, QuietSteps
  <2>7. ASSUME NEW n \in Nodes, \/ \E i \in DOMAIN reverse[n] : LoseReverse(n, i)
                                \/ \E i \in DOMAIN links[n] : LoseLink(n, i)
        PROVE  Story'
    BY <2>7, LoseStep
  <2>8. CASE Ingress
    BY <2>3, <2>4, <2>5, <2>6, <2>8, Zenon DEF Ingress
  <2> QED
    BY <2>1, <2>2, <2>3, <2>6, <2>7, <2>8, Zenon DEF Next
<1>3. Story => ForwardingTrue
  <2> SUFFICES ASSUME Story PROVE ForwardingTrue
    OBVIOUS
  <2>1. EntriesTrue /\ ForwardedOnce /\ ProofsRetrace
    BY DEF Story, TablesOK, AirOK
  <2>2. air \subseteq Packet
    BY DEF Story, AirOK, Typed
  <2>3. \A n \in Nodes : dedupe[n] \subseteq Kinds \X (Packets \cup Links)
    BY DEF Story, RestOK, Hashes
  <2>4. TypeOK
    BY <2>2, <2>3 DEF Story, RestOK, TablesOK, EndsOK, TypeOK
  <2> QED
    BY <2>1, <2>4 DEF ForwardingTrue
<1> QED
  BY <1>1, <1>2, <1>3, PTL DEF Spec

=============================================================================
