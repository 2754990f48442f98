--------------------------------- MODULE Lan ---------------------------------
(***************************************************************************)
(* Zero-configuration peering on a local network: the AutoInterface        *)
(* protocol of src/interfaces/auto.c over the UDP sockets of auto_posix.c. *)
(* Every link-local address multicasts a token; hearing one makes its      *)
(* sender a peer.  A peer is also told of us by unicast, which is what     *)
(* lets two nodes peer when multicast passes one way only.  Packets go to  *)
(* every peer address, so a node with two addresses hears each one twice.  *)
(*                                                                         *)
(* A token is the hash of group and source address: here it names the      *)
(* address it was sent from.  Times are whole ticks; a node polls at least *)
(* once in every tick, as the runtime's loop does.                         *)
(***************************************************************************)
EXTENDS Naturals, Sequences, FiniteSets

CONSTANTS LanNodes, Addresses,
          OwnerOf,          \* the node an address belongs to
          Deaf,             \* pairs <<from, to>>: multicast that never arrives
          Datagrams,        \* packets
          PeerCapacity,     \* options.peer_capacity
          AnnounceEvery, ReverseEvery, PeerTimeout,   \* intervals, in ticks
          InitialWait, DedupeTicks,
          DedupeCapacity,   \* AUTO_DEDUPE_CAPACITY
          MaxLanFaults, MaxLanEvents   \* bounds: faults; faults and packets sent

ASSUME LanConfig ==
    /\ IsFiniteSet(Addresses) /\ OwnerOf \in [Addresses -> LanNodes]
    /\ "token" \notin Datagrams
    /\ PeerCapacity \in Nat /\ DedupeCapacity \in Nat \ {0}
    /\ AnnounceEvery \in Nat /\ ReverseEvery \in Nat /\ PeerTimeout \in Nat
    /\ InitialWait \in Nat /\ DedupeTicks \in Nat
    /\ MaxLanFaults \in Nat /\ MaxLanEvents \in Nat

VARIABLES online_in,    \* ticks until a node is online
          announce_in,  \* ticks until an address announces again
          peer_table,   \* per node and address: 0, or ticks left and ticks
                        \* until the reverse announce
          dedupe_ring,  \* packets handed up, the last one at the end, and
                        \* how many ticks each still counts
          ether,        \* datagrams in flight
          fresh_ticks,  \* ticks in which a packet is not to be handed up again
          ups_since,    \* packets handed up after it, DedupeCapacity at most
          repeated_up,  \* packets handed up again too soon
          polled,       \* nodes that polled in this tick
          sends, lan_faults

dedupeVars == <<dedupe_ring, fresh_ticks, ups_since, repeated_up>>
lanVars == <<online_in, announce_in, peer_table, ether, dedupeVars, polled,
             sends, lan_faults>>

NoPeer == [left |-> 0, reverse |-> 0]
Own(n) == {a \in Addresses : OwnerOf[a] = n}
Known(n) == {a \in Addresses : peer_table[n][a].left > 0}

Kinds == {"token"} \cup Datagrams
Flights == [kind : Kinds, from : Addresses, to : Addresses]

LanTypeOK ==
    /\ online_in \in [LanNodes -> 0..InitialWait]
    /\ announce_in \in [Addresses -> 0..AnnounceEvery]
    /\ peer_table \in [LanNodes -> [Addresses ->
                        [left : 0..PeerTimeout + 1, reverse : 0..ReverseEvery + 1]]]
    /\ \A n \in LanNodes : Known(n) \cap Own(n) = {}
    /\ \A n \in LanNodes : Cardinality(Known(n)) <= PeerCapacity
    /\ dedupe_ring \in [LanNodes -> Seq([packet : Datagrams, left : 0..DedupeTicks])]
    /\ \A n \in LanNodes : Len(dedupe_ring[n]) <= DedupeCapacity
    /\ fresh_ticks \in [LanNodes -> [Datagrams -> 0..DedupeTicks]]
    /\ ups_since \in [LanNodes -> [Datagrams -> 0..DedupeCapacity]]
    /\ ether \subseteq Flights
    /\ repeated_up \subseteq Datagrams
    /\ polled \subseteq LanNodes
    /\ sends \in 0..MaxLanEvents /\ lan_faults \in 0..MaxLanFaults

LanInit ==
    /\ online_in = [n \in LanNodes |-> InitialWait]
    /\ announce_in = [a \in Addresses |-> 0]
    /\ peer_table = [n \in LanNodes |-> [a \in Addresses |-> NoPeer]]
    /\ dedupe_ring = [n \in LanNodes |-> <<>>]
    /\ fresh_ticks = [n \in LanNodes |-> [p \in Datagrams |-> 0]]
    /\ ups_since = [n \in LanNodes |-> [p \in Datagrams |-> 0]]
    /\ ether = {}
    /\ repeated_up = {}
    /\ polled = {}
    /\ sends = 0 /\ lan_faults = 0

-----------------------------------------------------------------------------
\* rns_auto_ingest_discovery: a token makes its sender a peer, or renews it;
\* a token from one of our own addresses is an echo; a full table refuses.
Admitted(n, table, source) ==
    IF source \in Own(n) THEN table
    ELSE IF table[source].left > 0
    THEN [table EXCEPT ![source].left = PeerTimeout + 1]
    ELSE IF Cardinality({a \in Addresses : table[a].left > 0}) = PeerCapacity
    THEN table
    ELSE [table EXCEPT ![source] = [left |-> PeerTimeout + 1,
                                    reverse |-> ReverseEvery + 1]]

\* rns_auto_ingest_data renews the peer it comes from.
Renewed(table, source) ==
    IF table[source].left > 0
    THEN [table EXCEPT ![source].left = PeerTimeout + 1] ELSE table

\* duplicate_packet: the ring holds the packet, from less than DedupeTicks ago.
Duplicate_ForgetsEarly(n, p) ==
    \E i \in DOMAIN dedupe_ring[n] :
        dedupe_ring[n][i].packet = p /\ dedupe_ring[n][i].left > 1

Duplicate(n, p) ==
    \E i \in DOMAIN dedupe_ring[n] :
        dedupe_ring[n][i].packet = p /\ dedupe_ring[n][i].left > 0

\* A new packet takes the next slot of the ring: the oldest one, once it is full.
Entered(ring, p) ==
    Append(IF Len(ring) = DedupeCapacity THEN Tail(ring) ELSE ring,
           [packet |-> p, left |-> DedupeTicks])

\* The packet is handed up: how that counts for it and for the others.
HandUp(n, p) ==
    /\ dedupe_ring' = [dedupe_ring EXCEPT ![n] = Entered(@, p)]
    /\ fresh_ticks' = [fresh_ticks EXCEPT ![n][p] = DedupeTicks]
    /\ ups_since' = [ups_since EXCEPT ![n] = [q \in Datagrams |->
           IF q = p THEN 0
           ELSE IF ups_since[n][q] = DedupeCapacity THEN DedupeCapacity
           ELSE ups_since[n][q] + 1]]
    /\ repeated_up' = IF fresh_ticks[n][p] > 0 /\ ups_since[n][p] < DedupeCapacity
                      THEN repeated_up \cup {p} ELSE repeated_up

\* rns_auto_online: the node has waited to hear the others first.
Online(n) == online_in[n] = 0

Waiting(n) == {e \in ether : OwnerOf[e.to] = n}

\* A token is read from one of the two discovery sockets.  One that comes
\* before the node is online is dropped.
ReceiveToken(n) ==
    \E d \in Waiting(n) :
        /\ d.kind = "token"
        /\ ether' = ether \ {d}
        /\ peer_table' = [peer_table EXCEPT ![n] =
                             IF Online(n) THEN Admitted(n, @, d.from) ELSE @]
        /\ UNCHANGED <<online_in, announce_in, dedupeVars, polled, sends,
                       lan_faults>>

\* A packet is read from the data socket; it counts only from a peer.
ReceiveData(n) ==
    \E d \in Waiting(n) :
        LET known == Online(n) /\ peer_table[n][d.from].left > 0
        IN  /\ d.kind # "token"
            /\ ether' = ether \ {d}
            /\ peer_table' = [peer_table EXCEPT ![n] =
                                 IF known THEN Renewed(@, d.from) ELSE @]
            /\ IF known /\ ~Duplicate(n, d.kind) THEN HandUp(n, d.kind)
               ELSE UNCHANGED dedupeVars
            /\ UNCHANGED <<online_in, announce_in, polled, sends, lan_faults>>

\* The peers a poll speaks to by unicast, and the addresses that announce.
ReverseDue_Never(n) == {}

ReverseDue(n) == {a \in Known(n) : peer_table[n][a].reverse = 0}

AnnounceDue(n) == {a \in Own(n) : announce_in[a] = 0}

\* The multicasts that arrive: emitted by one address, heard by every other
\* that joined the group, unless the network carries none that way.
Heard(from) ==
    {[kind |-> "token", from |-> from, to |-> a] :
        a \in {b \in Addresses \ {from} :
                  <<OwnerOf[from], OwnerOf[b]>> \notin Deaf}}

\* rns_auto_poll: once the sockets are empty, expired peers are dropped, peers
\* due are told of us, and each address due announces to the group.  (A peer
\* whose last tick is over has left = 0 and is no longer known.)  The unicast
\* leaves through the interface the peer was last heard on, any of ours.
Poll(n) ==
    \E via \in Own(n) :
    LET told == {[kind |-> "token", from |-> via, to |-> a] :
                     a \in ReverseDue(n)}
    IN  /\ n \notin polled
        /\ Waiting(n) = {}
        /\ ether' = ether \cup told \cup UNION {Heard(b) : b \in AnnounceDue(n)}
        /\ peer_table' = [peer_table EXCEPT ![n] =
               [a \in Addresses |-> IF a \in ReverseDue(n)
                                    THEN [peer_table[n][a] EXCEPT !.reverse = ReverseEvery + 1]
                                    ELSE peer_table[n][a]]]
        /\ announce_in' = [a \in Addresses |->
               IF a \in AnnounceDue(n) THEN AnnounceEvery ELSE announce_in[a]]
        /\ polled' = polled \cup {n}
        /\ UNCHANGED <<online_in, dedupeVars, sends, lan_faults>>

\* rns_auto_send: one copy to every peer address.
Send(n) ==
    \E p \in Datagrams, via \in Own(n) :
        /\ sends + lan_faults < MaxLanEvents
        /\ Online(n)
        /\ Known(n) # {}
        /\ ether' = ether \cup {[kind |-> p, from |-> via, to |-> a] :
                                    a \in Known(n)}
        /\ sends' = sends + 1
        /\ UNCHANGED <<online_in, announce_in, peer_table, dedupeVars, polled,
                       lan_faults>>

-----------------------------------------------------------------------------
LanFault ==
    /\ lan_faults < MaxLanFaults /\ sends + lan_faults < MaxLanEvents
    /\ lan_faults' = lan_faults + 1

\* The network loses a datagram.
Drop ==
    \E d \in ether :
        /\ LanFault
        /\ ether' = ether \ {d}
        /\ UNCHANGED <<online_in, announce_in, peer_table, dedupeVars, polled,
                       sends>>

\* A node stops and is created again: rns_auto_endpoint_create.
Restart(n) ==
    /\ LanFault
    /\ online_in' = [online_in EXCEPT ![n] = InitialWait]
    /\ peer_table' = [peer_table EXCEPT ![n] = [a \in Addresses |-> NoPeer]]
    /\ announce_in' = [a \in Addresses |->
                          IF a \in Own(n) THEN 0 ELSE announce_in[a]]
    /\ dedupe_ring' = [dedupe_ring EXCEPT ![n] = <<>>]
    /\ fresh_ticks' = [fresh_ticks EXCEPT ![n] = [p \in Datagrams |-> 0]]
    /\ UNCHANGED <<ether, ups_since, repeated_up, polled, sends>>

Down(t) == IF t = 0 THEN 0 ELSE t - 1

Tick ==
    /\ polled = LanNodes
    /\ ether = {}
    /\ polled' = {}
    /\ online_in' = [n \in LanNodes |-> Down(online_in[n])]
    /\ announce_in' = [a \in Addresses |-> Down(announce_in[a])]
    /\ peer_table' = [n \in LanNodes |-> [a \in Addresses |->
           LET left == Down(peer_table[n][a].left)
           IN  IF left = 0 THEN NoPeer
               ELSE [left |-> left, reverse |-> Down(peer_table[n][a].reverse)]]]
    /\ dedupe_ring' = [n \in LanNodes |-> [i \in DOMAIN dedupe_ring[n] |->
           [dedupe_ring[n][i] EXCEPT !.left = Down(dedupe_ring[n][i].left)]]]
    /\ fresh_ticks' = [n \in LanNodes |-> [p \in Datagrams |-> Down(fresh_ticks[n][p])]]
    /\ UNCHANGED <<ether, ups_since, repeated_up, sends, lan_faults>>

LanNext ==
    \/ \E n \in LanNodes : \/ ReceiveToken(n) \/ ReceiveData(n)
                         \/ Poll(n) \/ Send(n) \/ Restart(n)
    \/ Drop
    \/ Tick

\* Nodes poll for ever, the network delivers, time passes.
LanFairness ==
    /\ \A n \in LanNodes : /\ WF_lanVars(ReceiveToken(n) \/ ReceiveData(n))
                        /\ WF_lanVars(Poll(n))
    /\ WF_lanVars(Tick)

LanSpec == LanInit /\ [][LanNext]_lanVars /\ LanFairness

-----------------------------------------------------------------------------
\* Nodes end up knowing each other and stay peered, although multicast passes
\* one way only, announcements are lost and nodes restart (rns_auto_poll's
\* reverse announcement, the expiry and rns_auto_ingest_discovery).
EventuallyPeered ==
    <>[](\A n, m \in LanNodes : n # m => \E a \in Own(m) : a \in Known(n))

\* A packet that arrives over two addresses is handed up once, for as long as
\* duplicate_packet is to remember it and unless DedupeCapacity others were handed
\* up in between; a node is not its own peer, and has no more peers than its table
\* has slots (rns_auto_ingest_discovery).
HandedUpOnce == repeated_up = {}
LanHandsUpOnce == LanTypeOK /\ HandedUpOnce
=============================================================================
