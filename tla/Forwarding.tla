----------------------------- MODULE Forwarding -----------------------------
(***************************************************************************)
(* What transport nodes do with traffic for one destination: packets go    *)
(* forward along the path tables, their proofs back along reverse entries, *)
(* and links over entries that record both sides (rns_node_ingress and     *)
(* rns_node_complete_forward of transport/node.c, the reverse and link     *)
(* tables of transport/transport.c, and ingress, the routed sends and the  *)
(* link handshake of runtime/runtime.c).                                   *)
(*                                                                         *)
(* As in Routing, interfaces are media.  The path tables are inputs here:  *)
(* they change at any time among the entries Routes offers.  A packet that *)
(* was sent stays in the air, so it may be heard late, twice or never.     *)
(***************************************************************************)
EXTENDS Integers, Sequences, FiniteSets

CONSTANTS
  Nodes, Media, Attached,
  Forwarders,        \* nodes with transport enabled
  Source, Target,    \* node that sends, node the destination is registered at
  Routes,            \* path entries each node may hold for the destination
  Packets, Links,    \* data packets and links of the source
  MaxHops, ReverseCapacity, LinkCapacity,
  MaxFaults,         \* bound: failed sends and lost table entries
  MaxReroutes,       \* bound: path changes
  MaxStarts,         \* bound: packets sent and links opened by the source
  NULL

ASSUME ForwardingConfig ==
  /\ Attached \in [Nodes -> SUBSET Media] /\ Forwarders \subseteq Nodes
  /\ Source \in Nodes /\ Target \in Nodes /\ Source # Target
  /\ Routes \in [Nodes -> SUBSET [next_hop : Nodes, iface : Media, hops : Nat \ {0}]]
  /\ MaxHops \in Nat /\ ReverseCapacity \in Nat \ {0} /\ LinkCapacity \in Nat \ {0}
  /\ MaxFaults \in Nat /\ MaxReroutes \in Nat /\ MaxStarts \in Nat

VARIABLES
  path,       \* each node's path to the destination, or NULL
  dedupe,     \* packet hashes each node remembers
  reverse,    \* reverse entries of each node, oldest first
  links,      \* link entries of each node, oldest first
  air,        \* packets sent
  receipt,    \* receipts of the source's packets
  ends,       \* state of each link at the source and at the target
  faults, reroutes,
  forgetful   \* nodes that lost a packet hash

vars == <<path, dedupe, reverse, links, air, receipt, ends, faults, reroutes, forgetful>>
tables == <<dedupe, reverse, links>>

(* request and lrproof set a link up; up and down are packets on it. *)
Kinds == {"data", "proof", "request", "lrproof", "up", "down"}
Hash(p) == <<p.kind, p.id>>
Packet == [kind : Kinds, id : Packets \cup Links, on : Media, by : Nodes,
           to : Nodes \cup {NULL}, hops : 0 .. MaxHops]
Reverse == [id : Packets, received : Media, outbound : Media]
Link == [id : Links, received : Media, next : Media, remaining : Nat, taken : Nat,
         validated : BOOLEAN]
End == [state : {"NONE", "PENDING", "HANDSHAKE", "ACTIVE", "CLOSED"}, iface : Media \cup {NULL}]

Init ==
  /\ path \in [Nodes -> {NULL} \cup UNION {Routes[n] : n \in Nodes}]
  /\ \A n \in Nodes : path[n] = NULL <=> Routes[n] = {}
  /\ \A n \in Nodes : path[n] # NULL => path[n] \in Routes[n]
  /\ dedupe = [n \in Nodes |-> {}]
  /\ reverse = [n \in Nodes |-> <<>>] /\ links = [n \in Nodes |-> <<>>]
  /\ air = {} /\ receipt = [p \in Packets |-> "NONE"]
  /\ ends = [n \in {Source, Target} |-> [l \in Links |-> [state |-> "NONE", iface |-> NULL]]]
  /\ faults = 0 /\ reroutes = 0 /\ forgetful = {}

Fault == faults < MaxFaults /\ faults' = faults + 1

(* Whether a forwarding node's send went out.  Without transport it never does. *)
Sends(n, sent) ==
  \/ sent /\ n \in Forwarders /\ UNCHANGED faults
  \/ ~sent /\ n \in Forwarders /\ Fault
  \/ ~sent /\ n \notin Forwarders /\ UNCHANGED faults

(* n takes a packet in: sent on one of its media, and below the hop ceiling. *)
Heard(n, p) == p.on \in Attached[n] /\ p.by # n /\ p.hops < MaxHops

(* prepare_routed_packet, handle_routed: how a packet is addressed on a path. *)
Along(e) == IF e.hops <= 1 THEN NULL ELSE e.next_hop
Fresh(n, p) == Hash(p) \notin dedupe[n]
Remember_Never(n, p) == UNCHANGED dedupe
Remember(n, p) == dedupe' = [dedupe EXCEPT ![n] = @ \cup {Hash(p)}]

(* A full table gives up its oldest entry. *)
Recorded(table, entry, capacity) ==
  Append(IF Len(table) = capacity THEN Tail(table) ELSE table, entry)
Removed(table, i) == SubSeq(table, 1, i - 1) \o SubSeq(table, i + 1, Len(table))

(* rns_node_complete_forward: the table after a routed packet was or was not
   sent. *)
Completed(before, after, sent) == IF sent THEN after ELSE before

----------------------------------------------------------------------------
(* The source: rns_runtime_send_routed_with_receipt and rns_runtime_link_open. *)
Started == {id \in Packets : receipt[id] # "NONE"}
             \cup {id \in Links : ends[Source][id].state # "NONE"}
Launch(kind, id) ==
  /\ Cardinality(Started) < MaxStarts /\ path[Source] # NULL
  /\ air' = air \cup {[kind |-> kind, id |-> id, on |-> path[Source].iface, by |-> Source,
                       to |-> Along(path[Source]), hops |-> 0]}

SendRouted(id) ==
  /\ receipt[id] = "NONE" /\ Launch("data", id)
  /\ receipt' = [receipt EXCEPT ![id] = "PENDING"]
  /\ UNCHANGED <<path, tables, ends, faults, reroutes, forgetful>>

LinkOpen(id) ==
  /\ ends[Source][id].state = "NONE" /\ Launch("request", id)
  /\ ends' = [ends EXCEPT ![Source][id] = [state |-> "PENDING", iface |-> path[Source].iface]]
  /\ UNCHANGED <<path, tables, receipt, faults, reroutes, forgetful>>

(* rns_node_ingress at the target, rns_runtime_prove_packet. *)
DeliverData(p) ==
  /\ Heard(Target, p) /\ p.kind = "data" /\ Fresh(Target, p)
  /\ Remember(Target, p)
  /\ air' = air \cup {[kind |-> "proof", id |-> p.id, on |-> p.on, by |-> Target,
                       to |-> NULL, hops |-> 0]}
  /\ UNCHANGED <<path, reverse, links, receipt, ends, faults, reroutes, forgetful>>

(* accept_inbound_link: the proof goes back where the request came from. *)
AcceptLink(p) ==
  /\ Heard(Target, p) /\ p.kind = "request" /\ Fresh(Target, p)
  /\ Remember(Target, p)
  /\ ends' = [ends EXCEPT ![Target][p.id] = [state |-> "HANDSHAKE", iface |-> p.on]]
  /\ air' = air \cup {[kind |-> "lrproof", id |-> p.id, on |-> p.on, by |-> Target,
                       to |-> NULL, hops |-> 0]}
  /\ UNCHANGED <<path, reverse, links, receipt, faults, reroutes, forgetful>>

(* link_ingress at an end of the link.  A packet on another interface than
   the link's closes it; a link request's proof is answered with the round
   trip time, and that makes the target's end active. *)
LinkIngress(n, p) ==
  /\ Heard(n, p) /\ p.id \in Links /\ p.kind \in {"lrproof", "up", "down"}
  /\ ends[n][p.id].state # "NONE" /\ Fresh(n, p)
  /\ Remember(n, p)
  /\ \/ /\ p.on # ends[n][p.id].iface
        /\ ends' = [ends EXCEPT ![n][p.id].state = "CLOSED"] /\ UNCHANGED air
     \/ /\ p.on = ends[n][p.id].iface
        /\ ends[n][p.id].state = "PENDING" /\ p.kind = "lrproof"
        /\ ends' = [ends EXCEPT ![n][p.id].state = "ACTIVE"]
        /\ air' = air \cup {[kind |-> "up", id |-> p.id, on |-> p.on, by |-> n,
                             to |-> NULL, hops |-> 0]}
     \/ /\ p.on = ends[n][p.id].iface
        /\ ends[n][p.id].state = "HANDSHAKE" /\ p.kind = "up"
        /\ ends' = [ends EXCEPT ![n][p.id].state = "ACTIVE"] /\ UNCHANGED air
     \/ /\ p.on = ends[n][p.id].iface
        /\ <<ends[n][p.id].state, p.kind>> \notin {<<"PENDING", "lrproof">>, <<"HANDSHAKE", "up">>}
        /\ UNCHANGED <<ends, air>>
  /\ UNCHANGED <<path, reverse, links, receipt, faults, reroutes, forgetful>>

(* The target answers on an active link. *)
LinkSend(id) ==
  /\ ends[Target][id].state = "ACTIVE"
  /\ air' = air \cup {[kind |-> "down", id |-> id, on |-> ends[Target][id].iface, by |-> Target,
                       to |-> NULL, hops |-> 0]}
  /\ UNCHANGED <<path, tables, receipt, ends, faults, reroutes, forgetful>>

----------------------------------------------------------------------------
(* handle_routed, for data and link requests. *)
HandleRouted(n, p, sent) ==
  /\ p.kind \in {"data", "request"} /\ n # Target /\ Heard(n, p)
  /\ p.to \in {NULL, n} /\ Fresh(n, p) /\ path[n] # NULL
  /\ Remember(n, p)
  /\ Sends(n, sent)
  /\ LET e == path[n] IN
     /\ \/ /\ p.kind = "data"
           /\ reverse' = [reverse EXCEPT ![n] = Completed(@, Recorded(@,
                [id |-> p.id, received |-> p.on, outbound |-> e.iface], ReverseCapacity), sent)]
           /\ UNCHANGED links
        \/ /\ p.kind = "request"
           /\ links' = [links EXCEPT ![n] = Completed(@, Recorded(@,
                [id |-> p.id, received |-> p.on, next |-> e.iface, remaining |-> e.hops,
                 taken |-> p.hops + 1, validated |-> FALSE], LinkCapacity), sent)]
           /\ UNCHANGED reverse
     /\ air' = IF sent
               THEN air \cup {[p EXCEPT !.on = e.iface, !.by = n, !.to = Along(e), !.hops = @ + 1]}
               ELSE air
  /\ UNCHANGED <<path, receipt, ends, reroutes, forgetful>>

NoPath(n, p) ==
  /\ p.kind \in {"data", "request"} /\ n # Target /\ Heard(n, p)
  /\ p.to \in {NULL, n} /\ Fresh(n, p) /\ path[n] = NULL
  /\ Remember(n, p)
  /\ UNCHANGED <<path, reverse, links, air, receipt, ends, faults, reroutes, forgetful>>

(* packet_receipt_ingress: the source's receipts see every proof first. *)
AcceptsReceipt(n, p) == n = Source /\ receipt[p.id] = "PENDING"
ProofArrives(p) ==
  /\ Heard(Source, p) /\ p.kind = "proof" /\ AcceptsReceipt(Source, p)
  /\ receipt' = [receipt EXCEPT ![p.id] = "DELIVERED"]
  /\ UNCHANGED <<path, tables, air, ends, faults, reroutes, forgetful>>

(* rns_transport_consume_reverse: the entry is gone even when the proof came
   from the wrong side. *)
OnwardSide_Outbound(e) == e.outbound
OnwardSide(e) == e.received
HandleOrdinaryProof(n, p, sent) ==
  /\ Heard(n, p) /\ p.kind = "proof" /\ ~AcceptsReceipt(n, p) /\ Fresh(n, p)
  /\ Remember(n, p)
  /\ \/ /\ \A i \in DOMAIN reverse[n] : reverse[n][i].id # p.id
        /\ ~sent /\ UNCHANGED <<reverse, air, faults>>
     \/ \E i \in DOMAIN reverse[n] :
          /\ reverse[n][i].id = p.id
          /\ reverse' = [reverse EXCEPT ![n] = Removed(@, i)]
          /\ \/ /\ p.on # reverse[n][i].outbound
                /\ ~sent /\ UNCHANGED <<air, faults>>
             \/ /\ p.on = reverse[n][i].outbound
                /\ Sends(n, sent)
                /\ air' = IF sent
                          THEN air \cup {[p EXCEPT !.on = OnwardSide(reverse[n][i]), !.by = n,
                                                   !.hops = @ + 1]}
                          ELSE air
  /\ UNCHANGED <<path, links, receipt, ends, reroutes, forgetful>>

(* rns_transport_accept_link_proof: the first proof, from the recorded side
   and as far away as the path said. *)
Validates(e, p) == ~e.validated /\ p.on = e.next /\ p.hops + 1 = e.remaining
(* rns_transport_route_link. *)
Expected(e, p) == IF p.on = e.received THEN e.taken ELSE e.remaining
Opposite(e, p) == IF p.on = e.received THEN e.next ELSE e.received
Carries(e, p) == e.validated /\ p.on \in {e.received, e.next} /\ p.hops + 1 = Expected(e, p)

(* handle_link_packet at the nodes in between; links do their own replay
   checks, so the packet's hash is not looked at. *)
HandleLinkPacket(n, p, sent) ==
  /\ Heard(n, p) /\ p.kind \in {"lrproof", "up", "down"}
  /\ (n \in {Source, Target} => ends[n][p.id].state = "NONE")
  /\ \E i \in DOMAIN links[n] :
       LET e == links[n][i] IN
       /\ e.id = p.id
       /\ IF p.kind = "lrproof" THEN Validates(e, p) ELSE Carries(e, p)
       /\ Sends(n, sent)
       /\ links' = [links EXCEPT ![n][i].validated = @ \/ (p.kind = "lrproof" /\ sent)]
       /\ air' = IF sent
                 THEN air \cup {[p EXCEPT !.on = Opposite(e, p), !.by = n, !.hops = @ + 1]}
                 ELSE air
  /\ UNCHANGED <<path, dedupe, reverse, receipt, ends, reroutes, forgetful>>

----------------------------------------------------------------------------
(* The path table changes under the traffic: a newer announce, or expiry. *)
Reroute(n, e) ==
  /\ reroutes < MaxReroutes /\ reroutes' = reroutes + 1
  /\ e # path[n] /\ path' = [path EXCEPT ![n] = e]
  /\ UNCHANGED <<tables, air, receipt, ends, faults, forgetful>>

(* Expiry, or eviction by other traffic. *)
LoseReverse(n, i) ==
  /\ Fault /\ reverse' = [reverse EXCEPT ![n] = Removed(@, i)]
  /\ UNCHANGED <<path, dedupe, links, air, receipt, ends, reroutes, forgetful>>
LoseLink(n, i) ==
  /\ Fault /\ links' = [links EXCEPT ![n] = Removed(@, i)]
  /\ UNCHANGED <<path, dedupe, reverse, air, receipt, ends, reroutes, forgetful>>
LoseHash(n, h) ==
  /\ Fault /\ dedupe' = [dedupe EXCEPT ![n] = @ \ {h}]
  /\ forgetful' = forgetful \cup {n}
  /\ UNCHANGED <<path, reverse, links, air, receipt, ends, reroutes>>
ReceiptTimeout(id) ==
  /\ Fault /\ receipt[id] = "PENDING" /\ receipt' = [receipt EXCEPT ![id] = "FAILED"]
  /\ UNCHANGED <<path, tables, air, ends, reroutes, forgetful>>

Ingress ==
  \E n \in Nodes, p \in air :
    \/ HandleRouted(n, p, TRUE) \/ NoPath(n, p)
    \/ \E sent \in BOOLEAN : HandleOrdinaryProof(n, p, sent)
    \/ HandleLinkPacket(n, p, TRUE)
    \/ n = Target /\ (DeliverData(p) \/ AcceptLink(p))
    \/ n = Source /\ ProofArrives(p)
    \/ n \in {Source, Target} /\ LinkIngress(n, p)

Next ==
  \/ \E id \in Packets : SendRouted(id) \/ ReceiptTimeout(id)
  \/ \E id \in Links : LinkOpen(id) \/ LinkSend(id)
  \/ Ingress
  \/ \E n \in Nodes, p \in air : HandleRouted(n, p, FALSE) \/ HandleLinkPacket(n, p, FALSE)
  \/ \E n \in Nodes : \E e \in Routes[n] \cup {NULL} : Reroute(n, e)
  \/ \E n \in Nodes :
       \/ \E i \in DOMAIN reverse[n] : LoseReverse(n, i)
       \/ \E i \in DOMAIN links[n] : LoseLink(n, i)
       \/ \E h \in dedupe[n] : n \notin {Source, Target} /\ LoseHash(n, h)

Spec == Init /\ [][Next]_vars

(* Packets are heard, and the target answers on an active link. *)
FairSpec == Spec /\ WF_vars(Ingress) /\ \A id \in Links : WF_vars(LinkSend(id))

----------------------------------------------------------------------------
TypeOK ==
  /\ \A n \in Nodes : path[n] \in Routes[n] \cup {NULL}
  /\ \A n \in Nodes : /\ dedupe[n] \subseteq Kinds \X (Packets \cup Links)
                      /\ reverse[n] \in Seq(Reverse) /\ Len(reverse[n]) <= ReverseCapacity
                      /\ links[n] \in Seq(Link) /\ Len(links[n]) <= LinkCapacity
  /\ air \subseteq Packet
  /\ receipt \in [Packets -> {"NONE", "PENDING", "DELIVERED", "FAILED"}]
  /\ ends \in [{Source, Target} -> [Links -> End]]
  /\ faults \in 0 .. MaxFaults /\ reroutes \in 0 .. MaxReroutes /\ forgetful \subseteq Nodes

(***************************************************************************)
(* Reverse and link entries tell of packets that really left: a node with  *)
(* an entry heard the packet on the entry's one side and sent it on over   *)
(* the other, also when other sends of it failed (complete_forward).       *)
(***************************************************************************)
Passed(n, kind, id, received, outbound) ==
  \E p, q \in air : /\ p.kind = kind /\ p.id = id /\ p.on = received /\ p.by # n
                    /\ q.kind = kind /\ q.id = id /\ q.on = outbound /\ q.by = n
                    /\ q.hops = p.hops + 1
EntriesTrue ==
  \A n \in Nodes :
    /\ \A i \in DOMAIN reverse[n] : LET e == reverse[n][i] IN
         Passed(n, "data", e.id, e.received, e.outbound)
    /\ \A i \in DOMAIN links[n] : LET e == links[n][i] IN
         Passed(n, "request", e.id, e.received, e.next)

(***************************************************************************)
(* A node that remembers its packet hashes sends a packet on once, however *)
(* many copies it hears and however its path changes in between: packets   *)
(* die out in a routing loop (the dedupe check before handle_routed).      *)
(***************************************************************************)
ForwardedOnce ==
  \A p, q \in air :
    /\ Hash(p) = Hash(q) /\ p.kind \in {"data", "request"} /\ p.by = q.by
    /\ p.by \notin forgetful \cup {Source}
    => p = q

(***************************************************************************)
(* Proofs retrace their packet: a node sends a proof only to a medium it   *)
(* heard the packet on (consume_reverse).                                  *)
(***************************************************************************)
ProofsRetrace ==
  \A p \in air : p.kind = "proof" =>
    \E q \in air : q.kind = "data" /\ q.id = p.id /\ q.on = p.on /\ q.by # p.by

(* Packets, entries and proofs tell one story (the three above). *)
ForwardingTrue == TypeOK /\ EntriesTrue /\ ForwardedOnce /\ ProofsRetrace

(***************************************************************************)
(* Traffic arrives, whatever the paths do meanwhile: a delivered packet's  *)
(* proof comes home, and an active link carries packets in both            *)
(* directions, since the entries a link request left along the way match   *)
(* the hops its packets have taken.  Only a failed send or a lost entry    *)
(* can stop it.                                                            *)
(***************************************************************************)
Arrived ==
  /\ \A id \in Packets : <<"data", id>> \in dedupe[Target] => receipt[id] = "DELIVERED"
  /\ \A id \in Links :
       /\ ends[Source][id].state = "ACTIVE" => ends[Target][id].state = "ACTIVE"
       /\ ends[Target][id].state = "ACTIVE" => <<"down", id>> \in dedupe[Source]

TrafficArrives == <>[](faults > 0 \/ Arrived)
=============================================================================
