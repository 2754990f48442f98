------------------------------ MODULE Routing -------------------------------
(***************************************************************************)
(* How paths are learned: transport nodes flood signed announces and each  *)
(* node keeps, per destination, the neighbour it first heard the newest    *)
(* announce from (transport/node.c, transport/transport.c and the announce *)
(* and rebroadcast code of runtime/runtime.c).                             *)
(*                                                                         *)
(* Interfaces are named by the medium they are attached to: what a node    *)
(* sends on a medium every other node on it may hear, once, several times  *)
(* or never, and at any later time.                                        *)
(*                                                                         *)
(* The runtime gives every interface gravity 0 and never marks a path      *)
(* unresponsive, so the clauses about these two are not modelled.  Neither *)
(* is the random blob history of a path: every blob in it came with a      *)
(* timebase no newer than the path's, and is refused for that already.     *)
(***************************************************************************)
EXTENDS Integers, FiniteSets

CONSTANTS
  Nodes, Media, Destinations,
  Origin,         \* node each destination is registered at
  Attached,       \* media each node has an interface to
  Forwarders,     \* nodes with transport enabled
  Repeated,       \* media attached with same_interface_rebroadcast
  MaxHops,        \* hop ceiling of the nodes (128)
  Timebases,      \* seconds an announce may be stamped with
  MaxEmissions,   \* bound: announces sent
  MaxLosses,      \* bound: table entries lost
  NULL

ASSUME RoutingConfig ==
  /\ Origin \in [Destinations -> Nodes]
  /\ Attached \in [Nodes -> SUBSET Media]
  /\ Forwarders \subseteq Nodes /\ Repeated \subseteq Media
  /\ MaxHops \in Nat \ {0} /\ Timebases \subseteq Nat /\ MaxEmissions \in Nat
  /\ MaxLosses \in Nat
  /\ NULL \notin [next_hop : Nodes, iface : Media, hops : Nat, timebase : Nat, emission : Nat]

VARIABLES
  paths,      \* path table of each node: destination -> entry, or NULL
  dedupe,     \* packet hashes each node remembers
  air,        \* announces sent, one copy per node that may hear it
  emitted,    \* announces made so far
  forgot,     \* <<node, destination>> whose path was ever lost
  losses      \* table entries lost so far

vars == <<paths, dedupe, air, emitted, forgot, losses>>

Entry == [next_hop : Nodes, iface : Media, hops : Nat, timebase : Nat, emission : Nat]

(* A copy of an announce on its way to the node `at'.  The packet hash leaves
   out the hops and the transport identity, so it is the emission's. *)
Copy == [at : Nodes, iface : Media, from : Nodes, hops : Nat,
         dest : Destinations, timebase : Nat, emission : Nat]

Init ==
  /\ paths = [n \in Nodes |-> [d \in Destinations |-> NULL]]
  /\ dedupe = [n \in Nodes |-> {}]
  /\ air = {} /\ emitted = 0 /\ forgot = {} /\ losses = 0

(* What the other nodes hear when n sends on the media in ifaces. *)
Copies(n, ifaces, dest, timebase, emission, hops) ==
  UNION {{[at |-> k, iface |-> i, from |-> n, hops |-> hops, dest |-> dest,
           timebase |-> timebase, emission |-> emission]
          : k \in {k \in Nodes \ {n} : i \in Attached[k]}} : i \in ifaces}

(***************************************************************************)
(* rns_runtime_announce sends on every interface, respond_local_path on    *)
(* the one a path request came from.  The timebase is the wall clock's     *)
(* second, which may repeat or step back.                                  *)
(***************************************************************************)
Emit(d, timebase, ifaces) ==
  /\ emitted < MaxEmissions
  /\ air' = air \cup Copies(Origin[d], ifaces, d, timebase, emitted + 1, 0)
  /\ emitted' = emitted + 1
  /\ UNCHANGED <<paths, dedupe, forgot, losses>>

Announce(d, timebase) == Emit(d, timebase, Attached[Origin[d]])
RespondPath(d, timebase, i) == i \in Attached[Origin[d]] /\ Emit(d, timebase, {i})

(* rns_node_ingress: the hop ceiling. *)
WithinCeiling_OffByOne(hops) == hops + 1 < MaxHops
WithinCeiling(hops) == hops < MaxHops

(* The hops of a path, and of the packet that goes on, count this node. *)
Farther(hops) == hops + 1

(* rns_transport_consider_announce: no live path, or an older one. *)
Newer_OrEqual(m, entry) == entry # NULL => m.timebase >= entry.timebase
Newer(m, entry) == entry # NULL => m.timebase > entry.timebase

(* The path entry: a Header 2 announce names the node that sent it on; a
   Header 1 announce comes from the destination itself. *)
Learned(m) ==
  [next_hop |-> m.from, iface |-> m.iface, hops |-> m.hops + 1,
   timebase |-> m.timebase, emission |-> m.emission]

(* The interfaces an announce that came in on i is sent on again. *)
Rebroadcast(n, i) ==
  IF n \in Forwarders THEN Attached[n] \ ({i} \ Repeated) ELSE {}

(* handle_announce and the rebroadcast in the runtime's ingress. *)
Receive(n, m) ==
  /\ m \in air /\ m.at = n /\ WithinCeiling(m.hops)
  /\ m.emission \notin dedupe[n]
  /\ dedupe' = [dedupe EXCEPT ![n] = @ \cup {m.emission}]
  /\ \/ /\ Newer(m, paths[n][m.dest])
        /\ paths' = [paths EXCEPT ![n][m.dest] = Learned(m)]
        /\ air' = air \cup Copies(n, Rebroadcast(n, m.iface), m.dest, m.timebase,
                                  m.emission, Farther(m.hops))
     \/ /\ ~Newer(m, paths[n][m.dest])
        /\ UNCHANGED <<paths, air>>
  /\ UNCHANGED <<emitted, forgot, losses>>

(* A path is lost: it expired, a full table gave its slot to another
   destination, or the node restarted. *)
LosePath(n, d) ==
  /\ losses < MaxLosses /\ losses' = losses + 1
  /\ paths[n][d] # NULL
  /\ paths' = [paths EXCEPT ![n][d] = NULL]
  /\ forgot' = forgot \cup {<<n, d>>}
  /\ UNCHANGED <<dedupe, air, emitted>>

(* A packet hash is forgotten, for the same reasons. *)
LoseHash(n, e) ==
  /\ losses < MaxLosses /\ losses' = losses + 1
  /\ e \in dedupe[n]
  /\ dedupe' = [dedupe EXCEPT ![n] = @ \ {e}]
  /\ UNCHANGED <<paths, air, emitted, forgot>>

Next ==
  \/ \E d \in Destinations, timebase \in Timebases : Announce(d, timebase)
  \/ \E d \in Destinations, timebase \in Timebases, i \in Media : RespondPath(d, timebase, i)
  \/ \E m \in air : Receive(m.at, m)
  \/ \E n \in Nodes, d \in Destinations : LosePath(n, d)
  \/ \E n \in Nodes : \E e \in dedupe[n] : LoseHash(n, e)

Spec == Init /\ [][Next]_vars

(* Every copy that is sent is heard: no packet is lost on the media. *)
FairSpec == Spec /\ WF_vars(\E m \in air : Receive(m.at, m))

----------------------------------------------------------------------------
TypeOK ==
  /\ paths \in [Nodes -> [Destinations -> Entry \cup {NULL}]]
  /\ dedupe \in [Nodes -> SUBSET (1 .. MaxEmissions)]
  /\ air \subseteq Copy /\ emitted \in 0 .. MaxEmissions
  /\ forgot \subseteq Nodes \X Destinations /\ losses \in 0 .. MaxLosses

(***************************************************************************)
(* No routing loop among nodes that kept their paths: whatever the order   *)
(* announces arrive in, and however often the clock repeats a second, a    *)
(* set of such nodes never hands a packet for d round among themselves.    *)
(* (consider_announce takes a strictly newer announce only; a node that    *)
(* lost its path may take back an older one from a node behind it.)        *)
(***************************************************************************)
Kept(d) == {n \in Nodes \ {Origin[d]} : <<n, d>> \notin forgot /\ paths[n][d] # NULL}
LoopFree ==
  \A d \in Destinations : \A S \in SUBSET Kept(d) :
    S # {} => \E n \in S : paths[n][d].next_hop \notin S

(***************************************************************************)
(* The hop counts along a route add up: a path learned from a node that    *)
(* still has the same announce is one hop longer than that node's, which   *)
(* is what the link and receipt timeouts per hop rely on.                  *)
(***************************************************************************)
HopsExact ==
  \A n \in Nodes, d \in Destinations :
    LET entry == paths[n][d] IN
    entry # NULL /\ <<entry.next_hop, d>> \notin forgot /\ entry.next_hop # Origin[d] =>
      LET before == paths[entry.next_hop][d] IN
      before # NULL /\ (before.emission = entry.emission => entry.hops = before.hops + 1)

(***************************************************************************)
(* A node that keeps its path sends an announce on once, even when its     *)
(* packet hash has expired from the cache meanwhile: every copy it ever    *)
(* sent has the same hops (rns_transport_consider_announce after the       *)
(* dedupe check).                                                          *)
(***************************************************************************)
RebroadcastOnce ==
  \A a, b \in air :
    a.from = b.from /\ a.emission = b.emission /\ a.from # Origin[a.dest]
      /\ <<a.from, a.dest>> \notin forgot => a.hops = b.hops

(* Routes are sound (the three above). *)
RoutesSound == TypeOK /\ LoopFree /\ HopsExact /\ RebroadcastOnce

(***************************************************************************)
(* Once announces stop, every node has a path of the newest second sent,   *)
(* if no node lost a table entry.                                          *)
(***************************************************************************)
Newest(d) == {m \in air : m.dest = d /\ \A k \in air : k.dest = d => k.timebase <= m.timebase}
Routed(d) ==
  Newest(d) # {} => \A n \in Nodes \ {Origin[d]} :
    paths[n][d] # NULL /\ \E m \in Newest(d) : paths[n][d].timebase = m.timebase
EventuallyRouted == <>[](losses = 0 => \A d \in Destinations : Routed(d))
=============================================================================
