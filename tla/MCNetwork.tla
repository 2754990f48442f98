------------------------------ MODULE MCNetwork ------------------------------
(***************************************************************************)
(* Instances of how a network of nodes learns its paths (Routing) and of   *)
(* what it does with traffic while paths change and nothing fails          *)
(* (Forwarding).  A behaviour exercises one of them, named by part; the    *)
(* other rests in its initial state.                                       *)
(***************************************************************************)
EXTENDS Routing, TLC

CONSTANTS a, b, c, d, s, t, ab, ac, bc, cd, m1, m2, m3, service,
          Packets, Links, CarryHops, ReverseCapacity, LinkCapacity,
          CarryFaults, MaxReroutes, MaxStarts

VARIABLES part, path, heard, reverse, links, traffic, receipt, ends, faults,
          reroutes, forgetful

carryVars == <<path, heard, reverse, links, traffic, receipt, ends, faults,
               reroutes, forgetful>>

(* A ring of three nodes, two routes between any two of them, and a leaf d
   behind c. *)
LeafNodes == {a, b, c, d}
LeafMedia == {ab, ac, bc, cd}
LeafAttached ==
  (a :> {ab, ac}) @@ (b :> {ab, bc}) @@ (c :> {ac, bc, cd}) @@ (d :> {cd})
LeafOrigin == service :> a

(* Two transport nodes share a medium with the source; each has a medium of
   its own to the target, and the source hears one of these as well. *)
Meshed == (s :> {m1, m2}) @@ (b :> {m1, m2}) @@ (c :> {m1, m3}) @@ (t :> {m2, m3})
Route(next_hop, iface, hops) == [next_hop |-> next_hop, iface |-> iface, hops |-> hops]
MeshedRoutes ==
  (s :> {Route(b, m1, 2), Route(c, m1, 2)}) @@ (b :> {Route(t, m2, 1), Route(c, m1, 2)}) @@
  (c :> {Route(t, m3, 1), Route(b, m1, 2)}) @@ (t :> {})

Fw == INSTANCE Forwarding WITH
        Nodes <- {s, b, c, t}, Media <- {m1, m2, m3}, Attached <- Meshed,
        Forwarders <- {b, c}, Source <- s, Target <- t, Routes <- MeshedRoutes,
        MaxHops <- CarryHops, MaxFaults <- CarryFaults,
        dedupe <- heard, air <- traffic

NetworkInit ==
  /\ part \in {"routing", "forwarding"} /\ Init /\ Fw!Init
  /\ part = "routing" => path = [n \in {s, b, c, t} |->
       IF n = t THEN NULL ELSE CHOOSE e \in MeshedRoutes[n] : e.hops = 2]

RoutingNext == part = "routing" /\ Next /\ UNCHANGED <<part, carryVars>>

ForwardingNext == part = "forwarding" /\ Fw!Next /\ UNCHANGED <<part, vars>>

NetworkSpec ==
  /\ NetworkInit /\ [][RoutingNext \/ ForwardingNext]_<<part, vars, carryVars>>
  /\ WF_vars(part = "routing" /\ \E m \in air : Receive(m.at, m))
  /\ WF_carryVars(part = "forwarding" /\ Fw!Ingress)
  /\ \A id \in Links : WF_carryVars(part = "forwarding" /\ Fw!LinkSend(id))

----------------------------------------------------------------------------
(* Proofs come home and links carry packets both ways, whatever the paths do
   meanwhile (Forwarding). *)
ForwardingArrives == part = "forwarding" => Fw!TrafficArrives
=============================================================================
