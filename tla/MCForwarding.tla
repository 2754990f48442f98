--------------------------- MODULE MCForwarding -----------------------------
EXTENDS Forwarding, TLC

CONSTANTS s, b, c, t, m1, m2, m3

Route(next_hop, iface, hops) == [next_hop |-> next_hop, iface |-> iface, hops |-> hops]

(* Two transport nodes share a medium with the source; each has a medium of
   its own to the target, and the source hears one of these as well. *)
Meshed == (s :> {m1, m2}) @@ (b :> {m1, m2}) @@ (c :> {m1, m3}) @@ (t :> {m2, m3})

MeshedRoutes ==
  (s :> {Route(b, m1, 2), Route(c, m1, 2)}) @@ (b :> {Route(t, m2, 1), Route(c, m1, 2)}) @@
  (c :> {Route(t, m3, 1), Route(b, m1, 2)}) @@ (t :> {})
=============================================================================
