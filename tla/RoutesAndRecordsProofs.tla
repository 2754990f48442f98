----------------------- MODULE RoutesAndRecordsProofs -----------------------
(***************************************************************************)
(* Two independent results.  Routes do not loop, for every network and     *)
(* every number of announces: the inductive invariant says that time never *)
(* runs backwards along a route, so the next hop of a path, and the sender *)
(* of a copy still in the air, has a path at least as new, unless it lost  *)
(* it.  Acknowledged records are durable, for any keys and payloads, any   *)
(* number of faults and any limit on the generations.                      *)
(***************************************************************************)
EXTENDS Routing, Journal, TLAPS

-----------------------------------------------------------------------------
(* The routes.                                                             *)

(* h is a node whose path for d was never lost and is not d itself. *)
Steady(h, d) == h # Origin[d] /\ <<h, d>> \notin forgot

AirEmitted == \A m \in air : m.emission \in 1 .. emitted
OneSecond == \A m, k \in air : m.emission = k.emission => m.dest = k.dest /\ m.timebase = k.timebase
AirBehind ==
  \A m \in air : Steady(m.from, m.dest) =>
    /\ paths[m.from][m.dest] # NULL
    /\ m.timebase <= paths[m.from][m.dest].timebase
AirHops ==
  \A m \in air : Steady(m.from, m.dest) =>
    (paths[m.from][m.dest].emission = m.emission => paths[m.from][m.dest].hops = m.hops)
PathHeard ==
  \A n \in Nodes, d \in Destinations : paths[n][d] # NULL =>
    \E m \in air : /\ m.dest = d /\ m.emission = paths[n][d].emission
                   /\ m.timebase = paths[n][d].timebase
PathBehind ==
  \A n \in Nodes, d \in Destinations :
    paths[n][d] # NULL /\ Steady(paths[n][d].next_hop, d) =>
      /\ paths[paths[n][d].next_hop][d] # NULL
      /\ paths[n][d].timebase <= paths[paths[n][d].next_hop][d].timebase

Inv ==
  /\ TypeOK /\ AirEmitted /\ OneSecond /\ AirBehind /\ AirHops
  /\ PathHeard /\ PathBehind /\ LoopFree /\ HopsExact /\ RebroadcastOnce

(* What a node sends: one header, stamped for each listener. *)
LEMMA CopiesSent ==
  ASSUME NEW n \in Nodes, NEW ifaces \in SUBSET Media, NEW dest \in Destinations,
         NEW timebase \in Nat, NEW emission \in Nat, NEW hops \in Nat
  PROVE  \A m \in Copies(n, ifaces, dest, timebase, emission, hops) :
           /\ m \in Copy
           /\ m.from = n /\ m.dest = dest /\ m.timebase = timebase
           /\ m.emission = emission /\ m.hops = hops
<1> SUFFICES ASSUME NEW m \in Copies(n, ifaces, dest, timebase, emission, hops)
             PROVE  /\ m \in Copy
                    /\ m.from = n /\ m.dest = dest /\ m.timebase = timebase
                    /\ m.emission = emission /\ m.hops = hops
  OBVIOUS
<1>1. PICK i \in ifaces, k \in Nodes :
        m = [at |-> k, iface |-> i, from |-> n, hops |-> hops, dest |-> dest,
             timebase |-> timebase, emission |-> emission]
  BY Zenon DEF Copies
<1> QED BY <1>1, Zenon DEF Copy

(* An emission leaves the path tables alone and is a new one. *)
LEMMA EmitKeepsInv ==
  ASSUME NEW d \in Destinations, NEW timebase \in Timebases,
         NEW ifaces \in SUBSET Media, Inv, Emit(d, timebase, ifaces)
  PROVE  Inv'
<1> DEFINE new == Copies(Origin[d], ifaces, d, timebase, emitted + 1, 0)
<1>1. /\ emitted < MaxEmissions /\ air' = air \cup new /\ emitted' = emitted + 1
      /\ paths' = paths /\ dedupe' = dedupe /\ forgot' = forgot /\ losses' = losses
  BY Zenon DEF Emit
<1>2. emitted \in Nat /\ emitted + 1 \in Nat /\ timebase \in Nat /\ Origin[d] \in Nodes
      /\ MaxEmissions \in Nat
  BY RoutingConfig DEF Inv, TypeOK
<1>3. \A m \in new : /\ m \in Copy /\ m.from = Origin[d] /\ m.dest = d
                     /\ m.timebase = timebase /\ m.emission = emitted + 1 /\ m.hops = 0
  BY <1>2, CopiesSent
<1> HIDE DEF new
<1>4. TypeOK' /\ AirEmitted'
  <2>1. emitted' \in 0 .. MaxEmissions
    BY <1>1, <1>2
  <2>2. air' \subseteq Copy
    BY <1>1, <1>3, Zenon DEF Inv, TypeOK
  <2>3. TypeOK'
    BY <2>1, <2>2, <1>1, Zenon DEF Inv, TypeOK
  <2>4. ASSUME NEW m \in air' PROVE m.emission \in 1 .. emitted'
    <3>1. CASE m \in air
      BY <3>1, <1>1, <1>2 DEF Inv, AirEmitted
    <3>2. CASE m \in new
      BY <3>2, <1>1, <1>2, <1>3
    <3> QED BY Zenon, <3>1, <3>2, <1>1
  <2> QED BY <2>3, <2>4, Zenon DEF AirEmitted
<1>5. \A m \in air : m.emission # emitted + 1
  BY <1>2 DEF Inv, AirEmitted
<1>6. OneSecond'
  BY <1>1, <1>3, <1>5 DEF Inv, OneSecond
<1>7. AirBehind' /\ AirHops'
  BY <1>1, <1>3, Zenon DEF Inv, AirBehind, AirHops, Steady
<1>8. PathHeard'
  BY <1>1 DEF Inv, PathHeard
<1>9. PathBehind' /\ LoopFree' /\ HopsExact'
  BY <1>1, Zenon DEF Inv, PathBehind, LoopFree, HopsExact, Kept, Steady
<1>10. RebroadcastOnce'
  BY <1>1, <1>3, <1>5 DEF Inv, RebroadcastOnce
<1> QED BY <1>4, <1>6, <1>7, <1>8, <1>9, <1>10, Zenon DEF Inv

(* A node that loses a path is no longer relied upon. *)
LEMMA LosePathKeepsInv ==
  ASSUME NEW n \in Nodes, NEW d \in Destinations, Inv, LosePath(n, d)
  PROVE  Inv'
<1>1. /\ paths' = [paths EXCEPT ![n][d] = NULL] /\ forgot' = forgot \cup {<<n, d>>}
      /\ losses < MaxLosses /\ losses' = losses + 1
      /\ dedupe' = dedupe /\ air' = air /\ emitted' = emitted
  BY Zenon DEF LosePath
<1>2. paths \in [Nodes -> [Destinations -> Entry \cup {NULL}]] /\ losses \in 0 .. MaxLosses
      /\ MaxLosses \in Nat
  BY RoutingConfig, Zenon DEF Inv, TypeOK
<1>3. \A k \in Nodes, s \in Destinations :
        /\ paths'[k][s] # NULL => paths'[k][s] = paths[k][s] /\ <<k, s>> # <<n, d>>
        /\ <<k, s>> # <<n, d>> => paths'[k][s] = paths[k][s]
  BY Zenon, <1>1, <1>2
<1>4. \A k, s : <<k, s>> \notin forgot' => <<k, s>> \notin forgot /\ <<k, s>> # <<n, d>>
  BY Zenon, <1>1
<1>5. \A k \in Nodes, s \in Destinations : paths[k][s] # NULL => paths[k][s].next_hop \in Nodes
  BY <1>2, Zenon DEF Entry
<1>6. \A m \in air : m.from \in Nodes /\ m.dest \in Destinations
  BY Zenon DEF Inv, TypeOK, Copy
<1>7. TypeOK'
  <2>1. paths' \in [Nodes -> [Destinations -> Entry \cup {NULL}]]
    BY Zenon, <1>1, <1>2
  <2>2. losses' \in 0 .. MaxLosses
    BY <1>1, <1>2
  <2>3. forgot' \subseteq Nodes \X Destinations
    BY <1>1 DEF Inv, TypeOK
  <2> QED BY <2>1, <2>2, <2>3, <1>1, Zenon DEF Inv, TypeOK
<1>8. AirEmitted' /\ OneSecond'
  BY <1>1, Zenon DEF Inv, AirEmitted, OneSecond
<1>9. AirBehind' /\ AirHops'
  BY <1>1, <1>3, <1>4, <1>6 DEF Inv, AirBehind, AirHops, Steady
<1>10. PathHeard'
  BY <1>1, <1>3 DEF Inv, PathHeard
<1>11. PathBehind'
  <2> SUFFICES ASSUME NEW k \in Nodes, NEW s \in Destinations, paths'[k][s] # NULL,
                      paths'[k][s].next_hop # Origin[s], <<paths'[k][s].next_hop, s>> \notin forgot'
               PROVE  /\ paths'[paths'[k][s].next_hop][s] # NULL
                      /\ paths'[k][s].timebase <= paths'[paths'[k][s].next_hop][s].timebase
    BY Zenon DEF PathBehind, Steady
  <2>1. paths'[k][s] = paths[k][s]
    BY Zenon, <1>3
  <2>2. Steady(paths[k][s].next_hop, s) /\ <<paths[k][s].next_hop, s>> # <<n, d>>
    BY <2>1, <1>4, Zenon DEF Steady
  <2>3. paths'[paths[k][s].next_hop][s] = paths[paths[k][s].next_hop][s]
    BY Zenon, <2>1, <2>2, <1>3, <1>5
  <2>4. /\ paths[paths[k][s].next_hop][s] # NULL
        /\ paths[k][s].timebase <= paths[paths[k][s].next_hop][s].timebase
    BY <2>1, <2>2, Zenon DEF Inv, PathBehind
  <2> QED BY Zenon, <2>1, <2>3, <2>4
<1>12. LoopFree'
  <2> SUFFICES ASSUME NEW s \in Destinations, NEW S \in SUBSET Kept(s)', S # {}
               PROVE  \E k \in S : paths'[k][s].next_hop \notin S
    BY Zenon DEF LoopFree
  <2>1. \A k \in S : k \in Kept(s) /\ paths'[k][s] = paths[k][s]
    BY <1>3, <1>4, Zenon DEF Kept
  <2>2. PICK k \in S : paths[k][s].next_hop \notin S
    BY <2>1, Zenon DEF Inv, LoopFree
  <2> QED BY Zenon, <2>1, <2>2
<1>13. HopsExact'
  <2> SUFFICES ASSUME NEW k \in Nodes, NEW s \in Destinations, paths'[k][s] # NULL,
                      <<paths'[k][s].next_hop, s>> \notin forgot', paths'[k][s].next_hop # Origin[s]
               PROVE  /\ paths'[paths'[k][s].next_hop][s] # NULL
                      /\ paths'[paths'[k][s].next_hop][s].emission = paths'[k][s].emission =>
                           paths'[k][s].hops = paths'[paths'[k][s].next_hop][s].hops + 1
    BY Zenon DEF HopsExact
  <2>1. paths'[k][s] = paths[k][s]
    BY Zenon, <1>3
  <2>2. paths'[paths[k][s].next_hop][s] = paths[paths[k][s].next_hop][s]
    BY <2>1, <1>3, <1>4, <1>5
  <2>3. <<paths[k][s].next_hop, s>> \notin forgot
    BY Zenon, <2>1, <1>4
  <2>4. HopsExact /\ paths[k][s] # NULL /\ paths[k][s].next_hop # Origin[s]
    BY <2>1, Zenon DEF Inv
  <2>5. /\ paths[paths[k][s].next_hop][s] # NULL
        /\ paths[paths[k][s].next_hop][s].emission = paths[k][s].emission =>
             paths[k][s].hops = paths[paths[k][s].next_hop][s].hops + 1
    BY <2>3, <2>4, Zenon DEF HopsExact
  <2> QED BY Zenon, <2>1, <2>2, <2>5
<1>14. RebroadcastOnce'
  BY <1>1, <1>4, Zenon DEF Inv, RebroadcastOnce
<1> QED BY <1>7, <1>8, <1>9, <1>10, <1>11, <1>12, <1>13, <1>14, Zenon DEF Inv

(* Packet hashes matter to no part of the invariant but its types. *)
LEMMA SameRoutesKeepInv ==
  ASSUME Inv, TypeOK', paths' = paths, air' = air, emitted' = emitted, forgot' = forgot
  PROVE  Inv'
<1>1. \A h, d : Steady(h, d)' <=> Steady(h, d)
  BY Zenon DEF Steady
<1>2. AirEmitted' /\ OneSecond'
  BY Zenon DEF Inv, AirEmitted, OneSecond
<1>3. AirBehind' /\ AirHops'
  BY <1>1, Zenon DEF Inv, AirBehind, AirHops
<1>4. PathHeard'
  BY DEF Inv, PathHeard
<1>5. PathBehind'
  BY <1>1, Zenon DEF Inv, PathBehind
<1>6. LoopFree'
  <2>1. \A d : Kept(d)' = Kept(d)
    BY Zenon DEF Kept
  <2> QED BY <2>1, Zenon DEF Inv, LoopFree
<1>7. HopsExact'
  BY Zenon DEF Inv, HopsExact
<1>8. RebroadcastOnce'
  BY Zenon DEF Inv, RebroadcastOnce
<1> QED BY <1>2, <1>3, <1>4, <1>5, <1>6, <1>7, <1>8, Zenon DEF Inv

LEMMA LoseHashKeepsInv ==
  ASSUME NEW n \in Nodes, NEW e \in dedupe[n], Inv, LoseHash(n, e)
  PROVE  Inv'
<1>1. /\ dedupe' = [dedupe EXCEPT ![n] = @ \ {e}]
      /\ losses < MaxLosses /\ losses' = losses + 1
      /\ paths' = paths /\ air' = air /\ emitted' = emitted /\ forgot' = forgot
  BY Zenon DEF LoseHash
<1>2. TypeOK'
  <2>1. dedupe' \in [Nodes -> SUBSET (1 .. MaxEmissions)]
    BY <1>1, Zenon DEF Inv, TypeOK
  <2>2. losses' \in 0 .. MaxLosses
    BY <1>1, RoutingConfig DEF Inv, TypeOK
  <2> QED BY <2>1, <2>2, <1>1, Zenon DEF Inv, TypeOK
<1> QED BY Zenon, <1>1, <1>2, SameRoutesKeepInv

(***************************************************************************)
(* A node that learns a path: nothing behind it is as new as what it       *)
(* learns, so no set of nodes that is closed under next hops can need it.  *)
(***************************************************************************)
Learns(n, m) ==
  /\ Newer(m, paths[n][m.dest])
  /\ dedupe' = [dedupe EXCEPT ![n] = @ \cup {m.emission}]
  /\ paths' = [paths EXCEPT ![n][m.dest] = Learned(m)]
  /\ air' = air \cup Copies(n, Rebroadcast(n, m.iface), m.dest, m.timebase,
                            m.emission, Farther(m.hops))
  /\ emitted' = emitted /\ forgot' = forgot /\ losses' = losses
LEMMA LearnKeepsInv ==
  ASSUME NEW n \in Nodes, NEW m \in air, Inv, Learns(n, m)
  PROVE  Inv'
<1> DEFINE d == m.dest
           new == Copies(n, Rebroadcast(n, m.iface), d, m.timebase, m.emission, Farther(m.hops))
           entry == Learned(m)
<1>1. /\ m.from \in Nodes /\ d \in Destinations /\ m.iface \in Media
      /\ m.hops \in Nat /\ m.timebase \in Nat /\ m.emission \in Nat
  BY Zenon DEF Inv, TypeOK, Copy
<1>2. m.emission \in 1 .. MaxEmissions
  BY RoutingConfig DEF Inv, TypeOK, AirEmitted
<1>3. entry \in Entry /\ entry # NULL
  <2>1. entry \in Entry
    BY <1>1 DEF Learned, Entry
  <2> QED BY <2>1, RoutingConfig, Zenon DEF Entry
<1>4. /\ entry.next_hop = m.from /\ entry.timebase = m.timebase
      /\ entry.emission = m.emission /\ entry.hops = m.hops + 1
  BY Zenon DEF Learned
<1>5. \A k \in new : /\ k \in Copy /\ k.from = n /\ k.dest = d /\ k.timebase = m.timebase
                     /\ k.emission = m.emission /\ k.hops = m.hops + 1
  <2>1. Rebroadcast(n, m.iface) \in SUBSET Media
    BY RoutingConfig, Zenon DEF Rebroadcast
  <2>2. Farther(m.hops) = m.hops + 1 /\ m.hops + 1 \in Nat
    BY <1>1 DEF Farther
  <2> HIDE DEF d, entry
  <2> QED BY <1>1, <2>1, <2>2, CopiesSent
<1>6. paths \in [Nodes -> [Destinations -> Entry \cup {NULL}]]
  BY Zenon DEF Inv, TypeOK
<1>7. /\ paths'[n][d] = entry
      /\ \A k \in Nodes, s \in Destinations :
           <<k, s>> # <<n, d>> => paths'[k][s] = paths[k][s]
  BY <1>1, <1>6, Zenon DEF Learns
<1>8. air' = air \cup new
  BY Zenon DEF Learns
<1>9. paths[n][d] # NULL => paths[n][d].timebase < m.timebase /\ paths[n][d].timebase \in Nat
  BY <1>1, <1>6, Zenon DEF Learns, Newer, Entry
<1>10. \A k \in Nodes, s \in Destinations : paths[k][s] # NULL =>
         paths[k][s].next_hop \in Nodes /\ paths[k][s].timebase \in Nat
  BY <1>6, Zenon DEF Entry
<1>11. paths' \in [Nodes -> [Destinations -> Entry \cup {NULL}]]
  BY <1>3, <1>6, Zenon DEF Learns
<1>0. m.dest = d
  OBVIOUS
<1> HIDE DEF new, entry, d
<1>12. \A k \in air : k.from \in Nodes /\ k.dest \in Destinations /\ k.timebase \in Nat
  BY Zenon DEF Inv, TypeOK, Copy
(* Copies that n sent before are of other, older announces. *)
<1>13. ASSUME NEW k \in air, k.from = n, k.dest = d, Steady(n, d)
       PROVE  k.timebase < m.timebase /\ k.emission # m.emission
  <2>1. paths[n][d] # NULL /\ k.timebase <= paths[n][d].timebase
    BY <1>13, Zenon DEF Inv, AirBehind
  <2>2. k.timebase < m.timebase
    BY <2>1, <1>1, <1>9, <1>12
  <2> QED BY <2>2, <1>0, <1>1, <1>12 DEF Inv, OneSecond
(* The same holds of paths through n. *)
<1>14. ASSUME NEW k \in Nodes, paths[k][d] # NULL, paths[k][d].next_hop = n, Steady(n, d)
       PROVE  paths[k][d].timebase < m.timebase
  <2>1. paths[n][d] # NULL /\ paths[k][d].timebase <= paths[n][d].timebase
    BY <1>1, <1>14, Zenon DEF Inv, PathBehind
  <2>2. paths[k][d].timebase \in Nat
    BY Zenon, <1>1, <1>10, <1>14
  <2> QED BY <2>1, <2>2, <1>1, <1>9
<1>15. Steady(m.from, d) => /\ m.from # n /\ paths[m.from][d] # NULL
                            /\ m.timebase <= paths[m.from][d].timebase
  BY <1>0, <1>13, <1>1, Zenon DEF Inv, AirBehind
<1>16. TypeOK'
  <2>1. dedupe' \in [Nodes -> SUBSET (1 .. MaxEmissions)]
    BY <1>2, Zenon DEF Inv, TypeOK, Learns
  <2>2. air' \subseteq Copy
    BY <1>5, <1>8, Zenon DEF Inv, TypeOK
  <2> QED BY <1>11, <2>1, <2>2, Zenon DEF Inv, TypeOK, Learns
<1>17. AirEmitted' /\ OneSecond'
  BY <1>0, <1>5, <1>8 DEF Inv, AirEmitted, OneSecond, Learns
<1>18. \A k, s : Steady(k, s)' <=> Steady(k, s)
  BY Zenon DEF Steady, Learns
<1>19. AirBehind'
  <2> SUFFICES ASSUME NEW k \in air', Steady(k.from, k.dest)
               PROVE  /\ paths'[k.from][k.dest] # NULL
                      /\ k.timebase <= paths'[k.from][k.dest].timebase
    BY <1>18, Zenon DEF AirBehind
  <2>1. CASE k \in new
    BY <2>1, <1>1, <1>3, <1>4, <1>5, <1>7
  <2>2. CASE k \in air /\ <<k.from, k.dest>> = <<n, d>>
    <3>1. k.from = n /\ k.dest = d /\ k.timebase \in Nat
      BY Zenon, <2>2, <1>12
    <3>2. k.timebase < m.timebase
      BY Zenon, <2>2, <3>1, <1>13
    <3> QED BY <3>1, <3>2, <1>1, <1>3, <1>4, <1>7
  <2>3. CASE k \in air /\ <<k.from, k.dest>> # <<n, d>>
    BY <2>3, <1>7, <1>12, Zenon DEF Inv, AirBehind
  <2> QED BY Zenon, <2>1, <2>2, <2>3, <1>8
<1>20. AirHops'
  <2> SUFFICES ASSUME NEW k \in air', Steady(k.from, k.dest),
                      paths'[k.from][k.dest].emission = k.emission
               PROVE  paths'[k.from][k.dest].hops = k.hops
    BY <1>18, Zenon DEF AirHops
  <2>1. CASE k \in new
    BY Zenon, <2>1, <1>4, <1>5, <1>7
  <2>2. CASE k \in air /\ <<k.from, k.dest>> = <<n, d>>
    BY Zenon, <2>2, <1>4, <1>7, <1>13
  <2>3. CASE k \in air /\ <<k.from, k.dest>> # <<n, d>>
    BY <2>3, <1>7, <1>12, Zenon DEF Inv, AirHops
  <2> QED BY Zenon, <2>1, <2>2, <2>3, <1>8
<1>21. PathHeard'
  <2> SUFFICES ASSUME NEW k \in Nodes, NEW s \in Destinations, paths'[k][s] # NULL
               PROVE  \E x \in air' : /\ x.dest = s /\ x.emission = paths'[k][s].emission
                                      /\ x.timebase = paths'[k][s].timebase
    BY Zenon DEF PathHeard
  <2>1. CASE <<k, s>> = <<n, d>>
    BY Zenon, <2>1, <1>0, <1>4, <1>7, <1>8
  <2>2. CASE <<k, s>> # <<n, d>>
    BY <2>2, <1>7, <1>8 DEF Inv, PathHeard
  <2> QED BY Zenon, <2>1, <2>2
<1>22. PathBehind'
  <2> SUFFICES ASSUME NEW k \in Nodes, NEW s \in Destinations, paths'[k][s] # NULL,
                      Steady(paths'[k][s].next_hop, s)
               PROVE  /\ paths'[paths'[k][s].next_hop][s] # NULL
                      /\ paths'[k][s].timebase <= paths'[paths'[k][s].next_hop][s].timebase
    BY <1>18, Zenon DEF PathBehind
  <2>1. CASE <<k, s>> = <<n, d>>
    <3>1. paths'[k][s] = entry /\ s = d /\ Steady(m.from, d)
      BY Zenon, <2>1, <1>4, <1>7
    <3>2. /\ paths'[m.from][d] = paths[m.from][d] /\ paths[m.from][d] # NULL
          /\ m.timebase <= paths[m.from][d].timebase
      BY Zenon, <3>1, <1>1, <1>7, <1>15
    <3> QED BY Zenon, <3>1, <3>2, <1>4
  <2>2. CASE <<k, s>> # <<n, d>> /\ <<paths[k][s].next_hop, s>> = <<n, d>>
    <3>1. s = d /\ paths'[k][s] = paths[k][s] /\ paths[k][s].next_hop = n
      BY Zenon, <2>2, <1>7
    <3>2. paths[k][s].timebase < m.timebase /\ paths[k][s].timebase \in Nat
      BY Zenon, <3>1, <1>10, <1>14
    <3> QED BY <3>1, <3>2, <1>1, <1>3, <1>4, <1>7
  <2>3. CASE <<k, s>> # <<n, d>> /\ <<paths[k][s].next_hop, s>> # <<n, d>>
    <3>1. paths'[k][s] = paths[k][s]
      BY Zenon, <2>3, <1>7
    <3>2. paths'[paths[k][s].next_hop][s] = paths[paths[k][s].next_hop][s]
      BY Zenon, <2>3, <3>1, <1>7, <1>10
    <3>3. /\ paths[paths[k][s].next_hop][s] # NULL
          /\ paths[k][s].timebase <= paths[paths[k][s].next_hop][s].timebase
      BY <3>1, Zenon DEF Inv, PathBehind
    <3> QED BY Zenon, <3>1, <3>2, <3>3
  <2> QED BY Zenon, <2>1, <2>2, <2>3
<1>23. LoopFree'
  <2> SUFFICES ASSUME NEW s \in Destinations, NEW S \in SUBSET Kept(s)', S # {},
                      \A k \in S : paths'[k][s].next_hop \in S
               PROVE  FALSE
    BY Zenon DEF LoopFree
  <2>1. \A k \in S : k \in Nodes /\ Steady(k, s) /\ paths'[k][s] # NULL
    BY Zenon DEF Kept, Steady, Learns
  <2>2. \A k \in S : <<k, s>> # <<n, d>> => k \in Kept(s) /\ paths'[k][s] = paths[k][s]
    BY <2>1, <1>7, Zenon DEF Kept, Steady
  <2>3. CASE s = d /\ n \in S
    <3> DEFINE U == {k \in S \ {n} : m.timebase <= paths[k][d].timebase}
    <3>1. m.from \in U
      BY Zenon, <2>1, <2>3, <1>4, <1>7, <1>15
    <3>2. ASSUME NEW k \in U PROVE k \in Kept(d) /\ paths[k][d].next_hop \in U
      <4>1. k \in Kept(d) /\ paths[k][d].next_hop \in S /\ paths[k][d] # NULL /\ k \in Nodes
        BY Zenon, <2>1, <2>2, <2>3
      <4>2. paths[k][d].next_hop # n
        BY <4>1, <2>1, <2>3, <1>1, <1>10, <1>14
      <4>3. /\ paths[paths[k][d].next_hop][d] # NULL
            /\ paths[k][d].timebase <= paths[paths[k][d].next_hop][d].timebase
        BY <4>1, <2>1, <2>3, Zenon DEF Inv, PathBehind
      <4>4. /\ m.timebase \in Nat /\ paths[k][d].timebase \in Nat
            /\ paths[paths[k][d].next_hop][d].timebase \in Nat
        BY Zenon, <4>1, <4>3, <1>1, <1>10
      <4>5. m.timebase <= paths[k][d].timebase
        OBVIOUS
      <4>6. m.timebase <= paths[paths[k][d].next_hop][d].timebase
        BY <4>3, <4>4, <4>5
      <4> QED BY Zenon, <4>1, <4>2, <4>6
    <3> QED BY <3>1, <3>2, <1>1, Zenon DEF Inv, LoopFree
  <2>4. CASE ~(s = d /\ n \in S)
    <3>1. \A k \in S : k \in Kept(s) /\ paths[k][s].next_hop \in S
      BY Zenon, <2>2, <2>4
    <3> QED BY <3>1, Zenon DEF Inv, LoopFree
  <2> QED BY Zenon, <2>3, <2>4
<1>24. HopsExact'
  <2> SUFFICES ASSUME NEW k \in Nodes, NEW s \in Destinations, paths'[k][s] # NULL,
                      Steady(paths'[k][s].next_hop, s)
               PROVE  /\ paths'[paths'[k][s].next_hop][s] # NULL
                      /\ paths'[paths'[k][s].next_hop][s].emission = paths'[k][s].emission =>
                           paths'[k][s].hops = paths'[paths'[k][s].next_hop][s].hops + 1
    BY Zenon DEF HopsExact, Steady, Learns
  <2>1. CASE <<k, s>> = <<n, d>>
    <3>1. paths'[k][s] = entry /\ s = d /\ Steady(m.from, d)
      BY Zenon, <2>1, <1>4, <1>7
    <3>2. m.from # n /\ paths[m.from][d] # NULL /\ paths'[m.from][d] = paths[m.from][d]
      BY Zenon, <3>1, <1>1, <1>7, <1>15
    <3>3. paths[m.from][d].emission = m.emission => paths[m.from][d].hops = m.hops
      BY <3>1, <1>0, Zenon DEF Inv, AirHops
    <3> QED BY <3>1, <3>2, <3>3, <1>4
  <2>2. CASE <<k, s>> # <<n, d>> /\ <<paths[k][s].next_hop, s>> = <<n, d>>
    <3>1. paths[k][d] # NULL /\ paths[k][d].timebase < m.timebase /\ paths'[k][s] = paths[k][d]
      BY Zenon, <2>2, <1>1, <1>7, <1>14
    <3>2. PICK x \in air : /\ x.dest = d /\ x.emission = paths[k][d].emission
                           /\ x.timebase = paths[k][d].timebase
      BY <3>1, <1>1 DEF Inv, PathHeard
    <3>3. paths[k][d].emission # m.emission
      BY <3>1, <3>2, <1>0, <1>1, <1>12 DEF Inv, OneSecond
    <3>4. paths'[paths'[k][s].next_hop][s] = entry
      BY Zenon, <2>2, <3>1, <1>7
    <3> QED BY Zenon, <3>1, <3>3, <3>4, <1>3, <1>4
  <2>3. CASE <<k, s>> # <<n, d>> /\ <<paths[k][s].next_hop, s>> # <<n, d>>
    <3>1. paths'[k][s] = paths[k][s]
      BY Zenon, <2>3, <1>7
    <3>2. paths'[paths[k][s].next_hop][s] = paths[paths[k][s].next_hop][s]
      BY Zenon, <2>3, <3>1, <1>7, <1>10
    <3>3. HopsExact /\ paths[k][s] # NULL
      BY <3>1, Zenon DEF Inv
    <3>4. <<paths[k][s].next_hop, s>> \notin forgot /\ paths[k][s].next_hop # Origin[s]
      BY <3>1, Zenon DEF Steady
    <3>5. /\ paths[paths[k][s].next_hop][s] # NULL
          /\ paths[paths[k][s].next_hop][s].emission = paths[k][s].emission =>
               paths[k][s].hops = paths[paths[k][s].next_hop][s].hops + 1
      BY <3>3, <3>4, Zenon DEF HopsExact
    <3> QED BY Zenon, <3>1, <3>2, <3>5
  <2> QED BY Zenon, <2>1, <2>2, <2>3
<1>25. RebroadcastOnce'
  <2> SUFFICES ASSUME NEW j \in air', NEW k \in air', j.from = k.from,
                      j.emission = k.emission, Steady(j.from, j.dest)
               PROVE  j.hops = k.hops
    BY Zenon DEF RebroadcastOnce, Steady, Learns
  <2>1. j.dest = k.dest
    BY <1>17, Zenon DEF OneSecond
  <2>2. CASE j \in air /\ k \in air
    BY <2>2, Zenon DEF Inv, RebroadcastOnce, Steady
  <2>3. CASE j \in new /\ k \in new
    BY Zenon, <2>3, <1>5
  <2>4. CASE (j \in new /\ k \in air) \/ (j \in air /\ k \in new)
    BY Zenon, <2>1, <2>4, <1>5, <1>13
  <2> QED BY Zenon, <2>2, <2>3, <2>4, <1>8
<1> QED BY <1>16, <1>17, <1>19, <1>20, <1>21, <1>22, <1>23, <1>24, <1>25, Zenon DEF Inv

(* Inv is inductive. *)
THEOREM RoutingInvariant == Spec => []Inv
<1>1. Init => Inv
  <2> SUFFICES ASSUME Init PROVE Inv
    OBVIOUS
  <2>1. \A n \in Nodes, d \in Destinations : paths[n][d] = NULL
    BY Zenon DEF Init
  <2>2. TypeOK
    BY RoutingConfig DEF Init, TypeOK
  <2>3. AirEmitted /\ OneSecond /\ AirBehind /\ AirHops /\ RebroadcastOnce
    BY Zenon DEF Init, AirEmitted, OneSecond, AirBehind, AirHops, RebroadcastOnce
  <2>4. PathHeard /\ PathBehind /\ HopsExact
    BY <2>1, Zenon DEF PathHeard, PathBehind, HopsExact
  <2>5. LoopFree
    BY <2>1, Zenon DEF LoopFree, Kept
  <2> QED BY <2>2, <2>3, <2>4, <2>5, Zenon DEF Inv
<1>2. Inv /\ [Next]_vars => Inv'
  <2> SUFFICES ASSUME Inv, [Next]_vars PROVE Inv'
    OBVIOUS
  <2>1. ASSUME NEW d \in Destinations, NEW timebase \in Timebases, Announce(d, timebase)
        PROVE  Inv'
    <3>1. Attached[Origin[d]] \in SUBSET Media
      BY Zenon, RoutingConfig
    <3> QED BY <2>1, <3>1, EmitKeepsInv, Zenon DEF Announce
  <2>2. ASSUME NEW d \in Destinations, NEW timebase \in Timebases, NEW i \in Media,
               RespondPath(d, timebase, i)
        PROVE  Inv'
    BY <2>2, EmitKeepsInv, Zenon DEF RespondPath
  <2>3. ASSUME NEW m \in air, Receive(m.at, m)
        PROVE  Inv'
    <3>1. m.at \in Nodes /\ m.emission \in 1 .. MaxEmissions
      BY RoutingConfig DEF Inv, TypeOK, AirEmitted, Copy
    <3>2. CASE Newer(m, paths[m.at][m.dest])
      <4>1. Learns(m.at, m)
        BY <2>3, <3>2, Zenon DEF Receive, Learns
      <4> QED BY Zenon, <4>1, <3>1, LearnKeepsInv
    <3>3. CASE ~Newer(m, paths[m.at][m.dest])
      <4>1. /\ dedupe' = [dedupe EXCEPT ![m.at] = @ \cup {m.emission}]
            /\ paths' = paths /\ air' = air /\ emitted' = emitted
            /\ forgot' = forgot /\ losses' = losses
        BY <2>3, <3>3, Zenon DEF Receive
      <4>2. TypeOK'
        BY <4>1, <3>1, Zenon DEF Inv, TypeOK
      <4> QED BY Zenon, <4>1, <4>2, SameRoutesKeepInv
    <3> QED BY Zenon, <3>2, <3>3
  <2>4. ASSUME NEW n \in Nodes, NEW d \in Destinations, LosePath(n, d)
        PROVE  Inv'
    BY Zenon, <2>4, LosePathKeepsInv
  <2>5. ASSUME NEW n \in Nodes, NEW e \in dedupe[n], LoseHash(n, e)
        PROVE  Inv'
    BY Zenon, <2>5, LoseHashKeepsInv
  <2>6. CASE UNCHANGED vars
    <3>1. TypeOK'
      BY <2>6, Zenon DEF vars, Inv, TypeOK
    <3> QED BY <2>6, <3>1, SameRoutesKeepInv, Zenon DEF vars
  <2> QED BY <2>1, <2>2, <2>3, <2>4, <2>5, <2>6, Zenon DEF Next
<1> QED BY <1>1, <1>2, PTL DEF Spec

(* Nodes that kept their paths never hand a packet round in a circle. *)
THEOREM RoutingLoopFree == Spec => []LoopFree
<1>1. Inv => LoopFree
  BY Zenon DEF Inv
<1> QED BY <1>1, RoutingInvariant, PTL

(* A path is one hop longer than the path it was learned from. *)
THEOREM RoutingHops == Spec => []HopsExact
<1>1. Inv => HopsExact
  BY Zenon DEF Inv
<1> QED BY <1>1, RoutingInvariant, PTL

(* A node that keeps its path sends an announce on once, even after its hash
   has expired. *)
THEOREM RoutingRebroadcast == Spec => []RebroadcastOnce
<1>1. Inv => RebroadcastOnce
  BY Zenon DEF Inv
<1> QED BY <1>1, RoutingInvariant, PTL

(* Routes are sound in every network: all of the above, and the types. *)
THEOREM RoutesAreSound == Spec => []RoutesSound
<1>1. Inv => RoutesSound
  BY Zenon DEF Inv, RoutesSound
<1> QED BY <1>1, RoutingInvariant, PTL

-----------------------------------------------------------------------------
(* The journal and the NVS slots.                                          *)

Other(s) == IF s = "a" THEN "b" ELSE "a"

\* What a reader may be given without a loss.
Allowed(k) == {acked[k]} \cup attempted[k]

\* The keys that may not be refused.
Intact(k) == acked[k] # Gone /\ (provider = "journal" \/ Gone \notin attempted[k])

\* Cells are told apart by their kind; two good records of a key never carry
\* one generation, or the newest of them would be the one that is written.
Ordered(k) ==
    Valid(k, "a") /\ Valid(k, "b") => slots[k]["a"].gen # slots[k]["b"].gen

\* What the pair of a key reads as: its newest record, or nothing at all.
Readable(k) ==
    /\ Healthy(k) => slots[k][NewestSlot(k)].value \in Allowed(k)
    /\ slots[k]["a"] = Blank /\ slots[k]["b"] = Blank => Gone \in Allowed(k)
    /\ Intact(k) => Healthy(k)
    /\ k \in quarantined => provider = "journal" /\ ~Intact(k)

\* The slot a write works on is never the one that is read meanwhile: the other
\* holds the record before it, or the pair was blank when the write began.
Behind(k, s) ==
    \/ /\ Valid(k, Other(s))
       /\ slots[k][Other(s)].gen + 1 = op.record.gen
       /\ slots[k][Other(s)].value \in Allowed(k)
       /\ Valid(k, s) => slots[k][s].gen < slots[k][Other(s)].gen
                         \/ (op.step = "verify" /\ slots[k][s] = op.record)
    \/ /\ slots[k][Other(s)] = Blank /\ Gone \in Allowed(k) /\ ~Intact(k)
       /\ slots[k][s] = IF op.step = "verify" THEN op.record ELSE Blank

Writing ==
    /\ op.step \in {"erase", "write", "verify"}
    /\ op.record.value \in attempted[op.key]
    /\ op.key \notin quarantined
    /\ Behind(op.key, op.slot)
    /\ op.step = "verify" => slots[op.key][op.slot] = op.record
    /\ op.step \in {"erase", "verify"} => provider = "journal"

\* A removal gives up both slots; until it returns, any of them may be read.
Removing ==
    /\ op.step \in {"erase_a", "erase_b", "erase_rest"}
    /\ provider = "nvs"
    /\ Gone \in attempted[op.key]
    /\ \A s \in SlotNames :
          Valid(op.key, s) => slots[op.key][s].value \in attempted[op.key]
    /\ op.slot = IF op.step = "erase_a" THEN "a" ELSE "b"
    /\ op.step = "erase_b" => slots[op.key]["a"] = Blank

RecordsKept ==
    /\ JournalTypeOK
    /\ \A k \in JournalKeys : Ordered(k) /\ Readable(k)
    /\ op # Idle => opened /\ (Writing \/ Removing)

-----------------------------------------------------------------------------

\* A fresh partition reads as nothing, and nothing was acknowledged.
LEMMA KeptInitially ==
    ASSUME JournalInit, LastGeneration \in Nat, Providers \subseteq {"journal", "nvs"}
    PROVE  RecordsKept
<1>1. JournalTypeOK
  BY Zenon DEF JournalInit, JournalTypeOK, Cells, RecordValues, FlashOperations, SlotNames
<1>2. ASSUME NEW k \in JournalKeys
      PROVE  Ordered(k) /\ Readable(k)
  BY Zenon DEF JournalInit, Ordered, Readable, Valid, Healthy, Blank, Allowed, Intact,
     SlotNames
<1> QED
  BY <1>1, <1>2, Zenon DEF RecordsKept, JournalInit

\* What the invariant is for.
LEMMA KeptIsDurable ==
    ASSUME RecordsKept PROVE Durable
<1> SUFFICES ASSUME NEW k \in JournalKeys
             PROVE  /\ ReadOf(k) \in Allowed(k) \cup (IF Intact(k) THEN {} ELSE {Refusal})
                    /\ Intact(k) => k \notin quarantined /\ (provider = "journal" => Opens)
  BY Zenon DEF Durable, Intact, Allowed
<1>1. Readable(k)
  BY Zenon DEF RecordsKept
<1>2. ~Healthy(k) /\ ~Damaged(k) => slots[k]["a"] = Blank /\ slots[k]["b"] = Blank
  BY DEF Damaged, Healthy, Valid, SlotNames, RecordsKept, JournalTypeOK, Cells, Blank, Torn
<1>3. Damaged(k) => ~Healthy(k)
  BY Zenon DEF Damaged
<1>4. Intact(k) => Opens
  BY <1>1, Zenon DEF Readable, Opens
<1>5. provider = "nvs" => k \notin quarantined
  BY <1>1, Zenon DEF Readable
<1>6. ReadRecord(k) \in Allowed(k) \cup (IF Intact(k) THEN {} ELSE {Refusal})
  BY <1>1, <1>2, <1>3, Zenon DEF ReadRecord, Readable
<1>7. NvsRead(k) \in Allowed(k) \cup (IF Intact(k) THEN {} ELSE {Refusal})
  BY <1>1, <1>2, <1>3, Zenon DEF NvsRead, Readable
<1> QED
  BY <1>1, <1>4, <1>6, <1>7, Zenon DEF ReadOf, Readable

-----------------------------------------------------------------------------
(* One key, one slot.                                                       *)

\* A key that a step leaves alone stays readable.
LEMMA Untouched ==
    ASSUME RecordsKept, NEW k \in JournalKeys, provider' = provider,
           slots'[k] = slots[k], acked'[k] = acked[k], attempted'[k] = attempted[k],
           k \in quarantined' => k \in quarantined
    PROVE  Ordered(k)' /\ Readable(k)'
BY Zenon DEF RecordsKept, Ordered, Readable, Valid, Healthy, NewestSlot, Allowed, Intact

\* rns_storage_record_next_slot never picks the record that is read.
LEMMA ChosenSlot ==
    ASSUME RecordsKept, NEW k \in JournalKeys, ~Damaged(k), LastGeneration \in Nat
    PROVE  LET s == WriteSlot(k)
               o == Other(s)
           IN  /\ s \in SlotNames
               /\ Generation(k) \in Nat
               /\ \/ /\ Valid(k, o) /\ slots[k][o].gen = Generation(k)
                     /\ slots[k][o].value \in Allowed(k)
                     /\ Valid(k, s) => slots[k][s].gen < slots[k][o].gen
                  \/ /\ slots[k][o] = Blank /\ slots[k][s] = Blank
                     /\ Generation(k) = 0
                     /\ Gone \in Allowed(k) /\ ~Intact(k)
<1>1. Ordered(k) /\ Readable(k)
  BY Zenon DEF RecordsKept
<1>2. \A s \in SlotNames : slots[k][s] \in Cells
  BY Zenon DEF RecordsKept, JournalTypeOK
<1>3. \A s \in SlotNames : Valid(k, s) => slots[k][s].gen \in Nat
  BY <1>2 DEF Valid, Cells, Blank, Torn
<1>4. CASE Healthy(k)
  <2>1. slots[k][NewestSlot(k)].value \in Allowed(k) /\ Generation(k) = slots[k][NewestSlot(k)].gen
    BY <1>1, <1>4, Zenon DEF Readable, Generation
  <2>2. CASE Valid(k, "a") /\ ~Valid(k, "b")
    <3>1. WriteSlot(k) = "b" /\ NewestSlot(k) = "a"
      BY <2>2, Zenon DEF WriteSlot, NewestSlot
    <3> QED
      BY <1>3, <2>1, <2>2, <3>1, Zenon DEF Other, SlotNames
  <2>3. CASE ~Valid(k, "a") /\ Valid(k, "b")
    <3>1. WriteSlot(k) = "a" /\ NewestSlot(k) = "b"
      BY <2>3, Zenon DEF WriteSlot, NewestSlot
    <3> QED
      BY <1>3, <2>1, <2>3, <3>1, Zenon DEF Other, SlotNames
  <2>4. CASE Valid(k, "a") /\ Valid(k, "b")
    <3>1. PICK x \in Nat, y \in Nat :
            x = slots[k]["a"].gen /\ y = slots[k]["b"].gen /\ x # y
      BY <1>1, <1>3, <2>4, Zenon DEF Ordered, SlotNames
    <3>2. /\ x < y => WriteSlot(k) = "a" /\ NewestSlot(k) = "b"
          /\ y < x => WriteSlot(k) = "b" /\ NewestSlot(k) = "a"
      BY <2>4, <3>1 DEF WriteSlot, NewestSlot
    <3>3. x < y \/ y < x
      BY <3>1
    <3> QED
      BY <2>1, <2>4, <3>1, <3>2, <3>3, Zenon DEF Other, SlotNames
  <2> QED
    BY <1>4, <2>2, <2>3, <2>4, Zenon DEF Healthy
<1>5. CASE ~Healthy(k)
  <2>1. slots[k]["a"] = Blank /\ slots[k]["b"] = Blank
    BY <1>2, <1>5 DEF Damaged, Healthy, Valid, SlotNames, Cells, Blank, Torn
  <2> QED
    BY <1>1, <1>5, <2>1, Zenon DEF Healthy, WriteSlot, Generation, Other, Readable, SlotNames
<1> QED
  BY Zenon, <1>4, <1>5

\* Whatever a write leaves in its slot, the key stays readable.
LEMMA SlotRewritten ==
    ASSUME RecordsKept, op # Idle, Writing, LastGeneration \in Nat,
           NEW c \in {slots[op.key][op.slot], Torn, Blank, op.record}, Put(c),
           provider' = provider, acked' = acked, attempted' = attempted,
           quarantined' \subseteq quarantined
    PROVE  \A k \in JournalKeys : Ordered(k)' /\ Readable(k)'
<1>p. PICK j \in JournalKeys, s \in SlotNames, o \in SlotNames :
        j = op.key /\ s = op.slot /\ o = Other(s)
  BY Zenon DEF RecordsKept, JournalTypeOK, FlashOperations, SlotNames, Other
<1>c. c = slots[op.key][op.slot] \/ c = Torn \/ c = Blank \/ c = op.record
  OBVIOUS
<1>0. /\ j \in JournalKeys /\ s \in SlotNames /\ o \in SlotNames /\ o # s
      /\ op.record \in [is : {"good"}, gen : 1 .. LastGeneration, value : RecordValues]
  BY <1>p, Zenon DEF RecordsKept, JournalTypeOK, FlashOperations, SlotNames, Other
<1>1. /\ slots'[j][s] = c /\ slots'[j][o] = slots[j][o]
      /\ \A k \in JournalKeys \ {j} : slots'[k] = slots[k]
  BY <1>0, <1>p, Zenon DEF Put, RecordsKept, JournalTypeOK
<1>2. ASSUME NEW k \in JournalKeys, k # j PROVE Ordered(k)' /\ Readable(k)'
  BY Zenon, <1>1, <1>2, Untouched
<1>3. Ordered(j) /\ Readable(j)
  BY <1>0, Zenon DEF RecordsKept
<1>4. \A t \in SlotNames : Valid(j, t) => slots[j][t].gen \in Nat
  BY <1>0 DEF RecordsKept, JournalTypeOK, Valid, Cells, Blank, Torn
<1>5. Ordered(j)' /\ Readable(j)'
  <2>1. j \notin quarantined' /\ op.record.value \in attempted[j]
    BY <1>p, Zenon DEF Writing
  <2>2. CASE /\ Valid(j, o) /\ slots[j][o].gen + 1 = op.record.gen
             /\ slots[j][o].value \in Allowed(j)
             /\ Valid(j, s) => slots[j][s].gen < slots[j][o].gen
                                \/ slots[j][s] = op.record
    <3>1. \/ slots'[j][s].is # "good"
          \/ /\ slots'[j][s].is = "good" /\ slots'[j][s].gen \in Nat
             /\ slots'[j][s].gen < slots[j][o].gen
          \/ /\ slots'[j][s].is = "good" /\ slots'[j][s].gen = slots[j][o].gen + 1
             /\ slots'[j][s].value \in attempted[j]
      <4>1. CASE c = op.record \/ (slots[j][s] = op.record /\ c = slots[j][s])
        BY Zenon, <1>0, <1>1, <2>1, <2>2, <4>1
      <4>2. CASE c = slots[j][s] /\ slots[j][s] # op.record
        BY <1>0, <1>1, <1>4, <2>2, <4>2, Zenon DEF Valid
      <4>3. CASE c = Torn \/ c = Blank
        BY <1>1, <4>3 DEF Torn, Blank
      <4>4. c = slots[j][s] \/ c = Torn \/ c = Blank \/ c = op.record
        BY <1>c, <1>p, Zenon
      <4> QED
        BY Zenon, <4>1, <4>2, <4>3, <4>4
    <3>2. slots[j][o].gen \in Nat /\ slots[j][o].is = "good"
      BY <1>0, <1>4, <2>2, Zenon DEF Valid
    <3>3. (s = "a" /\ o = "b") \/ (s = "b" /\ o = "a")
      BY <1>0, Zenon DEF SlotNames
    <3>4. Ordered(j)'
      BY <1>1, <3>1, <3>2, <3>3 DEF Ordered, Valid
    <3>5. Healthy(j)' /\ slots'[j][NewestSlot(j)'].value \in Allowed(j)
      BY <1>1, <2>2, <3>1, <3>2, <3>3 DEF Healthy, NewestSlot, Valid, Allowed
    <3> QED
      BY <1>1, <2>1, <3>2, <3>3, <3>4, <3>5 DEF Readable, Allowed, Blank, Healthy
  <2>3. CASE slots[j][o] = Blank /\ Gone \in Allowed(j) /\ ~Intact(j)
             /\ (slots[j][s] = Blank \/ slots[j][s] = op.record)
    <3>1. (s = "a" /\ o = "b") \/ (s = "b" /\ o = "a")
      BY <1>0, Zenon DEF SlotNames
    <3>2. slots'[j][s].is # "good" \/ slots'[j][s].value \in attempted[j]
      BY <1>0, <1>1, <1>p, <2>1, <2>3 DEF Torn, Blank
    <3>3. slots'[j][o].is # "good" /\ (slots'[j][s] = Blank => ~Healthy(j)')
      BY <1>1, <2>3, <3>1 DEF Blank, Healthy, Valid
    <3>4. Ordered(j)' /\ (Healthy(j)' => NewestSlot(j)' = s /\ slots'[j][s].is = "good")
      BY <3>1, <3>3, Zenon DEF Ordered, Valid, Healthy, NewestSlot
    <3>5. Gone \in Allowed(j)' /\ ~Intact(j)' /\ attempted[j] \subseteq Allowed(j)'
      BY <2>3, Zenon DEF Allowed, Intact
    <3> QED
      BY <2>1, <3>2, <3>4, <3>5, Zenon DEF Readable
  <2> QED
    BY <1>p, <2>2, <2>3, Zenon DEF Writing, Behind
<1> QED
  BY Zenon, <1>2, <1>5

\* Whatever a removal leaves in its slot, the key stays readable.
LEMMA SlotRemoved ==
    ASSUME RecordsKept, op # Idle, Removing,
           NEW c \in {slots[op.key][op.slot], Torn, Blank}, Put(c),
           provider' = provider, acked' = acked, attempted' = attempted,
           quarantined' \subseteq quarantined
    PROVE  \A k \in JournalKeys : Ordered(k)' /\ Readable(k)'
<1>p. PICK j \in JournalKeys, s \in SlotNames, o \in SlotNames :
        j = op.key /\ s = op.slot /\ o = Other(s)
  BY Zenon DEF RecordsKept, JournalTypeOK, FlashOperations, SlotNames, Other
<1>0. j \in JournalKeys /\ s \in SlotNames /\ o \in SlotNames /\ o # s
  BY <1>p, Zenon DEF SlotNames, Other
<1>1. /\ slots'[j][s] = c /\ slots'[j][o] = slots[j][o]
      /\ \A k \in JournalKeys \ {j} : slots'[k] = slots[k]
  BY <1>0, <1>p, Zenon DEF Put, RecordsKept, JournalTypeOK
<1>2. ASSUME NEW k \in JournalKeys, k # j PROVE Ordered(k)' /\ Readable(k)'
  BY Zenon, <1>1, <1>2, Untouched
<1>3. Ordered(j) /\ j \notin quarantined /\ Gone \in attempted[j]
  BY <1>0, <1>p, Zenon DEF RecordsKept, Removing, Readable
<1>4. \A t \in SlotNames : slots'[j][t].is = "good" =>
         slots'[j][t] = slots[j][t] /\ slots[j][t].value \in attempted[j]
  BY <1>0, <1>1, <1>p DEF Removing, Valid, Torn, Blank, SlotNames
<1>5. Ordered(j)' /\ Readable(j)'
  BY <1>3, <1>4, Zenon DEF Removing, Ordered, Readable, Valid, Healthy, NewestSlot, Allowed,
     Intact, SlotNames
<1> QED
  BY Zenon, <1>2, <1>5

-----------------------------------------------------------------------------
(* The steps.                                                               *)

\* A write begins on a pair that is not damaged, in the slot that is not read.
LEMMA BeginKeeps ==
    ASSUME RecordsKept, LastGeneration \in Nat, NEW step \in {"erase", "write"},
           NEW k \in JournalKeys, NEW v \in RecordValues, Accepts(k), k \notin quarantined,
           step = "erase" => provider = "journal", Begin(step, k, v)
    PROVE  RecordsKept'
<1>1. ~Damaged(k) /\ Generation(k) < LastGeneration
  BY Zenon DEF Accepts
<1> PICK s \in SlotNames, o \in SlotNames, g \in Nat :
        /\ s = WriteSlot(k) /\ o = Other(s) /\ g = Generation(k)
        /\ \/ /\ Valid(k, o) /\ slots[k][o].gen = g /\ slots[k][o].value \in Allowed(k)
              /\ Valid(k, s) => slots[k][s].gen < slots[k][o].gen
           \/ /\ slots[k][o] = Blank /\ slots[k][s] = Blank /\ g = 0
              /\ Gone \in Allowed(k) /\ ~Intact(k)
  BY <1>1, ChosenSlot DEF Other, SlotNames
<1>2. /\ op' = [step |-> step, key |-> k, slot |-> s, record |-> Good(g + 1, v)]
      /\ attempted' = [attempted EXCEPT ![k] = @ \cup {v}]
      /\ UNCHANGED <<provider, slots, opened, quarantined, acked, flash_faults>>
  BY Zenon DEF Begin
<1>3. /\ attempted'[k] = attempted[k] \cup {v}
      /\ \A j \in JournalKeys \ {k} : attempted'[j] = attempted[j]
  BY <1>2, Zenon DEF RecordsKept, JournalTypeOK
<1>4. JournalTypeOK'
  <2>1. Good(g + 1, v) \in [is : {"good"}, gen : 1 .. LastGeneration, value : RecordValues]
    BY <1>1 DEF Good
  <2>2. op' \in FlashOperations
    BY <1>2, <2>1, Zenon DEF FlashOperations
  <2> QED
    BY <1>2, <2>2, Zenon DEF RecordsKept, JournalTypeOK
<1>5. ASSUME NEW j \in JournalKeys PROVE Ordered(j)' /\ Readable(j)'
  <2>1. CASE j # k
    BY Zenon, <1>2, <1>3, <2>1, Untouched
  <2>2. CASE j = k
    <3>1. Ordered(k) /\ Readable(k)
      BY Zenon DEF RecordsKept
    <3> QED
      BY <1>2, <1>3, <2>2, <3>1, Zenon DEF Ordered, Readable, Valid, Healthy, NewestSlot,
         Allowed, Intact
  <2> QED
    BY Zenon, <2>1, <2>2
<1>6. Writing'
  <2>1. Valid(k, o)' = Valid(k, o) /\ Valid(k, s)' = Valid(k, s)
    BY <1>2, Zenon DEF Valid
  <2>2. Behind(k, s)'
    BY <1>2, <1>3, <2>1, Zenon DEF Behind, Allowed, Intact, Good
  <2> QED
    BY <1>2, <1>3, <2>2, Zenon DEF Writing, Good
<1> QED
  BY <1>2, <1>4, <1>5, <1>6, Zenon DEF RecordsKept, Accepts

\* A record that waits behind a write is the one the write succeeds.
LEMMA BehindIsOlder ==
    ASSUME NEW k, NEW s, Behind(k, s), Valid(k, Other(s))
    PROVE  slots[k][Other(s)].gen + 1 = op.record.gen /\ slots[k][Other(s)].value \in Allowed(k)
<1>1. slots[k][Other(s)] # Blank
  BY DEF Valid, Blank
<1> QED
  BY <1>1, Zenon DEF Behind

\* The chosen slot is erased, then programmed.
LEMMA WriteStepKeeps ==
    ASSUME RecordsKept, LastGeneration \in Nat, Erase \/ Program
    PROVE  RecordsKept'
<1>p. PICK j \in JournalKeys, s \in SlotNames, o \in SlotNames,
           r \in [is : {"good"}, gen : 1 .. LastGeneration, value : RecordValues] :
        op # Idle /\ j = op.key /\ s = op.slot /\ o = Other(s) /\ r = op.record
  BY Zenon DEF Erase, Program, Working, RecordsKept, JournalTypeOK, FlashOperations,
     SlotNames, Other
<1>1. Writing /\ op # Idle
  BY Zenon DEF RecordsKept, Erase, Program, Working, Removing
<1>2. PICK c \in {Blank, r} :
        /\ Put(c)
        /\ \/ /\ c = Blank /\ op' = [op EXCEPT !.step = "write"]
           \/ /\ c = r /\ op' = [op EXCEPT !.step = "verify"] /\ provider = "journal"
  BY <1>p, Zenon DEF Erase, Program
<1>3. UNCHANGED <<provider, opened, quarantined, acked, attempted, flash_faults>>
  BY Zenon DEF Erase, Program
<1>4. \A k \in JournalKeys : Ordered(k)' /\ Readable(k)'
  BY Zenon, <1>1, <1>2, <1>3, <1>p, SlotRewritten
<1>5. /\ slots'[j][s] = c /\ slots'[j][o] = slots[j][o] /\ o # s
      /\ slots' \in [JournalKeys -> [SlotNames -> Cells]]
  BY <1>2, <1>p DEF Put, RecordsKept, JournalTypeOK, Cells, Blank, Other
<1>6. op' \in FlashOperations /\ op'.key = j /\ op'.slot = s /\ op'.record = r
  BY <1>2, <1>p, Zenon DEF RecordsKept, JournalTypeOK, FlashOperations, Idle
<1>7. \/ op'.step = "write" /\ c = Blank
      \/ op'.step = "verify" /\ c = r /\ provider = "journal"
  BY <1>2, <1>p, Zenon DEF RecordsKept, JournalTypeOK, FlashOperations, Idle
<1>8. JournalTypeOK'
  BY <1>3, <1>5, <1>6, Zenon DEF RecordsKept, JournalTypeOK
<1>9. Writing'
  <2>1. Behind(j, s) /\ op.step # "verify" /\ r.value \in attempted[j] /\ j \notin quarantined
    BY <1>1, <1>p, Zenon DEF Writing, Erase, Program, Working
  <2>2. Valid(j, o)' = Valid(j, o)
    BY <1>5, Zenon DEF Valid
  <2>3. Valid(j, s)' => c = r
    BY <1>5 DEF Valid, Blank
  <2>4. Behind(j, s)'
    <3>1. Allowed(j)' = Allowed(j) /\ Intact(j)' = Intact(j)
      BY <1>3, Zenon DEF Allowed, Intact
    <3>2. CASE Valid(j, o)
      <4>1. slots[j][o].gen + 1 = r.gen /\ slots[j][o].value \in Allowed(j)
        BY Zenon, <1>p, <2>1, <3>2, BehindIsOlder
      <4>2. Valid(j, s)' => op'.step = "verify" /\ slots'[j][s] = op'.record
        BY <1>5, <1>6, <1>7, <2>3 DEF Valid, Blank
      <4> QED
        BY <1>5, <1>6, <1>p, <2>2, <3>1, <3>2, <4>1, <4>2, Zenon DEF Behind
    <3>3. CASE ~Valid(j, o)
      BY <1>5, <1>6, <1>7, <1>p, <2>1, <2>2, <2>3, <3>1, <3>3, Zenon DEF Behind
    <3> QED
      BY Zenon, <3>2, <3>3
  <2> QED
    BY <1>3, <1>5, <1>6, <1>7, <2>1, <2>4, Zenon DEF Writing
<1> QED
  BY <1>1, <1>3, <1>4, <1>8, <1>9, Zenon DEF RecordsKept

\* A write is acknowledged once its record is in the slot, and then it is the
\* newest of its key.
LEMMA WriteEndKeeps ==
    ASSUME RecordsKept, LastGeneration \in Nat, SetBlob \/ Verify
    PROVE  RecordsKept'
<1>p. PICK j \in JournalKeys, s \in SlotNames, o \in SlotNames,
           r \in [is : {"good"}, gen : 1 .. LastGeneration, value : RecordValues] :
        op # Idle /\ j = op.key /\ s = op.slot /\ o = Other(s) /\ r = op.record
  BY Zenon DEF SetBlob, Verify, Working, RecordsKept, JournalTypeOK, FlashOperations,
     SlotNames, Other
<1>1. Writing /\ op # Idle
  BY Zenon DEF RecordsKept, SetBlob, Verify, Working, Removing
<1>2. /\ UNCHANGED <<provider, opened, quarantined, flash_faults>> /\ op' = Idle
      /\ acked' = [acked EXCEPT ![j] = r.value]
      /\ attempted' = [attempted EXCEPT ![j] = {}]
  BY <1>p, Zenon DEF SetBlob, Verify, Acknowledge
<1>3. /\ slots' \in [JournalKeys -> [SlotNames -> Cells]]
      /\ slots'[j][s] = r /\ slots'[j][o] = slots[j][o] /\ o # s
      /\ \A k \in JournalKeys \ {j} : slots'[k] = slots[k]
  <2>1. CASE SetBlob
    BY <1>p, <2>1, Zenon DEF SetBlob, Put, RecordsKept, JournalTypeOK, Cells, Other
  <2>2. CASE Verify
    BY <1>1, <1>p, <2>2, Zenon DEF Verify, Working, Writing, RecordsKept, JournalTypeOK, Other
  <2> QED
    BY Zenon, <2>1, <2>2
<1>4. JournalTypeOK'
  BY <1>2, <1>3, Zenon DEF RecordsKept, JournalTypeOK, FlashOperations
<1>5. ASSUME NEW k \in JournalKeys, k # j PROVE Ordered(k)' /\ Readable(k)'
  BY <1>2, <1>3, <1>5, Untouched, Zenon DEF RecordsKept, JournalTypeOK
<1>6. Ordered(j)' /\ Readable(j)'
  <2>1. j \notin quarantined' /\ acked'[j] = r.value
    BY <1>1, <1>2, <1>p, Zenon DEF Writing, RecordsKept, JournalTypeOK
  <2>2. slots[j][o].is # "good" \/ (slots[j][o].gen \in Nat /\ slots[j][o].gen < r.gen)
    <3>1. slots[j][o] \in Cells
      BY DEF RecordsKept, JournalTypeOK
    <3>2. slots[j][o].is # "good" \/ slots[j][o].gen \in Nat
      BY <3>1 DEF Cells, Blank, Torn
    <3>3. slots[j][o].is # "good" \/ slots[j][o].gen + 1 = r.gen
      <4>1. Behind(j, s) /\ o = Other(s) /\ op.record = r
        BY <1>1, <1>p, Zenon DEF Writing
      <4> QED
        BY <4>1, BehindIsOlder, Zenon DEF Valid
    <3> QED
      BY <3>2, <3>3
  <2>3. (s = "a" /\ o = "b") \/ (s = "b" /\ o = "a")
    BY <1>3, Zenon DEF SlotNames
  <2>4. Ordered(j)'
    BY <1>3, <2>2, <2>3 DEF Ordered, Valid
  <2>5. NewestSlot(j)' = s /\ Healthy(j)'
    BY <1>3, <2>2, <2>3 DEF NewestSlot, Healthy, Valid
  <2> QED
    BY <1>3, <2>1, <2>3, <2>4, <2>5 DEF Readable, Allowed, Blank
<1> QED
  BY <1>2, <1>4, <1>5, <1>6, Zenon DEF RecordsKept

\* nvs_storage_remove reads as any of what it is giving up, until it returns.
LEMMA StartRemoveKeeps ==
    ASSUME RecordsKept, LastGeneration \in Nat, LastGeneration > 0,
           NEW k \in JournalKeys, StartRemove(k)
    PROVE  RecordsKept'
<1> DEFINE held == {slots[k][s].value : s \in {t \in SlotNames : Valid(k, t)}}
<1>1. /\ provider = "nvs"
      /\ op' = [step |-> "erase_a", key |-> k, slot |-> "a", record |-> Good(1, Gone)]
      /\ UNCHANGED <<provider, slots, opened, quarantined, acked, flash_faults>>
  BY Zenon DEF StartRemove
<1>2. held \subseteq RecordValues
  BY DEF RecordsKept, JournalTypeOK, Valid, Cells, Blank, Torn
<1>3. /\ attempted'[k] = attempted[k] \cup {Gone} \cup held
      /\ \A j \in JournalKeys \ {k} : attempted'[j] = attempted[j]
      /\ attempted' \in [JournalKeys -> SUBSET RecordValues]
  BY <1>2, Zenon DEF StartRemove, RecordsKept, JournalTypeOK, RecordValues
<1>4. JournalTypeOK'
  <2>1. op' \in FlashOperations
    BY <1>1 DEF FlashOperations, SlotNames, Good, RecordValues
  <2> QED
    BY <1>1, <1>3, <2>1, Zenon DEF RecordsKept, JournalTypeOK
<1>5. ASSUME NEW j \in JournalKeys PROVE Ordered(j)' /\ Readable(j)'
  <2>1. CASE j # k
    BY Zenon, <1>1, <1>3, <2>1, Untouched
  <2>2. CASE j = k
    <3>1. Ordered(k) /\ Readable(k)
      BY Zenon DEF RecordsKept
    <3>2. /\ Ordered(k)' = Ordered(k) /\ Healthy(k)' = Healthy(k) /\ NewestSlot(k)' = NewestSlot(k)
      BY <1>1, Zenon DEF Ordered, Valid, Healthy, NewestSlot
    <3>3. Allowed(k) \subseteq Allowed(k)' /\ Gone \in Allowed(k)' /\ ~Intact(k)'
      <4> HIDE DEF held
      <4> QED
        BY <1>1, <1>3, Zenon DEF Allowed, Intact
    <3> QED
      BY <1>1, <2>2, <3>1, <3>2, <3>3, Zenon DEF Readable
  <2> QED
    BY Zenon, <2>1, <2>2
<1>6. Removing'
  <2>1. op'.step = "erase_a" /\ op'.key = k /\ op'.slot = "a"
    BY Zenon, <1>1
  <2>2. \A s \in SlotNames : Valid(k, s)' => slots'[k][s].value \in attempted'[k]
    BY <1>1, <1>3, Zenon DEF Valid
  <2>3. provider' = "nvs" /\ Gone \in attempted'[k]
    BY Zenon, <1>1, <1>3
  <2>4. \A s \in SlotNames : Valid(op.key, s)' => slots'[op'.key][s].value \in attempted'[op'.key]
    BY <2>1, <2>2, Zenon DEF Valid
  <2>5. /\ op'.step \in {"erase_a", "erase_b", "erase_rest"} /\ op'.step # "erase_b"
        /\ op'.slot = IF op'.step = "erase_a" THEN "a" ELSE "b"
    BY Zenon, <2>1
  <2>6. Gone \in attempted'[op'.key]
    BY Zenon, <2>1, <2>3
  <2> QED
    BY <2>3, <2>4, <2>5, <2>6, Zenon DEF Removing
<1> QED
  BY <1>1, <1>4, <1>5, <1>6 DEF RecordsKept, StartRemove

\* The blobs are erased one after the other.
LEMMA RemoveStepKeeps ==
    ASSUME RecordsKept, RemoveSlotA \/ RemoveRest
    PROVE  RecordsKept'
<1>1. Removing /\ op # Idle
  BY Zenon DEF RecordsKept, RemoveSlotA, RemoveRest, Working, Writing
<1>2. /\ Put(Blank)
      /\ UNCHANGED <<provider, opened, quarantined, acked, attempted, flash_faults>>
  BY Zenon DEF RemoveSlotA, RemoveRest
<1>3. \A k \in JournalKeys : Ordered(k)' /\ Readable(k)'
  BY Zenon, <1>1, <1>2, SlotRemoved
<1>4. slots' \in [JournalKeys -> [SlotNames -> Cells]]
  BY <1>1, <1>2, Zenon DEF Put, RecordsKept, JournalTypeOK, Cells
<1>5. op' = Idle \/ op' = [op EXCEPT !.step = "erase_b", !.slot = "b"]
  BY Zenon DEF RemoveSlotA, RemoveRest
<1>6. JournalTypeOK'
  <2>1. op' \in FlashOperations
    BY <1>1, <1>5, Zenon DEF RecordsKept, JournalTypeOK, FlashOperations, SlotNames
  <2> QED
    BY <1>2, <1>4, <2>1, Zenon DEF RecordsKept, JournalTypeOK
<1>7. CASE op' # Idle
  <2>1. PICK j \in JournalKeys : j = op.key /\ op.slot = "a"
    BY <1>1, <1>5, <1>7, Zenon DEF RecordsKept, JournalTypeOK, FlashOperations, Removing,
       RemoveSlotA, RemoveRest, Working
  <2>2. op'.key = j /\ op'.slot = "b" /\ op'.step = "erase_b"
    BY <1>1, <1>5, <1>7, <2>1, Zenon DEF RecordsKept, JournalTypeOK, FlashOperations
  <2>3. slots'[j]["a"] = Blank /\ slots'[j]["b"] = slots[j]["b"]
    BY <1>2, <2>1, Zenon DEF Put, RecordsKept, JournalTypeOK, SlotNames
  <2>4. Removing'
    <3>1. /\ provider = "nvs" /\ Gone \in attempted[j]
          /\ slots[j]["b"].is = "good" => slots[j]["b"].value \in attempted[j]
      BY <1>1, <2>1, Zenon DEF Removing, Valid, SlotNames
    <3>2. \A t \in SlotNames : slots'[j][t].is = "good" => slots'[j][t].value \in attempted[j]
      BY <2>3, <3>1 DEF SlotNames, Blank
    <3> QED
      BY <1>2, <2>2, <2>3, <3>1, <3>2, Zenon DEF Removing, Valid
  <2> QED
    BY <1>1, <1>2, <1>3, <1>6, <2>4, Zenon DEF RecordsKept
<1> QED
  BY <1>3, <1>6, <1>7, Zenon DEF RecordsKept

\* A removal is acknowledged once both slots are blank.
LEMMA RemoveSecondKeeps ==
    ASSUME RecordsKept, RemoveSlotB
    PROVE  RecordsKept'
<1>1. Removing /\ op # Idle /\ op.step = "erase_b"
  BY Zenon DEF RecordsKept, RemoveSlotB, Working, Writing
<1>p. PICK j \in JournalKeys : j = op.key /\ op.slot = "b" /\ slots[j]["a"] = Blank
  BY <1>1, Zenon DEF RecordsKept, JournalTypeOK, FlashOperations, Removing
<1>2. /\ UNCHANGED <<provider, opened, quarantined, flash_faults>> /\ op' = Idle
      /\ acked' = [acked EXCEPT ![j] = Gone]
      /\ attempted' = [attempted EXCEPT ![j] = {}]
  BY <1>p, Zenon DEF RemoveSlotB, Acknowledge
<1>3. /\ slots' \in [JournalKeys -> [SlotNames -> Cells]]
      /\ slots'[j]["a"] = Blank /\ slots'[j]["b"] = Blank
      /\ \A k \in JournalKeys \ {j} : slots'[k] = slots[k]
  BY <1>p, Zenon DEF RemoveSlotB, Put, RecordsKept, JournalTypeOK, Cells, SlotNames
<1>4. JournalTypeOK'
  BY <1>2, <1>3, Zenon DEF RecordsKept, JournalTypeOK, FlashOperations, RecordValues
<1>5. ASSUME NEW k \in JournalKeys, k # j PROVE Ordered(k)' /\ Readable(k)'
  BY <1>2, <1>3, <1>5, Untouched, Zenon DEF RecordsKept, JournalTypeOK
<1>6. Ordered(j)' /\ Readable(j)'
  <2>1. acked'[j] = Gone /\ j \notin quarantined
    BY <1>1, <1>2, Zenon DEF RecordsKept, JournalTypeOK, Readable, Removing
  <2>2. Ordered(j)' /\ ~Healthy(j)'
    BY <1>3 DEF Ordered, Healthy, Valid, Blank
  <2>3. Gone \in Allowed(j)' /\ ~Intact(j)'
    BY <2>1, Zenon DEF Allowed, Intact
  <2> QED
    BY <1>2, <2>1, <2>2, <2>3, Zenon DEF Readable
<1> QED
  BY <1>2, <1>4, <1>5, <1>6, Zenon DEF RecordsKept

\* A flash operation that fails, and a loss of power in one or between two,
\* leave in the slot what the lemmas on slots allow.
LEMMA FaultKeeps ==
    ASSUME RecordsKept, LastGeneration \in Nat, OperationFails \/ PowerLost
    PROVE  RecordsKept'
<1>1. /\ Remains
      /\ UNCHANGED <<provider, acked, attempted>>
      /\ quarantined' \subseteq quarantined
      /\ quarantined' \subseteq JournalKeys /\ opened' \in BOOLEAN /\ flash_faults' \in Nat
  <2>1. CASE OperationFails
    BY <2>1 DEF OperationFails, RecordsKept, JournalTypeOK
  <2>2. CASE PowerLost
    <3>1. opened' \in BOOLEAN
      BY <2>2, Zenon DEF PowerLost
    <3> QED
      BY <2>2, <3>1 DEF PowerLost, RecordsKept, JournalTypeOK
  <2> QED
    BY Zenon, <2>1, <2>2
<1>2. \/ UNCHANGED slots
      \/ op # Idle /\ \E c \in {slots[op.key][op.slot], Torn, Blank} : Put(c)
      \/ op # Idle /\ op.step = "write" /\ Put(op.record)
  BY <1>1, Zenon DEF Remains
<1>3. \A k \in JournalKeys : Ordered(k)' /\ Readable(k)'
  <2>1. CASE UNCHANGED slots
    BY Zenon, <1>1, <2>1, Untouched
  <2>2. ASSUME op # Idle, NEW c \in {slots[op.key][op.slot], Torn, Blank}, Put(c)
        PROVE  \A k \in JournalKeys : Ordered(k)' /\ Readable(k)'
    BY <1>1, <2>2, SlotRewritten, SlotRemoved, Zenon DEF RecordsKept
  <2>3. CASE op # Idle /\ op.step = "write" /\ Put(op.record)
    BY <1>1, <2>3, SlotRewritten, Zenon DEF RecordsKept, Removing
  <2> QED
    BY Zenon, <1>2, <2>1, <2>2, <2>3
<1>4. slots' \in [JournalKeys -> [SlotNames -> Cells]]
  <2>1. op # Idle => /\ op.record \in Cells /\ op.key \in JournalKeys
                     /\ op.slot \in SlotNames /\ slots[op.key][op.slot] \in Cells
    BY DEF RecordsKept, JournalTypeOK, FlashOperations, Cells
  <2>2. Torn \in Cells /\ Blank \in Cells
    BY Zenon DEF Cells
  <2>3. slots \in [JournalKeys -> [SlotNames -> Cells]]
    BY Zenon DEF RecordsKept, JournalTypeOK
  <2> QED
    BY <1>2, <2>1, <2>2, <2>3 DEF Put
<1>5. CASE op' = Idle
  BY <1>1, <1>3, <1>4, <1>5, Zenon DEF RecordsKept, JournalTypeOK, FlashOperations
<1>6. CASE op' # Idle
  <2>1. /\ op # Idle /\ op.step = "erase_a" /\ OperationFails
        /\ op' = [op EXCEPT !.step = "erase_rest", !.slot = "b"]
    BY <1>6, Zenon DEF OperationFails, PowerLost
  <2>2. Removing
    BY <2>1, Zenon DEF RecordsKept, Writing
  <2>3. PICK j \in JournalKeys : j = op.key /\ op.slot = "a"
    BY <2>1, <2>2, Zenon DEF RecordsKept, JournalTypeOK, FlashOperations, Removing
  <2>4. op' \in FlashOperations /\ op'.key = j /\ op'.slot = "b" /\ op'.step = "erase_rest"
    BY <2>1, <2>3, Zenon DEF RecordsKept, JournalTypeOK, FlashOperations, SlotNames
  <2>5. \E c \in {slots[j]["a"], Torn, Blank} : slots' = [slots EXCEPT ![j]["a"] = c]
    <3>1. op.step = "erase_a"
      BY Zenon, <2>1
    <3> QED
      BY <1>1, <2>1, <2>3, <3>1, Zenon DEF Remains, Put
  <2>6. slots'[j]["a"] \in {slots[j]["a"], Torn, Blank} /\ slots'[j]["b"] = slots[j]["b"]
    BY <2>5 DEF RecordsKept, JournalTypeOK, SlotNames
  <2>7. Removing'
    <3>1. /\ provider = "nvs" /\ Gone \in attempted[j]
          /\ \A t \in SlotNames : slots[j][t].is = "good" => slots[j][t].value \in attempted[j]
      BY <2>2, <2>3, Zenon DEF Removing, Valid
    <3>2. \A t \in SlotNames : slots'[j][t].is = "good" => slots'[j][t].value \in attempted[j]
      BY <2>6, <3>1 DEF SlotNames, Blank, Torn
    <3> QED
      BY <1>1, <2>4, <3>1, <3>2, Zenon DEF Removing, Valid
  <2>8. opened'
    BY <2>1, Zenon DEF OperationFails, RecordsKept
  <2> QED
    BY <1>1, <1>3, <1>4, <2>4, <2>7, <2>8, Zenon DEF RecordsKept, JournalTypeOK
<1> QED
  BY Zenon, <1>5, <1>6

\* Opening quarantines no pair with an acknowledged record.
LEMMA OpenKeeps ==
    ASSUME RecordsKept, OpenJournal \/ OpenNvs
    PROVE  RecordsKept'
<1>1. /\ op = Idle
      /\ UNCHANGED <<provider, slots, op, acked, attempted, flash_faults>>
  BY Zenon DEF OpenJournal, OpenNvs, RecordsKept
<1>2. JournalTypeOK'
  BY <1>1, Zenon DEF OpenJournal, OpenNvs, RecordsKept, JournalTypeOK
<1>3. ASSUME NEW k \in JournalKeys PROVE Ordered(k)' /\ Readable(k)'
  <2>1. Ordered(k) /\ Readable(k)
    BY Zenon DEF RecordsKept
  <2>2. k \in quarantined' => provider = "journal" /\ ~Intact(k)
    BY <2>1, Zenon DEF OpenJournal, OpenNvs, Readable, Damaged
  <2> QED
    BY <1>1, <2>1, <2>2, Zenon DEF Ordered, Readable, Valid, Healthy, NewestSlot, Allowed,
       Intact
<1> QED
  BY <1>1, <1>2, <1>3, Zenon DEF RecordsKept

\* A record that chat_journal.c or nvs_storage.c acknowledged is read back after
\* any failures and losses of power, or one that a later call was storing; its
\* pair is not quarantined and the region opens.
THEOREM AcknowledgedIsDurable == JournalSpec => []RecordsDurable
<1>1. JournalInit => RecordsKept
  BY Zenon, JournalConfig, KeptInitially
<1>2. RecordsKept /\ [JournalNext]_journalVars => RecordsKept'
  <2> SUFFICES ASSUME RecordsKept, [JournalNext]_journalVars PROVE RecordsKept'
    OBVIOUS
  <2>1. ASSUME NEW k \in JournalKeys, NEW v \in RecordValues, Replace(k, v) PROVE RecordsKept'
    BY JournalConfig, <2>1, BeginKeeps, Zenon DEF Replace
  <2>2. ASSUME NEW k \in JournalKeys, NEW v \in RecordValues, NvsWrite(k, v) PROVE RecordsKept'
    <3>1. k \notin quarantined
      BY <2>2, Zenon DEF NvsWrite, RecordsKept, Readable
    <3> QED
      BY JournalConfig, <2>2, <3>1, BeginKeeps, Zenon DEF NvsWrite
  <2>3. ASSUME NEW k \in JournalKeys, StartRemove(k) PROVE RecordsKept'
    BY JournalConfig, <2>3, StartRemoveKeeps
  <2>4. CASE Erase \/ Program
    BY Zenon, JournalConfig, <2>4, WriteStepKeeps
  <2>5. CASE SetBlob \/ Verify
    BY Zenon, JournalConfig, <2>5, WriteEndKeeps
  <2>6. CASE RemoveSlotA \/ RemoveRest
    BY Zenon, <2>6, RemoveStepKeeps
  <2>7. CASE RemoveSlotB
    BY Zenon, <2>7, RemoveSecondKeeps
  <2>8. CASE OperationFails \/ PowerLost
    BY Zenon, JournalConfig, <2>8, FaultKeeps
  <2>9. CASE OpenJournal \/ OpenNvs
    BY Zenon, <2>9, OpenKeeps
  <2>10. CASE UNCHANGED journalVars
    <3>1. UNCHANGED <<provider, slots, opened, quarantined, op, acked, attempted, flash_faults>>
      BY <2>10, Zenon DEF journalVars
    <3>2. \A k \in JournalKeys : Ordered(k)' /\ Readable(k)'
      BY Zenon, <3>1, Untouched
    <3> QED
      BY <3>1, <3>2, Zenon DEF RecordsKept, JournalTypeOK, Writing, Removing, Behind,
         Valid, Allowed, Intact
  <2> QED
    BY <2>1, <2>2, <2>3, <2>4, <2>5, <2>6, <2>7, <2>8, <2>9, <2>10, Zenon DEF JournalNext
<1>3. RecordsKept => RecordsDurable
  BY KeptIsDurable, Zenon DEF RecordsKept, RecordsDurable
<1> QED
  BY <1>1, <1>2, <1>3, PTL DEF JournalSpec

=============================================================================
