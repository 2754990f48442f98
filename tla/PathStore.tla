------------------------------ MODULE PathStore ------------------------------
(***************************************************************************)
(* The path table across restarts: rns_path_store_encode and               *)
(* rns_path_store_decode (src/transport/path_store.c), which the runtime   *)
(* offers as snapshots.  An entry is saved with the time it has left and   *)
(* its age, and is given back that much less the time since the save, as   *)
(* far as the wall clock can tell.  The clock either keeps time while the  *)
(* node is on and off, or says anything at all, as on a board without a    *)
(* battery.  A node may save as it shuts down, or crash after its last     *)
(* save.                                                                   *)
(* Times are kept relative to the monotonic clock, which restarts with     *)
(* the node: "left" is expires_at - now and "age" is now - updated_at.     *)
(***************************************************************************)
EXTENDS Naturals, FiniteSets

CONSTANTS Targets,      \* destinations with a path
          Timebases,    \* announce_timebase values
          PathCapacity, \* transport->config.path_capacity
          PathLifetime, \* transport->config.path_lifetime
          WallTimes,    \* what the wall clock may say
          MaxPowered    \* bound on the powered-on time

ASSUME PathStoreConfig ==
    WallTimes \subseteq Nat /\ PathLifetime \in Nat /\ MaxPowered \in Nat

VARIABLES booted,    \* the runtime is up
          keeps,     \* the wall clock keeps time
          crashed,   \* the node has gone down without saving (history)
          wall_time, \* the wall clock
          paths,     \* the path table
          snapshot,  \* what the last encode wrote
          powered,   \* powered-on time since each path was learned (history)
          total      \* powered-on time so far

pathVars == <<booted, keeps, crashed, wall_time, paths, snapshot, powered, total>>

PathEntries == [left : 0..PathLifetime, age : Nat, timebase : Timebases]
Empty == [t \in {} |-> 0]

(* Every variable keeps its range.                                         *)
PathTypeOK ==
    /\ booted \in BOOLEAN /\ keeps \in BOOLEAN /\ crashed \in BOOLEAN
    /\ wall_time \in WallTimes /\ total \in 0..MaxPowered
    /\ DOMAIN paths \subseteq Targets
    /\ \A t \in DOMAIN paths : paths[t] \in PathEntries
    /\ snapshot.wall \in WallTimes /\ DOMAIN snapshot.records \subseteq Targets
    /\ powered \in [Targets -> 0..MaxPowered]

PathInit ==
    /\ booted = TRUE /\ wall_time \in WallTimes
    /\ keeps \in BOOLEAN /\ crashed = FALSE
    /\ paths = Empty
    /\ snapshot = [wall |-> wall_time, records |-> Empty]
    /\ powered = [t \in Targets |-> 0]
    /\ total = 0

Live(t) == paths[t].left > 0

(* rns_transport_consider_announce: a live path yields to a newer announce *)
(* and, on an interface of higher gravity, to an equally new one; an       *)
(* expired path yields to any; a full table gives up the entry that was    *)
(* updated longest ago.  A path marked unresponsive would yield to an      *)
(* older announce too, but nothing in src/ marks one.                      *)
Oldest == {t \in DOMAIN paths :
             \A u \in DOMAIN paths : paths[u].age <= paths[t].age}

LearnPath(t, base) ==
    /\ booted
    /\ (t \in DOMAIN paths /\ Live(t)) => base >= paths[t].timebase
    /\ \E out \in IF t \in DOMAIN paths
                     \/ Cardinality(DOMAIN paths) < PathCapacity
                  THEN {{}} ELSE {{o} : o \in Oldest} :
          paths' = [u \in (DOMAIN paths \ out) \cup {t} |->
                      IF u = t
                      THEN [left |-> PathLifetime, age |-> 0, timebase |-> base]
                      ELSE paths[u]]
    /\ powered' = [powered EXCEPT ![t] = 0]
    /\ UNCHANGED <<booted, keeps, crashed, wall_time, snapshot, total>>

(* rns_path_store_encode: the live entries and the wall time.              *)
EncodedPaths == [wall |-> wall_time,
            records |-> [t \in {u \in DOMAIN paths : Live(u)} |-> paths[t]]]

Save ==
    /\ booted
    /\ snapshot' = EncodedPaths
    /\ UNCHANGED <<booted, keeps, crashed, wall_time, paths, powered, total>>

(* The node goes down, with or without a last save.                        *)
GoDown ==
    /\ booted
    /\ booted' = FALSE /\ paths' = Empty
    /\ \/ snapshot' = EncodedPaths /\ UNCHANGED crashed
       \/ crashed' = TRUE /\ UNCHANGED snapshot
    /\ wall_time' \in {w \in WallTimes : keeps => w >= wall_time}
    /\ UNCHANGED <<keeps, powered, total>>

Offline == IF wall_time >= snapshot.wall THEN wall_time - snapshot.wall ELSE 0

Restored_Unaged(r) == [r EXCEPT !.left = PathLifetime]
Restored(r) == [r EXCEPT !.left = @ - Offline, !.age = @ + Offline]

(* rns_path_store_decode replaces the whole table, or nothing when one     *)
(* record claims more than the lifetime.  It also refuses a record whose   *)
(* timebase is not the newest of its random blobs; as no path goes back to *)
(* an older announce while it lives, encode writes none.                   *)
DecodedPaths ==
    IF \A t \in DOMAIN snapshot.records :
          snapshot.records[t].left <= PathLifetime
    THEN [t \in {u \in DOMAIN snapshot.records :
                    snapshot.records[u].left > Offline} |->
            Restored(snapshot.records[t])]
    ELSE Empty

(* The node starts, and loads its snapshot into the empty table.           *)
Boot ==
    /\ ~booted
    /\ booted' = TRUE
    /\ paths' = DecodedPaths
    /\ UNCHANGED <<keeps, crashed, wall_time, snapshot, powered, total>>

(* A unit of powered-on time.                                              *)
PathTick ==
    /\ booted /\ total < MaxPowered
    /\ total' = total + 1
    /\ paths' = [t \in DOMAIN paths |->
                   [paths[t] EXCEPT !.left = IF @ > 0 THEN @ - 1 ELSE 0,
                                    !.age = @ + 1]]
    /\ powered' = [t \in Targets |-> powered[t] + 1]
    /\ wall_time' \in {w \in WallTimes : keeps => w = wall_time + 1}
    /\ UNCHANGED <<booted, keeps, crashed, snapshot>>

PathNext == \/ \E t \in Targets, base \in Timebases : LearnPath(t, base)
        \/ Save \/ GoDown \/ Boot \/ PathTick

PathSpec == PathInit /\ [][PathNext]_pathVars

-----------------------------------------------------------------------------
(* No sequence of saves and restarts makes a path outlive its lifetime in  *)
(* powered-on time, or look younger than it is to the eviction, as long as *)
(* the wall clock keeps time or the node saves whenever it goes down       *)
(* (rns_path_store_decode): a route that nobody announces any more dies    *)
(* even on a node that restarts all the time.                              *)
NotProlonged ==
    (keeps \/ ~crashed) =>
        \A t \in DOMAIN paths : Live(t) =>
            /\ paths[t].left + powered[t] <= PathLifetime
            /\ paths[t].age >= powered[t]

(* Saves and restarts never prolong the life of a path (encode and decode  *)
(* of path_store.c).                                                       *)
PathsNotProlonged == PathTypeOK /\ NotProlonged
=============================================================================
