------------------------------ MODULE Timebase ------------------------------
(***************************************************************************)
(* The announce timestamps of the packet node (src/lxmf/packet_node.c).    *)
(*                                                                         *)
(* Peers ignore an announce that is not newer than the last one they saw.  *)
(* The board has no battery-backed clock: the time it is given is the      *)
(* build time plus its uptime, which starts over at every reset.  The node *)
(* keeps the last timestamp in the record that holds its identity, which   *)
(* is created, once, at the first boot.                                    *)
(***************************************************************************)
EXTENDS Naturals

CONSTANTS
    LastTimebase,   \* RNS_ANNOUNCE_MAX_TIMESTAMP
    MaxUptime,      \* bound on the time between two resets
    MaxResets       \* bound on resets and failed writes

ASSUME TimebaseConfig ==
    LastTimebase \in Nat /\ MaxUptime \in Nat /\ MaxResets \in Nat

VARIABLES
    node_up,        \* the node was created
    last_announce,  \* n->last_announce
    identity_key,   \* the identity in use; 0: none
    stored_key, stored_time,  \* the record "identity"; key 0: no record
    uptime,
    heard_time,     \* the newest announce a peer accepted
    heard_key,      \* and the identity it announced
    unheard,        \* an announce went out that peers ignore
    keys_made,      \* identities generated so far
    resets

timeVars == <<node_up, last_announce, identity_key, stored_key, stored_time,
              uptime, heard_time, heard_key, unheard, keys_made, resets>>

\* The counters are within their bounds.
TimeTypeOK ==
    /\ node_up \in BOOLEAN /\ unheard \in BOOLEAN
    /\ last_announce \in 0 .. LastTimebase /\ stored_time \in 0 .. LastTimebase
    /\ heard_time \in 0 .. LastTimebase
    /\ identity_key \in 0 .. keys_made /\ stored_key \in 0 .. keys_made
    /\ heard_key \in 0 .. keys_made
    /\ uptime \in 0 .. MaxUptime
    /\ resets \in 0 .. MaxResets /\ keys_made \in Nat

\* A board that was never started.
TimeInit ==
    /\ node_up = FALSE /\ unheard = FALSE
    /\ last_announce = 0 /\ identity_key = 0
    /\ stored_key = 0 /\ stored_time = 0
    /\ uptime = 0 /\ heard_time = 0 /\ heard_key = 0
    /\ keys_made = 0 /\ resets = 0

\* lxmf_packet_node_create: the stored identity, or a new one, which is used
\* only once it is stored.
Create ==
    /\ ~node_up
    /\ IF stored_key # 0
       THEN /\ identity_key' = stored_key /\ last_announce' = stored_time
            /\ UNCHANGED <<stored_key, stored_time, keys_made>>
       ELSE /\ keys_made' = keys_made + 1
            /\ identity_key' = keys_made + 1 /\ stored_key' = keys_made + 1
            /\ last_announce' = 0 /\ stored_time' = 0
    /\ node_up' = TRUE
    /\ UNCHANGED <<uptime, heard_time, heard_key, unheard, resets>>

\* ... and the write fails: the record may be there or not, the node is not.
CreateFails ==
    /\ ~node_up /\ stored_key = 0 /\ resets < MaxResets
    /\ keys_made' = keys_made + 1
    /\ stored_key' \in {0, keys_made + 1}
    /\ stored_time' = 0
    /\ resets' = resets + 1
    /\ UNCHANGED <<node_up, last_announce, identity_key, uptime, heard_time,
                   heard_key, unheard>>

Later == IF uptime <= last_announce THEN last_announce + 1 ELSE uptime

\* The packet reaches the peers; those that saw a newer one ignore it.
Emit(time) ==
    /\ unheard' = (unheard \/ time <= heard_time)
    /\ heard_time' = IF time > heard_time THEN time ELSE heard_time
    /\ heard_key' = IF time > heard_time THEN identity_key ELSE heard_key

\* lxmf_packet_node_announce: the timestamp is reserved in storage, then used.
Announce_SendFirst ==
    /\ node_up /\ last_announce < LastTimebase
    /\ Later <= LastTimebase
    /\ Emit(Later)
    /\ last_announce' = Later
    /\ stored_time' \in {stored_time, Later}
    /\ UNCHANGED <<node_up, identity_key, stored_key, uptime, keys_made, resets>>

Announce ==
    /\ node_up /\ last_announce < LastTimebase
    /\ Later <= LastTimebase
    /\ stored_time' = Later
    /\ last_announce' = Later
    /\ Emit(Later)
    /\ UNCHANGED <<node_up, identity_key, stored_key, uptime, keys_made, resets>>

\* ... and the write fails, or power is lost before the packet is sent:
\* nothing is sent, the record may be the new one.
AnnounceFails ==
    /\ node_up /\ last_announce < LastTimebase /\ resets < MaxResets
    /\ Later <= LastTimebase
    /\ stored_time' \in {stored_time, Later}
    /\ resets' = resets + 1
    /\ UNCHANGED <<node_up, last_announce, identity_key, stored_key, uptime,
                   heard_time, heard_key, unheard, keys_made>>

Reset ==
    /\ resets < MaxResets
    /\ resets' = resets + 1
    /\ node_up' = FALSE /\ identity_key' = 0 /\ last_announce' = 0
    /\ uptime' = 0
    /\ UNCHANGED <<stored_key, stored_time, heard_time, heard_key, unheard, keys_made>>

TimeTick ==
    /\ uptime < MaxUptime
    /\ uptime' = uptime + 1
    /\ UNCHANGED <<node_up, last_announce, identity_key, stored_key, stored_time,
                   heard_time, heard_key, unheard, keys_made, resets>>

TimeNext == Create \/ CreateFails \/ Announce \/ AnnounceFails \/ Reset \/ TimeTick

TimeSpec == TimeInit /\ [][TimeNext]_timeVars

-----------------------------------------------------------------------------

\* Every announce a board sends is newer than all it sent before, so no peer
\* ignores it, and all of them carry one identity: although the clock starts
\* over at each reset, and whichever write failed or was cut short (create and
\* announce of packet_node.c: "Reserve a strictly increasing timebase before
\* transmission, including across resets").
AlwaysHeard ==
    /\ ~unheard
    /\ node_up /\ heard_key # 0 => identity_key = heard_key

\* Every announce of the node is heard, across resets, with the counters in
\* their ranges (create and announce of packet_node.c).
NodeAlwaysHeard == TimeTypeOK /\ AlwaysHeard
=============================================================================
