--------------------------- MODULE SharedInstance ---------------------------
(***************************************************************************)
(* The programs of one host share its interfaces through a local instance  *)
(* (src/interfaces/local.c): the first to start takes the TCP port and     *)
(* serves, the others connect to it.  A program's role is settled when it  *)
(* is created and never changes.                                           *)
(*                                                                         *)
(* A connection is seen from the server: an entry of the listen backlog,   *)
(* then of the peers' table, naming the program it comes from and whether  *)
(* that end is still open.  What travels on one is in module Streams.      *)
(* Programs stop and start, a connection attempt may fail although the     *)
(* server listens, and an accept may fail although a client waits; all are *)
(* bounded.                                                                *)
(***************************************************************************)
EXTENDS Naturals, Sequences, FiniteSets

CONSTANTS Programs,
          MaxClients,           \* options.max_clients
          Initial, Longest,     \* reconnect_initial_seconds, .._max_seconds
          MaxStops, MaxMisses   \* bounds: programs stopped; attempts and accepts failed

VARIABLES local_role,   \* per program: "none", "server" or "client"
          socket,       \* a client's rns_tcp_state
          shown,        \* info.state of each program
          reconnect,    \* a client's reconnect_at (ticks left) and delay
          entries_in,   \* the listen backlog
          peers_of,     \* the server's peers, by slot
          connected,    \* the server's info.connected_clients
          stops, misses

sharedVars == <<local_role, socket, shown, reconnect, entries_in, peers_of,
                connected, stops, misses>>

Free == [of |-> "nobody", open |-> FALSE]
Entry == [of : Programs, open : BOOLEAN]
PeerSlots == 1..MaxClients
Rested == [wait |-> 0, delay |-> 0]

TypeOK ==
    /\ local_role \in [Programs -> {"none", "server", "client"}]
    /\ socket \in [Programs -> {"disconnected", "connecting", "connected"}]
    /\ shown \in [Programs -> {"down", "starting", "up"}]
    /\ reconnect \in [Programs -> [wait : 0..Longest, delay : 0..Longest]]
    /\ \A i \in 1..Len(entries_in) : entries_in[i] \in Entry
    /\ peers_of \in [PeerSlots -> Entry \cup {Free}]
    /\ connected \in 0..MaxClients
    /\ connected = Cardinality({i \in PeerSlots : peers_of[i] # Free})
    /\ Cardinality({p \in Programs : local_role[p] = "server"}) <= 1
    /\ stops \in 0..MaxStops /\ misses \in 0..MaxMisses

Init ==
    /\ local_role = [p \in Programs |-> "none"]
    /\ socket = [p \in Programs |-> "disconnected"]
    /\ shown = [p \in Programs |-> "down"]
    /\ reconnect = [p \in Programs |-> Rested]
    /\ entries_in = << >>
    /\ peers_of = [i \in PeerSlots |-> Free]
    /\ connected = 0
    /\ stops = 0 /\ misses = 0

Serving == \E p \in Programs : local_role[p] = "server"

\* The server still holds the connection the program has open.
Attached(p) ==
    \/ \E i \in 1..Len(entries_in) : entries_in[i] = [of |-> p, open |-> TRUE]
    \/ \E i \in PeerSlots : peers_of[i] = [of |-> p, open |-> TRUE]

-----------------------------------------------------------------------------
\* schedule_reconnect: the delay doubles up to its maximum.
Scheduled(r) ==
    LET d == IF r.delay = 0 THEN Initial ELSE r.delay
    IN  [wait |-> d, delay |-> IF 2 * d > Longest THEN Longest ELSE 2 * d]

ScheduleReconnect(p) ==
    /\ socket' = [socket EXCEPT ![p] = "disconnected"]
    /\ shown' = [shown EXCEPT ![p] = "down"]
    /\ reconnect' = [reconnect EXCEPT ![p] = Scheduled(@)]

\* mark_connected, of a client whose handshake the listener has queued.
MarkConnected(p) ==
    /\ socket' = [socket EXCEPT ![p] = "connected"]
    /\ shown' = [shown EXCEPT ![p] = "up"]
    /\ reconnect' = [reconnect EXCEPT ![p] = Rested]
    /\ entries_in' = Append(entries_in, [of |-> p, open |-> TRUE])

\* rns_tcp_connect fails: nothing listens, or the attempt is lost.
AttemptFails(p) ==
    /\ \/ ~Serving /\ UNCHANGED misses
       \/ Serving /\ misses < MaxMisses /\ misses' = misses + 1
    /\ ScheduleReconnect(p)
    /\ UNCHANGED entries_in

\* start_client: connected at once, under way, or failed.
StartClient(p) ==
    \/ Serving /\ MarkConnected(p) /\ UNCHANGED misses
    \/ /\ socket' = [socket EXCEPT ![p] = "connecting"]
       /\ shown' = [shown EXCEPT ![p] = "starting"]
       /\ UNCHANGED <<reconnect, entries_in, misses>>
    \/ AttemptFails(p)

-----------------------------------------------------------------------------
\* rns_local_instance_create in the AUTO role: the port decides.
Start(p) ==
    /\ local_role[p] = "none"
    /\ IF Serving
       THEN /\ local_role' = [local_role EXCEPT ![p] = "client"]
            /\ StartClient(p)
       ELSE /\ local_role' = [local_role EXCEPT ![p] = "server"]
            /\ shown' = [shown EXCEPT ![p] = "up"]
            /\ UNCHANGED <<socket, reconnect, entries_in, misses>>
    /\ UNCHANGED <<peers_of, connected, stops>>

\* Closed at the client's end: the server's entry stays until it is polled.
Shut(e, p) == IF e.of = p THEN [e EXCEPT !.open = FALSE] ELSE e

\* rns_local_instance_destroy.  A server takes its listener and every
\* connection with it.
Stop(p) ==
    /\ local_role[p] # "none"
    /\ stops < MaxStops
    /\ stops' = stops + 1
    /\ local_role' = [local_role EXCEPT ![p] = "none"]
    /\ socket' = [socket EXCEPT ![p] = "disconnected"]
    /\ shown' = [shown EXCEPT ![p] = "down"]
    /\ reconnect' = [reconnect EXCEPT ![p] = Rested]
    /\ IF local_role[p] = "server"
       THEN /\ entries_in' = << >>
            /\ peers_of' = [i \in PeerSlots |-> Free]
            /\ connected' = 0
       ELSE /\ entries_in' = [i \in 1..Len(entries_in) |->
                                 Shut(entries_in[i], p)]
            /\ peers_of' = [i \in PeerSlots |-> Shut(peers_of[i], p)]
            /\ UNCHANGED connected
    /\ UNCHANGED misses

\* The first part of poll_server: one connection is accepted into the first
\* free slot, which the loop that follows polls with the others.
FirstFree == CHOOSE i \in PeerSlots :
                 /\ peers_of[i] = Free
                 /\ \A j \in 1..i - 1 : peers_of[j] # Free

Accepted ==
    IF entries_in # << >> /\ \E i \in PeerSlots : peers_of[i] = Free
    THEN [peers_of EXCEPT ![FirstFree] = Head(entries_in)]
    ELSE peers_of

\* The second part: a peer whose connection is found closed is destroyed.
Swept_Kept(table) == table

Swept(table) ==
    [i \in PeerSlots |-> IF table[i].open THEN table[i] ELSE Free]

Losses == Cardinality({i \in PeerSlots : Accepted[i] # Free
                                         /\ Swept(Accepted)[i] = Free})

Counted(took) == connected + (IF took THEN 1 ELSE 0) - Losses

PollServer(p) ==
    LET took == Accepted # peers_of
    IN  /\ local_role[p] = "server"
        /\ entries_in' = IF took THEN Tail(entries_in) ELSE entries_in
        /\ peers_of' = Swept(Accepted)
        /\ connected' = Counted(took)
        /\ UNCHANGED <<local_role, socket, shown, reconnect, stops, misses>>

\* poll_server, when the accept fails: the poll ends without the second part.
\* The connection stays in the backlog (accept), or was taken from it and is
\* closed (make_nonblocking, allocate_endpoint).
AcceptFails(p) ==
    /\ local_role[p] = "server"
    /\ Accepted # peers_of
    /\ misses < MaxMisses
    /\ misses' = misses + 1
    /\ entries_in' \in {entries_in, Tail(entries_in)}
    /\ UNCHANGED <<local_role, socket, shown, reconnect, peers_of, connected, stops>>

\* poll_client: reconnect when due, finish connecting, or find out that the
\* connection is gone.
Reconnect(p) ==
    /\ socket[p] = "disconnected"
    /\ reconnect[p].wait = 0
    /\ StartClient(p)

FinishConnect(p) ==
    /\ socket[p] = "connecting"
    /\ \/ Serving /\ MarkConnected(p) /\ UNCHANGED misses
       \/ AttemptFails(p)

Lost(p) ==
    /\ socket[p] = "connected"
    /\ ~Attached(p)
    /\ ScheduleReconnect(p)
    /\ UNCHANGED <<entries_in, misses>>

PollClient(p) ==
    /\ local_role[p] = "client"
    /\ Reconnect(p) \/ FinishConnect(p) \/ Lost(p)
    /\ UNCHANGED <<local_role, peers_of, connected, stops>>

\* Time passes for the clients that wait.
Tick ==
    /\ \E p \in Programs : reconnect[p].wait > 0
    /\ reconnect' = [p \in Programs |->
           IF reconnect[p].wait > 0
           THEN [reconnect[p] EXCEPT !.wait = @ - 1] ELSE reconnect[p]]
    /\ UNCHANGED <<local_role, socket, shown, entries_in, peers_of, connected,
                   stops, misses>>

Next ==
    \/ \E p \in Programs : \/ Start(p) \/ Stop(p)
                           \/ PollServer(p) \/ AcceptFails(p) \/ PollClient(p)
    \/ Tick

\* Every running program polls for ever and time passes; nobody has to start
\* or stop, and accepts do not fail for ever.
Fairness ==
    /\ \A p \in Programs : /\ WF_sharedVars(PollServer(p))
                           /\ WF_sharedVars(PollClient(p))
    /\ WF_sharedVars(Tick)

Spec == Init /\ [][Next]_sharedVars /\ Fairness

-----------------------------------------------------------------------------
\* While some program serves for good, every client the table has room for is
\* served in the end, whatever stopped before (poll_server's sweep and accept,
\* poll_client's reconnects).
EventuallyServed ==
    LET clients == {p \in Programs : local_role[p] = "client"}
        served == {p \in Programs : \E i \in PeerSlots :
                       peers_of[i] = [of |-> p, open |-> TRUE]}
    IN  (<>[]Serving) => <>[](\/ clients \subseteq served
                             \/ Cardinality(served) = MaxClients)
=============================================================================
