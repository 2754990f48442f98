------------------------------ MODULE MCStores ------------------------------
(***************************************************************************)
(* Instances of everything that outlives a restart: the message journal    *)
(* (Store, twice: with its records, and with its caps), the snapshot files *)
(* (Snapshots), the saved paths (PathStore), the firmware's flash records  *)
(* (Journal), the packet node's stores (PacketNode) and its announce clock *)
(* (Timebase).  A behaviour exercises one of them, named by part; the      *)
(* others rest in their initial state.                                     *)
(***************************************************************************)
EXTENDS MCStore, Snapshots, PathStore, Journal, Timebase

CONSTANTS Messages, Forged, ChatCount, ChatMessages, ArchiveCount,
          UnknownPerSender, UnknownSenders, PeerLimit, ReplayLimit,
          PendingLimit, MaxArrivals, MaxNodeFaults

VARIABLES part,
          running, peers, replay, deferred, chats, archive, flash, set_aside, cursor,
          rescan, learned, proved, ever_saved, trouble, arrivals, node_faults

nodeVars == <<running, peers, replay, deferred, chats, archive, flash, set_aside, cursor,
              rescan, learned, proved, ever_saved, trouble, arrivals,
              node_faults>>

\* The store again, with room for a flood of messages from three senders.
Caps == INSTANCE Store WITH
          Ids <- {m1, m2, m3, m4, m5}, SourceOf <- Flood, MaxMessages <- 5,
          MaxUnverified <- 3, MaxSources <- 2, MaxRecords <- 6,
          Signatures <- {"UNVERIFIED"}, Updated <- {}, Bodies <- {0},
          MaxFailures <- 1, MaxCrashes <- 1

\* Two messages of sender A with the forged one of B between them.
Chatters == [m \in Messages |-> IF m = "b1" THEN "B" ELSE "A"]
Claims == [m \in Messages |-> CASE m = "a1" -> 1 [] m = "b1" -> 2 [] OTHER -> 3]

No == INSTANCE PacketNode WITH SenderOf <- Chatters, ClaimedTime <- Claims

StoresInit ==
    /\ part \in {"store", "caps", "snapshots", "paths", "journal", "node", "time"}
    /\ IF part = "caps" THEN Caps!Init ELSE Init
    /\ SnapInit /\ PathInit /\ JournalInit /\ No!Init /\ TimeInit
    /\ part # "snapshots" => kind = "peers"
    /\ part # "paths" => keeps /\ wall_time = 0
    /\ part # "journal" => provider = "journal"

StorePart ==
    /\ \/ part = "store" /\ Next
       \/ part = "caps" /\ Caps!Next
    /\ UNCHANGED <<part, snapVars, pathVars, journalVars, nodeVars, timeVars>>

SnapshotsPart ==
    /\ part = "snapshots" /\ SnapNext
    /\ UNCHANGED <<part, vars, pathVars, journalVars, nodeVars, timeVars>>

PathsPart ==
    /\ part = "paths" /\ PathNext
    /\ UNCHANGED <<part, vars, snapVars, journalVars, nodeVars, timeVars>>

JournalPart ==
    /\ part = "journal" /\ JournalNext
    /\ UNCHANGED <<part, vars, snapVars, pathVars, nodeVars, timeVars>>

NodePart ==
    /\ part = "node" /\ No!Next
    /\ UNCHANGED <<part, vars, snapVars, pathVars, journalVars, timeVars>>

TimePart ==
    /\ part = "time" /\ TimeNext
    /\ UNCHANGED <<part, vars, snapVars, pathVars, journalVars, nodeVars>>

StoresSpec ==
    StoresInit /\ [][\/ StorePart \/ SnapshotsPart \/ PathsPart \/ JournalPart
                     \/ NodePart \/ TimePart]_
                    <<part, vars, snapVars, pathVars, journalVars, nodeVars, timeVars>>

-----------------------------------------------------------------------------
\* Opening the journal shows what callers were last told, and every indexed
\* message has its body (Store).
StoreSound == part = "store" => TypeOK /\ Recoverable /\ BodiesReadable

\* Unverified messages stay within the caps but for those whose put failed
\* and was stored, the next put restores the caps, and a flood is drained first
\* (Store).
StoreDrainsFloods ==
    [][part = "caps" => Caps!DrainsFlood /\ Caps!UnverifiedCapped']_vars

\* A proved message is saved, the stores keep their shared quota and open
\* again, and no archived message is overlooked (PacketNode).
NodeKeepsMessages ==
    part = "node" => /\ No!TypeOK /\ No!ProvedIsSaved /\ No!SharedQuota
                     /\ No!StoresReopen /\ No!NotOverlooked

=============================================================================
