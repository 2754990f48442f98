------------------------------ MODULE Snapshots ------------------------------
(***************************************************************************)
(* The stores that keep a whole table in memory and rewrite one file       *)
(* whenever it changes: the ratchets of a destination                      *)
(* (src/identity/ratchet_store.c), the stamp tickets (src/lxmf/tickets.c), *)
(* the peers (src/lxmf/peer_store.c) and the node registry                 *)
(* (src/transport/node_registry.c).  All four write a temporary file,      *)
(* fsync it and rename it over the old one; the peers and the registry     *)
(* also fsync the directory.  Ratchets and tickets undo the change in      *)
(* memory when the save fails, the other two leave it to a later save.     *)
(*                                                                         *)
(* A table is a sequence of opaque entries.  The process may be killed     *)
(* between any two steps of a save, and the power may fail: a file that    *)
(* was not synced is then torn, and a rename in a directory that was not   *)
(* synced may be undone.                                                   *)
(***************************************************************************)
EXTENDS Naturals, Sequences

CONSTANTS Kinds,        \* the stores: a subset of AllKinds
          Room,         \* retained ratchets, or the capacity of the table
          MaxEntries,   \* bound on the entries ever made
          MaxDiskFaults \* bound on failed steps, kills and power failures

AllKinds == {"ratchets", "tickets", "peers", "nodes"}
RollsBack == {"ratchets", "tickets"}
SyncsDirectory == {"peers", "nodes"}

ASSUME SnapshotsConfig ==
    /\ Kinds \subseteq AllKinds /\ Room \in Nat \ {0}
    /\ MaxEntries \in Nat /\ MaxDiskFaults \in Nat

VARIABLES kind,       \* which of the stores this is
          held,       \* the table in memory
          before,     \* the table to go back to when the save fails
          saving,     \* the next step of the save, or "idle" or "down"
          main_file,  \* the file under its name
          dir_main,   \* what the directory on the disk has under that name
          temp_file,  \* the temporary file
          promised,   \* the table of the last save that succeeded (history)
          begun,  \* tables of the saves since (history)
          undone_by_power, \* a power failure undid a rename (history)
          entries, disk_faults

snapVars == <<kind, held, before, saving, main_file, dir_main, temp_file,
              promised, begun, undone_by_power, entries, disk_faults>>

Tables == {t \in Seq(1..MaxEntries) : Len(t) <= Room}
Files == [is : {"absent", "torn", "whole"}, table : Tables]
NoFile == [is |-> "absent", table |-> << >>]
TornFile == [is |-> "torn", table |-> << >>]
WholeFile(table) == [is |-> "whole", table |-> table]

(* Every variable keeps its range.                                         *)
SnapTypeOK ==
    /\ kind \in Kinds
    /\ held \in Tables /\ before \in Tables
    /\ saving \in {"down", "idle", "open", "write", "rename", "sync"}
    /\ main_file \in Files /\ dir_main \in Files /\ temp_file \in Files
    /\ promised \in Tables /\ begun \subseteq Tables
    /\ undone_by_power \in BOOLEAN
    /\ entries \in 0..MaxEntries /\ disk_faults \in 0..MaxDiskFaults

SnapInit ==
    /\ kind \in Kinds
    /\ held = << >> /\ before = << >> /\ saving = "down"
    /\ main_file = NoFile /\ dir_main = NoFile /\ temp_file = NoFile
    /\ promised = << >> /\ begun = {} /\ undone_by_power = FALSE
    /\ entries = 0 /\ disk_faults = 0

Fault == disk_faults < MaxDiskFaults /\ disk_faults' = disk_faults + 1
NoFault == UNCHANGED disk_faults

-----------------------------------------------------------------------------
(* Changes to the table.                                                   *)

(* A change that is saved at once, in the ratchets and tickets, and one    *)
(* that waits for the application to ask.                                  *)
StartSave(table) ==
    /\ held' = table /\ before' = held
    /\ saving' = "open" /\ begun' = begun \cup {table}
    /\ UNCHANGED <<kind, main_file, dir_main, temp_file, promised,
                   undone_by_power, disk_faults>>

JustChange(table) ==
    /\ held' = table
    /\ UNCHANGED <<kind, before, saving, main_file, dir_main, temp_file,
                   promised, begun, undone_by_power, disk_faults>>

New == entries + 1
Made == saving = "idle" /\ entries < MaxEntries /\ entries' = New
Unmade == saving = "idle" /\ UNCHANGED entries

Overwritten(table, e) == {[table EXCEPT ![i] = e] : i \in DOMAIN table}
Added(table, e) == IF Len(table) < Room THEN {Append(table, e)} ELSE {}
Moved(table, i) == SubSeq([table EXCEPT ![i] = table[Len(table)]], 1, Len(table) - 1)

(* rns_ratchet_store_current: the new key goes in front, the oldest one    *)
(* beyond the retained number falls off.                                   *)
Rotated(table, e) ==
    <<e>> \o SubSeq(table, 1, IF Len(table) < Room THEN Len(table) ELSE Room - 1)
RotateRatchet == kind = "ratchets" /\ Made /\ StartSave(Rotated(held, New))

(* lxmf_ticket_store_issue adds a ticket; remember_outbound and            *)
(* mark_delivered also write over the one of the same peer.                *)
IssueTicket ==
    kind = "tickets" /\ Made /\ \E table \in Added(held, New) : StartSave(table)
RememberTicket ==
    kind = "tickets" /\ Made /\ \E table \in Overwritten(held, New) : StartSave(table)

(* lxmf_ticket_store_cleanup, by remove_at, keeps the order.               *)
CleanupTickets ==
    /\ kind = "tickets" /\ Unmade
    /\ \E i \in DOMAIN held :
          StartSave(SubSeq(held, 1, i - 1) \o SubSeq(held, i + 1, Len(held)))

(* lxmf_peer_store_put and lxmf_peer_store_remove; the last entry moves    *)
(* into the hole.                                                          *)
PutPeer ==
    /\ kind = "peers" /\ Made
    /\ \E table \in Overwritten(held, New) \cup Added(held, New) : JustChange(table)
RemovePeer ==
    kind = "peers" /\ Unmade /\ \E i \in DOMAIN held : JustChange(Moved(held, i))

(* rns_node_registry_consider_announce: a newer announce replaces the      *)
(* record (rns_node_registry_upsert); rns_node_registry_expire.            *)
Upserted(table, e) == Overwritten(table, e) \cup Added(table, e)
ConsiderAnnounce ==
    kind = "nodes" /\ Made /\ \E table \in Upserted(held, New) : JustChange(table)
ExpireNode ==
    kind = "nodes" /\ Unmade /\ \E i \in DOMAIN held : JustChange(Moved(held, i))

SaveNow == kind \notin RollsBack /\ Unmade /\ StartSave(held)

-----------------------------------------------------------------------------
(* The steps of a save.                                                    *)

RolledBack == IF kind \in RollsBack THEN before ELSE held

(* A step fails: the temporary file is removed, except by the peers.       *)
FailSave ==
    /\ Fault
    /\ saving' = "idle" /\ held' = RolledBack
    /\ temp_file' = IF kind = "peers" THEN temp_file ELSE NoFile
    /\ UNCHANGED <<kind, before, main_file, dir_main, promised, begun,
                   undone_by_power, entries>>

DoneSaving ==
    /\ saving' = "idle"
    /\ promised' = held /\ begun' = {} /\ undone_by_power' = FALSE

OpenTemp_InPlace ==
    /\ saving = "open"
    /\ saving' = "write" /\ main_file' = TornFile
    /\ UNCHANGED <<kind, held, before, dir_main, temp_file, promised, begun,
                   undone_by_power, entries, disk_faults>>

OpenTemp ==
    /\ saving = "open"
    /\ saving' = "write" /\ temp_file' = TornFile
    /\ UNCHANGED <<kind, held, before, main_file, dir_main, promised, begun,
                   undone_by_power, entries, disk_faults>>

(* fwrite, fflush, fsync and fclose.                                       *)
WriteTemp ==
    /\ saving = "write"
    /\ saving' = "rename" /\ temp_file' = WholeFile(held)
    /\ UNCHANGED <<kind, held, before, main_file, dir_main, promised, begun,
                   undone_by_power, entries, disk_faults>>

(* rename; the ratchets and tickets are done with it.                      *)
RenameTemp ==
    /\ saving = "rename"
    /\ main_file' = temp_file /\ temp_file' = NoFile
    /\ IF kind \in SyncsDirectory
       THEN saving' = "sync" /\ UNCHANGED <<promised, begun, undone_by_power>>
       ELSE DoneSaving
    /\ UNCHANGED <<kind, held, before, dir_main, entries, disk_faults>>

(* sync_parent.                                                            *)
SyncParent ==
    /\ saving = "sync"
    /\ dir_main' = main_file /\ DoneSaving
    /\ UNCHANGED <<kind, held, before, main_file, temp_file, entries, disk_faults>>

StepFails == saving \in {"open", "write", "rename", "sync"} /\ FailSave

-----------------------------------------------------------------------------
(* Crashes and opening again.                                              *)

Kill ==
    /\ saving # "down" /\ Fault
    /\ saving' = "down" /\ held' = << >>
    /\ UNCHANGED <<kind, before, main_file, dir_main, temp_file, promised,
                   begun, undone_by_power, entries>>

(* The directory may come back with the renames that were not synced yet,  *)
(* or without them; a file that is being written comes back torn.          *)
PowerFails ==
    /\ saving # "down" /\ Fault
    /\ saving' = "down" /\ held' = << >>
    /\ \E m \in {main_file, dir_main} :
          /\ main_file' = m /\ dir_main' = m
          /\ undone_by_power' = (undone_by_power \/ m # main_file)
    /\ temp_file' = IF saving = "write" THEN TornFile ELSE temp_file
    /\ UNCHANGED <<kind, before, promised, begun, entries>>

(* What opening a store makes of its file: it starts empty without one,    *)
(* and refuses one that does not decode.                                   *)
Decoded(file) == IF file.is = "absent" THEN WholeFile(<< >>) ELSE file

(* lxmf_peer_store_open falls back to the temporary file.                  *)
Repaired == main_file.is # "whole" /\ temp_file.is = "whole"
Recovered == IF kind = "peers" /\ Repaired THEN temp_file ELSE Decoded(main_file)

Opened(table) ==
    /\ held' = table /\ before' = table
    /\ UNCHANGED <<kind, promised, begun, undone_by_power, entries,
                   disk_faults>>
Openable(store) == kind = store /\ saving = "down" /\ Recovered # TornFile

(* rns_ratchet_store_open writes the file of an empty store.               *)
OpenRatchets ==
    /\ Openable("ratchets") /\ Opened(Recovered.table)
    /\ saving' = IF main_file = NoFile THEN "open" ELSE "idle"
    /\ UNCHANGED <<main_file, dir_main, temp_file>>

(* lxmf_ticket_store_open *)
OpenTickets ==
    /\ Openable("tickets") /\ Opened(Recovered.table) /\ saving' = "idle"
    /\ UNCHANGED <<main_file, dir_main, temp_file>>

(* lxmf_peer_store_open promotes the temporary file, or removes it.        *)
OpenPeers ==
    /\ Openable("peers") /\ Opened(Recovered.table) /\ saving' = "idle"
    /\ main_file' = IF Repaired THEN temp_file ELSE main_file
    /\ dir_main' \in {dir_main, IF main_file.is # "whole" THEN main_file'
                               ELSE dir_main}
    /\ temp_file' = IF main_file.is = "absent" /\ temp_file.is = "torn"
                    THEN TornFile ELSE NoFile

(* rns_node_registry_load *)
LoadNodes ==
    /\ Openable("nodes") /\ Opened(Recovered.table) /\ saving' = "idle"
    /\ UNCHANGED <<main_file, dir_main, temp_file>>

SnapNext == \/ RotateRatchet \/ IssueTicket \/ RememberTicket \/ CleanupTickets
        \/ PutPeer \/ RemovePeer \/ ConsiderAnnounce \/ ExpireNode \/ SaveNow
        \/ OpenTemp \/ WriteTemp \/ RenameTemp \/ SyncParent \/ StepFails
        \/ Kill \/ PowerFails
        \/ OpenRatchets \/ OpenTickets \/ OpenPeers \/ LoadNodes

SnapSpec == SnapInit /\ [][SnapNext]_snapVars

-----------------------------------------------------------------------------
(* Whatever the moment of a kill or power failure, opening the store finds *)
(* the table of the last save that succeeded or one whose save had begun   *)
(* since, never a torn file and never an older table.  Only the ratchets   *)
(* and tickets, which do not sync the directory, may fall behind, and only *)
(* when a power failure undoes a rename.                                   *)
SavedSurvives ==
    \/ undone_by_power /\ kind \notin SyncsDirectory
    \/ \E table \in {promised} \cup begun : Recovered = WholeFile(table)

(* The stores that undo a failed save (rns_ratchet_store_current,          *)
(* lxmf_ticket_store_issue and its siblings, lxmf_ticket_store_cleanup)    *)
(* hold exactly the table of their file whenever no save is under way: a   *)
(* key or ticket in use is one that the next start will find.              *)
MirrorExact ==
    (saving = "idle" /\ kind \in RollsBack) => held = main_file.table

(* Whatever the moment of a crash, a snapshot file holds the last table    *)
(* saved or a later one, and a store that rolls back matches its file.     *)
SnapshotsSurvive == SnapTypeOK /\ SavedSurvives /\ MirrorExact
=============================================================================
