---------------------------- MODULE StoresProofs ----------------------------
(***************************************************************************)
(* What outlives a restart survives it: the announce clock of the packet   *)
(* node (Timebase), the snapshot files (Snapshots) and the saved paths     *)
(* (PathStore), for every value of the constants and any number of         *)
(* crashes, failed writes and restarts.                                    *)
(***************************************************************************)
EXTENDS Timebase, Snapshots, PathStore, SequenceTheorems, TLAPS

-----------------------------------------------------------------------------
(* The announce clock.                                                     *)


\* AlwaysHeard is not inductive: after a reset the node knows only what it
\* stored.  What was heard is never ahead of the record, nor, while the node is
\* up, of the counter it announces from; and the one identity that was heard is
\* the one in the record.
Reserved ==
    /\ TimeTypeOK
    /\ ~unheard
    /\ heard_time <= stored_time
    /\ heard_key # 0 => heard_key = stored_key
    /\ stored_key = 0 => heard_time = 0
    /\ node_up => /\ stored_key # 0 /\ identity_key = stored_key
                  /\ heard_time <= last_announce

\* A board that was never started has reserved nothing and was not heard.
LEMMA ReservedInitially ==
    ASSUME TimeInit PROVE Reserved
<1>1. node_up \in BOOLEAN /\ unheard \in BOOLEAN /\ ~unheard /\ ~node_up
  BY Zenon DEF TimeInit
<1> QED
  BY TimebaseConfig, <1>1 DEF TimeInit, Reserved, TimeTypeOK

\* No operation of the node, whole, failed or cut short, breaks the
\* reservation.
LEMMA ReservedPreserved ==
    ASSUME Reserved, [TimeNext]_timeVars PROVE Reserved'
<1>1. CASE Create
  BY TimebaseConfig, <1>1 DEF Reserved, TimeTypeOK, Create
<1>2. CASE CreateFails
  BY TimebaseConfig, <1>2 DEF Reserved, TimeTypeOK, CreateFails
<1>3. CASE Announce
  <2>1. /\ Later \in 0 .. LastTimebase /\ Later > last_announce
        /\ heard_time <= last_announce /\ ~(Later <= heard_time)
    BY TimebaseConfig, <1>3 DEF Reserved, TimeTypeOK, Announce, Later
  <2>2. ~unheard' /\ unheard' \in BOOLEAN
    BY <1>3, <2>1, Zenon DEF Reserved, Announce, Emit
  <2>3. heard_time' = Later /\ heard_key' = identity_key
    BY TimebaseConfig, <1>3, <2>1 DEF Reserved, TimeTypeOK, Announce, Emit
  <2> QED
    BY TimebaseConfig, <1>3, <2>1, <2>2, <2>3 DEF Reserved, TimeTypeOK, Announce
<1>4. CASE AnnounceFails
  <2>1. /\ Later \in 0 .. LastTimebase /\ Later > last_announce
        /\ heard_time <= last_announce
    BY TimebaseConfig, <1>4 DEF Reserved, TimeTypeOK, AnnounceFails, Later
  <2> QED
    BY TimebaseConfig, <1>4, <2>1 DEF Reserved, TimeTypeOK, AnnounceFails
<1>5. CASE Reset
  <2>1. ~node_up' /\ node_up' \in BOOLEAN
    BY <1>5, Zenon DEF Reset
  <2> QED
    BY TimebaseConfig, <1>5, <2>1 DEF Reserved, TimeTypeOK, Reset
<1>6. CASE TimeTick
  BY TimebaseConfig, <1>6 DEF Reserved, TimeTypeOK, TimeTick
<1>7. CASE UNCHANGED timeVars
  BY <1>7 DEF Reserved, TimeTypeOK, timeVars
<1> QED
  BY <1>1, <1>2, <1>3, <1>4, <1>5, <1>6, <1>7 DEF TimeNext

\* Every announce that lxmf_packet_node_announce sends is newer than all it
\* sent before and carries the identity that was heard first, across resets and
\* whichever write of the record fails or is cut short.
THEOREM NodeIsAlwaysHeard == TimeSpec => []NodeAlwaysHeard
<1>1. TimeInit => Reserved
  BY ReservedInitially
<1>2. Reserved /\ [TimeNext]_timeVars => Reserved'
  BY ReservedPreserved
<1>3. Reserved => NodeAlwaysHeard
  BY DEF Reserved, NodeAlwaysHeard, AlwaysHeard
<1> QED
  BY <1>1, <1>2, <1>3, PTL DEF TimeSpec

-----------------------------------------------------------------------------
(* The snapshot files.                                                     *)


\* The tables that a start may find, and the files that hold one of them.
Expected == {promised} \cup begun
Sound(file) == file = NoFile \/ file = WholeFile(file.table)
OneOf(file) == \E table \in Expected : Decoded(file) = WholeFile(table)

\* No file under its name is torn.
Untorn == Sound(main_file) /\ Sound(dir_main)

\* With the directory synced, a power failure finds one of these tables whether
\* it undoes the last rename or not; otherwise only when it does not.
Synced == kind \in SyncsDirectory => OneOf(main_file) /\ OneOf(dir_main)
Unsynced == kind \notin SyncsDirectory => undone_by_power \/ OneOf(main_file)

\* The peers never fall back on a file of an older save.
Fallback ==
  kind = "peers" /\ temp_file.is = "whole" =>
    temp_file = WholeFile(temp_file.table) /\ temp_file.table \in Expected

\* A save under way renames what it wrote, and goes back to what is on the disk.
Saving == saving \in {"open", "write", "rename", "sync"}
Steps ==
  /\ Saving /\ kind \in SyncsDirectory => held \in Expected
  /\ saving = "rename" => temp_file = WholeFile(held)
  /\ saving = "sync" =>
       kind \in SyncsDirectory /\ main_file = WholeFile(held) /\ temp_file = NoFile
  /\ Saving /\ kind \in RollsBack => before = main_file.table

Survives ==
  Untorn /\ Synced /\ Unsynced /\ Fallback /\ Steps /\ MirrorExact

-----------------------------------------------------------------------------

\* The files and the tables that decide the invariant.
OnDisk == <<kind, main_file, dir_main, temp_file, promised, begun, undone_by_power>>

LEMMA DiskKept ==
  ASSUME Survives, UNCHANGED OnDisk
  PROVE  Untorn' /\ Synced' /\ Unsynced' /\ Fallback'
<1>1. Untorn' /\ Synced' /\ Fallback'
  BY DEF Survives, OnDisk, Untorn, Synced, Fallback, Sound, OneOf, Expected, Decoded
<1>2. Unsynced'
  BY Zenon DEF Survives, OnDisk, Unsynced, OneOf, Expected, Decoded
<1> QED
  BY <1>1, <1>2

\* A store starts empty.
LEMMA SurvivesInitially == ASSUME SnapInit PROVE Survives
<1>1. OneOf(main_file) /\ OneOf(dir_main)
  BY DEF SnapInit, OneOf, Expected, Decoded, NoFile
<1>2. Unsynced
  BY <1>1, Zenon DEF Unsynced
<1> QED
  BY <1>1, <1>2
  DEF SnapInit, Survives, Untorn, Sound, Synced, Fallback, Steps, Saving, MirrorExact, NoFile

\* A change that is saved at once.
LEMMA StartSaveSurvives ==
  ASSUME Survives, saving = "idle", NEW table, StartSave(table)
  PROVE  Survives'
<1>1. /\ Expected' = Expected \cup {table} /\ saving' = "open" /\ held' = table /\ before' = held
      /\ kind' = kind /\ main_file' = main_file /\ dir_main' = dir_main
      /\ temp_file' = temp_file
  BY DEF StartSave, Expected
<1>2. \A file : OneOf(file) => \E t \in Expected' : Decoded(file) = WholeFile(t)
  BY <1>1 DEF OneOf
<1>3. Untorn' /\ Synced'
  BY <1>1, <1>2 DEF Survives, Untorn, Sound, Synced, OneOf
<1>4. undone_by_power' = undone_by_power
  BY DEF StartSave
<1>5. Unsynced'
  BY <1>1, <1>2, <1>4, Zenon DEF Survives, Unsynced, OneOf
<1>6. Fallback'
  BY <1>1 DEF Survives, Fallback
<1>7. Steps' /\ MirrorExact'
  BY <1>1 DEF Survives, Steps, Saving, MirrorExact
<1> QED
  BY <1>3, <1>5, <1>6, <1>7 DEF Survives

\* A change that waits for a save.
LEMMA JustChangeSurvives ==
  ASSUME Survives, saving = "idle", kind \notin RollsBack, NEW table, JustChange(table)
  PROVE  Survives'
<1>1. UNCHANGED OnDisk /\ saving' = "idle" /\ kind' = kind
  BY DEF JustChange, OnDisk
<1>2. Steps' /\ MirrorExact'
  BY <1>1 DEF Steps, Saving, MirrorExact
<1> QED
  BY <1>1, <1>2, DiskKept DEF Survives

LEMMA OpenTempSurvives == ASSUME Survives, OpenTemp PROVE Survives'
<1>1. /\ Expected' = Expected /\ saving = "open" /\ saving' = "write" /\ held' = held
      /\ kind' = kind /\ main_file' = main_file /\ dir_main' = dir_main
      /\ temp_file' = TornFile /\ before' = before
  BY DEF OpenTemp, Expected
<1>2. Untorn' /\ Synced'
  BY <1>1 DEF Survives, Untorn, Sound, Synced, OneOf
<1>3. undone_by_power' = undone_by_power
  BY DEF OpenTemp
<1>4. Unsynced'
  BY <1>1, <1>3, Zenon DEF Survives, Unsynced, OneOf
<1>5. Fallback' /\ Steps' /\ MirrorExact'
  BY <1>1 DEF Survives, Fallback, Steps, Saving, MirrorExact, TornFile
<1> QED
  BY <1>2, <1>4, <1>5 DEF Survives

LEMMA WriteTempSurvives == ASSUME Survives, WriteTemp PROVE Survives'
<1>1. /\ Expected' = Expected /\ saving = "write" /\ saving' = "rename" /\ held' = held
      /\ kind' = kind /\ main_file' = main_file /\ dir_main' = dir_main
      /\ temp_file' = WholeFile(held) /\ before' = before
  BY DEF WriteTemp, Expected
<1>2. Untorn' /\ Synced'
  BY <1>1 DEF Survives, Untorn, Sound, Synced, OneOf
<1>3. undone_by_power' = undone_by_power
  BY DEF WriteTemp
<1>4. Unsynced'
  BY <1>1, <1>3, Zenon DEF Survives, Unsynced, OneOf
<1>5. Fallback' /\ Steps' /\ MirrorExact'
  BY <1>1 DEF Survives, Fallback, Steps, Saving, MirrorExact, WholeFile, SyncsDirectory
<1> QED
  BY <1>2, <1>4, <1>5 DEF Survives

\* The new file takes the name; without a directory to sync the save is done.
LEMMA RenameTempSurvives == ASSUME Survives, RenameTemp PROVE Survives'
<1>1. /\ saving = "rename" /\ held' = held /\ before' = before /\ kind' = kind
      /\ main_file' = WholeFile(held) /\ dir_main' = dir_main /\ temp_file' = NoFile
  BY DEF RenameTemp, Survives, Steps
<1>2. Untorn' /\ Fallback'
  BY <1>1 DEF Survives, Untorn, Sound, Fallback, WholeFile, NoFile
<1>3. Decoded(main_file') = WholeFile(held)
  BY <1>1 DEF Decoded, WholeFile
<1>4. CASE kind \in SyncsDirectory
  <2>1. saving' = "sync" /\ Expected' = Expected /\ held \in Expected
    BY <1>1, <1>4 DEF RenameTemp, Expected, Survives, Steps, Saving
  <2>2. Synced' /\ Unsynced'
    BY <1>1, <1>3, <1>4, <2>1 DEF Survives, Synced, Unsynced, OneOf
  <2>3. Steps' /\ MirrorExact'
    BY <1>1, <1>4, <2>1 DEF Steps, Saving, MirrorExact, SyncsDirectory, RollsBack
  <2> QED
    BY <1>2, <2>2, <2>3 DEF Survives
<1>5. CASE kind \notin SyncsDirectory
  <2>1. saving' = "idle" /\ held \in Expected'
    BY <1>5 DEF RenameTemp, DoneSaving, Expected
  <2>2. Synced' /\ OneOf(main_file)'
    BY <1>1, <1>3, <1>5, <2>1 DEF Synced, OneOf
  <2>3. Unsynced'
    BY <2>2, Zenon DEF Unsynced
  <2>4. Steps' /\ MirrorExact'
    BY <1>1, <2>1 DEF Steps, Saving, MirrorExact, WholeFile
  <2> QED
    BY <1>2, <2>2, <2>3, <2>4 DEF Survives
<1> QED
  BY <1>4, <1>5

\* The directory is synced: nothing older can come back.
LEMMA SyncParentSurvives == ASSUME Survives, SyncParent PROVE Survives'
<1>1. /\ saving' = "idle" /\ held' = held /\ kind' = kind /\ kind \in SyncsDirectory
      /\ main_file = WholeFile(held) /\ main_file' = WholeFile(held) /\ dir_main' = WholeFile(held)
      /\ temp_file' = NoFile /\ held \in Expected'
  BY DEF SyncParent, DoneSaving, Survives, Steps, Expected
<1>2. Untorn' /\ Fallback'
  BY <1>1 DEF Untorn, Sound, Fallback, WholeFile, NoFile
<1>3. Synced' /\ Unsynced'
  BY <1>1 DEF Synced, Unsynced, OneOf, Decoded, WholeFile
<1>4. Steps' /\ MirrorExact'
  BY <1>1 DEF Steps, Saving, MirrorExact, SyncsDirectory, RollsBack
<1> QED
  BY <1>2, <1>3, <1>4 DEF Survives

\* A failed save leaves the file as it was, and the table if it is rolled back.
LEMMA StepFailsSurvives == ASSUME Survives, StepFails PROVE Survives'
<1>1. /\ Expected' = Expected /\ Saving /\ saving' = "idle" /\ held' = RolledBack
      /\ kind' = kind /\ main_file' = main_file /\ dir_main' = dir_main
      /\ temp_file' = (IF kind = "peers" THEN temp_file ELSE NoFile)
  BY DEF StepFails, FailSave, Saving, Expected
<1>2. Untorn' /\ Synced'
  BY <1>1 DEF Survives, Untorn, Sound, Synced, OneOf
<1>3. undone_by_power' = undone_by_power
  BY DEF StepFails, FailSave
<1>4. Unsynced'
  BY <1>1, <1>3, Zenon DEF Survives, Unsynced, OneOf
<1>5. Fallback'
  BY <1>1 DEF Survives, Fallback
<1>6. Steps' /\ MirrorExact'
  BY <1>1 DEF Survives, Steps, Saving, MirrorExact, RolledBack
<1> QED
  BY <1>2, <1>4, <1>5, <1>6 DEF Survives

LEMMA KillSurvives == ASSUME Survives, Kill PROVE Survives'
<1>1. UNCHANGED OnDisk /\ saving' = "down"
  BY DEF Kill, OnDisk
<1>2. Steps' /\ MirrorExact'
  BY <1>1 DEF Steps, Saving, MirrorExact
<1> QED
  BY <1>1, <1>2, DiskKept DEF Survives

\* Either name the directory comes back with holds an expected table, or a rename
\* of a store that does not sync it was undone.
LEMMA PowerFailsSurvives == ASSUME Survives, PowerFails PROVE Survives'
<1>1. PICK m \in {main_file, dir_main} :
        /\ main_file' = m /\ dir_main' = m
        /\ undone_by_power' = (undone_by_power \/ m # main_file)
  BY DEF PowerFails
<1>2. /\ Expected' = Expected /\ saving' = "down" /\ kind' = kind
      /\ temp_file' = (IF saving = "write" THEN TornFile ELSE temp_file)
  BY DEF PowerFails, Expected
<1>3. Untorn' /\ Synced'
  BY <1>1, <1>2 DEF Survives, Untorn, Sound, Synced, OneOf
<1>4. Unsynced'
  <2>1. CASE m = main_file
    BY <1>1, <1>2, <2>1, Zenon DEF Survives, Unsynced, OneOf
  <2>2. CASE m # main_file
    BY <1>1, <2>2, Zenon DEF Unsynced
  <2> QED
    BY <2>1, <2>2
<1>5. Fallback'
  BY <1>2 DEF Survives, Fallback, TornFile
<1>6. Steps' /\ MirrorExact'
  BY <1>2 DEF Steps, Saving, MirrorExact
<1> QED
  BY <1>3, <1>4, <1>5, <1>6 DEF Survives

-----------------------------------------------------------------------------

\* What a start holds is what is in the file under its name.
LEMMA DecodedIsHeld ==
  ASSUME Untorn PROVE Decoded(main_file).table = main_file.table
  BY DEF Untorn, Sound, Decoded, NoFile, WholeFile

LEMMA OpenSurvives ==
  ASSUME Survives, OpenRatchets \/ OpenTickets \/ LoadNodes
  PROVE  Survives'
<1>1. /\ UNCHANGED OnDisk /\ saving' \in {"open", "idle"} /\ kind' = kind
      /\ kind # "peers" /\ (saving' = "open" => kind = "ratchets")
      /\ held' = Recovered.table /\ before' = Recovered.table /\ main_file' = main_file
  BY DEF OpenRatchets, OpenTickets, LoadNodes, Openable, Opened, OnDisk
<1>2. Recovered.table = main_file.table
  BY <1>1, DecodedIsHeld DEF Recovered, Survives
<1>3. Steps' /\ MirrorExact'
  BY <1>1, <1>2 DEF Steps, Saving, MirrorExact, SyncsDirectory
<1> QED
  BY <1>1, <1>3, DiskKept DEF Survives

\* The peers promote the temporary file, which holds an expected table.
LEMMA OpenPeersSurvives == ASSUME Survives, OpenPeers PROVE Survives'
<1>1. /\ Expected' = Expected /\ kind' = kind /\ kind = "peers" /\ saving' = "idle"
      /\ main_file' = (IF Repaired THEN temp_file ELSE main_file)
      /\ dir_main' = dir_main \/ dir_main' = main_file'
      /\ temp_file' = TornFile \/ temp_file' = NoFile
  BY DEF OpenPeers, Openable, Opened, Expected
<1>2. Sound(main_file) /\ Sound(dir_main) /\ OneOf(main_file) /\ OneOf(dir_main)
  BY <1>1 DEF Survives, Untorn, Synced, SyncsDirectory
<1>3. Sound(main_file') /\ OneOf(main_file')
  <2>1. CASE Repaired
    <3>1. temp_file.is = "whole" /\ main_file' = temp_file
      BY <1>1, <2>1 DEF Repaired
    <3>2. temp_file = WholeFile(temp_file.table) /\ temp_file.table \in Expected
      BY <1>1, <3>1 DEF Survives, Fallback
    <3>3. Decoded(temp_file) = WholeFile(temp_file.table)
      BY <3>1, <3>2 DEF Decoded
    <3> QED
      BY <3>1, <3>2, <3>3 DEF Sound, OneOf
  <2>2. CASE ~Repaired
    BY <1>1, <1>2, <2>2
  <2> QED
    BY <2>1, <2>2
<1>4. Untorn' /\ Synced' /\ Unsynced'
  BY <1>1, <1>2, <1>3 DEF Untorn, Synced, Unsynced, Sound, OneOf, SyncsDirectory
<1>5. Fallback' /\ Steps' /\ MirrorExact'
  BY <1>1 DEF Fallback, Steps, Saving, MirrorExact, RollsBack, TornFile, NoFile
<1> QED
  BY <1>4, <1>5 DEF Survives

-----------------------------------------------------------------------------

LEMMA SurvivesNext == ASSUME Survives, [SnapNext]_snapVars PROVE Survives'
<1>1. CASE RotateRatchet
  BY <1>1, StartSaveSurvives DEF RotateRatchet, Made
<1>2. CASE IssueTicket
  BY <1>2, StartSaveSurvives DEF IssueTicket, Made
<1>3. CASE RememberTicket
  BY <1>3, StartSaveSurvives DEF RememberTicket, Made
<1>4. CASE CleanupTickets
  BY <1>4, StartSaveSurvives DEF CleanupTickets, Unmade
<1>5. CASE PutPeer
  BY <1>5, JustChangeSurvives DEF PutPeer, Made, RollsBack
<1>6. CASE RemovePeer
  BY <1>6, JustChangeSurvives DEF RemovePeer, Unmade, RollsBack
<1>7. CASE ConsiderAnnounce
  BY <1>7, JustChangeSurvives DEF ConsiderAnnounce, Made, RollsBack
<1>8. CASE ExpireNode
  BY <1>8, JustChangeSurvives DEF ExpireNode, Unmade, RollsBack
<1>9. CASE SaveNow
  BY <1>9, StartSaveSurvives DEF SaveNow, Unmade
<1>10. CASE OpenTemp \/ WriteTemp \/ RenameTemp \/ SyncParent \/ StepFails
  BY <1>10, OpenTempSurvives, WriteTempSurvives, RenameTempSurvives,
     SyncParentSurvives, StepFailsSurvives
<1>11. CASE Kill \/ PowerFails
  BY <1>11, KillSurvives, PowerFailsSurvives
<1>12. CASE OpenRatchets \/ OpenTickets \/ OpenPeers \/ LoadNodes
  BY <1>12, OpenSurvives, OpenPeersSurvives
<1>13. CASE UNCHANGED snapVars
  <2>1. UNCHANGED OnDisk /\ saving' = saving /\ held' = held /\ before' = before
    BY <1>13 DEF snapVars, OnDisk
  <2>2. Steps' /\ MirrorExact'
    BY <2>1 DEF Survives, Steps, Saving, Expected, MirrorExact, OnDisk
  <2> QED
    BY <2>1, <2>2, DiskKept DEF Survives
<1> QED
  BY <1>1, <1>2, <1>3, <1>4, <1>5, <1>6, <1>7, <1>8, <1>9, <1>10, <1>11, <1>12,
     <1>13 DEF SnapNext

\* The invariant gives what a start finds.
LEMMA SurvivesSaved == ASSUME Survives PROVE SavedSurvives
<1>1. CASE kind = "peers" /\ Repaired
  <2>1. Recovered = temp_file /\ temp_file.is = "whole"
    BY <1>1 DEF Recovered, Repaired
  <2>2. temp_file = WholeFile(temp_file.table) /\ temp_file.table \in Expected
    BY <1>1, <2>1 DEF Survives, Fallback
  <2> QED
    BY <2>1, <2>2 DEF SavedSurvives, Expected
<1>2. CASE ~(kind = "peers" /\ Repaired)
  <2>1. Recovered = Decoded(main_file)
    BY <1>2 DEF Recovered
  <2>2. CASE OneOf(main_file)
    BY <2>1, <2>2 DEF SavedSurvives, OneOf, Expected
  <2>3. CASE ~OneOf(main_file)
    BY <2>3, Zenon DEF Survives, Synced, Unsynced, SavedSurvives
  <2> QED
    BY <2>2, <2>3
<1> QED
  BY <1>1, <1>2

-----------------------------------------------------------------------------

\* The changes to a table make tables.
LEMMA ChangedTables ==
  ASSUME NEW table \in Tables, NEW e \in 1..MaxEntries
  PROVE  /\ Overwritten(table, e) \subseteq Tables
         /\ Added(table, e) \subseteq Tables
         /\ Rotated(table, e) \in Tables
<1>0. PICK S : S = 1..MaxEntries
  OBVIOUS
<1>1. table \in Seq(S) /\ Len(table) \in Nat /\ Len(table) <= Room
  BY <1>0 DEF Tables
<1>2. ASSUME NEW i \in DOMAIN table PROVE [table EXCEPT ![i] = e] \in Tables
  BY <1>0, <1>1, ExceptSeq DEF Tables
<1>3. Len(table) < Room => Append(table, e) \in Tables
  BY <1>0, <1>1, AppendProperties, SnapshotsConfig DEF Tables
<1>4. Rotated(table, e) \in Tables
  <2>1. PICK n \in Int : /\ n = (IF Len(table) < Room THEN Len(table) ELSE Room - 1)
                         /\ 0 <= n /\ n <= Len(table) /\ n + 1 <= Room
    BY <1>1, SnapshotsConfig
  <2>2. \A k \in 1 .. n : table[k] \in S
    BY <1>1, <2>1, ElementOfSeq
  <2>3. SubSeq(table, 1, n) \in Seq(S) /\ Len(SubSeq(table, 1, n)) = n
    BY <2>1, <2>2, SubSeqProperties
  <2>4. <<e>> \in Seq(S) /\ Len(<<e>>) = 1
    BY <1>0
  <2>5. <<e>> \o SubSeq(table, 1, n) \in Seq(S)
        /\ Len(<<e>> \o SubSeq(table, 1, n)) = 1 + n
    BY <2>3, <2>4, ConcatProperties
  <2> QED
    BY <1>0, <2>1, <2>5, SnapshotsConfig DEF Tables, Rotated
<1> QED
  BY <1>2, <1>3, <1>4, Zenon DEF Overwritten, Added

\* Removals, with the order kept and with the last entry in the hole.
LEMMA ShorterTables ==
  ASSUME NEW table \in Tables, NEW i \in DOMAIN table
  PROVE  /\ SubSeq(table, 1, i - 1) \o SubSeq(table, i + 1, Len(table)) \in Tables
         /\ Moved(table, i) \in Tables
<1>0. PICK S : S = 1..MaxEntries
  OBVIOUS
<1>1. /\ table \in Seq(S) /\ Len(table) \in Nat /\ Len(table) <= Room
      /\ i \in 1 .. Len(table) /\ Len(table) > 0 /\ Room \in Nat
  BY <1>0, SnapshotsConfig DEF Tables
<1>2. \A k \in 1 .. Len(table) : table[k] \in S
  BY <1>1, ElementOfSeq
<1>3. SubSeq(table, 1, i - 1) \in Seq(S) /\ Len(SubSeq(table, 1, i - 1)) = i - 1
  <2>1. i - 1 \in Int /\ 1 \in Int /\ \A k \in 1 .. i - 1 : table[k] \in S
    BY <1>1, <1>2
  <2> QED
    BY <1>1, <2>1, SubSeqProperties
<1>4. /\ SubSeq(table, i + 1, Len(table)) \in Seq(S)
      /\ Len(SubSeq(table, i + 1, Len(table))) = Len(table) - i
  <2>1. i + 1 \in Int /\ \A k \in i + 1 .. Len(table) : table[k] \in S
    BY <1>1, <1>2
  <2> QED
    BY <1>1, <2>1, SubSeqProperties
<1>5. SubSeq(table, 1, i - 1) \o SubSeq(table, i + 1, Len(table)) \in Tables
  <2>1. /\ SubSeq(table, 1, i - 1) \o SubSeq(table, i + 1, Len(table)) \in Seq(S)
        /\ Len(SubSeq(table, 1, i - 1) \o SubSeq(table, i + 1, Len(table)))
             = (i - 1) + (Len(table) - i)
    BY <1>3, <1>4, ConcatProperties
  <2>2. PICK l \in Nat, joined \in Seq(S) :
          /\ l = Len(table) /\ Len(joined) = (i - 1) + (l - i)
          /\ joined = SubSeq(table, 1, i - 1) \o SubSeq(table, i + 1, Len(table))
    BY Zenon, <1>1, <2>1
  <2>3. Len(joined) <= Room
    BY <1>1, <2>2
  <2>4. joined \in Tables
    BY <1>0, <2>3 DEF Tables
  <2> QED
    BY <2>2, <2>4
<1>6. Moved(table, i) \in Tables
  <2>1. PICK last \in S, m \in Int : last = table[Len(table)] /\ m = Len(table) - 1
    <3>1. Len(table) \in 1 .. Len(table) /\ Len(table) - 1 \in Int
      BY <1>1
    <3> QED
      BY <1>2, <3>1
  <2>2. PICK moved : moved = [table EXCEPT ![i] = last]
    BY Zenon
  <2>3. moved \in Seq(S) /\ Len(moved) = Len(table)
    BY <1>1, <2>2, ExceptSeq
  <2>4. \A k \in 1 .. m : moved[k] \in S
    BY <1>1, <2>1, <2>3, ElementOfSeq
  <2>5. SubSeq(moved, 1, m) \in Seq(S) /\ Len(SubSeq(moved, 1, m)) = m
    BY <1>1, <2>1, <2>4, SubSeqProperties
  <2> QED
    BY <1>0, <1>1, <2>1, <2>2, <2>5 DEF Tables, Moved
<1> QED
  BY <1>5, <1>6

\* The empty table, and the files made of tables.
LEMMA TableFiles ==
  /\ << >> \in Tables /\ NoFile \in Files /\ TornFile \in Files
  /\ \A table \in Tables : WholeFile(table) \in Files
<1>1. << >> \in Tables
  BY SnapshotsConfig DEF Tables
<1> QED
  BY <1>1 DEF Files, NoFile, TornFile, WholeFile

\* What a start reads is a table.
LEMMA RecoveredTyped ==
  ASSUME SnapTypeOK PROVE Recovered \in Files /\ Recovered.table \in Tables
BY TableFiles DEF SnapTypeOK, Recovered, Decoded, Files

LEMMA SnapTypedInitially == ASSUME SnapInit PROVE SnapTypeOK
<1>1. undone_by_power \in BOOLEAN
  BY Zenon DEF SnapInit
<1> QED
  BY <1>1, TableFiles, SnapshotsConfig DEF SnapInit, SnapTypeOK

\* A change to the table, saved at once or left to a later save.
LEMMA ChangeTyped ==
  ASSUME SnapTypeOK, NEW table \in Tables, StartSave(table) \/ JustChange(table), Made \/ Unmade
  PROVE  SnapTypeOK'
<1>1. entries' \in 0..MaxEntries
  BY SnapshotsConfig DEF SnapTypeOK, Made, Unmade, New
<1>2. /\ UNCHANGED <<kind, main_file, dir_main, temp_file, promised, disk_faults>>
      /\ held' \in Tables /\ before' \in Tables /\ begun' \subseteq Tables
      /\ saving' \in {"down", "idle", "open", "write", "rename", "sync"}
  BY DEF SnapTypeOK, StartSave, JustChange
<1>3. undone_by_power' \in BOOLEAN
  BY Zenon DEF SnapTypeOK, StartSave, JustChange
<1> QED
  BY <1>1, <1>2, <1>3 DEF SnapTypeOK

LEMMA SaveStepTyped ==
  ASSUME SnapTypeOK, OpenTemp \/ WriteTemp \/ RenameTemp \/ SyncParent
  PROVE  SnapTypeOK'
<1>1. /\ UNCHANGED <<kind, held, before, entries, disk_faults>>
      /\ main_file' \in Files /\ dir_main' \in Files /\ temp_file' \in Files
      /\ promised' \in Tables /\ begun' \subseteq Tables
      /\ saving' \in {"down", "idle", "open", "write", "rename", "sync"}
  BY TableFiles DEF SnapTypeOK, OpenTemp, WriteTemp, RenameTemp, SyncParent, DoneSaving
<1>2. undone_by_power' \in BOOLEAN
  <2>1. undone_by_power' = undone_by_power \/ undone_by_power' = FALSE
    BY DEF OpenTemp, WriteTemp, RenameTemp, SyncParent, DoneSaving
  <2> QED
    BY <2>1, Zenon DEF SnapTypeOK
<1> QED
  BY <1>1, <1>2 DEF SnapTypeOK

LEMMA FaultTyped ==
  ASSUME SnapTypeOK, StepFails \/ Kill \/ PowerFails
  PROVE  SnapTypeOK'
<1>1. disk_faults' \in 0..MaxDiskFaults
  BY SnapshotsConfig DEF SnapTypeOK, StepFails, FailSave, Kill, PowerFails, Fault
<1>2. /\ UNCHANGED <<kind, before, entries, promised, begun>>
      /\ main_file' \in Files /\ dir_main' \in Files /\ temp_file' \in Files
      /\ held' \in Tables
      /\ saving' \in {"down", "idle", "open", "write", "rename", "sync"}
  BY TableFiles DEF SnapTypeOK, StepFails, FailSave, Kill, PowerFails, RolledBack
<1>3. undone_by_power' \in BOOLEAN
  BY Zenon DEF SnapTypeOK, StepFails, FailSave, Kill, PowerFails
<1> QED
  BY <1>1, <1>2, <1>3 DEF SnapTypeOK

LEMMA OpenTyped ==
  ASSUME SnapTypeOK, OpenRatchets \/ OpenTickets \/ OpenPeers \/ LoadNodes
  PROVE  SnapTypeOK'
<1>1. Opened(Recovered.table)
  BY DEF OpenRatchets, OpenTickets, OpenPeers, LoadNodes
<1>2. /\ UNCHANGED <<kind, promised, begun, undone_by_power, entries, disk_faults>>
      /\ held' \in Tables /\ before' \in Tables
  BY <1>1, RecoveredTyped DEF Opened
<1>3. /\ main_file' \in Files /\ dir_main' \in Files /\ temp_file' \in Files
      /\ saving' \in {"down", "idle", "open", "write", "rename", "sync"}
  BY TableFiles DEF SnapTypeOK, OpenRatchets, OpenTickets, OpenPeers, LoadNodes
<1> QED
  BY <1>2, <1>3 DEF SnapTypeOK

LEMMA SnapTypedNext == ASSUME SnapTypeOK, [SnapNext]_snapVars PROVE SnapTypeOK'
<1>1. entries < MaxEntries => New \in 1..MaxEntries
  BY SnapshotsConfig DEF SnapTypeOK, New
<1>2. held \in Tables
  BY DEF SnapTypeOK
<1>3. CASE RotateRatchet \/ IssueTicket \/ RememberTicket
  BY <1>1, <1>2, <1>3, ChangedTables, ChangeTyped
  DEF RotateRatchet, IssueTicket, RememberTicket, Made
<1>4. CASE PutPeer \/ ConsiderAnnounce
  BY <1>1, <1>2, <1>4, ChangedTables, ChangeTyped DEF PutPeer, ConsiderAnnounce, Upserted, Made
<1>5. CASE CleanupTickets \/ RemovePeer \/ ExpireNode
  BY <1>2, <1>5, ShorterTables, ChangeTyped DEF CleanupTickets, RemovePeer, ExpireNode
<1>6. CASE SaveNow
  BY <1>2, <1>6, ChangeTyped DEF SaveNow
<1>7. CASE OpenTemp \/ WriteTemp \/ RenameTemp \/ SyncParent \/ StepFails \/ Kill \/ PowerFails
  BY <1>7, SaveStepTyped, FaultTyped
<1>8. CASE OpenRatchets \/ OpenTickets \/ OpenPeers \/ LoadNodes
  BY <1>8, OpenTyped
<1>9. CASE UNCHANGED snapVars
  BY <1>9 DEF snapVars, SnapTypeOK
<1> QED
  BY <1>3, <1>4, <1>5, <1>6, <1>7, <1>8, <1>9 DEF SnapNext

\* Whatever the moment of a kill or power failure, ratchets, tickets, peers and
\* nodes are read back as last saved or as being saved since
\* (lxmf_peer_store_open, rns_node_registry_load and their siblings), and the
\* ratchets and tickets in use are those in their file.
THEOREM SavedTablesSurvive == SnapSpec => []SnapshotsSurvive
<1>1. SnapInit => Survives /\ SnapTypeOK
  BY SurvivesInitially, SnapTypedInitially
<1>2. Survives /\ [SnapNext]_snapVars => Survives'
  BY SurvivesNext
<1>3. SnapTypeOK /\ [SnapNext]_snapVars => SnapTypeOK'
  BY SnapTypedNext
<1>4. Survives /\ SnapTypeOK => SnapshotsSurvive
  BY SurvivesSaved DEF Survives, SnapshotsSurvive
<1> QED
  BY <1>1, <1>2, <1>3, <1>4, PTL DEF SnapSpec

-----------------------------------------------------------------------------
(* The saved paths.                                                        *)


PathTables == UNION {[S -> [left : Nat, age : Nat, timebase : Timebases]] : S \in SUBSET Targets}

\* The shapes the argument needs.
Shapes ==
    /\ booted \in BOOLEAN /\ keeps \in BOOLEAN /\ crashed \in BOOLEAN
    /\ wall_time \in Nat
    /\ paths \in PathTables
    /\ snapshot \in [wall : Nat, records : PathTables]
    /\ powered \in [Targets -> Nat]

\* An entry that has been on for p units and is given back after at least d
\* more units of wall time has no more left than it should.
Fair(e, p, d) == e.left + p <= PathLifetime + d /\ p <= e.age + d

\* A saved entry may look too good by the wall time since the save, while the
\* clock keeps time, and by nothing if the save was the last act of the node.
SnapshotFair ==
    \A t \in DOMAIN snapshot.records :
        /\ keeps => /\ snapshot.wall <= wall_time
                    /\ Fair(snapshot.records[t], powered[t], wall_time - snapshot.wall)
        /\ ~crashed /\ ~booted => Fair(snapshot.records[t], powered[t], 0)

\* The entries of the snapshot are live, and none of them has more than the
\* lifetime left.
SnapshotLive ==
    \A t \in DOMAIN snapshot.records :
        snapshot.records[t].left > 0 /\ snapshot.records[t].left <= PathLifetime

Aged ==
    /\ Shapes
    /\ \A t \in DOMAIN paths : paths[t].left <= PathLifetime
    /\ SnapshotLive
    /\ SnapshotFair
    /\ NotProlonged

\* Entries of a table, and a table made of entries.
LEMMA TableEntries ==
    ASSUME NEW f \in PathTables
    PROVE  /\ DOMAIN f \subseteq Targets
           /\ \A t \in DOMAIN f : /\ t \in Targets
                                  /\ f[t] \in [left : Nat, age : Nat, timebase : Timebases]
                                  /\ f[t].left \in Nat /\ f[t].age \in Nat
BY DEF PathTables

\* An entry whose times are moved.
LEMMA MovedEntry ==
    ASSUME NEW e \in [left : Nat, age : Nat, timebase : Timebases],
           NEW l \in Nat, NEW g \in Nat, NEW f, f = [e EXCEPT !.left = l, !.age = g]
    PROVE  /\ f \in [left : Nat, age : Nat, timebase : Timebases]
           /\ f.left = l /\ f.age = g
BY Zenon

\* The time between two readings of a clock.
LEMMA Elapsed ==
    ASSUME NEW a \in Nat, NEW b \in Nat, b >= a
    PROVE  b - a \in Nat /\ 0 <= b - a /\ a <= b
OBVIOUS

\* The empty table.
LEMMA NoEntries == Empty \in PathTables /\ DOMAIN Empty = {}
<1>1. Empty \in [{} -> [left : Nat, age : Nat, timebase : Timebases]]
  BY DEF Empty
<1>2. {} \in SUBSET Targets
  OBVIOUS
<1> QED
  BY <1>1, <1>2 DEF PathTables

\* The node starts with nothing to prolong.
LEMMA AgedInitially ==
    ASSUME PathInit PROVE Aged
<1>1. Empty \in PathTables /\ DOMAIN Empty = {}
  BY NoEntries
<1>2. booted \in BOOLEAN /\ crashed \in BOOLEAN
  BY Zenon DEF PathInit
<1>3. /\ paths = Empty /\ snapshot = [wall |-> wall_time, records |-> Empty]
      /\ wall_time \in Nat /\ keeps \in BOOLEAN /\ powered \in [Targets -> Nat]
  BY PathStoreConfig DEF PathInit
<1> QED
  BY <1>1, <1>2, <1>3 DEF Aged, Shapes, SnapshotLive, SnapshotFair, NotProlonged

\* An announce starts an entry afresh.
LEMMA LearnAged ==
    ASSUME Aged, NEW t \in Targets, NEW base \in Timebases, LearnPath(t, base)
    PROVE  Aged'
<1>1. PICK S \in SUBSET Targets :
        /\ t \in S /\ S \ {t} \subseteq DOMAIN paths
        /\ paths' = [u \in S |-> IF u = t
                                 THEN [left |-> PathLifetime, age |-> 0, timebase |-> base]
                                 ELSE paths[u]]
  <2>1. DOMAIN paths \subseteq Targets
    BY TableEntries DEF Aged, Shapes
  <2> QED
    BY <2>1 DEF LearnPath
<1>2. /\ powered' = [powered EXCEPT ![t] = 0]
      /\ UNCHANGED <<booted, keeps, crashed, wall_time, snapshot, total>>
  BY DEF LearnPath
<1>3. powered' \in [Targets -> Nat] /\ powered'[t] = 0
      /\ \A u \in Targets \ {t} : powered'[u] = powered[u]
  BY <1>2 DEF Aged, Shapes
<1>4. \A u \in S : /\ paths'[u] \in [left : Nat, age : Nat, timebase : Timebases]
                   /\ paths'[u].left <= PathLifetime
                   /\ u = t => paths'[u].left = PathLifetime /\ paths'[u].age = 0
                   /\ u # t => paths'[u] = paths[u]
  <2>1. \A u \in DOMAIN paths : /\ paths[u] \in [left : Nat, age : Nat, timebase : Timebases]
                                /\ paths[u].left <= PathLifetime
    BY TableEntries DEF Aged, Shapes
  <2>2. /\ PathLifetime \in Nat
        /\ [left |-> PathLifetime, age |-> 0, timebase |-> base]
              \in [left : Nat, age : Nat, timebase : Timebases]
    BY PathStoreConfig
  <2> SUFFICES ASSUME NEW u \in S
               PROVE  /\ paths'[u] \in [left : Nat, age : Nat, timebase : Timebases]
                      /\ paths'[u].left <= PathLifetime
                      /\ u = t => paths'[u].left = PathLifetime /\ paths'[u].age = 0
                      /\ u # t => paths'[u] = paths[u]
    OBVIOUS
  <2>3. CASE u = t
    <3>1. paths'[u] = [left |-> PathLifetime, age |-> 0, timebase |-> base]
      BY <1>1, <2>3
    <3> QED
      BY <2>2, <2>3, <3>1
  <2>4. CASE u # t
    <3>1. paths'[u] = paths[u] /\ u \in DOMAIN paths
      BY <1>1, <2>4
    <3> QED
      BY <2>1, <2>4, <3>1
  <2> QED
    BY <2>3, <2>4
<1>5. paths' \in PathTables /\ DOMAIN paths' = S
  BY <1>1, <1>4 DEF PathTables
<1>6. Shapes'
  BY <1>2, <1>3, <1>5 DEF Aged, Shapes
<1>7. SnapshotFair'
  <2>1. \A u \in DOMAIN snapshot.records :
           u \in Targets /\ snapshot.records[u].left \in Nat /\ snapshot.records[u].age \in Nat
    BY TableEntries DEF Aged, Shapes
  <2>2. snapshot.wall \in Nat /\ wall_time \in Nat
    BY DEF Aged, Shapes
  <2>3. \A u \in DOMAIN snapshot.records :
           /\ keeps => /\ snapshot.wall <= wall_time
                       /\ Fair(snapshot.records[u], powered'[u], wall_time - snapshot.wall)
           /\ ~crashed /\ ~booted => Fair(snapshot.records[u], powered'[u], 0)
    <3> SUFFICES ASSUME NEW u \in DOMAIN snapshot.records
                 PROVE  /\ keeps => /\ snapshot.wall <= wall_time
                                    /\ Fair(snapshot.records[u], powered'[u],
                                            wall_time - snapshot.wall)
                        /\ ~crashed /\ ~booted => Fair(snapshot.records[u], powered'[u], 0)
      OBVIOUS
    <3>1. /\ keeps => /\ snapshot.wall <= wall_time
                      /\ Fair(snapshot.records[u], powered[u], wall_time - snapshot.wall)
          /\ ~crashed /\ ~booted => Fair(snapshot.records[u], powered[u], 0)
      BY DEF Aged, SnapshotFair
    <3>2. CASE u # t
      <4>1. powered'[u] = powered[u]
        BY <1>3, <2>1, <3>2
      <4> QED
        BY <3>1, <4>1
    <3>3. CASE u = t
      <4>1. powered'[u] = 0 /\ snapshot.records[u].left <= PathLifetime
        BY <1>3, <3>3 DEF Aged, SnapshotLive
      <4>2. snapshot.records[u].left \in Nat /\ snapshot.records[u].age \in Nat
        BY <2>1
      <4>3. \A d \in Nat : Fair(snapshot.records[u], 0, d)
        BY PathStoreConfig, <4>1, <4>2 DEF Fair
      <4>4. snapshot.wall <= wall_time => wall_time - snapshot.wall \in Nat
        BY <2>2
      <4>5. ASSUME keeps
            PROVE  /\ snapshot.wall <= wall_time
                   /\ Fair(snapshot.records[u], 0, wall_time - snapshot.wall)
        BY <3>1, <4>3, <4>4, <4>5
      <4>6. Fair(snapshot.records[u], 0, 0)
        BY <4>3
      <4> QED
        BY <4>1, <4>5, <4>6
    <3> QED
      BY <3>2, <3>3
  <2> QED
    BY <1>2, <2>3 DEF SnapshotFair
<1>8. NotProlonged'
  <2>1. ASSUME keeps \/ ~crashed, NEW u \in S, u # t, paths'[u].left > 0
        PROVE  paths'[u].left + powered'[u] <= PathLifetime /\ paths'[u].age >= powered'[u]
    BY <1>1, <1>3, <1>4, <2>1 DEF NotProlonged, Live, Aged
  <2>2. ASSUME NEW u \in S, u = t
        PROVE  paths'[u].left + powered'[u] <= PathLifetime /\ paths'[u].age >= powered'[u]
    <3>1. paths'[u].left = PathLifetime /\ paths'[u].age = 0 /\ powered'[u] = 0
      BY <1>3, <1>4, <2>2
    <3> QED
      BY PathStoreConfig, <3>1
  <2>3. (keeps' \/ ~crashed') => (keeps \/ ~crashed)
    BY <1>2
  <2> QED
    BY <1>5, <2>1, <2>2, <2>3 DEF NotProlonged, Live
<1> QED
  BY <1>2, <1>4, <1>5, <1>6, <1>7, <1>8 DEF Aged, SnapshotLive

\* rns_path_store_encode writes live entries as they are.
LEMMA EncodedFair ==
    ASSUME Aged
    PROVE  /\ EncodedPaths \in [wall : Nat, records : PathTables]
           /\ EncodedPaths.wall = wall_time
           /\ \A t \in DOMAIN EncodedPaths.records :
                 /\ EncodedPaths.records[t].left > 0 /\ EncodedPaths.records[t].left <= PathLifetime
                 /\ keeps \/ ~crashed => Fair(EncodedPaths.records[t], powered[t], 0)
<1> DEFINE L == {u \in DOMAIN paths : Live(u)}
           R == [t \in L |-> paths[t]]
<1>1. L \in SUBSET Targets /\ \A t \in L : t \in DOMAIN paths /\ paths[t].left > 0
  BY TableEntries DEF Aged, Shapes, Live
<1>2. \A t \in L : /\ t \in Targets
                   /\ paths[t] \in [left : Nat, age : Nat, timebase : Timebases]
                   /\ paths[t].left \in Nat /\ paths[t].age \in Nat
  BY TableEntries DEF Aged, Shapes
<1>3. R \in PathTables /\ DOMAIN R = L /\ \A t \in L : R[t] = paths[t]
  <2>1. R \in [L -> [left : Nat, age : Nat, timebase : Timebases]]
    BY <1>2
  <2> QED
    BY <1>1, <2>1, Zenon DEF PathTables
<1>4. EncodedPaths = [wall |-> wall_time, records |-> R]
  BY DEF EncodedPaths
<1>5. wall_time \in Nat /\ \A t \in Targets : powered[t] \in Nat
  BY DEF Aged, Shapes
<1>6. \A t \in L : keeps \/ ~crashed => paths[t].left + powered[t] <= PathLifetime
                                       /\ paths[t].age >= powered[t]
  BY <1>1 DEF Aged, NotProlonged, Live
<1>7. \A t \in L : paths[t].left <= PathLifetime
  BY DEF Aged
<1> HIDE DEF L, R
<1>8. \A t \in L : keeps \/ ~crashed => Fair(R[t], powered[t], 0)
  <2> SUFFICES ASSUME NEW t \in L, keeps \/ ~crashed PROVE Fair(R[t], powered[t], 0)
    OBVIOUS
  <2>1. /\ paths[t].left + powered[t] <= PathLifetime /\ paths[t].age >= powered[t]
        /\ R[t] = paths[t]
    BY <1>3, <1>6
  <2>2. paths[t].left \in Nat /\ paths[t].age \in Nat /\ powered[t] \in Nat
    BY <1>2, <1>5
  <2> QED
    BY PathStoreConfig, <2>1, <2>2 DEF Fair
<1> QED
  BY <1>1, <1>3, <1>4, <1>5, <1>7, <1>8

\* The numbers of a saved entry.
LEMMA SavedEntries ==
    ASSUME Aged
    PROVE  /\ snapshot.wall \in Nat /\ wall_time \in Nat
           /\ \A t \in DOMAIN snapshot.records :
                 /\ t \in Targets /\ powered[t] \in Nat
                 /\ snapshot.records[t] \in [left : Nat, age : Nat, timebase : Timebases]
                 /\ snapshot.records[t].left \in Nat /\ snapshot.records[t].age \in Nat
BY TableEntries DEF Aged, Shapes

\* What is fair after some time is fair after more.
LEMMA FairLater ==
    ASSUME NEW e, e.left \in Nat, e.age \in Nat, NEW p \in Nat,
           NEW c \in Nat, NEW d \in Nat, c <= d, Fair(e, p, c)
    PROVE  Fair(e, p, d)
BY PathStoreConfig DEF Fair

\* A save while the node runs.
LEMMA SaveAged ==
    ASSUME Aged, Save PROVE Aged'
<1>1. /\ booted /\ snapshot' = EncodedPaths
      /\ UNCHANGED <<booted, keeps, crashed, wall_time, paths, powered, total>>
  BY DEF Save
<1>2. Shapes' /\ NotProlonged' /\ \A t \in DOMAIN paths' : paths'[t].left <= PathLifetime
  BY <1>1, EncodedFair DEF Aged, Shapes, NotProlonged, Live
<1>3. SnapshotLive'
  BY <1>1, EncodedFair DEF SnapshotLive
<1>4. SnapshotFair'
  <2>1. wall_time \in Nat /\ wall_time - wall_time = 0 /\ wall_time <= wall_time
    BY DEF Aged, Shapes
  <2> QED
    BY <1>1, <2>1, EncodedFair DEF SnapshotFair
<1> QED
  BY <1>2, <1>3, <1>4 DEF Aged

\* The node goes down, with or without a save.
LEMMA GoDownAged ==
    ASSUME Aged, GoDown PROVE Aged'
<1>1. /\ ~booted' /\ booted' \in BOOLEAN /\ crashed' \in BOOLEAN
      /\ (snapshot' = EncodedPaths /\ crashed' = crashed) \/ (snapshot' = snapshot /\ crashed')
  BY Zenon DEF GoDown, Aged, Shapes
<1>2. /\ paths' = Empty /\ wall_time' \in Nat /\ (keeps => wall_time' >= wall_time)
      /\ UNCHANGED <<keeps, powered, total>>
  BY PathStoreConfig DEF GoDown
<1>3. Shapes'
  <2>1. paths' \in PathTables
    BY <1>2, NoEntries, Zenon
  <2>2. snapshot' \in [wall : Nat, records : PathTables]
    BY <1>1, EncodedFair, Zenon DEF Aged, Shapes
  <2> QED
    BY <1>1, <1>2, <2>1, <2>2, Zenon DEF Aged, Shapes
<1>4. NotProlonged' /\ \A t \in DOMAIN paths' : paths'[t].left <= PathLifetime
  <2>1. DOMAIN paths' = {}
    BY <1>2, NoEntries, Zenon
  <2> QED
    BY <2>1 DEF NotProlonged
<1>5. SnapshotLive'
  BY <1>1, EncodedFair DEF SnapshotLive, Aged
<1>6. ASSUME NEW t \in DOMAIN snapshot'.records, keeps
      PROVE  /\ snapshot'.wall <= wall_time'
             /\ Fair(snapshot'.records[t], powered[t], wall_time' - snapshot'.wall)
  <2>1. CASE snapshot' = EncodedPaths
    <3>1. /\ EncodedPaths.wall = wall_time /\ wall_time \in Nat /\ powered[t] \in Nat
          /\ EncodedPaths.records[t].left \in Nat /\ EncodedPaths.records[t].age \in Nat
          /\ Fair(EncodedPaths.records[t], powered[t], 0)
      BY <1>6, <2>1, EncodedFair, TableEntries DEF Aged, Shapes
    <3>2. wall_time' - wall_time \in Nat /\ 0 <= wall_time' - wall_time /\ wall_time <= wall_time'
      <4>1. wall_time \in Nat /\ wall_time' \in Nat /\ wall_time' >= wall_time
        BY <1>2, <1>6, <3>1, Zenon
      <4> QED
        BY <4>1, Elapsed, Zenon
    <3>3. Fair(EncodedPaths.records[t], powered[t], wall_time' - wall_time)
      BY <3>1, <3>2, FairLater
    <3> QED
      BY <2>1, <3>1, <3>2, <3>3
  <2>2. CASE snapshot' = snapshot
    <3>1. /\ snapshot.wall <= wall_time
          /\ Fair(snapshot.records[t], powered[t], wall_time - snapshot.wall)
      BY <1>6, <2>2 DEF Aged, SnapshotFair
    <3>2. /\ snapshot.wall \in Nat /\ wall_time \in Nat /\ powered[t] \in Nat
          /\ snapshot.records[t].left \in Nat /\ snapshot.records[t].age \in Nat
      BY <1>6, <2>2, SavedEntries
    <3>3. /\ wall_time - snapshot.wall \in Nat /\ wall_time' - snapshot.wall \in Nat
          /\ wall_time - snapshot.wall <= wall_time' - snapshot.wall
          /\ snapshot.wall <= wall_time'
      BY <1>2, <1>6, <3>1, <3>2
    <3>4. Fair(snapshot.records[t], powered[t], wall_time' - snapshot.wall)
      BY <3>1, <3>2, <3>3, FairLater
    <3> QED
      BY <2>2, <3>3, <3>4
  <2> QED
    BY <1>1, <2>1, <2>2
<1>7. ASSUME NEW t \in DOMAIN snapshot'.records, ~crashed'
      PROVE  Fair(snapshot'.records[t], powered[t], 0)
  BY <1>1, <1>7, EncodedFair
<1>8. SnapshotFair'
  BY <1>2, <1>6, <1>7 DEF SnapshotFair
<1> QED
  BY <1>3, <1>4, <1>5, <1>8 DEF Aged

\* rns_path_store_decode takes the time since the save off what is left.
LEMMA BootAged ==
    ASSUME Aged, Boot PROVE Aged'
<1>1. /\ booted' /\ booted' \in BOOLEAN /\ ~booted /\ paths' = DecodedPaths
      /\ UNCHANGED <<keeps, crashed, wall_time, snapshot, powered, total>>
  BY Zenon DEF Boot
<1>2. Offline \in Nat /\ (snapshot.wall <= wall_time => Offline = wall_time - snapshot.wall)
  BY SavedEntries DEF Offline
<1> DEFINE S == {u \in DOMAIN snapshot.records : snapshot.records[u].left > Offline}
<1>3. DecodedPaths = [t \in S |-> Restored(snapshot.records[t])]
  BY DEF DecodedPaths, Aged, SnapshotLive
<1>4. \A t \in S :
        /\ t \in DOMAIN snapshot.records /\ t \in Targets
        /\ paths'[t] \in [left : Nat, age : Nat, timebase : Timebases]
        /\ paths'[t].left = snapshot.records[t].left - Offline
        /\ paths'[t].age = snapshot.records[t].age + Offline
        /\ paths'[t].left <= PathLifetime
  <2> SUFFICES ASSUME NEW t \in S
               PROVE  /\ t \in DOMAIN snapshot.records /\ t \in Targets
                      /\ paths'[t] \in [left : Nat, age : Nat, timebase : Timebases]
                      /\ paths'[t].left = snapshot.records[t].left - Offline
                      /\ paths'[t].age = snapshot.records[t].age + Offline
                      /\ paths'[t].left <= PathLifetime
    OBVIOUS
  <2>1. paths'[t] = Restored(snapshot.records[t])
    BY <1>1, <1>3
  <2>2. /\ t \in Targets /\ snapshot.records[t].left > Offline
        /\ snapshot.records[t] \in [left : Nat, age : Nat, timebase : Timebases]
        /\ snapshot.records[t].left <= PathLifetime
    BY SavedEntries DEF Aged, SnapshotLive
  <2>3. /\ snapshot.records[t].left - Offline \in Nat
        /\ snapshot.records[t].age + Offline \in Nat
        /\ snapshot.records[t].left - Offline <= PathLifetime
    BY PathStoreConfig, <1>2, <2>2
  <2>4. PICK e \in [left : Nat, age : Nat, timebase : Timebases] : e = snapshot.records[t]
    BY <2>2
  <2>5. paths'[t] = [e EXCEPT !.left = e.left - Offline, !.age = e.age + Offline]
    BY <2>1, <2>4, Zenon DEF Restored
  <2>6. e.left - Offline \in Nat /\ e.age + Offline \in Nat
    BY <2>3, <2>4
  <2>7. /\ paths'[t] \in [left : Nat, age : Nat, timebase : Timebases]
        /\ paths'[t].left = e.left - Offline /\ paths'[t].age = e.age + Offline
    BY Zenon, <2>5, <2>6, MovedEntry
  <2> QED
    BY <2>2, <2>3, <2>4, <2>7
<1>5. paths' \in PathTables /\ DOMAIN paths' = S
  <2>1. paths' \in [S -> [left : Nat, age : Nat, timebase : Timebases]] /\ DOMAIN paths' = S
    BY <1>1, <1>3, <1>4
  <2>2. S \in SUBSET Targets
    BY <1>4
  <2> QED
    BY <2>1, <2>2, Zenon DEF PathTables
<1>6. Shapes'
  BY <1>1, <1>5 DEF Aged, Shapes
<1>7. SnapshotLive' /\ SnapshotFair'
  BY <1>1 DEF SnapshotLive, SnapshotFair, Aged
<1>8. ASSUME NEW t \in S, keeps \/ ~crashed
      PROVE  paths'[t].left + powered[t] <= PathLifetime /\ paths'[t].age >= powered[t]
  <2>1. /\ snapshot.records[t].left \in Nat /\ snapshot.records[t].age \in Nat
        /\ powered[t] \in Nat
    BY <1>4, SavedEntries
  <2>2. Fair(snapshot.records[t], powered[t], Offline)
    <3>1. CASE keeps
      BY <1>2, <1>4, <3>1 DEF Aged, SnapshotFair
    <3>2. CASE ~crashed
      <4>1. Fair(snapshot.records[t], powered[t], 0)
        BY <1>1, <1>4, <3>2 DEF Aged, SnapshotFair
      <4> QED
        BY <1>2, <2>1, <4>1, FairLater
    <3> QED
      BY <1>8, <3>1, <3>2
  <2> QED
    BY PathStoreConfig, <1>2, <1>4, <2>1, <2>2 DEF Fair
<1>9. NotProlonged' /\ \A t \in DOMAIN paths' : paths'[t].left <= PathLifetime
  BY <1>1, <1>4, <1>5, <1>8 DEF NotProlonged
<1> QED
  BY <1>6, <1>7, <1>9 DEF Aged

\* A unit of time passes for the paths and for the clock alike.
LEMMA TickAged ==
    ASSUME Aged, PathTick PROVE Aged'
<1>1. /\ booted /\ wall_time' \in Nat /\ (keeps => wall_time' = wall_time + 1)
      /\ powered' = [t \in Targets |-> powered[t] + 1]
      /\ UNCHANGED <<booted, keeps, crashed, snapshot>>
  BY PathStoreConfig, Zenon DEF PathTick
<1>2. powered' \in [Targets -> Nat] /\ \A t \in Targets : powered'[t] = powered[t] + 1
  BY <1>1 DEF Aged, Shapes
<1>3. /\ DOMAIN paths' = DOMAIN paths
      /\ \A t \in DOMAIN paths :
           paths'[t] = [paths[t] EXCEPT !.left = IF @ > 0 THEN @ - 1 ELSE 0, !.age = @ + 1]
  BY Zenon DEF PathTick
<1>4. \A t \in DOMAIN paths :
        /\ t \in Targets /\ powered[t] \in Nat
        /\ paths[t].left \in Nat /\ paths[t].age \in Nat
        /\ paths'[t] \in [left : Nat, age : Nat, timebase : Timebases]
        /\ paths'[t].left = (IF paths[t].left > 0 THEN paths[t].left - 1 ELSE 0)
        /\ paths'[t].age = paths[t].age + 1
  <2> SUFFICES ASSUME NEW t \in DOMAIN paths
               PROVE  /\ t \in Targets /\ powered[t] \in Nat
                      /\ paths[t].left \in Nat /\ paths[t].age \in Nat
                      /\ paths'[t] \in [left : Nat, age : Nat, timebase : Timebases]
                      /\ paths'[t].left = (IF paths[t].left > 0 THEN paths[t].left - 1 ELSE 0)
                      /\ paths'[t].age = paths[t].age + 1
    OBVIOUS
  <2>1. t \in Targets /\ paths[t] \in [left : Nat, age : Nat, timebase : Timebases]
    BY TableEntries DEF Aged, Shapes
  <2>2. powered[t] \in Nat
    BY <2>1 DEF Aged, Shapes
  <2>3. paths[t].left \in Nat /\ paths[t].age + 1 \in Nat
        /\ (IF paths[t].left > 0 THEN paths[t].left - 1 ELSE 0) \in Nat
    BY <2>1
  <2>4. paths'[t] = [paths[t] EXCEPT !.left = IF paths[t].left > 0 THEN paths[t].left - 1 ELSE 0,
                                     !.age = paths[t].age + 1]
    BY Zenon, <1>3
  <2> QED
    BY Zenon, <2>1, <2>2, <2>3, <2>4, MovedEntry
<1>5. paths' \in PathTables
  <2>1. paths' \in [DOMAIN paths -> [left : Nat, age : Nat, timebase : Timebases]]
    BY <1>4, Zenon DEF PathTick
  <2>2. DOMAIN paths \in SUBSET Targets
    BY <1>4
  <2> QED
    BY <2>1, <2>2 DEF PathTables
<1>6. Shapes'
  BY <1>1, <1>2, <1>5, Zenon DEF Aged, Shapes
<1>7. NotProlonged' /\ \A t \in DOMAIN paths' : paths'[t].left <= PathLifetime
  <2>1. ASSUME NEW t \in DOMAIN paths PROVE paths'[t].left <= PathLifetime
    BY PathStoreConfig, <1>4 DEF Aged
  <2>2. ASSUME NEW t \in DOMAIN paths, keeps \/ ~crashed, paths'[t].left > 0
        PROVE  paths'[t].left + powered'[t] <= PathLifetime /\ paths'[t].age >= powered'[t]
    <3>1. paths[t].left > 0 /\ powered'[t] = powered[t] + 1
      BY <1>2, <1>4, <2>2
    <3>2. paths[t].left + powered[t] <= PathLifetime /\ paths[t].age >= powered[t]
      BY <2>2, <3>1 DEF Aged, NotProlonged, Live
    <3> QED
      BY PathStoreConfig, <1>4, <3>1, <3>2
  <2> QED
    BY <1>1, <1>3, <2>1, <2>2, Zenon DEF NotProlonged, Live
<1>8. SnapshotLive'
  BY <1>1 DEF SnapshotLive, Aged
<1>9. SnapshotFair'
  <2>1. ASSUME NEW t \in DOMAIN snapshot.records, keeps
        PROVE  /\ snapshot.wall <= wall_time'
               /\ Fair(snapshot.records[t], powered'[t], wall_time' - snapshot.wall)
    <3>1. /\ snapshot.wall \in Nat /\ wall_time \in Nat /\ powered[t] \in Nat
          /\ powered'[t] = powered[t] + 1
          /\ snapshot.records[t].left \in Nat /\ snapshot.records[t].age \in Nat
      BY <1>2, SavedEntries
    <3>2. /\ snapshot.wall <= wall_time /\ wall_time' = wall_time + 1
          /\ Fair(snapshot.records[t], powered[t], wall_time - snapshot.wall)
      BY <1>1, <2>1 DEF Aged, SnapshotFair
    <3> QED
      BY PathStoreConfig, <3>1, <3>2 DEF Fair
  <2> QED
    BY <1>1, <2>1 DEF SnapshotFair
<1> QED
  BY <1>6, <1>7, <1>8, <1>9 DEF Aged

\* The clock stays among the times it may show, and no path has been on for
\* longer than the node.
Ranges ==
    /\ wall_time \in WallTimes /\ snapshot.wall \in WallTimes
    /\ total \in 0 .. MaxPowered /\ \A t \in Targets : powered[t] <= total

LEMMA RangesInitially ==
    ASSUME PathInit PROVE Ranges
BY PathStoreConfig DEF PathInit, Ranges

LEMMA RangesKept ==
    ASSUME Aged, Ranges, [PathNext]_pathVars PROVE Ranges'
<1>1. wall_time' \in WallTimes
  BY Zenon DEF Ranges, PathNext, pathVars, LearnPath, Save, GoDown, Boot, PathTick
<1>2. snapshot' = snapshot \/ snapshot' = EncodedPaths
  BY Zenon DEF PathNext, pathVars, LearnPath, Save, GoDown, Boot, PathTick
<1>3. snapshot'.wall \in WallTimes
  BY <1>2 DEF Ranges, EncodedPaths
<1>4. \A t \in Targets : powered[t] \in Nat
  BY DEF Aged, Shapes
<1>5. total \in Nat /\ total <= MaxPowered
  BY PathStoreConfig DEF Ranges
<1>6. CASE PathTick
  <2>1. total' = total + 1 /\ total < MaxPowered /\ powered' = [t \in Targets |-> powered[t] + 1]
    BY <1>6, Zenon DEF PathTick
  <2> QED
    BY PathStoreConfig, <1>1, <1>3, <1>4, <1>5, <2>1 DEF Ranges
<1>7. CASE total' = total /\ \A t \in Targets : powered'[t] \in {0, powered[t]}
  BY PathStoreConfig, <1>1, <1>3, <1>4, <1>5, <1>7 DEF Ranges
<1>8. ASSUME NEW t \in Targets, NEW base \in Timebases, LearnPath(t, base)
      PROVE  total' = total /\ \A u \in Targets : powered'[u] \in {0, powered[u]}
  BY <1>8 DEF LearnPath, Aged, Shapes
<1>9. ASSUME Save \/ GoDown \/ Boot \/ UNCHANGED pathVars
      PROVE  total' = total /\ powered' = powered
  BY <1>9 DEF Save, GoDown, Boot, pathVars
<1> QED
  BY <1>6, <1>7, <1>8, <1>9 DEF PathNext

\* The invariant gives the ranges of the entries.
LEMMA AgedTyped ==
    ASSUME Aged, Ranges PROVE PathTypeOK
<1>1. DOMAIN paths \subseteq Targets /\ DOMAIN snapshot.records \subseteq Targets
  BY TableEntries DEF Aged, Shapes
<1>2. ASSUME NEW t \in DOMAIN paths PROVE paths[t] \in PathEntries
  <2>1. PICK e \in [left : Nat, age : Nat, timebase : Timebases] : e = paths[t]
    BY TableEntries DEF Aged, Shapes
  <2>2. e.left \in 0 .. PathLifetime
    BY PathStoreConfig, <2>1 DEF Aged
  <2> QED
    BY <2>1, <2>2 DEF PathEntries
<1>3. powered \in [Targets -> 0 .. MaxPowered]
  BY PathStoreConfig DEF Aged, Shapes, Ranges
<1>4. booted \in BOOLEAN /\ keeps \in BOOLEAN /\ crashed \in BOOLEAN
  BY Zenon DEF Aged, Shapes
<1> QED
  BY <1>1, <1>2, <1>3, <1>4 DEF PathTypeOK, Ranges

\* However often a node saves and restores its path table, a path dies when its
\* lifetime of powered-on time is over, and never looks younger than it is, as
\* long as the wall clock keeps time or every shutdown saves
\* (rns_path_store_encode, rns_path_store_decode).
THEOREM RestartsDoNotProlong == PathSpec => []PathsNotProlonged
<1>1. PathInit => Aged /\ Ranges
  BY AgedInitially, RangesInitially
<1>2. Aged /\ [PathNext]_pathVars => Aged'
  <2>1. ASSUME Aged, UNCHANGED pathVars PROVE Aged'
    <3>1. UNCHANGED <<booted, keeps, crashed, wall_time, paths, snapshot, powered, total>>
      BY <2>1 DEF pathVars
    <3> QED
      BY <2>1, <3>1 DEF Aged, Shapes, SnapshotLive, SnapshotFair, NotProlonged, Live
  <2> QED
    BY <2>1, LearnAged, SaveAged, GoDownAged, BootAged, TickAged DEF PathNext
<1>3. Aged /\ Ranges /\ [PathNext]_pathVars => Ranges'
  BY RangesKept
<1>4. Aged /\ Ranges => PathsNotProlonged
  BY AgedTyped DEF Aged, PathsNotProlonged
<1> QED
  BY <1>1, <1>2, <1>3, <1>4, PTL DEF PathSpec
=============================================================================
