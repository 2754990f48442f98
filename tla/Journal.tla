------------------------------ MODULE Journal ------------------------------
(***************************************************************************)
(* The dual-slot records of the embedded storage providers.                *)
(*                                                                         *)
(* Every logical key owns two slots, "a" and "b".  A slot is blank, torn   *)
(* (anything whose magic, length, key tag or CRC32 does not check) or      *)
(* holds a good record: a generation and a payload                         *)
(* (src/platform/storage_record.c).  A write goes to the slot that is not  *)
(* the newest, with the next generation.                                   *)
(*                                                                         *)
(* Two providers use that policy:                                          *)
(*   "journal"  the chat partition of the Heltec firmware (chat_journal.c): *)
(*              a write erases the sector, programs it and reads it back;  *)
(*              a removal is a write of a tombstone; opening the journal   *)
(*              quarantines every pair with content and no good record;    *)
(*   "nvs"      the identity and configuration records (nvs_storage.c): a  *)
(*              write sets and commits a blob; a removal erases both.      *)
(*                                                                         *)
(* Each flash operation is a step, so that power can be lost, or the       *)
(* operation can fail, between any two and in the middle of one.           *)
(***************************************************************************)
EXTENDS Naturals, FiniteSets

CONSTANTS
    Providers,      \* the providers the instance explores
    JournalKeys,    \* the logical keys
    Payloads,       \* what a caller stores
    Gone,           \* the value of a key that was removed or never written
    LastGeneration, \* UINT32_MAX: the last generation a slot may carry
    MaxFlashFaults  \* bound on failed operations and power losses

ASSUME JournalConfig ==
    /\ Providers \subseteq {"journal", "nvs"}
    /\ LastGeneration \in Nat \ {0} /\ MaxFlashFaults \in Nat

VARIABLES
    provider,       \* which provider this is
    slots,          \* the two slots of every key
    opened,         \* the provider is open
    quarantined,    \* journal.quarantined, computed when it is opened
    op,             \* the operation under way: its step, key, slot and record
    acked,          \* per key, the value of the last write that returned RNS_OK
    attempted,      \* per key, the values of the writes since that did not
    flash_faults    \* failures so far

journalVars == <<provider, slots, opened, quarantined, op, acked, attempted,
                 flash_faults>>

SlotNames == {"a", "b"}
RecordValues == Payloads \cup {Gone}
Refusal == "corrupt"
Blank == [is |-> "blank", gen |-> 0, value |-> Gone]
Torn == [is |-> "torn", gen |-> 0, value |-> Gone]
Good(g, v) == [is |-> "good", gen |-> g, value |-> v]
Cells == {Blank, Torn} \cup
         [is : {"good"}, gen : 1 .. LastGeneration, value : RecordValues]
Idle == [step |-> "idle"]
FlashOperations ==
    {Idle} \cup [step : {"erase", "write", "verify", "erase_a", "erase_b", "erase_rest"},
                 key : JournalKeys, slot : SlotNames,
                 record : [is : {"good"}, gen : 1 .. LastGeneration, value : RecordValues]]

\* The journal and the records are in states their types allow.
JournalTypeOK ==
    /\ provider \in {"journal", "nvs"}
    /\ slots \in [JournalKeys -> [SlotNames -> Cells]]
    /\ opened \in BOOLEAN
    /\ quarantined \subseteq JournalKeys
    /\ op \in FlashOperations
    /\ acked \in [JournalKeys -> RecordValues]
    /\ attempted \in [JournalKeys -> SUBSET RecordValues]
    /\ flash_faults \in Nat

\* A partition that was never written.
JournalInit ==
    /\ provider \in Providers
    /\ slots = [k \in JournalKeys |-> [s \in SlotNames |-> Blank]]
    /\ opened = FALSE
    /\ quarantined = {}
    /\ op = Idle
    /\ acked = [k \in JournalKeys |-> Gone]
    /\ attempted = [k \in JournalKeys |-> {}]
    /\ flash_faults = 0

-----------------------------------------------------------------------------
(* The slot policy of storage_record.c.                                     *)

\* rns_storage_record_decode: what the envelope of a slot accepts.
Valid(k, s) == slots[k][s].is = "good"
Healthy(k) == Valid(k, "a") \/ Valid(k, "b")

\* rns_storage_record_select_slot, once a slot is valid.
NewestSlot(k) ==
    IF ~Valid(k, "b") \/ (Valid(k, "a") /\ slots[k]["a"].gen >= slots[k]["b"].gen)
    THEN "a" ELSE "b"

\* rns_storage_record_next_slot: the slot that is written ...
WriteSlot_Newest(k) ==
    IF Healthy(k) THEN NewestSlot(k) ELSE "a"

WriteSlot(k) ==
    CASE ~Valid(k, "a") -> "a"
      [] Valid(k, "a") /\ ~Valid(k, "b") -> "b"
      [] Valid(k, "a") /\ Valid(k, "b") ->
            IF slots[k]["a"].gen <= slots[k]["b"].gen THEN "a" ELSE "b"

\* ... and its generation; at UINT32_MAX the write is refused.
Generation(k) == IF Healthy(k) THEN slots[k][NewestSlot(k)].gen ELSE 0

\* inspect and read_slot_metadata: content in the pair, and no good record.
Damaged(k) == ~Healthy(k) /\ \E s \in SlotNames : slots[k][s].is # "blank"

\* read_record: a quarantined pair is not read; a tombstone reads as nothing.
ReadRecord(k) ==
    CASE k \in quarantined \/ Damaged(k) -> Refusal
      [] k \notin quarantined /\ Healthy(k) -> slots[k][NewestSlot(k)].value
      [] OTHER -> Gone

\* nvs_storage_read.
NvsRead(k) ==
    CASE Damaged(k) -> Refusal
      [] Healthy(k) -> slots[k][NewestSlot(k)].value
      [] OTHER -> Gone

\* What a reader of the key is given.
ReadOf(k) == IF provider = "journal" THEN ReadRecord(k) ELSE NvsRead(k)

-----------------------------------------------------------------------------

Accepts(k) ==
    /\ opened
    /\ op = Idle
    /\ ~Damaged(k)
    /\ Generation(k) < LastGeneration

Working(step) == op # Idle /\ op.step = step

Put(cell) == slots' = [slots EXCEPT ![op.key][op.slot] = cell]

\* The slot and the generation are chosen and the record is encoded.
Begin(step, k, v) ==
    /\ op' = [step |-> step, key |-> k, slot |-> WriteSlot(k),
              record |-> Good(Generation(k) + 1, v)]
    /\ attempted' = [attempted EXCEPT ![k] = @ \cup {v}]
    /\ UNCHANGED <<provider, slots, opened, quarantined, acked, flash_faults>>

\* replace: a write, or the tombstone of a removal.
Replace(k, v) ==
    /\ provider = "journal"
    /\ k \notin quarantined
    /\ Accepts(k)
    /\ Begin("erase", k, v)

\* nvs_storage_write.
NvsWrite(k, v) ==
    /\ provider = "nvs"
    /\ v \in Payloads
    /\ Accepts(k)
    /\ Begin("write", k, v)

\* ops.erase of the chosen sector.
Erase ==
    /\ Working("erase")
    /\ Put(Blank)
    /\ op' = [op EXCEPT !.step = "write"]
    /\ UNCHANGED <<provider, opened, quarantined, acked, attempted, flash_faults>>

\* The caller is told RNS_OK.
Acknowledge(k, v) ==
    /\ op' = Idle
    /\ acked' = [acked EXCEPT ![k] = v]
    /\ attempted' = [attempted EXCEPT ![k] = {}]

\* ops.write of the sector.
Program ==
    /\ provider = "journal" /\ Working("write")
    /\ Put(op.record)
    /\ op' = [op EXCEPT !.step = "verify"]
    /\ UNCHANGED <<provider, opened, quarantined, acked, attempted, flash_faults>>

\* nvs_set_blob and nvs_commit.
SetBlob ==
    /\ provider = "nvs" /\ Working("write")
    /\ Put(op.record)
    /\ Acknowledge(op.key, op.record.value)
    /\ UNCHANGED <<provider, opened, quarantined, flash_faults>>

\* The sector is read back and compared.
Verify ==
    /\ Working("verify")
    /\ Acknowledge(op.key, op.record.value)
    /\ UNCHANGED <<provider, slots, opened, quarantined, flash_faults>>

\* nvs_storage_remove: both blobs are erased, "a" first.  Until the second is
\* gone the key may read as whatever either slot still holds.
StartRemove(k) ==
    /\ provider = "nvs" /\ opened /\ op = Idle
    /\ op' = [step |-> "erase_a", key |-> k, slot |-> "a", record |-> Good(1, Gone)]
    /\ attempted' = [attempted EXCEPT
            ![k] = @ \cup {Gone} \cup {slots[k][s].value : s \in {t \in SlotNames : Valid(k, t)}}]
    /\ UNCHANGED <<provider, slots, opened, quarantined, acked, flash_faults>>

RemoveSlotA ==
    /\ Working("erase_a")
    /\ Put(Blank)
    /\ op' = [op EXCEPT !.step = "erase_b", !.slot = "b"]
    /\ UNCHANGED <<provider, opened, quarantined, acked, attempted, flash_faults>>

RemoveSlotB ==
    /\ Working("erase_b")
    /\ Put(Blank)
    /\ Acknowledge(op.key, Gone)
    /\ UNCHANGED <<provider, opened, quarantined, flash_faults>>

\* The first blob could not be erased: the second is erased even so, and the
\* call returns the first error.
RemoveRest ==
    /\ Working("erase_rest")
    /\ Put(Blank)
    /\ op' = Idle
    /\ UNCHANGED <<provider, opened, quarantined, acked, attempted, flash_faults>>

-----------------------------------------------------------------------------
(* Faults.                                                                  *)

\* What the slot being worked on may hold when the operation on it is cut
\* short: what it held, nothing, part of it, or all of the record.
Remains ==
    IF op = Idle \/ op.step = "verify" THEN UNCHANGED slots
    ELSE \E cell \in {slots[op.key][op.slot], Torn} \cup
                     (IF op.step = "write" THEN {op.record} ELSE {Blank}) :
            Put(cell)

\* A flash operation returns an error: so does the call.
OperationFails ==
    /\ flash_faults < MaxFlashFaults
    /\ op # Idle
    /\ Remains
    /\ op' = IF op.step = "erase_a"
             THEN [op EXCEPT !.step = "erase_rest", !.slot = "b"] ELSE Idle
    /\ flash_faults' = flash_faults + 1
    /\ UNCHANGED <<provider, opened, quarantined, acked, attempted>>

\* Power is lost, or the board resets.
PowerLost ==
    /\ flash_faults < MaxFlashFaults
    /\ opened
    /\ Remains
    /\ op' = Idle
    /\ opened' = FALSE
    /\ quarantined' = {}
    /\ flash_faults' = flash_faults + 1
    /\ UNCHANGED <<provider, acked, attempted>>

\* heltec_chat_journal_open_report refuses a region with damage and without a
\* single good record.
Opens == (\A k \in JournalKeys : ~Damaged(k)) \/ (\E k \in JournalKeys : Healthy(k))

\* heltec_chat_journal_open_report: damaged pairs are quarantined.
OpenJournal ==
    /\ provider = "journal" /\ ~opened
    /\ Opens
    /\ opened' = TRUE
    /\ quarantined' = {k \in JournalKeys : Damaged(k)}
    /\ UNCHANGED <<provider, slots, op, acked, attempted, flash_faults>>

\* rns_esp_nvs_storage_open looks at no record.
OpenNvs ==
    /\ provider = "nvs" /\ ~opened
    /\ opened' = TRUE
    /\ UNCHANGED <<provider, slots, quarantined, op, acked, attempted, flash_faults>>

-----------------------------------------------------------------------------

JournalNext ==
    \/ \E k \in JournalKeys, v \in RecordValues : Replace(k, v) \/ NvsWrite(k, v)
    \/ \E k \in JournalKeys : StartRemove(k)
    \/ Erase
    \/ Program
    \/ SetBlob
    \/ Verify
    \/ RemoveSlotA
    \/ RemoveSlotB
    \/ RemoveRest
    \/ OperationFails
    \/ PowerLost
    \/ OpenJournal
    \/ OpenNvs

JournalSpec == JournalInit /\ [][JournalNext]_journalVars

-----------------------------------------------------------------------------

\* A record that was acknowledged is never lost: whatever operation is cut
\* short afterwards, a reader of the key gets that value or one that a later,
\* unacknowledged call was storing; its pair is not quarantined, and the
\* region opens again (replace, inspect and
\* next_slot: "a valid older slot remains readable after an interrupted
\* replacement", storage_record.h:32).
Durable ==
    \A k \in JournalKeys :
        LET intact == acked[k] # Gone
                      /\ (provider = "journal" \/ Gone \notin attempted[k])
        IN  /\ ReadOf(k) \in {acked[k]} \cup attempted[k]
                             \cup (IF intact THEN {} ELSE {Refusal})
            /\ intact => k \notin quarantined /\ (provider = "journal" => Opens)

\* An acknowledged flash record survives every operation cut short
\* (chat_journal.c, nvs_storage.c).
RecordsDurable == JournalTypeOK /\ Durable
=============================================================================
