-------------------------------- MODULE Radio --------------------------------
(***************************************************************************)
(* The way of a packet to the antenna of the Heltec board: the scheduler   *)
(* (sx1262_interface.c), the adapter that binds it to the driver           *)
(* (heltec_reticulum_radio.c), and the driver with its task                *)
(* (sx1262_radio.c, esp_sx1262.c), which shares a mutex with the callers.  *)
(*                                                                         *)
(* The task of the driver may run between any two calls of the scheduler.  *)
(* Commands to the chip may fail, a completion may come late or never.     *)
(* Time is whether a deadline has passed; what the duty cycle allows is    *)
(* in module Airtime, what a receiver makes of the frames in Reassembly.   *)
(***************************************************************************)
EXTENDS Integers, Sequences, FiniteSets

CONSTANTS
  TxPackets, Split,     \* packets, and those that take two frames
  Capacity,             \* RNS_SX1262_PACKET_QUEUE_CAPACITY
  MaxTries,             \* max_cad_attempts
  Backoff,              \* recovery_backoff_polls
  TokenSpan,            \* operation tokens before they wrap (2^32 in C)
  MaxRadioFaults        \* bound on failures of commands and of entropy

VARIABLES
  online,      \* interface_value->started
  queued,      \* packets accepted, the front one being sent
  tries,       \* cad_attempts of the front packet
  sched,       \* interface_value->state
  token,       \* next_operation_token, the expected one while sched is active
  polling,     \* how far rns_sx1262_interface_poll is
  late,        \* operation_deadline_ms had passed when the poll began
  spent,       \* the duty cycle has no room for the front packet
  adapter,     \* pending, scheduler_token, lower_tx_id, backend_started
  driver,      \* struct rns_sx1262_radio
  next_tx_id,
  chip,        \* what the chip does and the interrupt it raised
  heard,       \* frames that were sent to their end
  last_frame,  \* the frame that was started last
  outcome,     \* what was reported of each packet
  mishap,      \* frames that should not have been started
  radio_faults

ASSUME RadioConfig ==
  /\ Capacity \in Nat /\ Backoff \in Nat /\ MaxRadioFaults \in Nat
  /\ MaxTries \in Nat /\ MaxTries > 0 /\ TokenSpan \in Nat /\ TokenSpan > 0

driverVars == <<driver, next_tx_id, chip, heard, last_frame, mishap>>
radioVars == <<online, queued, tries, sched, token, polling, late, spent, adapter, driverVars,
               outcome, radio_faults>>

Active == {"CAD", "TX1", "TX2"}
NoFrame == <<"none", 0>>
Unbind(a) == [a EXCEPT !.pending = "NONE", !.token = 0, !.id = 0]
Resting == [doing |-> "rx", frame |-> NoFrame, irq |-> "none"]
Cleared(state, run) ==
  [state |-> state, run |-> run, cad |-> FALSE, found |-> "none", tx |-> <<>>, results |-> <<>>, backoff |-> 0]

RadioTypeOK ==
  /\ sched \in Active \cup {"IDLE", "DUTY", "CONTENTION"} /\ Len(queued) <= Capacity
  /\ adapter.pending \in {"NONE", "CAD", "TX"}
  /\ driver.state \in {"STOPPED", "RECEIVING", "SCANNING", "TRANSMITTING", "FAULT"}
  /\ driver.found \in {"none", "CLEAR", "BUSY", "FAILED"} /\ tries \in 0 .. MaxTries
  /\ chip.irq \in {"none", "CLEAR", "BUSY", "TX_DONE", "TIMEOUT"}

RadioInit ==
  /\ online = FALSE /\ queued = <<>> /\ tries = 0 /\ sched = "IDLE" /\ token = 0
  /\ polling = "no" /\ late = FALSE /\ spent = FALSE
  /\ adapter = [pending |-> "NONE", token |-> 0, id |-> 0, up |-> FALSE]
  /\ driver = Cleared("STOPPED", FALSE) /\ next_tx_id = 0 /\ chip = Resting
  /\ heard = {} /\ last_frame = NoFrame /\ mishap = {}
  /\ outcome = [p \in TxPackets |-> "none"] /\ radio_faults = 0

(* Commands to the chip that fail. *)
Faults(n) == radio_faults + n <= MaxRadioFaults /\ radio_faults' = radio_faults + n
Works(ok) == Faults(IF ok THEN 0 ELSE 1)

----------------------------------------------------------------------------
(* The driver, under its mutex. *)

FinishTx(d, sent) ==
  [d EXCEPT !.results = Append(d.results, [id |-> Head(d.tx).id, sent |-> sent]),
            !.tx = Tail(d.tx)]
FinishCad(d, found) == [d EXCEPT !.found = found, !.cad = FALSE]

(* The operation under way, if any, has failed. *)
Failed(d) ==
  CASE d.state = "TRANSMITTING" /\ d.tx # <<>> -> FinishTx(d, FALSE)
    [] d.state = "SCANNING" /\ d.cad -> FinishCad(d, "FAILED")
    [] OTHER -> d

EnterRx(d, ok) == [d EXCEPT !.state = IF ok THEN "RECEIVING" ELSE "FAULT"]

(* reset, configure and start_rx; a chip that could not be reset may go on. *)
Reset(ok) == chip' \in IF ok THEN {Resting} ELSE {Resting, chip}
Recover(d, ok) ==
  /\ driver' = [EnterRx(d, ok) EXCEPT !.backoff = Backoff]
  /\ Reset(ok)

(* A frame is started; it should not have been if its packet was reported
   already, or if it is a second one that does not follow the first. *)
StartFrame(f) ==
  /\ last_frame' = f
  /\ mishap' = IF outcome[f[1]] # "none" \/ (f[2] = 2 /\ last_frame # <<f[1], 1>>)
               THEN mishap \cup {f} ELSE mishap

(* begin_cad, then begin_tx *)
Begin(d) ==
  LET ready == d.state = "RECEIVING" /\ d.backoff = 0
  IN \/ /\ ready /\ d.cad
        /\ \/ /\ driver' = [d EXCEPT !.state = "SCANNING"] /\ Faults(0)
              /\ chip' = [Resting EXCEPT !.doing = "cad"]
           \/ \E ok \in BOOLEAN : Recover(FinishCad(d, "FAILED"), ok) /\ Faults(1)
        /\ UNCHANGED <<last_frame, mishap>>
     \/ /\ ready /\ ~d.cad /\ d.found = "none" /\ d.tx # <<>>
        /\ \/ /\ driver' = [d EXCEPT !.state = "TRANSMITTING"] /\ Faults(0)
              /\ chip' = [doing |-> "tx", frame |-> Head(d.tx).frame, irq |-> "none"]
              /\ StartFrame(Head(d.tx).frame)
           \/ \E ok \in BOOLEAN :
                /\ Recover(FinishTx(d, FALSE), ok) /\ Faults(1)
                /\ UNCHANGED <<last_frame, mishap>>
     \/ /\ ~(ready /\ (d.cad \/ (d.found = "none" /\ d.tx # <<>>)))
        /\ driver' = [d EXCEPT !.backoff = IF d.backoff > 0 THEN d.backoff - 1 ELSE 0]
        /\ chip' = [chip EXCEPT !.irq = "none"] /\ Faults(0) /\ UNCHANGED <<last_frame, mishap>>

(* rns_sx1262_radio_poll *)
RadioPoll ==
  /\ driver.state # "STOPPED"
  /\ \/ /\ driver.state = "FAULT" /\ driver.backoff > 0
        /\ driver' = [driver EXCEPT !.backoff = driver.backoff - 1]
        /\ UNCHANGED <<chip, last_frame, mishap, radio_faults>>
     \/ /\ driver.state = "FAULT" /\ driver.backoff = 0
        /\ \E ok \in BOOLEAN : Recover(driver, ok) /\ Works(ok)
        /\ UNCHANGED <<last_frame, mishap>>
     \/ /\ driver.state # "FAULT"   \* the interrupt register cannot be read
        /\ \E ok \in BOOLEAN : Recover(Failed(driver), ok) /\ Faults(1)
        /\ UNCHANGED <<last_frame, mishap>>
     \/ /\ driver.state # "FAULT" /\ chip.irq = "TIMEOUT"
        /\ \E ok \in BOOLEAN : Recover(Failed(driver), ok) /\ Works(ok)
        /\ UNCHANGED <<last_frame, mishap>>
     \/ /\ driver.state = "SCANNING" /\ driver.cad /\ chip.irq \in {"CLEAR", "BUSY"}
        /\ \/ Begin(EnterRx(FinishCad(driver, chip.irq), TRUE))
           \/ /\ driver' = EnterRx(FinishCad(driver, chip.irq), FALSE) /\ chip' = Resting
              /\ Faults(1) /\ UNCHANGED <<last_frame, mishap>>
     \/ /\ driver.state = "TRANSMITTING" /\ chip.irq = "TX_DONE"
        /\ \/ Begin(EnterRx(FinishTx(driver, TRUE), TRUE))
           \/ /\ driver' = EnterRx(FinishTx(driver, TRUE), FALSE) /\ chip' = Resting
              /\ Faults(1) /\ UNCHANGED <<last_frame, mishap>>
     \/ driver.state # "FAULT" /\ chip.irq = "none" /\ Begin(driver)

(* owner_task: the driver's task, which a stop holds until the next start. *)
DriverPoll ==
  /\ driver.run /\ RadioPoll
  /\ UNCHANGED <<online, queued, tries, sched, token, polling, late, spent, adapter, next_tx_id,
                 heard, outcome>>

(* The chip ends what it does, unless it hangs. *)
ChipDone ==
  /\ chip.doing # "rx" /\ chip.irq = "none"
  /\ \/ /\ chip.doing = "cad" /\ UNCHANGED heard
        /\ \E found \in {"CLEAR", "BUSY"} : chip' = [Resting EXCEPT !.irq = found]
     \/ /\ chip.doing = "tx" /\ heard' = heard \cup {chip.frame}
        /\ chip' = [Resting EXCEPT !.irq = "TX_DONE"]
     \/ chip' = [Resting EXCEPT !.irq = "TIMEOUT"] /\ UNCHANGED heard
  /\ UNCHANGED <<online, queued, tries, sched, token, polling, late, spent, adapter, driver,
                 next_tx_id, last_frame, outcome, mishap, radio_faults>>

(* rns_sx1262_radio_abort_and_restart: the queues are cleared before the chip
   is reset, whatever comes of that. *)
AbortAndRestart_KeepsQueue(ok) ==
  driver' = [driver EXCEPT !.state = IF ok THEN "RECEIVING" ELSE "FAULT",
                           !.run = @ \/ ok] /\ Reset(ok)
AbortAndRestart(ok) ==
  driver' = Cleared(IF ok THEN "RECEIVING" ELSE "FAULT", driver.run \/ ok) /\ Reset(ok)

(* rns_sx1262_radio_stop: everything that was queued has failed. *)
RadioStop(ok) ==
  /\ chip' \in IF ok THEN {Resting} ELSE {Resting, chip}
  /\ driver' = [driver EXCEPT
       !.state = IF ok THEN "STOPPED" ELSE "FAULT", !.run = FALSE,
       !.found = IF driver.cad THEN "FAILED" ELSE driver.found, !.cad = FALSE,
       !.tx = <<>>, !.results =
         driver.results \o [i \in DOMAIN driver.tx |-> [id |-> driver.tx[i].id, sent |-> FALSE]]]

----------------------------------------------------------------------------
(* The adapter, called by the scheduler. *)

CanScan == /\ adapter.up /\ adapter.pending = "NONE"
           /\ driver.state = "RECEIVING" /\ ~driver.cad /\ driver.tx = <<>>
CanSend(d) == adapter.up /\ d.state \in {"RECEIVING", "TRANSMITTING"} /\ ~d.cad /\ d.found = "none"

NextToken == (token % TokenSpan) + 1

(* phy_start_cad *)
StartCad ==
  /\ token' = NextToken /\ CanScan
  /\ driver' = [driver EXCEPT !.found = "none", !.cad = TRUE]
  /\ adapter' = [adapter EXCEPT !.pending = "CAD", !.token = NextToken]

(* phy_transmit, when nothing is pending and the driver is d *)
PhyTransmit(d, frame) ==
  /\ token' = NextToken /\ next_tx_id' = (next_tx_id % TokenSpan) + 1
  /\ driver' = [d EXCEPT !.results = <<>>, !.tx = Append(d.tx, [id |-> next_tx_id', frame |-> frame])]
  /\ adapter' = [adapter EXCEPT !.pending = "TX", !.token = NextToken, !.id = next_tx_id']

(* phy_cancel, when it works *)
PhyCancel == AbortAndRestart(TRUE) /\ adapter' = Unbind(adapter)

(* phy_start *)
PhyStart(ok, up) == AbortAndRestart(ok) /\ adapter' = [Unbind(adapter) EXCEPT !.up = up \/ ok]

(* phy_stop *)
PhyStop(ok) == RadioStop(ok) /\ adapter' = [Unbind(adapter) EXCEPT !.up = FALSE]

(* cancel_active_operation: when that fails, the chip is stopped and started;
   the stop is not seen in between. *)
CancelOperation ==
  \/ PhyCancel /\ Faults(0) /\ online' = TRUE
  \/ \E ok \in BOOLEAN : PhyStart(ok, FALSE) /\ Faults(1) /\ online' = ok

----------------------------------------------------------------------------
(* The scheduler. *)

Front == Head(queued)
FrontIs(result) ==
  /\ queued' = Tail(queued) /\ outcome' = [outcome EXCEPT ![Front] = result]
  /\ sched' = "IDLE" /\ tries' = 0

AllAre(result) ==
  /\ queued' = <<>> /\ sched' = "IDLE" /\ tries' = 0
  /\ outcome' = [p \in TxPackets |-> IF \E i \in DOMAIN queued : queued[i] = p THEN result
                                     ELSE outcome[p]]

(* rns_sx1262_interface_start *)
RadioStart ==
  /\ ~online /\ polling = "no"
  /\ \E ok \in BOOLEAN : PhyStart(ok, adapter.up) /\ Works(ok) /\ online' = ok
  /\ UNCHANGED <<queued, tries, sched, token, polling, late, spent, next_tx_id, heard, last_frame,
                 outcome, mishap>>

(* rns_sx1262_interface_stop; a callback may call it during a poll. *)
SchedulerStop ==
  /\ online /\ polling # "end" /\ online' = FALSE /\ AllAre("DROPPED")
  /\ \E ok \in BOOLEAN : Works(ok) /\ PhyStop(ok)
  /\ UNCHANGED <<token, polling, late, spent, next_tx_id, heard, last_frame, mishap>>

(* rns_sx1262_interface_send; a callback may call it during a poll. *)
RadioSend(p) ==
  /\ online /\ Len(queued) < Capacity /\ outcome[p] = "none"
  /\ \A i \in DOMAIN queued : queued[i] # p
  /\ queued' = Append(queued, p)
  /\ UNCHANGED <<online, tries, sched, token, polling, late, spent, adapter, driverVars, outcome,
                 radio_faults>>

(* Airtime that was used a while ago counts no longer. *)
Refill ==
  /\ spent /\ spent' = FALSE
  /\ UNCHANGED <<online, queued, tries, sched, token, polling, late, adapter, driverVars, outcome,
                 radio_faults>>

(* begin_first_frame, the driver being d *)
BeginFirst(d) ==
  \/ /\ spent /\ sched' = "DUTY" /\ driver' = d /\ adapter' = Unbind(adapter)
     /\ UNCHANGED <<queued, tries, outcome, spent, token, next_tx_id, late>>
  \/ /\ ~spent /\ spent' \in BOOLEAN /\ CanSend(d)
     /\ PhyTransmit(d, <<Front, 1>>) /\ sched' = "TX1" /\ late' = FALSE
     /\ UNCHANGED <<queued, tries, outcome>>
  \/ /\ ~spent /\ spent' \in BOOLEAN /\ ~CanSend(d) /\ FrontIs("DROPPED")
     /\ token' = NextToken /\ driver' = d /\ adapter' = Unbind(adapter)
     /\ UNCHANGED <<next_tx_id, late>>

(* A result of carrier detection reaches the scheduler. *)
CadEvent ==
  LET d == [driver EXCEPT !.found = "none"]
  IN /\ polling = "events" /\ driver.found # "none" /\ adapter.pending = "CAD"
     /\ sched = "CAD" /\ adapter.token = token
     /\ polling' \in {"events", "end"}
     /\ \/ driver.found = "CLEAR" /\ BeginFirst(d) /\ Faults(0)
        \/ /\ driver.found # "CLEAR" /\ driver' = d /\ adapter' = Unbind(adapter)
           /\ UNCHANGED <<spent, token, next_tx_id, late>>
           /\ \/ /\ driver.found = "BUSY" /\ tries < MaxTries /\ sched' = "CONTENTION" /\ Faults(0)
                 /\ UNCHANGED <<queued, tries, outcome>>
              \/ /\ driver.found = "BUSY" /\ tries < MaxTries /\ Faults(1) /\ FrontIs("DROPPED")
              \/ /\ driver.found = "FAILED" \/ tries >= MaxTries
                 /\ FrontIs("DROPPED") /\ Faults(0)
     /\ UNCHANGED <<online, chip, heard, last_frame, mishap>>

(* Of the results of the driver, the one of the frame that is pending. *)
Matches(r) == r.id = adapter.id

(* What the scheduler makes of it, the driver being d. *)
TxResult(sent, d) ==
  \/ /\ sent /\ sched = "TX1" /\ Front \in Split /\ CanSend(d)
     /\ PhyTransmit(d, <<Front, 2>>) /\ sched' = "TX2" /\ late' = FALSE
     /\ UNCHANGED <<queued, tries, outcome>>
  \/ /\ sent /\ sched = "TX1" /\ Front \in Split /\ ~CanSend(d)
     /\ FrontIs("DROPPED") /\ token' = NextToken /\ driver' = d
     /\ adapter' = Unbind(adapter) /\ UNCHANGED <<next_tx_id, late>>
  \/ /\ ~(sent /\ sched = "TX1" /\ Front \in Split)
     /\ FrontIs(IF sent THEN "SENT" ELSE "DROPPED") /\ driver' = d
     /\ adapter' = Unbind(adapter) /\ UNCHANGED <<token, next_tx_id, late>>

TxEvent ==
  /\ polling = "events" /\ driver.found = "none" /\ adapter.pending = "TX"
  /\ sched \in {"TX1", "TX2"} /\ adapter.token = token
  /\ \E i \in DOMAIN driver.results :
       /\ Matches(driver.results[i]) /\ \A j \in 1 .. i - 1 : ~Matches(driver.results[j])
       /\ TxResult(driver.results[i].sent,
                   [driver EXCEPT !.results = SubSeq(driver.results, i + 1, Len(driver.results))])
  /\ polling' \in {"events", "end"}
  /\ UNCHANGED <<online, spent, chip, heard, last_frame, mishap, radio_faults>>

(* poll_event finds nothing, and drops results nobody waits for. *)
NoEvent ==
  /\ polling = "events" /\ polling' = "end"
  /\ ~(driver.found # "none" /\ adapter.pending = "CAD")
  /\ adapter.pending = "TX" => \A i \in DOMAIN driver.results : ~Matches(driver.results[i])
  /\ driver' = [driver EXCEPT !.found = "none", !.results = <<>>]
  /\ UNCHANGED <<online, queued, tries, sched, token, late, spent, adapter, next_tx_id, chip, heard,
                 last_frame, outcome, mishap, radio_faults>>

(* poll_event fails: the operation is cancelled and its packet dropped. *)
Abandon ==
  \/ /\ sched \in Active /\ CancelOperation
     /\ IF online' THEN FrontIs("DROPPED") ELSE AllAre("DROPPED")
  \/ /\ sched \notin Active /\ queued # <<>> /\ FrontIs("DROPPED") /\ Faults(1)
     /\ UNCHANGED <<online, driver, chip, adapter>>
EventFails ==
  /\ polling = "events" /\ polling' = "end" /\ radio_faults < MaxRadioFaults /\ Abandon
  /\ UNCHANGED <<token, late, spent, next_tx_id, heard, last_frame, mishap>>

(* advance_scheduler *)
RadioWaiting_NotForDuty == {"IDLE"}
RadioWaiting == {"IDLE", "DUTY"}
Contend ==
  /\ queued # <<>> /\ sched \in RadioWaiting
  /\ \/ spent /\ sched' = "DUTY" /\ Faults(0) /\ UNCHANGED <<queued, tries, outcome>>
     \/ ~spent /\ sched' = "CONTENTION" /\ Faults(0) /\ UNCHANGED <<queued, tries, outcome>>
     \/ ~spent /\ Faults(1) /\ FrontIs("DROPPED")
  /\ UNCHANGED <<token, driver, adapter, late>>
Listen ==
  /\ sched = "CONTENTION" /\ late' = FALSE /\ UNCHANGED radio_faults
  /\ \/ StartCad /\ sched' = "CAD" /\ tries' = tries + 1 /\ UNCHANGED <<queued, outcome>>
     \/ ~CanScan /\ FrontIs("DROPPED") /\ token' = NextToken /\ UNCHANGED <<driver, adapter>>
Rest ==
  /\ queued = <<>> \/ sched \in Active \cup {"CONTENTION"}
  /\ UNCHANGED <<queued, tries, outcome, sched, token, driver, adapter, late, radio_faults>>

(* A poll begins, and ends with the deadline or with the next thing to do. *)
PollBegin(l) ==
  /\ online /\ polling = "no" /\ polling' = "events" /\ late' = l /\ (l => sched \in Active)
  /\ UNCHANGED <<online, queued, tries, sched, token, spent, adapter, driverVars, outcome,
                 radio_faults>>

PollLate ==
  /\ polling = "end" /\ polling' = "no" /\ late /\ sched \in Active
  /\ CancelOperation /\ IF online' THEN FrontIs("DROPPED") ELSE AllAre("DROPPED")
  /\ UNCHANGED <<token, late, spent, next_tx_id, heard, last_frame, mishap>>

PollEnd(step) ==
  /\ polling = "end" /\ polling' = "no" /\ ~(late /\ sched \in Active) /\ step
  /\ UNCHANGED <<online, spent, next_tx_id, chip, heard, last_frame, mishap>>
PollEndOffline ==
  /\ ~online
  /\ UNCHANGED <<queued, tries, outcome, sched, token, driver, adapter, late, radio_faults>>
PollContend == online /\ PollEnd(Contend)
PollListen == online /\ PollEnd(Listen)
PollRest == PollEnd((online /\ Rest) \/ PollEndOffline)

(* A poll without a budget for events. *)
Maintain ==
  /\ online /\ polling = "no" /\ (Contend \/ Listen)
  /\ UNCHANGED <<online, polling, spent, next_tx_id, chip, heard, last_frame, mishap>>

RadioNext ==
  \/ RadioStart \/ SchedulerStop \/ (\E p \in TxPackets : RadioSend(p)) \/ Refill
  \/ (\E l \in BOOLEAN : PollBegin(l)) \/ CadEvent \/ TxEvent \/ NoEvent \/ EventFails
  \/ PollLate \/ PollContend \/ PollListen \/ PollRest \/ Maintain
  \/ DriverPoll \/ ChipDone

(***************************************************************************)
(* Fairness: the interface is polled while it is up, the driver's task     *)
(* runs, airtime becomes available again, and time passes: contention      *)
(* ends, and an operation that stays unfinished meets its deadline.        *)
(* Nothing makes the chip finish.                                          *)
(***************************************************************************)
RadioSpec ==
  /\ RadioInit /\ [][RadioNext]_radioVars
  /\ WF_radioVars(\E l \in BOOLEAN : PollBegin(l)) /\ SF_radioVars(PollBegin(TRUE))
  /\ WF_radioVars(CadEvent \/ TxEvent \/ NoEvent \/ EventFails)
  /\ WF_radioVars(PollLate \/ PollContend \/ PollListen \/ PollRest) /\ SF_radioVars(PollListen)
  /\ WF_radioVars(Refill) /\ WF_radioVars(DriverPoll)

----------------------------------------------------------------------------
(***************************************************************************)
(* A packet reported as sent was sent to its last frame: results are       *)
(* matched to frames through two layers of identifiers, and late           *)
(* completions of cancelled operations do not count for the next.          *)
(***************************************************************************)
SentIsTrue ==
  \A p \in TxPackets :
    outcome[p] = "SENT" => (\A n \in IF p \in Split THEN {1, 2} ELSE {1} : <<p, n>> \in heard)

(***************************************************************************)
(* Nothing goes on the air after it was reported, and the frames of one    *)
(* packet follow each other: no cancelled work survives a restart of the   *)
(* chip, and "frame two follows TX_DONE with no CAD/delay".                *)
(***************************************************************************)
NoStaleFrames == mishap = {}

(* What the scheduler reports of its packets is so (both of the above). *)
RadioReportsTrue == RadioTypeOK /\ SentIsTrue /\ NoStaleFrames

(* Every packet that was accepted is reported in the end. *)
EventuallyReported == []<>(\A i \in DOMAIN queued : outcome[queued[i]] # "none")
=============================================================================
