----------------------------- MODULE RadioProofs -----------------------------
(***************************************************************************)
(* What the radio scheduler reports is so, for any packets and queue, any  *)
(* number of tries, tokens and faults.  The inductive invariant says that  *)
(* the scheduler's state, what the adapter waits for, the frame the driver *)
(* holds and the frame the chip has on the air are about one packet.       *)
(***************************************************************************)
EXTENDS Radio, SequenceTheorems, TLAPS

Frames == TxPackets \X {1, 2}
Jobs == [id : Nat, frame : Frames]
Results == [id : Nat, sent : BOOLEAN]
Drivers == [state : {"STOPPED", "RECEIVING", "SCANNING", "TRANSMITTING", "FAULT"},
            run : BOOLEAN, cad : BOOLEAN, found : {"none", "CLEAR", "BUSY", "FAILED"},
            tx : Seq(Jobs), results : Seq(Results), backoff : Nat]
Chips == [doing : {"rx", "cad", "tx"}, frame : Frames \cup {NoFrame},
          irq : {"none", "CLEAR", "BUSY", "TX_DONE", "TIMEOUT"}]

RadioShapes ==
  /\ sched \in Active \cup {"IDLE", "DUTY", "CONTENTION"}
  /\ queued \in Seq(TxPackets) /\ Len(queued) <= Capacity
  /\ tries \in 0 .. MaxTries /\ token \in Nat /\ next_tx_id \in Nat
  /\ adapter \in [pending : {"NONE", "CAD", "TX"}, token : Nat, id : Nat, up : BOOLEAN]
  /\ driver \in Drivers /\ chip \in Chips
  /\ outcome \in [TxPackets -> {"none", "SENT", "DROPPED"}]
  /\ spent \in BOOLEAN /\ online \in BOOLEAN

\* A packet that waits was not reported, and waits once.
Pending ==
  /\ \A i \in DOMAIN queued : outcome[queued[i]] = "none"
  /\ \A i, j \in DOMAIN queued : queued[i] = queued[j] => i = j

\* The state of the scheduler, the packet it is about, the attempts left to it
\* and what the adapter waits for belong together.
Scheduled ==
  /\ sched # "IDLE" => online /\ queued # <<>>
  /\ sched \in {"IDLE", "DUTY"} => tries = 0
  /\ sched = "CONTENTION" => tries < MaxTries
  /\ sched \in {"CONTENTION", "CAD"} => ~spent
  /\ sched = "CAD" <=> adapter.pending = "CAD"
  /\ sched \in {"TX1", "TX2"} <=> adapter.pending = "TX"

\* The frame the scheduler waits for.
Wanted == <<Front, IF sched = "TX2" THEN 2 ELSE 1>>

\* The frame is with the driver d and has no result ...
Underway(d) ==
  /\ d.tx = <<[id |-> adapter.id, frame |-> Wanted]>> /\ d.results = <<>>
  /\ d.state # "TRANSMITTING" /\ sched = "TX2" => last_frame = <<Front, 1>>
\* ... or is no longer there, and a good result is true.
Over(d) ==
  /\ d.tx = <<>>
  /\ \A i \in DOMAIN d.results : d.results[i].sent => Wanted \in heard /\ last_frame = Wanted

\* The driver d holds the frame the scheduler waits for and nothing else.
Holds(d) ==
  /\ adapter.pending # "TX" => d.tx = <<>>
  /\ adapter.pending = "TX" => Underway(d) \/ Over(d)

\* While the driver d is transmitting, the chip has the frame that is wanted.
OnAir(d) ==
  d.state = "TRANSMITTING" =>
    /\ d.tx # <<>> /\ last_frame = Wanted
    /\ chip.doing = "tx" => chip.frame = Wanted
    /\ chip.irq = "TX_DONE" => Wanted \in heard

Reporting ==
  /\ RadioShapes /\ Pending /\ Scheduled
  /\ Holds(driver) /\ OnAir(driver)
  /\ sched = "TX2" => <<Front, 1>> \in heard
  /\ SentIsTrue /\ NoStaleFrames

LEMMA ReportingInit == RadioInit => Reporting
<1> SUFFICES ASSUME RadioInit PROVE Reporting
  OBVIOUS
<1>1. /\ queued \in Seq(TxPackets) /\ Len(queued) = 0 /\ DOMAIN queued = {}
  BY DEF RadioInit
<1>2. driver \in Drivers /\ driver.tx = <<>> /\ driver.state = "STOPPED"
  BY DEF RadioInit, Cleared, Drivers
<1>3. chip \in Chips
  BY DEF RadioInit, Chips, Resting
<1>4. RadioShapes
  <2>1. spent \in BOOLEAN /\ online \in BOOLEAN
    BY Zenon DEF RadioInit
  <2>2. adapter \in [pending : {"NONE", "CAD", "TX"}, token : Nat, id : Nat, up : BOOLEAN]
    BY DEF RadioInit
  <2>3. outcome \in [TxPackets -> {"none", "SENT", "DROPPED"}]
    BY DEF RadioInit
  <2>4. /\ sched \in Active \cup {"IDLE", "DUTY", "CONTENTION"}
        /\ tries \in 0 .. MaxTries /\ token \in Nat /\ next_tx_id \in Nat
        /\ Len(queued) <= Capacity
    BY RadioConfig, <1>1 DEF RadioInit, Active
  <2> QED
    BY <1>1, <1>2, <1>3, <2>1, <2>2, <2>3, <2>4 DEF RadioShapes
<1>5. Scheduled /\ Holds(driver) /\ OnAir(driver)
  BY <1>2, Zenon DEF RadioInit, Scheduled, Holds, OnAir
<1> QED
  BY <1>1, <1>4, <1>5, Zenon DEF RadioInit, Reporting, Pending, SentIsTrue, NoStaleFrames

-----------------------------------------------------------------------------
\* finish_front: the front packet is reported once, and as sent only if it was.
LEMMA FrontReported ==
  ASSUME Reporting, queued # <<>>, UNCHANGED heard,
         NEW result \in {"SENT", "DROPPED"}, FrontIs(result),
         result = "SENT" =>
           \A n \in IF Front \in Split THEN {1, 2} ELSE {1} : <<Front, n>> \in heard
  PROVE  /\ queued' \in Seq(TxPackets) /\ Len(queued') <= Capacity
         /\ sched' = "IDLE" /\ tries' = 0
         /\ outcome' \in [TxPackets -> {"none", "SENT", "DROPPED"}]
         /\ Pending' /\ SentIsTrue'
<1>1. /\ queued \in Seq(TxPackets) /\ Len(queued) <= Capacity /\ Capacity \in Nat
      /\ outcome \in [TxPackets -> {"none", "SENT", "DROPPED"}]
  BY RadioConfig DEF Reporting, RadioShapes
<1>2. /\ queued' = Tail(queued) /\ outcome' = [outcome EXCEPT ![Front] = result]
      /\ sched' = "IDLE" /\ tries' = 0
  BY DEF FrontIs
<1>3. PICK l \in Nat : l = Len(queued) /\ l > 0 /\ DOMAIN queued = 1 .. l
  BY <1>1, EmptySeq, LenProperties
<1>4. /\ Front \in TxPackets /\ Front = queued[1]
      /\ queued' \in Seq(TxPackets) /\ Len(queued') = l - 1 /\ DOMAIN queued' = 1 .. l - 1
      /\ \A i \in 1 .. l - 1 : queued'[i] = queued[i + 1]
  <2>1. /\ Head(queued) \in TxPackets /\ Tail(queued) \in Seq(TxPackets)
        /\ Len(Tail(queued)) = l - 1
        /\ \A i \in 1 .. Len(Tail(queued)) : Tail(queued)[i] = queued[i + 1]
    BY <1>1, <1>3, HeadTailProperties
  <2>2. Head(queued) = queued[1] /\ DOMAIN Tail(queued) = 1 .. Len(Tail(queued))
    BY <1>1, <1>3, <2>1, LenProperties
  <2> QED
    BY <1>2, <2>1, <2>2 DEF Front
<1>5. /\ outcome' \in [TxPackets -> {"none", "SENT", "DROPPED"}] /\ outcome'[Front] = result
      /\ \A p \in TxPackets : p # Front => outcome'[p] = outcome[p]
  BY <1>1, <1>2, <1>4
<1>6. Pending'
  <2>1. \A i \in 1 .. l - 1 : i + 1 \in 1 .. l /\ 1 \in 1 .. l /\ i + 1 # 1
    OBVIOUS
  <2>2. \A i \in 1 .. l : queued[i] \in TxPackets
    BY <1>1, <1>3, ElementOfSeq
  <2>3. \A i \in 1 .. l - 1 : queued'[i] \in TxPackets /\ queued'[i] # Front
                              /\ outcome[queued'[i]] = "none"
    BY <1>3, <1>4, <2>1, <2>2 DEF Reporting, Pending
  <2>4. \A i, j \in 1 .. l - 1 : queued'[i] = queued'[j] => i = j
    <3> SUFFICES ASSUME NEW i \in 1 .. l - 1, NEW j \in 1 .. l - 1, queued'[i] = queued'[j]
                 PROVE  i = j
      OBVIOUS
    <3>1. queued[i + 1] = queued[j + 1]
      BY <1>4
    <3>2. i + 1 = j + 1
      BY <1>3, <2>1, <3>1 DEF Reporting, Pending
    <3> QED
      BY <3>2
  <2> QED
    BY <1>4, <1>5, <2>3, <2>4, Zenon DEF Pending
<1>7. SentIsTrue'
  BY <1>5 DEF Reporting, SentIsTrue
<1> QED
  BY <1>1, <1>2, <1>3, <1>4, <1>5, <1>6, <1>7

\* The whole queue is dropped.
LEMMA AllReported ==
  ASSUME Reporting, UNCHANGED heard, AllAre("DROPPED")
  PROVE  /\ queued' \in Seq(TxPackets) /\ Len(queued') <= Capacity
         /\ sched' = "IDLE" /\ tries' = 0
         /\ outcome' \in [TxPackets -> {"none", "SENT", "DROPPED"}]
         /\ Pending' /\ SentIsTrue'
<1>1. /\ queued' = <<>> /\ sched' = "IDLE" /\ tries' = 0
      /\ outcome' = [p \in TxPackets |-> IF \E i \in DOMAIN queued : queued[i] = p
                                         THEN "DROPPED" ELSE outcome[p]]
  BY DEF AllAre
<1>2. outcome \in [TxPackets -> {"none", "SENT", "DROPPED"}] /\ Capacity \in Nat
  BY RadioConfig DEF Reporting, RadioShapes
<1>3. \A p \in TxPackets : outcome'[p] = "SENT" => outcome[p] = "SENT"
  BY <1>1
<1>4. SentIsTrue'
  BY <1>3 DEF Reporting, SentIsTrue
<1> QED
  BY <1>1, <1>2, <1>4 DEF Pending

Adapters == [pending : {"NONE", "CAD", "TX"}, token : Nat, id : Nat, up : BOOLEAN]

\* A step that leaves the scheduler idle and the driver with nothing to send.
LEMMA Settles ==
  ASSUME Reporting,
         /\ queued' \in Seq(TxPackets) /\ Len(queued') <= Capacity
         /\ sched' = "IDLE" /\ tries' = 0
         /\ outcome' \in [TxPackets -> {"none", "SENT", "DROPPED"}]
         /\ Pending' /\ SentIsTrue',
         /\ adapter' \in Adapters /\ adapter'.pending = "NONE"
         /\ driver' \in Drivers /\ driver'.tx = <<>> /\ driver'.state # "TRANSMITTING"
         /\ chip' \in Chips,
         /\ token' \in Nat /\ next_tx_id' \in Nat
         /\ spent' \in BOOLEAN /\ online' \in BOOLEAN /\ mishap' = mishap
  PROVE  Reporting'
<1>1. RadioShapes'
  BY RadioConfig DEF RadioShapes, Adapters
<1>2. Scheduled' /\ Holds(driver)' /\ OnAir(driver)'
  BY DEF Scheduled, Holds, OnAir
<1> QED
  BY <1>1, <1>2 DEF Reporting, NoStaleFrames

-----------------------------------------------------------------------------
\* Updates of the driver.
LEMMA GivenResults ==
  ASSUME NEW d \in Drivers, NEW e, e = [d EXCEPT !.found = "none", !.results = <<>>]
  PROVE  /\ e \in Drivers /\ e.tx = d.tx /\ e.state = d.state /\ e.results = <<>>
<1> DEFINE J == Seq(Jobs)
           R == Seq(Results)
<1>1. /\ d \in [state : {"STOPPED", "RECEIVING", "SCANNING", "TRANSMITTING", "FAULT"},
               run : BOOLEAN, cad : BOOLEAN, found : {"none", "CLEAR", "BUSY", "FAILED"},
               tx : J, results : R, backoff : Nat]
      /\ <<>> \in R
  BY DEF Drivers
<1>2. SUFFICES /\ e \in [state : {"STOPPED", "RECEIVING", "SCANNING", "TRANSMITTING", "FAULT"},
                        run : BOOLEAN, cad : BOOLEAN, found : {"none", "CLEAR", "BUSY", "FAILED"},
                        tx : J, results : R, backoff : Nat]
               /\ e.tx = d.tx /\ e.state = d.state /\ e.results = <<>>
  BY DEF Drivers
<1> HIDE DEF J, R
<1> QED
  BY Zenon, <1>1

With(d, tx, results) == [d EXCEPT !.results = results, !.tx = tx]

LEMMA GivenFrame ==
  ASSUME NEW d \in Drivers, NEW tx \in Seq(Jobs), NEW results \in Seq(Results), NEW e,
         e = With(d, tx, results)
  PROVE  /\ e \in Drivers /\ e.tx = tx /\ e.state = d.state /\ e.results = results
<1> DEFINE J == Seq(Jobs)
           R == Seq(Results)
<1>1. /\ d \in [state : {"STOPPED", "RECEIVING", "SCANNING", "TRANSMITTING", "FAULT"},
               run : BOOLEAN, cad : BOOLEAN, found : {"none", "CLEAR", "BUSY", "FAILED"},
               tx : J, results : R, backoff : Nat]
      /\ tx \in J /\ results \in R
  BY DEF Drivers
<1>2. SUFFICES /\ e \in [state : {"STOPPED", "RECEIVING", "SCANNING", "TRANSMITTING", "FAULT"},
                        run : BOOLEAN, cad : BOOLEAN, found : {"none", "CLEAR", "BUSY", "FAILED"},
                        tx : J, results : R, backoff : Nat]
               /\ e.tx = tx /\ e.state = d.state /\ e.results = results
  BY DEF Drivers
<1> HIDE DEF J, R
<1> QED
  BY <1>1, Zenon DEF With

\* A driver whose frame and results are those of another holds as much.
LEMMA HoldsAlike ==
  ASSUME NEW d, NEW e, Holds(d), e.tx = d.tx, e.results = d.results,
         \/ e.state = d.state
         \/ d.state # "TRANSMITTING" /\ e.state # "TRANSMITTING"
         \/ d.tx = <<>>
  PROVE  Holds(e)
BY DEF Holds, Underway, Over

\* Without a frame that is pending the driver has none.
LEMMA Quiet ==
  ASSUME Reporting, adapter.pending # "TX"
  PROVE  driver.tx = <<>> /\ driver.state # "TRANSMITTING"
BY DEF Reporting, Holds, OnAir

LEMMA Aborted ==
  ASSUME Reporting, NEW ok \in BOOLEAN, AbortAndRestart(ok)
  PROVE  /\ driver' \in Drivers /\ driver'.tx = <<>> /\ driver'.state # "TRANSMITTING"
         /\ chip' \in Chips
<1>1. driver.run \in BOOLEAN /\ chip \in Chips
  BY DEF Reporting, RadioShapes, Drivers
<1>2. Resting \in Chips
  BY DEF Resting, Chips
<1> QED
  BY <1>1, <1>2 DEF AbortAndRestart, Cleared, Reset, Drivers

LEMMA StoppedRadio ==
  ASSUME Reporting, NEW ok \in BOOLEAN, RadioStop(ok)
  PROVE  /\ driver' \in Drivers /\ driver'.tx = <<>> /\ driver'.state # "TRANSMITTING"
         /\ chip' \in Chips
<1> DEFINE failed == [i \in DOMAIN driver.tx |-> [id |-> driver.tx[i].id, sent |-> FALSE]]
<1>1. driver \in Drivers /\ chip \in Chips /\ Resting \in Chips
  BY DEF Reporting, RadioShapes, Resting, Chips
<1>2. driver.tx \in Seq(Jobs) /\ driver.results \in Seq(Results)
  BY <1>1 DEF Drivers
<1>3. failed \in Seq(Results)
  <2>1. PICK n \in Nat : DOMAIN driver.tx = 1 .. n
    BY <1>2, LenProperties
  <2>2. \A i \in 1 .. n : driver.tx[i] \in Jobs
    BY <1>2, <2>1
  <2>3. \A i \in 1 .. n : [id |-> driver.tx[i].id, sent |-> FALSE] \in Results
    BY <2>2 DEF Jobs, Results
  <2> QED
    BY <2>1, <2>3
<1>4. driver.results \o failed \in Seq(Results)
  BY <1>2, <1>3, ConcatProperties
<1> HIDE DEF failed
<1>5. PICK results \in Seq(Results), found \in {"none", "CLEAR", "BUSY", "FAILED"},
           state \in {"STOPPED", "FAULT"} :
        driver' = [driver EXCEPT !.state = state, !.run = FALSE, !.found = found, !.cad = FALSE,
                                 !.tx = <<>>, !.results = results]
  <2>1. (IF driver.cad THEN "FAILED" ELSE driver.found) \in {"none", "CLEAR", "BUSY", "FAILED"}
    BY <1>1 DEF Drivers
  <2>2. (IF ok THEN "STOPPED" ELSE "FAULT") \in {"STOPPED", "FAULT"}
    OBVIOUS
  <2> QED
    BY <1>4, <2>1, <2>2, Zenon DEF RadioStop, failed
<1>6. <<>> \in Seq(Jobs)
  OBVIOUS
<1>7. driver' \in Drivers /\ driver'.tx = <<>> /\ driver'.state # "TRANSMITTING"
  BY <1>1, <1>5, <1>6, Zenon DEF Drivers
<1>8. chip' \in Chips
  BY <1>1 DEF RadioStop
<1> QED
  BY <1>7, <1>8

LEMMA Cancelled ==
  ASSUME Reporting, CancelOperation
  PROVE  /\ driver' \in Drivers /\ driver'.tx = <<>> /\ driver'.state # "TRANSMITTING"
         /\ chip' \in Chips /\ online' \in BOOLEAN
         /\ adapter' \in Adapters /\ adapter'.pending = "NONE"
<1>1. adapter \in Adapters
  BY DEF Reporting, RadioShapes, Adapters
<1>2. PICK ok \in BOOLEAN, up \in BOOLEAN, a \in Adapters :
        /\ AbortAndRestart(ok) /\ a = Unbind(adapter) /\ a.pending = "NONE"
        /\ adapter' = a \/ adapter' = [a EXCEPT !.up = up]
        /\ online' \in BOOLEAN
  <2>1. Unbind(adapter) \in Adapters /\ Unbind(adapter).pending = "NONE"
    BY <1>1, Zenon DEF Unbind, Adapters
  <2>2. CASE PhyCancel /\ online' = TRUE
    BY <2>1, <2>2, Zenon DEF PhyCancel
  <2>3. CASE \E ok \in BOOLEAN : PhyStart(ok, FALSE) /\ online' = ok
    <3>1. PICK ok \in BOOLEAN : PhyStart(ok, FALSE) /\ online' = ok
      BY Zenon, <2>3
    <3>2. AbortAndRestart(ok) /\ adapter' = [Unbind(adapter) EXCEPT !.up = FALSE \/ ok]
      BY <3>1 DEF PhyStart
    <3> QED
      BY <2>1, <3>1, <3>2
  <2> QED
    BY <2>2, <2>3, Zenon DEF CancelOperation
<1>3. adapter' \in Adapters /\ adapter'.pending = "NONE"
  BY <1>2 DEF Adapters
<1> QED
  BY <1>2, <1>3, Aborted

\* The operation is given up, and with it its packet or the whole queue.
LEMMA GivenUp ==
  ASSUME Reporting, sched \in Active, CancelOperation,
         IF online' THEN FrontIs("DROPPED") ELSE AllAre("DROPPED"),
         UNCHANGED <<token, spent, next_tx_id, heard, mishap>>
  PROVE  Reporting'
<1>1. queued # <<>>
  BY DEF Reporting, Scheduled, Active
<1>2. token' \in Nat /\ next_tx_id' \in Nat /\ spent' \in BOOLEAN
  BY DEF Reporting, RadioShapes
<1>3. CASE FrontIs("DROPPED")
  <2>1. /\ queued' \in Seq(TxPackets) /\ Len(queued') <= Capacity
        /\ sched' = "IDLE" /\ tries' = 0
        /\ outcome' \in [TxPackets -> {"none", "SENT", "DROPPED"}]
        /\ Pending' /\ SentIsTrue'
    BY <1>1, <1>3, FrontReported
  <2> QED
    BY <1>2, <2>1, Cancelled, Settles
<1>4. CASE AllAre("DROPPED")
  BY <1>2, <1>4, AllReported, Cancelled, Settles
<1> QED
  BY <1>3, <1>4, Cancelled

-----------------------------------------------------------------------------
(* The steps of the scheduler. *)

\* Nothing of the invariant depends on where a poll is.
LEMMA OtherwiseSame ==
  ASSUME Reporting,
         UNCHANGED <<online, queued, tries, sched, token, adapter, driverVars, outcome>>,
         spent' \in BOOLEAN, spent' => spent
  PROVE  Reporting'
<1>1. RadioShapes'
  BY DEF Reporting, RadioShapes, driverVars
<1>2. Scheduled' /\ Pending'
  BY DEF Reporting, Scheduled, Pending
<1>3. Holds(driver)' /\ OnAir(driver)'
  BY DEF Reporting, Holds, Underway, Over, OnAir, Wanted, Front, driverVars
<1> QED
  BY <1>1, <1>2, <1>3 DEF Reporting, SentIsTrue, NoStaleFrames, Front, driverVars

LEMMA StartReporting ==
  ASSUME Reporting, RadioStart
  PROVE  Reporting'
<1>1. PICK ok \in BOOLEAN : PhyStart(ok, adapter.up) /\ online' = ok
  BY DEF RadioStart
<1>2. sched = "IDLE" /\ tries = 0 /\ UNCHANGED <<queued, tries, sched, token, spent, next_tx_id,
                                                heard, outcome, mishap>>
  BY DEF RadioStart, Reporting, Scheduled
<1>3. adapter' \in Adapters /\ adapter'.pending = "NONE"
  <2>1. adapter \in Adapters /\ (adapter.up \/ ok) \in BOOLEAN
    BY DEF Reporting, RadioShapes, Adapters
  <2>2. PICK a \in Adapters, up \in BOOLEAN :
          a.pending = "NONE" /\ adapter' = [a EXCEPT !.up = up]
    BY <1>1, <2>1, Zenon DEF PhyStart, Unbind, Adapters
  <2> QED
    BY <2>2 DEF Adapters
<1>4. /\ driver' \in Drivers /\ driver'.tx = <<>> /\ driver'.state # "TRANSMITTING"
      /\ chip' \in Chips
  BY <1>1, Aborted DEF PhyStart
<1>5. /\ queued' \in Seq(TxPackets) /\ Len(queued') <= Capacity
      /\ sched' = "IDLE" /\ tries' = 0
      /\ outcome' \in [TxPackets -> {"none", "SENT", "DROPPED"}]
      /\ token' \in Nat /\ next_tx_id' \in Nat /\ spent' \in BOOLEAN
  BY <1>2 DEF Reporting, RadioShapes
<1>6. Pending' /\ SentIsTrue'
  BY <1>2 DEF Reporting, Pending, SentIsTrue
<1> QED
  BY <1>1, <1>2, <1>3, <1>4, <1>5, <1>6, Settles

LEMMA StopReporting ==
  ASSUME Reporting, SchedulerStop
  PROVE  Reporting'
<1>1. PICK ok \in BOOLEAN : PhyStop(ok)
  BY DEF SchedulerStop
<1>2. /\ online' = FALSE /\ AllAre("DROPPED") /\ UNCHANGED <<token, spent, next_tx_id, heard, mishap>>
  BY DEF SchedulerStop
<1>3. adapter' \in Adapters /\ adapter'.pending = "NONE"
  <2>1. adapter \in Adapters
    BY DEF Reporting, RadioShapes, Adapters
  <2> QED
    BY <1>1, <2>1, Zenon DEF PhyStop, Unbind, Adapters
<1>4. /\ driver' \in Drivers /\ driver'.tx = <<>> /\ driver'.state # "TRANSMITTING"
      /\ chip' \in Chips
  BY <1>1, StoppedRadio DEF PhyStop
<1>5. token' \in Nat /\ next_tx_id' \in Nat /\ spent' \in BOOLEAN /\ online' \in BOOLEAN
  BY <1>2, Zenon DEF Reporting, RadioShapes
<1> QED
  BY <1>2, <1>3, <1>4, <1>5, AllReported, Settles

LEMMA SendReporting ==
  ASSUME Reporting, NEW p \in TxPackets, RadioSend(p)
  PROVE  Reporting'
<1>1. /\ online /\ Len(queued) < Capacity /\ outcome[p] = "none"
      /\ \A i \in DOMAIN queued : queued[i] # p
      /\ queued' = Append(queued, p)
      /\ UNCHANGED <<online, tries, sched, token, spent, adapter, driver, next_tx_id, chip, heard,
                     last_frame, mishap, outcome>>
  BY DEF RadioSend, driverVars
<1>2. PICK l \in Nat : /\ queued \in Seq(TxPackets) /\ l = Len(queued) /\ DOMAIN queued = 1 .. l
                       /\ l < Capacity /\ Capacity \in Nat
  BY RadioConfig, <1>1, LenProperties DEF Reporting, RadioShapes
<1>3. /\ queued' \in Seq(TxPackets) /\ Len(queued') = l + 1 /\ queued' # <<>>
      /\ \A i \in 1 .. l : queued'[i] = queued[i]
      /\ queued'[l + 1] = p
  BY <1>1, <1>2, AppendProperties
<1>4. DOMAIN queued' = 1 .. l + 1
  BY <1>3, LenProperties
<1>5. RadioShapes'
  BY <1>1, <1>2, <1>3 DEF Reporting, RadioShapes
<1>6. Pending'
  <2>1. \A i \in 1 .. l + 1 : i \in 1 .. l \/ i = l + 1
    BY <1>2
  <2>2. \A i \in 1 .. l : outcome[queued[i]] = "none" /\ queued[i] # p
    BY <1>1, <1>2 DEF Reporting, Pending
  <2>3. \A i, j \in 1 .. l : queued[i] = queued[j] => i = j
    BY <1>2 DEF Reporting, Pending
  <2>4. \A i \in 1 .. l + 1 : outcome'[queued'[i]] = "none"
    BY <1>1, <1>3, <2>1, <2>2
  <2>5. \A i, j \in 1 .. l + 1 : queued'[i] = queued'[j] => i = j
    BY <1>3, <2>1, <2>2, <2>3
  <2> QED
    BY <1>4, <2>4, <2>5 DEF Pending
<1>7. sched # "IDLE" => Front' = Front
  <2>1. sched # "IDLE" => queued # <<>> /\ 1 \in 1 .. l
    BY <1>2, EmptySeq DEF Reporting, Scheduled
  <2> QED
    BY <1>2, <1>3, <2>1 DEF Front
<1>8. Scheduled'
  BY <1>1, <1>3 DEF Reporting, Scheduled
<1>9. Holds(driver)' /\ OnAir(driver)' /\ (sched' = "TX2" => <<Front, 1>>' \in heard')
  <2>1. CASE adapter.pending = "TX"
    <3>1. Wanted' = Wanted /\ Front' = Front
      BY <1>1, <1>7, <2>1 DEF Wanted, Reporting, Scheduled
    <3> QED
      BY <1>1, <3>1 DEF Reporting, Holds, Underway, Over, OnAir
  <2>2. CASE adapter.pending # "TX"
    <3>1. sched # "TX2" /\ driver.state # "TRANSMITTING" /\ driver.tx = <<>>
      BY <2>2, Quiet DEF Reporting, Scheduled
    <3> QED
      BY <1>1, <2>2, <3>1 DEF Holds, OnAir
  <2> QED
    BY <2>1, <2>2
<1> QED
  BY <1>1, <1>5, <1>6, <1>8, <1>9 DEF Reporting, SentIsTrue, NoStaleFrames

\* A step of the scheduler between operations: the driver keeps what it has,
\* which is no frame.
LEMMA BetweenOperations ==
  ASSUME Reporting, adapter.pending = "NONE", adapter' = adapter,
         sched' \in {"IDLE", "DUTY", "CONTENTION"}, Scheduled',
         /\ queued' \in Seq(TxPackets) /\ Len(queued') <= Capacity
         /\ outcome' \in [TxPackets -> {"none", "SENT", "DROPPED"}]
         /\ Pending' /\ SentIsTrue',
         tries' \in 0 .. MaxTries, token' \in Nat,
         UNCHANGED <<driverVars, spent, online>>
  PROVE  Reporting'
<1>1. RadioShapes'
  BY DEF Reporting, RadioShapes, driverVars, Active
<1>2. Holds(driver)' /\ OnAir(driver)'
  BY Quiet DEF Holds, OnAir, driverVars
<1> QED
  BY <1>1, <1>2 DEF Reporting, NoStaleFrames, driverVars

\* The front packet is dropped between operations.
LEMMA DroppedBetween ==
  ASSUME Reporting, adapter.pending = "NONE", queued # <<>>, FrontIs("DROPPED"),
         adapter' = adapter, token' \in Nat, UNCHANGED <<driverVars, spent, online>>
  PROVE  Reporting'
<1>1. /\ queued' \in Seq(TxPackets) /\ Len(queued') <= Capacity
      /\ sched' = "IDLE" /\ tries' = 0
      /\ outcome' \in [TxPackets -> {"none", "SENT", "DROPPED"}]
      /\ Pending' /\ SentIsTrue'
  BY FrontReported DEF driverVars
<1>2. Scheduled'
  BY <1>1 DEF Scheduled
<1> QED
  BY RadioConfig, <1>1, <1>2, BetweenOperations

LEMMA TokenStays ==
  ASSUME Reporting
  PROVE  NextToken \in Nat /\ token \in Nat /\ (next_tx_id % TokenSpan) + 1 \in Nat
BY RadioConfig DEF Reporting, RadioShapes, NextToken

LEMMA ContendReporting ==
  ASSUME Reporting, online, Contend, UNCHANGED <<online, spent, next_tx_id, chip, heard, last_frame, mishap>>
  PROVE  Reporting'
<1>1. /\ queued # <<>> /\ sched \in {"IDLE", "DUTY"} /\ UNCHANGED <<token, driver, adapter>>
      /\ tries = 0 /\ adapter.pending = "NONE" /\ token' \in Nat
  <2>1. queued # <<>> /\ sched \in {"IDLE", "DUTY"} /\ UNCHANGED <<token, driver, adapter>>
    BY DEF Contend, RadioWaiting
  <2>2. tries = 0 /\ adapter.pending \notin {"CAD", "TX"}
    BY <2>1 DEF Reporting, Scheduled
  <2>3. adapter.pending \in {"NONE", "CAD", "TX"} /\ token \in Nat
    BY DEF Reporting, RadioShapes
  <2> QED
    BY <2>1, <2>2, <2>3
<1>2. CASE FrontIs("DROPPED")
  BY <1>1, <1>2, DroppedBetween DEF driverVars
<1>3. CASE /\ UNCHANGED <<queued, tries, outcome>>
           /\ sched' = "DUTY" \/ (~spent /\ sched' = "CONTENTION")
  <2>1. Scheduled'
    BY RadioConfig, <1>1, <1>3 DEF Scheduled
  <2>2. /\ queued' \in Seq(TxPackets) /\ Len(queued') <= Capacity
        /\ outcome' \in [TxPackets -> {"none", "SENT", "DROPPED"}]
        /\ tries' \in 0 .. MaxTries
    BY <1>3 DEF Reporting, RadioShapes
  <2>3. Pending' /\ SentIsTrue'
    BY <1>3 DEF Reporting, Pending, SentIsTrue
  <2> QED
    BY <1>1, <1>3, <2>1, <2>2, <2>3, BetweenOperations DEF driverVars
<1> QED
  BY <1>2, <1>3 DEF Contend

\* A step after which carrier detection is under way.
LEMMA ListenReporting ==
  ASSUME Reporting, Listen, UNCHANGED <<online, spent, next_tx_id, chip, heard, last_frame, mishap>>
  PROVE  Reporting'
<1>1. /\ sched = "CONTENTION" /\ queued # <<>> /\ tries < MaxTries /\ ~spent /\ online
      /\ adapter.pending = "NONE"
  <2>1. sched = "CONTENTION"
    BY DEF Listen
  <2>2. queued # <<>> /\ tries < MaxTries /\ ~spent /\ online /\ adapter.pending \notin {"CAD", "TX"}
    BY <2>1 DEF Reporting, Scheduled
  <2>3. adapter.pending \in {"NONE", "CAD", "TX"}
    BY DEF Reporting, RadioShapes
  <2> QED
    BY <2>1, <2>2, <2>3
<1>2. CASE FrontIs("DROPPED") /\ token' = NextToken /\ UNCHANGED <<driver, adapter>>
  BY <1>1, <1>2, DroppedBetween, TokenStays DEF driverVars
<1>3. CASE StartCad /\ sched' = "CAD" /\ tries' = tries + 1 /\ UNCHANGED <<queued, outcome>>
  <2>1. /\ token' = NextToken
        /\ driver' = [driver EXCEPT !.found = "none", !.cad = TRUE]
        /\ adapter' = [adapter EXCEPT !.pending = "CAD", !.token = NextToken]
    BY <1>3 DEF StartCad
  <2>2. driver.tx = <<>> /\ driver.state # "TRANSMITTING" /\ driver \in Drivers
    BY <1>1, Quiet DEF Reporting, RadioShapes
  <2>3. driver' \in Drivers /\ driver'.tx = <<>> /\ driver'.state # "TRANSMITTING"
    BY <2>1, <2>2, Zenon DEF Drivers
  <2>4. adapter' \in Adapters /\ adapter'.pending = "CAD"
    <3>1. adapter \in Adapters
      BY DEF Reporting, RadioShapes, Adapters
    <3> QED
      BY <2>1, <3>1, TokenStays, Zenon DEF Adapters
  <2>5. tries' \in 0 .. MaxTries
    BY RadioConfig, <1>1, <1>3 DEF Reporting, RadioShapes
  <2>6. RadioShapes'
    BY <1>3, <2>1, <2>3, <2>4, <2>5, TokenStays DEF Reporting, RadioShapes, Adapters, Active
  <2>7. Scheduled'
    BY <1>1, <1>3, <2>4 DEF Scheduled
  <2>8. Holds(driver)' /\ OnAir(driver)'
    BY <2>3, <2>4 DEF Holds, OnAir
  <2> QED
    BY <1>3, <2>6, <2>7, <2>8 DEF Reporting, Pending, SentIsTrue, NoStaleFrames
<1> QED
  BY <1>2, <1>3 DEF Listen

\* poll_event drops results nobody waits for: none of them is of the frame
\* that is pending.
LEMMA NoEventReporting ==
  ASSUME Reporting, NoEvent
  PROVE  Reporting'
<1>1. /\ driver' = [driver EXCEPT !.found = "none", !.results = <<>>]
      /\ UNCHANGED <<online, queued, tries, sched, token, spent, adapter, next_tx_id, chip, heard,
                     last_frame, outcome, mishap>>
  BY DEF NoEvent
<1>2. driver \in Drivers
  BY DEF Reporting, RadioShapes
<1>3. /\ driver' \in Drivers /\ driver'.tx = driver.tx /\ driver'.state = driver.state
      /\ driver'.results = <<>>
  BY Zenon, <1>1, <1>2, GivenResults
<1>4. RadioShapes' /\ Pending' /\ Scheduled'
  <2>1. RadioShapes'
    BY <1>1, <1>3 DEF Reporting, RadioShapes
  <2>2. Pending' /\ Scheduled'
    BY <1>1 DEF Reporting, Pending, Scheduled
  <2> QED
    BY <2>1, <2>2
<1>5. Wanted' = Wanted /\ Front' = Front
  BY <1>1 DEF Wanted, Front
<1>6. Holds(driver)' /\ OnAir(driver)'
  BY <1>1, <1>3, <1>5 DEF Reporting, Holds, Underway, Over, OnAir
<1> QED
  BY <1>1, <1>4, <1>5, <1>6 DEF Reporting, SentIsTrue, NoStaleFrames

\* phy_transmit hands a frame to a driver that has none.
LEMMA Transmits ==
  ASSUME Reporting, online, queued # <<>>,
         NEW d \in Drivers, d.tx = <<>>, d.state # "TRANSMITTING",
         NEW n \in {1, 2}, PhyTransmit(d, <<Front, n>>), sched' = IF n = 1 THEN "TX1" ELSE "TX2",
         n = 2 => <<Front, 1>> \in heard /\ last_frame = <<Front, 1>>,
         UNCHANGED <<online, queued, tries, outcome, chip, heard, last_frame, mishap>>,
         spent' \in BOOLEAN
  PROVE  Reporting'
<1>1. PICK id \in Nat, t \in Nat :
        /\ token' = t /\ next_tx_id' = id
        /\ driver' = [d EXCEPT !.results = <<>>,
                               !.tx = Append(d.tx, [id |-> id, frame |-> <<Front, n>>])]
        /\ adapter' = [adapter EXCEPT !.pending = "TX", !.token = t, !.id = id]
  BY TokenStays, Zenon DEF PhyTransmit
<1>2. Front \in TxPackets
  BY HeadTailProperties DEF Front, Reporting, RadioShapes
<1>3. PICK job \in Jobs :
        /\ job = [id |-> id, frame |-> <<Front, n>>]
        /\ driver' = [d EXCEPT !.results = <<>>, !.tx = Append(d.tx, job)]
  BY <1>1, <1>2, Zenon DEF Jobs, Frames
<1>4. Append(d.tx, job) = <<job>> /\ <<job>> \in Seq(Jobs) /\ <<job>> # <<>>
  OBVIOUS
<1>5. /\ driver' \in Drivers /\ driver'.tx = <<job>> /\ driver'.results = <<>>
      /\ driver'.state # "TRANSMITTING"
  <2>1. PICK tx \in Seq(Jobs) : tx = <<job>> /\ tx = Append(d.tx, job)
    BY Zenon, <1>4
  <2>2. PICK results \in Seq(Results) : results = <<>> /\ driver' = With(d, tx, results)
    <3>1. <<>> \in Seq(Results) /\ driver' = [d EXCEPT !.results = <<>>, !.tx = tx]
      BY <1>3, <2>1
    <3> QED
      BY <3>1, Zenon DEF With
  <2>3. PICK e : e = driver' /\ e = With(d, tx, results)
    BY <2>2
  <2>4. e \in Drivers /\ e.tx = tx /\ e.state = d.state /\ e.results = results
    BY <2>3, GivenFrame
  <2> QED
    BY <2>1, <2>2, <2>3, <2>4
<1>6. adapter' \in Adapters /\ adapter'.pending = "TX" /\ adapter'.id = id
  <2>1. adapter \in Adapters
    BY DEF Reporting, RadioShapes, Adapters
  <2> QED
    BY <1>1, <2>1, Zenon DEF Adapters
<1>7. RadioShapes'
  <2>1. sched' \in Active
    BY DEF Active
  <2> QED
    BY <1>1, <1>5, <1>6, <2>1 DEF Reporting, RadioShapes, Adapters
<1>8. Scheduled'
  BY <1>6 DEF Scheduled
<1>9. Wanted' = <<Front, n>> /\ Front' = Front
  BY DEF Wanted, Front
<1>10. Holds(driver)' /\ OnAir(driver)'
  <2>1. Underway(driver)'
    BY <1>3, <1>5, <1>6, <1>9 DEF Underway
  <2> QED
    BY <1>5, <1>6, <2>1 DEF Holds, OnAir
<1>11. sched' = "TX2" => <<Front, 1>>' \in heard'
  BY <1>9
<1> QED
  BY <1>7, <1>8, <1>10, <1>11 DEF Reporting, Pending, SentIsTrue, NoStaleFrames

\* The operation is over, and the front packet with it.
LEMMA Concludes ==
  ASSUME Reporting, queued # <<>>, NEW result \in {"SENT", "DROPPED"}, FrontIs(result),
         result = "SENT" =>
           \A n \in IF Front \in Split THEN {1, 2} ELSE {1} : <<Front, n>> \in heard,
         driver' \in Drivers, driver'.tx = <<>>, driver'.state # "TRANSMITTING",
         adapter' = Unbind(adapter), token' \in Nat, spent' \in BOOLEAN,
         UNCHANGED <<online, next_tx_id, chip, heard, mishap>>
  PROVE  Reporting'
<1>1. /\ queued' \in Seq(TxPackets) /\ Len(queued') <= Capacity
      /\ sched' = "IDLE" /\ tries' = 0
      /\ outcome' \in [TxPackets -> {"none", "SENT", "DROPPED"}]
      /\ Pending' /\ SentIsTrue'
  BY FrontReported
<1>2. adapter' \in Adapters /\ adapter'.pending = "NONE"
  <2>1. adapter \in Adapters
    BY DEF Reporting, RadioShapes, Adapters
  <2> QED
    BY <2>1, Zenon DEF Adapters, Unbind
<1>3. chip' \in Chips /\ next_tx_id' \in Nat /\ online' \in BOOLEAN
  BY DEF Reporting, RadioShapes
<1> QED
  BY <1>1, <1>2, <1>3, Settles

LEMMA CadReporting ==
  ASSUME Reporting, CadEvent
  PROVE  Reporting'
<1>1. PICK d : d = [driver EXCEPT !.found = "none"]
  BY Zenon
<1>2. /\ adapter.pending = "CAD" /\ sched = "CAD" /\ UNCHANGED <<online, chip, heard, last_frame, mishap>>
      /\ \/ BeginFirst(d)
         \/ /\ driver' = d /\ adapter' = Unbind(adapter) /\ UNCHANGED <<spent, token, next_tx_id>>
            /\ \/ tries < MaxTries /\ sched' = "CONTENTION" /\ UNCHANGED <<queued, tries, outcome>>
               \/ FrontIs("DROPPED")
  BY <1>1 DEF CadEvent
<1>3. online /\ queued # <<>> /\ ~spent /\ spent \in BOOLEAN
  BY <1>2 DEF Reporting, Scheduled, RadioShapes
<1>4. d \in Drivers /\ d.tx = <<>> /\ d.state # "TRANSMITTING"
  <2>1. driver \in Drivers /\ driver.tx = <<>> /\ driver.state # "TRANSMITTING"
    BY <1>2, Quiet DEF Reporting, RadioShapes
  <2> QED
    BY <1>1, <2>1 DEF Drivers
<1>5. CASE BeginFirst(d)
  <2>1. CASE /\ spent' \in BOOLEAN /\ PhyTransmit(d, <<Front, 1>>) /\ sched' = "TX1"
             /\ UNCHANGED <<queued, tries, outcome>>
    BY <1>2, <1>3, <1>4, <2>1, Transmits
  <2>2. CASE /\ spent' \in BOOLEAN /\ FrontIs("DROPPED") /\ token' = NextToken /\ driver' = d
             /\ adapter' = Unbind(adapter) /\ UNCHANGED next_tx_id
    BY <1>2, <1>3, <1>4, <2>2, TokenStays, Concludes
  <2> QED
    BY <1>3, <1>5, <2>1, <2>2 DEF BeginFirst
<1>6. CASE driver' = d /\ adapter' = Unbind(adapter) /\ UNCHANGED <<spent, token, next_tx_id>>
           /\ FrontIs("DROPPED")
  BY <1>2, <1>3, <1>4, <1>6, TokenStays, Concludes
<1>7. CASE driver' = d /\ adapter' = Unbind(adapter) /\ UNCHANGED <<spent, token, next_tx_id>>
           /\ tries < MaxTries /\ sched' = "CONTENTION" /\ UNCHANGED <<queued, tries, outcome>>
  <2>1. adapter' \in Adapters /\ adapter'.pending = "NONE"
    <3>1. adapter \in Adapters
      BY DEF Reporting, RadioShapes, Adapters
    <3> QED
      BY <1>7, <3>1, Zenon DEF Adapters, Unbind
  <2>2. RadioShapes'
    BY <1>2, <1>4, <1>7, <2>1 DEF Reporting, RadioShapes, Adapters
  <2>3. Scheduled'
    BY <1>2, <1>3, <1>7, <2>1 DEF Scheduled
  <2>4. Holds(driver)' /\ OnAir(driver)'
    BY <1>4, <1>7, <2>1 DEF Holds, OnAir
  <2> QED
    BY <1>2, <1>7, <2>2, <2>3, <2>4 DEF Reporting, Pending, SentIsTrue, NoStaleFrames
<1> QED
  BY <1>2, <1>5, <1>6, <1>7

\* A result that matches the frame that is pending is the result of that frame.
LEMMA TxReporting ==
  ASSUME Reporting, TxEvent
  PROVE  Reporting'
<1>1. /\ adapter.pending = "TX" /\ sched \in {"TX1", "TX2"}
      /\ UNCHANGED <<online, spent, chip, heard, last_frame, mishap>>
  BY DEF TxEvent
<1>2. online /\ queued # <<>> /\ spent' \in BOOLEAN
  BY <1>1 DEF Reporting, Scheduled, RadioShapes
<1>a. \E i \in DOMAIN driver.results : \E sent, d :
        /\ sent = driver.results[i].sent
        /\ d = [driver EXCEPT !.results = SubSeq(driver.results, i + 1, Len(driver.results))]
        /\ TxResult(sent, d)
  BY Zenon DEF TxEvent
<1>3. PICK i, sent, d :
        /\ i \in DOMAIN driver.results
        /\ sent = driver.results[i].sent
        /\ d = [driver EXCEPT !.results = SubSeq(driver.results, i + 1, Len(driver.results))]
        /\ TxResult(sent, d)
  BY <1>a, Zenon
<1>4. driver \in Drivers /\ driver.results \in Seq(Results) /\ driver.results # <<>>
  BY <1>3 DEF Reporting, RadioShapes, Drivers
<1>5. Over(driver) /\ driver.state # "TRANSMITTING" /\ driver.tx = <<>>
  BY <1>1, <1>4 DEF Reporting, Holds, Underway, Over, OnAir
<1>6. sent \in BOOLEAN /\ (sent => Wanted \in heard /\ last_frame = Wanted)
  <2>1. driver.results[i] \in Results
    BY <1>3, <1>4
  <2> QED
    BY <1>3, <1>5, <2>1 DEF Over, Results
<1>7. d \in Drivers /\ d.tx = <<>> /\ d.state # "TRANSMITTING"
  <2>1. PICK rest \in Seq(Results) : rest = SubSeq(driver.results, i + 1, Len(driver.results))
    <3>1. PICK l \in Nat : l = Len(driver.results) /\ DOMAIN driver.results = 1 .. l
      BY <1>4, LenProperties
    <3>2. \A j \in i + 1 .. l : driver.results[j] \in Results
      BY <1>3, <1>4, <3>1
    <3>3. i + 1 \in Int /\ l \in Int
      BY <1>3, <3>1
    <3> QED
      BY Zenon, <3>1, <3>2, <3>3, SubSeqProperties
  <2>2. d = [driver EXCEPT !.results = rest]
    BY <1>3, <2>1
  <2> QED
    BY <1>4, <1>5, <2>2 DEF Drivers
<1>8. CASE /\ sent /\ sched = "TX1" /\ PhyTransmit(d, <<Front, 2>>) /\ sched' = "TX2"
           /\ UNCHANGED <<queued, tries, outcome>>
  <2>1. <<Front, 1>> \in heard /\ last_frame = <<Front, 1>>
    BY <1>6, <1>8 DEF Wanted
  <2> QED
    BY <1>1, <1>2, <1>7, <1>8, <2>1, Transmits
<1>9. CASE /\ FrontIs("DROPPED") /\ token' = NextToken /\ driver' = d
           /\ adapter' = Unbind(adapter) /\ UNCHANGED next_tx_id
  BY <1>1, <1>2, <1>7, <1>9, TokenStays, Concludes
<1>10. CASE /\ ~(sent /\ sched = "TX1" /\ Front \in Split)
            /\ FrontIs(IF sent THEN "SENT" ELSE "DROPPED") /\ driver' = d
            /\ adapter' = Unbind(adapter) /\ UNCHANGED <<token, next_tx_id>>
  <2>1. CASE ~sent
    <3>1. FrontIs("DROPPED")
      BY <1>10, <2>1
    <3> QED
      BY <1>1, <1>2, <1>7, <1>10, <3>1, TokenStays, Concludes
  <2>2. CASE sent
    <3>1. FrontIs("SENT")
      BY <1>10, <2>2
    <3>2. \A n \in IF Front \in Split THEN {1, 2} ELSE {1} : <<Front, n>> \in heard
      <4>1. CASE sched = "TX1"
        <5>1. Front \notin Split /\ <<Front, 1>> \in heard
          BY <1>6, <1>10, <2>2, <4>1 DEF Wanted
        <5> QED
          BY <5>1
      <4>2. CASE sched = "TX2"
        <5>1. <<Front, 1>> \in heard /\ <<Front, 2>> \in heard
          BY <1>6, <2>2, <4>2 DEF Wanted, Reporting
        <5> QED
          BY <5>1
      <4> QED
        BY <1>1, <4>1, <4>2
    <3> QED
      BY <1>1, <1>2, <1>7, <1>10, <3>1, <3>2, TokenStays, Concludes
  <2> QED
    BY <1>6, <2>1, <2>2
<1> QED
  BY <1>3, <1>8, <1>9, <1>10 DEF TxResult

LEMMA FailedEventReporting ==
  ASSUME Reporting, EventFails
  PROVE  Reporting'
<1>1. UNCHANGED <<token, spent, next_tx_id, heard, last_frame, mishap>> /\ Abandon
  BY DEF EventFails
<1>2. CASE /\ sched \in Active /\ CancelOperation
           /\ IF online' THEN FrontIs("DROPPED") ELSE AllAre("DROPPED")
  BY <1>1, <1>2, GivenUp
<1>3. CASE /\ sched \notin Active /\ queued # <<>> /\ FrontIs("DROPPED")
           /\ UNCHANGED <<online, driver, chip, adapter>>
  <2>1. adapter.pending \in {"NONE", "CAD", "TX"} /\ adapter.pending \notin {"CAD", "TX"}
    BY <1>3 DEF Reporting, RadioShapes, Scheduled, Active
  <2> QED
    BY <1>1, <1>3, <2>1, DroppedBetween, TokenStays DEF driverVars
<1> QED
  BY <1>1, <1>2, <1>3 DEF Abandon

-----------------------------------------------------------------------------
(* The steps of the driver's task. *)

\* A driver that holds the frame holds it after a step that changes no more
\* than the driver.
LEMMA StillHolds ==
  ASSUME NEW e, driver' = e, Holds(e), UNCHANGED <<adapter, queued, sched, heard, last_frame>>
  PROVE  Holds(driver)'
<1>1. Wanted' = Wanted /\ Front' = Front
  BY DEF Wanted, Front
<1> QED
  BY <1>1 DEF Holds, Underway, Over

\* finish_tx: the frame has gone, and the result is its result.
LEMMA TxFinished ==
  ASSUME NEW d \in Drivers, Holds(d), d.tx # <<>>,
         NEW sent \in BOOLEAN, sent => Wanted \in heard /\ last_frame = Wanted,
         NEW e, e = FinishTx(d, sent)
  PROVE  e \in Drivers /\ e.tx = <<>> /\ e.state = d.state /\ Holds(e)
<1>1. adapter.pending = "TX" /\ Underway(d)
  BY DEF Holds, Over
<1>2. PICK job \in Jobs : d.tx = <<job>> /\ Head(d.tx) = job /\ Tail(d.tx) = <<>>
  <2>1. PICK job : d.tx = <<job>>
    BY <1>1 DEF Underway
  <2>2. d.tx \in Seq(Jobs)
    BY DEF Drivers
  <2>3. job \in Jobs
    BY <2>1, <2>2
  <2> QED
    BY <2>1, <2>3
<1>3. PICK r \in Results : r = [id |-> Head(d.tx).id, sent |-> sent] /\ r.sent = sent
  <2>1. job.id \in Nat
    BY DEF Jobs
  <2>2. [id |-> job.id, sent |-> sent] \in Results
    BY <2>1 DEF Results
  <2>3. [id |-> job.id, sent |-> sent].sent = sent
    BY Zenon
  <2> QED
    BY <1>2, <2>2, <2>3, Zenon
<1>4. PICK results \in Seq(Results), tx \in Seq(Jobs) :
        /\ results = <<r>> /\ results = Append(d.results, r) /\ tx = <<>> /\ tx = Tail(d.tx)
  <2>1. d.results = <<>>
    BY <1>1 DEF Underway
  <2>2. Append(d.results, r) = <<r>> /\ <<r>> \in Seq(Results) /\ <<>> \in Seq(Jobs)
    BY <2>1
  <2> QED
    BY Zenon, <1>2, <2>2
<1>5. e = With(d, tx, results)
  BY <1>3, <1>4, Zenon DEF FinishTx, With
<1>6. e \in Drivers /\ e.tx = tx /\ e.state = d.state /\ e.results = results
  BY <1>5, GivenFrame
<1>7. Over(e)
  <2>1. \A i \in DOMAIN <<r>> : <<r>>[i] = r
    OBVIOUS
  <2> QED
    BY <1>3, <1>4, <1>6, <2>1 DEF Over
<1> QED
  BY <1>1, <1>4, <1>6, <1>7 DEF Holds

LEMMA CadFinished ==
  ASSUME NEW d \in Drivers, NEW found \in {"none", "CLEAR", "BUSY", "FAILED"}, NEW e,
         e = FinishCad(d, found)
  PROVE  e \in Drivers /\ e.tx = d.tx /\ e.state = d.state /\ e.results = d.results
<1> DEFINE J == Seq(Jobs)
           R == Seq(Results)
<1>1. d \in [state : {"STOPPED", "RECEIVING", "SCANNING", "TRANSMITTING", "FAULT"},
             run : BOOLEAN, cad : BOOLEAN, found : {"none", "CLEAR", "BUSY", "FAILED"},
             tx : J, results : R, backoff : Nat]
  BY DEF Drivers
<1>2. SUFFICES /\ e \in [state : {"STOPPED", "RECEIVING", "SCANNING", "TRANSMITTING", "FAULT"},
                        run : BOOLEAN, cad : BOOLEAN, found : {"none", "CLEAR", "BUSY", "FAILED"},
                        tx : J, results : R, backoff : Nat]
               /\ e.tx = d.tx /\ e.state = d.state /\ e.results = d.results
  BY DEF Drivers
<1> HIDE DEF J, R
<1> QED
  BY <1>1, Zenon DEF FinishCad

\* A change of state, and of what is left of the recovery.
WithState(d, state) == [d EXCEPT !.state = state]
WithBackoff(d, n) == [d EXCEPT !.backoff = n]

LEMMA GivenState ==
  ASSUME NEW d \in Drivers, NEW state \in {"STOPPED", "RECEIVING", "SCANNING", "TRANSMITTING", "FAULT"}, NEW e,
         e = WithState(d, state)
  PROVE  e \in Drivers /\ e.tx = d.tx /\ e.state = state /\ e.results = d.results
<1> DEFINE J == Seq(Jobs)
           R == Seq(Results)
<1>1. d \in [state : {"STOPPED", "RECEIVING", "SCANNING", "TRANSMITTING", "FAULT"},
             run : BOOLEAN, cad : BOOLEAN, found : {"none", "CLEAR", "BUSY", "FAILED"},
             tx : J, results : R, backoff : Nat]
  BY DEF Drivers
<1>2. SUFFICES /\ e \in [state : {"STOPPED", "RECEIVING", "SCANNING", "TRANSMITTING", "FAULT"},
                        run : BOOLEAN, cad : BOOLEAN, found : {"none", "CLEAR", "BUSY", "FAILED"},
                        tx : J, results : R, backoff : Nat]
               /\ e.tx = d.tx /\ e.state = state /\ e.results = d.results
  BY DEF Drivers
<1> HIDE DEF J, R
<1> QED
  BY <1>1 DEF WithState

LEMMA GivenBackoff ==
  ASSUME NEW d \in Drivers, NEW n \in Nat, NEW e,
         e = WithBackoff(d, n)
  PROVE  e \in Drivers /\ e.tx = d.tx /\ e.state = d.state /\ e.results = d.results
<1> DEFINE J == Seq(Jobs)
           R == Seq(Results)
<1>1. d \in [state : {"STOPPED", "RECEIVING", "SCANNING", "TRANSMITTING", "FAULT"},
             run : BOOLEAN, cad : BOOLEAN, found : {"none", "CLEAR", "BUSY", "FAILED"},
             tx : J, results : R, backoff : Nat]
  BY DEF Drivers
<1>2. SUFFICES /\ e \in [state : {"STOPPED", "RECEIVING", "SCANNING", "TRANSMITTING", "FAULT"},
                        run : BOOLEAN, cad : BOOLEAN, found : {"none", "CLEAR", "BUSY", "FAILED"},
                        tx : J, results : R, backoff : Nat]
               /\ e.tx = d.tx /\ e.state = d.state /\ e.results = d.results
  BY DEF Drivers
<1> HIDE DEF J, R
<1> QED
  BY <1>1 DEF WithBackoff

\* recover: whatever the driver was doing, it is not transmitting.
LEMMA Recovered ==
  ASSUME Reporting, NEW d \in Drivers, Holds(d), d.state = "TRANSMITTING" => d.tx = <<>>,
         NEW ok \in BOOLEAN, Recover(d, ok),
         UNCHANGED <<adapter, queued, sched, heard, last_frame>>
  PROVE  driver' \in Drivers /\ chip' \in Chips /\ Holds(driver)' /\ OnAir(driver)'
<1>1. PICK state \in {"RECEIVING", "FAULT"} :
        driver' = WithBackoff(WithState(d, state), Backoff)
  <2>1. (IF ok THEN "RECEIVING" ELSE "FAULT") \in {"RECEIVING", "FAULT"}
    OBVIOUS
  <2> QED
    BY <2>1, Zenon DEF Recover, EnterRx, WithState, WithBackoff
<1>2. PICK c : c = WithState(d, state)
  OBVIOUS
<1>3. c \in Drivers /\ c.tx = d.tx /\ c.state = state /\ c.results = d.results
  BY <1>2, GivenState
<1>4. PICK e : e = driver' /\ e = WithBackoff(c, Backoff)
  BY <1>1, <1>2
<1>5. e \in Drivers /\ e.tx = d.tx /\ e.state = state /\ e.results = d.results
  BY RadioConfig, <1>3, <1>4, GivenBackoff
<1>6. Holds(e)
  BY <1>5, HoldsAlike
<1>7. chip' \in Chips
  <2>1. chip \in Chips /\ Resting \in Chips
    BY DEF Reporting, RadioShapes, Resting, Chips
  <2> QED
    BY <2>1 DEF Recover, Reset
<1>8. Holds(driver)'
  BY <1>4, <1>6, StillHolds
<1>9. OnAir(driver)'
  BY <1>4, <1>5 DEF OnAir
<1> QED
  BY <1>4, <1>5, <1>7, <1>8, <1>9

\* begin_tx starts the frame that is wanted, and starts it when its turn is.
LEMMA Started ==
  ASSUME Reporting, NEW d \in Drivers, Holds(d), d.state = "RECEIVING", d.tx # <<>>,
         driver' = [d EXCEPT !.state = "TRANSMITTING"],
         chip' = [doing |-> "tx", frame |-> Head(d.tx).frame, irq |-> "none"],
         StartFrame(Head(d.tx).frame),
         UNCHANGED <<adapter, queued, sched, heard, outcome>>
  PROVE  /\ driver' \in Drivers /\ chip' \in Chips /\ Holds(driver)' /\ OnAir(driver)'
         /\ mishap' = {}
<1>1. adapter.pending = "TX" /\ Underway(d)
  BY DEF Holds, Over
<1>2. Head(d.tx).frame = Wanted
  BY <1>1 DEF Underway
<1>3. queued # <<>> /\ Front \in TxPackets /\ outcome[Front] = "none" /\ mishap = {}
  <2>1. queued # <<>> /\ queued \in Seq(TxPackets) /\ mishap = {}
    BY <1>1 DEF Reporting, RadioShapes, Scheduled, NoStaleFrames
  <2>2. 1 \in DOMAIN queued /\ Front = queued[1]
    BY <2>1, EmptySeq DEF Front
  <2> QED
    BY <2>1, <2>2, HeadTailProperties DEF Front, Reporting, Pending
<1>4. Wanted[1] = Front /\ (Wanted[2] = 2 => last_frame = <<Wanted[1], 1>>)
  <2>1. Wanted[1] = Front /\ (Wanted[2] = 2 => sched = "TX2")
    BY DEF Wanted
  <2> QED
    BY <1>1, <2>1 DEF Underway
<1>5. last_frame' = Wanted /\ mishap' = {}
  BY <1>2, <1>3, <1>4 DEF StartFrame
<1>6. PICK e : e = driver' /\ e = WithState(d, "TRANSMITTING")
  BY DEF WithState
<1>7. e \in Drivers /\ e.tx = d.tx /\ e.state = "TRANSMITTING" /\ e.results = d.results
  BY <1>6, GivenState
<1>8. chip' \in Chips /\ chip'.frame = Wanted /\ chip'.irq = "none"
  <2>1. Wanted \in Frames
    BY <1>3 DEF Wanted, Frames
  <2> QED
    BY <1>2, <2>1 DEF Chips
<1>9. Wanted' = Wanted
  BY DEF Wanted, Front
<1>10. Holds(driver)'
  <2>1. Underway(driver)'
    BY <1>1, <1>6, <1>7, <1>9 DEF Underway
  <2> QED
    BY <1>1, <2>1 DEF Holds
<1>11. OnAir(driver)'
  BY <1>5, <1>6, <1>7, <1>8, <1>9 DEF OnAir
<1> QED
  BY <1>5, <1>6, <1>7, <1>8, <1>10, <1>11

\* begin_cad and begin_tx, the driver being d.
LEMMA Begins ==
  ASSUME Reporting, NEW d \in Drivers, Holds(d), OnAir(d), Begin(d),
         UNCHANGED <<adapter, queued, sched, heard, outcome>>
  PROVE  /\ driver' \in Drivers /\ chip' \in Chips /\ Holds(driver)' /\ OnAir(driver)'
         /\ mishap' = {}
<1>1. mishap = {} /\ chip \in Chips
  BY DEF Reporting, NoStaleFrames, RadioShapes
<1>2. CASE /\ d.state = "RECEIVING" /\ driver' = [d EXCEPT !.state = "SCANNING"]
           /\ chip' = [Resting EXCEPT !.doing = "cad"] /\ UNCHANGED <<last_frame, mishap>>
  <2>1. PICK e : e = driver' /\ e = WithState(d, "SCANNING")
    BY <1>2 DEF WithState
  <2>2. e \in Drivers /\ e.tx = d.tx /\ e.state = "SCANNING" /\ e.results = d.results
    BY <2>1, GivenState
  <2>3. Holds(e)
    BY <1>2, <2>2, HoldsAlike
  <2>4. Holds(driver)'
    BY <1>2, <2>1, <2>3, StillHolds
  <2>5. OnAir(driver)'
    BY <2>1, <2>2 DEF OnAir
  <2>6. chip' \in Chips
    BY <1>2 DEF Resting, Chips
  <2> QED
    BY <1>1, <1>2, <2>1, <2>2, <2>4, <2>5, <2>6
<1>3. CASE /\ d.state = "RECEIVING" /\ UNCHANGED <<last_frame, mishap>>
           /\ \E ok \in BOOLEAN : Recover(FinishCad(d, "FAILED"), ok)
  <2>1. PICK ok \in BOOLEAN : Recover(FinishCad(d, "FAILED"), ok)
    BY <1>3
  <2>2. PICK e : e = FinishCad(d, "FAILED") /\ Recover(e, ok)
    BY <2>1
  <2>3. e \in Drivers /\ e.tx = d.tx /\ e.state = d.state /\ e.results = d.results
    BY <2>2, CadFinished
  <2>4. Holds(e)
    BY <2>3, HoldsAlike
  <2> QED
    BY <1>1, <1>3, <2>2, <2>3, <2>4, Recovered
<1>4. CASE /\ d.state = "RECEIVING" /\ d.tx # <<>>
           /\ driver' = [d EXCEPT !.state = "TRANSMITTING"]
           /\ chip' = [doing |-> "tx", frame |-> Head(d.tx).frame, irq |-> "none"]
           /\ StartFrame(Head(d.tx).frame)
  BY <1>4, Started
<1>5. CASE /\ d.state = "RECEIVING" /\ d.tx # <<>> /\ UNCHANGED <<last_frame, mishap>>
           /\ \E ok \in BOOLEAN : Recover(FinishTx(d, FALSE), ok)
  <2>1. PICK ok \in BOOLEAN : Recover(FinishTx(d, FALSE), ok)
    BY Zenon, <1>5
  <2>2. PICK e : e = FinishTx(d, FALSE) /\ Recover(e, ok)
    BY Zenon, <2>1
  <2>3. e \in Drivers /\ e.tx = <<>> /\ Holds(e)
    BY Zenon, <1>5, <2>2, TxFinished
  <2> QED
    BY Zenon, <1>1, <1>5, <2>2, <2>3, Recovered
<1>6. CASE /\ driver' = [d EXCEPT !.backoff = IF d.backoff > 0 THEN d.backoff - 1 ELSE 0]
           /\ chip' = [chip EXCEPT !.irq = "none"] /\ UNCHANGED <<last_frame, mishap>>
  <2>1. PICK n \in Nat : driver' = WithBackoff(d, n)
    <3>1. d.backoff \in Nat
      BY DEF Drivers
    <3>2. (IF d.backoff > 0 THEN d.backoff - 1 ELSE 0) \in Nat
      BY <3>1
    <3> QED
      BY <1>6, <3>2 DEF WithBackoff
  <2>2. PICK e : e = driver' /\ e = WithBackoff(d, n)
    BY <2>1
  <2>3. e \in Drivers /\ e.tx = d.tx /\ e.state = d.state /\ e.results = d.results
    BY <2>2, GivenBackoff
  <2>4. Holds(e)
    BY <2>3, HoldsAlike
  <2>5. Holds(driver)'
    BY <1>6, <2>2, <2>4, StillHolds
  <2>6. chip' \in Chips /\ chip'.doing = chip.doing /\ chip'.frame = chip.frame /\ chip'.irq = "none"
    BY <1>1, <1>6 DEF Chips
  <2>7. OnAir(driver)'
    <3>1. Wanted' = Wanted
      BY DEF Wanted, Front
    <3> QED
      BY <1>6, <2>2, <2>3, <2>6, <3>1 DEF OnAir
  <2> QED
    BY <1>1, <1>6, <2>2, <2>3, <2>5, <2>6, <2>7
<1> QED
  BY <1>2, <1>3, <1>4, <1>5, <1>6, Zenon DEF Begin

\* What failed is no longer under way.
LEMMA FailedHolds ==
  ASSUME Reporting, NEW e, e = Failed(driver)
  PROVE  e \in Drivers /\ Holds(e) /\ (e.state = "TRANSMITTING" => e.tx = <<>>)
<1>1. driver \in Drivers /\ Holds(driver) /\ OnAir(driver)
  BY DEF Reporting, RadioShapes
<1>2. CASE driver.state = "TRANSMITTING"
  <2>1. driver.tx # <<>>
    BY <1>1, <1>2 DEF OnAir
  <2>2. e = FinishTx(driver, FALSE)
    BY <1>2, <2>1 DEF Failed
  <2> QED
    BY Zenon, <1>1, <2>1, <2>2, TxFinished
<1>3. CASE driver.state = "SCANNING" /\ driver.cad
  <2>1. e = FinishCad(driver, "FAILED")
    BY <1>3 DEF Failed
  <2>2. e \in Drivers /\ e.tx = driver.tx /\ e.state = driver.state /\ e.results = driver.results
    BY <1>1, <2>1, CadFinished
  <2>3. Holds(e)
    BY <1>1, <2>2, HoldsAlike
  <2> QED
    BY <1>3, <2>2, <2>3
<1>4. CASE driver.state # "TRANSMITTING" /\ ~(driver.state = "SCANNING" /\ driver.cad)
  <2>1. e = driver
    BY <1>4 DEF Failed
  <2> QED
    BY <1>1, <1>4, <2>1
<1> QED
  BY <1>2, <1>3, <1>4

\* The driver is back in reception, or failed to get there, with d.
LEMMA Received ==
  ASSUME Reporting, NEW d \in Drivers, Holds(d), d.state = "TRANSMITTING" => d.tx = <<>>,
         UNCHANGED <<adapter, queued, sched, heard, outcome>>,
         \/ Begin(EnterRx(d, TRUE))
         \/ driver' = EnterRx(d, FALSE) /\ chip' = Resting /\ UNCHANGED <<last_frame, mishap>>
  PROVE  /\ driver' \in Drivers /\ chip' \in Chips /\ Holds(driver)' /\ OnAir(driver)'
         /\ mishap' = {}
<1>1. CASE Begin(EnterRx(d, TRUE))
  <2>1. PICK e : e = WithState(d, "RECEIVING") /\ Begin(e)
    BY <1>1 DEF EnterRx, WithState
  <2>2. e \in Drivers /\ e.tx = d.tx /\ e.state = "RECEIVING" /\ e.results = d.results
    BY <2>1, GivenState
  <2>3. Holds(e) /\ OnAir(e)
    <3>1. Holds(e)
      BY <2>2, HoldsAlike
    <3>2. OnAir(e)
      BY <2>2 DEF OnAir
    <3> QED
      BY <3>1, <3>2
  <2> QED
    BY <2>1, <2>2, <2>3, Begins
<1>2. CASE driver' = EnterRx(d, FALSE) /\ chip' = Resting /\ UNCHANGED <<last_frame, mishap>>
  <2>1. PICK e : e = driver' /\ e = WithState(d, "FAULT")
    BY <1>2 DEF EnterRx, WithState
  <2>2. e \in Drivers /\ e.tx = d.tx /\ e.state = "FAULT" /\ e.results = d.results
    BY <2>1, GivenState
  <2>3. Holds(e)
    BY <2>2, HoldsAlike
  <2>4. Holds(driver)'
    BY Zenon, <1>2, <2>1, <2>3, StillHolds
  <2>5. OnAir(driver)'
    BY <2>1, <2>2 DEF OnAir
  <2>6. chip' \in Chips /\ mishap' = {}
    BY <1>2 DEF Resting, Chips, Reporting, NoStaleFrames
  <2> QED
    BY <2>1, <2>2, <2>4, <2>5, <2>6
<1> QED
  BY Zenon, <1>1, <1>2

\* rns_sx1262_radio_poll
LEMMA Polled ==
  ASSUME Reporting, RadioPoll, UNCHANGED <<adapter, queued, sched, heard, outcome>>
  PROVE  /\ driver' \in Drivers /\ chip' \in Chips /\ Holds(driver)' /\ OnAir(driver)'
         /\ mishap' = {}
<1>1. /\ driver \in Drivers /\ Holds(driver) /\ OnAir(driver) /\ mishap = {} /\ chip \in Chips
  BY DEF Reporting, RadioShapes, NoStaleFrames
<1>2. CASE /\ driver.state = "FAULT" /\ driver.backoff > 0
           /\ driver' = [driver EXCEPT !.backoff = driver.backoff - 1]
           /\ UNCHANGED <<chip, last_frame, mishap>>
  <2>1. PICK n \in Nat : n = driver.backoff - 1
    BY <1>1, <1>2 DEF Drivers
  <2>2. PICK e : e = driver' /\ e = WithBackoff(driver, n)
    BY <1>2, <2>1 DEF WithBackoff
  <2>3. e \in Drivers /\ e.tx = driver.tx /\ e.state = driver.state /\ e.results = driver.results
    BY <1>1, <2>2, GivenBackoff
  <2>4. Holds(e)
    BY <1>1, <2>3, HoldsAlike
  <2>5. Holds(driver)'
    BY <1>2, <2>2, <2>4, StillHolds
  <2>6. OnAir(driver)'
    BY <1>2, <2>2, <2>3 DEF OnAir
  <2> QED
    BY <1>1, <1>2, <2>2, <2>3, <2>5, <2>6
<1>3. CASE /\ driver.state = "FAULT" /\ \E ok \in BOOLEAN : Recover(driver, ok)
           /\ UNCHANGED <<last_frame, mishap>>
  BY <1>1, <1>3, Recovered
<1>4. CASE (\E ok \in BOOLEAN : Recover(Failed(driver), ok)) /\ UNCHANGED <<last_frame, mishap>>
  <2>1. PICK ok \in BOOLEAN : Recover(Failed(driver), ok)
    BY <1>4
  <2>2. PICK e : e = Failed(driver) /\ Recover(e, ok)
    BY <2>1
  <2>3. e \in Drivers /\ Holds(e) /\ (e.state = "TRANSMITTING" => e.tx = <<>>)
    BY <2>2, FailedHolds
  <2> QED
    BY <1>1, <1>4, <2>2, <2>3, Recovered
<1>5. CASE /\ driver.state = "SCANNING" /\ chip.irq \in {"CLEAR", "BUSY"}
           /\ \/ Begin(EnterRx(FinishCad(driver, chip.irq), TRUE))
              \/ /\ driver' = EnterRx(FinishCad(driver, chip.irq), FALSE) /\ chip' = Resting
                 /\ UNCHANGED <<last_frame, mishap>>
  <2>1. PICK d : d = FinishCad(driver, chip.irq)
    OBVIOUS
  <2>2. d \in Drivers /\ d.tx = driver.tx /\ d.state = driver.state /\ d.results = driver.results
    BY <1>1, <1>5, <2>1, CadFinished
  <2>3. Holds(d)
    BY <1>1, <2>2, HoldsAlike
  <2> QED
    BY Zenon, <1>5, <2>1, <2>2, <2>3, Received
<1>6. CASE /\ driver.state = "TRANSMITTING" /\ chip.irq = "TX_DONE"
           /\ \/ Begin(EnterRx(FinishTx(driver, TRUE), TRUE))
              \/ /\ driver' = EnterRx(FinishTx(driver, TRUE), FALSE) /\ chip' = Resting
                 /\ UNCHANGED <<last_frame, mishap>>
  <2>1. PICK d : d = FinishTx(driver, TRUE)
    BY Zenon
  <2>2. driver.tx # <<>> /\ Wanted \in heard /\ last_frame = Wanted
    BY <1>1, <1>6 DEF OnAir
  <2>3. d \in Drivers /\ d.tx = <<>> /\ Holds(d)
    BY Zenon, <1>1, <2>1, <2>2, TxFinished
  <2> QED
    BY Zenon, <1>6, <2>1, <2>3, Received
<1>7. CASE Begin(driver)
  BY <1>1, <1>7, Begins
<1> QED
  BY <1>2, <1>3, <1>4, <1>5, <1>6, <1>7, Zenon DEF RadioPoll

LEMMA DriverReporting ==
  ASSUME Reporting, DriverPoll
  PROVE  Reporting'
<1>1. /\ RadioPoll
      /\ UNCHANGED <<online, queued, tries, sched, token, spent, adapter, next_tx_id, heard, outcome>>
  BY DEF DriverPoll
<1>2. /\ driver' \in Drivers /\ chip' \in Chips /\ Holds(driver)' /\ OnAir(driver)'
      /\ mishap' = {}
  BY <1>1, Polled
<1>3. RadioShapes'
  BY <1>1, <1>2 DEF Reporting, RadioShapes
<1>4. Pending' /\ Scheduled'
  BY <1>1 DEF Reporting, Pending, Scheduled
<1> QED
  BY <1>1, <1>2, <1>3, <1>4 DEF Reporting, SentIsTrue, NoStaleFrames, Front

\* The chip has sent the frame it was given.
LEMMA ChipReporting ==
  ASSUME Reporting, ChipDone
  PROVE  Reporting'
<1>1. /\ chip.doing # "rx" /\ chip \in Chips
      /\ UNCHANGED <<online, queued, tries, sched, token, spent, adapter, driver, next_tx_id,
                     last_frame, outcome, mishap>>
  BY DEF ChipDone, Reporting, RadioShapes
<1>2. /\ chip' \in Chips /\ chip'.doing = "rx" /\ heard \subseteq heard'
      /\ chip'.irq = "TX_DONE" => chip.doing = "tx" /\ chip.frame \in heard'
  <2>1. CASE UNCHANGED heard /\ \E found \in {"CLEAR", "BUSY"} : chip' = [Resting EXCEPT !.irq = found]
    BY <2>1 DEF Resting, Chips
  <2>2. CASE /\ chip.doing = "tx" /\ heard' = heard \cup {chip.frame}
             /\ chip' = [Resting EXCEPT !.irq = "TX_DONE"]
    BY <2>2 DEF Resting, Chips
  <2>3. CASE chip' = [Resting EXCEPT !.irq = "TIMEOUT"] /\ UNCHANGED heard
    BY <2>3 DEF Resting, Chips
  <2> QED
    BY <2>1, <2>2, <2>3 DEF ChipDone
<1>3. Wanted' = Wanted /\ Front' = Front
  BY <1>1 DEF Wanted, Front
<1>4. RadioShapes'
  BY <1>1, <1>2 DEF Reporting, RadioShapes
<1>5. Pending' /\ Scheduled'
  BY <1>1 DEF Reporting, Pending, Scheduled
<1>6. Holds(driver)'
  BY <1>1, <1>2, <1>3, Zenon DEF Reporting, Holds, Underway, Over
<1>7. OnAir(driver)'
  BY <1>1, <1>2, <1>3 DEF Reporting, OnAir
<1>8. SentIsTrue' /\ (sched' = "TX2" => <<Front, 1>>' \in heard')
  BY <1>1, <1>2, <1>3 DEF Reporting, SentIsTrue
<1> QED
  BY <1>1, <1>4, <1>5, <1>6, <1>7, <1>8 DEF Reporting, NoStaleFrames

-----------------------------------------------------------------------------
LEMMA ReportingStep ==
  ASSUME Reporting, [RadioNext]_radioVars
  PROVE  Reporting'
<1>1. CASE RadioStart
  BY <1>1, StartReporting
<1>2. CASE SchedulerStop
  BY <1>2, StopReporting
<1>3. CASE \E p \in TxPackets : RadioSend(p)
  BY <1>3, SendReporting
<1>4. CASE Refill
  BY <1>4, OtherwiseSame, Zenon DEF Refill
<1>5. CASE \E l \in BOOLEAN : PollBegin(l)
  <2>1. UNCHANGED <<online, queued, tries, sched, token, spent, adapter, driverVars, outcome>>
    BY <1>5 DEF PollBegin
  <2>2. spent' \in BOOLEAN
    BY <2>1 DEF Reporting, RadioShapes
  <2> QED
    BY <2>1, <2>2, OtherwiseSame
<1>6. CASE CadEvent
  BY <1>6, CadReporting
<1>7. CASE TxEvent
  BY <1>7, TxReporting
<1>8. CASE NoEvent
  BY <1>8, NoEventReporting
<1>9. CASE EventFails
  BY <1>9, FailedEventReporting
<1>10. CASE PollLate
  BY <1>10, GivenUp DEF PollLate
<1>11. CASE PollContend
  BY <1>11, ContendReporting DEF PollContend, PollEnd
<1>12. CASE PollListen
  BY <1>12, ListenReporting DEF PollListen, PollEnd
<1>13. CASE PollRest
  <2>1. UNCHANGED <<online, queued, tries, sched, token, spent, adapter, driverVars, outcome>>
    BY <1>13 DEF PollRest, PollEnd, Rest, PollEndOffline, driverVars
  <2>2. spent' \in BOOLEAN
    BY <2>1 DEF Reporting, RadioShapes
  <2> QED
    BY <2>1, <2>2, OtherwiseSame
<1>14. CASE Maintain
  <2>1. online /\ UNCHANGED <<online, spent, next_tx_id, chip, heard, last_frame, mishap>>
    BY <1>14 DEF Maintain
  <2> QED
    BY <1>14, <2>1, ContendReporting, ListenReporting DEF Maintain
<1>15. CASE DriverPoll
  BY <1>15, DriverReporting
<1>16. CASE ChipDone
  BY <1>16, ChipReporting
<1>17. CASE UNCHANGED radioVars
  <2>1. UNCHANGED <<online, queued, tries, sched, token, spent, adapter, driverVars, outcome>>
    BY <1>17 DEF radioVars, driverVars
  <2>2. spent' \in BOOLEAN
    BY <2>1 DEF Reporting, RadioShapes
  <2> QED
    BY <2>1, <2>2, OtherwiseSame
<1> QED
  BY <1>1, <1>2, <1>3, <1>4, <1>5, <1>6, <1>7, <1>8, <1>9, <1>10, <1>11, <1>12, <1>13, <1>14,
     <1>15, <1>16, <1>17 DEF RadioNext

(***************************************************************************)
(* What the scheduler of the radio reports is so, whatever the queue holds *)
(* and however commands fail, completions come late and tokens wrap: a     *)
(* packet reported as sent was heard to its last frame, nothing is put on  *)
(* the air after it was reported, and a second frame follows the first     *)
(* (sx1262_interface.c, heltec_reticulum_radio.c, sx1262_radio.c).         *)
(***************************************************************************)
THEOREM ReportsAreTrue == RadioSpec => []RadioReportsTrue
<1>1. Reporting => RadioReportsTrue
  <2> SUFFICES ASSUME Reporting PROVE RadioReportsTrue
    OBVIOUS
  <2>1. RadioTypeOK
    BY DEF Reporting, RadioShapes, RadioTypeOK, Drivers, Chips
  <2> QED
    BY <2>1 DEF Reporting, RadioReportsTrue
<1> QED
  BY <1>1, ReportingInit, ReportingStep, PTL DEF RadioSpec
=============================================================================
