------------------------------- MODULE Airtime -------------------------------
(***************************************************************************)
(* The duty cycle of the radio (sx1262_interface.c): airtime is reserved   *)
(* in buckets of a minute, kept in a ring, and a packet waits until what   *)
(* the last hour holds leaves room for it.  Times are in units of which a  *)
(* minute has Minute; a frame of n units is on the air for n units.        *)
(*                                                                         *)
(* Also the two computations of a frame's airtime, in the scheduler and in *)
(* the driver (sx1262_radio.c), over the settings of a modem.              *)
(***************************************************************************)
EXTENDS Integers, Sequences, FiniteSets, FiniteSetsExt

CONSTANTS
  Minute, Hour,        \* units in a minute, minutes in an hour (60)
  Storage,             \* buckets of the ring (2 * (Hour + 1) + 1)
  Limit,               \* airtime allowed in an hour, in units
  LastTime,            \* bound on the time that is explored
  Modems, Lengths      \* settings and frame lengths that are compared

VARIABLES
  clock, buckets,
  silent_until,        \* the end of the last transmission
  aired,               \* the units of time in which the radio sent
  modem, frame_length

dutyVars == <<clock, buckets, silent_until, aired, modem, frame_length>>

Empty == [minute |-> 0, used |-> 0, valid |-> FALSE]
NoModem == [sf |-> 0]

TypeOK == \A i \in 0 .. Storage - 1 : buckets[i].used \in 0 .. Minute

----------------------------------------------------------------------------
(* The accounting. *)

Counts_OffByOne(b, minute) ==
  b.valid /\ ((b.minute > minute /\ b.minute - minute <= Hour + 1)
              \/ (minute >= b.minute /\ minute - b.minute < Hour))
Counts(b, minute) ==
  b.valid /\ ((b.minute > minute /\ b.minute - minute <= Hour + 1)
              \/ (minute >= b.minute /\ minute - b.minute <= Hour))

(* rolling_airtime *)
Rolling(now) ==
  MapThenSumSet(LAMBDA i : IF Counts(buckets[i], now \div Minute) THEN buckets[i].used ELSE 0,
                0 .. Storage - 1)

(* duty_available *)
Available(now, airtime) == airtime <= Limit /\ Rolling(now) <= Limit - airtime

(* reserve_airtime: the minutes from now on are filled one after the other. *)
Slot(minute) == minute % Storage
Portion(minute, now, airtime) ==
  Cardinality({u \in now .. now + airtime - 1 : u \div Minute = minute})
Reserved(now, airtime) ==
  [i \in 0 .. Storage - 1 |->
     LET minutes == {m \in (now \div Minute) .. ((now + airtime - 1) \div Minute) : Slot(m) = i}
     IN IF minutes = {} THEN buckets[i]
        ELSE LET m == CHOOSE m \in minutes : TRUE
                 kept == IF buckets[i].valid /\ buckets[i].minute = m THEN buckets[i].used ELSE 0
             IN [minute |-> m, used |-> kept + Portion(m, now, airtime), valid |-> TRUE]]

Init ==
  /\ clock = 0 /\ buckets = [i \in 0 .. Storage - 1 |-> Empty] /\ silent_until = 0 /\ aired = {}
  /\ \/ modem = NoModem /\ frame_length = 0
     \/ modem \in Modems /\ frame_length \in Lengths

(* begin_first_frame: the frames of the packet take airtime units. *)
Begin(airtime) ==
  /\ clock >= silent_until /\ clock + airtime <= LastTime /\ Available(clock, airtime)
  /\ buckets' = Reserved(clock, airtime)
  /\ aired' = aired \cup (clock .. clock + airtime - 1) /\ silent_until' = clock + airtime
  /\ UNCHANGED <<clock, modem, frame_length>>

(* What left the last two hours is forgotten. *)
Pass ==
  /\ clock < LastTime /\ clock' = clock + 1
  /\ aired' = {u \in aired : u + 2 * Hour * Minute > clock}
  /\ UNCHANGED <<buckets, silent_until, modem, frame_length>>

Next == modem = NoModem /\ (Pass \/ \E airtime \in 1 .. Limit : Begin(airtime))

Spec == Init /\ [][Next]_dutyVars

----------------------------------------------------------------------------
(* A modem's settings: spreading factor sf, bandwidth bw in hertz, coding rate
   denominator cr, preamble, whether a checksum is sent; headers are explicit. *)

CeilDiv(a, b) == (a + b - 1) \div b
AtLeastZero(n) == IF n > 0 THEN n ELSE 0

(* Symbols longer than 16 ms: 2^sf * 10^6 >= bw * 16000, in units of 1000 / s. *)
LowRate(m) == 2 ^ m.sf * 1000 >= (IF m.bw = 41700 THEN 41667 ELSE m.bw) * 16

(* rns_sx1262_airtime_us, in quarters of a symbol *)
SchedulerQuarters(m, n) ==
  LET bits == AtLeastZero(n * 8 - 4 * m.sf + (IF m.crc THEN 16 ELSE 0) + 20 + (IF m.sf > 6 THEN 8 ELSE 0))
      per == 4 * (IF m.sf > 6 /\ LowRate(m) THEN m.sf - 2 ELSE m.sf)
      payload == 8 + CeilDiv(bits, per) * m.cr
  IN (IF m.sf <= 6 /\ m.preamble < 12 THEN 12 ELSE m.preamble) * 4 + 17 + payload * 4
     + (IF m.sf <= 6 THEN 8 ELSE 0)

(* rns_sx1262_lora_airtime_ms, likewise *)
DriverQuarters(m, n) ==
  LET bits == AtLeastZero(n * 8 + (IF m.crc THEN 16 ELSE 0) - 4 * m.sf + 20 + (IF m.sf > 6 THEN 8 ELSE 0))
      per == 4 * (IF m.sf > 6 /\ LowRate(m) THEN m.sf - 2 ELSE m.sf)
      symbols == CeilDiv(bits, per) * m.cr + m.preamble + 12 + (IF m.sf <= 6 THEN 2 ELSE 0)
  IN 4 * symbols + 1

(* valid_config of the scheduler *)
ValidModem(m) ==
  /\ m.sf \in 5 .. 12 /\ (m.sf > 6 \/ m.preamble >= 12) /\ m.cr \in 5 .. 8 /\ m.preamble # 0
  /\ m.bw \in {7800, 10400, 15600, 20800, 31250, 41700, 62500, 125000, 250000, 500000}

----------------------------------------------------------------------------
(***************************************************************************)
(* In no hour does the radio send for longer than the duty cycle allows,   *)
(* wherever the hour begins: the buckets of the last 61 minutes and those  *)
(* reserved ahead never hide airtime, and the ring never overwrites a      *)
(* bucket that still counts.                                               *)
(***************************************************************************)
DutyHeld ==
  \A start \in aired : Cardinality({u \in aired : start <= u /\ u < start + Hour * Minute}) <= Limit

(***************************************************************************)
(* The scheduler and the driver compute the same airtime, "so PHY and      *)
(* scheduler deadlines agree" (sx1262_radio.c).                            *)
(***************************************************************************)
AirtimesAgree ==
  modem # NoModem /\ ValidModem(modem)
    => SchedulerQuarters(modem, frame_length) = DriverQuarters(modem, frame_length)
=============================================================================
