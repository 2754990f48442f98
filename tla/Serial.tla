------------------------------- MODULE Serial --------------------------------
(***************************************************************************)
(* The serial drivers: a KISS modem (src/interfaces/kiss.c) and an RNode   *)
(* radio (src/interfaces/rnode.c) behind a non-blocking tty.  Both own a   *)
(* transmit queue, one encoded frame being written in pieces, a KISS       *)
(* decoder for what the device says, flow control, and a reconnect timer;  *)
(* the RNode driver also detects the device and configures it before use.  *)
(*                                                                         *)
(* The device is external: it is unplugged and plugged in again at any     *)
(* moment, losing its state, answers commands with reports that may be     *)
(* lost, and may report a hardware error.  Its decoder knows nothing of    *)
(* the port being closed and opened again.  An open descriptor belongs to  *)
(* one plugging; after it, reads and writes fail.  Bytes a write() accepts *)
(* reach the device's own decoder.                                         *)
(*                                                                         *)
(* One letter stands for a group of commands: "q" asks an RNode what it is *)
(* (DETECT and FW_VERSION), "Q" the rest of that request (PLATFORM, MCU),  *)
(* "c" sets parameters, "D" carries data; from the device "q" and "c" are  *)
(* reports, "u" a firmware version that is too old, "x" a configuration    *)
(* report that does not match, "r" READY, "!" an error.                    *)
(***************************************************************************)
EXTENDS Framing

LOCAL INSTANCE SequencesExt

CONSTANTS SerialPackets,    \* packets the node sends, each at most once
          BytesOf,          \* a packet's bytes
          FlowChoices,      \* values of options.flow_control
          QueueDepth,       \* KISS_QUEUE_DEPTH, RNODE_QUEUE_DEPTH
          SetupFrames,      \* KISS parameter commands
          Delay,            \* configure, detect, validation and reconnect time
          FlowTimeout,      \* KISS_FLOW_TIMEOUT
          MaxPluggings, MaxLost     \* bounds: pluggings; lost, wrong and error reports

VARIABLES port,       \* the driver's endpoint
          device,     \* the device
          inbound,    \* frames the device said and the host has not read
          unsent,     \* packets the node has not asked to send yet
          sent,       \* packets counted as sent, in order
          aired,      \* packets the device received in full, in order
          lost_reports

serialVars == <<port, device, inbound, unsent, sent, aired, lost_reports>>

Letters == {"D", "q", "Q", "c", "x", "r"}
States == {"down", "starting", "detecting", "configuring", "up"}

TypeOK ==
    /\ port.kind \in {"kiss", "rnode"}
    /\ port.flow_control \in BOOLEAN
    /\ port.fd \in 0..MaxPluggings
    /\ port.state \in States
    /\ port.timer \in 0..Delay /\ port.deadline \in 0..Delay + 1
    /\ port.index \in 0..SetupFrames
    /\ port.packet \in BOOLEAN /\ port.flow_ready \in BOOLEAN
    /\ port.flow_wait \in 0..FlowTimeout
    /\ port.seen \subseteq {"q", "u", "c"}
    /\ Len(port.queue) <= QueueDepth
    /\ device.plugged \in 0..MaxPluggings
    /\ device.decoder \in Decoder(Letters, 2)
    /\ device.ours \in BOOLEAN
    /\ device.asked \subseteq {"q", "c", "r"}
    /\ Len(inbound) <= 2
    /\ unsent \subseteq SerialPackets
    /\ lost_reports \in 0..MaxLost

\* A device out of its socket, or just plugged in.
Blank(plugging, last) ==
    [plugged |-> plugging, last |-> last, decoder |-> FreshDecoder,
     ours |-> FALSE, asked |-> {}, got |-> << >>]

\* The endpoint just created on a device that was not there.
NewPort(kind, flow) ==
    [kind |-> kind, flow_control |-> flow, fd |-> 0, state |-> "down",
     timer |-> 0, deadline |-> 0, index |-> 0, output |-> << >>,
     partial |-> FALSE, packet |-> FALSE, flow_wait |-> 0,
     flow_ready |-> kind = "kiss" /\ ~flow, seen |-> {}, queue |-> << >>,
     room |-> 0, wrote |-> << >>, done |-> << >>, failed |-> FALSE]

Init ==
    /\ \E kind \in {"kiss", "rnode"}, flow \in FlowChoices :
         port = NewPort(kind, flow)
    /\ device = Blank(0, 0)
    /\ inbound = << >>
    /\ unsent = SerialPackets
    /\ sent = << >>
    /\ aired = << >>
    /\ lost_reports = 0

Alive == port.fd # 0 /\ port.fd = device.plugged

-----------------------------------------------------------------------------
(* The driver's steps, as functions of the endpoint.  While a poll runs,   *)
(* "room" is what the tty still takes, "wrote" the bytes written so far,   *)
(* "done" the packets completed, and "failed" says that a step failed.     *)

\* reset_reports.
Forgotten(p) == [p EXCEPT !.seen = {}]

\* What both mark_down do: close, drop the frame being written but not its
\* packet, and come back later.
Closed_KeepsOutput(p) ==
    [p EXCEPT !.fd = 0, !.state = "down", !.timer = Delay, !.failed = FALSE]

Closed(p) ==
    [p EXCEPT !.fd = 0, !.state = "down", !.timer = Delay, !.failed = FALSE,
              !.output = << >>, !.partial = FALSE, !.packet = FALSE]

\* mark_down of kiss.c and of rnode.c, which forgets what the device reported.
KissMarkDown(p) ==
    [Closed(p) EXCEPT !.index = 0, !.flow_ready = ~p.flow_control]

RnodeMarkDown(p) ==
    Forgotten([Closed(p) EXCEPT !.deadline = 0, !.flow_ready = FALSE])

\* open_serial of each driver.
KissOpened(p, plugging) ==
    [p EXCEPT !.fd = plugging, !.timer = Delay, !.flow_wait = FlowTimeout,
              !.state = "configuring"]

RnodeOpened(p, plugging) ==
    Forgotten([p EXCEPT !.fd = plugging, !.timer = Delay, !.state = "starting"])

\* flush_output: as much of the buffer as the tty takes.
Flushed(p) ==
    LET n == IF Len(p.output) < p.room THEN Len(p.output) ELSE p.room
        rest == SubSeq(p.output, n + 1, Len(p.output))
    IN  [p EXCEPT !.wrote = @ \o SubSeq(p.output, 1, n), !.room = @ - n,
                  !.output = rest,
                  !.partial = rest # << >> /\ (p.partial \/ n > 0)]

\* One turn of configure_device: the next parameter command, or done.
ConfigureOnce(p, i) ==
    LET f == Flushed(p) IN
    CASE f.output # << >> -> f
      [] f.output = << >> /\ f.index < SetupFrames ->
            Flushed([f EXCEPT !.output = KissEncode("c", << >>),
                              !.index = @ + 1])
      [] OTHER -> [f EXCEPT !.state = "up", !.flow_ready = TRUE]

ConfigureDevice(p) ==
    FoldLeft(ConfigureOnce, p, [i \in 1..SetupFrames + 1 |-> i])

\* The head packet has been written in full.
Completed(p) ==
    [p EXCEPT !.done = Append(@, Head(p.queue)), !.queue = Tail(@),
              !.packet = FALSE, !.flow_ready = @ /\ ~p.flow_control,
              !.flow_wait = FlowTimeout]

\* The next packet of the queue, if the driver may send one.
StartPacket(p, allowed) ==
    LET started == Flushed([p EXCEPT !.output =
                                KissEncode("D", BytesOf[Head(p.queue)]),
                            !.packet = TRUE])
    IN  IF p.queue = << >> \/ ~p.flow_ready \/ ~allowed THEN p
        ELSE IF started.output = << >> THEN Completed(started) ELSE started

\* poll_write.
KissTransmitted(p) ==
    LET f == Flushed(p)
    IN  CASE f.output # << >> -> f
          [] f.output = << >> /\ f.packet -> Completed(f)
          [] OTHER -> StartPacket(f, TRUE)

\* poll_transmit: only the RNode driver waits until it is up.
RnodeTransmitted(p) ==
    LET f == Flushed(p)
    IN  CASE f.output # << >> -> f
          [] f.output = << >> /\ f.packet -> Completed(f)
          [] OTHER -> StartPacket(f, f.state = "up")

\* receive_frame of kiss.c, for one report.
KissHeard(p, report) ==
    IF report = "r" THEN [p EXCEPT !.flow_ready = TRUE] ELSE p

\* handle_command of rnode.c.  An error other than low memory or a modem
\* timeout ends the poll.
RnodeHeard(p, report) ==
    CASE p.failed -> p
      [] ~p.failed /\ report = "!" -> [p EXCEPT !.failed = TRUE]
      [] ~p.failed /\ report = "r" -> [p EXCEPT !.flow_ready = TRUE]
      [] ~p.failed /\ report = "x" -> [p EXCEPT !.seen = @ \ {"c"}]
      [] ~p.failed /\ report = "u" -> [p EXCEPT !.seen = @ \cup {"q", "u"}]
      [] OTHER -> [p EXCEPT !.seen = (@ \ (IF report = "q" THEN {"u"} ELSE {})) \cup {report}]

\* append_frame refuses while a frame is half written.
Appended(p, frames, state) ==
    IF p.partial THEN [p EXCEPT !.failed = TRUE]
    ELSE [p EXCEPT !.output = @ \o frames, !.state = state, !.deadline = 0]

\* queue_detect asks the device what it is, queue_configuration sets it up.
QueueDetect(p) ==
    Appended(p, KissEncode("q", << >>) \o KissEncode("Q", << >>), "detecting")

QueueConfiguration(p) == Appended(p, KissEncode("c", << >>), "configuring")

\* configuration_matches: bandwidth, power, spreading factor and radio state were
\* reported since the port was opened, as they were set, and the frequency too
\* if it was reported.  The coding rate and the airtime locks are not compared.
ConfigurationMatches(p) == "c" \in p.seen

\* advance_state of the RNode driver.  A deadline of 1 is over; 0 is unset and
\* is set once everything asked has been written.
Advanced(p) ==
    LET timed == IF p.output = << >> /\ p.deadline = 0
                 THEN [p EXCEPT !.deadline = Delay + 1] ELSE p
    IN  CASE p.failed -> p
          [] ~p.failed /\ p.state = "starting" ->
                IF p.timer > 0 THEN p
                ELSE QueueDetect(p)
          [] ~p.failed /\ p.state = "detecting" ->
                IF "q" \in p.seen
                THEN IF "u" \in p.seen THEN [timed EXCEPT !.failed = TRUE]
                     ELSE QueueConfiguration(timed)
                ELSE [timed EXCEPT !.failed = timed.deadline = 1]
          [] ~p.failed /\ p.state = "configuring" ->
                IF ConfigurationMatches(p)
                THEN [timed EXCEPT !.state = "up", !.flow_ready = TRUE,
                                   !.deadline = 0]
                ELSE [timed EXCEPT !.failed = timed.deadline = 1]
          [] OTHER -> p

-----------------------------------------------------------------------------
\* The device takes the bytes written, with the same decoder rules.
DeviceStep(d, b) ==
    LET completes == b = "F" /\ KissCompletes(d.decoder)
        command == d.decoder.command
    IN  [d EXCEPT
            !.decoder = KissFeed(@, b, 2),
            !.ours = @ \/ (completes /\ command = "c"),
            !.got = IF completes /\ command = "D"
                    THEN Append(@, d.decoder.buffer) ELSE @,
            !.asked = IF ~completes THEN @
                      ELSE @ \cup (CASE command = "q" -> {"q"}
                                     [] command = "c" -> {"c"}
                                     [] command = "D" -> {"r"}
                                     [] OTHER -> {})]

-----------------------------------------------------------------------------
(* rns_kiss_endpoint_poll: configure, apply the flow timeout, read, write. *)
KissPolled(p, reports) ==
    LET configured == IF p.state = "configuring" /\ p.timer = 0
                      THEN ConfigureDevice(p) ELSE p
        unlocked == [configured EXCEPT !.flow_ready =
                        @ \/ (p.flow_control /\ p.flow_wait = 0)]
    IN  KissTransmitted(FoldLeft(KissHeard, unlocked, reports))

(* rns_rnode_endpoint_poll: read, advance, transmit, advance.              *)
RnodePolled(p, reports) ==
    LET first == Advanced(FoldLeft(RnodeHeard, p, reports))
    IN  IF first.failed THEN first ELSE Advanced(RnodeTransmitted(first))

\* What a poll of an open port leaves, before mark_down.
Polled(p, reports) ==
    IF p.kind = "kiss" THEN KissPolled(p, reports) ELSE RnodePolled(p, reports)

MarkDown(p) == IF p.kind = "kiss" THEN KissMarkDown(p) ELSE RnodeMarkDown(p)

Opened(p, plugging) ==
    IF p.kind = "kiss" THEN KissOpened(p, plugging) ELSE RnodeOpened(p, plugging)

\* The port between two polls.
AtRest(p) == [p EXCEPT !.room = 0, !.wrote = << >>, !.done = << >>]

\* A poll of a port whose device is gone, or is not there to be opened.
PollFails ==
    /\ ~Alive
    /\ port.fd # 0 \/ (port.timer = 0 /\ device.plugged = 0)
    /\ port' = IF port.fd # 0 THEN MarkDown(port)
               ELSE [port EXCEPT !.timer = Delay]
    /\ UNCHANGED <<device, inbound, unsent, sent, aired, lost_reports>>

\* A poll of a port that is, or can be, open: the reports that have come are
\* read, and the tty takes up to room bytes.
Poll ==
    \E room \in {0, 2, 8} :
        LET open == IF port.fd # 0 THEN port ELSE Opened(port, device.plugged)
            q == Polled([open EXCEPT !.room = room], inbound)
            d == FoldLeft(DeviceStep, device, q.wrote)
        IN  /\ Alive \/ (port.fd = 0 /\ port.timer = 0 /\ device.plugged # 0)
            /\ port' = AtRest(IF q.failed THEN MarkDown(q) ELSE q)
            /\ device' = [d EXCEPT !.got = << >>]
            /\ aired' = aired \o d.got
            /\ sent' = sent \o [i \in 1..Len(q.done) |-> BytesOf[q.done[i]]]
            /\ inbound' = << >>
            /\ UNCHANGED <<unsent, lost_reports>>

\* poll_kiss and poll_rnode of the runtime.
PollKiss == port.kind = "kiss" /\ Poll
PollRnode == port.kind = "rnode" /\ Poll

\* The runtime sends a packet while the interface is up: the driver queues it,
\* or refuses it when the queue is full.
Queued(m) ==
    /\ port.state = "up"
    /\ unsent' = unsent \ {m}
    /\ port' = IF Len(port.queue) = QueueDepth THEN port
               ELSE [port EXCEPT !.queue = Append(@, m)]
    /\ UNCHANGED <<device, inbound, sent, aired, lost_reports>>

KissSend == port.kind = "kiss" /\ \E m \in unsent : Queued(m)
RnodeSend == port.kind = "rnode" /\ \E m \in unsent : Queued(m)

\* The device answers, wrongly, or not at all.
Report ==
    \E r \in device.asked :
        /\ Len(inbound) < 2
        /\ device' = [device EXCEPT !.asked = @ \ {r}]
        /\ \/ inbound' = Append(inbound, r) /\ UNCHANGED lost_reports
           \/ /\ lost_reports < MaxLost
              /\ lost_reports' = lost_reports + 1
              /\ inbound' \in {inbound} \cup
                   {Append(inbound, w) : w \in CASE r = "q" -> {"u"}
                                                 [] r = "c" -> {"x"}
                                                 [] r = "r" -> {}}
        /\ UNCHANGED <<port, unsent, sent, aired>>

\* The device reports an error that the RNode driver cannot ignore.
Complain ==
    /\ device.plugged # 0
    /\ Len(inbound) < 2
    /\ lost_reports < MaxLost
    /\ lost_reports' = lost_reports + 1
    /\ inbound' = Append(inbound, "!")
    /\ UNCHANGED <<port, device, unsent, sent, aired>>

PlugIn ==
    /\ device.plugged = 0
    /\ device.last < MaxPluggings
    /\ device' = Blank(device.last + 1, device.last + 1)
    /\ inbound' = << >>
    /\ UNCHANGED <<port, unsent, sent, aired, lost_reports>>

\* The last plugging lasts.
Unplug ==
    /\ device.plugged # 0
    /\ device.last < MaxPluggings
    /\ device' = Blank(0, device.last)
    /\ inbound' = << >>
    /\ UNCHANGED <<port, unsent, sent, aired, lost_reports>>

Tick ==
    LET q == [port EXCEPT !.timer = IF @ = 0 THEN 0 ELSE @ - 1,
                          !.deadline = IF @ < 2 THEN @ ELSE @ - 1,
                          !.flow_wait = IF @ = 0 THEN 0 ELSE @ - 1]
    IN  /\ q # port
        /\ port' = q
        /\ UNCHANGED <<device, inbound, unsent, sent, aired, lost_reports>>

Next ==
    \/ PollKiss
    \/ PollRnode
    \/ PollFails
    \/ KissSend
    \/ RnodeSend
    \/ Report
    \/ Complain
    \/ PlugIn
    \/ Unplug
    \/ Tick

Spec == Init /\ [][Next]_serialVars

-----------------------------------------------------------------------------
\* The packets of a sequence, a repeated one counted once.
Once(packets) ==
    LET firsts == SelectSeq([i \in 1..Len(packets) |-> i],
                            LAMBDA i : i = 1 \/ packets[i] # packets[i - 1])
    IN  [i \in 1..Len(firsts) |-> packets[firsts[i]]]

\* What the device received in full is what was counted as sent, whole and in
\* order, whatever pieces it was written in and whenever the device was pulled
\* out; only the packet at the head of the queue may be ahead of the count,
\* and may come again after a reconnection (flush_output, poll_write,
\* poll_transmit and mark_down).  An error that a device reports while a frame
\* is half written is the one thing that cuts a packet short: the port is closed,
\* and the first delimiter of the next session ends the frame in the device.
SentWhole ==
    LET packets == {BytesOf[m] : m \in SerialPackets}
        whole == SelectSeq(aired, LAMBDA b : b \in packets)
    IN  /\ \/ Once(whole) = sent
           \/ /\ port.queue # << >>
              /\ Once(whole) = Append(sent, BytesOf[Head(port.queue)])
        /\ Len(aired) - Len(whole) <= lost_reports
        /\ \A i \in 1..Len(aired) : \E b \in packets : IsPrefix(aired[i], b)

\* An RNode interface that is up drives a device that took our parameters,
\* also after the device was swapped between two polls (advance_state,
\* configuration_matches and reset_reports).
UpIsConfigured ==
    port.kind = "rnode" /\ port.state = "up" /\ Alive => device.ours

\* Once its timers have run out, a poll of a port with a queue gets a packet
\* out if the tty takes it, although READY reports were lost, in the middle of
\* a reconfiguration or of a torn write.  An RNode with flow control waits for
\* READY for ever and is left out (rns_kiss_endpoint_poll, poll_write and
\* poll_transmit).
NeverStuck ==
    /\ Alive
    /\ port.queue # << >>
    /\ port.timer = 0
    /\ port.flow_wait = 0
    /\ port.kind = "kiss" \/ (port.state = "up" /\ ~port.flow_control)
    => Polled([port EXCEPT !.room = 100], << >>).done # << >>
=============================================================================
