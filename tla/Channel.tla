------------------------------ MODULE Channel ------------------------------
(***************************************************************************)
(* One direction of a Reticulum channel (link/channel.c): the transmit     *)
(* half of one endpoint, the receive half of its peer, and between them a  *)
(* link that loses, duplicates, delays and reorders envelopes.             *)
(*                                                                         *)
(* The n-th message handed to rns_channel_send is the number n; on the     *)
(* wire it only carries n % SeqMod.  The numbers are what the properties   *)
(* compare: no guard of the code reads them.                               *)
(***************************************************************************)
EXTENDS Integers, Sequences, FiniteSets

CONSTANTS
  SeqMod,         \* size of the uint16 sequence space (65536)
  CountMod,       \* size of the uint8 success counter (256)
  Slots,          \* RNS_CHANNEL_MAX_WINDOW, slots of each array (32)
  InitialWindow, MaxWindow, MaxRetries, RetryTimeout,  \* rns_channel_config_t
  Retention,      \* how many sends the two ends may be apart (half the space)
  MaxSends,       \* bound: messages handed to the channel
  MaxLosses,      \* bound: transmissions the link loses
  MaxRefusals     \* bound: receive callbacks that return an error

(***************************************************************************)
(* rns_channel_init's checks, and the distance up to which its modular      *)
(* comparison is meant: "callers never retain a full half-space".          *)
(***************************************************************************)
ASSUME ChannelConfig ==
  /\ SeqMod \in Nat \ {0} /\ CountMod \in Nat \ {0} /\ Slots \in Nat
  /\ InitialWindow \in Nat \ {0} /\ MaxWindow \in Nat
  /\ InitialWindow <= MaxWindow /\ MaxWindow <= Slots /\ MaxWindow < CountMod
  /\ MaxRetries \in Nat /\ RetryTimeout \in Nat \ {0}
  /\ MaxSends \in Nat /\ MaxLosses \in Nat /\ MaxRefusals \in Nat

ASSUME BoundedRetention ==
  Retention \in Nat /\ 2 * MaxWindow <= Retention /\ 2 * Retention <= SeqMod

VARIABLES
  next_sequence, window, success_count,
  transmit,            \* used transmit slots
  expected_sequence,
  receive,             \* used receive slots: sequence -> buffered message
  net,                 \* envelopes some copy of which may still arrive
  acks,                \* link proofs for envelopes the receiver accepted
  sent,                \* messages handed to the channel so far
  delivered,           \* messages given to the receive callback, in order
  confirmed,           \* DELIVERED events at the sender
  abandoned,           \* TIMEOUT events at the sender
  lapse,               \* history: how the ends first came too far apart
  losses, refusals     \* consumed budgets

senderVars == <<next_sequence, window, success_count, transmit, sent, confirmed,
                abandoned, lapse>>
receiverVars == <<expected_sequence, receive, delivered, refusals>>
vars == <<senderVars, receiverVars, net, acks, losses>>

Sequences == 0 .. SeqMod - 1
Envelope == [seq : Sequences, msg : Nat]
Slot == [seq : Sequences, msg : Nat, retries : 0 .. MaxRetries, left : 0 .. RetryTimeout]

----------------------------------------------------------------------------
(* A definition whose name ends in an underscore and a word states how the
   code could be wrong; no action uses it. *)

(* Half-range modular order and distance on the wire numbers. *)
sequence_before(left, right) == 2 * ((left - right) % SeqMod) >= SeqMod
sequence_distance(sequence, base) == (sequence - base) % SeqMod

Init ==
  /\ next_sequence = 0 /\ window = InitialWindow /\ success_count = 0
  /\ transmit = {} /\ sent = 0 /\ confirmed = {} /\ abandoned = {}
  /\ lapse = "NONE"
  /\ expected_sequence = 0 /\ receive = [q \in {} |-> 0]
  /\ delivered = <<>> /\ refusals = 0
  /\ net = {} /\ acks = {} /\ losses = 0

(* The link: envelopes and proofs no older than Retention once n messages
   were sent. *)
Fresh(S, n) == {e \in S : n - e.msg <= Retention}

(***************************************************************************)
(* rns_channel_send checks neither how old the oldest slot is nor how far  *)
(* behind the receiver is.  What the properties below say of the two ends  *)
(* they say up to the first send that leaves Retention: because a slot is  *)
(* RETAINED that long, or because the receiver waits behind a GAP.         *)
(***************************************************************************)
RetainsOld(n) == \E s \in transmit : n - s.msg > Retention
FallsBehind(n) == n - Len(delivered) > Retention

Lapse(n) ==
  IF lapse # "NONE" THEN lapse
  ELSE IF RetainsOld(n) THEN "RETAINED"
  ELSE IF FallsBehind(n) THEN "GAP"
  ELSE "NONE"

(***************************************************************************)
(* rns_channel_send, when the window has room.  A refused config.send      *)
(* clears the slot and changes nothing, so only the accepted one is a      *)
(* step; the link may still lose what it accepted.                         *)
(***************************************************************************)
Send(lost) ==
  /\ sent < MaxSends
  /\ Cardinality(transmit) < window
  /\ Cardinality(transmit) < Slots
  /\ LET e == [seq |-> next_sequence, msg |-> sent] IN
     /\ transmit' = transmit \cup {[seq |-> e.seq, msg |-> e.msg,
                                    retries |-> 0, left |-> RetryTimeout]}
     /\ net' = Fresh(IF lost THEN net ELSE net \cup {e}, sent + 1)
  /\ next_sequence' = (next_sequence + 1) % SeqMod
  /\ sent' = sent + 1
  /\ lapse' = Lapse(sent + 1)
  /\ acks' = Fresh(acks, sent + 1)
  /\ losses' = IF lost THEN losses + 1 ELSE losses
  /\ losses' <= MaxLosses
  /\ UNCHANGED <<window, success_count, confirmed, abandoned, receiverVars>>

(* The window opens by one after a window's worth of confirmations. *)
Grows(successes) == successes >= window /\ window < MaxWindow

(* The proof names a sequence number, and so does the slot it confirms. *)
Names_Any(a, s) == TRUE
Names(a, s) == s.seq = a.seq

(* rns_channel_mark_delivered, called when the proof for a sequence comes. *)
MarkDelivered(a, s) ==
  /\ a \in acks /\ s \in transmit /\ Names(a, s)
  /\ transmit' = transmit \ {s}
  /\ LET successes == (success_count + 1) % CountMod IN
     /\ window' = IF Grows(successes) THEN window + 1 ELSE window
     /\ success_count' = IF Grows(successes) THEN 0 ELSE successes
  /\ confirmed' = confirmed \cup {s.msg}
  /\ UNCHANGED <<next_sequence, sent, abandoned, lapse, receiverVars, net, acks, losses>>

(* A timeout halves the window, but not below one.  Several slots can time
   out in one tick: h is the window after each of them. *)
Halve(w) == IF w > 1 THEN w \div 2 ELSE 1

Shrunk(n, result) ==
  \E h \in [0 .. n -> 1 .. MaxWindow] :
    /\ h[0] = window /\ h[n] = result
    /\ \A i \in 1 .. n : h[i] = Halve(h[i - 1])

Due == {s \in transmit : s.left = 0}
Exhausted_Early == {s \in Due : s.retries + 1 >= MaxRetries}
Exhausted == {s \in Due : s.retries >= MaxRetries}

(* A slot that is due waits again, with one retry more if its resend was
   accepted; exhausted slots are cleared. *)
Waiting(s, accepted) ==
  IF s \notin Due THEN s
  ELSE [s EXCEPT !.retries = IF s \in accepted THEN @ + 1 ELSE @, !.left = RetryTimeout]

Rescheduled_Uncleared(accepted) == {Waiting(s, accepted) : s \in transmit}
Rescheduled(accepted) == {Waiting(s, accepted) : s \in transmit \ Exhausted}

(***************************************************************************)
(* rns_channel_tick over every slot that is due: exhausted ones are given  *)
(* up, of the others config.send accepts `accepted', of which the link     *)
(* loses `lost'.  A refused resend keeps its retry count.                  *)
(***************************************************************************)
Tick(accepted, lost) ==
  /\ Due # {}
  /\ accepted \subseteq Due \ Exhausted /\ lost \subseteq accepted
  /\ losses' = losses + Cardinality(lost)
  /\ losses' <= MaxLosses
  /\ transmit' = Rescheduled(accepted)
  /\ net' = net \cup {[seq |-> s.seq, msg |-> s.msg] : s \in accepted \ lost}
  /\ window' \in 1 .. MaxWindow /\ Shrunk(Cardinality(Exhausted), window')
  /\ success_count' = IF Exhausted = {} THEN success_count ELSE 0
  /\ abandoned' = abandoned \cup {s.msg : s \in Exhausted}
  /\ UNCHANGED <<next_sequence, sent, confirmed, lapse, receiverVars, acks>>

(* The clock of the sender advances by one unit. *)
Elapse ==
  /\ \E s \in transmit : s.left > 0
  /\ transmit' = {[s EXCEPT !.left = IF @ > 0 THEN @ - 1 ELSE 0] : s \in transmit}
  /\ UNCHANGED <<next_sequence, window, success_count, sent, confirmed,
                 abandoned, lapse, receiverVars, net, acks, losses>>

(***************************************************************************)
(* drain_receive from the buffer `buffered': it hands over the first n of  *)
(* the run that starts at expected_sequence, and stops short of the end of *)
(* the run only when the callback refuses the next one.                    *)
(***************************************************************************)
Following(n) == (expected_sequence + n) % SeqMod

(* The sequence advances past what was handed over, not past a refusal. *)
Advanced(n, refused) == Following(n)

Remaining(buffered, n) ==
  [q \in DOMAIN buffered \ {Following(i) : i \in 0 .. n - 1} |-> buffered[q]]

Drain(buffered, n, refused) ==
  /\ \A i \in 0 .. n - 1 : Following(i) \in DOMAIN buffered
  /\ refused <=> Following(n) \in DOMAIN buffered
  /\ receive' = Remaining(buffered, n)
  /\ expected_sequence' = Advanced(n, refused)
  /\ delivered' = delivered \o [i \in 1 .. n |-> buffered[Following(i - 1)]]
  /\ refusals' = IF refused THEN refusals + 1 ELSE refusals
  /\ refusals' <= MaxRefusals

InWindow(sequence) == sequence_distance(sequence, expected_sequence) < MaxWindow

(* The link proves an envelope that rns_channel_receive returned OK for. *)
Prove(e) == acks' = acks \cup {e}

(* rns_channel_receive of an envelope behind the window, or held already. *)
ReceiveDuplicate(e) ==
  /\ e \in net
  /\ \/ sequence_before(e.seq, expected_sequence)
     \/ InWindow(e.seq) /\ e.seq \in DOMAIN receive
  /\ Prove(e)
  /\ UNCHANGED <<senderVars, receiverVars, net, losses>>

(* rns_channel_receive of a new envelope inside the window. *)
ReceiveNew(e, n, refused) ==
  /\ e \in net
  /\ ~sequence_before(e.seq, expected_sequence)
  /\ InWindow(e.seq)
  /\ e.seq \notin DOMAIN receive
  /\ Cardinality(DOMAIN receive) < Slots
  /\ Drain([q \in DOMAIN receive \cup {e.seq} |-> IF q = e.seq THEN e.msg ELSE receive[q]],
           n, refused)
  /\ IF refused THEN acks' = acks ELSE Prove(e)
  /\ UNCHANGED <<senderVars, net, losses>>

Next ==
  \/ \E lost \in BOOLEAN : Send(lost)
  \/ \E a \in acks, s \in transmit : MarkDelivered(a, s)
  \/ \E accepted, lost \in SUBSET transmit : Tick(accepted, lost)
  \/ Elapse
  \/ \E e \in net : ReceiveDuplicate(e)
  \/ \E e \in net, n \in 0 .. MaxWindow, refused \in BOOLEAN : ReceiveNew(e, n, refused)

Spec == Init /\ [][Next]_vars

----------------------------------------------------------------------------
(***************************************************************************)
(* Fairness: the application keeps ticking the channel and its clock runs; *)
(* a resend is accepted infinitely often when it is infinitely often due;  *)
(* the envelope the receiver waits for is eventually given to              *)
(* rns_channel_receive if the network still has it.                        *)
(***************************************************************************)
Resend == \E lost \in SUBSET transmit : Tick(Due \ Exhausted, lost)

Arrive ==
  \E e \in net, n \in 0 .. MaxWindow, refused \in BOOLEAN :
    e.seq = expected_sequence /\ ReceiveNew(e, n, refused)

FairSpec == Spec /\ WF_vars(Elapse) /\ SF_vars(Resend) /\ WF_vars(Arrive)

----------------------------------------------------------------------------
TypeOK ==
  /\ next_sequence \in Sequences /\ expected_sequence \in Sequences
  /\ window \in 1 .. MaxWindow /\ success_count \in 0 .. CountMod - 1
  /\ transmit \subseteq Slot /\ IsFiniteSet(transmit)
  /\ Cardinality(transmit) <= MaxWindow
  /\ DOMAIN receive \subseteq Sequences
  /\ receive \in [DOMAIN receive -> Nat]
  /\ net \subseteq Envelope /\ acks \subseteq Envelope
  /\ sent \in Nat /\ delivered \in Seq(Nat)
  /\ confirmed \subseteq Nat /\ abandoned \subseteq Nat
  /\ lapse \in {"NONE", "RETAINED", "GAP"}
  /\ losses \in Nat /\ refusals \in Nat

InFlight == {s.msg : s \in transmit}

Received(m) == m < Len(delivered) \/ \E q \in DOMAIN receive : receive[q] = m

(* The ends have kept within Retention of each other so far. *)
Together == lapse = "NONE"

(***************************************************************************)
(* The receive callback sees message 0, 1, 2, ...: whatever the link       *)
(* reorders, repeats or loses, and across wraps of the 16-bit sequence, it *)
(* is never given a message twice, out of order, or past a gap             *)
(* (rns_channel_receive and drain_receive).                                *)
(***************************************************************************)
InOrder == \A i \in 1 .. Len(delivered) : delivered[i] = i - 1

(***************************************************************************)
(* A DELIVERED event is true: a message rns_channel_mark_delivered         *)
(* confirmed has been handed over by the peer or waits in its buffer, also *)
(* when the proof is late and the sequence number has been reused.         *)
(***************************************************************************)
ConfirmedReceived == \A m \in confirmed : Received(m)

(***************************************************************************)
(* Everything rns_channel_receive buffers lies in the MaxWindow messages   *)
(* from the next one to hand over, each under its own sequence number, so  *)
(* a receive slot is always free for an envelope inside the window (the    *)
(* overflow return is dead code).                                          *)
(***************************************************************************)
BufferedInWindow ==
  \A q \in DOMAIN receive :
    /\ receive[q] % SeqMod = q
    /\ Len(delivered) <= receive[q] /\ receive[q] < Len(delivered) + MaxWindow

(***************************************************************************)
(* A message has one fate at the sender: in flight, confirmed or timed     *)
(* out.  A proof that arrives after the TIMEOUT event never turns it into  *)
(* a delivered one, and a confirmed message is never retransmitted.        *)
(***************************************************************************)
OneFate ==
  /\ confirmed \cap abandoned = {}
  /\ InFlight \cap (confirmed \cup abandoned) = {}
  /\ InFlight \cup confirmed \cup abandoned = 0 .. sent - 1

(***************************************************************************)
(* The receiver falls out of the sender's reach only behind a message the  *)
(* channel gave up on: no loss, reordering or refused callback that the    *)
(* retries still make up for takes the two ends half the space apart.      *)
(***************************************************************************)
GapNeedsTimeout == lapse = "GAP" => abandoned # {}

(***************************************************************************)
(* What the two ends keep and report is sound: always what the sender      *)
(* reports of a message, and of the two ends together as long as they are  *)
(* within Retention of each other.  Past that the code offers nothing:     *)
(* rns_channel_receive takes a message half the space ahead of a gap for   *)
(* an old one and answers OK, and its DELIVERED event is false.            *)
(***************************************************************************)
ChannelSound ==
  /\ TypeOK /\ OneFate /\ GapNeedsTimeout
  /\ Together => InOrder /\ ConfirmedReceived /\ BufferedInWindow

(***************************************************************************)
(* The inductive invariant behind it.  Steady is kept by every step:       *)
(* the wire numbers are the message numbers modulo the sequence space.     *)
(* Aligned is kept as long as the ends are together: whatever travels or   *)
(* waits is recent, and so is what the receiver handed over.               *)
(***************************************************************************)
Wire ==
  /\ next_sequence = sent % SeqMod
  /\ expected_sequence = Len(delivered) % SeqMod

Distinct == \A s, t \in transmit : s.msg = t.msg => s = t

Steady == TypeOK /\ Wire /\ Distinct /\ OneFate

Retained(x) == x.seq = x.msg % SeqMod /\ x.msg < sent /\ sent - x.msg <= Retention

Recent ==
  /\ \A e \in net : Retained(e)
  /\ \A a \in acks : Retained(a) /\ Received(a.msg)
  /\ \A s \in transmit : Retained(s)

Accounted ==
  /\ Len(delivered) <= sent /\ sent - Len(delivered) <= Retention
  /\ \A q \in DOMAIN receive : receive[q] < sent

Aligned == Recent /\ Accounted /\ InOrder /\ ConfirmedReceived /\ BufferedInWindow

Inv == Steady /\ GapNeedsTimeout /\ (Together => Aligned)

(* The message at the head of the window is buffered: its callback refused. *)
HeadRefused == expected_sequence \in DOMAIN receive

(***************************************************************************)
(* If the link loses no more transmissions than the sender retries, every  *)
(* message is handed over, or the receiver is left with a head the         *)
(* callback refused (a retransmission of it counts as a duplicate and does *)
(* not drain the buffer again), or a slot was retained past Retention.     *)
(***************************************************************************)
EventuallyHandedOver ==
  <>[](losses <= MaxRetries => Len(delivered) = sent \/ HeadRefused \/ ~Together)

(***************************************************************************)
(* The channel is a FIFO with sound confirmations (ChannelFifo) as long as *)
(* the two ends stay within Retention of each other.                       *)
(***************************************************************************)
Fifo == INSTANCE ChannelFifo WITH
          handed <- Len(delivered),
          held <- {receive[q] : q \in DOMAIN receive}

ImplementsFifo == Fifo!Init /\ [][Together' => [Fifo!Next]_(Fifo!vars)]_vars
=============================================================================
