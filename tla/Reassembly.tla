----------------------------- MODULE Reassembly ------------------------------
(***************************************************************************)
(* Split packets on the radio: a packet that does not fit a frame is sent  *)
(* as two with the same four-bit sequence (rns_radio_frame_encode,         *)
(* choose_split_sequence), and put together by the receiver                *)
(* (rns_radio_reassembler_feed).  Frames are lost, repeated and delayed,   *)
(* for at most Life; sequences are few and used again after a guard time.  *)
(* There is one sender: two that happen to use the same sequence cannot be *)
(* told apart by this framing.                                             *)
(***************************************************************************)
EXTENDS Integers, Sequences, FiniteSets

CONSTANTS
  Sequences16,      \* RNS_RADIO_SEQUENCE_COUNT of them
  Frames,           \* packets to send
  Halved,           \* the ones that need two frames
  QueueCapacity,
  FragmentTimeout, ReuseGuard, Life,
  MaxRepeats        \* bound on repeated frames

(* radio_framing.h: the guard "must cover the maximum lifetime of a delayed
   fragment", in the air and in the reassembler. *)
ASSUME ReassemblyConfig ==
  /\ Life \in Nat /\ FragmentTimeout \in Nat /\ ReuseGuard \in Nat /\ QueueCapacity \in Nat
  /\ ReuseGuard > Life /\ ReuseGuard >= Life + FragmentTimeout

VARIABLES
  outbox,       \* packets queued with their sequence and the frames sent so far
  held_back,    \* time until the sender may use a sequence again
  flying,       \* frames on the air with the time they may still take
  half,         \* the receiver's first fragment, its sequence and age
  refused,      \* time for which the receiver refuses a sequence
  delivered,    \* pairs of halves handed to the runtime
  twice,        \* packets handed over twice
  repeats

frameVars == <<outbox, held_back, flying, half, refused, delivered, twice, repeats>>

NoHalf == [of |-> "none", seq |-> 0, age |-> 0]

FramesTypeOK ==
  /\ Len(outbox) <= QueueCapacity
  /\ held_back \in [Sequences16 -> 0 .. ReuseGuard] /\ refused \in [Sequences16 -> 0 .. ReuseGuard]
  /\ half.age \in 0 .. FragmentTimeout

FramesInit ==
  /\ outbox = <<>> /\ held_back = [s \in Sequences16 |-> 0] /\ flying = {} /\ half = NoHalf
  /\ refused = [s \in Sequences16 |-> 0] /\ delivered = {} /\ twice = {} /\ repeats = 0

----------------------------------------------------------------------------
(* The sender. *)

(* choose_split_sequence starts at random and takes one that is neither
   blocked nor queued. *)
Free_Queued(s) == held_back[s] = 0
Free(s) == held_back[s] = 0 /\ \A i \in DOMAIN outbox : outbox[i].of \in Halved => outbox[i].seq # s

Sent(p) == \/ \E i \in DOMAIN outbox : outbox[i].of = p
           \/ \E f \in flying : f.of = p
           \/ \E d \in delivered : p \in {d[1], d[2]}
           \/ half.of = p

Enqueue(p, s) ==
  /\ Len(outbox) < QueueCapacity /\ ~Sent(p) /\ (p \in Halved => Free(s))
  /\ outbox' = Append(outbox, [of |-> p, seq |-> s, part |-> 0])
  /\ UNCHANGED <<held_back, flying, half, refused, delivered, twice, repeats>>

(* finish_front *)
Guarded(s, p) == IF p \in Halved THEN [held_back EXCEPT ![s] = ReuseGuard] ELSE held_back

Transmit ==
  /\ outbox # <<>>
  /\ LET o == Head(outbox) IN
     /\ flying' = flying \cup {[of |-> o.of, part |-> o.part + 1, seq |-> o.seq, life |-> Life]}
     /\ IF o.of \in Halved /\ o.part = 0
        THEN outbox' = [outbox EXCEPT ![1].part = 1] /\ UNCHANGED held_back
        ELSE outbox' = Tail(outbox) /\ held_back' = Guarded(o.seq, o.of)
  /\ UNCHANGED <<half, refused, delivered, twice, repeats>>

(* The front packet is dropped: contention, a failure or a stop. *)
GiveUp ==
  /\ outbox # <<>> /\ outbox' = Tail(outbox)
  /\ held_back' = Guarded(Head(outbox).seq, Head(outbox).of)
  /\ UNCHANGED <<flying, half, refused, delivered, twice, repeats>>

----------------------------------------------------------------------------
(* The receiver. *)

Blocking(s) == [refused EXCEPT ![s] = ReuseGuard]
Stale == half.of # "none" /\ half.age >= FragmentTimeout

(* rns_radio_reassembler_expire; it runs at each poll and with each frame. *)
Expire ==
  /\ Stale /\ half' = NoHalf /\ refused' = Blocking(half.seq)
  /\ UNCHANGED <<outbox, held_back, flying, delivered, twice, repeats>>

Deliver(pair) ==
  /\ delivered' = delivered \cup {pair}
  /\ twice' = IF pair \in delivered THEN twice \cup {pair} ELSE twice

(* rns_radio_reassembler_feed, after it has expired what is stale. *)
Joins(f) == half.of # "none" /\ half.seq = f.seq
FeedWhole(f) ==
  /\ f.of \notin Halved /\ delivered' = delivered \cup {<<f.of, f.of>>} /\ half' = NoHalf
  /\ refused' = IF half.of # "none" THEN Blocking(half.seq) ELSE refused
  /\ UNCHANGED twice
FeedFirst(f) ==
  /\ f.of \in Halved /\ f.part = 1 /\ UNCHANGED <<delivered, twice>>
  /\ \/ refused[f.seq] > 0 /\ UNCHANGED <<half, refused>>
     \/ /\ refused[f.seq] = 0 /\ half.of # "none" /\ half.seq = f.seq
        /\ IF half.of = f.of THEN UNCHANGED <<half, refused>>
           ELSE half' = NoHalf /\ refused' = Blocking(f.seq)
     \/ /\ refused[f.seq] = 0 /\ ~(half.of # "none" /\ half.seq = f.seq)
        /\ half' = [of |-> f.of, seq |-> f.seq, age |-> 0]
        /\ refused' = IF half.of # "none" THEN Blocking(half.seq) ELSE refused
FeedSecond(f) ==
  /\ f.of \in Halved /\ f.part = 2
  /\ IF Joins(f)
     THEN Deliver(<<half.of, f.of>>) /\ half' = NoHalf /\ refused' = Blocking(half.seq)
     ELSE UNCHANGED <<half, refused, delivered, twice>>

Hear(f) ==
  /\ ~Stale /\ flying' = flying \ {f}
  /\ FeedWhole(f) \/ FeedFirst(f) \/ FeedSecond(f)
  /\ UNCHANGED <<outbox, held_back, repeats>>

----------------------------------------------------------------------------
(* A frame is heard and will be heard again: an echo or a relay. *)
HearAgain(f) ==
  /\ ~Stale /\ repeats < MaxRepeats /\ repeats' = repeats + 1
  /\ FeedWhole(f) \/ FeedFirst(f) \/ FeedSecond(f)
  /\ UNCHANGED <<outbox, held_back, flying>>

(* Frames that are not heard in their time are lost. *)
Less(n) == IF n > 0 THEN n - 1 ELSE 0
Tick ==
  /\ flying' = {[f EXCEPT !.life = @ - 1] : f \in {g \in flying : g.life > 0}}
  /\ held_back' = [s \in Sequences16 |-> Less(held_back[s])]
  /\ refused' = [s \in Sequences16 |-> Less(refused[s])]
  /\ half' = IF half.of = "none" THEN half
             ELSE [half EXCEPT !.age = IF @ < FragmentTimeout THEN @ + 1 ELSE @]
  /\ UNCHANGED <<outbox, delivered, twice, repeats>>

FramesNext ==
  \/ \E p \in Frames, s \in Sequences16 : Enqueue(p, s)
  \/ Transmit \/ GiveUp \/ Expire \/ Tick
  \/ \E f \in flying : Hear(f) \/ HearAgain(f)

FramesSpec == FramesInit /\ [][FramesNext]_frameVars

----------------------------------------------------------------------------
(***************************************************************************)
(* What the receiver hands over was sent: two halves put together are the  *)
(* halves of one packet, although sequences are used again, as long as the *)
(* guard covers a fragment's timeout and its time on the air (the header:  *)
(* "must cover the maximum lifetime of a delayed fragment").               *)
(***************************************************************************)
HalvesMatch == \A d \in delivered : d[1] = d[2]

(***************************************************************************)
(* A split packet is handed over once, although its frames may be heard    *)
(* again: the receiver refuses a sequence for as long as an echo may last. *)
(***************************************************************************)
JoinedOnce == twice = {}

(* The halves of a split packet are joined with each other, once. *)
FramesJoined == FramesTypeOK /\ HalvesMatch /\ JoinedOnce
=============================================================================
