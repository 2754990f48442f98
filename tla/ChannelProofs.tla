--------------------------- MODULE ChannelProofs ---------------------------
(***************************************************************************)
(* The channel hands over every message once and in order, and confirms    *)
(* only what was received, for every sequence space, window, retry limit   *)
(* and retention that satisfy the assumptions of Channel.                  *)
(***************************************************************************)
EXTENDS Channel, FiniteSetTheorems, TLAPS

----------------------------------------------------------------------------
(* Arithmetic modulo the sequence space. *)

(* A remainder lies between zero and the modulus. *)
LEMMA ModRange == \A a \in Int, M \in Nat \ {0} : a % M \in 0 .. M - 1
OBVIOUS

(* A number is its quotient times the modulus plus its remainder. *)
LEMMA ModDef ==
  \A a \in Int, M \in Nat \ {0} :
    (a \div M) \in Int /\ a = (M * (a \div M)) + (a % M)
OBVIOUS

(* The remainder is the only number below the modulus that completes a
   multiple of it. *)
LEMMA ModUnique ==
  ASSUME NEW M \in Nat \ {0}, NEW a \in Int, NEW k \in Int, NEW r \in 0 .. M - 1,
         a = (M * k) + r
  PROVE  a % M = r
<1> DEFINE q == a \div M
<1>1. q \in Int /\ a = (M * q) + (a % M) /\ a % M \in 0 .. M - 1
  BY ModDef, ModRange
<1> HIDE DEF q
<1>2. CASE q > k
  <2>1. M * q >= M * (k + 1)
    BY <1>1, <1>2
  <2> QED BY <2>1, <1>1
<1>3. CASE q < k
  <2>1. M * k >= M * (q + 1)
    BY <1>1, <1>3
  <2> QED BY <2>1, <1>1
<1>4. CASE q = k
  BY <1>1, <1>4
<1> QED BY <1>1, <1>2, <1>3, <1>4

(* A number below the modulus is its own remainder. *)
LEMMA ModSmall ==
  ASSUME NEW M \in Nat \ {0}, NEW a \in 0 .. M - 1
  PROVE  a % M = a
<1>1. a = (M * 0) + a
  OBVIOUS
<1> QED BY <1>1, ModUnique

(* Subtracting remainders is subtracting the numbers, up to the modulus. *)
LEMMA ModMinus ==
  ASSUME NEW M \in Nat \ {0}, NEW a \in Int, NEW b \in Int
  PROVE  ((a % M) - (b % M)) % M = (a - b) % M
<1> DEFINE d == a - b
           r == d % M
<1>1. d \in Int
  OBVIOUS
<1>2. PICK k \in Int : d = (M * k) + r
  BY Zenon, <1>1, ModDef
<1>3. r \in 0 .. M - 1
  BY <1>1, ModRange
<1>4. PICK qa \in Int : a = (M * qa) + (a % M)
  BY Zenon, ModDef
<1>5. PICK qb \in Int : b = (M * qb) + (b % M)
  BY Zenon, ModDef
<1>6. a % M \in Int /\ b % M \in Int
  BY ModRange
<1> HIDE DEF r
<1>7. (a % M) - (b % M) = (M * (k - qa + qb)) + r
  BY <1>2, <1>3, <1>4, <1>5, <1>6
<1>8. (a % M) - (b % M) \in Int /\ k - qa + qb \in Int
  BY <1>6
<1> QED BY <1>3, <1>7, <1>8, ModUnique DEF r

(* Adding to a remainder is adding to the number, up to the modulus. *)
LEMMA ModPlus ==
  ASSUME NEW M \in Nat \ {0}, NEW a \in Int, NEW k \in Int
  PROVE  ((a % M) + k) % M = (a + k) % M
<1> DEFINE s == a + k
           r == s % M
<1>1. s \in Int
  OBVIOUS
<1>2. PICK q \in Int : s = (M * q) + r
  BY Zenon, <1>1, ModDef
<1>3. r \in 0 .. M - 1
  BY <1>1, ModRange
<1>4. PICK qa \in Int : a = (M * qa) + (a % M)
  BY Zenon, ModDef
<1>5. a % M \in Int
  BY ModRange
<1> HIDE DEF r
<1>6. (a % M) + k = (M * (q - qa)) + r
  BY <1>2, <1>3, <1>4, <1>5
<1>7. (a % M) + k \in Int /\ q - qa \in Int
  BY <1>5
<1> QED BY <1>3, <1>6, <1>7, ModUnique, Zenon DEF r

(* The distance of a number that is ahead by less than the modulus. *)
LEMMA DistanceAhead ==
  ASSUME NEW M \in Nat \ {0}, NEW a \in Int, NEW b \in Int, b <= a, a - b < M
  PROVE  ((a % M) - (b % M)) % M = a - b
<1>1. a - b \in 0 .. M - 1
  OBVIOUS
<1> QED BY Zenon, <1>1, ModMinus, ModSmall

(* The distance of a number that is behind by less than the modulus. *)
LEMMA DistanceBehind ==
  ASSUME NEW M \in Nat \ {0}, NEW a \in Int, NEW b \in Int, a < b, b - a < M
  PROVE  ((a % M) - (b % M)) % M = M - (b - a)
<1>1. M - (b - a) \in 0 .. M - 1
  OBVIOUS
<1>2. a - b = (M * (-1)) + (M - (b - a))
  OBVIOUS
<1>3. (a - b) % M = M - (b - a)
  BY <1>1, <1>2, ModUnique
<1> QED BY Zenon, <1>3, ModMinus

(* Two numbers less than the modulus apart with one wire number are equal. *)
LEMMA SameWire ==
  ASSUME NEW M \in Nat \ {0}, NEW a \in Int, NEW b \in Int,
         a % M = b % M, a - b < M, b - a < M
  PROVE  a = b
<1>1. CASE b <= a
  <2>1. ((a % M) - (b % M)) % M = a - b
    BY Zenon, <1>1, DistanceAhead
  <2>2. ((a % M) - (b % M)) % M = 0
    <3>1. (a % M) - (b % M) = 0 BY ModRange
    <3>2. 0 \in 0 .. M - 1 OBVIOUS
    <3> QED BY <3>1, <3>2, ModSmall
  <2> QED BY <2>1, <2>2
<1>2. CASE a <= b
  <2>1. ((b % M) - (a % M)) % M = b - a
    BY Zenon, <1>2, DistanceAhead
  <2>2. ((b % M) - (a % M)) % M = 0
    <3>1. (b % M) - (a % M) = 0 BY ModRange
    <3>2. 0 \in 0 .. M - 1 OBVIOUS
    <3> QED BY <3>1, <3>2, ModSmall
  <2> QED BY <2>1, <2>2
<1> QED BY <1>1, <1>2

----------------------------------------------------------------------------
(* The assumptions on the constants the proofs use. *)
LEMMA Constants ==
  /\ SeqMod \in Nat \ {0} /\ MaxWindow \in Nat \ {0} /\ Retention \in Nat \ {0}
  /\ InitialWindow \in 1 .. MaxWindow /\ RetryTimeout \in Nat \ {0}
  /\ MaxRetries \in Nat /\ CountMod \in Nat \ {0} /\ MaxWindow < CountMod
  /\ 2 * MaxWindow <= Retention /\ 2 * Retention <= SeqMod
BY ChannelConfig, BoundedRetention

(* With the window position got and s messages sent, the half-range
   comparison tells a message that is behind from one that is not, and the
   distance of the latter is how far it is ahead. *)
LEMMA Position ==
  ASSUME NEW n \in Nat, NEW got \in Nat, NEW s \in Nat,
         n < s, s - n <= Retention, got <= s, s - got <= Retention
  PROVE  /\ sequence_before(n % SeqMod, got % SeqMod) <=> n < got
         /\ got <= n => sequence_distance(n % SeqMod, got % SeqMod) = n - got
<1> DEFINE d == ((n % SeqMod) - (got % SeqMod)) % SeqMod
<1>0. SeqMod \in Nat \ {0} /\ n \in Int /\ got \in Int
  BY Constants
<1>1. CASE got <= n
  <2>1. n - got < SeqMod /\ 2 * (n - got) < SeqMod
    BY Constants
  <2>2. d = n - got
    BY Zenon, <1>0, <1>1, <2>1, DistanceAhead
  <2> QED BY <1>0, <1>1, <2>1, <2>2 DEF sequence_before, sequence_distance
<1>2. CASE n < got
  <2>1. got - n < SeqMod /\ 2 * (got - n) <= SeqMod
    BY Constants
  <2>2. d = SeqMod - (got - n)
    BY Zenon, <1>0, <1>2, <2>1, DistanceBehind
  <2> QED BY <1>0, <1>2, <2>1, <2>2 DEF sequence_before, sequence_distance
<1> QED BY <1>1, <1>2

(* What rns_channel_receive computes for an envelope of the network. *)
LEMMA ArrivalPosition ==
  ASSUME Steady, Aligned, NEW e \in net
  PROVE  /\ e.msg \in Nat /\ e.msg < sent /\ sent - e.msg <= Retention
         /\ e.seq = e.msg % SeqMod
         /\ sequence_before(e.seq, expected_sequence) <=> e.msg < Len(delivered)
         /\ Len(delivered) <= e.msg =>
              sequence_distance(e.seq, expected_sequence) = e.msg - Len(delivered)
<1>1. sent \in Nat /\ Len(delivered) \in Nat
  BY DEF Steady, TypeOK
<1>2. e.msg \in Nat
  BY DEF Steady, TypeOK, Envelope
<1>3. e.seq = e.msg % SeqMod /\ e.msg < sent /\ sent - e.msg <= Retention
  BY DEF Aligned, Recent, Retained
<1>4. /\ Len(delivered) <= sent /\ sent - Len(delivered) <= Retention
      /\ expected_sequence = Len(delivered) % SeqMod
  BY DEF Steady, Aligned, Accounted, Wire
<1> QED BY <1>1, <1>2, <1>3, <1>4, Position

(* The invariant holds initially. *)
LEMMA InitInv == Init => Inv
<1> SUFFICES ASSUME Init PROVE Inv
  OBVIOUS
<1> USE DEF Init
<1>1. TypeOK
  BY Constants, FS_EmptySet DEF TypeOK, Sequences
<1>2. 0 % SeqMod = 0
  BY Constants, ModSmall
<1>3. Wire /\ Distinct /\ Recent /\ Accounted
  BY <1>2, Constants DEF Wire, Distinct, Recent, Accounted
<1>4. /\ InOrder /\ ConfirmedReceived /\ OneFate /\ BufferedInWindow
      /\ GapNeedsTimeout
  BY DEF InOrder, ConfirmedReceived, OneFate, InFlight, BufferedInWindow, GapNeedsTimeout
<1> QED BY <1>1, <1>3, <1>4 DEF Inv, Steady, Aligned

(* Types, in the form the steps below use them. *)
LEMMA Types ==
  ASSUME TypeOK
  PROVE  /\ sent \in Nat /\ Len(delivered) \in Nat /\ delivered \in Seq(Nat)
         /\ \A s \in transmit : /\ s \in Slot /\ s.msg \in Nat /\ s.seq \in Sequences
                                /\ s.retries \in 0 .. MaxRetries
                                /\ s.left \in 0 .. RetryTimeout
         /\ \A e \in net \cup acks : e \in Envelope /\ e.msg \in Nat /\ e.seq \in Sequences
         /\ \A q \in DOMAIN receive : receive[q] \in Nat /\ q \in Sequences
BY DEF TypeOK, Slot, Envelope

(* What rns_channel_send changes. *)
LEMMA SendEffect ==
  ASSUME Steady, NEW lost \in BOOLEAN, Send(lost)
  PROVE  \E slot \in Slot, env \in Envelope :
           /\ slot.seq = next_sequence /\ slot.msg = sent
           /\ env.seq = next_sequence /\ env.msg = sent
           /\ transmit' = transmit \cup {slot} /\ sent' = sent + 1
           /\ next_sequence' = (next_sequence + 1) % SeqMod
           /\ net' \subseteq net \cup {env} /\ \A e \in net' : sent + 1 - e.msg <= Retention
           /\ acks' \subseteq acks /\ \A e \in acks' : sent + 1 - e.msg <= Retention
           /\ losses' \in {losses, losses + 1} /\ lapse' = Lapse(sent + 1)
           /\ UNCHANGED <<window, success_count, confirmed, abandoned, expected_sequence,
                          receive, delivered, refusals>>
<1> DEFINE slot == [seq |-> next_sequence, msg |-> sent, retries |-> 0, left |-> RetryTimeout]
           env == [seq |-> next_sequence, msg |-> sent]
<1>1. TypeOK /\ sent \in Nat
  BY Types DEF Steady
<1>2. slot \in Slot /\ env \in Envelope
  BY <1>1, Constants DEF TypeOK, Slot, Envelope
<1>3. /\ transmit' = transmit \cup {slot} /\ sent' = sent + 1
      /\ next_sequence' = (next_sequence + 1) % SeqMod
      /\ losses' \in {losses, losses + 1} /\ lapse' = Lapse(sent + 1)
      /\ UNCHANGED <<window, success_count, confirmed, abandoned, expected_sequence,
                     receive, delivered, refusals>>
  BY DEF Send, receiverVars
<1>4. net' = Fresh(IF lost THEN net ELSE net \cup {env}, sent + 1)
  BY DEF Send
<1>5. acks' = Fresh(acks, sent + 1)
  BY DEF Send
<1>6. \A e \in net \cup acks \cup {env} : e.msg \in Nat
  BY <1>1, Types
<1>7. net' \subseteq net \cup {env} /\ \A e \in net' : sent + 1 - e.msg <= Retention
  BY <1>1, <1>4, <1>6, Constants DEF Fresh
<1>8. acks' \subseteq acks /\ \A e \in acks' : sent + 1 - e.msg <= Retention
  BY <1>1, <1>5, <1>6, Constants DEF Fresh
<1>9. slot.seq = next_sequence /\ slot.msg = sent /\ env.seq = next_sequence /\ env.msg = sent
  OBVIOUS
<1> HIDE DEF slot, env
<1> QED BY <1>2, <1>3, <1>7, <1>8, <1>9

(* rns_channel_send keeps what always holds. *)
LEMMA SendSteady == ASSUME Steady, NEW lost \in BOOLEAN, Send(lost) PROVE Steady'
<1>1. PICK slot \in Slot, env \in Envelope :
           /\ slot.seq = next_sequence /\ slot.msg = sent
           /\ env.seq = next_sequence /\ env.msg = sent
           /\ transmit' = transmit \cup {slot} /\ sent' = sent + 1
           /\ next_sequence' = (next_sequence + 1) % SeqMod
           /\ net' \subseteq net \cup {env} /\ \A e \in net' : sent + 1 - e.msg <= Retention
           /\ acks' \subseteq acks /\ \A e \in acks' : sent + 1 - e.msg <= Retention
           /\ losses' \in {losses, losses + 1} /\ lapse' = Lapse(sent + 1)
           /\ UNCHANGED <<window, success_count, confirmed, abandoned, expected_sequence,
                          receive, delivered, refusals>>
  BY SendEffect
<1>2. TypeOK /\ sent \in Nat /\ Len(delivered) \in Nat /\ next_sequence \in Sequences
  BY Types DEF Steady, TypeOK
<1>3. TypeOK'
  <2>1. next_sequence' \in Sequences
    BY <1>1, <1>2, Constants, ModRange DEF Sequences
  <2>2. IsFiniteSet(transmit') /\ Cardinality(transmit') <= MaxWindow
    <3>1. IsFiniteSet(transmit) /\ Cardinality(transmit) < window /\ window \in 1 .. MaxWindow
      BY <1>2 DEF TypeOK, Send
    <3>2. /\ IsFiniteSet(transmit')
          /\ Cardinality(transmit') \in {Cardinality(transmit), Cardinality(transmit) + 1}
      BY Zenon, <1>1, <3>1, FS_AddElement
    <3>3. Cardinality(transmit) \in Nat
      BY <3>1, FS_CardinalityType
    <3> QED BY <3>1, <3>2, <3>3, Constants
  <2>3. transmit' \subseteq Slot /\ net' \subseteq Envelope /\ acks' \subseteq Envelope
    BY <1>1, <1>2 DEF TypeOK
  <2>4. sent' \in Nat /\ losses' \in Nat
    BY <1>1, <1>2 DEF TypeOK
  <2>5. lapse' \in {"NONE", "RETAINED", "GAP"}
    BY <1>1, <1>2 DEF TypeOK, Lapse
  <2> QED BY <1>1, <1>2, <2>1, <2>2, <2>3, <2>4, <2>5 DEF TypeOK
<1>4. Wire'
  <2>1. next_sequence = sent % SeqMod
    BY DEF Steady, Wire
  <2>2. ((sent % SeqMod) + 1) % SeqMod = (sent + 1) % SeqMod
    <3>1. SeqMod \in Nat \ {0} /\ sent \in Int /\ 1 \in Int
      BY <1>2, Constants
    <3> QED BY Zenon, <3>1, ModPlus
  <2> QED BY <1>1, <2>1, <2>2 DEF Steady, Wire
<1>5. Distinct'
  <2>1. \A s \in transmit : s.msg # sent
    BY <1>2, Types DEF Steady, OneFate, InFlight
  <2> QED BY <1>1, <2>1 DEF Steady, Distinct
<1>6. OneFate'
  <2>1. InFlight' = InFlight \cup {sent}
    BY <1>1 DEF InFlight
  <2>2. 0 .. sent' - 1 = (0 .. sent - 1) \cup {sent} /\ sent \notin 0 .. sent - 1
    BY <1>1, <1>2
  <2> QED BY <1>1, <2>1, <2>2 DEF Steady, OneFate
<1> QED BY <1>3, <1>4, <1>5, <1>6 DEF Steady

(* A send that leaves the two ends together keeps them aligned. *)
LEMMA SendAligned ==
  ASSUME Steady, Aligned, NEW lost \in BOOLEAN, Send(lost), Together'
  PROVE  Aligned'
<1>1. PICK slot \in Slot, env \in Envelope :
           /\ slot.seq = next_sequence /\ slot.msg = sent
           /\ env.seq = next_sequence /\ env.msg = sent
           /\ transmit' = transmit \cup {slot} /\ sent' = sent + 1
           /\ next_sequence' = (next_sequence + 1) % SeqMod
           /\ net' \subseteq net \cup {env} /\ \A e \in net' : sent + 1 - e.msg <= Retention
           /\ acks' \subseteq acks /\ \A e \in acks' : sent + 1 - e.msg <= Retention
           /\ losses' \in {losses, losses + 1} /\ lapse' = Lapse(sent + 1)
           /\ UNCHANGED <<window, success_count, confirmed, abandoned, expected_sequence,
                          receive, delivered, refusals>>
  BY SendEffect
<1>2. /\ TypeOK /\ sent \in Nat /\ Len(delivered) \in Nat
      /\ slot.seq = slot.msg % SeqMod /\ env.seq = env.msg % SeqMod
  BY <1>1, Types DEF Steady, Wire
<1>3. \A m : Received(m)' <=> Received(m)
  BY <1>1 DEF Received
<1>4. /\ \A s \in transmit : ~(sent + 1 - s.msg > Retention)
      /\ ~(sent + 1 - Len(delivered) > Retention)
  <2>1. lapse' = Lapse(sent + 1) /\ lapse' = "NONE"
    BY <1>1 DEF Together
  <2>2. ~RetainsOld(sent + 1) /\ ~FallsBehind(sent + 1)
    BY <2>1 DEF Lapse
  <2>3. \A s \in transmit : s.msg \in Nat
    BY <1>2, Types
  <2> QED BY <1>2, <2>2, <2>3, Constants DEF RetainsOld, FallsBehind
<1>5. Recent'
  <2>1. \A e \in net' : Retained(e)'
    BY <1>1, <1>2, Types DEF Aligned, Recent, Retained
  <2>2. \A a \in acks' : Retained(a)' /\ Received(a.msg)'
    BY <1>1, <1>2, <1>3, Types DEF Aligned, Recent, Retained
  <2>3. \A s \in transmit : Retained(s)'
    <3>1. \A s \in transmit : s.msg \in Nat /\ Retained(s)
      BY <1>2, Types DEF Aligned, Recent
    <3> QED BY <1>1, <1>2, <1>4, <3>1, Constants DEF Retained
  <2>4. slot.seq = slot.msg % SeqMod /\ slot.msg < sent' /\ sent' - slot.msg <= Retention
    BY <1>1, <1>2, Constants
  <2>5. \A s \in transmit' : Retained(s)'
    BY <1>1, <2>3, <2>4 DEF Retained
  <2> QED BY <2>1, <2>2, <2>5 DEF Recent
<1>6. Accounted'
  <2>1. \A q \in DOMAIN receive' : receive'[q] < sent'
    BY <1>1, <1>2, Types DEF Aligned, Accounted
  <2>2. Len(delivered') <= sent' /\ sent' - Len(delivered') <= Retention
    BY <1>1, <1>2, <1>4, Constants DEF Aligned, Accounted
  <2> QED BY <2>1, <2>2 DEF Accounted
<1>7. InOrder' /\ BufferedInWindow'
  BY <1>1 DEF Aligned, InOrder, BufferedInWindow
<1>8. ConfirmedReceived'
  BY <1>1, <1>3 DEF Aligned, ConfirmedReceived
<1> QED BY <1>5, <1>6, <1>7, <1>8 DEF Aligned

(* rns_channel_mark_delivered keeps what always holds. *)
LEMMA MarkDeliveredSteady ==
  ASSUME Steady, NEW a \in acks, NEW s \in transmit, MarkDelivered(a, s)
  PROVE  Steady'
<1>1. /\ transmit' = transmit \ {s} /\ confirmed' = confirmed \cup {s.msg}
      /\ UNCHANGED <<next_sequence, sent, abandoned, lapse, expected_sequence, receive,
                     delivered, refusals, net, acks, losses>>
  BY DEF MarkDelivered, receiverVars
<1>2. TypeOK /\ s.msg \in Nat
  BY Types DEF Steady
<1>3. TypeOK'
  <2>1. window' \in 1 .. MaxWindow /\ success_count' \in 0 .. CountMod - 1
    <3>1. (success_count + 1) % CountMod \in 0 .. CountMod - 1
      <4>1. success_count + 1 \in Int
        BY <1>2, Constants DEF TypeOK
      <4> QED BY Zenon, <4>1, Constants, ModRange
    <3>2. window \in 1 .. MaxWindow
      BY <1>2 DEF TypeOK
    <3> QED BY <3>1, <3>2, Constants DEF MarkDelivered, Grows
  <2>2. IsFiniteSet(transmit') /\ Cardinality(transmit') <= MaxWindow
    <3>1. /\ IsFiniteSet(transmit) /\ Cardinality(transmit) <= MaxWindow
          /\ Cardinality(transmit) \in Nat
      BY <1>2, FS_CardinalityType DEF TypeOK
    <3>2. /\ IsFiniteSet(transmit')
          /\ Cardinality(transmit') = Cardinality(transmit) - 1
      BY <1>1, <3>1, FS_RemoveElement
    <3> QED BY <3>1, <3>2, Constants
  <2> QED BY <1>1, <1>2, <2>1, <2>2 DEF TypeOK
<1>4. Wire' /\ Distinct'
  BY <1>1 DEF Steady, Wire, Distinct
<1>5. OneFate'
  <2>1. InFlight' = InFlight \ {s.msg} /\ s.msg \in InFlight
    BY <1>1 DEF InFlight, Steady, Distinct
  <2> QED BY <1>1, <2>1 DEF Steady, OneFate
<1> QED BY <1>3, <1>4, <1>5 DEF Steady

(* A proof and a slot with one sequence number are about one message when
   both are recent, so what is confirmed was received. *)
LEMMA MarkDeliveredAligned ==
  ASSUME Steady, Aligned, NEW a \in acks, NEW s \in transmit, MarkDelivered(a, s)
  PROVE  Aligned' /\ Received(s.msg)
<1>1. /\ transmit' = transmit \ {s} /\ confirmed' = confirmed \cup {s.msg}
      /\ UNCHANGED <<next_sequence, sent, abandoned, lapse, expected_sequence, receive,
                     delivered, refusals, net, acks, losses>>
  BY DEF MarkDelivered, receiverVars
<1>2. TypeOK /\ sent \in Nat /\ s.msg \in Nat /\ a.msg \in Nat
  BY Types DEF Steady
<1>3. a.msg = s.msg
  <2>1. Retained(a) /\ Retained(s)
    BY DEF Aligned, Recent
  <2>2. a.msg % SeqMod = s.msg % SeqMod
    BY <2>1 DEF Retained, MarkDelivered, Names
  <2>3. SeqMod \in Nat \ {0} /\ a.msg - s.msg < SeqMod /\ s.msg - a.msg < SeqMod
    BY <1>2, <2>1, Constants DEF Retained
  <2> QED BY <1>2, <2>2, <2>3, SameWire
<1>4. Accounted' /\ InOrder' /\ BufferedInWindow'
  BY <1>1 DEF Aligned, Accounted, InOrder, BufferedInWindow
<1>5. \A m : Received(m)' <=> Received(m)
  BY <1>1 DEF Received
<1>6. Recent'
  BY <1>1, <1>5 DEF Aligned, Recent, Retained
<1>7. Received(s.msg)
  BY <1>3 DEF Aligned, Recent
<1>8. ConfirmedReceived'
  BY <1>1, <1>5, <1>7 DEF Aligned, ConfirmedReceived
<1> QED BY <1>4, <1>6, <1>7, <1>8 DEF Aligned

(* The image of a finite set is finite and no larger. *)
LEMMA ImageBound ==
  ASSUME NEW S, IsFiniteSet(S), NEW f, DOMAIN f = S
  PROVE  LET T == {f[x] : x \in S} IN
         IsFiniteSet(T) /\ Cardinality(T) <= Cardinality(S)
<1> DEFINE T == {f[x] : x \in S}
<1>1. [x \in S |-> f[x]] \in Surjection(S, T)
  BY DEF Surjection
<1> QED BY <1>1, FS_Surjection

(* A send takes the receiver out of reach only behind a message that was
   given up: the others beyond the receive window are in flight, and there
   are at most a window of them. *)
LEMMA SendGap ==
  ASSUME Steady, Aligned, GapNeedsTimeout, NEW lost \in BOOLEAN, Send(lost), Together
  PROVE  GapNeedsTimeout'
<1> SUFFICES ASSUME lapse' = "GAP", abandoned = {} PROVE FALSE
  BY DEF GapNeedsTimeout, Send
<1> DEFINE first == Len(delivered) + MaxWindow
           beyond == first .. sent - 1
<1>1. /\ TypeOK /\ sent \in Nat /\ Len(delivered) \in Nat /\ MaxWindow \in Nat
      /\ 2 * MaxWindow <= Retention /\ Retention \in Nat
  BY Types, Constants DEF Steady
<1>2. sent + 1 - Len(delivered) > Retention
  <2>1. lapse' = Lapse(sent + 1) /\ lapse = "NONE"
    BY DEF Send, Together
  <2>2. FallsBehind(sent + 1)
    BY <2>1 DEF Lapse
  <2> QED BY <1>1, <2>2 DEF FallsBehind
<1>3. ASSUME NEW m \in beyond PROVE m \in InFlight
  <2>1. m \in 0 .. sent - 1 /\ m >= first
    BY <1>1
  <2>2. \A q \in DOMAIN receive : receive[q] < first /\ receive[q] \in Nat
    BY <1>1, Types DEF Aligned, BufferedInWindow
  <2>3. ~Received(m)
    BY <1>1, <2>1, <2>2 DEF Received
  <2>4. m \notin confirmed
    BY <2>3 DEF Aligned, ConfirmedReceived
  <2> QED BY <2>1, <2>4 DEF Steady, OneFate
<1>4. IsFiniteSet(InFlight) /\ Cardinality(InFlight) <= Cardinality(transmit)
  <2> DEFINE f == [s \in transmit |-> s.msg]
  <2>1. IsFiniteSet(transmit) /\ DOMAIN f = transmit
    BY <1>1 DEF TypeOK
  <2>2. InFlight = {f[s] : s \in transmit}
    BY DEF InFlight
  <2> HIDE DEF f
  <2> QED BY <2>1, <2>2, ImageBound
<1>5. Cardinality(transmit) < window /\ window <= MaxWindow /\ window \in Nat
  BY <1>1 DEF Send, TypeOK
<1>6. Cardinality(beyond) <= Cardinality(InFlight)
  BY Zenon, <1>3, <1>4, FS_Subset
<1>7. Cardinality(beyond) = IF first > sent - 1 THEN 0 ELSE sent - 1 - first + 1
  <2>1. first \in Int /\ sent - 1 \in Int
    BY <1>1
  <2> HIDE DEF first
  <2> QED BY Zenon, <2>1, FS_Interval
<1>8. Cardinality(transmit) \in Nat /\ Cardinality(InFlight) \in Nat
  BY <1>1, <1>4, FS_CardinalityType DEF TypeOK
<1> HIDE DEF beyond
<1> QED BY <1>1, <1>2, <1>4, <1>5, <1>6, <1>7, <1>8

(* Steps that only change the timers and the retry counts of transmit slots. *)
LEMMA RetimedSlots ==
  ASSUME Steady, NEW S \in SUBSET transmit, NEW f \in [S -> Slot],
         \A s \in S : f[s].seq = s.seq /\ f[s].msg = s.msg,
         transmit' = {f[s] : s \in S}
  PROVE  /\ transmit' \subseteq Slot /\ IsFiniteSet(transmit')
         /\ Cardinality(transmit') <= MaxWindow
         /\ InFlight' = {s.msg : s \in S}
         /\ \A s \in transmit' : \E t \in transmit : s.seq = t.seq /\ s.msg = t.msg
         /\ \A s, t \in transmit' : s.msg = t.msg => s = t
<1>1. transmit' \subseteq Slot
  OBVIOUS
<1>2. IsFiniteSet(transmit') /\ Cardinality(transmit') <= MaxWindow
  <2>1. IsFiniteSet(transmit) /\ Cardinality(transmit) <= MaxWindow
    BY DEF Steady, TypeOK
  <2>2. IsFiniteSet(S) /\ Cardinality(S) <= Cardinality(transmit)
    BY <2>1, FS_Subset
  <2>3. IsFiniteSet(transmit') /\ Cardinality(transmit') <= Cardinality(S)
    BY <2>2, ImageBound
  <2>4. Cardinality(S) \in Nat /\ Cardinality(transmit) \in Nat /\ Cardinality(transmit') \in Nat
    BY <2>1, <2>2, <2>3, FS_CardinalityType
  <2> QED BY <2>1, <2>2, <2>3, <2>4, Constants
<1>3. InFlight' = {s.msg : s \in S}
  BY DEF InFlight
<1>4. \A s \in transmit' : \E t \in transmit : s.seq = t.seq /\ s.msg = t.msg
  OBVIOUS
<1>5. \A s, t \in transmit' : s.msg = t.msg => s = t
  BY DEF Steady, Distinct
<1> QED BY <1>1, <1>2, <1>3, <1>4, <1>5

(* Time passing keeps what holds. *)
LEMMA ElapseInv == ASSUME Steady, Elapse PROVE Steady' /\ (Aligned => Aligned')
<1> DEFINE f == [s \in transmit |-> [s EXCEPT !.left = IF s.left > 0 THEN s.left - 1 ELSE 0]]
<1>1. /\ transmit' = {f[s] : s \in transmit}
      /\ UNCHANGED <<next_sequence, window, success_count, sent, confirmed, abandoned, lapse,
                     expected_sequence, receive, delivered, refusals, net, acks, losses>>
  BY DEF Elapse, receiverVars
<1>2. TypeOK /\ \A s \in transmit : s \in Slot /\ s.left \in 0 .. RetryTimeout
  BY Types DEF Steady
<1>3. f \in [transmit -> Slot] /\ \A s \in transmit : f[s].seq = s.seq /\ f[s].msg = s.msg
  BY <1>2, Constants DEF Slot
<1>a. transmit \in SUBSET transmit
  OBVIOUS
<1> HIDE DEF f
<1>4. /\ transmit' \subseteq Slot /\ IsFiniteSet(transmit')
      /\ Cardinality(transmit') <= MaxWindow
      /\ InFlight' = {s.msg : s \in transmit}
      /\ \A s \in transmit' : \E t \in transmit : s.seq = t.seq /\ s.msg = t.msg
      /\ \A s, t \in transmit' : s.msg = t.msg => s = t
  BY Zenon, <1>1, <1>3, <1>a, RetimedSlots
<1>5. TypeOK'
  BY <1>1, <1>2, <1>4 DEF TypeOK
<1>6. Wire' /\ Distinct' /\ OneFate'
  BY <1>1, <1>4 DEF Steady, Wire, Distinct, OneFate, InFlight
<1>7. \A m : Received(m)' <=> Received(m)
  BY <1>1 DEF Received
<1>8. ASSUME Aligned PROVE Aligned'
  <2>1. Recent'
    BY <1>1, <1>4, <1>7, <1>8 DEF Aligned, Recent, Retained
  <2>2. Accounted' /\ InOrder' /\ BufferedInWindow'
    BY <1>1, <1>8 DEF Aligned, Accounted, InOrder, BufferedInWindow
  <2>3. ConfirmedReceived'
    BY <1>1, <1>7, <1>8 DEF Aligned, ConfirmedReceived
  <2> QED BY <2>1, <2>2, <2>3 DEF Aligned
<1> QED BY <1>5, <1>6, <1>8 DEF Steady

(* rns_channel_tick keeps what holds: what it resends was sent before,
   and an exhausted slot moves to the abandoned messages. *)
LEMMA TickInv ==
  ASSUME Steady, NEW accepted \in SUBSET transmit, NEW lost \in SUBSET transmit,
         Tick(accepted, lost)
  PROVE  Steady' /\ (Aligned => Aligned')
<1> DEFINE S == transmit \ Exhausted
           f == [s \in S |-> Waiting(s, accepted)]
<1>1. /\ transmit' = {f[s] : s \in S}
      /\ net' = net \cup {[seq |-> s.seq, msg |-> s.msg] : s \in accepted \ lost}
      /\ abandoned' = abandoned \cup {s.msg : s \in Exhausted}
      /\ losses' = losses + Cardinality(lost)
      /\ window' \in 1 .. MaxWindow /\ success_count' \in {success_count, 0}
      /\ accepted \subseteq Due \ Exhausted /\ Exhausted \subseteq Due /\ Due \subseteq transmit
      /\ UNCHANGED <<next_sequence, sent, confirmed, lapse, expected_sequence, receive,
                     delivered, refusals, acks>>
  BY Zenon DEF Tick, Rescheduled, receiverVars, Exhausted, Due
<1>2. /\ TypeOK /\ sent \in Nat
      /\ \A s \in transmit : /\ s \in Slot /\ s.msg \in Nat /\ s.seq \in Sequences
                             /\ s.retries \in 0 .. MaxRetries
  BY Types DEF Steady
<1>3. f \in [S -> Slot] /\ \A s \in S : f[s].seq = s.seq /\ f[s].msg = s.msg
  <2> SUFFICES ASSUME NEW s \in S
               PROVE  /\ Waiting(s, accepted) \in Slot
                      /\ Waiting(s, accepted).seq = s.seq /\ Waiting(s, accepted).msg = s.msg
    OBVIOUS
  <2>1. CASE s \notin Due
    BY <1>2, <2>1 DEF Waiting
  <2>2. CASE s \in Due
    <3>1. s.retries < MaxRetries
      BY <1>2, <2>2, Constants DEF Exhausted
    <3> DEFINE r == IF s \in accepted THEN s.retries + 1 ELSE s.retries
    <3>2. r \in 0 .. MaxRetries
      BY <1>2, <3>1, Constants
    <3>3. Waiting(s, accepted) = [s EXCEPT !.retries = r, !.left = RetryTimeout]
      BY <2>2 DEF Waiting
    <3>4. RetryTimeout \in 0 .. RetryTimeout
      BY Constants
    <3> HIDE DEF r
    <3> QED BY <1>2, <3>2, <3>3, <3>4, Zenon DEF Slot
  <2> QED BY <2>1, <2>2
<1>4. S \in SUBSET transmit
  OBVIOUS
<1> HIDE DEF f, S
<1>5. /\ transmit' \subseteq Slot /\ IsFiniteSet(transmit')
      /\ Cardinality(transmit') <= MaxWindow
      /\ InFlight' = {s.msg : s \in S}
      /\ \A s \in transmit' : \E t \in transmit : s.seq = t.seq /\ s.msg = t.msg
      /\ \A s, t \in transmit' : s.msg = t.msg => s = t
  BY Zenon, <1>1, <1>3, <1>4, RetimedSlots
<1>6. TypeOK'
  <2>1. losses' \in Nat
    BY <1>1, <1>2, FS_Subset, FS_CardinalityType DEF TypeOK
  <2>2. net' \subseteq Envelope
    BY <1>1, <1>2 DEF TypeOK, Envelope
  <2>3. abandoned' \subseteq Nat
    BY <1>1, <1>2 DEF TypeOK
  <2>4. success_count' \in 0 .. CountMod - 1
    <3>1. success_count \in 0 .. CountMod - 1
      BY <1>2 DEF TypeOK
    <3>2. 0 \in 0 .. CountMod - 1
      BY Constants
    <3>3. success_count' = success_count \/ success_count' = 0
      BY <1>1
    <3> QED BY <3>1, <3>2, <3>3
  <2> QED BY <1>1, <1>2, <1>5, <2>1, <2>2, <2>3, <2>4 DEF TypeOK
<1>7. \A m : Received(m)' <=> Received(m)
  BY <1>1 DEF Received
<1>8. Wire' /\ Distinct'
  BY <1>1, <1>5 DEF Steady, Wire, Distinct
<1>9. OneFate'
  <2>1. InFlight = InFlight' \cup {s.msg : s \in Exhausted}
    <3>1. transmit = S \cup Exhausted
      BY <1>1 DEF S
    <3> QED BY <1>5, <3>1 DEF InFlight
  <2>2. InFlight' \cap {s.msg : s \in Exhausted} = {}
    BY <1>1, <1>5 DEF S, Steady, Distinct
  <2> QED BY <1>1, <2>1, <2>2 DEF Steady, OneFate
<1>10. ASSUME Aligned PROVE Aligned'
  <2>1. Recent'
    <3>1. \A s \in transmit : Retained(s)
      BY <1>10 DEF Aligned, Recent
    <3>2. ASSUME NEW e \in net' PROVE Retained(e)'
      <4>1. sent' = sent
        BY <1>1
      <4>2. CASE e \in net
        <5>1. Retained(e)
          BY <1>10, <4>2 DEF Aligned, Recent
        <5> QED BY <4>1, <5>1 DEF Retained
      <4>3. CASE e \notin net
        <5>1. PICK s \in accepted \ lost : e = [seq |-> s.seq, msg |-> s.msg]
          BY <1>1, <4>3
        <5>2. e.seq = s.seq /\ e.msg = s.msg
          BY <5>1
        <5>3. Retained(s)
          BY <1>1, <3>1, <5>1
        <5> QED BY <4>1, <5>2, <5>3 DEF Retained
      <4> QED BY <4>2, <4>3
    <3>3. ASSUME NEW s \in transmit' PROVE Retained(s)'
      <4>1. PICK t \in transmit : s.seq = t.seq /\ s.msg = t.msg
        BY <1>5
      <4>2. Retained(t)
        BY <3>1
      <4>3. sent' = sent
        BY <1>1
      <4> QED BY <4>1, <4>2, <4>3 DEF Retained
    <3>4. \A a \in acks' : Retained(a)' /\ Received(a.msg)'
      BY <1>1, <1>7, <1>10 DEF Aligned, Recent, Retained
    <3> QED BY <3>2, <3>3, <3>4 DEF Recent
  <2>2. Accounted' /\ InOrder' /\ BufferedInWindow'
    BY <1>1, <1>10 DEF Aligned, Accounted, InOrder, BufferedInWindow
  <2>3. ConfirmedReceived'
    BY <1>1, <1>7, <1>10 DEF Aligned, ConfirmedReceived
  <2> QED BY <2>1, <2>2, <2>3 DEF Aligned
<1> QED BY <1>6, <1>8, <1>9, <1>10 DEF Steady

(* rns_channel_receive answers OK to a duplicate only if it holds or has
   handed over that very message. *)
LEMMA DuplicateReceived ==
  ASSUME Steady, Aligned, NEW e \in net, ReceiveDuplicate(e)
  PROVE  Received(e.msg)
<1>1. /\ e.msg \in Nat /\ e.msg < sent /\ sent - e.msg <= Retention
      /\ e.seq = e.msg % SeqMod
      /\ sequence_before(e.seq, expected_sequence) <=> e.msg < Len(delivered)
  BY ArrivalPosition
<1>2. CASE sequence_before(e.seq, expected_sequence)
  BY <1>1, <1>2 DEF Received
<1>3. CASE e.seq \in DOMAIN receive
  <2> DEFINE m == receive[e.seq]
  <2>1. /\ m % SeqMod = e.seq /\ m \in Nat /\ m < sent
        /\ Len(delivered) <= m /\ m < Len(delivered) + MaxWindow
    BY <1>3, Types DEF Steady, Aligned, BufferedInWindow, Accounted
  <2>2. sent - Len(delivered) <= Retention /\ Len(delivered) <= sent
    BY DEF Aligned, Accounted
  <2>3. /\ SeqMod \in Nat \ {0} /\ Len(delivered) \in Nat /\ sent \in Nat
        /\ Retention \in Nat /\ MaxWindow \in Nat /\ Retention < SeqMod
    BY Constants, Types DEF Steady
  <2> HIDE DEF m
  <2>4. m - e.msg < SeqMod /\ e.msg - m < SeqMod
    BY <1>1, <2>1, <2>2, <2>3
  <2>5. m % SeqMod = e.msg % SeqMod
    BY <1>1, <2>1
  <2>6. m = e.msg
    <3> DEFINE k == e.msg
    <3>1. SeqMod \in Nat \ {0} /\ m \in Int /\ k \in Int
      BY <1>1, <2>1, <2>3
    <3>2. m % SeqMod = k % SeqMod /\ m - k < SeqMod /\ k - m < SeqMod
      BY <2>4, <2>5
    <3> HIDE DEF k
    <3>3. m = k
      BY Zenon, <3>1, <3>2, SameWire
    <3> QED BY <3>3 DEF k
  <2> QED BY <1>3, <2>6 DEF Received, m
<1> QED BY <1>2, <1>3 DEF ReceiveDuplicate

(* A duplicate only adds its proof. *)
LEMMA ReceiveDuplicateInv ==
  ASSUME Steady, NEW e \in net, ReceiveDuplicate(e)
  PROVE  Steady' /\ (Aligned => Aligned')
<1>1. /\ acks' = acks \cup {e}
      /\ UNCHANGED <<next_sequence, window, success_count, transmit, sent, confirmed, abandoned,
                     lapse, expected_sequence, receive, delivered, refusals, net, losses>>
  BY DEF ReceiveDuplicate, Prove, senderVars, receiverVars
<1>2. TypeOK'
  BY <1>1 DEF Steady, TypeOK
<1>3. Wire' /\ Distinct' /\ OneFate'
  BY <1>1 DEF Steady, Wire, Distinct, OneFate, InFlight
<1>4. \A m : Received(m)' <=> Received(m)
  BY <1>1 DEF Received
<1>5. ASSUME Aligned PROVE Aligned'
  <2>1. Recent'
    BY <1>1, <1>4, <1>5, DuplicateReceived DEF Aligned, Recent, Retained
  <2>2. Accounted' /\ InOrder' /\ BufferedInWindow'
    BY <1>1, <1>5 DEF Aligned, Accounted, InOrder, BufferedInWindow
  <2>3. ConfirmedReceived'
    BY <1>1, <1>4, <1>5 DEF Aligned, ConfirmedReceived
  <2> QED BY <2>1, <2>2, <2>3 DEF Aligned
<1> QED BY <1>2, <1>3, <1>5 DEF Steady

(* A buffer is in place when it holds, under its own sequence number, only
   messages of the window that starts at got. *)
InPlace(buffered, got) ==
  \A q \in DOMAIN buffered :
    /\ buffered[q] \in Nat /\ buffered[q] % SeqMod = q
    /\ got <= buffered[q] /\ buffered[q] < got + MaxWindow

(* drain_receive takes the next messages in order and leaves the later ones. *)
LEMMA DrainInOrder ==
  ASSUME TypeOK, Wire, NEW buffered, InPlace(buffered, Len(delivered)),
         NEW n \in 0 .. MaxWindow, NEW refused \in BOOLEAN, Drain(buffered, n, refused)
  PROVE  /\ \A i \in 0 .. n - 1 : /\ Following(i) \in DOMAIN buffered
                                  /\ buffered[Following(i)] = Len(delivered) + i
         /\ \A q \in DOMAIN receive' : /\ q \in DOMAIN buffered /\ receive'[q] = buffered[q]
                                        /\ Len(delivered) + n <= buffered[q]
         /\ \A q \in DOMAIN buffered :
              q \in DOMAIN receive' \/ buffered[q] < Len(delivered) + n
         /\ expected_sequence' = (Len(delivered) + n) % SeqMod
<1> DEFINE got == Len(delivered)
<1>1. /\ got \in Nat /\ SeqMod \in Nat \ {0} /\ MaxWindow \in Nat
      /\ MaxWindow < SeqMod /\ n \in Nat /\ n <= MaxWindow
  BY Types, Constants
<1>2. \A i \in Int : Following(i) = (got + i) % SeqMod
  <2> TAKE i \in Int
  <2>1. expected_sequence = got % SeqMod
    BY DEF Wire
  <2> HIDE DEF got
  <2>2. got \in Int /\ SeqMod \in Nat \ {0}
    BY <1>1
  <2>3. ((got % SeqMod) + i) % SeqMod = (got + i) % SeqMod
    BY Zenon, <2>2, ModPlus
  <2> QED BY <2>1, <2>3 DEF Following
<1>3. /\ \A i \in 0 .. n - 1 : Following(i) \in DOMAIN buffered
      /\ receive' = Remaining(buffered, n) /\ expected_sequence' = Following(n)
  BY DEF Drain, Advanced
<1>4. \A q \in DOMAIN buffered :
        /\ buffered[q] \in Nat /\ buffered[q] % SeqMod = q
        /\ got <= buffered[q] /\ buffered[q] < got + MaxWindow
  BY DEF InPlace
<1> HIDE DEF got
<1>5. ASSUME NEW i \in 0 .. n - 1 PROVE buffered[Following(i)] = got + i
  <2> DEFINE m == buffered[Following(i)]
  <2>1. /\ m \in Nat /\ m % SeqMod = (got + i) % SeqMod
        /\ got <= m /\ m < got + MaxWindow
    BY <1>2, <1>3, <1>4
  <2> HIDE DEF m
  <2>2. got + i \in Int /\ m \in Int /\ m - (got + i) < SeqMod /\ (got + i) - m < SeqMod
    BY <1>1, <2>1
  <2>3. m = got + i
    BY Zenon, <1>1, <2>1, <2>2, SameWire
  <2> QED BY <2>3 DEF m
<1>6. DOMAIN receive' = DOMAIN buffered \ {Following(i) : i \in 0 .. n - 1}
  BY <1>3 DEF Remaining
<1>7. \A q \in DOMAIN receive' : receive'[q] = buffered[q]
  BY <1>3 DEF Remaining
<1>8. ASSUME NEW q \in DOMAIN buffered, buffered[q] < got + n
      PROVE  q \in {Following(i) : i \in 0 .. n - 1}
  <2>1. buffered[q] - got \in 0 .. n - 1
    BY <1>1, <1>4, <1>8
  <2>2. Following(buffered[q] - got) = q
    <3>1. got + (buffered[q] - got) = buffered[q]
      BY <1>1, <1>4
    <3> QED BY <1>2, <1>4, <2>1, <3>1
  <2> QED BY <2>1, <2>2
<1>9. \A q \in DOMAIN buffered : got + n \in Int /\ buffered[q] \in Int
  BY <1>1, <1>4
<1>10. ASSUME NEW q \in DOMAIN receive' PROVE got + n <= buffered[q]
  BY <1>6, <1>8, <1>9
<1>11. ASSUME NEW q \in DOMAIN buffered, q \notin DOMAIN receive'
       PROVE  buffered[q] < got + n
  <2>1. PICK i \in 0 .. n - 1 : q = Following(i)
    BY <1>6, <1>11
  <2> QED BY <1>1, <1>5, <2>1
<1>12. expected_sequence' = (got + n) % SeqMod
  BY <1>1, <1>2, <1>3
<1>13. \A i \in 0 .. n - 1 : /\ Following(i) \in DOMAIN buffered
                            /\ buffered[Following(i)] = got + i
  BY <1>3, <1>5
<1>14. \A q \in DOMAIN receive' : /\ q \in DOMAIN buffered /\ receive'[q] = buffered[q]
                                  /\ got + n <= buffered[q]
  BY <1>6, <1>7, <1>10
<1>15. \A q \in DOMAIN buffered : q \in DOMAIN receive' \/ buffered[q] < got + n
  BY <1>11
<1> QED BY <1>12, <1>13, <1>14, <1>15 DEF got

Held == {receive[q] : q \in DOMAIN receive}

(* What a new envelope inside the window does: the buffer with it is in
   place, and the callback is given the next n messages. *)
LEMMA ReceiveNewEffect ==
  ASSUME Steady, Aligned, NEW e \in net, NEW n \in 0 .. MaxWindow, NEW refused \in BOOLEAN,
         ReceiveNew(e, n, refused)
  PROVE  /\ delivered' \in Seq(Nat) /\ Len(delivered') = Len(delivered) + n
         /\ InOrder' /\ Len(delivered') <= sent
         /\ expected_sequence' = Len(delivered') % SeqMod
         /\ \A q \in DOMAIN receive' :
              /\ q \in Sequences /\ receive'[q] \in Nat /\ receive'[q] < sent
              /\ receive'[q] % SeqMod = q
              /\ Len(delivered') <= receive'[q]
              /\ receive'[q] < Len(delivered) + MaxWindow
         /\ receive' \in [DOMAIN receive' -> Nat]
         /\ \A m \in Nat : Received(m) => Received(m)'
         /\ Received(e.msg)'
         /\ Len(delivered) <= e.msg /\ e.msg < sent /\ e.msg \notin Held
         /\ Len(delivered) .. Len(delivered) + n - 1 \subseteq Held \cup {e.msg}
         /\ Held' = (Held \cup {e.msg}) \ (Len(delivered) .. Len(delivered) + n - 1)
<1> DEFINE buffered == [q \in DOMAIN receive \cup {e.seq} |->
                          IF q = e.seq THEN e.msg ELSE receive[q]]
           got == Len(delivered)
           run == [i \in 1 .. n |-> buffered[Following(i - 1)]]
<1>1. TypeOK /\ Wire /\ BufferedInWindow /\ InOrder /\ Accounted
  BY DEF Steady, Aligned
<1>2. /\ got \in Nat /\ MaxWindow \in Nat /\ n \in Nat /\ sent \in Nat /\ got <= sent
      /\ SeqMod \in Nat \ {0} /\ delivered \in Seq(Nat)
  BY <1>1, Types, Constants DEF Accounted
<1>3. /\ e.msg \in Nat /\ e.msg < sent /\ e.seq = e.msg % SeqMod
      /\ got <= e.msg /\ e.msg < got + MaxWindow /\ e.seq \in Sequences
  <2>1. /\ e.msg \in Nat /\ e.msg < sent /\ e.seq = e.msg % SeqMod
        /\ sequence_before(e.seq, expected_sequence) <=> e.msg < got
        /\ got <= e.msg => sequence_distance(e.seq, expected_sequence) = e.msg - got
    BY ArrivalPosition
  <2>2. ~sequence_before(e.seq, expected_sequence) /\ InWindow(e.seq)
    BY DEF ReceiveNew
  <2>3. e.seq \in Sequences
    BY <1>1, Types
  <2>4. sequence_distance(e.seq, expected_sequence) < MaxWindow
    BY <2>2 DEF InWindow
  <2> HIDE DEF got
  <2> QED BY <1>2, <2>1, <2>2, <2>3, <2>4
<1>4. \A q \in DOMAIN receive : /\ receive[q] \in Nat /\ q \in Sequences /\ receive[q] < sent
                                /\ receive[q] % SeqMod = q
                                /\ got <= receive[q] /\ receive[q] < got + MaxWindow
  BY <1>1, Types DEF BufferedInWindow, Accounted
<1>5. /\ \A q \in DOMAIN buffered : /\ q \in Sequences /\ buffered[q] < sent
                                    /\ buffered[q] \in Nat
      /\ InPlace(buffered, got)
  BY <1>3, <1>4 DEF InPlace
<1>6. Drain(buffered, n, refused)
  BY DEF ReceiveNew
<1>7. e.seq \notin DOMAIN receive
  BY DEF ReceiveNew
<1>8. \A q \in DOMAIN receive : q \in DOMAIN buffered /\ buffered[q] = receive[q]
  BY <1>7
<1>9. e.seq \in DOMAIN buffered /\ buffered[e.seq] = e.msg
  OBVIOUS
<1>10. delivered' = delivered \o run /\ receive' = Remaining(buffered, n)
  BY <1>6 DEF Drain
<1> HIDE DEF buffered
<1>11. /\ \A i \in 0 .. n - 1 : /\ Following(i) \in DOMAIN buffered
                                /\ buffered[Following(i)] = got + i
       /\ \A q \in DOMAIN receive' : /\ q \in DOMAIN buffered /\ receive'[q] = buffered[q]
                                      /\ got + n <= buffered[q]
       /\ \A q \in DOMAIN buffered : q \in DOMAIN receive' \/ buffered[q] < got + n
       /\ expected_sequence' = (got + n) % SeqMod
  BY <1>1, <1>5, <1>6, DrainInOrder
<1> HIDE DEF got
<1>12. \A i \in 1 .. n : run[i] = got + (i - 1)
  <2> TAKE i \in 1 .. n
  <2>1. i - 1 \in 0 .. n - 1
    BY <1>2
  <2> QED BY <1>11, <2>1
<1>13. run \in Seq(Nat) /\ Len(run) = n
  <2>1. \A i \in 1 .. n : buffered[Following(i - 1)] \in Nat
    BY <1>12, <1>2
  <2>2. run \in [1 .. n -> Nat]
    BY <2>1
  <2> QED BY <1>2, <2>2
<1> HIDE DEF run
<1>14. delivered' \in Seq(Nat) /\ Len(delivered') = got + n
  BY <1>2, <1>10, <1>13 DEF got
<1>15. InOrder'
  <2> SUFFICES ASSUME NEW i \in 1 .. got + n PROVE delivered'[i] = i - 1
    BY <1>14 DEF InOrder
  <2>1. CASE i <= got
    <3>1. delivered'[i] = delivered[i]
      BY <1>2, <1>10, <1>13, <2>1 DEF got
    <3> QED BY <1>1, <1>2, <2>1, <3>1 DEF InOrder, got
  <2>2. CASE i > got
    <3>1. i - got \in 1 .. n
      BY <1>2, <2>2
    <3>2. delivered'[i] = run[i - got]
      BY <1>2, <1>10, <1>13, <2>2 DEF got
    <3> QED BY <1>2, <1>12, <3>1, <3>2
  <2> QED BY <1>2, <2>1, <2>2
<1>16. got + n <= sent
  <2>1. CASE n = 0
    BY <1>2, <2>1
  <2>2. CASE n # 0
    <3>1. n - 1 \in 0 .. n - 1
      BY <1>2, <2>2
    <3>2. buffered[Following(n - 1)] = got + (n - 1) /\ Following(n - 1) \in DOMAIN buffered
      BY <1>11, <3>1
    <3>3. got + (n - 1) < sent
      BY <1>5, <3>2
    <3> QED BY <1>2, <3>3
  <2> QED BY <2>1, <2>2
<1>17. \A q \in DOMAIN receive' :
         /\ q \in Sequences /\ receive'[q] \in Nat /\ receive'[q] < sent
         /\ receive'[q] % SeqMod = q /\ got + n <= receive'[q] /\ receive'[q] < got + MaxWindow
  BY <1>5, <1>11 DEF InPlace
<1>18. receive' \in [DOMAIN receive' -> Nat]
  BY <1>10, <1>17 DEF Remaining
<1>19. ASSUME NEW m, NEW q \in DOMAIN buffered, buffered[q] = m PROVE Received(m)'
  BY <1>11, <1>14, <1>19 DEF Received
<1>20. ASSUME NEW m \in Nat, Received(m) PROVE Received(m)'
  <2>1. CASE m < got
    BY <1>2, <1>14, <2>1 DEF Received
  <2>2. CASE \E q \in DOMAIN receive : receive[q] = m
    BY <1>8, <1>19, <2>2
  <2> QED BY <1>20, <2>1, <2>2 DEF Received, got
<1>21. Received(e.msg)'
  BY <1>9, <1>19
<1>22. e.msg \notin Held
  BY <1>3, <1>4, <1>7 DEF Held
<1>23. Held \cup {e.msg} = {buffered[q] : q \in DOMAIN buffered}
  BY <1>7, <1>8, <1>9, Zenon DEF Held, buffered
<1>24. got .. got + n - 1 \subseteq Held \cup {e.msg}
  <2> SUFFICES ASSUME NEW m \in got .. got + n - 1
               PROVE  \E q \in DOMAIN buffered : buffered[q] = m
    BY <1>23
  <2>1. m - got \in 0 .. n - 1 /\ got + (m - got) = m
    BY <1>2
  <2> QED BY <1>11, <2>1
<1>25. Held' = (Held \cup {e.msg}) \ (got .. got + n - 1)
  <2>1. Held' = {receive'[q] : q \in DOMAIN receive'}
    BY DEF Held
  <2>2. \A q \in DOMAIN buffered : buffered[q] \in Nat /\ got <= buffered[q]
    BY <1>5 DEF InPlace
  <2>3. \A q \in DOMAIN buffered : q \in DOMAIN receive' <=> buffered[q] \notin got .. got + n - 1
    BY <1>2, <1>11, <2>2
  <2> QED BY <1>11, <1>23, <2>1, <2>3
<1> QED BY <1>3, <1>11, <1>14, <1>15, <1>16, <1>17, <1>18, <1>20, <1>21, <1>22, <1>24, <1>25 DEF got

(* rns_channel_receive of a new envelope keeps what always holds: as many
   messages are handed over as the sequence advances. *)
LEMMA ReceiveNewSteady ==
  ASSUME Steady, NEW e \in net, NEW n \in 0 .. MaxWindow, NEW refused \in BOOLEAN,
         ReceiveNew(e, n, refused)
  PROVE  Steady'
<1> DEFINE buffered == [q \in DOMAIN receive \cup {e.seq} |->
                          IF q = e.seq THEN e.msg ELSE receive[q]]
           got == Len(delivered)
           run == [i \in 1 .. n |-> buffered[Following(i - 1)]]
<1>1. /\ UNCHANGED <<next_sequence, window, success_count, transmit, sent, confirmed,
                      abandoned, lapse, net, losses>>
      /\ acks' \subseteq acks \cup {e}
      /\ refusals' \in {refusals, refusals + 1}
  BY DEF ReceiveNew, Drain, Prove, senderVars
<1>2. /\ TypeOK /\ got \in Nat /\ n \in Nat /\ SeqMod \in Nat \ {0}
      /\ delivered \in Seq(Nat) /\ e \in Envelope
  BY Types, Constants DEF Steady
<1>3. \A q \in DOMAIN buffered : q \in Sequences /\ buffered[q] \in Nat
  BY <1>2, Types DEF Envelope
<1>4. Drain(buffered, n, refused)
  BY DEF ReceiveNew
<1> HIDE DEF buffered
<1>5. /\ \A i \in 0 .. n - 1 : Following(i) \in DOMAIN buffered
      /\ receive' = Remaining(buffered, n) /\ expected_sequence' = Following(n)
      /\ delivered' = delivered \o run
  BY <1>4 DEF Drain, Advanced
<1>6. run \in Seq(Nat) /\ Len(run) = n
  <2>1. \A i \in 1 .. n : i - 1 \in 0 .. n - 1
    BY <1>2
  <2>2. run \in [1 .. n -> Nat]
    BY <1>3, <1>5, <2>1
  <2> QED BY <1>2, <2>2
<1> HIDE DEF run
<1>7. delivered' \in Seq(Nat) /\ Len(delivered') = got + n
  <2>1. \A a, b \in Seq(Nat) : a \o b \in Seq(Nat) /\ Len(a \o b) = Len(a) + Len(b)
    OBVIOUS
  <2> QED BY Zenon, <1>2, <1>5, <1>6, <2>1
<1>8. expected_sequence' = (got + n) % SeqMod
  <2>1. expected_sequence = got % SeqMod
    BY DEF Steady, Wire
  <2> HIDE DEF got
  <2>2. got \in Int /\ n \in Int /\ SeqMod \in Nat \ {0}
    BY <1>2
  <2>3. ((got % SeqMod) + n) % SeqMod = (got + n) % SeqMod
    BY Zenon, <2>2, ModPlus
  <2> QED BY <1>5, <2>1, <2>3 DEF Following
<1>9. Wire'
  BY <1>1, <1>7, <1>8 DEF Steady, Wire
<1>10. DOMAIN receive' \subseteq Sequences /\ receive' \in [DOMAIN receive' -> Nat]
  BY <1>3, <1>5 DEF Remaining
<1>11. TypeOK'
  <2>1. expected_sequence' \in Sequences
    <3>1. got + n \in Int
      BY <1>2
    <3> QED BY <1>2, <1>8, <3>1, ModRange DEF Sequences
  <2>2. acks' \subseteq Envelope /\ refusals' \in Nat
    BY <1>1, <1>2 DEF TypeOK
  <2> QED BY <1>1, <1>2, <1>7, <1>10, <2>1, <2>2 DEF TypeOK
<1>12. Distinct' /\ OneFate'
  BY <1>1 DEF Steady, Distinct, OneFate, InFlight
<1> QED BY <1>9, <1>11, <1>12 DEF Steady

(* rns_channel_receive of a new envelope keeps the two ends aligned. *)
LEMMA ReceiveNewAligned ==
  ASSUME Steady, Aligned, NEW e \in net, NEW n \in 0 .. MaxWindow, NEW refused \in BOOLEAN,
         ReceiveNew(e, n, refused)
  PROVE  Aligned'
<1>1. UNCHANGED <<transmit, sent, confirmed, net>> /\ acks' \subseteq acks \cup {e}
  BY DEF ReceiveNew, Drain, Prove, senderVars
<1>2. /\ delivered' \in Seq(Nat) /\ Len(delivered') = Len(delivered) + n
      /\ InOrder' /\ Len(delivered') <= sent
      /\ \A q \in DOMAIN receive' :
           /\ q \in Sequences /\ receive'[q] \in Nat /\ receive'[q] < sent
           /\ receive'[q] % SeqMod = q
           /\ Len(delivered') <= receive'[q]
           /\ receive'[q] < Len(delivered) + MaxWindow
      /\ \A m \in Nat : Received(m) => Received(m)'
      /\ Received(e.msg)'
  BY ReceiveNewEffect
<1>3. /\ TypeOK /\ n \in Nat /\ Len(delivered) \in Nat /\ MaxWindow \in Nat
      /\ sent \in Nat /\ Retention \in Nat
  BY Types, Constants DEF Steady
<1>4. Recent'
  <2>1. \A a \in acks : a.msg \in Nat
    BY <1>3, Types
  <2>2. \A a \in acks' : Received(a.msg)'
    BY <1>1, <1>2, <2>1 DEF Aligned, Recent
  <2>3. \A a \in acks \cup net : Retained(a)'
    BY <1>1 DEF Aligned, Recent, Retained
  <2> QED BY <1>1, <2>2, <2>3 DEF Aligned, Recent, Retained
<1>5. Accounted'
  <2>1. \A q \in DOMAIN receive' : receive'[q] < sent'
    BY <1>1, <1>2
  <2>2. Len(delivered') <= sent' /\ sent' - Len(delivered') <= Retention
    BY <1>1, <1>2, <1>3 DEF Aligned, Accounted
  <2> QED BY <2>1, <2>2 DEF Accounted
<1>6. ConfirmedReceived'
  BY <1>1, <1>2, <1>3 DEF Aligned, ConfirmedReceived, TypeOK
<1>7. BufferedInWindow'
  <2> SUFFICES ASSUME NEW q \in DOMAIN receive'
               PROVE  /\ receive'[q] % SeqMod = q /\ Len(delivered') <= receive'[q]
                      /\ receive'[q] < Len(delivered') + MaxWindow
    BY DEF BufferedInWindow
  <2> QED BY <1>2, <1>3
<1> QED BY <1>2, <1>4, <1>5, <1>6, <1>7 DEF Aligned

(* Every step of the specification keeps the invariant.  The ends that are
   together after a step were together before it. *)
LEMMA NextInv == Inv /\ [Next]_vars => Inv'
<1> SUFFICES ASSUME Inv, [Next]_vars PROVE Inv'
  OBVIOUS
<1>0. Steady /\ GapNeedsTimeout /\ (Together => Aligned)
  BY DEF Inv
<1>a. ASSUME lapse' = lapse, abandoned \subseteq abandoned', Steady', Aligned => Aligned'
      PROVE  Inv'
  BY <1>0, <1>a DEF Inv, GapNeedsTimeout, Together
<1>1. CASE \E lost \in BOOLEAN : Send(lost)
  <2>1. PICK lost \in BOOLEAN : Send(lost)
    BY <1>1
  <2>2. Steady'
    BY <1>0, <2>1, SendSteady
  <2>3. lapse' = Lapse(sent + 1) /\ abandoned' = abandoned
    BY <2>1 DEF Send
  <2>4. CASE Together
    <3>1. GapNeedsTimeout'
      BY <1>0, <2>1, <2>4, SendGap
    <3>2. Together' => Aligned'
      BY <1>0, <2>1, <2>4, SendAligned
    <3> QED BY <2>2, <3>1, <3>2 DEF Inv
  <2>5. CASE ~Together
    <3>1. lapse' = lapse
      BY <2>3, <2>5 DEF Lapse, Together
    <3> QED BY <1>0, <2>2, <2>3, <2>5, <3>1 DEF Inv, GapNeedsTimeout, Together
  <2> QED BY <2>4, <2>5
<1>2. CASE \E a \in acks, s \in transmit : MarkDelivered(a, s)
  <2>1. PICK a \in acks, s \in transmit : MarkDelivered(a, s)
    BY <1>2
  <2>2. lapse' = lapse /\ abandoned' = abandoned
    BY <2>1 DEF MarkDelivered
  <2> QED BY <1>0, <1>a, <2>1, <2>2, MarkDeliveredSteady, MarkDeliveredAligned
<1>3. CASE \E accepted, lost \in SUBSET transmit : Tick(accepted, lost)
  <2>1. PICK accepted, lost \in SUBSET transmit : Tick(accepted, lost)
    BY <1>3
  <2>2. lapse' = lapse /\ abandoned \subseteq abandoned'
    BY <2>1 DEF Tick
  <2> QED BY <1>0, <1>a, <2>1, <2>2, TickInv
<1>4. CASE Elapse
  <2>1. lapse' = lapse /\ abandoned' = abandoned
    BY <1>4 DEF Elapse
  <2> QED BY <1>0, <1>a, <1>4, <2>1, ElapseInv
<1>5. CASE \E e \in net : ReceiveDuplicate(e)
  <2>1. PICK e \in net : ReceiveDuplicate(e)
    BY <1>5
  <2>2. lapse' = lapse /\ abandoned' = abandoned
    BY <2>1 DEF ReceiveDuplicate, senderVars
  <2> QED BY <1>0, <1>a, <2>1, <2>2, ReceiveDuplicateInv
<1>6. CASE \E e \in net, n \in 0 .. MaxWindow, refused \in BOOLEAN : ReceiveNew(e, n, refused)
  <2>1. PICK e \in net, n \in 0 .. MaxWindow, refused \in BOOLEAN : ReceiveNew(e, n, refused)
    BY <1>6
  <2>2. lapse' = lapse /\ abandoned' = abandoned
    BY <2>1 DEF ReceiveNew, senderVars
  <2> QED BY <1>0, <1>a, <2>1, <2>2, ReceiveNewSteady, ReceiveNewAligned
<1>7. CASE UNCHANGED vars
  <2>1. UNCHANGED <<next_sequence, window, success_count, transmit, sent, confirmed, abandoned,
                    lapse, expected_sequence, receive, delivered, refusals, net, acks, losses>>
    BY <1>7 DEF vars, senderVars, receiverVars
  <2>2. Steady'
    BY <1>0, <2>1 DEF Steady, TypeOK, Wire, Distinct, OneFate, InFlight
  <2>3. Aligned => Aligned'
    BY <2>1 DEF Aligned, Recent, Retained, Received, Accounted, InOrder, ConfirmedReceived,
                BufferedInWindow
  <2> QED BY <1>a, <2>1, <2>2, <2>3
<1> QED BY <1>1, <1>2, <1>3, <1>4, <1>5, <1>6, <1>7 DEF Next

(* The inductive invariant of the channel, for every sequence space, window
   and retry limit that rns_channel_init allows, and for every caller and
   link: the part about both ends ends with the first send that leaves
   Retention, which rns_channel_send does not prevent. *)
THEOREM ChannelInvariant == Spec => []Inv
BY InitInv, NextInv, PTL DEF Spec

(* What the sender reports of a message is exclusive and exhaustive, the
   receiver gets out of reach only after a TIMEOUT, and as long as the ends
   are within Retention of each other the receive callback is given message
   0, 1, 2, ... and a DELIVERED event is true of the peer. *)
THEOREM ChannelIsSound == Spec => []ChannelSound
<1>1. Inv => ChannelSound
  BY DEF Inv, Steady, Aligned, ChannelSound
<1> QED BY <1>1, ChannelInvariant, PTL

(* Each step that leaves the ends together is a step of the FIFO, or leaves
   it alone. *)
LEMMA StepRefines == Inv /\ [Next]_vars => [Together' => [Fifo!Next]_(Fifo!vars)]_vars
<1> SUFFICES ASSUME Inv, [Next]_vars, Together' PROVE [Fifo!Next]_(Fifo!vars)
  OBVIOUS
<1>a. Together
  BY Zenon DEF Next, Send, Lapse, MarkDelivered, Tick, Elapse, ReceiveDuplicate, ReceiveNew,
         vars, senderVars, Together
<1>b. Steady /\ Aligned
  BY <1>a DEF Inv
<1>0. /\ sent \in Nat /\ Len(delivered) \in Nat /\ Len(delivered) <= sent
      /\ Fifo!vars = <<sent, Len(delivered), Held, confirmed>>
  BY <1>b, Types DEF Steady, Aligned, Accounted, Fifo!vars, Held
<1>1. ASSUME NEW lost \in BOOLEAN, Send(lost) PROVE Fifo!Submit
  BY <1>1, Zenon DEF Send, receiverVars, Fifo!Submit
<1>2. ASSUME NEW a \in acks, NEW s \in transmit, MarkDelivered(a, s)
      PROVE  s.msg \in 0 .. sent - 1 /\ Fifo!Confirm(s.msg)
  <2>1. /\ confirmed' = confirmed \cup {s.msg}
        /\ UNCHANGED <<sent, receive, delivered>>
    BY <1>2 DEF MarkDelivered, receiverVars
  <2>2. Received(s.msg)
    BY <1>2, <1>b, MarkDeliveredAligned
  <2>3. s.msg \in 0 .. sent - 1 /\ s.msg \notin confirmed
    BY <1>b DEF Steady, OneFate, InFlight
  <2> QED BY <2>1, <2>2, <2>3, Zenon DEF Fifo!Confirm, Received
<1>3. ASSUME NEW e \in net, NEW n \in 0 .. MaxWindow, NEW refused \in BOOLEAN,
             ReceiveNew(e, n, refused)
      PROVE  /\ e.msg \in Len(delivered) .. sent - 1 /\ n \in 0 .. sent - Len(delivered)
             /\ Fifo!Arrive(e.msg, n)
  <2>1. /\ Len(delivered') = Len(delivered) + n /\ Len(delivered') <= sent
        /\ Len(delivered) <= e.msg /\ e.msg < sent /\ e.msg \notin Held
        /\ Len(delivered) .. Len(delivered) + n - 1 \subseteq Held \cup {e.msg}
        /\ Held' = (Held \cup {e.msg}) \ (Len(delivered) .. Len(delivered) + n - 1)
    BY <1>3, <1>b, ReceiveNewEffect
  <2>2. e.msg \in Nat /\ n \in Nat
    BY <1>b, Types, Constants DEF Steady
  <2>3. e.msg \in Len(delivered) .. sent - 1 /\ n \in 0 .. sent - Len(delivered)
    BY <1>0, <2>1, <2>2
  <2>4. UNCHANGED <<sent, confirmed>>
    BY <1>3 DEF ReceiveNew, senderVars
  <2> QED BY <2>1, <2>3, <2>4, Zenon DEF Fifo!Arrive, Held
<1>4. ASSUME UNCHANGED <<sent, delivered, receive, confirmed>>
      PROVE  UNCHANGED Fifo!vars
  BY <1>4 DEF Fifo!vars
<1>5. CASE \E accepted, lost \in SUBSET transmit : Tick(accepted, lost)
  BY <1>4, <1>5 DEF Tick, receiverVars
<1>6. CASE Elapse
  BY <1>4, <1>6 DEF Elapse, receiverVars
<1>7. CASE \E e \in net : ReceiveDuplicate(e)
  BY <1>4, <1>7 DEF ReceiveDuplicate, senderVars, receiverVars
<1>8. CASE UNCHANGED vars
  BY <1>4, <1>8 DEF vars, senderVars, receiverVars
<1>9. CASE \E lost \in BOOLEAN : Send(lost)
  BY <1>1, <1>9 DEF Fifo!Next
<1>10. CASE \E a \in acks, s \in transmit : MarkDelivered(a, s)
  BY <1>2, <1>10 DEF Fifo!Next
<1>11. CASE \E e \in net, n \in 0 .. MaxWindow, refused \in BOOLEAN : ReceiveNew(e, n, refused)
  BY <1>3, <1>11 DEF Fifo!Next
<1> QED BY <1>5, <1>6, <1>7, <1>8, <1>9, <1>10, <1>11 DEF Next

(* The channel implements the FIFO with sound confirmations as long as its
   ends are together. *)
THEOREM ChannelRefinesFifo == Spec => ImplementsFifo
<1>1. Init => Fifo!Init
  <2> SUFFICES ASSUME Init PROVE Fifo!Init
    OBVIOUS
  <2>1. sent = 0 /\ confirmed = {} /\ Len(delivered) = 0
    BY DEF Init
  <2>2. {receive[q] : q \in DOMAIN receive} = {}
    <3>1. DOMAIN receive = {}
      BY DEF Init
    <3> QED BY <3>1
  <2> QED BY <2>1, <2>2 DEF Fifo!Init
<1> QED BY <1>1, StepRefines, ChannelInvariant, PTL DEF Spec, ImplementsFifo
=============================================================================
