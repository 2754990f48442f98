-------------------------- MODULE ReassemblyProofs --------------------------
(***************************************************************************)
(* The receiver never joins halves of different packets, nor a packet      *)
(* twice, for any packets, sequences, queue and number of echoes, as long  *)
(* as the guard time covers the fragment timeout and the life of a frame.  *)
(***************************************************************************)
EXTENDS Reassembly, SequenceTheorems, TLAPS

\* A packet is on its way with a sequence: it is queued, a frame of it is on the
\* air, or its first half waits at the receiver and is not too old to be joined.
Queued(p, s) == \E i \in DOMAIN outbox : outbox[i].of = p /\ outbox[i].seq = s
Waiting == half.of # "none" /\ half.age < FragmentTimeout

Shapes ==
  /\ outbox \in Seq([of : Frames, seq : Sequences16, part : 0 .. 1])
  /\ held_back \in [Sequences16 -> 0 .. ReuseGuard]
  /\ flying \subseteq [of : Frames, part : 1 .. 2, seq : Sequences16, life : 0 .. Life]
  /\ half.age \in Nat
  /\ half = [of |-> half.of, seq |-> half.seq, age |-> half.age]
  /\ half.of # "none" => half.of \in Halved /\ half.seq \in Sequences16

\* Once a packet has left the queue, its sequence is held back for longer than
\* what is left of it can last.
FlyingGuarded ==
  \A f \in flying : f.of \in Halved =>
     Queued(f.of, f.seq) \/ f.life + ReuseGuard <= held_back[f.seq] + Life
WaitingGuarded ==
  Waiting =>
     Queued(half.of, half.seq) \/ ReuseGuard <= held_back[half.seq] + half.age + Life

\* So a sequence belongs to one packet at a time.
QueueAlone ==
  \A i, j \in DOMAIN outbox :
     outbox[i].of \in Halved /\ outbox[j].of \in Halved /\ outbox[i].seq = outbox[j].seq
        => i = j
FlyingAlone ==
  \A f \in flying : f.of \in Halved =>
     /\ \A g \in flying : g.of \in Halved /\ g.seq = f.seq => g.of = f.of
     /\ \A i \in DOMAIN outbox :
           outbox[i].of \in Halved /\ outbox[i].seq = f.seq => outbox[i].of = f.of
     /\ Waiting /\ half.seq = f.seq => half.of = f.of
WaitingAlone ==
  Waiting => \A i \in DOMAIN outbox :
     outbox[i].of \in Halved /\ outbox[i].seq = half.seq => outbox[i].of = half.of

Owned ==
  /\ Shapes /\ FlyingGuarded /\ WaitingGuarded
  /\ QueueAlone /\ FlyingAlone /\ WaitingAlone
  /\ HalvesMatch

-----------------------------------------------------------------------------

\* Nothing is on its way.
LEMMA OwnedInitially == ASSUME FramesInit PROVE Owned
<1>1. /\ outbox = <<>> /\ flying = {} /\ delivered = {} /\ half = NoHalf
      /\ held_back \in [Sequences16 -> 0 .. ReuseGuard]
  BY ReassemblyConfig DEF FramesInit
<1>2. ~Waiting /\ half.age = 0 /\ half.of = "none"
  BY <1>1 DEF Waiting, NoHalf
<1>3. Shapes
  BY <1>1, <1>2 DEF Shapes, NoHalf
<1> QED
  BY <1>1, <1>2, <1>3 DEF Owned, FlyingGuarded, WaitingGuarded, QueueAlone, FlyingAlone,
     WaitingAlone, HalvesMatch

\* choose_split_sequence takes a sequence that is nobody's: what is still on its
\* way is guarded, and the sequence it takes is not.
LEMMA FreeIsUnused ==
  ASSUME Owned, NEW s \in Sequences16, Free(s)
  PROVE  /\ \A f \in flying : f.of \in Halved => f.seq # s
         /\ Waiting => half.seq # s
         /\ \A i \in DOMAIN outbox : outbox[i].of \in Halved => outbox[i].seq # s
<1>1. \A i \in DOMAIN outbox : outbox[i].of \in Halved => outbox[i].seq # s
  BY DEF Free
<1>2. held_back[s] = 0
  BY DEF Free
<1>3. ASSUME NEW f \in flying, f.of \in Halved, f.seq = s PROVE FALSE
  <2>1. f.life \in Nat
    BY ReassemblyConfig, <1>3 DEF Owned, Shapes
  <2>2. f.life + ReuseGuard <= held_back[s] + Life
    BY <1>1, <1>3 DEF Owned, FlyingGuarded, Queued
  <2> QED
    BY ReassemblyConfig, <1>2, <2>1, <2>2
<1>4. ASSUME Waiting, half.seq = s PROVE FALSE
  <2>1. half.age \in Nat /\ half.age < FragmentTimeout /\ half.of \in Halved
    BY <1>4 DEF Owned, Shapes, Waiting
  <2>2. ReuseGuard <= held_back[s] + half.age + Life
    BY <1>1, <1>4, <2>1 DEF Owned, WaitingGuarded, Queued
  <2> QED
    BY ReassemblyConfig, <1>2, <2>1, <2>2
<1> QED
  BY <1>1, <1>3, <1>4

\* A packet joins the queue.
LEMMA EnqueueOwned ==
  ASSUME Owned, NEW p \in Frames, NEW s \in Sequences16, Enqueue(p, s)
  PROVE  Owned'
<1> DEFINE e == [of |-> p, seq |-> s, part |-> 0]
           n == Len(outbox)
<1>1. /\ outbox' = Append(outbox, e) /\ (p \in Halved => Free(s))
      /\ held_back' = held_back /\ flying' = flying /\ half' = half /\ delivered' = delivered
  BY DEF Enqueue
<1>2. /\ outbox \in Seq([of : Frames, seq : Sequences16, part : 0 .. 1])
      /\ e \in [of : Frames, seq : Sequences16, part : 0 .. 1]
  BY DEF Owned, Shapes
<1>3. /\ outbox' \in Seq([of : Frames, seq : Sequences16, part : 0 .. 1])
      /\ n \in Nat /\ DOMAIN outbox = 1 .. n /\ DOMAIN outbox' = 1 .. n + 1
      /\ \A i \in 1 .. n : outbox'[i] = outbox[i]
      /\ outbox'[n + 1] = e
  BY <1>1, <1>2
<1>4. /\ outbox'[n + 1].of = p /\ outbox'[n + 1].seq = s
  BY <1>3
<1> HIDE DEF e, n
<1>5. Waiting' = Waiting
  BY <1>1 DEF Waiting
<1>6. \A q, t : Queued(q, t) => Queued(q, t)'
  BY <1>3 DEF Queued
<1>7. p \in Halved =>
         /\ \A f \in flying : f.of \in Halved => f.seq # s
         /\ Waiting => half.seq # s
         /\ \A i \in DOMAIN outbox : outbox[i].of \in Halved => outbox[i].seq # s
  BY <1>1, FreeIsUnused
<1>8. Shapes'
  BY <1>1, <1>3 DEF Owned, Shapes
<1>9. FlyingGuarded' /\ WaitingGuarded' /\ HalvesMatch'
  BY <1>1, <1>5, <1>6 DEF Owned, FlyingGuarded, WaitingGuarded, HalvesMatch
<1>10. QueueAlone'
  BY <1>3, <1>4, <1>7 DEF Owned, QueueAlone
<1>11. FlyingAlone'
  BY <1>1, <1>3, <1>4, <1>5, <1>7 DEF Owned, FlyingAlone
<1>12. WaitingAlone'
  BY <1>1, <1>3, <1>4, <1>5, <1>7 DEF Owned, WaitingAlone
<1> QED
  BY <1>8, <1>9, <1>10, <1>11, <1>12 DEF Owned

\* The front packet leaves the queue, with or without a last frame: from then on
\* its sequence is held back.
LEMMA PopOwned ==
  ASSUME Owned, outbox # <<>>, outbox' = Tail(outbox),
         held_back' = Guarded(Head(outbox).seq, Head(outbox).of),
         NEW part \in 1 .. 2,
         flying' \subseteq flying \cup {[of |-> Head(outbox).of, part |-> part,
                                       seq |-> Head(outbox).seq, life |-> Life]},
         half' = half, delivered' = delivered
  PROVE  Owned'
<1>1. PICK o \in [of : Frames, seq : Sequences16, part : 0 .. 1], n \in Nat :
        /\ o = Head(outbox) /\ n = Len(outbox) /\ n > 0 /\ DOMAIN outbox = 1 .. n /\ outbox[1] = o
        /\ outbox' \in Seq([of : Frames, seq : Sequences16, part : 0 .. 1])
        /\ DOMAIN outbox' = 1 .. n - 1
        /\ \A i \in 1 .. n - 1 : outbox'[i] = outbox[i + 1]
  <2>1. PICK R : R = [of : Frames, seq : Sequences16, part : 0 .. 1]
    BY Zenon
  <2>2. outbox \in Seq(R)
    BY <2>1 DEF Owned, Shapes
  <2>3. /\ Head(outbox) \in R /\ Len(outbox) \in Nat /\ Len(outbox) > 0
        /\ DOMAIN outbox = 1 .. Len(outbox) /\ outbox[1] = Head(outbox)
    BY <2>2
  <2>4. /\ outbox' \in Seq(R) /\ DOMAIN outbox' = 1 .. Len(outbox) - 1
        /\ \A i \in 1 .. Len(outbox) - 1 : outbox'[i] = outbox[i + 1]
    BY <2>2
  <2> QED
    BY Zenon, <2>1, <2>3, <2>4
<1>2. PICK r \in [of : Frames, part : 1 .. 2, seq : Sequences16, life : 0 .. Life] :
        /\ r.of = o.of /\ r.seq = o.seq /\ r.life = Life
        /\ flying' \subseteq flying \cup {r}
  <2>1. PICK r : r = [of |-> o.of, part |-> part, seq |-> o.seq, life |-> Life]
    BY Zenon
  <2>2. /\ r \in [of : Frames, part : 1 .. 2, seq : Sequences16, life : 0 .. Life]
        /\ r.of = o.of /\ r.seq = o.seq /\ r.life = Life
    BY ReassemblyConfig, <2>1
  <2>3. flying' \subseteq flying \cup {r}
    BY <1>1, <2>1
  <2> QED
    BY <2>2, <2>3
<1>3. /\ held_back' \in [Sequences16 -> 0 .. ReuseGuard]
      /\ \A s \in Sequences16 : held_back'[s] >= held_back[s]
      /\ o.of \in Halved => held_back'[o.seq] = ReuseGuard
  BY ReassemblyConfig, <1>1 DEF Guarded, Owned, Shapes
<1>4. Shapes'
  BY <1>1, <1>2, <1>3 DEF Owned, Shapes
<1>5. Waiting' = Waiting
  BY DEF Waiting
<1>6. \A p, s : Queued(p, s) => Queued(p, s)' \/ (p = o.of /\ s = o.seq)
  <2> SUFFICES ASSUME NEW p, NEW s, Queued(p, s) PROVE Queued(p, s)' \/ (p = o.of /\ s = o.seq)
    OBVIOUS
  <2>1. PICK i \in 1 .. n : outbox[i].of = p /\ outbox[i].seq = s
    BY <1>1 DEF Queued
  <2>2. CASE i = 1
    BY <1>1, <2>1, <2>2
  <2>3. CASE i > 1
    <3>1. i - 1 \in 1 .. n - 1 /\ (i - 1) + 1 = i
      BY <2>1, <2>3
    <3> QED
      BY <1>1, <2>1, <3>1, Zenon DEF Queued
  <2> QED
    BY <2>1, <2>2, <2>3
<1>7. FlyingGuarded'
  <2> SUFFICES ASSUME NEW f \in flying', f.of \in Halved
               PROVE  Queued(f.of, f.seq)' \/ f.life + ReuseGuard <= held_back'[f.seq] + Life
    BY DEF FlyingGuarded
  <2>0. f.life \in 0 .. Life /\ f.seq \in Sequences16
    BY <1>4 DEF Shapes
  <2>1. /\ f.life \in 0 .. Life /\ f.seq \in Sequences16 /\ held_back[f.seq] \in Nat
        /\ held_back'[f.seq] \in Nat /\ Life \in Nat /\ ReuseGuard \in Nat
    <3>1. held_back \in [Sequences16 -> 0 .. ReuseGuard] /\ Life \in Nat /\ ReuseGuard \in Nat
      BY ReassemblyConfig DEF Shapes, Owned
    <3>2. held_back[f.seq] \in 0 .. ReuseGuard /\ held_back'[f.seq] \in 0 .. ReuseGuard
      BY <1>3, <2>0, <3>1
    <3> QED
      BY <2>0, <3>1, <3>2
  <2>2. CASE f.of = o.of /\ f.seq = o.seq
    BY ReassemblyConfig, <1>3, <2>1, <2>2
  <2>3. CASE ~(f.of = o.of /\ f.seq = o.seq)
    <3>1. f \in flying
      BY <1>2, <2>3
    <3>2. Queued(f.of, f.seq) \/ f.life + ReuseGuard <= held_back[f.seq] + Life
      BY <3>1 DEF Owned, FlyingGuarded
    <3>3. held_back'[f.seq] >= held_back[f.seq]
      BY <1>3, <2>1
    <3>4. CASE Queued(f.of, f.seq)
      BY <1>6, <2>3, <3>4
    <3>5. CASE f.life + ReuseGuard <= held_back[f.seq] + Life
      <4>1. ASSUME NEW a \in Nat, NEW b \in Nat, NEW c \in Nat, a <= b + Life, c >= b
            PROVE  a <= c + Life
        BY <2>1, <4>1
      <4>2. f.life + ReuseGuard \in Nat
        BY <2>1
      <4> QED
        BY <2>1, <3>3, <3>5, <4>1, <4>2
    <3> QED
      BY <3>2, <3>4, <3>5
  <2> QED
    BY <2>2, <2>3
<1>8. WaitingGuarded'
  <2> SUFFICES ASSUME Waiting
               PROVE  Queued(half.of, half.seq)'
                      \/ ReuseGuard <= held_back'[half.seq] + half.age + Life
    BY <1>5 DEF WaitingGuarded
  <2>1. half.seq \in Sequences16 /\ half.of \in Halved /\ half.age \in Nat
        /\ held_back[half.seq] \in Nat /\ held_back'[half.seq] \in Nat
    BY <1>3 DEF Shapes, Owned, Waiting
  <2>2. Queued(half.of, half.seq) \/ ReuseGuard <= held_back[half.seq] + half.age + Life
    BY DEF Owned, WaitingGuarded
  <2>3. CASE half.of = o.of /\ half.seq = o.seq
    BY ReassemblyConfig, <1>3, <2>1, <2>3
  <2>4. CASE ~(half.of = o.of /\ half.seq = o.seq)
    <3>1. held_back'[half.seq] >= held_back[half.seq]
      BY <1>3, <2>1
    <3>2. CASE Queued(half.of, half.seq)
      BY <1>6, <2>4, <3>2
    <3>3. CASE ReuseGuard <= held_back[half.seq] + half.age + Life
      BY ReassemblyConfig, <2>1, <3>1, <3>3
    <3> QED
      BY <2>2, <3>2, <3>3
  <2> QED
    BY <2>3, <2>4
<1>9. \A i \in 1 .. n - 1 : i + 1 \in DOMAIN outbox
  BY <1>1
<1>10. QueueAlone'
  <2> SUFFICES ASSUME NEW i \in 1 .. n - 1, NEW j \in 1 .. n - 1,
                      outbox'[i].of \in Halved, outbox'[j].of \in Halved,
                      outbox'[i].seq = outbox'[j].seq
               PROVE  i = j
    <3>1. DOMAIN outbox' = 1 .. n - 1
      BY <1>1
    <3> QED
      BY <3>1, Zenon DEF QueueAlone
  <2>1. outbox'[i] = outbox[i + 1] /\ outbox'[j] = outbox[j + 1]
        /\ i + 1 \in DOMAIN outbox /\ j + 1 \in DOMAIN outbox
    BY <1>1, <1>9
  <2>2. i + 1 = j + 1
    BY <2>1 DEF Owned, QueueAlone
  <2> QED
    BY <2>2
<1>11. FlyingAlone'
  <2>1. \A i \in DOMAIN outbox' : \E k \in DOMAIN outbox : outbox'[i] = outbox[k]
    BY <1>1, <1>9
  <2>2. 1 \in DOMAIN outbox
    BY <1>1
  <2>3. \A f \in flying' : f \in flying \/ (f.of = outbox[1].of /\ f.seq = outbox[1].seq)
    BY <1>1, <1>2
  <2>4. \A i \in DOMAIN outbox :
           outbox[i].of \in Halved /\ outbox[1].of \in Halved /\ outbox[i].seq = outbox[1].seq
             => outbox[i].of = outbox[1].of
    BY <2>2 DEF Owned, QueueAlone
  <2>5. ASSUME NEW f \in flying', f.of \in Halved, NEW g \in flying', g.of \in Halved, g.seq = f.seq
        PROVE  g.of = f.of
    BY <2>2, <2>3, <2>5 DEF Owned, FlyingAlone
  <2>6. ASSUME NEW f \in flying', f.of \in Halved, NEW k \in DOMAIN outbox,
               outbox[k].of \in Halved, outbox[k].seq = f.seq
        PROVE  outbox[k].of = f.of
    BY <2>2, <2>3, <2>4, <2>6 DEF Owned, FlyingAlone
  <2>7. ASSUME NEW f \in flying', f.of \in Halved, Waiting, half.seq = f.seq
        PROVE  half.of = f.of
    BY <2>2, <2>3, <2>7 DEF Owned, FlyingAlone, WaitingAlone
  <2> QED
    BY <1>5, <2>1, <2>5, <2>6, <2>7 DEF FlyingAlone
<1>12. WaitingAlone'
  BY <1>1, <1>5, <1>9 DEF Owned, WaitingAlone
<1>13. HalvesMatch'
  BY DEF Owned, HalvesMatch
<1> QED
  BY <1>4, <1>7, <1>8, <1>10, <1>11, <1>12, <1>13 DEF Owned

\* The first frame of two goes out; the packet stays queued.
LEMMA TransmitOwned ==
  ASSUME Owned, Transmit
  PROVE  Owned'
<1>1. outbox # <<>> /\ half' = half /\ delivered' = delivered
  BY DEF Transmit
<1>2. PICK o \in [of : Frames, seq : Sequences16, part : 0 .. 1] :
        /\ o = Head(outbox) /\ o = outbox[1] /\ 1 \in DOMAIN outbox
        /\ outbox \in Seq([of : Frames, seq : Sequences16, part : 0 .. 1])
  <2>1. PICK R : R = [of : Frames, seq : Sequences16, part : 0 .. 1]
    BY Zenon
  <2>2. outbox \in Seq(R)
    BY <2>1 DEF Owned, Shapes
  <2>3. Head(outbox) \in R /\ outbox[1] = Head(outbox) /\ 1 \in DOMAIN outbox
    BY <1>1, <2>2
  <2> QED
    BY <2>1, <2>2, <2>3
<1>3. flying' = flying \cup {[of |-> o.of, part |-> o.part + 1, seq |-> o.seq, life |-> Life]}
  BY <1>2 DEF Transmit
<1>4. CASE ~(o.of \in Halved /\ o.part = 0)
  <2>1. outbox' = Tail(outbox) /\ held_back' = Guarded(o.seq, o.of)
    BY <1>2, <1>4 DEF Transmit
  <2>2. PICK part \in 1 .. 2 : part = o.part + 1
    BY <1>2
  <2>3. flying' \subseteq flying \cup {[of |-> Head(outbox).of, part |-> part,
                                      seq |-> Head(outbox).seq, life |-> Life]}
    BY <1>2, <1>3, <2>2
  <2> QED
    BY <1>1, <1>2, <2>1, <2>2, <2>3, PopOwned
<1>5. CASE o.of \in Halved /\ o.part = 0
  <2>1. outbox' = [outbox EXCEPT ![1].part = 1] /\ held_back' = held_back
    BY <1>2, <1>5 DEF Transmit
  <2>2. PICK r \in [of : Frames, part : 1 .. 2, seq : Sequences16, life : 0 .. Life] :
          r.of = o.of /\ r.seq = o.seq /\ flying' = flying \cup {r}
    <3>1. PICK r : r = [of |-> o.of, part |-> o.part + 1, seq |-> o.seq, life |-> Life]
      BY Zenon
    <3>2. /\ r \in [of : Frames, part : 1 .. 2, seq : Sequences16, life : 0 .. Life]
          /\ r.of = o.of /\ r.seq = o.seq
      BY ReassemblyConfig, <1>2, <3>1
    <3> QED
      BY <1>3, <3>1, <3>2
  <2>3. /\ outbox' \in Seq([of : Frames, seq : Sequences16, part : 0 .. 1])
        /\ DOMAIN outbox' = DOMAIN outbox
        /\ \A i \in DOMAIN outbox : outbox'[i].of = outbox[i].of /\ outbox'[i].seq = outbox[i].seq
    <3>1. PICK R : R = [of : Frames, seq : Sequences16, part : 0 .. 1]
      BY Zenon
    <3>2. PICK e : e = [outbox[1] EXCEPT !.part = 1]
      BY Zenon
    <3>3. e \in R /\ e.of = outbox[1].of /\ e.seq = outbox[1].seq
      BY <1>2, <3>1, <3>2
    <3>4. outbox' = [outbox EXCEPT ![1] = e] /\ outbox \in Seq(R)
      BY <1>2, <2>1, <3>1, <3>2
    <3>5. outbox' \in Seq(R)
      BY <1>2, <3>3, <3>4
    <3>6. /\ DOMAIN outbox' = DOMAIN outbox
          /\ \A i \in DOMAIN outbox : outbox'[i] = IF i = 1 THEN e ELSE outbox[i]
      BY <1>2, <3>4
    <3> QED
      BY <3>1, <3>3, <3>5, <3>6
  <2>4. \A p, s : Queued(p, s)' = Queued(p, s)
    BY <2>3 DEF Queued
  <2>5. Queued(r.of, r.seq)
    BY <1>2, <2>2 DEF Queued
  <2>6. Waiting' = Waiting
    BY <1>1 DEF Waiting
  <2>7. Shapes'
    BY <1>1, <2>1, <2>2, <2>3 DEF Owned, Shapes
  <2>8. FlyingGuarded' /\ WaitingGuarded' /\ HalvesMatch'
    BY <1>1, <2>1, <2>2, <2>4, <2>5, <2>6 DEF Owned, FlyingGuarded, WaitingGuarded, HalvesMatch
  <2>9. QueueAlone'
    BY <2>3 DEF Owned, QueueAlone
  <2>10. FlyingAlone'
    <3>1. \A i \in DOMAIN outbox :
             outbox[i].of \in Halved /\ outbox[i].seq = r.seq => outbox[i].of = r.of
      BY <1>2, <1>5, <2>2 DEF Owned, QueueAlone
    <3>2. Waiting /\ half.seq = r.seq => half.of = r.of
      BY <1>2, <1>5, <2>2 DEF Owned, WaitingAlone
    <3>3. \A g \in flying : g.of \in Halved /\ g.seq = r.seq => g.of = r.of
      BY <1>2, <1>5, <2>2 DEF Owned, FlyingAlone
    <3> QED
      BY <1>1, <2>2, <2>3, <2>6, <3>1, <3>2, <3>3 DEF Owned, FlyingAlone
  <2>11. WaitingAlone'
    BY <1>1, <2>3, <2>6 DEF Owned, WaitingAlone
  <2> QED
    BY <2>7, <2>8, <2>9, <2>10, <2>11 DEF Owned
<1> QED
  BY <1>4, <1>5

\* The receiver takes a frame, or drops its half: rns_radio_reassembler_feed
\* and rns_radio_reassembler_expire.
LEMMA ReceiverOwned ==
  ASSUME Owned, outbox' = outbox, held_back' = held_back, flying' \subseteq flying,
         \/ half' = NoHalf \/ half' = half
         \/ \E f \in flying : f.of \in Halved /\ half' = [of |-> f.of, seq |-> f.seq, age |-> 0],
         HalvesMatch'
  PROVE  Owned'
<1>1. \A p, s : Queued(p, s)' = Queued(p, s)
  BY DEF Queued
<1>2. FlyingGuarded' /\ QueueAlone'
  BY <1>1 DEF Owned, FlyingGuarded, QueueAlone
<1>3. CASE half' = NoHalf
  <2>1. ~Waiting' /\ half'.of = "none" /\ half'.age = 0
    BY <1>3 DEF Waiting, NoHalf
  <2>2. Shapes'
    BY <1>3, <2>1 DEF Owned, Shapes, NoHalf
  <2> QED
    BY <1>2, <2>1, <2>2 DEF Owned, WaitingGuarded, WaitingAlone, FlyingAlone
<1>4. CASE half' = half
  <2>1. Waiting' = Waiting
    BY <1>4 DEF Waiting
  <2>2. Shapes'
    BY <1>4 DEF Owned, Shapes
  <2> QED
    BY <1>1, <1>2, <1>4, <2>1, <2>2 DEF Owned, WaitingGuarded, WaitingAlone, FlyingAlone
<1>5. ASSUME NEW f \in flying, f.of \in Halved, half' = [of |-> f.of, seq |-> f.seq, age |-> 0]
      PROVE  Owned'
  <2>1. half'.of = f.of /\ half'.seq = f.seq /\ half'.age = 0
    BY <1>5
  <2>2. f.seq \in Sequences16 /\ f.life \in 0 .. Life /\ held_back[f.seq] \in Nat
    BY DEF Owned, Shapes
  <2>3. Shapes'
    BY <1>5, <2>1, <2>2 DEF Owned, Shapes
  <2>4. WaitingGuarded'
    <3>1. Queued(f.of, f.seq) \/ f.life + ReuseGuard <= held_back[f.seq] + Life
      BY <1>5 DEF Owned, FlyingGuarded
    <3>2. Queued(f.of, f.seq) \/ ReuseGuard <= held_back[f.seq] + 0 + Life
      BY ReassemblyConfig, <2>2, <3>1
    <3> QED
      BY <1>1, <2>1, <3>2 DEF WaitingGuarded
  <2>5. WaitingAlone' /\ FlyingAlone'
    BY <1>5, <2>1 DEF Owned, WaitingAlone, FlyingAlone
  <2> QED
    BY <1>2, <2>3, <2>4, <2>5 DEF Owned
<1> QED
  BY <1>3, <1>4, <1>5

\* The guard and what it guards against run off together.
LEMMA TickOwned ==
  ASSUME Owned, Tick
  PROVE  Owned'
<1>1. outbox' = outbox /\ delivered' = delivered
  BY DEF Tick
<1>2. \A f \in flying' : \E g \in flying :
        /\ f.of = g.of /\ f.seq = g.seq /\ f.life = g.life - 1 /\ f.life \in 0 .. Life
        /\ f \in [of : Frames, part : 1 .. 2, seq : Sequences16, life : 0 .. Life]
  <2> SUFFICES ASSUME NEW f \in flying'
               PROVE  \E g \in flying :
                 /\ f.of = g.of /\ f.seq = g.seq /\ f.life = g.life - 1 /\ f.life \in 0 .. Life
                 /\ f \in [of : Frames, part : 1 .. 2, seq : Sequences16, life : 0 .. Life]
    OBVIOUS
  <2>1. PICK g \in flying : g.life > 0 /\ f = [g EXCEPT !.life = g.life - 1]
    BY DEF Tick
  <2>2. g \in [of : Frames, part : 1 .. 2, seq : Sequences16, life : 0 .. Life]
    BY DEF Owned, Shapes
  <2>3. g.life - 1 \in 0 .. Life
    BY ReassemblyConfig, <2>1, <2>2
  <2> QED
    BY <2>1, <2>2, <2>3
<1>3. /\ held_back' \in [Sequences16 -> 0 .. ReuseGuard]
      /\ \A s \in Sequences16 : held_back[s] \in Nat /\ held_back'[s] \in Nat
                                /\ held_back'[s] >= held_back[s] - 1
  BY ReassemblyConfig DEF Tick, Less, Owned, Shapes
<1>4. /\ half' = [of |-> half.of, seq |-> half.seq, age |-> half'.age]
      /\ half'.of = half.of /\ half'.seq = half.seq /\ half'.age \in Nat
      /\ Waiting' => Waiting /\ half'.age = half.age + 1
  <2>1. half = [of |-> half.of, seq |-> half.seq, age |-> half.age] /\ half.age \in Nat
    BY DEF Owned, Shapes
  <2>2. CASE half.of = "none"
    BY <2>1, <2>2 DEF Tick, Waiting
  <2>3. CASE half.of # "none"
    <3>1. half' = [half EXCEPT !.age = IF half.age < FragmentTimeout THEN half.age + 1 ELSE half.age]
      BY <2>3 DEF Tick
    <3>2. /\ half' = [of |-> half.of, seq |-> half.seq, age |-> half'.age]
          /\ half'.of = half.of /\ half'.seq = half.seq
          /\ half'.age = IF half.age < FragmentTimeout THEN half.age + 1 ELSE half.age
      BY <2>1, <3>1
    <3> QED
      BY ReassemblyConfig, <2>1, <2>3, <3>2 DEF Waiting
  <2> QED
    BY <2>2, <2>3
<1>5. \A p, s : Queued(p, s)' = Queued(p, s)
  BY <1>1 DEF Queued
<1>6. Shapes'
  BY <1>1, <1>2, <1>3, <1>4 DEF Owned, Shapes
<1>7. FlyingGuarded'
  <2> SUFFICES ASSUME NEW f \in flying', f.of \in Halved
               PROVE  Queued(f.of, f.seq) \/ f.life + ReuseGuard <= held_back'[f.seq] + Life
    BY <1>5 DEF FlyingGuarded
  <2>1. PICK g \in flying : f.of = g.of /\ f.seq = g.seq /\ f.life = g.life - 1
    BY <1>2
  <2>2. g.life \in Nat /\ g.seq \in Sequences16
    BY ReassemblyConfig DEF Owned, Shapes
  <2>3. Queued(g.of, g.seq) \/ g.life + ReuseGuard <= held_back[g.seq] + Life
    BY <2>1 DEF Owned, FlyingGuarded
  <2>4. CASE Queued(g.of, g.seq)
    BY <2>1, <2>4
  <2>5. CASE g.life + ReuseGuard <= held_back[g.seq] + Life
    <3>1. held_back[g.seq] \in Nat /\ held_back'[g.seq] \in Nat
          /\ held_back'[g.seq] >= held_back[g.seq] - 1
      BY <1>3, <2>2
    <3>2. (g.life - 1) + ReuseGuard <= held_back'[g.seq] + Life
      BY ReassemblyConfig, <2>2, <2>5, <3>1
    <3> QED
      BY <2>1, <3>2
  <2> QED
    BY <2>3, <2>4, <2>5
<1>8. WaitingGuarded'
  <2> SUFFICES ASSUME Waiting'
               PROVE  Queued(half.of, half.seq)
                      \/ ReuseGuard <= held_back'[half.seq] + half'.age + Life
    BY <1>4, <1>5 DEF WaitingGuarded
  <2>1. Waiting /\ half'.age = half.age + 1 /\ half.age \in Nat /\ half.seq \in Sequences16
    BY <1>4 DEF Owned, Shapes, Waiting
  <2>2. Queued(half.of, half.seq) \/ ReuseGuard <= held_back[half.seq] + half.age + Life
    BY <2>1 DEF Owned, WaitingGuarded
  <2>3. CASE ReuseGuard <= held_back[half.seq] + half.age + Life
    <3>1. held_back[half.seq] \in Nat /\ held_back'[half.seq] \in Nat
          /\ held_back'[half.seq] >= held_back[half.seq] - 1
      BY <1>3, <2>1
    <3> QED
      BY ReassemblyConfig, <2>1, <2>3, <3>1
  <2> QED
    BY <2>2, <2>3
<1>9. QueueAlone' /\ HalvesMatch'
  BY <1>1 DEF Owned, QueueAlone, HalvesMatch
<1>10. FlyingAlone' /\ WaitingAlone'
  BY <1>1, <1>2, <1>4 DEF Owned, FlyingAlone, WaitingAlone
<1> QED
  BY <1>6, <1>7, <1>8, <1>9, <1>10 DEF Owned

-----------------------------------------------------------------------------
(* A packet is joined once: while an echo of it may still be heard, the      *)
(* receiver refuses its sequence.                                            *)

InQueue(p) == \E i \in DOMAIN outbox : outbox[i].of = p
Joined(p) == p \in Halved /\ <<p, p>> \in delivered

OnceInQueue == \A i, j \in DOMAIN outbox : outbox[i].of = outbox[j].of => i = j
OneSequence ==
  \A f \in flying :
     /\ \A g \in flying : g.of = f.of => g.seq = f.seq
     /\ \A i \in DOMAIN outbox : outbox[i].of = f.of => outbox[i].seq = f.seq
SecondIsLast == \A f \in flying : f.of \in Halved /\ f.part = 2 => ~InQueue(f.of)
EchoRefused == \A f \in flying : Joined(f.of) => refused[f.seq] > f.life
JoinedIsOver ==
  /\ \A p : Joined(p) => ~InQueue(p)
  /\ half.of # "none" => ~Joined(half.of)

Tracked ==
  /\ Len(outbox) <= QueueCapacity
  /\ refused \in [Sequences16 -> 0 .. ReuseGuard] /\ half.age <= FragmentTimeout
  /\ OnceInQueue /\ OneSequence /\ SecondIsLast /\ EchoRefused /\ JoinedIsOver
  /\ twice = {}

LEMMA TrackedInitially == ASSUME FramesInit PROVE Tracked
<1>1. /\ outbox = <<>> /\ flying = {} /\ delivered = {} /\ half = NoHalf /\ twice = {}
      /\ refused = [s \in Sequences16 |-> 0]
  BY DEF FramesInit
<1>2. refused \in [Sequences16 -> 0 .. ReuseGuard]
  BY <1>1, ReassemblyConfig
<1>3. half.of = "none" /\ half.age = 0 /\ half.age <= FragmentTimeout /\ Len(outbox) <= QueueCapacity
  BY <1>1, ReassemblyConfig DEF NoHalf
<1> QED
  BY <1>1, <1>2, <1>3 DEF Tracked, OnceInQueue, OneSequence, SecondIsLast, EchoRefused,
     JoinedIsOver, Joined, InQueue

\* A packet that is nowhere joins the queue.
LEMMA EnqueueTracked ==
  ASSUME Owned, Tracked, NEW p \in Frames, NEW s \in Sequences16, Enqueue(p, s)
  PROVE  Tracked'
<1>1. PICK e : e = [of |-> p, seq |-> s, part |-> 0]
  BY Zenon
<1>2. PICK R : R = [of : Frames, seq : Sequences16, part : 0 .. 1]
  BY Zenon
<1>3. outbox \in Seq(R) /\ e \in R /\ e.of = p /\ e.seq = s /\ outbox' = Append(outbox, e)
  BY <1>1, <1>2 DEF Owned, Shapes, Enqueue
<1>4. PICK n \in Nat : n = Len(outbox)
  BY <1>3
<1>5. /\ DOMAIN outbox = 1 .. n /\ DOMAIN outbox' = 1 .. n + 1 /\ Len(outbox') = n + 1
      /\ \A i \in 1 .. n : outbox'[i] = outbox[i]
      /\ outbox'[n + 1] = e
  BY <1>3, <1>4
<1>6. /\ n < QueueCapacity /\ ~Sent(p)
      /\ flying' = flying /\ half' = half /\ refused' = refused /\ delivered' = delivered
      /\ twice' = twice
  BY <1>4 DEF Enqueue
<1>7. /\ \A i \in DOMAIN outbox : outbox[i].of # p
      /\ \A f \in flying : f.of # p
      /\ ~Joined(p)
  <2>1. <<p, p>>[1] = p
    OBVIOUS
  <2> QED
    BY <1>6, <2>1 DEF Sent, Joined
<1>8. \A i \in DOMAIN outbox' : (i \in DOMAIN outbox /\ outbox'[i] = outbox[i])
                                \/ (i = n + 1 /\ outbox'[i].of = p)
  BY <1>3, <1>5
<1>9. OnceInQueue'
  BY <1>7, <1>8 DEF Tracked, OnceInQueue
<1>10. OneSequence' /\ SecondIsLast'
  BY <1>6, <1>7, <1>8 DEF Tracked, OneSequence, SecondIsLast, InQueue
<1>11. EchoRefused' /\ JoinedIsOver'
  BY <1>6, <1>7, <1>8 DEF Tracked, EchoRefused, JoinedIsOver, Joined, InQueue
<1>12. Len(outbox') <= QueueCapacity
  BY <1>5, <1>6, ReassemblyConfig
<1> QED
  BY <1>6, <1>9, <1>10, <1>11, <1>12 DEF Tracked

\* The front packet goes out, and leaves the queue with its second frame.
LEMMA SenderTracked ==
  ASSUME Tracked, 1 \in DOMAIN outbox, NEW r, r.of = outbox[1].of, r.seq = outbox[1].seq,
         flying' \subseteq flying \cup {r}, Len(outbox') <= QueueCapacity, OnceInQueue',
         \A i \in DOMAIN outbox' : \E k \in DOMAIN outbox :
            outbox'[i].of = outbox[k].of /\ outbox'[i].seq = outbox[k].seq,
         r.part = 2 => \A i \in DOMAIN outbox' : outbox'[i].of # r.of,
         UNCHANGED <<half, refused, delivered, twice>>
  PROVE  Tracked'
<1>1. \A p : InQueue(p)' => InQueue(p)
  BY DEF InQueue
<1>2. \A p : Joined(p)' = Joined(p)
  BY DEF Joined
<1>3. InQueue(r.of) /\ ~Joined(r.of)
  BY DEF InQueue, Tracked, JoinedIsOver
<1>4. \A i \in DOMAIN outbox : outbox[i].of = r.of => outbox[i].seq = r.seq
  BY DEF Tracked, OnceInQueue
<1>5. OneSequence'
  BY <1>4 DEF Tracked, OneSequence
<1>6. SecondIsLast'
  BY <1>1, Zenon DEF Tracked, SecondIsLast, InQueue
<1>7. EchoRefused' /\ JoinedIsOver'
  BY <1>1, <1>2, <1>3 DEF Tracked, EchoRefused, JoinedIsOver
<1> QED
  BY <1>5, <1>6, <1>7 DEF Tracked

LEMMA PopTracked ==
  ASSUME Owned, Tracked, outbox # <<>>, outbox' = Tail(outbox), NEW r,
         r.of = Head(outbox).of, r.seq = Head(outbox).seq, flying' \subseteq flying \cup {r},
         UNCHANGED <<half, refused, delivered, twice>>
  PROVE  Tracked'
<1>1. PICK R : R = [of : Frames, seq : Sequences16, part : 0 .. 1]
  BY Zenon
<1>2. outbox \in Seq(R)
  BY <1>1 DEF Owned, Shapes
<1>3. PICK n \in Nat : n = Len(outbox) /\ n > 0
  BY <1>2
<1>4. /\ DOMAIN outbox = 1 .. n /\ outbox[1] = Head(outbox)
      /\ DOMAIN outbox' = 1 .. n - 1 /\ Len(outbox') = n - 1
      /\ \A i \in 1 .. n - 1 : outbox'[i] = outbox[i + 1]
  BY <1>2, <1>3
<1>5. \A i \in 1 .. n - 1 : i + 1 \in DOMAIN outbox /\ i + 1 # 1
  BY <1>4
<1>6. 1 \in DOMAIN outbox
  BY <1>3, <1>4
<1>7. OnceInQueue'
  <2> SUFFICES ASSUME NEW i \in 1 .. n - 1, NEW j \in 1 .. n - 1, outbox'[i].of = outbox'[j].of
               PROVE  i = j
    BY <1>4, Zenon DEF OnceInQueue
  <2>1. i + 1 = j + 1
    BY <1>4, <1>5 DEF Tracked, OnceInQueue
  <2> QED
    BY <2>1
<1>8. \A i \in DOMAIN outbox' : outbox'[i].of # r.of
  BY <1>4, <1>5, <1>6 DEF Tracked, OnceInQueue
<1>9. \A i \in DOMAIN outbox' : \E k \in DOMAIN outbox :
         outbox'[i].of = outbox[k].of /\ outbox'[i].seq = outbox[k].seq
  BY <1>4, <1>5
<1>10. Len(outbox') <= QueueCapacity
  BY <1>3, <1>4, ReassemblyConfig DEF Tracked
<1> QED
  BY <1>4, <1>6, <1>7, <1>8, <1>9, <1>10, SenderTracked

LEMMA TransmitTracked ==
  ASSUME Owned, Tracked, Transmit
  PROVE  Tracked'
<1>1. outbox # <<>> /\ UNCHANGED <<half, refused, delivered, twice>>
  BY DEF Transmit
<1>2. PICK R : R = [of : Frames, seq : Sequences16, part : 0 .. 1]
  BY Zenon
<1>3. outbox \in Seq(R)
  BY <1>2 DEF Owned, Shapes
<1>4. PICK o \in R : o = Head(outbox) /\ o = outbox[1] /\ 1 \in DOMAIN outbox
  BY <1>1, <1>3
<1>5. PICK r : r = [of |-> o.of, part |-> o.part + 1, seq |-> o.seq, life |-> Life]
  BY Zenon
<1>6. /\ r.of = o.of /\ r.seq = o.seq /\ r.part = o.part + 1
      /\ flying' = flying \cup {r}
  BY <1>4, <1>5 DEF Transmit
<1>7. CASE ~(o.of \in Halved /\ o.part = 0)
  <2>1. outbox' = Tail(outbox)
    BY <1>4, <1>7 DEF Transmit
  <2> QED
    BY <1>1, <1>4, <1>6, <2>1, PopTracked
<1>8. CASE o.of \in Halved /\ o.part = 0
  <2>1. outbox' = [outbox EXCEPT ![1].part = 1]
    BY <1>4, <1>8 DEF Transmit
  <2>2. PICK e : e = [outbox[1] EXCEPT !.part = 1]
    BY Zenon
  <2>3. e \in R /\ e.of = outbox[1].of /\ e.seq = outbox[1].seq
    BY <1>2, <1>4, <2>2
  <2>4. outbox' = [outbox EXCEPT ![1] = e]
    BY <1>4, <2>1, <2>2
  <2>5. Len(outbox') = Len(outbox)
    BY <1>3, <1>4, <2>3, <2>4
  <2>6. /\ DOMAIN outbox' = DOMAIN outbox
        /\ \A i \in DOMAIN outbox : outbox'[i] = IF i = 1 THEN e ELSE outbox[i]
    BY <1>3, <1>4, <2>4
  <2>7. \A i \in DOMAIN outbox : outbox'[i].of = outbox[i].of /\ outbox'[i].seq = outbox[i].seq
    BY <2>3, <2>6
  <2>8. OnceInQueue'
    BY <2>6, <2>7 DEF Tracked, OnceInQueue
  <2>9. r.part # 2
    BY <1>6, <1>8
  <2> QED
    BY <1>1, <1>4, <1>6, <2>5, <2>6, <2>7, <2>8, <2>9, SenderTracked DEF Tracked
<1> QED
  BY <1>7, <1>8

\* The receiver refuses a frame, drops its half, keeps a new one whose sequence
\* it does not refuse, or hands up a whole packet: nothing is joined.
LEMMA ReceiverTracked ==
  ASSUME Owned, Tracked, outbox' = outbox, flying' \subseteq flying, twice' = twice,
         delivered' = delivered \/ \E w : w \notin Halved /\ delivered' = delivered \cup {<<w, w>>},
         refused' = refused \/ \E s \in Sequences16 : refused' = Blocking(s),
         \/ half' = NoHalf \/ half' = half
         \/ \E f \in flying : /\ f.of \in Halved /\ refused[f.seq] = 0
                              /\ half' = [of |-> f.of, seq |-> f.seq, age |-> 0]
  PROVE  Tracked'
<1>1. \A p : InQueue(p)' = InQueue(p)
  BY DEF InQueue
<1>2. \A p : Joined(p)' = Joined(p)
  <2>1. ASSUME NEW w, w \notin Halved, delivered' = delivered \cup {<<w, w>>}, NEW p
        PROVE  Joined(p)' = Joined(p)
    <3>1. <<p, p>> = <<w, w>> => p = w
      OBVIOUS
    <3> QED
      BY <2>1, <3>1 DEF Joined
  <2> QED
    BY <2>1, Zenon DEF Joined
<1>3. /\ refused' \in [Sequences16 -> 0 .. ReuseGuard]
      /\ \A s \in Sequences16 : refused'[s] >= refused[s]
  BY ReassemblyConfig DEF Tracked, Blocking
<1>4. \A f \in flying : f.seq \in Sequences16 /\ f.life \in 0 .. Life
  BY DEF Owned, Shapes
<1>5. EchoRefused'
  <2> SUFFICES ASSUME NEW f \in flying', Joined(f.of) PROVE refused'[f.seq] > f.life
    BY <1>2 DEF EchoRefused
  <2>1. refused[f.seq] > f.life
    BY DEF Tracked, EchoRefused
  <2>2. /\ refused[f.seq] \in 0 .. ReuseGuard /\ refused'[f.seq] \in 0 .. ReuseGuard
        /\ refused'[f.seq] >= refused[f.seq] /\ f.life \in 0 .. Life
    BY <1>3, <1>4 DEF Tracked
  <2> QED
    BY <2>1, <2>2, ReassemblyConfig
<1>6. /\ half'.age <= FragmentTimeout
      /\ half'.of # "none" => ~Joined(half'.of)
  <2>1. CASE half' = NoHalf
    BY <2>1, ReassemblyConfig DEF NoHalf
  <2>2. CASE half' = half
    BY <2>2 DEF Tracked, JoinedIsOver
  <2>3. ASSUME NEW f \in flying, refused[f.seq] = 0,
               half' = [of |-> f.of, seq |-> f.seq, age |-> 0]
        PROVE  half'.age <= FragmentTimeout /\ ~Joined(half'.of)
    <3>1. half'.of = f.of /\ half'.age = 0
      BY <2>3
    <3>2. ~(0 > f.life)
      BY <1>4, ReassemblyConfig
    <3>3. ~Joined(f.of)
      BY <2>3, <3>2 DEF Tracked, EchoRefused
    <3> QED
      BY <3>1, <3>3, ReassemblyConfig
  <2> QED
    BY <2>1, <2>2, <2>3
<1>7. OnceInQueue' /\ OneSequence' /\ SecondIsLast'
  BY <1>1 DEF Tracked, OnceInQueue, OneSequence, SecondIsLast
<1>8. JoinedIsOver'
  BY <1>1, <1>2, <1>6 DEF Tracked, JoinedIsOver
<1> QED
  BY <1>3, <1>5, <1>6, <1>7, <1>8 DEF Tracked

\* Two halves are joined: the packet was not handed up before, and its frames
\* are refused from now on.
LEMMA JoinTracked ==
  ASSUME Owned, Tracked, outbox' = outbox, flying' \subseteq flying, NEW f \in flying,
         f.of \in Halved, f.part = 2, half.of = f.of, half.of # "none", half.seq = f.seq,
         Deliver(<<f.of, f.of>>), half' = NoHalf, refused' = Blocking(f.seq)
  PROVE  Tracked'
<1>1. <<f.of, f.of>> \notin delivered
  BY DEF Tracked, JoinedIsOver, Joined
<1>2. delivered' = delivered \cup {<<f.of, f.of>>} /\ twice' = {}
  BY <1>1 DEF Deliver, Tracked
<1>3. \A p : Joined(p)' => Joined(p) \/ p = f.of
  <2> SUFFICES ASSUME NEW p, Joined(p)' PROVE Joined(p) \/ p = f.of
    OBVIOUS
  <2>1. <<p, p>> = <<f.of, f.of>> => p = f.of
    OBVIOUS
  <2> QED
    BY <1>2, <2>1 DEF Joined
<1>4. \A p : InQueue(p)' = InQueue(p)
  BY DEF InQueue
<1>5. \A g \in flying : g.seq \in Sequences16 /\ g.life \in 0 .. Life
  BY DEF Owned, Shapes
<1>6. /\ refused' \in [Sequences16 -> 0 .. ReuseGuard] /\ refused'[f.seq] = ReuseGuard
      /\ \A s \in Sequences16 : refused'[s] >= refused[s]
  BY <1>5, ReassemblyConfig DEF Tracked, Blocking
<1>7. EchoRefused'
  <2> SUFFICES ASSUME NEW g \in flying', Joined(g.of)' PROVE refused'[g.seq] > g.life
    BY DEF EchoRefused
  <2>1. g.seq \in Sequences16 /\ g.life \in 0 .. Life
    BY <1>5
  <2>2. CASE g.of = f.of
    <3>1. g.seq = f.seq
      BY <2>2 DEF Tracked, OneSequence
    <3> QED
      BY <1>6, <2>1, <3>1, ReassemblyConfig
  <2>3. CASE Joined(g.of)
    <3>1. refused[g.seq] > g.life
      BY <2>3 DEF Tracked, EchoRefused
    <3>2. /\ refused[g.seq] \in 0 .. ReuseGuard /\ refused'[g.seq] \in 0 .. ReuseGuard
          /\ refused'[g.seq] >= refused[g.seq]
      BY <1>6, <2>1 DEF Tracked
    <3> QED
      BY <2>1, <3>1, <3>2, ReassemblyConfig
  <2> QED
    BY <1>3, <2>2, <2>3
<1>8. half'.of = "none" /\ half'.age <= FragmentTimeout
  BY ReassemblyConfig DEF NoHalf
<1>9. ~InQueue(f.of)
  BY DEF Tracked, SecondIsLast
<1>10. JoinedIsOver'
  BY <1>3, <1>4, <1>8, <1>9 DEF Tracked, JoinedIsOver
<1>11. OnceInQueue' /\ OneSequence' /\ SecondIsLast'
  BY <1>4 DEF Tracked, OnceInQueue, OneSequence, SecondIsLast
<1> QED
  BY <1>2, <1>6, <1>7, <1>8, <1>10, <1>11 DEF Tracked

\* A frame dies before the receiver stops refusing it.
LEMMA TickTracked ==
  ASSUME Owned, Tracked, Tick
  PROVE  Tracked'
<1>1. outbox' = outbox /\ delivered' = delivered /\ twice' = twice
  BY DEF Tick
<1>2. \A f \in flying' : \E g \in flying :
        /\ f.of = g.of /\ f.seq = g.seq /\ f.part = g.part /\ f.life = g.life - 1
        /\ g.life \in Nat /\ g.seq \in Sequences16
  <2> SUFFICES ASSUME NEW f \in flying'
               PROVE  \E g \in flying :
                 /\ f.of = g.of /\ f.seq = g.seq /\ f.part = g.part /\ f.life = g.life - 1
                 /\ g.life \in Nat /\ g.seq \in Sequences16
    OBVIOUS
  <2>1. PICK g \in flying : g.life > 0 /\ f = [g EXCEPT !.life = g.life - 1]
    BY DEF Tick
  <2>2. g \in [of : Frames, part : 1 .. 2, seq : Sequences16, life : 0 .. Life]
    BY DEF Owned, Shapes
  <2> QED
    BY <2>1, <2>2, ReassemblyConfig
<1>3. /\ refused' \in [Sequences16 -> 0 .. ReuseGuard]
      /\ \A s \in Sequences16 : refused'[s] >= refused[s] - 1
  BY ReassemblyConfig DEF Tick, Less, Tracked
<1>4. half'.of = half.of /\ half'.age <= FragmentTimeout
  <2>1. half = [of |-> half.of, seq |-> half.seq, age |-> half.age] /\ half.age \in Nat
    BY DEF Owned, Shapes
  <2>2. CASE half.of = "none"
    BY <2>2 DEF Tick, Tracked
  <2>3. CASE half.of # "none"
    <3>1. PICK a : a = IF half.age < FragmentTimeout THEN half.age + 1 ELSE half.age
      OBVIOUS
    <3>2. half' = [half EXCEPT !.age = a]
      BY <2>3, <3>1 DEF Tick
    <3>3. half'.of = half.of /\ half'.age = a
      BY <2>1, <3>2
    <3>4. a <= FragmentTimeout
      BY <2>1, <3>1, ReassemblyConfig DEF Tracked
    <3> QED
      BY <3>3, <3>4
  <2> QED
    BY <2>2, <2>3
<1>5. \A p : InQueue(p)' = InQueue(p)
  BY <1>1 DEF InQueue
<1>6. \A p : Joined(p)' = Joined(p)
  BY <1>1 DEF Joined
<1>7. EchoRefused'
  <2> SUFFICES ASSUME NEW f \in flying', Joined(f.of) PROVE refused'[f.seq] > f.life
    BY <1>6 DEF EchoRefused
  <2>1. PICK g \in flying : /\ f.of = g.of /\ f.seq = g.seq /\ f.life = g.life - 1
                            /\ g.life \in Nat /\ g.seq \in Sequences16
    BY <1>2
  <2>2. refused[g.seq] > g.life
    BY <2>1 DEF Tracked, EchoRefused
  <2>3. /\ refused[g.seq] \in 0 .. ReuseGuard /\ refused'[g.seq] \in 0 .. ReuseGuard
        /\ refused'[g.seq] >= refused[g.seq] - 1
    BY <1>3, <2>1 DEF Tracked
  <2>4. refused'[g.seq] > g.life - 1
    BY <2>1, <2>2, <2>3, ReassemblyConfig
  <2> QED
    BY <2>1, <2>4
<1>8. OnceInQueue' /\ OneSequence' /\ SecondIsLast'
  BY <1>1, <1>2, <1>5 DEF Tracked, OnceInQueue, OneSequence, SecondIsLast
<1>9. JoinedIsOver'
  BY <1>4, <1>5, <1>6 DEF Tracked, JoinedIsOver
<1> QED
  BY <1>1, <1>3, <1>4, <1>7, <1>8, <1>9 DEF Tracked

\* Two halves that rns_radio_reassembler_feed joins belong to one packet, and
\* a packet is joined once, however frames are delayed, lost or heard again and
\* however few sequences there are, if the reuse guard is longer than a frame
\* lives and at least as long as a frame lives and a half is kept together.
THEOREM FramesAreJoined == FramesSpec => []FramesJoined
<1>1. FramesInit => Owned /\ Tracked
  BY OwnedInitially, TrackedInitially
<1>2. Owned /\ Tracked /\ [FramesNext]_frameVars => Owned' /\ Tracked'
  <2> SUFFICES ASSUME Owned, Tracked, [FramesNext]_frameVars PROVE Owned' /\ Tracked'
    OBVIOUS
  <2>1. ASSUME NEW p \in Frames, NEW s \in Sequences16, Enqueue(p, s) PROVE Owned' /\ Tracked'
    BY <2>1, EnqueueOwned, EnqueueTracked
  <2>2. CASE Transmit
    BY <2>2, TransmitOwned, TransmitTracked
  <2>3. CASE GiveUp
    <3>1. /\ outbox # <<>> /\ outbox' = Tail(outbox) /\ 1 \in 1 .. 2
          /\ held_back' = Guarded(Head(outbox).seq, Head(outbox).of)
          /\ flying' = flying /\ UNCHANGED <<half, refused, delivered, twice>>
      BY <2>3 DEF GiveUp
    <3>2. PICK r : r = [of |-> Head(outbox).of, part |-> 1, seq |-> Head(outbox).seq,
                        life |-> Life]
      BY Zenon
    <3>3. flying' \subseteq flying \cup {r} /\ r.of = Head(outbox).of /\ r.seq = Head(outbox).seq
      BY <3>1, <3>2
    <3>4. Owned'
      BY <3>1, <3>2, <3>3, PopOwned
    <3>5. Tracked'
      BY <3>1, <3>3, PopTracked
    <3> QED
      BY <3>4, <3>5
  <2>4. CASE Expire
    <3>1. /\ half.of # "none" /\ half' = NoHalf /\ refused' = Blocking(half.seq)
          /\ UNCHANGED <<outbox, held_back, flying, delivered, twice>>
      BY <2>4 DEF Expire, Stale
    <3>2. half.seq \in Sequences16
      BY <3>1 DEF Owned, Shapes
    <3>3. Owned'
      BY <3>1, ReceiverOwned DEF Owned, HalvesMatch
    <3>4. Tracked'
      BY <3>1, <3>2, ReceiverTracked
    <3> QED
      BY <3>3, <3>4
  <2>5. CASE Tick
    BY <2>5, TickOwned, TickTracked
  <2>6. ASSUME NEW f \in flying, Hear(f) \/ HearAgain(f) PROVE Owned' /\ Tracked'
    <3>1. /\ ~Stale /\ flying' \subseteq flying /\ outbox' = outbox /\ held_back' = held_back
          /\ FeedWhole(f) \/ FeedFirst(f) \/ FeedSecond(f)
      BY <2>6 DEF Hear, HearAgain
    <3>2. /\ f.seq \in Sequences16 /\ f.part \in 1 .. 2
          /\ half.of # "none" => half.seq \in Sequences16
      BY DEF Owned, Shapes
    <3>3. \/ half' = NoHalf \/ half' = half
          \/ f.of \in Halved /\ half' = [of |-> f.of, seq |-> f.seq, age |-> 0]
      BY <3>1 DEF FeedWhole, FeedFirst, FeedSecond
    <3>4. CASE FeedSecond(f) /\ Joins(f)
      <4>1. /\ half.of # "none" /\ half.seq = f.seq /\ f.of \in Halved /\ f.part = 2
            /\ Deliver(<<half.of, f.of>>) /\ half' = NoHalf /\ refused' = Blocking(half.seq)
        BY <3>4 DEF FeedSecond, Joins
      <4>2. Waiting
        BY <3>1, <4>1, ReassemblyConfig DEF Stale, Waiting, Owned, Shapes
      <4>3. half.of = f.of
        BY <4>1, <4>2 DEF Owned, FlyingAlone
      <4>4. delivered' = delivered \cup {<<f.of, f.of>>}
        BY <4>1, <4>3 DEF Deliver
      <4>5. HalvesMatch'
        BY <4>4 DEF Owned, HalvesMatch
      <4>6. Owned'
        BY <3>1, <3>3, <4>5, ReceiverOwned
      <4>7. Tracked'
        BY <3>1, <4>1, <4>3, JoinTracked
      <4> QED
        BY <4>6, <4>7
    <3>5. CASE ~(FeedSecond(f) /\ Joins(f))
      <4>1. /\ \/ delivered' = delivered
               \/ f.of \notin Halved /\ delivered' = delivered \cup {<<f.of, f.of>>}
            /\ twice' = twice
        BY <3>1, <3>5 DEF FeedWhole, FeedFirst, FeedSecond
      <4>2. refused' = refused \/ \E s \in Sequences16 : refused' = Blocking(s)
        BY <3>1, <3>2, <3>5 DEF FeedWhole, FeedFirst, FeedSecond
      <4>3. \/ half' = NoHalf \/ half' = half
            \/ /\ f.of \in Halved /\ refused[f.seq] = 0
               /\ half' = [of |-> f.of, seq |-> f.seq, age |-> 0]
        BY <3>1, <3>5 DEF FeedWhole, FeedFirst, FeedSecond
      <4>4. HalvesMatch'
        BY <4>1 DEF Owned, HalvesMatch
      <4>5. Owned'
        BY <3>1, <3>3, <4>4, ReceiverOwned
      <4>6. Tracked'
        BY <3>1, <4>1, <4>2, <4>3, ReceiverTracked
      <4> QED
        BY <4>5, <4>6
    <3> QED
      BY <3>4, <3>5
  <2>7. CASE UNCHANGED frameVars
    <3>1. UNCHANGED <<outbox, held_back, flying, half, refused, delivered, twice>>
      BY <2>7 DEF frameVars
    <3>2. HalvesMatch'
      BY <3>1 DEF Owned, HalvesMatch
    <3>3. Owned'
      BY <3>1, <3>2, ReceiverOwned
    <3>4. Tracked'
      BY <3>1, ReceiverTracked
    <3> QED
      BY <3>3, <3>4
  <2> QED
    BY <2>1, <2>2, <2>3, <2>4, <2>5, <2>6, <2>7 DEF FramesNext
<1>3. Owned /\ Tracked => FramesJoined
  <2> SUFFICES ASSUME Owned, Tracked PROVE FramesJoined
    OBVIOUS
  <2>1. half.age \in 0 .. FragmentTimeout
    BY ReassemblyConfig DEF Owned, Shapes, Tracked
  <2> QED
    BY <2>1 DEF Owned, Shapes, Tracked, FramesTypeOK, JoinedOnce, FramesJoined
<1> QED
  BY <1>1, <1>2, <1>3, PTL DEF FramesSpec

=============================================================================
