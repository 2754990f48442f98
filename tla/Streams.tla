------------------------------- MODULE Streams -------------------------------
(***************************************************************************)
(* A TCP interface pair: the client that connects, loses its connection    *)
(* and reconnects with growing delays, the server that accepts one         *)
(* connection at a time, the bounded send ring, partial writes, and the    *)
(* HDLC decoder that reads whatever pieces arrive (src/interfaces/tcp.c    *)
(* and poll_tcp in src/runtime/runtime.c).                                 *)
(*                                                                         *)
(* Packets flow in one direction of the two, chosen at the start; the      *)
(* talker's ring and the listener's decoder are byte exact.  A connection  *)
(* is numbered when its handshake ends.  The network may cut it at any     *)
(* moment: bytes in flight are lost, and each end notices by itself.  An   *)
(* end that the network does not tell notices when it writes; one that     *)
(* only reads may never notice, for the sockets have no keepalive.         *)
(***************************************************************************)
EXTENDS Framing, FiniteSets

CONSTANTS Payloads16,   \* packets: non-empty sequences of bytes
          ListenerMtu,  \* capacity of the listener's decoder
          RingSize,     \* send_queue_capacity
          FirstDelay, LongestDelay,   \* reconnect delays
          MaxConns, MaxQueued, MaxRefused   \* bounds: connections, packets,
                                            \* failed attempts

VARIABLES talker,     \* which end sends: "client" or "server"
          tcp,        \* the client's rns_tcp_state and connection
          accepted,   \* the server's accepted connection, 0 when none
          backlog,    \* connections made and not accepted yet
          retry,      \* the client's reconnect_at and reconnect_delay
          ring,       \* the talker's send ring
          pipe,       \* bytes in flight on each connection
          cut,        \* connections the network has broken
          untold,     \* ends that no end of stream or reset tells of the break
          refused,    \* connection attempts that failed so far
          decoder,    \* the listener's decoder
          enqueued,     \* packets the talker queued, by connection
          handed      \* packets the listener handed up, by connection

streamVars == <<talker, tcp, accepted, backlog, retry, ring, pipe, cut, untold,
                refused, decoder, enqueued, handed>>

Conns == 1..MaxConns
Ends == {"client", "server"}
Listener == CHOOSE e \in Ends : e # talker
Slots == 0..RingSize - 1
EmptyRing == [head |-> 0, length |-> 0, slots |-> [i \in Slots |-> "-"]]

TypeOK ==
    /\ talker \in Ends
    /\ tcp \in [state : {"disconnected", "connecting", "connected"},
                conn : 0..MaxConns]
    /\ accepted \in 0..MaxConns
    /\ backlog \in UNION {[1..n -> Conns] : n \in 0..MaxConns}
    /\ retry \in [wait : 0..LongestDelay, delay : 0..LongestDelay]
    /\ ring.head \in Slots /\ ring.length \in 0..RingSize
    /\ ring.slots \in [Slots -> Bytes \cup {"-"}]
    /\ \A c \in Conns : \A i \in 1..Len(pipe[c]) : pipe[c][i] \in Bytes
    /\ cut \subseteq Conns /\ untold \subseteq Ends
    /\ refused \in 0..MaxRefused
    /\ decoder \in Decoder({}, ListenerMtu)
    /\ \A c \in Conns : \A i \in 1..Len(enqueued[c]) : enqueued[c][i] \in Payloads16

Init ==
    /\ talker \in Ends
    /\ tcp = [state |-> "disconnected", conn |-> 0]
    /\ accepted = 0
    /\ backlog = << >>
    /\ retry = [wait |-> 0, delay |-> 0]
    /\ ring = EmptyRing
    /\ pipe = [c \in Conns |-> << >>]
    /\ cut = {} /\ untold = {}
    /\ refused = 0
    /\ decoder = FreshDecoder
    /\ enqueued = [c \in Conns |-> << >>]
    /\ handed = [c \in Conns |-> << >>]

\* The connection an end reads and writes, 0 when it has none.
ConnOf(e) == IF e = "client" THEN tcp.conn ELSE accepted

Used == Cardinality({c \in Conns : c = tcp.conn \/ c = accepted \/ c \in cut
                                   \/ \E i \in 1..Len(backlog) : backlog[i] = c})

-----------------------------------------------------------------------------
(* The send ring: send_length bytes from slot send_head, wrapping.  Slots   *)
(* that hold no queued byte are shown as "-"; nothing reads them.          *)

At(head, i) == (head + i) % RingSize

\* ring_write: from the tail to the end of the array, then from its start.
RingWrite(r, data) ==
    [r EXCEPT !.length = @ + Len(data),
              !.slots = [s \in Slots |->
                  LET written == {i \in 1..Len(data) :
                                    At(r.head, r.length + i - 1) = s}
                  IN  IF written = {} THEN r.slots[s]
                      ELSE data[CHOOSE i \in written : TRUE]]]

\* The first n queued bytes, and the ring once the socket has taken them.
RingFront(r, n) == [i \in 1..n |-> r.slots[At(r.head, i - 1)]]

RingTake(r, n) ==
    [head |-> At(r.head, n), length |-> r.length - n,
     slots |-> [s \in Slots |-> IF \E i \in 0..n - 1 : At(r.head, i) = s
                                THEN "-" ELSE r.slots[s]]]

-----------------------------------------------------------------------------
(* rns_tcp_disconnect: the ring is emptied and the decoder reset.          *)
Cleared_KeepsDecoder(e) ==
    /\ ring' = IF e = talker THEN EmptyRing ELSE ring
    /\ decoder' = decoder

Cleared(e) ==
    /\ ring' = IF e = talker THEN EmptyRing ELSE ring
    /\ decoder' = IF e = talker THEN decoder ELSE FreshDecoder

\* tcp_schedule_reconnect: the delay doubles up to its maximum.
ScheduleReconnect(r) ==
    LET d == IF r.delay = 0 THEN FirstDelay ELSE r.delay
    IN  [wait |-> d, delay |-> IF 2 * d > LongestDelay THEN LongestDelay
                               ELSE 2 * d]

\* tcp_mark_client_down.
ClientDown ==
    /\ tcp' = [state |-> "disconnected", conn |-> 0]
    /\ retry' = ScheduleReconnect(retry)

\* tcp_mark_connected, on the next connection number.
ClientUp ==
    /\ Used < MaxConns
    /\ tcp' = [state |-> "connected", conn |-> Used + 1]
    /\ backlog' = Append(backlog, Used + 1)
    /\ retry' = [wait |-> 0, delay |-> 0]

\* An attempt that fails; attempts are not refused for ever.
Refused == refused < MaxRefused /\ refused' = refused + 1

\* poll_tcp of a disconnected client whose delay is over: connect succeeds at
\* once, is in progress, or fails.
Connect ==
    /\ tcp.state = "disconnected"
    /\ retry.wait = 0
    /\ \/ ClientUp /\ UNCHANGED refused
       \/ /\ tcp' = [tcp EXCEPT !.state = "connecting"]
          /\ UNCHANGED <<backlog, retry, refused>>
       \/ /\ Refused
          /\ ClientDown
          /\ UNCHANGED backlog
    /\ UNCHANGED <<talker, accepted, ring, pipe, cut, untold, decoder, enqueued, handed>>

\* rns_tcp_finish_connect: done, or failed; "not yet" changes nothing.
FinishConnect ==
    /\ tcp.state = "connecting"
    /\ \/ ClientUp /\ UNCHANGED refused
       \/ /\ Refused
          /\ ClientDown
          /\ UNCHANGED backlog
    /\ UNCHANGED <<talker, accepted, ring, pipe, cut, untold, decoder, enqueued, handed>>

\* poll_tcp of a server with no child: rns_tcp_accept makes a fresh endpoint.
Accept ==
    /\ accepted = 0
    /\ backlog # << >>
    /\ accepted' = Head(backlog)
    /\ backlog' = Tail(backlog)
    /\ Cleared("server")
    /\ UNCHANGED <<refused, talker, tcp, retry, pipe, cut, untold, enqueued, handed>>

\* What losing its connection does to an end: the client schedules another,
\* the server forgets the child and listens on.
Lost_Kept(e) ==
    /\ Cleared(e)
    /\ IF e = "client" THEN ClientDown ELSE UNCHANGED <<tcp, retry>>
    /\ accepted' = accepted

Lost(e) ==
    /\ Cleared(e)
    /\ IF e = "client"
       THEN ClientDown /\ accepted' = accepted
       ELSE accepted' = 0 /\ UNCHANGED <<tcp, retry>>

-----------------------------------------------------------------------------
(* rns_tcp_queue_frame: the whole frame fits in the ring or is refused.    *)
Queue(p) ==
    LET c == ConnOf(talker) IN
    /\ c # 0
    /\ Cardinality(UNION {{d} \X DOMAIN enqueued[d] : d \in Conns}) < MaxQueued
    /\ Len(HdlcEncode(p)) <= RingSize - ring.length
    /\ ring' = RingWrite(ring, HdlcEncode(p))
    /\ enqueued' = [enqueued EXCEPT ![c] = Append(@, p)]
    /\ UNCHANGED <<refused, talker, tcp, accepted, backlog, retry, pipe, cut, untold, decoder,
                   handed>>

\* The talker's poll: rns_tcp_flush sends what the socket takes.
Flush ==
    LET c == ConnOf(talker) IN
    /\ c # 0
    /\ c \notin cut
    /\ \E n \in 1..ring.length :
         /\ pipe' = [pipe EXCEPT ![c] = @ \o RingFront(ring, n)]
         /\ ring' = RingTake(ring, n)
    /\ UNCHANGED <<refused, talker, tcp, accepted, backlog, retry, cut, untold, decoder, enqueued,
                   handed>>

\* The listener's poll: what has arrived goes through the decoder.
Receive ==
    LET c == ConnOf(Listener)
        b == Head(pipe[c]) IN
    /\ c # 0
    /\ pipe[c] # << >>
    /\ pipe' = [pipe EXCEPT ![c] = Tail(@)]
    /\ decoder' = HdlcFeed(decoder, b, ListenerMtu)
    /\ handed' = IF b = "F" /\ HdlcCompletes(decoder)
                 THEN [handed EXCEPT ![c] = Append(@, decoder.buffer)]
                 ELSE handed
    /\ UNCHANGED <<refused, talker, tcp, accepted, backlog, retry, ring, cut, untold, enqueued>>

\* The network breaks a connection; some of the bytes in flight still arrive,
\* and so may what tells an end of the break.
Holding(c) == {e \in Ends : \/ ConnOf(e) = c
                            \/ e = "server" /\ \E i \in DOMAIN backlog : backlog[i] = c}

Cut ==
    \E c \in Conns \ cut :
        /\ Used < MaxConns
        /\ c \in {tcp.conn, accepted}
        /\ cut' = cut \cup {c}
        /\ \E U \in SUBSET Holding(c) : untold' = untold \cup U
        /\ \E n \in 0..Len(pipe[c]) :
             pipe' = [pipe EXCEPT ![c] = SubSeq(@, 1, n)]
        /\ UNCHANGED <<refused, talker, tcp, accepted, backlog, retry, ring, decoder,
                       enqueued, handed>>

\* An end's poll meets the end of the stream or an error: rns_tcp_disconnect.
Notice(e) ==
    LET c == ConnOf(e) IN
    /\ c \in cut
    /\ e = Listener => pipe[c] = << >>
    /\ Lost(e)
    /\ untold' = untold \ {e}
    /\ UNCHANGED <<refused, talker, backlog, pipe, cut, enqueued, handed>>

\* The end will meet one: it was told, or it has something to write.
Told(e) == e \notin untold \/ (e = talker /\ ring.length > 0)

Tick ==
    /\ retry.wait > 0
    /\ retry' = [retry EXCEPT !.wait = @ - 1]
    /\ UNCHANGED <<refused, talker, tcp, accepted, backlog, ring, pipe, cut, untold, decoder,
                   enqueued, handed>>

Next ==
    \/ Connect
    \/ FinishConnect
    \/ Accept
    \/ \E p \in Payloads16 : Queue(p)
    \/ Flush
    \/ Receive
    \/ Cut
    \/ \E e \in Ends : Notice(e)
    \/ Tick

\* Both ends poll for ever, the network carries what it was given, and time
\* passes.  The network is not obliged to cut or to refuse, and an end that
\* is not told of a cut and writes nothing is not obliged to notice it.
Fairness ==
    /\ WF_streamVars(Connect)
    /\ WF_streamVars(FinishConnect)
    /\ WF_streamVars(Accept)
    /\ WF_streamVars(Flush)
    /\ WF_streamVars(Receive)
    /\ \A e \in Ends : WF_streamVars(Told(e) /\ Notice(e))
    /\ WF_streamVars(Tick)

Spec == Init /\ [][Next]_streamVars /\ Fairness

-----------------------------------------------------------------------------
\* The packets a listener of this MTU can take.
Fitting(packets) == SelectSeq(packets, LAMBDA p : Len(p) <= ListenerMtu)

\* Whatever pieces the reads are cut into and wherever an earlier connection
\* was torn, a listener hands up exactly the packets queued on its present
\* connection, whole, unmerged and in order, skipping only those larger than
\* its MTU (rns_hdlc_decoder_feed, rns_tcp_queue_frame, rns_tcp_flush and
\* rns_tcp_disconnect).
FramesWhole ==
    \A c \in Conns :
        /\ Len(handed[c]) <= Len(Fitting(enqueued[c]))
        /\ handed[c] = SubSeq(Fitting(enqueued[c]), 1, Len(handed[c]))

\* A broken connection is replaced, also when the server notices the break
\* later than the client that already connected again, and what is queued on
\* the connection that lasts arrives; unless an end with nothing to write is
\* never told of the break and keeps the connection for ever, the server
\* accepting no other meanwhile (poll_tcp, tcp_mark_client_down and the
\* accept loop).
EventuallyCarried ==
    \/ \E e \in Ends : <>[]~Told(e)
    \/ <>[](/\ accepted # 0 /\ accepted = tcp.conn
            /\ handed[accepted] = Fitting(enqueued[accepted]))
=============================================================================
