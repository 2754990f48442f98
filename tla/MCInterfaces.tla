---------------------------- MODULE MCInterfaces ----------------------------
(***************************************************************************)
(* Instances of the interfaces that carry packets: the LoRa radio, TCP     *)
(* streams, the local network and the shared instance.  A behaviour        *)
(* exercises one of them, named by part; the others rest in their initial  *)
(* state.                                                                  *)
(***************************************************************************)
EXTENDS Lan, Radio

CONSTANTS Payloads16, ListenerMtu, RingSize, FirstDelay, LongestDelay,
          MaxConns, MaxQueued, MaxRefused,
          Programs, MaxClients, Initial, Longest, MaxStops, MaxMisses

VARIABLES part,
          talker, tcp, accepted, backlog, retry, ring, pipe, cut, untold, refused,
          decoder, enqueued, handed,
          local_role, socket, shown, reconnect, entries_in, peers_of,
          connected, stops, misses

streamVars == <<talker, tcp, accepted, backlog, retry, ring, pipe, cut,
                untold, refused, decoder, enqueued, handed>>
sharedVars == <<local_role, socket, shown, reconnect, entries_in, peers_of,
                connected, stops, misses>>
vars == <<part, radioVars, streamVars, lanVars, sharedVars>>

St == INSTANCE Streams
Sh == INSTANCE SharedInstance

\* Payloads that hold the flag, the escape and their escaped forms.
Awkward == {<<"E", "F">>, <<"F", "f", "e">>}

\* Node b has two addresses; it hears no multicast from a.
TwoAddresses == [a1 |-> "a", b1 |-> "b", b2 |-> "b"]
OneWay == {<<"a", "b">>}

Init ==
    /\ part \in {"radio", "streams", "lan", "shared"}
    /\ RadioInit /\ St!Init /\ LanInit /\ Sh!Init
    /\ part # "streams" => talker = "client"

RadioPart ==
    /\ part = "radio" /\ RadioNext
    /\ UNCHANGED <<part, streamVars, lanVars, sharedVars>>

StreamsPart ==
    /\ part = "streams" /\ St!Next
    /\ UNCHANGED <<part, radioVars, lanVars, sharedVars>>

LanPart ==
    /\ part = "lan" /\ LanNext
    /\ UNCHANGED <<part, radioVars, streamVars, sharedVars>>

SharedPart ==
    /\ part = "shared" /\ Sh!Next
    /\ UNCHANGED <<part, radioVars, streamVars, lanVars>>

Next == RadioPart \/ StreamsPart \/ LanPart \/ SharedPart

\* The fairness of each module, for the part that is exercised.
Fairness ==
    /\ WF_radioVars(part = "radio" /\ \E l \in BOOLEAN : PollBegin(l))
    /\ SF_radioVars(part = "radio" /\ PollBegin(TRUE))
    /\ WF_radioVars(part = "radio" /\ (\/ CadEvent \/ TxEvent
                                  \/ NoEvent \/ EventFails))
    /\ WF_radioVars(part = "radio" /\ (\/ PollLate \/ PollContend
                                  \/ PollListen \/ PollRest))
    /\ SF_radioVars(part = "radio" /\ PollListen)
    /\ WF_radioVars(part = "radio" /\ Refill)
    /\ WF_radioVars(part = "radio" /\ DriverPoll)
    /\ WF_streamVars(part = "streams" /\ St!Connect)
    /\ WF_streamVars(part = "streams" /\ St!FinishConnect)
    /\ WF_streamVars(part = "streams" /\ St!Accept)
    /\ WF_streamVars(part = "streams" /\ St!Flush)
    /\ WF_streamVars(part = "streams" /\ St!Receive)
    /\ \A e \in St!Ends : WF_streamVars(part = "streams" /\ St!Told(e) /\ St!Notice(e))
    /\ WF_streamVars(part = "streams" /\ St!Tick)
    /\ \A n \in LanNodes :
          /\ WF_lanVars(part = "lan" /\ (ReceiveToken(n) \/ ReceiveData(n)))
          /\ WF_lanVars(part = "lan" /\ Poll(n))
    /\ WF_lanVars(part = "lan" /\ Tick)
    /\ \A p \in Programs : /\ WF_sharedVars(part = "shared" /\ Sh!PollServer(p))
                           /\ WF_sharedVars(part = "shared" /\ Sh!PollClient(p))
    /\ WF_sharedVars(part = "shared" /\ Sh!Tick)

Spec == Init /\ [][Next]_vars /\ Fairness

-----------------------------------------------------------------------------
\* Every packet the radio accepts is reported in the end (Radio).
RadioEventuallyReports == part = "radio" => EventuallyReported

\* A listener hands up whole packets in the order they were queued, whatever
\* was cut or torn (Streams).
StreamsCarryWhole == part = "streams" => St!TypeOK /\ St!FramesWhole

\* A client gets its connection back and what is queued on it arrives, unless
\* an end that writes nothing is never told of the break (Streams).
StreamsEventuallyCarry == part = "streams" => St!EventuallyCarried

\* Nodes that can hear each other only one way become peers and stay so (Lan).
LanEventuallyPeers == part = "lan" => EventuallyPeered

\* While a program serves, every client there is room for is served in the
\* end (SharedInstance).
SharedEventuallyServed == part = "shared" => Sh!EventuallyServed
=============================================================================
