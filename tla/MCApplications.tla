--------------------------- MODULE MCApplications ---------------------------
(***************************************************************************)
(* Instances of a link and of two applications that live on links: the     *)
(* page browser with its hosting node, and the relay-chat session.  A      *)
(* behaviour exercises one of them, named by part; the others rest in      *)
(* their initial state.  A link is followed twice: idle on a network that  *)
(* loses nothing, for all intervals the ends may have computed, and in use *)
(* on one that does, for intervals that differ.  So is a chat: with two     *)
(* rooms and faults, and without faults in one room with more coming and   *)
(* going.                                                                  *)
(***************************************************************************)
EXTENDS Browser

CONSTANTS Requests, Packets, MaxRequests, Keepalives, Slack, CacheLifetime,
          Latency, HandshakeTimeout, ExchangeTimeout, MaxExchanges, MaxFaults,
          Rooms, Others, RoomLimit, MemberLimit, HelloMax, AutoReconnect, MaxCommands,
          MaxChatFaults

VARIABLES part,
          state, keepalive, quiet_in, quiet_out, patience, cached, exchange,
          time_left, air, faults, stale, abrupt,
          chat, hub_link, welcomed, hellos, due, rooms, uplink, downlink,
          members, misheard, part_forgotten, commands, chat_faults

linkVars == <<state, keepalive, quiet_in, quiet_out, patience, cached,
              exchange, time_left, air, faults, stale, abrupt>>
chatVars == <<chat, hub_link, welcomed, hellos, due, rooms, uplink, downlink,
              members, misheard, part_forgotten, commands, chat_faults>>
vars == <<part, linkVars, browserVars, chatVars>>

Lk == INSTANCE Link
Idle == INSTANCE Link WITH MaxExchanges <- 0, MaxFaults <- 0
Ch == INSTANCE RelayChat
Crowd == INSTANCE RelayChat WITH Rooms <- {"r1"}, MaxChatFaults <- 0, MaxCommands <- 6

\* Two pages of one node.
OneNode == [u \in Urls |-> "n"]
OneByte == [u \in Urls |-> 1]

\* Intervals of a responder that measured a longer round trip.
Measured == [initiator |-> 2, responder |-> 3]

Init ==
    /\ part \in {"idle", "link", "browser", "chat", "crowd"}
    /\ Lk!Init /\ BrowserInit
    /\ IF part = "crowd" THEN Crowd!Init ELSE Ch!Init
    /\ part # "idle" => keepalive = Measured

LinkPart ==
    /\ part = "link" /\ Lk!Next
    /\ UNCHANGED <<part, browserVars, chatVars>>

IdlePart ==
    /\ part = "idle" /\ Idle!Next
    /\ UNCHANGED <<part, browserVars, chatVars>>

BrowserPart ==
    /\ part = "browser" /\ BrowserNext
    /\ UNCHANGED <<part, linkVars, chatVars>>

ChatPart ==
    /\ part = "chat" /\ Ch!Next
    /\ UNCHANGED <<part, linkVars, browserVars>>

CrowdPart ==
    /\ part = "crowd" /\ Crowd!Next
    /\ UNCHANGED <<part, linkVars, browserVars>>

Next == LinkPart \/ IdlePart \/ BrowserPart \/ ChatPart \/ CrowdPart

\* The fairness of each module, for the part that is exercised.
Fairness ==
    /\ WF_linkVars(part = "link" /\ Lk!Proceed)
    /\ WF_linkVars(part = "idle" /\ Idle!Proceed)
    /\ WF_browserVars(part = "browser" /\ waited >= PathTimeout /\ BrowserPoll)
    /\ WF_browserVars(part = "browser" /\ TimePasses)
    /\ WF_browserVars(part = "browser" /\
          (LinkUp \/ (wire_link.state = "PENDING" /\ LinkDown)))
    /\ WF_browserVars(part = "browser" /\ (RequestFails \/ Respond))
    /\ WF_chatVars(part = "chat" /\ Ch!Poll)
    /\ WF_chatVars(part = "chat" /\ Ch!Tick)
    /\ WF_chatVars(part = "chat" /\ Ch!LinkUp)
    /\ WF_chatVars(part = "chat" /\ Ch!Receive)
    /\ WF_chatVars(part = "chat" /\ Ch!HubAnswers)

Spec == Init /\ [][Next]_vars /\ Fairness

-----------------------------------------------------------------------------
\* Keepalives keep an idle link alive and a goodbye ends it, for all intervals
\* of the two ends within Compatible (Link).
LinkKeptAlive == part \in {"idle", "link"} => Lk!TypeOK /\ Lk!KeptAlive

\* Requests and proved packets are concluded, and the end of the link at one
\* side ends it at the other, for all intervals (Link).
LinkEventuallyAgrees == part \in {"idle", "link"} => Lk!EventuallyAgree

\* Every navigation of the browser ends (Browser).
BrowserEventuallySettles == part = "browser" => EventuallySettles

\* Once the wires are silent, session and hub agree on the rooms and their
\* members, but for the crossings RoomsAgree names (RelayChat).
ChatRoomsAgree ==
    /\ part = "chat" => Ch!TypeOK /\ Ch!RoomsAgree
    /\ part = "crowd" => Crowd!TypeOK /\ Crowd!RoomsAgree

\* A session that was told to connect does not hang (RelayChat).
ChatEventuallyInOrOut == part = "chat" => Ch!EventuallyInOrOut
=============================================================================
