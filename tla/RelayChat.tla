------------------------------ MODULE RelayChat ------------------------------
(***************************************************************************)
(* The client of a relay-chat hub (src/nomad/rrc_session.c) as the         *)
(* terminal client drives it (apps/tui_rrc.c).  A session finds a path to  *)
(* the hub, opens a link, says HELLO until a WELCOME comes back, and then  *)
(* joins and parts rooms; when the link closes it waits, reconnects and    *)
(* joins again the rooms the user still wants.  Envelopes are plain link   *)
(* packets: they arrive in order, they may be lost, and nothing repeats    *)
(* them.                                                                   *)
(*                                                                         *)
(* The hub is external: it answers HELLO, JOIN and PART, refuses a join    *)
(* when it pleases, and tells the members of a room who comes and goes.    *)
(***************************************************************************)
EXTENDS Naturals, Sequences, FiniteSets

CONSTANTS Rooms,         \* the names of the hub's rooms
          Others,        \* the other members a room may have
          RoomLimit,     \* max_rooms of the hub's WELCOME
          MemberLimit,   \* RNS_RRC_MAX_TRACKED_MEMBERS
          HelloMax,      \* hello_max_attempts
          AutoReconnect, \* the option of that name
          MaxCommands,   \* bound on the joins, parts and toggles of the user
          MaxChatFaults  \* bound on losses, failed sends and closed links

VARIABLES chat,       \* info.state
          hub_link,   \* session->link with its link_active and link_closed
          welcomed,   \* welcome_pending, and with it rejoin_pending
          hellos,     \* info.hello_attempts
          due,        \* now_ms has reached next_action_ms or deadline_ms
          rooms,      \* the room records, by name
          uplink,     \* envelopes on their way to the hub
          downlink,   \* envelopes on their way to the session
          members,    \* the hub's members of each room
          misheard,   \* rooms of which an envelope was lost or could not be
                      \* recorded on this link (history)
          part_forgotten, \* rooms a JOINED showed on this link while a part of
                      \* the user was unanswered and no longer on record (history)
          commands, chat_faults

chatVars == <<chat, hub_link, welcomed, hellos, due, rooms, uplink, downlink,
              members, misheard, part_forgotten, commands, chat_faults>>
wires == <<uplink, downlink, members>>

Me == "me"
People == Others \cup {Me}
Flags == [desired : BOOLEAN, joined : BOOLEAN, join_pending : BOOLEAN,
          part_pending : BOOLEAN, tracked : SUBSET People]
NewRoom == [desired |-> FALSE, joined |-> FALSE, join_pending |-> FALSE,
            part_pending |-> FALSE, tracked |-> {}]
Envelopes == [type : {"hello", "welcome"}]
             \cup [type : {"join", "part", "error"}, room : Rooms]
             \cup [type : {"joined", "parted"}, room : Rooms,
                   list : SUBSET People]

(* Every variable keeps the range of the field it stands for.              *)
TypeOK ==
    /\ chat \in {"disconnected", "discovering", "linking", "hello", "connected",
                 "reconnect_wait", "failed"}
    /\ hub_link \in {"none", "opening", "up", "down"}
    /\ welcomed \in BOOLEAN /\ due \in BOOLEAN
    /\ misheard \subseteq Rooms /\ part_forgotten \subseteq Rooms
    /\ hellos \in 0..HelloMax
    /\ DOMAIN rooms \subseteq Rooms
    /\ \A r \in DOMAIN rooms : rooms[r] \in Flags
    /\ uplink \in Seq(Envelopes) /\ downlink \in Seq(Envelopes)
    /\ members \in [Rooms -> SUBSET People]
    /\ commands \in 0..MaxCommands /\ chat_faults \in 0..MaxChatFaults

Init ==
    /\ chat = "disconnected" /\ hub_link = "none"
    /\ welcomed = FALSE /\ hellos = 0 /\ due = FALSE
    /\ rooms = [r \in {} |-> NewRoom]
    /\ uplink = << >> /\ downlink = << >>
    /\ members = [r \in Rooms |-> {}]
    /\ misheard = {} /\ part_forgotten = {}
    /\ commands = 0 /\ chat_faults = 0

-----------------------------------------------------------------------------
(* The room table.                                                         *)

Without(f, S) == [r \in DOMAIN f \ S |-> f[r]]
With(f, r, rec) == [x \in DOMAIN f \cup {r} |-> IF x = r THEN rec ELSE f[x]]

(* add_room finds the record or makes one while the table has room.        *)
CanAdd(r) == r \in DOMAIN rooms \/ Cardinality(DOMAIN rooms) < RoomLimit
Record(r) == IF r \in DOMAIN rooms THEN rooms[r] ELSE NewRoom

(* clear_transient_room_state keeps what the user wants and forgets what   *)
(* the hub had said.                                                       *)
Kept(f) == [r \in {x \in DOMAIN f : f[x].desired} |->
                [NewRoom EXCEPT !.desired = TRUE]]

(* cleanup_link: the link goes, and the hub forgets the session with it.   *)
CleanupLink ==
    /\ hub_link' = "none"
    /\ rooms' = Kept(rooms)
    /\ uplink' = << >> /\ downlink' = << >>
    /\ members' = [r \in Rooms |-> members[r] \ {Me}]

(* A send over the link fails while the link is not active, and may fail   *)
(* in the interface; an envelope that was sent may still be lost.          *)
Fault == chat_faults < MaxChatFaults /\ chat_faults' = chat_faults + 1
NoFault == UNCHANGED chat_faults

(* send_envelope, when it succeeds.                                        *)
Sent(e) == Append(uplink, e)

-----------------------------------------------------------------------------
(* What the user does.                                                     *)

Command == commands < MaxCommands /\ commands' = commands + 1

(* tui_rrc_connect_toggle: without a session one is created and told to    *)
(* connect; with one it is destroyed, rooms and all.                       *)
Connect ==
    /\ chat \in {"disconnected", "failed"}
    /\ Command
    /\ CleanupLink
    /\ chat' = "discovering" /\ welcomed' = FALSE /\ hellos' = 0 /\ due' = FALSE
    /\ misheard' = {} /\ part_forgotten' = {}
    /\ NoFault

Close ==
    /\ chat # "disconnected"
    /\ Command
    /\ hub_link' = "none" /\ rooms' = [r \in {} |-> NewRoom]
    /\ uplink' = << >> /\ downlink' = << >>
    /\ members' = [r \in Rooms |-> members[r] \ {Me}]
    /\ chat' = "disconnected" /\ welcomed' = FALSE /\ hellos' = 0 /\ due' = FALSE
    /\ UNCHANGED <<misheard, part_forgotten>> /\ NoFault

(* rns_rrc_session_join: the record is made first, and marked once the     *)
(* envelope is out.                                                        *)
Join(r) ==
    /\ chat = "connected" /\ hub_link = "up"
    /\ CanAdd(r)
    /\ Command
    /\ \/ /\ uplink' = Sent([type |-> "join", room |-> r])
          /\ rooms' = With(rooms, r, [Record(r) EXCEPT !.desired = TRUE,
                                                      !.join_pending = TRUE])
          /\ NoFault
       \/ /\ Fault
          /\ rooms' = IF Record(r).desired \/ Record(r).joined
                      THEN rooms ELSE Without(rooms, {r})
          /\ UNCHANGED uplink
    /\ UNCHANGED <<chat, hub_link, welcomed, hellos, due, downlink, members,
                   misheard, part_forgotten>>

Parting_NotPending(rec) == [rec EXCEPT !.desired = FALSE]
Parting(rec) == [rec EXCEPT !.desired = FALSE, !.part_pending = TRUE]

(* rns_rrc_session_part.                                                   *)
Part(r) ==
    /\ chat = "connected" /\ hub_link = "up"
    /\ Command
    /\ \/ /\ uplink' = Sent([type |-> "part", room |-> r])
          /\ rooms' = IF r \in DOMAIN rooms
                      THEN [rooms EXCEPT ![r] = Parting(@)] ELSE rooms
          /\ NoFault
       \/ Fault /\ UNCHANGED <<uplink, rooms>>
    /\ UNCHANGED <<chat, hub_link, welcomed, hellos, due, downlink, members,
                   misheard, part_forgotten>>

-----------------------------------------------------------------------------
(* rns_rrc_session_poll, one action per state it looks at.                 *)

PollClosed_WhenConnected ==
    /\ hub_link = "down" /\ chat = "connected"
    /\ CleanupLink
    /\ chat' = IF AutoReconnect THEN "reconnect_wait" ELSE "disconnected"
    /\ welcomed' = FALSE /\ due' = FALSE
    /\ UNCHANGED <<hellos, misheard, part_forgotten, commands, chat_faults>>

(* schedule_reconnect after the link closed.                               *)
PollClosed ==
    /\ hub_link = "down"
    /\ CleanupLink
    /\ chat' = IF AutoReconnect THEN "reconnect_wait" ELSE "disconnected"
    /\ welcomed' = FALSE /\ due' = FALSE
    /\ UNCHANGED <<hellos, misheard, part_forgotten, commands, chat_faults>>

(* The wait is over: rns_rrc_session_connect.                              *)
PollReconnect ==
    /\ chat = "reconnect_wait" /\ due
    /\ CleanupLink
    /\ chat' = "discovering" /\ welcomed' = FALSE /\ hellos' = 0 /\ due' = FALSE
    /\ misheard' = {} /\ part_forgotten' = {}
    /\ UNCHANGED <<commands, chat_faults>>

(* A known path opens the link, or the runtime refuses; without one the    *)
(* deadline fails the session for good.                                    *)
PollDiscover ==
    /\ chat = "discovering"
    /\ \/ chat' = "linking" /\ hub_link' = "opening" /\ NoFault
       \/ chat' = "failed" /\ Fault /\ UNCHANGED hub_link
    /\ due' = FALSE
    /\ UNCHANGED <<welcomed, hellos, rooms, wires, misheard, part_forgotten, commands>>

PollTimeout ==
    /\ chat = "discovering" /\ due
    /\ chat' = "failed" /\ Fault
    /\ UNCHANGED <<hub_link, welcomed, hellos, due, rooms, wires, misheard, part_forgotten,
                   commands>>

FailAndClean ==
    /\ chat' = "failed"
    /\ CleanupLink
    /\ UNCHANGED <<welcomed, hellos, due>>

(* send_hello.                                                             *)
SayHello ==
    /\ uplink' = Sent([type |-> "hello"])
    /\ hellos' = hellos + 1 /\ due' = FALSE
    /\ UNCHANGED <<hub_link, rooms, downlink, members, welcomed>>

(* The link is up: identify to the hub and say hello.                      *)
PollHello ==
    /\ chat = "linking" /\ hub_link = "up"
    /\ \/ SayHello /\ chat' = "hello" /\ NoFault
       \/ FailAndClean /\ Fault
    /\ UNCHANGED <<misheard, part_forgotten, commands>>

(* The joins a welcomed session sends again.                               *)
Wanted == {r \in DOMAIN rooms : rooms[r].desired}

PollWelcome ==
    /\ hub_link # "down" /\ chat \notin {"reconnect_wait", "discovering"}
    /\ welcomed
    /\ welcomed' = FALSE
    /\ chat' = "connected"
    /\ \E s \in [1..Cardinality(Wanted) -> Wanted] :
          /\ \A r \in Wanted : \E i \in DOMAIN s : s[i] = r
          /\ \/ /\ uplink' = uplink \o [i \in DOMAIN s |->
                                          [type |-> "join", room |-> s[i]]]
                /\ rooms' = [r \in DOMAIN rooms |->
                               IF r \in Wanted
                               THEN [rooms[r] EXCEPT !.join_pending = TRUE]
                               ELSE rooms[r]]
                /\ NoFault
             \/ /\ Wanted # {} /\ Fault
                /\ UNCHANGED <<uplink, rooms>>
    /\ UNCHANGED <<hub_link, hellos, due, downlink, members, misheard, part_forgotten, commands>>

(* No WELCOME within the interval: say hello again, or give up.            *)
PollRetry ==
    /\ chat = "hello" /\ hub_link = "up" /\ ~welcomed /\ due
    /\ \/ /\ hellos < HelloMax
          /\ \/ SayHello /\ NoFault /\ UNCHANGED chat
             \/ FailAndClean /\ Fault
       \/ /\ hellos >= HelloMax
          /\ FailAndClean /\ NoFault
    /\ UNCHANGED <<misheard, part_forgotten, commands>>

-----------------------------------------------------------------------------
(* What the link brings.                                                   *)

(* link_state_changed.                                                     *)
LinkUp ==
    /\ hub_link = "opening"
    /\ hub_link' = "up"
    /\ UNCHANGED <<chat, welcomed, hellos, due, rooms, wires, misheard, part_forgotten, commands,
                   chat_faults>>

LinkDown ==
    /\ hub_link \in {"opening", "up"}
    /\ hub_link' = "down" /\ Fault
    /\ uplink' = << >> /\ downlink' = << >>
    /\ members' = [r \in Rooms |-> members[r] \ {Me}]
    /\ UNCHANGED <<chat, welcomed, hellos, due, rooms, misheard, part_forgotten, commands>>

(* room_add_member for the members of a list and then for the session:      *)
(* what a full record does not take is left out.                           *)
Tracked(known, list) ==
    {T \in SUBSET (known \cup list \cup {Me}) :
        /\ known \subseteq T
        /\ Cardinality(T) <= MemberLimit
        /\ T # known \cup list \cup {Me} => Cardinality(T) = MemberLimit
        /\ Me \in T \ (known \cup list) => list \subseteq T}

(* apply_room_event: the tables a JOINED, PARTED or ERROR may leave.  A     *)
(* list that is too long is refused and the envelope with it.              *)
AfterJoined(e) ==
    IF CanAdd(e.room)
    THEN {With(rooms, e.room,
               [Record(e.room) EXCEPT !.desired = TRUE, !.joined = TRUE,
                                      !.join_pending = FALSE, !.tracked = T]) :
            T \in Tracked(Record(e.room).tracked, e.list)}
    ELSE {rooms}

AfterParted(e) ==
    IF e.room \notin DOMAIN rooms THEN rooms
    ELSE IF rooms[e.room].part_pending THEN Without(rooms, {e.room})
    ELSE [rooms EXCEPT ![e.room].tracked = @ \ e.list]

AfterError(e) ==
    IF e.room \notin DOMAIN rooms THEN rooms
    ELSE IF rooms[e.room].join_pending \/ ~rooms[e.room].desired
         THEN Without(rooms, {e.room})
         ELSE [rooms EXCEPT ![e.room].part_pending = FALSE]

Refused(e) == e.type # "error" /\ Cardinality(e.list) > MemberLimit

After(e) == CASE Refused(e) -> {rooms}
              [] ~Refused(e) /\ e.type = "joined" -> AfterJoined(e)
              [] ~Refused(e) /\ e.type = "parted" -> {AfterParted(e)}
              [] e.type = "error" -> {AfterError(e)}

(* A JOINED that does not fit: the list is refused, or the table or the    *)
(* record is full.                                                         *)
TooMuch(e) ==
    /\ e.type = "joined"
    /\ \/ Refused(e) \/ ~CanAdd(e.room)
       \/ Cardinality(Record(e.room).tracked \cup e.list \cup {Me}) > MemberLimit

(* The user's own part of a room is still on its way, or its answer is.    *)
Parts(r) ==
    \/ \E i \in DOMAIN uplink : uplink[i] = [type |-> "part", room |-> r]
    \/ \E i \in DOMAIN downlink :
          downlink[i].type = "parted" /\ downlink[i].room = r /\ Me \in downlink[i].list

Forgets(e) ==
    e.type = "joined" /\ Parts(e.room) /\ ~Record(e.room).part_pending

(* packet_received: the oldest envelope on the way down.                   *)
Receive ==
    /\ hub_link = "up" /\ downlink # << >>
    /\ downlink' = Tail(downlink)
    /\ LET e == Head(downlink) IN
          \/ /\ e.type = "welcome"
             /\ welcomed' = TRUE
             /\ UNCHANGED <<rooms, misheard, part_forgotten>>
          \/ /\ e.type \in {"joined", "parted", "error"}
             /\ rooms' \in After(e)
             /\ misheard' = IF TooMuch(e) THEN misheard \cup {e.room} ELSE misheard
             /\ part_forgotten' = IF Forgets(e) THEN part_forgotten \cup {e.room}
                                  ELSE part_forgotten
             /\ UNCHANGED welcomed
    /\ UNCHANGED <<chat, hub_link, hellos, due, uplink, members, commands,
                   chat_faults>>

(* A link packet that does not arrive, or arrives with a body that does    *)
(* not parse.                                                              *)
About(e) == IF e.type \in {"hello", "welcome"} THEN {} ELSE {e.room}

Lose ==
    /\ Fault
    /\ \/ /\ uplink # << >> /\ uplink' = Tail(uplink)
          /\ misheard' = misheard \cup About(Head(uplink))
          /\ UNCHANGED downlink
       \/ /\ downlink # << >> /\ downlink' = Tail(downlink)
          /\ misheard' = misheard \cup About(Head(downlink))
          /\ UNCHANGED uplink
    /\ UNCHANGED <<chat, hub_link, welcomed, hellos, due, rooms, members, part_forgotten,
                   commands>>

-----------------------------------------------------------------------------
(* The hub.                                                                *)

HubAnswers ==
    /\ uplink # << >>
    /\ uplink' = Tail(uplink)
    /\ LET e == Head(uplink) IN
          \/ /\ e.type = "hello"
             /\ downlink' = Append(downlink, [type |-> "welcome"])
             /\ UNCHANGED members
          \/ /\ e.type = "join"
             /\ \/ /\ members' = [members EXCEPT ![e.room] = @ \cup {Me}]
                   /\ downlink' = Append(downlink, [type |-> "joined",
                                            room |-> e.room,
                                            list |-> members[e.room] \cup {Me}])
                \/ /\ Me \notin members[e.room]
                   /\ downlink' = Append(downlink, [type |-> "error",
                                                   room |-> e.room])
                   /\ UNCHANGED members
          \/ /\ e.type = "part"
             /\ members' = [members EXCEPT ![e.room] = @ \ {Me}]
             /\ downlink' = Append(downlink, IF Me \in members[e.room]
                                  THEN [type |-> "parted", room |-> e.room,
                                        list |-> {Me}]
                                  ELSE [type |-> "error", room |-> e.room])
    /\ UNCHANGED <<chat, hub_link, welcomed, hellos, due, rooms, misheard, part_forgotten,
                   commands, chat_faults>>

(* Somebody else comes or goes, and the hub tells the members.             *)
OtherMoves(r, o) ==
    /\ commands < MaxCommands
    /\ LET here == o \in members[r]
           told == [type |-> IF here THEN "parted" ELSE "joined", room |-> r,
                    list |-> {o}] IN
          /\ members' = [members EXCEPT ![r] = IF here THEN @ \ {o} ELSE @ \cup {o}]
          /\ downlink' = IF Me \in members[r] THEN Append(downlink, told)
                         ELSE downlink
    /\ commands' = commands + 1
    /\ UNCHANGED <<chat, hub_link, welcomed, hellos, due, rooms, uplink, misheard,
                   part_forgotten, chat_faults>>

(* The clock reaches the deadline or the next action.                      *)
Tick ==
    /\ chat \in {"discovering", "hello", "reconnect_wait"} /\ ~due
    /\ due' = TRUE
    /\ UNCHANGED <<chat, hub_link, welcomed, hellos, rooms, wires, misheard, part_forgotten,
                   commands, chat_faults>>

Poll == \/ PollClosed \/ PollReconnect \/ PollDiscover \/ PollHello
        \/ PollWelcome \/ PollRetry

Next == \/ Connect \/ Close
        \/ \E r \in Rooms : Join(r) \/ Part(r) \/ \E o \in Others : OtherMoves(r, o)
        \/ Poll \/ PollTimeout
        \/ LinkUp \/ LinkDown \/ Receive \/ Lose \/ HubAnswers \/ Tick

(* The client polls and the clock runs; a link that is opening comes up or *)
(* times out, and what is on the wire arrives unless it is lost.           *)
Fairness == /\ WF_chatVars(Poll) /\ WF_chatVars(Tick) /\ WF_chatVars(LinkUp)
            /\ WF_chatVars(Receive) /\ WF_chatVars(HubAnswers)

Spec == Init /\ [][Next]_chatVars /\ Fairness

-----------------------------------------------------------------------------
(* Once the wires are silent, a connected session shows every room the hub *)
(* has it in, with all the hub's members, whatever joins, parts and        *)
(* refusals crossed on the way; and it shows no other room and no other    *)
(* member, unless a JOINED came while the user's part was unanswered and   *)
(* its record, removed by another's PARTED or an ERROR and made again,     *)
(* knew no more of it: that room stays.  Rooms of which an envelope was    *)
(* lost or did not fit are excepted (apply_room_event,                     *)
(* clear_transient_room_state).                                            *)
RoomsAgree ==
    (/\ chat = "connected" /\ hub_link = "up" /\ ~welcomed
     /\ uplink = << >> /\ downlink = << >>)
      => \A r \in Rooms \ misheard :
            LET shown == r \in DOMAIN rooms /\ rooms[r].joined IN
            /\ Me \in members[r] => shown /\ members[r] \subseteq rooms[r].tracked
            /\ shown /\ r \notin part_forgotten =>
                  Me \in members[r] /\ rooms[r].tracked \subseteq members[r]

(* Once links stop closing and packets stop being lost, a session that was *)
(* told to connect ends up connected, has failed, or was closed: it does   *)
(* not hang between the states of rns_rrc_session_poll.                    *)
EventuallyInOrOut == <>[](chat \in {"connected", "failed", "disconnected"})
=============================================================================
