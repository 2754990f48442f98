----------------------------- MODULE PacketNode -----------------------------
(***************************************************************************)
(* The stand-alone LXMF node of the Heltec firmware: the packet endpoint   *)
(* (src/lxmf/packet_node.c) with the durable receive gate of the firmware  *)
(* (packet_messaging.c), its verified chats (chat_store.c), its archive of *)
(* messages from unknown senders (message_archive.c) and the shared        *)
(* admission rule (chat_admission.h).                                      *)
(*                                                                         *)
(* The node runs in one task, so a handler is one step; what can come      *)
(* between its parts is a failed flash write and a loss of power, and the  *)
(* steps say what each leaves behind.  A write through the journal         *)
(* (chat_journal.c) that fails leaves the old record of its pair or the    *)
(* new one (module Journal); the first write of a pair can also leave it   *)
(* damaged, when it tears: the journal then refuses the pair, and from the *)
(* next opening on the stores pass it over.  The firmware keeps nothing    *)
(* but chats and messages in the journal.  The outgoing states of a chat   *)
(* message (queued, sent) have no producer in the firmware: every stored   *)
(* message is a received one.                                              *)
(***************************************************************************)
EXTENDS Naturals, Sequences, FiniteSets, SequencesExt

CONSTANTS
    Messages,         \* the LXMF messages that may arrive
    SenderOf,         \* message -> the source it claims
    Forged,           \* messages whose signature is not their source's
    ClaimedTime,      \* message -> its timestamp
    ChatCount,        \* HELTEC_CHAT_COUNT, also the bound on senders
    ChatMessages,     \* HELTEC_CHAT_MESSAGES, per chat and per sender
    ArchiveCount,     \* slots of the archive
    UnknownPerSender, \* unverified records of one sender
    UnknownSenders,   \* senders with unverified records
    PeerLimit,        \* PEERS
    ReplayLimit,      \* REPLAYS
    PendingLimit,     \* PENDING
    MaxArrivals,      \* bound on messages heard
    MaxNodeFaults     \* bound on failed writes, power losses and deletions

VARIABLES
    running,          \* the node was created and its stores opened
    peers,            \* peers: senders whose announce was verified, oldest first
    replay,           \* replay: accepted message ids, oldest first
    deferred,         \* pending: ciphertexts of unknown signers, in slot order
    chats, archive,   \* heltec_chat_store.chats, heltec_message_archive.entries
    flash,            \* what the journal holds for both, and its blank and damaged pairs
    set_aside,        \* journal.quarantined: the pairs found damaged when it was opened
    cursor, rescan,   \* archive_cursor, archive_rescan
    learned,          \* archive_generation # learned_announces
    proved,           \* messages for which a proof was queued
    ever_saved,       \* messages that reached a chat in flash
    trouble,          \* a write failed: "lost", or "phantom" if one was stored even so
    arrivals, node_faults

nodeVars == <<running, peers, replay, deferred, chats, archive, flash, set_aside,
              cursor, rescan, learned, proved, ever_saved, trouble, arrivals, node_faults>>

Senders == {SenderOf[m] : m \in Messages}
ChatSlots == 1 .. ChatCount
ArchiveSlots == 1 .. ArchiveCount
Pairs == ({"chat"} \X ChatSlots) \cup ({"msg"} \X ArchiveSlots)
NoChat == [used |-> FALSE, sender |-> "none", ids |-> <<>>]
NoEntry == [used |-> FALSE, id |-> "none", signature |-> "none"]
IsQueue(q, S, limit) == Len(q) <= limit /\ ToSet(q) \subseteq S
IsChat(c) == \/ c = NoChat
             \/ c.used /\ c.sender \in Senders /\ IsQueue(c.ids, Messages, ChatMessages)
Entries == {NoEntry} \cup
           [used : {TRUE}, id : Messages, signature : {"unverified", "failed"}]

\* The node and both stores are in states their types allow.
TypeOK ==
    /\ running \in BOOLEAN
    /\ IsQueue(peers, Senders, PeerLimit)
    /\ IsQueue(replay, Messages, ReplayLimit)
    /\ IsQueue(deferred, Messages, PendingLimit)
    /\ \A s \in ChatSlots : IsChat(chats[s]) /\ IsChat(flash.chats[s])
    /\ archive \in [ArchiveSlots -> Entries]
    /\ flash.archive \in [ArchiveSlots -> Entries]
    /\ flash.blank \subseteq Pairs /\ flash.damaged \subseteq Pairs
    /\ flash.blank \cap flash.damaged = {} /\ set_aside \subseteq flash.damaged
    /\ cursor \in 1 .. (ArchiveCount + 1)
    /\ {rescan, learned} \subseteq BOOLEAN
    /\ trouble \in {"none", "lost", "phantom"}
    /\ proved \subseteq Messages /\ ever_saved \subseteq Messages
    /\ arrivals \in Nat /\ node_faults \in Nat

\* A new board: a blank journal, empty stores, an idle scan.
Init ==
    /\ running = TRUE
    /\ peers = <<>> /\ replay = <<>> /\ deferred = <<>>
    /\ chats = [s \in ChatSlots |-> NoChat]
    /\ archive = [s \in ArchiveSlots |-> NoEntry]
    /\ flash = [chats |-> chats, archive |-> archive, blank |-> Pairs, damaged |-> {}]
    /\ set_aside = {}
    /\ cursor = ArchiveCount + 1 /\ rescan = FALSE /\ learned = FALSE
    /\ proved = {} /\ ever_saved = {} /\ trouble = "none"
    /\ arrivals = 0 /\ node_faults = 0

-----------------------------------------------------------------------------
(* The two stores as functions of what they hold.                           *)

First(S) == CHOOSE i \in S : \A j \in S : i <= j
UsedChats(c) == {s \in ChatSlots : c[s].used}
UsedEntries(a) == {s \in ArchiveSlots : a[s].used}
Saved(c) == UNION {ToSet(c[s].ids) : s \in UsedChats(c)}
Archived(a) == {a[s].id : s \in UsedEntries(a)}
ChatSenders(c) == {c[s].sender : s \in UsedChats(c)}
SourcesUpTo(a, i) == {SenderOf[a[s].id] : s \in {t \in UsedEntries(a) : t <= i}}
RecordsOf(a, sender) == {s \in UsedEntries(a) : SenderOf[a[s].id] = sender}

\* heltec_chat_admission_available: is there room for the message in the two
\* stores together?
Available(c, a, m, verified) ==
    LET sender == SenderOf[m]
        fits(i) == Cardinality(ChatSenders(c) \cup SourcesUpTo(a, i)) <= ChatCount
        mine == {s \in UsedChats(c) : c[s].sender = sender}
        retained == IF mine = {} THEN 0 ELSE Len(c[First(mine)].ids)
        same == retained + Cardinality(RecordsOf(a, sender))
        known == mine # {} \/ RecordsOf(a, sender) # {}
        count == Cardinality(ChatSenders(c) \cup SourcesUpTo(a, ArchiveCount))
    IN  IF m \in Saved(c) THEN TRUE
        ELSE IF m \in Archived(a)
        THEN fits((CHOOSE s \in UsedEntries(a) : a[s].id = m) - 1)
        ELSE /\ fits(ArchiveCount)
             /\ \/ same < ChatMessages /\ (known \/ count < ChatCount)
                \/ /\ verified
                   /\ \/ known /\ same = ChatMessages /\ retained = ChatMessages
                      \/ /\ ~known /\ count = ChatCount
                         /\ UsedEntries(a) = {} /\ UsedChats(c) # {}

\* The slots a store may use: not the quarantined ones.
FreeChats(c) == {s \in ChatSlots \ UsedChats(c) : <<"chat", s>> \notin set_aside}
FreeEntries(a) == {s \in ArchiveSlots \ UsedEntries(a) : <<"msg", s>> \notin set_aside}

\* heltec_chat_store_add: the sender's chat, or a free slot, or the chat whose
\* newest message claims the oldest time; a full chat drops its oldest message.
\* There is none of these when every slot is quarantined.
SlotFor(c, sender) ==
    LET mine == {s \in UsedChats(c) : c[s].sender = sender}
        newest(s) == ClaimedTime[Head(c[s].ids)]
    IN  IF mine # {} THEN First(mine)
        ELSE IF FreeChats(c) # {} THEN First(FreeChats(c))
        ELSE First({s \in UsedChats(c) : \A t \in UsedChats(c) : newest(s) <= newest(t)})

Added(c, m) ==
    LET s == SlotFor(c, SenderOf[m])
        old == IF c[s].used /\ c[s].sender = SenderOf[m] THEN c[s].ids ELSE <<>>
        kept == IF Len(old) = ChatMessages THEN SubSeq(old, 1, ChatMessages - 1) ELSE old
    IN  [used |-> TRUE, sender |-> SenderOf[m], ids |-> <<m>> \o kept]

\* heltec_message_archive_put of a new unverified record: the quotas.
HasRoom(a, m) ==
    LET sources == SourcesUpTo(a, ArchiveCount)
        mine == RecordsOf(a, SenderOf[m])
    IN  /\ FreeEntries(a) # {}
        /\ Cardinality(mine) < ChatMessages
        /\ mine # {} \/ Cardinality(sources) < ChatCount
        /\ Cardinality(mine) < UnknownPerSender
        /\ mine # {} \/ Cardinality(sources) < UnknownSenders

Unverified(m) == [used |-> TRUE, id |-> m, signature |-> "unverified"]
SlotOf(a, m) == CHOOSE s \in UsedEntries(a) : a[s].id = m

-----------------------------------------------------------------------------
(* One message through the receive gate.  A "world" carries the stores, the  *)
(* flash and what the node remembers; a fate says how a write ends: "ok",    *)
(* "old" (an error, nothing stored), "new" (an error, stored even so) or     *)
(* "torn" (an error, half a record).                                         *)

World == [chats |-> chats, archive |-> archive, flash |-> flash, replay |-> replay,
          deferred |-> deferred, proved |-> proved, ever_saved |-> ever_saved,
          trouble |-> trouble]

Worse(t, fate) ==
    CASE fate = "new" -> "phantom"
      [] fate \in {"old", "torn"} -> (IF t = "none" THEN "lost" ELSE t)
      [] fate = "ok" -> t

\* replace in the journal: a damaged pair is refused, and half a record beside
\* a good one is the old record.
Outcome(f, pair, fate) ==
    IF pair \in f.damaged \/ (fate = "torn" /\ pair \notin f.blank) THEN "old" ELSE fate
Stores(outcome) == outcome \in {"ok", "new"}
Replaced(f, pair, outcome) ==
    [f EXCEPT !.blank = IF outcome = "old" THEN @ ELSE @ \ {pair},
              !.damaged = IF outcome = "torn" THEN @ \cup {pair} ELSE @]

WriteChat(w, slot, chat, fate) ==
    LET end == Outcome(w.flash, <<"chat", slot>>, fate)
        written == IF Stores(end) THEN [w.flash EXCEPT !.chats[slot] = chat] ELSE w.flash
    IN  [w EXCEPT !.chats = IF end = "ok" THEN [@ EXCEPT ![slot] = chat] ELSE @,
                  !.flash = Replaced(written, <<"chat", slot>>, end),
                  !.ever_saved = IF Stores(end) THEN @ \cup ToSet(chat.ids) ELSE @,
                  !.trouble = Worse(@, end)]

WriteEntry(w, slot, entry, fate) ==
    LET end == Outcome(w.flash, <<"msg", slot>>, fate)
        written == IF Stores(end) THEN [w.flash EXCEPT !.archive[slot] = entry] ELSE w.flash
    IN  [w EXCEPT !.archive = IF end = "ok" THEN [@ EXCEPT ![slot] = entry] ELSE @,
                  !.flash = Replaced(written, <<"msg", slot>>, end),
                  !.trouble = Worse(@, end)]

\* persist_message for an unverified message: into the archive, when admitted.
Archive(w, m, fate) ==
    IF /\ Available(w.chats, w.archive, m, FALSE)
       /\ m \notin Archived(w.archive)
       /\ HasRoom(w.archive, m)
    THEN WriteEntry(w, First(FreeEntries(w.archive)), Unverified(m), fate)
    ELSE w

\* heltec_chat_store_add in persist_message: nothing is written for a message
\* the chat already has, or with no slot to write to.
SavedChat(w, m, fate) ==
    LET s == SlotFor(w.chats, SenderOf[m])
    IN  IF FreeChats(w.chats) = {} /\ UsedChats(w.chats) = {} THEN w
        ELSE IF w.chats[s].used /\ w.chats[s].sender = SenderOf[m] /\ m \in ToSet(w.chats[s].ids)
        THEN w ELSE WriteChat(w, s, Added(w.chats, m), fate)

InChat(w, m) == m \in Saved(w.chats)

\* persist_message for a verified message: the chat first, then its copy in
\* the archive is removed.
Unarchived(w, m, fate) ==
    IF m \in Archived(w.archive)
    THEN WriteEntry(w, SlotOf(w.archive, m), NoEntry, fate) ELSE w

Persisted(w, m, first, second) ==
    LET added == SavedChat(w, m, first)
    IN  IF Available(w.chats, w.archive, m, TRUE)
        THEN IF InChat(added, m) THEN Unarchived(added, m, second) ELSE added
        ELSE w

Accepts(w, m, first, second) ==
    LET after == Persisted(w, m, first, second)
    IN  /\ Available(w.chats, w.archive, m, TRUE)
        /\ InChat(after, m)
        /\ m \notin Archived(after.archive)

Remember(q, x, limit) == IF Len(q) < limit THEN Append(q, x) ELSE Append(Tail(q), x)

\* The rest of lxmf_packet_node_receive: the replay table and the proof,
\* which is repeated for a duplicate.
Verified_Unsaved(w, m, first, second) ==
    [Persisted(w, m, first, second) EXCEPT !.proved = @ \cup {m},
        !.replay = Remember(@, m, ReplayLimit)]

Verified(w, m, first, second) ==
    IF m \in ToSet(w.replay) THEN [w EXCEPT !.proved = @ \cup {m}]
    ELSE IF Accepts(w, m, first, second)
    THEN [Persisted(w, m, first, second) EXCEPT !.proved = @ \cup {m},
                                                !.replay = Remember(@, m, ReplayLimit)]
    ELSE Persisted(w, m, first, second)

\* ... and for an unknown signer: it is offered to the archive and kept among
\* the deferred ciphertexts, unless it is deferred already.
Unknown(w, m, fate) ==
    IF m \in ToSet(w.deferred) THEN w
    ELSE [Archive(w, m, fate) EXCEPT
            !.deferred = IF Len(@) < PendingLimit THEN Append(@, m) ELSE @]

\* lxmf_packet_node_receive of an opportunistic packet.
Received(w, known, m, first, second) ==
    IF SenderOf[m] \notin known THEN Unknown(w, m, first)
    ELSE IF m \in Forged THEN w
    ELSE Verified(w, m, first, second)

Becomes(w) ==
    /\ chats' = w.chats /\ archive' = w.archive /\ flash' = w.flash
    /\ replay' = w.replay /\ deferred' = w.deferred
    /\ proved' = w.proved /\ ever_saved' = w.ever_saved /\ trouble' = w.trouble

\* How the two writes of one handler may end badly: at most one of them fails.
Fates == IF node_faults < MaxNodeFaults
         THEN {<<"old", "ok">>, <<"new", "ok">>, <<"torn", "ok">>,
               <<"ok", "old">>, <<"ok", "new">>} ELSE {}

\* A handler that leaves Result(first, second) when its writes end so; a write
\* that is not made does not fail.
Handle(Result(_, _)) ==
    LET fine == Result("ok", "ok")
    IN  \/ Becomes(fine) /\ UNCHANGED node_faults
        \/ \E fates \in Fates :
             LET w == Result(fates[1], fates[2])
             IN  w # fine /\ Becomes(w) /\ node_faults' = node_faults + 1

-----------------------------------------------------------------------------

\* A packet is heard.  Deferred ciphertexts older than five minutes go first.
Hear(m) ==
    /\ running
    /\ arrivals < MaxArrivals
    /\ arrivals' = arrivals + 1
    /\ \E expired \in SUBSET ToSet(deferred) :
        LET w == [World EXCEPT !.deferred = SelectSeq(@, LAMBDA x : x \notin expired)]
        IN  Handle(LAMBDA first, second : Received(w, ToSet(peers), m, first, second))
    /\ UNCHANGED <<running, peers, set_aside, cursor, rescan, learned>>

\* learn: a verified announce.  The sender becomes known, in the place of the
\* oldest one when the table is full, and its deferred messages are received.
Learn(sender) ==
    /\ running
    /\ peers' = IF sender \in ToSet(peers) THEN peers
                ELSE Remember(peers, sender, PeerLimit)
    /\ learned' = TRUE
    /\ LET mine == SelectSeq(deferred, LAMBDA x : SenderOf[x] = sender)
           w == [World EXCEPT !.deferred = SelectSeq(@, LAMBDA x : SenderOf[x] # sender)]
       IN  Handle(LAMBDA first, second :
                    FoldLeft(LAMBDA v, m : Received(v, ToSet(peers'), m, first, second), w, mine))
    /\ UNCHANGED <<running, set_aside, cursor, rescan, arrivals>>

\* The loop of heltec_packet_messaging_run notices that announces were learned:
\* the scan starts, or will start over.
Notice ==
    /\ running /\ learned
    /\ learned' = FALSE
    /\ IF cursor = ArchiveCount + 1
       THEN cursor' = 1 /\ UNCHANGED rescan
       ELSE rescan' = TRUE /\ UNCHANGED cursor
    /\ UNCHANGED <<running, peers, replay, deferred, chats, archive, flash, set_aside,
                   proved, ever_saved, trouble, arrivals, node_faults>>

\* ... and looks at one archived record per interval: a record whose sender is
\* known now is received again, or marked as failed, its text dropped.
Judged(entry, first, second) ==
    IF ~entry.used \/ entry.signature # "unverified" \/ SenderOf[entry.id] \notin ToSet(peers)
    THEN World
    ELSE IF entry.id \in Forged
    THEN WriteEntry(World, cursor, [entry EXCEPT !.signature = "failed"], first)
    ELSE Verified(World, entry.id, first, second)

Scan ==
    /\ running /\ ~learned
    /\ cursor <= ArchiveCount
    /\ Handle(LAMBDA first, second : Judged(archive[cursor], first, second))
    /\ IF cursor = ArchiveCount /\ rescan
       THEN cursor' = 1 /\ rescan' = FALSE
       ELSE cursor' = cursor + 1 /\ UNCHANGED rescan
    /\ UNCHANGED <<running, peers, set_aside, learned, arrivals>>

\* The owner deletes a chat (heltec_chat_store_delete) ...
DeleteChat ==
    /\ running /\ node_faults < MaxNodeFaults
    /\ \E fate \in {"ok", "old", "new"}, s \in UsedChats(chats) :
         Becomes(WriteChat(World, s, NoChat, fate))
    /\ node_faults' = node_faults + 1
    /\ UNCHANGED <<running, peers, set_aside, cursor, rescan, learned, arrivals>>

\* lxmf_packet_node_forget_pending.
ForgetPending(w, m) == [w EXCEPT !.deferred = SelectSeq(@, LAMBDA x : x # m)]

\* ... or an archived record (heltec_archive_view_poll), and its deferred copy.
DeleteRecord ==
    /\ running /\ node_faults < MaxNodeFaults
    /\ \E fate \in {"ok", "old", "new"}, s \in UsedEntries(archive) :
         LET w == WriteEntry(World, s, NoEntry, fate)
         IN  Becomes(IF fate = "ok" THEN ForgetPending(w, archive[s].id) ELSE w)
    /\ node_faults' = node_faults + 1
    /\ UNCHANGED <<running, peers, set_aside, cursor, rescan, learned, arrivals>>

\* Power is lost: between two handlers; inside the acceptance of a verified
\* message, once its chat is stored and before its archived copy is removed;
\* or in the middle of a write to the archive or to a chat.
Acceptable(m) ==
    /\ arrivals < MaxArrivals \/ m \in Archived(archive)
    /\ SenderOf[m] \in ToSet(peers) /\ m \notin Forged /\ m \notin ToSet(replay)
    /\ Available(chats, archive, m, TRUE)

Interrupted ==
    {World} \cup
    {SavedChat(World, m, fate) : m \in {x \in Messages : Acceptable(x)}, fate \in {"ok", "torn"}} \cup
    {Archive(World, m, "torn") : m \in {x \in Messages : /\ arrivals < MaxArrivals
                                                        /\ SenderOf[x] \notin ToSet(peers)}}

PowerOff ==
    /\ running /\ node_faults < MaxNodeFaults
    /\ running' = FALSE
    /\ \E w \in Interrupted :
         flash' = w.flash /\ ever_saved' = w.ever_saved /\ trouble' = w.trouble
    /\ peers' = <<>> /\ replay' = <<>> /\ deferred' = <<>>
    /\ chats' = [s \in ChatSlots |-> NoChat]
    /\ archive' = [s \in ArchiveSlots |-> NoEntry]
    /\ set_aside' = {}
    /\ cursor' = ArchiveCount + 1 /\ rescan' = FALSE /\ learned' = FALSE
    /\ node_faults' = node_faults + 1
    /\ UNCHANGED <<proved, arrivals>>

\* heltec_chat_journal_open_report: damaged pairs are set aside, but a journal
\* with damage and no good record does not open.
JournalOpens == flash.damaged = {} \/ Pairs # flash.blank \cup flash.damaged

\* heltec_chat_store_open and heltec_message_archive_open refuse a store with
\* two chats of one sender, two records of one message, or more than the quotas.
\* (A board whose stores do not open runs without them: persist_message then
\* refuses every message, and nothing is proved.)
ChatsLoad ==
    \A s, t \in UsedChats(flash.chats) :
        s # t => flash.chats[s].sender # flash.chats[t].sender

ArchiveLoads ==
    LET a == flash.archive
        sources == SourcesUpTo(a, ArchiveCount)
    IN  /\ \A s, t \in UsedEntries(a) : s # t => a[s].id # a[t].id
        /\ \A x \in sources : Cardinality(RecordsOf(a, x)) <= UnknownPerSender
        /\ Cardinality(sources) <= UnknownSenders

PowerOn ==
    /\ ~running /\ JournalOpens /\ ChatsLoad /\ ArchiveLoads
    /\ running' = TRUE
    /\ set_aside' = flash.damaged
    /\ chats' = flash.chats /\ archive' = flash.archive
    /\ UNCHANGED <<peers, replay, deferred, flash, cursor, rescan, learned, proved,
                   ever_saved, trouble, arrivals, node_faults>>

-----------------------------------------------------------------------------

Next ==
    \/ \E m \in Messages : Hear(m)
    \/ \E s \in Senders : Learn(s)
    \/ Notice
    \/ Scan
    \/ DeleteChat
    \/ DeleteRecord
    \/ PowerOff
    \/ PowerOn

Spec == Init /\ [][Next]_nodeVars

-----------------------------------------------------------------------------

\* A proof tells the sender that the message is delivered: it is queued only
\* for a message that was stored in a chat in flash, whatever writes failed,
\* whichever path (a packet, a deferred ciphertext, an archived record) brought
\* it to lxmf_packet_node_receive, and across restarts.
ProvedIsSaved == proved \subseteq ever_saved

\* Chats and archive together hold at most ChatCount senders, and at most
\* ChatMessages different messages of any one of them, although each store
\* has slots for more (heltec_chat_admission_available), unless a write that
\* was reported as failed had been stored.
SharedQuota ==
    \/ trouble = "phantom"
    \/ /\ Cardinality(ChatSenders(chats) \cup SourcesUpTo(archive, ArchiveCount)) <= ChatCount
       /\ \A x \in Senders :
            Cardinality({m \in Saved(chats) \cup Archived(archive) : SenderOf[m] = x})
                <= ChatMessages

\* A board that has stored a message is never locked out of its stores: what it
\* wrote opens again after any loss of power and any torn write, unless a write
\* that was reported as failed had been stored (heltec_chat_journal_open_report,
\* heltec_chat_store_open, heltec_message_archive_open).  Before its first good
\* record a torn write does lock it out: the journal then refuses to open.
StoresReopen ==
    /\ ever_saved # {} \/ UsedEntries(flash.archive) # {} => JournalOpens
    /\ trouble = "phantom" \/ (ChatsLoad /\ ArchiveLoads)

\* No archived message is overlooked: while one is unverified although its
\* sender is known, the scan of heltec_packet_messaging_run has yet to reach
\* its slot, is to start over, or is about to be started, however announces
\* arrive during a scan; unless a write failed (the record then waits for the
\* next announce), or the message was accepted before, its sender was forgotten
\* and a copy came in between (the replay table then answers for the record,
\* which keeps the copy until the owner deletes it or the board restarts).
NotOverlooked ==
    \A s \in UsedEntries(archive) :
        /\ archive[s].signature = "unverified"
        /\ SenderOf[archive[s].id] \in ToSet(peers)
        /\ archive[s].id \notin proved
        /\ trouble = "none"
        => learned \/ rescan \/ cursor <= s

=============================================================================
