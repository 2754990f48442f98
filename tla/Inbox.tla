------------------------------- MODULE Inbox --------------------------------
(***************************************************************************)
(* How messages come in: as packets, over links, on paper and from a       *)
(* propagation node (lxmf/router_send.c, from lxmf_router_receive_packet   *)
(* on), what is remembered of a sender, how messages of unknown senders    *)
(* are checked later (lxmf_router_verify_pending), and the session that    *)
(* fetches messages from the node (lxmf/propagation_session.c).            *)
(*                                                                         *)
(* The store is its list of messages; how it writes them, and the caps it  *)
(* enforces, are module Store.  Malformed messages, messages for somebody  *)
(* else and messages over the size limit never get past the first checks   *)
(* and are left out.  A stamp is acceptable or not.                        *)
(***************************************************************************)
EXTENDS Integers, Sequences, FiniteSets, SequencesExt

CONSTANTS
  Incoming, SourceOf,   \* messages, and the sender each claims
  Mail,                 \* what the messages may be
  Batch,                \* PN_BATCH
  Retain,               \* retain_on_node
  MaxPapers,            \* LXMF_ROUTER_MAX_PAPER_TRANSIENTS
  MaxChanges            \* bound: crashes, policy changes and removals

ASSUME InboxConfig == IsFiniteSet(Incoming) /\ Batch \in Nat \ {0}

VARIABLES
  mail,      \* of each message: a genuine signature, an acceptable stamp
  kept,      \* the store: "NO", "UNVERIFIED" or "VERIFIED"
  acquainted,\* senders whose identity the resolver knows
  blocked,   \* senders is_source_blocked names
  priced,    \* inbound_stamp_cost # 0
  tickets,   \* senders a ticket is remembered of
  papers,    \* paper_transient_ids, the oldest first
  node,      \* messages waiting at the propagation node
  session,   \* the session
  exchange,  \* its request or the answer, "live" while the receipt exists
  shown,     \* messages in the store that the application was told of
  ever,      \* messages that have been in the store
  scanned,   \* messages in the store that came on paper
  forgotten, repeated, unstamped,   \* what must not happen: see the properties
  changes

policyVars == <<acquainted, blocked, priced>>
storeVars == <<kept, tickets, shown, ever, repeated>>
fetchVars == <<node, session, exchange>>
inboxVars ==
  <<mail, policyVars, storeVars, papers, fetchVars, scanned, forgotten, unstamped, changes>>

Senders == {SourceOf[m] : m \in Incoming}
Resting == {"IDLE", "COMPLETE", "FAILED", "CANCELLED"}          \* terminal()
Asking == {"LIST", "DOWNLOAD", "ACK"}
NoSession == [state |-> "IDLE", link |-> "NONE", ready |-> FALSE, uploading |-> FALSE,
              ids |-> <<>>, offset |-> 0, batch |-> 0, haves |-> {}]
Silence == [kind |-> "none", live |-> FALSE, items |-> {}]

InboxTypeOK ==
  /\ kept \in [Incoming -> {"NO", "UNVERIFIED", "VERIFIED"}]
  /\ acquainted \subseteq Senders /\ blocked \subseteq Senders /\ tickets \subseteq Senders
  /\ session.state \in Resting \cup Asking \cup {"PATH", "LINK", "UPLOAD"}
  /\ session.offset \in 0 .. Cardinality(Incoming) /\ session.batch \in 0 .. Batch
  /\ node \subseteq Incoming /\ session.haves \subseteq Incoming

InboxInit ==
  /\ mail \in Mail
  /\ kept = [m \in Incoming |-> "NO"] /\ acquainted = {} /\ blocked = {} /\ priced \in BOOLEAN
  /\ tickets = {} /\ papers = <<>> /\ node = Incoming
  /\ session = NoSession /\ exchange = Silence
  /\ shown = {} /\ ever = {} /\ scanned = {}
  /\ forgotten = {} /\ repeated = {} /\ unstamped = {} /\ changes = 0

----------------------------------------------------------------------------
(* receive_representation *)

Recognised(m) == SourceOf[m] \in acquainted

(* validate_inbound_stamp *)
StampOK(m) == priced => mail[m].stamped

(* The checks before anything is written: the signature of a sender that is
   known, then the sender's standing, then the stamp. *)
Admitted(m, exempt) ==
  /\ Recognised(m) => mail[m].genuine
  /\ SourceOf[m] \notin blocked
  /\ exempt \/ StampOK(m)

(* remember_verified_ticket; what cannot be saved is forgotten. *)
Teachers(S) == {m \in S : Recognised(m) /\ mail[m].genuine}
LearnTickets(S) ==
  \E T \in SUBSET {SourceOf[m] : m \in Teachers(S)} : tickets' = tickets \cup T

(* lxmf_store_put of the messages S, all new, and the callbacks for R. *)
Deposit(S, R) ==
  /\ kept' = [m \in Incoming |-> IF m \notin S THEN kept[m]
                                 ELSE IF Recognised(m) THEN "VERIFIED" ELSE "UNVERIFIED"]
  /\ ever' = ever \cup S /\ shown' = shown \cup R /\ repeated' = repeated \cup (shown \cap R)

New(S) == {m \in S : kept[m] = "NO"}

(* Those of S that are in the store afterwards: the put of a new message may
   fail, a message that is there already is a success without a callback. *)
Told(S, stored) == New(stored)
Receive(S, stored) ==
  /\ stored \subseteq S /\ S \ New(S) \subseteq stored
  /\ LearnTickets(S) /\ Deposit(New(stored), Told(S, stored))

----------------------------------------------------------------------------
(* The ways in that are not the node. *)

(* lxmf_router_receive_packet *)
ArriveInPacket(m) ==
  /\ Admitted(m, FALSE) /\ \E stored \in SUBSET {m} : Receive({m}, stored)
  /\ UNCHANGED <<mail, policyVars, papers, fetchVars, scanned, forgotten, unstamped, changes>>

(* direct_resource_received: the resource was proved when it was complete,
   whatever becomes of the message here. *)
ArriveInResource(m) == ArriveInPacket(m)

(* direct_link_packet_received proves what was received. *)
ArriveOnLink(m) ==
  /\ Admitted(m, FALSE)
  /\ \E stored \in SUBSET {m} :
       Receive({m}, stored) /\ forgotten' = forgotten \cup (stored \ ever')
  /\ UNCHANGED <<mail, policyVars, papers, fetchVars, scanned, unstamped, changes>>

(* lxmf_router_receive_paper and _uri: what was scanned before is not looked
   at again; the stamp is not asked for. *)
Remember(m) == Append(IF Len(papers) < MaxPapers THEN papers ELSE Tail(papers), m)
Scan(m) ==
  /\ ~Contains(papers, m) /\ Admitted(m, TRUE)
  /\ \E stored \in SUBSET {m} :
       /\ Receive({m}, stored) /\ papers' = IF stored = {} THEN papers ELSE Remember(m)
       /\ scanned' = scanned \cup New(stored)
  /\ UNCHANGED <<mail, policyVars, fetchVars, forgotten, unstamped, changes>>

----------------------------------------------------------------------------
(* lxmf_store_remove, of all of S. *)
DropRejected(S) == shown' = shown \ S /\ scanned' = scanned \ S

(* lxmf_router_verify_pending: every message of an unknown sender is looked
   at again.  A write that fails ends the round: D are done, the rest stays. *)
Unchecked == {m \in Incoming : kept[m] = "UNVERIFIED"}
Undecided(m) == SourceOf[m] \notin blocked /\ ~Recognised(m)
Passes(m) == SourceOf[m] \notin blocked /\ mail[m].genuine /\ StampOK(m)

Verify ==
  LET P == {m \in Unchecked : ~Undecided(m)} IN
  /\ P # {} /\ LearnTickets({m \in P : Passes(m)})
  /\ \E D \in SUBSET P \ {{}} :
       /\ kept' = [m \in Incoming |-> IF m \notin D THEN kept[m]
                                      ELSE IF Passes(m) THEN "VERIFIED" ELSE "NO"]
       /\ DropRejected({m \in D : ~Passes(m)})
       /\ unstamped' = unstamped \cup {m \in D \cap scanned :
                          mail[m].genuine /\ SourceOf[m] \notin blocked /\ ~Passes(m)}
  /\ UNCHANGED <<mail, policyVars, papers, fetchVars, ever, repeated, forgotten, changes>>

(* The application: an announce, the block list, set_inbound_stamp_cost, and
   lxmf_store_remove. *)
LearnIdentity(s) ==
  /\ s \notin acquainted /\ acquainted' = acquainted \cup {s}
  /\ UNCHANGED <<mail, blocked, priced, storeVars, papers, fetchVars, scanned, forgotten,
                 unstamped, changes>>

ChangePolicy ==
  /\ changes < MaxChanges /\ changes' = changes + 1
  /\ \/ \E s \in Senders : blocked' = (blocked \cup {s}) \ (blocked \cap {s}) /\ UNCHANGED priced
     \/ priced' = ~priced /\ UNCHANGED blocked
  /\ UNCHANGED <<mail, acquainted, storeVars, papers, fetchVars, scanned, forgotten, unstamped>>

Discard(m) ==
  /\ changes < MaxChanges /\ changes' = changes + 1
  /\ kept[m] # "NO" /\ kept' = [kept EXCEPT ![m] = "NO"] /\ DropRejected({m})
  /\ UNCHANGED <<mail, policyVars, tickets, ever, repeated, papers, fetchVars, forgotten,
                 unstamped>>

----------------------------------------------------------------------------
(* The session with the propagation node. *)

(* Of what a session that is over has sent, only the request to delete can
   still have an effect. *)
Abandoned == IF exchange.kind = "ACK" THEN [exchange EXCEPT !.live = FALSE] ELSE Silence
EndSession(outcome) == session' = [NoSession EXCEPT !.state = outcome] /\ exchange' = Abandoned
Quiet ==
  UNCHANGED <<mail, policyVars, storeVars, papers, scanned, forgotten, unstamped, changes>>

(* lxmf_pn_session_sync and lxmf_pn_session_upload; lxmf_pn_session_cancel *)
BeginSession(uploading) ==
  /\ session.state \in Resting
  /\ session' = [NoSession EXCEPT !.state = "PATH", !.uploading = uploading]
  /\ exchange' = Abandoned /\ Quiet /\ UNCHANGED node

CancelSession == session.state \notin Resting /\ EndSession("CANCELLED") /\ Quiet /\ UNCHANGED node

(* send_get *)
Wanted(s) == {s.ids[i] : i \in s.offset + 1 .. s.offset + s.batch}
Ask(s, kind) ==
  /\ session' = [s EXCEPT !.state = kind]
  /\ exchange' = [kind |-> kind, live |-> TRUE,
                  items |-> CASE kind = "LIST" -> {} [] kind = "DOWNLOAD" -> Wanted(s)
                              [] kind = "ACK" -> s.haves]

Left(s) == Len(s.ids) - s.offset
NextBatch(s) == [s EXCEPT !.batch = IF Left(s) < Batch THEN Left(s) ELSE Batch]

(* lxmf_pn_session_poll with an answer that was taken. *)
Advance(s) ==
  IF s.state = "DOWNLOAD" /\ s.haves # {} /\ ~Retain THEN Ask(s, "ACK")
  ELSE LET t == [s EXCEPT !.offset = IF s.state = "LIST" THEN 0 ELSE @ + s.batch] IN
       IF Left(t) <= 0 THEN EndSession("COMPLETE") ELSE Ask(NextBatch(t), "DOWNLOAD")

PollSession ==
  /\ \/ session.state = "PATH" /\ session' = [session EXCEPT !.state = "LINK", !.link = "PENDING"]
        /\ UNCHANGED exchange
     \/ session.state \notin Resting /\ session.link = "CLOSED" /\ EndSession("FAILED")
     \/ session.state = "LINK" /\ session.link = "ACTIVE" /\ ~session.uploading
        /\ Ask(session, "LIST")
     \/ session.state = "LINK" /\ session.link = "ACTIVE" /\ session.uploading
        /\ session' = [session EXCEPT !.state = "UPLOAD"] /\ UNCHANGED exchange
     \/ session.state = "UPLOAD" /\ session.link = "ACTIVE"
        /\ \E outcome \in {"COMPLETE", "FAILED"} : EndSession(outcome)
     \/ session.ready /\ session.link = "ACTIVE" /\ Advance([session EXCEPT !.ready = FALSE])
  /\ Quiet /\ UNCHANGED node

(* A deadline passes, or a call of poll fails. *)
Expire == session.state \notin Resting /\ EndSession("FAILED") /\ Quiet /\ UNCHANGED node

LinkChanges ==
  /\ \/ session.link = "PENDING" /\ session' = [session EXCEPT !.link = "ACTIVE"]
     \/ session.link \in {"PENDING", "ACTIVE"} /\ session' = [session EXCEPT !.link = "CLOSED"]
  /\ Quiet /\ UNCHANGED <<node, exchange>>

(* The node answers a request, which it may get after the session is over. *)
NodeServes ==
  /\ exchange.kind \in Asking
  /\ \/ exchange.kind = "LIST" /\ exchange' = [exchange EXCEPT !.kind = "LISTED", !.items = node]
        /\ UNCHANGED <<node, forgotten>>
     \/ /\ exchange.kind = "DOWNLOAD" /\ UNCHANGED <<node, forgotten>>
        /\ \E S \in SUBSET (exchange.items \cap node) :
             exchange' = [exchange EXCEPT !.kind = "ITEMS", !.items = S]
     \/ /\ exchange.kind = "ACK"
        /\ exchange' = IF exchange.live THEN [exchange EXCEPT !.kind = "DONE", !.items = {}]
                       ELSE Silence
        /\ node' = node \ exchange.items /\ forgotten' = forgotten \cup (exchange.items \ ever)
  /\ UNCHANGED <<mail, policyVars, storeVars, papers, session, scanned, unstamped, changes>>

(* response: the answer that was asked for; anything else fails the session
   before the store is touched. *)
Haves_All(items, stored) == items
Haves(items, stored) == stored

Answered ==
  /\ exchange.live /\ session.state \in Asking /\ ~session.ready /\ exchange' = Silence
  /\ \/ /\ session.state = "LIST" /\ exchange.kind = "LISTED"
        /\ session' = [session EXCEPT !.ready = TRUE, !.ids = SetToSeq(exchange.items)]
        /\ UNCHANGED storeVars
     \/ /\ session.state = "DOWNLOAD" /\ exchange.kind = "ITEMS"
        /\ LET S == {m \in exchange.items : Admitted(m, FALSE)} IN
           \E stored \in SUBSET S :
             /\ Receive(S, stored)
             /\ session' = [session EXCEPT !.ready = TRUE, !.haves = Haves(exchange.items, stored)]
     \/ /\ session.state = "ACK" /\ exchange.kind = "DONE"
        /\ session' = [session EXCEPT !.ready = TRUE] /\ UNCHANGED storeVars
     \/ session' = [NoSession EXCEPT !.state = "FAILED"] /\ UNCHANGED storeVars
  /\ UNCHANGED <<mail, policyVars, papers, node, scanned, forgotten, unstamped, changes>>

----------------------------------------------------------------------------
(* A crash, possibly while a message or an answer of the node is being stored:
   some of it is in the store and, but for the last one, reported. *)
Underway ==
  {{m} : m \in Incoming} \cup
  (IF exchange.live /\ exchange.kind = "ITEMS" /\ session.state = "DOWNLOAD"
   THEN {exchange.items} ELSE {})
CrashInbox ==
  /\ changes < MaxChanges /\ changes' = changes + 1
  /\ session' = NoSession /\ exchange' = Abandoned /\ papers' = <<>>
  /\ \E A \in Underway :
     \E S \in SUBSET New({m \in A : Admitted(m, FALSE)}) : \E R \in SUBSET S :
       Cardinality(S \ R) <= 1 /\ LearnTickets(S) /\ Deposit(S, R)
  /\ UNCHANGED <<mail, policyVars, node, scanned, forgotten, unstamped>>

InboxNext ==
  \/ \E m \in Incoming :
       \/ ArriveInPacket(m) \/ ArriveInResource(m) \/ ArriveOnLink(m)
       \/ Scan(m) \/ Discard(m)
  \/ \E s \in Senders : LearnIdentity(s)
  \/ Verify \/ ChangePolicy \/ CrashInbox
  \/ \E uploading \in BOOLEAN : BeginSession(uploading)
  \/ CancelSession \/ PollSession \/ Expire \/ LinkChanges \/ NodeServes \/ Answered

InboxSpec == InboxInit /\ [][InboxNext]_inboxVars

----------------------------------------------------------------------------
(***************************************************************************)
(* Whoever is told that a message has arrived can forget it: the           *)
(* propagation node, when it is told to delete it, and the sender of a     *)
(* direct packet, when it gets the proof.  By then the message has been    *)
(* written to the store, whatever was rejected, could not be written, was  *)
(* cancelled or crashed in between.                                        *)
(***************************************************************************)
TakenIsStored == forgotten = {}

(***************************************************************************)
(* The application hears of a message once for each time it was put in the *)
(* store, on whichever ways and however often the message arrives.         *)
(***************************************************************************)
ReportedOnce == repeated = {}

(***************************************************************************)
(* Trust is earned: a message is marked verified, and a ticket remembered, *)
(* only for a sender whose identity is known and whose signature is        *)
(* genuine, be it at arrival or when the sender becomes known later.       *)
(***************************************************************************)
TrustEarned ==
  /\ \A m \in Incoming : kept[m] = "VERIFIED" => Recognised(m) /\ mail[m].genuine
  /\ \A s \in tickets : \E m \in Incoming : SourceOf[m] = s /\ mail[m].genuine /\ s \in acquainted

(* What was taken is kept, reported and trusted as it should (the above). *)
InboxSound == InboxTypeOK /\ TakenIsStored /\ ReportedOnce /\ TrustEarned

(***************************************************************************)
(* Paper delivery "is exempt from inbound stamp cost enforcement"          *)
(* (lxmf_router.h): a genuine message that was taken from paper is not     *)
(* dropped for want of a stamp.                                            *)
(***************************************************************************)
PaperExempt == unstamped = {}
=============================================================================
