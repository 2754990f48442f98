----------------------------- MODULE InboxProofs -----------------------------
(***************************************************************************)
(* What a sender or a propagation node may forget is stored, for any       *)
(* finite set of messages and their senders, any batch size and any number *)
(* of crashes, policy changes and sessions.                                *)
(***************************************************************************)
EXTENDS Inbox, FiniteSetTheorems, TLAPS

Known == {m \in Incoming : kept[m] # "NO"}

IsSession(s) ==
  s = [state |-> s.state, link |-> s.link, ready |-> s.ready, uploading |-> s.uploading,
       ids |-> s.ids, offset |-> s.offset, batch |-> s.batch, haves |-> s.haves]
IsPacket(w) ==
  /\ w = [kind |-> w.kind, live |-> w.live, items |-> w.items]
  /\ w.kind \in {"LISTED", "ITEMS"} => w.items \subseteq Incoming

\* The store: what is in it was once put there, only that was reported, and
\* what is verified was checked.
StoreSafe ==
  /\ kept \in [Incoming -> {"NO", "UNVERIFIED", "VERIFIED"}]
  /\ Known \subseteq ever
  /\ shown \subseteq Known /\ repeated = {}
  /\ TrustEarned

\* The session: it acknowledges, and the acknowledgement under way names, only
\* what was put in the store, even when the session is over or was replaced.
FetchSafe ==
  /\ IsSession(session) /\ IsPacket(exchange)
  /\ session.haves \subseteq ever
  /\ exchange.kind = "ACK" => exchange.items \subseteq ever
  /\ node \subseteq Incoming
  /\ forgotten = {}

Safe == StoreSafe /\ FetchSafe

-----------------------------------------------------------------------------

\* A router that has received nothing.
LEMMA SafeInitially == ASSUME InboxInit PROVE Safe
<1>1. StoreSafe
  BY DEF InboxInit, StoreSafe, Known, TrustEarned
<1>2. FetchSafe
  BY DEF InboxInit, FetchSafe, IsSession, IsPacket, NoSession, Silence
<1> QED
  BY <1>1, <1>2 DEF Safe

\* Tickets are learned of known senders with a genuine signature.
LEMMA TicketsEarned ==
  ASSUME StoreSafe, NEW S \in SUBSET Incoming, LearnTickets(S), UNCHANGED <<mail, acquainted>>
  PROVE  \A s \in tickets' :
           \E m \in Incoming : SourceOf[m] = s /\ mail'[m].genuine /\ s \in acquainted'
BY DEF StoreSafe, TrustEarned, LearnTickets, Teachers, Recognised

\* A put of new messages that passed the checks keeps the store in order.
LEMMA DepositSafe ==
  ASSUME StoreSafe, NEW A \in SUBSET Incoming, NEW S \in SUBSET New(A), NEW R \in SUBSET S,
         \A m \in S : Admitted(m, TRUE) \/ Admitted(m, FALSE),
         Deposit(S, R), LearnTickets(A), UNCHANGED <<mail, acquainted>>
  PROVE  StoreSafe' /\ ever' = ever \cup S
<1>1. /\ kept' = [m \in Incoming |-> IF m \notin S THEN kept[m]
                                     ELSE IF Recognised(m) THEN "VERIFIED" ELSE "UNVERIFIED"]
      /\ ever' = ever \cup S /\ shown' = shown \cup R
      /\ repeated' = repeated \cup (shown \cap R)
  BY DEF Deposit
<1>2. S \subseteq Incoming /\ \A m \in S : kept[m] = "NO"
  BY DEF New
<1>3. kept' \in [Incoming -> {"NO", "UNVERIFIED", "VERIFIED"}]
  BY <1>1 DEF StoreSafe
<1>4. Known' = Known \cup S
  BY <1>1, <1>2 DEF Known
<1>5. repeated' = {}
  BY <1>1, <1>2 DEF StoreSafe, Known
<1>6. \A m \in Incoming : kept'[m] = "VERIFIED" => Recognised(m)' /\ mail'[m].genuine
  BY <1>1 DEF StoreSafe, TrustEarned, Recognised, Admitted
<1>7. TrustEarned'
  BY <1>6, TicketsEarned DEF TrustEarned
<1> QED
  BY <1>1, <1>3, <1>4, <1>5, <1>7 DEF StoreSafe

\* receive_representation: afterwards, what it calls stored was put in the
\* store.
LEMMA ReceiveSafe ==
  ASSUME StoreSafe, NEW S \in SUBSET Incoming, NEW stored \in SUBSET S,
         \A m \in S : Admitted(m, TRUE) \/ Admitted(m, FALSE),
         Receive(S, stored), UNCHANGED <<mail, acquainted>>
  PROVE  StoreSafe' /\ ever \subseteq ever' /\ stored \subseteq ever'
<1>1. Deposit(New(stored), New(stored)) /\ LearnTickets(S)
  BY DEF Receive, Told
<1>2. New(stored) \in SUBSET New(S) /\ New(stored) \in SUBSET Incoming
      /\ \A m \in New(stored) : m \in S
  BY DEF New
<1>3. StoreSafe' /\ ever' = ever \cup New(stored)
  BY Zenon, <1>1, <1>2, DepositSafe
<1>4. stored \subseteq ever \cup New(stored)
  BY DEF New, StoreSafe, Known
<1> QED
  BY <1>3, <1>4

\* The session is left alone while the store grows.
LEMMA FetchUndisturbed ==
  ASSUME FetchSafe, ever \subseteq ever', forgotten' = {}, UNCHANGED fetchVars
  PROVE  FetchSafe'
BY DEF FetchSafe, fetchVars, IsSession, IsPacket

\* The store is left alone.
LEMMA StoreUndisturbed ==
  ASSUME StoreSafe, UNCHANGED <<mail, storeVars>>, acquainted \subseteq acquainted'
  PROVE  StoreSafe' /\ ever' = ever
BY DEF StoreSafe, storeVars, Known, TrustEarned, Recognised

-----------------------------------------------------------------------------
(* The ways in, and the application.                                        *)

\* A packet, a resource, a link packet or a sheet of paper.
LEMMA ArrivalSafe ==
  ASSUME Safe, NEW m \in Incoming,
         ArriveInPacket(m) \/ ArriveInResource(m) \/ ArriveOnLink(m) \/ Scan(m)
  PROVE  Safe'
<1>1. /\ Admitted(m, TRUE) \/ Admitted(m, FALSE)
      /\ UNCHANGED <<mail, acquainted, fetchVars>>
      /\ \E stored \in SUBSET {m} :
           Receive({m}, stored) /\ (forgotten' = forgotten
                                    \/ forgotten' = forgotten \cup (stored \ ever'))
  BY Zenon DEF ArriveInPacket, ArriveInResource, ArriveOnLink, Scan, policyVars
<1>2. PICK stored \in SUBSET {m} :
        Receive({m}, stored) /\ (forgotten' = forgotten
                                 \/ forgotten' = forgotten \cup (stored \ ever'))
  BY <1>1
<1>3. StoreSafe' /\ ever \subseteq ever' /\ stored \subseteq ever'
  BY <1>1, <1>2, ReceiveSafe, Zenon DEF Safe
<1>4. forgotten' = {}
  BY <1>2, <1>3 DEF Safe, FetchSafe
<1> QED
  BY <1>1, <1>3, <1>4, FetchUndisturbed DEF Safe

\* lxmf_router_verify_pending verifies what is genuine and drops the rest.
LEMMA VerifySafe ==
  ASSUME Safe, Verify PROVE Safe'
<1> DEFINE P == {m \in Unchecked : ~Undecided(m)}
<1>1. PICK D \in SUBSET P :
        /\ kept' = [m \in Incoming |-> IF m \notin D THEN kept[m]
                                       ELSE IF Passes(m) THEN "VERIFIED" ELSE "NO"]
        /\ shown' = shown \ {m \in D : ~Passes(m)}
  BY DEF Verify, DropRejected
<1>2. /\ UNCHANGED <<mail, acquainted, fetchVars, ever, repeated, forgotten>>
      /\ LearnTickets({m \in P : Passes(m)})
  BY DEF Verify, policyVars
<1>3. \A m \in D : /\ m \in Incoming /\ kept[m] = "UNVERIFIED"
                   /\ Passes(m) => Recognised(m) /\ mail[m].genuine
  BY DEF Unchecked, Undecided, Passes
<1>4. kept' \in [Incoming -> {"NO", "UNVERIFIED", "VERIFIED"}]
  BY <1>1 DEF Safe, StoreSafe
<1>5. Known' \subseteq Known /\ shown' \subseteq Known'
  BY <1>1, <1>3 DEF Known, Safe, StoreSafe
<1>6. TrustEarned'
  <2>1. \A m \in Incoming : kept'[m] = "VERIFIED" => Recognised(m)' /\ mail'[m].genuine
    BY <1>1, <1>2, <1>3 DEF Safe, StoreSafe, TrustEarned, Recognised
  <2>2. {m \in P : Passes(m)} \in SUBSET Incoming
    BY DEF Unchecked
  <2>3. \A s \in tickets' :
          \E m \in Incoming : SourceOf[m] = s /\ mail'[m].genuine /\ s \in acquainted'
    BY <1>2, <2>2, TicketsEarned DEF Safe
  <2> QED
    BY <2>1, <2>3 DEF TrustEarned
<1>7. StoreSafe'
  BY <1>2, <1>4, <1>5, <1>6 DEF Safe, StoreSafe
<1>8. FetchSafe'
  BY <1>2, FetchUndisturbed DEF Safe, FetchSafe
<1> QED
  BY <1>7, <1>8 DEF Safe

\* An announce, a change of policy, and a message the user removes.
LEMMA ApplicationSafe ==
  ASSUME Safe, \/ \E s \in Senders : LearnIdentity(s)
               \/ ChangePolicy
               \/ \E m \in Incoming : Discard(m)
  PROVE  Safe'
<1>1. FetchSafe'
  <2>1. UNCHANGED <<fetchVars, ever, forgotten>>
    BY Zenon DEF LearnIdentity, ChangePolicy, Discard, storeVars
  <2> QED
    BY <2>1, FetchUndisturbed DEF Safe, FetchSafe
<1>2. CASE \/ \E s \in Senders : LearnIdentity(s)
           \/ ChangePolicy
  <2>1. UNCHANGED <<mail, storeVars>> /\ acquainted \subseteq acquainted'
    BY <1>2 DEF LearnIdentity, ChangePolicy
  <2> QED
    BY <1>1, <2>1, StoreUndisturbed DEF Safe
<1>3. ASSUME NEW m \in Incoming, Discard(m) PROVE Safe'
  <2>1. /\ kept' = [kept EXCEPT ![m] = "NO"] /\ shown' = shown \ {m}
        /\ UNCHANGED <<mail, acquainted, tickets, ever, repeated>>
    BY <1>3 DEF Discard, DropRejected, policyVars
  <2>2. kept' \in [Incoming -> {"NO", "UNVERIFIED", "VERIFIED"}] /\ Known' = Known \ {m}
    BY <2>1 DEF Safe, StoreSafe, Known
  <2>3. TrustEarned'
    BY <2>1 DEF Safe, StoreSafe, TrustEarned, Recognised
  <2> QED
    BY <1>1, <2>1, <2>2, <2>3 DEF Safe, StoreSafe
<1> QED
  BY <1>2, <1>3

-----------------------------------------------------------------------------
(* The session.                                                             *)

\* Of a session that is over only the acknowledgement under way is left.
LEMMA AbandonedSafe ==
  ASSUME FetchSafe
  PROVE  IsPacket(Abandoned) /\ (Abandoned.kind = "ACK" => Abandoned.items \subseteq ever)
BY Zenon DEF FetchSafe, IsPacket, Abandoned, Silence

\* A session that has acknowledged nothing yet.
LEMMA FreshSafe ==
  ASSUME FetchSafe, NEW s, IsSession(s), s.haves = {}, session' = s, exchange' = Abandoned,
         ever \subseteq ever', forgotten' = {}, node' = node
  PROVE  FetchSafe'
<1>1. session'.haves \subseteq ever' /\ IsSession(session')
  BY DEF IsSession
<1>2. IsPacket(exchange') /\ (exchange'.kind = "ACK" => exchange'.items \subseteq ever')
  BY AbandonedSafe
<1> QED
  BY <1>1, <1>2 DEF FetchSafe

\* send_get names in an acknowledgement what the last answer left in the store.
LEMMA AskSafe ==
  ASSUME FetchSafe, NEW s, IsSession(s), s.haves \subseteq ever, NEW kind \in Asking,
         Ask(s, kind), ever' = ever, forgotten' = {}, node' = node
  PROVE  FetchSafe'
<1>1. IsSession(session') /\ session'.haves = s.haves
  BY DEF Ask, IsSession
<1>2. IsPacket(exchange') /\ (exchange'.kind = "ACK" => exchange'.items = s.haves)
  <2>1. CASE kind = "ACK"
    BY <2>1 DEF Ask, IsPacket
  <2>2. CASE kind # "ACK"
    BY <2>2, Zenon DEF Ask, IsPacket, Asking
  <2> QED
    BY <2>1, <2>2
<1> QED
  BY <1>1, <1>2 DEF FetchSafe

\* A step that changes one field of the session other than haves.
LEMMA FieldSafe ==
  ASSUME FetchSafe, IsSession(session'), session'.haves = session.haves,
         exchange' = exchange \/ exchange' = Silence, ever' = ever, forgotten' = {}, node' = node
  PROVE  FetchSafe'
BY DEF FetchSafe, IsPacket, Silence

\* Starting, cancelling, polling and failing a session, and its link.
LEMMA SessionSafe ==
  ASSUME Safe, \/ \E uploading \in BOOLEAN : BeginSession(uploading)
               \/ CancelSession \/ PollSession \/ Expire \/ LinkChanges
  PROVE  Safe'
<1>1. UNCHANGED <<mail, storeVars>> /\ acquainted' = acquainted /\ ever' = ever /\ node' = node
      /\ forgotten' = forgotten
  BY Zenon DEF BeginSession, CancelSession, PollSession, Expire, LinkChanges, Quiet,
     policyVars,
         storeVars
<1>2. StoreSafe'
  BY <1>1, StoreUndisturbed DEF Safe
<1> SUFFICES FetchSafe'
  BY <1>2 DEF Safe
<1>3. FetchSafe /\ IsSession(session) /\ session.haves \subseteq ever /\ forgotten' = {}
  BY <1>1 DEF Safe, FetchSafe
<1>4. ASSUME NEW outcome, EndSession(outcome) PROVE FetchSafe'
  <2>1. PICK s : s = [NoSession EXCEPT !.state = outcome]
    BY Zenon
  <2>2. IsSession(s) /\ s.haves = {} /\ session' = s /\ exchange' = Abandoned
    BY <1>4, <2>1, Zenon DEF EndSession, IsSession, NoSession
  <2> QED
    BY <1>1, <1>3, <2>2, FreshSafe
<1>5. ASSUME NEW uploading \in BOOLEAN, BeginSession(uploading) PROVE FetchSafe'
  <2>1. PICK s : s = [NoSession EXCEPT !.state = "PATH", !.uploading = uploading]
    OBVIOUS
  <2>2. IsSession(s) /\ s.haves = {} /\ session' = s /\ exchange' = Abandoned
    BY <1>5, <2>1, Zenon DEF BeginSession, IsSession, NoSession
  <2> QED
    BY <1>1, <1>3, <2>2, FreshSafe
<1>6. CASE LinkChanges
  <2>1. IsSession(session') /\ session'.haves = session.haves /\ exchange' = exchange
    BY <1>3, <1>6 DEF LinkChanges, IsSession
  <2> QED
    BY <1>1, <1>3, <2>1, FieldSafe
<1>7. CASE PollSession
  <2>1. CASE \/ session' = [session EXCEPT !.state = "LINK", !.link = "PENDING"]
                /\ UNCHANGED exchange
             \/ session' = [session EXCEPT !.state = "UPLOAD"] /\ UNCHANGED exchange
    <3>1. IsSession(session') /\ session'.haves = session.haves /\ exchange' = exchange
      BY <1>3, <2>1, Zenon DEF IsSession
    <3> QED
      BY <1>1, <1>3, <3>1, FieldSafe
  <2>2. CASE \E outcome \in {"COMPLETE", "FAILED"} : EndSession(outcome)
    BY <1>4, <2>2
  <2>3. CASE Ask(session, "LIST")
    BY <1>1, <1>3, <2>3, AskSafe DEF Asking
  <2>4. CASE Advance([session EXCEPT !.ready = FALSE])
    <3>1. PICK s : s = [session EXCEPT !.ready = FALSE]
      BY Zenon
    <3>2. IsSession(s) /\ s.haves \subseteq ever /\ Advance(s)
      BY <1>3, <2>4, <3>1, Zenon DEF IsSession
    <3>3. CASE Ask(s, "ACK")
      BY <1>1, <1>3, <3>2, <3>3, AskSafe DEF Asking
    <3>4. CASE EndSession("COMPLETE")
      BY <1>4, <3>4
    <3>5. PICK t : t = [s EXCEPT !.offset = IF s.state = "LIST" THEN 0 ELSE @ + s.batch]
      BY Zenon
    <3>6. CASE Ask(NextBatch(t), "DOWNLOAD")
      <4>1. IsSession(t) /\ t.haves = s.haves
        BY <3>2, <3>5 DEF IsSession
      <4>2. PICK u : u = NextBatch(t)
        OBVIOUS
      <4>3. IsSession(u) /\ u.haves = t.haves
        BY <4>1, <4>2 DEF IsSession, NextBatch
      <4> QED
        BY <1>1, <1>3, <3>2, <3>6, <4>1, <4>2, <4>3, AskSafe DEF Asking
    <3> QED
      BY <3>2, <3>3, <3>4, <3>5, <3>6 DEF Advance
  <2> QED
    BY <1>7, <2>1, <2>2, <2>3, <2>4 DEF PollSession
<1> QED
  BY <1>4, <1>5, <1>6, <1>7 DEF CancelSession, Expire

\* The node deletes what it was told to, and nothing else.
LEMMA NodeSafe ==
  ASSUME Safe, NodeServes PROVE Safe'
<1>1. UNCHANGED <<mail, storeVars>> /\ acquainted' = acquainted /\ ever' = ever
      /\ session' = session
  BY Zenon DEF NodeServes, policyVars, storeVars
<1>2. StoreSafe'
  BY <1>1, StoreUndisturbed DEF Safe
<1>3. FetchSafe'
  <2>1. forgotten' = {}
    BY Zenon DEF NodeServes, Safe, FetchSafe
  <2>2. IsPacket(exchange') /\ exchange'.kind # "ACK" /\ node' \subseteq Incoming
    <3>1. /\ node \subseteq Incoming
          /\ exchange = [kind |-> exchange.kind, live |-> exchange.live, items |-> exchange.items]
      BY DEF Safe, FetchSafe, IsPacket
    <3>2. CASE exchange' = [exchange EXCEPT !.kind = "LISTED", !.items = node] /\ node' = node
      BY <3>1, <3>2, Zenon DEF IsPacket
    <3>3. ASSUME NEW S \in SUBSET (exchange.items \cap node), node' = node,
                 exchange' = [exchange EXCEPT !.kind = "ITEMS", !.items = S]
          PROVE  IsPacket(exchange') /\ exchange'.kind # "ACK" /\ node' \subseteq Incoming
      BY <3>1, <3>3, Zenon DEF IsPacket
    <3>4. CASE /\ exchange' = IF exchange.live THEN [exchange EXCEPT !.kind = "DONE", !.items = {}]
                           ELSE Silence
               /\ node' = node \ exchange.items
      BY <3>1, <3>4, Zenon DEF IsPacket, Silence
    <3> QED
      BY <3>2, <3>3, <3>4, Zenon DEF NodeServes
  <2> QED
    BY <1>1, <2>1, <2>2 DEF Safe, FetchSafe
<1> QED
  BY <1>2, <1>3 DEF Safe

\* An answer: what the session will acknowledge is what it stored.
LEMMA AnsweredSafe ==
  ASSUME Safe, Answered PROVE Safe'
<1>1. /\ mail' = mail /\ acquainted' = acquainted /\ forgotten' = forgotten
      /\ node' = node /\ exchange' = Silence
  BY Zenon DEF Answered, policyVars
<1>2. IsPacket(exchange') /\ exchange'.kind # "ACK" /\ forgotten' = {} /\ node' \subseteq Incoming
  BY <1>1 DEF IsPacket, Silence, Safe, FetchSafe
<1>3. CASE \/ session' = [session EXCEPT !.ready = TRUE, !.ids = SetToSeq(exchange.items)]
              /\ UNCHANGED storeVars
           \/ session' = [session EXCEPT !.ready = TRUE] /\ UNCHANGED storeVars
           \/ session' = [NoSession EXCEPT !.state = "FAILED"] /\ UNCHANGED storeVars
  <2>1. StoreSafe' /\ ever' = ever
    BY <1>1, <1>3, StoreUndisturbed DEF Safe
  <2>2. IsSession(session') /\ session'.haves \subseteq ever
    BY <1>3, Zenon DEF Safe, FetchSafe, IsSession, NoSession
  <2> QED
    BY <1>2, <2>1, <2>2 DEF Safe, FetchSafe
<1>4. ASSUME NEW stored \in SUBSET {m \in exchange.items : Admitted(m, FALSE)},
             exchange.items \subseteq Incoming,
             Receive({m \in exchange.items : Admitted(m, FALSE)}, stored),
             session' = [session EXCEPT !.ready = TRUE, !.haves = Haves(exchange.items, stored)]
      PROVE  Safe'
  <2>1. StoreSafe' /\ ever \subseteq ever' /\ stored \subseteq ever'
    BY <1>1, <1>4, ReceiveSafe, Zenon DEF Safe
  <2>2. IsSession(session') /\ session'.haves = stored
    BY <1>4, Zenon DEF Safe, FetchSafe, IsSession, Haves
  <2> QED
    BY <1>2, <2>1, <2>2 DEF Safe, FetchSafe
<1>5. exchange.kind = "ITEMS" => exchange.items \subseteq Incoming
  BY DEF Safe, FetchSafe, IsPacket
<1> QED
  BY <1>3, <1>4, <1>5, Zenon DEF Answered

\* A crash, at rest or while messages are being stored.
LEMMA CrashSafe ==
  ASSUME Safe, CrashInbox PROVE Safe'
<1>1. /\ mail' = mail /\ acquainted' = acquainted /\ node' = node /\ forgotten' = {}
      /\ session' = NoSession /\ exchange' = Abandoned
  BY DEF CrashInbox, policyVars, Safe, FetchSafe
<1>2. PICK A \in Underway :
        \E S \in SUBSET New({m \in A : Admitted(m, FALSE)}) : \E R \in SUBSET S :
          LearnTickets(S) /\ Deposit(S, R)
  BY Zenon DEF CrashInbox
<1>3. PICK S \in SUBSET New({m \in A : Admitted(m, FALSE)}) :
        \E R \in SUBSET S : LearnTickets(S) /\ Deposit(S, R)
  BY Zenon, <1>2
<1>4. A \subseteq Incoming
  BY DEF Underway, Safe, FetchSafe, IsPacket
<1>5. /\ S \in SUBSET Incoming /\ S \in SUBSET New(S)
      /\ \A m \in S : Admitted(m, FALSE)
  BY <1>4, Zenon DEF New
<1>6. StoreSafe' /\ ever' = ever \cup S
  <2>1. PICK R \in SUBSET S : LearnTickets(S) /\ Deposit(S, R)
    BY <1>3
  <2> QED
    BY <1>1, <1>5, <2>1, DepositSafe, Zenon DEF Safe
<1>7. PICK s : s = NoSession
  OBVIOUS
<1>8. IsSession(s) /\ s.haves = {}
  BY <1>7 DEF IsSession, NoSession
<1>9. FetchSafe'
  BY <1>1, <1>6, <1>7, <1>8, FreshSafe DEF Safe
<1> QED
  BY <1>6, <1>9 DEF Safe

-----------------------------------------------------------------------------
(* The window of the session on the messages the node listed: what was asked *)
(* for lies within the list, and the list names messages of the node.        *)

States == Resting \cup Asking \cup {"PATH", "LINK", "UPLOAD"}

WindowOK(s) ==
  /\ s.state \in States /\ s.haves \subseteq Incoming
  /\ s.offset \in Nat /\ s.batch \in 0 .. Batch
  /\ Len(s.ids) \in Nat /\ Len(s.ids) <= Cardinality(Incoming)
  /\ s.offset + s.batch <= Len(s.ids)
  /\ s.state \notin {"DOWNLOAD", "ACK"} => s.offset = 0 /\ s.batch = 0

Typed ==
  /\ WindowOK(session)
  /\ acquainted \subseteq Senders /\ blocked \subseteq Senders

\* A list is as long as the set it lists, so no longer than the mailbox.
LEMMA ListLength ==
  ASSUME NEW S \in SUBSET Incoming
  PROVE  Len(SetToSeq(S)) \in Nat /\ Len(SetToSeq(S)) <= Cardinality(Incoming)
<1>1. IsFiniteSet(S) /\ Cardinality(S) <= Cardinality(Incoming) /\ Cardinality(S) \in Nat
  BY InboxConfig, FS_Subset, FS_CardinalityType
<1>2. \E f \in [1 .. Cardinality(S) -> S] : IsInjective(f)
  BY <1>1, FS_CardinalityType DEF ExistsBijection, Bijection, Injection
<1>3. SetToSeq(S) \in [1 .. Cardinality(S) -> S]
  BY <1>2 DEF SetToSeq
<1>4. Len(SetToSeq(S)) = Cardinality(S)
  BY <1>1, <1>3
<1> QED
  BY <1>1, <1>4

\* A session that has not asked for anything.
LEMMA FreshWindow ==
  ASSUME NEW s, s.state \in States \ {"DOWNLOAD", "ACK"}, s.haves = {}, s.ids = <<>>,
         s.offset = 0, s.batch = 0
  PROVE  WindowOK(s)
<1>1. Cardinality(Incoming) \in Nat /\ Len(s.ids) = 0
  BY InboxConfig, FS_CardinalityType
<1> QED
  BY <1>1, InboxConfig DEF WindowOK

LEMMA EndedWindow ==
  ASSUME NEW outcome \in Resting, session' = [NoSession EXCEPT !.state = outcome]
  PROVE  WindowOK(session')
<1>1. PICK s : s = [NoSession EXCEPT !.state = outcome]
  OBVIOUS
<1>2. /\ s.state \in States \ {"DOWNLOAD", "ACK"} /\ s.haves = {} /\ s.ids = <<>>
      /\ s.offset = 0 /\ s.batch = 0
  BY <1>1 DEF NoSession, States, Resting
<1> QED
  BY Zenon, <1>1, <1>2, FreshWindow

\* A step that leaves the window where it is.
LEMMA SameWindow ==
  ASSUME NEW s, NEW t, WindowOK(s), t.state \in States, t.haves = s.haves, t.ids = s.ids,
         t.offset = s.offset, t.batch = s.batch,
         s.state \in {"DOWNLOAD", "ACK"} => t.state \in {"DOWNLOAD", "ACK"}
  PROVE  WindowOK(t)
BY DEF WindowOK

\* lxmf_pn_session_poll moves the window on, by what was asked for last.
LEMMA AdvanceWindow ==
  ASSUME NEW s, IsSession(s), WindowOK(s), Advance(s)
  PROVE  WindowOK(session')
<1>1. CASE Ask(s, "ACK") /\ s.state = "DOWNLOAD"
  <2>1. PICK t : t = [s EXCEPT !.state = "ACK"]
    BY Zenon
  <2>2. /\ t.state = "ACK" /\ t.haves = s.haves /\ t.ids = s.ids /\ t.offset = s.offset
        /\ t.batch = s.batch
    BY <2>1 DEF IsSession
  <2>3. WindowOK(t)
    BY <2>2, SameWindow DEF States, Asking
  <2> QED
    BY <1>1, <2>1, <2>3 DEF Ask
<1>2. CASE EndSession("COMPLETE")
  BY <1>2, EndedWindow DEF EndSession, Resting
<1>3. PICK t : t = [s EXCEPT !.offset = IF s.state = "LIST" THEN 0 ELSE @ + s.batch]
  BY Zenon
<1>4. CASE ~(Left(t) <= 0) /\ Ask(NextBatch(t), "DOWNLOAD")
  <2>1. /\ t.offset \in Nat /\ t.ids = s.ids /\ t.haves = s.haves
        /\ IsSession(t)
    BY <1>3 DEF WindowOK, IsSession
  <2>2. PICK b : b = IF Left(t) < Batch THEN Left(t) ELSE Batch
    OBVIOUS
  <2>3. Left(t) = Len(s.ids) - t.offset /\ Len(s.ids) \in Nat
    BY <2>1 DEF Left, WindowOK
  <2>4. b \in 0 .. Batch /\ t.offset + b <= Len(s.ids)
    BY <1>4, <2>1, <2>2, <2>3, InboxConfig
  <2>5. PICK u : u = [t EXCEPT !.batch = b]
    BY Zenon
  <2>6. u = NextBatch(t) /\ u.offset = t.offset /\ u.batch = b /\ u.ids = s.ids
        /\ u.haves = s.haves /\ IsSession(u)
    BY <2>1, <2>2, <2>5 DEF NextBatch, IsSession
  <2>7. PICK w : w = [u EXCEPT !.state = "DOWNLOAD"]
    BY Zenon
  <2>8. /\ w.offset = t.offset /\ w.batch = b /\ w.ids = s.ids /\ w.haves = s.haves
        /\ w.state = "DOWNLOAD" /\ session' = w
    BY <1>4, <2>6, <2>7 DEF Ask, IsSession
  <2>9. WindowOK(w)
    BY <2>1, <2>4, <2>8 DEF WindowOK, States, Asking
  <2> QED
    BY <2>8, <2>9
<1> QED
  BY <1>1, <1>2, <1>3, <1>4 DEF Advance

\* Starting, cancelling, polling and failing a session, and its link.
LEMMA SessionWindow ==
  ASSUME Safe, Typed, \/ \E uploading \in BOOLEAN : BeginSession(uploading)
                      \/ CancelSession \/ PollSession \/ Expire \/ LinkChanges
  PROVE  WindowOK(session')
<1>1. IsSession(session) /\ WindowOK(session)
  BY DEF Safe, FetchSafe, Typed
<1>2. ASSUME NEW uploading \in BOOLEAN, BeginSession(uploading) PROVE WindowOK(session')
  <2>1. PICK s : s = [NoSession EXCEPT !.state = "PATH", !.uploading = uploading]
    OBVIOUS
  <2>2. /\ s.state = "PATH" /\ s.haves = {} /\ s.ids = <<>> /\ s.offset = 0 /\ s.batch = 0
        /\ session' = s
    BY <1>2, <2>1, Zenon DEF BeginSession, NoSession
  <2> QED
    BY <2>2, FreshWindow DEF States
<1>3. ASSUME NEW outcome \in Resting, EndSession(outcome) PROVE WindowOK(session')
  BY <1>3, EndedWindow DEF EndSession
<1>4. CASE LinkChanges
  <2>1. /\ session'.state = session.state /\ session'.haves = session.haves
        /\ session'.ids = session.ids /\ session'.offset = session.offset
        /\ session'.batch = session.batch
    BY <1>1, <1>4 DEF LinkChanges, IsSession
  <2>2. session.state \in States
    BY <1>1 DEF WindowOK
  <2> QED
    BY <1>1, <2>1, <2>2, SameWindow
<1>5. CASE PollSession
  <2>1. ASSUME NEW s, NEW state \in {"LINK", "LIST", "UPLOAD"}, session.state \in {"PATH", "LINK"},
               session' = s, s = [session EXCEPT !.state = state]
                             \/ s = [session EXCEPT !.state = state, !.link = "PENDING"]
        PROVE  WindowOK(session')
    <3>1. /\ s.state = state /\ s.haves = session.haves /\ s.ids = session.ids
          /\ s.offset = session.offset /\ s.batch = session.batch
      BY <1>1, <2>1, Zenon DEF IsSession
    <3>2. state \in States /\ session.state \notin {"DOWNLOAD", "ACK"}
      BY <2>1 DEF States, Asking
    <3> QED
      BY <1>1, <2>1, <3>1, <3>2, SameWindow
  <2>2. CASE session.state = "PATH" /\ session' = [session EXCEPT !.state = "LINK", !.link = "PENDING"]
    BY <2>1, <2>2
  <2>3. CASE session.state = "LINK" /\ Ask(session, "LIST")
    BY <2>1, <2>3 DEF Ask
  <2>4. CASE session.state = "LINK" /\ session' = [session EXCEPT !.state = "UPLOAD"]
    BY <2>1, <2>4
  <2>5. CASE \E outcome \in {"COMPLETE", "FAILED"} : EndSession(outcome)
    BY <1>3, <2>5 DEF Resting
  <2>6. CASE Advance([session EXCEPT !.ready = FALSE])
    <3>1. PICK s : s = [session EXCEPT !.ready = FALSE]
      BY Zenon
    <3>2. /\ IsSession(s) /\ s.state = session.state /\ s.haves = session.haves
          /\ s.ids = session.ids /\ s.offset = session.offset /\ s.batch = session.batch
      BY <1>1, <3>1, Zenon DEF IsSession
    <3>3. WindowOK(s)
      BY <1>1, <3>2 DEF WindowOK
    <3> QED
      BY <2>6, <3>1, <3>2, <3>3, AdvanceWindow
  <2> QED
    BY <1>5, <2>2, <2>3, <2>4, <2>5, <2>6 DEF PollSession
<1> QED
  BY <1>2, <1>3, <1>4, <1>5 DEF CancelSession, Expire, Resting

\* An answer: the list of the node, or what was stored of the messages asked for.
LEMMA AnsweredWindow ==
  ASSUME Safe, Typed, Answered PROVE WindowOK(session')
<1>1. IsSession(session) /\ WindowOK(session) /\ IsPacket(exchange)
  BY DEF Safe, FetchSafe, Typed
<1>2. CASE /\ session.state = "LIST" /\ exchange.kind = "LISTED"
           /\ session' = [session EXCEPT !.ready = TRUE, !.ids = SetToSeq(exchange.items)]
  <2>1. PICK ids : ids = SetToSeq(exchange.items)
    OBVIOUS
  <2>2. Len(ids) \in Nat /\ Len(ids) <= Cardinality(Incoming)
    BY <1>1, <1>2, <2>1, ListLength DEF IsPacket
  <2>3. PICK s : s = [session EXCEPT !.ready = TRUE, !.ids = ids]
    OBVIOUS
  <2>4. /\ s.state = session.state /\ s.haves = session.haves /\ s.ids = ids
        /\ s.offset = session.offset /\ s.batch = session.batch /\ session' = s
    BY <1>1, <1>2, <2>1, <2>3 DEF IsSession
  <2>5. WindowOK(s)
    BY <1>1, <1>2, <2>2, <2>4 DEF WindowOK
  <2> QED
    BY <2>4, <2>5
<1>3. ASSUME NEW stored \in SUBSET {m \in exchange.items : Admitted(m, FALSE)},
             exchange.kind = "ITEMS",
             session' = [session EXCEPT !.ready = TRUE, !.haves = Haves(exchange.items, stored)]
      PROVE  WindowOK(session')
  <2>1. stored \subseteq Incoming
    BY <1>1, <1>3, Zenon DEF IsPacket
  <2>2. PICK s : s = [session EXCEPT !.ready = TRUE, !.haves = stored]
    OBVIOUS
  <2>3. /\ s.state = session.state /\ s.haves = stored /\ s.ids = session.ids
        /\ s.offset = session.offset /\ s.batch = session.batch /\ session' = s
    BY <1>1, <1>3, <2>2 DEF IsSession, Haves
  <2>4. WindowOK(s)
    BY <1>1, <2>1, <2>3 DEF WindowOK
  <2> QED
    BY <2>3, <2>4
<1>4. CASE session' = [session EXCEPT !.ready = TRUE]
  <2>1. /\ session'.state = session.state /\ session'.haves = session.haves
        /\ session'.ids = session.ids /\ session'.offset = session.offset
        /\ session'.batch = session.batch
    BY <1>1, <1>4 DEF IsSession
  <2> QED
    BY <1>1, <2>1 DEF WindowOK
<1>5. CASE session' = [NoSession EXCEPT !.state = "FAILED"]
  BY <1>5, EndedWindow DEF Resting
<1> QED
  BY <1>2, <1>3, <1>4, <1>5, Zenon DEF Answered

\* Every step, of the session or not.
LEMMA TypedStep ==
  ASSUME Safe, Typed, [InboxNext]_inboxVars PROVE Typed'
<1>1. WindowOK(session')
  <2>1. CASE session' = session
    BY <2>1 DEF Typed
  <2>2. CASE session' = NoSession
    <3>1. PICK s : s = NoSession
      OBVIOUS
    <3>2. s.state = "IDLE" /\ s.haves = {} /\ s.ids = <<>> /\ s.offset = 0 /\ s.batch = 0
      BY <3>1 DEF NoSession
    <3> QED
      BY <2>2, <3>1, <3>2, FreshWindow DEF States, Resting
  <2>3. CASE \/ \E uploading \in BOOLEAN : BeginSession(uploading)
             \/ CancelSession \/ PollSession \/ Expire \/ LinkChanges
    BY <2>3, SessionWindow
  <2>4. CASE Answered
    BY <2>4, AnsweredWindow
  <2>5. ASSUME NEW m \in Incoming, \/ ArriveInPacket(m) \/ ArriveInResource(m)
                                   \/ ArriveOnLink(m) \/ Scan(m) \/ Discard(m)
        PROVE  session' = session
    BY <2>5, Zenon DEF ArriveInPacket, ArriveInResource, ArriveOnLink, Scan, Discard, fetchVars
  <2>6. CASE \/ \E s \in Senders : LearnIdentity(s)
             \/ Verify \/ ChangePolicy \/ NodeServes \/ UNCHANGED inboxVars
    <3>1. session' = session
      BY <2>6, Zenon DEF LearnIdentity, Verify, ChangePolicy, NodeServes, inboxVars, fetchVars
    <3> QED
      BY <2>1, <3>1
  <2>7. CASE CrashInbox
    BY <2>2, <2>7 DEF CrashInbox
  <2> QED
    BY <2>1, <2>3, <2>4, <2>5, <2>6, <2>7 DEF InboxNext
<1>2. acquainted' \subseteq Senders /\ blocked' \subseteq Senders
  <2>1. CASE UNCHANGED policyVars
    BY <2>1 DEF policyVars, Typed
  <2>2. ASSUME NEW s \in Senders, LearnIdentity(s)
        PROVE  acquainted' \subseteq Senders /\ blocked' \subseteq Senders
    <3>1. acquainted' = acquainted \cup {s} /\ blocked' = blocked
      BY <2>2 DEF LearnIdentity
    <3> QED
      BY <3>1 DEF Typed
  <2>3. CASE ChangePolicy
    <3>1. /\ acquainted' = acquainted
          /\ \/ \E s \in Senders : blocked' = (blocked \cup {s}) \ (blocked \cap {s})
             \/ blocked' = blocked
      BY <2>3 DEF ChangePolicy
    <3> QED
      BY <3>1 DEF Typed
  <2>4. ASSUME NEW m \in Incoming, \/ ArriveInPacket(m) \/ ArriveInResource(m)
                                   \/ ArriveOnLink(m) \/ Scan(m) \/ Discard(m)
        PROVE  UNCHANGED policyVars
    BY <2>4, Zenon DEF ArriveInPacket, ArriveInResource, ArriveOnLink, Scan, Discard
  <2>5. CASE \/ Verify \/ CrashInbox \/ NodeServes \/ Answered \/ UNCHANGED inboxVars
             \/ \E uploading \in BOOLEAN : BeginSession(uploading)
             \/ CancelSession \/ PollSession \/ Expire \/ LinkChanges
    <3>1. UNCHANGED policyVars
      BY <2>5, Zenon DEF Verify, CrashInbox, NodeServes, Answered, inboxVars, BeginSession,
         CancelSession, PollSession, Expire, LinkChanges, Quiet
    <3> QED
      BY <2>1, <3>1
  <2> QED
    BY <2>1, <2>2, <2>3, <2>4, <2>5 DEF InboxNext
<1>3. Senders' = Senders
  BY DEF Senders
<1> QED
  BY <1>1, <1>2 DEF Typed

\* On whichever ways messages come in, and whatever fails, is cancelled or
\* crashes: a message whose sender got a proof or whose copy the propagation
\* node deleted was put in the store, the application hears of it once for each
\* time it was put there, and only what was checked counts as verified
\* (receive_representation, lxmf_router_verify_pending, and response and
\* lxmf_pn_session_poll of the session).  A session never asks beyond the list
\* the node gave it (offset and batch of send_get).
THEOREM IntakeIsSafe == InboxSpec => []InboxSound
<1>1. InboxInit => Safe /\ Typed
  <2> SUFFICES ASSUME InboxInit PROVE Safe /\ Typed
    OBVIOUS
  <2>1. Safe
    BY SafeInitially
  <2>2. PICK s : s = NoSession
    OBVIOUS
  <2>3. s.state = "IDLE" /\ s.haves = {} /\ s.ids = <<>> /\ s.offset = 0 /\ s.batch = 0
    BY <2>2 DEF NoSession
  <2>4. WindowOK(s)
    BY <2>3, FreshWindow DEF States, Resting
  <2> QED
    BY <2>1, <2>2, <2>4 DEF InboxInit, Typed
<1>2. Safe /\ Typed /\ [InboxNext]_inboxVars => Safe' /\ Typed'
  <2> SUFFICES ASSUME Safe, Typed, [InboxNext]_inboxVars PROVE Safe'
    BY TypedStep
  <2>1. ASSUME NEW m \in Incoming,
               ArriveInPacket(m) \/ ArriveInResource(m) \/ ArriveOnLink(m) \/ Scan(m)
        PROVE  Safe'
    BY <2>1, ArrivalSafe
  <2>2. CASE \/ \E s \in Senders : LearnIdentity(s)
             \/ ChangePolicy
             \/ \E m \in Incoming : Discard(m)
    BY <2>2, ApplicationSafe
  <2>3. CASE Verify
    BY <2>3, VerifySafe
  <2>4. CASE CrashInbox
    BY <2>4, CrashSafe
  <2>5. CASE \/ \E uploading \in BOOLEAN : BeginSession(uploading)
             \/ CancelSession \/ PollSession \/ Expire \/ LinkChanges
    BY <2>5, SessionSafe
  <2>6. CASE NodeServes
    BY <2>6, NodeSafe
  <2>7. CASE Answered
    BY <2>7, AnsweredSafe
  <2>8. CASE UNCHANGED inboxVars
    <3>1. /\ UNCHANGED <<mail, storeVars>> /\ UNCHANGED fetchVars /\ acquainted' = acquainted
          /\ ever' = ever /\ forgotten' = forgotten
      BY <2>8 DEF inboxVars, policyVars, storeVars
    <3>2. StoreSafe'
      BY <3>1, StoreUndisturbed DEF Safe
    <3>3. FetchSafe'
      BY <3>1, FetchUndisturbed DEF Safe, FetchSafe
    <3> QED
      BY <3>2, <3>3 DEF Safe
  <2> QED
    BY <2>1, <2>2, <2>3, <2>4, <2>5, <2>6, <2>7, <2>8 DEF InboxNext
<1>3. Safe /\ Typed => InboxSound
  <2> SUFFICES ASSUME Safe, Typed PROVE InboxSound
    OBVIOUS
  <2>1. TakenIsStored /\ ReportedOnce /\ TrustEarned
    BY DEF Safe, StoreSafe, FetchSafe, TakenIsStored, ReportedOnce
  <2>2. tickets \subseteq Senders
    BY <2>1 DEF TrustEarned, Senders
  <2>3. session.offset \in 0 .. Cardinality(Incoming) /\ session.batch \in 0 .. Batch
    <3>1. Cardinality(Incoming) \in Nat
      BY InboxConfig, FS_CardinalityType
    <3> QED
      BY <3>1, InboxConfig DEF Typed, WindowOK
  <2> QED
    BY <2>1, <2>2, <2>3 DEF Safe, StoreSafe, FetchSafe, Typed, WindowOK, States,
       InboxTypeOK, InboxSound
<1> QED
  BY <1>1, <1>2, <1>3, PTL DEF InboxSpec

=============================================================================
