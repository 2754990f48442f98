------------------------------ MODULE Resource ------------------------------
(***************************************************************************)
(* Resource transfers over one active link: the sending runtime            *)
(* (outgoing_resource and link/resource.c's sender), the receiving runtime *)
(* (link->resource, link->resource_assembled and link/resource.c's         *)
(* receiver) and the packets between them, which may be lost, delayed and  *)
(* reordered.  A resource is split into segments and a segment into parts; *)
(* the receiver learns the part hashes one page at a time and requests at  *)
(* most a window of parts.                                                 *)
(*                                                                         *)
(* A segment is named by its hash, here the pair <<transfer, segment>>.    *)
(* Part i is the i-th part of a segment, from 1; its map hash names it     *)
(* unambiguously (sender_prepare_segment regenerates until it does).       *)
(***************************************************************************)
EXTENDS Integers, FiniteSets, Sequences

CONSTANTS
  Transfers,      \* transfers the sending application starts on this link
  Responses,      \* those of them that answer a request of the receiver
  Segments,       \* segments of a resource
  Parts,          \* parts of a segment
  Page,           \* RNS_RESOURCE_HASHMAP_MAX_ENTRIES (74)
  Window,         \* RNS_RESOURCE_WINDOW (4)
  MaxRetries,     \* RNS_RESOURCE_MAX_RETRIES (16)
  MaxLosses,      \* bound: packets lost in a row, for liveness
  MaxFaults,      \* bound: sends that fail locally
  NULL

VARIABLES
  outgoing,      \* link->outgoing_resource: the segment on offer, or NULL
  outcome,       \* state of each transfer, as reported to its owner
  part_sent,     \* parts of the segment on offer that were sent
  sent_parts,    \* parts sent, over all segments
  resource,      \* link->resource: the segment being received, or NULL
  incoming,      \* link->resource_assembled and the fields that go with it
  receipt,       \* request receipts at the receiver
  delivered,     \* transfers handed to the receiving application
  net,           \* packets in flight
  losses, faults

senderVars == <<outgoing, outcome, part_sent, sent_parts>>
receiverVars == <<resource, incoming, receipt, delivered>>
vars == <<senderVars, receiverVars, net, losses, faults>>

Hashes == Transfers \X (1 .. Segments)
PartIds == 1 .. Parts

Resources == [hash : Hashes, known : PartIds, have : SUBSET PartIds,
              requested : SUBSET PartIds, retries_used : 0 .. MaxRetries,
              waiting : BOOLEAN]
Assemblies == [transfer : Transfers, next : 1 .. Segments, length : 0 .. Segments]

Signal(type, hash) == [type |-> type, hash |-> hash]
PartPacket(hash, i) == [type |-> "RESOURCE", hash |-> hash, part |-> i]
UpdatePacket(hash, page) == [type |-> "HMU", hash |-> hash, page |-> page]
RequestPacket(hash, parts, anchor) ==
  [type |-> "REQ", hash |-> hash, parts |-> parts, anchor |-> anchor]

Terminal == {"COMPLETE", "FAILED", "REJECTED", "CANCELLED", "DESTROYED"}

Init ==
  /\ outgoing = NULL /\ outcome = [t \in Transfers |-> "IDLE"]
  /\ part_sent = {} /\ sent_parts = 0
  /\ resource = NULL /\ incoming = NULL
  /\ receipt = [t \in Responses |-> "PENDING"] /\ delivered = <<>>
  /\ net = {} /\ losses = 0 /\ faults = 0

----------------------------------------------------------------------------
(***************************************************************************)
(* The network.  An advertisement, a proof and a cancellation are sent     *)
(* once, and the node's packet cache drops network duplicates.  A retry    *)
(* repeats requests, and so parts and hashmap updates: of these another    *)
(* copy may always follow.  A packet that is lost never arrives.           *)
(***************************************************************************)
Repeatable == {"REQ", "RESOURCE", "HMU"}

Exchange(m, sent, again) == net' = (IF again THEN net ELSE net \ {m}) \cup sent

Sends(sent) == net' = net \cup sent

(* A local send fails: the interface refuses the packet. *)
Fault == faults < MaxFaults /\ faults' = faults + 1

----------------------------------------------------------------------------
(* The sending side. *)

(* outgoing_resource_finish: detached from the link, then reported. *)
Finish(state) ==
  /\ outgoing' = NULL
  /\ outcome' = [outcome EXCEPT ![outgoing[1]] = state]

(* rns_runtime_link_send_resource: one outgoing resource per link. *)
Advertise(t) ==
  /\ outgoing = NULL /\ outcome[t] = "IDLE"
  /\ outgoing' = <<t, 1>>
  /\ outcome' = [outcome EXCEPT ![t] = "ADVERTISED"]
  /\ part_sent' = {} /\ sent_parts' = 0
  /\ Sends({Signal("ADV", <<t, 1>>)})
  /\ UNCHANGED <<receiverVars, faults>>

(* rns_resource_sender_hashmap_update: the page after the anchor, if the
   anchor ends a page and is not the last hash. *)
Update(m) ==
  IF m.anchor # 0 /\ m.anchor % Page = 0 /\ m.anchor < Parts
  THEN {UpdatePacket(m.hash, m.anchor \div Page)} ELSE {}

BadAnchor(m) == m.anchor # 0 /\ m.anchor % Page # 0

(* The parts of a request are sent in order; those before upto are sent. *)
PartsBefore(m, upto) == {i \in m.parts : i < upto}

CountSent(parts) ==
  /\ part_sent' = part_sent \cup parts
  /\ sent_parts' = sent_parts + Cardinality(parts \ part_sent)

(***************************************************************************)
(* outgoing_resource_request, for a request that names the segment on      *)
(* offer.  A send that fails, or a malformed anchor, fails the transfer.   *)
(***************************************************************************)
ServeRequest(m, again) ==
  /\ m \in net /\ m.type = "REQ" /\ outgoing = m.hash
  /\ \/ /\ ~BadAnchor(m)
        /\ Exchange(m, {PartPacket(m.hash, i) : i \in m.parts} \cup Update(m), again)
        /\ CountSent(m.parts)
        /\ outcome' = IF m.parts # {} THEN [outcome EXCEPT ![m.hash[1]] = "TRANSFERRING"]
                      ELSE outcome
        /\ UNCHANGED <<outgoing, faults>>
     \/ /\ BadAnchor(m)
        /\ Exchange(m, {PartPacket(m.hash, i) : i \in m.parts}, again)
        /\ CountSent(m.parts) /\ Finish("FAILED")
        /\ UNCHANGED faults
     \/ \E upto \in m.parts \cup {Parts + 1} :
          /\ Fault /\ (upto = Parts + 1 => Update(m) # {})
          /\ Exchange(m, {PartPacket(m.hash, i) : i \in PartsBefore(m, upto)}, again)
          /\ CountSent(PartsBefore(m, upto)) /\ Finish("FAILED")
  /\ UNCHANGED <<receiverVars>>

(* The proof names the segment on offer. *)
Proves_Any(m) == outgoing # NULL
Proves(m) == outgoing = m.hash

(* outgoing_resource_proof: advance to the next segment, or complete. *)
AcceptProof(m) ==
  /\ m \in net /\ m.type = "PRF" /\ Proves(m)
  /\ \/ /\ outgoing[2] < Segments
        /\ LET next == <<outgoing[1], outgoing[2] + 1>> IN
           /\ outgoing' = next
           /\ Exchange(m, {Signal("ADV", next)}, FALSE)
        /\ outcome' = [outcome EXCEPT ![outgoing[1]] = "ADVERTISED"]
        /\ part_sent' = {} /\ UNCHANGED <<sent_parts, faults>>
     \/ /\ outgoing[2] < Segments /\ Fault
        /\ Exchange(m, {}, FALSE)
        /\ Finish("FAILED") /\ part_sent' = {} /\ UNCHANGED sent_parts
     \/ /\ outgoing[2] = Segments
        /\ Exchange(m, {}, FALSE)
        /\ Finish("COMPLETE") /\ UNCHANGED <<part_sent, sent_parts, faults>>
  /\ UNCHANGED <<receiverVars>>

(* A RESOURCE_RCL that names the segment on offer. *)
AcceptRejection(m) ==
  /\ m \in net /\ m.type = "RCL" /\ outgoing = m.hash
  /\ Exchange(m, {}, FALSE) /\ Finish("REJECTED")
  /\ UNCHANGED <<part_sent, sent_parts, receiverVars, faults>>

(* rns_runtime_resource_transfer_cancel; destroying the handle of a transfer
   that is still attached does the same, without a report. *)
Cancel(state) ==
  /\ outgoing # NULL
  /\ Sends({Signal("ICL", outgoing)}) /\ Finish(state)
  /\ UNCHANGED <<part_sent, sent_parts, receiverVars, faults>>

(* rns_runtime_poll: the transfer's deadline has passed. *)
SenderTimeout ==
  /\ outgoing # NULL /\ Finish("FAILED")
  /\ UNCHANGED <<part_sent, sent_parts, receiverVars, net, faults>>

----------------------------------------------------------------------------
(* The receiving side: one segment (link/resource.c). *)

(* rns_resource_outstanding_parts, and what build_request may ask for. *)
Outstanding(r) == r.requested \ r.have
Missing(r) == (1 .. r.known) \ (r.have \cup r.requested)
First(S, n) == {i \in S : Cardinality({j \in S : j < i}) < n}

Picked(r) == First(Missing(r), Window - Cardinality(Outstanding(r)))

(* With nothing missing or outstanding among the known hashes, the request is
   for the next page: it names the last known hash and repeats the last
   hashes of the window. *)
AsksForPage(r) == Picked(r) = {} /\ Outstanding(r) = {} /\ r.known < Parts

(* rns_resource_build_request: the packet, or none (INVALID_STATE). *)
Request(r) ==
  IF Picked(r) # {} THEN {RequestPacket(r.hash, Picked(r), 0)}
  ELSE IF AsksForPage(r)
       THEN {RequestPacket(r.hash, {i \in 1 .. r.known : i > r.known - Window}, r.known)}
       ELSE {}

Requested(r) == [r EXCEPT !.requested = @ \cup Picked(r),
                          !.waiting = IF Request(r) = {} THEN @ ELSE AsksForPage(r)]

(* rns_resource_receive_part stores a part it knows and does not have. *)
Stored_RetriesKept(r, i) == [r EXCEPT !.have = @ \cup {i}, !.requested = @ \ {i}]
Stored(r, i) ==
  [r EXCEPT !.have = @ \cup {i}, !.requested = @ \ {i}, !.retries_used = 0]

PartsComplete(r) == r.have = PartIds

(* rns_resource_apply_hashmap_update: a page already known changes nothing,
   the next page extends the map, anything else is a protocol error. *)
PageStart(m) == m.page * Page
Least(a, b) == IF a < b THEN a ELSE b
Applies(r, m) == m.hash = r.hash /\ PageStart(m) <= r.known
Applied(r, m) ==
  IF PageStart(m) < r.known THEN r
  ELSE [r EXCEPT !.known = Least(PageStart(m) + Page, Parts),
                 !.waiting = FALSE, !.retries_used = 0]

(* rns_resource_build_retry_request forgets what was outstanding. *)
Forgotten(r) == [r EXCEPT !.requested = r.have \cap @]

----------------------------------------------------------------------------
(* The receiving side: the link (runtime.c). *)

Receiving(h) == resource # NULL /\ resource.hash = h
AwaitsUpdate == resource # NULL /\ resource.waiting
Continuation == incoming # NULL /\ resource = NULL

(* Whether the transfer being received reports to a receipt, and to one that
   is still pending. *)
ReceiptPending(t) == t \in Responses => receipt[t] = "PENDING"

Release == resource' = NULL /\ incoming' = NULL

(* incoming_resource_abort: released first, then a pending receipt fails. *)
FailReceipt(t) ==
  receipt' = IF t \in Responses /\ receipt[t] = "PENDING"
             THEN [receipt EXCEPT ![t] = "FAILED"] ELSE receipt
Abort == Release /\ FailReceipt(incoming.transfer) /\ UNCHANGED delivered

(* resource_request_parts(false) from r as the answer to m; a request that
   cannot be sent aborts the transfer. *)
AskFor(r, m, again) ==
  \/ /\ resource' = Requested(r) /\ Exchange(m, Request(r), again)
     /\ UNCHANGED <<receipt, delivered, faults>>
  \/ /\ Request(r) # {} /\ Fault
     /\ Exchange(m, {}, again)
     /\ resource' = NULL /\ FailReceipt(r.hash[1]) /\ UNCHANGED delivered

KeepOrDrop(assembly) == incoming' = IF resource' = NULL THEN NULL ELSE assembly

(* The advertisements resource_advertised turns down. *)
Mismatch(h) == Continuation /\ (h[2] # incoming.next \/ h[1] # incoming.transfer)
Refused(h) ==
  \/ ~Continuation /\ h[2] # 1
  \/ ~Continuation /\ h[1] \in Responses /\ receipt[h[1]] # "PENDING"
  \/ resource # NULL /\ resource.hash # h

(* An advertisement answered with RESOURCE_RCL.  Between two segments a wrong
   one also ends the transfer in progress. *)
RejectAdvertisement(m) ==
  /\ m \in net /\ m.type = "ADV"
  /\ Exchange(m, {Signal("RCL", m.hash)}, FALSE)
  /\ \/ Refused(m.hash) /\ UNCHANGED receiverVars
     \/ Mismatch(m.hash) /\ Abort
     \/ /\ ~Refused(m.hash) /\ ~Continuation /\ resource = NULL
        /\ FailReceipt(m.hash[1])           \* declined by policy, or too large
        /\ UNCHANGED <<resource, incoming, delivered>>
  /\ UNCHANGED <<senderVars, faults>>

(* resource_advertised: the segment is accepted and its first parts asked for. *)
AcceptAdvertisement(m) ==
  /\ m \in net /\ m.type = "ADV"
  /\ ~Refused(m.hash) /\ ~Mismatch(m.hash) /\ resource = NULL
  /\ AskFor([hash |-> m.hash, known |-> Least(Page, Parts), have |-> {},
             requested |-> {}, retries_used |-> 0, waiting |-> FALSE], m, FALSE)
  /\ KeepOrDrop([transfer |-> m.hash[1], next |-> m.hash[2],
                 length |-> IF Continuation THEN incoming.length ELSE 0])
  /\ UNCHANGED <<senderVars>>

(* resource_complete, once the last part of a segment is stored.  The proof
   goes out before the data is handed over. *)
CompleteSegment(r) ==
  \/ /\ incoming.next < Segments
     /\ resource' = NULL
     /\ incoming' = [incoming EXCEPT !.next = @ + 1, !.length = @ + 1]
     /\ UNCHANGED <<receipt, delivered>>
  \/ /\ incoming.next = Segments /\ incoming.length + 1 = Segments
     /\ Release
     /\ delivered' = Append(delivered, incoming.transfer)
     /\ receipt' = IF incoming.transfer \in Responses
                   THEN [receipt EXCEPT ![incoming.transfer] = "COMPLETE"] ELSE receipt
  \/ incoming.next = Segments /\ incoming.length + 1 # Segments /\ Abort

Expects(m) == m.hash = resource.hash /\ m.part <= resource.known /\ m.part \notin resource.have

(* resource_part for a part the receiver still lacks. *)
StillWanted_Unchecked(t) == TRUE
StillWanted(t) == ReceiptPending(t)

ReceivePart(m, again) ==
  /\ m \in net /\ m.type = "RESOURCE" /\ resource # NULL /\ Expects(m)
  /\ StillWanted(incoming.transfer)
  /\ LET r == Stored(resource, m.part) IN
     \/ /\ ~PartsComplete(r)
        /\ AskFor(r, m, again) /\ KeepOrDrop(incoming)
     \/ /\ PartsComplete(r)
        /\ Exchange(m, {Signal("PRF", r.hash)}, again)
        /\ CompleteSegment(r) /\ UNCHANGED faults
  /\ UNCHANGED <<senderVars>>

(* resource_part once the request was cancelled or timed out. *)
DropUnwanted(m, again) ==
  /\ m \in net /\ m.type = "RESOURCE" /\ resource # NULL
  /\ ~StillWanted(incoming.transfer)
  /\ Exchange(m, {}, again) /\ Release
  /\ UNCHANGED <<senderVars, receipt, delivered, faults>>

(* resource_hashmap_update, only while waiting for one. *)
ReceiveUpdate(m, again) ==
  /\ m \in net /\ m.type = "HMU" /\ AwaitsUpdate
  /\ \/ /\ Applies(resource, m)
        /\ AskFor(Applied(resource, m), m, again) /\ KeepOrDrop(incoming)
     \/ /\ ~Applies(resource, m)
        /\ Exchange(m, {}, again) /\ Abort /\ UNCHANGED faults
  /\ UNCHANGED <<senderVars>>

(* A RESOURCE_ICL that names the segment being received. *)
AcceptCancel(m) ==
  /\ m \in net /\ m.type = "ICL" /\ Receiving(m.hash)
  /\ Exchange(m, {}, FALSE) /\ Abort
  /\ UNCHANGED <<senderVars, faults>>

(* rns_runtime_poll: the inactivity deadline of the receiver has passed. *)
ReceiverTimeout ==
  /\ incoming # NULL /\ Abort
  /\ UNCHANGED <<senderVars, net, faults>>

HasRetry(r) == r.retries_used < MaxRetries

(* rns_runtime_poll: the retry time has passed. *)
Retry ==
  /\ resource # NULL
  /\ LET r == Forgotten(resource) IN
     \/ /\ HasRetry(resource) /\ Request(r) # {}
        /\ resource' = [Requested(r) EXCEPT !.retries_used = @ + 1]
        /\ Sends(Request(r))
        /\ UNCHANGED <<incoming, receipt, delivered, faults>>
     \/ /\ HasRetry(resource) /\ Request(r) # {}
        /\ Fault /\ Abort /\ UNCHANGED net
     \/ /\ ~(HasRetry(resource) /\ Request(r) # {})
        /\ Abort /\ UNCHANGED <<net, faults>>
  /\ UNCHANGED <<senderVars>>

(* rns_request_receipt_cancel, and the request's own deadline in the poll. *)
EndRequest(t, state) ==
  /\ receipt[t] = "PENDING"
  /\ receipt' = [receipt EXCEPT ![t] = state]
  /\ UNCHANGED <<senderVars, resource, incoming, delivered, net, faults>>

(* A packet that names something neither side is working on is dropped. *)
Stale(m) ==
  \/ m.type \in {"REQ", "RCL"} /\ outgoing # m.hash
  \/ m.type = "PRF" /\ ~Proves(m)
  \/ m.type = "ICL" /\ ~Receiving(m.hash)
  \/ m.type = "HMU" /\ ~AwaitsUpdate
  \/ m.type = "RESOURCE" /\ resource = NULL
  \/ /\ m.type = "RESOURCE" /\ resource # NULL
     /\ StillWanted(incoming.transfer) /\ ~Expects(m)

Discard(m) ==
  /\ m \in net /\ Stale(m)
  /\ Exchange(m, {}, FALSE)
  /\ UNCHANGED <<senderVars, receiverVars, faults>>

Handle(m, again) ==
  \/ ServeRequest(m, again) \/ AcceptProof(m) \/ AcceptRejection(m)
  \/ RejectAdvertisement(m) \/ AcceptAdvertisement(m)
  \/ ReceivePart(m, again) \/ DropUnwanted(m, again) \/ ReceiveUpdate(m, again)
  \/ AcceptCancel(m)

Next ==
  /\ \/ \E t \in Transfers : Advertise(t)
     \/ \E state \in {"CANCELLED", "DESTROYED"} : Cancel(state)
     \/ SenderTimeout \/ ReceiverTimeout \/ Retry
     \/ \E t \in Responses, state \in {"CANCELLED", "FAILED"} : EndRequest(t, state)
     \/ \E m \in net : Handle(m, m.type \in Repeatable)
  /\ UNCHANGED losses

Spec == Init /\ [][Next]_vars

----------------------------------------------------------------------------
(***************************************************************************)
(* The timely system, for liveness: the timers are set so that a retry     *)
(* falls due only when nothing is in flight and no other deadline passes   *)
(* meanwhile, and nobody cancels.  Between two parts or pages that arrive, *)
(* MaxLosses requests, parts or hashmap updates may be lost.  Copies are   *)
(* counted: a packet that arrived or was lost is gone.                     *)
(***************************************************************************)
Progress ==
  resource # NULL /\ (resource' # NULL => \/ resource'.have # resource.have
                                         \/ resource'.known # resource.known)

Arrive(m) ==
  /\ Handle(m, FALSE) \/ Discard(m)
  /\ ~RejectAdvertisement(m) /\ faults' = faults
  /\ losses' = IF Progress THEN 0 ELSE losses

QuietRetry == net = {} /\ Retry /\ faults' = faults /\ losses' = losses

Lose(m) ==
  /\ m.type \in Repeatable /\ losses < MaxLosses /\ losses' = losses + 1
  /\ net' = net \ {m}
  /\ UNCHANGED <<senderVars, receiverVars, faults>>

TimelyNext ==
  \/ \E t \in Transfers : Advertise(t) /\ losses' = 0
  \/ \E m \in net : Arrive(m)
  \/ QuietRetry
  \/ \E m \in net : Lose(m)

TimelySpec ==
  /\ Init /\ [][TimelyNext]_vars
  /\ \A t \in Transfers : WF_vars(Advertise(t) /\ losses' = 0)
  /\ WF_vars(\E m \in net : Arrive(m)) /\ WF_vars(QuietRetry)

----------------------------------------------------------------------------
TypeOK ==
  /\ outgoing \in Hashes \cup {NULL}
  /\ outcome \in [Transfers -> {"IDLE", "ADVERTISED", "TRANSFERRING"} \cup Terminal]
  /\ part_sent \subseteq PartIds /\ sent_parts \in 0 .. Segments * Parts
  /\ resource \in Resources \cup {NULL} /\ incoming \in Assemblies \cup {NULL}
  /\ receipt \in [Responses -> {"PENDING", "COMPLETE", "FAILED", "CANCELLED"}]
  /\ delivered \in Seq(Transfers)
  /\ \A m \in net : m.hash \in Hashes
  /\ losses \in Nat /\ faults \in Nat

(***************************************************************************)
(* A sender told COMPLETE is told the truth: the receiving application was *)
(* handed the whole resource, exactly once.  (outgoing_resource_proof on   *)
(* one side, resource_complete on the other; the converse fails when the   *)
(* last proof is lost.)                                                    *)
(***************************************************************************)
CompleteIsDelivered ==
  \A t \in Transfers : outcome[t] = "COMPLETE" =>
    Cardinality({i \in DOMAIN delivered : delivered[i] = t}) = 1

(***************************************************************************)
(* The receiver never has more than a window of parts on order, so the     *)
(* protocol error of build_retry_request is dead; what it ordered it lacks *)
(* and knows the hash of; and it waits for a page only when it has all the *)
(* parts it knows, at a page boundary, so the sender never finds the       *)
(* anchor of a page request malformed.                                     *)
(***************************************************************************)
WindowRespected ==
  /\ resource # NULL =>
       /\ Cardinality(Outstanding(resource)) <= Window
       /\ resource.requested \subseteq (1 .. resource.known) \ resource.have
       /\ resource.have \subseteq 1 .. resource.known
       /\ resource.waiting => /\ resource.have = 1 .. resource.known
                              /\ resource.known < Parts /\ resource.known % Page = 0
  /\ \A m \in net : m.type = "REQ" => ~BadAnchor(m)

(***************************************************************************)
(* The progress reported to the sender's callback is exact: the parts of   *)
(* the segments already proved, and those of the current one that went out *)
(* (part_sent and sent_parts in outgoing_resource_request).                *)
(***************************************************************************)
ProgressExact ==
  outgoing # NULL => sent_parts = (outgoing[2] - 1) * Parts + Cardinality(part_sent)

(* What the two sides report and keep is true (the three above). *)
TransfersTrue == TypeOK /\ CompleteIsDelivered /\ WindowRespected /\ ProgressExact

(***************************************************************************)
(* A request is concluded once: a receipt that was cancelled or timed out  *)
(* while its response was arriving is never turned into a completed one.   *)
(* So is a transfer: outgoing_resource_finish detaches it, and a late      *)
(* proof, rejection or timeout does not report it again.                   *)
(***************************************************************************)
ConcludesOnce ==
  /\ \A t \in Responses : receipt[t] # "PENDING" => receipt'[t] = receipt[t]
  /\ \A t \in Transfers : outcome[t] \in Terminal => outcome'[t] = outcome[t]

(***************************************************************************)
(* Losses the retries can make up for do not fail a transfer: as long as   *)
(* fewer than MaxRetries packets are lost between two that arrive, every   *)
(* transfer completes, since retries_used starts again with each part or   *)
(* page.  (With MaxRetries losses it need not: one lost before a part      *)
(* arrives still costs a retry after it.)                                  *)
(***************************************************************************)
EventuallyComplete == \A t \in Transfers : <>(outcome[t] = "COMPLETE")
=============================================================================
