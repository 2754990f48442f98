-------------------------------- MODULE Link --------------------------------
(***************************************************************************)
(* One encrypted link between two runtimes: the handshake, the keepalives  *)
(* and the stale timer, the requests and the proved packets that use the   *)
(* link, and its end by either side, by silence or by a packet that turns  *)
(* up on another interface (runtime/runtime.c and link/link.c).            *)
(*                                                                         *)
(* Time is discrete.  The code keeps the times of events and compares them *)
(* with the clock; here each is an age that stops growing once the code    *)
(* can no longer tell it from a larger one, or the time left of a          *)
(* deadline.  A runtime is polled at least once a tick: no tick passes     *)
(* while a poll has something to do.                                       *)
(*                                                                         *)
(* Every encrypted packet has a hash of its own; a keepalive is one        *)
(* constant byte, so all keepalives of one end have the same hash and the  *)
(* packet cache of the other end drops a repeat within its lifetime.       *)
(***************************************************************************)
EXTENDS Integers, FiniteSets

CONSTANTS
  Requests, Packets,   \* requests, and packets sent with a receipt, of the initiator
  MaxRequests,         \* RNS_RUNTIME_MAX_REQUESTS
  Keepalives,          \* keepalive intervals an end may compute from its round trip
  Slack,               \* four round trips and five seconds
  CacheLifetime,       \* dedupe_lifetime of the packet cache
  Latency,             \* the longest a packet that is not lost is under way
  HandshakeTimeout, ExchangeTimeout,
  MaxExchanges,        \* bound: requests and packets of one behaviour
  MaxFaults            \* bound: packets lost or on another interface

VARIABLES
  state,       \* protocol.state of each end; "NONE" before, "GONE" after its life
  keepalive,   \* keepalive_seconds of each end
  quiet_in,    \* time since last_inbound
  quiet_out,   \* time since last_outbound
  patience,    \* time left of the handshake's deadline
  cached,      \* time for which a repeated keepalive is still dropped
  exchange,    \* state of each request receipt and packet receipt
  time_left,   \* of its deadline
  air,         \* packets under way
  faults,
  stale,       \* ends that closed the link because of silence (history)
  abrupt       \* an end left where no goodbye could tell the other (history)

endVars == <<state, keepalive, quiet_in, quiet_out, patience, cached, stale, abrupt>>
exchangeVars == <<exchange, time_left>>
linkVars == <<endVars, exchangeVars, air, faults>>

Ends == {"initiator", "responder"}
Other(e) == IF e = "initiator" THEN "responder" ELSE "initiator"
Exchanges == Requests \cup Packets
Live == {"PENDING", "HANDSHAKE", "ACTIVE"}
Concluded == {"COMPLETE", "FAILED", "CANCELLED"}
Known(e) == state[e] \in Live \cup {"CLOSED"}      \* the runtime has the link

Least(S) == CHOOSE i \in S : \A j \in S : i <= j

(***************************************************************************)
(* link_update_keepalive: the interval grows with the end's round trip.    *)
(* The responder takes the larger of its own measure and the one the       *)
(* initiator reports (rns_link_responder_accept_rtt), so its interval is   *)
(* never the shorter one; how much longer is up to the network.            *)
(***************************************************************************)
Intervals == {k \in [Ends -> Keepalives] : k["initiator"] <= k["responder"]}

(* now - last_inbound at which rns_runtime_poll gives the link up. *)
StaleAfter_OneMiss(e) == keepalive[e] + Slack
StaleAfter(e) == 2 * keepalive[e] + Slack

TypeOK ==
  /\ state \in [Ends -> Live \cup {"NONE", "CLOSED", "GONE"}]
  /\ keepalive \in Intervals
  /\ \A e \in Ends : quiet_in[e] \in 0 .. StaleAfter(e) /\ quiet_out[e] \in 0 .. keepalive[e]
  /\ patience \in [Ends -> 0 .. HandshakeTimeout]
  /\ cached \in [Ends -> 0 .. CacheLifetime]
  /\ exchange \in [Exchanges -> Concluded \cup {"NONE", "PENDING", "DESTROYED"}]
  /\ time_left \in [Exchanges -> 0 .. ExchangeTimeout]
  /\ \A p \in air : p.to \in Ends /\ p.age \in 0 .. Latency
  /\ faults \in 0 .. MaxFaults /\ stale \subseteq Ends /\ abrupt \in BOOLEAN

Init ==
  /\ state = [e \in Ends |-> "NONE"]
  /\ keepalive \in Intervals
  /\ quiet_in = [e \in Ends |-> 0] /\ quiet_out = [e \in Ends |-> 0]
  /\ patience = [e \in Ends |-> 0] /\ cached = [e \in Ends |-> 0]
  /\ exchange = [x \in Exchanges |-> "NONE"] /\ time_left = [x \in Exchanges |-> 0]
  /\ air = {} /\ faults = 0 /\ stale = {} /\ abrupt = FALSE

----------------------------------------------------------------------------
(* Packets, and what handling one always does to the clocks of an end. *)

Packet(to, type, about) == [to |-> to, type |-> type, about |-> about, age |-> 0]
Signal(to, type) == Packet(to, type, "link")

(* link_send_wire, link_send_plain, link_send_proof: an answer to p, if any,
   goes out and restarts the outbound clock. *)
Answer(p, sent) ==
  /\ air' = (air \ {p}) \cup sent
  /\ quiet_out' = IF sent = {} THEN quiet_out ELSE [quiet_out EXCEPT ![p.to] = 0]

Heard(e) == quiet_in' = [quiet_in EXCEPT ![e] = 0]

(* request_notify or packet_receipt_notify follows the change of state. *)
Conclude(X, outcome) ==
  exchange' = [x \in Exchanges |-> IF x \in X /\ exchange[x] = "PENDING"
                                   THEN outcome ELSE exchange[x]]

(* fail_pending_requests, at the end that made them. *)
FailRequests(e) == Conclude(IF e = "initiator" THEN Requests ELSE {}, "FAILED")

----------------------------------------------------------------------------
(* The handshake. *)

(* rns_runtime_link_open, once a path to the destination is known. *)
Open ==
  /\ state["initiator"] = "NONE"
  /\ state' = [state EXCEPT !["initiator"] = "PENDING"]
  /\ patience' = [patience EXCEPT !["initiator"] = HandshakeTimeout]
  /\ air' = air \cup {Signal("responder", "LINKREQUEST")}
  /\ UNCHANGED <<keepalive, quiet_in, quiet_out, cached, stale, abrupt, exchangeVars, faults>>

(* accept_inbound_link: a free slot, a valid request and a proof that could
   be sent make a link; otherwise the request is dropped without a trace. *)
AcceptRequest(p) ==
  /\ p.type = "LINKREQUEST"
  /\ \/ /\ state["responder"] = "NONE"
        /\ state' = [state EXCEPT !["responder"] = "HANDSHAKE"]
        /\ patience' = [patience EXCEPT !["responder"] = HandshakeTimeout]
        /\ Heard("responder") /\ Answer(p, {Signal("initiator", "PROOF")})
     \/ UNCHANGED <<state, patience, quiet_in>> /\ Answer(p, {})
  /\ UNCHANGED <<keepalive, cached, stale, abrupt, exchangeVars, faults>>

(* The initiator takes the proof and confirms with its round trip. *)
AcceptProof(p) ==
  /\ p.type = "PROOF" /\ state["initiator"] = "PENDING"
  /\ \/ /\ state' = [state EXCEPT !["initiator"] = "ACTIVE"]
        /\ Heard("initiator") /\ Answer(p, {Signal("responder", "RTT")})
     \/ /\ state' = [state EXCEPT !["initiator"] = "CLOSED"]   \* not valid, or not sent
        /\ UNCHANGED quiet_in /\ Answer(p, {})
  /\ UNCHANGED <<keepalive, patience, cached, stale, abrupt, exchangeVars, faults>>

(* rns_link_responder_accept_rtt: the responder is active, or closes without
   a word. *)
AcceptRtt(p) ==
  /\ p.type = "RTT" /\ state["responder"] = "HANDSHAKE"
  /\ Answer(p, {})
  /\ \/ /\ state' = [state EXCEPT !["responder"] = "ACTIVE"]
        /\ Heard("responder") /\ UNCHANGED abrupt
     \/ /\ state' = [state EXCEPT !["responder"] = "CLOSED"]   \* not valid
        /\ abrupt' = TRUE /\ UNCHANGED quiet_in
  /\ UNCHANGED <<keepalive, patience, cached, stale, exchangeVars, faults>>

----------------------------------------------------------------------------
(* Requests and proved packets. *)

(* The packet goes out, its receipt waits. *)
Send(x) ==
  /\ state["initiator"] = "ACTIVE" /\ exchange[x] = "NONE"
  /\ Cardinality({y \in Exchanges : exchange[y] # "NONE"}) < MaxExchanges
  /\ exchange' = [exchange EXCEPT ![x] = "PENDING"]
  /\ time_left' = [time_left EXCEPT ![x] = ExchangeTimeout]
  /\ air' = air \cup {Packet("responder", "DATA", x)}
  /\ quiet_out' = [quiet_out EXCEPT !["initiator"] = 0]
  /\ UNCHANGED <<state, keepalive, quiet_in, patience, cached, stale, abrupt, faults>>

(* rns_runtime_link_request: needs a free slot of the link's table; a slot is
   freed only when its receipt is destroyed. *)
SendRequest(x) ==
  /\ x \in Requests
  /\ Cardinality({r \in Requests : exchange[r] \notin {"NONE", "DESTROYED"}}) < MaxRequests
  /\ Send(x)

(* rns_runtime_link_send_with_receipt: the runtime's table is large enough. *)
SendWithReceipt(x) == x \in Packets /\ Send(x)

(* handle_request: no handler, no permission, or a handler that fails: no
   response. *)
HandleRequest(p) ==
  /\ p.about \in Requests
  /\ Answer(p, {Packet(Other(p.to), "RETURN", p.about)}) \/ Answer(p, {})

(* A data packet is proved (rns_runtime_link_prove_current_packet) if the
   options or the packet callback ask for it. *)
HandlePacket(p) ==
  /\ p.about \in Packets
  /\ Answer(p, {Packet(Other(p.to), "RETURN", p.about)}) \/ Answer(p, {})

HandleData(p) ==
  /\ p.type = "DATA" /\ state[p.to] = "ACTIVE"
  /\ Heard(p.to)
  /\ HandleRequest(p) \/ HandlePacket(p)
  /\ UNCHANGED <<state, keepalive, patience, cached, stale, abrupt, exchangeVars, faults>>

(* handle_response: to the pending receipt of that id; too large, it fails.
   packet_receipt_ingress: a proof settles its receipt whatever the state of
   the link, and does not count as traffic of the link. *)
HandleResponse(p) ==
  /\ p.type = "RETURN" /\ p.about \in Requests /\ state[p.to] = "ACTIVE"
  /\ Heard(p.to)
  /\ \E outcome \in {"COMPLETE", "FAILED"} : Conclude({p.about}, outcome)
  /\ Answer(p, {})
  /\ UNCHANGED <<state, keepalive, patience, cached, stale, abrupt, time_left, faults>>

ReceiptProof(p) ==
  /\ p.type = "RETURN" /\ p.about \in Packets
  /\ Conclude({p.about}, "COMPLETE") /\ Answer(p, {})
  /\ UNCHANGED <<state, keepalive, quiet_in, patience, cached, stale, abrupt, time_left, faults>>

(* rns_request_receipt_cancel, rns_packet_receipt_cancel. *)
Cancel(x) ==
  /\ exchange[x] = "PENDING" /\ Conclude({x}, "CANCELLED")
  /\ UNCHANGED <<endVars, time_left, air, faults>>

(* rns_request_receipt_destroy, rns_packet_receipt_destroy: no report. *)
Destroy(x) ==
  /\ exchange[x] \in Concluded \cup {"PENDING"}
  /\ exchange' = [exchange EXCEPT ![x] = "DESTROYED"]
  /\ UNCHANGED <<endVars, time_left, air, faults>>

----------------------------------------------------------------------------
(* Keepalives and the end of a link. *)

(* A keepalive passes the packet cache unless a copy is remembered; the
   responder answers when it has been quiet for its own interval. *)
Replies(e) == e = "responder" /\ quiet_out[e] >= keepalive[e]

HandleKeepalive(p) ==
  /\ p.type = "KEEPALIVE" /\ Known(p.to)
  /\ \/ /\ cached[p.to] = 0
        /\ cached' = [cached EXCEPT ![p.to] = CacheLifetime]
        /\ \/ /\ state[p.to] = "ACTIVE" /\ Heard(p.to)
              /\ Answer(p, IF Replies(p.to) THEN {Signal(Other(p.to), "KEEPALIVE")} ELSE {})
           \/ state[p.to] # "ACTIVE" /\ UNCHANGED quiet_in /\ Answer(p, {})
     \/ cached[p.to] > 0 /\ UNCHANGED <<cached, quiet_in>> /\ Answer(p, {})
  /\ UNCHANGED <<state, keepalive, patience, stale, abrupt, exchangeVars, faults>>

HandleClose(p) ==
  /\ p.type = "CLOSE" /\ state[p.to] = "ACTIVE"
  /\ state' = [state EXCEPT ![p.to] = "CLOSED"] /\ FailRequests(p.to)
  /\ Heard(p.to) /\ Answer(p, {})
  /\ UNCHANGED <<keepalive, patience, cached, stale, abrupt, time_left, faults>>

(* link_ingress returns without effect: the link is unknown here (the node
   has no such destination), or not in a state to take the packet. *)
Ignore(p) ==
  /\ \/ ~Known(p.to) /\ p.type # "LINKREQUEST"
     \/ p.type = "PROOF" /\ state[p.to] # "PENDING"
     \/ p.type = "RTT" /\ state[p.to] # "HANDSHAKE"
     \/ p.type \in {"DATA", "CLOSE"} /\ state[p.to] # "ACTIVE"
     \/ p.type = "RETURN" /\ p.about \in Requests /\ state[p.to] # "ACTIVE"
  /\ Answer(p, {})
  /\ UNCHANGED <<state, keepalive, quiet_in, patience, cached, stale, abrupt, exchangeVars, faults>>

(* A packet of the link arrives on another interface than the link's: it is
   closed, its requests are left to their deadlines. *)
Roam(p) ==
  /\ p.type # "LINKREQUEST" /\ Known(p.to)
  /\ ~ (p.type = "RETURN" /\ p.about \in Packets)
  /\ faults < MaxFaults /\ faults' = faults + 1
  /\ state' = [state EXCEPT ![p.to] = "CLOSED"] /\ Answer(p, {})
  /\ UNCHANGED <<keepalive, quiet_in, patience, cached, stale, abrupt, exchangeVars>>

(* rns_runtime_link_destroy: says goodbye on an active link, concludes what is
   pending and frees the request receipts; their owner must not use them. *)
Released(x) ==
  IF x \in Requests /\ exchange[x] # "NONE" THEN "DESTROYED"
  ELSE IF exchange[x] = "PENDING" THEN "FAILED" ELSE exchange[x]

DestroyLink(e) ==
  /\ Known(e)
  /\ state' = [state EXCEPT ![e] = "GONE"]
  /\ air' = IF state[e] = "ACTIVE" THEN air \cup {Signal(Other(e), "CLOSE")} ELSE air
  /\ exchange' = IF e = "initiator" THEN [x \in Exchanges |-> Released(x)] ELSE exchange
  /\ abrupt' = (abrupt \/ \E d \in Ends : state[d] \in Live /\ state[d] # "ACTIVE")
  /\ UNCHANGED <<keepalive, quiet_in, quiet_out, patience, cached, stale, time_left, faults>>

Receive(p) ==
  \/ AcceptRequest(p) \/ AcceptProof(p) \/ AcceptRtt(p)
  \/ HandleData(p) \/ HandleResponse(p) \/ ReceiptProof(p)
  \/ HandleKeepalive(p) \/ HandleClose(p) \/ Ignore(p)

Lose(p) ==
  /\ faults < MaxFaults /\ faults' = faults + 1 /\ air' = air \ {p}
  /\ UNCHANGED <<endVars, exchangeVars>>

----------------------------------------------------------------------------
(* rns_runtime_poll: the deadlines of receipts, then those of the link. *)

TimedOut == {x \in Exchanges : exchange[x] = "PENDING" /\ time_left[x] = 0}
HandshakeOver(e) == state[e] \in {"PENDING", "HANDSHAKE"} /\ patience[e] = 0
Silent_Never(e) == FALSE
Silent(e) == state[e] = "ACTIVE" /\ quiet_in[e] >= StaleAfter(e)
KeepaliveDue(e) ==
  e = "initiator" /\ state[e] = "ACTIVE" /\ quiet_out[e] >= keepalive[e]

PollWork(e) ==
  \/ e = "initiator" /\ TimedOut # {}
  \/ HandshakeOver(e) \/ Silent(e) \/ KeepaliveDue(e)

Poll(e) ==
  /\ PollWork(e)
  /\ LET closes == HandshakeOver(e) \/ Silent(e)
         late == IF e = "initiator" THEN TimedOut ELSE {} IN
     /\ Conclude(IF closes /\ e = "initiator" THEN late \cup Requests ELSE late, "FAILED")
     /\ state' = IF closes THEN [state EXCEPT ![e] = "CLOSED"] ELSE state
     /\ stale' = IF Silent(e) THEN stale \cup {e} ELSE stale
     /\ \/ /\ ~closes /\ KeepaliveDue(e)
           /\ air' = air \cup {Signal(Other(e), "KEEPALIVE")}
           /\ quiet_out' = [quiet_out EXCEPT ![e] = 0]
        \/ (closes \/ ~KeepaliveDue(e)) /\ UNCHANGED <<air, quiet_out>>
  /\ UNCHANGED <<keepalive, quiet_in, patience, cached, abrupt, time_left, faults>>

Down(n) == IF n = 0 THEN 0 ELSE n - 1

(* The clock.  A packet is under way for at most Latency ticks. *)
Tick ==
  /\ (\E e \in Ends : state[e] \in Live) \/ (\E x \in Exchanges : exchange[x] = "PENDING")
  /\ \A e \in Ends : ~PollWork(e)
  /\ \A p \in air : p.age < Latency
  /\ air' = {[p EXCEPT !.age = @ + 1] : p \in air}
  /\ quiet_in' = [e \in Ends |-> IF state[e] \notin Live THEN quiet_in[e]
                                 ELSE Least({quiet_in[e] + 1, StaleAfter(e)})]
  /\ quiet_out' = [e \in Ends |-> IF state[e] \notin Live THEN quiet_out[e]
                                  ELSE Least({quiet_out[e] + 1, keepalive[e]})]
  /\ patience' = [e \in Ends |-> IF state[e] \in {"PENDING", "HANDSHAKE"}
                                 THEN Down(patience[e]) ELSE 0]
  /\ cached' = [e \in Ends |-> Down(cached[e])]
  /\ time_left' = [x \in Exchanges |-> IF exchange[x] = "PENDING" THEN Down(time_left[x]) ELSE 0]
  /\ UNCHANGED <<state, keepalive, stale, abrupt, exchange, faults>>

Next ==
  \/ Open
  \/ \E x \in Exchanges : SendRequest(x) \/ SendWithReceipt(x) \/ Cancel(x) \/ Destroy(x)
  \/ \E p \in air : Receive(p) \/ Lose(p) \/ Roam(p)
  \/ \E e \in Ends : Poll(e) \/ DestroyLink(e)
  \/ Tick

(***************************************************************************)
(* Fairness: time passes, a runtime with work is polled, and a packet      *)
(* either arrives or is lost.  Nothing is assumed of the applications.     *)
(***************************************************************************)
Proceed ==
  \/ \E e \in Ends : Poll(e)
  \/ \E p \in air : Receive(p) \/ Lose(p)
  \/ Tick

Spec == Init /\ [][Next]_linkVars /\ WF_linkVars(Proceed)

----------------------------------------------------------------------------
(***************************************************************************)
(* Keepalives keep an idle link alive.  With no packet lost, no end takes  *)
(* the other for silent while it is there, nor after it left with a        *)
(* goodbye -- provided that the intervals, which the ends compute from     *)
(* different round trips, and the lifetime of the packet cache fit.        *)
(* Compatible says how: a keepalive is not taken for a repeat of the one   *)
(* before it, and every second one is answered.  On a link with a round    *)
(* trip under 0.29 seconds the interval is shorter than the 60 seconds of  *)
(* the cache, Compatible does not hold, and an idle link is closed as      *)
(* silent.  (runtime.c, rns_runtime_poll, link_update_keepalive and        *)
(* link_ingress; transport.c, rns_transport_accept_packet_hash.)           *)
(***************************************************************************)
Compatible ==
  /\ CacheLifetime + Latency <= keepalive["initiator"]
  /\ keepalive["responder"] + Latency <= 2 * keepalive["initiator"]
  /\ 2 * Latency < Slack /\ 2 * Latency < HandshakeTimeout

KeptAlive ==
  (/\ faults = 0 /\ ~abrupt /\ Compatible
   /\ \A x \in Exchanges : exchange[x] = "NONE")
  => stale = {}

(***************************************************************************)
(* Nothing waits for ever: a request or a proved packet is concluded, and  *)
(* when one end has closed or left the link the other ends its side too,   *)
(* whatever is lost: by the goodbye, by its deadline or by the silence.    *)
(* (runtime.c, rns_runtime_poll, rns_runtime_link_destroy.)                *)
(***************************************************************************)
Unsettled ==
  \/ \E x \in Exchanges : exchange[x] = "PENDING"
  \/ \E e \in Ends : state[e] \in {"CLOSED", "GONE"} /\ state[Other(e)] \in Live

EventuallyAgree == []<>~Unsettled
=============================================================================
