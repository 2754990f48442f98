------------------------------ MODULE Delivery ------------------------------
(***************************************************************************)
(* Sending LXMF messages (lxmf/router_send.c): every message has a durable *)
(* record of a status and delivery metadata, which the router's handlers   *)
(* change while packets, resource transfers and one upload at a time to a  *)
(* propagation node are under way.                                         *)
(*                                                                         *)
(* The router runs one handler at a time, but a handler makes several      *)
(* durable writes with a send between them.  So a handler is a task: a     *)
(* list of steps that run one by one.  A write may fail, and the process   *)
(* may crash between any two steps (between handlers only, if Torn is      *)
(* FALSE).  Metadata and status are separate records of the store.         *)
(*                                                                         *)
(* Times: a retry deadline is the boot it was computed in, 0 for none; it  *)
(* is of use in that boot only.  The router has a runtime to send with; the *)
(* mode without one, in which a packet counts as SENT once the application  *)
(* took it, is left out.                                                    *)
(***************************************************************************)
EXTENDS Integers, Sequences, FiniteSets, SequencesExt

CONSTANTS
  Messages, Method,          \* messages, and the delivery method of each
  Costly,                    \* messages that need a proof-of-work stamp
  Unknown,                   \* messages whose recipient is not known at first
  Limit,                     \* direct_retry_limit, propagation_retry_limit
  MaxSlots,                  \* LXMF_ROUTER_MAX_RECEIPTS and _RESOURCES
  Torn,                      \* whether a crash may cut a handler short
  MaxFaults,                 \* bound: failed writes and sends
  MaxWaits,                  \* bound: deferrals and progress reports
  MaxCrashes, MaxCancels, MaxResends, MaxSyncs,             \* bounds
  MaxEvents,                 \* bound: all of these together
  NULL

ASSUME DeliveryConfig ==
  /\ Method \in [Messages -> {"DIRECT", "OPPORTUNISTIC", "PROPAGATED"}]
  /\ Costly \subseteq Messages /\ Unknown \subseteq Messages /\ Torn \in BOOLEAN
  /\ Limit \in Nat \ {0} /\ MaxSlots \in Nat \ {0}
  /\ {MaxFaults, MaxCrashes, MaxWaits, MaxCancels, MaxResends, MaxSyncs,
      MaxEvents} \subseteq Nat

VARIABLES
  up,        \* the router is initialised
  status,    \* durable: delivery status of each message
  meta,      \* durable: delivery metadata of each message
  task,      \* what is left of the running handler
  slots,     \* receipts and transfers that wait for their conclusion
  job,       \* the stamp worker: the message it works for, and whether it is done
  upload,    \* the propagation slot
  sync,      \* the propagation sync slot
  known,     \* messages whose recipient's identity is known
  has_node,  \* a propagation node is configured
  boot,      \* boots so far
  wire,      \* history: attempts of each message that left, since it was last sent explicitly
  again,     \* history: messages that left twice under one attempt number
  got,       \* messages the recipient (the propagation node) has
  cancelled, \* messages whose cancellation was confirmed to the user
  used       \* how often each bounded thing happened

durable == <<status, meta>>
volatile == <<slots, job, upload, sync>>
history == <<wire, again, got, cancelled>>
reach == <<known, has_node>>
vars == <<up, durable, task, volatile, reach, boot, history, used>>

Terminal == {"CANCELLED", "RETRY_EXHAUSTED", "IDENTITY_TIMEOUT"}
Reasons == Terminal \cup {"NONE", "PEER_IDENTITY", "STAMP", "LINK", "RESOURCE",
                          "PROPAGATION_NODE", "RETRY_BACKOFF"}
Statuses == {"QUEUED", "SENDING", "SENT", "DELIVERED", "FAILED"}
Metadata == [reason : Reasons, attempts : Nat, retry : Nat, deadline : BOOLEAN, proof : BOOLEAN]
Bounds == [faults |-> MaxFaults, crashes |-> MaxCrashes, waits |-> MaxWaits,
           cancels |-> MaxCancels, resends |-> MaxResends, syncs |-> MaxSyncs]
NoJob == [msg |-> NULL, done |-> FALSE]
NoUpload == [msg |-> NULL, attempt |-> 0, phase |-> "FREE"]

Use(what) ==
  /\ used[what] < Bounds[what] /\ FoldFunction(+, 0, used) < MaxEvents
  /\ used' = [used EXCEPT ![what] = @ + 1]

Init ==
  /\ up = TRUE /\ status = [m \in Messages |-> "QUEUED"]
  /\ meta = [m \in Messages |-> [reason |-> "NONE", attempts |-> 0, retry |-> 0,
                                 deadline |-> FALSE, proof |-> FALSE]]
  /\ task = <<>> /\ slots = {} /\ job = NoJob /\ upload = NoUpload
  /\ sync = "IDLE" /\ known = Messages \ Unknown /\ has_node = TRUE /\ boot = 1
  /\ wire = [m \in Messages |-> {}] /\ again = {} /\ got = {} /\ cancelled = {}
  /\ used = [w \in DOMAIN Bounds |-> 0]

(* The steps of a task.  fail says how a failed write goes on: with the next
   step, by leaving the handler, by finishing the attempt as failed, or by
   giving up initialisation. *)
SaveMeta(m, d, fail) == [op |-> "meta", msg |-> m, val |-> d, fail |-> fail]
SaveStatus(m, s, fail) == [op |-> "status", msg |-> m, val |-> s, fail |-> fail]
Step(op, m) == [op |-> op, msg |-> m]
Finish(m, a, how) == [op |-> "finish", msg |-> m, attempt |-> a, how |-> how]

Idle == up /\ task = <<>>

----------------------------------------------------------------------------
(* finish_direct_attempt: only the latest attempt concludes the message. *)
Exhausted(m, how) == how = "REJECT" \/ meta[m].attempts >= Limit

FinishAttempt(m, a, how) ==
  LET state == IF how = "CANCEL" \/ Exhausted(m, how) THEN "FAILED" ELSE "QUEUED"
      reason == CASE how = "CANCEL" -> "CANCELLED"
                  [] how # "CANCEL" /\ Exhausted(m, how) -> "RETRY_EXHAUSTED"
                  [] OTHER -> "RETRY_BACKOFF"
  IN IF meta[m].attempts # a THEN <<>>
     ELSE <<SaveMeta(m, [meta[m] EXCEPT !.reason = reason, !.proof = FALSE,
                           !.retry = IF state = "FAILED" THEN 0 ELSE boot], "CONTINUE"),
            SaveStatus(m, state, "CONTINUE")>>

(* The end of lxmf_router_send_message when something failed. *)
FailAttempt(m, d) ==
  <<SaveMeta(m, d, "CONTINUE"), Finish(m, d.attempts, "RETRY")>>

----------------------------------------------------------------------------
(* lxmf_router_send_message.  An explicit resend of a message given up on
   starts a fresh budget. *)
Budget(m) ==
  IF meta[m].reason \in Terminal
  THEN [meta[m] EXCEPT !.attempts = 0, !.retry = 0, !.deadline = FALSE] ELSE meta[m]

Cleared(d) == [d EXCEPT !.reason = "NONE", !.retry = 0, !.deadline = FALSE, !.proof = FALSE]
Counted(d) == [d EXCEPT !.attempts = @ + 1]
Uncounted(d) == [d EXCEPT !.attempts = @ - 1]

(* The recipient is not known: wait for its announce until the deadline. *)
Discover(m) ==
  LET d == [Budget(m) EXCEPT !.deadline = TRUE] IN
  (IF Budget(m).deadline THEN <<>> ELSE <<SaveMeta(m, d, "RETURN")>>)
    \o <<SaveMeta(m, [d EXCEPT !.reason = "PEER_IDENTITY", !.retry = boot], "RETURN"),
         SaveStatus(m, "QUEUED", "RETURN")>>
DiscoveryOver(m) ==
  <<SaveMeta(m, [Budget(m) EXCEPT !.reason = "IDENTITY_TIMEOUT", !.retry = 0], "RETURN"),
    SaveStatus(m, "FAILED", "RETURN")>>

(* The attempt is recorded before anything leaves. *)
Transmit(m) ==
  LET d == Cleared(Budget(m)) IN
  <<SaveMeta(m, d, "RETURN"), Step("stamp", m)>>
    \o (IF Method[m] = "PROPAGATED" THEN <<Step("begin", m)>>
        ELSE <<SaveMeta(m, Counted(d), "RETURN"), SaveStatus(m, "SENDING", "RETURN"),
               [op |-> "send", msg |-> m, val |-> Counted(d)]>>)

(* Not before its retry time, nor while the propagation slot is taken, nor
   without a propagation node. *)
Waiting(m) == meta[m].reason = "RETRY_BACKOFF" /\ meta[m].retry \notin {0, boot}
Blocked(m) == Method[m] = "PROPAGATED" /\ (upload.phase # "FREE" \/ sync # "IDLE")

Nodeless(m) == Method[m] = "PROPAGATED" /\ ~has_node
Free(m) == ~Blocked(m) /\ ~Waiting(m) /\ ~Nodeless(m)

SendMessage(m) ==
  /\ Idle /\ status[m] \in {"QUEUED", "FAILED"}
  /\ \/ /\ Blocked(m) \/ (~Waiting(m) /\ Nodeless(m))
        /\ task' = <<SaveMeta(m, [Budget(m) EXCEPT !.reason = "PROPAGATION_NODE"], "CONTINUE")>>
     \/ Free(m) /\ m \notin known /\ task' = Discover(m)
     \/ Free(m) /\ m \notin known /\ Budget(m).deadline /\ task' = DiscoveryOver(m)
     \/ Free(m) /\ m \in known /\ task' = Transmit(m)
  /\ UNCHANGED <<up, durable, volatile, reach, boot>>

(* collect_pending: what lxmf_router_poll sends by itself. *)
Pending(m) == meta[m].reason \notin Terminal /\ status[m] \in {"QUEUED", "FAILED"}
Poll(m) == Pending(m) /\ SendMessage(m) /\ UNCHANGED <<history, used>>
Resend(m) ==
  /\ meta[m].reason \in Terminal /\ SendMessage(m) /\ Use("resends")
  /\ wire' = [wire EXCEPT ![m] = {}] /\ cancelled' = cancelled \ {m}
  /\ UNCHANGED <<again, got>>

----------------------------------------------------------------------------
(* A write of the store, which does nothing if it changes nothing. *)
Write ==
  LET h == Head(task) IN
  /\ task # <<>> /\ h.op \in {"meta", "status"}
  /\ task' = Tail(task)
  /\ meta' = IF h.op = "meta" THEN [meta EXCEPT ![h.msg] = h.val] ELSE meta
  /\ status' = IF h.op = "status" THEN [status EXCEPT ![h.msg] = h.val] ELSE status
  /\ UNCHANGED <<up, volatile, reach, boot, history, used>>

FailWrite ==
  LET h == Head(task) IN
  /\ task # <<>> /\ h.op \in {"meta", "status"} /\ Use("faults")
  /\ h.val # (IF h.op = "meta" THEN meta ELSE status)[h.msg]
  /\ up' = (h.fail # "ABORT")
  /\ task' = CASE h.fail = "CONTINUE" -> Tail(task)
               [] h.fail = "ERROR" ->
                    FailAttempt(h.msg, IF h.op = "meta" THEN h.val ELSE meta[h.msg])
               [] OTHER -> <<>>
  /\ UNCHANGED <<durable, volatile, reach, boot, history>>

RunFinish ==
  LET h == Head(task) IN
  /\ task # <<>> /\ h.op = "finish"
  /\ task' = FinishAttempt(h.msg, h.attempt, h.how) \o Tail(task)
  /\ UNCHANGED <<up, durable, volatile, reach, boot, history, used>>

(* prepare_outbound_stamp: one worker, which a message keeps until its stamp
   is found or fails, or the message is cancelled.  A stamp made from a ticket
   takes no work. *)
Available(m) ==
  job.done \/ job.msg \in {NULL, m} \cup {o \in Messages : meta[o].reason = "CANCELLED"}
Stamp ==
  LET m == Head(task).msg
      mine == IF job.msg = m THEN job ELSE NoJob
      Stop(state) ==
        task' = <<SaveMeta(m, [meta[m] EXCEPT !.reason = "STAMP"], "RETURN"),
                  SaveStatus(m, state, "RETURN")>>
  IN
  /\ task # <<>> /\ Head(task).op = "stamp"
  /\ \/ m \notin Costly /\ task' = Tail(task) /\ UNCHANGED <<job, used>>
     \/ m \in Costly /\ ~Available(m) /\ Stop("QUEUED") /\ UNCHANGED <<job, used>>
     \/ /\ m \in Costly /\ Available(m) /\ job' \in {NoJob, [msg |-> m, done |-> TRUE]}
        /\ task' = Tail(task) /\ UNCHANGED used
     \/ /\ m \in Costly /\ Available(m) /\ ~mine.done /\ job' = [msg |-> m, done |-> FALSE]
        /\ Stop("QUEUED") /\ Use("waits")
     \/ /\ m \in Costly /\ Available(m) /\ job' \in {mine, NoJob}
        /\ Stop("FAILED") /\ Use("faults")
  /\ UNCHANGED <<up, durable, slots, upload, sync, reach, boot, history>>

(* send_direct, send_with_receipt: a packet or a resource leaves, or the
   message waits for a path or a link, as often as there is none, or for a
   free slot, or the send fails. *)
Send ==
  LET h == Head(task)
      m == h.msg
      Leave(kind, d) ==
        /\ slots' = slots \cup {[msg |-> m, attempt |-> h.val.attempts, kind |-> kind]}
        /\ wire' = [wire EXCEPT ![m] = @ \cup {h.val.attempts}]
        /\ again' = IF h.val.attempts \in wire[m] THEN again \cup {m} ELSE again
        /\ task' = <<SaveMeta(m, d, "ERROR")>>
                     \o (IF kind = "RECEIPT" THEN <<SaveStatus(m, "SENT", "ERROR")>> ELSE <<>>)
        /\ UNCHANGED used
      Defer(reason) ==
        /\ task' = <<SaveMeta(m, [Uncounted(h.val) EXCEPT !.reason = reason], "RETURN"),
                     SaveStatus(m, "QUEUED", "CONTINUE")>>
        /\ UNCHANGED <<slots, wire, again>>
      Full(kind) == Cardinality({s \in slots : s.kind = kind}) >= MaxSlots
  IN
  /\ task # <<>> /\ h.op = "send"
  /\ \/ ~Full("RECEIPT") /\ Leave("RECEIPT", [h.val EXCEPT !.proof = TRUE])
     \/ /\ ~Full("RECEIPT") /\ ~Full("RESOURCE") /\ Method[m] = "DIRECT"
        /\ Leave("RESOURCE", [h.val EXCEPT !.proof = TRUE, !.reason = "RESOURCE"])
     \/ Defer("LINK") /\ UNCHANGED used
     \/ Full("RECEIPT") /\ Defer("RETRY_BACKOFF") /\ UNCHANGED used
     \/ /\ ~Full("RECEIPT") /\ Full("RESOURCE") /\ Method[m] = "DIRECT"
        /\ Defer("RESOURCE") /\ UNCHANGED used
     \/ task' = FailAttempt(m, h.val) /\ Use("faults") /\ UNCHANGED <<slots, wire, again>>
  /\ UNCHANGED <<up, durable, job, upload, sync, reach, boot, got, cancelled>>

----------------------------------------------------------------------------
(* The message reaches the recipient, whether or not the proof comes back. *)
Arrive(m) ==
  /\ wire[m] # {} /\ m \notin got /\ got' = got \cup {m}
  /\ UNCHANGED <<up, durable, task, volatile, reach, boot, wire, again, cancelled, used>>

(* receipt_changed and resource_changed. *)
Proven(s) ==
  /\ Idle /\ s \in slots /\ s.msg \in got /\ slots' = slots \ {s}
  /\ task' = IF s.kind = "RECEIPT"
             THEN <<SaveMeta(s.msg, [meta[s.msg] EXCEPT !.reason = "NONE"], "CONTINUE"),
                    SaveStatus(s.msg, "DELIVERED", "CONTINUE")>>
             ELSE <<SaveMeta(s.msg, [meta[s.msg] EXCEPT !.reason = "NONE", !.proof = TRUE],
                             "CONTINUE"),
                    SaveStatus(s.msg, "SENT", "CONTINUE"),
                    SaveStatus(s.msg, "DELIVERED", "CONTINUE")>>
  /\ UNCHANGED <<up, durable, job, upload, sync, reach, boot, history, used>>

(* The receipt or transfer times out or fails, or the peer rejects it. *)
Unproven(s) ==
  /\ Idle /\ s \in slots /\ slots' = slots \ {s}
  /\ \E how \in IF s.kind = "RESOURCE" THEN {"RETRY", "REJECT"} ELSE {"RETRY"} :
       task' = FinishAttempt(s.msg, s.attempt, how)
  /\ UNCHANGED <<up, durable, job, upload, sync, reach, boot, history, used>>

Transferring(s) ==
  /\ Idle /\ s \in slots /\ s.kind = "RESOURCE"
  /\ task' = <<SaveMeta(s.msg, [meta[s.msg] EXCEPT !.reason = "RESOURCE"], "CONTINUE")>>
  /\ meta[s.msg].reason # "RESOURCE" /\ Use("waits")
  /\ UNCHANGED <<up, durable, volatile, reach, boot, history>>

----------------------------------------------------------------------------
(* propagation_begin, propagation_poll, propagation_fail: the propagation
   slot finds a stamp of its own, opens a session and uploads.  A session that
   fails to start stands for a failed stamp job too. *)
Begin ==
  LET m == Head(task).msg IN
  /\ task # <<>> /\ Head(task).op = "begin"
  /\ \/ /\ upload' = [msg |-> m, attempt |-> meta[m].attempts + 1, phase |-> "STAMP"]
        /\ task' = <<SaveMeta(m, [meta[m] EXCEPT !.reason = "STAMP"], "RETURN")>>
        /\ UNCHANGED used
     \/ /\ task' = <<SaveMeta(m, [meta[m] EXCEPT !.reason = "RETRY_BACKOFF"], "RETURN")>>
        /\ Use("faults") /\ UNCHANGED upload
  /\ UNCHANGED <<up, durable, slots, job, sync, reach, boot, history>>

PropagationFail_Held ==
  LET m == upload.msg
      over == upload.attempt >= Limit
      d == [meta[m] EXCEPT !.attempts = upload.attempt, !.retry = IF over THEN 0 ELSE boot,
                           !.reason = IF over THEN "RETRY_EXHAUSTED" ELSE "RETRY_BACKOFF"]
  IN <<SaveStatus(m, IF over THEN "FAILED" ELSE "QUEUED", "CONTINUE"), SaveMeta(m, d, "CONTINUE")>>
PropagationFail ==
  LET m == upload.msg
      over == upload.attempt >= Limit
      d == [meta[m] EXCEPT !.attempts = upload.attempt, !.retry = IF over THEN 0 ELSE boot,
                           !.reason = IF over THEN "RETRY_EXHAUSTED" ELSE "RETRY_BACKOFF"]
  IN <<SaveStatus(m, IF over THEN "FAILED" ELSE "QUEUED", "CONTINUE"),
       SaveMeta(m, d, "CONTINUE"), Step("clear", m)>>

PollStamp ==
  LET m == upload.msg
      d == [meta[m] EXCEPT !.reason = "STAMP"]
  IN
  /\ Idle /\ upload.phase = "STAMP"
  /\ \/ task' = <<SaveMeta(m, d, "CONTINUE")>> /\ Use("waits")
     \/ task' = <<SaveMeta(m, d, "CONTINUE"), Step("session", m)>> /\ UNCHANGED used
  /\ UNCHANGED <<up, durable, volatile, reach, boot, history>>

StartSession ==
  LET m == upload.msg IN
  /\ task # <<>> /\ Head(task).op = "session"
  /\ \/ /\ upload' = [upload EXCEPT !.phase = "SESSION"]
        /\ task' = <<SaveMeta(m, [meta[m] EXCEPT !.reason = "PROPAGATION_NODE",
                                    !.attempts = upload.attempt], "CONTINUE")>>
        /\ UNCHANGED used
     \/ task' = PropagationFail /\ Use("faults") /\ UNCHANGED upload
  /\ UNCHANGED <<up, durable, slots, job, sync, reach, boot, history>>

PollUpload ==
  LET m == upload.msg IN
  /\ Idle /\ upload.phase \in {"SESSION", "UPLOAD"}
  /\ upload' = [upload EXCEPT !.phase = "UPLOAD"]
  /\ wire' = [wire EXCEPT ![m] = @ \cup {upload.attempt}]
  /\ again' = IF upload.phase = "SESSION" /\ upload.attempt \in wire[m]
              THEN again \cup {m} ELSE again
  /\ task' = <<SaveMeta(m, [meta[m] EXCEPT !.reason = "RESOURCE"], "CONTINUE"),
               SaveStatus(m, "SENDING", "CONTINUE")>>
  /\ upload.phase = "UPLOAD" => <<meta[m].reason, status[m]>> # <<"RESOURCE", "SENDING">>
  /\ UNCHANGED <<up, durable, slots, job, sync, reach, boot, got, cancelled, used>>

(* The finished upload is kept until both writes succeed. *)
PollComplete_AnyEnd ==
  LET m == upload.msg IN
  /\ Idle /\ upload.phase \in {"UPLOAD", "DONE"}
  /\ upload' = [upload EXCEPT !.phase = "DONE"]
  /\ task' = <<SaveMeta(m, [meta[m] EXCEPT !.reason = "NONE", !.retry = 0,
                              !.attempts = upload.attempt], "RETURN"),
               SaveStatus(m, "SENT", "RETURN"), Step("clear", m)>>
  /\ UNCHANGED <<up, durable, slots, job, sync, reach, boot, history, used>>
PollComplete ==
  LET m == upload.msg IN
  /\ Idle /\ upload.phase \in {"UPLOAD", "DONE"} /\ m \in got
  /\ upload' = [upload EXCEPT !.phase = "DONE"]
  /\ task' = <<SaveMeta(m, [meta[m] EXCEPT !.reason = "NONE", !.retry = 0,
                              !.attempts = upload.attempt], "RETURN"),
               SaveStatus(m, "SENT", "RETURN"), Step("clear", m)>>
  /\ UNCHANGED <<up, durable, slots, job, sync, reach, boot, history, used>>

PollFailed ==
  /\ Idle /\ upload.phase \in {"SESSION", "UPLOAD"} /\ task' = PropagationFail
  /\ UNCHANGED <<up, durable, volatile, reach, boot, history, used>>

Clear ==
  /\ task # <<>> /\ Head(task).op = "clear"
  /\ upload' = NoUpload /\ task' = Tail(task)
  /\ UNCHANGED <<up, durable, slots, job, sync, reach, boot, history, used>>

(* lxmf_router_propagation_sync_start, _cancel, propagation_sync_poll. *)
SyncStart ==
  /\ Idle /\ has_node /\ sync = "IDLE" /\ Use("syncs")
  /\ sync' = IF upload.phase = "FREE" THEN "ACTIVE" ELSE "WAITING"
  /\ UNCHANGED <<up, durable, task, slots, job, upload, reach, boot, history>>
SyncTurn ==
  /\ Idle /\ sync = "WAITING" /\ upload.phase = "FREE" /\ sync' = "ACTIVE"
  /\ UNCHANGED <<up, durable, task, slots, job, upload, reach, boot, history, used>>
SyncEnd ==
  /\ Idle /\ sync = "ACTIVE" /\ sync' = "IDLE"
  /\ UNCHANGED <<up, durable, task, slots, job, upload, reach, boot, history, used>>
SyncCancel ==
  /\ Idle /\ sync # "IDLE" /\ sync' = "IDLE" /\ Use("cancels")
  /\ UNCHANGED <<up, durable, task, slots, job, upload, reach, boot, history>>

----------------------------------------------------------------------------
(* lxmf_router_cancel_message. *)
CancelSteps(m, d, last) ==
  <<SaveMeta(m, d, "RETURN"), SaveStatus(m, "FAILED", "RETURN"), last, Step("confirm", m)>>
Cancel(m) ==
  LET d == [meta[m] EXCEPT !.reason = "CANCELLED"]
      Cancellable == \/ status[m] \in {"QUEUED", "FAILED", "SENDING"}
                     \/ status[m] = "SENT" /\ meta[m].proof
  IN
  /\ Idle /\ Use("cancels")
  /\ \/ /\ upload.msg = m
        /\ task' = CancelSteps(m, [d EXCEPT !.retry = 0], Step("clear", m))
     \/ /\ upload.msg # m /\ meta[m].reason = "STAMP"
        /\ task' = CancelSteps(m, d, Step("release", m))
     \/ /\ upload.msg # m /\ meta[m].reason # "STAMP" /\ Cancellable
        /\ task' = CancelSteps(m, [d EXCEPT !.retry = 0, !.proof = FALSE], Step("drop", m))
  /\ UNCHANGED <<up, durable, volatile, reach, boot, history>>

Release ==
  /\ task # <<>> /\ Head(task).op = "release"
  /\ job' = IF job.msg = Head(task).msg THEN NoJob ELSE job
  /\ task' = Tail(task)
  /\ UNCHANGED <<up, durable, slots, upload, sync, reach, boot, history, used>>

(* One live transfer or receipt of the message is cancelled with it. *)
Drop ==
  LET m == Head(task).msg
      live == {s \in slots : s.msg = m}
  IN
  /\ task # <<>> /\ Head(task).op = "drop"
  /\ \/ live = {} /\ task' = Tail(task) /\ UNCHANGED slots
     \/ \E s \in live :
          /\ s.kind = "RESOURCE" \/ \A t \in live : t.kind = "RECEIPT"
          /\ slots' = slots \ {s}
          /\ task' = FinishAttempt(m, s.attempt, "CANCEL") \o Tail(task)
  /\ UNCHANGED <<up, durable, job, upload, sync, reach, boot, history, used>>

Confirm ==
  /\ task # <<>> /\ Head(task).op = "confirm"
  /\ cancelled' = cancelled \cup {Head(task).msg} /\ task' = Tail(task)
  /\ UNCHANGED <<up, durable, volatile, reach, boot, wire, again, got, used>>

----------------------------------------------------------------------------
(* The process stops (a crash, or lxmf_router_destroy) and starts again. *)
Crash ==
  /\ up /\ (Torn \/ task = <<>>)
  /\ Use("crashes") /\ up' = FALSE /\ task' = <<>> /\ boot' = boot + 1
  /\ slots' = {} /\ job' = NoJob /\ upload' = NoUpload /\ sync' = "IDLE"
  /\ UNCHANGED <<durable, reach, history>>

(* recover_interrupted. *)
Interrupted_Proven(m) == status[m] = "SENDING" \/ meta[m].proof
Interrupted(m) == status[m] = "SENDING" \/ (status[m] = "SENT" /\ meta[m].proof)
StaleBackoff_Never(m) == FALSE
StaleBackoff(m) == status[m] = "QUEUED" /\ meta[m].reason = "RETRY_BACKOFF" /\ meta[m].retry # 0

Recovery(m) ==
  LET over == meta[m].attempts >= Limit
      d == [meta[m] EXCEPT !.proof = FALSE, !.retry = IF over THEN 0 ELSE boot,
                           !.reason = IF over THEN "RETRY_EXHAUSTED" ELSE "RETRY_BACKOFF"]
      timedOut == meta[m].reason = "IDENTITY_TIMEOUT" /\ status[m] = "QUEUED"
      discovery == /\ meta[m].reason = "PEER_IDENTITY" /\ meta[m].retry # 0
                   /\ status[m] \in {"QUEUED", "FAILED"}
  IN CASE timedOut -> <<SaveStatus(m, "FAILED", "ABORT")>>
       [] discovery -> <<SaveMeta(m, [meta[m] EXCEPT !.retry = 0], "ABORT")>>
       [] ~timedOut /\ ~discovery /\ (Interrupted(m) \/ StaleBackoff(m)) ->
            <<SaveMeta(m, d, "ABORT"), SaveStatus(m, IF over THEN "FAILED" ELSE "QUEUED", "ABORT")>>
       [] OTHER -> <<>>

(* lxmf_router_init. *)
Start ==
  /\ ~up /\ up' = TRUE
  /\ task' = FlattenSeq([i \in 1 .. Cardinality(Messages) |-> Recovery(SetToSeq(Messages)[i])])
  /\ UNCHANGED <<durable, volatile, reach, boot, history, used>>

(* The recipient's announce is heard. *)
Learn(m) ==
  /\ m \notin known /\ known' = known \cup {m} /\ UNCHANGED has_node
  /\ UNCHANGED <<up, durable, task, volatile, boot, history, used>>

(* lxmf_router_set_propagation_node: refused while an upload or a sync runs. *)
SetNode ==
  /\ Idle /\ upload.phase = "FREE" /\ sync = "IDLE" /\ has_node' = ~has_node
  /\ UNCHANGED <<up, durable, task, volatile, known, boot, history, used>>

----------------------------------------------------------------------------
RunTask == Write \/ RunFinish \/ Stamp \/ Send \/ Begin \/ StartSession \/ Clear
             \/ Release \/ Drop \/ Confirm
PollUploads == PollStamp \/ PollUpload \/ PollComplete \/ PollFailed

Next ==
  \/ \E m \in Messages : Poll(m) \/ Resend(m) \/ Cancel(m) \/ Arrive(m) \/ Learn(m)
  \/ \E s \in slots : Proven(s) \/ Unproven(s) \/ Transferring(s)
  \/ RunTask \/ FailWrite \/ PollUploads
  \/ SyncStart \/ SyncTurn \/ SyncEnd \/ SyncCancel \/ SetNode \/ Crash \/ Start

Spec == Init /\ [][Next]_vars

(* The application polls the router, which visits the pending messages in
   turn; receipts, transfers, sessions and identity deadlines time out; a
   router that stopped is started again. *)
Concludes ==
  \/ \E s \in slots : Proven(s) \/ Unproven(s)
  \/ PollUploads /\ UNCHANGED used
  \/ SyncTurn \/ SyncEnd
Fairness ==
  /\ WF_vars(RunTask) /\ WF_vars(Start) /\ SF_vars(Concludes)
  /\ \A m \in Messages : SF_vars(Poll(m) /\ ~Blocked(m))
  /\ \A m \in Unknown : SF_vars(Poll(m) /\ task' = DiscoveryOver(m))
FairSpec == Spec /\ Fairness

----------------------------------------------------------------------------
(* Every variable has its type. *)
TypeOK ==
  /\ up \in BOOLEAN /\ status \in [Messages -> Statuses] /\ meta \in [Messages -> Metadata]
  /\ slots \subseteq [msg : Messages, attempt : Nat, kind : {"RECEIPT", "RESOURCE"}]
  /\ job \in [msg : Messages \cup {NULL}, done : BOOLEAN]
  /\ upload \in [msg : Messages \cup {NULL}, attempt : Nat,
                phase : {"FREE", "STAMP", "SESSION", "UPLOAD", "DONE"}]
  /\ sync \in {"IDLE", "WAITING", "ACTIVE"} /\ has_node \in BOOLEAN /\ known \subseteq Messages /\ boot \in Nat
  /\ \A i \in DOMAIN task : task[i].msg \in Messages

(* What router_send.c says of the attempt it records before it sends: a crash
   "can no longer repeat an on-wire attempt without accounting for it".  No
   two transmissions of a message under one budget have the same number; of an
   upload, whose number is saved after the session starts, as long as no write
   or send failed. *)
AttemptsAccounted == \A m \in again : Method[m] = "PROPAGATED" /\ used.faults > 0

(* A direct or opportunistic message leaves at most Limit times until the user
   sends it again, however often the router is restarted, as long as no write
   or send failed. *)
WithinBudget ==
  used.faults = 0 =>
    \A m \in Messages : Method[m] # "PROPAGATED" => Cardinality(wire[m]) <= Limit

(* The status told to the user is true: a message is DELIVERED only if its
   recipient has it, and a propagated message SENT only if the node has it. *)
DeliveredIsTrue ==
  \A m \in Messages :
    status[m] = "DELIVERED" \/ (status[m] = "SENT" /\ Method[m] = "PROPAGATED") => m \in got

(* Between handlers, a message on its way (SENDING, or SENT and not proven)
   has one receipt, transfer or upload, of its current attempt, that will
   conclude it, and nothing else is waited for, as long as no write or send
   failed. *)
OnItsWay(m) == status[m] = "SENDING" \/ (status[m] = "SENT" /\ meta[m].proof)
Owned ==
  Idle /\ used.faults = 0 =>
    /\ \A m \in Messages :
         OnItsWay(m) => upload.msg = m \/ Cardinality({s \in slots : s.msg = m}) = 1
    /\ \A s \in slots : OnItsWay(s.msg) /\ s.attempt = meta[s.msg].attempts

(* lxmf_store.h: "Explicit user cancellation; automatic polling must not
   retry."  A message whose cancellation returned LXMF_OK is never pending, as
   long as no write or send failed: after a failed one two attempts of it may be
   live, of which lxmf_router_cancel_message drops one. *)
CancelledStays == used.faults = 0 => \A m \in cancelled : ~Pending(m)

(* A sync never runs beside an upload: they share the propagation node. *)
OneSession == ~(sync = "ACTIVE" /\ upload.phase # "FREE")

(* The user is told the truth, and attempts, owners and sessions are accounted
   for (the above). *)
SendsSound ==
  TypeOK /\ DeliveredIsTrue /\ AttemptsAccounted /\ WithinBudget /\ Owned /\ OneSession

(* What the user was told stays: a message that was cancelled, as above, and no
   late timeout, cancellation or recovery takes DELIVERED back, as long as no
   write or send failed. *)
VerdictsStay ==
  [][/\ CancelledStays'
     /\ used.faults = 0 =>
          \A m \in Messages : status[m] = "DELIVERED" => status'[m] = "DELIVERED"]_vars

(* Every message ends: proven, given up on, or with the propagation node.  A
   message to a known recipient that no path or link leads to has no deadline,
   nor one that waits for a propagation node to be configured: it is deferred,
   its attempt given back (lxmf_router_send_message), for as long as that lasts.
   If its stamp was being worked on, so does every other message that needs
   one, as the one worker stays with it (prepare_outbound_stamp). *)
Settled(m) ==
  \/ status[m] = "DELIVERED" \/ (status[m] = "FAILED" /\ meta[m].reason \in Terminal)
  \/ status[m] = "SENT" /\ Method[m] = "PROPAGATED"
Deferred(m) ==
  /\ task # <<>> /\ Head(task).op = "send" /\ Head(task).msg = m
  /\ task' # <<>> /\ Head(task').op = "meta" /\ Head(task').val.reason = "LINK"
Starved(m) == m \in Costly /\ job.msg # NULL /\ Nodeless(job.msg)
EventuallySettled ==
  \A m \in Messages :
    []<><<Deferred(m)>>_vars \/ []<>(Nodeless(m) \/ Starved(m)) \/ <>[]Settled(m)

(* A sync accepted while an upload is under way has its turn after it. *)
SyncHasItsTurn == sync = "WAITING" ~> sync # "WAITING"
=============================================================================
