----------------------------- MODULE MCMessages -----------------------------
(***************************************************************************)
(* Instances of the message router: sending (Delivery) and receiving       *)
(* (Inbox).  A behaviour exercises one of them, named by part; the other   *)
(* rests in its initial state.                                             *)
(***************************************************************************)
EXTENDS MCDelivery, MCInbox

VARIABLE part

(* m1 is forged, or it lacks its stamp. *)
OneFault == {f \in OneBad : f[m1].genuine # f[m1].stamped}

MessagesInit ==
  /\ part \in {"sending", "receiving"} /\ Init /\ InboxInit
  /\ priced <=> mail[m1].genuine
  /\ part = "sending" => ~priced

SendingNext == part = "sending" /\ Next /\ UNCHANGED <<part, inboxVars>>

ReceivingNext == part = "receiving" /\ InboxNext /\ UNCHANGED <<part, vars>>

MessagesSpec ==
  MessagesInit /\ [][SendingNext \/ ReceivingNext]_<<part, vars, inboxVars>>

=============================================================================
