----------------------------- MODULE MCDelivery -----------------------------
(***************************************************************************)
(* Instances of Delivery.  Each message is named by how it is sent.        *)
(***************************************************************************)
EXTENDS Delivery

One == {"direct"}
Mixed == {"direct", "upload"}
Shared == {"packet", "upload"}

MCMethod ==
  [m \in Messages |-> CASE m = "direct" -> "DIRECT"
                        [] m = "packet" -> "OPPORTUNISTIC"
                        [] OTHER -> "PROPAGATED"]

(* The router is left to do its work: no write or send fails, and nobody
   cancels or sends again. *)
Undisturbed == \A what \in {"faults", "cancels", "resends"} : used'[what] = 0
UndisturbedSpec == Init /\ [][Next /\ Undisturbed]_vars /\ Fairness
=============================================================================
