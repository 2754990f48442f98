------------------------------ MODULE MCInbox ------------------------------
(* An instance of Inbox: a message that may be forged or lack its stamp, and *)
(* a good one, of one sender.                                                *)
EXTENDS Inbox

CONSTANTS m1, m2

OneSender == [m \in Incoming |-> "a"]
OneBad == {f \in [Incoming -> [genuine : BOOLEAN, stamped : BOOLEAN]] :
             f[m2].genuine /\ f[m2].stamped}
=============================================================================
