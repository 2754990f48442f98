---------------------------- MODULE ChannelFifo ----------------------------
(***************************************************************************)
(* What a channel promises its users: messages are submitted in order,     *)
(* reach the receiver in any order, are handed over in the order of        *)
(* submission without gaps or repeats, and are confirmed to the sender     *)
(* only once they have reached the receiver.                               *)
(***************************************************************************)
EXTENDS Integers

VARIABLES
  sent,        \* messages submitted: 0 .. sent - 1
  handed,      \* messages handed over: 0 .. handed - 1
  held,        \* messages that reached the receiver and wait their turn
  confirmed    \* messages reported as delivered to the sender

vars == <<sent, handed, held, confirmed>>

Init == sent = 0 /\ handed = 0 /\ held = {} /\ confirmed = {}

Submit == sent' = sent + 1 /\ UNCHANGED <<handed, held, confirmed>>

(* A message arrives for the first time; n messages are then in turn. *)
Arrive(m, n) ==
  /\ m \in handed .. sent - 1 /\ m \notin held
  /\ handed .. handed + n - 1 \subseteq held \cup {m}
  /\ handed' = handed + n
  /\ held' = (held \cup {m}) \ (handed .. handed + n - 1)
  /\ UNCHANGED <<sent, confirmed>>

Confirm(m) ==
  /\ m \notin confirmed
  /\ m \in held \/ m < handed
  /\ confirmed' = confirmed \cup {m}
  /\ UNCHANGED <<sent, handed, held>>

Next ==
  \/ Submit
  \/ \E m \in handed .. sent - 1 : \E n \in 0 .. sent - handed : Arrive(m, n)
  \/ \E m \in 0 .. sent - 1 : Confirm(m)

Spec == Init /\ [][Next]_vars
=============================================================================
