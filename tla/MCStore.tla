------------------------------ MODULE MCStore -------------------------------
EXTENDS Store

CONSTANTS m1, m2, m3, m4, m5, A, B, C

TwoMessages == (m1 :> A) @@ (m2 :> B)
ThreeMessages == TwoMessages @@ (m3 :> A)
(* Two senders with two messages and one with one. *)
Flood == (m1 :> A) @@ (m2 :> A) @@ (m3 :> B) @@ (m4 :> B) @@ (m5 :> C)
=============================================================================
