------------------------------ MODULE MCBrowser ------------------------------
(***************************************************************************)
(* A small instance of Browser: two pages of one node, a cache that holds  *)
(* one of them.                                                            *)
(***************************************************************************)
EXTENDS Browser

TwoPages == {"p", "q"}
OneNode == [u \in TwoPages |-> "n"]
UnitSize == [u \in TwoPages |-> 1]
==============================================================================
