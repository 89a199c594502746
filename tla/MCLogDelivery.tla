---------------------------- MODULE MCLogDelivery ----------------------------
(***************************************************************************)
(* Instances of LogDelivery for TLC.                                       *)
(***************************************************************************)
EXTENDS LogDelivery

MCEvents      == 0 .. MaxLogs
MCPeer        == [h \in Handlers |-> 0]
MCGarbage     == {0, 2}
MCMisread     == {0, 2}
NoRestart     == {}
BenignOnly    == {"benign"}
BenignDrained == {"benign", "drained"}
=============================================================================
