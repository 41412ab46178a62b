---------------------------- MODULE MCEventFanout ----------------------------
(***************************************************************************)
(* An instance of EventFanout for TLC: the receiver task and a sender of   *)
(* messages, three webhooks of which two may be called at once, and a      *)
(* client that filters and wants three events of one task.  One client is  *)
(* enough: nothing relates two of them but the order in which a broadcast  *)
(* visits them.                                                            *)
(***************************************************************************)
EXTENDS EventFanout, TLC

CONSTANTS receiver, sender, subscriber

TwoKinds == {"delivery", "outgoing"}
TwoPrograms == (receiver :> <<"delivery", "delivery", "delivery">>) @@ (sender :> <<"outgoing">>)
ThreeWebhooks == <<{"outgoing"}, {"delivery", "outgoing"}, {"outgoing"}>>
Filter == subscriber :> {"delivery"}
=============================================================================
