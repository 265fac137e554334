--------------------------- MODULE MCPushDelivery ---------------------------
(* Instances of PushDelivery for TLC: configs and workers are model values, *)
(* interchangeable in the safety runs.                                      *)
EXTENDS PushDelivery, TLC

Interchangeable == Permutations(Configs) \cup Permutations(Workers)
=============================================================================
