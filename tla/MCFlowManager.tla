--------------------------- MODULE MCFlowManager ----------------------------
(* Two connections, two contacts and two addresses of record.              *)
EXTENDS FlowManager

MCLifetimes == {1}  \* beside the missing one, which counts as 0
=============================================================================
