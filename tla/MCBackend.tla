----------------------------- MODULE MCBackend -----------------------------
(* Instances of the C ABI for TLC: used through the gateway, or directly by
   another program ("absent"), which may also use an id twice. *)
EXTENDS NativeGateway

CONSTANT Uses     \* which of the two

MCInit == \E use \in Uses : GatewayInit(use)
MCNext ==
  \/ Serve /\ UNCHANGED gateway
  \/ gateway.state = "absent" /\ Use /\ UNCHANGED gateway
  \/ Main
MCSpec == MCInit /\ [][MCNext]_gvars /\ Fairness
MCSafe == MCInit /\ [][MCNext]_gvars
=============================================================================
