------------------------ MODULE MCBridgeMembership -------------------------
(* Model-checking instance of BridgeMembership: two caller threads, two   *)
(* bridges, two ports.                                                     *)
EXTENDS BridgeMembership
=============================================================================
