--------------------------- MODULE MCPolicyReload ---------------------------
(* PolicyReload for TLC: MCPolicyReload.cfg gives it two organisations, as *)
(* model values, and bounds.                                               *)
EXTENDS PolicyReload
=============================================================================
