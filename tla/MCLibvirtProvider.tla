--------------------------- MODULE MCLibvirtProvider ---------------------------
(* Model checking of LibvirtProvider; no symmetry, for the liveness.       *)
EXTENDS LibvirtProvider

CONSTANTS c1, c2
=============================================================================
