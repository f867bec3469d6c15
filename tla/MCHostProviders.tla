---------------------------- MODULE MCHostProviders ----------------------------
(* Model checking of HostProviders; no symmetry, for GetsReady.            *)
EXTENDS HostProviders

CONSTANTS c1, c2, c3
=============================================================================
