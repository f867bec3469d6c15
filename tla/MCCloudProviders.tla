---------------------------- MODULE MCCloudProviders ----------------------------
(* Model checking of CloudProviders: two CIResources in a pool whose       *)
(* machines are cleaned, one in a fallback pool; no symmetry, for GetsReady. *)
EXTENDS CloudProviders

CONSTANTS hosts, spare, c1, c2, c3, m1, m2, m3, m4, m5

MCPoolOf == [c \in CIRs |-> IF c \in Fallback THEN spare ELSE hosts]
MCTagOf == [m \in Machines |-> IF m \in {m4, m5} THEN spare ELSE hosts]
MCSize == [p \in Pools |-> IF p = spare THEN 1 ELSE 2]
=============================================================================
