------------------------------ MODULE MCOfcirAPI ------------------------------
(* Model checking of OfcirAPI: pools of priority 0 and 1 and a fallback    *)
(* pool.  The token of k1 is good for all of them, that of any other       *)
(* client for the first and the fallback pool.                             *)
EXTENDS OfcirAPI

CONSTANTS first, second, spare, k1, k2

MCPriority == [p \in Pools |-> CASE p = first -> 0 [] p = second -> 1 [] p = spare -> -1]
MCAuthorized == [k \in Clients |-> IF k = k1 THEN Pools ELSE {first, spare}]
MCOfType == [k \in Clients |-> Pools]
=============================================================================
