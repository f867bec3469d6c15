-------------------------- MODULE MCCIPoolController --------------------------
(* Model checking of CIPoolController: pools are interchangeable.          *)
EXTENDS CIPoolController, TLC

Symmetry == Permutations(Pools)
=============================================================================
