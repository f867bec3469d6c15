----------------------- MODULE MCCIResourceController -----------------------
(* Model checking of CIResourceController.  Instances are interchangeable, *)
(* and so are CIResources.                                                 *)
EXTENDS CIResourceController, TLC

Symmetry == Permutations(Instances) \union Permutations(CIRs)
=============================================================================
