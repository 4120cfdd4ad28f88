---------------------------- MODULE MCCentralApi ----------------------------
(***************************************************************************)
(* CentralApi on a small instance.  Experiments, salts and handlers are    *)
(* only compared for equality, so any permutation of each is a symmetry.   *)
(***************************************************************************)
EXTENDS CentralApi, TLC

ApiSymmetry ==
    Permutations(ExperimentIDs) \cup Permutations(Handlers) \cup Permutations(Salts)
=============================================================================
