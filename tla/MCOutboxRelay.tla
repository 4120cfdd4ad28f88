--------------------------- MODULE MCOutboxRelay ---------------------------
(***************************************************************************)
(* OutboxRelay on small instances.  Experiments, handlers, salts and       *)
(* workers are only compared for equality.                                 *)
(***************************************************************************)
EXTENDS OutboxRelay, TLC

RelaySymmetry ==
    Permutations(ExperimentIDs) \cup Permutations(Handlers)
        \cup Permutations(Salts) \cup Permutations(Workers)
=============================================================================
