----------------------------- MODULE MCPlatform -----------------------------
(***************************************************************************)
(* Platform on small instances.                                            *)
(***************************************************************************)
EXTENDS Platform, TLC

Body(layer, status) == [layer_id |-> layer, status |-> status]

Running == {Body("sorting_layer", "ACTIVE")}

Stoppable == Running \cup {Body("sorting_layer", "PAUSED")}

Movable == Stoppable \cup {Body("other_layer", "ACTIVE")}

\* Bound: changes beside snapshot-initial.json, which hides all other objects.
MaxChangesBesideInitial == 2

FewChangesBesideInitial ==
    InitialSnapshot \in bucket => Cardinality(committed) <= MaxChangesBesideInitial

Symm == Permutations(ExperimentIDs)
=============================================================================
