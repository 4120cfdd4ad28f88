----------------------------- MODULE MCSdkClient -----------------------------
(***************************************************************************)
(* SdkClient on small instances.                                           *)
(***************************************************************************)
EXTENDS SdkClient, TLC

CONSTANTS e1, e2

Version(id, layer, version) ==
    [id |-> id, layer_id |-> layer, config_version |-> version]

\* Two experiments of one layer.  The first is changed twice: the second change
\* stays in the layer, the last one leaves it for a layer the client does not
\* ask for; then it is deleted.
MCPayloads ==
    {Version(e1, "sorting_layer", 1), Version(e2, "sorting_layer", 2),
     Version(e1, "sorting_layer", 3), Version(e1, "other_layer", 4),
     Version(e1, "", 0)}

\* Two experiments of one layer.
MCTwoVersions ==
    {Version(e1, "sorting_layer", 1), Version(e2, "sorting_layer", 2)}
=============================================================================
