--------------------------- MODULE ExperimentTable ---------------------------
(***************************************************************************)
(* What central-api promises about its two tables, whatever requests       *)
(* overlap: each COMMIT is one change of one experiment, an event is       *)
(* recorded for it, and the row and the event change together.             *)
(*                                                                         *)
(* CentralApi implements this (TableRefinement); Platform builds on it.    *)
(***************************************************************************)
EXTENDS Naturals

CONSTANT Change     \* records with event_type, payload (id, salt, status ...)
                    \* and created_at

VARIABLES
    experiments,    \* the rows
    committed       \* the changes committed so far

tableVars == <<experiments, committed>>

Of(id) == {e \in committed : e.payload.id = id}

\* e comes after every change of its experiment.
IsNewest(e) == \A f \in Of(e.payload.id) : f.created_at < e.created_at

Deleted(id) == \E d \in Of(id) : d.event_type = "DELETE"

TableInit ==
    /\ experiments = {}
    /\ committed = {}

\* A first version: the row is added.
Insert(e) ==
    /\ e.event_type = "UPSERT"
    /\ Of(e.payload.id) = {}
    /\ experiments' = experiments \cup {e.payload}

\* A new version of a row that is there, with its salt.
Replace(e) ==
    /\ e.event_type = "UPSERT"
    /\ IsNewest(e)
    /\ \E row \in experiments :
        /\ row.id = e.payload.id
        /\ row.salt = e.payload.salt
        /\ experiments' = (experiments \ {row}) \cup {e.payload}

\* An update that came too late: its row is gone, and the change is recorded
\* for nothing.
Stray(e) ==
    /\ e.event_type = "UPSERT"
    /\ Deleted(e.payload.id)
    /\ UNCHANGED experiments

\* The row is removed.
Remove(e) ==
    /\ e.event_type = "DELETE"
    /\ IsNewest(e)
    /\ \E row \in experiments :
        /\ row.id = e.payload.id
        /\ experiments' = experiments \ {row}

Record(e) ==
    /\ e \notin committed
    /\ Insert(e) \/ Replace(e) \/ Stray(e) \/ Remove(e)
    /\ committed' = committed \cup {e}

TableNext == \E e \in committed' : e \in Change /\ Record(e)

TableSpec == TableInit /\ [][TableNext]_tableVars
=============================================================================
