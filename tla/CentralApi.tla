----------------------------- MODULE CentralApi -----------------------------
(***************************************************************************)
(* central-api and the two PostgreSQL tables it owns: the handlers of      *)
(* internal/delivery/experiment_handler.go that change an experiment, the  *)
(* transactions of internal/platform/database/repository.go they run, and  *)
(* the tables `experiments' and `outbox' of init/postgres/init.sql.        *)
(*                                                                         *)
(* net/http runs one goroutine per request, so several requests interleave *)
(* at every database round trip.  The grain of this model is the           *)
(* statement: reading the row, drawing the version, the statement on       *)
(* `experiments', the statement on `outbox' and COMMIT are steps of their  *)
(* own.  PostgreSQL runs them at READ COMMITTED: a transaction's effect is *)
(* visible to the others from its COMMIT on, and an UPDATE or DELETE       *)
(* waits while another transaction holds the row.                          *)
(*                                                                         *)
(* A config_version (UUIDv7, a string) is its rank in the order in which   *)
(* this process generated it; 0 is the empty string, which sorts first.    *)
(* What a version says (targeting, variants, overrides, end time) is told  *)
(* apart by the version alone.                                             *)
(***************************************************************************)
EXTENDS Naturals

CONSTANTS
    ExperimentIDs,  \* the UUIDs an experiment can get
    Layers,         \* the layer_ids a request body can carry ("" if it has none)
    Statuses,       \* the statuses a request body can carry ("" if it has none)
    Salts,          \* the salts a body or uuid.NewString can supply
    Handlers,       \* the request goroutines that may be in flight at once
    MaxVersion,     \* bound: versions drawn in a behaviour
    MaxStamp        \* bound: created_at values drawn in a behaviour

ASSUME ConstantsAssumption ==
    /\ "" \notin ExperimentIDs
    /\ "" \notin Salts
    /\ MaxVersion \in Nat
    /\ MaxStamp \in Nat

VARIABLES
    experiments,    \* table experiments: a set of rows with unique id
    outbox,         \* table outbox: the events not yet removed by a worker
    committed,      \* history: every outbox event ever committed
    req,            \* req[h]: where handler h is, and its local variables
    lastVersion,    \* the newest version uuid.NewV7 returned
    lastStamp       \* the newest created_at time.Now returned

apiVars == <<experiments, outbox, committed, req, lastVersion, lastStamp>>

-----------------------------------------------------------------------------
(* The data.                                                               *)

\* A Go value of type ab_types.Experiment; every field may be its zero value.
Experiment ==
    [id             : ExperimentIDs \cup {""},
     layer_id       : Layers \cup {""},
     config_version : Nat,
     salt           : Salts \cup {""},
     status         : Statuses \cup {"", "DRAFT"}]

\* What `var exp ab_types.Experiment' holds, and what a decoder leaves
\* in the fields its JSON does not mention.
ZeroExperiment ==
    [id |-> "", layer_id |-> "", config_version |-> 0, salt |-> "", status |-> ""]

\* A row of `experiments': id, version and salt are never empty.
Row ==
    [id             : ExperimentIDs,
     layer_id       : Layers,
     config_version : Nat \ {0},
     salt           : Salts,
     status         : Statuses \cup {"DRAFT"}]

\* A row of `outbox'.  aggregate_id is payload.id; created_at, unique here,
\* stands for event_id too; processing_state is always 'PENDING'.
Event ==
    [event_type : {"UPSERT", "DELETE"},
     payload    : Experiment,
     created_at : Nat]

\* The locals of a handler.  pc names the last thing it did:
\*   found    read the row it will update     (FindExperimentByID)
\*   ready    has its version, no statement run yet
\*   executed ran its statement on `experiments' inside a transaction
\*   staged   ran its INSERT INTO outbox inside the same transaction
\* matched says that the statement affected a row, whose lock it then holds.
Request ==
    [pc         : {"idle", "found", "ready", "executed", "staged"},
     op         : {"none", "create", "update", "delete"},
     exp        : Experiment,
     matched    : BOOLEAN,
     created_at : Nat]

Idle ==
    [pc |-> "idle", op |-> "none", exp |-> ZeroExperiment,
     matched |-> FALSE, created_at |-> 0]

TypeOK ==
    /\ experiments \subseteq Row
    /\ outbox \subseteq committed
    /\ committed \subseteq Event
    /\ req \in [Handlers -> Request]
    /\ lastVersion \in Nat
    /\ lastStamp \in Nat

InTransaction(h) == req[h].pc \in {"executed", "staged"}

\* Some other transaction has changed the row and has not ended.
RowLocked(id, h) ==
    \E g \in Handlers \ {h} :
        InTransaction(g) /\ req[g].matched /\ req[g].exp.id = id

\* uuid.NewString returns an id nobody has.
UsedIDs == {e.payload.id : e \in committed} \cup {req[h].exp.id : h \in Handlers}

ApiInit ==
    /\ experiments = {}
    /\ outbox = {}
    /\ committed = {}
    /\ req = [h \in Handlers |-> Idle]
    /\ lastVersion = 0
    /\ lastStamp = 0

-----------------------------------------------------------------------------
(* The handlers.                                                           *)

\* POST /experiments up to the transaction: id, salt, version and the default
\* status.  The salt is the body's or, when that is empty, a generated one.
CreateExperiment(h) ==
    /\ req[h].pc = "idle"
    /\ lastVersion < MaxVersion
    /\ \E id \in ExperimentIDs \ UsedIDs, layer \in Layers,
          status \in Statuses, salt \in Salts :
        req' = [req EXCEPT ![h] =
                  [Idle EXCEPT
                     !.pc  = "ready",
                     !.op  = "create",
                     !.exp = [id |-> id, layer_id |-> layer,
                              config_version |-> lastVersion + 1, salt |-> salt,
                              status |-> IF status = "" THEN "DRAFT" ELSE status]]]
    /\ lastVersion' = lastVersion + 1
    /\ UNCHANGED <<experiments, outbox, committed, lastStamp>>

\* Fault: the update takes the salt of the body.
FindForUpdate_BodySalt(h) ==
    /\ req[h].pc = "idle"
    /\ \E row \in experiments, layer \in Layers, status \in Statuses, salt \in Salts :
        req' = [req EXCEPT ![h] =
                  [Idle EXCEPT
                     !.pc  = "found",
                     !.op  = "update",
                     !.exp = [id |-> row.id, layer_id |-> layer,
                              config_version |-> 0, salt |-> salt, status |-> status]]]
    /\ UNCHANGED <<experiments, outbox, committed, lastVersion, lastStamp>>

\* PUT /experiments/{id}, the read: an id with no row ends the request with an
\* error and changes nothing.  The body is kept, but for the id and the salt,
\* which are the stored ones.
FindForUpdate(h) ==
    /\ req[h].pc = "idle"
    /\ \E row \in experiments, layer \in Layers, status \in Statuses :
        req' = [req EXCEPT ![h] =
                  [Idle EXCEPT
                     !.pc  = "found",
                     !.op  = "update",
                     !.exp = [id |-> row.id, layer_id |-> layer,
                              config_version |-> 0, salt |-> row.salt,
                              status |-> status]]]
    /\ UNCHANGED <<experiments, outbox, committed, lastVersion, lastStamp>>

\* Fault: the drawn version is not stored in the experiment.
NewVersion_NotStored(h) ==
    /\ req[h].pc = "found"
    /\ lastVersion < MaxVersion
    /\ req' = [req EXCEPT ![h].pc = "ready"]
    /\ lastVersion' = lastVersion + 1
    /\ UNCHANGED <<experiments, outbox, committed, lastStamp>>

\* PUT, the version: drawn after the read and before the transaction.
NewVersion(h) ==
    /\ req[h].pc = "found"
    /\ lastVersion < MaxVersion
    /\ req' = [req EXCEPT ![h].pc = "ready",
                          ![h].exp.config_version = lastVersion + 1]
    /\ lastVersion' = lastVersion + 1
    /\ UNCHANGED <<experiments, outbox, committed, lastStamp>>

\* INSERT INTO experiments: a new primary key, so nobody to wait for.
InsertRow(h) ==
    /\ req[h].pc = "ready"
    /\ req[h].op = "create"
    /\ req' = [req EXCEPT ![h].pc = "executed", ![h].matched = TRUE]
    /\ UNCHANGED <<experiments, outbox, committed, lastVersion, lastStamp>>

\* Fault: the UPDATE runs on the pool and not on the transaction, so it is
\* committed at once and holds no lock.
UpdateRow_OutsideTx(h) ==
    /\ req[h].pc = "ready"
    /\ req[h].op = "update"
    /\ ~RowLocked(req[h].exp.id, h)
    /\ experiments' = {IF row.id = req[h].exp.id THEN req[h].exp ELSE row : row \in experiments}
    /\ req' = [req EXCEPT ![h].pc = "executed"]
    /\ UNCHANGED <<outbox, committed, lastVersion, lastStamp>>

\* UPDATE experiments ... WHERE id: waits for the row's lock, then sees the
\* newest committed row.  The number of rows affected is not looked at, so the
\* transaction goes on even when there is none.
UpdateRow(h) ==
    /\ req[h].pc = "ready"
    /\ req[h].op = "update"
    /\ ~RowLocked(req[h].exp.id, h)
    /\ req' = [req EXCEPT
                 ![h].pc = "executed",
                 ![h].matched = \E row \in experiments : row.id = req[h].exp.id]
    /\ UNCHANGED <<experiments, outbox, committed, lastVersion, lastStamp>>

\* Fault: a delete goes on when RowsAffected is 0.
DeleteRow_AnyCount(h) ==
    /\ req[h].pc = "idle"
    /\ \E id \in UsedIDs \ {""} :
        /\ ~RowLocked(id, h)
        /\ req' = [req EXCEPT ![h] =
                     [Idle EXCEPT !.pc = "executed",
                                  !.op = "delete",
                                  !.exp = [ZeroExperiment EXCEPT !.id = id],
                                  !.matched = \E row \in experiments : row.id = id]]
    /\ UNCHANGED <<experiments, outbox, committed, lastVersion, lastStamp>>

\* DELETE /experiments/{id} up to DELETE FROM experiments: no row affected is
\* a 404 and no change.  The payload of the event will be {"id": id}.
DeleteRow(h) ==
    /\ req[h].pc = "idle"
    /\ \E row \in experiments :
        /\ ~RowLocked(row.id, h)
        /\ req' = [req EXCEPT ![h] =
                     [Idle EXCEPT !.pc = "executed",
                                  !.op = "delete",
                                  !.exp = [ZeroExperiment EXCEPT !.id = row.id],
                                  !.matched = TRUE]]
    /\ UNCHANGED <<experiments, outbox, committed, lastVersion, lastStamp>>

\* INSERT INTO outbox: created_at is read from the clock here, inside the
\* transaction and after the statement on `experiments'.
InsertOutboxEvent(h) ==
    /\ req[h].pc = "executed"
    /\ lastStamp < MaxStamp
    /\ req' = [req EXCEPT ![h].pc = "staged", ![h].created_at = lastStamp + 1]
    /\ lastStamp' = lastStamp + 1
    /\ UNCHANGED <<experiments, outbox, committed, lastVersion>>

-----------------------------------------------------------------------------
(* COMMIT and its alternative.                                             *)

EventOf(r) ==
    [event_type |-> IF r.op = "delete" THEN "DELETE" ELSE "UPSERT",
     payload    |-> r.exp,
     created_at |-> r.created_at]

\* Fault: the update is written as an upsert.
Applied_Upsert(r) ==
    LET others == {row \in experiments : row.id # r.exp.id}
    IN  IF r.op = "delete" THEN others ELSE others \cup {r.exp}

\* The table with the statement of request r applied.
Applied(r) ==
    CASE r.op = "create" -> experiments \cup {r.exp}
      [] r.op = "update" -> {IF row.id = r.exp.id THEN r.exp ELSE row : row \in experiments}
      [] r.op = "delete" -> {row \in experiments : row.id # r.exp.id}

\* COMMIT makes the row and the event visible together; also the case in which
\* the server commits and the answer is lost.
Commit(h) ==
    /\ req[h].pc = "staged"
    /\ experiments' = Applied(req[h])
    /\ outbox' = outbox \cup {EventOf(req[h])}
    /\ committed' = committed \cup {EventOf(req[h])}
    /\ req' = [req EXCEPT ![h] = Idle]
    /\ UNCHANGED <<lastVersion, lastStamp>>

\* Any statement, NewV7 or COMMIT can fail, and central-api can die: the
\* deferred Rollback, or the server, undoes the transaction.
Abort(h) ==
    /\ req[h].pc # "idle"
    /\ req' = [req EXCEPT ![h] = Idle]
    /\ UNCHANGED <<experiments, outbox, committed, lastVersion, lastStamp>>

HandlerStep(h) ==
    \/ CreateExperiment(h)
    \/ FindForUpdate(h)
    \/ NewVersion(h)
    \/ InsertRow(h)
    \/ UpdateRow(h)
    \/ DeleteRow(h)
    \/ InsertOutboxEvent(h)
    \/ Commit(h)
    \/ Abort(h)

ApiNext == \E h \in Handlers : HandlerStep(h)

ApiSpec == ApiInit /\ [][ApiNext]_apiVars

-----------------------------------------------------------------------------
(* What the tables promise.                                                *)

\* No event of e's experiment is newer than e.
IsLast(e) ==
    \A f \in committed : f.payload.id = e.payload.id => f.created_at <= e.created_at

\* What is left of the outbox when it is replayed in created_at order.
Replayed == {e \in committed : IsLast(e) /\ e.event_type = "UPSERT"}

\* The event of an update whose UPDATE came after the row's DELETE.
Stray(e) ==
    \E d \in committed :
        /\ d.event_type = "DELETE"
        /\ d.payload.id = e.payload.id
        /\ d.created_at < e.created_at

\* Replaying the outbox in created_at order yields every row of the table as
\* it is stored, however the requests overlapped, and beyond the table only
\* ghosts: experiments whose DELETE committed between the read of a PUT and
\* its UPDATE, which then matches no row and still commits its UPSERT.
ReplayYieldsTable ==
    /\ \A row \in experiments : \E e \in Replayed : e.payload = row
    /\ \A e \in Replayed : e.payload \in experiments \/ Stray(e)

\* An experiment that was ever committed has a row until a DELETE commits and
\* never again after that: an update that read the row before the delete and
\* writes after it does not bring the row back.
RowLivesUntilDeleted ==
    \A e \in committed :
        (\E row \in experiments : row.id = e.payload.id)
            <=> ~\E d \in committed :
                    d.event_type = "DELETE" /\ d.payload.id = e.payload.id

\* Of several concurrent DELETE requests for one experiment a single one
\* deletes and writes an event; the others find no row and answer 404.
DeletedOnce ==
    \A d1, d2 \in committed :
        (/\ d1.event_type = "DELETE"
         /\ d2.event_type = "DELETE"
         /\ d1.payload.id = d2.payload.id) => d1 = d2

\* The salt, which with the user's id decides the bucket, is the same in every
\* version of an experiment: an update writes back a salt it read earlier,
\* outside its transaction.
SaltStable ==
    \A e, f \in committed :
        (/\ e.event_type = "UPSERT"
         /\ f.event_type = "UPSERT"
         /\ e.payload.id = f.payload.id) => e.payload.salt = f.payload.salt

\* What the comment on Experiment.ConfigVersion says: versions order the
\* changes of an experiment in time, so the stored version never goes back.
VersionsChronological ==
    [][\A old \in experiments, new \in experiments' :
           old.id = new.id => old.config_version <= new.config_version]_apiVars

\* Seen from outside, the handlers change one experiment at a time, each by one
\* COMMIT and with one event: they implement ExperimentTable.
Table == INSTANCE ExperimentTable WITH Change <- Event

TableRefinement == Table!TableSpec
=============================================================================
