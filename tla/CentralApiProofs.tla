-------------------------- MODULE CentralApiProofs --------------------------
(***************************************************************************)
(* The invariants of CentralApi, proved for every set of experiments,      *)
(* layers, salts and handlers.                                             *)
(*                                                                         *)
(* What the tables promise is not inductive: it depends on what each open  *)
(* transaction knows.  IInv adds that.  A transaction that matched a row   *)
(* holds it alone, and its row exists until it ends; an update that found  *)
(* no row works behind a committed DELETE; a create owns its id; and a     *)
(* staged event of a lock holder is the newest one of its experiment.      *)
(***************************************************************************)
EXTENDS CentralApi, TLAPS

-----------------------------------------------------------------------------
(* The inductive invariant.                                                *)

UniqueRows == \A r1, r2 \in experiments : r1.id = r2.id => r1 = r2

\* An UPSERT carries a whole row, a DELETE the id alone; no two events have
\* the same created_at.
EventsOK ==
    /\ \A e \in committed :
        /\ e.created_at <= lastStamp
        /\ e.event_type = "UPSERT" => e.payload \in Row
        /\ e.event_type = "DELETE" => e.payload.salt = ""
    /\ \A e, f \in committed : e.created_at = f.created_at => e = f

\* The newest event of a stored experiment carries its row.
RowMatchesNewestEvent ==
    \A row \in experiments :
        \E e \in committed :
            /\ e.payload = row
            /\ \A f \in committed :
                   f.payload.id = row.id => f.created_at <= e.created_at

\* Where a request is says which of its locals are set.
Progress(r) ==
    /\ r.pc = "idle" => r = Idle
    /\ r.pc # "idle" => r.op # "none" /\ r.exp.id \in ExperimentIDs
    /\ r.pc \in {"idle", "found", "ready"} => r.matched = FALSE
    /\ r.pc = "found" =>
        /\ r.op = "update"
        /\ r.exp.layer_id \in Layers
        /\ r.exp.salt \in Salts
        /\ r.exp.status \in Statuses \cup {"DRAFT"}
    /\ r.pc \in {"ready", "executed", "staged"} /\ r.op # "delete" => r.exp \in Row
    /\ r.pc = "ready" => r.op # "delete"
    /\ r.pc \in {"executed", "staged"} /\ r.op # "update" => r.matched = TRUE
    /\ r.op = "delete" => r.exp.salt = ""

\* The id of a create is still unknown to the tables.
CreateOK(r) ==
    r.op = "create" =>
        /\ \A e \in committed : e.payload.id # r.exp.id
        /\ \A row \in experiments : row.id # r.exp.id

\* The id and the salt of an update were committed.
UpdateOK(r) ==
    r.op = "update" =>
        \E e \in committed :
            /\ e.event_type = "UPSERT"
            /\ e.payload.id = r.exp.id
            /\ e.payload.salt = r.exp.salt

\* The row of an update or delete that matched one is still there.
MatchedOK(r) ==
    (r.matched = TRUE /\ r.op # "create") => \E row \in experiments : row.id = r.exp.id

\* An update that matched no row comes after the DELETE that removed it.
UnmatchedOK(r) ==
    (r.pc \in {"executed", "staged"} /\ r.matched = FALSE) =>
        /\ \A row \in experiments : row.id # r.exp.id
        /\ \E d \in committed :
            /\ d.event_type = "DELETE"
            /\ d.payload.id = r.exp.id
            /\ r.pc = "staged" => d.created_at < r.created_at

\* A staged event has a created_at of its own, and it is the newest one of its
\* experiment when the transaction holds the row.
StagedOK(r) ==
    r.pc = "staged" =>
        /\ r.created_at <= lastStamp
        /\ \A e \in committed :
            /\ e.created_at # r.created_at
            /\ (r.matched = TRUE /\ e.payload.id = r.exp.id) => e.created_at < r.created_at

RequestOK(r) ==
    /\ Progress(r)
    /\ CreateOK(r)
    /\ UpdateOK(r)
    /\ MatchedOK(r)
    /\ UnmatchedOK(r)
    /\ StagedOK(r)

\* A row is locked by one request, an id is created by one, and two staged
\* events have two stamps.
PairOK(r, s) ==
    /\ r.matched = TRUE /\ s.matched = TRUE => r.exp.id # s.exp.id
    /\ r.op = "create" => r.exp.id # s.exp.id
    /\ r.pc = "staged" /\ s.pc = "staged" => r.created_at # s.created_at

TablesOK ==
    /\ UniqueRows
    /\ EventsOK
    /\ RowMatchesNewestEvent
    /\ RowLivesUntilDeleted
    /\ DeletedOnce
    /\ SaltStable

IInv ==
    /\ TypeOK
    /\ TablesOK
    /\ \A h \in Handlers : RequestOK(req[h])
    /\ \A g, h \in Handlers : g # h => PairOK(req[g], req[h])

-----------------------------------------------------------------------------
(* The steps that change one request and no table.                         *)

\* The events stay in order while the clock only moves on.
LEMMA EventsStay ==
    ASSUME EventsOK, committed \subseteq Event, committed' = committed,
           lastStamp \in Nat, lastStamp' \in Nat, lastStamp <= lastStamp'
    PROVE  EventsOK'
<1>1. \A e \in committed : e.created_at \in Nat
  BY DEF Event
<1>2. \A e \in committed : e.created_at <= lastStamp
  BY DEF EventsOK
<1>3. \A e \in committed : e.created_at <= lastStamp'
  BY <1>1, <1>2
<1> QED
  BY <1>3 DEF EventsOK

\* A request that does not move stays consistent with tables that do not change.
LEMMA RequestStays ==
    ASSUME NEW g \in Handlers, RequestOK(req[g]), req[g] \in Request, req'[g] = req[g],
           experiments' = experiments, committed' = committed,
           lastStamp \in Nat, lastStamp' \in Nat, lastStamp <= lastStamp'
    PROVE  RequestOK(req[g])'
<1>1. Progress(req[g])'
  BY DEF RequestOK, Progress
<1>2. CreateOK(req[g])' /\ UpdateOK(req[g])'
  BY DEF RequestOK, CreateOK, UpdateOK
<1>3. MatchedOK(req[g])' /\ UnmatchedOK(req[g])'
  BY DEF RequestOK, MatchedOK, UnmatchedOK
<1>4. StagedOK(req[g])'
  BY DEF RequestOK, StagedOK, Request
<1> QED
  BY <1>1, <1>2, <1>3, <1>4 DEF RequestOK

\* Whatever a handler does to its own locals keeps the invariant as long as
\* the new locals are consistent with the tables and with the other requests.
LEMMA RequestStep ==
    ASSUME IInv,
           NEW h \in Handlers,
           req' \in [Handlers -> Request],
           \A g \in Handlers \ {h} : req'[g] = req[g],
           UNCHANGED <<experiments, outbox, committed>>,
           lastVersion' \in Nat,
           lastStamp' \in Nat,
           lastStamp <= lastStamp',
           RequestOK(req[h])',
           \A g \in Handlers \ {h} : PairOK(req[h], req[g])' /\ PairOK(req[g], req[h])'
    PROVE  IInv'
<1>2. TypeOK'
  BY DEF IInv, TypeOK
<1>3. TablesOK'
  <2>1. EventsOK'
    BY EventsStay DEF IInv, TablesOK, TypeOK
  <2> QED
    BY <2>1 DEF IInv, TablesOK, UniqueRows, RowMatchesNewestEvent,
                RowLivesUntilDeleted, DeletedOnce, SaltStable
<1>4. ASSUME NEW g \in Handlers PROVE RequestOK(req[g])'
  <2>1. CASE g = h
    BY <2>1
  <2>2. CASE g # h
    <3>1. RequestOK(req[g]) /\ req'[g] = req[g] /\ req[g] \in Request
      BY <2>2 DEF IInv, TypeOK
    <3> QED
      BY <3>1, RequestStays DEF IInv, TypeOK
  <2> QED
    BY <2>1, <2>2
<1>5. ASSUME NEW f \in Handlers, NEW g \in Handlers, f # g
      PROVE  PairOK(req[f], req[g])'
  <2>1. CASE f = h \/ g = h
    BY <2>1, <1>5
  <2>2. CASE f # h /\ g # h
    <3>1. PairOK(req[f], req[g]) /\ req'[f] = req[f] /\ req'[g] = req[g]
      BY <1>5, <2>2 DEF IInv
    <3> QED
      BY <3>1 DEF PairOK
  <2> QED
    BY <2>1, <2>2
<1> QED
  BY <1>2, <1>3, <1>4, <1>5 DEF IInv

\* What the invariant says of one request and of two.
LEMMA RequestFacts ==
    ASSUME IInv, NEW h \in Handlers
    PROVE  /\ req \in [Handlers -> Request]
           /\ req[h] \in Request
           /\ RequestOK(req[h])
           /\ \A g \in Handlers \ {h} : PairOK(req[g], req[h]) /\ PairOK(req[h], req[g])
  BY DEF IInv, TypeOK

LEMMA IdleFacts ==
    /\ Idle \in Request
    /\ Idle.pc = "idle" /\ Idle.op = "none" /\ Idle.matched = FALSE
    /\ Idle.exp.id = ""
  BY DEF Idle, Request, Experiment, ZeroExperiment

LEMMA AbortStep ==
    ASSUME IInv, NEW h \in Handlers, Abort(h)
    PROVE  IInv'
<1>1. req' \in [Handlers -> Request] /\ req'[h] = Idle
        /\ \A g \in Handlers \ {h} : req'[g] = req[g]
  BY RequestFacts, IdleFacts DEF Abort
<1>2. RequestOK(req[h])'
  BY <1>1, IdleFacts
     DEF RequestOK, Progress, CreateOK, UpdateOK, MatchedOK, UnmatchedOK, StagedOK
<1>3. ASSUME NEW g \in Handlers \ {h}
      PROVE  PairOK(req[h], req[g])' /\ PairOK(req[g], req[h])'
  <2>1. req'[g] = req[g]
    BY <1>1
  <2>2. req[g].op = "create" => req[g].exp.id # ""
    BY RequestFacts, IdleFacts, ConstantsAssumption DEF RequestOK, Progress
  <2> QED
    BY <1>1, <2>1, <2>2, IdleFacts DEF PairOK
<1> QED
  BY <1>1, <1>2, <1>3, RequestStep DEF Abort, IInv, TypeOK

\* The version of an update: from "found" on its experiment is a whole row.
LEMMA NewVersionStep ==
    ASSUME IInv, NEW h \in Handlers, NewVersion(h)
    PROVE  IInv'
<1>1. /\ req[h].pc = "found" /\ req[h] \in Request /\ RequestOK(req[h])
      /\ lastVersion \in Nat
  BY RequestFacts DEF NewVersion, IInv, TypeOK
<1>2. /\ req' \in [Handlers -> Request]
      /\ \A g \in Handlers \ {h} : req'[g] = req[g]
      /\ req'[h] = [req[h] EXCEPT !.pc = "ready",
                      !.exp = [req[h].exp EXCEPT !.config_version = lastVersion + 1]]
  <2> DEFINE X == [req[h].exp EXCEPT !.config_version = lastVersion + 1]
  <2>1. req' = [req EXCEPT ![h] = [req[h] EXCEPT !.pc = "ready", !.exp = X]]
    BY RequestFacts DEF NewVersion
  <2>2. X \in Experiment
    <3>1. req[h].exp \in Experiment /\ lastVersion + 1 \in Nat
      BY <1>1 DEF Request
    <3> QED
      BY <3>1 DEF Experiment
  <2>3. [req[h] EXCEPT !.pc = "ready", !.exp = X] \in Request
    BY <1>1, <2>2 DEF Request
  <2> QED
    BY <2>1, <2>3, RequestFacts
<1>3. /\ req'[h].pc = "ready" /\ req'[h].op = req[h].op /\ req'[h].matched = req[h].matched
      /\ req'[h].exp = [req[h].exp EXCEPT !.config_version = lastVersion + 1]
  BY <1>1, <1>2 DEF Request
<1>4. /\ req'[h].exp \in Row /\ req[h].op = "update" /\ req[h].matched = FALSE
      /\ req'[h].exp.id = req[h].exp.id /\ req'[h].exp.salt = req[h].exp.salt
  <2>1. /\ req[h].op = "update" /\ req[h].matched = FALSE
        /\ req[h].exp.id \in ExperimentIDs /\ req[h].exp.layer_id \in Layers
        /\ req[h].exp.salt \in Salts /\ req[h].exp.status \in Statuses \cup {"DRAFT"}
    BY <1>1 DEF RequestOK, Progress
  <2>2. req[h].exp \in Experiment /\ lastVersion + 1 \in Nat \ {0}
    BY <1>1 DEF Request
  <2>3. [req[h].exp EXCEPT !.config_version = lastVersion + 1] \in Row
    BY <2>1, <2>2 DEF Experiment, Row
  <2>4. /\ req'[h].exp.id = req[h].exp.id
        /\ req'[h].exp.salt = req[h].exp.salt
    BY <1>3, <2>2 DEF Experiment
  <2> QED
    BY <1>3, <2>1, <2>3, <2>4
<1>5. RequestOK(req[h])'
  <2>1. Progress(req[h])'
    BY <1>1, <1>3, <1>4 DEF RequestOK, Progress
  <2>2. UpdateOK(req[h])'
    BY <1>1, <1>3, <1>4 DEF RequestOK, UpdateOK, NewVersion
  <2> QED
    BY <1>3, <1>4, <2>1, <2>2
       DEF RequestOK, CreateOK, MatchedOK, UnmatchedOK, StagedOK
<1>6. ASSUME NEW g \in Handlers \ {h}
      PROVE  PairOK(req[h], req[g])' /\ PairOK(req[g], req[h])'
  <2>1. PairOK(req[g], req[h]) /\ PairOK(req[h], req[g]) /\ req'[g] = req[g]
    BY <1>2, RequestFacts
  <2> QED
    BY <1>3, <1>4, <2>1 DEF PairOK
<1> QED
  BY <1>2, <1>5, <1>6, RequestStep DEF NewVersion, IInv, TypeOK

\* An insert takes the lock of a row nobody else knows.
LEMMA InsertRowStep ==
    ASSUME IInv, NEW h \in Handlers, InsertRow(h)
    PROVE  IInv'
<1>1. /\ req[h].pc = "ready" /\ req[h].op = "create"
      /\ req[h] \in Request /\ RequestOK(req[h])
  BY RequestFacts DEF InsertRow
<1>2. /\ req' \in [Handlers -> Request]
      /\ \A g \in Handlers \ {h} : req'[g] = req[g]
      /\ req'[h] = [req[h] EXCEPT !.pc = "executed", !.matched = TRUE]
  <2>1. req' = [req EXCEPT ![h] = [req[h] EXCEPT !.pc = "executed", !.matched = TRUE]]
    BY RequestFacts DEF InsertRow
  <2>2. [req[h] EXCEPT !.pc = "executed", !.matched = TRUE] \in Request
    BY <1>1 DEF Request
  <2> QED
    BY <2>1, <2>2, RequestFacts
<1>3. /\ req'[h].pc = "executed" /\ req'[h].op = "create" /\ req'[h].matched = TRUE
      /\ req'[h].exp = req[h].exp
  BY <1>1, <1>2 DEF Request
<1>4. RequestOK(req[h])'
  <2>1. Progress(req[h])'
    BY <1>1, <1>3 DEF RequestOK, Progress
  <2>2. CreateOK(req[h])'
    BY <1>1, <1>3 DEF RequestOK, CreateOK, InsertRow
  <2> QED
    BY <1>3, <2>1, <2>2
       DEF RequestOK, UpdateOK, MatchedOK, UnmatchedOK, StagedOK
<1>5. ASSUME NEW g \in Handlers \ {h}
      PROVE  PairOK(req[h], req[g])' /\ PairOK(req[g], req[h])'
  <2>1. PairOK(req[g], req[h]) /\ PairOK(req[h], req[g]) /\ req'[g] = req[g]
    BY <1>2, RequestFacts
  <2> QED
    BY <1>1, <1>3, <2>1 DEF PairOK
<1> QED
  BY <1>2, <1>4, <1>5, RequestStep DEF InsertRow, IInv, TypeOK

\* Who has matched a row is inside a transaction and holds its lock.
LEMMA MatchedHoldsLock ==
    ASSUME IInv, NEW h \in Handlers, NEW g \in Handlers \ {h}, NEW id,
           ~RowLocked(id, h), req[g].matched = TRUE
    PROVE  req[g].exp.id # id
<1>1. req[g].pc \in {"executed", "staged"}
  BY RequestFacts DEF RequestOK, Progress, Request
<1> QED
  BY <1>1 DEF RowLocked, InTransaction

\* The row of an update that finds none was deleted by a committed DELETE.
LEMMA NoRowMeansDeleted ==
    ASSUME IInv, NEW h \in Handlers, req[h].op = "update",
           ~\E row \in experiments : row.id = req[h].exp.id
    PROVE  \E d \in committed : d.event_type = "DELETE" /\ d.payload.id = req[h].exp.id
<1>1. PICK e \in committed : e.payload.id = req[h].exp.id
  BY RequestFacts DEF RequestOK, UpdateOK
<1> QED
  BY <1>1 DEF IInv, TablesOK, RowLivesUntilDeleted

\* The statement of an update: it matches the row, or works behind a DELETE.
LEMMA UpdateRowStep ==
    ASSUME IInv, NEW h \in Handlers, UpdateRow(h)
    PROVE  IInv'
<1> DEFINE found == \E row \in experiments : row.id = req[h].exp.id
<1>1. /\ req[h].pc = "ready" /\ req[h].op = "update" /\ ~RowLocked(req[h].exp.id, h)
      /\ req[h] \in Request /\ RequestOK(req[h])
  BY RequestFacts DEF UpdateRow
<1>2. /\ req' \in [Handlers -> Request]
      /\ \A g \in Handlers \ {h} : req'[g] = req[g]
      /\ req'[h] = [req[h] EXCEPT !.pc = "executed", !.matched = found]
  <2>1. req' = [req EXCEPT ![h] = [req[h] EXCEPT !.pc = "executed", !.matched = found]]
    BY RequestFacts DEF UpdateRow
  <2>2. found \in BOOLEAN
    OBVIOUS
  <2> HIDE DEF found
  <2>3. [req[h] EXCEPT !.pc = "executed", !.matched = found] \in Request
    BY <1>1, <2>2 DEF Request
  <2> QED
    BY <2>1, <2>3, RequestFacts
<1>3. /\ req'[h].pc = "executed" /\ req'[h].op = "update" /\ req'[h].exp = req[h].exp
      /\ req'[h].matched = found
  <2> HIDE DEF found
  <2> QED
    BY <1>1, <1>2 DEF Request
<1>4. RequestOK(req[h])'
  <2>1. Progress(req[h])'
    BY <1>1, <1>3 DEF RequestOK, Progress
  <2>2. UpdateOK(req[h])'
    BY <1>1, <1>3 DEF RequestOK, UpdateOK, UpdateRow
  <2>3. MatchedOK(req[h])'
    BY <1>3 DEF MatchedOK, UpdateRow
  <2>4. UnmatchedOK(req[h])'
    BY <1>1, <1>3, NoRowMeansDeleted DEF UnmatchedOK, UpdateRow
  <2> QED
    BY <1>3, <2>1, <2>2, <2>3, <2>4 DEF RequestOK, CreateOK, StagedOK
<1>5. ASSUME NEW g \in Handlers \ {h}
      PROVE  PairOK(req[h], req[g])' /\ PairOK(req[g], req[h])'
  <2>1. PairOK(req[g], req[h]) /\ PairOK(req[h], req[g]) /\ req'[g] = req[g]
    BY <1>2, RequestFacts
  <2>2. req[g].matched = TRUE => req[g].exp.id # req[h].exp.id
    BY <1>1, MatchedHoldsLock
  <2> QED
    BY <1>1, <1>3, <2>1, <2>2 DEF PairOK
<1>6. /\ UNCHANGED <<experiments, outbox, committed>>
      /\ lastVersion' \in Nat /\ lastStamp' \in Nat /\ lastStamp <= lastStamp'
  BY DEF UpdateRow, IInv, TypeOK
<1> QED
  BY <1>2, <1>4, <1>5, <1>6, RequestStep

\* The stamp of an event is later than every committed or staged one.
LEMMA InsertOutboxEventStep ==
    ASSUME IInv, NEW h \in Handlers, InsertOutboxEvent(h)
    PROVE  IInv'
<1>1. /\ req[h].pc = "executed" /\ req[h] \in Request /\ RequestOK(req[h])
      /\ lastStamp \in Nat /\ lastStamp' = lastStamp + 1
  BY RequestFacts DEF InsertOutboxEvent, IInv, TypeOK
<1>2. /\ req' \in [Handlers -> Request]
      /\ \A g \in Handlers \ {h} : req'[g] = req[g]
      /\ req'[h] = [req[h] EXCEPT !.pc = "staged", !.created_at = lastStamp + 1]
  <2>1. req' = [req EXCEPT ![h] = [req[h] EXCEPT !.pc = "staged",
                                                 !.created_at = lastStamp + 1]]
    BY RequestFacts DEF InsertOutboxEvent
  <2>2. [req[h] EXCEPT !.pc = "staged", !.created_at = lastStamp + 1] \in Request
    <3>1. lastStamp + 1 \in Nat
      BY <1>1
    <3> QED
      BY <1>1, <3>1 DEF Request
  <2> QED
    BY <2>1, <2>2, RequestFacts
<1>3. /\ req'[h].pc = "staged" /\ req'[h].op = req[h].op /\ req'[h].exp = req[h].exp
      /\ req'[h].matched = req[h].matched /\ req'[h].created_at = lastStamp + 1
  BY <1>1, <1>2 DEF Request
<1>4. \A e \in committed : e.created_at \in Nat /\ e.created_at <= lastStamp
  BY DEF IInv, TablesOK, EventsOK, TypeOK, Event
<1>5. RequestOK(req[h])'
  <2>1. Progress(req[h])'
    BY <1>1, <1>3 DEF RequestOK, Progress
  <2>2. CreateOK(req[h])' /\ UpdateOK(req[h])'
    BY <1>1, <1>3 DEF RequestOK, CreateOK, UpdateOK, InsertOutboxEvent
  <2>3. MatchedOK(req[h])'
    BY <1>1, <1>3 DEF RequestOK, MatchedOK, InsertOutboxEvent
  <2>4. \A e \in committed : e.created_at < lastStamp + 1
    BY <1>1, <1>4
  <2>5. UnmatchedOK(req[h])'
    BY <1>1, <1>3, <2>4 DEF RequestOK, UnmatchedOK, InsertOutboxEvent
  <2>6. \A e \in committed : e.created_at < lastStamp + 1 /\ e.created_at # lastStamp + 1
    BY <1>1, <1>4
  <2>7. StagedOK(req[h])'
    <3>1. committed' = committed /\ lastStamp + 1 <= lastStamp'
      BY <1>1 DEF InsertOutboxEvent
    <3> QED
      BY <1>3, <2>6, <3>1 DEF StagedOK
  <2> QED
    BY <2>1, <2>2, <2>3, <2>5, <2>7 DEF RequestOK
<1>6. ASSUME NEW g \in Handlers \ {h}
      PROVE  PairOK(req[h], req[g])' /\ PairOK(req[g], req[h])'
  <2>1. /\ PairOK(req[g], req[h]) /\ PairOK(req[h], req[g]) /\ req'[g] = req[g]
        /\ req[g] \in Request /\ RequestOK(req[g])
    BY <1>2, RequestFacts
  <2>2. req[g].pc = "staged" => req[g].created_at # lastStamp + 1
    <3>1. req[g].created_at \in Nat
      BY <2>1 DEF Request
    <3>2. req[g].pc = "staged" => req[g].created_at <= lastStamp
      BY <2>1 DEF RequestOK, StagedOK
    <3> QED
      BY <1>1, <3>1, <3>2
  <2> QED
    BY <1>3, <2>1, <2>2 DEF PairOK
<1> QED
  BY <1>1, <1>2, <1>5, <1>6, RequestStep DEF InsertOutboxEvent, IInv, TypeOK

\* A stored row was committed by an UPSERT that carries it.
LEMMA RowsCommitted ==
    ASSUME IInv, NEW row \in experiments
    PROVE  \E e \in committed :
               e.event_type = "UPSERT" /\ e.payload = row /\ row \in Row
<1>1. PICK e \in committed : e.payload = row
  BY DEF IInv, TablesOK, RowMatchesNewestEvent
<1>2. row \in Row /\ row.salt # ""
  BY ConstantsAssumption DEF IInv, TypeOK, Row
<1>3. e.event_type \in {"UPSERT", "DELETE"}
  BY DEF IInv, TypeOK, Event
<1>4. e.event_type = "DELETE" => e.payload.salt = ""
  BY DEF IInv, TablesOK, EventsOK
<1> QED
  BY <1>1, <1>2, <1>3, <1>4

\* The read of an update knows the id and the salt of a committed version.
LEMMA FindForUpdateStep ==
    ASSUME IInv, NEW h \in Handlers, FindForUpdate(h)
    PROVE  IInv'
<1>1. PICK row \in experiments, layer \in Layers, status \in Statuses :
        req' = [req EXCEPT ![h] =
                  [Idle EXCEPT
                     !.pc  = "found",
                     !.op  = "update",
                     !.exp = [id |-> row.id, layer_id |-> layer,
                              config_version |-> 0, salt |-> row.salt,
                              status |-> status]]]
  BY DEF FindForUpdate
<1> DEFINE X == [id |-> row.id, layer_id |-> layer, config_version |-> 0,
                 salt |-> row.salt, status |-> status]
<1>2. row.id \in ExperimentIDs /\ row.salt \in Salts
  BY RowsCommitted DEF Row
<1>3. X \in Experiment
  BY <1>2 DEF Experiment
<1>4. /\ req' \in [Handlers -> Request]
      /\ \A g \in Handlers \ {h} : req'[g] = req[g]
      /\ req'[h] = [Idle EXCEPT !.pc = "found", !.op = "update", !.exp = X]
  <2>1. [Idle EXCEPT !.pc = "found", !.op = "update", !.exp = X] \in Request
    <3> HIDE DEF X
    <3> QED
      BY <1>3 DEF Idle, Request
  <2> QED
    BY <1>1, <2>1, RequestFacts
<1>5. /\ req'[h].pc = "found" /\ req'[h].op = "update" /\ req'[h].matched = FALSE
      /\ req'[h].exp = X
  <2> HIDE DEF X
  <2> QED
    BY <1>4 DEF Idle
<1>6. RequestOK(req[h])'
  <2>1. Progress(req[h])'
    BY <1>2, <1>5 DEF Progress
  <2>2. UpdateOK(req[h])'
    BY <1>5, RowsCommitted DEF UpdateOK, FindForUpdate
  <2> QED
    BY <1>5, <2>1, <2>2 DEF RequestOK, CreateOK, MatchedOK, UnmatchedOK, StagedOK
<1>7. ASSUME NEW g \in Handlers \ {h}
      PROVE  PairOK(req[h], req[g])' /\ PairOK(req[g], req[h])'
  <2>1. RequestOK(req[g]) /\ req'[g] = req[g]
    BY <1>4, RequestFacts
  <2>2. req[g].op = "create" => req[g].exp.id # row.id
    BY <2>1 DEF RequestOK, CreateOK
  <2> QED
    BY <1>5, <2>1, <2>2 DEF PairOK
<1>8. /\ UNCHANGED <<experiments, outbox, committed>>
      /\ lastVersion' \in Nat /\ lastStamp' \in Nat /\ lastStamp <= lastStamp'
  BY DEF FindForUpdate, IInv, TypeOK
<1> QED
  BY <1>4, <1>6, <1>7, <1>8, RequestStep

\* The statement of a delete takes the lock of a row.
LEMMA DeleteRowStep ==
    ASSUME IInv, NEW h \in Handlers, DeleteRow(h)
    PROVE  IInv'
<1>1. PICK row \in experiments :
        /\ ~RowLocked(row.id, h)
        /\ req' = [req EXCEPT ![h] =
                     [Idle EXCEPT !.pc = "executed",
                                  !.op = "delete",
                                  !.exp = [ZeroExperiment EXCEPT !.id = row.id],
                                  !.matched = TRUE]]
  BY DEF DeleteRow
<1> DEFINE X == [ZeroExperiment EXCEPT !.id = row.id]
<1>2. row.id \in ExperimentIDs
  BY RowsCommitted DEF Row
<1>3. X \in Experiment /\ X.id = row.id /\ X.salt = ""
  BY <1>2 DEF Experiment, ZeroExperiment
<1>4. /\ req' \in [Handlers -> Request]
      /\ \A g \in Handlers \ {h} : req'[g] = req[g]
      /\ req'[h] = [Idle EXCEPT !.pc = "executed", !.op = "delete",
                                !.exp = X, !.matched = TRUE]
  <2>1. [Idle EXCEPT !.pc = "executed", !.op = "delete",
                     !.exp = X, !.matched = TRUE] \in Request
    <3> HIDE DEF X
    <3> QED
      BY <1>3 DEF Idle, Request
  <2> QED
    BY <1>1, <2>1, RequestFacts
<1>5. /\ req'[h].pc = "executed" /\ req'[h].op = "delete" /\ req'[h].matched = TRUE
      /\ req'[h].exp.id = row.id /\ req'[h].exp.salt = ""
  <2>1. req'[h].exp = X
    <3> HIDE DEF X
    <3> QED
      BY <1>4 DEF Idle
  <2> QED
    BY <1>3, <1>4, <2>1 DEF Idle
<1>6. RequestOK(req[h])'
  <2>1. Progress(req[h])'
    BY <1>2, <1>5 DEF Progress
  <2>2. MatchedOK(req[h])'
    BY <1>5 DEF MatchedOK, DeleteRow
  <2> QED
    BY <1>5, <2>1, <2>2 DEF RequestOK, CreateOK, UpdateOK, UnmatchedOK, StagedOK
<1>7. ASSUME NEW g \in Handlers \ {h}
      PROVE  PairOK(req[h], req[g])' /\ PairOK(req[g], req[h])'
  <2>1. RequestOK(req[g]) /\ req'[g] = req[g]
    BY <1>4, RequestFacts
  <2>2. req[g].op = "create" => req[g].exp.id # row.id
    BY <2>1 DEF RequestOK, CreateOK
  <2>3. req[g].matched = TRUE => req[g].exp.id # row.id
    BY <1>1, MatchedHoldsLock
  <2> QED
    BY <1>5, <2>1, <2>2, <2>3 DEF PairOK
<1>8. /\ UNCHANGED <<experiments, outbox, committed>>
      /\ lastVersion' \in Nat /\ lastStamp' \in Nat /\ lastStamp <= lastStamp'
  BY DEF DeleteRow, IInv, TypeOK
<1> QED
  BY <1>4, <1>6, <1>7, <1>8, RequestStep

\* A new id is in no event, so in no row, and in no other request.
LEMMA CreateExperimentStep ==
    ASSUME IInv, NEW h \in Handlers, CreateExperiment(h)
    PROVE  IInv'
<1>1. PICK id \in ExperimentIDs \ UsedIDs, layer \in Layers,
           status \in Statuses, salt \in Salts :
        req' = [req EXCEPT ![h] =
                  [Idle EXCEPT
                     !.pc  = "ready",
                     !.op  = "create",
                     !.exp = [id |-> id, layer_id |-> layer,
                              config_version |-> lastVersion + 1, salt |-> salt,
                              status |-> IF status = "" THEN "DRAFT" ELSE status]]]
  BY DEF CreateExperiment
<1> DEFINE X == [id |-> id, layer_id |-> layer,
                 config_version |-> lastVersion + 1, salt |-> salt,
                 status |-> IF status = "" THEN "DRAFT" ELSE status]
<1>2. lastVersion \in Nat
  BY DEF IInv, TypeOK
<1>3. X \in Experiment /\ X \in Row /\ X.id = id
  <2>1. (IF status = "" THEN "DRAFT" ELSE status) \in Statuses \cup {"DRAFT"}
    OBVIOUS
  <2>2. lastVersion + 1 \in Nat \ {0}
    BY <1>2
  <2>3. X \in Row
    BY <2>1, <2>2 DEF Row
  <2>4. X \in Experiment
    BY <2>1, <2>2 DEF Experiment
  <2> QED
    BY <2>3, <2>4
<1>4. /\ req' \in [Handlers -> Request]
      /\ \A g \in Handlers \ {h} : req'[g] = req[g]
      /\ req'[h] = [Idle EXCEPT !.pc = "ready", !.op = "create", !.exp = X]
  <2>1. [Idle EXCEPT !.pc = "ready", !.op = "create", !.exp = X] \in Request
    <3> HIDE DEF X
    <3> QED
      BY <1>3 DEF Idle, Request
  <2> QED
    BY <1>1, <2>1, RequestFacts
<1>5. /\ req'[h].pc = "ready" /\ req'[h].op = "create" /\ req'[h].matched = FALSE
      /\ req'[h].exp = X
  <2> HIDE DEF X
  <2> QED
    BY <1>4 DEF Idle
<1> HIDE DEF X
<1>6. /\ \A e \in committed : e.payload.id # id
      /\ \A g \in Handlers : req[g].exp.id # id
  BY DEF UsedIDs
<1>7. \A row \in experiments : row.id # id
  BY <1>6, RowsCommitted
<1>8. RequestOK(req[h])'
  <2>1. Progress(req[h])'
    BY <1>3, <1>5 DEF Progress
  <2>2. CreateOK(req[h])'
    BY <1>3, <1>5, <1>6, <1>7 DEF CreateOK, CreateExperiment
  <2> QED
    BY <1>5, <2>1, <2>2 DEF RequestOK, UpdateOK, MatchedOK, UnmatchedOK, StagedOK
<1>9. ASSUME NEW g \in Handlers \ {h}
      PROVE  PairOK(req[h], req[g])' /\ PairOK(req[g], req[h])'
  <2>1. req'[g] = req[g] /\ req[g].exp.id # id
    BY <1>4, <1>6
  <2> QED
    BY <1>3, <1>5, <2>1 DEF PairOK
<1>10. /\ UNCHANGED <<experiments, outbox, committed>>
       /\ lastVersion' \in Nat /\ lastStamp' \in Nat /\ lastStamp <= lastStamp'
  BY DEF CreateExperiment, IInv, TypeOK
<1> QED
  BY <1>4, <1>8, <1>9, <1>10, RequestStep

-----------------------------------------------------------------------------
(* COMMIT.                                                                 *)

\* What a request that reaches COMMIT knows, and the event it adds.
LEMMA CommitFacts ==
    ASSUME IInv, NEW h \in Handlers, Commit(h)
    PROVE  /\ req[h].pc = "staged" /\ req[h] \in Request /\ RequestOK(req[h])
           /\ req[h].op \in {"create", "update", "delete"}
           /\ req[h].exp.id \in ExperimentIDs
           /\ req[h].op # "delete" => req[h].exp \in Row
           /\ req[h].op # "update" => req[h].matched = TRUE
           /\ EventOf(req[h]) \in Event
           /\ EventOf(req[h]).payload = req[h].exp
           /\ EventOf(req[h]).created_at = req[h].created_at
           /\ EventOf(req[h]).event_type = "DELETE" <=> req[h].op = "delete"
           /\ EventOf(req[h]).event_type = "UPSERT" <=> req[h].op # "delete"
           /\ committed' = committed \cup {EventOf(req[h])}
           /\ experiments' = Applied(req[h])
           /\ req' = [req EXCEPT ![h] = Idle]
<1>1. /\ req[h].pc = "staged" /\ req[h] \in Request /\ RequestOK(req[h])
      /\ committed' = committed \cup {EventOf(req[h])}
      /\ experiments' = Applied(req[h])
      /\ req' = [req EXCEPT ![h] = Idle]
  BY RequestFacts DEF Commit
<1>2. req[h].exp \in Experiment /\ req[h].created_at \in Nat
        /\ req[h].op \in {"none", "create", "update", "delete"}
  BY <1>1 DEF Request
<1>3. /\ req[h].op # "none" /\ req[h].exp.id \in ExperimentIDs
      /\ req[h].op # "delete" => req[h].exp \in Row
      /\ req[h].op # "update" => req[h].matched = TRUE
  BY <1>1 DEF RequestOK, Progress
<1>4. /\ EventOf(req[h]) \in Event
      /\ EventOf(req[h]).payload = req[h].exp
      /\ EventOf(req[h]).created_at = req[h].created_at
      /\ EventOf(req[h]).event_type = "DELETE" <=> req[h].op = "delete"
      /\ EventOf(req[h]).event_type = "UPSERT" <=> req[h].op # "delete"
  BY <1>2 DEF EventOf, Event
<1> QED
  BY <1>1, <1>2, <1>3, <1>4

\* The table after COMMIT, by experiment: that of the request has the row the
\* request wrote if it matched and does not delete; every other is as before.
LEMMA CommitTable ==
    ASSUME IInv, NEW h \in Handlers, Commit(h)
    PROVE  /\ \A row \in experiments' : row.id # req[h].exp.id => row \in experiments
           /\ \A row \in experiments : row.id # req[h].exp.id => row \in experiments'
           /\ \A row \in experiments' : row.id = req[h].exp.id =>
                row = req[h].exp /\ req[h].op # "delete" /\ req[h].matched = TRUE
           /\ (req[h].op # "delete" /\ req[h].matched = TRUE) => req[h].exp \in experiments'
<1> DEFINE r == req[h]
<1>1. r.op \in {"create", "update", "delete"} /\ experiments' = Applied(r) /\ RequestOK(r)
        /\ (r.op # "update" => r.matched = TRUE) /\ r.pc = "staged"
        /\ r.matched \in BOOLEAN
  BY CommitFacts DEF Request
<1> HIDE DEF r
<1>2. CASE r.op = "create"
  <2>1. experiments' = experiments \cup {r.exp} /\ \A row \in experiments : row.id # r.exp.id
    BY <1>1, <1>2 DEF Applied, RequestOK, CreateOK
  <2> QED
    BY <1>1, <1>2, <2>1 DEF r
<1>3. CASE r.op = "update"
  <2>1. experiments' = {IF row.id = r.exp.id THEN r.exp ELSE row : row \in experiments}
    BY <1>1, <1>3 DEF Applied
  <2>2. r.matched = TRUE => \E row \in experiments : row.id = r.exp.id
    BY <1>1, <1>3 DEF RequestOK, MatchedOK
  <2>3. r.matched = FALSE => \A row \in experiments : row.id # r.exp.id
    BY <1>1, <1>3 DEF RequestOK, UnmatchedOK
  <2>4. r.matched = TRUE => r.exp \in experiments'
    BY <2>1, <2>2
  <2>5. \A row \in experiments' : row.id = r.exp.id => row = r.exp /\ r.matched = TRUE
    BY <1>1, <2>1, <2>3
  <2>6. /\ \A row \in experiments' : row.id # r.exp.id => row \in experiments
        /\ \A row \in experiments : row.id # r.exp.id => row \in experiments'
    BY <2>1
  <2> QED
    BY <1>3, <2>4, <2>5, <2>6 DEF r
<1>4. CASE r.op = "delete"
  <2>1. experiments' = {row \in experiments : row.id # r.exp.id}
    BY <1>1, <1>4 DEF Applied
  <2> QED
    BY <1>4, <2>1 DEF r
<1> QED
  BY <1>1, <1>2, <1>3, <1>4

\* Before it commits: an experiment that has a row has no DELETE, and a matched
\* update or delete has one.
LEMMA MatchedNotDeleted ==
    ASSUME IInv, NEW h \in Handlers, req[h].matched = TRUE, NEW e \in committed,
           e.payload.id = req[h].exp.id
    PROVE  /\ e.event_type # "DELETE"
           /\ \E row \in experiments : row.id = req[h].exp.id
<1>1. req[h].op # "create"
  BY RequestFacts DEF RequestOK, CreateOK
<1>2. \E row \in experiments : row.id = req[h].exp.id
  BY <1>1, RequestFacts DEF RequestOK, MatchedOK
<1> QED
  BY <1>2 DEF IInv, TablesOK, RowLivesUntilDeleted

LEMMA CommitTyping ==
    ASSUME IInv, NEW h \in Handlers, Commit(h)
    PROVE  TypeOK' /\ UniqueRows' /\ EventsOK'
<1> DEFINE ev == EventOf(req[h])
<1>1. TypeOK'
  <2>1. \A row \in experiments' : row \in Row
    BY CommitTable, CommitFacts DEF IInv, TypeOK
  <2>2. committed' \subseteq Event /\ outbox' \subseteq committed'
    BY CommitFacts DEF IInv, TypeOK, Commit
  <2>3. req' \in [Handlers -> Request]
    BY CommitFacts, RequestFacts, IdleFacts
  <2> QED
    BY <2>1, <2>2, <2>3 DEF IInv, TypeOK, Commit
<1>2. UniqueRows'
  BY CommitTable DEF IInv, TablesOK, UniqueRows
<1>3. EventsOK'
  <2>1. ev.created_at <= lastStamp /\ (\A e \in committed : e.created_at # ev.created_at)
    <3>1. StagedOK(req[h]) /\ req[h].pc = "staged" /\ ev.created_at = req[h].created_at
      BY CommitFacts DEF RequestOK
    <3> HIDE DEF ev
    <3> QED
      BY <3>1 DEF StagedOK
  <2>2. /\ ev.event_type = "UPSERT" => ev.payload \in Row
        /\ ev.event_type = "DELETE" => ev.payload.salt = ""
    BY CommitFacts DEF RequestOK, Progress
  <2>3. committed' = committed \cup {ev} /\ lastStamp' = lastStamp /\ EventsOK
    BY CommitFacts DEF Commit, IInv, TablesOK
  <2> HIDE DEF ev
  <2> QED
    BY <2>1, <2>2, <2>3 DEF EventsOK
<1> QED
  BY <1>1, <1>2, <1>3

\* The event of a matched request becomes the newest one of its experiment, and
\* that of an unmatched one belongs to no row.
LEMMA CommitNewest ==
    ASSUME IInv, NEW h \in Handlers, Commit(h)
    PROVE  RowMatchesNewestEvent'
<1> DEFINE r == req[h]
           ev == EventOf(r)
<1>1. /\ committed' = committed \cup {ev} /\ ev.payload = r.exp
      /\ ev.created_at = r.created_at /\ r.created_at \in Nat
  BY CommitFacts DEF Request
<1>2. ASSUME NEW row \in experiments'
      PROVE  \E e \in committed' :
                /\ e.payload = row
                /\ \A f \in committed' : f.payload.id = row.id => f.created_at <= e.created_at
  <2>1. CASE row.id = r.exp.id
    <3>1. row = r.exp /\ r.matched = TRUE
      BY <2>1, CommitTable
    <3>2. \A f \in committed : f.payload.id = r.exp.id => f.created_at < r.created_at
      BY <3>1, CommitFacts DEF RequestOK, StagedOK
    <3>3. \A f \in committed : f.created_at \in Nat
      BY DEF IInv, TypeOK, Event
    <3> HIDE DEF r, ev
    <3>4. \A f \in committed' : f.payload.id = row.id => f.created_at <= ev.created_at
      BY <1>1, <3>1, <3>2, <3>3
    <3> QED
      BY <1>1, <3>1, <3>4
  <2>2. CASE row.id # r.exp.id
    <3>1. row \in experiments
      BY <2>2, CommitTable
    <3>2. PICK e \in committed :
            /\ e.payload = row
            /\ \A f \in committed : f.payload.id = row.id => f.created_at <= e.created_at
      BY <3>1 DEF IInv, TablesOK, RowMatchesNewestEvent
    <3> HIDE DEF r, ev
    <3> QED
      BY <1>1, <2>2, <3>2
  <2> QED
    BY <2>1, <2>2
<1> QED
  BY <1>2 DEF RowMatchesNewestEvent

\* A create starts the life of its experiment, a delete ends it, a matched
\* update goes on with it and an unmatched one comes after its end.
LEMMA CommitLife ==
    ASSUME IInv, NEW h \in Handlers, Commit(h)
    PROVE  RowLivesUntilDeleted'
<1> DEFINE r == req[h]
           ev == EventOf(r)
           HasRow(id) == \E row \in experiments : row.id = id
           HasRowAfter(id) == \E row \in experiments' : row.id = id
           Deleted(id) == \E d \in committed : d.event_type = "DELETE" /\ d.payload.id = id
           DeletedAfter(id) == \E d \in committed' : d.event_type = "DELETE" /\ d.payload.id = id
<1>1. /\ committed' = committed \cup {ev} /\ ev.payload = r.exp
      /\ ev.event_type = "DELETE" <=> r.op = "delete"
  BY CommitFacts
<1>2. ASSUME NEW id, id # r.exp.id
      PROVE  (HasRowAfter(id) <=> HasRow(id)) /\ (DeletedAfter(id) <=> Deleted(id))
  <2>1. HasRowAfter(id) <=> HasRow(id)
    BY <1>2, CommitTable
  <2>2. DeletedAfter(id) <=> Deleted(id)
    <3> HIDE DEF r, ev
    <3> QED
      BY <1>1, <1>2
  <2> QED
    BY <2>1, <2>2
<1>3. HasRowAfter(r.exp.id) <=> ~DeletedAfter(r.exp.id)
  <2>1. CASE r.op = "delete"
    <3>1. DeletedAfter(r.exp.id)
      <4> HIDE DEF r, ev
      <4> QED
        BY <1>1, <2>1
    <3>2. ~HasRowAfter(r.exp.id)
      BY <2>1, CommitTable
    <3> QED
      BY <3>1, <3>2
  <2>2. CASE r.op # "delete" /\ r.matched = TRUE
    <3>1. HasRowAfter(r.exp.id)
      BY <2>2, CommitTable
    <3>2. ~Deleted(r.exp.id)
      BY <2>2, MatchedNotDeleted
    <3>3. ~DeletedAfter(r.exp.id)
      <4> HIDE DEF r, ev
      <4> QED
        BY <1>1, <2>2, <3>2
    <3> QED
      BY <3>1, <3>3
  <2>3. CASE r.op # "delete" /\ r.matched # TRUE
    <3>1. ~HasRowAfter(r.exp.id)
      BY <2>3, CommitTable
    <3>2. Deleted(r.exp.id)
      BY <2>3, CommitFacts DEF RequestOK, UnmatchedOK, Request
    <3>3. DeletedAfter(r.exp.id)
      <4> HIDE DEF r, ev
      <4> QED
        BY <1>1, <3>2
    <3> QED
      BY <3>1, <3>3
  <2> QED
    BY <2>1, <2>2, <2>3
<1>4. ASSUME NEW e \in committed'
      PROVE  HasRowAfter(e.payload.id) <=> ~DeletedAfter(e.payload.id)
  <2>1. CASE e.payload.id = r.exp.id
    <3> HIDE DEF HasRowAfter, DeletedAfter, r
    <3> QED
      BY <1>3, <2>1
  <2>2. CASE e.payload.id # r.exp.id
    <3>1. e \in committed
      <4> HIDE DEF r, ev
      <4> QED
        BY <1>1, <2>2
    <3>2. HasRow(e.payload.id) <=> ~Deleted(e.payload.id)
      BY <3>1 DEF IInv, TablesOK, RowLivesUntilDeleted
    <3> HIDE DEF HasRow, HasRowAfter, Deleted, DeletedAfter, r
    <3> QED
      BY <1>2, <2>2, <3>2
  <2> QED
    BY <2>1, <2>2
<1> QED
  BY <1>4 DEF RowLivesUntilDeleted

LEMMA CommitHistory ==
    ASSUME IInv, NEW h \in Handlers, Commit(h)
    PROVE  DeletedOnce' /\ SaltStable'
<1> DEFINE r == req[h]
           ev == EventOf(r)
<1>1. /\ committed' = committed \cup {ev} /\ ev.payload = r.exp
      /\ ev.event_type = "DELETE" <=> r.op = "delete"
      /\ ev.event_type = "UPSERT" <=> r.op # "delete"
  BY CommitFacts
<1>2. DeletedOnce'
  <2>1. r.op = "delete" =>
          \A d \in committed : d.event_type = "DELETE" => d.payload.id # r.exp.id
    BY CommitFacts, MatchedNotDeleted
  <2>2. DeletedOnce
    BY DEF IInv, TablesOK
  <2> HIDE DEF r, ev
  <2> QED
    BY <1>1, <2>1, <2>2 DEF DeletedOnce
<1>3. SaltStable'
  <2>1. SaltStable
    BY DEF IInv, TablesOK
  <2>2. r.op # "delete" =>
          \A e \in committed :
              e.event_type = "UPSERT" /\ e.payload.id = r.exp.id => e.payload.salt = r.exp.salt
    <3>1. r.op = "create" => \A e \in committed : e.payload.id # r.exp.id
      BY CommitFacts DEF RequestOK, CreateOK
    <3>2. r.op = "update" =>
            \E e \in committed : /\ e.event_type = "UPSERT"
                                 /\ e.payload.id = r.exp.id
                                 /\ e.payload.salt = r.exp.salt
      BY CommitFacts DEF RequestOK, UpdateOK
    <3>3. r.op \in {"create", "update", "delete"}
      BY CommitFacts
    <3> HIDE DEF r
    <3> QED
      BY <2>1, <3>1, <3>2, <3>3 DEF SaltStable
  <2> HIDE DEF r, ev
  <2> QED
    BY <1>1, <2>1, <2>2 DEF SaltStable
<1> QED
  BY <1>2, <1>3

\* The other requests after a COMMIT: their rows are where they were, and the
\* new event is not one of theirs, or they hold no lock.
LEMMA CommitOthers ==
    ASSUME IInv, NEW h \in Handlers, Commit(h), NEW g \in Handlers \ {h}
    PROVE  RequestOK(req[g])'
<1> DEFINE r == req[h]
           s == req[g]
           ev == EventOf(r)
<1>1. /\ committed' = committed \cup {ev} /\ ev.payload = r.exp
      /\ ev.created_at = r.created_at /\ lastStamp' = lastStamp
  BY CommitFacts DEF Commit
<1>2. req'[g] = s /\ s \in Request /\ RequestOK(s) /\ PairOK(s, r) /\ PairOK(r, s)
  BY CommitFacts, RequestFacts
<1>3. r.pc = "staged" /\ r \in Request /\ RequestOK(r)
  BY CommitFacts
<1>4. Progress(req[g])'
  BY <1>2 DEF RequestOK, Progress
<1>5. CreateOK(req[g])'
  <2>1. s.op = "create" => s.exp.id # r.exp.id
    BY <1>2 DEF PairOK
  <2>2. s.op = "create" => /\ \A e \in committed : e.payload.id # s.exp.id
                           /\ \A row \in experiments : row.id # s.exp.id
    BY <1>2 DEF RequestOK, CreateOK
  <2>3. s.op = "create" => \A row \in experiments' : row.id # s.exp.id
    BY <2>1, <2>2, CommitTable
  <2> HIDE DEF r, s, ev
  <2>4. s.op = "create" => \A e \in committed' : e.payload.id # s.exp.id
    BY <1>1, <2>1, <2>2
  <2> QED
    BY <1>2, <2>3, <2>4 DEF CreateOK
<1>6. UpdateOK(req[g])'
  <2>1. UpdateOK(s)
    BY <1>2 DEF RequestOK
  <2> HIDE DEF s, ev
  <2> QED
    BY <1>1, <1>2, <2>1 DEF UpdateOK
<1>7. MatchedOK(req[g])'
  <2>1. s.matched = TRUE /\ r.matched = TRUE => s.exp.id # r.exp.id
    BY <1>2 DEF PairOK
  <2>2. s.matched = TRUE /\ s.op # "create" => \E row \in experiments : row.id = s.exp.id
    BY <1>2 DEF RequestOK, MatchedOK
  <2>3. r.matched # TRUE => \A row \in experiments : row.id # r.exp.id
    BY <1>3 DEF RequestOK, UnmatchedOK, Request
  <2>4. s.matched = TRUE /\ s.op # "create" => s.exp.id # r.exp.id
    BY <2>1, <2>2, <2>3
  <2>5. s.matched = TRUE /\ s.op # "create" => \E row \in experiments' : row.id = s.exp.id
    BY <2>2, <2>4, CommitTable
  <2> QED
    BY <1>2, <2>5 DEF MatchedOK
<1>8. UnmatchedOK(req[g])'
  <2>1. CASE s.pc \in {"executed", "staged"} /\ s.matched = FALSE
    <3>1. UnmatchedOK(s)
      BY <1>2 DEF RequestOK
    <3>2. \A row \in experiments : row.id # s.exp.id
      BY <2>1, <3>1 DEF UnmatchedOK
    <3>3. PICK d \in committed :
            /\ d.event_type = "DELETE"
            /\ d.payload.id = s.exp.id
            /\ s.pc = "staged" => d.created_at < s.created_at
      BY <2>1, <3>1 DEF UnmatchedOK
    <3>4. r.matched = TRUE => r.exp.id # s.exp.id
      BY <3>3, MatchedNotDeleted
    <3>5. \A row \in experiments' : row.id # s.exp.id
      BY <3>2, <3>4, CommitTable
    <3>6. d \in committed'
      BY <1>1
    <3> HIDE DEF r, s, ev
    <3> QED
      BY <1>2, <3>3, <3>5, <3>6 DEF UnmatchedOK
  <2>2. CASE ~(s.pc \in {"executed", "staged"} /\ s.matched = FALSE)
    BY <1>2, <2>2 DEF UnmatchedOK
  <2> QED
    BY <2>1, <2>2
<1>9. StagedOK(req[g])'
  <2>1. CASE s.pc = "staged"
    <3>1. s.created_at # r.created_at
      BY <1>2, <1>3, <2>1 DEF PairOK
    <3>2. StagedOK(s)
      BY <1>2 DEF RequestOK
    <3>3. s.matched = TRUE => s.exp.id # r.exp.id
      <4>1. CASE r.matched = TRUE
        BY <1>2, <4>1 DEF PairOK
      <4>2. CASE r.matched # TRUE
        <5>1. \A row \in experiments : row.id # r.exp.id
          BY <1>3, <4>2 DEF RequestOK, UnmatchedOK, Request
        <5>2. s.matched = TRUE /\ s.op # "create" =>
                \E row \in experiments : row.id = s.exp.id
          BY <1>2 DEF RequestOK, MatchedOK
        <5>3. s.op = "create" => s.exp.id # r.exp.id
          BY <1>2 DEF PairOK
        <5> QED
          BY <5>1, <5>2, <5>3
      <4> QED
        BY <4>1, <4>2
    <3> HIDE DEF r, s, ev
    <3> QED
      BY <1>1, <1>2, <2>1, <3>1, <3>2, <3>3 DEF StagedOK
  <2>2. CASE s.pc # "staged"
    BY <1>2, <2>2 DEF StagedOK
  <2> QED
    BY <2>1, <2>2
<1> QED
  BY <1>4, <1>5, <1>6, <1>7, <1>8, <1>9 DEF RequestOK

LEMMA CommitStep ==
    ASSUME IInv, NEW h \in Handlers, Commit(h)
    PROVE  IInv'
<1>1. req'[h] = Idle /\ \A g \in Handlers \ {h} : req'[g] = req[g]
  BY CommitFacts, RequestFacts
<1>2. RequestOK(req[h])'
  BY <1>1, IdleFacts
     DEF RequestOK, Progress, CreateOK, UpdateOK, MatchedOK, UnmatchedOK, StagedOK
<1>3. \A g \in Handlers : RequestOK(req[g])'
  BY <1>2, CommitOthers
<1>4. ASSUME NEW f \in Handlers, NEW g \in Handlers, f # g
      PROVE  PairOK(req[f], req[g])'
  <2>1. CASE f = h
    BY <1>1, <2>1, IdleFacts DEF PairOK
  <2>2. CASE g = h
    <3>1. req[f].op = "create" => req[f].exp.id # ""
      BY RequestFacts, IdleFacts, ConstantsAssumption DEF RequestOK, Progress
    <3>2. req'[f] = req[f]
      BY <1>1, <1>4, <2>2
    <3> QED
      BY <1>1, <2>2, <3>1, <3>2, IdleFacts DEF PairOK
  <2>3. CASE f # h /\ g # h
    <3>1. PairOK(req[f], req[g]) /\ req'[f] = req[f] /\ req'[g] = req[g]
      BY <1>1, <1>4, <2>3 DEF IInv
    <3> QED
      BY <3>1 DEF PairOK
  <2> QED
    BY <2>1, <2>2, <2>3
<1> QED
  BY <1>3, <1>4, CommitTyping, CommitNewest, CommitLife, CommitHistory DEF IInv, TablesOK

-----------------------------------------------------------------------------
(* The theorems.                                                           *)

LEMMA InitIInv == ApiInit => IInv
<1> SUFFICES ASSUME ApiInit PROVE IInv
  OBVIOUS
<1>1. TypeOK
  BY IdleFacts DEF ApiInit, TypeOK
<1>2. TablesOK
  BY DEF ApiInit, TablesOK, UniqueRows, EventsOK, RowMatchesNewestEvent,
         RowLivesUntilDeleted, DeletedOnce, SaltStable
<1>3. \A h \in Handlers : RequestOK(req[h])
  BY IdleFacts DEF ApiInit, RequestOK, Progress, CreateOK, UpdateOK, MatchedOK,
                   UnmatchedOK, StagedOK
<1>4. \A g, h \in Handlers : g # h => PairOK(req[g], req[h])
  BY IdleFacts DEF ApiInit, PairOK
<1> QED
  BY <1>1, <1>2, <1>3, <1>4 DEF IInv

LEMMA ApiStep == IInv /\ [ApiNext]_apiVars => IInv'
<1> SUFFICES ASSUME IInv, [ApiNext]_apiVars PROVE IInv'
  OBVIOUS
<1>1. ASSUME NEW h \in Handlers, HandlerStep(h) PROVE IInv'
  BY <1>1, CreateExperimentStep, FindForUpdateStep, NewVersionStep, InsertRowStep,
     UpdateRowStep, DeleteRowStep, InsertOutboxEventStep, CommitStep, AbortStep
     DEF HandlerStep
<1>2. CASE UNCHANGED apiVars
  <2>1. TypeOK' /\ TablesOK'
    BY <1>2
       DEF apiVars, IInv, TypeOK, TablesOK, UniqueRows, EventsOK, RowMatchesNewestEvent,
           RowLivesUntilDeleted, DeletedOnce, SaltStable
  <2>2. ASSUME NEW h \in Handlers PROVE RequestOK(req[h])'
    BY <1>2, RequestFacts, RequestStays DEF apiVars, IInv, TypeOK
  <2>3. \A g, h \in Handlers : g # h => PairOK(req[g], req[h])'
    BY <1>2 DEF apiVars, IInv, PairOK
  <2> QED
    BY <2>1, <2>2, <2>3 DEF IInv
<1> QED
  BY <1>1, <1>2 DEF ApiNext

\* The inductive invariant of central-api and its tables.
THEOREM ApiInvariant == ApiSpec => []IInv
<1> QED
  BY InitIInv, ApiStep, PTL DEF ApiSpec

\* Every variable of central-api keeps its type.
THEOREM ApiTyping == ApiSpec => []TypeOK
<1>1. IInv => TypeOK
  BY DEF IInv
<1> QED
  BY <1>1, ApiInvariant, PTL

\* Two events of one experiment that are both its newest are one.
LEMMA OneLast ==
    ASSUME EventsOK, committed \subseteq Event,
           NEW e \in committed, NEW f \in committed,
           IsLast(e), IsLast(f), e.payload.id = f.payload.id
    PROVE  e = f
<1>1. e.created_at <= f.created_at /\ f.created_at <= e.created_at
  BY DEF IsLast
<1>2. e.created_at \in Nat /\ f.created_at \in Nat
  BY DEF Event
<1>3. e.created_at = f.created_at
  BY <1>1, <1>2
<1> QED
  BY <1>3, Zenon DEF EventsOK

\* What the replay leaves beyond the table follows a DELETE.
LEMMA GhostsFollowDeletes ==
    ASSUME IInv, NEW e \in Replayed, e.payload \notin experiments
    PROVE  Stray(e)
<1>1. e \in committed /\ IsLast(e) /\ e.event_type = "UPSERT"
  BY DEF Replayed
<1>2. EventsOK /\ committed \subseteq Event
  BY DEF IInv, TablesOK, TypeOK
<1>3. \A row \in experiments : row.id # e.payload.id
  <2> SUFFICES ASSUME NEW row \in experiments, row.id = e.payload.id
               PROVE  FALSE
    OBVIOUS
  <2>1. PICK f \in committed :
          f.payload = row /\ \A g \in committed : g.payload.id = row.id => g.created_at <= f.created_at
    BY DEF IInv, TablesOK, RowMatchesNewestEvent
  <2>2. IsLast(f)
    BY <2>1 DEF IsLast
  <2>3. f.payload.id = e.payload.id
    BY <2>1
  <2>4. e = f
    BY <1>1, <1>2, <2>2, <2>3, OneLast
  <2> QED
    BY <2>1, <2>4
<1>4. PICK d \in committed : d.event_type = "DELETE" /\ d.payload.id = e.payload.id
  BY <1>1, <1>3 DEF IInv, TablesOK, RowLivesUntilDeleted
<1>5. d.created_at <= e.created_at
  BY <1>1, <1>4 DEF IsLast
<1>6. d.created_at # e.created_at
  BY <1>1, <1>2, <1>4, Zenon DEF EventsOK
<1>7. d.created_at \in Nat /\ e.created_at \in Nat
  BY <1>1, <1>2 DEF Event
<1>8. d.created_at < e.created_at
  BY <1>5, <1>6, <1>7
<1> QED
  BY <1>4, <1>8 DEF Stray

\* Replaying the outbox yields the table and, beyond it, only experiments that
\* an UPSERT committed after their DELETE brings back.
THEOREM ReplayedTable == ApiSpec => []ReplayYieldsTable
<1>1. ASSUME IInv, NEW row \in experiments
      PROVE  \E e \in Replayed : e.payload = row
  <2>1. PICK e \in committed :
          e.payload = row /\ \A f \in committed : f.payload.id = row.id => f.created_at <= e.created_at
    BY <1>1 DEF IInv, TablesOK, RowMatchesNewestEvent
  <2>2. IsLast(e)
    BY <2>1 DEF IsLast
  <2>3. row \in Row /\ row.salt # ""
    BY <1>1, ConstantsAssumption DEF IInv, TypeOK, Row
  <2>4. e.event_type # "DELETE"
    BY <1>1, <2>1, <2>3 DEF IInv, TablesOK, EventsOK
  <2>5. e.event_type = "UPSERT"
    BY <1>1, <2>4 DEF IInv, TypeOK, Event
  <2> QED
    BY <2>1, <2>2, <2>5 DEF Replayed
<1>2. IInv => ReplayYieldsTable
  BY <1>1, GhostsFollowDeletes DEF ReplayYieldsTable
<1> QED
  BY <1>2, ApiInvariant, PTL

\* A committed experiment has a row exactly until its DELETE commits.
THEOREM LifeOfRow == ApiSpec => []RowLivesUntilDeleted
<1>1. IInv => RowLivesUntilDeleted
  BY DEF IInv, TablesOK
<1> QED
  BY <1>1, ApiInvariant, PTL

\* Of the concurrent deletes of an experiment one takes effect.
THEOREM OneDelete == ApiSpec => []DeletedOnce
<1>1. IInv => DeletedOnce
  BY DEF IInv, TablesOK
<1> QED
  BY <1>1, ApiInvariant, PTL

\* All committed versions of an experiment have one salt.
THEOREM OneSalt == ApiSpec => []SaltStable
<1>1. IInv => SaltStable
  BY DEF IInv, TablesOK
<1> QED
  BY <1>1, ApiInvariant, PTL

-----------------------------------------------------------------------------
(* The refinement of ExperimentTable.                                      *)

\* A COMMIT records one change, of one of the four kinds.
LEMMA CommitRecords ==
    ASSUME IInv, NEW h \in Handlers, Commit(h)
    PROVE  Table!TableNext
<1> DEFINE r == req[h]
           ev == EventOf(r)
<1>1. /\ r.op \in {"create", "update", "delete"} /\ r.matched \in BOOLEAN
      /\ r.op # "update" => r.matched = TRUE
      /\ ev \in Event /\ ev.payload = r.exp /\ ev.created_at = r.created_at
      /\ ev.event_type = "DELETE" <=> r.op = "delete"
      /\ ev.event_type = "UPSERT" <=> r.op # "delete"
      /\ committed' = committed \cup {ev}
      /\ r.pc = "staged" /\ RequestOK(r)
  BY CommitFacts DEF Request
<1>2. ev \notin committed
  BY <1>1 DEF RequestOK, StagedOK
<1>3. r.matched = TRUE => Table!IsNewest(ev)
  BY <1>1 DEF RequestOK, StagedOK, Table!IsNewest, Table!Of
<1>4. r.op \in {"update", "delete"} /\ r.matched = TRUE =>
        \E row \in experiments : row.id = r.exp.id
  BY <1>1 DEF RequestOK, MatchedOK
<1>5. \A row, other \in experiments : row.id = other.id => row = other
  BY DEF IInv, TablesOK, UniqueRows
<1>6. Table!Insert(ev) \/ Table!Replace(ev) \/ Table!Stray(ev) \/ Table!Remove(ev)
  <2>1. CASE r.op = "create"
    <3>1. /\ \A e \in committed : e.payload.id # r.exp.id
          /\ \A row \in experiments : row.id # r.exp.id
      BY <1>1, <2>1 DEF RequestOK, CreateOK
    <3>2. experiments' = experiments \cup {r.exp}
      BY <1>1, <2>1, CommitFacts DEF Applied
    <3> HIDE DEF r, ev
    <3> QED
      BY <1>1, <2>1, <3>1, <3>2 DEF Table!Insert, Table!Of
  <2>2. CASE r.op = "update" /\ r.matched = TRUE
    <3>1. PICK row \in experiments : row.id = r.exp.id
      BY <1>4, <2>2
    <3>2. row.salt = r.exp.salt
      <4>1. PICK e \in committed : e.event_type = "UPSERT" /\ e.payload = row
        BY RowsCommitted
      <4>2. PICK f \in committed : /\ f.event_type = "UPSERT"
                                   /\ f.payload.id = r.exp.id
                                   /\ f.payload.salt = r.exp.salt
        BY <1>1, <2>2 DEF RequestOK, UpdateOK
      <4> QED
        BY <3>1, <4>1, <4>2 DEF IInv, TablesOK, SaltStable
    <3>3. experiments' = (experiments \ {row}) \cup {r.exp}
      <4>1. /\ \A x \in experiments' : x.id # r.exp.id => x \in experiments
            /\ \A x \in experiments : x.id # r.exp.id => x \in experiments'
            /\ \A x \in experiments' : x.id = r.exp.id => x = r.exp
            /\ r.exp \in experiments'
        BY <2>2, CommitTable
      <4> HIDE DEF r
      <4> QED
        BY <1>5, <3>1, <4>1
    <3> HIDE DEF r, ev
    <3> QED
      BY <1>1, <1>3, <2>2, <3>1, <3>2, <3>3 DEF Table!Replace
  <2>3. CASE r.op = "update" /\ r.matched = FALSE
    <3>1. /\ \A row \in experiments : row.id # r.exp.id
          /\ \E d \in committed : d.event_type = "DELETE" /\ d.payload.id = r.exp.id
      BY <1>1, <2>3 DEF RequestOK, UnmatchedOK
    <3>2. experiments' = experiments
      <4>1. /\ \A x \in experiments' : x.id # r.exp.id => x \in experiments
            /\ \A x \in experiments : x.id # r.exp.id => x \in experiments'
            /\ \A x \in experiments' : x.id # r.exp.id
        BY <2>3, CommitTable
      <4> HIDE DEF r
      <4> QED
        BY <3>1, <4>1
    <3> HIDE DEF r, ev
    <3> QED
      BY <1>1, <2>3, <3>1, <3>2 DEF Table!Stray, Table!Deleted, Table!Of
  <2>4. CASE r.op = "delete"
    <3>1. PICK row \in experiments : row.id = r.exp.id
      BY <1>1, <1>4, <2>4
    <3>2. experiments' = {x \in experiments : x.id # r.exp.id}
      BY <2>4, CommitFacts DEF Applied
    <3>3. experiments' = experiments \ {row}
      BY <1>5, <3>1, <3>2
    <3> HIDE DEF r, ev
    <3> QED
      BY <1>1, <1>3, <2>4, <3>1, <3>3 DEF Table!Remove
  <2> QED
    BY <1>1, <2>1, <2>2, <2>3, <2>4
<1> HIDE DEF r, ev
<1>7. Table!Record(ev)
  BY <1>1, <1>2, <1>6 DEF Table!Record
<1> QED
  BY <1>1, <1>7 DEF Table!TableNext

\* Every step of a handler is a COMMIT or changes neither table.
LEMMA StepRefines == IInv /\ [ApiNext]_apiVars => [Table!TableNext]_(Table!tableVars)
<1> SUFFICES ASSUME IInv, [ApiNext]_apiVars
             PROVE  [Table!TableNext]_(Table!tableVars)
  OBVIOUS
<1>1. ASSUME NEW h \in Handlers, HandlerStep(h)
      PROVE  Table!TableNext \/ UNCHANGED <<experiments, committed>>
  <2>1. CASE Commit(h)
    BY <2>1, CommitRecords
  <2>2. CASE CreateExperiment(h)
    BY <2>2 DEF CreateExperiment
  <2>3. CASE FindForUpdate(h)
    BY <2>3 DEF FindForUpdate
  <2>4. CASE NewVersion(h)
    BY <2>4 DEF NewVersion
  <2>5. CASE InsertRow(h)
    BY <2>5 DEF InsertRow
  <2>6. CASE UpdateRow(h)
    BY <2>6 DEF UpdateRow
  <2>7. CASE DeleteRow(h)
    BY <2>7 DEF DeleteRow
  <2>8. CASE InsertOutboxEvent(h)
    BY <2>8 DEF InsertOutboxEvent
  <2>9. CASE Abort(h)
    BY <2>9 DEF Abort
  <2> QED
    BY <1>1, <2>1, <2>2, <2>3, <2>4, <2>5, <2>6, <2>7, <2>8, <2>9
       DEF HandlerStep
<1>2. CASE UNCHANGED apiVars
  BY <1>2 DEF apiVars, Table!tableVars
<1> QED
  BY <1>1, <1>2 DEF ApiNext, Table!tableVars

\* However the requests overlap, each COMMIT is one change of one experiment with
\* its event, of the kinds ExperimentTable names.
THEOREM ApiImplementsTable == ApiSpec => TableRefinement
<1>1. ApiInit => Table!TableInit
  BY DEF ApiInit, Table!TableInit
<1> QED
  BY <1>1, StepRefines, ApiInvariant, PTL DEF ApiSpec, TableRefinement, Table!TableSpec
=============================================================================
