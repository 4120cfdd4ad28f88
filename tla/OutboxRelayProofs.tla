------------------------- MODULE OutboxRelayProofs -------------------------
(***************************************************************************)
(* The invariants of OutboxRelay, proved for every number of experiments,  *)
(* requests and workers and every batch size, and its refinement of        *)
(* ExperimentTable and, for one worker, of DeltaFeed.                      *)
(*                                                                         *)
(* The steps of central-api matter to the relay only through the event a   *)
(* COMMIT adds (ApiEffect), and there IInv of CentralApiProofs is what     *)
(* makes the event the newest of its experiment.                           *)
(***************************************************************************)
EXTENDS CentralApiProofs, OutboxRelay

-----------------------------------------------------------------------------
(* The inductive invariant for any number of workers.                      *)

\* The publish loop is done with a row only if it is in the topic or lost.
SentIsDone == \A w \in Workers : worker[w].sent \subseteq Published \cup dropped

\* While nothing has failed, a pending row in the topic is one that some
\* worker's open transaction has published.
PublishedIsSent ==
    faults = 0 =>
        \A e \in outbox : e \in Published => \E w \in Workers : e \in worker[w].sent

RelayInv ==
    /\ IInv
    /\ RelayTypeOK
    /\ BatchesDisjoint
    /\ SentIsDone
    /\ NothingForgotten
    /\ PublishedIsSent
    /\ RepeatedOnlyAfterFault

-----------------------------------------------------------------------------
(* The steps of central-api, seen from the relay.                          *)

\* e is committed, with a created_at that no event has; it is the newest event
\* of its experiment or a stray one.
Commits(e) ==
    /\ e \in Event \ committed
    /\ committed' = committed \cup {e}
    /\ outbox' = outbox \cup {e}
    /\ \/ \A f \in committed : f.payload.id = e.payload.id => f.created_at < e.created_at
       \/ Stray(e)

LEMMA CommitCommits ==
    ASSUME IInv, NEW h \in Handlers, Commit(h)
    PROVE  Commits(EventOf(req[h]))
<1> DEFINE e == EventOf(req[h])
<1>1. /\ e \in Event /\ e.payload = req[h].exp /\ e.created_at = req[h].created_at
      /\ req[h].pc = "staged" /\ RequestOK(req[h]) /\ req[h] \in Request
      /\ committed' = committed \cup {e}
  BY CommitFacts
<1>2. outbox' = outbox \cup {e}
  BY DEF Commit
<1>3. \A f \in committed :
        /\ f.created_at # e.created_at
        /\ (req[h].matched = TRUE /\ f.payload.id = e.payload.id)
              => f.created_at < e.created_at
  BY <1>1 DEF RequestOK, StagedOK
<1>4. e \notin committed
  BY <1>3
<1>5. CASE req[h].matched = TRUE
  BY <1>1, <1>2, <1>3, <1>4, <1>5 DEF Commits
<1>6. CASE req[h].matched = FALSE
  <2>1. Stray(e)
    BY <1>1, <1>6 DEF RequestOK, UnmatchedOK, Stray
  <2> QED
    BY <1>1, <1>2, <1>4, <2>1 DEF Commits
<1>7. req[h].matched \in BOOLEAN
  BY <1>1 DEF Request
<1> QED
  BY <1>5, <1>6, <1>7

LEMMA ApiEffect ==
    ASSUME IInv, ApiNext
    PROVE  UNCHANGED <<committed, outbox>> \/ \E e : Commits(e)
<1>1. PICK h \in Handlers : HandlerStep(h)
  BY DEF ApiNext
<1>2. CASE Commit(h)
  BY <1>2, CommitCommits
<1>3. CASE ~Commit(h)
  BY <1>1, <1>3
     DEF HandlerStep, CreateExperiment, FindForUpdate, NewVersion, InsertRow, UpdateRow,
         DeleteRow, InsertOutboxEvent, Abort
<1> QED
  BY <1>2, <1>3

-----------------------------------------------------------------------------
(* What the steps of a worker do to its record and to the topic.           *)

LEMMA SendFacts ==
    ASSUME RelayTypeOK, NEW w \in Workers, NEW e \in worker[w].batch,
           worker' = [worker EXCEPT ![w].sent = @ \cup {e}]
    PROVE  /\ worker' \in [Workers -> WorkerState]
           /\ \A v \in Workers : worker'[v].batch = worker[v].batch
           /\ \A v \in Workers : v # w => worker'[v] = worker[v]
           /\ worker'[w].sent = worker[w].sent \cup {e}
           /\ \A v \in Workers : worker'[v].sent \subseteq worker'[v].batch
<1>1. worker \in [Workers -> WorkerState]
  BY DEF RelayTypeOK
<1>2. /\ worker'[w].batch = worker[w].batch
      /\ worker'[w].sent = worker[w].sent \cup {e}
      /\ \A v \in Workers : v # w => worker'[v] = worker[v]
  BY <1>1 DEF WorkerState
<1>3. worker' \in [Workers -> WorkerState]
  BY <1>1 DEF WorkerState
<1>4. \A v \in Workers : worker[v].sent \subseteq worker[v].batch
  BY DEF RelayTypeOK
<1> QED
  BY <1>2, <1>3, <1>4

LEMMA PollFacts ==
    ASSUME RelayTypeOK, NEW w \in Workers, NEW batch \in SUBSET Event,
           worker[w].batch = {},
           worker' = [worker EXCEPT ![w].batch = batch]
    PROVE  /\ worker' \in [Workers -> WorkerState]
           /\ worker'[w].batch = batch
           /\ worker[w].sent = {}
           /\ \A v \in Workers : worker'[v].sent = worker[v].sent
           /\ \A v \in Workers : v # w => worker'[v] = worker[v]
           /\ \A v \in Workers : worker'[v].sent \subseteq worker'[v].batch
<1>1. worker \in [Workers -> WorkerState]
  BY DEF RelayTypeOK
<1>2. /\ worker'[w].batch = batch
      /\ worker'[w].sent = worker[w].sent
      /\ \A v \in Workers : v # w => worker'[v] = worker[v]
  BY <1>1 DEF WorkerState
<1>3. worker' \in [Workers -> WorkerState]
  BY <1>1 DEF WorkerState
<1>4. \A v \in Workers : worker[v].sent \subseteq worker[v].batch
  BY DEF RelayTypeOK
<1> QED
  BY <1>2, <1>3, <1>4

LEMMA RestFacts ==
    ASSUME RelayTypeOK, NEW w \in Workers,
           worker' = [worker EXCEPT ![w] = Resting]
    PROVE  /\ worker' \in [Workers -> WorkerState]
           /\ worker'[w].batch = {} /\ worker'[w].sent = {}
           /\ \A v \in Workers : v # w => worker'[v] = worker[v]
           /\ \A v \in Workers : worker'[v].sent \subseteq worker'[v].batch
<1>1. worker \in [Workers -> WorkerState] /\ Resting \in WorkerState
  BY DEF RelayTypeOK, WorkerState, Resting
<1>2. /\ worker'[w] = Resting
      /\ \A v \in Workers : v # w => worker'[v] = worker[v]
      /\ worker' \in [Workers -> WorkerState]
  BY <1>1
<1>3. \A v \in Workers : worker[v].sent \subseteq worker[v].batch
  BY DEF RelayTypeOK
<1> QED
  BY <1>2, <1>3 DEF Resting

LEMMA AppendFacts ==
    ASSUME NEW e \in committed, topic \in Seq(committed), topic' = Append(topic, e)
    PROVE  /\ topic' \in Seq(committed)
           /\ Len(topic) \in Nat
           /\ Len(topic') = Len(topic) + 1
           /\ \A i \in 1..Len(topic) : topic'[i] = topic[i]
           /\ topic'[Len(topic')] = e
           /\ Published' = Published \cup {e}
<1>1. /\ topic' \in Seq(committed) /\ Len(topic) \in Nat
      /\ Len(topic') = Len(topic) + 1
      /\ \A i \in 1..Len(topic) : topic'[i] = topic[i]
      /\ topic'[Len(topic')] = e
  OBVIOUS
<1>2. 1..Len(topic') = 1..Len(topic) \cup {Len(topic')}
  BY <1>1
<1>3. Published' = Published \cup {e}
  BY <1>1, <1>2 DEF Published
<1> QED
  BY <1>1, <1>3

LEMMA PublishedCommitted ==
    ASSUME RelayTypeOK
    PROVE  Published \subseteq committed
BY DEF RelayTypeOK, Published

LEMMA TopicGrows ==
    ASSUME topic \in Seq(committed), committed \subseteq committed'
    PROVE  topic \in Seq(committed')
OBVIOUS

-----------------------------------------------------------------------------
(* Every step keeps the invariant.                                         *)

\* Only IInv speaks of central-api's variables beyond committed and outbox.
LEMMA ApiVarsStay ==
    ASSUME IInv, UNCHANGED apiVars
    PROVE  IInv' /\ UNCHANGED <<committed, outbox>>
BY ApiStep DEF apiVars

LEMMA UnchangedStep ==
    ASSUME RelayInv, IInv', UNCHANGED relayVars, UNCHANGED <<committed, outbox>>
    PROVE  RelayInv'
BY DEF RelayInv, relayVars, RelayTypeOK, BatchesDisjoint, SentIsDone, NothingForgotten,
       PublishedIsSent, RepeatedOnlyAfterFault, Published

LEMMA CommitsStep ==
    ASSUME RelayInv, IInv', UNCHANGED relayVars, NEW e, Commits(e)
    PROVE  RelayInv'
<1> USE DEF Commits
<1>1. /\ worker' = worker /\ topic' = topic /\ dropped' = dropped /\ faults' = faults
      /\ Published' = Published
  BY DEF relayVars, Published
<1>2. RelayTypeOK'
  <2>1. topic' \in Seq(committed')
    BY <1>1, TopicGrows DEF RelayInv, RelayTypeOK
  <2> QED
    BY <1>1, <2>1 DEF RelayInv, RelayTypeOK
<1>3. BatchesDisjoint'
  BY <1>1 DEF RelayInv, BatchesDisjoint
<1>4. SentIsDone' /\ NothingForgotten'
  BY <1>1 DEF RelayInv, SentIsDone, NothingForgotten
<1>5. PublishedIsSent'
  <2>1. e \notin Published
    BY PublishedCommitted DEF RelayInv
  <2> QED
    BY <1>1, <2>1 DEF RelayInv, PublishedIsSent
<1>6. RepeatedOnlyAfterFault'
  BY <1>1 DEF RelayInv, RepeatedOnlyAfterFault
<1> QED
  BY <1>2, <1>3, <1>4, <1>5, <1>6 DEF RelayInv

LEMMA ApiRelayStep ==
    ASSUME RelayInv, Api
    PROVE  RelayInv'
<1>1. IInv'
  BY ApiStep DEF Api, RelayInv
<1>2. CASE UNCHANGED <<committed, outbox>>
  BY <1>1, <1>2, UnchangedStep DEF Api
<1>3. CASE \E e : Commits(e)
  BY <1>1, <1>3, CommitsStep DEF Api
<1> QED
  BY <1>2, <1>3, ApiEffect DEF Api, RelayInv

LEMMA PollStep ==
    ASSUME RelayInv, NEW w \in Workers, Poll(w), UNCHANGED apiVars
    PROVE  RelayInv'
<1>1. IInv' /\ committed' = committed /\ outbox' = outbox
  BY ApiVarsStay DEF RelayInv
<1>2. PICK batch \in SUBSET Free : worker' = [worker EXCEPT ![w].batch = batch]
  BY DEF Poll, Batches
<1>3. /\ worker[w].batch = {} /\ RelayTypeOK
      /\ topic' = topic /\ dropped' = dropped /\ faults' = faults /\ Published' = Published
  BY DEF Poll, RelayInv, Published
<1>4. batch \in SUBSET Event /\ batch \subseteq outbox
  BY DEF Free, RelayInv, IInv, TypeOK
<1>5. /\ worker' \in [Workers -> WorkerState]
      /\ worker'[w].batch = batch
      /\ \A v \in Workers : worker'[v].sent = worker[v].sent
      /\ \A v \in Workers : v # w => worker'[v] = worker[v]
      /\ \A v \in Workers : worker'[v].sent \subseteq worker'[v].batch
  BY <1>2, <1>3, <1>4, PollFacts
<1>6. RelayTypeOK'
  BY <1>1, <1>3, <1>5 DEF RelayTypeOK
<1>7. BatchesDisjoint'
  <2>1. \A v \in Workers : worker[v].batch \cap batch = {}
    BY DEF Free
  <2>2. \A v \in Workers : worker[v].batch \subseteq outbox
    BY DEF RelayInv, BatchesDisjoint
  <2>3. \A v \in Workers : worker'[v].batch \subseteq outbox'
    BY <1>1, <1>4, <1>5, <2>2
  <2>4. ASSUME NEW u \in Workers, NEW v \in Workers, u # v
        PROVE  worker'[v].batch \cap worker'[u].batch = {}
    <3>1. worker[v].batch \cap worker[u].batch = {}
      BY <2>4 DEF RelayInv, BatchesDisjoint
    <3> QED
      BY <1>5, <2>1, <2>4, <3>1
  <2> QED
    BY <2>3, <2>4 DEF BatchesDisjoint
<1>8. SentIsDone' /\ NothingForgotten'
  BY <1>1, <1>3, <1>5 DEF RelayInv, SentIsDone, NothingForgotten
<1>9. PublishedIsSent' /\ RepeatedOnlyAfterFault'
  BY <1>1, <1>3, <1>5 DEF RelayInv, PublishedIsSent, RepeatedOnlyAfterFault
<1> QED
  BY <1>1, <1>6, <1>7, <1>8, <1>9 DEF RelayInv

\* The row at hand is pending and committed, and no other worker has it.
LEMMA NextFacts ==
    ASSUME RelayInv, NEW w \in Workers, NEW e, IsNext(w, e)
    PROVE  /\ e \in worker[w].batch /\ e \notin worker[w].sent
           /\ e \in outbox /\ e \in committed
           /\ \A v \in Workers : v # w => e \notin worker[v].batch
BY DEF IsNext, RelayInv, BatchesDisjoint, IInv, TypeOK

LEMMA PublishStep ==
    ASSUME RelayInv, NEW w \in Workers, Publish(w), UNCHANGED apiVars
    PROVE  RelayInv'
<1>1. IInv' /\ committed' = committed /\ outbox' = outbox
  BY ApiVarsStay DEF RelayInv
<1>2. PICK e \in worker[w].batch :
        /\ IsNext(w, e)
        /\ topic' = Append(topic, e)
        /\ worker' = [worker EXCEPT ![w].sent = @ \cup {e}]
  BY DEF Publish
<1>3. dropped' = dropped /\ faults' = faults /\ RelayTypeOK
  BY DEF Publish, RelayInv
<1>4. /\ e \in worker[w].batch /\ e \notin worker[w].sent
      /\ e \in outbox /\ e \in committed
      /\ \A v \in Workers : v # w => e \notin worker[v].batch
  BY <1>2, NextFacts
<1>5. /\ worker' \in [Workers -> WorkerState]
      /\ \A v \in Workers : worker'[v].batch = worker[v].batch
      /\ \A v \in Workers : v # w => worker'[v] = worker[v]
      /\ worker'[w].sent = worker[w].sent \cup {e}
      /\ \A v \in Workers : worker'[v].sent \subseteq worker'[v].batch
  BY <1>2, <1>3, SendFacts
<1>6. /\ topic' \in Seq(committed)
      /\ Len(topic) \in Nat /\ Len(topic') = Len(topic) + 1
      /\ \A i \in 1..Len(topic) : topic'[i] = topic[i]
      /\ topic'[Len(topic')] = e
      /\ Published' = Published \cup {e}
  BY <1>2, <1>3, <1>4, AppendFacts DEF RelayTypeOK
<1>7. RelayTypeOK'
  BY <1>1, <1>3, <1>5, <1>6 DEF RelayTypeOK
<1>8. BatchesDisjoint'
  BY <1>1, <1>5 DEF RelayInv, BatchesDisjoint
<1>9. SentIsDone'
  BY <1>3, <1>5, <1>6 DEF RelayInv, SentIsDone
<1>10. NothingForgotten'
  BY <1>1, <1>3, <1>6 DEF RelayInv, NothingForgotten
<1>11. PublishedIsSent'
  BY <1>1, <1>3, <1>5, <1>6 DEF RelayInv, PublishedIsSent
<1>12. RepeatedOnlyAfterFault'
  <2> SUFFICES ASSUME faults = 0, NEW i \in 1..Len(topic'), NEW j \in 1..Len(topic'),
                      topic'[i] = topic'[j]
               PROVE  i = j
    BY <1>3 DEF RepeatedOnlyAfterFault
  <2>1. e \notin Published
    <3> SUFFICES ASSUME e \in Published PROVE FALSE
      OBVIOUS
    <3>1. PICK v \in Workers : e \in worker[v].sent
      BY <1>4 DEF RelayInv, PublishedIsSent
    <3>2. worker[v].sent \subseteq worker[v].batch
      BY <1>3 DEF RelayTypeOK
    <3> QED
      BY <1>4, <3>1, <3>2
  <2>2. \A k \in 1..Len(topic) : topic[k] # e
    BY <2>1 DEF Published
  <2>3. \A k, l \in 1..Len(topic) : topic[k] = topic[l] => k = l
    BY DEF RelayInv, RepeatedOnlyAfterFault
  <2> QED
    BY <1>6, <2>2, <2>3
<1> QED
  BY <1>1, <1>7, <1>8, <1>9, <1>10, <1>11, <1>12 DEF RelayInv

LEMMA PublishDroppedStep ==
    ASSUME RelayInv, NEW w \in Workers, PublishDropped(w), UNCHANGED apiVars
    PROVE  RelayInv'
<1>1. IInv' /\ committed' = committed /\ outbox' = outbox
  BY ApiVarsStay DEF RelayInv
<1>2. PICK e \in worker[w].batch :
        /\ IsNext(w, e)
        /\ dropped' = dropped \cup {e}
        /\ worker' = [worker EXCEPT ![w].sent = @ \cup {e}]
  BY DEF PublishDropped
<1>3. /\ topic' = topic /\ Published' = Published /\ RelayTypeOK
      /\ faults' \in 0..MaxFaults /\ faults' # 0
  BY RelayAssumption DEF PublishDropped, RelayInv, RelayTypeOK, Published
<1>4. e \in committed
  BY <1>2, NextFacts
<1>5. /\ worker' \in [Workers -> WorkerState]
      /\ \A v \in Workers : worker'[v].batch = worker[v].batch
      /\ \A v \in Workers : v # w => worker'[v] = worker[v]
      /\ worker'[w].sent = worker[w].sent \cup {e}
      /\ \A v \in Workers : worker'[v].sent \subseteq worker'[v].batch
  BY <1>2, <1>3, SendFacts
<1>6. RelayTypeOK'
  BY <1>1, <1>2, <1>3, <1>4, <1>5 DEF RelayTypeOK
<1>7. BatchesDisjoint'
  BY <1>1, <1>5 DEF RelayInv, BatchesDisjoint
<1>8. SentIsDone'
  BY <1>2, <1>3, <1>5 DEF RelayInv, SentIsDone
<1>9. NothingForgotten'
  BY <1>1, <1>2, <1>3 DEF RelayInv, NothingForgotten
<1>10. PublishedIsSent' /\ RepeatedOnlyAfterFault'
  BY <1>3 DEF PublishedIsSent, RepeatedOnlyAfterFault
<1> QED
  BY <1>1, <1>6, <1>7, <1>8, <1>9, <1>10 DEF RelayInv

LEMMA PublishUnnoticedStep ==
    ASSUME RelayInv, NEW w \in Workers, PublishUnnoticed(w), UNCHANGED apiVars
    PROVE  RelayInv'
<1>1. IInv' /\ committed' = committed /\ outbox' = outbox
  BY ApiVarsStay DEF RelayInv
<1>2. PICK e \in worker[w].batch : IsNext(w, e) /\ topic' = Append(topic, e)
  BY DEF PublishUnnoticed
<1>3. /\ worker' = worker /\ dropped' = dropped /\ RelayTypeOK
      /\ faults' \in 0..MaxFaults /\ faults' # 0
  BY RelayAssumption DEF PublishUnnoticed, RelayInv, RelayTypeOK
<1>4. e \in committed
  BY <1>2, NextFacts
<1>5. topic' \in Seq(committed) /\ Published' = Published \cup {e}
  BY <1>2, <1>3, <1>4, AppendFacts DEF RelayTypeOK
<1>6. RelayTypeOK'
  BY <1>1, <1>3, <1>5 DEF RelayTypeOK
<1>7. BatchesDisjoint'
  BY <1>1, <1>3 DEF RelayInv, BatchesDisjoint
<1>8. SentIsDone' /\ NothingForgotten'
  BY <1>1, <1>3, <1>5 DEF RelayInv, SentIsDone, NothingForgotten
<1>9. PublishedIsSent' /\ RepeatedOnlyAfterFault'
  BY <1>3 DEF PublishedIsSent, RepeatedOnlyAfterFault
<1> QED
  BY <1>1, <1>6, <1>7, <1>8, <1>9 DEF RelayInv

LEMMA RollbackStep ==
    ASSUME RelayInv, NEW w \in Workers, Rollback(w), UNCHANGED apiVars
    PROVE  RelayInv'
<1>1. IInv' /\ committed' = committed /\ outbox' = outbox
  BY ApiVarsStay DEF RelayInv
<1>2. /\ worker' = [worker EXCEPT ![w] = Resting] /\ RelayTypeOK
      /\ topic' = topic /\ Published' = Published /\ dropped' = dropped
      /\ faults' \in 0..MaxFaults /\ faults' # 0
  BY RelayAssumption DEF Rollback, RelayInv, RelayTypeOK, Published
<1>3. /\ worker' \in [Workers -> WorkerState]
      /\ worker'[w].batch = {} /\ worker'[w].sent = {}
      /\ \A v \in Workers : v # w => worker'[v] = worker[v]
      /\ \A v \in Workers : worker'[v].sent \subseteq worker'[v].batch
  BY <1>2, RestFacts
<1>4. RelayTypeOK'
  BY <1>1, <1>2, <1>3 DEF RelayTypeOK
<1>5. BatchesDisjoint'
  BY <1>1, <1>3 DEF RelayInv, BatchesDisjoint
<1>6. SentIsDone' /\ NothingForgotten'
  BY <1>1, <1>2, <1>3 DEF RelayInv, SentIsDone, NothingForgotten
<1>7. PublishedIsSent' /\ RepeatedOnlyAfterFault'
  BY <1>2 DEF PublishedIsSent, RepeatedOnlyAfterFault
<1> QED
  BY <1>1, <1>4, <1>5, <1>6, <1>7 DEF RelayInv

\* A worker's DELETE takes rows out of the outbox, which IInv only bounds.
LEMMA OutboxShrinks ==
    ASSUME IInv, outbox' \subseteq outbox,
           UNCHANGED <<experiments, committed, req, lastVersion, lastStamp>>
    PROVE  IInv'
<1>1. TypeOK' /\ TablesOK'
  BY DEF IInv, TypeOK, TablesOK, UniqueRows, EventsOK, RowMatchesNewestEvent,
         RowLivesUntilDeleted, DeletedOnce, SaltStable
<1>2. ASSUME NEW h \in Handlers PROVE RequestOK(req[h])'
  BY RequestFacts, RequestStays DEF IInv, TypeOK
<1>3. \A g, h \in Handlers : g # h => PairOK(req[g], req[h])'
  BY DEF IInv, PairOK
<1> QED
  BY <1>1, <1>2, <1>3 DEF IInv

LEMMA DeleteStep ==
    ASSUME RelayInv, NEW w \in Workers, Delete(w)
    PROVE  RelayInv'
<1>1. /\ committed' = committed
      /\ outbox' = outbox \ worker[w].batch
      /\ worker[w].sent = worker[w].batch
      /\ worker' = [worker EXCEPT ![w] = Resting]
      /\ topic' = topic /\ Published' = Published /\ dropped' = dropped /\ faults' = faults
      /\ RelayTypeOK
  BY DEF Delete, Finish, RelayInv, Published
<1>2. IInv'
  BY <1>1, OutboxShrinks DEF RelayInv, Delete
<1>3. /\ worker' \in [Workers -> WorkerState]
      /\ worker'[w].batch = {} /\ worker'[w].sent = {}
      /\ \A v \in Workers : v # w => worker'[v] = worker[v]
      /\ \A v \in Workers : worker'[v].sent \subseteq worker'[v].batch
  BY <1>1, RestFacts
<1>4. RelayTypeOK'
  BY <1>1, <1>3 DEF RelayTypeOK
<1>5. BatchesDisjoint'
  BY <1>1, <1>3 DEF RelayInv, BatchesDisjoint
<1>6. SentIsDone'
  BY <1>1, <1>3 DEF RelayInv, SentIsDone
<1>7. NothingForgotten'
  <2>1. worker[w].batch \subseteq Published \cup dropped
    BY <1>1 DEF RelayInv, SentIsDone
  <2> QED
    BY <1>1, <2>1 DEF RelayInv, NothingForgotten
<1>8. PublishedIsSent'
  <2> SUFFICES ASSUME faults = 0, NEW e \in outbox', e \in Published
               PROVE  \E v \in Workers : e \in worker'[v].sent
    BY <1>1 DEF PublishedIsSent
  <2>1. PICK v \in Workers : e \in worker[v].sent
    BY <1>1 DEF RelayInv, PublishedIsSent
  <2>2. v # w
    BY <1>1, <2>1
  <2> QED
    BY <1>3, <2>1, <2>2
<1>9. RepeatedOnlyAfterFault'
  BY <1>1 DEF RelayInv, RepeatedOnlyAfterFault
<1> QED
  BY <1>2, <1>4, <1>5, <1>6, <1>7, <1>8, <1>9 DEF RelayInv

LEMMA KeepsOutboxStep ==
    ASSUME RelayInv, NEW w \in Workers, KeepsOutbox(w)
    PROVE  RelayInv'
BY PollStep, PublishStep, PublishDroppedStep, PublishUnnoticedStep, RollbackStep
   DEF KeepsOutbox

LEMMA InitRelayInv == Init => RelayInv
<1> SUFFICES ASSUME Init PROVE RelayInv
  OBVIOUS
<1>1. IInv /\ outbox = {} /\ committed = {}
  BY InitIInv DEF Init, ApiInit
<1>2. /\ worker = [w \in Workers |-> Resting] /\ topic = <<>> /\ dropped = {} /\ faults = 0
      /\ Resting \in WorkerState /\ Resting.batch = {} /\ Resting.sent = {}
  BY DEF Init, RelayInit, Resting, WorkerState
<1>3. RelayTypeOK
  BY <1>1, <1>2, RelayAssumption DEF RelayTypeOK
<1>4. BatchesDisjoint /\ SentIsDone
  BY <1>1, <1>2 DEF BatchesDisjoint, SentIsDone
<1>5. NothingForgotten /\ PublishedIsSent
  BY <1>1 DEF NothingForgotten, PublishedIsSent
<1>6. RepeatedOnlyAfterFault
  BY <1>2 DEF RepeatedOnlyAfterFault
<1> QED
  BY <1>1, <1>3, <1>4, <1>5, <1>6 DEF RelayInv

LEMMA RelayStep == RelayInv /\ [Next]_vars => RelayInv'
<1> SUFFICES ASSUME RelayInv, [Next]_vars PROVE RelayInv'
  OBVIOUS
<1>1. CASE Api
  BY <1>1, ApiRelayStep
<1>2. ASSUME NEW w \in Workers, KeepsOutbox(w) PROVE RelayInv'
  BY <1>2, KeepsOutboxStep
<1>3. ASSUME NEW w \in Workers, Delete(w) PROVE RelayInv'
  BY <1>3, DeleteStep
<1>4. CASE UNCHANGED vars
  <2>1. UNCHANGED apiVars /\ UNCHANGED relayVars
    BY <1>4 DEF vars, apiVars, relayVars
  <2> QED
    BY <2>1, ApiVarsStay, UnchangedStep DEF RelayInv
<1> QED
  BY <1>1, <1>2, <1>3, <1>4 DEF Next

-----------------------------------------------------------------------------
(* The theorems for any number of workers.                                 *)

\* The inductive invariant of the worker, its producer and central-api.
THEOREM RelayInvariant == Spec => []RelayInv
<1> QED
  BY InitRelayInv, RelayStep, PTL DEF Spec

\* Every variable of the relay keeps its type.
THEOREM RelayTyping == Spec => []RelayTypeOK
<1>1. RelayInv => RelayTypeOK
  BY DEF RelayInv
<1> QED
  BY <1>1, RelayInvariant, PTL

\* Rollbacks and crashes between publish, DELETE and COMMIT lose no event.
THEOREM NoEventForgotten == Spec => []NothingForgotten
<1>1. RelayInv => NothingForgotten
  BY DEF RelayInv
<1> QED
  BY <1>1, RelayInvariant, PTL

\* SKIP LOCKED gives every pending row to one worker at a time.
THEOREM WorkersApart == Spec => []BatchesDisjoint
<1>1. RelayInv => BatchesDisjoint
  BY DEF RelayInv
<1> QED
  BY <1>1, RelayInvariant, PTL

\* As long as nothing fails, no message of the topic is a repetition.
THEOREM NoNeedlessRepetition == Spec => []RepeatedOnlyAfterFault
<1>1. RelayInv => RepeatedOnlyAfterFault
  BY DEF RelayInv
<1> QED
  BY <1>1, RelayInvariant, PTL

-----------------------------------------------------------------------------
(* One worker: the order of the topic.                                     *)

OneWorker == \A v, w \in Workers : v = w

\* f is an event of e's experiment that has to be delivered before e.
Before(f, e) ==
    /\ f.payload.id = e.payload.id
    /\ f.created_at < e.created_at
    /\ ~Stray(f)

\* A batch holds, with an event, all pending ones that come before it.
BatchIsOldest ==
    \A w \in Workers : \A e \in worker[w].batch, f \in outbox :
        Before(f, e) => f \in worker[w].batch

OrderInv ==
    /\ RelayInv
    /\ BatchIsOldest
    /\ PerExperimentOrder

\* An event that commits has no place before an older one: it is the newest of
\* its experiment, or a stray one.
LEMMA NewIsNotBefore ==
    ASSUME IInv, NEW e, Commits(e), NEW f \in committed \cup {e}
    PROVE  ~Before(e, f)' /\ ~Before(e, f)
<1>1. /\ e \in Event /\ e.created_at \in Nat /\ f \in Event /\ f.created_at \in Nat
      /\ committed \subseteq committed'
  BY DEF Commits, Event, IInv, TypeOK
<1>2. Stray(e) => Stray(e)'
  BY <1>1 DEF Stray
<1> QED
  BY <1>1, <1>2 DEF Commits, Before

\* What was stray stays so.
LEMMA BeforeShrinks ==
    ASSUME committed \subseteq committed', NEW e, NEW f, Before(f, e)'
    PROVE  Before(f, e)
BY DEF Before, Stray

LEMMA ApiOrderStep ==
    ASSUME OrderInv, Api
    PROVE  BatchIsOldest' /\ PerExperimentOrder'
<1>1. /\ worker' = worker /\ topic' = topic /\ dropped' = dropped /\ IInv /\ RelayTypeOK
      /\ ApiNext
  BY DEF Api, relayVars, OrderInv, RelayInv
<1>2. CASE UNCHANGED <<committed, outbox>>
  BY <1>1, <1>2 DEF OrderInv, BatchIsOldest, PerExperimentOrder, Before, Stray
<1>3. ASSUME NEW e, Commits(e) PROVE BatchIsOldest' /\ PerExperimentOrder'
  <2>1. /\ committed' = committed \cup {e} /\ outbox' = outbox \cup {e}
        /\ committed \subseteq committed'
    BY <1>3 DEF Commits
  <2>2. BatchIsOldest'
    <3> SUFFICES ASSUME NEW w \in Workers, NEW g \in worker[w].batch, NEW f \in outbox',
                        Before(f, g)'
                 PROVE  f \in worker[w].batch
      BY <1>1 DEF BatchIsOldest
    <3>1. g \in committed
      BY DEF OrderInv, RelayInv, BatchesDisjoint, IInv, TypeOK
    <3>2. f # e
      BY <1>1, <1>3, <3>1, NewIsNotBefore
    <3>3. Before(f, g)
      BY <2>1, BeforeShrinks
    <3> QED
      BY <2>1, <3>2, <3>3 DEF OrderInv, BatchIsOldest
  <2>3. PerExperimentOrder'
    <3> SUFFICES ASSUME NEW i \in 1..Len(topic), NEW f \in committed', Before(f, topic[i])'
                 PROVE  f \in dropped \/ \E j \in 1..(i - 1) : topic[j] = f
      BY <1>1 DEF PerExperimentOrder, Before
    <3>1. topic[i] \in committed
      BY <1>1 DEF RelayTypeOK
    <3>2. f # e
      BY <1>1, <1>3, <3>1, NewIsNotBefore
    <3>3. Before(f, topic[i])
      BY <1>1, <2>1 DEF Before, Stray
    <3> QED
      BY <2>1, <3>2, <3>3 DEF OrderInv, PerExperimentOrder, Before
  <2> QED
    BY <2>2, <2>3
<1> QED
  BY <1>1, <1>2, <1>3, ApiEffect

\* With the row at hand its experiment's earlier events are already done.
LEMMA NextIsInTurn ==
    ASSUME OrderInv, NEW w \in Workers, NEW e, IsNext(w, e),
           NEW f \in committed, Before(f, e)
    PROVE  f \in Published \cup dropped
<1>1. CASE f \notin outbox
  BY <1>1 DEF OrderInv, RelayInv, NothingForgotten
<1>2. CASE f \in outbox
  <2>1. /\ e \in worker[w].batch /\ e \in committed
        /\ \A g \in worker[w].batch \ worker[w].sent : e.created_at <= g.created_at
    BY NextFacts DEF OrderInv, IsNext
  <2>2. f \in worker[w].batch
    BY <1>2, <2>1 DEF OrderInv, BatchIsOldest
  <2>3. e.created_at \in Nat /\ f.created_at \in Nat
    BY <2>1 DEF OrderInv, RelayInv, IInv, TypeOK, Event
  <2>4. f \in worker[w].sent
    BY <2>1, <2>2, <2>3 DEF Before
  <2> QED
    BY <2>4 DEF OrderInv, RelayInv, SentIsDone
<1> QED
  BY <1>1, <1>2

LEMMA PollOrderStep ==
    ASSUME OneWorker, OrderInv, NEW w \in Workers, Poll(w), UNCHANGED apiVars
    PROVE  BatchIsOldest'
<1>1. committed' = committed /\ outbox' = outbox /\ IInv /\ RelayTypeOK
  BY ApiVarsStay DEF OrderInv, RelayInv
<1>2. PICK batch \in Batches : worker' = [worker EXCEPT ![w].batch = batch]
  BY DEF Poll
<1>3. worker[w].batch = {}
  BY DEF Poll
<1>4. batch \subseteq Free /\ \A e \in batch, f \in Free \ batch : e.created_at < f.created_at
  BY <1>2 DEF Batches
<1>5. Free = outbox
  BY <1>3 DEF Free, OneWorker
<1>6. batch \in SUBSET Event /\ \A e \in outbox : e.created_at \in Nat
  BY <1>1, <1>4, <1>5 DEF IInv, TypeOK, Event
<1>7. worker'[w].batch = batch
  BY <1>1, <1>2, <1>3, <1>6, PollFacts
<1> SUFFICES ASSUME NEW v \in Workers, NEW e \in worker'[v].batch, NEW f \in outbox,
                    Before(f, e)'
             PROVE  f \in worker'[v].batch
  BY <1>1 DEF BatchIsOldest
<1>8. v = w
  BY DEF OneWorker
<1>9. f.created_at < e.created_at
  BY DEF Before
<1>10. e \in batch /\ e \in outbox
  BY <1>4, <1>5, <1>7, <1>8
<1>11. f \in batch
  BY <1>4, <1>5, <1>6, <1>9, <1>10
<1> QED
  BY <1>7, <1>8, <1>11

\* What the rest of a worker's steps leave alone.
LEMMA BatchesStay ==
    ASSUME BatchIsOldest, committed' = committed, outbox' \subseteq outbox,
           \A v \in Workers : worker'[v].batch = worker[v].batch \/ worker'[v].batch = {}
    PROVE  BatchIsOldest'
BY DEF BatchIsOldest, Before, Stray

LEMMA TopicStays ==
    ASSUME PerExperimentOrder, committed' = committed, topic' = topic,
           dropped \subseteq dropped'
    PROVE  PerExperimentOrder'
BY DEF PerExperimentOrder, Stray

LEMMA AppendKeepsOrder ==
    ASSUME OrderInv, NEW w \in Workers, NEW e, IsNext(w, e),
           topic' = Append(topic, e), committed' = committed, dropped' = dropped
    PROVE  PerExperimentOrder'
<1>1. e \in committed /\ topic \in Seq(committed)
  BY NextFacts DEF OrderInv, RelayInv, RelayTypeOK
<1>2. /\ Len(topic) \in Nat /\ Len(topic') = Len(topic) + 1
      /\ \A i \in 1..Len(topic) : topic'[i] = topic[i]
      /\ topic'[Len(topic')] = e
  BY <1>1, AppendFacts
<1> SUFFICES ASSUME NEW i \in 1..Len(topic'), NEW f \in committed, Before(f, topic'[i])
             PROVE  f \in dropped \/ \E j \in 1..(i - 1) : topic'[j] = f
  BY DEF PerExperimentOrder, Before, Stray
<1>3. CASE i = Len(topic')
  <2>1. Before(f, e)
    BY <1>2, <1>3
  <2>2. f \in Published \cup dropped
    BY <2>1, NextIsInTurn
  <2>3. f \in Published => \E j \in 1..Len(topic) : topic[j] = f
    BY DEF Published
  <2> QED
    BY <1>2, <1>3, <2>2, <2>3
<1>4. CASE i # Len(topic')
  <2>1. i \in 1..Len(topic) /\ Before(f, topic[i])
    BY <1>2, <1>4
  <2>2. f \in dropped \/ \E j \in 1..(i - 1) : topic[j] = f
    BY <2>1 DEF OrderInv, PerExperimentOrder, Before
  <2> QED
    BY <1>2, <2>1, <2>2
<1> QED
  BY <1>3, <1>4

LEMMA WorkerOrderStep ==
    ASSUME OneWorker, OrderInv, NEW w \in Workers, KeepsOutbox(w)
    PROVE  BatchIsOldest' /\ PerExperimentOrder'
<1>1. /\ committed' = committed /\ outbox' = outbox
      /\ RelayTypeOK /\ BatchIsOldest /\ PerExperimentOrder
  BY DEF KeepsOutbox, apiVars, OrderInv, RelayInv
<1>2. CASE Poll(w)
  <2>1. BatchIsOldest'
    BY <1>2, PollOrderStep DEF KeepsOutbox
  <2> QED
    BY <1>1, <1>2, <2>1, TopicStays DEF Poll
<1>3. CASE Publish(w)
  <2>1. PICK e \in worker[w].batch :
          /\ IsNext(w, e)
          /\ topic' = Append(topic, e)
          /\ worker' = [worker EXCEPT ![w].sent = @ \cup {e}]
    BY <1>3 DEF Publish
  <2>2. BatchIsOldest'
    BY <1>1, <2>1, SendFacts, BatchesStay
  <2> QED
    BY <1>1, <1>3, <2>1, <2>2, AppendKeepsOrder DEF Publish
<1>4. CASE PublishDropped(w)
  <2>1. PICK e \in worker[w].batch :
          /\ dropped' = dropped \cup {e}
          /\ worker' = [worker EXCEPT ![w].sent = @ \cup {e}]
    BY <1>4 DEF PublishDropped
  <2>2. BatchIsOldest'
    BY <1>1, <2>1, SendFacts, BatchesStay
  <2> QED
    BY <1>1, <1>4, <2>1, <2>2, TopicStays DEF PublishDropped
<1>5. CASE PublishUnnoticed(w)
  <2>1. BatchIsOldest'
    BY <1>1, <1>5, BatchesStay DEF PublishUnnoticed
  <2> QED
    BY <1>1, <1>5, <2>1, AppendKeepsOrder DEF PublishUnnoticed
<1>6. CASE Rollback(w)
  <2>1. BatchIsOldest'
    BY <1>1, <1>6, RestFacts, BatchesStay DEF Rollback
  <2> QED
    BY <1>1, <1>6, <2>1, TopicStays DEF Rollback
<1> QED
  BY <1>2, <1>3, <1>4, <1>5, <1>6 DEF KeepsOutbox

LEMMA DeleteOrderStep ==
    ASSUME OrderInv, NEW w \in Workers, Delete(w)
    PROVE  BatchIsOldest' /\ PerExperimentOrder'
<1>1. /\ committed' = committed /\ outbox' \subseteq outbox
      /\ topic' = topic /\ dropped' = dropped
      /\ worker' = [worker EXCEPT ![w] = Resting]
      /\ RelayTypeOK /\ BatchIsOldest /\ PerExperimentOrder
  BY DEF Delete, Finish, OrderInv, RelayInv
<1>2. BatchIsOldest'
  BY <1>1, RestFacts, BatchesStay
<1> QED
  BY <1>1, <1>2, TopicStays

LEMMA OrderInit ==
    ASSUME Init
    PROVE  OrderInv
<1>1. RelayInv /\ outbox = {} /\ committed = {}
  BY InitRelayInv DEF Init, ApiInit
<1> QED
  BY <1>1 DEF OrderInv, BatchIsOldest, PerExperimentOrder

LEMMA OrderStep ==
    ASSUME OneWorker, OrderInv, [Next]_vars
    PROVE  OrderInv'
<1>1. RelayInv'
  BY RelayStep DEF OrderInv
<1>2. CASE Api
  BY <1>1, <1>2, ApiOrderStep DEF OrderInv
<1>3. ASSUME NEW w \in Workers, KeepsOutbox(w) PROVE OrderInv'
  BY <1>1, <1>3, WorkerOrderStep DEF OrderInv
<1>4. ASSUME NEW w \in Workers, Delete(w) PROVE OrderInv'
  BY <1>1, <1>4, DeleteOrderStep DEF OrderInv
<1>5. CASE UNCHANGED vars
  BY <1>1, <1>5 DEF vars, OrderInv, BatchIsOldest, PerExperimentOrder, Before, Stray
<1> QED
  BY <1>2, <1>3, <1>4, <1>5 DEF Next

\* The inductive invariant of the relay with one worker.
THEOREM OrderInvariant ==
    ASSUME OneWorker
    PROVE  Spec => []OrderInv
<1>1. Init => OrderInv
  BY OrderInit
<1>2. OrderInv /\ [Next]_vars => OrderInv'
  BY OrderStep
<1> QED
  BY <1>1, <1>2, PTL DEF Spec

\* One worker publishes the events of an experiment in the order of their
\* commits, whatever fails in between.
THEOREM TopicInOrder ==
    ASSUME OneWorker
    PROVE  Spec => []PerExperimentOrder
<1>1. OrderInv => PerExperimentOrder
  BY DEF OrderInv
<1> QED
  BY <1>1, OrderInvariant, PTL

-----------------------------------------------------------------------------
(* One worker: the refinement of the abstract feed.                        *)

LEMMA DeliveredIsPublished == Feed!Delivered = Published
BY DEF Feed!Delivered, Published

LEMMA FeedBefore ==
    ASSUME NEW f, NEW e
    PROVE  Feed!Precedes(f, e, committed) <=> Before(f, e)
BY DEF Feed!Precedes, Feed!Stray, Before, Stray

LEMMA NextInTurnOfFeed ==
    ASSUME OrderInv, NEW w \in Workers, NEW e, IsNext(w, e)
    PROVE  e \in committed /\ Feed!InTurn(e)
<1>1. \A f \in committed : Before(f, e) => f \in Published \cup dropped
  BY NextIsInTurn
<1>2. e \in committed
  BY NextFacts DEF OrderInv
<1> QED
  BY <1>1, <1>2, DeliveredIsPublished, FeedBefore DEF Feed!InTurn

LEMMA ApiRefines ==
    ASSUME OrderInv, Api
    PROVE  [Feed!FeedNext]_Feed!feedVars
<1>1. topic' = topic /\ dropped' = dropped /\ IInv /\ RelayTypeOK
  BY DEF Api, relayVars, OrderInv, RelayInv
<1>2. CASE UNCHANGED <<committed, outbox>>
  BY <1>1, <1>2 DEF Feed!feedVars
<1>3. ASSUME NEW e, Commits(e) PROVE Feed!CommitChange
  <2>1. e \in Event /\ e \in committed' \ committed /\ committed' = committed \cup {e}
    BY <1>3 DEF Commits
  <2>2. \A f \in Published : ~Feed!Precedes(e, f, committed)
    BY <1>1, <1>3, NewIsNotBefore, PublishedCommitted, FeedBefore
  <2> QED
    BY <1>1, <2>1, <2>2, DeliveredIsPublished DEF Feed!CommitChange
<1> QED
  BY <1>1, <1>2, <1>3, ApiEffect DEF Api, Feed!FeedNext

LEMMA WorkerRefines ==
    ASSUME OrderInv, NEW w \in Workers, KeepsOutbox(w)
    PROVE  [Feed!FeedNext]_Feed!feedVars
<1>1. committed' = committed
  BY DEF KeepsOutbox, apiVars
<1>2. CASE Poll(w) \/ Rollback(w)
  BY <1>1, <1>2 DEF Poll, Rollback, Feed!feedVars
<1>3. CASE Publish(w) \/ PublishUnnoticed(w)
  <2>1. PICK e \in worker[w].batch : IsNext(w, e) /\ topic' = Append(topic, e)
    BY <1>3 DEF Publish, PublishUnnoticed
  <2>2. dropped' = dropped
    BY <1>3 DEF Publish, PublishUnnoticed
  <2>3. Feed!Deliver
    BY <1>1, <2>1, <2>2, NextInTurnOfFeed DEF Feed!Deliver
  <2> QED
    BY <2>3 DEF Feed!FeedNext
<1>4. CASE PublishDropped(w)
  <2>1. PICK e \in worker[w].batch : IsNext(w, e) /\ dropped' = dropped \cup {e}
    BY <1>4 DEF PublishDropped
  <2>2. topic' = topic
    BY <1>4 DEF PublishDropped
  <2>3. Feed!Lose
    BY <1>1, <2>1, <2>2, NextInTurnOfFeed DEF Feed!Lose
  <2> QED
    BY <2>3 DEF Feed!FeedNext
<1> QED
  BY <1>2, <1>3, <1>4 DEF KeepsOutbox

LEMMA NextRefines ==
    ASSUME OrderInv, [Next]_vars
    PROVE  [Feed!FeedNext]_Feed!feedVars
<1>1. ASSUME NEW w \in Workers, Delete(w) PROVE UNCHANGED Feed!feedVars
  BY <1>1 DEF Delete, Finish, Feed!feedVars
<1>2. CASE UNCHANGED vars
  BY <1>2 DEF vars, Feed!feedVars
<1> QED
  BY <1>1, <1>2, ApiRefines, WorkerRefines DEF Next

\* central-api and one worker implement the abstract feed: polling, locking,
\* rolling back and deleting are invisible, and every event is delivered or
\* lost in its turn.
THEOREM RelayImplementsFeed ==
    ASSUME OneWorker
    PROVE  Spec => FeedRefinement
<1>1. Init => Feed!FeedInit
  BY DEF Init, ApiInit, RelayInit, Feed!FeedInit
<1>2. OrderInv /\ [Next]_vars => [Feed!FeedNext]_Feed!feedVars
  BY NextRefines
<1> QED
  BY <1>1, <1>2, OrderInvariant, PTL DEF Spec, FeedRefinement, Feed!FeedSpec

-----------------------------------------------------------------------------
(* One worker: the end of the topic.                                       *)

\* The worker is done with f: it was deleted, or an open transaction is past it.
Settled(f) == f \notin outbox \/ \E w \in Workers : f \in worker[w].sent

\* Nothing pending comes before an event that has left the outbox.
OldestLeaveFirst == \A e \in outbox, f \in committed \ outbox : ~Before(e, f)

\* Within a batch, what comes before a published row is published.
SentInOrder ==
    \A w \in Workers : \A e \in worker[w].batch, f \in worker[w].sent :
        Before(e, f) => e \in worker[w].sent

\* Wherever a message stands, every later event the worker is done with comes
\* after it once more, unless the broker lost it.
CaughtUp ==
    \A i \in 1..Len(topic), f \in committed :
        Before(topic[i], f) /\ Settled(f) =>
            f \in dropped \/ \E j \in (i + 1)..Len(topic) : topic[j] = f

EndInv ==
    /\ OrderInv
    /\ OldestLeaveFirst
    /\ SentInOrder
    /\ CaughtUp

LEMMA SettledByLess ==
    ASSUME CaughtUp, committed' = committed, topic' = topic, dropped \subseteq dropped',
           \A f \in committed : Settled(f)' => Settled(f) \/ f \in dropped'
    PROVE  CaughtUp'
BY DEF CaughtUp, Before, Stray

\* A new event is pending and comes before none that is older.
LEMMA ApiEndStep ==
    ASSUME EndInv, Api
    PROVE  OldestLeaveFirst' /\ SentInOrder' /\ CaughtUp'
<1>1. /\ worker' = worker /\ topic' = topic /\ dropped' = dropped
      /\ IInv /\ RelayTypeOK /\ OldestLeaveFirst /\ SentInOrder /\ CaughtUp
  BY DEF Api, relayVars, EndInv, OrderInv, RelayInv
<1>2. CASE UNCHANGED <<committed, outbox>>
  BY <1>1, <1>2 DEF OldestLeaveFirst, SentInOrder, CaughtUp, Settled, Before, Stray
<1>3. ASSUME NEW e, Commits(e) PROVE OldestLeaveFirst' /\ SentInOrder' /\ CaughtUp'
  <2>1. /\ committed' = committed \cup {e} /\ outbox' = outbox \cup {e}
        /\ committed \subseteq committed' /\ e \notin committed
    BY <1>3 DEF Commits
  <2>2. OldestLeaveFirst'
    <3> SUFFICES ASSUME NEW g \in outbox', NEW f \in committed' \ outbox', Before(g, f)'
                 PROVE  FALSE
      BY DEF OldestLeaveFirst
    <3>1. f \in committed \ outbox
      BY <2>1
    <3>2. g # e
      BY <1>1, <1>3, <3>1, NewIsNotBefore
    <3>3. Before(g, f)
      BY <2>1, BeforeShrinks
    <3> QED
      BY <1>1, <2>1, <3>1, <3>2, <3>3 DEF OldestLeaveFirst
  <2>3. SentInOrder'
    <3> SUFFICES ASSUME NEW w \in Workers, NEW g \in worker[w].batch,
                        NEW f \in worker[w].sent, Before(g, f)'
                 PROVE  g \in worker[w].sent
      BY <1>1 DEF SentInOrder
    <3>1. Before(g, f)
      BY <2>1, BeforeShrinks
    <3> QED
      BY <1>1, <3>1 DEF SentInOrder
  <2>4. CaughtUp'
    <3> SUFFICES ASSUME NEW i \in 1..Len(topic), NEW f \in committed',
                        Before(topic[i], f)', Settled(f)'
                 PROVE  f \in dropped \/ \E j \in (i + 1)..Len(topic) : topic[j] = f
      BY <1>1 DEF CaughtUp, Before
    <3>1. f # e
      <4>1. \A w \in Workers : worker[w].sent \subseteq outbox
        BY DEF EndInv, OrderInv, RelayInv, RelayTypeOK, BatchesDisjoint
      <4>2. outbox \subseteq committed
        BY <1>1 DEF IInv, TypeOK
      <4> QED
        BY <1>1, <2>1, <4>1, <4>2 DEF Settled
    <3>2. f \in committed /\ Settled(f)
      BY <1>1, <2>1, <3>1 DEF Settled
    <3>3. Before(topic[i], f)
      BY <1>1, <2>1 DEF Before, Stray
    <3> QED
      BY <1>1, <3>2, <3>3 DEF CaughtUp
  <2> QED
    BY <2>2, <2>3, <2>4
<1> QED
  BY <1>1, <1>2, <1>3, ApiEffect DEF Api

LEMMA PollEndStep ==
    ASSUME EndInv, NEW w \in Workers, Poll(w), UNCHANGED apiVars
    PROVE  OldestLeaveFirst' /\ SentInOrder' /\ CaughtUp'
<1>1. /\ committed' = committed /\ outbox' = outbox
      /\ topic' = topic /\ dropped' = dropped /\ worker[w].batch = {}
      /\ IInv /\ RelayTypeOK /\ OldestLeaveFirst /\ SentInOrder /\ CaughtUp
  BY DEF Poll, apiVars, EndInv, OrderInv, RelayInv
<1>2. PICK batch \in SUBSET Event : worker' = [worker EXCEPT ![w].batch = batch]
  BY <1>1 DEF Poll, Batches, Free, IInv, TypeOK
<1>3. /\ worker[w].sent = {}
      /\ \A v \in Workers : worker'[v].sent = worker[v].sent
      /\ \A v \in Workers : v # w => worker'[v] = worker[v]
  BY <1>1, <1>2, PollFacts
<1>4. OldestLeaveFirst'
  BY <1>1 DEF OldestLeaveFirst, Before, Stray
<1>5. SentInOrder'
  BY <1>1, <1>3 DEF SentInOrder, Before, Stray
<1>6. CaughtUp'
  BY <1>1, <1>3, SettledByLess DEF Settled
<1> QED
  BY <1>4, <1>5, <1>6

LEMMA SendKeepsOrder ==
    ASSUME EndInv, NEW w \in Workers, NEW e \in worker[w].batch, IsNext(w, e),
           worker' = [worker EXCEPT ![w].sent = @ \cup {e}], committed' = committed
    PROVE  SentInOrder'
<1>1. /\ \A v \in Workers : worker'[v].batch = worker[v].batch
      /\ \A v \in Workers : v # w => worker'[v] = worker[v]
      /\ worker'[w].sent = worker[w].sent \cup {e}
  BY SendFacts DEF EndInv, OrderInv, RelayInv
<1>2. \A g \in worker[w].batch : g \in Event /\ g.created_at \in Nat
  BY DEF EndInv, OrderInv, RelayInv, BatchesDisjoint, IInv, TypeOK, Event
<1>3. SentInOrder
  BY DEF EndInv
<1> SUFFICES ASSUME NEW v \in Workers, NEW g \in worker[v].batch,
                    NEW f \in worker'[v].sent, Before(g, f)
             PROVE  g \in worker'[v].sent
  BY <1>1 DEF SentInOrder, Before, Stray
<1>4. CASE v = w /\ f = e
  <2>1. g.created_at < e.created_at
    BY <1>4 DEF Before
  <2>2. g \in worker[w].sent
    BY <1>2, <1>4, <2>1 DEF IsNext
  <2> QED
    BY <1>1, <1>4, <2>2
<1>5. CASE ~(v = w /\ f = e)
  <2>1. f \in worker[v].sent
    BY <1>1, <1>5
  <2>2. g \in worker[v].sent
    BY <1>3, <2>1 DEF SentInOrder
  <2> QED
    BY <1>1, <2>2
<1> QED
  BY <1>4, <1>5

\* Whatever is settled, the row at hand does not come before it.
LEMMA NextIsNotBefore ==
    ASSUME OneWorker, EndInv, NEW w \in Workers, NEW e, IsNext(w, e),
           NEW f \in committed, Settled(f)
    PROVE  ~Before(e, f)
<1>1. e \in worker[w].batch /\ e \notin worker[w].sent /\ e \in outbox
  BY NextFacts DEF EndInv, OrderInv
<1>2. CASE f \notin outbox
  BY <1>1, <1>2 DEF EndInv, OldestLeaveFirst
<1>3. CASE f \in outbox
  BY <1>1, <1>3 DEF EndInv, SentInOrder, Settled, OneWorker
<1> QED
  BY <1>2, <1>3

LEMMA AppendKeepsEnd ==
    ASSUME OneWorker, EndInv, NEW w \in Workers, NEW e, IsNext(w, e),
           topic' = Append(topic, e), committed' = committed, dropped' = dropped,
           \A f \in committed : Settled(f)' => Settled(f) \/ f = e
    PROVE  CaughtUp'
<1>1. e \in committed /\ topic \in Seq(committed)
  BY NextFacts DEF EndInv, OrderInv, RelayInv, RelayTypeOK
<1>2. /\ Len(topic) \in Nat /\ Len(topic') = Len(topic) + 1
      /\ \A i \in 1..Len(topic) : topic'[i] = topic[i]
      /\ topic'[Len(topic')] = e
  BY <1>1, AppendFacts
<1>3. e.created_at \in Nat
  BY <1>1 DEF EndInv, OrderInv, RelayInv, IInv, TypeOK, Event
<1> SUFFICES ASSUME NEW i \in 1..Len(topic'), NEW f \in committed,
                    Before(topic'[i], f), Settled(f)'
             PROVE  f \in dropped \/ \E j \in (i + 1)..Len(topic') : topic'[j] = f
  BY DEF CaughtUp, Before, Stray
<1>4. CASE f = e
  <2>1. i # Len(topic')
    BY <1>2, <1>3, <1>4 DEF Before
  <2>2. Len(topic') \in (i + 1)..Len(topic')
    BY <1>2, <2>1
  <2> QED
    BY <1>2, <1>4, <2>2
<1>5. CASE f # e
  <2>1. Settled(f)
    BY <1>5
  <2>2. i # Len(topic')
    BY <1>2, <2>1, NextIsNotBefore
  <2>3. i \in 1..Len(topic) /\ Before(topic[i], f)
    BY <1>2, <2>2
  <2>4. f \in dropped \/ \E j \in (i + 1)..Len(topic) : topic[j] = f
    BY <2>1, <2>3 DEF EndInv, CaughtUp
  <2> QED
    BY <1>2, <2>3, <2>4
<1> QED
  BY <1>4, <1>5

LEMMA WorkerEndStep ==
    ASSUME OneWorker, EndInv, NEW w \in Workers, KeepsOutbox(w)
    PROVE  OldestLeaveFirst' /\ SentInOrder' /\ CaughtUp'
<1>1. /\ committed' = committed /\ outbox' = outbox
      /\ RelayTypeOK /\ OldestLeaveFirst /\ SentInOrder /\ CaughtUp
  BY DEF KeepsOutbox, apiVars, EndInv, OrderInv, RelayInv
<1>2. OldestLeaveFirst'
  BY <1>1 DEF OldestLeaveFirst, Before, Stray
<1>3. ASSUME NEW e \in worker[w].batch, worker' = [worker EXCEPT ![w].sent = @ \cup {e}]
      PROVE  \A f \in committed : Settled(f)' => Settled(f) \/ f = e
  <2>1. /\ \A v \in Workers : v # w => worker'[v] = worker[v]
        /\ worker'[w].sent = worker[w].sent \cup {e}
    BY <1>1, <1>3, SendFacts
  <2> QED
    BY <1>1, <2>1 DEF Settled
<1>4. CASE Poll(w)
  BY <1>4, PollEndStep DEF KeepsOutbox
<1>5. CASE Publish(w)
  <2>1. PICK e \in worker[w].batch :
          /\ IsNext(w, e)
          /\ topic' = Append(topic, e)
          /\ worker' = [worker EXCEPT ![w].sent = @ \cup {e}]
    BY <1>5 DEF Publish
  <2>2. dropped' = dropped
    BY <1>5 DEF Publish
  <2>3. SentInOrder'
    BY <1>1, <2>1, SendKeepsOrder
  <2>4. CaughtUp'
    BY <1>1, <1>3, <2>1, <2>2, AppendKeepsEnd
  <2> QED
    BY <1>2, <2>3, <2>4
<1>6. CASE PublishDropped(w)
  <2>1. PICK e \in worker[w].batch :
          /\ IsNext(w, e)
          /\ dropped' = dropped \cup {e}
          /\ worker' = [worker EXCEPT ![w].sent = @ \cup {e}]
    BY <1>6 DEF PublishDropped
  <2>2. topic' = topic
    BY <1>6 DEF PublishDropped
  <2>3. SentInOrder'
    BY <1>1, <2>1, SendKeepsOrder
  <2>4. CaughtUp'
    BY <1>1, <1>3, <2>1, <2>2, SettledByLess
  <2> QED
    BY <1>2, <2>3, <2>4
<1>7. CASE PublishUnnoticed(w)
  <2>1. PICK e \in worker[w].batch : IsNext(w, e) /\ topic' = Append(topic, e)
    BY <1>7 DEF PublishUnnoticed
  <2>2. worker' = worker /\ dropped' = dropped
    BY <1>7 DEF PublishUnnoticed
  <2>3. SentInOrder'
    BY <1>1, <2>2 DEF SentInOrder, Before, Stray
  <2>4. \A f \in committed : Settled(f)' => Settled(f)
    BY <1>1, <2>2 DEF Settled
  <2>5. CaughtUp'
    BY <1>1, <2>1, <2>2, <2>4, AppendKeepsEnd
  <2> QED
    BY <1>2, <2>3, <2>5
<1>8. CASE Rollback(w)
  <2>1. /\ topic' = topic /\ dropped' = dropped
        /\ worker'[w].batch = {} /\ worker'[w].sent = {}
        /\ \A v \in Workers : v # w => worker'[v] = worker[v]
    BY <1>1, <1>8, RestFacts DEF Rollback
  <2>2. SentInOrder'
    BY <1>1, <2>1 DEF SentInOrder, Before, Stray
  <2>3. CaughtUp'
    BY <1>1, <2>1, SettledByLess DEF Settled
  <2> QED
    BY <1>2, <2>2, <2>3
<1> QED
  BY <1>4, <1>5, <1>6, <1>7, <1>8 DEF KeepsOutbox

\* The batch that leaves is published, and holds what comes before its rows.
LEMMA DeleteEndStep ==
    ASSUME EndInv, NEW w \in Workers, Delete(w)
    PROVE  OldestLeaveFirst' /\ SentInOrder' /\ CaughtUp'
<1>1. /\ committed' = committed /\ outbox' = outbox \ worker[w].batch
      /\ topic' = topic /\ dropped' = dropped
      /\ worker[w].sent = worker[w].batch
      /\ worker' = [worker EXCEPT ![w] = Resting]
      /\ RelayTypeOK /\ OldestLeaveFirst /\ SentInOrder /\ CaughtUp
      /\ BatchIsOldest
  BY DEF Delete, Finish, EndInv, OrderInv, RelayInv
<1>2. /\ worker'[w].batch = {} /\ worker'[w].sent = {}
      /\ \A v \in Workers : v # w => worker'[v] = worker[v]
  BY <1>1, RestFacts
<1>3. OldestLeaveFirst'
  <2> SUFFICES ASSUME NEW e \in outbox', NEW f \in committed \ outbox', Before(e, f)
               PROVE  FALSE
    BY <1>1 DEF OldestLeaveFirst, Before, Stray
  <2>1. CASE f \in worker[w].batch
    BY <1>1, <2>1 DEF BatchIsOldest
  <2>2. CASE f \notin worker[w].batch
    BY <1>1, <2>2 DEF OldestLeaveFirst
  <2> QED
    BY <2>1, <2>2
<1>4. SentInOrder'
  BY <1>1, <1>2 DEF SentInOrder, Before, Stray
<1>5. CaughtUp'
  <2>1. \A f \in committed : Settled(f)' => Settled(f)
    BY <1>1, <1>2 DEF Settled
  <2> QED
    BY <1>1, <2>1, SettledByLess
<1> QED
  BY <1>3, <1>4, <1>5

LEMMA EndInit ==
    ASSUME Init
    PROVE  EndInv
<1>1. /\ OrderInv /\ outbox = {} /\ committed = {}
      /\ worker = [w \in Workers |-> Resting]
  BY OrderInit DEF Init, ApiInit, RelayInit
<1> QED
  BY <1>1 DEF EndInv, OldestLeaveFirst, SentInOrder, CaughtUp, Resting

LEMMA EndStep ==
    ASSUME OneWorker, EndInv, [Next]_vars
    PROVE  EndInv'
<1>1. OrderInv'
  BY OrderStep DEF EndInv
<1>2. CASE Api
  BY <1>1, <1>2, ApiEndStep DEF EndInv
<1>3. ASSUME NEW w \in Workers, KeepsOutbox(w) PROVE EndInv'
  BY <1>1, <1>3, WorkerEndStep DEF EndInv
<1>4. ASSUME NEW w \in Workers, Delete(w) PROVE EndInv'
  BY <1>1, <1>4, DeleteEndStep DEF EndInv
<1>5. CASE UNCHANGED vars
  BY <1>1, <1>5 DEF vars, EndInv, OldestLeaveFirst, SentInOrder, CaughtUp, Settled,
                    Before, Stray
<1> QED
  BY <1>2, <1>3, <1>4, <1>5 DEF Next

\* The inductive invariant of the end of the topic.
THEOREM EndInvariant ==
    ASSUME OneWorker
    PROVE  Spec => []EndInv
<1>1. Init => EndInv
  BY EndInit
<1>2. EndInv /\ [Next]_vars => EndInv'
  BY EndStep
<1> QED
  BY <1>1, <1>2, PTL DEF Spec

\* After the last word nothing comes that a settled event would owe a message.
LEMMA LastWordIsLast ==
    ASSUME EndInv, NEW i \in 1..Len(topic), LastWord(i),
           NEW f \in committed, ~Stray(f), f.payload.id = topic[i].payload.id,
           topic[i].created_at < f.created_at
    PROVE  Superseded(topic[i])
<1>1. Before(topic[i], f)
  BY DEF Before, LastWord
<1>2. CASE f \in outbox \cup dropped
  BY <1>2 DEF Superseded
<1>3. CASE f \notin outbox \cup dropped
  <2>1. PICK j \in (i + 1)..Len(topic) : topic[j] = f
    BY <1>1, <1>3 DEF EndInv, CaughtUp, Settled
  <2> QED
    BY <2>1 DEF LastWord
<1> QED
  BY <1>2, <1>3

LEMMA EndIsTable == EndInv => TopicEndsAtTable
<1> SUFFICES ASSUME EndInv, NEW i \in 1..Len(topic), LastWord(i),
                    topic[i].event_type # "DELETE", ~Superseded(topic[i])
             PROVE  topic[i].payload \in experiments
  BY DEF TopicEndsAtTable
<1> DEFINE e == topic[i]
<1>1. /\ TypeOK /\ EventsOK /\ RowMatchesNewestEvent /\ RowLivesUntilDeleted /\ DeletedOnce
      /\ e \in committed
  BY DEF EndInv, OrderInv, RelayInv, IInv, TablesOK, RelayTypeOK
<1>2. /\ \A f \in committed : f.created_at \in Nat
      /\ \A f \in committed : f.created_at = e.created_at => f = e
  <2>1. \A f, g \in committed : f.created_at = g.created_at => f = g
    BY <1>1, Zenon DEF EventsOK
  <2>2. \A f \in committed : f.created_at \in Nat
    BY <1>1 DEF TypeOK, Event
  <2> QED
    BY <1>1, <2>1, <2>2
<1>3. \A d \in committed :
        ~(d.event_type = "DELETE" /\ d.payload.id = e.payload.id)
  <2> SUFFICES ASSUME NEW d \in committed, d.event_type = "DELETE",
                      d.payload.id = e.payload.id
               PROVE  FALSE
    OBVIOUS
  <2>1. ~(d.created_at < e.created_at)
    BY DEF LastWord, Stray
  <2>2. d.created_at # e.created_at
    BY <1>2
  <2>3. e.created_at < d.created_at
    BY <1>1, <1>2, <2>1, <2>2
  <2>4. ~Stray(d)
    BY <1>1, <1>2 DEF DeletedOnce, Stray
  <2> QED
    BY <2>3, <2>4, LastWordIsLast
<1>4. PICK row \in experiments : row.id = e.payload.id
  BY <1>1, <1>3 DEF RowLivesUntilDeleted
<1>5. PICK f \in committed :
        /\ f.payload = row
        /\ \A g \in committed : g.payload.id = row.id => g.created_at <= f.created_at
  BY <1>1 DEF RowMatchesNewestEvent
<1>6. e.created_at <= f.created_at /\ f.payload.id = e.payload.id
  BY <1>1, <1>4, <1>5
<1>7. ~Stray(f)
  BY <1>3, <1>6 DEF Stray
<1>8. ~(e.created_at < f.created_at)
  BY <1>6, <1>7, LastWordIsLast
<1>9. f = e
  BY <1>1, <1>2, <1>6, <1>8
<1> QED
  BY <1>5, <1>9

\* Whatever is rolled back and repeated in between, the topic of one worker ends
\* at the table.
THEOREM TopicEnd ==
    ASSUME OneWorker
    PROVE  Spec => []TopicEndsAtTable
BY EndInvariant, EndIsTable, PTL

-----------------------------------------------------------------------------
(* The tables under the relay.                                             *)

\* With any number of workers at the outbox, central-api still implements the
\* abstract table: a worker changes neither `experiments' nor what was committed.
THEOREM RelayImplementsTable == Spec => TableRefinement
<1>1. Init => Table!TableInit
  BY DEF Init, ApiInit, Table!TableInit
<1>2. RelayInv /\ [Next]_vars => [Table!TableNext]_(Table!tableVars)
  <2> SUFFICES ASSUME RelayInv, [Next]_vars
               PROVE  [Table!TableNext]_(Table!tableVars)
    OBVIOUS
  <2>1. CASE Api
    BY <2>1, StepRefines DEF Api, RelayInv
  <2>2. ASSUME NEW w \in Workers, KeepsOutbox(w) \/ Delete(w)
        PROVE  UNCHANGED Table!tableVars
    BY <2>2 DEF KeepsOutbox, Delete, apiVars, Table!tableVars
  <2>3. CASE UNCHANGED vars
    BY <2>3 DEF vars, Table!tableVars
  <2> QED
    BY <2>1, <2>2, <2>3 DEF Next
<1> QED
  BY <1>1, <1>2, RelayInvariant, PTL DEF Spec, TableRefinement, Table!TableSpec

=============================================================================
