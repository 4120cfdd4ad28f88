----------------------------- MODULE OutboxRelay -----------------------------
(***************************************************************************)
(* outbox-worker (cmd/outbox-worker/main.go) and the producer it uses      *)
(* (internal/platform/queue/kafka_producer.go), composed with central-api: *)
(* the handlers commit rows into `outbox' while a worker polls it,         *)
(* publishes the rows to the topic ab_deltas and deletes them.             *)
(*                                                                         *)
(* A worker runs processEvents every two seconds, in one transaction: lock *)
(* the oldest unlocked rows, publish them one by one, delete them, commit. *)
(* Its crash is its rollback, since PostgreSQL releases the locks and the  *)
(* restarted process begins again with nothing.                            *)
(*                                                                         *)
(* The topic has one partition, as the compose file creates it.  Producer  *)
(* builds its kafka.Writer without RequiredAcks, whose zero value asks the *)
(* broker for no acknowledgement: Publish returns nil whether or not the   *)
(* broker stored the message.                                              *)
(***************************************************************************)
EXTENDS CentralApi, FiniteSets, Sequences

CONSTANTS
    Workers,        \* the running outbox-worker processes
    BatchSize,      \* LIMIT of the poll, 10 in the code
    MaxFaults       \* bound: rollbacks, lost and repeated writes in a behaviour

ASSUME RelayAssumption ==
    /\ BatchSize \in Nat \ {0}
    /\ MaxFaults \in Nat

VARIABLES
    worker,         \* worker[w]: the rows w has locked and those it published
    topic,          \* ab_deltas: the messages the broker stored, in order
    dropped,        \* history: events the worker published and the broker lost
    faults          \* how many faults there have been

relayVars == <<worker, topic, dropped, faults>>

vars == <<experiments, outbox, committed, req, lastVersion, lastStamp,
          worker, topic, dropped, faults>>

\* batch is eventsToProcess, empty between two ticks; sent is the part of it
\* the publish loop is done with.
WorkerState == [batch : SUBSET Event, sent : SUBSET Event]

Resting == [batch |-> {}, sent |-> {}]

Published == {topic[i] : i \in 1..Len(topic)}

RelayTypeOK ==
    /\ worker \in [Workers -> WorkerState]
    /\ \A w \in Workers : worker[w].sent \subseteq worker[w].batch
    /\ topic \in Seq(committed)
    /\ dropped \subseteq committed
    /\ faults \in 0..MaxFaults

RelayInit ==
    /\ worker = [w \in Workers |-> Resting]
    /\ topic = <<>>
    /\ dropped = {}
    /\ faults = 0

-----------------------------------------------------------------------------
(* processEvents.                                                          *)

\* Fault: no FOR UPDATE SKIP LOCKED.
Free_All == outbox

\* Rows no other transaction holds: FOR UPDATE SKIP LOCKED passes over them.
Free == outbox \ UNION {worker[w].batch : w \in Workers}

\* Fault: LIMIT without ORDER BY created_at.
Batches_Unordered ==
    {batch \in SUBSET Free :
        /\ batch # {}
        /\ batch = Free \/ Cardinality(batch) = BatchSize}

\* Fault: a tick waits until a whole batch is there.
Batches_OnlyFull ==
    {batch \in SUBSET Free :
        /\ Cardinality(batch) = BatchSize
        /\ \A e \in batch, f \in Free \ batch : e.created_at < f.created_at}

\* ORDER BY created_at LIMIT BatchSize over the free rows.
Batches ==
    {batch \in SUBSET Free :
        /\ batch # {}
        /\ Cardinality(batch) <= BatchSize
        /\ batch = Free \/ Cardinality(batch) = BatchSize
        /\ \A e \in batch, f \in Free \ batch : e.created_at < f.created_at}

\* The SELECT.  Nothing pending ends the tick at once.
Poll(w) ==
    /\ worker[w].batch = {}
    /\ \E batch \in Batches : worker' = [worker EXCEPT ![w].batch = batch]
    /\ UNCHANGED <<topic, dropped, faults>>

\* Fault: the rows are published in any order.
IsNext_AnyOrder(w, e) == e \in worker[w].batch \ worker[w].sent

\* e is the row the publish loop of w is at.
IsNext(w, e) ==
    /\ e \in worker[w].batch \ worker[w].sent
    /\ \A f \in worker[w].batch \ worker[w].sent : e.created_at <= f.created_at

\* Publish returns nil and the broker has stored the message.
Publish(w) ==
    /\ \E e \in worker[w].batch :
        /\ IsNext(w, e)
        /\ topic' = Append(topic, e)
        /\ worker' = [worker EXCEPT ![w].sent = @ \cup {e}]
    /\ UNCHANGED <<dropped, faults>>

\* Publish returns nil and the broker has not stored the message.
PublishDropped(w) ==
    /\ faults < MaxFaults
    /\ \E e \in worker[w].batch :
        /\ IsNext(w, e)
        /\ dropped' = dropped \cup {e}
        /\ worker' = [worker EXCEPT ![w].sent = @ \cup {e}]
    /\ faults' = faults + 1
    /\ UNCHANGED topic

\* Fault: a write is repeated after later ones, as with several in flight.
PublishUnnoticed_Late(w) ==
    /\ faults < MaxFaults
    /\ \E e \in worker[w].sent : topic' = Append(topic, e)
    /\ faults' = faults + 1
    /\ UNCHANGED <<worker, dropped>>

\* The broker has stored the message and the writer thinks it has not: it
\* tries again, or Publish returns an error and Rollback follows.
PublishUnnoticed(w) ==
    /\ faults < MaxFaults
    /\ \E e \in worker[w].batch :
        /\ IsNext(w, e)
        /\ topic' = Append(topic, e)
    /\ faults' = faults + 1
    /\ UNCHANGED <<worker, dropped>>

\* Publish, the DELETE or COMMIT fails, or the worker dies: the transaction is
\* rolled back and the rows are free again, those already published too.
Rollback(w) ==
    /\ faults < MaxFaults
    /\ worker[w].batch # {}
    /\ worker' = [worker EXCEPT ![w] = Resting]
    /\ faults' = faults + 1
    /\ UNCHANGED <<topic, dropped>>

\* Fault: the loop goes on to the DELETE before everything is published.
Finish_Early(w) ==
    /\ worker[w].batch # {}
    /\ worker[w].sent # {}
    /\ outbox' = outbox \ worker[w].batch
    /\ worker' = [worker EXCEPT ![w] = Resting]
    /\ UNCHANGED <<topic, dropped, faults>>

\* Fault: the next tick starts with what this one has sent.
Finish_KeepsSent(w) ==
    /\ worker[w].batch # {}
    /\ worker[w].sent = worker[w].batch
    /\ outbox' = outbox \ worker[w].batch
    /\ worker' = [worker EXCEPT ![w].batch = {}]
    /\ UNCHANGED <<topic, dropped, faults>>

\* Fault: a stale list of ids, so that the batch stays in the table.
Finish_KeepsRows(w) ==
    /\ worker[w].batch # {}
    /\ worker[w].sent = worker[w].batch
    /\ worker' = [worker EXCEPT ![w] = Resting]
    /\ UNCHANGED <<outbox, topic, dropped, faults>>

\* DELETE FROM outbox and COMMIT.
Finish(w) ==
    /\ worker[w].batch # {}
    /\ worker[w].sent = worker[w].batch
    /\ outbox' = outbox \ worker[w].batch
    /\ worker' = [worker EXCEPT ![w] = Resting]
    /\ UNCHANGED <<topic, dropped, faults>>

-----------------------------------------------------------------------------
(* The composition.                                                        *)

\* The steps of processEvents that leave the outbox alone.
KeepsOutbox(w) ==
    /\ \/ Poll(w)
       \/ Publish(w)
       \/ PublishDropped(w)
       \/ PublishUnnoticed(w)
       \/ Rollback(w)
    /\ UNCHANGED apiVars

Delete(w) ==
    /\ Finish(w)
    /\ UNCHANGED <<experiments, committed, req, lastVersion, lastStamp>>

Api == ApiNext /\ UNCHANGED relayVars

Init == ApiInit /\ RelayInit

Next == Api \/ \E w \in Workers : KeepsOutbox(w) \/ Delete(w)

Spec == Init /\ [][Next]_vars

\* The ticker fires every two seconds and a transaction that meets no error
\* goes to its end; nothing makes a client send requests.
Fairness ==
    \A w \in Workers :
        /\ WF_vars(Poll(w) /\ UNCHANGED apiVars)
        /\ WF_vars(Publish(w) /\ UNCHANGED apiVars)
        /\ WF_vars(Delete(w))

FairSpec == Spec /\ Fairness

-----------------------------------------------------------------------------
(* What the relay promises.                                                *)

\* An event leaves the outbox only after the worker has published it: what is
\* no longer pending is in the topic, or was lost by a broker that was not
\* asked to acknowledge.  No crash or rollback between publishing, deleting
\* and committing loses one.
NothingForgotten == committed \ outbox \subseteq Published \cup dropped

\* With one worker, the events of an experiment enter the topic in the order
\* of their commits, up to repetitions: wherever an event stands, every event
\* of the experiment that precedes it stands before it, unless the broker
\* lost it.  Stray events (see DeltaFeed) are not waited for.
PerExperimentOrder ==
    \A i \in 1..Len(topic), f \in committed :
        (/\ f.payload.id = topic[i].payload.id
         /\ f.created_at < topic[i].created_at
         /\ ~Stray(f))
            => f \in dropped \/ \E j \in 1..(i - 1) : topic[j] = f

\* No two workers ever hold the same row, and a held row is still pending: the
\* row that one worker publishes is not deleted or published by another.
BatchesDisjoint ==
    \A w \in Workers :
        /\ worker[w].batch \subseteq outbox
        /\ \A v \in Workers \ {w} : worker[v].batch \cap worker[w].batch = {}

\* A message is repeated only after a fault: as long as nothing fails, a
\* subscriber gets every event at most once, from however many workers.
RepeatedOnlyAfterFault ==
    faults = 0 =>
        \A i, j \in 1..Len(topic) : topic[i] = topic[j] => i = j

\* With one worker, the topic ends at the table: the last message of an
\* experiment is the row that is stored or, after a DELETE, that DELETE, unless
\* a newer event is still pending or the broker lost it.  A rollback or a
\* repeated write may take the topic back to an older version, never to stay.
\* Stray events are left out on both sides: where one is the last message, the
\* topic does end at an experiment that the table no longer has.
LastWord(i) ==
    /\ ~Stray(topic[i])
    /\ \A j \in (i + 1)..Len(topic) :
           topic[j].payload.id = topic[i].payload.id => Stray(topic[j])

Superseded(e) ==
    \E f \in outbox \cup dropped :
        f.payload.id = e.payload.id /\ e.created_at < f.created_at

TopicEndsAtTable ==
    \A i \in 1..Len(topic) :
        LastWord(i) =>
            \/ topic[i].payload \in experiments
            \/ topic[i].event_type = "DELETE"
            \/ Superseded(topic[i])

\* The worker with its faults implements the abstract feed.
Feed == INSTANCE DeltaFeed WITH
            Change <- Event, committed <- committed, feed <- topic, lost <- dropped

FeedRefinement == Feed!FeedSpec

\* What the README says of outbox-worker: every change is reliably delivered
\* to Kafka, and a failure of Kafka loses no change.
ReliablyDelivered == committed \ outbox \subseteq Published

\* Every event that is committed into the outbox eventually leaves it.
OutboxDrains ==
    \A stamp \in 1..MaxStamp :
        (\E e \in outbox : e.created_at = stamp)
            ~> ~(\E e \in outbox : e.created_at = stamp)
=============================================================================
