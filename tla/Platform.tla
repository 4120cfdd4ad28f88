------------------------------ MODULE Platform ------------------------------
(***************************************************************************)
(* The platform from end to end: the tables of central-api                 *)
(* (ExperimentTable, which CentralApi implements), the topic ab_deltas as  *)
(* outbox-worker fills it (DeltaFeed, which OutboxRelay implements),       *)
(* snapshot-generator (cmd/snapshot-generator/main.go), and one client     *)
(* (SdkClient) that reads the topic and the bucket.  So a cache can be     *)
(* compared with the table.                                                *)
(*                                                                         *)
(* snapshot-generator is a program that somebody or something starts now   *)
(* and then; its one SELECT sees the table at one moment.  Nobody reads    *)
(* the topic ab_snapshots_meta, to which it announces what it uploaded.    *)
(*                                                                         *)
(* The bucket is made empty by docker-compose.yml, and with the object     *)
(* snapshot-initial.json, an empty list, by docker-compose.test.yml.       *)
(***************************************************************************)
EXTENDS Naturals, Sequences, FiniteSets

CONSTANTS
    ExperimentIDs,  \* the UUIDs an experiment can get
    Bodies,         \* what a request can say: records of layer_id and status
    RelevantLayers, \* Config.RelevantLayerIDs of the client
    MaxChanges,     \* bound: committed requests
    MaxRepeats,     \* bound: messages delivered again
    MaxLost,        \* bound: messages the broker loses
    MaxSnapshots,   \* bound: objects in the bucket
    MaxReadFaults   \* bound: failed reads of the client

ASSUME PlatformAssumption ==
    /\ MaxChanges \in Nat /\ MaxRepeats \in Nat /\ MaxLost \in Nat
    /\ MaxSnapshots \in Nat /\ MaxReadFaults \in Nat

VARIABLES
    experiments,    \* table experiments
    committed,      \* the events committed into the outbox so far
    feed,           \* ab_deltas: the events the broker stored, in order
    lost,           \* the events the worker published and the broker lost
    gen,            \* snapshot-generator: where it is, and its `experiments'
    lastUpload,     \* history: the snapshot uploaded last
    bucket, offset, file, phase, loaded, cache, configVersion,
    position, inHand, base, start, missed, faults       \* see SdkClient

Experiment ==
    [id             : ExperimentIDs,
     layer_id       : {body.layer_id : body \in Bodies} \cup {""},
     config_version : 0..MaxChanges,
     status         : {body.status : body \in Bodies} \cup {""},
     salt           : {""}]

Event ==
    [event_type : {"UPSERT", "DELETE"}, payload : Experiment, created_at : 1..MaxChanges]

Table == INSTANCE ExperimentTable WITH Change <- Event

Feed == INSTANCE DeltaFeed WITH Change <- Event

\* A message is the payload of its event.
Topic == [i \in 1..Len(feed) |-> feed[i].payload]

\* The names of generated snapshots begin with a hexadecimal digit, which
\* sorts before the `i' of snapshot-initial.json.
InitialName == MaxChanges + 1

InitialSnapshot == [name |-> InitialName, data |-> {}]

Sdk == INSTANCE SdkClient WITH
           Payloads <- Experiment, topic <- Topic,
           MaxMessages <- MaxChanges + MaxRepeats, MaxFaults <- MaxReadFaults

tableVars == <<experiments, committed>>
feedVars == <<feed, lost>>
genVars == <<gen, lastUpload>>
clientVars == <<offset, file, phase, loaded, cache, configVersion, position,
                inHand, base, start, missed, faults>>

vars == <<tableVars, feedVars, genVars, bucket, clientVars>>

NoSnapshot == [name |-> 0, data |-> {}]

PlatformTypeOK ==
    /\ experiments \subseteq Experiment
    /\ committed \subseteq Event
    /\ feed \in Seq(committed)
    /\ lost \subseteq committed
    /\ gen \in [pc : {"idle", "queried"}, data : SUBSET Experiment]
    /\ lastUpload \in bucket \cup {NoSnapshot}

Init ==
    /\ Table!TableInit
    /\ feed = <<>> /\ lost = {}
    /\ gen = [pc |-> "idle", data |-> {}] /\ lastUpload = NoSnapshot
    /\ bucket \in {{}, {InitialSnapshot}}
    /\ offset = 0 /\ file = Sdk!NoFile /\ phase = "off"
    /\ loaded = Sdk!NoFile /\ cache = {} /\ configVersion = 0 /\ position = 0
    /\ inHand = <<>> /\ base = 0 /\ start = 0 /\ missed = {} /\ faults = 0

-----------------------------------------------------------------------------
(* snapshot-generator.                                                     *)

ActiveRows == {row \in experiments : row.status = "ACTIVE"}

\* The SELECT.  Without ACTIVE rows the program ends here, with no snapshot.
Query ==
    /\ gen.pc = "idle"
    /\ ActiveRows # {}
    /\ gen' = [pc |-> "queried", data |-> ActiveRows]
    /\ UNCHANGED <<lastUpload, bucket>>

\* The name is latestVersion.
Snapshot(rows) == [name |-> Sdk!NewestIn(rows), data |-> rows]

\* Fault: an object that has this name already is left as it is.
Stored_IfAbsent(s) ==
    IF \E t \in bucket : t.name = s.name THEN bucket ELSE bucket \cup {s}

\* PutObject replaces an object of the same name.
Stored(s) == {t \in bucket : t.name # s.name} \cup {s}

Upload ==
    /\ gen.pc = "queried"
    /\ lastUpload' = Snapshot(gen.data)
    /\ bucket' = Stored(Snapshot(gen.data))
    /\ Cardinality(bucket') <= MaxSnapshots
    /\ gen' = [pc |-> "idle", data |-> {}]

\* log.Fatalf, or the process is killed.
GeneratorDies ==
    /\ gen.pc # "idle"
    /\ gen' = [pc |-> "idle", data |-> {}]
    /\ UNCHANGED <<lastUpload, bucket>>

GeneratorNext == Query \/ Upload \/ GeneratorDies

-----------------------------------------------------------------------------
(* The composition.                                                        *)

\* A request, from the version it draws to its COMMIT.  Requests do not overlap
\* here, so that versions are committed in the order in which they are drawn.
Commit(type, payload) ==
    Table!Record([event_type |-> type, payload |-> payload,
                  created_at |-> Cardinality(committed) + 1])

Upsert(id, body) ==
    Commit("UPSERT", [id |-> id, salt |-> "", layer_id |-> body.layer_id, status |-> body.status,
                      config_version |-> Cardinality(committed) + 1])

Delete(id) ==
    Commit("DELETE", [id |-> id, layer_id |-> "", salt |-> "", status |-> "",
                      config_version |-> 0])

Api ==
    /\ Cardinality(committed) < MaxChanges
    /\ \E id \in ExperimentIDs :
        \/ \E body \in Bodies : Upsert(id, body)
        \/ Delete(id)
    /\ UNCHANGED <<feedVars, genVars, bucket, clientVars>>

DeliverFirst ==
    /\ Feed!Deliver
    /\ feed'[Len(feed')] \notin Feed!Delivered
    /\ UNCHANGED <<tableVars, genVars, bucket, clientVars>>

DeliverAgain ==
    /\ Len(feed) - Cardinality(Feed!Delivered) < MaxRepeats
    /\ Feed!Deliver
    /\ feed'[Len(feed')] \in Feed!Delivered
    /\ UNCHANGED <<tableVars, genVars, bucket, clientVars>>

Lose ==
    /\ Feed!Lose
    /\ Cardinality(lost') <= MaxLost
    /\ UNCHANGED <<tableVars, genVars, bucket, clientVars>>

Generator == GeneratorNext /\ UNCHANGED <<tableVars, feedVars, clientVars>>

\* A step of the client: it changes nothing of the others.
Client(A) == UNCHANGED <<tableVars, feedVars, genVars, bucket>> /\ A

Next ==
    \/ Api
    \/ DeliverFirst
    \/ DeliverAgain
    \/ Lose
    \/ Generator
    \/ Client(Sdk!ClientNext)
    \/ Client(Sdk!Expire)

Spec == Init /\ [][Next]_vars

\* outbox-worker publishes what is pending, and a client that has been started
\* runs on; nobody has to change an experiment, start a generator or a client.
FairSpec ==
    /\ Spec
    /\ WF_vars(DeliverFirst)
    /\ WF_vars(Client(Sdk!Populate))
    /\ WF_vars(Client(Sdk!StartConsumer))
    /\ WF_vars(Client(Sdk!ReadMessage))
    /\ WF_vars(Client(Sdk!ApplyDelta))

-----------------------------------------------------------------------------
(* What the platform promises.                                             *)

\* The client has applied everything ever committed, in the order of versions.
CaughtUp ==
    /\ phase = "running" /\ position = Len(feed) /\ inHand = <<>> /\ missed = {}
    /\ committed = Feed!Delivered
    /\ \A i, j \in 1..Len(feed) :
           i < j => \/ Topic[j].config_version = 0
                    \/ Topic[i].config_version <= Topic[j].config_version
                    \/ \E k \in 1..(i - 1) : feed[k] = feed[j]

\* What the group read before this client is not newer than its snapshot.
SnapshotCoversStart ==
    \A i \in 1..start :
        Sdk!Relevant(Topic[i].layer_id) => Topic[i].config_version <= base

\* A client that has caught up, and whose snapshot was not older than the deltas
\* its group had already read, has every ACTIVE experiment of its layers as it is
\* in the table, and takes for ACTIVE nothing else but experiments that have been
\* deleted or have moved to another layer, which it cannot see.
CacheIsTable ==
    (CaughtUp /\ SnapshotCoversStart) =>
        /\ \A row \in ActiveRows : Sdk!Relevant(row.layer_id) => row \in cache
        /\ \A p \in cache :
               \/ p.status # "ACTIVE"
               \/ p \in experiments
               \/ \A row \in experiments : ~Sdk!SameSlot(row, p)

\* After f, its experiment was at some time not ACTIVE or was deleted.
StoppedAfter(f) ==
    \E e \in committed :
        /\ e.payload.id = f.payload.id
        /\ e.created_at > f.created_at
        /\ e.payload.status # "ACTIVE"

\* The object a client takes, the last by name, is the one uploaded last, except
\* when the newest experiment in it has been paused or deleted since, and except
\* that snapshot-initial.json, where it was put, is taken for ever: a client
\* then starts from nothing, whatever has been uploaded.
LatestByNameIsLatest ==
    \A s \in bucket :
        Sdk!IsLatest(s) =>
            \/ s = IF InitialSnapshot \in bucket THEN InitialSnapshot ELSE lastUpload
            \/ /\ InitialSnapshot \notin bucket
               /\ \E e \in committed :
                     /\ e.payload.config_version = s.name
                     /\ StoppedAfter(e)

Generated == bucket \ {InitialSnapshot}

\* The comment of fetchLatestSnapshotFromMinIO says that, the version in a name
\* being a UUIDv7, the last name is the newest snapshot.  So it should be among
\* the generated ones; LatestByNameIsLatest says how far it is.
LastNameIsNewest ==
    \A s \in Generated : (\A t \in Generated : t.name <= s.name) => s = lastUpload

\* Every change that is committed reaches a client that stays up: it is applied,
\* or checked and found stale, unless the broker lost it, the reader passed over
\* it, or the group had read it before the client started.
ChangeReachesClient ==
    \A stamp \in 1..MaxChanges :
        (\E e \in committed : e.created_at = stamp) ~>
            \/ phase \notin {"fetched", "ready", "running"}
            \/ \E e \in lost : e.created_at = stamp
            \/ \E i \in 1..position :
                   /\ feed[i].created_at = stamp
                   /\ i < position \/ inHand = <<>>
=============================================================================
