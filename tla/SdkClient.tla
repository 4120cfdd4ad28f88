------------------------------ MODULE SdkClient ------------------------------
(***************************************************************************)
(* The configuration side of client-sdk (pkg/client-sdk/client.go): a      *)
(* client starts from the last snapshot in MinIO or from its local file,   *)
(* then one goroutine reads the deltas of the topic ab_deltas and applies  *)
(* them to the in-memory cache.                                            *)
(*                                                                         *)
(* The world around it is as free as can be: any version can arrive at any *)
(* time, repeated and in any order, any snapshot can appear in the bucket, *)
(* MinIO and the local file can fail, and the process can die.             *)
(*                                                                         *)
(* The cache is a set: the bucket of InMemoryCache an experiment is in is  *)
(* its layer_id.  (Its place inside the bucket matters only to Decide.)    *)
(* applyDelta and populateCacheFromSnapshot run under rwMutex, so each is  *)
(* one step.  A version is its rank, 0 for "".                             *)
(***************************************************************************)
EXTENDS Naturals, Sequences, FiniteSets

CONSTANTS
    Payloads,       \* the experiments a message can decode to; those with
                    \* config_version 0 are what a DELETE event decodes to
    RelevantLayers, \* Config.RelevantLayerIDs; {} for no scoping
    InitialName,    \* rank of snapshot-initial.json among the names of snapshots
    MaxMessages,    \* bound: messages in the topic
    MaxSnapshots,   \* bound: snapshots in the bucket
    MaxFaults       \* bound: failed reads

ASSUME SdkAssumption ==
    /\ \A p \in Payloads : p.config_version \in Nat
    /\ InitialName \in Nat
    /\ MaxMessages \in Nat /\ MaxSnapshots \in Nat /\ MaxFaults \in Nat

VARIABLES
    topic,          \* ab_deltas: a log with one partition
    bucket,         \* ab-snapshots: a set of named snapshots
    offset,         \* the committed offset of the client's consumer group
    file,           \* the file at LocalCachePath
    phase,          \* how far the client is
    loaded,         \* the snapshot bytes NewClient holds
    cache,          \* cache.experiments
    configVersion,  \* cache.configVersion
    position,       \* how far this reader is in the topic
    inHand,         \* the message the consumer has read and not yet applied
    base,           \* history: configVersion right after the snapshot
    start,          \* history: the offset at which this client began to read
    missed,         \* history: the messages this client's reader passed over
    faults          \* how many reads have failed

worldVars == <<topic, bucket>>
cacheVars == <<cache, configVersion, base>>
readerVars == <<position, inHand, start, missed>>
clientVars == <<phase, loaded, cacheVars, readerVars>>

vars == <<topic, bucket, offset, file, phase, loaded, cache, configVersion,
          position, inHand, base, start, missed, faults>>

Versions == {p \in Payloads : p.config_version > 0}

\* What a snapshot or a cache can hold.
Contents == {data \in SUBSET Versions : IsFiniteSet(data)}

\* A file is absent, holds a snapshot, holds what an interrupted WriteFile
\* leaves, which does not parse, or is older than LocalCacheTTL: then it is never
\* read again.
File == [state : {"none", "whole", "torn", "stale"}, data : Contents]

NoFile == [state |-> "none", data |-> {}]

Snapshot == [name : Nat, data : Contents]

\* off       the process runs no client
\* starting  NewClient, before it holds a snapshot
\* fetched   it holds one
\* ready     the cache is populated, the reader not started
\* running   runDeltaConsumer is running
\* closed    Close was called
\* failed    NewClient returned an error
Phases == {"off", "starting", "fetched", "ready", "running", "closed", "failed"}

HasCache == phase \in {"ready", "running", "closed"}

\* The last conjunct: a reader is never behind what its group has committed.
SdkTypeOK ==
    /\ topic \in Seq(Payloads)
    /\ bucket \subseteq Snapshot
    /\ offset \in 0..Len(topic)
    /\ file \in File
    /\ phase \in Phases
    /\ loaded \in File
    /\ cache \in Contents
    /\ configVersion \in Nat
    /\ position \in 0..Len(topic)
    /\ inHand \in {<<>>} \cup {<<p>> : p \in Payloads}
    /\ base \in Nat
    /\ start \in 0..Len(topic)
    /\ missed \subseteq 1..Len(topic)
    /\ faults \in 0..MaxFaults
    /\ phase = "running" => start <= offset /\ offset <= position

SdkInit ==
    /\ topic = <<>>
    /\ bucket \in {{}, {[name |-> InitialName, data |-> {}]}}
    /\ offset = 0
    /\ file = NoFile
    /\ phase = "off"
    /\ loaded = NoFile
    /\ cache = {}
    /\ configVersion = 0
    /\ position = 0
    /\ inHand = <<>>
    /\ base = 0
    /\ start = 0
    /\ missed = {}
    /\ faults = 0

-----------------------------------------------------------------------------
(* The world around the client.                                            *)

\* The newest version in S, 0 if S is empty.
NewestIn(S) ==
    IF S = {} THEN 0
    ELSE CHOOSE v \in {p.config_version : p \in S} : \A p \in S : p.config_version <= v

Deliver ==
    /\ Len(topic) < MaxMessages
    /\ \E p \in Payloads : topic' = Append(topic, p)
    /\ UNCHANGED <<bucket, offset, file, clientVars, faults>>

\* A snapshot holds at most one version of an experiment and is named after
\* the newest one; the empty one is the snapshot-initial.json of the tests.
PutSnapshot ==
    /\ \E data \in Contents :
        /\ \A p, q \in data : p.id = q.id => p = q
        /\ LET name == IF data = {} THEN InitialName ELSE NewestIn(data)
           IN  bucket' = {s \in bucket : s.name # name} \cup {[name |-> name, data |-> data]}
    /\ Cardinality(bucket') <= MaxSnapshots
    /\ UNCHANGED <<topic, offset, file, clientVars, faults>>

\* The local file gets older than its TTL.
Expire ==
    /\ file.state \in {"whole", "torn"}
    /\ file' = [state |-> "stale", data |-> {}]
    /\ UNCHANGED <<topic, bucket, offset, clientVars, faults>>

-----------------------------------------------------------------------------
(* NewClient.                                                              *)

NewClient ==
    /\ phase = "off"
    /\ phase' = "starting"
    /\ UNCHANGED <<worldVars, offset, file, loaded, cacheVars, readerVars, faults>>

\* The snapshot whose name sorts last.
IsLatest(snapshot) == snapshot \in bucket /\ \A s \in bucket : s.name <= snapshot.name

\* fetchLatestSnapshotFromMinIO takes the last name; WriteFile then succeeds,
\* fails before it has opened the file, or leaves a part of it.
FetchSnapshot ==
    /\ phase = "starting"
    /\ \E latest \in bucket :
        /\ IsLatest(latest)
        /\ loaded' = [state |-> "whole", data |-> latest.data]
        /\ file' \in {loaded', file, [state |-> "torn", data |-> {}]}
    /\ phase' = "fetched"
    /\ UNCHANGED <<worldVars, offset, cacheVars, readerVars, faults>>

\* MinIO failed or its bucket is empty, and the local file is young enough.
LoadLocal ==
    /\ phase = "starting"
    /\ file.state \in {"whole", "torn"}
    /\ loaded' = file
    /\ phase' = "fetched"
    /\ UNCHANGED <<worldVars, offset, file, cacheVars, readerVars, faults>>

\* MinIO failed and the local file is of no use either.
LoadFails ==
    /\ phase = "starting"
    /\ phase' = "failed"
    /\ UNCHANGED <<worldVars, offset, file, loaded, cacheVars, readerVars, faults>>

\* The scoping of a snapshot and that of a delta: no layers means all layers.
Relevant(layer) == RelevantLayers = {} \/ layer \in RelevantLayers

InScope(data) == {p \in data : Relevant(p.layer_id)}

\* Fault: the newest version of the file.
SnapshotVersion_OfAll(data) == NewestIn(data)

\* The newest version of what is kept of a snapshot.
SnapshotVersion(data) == NewestIn(InScope(data))

\* populateCacheFromSnapshot: bytes that do not parse end NewClient.
Populate ==
    /\ phase = "fetched"
    /\ IF loaded.state = "whole"
       THEN /\ phase' = "ready"
            /\ cache' = InScope(loaded.data)
            /\ configVersion' = SnapshotVersion(loaded.data)
       ELSE /\ phase' = "failed"
            /\ UNCHANGED <<cache, configVersion>>
    /\ base' = configVersion'
    /\ loaded' = NoFile
    /\ UNCHANGED <<worldVars, offset, file, readerVars, faults>>

\* Fault: a reader without a group, which begins at the first message.
FirstOffset_Zero == 0

\* The reader joins its group, which goes on where it committed last (at the
\* first message if it never did).
FirstOffset == offset

\* initKafkaReader, and runDeltaConsumer starts.
StartConsumer ==
    /\ phase = "ready"
    /\ phase' = "running"
    /\ position' = FirstOffset
    /\ start' = FirstOffset
    /\ UNCHANGED <<worldVars, offset, file, loaded, cacheVars, inHand, missed, faults>>

-----------------------------------------------------------------------------
(* runDeltaConsumer.                                                       *)

\* Fault: the last message of the topic is left for later.
CanRead_LastLeft == phase = "running" /\ inHand = <<>> /\ position + 1 < Len(topic)

CanRead == phase = "running" /\ inHand = <<>> /\ position < Len(topic)

\* ReadMessage fetches the next message and commits its offset before it
\* returns it.
ReadMessage ==
    /\ CanRead
    /\ inHand' = <<topic[position + 1]>>
    /\ position' = position + 1
    /\ offset' = position + 1
    /\ missed' = missed \ {position + 1}
    /\ UNCHANGED <<worldVars, file, phase, loaded, cacheVars, start, faults>>

\* ReadMessage has fetched the message and its commit fails: an error and no
\* message is returned, and the loop continues with the next one.  The broker
\* may have seen the commit.
ReadFails ==
    /\ CanRead
    /\ faults < MaxFaults
    /\ position' = position + 1
    /\ missed' = missed \cup {position + 1}
    /\ offset' \in {offset, position + 1}
    /\ faults' = faults + 1
    /\ UNCHANGED <<worldVars, file, phase, loaded, cacheVars, inHand, start>>

\* The group rebalances: the reader resumes at the committed offset.
Rebalance ==
    /\ phase = "running"
    /\ position' = offset
    /\ UNCHANGED <<worldVars, offset, file, phase, loaded, cacheVars, inHand,
                   start, missed, faults>>

\* Fault: no check for stale messages.
Newer_Any(exp) == exp.config_version > 0

\* The check for stale messages: the delta against the version of the cache.
Newer(exp) == exp.config_version > configVersion

\* Two versions of one experiment in the same bucket of the cache.
SameSlot(p, q) == p.id = q.id /\ p.layer_id = q.layer_id

\* Fault: appended to its layer without the search.
CacheWith_Append(exp) == cache \cup {exp}

\* Fault: the layer is overwritten where the experiment should be appended.
CacheWith_OnlyOne(exp) == {p \in cache : p.layer_id # exp.layer_id} \cup {exp}

\* exp replaces the version its layer has, or is added to the layer.
CacheWith(exp) == {p \in cache : ~SameSlot(p, exp)} \cup {exp}

\* applyDelta.  The consumer may still run it when Close has cancelled it.
ApplyDelta ==
    /\ phase \in {"running", "closed"}
    /\ inHand # <<>>
    /\ LET exp == inHand[1]
       IN  IF Newer(exp) /\ Relevant(exp.layer_id)
           THEN cache' = CacheWith(exp) /\ configVersion' = exp.config_version
           ELSE UNCHANGED <<cache, configVersion>>
    /\ inHand' = <<>>
    /\ UNCHANGED <<worldVars, offset, file, phase, loaded, base, position,
                   start, missed, faults>>

Close ==
    /\ phase = "running"
    /\ phase' = "closed"
    /\ UNCHANGED <<worldVars, offset, file, loaded, cacheVars, readerVars, faults>>

\* The process ends or dies, at any point; it dies too when NewClient is called
\* a second time, for the metrics are registered already.
Exit ==
    /\ phase # "off"
    /\ phase' = "off"
    /\ loaded' = NoFile
    /\ cache' = {} /\ configVersion' = 0 /\ base' = 0
    /\ position' = 0 /\ inHand' = <<>> /\ start' = 0 /\ missed' = {}
    /\ UNCHANGED <<worldVars, offset, file, faults>>

-----------------------------------------------------------------------------
ClientNext ==
    \/ NewClient
    \/ FetchSnapshot
    \/ LoadLocal
    \/ LoadFails
    \/ Populate
    \/ StartConsumer
    \/ ReadMessage
    \/ ReadFails
    \/ Rebalance
    \/ ApplyDelta
    \/ Close
    \/ Exit

SdkNext == Deliver \/ PutSnapshot \/ Expire \/ ClientNext

SdkSpec == SdkInit /\ [][SdkNext]_vars

\* NewClient and the consumer loop run on; nothing makes MinIO answer, the
\* reader fail, or anybody start or close a client.
SdkFairness ==
    /\ WF_vars(FetchSnapshot \/ LoadLocal \/ LoadFails)
    /\ WF_vars(Populate)
    /\ WF_vars(StartConsumer)
    /\ WF_vars(ReadMessage)
    /\ WF_vars(ApplyDelta)

FairSdkSpec == SdkSpec /\ SdkFairness

-----------------------------------------------------------------------------
(* What the client promises.                                               *)

\* configVersion is the newest version in the cache: what was left out by the
\* scoping of the snapshot or of a delta never moves it, so it cannot make a
\* later delta of a relevant layer look stale.
VersionIsOfCache == HasCache => configVersion = NewestIn(cache)

\* A layer has at most one copy of an experiment, and the cache has only
\* layers the client asked for: Decide would count a user twice otherwise.
OneCopyPerLayer ==
    /\ \A p, q \in cache : SameSlot(p, q) => p = q
    /\ \A p \in cache : Relevant(p.layer_id)

\* Every message this client has read is in the cache, in this version of the
\* experiment or a newer one, or there is a reason: the reader passed over it,
\* it is still in hand, its layer is not relevant, or its version was already
\* overtaken by the snapshot or by an earlier message.  In particular, as long
\* as versions arrive in order, no delta is lost.
Kept(p) == \E q \in cache : SameSlot(p, q) /\ p.config_version <= q.config_version

DeltaKeptUnlessOvertaken ==
    phase \in {"running", "closed"} =>
        \A i \in (start + 1)..position :
            \/ Kept(topic[i])
            \/ i \in missed
            \/ i = position /\ inHand # <<>>
            \/ ~Relevant(topic[i].layer_id)
            \/ topic[i].config_version <= base
            \/ \E j \in (start + 1)..(i - 1) :
                   /\ j \notin missed
                   /\ Relevant(topic[j].layer_id)
                   /\ topic[i].config_version <= topic[j].config_version

\* While a client lives, redeliveries, rebalances and messages out of order
\* never take an experiment back to an older version or out of the cache.
CacheNeverGoesBack ==
    [][(HasCache /\ HasCache') =>
           \A p \in cache : \E q \in cache' :
               SameSlot(p, q) /\ p.config_version <= q.config_version]_vars

\* What the README says of client-sdk: it compares its state with MinIO
\* periodically to heal itself.  So a client that runs on beside a snapshot
\* with a relevant experiment of version v gets to v in the end.
HealsFromSnapshot ==
    \A v \in {p.config_version : p \in Versions} :
        <>[](/\ phase = "running"
             /\ \E s \in bucket :
                    IsLatest(s) /\ v = NewestIn({p \in s.data : Relevant(p.layer_id)}))
            => <>(configVersion >= v)
=============================================================================
