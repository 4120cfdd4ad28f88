--------------------------- MODULE PlatformProofs ---------------------------
(***************************************************************************)
(* What the platform promises, proved for every set of experiments, bodies *)
(* and layers and without the bounds of the runs.                          *)
(*                                                                         *)
(* The client of Platform is that of SdkClient, so what is proved of it in *)
(* the freest of worlds holds here too: ClientImplementsSdk shows that     *)
(* each step of the platform is a step of SdkClient or none of its         *)
(* business, and the invariants of SdkClientProofs follow.  What is left   *)
(* to prove is what a snapshot and a cache have to do with the table.      *)
(***************************************************************************)
EXTENDS Platform, IndexLemmas, FiniteSetTheorems, TLAPS

\* SdkClient with its theorems, about the client of the platform.
CP == INSTANCE SdkClientProofs WITH
          Payloads <- Experiment, topic <- Topic,
          MaxMessages <- MaxChanges + MaxRepeats, MaxFaults <- MaxReadFaults

-----------------------------------------------------------------------------
(* The client of the platform as that of SdkClient.                        *)

LEMMA ExperimentFacts ==
    ASSUME NEW p \in Experiment
    PROVE  p.config_version \in Nat /\ p.config_version <= MaxChanges
<1> DEFINE L == {body.layer_id : body \in Bodies} \cup {""}
           S == {body.status : body \in Bodies} \cup {""}
<1>1. p \in [id : ExperimentIDs, layer_id : L, config_version : 0..MaxChanges,
             status : S, salt : {""}]
  BY DEF Experiment
<1>2. p.config_version \in 0..MaxChanges
  <2> HIDE DEF L, S
  <2> QED BY <1>1
<1> QED
  BY <1>2, PlatformAssumption

\* What SdkClient assumes of its constants is so here.
LEMMA ClientAssumption == CP!SdkAssumption
<1>1. \A p \in Experiment : p.config_version \in Nat
  BY ExperimentFacts
<1>2. MaxChanges + MaxRepeats \in Nat /\ InitialName \in Nat
  BY PlatformAssumption DEF InitialName
<1> QED
  BY <1>1, <1>2, PlatformAssumption

LEMMA SameContents ==
    /\ CP!Versions = Sdk!Versions
    /\ CP!Contents = Sdk!Contents
    /\ CP!NoFile = Sdk!NoFile
    /\ \A S : CP!NewestIn(S) = Sdk!NewestIn(S)
    /\ \A S : CP!IsFiniteSet(S) <=> IsFiniteSet(S)
<1>1. \A S : CP!IsFiniteSet(S) <=> IsFiniteSet(S)
  BY DEF CP!IsFiniteSet, IsFiniteSet
<1>2. \A S : Sdk!IsFiniteSet(S) <=> IsFiniteSet(S)
  BY DEF Sdk!IsFiniteSet, IsFiniteSet
<1> QED
  BY <1>1, <1>2 DEF CP!Versions, Sdk!Versions, CP!Contents, Sdk!Contents, CP!NoFile, Sdk!NoFile,
     CP!NewestIn, Sdk!NewestIn

LEMMA SameInit == CP!SdkInit <=> Sdk!SdkInit
  BY DEF CP!SdkInit, Sdk!SdkInit, CP!NoFile, Sdk!NoFile


LEMMA SameWorld ==
    /\ Sdk!Deliver <=> CP!Deliver
    /\ Sdk!PutSnapshot <=> CP!PutSnapshot
    /\ Sdk!Expire <=> CP!Expire
<1>1. Sdk!Deliver <=> CP!Deliver
  BY DEF Sdk!Deliver, CP!Deliver, CP!clientVars, Sdk!clientVars, CP!cacheVars, Sdk!cacheVars,
         CP!readerVars, Sdk!readerVars
<1>2. Sdk!PutSnapshot <=> CP!PutSnapshot
  BY SameContents DEF Sdk!PutSnapshot, CP!PutSnapshot, CP!clientVars, Sdk!clientVars, CP!cacheVars, Sdk!cacheVars,
         CP!readerVars, Sdk!readerVars, CP!Cardinality, Sdk!Cardinality
<1>3. Sdk!Expire <=> CP!Expire
  BY DEF Sdk!Expire, CP!Expire, CP!clientVars, Sdk!clientVars, CP!cacheVars, Sdk!cacheVars,
         CP!readerVars, Sdk!readerVars
<1> QED
  BY <1>1, <1>2, <1>3

LEMMA SameStart ==
    /\ Sdk!NewClient <=> CP!NewClient
    /\ Sdk!FetchSnapshot <=> CP!FetchSnapshot
    /\ Sdk!LoadLocal <=> CP!LoadLocal
    /\ Sdk!LoadFails <=> CP!LoadFails
    /\ Sdk!Populate <=> CP!Populate
    /\ Sdk!StartConsumer <=> CP!StartConsumer
<1> USE DEF CP!worldVars, Sdk!worldVars, CP!cacheVars, Sdk!cacheVars, CP!readerVars, Sdk!readerVars
<1>1. Sdk!NewClient <=> CP!NewClient
  BY DEF Sdk!NewClient, CP!NewClient
<1>2. Sdk!FetchSnapshot <=> CP!FetchSnapshot
  BY DEF Sdk!FetchSnapshot, CP!FetchSnapshot, Sdk!IsLatest, CP!IsLatest
<1>3. Sdk!LoadLocal <=> CP!LoadLocal
  BY DEF Sdk!LoadLocal, CP!LoadLocal
<1>4. Sdk!LoadFails <=> CP!LoadFails
  BY DEF Sdk!LoadFails, CP!LoadFails
<1>5. Sdk!Populate <=> CP!Populate
  BY SameContents DEF Sdk!Populate, CP!Populate, Sdk!InScope, CP!InScope, Sdk!Relevant, CP!Relevant,
     Sdk!SnapshotVersion, CP!SnapshotVersion
<1>6. Sdk!StartConsumer <=> CP!StartConsumer
  BY DEF Sdk!StartConsumer, CP!StartConsumer, Sdk!FirstOffset, CP!FirstOffset
<1> QED
  BY <1>1, <1>2, <1>3, <1>4, <1>5, <1>6

LEMMA SameConsumer ==
    /\ Sdk!ReadMessage <=> CP!ReadMessage
    /\ Sdk!ReadFails <=> CP!ReadFails
    /\ Sdk!Rebalance <=> CP!Rebalance
    /\ Sdk!ApplyDelta <=> CP!ApplyDelta
    /\ Sdk!Close <=> CP!Close
    /\ Sdk!Exit <=> CP!Exit
<1> USE DEF CP!worldVars, Sdk!worldVars, CP!cacheVars, Sdk!cacheVars, CP!readerVars, Sdk!readerVars
<1>1. Sdk!ReadMessage <=> CP!ReadMessage
  BY DEF Sdk!ReadMessage, CP!ReadMessage, Sdk!CanRead, CP!CanRead
<1>2. Sdk!ReadFails <=> CP!ReadFails
  BY DEF Sdk!ReadFails, CP!ReadFails, Sdk!CanRead, CP!CanRead
<1>3. Sdk!Rebalance <=> CP!Rebalance
  BY DEF Sdk!Rebalance, CP!Rebalance
<1>4. Sdk!ApplyDelta <=> CP!ApplyDelta
  BY DEF Sdk!ApplyDelta, CP!ApplyDelta, Sdk!Newer, CP!Newer, Sdk!Relevant, CP!Relevant,
         Sdk!CacheWith, CP!CacheWith, Sdk!SameSlot, CP!SameSlot
<1>5. Sdk!Close <=> CP!Close
  BY DEF Sdk!Close, CP!Close
<1>6. Sdk!Exit <=> CP!Exit
  BY DEF Sdk!Exit, CP!Exit, Sdk!NoFile, CP!NoFile
<1> QED
  BY <1>1, <1>2, <1>3, <1>4, <1>5, <1>6

LEMMA SameNext == Sdk!SdkNext <=> CP!SdkNext
  BY SameWorld, SameStart, SameConsumer
     DEF Sdk!SdkNext, CP!SdkNext, Sdk!ClientNext, CP!ClientNext

LEMMA SamePromises ==
    /\ CP!SdkTypeOK <=> Sdk!SdkTypeOK
    /\ CP!VersionIsOfCache <=> Sdk!VersionIsOfCache
    /\ CP!OneCopyPerLayer <=> Sdk!OneCopyPerLayer
    /\ CP!DeltaKeptUnlessOvertaken <=> Sdk!DeltaKeptUnlessOvertaken
<1>1. CP!SdkTypeOK <=> Sdk!SdkTypeOK
  BY SameContents DEF CP!SdkTypeOK, Sdk!SdkTypeOK, CP!File, Sdk!File, CP!Snapshot, Sdk!Snapshot,
     CP!Phases, Sdk!Phases
<1>2. CP!VersionIsOfCache <=> Sdk!VersionIsOfCache
  BY SameContents DEF CP!VersionIsOfCache, Sdk!VersionIsOfCache, CP!HasCache, Sdk!HasCache
<1>3. CP!OneCopyPerLayer <=> Sdk!OneCopyPerLayer
  BY DEF CP!OneCopyPerLayer, Sdk!OneCopyPerLayer, CP!SameSlot, Sdk!SameSlot, CP!Relevant, Sdk!Relevant
<1>4. CP!DeltaKeptUnlessOvertaken <=> Sdk!DeltaKeptUnlessOvertaken
  BY DEF CP!DeltaKeptUnlessOvertaken, Sdk!DeltaKeptUnlessOvertaken, CP!Kept, Sdk!Kept,
     CP!SameSlot, Sdk!SameSlot, CP!Relevant, Sdk!Relevant
<1> QED
  BY <1>1, <1>2, <1>3, <1>4

-----------------------------------------------------------------------------
(* The table and the events.                                               *)

\* The events are numbered as they were committed, and so are their versions.
EventsInv ==
    /\ committed \subseteq Event
    /\ IsFiniteSet(committed)
    /\ Cardinality(committed) <= MaxChanges
    /\ \A e \in committed :
        /\ e.created_at <= Cardinality(committed)
        /\ e.event_type = "UPSERT" => e.payload.config_version = e.created_at
        /\ e.event_type = "DELETE" => e.payload.config_version = 0 /\ e.payload.status = ""
    /\ \A e, f \in committed : e.created_at = f.created_at => e = f

\* p was a version of an experiment.
Upserted(p, events) == \E e \in events : e.event_type = "UPSERT" /\ e.payload = p

\* A row is what the newest event of its experiment says, and no event of it is
\* a DELETE.
RowsInv ==
    /\ experiments \subseteq Experiment
    /\ IsFiniteSet(experiments)
    /\ \A row \in experiments :
        /\ Upserted(row, committed)
        /\ \A e \in committed :
            e.payload.id = row.id =>
                e.event_type = "UPSERT" /\ e.created_at <= row.config_version

TableInv == EventsInv /\ RowsInv

\* The event of a request.
IsEventOf(e, type, n) ==
    /\ e \in Event
    /\ e.event_type = type
    /\ e.created_at = n
    /\ IF type = "UPSERT" THEN e.payload.config_version = n
       ELSE e.payload.config_version = 0 /\ e.payload.status = ""

LEMMA EventFacts ==
    ASSUME NEW e \in Event
    PROVE  /\ e.event_type \in {"UPSERT", "DELETE"}
           /\ e.payload \in Experiment
           /\ e.created_at \in Nat /\ e.created_at > 0
<1>1. e.created_at \in 1..MaxChanges
  BY DEF Event
<1> QED
  BY <1>1, PlatformAssumption DEF Event

\* What a request commits.
LEMMA ApiFacts ==
    ASSUME EventsInv, Api
    PROVE  \E e, type :
               /\ IsEventOf(e, type, Cardinality(committed) + 1)
               /\ Table!Record(e)
<1>1. PICK id \in ExperimentIDs : (\E body \in Bodies : Upsert(id, body)) \/ Delete(id)
  BY DEF Api
<1>2. Cardinality(committed) + 1 \in 1..MaxChanges
  <2>1. Cardinality(committed) < MaxChanges
    BY DEF Api
  <2>2. Cardinality(committed) \in Nat
    BY FS_CardinalityType DEF EventsInv
  <2> QED
    BY <2>1, <2>2, PlatformAssumption
<1> DEFINE n == Cardinality(committed) + 1
           L == {body.layer_id : body \in Bodies} \cup {""}
           S == {body.status : body \in Bodies} \cup {""}
<1> HIDE DEF n
<1>3. Experiment = [id : ExperimentIDs, layer_id : L, config_version : 0..MaxChanges,
                    status : S, salt : {""}]
  BY DEF Experiment
<1>4. n \in 1..MaxChanges /\ n \in 0..MaxChanges /\ 0 \in 0..MaxChanges
  BY <1>2, PlatformAssumption DEF n
<1>5. CASE \E body \in Bodies : Upsert(id, body)
  <2>1. PICK body \in Bodies : Upsert(id, body)
    BY <1>5
  <2> DEFINE p == [id |-> id, salt |-> "", layer_id |-> body.layer_id, status |-> body.status,
                   config_version |-> n]
             e == [event_type |-> "UPSERT", payload |-> p, created_at |-> n]
  <2>2. Table!Record(e)
    BY <2>1 DEF Upsert, Commit, n
  <2>3. body.layer_id \in L /\ body.status \in S
    OBVIOUS
  <2>4. p \in Experiment
    <3> HIDE DEF L, S
    <3> QED BY <1>3, <1>4, <2>3
  <2>5. e \in Event
    BY <1>4, <2>4 DEF Event
  <2>6. IsEventOf(e, "UPSERT", n)
    BY <2>5 DEF IsEventOf
  <2> QED
    BY <2>2, <2>6 DEF n
<1>6. CASE Delete(id)
  <2> DEFINE p == [id |-> id, layer_id |-> "", salt |-> "", status |-> "", config_version |-> 0]
             e == [event_type |-> "DELETE", payload |-> p, created_at |-> n]
  <2>2. Table!Record(e)
    BY <1>6 DEF Delete, Commit, n
  <2>4. p \in Experiment
    <3>1. "" \in L /\ "" \in S
      OBVIOUS
    <3> HIDE DEF L, S
    <3> QED BY <1>3, <1>4, <3>1
  <2>5. e \in Event
    BY <1>4, <2>4 DEF Event
  <2>6. IsEventOf(e, "DELETE", n)
    BY <2>5 DEF IsEventOf
  <2> QED
    BY <2>2, <2>6 DEF n
<1> QED
  BY <1>1, <1>5, <1>6

\* The next event is numbered after all the others.
LEMMA CommitEvents ==
    ASSUME EventsInv, Cardinality(committed) < MaxChanges,
           NEW e, NEW type, IsEventOf(e, type, Cardinality(committed) + 1),
           committed' = committed \cup {e}
    PROVE  /\ EventsInv'
           /\ e \notin committed
           /\ Cardinality(committed') = Cardinality(committed) + 1
           /\ \A f \in committed : f.created_at < e.created_at
<1>1. Cardinality(committed) \in Nat
  BY FS_CardinalityType DEF EventsInv
<1>2. \A f \in committed : f.created_at \in Nat /\ f.created_at < e.created_at
  <2>1. e.created_at = Cardinality(committed) + 1
    BY DEF IsEventOf
  <2>2. \A f \in committed : f.created_at \in Nat /\ f.created_at <= Cardinality(committed)
    BY EventFacts DEF EventsInv
  <2> QED
    BY <1>1, <2>1, <2>2
<1>3. e \notin committed
  BY <1>2
<1>4. IsFiniteSet(committed') /\ Cardinality(committed') = Cardinality(committed) + 1
  BY <1>3, FS_AddElement DEF EventsInv
<1>5. committed' \subseteq Event
  BY DEF EventsInv, IsEventOf
<1>6. Cardinality(committed') <= MaxChanges
  BY <1>1, <1>4, PlatformAssumption
<1>7. ASSUME NEW f \in committed'
      PROVE  /\ f.created_at <= Cardinality(committed')
             /\ f.event_type = "UPSERT" => f.payload.config_version = f.created_at
             /\ f.event_type = "DELETE" => f.payload.config_version = 0 /\ f.payload.status = ""
  <2>1. CASE f = e
    <3>0. e.created_at = Cardinality(committed) + 1
      BY DEF IsEventOf
    <3>1. f.created_at <= Cardinality(committed')
      BY <1>1, <1>4, <2>1, <3>0
    <3>2. f.event_type = type
      BY <2>1 DEF IsEventOf
    <3> QED
      BY <2>1, <3>0, <3>1, <3>2 DEF IsEventOf
  <2>2. CASE f \in committed
    <3>0. f.created_at <= Cardinality(committed)
      BY <2>2 DEF EventsInv
    <3>1. f.created_at <= Cardinality(committed')
      BY <1>1, <1>2, <1>4, <2>2, <3>0
    <3> QED
      BY <2>2, <3>1 DEF EventsInv
  <2> QED
    BY <2>1, <2>2
<1>8. \A f, g \in committed' : f.created_at = g.created_at => f = g
  <2>1. \A f, g \in committed : f.created_at = g.created_at => f = g
    BY DEF EventsInv
  <2>2. \A f \in committed : f.created_at # e.created_at
    <3>1. e.created_at \in Nat
      BY EventFacts DEF IsEventOf
    <3> QED
      BY <1>2, <3>1
  <2> QED
    BY <2>1, <2>2
<1> QED
  BY <1>2, <1>3, <1>4, <1>5, <1>6, <1>7, <1>8 DEF EventsInv

LEMMA OneRowEach ==
    ASSUME TableInv
    PROVE  \A r1, r2 \in experiments : r1.id = r2.id => r1 = r2
<1>1. SUFFICES ASSUME NEW r1 \in experiments, NEW r2 \in experiments, r1.id = r2.id
               PROVE  r1 = r2
  OBVIOUS
<1>2. PICK e1 \in committed : e1.event_type = "UPSERT" /\ e1.payload = r1
  BY DEF TableInv, RowsInv, Upserted
<1>3. PICK e2 \in committed : e2.event_type = "UPSERT" /\ e2.payload = r2
  BY DEF TableInv, RowsInv, Upserted
<1>4. e1.created_at = r1.config_version /\ e2.created_at = r2.config_version
  BY <1>2, <1>3 DEF TableInv, EventsInv
<1>5. e1.created_at <= r2.config_version /\ e2.created_at <= r1.config_version
  BY <1>1, <1>2, <1>3 DEF TableInv, RowsInv
<1>6. e1.created_at \in Nat /\ e2.created_at \in Nat
  BY EventFacts DEF TableInv, EventsInv
<1>7. e1 = e2
  <2>1. e1.created_at = e2.created_at
    BY <1>4, <1>5, <1>6
  <2> QED
    BY <2>1 DEF TableInv, EventsInv
<1> QED
  BY <1>2, <1>3, <1>7

Others(p) == {row \in experiments : row.id # p.id}

\* An event replaces the row of its experiment, removes it, or has none.
LEMMA RecordEffect ==
    ASSUME TableInv, NEW e \in Event, Table!Record(e)
    PROVE  /\ experiments' \in {Others(e.payload), Others(e.payload) \cup {e.payload}}
           /\ e.payload \in experiments' =>
                  /\ e.event_type = "UPSERT"
                  /\ \A f \in committed : f.payload.id = e.payload.id => f.event_type = "UPSERT"
           /\ (\E row \in experiments : row.id = e.payload.id) =>
                  e.event_type = "DELETE" \/ e.payload \in experiments'
<1> DEFINE p == e.payload
<1>1. \A row \in experiments : \E f \in committed : f.payload = row
  BY DEF TableInv, RowsInv, Upserted
<1>2. \A row \in experiments, f \in committed : f.payload.id = row.id => f.event_type = "UPSERT"
  BY DEF TableInv, RowsInv
<1>3. p \notin Others(p)
  BY DEF Others
<1>4. CASE Table!Insert(e)
  <2>1. \A f \in committed : f.payload.id # p.id
    BY <1>4 DEF Table!Insert, Table!Of
  <2>2. Others(p) = experiments /\ ~\E row \in experiments : row.id = p.id
    BY <1>1, <2>1 DEF Others
  <2> QED
    BY <1>4, <2>1, <2>2 DEF Table!Insert
<1>5. CASE Table!Replace(e)
  <2>1. PICK row \in experiments : row.id = p.id /\ experiments' = (experiments \ {row}) \cup {p}
    BY <1>5 DEF Table!Replace
  <2>2. Others(p) = experiments \ {row}
    BY <2>1, OneRowEach DEF Others
  <2> QED
    BY <1>2, <1>5, <2>1, <2>2 DEF Table!Replace
<1>6. CASE Table!Stray(e)
  <2>1. \E d \in committed : d.payload.id = p.id /\ d.event_type = "DELETE"
    BY <1>6 DEF Table!Stray, Table!Deleted, Table!Of
  <2>2. \A row \in experiments : row.id # p.id
    BY <1>2, <2>1
  <2>3. Others(p) = experiments
    BY <2>2 DEF Others
  <2> QED
    BY <1>3, <1>6, <2>2, <2>3 DEF Table!Stray
<1>7. CASE Table!Remove(e)
  <2>1. PICK row \in experiments : row.id = p.id /\ experiments' = experiments \ {row}
    BY <1>7 DEF Table!Remove
  <2>2. Others(p) = experiments \ {row}
    BY <2>1, OneRowEach DEF Others
  <2> QED
    BY <1>3, <1>7, <2>1, <2>2 DEF Table!Remove
<1> QED
  BY <1>4, <1>5, <1>6, <1>7 DEF Table!Record

LEMMA RecordRows ==
    ASSUME TableInv, Cardinality(committed) < MaxChanges,
           NEW e, NEW type, IsEventOf(e, type, Cardinality(committed) + 1), Table!Record(e)
    PROVE  RowsInv'
<1> DEFINE p == e.payload
<1>1. committed' = committed \cup {e}
  BY DEF Table!Record
<1>2. \A f \in committed : f.created_at < e.created_at
  BY <1>1, CommitEvents DEF TableInv
<1>3. e \in Event /\ p \in Experiment /\ e.created_at \in Nat /\ e.event_type = type
  BY EventFacts DEF IsEventOf
<1>4. /\ experiments' \in {Others(p), Others(p) \cup {p}}
      /\ p \in experiments' =>
             /\ type = "UPSERT"
             /\ \A f \in committed : f.payload.id = p.id => f.event_type = "UPSERT"
  BY <1>3, RecordEffect
<1>5. experiments' \subseteq Experiment
  BY <1>3, <1>4 DEF TableInv, RowsInv, Others
<1>6. IsFiniteSet(experiments')
  <2>1. IsFiniteSet(Others(p))
    BY FS_Subset DEF TableInv, RowsInv, Others
  <2> QED
    BY <1>4, <2>1, FS_AddElement
<1>7. ASSUME NEW row \in experiments'
      PROVE  /\ Upserted(row, committed')
             /\ \A f \in committed' :
                    f.payload.id = row.id =>
                        f.event_type = "UPSERT" /\ f.created_at <= row.config_version
  <2>1. CASE row \in Others(p)
    <3>1. row \in experiments /\ row.id # p.id
      BY <2>1 DEF Others
    <3> QED
      BY <1>1, <3>1 DEF TableInv, RowsInv, Upserted
  <2>2. CASE row = p
    <3>1. type = "UPSERT" /\ p.config_version = e.created_at
      BY <1>4, <2>2 DEF IsEventOf
    <3>2. \A f \in committed' : f.created_at <= e.created_at
      <4>1. \A f \in committed : f.created_at \in Nat
        BY EventFacts DEF TableInv, EventsInv
      <4> QED
        BY <1>1, <1>2, <1>3, <4>1
    <3> QED
      BY <1>1, <1>3, <1>4, <2>2, <3>1, <3>2 DEF Upserted
  <2> QED
    BY <1>4, <2>1, <2>2
<1> QED
  BY <1>5, <1>6, <1>7 DEF RowsInv

LEMMA TableStep ==
    ASSUME TableInv, Api \/ UNCHANGED tableVars
    PROVE  TableInv'
<1>1. CASE Api
  <2>1. PICK e, type :
            /\ IsEventOf(e, type, Cardinality(committed) + 1)
            /\ Table!Record(e)
    BY <1>1, ApiFacts DEF TableInv
  <2>2. Cardinality(committed) < MaxChanges /\ committed' = committed \cup {e}
    BY <1>1, <2>1 DEF Api, Table!Record
  <2> QED
    BY <2>1, <2>2, CommitEvents, RecordRows DEF TableInv
<1>2. CASE UNCHANGED tableVars
  BY <1>2 DEF tableVars, TableInv, EventsInv, RowsInv, Upserted
<1> QED
  BY <1>1, <1>2

\* Only requests write the table.
LEMMA OnlyApiWrites == ASSUME [Next]_vars PROVE Api \/ UNCHANGED tableVars
<1>1. CASE DeliverFirst \/ DeliverAgain \/ Lose
  BY <1>1 DEF DeliverFirst, DeliverAgain, Lose
<1>2. CASE Generator \/ Client(Sdk!ClientNext) \/ Client(Sdk!Expire) \/ UNCHANGED vars
  BY <1>2 DEF Generator, Client, vars
<1> QED
  BY <1>1, <1>2 DEF Next

LEMMA InitTable == Init => TableInv
<1> SUFFICES ASSUME Init PROVE TableInv
  OBVIOUS
<1>1. experiments = {} /\ committed = {}
  BY DEF Init, Table!TableInit
<1>2. Cardinality(committed) = 0 /\ IsFiniteSet(committed) /\ IsFiniteSet(experiments)
  BY <1>1, FS_EmptySet
<1> QED
  BY <1>1, <1>2, PlatformAssumption DEF TableInv, EventsInv, RowsInv

\* Nothing is ever in the table, or becomes an event, that ExperimentTable would
\* not have.
THEOREM TableImplemented == Spec => Table!TableSpec
<1>1. Init => Table!TableInit /\ TableInv
  BY InitTable DEF Init
<1>2. TableInv /\ [Next]_vars => TableInv' /\ [Table!TableNext]_(Table!tableVars)
  <2> SUFFICES ASSUME TableInv, [Next]_vars
               PROVE  TableInv' /\ [Table!TableNext]_(Table!tableVars)
    OBVIOUS
  <2>1. Api \/ UNCHANGED tableVars
    BY OnlyApiWrites
  <2>2. TableInv'
    BY <2>1, TableStep
  <2>3. CASE Api
    <3>1. PICK e, type :
              /\ IsEventOf(e, type, Cardinality(committed) + 1)
              /\ Table!Record(e)
      BY <2>3, ApiFacts DEF TableInv
    <3>2. e \in Event /\ e \in committed'
      BY <3>1 DEF IsEventOf, Table!Record
    <3> QED
      BY <2>2, <3>1, <3>2 DEF Table!TableNext
  <2> QED
    BY <2>1, <2>2, <2>3 DEF tableVars, Table!tableVars
<1> QED
  BY <1>1, <1>2, PTL DEF Spec, Table!TableSpec

-----------------------------------------------------------------------------
(* The topic.                                                              *)

FeedInv ==
    /\ feed \in Seq(committed)
    /\ lost \subseteq committed
    /\ Len(feed) <= Cardinality(Feed!Delivered) + MaxRepeats

LEMMA DeliveredFacts ==
    ASSUME TableInv, FeedInv
    PROVE  /\ Feed!Delivered \subseteq committed
           /\ IsFiniteSet(Feed!Delivered)
           /\ Cardinality(Feed!Delivered) \in Nat
           /\ Cardinality(Feed!Delivered) <= Cardinality(committed)
<1>1. Feed!Delivered \subseteq committed
  BY DEF FeedInv, Feed!Delivered
<1> QED
  BY <1>1, FS_Subset, FS_CardinalityType DEF TableInv, EventsInv

LEMMA DeliverFacts ==
    ASSUME TableInv, FeedInv, NEW e \in committed, feed' = Append(feed, e)
    PROVE  /\ Len(feed) \in Nat /\ Len(feed') = Len(feed) + 1
           /\ Feed!Delivered' = Feed!Delivered \cup {e}
           /\ feed'[Len(feed')] = e
<1>1. /\ Len(feed) \in Nat /\ Len(feed') = Len(feed) + 1
      /\ \A i \in 1..Len(feed) : feed'[i] = feed[i]
      /\ feed'[Len(feed) + 1] = e
  BY DEF FeedInv
<1> QED
  BY <1>1 DEF Feed!Delivered

LEMMA FeedStep ==
    ASSUME TableInv, FeedInv, [Next]_vars
    PROVE  FeedInv'
<1>1. CASE Api \/ UNCHANGED <<committed, feed, lost>>
  <2>1. committed \subseteq committed' /\ UNCHANGED <<feed, lost>>
    BY <1>1 DEF Api, Upsert, Delete, Commit, Table!Record, feedVars
  <2> QED
    BY <2>1 DEF FeedInv, Feed!Delivered
<1>2. CASE DeliverFirst \/ DeliverAgain
  <2>1. PICK e \in committed : feed' = Append(feed, e)
    BY <1>2 DEF DeliverFirst, DeliverAgain, Feed!Deliver
  <2>2. committed' = committed /\ lost' = lost
    BY <1>2 DEF DeliverFirst, DeliverAgain, Feed!Deliver, tableVars
  <2>3. feed' \in Seq(committed)
    BY <2>1 DEF FeedInv
  <2>4. Len(feed') <= Cardinality(Feed!Delivered') + MaxRepeats
    <3>1. CASE DeliverFirst
      <4>1. e \notin Feed!Delivered
        BY <2>1, <3>1, DeliverFacts DEF DeliverFirst
      <4>2. Cardinality(Feed!Delivered') = Cardinality(Feed!Delivered) + 1
        BY <2>1, <4>1, DeliverFacts, DeliveredFacts, FS_AddElement
      <4> QED
        BY <2>1, <4>2, DeliverFacts, DeliveredFacts, PlatformAssumption DEF FeedInv
    <3>2. CASE DeliverAgain
      <4>1. e \in Feed!Delivered /\ Len(feed) - Cardinality(Feed!Delivered) < MaxRepeats
        BY <2>1, <3>2, DeliverFacts DEF DeliverAgain
      <4>2. Feed!Delivered' = Feed!Delivered
        BY <2>1, <4>1, DeliverFacts
      <4> QED
        BY <2>1, <4>1, <4>2, DeliverFacts, DeliveredFacts, PlatformAssumption
    <3> QED
      BY <1>2, <3>1, <3>2
  <2> QED
    BY <2>2, <2>3, <2>4 DEF FeedInv
<1>3. CASE Lose
  <2>1. lost' \subseteq committed /\ feed' = feed /\ committed' = committed
    BY <1>3 DEF Lose, Feed!Lose, tableVars, FeedInv
  <2> QED
    BY <2>1 DEF FeedInv, Feed!Delivered
<1>4. CASE Generator \/ Client(Sdk!ClientNext) \/ Client(Sdk!Expire) \/ UNCHANGED vars
  BY <1>1, <1>4 DEF Generator, Client, vars, tableVars, feedVars
<1> QED
  BY <1>1, <1>2, <1>3, <1>4 DEF Next

\* The topic is filled as DeltaFeed says.
THEOREM FeedImplemented == Spec => Feed!FeedSpec
<1>1. Init => Feed!FeedInit
  BY DEF Init, Table!TableInit, Feed!FeedInit
<1>2. TableInv /\ FeedInv /\ [Next]_vars => [Feed!FeedNext]_(Feed!feedVars)
  <2> SUFFICES ASSUME TableInv, FeedInv, [Next]_vars
               PROVE  [Feed!FeedNext]_(Feed!feedVars)
    OBVIOUS
  <2>1. CASE Api
    <3>1. PICK e, type :
              /\ IsEventOf(e, type, Cardinality(committed) + 1)
              /\ Table!Record(e)
      BY <2>1, ApiFacts DEF TableInv
    <3>2. Cardinality(committed) < MaxChanges /\ committed' = committed \cup {e}
      BY <2>1, <3>1 DEF Api, Table!Record
    <3>3. e \in committed' \ committed /\ e \in Event
      BY <3>1, <3>2 DEF Table!Record, IsEventOf
    <3>4. \A f \in committed : f.created_at < e.created_at
      BY <3>1, <3>2, CommitEvents DEF TableInv
    <3>5. \A f \in committed : f.created_at \in Nat /\ e.created_at \in Nat
      BY <3>3, EventFacts DEF TableInv, EventsInv
    <3>6. \A f \in Feed!Delivered : ~Feed!Precedes(e, f, committed)
      BY <3>4, <3>5, DeliveredFacts DEF Feed!Precedes
    <3>7. UNCHANGED <<feed, lost>>
      BY <2>1 DEF Api, feedVars
    <3> QED
      BY <3>2, <3>3, <3>6, <3>7 DEF Feed!FeedNext, Feed!CommitChange
  <2>2. CASE DeliverFirst \/ DeliverAgain \/ Lose
    BY <2>2 DEF DeliverFirst, DeliverAgain, Lose, Feed!FeedNext
  <2>3. CASE Generator \/ Client(Sdk!ClientNext) \/ Client(Sdk!Expire) \/ UNCHANGED vars
    BY <2>3 DEF Generator, Client, vars, tableVars, feedVars, Feed!feedVars
  <2> QED
    BY <2>1, <2>2, <2>3 DEF Next
<1>3. Spec => [](TableInv /\ FeedInv)
  <2>1. Init => TableInv /\ FeedInv
    BY InitTable, FS_EmptySet, PlatformAssumption
       DEF Init, Table!TableInit, FeedInv, Feed!Delivered
  <2>2. TableInv /\ FeedInv /\ [Next]_vars => TableInv' /\ FeedInv'
    BY OnlyApiWrites, TableStep, FeedStep
  <2> QED
    BY <2>1, <2>2, PTL DEF Spec
<1> QED
  BY <1>1, <1>2, <1>3, PTL DEF Spec, Feed!FeedSpec

-----------------------------------------------------------------------------
(* What a snapshot has to do with the table, now and later.                *)

\* The experiment of p was, after p, at some time not ACTIVE or was deleted.
StoppedIn(p, events) ==
    \E e \in events : /\ e.payload.id = p.id
                      /\ e.created_at > p.config_version
                      /\ e.payload.status # "ACTIVE"

\* The experiment of p is still ACTIVE in a row, as it is in p or newer.
RunsIn(p, rows) ==
    \E row \in rows : /\ row.id = p.id
                      /\ row.status = "ACTIVE"
                      /\ p.config_version <= row.config_version

\* No row as old as version v is contradicted by data.
AgreesUpTo(v, data, rows) ==
    \A row \in rows :
        row.config_version <= v => \A p \in data : p.id = row.id => p = row

\* data was read from the table: it has nothing but versions that were ACTIVE and
\* it has all rows that were, and have not changed since.
ReadFrom(data, rows, events) ==
    /\ IsFiniteSet(data)
    /\ \A p \in data : Upserted(p, events) /\ p.status = "ACTIVE"
    /\ \A p, q \in data : p.id = q.id => p = q
    /\ AgreesUpTo(Sdk!NewestIn(data), data, rows)
    /\ \A row \in rows :
           (row.status = "ACTIVE" /\ row.config_version <= Sdk!NewestIn(data)) => row \in data
    /\ \A p \in data : StoppedIn(p, events) \/ RunsIn(p, rows)

LEMMA NewestFacts ==
    ASSUME NEW S \in SUBSET Experiment, IsFiniteSet(S)
    PROVE  /\ Sdk!NewestIn(S) \in Nat
           /\ \A p \in S : p.config_version <= Sdk!NewestIn(S)
           /\ S # {} => \E p \in S : p.config_version = Sdk!NewestIn(S)
           /\ S = {} => Sdk!NewestIn(S) = 0
<1>1. CP!IsFiniteSet(S)
  BY SameContents
<1>2. CP!NewestIn(S) \in Nat /\ \A p \in S : p.config_version <= CP!NewestIn(S)
  BY <1>1, ClientAssumption, CP!NewestBounds
<1>3. ASSUME S # {} PROVE \E p \in S : p.config_version = CP!NewestIn(S)
  <2>1. PICK p \in S : \A q \in S : q.config_version <= p.config_version
    BY <1>1, <1>3, ClientAssumption, CP!NewestExists
  <2>2. CP!NewestIn(S) = p.config_version
    BY <2>1, ClientAssumption, CP!NewestIs
  <2> QED
    BY <2>2
<1> QED
  BY <1>2, <1>3, SameContents DEF Sdk!NewestIn

LEMMA UpsertedFacts ==
    ASSUME EventsInv, NEW p, Upserted(p, committed)
    PROVE  /\ p \in Experiment
           /\ p.config_version \in Nat /\ p.config_version > 0
           /\ p.config_version <= Cardinality(committed)
           /\ \E e \in committed : e.event_type = "UPSERT" /\ e.payload = p
                                   /\ e.created_at = p.config_version
<1>1. PICK e \in committed : e.event_type = "UPSERT" /\ e.payload = p
  BY DEF Upserted
<1>2. e \in Event /\ e.created_at <= Cardinality(committed) /\ p.config_version = e.created_at
  BY <1>1 DEF EventsInv
<1> QED
  BY <1>1, <1>2, EventFacts

\* What was read from the table is a set of experiments and as old as an event.
LEMMA ReadFromFacts ==
    ASSUME EventsInv, NEW data, ReadFrom(data, experiments, committed)
    PROVE  /\ data \in SUBSET Experiment /\ IsFiniteSet(data)
           /\ data \in Sdk!Contents
           /\ Sdk!NewestIn(data) \in Nat
           /\ Sdk!NewestIn(data) <= Cardinality(committed)
<1>1. \A p \in data : /\ p \in Experiment
                      /\ p.config_version \in Nat /\ p.config_version > 0
                      /\ p.config_version <= Cardinality(committed)
  BY UpsertedFacts DEF ReadFrom
<1>2. data \in SUBSET Experiment /\ IsFiniteSet(data)
  BY <1>1 DEF ReadFrom
<1>3. data \in Sdk!Contents
  BY <1>1, <1>2, SameContents DEF CP!Contents, CP!Versions
<1>4. Sdk!NewestIn(data) <= Cardinality(committed)
  <2>1. CASE data = {}
    <3>1. Sdk!NewestIn(data) = 0
      BY <1>2, <2>1, NewestFacts
    <3>2. Cardinality(committed) \in Nat
      BY FS_CardinalityType DEF EventsInv
    <3> QED
      BY <3>1, <3>2
  <2>2. CASE data # {}
    BY <1>1, <1>2, <2>2, NewestFacts
  <2> QED
    BY <2>1, <2>2
<1> QED
  BY <1>2, <1>3, <1>4, NewestFacts

LEMMA NothingRead ==
    ASSUME NEW rows \in SUBSET experiments, RowsInv, EventsInv
    PROVE  ReadFrom({}, rows, committed)
<1>1. Sdk!NewestIn({}) = 0
  BY DEF Sdk!NewestIn
<1>2. \A row \in rows : ~(row.config_version <= 0)
  BY UpsertedFacts DEF RowsInv
<1> QED
  BY <1>1, <1>2, FS_EmptySet DEF ReadFrom, AgreesUpTo

\* A row is the only one of its experiment, so the ACTIVE ones are a snapshot.
LEMMA ReadNow ==
    ASSUME TableInv
    PROVE  ReadFrom(ActiveRows, experiments, committed)
<1>1. ActiveRows \subseteq experiments /\ IsFiniteSet(ActiveRows)
  BY FS_Subset DEF ActiveRows, TableInv, RowsInv
<1>2. \A p \in ActiveRows : /\ Upserted(p, committed) /\ p.status = "ACTIVE"
                            /\ p.config_version \in Nat
  BY <1>1, UpsertedFacts DEF TableInv, RowsInv, ActiveRows
<1>3. \A p \in ActiveRows : RunsIn(p, experiments)
  BY <1>1, <1>2 DEF RunsIn
<1>4. \A row \in experiments, p \in ActiveRows : p.id = row.id => p = row
  BY <1>1, OneRowEach
<1> QED
  BY <1>1, <1>2, <1>3, <1>4 DEF ReadFrom, AgreesUpTo, ActiveRows

\* What a request changes is newer than every snapshot.
LEMMA RowsAgree ==
    ASSUME TableInv, Cardinality(committed) < MaxChanges,
           NEW e, NEW type, IsEventOf(e, type, Cardinality(committed) + 1), Table!Record(e)
    PROVE  \A row \in experiments' :
               \/ row \in experiments
               \/ /\ row = e.payload
                  /\ row.config_version > Cardinality(committed)
<1>1. e \in Event /\ e.event_type = type
  BY DEF IsEventOf
<1>2. /\ experiments' \in {Others(e.payload), Others(e.payload) \cup {e.payload}}
      /\ e.payload \in experiments' => type = "UPSERT"
  BY <1>1, RecordEffect
<1>3. type = "UPSERT" => e.payload.config_version = Cardinality(committed) + 1
  BY DEF IsEventOf
<1>4. Cardinality(committed) \in Nat
  BY FS_CardinalityType DEF TableInv, EventsInv
<1> QED
  BY <1>2, <1>3, <1>4 DEF Others

LEMMA ReadFromStays ==
    ASSUME TableInv, Cardinality(committed) < MaxChanges,
           NEW e, NEW type, IsEventOf(e, type, Cardinality(committed) + 1), Table!Record(e),
           NEW data, ReadFrom(data, experiments, committed)
    PROVE  ReadFrom(data, experiments', committed')
<1> DEFINE v == Sdk!NewestIn(data)
<1>1. committed' = committed \cup {e}
  BY DEF Table!Record
<1>2. v \in Nat /\ v <= Cardinality(committed) /\ Cardinality(committed) \in Nat
  BY ReadFromFacts, FS_CardinalityType DEF TableInv, EventsInv
<1>3. \A row \in experiments' : row.config_version <= v => row \in experiments
  <2>1. \A row \in experiments' : row \in experiments \/ row.config_version > Cardinality(committed)
    BY RowsAgree
  <2>2. \A row \in experiments' \ experiments : row = e.payload
    BY RowsAgree
  <2>3. e.payload.config_version \in Nat
    BY EventFacts, ExperimentFacts DEF IsEventOf
  <2> QED
    BY <1>2, <2>1, <2>2, <2>3
<1>4. \A p \in data : Upserted(p, committed') /\ p.status = "ACTIVE"
  BY <1>1 DEF ReadFrom, Upserted
<1>5. AgreesUpTo(v, data, experiments')
  BY <1>3 DEF ReadFrom, AgreesUpTo
<1>6. \A row \in experiments' :
          (row.status = "ACTIVE" /\ row.config_version <= v) => row \in data
  BY <1>3 DEF ReadFrom
<1>7. ASSUME NEW p \in data
      PROVE  StoppedIn(p, committed') \/ RunsIn(p, experiments')
  <2>1. CASE StoppedIn(p, committed)
    BY <1>1, <2>1 DEF StoppedIn
  <2>2. CASE RunsIn(p, experiments)
    <3>1. PICK row \in experiments :
              row.id = p.id /\ row.status = "ACTIVE" /\ p.config_version <= row.config_version
      BY <2>2 DEF RunsIn
    <3>2. CASE row \in experiments'
      BY <3>1, <3>2 DEF RunsIn
    <3>3. CASE row \notin experiments'
      <4>1. e \in Event /\ e.event_type = type
        BY DEF IsEventOf
      <4>2. row.id = e.payload.id /\ (type = "DELETE" \/ e.payload \in experiments')
        BY <3>3, <4>1, RecordEffect DEF Others
      <4>3. p.config_version \in Nat /\ p.config_version <= Cardinality(committed)
        BY UpsertedFacts DEF ReadFrom, TableInv
      <4>4. e.created_at = Cardinality(committed) + 1
        BY DEF IsEventOf
      <4>5. e.created_at > p.config_version
        BY <1>2, <4>3, <4>4
      <4>6. CASE e.payload.status # "ACTIVE"
        BY <1>1, <3>1, <4>2, <4>5, <4>6 DEF StoppedIn
      <4>7. CASE e.payload.status = "ACTIVE"
        <5>1. e.payload \in experiments' /\ e.payload.config_version = e.created_at
          BY <4>2, <4>7 DEF IsEventOf
        <5> QED
          BY <1>2, <3>1, <4>2, <4>3, <4>4, <4>7, <5>1 DEF RunsIn
      <4> QED
        BY <4>6, <4>7
    <3> QED
      BY <3>2, <3>3
  <2> QED
    BY <2>1, <2>2 DEF ReadFrom
<1> QED
  BY <1>4, <1>5, <1>6, <1>7 DEF ReadFrom

-----------------------------------------------------------------------------
(* The bucket.                                                             *)

\* The experiment a snapshot is named after was stopped after it was read.
NewestStopped(s) ==
    \E p \in s.data : p.config_version = s.name /\ StoppedIn(p, committed)

\* A snapshot of this name is not older than those generated before, but for those
\* whose newest experiment was stopped.
OverAll(name) == \A s \in Generated : s.name <= name \/ NewestStopped(s)

BucketInv ==
    /\ gen.pc \in {"idle", "queried"}
    /\ gen = [pc |-> gen.pc, data |-> gen.data]
    /\ ReadFrom(gen.data, experiments, committed)
    /\ gen.pc = "queried" => gen.data # {} /\ OverAll(Sdk!NewestIn(gen.data))
    /\ \A s \in Generated :
        /\ s = Snapshot(s.data)
        /\ s.data # {}
        /\ ReadFrom(s.data, experiments, committed)
    /\ \A s, t \in Generated : s.name = t.name => s = t
    /\ lastUpload \in Generated \cup {NoSnapshot}
    /\ Generated # {} => lastUpload \in Generated
    /\ OverAll(lastUpload.name)

LEMMA BucketInit == Init => BucketInv
<1> SUFFICES ASSUME Init PROVE BucketInv
  OBVIOUS
<1>1. gen = [pc |-> "idle", data |-> {}] /\ Generated = {} /\ lastUpload = NoSnapshot
  BY DEF Init, Generated
<1>2. ReadFrom({}, experiments, committed)
  BY InitTable, NothingRead DEF TableInv
<1> QED
  BY <1>1, <1>2 DEF BucketInv, OverAll

LEMMA NewestOfSnapshot ==
    ASSUME TableInv, BucketInv, NEW s \in Generated
    PROVE  \E p \in s.data :
               /\ p.config_version = s.name
               /\ StoppedIn(p, committed) \/ RunsIn(p, experiments)
<1>1. /\ s = Snapshot(s.data) /\ s.data # {}
      /\ ReadFrom(s.data, experiments, committed)
  BY DEF BucketInv
<1>2. s.name = Sdk!NewestIn(s.data)
  BY <1>1 DEF Snapshot
<1>3. \E p \in s.data : p.config_version = s.name
  BY <1>1, <1>2, ReadFromFacts, NewestFacts DEF TableInv
<1> QED
  BY <1>1, <1>3 DEF ReadFrom

LEMMA NamesAreVersions ==
    ASSUME TableInv, BucketInv
    PROVE  /\ \A s \in Generated : s.name \in Nat
           /\ lastUpload.name \in Nat
           /\ Sdk!NewestIn(gen.data) \in Nat
<1>1. \A s \in Generated : s.name \in Nat
  BY ReadFromFacts DEF TableInv, BucketInv, Snapshot
<1> QED
  BY <1>1, ReadFromFacts DEF TableInv, BucketInv, NoSnapshot

LEMMA BucketApi ==
    ASSUME TableInv, BucketInv, Api
    PROVE  BucketInv'
<1>1. PICK e, type :
          /\ IsEventOf(e, type, Cardinality(committed) + 1)
          /\ Table!Record(e)
  BY ApiFacts DEF TableInv
<1>2. Cardinality(committed) < MaxChanges /\ committed' = committed \cup {e}
  BY <1>1 DEF Api, Table!Record
<1>3. UNCHANGED <<gen, lastUpload, Generated>>
  BY DEF Api, genVars, Generated
<1>4. \A data : ReadFrom(data, experiments, committed) => ReadFrom(data, experiments', committed')
  BY <1>1, <1>2, ReadFromStays
<1>5. \A s \in Generated : NewestStopped(s) => NewestStopped(s)'
  BY <1>2 DEF NewestStopped, StoppedIn
<1>6. \A name : OverAll(name) => \A s \in Generated : s.name <= name \/ NewestStopped(s)'
  BY <1>5 DEF OverAll
<1>7. \A s \in Generated : s = Snapshot(s.data)'
  BY DEF BucketInv, Snapshot
<1> QED
  BY <1>3, <1>4, <1>6, <1>7 DEF BucketInv, OverAll

LEMMA BucketQuery ==
    ASSUME TableInv, BucketInv, Query, UNCHANGED tableVars
    PROVE  BucketInv'
<1>1. /\ gen' = [pc |-> "queried", data |-> ActiveRows]
      /\ ActiveRows # {} /\ UNCHANGED <<lastUpload, Generated, experiments, committed>>
  BY DEF Query, tableVars, Generated
<1>2. ReadFrom(ActiveRows, experiments, committed)
  BY ReadNow
<1>3. OverAll(Sdk!NewestIn(ActiveRows))
  <2>1. SUFFICES ASSUME NEW s \in Generated, ~NewestStopped(s)
                 PROVE  s.name <= Sdk!NewestIn(ActiveRows)
    BY DEF OverAll
  <2>2. PICK p \in s.data : p.config_version = s.name /\ RunsIn(p, experiments)
    BY <2>1, NewestOfSnapshot DEF NewestStopped
  <2>3. PICK row \in ActiveRows : p.config_version <= row.config_version
    BY <2>2 DEF RunsIn, ActiveRows
  <2>4. row.config_version \in Nat /\ row.config_version <= Sdk!NewestIn(ActiveRows)
    BY <1>2, ReadFromFacts, NewestFacts, ExperimentFacts DEF TableInv
  <2>5. Sdk!NewestIn(ActiveRows) \in Nat /\ s.name \in Nat
    BY <1>2, ReadFromFacts, NamesAreVersions DEF TableInv
  <2> QED
    BY <2>2, <2>3, <2>4, <2>5
<1>4. UNCHANGED OverAll(lastUpload.name) /\ OverAll(Sdk!NewestIn(ActiveRows))'
  BY <1>1, <1>3 DEF OverAll, NewestStopped, ActiveRows
<1>5. \A s \in Generated : s = Snapshot(s.data)'
  BY DEF BucketInv, Snapshot
<1> QED
  BY <1>1, <1>2, <1>4, <1>5 DEF BucketInv, ActiveRows

\* The object that is stored replaces the one of its name.
LEMMA BucketUpload ==
    ASSUME TableInv, BucketInv, Upload, UNCHANGED tableVars
    PROVE  BucketInv'
<1> DEFINE new == Snapshot(gen.data)
<1>1. /\ gen.pc = "queried" /\ lastUpload' = new /\ bucket' = Stored(new)
      /\ gen' = [pc |-> "idle", data |-> {}] /\ UNCHANGED <<experiments, committed>>
  BY DEF Upload, tableVars
<1>2. /\ new = Snapshot(new.data) /\ new.data = gen.data /\ new.data # {}
      /\ ReadFrom(new.data, experiments, committed)
      /\ OverAll(new.name)
  BY <1>1 DEF BucketInv, Snapshot
<1>3. Generated' = {t \in Generated : t.name # new.name} \cup {new}
  <2>1. new # InitialSnapshot
    BY <1>2 DEF InitialSnapshot
  <2>2. bucket' = {t \in bucket : t.name # new.name} \cup {new}
    BY <1>1 DEF Stored
  <2> HIDE DEF new
  <2> QED
    BY <2>1, <2>2 DEF Generated
<1>4. ReadFrom({}, experiments, committed)
  BY NothingRead DEF TableInv
<1>5. \A s \in Generated' : /\ s = Snapshot(s.data)
                         /\ s.data # {}
                         /\ ReadFrom(s.data, experiments, committed)
  BY <1>2, <1>3 DEF BucketInv
<1>6. \A s, t \in Generated' : s.name = t.name => s = t
  BY <1>3 DEF BucketInv
<1>7. new.name \in Nat
  BY <1>2, NamesAreVersions DEF Snapshot
<1>8. \A s \in Generated' : s.name <= new.name \/ NewestStopped(s)
  BY <1>2, <1>3, <1>7 DEF OverAll
<1>9. OverAll(lastUpload.name)'
  BY <1>1, <1>8 DEF OverAll, NewestStopped
<1>10. \A s \in Generated' : s = Snapshot(s.data)'
  BY <1>5 DEF Snapshot
<1> HIDE DEF new
<1> QED
  BY <1>1, <1>3, <1>4, <1>5, <1>6, <1>9, <1>10 DEF BucketInv

LEMMA BucketOthers ==
    ASSUME TableInv, BucketInv, GeneratorDies \/ UNCHANGED <<gen, lastUpload, bucket>>,
           UNCHANGED tableVars
    PROVE  BucketInv'
<1>1. UNCHANGED <<lastUpload, Generated, experiments, committed>>
  BY DEF GeneratorDies, tableVars, Generated
<1>2. \/ gen' = [pc |-> "idle", data |-> {}]
      \/ gen' = gen
  BY DEF GeneratorDies
<1>3. ReadFrom({}, experiments, committed)
  BY NothingRead DEF TableInv
<1>4. \A name : OverAll(name) => \A s \in Generated : s.name <= name \/ NewestStopped(s)'
  BY <1>1 DEF OverAll, NewestStopped
<1>5. \A s \in Generated : s = Snapshot(s.data)'
  BY DEF BucketInv, Snapshot
<1> QED
  BY <1>1, <1>2, <1>3, <1>4, <1>5 DEF BucketInv, OverAll

\* Nobody but the generator has to do with the bucket.
LEMMA BucketUnchanged ==
    ASSUME DeliverFirst \/ DeliverAgain \/ Lose \/ Client(Sdk!ClientNext) \/ Client(Sdk!Expire)
               \/ UNCHANGED vars
    PROVE  UNCHANGED <<gen, lastUpload, bucket>> /\ UNCHANGED tableVars
<1>1. CASE DeliverFirst \/ DeliverAgain \/ Lose
  BY <1>1 DEF DeliverFirst, DeliverAgain, Lose, genVars
<1>2. CASE Client(Sdk!ClientNext) \/ Client(Sdk!Expire) \/ UNCHANGED vars
  BY <1>2 DEF Client, genVars, vars
<1> QED
  BY <1>1, <1>2

LEMMA BucketStep ==
    ASSUME TableInv, BucketInv, [Next]_vars
    PROVE  BucketInv'
<1>1. CASE Generator
  BY <1>1, BucketQuery, BucketUpload, BucketOthers DEF Generator, GeneratorNext
<1>2. CASE DeliverFirst \/ DeliverAgain \/ Lose \/ Client(Sdk!ClientNext) \/ Client(Sdk!Expire)
               \/ UNCHANGED vars
  BY <1>2, BucketOthers, BucketUnchanged
<1> QED
  BY <1>1, <1>2, BucketApi DEF Next

WorldInv == TableInv /\ FeedInv /\ BucketInv

LEMMA WorldInit == Init => WorldInv
<1>1. Init => FeedInv
  BY FS_EmptySet, PlatformAssumption
     DEF Init, Table!TableInit, FeedInv, Feed!Delivered
<1> QED
  BY <1>1, InitTable, BucketInit DEF WorldInv

LEMMA WorldStep == ASSUME WorldInv, [Next]_vars PROVE WorldInv'
  BY OnlyApiWrites, TableStep, FeedStep, BucketStep DEF WorldInv

\* The inductive invariant of the table, the topic and the bucket.
LEMMA WorldInvariant == Spec => []WorldInv
  BY WorldInit, WorldStep, PTL DEF Spec

\* Type correctness of the platform.
THEOREM PlatformTyping == Spec => []PlatformTypeOK
<1>1. WorldInv => PlatformTypeOK
  BY ReadFromFacts
     DEF WorldInv, TableInv, EventsInv, RowsInv, FeedInv, BucketInv, Generated, PlatformTypeOK
<1> QED
  BY <1>1, WorldInvariant, PTL

\* The names of generated snapshots sort before that of the initial one.
LEMMA InitialSortsLast ==
    ASSUME WorldInv, NEW s \in Generated
    PROVE  s.name < InitialName
<1>1. s.name = Sdk!NewestIn(s.data) /\ ReadFrom(s.data, experiments, committed)
  BY DEF WorldInv, BucketInv, Snapshot
<1>2. s.name \in Nat /\ s.name <= Cardinality(committed)
  BY <1>1, ReadFromFacts DEF WorldInv, TableInv
<1>3. Cardinality(committed) <= MaxChanges /\ Cardinality(committed) \in Nat
  BY FS_CardinalityType DEF WorldInv, TableInv, EventsInv
<1> QED
  BY <1>2, <1>3, PlatformAssumption DEF InitialName

\* A client takes the object that was uploaded last, unless the newest experiment
\* in the one it takes was paused or deleted since; beside snapshot-initial.json
\* it never takes another one.
THEOREM LatestSnapshot == Spec => []LatestByNameIsLatest
<1>1. ASSUME WorldInv, NEW s \in bucket, Sdk!IsLatest(s), InitialSnapshot \in bucket
      PROVE  s = InitialSnapshot
  <2>1. InitialSnapshot.name <= s.name
    BY <1>1 DEF Sdk!IsLatest
  <2>2. ~(s.name < InitialName)
    <3>1. s.name >= InitialName
      BY <2>1 DEF InitialSnapshot
    <3>2. InitialName \in Nat /\ s.name \in Nat
      BY <1>1, NamesAreVersions, PlatformAssumption
         DEF WorldInv, InitialName, InitialSnapshot, Generated
    <3> QED
      BY <3>1, <3>2
  <2> QED
    BY <1>1, <2>2, InitialSortsLast DEF Generated
<1>2. ASSUME WorldInv, NEW s \in bucket, Sdk!IsLatest(s), InitialSnapshot \notin bucket,
             s # lastUpload
      PROVE  \E e \in committed :
                 /\ e.payload.config_version = s.name
                 /\ StoppedAfter(e)
  <2>1. s \in Generated
    BY <1>2 DEF Generated
  <2>2. lastUpload \in Generated /\ OverAll(lastUpload.name)
    BY <1>2, <2>1 DEF WorldInv, BucketInv
  <2>3. lastUpload.name <= s.name /\ lastUpload.name # s.name
    BY <1>2, <2>1, <2>2 DEF Sdk!IsLatest, Generated, WorldInv, BucketInv
  <2>4. NewestStopped(s)
    BY <1>2, <2>1, <2>2, <2>3, NamesAreVersions DEF OverAll, WorldInv
  <2>5. PICK p \in s.data : p.config_version = s.name /\ StoppedIn(p, committed)
    BY <2>4 DEF NewestStopped
  <2>6. Upserted(p, committed)
    BY <1>2, <2>1, <2>5 DEF WorldInv, BucketInv, ReadFrom
  <2>7. PICK e \in committed : e.payload = p /\ e.created_at = p.config_version
    BY <1>2, <2>6, UpsertedFacts DEF WorldInv, TableInv
  <2>8. StoppedAfter(e)
    BY <2>5, <2>7 DEF StoppedIn, StoppedAfter
  <2> QED
    BY <2>5, <2>7, <2>8
<1>3. WorldInv => LatestByNameIsLatest
  BY <1>1, <1>2 DEF LatestByNameIsLatest
<1> QED
  BY <1>3, WorldInvariant, PTL

-----------------------------------------------------------------------------
(* The platform is one of the worlds SdkClient can be in.                  *)

LEMMA TopicFacts ==
    ASSUME TableInv, FeedInv
    PROVE  /\ Len(Topic) = Len(feed) /\ Len(feed) \in Nat
           /\ \A i \in 1..Len(feed) : feed[i] \in committed /\ Topic[i] = feed[i].payload
<1>1. Len(feed) \in Nat /\ \A i \in 1..Len(feed) : feed[i] \in committed
  BY DEF FeedInv
<1> QED
  BY <1>1 DEF Topic

LEMMA DeliverIsDeliver ==
    ASSUME WorldInv, DeliverFirst \/ DeliverAgain
    PROVE  CP!Deliver
<1>1. PICK e \in committed : feed' = Append(feed, e)
  BY DEF DeliverFirst, DeliverAgain, Feed!Deliver
<1>2. UNCHANGED <<bucket, clientVars>>
  BY DEF DeliverFirst, DeliverAgain
<1>3. /\ Len(Topic) = Len(feed) /\ Len(feed) \in Nat
      /\ Len(feed') = Len(feed) + 1
      /\ feed' \in Seq(committed)
  BY <1>1, TopicFacts, DeliverFacts DEF WorldInv, FeedInv
<1>4. Topic' = Append(Topic, e.payload)
  <2>1. \A i \in 1..Len(feed) : feed'[i] = feed[i]
    BY <1>1 DEF WorldInv, FeedInv
  <2>2. feed'[Len(feed) + 1] = e
    BY <1>1 DEF WorldInv, FeedInv
  <2>3. Topic' = [i \in 1..(Len(feed) + 1) |-> feed'[i].payload]
    BY <1>3 DEF Topic
  <2>4. Topic = [i \in 1..Len(feed) |-> feed[i].payload]
    BY DEF Topic
  <2>5. \A i \in 1..(Len(feed) + 1) : i # Len(feed) + 1 => i \in 1..Len(feed)
    BY <1>3
  <2> HIDE DEF Topic
  <2> QED
    BY <1>3, <2>1, <2>2, <2>3, <2>4, <2>5
<1>5. e.payload \in Experiment
  BY EventFacts DEF WorldInv, TableInv, EventsInv
<1>6. Len(Topic) < MaxChanges + MaxRepeats
  <2>1. /\ Cardinality(Feed!Delivered) \in Nat /\ Cardinality(Feed!Delivered) <= Cardinality(committed)
        /\ Cardinality(committed) <= MaxChanges /\ Cardinality(committed) \in Nat
        /\ IsFiniteSet(committed) /\ Feed!Delivered \subseteq committed
    BY DeliveredFacts, FS_CardinalityType DEF WorldInv, TableInv, EventsInv
  <2>2. CASE DeliverFirst
    <3>1. e \notin Feed!Delivered
      BY <1>1, <2>2, DeliverFacts DEF DeliverFirst, WorldInv
    <3>2. Cardinality(Feed!Delivered) # Cardinality(committed)
      BY <2>1, <3>1, FS_Subset
    <3> QED
      BY <1>3, <2>1, <3>2, PlatformAssumption DEF WorldInv, FeedInv
  <2>3. CASE DeliverAgain
    <3>1. Len(feed) - Cardinality(Feed!Delivered) < MaxRepeats
      BY <2>3 DEF DeliverAgain
    <3> QED
      BY <1>3, <2>1, <3>1, PlatformAssumption
  <2> QED
    BY <2>2, <2>3
<1> QED
  BY <1>2, <1>4, <1>5, <1>6
     DEF CP!Deliver, clientVars, CP!clientVars, CP!cacheVars, CP!readerVars

LEMMA UploadIsPut ==
    ASSUME WorldInv, Upload, UNCHANGED <<feed, clientVars>>
    PROVE  CP!PutSnapshot
<1> DEFINE data == gen.data
           new == Snapshot(data)
<1>1. data # {} /\ ReadFrom(data, experiments, committed)
  BY DEF WorldInv, BucketInv, Upload
<1>2. data \in CP!Contents
  BY <1>1, ReadFromFacts, SameContents DEF WorldInv, TableInv
<1>3. \A p, q \in data : p.id = q.id => p = q
  BY <1>1 DEF ReadFrom
<1>4. /\ new = [name |-> CP!NewestIn(data), data |-> data]
      /\ bucket' = {t \in bucket : t.name # CP!NewestIn(data)} \cup {new}
  BY SameContents DEF Upload, Stored, Snapshot
<1>5. Cardinality(bucket') <= MaxSnapshots
  BY DEF Upload
<1>6. UNCHANGED <<Topic, offset, file, CP!clientVars, faults>>
  BY DEF Topic, clientVars, CP!clientVars, CP!cacheVars, CP!readerVars
<1> QED
  <2> HIDE DEF data, new
  <2> QED
    BY <1>1, <1>2, <1>3, <1>4, <1>5, <1>6 DEF CP!PutSnapshot, CP!Cardinality, Cardinality

LEMMA StepIsSdkStep ==
    ASSUME WorldInv, [Next]_vars
    PROVE  [CP!SdkNext]_(CP!vars)
<1>1. CASE UNCHANGED <<feed, bucket, clientVars>>
  BY <1>1 DEF CP!vars, Topic, clientVars
<1>2. CASE Api \/ Lose \/ UNCHANGED vars
  BY <1>1, <1>2 DEF Api, Lose, Feed!Lose, feedVars, vars
<1>3. CASE DeliverFirst \/ DeliverAgain
  BY <1>3, DeliverIsDeliver DEF CP!SdkNext
<1>4. CASE Generator
  BY <1>1, <1>4, UploadIsPut
     DEF Generator, GeneratorNext, Query, GeneratorDies, feedVars, CP!SdkNext
<1>5. CASE Client(Sdk!ClientNext) \/ Client(Sdk!Expire)
  BY <1>5, SameNext DEF Client, Sdk!SdkNext
<1> QED
  BY <1>2, <1>3, <1>4, <1>5 DEF Next

\* The client sees of the platform nothing that SdkClient's world would not show
\* it: what holds of the client in every world holds here.
THEOREM ClientImplementsSdk == Spec => Sdk!SdkSpec
<1>1. Init => Sdk!SdkInit
  BY DEF Init, InitialSnapshot, Sdk!SdkInit, Topic
<1>2. WorldInv /\ [Next]_vars => [Sdk!SdkNext]_(Sdk!vars)
  <2> SUFFICES ASSUME WorldInv, [Next]_vars PROVE [Sdk!SdkNext]_(Sdk!vars)
    OBVIOUS
  <2>1. CP!SdkNext \/ UNCHANGED CP!vars
    BY StepIsSdkStep
  <2>2. CP!SdkNext <=> Sdk!SdkNext
    BY SameNext
  <2>3. UNCHANGED CP!vars => UNCHANGED Sdk!vars
    BY DEF CP!vars, Sdk!vars
  <2> QED
    BY <2>1, <2>2, <2>3
<1> QED
  BY <1>1, <1>2, WorldInvariant, PTL DEF Spec, Sdk!SdkSpec

LEMMA ClientIsSdk == Spec => CP!SdkSpec
<1>1. Init => CP!SdkInit
  BY SameInit DEF Init, InitialSnapshot, Sdk!SdkInit, Topic
<1>2. WorldInv /\ [Next]_vars => [CP!SdkNext]_(CP!vars)
  BY StepIsSdkStep
<1> QED
  BY <1>1, <1>2, WorldInvariant, PTL DEF Spec, CP!SdkSpec

LEMMA ClientInvariant == Spec => []CP!SdkInv
  BY ClientIsSdk, ClientAssumption, CP!SdkInvariant, PTL

\* So the invariants of the client hold on the platform.
THEOREM ClientPromises ==
    Spec => [](/\ Sdk!SdkTypeOK
               /\ Sdk!OneCopyPerLayer
               /\ Sdk!VersionIsOfCache
               /\ Sdk!DeltaKeptUnlessOvertaken)
<1>1. CP!SdkInv => /\ Sdk!SdkTypeOK
                   /\ Sdk!OneCopyPerLayer
                   /\ Sdk!VersionIsOfCache
                   /\ Sdk!DeltaKeptUnlessOvertaken
  BY SamePromises DEF CP!SdkInv, CP!CacheInv
<1> QED
  BY <1>1, ClientInvariant, PTL

\* And whatever the platform does, nothing in the cache of a living client gets
\* older or disappears.
THEOREM ClientNeverGoesBack == Spec => Sdk!CacheNeverGoesBack
<1> DEFINE KeepsAll ==
               (Sdk!HasCache /\ Sdk!HasCache') =>
                   \A p \in cache : \E q \in cache' :
                       Sdk!SameSlot(p, q) /\ p.config_version <= q.config_version
<1>1. Spec => [][CP!NotBack]_(CP!vars)
  BY ClientIsSdk, ClientAssumption, CP!NeverGoesBack DEF CP!CacheNeverGoesBack, CP!NotBack
<1>2. [CP!NotBack]_(CP!vars) => [KeepsAll]_(Sdk!vars)
  BY DEF CP!NotBack, CP!HasCache, Sdk!HasCache, CP!SameSlot, Sdk!SameSlot, CP!vars, Sdk!vars
<1>3. Spec => [][KeepsAll]_(Sdk!vars)
  BY <1>1, <1>2, PTL
<1> QED
  BY <1>3 DEF Sdk!CacheNeverGoesBack

-----------------------------------------------------------------------------
(* The cache and the table.                                                *)

\* The rows up to version v that are ACTIVE, of the client's layers, are in data.
HasUpTo(v, data, rows) ==
    \A row \in rows :
        (row.status = "ACTIVE" /\ Sdk!Relevant(row.layer_id) /\ row.config_version <= v)
            => row \in data

\* What the cache took from its snapshot still agrees with every row as old as
\* that snapshot: a delta is always newer.
CopyInv ==
    /\ ReadFrom(file.data, experiments, committed)
    /\ ReadFrom(loaded.data, experiments, committed)
    /\ \A p \in cache : Upserted(p, committed)
    /\ CP!HasCache => /\ base <= Cardinality(committed)
                      /\ base <= configVersion
                      /\ AgreesUpTo(base, cache, experiments)
                      /\ HasUpTo(base, cache, experiments)

LEMMA CopyInit == Init => CopyInv
<1> SUFFICES ASSUME Init PROVE CopyInv
  OBVIOUS
<1>1. /\ file.data = {} /\ loaded.data = {} /\ cache = {} /\ base = 0 /\ phase = "off"
  BY DEF Init, Sdk!NoFile
<1>2. ReadFrom({}, experiments, committed)
  BY InitTable, NothingRead DEF TableInv
<1> QED
  BY <1>1, <1>2 DEF CopyInv, CP!HasCache

LEMMA CopyApi ==
    ASSUME TableInv, CP!SdkInv, CopyInv, Api
    PROVE  CopyInv'
<1>1. PICK e, type :
          /\ IsEventOf(e, type, Cardinality(committed) + 1)
          /\ Table!Record(e)
  BY ApiFacts DEF TableInv
<1>2. Cardinality(committed) < MaxChanges /\ committed' = committed \cup {e}
  BY <1>1 DEF Api, Table!Record
<1>3. UNCHANGED <<file, loaded, cache, base, phase, configVersion>>
  BY DEF Api, clientVars
<1>4. \A data : ReadFrom(data, experiments, committed) => ReadFrom(data, experiments', committed')
  BY <1>1, <1>2, ReadFromStays
<1>5. \A p \in cache : Upserted(p, committed')
  BY <1>2 DEF CopyInv, Upserted
<1>6. ASSUME CP!HasCache
      PROVE  /\ base <= Cardinality(committed')
             /\ AgreesUpTo(base, cache, experiments')
             /\ HasUpTo(base, cache, experiments')
  <2>1. Cardinality(committed) \in Nat /\ base \in Nat /\ base <= Cardinality(committed)
    BY <1>6, FS_CardinalityType
       DEF TableInv, EventsInv, CP!SdkInv, CP!CacheInv, CP!SdkTypeOK, CopyInv
  <2>2. Cardinality(committed') = Cardinality(committed) + 1
    BY <1>1, <1>2, CommitEvents DEF TableInv
  <2>3. \A row \in experiments' : row.config_version <= base => row \in experiments
    <3>1. \A row \in experiments' : row \in experiments \/ row.config_version > Cardinality(committed)
      BY <1>1, <1>2, RowsAgree
    <3>2. \A row \in experiments' : row.config_version \in Nat
      BY <1>1, <1>2, RecordRows, ExperimentFacts DEF RowsInv
    <3> QED
      BY <2>1, <3>1, <3>2
  <2>4. AgreesUpTo(base, cache, experiments) /\ HasUpTo(base, cache, experiments)
    BY <1>6 DEF CopyInv
  <2> QED
    BY <2>1, <2>2, <2>3, <2>4 DEF AgreesUpTo, HasUpTo
<1>7. CP!HasCache' <=> CP!HasCache
  BY <1>3 DEF CP!HasCache
<1> QED
  BY <1>3, <1>4, <1>5, <1>6, <1>7 DEF CopyInv

\* Steps that leave the cache and the snapshots alone.
LEMMA CopyStays ==
    ASSUME CopyInv, UNCHANGED <<experiments, committed, cache, configVersion, base>>,
           CP!HasCache' => CP!HasCache,
           ReadFrom(file'.data, experiments, committed),
           ReadFrom(loaded'.data, experiments, committed)
    PROVE  CopyInv'
  BY DEF CopyInv

LEMMA CopyFetch ==
    ASSUME TableInv, BucketInv, CopyInv, UNCHANGED tableVars,
           CP!FetchSnapshot \/ CP!LoadLocal \/ CP!Expire
    PROVE  CopyInv'
<1>0. ReadFrom({}, experiments, committed)
  BY NothingRead DEF TableInv
<1>1. /\ UNCHANGED <<experiments, committed, cache, configVersion, base>>
      /\ CP!HasCache' => CP!HasCache
  BY DEF tableVars, CP!FetchSnapshot, CP!LoadLocal, CP!Expire, CP!clientVars, CP!cacheVars, CP!HasCache
<1>2. CASE CP!FetchSnapshot
  <2>1. PICK latest \in bucket :
            /\ loaded' = [state |-> "whole", data |-> latest.data]
            /\ file' \in {loaded', file, [state |-> "torn", data |-> {}]}
    BY <1>2 DEF CP!FetchSnapshot
  <2>2. ReadFrom(latest.data, experiments, committed)
    BY <1>0 DEF BucketInv, Generated, InitialSnapshot
  <2>3. loaded'.data = latest.data /\ file'.data \in {latest.data, file.data, {}}
    BY <2>1
  <2> QED
    BY <1>0, <1>1, <2>2, <2>3, CopyStays DEF CopyInv
<1>3. CASE CP!LoadLocal \/ CP!Expire
  <2>1. loaded'.data \in {loaded.data, file.data} /\ file'.data \in {file.data, {}}
    BY <1>3 DEF CP!LoadLocal, CP!Expire, CP!clientVars
  <2> QED
    BY <1>0, <1>1, <2>1, CopyStays DEF CopyInv
<1> QED
  BY <1>2, <1>3

\* The scoping leaves in the cache what the snapshot has of the client's layers.
LEMMA CopyPopulate ==
    ASSUME TableInv, CP!SdkInv, CopyInv, UNCHANGED tableVars, CP!Populate
    PROVE  CopyInv'
<1> DEFINE data == loaded.data
           kept == CP!InScope(data)
           v == Sdk!NewestIn(data)
<1>0. ReadFrom({}, experiments, committed)
  BY NothingRead DEF TableInv
<1>1. ReadFrom(data, experiments, committed)
  BY DEF CopyInv
<1>2. /\ UNCHANGED <<experiments, committed, file>> /\ loaded'.data = {} /\ base' = configVersion'
  BY DEF CP!Populate, tableVars, CP!NoFile
<1>3. CASE loaded.state = "whole"
  <2>1. cache' = kept /\ configVersion' = Sdk!NewestIn(kept)
    BY <1>3, SameContents DEF CP!Populate, CP!SnapshotVersion
  <2>2. kept \subseteq data /\ \A p \in data : Sdk!Relevant(p.layer_id) => p \in kept
    BY DEF CP!InScope, CP!Relevant, Sdk!Relevant
  <2>3. data \in SUBSET Experiment /\ IsFiniteSet(data) /\ v \in Nat /\ v <= Cardinality(committed)
    BY <1>1, ReadFromFacts DEF TableInv
  <2>4. kept \in SUBSET Experiment /\ IsFiniteSet(kept)
    BY <2>2, <2>3, FS_Subset
  <2>5. Sdk!NewestIn(kept) \in Nat /\ Sdk!NewestIn(kept) <= v
    <3>1. CASE kept = {}
      BY <2>3, <2>4, <3>1, NewestFacts
    <3>2. CASE kept # {}
      <4>1. PICK p \in kept : p.config_version = Sdk!NewestIn(kept)
        BY <2>4, <3>2, NewestFacts
      <4>2. p.config_version <= v
        BY <2>2, <2>3, <4>1, NewestFacts
      <4> QED
        BY <2>4, <4>1, <4>2, NewestFacts
    <3> QED
      BY <3>1, <3>2
  <2>6. base' \in Nat /\ base' <= v /\ base' <= Cardinality(committed)
    <3>1. Cardinality(committed) \in Nat
      BY FS_CardinalityType DEF TableInv, EventsInv
    <3> QED
      BY <1>2, <2>1, <2>3, <2>5, <3>1
  <2>7. \A row \in experiments : row.config_version <= base' => row.config_version <= v
    <3>1. \A row \in experiments : row.config_version \in Nat
      BY ExperimentFacts DEF TableInv, RowsInv
    <3> QED
      BY <2>3, <2>6, <3>1
  <2>8. AgreesUpTo(base', cache', experiments)
    BY <1>1, <2>1, <2>2, <2>7 DEF ReadFrom, AgreesUpTo
  <2>9. HasUpTo(base', cache', experiments)
    BY <1>1, <2>1, <2>2, <2>7 DEF ReadFrom, HasUpTo
  <2>10. \A p \in cache' : Upserted(p, committed)
    BY <1>1, <2>1, <2>2 DEF ReadFrom
  <2>11. base' <= configVersion'
    BY <1>2, <2>6
  <2> QED
    BY <1>0, <1>2, <2>6, <2>8, <2>9, <2>10, <2>11 DEF CopyInv
<1>4. CASE loaded.state # "whole"
  <2>1. phase' = "failed" /\ cache' = cache /\ configVersion' = configVersion
    BY <1>4 DEF CP!Populate
  <2>2. ~CP!HasCache'
    BY <2>1 DEF CP!HasCache
  <2> QED
    BY <1>0, <1>2, <2>1, <2>2 DEF CopyInv
<1> QED
  BY <1>3, <1>4

\* A delta that is applied is newer than the snapshot, and if it is of an
\* experiment in the table, the row of that experiment is as new as the delta.
LEMMA CopyApply ==
    ASSUME TableInv, FeedInv, CP!SdkInv, CopyInv, UNCHANGED tableVars, CP!ApplyDelta
    PROVE  CopyInv'
<1> DEFINE exp == inHand[1]
<1>1. /\ UNCHANGED <<experiments, committed, file, loaded, base, phase>>
      /\ phase \in {"running", "closed"} /\ inHand # <<>>
  BY DEF CP!ApplyDelta, tableVars
<1>2. CP!HasCache /\ CP!HasCache'
  BY <1>1 DEF CP!HasCache
<1>3. CASE CP!Newer(exp) /\ CP!Relevant(exp.layer_id)
  <2>1. cache' = CP!CacheWith(exp) /\ configVersion' = exp.config_version
    BY <1>3 DEF CP!ApplyDelta
  <2>2. position \in 1..Len(feed) /\ exp = Topic[position]
    BY <1>1, TopicFacts DEF CP!SdkInv, CP!HandIsLast, CP!CacheInv, CP!SdkTypeOK
  <2>3. PICK e \in committed : exp = e.payload
    BY <2>2, TopicFacts
  <2>4. /\ base \in Nat /\ configVersion \in Nat /\ base <= configVersion
        /\ base <= Cardinality(committed)
    BY <1>2 DEF CP!SdkInv, CP!CacheInv, CP!SdkTypeOK, CopyInv
  <2>5. exp.config_version \in Nat /\ exp.config_version > base
    <3>1. exp.config_version \in Nat
      BY <2>3, EventFacts, ExperimentFacts DEF TableInv, EventsInv
    <3>2. exp.config_version > configVersion
      BY <1>3 DEF CP!Newer
    <3> QED
      BY <2>4, <3>1, <3>2
  <2>6. e.event_type = "UPSERT" /\ e.created_at = exp.config_version
    <3>1. e.event_type \in {"UPSERT", "DELETE"}
      BY EventFacts DEF TableInv, EventsInv
    <3>2. e.event_type # "DELETE"
      <4>1. exp.config_version # 0
        BY <2>4, <2>5
      <4> QED
        BY <2>3, <4>1 DEF TableInv, EventsInv
    <3>3. e.event_type = "UPSERT" => e.payload.config_version = e.created_at
      BY DEF TableInv, EventsInv
    <3> QED
      BY <2>3, <3>1, <3>2, <3>3
  <2>7. Upserted(exp, committed)
    BY <2>3, <2>6 DEF Upserted
  <2>8. \A row \in experiments : row.config_version <= base => row.id # exp.id
    <3>1. SUFFICES ASSUME NEW row \in experiments, row.config_version <= base, row.id = exp.id
                   PROVE  FALSE
      OBVIOUS
    <3>2. exp.config_version <= row.config_version
      BY <2>3, <2>6, <3>1 DEF TableInv, RowsInv
    <3>3. row.config_version \in Nat
      BY ExperimentFacts DEF TableInv, RowsInv
    <3> QED
      BY <2>4, <2>5, <3>1, <3>2, <3>3
  <2>9. \A p \in cache' : p = exp \/ p \in cache
    BY <2>1 DEF CP!CacheWith
  <2>10. \A p \in cache : p.id # exp.id => p \in cache'
    BY <2>1 DEF CP!CacheWith, CP!SameSlot
  <2>11. AgreesUpTo(base, cache, experiments) /\ HasUpTo(base, cache, experiments)
    BY <1>2 DEF CopyInv
  <2>12. AgreesUpTo(base, cache', experiments)
    BY <2>8, <2>9, <2>11 DEF AgreesUpTo
  <2>13. HasUpTo(base, cache', experiments)
    BY <2>8, <2>10, <2>11 DEF HasUpTo
  <2>14. \A p \in cache' : Upserted(p, committed)
    BY <2>7, <2>9 DEF CopyInv
  <2>15. base <= configVersion'
    BY <2>1, <2>4, <2>5
  <2> HIDE DEF exp
  <2> QED
    BY <1>1, <2>4, <2>12, <2>13, <2>14, <2>15 DEF CopyInv
<1>4. CASE ~(CP!Newer(exp) /\ CP!Relevant(exp.layer_id))
  <2>1. UNCHANGED <<cache, configVersion>>
    BY <1>4 DEF CP!ApplyDelta
  <2> QED
    BY <1>1, <1>2, <2>1 DEF CopyInv
<1> QED
  BY <1>3, <1>4

LEMMA CopyExit ==
    ASSUME TableInv, CopyInv, UNCHANGED tableVars, CP!Exit
    PROVE  CopyInv'
<1>1. ReadFrom({}, experiments, committed)
  BY NothingRead DEF TableInv
<1>2. /\ UNCHANGED <<experiments, committed, file>>
      /\ cache' = {} /\ loaded'.data = {} /\ phase' = "off"
  BY DEF tableVars, CP!Exit, CP!NoFile
<1> QED
  BY <1>1, <1>2 DEF CopyInv, CP!HasCache

LEMMA CopyOthers ==
    ASSUME CopyInv, UNCHANGED tableVars,
           \/ CP!NewClient \/ CP!LoadFails \/ CP!StartConsumer
           \/ CP!ReadMessage \/ CP!ReadFails \/ CP!Rebalance \/ CP!Close
           \/ UNCHANGED clientVars
    PROVE  CopyInv'
<1>1. UNCHANGED <<experiments, committed, file, loaded, cache, configVersion, base>>
  BY DEF tableVars, clientVars, CP!NewClient, CP!LoadFails, CP!StartConsumer, CP!ReadMessage,
         CP!ReadFails, CP!Rebalance, CP!Close, CP!cacheVars
<1>2. CP!HasCache' => CP!HasCache
  BY DEF clientVars, CP!NewClient, CP!LoadFails, CP!StartConsumer, CP!ReadMessage,
         CP!ReadFails, CP!Rebalance, CP!Close, CP!HasCache
<1> QED
  BY <1>1, <1>2, CopyStays DEF CopyInv

LEMMA CopyStep ==
    ASSUME WorldInv, CP!SdkInv, CopyInv, [Next]_vars
    PROVE  CopyInv'
<1> USE DEF WorldInv
<1>1. CASE Api
  BY <1>1, CopyApi
<1>2. CASE DeliverFirst \/ DeliverAgain \/ Lose \/ Generator \/ UNCHANGED vars
  <2>1. UNCHANGED clientVars /\ UNCHANGED tableVars
    BY <1>2 DEF DeliverFirst, DeliverAgain, Lose, Generator, vars
  <2> QED
    BY <2>1, CopyOthers
<1>3. CASE Client(Sdk!ClientNext) \/ Client(Sdk!Expire)
  <2>1. UNCHANGED tableVars
    BY <1>3 DEF Client
  <2>2. CP!ClientNext \/ CP!Expire
    BY <1>3, SameStart, SameConsumer, SameWorld DEF Client, Sdk!ClientNext, CP!ClientNext
  <2> QED
    BY <2>1, <2>2, CopyFetch, CopyPopulate, CopyApply, CopyExit, CopyOthers DEF CP!ClientNext
<1> QED
  BY <1>1, <1>2, <1>3 DEF Next

LEMMA CopyInvariant == Spec => []CopyInv
<1>1. WorldInv /\ CP!SdkInv /\ CopyInv /\ [Next]_vars => CopyInv'
  BY CopyStep
<1> QED
  BY <1>1, CopyInit, WorldInvariant, ClientInvariant, PTL DEF Spec

\* Every event has a first delivery.
LEMMA FirstDelivery ==
    ASSUME FeedInv, TableInv, NEW e \in Feed!Delivered
    PROVE  \E i \in 1..Len(feed) : feed[i] = e /\ \A k \in 1..(i - 1) : feed[k] # e
<1> DEFINE I == {i \in 1..Len(feed) : feed[i] = e}
<1>1. Len(feed) \in Nat /\ I # {} /\ I \in SUBSET Nat
  BY TopicFacts DEF Feed!Delivered
<1>2. PICK i \in I : \A m \in I : i <= m
  <2> HIDE DEF I
  <2> QED
    BY <1>1, LeastExists
<1>3. \A k \in 1..(i - 1) : k \in 1..Len(feed) /\ k < i
  BY <1>1
<1> QED
  BY <1>1, <1>2, <1>3

\* Once the client has caught up, a row of its layers is in the cache or as old as
\* the client's snapshot.
LEMMA RowArrived ==
    ASSUME WorldInv, CP!SdkInv, CopyInv, CaughtUp, SnapshotCoversStart,
           NEW row \in experiments, Sdk!Relevant(row.layer_id)
    PROVE  row \in cache \/ row.config_version <= base
<1> USE DEF WorldInv
<1>1. Upserted(row, committed) /\ row.config_version \in Nat /\ row.config_version > 0
  BY UpsertedFacts DEF TableInv, RowsInv
<1>2. PICK e \in committed : e.event_type = "UPSERT" /\ e.payload = row
  BY <1>1 DEF Upserted
<1>3. PICK i \in 1..Len(feed) : feed[i] = e /\ \A k \in 1..(i - 1) : feed[k] # e
  BY FirstDelivery DEF CaughtUp
<1>4. Len(feed) \in Nat /\ Topic[i] = row
  BY <1>2, <1>3, TopicFacts
<1>5. CASE i \in 1..start
  BY <1>4, <1>5 DEF SnapshotCoversStart
<1>6. CASE i \notin 1..start
  <2>1. start \in Nat /\ i \in (start + 1)..position
    BY <1>3, <1>4, <1>6 DEF CaughtUp, CP!SdkInv, CP!CacheInv, CP!SdkTypeOK
  <2>2. CP!Accounted(i)
    <3>1. phase = "running" /\ Sdk!DeltaKeptUnlessOvertaken
      BY SamePromises DEF CaughtUp, CP!SdkInv
    <3> QED
      BY <2>1, <3>1, SamePromises, CP!AllAccounted, ClientAssumption
  <2>3. CASE CP!Kept(Topic[i])
    <3>1. PICK q \in cache : /\ q.id = row.id /\ q.layer_id = row.layer_id
                             /\ row.config_version <= q.config_version
      BY <1>4, <2>3 DEF CP!Kept, CP!SameSlot
    <3>2. Upserted(q, committed)
      BY DEF CopyInv
    <3>3. PICK f \in committed : f.event_type = "UPSERT" /\ f.payload = q
      BY <3>2 DEF Upserted
    <3>4. f.created_at <= row.config_version
      BY <3>1, <3>3 DEF TableInv, RowsInv
    <3>5. f.created_at = q.config_version /\ e.created_at = row.config_version
      BY <1>2, <3>3 DEF TableInv, EventsInv
    <3>6. f.created_at \in Nat
      BY EventFacts DEF TableInv, EventsInv
    <3>7. f.created_at = e.created_at
      BY <1>1, <3>1, <3>4, <3>5, <3>6
    <3>8. f = e
      BY <3>7 DEF TableInv, EventsInv
    <3> QED
      BY <1>2, <3>3, <3>8
  <2>4. CASE \E j \in (start + 1)..(i - 1) : Topic[i].config_version <= Topic[j].config_version
    <3>1. PICK j \in (start + 1)..(i - 1) : row.config_version <= Topic[j].config_version
      BY <1>4, <2>4
    <3>2. j \in 1..Len(feed) /\ j < i /\ j \in 1..(i - 1)
      BY <1>3, <1>4, <2>1, <3>1
    <3>3. ~\E k \in 1..(j - 1) : feed[k] = feed[i] 
      BY <1>3, <2>1, <3>2
    <3>4. Topic[j].config_version <= row.config_version
      <4>1. \/ Topic[i].config_version = 0
            \/ Topic[j].config_version <= Topic[i].config_version
            \/ \E k \in 1..(j - 1) : feed[k] = feed[i]
        BY <1>3, <3>2 DEF CaughtUp
      <4> QED
        BY <1>1, <1>4, <3>3, <4>1
    <3>5. feed[j] \in committed /\ Topic[j] = feed[j].payload
      BY <3>2, TopicFacts
    <3>6. Topic[j].config_version \in Nat
      BY <3>5, EventFacts, ExperimentFacts DEF TableInv, EventsInv
    <3>7. Topic[j].config_version = row.config_version
      BY <1>1, <3>1, <3>4, <3>6
    <3>8. feed[j].event_type \in {"UPSERT", "DELETE"}
      BY <3>5, EventFacts DEF TableInv, EventsInv
    <3>9. feed[j].event_type = "UPSERT"
      <4>1. feed[j].payload.config_version # 0
        BY <1>1, <3>5, <3>7
      <4> QED
        BY <3>5, <3>8, <4>1 DEF TableInv, EventsInv
    <3>10. feed[j].created_at = e.created_at
      BY <1>2, <3>5, <3>7, <3>9 DEF TableInv, EventsInv
    <3>11. feed[j] = e
      BY <3>5, <3>10 DEF TableInv, EventsInv
    <3> QED
      BY <1>3, <3>2, <3>11
  <2> QED
    BY <1>4, <2>2, <2>3, <2>4 DEF CP!Accounted, CaughtUp, CP!Relevant, Sdk!Relevant
<1> QED
  BY <1>5, <1>6

\* A client that has caught up has exactly the ACTIVE rows of its layers, but for
\* orphans, whatever was lost, repeated or reordered on the way.
THEOREM CacheIsCopy == Spec => []CacheIsTable
<1>1. WorldInv /\ CP!SdkInv /\ CopyInv => CacheIsTable
  <2>1. SUFFICES ASSUME WorldInv, CP!SdkInv, CopyInv, CaughtUp, SnapshotCoversStart
                 PROVE  /\ \A row \in ActiveRows : Sdk!Relevant(row.layer_id) => row \in cache
                        /\ \A p \in cache :
                               \/ p.status # "ACTIVE"
                               \/ p \in experiments
                               \/ \A row \in experiments : ~Sdk!SameSlot(row, p)
    BY DEF CacheIsTable
  <2>2. CP!HasCache
    BY <2>1 DEF CaughtUp, CP!HasCache
  <2>3. AgreesUpTo(base, cache, experiments) /\ HasUpTo(base, cache, experiments)
    BY <2>1, <2>2 DEF CopyInv
  <2>4. \A row \in experiments :
            Sdk!Relevant(row.layer_id) => row \in cache \/ row.config_version <= base
    BY <2>1, RowArrived
  <2>5. \A row \in ActiveRows : Sdk!Relevant(row.layer_id) => row \in cache
    BY <2>3, <2>4 DEF HasUpTo, ActiveRows
  <2>6. ASSUME NEW p \in cache, NEW row \in experiments, Sdk!SameSlot(row, p)
        PROVE  p \in experiments
    <3>1. p.id = row.id /\ p.layer_id = row.layer_id
      BY <2>6 DEF Sdk!SameSlot
    <3>2. CP!OneCopyPerLayer
      BY <2>1 DEF CP!SdkInv, CP!CacheInv
    <3>3. Sdk!Relevant(row.layer_id)
      BY <3>1, <3>2 DEF CP!OneCopyPerLayer, CP!Relevant, Sdk!Relevant
    <3>4. CASE row \in cache
      BY <3>1, <3>2, <3>4 DEF CP!OneCopyPerLayer, CP!SameSlot
    <3>5. CASE row.config_version <= base
      BY <2>3, <3>1, <3>5 DEF AgreesUpTo
    <3> QED
      BY <2>4, <3>3, <3>4, <3>5
  <2> QED
    BY <2>5, <2>6
<1> QED
  BY <1>1, WorldInvariant, ClientInvariant, CopyInvariant, PTL
====
