-------------------------- MODULE SdkClientProofs --------------------------
(***************************************************************************)
(* The invariants of SdkClient, proved for every set of payloads and       *)
(* layers and without the bounds of the runs.                              *)
(*                                                                         *)
(* CacheInv is about the cache alone.  For the deltas SdkInv adds where    *)
(* the reader is: what the version of the cache comes from is committed in *)
(* the group, so that no rebalance makes the reader pass over it.          *)
(***************************************************************************)
EXTENDS SdkClient, FiniteSetTheorems, WellFoundedInduction, TLAPS

-----------------------------------------------------------------------------
(* The newest version of a set.                                            *)

\* A finite set of payloads has a newest one: the strict subsets of a finite set
\* are well-founded, so one of the sets "newer than p" is minimal.
LEMMA NewestExists ==
    ASSUME NEW S \in SUBSET Payloads, IsFiniteSet(S), S # {}
    PROVE  \E p \in S : \A q \in S : q.config_version <= p.config_version
<1> DEFINE Above(p) == {q \in S : q.config_version > p.config_version}
           T == {Above(p) : p \in S}
<1>1. IsWellFoundedOn(StrictSubsetOrdering(S), SUBSET S)
  BY FS_StrictSubsetOrderingWellFounded, FS_FiniteSubsetsOfFinite
<1>2. T \subseteq SUBSET S /\ T # {}
  OBVIOUS
<1>3. PICK X \in T : \A Y \in T : ~(<<Y, X>> \in StrictSubsetOrdering(S))
  <2> HIDE DEF T
  <2> QED BY <1>1, <1>2, WFMin
<1>4. PICK p \in S : X = Above(p)
  OBVIOUS
<1>5. SUFFICES ASSUME NEW q \in S, ~(q.config_version <= p.config_version)
               PROVE  FALSE
  OBVIOUS
<1>6. \A r \in S : r.config_version \in Nat
  BY SdkAssumption
<1>7. Above(q) \subseteq Above(p) /\ q \in Above(p) /\ q \notin Above(q)
  BY <1>5, <1>6
<1>8. <<Above(q), Above(p)>> \in StrictSubsetOrdering(S)
  BY <1>7 DEF StrictSubsetOrdering
<1> QED
  BY <1>3, <1>4, <1>8

\* NewestIn is the version of any newest member.
LEMMA NewestIs ==
    ASSUME NEW S \in SUBSET Payloads, NEW p \in S,
           \A q \in S : q.config_version <= p.config_version
    PROVE  NewestIn(S) = p.config_version
<1> DEFINE V == {q.config_version : q \in S}
           IsNewest(v) == \A q \in S : q.config_version <= v
<1>1. \A r \in S : r.config_version \in Nat
  BY SdkAssumption
<1>2. p.config_version \in V /\ IsNewest(p.config_version)
  OBVIOUS
<1>3. \A v \in V : IsNewest(v) => v = p.config_version
  BY <1>1
<1>4. NewestIn(S) = CHOOSE v \in V : IsNewest(v)
  BY DEF NewestIn
<1> QED
  <2> HIDE DEF V, IsNewest
  <2> QED BY <1>2, <1>3, <1>4

LEMMA NewestBounds ==
    ASSUME NEW S \in SUBSET Payloads, IsFiniteSet(S)
    PROVE  /\ NewestIn(S) \in Nat
           /\ \A q \in S : q.config_version <= NewestIn(S)
<1>1. CASE S = {}
  BY <1>1 DEF NewestIn
<1>2. CASE S # {}
  <2>1. PICK p \in S : \A q \in S : q.config_version <= p.config_version
    BY <1>2, NewestExists
  <2> QED
    BY <2>1, NewestIs, SdkAssumption
<1> QED
  BY <1>1, <1>2

LEMMA ContentsFacts ==
    ASSUME NEW S \in Contents
    PROVE  /\ IsFiniteSet(S)
           /\ S \in SUBSET Payloads
           /\ NewestIn(S) \in Nat
           /\ \A q \in S : q.config_version <= NewestIn(S)
           /\ \A R \in SUBSET S : R \in Contents
           /\ \A p \in Versions : S \cup {p} \in Contents
<1>1. IsFiniteSet(S) /\ S \in SUBSET Payloads
  BY DEF Contents, Versions
<1>2. \A R \in SUBSET S : R \in Contents
  BY <1>1, FS_Subset DEF Contents
<1>3. \A p \in Versions : S \cup {p} \in Contents
  BY <1>1, FS_AddElement DEF Contents
<1> QED
  BY <1>1, <1>2, <1>3, NewestBounds

LEMMA EmptyContents == {} \in Contents
  BY FS_EmptySet DEF Contents

-----------------------------------------------------------------------------
(* Type correctness.                                                       *)

LEMMA InitTyped == SdkInit => SdkTypeOK
<1> SUFFICES ASSUME SdkInit PROVE SdkTypeOK
  OBVIOUS
<1>1. bucket \subseteq Snapshot
  <2>1. [name |-> InitialName, data |-> {}] \in Snapshot
    BY EmptyContents, SdkAssumption DEF Snapshot
  <2>2. \A s \in bucket : s = [name |-> InitialName, data |-> {}]
    BY DEF SdkInit
  <2> QED
    BY <2>1, <2>2
<1> QED
  BY <1>1, EmptyContents, SdkAssumption
     DEF SdkInit, SdkTypeOK, File, NoFile, Phases

LEMMA WorldTyped ==
    ASSUME SdkTypeOK, Deliver \/ PutSnapshot \/ Expire
    PROVE  SdkTypeOK'
<1>1. CASE Deliver
  BY <1>1 DEF Deliver, SdkTypeOK, clientVars, cacheVars, readerVars
<1>2. CASE PutSnapshot
  <2>1. PICK data \in Contents, name \in Nat :
            bucket' = {s \in bucket : s.name # name} \cup {[name |-> name, data |-> data]}
    BY <1>2, ContentsFacts, SdkAssumption DEF PutSnapshot
  <2>2. bucket' \subseteq Snapshot
    BY <2>1 DEF SdkTypeOK, Snapshot
  <2> QED
    BY <1>2, <2>2 DEF PutSnapshot, SdkTypeOK, clientVars, cacheVars, readerVars
<1>3. CASE Expire
  <2>1. file' \in File
    BY <1>3, EmptyContents DEF Expire, File
  <2> QED
    BY <1>3, <2>1 DEF Expire, SdkTypeOK, clientVars, cacheVars, readerVars
<1> QED
  BY <1>1, <1>2, <1>3

\* What is kept of a snapshot.
LEMMA InScopeContents ==
    ASSUME NEW data \in Contents
    PROVE  InScope(data) \in Contents /\ SnapshotVersion(data) \in Nat
<1>1. InScope(data) \in Contents
  BY ContentsFacts DEF InScope
<1> QED
  BY <1>1, ContentsFacts DEF SnapshotVersion

LEMMA StartTyped ==
    ASSUME SdkTypeOK,
           NewClient \/ FetchSnapshot \/ LoadLocal \/ LoadFails \/ Populate \/ StartConsumer
    PROVE  SdkTypeOK'
<1>1. CASE NewClient \/ LoadFails
  BY <1>1 DEF NewClient, LoadFails, SdkTypeOK, Phases, worldVars, cacheVars, readerVars
<1>2. CASE FetchSnapshot
  <2>1. PICK latest \in bucket :
            /\ loaded' = [state |-> "whole", data |-> latest.data]
            /\ file' \in {loaded', file, [state |-> "torn", data |-> {}]}
    BY <1>2 DEF FetchSnapshot
  <2>2. latest.data \in Contents
    BY DEF SdkTypeOK, Snapshot
  <2>3. loaded' \in File
    BY <2>1, <2>2 DEF File
  <2>4. [state |-> "torn", data |-> {}] \in File
    BY EmptyContents DEF File
  <2>5. file' \in File
    BY <2>1, <2>3, <2>4 DEF SdkTypeOK
  <2>6. phase = "starting" /\ phase' = "fetched"
    BY <1>2 DEF FetchSnapshot
  <2>7. UNCHANGED <<worldVars, offset, cacheVars, readerVars, faults>>
    BY <1>2 DEF FetchSnapshot
  <2> QED
    BY <2>3, <2>5, <2>6, <2>7 DEF SdkTypeOK, Phases, worldVars, cacheVars, readerVars
<1>3. CASE LoadLocal
  BY <1>3 DEF LoadLocal, SdkTypeOK, Phases, worldVars, cacheVars, readerVars
<1>4. CASE Populate
  <2>1. loaded.data \in Contents
    BY DEF SdkTypeOK, File
  <2>2. /\ phase' \in {"ready", "failed"}
        /\ cache' \in Contents /\ configVersion' \in Nat
        /\ base' \in Nat /\ loaded' \in File
    BY <1>4, <2>1, InScopeContents, EmptyContents DEF Populate, SdkTypeOK, File, NoFile
  <2> QED
    BY <1>4, <2>2 DEF Populate, SdkTypeOK, Phases, worldVars, readerVars
<1>5. CASE StartConsumer
  BY <1>5 DEF StartConsumer, FirstOffset, SdkTypeOK, Phases, worldVars, cacheVars
<1> QED
  BY <1>1, <1>2, <1>3, <1>4, <1>5

LEMMA ReaderTyped ==
    ASSUME SdkTypeOK, ReadMessage \/ ReadFails \/ Rebalance
    PROVE  SdkTypeOK'
<1>1. CASE ReadMessage
  <2>1. /\ position + 1 \in 1..Len(topic)
        /\ topic[position + 1] \in Payloads
        /\ phase = "running" /\ start <= position + 1
    BY <1>1 DEF ReadMessage, CanRead, SdkTypeOK
  <2> QED
    BY <1>1, <2>1 DEF ReadMessage, SdkTypeOK, worldVars, cacheVars
<1>2. CASE ReadFails
  <2>1. /\ position + 1 \in 1..Len(topic)
        /\ phase = "running" /\ start <= position + 1
        /\ faults + 1 \in 0..MaxFaults
    BY <1>2, SdkAssumption DEF ReadFails, CanRead, SdkTypeOK
  <2> QED
    BY <1>2, <2>1 DEF ReadFails, SdkTypeOK, worldVars, cacheVars
<1>3. CASE Rebalance
  BY <1>3 DEF Rebalance, SdkTypeOK, worldVars, cacheVars
<1> QED
  BY <1>1, <1>2, <1>3

\* What an applied delta leaves in the cache.
LEMMA CacheWithFacts ==
    ASSUME SdkTypeOK, NEW exp \in Payloads, Newer(exp)
    PROVE  exp \in Versions /\ CacheWith(exp) \in Contents
<1>1. exp \in Versions
  BY SdkAssumption DEF Newer, SdkTypeOK, Versions
<1>2. {p \in cache : ~SameSlot(p, exp)} \in Contents
  BY ContentsFacts DEF SdkTypeOK
<1> QED
  BY <1>1, <1>2, ContentsFacts DEF CacheWith

LEMMA ApplyTyped == ASSUME SdkTypeOK, ApplyDelta PROVE SdkTypeOK'
<1>1. inHand[1] \in Payloads
  BY DEF ApplyDelta, SdkTypeOK
<1>2. cache' \in Contents /\ configVersion' \in Nat
  BY <1>1, CacheWithFacts, SdkAssumption DEF ApplyDelta, SdkTypeOK
<1> QED
  BY <1>2 DEF ApplyDelta, SdkTypeOK, worldVars

LEMMA EndTyped == ASSUME SdkTypeOK, Close \/ Exit PROVE SdkTypeOK'
<1>1. CASE Close
  BY <1>1 DEF Close, SdkTypeOK, Phases, worldVars, cacheVars, readerVars
<1>2. CASE Exit
  <2>1. loaded' \in File
    BY <1>2, EmptyContents DEF Exit, NoFile, File
  <2> QED
    BY <1>2, <2>1, EmptyContents DEF Exit, SdkTypeOK, Phases, worldVars
<1> QED
  BY <1>1, <1>2

LEMMA StepTyped == ASSUME SdkTypeOK, [SdkNext]_vars PROVE SdkTypeOK'
<1>1. CASE UNCHANGED vars
  BY <1>1 DEF vars, SdkTypeOK
<1>2. CASE SdkNext
  BY <1>2, WorldTyped, StartTyped, ReaderTyped, ApplyTyped, EndTyped DEF SdkNext, ClientNext
<1> QED
  BY <1>1, <1>2

\* Type correctness of the client; in particular a reader is never behind what its
\* group has committed.
THEOREM SdkTyping == SdkSpec => []SdkTypeOK
<1>1. SdkTypeOK /\ [SdkNext]_vars => SdkTypeOK'
  BY StepTyped
<1> QED
  BY InitTyped, <1>1, PTL DEF SdkSpec

-----------------------------------------------------------------------------
(* The inductive invariant.                                                *)

\* A snapshot has at most one version of an experiment, wherever it is.
OneVersionEach(data) == \A p, q \in data : p.id = q.id => p = q

SnapshotsOK ==
    /\ \A s \in bucket : OneVersionEach(s.data)
    /\ OneVersionEach(file.data)
    /\ OneVersionEach(loaded.data)

\* The message in hand is the last one the group has committed.
HandIsLast ==
    inHand # <<>> =>
        /\ phase \in {"running", "closed"}
        /\ start < position /\ position = offset
        /\ inHand = <<topic[position]>>
        /\ position \notin missed

\* The i-th message has been through applyDelta.
Through(i) ==
    /\ i \in (start + 1)..offset
    /\ i \notin missed
    /\ ~(i = position /\ inHand # <<>>)

\* The version of the cache is that of the snapshot or of a message that went
\* through applyDelta, none of which the reader will pass over any more.
VersionHasOrigin ==
    /\ phase = "ready" => configVersion = base
    /\ phase \in {"running", "closed"} =>
           /\ offset <= position
           /\ \/ configVersion = base
              \/ \E j \in 1..Len(topic) :
                     /\ Through(j)
                     /\ Relevant(topic[j].layer_id)
                     /\ topic[j].config_version = configVersion

CacheInv == SdkTypeOK /\ SnapshotsOK /\ OneCopyPerLayer /\ VersionIsOfCache

SdkInv == CacheInv /\ HandIsLast /\ VersionHasOrigin /\ DeltaKeptUnlessOvertaken

-----------------------------------------------------------------------------
(* The cache.                                                              *)

\* Only these steps change the cache, or make one of a snapshot.
LEMMA OtherSteps ==
    ASSUME [SdkNext]_vars, ~Populate, ~ApplyDelta, ~Exit
    PROVE  /\ UNCHANGED <<cache, configVersion, base>>
           /\ HasCache' => HasCache
<1>1. CASE UNCHANGED vars
  BY <1>1 DEF vars, HasCache
<1>2. CASE Deliver \/ PutSnapshot \/ Expire
  BY <1>2 DEF Deliver, PutSnapshot, Expire, clientVars, cacheVars, HasCache
<1>3. CASE NewClient \/ FetchSnapshot \/ LoadLocal \/ LoadFails \/ StartConsumer
  BY <1>3 DEF NewClient, FetchSnapshot, LoadLocal, LoadFails, StartConsumer, cacheVars, HasCache
<1>4. CASE ReadMessage \/ ReadFails \/ Rebalance \/ Close
  BY <1>4 DEF ReadMessage, ReadFails, Rebalance, Close, cacheVars, HasCache
<1> QED
  BY <1>1, <1>2, <1>3, <1>4 DEF SdkNext, ClientNext

LEMMA SnapshotsStep ==
    ASSUME SdkTypeOK, SnapshotsOK, [SdkNext]_vars
    PROVE  SnapshotsOK'
<1>1. CASE UNCHANGED <<bucket, file, loaded>>
  BY <1>1 DEF SnapshotsOK
<1>2. CASE PutSnapshot
  <2>1. PICK data \in Contents :
            /\ OneVersionEach(data)
            /\ \E name : bucket' = {s \in bucket : s.name # name}
                                        \cup {[name |-> name, data |-> data]}
    BY <1>2 DEF PutSnapshot, OneVersionEach
  <2>2. \A s \in bucket' : OneVersionEach(s.data)
    BY <2>1 DEF SnapshotsOK
  <2> QED
    BY <1>2, <2>2 DEF PutSnapshot, SnapshotsOK, clientVars
<1>3. CASE Expire
  BY <1>3 DEF Expire, SnapshotsOK, OneVersionEach, clientVars
<1>4. CASE FetchSnapshot
  <2>1. PICK latest \in bucket :
            /\ loaded' = [state |-> "whole", data |-> latest.data]
            /\ file' \in {loaded', file, [state |-> "torn", data |-> {}]}
    BY <1>4 DEF FetchSnapshot
  <2>2. OneVersionEach(loaded'.data)
    BY <2>1 DEF SnapshotsOK
  <2>3. file'.data \in {loaded'.data, file.data, {}}
    BY <2>1
  <2>4. OneVersionEach({})
    BY DEF OneVersionEach
  <2>5. OneVersionEach(file'.data)
    BY <2>2, <2>3, <2>4 DEF SnapshotsOK
  <2> QED
    BY <1>4, <2>2, <2>5 DEF FetchSnapshot, SnapshotsOK, worldVars
<1>5. CASE LoadLocal
  BY <1>5 DEF LoadLocal, SnapshotsOK, worldVars
<1>6. CASE Populate \/ Exit
  BY <1>6 DEF Populate, Exit, NoFile, SnapshotsOK, OneVersionEach, worldVars
<1>7. CASE Deliver \/ NewClient \/ LoadFails \/ StartConsumer
  BY <1>1, <1>7 DEF Deliver, NewClient, LoadFails, StartConsumer, clientVars, worldVars
<1>8. CASE ReadMessage \/ ReadFails \/ Rebalance \/ ApplyDelta \/ Close
  BY <1>1, <1>8 DEF ReadMessage, ReadFails, Rebalance, ApplyDelta, Close, worldVars
<1>9. CASE UNCHANGED vars
  BY <1>1, <1>9 DEF vars
<1> QED
  BY <1>2, <1>3, <1>4, <1>5, <1>6, <1>7, <1>8, <1>9 DEF SdkNext, ClientNext

LEMMA PopulateCache ==
    ASSUME CacheInv, Populate
    PROVE  (OneCopyPerLayer /\ VersionIsOfCache)'
<1>1. CASE loaded.state = "whole"
  <2>1. cache' = InScope(loaded.data) /\ configVersion' = NewestIn(cache')
    BY <1>1 DEF Populate, SnapshotVersion
  <2>2. \A p \in cache' : p \in loaded.data /\ Relevant(p.layer_id)
    BY <2>1 DEF InScope
  <2>3. \A p, q \in cache' : p.id = q.id => p = q
    BY <2>2 DEF CacheInv, SnapshotsOK, OneVersionEach
  <2> QED
    BY <2>1, <2>2, <2>3 DEF OneCopyPerLayer, VersionIsOfCache, SameSlot
<1>2. CASE loaded.state # "whole"
  BY <1>2 DEF Populate, CacheInv, OneCopyPerLayer, VersionIsOfCache, HasCache
<1> QED
  BY <1>1, <1>2

\* The delta that is applied is newer than everything in the cache.
LEMMA AppliedIsNewest ==
    ASSUME CacheInv, ApplyDelta, NEW exp, exp = inHand[1], Newer(exp)
    PROVE  /\ exp \in Versions
           /\ \A p \in cache : p.config_version < exp.config_version
           /\ NewestIn(CacheWith(exp)) = exp.config_version
<1>1. exp \in Payloads
  BY DEF ApplyDelta, CacheInv, SdkTypeOK
<1>2. exp \in Versions /\ CacheWith(exp) \in Contents
  BY <1>1, CacheWithFacts DEF CacheInv
<1>3. configVersion = NewestIn(cache) /\ cache \in Contents
  BY DEF ApplyDelta, CacheInv, VersionIsOfCache, HasCache, SdkTypeOK
<1>4. \A p \in cache \cup {exp} : p.config_version \in Nat
  BY <1>2, <1>3, SdkAssumption DEF Contents, Versions
<1>5. \A p \in cache : p.config_version < exp.config_version
  <2>1. \A p \in cache : p.config_version <= configVersion
    BY <1>3, ContentsFacts
  <2> QED
    BY <1>3, <1>4, <2>1, ContentsFacts DEF Newer
<1>6. \A p \in CacheWith(exp) : p.config_version <= exp.config_version
  BY <1>4, <1>5 DEF CacheWith
<1>7. exp \in CacheWith(exp) /\ CacheWith(exp) \in SUBSET Payloads
  BY <1>2, ContentsFacts DEF CacheWith
<1> QED
  BY <1>2, <1>5, <1>6, <1>7, NewestIs

LEMMA ApplyCache ==
    ASSUME CacheInv, ApplyDelta
    PROVE  (OneCopyPerLayer /\ VersionIsOfCache)'
<1> DEFINE exp == inHand[1]
<1>1. CASE Newer(exp) /\ Relevant(exp.layer_id)
  <2>1. cache' = CacheWith(exp) /\ configVersion' = exp.config_version
    BY <1>1 DEF ApplyDelta
  <2>2. \A p, q \in cache' : SameSlot(p, q) => p = q
    BY <2>1 DEF CacheWith, SameSlot, CacheInv, OneCopyPerLayer
  <2>3. \A p \in cache' : Relevant(p.layer_id)
    BY <1>1, <2>1 DEF CacheWith, CacheInv, OneCopyPerLayer
  <2>4. configVersion' = NewestIn(cache')
    BY <1>1, <2>1, AppliedIsNewest
  <2> QED
    BY <2>2, <2>3, <2>4 DEF OneCopyPerLayer, VersionIsOfCache
<1>2. CASE ~(Newer(exp) /\ Relevant(exp.layer_id))
  BY <1>2 DEF ApplyDelta, CacheInv, OneCopyPerLayer, VersionIsOfCache, HasCache
<1> QED
  BY <1>1, <1>2

LEMMA CacheStep == ASSUME CacheInv, [SdkNext]_vars PROVE CacheInv'
<1>1. SdkTypeOK' /\ SnapshotsOK'
  BY StepTyped, SnapshotsStep DEF CacheInv
<1>2. (OneCopyPerLayer /\ VersionIsOfCache)'
  <2>1. CASE Populate
    BY <2>1, PopulateCache
  <2>2. CASE ApplyDelta
    BY <2>2, ApplyCache
  <2>3. CASE Exit
    BY <2>3 DEF Exit, OneCopyPerLayer, VersionIsOfCache, HasCache
  <2>4. CASE ~Populate /\ ~ApplyDelta /\ ~Exit
    BY <2>4, OtherSteps DEF CacheInv, OneCopyPerLayer, VersionIsOfCache
  <2> QED
    BY <2>1, <2>2, <2>3, <2>4
<1> QED
  BY <1>1, <1>2 DEF CacheInv

LEMMA CacheInit == SdkInit => CacheInv
<1> SUFFICES ASSUME SdkInit PROVE CacheInv
  OBVIOUS
<1>1. SnapshotsOK
  BY DEF SdkInit, NoFile, SnapshotsOK, OneVersionEach
<1>2. OneCopyPerLayer /\ VersionIsOfCache
  BY DEF SdkInit, OneCopyPerLayer, VersionIsOfCache, HasCache
<1> QED
  BY <1>1, <1>2, InitTyped DEF CacheInv

\* The inductive invariant of the cache.
LEMMA CacheInvariant == SdkSpec => []CacheInv
  BY CacheInit, CacheStep, PTL DEF SdkSpec

\* applyDelta never leaves two copies of an experiment in a layer, nor anything
\* of a layer the client did not ask for.
THEOREM OneCopy == SdkSpec => []OneCopyPerLayer
  BY CacheInvariant, PTL DEF CacheInv

\* cache.configVersion is the newest version in the cache, through snapshots,
\* scoping and deltas.
THEOREM VersionOfCache == SdkSpec => []VersionIsOfCache
  BY CacheInvariant, PTL DEF CacheInv

\* Nothing in the cache gets older or disappears while there is a cache.
NotBack ==
    (HasCache /\ HasCache') =>
        \A p \in cache : \E q \in cache' :
            SameSlot(p, q) /\ p.config_version <= q.config_version

LEMMA StepNotBack == ASSUME CacheInv, [SdkNext]_vars PROVE NotBack
<1>0. \A p \in cache : p.config_version \in Nat
  BY SdkAssumption DEF CacheInv, SdkTypeOK, Contents, Versions
<1>1. CASE cache' = cache
  BY <1>0, <1>1 DEF NotBack, SameSlot
<1>2. CASE Populate \/ Exit
  BY <1>2 DEF Populate, Exit, NotBack, HasCache
<1>3. CASE ApplyDelta
  <2> DEFINE exp == inHand[1]
  <2>1. CASE Newer(exp) /\ Relevant(exp.layer_id)
    <3>1. cache' = CacheWith(exp)
      BY <1>3, <2>1 DEF ApplyDelta
    <3>2. exp \in Versions /\ \A p \in cache : p.config_version < exp.config_version
      BY <1>3, <2>1, AppliedIsNewest
    <3>3. exp.config_version \in Nat
      BY <3>2, SdkAssumption DEF Versions
    <3> QED
      BY <1>0, <3>1, <3>2, <3>3 DEF NotBack, CacheWith, SameSlot
  <2> QED
    BY <1>1, <1>3, <2>1 DEF ApplyDelta
<1> QED
  BY <1>1, <1>2, <1>3, OtherSteps

\* No redelivery, rebalance or message out of order takes an experiment of a
\* living client back.
THEOREM NeverGoesBack == SdkSpec => CacheNeverGoesBack
<1>1. CacheInv /\ [SdkNext]_vars => [NotBack]_vars
  BY StepNotBack
<1>2. SdkSpec => [][NotBack]_vars
  BY CacheInvariant, <1>1, PTL DEF SdkSpec
<1> QED
  BY <1>2 DEF CacheNeverGoesBack, NotBack

-----------------------------------------------------------------------------
(* The deltas.                                                             *)

\* Why the i-th message need not be looked for.
Accounted(i) ==
    \/ Kept(topic[i])
    \/ i \in missed
    \/ i = position /\ inHand # <<>>
    \/ ~Relevant(topic[i].layer_id)
    \/ topic[i].config_version <= base
    \/ \E j \in (start + 1)..(i - 1) :
           /\ j \notin missed
           /\ Relevant(topic[j].layer_id)
           /\ topic[i].config_version <= topic[j].config_version

DeltaInv == HandIsLast /\ VersionHasOrigin /\ DeltaKeptUnlessOvertaken

LEMMA AllAccounted ==
    DeltaKeptUnlessOvertaken <=>
        (phase \in {"running", "closed"} => \A i \in (start + 1)..position : Accounted(i))
  BY DEF DeltaKeptUnlessOvertaken, Accounted

\* Steps after which there is no consumer, or a new one.
LEMMA NoConsumerStep ==
    ASSUME SdkInv,
           NewClient \/ FetchSnapshot \/ LoadLocal \/ LoadFails \/ Populate \/ StartConsumer \/ Exit
    PROVE  DeltaInv'
<1> USE DEF SdkInv, CacheInv, DeltaInv
<1>1. CASE NewClient \/ FetchSnapshot \/ LoadLocal \/ LoadFails
  <2>1. /\ phase \in {"off", "starting"} /\ phase' \in {"starting", "fetched", "failed"}
        /\ inHand' = inHand
    BY <1>1 DEF NewClient, FetchSnapshot, LoadLocal, LoadFails, readerVars
  <2> QED
    BY <2>1 DEF HandIsLast, VersionHasOrigin, DeltaKeptUnlessOvertaken
<1>2. CASE Populate
  BY <1>2 DEF Populate, readerVars, HandIsLast, VersionHasOrigin, DeltaKeptUnlessOvertaken
<1>3. CASE StartConsumer
  <2>1. /\ phase = "ready" /\ phase' = "running"
        /\ position' = offset /\ start' = offset /\ offset' = offset
        /\ UNCHANGED <<configVersion, base, inHand>>
    BY <1>3 DEF StartConsumer, FirstOffset, cacheVars
  <2>2. offset \in Nat /\ (start' + 1)..position' = {}
    BY <2>1 DEF SdkTypeOK
  <2> QED
    BY <2>1, <2>2 DEF HandIsLast, VersionHasOrigin, DeltaKeptUnlessOvertaken
<1>4. CASE Exit
  BY <1>4 DEF Exit, HandIsLast, VersionHasOrigin, DeltaKeptUnlessOvertaken
<1> QED
  BY <1>1, <1>2, <1>3, <1>4

\* The topic only grows.
LEMMA WorldStep ==
    ASSUME SdkInv, Deliver \/ PutSnapshot \/ Expire \/ UNCHANGED vars
    PROVE  DeltaInv'
<1> USE DEF SdkInv, CacheInv, DeltaInv
<1>1. UNCHANGED <<offset, phase, cache, configVersion, base, position, inHand, start, missed>>
  BY DEF Deliver, PutSnapshot, Expire, vars, clientVars, cacheVars, readerVars
<1>2. /\ Len(topic) \in Nat /\ Len(topic') \in Nat /\ Len(topic) <= Len(topic')
      /\ \A i \in 1..Len(topic) : topic'[i] = topic[i]
  BY DEF SdkTypeOK, Deliver, PutSnapshot, Expire, vars
<1>3. /\ position \in 0..Len(topic) /\ start \in 0..Len(topic) /\ offset \in 0..Len(topic)
  BY DEF SdkTypeOK
<1>4. HandIsLast'
  BY <1>1, <1>2, <1>3 DEF HandIsLast
<1>5. VersionHasOrigin'
  BY <1>1, <1>2, <1>3 DEF VersionHasOrigin, Through
<1>6. ASSUME phase' \in {"running", "closed"}, NEW i \in ((start + 1)..position)'
      PROVE  Accounted(i)'
  <2>1. Accounted(i) /\ i \in 1..Len(topic)
    BY <1>1, <1>3, <1>6, AllAccounted
  <2>2. topic'[i] = topic[i] /\ \A j \in (start + 1)..(i - 1) : topic'[j] = topic[j]
    BY <1>2, <1>3, <2>1
  <2> QED
    BY <1>1, <2>1, <2>2 DEF Accounted, Kept
<1> QED
  BY <1>4, <1>5, <1>6 DEF DeltaKeptUnlessOvertaken, Accounted

\* The reader moves on by one message, which is in hand or passed over.
LEMMA ReadStep ==
    ASSUME SdkInv, ReadMessage \/ ReadFails
    PROVE  DeltaInv'
<1> USE DEF SdkInv, CacheInv, DeltaInv
<1>1. /\ phase = "running" /\ phase' = "running" /\ inHand = <<>>
      /\ position' = position + 1 /\ offset' \in {offset, position + 1}
      /\ UNCHANGED <<topic, cache, configVersion, base, start>>
  BY DEF ReadMessage, ReadFails, CanRead, worldVars, cacheVars
<1>2. /\ position \in Nat /\ start \in Nat /\ offset \in Nat
      /\ start <= offset /\ offset <= position
  BY <1>1 DEF SdkTypeOK
<1>3. \A j \in Nat : j # position + 1 => (j \in missed' <=> j \in missed)
  BY DEF ReadMessage, ReadFails
<1>4. \/ inHand' = <<topic[position + 1]>> /\ offset' = position + 1 /\ position + 1 \notin missed'
      \/ inHand' = <<>> /\ position + 1 \in missed'
  BY <1>1 DEF ReadMessage, ReadFails
<1>5. HandIsLast'
  BY <1>1, <1>2, <1>4 DEF HandIsLast
<1>6. VersionHasOrigin'
  <2>1. \A j \in 1..Len(topic) : Through(j) => Through(j)'
    BY <1>1, <1>2, <1>3 DEF Through
  <2> QED
    BY <1>1, <1>2, <2>1 DEF VersionHasOrigin
<1>7. ASSUME NEW i \in ((start + 1)..position)'
      PROVE  Accounted(i)'
  <2>1. CASE i = position + 1
    BY <1>1, <1>4, <2>1 DEF Accounted
  <2>2. CASE i # position + 1
    <3>1. i \in (start + 1)..position /\ Accounted(i)
      BY <1>1, <1>2, <1>7, <2>2, AllAccounted
    <3>2. \A j \in (start + 1)..(i - 1) : j \notin missed => j \notin missed'
      BY <1>2, <1>3, <3>1
    <3>3. i \in missed => i \in missed'
      BY <1>2, <1>3, <3>1
    <3> QED
      BY <1>1, <3>1, <3>2, <3>3 DEF Accounted, Kept
  <2> QED
    BY <2>1, <2>2
<1> QED
  BY <1>5, <1>6, <1>7 DEF DeltaKeptUnlessOvertaken, Accounted

\* What the reader goes back over it has passed over before.
LEMMA RebalanceStep ==
    ASSUME SdkInv, Rebalance
    PROVE  DeltaInv'
<1> USE DEF SdkInv, CacheInv, DeltaInv
<1>1. /\ phase = "running" /\ phase' = "running" /\ position' = offset
      /\ UNCHANGED <<topic, offset, cache, configVersion, base, inHand, start, missed>>
  BY DEF Rebalance, worldVars, cacheVars
<1>2. /\ position \in Nat /\ start \in Nat /\ offset \in Nat
      /\ start <= offset /\ offset <= position
  BY <1>1 DEF SdkTypeOK
<1>3. inHand # <<>> => position' = position
  BY <1>1 DEF HandIsLast
<1>4. HandIsLast'
  BY <1>1, <1>3 DEF HandIsLast
<1>5. VersionHasOrigin'
  BY <1>1, <1>2, <1>3 DEF VersionHasOrigin, Through
<1>6. ASSUME NEW i \in ((start + 1)..position)'
      PROVE  Accounted(i)'
  <2>1. Accounted(i)
    BY <1>1, <1>2, <1>6, AllAccounted
  <2> QED
    BY <1>1, <1>3, <2>1 DEF Accounted, Kept
<1> QED
  BY <1>4, <1>5, <1>6 DEF DeltaKeptUnlessOvertaken, Accounted

\* The message in hand is put into the cache, is not relevant, or is overtaken by
\* what the version of the cache comes from.
LEMMA ApplyStep ==
    ASSUME SdkInv, ApplyDelta
    PROVE  DeltaInv'
<1> USE DEF SdkInv, CacheInv, DeltaInv
<1> DEFINE exp == inHand[1]
<1>1. /\ phase \in {"running", "closed"} /\ phase' = phase /\ inHand # <<>> /\ inHand' = <<>>
      /\ UNCHANGED <<topic, offset, base, position, start, missed>>
  BY DEF ApplyDelta, worldVars
<1>2. /\ position \in Nat /\ start \in Nat /\ offset \in Nat /\ position <= Len(topic)
      /\ start < position /\ position = offset /\ position \notin missed
      /\ exp = topic[position] /\ exp \in Payloads
  BY <1>1 DEF SdkTypeOK, HandIsLast
<1>3. HandIsLast'
  BY <1>1 DEF HandIsLast
<1>4. \A j \in 1..Len(topic) : Through(j) => Through(j)' /\ j < position
  BY <1>1, <1>2 DEF Through
<1>5. Through(position)'
  BY <1>1, <1>2 DEF Through
<1>6. CASE Newer(exp) /\ Relevant(exp.layer_id)
  <2>1. cache' = CacheWith(exp) /\ configVersion' = exp.config_version
    BY <1>6 DEF ApplyDelta
  <2>2. VersionHasOrigin'
    BY <1>1, <1>2, <1>5, <1>6, <2>1 DEF VersionHasOrigin
  <2>3. exp \in Versions /\ \A p \in cache : p.config_version < exp.config_version
    BY <1>6, AppliedIsNewest
  <2>4. \A p : Kept(p) /\ p.config_version \in Nat => Kept(p)'
    <3>1. SUFFICES ASSUME NEW p, NEW q \in cache, p.config_version \in Nat,
                          SameSlot(p, q), p.config_version <= q.config_version
                   PROVE  \E r \in cache' : SameSlot(p, r) /\ p.config_version <= r.config_version
      BY DEF Kept
    <3>2. CASE SameSlot(q, exp)
      <4>1. q.config_version \in Nat /\ exp.config_version \in Nat /\ q.config_version < exp.config_version
        BY <2>3, SdkAssumption DEF SdkTypeOK, Contents, Versions
      <4>2. SameSlot(p, exp) /\ p.config_version <= exp.config_version
        BY <3>1, <3>2, <4>1 DEF SameSlot
      <4> QED
        BY <2>1, <4>2 DEF CacheWith
    <3>3. CASE ~SameSlot(q, exp)
      BY <2>1, <3>1, <3>3 DEF CacheWith
    <3> QED
      BY <3>2, <3>3
  <2>5. ASSUME NEW i \in ((start + 1)..position)'
        PROVE  Accounted(i)'
    <3>1. Accounted(i) /\ topic[i] \in Payloads
      BY <1>1, <1>2, <2>5, AllAccounted DEF SdkTypeOK
    <3>2. CASE i = position
      <4>1. Kept(topic[i])'
        BY <1>1, <1>2, <2>1, <2>3, <3>2, SdkAssumption DEF Kept, CacheWith, SameSlot
      <4> QED
        BY <4>1 DEF Accounted
    <3>3. CASE i # position
      <4>1. Kept(topic[i]) => Kept(topic[i])'
        BY <1>1, <2>4, <3>1, SdkAssumption DEF Kept
      <4> QED
        BY <1>1, <3>1, <3>3, <4>1 DEF Accounted
    <3> QED
      BY <3>2, <3>3
  <2> QED
    BY <1>3, <2>2, <2>5 DEF DeltaKeptUnlessOvertaken, Accounted
<1>7. CASE ~(Newer(exp) /\ Relevant(exp.layer_id))
  <2>1. UNCHANGED <<cache, configVersion>>
    BY <1>7 DEF ApplyDelta
  <2>2. VersionHasOrigin'
    BY <1>1, <1>2, <1>4, <2>1 DEF VersionHasOrigin
  <2>3. ASSUME NEW i \in ((start + 1)..position)'
        PROVE  Accounted(i)'
    <3>1. Accounted(i)
      BY <1>1, <1>2, <2>3, AllAccounted
    <3>2. CASE i # position
      BY <1>1, <2>1, <3>1, <3>2 DEF Accounted, Kept
    <3>3. CASE i = position /\ Relevant(exp.layer_id)
      <4>1. exp.config_version <= configVersion
        BY <1>2, <1>7, <3>3, SdkAssumption DEF Newer, SdkTypeOK
      <4>2. CASE configVersion = base
        BY <1>1, <1>2, <3>3, <4>1, <4>2 DEF Accounted
      <4>3. CASE configVersion # base
        <5>1. PICK j \in 1..Len(topic) :
                  /\ Through(j)
                  /\ Relevant(topic[j].layer_id)
                  /\ topic[j].config_version = configVersion
          BY <1>1, <4>3 DEF VersionHasOrigin
        <5>2. j \in (start + 1)..(i - 1) /\ j \notin missed
          BY <1>2, <1>4, <3>3, <5>1 DEF Through
        <5> QED
          BY <1>1, <1>2, <3>3, <4>1, <5>1, <5>2 DEF Accounted
      <4> QED
        BY <4>2, <4>3
    <3>4. CASE i = position /\ ~Relevant(exp.layer_id)
      BY <1>1, <1>2, <3>4 DEF Accounted
    <3> QED
      BY <3>2, <3>3, <3>4
  <2> QED
    BY <1>3, <2>2, <2>3 DEF DeltaKeptUnlessOvertaken, Accounted
<1> QED
  BY <1>6, <1>7

LEMMA CloseStep == ASSUME SdkInv, Close PROVE DeltaInv'
<1> USE DEF SdkInv, CacheInv, DeltaInv
<1>1. /\ phase = "running" /\ phase' = "closed"
      /\ UNCHANGED <<topic, offset, cache, configVersion, base, position, inHand, start, missed>>
  BY DEF Close, worldVars, cacheVars, readerVars
<1> QED
  BY <1>1 DEF HandIsLast, VersionHasOrigin, Through, DeltaKeptUnlessOvertaken, Kept

LEMMA DeltaInit == SdkInit => DeltaInv
  BY DEF SdkInit, DeltaInv, HandIsLast, VersionHasOrigin, DeltaKeptUnlessOvertaken

\* The inductive invariant of the whole client.
THEOREM SdkInvariant == SdkSpec => []SdkInv
<1>1. SdkInit => SdkInv
  BY CacheInit, DeltaInit DEF SdkInv, DeltaInv
<1>2. SdkInv /\ [SdkNext]_vars => SdkInv'
  <2>1. SUFFICES ASSUME SdkInv, [SdkNext]_vars PROVE SdkInv'
    OBVIOUS
  <2>2. DeltaInv'
    BY <2>1, NoConsumerStep, WorldStep, ReadStep, RebalanceStep, ApplyStep, CloseStep
       DEF SdkNext, ClientNext
  <2> QED
    BY <2>1, <2>2, CacheStep DEF SdkInv, DeltaInv
<1> QED
  BY <1>1, <1>2, PTL DEF SdkSpec

\* applyDelta drops a delta only for one of the named reasons.
THEOREM DeltasKept == SdkSpec => []DeltaKeptUnlessOvertaken
  BY SdkInvariant, PTL DEF SdkInv
=============================================================================
