------------------------- MODULE AssignmentsProofs -------------------------
(***************************************************************************)
(* Invariants of Assignments, proved for every set of experiments, either  *)
(* reader, and any number of calls and faults.                             *)
(***************************************************************************)
EXTENDS Assignments, FiniteSetTheorems, TLAPS

-----------------------------------------------------------------------------
(* Type correctness.                                                       *)

Calls(S) == {e.call : e \in S}

\* Calls are counted, so that the decisions of a new one are new.
CallsInOrder == \E n \in Nat : Calls(decided) = 1..n

\* A reader that is down has nothing in hand.
DownIsEmpty == ~up => inHand = 0

TypeInv == AssignmentsTypeOK /\ CallsInOrder /\ DownIsEmpty

LEMMA InitTyped == Init => TypeInv
<1> SUFFICES ASSUME Init PROVE TypeInv
  OBVIOUS
<1>1. AssignmentsTypeOK
  BY AssignmentsAssumption DEF Init, AssignmentsTypeOK
<1>2. Calls(decided) = 1..0
  BY DEF Init, Calls
<1> QED
  BY <1>1, <1>2 DEF Init, TypeInv, CallsInOrder, DownIsEmpty

LEMMA DecideTyped ==
    ASSUME TypeInv, Decide, UNCHANGED readerVars
    PROVE  TypeInv'
<1>1. PICK call \in 1..MaxCalls, ids \in SUBSET ExperimentIDs, marshals \in BOOLEAN :
          /\ call = 1 + Cardinality(Calls(decided))
          /\ ids # {}
          /\ decided' = decided \cup
                 {[call |-> call, experiment_id |-> id, marshals |-> marshals] : id \in ids}
          /\ spawned' = spawned \cup
                 {[call |-> call, experiment_id |-> id, marshals |-> marshals] : id \in ids}
  BY DEF Decide, Calls
<1> DEFINE new == {[call |-> call, experiment_id |-> id, marshals |-> marshals] : id \in ids}
<1>2. PICK n \in Nat : Calls(decided) = 1..n
  BY DEF TypeInv, CallsInOrder
<1>3. call = n + 1
  <2>1. Cardinality(1..n) = n
    BY FS_Interval
  <2> QED
    BY <1>1, <1>2, <2>1
<1>4. new \subseteq Events /\ \A e \in new : e.call = n + 1
  BY <1>1, <1>3 DEF Events
<1>5. new \cap decided = {}
  <2>1. \A e \in decided : e.call \in 1..n
    BY <1>2 DEF Calls
  <2> QED
    BY <1>4, <2>1
<1>6. Calls(decided') = 1..(n + 1)
  <2>1. Calls(new) = {n + 1}
    <3>1. PICK id \in ids : TRUE
      BY <1>1
    <3>2. [call |-> call, experiment_id |-> id, marshals |-> marshals] \in new
      BY <3>1
    <3> HIDE DEF new
    <3> QED
      BY <1>3, <1>4, <3>2 DEF Calls
  <2>2. Calls(decided') = Calls(decided) \cup Calls(new)
    BY <1>1 DEF Calls
  <2> QED
    BY <1>2, <2>1, <2>2
<1>7. spawned' \subseteq decided' /\ decided' \subseteq Events
  BY <1>1, <1>4 DEF TypeInv, AssignmentsTypeOK
<1>8. Reportable \ spawned \subseteq Reportable' \ spawned'
  BY <1>1, <1>5 DEF TypeInv, AssignmentsTypeOK, Reportable
<1>9. /\ writing' \subseteq Reportable' \ spawned' /\ lost' \subseteq Reportable' \ spawned'
      /\ topic' \in Seq(Reportable' \ spawned')
  <2>1. UNCHANGED <<writing, topic, lost>>
    BY DEF Decide
  <2>2. /\ writing \subseteq Reportable \ spawned /\ lost \subseteq Reportable \ spawned
        /\ topic \in Seq(Reportable \ spawned)
    BY DEF TypeInv, AssignmentsTypeOK
  <2>3. topic \in Seq(Reportable' \ spawned')
    BY <1>8, <2>2
  <2> QED
    BY <1>8, <2>1, <2>2, <2>3
<1>10. CallsInOrder'
  BY <1>6 DEF CallsInOrder
<1> QED
  BY <1>7, <1>9, <1>10 DEF Decide, TypeInv, AssignmentsTypeOK, DownIsEmpty, readerVars

LEMMA EventTyped ==
    ASSUME TypeInv, NEW e \in decided, UNCHANGED readerVars,
           Publish(e) \/ Written(e) \/ WrittenAndRetried(e) \/ WriteLost(e)
    PROVE  TypeInv'
<1> USE DEF TypeInv, AssignmentsTypeOK, CallsInOrder, DownIsEmpty, readerVars
<1>1. CASE Publish(e)
  <2>1. /\ spawned' \subseteq decided' /\ decided' = decided /\ Reportable' = Reportable
        /\ writing' \subseteq Reportable' \ spawned' /\ lost' \subseteq Reportable' \ spawned'
    BY <1>1 DEF Publish, Reportable
  <2>2. topic' \in Seq(Reportable' \ spawned')
    BY <1>1, <2>1 DEF Publish
  <2> QED
    BY <1>1, <2>1, <2>2 DEF Publish
<1>2. CASE Written(e) \/ WrittenAndRetried(e)
  <2>1. /\ UNCHANGED <<process, decided, spawned, lost>> /\ Reportable' = Reportable
        /\ writing' \subseteq writing
        /\ topic' = Append(topic, e) /\ e \in Reportable \ spawned
    BY <1>2 DEF Written, WrittenAndRetried, Reportable
  <2>2. topic' \in Seq(Reportable \ spawned) /\ Len(topic') = Len(topic) + 1 /\ Len(topic) \in Nat
    BY <2>1
  <2>3. printed' \in Seq(1..Len(topic'))
    BY <2>2
  <2>4. writeFaults' \in 0..MaxWriteFaults
    BY <1>2, AssignmentsAssumption DEF Written, WrittenAndRetried
  <2>5. position' \in 0..Len(topic') /\ inHand' \in {0, position'}
    BY <2>2
  <2> QED
    BY <2>1, <2>2, <2>3, <2>4, <2>5
<1>3. CASE WriteLost(e)
  <2>1. writeFaults' \in 0..MaxWriteFaults
    BY <1>3, AssignmentsAssumption DEF WriteLost
  <2>2. /\ UNCHANGED <<process, decided, spawned, topic>> /\ Reportable' = Reportable
        /\ writing' \subseteq writing /\ lost' \subseteq Reportable \ spawned
    BY <1>3 DEF WriteLost, Reportable
  <2> QED
    BY <2>1, <2>2
<1> QED
  BY <1>1, <1>2, <1>3

LEMMA EndTyped ==
    ASSUME TypeInv, UNCHANGED readerVars, Close \/ CloseReturns \/ Die
    PROVE  TypeInv'
<1> USE DEF TypeInv, AssignmentsTypeOK, CallsInOrder, DownIsEmpty, readerVars
<1>1. CASE Close \/ CloseReturns
  BY <1>1 DEF Close, CloseReturns, Reportable
<1>2. CASE Die
  <2>1. /\ decided' = decided /\ spawned' = {} /\ Reportable' = Reportable
        /\ UNCHANGED <<topic, lost, writeFaults>> /\ writing' = {} /\ process' = "dead"
    BY <1>2 DEF Die, Reportable
  <2>2. topic' \in Seq(Reportable' \ spawned')
    BY <2>1
  <2> QED
    BY <2>1, <2>2
<1> QED
  BY <1>1, <1>2

LEMMA ReaderTyped ==
    ASSUME TypeInv, Reader, UNCHANGED appVars
    PROVE  TypeInv'
<1> USE DEF TypeInv, AssignmentsTypeOK, DownIsEmpty, appVars
<1>0. CallsInOrder' /\ Reportable' = Reportable
  BY DEF CallsInOrder, Reportable
<1>1. CASE ReadMessage \/ CommitFails
  <2>1. /\ UNCHANGED <<reader, up, printed>> /\ up /\ readFaults' \in 0..MaxReadFaults
        /\ position' \in 0..Len(topic) /\ position' = position + 1
    BY <1>1, AssignmentsAssumption DEF ReadMessage, CommitFails, CanRead
  <2>2. offset' \in 0..position' /\ inHand' \in {0, position'}
    BY <1>1, <2>1 DEF ReadMessage, CommitFails, CanRead
  <2>3. skipped' \subseteq 1..position'
    <3>1. position \in Nat /\ position' \in 1..position' /\ 1..position \subseteq 1..position'
      BY <2>1
    <3>2. skipped' \subseteq skipped \cup {position'}
      BY <1>1 DEF ReadMessage, CommitFails
    <3> QED
      BY <3>1, <3>2
  <2> QED
    BY <1>0, <2>1, <2>2, <2>3
<1>2. CASE AutoCommit
  BY <1>0, <1>2 DEF AutoCommit, Returned
<1>3. CASE PrintMessage
  <2>1. inHand \in 1..Len(topic)
    BY <1>3 DEF PrintMessage
  <2>2. printed' \in Seq(1..Len(topic))
    BY <1>3, <2>1 DEF PrintMessage
  <2> QED
    BY <1>0, <1>3, <2>2 DEF PrintMessage
<1>4. CASE Crash \/ Restart
  <2>1. inHand' = 0 /\ up' \in BOOLEAN
    BY <1>4 DEF Crash, Restart
  <2>2. readFaults' \in 0..MaxReadFaults
    BY <1>4, AssignmentsAssumption DEF Crash, Restart
  <2>3. position' \in 0..Len(topic) /\ offset' \in 0..position' /\ printed' = printed
    BY <1>4 DEF Crash, Restart
  <2>4. skipped' \subseteq 1..position'
    <3>1. 1..offset \subseteq 1..position
      OBVIOUS
    <3> QED
      BY <1>4, <3>1 DEF Crash, Restart
  <2> QED
    BY <1>0, <2>1, <2>2, <2>3, <2>4, <1>4 DEF Crash, Restart
<1> QED
  BY <1>1, <1>2, <1>3, <1>4 DEF Reader

LEMMA StepTyped == ASSUME TypeInv, [Next]_vars PROVE TypeInv'
<1>1. CASE UNCHANGED vars
  BY <1>1 DEF vars, appVars, readerVars, TypeInv, AssignmentsTypeOK, Reportable, CallsInOrder,
              DownIsEmpty
<1>2. CASE Next
  BY <1>2, DecideTyped, EventTyped, EndTyped, ReaderTyped DEF Next, App
<1> QED
  BY <1>1, <1>2

LEMMA TypeInvariant == Spec => []TypeInv
  BY InitTyped, StepTyped, PTL DEF Spec

\* Type correctness; a goroutine is in one place, no event that does not marshal is
\* sent, and the offset of a group is never ahead of its reader.
THEOREM AssignmentsTyping == Spec => []AssignmentsTypeOK
  BY TypeInvariant, PTL DEF TypeInv

-----------------------------------------------------------------------------
(* The client.                                                             *)

\* Close has waited for the writer, and a dead process has none.
WriterIsEmpty == process \in {"closed", "dead"} => writing = {}

LEMMA WriterStep == ASSUME WriterIsEmpty, [Next]_vars PROVE WriterIsEmpty'
<1> USE DEF WriterIsEmpty
<1>1. CASE UNCHANGED <<process, writing>>
  BY <1>1
<1>2. CASE Decide
  BY <1>2 DEF Decide
<1>3. ASSUME NEW e \in decided, Publish(e) PROVE WriterIsEmpty'
  BY <1>3 DEF Publish, Admits
<1>4. ASSUME NEW e \in decided, Written(e) \/ WrittenAndRetried(e) \/ WriteLost(e)
      PROVE  WriterIsEmpty'
  BY <1>4 DEF Written, WrittenAndRetried, WriteLost
<1>5. CASE Close \/ CloseReturns \/ Die
  BY <1>5 DEF Close, CloseReturns, Flushed, Die
<1> QED
  BY <1>1, <1>2, <1>3, <1>4, <1>5 DEF Next, App, appVars, vars

\* Only a write changes the topic.
LEMMA StepSilent ==
    ASSUME WriterIsEmpty, [Next]_vars, process \in {"closed", "dead"}
    PROVE  UNCHANGED topic
<1>1. \A e : ~Written(e) /\ ~WrittenAndRetried(e)
  BY DEF WriterIsEmpty, Written, WrittenAndRetried
<1> QED
  BY <1>1 DEF Next, App, appVars, vars, Decide, Publish, WriteLost, Close, CloseReturns, Die

\* Once Close has returned, nothing the SDK still has under way reaches the topic.
THEOREM SilentOnceClosed == Spec => ClosedIsSilent
<1>1. Init => WriterIsEmpty
  BY DEF Init, WriterIsEmpty
<1>2. WriterIsEmpty /\ [Next]_vars => [(process \in {"closed", "dead"}) => UNCHANGED topic]_vars
  BY StepSilent
<1> QED
  BY <1>1, <1>2, WriterStep, PTL DEF Spec, ClosedIsSilent

-----------------------------------------------------------------------------
(* What is reported.                                                       *)

\* The decisions that are lost, and those that are in the topic and may get there
\* a second time.
Unreported == Reportable \ (spawned \cup writing \cup InTopic)

Doubtful == writing \cap InTopic

\* The faults of the broker so far and to come.
ReportsCovered ==
    process = "open" =>
        Cardinality(Unreported) + Cardinality(Doubtful) + Len(topic) - Cardinality(InTopic)
            <= writeFaults

ReportInv == TypeInv /\ IsFiniteSet(decided) /\ ReportsCovered

LEMMA DecidedFinite ==
    ASSUME IsFiniteSet(decided), [Next]_vars
    PROVE  IsFiniteSet(decided')
<1>1. CASE Decide
  <2>1. PICK call \in 1..MaxCalls, ids \in SUBSET ExperimentIDs :
            \E marshals \in BOOLEAN : decided' = decided \cup
                {[call |-> call, experiment_id |-> id, marshals |-> marshals] : id \in ids}
    BY <1>1 DEF Decide
  <2>5. PICK marshals \in BOOLEAN : decided' = decided \cup
                {[call |-> call, experiment_id |-> id, marshals |-> marshals] : id \in ids}
    BY <2>1
  <2> DEFINE new == {[call |-> call, experiment_id |-> id, marshals |-> marshals] : id \in ids}
             f == [id \in ids |-> [call |-> call, experiment_id |-> id, marshals |-> marshals]]
  <2>2. IsFiniteSet(ids)
    BY AssignmentsAssumption, FS_Subset
  <2>3. f \in Surjection(ids, new)
    BY DEF Surjection
  <2>4. IsFiniteSet(new)
    BY <2>2, <2>3, FS_Surjection
  <2> QED
    BY <2>5, <2>4, FS_Union
<1>2. CASE ~Decide
  BY <1>2 DEF Next, App, appVars, vars, Publish, Written, WrittenAndRetried, WriteLost,
              Close, CloseReturns, Die
<1> QED
  BY <1>1, <1>2

LEMMA Counted ==
    ASSUME TypeInv, IsFiniteSet(decided), NEW S, S \subseteq decided, NEW e
    PROVE  /\ Cardinality(S) \in Nat
           /\ Cardinality(S \cup {e}) = IF e \in S THEN Cardinality(S) ELSE Cardinality(S) + 1
           /\ Cardinality(S \ {e}) = IF e \in S THEN Cardinality(S) - 1 ELSE Cardinality(S)
<1>1. IsFiniteSet(S)
  BY FS_Subset
<1> QED
  BY <1>1, FS_CardinalityType, FS_AddElement, FS_RemoveElement

LEMMA ReportSets ==
    ASSUME TypeInv
    PROVE  /\ Unreported \subseteq decided /\ Doubtful \subseteq decided
           /\ InTopic \subseteq decided \ spawned
           /\ Len(topic) \in Nat /\ writeFaults \in Nat
  BY AssignmentsAssumption DEF TypeInv, AssignmentsTypeOK, Reportable, Unreported, Doubtful, InTopic

LEMMA ReportWrite ==
    ASSUME ReportInv, NEW e, Written(e) \/ WrittenAndRetried(e)
    PROVE  ReportsCovered'
<1> USE DEF ReportInv, ReportsCovered
<1>1. /\ e \in writing /\ process' = process
      /\ decided' = decided /\ spawned' = spawned
      /\ topic' = Append(topic, e) /\ topic \in Seq(decided)
  BY DEF Written, WrittenAndRetried, TypeInv, AssignmentsTypeOK, Reportable
<1>2. Len(topic') = Len(topic) + 1 /\ InTopic' = InTopic \cup {e}
  BY <1>1 DEF InTopic
<1>3. Unreported' = Unreported
  BY <1>1, <1>2 DEF Written, WrittenAndRetried, Reportable, Unreported
<1>4. /\ Cardinality(Unreported) \in Nat /\ Cardinality(Doubtful) \in Nat
      /\ Cardinality(InTopic) \in Nat /\ Len(topic) \in Nat /\ writeFaults \in Nat
      /\ Cardinality(InTopic') = IF e \in InTopic THEN Cardinality(InTopic) ELSE Cardinality(InTopic) + 1
  BY <1>2, ReportSets, Counted
<1>5. CASE Written(e)
  <2>1. writeFaults' = writeFaults /\ Doubtful' = Doubtful \ {e} /\ (e \in Doubtful <=> e \in InTopic)
    BY <1>1, <1>2, <1>5 DEF Written, Doubtful
  <2>2. Cardinality(Doubtful') = IF e \in InTopic THEN Cardinality(Doubtful) - 1 ELSE Cardinality(Doubtful)
    BY <2>1, ReportSets, Counted
  <2> QED
    BY <1>1, <1>2, <1>3, <1>4, <2>1, <2>2
<1>6. CASE WrittenAndRetried(e)
  <2>1. writeFaults' = writeFaults + 1 /\ Doubtful' = Doubtful \cup {e} /\ (e \in Doubtful <=> e \in InTopic)
    BY <1>1, <1>2, <1>6 DEF WrittenAndRetried, Doubtful
  <2>2. Cardinality(Doubtful') = IF e \in InTopic THEN Cardinality(Doubtful) ELSE Cardinality(Doubtful) + 1
    BY <2>1, ReportSets, Counted
  <2> QED
    BY <1>1, <1>2, <1>3, <1>4, <2>1, <2>2
<1> QED
  BY <1>5, <1>6

LEMMA ReportLoss ==
    ASSUME ReportInv, NEW e, WriteLost(e)
    PROVE  ReportsCovered'
<1> USE DEF ReportInv, ReportsCovered
<1>1. /\ e \in writing /\ writing' = writing \ {e} /\ writeFaults' = writeFaults + 1
      /\ UNCHANGED <<process, decided, spawned, topic>> /\ InTopic' = InTopic
  BY DEF WriteLost, InTopic
<1>2. /\ Cardinality(Unreported) \in Nat /\ Cardinality(Doubtful) \in Nat
      /\ Cardinality(InTopic) \in Nat /\ Len(topic) \in Nat /\ writeFaults \in Nat
  BY ReportSets, Counted
<1>3. CASE e \in InTopic
  <2>1. Unreported' = Unreported /\ Doubtful' = Doubtful \ {e} /\ e \in Doubtful
    BY <1>1, <1>3 DEF Reportable, Unreported, Doubtful
  <2>2. Cardinality(Doubtful') = Cardinality(Doubtful) - 1
    BY <2>1, ReportSets, Counted
  <2> QED
    BY <1>1, <1>2, <2>1, <2>2
<1>4. CASE e \notin InTopic
  <2>1. e \in Reportable \ spawned /\ e \notin Unreported
    BY <1>1 DEF TypeInv, AssignmentsTypeOK, Unreported
  <2>2. Unreported' = Unreported \cup {e} /\ Doubtful' = Doubtful
    BY <1>1, <1>4, <2>1 DEF Reportable, Unreported, Doubtful
  <2>3. Cardinality(Unreported') = Cardinality(Unreported) + 1
    BY <2>1, <2>2, ReportSets, Counted
  <2> QED
    BY <1>1, <1>2, <2>2, <2>3
<1> QED
  BY <1>3, <1>4

\* No other step loses or repeats anything while the process is open.
LEMMA ReportOthers ==
    ASSUME ReportInv, [Next]_vars,
           \A e : ~Written(e) /\ ~WrittenAndRetried(e) /\ ~WriteLost(e)
    PROVE  ReportsCovered'
<1> SUFFICES ASSUME process' = "open" PROVE ReportsCovered'
  BY DEF ReportsCovered
<1> USE DEF ReportInv
<1>1. CASE /\ process = "open" /\ UNCHANGED <<topic, writeFaults>>
           /\ Unreported' = Unreported /\ Doubtful' = Doubtful
  BY <1>1 DEF ReportsCovered, InTopic
<1>2. CASE UNCHANGED appVars
  BY <1>1, <1>2 DEF appVars, Reportable, Unreported, Doubtful, InTopic
<1>3. CASE Decide
  <2>1. PICK new : /\ decided' = decided \cup new /\ spawned' = spawned \cup new
                   /\ UNCHANGED <<process, writing, topic, writeFaults>>
    BY <1>3 DEF Decide
  <2>2. Unreported' \subseteq Unreported
    BY <2>1 DEF Reportable, Unreported, InTopic
  <2>3. IsFiniteSet(Unreported) /\ Cardinality(Unreported) \in Nat
    BY ReportSets, FS_Subset, FS_CardinalityType
  <2>4. Cardinality(Unreported') <= Cardinality(Unreported) /\ Cardinality(Unreported') \in Nat
    BY <2>2, <2>3, FS_Subset, FS_CardinalityType
  <2>5. Doubtful' = Doubtful /\ InTopic' = InTopic
    BY <2>1 DEF Doubtful, InTopic
  <2>6. Cardinality(Doubtful) \in Nat /\ Cardinality(InTopic) \in Nat /\ Len(topic) \in Nat /\ writeFaults \in Nat
    BY ReportSets, Counted
  <2> QED
    BY <2>1, <2>3, <2>4, <2>5, <2>6 DEF ReportsCovered
<1>4. ASSUME NEW e \in decided, Publish(e) PROVE ReportsCovered'
  <2>1. /\ e \in spawned /\ spawned' = spawned \ {e}
        /\ writing' = IF e.marshals THEN writing \cup {e} ELSE writing
        /\ UNCHANGED <<process, decided, topic, writeFaults>>
    BY <1>4 DEF Publish, Admits
  <2>2. InTopic' = InTopic /\ e \notin InTopic /\ Reportable' = Reportable
    BY <2>1, ReportSets DEF InTopic, Reportable
  <2>3. e \in Reportable <=> e.marshals
    BY <1>4 DEF Reportable
  <2>4. Unreported' = Unreported /\ Doubtful' = Doubtful
    BY <2>1, <2>2, <2>3 DEF Unreported, Doubtful
  <2> QED
    BY <1>1, <2>1, <2>4
<1>5. ~Close /\ ~CloseReturns /\ ~Die
  BY DEF Close, CloseReturns, Die
<1> QED
  BY <1>2, <1>3, <1>4, <1>5 DEF Next, App, vars, appVars

\* While the client is open, no decision whose context marshals is lost or reported
\* twice but for a fault of the broker.
THEOREM ReportsOnce == Spec => []ReportedOnce
<1>1. Init => ReportInv
  <2> SUFFICES ASSUME Init PROVE ReportInv
    OBVIOUS
  <2>1. decided = {} /\ Unreported = {} /\ Doubtful = {} /\ InTopic = {} /\ Len(topic) = 0
    BY DEF Init, Reportable, Unreported, Doubtful, InTopic
  <2> QED
    BY <2>1, InitTyped, FS_EmptySet DEF Init, ReportInv, ReportsCovered
<1>2. ReportInv /\ [Next]_vars => ReportInv'
  BY StepTyped, DecidedFinite, ReportWrite, ReportLoss, ReportOthers DEF ReportInv
<1>3. ReportInv => ReportedOnce
  <2> SUFFICES ASSUME ReportInv, process = "open" PROVE ReportedOnce
    BY DEF ReportedOnce
  <2>1. /\ Cardinality(Unreported) \in Nat /\ Cardinality(Doubtful) \in Nat
        /\ Cardinality(InTopic) \in Nat /\ Len(topic) \in Nat /\ writeFaults \in Nat
    BY ReportSets, Counted DEF ReportInv
  <2>2. Cardinality(Unreported) + Len(topic) - Cardinality(InTopic) <= writeFaults
    BY <2>1 DEF ReportInv, ReportsCovered
  <2> QED
    BY <2>2 DEF ReportedOnce, Unreported
<1> QED
  BY <1>1, <1>2, <1>3, PTL DEF Spec

-----------------------------------------------------------------------------
(* The reader.                                                             *)

\* What assignment-consumer has printed is committed, and so is what it has in
\* hand, which is newer.
PrintedIsCommitted ==
    reader = "assignment-consumer" =>
        /\ inHand \in {0, offset}
        /\ \A i \in 1..Len(printed) :
               printed[i] <= offset /\ (inHand # 0 => printed[i] < inHand)

PrintInv == TypeInv /\ PrintedIsCommitted /\ PrintedOnce

LEMMA PrintStep == ASSUME PrintInv, [Next]_vars PROVE PrintInv'
<1> USE DEF PrintInv, PrintedIsCommitted, PrintedOnce
<1>1. TypeInv'
  BY StepTyped
<1>2. /\ offset \in Nat /\ position \in Nat /\ offset <= position /\ inHand \in Nat
      /\ Len(printed) \in Nat /\ \A i \in 1..Len(printed) : printed[i] \in Nat
  BY DEF TypeInv, AssignmentsTypeOK
<1>3. CASE UNCHANGED readerVars
  BY <1>1, <1>3 DEF readerVars
<1>4. CASE ReadMessage
  <2>1. /\ inHand' = position + 1 /\ UNCHANGED <<reader, printed>>
        /\ reader = "assignment-consumer" => offset' = position + 1
    BY <1>4 DEF ReadMessage, CommitsFirst
  <2> QED
    BY <1>1, <1>2, <2>1
<1>5. CASE CommitFails
  <2>1. /\ inHand = 0 /\ UNCHANGED <<reader, inHand, printed>>
        /\ offset' \in {offset, position + 1}
    BY <1>5 DEF CommitFails, CanRead
  <2> QED
    BY <1>1, <1>2, <2>1
<1>6. CASE AutoCommit \/ Crash \/ Restart
  BY <1>1, <1>2, <1>6 DEF AutoCommit, CommitsFirst, Crash, Restart
<1>7. CASE PrintMessage
  <2>1. /\ Len(printed') = Len(printed) + 1 /\ printed'[Len(printed')] = inHand
        /\ \A i \in 1..Len(printed) : printed'[i] = printed[i]
        /\ inHand # 0 /\ inHand' = 0 /\ UNCHANGED <<reader, offset>>
    BY <1>7 DEF PrintMessage, TypeInv, AssignmentsTypeOK
  <2> QED
    BY <1>1, <1>2, <2>1
<1> QED
  BY <1>3, <1>4, <1>5, <1>6, <1>7 DEF Next, Reader, vars

\* assignment-consumer, which commits before it prints, prints no message twice
\* and none out of order.
THEOREM PrintsOnce == Spec => []PrintedOnce
<1>1. Init => PrintInv
  BY InitTyped DEF Init, PrintInv, PrintedIsCommitted, PrintedOnce
<1> QED
  BY <1>1, PrintStep, PTL DEF Spec, PrintInv

\* What a set grows by.
LEMMA OneMore ==
    ASSUME NEW S, NEW T, NEW x, IsFiniteSet(S), T \subseteq S \cup {x}
    PROVE  IsFiniteSet(T) /\ Cardinality(T) \in Nat /\ Cardinality(S) \in Nat
           /\ Cardinality(T) <= Cardinality(S) + 1
<1>1. /\ IsFiniteSet(S \cup {x}) /\ Cardinality(S) \in Nat
      /\ Cardinality(S \cup {x}) <= Cardinality(S) + 1
  <2>1. Cardinality(S) \in Nat
    BY FS_CardinalityType
  <2>2. /\ IsFiniteSet(S \cup {x})
        /\ Cardinality(S \cup {x}) = IF x \in S THEN Cardinality(S) ELSE Cardinality(S) + 1
    BY FS_AddElement
  <2> QED
    BY <2>1, <2>2
<1>2. /\ IsFiniteSet(T) /\ Cardinality(T) <= Cardinality(S \cup {x})
  BY <1>1, FS_Subset
<1> QED
  BY <1>1, <1>2, FS_CardinalityType

\* The messages up to n that are neither printed nor in hand.
Skipped(n) == 1..n \ ({printed[i] : i \in 1..Len(printed)} \cup {inHand})

\* What lies between the offset of the group and the place of its reader counts too.
FaultsCovered == Cardinality(Skipped(position)) <= readFaults

LEMMA SkippedFinite ==
    ASSUME NEW n \in Nat
    PROVE  IsFiniteSet(Skipped(n)) /\ Cardinality(Skipped(n)) \in Nat
<1>1. IsFiniteSet(1..n)
  BY FS_Interval
<1> QED
  BY <1>1, FS_Subset, FS_CardinalityType DEF Skipped

LEMMA FaultsStep ==
    ASSUME TypeInv, FaultsCovered, [Next]_vars
    PROVE  FaultsCovered'
<1>1. /\ offset \in Nat /\ position \in Nat /\ offset <= position /\ readFaults \in Nat
      /\ inHand \in {0, position} /\ printed \in Seq(Nat)
  BY AssignmentsAssumption DEF TypeInv, AssignmentsTypeOK
<1>2. IsFiniteSet(Skipped(position)) /\ Cardinality(Skipped(position)) \in Nat
  BY <1>1, SkippedFinite
<1>3. CASE Skipped(position)' \subseteq Skipped(position) /\ readFaults' = readFaults
  <2>1. Cardinality(Skipped(position)') <= Cardinality(Skipped(position))
        /\ Cardinality(Skipped(position)') \in Nat
    BY <1>2, <1>3, FS_Subset, FS_CardinalityType
  <2> QED
    BY <1>1, <1>2, <1>3, <2>1 DEF FaultsCovered
<1>4. CASE /\ \E x : Skipped(position)' \subseteq Skipped(position) \cup {x}
           /\ readFaults' = readFaults + 1
  <2>1. Cardinality(Skipped(position)') <= Cardinality(Skipped(position)) + 1
        /\ Cardinality(Skipped(position)') \in Nat
    BY <1>2, <1>4, OneMore
  <2> QED
    BY <1>1, <1>2, <1>4, <2>1 DEF FaultsCovered
<1>5. CASE UNCHANGED readerVars
  BY <1>3, <1>5 DEF readerVars, Skipped
<1>6. CASE ReadMessage
  <2>1. Skipped(position)' \subseteq Skipped(position)
    BY <1>1, <1>6 DEF ReadMessage, CanRead, Skipped
  <2> QED
    BY <1>3, <1>6, <2>1 DEF ReadMessage
<1>7. CASE CommitFails
  <2>1. Skipped(position)' \subseteq Skipped(position) \cup {position + 1}
    BY <1>1, <1>7 DEF CommitFails, Skipped
  <2> QED
    BY <1>4, <1>7, <2>1 DEF CommitFails
<1>8. CASE AutoCommit
  BY <1>3, <1>8 DEF AutoCommit, Skipped
<1>9. CASE PrintMessage
  <2>1. {printed'[i] : i \in 1..Len(printed')} = {printed[i] : i \in 1..Len(printed)} \cup {inHand}
    BY <1>1, <1>9 DEF PrintMessage
  <2>2. Skipped(position)' \subseteq Skipped(position)
    BY <1>9, <2>1 DEF PrintMessage, Skipped
  <2> QED
    BY <1>3, <1>9, <2>2 DEF PrintMessage
<1>10. CASE Crash
  <2>1. Skipped(position)' \subseteq Skipped(position) \cup {inHand}
    BY <1>10 DEF Crash, Skipped
  <2> QED
    BY <1>4, <1>10, <2>1 DEF Crash
<1>11. CASE Restart
  <2>1. Skipped(position)' \subseteq Skipped(position)
    BY <1>1, <1>11 DEF Restart, Skipped
  <2> QED
    BY <1>3, <1>11, <2>1 DEF Restart
<1> QED
  BY <1>5, <1>6, <1>7, <1>8, <1>9, <1>10, <1>11 DEF Next, Reader, vars

\* Of the messages behind the offset of its group, either reader has failed to
\* print at most one for each crash and each failed commit.
THEOREM OneLossPerFault == Spec => []OneMessagePerFault
<1>1. Init => FaultsCovered
  <2> SUFFICES ASSUME Init PROVE FaultsCovered
    OBVIOUS
  <2>1. Skipped(position) = {}
    BY DEF Init, Skipped
  <2> QED
    BY <2>1, FS_EmptySet DEF Init, FaultsCovered
<1>2. TypeInv /\ FaultsCovered => OneMessagePerFault
  <2> SUFFICES ASSUME TypeInv, FaultsCovered PROVE OneMessagePerFault
    OBVIOUS
  <2>1. offset \in Nat /\ position \in Nat /\ offset <= position /\ readFaults \in Nat
    BY AssignmentsAssumption DEF TypeInv, AssignmentsTypeOK
  <2>2. Skipped(offset) \subseteq Skipped(position)
    BY <2>1 DEF Skipped
  <2>3. Cardinality(Skipped(offset)) <= Cardinality(Skipped(position))
    BY <2>1, <2>2, SkippedFinite, FS_Subset
  <2>4. Cardinality(Skipped(offset)) \in Nat /\ Cardinality(Skipped(position)) \in Nat
    BY <2>1, SkippedFinite
  <2>5. Cardinality(Skipped(offset)) <= readFaults
    BY <2>1, <2>3, <2>4 DEF FaultsCovered
  <2> QED
    BY <2>5 DEF OneMessagePerFault, Skipped
<1> QED
  BY <1>1, <1>2, FaultsStep, TypeInvariant, PTL DEF Spec
=============================================================================
