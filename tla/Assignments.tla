---------------------------- MODULE Assignments ----------------------------
(***************************************************************************)
(* The events that tell who was put into which variant: the goroutines of  *)
(* trackAssignment (client-sdk/decision_logic.go), the writer of           *)
(* queue.Producer, Close and the end of the process, the topic             *)
(* ab_assignment_events, and its two readers, assignment-consumer and      *)
(* event-consumer.                                                         *)
(*                                                                         *)
(* What Decide decides is the matter of Decision; here a call decides on   *)
(* any experiments.  The topic has one partition.  The two readers know    *)
(* nothing of each other, so there is one here, either of them.            *)
(***************************************************************************)
EXTENDS Naturals, Sequences, FiniteSets

CONSTANTS
    ExperimentIDs,  \* the experiments a call may put the user into
    MaxCalls,       \* bound: calls of Decide
    MaxEvents,      \* bound: decisions of all calls
    MaxWriteFaults, \* bound: messages the broker loses or gets again
    MaxReadFaults   \* bound: crashes and commit errors of the reader

ASSUME AssignmentsAssumption ==
    /\ IsFiniteSet(ExperimentIDs)
    /\ MaxCalls \in Nat /\ MaxEvents \in Nat /\ MaxWriteFaults \in Nat /\ MaxReadFaults \in Nat

VARIABLES
    process,        \* "open", "closing", "closed" or "dead"
    decided,        \* the decisions of all calls so far
    spawned,        \* go c.trackAssignment: not yet in the writer
    writing,        \* in Writer.WriteMessages
    topic,          \* ab_assignment_events
    lost,           \* history: the messages the broker has lost
    writeFaults,    \* how many it has lost or got again
    reader,         \* "assignment-consumer" or "event-consumer"
    up,             \* is it running
    position,       \* the last message it has fetched
    offset,         \* the committed offset of its group
    inHand,         \* the message ReadMessage has returned, 0 if none
    printed,        \* the messages it has printed, in order
    skipped,        \* history: the messages a fault of the reader passed over
    readFaults      \* its crashes and commit errors so far

appVars == <<process, decided, spawned, writing, topic, lost, writeFaults>>
readerVars == <<reader, up, position, offset, inHand, printed, skipped, readFaults>>
vars == <<appVars, readerVars>>

\* marshals says whether json.Marshal can encode the attributes of the call: it
\* returns an error for NaN, a channel or a function.
Events == [call : 1..MaxCalls, experiment_id : ExperimentIDs, marshals : BOOLEAN]

Reportable == {e \in decided : e.marshals}

InTopic == {topic[i] : i \in 1..Len(topic)}

\* The values the variables take; a goroutine is in one place, no event that does
\* not marshal is sent, and the offset of a group is never ahead of its reader.
AssignmentsTypeOK ==
    /\ process \in {"open", "closing", "closed", "dead"}
    /\ decided \subseteq Events
    /\ spawned \subseteq decided /\ writing \subseteq Reportable \ spawned
    /\ topic \in Seq(Reportable \ spawned)
    /\ lost \subseteq Reportable \ spawned
    /\ writeFaults \in 0..MaxWriteFaults
    /\ up \in BOOLEAN
    /\ position \in 0..Len(topic) /\ offset \in 0..position
    /\ inHand \in {0, position}
    /\ printed \in Seq(1..Len(topic))
    /\ skipped \subseteq 1..position
    /\ readFaults \in 0..MaxReadFaults

Init ==
    /\ process = "open"
    /\ decided = {} /\ spawned = {} /\ writing = {}
    /\ topic = <<>> /\ lost = {} /\ writeFaults = 0
    /\ reader \in {"assignment-consumer", "event-consumer"}
    /\ up = TRUE /\ position = 0 /\ offset = 0 /\ inHand = 0
    /\ printed = <<>> /\ skipped = {} /\ readFaults = 0

-----------------------------------------------------------------------------
(* The application with the SDK.                                           *)

\* Decide returns and leaves a goroutine for each decision; it does so even
\* after Close.
Decide ==
    /\ process # "dead"
    /\ \E call \in 1..MaxCalls, ids \in SUBSET ExperimentIDs, marshals \in BOOLEAN :
        /\ call = 1 + Cardinality({e.call : e \in decided})
        /\ ids # {} /\ Cardinality(decided) + Cardinality(ids) <= MaxEvents
        /\ LET new == {[call |-> call, experiment_id |-> id, marshals |-> marshals] : id \in ids}
           IN  decided' = decided \cup new /\ spawned' = spawned \cup new
    /\ UNCHANGED <<process, writing, topic, lost, writeFaults>>

\* Fault: the writer does not look whether it is closed.
Admits_Always == TRUE

\* What WriteMessages lets in; else it returns io.ErrClosedPipe.
Admits == process = "open"

\* Fault: a payload that failed to encode is published all the same.
Publish_Unencoded(e) ==
    /\ process # "dead"
    /\ e \in spawned
    /\ spawned' = spawned \ {e}
    /\ writing' = IF Admits THEN writing \cup {e} ELSE writing
    /\ UNCHANGED <<process, decided, topic, lost, writeFaults>>

\* trackAssignment up to the writer: a context that does not marshal ends it, and
\* so does the writer's refusal; both are logged and counted, and the event is gone.
Publish(e) ==
    /\ process # "dead"
    /\ e \in spawned
    /\ spawned' = spawned \ {e}
    /\ writing' = IF e.marshals /\ Admits THEN writing \cup {e} ELSE writing
    /\ UNCHANGED <<process, decided, topic, lost, writeFaults>>

\* Fault: the writer sends the message again though nothing broke.
Written_Again(e) ==
    /\ e \in writing
    /\ topic' = Append(topic, e)
    /\ UNCHANGED <<process, decided, spawned, writing, lost, writeFaults>>

\* The message reaches the broker, and WriteMessages returns.
Written(e) ==
    /\ e \in writing
    /\ topic' = Append(topic, e)
    /\ writing' = writing \ {e}
    /\ UNCHANGED <<process, decided, spawned, lost, writeFaults>>

\* It reaches the broker and the connection breaks: the writer tries again.
WrittenAndRetried(e) ==
    /\ e \in writing
    /\ writeFaults < MaxWriteFaults
    /\ topic' = Append(topic, e)
    /\ writeFaults' = writeFaults + 1
    /\ UNCHANGED <<process, decided, spawned, writing, lost>>

\* It is gone, with no acknowledgement to miss or after the last attempt.
WriteLost(e) ==
    /\ e \in writing
    /\ writeFaults < MaxWriteFaults
    /\ writing' = writing \ {e}
    /\ lost' = lost \cup {e}
    /\ writeFaults' = writeFaults + 1
    /\ UNCHANGED <<process, decided, spawned, topic>>

Close ==
    /\ process = "open"
    /\ process' = "closing"
    /\ UNCHANGED <<decided, spawned, writing, topic, lost, writeFaults>>

\* Fault: Close does not wait for the messages in the writer.
Flushed_Any == TRUE

Flushed == writing = {}

CloseReturns ==
    /\ process = "closing"
    /\ Flushed
    /\ process' = "closed"
    /\ UNCHANGED <<decided, spawned, writing, topic, lost, writeFaults>>

\* The process is killed, or ends without Close as example-sort-app does.
Die ==
    /\ process # "dead"
    /\ process' = "dead"
    /\ spawned' = {} /\ writing' = {}
    /\ UNCHANGED <<decided, topic, lost, writeFaults>>

App ==
    \/ Decide
    \/ \E e \in decided : Publish(e) \/ Written(e) \/ WrittenAndRetried(e) \/ WriteLost(e)
    \/ Close
    \/ CloseReturns
    \/ Die

-----------------------------------------------------------------------------
(* The reader.                                                             *)

\* Fault: the last message is left for later.
CanRead_LastLeft == up /\ inHand = 0 /\ position + 1 < Len(topic)

CanRead == up /\ inHand = 0 /\ position < Len(topic)

\* Fault: the offset is committed only in the background.
CommitsFirst_Never == FALSE

\* kafka-go's ReadMessage commits before it returns; confluent's does not.
CommitsFirst == reader = "assignment-consumer"

ReadMessage ==
    /\ CanRead
    /\ position' = position + 1
    /\ inHand' = position'
    /\ offset' = IF CommitsFirst THEN position' ELSE offset
    /\ UNCHANGED <<reader, up, printed, skipped, readFaults>>

\* The commit fails or its answer is lost: `continue' with the next message.
CommitFails ==
    /\ CanRead /\ CommitsFirst
    /\ readFaults < MaxReadFaults
    /\ position' = position + 1
    /\ offset' \in {offset, position'}
    /\ skipped' = skipped \cup {position'}
    /\ readFaults' = readFaults + 1
    /\ UNCHANGED <<reader, up, inHand, printed>>

\* Fault: all that is in the topic, as if ReadMessage had returned it.
Returned_All == Len(topic)

\* What ReadMessage has returned.
Returned == position

\* enable.auto.commit, in the background.
AutoCommit ==
    /\ up /\ ~CommitsFirst
    /\ offset < Returned
    /\ offset' = Returned
    /\ UNCHANGED <<reader, up, position, inHand, printed, skipped, readFaults>>

PrintMessage ==
    /\ up /\ inHand # 0
    /\ printed' = Append(printed, inHand)
    /\ inHand' = 0
    /\ UNCHANGED <<reader, up, position, offset, skipped, readFaults>>

Crash ==
    /\ up /\ readFaults < MaxReadFaults
    /\ up' = FALSE
    /\ inHand' = 0
    /\ skipped' = skipped \cup ({inHand} \cap 1..offset)
    /\ readFaults' = readFaults + 1
    /\ UNCHANGED <<reader, position, offset, printed>>

Restart ==
    /\ ~up
    /\ up' = TRUE
    /\ position' = offset
    /\ skipped' = skipped \cap 1..offset
    /\ UNCHANGED <<reader, offset, inHand, printed, readFaults>>

Reader ==
    \/ ReadMessage
    \/ CommitFails
    \/ AutoCommit
    \/ PrintMessage
    \/ Crash
    \/ Restart

-----------------------------------------------------------------------------
Next ==
    \/ App /\ UNCHANGED readerVars
    \/ Reader /\ UNCHANGED appVars

Spec == Init /\ [][Next]_vars

\* Goroutines run, the writer gets on, and a reader that is up reads; nobody has
\* to restart it.
FairSpec ==
    /\ Spec
    /\ \A e \in Events : WF_vars((Publish(e) \/ Written(e)) /\ UNCHANGED readerVars)
    /\ WF_vars((ReadMessage \/ PrintMessage) /\ UNCHANGED appVars)

-----------------------------------------------------------------------------
(* What becomes of the events.                                             *)

\* As long as nobody closes the client or ends its process, every decision whose
\* context marshals is on its way or in the topic, once: what is missing and what
\* is there again are no more than the broker's faults.
ReportedOnce ==
    process = "open" =>
        Cardinality(Reportable \ (spawned \cup writing \cup InTopic))
            + Len(topic) - Cardinality(InTopic) <= writeFaults

\* When Close has returned, the SDK sends nothing more, though Decide may still
\* be called and goroutines of earlier calls may still be on their way.
ClosedIsSilent == [][(process \in {"closed", "dead"}) => UNCHANGED topic]_vars

\* assignment-consumer prints no message twice and none after a newer one, over
\* crashes and commit errors.
PrintedOnce ==
    reader = "assignment-consumer" =>
        \A i, j \in 1..Len(printed) : i < j => printed[i] < printed[j]

\* Every crash and every commit error costs a reader at most one message: of
\* those before the place where its group will resume, it did not print more.
OneMessagePerFault ==
    Cardinality(1..offset \ ({printed[i] : i \in 1..Len(printed)} \cup {inHand})) <= readFaults

Printed == {topic[printed[k]] : k \in 1..Len(printed)}

\* Every decision is printed by a reader that stays up, unless there is a reason
\* to name: its context does not marshal, the broker lost the message, a commit
\* error or a crash of the reader passed over it, or the client was closed before
\* the event was in the writer or ended before it was in the topic.
DecisionReachesReader ==
    \A e \in Events :
        e \in decided ~>
            \/ e \in Printed
            \/ ~up
            \/ ~e.marshals
            \/ e \in lost
            \/ \E i \in skipped : topic[i] = e
            \/ process # "open" /\ e \notin writing \cup InTopic
=============================================================================
