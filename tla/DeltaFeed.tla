------------------------------ MODULE DeltaFeed ------------------------------
(***************************************************************************)
(* What the transactional outbox gives a subscriber of ab_deltas.  Changes *)
(* are committed; each is then delivered, possibly more than once, or lost *)
(* by the broker, and the changes of one experiment are delivered in order *)
(* as far as they are delivered at all.                                    *)
(*                                                                         *)
(* What is ordered is the first delivery of a change.  One kind of change  *)
(* is outside the order: the stray ones an update writes after a delete    *)
(* has removed its row, for they have no row to be serialised by.          *)
(***************************************************************************)
EXTENDS Naturals, Sequences

CONSTANT Change     \* records with event_type, payload.id and created_at

VARIABLES
    committed,      \* the changes committed so far
    feed,           \* what has been delivered, in order, with repetitions
    lost            \* the changes handed to the broker and not taken by it

feedVars == <<committed, feed, lost>>

Delivered == {feed[i] : i \in 1..Len(feed)}

\* e was committed for an experiment that a DELETE in S had removed before.
Stray(e, S) ==
    \E d \in S : /\ d.event_type = "DELETE"
                 /\ d.payload.id = e.payload.id
                 /\ d.created_at < e.created_at

\* f has its turn before e.
Precedes(f, e, S) ==
    /\ f.payload.id = e.payload.id
    /\ f.created_at < e.created_at
    /\ ~Stray(f, S)

\* Every change with its turn before e has had it.
InTurn(e) ==
    \A f \in committed : Precedes(f, e, committed) => f \in Delivered \cup lost

FeedInit ==
    /\ committed = {}
    /\ feed = <<>>
    /\ lost = {}

\* A change is never committed when one behind it has already been delivered.
CommitChange ==
    /\ \E e \in committed' \ committed :
        /\ e \in Change
        /\ committed' = committed \cup {e}
        /\ \A f \in Delivered : ~Precedes(e, f, committed)
    /\ UNCHANGED <<feed, lost>>

Deliver ==
    \E e \in committed :
        /\ InTurn(e)
        /\ feed' = Append(feed, e)
        /\ UNCHANGED <<committed, lost>>

Lose ==
    \E e \in committed :
        /\ InTurn(e)
        /\ lost' = lost \cup {e}
        /\ UNCHANGED <<committed, feed>>

FeedNext == CommitChange \/ Deliver \/ Lose

FeedSpec == FeedInit /\ [][FeedNext]_feedVars
=============================================================================
