------------------------------ MODULE EventFeed --------------------------------
(***************************************************************************)
(* The bounded fan-out of session events: EventPublisher and               *)
(* EventSubscription (application/session_events.py), with the handlers    *)
(* that serve a subscription to a page (usage_events of api/admin_routes   *)
(* .py and the feed of api/code_sessions_routes.py).                       *)
(*                                                                         *)
(* An observer takes a snapshot together with a cursor and then reads the  *)
(* events that follow it.  Nobody waits for an observer: one that is too   *)
(* slow loses its queue and is told to take another snapshot.              *)
(***************************************************************************)
EXTENDS Integers, Sequences

CONSTANTS
    Observers,
    QueueSize,
    MaxPublished           \* bound: events published

ASSUME FeedAssumption == QueueSize \in Nat \ {0} /\ MaxPublished \in Nat

\* The two markers that stand in a queue among the ids of events.
Ended == 0
Overflow == -1

VARIABLES
    sequence,           \* _sequence, the id of the last event
    publisher,          \* open, stopping (no more subscribers), closed
    subscriptions,      \* _subscriptions
    readers,            \* observers whose handler reads its subscription
    seen,               \* the last event each observer knows of
    inbox               \* the queue of each subscription

feedVars == <<sequence, publisher, subscriptions, readers, seen, inbox>>

FeedTypeOK ==
    /\ sequence \in 0..MaxPublished /\ publisher \in {"open", "stopping", "closed"}
    /\ subscriptions \subseteq readers /\ readers \subseteq Observers
    /\ seen \in [Observers -> 0..MaxPublished]
    /\ inbox \in [Observers -> Seq(Int)]
    /\ \A o \in Observers : Len(inbox[o]) <= QueueSize

FeedInit ==
    /\ sequence = 0 /\ publisher = "open" /\ subscriptions = {} /\ readers = {}
    /\ seen = [o \in Observers |-> 0] /\ inbox = [o \in Observers |-> <<>>]

\* signal: the marker replaces whatever was queued.
Signalled(marker) == <<marker>>

\* subscribe, with the snapshot of what has been published.
Subscribe(o) ==
    /\ publisher = "open" /\ o \notin readers
    /\ subscriptions' = subscriptions \cup {o} /\ readers' = readers \cup {o}
    /\ seen' = [seen EXCEPT ![o] = sequence] /\ inbox' = [inbox EXCEPT ![o] = <<>>]
    /\ UNCHANGED <<sequence, publisher>>

Fits(o) == Len(inbox[o]) < QueueSize

\* Mutant: an observer whose queue is full misses the event.
OfferedIfItFits(o) == IF Fits(o) THEN Append(inbox[o], sequence + 1) ELSE inbox[o]

Offered(o) == IF Fits(o) THEN Append(inbox[o], sequence + 1) ELSE Signalled(Overflow)

Publish ==
    /\ publisher # "closed" /\ sequence < MaxPublished
    /\ sequence' = sequence + 1
    /\ inbox' = [o \in Observers |-> IF o \in subscriptions THEN Offered(o) ELSE inbox[o]]
    /\ subscriptions' = {o \in subscriptions : Fits(o)}
    /\ UNCHANGED <<publisher, readers, seen>>

\* disconnect_subscribers, when the service begins to shut down, and close.
DisconnectSubscribers ==
    /\ \/ publisher = "open" /\ publisher' \in {"stopping", "closed"}
       \/ publisher = "stopping" /\ publisher' = "closed"
    /\ inbox' = [o \in Observers |-> IF o \in subscriptions THEN Signalled(Ended) ELSE inbox[o]]
    /\ subscriptions' = {}
    /\ UNCHANGED <<sequence, readers, seen>>

\* The subscription of an observer is closed and forgotten.
Forget(o) ==
    /\ readers' = readers \ {o} /\ subscriptions' = subscriptions \ {o}
    /\ seen' = [seen EXCEPT ![o] = 0] /\ inbox' = [inbox EXCEPT ![o] = <<>>]

\* What the item at the head lets the handler do.
GoesOn(item) == item \notin {Ended, Overflow}

\* The handler sends the next event, or ends and closes its subscription.
Read(o) ==
    LET item == Head(inbox[o]) IN
    /\ o \in readers /\ inbox[o] # <<>>
    /\ IF GoesOn(item)
       THEN /\ seen' = [seen EXCEPT ![o] = item] /\ inbox' = [inbox EXCEPT ![o] = Tail(inbox[o])]
            /\ UNCHANGED <<readers, subscriptions>>
       ELSE Forget(o)
    /\ UNCHANGED <<sequence, publisher>>

\* The client goes away: aclose.
Leave(o) == o \in readers /\ Forget(o) /\ UNCHANGED <<sequence, publisher>>

FeedWork == \E o \in Observers : Read(o)

FeedNext ==
    \/ FeedWork
    \/ Publish \/ DisconnectSubscribers
    \/ \E o \in Observers : Subscribe(o) \/ Leave(o)

FeedSpec == FeedInit /\ [][FeedNext]_feedVars
FeedFairness == WF_feedVars(FeedWork)

-----------------------------------------------------------------------------

\* What a subscriber has seen and what waits for it is everything that was published,
\* in order and without a gap.
NothingIsMissed ==
    \A o \in subscriptions : /\ seen[o] + Len(inbox[o]) = sequence
                             /\ \A i \in DOMAIN inbox[o] : inbox[o][i] = seen[o] + i

\* One that is no subscriber any more reads nothing but that it is over.
OthersAreTold == \A o \in readers \ subscriptions : inbox[o] \in {<<Ended>>, <<Overflow>>}

FeedSafety == FeedTypeOK /\ NothingIsMissed /\ OthersAreTold

\* Every observer that is left reads what was published.
ObserversAreFed == \A o \in readers : inbox[o] = <<>>

=============================================================================
