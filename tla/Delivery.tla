------------------------------ MODULE Delivery --------------------------------
(***************************************************************************)
(* Outbound messages of one messaging platform: PlatformOutbox             *)
(* (messaging/platforms/outbox.py) over MessagingRateLimiter               *)
(* (messaging/limiter.py), closed by the platform (platforms/telegram.py). *)
(* A call is one send, edit or delete; calls are numbered in the order in  *)
(* which they were made, so that a call's number is also the version of    *)
(* the text it writes.  Calls with one deduplication key (the edits of one *)
(* message) are compacted in the queue.  One worker performs the queue's   *)
(* operations one after the other.  A step runs from one await to the next.*)
(*                                                                         *)
(* Waiting for the rate limit and for a flood pause are one stage: both    *)
(* only delay the operation the worker has taken.                          *)
(***************************************************************************)
EXTENDS Integers, Sequences, FiniteSets, SequencesExt

CONSTANTS
    Keys,           \* deduplication keys
    MaxRetries,     \* max_retries of fire_and_forget, which is 2
    MaxCalls        \* bound: calls made

ASSUME DeliveryAssumption == MaxRetries \in Nat /\ MaxCalls \in Nat

Calls == 1..MaxCalls

\* Who waits for a call's result: a task of the limiter that retries, a task
\* the outbox owns, or the caller itself.
Kinds == {"forget", "owned", "caller"}

VARIABLES
    key,            \* the deduplication key of each call
    kind,           \* who waits for it
    retries,        \* the retries made
    callAt,         \* where each call is
    queue,          \* _queue_list
    func,           \* _queue_map: the call whose operation is queued for each key,
    futures,        \*   and the calls that wait for it
    activeFunc,     \* the operation the worker has taken,
    activeFutures,  \* and the calls that wait for it
    workerTask,     \* the worker's task
    shutting,       \* how far the platform's close has come
    shown           \* the text the platform shows for each key

calls == <<key, kind, retries>>
queued == <<queue, func, futures>>
active == <<activeFunc, activeFutures>>
deliveryVars == <<calls, callAt, queued, active, workerTask, shutting, shown>>

Unfinished == {"created", "waiting", "backoff"}

DeliveryTypeOK ==
    /\ key \in [Calls -> Keys \cup {"none"}] /\ kind \in [Calls -> Kinds]
    /\ retries \in [Calls -> 0..MaxRetries]
    /\ callAt \in [Calls -> Unfinished \cup {"unused", "delivered", "failed", "cancelled"}]
    /\ queue \in Seq(Keys) /\ IsInjective(queue)
    /\ func \in [Keys -> 0..MaxCalls] /\ futures \in [Keys -> SUBSET Calls]
    /\ \A k \in Keys : IF k \in ToSet(queue) THEN func[k] # 0 ELSE func[k] = 0 /\ futures[k] = {}
    /\ activeFunc \in 0..MaxCalls /\ activeFutures \subseteq Calls
    /\ workerTask \in {"idle", "taken", "calling", "stopped"}
    /\ workerTask \in {"taken", "calling"} <=> activeFunc # 0
    /\ shutting \in {"open", "outbox", "worker", "tasks", "closed"}
    /\ shown \in [Keys -> 0..MaxCalls]

DeliveryInit ==
    /\ key = [c \in Calls |-> "none"] /\ kind = [c \in Calls |-> "caller"]
    /\ retries = [c \in Calls |-> 0]
    /\ callAt = [c \in Calls |-> "unused"]
    /\ queue = <<>>
    /\ func = [k \in Keys |-> 0] /\ futures = [k \in Keys |-> {}]
    /\ activeFunc = 0 /\ activeFutures = {}
    /\ workerTask = "idle"
    /\ shutting = "open"
    /\ shown = [k \in Keys |-> 0]

Waiting(S) == {c \in S : callAt[c] = "waiting"}
Moved(S, stage) == [c \in Calls |-> IF c \in S THEN stage ELSE callAt[c]]

LimiterIsOpen == shutting \in {"open", "outbox"}

-----------------------------------------------------------------------------
(* Calls. *)

\* Mutant: compaction forgets the calls that already wait.
CompactedAlone(c, k) == {c}

\* The calls that waited for the queued operation wait for this one.
Compacted(c, k) == futures[k] \cup {c}

\* Mutant: compaction keeps the older operation.
OldestFunc(c, k) == IF func[k] = 0 THEN c ELSE func[k]

\* The operation enqueued last replaces the queued one.
NewestFunc(c, k) == c

\* _enqueue_internal_multi.
EnqueueUnder(c, k) ==
    /\ callAt' = [callAt EXCEPT ![c] = "waiting"]
    /\ func' = [func EXCEPT ![k] = NewestFunc(c, k)]
    /\ futures' = [futures EXCEPT ![k] = Compacted(c, k)]
    /\ queue' = IF func[k] = 0 THEN Append(queue, k) ELSE queue

\* A call the outbox takes, until it is closed.  One that retries is a task that
\* has not run yet; the others enqueue without an await in between.
Call(k, who) ==
    LET c == Cardinality({d \in Calls : callAt[d] # "unused"}) + 1 IN
    /\ shutting = "open" /\ c \in Calls
    /\ key' = [key EXCEPT ![c] = k] /\ kind' = [kind EXCEPT ![c] = who]
    /\ IF who = "forget"
       THEN callAt' = [callAt EXCEPT ![c] = "created"] /\ UNCHANGED queued
       ELSE EnqueueUnder(c, k)
    /\ UNCHANGED <<retries, active, workerTask, shutting, shown>>

\* Tasks start in the order of their creation; a delay may end at any time.
Ready(c) ==
    \/ callAt[c] = "backoff"
    \/ callAt[c] = "created" /\ \A d \in 1..(c - 1) : callAt[d] # "created"

\* enqueue, by a task that starts or whose delay is over.
Enqueue(c) ==
    /\ Ready(c)
    /\ IF LimiterIsOpen
       THEN EnqueueUnder(c, key[c])
       ELSE callAt' = [callAt EXCEPT ![c] = "failed"] /\ UNCHANGED queued
    /\ UNCHANGED <<calls, active, workerTask, shutting, shown>>

\* A caller that awaits is cancelled: its future is, the operation is not.
CancelCaller(c) ==
    /\ callAt[c] = "waiting" /\ kind[c] = "caller"
    /\ callAt' = [callAt EXCEPT ![c] = "cancelled"]
    /\ UNCHANGED <<calls, queued, active, workerTask, shutting, shown>>

-----------------------------------------------------------------------------
(* The worker. *)

Take ==
    /\ workerTask = "idle" /\ LimiterIsOpen /\ queue # <<>>
    /\ activeFunc' = func[Head(queue)] /\ activeFutures' = futures[Head(queue)]
    /\ func' = [func EXCEPT ![Head(queue)] = 0] /\ futures' = [futures EXCEPT ![Head(queue)] = {}]
    /\ queue' = Tail(queue)
    /\ workerTask' = "taken"
    /\ UNCHANGED <<calls, callAt, shutting, shown>>

\* The pause is over and the rate limit has a place: await func().
StartCall ==
    /\ workerTask = "taken" /\ LimiterIsOpen
    /\ workerTask' = "calling"
    /\ UNCHANGED <<calls, callAt, queued, active, shutting, shown>>

\* The loop's next round, or its end.
Round == workerTask' = IF LimiterIsOpen THEN "idle" ELSE "stopped"

\* The worker has nothing at hand.
Released == activeFunc' = 0 /\ activeFutures' = {}

Shows == [shown EXCEPT ![key[activeFunc]] = activeFunc]

Deliver ==
    /\ workerTask = "calling"
    /\ shown' = Shows
    /\ callAt' = Moved(Waiting(activeFutures), "delivered")
    /\ Released
    /\ Round
    /\ UNCHANGED <<calls, queued, shutting>>

\* The operation raised; a timeout may have reached the platform all the same.
\* Only the limiter's own tasks retry, and only a transient error.
Fail(transient) ==
    LET hit == Waiting(activeFutures)
        again == {c \in hit : transient /\ kind[c] = "forget" /\ retries[c] < MaxRetries}
    IN
    /\ workerTask = "calling"
    /\ shown' \in IF transient THEN {shown, Shows} ELSE {shown}
    /\ callAt' = [c \in Calls |-> IF c \in again THEN "backoff"
                              ELSE IF c \in hit THEN "failed" ELSE callAt[c]]
    /\ retries' = [c \in Calls |-> IF c \in again THEN retries[c] + 1 ELSE retries[c]]
    /\ Released
    /\ Round
    /\ UNCHANGED <<key, kind, queued, shutting>>

\* The operation raised CancelledError of its own, or because the worker was
\* cancelled: its callers are cancelled and the worker goes on unless it stops.
Cancelled ==
    /\ workerTask = "calling"
    /\ callAt' = Moved(Waiting(activeFutures), "cancelled")
    /\ Released
    /\ Round
    /\ UNCHANGED <<calls, queued, shutting, shown>>

\* The worker is cancelled while it waits for work, a pause or the rate limit.
StopWorker ==
    /\ shutting = "worker" /\ workerTask \in {"idle", "taken"}
    /\ callAt' = Moved(Waiting(activeFutures), "cancelled")
    /\ Released
    /\ workerTask' = "stopped"
    /\ UNCHANGED <<calls, queued, shutting, shown>>

-----------------------------------------------------------------------------
(* The platform's close: outbound.close(), then the limiter's shutdown(). *)

\* The outbox is closed and cancels the tasks it owns.
CloseOutbox ==
    /\ shutting = "open"
    /\ shutting' = "outbox"
    /\ callAt' = Moved({c \in Calls : callAt[c] \in Unfinished /\ kind[c] = "owned"}, "cancelled")
    /\ UNCHANGED <<calls, queued, active, workerTask, shown>>

\* shutdown cancels every queued and active future and empties the queue,
\* then cancels the worker and waits for it.
Shutdown ==
    LET waits == (UNION {futures[k] : k \in Keys}) \cup activeFutures IN
    /\ shutting = "outbox"
    /\ shutting' = "worker"
    /\ callAt' = Moved(Waiting(waits), "cancelled")
    /\ queue' = <<>>
    /\ func' = [k \in Keys |-> 0] /\ futures' = [k \in Keys |-> {}]
    /\ UNCHANGED <<calls, active, workerTask, shown>>

\* It cancels and awaits the tasks that are about to enqueue or to retry.
CancelTasks ==
    /\ shutting = "worker" /\ workerTask = "stopped"
    /\ shutting' = "tasks"
    /\ callAt' = Moved({c \in Calls : callAt[c] \in Unfinished /\ kind[c] = "forget"}, "cancelled")
    /\ UNCHANGED <<calls, queued, active, workerTask, shown>>

EndShutdown ==
    /\ shutting = "tasks"
    /\ shutting' = "closed"
    /\ UNCHANGED <<calls, callAt, queued, active, workerTask, shown>>

-----------------------------------------------------------------------------
\* What the loop and the platform do of themselves; callers and cancellations come
\* from outside.
DeliveryWork ==
    \/ \E c \in Calls : Enqueue(c)
    \/ Take \/ StartCall \/ Deliver \/ StopWorker
    \/ \E transient \in BOOLEAN : Fail(transient)
    \/ Shutdown \/ CancelTasks \/ EndShutdown

DeliveryNext ==
    \/ DeliveryWork
    \/ \E k \in Keys, who \in Kinds : Call(k, who)
    \/ \E c \in Calls : CancelCaller(c)
    \/ Cancelled
    \/ CloseOutbox

DeliverySpec == DeliveryInit /\ [][DeliveryNext]_deliveryVars

\* Tasks that can run are run, delays end, and platform calls return.  The calls are
\* bounded, so fairness of the whole is fairness of each part.
DeliveryFairness == WF_deliveryVars(DeliveryWork)

-----------------------------------------------------------------------------
(* Properties. *)

\* A call that waits is waiting for an operation that is queued or with the
\* worker, and that worker lives: compaction, failures and the shutdown strand
\* no caller.
NoCallerStranded ==
    \A c \in Calls : callAt[c] = "waiting" =>
        workerTask # "stopped" /\ (c \in activeFutures \/ c \in futures[key[c]])

\* When the platform's close has returned, the worker has stopped and no task is
\* left that could still call the platform.
QuietWhenClosed ==
    shutting = "closed" => workerTask = "stopped" /\ \A c \in Calls : callAt[c] \notin Unfinished

\* The invariant of delivery.
DeliverySafety == DeliveryTypeOK /\ NoCallerStranded /\ QuietWhenClosed

\* A call is reported delivered by its own operation, by one enqueued for a newer
\* call, or, of the older ones, only by a retry, or by a task that started after a
\* caller that did not have to wait for one: calls made the same way overtake each
\* other nowhere but in a retry.
OnlyTasksOvertake ==
    [][\A c \in Calls : callAt[c] = "waiting" /\ callAt'[c] = "delivered" =>
          \/ activeFunc >= c
          \/ kind[activeFunc] = "forget" /\ (retries[activeFunc] > 0 \/ kind[c] # "forget")]_deliveryVars

\* Every call ends, delivered, failed, or cancelled with its platform: for ever
\* again there is a moment in which nobody waits.
NobodyWaits == \A c \in Calls : callAt[c] \notin Unfinished

\* What the docstring of MessagingRateLimiter promises, of calls made the same way:
\* of the updates of one message that the queue compacts, the latest is processed,
\* so that no caller is told of a delivery that left its newer text out.
LatestIsProcessed ==
    [][\A c \in Calls :
          callAt[c] = "waiting" /\ callAt'[c] = "delivered" /\ kind[activeFunc] = kind[c] => activeFunc >= c]_deliveryVars
=============================================================================
