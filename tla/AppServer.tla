------------------------------- MODULE AppServer -------------------------------
(***************************************************************************)
(* One Codex process and the tasks around it: CodexAppServer               *)
(* (runtime/codex_app_server.py).  The reader answers the calls that wait  *)
(* and queues events, the dispatcher hands them to the session one by one, *)
(* the process is reaped once whoever asks for it, and close waits for all *)
(* of them.                                                                *)
(***************************************************************************)
EXTENDS Integers, Sequences

CONSTANTS
    Calls,          \* requests to the process; Lookup is the dispatcher's own
    Requests,       \* what the process asks
    MaxEvents       \* bound: events queued

Lookup == 0

ASSUME AppAssumption == MaxEvents \in Nat /\ Lookup \notin Calls

VARIABLES
    codex,          \* running, exited
    alive,          \* _alive
    call,           \* each call: none, waiting, answered, failed, timedOut
    pending,        \* the calls in _pending
    asked,          \* _requests
    answers,        \* how often each request was given its answer
    queue,          \* events to be dispatched; "closed" is the last
    queued,         \* how many were queued
    reader,         \* reading, reaping, over
    dispatcher,     \* idle, sink, lookup, reaping, over
    reaping,        \* none, waiting, over
    closing         \* none, reap, reader, dispatcher, over

appVars == <<codex, alive, call, pending, asked, answers, queue, queued, reader, dispatcher,
             reaping, closing>>

AllCalls == Calls \cup {Lookup}

AppTypeOK ==
    /\ codex \in {"running", "exited"} /\ alive \in BOOLEAN
    /\ call \in [AllCalls -> {"none", "waiting", "answered", "failed", "timedOut"}]
    /\ pending \subseteq AllCalls /\ asked \subseteq Requests
    /\ answers \in [Requests -> 0..2]
    /\ queue \in Seq({"prompt", "resolved", "other", "closed"})
    /\ queued \in 0..MaxEvents /\ Len(queue) <= queued + 1
    /\ reader \in {"reading", "reaping", "over"}
    /\ dispatcher \in {"idle", "sink", "lookup", "reaping", "over"}
    /\ reaping \in {"none", "waiting", "over"}
    /\ closing \in {"none", "reap", "reader", "dispatcher", "over"}

AppInit ==
    /\ codex = "running" /\ alive = TRUE
    /\ call = [c \in AllCalls |-> "none"] /\ pending = {}
    /\ asked = {} /\ answers = [r \in Requests |-> 0]
    /\ queue = <<>> /\ queued = 0
    /\ reader = "reading" /\ dispatcher = "idle" /\ reaping = "none" /\ closing = "none"

-----------------------------------------------------------------------------
(* Calls. *)

Issue(c) ==
    IF alive THEN call' = [call EXCEPT ![c] = "waiting"] /\ pending' = pending \cup {c}
    ELSE call' = [call EXCEPT ![c] = "failed"] /\ UNCHANGED pending

Rpc(c) ==
    /\ call[c] = "none" /\ Issue(c)
    /\ UNCHANGED <<codex, alive, asked, answers, queue, queued, reader, dispatcher, reaping, closing>>

\* 30 seconds without an answer; the entry stays, for an answer that comes late.
RpcTimesOut(c) ==
    /\ call[c] = "waiting" /\ call' = [call EXCEPT ![c] = "timedOut"]
    /\ UNCHANGED <<codex, alive, pending, asked, answers, queue, queued, reader, dispatcher, reaping,
                   closing>>

\* The answer to a call is read; one that is not waited for is dropped.
PacketAnswers(c) ==
    /\ reader = "reading" /\ c \in pending
    /\ pending' = pending \ {c}
    /\ call' = IF call[c] = "waiting" THEN [call EXCEPT ![c] = "answered"] ELSE call
    /\ UNCHANGED <<codex, alive, asked, answers, queue, queued, reader, dispatcher, reaping, closing>>

-----------------------------------------------------------------------------
(* What the process asks and tells. *)

Queues(e) == queued < MaxEvents /\ queue' = Append(queue, e) /\ queued' = queued + 1

PacketAsks(r) ==
    /\ reader = "reading" /\ r \notin asked /\ answers[r] = 0
    /\ asked' = asked \cup {r} /\ Queues("prompt")
    /\ UNCHANGED <<codex, alive, call, pending, answers, reader, dispatcher, reaping, closing>>

\* A request is resolved, or the turn that asked it has ended.
PacketSettles(r) ==
    /\ reader = "reading" /\ r \in asked
    /\ asked' = asked \ {r} /\ Queues("resolved")
    /\ UNCHANGED <<codex, alive, call, pending, answers, reader, dispatcher, reaping, closing>>

\* A review or notice of a conversation that may be a subagent's.
PacketTells ==
    /\ reader = "reading" /\ call[Lookup] = "none" /\ Queues("other")
    /\ UNCHANGED <<codex, alive, call, pending, asked, answers, reader, dispatcher, reaping, closing>>

\* respond, under the writer's lock, forgets the request; one that is gone is a conflict.
Respond(r) ==
    /\ alive /\ r \in asked
    /\ answers' = [answers EXCEPT ![r] = @ + 1] /\ asked' = asked \ {r}
    /\ UNCHANGED <<codex, alive, call, pending, queue, queued, reader, dispatcher, reaping, closing>>

-----------------------------------------------------------------------------
(* The end of the process. *)

Exit ==
    /\ codex = "running" /\ codex' = "exited"
    /\ UNCHANGED <<alive, call, pending, asked, answers, queue, queued, reader, dispatcher, reaping,
                   closing>>

StartReaping == reaping' = IF reaping = "none" THEN "waiting" ELSE reaping

\* Every call that waits fails with the connection.
Failed == [c \in AllCalls |-> IF c \in pending /\ call[c] = "waiting" THEN "failed" ELSE call[c]]

\* The reader sees the end of the output, or a frame it cannot read from a process
\* that may still be at work.
ReaderEnds ==
    /\ reader = "reading" /\ reader' = "reaping"
    /\ alive' = FALSE /\ call' = Failed /\ pending' = {} /\ asked' = {}
    /\ StartReaping
    /\ UNCHANGED <<codex, answers, queue, queued, dispatcher, closing>>

\* Mutant: the session is told as soon as the pipe has failed.
ReapedAnyway == TRUE

Reaped == reaping = "over"

\* Only a process that is gone is reported as closed.
ReaderIsOver ==
    /\ reader = "reaping" /\ Reaped
    /\ reader' = "over" /\ queue' = Append(queue, "closed")
    /\ UNCHANGED <<codex, alive, call, pending, asked, answers, queued, dispatcher, reaping, closing>>

\* _reap closes stdin, waits 5 seconds and kills what has not ended by then.
Reap ==
    /\ reaping = "waiting"
    /\ codex' = "exited" /\ alive' = FALSE /\ reaping' = "over"
    /\ UNCHANGED <<call, pending, asked, answers, queue, queued, reader, dispatcher, closing>>

Close ==
    /\ closing = "none" /\ closing' = "reap" /\ StartReaping
    /\ UNCHANGED <<codex, alive, call, pending, asked, answers, queue, queued, reader, dispatcher>>

CloseGoesOn ==
    /\ \/ closing = "reap" /\ reaping = "over" /\ closing' = "reader"
       \/ closing = "reader" /\ reader = "over" /\ closing' = "dispatcher"
       \/ closing = "dispatcher" /\ dispatcher = "over" /\ closing' = "over"
    /\ UNCHANGED <<codex, alive, call, pending, asked, answers, queue, queued, reader, dispatcher,
                   reaping>>

-----------------------------------------------------------------------------
(* The dispatcher. *)

Dispatches(stage) == dispatcher' = stage
DispatcherOnly == UNCHANGED <<codex, alive, asked, answers, queued, reader, closing>>

\* An event goes to the session; for some the process is asked first whose they are.
TakeEvent ==
    /\ dispatcher = "idle" /\ queue # <<>> /\ queue' = Tail(queue)
    /\ IF Head(queue) = "other" /\ call[Lookup] = "none"
       THEN Issue(Lookup) /\ Dispatches("lookup")
       ELSE Dispatches(IF Head(queue) = "closed" THEN "over" ELSE "sink") /\ UNCHANGED <<call, pending>>
    /\ DispatcherOnly /\ UNCHANGED reaping

\* The owner of the event is known, or it is not found out.
LookedUp ==
    /\ dispatcher = "lookup" /\ call[Lookup] # "waiting"
    /\ Dispatches("sink")
    /\ DispatcherOnly /\ UNCHANGED <<call, pending, queue, reaping>>

SinkReturns ==
    /\ dispatcher = "sink" /\ Dispatches("idle")
    /\ DispatcherOnly /\ UNCHANGED <<call, pending, queue, reaping>>

\* close called from within the sink does not wait for the dispatcher, which it is.
CloseInside ==
    /\ dispatcher = "sink" /\ reaping # "over" /\ Dispatches("reaping") /\ StartReaping
    /\ DispatcherOnly /\ UNCHANGED <<call, pending, queue>>

\* Mutant: the sink waits for the dispatcher as anybody else.
ClosedInsideOfItself ==
    /\ dispatcher = "reaping" /\ dispatcher = "over" /\ Dispatches("sink")
    /\ DispatcherOnly /\ UNCHANGED <<call, pending, queue, reaping>>

ClosedInside ==
    /\ dispatcher = "reaping" /\ reaping = "over" /\ Dispatches("sink")
    /\ DispatcherOnly /\ UNCHANGED <<call, pending, queue, reaping>>

-----------------------------------------------------------------------------

AppWork ==
    \/ \E c \in AllCalls : RpcTimesOut(c)
    \/ codex = "exited" /\ ReaderEnds
    \/ ReaderIsOver \/ Reap \/ CloseGoesOn
    \/ TakeEvent \/ LookedUp \/ SinkReturns \/ ClosedInside

AppNext ==
    \/ AppWork
    \/ \E c \in Calls : Rpc(c)
    \/ \E c \in AllCalls : PacketAnswers(c)
    \/ \E r \in Requests : PacketAsks(r) \/ PacketSettles(r) \/ Respond(r)
    \/ PacketTells \/ Exit \/ ReaderEnds \/ Close \/ CloseInside

AppSpec == AppInit /\ [][AppNext]_appVars
AppFairness == WF_appVars(AppWork)

-----------------------------------------------------------------------------

\* A call that waits will be answered or told of the end: the reader is at work.
NoCallIsLost == \A c \in AllCalls : call[c] = "waiting" => c \in pending /\ reader = "reading"

\* A request is answered at most once.
AnsweredOnce == \A r \in Requests : answers[r] <= 1 /\ (r \in asked => answers[r] = 0)

\* The session learns of the end after everything else, and when the process is gone.
ClosedIsLast ==
    /\ reader = "over" <=> dispatcher = "over" \/ \E i \in DOMAIN queue : queue[i] = "closed"
    /\ \A i \in DOMAIN queue : queue[i] = "closed" => i = Len(queue) /\ codex = "exited"
    /\ dispatcher = "over" => queue = <<>> /\ codex = "exited"

\* When close returns nothing is left: no process, no task, no call and no request.
CloseIsThorough ==
    closing = "over" => /\ codex = "exited" /\ ~alive /\ reader = "over" /\ dispatcher = "over"
                        /\ pending = {} /\ asked = {}

AppSafety == AppTypeOK /\ NoCallIsLost /\ AnsweredOnce /\ ClosedIsLast /\ CloseIsThorough

\* Nobody waits for the process, its reader or its dispatcher for ever.
AppAtRest ==
    /\ \A c \in AllCalls : call[c] # "waiting"
    /\ closing \in {"none", "over"} /\ reader # "reaping"
    /\ dispatcher \in {"idle", "over"} /\ queue = <<>>

=============================================================================
