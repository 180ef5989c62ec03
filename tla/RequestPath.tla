----------------------------- MODULE RequestPath ------------------------------
(***************************************************************************)
(* One streamed request from the client to its providers:                  *)
(* ClientRequestLifetimeMiddleware (api/request_lifetime.py), the route's  *)
(* lease and managed response (api/routes.py, api/response_streams.py),    *)
(* the executor that reads the candidates of the route one after the other *)
(* (application/execution.py) and the UsageObserver around each candidate  *)
(* (application/usage/observer.py).  The middleware runs the application   *)
(* in a task of its own; the client may disconnect and the server may      *)
(* cancel the middleware at any await.                                     *)
(***************************************************************************)
EXTENDS Integers, FiniteSets

CONSTANTS
    Candidates,     \* number of models of the route: the primary and its fallbacks
    MaxCuts         \* bound: cancellations of the middleware by the server

ASSUME RequestAssumption == Candidates \in Nat \ {0} /\ MaxCuts \in Nat

VARIABLES
    app,        \* what the application task awaits
    middleware, \* what the middleware awaits
    cuts,       \* cancellations by the server so far
    lease,      \* the lease on the provider generation
    releases,   \* calls of lease.release
    candidate,  \* index of the candidate in use
    stream,     \* the provider stream of each candidate
    read,       \* how reading each candidate ended
    observer,   \* the observer of each candidate
    outcome,   \* the outcome each observer recorded
    served,     \* candidates a chunk of which was given to the client
    late,       \* the progress deadline has passed
    started,    \* the response has started: its first chunk was prefetched
    terminal    \* a terminal error frame stands for an error after the start

requestVars == <<app, middleware, cuts, lease, releases, candidate, stream, read,
                 observer, outcome, served, late, started, terminal>>

Routes == 1..Candidates
EndsOfReading == {"done", "failure", "raised", "timeout", "cancelled"}

RequestTypeOK ==
    /\ app \in {"unused", "startup", "opening", "reading", "closing", "sending",
                "closingBody", "releasing", "ended"}
    /\ middleware \in {"waiting", "cancelling", "cleaning", "ended"} /\ cuts \in 0..MaxCuts
    /\ lease \in {"none", "held", "released"} /\ releases \in 0..2
    /\ candidate \in Routes
    /\ stream \in [Routes -> {"none", "open", "closed"}]
    /\ read \in [Routes -> EndsOfReading \cup {"no"}]
    /\ observer \in [Routes -> {"none", "made", "reading", "atYield", "over"}]
    /\ outcome \in [Routes -> {"no", "success", "failure"}]
    /\ \A c \in Routes : outcome[c] # "no" => observer[c] = "over"
    /\ served \subseteq Routes /\ late \in BOOLEAN /\ started \in BOOLEAN
    /\ terminal \in BOOLEAN

RequestInit ==
    /\ app = "unused" /\ middleware = "waiting" /\ cuts = 0
    /\ lease = "none" /\ releases = 0
    /\ candidate = 1
    /\ stream = [c \in Routes |-> "none"]
    /\ read = [c \in Routes |-> "no"]
    /\ observer = [c \in Routes |-> "none"]
    /\ outcome = [c \in Routes |-> "no"]
    /\ served = {} /\ late = FALSE /\ started = FALSE /\ terminal = FALSE

response == <<middleware, cuts, lease, releases>>

-----------------------------------------------------------------------------
(* The route and the executor, in the application task. *)

\* The route acquires a lease and waits for the token estimation to be ready.
Arrive ==
    /\ app = "unused"
    /\ app' = "startup" /\ lease' = "held"
    /\ UNCHANGED <<middleware, cuts, releases, candidate, stream, read, observer, outcome,
                   served, late, started, terminal>>

\* The wait ends, or raises because startup failed or takes too long.
EndStartup ==
    /\ app = "startup"
    /\ app' \in {"opening", "releasing"}
    /\ UNCHANGED <<response, candidate, stream, read, observer, outcome, served, late,
                   started, terminal>>

ReadEnds(c, how) == read' = [read EXCEPT ![c] = how]

\* How the executor goes on when a candidate's stream is closed or did not open:
\* the first chunk's caller answers with an error or an empty stream's error, a
\* started response gets a terminal frame for an error, and is cleaned up.
EndBody(how) ==
    /\ app' = IF ~started THEN "releasing"
              ELSE IF how \in {"done", "cancelled"} THEN "closingBody" ELSE "sending"
    /\ terminal' = (started /\ how \notin {"done", "cancelled"})

\* Mutant: a candidate that was already heard falls back as well.
MayFallBackAnyway(c) == c < Candidates

MayFallBack(c) == c \notin served /\ c < Candidates

\* The fallback decision.
Decide(c, how) ==
    IF how = "failure" /\ MayFallBack(c)
    THEN app' = "opening" /\ candidate' = c + 1 /\ UNCHANGED terminal
    ELSE EndBody(how) /\ UNCHANGED candidate

\* open_candidate returns a stream, or raises an ExecutionFailure or something
\* else.  Its time does not count against the deadline.
OpenStream(how) ==
    LET c == candidate IN
    /\ app = "opening"
    /\ IF how = "open"
       THEN /\ stream' = [stream EXCEPT ![c] = "open"]
            /\ observer' = [observer EXCEPT ![c] = "made"]
            /\ app' = "reading" /\ UNCHANGED <<read, candidate, terminal>>
       ELSE ReadEnds(c, how) /\ Decide(c, how) /\ UNCHANGED <<stream, observer>>
    /\ UNCHANGED <<response, outcome, served, late, started>>

\* The observer ends with the stream it reads.  Only an Exception is a failure:
\* neither a cancellation nor the cancellation that a timeout is.
Observed(c, how) ==
    /\ observer' = [observer EXCEPT ![c] = "over"]
    /\ outcome' = [outcome EXCEPT ![c] =
                       IF how \in {"failure", "raised"} THEN "failure" ELSE "success"]

\* A chunk: the first one of all commits the candidate and starts the response.
Chunk ==
    LET c == candidate IN
    /\ app = "reading" /\ ~late
    /\ observer' = [observer EXCEPT ![c] = "atYield"]
    /\ served' = served \cup {c} /\ started' = TRUE
    /\ app' = "sending"
    /\ UNCHANGED <<response, candidate, stream, read, outcome, late, terminal>>

\* The candidate is waited for, or has sent an empty chunk, while time passes.
Wait ==
    /\ app = "reading" /\ ~late
    /\ observer' = [observer EXCEPT ![candidate] = "reading"]
    /\ late' \in BOOLEAN
    /\ UNCHANGED <<response, app, candidate, stream, read, outcome, served, started, terminal>>

\* The stream ends, raises an ExecutionFailure, or raises something else.
StreamEnds(how) ==
    /\ app = "reading" /\ ~late
    /\ ReadEnds(candidate, how) /\ Observed(candidate, how)
    /\ app' = "closing"
    /\ UNCHANGED <<response, candidate, stream, served, late, started, terminal>>

\* The deadline has passed: at the loop's top, or while the stream is awaited, in
\* which case whatever it answered at last does not count.
TimeOut ==
    /\ app = "reading" /\ late
    /\ ReadEnds(candidate, "timeout") /\ Observed(candidate, "timeout")
    /\ app' = "closing"
    /\ UNCHANGED <<response, candidate, stream, served, late, started, terminal>>

ClosedStream(c) == [stream EXCEPT ![c] = "closed"]

\* close_stream_input returns; if no error is on its way, it may be too late.
CloseCandidate(slow) ==
    LET c == candidate
        how == IF slow THEN "timeout" ELSE read[c]
    IN
    /\ app = "closing"
    /\ slow => read[c] \in {"done", "failure"}
    /\ stream' = ClosedStream(c)
    /\ ReadEnds(c, how) /\ late' = (late \/ slow)
    /\ Decide(c, how)
    /\ UNCHANGED <<response, observer, outcome, served, started>>

\* send returns and the response asks for the next chunk: the deadline starts
\* anew.  After a terminal frame the response is over.
Sent ==
    /\ app = "sending"
    /\ IF terminal
       THEN app' = "closingBody" /\ UNCHANGED <<observer, late>>
       ELSE /\ app' = "reading" /\ late' = FALSE
            /\ observer' = [observer EXCEPT ![candidate] = "reading"]
    /\ UNCHANGED <<response, candidate, stream, read, outcome, served, started, terminal>>

\* The response's cleanup task closes the body: an executor that is suspended at
\* its yield closes its candidate, the observer stays suspended.
CloseBody ==
    LET c == candidate
        suspended == read[c] = "no" IN
    /\ app = "closingBody"
    /\ app' = "releasing"
    /\ stream' = IF suspended THEN [stream EXCEPT ![c] = "closed"] ELSE stream
    /\ read' = IF suspended THEN [read EXCEPT ![c] = "cancelled"] ELSE read
    /\ UNCHANGED <<response, candidate, observer, outcome, served, late, started, terminal>>

\* The lease is released, by the cleanup task or by the route that has no response.
Release ==
    /\ app = "releasing"
    /\ app' = "ended" /\ lease' = "released" /\ releases' = releases + 1
    /\ UNCHANGED <<middleware, cuts, candidate, stream, read, observer, outcome, served,
                   late, started, terminal>>

\* The event loop closes an observer that was left at its yield.
FinalizeObserver(c) ==
    /\ observer[c] = "atYield" /\ stream[c] = "closed"
    /\ Observed(c, "cancelled")
    /\ UNCHANGED <<response, app, candidate, stream, read, served, late, started, terminal>>

-----------------------------------------------------------------------------
(* The middleware. *)

\* Whatever the application task awaits raises CancelledError.  The executor
\* closes its candidate, a close that is cancelled is over, and the cleanup task
\* is not disturbed.
CancelApp ==
    LET c == candidate IN
    CASE app = "startup" ->
           app' = "releasing" /\ UNCHANGED <<stream, read, observer, outcome, terminal>>
      [] app = "opening" ->
           /\ ReadEnds(c, "cancelled") /\ EndBody("cancelled")
           /\ UNCHANGED <<stream, observer, outcome>>
      [] app = "reading" ->
           /\ ReadEnds(c, "cancelled") /\ Observed(c, "cancelled") /\ app' = "closing"
           /\ UNCHANGED <<stream, terminal>>
      [] app = "closing" ->
           /\ stream' = ClosedStream(c) /\ ReadEnds(c, "cancelled") /\ EndBody("cancelled")
           /\ UNCHANGED <<observer, outcome>>
      [] app = "sending" ->
           /\ app' = "closingBody"
           /\ UNCHANGED <<stream, read, observer, outcome, terminal>>
      [] OTHER -> UNCHANGED <<app, stream, read, observer, outcome, terminal>>

\* The receiver sees the disconnect: the application is cancelled and awaited.
Disconnect ==
    /\ middleware = "waiting" /\ app \notin {"unused", "ended"}
    /\ middleware' = "cancelling"
    /\ CancelApp
    /\ UNCHANGED <<cuts, lease, releases, candidate, served, late, started>>

\* The server cancels the middleware: a cleanup task cancels the application and
\* waits for it; further cancellations only wait again.
CutMiddleware ==
    /\ middleware # "ended" /\ app # "unused" /\ cuts < MaxCuts
    /\ cuts' = cuts + 1
    /\ middleware' = "cleaning"
    /\ IF middleware # "cleaning" /\ app # "ended" THEN CancelApp
       ELSE UNCHANGED <<app, stream, read, observer, outcome, terminal>>
    /\ UNCHANGED <<lease, releases, candidate, served, late, started>>

EndMiddleware ==
    /\ middleware # "ended" /\ app = "ended"
    /\ middleware' = "ended"
    /\ UNCHANGED <<app, cuts, lease, releases, candidate, stream, read, observer, outcome,
                   served, late, started, terminal>>

-----------------------------------------------------------------------------
RequestWork ==
    \/ EndStartup \/ \E how \in {"open", "failure", "raised"} : OpenStream(how)
    \/ Chunk \/ Wait \/ \E how \in {"done", "failure", "raised"} : StreamEnds(how)
    \/ TimeOut \/ (\E slow \in BOOLEAN : CloseCandidate(slow))
    \/ Sent \/ CloseBody \/ Release
    \/ \E c \in Routes : FinalizeObserver(c)
    \/ EndMiddleware

RequestNext == Arrive \/ RequestWork \/ Disconnect \/ CutMiddleware

RequestSpec == RequestInit /\ [][RequestNext]_requestVars

\* The loop runs every task, time passes, opening and closing a stream ends, and the
\* client takes chunks.  A provider need not answer, and may send chunks for ever.
RequestFairness == WF_requestVars(RequestWork)

-----------------------------------------------------------------------------
(* Properties. *)

\* A fallback is tried only when every candidate before it failed with nothing of
\* it heard by the client, and its stream was closed.
FallbackIsJustified ==
    \A c, d \in Routes : d < c /\ (stream[c] # "none" \/ read[c] # "no") =>
        read[d] = "failure" /\ d \notin served /\ stream[d] # "open"

\* A provider stream is open only while the request holds its lease: the
\* generation it belongs to cannot be closed under it.
LeaseOutlivesStreams ==
    \A c \in Routes : stream[c] = "open" => lease = "held"

\* A request that is over has released its lease once, and has closed what it
\* opened, however often it was cancelled.
EndedClean ==
    app = "ended" => releases = 1 /\ \A c \in Routes : stream[c] # "open"

\* The server's task does not end before the application task it started.
MiddlewareEndsLast == middleware = "ended" => app = "ended"

\* The safety of a request.
RequestSafety ==
    /\ RequestTypeOK /\ FallbackIsJustified /\ LeaseOutlivesStreams /\ EndedClean
    /\ MiddlewareEndsLast

\* GUIDE.md says that the outcome of a request is outcome: success, fallback,
\* failure, timeout.  So what timed out or was cancelled is not a success.
SuccessIsSuccess ==
    \A c \in Routes : outcome[c] = "success" => read[c] \in {"no", "done"}

\* Whatever the provider does, a request whose client is gone ends, and one that
\* reads a silent provider goes on.
NobodyHangs == app # "reading" /\ (middleware # "waiting" => app = "ended")
=============================================================================
