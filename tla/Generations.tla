------------------------------ MODULE Generations ------------------------------
(***************************************************************************)
(* Provider generations: ProviderRuntimeManager (runtime/                  *)
(* provider_manager.py) over ProviderRuntime (providers/runtime/           *)
(* runtime.py).  A generation is one set of settings with the client it    *)
(* creates lazily.  Requests lease the current generation, an applied      *)
(* configuration replaces it, and a replaced generation closes its client  *)
(* when its last lease is released.  Model discovery uses the client       *)
(* without a lease and is cancelled before the client is closed.           *)
(*                                                                         *)
(* A step is the code up to the next await that may suspend.  One provider *)
(* stands for all of them, they share no state.  A runtime that was never  *)
(* published has no client, so discarding it (_unpublished) changes        *)
(* nothing here; what the catalog pass makes of the discovered models is   *)
(* left out.                                                               *)
(***************************************************************************)
EXTENDS Integers, FiniteSets

CONSTANTS
    Requests,        \* API requests and provider checks
    MaxGenerations   \* bound: configurations of one process

ASSUME BoundsAssumption == MaxGenerations \in Nat \ {0} /\ IsFiniteSet(Requests)

Generations == 1..MaxGenerations

VARIABLES
    current,         \* generation_id of _current
    leases,          \* active_leases of each generation
    retired,         \* its retired flag
    closed,          \* its closed flag
    initialized,     \* whether the provider is in its set of that name
    discovery,       \* its catalog task of the provider
    cancelling,      \* whether that task has been cancelled and not ended yet
    client,          \* the provider client of its runtime
    cleanup,         \* its cleanup task
    runtimeClosing,  \* ProviderRuntime._closing
    failed,          \* history: a cleanup of it failed
    lock,            \* the operation that holds _replace_lock
    popped,          \* the discovery that connected_provider_changed cancelled
    refreshWaits,    \* refresh_model_list_cache waits for the lock
    closing,         \* _closing
    closer,          \* where close() is
    pc,              \* where a request is
    lease            \* the generation a request holds

generationVars == <<current, leases, retired, closed>>
workVars == <<initialized, discovery, cancelling>>
clientVars == <<client, cleanup, runtimeClosing, failed>>
managerVars == <<lock, popped, refreshWaits, closing, closer>>
requestVars == <<pc, lease>>
vars == <<generationVars, workVars, clientVars, managerVars, requestVars>>

\* A discovery awaits its first step, the shared creation of the client, or
\* the provider's list of models; it finishes with its models or a failure.
RunningStages == {"starting", "creating", "listing"}
Stages == {"none", "finished", "cancelled"} \cup RunningStages

CleanupStages ==
    {"none",
     "created",      \* the task exists
     "cancelling",   \* awaits the generation's catalog tasks
     "draining",     \* awaits the cancelled creation of the client
     "closing"}      \* awaits the client's cleanup

CloserPlaces == {"uncalled", "locking", "cancelling", "draining", "closing", "raised", "closed"}

RequestPlaces ==
    {"idle",
     "leased",       \* holds a lease and awaits nothing of the manager
     "waiting",      \* awaits the discovery
     "refreshing",   \* awaits a discovery that refresh_provider asked for
     "creating",     \* awaits the creation of the client
     "using"}        \* uses the client

TypeOK ==
    /\ current \in Generations
    /\ leases \in [Generations -> 0..Cardinality(Requests)]
    /\ retired \in [Generations -> BOOLEAN] /\ closed \in [Generations -> BOOLEAN]
    /\ initialized \in [Generations -> BOOLEAN]
    /\ discovery \in [Generations -> Stages]
    /\ cancelling \in [Generations -> BOOLEAN]
    /\ client \in [Generations -> {"absent", "creating", "open", "closed"}]
    /\ cleanup \in [Generations -> CleanupStages]
    /\ runtimeClosing \in [Generations -> BOOLEAN] /\ failed \in [Generations -> BOOLEAN]
    /\ lock \in {"free", "committing", "retiring", "connecting"}
    /\ popped \in {"none"} \cup RunningStages
    /\ refreshWaits \in BOOLEAN /\ closing \in BOOLEAN
    /\ closer \in CloserPlaces
    /\ pc \in [Requests -> RequestPlaces]
    /\ lease \in [Requests -> Generations]

Init ==
    /\ current = 1
    /\ leases = [g \in Generations |-> 0]
    /\ retired = [g \in Generations |-> FALSE]
    /\ closed = [g \in Generations |-> FALSE]
    /\ initialized = [g \in Generations |-> FALSE]
    /\ discovery = [g \in Generations |-> "none"]
    /\ cancelling = [g \in Generations |-> FALSE]
    /\ client = [g \in Generations |-> "absent"]
    /\ cleanup = [g \in Generations |-> "none"]
    /\ runtimeClosing = [g \in Generations |-> FALSE]
    /\ failed = [g \in Generations |-> FALSE]
    /\ lock = "free"
    /\ popped = "none"
    /\ refreshWaits = FALSE
    /\ closing = FALSE
    /\ closer = "uncalled"
    /\ pc = [r \in Requests |-> "idle"]
    /\ lease = [r \in Requests |-> 1]

-----------------------------------------------------------------------------
(* Helpers. *)

Running(g) == discovery[g] \in RunningStages

\* _catalog_task: an existing task is used, a finished one renewed on refresh.
WithTask(g, refresh) ==
    IF discovery[g] = "none" \/ (refresh /\ ~Running(g))
    THEN [discovery EXCEPT ![g] = "starting"] ELSE discovery

\* Cancelling the catalog tasks of some generations.
CancelWork(gs) == [g \in Generations |-> cancelling[g] \/ (g \in gs /\ Running(g))]

\* Mutant: closes under leases.
CloseGenerationsAnyway(gs, count) ==
    [g \in Generations |-> IF g \in gs /\ ~closed[g] /\ cleanup[g] = "none"
                           THEN "created" ELSE cleanup[g]]

\* _close_generation: at most one cleanup task, and none under a lease.
CloseGenerations(gs, count) ==
    [g \in Generations |->
        IF g \in gs /\ ~closed[g] /\ count[g] = 0 /\ cleanup[g] = "none"
        THEN "created" ELSE cleanup[g]]

-----------------------------------------------------------------------------
(* Requests. *)

\* acquire.
Acquire(r) ==
    /\ pc[r] = "idle" /\ ~closing
    /\ lease' = [lease EXCEPT ![r] = current]
    /\ leases' = [leases EXCEPT ![current] = @ + 1]
    /\ pc' = [pc EXCEPT ![r] = "leased"]
    /\ UNCHANGED <<current, retired, closed, workVars, clientVars, managerVars>>

\* refresh_provider takes a lease of its own.
RefreshProvider(r) ==
    /\ pc[r] = "idle" /\ ~closing
    /\ lease' = [lease EXCEPT ![r] = current]
    /\ leases' = [leases EXCEPT ![current] = @ + 1]
    /\ pc' = [pc EXCEPT ![r] = "refreshing"]
    /\ discovery' = WithTask(current, TRUE)
    /\ UNCHANGED <<current, retired, closed, initialized, cancelling, clientVars, managerVars>>

\* ProviderRuntime.resolve_provider: a closing runtime refuses, an absent
\* client is created by a task that all callers share.
ClientAfterResolve(g) ==
    IF ~runtimeClosing[g] /\ client[g] = "absent" THEN [client EXCEPT ![g] = "creating"] ELSE client

PlaceAfterResolve(g) ==
    IF runtimeClosing[g] THEN "leased" ELSE IF client[g] = "open" THEN "using" ELSE "creating"

\* The lease's resolve_provider: the first use waits for the discovery.
Resolve(r) ==
    /\ pc[r] = "leased" /\ ~closing
    /\ LET g == lease[r] IN
       IF initialized[g]
       THEN /\ pc' = [pc EXCEPT ![r] = PlaceAfterResolve(g)]
            /\ client' = ClientAfterResolve(g)
            /\ UNCHANGED discovery
       ELSE /\ pc' = [pc EXCEPT ![r] = "waiting"]
            /\ discovery' = WithTask(g, FALSE)
            /\ UNCHANGED client
    /\ UNCHANGED <<generationVars, initialized, cancelling, cleanup, runtimeClosing, failed,
                   managerVars, lease>>

\* The awaited discovery is over.
Discovered(r) ==
    /\ pc[r] = "waiting" /\ (initialized[lease[r]] \/ ~Running(lease[r]))
    /\ LET g == lease[r] IN
       IF discovery[g] = "cancelled" /\ ~initialized[g]
       THEN pc' = [pc EXCEPT ![r] = "leased"] /\ UNCHANGED client
       ELSE /\ pc' = [pc EXCEPT ![r] = PlaceAfterResolve(g)]
            /\ client' = ClientAfterResolve(g)
    /\ UNCHANGED <<generationVars, workVars, cleanup, runtimeClosing, failed, managerVars, lease>>

\* The awaited creation is over.
Created(r) ==
    /\ pc[r] = "creating" /\ client[lease[r]] = "open"
    /\ pc' = [pc EXCEPT ![r] = "using"]
    /\ UNCHANGED <<generationVars, workVars, clientVars, managerVars, lease>>

\* _release when the request is over, fails, times out or is cancelled, or
\* refresh_provider's discovery is over.
Release(r) ==
    /\ pc[r] # "idle"
    /\ LET g == lease[r]
           count == [leases EXCEPT ![g] = @ - 1]
       IN /\ leases' = count
          /\ cleanup' = IF retired[g] /\ ~closing THEN CloseGenerations({g}, count) ELSE cleanup
    /\ pc' = [pc EXCEPT ![r] = "idle"]
    /\ UNCHANGED <<current, retired, closed, workVars, client, runtimeClosing, failed,
                   managerVars, lease>>

-----------------------------------------------------------------------------
(* Discovery and the shared creation of the client. *)

\* _discover_provider up to its first suspension.
Discover(g) ==
    /\ discovery[g] = "starting" /\ ~cancelling[g]
    /\ IF runtimeClosing[g]
       THEN /\ discovery' = [discovery EXCEPT ![g] = "finished"]
            /\ initialized' = [initialized EXCEPT ![g] = TRUE]
       ELSE /\ discovery' = [discovery EXCEPT ![g] = IF client[g] = "open" THEN "listing"
                                                     ELSE "creating"]
            /\ UNCHANGED initialized
    /\ client' = ClientAfterResolve(g)
    /\ UNCHANGED <<generationVars, cancelling, cleanup, runtimeClosing, failed,
                   managerVars, requestVars>>

StartListing(g) ==
    /\ discovery[g] = "creating" /\ client[g] = "open" /\ ~cancelling[g]
    /\ discovery' = [discovery EXCEPT ![g] = "listing"]
    /\ UNCHANGED <<generationVars, initialized, cancelling, clientVars, managerVars, requestVars>>

FinishListing(g) ==
    /\ discovery[g] = "listing" /\ ~cancelling[g]
    /\ discovery' = [discovery EXCEPT ![g] = "finished"]
    /\ initialized' = [initialized EXCEPT ![g] = TRUE]
    /\ UNCHANGED <<generationVars, cancelling, clientVars, managerVars, requestVars>>

\* The cancellation has reached the end of the task.
Unwind(g) ==
    /\ Running(g) /\ cancelling[g]
    /\ discovery' = [discovery EXCEPT ![g] = "cancelled"]
    /\ cancelling' = [cancelling EXCEPT ![g] = FALSE]
    /\ UNCHANGED <<generationVars, initialized, clientVars, managerVars, requestVars>>

\* ProviderRuntime._construct, unless it has been cancelled.
Construct(g) ==
    /\ client[g] = "creating" /\ cleanup[g] # "draining"
    /\ client' = [client EXCEPT ![g] = "open"]
    /\ UNCHANGED <<generationVars, workVars, cleanup, runtimeClosing, failed,
                   managerVars, requestVars>>

\* It raises, and so does resolve_provider for everybody who awaits it.
FailConstruct(g) ==
    /\ client[g] = "creating" /\ cleanup[g] # "draining"
    /\ client' = [client EXCEPT ![g] = "absent"]
    /\ pc' = [r \in Requests |-> IF pc[r] = "creating" /\ lease[r] = g THEN "leased" ELSE pc[r]]
    /\ IF discovery[g] = "creating" /\ ~cancelling[g]
       THEN /\ discovery' = [discovery EXCEPT ![g] = "finished"]
            /\ initialized' = [initialized EXCEPT ![g] = TRUE]
       ELSE UNCHANGED <<discovery, initialized>>
    /\ UNCHANGED <<generationVars, cancelling, cleanup, runtimeClosing, failed, managerVars, lease>>

-----------------------------------------------------------------------------
(* The cleanup task of a generation. *)

\* _cancel_generation_work.
StartCleanup(g) ==
    /\ cleanup[g] = "created"
    /\ cancelling' = CancelWork({g})
    /\ cleanup' = [cleanup EXCEPT ![g] = "cancelling"]
    /\ UNCHANGED <<generationVars, initialized, discovery, client, runtimeClosing, failed,
                   managerVars, requestVars>>

\* The cancelled tasks have ended.
WorkEnded(g) == ~cancelling[g]

\* Mutant: creations are not awaited.
CleanWithoutCreations(g) ==
    /\ cleanup[g] = "cancelling" /\ WorkEnded(g)
    /\ runtimeClosing' = [runtimeClosing EXCEPT ![g] = TRUE]
    /\ IF client[g] # "open"
       THEN /\ cleanup' = [cleanup EXCEPT ![g] = "none"]
            /\ closed' = [closed EXCEPT ![g] = TRUE]
       ELSE /\ cleanup' = [cleanup EXCEPT ![g] = "closing"]
            /\ UNCHANGED closed
    /\ UNCHANGED <<current, leases, retired, workVars, client, failed, managerVars, requestVars>>

\* ProviderRuntime.cleanup: a creation is cancelled and awaited first.
CleanRuntime(g) ==
    /\ cleanup[g] = "cancelling" /\ WorkEnded(g)
    /\ runtimeClosing' = [runtimeClosing EXCEPT ![g] = TRUE]
    /\ IF client[g] = "absent"
       THEN /\ cleanup' = [cleanup EXCEPT ![g] = "none"]
            /\ closed' = [closed EXCEPT ![g] = TRUE]
       ELSE /\ cleanup' = [cleanup EXCEPT ![g] = IF client[g] = "creating" THEN "draining"
                                                 ELSE "closing"]
            /\ UNCHANGED closed
    /\ UNCHANGED <<current, leases, retired, workVars, client, failed, managerVars, requestVars>>

CreationCancelled(g) ==
    /\ cleanup[g] = "draining"
    /\ client' = [client EXCEPT ![g] = "absent"]
    /\ cleanup' = [cleanup EXCEPT ![g] = "none"]
    /\ closed' = [closed EXCEPT ![g] = TRUE]
    /\ UNCHANGED <<current, leases, retired, workVars, runtimeClosing, failed,
                   managerVars, requestVars>>

CloseClient(g) ==
    /\ cleanup[g] = "closing"
    /\ client' = [client EXCEPT ![g] = "closed"]
    /\ cleanup' = [cleanup EXCEPT ![g] = "none"]
    /\ closed' = [closed EXCEPT ![g] = TRUE]
    /\ UNCHANGED <<current, leases, retired, workVars, runtimeClosing, failed,
                   managerVars, requestVars>>

\* The client's cleanup raises; the generation stays in _retired.
FailClose(g) ==
    /\ cleanup[g] = "closing"
    /\ cleanup' = [cleanup EXCEPT ![g] = "none"]
    /\ failed' = [failed EXCEPT ![g] = TRUE]
    /\ UNCHANGED <<generationVars, workVars, client, runtimeClosing, managerVars, requestVars>>

-----------------------------------------------------------------------------
(* Operations under the replace lock. *)

\* replace: it holds the lock and awaits the commit and the publication lock.
BeginReplace ==
    /\ lock = "free" /\ ~closing /\ current < MaxGenerations
    /\ lock' = "committing"
    /\ UNCHANGED <<generationVars, workVars, clientVars, popped, refreshWaits, closing, closer,
                   requestVars>>

FailCommit ==
    /\ lock = "committing"
    /\ lock' = "free"
    /\ UNCHANGED <<generationVars, workVars, clientVars, popped, refreshWaits, closing, closer,
                   requestVars>>

\* Mutant: the previous generation is left to its leases, of which it may have none.
PublishUnclosed ==
    /\ lock = "committing"
    /\ current' = current + 1
    /\ retired' = [retired EXCEPT ![current] = TRUE]
    /\ discovery' \in {discovery, [discovery EXCEPT ![current + 1] = "starting"]}
    /\ lock' = "free"
    /\ UNCHANGED <<leases, closed, initialized, cancelling, clientVars, popped, refreshWaits,
                   closing, closer, requestVars>>

\* It publishes the candidate, which starts its catalog pass, and closes the
\* previous generation if nobody holds it; a shutdown meanwhile does not stop it.
Publish ==
    /\ lock = "committing"
    /\ current' = current + 1
    /\ retired' = [retired EXCEPT ![current] = TRUE]
    /\ discovery' \in {discovery, [discovery EXCEPT ![current + 1] = "starting"]}
    /\ cleanup' = CloseGenerations({current}, leases)
    /\ lock' = IF leases[current] = 0 THEN "retiring" ELSE "free"
    /\ UNCHANGED <<leases, closed, initialized, cancelling, client, runtimeClosing, failed,
                   popped, refreshWaits, closing, closer, requestVars>>

\* It has awaited that cleanup, whatever its result.
EndReplace ==
    /\ lock = "retiring" /\ cleanup[current - 1] = "none"
    /\ lock' = "free"
    /\ UNCHANGED <<generationVars, workVars, clientVars, popped, refreshWaits, closing, closer,
                   requestVars>>

\* connected_provider_changed cancels and awaits the running discovery; the
\* requests that await it fail.
BeginConnect ==
    /\ lock = "free" /\ ~closing /\ Running(current)
    /\ lock' = "connecting"
    /\ popped' = discovery[current]
    /\ discovery' = [discovery EXCEPT ![current] = "none"]
    /\ cancelling' = [cancelling EXCEPT ![current] = FALSE]
    /\ pc' = [r \in Requests |-> IF lease[r] = current /\ pc[r] \in {"waiting", "refreshing"}
                                 THEN "leased" ELSE pc[r]]
    /\ UNCHANGED <<generationVars, initialized, clientVars, refreshWaits, closing, closer, lease>>

\* What follows: the provider is new to the generation, if still connected.
EndConnect ==
    /\ \/ lock = "connecting" /\ UNCHANGED discovery
       \/ lock = "connecting" /\ discovery' = WithTask(current, FALSE)
       \/ lock = "free" /\ ~closing /\ ~Running(current)
          /\ \E stage \in {"none", "starting"} : discovery' = [discovery EXCEPT ![current] = stage]
    /\ initialized' = [initialized EXCEPT ![current] = FALSE]
    /\ lock' = "free"
    /\ popped' = "none"
    /\ UNCHANGED <<generationVars, cancelling, clientVars, refreshWaits, closing, closer,
                   requestVars>>

\* start_model_list_refresh, wait_for_catalog.
StartCatalog ==
    /\ ~closing
    /\ discovery' = WithTask(current, FALSE)
    /\ UNCHANGED <<generationVars, initialized, cancelling, clientVars, managerVars, requestVars>>

\* refresh_model_list_cache looks whether the manager is open before it waits
\* for the lock, not after.  A catalog pass that is still publishing is not
\* started again.
RequestRefresh ==
    /\ ~closing
    /\ IF lock = "free"
       THEN discovery' \in {discovery, WithTask(current, TRUE)} /\ UNCHANGED refreshWaits
       ELSE refreshWaits' = TRUE /\ UNCHANGED discovery
    /\ UNCHANGED <<generationVars, initialized, cancelling, clientVars, lock, popped, closing,
                   closer, requestVars>>

RunRefresh ==
    /\ refreshWaits /\ lock = "free"
    /\ refreshWaits' = FALSE
    /\ discovery' \in {discovery, WithTask(current, TRUE)}
    /\ UNCHANGED <<generationVars, initialized, cancelling, clientVars, lock, popped, closing,
                   closer, requestVars>>

-----------------------------------------------------------------------------
(* Shutdown. *)

Published == 1..current

BeginShutdown ==
    /\ ~closing
    /\ closing' = TRUE
    /\ cancelling' = CancelWork(Published)
    /\ UNCHANGED <<generationVars, initialized, discovery, clientVars, lock, popped,
                   refreshWaits, closer, requestVars>>

\* close, again after it has raised.
Close ==
    /\ closer \in {"uncalled", "raised"}
    /\ closing' = TRUE
    /\ cancelling' = CancelWork(Published)
    /\ closer' = "locking"
    /\ UNCHANGED <<generationVars, initialized, discovery, clientVars, lock, popped,
                   refreshWaits, requestVars>>

CloseRetires ==
    /\ closer = "locking" /\ lock = "free"
    /\ retired' = [retired EXCEPT ![current] = TRUE]
    /\ closer' = "cancelling"
    /\ UNCHANGED <<current, leases, closed, workVars, clientVars, lock, popped, refreshWaits,
                   closing, requestVars>>

\* The lock is fair: a refresh that waited for it runs before.
CloseCancels ==
    /\ closer = "cancelling" /\ ~refreshWaits
    /\ cancelling' = CancelWork(Published)
    /\ closer' = "draining"
    /\ UNCHANGED <<generationVars, initialized, discovery, clientVars, lock, popped,
                   refreshWaits, closing, requestVars>>

CloseDrains ==
    /\ closer = "draining"
    /\ \A g \in Published : WorkEnded(g) /\ leases[g] = 0
    /\ cleanup' = CloseGenerations(Published, leases)
    /\ closer' = "closing"
    /\ UNCHANGED <<generationVars, workVars, client, runtimeClosing, failed, lock, popped,
                   refreshWaits, closing, requestVars>>

AllClosed == \A g \in Published : closed[g]

\* It raises if a generation could not be closed.
CloseReturns ==
    /\ closer = "closing"
    /\ \A g \in Published : cleanup[g] = "none"
    /\ closer' = IF AllClosed THEN "closed" ELSE "raised"
    /\ UNCHANGED <<generationVars, workVars, clientVars, lock, popped, refreshWaits, closing,
                   requestVars>>

-----------------------------------------------------------------------------
Ask(r) == Acquire(r) \/ RefreshProvider(r) \/ Resolve(r)

Continue(r) == Discovered(r) \/ Created(r)

Work(g) == Discover(g) \/ StartListing(g) \/ FinishListing(g) \/ Unwind(g)

Creation(g) == Construct(g) \/ FailConstruct(g)

Cleaning(g) == StartCleanup(g) \/ CleanRuntime(g) \/ CreationCancelled(g) \/ CloseClient(g)
               \/ FailClose(g)

Closing == CloseRetires \/ CloseCancels \/ CloseDrains \/ CloseReturns

Next ==
    \/ \E r \in Requests : Ask(r) \/ Continue(r) \/ Release(r)
    \/ \E g \in Generations : Work(g) \/ Creation(g) \/ Cleaning(g)
    \/ BeginReplace \/ FailCommit \/ Publish \/ EndReplace
    \/ BeginConnect \/ EndConnect
    \/ StartCatalog \/ RequestRefresh \/ RunRefresh
    \/ BeginShutdown \/ Close \/ Closing

Spec == Init /\ [][Next]_vars

(* The loop runs every task; creations, listings, commits, cleanups and    *)
(* requests end; the server that begins a shutdown closes the manager.     *)
(* Nobody has to send requests, change anything or retry a failed close.   *)
Fairness ==
    /\ \A r \in Requests : WF_vars(Release(r))
    /\ \A g \in Generations : WF_vars(Work(g) \/ Creation(g) \/ Cleaning(g))
    /\ WF_vars(FailCommit \/ Publish \/ EndReplace \/ (lock = "connecting" /\ EndConnect))
    /\ WF_vars(RunRefresh)
    /\ WF_vars(Closing \/ (closing /\ closer = "uncalled" /\ Close))

FairSpec == Spec /\ Fairness

-----------------------------------------------------------------------------
(* Properties. *)

InUse(g) ==
    \/ \E r \in Requests : pc[r] = "using" /\ lease[r] = g
    \/ discovery[g] = "listing"
    \/ popped = "listing" /\ g = current

(* A client in use by a request or a discovery, also one whose             *)
(* cancellation has not ended, is neither closed nor being closed.         *)
ClientInUseIsOpen == \A g \in Generations : InUse(g) => client[g] = "open" /\ cleanup[g] # "closing"

(* A closed generation has no client left, none on its way and nobody who  *)
(* could create one: nothing leaks that a shared creation makes late.      *)
ClosedIsClean == \A g \in Generations : closed[g] =>
    /\ client[g] \in {"absent", "closed"}
    /\ discovery[g] \notin {"creating", "listing"}
    /\ \A r \in Requests : pc[r] # "idle" => lease[r] # g

(* close() that returns has closed every generation there ever was.        *)
CloseIsComplete == closer = "closed" => \A g \in Published : closed[g]

(* What is closed stays clean, and close() misses nothing.                 *)
CloseIsFinal == ClosedIsClean /\ CloseIsComplete

(* A retired generation without leases is closed, being closed, was tried  *)
(* to be closed, or is left to close(): none is forgotten between the last *)
(* release and the replacement.                                            *)
RetiredIsNotForgotten == \A g \in Generations :
    retired[g] /\ leases[g] = 0 => closed[g] \/ cleanup[g] # "none" \/ failed[g] \/ closing

(* A retired generation gets no lease any more.                            *)
RetiredOnlyDrains == [][\A g \in Generations : retired[g] => leases'[g] <= leases[g]]_vars

(* Every retired generation is closed in the end, unless its cleanup fails. *)
RetiredAreClosed == \A g \in Generations : retired[g] ~> closed[g] \/ failed[g]

(* close() returns or raises, whatever is in flight.                       *)
CloseEnds == closer = "locking" ~> closer \in {"closed", "raised"}

(* Every cleanup comes to its end, of one generation and of the whole.     *)
CleanupEnds == RetiredAreClosed /\ CloseEnds
=============================================================================
