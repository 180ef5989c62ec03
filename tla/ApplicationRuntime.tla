-------------------------- MODULE ApplicationRuntime --------------------------
(***************************************************************************)
(* The owner of everything one server process opens                        *)
(* (runtime/application.py): startup with its background jobs, shutdown in *)
(* the order of the dependencies with retries, and the configuration       *)
(* updates of the admin page, which are written to the managed file and    *)
(* applied to the running providers, or kept for a restart.                *)
(*                                                                         *)
(* The managed file is a record of a setting the running providers adopt   *)
(* (hot), one that needs a restart (cold) and what only another process    *)
(* writes (other).                                                         *)
(***************************************************************************)
EXTENDS Integers, Sequences, FiniteSets

CONSTANTS
    Updates,        \* configuration updates of the admin page
    MaxFaults,      \* bound: steps of the startup or the shutdown that fail
    MaxWrites       \* bound: writes of the managed file by another process

Callers == {"start", "lifespan", "serve"}
Jobs == {"messaging", "code", "codex"}

\* An update is no call and no job, which may hold the same lock.
ASSUME RuntimeAssumption ==
    /\ MaxFaults \in Nat /\ MaxWrites \in Nat
    /\ Updates \cap (Callers \cup Jobs \cup {"none"}) = {}

VARIABLES
    hostCall,       \* the start of the lifespan, its shutdown, and the server's last close
    lifecycle,      \* who holds _lifecycle_lock
    draining, closed, httpReady,
    startupJob,     \* the startup tasks
    cleaning,       \* the stage the messaging job's own cleanup is at
    releasing,      \* the stage the shutdown is at
    open,           \* resources that are open
    released,       \* resources that have been released
    faults,         \* failures so far
    config,         \* who holds _config_lock
    update,         \* how far each configuration update has come
    cancelled,      \* updates whose caller was cancelled
    prepared,       \* what the update under the lock is going to write, and on top of what
    disk,           \* the managed file
    live,           \* the settings of the running providers
    accepted,       \* the file as this process last wrote it
    elsewhere,      \* writes of the file by another process
    pendingFields,  \* _pending_fields is not empty
    restarting,     \* the supervisor was asked to restart
    generation,     \* the number of the running provider generation
    catalog         \* the generation whose catalog the codex refresh waited for

lifecycleVars == <<hostCall, lifecycle, draining, closed, httpReady>>
jobVars == <<startupJob, cleaning, catalog>>
resourceVars == <<releasing, open, released, faults>>
updateVars == <<update, cancelled, prepared>>
fileVars == <<disk, live, accepted, elsewhere, pendingFields, restarting, generation>>
runtimeVars == <<lifecycleVars, jobVars, resourceVars, config, updateVars, fileVars>>

Stages == <<"picker", "ingress", "workflow", "delivery", "code", "transcriber",
            "usage", "providers", "accounts">>
FirstOfMessaging == 2
LastOfMessaging == 4

\* What a resource still needs while it is open.
Needs == {<<"ingress", "workflow">>, <<"workflow", "delivery">>, <<"workflow", "transcriber">>,
          <<"workflow", "providers">>, <<"code", "usage">>, <<"code", "providers">>,
          <<"providers", "accounts">>}

Settings == [hot : BOOLEAN, cold : BOOLEAN, other : 0..MaxWrites]
Initially == [hot |-> FALSE, cold |-> FALSE, other |-> 0]
NothingPrepared == [base |-> Initially, target |-> Initially]
Finished == {"none", "done"}

RuntimeTypeOK ==
    /\ hostCall \in [Callers -> {"idle", "initializing", "lifecycle", "gathering", "config",
                             "releasing", "done"}]
    /\ lifecycle \in Callers \cup {"none"}
    /\ draining \in BOOLEAN /\ closed \in BOOLEAN /\ httpReady \in BOOLEAN
    /\ startupJob \in [Jobs -> {"none", "loading", "creating", "storing", "waiting", "starting",
                         "cleaning", "running", "asking", "recognizing", "catalog", "lock", "writing",
                         "stopping", "done"}]
    /\ cleaning \in 0..LastOfMessaging /\ releasing \in 0..Len(Stages)
    /\ open \subseteq {Stages[i] : i \in DOMAIN Stages} /\ released \subseteq {Stages[i] : i \in DOMAIN Stages}
    /\ faults \in 0..MaxFaults
    /\ config \in Updates \cup Callers \cup Jobs \cup {"none"}
    /\ update \in [Updates -> {"none", "lock", "preparing", "checking", "finalizing",
                               "persisting", "publishing", "signalling", "done"}]
    /\ cancelled \subseteq Updates
    /\ prepared \in [base : Settings, target : Settings] /\ elsewhere \in 0..MaxWrites
    /\ disk \in Settings /\ live \in Settings /\ accepted \in Settings
    /\ pendingFields \in BOOLEAN /\ restarting \in BOOLEAN /\ generation \in Nat /\ catalog \in Nat

RuntimeInit ==
    /\ hostCall = [c \in Callers |-> "idle"] /\ lifecycle = "none"
    /\ draining = FALSE /\ closed = FALSE /\ httpReady = FALSE
    /\ startupJob = [j \in Jobs |-> "none"] /\ cleaning = 0 /\ releasing = 0
    /\ open = {"picker", "code", "usage", "providers", "accounts"} /\ released = {} /\ faults = 0
    /\ config = "none" /\ update = [u \in Updates |-> "none"] /\ cancelled = {}
    /\ prepared = NothingPrepared
    /\ disk = Initially /\ live = Initially /\ accepted = Initially /\ elsewhere = 0
    /\ pendingFields = FALSE /\ restarting = FALSE /\ generation = 1 /\ catalog = 0

Goto(c, at) == hostCall' = [hostCall EXCEPT ![c] = at]
JobTo(j, at) == startupJob' = [startupJob EXCEPT ![j] = at]
UpdateTo(u, at) == update' = [update EXCEPT ![u] = at]
Fault == faults < MaxFaults /\ faults' = faults + 1

-----------------------------------------------------------------------------
(* Startup. *)

\* start, up to the await of the configuration's initialization.
Start ==
    /\ hostCall["start"] = "idle" /\ lifecycle = "none"
    /\ IF draining
       THEN Goto("start", "lifecycle") /\ UNCHANGED lifecycle
       ELSE Goto("start", "initializing") /\ lifecycle' = "start"
    /\ UNCHANGED <<draining, closed, httpReady, jobVars, resourceVars, config, updateVars, fileVars>>

\* start, after the initialization: the startup tasks are registered.
Started ==
    /\ hostCall["start"] = "initializing" /\ ~draining
    /\ Goto("start", "done") /\ lifecycle' = "none"
    /\ startupJob' = [messaging |-> "loading", code |-> "running", codex |-> "asking"]
    /\ UNCHANGED <<draining, closed, httpReady, cleaning, catalog, resourceVars, config,
                   updateVars, fileVars>>

\* start raises, or is cancelled, and closes what there is.
StartFails ==
    /\ hostCall["start"] = "initializing"
    /\ (draining /\ UNCHANGED faults) \/ Fault
    /\ Goto("start", "lifecycle") /\ lifecycle' = "none"
    /\ draining' = TRUE
    /\ UNCHANGED <<closed, httpReady, jobVars, releasing, open, released, config, updateVars, fileVars>>

\* http_started
HttpStarted ==
    /\ hostCall["start"] = "done" /\ ~draining /\ ~httpReady
    /\ httpReady' = TRUE
    /\ UNCHANGED <<hostCall, lifecycle, draining, closed, jobVars, resourceVars, config, updateVars, fileVars>>

\* _start_messaging_if_configured: the transcriber, the platform, the sessions
\* and the workflow are created one after another.
MessagingStep ==
    /\ \/ /\ startupJob["messaging"] = "loading"
          /\ \/ JobTo("messaging", "done") /\ UNCHANGED open
             \/ JobTo("messaging", "creating") /\ open' = open \cup {"transcriber", "ingress", "delivery"}
       \/ startupJob["messaging"] = "creating" /\ JobTo("messaging", "storing") /\ open' = open \cup {"workflow"}
       \/ startupJob["messaging"] = "storing" /\ JobTo("messaging", "waiting") /\ UNCHANGED open
       \/ /\ startupJob["messaging"] = "waiting" /\ httpReady
          /\ JobTo("messaging", IF draining THEN "done" ELSE "starting")
          /\ UNCHANGED open
       \/ startupJob["messaging"] = "starting" /\ JobTo("messaging", "done") /\ UNCHANGED open
    /\ UNCHANGED <<lifecycleVars, cleaning, catalog, releasing, released, faults, config, updateVars, fileVars>>

\* Its exception handlers: what was created is cleaned up at once.
MessagingFails ==
    /\ startupJob["messaging"] \in {"loading", "creating", "storing", "starting"} /\ Fault
    /\ JobTo("messaging", "cleaning") /\ cleaning' = FirstOfMessaging
    /\ UNCHANGED <<lifecycleVars, catalog, releasing, open, released, config, updateVars, fileVars>>

\* Whether a stage has anything to release; the flags and None checks of
\* _close_owned_resources and _cleanup_messaging.
Applies(s) ==
    CASE s \in {"picker", "code", "usage"} -> TRUE
      [] s = "ingress" -> "delivery" \in open
      [] OTHER -> s \in open

\* One stage: what it releases is gone, or it failed and is kept.
ReleaseOne(s) == open' = open \ {s} /\ released' = released \cup (open \cap {s})

\* _cleanup_messaging of the failed job; the first failure ends it.
CleanStage ==
    /\ startupJob["messaging"] = "cleaning"
    /\ LET s == Stages[cleaning]
           next == IF cleaning = LastOfMessaging THEN 0 ELSE cleaning + 1
       IN \/ /\ IF Applies(s) THEN ReleaseOne(s) ELSE UNCHANGED <<open, released>>
             /\ cleaning' = next /\ JobTo("messaging", IF next = 0 THEN "done" ELSE "cleaning")
             /\ UNCHANGED faults
          \/ /\ Applies(s) /\ Fault
             /\ cleaning' = 0 /\ JobTo("messaging", "done") /\ UNCHANGED <<open, released>>
    /\ UNCHANGED <<lifecycleVars, catalog, releasing, config, updateVars, fileVars>>

\* The code service has started.
CodeStarted ==
    /\ startupJob["code"] = "running" /\ JobTo("code", "done")
    /\ UNCHANGED <<lifecycleVars, cleaning, catalog, resourceVars, config, updateVars, fileVars>>

-----------------------------------------------------------------------------
(* The refresh of the codex integration: it writes what the catalog of the *)
(* running generation says.                                                *)

\* _check_integration_available
Available == ~draining /\ ~pendingFields

\* The job has the configuration lock and looks whether the file is ours.
CodexAsks ==
    /\ startupJob["codex"] = "asking" /\ config = "none"
    /\ IF Available THEN JobTo("codex", "recognizing") /\ config' = "codex"
                    ELSE JobTo("codex", "done") /\ UNCHANGED config
    /\ UNCHANGED <<lifecycleVars, cleaning, catalog, resourceVars, updateVars, fileVars>>

CodexRecognized ==
    /\ startupJob["codex"] = "recognizing"
    /\ \E at \in {"catalog", "done"} : JobTo("codex", at)
    /\ config' = "none"
    /\ UNCHANGED <<lifecycleVars, cleaning, catalog, resourceVars, updateVars, fileVars>>

\* wait_for_catalog_file returned the generation whose catalog is ready.
CatalogReady ==
    /\ startupJob["codex"] = "catalog"
    /\ JobTo("codex", "lock") /\ catalog' = generation
    /\ UNCHANGED <<lifecycleVars, cleaning, resourceVars, config, updateVars, fileVars>>

CatalogIsCurrent == catalog = generation

CodexLocks ==
    /\ startupJob["codex"] = "lock" /\ config = "none"
    /\ IF Available /\ CatalogIsCurrent
       THEN JobTo("codex", "writing") /\ config' = "codex" /\ UNCHANGED catalog
       ELSE JobTo("codex", IF Available THEN "catalog" ELSE "done") /\ catalog' = 0 /\ UNCHANGED config
    /\ UNCHANGED <<lifecycleVars, cleaning, resourceVars, updateVars, fileVars>>

CodexWritten ==
    /\ startupJob["codex"] = "writing"
    /\ JobTo("codex", "done") /\ config' = "none" /\ catalog' = 0
    /\ UNCHANGED <<lifecycleVars, cleaning, resourceVars, updateVars, fileVars>>

-----------------------------------------------------------------------------
(* Shutdown. *)

\* begin_shutdown by the server, before it drains its responses.
BeginHostShutdown ==
    /\ ~draining /\ hostCall["start"] # "idle"
    /\ draining' = TRUE
    /\ UNCHANGED <<hostCall, lifecycle, closed, httpReady, jobVars, resourceVars, config, updateVars, fileVars>>

\* close: the lifespan's shutdown after a successful start, and the server's
\* last close, which follows in any case, also when the start is still going on.
CallClose(c) ==
    /\ hostCall[c] = "idle" /\ hostCall["start"] # "idle"
    /\ c = "lifespan" => hostCall["start"] = "done" /\ hostCall["serve"] = "idle"
    /\ c = "serve" => hostCall["lifespan"] \in {"idle", "done"}
    /\ Goto(c, "lifecycle") /\ draining' = TRUE
    /\ UNCHANGED <<lifecycle, closed, httpReady, jobVars, resourceVars, config, updateVars, fileVars>>

Active(j) == startupJob[j] \notin Finished

\* close has the lifecycle lock: the startup tasks are cancelled and awaited.
Gather(c) ==
    /\ hostCall[c] = "lifecycle" /\ lifecycle = "none"
    /\ IF closed
       THEN Goto(c, "done") /\ UNCHANGED <<lifecycle, jobVars>>
       ELSE /\ Goto(c, "gathering") /\ lifecycle' = c
            /\ startupJob' = [j \in Jobs |-> IF Active(j) THEN "stopping" ELSE startupJob[j]]
            /\ cleaning' = 0 /\ catalog' = 0
    /\ UNCHANGED <<draining, closed, httpReady, resourceVars, config, updateVars, fileVars>>

\* A cancelled task has come to its end.
JobEnds(j) ==
    /\ startupJob[j] = "stopping"
    /\ JobTo(j, "done")
    /\ config' = IF config = j THEN "none" ELSE config
    /\ UNCHANGED <<lifecycleVars, cleaning, catalog, resourceVars, updateVars, fileVars>>

Gathered == \A j \in Jobs : ~Active(j)

EndGather(c) ==
    /\ hostCall[c] = "gathering" /\ Gathered /\ config = "none"
    /\ Goto(c, "releasing") /\ config' = c /\ releasing' = 1
    /\ UNCHANGED <<lifecycle, draining, closed, httpReady, jobVars, open, released, faults,
                   updateVars, fileVars>>

\* _close_owned_resources and the end of close.
CloseReturns(c, result) ==
    /\ Goto(c, "done") /\ lifecycle' = "none" /\ config' = "none" /\ releasing' = 0
    /\ closed' = result

StageFails(c) == Fault /\ CloseReturns(c, FALSE)

ReleaseStage(c) ==
    /\ hostCall[c] = "releasing"
    /\ LET s == Stages[releasing]
       IN \/ /\ IF Applies(s) THEN ReleaseOne(s) ELSE UNCHANGED <<open, released>>
             /\ IF releasing < Len(Stages)
                THEN releasing' = releasing + 1 /\ UNCHANGED <<hostCall, lifecycle, closed, config>>
                ELSE CloseReturns(c, TRUE)
             /\ UNCHANGED faults
          \/ Applies(s) /\ StageFails(c) /\ UNCHANGED <<open, released>>
    /\ UNCHANGED <<draining, httpReady, jobVars, updateVars, fileVars>>

-----------------------------------------------------------------------------
(* Configuration updates. *)

NoUpdate == <<lifecycleVars, jobVars, resourceVars>>

RequestUpdate(u) ==
    /\ update[u] = "none" /\ hostCall["start"] = "done"
    /\ UpdateTo(u, "lock")
    /\ UNCHANGED <<NoUpdate, config, cancelled, prepared, fileVars>>

\* _apply_config_update has the configuration lock.
LockUpdate(u) ==
    /\ update[u] = "lock" /\ config = "none"
    /\ IF draining THEN UpdateTo(u, "done") /\ UNCHANGED config
                   ELSE UpdateTo(u, "preparing") /\ config' = u
    /\ UNCHANGED <<NoUpdate, cancelled, prepared, fileVars>>

\* configuration.prepare: the change on top of the file as it is now.
Prepare(u) ==
    /\ update[u] = "preparing" /\ u \notin cancelled
    /\ \E target \in {[disk EXCEPT !.hot = ~@], [disk EXCEPT !.cold = ~@]} :
           prepared' = [base |-> disk, target |-> target]
    /\ UpdateTo(u, "checking")
    /\ UNCHANGED <<NoUpdate, config, cancelled, fileVars>>

\* The update's task has ended and the lock is free.
EndUpdate(u) ==
    /\ UpdateTo(u, "done") /\ config' = "none"
    /\ cancelled' = cancelled \ {u} /\ prepared' = NothingPrepared


\* check_credentials has rejected the update, or the update is finalized.
Check(u) ==
    /\ update[u] = "checking" /\ u \notin cancelled
    /\ EndUpdate(u) \/ (UpdateTo(u, "finalizing") /\ UNCHANGED <<config, cancelled, prepared>>)
    /\ UNCHANGED <<NoUpdate, fileVars>>

\* pending_restart_fields: compared with the settings that are running.
NeedsRestart == prepared.target.cold # live.cold

\* _finalize_admin_update up to the write; a provider manager that is shutting
\* down refuses to replace its generation, and a cancelled caller stops it.
Finalize(u) ==
    /\ update[u] = "finalizing"
    /\ IF u \in cancelled \/ (draining /\ ~NeedsRestart)
       THEN EndUpdate(u)
       ELSE UpdateTo(u, "persisting") /\ UNCHANGED <<config, cancelled, prepared>>
    /\ UNCHANGED <<NoUpdate, fileVars>>

Unchanged == disk = prepared.base

\* ManagedConfigStore.commit: nothing is written when the file has changed.
Persist(u) ==
    /\ update[u] = "persisting"
    /\ IF Unchanged
       THEN /\ disk' = prepared.target /\ accepted' = disk'
            /\ UpdateTo(u, IF NeedsRestart THEN "signalling" ELSE "publishing")
            /\ UNCHANGED <<config, cancelled, prepared>>
       ELSE EndUpdate(u) /\ UNCHANGED <<disk, accepted>>
    /\ UNCHANGED <<NoUpdate, live, elsewhere, pendingFields, restarting, generation>>

\* The write itself fails and leaves the file as it was.
PersistFails(u) ==
    /\ update[u] = "persisting" /\ Fault
    /\ EndUpdate(u)
    /\ UNCHANGED <<lifecycleVars, jobVars, releasing, open, released, fileVars>>

\* replace publishes the new generation.
PublishUpdate(u) ==
    /\ update[u] = "publishing"
    /\ live' = prepared.target /\ generation' = generation + 1 /\ pendingFields' = FALSE
    /\ EndUpdate(u)
    /\ UNCHANGED <<NoUpdate, disk, accepted, elsewhere, restarting>>

\* _signal_restart: a signal that fails leaves the fields pendingFields.
SignalRestart(u) ==
    /\ update[u] = "signalling"
    /\ \E signalled \in BOOLEAN : pendingFields' = ~signalled /\ restarting' = (restarting \/ signalled)
    /\ EndUpdate(u)
    /\ UNCHANGED <<NoUpdate, disk, accepted, elsewhere, live, generation>>

\* The caller is cancelled: before the write it gives up, afterwards it waits.
CancelUpdate(u) ==
    /\ update[u] \notin Finished /\ u \notin cancelled
    /\ cancelled' = cancelled \cup {u}
    /\ UNCHANGED <<NoUpdate, config, update, prepared, fileVars>>

AbandonUpdate(u) ==
    /\ u \in cancelled /\ update[u] \in {"lock", "preparing", "checking"}
    /\ UpdateTo(u, "done") /\ cancelled' = cancelled \ {u}
    /\ IF config = u THEN config' = "none" /\ prepared' = NothingPrepared ELSE UNCHANGED <<config, prepared>>
    /\ UNCHANGED <<NoUpdate, fileVars>>

\* Another process writes the managed file.
WriteElsewhere ==
    /\ elsewhere < MaxWrites /\ elsewhere' = elsewhere + 1
    /\ disk' = [disk EXCEPT !.other = elsewhere']
    /\ UNCHANGED <<NoUpdate, config, updateVars, live, accepted, pendingFields, restarting, generation>>

-----------------------------------------------------------------------------
UpdateWork(u) ==
    \/ LockUpdate(u) \/ Prepare(u) \/ Check(u) \/ Finalize(u) \/ Persist(u) \/ PublishUpdate(u)
    \/ SignalRestart(u) \/ AbandonUpdate(u)

RuntimeWork ==
    \/ Started \/ StartFails \/ MessagingStep \/ CleanStage \/ CodeStarted
    \/ CodexAsks \/ CodexRecognized \/ CatalogReady \/ CodexLocks \/ CodexWritten
    \/ \E j \in Jobs : JobEnds(j)
    \/ \E c \in Callers : Gather(c) \/ EndGather(c) \/ ReleaseStage(c)
    \/ (draining \/ restarting) /\ CallClose("serve")
    \/ \E u \in Updates : UpdateWork(u)

RuntimeNext ==
    \/ RuntimeWork
    \/ Start \/ HttpStarted \/ BeginHostShutdown
    \/ \E c \in {"lifespan", "serve"} : CallClose(c)
    \/ MessagingFails \/ WriteElsewhere
    \/ \E u \in Updates : RequestUpdate(u) \/ PersistFails(u) \/ CancelUpdate(u)

RuntimeSpec == RuntimeInit /\ [][RuntimeNext]_runtimeVars
RuntimeFairness == WF_runtimeVars(RuntimeWork)

-----------------------------------------------------------------------------
\* What something open still needs has not been released, through failed
\* startups, failed and repeated closes.
DependantsGoFirst == \A n \in Needs : n[2] \in released => n[1] \notin open

\* A closed runtime owns nothing and nothing of its startup is still going on.
ClosedOwnsNothing ==
    closed => open = {} /\ (\A j \in Jobs : ~Active(j)) /\ config \notin Updates

\* Between updates the running providers use what this process wrote to the
\* file, or a restart has been asked for or is pendingFields; whoever was cancelled.
LiveIsStored ==
    config \notin Updates => live = accepted \/ (live.cold # accepted.cold /\ (pendingFields \/ restarting))

\* What another process wrote into the file is never overwritten.
OthersAreKept == disk.other = elsewhere

\* The codex settings are written for the generation that is running.
CodexIsCurrent == startupJob["codex"] = "writing" => catalog = generation

RuntimeSafety ==
    /\ RuntimeTypeOK
    /\ DependantsGoFirst
    /\ ClosedOwnsNothing
    /\ LiveIsStored
    /\ OthersAreKept
    /\ CodexIsCurrent

\* Every call, job and update has ended, but for messaging that waits for the
\* server; and a shutdown without failures closes everything.
NobodyStarts ==
    /\ \A c \in Callers : hostCall[c] \in {"idle", "done"}
    /\ \A j \in Jobs : Active(j) => j = "messaging" /\ startupJob[j] = "waiting" /\ ~httpReady /\ ~draining
    /\ \A u \in Updates : update[u] \in Finished
    /\ draining /\ faults = 0 => closed
=============================================================================
