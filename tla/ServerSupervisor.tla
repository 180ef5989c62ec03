-------------------------- MODULE ServerSupervisor --------------------------
(***************************************************************************)
(* The supervisor of the server (cli/commands.py) as the desktop shell     *)
(* drives it (cli/desktop.py): the tray's thread starts, restarts and      *)
(* stops it, its own thread runs one server after another, the server asks *)
(* for restarts, and browser threads open the Admin page.                  *)
(*                                                                         *)
(* Every section under _lock is one step.                                  *)
(***************************************************************************)
EXTENDS Integers

CONSTANTS
    MaxRestarts,   \* bound: accepted restarts
    MaxRuns,       \* bound: threads started
    MaxClicks      \* bound: clicks on open Admin and on restart

ASSUME SupervisorAssumption == MaxRestarts \in Nat /\ MaxRuns \in Nat /\ MaxClicks \in Nat

VARIABLES
    worker,             \* where the server's thread is
    runs,               \* number of threads started
    runScheduled,       \* _run_scheduled
    running,            \* _running
    stopEvent,          \* stop_event
    server,             \* _server: none, starting or started
    shouldExit,         \* its should_exit
    restartGeneration,  \* _restart_generation
    loaded,             \* restart_generation of the current turn of the loop
    readySettings,      \* _ready_settings, by the generation that loaded them, -1 for None
    pendingAdmin,       \* _pending_admin
    autoOpened,         \* _auto_browser_opened
    runtimeClosed,      \* whether the last runtime closed completely
    tray,               \* the tray's thread: "idle" or in restart_server
    browser,            \* a browser thread: the settings and generation it was started for
    clicks              \* number of clicks on open Admin and on restart

serverVars == <<server, shouldExit, readySettings, runtimeClosed>>
runVars == <<worker, runs, runScheduled, running, loaded>>
supervisorVars == <<runVars, serverVars, stopEvent, restartGeneration, pendingAdmin, autoOpened,
                    tray, browser, clicks>>

NoBrowser == [settings |-> -1, generation |-> -1]

SupervisorTypeOK ==
    /\ worker \in {"none", "scheduled", "loop", "bind", "publish", "serving", "started", "over",
                   "decide", "leaving", "ended"}
    /\ runs \in 0..MaxRuns /\ loaded \in 0..MaxRestarts
    /\ runScheduled \in BOOLEAN /\ running \in BOOLEAN /\ stopEvent \in BOOLEAN
    /\ server \in {"none", "starting", "started"} /\ shouldExit \in BOOLEAN
    /\ restartGeneration \in 0..MaxRestarts /\ readySettings \in -1..MaxRestarts
    /\ pendingAdmin \in BOOLEAN /\ autoOpened \in BOOLEAN /\ runtimeClosed \in BOOLEAN
    /\ tray \in {"idle", "restarting"} /\ clicks \in 0..MaxClicks
    /\ browser \in [settings : -1..MaxRestarts, generation : -1..MaxRestarts]

SupervisorInit ==
    /\ worker = "none" /\ runs = 0 /\ loaded = 0
    /\ runScheduled = FALSE /\ running = FALSE /\ stopEvent = FALSE
    /\ server = "none" /\ shouldExit = FALSE /\ readySettings = -1 /\ runtimeClosed = TRUE
    /\ restartGeneration = 0 /\ pendingAdmin = FALSE /\ autoOpened = FALSE
    /\ tray = "idle" /\ browser = NoBrowser /\ clicks = 0

ThreadIsAlive == worker \notin {"none", "ended"}

-----------------------------------------------------------------------------
(* The tray's thread. *)

\* _start_server, under the thread lock, with schedule_run.
StartServer ==
    IF stopEvent \/ runScheduled \/ running THEN UNCHANGED <<worker, runs, runScheduled>>
    ELSE runs < MaxRuns /\ runs' = runs + 1 /\ runScheduled' = TRUE /\ worker' = "scheduled"

\* The tray is set up, or the user asks for a restart and the thread has ended.
TrayStarts ==
    /\ tray = "idle" /\ ~ThreadIsAlive
    /\ StartServer
    /\ UNCHANGED <<running, loaded, serverVars, stopEvent, restartGeneration, pendingAdmin,
                   autoOpened, tray, browser, clicks>>

\* restart_server finds the thread alive; by the time it asks, it may have ended.
TrayRestarts ==
    /\ tray = "idle" /\ ThreadIsAlive /\ clicks < MaxClicks
    /\ tray' = "restarting" /\ clicks' = clicks + 1
    /\ UNCHANGED <<runVars, serverVars, stopEvent, restartGeneration, pendingAdmin, autoOpened,
                   browser>>

\* request_restart
RequestRestart ==
    IF stopEvent \/ ~(runScheduled \/ running) THEN UNCHANGED <<restartGeneration, shouldExit>>
    ELSE /\ restartGeneration < MaxRestarts /\ restartGeneration' = restartGeneration + 1
         /\ shouldExit' = (shouldExit \/ (~runScheduled /\ server # "none"))

TrayAsks ==
    /\ tray = "restarting" /\ tray' = "idle"
    /\ \/ RequestRestart
       \/ restartGeneration = MaxRestarts /\ UNCHANGED <<restartGeneration, shouldExit>>
    /\ UNCHANGED <<runVars, server, readySettings, runtimeClosed, stopEvent, pendingAdmin,
                   autoOpened, browser, clicks>>

\* A configuration update of the server's runtime asks for a restart.
RuntimeAsks ==
    /\ server = "started" /\ RequestRestart
    /\ UNCHANGED <<runVars, server, readySettings, runtimeClosed, stopEvent, pendingAdmin,
                   autoOpened, tray, browser, clicks>>

\* request_stop, by the tray's end or quit.
RequestStop ==
    /\ stopEvent' = TRUE /\ runScheduled' = FALSE
    /\ shouldExit' = (shouldExit \/ server # "none")

Quit ==
    /\ ~stopEvent /\ RequestStop
    /\ UNCHANGED <<worker, runs, running, loaded, server, readySettings, runtimeClosed,
                   restartGeneration, pendingAdmin, autoOpened, tray, browser, clicks>>

\* request_open_admin; a browser thread is started if settings are ready.
OpenAdmin ==
    /\ ~stopEvent /\ clicks < MaxClicks /\ clicks' = clicks + 1
    /\ pendingAdmin' = TRUE
    /\ browser' = IF readySettings # -1 /\ browser = NoBrowser
                  THEN [settings |-> readySettings, generation |-> restartGeneration] ELSE browser
    /\ UNCHANGED <<runVars, serverVars, stopEvent, restartGeneration, autoOpened, tray>>

\* The browser's thread looks whether its server is still the one it was started for.
Eligible == ~stopEvent /\ restartGeneration = browser.generation /\ readySettings = browser.settings

BrowserOpens ==
    /\ browser # NoBrowser
    /\ browser' = NoBrowser /\ pendingAdmin' = (pendingAdmin /\ ~Eligible)
    /\ UNCHANGED <<runVars, serverVars, stopEvent, restartGeneration, autoOpened, tray, clicks>>

-----------------------------------------------------------------------------
(* The server's thread. *)

WorkerTo(at) == worker' = at

\* Another instance holds the desktop's lock, and this one quits; or run begins.
RunBegins ==
    /\ worker = "scheduled"
    /\ \/ RequestStop /\ WorkerTo("ended") /\ UNCHANGED <<running, autoOpened>>
       \/ /\ runScheduled' = FALSE /\ running' = ~stopEvent
          /\ WorkerTo(IF stopEvent THEN "ended" ELSE "loop")
          /\ autoOpened' = (stopEvent /\ autoOpened) /\ UNCHANGED <<stopEvent, shouldExit>>
    /\ UNCHANGED <<runs, loaded, server, readySettings, runtimeClosed, restartGeneration,
                   pendingAdmin, tray, browser, clicks>>

\* A turn of the loop: the generation is read before the settings are loaded, which may
\* fail and end the run.
LoadSettings ==
    /\ worker = "loop"
    /\ loaded' = restartGeneration
    /\ worker' \in (IF stopEvent THEN {"leaving"} ELSE {"bind", "leaving"})
    /\ UNCHANGED <<runs, runScheduled, running, serverVars, stopEvent, restartGeneration,
                   pendingAdmin, autoOpened, tray, browser, clicks>>

\* The port is reserved, or taken.
Bind ==
    /\ worker = "bind"
    /\ \/ WorkerTo(IF stopEvent THEN "leaving" ELSE "publish")
       \/ WorkerTo("leaving")
    /\ UNCHANGED <<runs, runScheduled, running, loaded, serverVars, stopEvent, restartGeneration,
                   pendingAdmin, autoOpened, tray, browser, clicks>>

\* The server is published; a stop or a restart that came before is applied to it.
Overdue == stopEvent \/ restartGeneration # loaded

PublishServer ==
    /\ worker = "publish"
    /\ server' = "starting" /\ shouldExit' = Overdue
    /\ WorkerTo("serving")
    /\ UNCHANGED <<runs, runScheduled, running, loaded, readySettings, runtimeClosed, stopEvent,
                   restartGeneration, pendingAdmin, autoOpened, tray, browser, clicks>>

\* The HTTP server has started: on_started, in a section of its own. The settings may
\* ask for the Admin page, once in a run.
ServerStarts ==
    /\ worker = "serving" /\ server = "starting"
    /\ server' = "started"
    /\ WorkerTo(IF shouldExit THEN "serving" ELSE "started")
    /\ UNCHANGED <<runs, runScheduled, running, loaded, shouldExit, readySettings, runtimeClosed,
                   stopEvent, restartGeneration, pendingAdmin, autoOpened, tray, browser, clicks>>

OnStarted ==
    /\ worker = "started" /\ WorkerTo("serving")
    /\ IF Overdue THEN UNCHANGED <<readySettings, browser, autoOpened>>
       ELSE /\ readySettings' = loaded
            /\ autoOpened' \in {autoOpened, TRUE}
            /\ browser' = IF (pendingAdmin \/ autoOpened' # autoOpened) /\ browser = NoBrowser
                          THEN [settings |-> loaded, generation |-> loaded] ELSE browser
    /\ UNCHANGED <<runs, runScheduled, running, loaded, server, shouldExit, runtimeClosed,
                   stopEvent, restartGeneration, pendingAdmin, tray, clicks>>

\* The server leaves when it should, or for reasons of its own; its runtime is closed.
ServerExits(byItself) ==
    /\ worker = "serving" /\ (shouldExit \/ byItself)
    /\ runtimeClosed' \in BOOLEAN
    /\ WorkerTo("over")
    /\ UNCHANGED <<runs, runScheduled, running, loaded, server, shouldExit, readySettings,
                   stopEvent, restartGeneration, pendingAdmin, autoOpened, tray, browser,
                   clicks>>

\* The server is forgotten; if it raised, the run ends.
Unpublish ==
    /\ worker = "over" /\ worker' \in {"decide", "leaving"}
    /\ server' = "none" /\ shouldExit' = FALSE /\ readySettings' = -1
    /\ UNCHANGED <<runs, runScheduled, running, loaded, runtimeClosed, stopEvent, restartGeneration,
                   pendingAdmin, autoOpened, tray, browser, clicks>>

MayRestart == restartGeneration # loaded /\ ~stopEvent /\ runtimeClosed

Decide ==
    /\ worker = "decide"
    /\ WorkerTo(IF MayRestart THEN "loop" ELSE "leaving")
    /\ UNCHANGED <<runs, runScheduled, running, loaded, serverVars, stopEvent, restartGeneration,
                   pendingAdmin, autoOpened, tray, browser, clicks>>

RunEnds ==
    /\ worker = "leaving" /\ WorkerTo("ended")
    /\ running' = FALSE
    /\ UNCHANGED <<runs, runScheduled, loaded, serverVars, stopEvent, restartGeneration,
                   pendingAdmin, autoOpened, tray, browser, clicks>>

-----------------------------------------------------------------------------
SupervisorWork ==
    \/ TrayAsks \/ BrowserOpens
    \/ RunBegins \/ LoadSettings \/ Bind \/ PublishServer \/ ServerStarts \/ OnStarted
    \/ ServerExits(FALSE) \/ Unpublish \/ Decide \/ RunEnds

SupervisorNext ==
    \/ SupervisorWork
    \/ TrayStarts \/ TrayRestarts \/ RuntimeAsks \/ Quit \/ OpenAdmin \/ ServerExits(TRUE)

\* Threads run, and a server that should exit does, since its shutdown is bounded.
SupervisorFairness == WF_supervisorVars(SupervisorWork)

-----------------------------------------------------------------------------
(* Properties. *)

\* A published server knows of every stop and restart that was accepted, also of
\* those that were accepted before it was published.
NothingIsOverdue == server # "none" /\ Overdue => shouldExit

\* One run at a time, which alone publishes a server.
OneRun ==
    /\ ~(runScheduled /\ running)
    /\ running => worker \notin {"none", "scheduled", "ended"}
    /\ server # "none" <=> worker \in {"serving", "started", "over"}
    /\ readySettings # -1 => server = "started" /\ readySettings = loaded

SupervisorSafety == SupervisorTypeOK /\ NothingIsOverdue /\ OneRun

\* Nobody is on the way: the server serves and need not exit, or its thread has
\* ended; after a stop it has ended.
NobodyStops ==
    /\ tray = "idle" /\ browser = NoBrowser
    /\ worker \in {"none", "ended"} \/ (worker = "serving" /\ server = "started" /\ ~stopEvent /\ ~Overdue)
=============================================================================
