------------------------------ MODULE ManagedCli ------------------------------
(***************************************************************************)
(* The Claude Code processes of messaging turns: the pool                  *)
(* ManagedClaudeSessionManager (cli/managed/manager.py), its               *)
(* ManagedClaudeSession objects (session.py), the process registry and the *)
(* part of MessagingNodeRunner that uses them.  A turn asks the pool for a *)
(* session, iterates start_task, and removes the session at its end.  A    *)
(* user may cancel a turn again while it unwinds.  The turns that resume   *)
(* one conversation run one after the other.                               *)
(*                                                                         *)
(* A process is named by the turn that created it.                         *)
(***************************************************************************)
EXTENDS Integers, FiniteSets

CONSTANTS
    Turns,
    Sessions,       \* ManagedClaudeSession objects, a bound: as many are made
    Parents,        \* conversations a turn may resume
    NoTurn,
    NoSession,
    NoParent,
    MaxCancels,     \* bound: cancellations of one turn
    MaxSweeps       \* bound: calls of stop_all

ASSUME ManagedAssumption ==
    /\ NoTurn \notin Turns /\ "all" \notin Turns \cup {NoTurn}
    /\ NoSession \notin Sessions /\ NoParent \notin Parents
    /\ MaxCancels \in Nat /\ MaxSweeps \in Nat

VARIABLES
    place,          \* what each turn awaits
    parent,         \* the conversation it resumes
    mine,           \* its session
    cancels,        \* how often it was cancelled
    process,        \* the process it created
    registered,     \* _pids of the registry
    pool,           \* whether a session is in the pool, and under which identifier
    latest,         \* session.process
    cliLock,        \* _cli_lock: the turn whose generator holds it
    lifeLock,       \* _lifecycle_lock: what holds it
    stoppers,       \* calls of stop in progress, by who made them
    sessionClosed,  \* _closed
    sessionClosing, \* _closing_sessions
    poolLock,       \* the pool's _lock: a turn in remove_session, or stop_all
    poolSweep,          \* sessions stop_all has still to stop
    sweeps

managedVars == <<place, parent, mine, cancels, process, registered, pool, latest, cliLock,
                 lifeLock, stoppers, sessionClosed, sessionClosing, poolLock, poolSweep, sweeps>>

\* Who stops a session: the shielded stop of a cancelled generator, or the pool.
Stoppers == {"generator", "pool"}
Running(t) == process[t] \in {"starting", "running", "killed"}
Pooled == {s \in Sessions : pool[s] \in {"temporary", "real"}}
Unused == {s \in Sessions : pool[s] = "unused"}

ManagedTypeOK ==
    /\ place \in [Turns -> {"unused", "asking", "queued", "starting", "reading", "handling",
                            "registering", "stopping", "draining", "leaving", "removing", "ended"}]
    /\ parent \in [Turns -> Parents \cup {NoParent}]
    /\ mine \in [Turns -> Sessions \cup {NoSession}]
    /\ cancels \in [Turns -> 0..MaxCancels] /\ sweeps \in 0..MaxSweeps
    /\ process \in [Turns -> {"none", "starting", "running", "killed", "exited"}]
    /\ registered \subseteq Turns
    /\ pool \in [Sessions -> {"unused", "temporary", "real", "forgotten"}]
    /\ latest \in [Sessions -> Turns \cup {NoTurn}]
    /\ cliLock \in [Sessions -> Turns \cup {NoTurn}]
    /\ lifeLock \in [Sessions -> Stoppers \cup {"free", "start"}]
    /\ stoppers \in [Sessions -> [Stoppers -> {"no", "waiting", "killing"}]]
    /\ \A s \in Sessions, h \in Stoppers : stoppers[s][h] = "killing" <=> lifeLock[s] = h
    /\ sessionClosed \in [Sessions -> BOOLEAN] /\ sessionClosing \subseteq Pooled
    /\ poolLock \in Turns \cup {NoTurn, "all"} /\ poolSweep \subseteq Sessions

ManagedInit ==
    /\ place = [t \in Turns |-> "unused"] /\ parent = [t \in Turns |-> NoParent]
    /\ mine = [t \in Turns |-> NoSession] /\ cancels = [t \in Turns |-> 0]
    /\ process = [t \in Turns |-> "none"] /\ registered = {}
    /\ pool = [s \in Sessions |-> "unused"] /\ latest = [s \in Sessions |-> NoTurn]
    /\ cliLock = [s \in Sessions |-> NoTurn] /\ lifeLock = [s \in Sessions |-> "free"]
    /\ stoppers = [s \in Sessions |-> [h \in Stoppers |-> "no"]]
    /\ sessionClosed = [s \in Sessions |-> FALSE] /\ sessionClosing = {}
    /\ poolLock = NoTurn /\ poolSweep = {} /\ sweeps = 0

Goes(t, to) == place' = [place EXCEPT ![t] = to]
\* The generator of t ends: start_task's finally.
ReleaseCli(t) ==
    /\ cliLock' = [cliLock EXCEPT ![mine[t]] = IF @ = t THEN NoTurn ELSE @]
    /\ registered' = IF process[t] = "exited" THEN registered \ {t} ELSE registered

-----------------------------------------------------------------------------
(* A turn. *)

Ask(t, p) ==
    /\ place[t] = "unused"
    /\ p # NoParent => \A u \in Turns : parent[u] = p => place[u] = "ended"
    /\ Goes(t, "asking") /\ parent' = [parent EXCEPT ![t] = p]
    /\ UNCHANGED <<mine, cancels, process, registered, pool, latest, cliLock, lifeLock,
                   stoppers, sessionClosed, sessionClosing, poolLock, poolSweep, sweeps>>

\* The session in the pool that a turn resuming p would get.
LockHolders(p) == {s \in Pooled : \E u \in Turns : mine[u] = s /\ parent[u] = p /\ p # NoParent}

\* get_or_create_session.  A new session is free, so that start_task goes on to
\* create the process; a known one may be closing or busy.
GetSession(t) ==
    /\ place[t] = "asking" /\ poolLock = NoTurn
    /\ IF LockHolders(parent[t]) # {}
       THEN \E s \in LockHolders(parent[t]) :
              /\ IF s \in sessionClosing
                 THEN Goes(t, "ended") /\ UNCHANGED mine
                 ELSE Goes(t, "queued") /\ mine' = [mine EXCEPT ![t] = s]
              /\ UNCHANGED <<pool, process, cliLock, lifeLock>>
       ELSE LET s == CHOOSE s \in Unused : TRUE IN
              /\ Unused # {}
              /\ Goes(t, "starting") /\ mine' = [mine EXCEPT ![t] = s]
              /\ pool' = [pool EXCEPT ![s] = "temporary"]
              /\ process' = [process EXCEPT ![t] = "starting"]
              /\ cliLock' = [cliLock EXCEPT ![s] = t]
              /\ lifeLock' = [lifeLock EXCEPT ![s] = "start"]
    /\ UNCHANGED <<parent, cancels, registered, latest, stoppers, sessionClosed,
                   sessionClosing, poolLock, poolSweep, sweeps>>

\* Mutant: a session that has been stopped starts again.
MayStartAnyway(s) == TRUE

MayStart(s) == ~sessionClosed[s]

\* start_task of a known session, once both locks are free.
StartTask(t) ==
    LET s == mine[t] IN
    /\ place[t] = "queued" /\ cliLock[s] = NoTurn /\ lifeLock[s] = "free"
    /\ IF MayStart(s)
       THEN /\ Goes(t, "starting")
            /\ process' = [process EXCEPT ![t] = "starting"]
            /\ cliLock' = [cliLock EXCEPT ![s] = t]
            /\ lifeLock' = [lifeLock EXCEPT ![s] = "start"]
       ELSE Goes(t, "leaving") /\ UNCHANGED <<process, cliLock, lifeLock>>
    /\ UNCHANGED <<parent, mine, cancels, registered, pool, latest, stoppers,
                   sessionClosed, sessionClosing, poolLock, poolSweep, sweeps>>

\* create_subprocess_exec returns and the process is registered, or it raises.
Spawned(t, ok) ==
    LET s == mine[t] IN
    /\ place[t] = "starting"
    /\ lifeLock' = [lifeLock EXCEPT ![s] = "free"]
    /\ process' = [process EXCEPT ![t] = IF ok THEN "running" ELSE "none"]
    /\ IF ok
       THEN /\ latest' = [latest EXCEPT ![s] = t] /\ registered' = registered \cup {t}
            /\ Goes(t, "reading") /\ UNCHANGED cliLock
       ELSE /\ Goes(t, "leaving") /\ cliLock' = [cliLock EXCEPT ![s] = NoTurn]
            /\ UNCHANGED <<latest, registered>>
    /\ UNCHANGED <<parent, mine, cancels, pool, stoppers, sessionClosed, sessionClosing,
                   poolLock, poolSweep, sweeps>>

\* An event is yielded and the runner awaits its own calls, or asks for the next.
Iterate(t, from, to) ==
    /\ place[t] = from
    /\ from = "reading" => process[t] = "running"
    /\ to = "registering" =>
          pool[mine[t]] = "temporary" /\ \A u \in Turns : mine[u] = mine[t] => u = t
    /\ Goes(t, to)
    /\ UNCHANGED <<parent, mine, cancels, process, registered, pool, latest, cliLock, lifeLock,
                   stoppers, sessionClosed, sessionClosing, poolLock, poolSweep, sweeps>>

\* register_real_session_id; if it is refused, the runner leaves the generator.
Register(t) ==
    LET ok == pool[mine[t]] = "temporary" /\ mine[t] \notin sessionClosing IN
    /\ place[t] = "registering" /\ poolLock = NoTurn
    /\ pool' = [pool EXCEPT ![mine[t]] = IF ok THEN "real" ELSE @]
    /\ Goes(t, IF ok THEN "reading" ELSE "leaving")
    /\ UNCHANGED <<parent, mine, cancels, process, registered, latest, cliLock, lifeLock,
                   stoppers, sessionClosed, sessionClosing, poolLock, poolSweep, sweeps>>

\* stdout and stderr end with the process, and the generator with them.
ReadToEnd(t) ==
    /\ place[t] \in {"reading", "draining"} /\ process[t] = "exited"
    /\ ReleaseCli(t)
    /\ Goes(t, "leaving")
    /\ UNCHANGED <<parent, mine, cancels, process, pool, latest, lifeLock, stoppers,
                   sessionClosed, sessionClosing, poolLock, poolSweep, sweeps>>


Closable(t) == process[t] = "exited"

\* A generator that was left at a yield is closed by the event loop; its finally
\* reads stderr to the end before the lock is free.
CloseGenerator(t) ==
    /\ place[t] \in {"leaving", "removing", "ended"} /\ mine[t] # NoSession
    /\ cliLock[mine[t]] = t /\ Closable(t)
    /\ ReleaseCli(t)
    /\ UNCHANGED <<place, parent, mine, cancels, process, pool, latest, lifeLock, stoppers,
                   sessionClosed, sessionClosing, poolLock, poolSweep, sweeps>>

\* The runner's finally: remove_session takes the pool's lock, or finds nothing.
BeginRemove(t) ==
    /\ place[t] = "leaving" /\ poolLock = NoTurn
    /\ IF mine[t] \in Pooled
       THEN /\ Goes(t, "removing") /\ poolLock' = t
            /\ sessionClosing' = sessionClosing \cup {mine[t]}
            /\ stoppers' = [stoppers EXCEPT ![mine[t]]["pool"] = "waiting"]
       ELSE Goes(t, "ended") /\ UNCHANGED <<poolLock, sessionClosing, stoppers>>
    /\ UNCHANGED <<parent, mine, cancels, process, registered, pool, latest, cliLock, lifeLock,
                   sessionClosed, poolSweep, sweeps>>

-----------------------------------------------------------------------------
(* Cancellation of a turn. *)

\* Whatever the turn awaits raises.  The generator shields its stop; a later
\* cancellation leaves that stop running, which has begun by then if it could.
\* remove_session is not shielded.
CancelTurn(t) ==
    LET s == mine[t]
        pools == s \in Sessions /\ place[t] = "removing"
        goes == CASE place[t] = "asking" -> "ended"
                  [] place[t] = "reading" -> "stopping"
                  [] place[t] = "stopping" -> "draining"
                  [] place[t] \in {"leaving", "removing"} -> "ended"
                  [] OTHER -> "leaving"
    IN
    /\ place[t] \notin {"unused", "ended"} /\ cancels[t] < MaxCancels
    /\ place[t] = "stopping" => stoppers[s]["generator"] = "killing" \/ lifeLock[s] # "free"
    /\ cancels' = [cancels EXCEPT ![t] = @ + 1]
    /\ Goes(t, goes)
    /\ process' = [process EXCEPT ![t] = IF place[t] = "starting" THEN "none" ELSE @]
    /\ cliLock' = IF place[t] \in {"starting", "draining"}
                  THEN [cliLock EXCEPT ![s] = NoTurn] ELSE cliLock
    /\ registered' = IF place[t] = "draining" /\ process[t] = "exited"
                     THEN registered \ {t} ELSE registered
    /\ lifeLock' = IF place[t] = "starting" \/ (pools /\ lifeLock[s] = "pool")
                   THEN [lifeLock EXCEPT ![s] = "free"] ELSE lifeLock
    /\ stoppers' = IF goes = "stopping" THEN [stoppers EXCEPT ![s]["generator"] = "waiting"]
                   ELSE IF pools THEN [stoppers EXCEPT ![s]["pool"] = "no"] ELSE stoppers
    /\ poolLock' = IF pools THEN NoTurn ELSE poolLock
    /\ UNCHANGED <<parent, mine, pool, latest, sessionClosed, sessionClosing, poolSweep, sweeps>>

-----------------------------------------------------------------------------
(* Stopping a session. *)

StillClosing(s) == sessionClosing \ {s}

\* What the caller of stop does with its answer.
Answer(s, h, ok) ==
    LET forgets == h = "pool" /\ ok IN
    /\ stoppers' = [stoppers EXCEPT ![s][h] = "no"]
    /\ pool' = [pool EXCEPT ![s] = IF forgets THEN "forgotten" ELSE @]
    /\ sessionClosing' = IF forgets THEN StillClosing(s) ELSE sessionClosing
    /\ poolSweep' = IF h = "pool" THEN poolSweep \ {s} ELSE poolSweep
    /\ poolLock' = IF h = "pool" /\ poolLock \in Turns THEN NoTurn ELSE poolLock
    /\ place' = [t \in Turns |->
                    IF h = "pool" /\ poolLock = t THEN "ended"
                    ELSE IF h = "generator" /\ mine[t] = s /\ place[t] = "stopping" THEN "draining"
                    ELSE place[t]]

Stoppable(s) == lifeLock[s] = "free"

\* stop has the lifecycle lock: there is nothing to stop, or the process is sent
\* a signal.
BeginStop(s, h) ==
    LET p == latest[s]
        idle == p = NoTurn \/ (p # NoTurn /\ process[p] = "exited")
    IN
    /\ stoppers[s][h] = "waiting" /\ Stoppable(s)
    /\ h = "pool" /\ poolLock = "all" => s \in poolSweep
    /\ sessionClosed' = [sessionClosed EXCEPT ![s] = TRUE]
    /\ IF idle
       THEN /\ Answer(s, h, TRUE)
            /\ registered' = registered \ {p}
            /\ UNCHANGED <<lifeLock, process>>
       ELSE /\ lifeLock' = [lifeLock EXCEPT ![s] = h]
            /\ stoppers' = [stoppers EXCEPT ![s][h] = "killing"]
            /\ process' = [process EXCEPT ![p] = "killed"]
            /\ UNCHANGED <<place, registered, pool, sessionClosing, poolLock, poolSweep>>
    /\ UNCHANGED <<parent, mine, cancels, latest, cliLock, sweeps>>

Confirmed(s) == process[latest[s]] = "exited"

\* The process has exited; killing one that is gone raises, and stop says FALSE.
EndStop(s, h, ok) ==
    /\ stoppers[s][h] = "killing" /\ Confirmed(s)
    /\ lifeLock' = [lifeLock EXCEPT ![s] = "free"]
    /\ registered' = IF ok THEN registered \ {latest[s]} ELSE registered
    /\ Answer(s, h, ok)
    /\ UNCHANGED <<parent, mine, cancels, process, latest, cliLock, sessionClosed, sweeps>>

\* stop_all takes the pool's lock, then stops one session after the other.
BeginSweep ==
    /\ poolLock = NoTurn /\ sweeps < MaxSweeps
    /\ poolLock' = "all" /\ sweeps' = sweeps + 1
    /\ poolSweep' = Pooled /\ sessionClosing' = Pooled
    /\ UNCHANGED <<place, parent, mine, cancels, process, registered, pool, latest, cliLock,
                   lifeLock, stoppers, sessionClosed>>

SweepNext(s) ==
    /\ poolLock = "all" /\ s \in poolSweep /\ \A r \in Sessions : stoppers[r]["pool"] = "no"
    /\ stoppers' = [stoppers EXCEPT ![s]["pool"] = "waiting"]
    /\ UNCHANGED <<place, parent, mine, cancels, process, registered, pool, latest, cliLock,
                   lifeLock, sessionClosed, sessionClosing, poolLock, poolSweep, sweeps>>

EndSweep ==
    /\ poolLock = "all" /\ poolSweep = {}
    /\ poolLock' = NoTurn
    /\ UNCHANGED <<place, parent, mine, cancels, process, registered, pool, latest, cliLock,
                   lifeLock, stoppers, sessionClosed, sessionClosing, poolSweep, sweeps>>

ProcessExits(t) ==
    /\ process[t] \in {"running", "killed"}
    /\ process' = [process EXCEPT ![t] = "exited"]
    /\ UNCHANGED <<place, parent, mine, cancels, registered, pool, latest, cliLock, lifeLock,
                   stoppers, sessionClosed, sessionClosing, poolLock, poolSweep, sweeps>>

-----------------------------------------------------------------------------
TurnStep(t) ==
    \/ GetSession(t) \/ StartTask(t) \/ \E ok \in BOOLEAN : Spawned(t, ok)
    \/ Register(t) \/ ReadToEnd(t) \/ CloseGenerator(t) \/ BeginRemove(t)

PoolStep ==
    \/ \E s \in Sessions, h \in Stoppers :
         BeginStop(s, h) \/ \E ok \in BOOLEAN : EndStop(s, h, ok)
    \/ \E s \in Sessions : SweepNext(s)
    \/ EndSweep

ManagedWork ==
    \/ \E t \in Turns : TurnStep(t) \/ (process[t] = "killed" /\ ProcessExits(t))
    \/ PoolStep

ManagedNext ==
    \/ ManagedWork
    \/ \E t \in Turns, p \in Parents \cup {NoParent} : Ask(t, p)
    \/ \E t \in Turns :
         \/ CancelTurn(t) \/ ProcessExits(t)
         \/ Iterate(t, "reading", "handling") \/ Iterate(t, "reading", "registering")
         \/ Iterate(t, "handling", "reading")
    \/ BeginSweep

ManagedSpec == ManagedInit /\ [][ManagedNext]_managedVars

\* Tasks are run, locks are handed on, and a killed process exits.  A process that
\* nobody kills may write events for ever, which counts as nobody's work.
ManagedFairness == WF_managedVars(ManagedWork)

-----------------------------------------------------------------------------
(* Properties. *)

\* A process that runs is in the registry, so that the end of the server kills it.
RunningIsRegistered ==
    \A t \in Turns : process[t] \in {"running", "killed"} => t \in registered

\* When the pool has forgotten a session, after remove_session or stop_all, none
\* of its processes runs and none starts: what outlives its turn is in the pool.
ForgottenIsDead ==
    \A t \in Turns : Running(t) => mine[t] \in Pooled

\* A session has one process at a time, also when a reply takes over the session
\* of a turn that was cancelled twice.
OneProcess ==
    \A t, u \in Turns : t # u /\ mine[t] = mine[u] => ~(Running(t) /\ Running(u))

\* The invariant of the pool: no process is lost, doubled, or left to nobody.
ManagedSafety == ManagedTypeOK /\ RunningIsRegistered /\ ForgottenIsDead /\ OneProcess

\* A cancelled turn ends: stops, removals and starts never wait for each other.
NobodyUnwinds == \A t \in Turns : cancels[t] > 0 => place[t] = "ended"
=============================================================================
