----------------------------- MODULE SessionFile ------------------------------
(***************************************************************************)
(* How the messaging state reaches its file: SessionStore                  *)
(* (messaging/session/store.py) over DebouncedJsonPersistence              *)
(* (messaging/session/persistence.py).  The event loop's thread changes    *)
(* the state and schedules, flushes or writes it; every scheduled save is  *)
(* a threading.Timer, that is a thread of its own.  A step is the code     *)
(* between two lock operations.  The store's lock is held over several     *)
(* steps only by the event loop's thread (StoreIsFree), the writer's lock  *)
(* while a thread is "writing"; the timer lock never over two steps.       *)
(*                                                                         *)
(* What is saved is a version number: every change of the state is a newer *)
(* version.  Taking a snapshot cannot fail, as it only copies dictionaries;*)
(* encoding and writing it can.  The file is replaced atomically.          *)
(***************************************************************************)
EXTENDS Integers

CONSTANTS
    MaxGeneration,   \* bound: saves and clears of one process
    MaxVersion       \* bound: changes of the state

ASSUME BoundsAssumption == MaxGeneration \in Nat \ {0} /\ MaxVersion \in Nat \ {0}

\* The event loop's thread.  The timer of generation g is thread g.
Loop == 0
Timers == 1..MaxGeneration
Threads == {Loop} \cup Timers

VARIABLES
    state,       \* version of _conversation and _managed_messages
    file,        \* version in the storage file
    dirty,       \* SessionStore._dirty
    generation,  \* _save_generation
    saveTimer,   \* _save_timer: the generation of its timer, 0 for None
    op,          \* what the event loop's thread does: "save", "clear", "flush"
    at,          \* where each thread is
    pending,     \* its _PendingWrite
    lost         \* history: the newest version whose write failed

vars == <<state, file, dirty, generation, saveTimer, op, at, pending, lost>>

NoWrite == [generation |-> 0, version |-> 0]

\* The event loop's thread between two operations.
Resting == {"returned", "raised"}

Writing ==
    {"claimed",      \* about to take the snapshot
     "snapped",      \* waits for the writer's lock
     "writing",      \* holds the writer's lock, its generation was current
     "wrote",        \* about to look whether its generation is still current
     "clean",        \* it was: about to clear the dirty flag
     "failed"}       \* the write raised: _write_pending sets the dirty flag

LoopStages == Resting \cup Writing \cup
    {"changed",      \* a save or clear has changed the state
     "flushing"}     \* a flush is about to claim the timer

TimerStages == Writing \cup
    {"unused",
     "armed",        \* the timer waits
     "fired",        \* _save_from_timer is about to claim the timer
     "reporting",    \* the write raised: _save_from_timer sets the flag, too
     "done"}

TypeOK ==
    /\ state \in 0..MaxVersion /\ file \in 0..MaxVersion
    /\ dirty \in BOOLEAN
    /\ generation \in 0..MaxGeneration
    /\ saveTimer \in {0, generation}
    /\ op \in {"none", "save", "clear", "flush"}
    /\ at \in [Threads -> LoopStages \cup TimerStages]
    /\ at[Loop] \in LoopStages
    /\ \A t \in Timers : at[t] \in TimerStages
    /\ pending \in [Threads -> [generation : 0..MaxGeneration, version : 0..MaxVersion]]
    /\ lost \in 0..MaxVersion

Init ==
    /\ state = 0 /\ file = 0
    /\ dirty = FALSE
    /\ generation = 0
    /\ saveTimer = 0
    /\ op = "none"
    /\ at = [t \in Threads |-> IF t = Loop THEN "returned" ELSE "unused"]
    /\ pending = [t \in Threads |-> NoWrite]
    /\ lost = 0

-----------------------------------------------------------------------------
(* Locks. *)

\* A save or clear holds the store's lock to its end; the lock is reentrant.
StoreIsFree(t) == t = Loop \/ at[Loop] \in Resting \/ op = "flush"

WriterIsFree == \A t \in Threads : at[t] # "writing"

\* Cancelling the armed timer; one that has fired is past cancelling.
TimerCancelled == IF saveTimer # 0 /\ at[saveTimer] = "armed"
                  THEN [at EXCEPT ![saveTimer] = "done"] ELSE at

-----------------------------------------------------------------------------
(* The event loop's thread. *)

\* An operation changes the state and marks it dirty, or only marks it dirty.
Begin(kind) ==
    /\ at[Loop] \in Resting
    /\ kind # "flush" => generation < MaxGeneration /\ state < MaxVersion
    /\ op' = kind
    /\ state' = IF kind = "flush" THEN state ELSE state + 1
    /\ dirty' = TRUE
    /\ at' = [at EXCEPT ![Loop] = IF kind = "flush" THEN "flushing" ELSE "changed"]
    /\ UNCHANGED <<file, generation, saveTimer, pending, lost>>

\* schedule_save under the timer lock.
Schedule ==
    /\ at[Loop] = "changed" /\ op = "save"
    /\ generation' = generation + 1
    /\ saveTimer' = generation + 1
    /\ at' = [TimerCancelled EXCEPT ![Loop] = "returned", ![generation + 1] = "armed"]
    /\ UNCHANGED <<state, file, dirty, op, pending, lost>>

\* Mutant: the generation is not bumped.
InvalidateKeepingGeneration ==
    /\ at[Loop] = "changed" /\ op = "clear"
    /\ saveTimer' = 0
    /\ pending' = [pending EXCEPT ![Loop] = [generation |-> generation, version |-> state]]
    /\ at' = [TimerCancelled EXCEPT ![Loop] = "snapped"]
    /\ UNCHANGED <<state, file, dirty, op, generation, lost>>

\* write_data: older snapshots are invalidated by the new generation.
Invalidate ==
    /\ at[Loop] = "changed" /\ op = "clear"
    /\ generation' = generation + 1
    /\ saveTimer' = 0
    /\ pending' = [pending EXCEPT ![Loop] = [generation |-> generation + 1, version |-> state]]
    /\ at' = [TimerCancelled EXCEPT ![Loop] = "snapped"]
    /\ UNCHANGED <<state, file, dirty, op, lost>>

-----------------------------------------------------------------------------
(* Every thread. *)

\* The debounce time of a timer is over.
Fire(t) ==
    /\ at[t] = "armed"
    /\ at' = [at EXCEPT ![t] = "fired"]
    /\ UNCHANGED <<state, file, dirty, generation, saveTimer, op, pending, lost>>

\* _claim_timer by a flush.
ClaimForFlush ==
    /\ at[Loop] = "flushing"
    /\ saveTimer' = 0
    /\ pending' = [pending EXCEPT ![Loop].generation = generation]
    /\ at' = [TimerCancelled EXCEPT ![Loop] = "claimed"]
    /\ UNCHANGED <<state, file, dirty, generation, op, lost>>

\* Mutant: the timer is taken before the generation is compared.
ClaimClearingFirst(t) ==
    /\ at[t] = "fired"
    /\ saveTimer' = 0
    /\ at' = [TimerCancelled EXCEPT ![t] = IF t = generation /\ saveTimer # 0 THEN "claimed"
                                           ELSE "done"]
    /\ pending' = [pending EXCEPT ![t].generation = generation]
    /\ UNCHANGED <<state, file, dirty, generation, op, lost>>

\* _claim_timer by a timer's thread: only its own generation, and only once.
Claim(t) ==
    /\ at[t] = "fired"
    /\ IF t = generation /\ saveTimer # 0
       THEN /\ saveTimer' = 0
            /\ pending' = [pending EXCEPT ![t].generation = generation]
            /\ at' = [at EXCEPT ![t] = "claimed"]
       ELSE /\ at' = [at EXCEPT ![t] = "done"]
            /\ UNCHANGED <<saveTimer, pending>>
    /\ UNCHANGED <<state, file, dirty, generation, op, lost>>

\* _snapshot_for_persistence under the store's lock.
Snapshot(t) ==
    /\ at[t] = "claimed" /\ StoreIsFree(t)
    /\ pending' = [pending EXCEPT ![t].version = state]
    /\ at' = [at EXCEPT ![t] = "snapped"]
    /\ UNCHANGED <<state, file, dirty, generation, saveTimer, op, lost>>

\* Where a thread is when its write is over.
Over(t, outcome) == IF t = Loop THEN outcome ELSE "done"

\* Mutant: superseded snapshots are not rejected.
CurrentAnyway(t) == TRUE

Current(t) == pending[t].generation = generation

\* _write_if_current takes the writer's lock and rejects a superseded snapshot.
BeginWrite(t) ==
    /\ at[t] = "snapped" /\ WriterIsFree
    /\ at' = [at EXCEPT ![t] = IF Current(t) THEN "writing" ELSE Over(t, "returned")]
    /\ UNCHANGED <<state, file, dirty, generation, saveTimer, op, pending, lost>>

\* _write_file replaces the file, or raises and leaves it alone.
Replace(t) ==
    /\ at[t] = "writing"
    /\ file' = pending[t].version
    /\ at' = [at EXCEPT ![t] = "wrote"]
    /\ UNCHANGED <<state, dirty, generation, saveTimer, op, pending, lost>>

FailWrite(t) ==
    /\ at[t] = "writing"
    /\ lost' = IF pending[t].version > lost THEN pending[t].version ELSE lost
    /\ at' = [at EXCEPT ![t] = "failed"]
    /\ UNCHANGED <<state, file, dirty, generation, saveTimer, op, pending>>

\* _mark_clean_if_current looks under the timer lock ...
LookIfCurrent(t) ==
    /\ at[t] = "wrote"
    /\ at' = [at EXCEPT ![t] = IF saveTimer = 0 /\ Current(t) THEN "clean"
                               ELSE Over(t, "returned")]
    /\ UNCHANGED <<state, file, dirty, generation, saveTimer, op, pending, lost>>

\* ... and clears the flag after it has released that lock.
MarkClean(t) ==
    /\ at[t] = "clean" /\ StoreIsFree(t)
    /\ dirty' = FALSE
    /\ at' = [at EXCEPT ![t] = Over(t, "returned")]
    /\ UNCHANGED <<state, file, generation, saveTimer, op, pending, lost>>

\* The handlers of a failed write.
MarkDirty(t) ==
    /\ at[t] \in {"failed", "reporting"} /\ StoreIsFree(t)
    /\ dirty' = TRUE
    /\ at' = [at EXCEPT ![t] = IF at[t] = "failed" /\ t # Loop THEN "reporting"
                               ELSE Over(t, "raised")]
    /\ UNCHANGED <<state, file, generation, saveTimer, op, pending, lost>>

\* The process ends at any moment (timer threads are daemons) and a new one
\* loads the file.
Restart ==
    /\ state' = file
    /\ dirty' = FALSE
    /\ generation' = 0
    /\ saveTimer' = 0
    /\ op' = "none"
    /\ at' = [t \in Threads |-> IF t = Loop THEN "returned" ELSE "unused"]
    /\ pending' = [t \in Threads |-> NoWrite]
    /\ lost' = 0
    /\ UNCHANGED file

Write(t) == Claim(t) \/ Snapshot(t) \/ BeginWrite(t) \/ Replace(t)
            \/ LookIfCurrent(t) \/ MarkClean(t) \/ MarkDirty(t)

Next ==
    \/ \E kind \in {"save", "clear", "flush"} : Begin(kind)
    \/ Schedule
    \/ Invalidate
    \/ ClaimForFlush
    \/ \E t \in Threads : Fire(t) \/ Write(t) \/ FailWrite(t)
    \/ Restart

Spec == Init /\ [][Next]_vars

(* Threads that can go on do, and the debounce time ends; writes may fail *)
(* for ever, and nobody has to change or flush the state.                 *)
Fairness ==
    /\ WF_vars(Schedule) /\ WF_vars(Invalidate) /\ WF_vars(ClaimForFlush)
    /\ \A t \in Threads : WF_vars(Fire(t)) /\ WF_vars(Write(t))

FairSpec == Spec /\ Fairness

-----------------------------------------------------------------------------
(* Properties. *)

(* The file never goes back to an older state, whichever threads hold     *)
(* older snapshots, whatever fails and wherever the process ends: "a      *)
(* claimed old snapshot cannot land after a newer flushed snapshot"       *)
(* (test_session_store_edge_cases.py).                                    *)
FileNeverGoesBack == [][file' >= file]_vars

(* A flush or clear that returns has put the current state into the file, *)
(* and nothing has replaced it when the next operation starts:            *)
(* MessagingWorkflow.close and /clear rely on it.                         *)
DurableOnReturn == at[Loop] = "returned" /\ op \in {"clear", "flush"} => file = state

(* Somebody will still write the state: a timer waits, or a thread has     *)
(* claimed one and its generation is current.                             *)
SaveInFlight ==
    \/ saveTimer # 0 /\ at[saveTimer] \in {"armed", "fired"}
    \/ at[Loop] \in {"changed", "flushing"}
    \/ \E t \in Threads : at[t] \in {"claimed", "snapped", "writing"} /\ Current(t)

(* Every change is in the file or on its way there, unless a write of it   *)
(* failed: "an already-running old timer cannot consume the newest save"  *)
(* (test_session_store_edge_cases.py).                                    *)
ChangesAreNotForgotten == file = state \/ SaveInFlight \/ lost = state

(* Every change reaches the file, unless its write fails or the process    *)
(* ends before, when this holds again and again: timers and writers never *)
(* wait for each other in a circle, although a clear waits for the        *)
(* writer's lock under the store's lock.                                  *)
StateIsSaved == file = state \/ lost >= state
=============================================================================
