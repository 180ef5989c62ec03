----------------------------- MODULE CodeSessions ------------------------------
(***************************************************************************)
(* One coding session of the Code service: CodeService                     *)
(* (application/code_sessions/service.py) with its SessionState (state.py) *)
(* over the transactions of SQLiteCodeStore (runtime/code_sessions_sqlite  *)
(* .py), and the Codex processes it opens (runtime/codex_app_server.py),   *)
(* as far as it sees them.  Everything a command or an event changes is    *)
(* saved before it is installed, so one copy stands for the rows and for   *)
(* the state in memory; a crash loses the tasks, and the restart settles   *)
(* what was active.                                                        *)
(*                                                                         *)
(* A section that holds the session's lock is one step.  Operations are    *)
(* the ids of Send commands; the run of a Send has the same id.            *)
(***************************************************************************)
EXTENDS Integers, Sequences, FiniteSets

CONSTANTS
    Senders,            \* clients that send
    MaxOperations,      \* bound: ids of Send commands
    MaxConnections,     \* bound: Codex processes
    MaxThreads,         \* bound: native conversations
    MaxCrashes          \* bound: crashes of the server

ASSUME CodeAssumption ==
    MaxOperations \in Nat /\ MaxConnections \in Nat /\ MaxThreads \in Nat /\ MaxCrashes \in Nat

Operations == 1..MaxOperations
Generations == 1..MaxConnections
Over == MaxConnections + 1

VARIABLES
    service,    \* down, up, stopping, closed
    closer,     \* how far close has come
    crashes,
    storage,    \* storage_failed
    session,    \* status, native_thread_id and native_may_have_input
    current,    \* the session's latest run, or 0
    runs,       \* status, stop_requested, submission_started, native_turn_id (0 if unknown)
    prompt,     \* the prompt that is open: the turn that asked it, or 0 for a subagent's
    sends,      \* each client's Send: checked, and stale if the revision has moved
    connection, \* the owner's connection, or 0
    loaded,     \* loaded_thread_id, or 0
    events,     \* the connection's events to be dispatched
    process,    \* each Codex process: its conversation, and whether a turn has begun in it
    native,     \* conversations that exist, and the process of each run's turn (0, or Over)
    job,        \* the _work task of each run; late if its run had ended when it opened a process
    hand,       \* the process whose close a task awaits
    interrupter,\* the _interrupt task of each run
    deleter,    \* the _delete_native task
    halter,     \* the _halt_storage task
    answerer    \* the _deliver_answer task when its answer could not be confirmed

stored == <<session, current, runs, prompt, sends>>
linkVars == <<connection, loaded, events>>
serverVars == <<service, closer, crashes>>
helpers == <<halter, answerer>>
codeVars == <<serverVars, storage, stored, linkVars, process, native, job, hand, interrupter,
              deleter, helpers>>

ActiveStatuses == {"preparing", "running", "stopping"}
FinalStatuses == {"completed", "failed", "interrupted"}
Busy == current # 0 /\ runs[current].status \in ActiveStatuses
IsActive(o) == o # 0 /\ current = o /\ Busy
PromptOpen == prompt.status # "none"
Saves == storage = "fine"

JobStages == {"none", "replace", "closeOld", "open", "thread", "attach", "start", "bind",
              "wait", "fail", "closeFailed", "settle", "final", "closeFinal", "over"}
Tasks == [kind : {"job", "interrupter"}, of : Operations]
            \cup [kind : {"deleter", "halter", "closer", "answerer"}, of : {0}]
Task(kind, o) == [kind |-> kind, of |-> o]
Only(kind) == Task(kind, 0)

CodeTypeOK ==
    /\ service \in {"down", "up", "stopping", "closed"} /\ crashes \in 0..MaxCrashes
    /\ closer \in {"none", "commands", "stop", "jobs", "close", "settle", "gather", "over"}
    /\ storage \in {"fine", "failed"}
    /\ session \in [status : {"ready", "deleting", "delete_uncertain", "deleted"},
                    thread : 0..MaxThreads, fed : BOOLEAN]
    /\ current \in {0} \cup Operations
    /\ runs \in [Operations -> [status : {"none"} \cup ActiveStatuses \cup FinalStatuses,
                                stop : BOOLEAN, submitted : BOOLEAN,
                                turn : {0} \cup Operations]]
    /\ prompt \in [status : {"none", "pending", "answering"}, generation : 0..MaxConnections,
                   turn : {0} \cup Operations]
    /\ sends \in [Senders -> [operation : {0} \cup Operations, stale : BOOLEAN]]
    /\ connection \in 0..MaxConnections /\ loaded \in 0..MaxThreads
    /\ process \in [Generations -> [state : {"none", "alive", "dead"}, thread : 0..MaxThreads,
                                 begun : BOOLEAN]]
    /\ native \in [threads : SUBSET (1..MaxThreads),
                   turn : [Operations -> 0..Over],
                   inputs : [Operations -> 0..2]]
    /\ job \in [Operations -> [stage : JobStages, generation : 0..MaxConnections,
                               thread : 0..MaxThreads, late : BOOLEAN]]
    /\ hand \in [Tasks -> 0..MaxConnections]
    /\ interrupter \in [Operations -> {"none", "ask", "wait", "close", "settle", "over"}]
    /\ deleter \in [stage : {"none", "begin", "native", "close", "remove", "failed", "closeFailed",
                            "save"},
                    reconcile : BOOLEAN, outcome : {"ready", "delete_uncertain"}, done : BOOLEAN]
    /\ halter \in {"none", "begin", "close", "over"}
    /\ answerer \in [stage : {"none", "close", "settle"}, of : {0} \cup Operations]

Idle == [operation |-> 0, stale |-> FALSE]
NoPrompt == [status |-> "none", generation |-> 0, turn |-> 0]
NoDeletion == [stage |-> "none", reconcile |-> FALSE, outcome |-> "ready", done |-> FALSE]
NoAnswer == [stage |-> "none", of |-> 0]
NoJob == [stage |-> "none", generation |-> 0, thread |-> 0, late |-> FALSE]

CodeInit ==
    /\ service = "up" /\ closer = "none" /\ crashes = 0 /\ storage = "fine"
    /\ session = [status |-> "ready", thread |-> 0, fed |-> FALSE]
    /\ current = 0
    /\ runs = [o \in Operations |->
                  [status |-> "none", stop |-> FALSE, submitted |-> FALSE, turn |-> 0]]
    /\ prompt = NoPrompt
    /\ sends = [s \in Senders |-> Idle]
    /\ connection = 0 /\ loaded = 0 /\ events = <<>>
    /\ process = [g \in Generations |-> [state |-> "none", thread |-> 0, begun |-> FALSE]]
    /\ native = [threads |-> {}, turn |-> [o \in Operations |-> 0],
                 inputs |-> [o \in Operations |-> 0]]
    /\ job = [o \in Operations |-> NoJob]
    /\ hand = [t \in Tasks |-> 0]
    /\ interrupter = [o \in Operations |-> "none"]
    /\ deleter = NoDeletion /\ halter = "none" /\ answerer = NoAnswer

-----------------------------------------------------------------------------
(* Changes that several sections make. *)

\* The revision moves: a Send that was checked before it will be refused.
Stale == [s \in Senders |-> [sends[s] EXCEPT !.stale = sends[s].operation # 0]]

\* prepare_finish: the prompts of the run's own turn end with it.
Finish(status) ==
    /\ runs' = [runs EXCEPT ![current].status = status]
    /\ prompt' = IF prompt.turn # 0 /\ prompt.turn = runs[current].turn THEN NoPrompt ELSE prompt
    /\ sends' = Stale
    /\ UNCHANGED <<session, current>>

\* _detach_connection_locked by a task that goes on to close the process.
Detach(t) ==
    /\ hand' = [hand EXCEPT ![t] = connection]
    /\ connection' = 0 /\ loaded' = 0 /\ events' = <<>>

\* The process that the task t closes has ended, if it closes one.
Closed(t) == hand[t] # 0 => process[hand[t]].state = "dead"

\* The rest of _close_connection: a conversation that was created meanwhile is
\* saved, and what cannot be answered any more expires.
AfterClose(t) ==
    /\ Closed(t)
    /\ hand' = [hand EXCEPT ![t] = 0]
    /\ IF session.status # "deleted" /\ Saves
       THEN /\ session' = IF hand[t] # 0 /\ session.thread = 0
                          THEN [session EXCEPT !.thread = process[hand[t]].thread] ELSE session
            /\ prompt' = NoPrompt
       ELSE UNCHANGED <<session, prompt>>

\* _schedule_interrupt: once for a run, when its turn is known.
Interrupts(known, stop) ==
    interrupter' = IF /\ current # 0 /\ connection # 0 /\ known /\ stop
                      /\ interrupter[current] = "none"
                   THEN [interrupter EXCEPT ![current] = "ask"] ELSE interrupter

-----------------------------------------------------------------------------
(* Commands. *)

CanSend == service = "up" /\ Saves /\ session.status = "ready" /\ ~Busy /\ ~PromptOpen

\* _send up to the preparation of the harness, for which the lock is given up.  An
\* operation that has its run already is answered with it.
CheckSend(s, o) ==
    /\ sends[s].operation = 0 /\ CanSend /\ runs[o].status = "none"
    /\ sends' = [sends EXCEPT ![s] = [operation |-> o, stale |-> FALSE]]
    /\ UNCHANGED <<serverVars, storage, session, current, runs, prompt, linkVars, process, native,
                   job, hand, interrupter, deleter, helpers>>

\* Mutant: the second look does not look at the revision and the receipts.
AdmittedUnchecked(s) == CanSend

\* What is checked again before the run is admitted.
Admitted(s) == CanSend /\ ~sends[s].stale /\ runs[sends[s].operation].status = "none"

\* The rest of _send: the run is admitted with its message, or refused.  The run's task
\* starts before anybody waiting for the lock.
AdmitSend(s) ==
    LET o == sends[s].operation IN
    /\ o # 0
    /\ \/ /\ Admitted(s)
          /\ current' = o
          /\ runs' = [runs EXCEPT ![o].status = "preparing"]
          /\ sends' = [Stale EXCEPT ![s] = Idle]
          /\ \/ connection = 0 /\ job' = [job EXCEPT ![o].stage = "open"]
             \/ /\ connection # 0 /\ process[connection].state = "alive"
                /\ job' = [job EXCEPT ![o].stage = "thread", ![o].generation = connection]
             \/ connection # 0 /\ job' = [job EXCEPT ![o].stage = "replace"]
       \/ sends' = [sends EXCEPT ![s] = Idle] /\ UNCHANGED <<current, runs, job>>
    /\ UNCHANGED <<serverVars, storage, session, prompt, linkVars, process, native, hand,
                   interrupter, deleter, helpers>>

\* Another client renames the session.
UpdateSettings ==
    /\ service = "up" /\ Saves /\ session.status = "ready"
    /\ \E s \in Senders : sends[s].operation # 0 /\ ~sends[s].stale
    /\ sends' = Stale
    /\ UNCHANGED <<serverVars, storage, session, current, runs, prompt, linkVars, process, native,
                   job, hand, interrupter, deleter, helpers>>

\* request_stop is saved, and the turn is interrupted if it is known.
RequestStop ==
    /\ Busy /\ Saves
    /\ runs' = [runs EXCEPT ![current].stop = TRUE,
                            ![current].status = IF runs[current].stop THEN @ ELSE "stopping"]
    /\ Interrupts(runs[current].turn # 0, TRUE)
    /\ UNCHANGED <<session, current, prompt, sends>>

Stop ==
    /\ service = "up" /\ Busy /\ ~runs[current].stop
    /\ RequestStop
    /\ UNCHANGED <<serverVars, storage, linkVars, process, native, job, hand, deleter, helpers>>

\* answer claims the prompt; _deliver_answer gives it to the process, which still has
\* the request if it is alive, and otherwise it expires.  The lock is handed out in the
\* order of the requests: a run's task that is to replace the connection has asked for it
\* before a client can have seen a prompt that came after the run was admitted.
Answer ==
    /\ service = "up" /\ Saves /\ prompt.status = "pending"
    /\ \A o \in Operations : job[o].stage # "replace"
    /\ connection # 0 /\ prompt.generation = connection
    /\ process[connection].state = "alive"
    /\ prompt' = [prompt EXCEPT !.status = "answering"]
    /\ UNCHANGED <<serverVars, storage, session, current, runs, sends, linkVars, process, native,
                   job, hand, interrupter, deleter, helpers>>

\* Answered, or expired because the process cannot take the answer any more.
DeliverAnswer ==
    /\ prompt.status = "answering" /\ Saves
    /\ connection # 0 /\ prompt.generation = connection
    /\ prompt' = NoPrompt
    /\ UNCHANGED <<serverVars, storage, session, current, runs, sends, linkVars, process, native,
                   job, hand, interrupter, deleter, helpers>>

\* The answer could not be confirmed and is not given again: the process is closed and
\* the run of the session, if one is active, fails.
AnswerFails ==
    /\ prompt.status = "answering" /\ answerer = NoAnswer
    /\ connection # 0 /\ prompt.generation = connection
    /\ answerer' = [stage |-> "close", of |-> IF Busy THEN current ELSE 0]
    /\ Detach(Only("answerer"))
    /\ UNCHANGED <<serverVars, storage, stored, process, native, job, interrupter, deleter, halter>>

ClosedAnswered ==
    /\ answerer.stage = "close" /\ AfterClose(Only("answerer"))
    /\ answerer' = [answerer EXCEPT !.stage = "settle"]
    /\ UNCHANGED <<serverVars, storage, current, runs, sends, linkVars, process, native, job,
                   interrupter, deleter, halter>>

SettleAnswered ==
    /\ answerer.stage = "settle" /\ answerer' = NoAnswer
    /\ IF IsActive(answerer.of) /\ Saves
       THEN Finish(IF runs[current].stop THEN "interrupted" ELSE "failed")
       ELSE UNCHANGED stored
    /\ UNCHANGED <<serverVars, storage, linkVars, process, native, job, hand, interrupter, deleter,
                   halter>>

\* delete_session fences the session off before its histories are removed.  One that
\* is uncertain is only looked at.
Delete ==
    /\ service = "up" /\ Saves /\ deleter.stage = "none"
    /\ \/ session.status = "ready" /\ ~Busy /\ ~PromptOpen
          /\ session' = [session EXCEPT !.status = "deleting"] /\ sends' = Stale
          /\ deleter' = [NoDeletion EXCEPT !.stage = "begin"]
       \/ session.status = "delete_uncertain"
          /\ deleter' = [NoDeletion EXCEPT !.stage = "begin", !.reconcile = TRUE]
          /\ UNCHANGED <<session, sends>>
    /\ UNCHANGED <<serverVars, storage, current, runs, prompt, linkVars, process, native, job,
                   hand, interrupter, helpers>>

-----------------------------------------------------------------------------
(* The _work task of a run. *)

Goes(o, stage) == job' = [job EXCEPT ![o].stage = stage]
Rests(o) == job' = [job EXCEPT ![o] = [NoJob EXCEPT !.stage = "over", !.late = job[o].late]]

\* A connection that does not support the selection is closed first.
CloseOld(o) ==
    /\ job[o].stage = "replace"
    /\ Detach(Task("job", o)) /\ Goes(o, "closeOld")
    /\ UNCHANGED <<serverVars, storage, stored, process, native, interrupter, deleter, helpers>>

ClosedOld(o) ==
    /\ job[o].stage = "closeOld" /\ AfterClose(Task("job", o))
    /\ Goes(o, "open")
    /\ UNCHANGED <<serverVars, storage, current, runs, sends, linkVars, process, native,
                   interrupter, deleter, helpers>>

\* A process is started and becomes the owner's connection.
Opened(g) ==
    /\ process[g].state = "none" /\ \A h \in Generations : h < g => process[h].state # "none"
    /\ process' = [process EXCEPT ![g].state = "alive"]
    /\ connection' = g /\ events' = <<>>
    /\ UNCHANGED loaded

\* The session still waits for the run's process, or its shutdown has just settled the run.
Expected(o) == IsActive(o) \/ (closer = "gather" /\ current = o /\ session.status = "ready")

Open(o) ==
    /\ job[o].stage = "open"
    /\ \/ \E g \in Generations :
             Opened(g) /\ job' = [job EXCEPT ![o].stage = "thread", ![o].generation = g,
                                             ![o].late = ~Expected(o)]
       \/ Goes(o, "fail") /\ UNCHANGED <<linkVars, process>>
    /\ UNCHANGED <<serverVars, storage, stored, native, hand, interrupter, deleter, helpers>>

Alive(o) == process[job[o].generation].state = "alive"

\* The conversation is created, resumed if the process has not loaded it, or created
\* again if it is missing and has had no input.
Thread(o) ==
    LET t == session.thread
        g == job[o].generation IN
    /\ job[o].stage = "thread"
    /\ \/ /\ t = 0 \/ (loaded # t /\ t \notin native.threads /\ ~session.fed)
          /\ ~(t = 0 /\ runs[current].stop) /\ Alive(o)
          /\ \E n \in 1..MaxThreads :
               /\ n \notin native.threads /\ n # t
               /\ native' = [native EXCEPT !.threads = @ \cup {n}]
               /\ process' = [process EXCEPT ![g].thread = n]
               /\ job' = [job EXCEPT ![o].stage = "attach", ![o].thread = n]
          /\ UNCHANGED stored
       \/ /\ t = 0 /\ runs[current].stop /\ Saves
          /\ IF Busy THEN Finish("interrupted") ELSE UNCHANGED stored
          /\ Goes(o, "final") /\ UNCHANGED <<native, process>>
       \/ /\ t # 0 /\ loaded # t /\ t \in native.threads /\ Alive(o)
          /\ process' = [process EXCEPT ![g].thread = t]
          /\ job' = [job EXCEPT ![o].stage = "attach", ![o].thread = t]
          /\ UNCHANGED <<stored, native>>
       \/ /\ t # 0 /\ loaded = t
          /\ job' = [job EXCEPT ![o].stage = "attach", ![o].thread = 0]
          /\ UNCHANGED <<stored, native, process>>
       \/ ~(t # 0 /\ loaded = t) /\ Goes(o, "fail") /\ UNCHANGED <<stored, native, process>>
    /\ UNCHANGED <<serverVars, storage, linkVars, hand, interrupter, deleter, helpers>>

\* The runs whose input may have reached the conversation, when it is loaded: the turn
\* of each is found in it.
Recovered(thread) ==
    [o \in Operations |->
        IF thread # 0 /\ runs[o].submitted /\ native.turn[o] # 0
        THEN [runs[o] EXCEPT !.turn = o] ELSE runs[o]]

\* Under the lock: the conversation is saved, its history recovered, and the
\* submission marked before the input is given away.
Attach(o) ==
    LET t == job[o].thread
        thread == IF t = 0 THEN session.thread ELSE t
        old == Recovered(t) IN
    /\ job[o].stage = "attach" /\ Saves /\ connection = job[o].generation
    /\ loaded' = IF t = 0 THEN loaded ELSE t
    /\ IF ~IsActive(o)
       THEN /\ runs' = old /\ session' = [session EXCEPT !.thread = thread] /\ Goes(o, "final")
            /\ UNCHANGED <<current, prompt, sends>>
       ELSE IF runs[o].stop \/ service # "up"
       THEN /\ runs' = [old EXCEPT ![o].status = "interrupted"]
            /\ session' = [session EXCEPT !.thread = thread] /\ Goes(o, "final")
            /\ sends' = Stale /\ UNCHANGED <<current, prompt>>
       ELSE /\ runs' = [old EXCEPT ![o].submitted = TRUE]
            /\ session' = [session EXCEPT !.thread = thread, !.fed = TRUE]
            /\ Goes(o, "start") /\ UNCHANGED <<current, prompt, sends>>
    /\ UNCHANGED <<serverVars, storage, connection, events, process, native, hand, interrupter,
                   deleter, helpers>>

\* turn/start: the process may take the input, and answer or not.
StartTurn(o) ==
    /\ job[o].stage = "start"
    /\ \/ /\ Alive(o)
          /\ native' = [native EXCEPT !.inputs[o] = @ + 1, !.turn[o] = job[o].generation]
          /\ process' = [process EXCEPT ![job[o].generation].begun = TRUE]
          /\ events' = IF connection = job[o].generation
                       THEN Append(events, [kind |-> "started", of |-> o]) ELSE events
          /\ \/ Goes(o, "bind") \/ Goes(o, "fail")
       \/ Goes(o, "fail") /\ UNCHANGED <<native, events, process>>
    /\ UNCHANGED <<serverVars, storage, stored, connection, loaded, hand, interrupter,
                   deleter, helpers>>

\* The answer names the turn; the task waits for the run's end.
Bind(o) ==
    /\ job[o].stage = "bind"
    /\ IF IsActive(o)
       THEN /\ Saves
            /\ runs' = [runs EXCEPT ![o].turn = o,
                                    ![o].status = IF runs[o].stop THEN "stopping" ELSE "running"]
            /\ Interrupts(TRUE, runs[o].stop)
            /\ Goes(o, "wait")
       ELSE Goes(o, "final") /\ UNCHANGED <<runs, interrupter>>
    /\ UNCHANGED <<serverVars, storage, session, current, prompt, sends, linkVars, process, native,
                   hand, deleter, helpers>>

EndWait(o) ==
    /\ job[o].stage = "wait" /\ (~IsActive(o) \/ halter = "over")
    /\ Goes(o, "final")
    /\ UNCHANGED <<serverVars, storage, stored, linkVars, process, native, hand, interrupter,
                   deleter, helpers>>

\* A commit of the task raises, or the answer it waits for is lost with the process.
WorkFails(o) ==
    /\ \/ job[o].stage \in {"attach", "bind"} /\ ~Saves
       \/ job[o].stage = "attach" /\ connection # job[o].generation
    /\ Goes(o, "fail")
    /\ UNCHANGED <<serverVars, storage, stored, linkVars, process, native, hand, interrupter,
                   deleter, helpers>>

\* _fail of the run, if it is still the active one: its connection is closed first.
Fail(o) ==
    /\ job[o].stage = "fail"
    /\ IF IsActive(o) THEN Detach(Task("job", o)) /\ Goes(o, "closeFailed")
       ELSE Goes(o, "final") /\ UNCHANGED <<linkVars, hand>>
    /\ UNCHANGED <<serverVars, storage, stored, process, native, interrupter, deleter, helpers>>

ClosedFailed(o) ==
    /\ job[o].stage = "closeFailed" /\ AfterClose(Task("job", o))
    /\ Goes(o, "settle")
    /\ UNCHANGED <<serverVars, storage, current, runs, sends, linkVars, process, native,
                   interrupter, deleter, helpers>>

Settle(o) ==
    /\ job[o].stage = "settle"
    /\ IF IsActive(o) /\ Saves
       THEN Finish(IF runs[o].stop THEN "interrupted" ELSE "failed")
       ELSE UNCHANGED stored
    /\ Goes(o, "final")
    /\ UNCHANGED <<serverVars, storage, linkVars, process, native, hand, interrupter, deleter,
                   helpers>>

\* The last thing the task does is close a connection nobody will need.
EndWork(o) ==
    /\ job[o].stage = "final"
    /\ IF service # "up" \/ ~Saves THEN Detach(Task("job", o)) /\ Goes(o, "closeFinal")
       ELSE Rests(o) /\ UNCHANGED <<linkVars, hand>>
    /\ UNCHANGED <<serverVars, storage, stored, process, native, interrupter, deleter, helpers>>

ClosedFinal(o) ==
    /\ job[o].stage = "closeFinal" /\ AfterClose(Task("job", o))
    /\ Rests(o)
    /\ UNCHANGED <<serverVars, storage, current, runs, sends, linkVars, process, native,
                   interrupter, deleter, helpers>>

-----------------------------------------------------------------------------
(* The interruption of a run. *)

\* The process is asked; it may end the turn, and may not answer.
AskInterrupt(o) ==
    /\ interrupter[o] = "ask"
    /\ interrupter' = [interrupter EXCEPT ![o] = "wait"]
    /\ UNCHANGED <<serverVars, storage, stored, linkVars, process, native, job, hand, deleter,
                   helpers>>

\* The run has ended meanwhile, or is not waited for any longer: then the process is
\* closed, if it is still this run's.
EndInterrupt(o) ==
    /\ interrupter[o] = "wait"
    /\ IF ~IsActive(o) \/ connection = 0
       THEN interrupter' = [interrupter EXCEPT ![o] = "over"] /\ UNCHANGED <<linkVars, hand>>
       ELSE /\ interrupter' = [interrupter EXCEPT ![o] = "close"]
            /\ Detach(Task("interrupter", o))
    /\ UNCHANGED <<serverVars, storage, stored, process, native, job, deleter, helpers>>

\* The run is finished; prompts that are not of its turn are left as they are.
ClosedInterrupted(o) ==
    /\ interrupter[o] = "close" /\ Closed(Task("interrupter", o))
    /\ hand' = [hand EXCEPT ![Task("interrupter", o)] = 0]
    /\ interrupter' = [interrupter EXCEPT ![o] = "over"]
    /\ IF IsActive(o) /\ Saves THEN Finish("interrupted") ELSE UNCHANGED stored
    /\ UNCHANGED <<serverVars, storage, linkVars, process, native, job, deleter, helpers>>


-----------------------------------------------------------------------------
(* Codex: its processes, and the events that are dispatched under the lock. *)

\* The turns of a process that has ended are over, and the owner learns of it.  Its
\* conversation is remembered only if the session has none yet.
Ends(g) ==
    /\ process' = [process EXCEPT ![g].state = "dead",
                                  ![g].thread = IF session.thread = 0 THEN @ ELSE 0]
    /\ native' = [native EXCEPT !.turn = [o \in Operations |->
                      IF native.turn[o] = g THEN Over ELSE @[o]]]
    /\ events' = IF connection = g THEN Append(events, [kind |-> "closed", of |-> 0]) ELSE events
    /\ UNCHANGED <<serverVars, storage, stored, connection, loaded, job, hand, interrupter, deleter,
                   helpers>>

ProcessDies(g) == process[g].state = "alive" /\ Ends(g)

\* close of a connection kills the process and reaps it.
KillProcess(t) == hand[t] # 0 /\ process[hand[t]].state = "alive" /\ Ends(hand[t])

Announces(kind, o) == events' = Append(events, [kind |-> kind, of |-> o])

CodexUnchanged ==
    UNCHANGED <<serverVars, storage, stored, connection, loaded, process, job, hand, interrupter,
                deleter, helpers>>

TurnEnds(o) ==
    /\ native.turn[o] \in Generations
    /\ native' = [native EXCEPT !.turn[o] = Over]
    /\ IF connection = native.turn[o] THEN Announces("completed", o) ELSE UNCHANGED events
    /\ CodexUnchanged

\* A turn asks something, or a subagent of one that began in the process, whose own
\* turn the service does not know and which may outlive the turn that began it.
Asks(o) ==
    /\ connection # 0 /\ process[connection].state = "alive"
    /\ ~PromptOpen /\ \A i \in DOMAIN events : events[i].kind # "prompt"
    /\ IF o = 0 THEN process[connection].begun ELSE native.turn[o] = connection
    /\ Announces("prompt", o)
    /\ UNCHANGED native /\ CodexUnchanged

\* matches_turn: a turn that has started may be bound to the run that waits for one,
\* unless it is known to be another's.
Matches(e) ==
    /\ Busy /\ runs[current].submitted
    /\ \/ runs[current].turn = e.of
       \/ runs[current].turn = 0 /\ e.kind = "started" /\ \A o \in Operations : runs[o].turn # e.of

Dispatched == events' = Tail(events)

\* What an event of the owner's connection changes.  One that finds the session not
\* ready is not accepted.
Event(kind) ==
    /\ events # <<>> /\ Head(events).kind = kind /\ session.status = "ready"
    /\ UNCHANGED <<serverVars, storage, process, native, job, hand, deleter, helpers>>

TurnStarted ==
    /\ Event("started") /\ Matches(Head(events)) /\ Saves
    /\ runs' = [runs EXCEPT ![current].turn = Head(events).of,
                            ![current].status = IF runs[current].stop THEN "stopping" ELSE "running"]
    /\ Interrupts(TRUE, runs[current].stop)
    /\ Dispatched
    /\ UNCHANGED <<session, current, prompt, sends, connection, loaded>>

TurnCompleted ==
    /\ Event("completed") /\ Matches(Head(events)) /\ Saves
    /\ Finish("completed")
    /\ Dispatched
    /\ UNCHANGED <<connection, loaded, interrupter>>

\* A prompt is kept with the latest run, whose turn has to match if it names one.
Prompted ==
    /\ Event("prompt") /\ Saves /\ current # 0
    /\ Head(events).of # 0 => Matches(Head(events))
    /\ prompt' = [status |-> "pending", generation |-> connection, turn |-> Head(events).of]
    /\ Dispatched
    /\ UNCHANGED <<session, current, runs, sends, connection, loaded, interrupter>>

\* Codex has settled the request itself.
Resolve ==
    /\ Saves /\ session.status = "ready" /\ events = <<>> /\ connection # 0
    /\ PromptOpen /\ prompt.generation = connection /\ process[connection].state = "alive"
    /\ prompt' = NoPrompt
    /\ UNCHANGED <<serverVars, storage, session, current, runs, sends, linkVars, process, native,
                   job, hand, interrupter, deleter, helpers>>

\* The connection is forgotten, its run finished and every prompt expired.
ConnectionClosed ==
    /\ Event("closed")
    /\ connection' = 0 /\ loaded' = 0 /\ events' = <<>>
    /\ IF Saves
       THEN /\ IF Busy
               THEN /\ runs' = [runs EXCEPT ![current].status =
                                   IF runs[current].stop THEN "interrupted" ELSE "failed"]
                    /\ sends' = Stale
               ELSE UNCHANGED <<runs, sends>>
            /\ prompt' = NoPrompt
       ELSE UNCHANGED <<runs, sends, prompt>>
    /\ UNCHANGED <<session, current, interrupter>>

\* An event that is not accepted, matches nothing or cannot be saved.
Dropped ==
    /\ events # <<>> /\ Dispatched
    /\ LET e == Head(events) IN
       \/ session.status # "ready"
       \/ ~Saves /\ e.kind # "closed"
       \/ e.kind # "closed" /\ e.of # 0 /\ ~Matches(e)
    /\ UNCHANGED <<serverVars, storage, stored, connection, loaded, process, native, job, hand,
                   interrupter, deleter, helpers>>

-----------------------------------------------------------------------------
(* The _delete_native task. *)

DeleterUnchanged ==
    UNCHANGED <<serverVars, storage, current, runs, sends, job, interrupter, helpers>>

\* A session with a conversation needs a process to remove it; one is started if there
\* is none, which may fail.
BeginDelete ==
    /\ deleter.stage = "begin"
    /\ \/ /\ session.thread = 0
          /\ Detach(Only("deleter")) /\ deleter' = [deleter EXCEPT !.stage = "close", !.done = TRUE]
          /\ UNCHANGED process
       \/ /\ session.thread # 0
          /\ IF connection # 0 THEN UNCHANGED <<linkVars, process>> ELSE \E g \in Generations : Opened(g)
          /\ deleter' = [deleter EXCEPT !.stage = "native"]
          /\ UNCHANGED hand
       \/ /\ session.thread # 0 /\ connection = 0
          /\ deleter' = [deleter EXCEPT !.stage = "failed", !.outcome = "delete_uncertain"]
          /\ UNCHANGED <<linkVars, process, hand>>
    /\ UNCHANGED <<session, prompt, native>> /\ DeleterUnchanged

\* thread/delete, or thread/read when an earlier deletion is reconciled. A refusal for
\* any reason but a missing thread, or a thread that is read, makes the session ready.
DeleteThread ==
    LET there == session.thread \in native.threads
        answers == connection # 0 /\ process[connection].state = "alive"
        gone == native' = [native EXCEPT !.threads = @ \ {session.thread}]
        fails(status) == deleter' = [deleter EXCEPT !.stage = "failed", !.outcome = status]
        done == deleter' = [deleter EXCEPT !.stage = "close", !.done = TRUE] IN
    /\ deleter.stage = "native"
    /\ \/ answers /\ ~there /\ done /\ Detach(Only("deleter")) /\ UNCHANGED native
       \/ answers /\ fails("ready") /\ UNCHANGED <<native, linkVars, hand>>
       \/ answers /\ there /\ ~deleter.reconcile /\ gone /\ done /\ Detach(Only("deleter"))
       \/ answers /\ there /\ ~deleter.reconcile /\ gone /\ fails("delete_uncertain")
          /\ UNCHANGED <<linkVars, hand>>
       \/ fails("delete_uncertain") /\ UNCHANGED <<native, linkVars, hand>>
    /\ UNCHANGED <<session, prompt, process>> /\ DeleterUnchanged

ClosedDeleted ==
    /\ deleter.stage = "close" /\ AfterClose(Only("deleter"))
    /\ deleter' = [deleter EXCEPT !.stage = "remove"]
    /\ UNCHANGED <<linkVars, process, native>> /\ DeleterUnchanged

\* The row goes and its id is remembered as deleted; or that fails.
RemoveSession ==
    /\ deleter.stage = "remove"
    /\ \/ /\ session' = [session EXCEPT !.status = "deleted"]
          /\ deleter' = NoDeletion
       \/ /\ deleter' = [deleter EXCEPT !.stage = "failed", !.outcome = "delete_uncertain"]
          /\ UNCHANGED session
    /\ UNCHANGED <<prompt, linkVars, process, native, hand>> /\ DeleterUnchanged

DeleteFails ==
    /\ deleter.stage = "failed"
    /\ Detach(Only("deleter")) /\ deleter' = [deleter EXCEPT !.stage = "closeFailed"]
    /\ UNCHANGED <<session, prompt, process, native>> /\ DeleterUnchanged

ClosedUndeleted ==
    /\ deleter.stage = "closeFailed" /\ AfterClose(Only("deleter"))
    /\ deleter' = [deleter EXCEPT !.stage = "save"]
    /\ UNCHANGED <<linkVars, process, native>> /\ DeleterUnchanged

\* What is known is saved; a deletion of which nothing is known is reconciled at once.
SaveDeletion ==
    /\ deleter.stage = "save"
    /\ session' = IF Saves THEN [session EXCEPT !.status = deleter.outcome] ELSE session
    /\ sends' = IF Saves THEN Stale ELSE sends
    /\ deleter' = IF Saves /\ deleter.outcome = "delete_uncertain" /\ ~deleter.reconcile /\ ~deleter.done
                  THEN [NoDeletion EXCEPT !.stage = "begin", !.reconcile = TRUE] ELSE NoDeletion
    /\ UNCHANGED <<serverVars, storage, current, runs, prompt, linkVars, process, native, job, hand,
                   interrupter, helpers>>

-----------------------------------------------------------------------------
(* Storage that fails, shutdown, a crash and the restart. *)

\* A commit raises; the session is halted until the restart.
StorageFails ==
    /\ Saves /\ service # "closed" /\ (Busy \/ deleter.stage # "none")
    /\ storage' = "failed" /\ halter' = "begin"
    /\ UNCHANGED <<serverVars, stored, linkVars, process, native, job, hand, interrupter, deleter, answerer>>

Halt ==
    /\ halter = "begin" /\ Detach(Only("halter")) /\ halter' = "close"
    /\ UNCHANGED <<serverVars, storage, stored, process, native, job, interrupter, deleter, answerer>>

Halted ==
    /\ halter = "close" /\ AfterClose(Only("halter")) /\ halter' = "over"
    /\ UNCHANGED <<serverVars, storage, current, runs, sends, linkVars, process, native, job,
                   interrupter, deleter, answerer>>

Closes(from, to) == closer = from /\ closer' = to
TasksUnchanged == UNCHANGED <<storage, process, native, job, deleter, helpers>>

BeginShutdown ==
    /\ service = "up" /\ service' = "stopping" /\ Closes("none", "commands")
    /\ UNCHANGED <<crashes, stored, linkVars, hand, interrupter>> /\ TasksUnchanged

\* The commands that are running end first.
CommandsEnd ==
    /\ Closes("commands", "stop") /\ \A s \in Senders : sends[s].operation = 0
    /\ UNCHANGED <<service, crashes, stored, linkVars, hand, interrupter>> /\ TasksUnchanged

StopForShutdown ==
    /\ Closes("stop", "jobs")
    /\ IF Busy /\ Saves THEN RequestStop ELSE UNCHANGED <<stored, interrupter>>
    /\ UNCHANGED <<service, crashes, linkVars, hand>> /\ TasksUnchanged

\* The job ends, or is not waited for any longer.
JobsWaited ==
    /\ Closes("jobs", "close") /\ Detach(Only("closer"))
    /\ UNCHANGED <<service, crashes, stored, interrupter>> /\ TasksUnchanged

ClosedForShutdown ==
    /\ Closes("close", "settle") /\ AfterClose(Only("closer"))
    /\ UNCHANGED <<service, crashes, current, runs, sends, linkVars, interrupter>> /\ TasksUnchanged

SettleForShutdown ==
    /\ Closes("settle", "gather")
    /\ IF Busy /\ Saves THEN Finish("interrupted") ELSE UNCHANGED stored
    /\ UNCHANGED <<service, crashes, linkVars, hand, interrupter>> /\ TasksUnchanged

TasksRest ==
    /\ \A o \in Operations : job[o].stage \in {"none", "over"} /\ interrupter[o] \in {"none", "over"}
    /\ deleter.stage = "none" /\ halter \in {"none", "over"} /\ answerer = NoAnswer

StoreCloses ==
    /\ Closes("gather", "over") /\ TasksRest /\ service' = "closed"
    /\ UNCHANGED <<crashes, stored, linkVars, hand, interrupter>> /\ TasksUnchanged

\* Mutant: the restart interrupts every run of which the input was given away.
RestartedAll ==
    [o \in Operations |-> IF runs[o].submitted THEN [runs[o] EXCEPT !.status = "interrupted"] ELSE runs[o]]

\* The server dies and is started again: the tasks and the processes are lost, what
\* was active is interrupted and what was asked expires, and a deletion that had begun
\* is reconciled.
Restarted ==
    [o \in Operations |-> IF runs[o].status \in ActiveStatuses
                          THEN [runs[o] EXCEPT !.status = "interrupted"] ELSE runs[o]]

Crash ==
    /\ crashes < MaxCrashes /\ crashes' = crashes + 1
    /\ service' = "up" /\ closer' = "none" /\ storage' = "fine"
    /\ runs' = Restarted /\ prompt' = NoPrompt /\ sends' = [s \in Senders |-> Idle]
    /\ connection' = 0 /\ loaded' = 0 /\ events' = <<>>
    /\ process' = [g \in Generations |-> IF process[g].state = "alive"
                                         THEN [process[g] EXCEPT !.state = "dead"] ELSE process[g]]
    /\ native' = [native EXCEPT !.turn = [o \in Operations |->
                      IF native.turn[o] \in Generations THEN Over ELSE @[o]]]
    /\ job' = [o \in Operations |-> IF job[o].stage = "none" THEN job[o]
                                    ELSE [NoJob EXCEPT !.stage = "over"]]
    /\ hand' = [t \in Tasks |-> 0]
    /\ interrupter' = [o \in Operations |-> IF interrupter[o] = "none" THEN "none" ELSE "over"]
    /\ deleter' = IF session.status \in {"deleting", "delete_uncertain"}
                  THEN [NoDeletion EXCEPT !.stage = "begin", !.reconcile = TRUE] ELSE NoDeletion
    /\ halter' = "none" /\ answerer' = NoAnswer
    /\ UNCHANGED <<session, current>>

-----------------------------------------------------------------------------

\* What the service's own tasks do.
CodeWork ==
    \/ \E o \in Operations :
         \/ CloseOld(o) \/ ClosedOld(o) \/ Open(o) \/ Thread(o) \/ Attach(o)
         \/ StartTurn(o) \/ Bind(o) \/ EndWait(o) \/ WorkFails(o) \/ Fail(o) \/ ClosedFailed(o)
         \/ Settle(o) \/ EndWork(o) \/ ClosedFinal(o)
         \/ AskInterrupt(o) \/ EndInterrupt(o) \/ ClosedInterrupted(o)
    \/ \E t \in Tasks : KillProcess(t)
    \/ Halt \/ Halted \/ ClosedAnswered \/ SettleAnswered
    \/ CommandsEnd \/ StopForShutdown \/ JobsWaited \/ ClosedForShutdown \/ SettleForShutdown
    \/ StoreCloses

\* The owner's dispatcher: Codex may announce events for ever.
EventWork == TurnStarted \/ TurnCompleted \/ Prompted \/ ConnectionClosed \/ Dropped

\* What commands do on their own: clients may repeat them for ever.
CommandWork ==
    \/ \E s \in Senders : AdmitSend(s)
    \/ DeliverAnswer \/ AnswerFails
    \/ BeginDelete \/ DeleteThread \/ ClosedDeleted \/ RemoveSession \/ DeleteFails \/ ClosedUndeleted
    \/ SaveDeletion

Disturbances == {"delete", "stop", "asks", "death", "storage", "shutdown", "crash", "rename"}

\* What clients, Codex and the machine do besides, by kind.
Disturbed(kind) ==
    \/ kind = "delete" /\ Delete
    \/ kind = "stop" /\ Stop
    \/ kind = "asks" /\ (Answer \/ Resolve \/ \E o \in {0} \cup Operations : Asks(o))
    \/ kind = "death" /\ \E g \in Generations : ProcessDies(g)
    \/ kind = "storage" /\ StorageFails
    \/ kind = "shutdown" /\ BeginShutdown
    \/ kind = "crash" /\ Crash
    \/ kind = "rename" /\ UpdateSettings

CodeNext ==
    \/ CodeWork \/ EventWork \/ CommandWork
    \/ \E s \in Senders, o \in Operations : CheckSend(s, o)
    \/ \E o \in Operations : TurnEnds(o)
    \/ \E kind \in Disturbances : Disturbed(kind)

CodeSpec == CodeInit /\ [][CodeNext]_codeVars
CodeFairness == WF_codeVars(CodeWork) /\ WF_codeVars(EventWork) /\ WF_codeVars(CommandWork)

-----------------------------------------------------------------------------
(* Properties. *)

\* The input of a Send is given to Codex at most once, whatever fails, crashes or is
\* sent again ("Its input was not resent").
InputNeverResent == \A o \in Operations : native.inputs[o] <= 1

\* A session has one active run, its latest.
OneActiveRun == \A o \in Operations : runs[o].status \in ActiveStatuses => o = current

\* A run is bound to its own turn and is completed only when that turn is over.
CompletedIsOver ==
    \A o \in Operations : /\ runs[o].turn \in {0, o}
                          /\ runs[o].status = "completed" => native.turn[o] = Over

\* A process is somebody's: the owner's connection, or one that a task closes.  The
\* task of a run that ended while it replaced its connection opens a process all the
\* same, which may take the place of another's.
NobodyIsLate == \A o \in Operations : ~job[o].late

ProcessesAreOwned ==
    NobodyIsLate => \A g \in Generations : process[g].state = "alive" =>
                        connection = g \/ \E t \in Tasks : hand[t] = g

\* A service that has closed leaves no process and no active run behind.
ClosedIsQuiet ==
    service = "closed" => /\ NobodyIsLate => \A g \in Generations : process[g].state # "alive"
                          /\ Busy => ~Saves

\* A session is deleted only when the conversation that had its input is gone.
DeletedIsGone ==
    session.status = "deleted" /\ session.fed => session.thread \notin native.threads

\* A deletion is decided when nobody works on it.
DeletionIsDecided ==
    session.status = "deleting" => deleter.stage # "none" \/ ~Saves

CodeSafety ==
    /\ CodeTypeOK
    /\ InputNeverResent /\ OneActiveRun /\ CompletedIsOver /\ ProcessesAreOwned /\ ClosedIsQuiet
    /\ DeletedIsGone /\ DeletionIsDecided

\* A run that has ended stays as it ended; recovery may only learn its turn.
FinishedStays ==
    [][\A o \in Operations : runs[o].status \in FinalStatuses =>
          runs'[o].status = runs[o].status /\ (runs[o].turn # 0 => runs'[o].turn = runs[o].turn)]_codeVars

\* A prompt that waits for an answer can be answered or will expire: the process that
\* asked it is the owner's connection, or a task is closing it.
PromptsCanBeFinished ==
    PromptOpen /\ Saves => prompt.generation = connection \/ \E t \in Tasks : hand[t] = prompt.generation

\* The tasks come to rest, except the one that waits for its run's turn.
CodeAtRest ==
    /\ \A o \in Operations : /\ \/ job[o].stage \in {"none", "over"}
                                \/ job[o].stage = "wait" /\ IsActive(o)
                             /\ interrupter[o] \in {"none", "over"}
    /\ deleter.stage = "none" /\ halter \in {"none", "over"} /\ answerer = NoAnswer
    /\ closer \in {"none", "over"}

=============================================================================
