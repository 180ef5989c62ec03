----------------------------- MODULE ServerProofs ------------------------------
(***************************************************************************)
(* Safety of the server's sessions of code: the event feed and the App     *)
(* Server's client, for any number of observers and calls, and the coding  *)
(* session over them, for any number of Sends, processes and crashes.      *)
(*                                                                         *)
(* The feed's safety is inductive.  The client's needs what the code knows *)
(* by its place: a reader that has ended took what waited with it          *)
(* (EndsInOrder).  The session's (CodeInv) needs what each task knows      *)
(* between two sections of the lock: which stages have given no input      *)
(* away, whose turns a process can announce, that input is given to the    *)
(* owner's connection only for the active run, and that whoever takes the  *)
(* place of a connection finds it empty.                                   *)
(***************************************************************************)
EXTENDS CodeSessions, EventFeed, AppServer, TLAPS

(* The event feed. *)

\* Nobody is subscribed, and nothing has been published.
LEMMA FeedStarts == FeedInit => FeedSafety
  BY FeedAssumption
  DEF FeedInit, FeedSafety, FeedTypeOK, NothingIsMissed, OthersAreTold

\* publish tells every subscriber the next revision, and forgets one whose queue
\* is full.
LEMMA FeedPublish == FeedSafety /\ Publish => FeedSafety'
<1> SUFFICES ASSUME FeedSafety, Publish PROVE FeedSafety'
  OBVIOUS
<1> USE FeedAssumption DEF FeedSafety, FeedTypeOK, Publish, Overflow, Ended, Signalled, Fits
<1>0. sequence \in Int /\ sequence+1 \in Int
  OBVIOUS
<1>1. inbox' \in [Observers -> Seq(Int)]
  BY DEF Offered
<1>2. \A o \in Observers : Len(inbox'[o]) <= QueueSize
  BY <1>1 DEF Offered
<1>3. NothingIsMissed'
  BY <1>1 DEF NothingIsMissed, Offered
<1>4. OthersAreTold'
  BY <1>1 DEF OthersAreTold, Offered
<1> QED
  BY <1>1, <1>2, <1>3, <1>4

\* An observer whose generator is closed is neither a subscriber nor a reader.
LEMMA FeedForget ==
    ASSUME FeedSafety, NEW o \in Observers, Forget(o), UNCHANGED <<sequence, publisher>>
    PROVE  FeedSafety'
<1> USE FeedAssumption DEF FeedSafety, FeedTypeOK, Forget
<1>1. FeedTypeOK'
  OBVIOUS
<1>2. NothingIsMissed'
  BY DEF NothingIsMissed
<1>3. OthersAreTold'
  BY DEF OthersAreTold
<1> QED
  BY <1>1, <1>2, <1>3

\* A subscriber reads the revision that follows the last it has seen; another
\* reader finds what it was told as it was forgotten.
LEMMA FeedRead == ASSUME FeedSafety, NEW o \in Observers, Read(o) PROVE FeedSafety'
<1> USE FeedAssumption DEF FeedSafety, FeedTypeOK
<1> DEFINE q == inbox[o]
<1>1. /\ q \in Seq(Int) /\ q # <<>> /\ Len(q) > 0 /\ Tail(q) \in Seq(Int) /\ Len(Tail(q)) = Len(q) - 1
      /\ Head(q) = q[1] /\ \A i \in 1..(Len(q) - 1) : Tail(q)[i] = q[i + 1]
  BY DEF Read
<1>2. CASE o \in subscriptions
  <2>1. Head(q) = seen[o] + 1 /\ seen[o] + Len(q) = sequence
    BY <1>1, <1>2 DEF NothingIsMissed
  <2>2. /\ seen' = [seen EXCEPT ![o] = seen[o] + 1] /\ inbox' = [inbox EXCEPT ![o] = Tail(q)]
        /\ UNCHANGED <<readers, subscriptions, sequence, publisher>>
    BY <2>1 DEF Read, GoesOn, Ended, Overflow
  <2>3. seen[o] + 1 \in 0..MaxPublished
    BY <1>1, <2>1
  <2>4. FeedTypeOK'
    <3>1. ASSUME NEW p \in Observers PROVE Len(inbox'[p]) <= QueueSize
      BY <1>1, <2>2
    <3> QED
      BY <1>1, <2>2, <2>3, <3>1
  <2>5. NothingIsMissed'
    <3> SUFFICES ASSUME NEW p \in subscriptions
                 PROVE  /\ seen'[p] + Len(inbox'[p]) = sequence
                        /\ \A i \in DOMAIN inbox'[p] : inbox'[p][i] = seen'[p] + i
      BY <2>2 DEF NothingIsMissed
    <3>1. CASE p = o
      <4>1. inbox'[p] = Tail(q) /\ seen'[p] = seen[o] + 1
        BY <2>2, <3>1
      <4>2. \A i \in DOMAIN Tail(q) : i \in 1..(Len(q) - 1) /\ Tail(q)[i] = q[i + 1] /\ i + 1 \in DOMAIN q
        BY <1>1
      <4>3. \A i \in DOMAIN Tail(q) : Tail(q)[i] = seen[o] + 1 + i
        BY <4>2, <1>2 DEF NothingIsMissed
      <4> QED
        BY <1>1, <2>1, <4>1, <4>3
    <3>2. CASE p # o
      <4>1. inbox'[p] = inbox[p] /\ seen'[p] = seen[p]
        BY <2>2, <3>2
      <4> QED
        BY <4>1 DEF NothingIsMissed
    <3> QED
      BY <3>1, <3>2
  <2>6. OthersAreTold'
    BY <1>2, <2>2 DEF OthersAreTold
  <2> QED
    BY <2>4, <2>5, <2>6
<1>3. CASE o \notin subscriptions
  <2>1. Head(q) \in {Ended, Overflow}
    BY <1>3 DEF OthersAreTold, Read
  <2>2. Forget(o) /\ UNCHANGED <<sequence, publisher>>
    BY <2>1 DEF Read, GoesOn
  <2> QED
    BY <2>2, FeedForget
<1> QED
  BY <1>2, <1>3

\* Every step of the feed keeps its safety, which is inductive as it stands.
LEMMA FeedStep == FeedSafety /\ [FeedNext]_feedVars => FeedSafety'
<1> SUFFICES ASSUME FeedSafety, [FeedNext]_feedVars PROVE FeedSafety'
  OBVIOUS
<1> USE FeedAssumption DEF FeedSafety, FeedTypeOK, NothingIsMissed, OthersAreTold, Overflow, Ended
<1>1. ASSUME NEW o \in Observers, Subscribe(o) PROVE FeedSafety'
  BY <1>1 DEF Subscribe
<1>2. ASSUME NEW o \in Observers, Leave(o) PROVE FeedSafety'
  BY <1>2, FeedForget DEF Leave
<1>3. CASE DisconnectSubscribers
  BY <1>3 DEF DisconnectSubscribers, Signalled
<1>4. CASE UNCHANGED feedVars
  BY <1>4 DEF feedVars
<1> QED
  BY <1>1, <1>2, <1>3, <1>4, FeedPublish, FeedRead DEF FeedNext, FeedWork

\* No subscriber misses a revision, none is held up, and those that fell behind
\* are told (application/session_events.py).
THEOREM FeedCorrectness == FeedSpec => []FeedSafety
  BY FeedStarts, FeedStep, PTL DEF FeedSpec

-----------------------------------------------------------------------------
(* The client of the App Server. *)

\* A reader that has ended took everything that waits with it, and close goes on in order.
EndsInOrder ==
    /\ reader # "reading" => ~alive /\ pending = {} /\ asked = {}
    /\ reader # "over" => Len(queue) <= queued
    /\ reaping = "over" => codex = "exited" /\ ~alive
    /\ reader = "over" => reaping = "over"
    /\ closing \in {"reader", "dispatcher", "over"} => reaping = "over"
    /\ closing \in {"dispatcher", "over"} => reader = "over"
    /\ closing = "over" => dispatcher = "over"

AppInv == AppSafety /\ EndsInOrder

Untouched == UNCHANGED <<codex, reader, dispatcher, queue>>

\* The client starts with nothing asked and an empty queue.
LEMMA AppStarts == AppInit => AppInv
  BY AppAssumption
  DEF AppInit, AppInv, AppSafety, AppTypeOK, EndsInOrder, NoCallIsLost, AnsweredOnce, ClosedIsLast, CloseIsThorough, AllCalls

\* Nothing that leaves the queue and its dispatcher alone moves "closed" from its
\* end.
LEMMA ClosedStaysLast == ClosedIsLast /\ Untouched => ClosedIsLast'
  BY DEF ClosedIsLast, Untouched

\* Calls are sent, answered by a packet, or given up.
LEMMA AppCalls ==
    ASSUME AppInv, NEW c \in AllCalls, (Rpc(c) /\ c \in Calls) \/ RpcTimesOut(c) \/ PacketAnswers(c)
    PROVE  AppInv'
<1> USE DEF AppInv, AppSafety
<1>1. Untouched
  BY DEF Untouched, Rpc, RpcTimesOut, PacketAnswers
<1>2. AppTypeOK' /\ EndsInOrder'
  BY DEF AppTypeOK, EndsInOrder, Rpc, RpcTimesOut, PacketAnswers, Issue
<1>3. NoCallIsLost'
  BY DEF AppTypeOK, EndsInOrder, NoCallIsLost, Rpc, RpcTimesOut, PacketAnswers, Issue
<1>4. AnsweredOnce' /\ CloseIsThorough'
  BY DEF AnsweredOnce, CloseIsThorough, Rpc, RpcTimesOut, PacketAnswers, Issue
<1> QED
  BY <1>1, <1>2, <1>3, <1>4, ClosedStaysLast

\* Packets of the server are queued as events while the reader reads.
LEMMA AppEvents ==
    ASSUME AppInv, NEW e \in {"prompt", "resolved", "other"}, reader = "reading", Queues(e),
           UNCHANGED <<codex, alive, call, pending, answers, reader, dispatcher, reaping, closing>>,
           \/ UNCHANGED asked
           \/ \E r \in Requests : asked' = asked \cup {r} /\ answers[r] = 0
           \/ \E r \in Requests : asked' = asked \ {r}
    PROVE  AppInv'
<1> USE DEF AppInv, AppSafety
<1>1. queue' \in Seq({"prompt", "resolved", "other", "closed"}) /\ Len(queue') = Len(queue) + 1
  BY DEF AppTypeOK, Queues
<1>2. AppTypeOK'
  BY <1>1, AppAssumption DEF AppTypeOK, Queues
<1>3. EndsInOrder'
  BY <1>1 DEF AppTypeOK, Queues, EndsInOrder
<1>4. NoCallIsLost' /\ AnsweredOnce' /\ CloseIsThorough'
  BY DEF NoCallIsLost, AnsweredOnce, CloseIsThorough
<1>5. ClosedIsLast'
  <2>1. \A i \in DOMAIN queue' : queue'[i] # "closed"
    BY DEF Queues, ClosedIsLast
  <2> QED
    BY <2>1 DEF ClosedIsLast
<1> QED
  BY <1>2, <1>3, <1>4, <1>5

\* The ends of the reader, of the process and of close.
LEMMA AppEnds ==
    ASSUME AppInv, ReaderEnds \/ ReaderIsOver \/ Reap \/ Exit \/ Close \/ CloseGoesOn
    PROVE  AppInv'
<1> USE DEF AppInv, AppSafety
<1>1. CASE ReaderIsOver
  <2>1. queue' \in Seq({"prompt", "resolved", "other", "closed"}) /\ Len(queue') = Len(queue) + 1
    BY <1>1 DEF AppTypeOK, ReaderIsOver
  <2>2. AppTypeOK' /\ EndsInOrder'
    BY <1>1, <2>1 DEF AppTypeOK, ReaderIsOver, EndsInOrder, Reaped
  <2>3. NoCallIsLost' /\ AnsweredOnce' /\ CloseIsThorough'
    BY <1>1 DEF ReaderIsOver, NoCallIsLost, AnsweredOnce, CloseIsThorough, Reaped
  <2>4. ClosedIsLast'
    <3>1. \A i \in 1..Len(queue) : queue'[i] = queue[i] /\ queue[i] # "closed"
      BY <1>1 DEF ReaderIsOver, ClosedIsLast
    <3>2. queue'[Len(queue')] = "closed" /\ DOMAIN queue' = 1..(Len(queue) + 1)
      BY <1>1, <2>1 DEF ReaderIsOver
    <3>3. codex' = "exited" /\ dispatcher' # "over"
      BY <1>1 DEF ReaderIsOver, EndsInOrder, ClosedIsLast, Reaped
    <3>4. Len(queue) \in Nat
      OBVIOUS
    <3> QED
      BY <1>1, <2>1, <3>1, <3>2, <3>3, <3>4 DEF ClosedIsLast, ReaderIsOver
  <2> QED
    BY <2>2, <2>3, <2>4
<1>2. CASE ReaderEnds
  <2>1. Failed \in [AllCalls -> {"none", "waiting", "answered", "failed", "timedOut"}]
    BY DEF Failed, AppTypeOK
  <2>2. AppTypeOK' /\ EndsInOrder'
    BY <1>2, <2>1 DEF AppTypeOK, ReaderEnds, EndsInOrder, StartReaping
  <2>3. NoCallIsLost' /\ AnsweredOnce' /\ CloseIsThorough'
    BY <1>2 DEF ReaderEnds, NoCallIsLost, AnsweredOnce, CloseIsThorough, Failed
  <2>4. ClosedIsLast'
    BY <1>2 DEF ClosedIsLast, ReaderEnds
  <2> QED
    BY <2>2, <2>3, <2>4
<1>3. CASE Reap \/ Exit
  <2>1. codex' = "exited" /\ UNCHANGED <<call, pending, asked, answers, queue, queued, reader, dispatcher, closing>>
    BY <1>3 DEF Reap, Exit
  <2>2. AppTypeOK' /\ EndsInOrder'
    <3>1. CASE Reap
      BY <3>1 DEF Reap, AppTypeOK, EndsInOrder
    <3>2. CASE Exit
      BY <3>2 DEF Exit, AppTypeOK, EndsInOrder
    <3> QED
      BY <1>3, <3>1, <3>2
  <2>3. NoCallIsLost' /\ AnsweredOnce'
    BY <2>1 DEF NoCallIsLost, AnsweredOnce
  <2>4. CloseIsThorough'
    BY <1>3 DEF Reap, Exit, CloseIsThorough
  <2>5. ClosedIsLast'
    BY <2>1 DEF ClosedIsLast
  <2> QED
    BY <2>2, <2>3, <2>4, <2>5
<1>4. CASE Close
  <2>1. AppTypeOK' /\ EndsInOrder'
    BY <1>4 DEF Close, StartReaping, AppTypeOK, EndsInOrder
  <2>2. NoCallIsLost' /\ AnsweredOnce' /\ CloseIsThorough'
    BY <1>4 DEF Close, NoCallIsLost, AnsweredOnce, CloseIsThorough
  <2>3. ClosedIsLast'
    BY <1>4, ClosedStaysLast DEF Close, Untouched
  <2> QED
    BY <2>1, <2>2, <2>3
<1>5. CASE CloseGoesOn
  <2>1. AppTypeOK' /\ EndsInOrder'
    BY <1>5 DEF CloseGoesOn, AppTypeOK, EndsInOrder
  <2>2. NoCallIsLost' /\ AnsweredOnce' /\ ClosedIsLast'
    BY <1>5 DEF CloseGoesOn, NoCallIsLost, AnsweredOnce, ClosedIsLast
  <2>3. CloseIsThorough'
    BY <1>5, <2>1 DEF CloseGoesOn, EndsInOrder, CloseIsThorough
  <2> QED
    BY <2>1, <2>2, <2>3
<1> QED
  BY <1>1, <1>2, <1>3, <1>4, <1>5

\* The dispatcher takes events in order; "closed" is the last.
LEMMA AppDispatches ==
    ASSUME AppInv, TakeEvent \/ LookedUp \/ SinkReturns \/ CloseInside \/ ClosedInside
    PROVE  AppInv'
<1> USE DEF AppInv, AppSafety
<1>1. CASE TakeEvent
  <2>1. /\ Len(queue) > 0 /\ queue' \in Seq({"prompt", "resolved", "other", "closed"})
        /\ Len(queue') = Len(queue) - 1 /\ Head(queue) = queue[1] /\ queue' = Tail(queue)
        /\ \A i \in 1..(Len(queue) - 1) : queue'[i] = queue[i + 1]
    BY <1>1 DEF AppTypeOK, TakeEvent
  <2>2. /\ UNCHANGED <<codex, alive, asked, answers, queued, reader, closing, reaping>>
        /\ dispatcher' \in {"lookup", "sink", "over"} /\ dispatcher = "idle"
        /\ dispatcher' = "over" <=> queue[1] = "closed"
    BY <1>1, <2>1 DEF TakeEvent, DispatcherOnly, Dispatches
  <2>3. \/ UNCHANGED <<call, pending>>
        \/ Issue(Lookup)
    BY <1>1 DEF TakeEvent
  <2>4. AppTypeOK'
    BY <2>1, <2>2, <2>3 DEF AppTypeOK, Issue, AllCalls
  <2>5. EndsInOrder' /\ CloseIsThorough' /\ AnsweredOnce'
    BY <2>1, <2>2, <2>3 DEF EndsInOrder, CloseIsThorough, AnsweredOnce, Issue, AppTypeOK
  <2>6. NoCallIsLost'
    BY <2>2, <2>3 DEF NoCallIsLost, EndsInOrder, Issue, AppTypeOK
  <2>7. ClosedIsLast'
    <3>1. DOMAIN queue = 1..Len(queue) /\ DOMAIN queue' = 1..(Len(queue) - 1) /\ Len(queue) \in Nat
      BY <2>1
    <3>2. CASE queue[1] = "closed"
      <4>1. Len(queue) = 1 /\ codex = "exited" /\ reader = "over" /\ queue' = <<>>
        BY <2>1, <3>1, <3>2 DEF ClosedIsLast
      <4> QED
        BY <2>2, <3>2, <4>1 DEF ClosedIsLast
    <3>3. CASE queue[1] # "closed"
      <4>1. \A i \in DOMAIN queue' : queue'[i] = queue[i + 1] /\ i + 1 \in DOMAIN queue
        BY <2>1, <3>1
      <4>2. \A j \in DOMAIN queue : queue[j] = "closed" => j - 1 \in DOMAIN queue' /\ queue'[j - 1] = queue[j]
        BY <2>1, <3>1, <3>3
      <4>3. \A i \in DOMAIN queue' : queue'[i] = "closed" => i = Len(queue') /\ codex = "exited"
        BY <2>1, <3>1, <4>1 DEF ClosedIsLast
      <4>4. (\E i \in DOMAIN queue' : queue'[i] = "closed") <=> (\E i \in DOMAIN queue : queue[i] = "closed")
        BY <4>1, <4>2
      <4> QED
        BY <2>2, <3>3, <4>3, <4>4 DEF ClosedIsLast
    <3> QED
      BY <3>2, <3>3
  <2> QED
    BY <2>4, <2>5, <2>6, <2>7
<1>2. CASE LookedUp \/ SinkReturns \/ CloseInside \/ ClosedInside
  BY <1>2 DEF LookedUp, SinkReturns, CloseInside, ClosedInside, DispatcherOnly, Dispatches,
     StartReaping,
     AppTypeOK, EndsInOrder, NoCallIsLost, AnsweredOnce, CloseIsThorough, ClosedIsLast
<1> QED
  BY <1>1, <1>2

\* Every step of the client keeps AppInv.
LEMMA AppStep == AppInv /\ [AppNext]_appVars => AppInv'
<1> SUFFICES ASSUME AppInv, [AppNext]_appVars PROVE AppInv'
  OBVIOUS
<1>1. ASSUME NEW r \in Requests, PacketAsks(r) PROVE AppInv'
  BY <1>1, AppEvents DEF PacketAsks
<1>2. ASSUME NEW r \in Requests, PacketSettles(r) PROVE AppInv'
  BY <1>2, AppEvents DEF PacketSettles
<1>3. ASSUME NEW r \in Requests, Respond(r) PROVE AppInv'
  BY <1>3 DEF Respond, AppInv, AppSafety, AppTypeOK, EndsInOrder, NoCallIsLost, AnsweredOnce,
     CloseIsThorough, ClosedIsLast
<1>4. CASE PacketTells
  BY <1>4, AppEvents DEF PacketTells
<1>5. CASE UNCHANGED appVars
  BY <1>5 DEF appVars, AppInv, AppSafety, AppTypeOK, EndsInOrder, NoCallIsLost, AnsweredOnce,
     CloseIsThorough, ClosedIsLast
<1>6. Calls \subseteq AllCalls
  BY DEF AllCalls
<1> QED
  BY <1>1, <1>2, <1>3, <1>4, <1>5, <1>6, AppCalls, AppEnds, AppDispatches DEF AppNext, AppWork

\* No call waits for a reader that has ended, no request is answered twice,
\* "closed" comes after everything else, and close leaves nothing running
\* (code_sessions/app_server.py).
THEOREM AppCorrectness == AppSpec => []AppSafety
<1>1. AppInv => AppSafety
  BY DEF AppInv
<1> QED
  BY <1>1, AppStarts, AppStep, PTL DEF AppSpec

-----------------------------------------------------------------------------
(* The coding session: its invariant. *)

\* The events that wait, as a set.
Waiting == {events[i] : i \in DOMAIN events}

Events == [kind : {"started", "completed", "prompt", "closed"}, of : {0} \cup Operations]
EventsFit == events \in Seq(Events)

\* The stages of a run's task.  Until it has given the input away there is no turn, and
\* it does that once; from "thread" on it has a process.
Opening == {"closeOld", "open"}
Unopened == {"none", "replace", "closeOld", "open"}
Unfed == Unopened \cup {"thread", "attach", "start"}
Connected == {"thread", "attach", "start", "bind"}

JobsFit ==
    \A o \in Operations :
        /\ runs[o].status = "none" <=> job[o].stage = "none"
        /\ native.inputs[o] <= 1
        /\ job[o].stage \in Unfed => native.inputs[o] = 0 /\ native.turn[o] = 0
        /\ job[o].stage \in Unopened => ~job[o].late
        /\ job[o].stage \in Connected => job[o].generation # 0
        /\ job[o].stage = "bind" => native.turn[o] # 0
        /\ job[o].stage = "attach" /\ job[o].thread = 0 => session.thread # 0

\* A session that is busy is ready; it is deleted while it is not.  What cannot be saved
\* is halted, and the service stops by the steps of its closer.
ServiceFits ==
    /\ Busy => session.status = "ready"
    /\ deleter.stage # "none" => session.status \in {"deleting", "delete_uncertain"}
    /\ Saves <=> halter = "none"
    /\ service = "up" <=> closer = "none"
    /\ service = "closed" <=> closer = "over"
    /\ closer \in {"gather", "over"} => (Busy => ~Saves)
    /\ closer = "over" =>
           deleter.stage = "none" /\ \A o \in Operations : job[o].stage \in {"none", "over"}

\* What had input has a conversation.
FedFits ==
    /\ session.fed => session.thread # 0
    /\ \A o \in Operations : job[o].stage = "start" \/ native.turn[o] # 0 => session.fed

\* What is known of a turn is true, and only a run whose turn is known is interrupted.
TurnsFit ==
    \A o \in Operations :
        /\ runs[o].turn # 0 => native.turn[o] # 0
        /\ interrupter[o] # "none" => runs[o].turn = o

\* Processes are started in order and once; one in which a turn began was started.
ProcessesFit ==
    /\ connection # 0 => process[connection].state # "none"
    /\ \A g \in Generations : process[g].begun => process[g].state # "none"
    /\ \A o \in Operations : /\ job[o].generation # 0 => process[job[o].generation].state # "none"
                             /\ native.turn[o] \in Generations => process[native.turn[o]].begun
    /\ \A t \in Tasks : hand[t] # 0 => process[hand[t]].state # "none"
    /\ prompt.generation # 0 => process[prompt.generation].state # "none"

\* A task holds a process only while it closes it.
HandsFit ==
    /\ \A o \in Operations :
          /\ hand[Task("job", o)] # 0 => job[o].stage \in {"closeOld", "closeFailed",
              "closeFinal"}
          /\ hand[Task("interrupter", o)] # 0 => interrupter[o] = "close"
    /\ hand[Only("deleter")] # 0 => deleter.stage \in {"close", "closeFailed"}
    /\ hand[Only("halter")] # 0 => halter = "close"
    /\ hand[Only("closer")] # 0 => closer = "close"
    /\ hand[Only("answerer")] # 0 => answerer.stage = "close"

\* The turns that a process announces are those that its runs began; the last thing it
\* announces is its end.
EventsAreTrue ==
    \A e \in Waiting :
        /\ connection # 0
        /\ e.kind \in {"started", "completed"} => e.of # 0
        /\ e.kind = "started" => /\ native.turn[e.of] # 0
                                 /\ runs[e.of].turn = e.of \/ IsActive(e.of)
                                 /\ job[e.of].stage \notin {"closeFailed", "settle"}
        /\ e.kind = "completed" => native.turn[e.of] = Over
        /\ e.kind = "prompt" => process[connection].begun
        /\ e.kind = "closed" => process[connection].state = "dead"

\* Input is given to the owner's connection only for the active run.
StartsAreActive ==
    \A o \in Operations :
        job[o].stage = "start" /\ connection = job[o].generation => IsActive(o)

\* A run that is opening its process has none in which a turn could ask.
OpeningIsUnasked ==
    /\ connection # 0 /\ process[connection].begun /\ Busy => job[current].stage \notin Opening
    /\ prompt.status = "answering" /\ Busy => job[current].stage # "replace"
    /\ PromptOpen /\ prompt.generation = connection /\ connection # 0 => process[connection].begun

\* A run that fails for its answer has lost its connection.
AnswererFits ==
    answerer.stage # "none" /\ answerer.of # 0 =>
        /\ job[answerer.of].stage \notin Unopened
        /\ job[answerer.of].stage \in Connected => connection # job[answerer.of].generation
        /\ \A e \in Waiting : ~(e.kind = "started" /\ e.of = answerer.of)

\* After the shutdown has taken the connection no input is given away.
ShutFits ==
    closer \in {"close", "settle", "gather", "over"} =>
        /\ \A e \in Waiting : e.kind # "started"
        /\ \A o \in Operations : job[o].stage = "start" => connection # job[o].generation

\* The process whose place is taken is nobody's.
PlaceIsFree ==
    NobodyIsLate /\ connection # 0 =>
        /\ current # 0 /\ job[current].stage \in Opening => deleter.stage \in {"native", "failed"}
        /\ deleter.stage \notin {"close", "remove", "closeFailed", "save"}
        /\ closer \in {"close", "settle", "gather", "over"} =>
             \/ current # 0 /\ job[current].stage \in Connected \cup {"wait", "fail", "final"}
             \/ deleter.stage \in {"native", "failed"}

\* A conversation that is being given up does not come back.
GoneStays ==
    session.fed /\ (deleter.stage \in {"close", "remove"} \/ session.status = "deleted") =>
        /\ session.thread \notin native.threads
        /\ \A o \in Operations : job[o].stage = "attach" /\ connection = job[o].generation =>
               job[o].thread = 0

CodeInv ==
    /\ CodeSafety /\ EventsFit /\ JobsFit /\ ServiceFits /\ FedFits /\ TurnsFit /\ ProcessesFit
    /\ HandsFit /\ EventsAreTrue /\ StartsAreActive /\ OpeningIsUnasked /\ AnswererFits
    /\ ShutFits /\ PlaceIsFree /\ GoneStays
\* The records of a session, field by field.
RunStatuses == {"none"} \cup ActiveStatuses \cup FinalStatuses
RunRecords == [status : RunStatuses, stop : BOOLEAN, submitted : BOOLEAN,
    turn : {0} \cup Operations]
PromptRecords == [status : {"none", "pending", "answering"}, generation : 0..MaxConnections,
                  turn : {0} \cup Operations]
SendRecords == [operation : {0} \cup Operations, stale : BOOLEAN]
ProcessRecords == [state : {"none", "alive", "dead"}, thread : 0..MaxThreads, begun : BOOLEAN]
NativeRecords == [threads : SUBSET (1..MaxThreads), turn : [Operations -> 0..Over],
                  inputs : [Operations -> 0..2]]
JobRecords == [stage : JobStages, generation : 0..MaxConnections, thread : 0..MaxThreads,
               late : BOOLEAN]
SessionStatuses == {"ready", "deleting", "delete_uncertain", "deleted"}
SessionRecords == [status : SessionStatuses, thread : 0..MaxThreads, fed : BOOLEAN]
DeleterStages == {"none", "begin", "native", "close", "remove", "failed", "closeFailed", "save"}
DeleterRecords == [stage : DeleterStages, reconcile : BOOLEAN,
                   outcome : {"ready", "delete_uncertain"}, done : BOOLEAN]
AnswererRecords == [stage : {"none", "close", "settle"}, of : {0} \cup Operations]
InterrupterStages == {"none", "ask", "wait", "close", "settle", "over"}
Closers == {"none", "commands", "stop", "jobs", "close", "settle", "gather", "over"}

\* The types by these names.
LEMMA CodeTypes ==
    CodeTypeOK <=>
        /\ service \in {"down", "up", "stopping", "closed"} /\ crashes \in 0..MaxCrashes
        /\ closer \in Closers /\ storage \in {"fine", "failed"}
        /\ session \in SessionRecords
        /\ current \in {0} \cup Operations /\ runs \in [Operations -> RunRecords]
        /\ prompt \in PromptRecords /\ sends \in [Senders -> SendRecords]
        /\ connection \in 0..MaxConnections /\ loaded \in 0..MaxThreads
        /\ process \in [Generations -> ProcessRecords] /\ native \in NativeRecords
        /\ job \in [Operations -> JobRecords] /\ hand \in [Tasks -> 0..MaxConnections]
        /\ interrupter \in [Operations -> InterrupterStages]
        /\ deleter \in DeleterRecords /\ halter \in {"none", "begin", "close", "over"}
        /\ answerer \in AnswererRecords
  BY DEF CodeTypeOK, Closers, SessionRecords, SessionStatuses, RunRecords, RunStatuses,
     PromptRecords, SendRecords, ProcessRecords, NativeRecords, JobRecords, InterrupterStages,
     DeleterRecords, DeleterStages, AnswererRecords

\* The numbers of the operations and of the processes.
LEMMA Numbers ==
    /\ 0 \notin Operations /\ 0 \notin Generations
    /\ Generations \subseteq 0..MaxConnections /\ 0 \in 0..MaxConnections
    /\ \A g \in 0..MaxConnections : g # 0 => g \in Generations
    /\ 0 \in 0..Over /\ Over \in 0..Over /\ Over # 0 /\ Over \notin Generations
    /\ Generations \subseteq 0..Over /\ 0 \in 0..MaxThreads
    /\ \A g \in 0..Over : g # 0 /\ g # Over => g \in Generations
    /\ \A t \in 1..MaxThreads : t \in 0..MaxThreads /\ t # 0
    /\ \A t \in 0..MaxThreads : t # 0 => t \in 1..MaxThreads
  BY CodeAssumption DEF Operations, Generations, Over, CodeAssumption

\* The tasks are told apart by their names.
LEMMA TaskNames ==
    /\ \A k, l, o, p : Task(k, o) = Task(l, p) => k = l /\ o = p
    /\ \A o \in Operations : Task("job", o) \in Tasks /\ Task("interrupter", o) \in Tasks
    /\ Only("deleter") \in Tasks /\ Only("halter") \in Tasks
    /\ Only("closer") \in Tasks /\ Only("answerer") \in Tasks
    /\ \A k : Only(k) = Task(k, 0)
<1>1. ASSUME NEW k, NEW l, NEW o, NEW p, Task(k, o) = Task(l, p) PROVE k = l /\ o = p
  <2>1. Task(k, o).kind = k /\ Task(l, p).kind = l /\ Task(k, o).of = o /\ Task(l, p).of = p
    BY DEF Task
  <2> QED
    BY <1>1, <2>1
<1> QED
  BY <1>1 DEF Task, Only, Tasks

\* The invariant has them.
LEMMA CodeTyped ==
    CodeInv =>
        /\ service \in {"down", "up", "stopping", "closed"} /\ crashes \in 0..MaxCrashes
        /\ closer \in Closers /\ storage \in {"fine", "failed"}
        /\ session \in SessionRecords
        /\ current \in {0} \cup Operations /\ runs \in [Operations -> RunRecords]
        /\ prompt \in PromptRecords /\ sends \in [Senders -> SendRecords]
        /\ connection \in 0..MaxConnections /\ loaded \in 0..MaxThreads
        /\ process \in [Generations -> ProcessRecords] /\ native \in NativeRecords
        /\ job \in [Operations -> JobRecords] /\ hand \in [Tasks -> 0..MaxConnections]
        /\ interrupter \in [Operations -> InterrupterStages]
        /\ deleter \in DeleterRecords /\ halter \in {"none", "begin", "close", "over"}
        /\ answerer \in AnswererRecords
  BY CodeTypes DEF CodeInv, CodeSafety

\* A task's stage moves on.
LEMMA JobGoes ==
    ASSUME job \in [Operations -> JobRecords], NEW o \in Operations, NEW s \in JobStages, Goes(o,
           s)
    PROVE  /\ job' \in [Operations -> JobRecords]
           /\ job'[o].stage = s /\ job'[o].generation = job[o].generation
           /\ job'[o].thread = job[o].thread /\ job'[o].late = job[o].late
           /\ \A p \in Operations : p # o => job'[p] = job[p]
<1> DEFINE r == [stage |-> s, generation |-> job[o].generation, thread |-> job[o].thread,
                 late |-> job[o].late]
<1>1. [job[o] EXCEPT !.stage = s] = r /\ r \in JobRecords
  BY DEF JobRecords
<1>2. job' = [job EXCEPT ![o] = r]
  BY <1>1 DEF Goes
<1>3. /\ r.stage = s /\ r.generation = job[o].generation /\ r.thread = job[o].thread
      /\ r.late = job[o].late
  OBVIOUS
<1> HIDE DEF r
<1>4. job'[o] = r /\ job' \in [Operations -> JobRecords]
  BY <1>1, <1>2
<1>5. \A p \in Operations : p # o => job'[p] = job[p]
  BY <1>2
<1> QED
  BY <1>3, <1>4, <1>5

\* It has ended.
LEMMA JobRests ==
    ASSUME job \in [Operations -> JobRecords], NEW o \in Operations, Rests(o)
    PROVE  /\ job' \in [Operations -> JobRecords]
           /\ job'[o].stage = "over" /\ job'[o].generation = 0
           /\ job'[o].thread = 0 /\ job'[o].late = job[o].late
           /\ \A p \in Operations : p # o => job'[p] = job[p]
<1> DEFINE r == [stage |-> "over", generation |-> 0, thread |-> 0, late |-> job[o].late]
<1> DEFINE h == [NoJob EXCEPT !.stage = "over"]
<1>1. h = [stage |-> "over", generation |-> 0, thread |-> 0, late |-> FALSE]
  <2>1. /\ NoJob \in JobRecords
        /\ NoJob.generation = 0 /\ NoJob.thread = 0 /\ NoJob.late = FALSE
    BY Numbers DEF NoJob, JobRecords, JobStages
  <2>2. h = [stage |-> "over", generation |-> NoJob.generation, thread |-> NoJob.thread,
         late |-> NoJob.late]
    BY <2>1 DEF JobRecords
  <2> QED
    BY <2>1, <2>2
<1>2. [NoJob EXCEPT !.stage = "over", !.late = job[o].late] = [h EXCEPT !.late = job[o].late]
  OBVIOUS
<1> HIDE DEF h
<1>3. [h EXCEPT !.late = job[o].late] = r
  BY <1>1
<1>4. r \in JobRecords
  BY Numbers DEF JobRecords, JobStages
<1>5. job' = [job EXCEPT ![o] = r]
  BY <1>2, <1>3 DEF Rests
<1>6. r.stage = "over" /\ r.generation = 0 /\ r.thread = 0 /\ r.late = job[o].late
  OBVIOUS
<1> HIDE DEF r
<1>7. job'[o] = r /\ job' \in [Operations -> JobRecords]
  BY <1>4, <1>5
<1>8. \A p \in Operations : p # o => job'[p] = job[p]
  BY <1>5
<1> QED
  BY <1>6, <1>7, <1>8

\* What was checked before becomes stale.
LEMMA SendsStale == ASSUME sends \in [Senders -> SendRecords]
                    PROVE Stale \in [Senders -> SendRecords]
<1>1. ASSUME NEW s \in Senders
      PROVE  [sends[s] EXCEPT !.stale = sends[s].operation # 0] \in SendRecords
  <2>1. (sends[s].operation # 0) \in BOOLEAN
    OBVIOUS
  <2> DEFINE b == sends[s].operation # 0
  <2>2. b \in BOOLEAN
    BY <2>1
  <2> HIDE DEF b
  <2>3. [sends[s] EXCEPT !.stale = b] \in SendRecords
    BY <2>2 DEF SendRecords
  <2> QED
    BY <2>3 DEF b
<1> QED
  BY <1>1 DEF Stale

\* Nobody is asked.
LEMMA PromptIsNone ==
    /\ NoPrompt \in PromptRecords
    /\ NoPrompt.status = "none" /\ NoPrompt.generation = 0 /\ NoPrompt.turn = 0
  BY Numbers DEF NoPrompt, PromptRecords

\* A run gets another status.
LEMMA RunChanges ==
    ASSUME runs \in [Operations -> RunRecords], NEW n \in Operations, NEW s \in RunStatuses,
           runs' = [runs EXCEPT ![n].status = s]
    PROVE  /\ runs' \in [Operations -> RunRecords]
           /\ runs'[n].status = s /\ runs'[n].turn = runs[n].turn /\ runs'[n].stop = runs[n].stop
           /\ \A p \in Operations : p # n => runs'[p] = runs[p]
<1> DEFINE r == [status |-> s, stop |-> runs[n].stop, submitted |-> runs[n].submitted,
                 turn |-> runs[n].turn]
<1>1. [runs[n] EXCEPT !.status = s] = r /\ r \in RunRecords
  BY DEF RunRecords
<1>2. runs' = [runs EXCEPT ![n] = r]
  BY <1>1
<1>3. r.status = s /\ r.turn = runs[n].turn /\ r.stop = runs[n].stop
  OBVIOUS
<1> HIDE DEF r
<1>4. runs'[n] = r /\ runs' \in [Operations -> RunRecords]
  BY <1>1, <1>2
<1>5. \A p \in Operations : p # n => runs'[p] = runs[p]
  BY <1>2
<1> QED
  BY <1>3, <1>4, <1>5

\* The current run is finished.
LEMMA RunFinishes ==
    ASSUME CodeTypeOK, current \in Operations, NEW s \in FinalStatuses, Finish(s)
    PROVE  /\ runs' \in [Operations -> RunRecords]
           /\ runs'[current].status = s /\ runs'[current].turn = runs[current].turn
           /\ \A p \in Operations : p # current => runs'[p] = runs[p]
           /\ prompt' \in {prompt, NoPrompt} /\ prompt' \in PromptRecords
           /\ sends' \in [Senders -> SendRecords]
           /\ session' = session /\ current' = current
<1>1. s \in RunStatuses
  BY DEF RunStatuses
<1>2. runs' = [runs EXCEPT ![current].status = s]
  BY DEF Finish
<1>3. /\ prompt' \in {prompt, NoPrompt} /\ sends' = Stale /\ session' = session
      /\ current' = current
  BY DEF Finish
<1>4. /\ prompt \in PromptRecords /\ sends \in [Senders -> SendRecords]
      /\ runs \in [Operations -> RunRecords]
  BY CodeTypes
<1> QED
  BY <1>1, <1>2, <1>3, <1>4, RunChanges, SendsStale, PromptIsNone

\* A task takes the owner's connection.
LEMMA Detaches ==
    ASSUME CodeTypeOK, NEW t \in Tasks, Detach(t)
    PROVE  /\ hand' \in [Tasks -> 0..MaxConnections] /\ hand'[t] = connection
           /\ \A s \in Tasks : s # t => hand'[s] = hand[s]
           /\ connection' = 0 /\ loaded' = 0 /\ EventsFit' /\ Waiting' = {}
<1>1. connection \in 0..MaxConnections /\ hand \in [Tasks -> 0..MaxConnections]
  BY DEF CodeTypeOK
<1>2. Waiting' = {}
  BY DEF Waiting, Detach
<1> QED
  BY <1>1, <1>2 DEF Detach, EventsFit

\* What it took has ended.
LEMMA ClosesAfter ==
    ASSUME CodeTypeOK, NEW t \in Tasks, AfterClose(t)
    PROVE  /\ hand' \in [Tasks -> 0..MaxConnections] /\ hand'[t] = 0
           /\ \A s \in Tasks : s # t => hand'[s] = hand[s]
           /\ hand[t] # 0 => process[hand[t]].state = "dead"
           /\ prompt' \in {prompt, NoPrompt} /\ prompt' \in PromptRecords
           /\ session' \in SessionRecords
           /\ session'.status = session.status /\ session'.fed = session.fed
           /\ session.thread # 0 => session'.thread = session.thread
<1>1. /\ session \in SessionRecords /\ prompt \in PromptRecords
      /\ hand \in [Tasks -> 0..MaxConnections] /\ process \in [Generations -> ProcessRecords]
  BY CodeTypes
<1>2. /\ hand' \in [Tasks -> 0..MaxConnections] /\ hand'[t] = 0
      /\ \A s \in Tasks : s # t => hand'[s] = hand[s]
  BY <1>1, Numbers DEF AfterClose
<1>3. hand[t] # 0 => process[hand[t]].state = "dead"
  BY DEF AfterClose, Closed
<1>4. prompt' \in {prompt, NoPrompt}
  BY DEF AfterClose
<1>5. CASE session' = session
  BY <1>1, <1>2, <1>3, <1>4, <1>5, PromptIsNone
<1>6. CASE session' = [session EXCEPT !.thread = process[hand[t]].thread] /\ hand[t] # 0
           /\ session.thread = 0
  <2>1. hand[t] \in Generations
    BY <1>1, <1>6, Numbers
  <2>2. process[hand[t]].thread \in 0..MaxThreads
    BY <1>1, <2>1 DEF ProcessRecords
  <2>3. session' = [status |-> session.status, thread |-> process[hand[t]].thread,
         fed |-> session.fed]
    BY <1>1, <1>6 DEF SessionRecords
  <2>4. session' \in SessionRecords /\ session'.status = session.status
         /\ session'.fed = session.fed
    BY <1>1, <2>2, <2>3 DEF SessionRecords
  <2> QED
    BY <1>1, <1>2, <1>3, <1>4, <1>6, <2>4, PromptIsNone
<1> QED
  BY <1>5, <1>6 DEF AfterClose

\* The first event is taken.
LEMMA FirstIsTaken ==
    ASSUME EventsFit, events # <<>>, Dispatched
    PROVE  EventsFit' /\ Waiting' \subseteq Waiting /\ Head(events) \in Waiting
           /\ Head(events) \in Events
<1>1. events \in Seq(Events) /\ Len(events) \in Nat /\ Len(events) # 0
  BY DEF EventsFit
<1>2. events' \in Seq(Events) /\ events' = Tail(events) /\ Len(events') = Len(events) - 1
  BY <1>1 DEF Dispatched
<1>3. \A i \in DOMAIN events' : i + 1 \in DOMAIN events /\ events'[i] = events[i + 1]
  BY <1>1, <1>2
<1>4. 1 \in DOMAIN events /\ Head(events) = events[1]
  BY <1>1
<1> QED
  BY <1>1, <1>2, <1>3, <1>4 DEF EventsFit, Waiting

\* Another event waits.
LEMMA Appends ==
    ASSUME EventsFit, NEW e \in Events, events' = Append(events, e)
    PROVE  EventsFit' /\ Waiting' = Waiting \cup {e}
<1>1. events \in Seq(Events) /\ Len(events) \in Nat
  BY DEF EventsFit
<1>2. /\ events' \in Seq(Events) /\ Len(events') = Len(events) + 1
      /\ \A i \in 1..Len(events) : events'[i] = events[i]
      /\ events'[Len(events) + 1] = e
  BY <1>1
<1>3. DOMAIN events' = DOMAIN events \cup {Len(events) + 1} /\ DOMAIN events = 1..Len(events)
  BY <1>1, <1>2
<1> QED
  BY <1>1, <1>2, <1>3 DEF EventsFit, Waiting

\* Another process is the owner's connection.
LEMMA Opens ==
    ASSUME CodeTypeOK, NEW g \in Generations, Opened(g)
    PROVE  /\ process' \in [Generations -> ProcessRecords]
           /\ process[g].state = "none" /\ process'[g].state = "alive"
           /\ process'[g].begun = process[g].begun /\ process'[g].thread = process[g].thread
           /\ \A h \in Generations : h # g => process'[h] = process[h]
           /\ connection' = g /\ EventsFit' /\ Waiting' = {} /\ loaded' = loaded
<1> DEFINE r == [state |-> "alive", thread |-> process[g].thread, begun |-> process[g].begun]
<1>0. process \in [Generations -> ProcessRecords]
  BY CodeTypes
<1>1. [process[g] EXCEPT !.state = "alive"] = r /\ r \in ProcessRecords
  BY <1>0 DEF ProcessRecords
<1>2. process' = [process EXCEPT ![g] = r]
  BY <1>1 DEF Opened
<1>3. r.state = "alive" /\ r.begun = process[g].begun /\ r.thread = process[g].thread
  OBVIOUS
<1> HIDE DEF r
<1>4. process'[g] = r /\ process' \in [Generations -> ProcessRecords]
  BY <1>0, <1>1, <1>2
<1>5. \A h \in Generations : h # g => process'[h] = process[h]
  BY <1>0, <1>2
<1>6. Waiting' = {} /\ EventsFit'
  BY DEF Waiting, Opened, EventsFit
<1> QED
  BY <1>3, <1>4, <1>5, <1>6 DEF Opened

\* A process has ended, and its turns with it.
LEMMA ProcessEnds ==
    ASSUME CodeTypeOK, EventsFit, NEW g \in Generations, Ends(g)
    PROVE  /\ process' \in [Generations -> ProcessRecords] /\ process'[g].state = "dead"
           /\ \A h \in Generations : /\ h # g => process'[h] = process[h]
                                     /\ process'[h].begun = process[h].begun
           /\ native' \in NativeRecords
           /\ native'.threads = native.threads /\ native'.inputs = native.inputs
           /\ \A o \in Operations : native'.turn[o] = IF native.turn[o] = g THEN Over ELSE native.turn[o]
           /\ EventsFit'
           /\ IF connection = g THEN Waiting' = Waiting \cup {[kind |-> "closed", of |-> 0]}
              ELSE Waiting' = Waiting
<1> DEFINE v == IF session.thread = 0 THEN process[g].thread ELSE 0
<1> DEFINE r == [state |-> "dead", thread |-> v, begun |-> process[g].begun]
<1> DEFINE h == [process[g] EXCEPT !.state = "dead"]
<1> DEFINE T == [o \in Operations |-> IF native.turn[o] = g THEN Over ELSE native.turn[o]]
<1>1. process \in [Generations -> ProcessRecords] /\ native \in NativeRecords
  BY CodeTypes
<1>2. h = [state |-> "dead", thread |-> process[g].thread, begun |-> process[g].begun]
  BY <1>1 DEF ProcessRecords
<1>3. v \in 0..MaxThreads
  BY <1>1, Numbers DEF ProcessRecords
<1>4. [process[g] EXCEPT !.state = "dead", !.thread = IF session.thread = 0 THEN @ ELSE 0]
      = [h EXCEPT !.thread = IF session.thread = 0 THEN @ ELSE 0]
  OBVIOUS
<1>5. process' = [process EXCEPT ![g] = [process[g] EXCEPT !.state = "dead",
       !.thread = IF session.thread = 0 THEN @ ELSE 0]]
  BY <1>1 DEF Ends
<1> HIDE DEF h
<1>6. [h EXCEPT !.thread = IF session.thread = 0 THEN @ ELSE 0] = [h EXCEPT !.thread = v]
  BY <1>2
<1> HIDE DEF v
<1>7. [h EXCEPT !.thread = v] = r
  BY <1>2
<1>8. process' = [process EXCEPT ![g] = r]
  BY <1>4, <1>5, <1>6, <1>7
<1>9. r \in ProcessRecords /\ r.state = "dead" /\ r.begun = process[g].begun
  BY <1>1, <1>3 DEF ProcessRecords
<1> HIDE DEF r
<1>10. /\ process' \in [Generations -> ProcessRecords] /\ process'[g].state = "dead"
       /\ \A f \in Generations : f # g => process'[f] = process[f]
       /\ process'[g].begun = process[g].begun
  BY <1>1, <1>8, <1>9
<1>11. T \in [Operations -> 0..Over]
  BY <1>1, Numbers DEF NativeRecords
<1>12. \A o \in Operations : T[o] = IF native.turn[o] = g THEN Over ELSE native.turn[o]
  OBVIOUS
<1>13. native' = [native EXCEPT !.turn = T]
  BY DEF Ends
<1> HIDE DEF T
<1>14. native' = [threads |-> native.threads, turn |-> T, inputs |-> native.inputs]
  BY <1>1, <1>13 DEF NativeRecords
<1>15. /\ native' \in NativeRecords /\ native'.turn = T
       /\ native'.threads = native.threads /\ native'.inputs = native.inputs
  BY <1>1, <1>11, <1>14 DEF NativeRecords
<1>16. CASE connection = g
  <2>1. [kind |-> "closed", of |-> 0] \in Events
    BY DEF Events
  <2>2. events' = Append(events, [kind |-> "closed", of |-> 0])
    BY <1>16 DEF Ends
  <2> QED
    BY <1>10, <1>12, <1>15, <1>16, <2>1, <2>2, Appends
<1>17. CASE connection # g
  <2>1. events' = events
    BY <1>17 DEF Ends
  <2>2. EventsFit' /\ Waiting' = Waiting
    BY <2>1 DEF EventsFit, Waiting
  <2> QED
    BY <1>10, <1>12, <1>15, <1>17, <2>2
<1> QED
  BY <1>16, <1>17

\* The run whose turn is known is interrupted, once.
LEMMA Interrupted ==
    ASSUME CodeTypeOK, NEW known, NEW stop, Interrupts(known, stop)
    PROVE  /\ interrupter' \in [Operations -> InterrupterStages]
           /\ \A o \in Operations :
                  \/ interrupter'[o] = interrupter[o]
                  \/ o = current /\ current # 0 /\ known /\ interrupter[o] = "none"
                      /\ interrupter'[o] = "ask"
<1>1. interrupter \in [Operations -> InterrupterStages] /\ current \in {0} \cup Operations
  BY CodeTypes
<1>2. CASE interrupter' = interrupter
  BY <1>1, <1>2
<1>3. CASE /\ current # 0 /\ known /\ interrupter[current] = "none"
           /\ interrupter' = [interrupter EXCEPT ![current] = "ask"]
  BY <1>1, <1>3 DEF InterrupterStages
<1> QED
  BY <1>2, <1>3 DEF Interrupts

\* A conversation is loaded: the turns of the runs that were submitted are found in it.
LEMMA RunsRecovered ==
    ASSUME CodeTypeOK, NEW t
    PROVE  /\ Recovered(t) \in [Operations -> RunRecords]
           /\ \A o \in Operations :
                  /\ Recovered(t)[o].status = runs[o].status
                      /\ Recovered(t)[o].stop = runs[o].stop
                  /\ \/ Recovered(t)[o].turn = runs[o].turn
                     \/ Recovered(t)[o].turn = o /\ native.turn[o] # 0
<1>1. runs \in [Operations -> RunRecords]
  BY CodeTypes
<1>2. ASSUME NEW o \in Operations
      PROVE  /\ Recovered(t)[o] \in RunRecords
             /\ Recovered(t)[o].status = runs[o].status /\ Recovered(t)[o].stop = runs[o].stop
             /\ \/ Recovered(t)[o].turn = runs[o].turn
                \/ Recovered(t)[o].turn = o /\ native.turn[o] # 0
  <2>1. [runs[o] EXCEPT !.turn = o] = [status |-> runs[o].status, stop |-> runs[o].stop,
                                       submitted |-> runs[o].submitted, turn |-> o]
    BY <1>1 DEF RunRecords
  <2>2. [runs[o] EXCEPT !.turn = o] \in RunRecords
    BY <1>1, <2>1 DEF RunRecords
  <2>3. CASE t # 0 /\ runs[o].submitted /\ native.turn[o] # 0
    <3>1. Recovered(t)[o] = [runs[o] EXCEPT !.turn = o]
      BY <2>3 DEF Recovered
    <3> QED
      BY <2>1, <2>2, <2>3, <3>1
  <2>4. CASE ~(t # 0 /\ runs[o].submitted /\ native.turn[o] # 0)
    <3>1. Recovered(t)[o] = runs[o]
      BY <2>4 DEF Recovered
    <3> QED
      BY <1>1, <3>1
  <2> QED
    BY <2>3, <2>4
<1>3. Recovered(t) = [o \in Operations |-> Recovered(t)[o]]
  BY DEF Recovered
<1> QED
  BY <1>2, <1>3

\* The events that wait are of the session's runs.
LEMMA EventsOf == CodeInv => \A e \in Waiting : e \in Events /\ e.of \in {0} \cup Operations
<1> SUFFICES ASSUME CodeInv, NEW e \in Waiting PROVE e \in Events /\ e.of \in {0} \cup Operations
  OBVIOUS
<1>1. events \in Seq(Events)
  BY DEF CodeInv, EventsFit
<1>2. PICK i \in DOMAIN events : e = events[i]
  BY DEF Waiting
<1>3. e \in Events
  BY <1>1, <1>2
<1> QED
  BY <1>3 DEF Events

\* The answer that fails is one of a run, or of none.
LEMMA AnswererOf == CodeInv => answerer.of \in {0} \cup Operations
  BY CodeTypes DEF CodeInv, CodeSafety, AnswererRecords

\* A connected task has a process.
LEMMA JobsHaveProcesses ==
    CodeInv => \A o \in Operations :
        job[o].stage \in {"thread", "attach", "start", "bind"} => job[o].generation # 0
  BY DEF CodeInv, JobsFit, Connected

\* The numbers by which processes are known.
LEMMA Generated ==
    CodeInv => /\ \A o \in Operations : /\ job[o].generation \in 0..MaxConnections
                                        /\ native.turn[o] \in 0..Over
               /\ prompt.generation \in 0..MaxConnections
               /\ \A t \in Tasks : hand[t] \in 0..MaxConnections
               /\ connection \in 0..MaxConnections
  BY CodeTypes DEF CodeInv, CodeSafety, JobRecords, NativeRecords, PromptRecords

\* The same when its turn is known just now.
LEMMA InterruptedNow ==
    ASSUME CodeTypeOK, NEW stop, Interrupts(TRUE, stop)
    PROVE  /\ interrupter' \in [Operations -> InterrupterStages]
           /\ \A q \in Operations :
                  \/ interrupter'[q] = interrupter[q]
                  \/ q = current /\ interrupter[q] = "none" /\ interrupter'[q] = "ask"
<1>1. interrupter \in [Operations -> InterrupterStages] /\ current \in {0} \cup Operations
  BY CodeTypes
<1>2. CASE interrupter' = interrupter
  BY <1>1, <1>2
<1>3. CASE /\ current # 0 /\ interrupter[current] = "none"
           /\ interrupter' = [interrupter EXCEPT ![current] = "ask"]
  BY <1>1, <1>3 DEF InterrupterStages
<1> QED
  BY <1>2, <1>3 DEF Interrupts

\* A task goes on with a process.
Connects(o, s, g) == job' = [job EXCEPT ![o].stage = s, ![o].generation = g]

\* What that changes.
LEMMA JobConnects ==
    ASSUME job \in [Operations -> JobRecords], NEW o \in Operations, NEW s \in JobStages,
           NEW g \in 0..MaxConnections,
           Connects(o, s, g)
    PROVE  /\ job' \in [Operations -> JobRecords]
           /\ job'[o].stage = s /\ job'[o].generation = g /\ job'[o].thread = job[o].thread
               /\ job'[o].late = job[o].late
           /\ \A p \in Operations : p # o => job'[p] = job[p]
<1> DEFINE r0 == job[o]
<1> DEFINE r1 == [r0 EXCEPT !.stage = s]
<1> DEFINE r2 == [r1 EXCEPT !.generation = g]
<1>1. r0 \in JobRecords
  BY DEF JobRecords
<1>2. job' = [job EXCEPT ![o] = r2]
  BY DEF Connects
<1> HIDE DEF r0, r1, r2
<1>3. r0 = [stage |-> job[o].stage, generation |-> job[o].generation, thread |-> job[o].thread,
       late |-> job[o].late]
  BY <1>1 DEF JobRecords, r0
<1>4. r1 = [stage |-> s, generation |-> job[o].generation, thread |-> job[o].thread,
       late |-> job[o].late]
  BY <1>3 DEF r1
<1>5. r2 = [stage |-> s, generation |-> g, thread |-> job[o].thread, late |-> job[o].late]
  BY <1>4 DEF r2
<1>6. r2 \in JobRecords /\ r2.stage = s /\ r2.generation = g /\ r2.thread = job[o].thread
       /\ r2.late = job[o].late
  BY <1>5, <1>1 DEF JobRecords, r0
<1>7. job'[o] = r2 /\ job' \in [Operations -> JobRecords]
  BY <1>2, <1>6
<1>8. \A p \in Operations : p # o => job'[p] = job[p]
  BY <1>2
<1> QED
  BY <1>6, <1>7, <1>8

\* It has opened one.
TakesProcess(o, s, g, l) == job' = [job EXCEPT ![o].stage = s, ![o].generation = g, ![o].late = l]

\* What that changes.
LEMMA JobOpens ==
    ASSUME job \in [Operations -> JobRecords], NEW o \in Operations, NEW s \in JobStages,
           NEW g \in 0..MaxConnections, NEW l \in BOOLEAN,
           TakesProcess(o, s, g, l)
    PROVE  /\ job' \in [Operations -> JobRecords]
           /\ job'[o].stage = s /\ job'[o].generation = g /\ job'[o].thread = job[o].thread
               /\ job'[o].late = l
           /\ \A p \in Operations : p # o => job'[p] = job[p]
<1> DEFINE r0 == job[o]
<1> DEFINE r1 == [r0 EXCEPT !.stage = s]
<1> DEFINE r2 == [r1 EXCEPT !.generation = g]
<1> DEFINE r3 == [r2 EXCEPT !.late = l]
<1>1. r0 \in JobRecords
  BY DEF JobRecords
<1>2. job' = [job EXCEPT ![o] = r3]
  BY DEF TakesProcess
<1> HIDE DEF r0, r1, r2, r3
<1>3. r0 = [stage |-> job[o].stage, generation |-> job[o].generation, thread |-> job[o].thread,
       late |-> job[o].late]
  BY <1>1 DEF JobRecords, r0
<1>4. r1 = [stage |-> s, generation |-> job[o].generation, thread |-> job[o].thread,
       late |-> job[o].late]
  BY <1>3 DEF r1
<1>5. r2 = [stage |-> s, generation |-> g, thread |-> job[o].thread, late |-> job[o].late]
  BY <1>4 DEF r2
<1>6. r3 = [stage |-> s, generation |-> g, thread |-> job[o].thread, late |-> l]
  BY <1>5 DEF r3
<1>7. r3 \in JobRecords /\ r3.stage = s /\ r3.generation = g /\ r3.thread = job[o].thread
       /\ r3.late = l
  BY <1>6, <1>1 DEF JobRecords, r0
<1>8. job'[o] = r3 /\ job' \in [Operations -> JobRecords]
  BY <1>2, <1>7
<1>9. \A p \in Operations : p # o => job'[p] = job[p]
  BY <1>2
<1> QED
  BY <1>7, <1>8, <1>9

\* It goes on with a conversation.
TakesThread(o, s, n) == job' = [job EXCEPT ![o].stage = s, ![o].thread = n]

\* What that changes.
LEMMA JobLoads ==
    ASSUME job \in [Operations -> JobRecords], NEW o \in Operations, NEW s \in JobStages,
           NEW n \in 0..MaxThreads,
           TakesThread(o, s, n)
    PROVE  /\ job' \in [Operations -> JobRecords]
           /\ job'[o].stage = s /\ job'[o].generation = job[o].generation
               /\ job'[o].thread = n /\ job'[o].late = job[o].late
           /\ \A p \in Operations : p # o => job'[p] = job[p]
<1> DEFINE r0 == job[o]
<1> DEFINE r1 == [r0 EXCEPT !.stage = s]
<1> DEFINE r2 == [r1 EXCEPT !.thread = n]
<1>1. r0 \in JobRecords
  BY DEF JobRecords
<1>2. job' = [job EXCEPT ![o] = r2]
  BY DEF TakesThread
<1> HIDE DEF r0, r1, r2
<1>3. r0 = [stage |-> job[o].stage, generation |-> job[o].generation, thread |-> job[o].thread,
       late |-> job[o].late]
  BY <1>1 DEF JobRecords, r0
<1>4. r1 = [stage |-> s, generation |-> job[o].generation, thread |-> job[o].thread,
       late |-> job[o].late]
  BY <1>3 DEF r1
<1>5. r2 = [stage |-> s, generation |-> job[o].generation, thread |-> n, late |-> job[o].late]
  BY <1>4 DEF r2
<1>6. r2 \in JobRecords /\ r2.stage = s /\ r2.generation = job[o].generation /\ r2.thread = n
       /\ r2.late = job[o].late
  BY <1>5, <1>1 DEF JobRecords, r0
<1>7. job'[o] = r2 /\ job' \in [Operations -> JobRecords]
  BY <1>2, <1>6
<1>8. \A p \in Operations : p # o => job'[p] = job[p]
  BY <1>2
<1> QED
  BY <1>6, <1>7, <1>8

\* A run is to stop.
StopsRun(o, b, s) == runs' = [runs EXCEPT ![o].stop = b, ![o].status = s]

\* What that changes.
LEMMA RunStops ==
    ASSUME runs \in [Operations -> RunRecords], NEW o \in Operations, NEW b \in BOOLEAN,
           NEW s \in RunStatuses,
           StopsRun(o, b, s)
    PROVE  /\ runs' \in [Operations -> RunRecords]
           /\ runs'[o].status = s /\ runs'[o].stop = b
               /\ runs'[o].submitted = runs[o].submitted /\ runs'[o].turn = runs[o].turn
           /\ \A p \in Operations : p # o => runs'[p] = runs[p]
<1> DEFINE r0 == runs[o]
<1> DEFINE r1 == [r0 EXCEPT !.stop = b]
<1> DEFINE r2 == [r1 EXCEPT !.status = s]
<1>1. r0 \in RunRecords
  BY DEF RunRecords
<1>2. runs' = [runs EXCEPT ![o] = r2]
  BY DEF StopsRun
<1> HIDE DEF r0, r1, r2
<1>3. r0 = [status |-> runs[o].status, stop |-> runs[o].stop, submitted |-> runs[o].submitted,
       turn |-> runs[o].turn]
  BY <1>1 DEF RunRecords, r0
<1>4. r1 = [status |-> runs[o].status, stop |-> b, submitted |-> runs[o].submitted,
       turn |-> runs[o].turn]
  BY <1>3 DEF r1
<1>5. r2 = [status |-> s, stop |-> b, submitted |-> runs[o].submitted, turn |-> runs[o].turn]
  BY <1>4 DEF r2
<1>6. r2 \in RunRecords /\ r2.status = s /\ r2.stop = b /\ r2.submitted = runs[o].submitted
       /\ r2.turn = runs[o].turn
  BY <1>5, <1>1 DEF RunRecords, r0
<1>7. runs'[o] = r2 /\ runs' \in [Operations -> RunRecords]
  BY <1>2, <1>6
<1>8. \A p \in Operations : p # o => runs'[p] = runs[p]
  BY <1>2
<1> QED
  BY <1>6, <1>7, <1>8

\* Its turn is known.
BindsRun(o, t, s) == runs' = [runs EXCEPT ![o].turn = t, ![o].status = s]

\* What that changes.
LEMMA RunBinds ==
    ASSUME runs \in [Operations -> RunRecords], NEW o \in Operations,
           NEW t \in {0} \cup Operations, NEW s \in RunStatuses,
           BindsRun(o, t, s)
    PROVE  /\ runs' \in [Operations -> RunRecords]
           /\ runs'[o].status = s /\ runs'[o].stop = runs[o].stop
               /\ runs'[o].submitted = runs[o].submitted /\ runs'[o].turn = t
           /\ \A p \in Operations : p # o => runs'[p] = runs[p]
<1> DEFINE r0 == runs[o]
<1> DEFINE r1 == [r0 EXCEPT !.turn = t]
<1> DEFINE r2 == [r1 EXCEPT !.status = s]
<1>1. r0 \in RunRecords
  BY DEF RunRecords
<1>2. runs' = [runs EXCEPT ![o] = r2]
  BY DEF BindsRun
<1> HIDE DEF r0, r1, r2
<1>3. r0 = [status |-> runs[o].status, stop |-> runs[o].stop, submitted |-> runs[o].submitted,
       turn |-> runs[o].turn]
  BY <1>1 DEF RunRecords, r0
<1>4. r1 = [status |-> runs[o].status, stop |-> runs[o].stop, submitted |-> runs[o].submitted,
       turn |-> t]
  BY <1>3 DEF r1
<1>5. r2 = [status |-> s, stop |-> runs[o].stop, submitted |-> runs[o].submitted, turn |-> t]
  BY <1>4 DEF r2
<1>6. r2 \in RunRecords /\ r2.status = s /\ r2.stop = runs[o].stop
       /\ r2.submitted = runs[o].submitted /\ r2.turn = t
  BY <1>5, <1>1 DEF RunRecords, r0
<1>7. runs'[o] = r2 /\ runs' \in [Operations -> RunRecords]
  BY <1>2, <1>6
<1>8. \A p \in Operations : p # o => runs'[p] = runs[p]
  BY <1>2
<1> QED
  BY <1>6, <1>7, <1>8

\* A process has loaded a conversation.
LEMMA ProcessLoads ==
    ASSUME process \in [Generations -> ProcessRecords], NEW g \in Generations,
           NEW n \in 0..MaxThreads,
           process' = [process EXCEPT ![g].thread = n]
    PROVE  /\ process' \in [Generations -> ProcessRecords]
           /\ process'[g].state = process[g].state /\ process'[g].thread = n
               /\ process'[g].begun = process[g].begun
           /\ \A p \in Generations : p # g => process'[p] = process[p]
<1> DEFINE r0 == process[g]
<1> DEFINE r1 == [r0 EXCEPT !.thread = n]
<1>1. r0 \in ProcessRecords
  BY DEF ProcessRecords
<1>2. process' = [process EXCEPT ![g] = r1]
  OBVIOUS
<1> HIDE DEF r0, r1
<1>3. r0 = [state |-> process[g].state, thread |-> process[g].thread, begun |-> process[g].begun]
  BY <1>1 DEF ProcessRecords, r0
<1>4. r1 = [state |-> process[g].state, thread |-> n, begun |-> process[g].begun]
  BY <1>3 DEF r1
<1>5. r1 \in ProcessRecords /\ r1.state = process[g].state /\ r1.thread = n
       /\ r1.begun = process[g].begun
  BY <1>4, <1>1 DEF ProcessRecords, r0
<1>6. process'[g] = r1 /\ process' \in [Generations -> ProcessRecords]
  BY <1>2, <1>5
<1>7. \A p \in Generations : p # g => process'[p] = process[p]
  BY <1>2
<1> QED
  BY <1>5, <1>6, <1>7

\* A turn has begun in it.
LEMMA ProcessBegins ==
    ASSUME process \in [Generations -> ProcessRecords], NEW g \in Generations, NEW b \in BOOLEAN,
           process' = [process EXCEPT ![g].begun = b]
    PROVE  /\ process' \in [Generations -> ProcessRecords]
           /\ process'[g].state = process[g].state /\ process'[g].thread = process[g].thread
               /\ process'[g].begun = b
           /\ \A p \in Generations : p # g => process'[p] = process[p]
<1> DEFINE r0 == process[g]
<1> DEFINE r1 == [r0 EXCEPT !.begun = b]
<1>1. r0 \in ProcessRecords
  BY DEF ProcessRecords
<1>2. process' = [process EXCEPT ![g] = r1]
  OBVIOUS
<1> HIDE DEF r0, r1
<1>3. r0 = [state |-> process[g].state, thread |-> process[g].thread, begun |-> process[g].begun]
  BY <1>1 DEF ProcessRecords, r0
<1>4. r1 = [state |-> process[g].state, thread |-> process[g].thread, begun |-> b]
  BY <1>3 DEF r1
<1>5. r1 \in ProcessRecords /\ r1.state = process[g].state /\ r1.thread = process[g].thread
       /\ r1.begun = b
  BY <1>4, <1>1 DEF ProcessRecords, r0
<1>6. process'[g] = r1 /\ process' \in [Generations -> ProcessRecords]
  BY <1>2, <1>5
<1>7. \A p \in Generations : p # g => process'[p] = process[p]
  BY <1>2
<1> QED
  BY <1>5, <1>6, <1>7

\* A prompt is being answered.
LEMMA PromptIsAnswered ==
    ASSUME prompt \in PromptRecords, NEW s \in {"none", "pending", "answering"},
           prompt' = [prompt EXCEPT !.status = s]
    PROVE  /\ prompt' \in PromptRecords
           /\ prompt'.status = s /\ prompt'.generation = prompt.generation
               /\ prompt'.turn = prompt.turn
<1> DEFINE r0 == prompt
<1> DEFINE r1 == [r0 EXCEPT !.status = s]
<1>1. r0 \in PromptRecords
  BY DEF PromptRecords
<1>2. prompt' = r1
  OBVIOUS
<1> HIDE DEF r0, r1
<1>3. r0 = [status |-> prompt.status, generation |-> prompt.generation, turn |-> prompt.turn]
  BY <1>1 DEF PromptRecords, r0
<1>4. r1 = [status |-> s, generation |-> prompt.generation, turn |-> prompt.turn]
  BY <1>3 DEF r1
<1>5. r1 \in PromptRecords /\ r1.status = s /\ r1.generation = prompt.generation
       /\ r1.turn = prompt.turn
  BY <1>4, <1>1 DEF PromptRecords, r0
<1> QED
  BY <1>2, <1>5

\* The session gets another status.
LEMMA SessionIs ==
    ASSUME session \in SessionRecords, NEW s \in SessionStatuses,
           session' = [session EXCEPT !.status = s]
    PROVE  /\ session' \in SessionRecords
           /\ session'.status = s /\ session'.thread = session.thread
               /\ session'.fed = session.fed
<1> DEFINE r0 == session
<1> DEFINE r1 == [r0 EXCEPT !.status = s]
<1>1. r0 \in SessionRecords
  BY DEF SessionRecords
<1>2. session' = r1
  OBVIOUS
<1> HIDE DEF r0, r1
<1>3. r0 = [status |-> session.status, thread |-> session.thread, fed |-> session.fed]
  BY <1>1 DEF SessionRecords, r0
<1>4. r1 = [status |-> s, thread |-> session.thread, fed |-> session.fed]
  BY <1>3 DEF r1
<1>5. r1 \in SessionRecords /\ r1.status = s /\ r1.thread = session.thread /\ r1.fed = session.fed
  BY <1>4, <1>1 DEF SessionRecords, r0
<1> QED
  BY <1>2, <1>5

\* Its conversation is saved.
LEMMA SessionLoads ==
    ASSUME session \in SessionRecords, NEW n \in 0..MaxThreads,
           session' = [session EXCEPT !.thread = n]
    PROVE  /\ session' \in SessionRecords
           /\ session'.status = session.status /\ session'.thread = n
               /\ session'.fed = session.fed
<1> DEFINE r0 == session
<1> DEFINE r1 == [r0 EXCEPT !.thread = n]
<1>1. r0 \in SessionRecords
  BY DEF SessionRecords
<1>2. session' = r1
  OBVIOUS
<1> HIDE DEF r0, r1
<1>3. r0 = [status |-> session.status, thread |-> session.thread, fed |-> session.fed]
  BY <1>1 DEF SessionRecords, r0
<1>4. r1 = [status |-> session.status, thread |-> n, fed |-> session.fed]
  BY <1>3 DEF r1
<1>5. r1 \in SessionRecords /\ r1.status = session.status /\ r1.thread = n /\ r1.fed = session.fed
  BY <1>4, <1>1 DEF SessionRecords, r0
<1> QED
  BY <1>2, <1>5

\* It has had input.
FeedsSession(n, b) == session' = [session EXCEPT !.thread = n, !.fed = b]

\* What that changes.
LEMMA SessionFeeds ==
    ASSUME session \in SessionRecords, NEW n \in 0..MaxThreads, NEW b \in BOOLEAN,
           FeedsSession(n, b)
    PROVE  /\ session' \in SessionRecords
           /\ session'.status = session.status /\ session'.thread = n /\ session'.fed = b
<1> DEFINE r0 == session
<1> DEFINE r1 == [r0 EXCEPT !.thread = n]
<1> DEFINE r2 == [r1 EXCEPT !.fed = b]
<1>1. r0 \in SessionRecords
  BY DEF SessionRecords
<1>2. session' = r2
  BY DEF FeedsSession
<1> HIDE DEF r0, r1, r2
<1>3. r0 = [status |-> session.status, thread |-> session.thread, fed |-> session.fed]
  BY <1>1 DEF SessionRecords, r0
<1>4. r1 = [status |-> session.status, thread |-> n, fed |-> session.fed]
  BY <1>3 DEF r1
<1>5. r2 = [status |-> session.status, thread |-> n, fed |-> b]
  BY <1>4 DEF r2
<1>6. r2 \in SessionRecords /\ r2.status = session.status /\ r2.thread = n /\ r2.fed = b
  BY <1>5, <1>1 DEF SessionRecords, r0
<1> QED
  BY <1>2, <1>6

\* The deletion goes on.
LEMMA DeleterGoes ==
    ASSUME deleter \in DeleterRecords, NEW s \in DeleterStages,
           deleter' = [deleter EXCEPT !.stage = s]
    PROVE  /\ deleter' \in DeleterRecords
           /\ deleter'.stage = s /\ deleter'.reconcile = deleter.reconcile
               /\ deleter'.outcome = deleter.outcome /\ deleter'.done = deleter.done
<1> DEFINE r0 == deleter
<1> DEFINE r1 == [r0 EXCEPT !.stage = s]
<1>1. r0 \in DeleterRecords
  BY DEF DeleterRecords
<1>2. deleter' = r1
  OBVIOUS
<1> HIDE DEF r0, r1
<1>3. r0 = [stage |-> deleter.stage, reconcile |-> deleter.reconcile,
       outcome |-> deleter.outcome, done |-> deleter.done]
  BY <1>1 DEF DeleterRecords, r0
<1>4. r1 = [stage |-> s, reconcile |-> deleter.reconcile, outcome |-> deleter.outcome,
       done |-> deleter.done]
  BY <1>3 DEF r1
<1>5. r1 \in DeleterRecords /\ r1.stage = s /\ r1.reconcile = deleter.reconcile
       /\ r1.outcome = deleter.outcome /\ r1.done = deleter.done
  BY <1>4, <1>1 DEF DeleterRecords, r0
<1> QED
  BY <1>2, <1>5

\* The conversation is gone.
DoneDeleting(s, b) == deleter' = [deleter EXCEPT !.stage = s, !.done = b]

\* What that changes.
LEMMA DeleterIsDone ==
    ASSUME deleter \in DeleterRecords, NEW s \in DeleterStages, NEW b \in BOOLEAN,
           DoneDeleting(s, b)
    PROVE  /\ deleter' \in DeleterRecords
           /\ deleter'.stage = s /\ deleter'.reconcile = deleter.reconcile
               /\ deleter'.outcome = deleter.outcome /\ deleter'.done = b
<1> DEFINE r0 == deleter
<1> DEFINE r1 == [r0 EXCEPT !.stage = s]
<1> DEFINE r2 == [r1 EXCEPT !.done = b]
<1>1. r0 \in DeleterRecords
  BY DEF DeleterRecords
<1>2. deleter' = r2
  BY DEF DoneDeleting
<1> HIDE DEF r0, r1, r2
<1>3. r0 = [stage |-> deleter.stage, reconcile |-> deleter.reconcile,
       outcome |-> deleter.outcome, done |-> deleter.done]
  BY <1>1 DEF DeleterRecords, r0
<1>4. r1 = [stage |-> s, reconcile |-> deleter.reconcile, outcome |-> deleter.outcome,
       done |-> deleter.done]
  BY <1>3 DEF r1
<1>5. r2 = [stage |-> s, reconcile |-> deleter.reconcile, outcome |-> deleter.outcome, done |-> b]
  BY <1>4 DEF r2
<1>6. r2 \in DeleterRecords /\ r2.stage = s /\ r2.reconcile = deleter.reconcile
       /\ r2.outcome = deleter.outcome /\ r2.done = b
  BY <1>5, <1>1 DEF DeleterRecords, r0
<1> QED
  BY <1>2, <1>6

\* It fails.
FailsDeleting(s, x) == deleter' = [deleter EXCEPT !.stage = s, !.outcome = x]

\* What that changes.
LEMMA DeleterFails ==
    ASSUME deleter \in DeleterRecords, NEW s \in DeleterStages, NEW x \in {"ready",
           "delete_uncertain"},
           FailsDeleting(s, x)
    PROVE  /\ deleter' \in DeleterRecords
           /\ deleter'.stage = s /\ deleter'.reconcile = deleter.reconcile
               /\ deleter'.outcome = x /\ deleter'.done = deleter.done
<1> DEFINE r0 == deleter
<1> DEFINE r1 == [r0 EXCEPT !.stage = s]
<1> DEFINE r2 == [r1 EXCEPT !.outcome = x]
<1>1. r0 \in DeleterRecords
  BY DEF DeleterRecords
<1>2. deleter' = r2
  BY DEF FailsDeleting
<1> HIDE DEF r0, r1, r2
<1>3. r0 = [stage |-> deleter.stage, reconcile |-> deleter.reconcile,
       outcome |-> deleter.outcome, done |-> deleter.done]
  BY <1>1 DEF DeleterRecords, r0
<1>4. r1 = [stage |-> s, reconcile |-> deleter.reconcile, outcome |-> deleter.outcome,
       done |-> deleter.done]
  BY <1>3 DEF r1
<1>5. r2 = [stage |-> s, reconcile |-> deleter.reconcile, outcome |-> x, done |-> deleter.done]
  BY <1>4 DEF r2
<1>6. r2 \in DeleterRecords /\ r2.stage = s /\ r2.reconcile = deleter.reconcile
       /\ r2.outcome = x /\ r2.done = deleter.done
  BY <1>5, <1>1 DEF DeleterRecords, r0
<1> QED
  BY <1>2, <1>6

\* The answer that failed goes on.
LEMMA AnswererGoes ==
    ASSUME answerer \in AnswererRecords, NEW s \in {"none", "close", "settle"},
           answerer' = [answerer EXCEPT !.stage = s]
    PROVE  /\ answerer' \in AnswererRecords
           /\ answerer'.stage = s /\ answerer'.of = answerer.of
<1> DEFINE r0 == answerer
<1> DEFINE r1 == [r0 EXCEPT !.stage = s]
<1>1. r0 \in AnswererRecords
  BY DEF AnswererRecords
<1>2. answerer' = r1
  OBVIOUS
<1> HIDE DEF r0, r1
<1>3. r0 = [stage |-> answerer.stage, of |-> answerer.of]
  BY <1>1 DEF AnswererRecords, r0
<1>4. r1 = [stage |-> s, of |-> answerer.of]
  BY <1>3 DEF r1
<1>5. r1 \in AnswererRecords /\ r1.stage = s /\ r1.of = answerer.of
  BY <1>4, <1>1 DEF AnswererRecords, r0
<1> QED
  BY <1>2, <1>5

\* There are other conversations.
LEMMA ThreadsChange ==
    ASSUME native \in NativeRecords, NEW h \in SUBSET (1..MaxThreads),
           native' = [native EXCEPT !.threads = h]
    PROVE  /\ native' \in NativeRecords
           /\ native'.threads = h /\ native'.turn = native.turn /\ native'.inputs = native.inputs
<1> DEFINE r0 == native
<1> DEFINE r1 == [r0 EXCEPT !.threads = h]
<1>1. r0 \in NativeRecords
  BY DEF NativeRecords
<1>2. native' = r1
  OBVIOUS
<1> HIDE DEF r0, r1
<1>3. r0 = [threads |-> native.threads, turn |-> native.turn, inputs |-> native.inputs]
  BY <1>1 DEF NativeRecords, r0
<1>4. r1 = [threads |-> h, turn |-> native.turn, inputs |-> native.inputs]
  BY <1>3 DEF r1
<1>5. r1 \in NativeRecords /\ r1.threads = h /\ r1.turn = native.turn /\ r1.inputs = native.inputs
  BY <1>4, <1>1 DEF NativeRecords, r0
<1> QED
  BY <1>2, <1>5

\* The input of a run is given away: its turn begins.
LEMMA NativeFeeds ==
    ASSUME native \in NativeRecords, NEW o \in Operations, NEW v \in 0..2, NEW g \in 0..Over,
           native' = [native EXCEPT !.inputs[o] = v, !.turn[o] = g]
    PROVE  /\ native' \in NativeRecords /\ native'.threads = native.threads
           /\ native'.inputs[o] = v /\ native'.turn[o] = g
           /\ \A p \in Operations : p # o =>
                  native'.inputs[p] = native.inputs[p] /\ native'.turn[p] = native.turn[p]
<1> DEFINE I == [native.inputs EXCEPT ![o] = v]
<1> DEFINE T == [native.turn EXCEPT ![o] = g]
<1> DEFINE h == [native EXCEPT !.inputs = I]
<1>1. h = [threads |-> native.threads, turn |-> native.turn, inputs |-> I]
  BY DEF NativeRecords
<1>2. native' = [h EXCEPT !.turn = [h.turn EXCEPT ![o] = g]]
  OBVIOUS
<1>3. h.turn = native.turn
  BY <1>1
<1>4. I \in [Operations -> 0..2] /\ I[o] = v
       /\ \A p \in Operations : p # o => I[p] = native.inputs[p]
  BY DEF NativeRecords
<1>5. T \in [Operations -> 0..Over] /\ T[o] = g
       /\ \A p \in Operations : p # o => T[p] = native.turn[p]
  BY DEF NativeRecords
<1>6. native' = [h EXCEPT !.turn = T]
  BY <1>2, <1>3
<1> HIDE DEF h, I, T
<1>7. native' = [threads |-> native.threads, turn |-> T, inputs |-> I]
  BY <1>1, <1>6
<1> QED
  BY <1>4, <1>5, <1>7 DEF NativeRecords

\* A turn is over.
LEMMA TurnIsOver ==
    ASSUME native \in NativeRecords, NEW o \in Operations, NEW g \in 0..Over,
           native' = [native EXCEPT !.turn[o] = g]
    PROVE  /\ native' \in NativeRecords /\ native'.threads = native.threads
           /\ native'.inputs = native.inputs /\ native'.turn[o] = g
           /\ \A p \in Operations : p # o => native'.turn[p] = native.turn[p]
<1> DEFINE T == [native.turn EXCEPT ![o] = g]
<1>1. T \in [Operations -> 0..Over] /\ T[o] = g
       /\ \A p \in Operations : p # o => T[p] = native.turn[p]
  BY DEF NativeRecords
<1>2. native' = [native EXCEPT !.turn = T]
  OBVIOUS
<1> HIDE DEF T
<1>3. native' = [threads |-> native.threads, turn |-> T, inputs |-> native.inputs]
  BY <1>2 DEF NativeRecords
<1> QED
  BY <1>1, <1>3 DEF NativeRecords

\* A deletion begins, or one that is uncertain is looked at.
LEMMA DeletionBegins ==
    /\ NoDeletion \in DeleterRecords /\ NoDeletion.stage = "none"
    /\ [NoDeletion EXCEPT !.stage = "begin"] \in DeleterRecords
    /\ [NoDeletion EXCEPT !.stage = "begin"].stage = "begin"
    /\ [NoDeletion EXCEPT !.stage = "begin", !.reconcile = TRUE] \in DeleterRecords
    /\ [NoDeletion EXCEPT !.stage = "begin", !.reconcile = TRUE].stage = "begin"
<1> DEFINE h == [NoDeletion EXCEPT !.stage = "begin"]
<1>1. /\ NoDeletion \in DeleterRecords /\ NoDeletion.stage = "none"
         /\ NoDeletion.reconcile = FALSE
      /\ NoDeletion.outcome = "ready" /\ NoDeletion.done = FALSE
  BY DEF NoDeletion, DeleterRecords, DeleterStages
<1>2. h = [stage |-> "begin", reconcile |-> NoDeletion.reconcile, outcome |-> NoDeletion.outcome,
           done |-> NoDeletion.done]
  BY <1>1 DEF DeleterRecords
<1>3. [NoDeletion EXCEPT !.stage = "begin", !.reconcile = TRUE] = [h EXCEPT !.reconcile = TRUE]
  OBVIOUS
<1> HIDE DEF h
<1>4. h \in DeleterRecords /\ h.stage = "begin"
  BY <1>1, <1>2 DEF DeleterRecords, DeleterStages
<1>5. ASSUME NEW d \in DeleterRecords, NEW b \in BOOLEAN
      PROVE  [d EXCEPT !.reconcile = b] \in DeleterRecords
             /\ [d EXCEPT !.reconcile = b].stage = d.stage
  BY DEF DeleterRecords
<1>6. [h EXCEPT !.reconcile = TRUE] \in DeleterRecords
       /\ [h EXCEPT !.reconcile = TRUE].stage = "begin"
  BY <1>4, <1>5
<1> QED
  BY <1>1, <1>3, <1>4, <1>6 DEF h

\* A part of the invariant holds on when what it is about does not change.
LEMMA PartsRest ==
    CodeInv =>
        /\ UNCHANGED <<runs, job, native, session>> => JobsFit'
        /\ UNCHANGED <<runs, current>> => OneActiveRun'
        /\ UNCHANGED <<runs, native>> => CompletedIsOver'
        /\ UNCHANGED <<job, process, connection, hand>> => ProcessesAreOwned'
        /\ UNCHANGED <<service, job, process, runs, current, storage>> => ClosedIsQuiet'
        /\ UNCHANGED <<session, deleter, storage>> => DeletionIsDecided'
        /\ UNCHANGED <<runs, current, session, deleter, service, closer, storage, job, halter>>
           => ServiceFits'
        /\ UNCHANGED <<session, job, native>> => FedFits'
        /\ UNCHANGED <<runs, native, interrupter>> => TurnsFit'
        /\ UNCHANGED <<connection, process, job, native, hand, prompt>> => ProcessesFit'
        /\ UNCHANGED <<hand, job, interrupter, deleter, halter, closer, answerer>> => HandsFit'
        /\ UNCHANGED <<Waiting, connection, native, runs, current, job, process>> =>
           EventsAreTrue'
        /\ UNCHANGED <<job, connection, runs, current>> => StartsAreActive'
        /\ UNCHANGED <<connection, process, runs, current, job, prompt>> => OpeningIsUnasked'
        /\ UNCHANGED <<answerer, job, connection, Waiting>> => AnswererFits'
        /\ UNCHANGED <<closer, Waiting, job, connection>> => ShutFits'
        /\ UNCHANGED <<job, connection, current, deleter, closer>> => PlaceIsFree'
        /\ UNCHANGED <<session, deleter, native, job, connection>> => GoneStays'
        /\ UNCHANGED <<session, native>> => DeletedIsGone'
        /\ UNCHANGED native => InputNeverResent'
<1>1. CodeInv /\ UNCHANGED <<runs, job, native, session>> => JobsFit'
  BY DEF CodeInv, CodeSafety, JobsFit, Unopened, Unfed, Connected
<1>2. CodeInv /\ UNCHANGED <<runs, current>> => OneActiveRun'
  BY DEF CodeInv, CodeSafety, OneActiveRun, ActiveStatuses
<1>3. CodeInv /\ UNCHANGED <<runs, native>> => CompletedIsOver'
  BY DEF CodeInv, CodeSafety, CompletedIsOver
<1>4. CodeInv /\ UNCHANGED <<job, process, connection, hand>> => ProcessesAreOwned'
  BY DEF CodeInv, CodeSafety, ProcessesAreOwned, NobodyIsLate
<1>5. CodeInv /\ UNCHANGED <<service, job, process, runs, current, storage>> => ClosedIsQuiet'
  BY DEF CodeInv, CodeSafety, ClosedIsQuiet, NobodyIsLate, Saves, Busy, ActiveStatuses
<1>6. CodeInv /\ UNCHANGED <<session, deleter, storage>> => DeletionIsDecided'
  BY DEF CodeInv, CodeSafety, DeletionIsDecided, Saves
<1>7. CodeInv /\ UNCHANGED <<runs, current, session, deleter, service, closer, storage, job,
   halter>> => ServiceFits'
  BY DEF CodeInv, CodeSafety, ServiceFits, Saves, Busy, ActiveStatuses
<1>8. CodeInv /\ UNCHANGED <<session, job, native>> => FedFits'
  BY DEF CodeInv, CodeSafety, FedFits
<1>9. CodeInv /\ UNCHANGED <<runs, native, interrupter>> => TurnsFit'
  BY DEF CodeInv, CodeSafety, TurnsFit
<1>10. CodeInv /\ UNCHANGED <<connection, process, job, native, hand, prompt>> => ProcessesFit'
  BY DEF CodeInv, CodeSafety, ProcessesFit
<1>11. CodeInv /\ UNCHANGED <<hand, job, interrupter, deleter, halter, closer, answerer>> =>
   HandsFit'
  BY DEF CodeInv, CodeSafety, HandsFit
<1>12. CodeInv /\ UNCHANGED <<Waiting, connection, native, runs, current, job, process>> =>
   EventsAreTrue'
  BY DEF CodeInv, CodeSafety, EventsAreTrue, Busy, IsActive, ActiveStatuses
<1>13. CodeInv /\ UNCHANGED <<job, connection, runs, current>> => StartsAreActive'
  BY DEF CodeInv, CodeSafety, StartsAreActive, Busy, IsActive, ActiveStatuses
<1>14. CodeInv /\ UNCHANGED <<connection, process, runs, current, job, prompt>> =>
   OpeningIsUnasked'
  BY DEF CodeInv, CodeSafety, OpeningIsUnasked, PromptOpen, Opening, Busy, ActiveStatuses
<1>15. CodeInv /\ UNCHANGED <<answerer, job, connection, Waiting>> => AnswererFits'
  BY DEF CodeInv, CodeSafety, AnswererFits, Unopened, Connected
<1>16. CodeInv /\ UNCHANGED <<closer, Waiting, job, connection>> => ShutFits'
  BY DEF CodeInv, CodeSafety, ShutFits
<1>17. CodeInv /\ UNCHANGED <<job, connection, current, deleter, closer>> => PlaceIsFree'
  BY DEF CodeInv, CodeSafety, PlaceIsFree, NobodyIsLate, Opening, Connected
<1>18. CodeInv /\ UNCHANGED <<session, deleter, native, job, connection>> => GoneStays'
  BY DEF CodeInv, CodeSafety, GoneStays, DeletedIsGone
<1>19. CodeInv /\ UNCHANGED <<session, native>> => DeletedIsGone'
  BY DEF CodeInv, CodeSafety, DeletedIsGone
<1>20. CodeInv /\ UNCHANGED native => InputNeverResent'
  BY DEF CodeInv, CodeSafety, InputNeverResent
<1> QED
  BY <1>1, <1>2, <1>3, <1>4, <1>5, <1>6, <1>7, <1>8, <1>9, <1>10, <1>11, <1>12, <1>13, <1>14,
     <1>15, <1>16, <1>17, <1>18, <1>19, <1>20

\* What the runs are when the turn of one is known.
LEMMA RunIsBound ==
    ASSUME CodeTypeOK, NEW o \in Operations, NEW t \in Operations,
           runs' = [runs EXCEPT ![o].turn = t,
                                ![o].status = IF runs[o].stop THEN "stopping" ELSE "running"]
    PROVE  /\ runs' \in [Operations -> RunRecords]
           /\ runs'[o].turn = t /\ runs'[o].status \in ActiveStatuses
           /\ \A p \in Operations : p # o => runs'[p] = runs[p]
<1> DEFINE s == IF runs[o].stop THEN "stopping" ELSE "running"
<1>1. runs \in [Operations -> RunRecords]
  BY CodeTypes
<1>2. s \in ActiveStatuses /\ s \in RunStatuses
  BY DEF ActiveStatuses, RunStatuses
<1>3. runs' = [runs EXCEPT ![o].turn = t, ![o].status = s]
  <2>1. [runs EXCEPT ![o].turn = t][o].stop = runs[o].stop
    BY <1>1 DEF RunRecords
  <2> QED
    BY <2>1
<1>4. BindsRun(o, t, s)
  BY <1>3, Zenon DEF BindsRun
<1> HIDE DEF s
<1>5. /\ runs' \in [Operations -> RunRecords]
      /\ runs'[o].turn = t /\ runs'[o].status = s
      /\ \A p \in Operations : p # o => runs'[p] = runs[p]
  BY <1>1, <1>2, <1>4, RunBinds
<1> QED
  BY <1>2, <1>5

\* A run that has ended stays as it ended.
RunsStay ==
    \A o \in Operations : runs[o].status \in FinalStatuses =>
        runs'[o].status = runs[o].status /\ (runs[o].turn # 0 => runs'[o].turn = runs[o].turn)

\* A Send is checked; only what the client does changes.
LEMMA CodeCheckSend == ASSUME CodeInv, NEW s \in Senders, NEW o \in Operations, CheckSend(s, o)
           PROVE CodeInv' /\ RunsStay
<1>1. UNCHANGED <<service, closer, crashes, storage, session, current, runs, prompt, connection,
   loaded, events, process, native, job, hand, interrupter, deleter, halter, answerer>>
  BY DEF CheckSend, serverVars, linkVars, helpers
<1>2. EventsFit' /\ Waiting' = Waiting
  BY <1>1 DEF CodeInv, EventsFit, Waiting
<1>3. sends' \in [Senders -> SendRecords]
  BY CodeTypes DEF CheckSend, CodeInv, CodeSafety, SendRecords
<1>4. CodeTypeOK'
  BY <1>1, <1>2, <1>3, CodeTypes, Numbers DEF CodeInv, CodeSafety, CodeTypeOK, RunRecords,
     RunStatuses, PromptRecords, SendRecords, ProcessRecords, NativeRecords, JobRecords,
     SessionRecords, SessionStatuses, DeleterRecords, DeleterStages, AnswererRecords,
     InterrupterStages, Closers
<1>5. JobsFit' /\ OneActiveRun' /\ CompletedIsOver' /\ ProcessesAreOwned' /\ ClosedIsQuiet' /\
   DeletionIsDecided' /\ ServiceFits' /\ FedFits' /\ TurnsFit' /\ ProcessesFit' /\ HandsFit' /\
   EventsAreTrue' /\ StartsAreActive' /\ OpeningIsUnasked' /\ AnswererFits' /\ ShutFits' /\
   PlaceIsFree' /\ GoneStays' /\ DeletedIsGone' /\ InputNeverResent'
  BY <1>1, <1>2, PartsRest
<1>6. RunsStay
  BY <1>1 DEF RunsStay
<1> QED
  BY <1>1, <1>2, <1>3, <1>4, <1>5, <1>6 DEF CodeInv, CodeSafety

\* Another client's change makes it stale.
LEMMA CodeUpdateSettings == ASSUME CodeInv, UpdateSettings PROVE CodeInv' /\ RunsStay
<1>1. UNCHANGED <<service, closer, crashes, storage, session, current, runs, prompt, connection,
   loaded, events, process, native, job, hand, interrupter, deleter, halter, answerer>>
  BY DEF UpdateSettings, serverVars, linkVars, helpers
<1>2. EventsFit' /\ Waiting' = Waiting
  BY <1>1 DEF CodeInv, EventsFit, Waiting
<1>3. sends' \in [Senders -> SendRecords]
  BY CodeTypes, SendsStale DEF UpdateSettings, CodeInv, CodeSafety
<1>4. CodeTypeOK'
  BY <1>1, <1>2, <1>3, CodeTypes, Numbers DEF CodeInv, CodeSafety, CodeTypeOK, RunRecords,
     RunStatuses, PromptRecords, SendRecords, ProcessRecords, NativeRecords, JobRecords,
     SessionRecords, SessionStatuses, DeleterRecords, DeleterStages, AnswererRecords,
     InterrupterStages, Closers
<1>5. JobsFit' /\ OneActiveRun' /\ CompletedIsOver' /\ ProcessesAreOwned' /\ ClosedIsQuiet' /\
   DeletionIsDecided' /\ ServiceFits' /\ FedFits' /\ TurnsFit' /\ ProcessesFit' /\ HandsFit' /\
   EventsAreTrue' /\ StartsAreActive' /\ OpeningIsUnasked' /\ AnswererFits' /\ ShutFits' /\
   PlaceIsFree' /\ GoneStays' /\ DeletedIsGone' /\ InputNeverResent'
  BY <1>1, <1>2, PartsRest
<1>6. RunsStay
  BY <1>1 DEF RunsStay
<1> QED
  BY <1>1, <1>2, <1>3, <1>4, <1>5, <1>6 DEF CodeInv, CodeSafety

\* A Send is admitted.
Admits(s, o) ==
    /\ o = sends[s].operation /\ o # 0 /\ Admitted(s)
    /\ current' = o
    /\ runs' = [runs EXCEPT ![o].status = "preparing"]
    /\ sends' = [Stale EXCEPT ![s] = Idle]
    /\ \/ connection = 0 /\ job' = [job EXCEPT ![o].stage = "open"]
       \/ /\ connection # 0 /\ process[connection].state = "alive"
          /\ job' = [job EXCEPT ![o].stage = "thread", ![o].generation = connection]
       \/ connection # 0 /\ job' = [job EXCEPT ![o].stage = "replace"]
    /\ UNCHANGED <<serverVars, storage, session, prompt, linkVars, process, native, hand,
                   interrupter, deleter, helpers>>

\* It has a task that opens a process, or goes on with the one there is.
LEMMA CodeAdmits == ASSUME CodeInv, NEW s \in Senders, NEW o, Admits(s, o) PROVE CodeInv' /\
           RunsStay
<1>1. UNCHANGED <<service, closer, crashes, storage, session, prompt, connection, loaded, events,
   process, native, hand, interrupter, deleter, halter, answerer>>
  BY DEF Admits, serverVars, linkVars, helpers
<1>2. EventsFit' /\ Waiting' = Waiting
  BY <1>1 DEF CodeInv, EventsFit, Waiting
<1>3. o \in Operations /\ runs[o].status = "none" /\ job[o].stage = "none"
  BY CodeTypes DEF Admits, Admitted, CodeInv, CodeSafety, SendRecords, JobsFit
<1>4. /\ ~Busy /\ ~PromptOpen /\ service = "up" /\ session.status = "ready"
      /\ closer = "none" /\ deleter.stage = "none"
  BY DEF Admits, Admitted, CanSend, CodeInv, ServiceFits
<1>5. sends' \in [Senders -> SendRecords]
  BY CodeTypes, SendsStale DEF Admits, CodeInv, CodeSafety, SendRecords, Idle
<1>6. /\ runs' \in [Operations -> RunRecords]
      /\ runs'[o].status = "preparing" /\ runs'[o].turn = runs[o].turn
      /\ \A p \in Operations : p # o => runs'[p] = runs[p]
  <2>1. "preparing" \in RunStatuses
    BY DEF RunStatuses, ActiveStatuses
  <2> QED
    BY <1>3, <2>1, CodeTypes, RunChanges DEF Admits, CodeInv, CodeSafety
<1>7. current' = o
  BY DEF Admits
<1>8. /\ job' \in [Operations -> JobRecords]
      /\ job'[o].stage \in {"open", "thread", "replace"}
      /\ job'[o].late = job[o].late /\ job'[o].thread = job[o].thread
      /\ job'[o].stage = "open" => connection = 0
      /\ IF job'[o].stage = "thread" THEN connection # 0 /\ job'[o].generation = connection
         ELSE job'[o].generation = job[o].generation
      /\ \A p \in Operations : p # o => job'[p] = job[p]
  <2>0. /\ job \in [Operations -> JobRecords] /\ connection \in 0..MaxConnections
        /\ {"open", "thread", "replace"} \subseteq JobStages
    BY CodeTypes DEF CodeInv, CodeSafety, JobStages
  <2>1. CASE connection = 0 /\ Goes(o, "open")
    BY <1>3, <2>0, <2>1, JobGoes
  <2>2. CASE connection # 0 /\ Connects(o, "thread", connection)
    <3>1. "thread" \in JobStages
      BY <2>0
    <3>2. /\ job' \in [Operations -> JobRecords]
          /\ job'[o].stage = "thread" /\ job'[o].generation = connection
          /\ job'[o].thread = job[o].thread /\ job'[o].late = job[o].late
          /\ \A p \in Operations : p # o => job'[p] = job[p]
      BY <1>3, <2>0, <2>2, <3>1, JobConnects
    <3> QED
      BY <2>2, <3>2
  <2>3. CASE connection # 0 /\ Goes(o, "replace")
    BY <1>3, <2>0, <2>3, JobGoes
  <2> QED
    BY <2>1, <2>2, <2>3 DEF Admits, Goes, Connects
<1>9. CodeTypeOK'
  BY <1>1, <1>2, <1>3, <1>4, <1>5, <1>6, <1>7, <1>8, CodeTypes, Numbers DEF CodeInv, CodeSafety,
     CodeTypeOK, RunRecords, RunStatuses, PromptRecords, SendRecords, ProcessRecords,
     NativeRecords, JobRecords, SessionRecords, SessionStatuses, DeleterRecords, DeleterStages,
     AnswererRecords, InterrupterStages, Closers
<1>10. DeletionIsDecided' /\ DeletedIsGone' /\ InputNeverResent'
  BY <1>1, <1>2, PartsRest
<1>11. JobsFit'
  BY <1>1, <1>3, <1>4, <1>6, <1>8, CodeTyped, Numbers DEF CodeInv, JobsFit, Busy, ActiveStatuses,
     Unopened, Unfed, Connected
<1>12. OneActiveRun'
  BY <1>1, <1>3, <1>4, <1>6, <1>7, CodeTypes, Numbers DEF CodeInv, CodeSafety, OneActiveRun,
     Busy, ActiveStatuses
<1>13. CompletedIsOver'
  BY <1>1, <1>3, <1>4, <1>6, CodeTypes, Numbers DEF CodeInv, CodeSafety, CompletedIsOver
<1>14. ProcessesAreOwned'
  BY <1>1, <1>3, <1>4, <1>8, CodeTypes DEF CodeInv, CodeSafety, ProcessesAreOwned, NobodyIsLate,
     HandsFit
<1>15. ClosedIsQuiet'
  BY <1>1, <1>3, <1>4, <1>6, <1>7, <1>8, CodeTypes DEF CodeInv, CodeSafety, ClosedIsQuiet,
     NobodyIsLate, Saves, Busy, ActiveStatuses
<1>16. ServiceFits'
  BY <1>1, <1>3, <1>4, <1>6, <1>7, <1>8, CodeTyped DEF CodeInv, ServiceFits, Saves, Busy,
     ActiveStatuses
<1>17. FedFits'
  BY <1>1, <1>3, <1>4, <1>8, CodeTyped DEF CodeInv, FedFits
<1>18. TurnsFit'
  BY <1>1, <1>3, <1>4, <1>6, CodeTyped DEF CodeInv, TurnsFit
<1>19. ProcessesFit'
  BY <1>1, <1>3, <1>4, <1>8, CodeTyped, Numbers, TaskNames, Generated DEF CodeInv, ProcessesFit
<1>20. HandsFit'
  BY <1>1, <1>3, <1>4, <1>8, CodeTyped, TaskNames, Numbers DEF CodeInv, HandsFit
<1>21. EventsAreTrue'
  BY <1>1, <1>2, <1>3, <1>4, <1>6, <1>7, <1>8, CodeTyped, EventsOf, Generated, Numbers DEF
     CodeInv, EventsAreTrue, Busy, IsActive, ActiveStatuses
<1>22. StartsAreActive'
  BY <1>1, <1>3, <1>4, <1>6, <1>7, <1>8, CodeTyped, JobsHaveProcesses DEF CodeInv,
     StartsAreActive, Busy, IsActive, ActiveStatuses
<1>23. OpeningIsUnasked'
  BY <1>1, <1>3, <1>4, <1>6, <1>7, <1>8, CodeTyped, Generated, Numbers DEF CodeInv,
     OpeningIsUnasked, PromptOpen, Opening, Busy, ActiveStatuses
<1>24. AnswererFits'
  BY <1>1, <1>2, <1>3, <1>4, <1>8, CodeTyped, AnswererOf, JobsHaveProcesses DEF CodeInv,
     AnswererFits, Unopened, Connected
<1>25. ShutFits'
  BY <1>1, <1>2, <1>3, <1>4, <1>8, CodeTyped, JobsHaveProcesses DEF CodeInv, ShutFits
<1>26. PlaceIsFree'
  BY <1>1, <1>3, <1>4, <1>7, <1>8, CodeTyped DEF CodeInv, PlaceIsFree, NobodyIsLate, Opening,
     Connected
<1>27. GoneStays'
  BY <1>1, <1>3, <1>4, <1>8, CodeTyped, JobsHaveProcesses DEF CodeInv, GoneStays
<1>28. RunsStay
  BY <1>1, <1>2, <1>3, <1>4, <1>5, <1>6, <1>7, <1>8, CodeTypes DEF CodeInv, CodeSafety, RunsStay,
     CompletedIsOver, OneActiveRun, Busy, ActiveStatuses, FinalStatuses
<1> QED
  BY <1>1, <1>2, <1>3, <1>4, <1>5, <1>6, <1>7, <1>8, <1>9, <1>10, <1>11, <1>12, <1>13, <1>14,
     <1>15, <1>16, <1>17, <1>18, <1>19, <1>20, <1>21, <1>22, <1>23, <1>24, <1>25, <1>26, <1>27,
     <1>28 DEF CodeInv, CodeSafety

\* It is refused.
Refuses(s) ==
    /\ sends' = [sends EXCEPT ![s] = Idle]
    /\ UNCHANGED <<current, runs, job>>
    /\ UNCHANGED <<serverVars, storage, session, prompt, linkVars, process, native, hand,
                   interrupter, deleter, helpers>>

\* The client is told.
LEMMA CodeRefuses == ASSUME CodeInv, NEW s \in Senders, Refuses(s) PROVE CodeInv' /\ RunsStay
<1>1. UNCHANGED <<service, closer, crashes, storage, session, current, runs, prompt, connection,
   loaded, events, process, native, job, hand, interrupter, deleter, halter, answerer>>
  BY DEF Refuses, serverVars, linkVars, helpers
<1>2. EventsFit' /\ Waiting' = Waiting
  BY <1>1 DEF CodeInv, EventsFit, Waiting
<1>3. sends' \in [Senders -> SendRecords]
  BY CodeTypes DEF Refuses, CodeInv, CodeSafety, SendRecords, Idle
<1>4. CodeTypeOK'
  BY <1>1, <1>2, <1>3, CodeTypes, Numbers DEF CodeInv, CodeSafety, CodeTypeOK, RunRecords,
     RunStatuses, PromptRecords, SendRecords, ProcessRecords, NativeRecords, JobRecords,
     SessionRecords, SessionStatuses, DeleterRecords, DeleterStages, AnswererRecords,
     InterrupterStages, Closers
<1>5. JobsFit' /\ OneActiveRun' /\ CompletedIsOver' /\ ProcessesAreOwned' /\ ClosedIsQuiet' /\
   DeletionIsDecided' /\ ServiceFits' /\ FedFits' /\ TurnsFit' /\ ProcessesFit' /\ HandsFit' /\
   EventsAreTrue' /\ StartsAreActive' /\ OpeningIsUnasked' /\ AnswererFits' /\ ShutFits' /\
   PlaceIsFree' /\ GoneStays' /\ DeletedIsGone' /\ InputNeverResent'
  BY <1>1, <1>2, PartsRest
<1>6. RunsStay
  BY <1>1 DEF RunsStay
<1> QED
  BY <1>1, <1>2, <1>3, <1>4, <1>5, <1>6 DEF CodeInv, CodeSafety

\* A Send is admitted, or refused.
LEMMA CodeAdmitSend == ASSUME CodeInv, NEW s \in Senders, AdmitSend(s) PROVE CodeInv' /\ RunsStay
<1>1. CASE Admits(s, sends[s].operation)
  BY <1>1, CodeAdmits
<1>2. CASE sends' = [sends EXCEPT ![s] = Idle] /\ UNCHANGED <<current, runs, job>>
  BY <1>2, CodeRefuses DEF Refuses, AdmitSend
<1> QED
  BY <1>1, <1>2 DEF AdmitSend, Admits

\* The stop of the run is saved.
LEMMA StopIsSaved ==
    ASSUME CodeInv, RequestStop
    PROVE  /\ current \in Operations /\ Busy /\ Saves
           /\ runs' \in [Operations -> RunRecords]
           /\ runs'[current].status \in ActiveStatuses /\ runs'[current].turn = runs[current].turn
           /\ \A p \in Operations : p # current => runs'[p] = runs[p]
           /\ interrupter' \in [Operations -> InterrupterStages]
           /\ \A o \in Operations :
                  \/ interrupter'[o] = interrupter[o]
                  \/ runs[o].turn = o /\ interrupter[o] = "none" /\ interrupter'[o] = "ask"
           /\ UNCHANGED <<session, current, prompt, sends>>
<1>1. current \in Operations /\ Busy /\ Saves /\ UNCHANGED <<session, current, prompt, sends>>
  BY CodeTypes DEF CodeInv, CodeSafety, RequestStop, Busy
<1> DEFINE s == IF runs[current].stop THEN runs[current].status ELSE "stopping"
<1>2. s \in ActiveStatuses /\ s \in RunStatuses
  BY <1>1 DEF Busy, ActiveStatuses, RunStatuses
<1>3. runs' = [runs EXCEPT ![current].stop = TRUE, ![current].status = s]
  BY CodeTypes, <1>1 DEF CodeInv, CodeSafety, RequestStop, RunRecords
<1>7. StopsRun(current, TRUE, s)
  BY <1>3, Zenon DEF StopsRun
<1> HIDE DEF s
<1>4. /\ runs' \in [Operations -> RunRecords]
      /\ runs'[current].status = s /\ runs'[current].turn = runs[current].turn
      /\ \A p \in Operations : p # current => runs'[p] = runs[p]
  BY CodeTypes, <1>1, <1>2, <1>7, RunStops DEF CodeInv, CodeSafety
<1>5. /\ interrupter' \in [Operations -> InterrupterStages]
      /\ \A o \in Operations :
             \/ interrupter'[o] = interrupter[o]
             \/ o = current /\ runs[current].turn # 0 /\ interrupter[o] = "none"
                 /\ interrupter'[o] = "ask"
  BY Interrupted DEF CodeInv, CodeSafety, RequestStop
<1>6. runs[current].turn # 0 => runs[current].turn = current
  BY <1>1 DEF CodeInv, CodeSafety, CompletedIsOver
<1> QED
  BY <1>1, <1>2, <1>4, <1>5, <1>6

\* The run of the session is stopped.
LEMMA CodeStop == ASSUME CodeInv, Stop PROVE CodeInv' /\ RunsStay
<1>1. UNCHANGED <<service, closer, crashes, storage, session, current, prompt, sends, connection,
   loaded, events, process, native, job, hand, deleter, halter, answerer>>
  BY DEF Stop, RequestStop, serverVars, linkVars, helpers
<1>2. EventsFit' /\ Waiting' = Waiting
  BY <1>1 DEF CodeInv, EventsFit, Waiting
<1>3. /\ current \in Operations /\ Busy /\ Saves
      /\ runs' \in [Operations -> RunRecords]
      /\ runs'[current].status \in ActiveStatuses /\ runs'[current].turn = runs[current].turn
      /\ \A p \in Operations : p # current => runs'[p] = runs[p]
      /\ interrupter' \in [Operations -> InterrupterStages]
      /\ \A o \in Operations :
             \/ interrupter'[o] = interrupter[o]
             \/ runs[o].turn = o /\ interrupter[o] = "none" /\ interrupter'[o] = "ask"
      /\ service = "up" /\ closer = "none"
  BY StopIsSaved DEF Stop, CodeInv, ServiceFits
<1>4. CodeTypeOK'
  BY <1>1, <1>2, <1>3, CodeTypes, Numbers DEF CodeInv, CodeSafety, CodeTypeOK, RunRecords,
     RunStatuses, PromptRecords, SendRecords, ProcessRecords, NativeRecords, JobRecords,
     SessionRecords, SessionStatuses, DeleterRecords, DeleterStages, AnswererRecords,
     InterrupterStages, Closers
<1>5. ProcessesAreOwned' /\ DeletionIsDecided' /\ FedFits' /\ ProcessesFit' /\ AnswererFits' /\
   ShutFits' /\ PlaceIsFree' /\ GoneStays' /\ DeletedIsGone' /\ InputNeverResent'
  BY <1>1, <1>2, PartsRest
<1>6. JobsFit'
  BY <1>1, <1>3, CodeTyped, Numbers DEF CodeInv, JobsFit, Busy, ActiveStatuses, Unopened, Unfed,
     Connected
<1>7. OneActiveRun'
  BY <1>1, <1>3, CodeTypes, Numbers DEF CodeInv, CodeSafety, OneActiveRun, Busy, ActiveStatuses
<1>8. CompletedIsOver'
  BY <1>1, <1>3, CodeTypes, Numbers DEF CodeInv, CodeSafety, CompletedIsOver, ActiveStatuses
<1>9. ClosedIsQuiet'
  BY <1>1, <1>3, CodeTypes DEF CodeInv, CodeSafety, ClosedIsQuiet, NobodyIsLate, Saves, Busy,
     ActiveStatuses
<1>10. ServiceFits'
  BY <1>1, <1>3, CodeTyped DEF CodeInv, ServiceFits, Saves, Busy, ActiveStatuses
<1>11. TurnsFit'
  BY <1>1, <1>3, CodeTyped DEF CodeInv, TurnsFit
<1>12. HandsFit'
  BY <1>1, <1>3, CodeTyped, TaskNames, Numbers DEF CodeInv, HandsFit
<1>13. EventsAreTrue'
  BY <1>1, <1>2, <1>3, CodeTyped, EventsOf, Generated, Numbers DEF CodeInv, EventsAreTrue, Busy,
     IsActive, ActiveStatuses
<1>14. StartsAreActive'
  BY <1>1, <1>3, CodeTyped, JobsHaveProcesses DEF CodeInv, StartsAreActive, Busy, IsActive,
     ActiveStatuses
<1>15. OpeningIsUnasked'
  BY <1>1, <1>3, CodeTyped, Generated, Numbers DEF CodeInv, OpeningIsUnasked, PromptOpen,
     Opening, Busy, ActiveStatuses
<1>16. RunsStay
  BY <1>1, <1>2, <1>3, CodeTypes DEF CodeInv, CodeSafety, RunsStay, CompletedIsOver,
     OneActiveRun, Busy, ActiveStatuses, FinalStatuses
<1> QED
  BY <1>1, <1>2, <1>3, <1>4, <1>5, <1>6, <1>7, <1>8, <1>9, <1>10, <1>11, <1>12, <1>13, <1>14,
     <1>15, <1>16 DEF CodeInv, CodeSafety

\* The shutdown stops it.
LEMMA CodeStopsForShutdown == ASSUME CodeInv, StopForShutdown, RequestStop PROVE CodeInv' /\
           RunsStay
<1>1. UNCHANGED <<service, crashes, storage, session, current, prompt, sends, connection, loaded,
   events, process, native, job, hand, deleter, halter, answerer>>
  BY DEF StopForShutdown, RequestStop, Closes, TasksUnchanged, stored, linkVars, helpers
<1>2. EventsFit' /\ Waiting' = Waiting
  BY <1>1 DEF CodeInv, EventsFit, Waiting
<1>3. /\ current \in Operations /\ Busy /\ Saves
      /\ runs' \in [Operations -> RunRecords]
      /\ runs'[current].status \in ActiveStatuses /\ runs'[current].turn = runs[current].turn
      /\ \A p \in Operations : p # current => runs'[p] = runs[p]
      /\ interrupter' \in [Operations -> InterrupterStages]
      /\ \A o \in Operations :
             \/ interrupter'[o] = interrupter[o]
             \/ runs[o].turn = o /\ interrupter[o] = "none" /\ interrupter'[o] = "ask"
      /\ closer = "stop" /\ closer' = "jobs"
  BY StopIsSaved DEF StopForShutdown, Closes
<1>4. CodeTypeOK'
  BY <1>1, <1>2, <1>3, CodeTypes, Numbers DEF CodeInv, CodeSafety, CodeTypeOK, RunRecords,
     RunStatuses, PromptRecords, SendRecords, ProcessRecords, NativeRecords, JobRecords,
     SessionRecords, SessionStatuses, DeleterRecords, DeleterStages, AnswererRecords,
     InterrupterStages, Closers
<1>5. ProcessesAreOwned' /\ DeletionIsDecided' /\ FedFits' /\ ProcessesFit' /\ AnswererFits' /\
   GoneStays' /\ DeletedIsGone' /\ InputNeverResent'
  BY <1>1, <1>2, PartsRest
<1>6. JobsFit'
  BY <1>1, <1>3, CodeTyped, Numbers DEF CodeInv, JobsFit, Busy, ActiveStatuses, Unopened, Unfed,
     Connected
<1>7. OneActiveRun'
  BY <1>1, <1>3, CodeTypes, Numbers DEF CodeInv, CodeSafety, OneActiveRun, Busy, ActiveStatuses
<1>8. CompletedIsOver'
  BY <1>1, <1>3, CodeTypes, Numbers DEF CodeInv, CodeSafety, CompletedIsOver, ActiveStatuses
<1>9. ClosedIsQuiet'
  BY <1>1, <1>3, CodeTypes DEF CodeInv, CodeSafety, ClosedIsQuiet, NobodyIsLate, Saves, Busy,
     ActiveStatuses
<1>10. ServiceFits'
  BY <1>1, <1>3, CodeTyped DEF CodeInv, ServiceFits, Saves, Busy, ActiveStatuses
<1>11. TurnsFit'
  BY <1>1, <1>3, CodeTyped DEF CodeInv, TurnsFit
<1>12. HandsFit'
  BY <1>1, <1>3, CodeTyped, TaskNames, Numbers DEF CodeInv, HandsFit
<1>13. EventsAreTrue'
  BY <1>1, <1>2, <1>3, CodeTyped, EventsOf, Generated, Numbers DEF CodeInv, EventsAreTrue, Busy,
     IsActive, ActiveStatuses
<1>14. StartsAreActive'
  BY <1>1, <1>3, CodeTyped, JobsHaveProcesses DEF CodeInv, StartsAreActive, Busy, IsActive,
     ActiveStatuses
<1>15. OpeningIsUnasked'
  BY <1>1, <1>3, CodeTyped, Generated, Numbers DEF CodeInv, OpeningIsUnasked, PromptOpen,
     Opening, Busy, ActiveStatuses
<1>16. ShutFits'
  BY <1>1, <1>2, <1>3, CodeTyped, JobsHaveProcesses DEF CodeInv, ShutFits
<1>17. PlaceIsFree'
  BY <1>1, <1>3, CodeTyped DEF CodeInv, PlaceIsFree, NobodyIsLate, Opening, Connected
<1>18. RunsStay
  BY <1>1, <1>2, <1>3, CodeTypes DEF CodeInv, CodeSafety, RunsStay, CompletedIsOver,
     OneActiveRun, Busy, ActiveStatuses, FinalStatuses
<1> QED
  BY <1>1, <1>2, <1>3, <1>4, <1>5, <1>6, <1>7, <1>8, <1>9, <1>10, <1>11, <1>12, <1>13, <1>14,
     <1>15, <1>16, <1>17, <1>18 DEF CodeInv, CodeSafety

\* There is nothing to stop.
LEMMA CodeSkipsStop == ASSUME CodeInv, StopForShutdown, UNCHANGED <<stored, interrupter>> PROVE
           CodeInv' /\ RunsStay
<1>1. UNCHANGED <<service, crashes, storage, session, current, runs, prompt, sends, connection,
   loaded, events, process, native, job, hand, interrupter, deleter, halter, answerer>>
  BY DEF StopForShutdown, Closes, TasksUnchanged, stored, linkVars, helpers
<1>2. EventsFit' /\ Waiting' = Waiting
  BY <1>1 DEF CodeInv, EventsFit, Waiting
<1>3. closer = "stop" /\ closer' = "jobs"
  BY DEF StopForShutdown, Closes
<1>4. CodeTypeOK'
  BY <1>1, <1>2, <1>3, CodeTypes, Numbers DEF CodeInv, CodeSafety, CodeTypeOK, RunRecords,
     RunStatuses, PromptRecords, SendRecords, ProcessRecords, NativeRecords, JobRecords,
     SessionRecords, SessionStatuses, DeleterRecords, DeleterStages, AnswererRecords,
     InterrupterStages, Closers
<1>5. JobsFit' /\ OneActiveRun' /\ CompletedIsOver' /\ ProcessesAreOwned' /\ ClosedIsQuiet' /\
   DeletionIsDecided' /\ FedFits' /\ TurnsFit' /\ ProcessesFit' /\ EventsAreTrue' /\
   StartsAreActive' /\ OpeningIsUnasked' /\ AnswererFits' /\ GoneStays' /\ DeletedIsGone' /\
   InputNeverResent'
  BY <1>1, <1>2, PartsRest
<1>6. ServiceFits'
  BY <1>1, <1>3, CodeTyped DEF CodeInv, ServiceFits, Saves, Busy, ActiveStatuses
<1>7. HandsFit'
  BY <1>1, <1>3, CodeTyped, TaskNames, Numbers DEF CodeInv, HandsFit
<1>8. ShutFits'
  BY <1>1, <1>2, <1>3, CodeTyped, JobsHaveProcesses DEF CodeInv, ShutFits
<1>9. PlaceIsFree'
  BY <1>1, <1>3, CodeTyped DEF CodeInv, PlaceIsFree, NobodyIsLate, Opening, Connected
<1>10. RunsStay
  BY <1>1 DEF RunsStay
<1> QED
  BY <1>1, <1>2, <1>3, <1>4, <1>5, <1>6, <1>7, <1>8, <1>9, <1>10 DEF CodeInv, CodeSafety

\* A prompt is claimed by an answer.
LEMMA CodeAnswer == ASSUME CodeInv, Answer PROVE CodeInv' /\ RunsStay
<1>1. UNCHANGED <<service, closer, crashes, storage, session, current, runs, sends, connection,
   loaded, events, process, native, job, hand, interrupter, deleter, halter, answerer>>
  BY DEF Answer, serverVars, linkVars, helpers
<1>2. EventsFit' /\ Waiting' = Waiting
  BY <1>1 DEF CodeInv, EventsFit, Waiting
<1>3. /\ prompt' \in PromptRecords /\ prompt'.status = "answering"
         /\ prompt'.generation = prompt.generation
      /\ prompt.status = "pending" /\ \A o \in Operations : job[o].stage # "replace"
  BY CodeTypes, PromptIsAnswered DEF Answer, CodeInv, CodeSafety
<1>4. CodeTypeOK'
  BY <1>1, <1>2, <1>3, CodeTypes, Numbers DEF CodeInv, CodeSafety, CodeTypeOK, RunRecords,
     RunStatuses, PromptRecords, SendRecords, ProcessRecords, NativeRecords, JobRecords,
     SessionRecords, SessionStatuses, DeleterRecords, DeleterStages, AnswererRecords,
     InterrupterStages, Closers
<1>5. JobsFit' /\ OneActiveRun' /\ CompletedIsOver' /\ ProcessesAreOwned' /\ ClosedIsQuiet' /\
   DeletionIsDecided' /\ ServiceFits' /\ FedFits' /\ TurnsFit' /\ HandsFit' /\ EventsAreTrue' /\
   StartsAreActive' /\ AnswererFits' /\ ShutFits' /\ PlaceIsFree' /\ GoneStays' /\ DeletedIsGone'
   /\ InputNeverResent'
  BY <1>1, <1>2, PartsRest
<1>6. ProcessesFit'
  BY <1>1, <1>3, CodeTyped, Numbers, TaskNames, Generated DEF CodeInv, ProcessesFit
<1>7. OpeningIsUnasked'
  BY <1>1, <1>3, CodeTyped, Generated, Numbers DEF CodeInv, OpeningIsUnasked, PromptOpen,
     Opening, Busy, ActiveStatuses, FinalStatuses, RunRecords, RunStatuses, PromptRecords,
     SendRecords, ProcessRecords, NativeRecords, JobRecords, SessionRecords, SessionStatuses,
     DeleterRecords, DeleterStages, AnswererRecords, InterrupterStages, Closers
<1>8. RunsStay
  BY <1>1 DEF RunsStay
<1> QED
  BY <1>1, <1>2, <1>3, <1>4, <1>5, <1>6, <1>7, <1>8 DEF CodeInv, CodeSafety

\* It is given to the process.
LEMMA CodeDeliverAnswer == ASSUME CodeInv, DeliverAnswer PROVE CodeInv' /\ RunsStay
<1>1. UNCHANGED <<service, closer, crashes, storage, session, current, runs, sends, connection,
   loaded, events, process, native, job, hand, interrupter, deleter, halter, answerer>>
  BY DEF DeliverAnswer, serverVars, linkVars, helpers
<1>2. EventsFit' /\ Waiting' = Waiting
  BY <1>1 DEF CodeInv, EventsFit, Waiting
<1>3. prompt' = NoPrompt /\ prompt' \in PromptRecords
  BY PromptIsNone DEF DeliverAnswer
<1>4. NoPrompt.status = "none" /\ NoPrompt.generation = 0 /\ NoPrompt.turn = 0
  BY PromptIsNone
<1>5. CodeTypeOK'
  BY <1>1, <1>2, <1>3, <1>4, CodeTypes, Numbers DEF CodeInv, CodeSafety, CodeTypeOK, RunRecords,
     RunStatuses, PromptRecords, SendRecords, ProcessRecords, NativeRecords, JobRecords,
     SessionRecords, SessionStatuses, DeleterRecords, DeleterStages, AnswererRecords,
     InterrupterStages, Closers
<1>6. JobsFit' /\ OneActiveRun' /\ CompletedIsOver' /\ ProcessesAreOwned' /\ ClosedIsQuiet' /\
   DeletionIsDecided' /\ ServiceFits' /\ FedFits' /\ TurnsFit' /\ HandsFit' /\ EventsAreTrue' /\
   StartsAreActive' /\ AnswererFits' /\ ShutFits' /\ PlaceIsFree' /\ GoneStays' /\ DeletedIsGone'
   /\ InputNeverResent'
  BY <1>1, <1>2, PartsRest
<1>7. ProcessesFit'
  BY <1>1, <1>3, <1>4, CodeTyped, Numbers, TaskNames, Generated DEF CodeInv, ProcessesFit
<1>8. OpeningIsUnasked'
  BY <1>1, <1>3, <1>4, CodeTyped, Generated, Numbers DEF CodeInv, OpeningIsUnasked, PromptOpen,
     Opening, Busy, ActiveStatuses
<1>9. RunsStay
  BY <1>1 DEF RunsStay
<1> QED
  BY <1>1, <1>2, <1>3, <1>4, <1>5, <1>6, <1>7, <1>8, <1>9 DEF CodeInv, CodeSafety

\* Codex has settled the request itself.
LEMMA CodeResolve == ASSUME CodeInv, Resolve PROVE CodeInv' /\ RunsStay
<1>1. UNCHANGED <<service, closer, crashes, storage, session, current, runs, sends, connection,
   loaded, events, process, native, job, hand, interrupter, deleter, halter, answerer>>
  BY DEF Resolve, serverVars, linkVars, helpers
<1>2. EventsFit' /\ Waiting' = Waiting
  BY <1>1 DEF CodeInv, EventsFit, Waiting
<1>3. prompt' = NoPrompt /\ prompt' \in PromptRecords
  BY PromptIsNone DEF Resolve
<1>4. NoPrompt.status = "none" /\ NoPrompt.generation = 0 /\ NoPrompt.turn = 0
  BY PromptIsNone
<1>5. CodeTypeOK'
  BY <1>1, <1>2, <1>3, <1>4, CodeTypes, Numbers DEF CodeInv, CodeSafety, CodeTypeOK, RunRecords,
     RunStatuses, PromptRecords, SendRecords, ProcessRecords, NativeRecords, JobRecords,
     SessionRecords, SessionStatuses, DeleterRecords, DeleterStages, AnswererRecords,
     InterrupterStages, Closers
<1>6. JobsFit' /\ OneActiveRun' /\ CompletedIsOver' /\ ProcessesAreOwned' /\ ClosedIsQuiet' /\
   DeletionIsDecided' /\ ServiceFits' /\ FedFits' /\ TurnsFit' /\ HandsFit' /\ EventsAreTrue' /\
   StartsAreActive' /\ AnswererFits' /\ ShutFits' /\ PlaceIsFree' /\ GoneStays' /\ DeletedIsGone'
   /\ InputNeverResent'
  BY <1>1, <1>2, PartsRest
<1>7. ProcessesFit'
  BY <1>1, <1>3, <1>4, CodeTyped, Numbers, TaskNames, Generated DEF CodeInv, ProcessesFit
<1>8. OpeningIsUnasked'
  BY <1>1, <1>3, <1>4, CodeTyped, Generated, Numbers DEF CodeInv, OpeningIsUnasked, PromptOpen,
     Opening, Busy, ActiveStatuses
<1>9. RunsStay
  BY <1>1 DEF RunsStay
<1> QED
  BY <1>1, <1>2, <1>3, <1>4, <1>5, <1>6, <1>7, <1>8, <1>9 DEF CodeInv, CodeSafety

\* It cannot be confirmed.
LEMMA CodeAnswerFails == ASSUME CodeInv, AnswerFails PROVE CodeInv' /\ RunsStay
<1>1. UNCHANGED <<service, closer, crashes, storage, session, current, runs, prompt, sends,
   process, native, job, interrupter, deleter, halter>>
  BY DEF AnswerFails, Detach, serverVars, stored
<1>2. hand[Only("answerer")] = 0
  BY CodeTypes DEF AnswerFails, NoAnswer, CodeInv, CodeSafety, HandsFit
<1>3. /\ Only("answerer") \in Tasks
      /\ hand' \in [Tasks -> 0..MaxConnections] /\ hand'[Only("answerer")] = connection
      /\ \A s \in Tasks : s # Only("answerer") => hand'[s] = hand[s]
      /\ connection' = 0 /\ loaded' = 0 /\ EventsFit' /\ Waiting' = {}
  BY TaskNames, Detaches DEF AnswerFails, CodeInv, CodeSafety
<1>4. /\ answerer' \in AnswererRecords /\ answerer'.stage = "close"
      /\ answerer'.of = (IF Busy THEN current ELSE 0)
  BY CodeTypes DEF AnswerFails, CodeInv, CodeSafety, AnswererRecords
<1>5. answerer'.of # 0 => job[answerer'.of].stage \notin Unopened
  <2> SUFFICES ASSUME Busy PROVE job[current].stage \notin Unopened
    BY <1>4
  <2>1. current \in Operations /\ runs[current].status # "none"
    BY CodeTypes DEF CodeInv, CodeSafety, Busy, ActiveStatuses
  <2>2. process[connection].begun /\ connection # 0 /\ prompt.status = "answering"
    BY DEF AnswerFails, CodeInv, OpeningIsUnasked, PromptOpen
  <2> QED
    BY <2>1, <2>2 DEF CodeInv, JobsFit, OpeningIsUnasked, Unopened, Opening
<1>6. CodeTypeOK'
  BY <1>1, <1>2, <1>3, <1>4, <1>5, CodeTypes, Numbers DEF CodeInv, CodeSafety, CodeTypeOK,
     RunRecords, RunStatuses, PromptRecords, SendRecords, ProcessRecords, NativeRecords,
     JobRecords, SessionRecords, SessionStatuses, DeleterRecords, DeleterStages, AnswererRecords,
     InterrupterStages, Closers
<1>7. JobsFit' /\ OneActiveRun' /\ CompletedIsOver' /\ ClosedIsQuiet' /\ DeletionIsDecided' /\
   ServiceFits' /\ FedFits' /\ TurnsFit' /\ DeletedIsGone' /\ InputNeverResent'
  BY <1>1, PartsRest
<1>8. ProcessesAreOwned'
  BY <1>1, <1>2, <1>3, CodeTypes DEF CodeInv, CodeSafety, ProcessesAreOwned, NobodyIsLate,
     HandsFit
<1>9. ProcessesFit'
  BY <1>1, <1>2, <1>3, CodeTyped, Numbers, TaskNames, Generated DEF CodeInv, ProcessesFit
<1>10. HandsFit'
  BY <1>1, <1>2, <1>3, <1>4, <1>5, CodeTyped, TaskNames, Numbers DEF CodeInv, HandsFit
<1>11. EventsAreTrue'
  BY <1>1, <1>2, <1>3, CodeTyped, EventsOf, Generated, Numbers DEF CodeInv, EventsAreTrue, Busy,
     IsActive, ActiveStatuses
<1>12. StartsAreActive'
  BY <1>1, <1>2, <1>3, CodeTyped, JobsHaveProcesses DEF CodeInv, StartsAreActive, Busy, IsActive,
     ActiveStatuses
<1>13. OpeningIsUnasked'
  BY <1>1, <1>2, <1>3, CodeTyped, Generated, Numbers DEF CodeInv, OpeningIsUnasked, PromptOpen,
     Opening, Busy, ActiveStatuses
<1>14. AnswererFits'
  BY <1>1, <1>2, <1>3, <1>4, <1>5, CodeTyped, AnswererOf, JobsHaveProcesses, Numbers DEF CodeInv,
     AnswererFits, Unopened, Connected, AnswererRecords, Busy
<1>15. ShutFits'
  BY <1>1, <1>2, <1>3, CodeTyped, JobsHaveProcesses DEF CodeInv, ShutFits
<1>16. PlaceIsFree'
  BY <1>1, <1>2, <1>3, CodeTyped DEF CodeInv, PlaceIsFree, NobodyIsLate, Opening, Connected
<1>17. GoneStays'
  BY <1>1, <1>2, <1>3, CodeTyped, JobsHaveProcesses DEF CodeInv, GoneStays
<1>18. RunsStay
  BY <1>1 DEF RunsStay
<1> QED
  BY <1>1, <1>2, <1>3, <1>4, <1>5, <1>6, <1>7, <1>8, <1>9, <1>10, <1>11, <1>12, <1>13, <1>14,
     <1>15, <1>16, <1>17, <1>18 DEF CodeInv, CodeSafety

\* Its process has ended.
LEMMA CodeClosedAnswered == ASSUME CodeInv, ClosedAnswered PROVE CodeInv' /\ RunsStay
<1>1. UNCHANGED <<service, closer, crashes, storage, current, runs, sends, connection, loaded,
   events, process, native, job, interrupter, deleter, halter>>
  BY DEF ClosedAnswered, AfterClose, serverVars, linkVars
<1>2. EventsFit' /\ Waiting' = Waiting
  BY <1>1 DEF CodeInv, EventsFit, Waiting
<1>3. answerer.stage = "close"
  BY DEF ClosedAnswered
<1>4. answerer' \in AnswererRecords /\ answerer'.stage = "settle" /\ answerer'.of = answerer.of
  BY CodeTypes, AnswererGoes DEF ClosedAnswered, CodeInv, CodeSafety
<1>5. /\ Only("answerer") \in Tasks
      /\ hand' \in [Tasks -> 0..MaxConnections] /\ hand'[Only("answerer")] = 0
      /\ \A s \in Tasks : s # Only("answerer") => hand'[s] = hand[s]
      /\ hand[Only("answerer")] # 0 => process[hand[Only("answerer")]].state = "dead"
      /\ prompt' \in {prompt, NoPrompt} /\ prompt' \in PromptRecords
      /\ session' \in SessionRecords
      /\ session'.status = session.status /\ session'.fed = session.fed
      /\ session.thread # 0 => session'.thread = session.thread
  BY TaskNames, ClosesAfter DEF ClosedAnswered, CodeInv, CodeSafety
<1>6. NoPrompt.status = "none" /\ NoPrompt.generation = 0 /\ NoPrompt.turn = 0
  BY PromptIsNone
<1>7. session.fed => session'.thread = session.thread
  BY <1>5 DEF CodeInv, FedFits
<1>8. CodeTypeOK'
  BY <1>1, <1>2, <1>3, <1>4, <1>5, <1>6, <1>7, CodeTypes, Numbers DEF CodeInv, CodeSafety,
     CodeTypeOK, RunRecords, RunStatuses, PromptRecords, SendRecords, ProcessRecords,
     NativeRecords, JobRecords, SessionRecords, SessionStatuses, DeleterRecords, DeleterStages,
     AnswererRecords, InterrupterStages, Closers
<1>9. OneActiveRun' /\ CompletedIsOver' /\ ClosedIsQuiet' /\ TurnsFit' /\ EventsAreTrue' /\
   StartsAreActive' /\ ShutFits' /\ PlaceIsFree' /\ InputNeverResent'
  BY <1>1, <1>2, PartsRest
<1>10. JobsFit'
  BY <1>1, <1>3, <1>5, <1>7, CodeTyped, Numbers DEF CodeInv, JobsFit, Unopened, Unfed, Connected
<1>11. ProcessesAreOwned'
  BY <1>1, <1>3, <1>5, CodeTypes DEF CodeInv, CodeSafety, ProcessesAreOwned, NobodyIsLate,
     HandsFit
<1>12. DeletionIsDecided'
  BY <1>1, <1>3, <1>5, <1>7, CodeTypes DEF CodeInv, CodeSafety, DeletionIsDecided, Saves
<1>13. ServiceFits'
  BY <1>1, <1>3, <1>5, <1>7, CodeTyped DEF CodeInv, ServiceFits, Saves, Busy, ActiveStatuses
<1>14. FedFits'
  BY <1>1, <1>3, <1>5, <1>7, CodeTyped DEF CodeInv, FedFits
<1>15. ProcessesFit'
  BY <1>1, <1>3, <1>5, <1>6, CodeTyped, Numbers, TaskNames, Generated DEF CodeInv, ProcessesFit
<1>16. HandsFit'
  BY <1>1, <1>3, <1>4, <1>5, CodeTyped, TaskNames, Numbers DEF CodeInv, HandsFit
<1>17. OpeningIsUnasked'
  BY <1>1, <1>3, <1>5, <1>6, CodeTyped, Generated, Numbers DEF CodeInv, OpeningIsUnasked,
     PromptOpen, Opening, Busy, ActiveStatuses
<1>18. AnswererFits'
  BY <1>1, <1>2, <1>3, <1>4, CodeTyped, AnswererOf, JobsHaveProcesses DEF CodeInv, AnswererFits,
     Unopened, Connected
<1>19. GoneStays'
  BY <1>1, <1>3, <1>5, <1>7, CodeTyped, JobsHaveProcesses DEF CodeInv, GoneStays
<1>20. DeletedIsGone'
  BY <1>19 DEF DeletedIsGone, GoneStays
<1>21. RunsStay
  BY <1>1 DEF RunsStay
<1> QED
  BY <1>1, <1>2, <1>3, <1>4, <1>5, <1>6, <1>7, <1>8, <1>9, <1>10, <1>11, <1>12, <1>13, <1>14,
     <1>15, <1>16, <1>17, <1>18, <1>19, <1>20, <1>21 DEF CodeInv, CodeSafety

\* The run of an answer that failed fails.
LEMMA CodeSettlesAnswered == ASSUME CodeInv, SettleAnswered, IsActive(answerer.of), Saves PROVE
           CodeInv' /\ RunsStay
<1>1. UNCHANGED <<service, closer, crashes, storage, session, current, connection, loaded,
   events, process, native, job, hand, interrupter, deleter, halter>>
  BY DEF SettleAnswered, Finish, serverVars, stored, linkVars
<1>2. EventsFit' /\ Waiting' = Waiting
  BY <1>1 DEF CodeInv, EventsFit, Waiting
<1>3. current \in Operations /\ Busy /\ answerer.of = current
  BY CodeTypes DEF IsActive, CodeInv, CodeSafety
<1>4. answerer' \in AnswererRecords /\ answerer'.stage = "none" /\ answerer'.of = 0
       /\ answerer.stage = "settle"
  BY Numbers DEF SettleAnswered, NoAnswer, AnswererRecords
<1>5. /\ runs' \in [Operations -> RunRecords]
      /\ runs'[current].status \in {"interrupted", "failed"}
          /\ runs'[current].turn = runs[current].turn
      /\ \A p \in Operations : p # current => runs'[p] = runs[p]
      /\ prompt' \in {prompt, NoPrompt} /\ prompt' \in PromptRecords
      /\ sends' \in [Senders -> SendRecords]
      /\ session' = session /\ current' = current
  <2>1. PICK s \in {"interrupted", "failed"} : Finish(s)
    BY DEF SettleAnswered
  <2>2. s \in FinalStatuses
    BY <2>1 DEF FinalStatuses
  <2> QED
    BY <1>3, <2>1, <2>2, RunFinishes DEF CodeInv, CodeSafety
<1>6. \A e \in Waiting : e.kind = "started" => runs[e.of].turn = e.of
  BY <1>3, <1>4, EventsOf DEF CodeInv, EventsAreTrue, AnswererFits, IsActive
<1>7. \A p \in Operations : job[p].stage = "start" => connection # job[p].generation
  BY <1>3, <1>4 DEF CodeInv, StartsAreActive, AnswererFits, IsActive, Connected
<1>8. NoPrompt.status = "none" /\ NoPrompt.generation = 0 /\ NoPrompt.turn = 0
  BY PromptIsNone
<1>9. CodeTypeOK'
  BY <1>1, <1>2, <1>3, <1>4, <1>5, <1>6, <1>7, <1>8, CodeTypes, Numbers DEF CodeInv, CodeSafety,
     CodeTypeOK, RunRecords, RunStatuses, PromptRecords, SendRecords, ProcessRecords,
     NativeRecords, JobRecords, SessionRecords, SessionStatuses, DeleterRecords, DeleterStages,
     AnswererRecords, InterrupterStages, Closers
<1>10. ProcessesAreOwned' /\ DeletionIsDecided' /\ FedFits' /\ ShutFits' /\ PlaceIsFree' /\
   GoneStays' /\ DeletedIsGone' /\ InputNeverResent'
  BY <1>1, <1>2, PartsRest
<1>11. JobsFit'
  BY <1>1, <1>3, <1>5, <1>6, <1>7, CodeTyped, Numbers DEF CodeInv, JobsFit, Busy, ActiveStatuses,
     Unopened, Unfed, Connected
<1>12. OneActiveRun'
  BY <1>1, <1>3, <1>5, <1>6, <1>7, CodeTypes, Numbers DEF CodeInv, CodeSafety, OneActiveRun,
     Busy, IsActive, ActiveStatuses
<1>13. CompletedIsOver'
  BY <1>1, <1>3, <1>5, <1>6, <1>7, CodeTypes, Numbers DEF CodeInv, CodeSafety, CompletedIsOver
<1>14. ClosedIsQuiet'
  BY <1>1, <1>3, <1>5, <1>6, <1>7, CodeTypes DEF CodeInv, CodeSafety, ClosedIsQuiet,
     NobodyIsLate, Saves, Busy, IsActive, ActiveStatuses
<1>15. ServiceFits'
  BY <1>1, <1>3, <1>5, <1>6, <1>7, CodeTyped DEF CodeInv, ServiceFits, Saves, Busy, IsActive,
     ActiveStatuses
<1>16. TurnsFit'
  BY <1>1, <1>3, <1>5, <1>6, <1>7, CodeTyped DEF CodeInv, TurnsFit
<1>17. ProcessesFit'
  BY <1>1, <1>3, <1>5, <1>6, <1>7, <1>8, CodeTyped, Numbers, TaskNames, Generated DEF CodeInv,
     ProcessesFit
<1>18. HandsFit'
  BY <1>1, <1>3, <1>4, <1>6, <1>7, CodeTyped, TaskNames, Numbers DEF CodeInv, HandsFit
<1>19. EventsAreTrue'
  BY <1>1, <1>2, <1>3, <1>5, <1>6, <1>7, CodeTyped, EventsOf, Generated, Numbers DEF CodeInv,
     EventsAreTrue, Busy, IsActive, ActiveStatuses
<1>20. StartsAreActive'
  BY <1>1, <1>3, <1>5, <1>6, <1>7, CodeTyped, JobsHaveProcesses DEF CodeInv, StartsAreActive,
     Busy, IsActive, ActiveStatuses
<1>21. OpeningIsUnasked'
  BY <1>1, <1>3, <1>5, <1>6, <1>7, <1>8, CodeTyped, Generated, Numbers DEF CodeInv,
     OpeningIsUnasked, PromptOpen, Opening, Busy, IsActive, ActiveStatuses
<1>22. AnswererFits'
  BY <1>1, <1>2, <1>3, <1>4, <1>6, <1>7, CodeTyped, AnswererOf, JobsHaveProcesses DEF CodeInv,
     AnswererFits, Unopened, Connected
<1>23. RunsStay
  BY <1>1, <1>2, <1>3, <1>4, <1>5, <1>6, <1>7, <1>8, CodeTypes DEF CodeInv, CodeSafety, RunsStay,
     CompletedIsOver, OneActiveRun, Busy, IsActive, ActiveStatuses, FinalStatuses
<1> QED
  BY <1>1, <1>2, <1>3, <1>4, <1>5, <1>6, <1>7, <1>8, <1>9, <1>10, <1>11, <1>12, <1>13, <1>14,
     <1>15, <1>16, <1>17, <1>18, <1>19, <1>20, <1>21, <1>22, <1>23 DEF CodeInv, CodeSafety

\* It is over already.
LEMMA CodeLeavesAnswered == ASSUME CodeInv, SettleAnswered, ~(IsActive(answerer.of) /\ Saves)
           PROVE CodeInv' /\ RunsStay
<1>1. UNCHANGED <<service, closer, crashes, storage, session, current, runs, prompt, sends,
   connection, loaded, events, process, native, job, hand, interrupter, deleter, halter>>
  BY DEF SettleAnswered, serverVars, stored, linkVars
<1>2. EventsFit' /\ Waiting' = Waiting
  BY <1>1 DEF CodeInv, EventsFit, Waiting
<1>3. answerer' \in AnswererRecords /\ answerer'.stage = "none" /\ answerer'.of = 0
       /\ answerer.stage = "settle"
  BY Numbers DEF SettleAnswered, NoAnswer, AnswererRecords
<1>4. CodeTypeOK'
  BY <1>1, <1>2, <1>3, CodeTypes, Numbers DEF CodeInv, CodeSafety, CodeTypeOK, RunRecords,
     RunStatuses, PromptRecords, SendRecords, ProcessRecords, NativeRecords, JobRecords,
     SessionRecords, SessionStatuses, DeleterRecords, DeleterStages, AnswererRecords,
     InterrupterStages, Closers
<1>5. JobsFit' /\ OneActiveRun' /\ CompletedIsOver' /\ ProcessesAreOwned' /\ ClosedIsQuiet' /\
   DeletionIsDecided' /\ ServiceFits' /\ FedFits' /\ TurnsFit' /\ ProcessesFit' /\ EventsAreTrue'
   /\ StartsAreActive' /\ OpeningIsUnasked' /\ ShutFits' /\ PlaceIsFree' /\ GoneStays' /\
   DeletedIsGone' /\ InputNeverResent'
  BY <1>1, <1>2, PartsRest
<1>6. HandsFit'
  BY <1>1, <1>3, CodeTyped, TaskNames, Numbers DEF CodeInv, HandsFit
<1>7. AnswererFits'
  BY <1>1, <1>2, <1>3, CodeTyped, AnswererOf, JobsHaveProcesses DEF CodeInv, AnswererFits,
     Unopened, Connected
<1>8. RunsStay
  BY <1>1 DEF RunsStay
<1> QED
  BY <1>1, <1>2, <1>3, <1>4, <1>5, <1>6, <1>7, <1>8 DEF CodeInv, CodeSafety

\* The run of a task that waits has ended.
LEMMA CodeEndWait == ASSUME CodeInv, NEW o \in Operations, EndWait(o) PROVE CodeInv' /\ RunsStay
<1>1. UNCHANGED <<service, closer, crashes, storage, session, current, runs, prompt, sends,
   connection, loaded, events, process, native, hand, interrupter, deleter, halter, answerer>>
  BY DEF EndWait, serverVars, stored, linkVars, helpers
<1>2. EventsFit' /\ Waiting' = Waiting
  BY <1>1 DEF CodeInv, EventsFit, Waiting
<1>3. job[o].stage = "wait"
  BY DEF EndWait
<1>4. /\ job' \in [Operations -> JobRecords]
      /\ job'[o].stage = "final" /\ job'[o].generation = job[o].generation
      /\ job'[o].thread = job[o].thread /\ job'[o].late = job[o].late
      /\ \A p \in Operations : p # o => job'[p] = job[p]
  <2>1. "final" \in JobStages /\ Goes(o, "final")
    BY DEF EndWait, JobStages
  <2> QED
    BY <2>1, CodeTypes, JobGoes DEF CodeInv, CodeSafety
<1>5. CodeTypeOK'
  BY <1>1, <1>2, <1>3, <1>4, CodeTypes, Numbers DEF CodeInv, CodeSafety, CodeTypeOK, RunRecords,
     RunStatuses, PromptRecords, SendRecords, ProcessRecords, NativeRecords, JobRecords,
     SessionRecords, SessionStatuses, DeleterRecords, DeleterStages, AnswererRecords,
     InterrupterStages, Closers
<1>6. OneActiveRun' /\ CompletedIsOver' /\ DeletionIsDecided' /\ TurnsFit' /\ DeletedIsGone' /\
   InputNeverResent'
  BY <1>1, <1>2, PartsRest
<1>7. JobsFit'
  BY <1>1, <1>3, <1>4, CodeTyped, Numbers DEF CodeInv, JobsFit, Unopened, Unfed, Connected
<1>8. ProcessesAreOwned'
  BY <1>1, <1>3, <1>4, CodeTypes DEF CodeInv, CodeSafety, ProcessesAreOwned, NobodyIsLate,
     HandsFit
<1>9. ClosedIsQuiet'
  BY <1>1, <1>3, <1>4, CodeTypes DEF CodeInv, CodeSafety, ClosedIsQuiet, NobodyIsLate, Saves,
     Busy, ActiveStatuses
<1>10. ServiceFits'
  BY <1>1, <1>3, <1>4, CodeTyped DEF CodeInv, ServiceFits, Saves, Busy, ActiveStatuses
<1>11. FedFits'
  BY <1>1, <1>3, <1>4, CodeTyped DEF CodeInv, FedFits
<1>12. ProcessesFit'
  BY <1>1, <1>3, <1>4, CodeTyped, Numbers, TaskNames, Generated DEF CodeInv, ProcessesFit
<1>13. HandsFit'
  BY <1>1, <1>3, <1>4, CodeTyped, TaskNames, Numbers DEF CodeInv, HandsFit
<1>14. EventsAreTrue'
  BY <1>1, <1>2, <1>3, <1>4, CodeTyped, EventsOf, Generated, Numbers DEF CodeInv, EventsAreTrue,
     Busy, IsActive, ActiveStatuses
<1>15. StartsAreActive'
  BY <1>1, <1>3, <1>4, CodeTyped, JobsHaveProcesses DEF CodeInv, StartsAreActive, Busy, IsActive,
     ActiveStatuses
<1>16. OpeningIsUnasked'
  BY <1>1, <1>3, <1>4, CodeTyped, Generated, Numbers DEF CodeInv, OpeningIsUnasked, PromptOpen,
     Opening, Busy, ActiveStatuses
<1>17. AnswererFits'
  BY <1>1, <1>2, <1>3, <1>4, CodeTyped, AnswererOf, JobsHaveProcesses DEF CodeInv, AnswererFits,
     Unopened, Connected
<1>18. ShutFits'
  BY <1>1, <1>2, <1>3, <1>4, CodeTyped, JobsHaveProcesses DEF CodeInv, ShutFits
<1>19. PlaceIsFree'
  BY <1>1, <1>3, <1>4, CodeTyped DEF CodeInv, PlaceIsFree, NobodyIsLate, Opening, Connected
<1>20. GoneStays'
  BY <1>1, <1>3, <1>4, CodeTyped, JobsHaveProcesses DEF CodeInv, GoneStays
<1>21. RunsStay
  BY <1>1 DEF RunsStay
<1> QED
  BY <1>1, <1>2, <1>3, <1>4, <1>5, <1>6, <1>7, <1>8, <1>9, <1>10, <1>11, <1>12, <1>13, <1>14,
     <1>15, <1>16, <1>17, <1>18, <1>19, <1>20, <1>21 DEF CodeInv, CodeSafety

\* A commit of the task raises, or its connection has gone.
LEMMA CodeWorkFails == ASSUME CodeInv, NEW o \in Operations, WorkFails(o) PROVE CodeInv' /\
           RunsStay
<1>1. UNCHANGED <<service, closer, crashes, storage, session, current, runs, prompt, sends,
   connection, loaded, events, process, native, hand, interrupter, deleter, halter, answerer>>
  BY DEF WorkFails, serverVars, stored, linkVars, helpers
<1>2. EventsFit' /\ Waiting' = Waiting
  BY <1>1 DEF CodeInv, EventsFit, Waiting
<1>3. job[o].stage \in {"attach", "bind"}
  BY DEF WorkFails
<1>4. /\ job' \in [Operations -> JobRecords]
      /\ job'[o].stage = "fail" /\ job'[o].generation = job[o].generation
      /\ job'[o].thread = job[o].thread /\ job'[o].late = job[o].late
      /\ \A p \in Operations : p # o => job'[p] = job[p]
  <2>1. "fail" \in JobStages /\ Goes(o, "fail")
    BY DEF WorkFails, JobStages
  <2> QED
    BY <2>1, CodeTypes, JobGoes DEF CodeInv, CodeSafety
<1>5. CodeTypeOK'
  BY <1>1, <1>2, <1>3, <1>4, CodeTypes, Numbers DEF CodeInv, CodeSafety, CodeTypeOK, RunRecords,
     RunStatuses, PromptRecords, SendRecords, ProcessRecords, NativeRecords, JobRecords,
     SessionRecords, SessionStatuses, DeleterRecords, DeleterStages, AnswererRecords,
     InterrupterStages, Closers
<1>6. OneActiveRun' /\ CompletedIsOver' /\ DeletionIsDecided' /\ TurnsFit' /\ DeletedIsGone' /\
   InputNeverResent'
  BY <1>1, <1>2, PartsRest
<1>7. JobsFit'
  BY <1>1, <1>3, <1>4, CodeTyped, Numbers DEF CodeInv, JobsFit, Unopened, Unfed, Connected
<1>8. ProcessesAreOwned'
  BY <1>1, <1>3, <1>4, CodeTypes DEF CodeInv, CodeSafety, ProcessesAreOwned, NobodyIsLate,
     HandsFit
<1>9. ClosedIsQuiet'
  BY <1>1, <1>3, <1>4, CodeTypes DEF CodeInv, CodeSafety, ClosedIsQuiet, NobodyIsLate, Saves,
     Busy, ActiveStatuses
<1>10. ServiceFits'
  BY <1>1, <1>3, <1>4, CodeTyped DEF CodeInv, ServiceFits, Saves, Busy, ActiveStatuses
<1>11. FedFits'
  BY <1>1, <1>3, <1>4, CodeTyped DEF CodeInv, FedFits
<1>12. ProcessesFit'
  BY <1>1, <1>3, <1>4, CodeTyped, Numbers, TaskNames, Generated DEF CodeInv, ProcessesFit
<1>13. HandsFit'
  BY <1>1, <1>3, <1>4, CodeTyped, TaskNames, Numbers DEF CodeInv, HandsFit
<1>14. EventsAreTrue'
  BY <1>1, <1>2, <1>3, <1>4, CodeTyped, EventsOf, Generated, Numbers DEF CodeInv, EventsAreTrue,
     Busy, IsActive, ActiveStatuses
<1>15. StartsAreActive'
  BY <1>1, <1>3, <1>4, CodeTyped, JobsHaveProcesses DEF CodeInv, StartsAreActive, Busy, IsActive,
     ActiveStatuses
<1>16. OpeningIsUnasked'
  BY <1>1, <1>3, <1>4, CodeTyped, Generated, Numbers DEF CodeInv, OpeningIsUnasked, PromptOpen,
     Opening, Busy, ActiveStatuses
<1>17. AnswererFits'
  BY <1>1, <1>2, <1>3, <1>4, CodeTyped, AnswererOf, JobsHaveProcesses DEF CodeInv, AnswererFits,
     Unopened, Connected
<1>18. ShutFits'
  BY <1>1, <1>2, <1>3, <1>4, CodeTyped, JobsHaveProcesses DEF CodeInv, ShutFits
<1>19. PlaceIsFree'
  BY <1>1, <1>3, <1>4, CodeTyped DEF CodeInv, PlaceIsFree, NobodyIsLate, Opening, Connected
<1>20. GoneStays'
  BY <1>1, <1>3, <1>4, CodeTyped, JobsHaveProcesses DEF CodeInv, GoneStays
<1>21. RunsStay
  BY <1>1 DEF RunsStay
<1> QED
  BY <1>1, <1>2, <1>3, <1>4, <1>5, <1>6, <1>7, <1>8, <1>9, <1>10, <1>11, <1>12, <1>13, <1>14,
     <1>15, <1>16, <1>17, <1>18, <1>19, <1>20, <1>21 DEF CodeInv, CodeSafety

\* A task closes a connection that does not support the selection.
LEMMA CodeCloseOld == ASSUME CodeInv, NEW o \in Operations, CloseOld(o) PROVE CodeInv' /\
           RunsStay
<1>1. UNCHANGED <<service, closer, crashes, storage, session, current, runs, prompt, sends,
   process, native, interrupter, deleter, halter, answerer>>
  BY DEF CloseOld, Detach, serverVars, stored, helpers
<1>2. job[o].stage = "replace"
  BY DEF CloseOld
<1>3. hand[Task("job", o)] = 0
  BY CodeTypes DEF CloseOld, CodeInv, CodeSafety, HandsFit
<1>4. /\ job' \in [Operations -> JobRecords]
      /\ job'[o].stage = "closeOld" /\ job'[o].generation = job[o].generation
      /\ job'[o].thread = job[o].thread /\ job'[o].late = job[o].late
      /\ \A p \in Operations : p # o => job'[p] = job[p]
  <2>1. "closeOld" \in JobStages /\ Goes(o, "closeOld")
    BY DEF CloseOld, JobStages
  <2> QED
    BY <2>1, CodeTypes, JobGoes DEF CodeInv, CodeSafety
<1>5. /\ Task("job", o) \in Tasks
      /\ hand' \in [Tasks -> 0..MaxConnections] /\ hand'[Task("job", o)] = connection
      /\ \A s \in Tasks : s # Task("job", o) => hand'[s] = hand[s]
      /\ connection' = 0 /\ loaded' = 0 /\ EventsFit' /\ Waiting' = {}
  BY TaskNames, Detaches DEF CloseOld, CodeInv, CodeSafety
<1>6. CodeTypeOK'
  BY <1>1, <1>2, <1>3, <1>4, <1>5, CodeTypes, Numbers DEF CodeInv, CodeSafety, CodeTypeOK,
     RunRecords, RunStatuses, PromptRecords, SendRecords, ProcessRecords, NativeRecords,
     JobRecords, SessionRecords, SessionStatuses, DeleterRecords, DeleterStages, AnswererRecords,
     InterrupterStages, Closers
<1>7. OneActiveRun' /\ CompletedIsOver' /\ DeletionIsDecided' /\ TurnsFit' /\ DeletedIsGone' /\
   InputNeverResent'
  BY <1>1, PartsRest
<1>8. JobsFit'
  BY <1>1, <1>2, <1>3, <1>4, CodeTyped, Numbers DEF CodeInv, JobsFit, Unopened, Unfed, Connected
<1>9. ProcessesAreOwned'
  BY <1>1, <1>2, <1>3, <1>4, <1>5, CodeTypes DEF CodeInv, CodeSafety, ProcessesAreOwned,
     NobodyIsLate, HandsFit
<1>10. ClosedIsQuiet'
  BY <1>1, <1>2, <1>3, <1>4, CodeTypes DEF CodeInv, CodeSafety, ClosedIsQuiet, NobodyIsLate,
     Saves, Busy, ActiveStatuses
<1>11. ServiceFits'
  BY <1>1, <1>2, <1>3, <1>4, CodeTyped DEF CodeInv, ServiceFits, Saves, Busy, ActiveStatuses
<1>12. FedFits'
  BY <1>1, <1>2, <1>3, <1>4, CodeTyped DEF CodeInv, FedFits
<1>13. ProcessesFit'
  BY <1>1, <1>2, <1>3, <1>4, <1>5, CodeTyped, Numbers, TaskNames, Generated DEF CodeInv,
     ProcessesFit
<1>14. HandsFit'
  BY <1>1, <1>2, <1>3, <1>4, <1>5, CodeTyped, TaskNames, Numbers DEF CodeInv, HandsFit
<1>15. EventsAreTrue'
  BY <1>1, <1>2, <1>3, <1>4, <1>5, CodeTyped, EventsOf, Generated, Numbers DEF CodeInv,
     EventsAreTrue, Busy, IsActive, ActiveStatuses
<1>16. StartsAreActive'
  BY <1>1, <1>2, <1>3, <1>4, <1>5, CodeTyped, JobsHaveProcesses DEF CodeInv, StartsAreActive,
     Busy, IsActive, ActiveStatuses
<1>17. OpeningIsUnasked'
  BY <1>1, <1>2, <1>3, <1>4, <1>5, CodeTyped, Generated, Numbers DEF CodeInv, OpeningIsUnasked,
     PromptOpen, Opening, Busy, ActiveStatuses
<1>18. AnswererFits'
  BY <1>1, <1>2, <1>3, <1>4, <1>5, CodeTyped, AnswererOf, JobsHaveProcesses DEF CodeInv,
     AnswererFits, Unopened, Connected
<1>19. ShutFits'
  BY <1>1, <1>2, <1>3, <1>4, <1>5, CodeTyped, JobsHaveProcesses DEF CodeInv, ShutFits
<1>20. PlaceIsFree'
  BY <1>1, <1>2, <1>3, <1>4, <1>5, CodeTyped DEF CodeInv, PlaceIsFree, NobodyIsLate, Opening,
     Connected
<1>21. GoneStays'
  BY <1>1, <1>2, <1>3, <1>4, <1>5, CodeTyped, JobsHaveProcesses DEF CodeInv, GoneStays
<1>22. RunsStay
  BY <1>1 DEF RunsStay
<1> QED
  BY <1>1, <1>2, <1>3, <1>4, <1>5, <1>6, <1>7, <1>8, <1>9, <1>10, <1>11, <1>12, <1>13, <1>14,
     <1>15, <1>16, <1>17, <1>18, <1>19, <1>20, <1>21, <1>22 DEF CodeInv, CodeSafety

\* Its process has ended.
LEMMA CodeClosedOld == ASSUME CodeInv, NEW o \in Operations, ClosedOld(o) PROVE CodeInv' /\
           RunsStay
<1>1. UNCHANGED <<service, closer, crashes, storage, current, runs, sends, connection, loaded,
   events, process, native, interrupter, deleter, halter, answerer>>
  BY DEF ClosedOld, AfterClose, serverVars, linkVars, helpers
<1>2. EventsFit' /\ Waiting' = Waiting
  BY <1>1 DEF CodeInv, EventsFit, Waiting
<1>3. job[o].stage = "closeOld"
  BY DEF ClosedOld
<1>4. /\ job' \in [Operations -> JobRecords]
      /\ job'[o].stage = "open" /\ job'[o].generation = job[o].generation
      /\ job'[o].thread = job[o].thread /\ job'[o].late = job[o].late
      /\ \A p \in Operations : p # o => job'[p] = job[p]
  <2>1. "open" \in JobStages /\ Goes(o, "open")
    BY DEF ClosedOld, JobStages
  <2> QED
    BY <2>1, CodeTypes, JobGoes DEF CodeInv, CodeSafety
<1>5. /\ Task("job", o) \in Tasks
      /\ hand' \in [Tasks -> 0..MaxConnections] /\ hand'[Task("job", o)] = 0
      /\ \A s \in Tasks : s # Task("job", o) => hand'[s] = hand[s]
      /\ hand[Task("job", o)] # 0 => process[hand[Task("job", o)]].state = "dead"
      /\ prompt' \in {prompt, NoPrompt} /\ prompt' \in PromptRecords
      /\ session' \in SessionRecords
      /\ session'.status = session.status /\ session'.fed = session.fed
      /\ session.thread # 0 => session'.thread = session.thread
  BY TaskNames, ClosesAfter DEF ClosedOld, CodeInv, CodeSafety
<1>6. NoPrompt.status = "none" /\ NoPrompt.generation = 0 /\ NoPrompt.turn = 0
  BY PromptIsNone
<1>7. session.fed => session'.thread = session.thread
  BY <1>5 DEF CodeInv, FedFits
<1>8. CodeTypeOK'
  BY <1>1, <1>2, <1>3, <1>4, <1>5, <1>6, <1>7, CodeTypes, Numbers DEF CodeInv, CodeSafety,
     CodeTypeOK, RunRecords, RunStatuses, PromptRecords, SendRecords, ProcessRecords,
     NativeRecords, JobRecords, SessionRecords, SessionStatuses, DeleterRecords, DeleterStages,
     AnswererRecords, InterrupterStages, Closers
<1>9. OneActiveRun' /\ CompletedIsOver' /\ TurnsFit' /\ InputNeverResent'
  BY <1>1, <1>2, PartsRest
<1>10. JobsFit'
  BY <1>1, <1>3, <1>4, <1>5, <1>7, CodeTyped, Numbers DEF CodeInv, JobsFit, Unopened, Unfed,
     Connected
<1>11. ProcessesAreOwned'
  BY <1>1, <1>3, <1>4, <1>5, CodeTypes DEF CodeInv, CodeSafety, ProcessesAreOwned, NobodyIsLate,
     HandsFit
<1>12. ClosedIsQuiet'
  BY <1>1, <1>3, <1>4, CodeTypes DEF CodeInv, CodeSafety, ClosedIsQuiet, NobodyIsLate, Saves,
     Busy, ActiveStatuses
<1>13. DeletionIsDecided'
  BY <1>1, <1>3, <1>5, <1>7, CodeTypes DEF CodeInv, CodeSafety, DeletionIsDecided, Saves
<1>14. ServiceFits'
  BY <1>1, <1>3, <1>4, <1>5, <1>7, CodeTyped DEF CodeInv, ServiceFits, Saves, Busy,
     ActiveStatuses
<1>15. FedFits'
  BY <1>1, <1>3, <1>4, <1>5, <1>7, CodeTyped DEF CodeInv, FedFits
<1>16. ProcessesFit'
  BY <1>1, <1>3, <1>4, <1>5, <1>6, CodeTyped, Numbers, TaskNames, Generated DEF CodeInv,
     ProcessesFit
<1>17. HandsFit'
  BY <1>1, <1>3, <1>4, <1>5, CodeTyped, TaskNames, Numbers DEF CodeInv, HandsFit
<1>18. EventsAreTrue'
  BY <1>1, <1>2, <1>3, <1>4, CodeTyped, EventsOf, Generated, Numbers DEF CodeInv, EventsAreTrue,
     Busy, IsActive, ActiveStatuses
<1>19. StartsAreActive'
  BY <1>1, <1>3, <1>4, CodeTyped, JobsHaveProcesses DEF CodeInv, StartsAreActive, Busy, IsActive,
     ActiveStatuses
<1>20. OpeningIsUnasked'
  BY <1>1, <1>3, <1>4, <1>5, <1>6, CodeTyped, Generated, Numbers DEF CodeInv, OpeningIsUnasked,
     PromptOpen, Opening, Busy, ActiveStatuses
<1>21. AnswererFits'
  BY <1>1, <1>2, <1>3, <1>4, CodeTyped, AnswererOf, JobsHaveProcesses DEF CodeInv, AnswererFits,
     Unopened, Connected
<1>22. ShutFits'
  BY <1>1, <1>2, <1>3, <1>4, CodeTyped, JobsHaveProcesses DEF CodeInv, ShutFits
<1>23. PlaceIsFree'
  BY <1>1, <1>3, <1>4, CodeTyped DEF CodeInv, PlaceIsFree, NobodyIsLate, Opening, Connected
<1>24. GoneStays'
  BY <1>1, <1>3, <1>4, <1>5, <1>7, CodeTyped, JobsHaveProcesses DEF CodeInv, GoneStays
<1>25. DeletedIsGone'
  BY <1>24 DEF DeletedIsGone, GoneStays
<1>26. RunsStay
  BY <1>1 DEF RunsStay
<1> QED
  BY <1>1, <1>2, <1>3, <1>4, <1>5, <1>6, <1>7, <1>8, <1>9, <1>10, <1>11, <1>12, <1>13, <1>14,
     <1>15, <1>16, <1>17, <1>18, <1>19, <1>20, <1>21, <1>22, <1>23, <1>24, <1>25, <1>26 DEF
     CodeInv, CodeSafety

\* A session that is ready and at rest is deleted.
LEMMA CodeDeleteReady == ASSUME CodeInv, Delete, session.status = "ready" PROVE CodeInv' /\
           RunsStay
<1>1. UNCHANGED <<service, closer, crashes, storage, current, runs, prompt, connection, loaded,
   events, process, native, job, hand, interrupter, halter, answerer>>
  BY DEF Delete, serverVars, linkVars, helpers
<1>2. EventsFit' /\ Waiting' = Waiting
  BY <1>1 DEF CodeInv, EventsFit, Waiting
<1>3. /\ ~Busy /\ ~PromptOpen /\ service = "up" /\ deleter.stage = "none"
      /\ closer = "none"
  BY DEF Delete, CodeInv, ServiceFits
<1>4. /\ session' \in SessionRecords /\ session'.status = "deleting"
      /\ session'.thread = session.thread /\ session'.fed = session.fed
  <2>1. session' = [session EXCEPT !.status = "deleting"]
    BY DEF Delete
  <2>2. "deleting" \in SessionStatuses
    BY DEF SessionStatuses
  <2> QED
    BY <2>1, <2>2, CodeTypes, SessionIs DEF CodeInv, CodeSafety
<1>5. sends' \in [Senders -> SendRecords]
  BY CodeTypes, SendsStale DEF Delete, CodeInv, CodeSafety
<1>6. deleter' \in DeleterRecords /\ deleter'.stage = "begin"
  BY DeletionBegins DEF Delete
<1>7. CodeTypeOK'
  BY <1>1, <1>2, <1>3, <1>4, <1>5, <1>6, CodeTypes, Numbers DEF CodeInv, CodeSafety, CodeTypeOK,
     RunRecords, RunStatuses, PromptRecords, SendRecords, ProcessRecords, NativeRecords,
     JobRecords, SessionRecords, SessionStatuses, DeleterRecords, DeleterStages, AnswererRecords,
     InterrupterStages, Closers
<1>8. OneActiveRun' /\ CompletedIsOver' /\ ProcessesAreOwned' /\ ClosedIsQuiet' /\ TurnsFit' /\
   ProcessesFit' /\ EventsAreTrue' /\ StartsAreActive' /\ OpeningIsUnasked' /\ AnswererFits' /\
   ShutFits' /\ InputNeverResent'
  BY <1>1, <1>2, PartsRest
<1>9. JobsFit'
  BY <1>1, <1>3, <1>4, CodeTyped, Numbers DEF CodeInv, JobsFit, Busy, ActiveStatuses, Unopened,
     Unfed, Connected
<1>10. DeletionIsDecided'
  BY <1>1, <1>3, <1>4, <1>6, CodeTypes DEF CodeInv, CodeSafety, DeletionIsDecided, Saves
<1>11. ServiceFits'
  BY <1>1, <1>3, <1>4, <1>6, CodeTyped DEF CodeInv, ServiceFits, Saves, Busy, ActiveStatuses
<1>12. FedFits'
  BY <1>1, <1>3, <1>4, CodeTyped DEF CodeInv, FedFits
<1>13. HandsFit'
  BY <1>1, <1>3, <1>6, CodeTyped, TaskNames, Numbers DEF CodeInv, HandsFit
<1>14. PlaceIsFree'
  BY <1>1, <1>3, <1>6, CodeTyped DEF CodeInv, PlaceIsFree, NobodyIsLate, Opening, Connected
<1>15. GoneStays'
  BY <1>1, <1>3, <1>4, <1>6, CodeTyped, JobsHaveProcesses DEF CodeInv, GoneStays
<1>16. DeletedIsGone'
  BY <1>15 DEF DeletedIsGone, GoneStays
<1>17. RunsStay
  BY <1>1 DEF RunsStay
<1> QED
  BY <1>1, <1>2, <1>3, <1>4, <1>5, <1>6, <1>7, <1>8, <1>9, <1>10, <1>11, <1>12, <1>13, <1>14,
     <1>15, <1>16, <1>17 DEF CodeInv, CodeSafety

\* One of which nothing is known is looked at.
LEMMA CodeDeleteAgain == ASSUME CodeInv, Delete, session.status = "delete_uncertain" PROVE
           CodeInv' /\ RunsStay
<1>1. UNCHANGED <<service, closer, crashes, storage, session, current, runs, prompt, sends,
   connection, loaded, events, process, native, job, hand, interrupter, halter, answerer>>
  BY DEF Delete, serverVars, linkVars, helpers
<1>2. EventsFit' /\ Waiting' = Waiting
  BY <1>1 DEF CodeInv, EventsFit, Waiting
<1>3. /\ service = "up" /\ deleter.stage = "none"
      /\ closer = "none"
  BY DEF Delete, CodeInv, ServiceFits
<1>4. deleter' \in DeleterRecords /\ deleter'.stage = "begin"
  BY DeletionBegins DEF Delete
<1>5. CodeTypeOK'
  BY <1>1, <1>2, <1>3, <1>4, CodeTypes, Numbers DEF CodeInv, CodeSafety, CodeTypeOK, RunRecords,
     RunStatuses, PromptRecords, SendRecords, ProcessRecords, NativeRecords, JobRecords,
     SessionRecords, SessionStatuses, DeleterRecords, DeleterStages, AnswererRecords,
     InterrupterStages, Closers
<1>6. JobsFit' /\ OneActiveRun' /\ CompletedIsOver' /\ ProcessesAreOwned' /\ ClosedIsQuiet' /\
   FedFits' /\ TurnsFit' /\ ProcessesFit' /\ EventsAreTrue' /\ StartsAreActive' /\
   OpeningIsUnasked' /\ AnswererFits' /\ ShutFits' /\ DeletedIsGone' /\ InputNeverResent'
  BY <1>1, <1>2, PartsRest
<1>7. DeletionIsDecided'
  BY <1>1, <1>3, <1>4, CodeTypes DEF CodeInv, CodeSafety, DeletionIsDecided, Saves
<1>8. ServiceFits'
  BY <1>1, <1>3, <1>4, CodeTyped DEF CodeInv, ServiceFits, Saves, Busy, ActiveStatuses
<1>9. HandsFit'
  BY <1>1, <1>3, <1>4, CodeTyped, TaskNames, Numbers DEF CodeInv, HandsFit
<1>10. PlaceIsFree'
  BY <1>1, <1>3, <1>4, CodeTyped DEF CodeInv, PlaceIsFree, NobodyIsLate, Opening, Connected
<1>11. GoneStays'
  BY <1>1, <1>3, <1>4, CodeTyped, JobsHaveProcesses DEF CodeInv, GoneStays
<1>12. RunsStay
  BY <1>1 DEF RunsStay
<1> QED
  BY <1>1, <1>2, <1>3, <1>4, <1>5, <1>6, <1>7, <1>8, <1>9, <1>10, <1>11, <1>12 DEF CodeInv,
     CodeSafety

\* The task opens a process.
OpensFor(o, g) ==
    /\ job[o].stage = "open" /\ Opened(g)
    /\ job' = [job EXCEPT ![o].stage = "thread", ![o].generation = g, ![o].late = ~Expected(o)]
    /\ UNCHANGED <<serverVars, storage, stored, native, hand, interrupter, deleter, helpers>>

\* It takes the place of the connection.
LEMMA CodeOpensFor == ASSUME CodeInv, NEW o \in Operations, NEW g \in Generations, OpensFor(o, g)
           PROVE CodeInv' /\ RunsStay
<1>1. UNCHANGED <<service, closer, crashes, storage, session, current, runs, prompt, sends,
   loaded, native, hand, interrupter, deleter, halter, answerer>>
  BY DEF OpensFor, Opened, serverVars, stored, helpers
<1>2. job[o].stage = "open"
  BY DEF OpensFor
<1>3. /\ process' \in [Generations -> ProcessRecords]
      /\ process[g].state = "none" /\ process'[g].state = "alive"
      /\ process'[g].begun = process[g].begun
      /\ \A h \in Generations : h # g => process'[h] = process[h]
      /\ connection' = g /\ EventsFit' /\ Waiting' = {}
  BY Opens DEF OpensFor, CodeInv, CodeSafety
<1>4. /\ job' \in [Operations -> JobRecords]
      /\ job'[o].stage = "thread" /\ job'[o].generation = g
      /\ job'[o].thread = job[o].thread /\ job'[o].late = ~Expected(o)
      /\ \A p \in Operations : p # o => job'[p] = job[p]
  <2>1. "thread" \in JobStages /\ g \in 0..MaxConnections /\ (~Expected(o)) \in BOOLEAN
    BY Numbers DEF JobStages, Expected
  <2>2. job \in [Operations -> JobRecords]
    BY CodeTypes DEF CodeInv, CodeSafety
  <2>3. job' = [job EXCEPT ![o].stage = "thread", ![o].generation = g, ![o].late = ~Expected(o)]
    BY Zenon DEF OpensFor
  <2> DEFINE l == ~Expected(o)
  <2>4. l \in BOOLEAN
    BY <2>1
  <2>6. TakesProcess(o, "thread", g, l)
    BY <2>3, Zenon DEF TakesProcess
  <2> HIDE DEF l
  <2>5. /\ job' \in [Operations -> JobRecords]
        /\ job'[o].stage = "thread" /\ job'[o].generation = g
        /\ job'[o].thread = job[o].thread /\ job'[o].late = l
        /\ \A p \in Operations : p # o => job'[p] = job[p]
    BY <2>1, <2>2, <2>4, <2>6, JobOpens
  <2> QED
    BY <2>5, Zenon DEF l
<1>5. /\ \A p \in Operations : job[p].generation # g
      /\ prompt.generation # g /\ ~(process'[g].begun)
  BY <1>3, Numbers DEF CodeInv, ProcessesFit
<1>6. ~job[o].late
  BY <1>2 DEF CodeInv, JobsFit, Unopened
<1>7. Expected(o) => current = o /\ session.status = "ready" /\ deleter.stage = "none"
  BY DEF Expected, IsActive, CodeInv, ServiceFits
<1>8. Expected(o) /\ NobodyIsLate => connection = 0
  BY <1>2, <1>7, Numbers DEF CodeInv, PlaceIsFree, Opening
<1>9. service # "closed" /\ closer # "over"
  BY <1>2 DEF CodeInv, ServiceFits
<1>10. NobodyIsLate' => NobodyIsLate /\ Expected(o)
  BY <1>4, <1>6 DEF NobodyIsLate
<1>11. CodeTypeOK'
  BY <1>1, <1>2, <1>3, <1>4, <1>5, <1>6, <1>7, <1>8, <1>9, <1>10, CodeTypes, Numbers DEF CodeInv,
     CodeSafety, CodeTypeOK, RunRecords, RunStatuses, PromptRecords, SendRecords, ProcessRecords,
     NativeRecords, JobRecords, SessionRecords, SessionStatuses, DeleterRecords, DeleterStages,
     AnswererRecords, InterrupterStages, Closers
<1>12. OneActiveRun' /\ CompletedIsOver' /\ DeletionIsDecided' /\ TurnsFit' /\ DeletedIsGone' /\
   InputNeverResent'
  BY <1>1, PartsRest
<1>13. JobsFit'
  BY <1>1, <1>2, <1>4, <1>5, <1>6, <1>7, <1>8, <1>9, <1>10, CodeTyped, Numbers DEF CodeInv,
     JobsFit, Unopened, Unfed, Connected
<1>14. ProcessesAreOwned'
  BY <1>1, <1>3, <1>8, <1>10, Numbers DEF CodeInv, CodeSafety, ProcessesAreOwned
<1>15. ClosedIsQuiet'
  BY <1>1, <1>9 DEF ClosedIsQuiet
<1>16. ServiceFits'
  BY <1>1, <1>2, <1>4, <1>5, <1>6, <1>7, <1>8, <1>9, <1>10, CodeTyped DEF CodeInv, ServiceFits,
     Saves, Busy, ActiveStatuses
<1>17. FedFits'
  BY <1>1, <1>2, <1>4, <1>5, <1>6, <1>7, <1>8, <1>9, <1>10, CodeTyped DEF CodeInv, FedFits
<1>18. ProcessesFit'
  <2>1. /\ \A h \in Generations : /\ process[h].state # "none" => process'[h].state # "none"
                                  /\ process'[h].begun = process[h].begun
        /\ process'[g].state # "none" /\ connection' = g
    BY <1>3
  <2>2. connection' # 0 => process'[connection'].state # "none"
    BY <2>1
  <2>3. \A h \in Generations : process'[h].begun => process'[h].state # "none"
    BY <2>1 DEF CodeInv, ProcessesFit
  <2>4. \A p \in Operations :
            /\ job'[p].generation # 0 => process'[job'[p].generation].state # "none"
            /\ native'.turn[p] \in Generations => process'[native'.turn[p]].begun
    <3>1. \A p \in Operations : job'[p].generation \in {job[p].generation, g}
           /\ native'.turn[p] = native.turn[p]
      BY <1>1, <1>4
    <3> QED
      BY <2>1, <3>1, Generated, Numbers DEF CodeInv, ProcessesFit
  <2>5. \A t \in Tasks : hand'[t] # 0 => process'[hand'[t]].state # "none"
    BY <1>1, <2>1, Generated, Numbers DEF CodeInv, ProcessesFit
  <2>6. prompt'.generation # 0 => process'[prompt'.generation].state # "none"
    BY <1>1, <2>1, Generated, Numbers DEF CodeInv, ProcessesFit
  <2> QED
    BY <2>2, <2>3, <2>4, <2>5, <2>6 DEF ProcessesFit
<1>19. HandsFit'
  BY <1>1, <1>2, <1>4, <1>5, <1>6, <1>7, <1>8, <1>9, <1>10, CodeTyped, TaskNames, Numbers DEF
     CodeInv, HandsFit
<1>20. EventsAreTrue'
  BY <1>1, <1>2, <1>3, <1>4, <1>5, <1>6, <1>7, <1>8, <1>9, <1>10, CodeTyped, EventsOf, Generated,
     Numbers DEF CodeInv, EventsAreTrue, Busy, IsActive, ActiveStatuses
<1>21. StartsAreActive'
  BY <1>1, <1>2, <1>3, <1>4, <1>5, <1>6, <1>7, <1>8, <1>9, <1>10, CodeTyped, JobsHaveProcesses
     DEF CodeInv, StartsAreActive, Busy, IsActive, ActiveStatuses
<1>22. OpeningIsUnasked'
  BY <1>1, <1>2, <1>3, <1>4, <1>5, <1>6, <1>7, <1>8, <1>9, <1>10, CodeTyped, Generated, Numbers
     DEF CodeInv, OpeningIsUnasked, PromptOpen, Opening, Busy, ActiveStatuses
<1>23. AnswererFits'
  BY <1>1, <1>2, <1>3, <1>4, <1>5, <1>6, <1>7, <1>8, <1>9, <1>10, CodeTyped, AnswererOf,
     JobsHaveProcesses DEF CodeInv, AnswererFits, Unopened, Connected
<1>24. ShutFits'
  BY <1>1, <1>2, <1>3, <1>4, <1>5, <1>6, <1>7, <1>8, <1>9, <1>10, CodeTyped, JobsHaveProcesses
     DEF CodeInv, ShutFits
<1>25. PlaceIsFree'
  BY <1>1, <1>3, <1>4, <1>7, <1>10, Numbers DEF PlaceIsFree, Opening, Connected
<1>26. GoneStays'
  BY <1>1, <1>2, <1>3, <1>4, <1>5, <1>6, <1>7, <1>8, <1>9, <1>10, CodeTyped, JobsHaveProcesses
     DEF CodeInv, GoneStays
<1>27. RunsStay
  BY <1>1 DEF RunsStay
<1> QED
  BY <1>1, <1>2, <1>3, <1>4, <1>5, <1>6, <1>7, <1>8, <1>9, <1>10, <1>11, <1>12, <1>13, <1>14,
     <1>15, <1>16, <1>17, <1>18, <1>19, <1>20, <1>21, <1>22, <1>23, <1>24, <1>25, <1>26, <1>27
     DEF CodeInv, CodeSafety

\* It cannot.
LEMMA CodeOpenFails == ASSUME CodeInv, NEW o \in Operations, Open(o), Goes(o, "fail"), UNCHANGED
           <<linkVars, process>> PROVE CodeInv' /\ RunsStay
<1>1. UNCHANGED <<service, closer, crashes, storage, session, current, runs, prompt, sends,
   connection, loaded, events, process, native, hand, interrupter, deleter, halter, answerer>>
  BY DEF Open, Goes, serverVars, stored, linkVars, helpers
<1>2. EventsFit' /\ Waiting' = Waiting
  BY <1>1 DEF CodeInv, EventsFit, Waiting
<1>3. job[o].stage = "open"
  BY DEF Open
<1>4. /\ job' \in [Operations -> JobRecords]
      /\ job'[o].stage = "fail" /\ job'[o].generation = job[o].generation
      /\ job'[o].thread = job[o].thread /\ job'[o].late = job[o].late
      /\ \A p \in Operations : p # o => job'[p] = job[p]
  <2>1. "fail" \in JobStages /\ Goes(o, "fail")
    BY DEF Goes, JobStages
  <2> QED
    BY <2>1, CodeTypes, JobGoes DEF CodeInv, CodeSafety
<1>5. CodeTypeOK'
  BY <1>1, <1>2, <1>3, <1>4, CodeTypes, Numbers DEF CodeInv, CodeSafety, CodeTypeOK, RunRecords,
     RunStatuses, PromptRecords, SendRecords, ProcessRecords, NativeRecords, JobRecords,
     SessionRecords, SessionStatuses, DeleterRecords, DeleterStages, AnswererRecords,
     InterrupterStages, Closers
<1>6. OneActiveRun' /\ CompletedIsOver' /\ DeletionIsDecided' /\ TurnsFit' /\ DeletedIsGone' /\
   InputNeverResent'
  BY <1>1, <1>2, PartsRest
<1>7. JobsFit'
  BY <1>1, <1>3, <1>4, CodeTyped, Numbers DEF CodeInv, JobsFit, Unopened, Unfed, Connected
<1>8. ProcessesAreOwned'
  BY <1>1, <1>3, <1>4, CodeTypes DEF CodeInv, CodeSafety, ProcessesAreOwned, NobodyIsLate,
     HandsFit
<1>9. ClosedIsQuiet'
  BY <1>1, <1>3, <1>4, CodeTypes DEF CodeInv, CodeSafety, ClosedIsQuiet, NobodyIsLate, Saves,
     Busy, ActiveStatuses
<1>10. ServiceFits'
  BY <1>1, <1>3, <1>4, CodeTyped DEF CodeInv, ServiceFits, Saves, Busy, ActiveStatuses
<1>11. FedFits'
  BY <1>1, <1>3, <1>4, CodeTyped DEF CodeInv, FedFits
<1>12. ProcessesFit'
  BY <1>1, <1>3, <1>4, CodeTyped, Numbers, TaskNames, Generated DEF CodeInv, ProcessesFit
<1>13. HandsFit'
  BY <1>1, <1>3, <1>4, CodeTyped, TaskNames, Numbers DEF CodeInv, HandsFit
<1>14. EventsAreTrue'
  BY <1>1, <1>2, <1>3, <1>4, CodeTyped, EventsOf, Generated, Numbers DEF CodeInv, EventsAreTrue,
     Busy, IsActive, ActiveStatuses
<1>15. StartsAreActive'
  BY <1>1, <1>3, <1>4, CodeTyped, JobsHaveProcesses DEF CodeInv, StartsAreActive, Busy, IsActive,
     ActiveStatuses
<1>16. OpeningIsUnasked'
  BY <1>1, <1>3, <1>4, CodeTyped, Generated, Numbers DEF CodeInv, OpeningIsUnasked, PromptOpen,
     Opening, Busy, ActiveStatuses
<1>17. AnswererFits'
  BY <1>1, <1>2, <1>3, <1>4, CodeTyped, AnswererOf, JobsHaveProcesses DEF CodeInv, AnswererFits,
     Unopened, Connected
<1>18. ShutFits'
  BY <1>1, <1>2, <1>3, <1>4, CodeTyped, JobsHaveProcesses DEF CodeInv, ShutFits
<1>19. PlaceIsFree'
  BY <1>1, <1>3, <1>4, CodeTyped DEF CodeInv, PlaceIsFree, NobodyIsLate, Opening, Connected
<1>20. GoneStays'
  BY <1>1, <1>3, <1>4, CodeTyped, JobsHaveProcesses DEF CodeInv, GoneStays
<1>21. RunsStay
  BY <1>1 DEF RunsStay
<1> QED
  BY <1>1, <1>2, <1>3, <1>4, <1>5, <1>6, <1>7, <1>8, <1>9, <1>10, <1>11, <1>12, <1>13, <1>14,
     <1>15, <1>16, <1>17, <1>18, <1>19, <1>20, <1>21 DEF CodeInv, CodeSafety

\* It opens a process, or cannot.
LEMMA CodeOpen == ASSUME CodeInv, NEW o \in Operations, Open(o) PROVE CodeInv' /\ RunsStay
<1>1. ASSUME NEW g \in Generations, OpensFor(o, g) PROVE CodeInv' /\ RunsStay
  BY <1>1, CodeOpensFor
<1>2. CASE Goes(o, "fail") /\ UNCHANGED <<linkVars, process>>
  BY <1>2, CodeOpenFails
<1> QED
  BY <1>1, <1>2 DEF Open, OpensFor

\* The process creates a conversation.
Creates(o, n) ==
    /\ job[o].stage = "thread"
    /\ session.thread = 0 \/ ~(session.fed)
    /\ n \notin native.threads /\ n # session.thread
    /\ native' = [native EXCEPT !.threads = @ \cup {n}]
    /\ process' = [process EXCEPT ![job[o].generation].thread = n]
    /\ job' = [job EXCEPT ![o].stage = "attach", ![o].thread = n]
    /\ UNCHANGED stored
    /\ UNCHANGED <<serverVars, storage, linkVars, hand, interrupter, deleter, helpers>>

\* It loads the one there is.
Resumes(o) ==
    /\ job[o].stage = "thread" /\ session.thread # 0
    /\ session.thread \in native.threads
    /\ process' = [process EXCEPT ![job[o].generation].thread = session.thread]
    /\ job' = [job EXCEPT ![o].stage = "attach", ![o].thread = session.thread]
    /\ UNCHANGED <<stored, native>>
    /\ UNCHANGED <<serverVars, storage, linkVars, hand, interrupter, deleter, helpers>>

\* It has loaded it already.
HasLoaded(o) ==
    /\ job[o].stage = "thread" /\ session.thread # 0
    /\ job' = [job EXCEPT ![o].stage = "attach", ![o].thread = 0]
    /\ UNCHANGED <<stored, native, process>>
    /\ UNCHANGED <<serverVars, storage, linkVars, hand, interrupter, deleter, helpers>>

\* A run that is to stop has no conversation made.
StopsUnthreaded(o) ==
    /\ job[o].stage = "thread" /\ session.thread = 0
    /\ IF Busy THEN Finish("interrupted") ELSE UNCHANGED stored
    /\ Goes(o, "final") /\ UNCHANGED <<native, process>>
    /\ UNCHANGED <<serverVars, storage, linkVars, hand, interrupter, deleter, helpers>>

\* The conversation cannot be had.
MissesThread(o) ==
    /\ job[o].stage = "thread" /\ Goes(o, "fail") /\ UNCHANGED <<stored, native, process>>
    /\ UNCHANGED <<serverVars, storage, linkVars, hand, interrupter, deleter, helpers>>

\* There is another conversation.
LEMMA CodeCreates == ASSUME CodeInv, NEW o \in Operations, NEW n \in 1..MaxThreads, Creates(o, n)
           PROVE CodeInv' /\ RunsStay
<1>1. UNCHANGED <<service, closer, crashes, storage, session, current, runs, prompt, sends,
   connection, loaded, events, hand, interrupter, deleter, halter, answerer>>
  BY DEF Creates, serverVars, stored, linkVars, helpers
<1>2. EventsFit' /\ Waiting' = Waiting
  BY <1>1 DEF CodeInv, EventsFit, Waiting
<1>3. job[o].stage = "thread"
  BY DEF Creates
<1>4. n \in 0..MaxThreads /\ n # 0
  BY Numbers
<1>5. /\ job' \in [Operations -> JobRecords]
      /\ job'[o].stage = "attach" /\ job'[o].thread = n
      /\ job'[o].generation = job[o].generation /\ job'[o].late = job[o].late
      /\ \A p \in Operations : p # o => job'[p] = job[p]
  <2>1. "attach" \in JobStages /\ n \in 0..MaxThreads
    BY <1>4 DEF JobStages
  <2>2. job \in [Operations -> JobRecords]
    BY CodeTypes DEF CodeInv, CodeSafety
  <2>3. TakesThread(o, "attach", n)
    BY Zenon DEF Creates, TakesThread
  <2> QED
    BY <2>1, <2>2, <2>3, JobLoads
<1>6. /\ process' \in [Generations -> ProcessRecords]
      /\ \A h \in Generations : process'[h].state = process[h].state
          /\ process'[h].begun = process[h].begun
  <2>1. n \in 0..MaxThreads /\ process \in [Generations -> ProcessRecords]
         /\ job[o].generation \in Generations
    BY <1>3, <1>4, CodeTypes, JobsHaveProcesses, Generated, Numbers DEF CodeInv, CodeSafety
  <2>2. process' = [process EXCEPT ![job[o].generation].thread = n]
    BY DEF Creates
  <2>3. /\ process' \in [Generations -> ProcessRecords]
        /\ process'[job[o].generation].state = process[job[o].generation].state
        /\ process'[job[o].generation].begun = process[job[o].generation].begun
        /\ \A p \in Generations : p # job[o].generation => process'[p] = process[p]
    BY <2>1, <2>2, ProcessLoads
  <2> QED
    BY <2>3
<1>7. /\ native' \in NativeRecords /\ native'.threads = native.threads \cup {n}
      /\ native'.turn = native.turn /\ native'.inputs = native.inputs
  <2>1. native \in NativeRecords /\ native' = [native EXCEPT !.threads = native.threads \cup {n}]
    BY CodeTypes DEF Creates, CodeInv, CodeSafety
  <2>2. native.threads \cup {n} \in SUBSET (1..MaxThreads)
    BY <2>1 DEF NativeRecords
  <2> QED
    BY <2>1, <2>2, ThreadsChange
<1>8. ~(session.fed)
  BY DEF Creates, CodeInv, FedFits
<1>9. CodeTypeOK'
  BY <1>1, <1>2, <1>3, <1>4, <1>5, <1>6, <1>7, <1>8, CodeTypes, Numbers DEF CodeInv, CodeSafety,
     CodeTypeOK, RunRecords, RunStatuses, PromptRecords, SendRecords, ProcessRecords,
     NativeRecords, JobRecords, SessionRecords, SessionStatuses, DeleterRecords, DeleterStages,
     AnswererRecords, InterrupterStages, Closers
<1>10. OneActiveRun' /\ DeletionIsDecided'
  BY <1>1, <1>2, PartsRest
<1>11. JobsFit'
  BY <1>1, <1>3, <1>4, <1>5, <1>7, <1>8, CodeTyped, Numbers DEF CodeInv, JobsFit, Unopened,
     Unfed, Connected
<1>12. CompletedIsOver'
  BY <1>1, <1>3, <1>4, <1>7, <1>8, CodeTypes, Numbers DEF CodeInv, CodeSafety, CompletedIsOver
<1>13. ProcessesAreOwned'
  BY <1>1, <1>3, <1>4, <1>5, <1>6, <1>8, CodeTypes DEF CodeInv, CodeSafety, ProcessesAreOwned,
     NobodyIsLate, HandsFit
<1>14. ClosedIsQuiet'
  BY <1>1, <1>3, <1>4, <1>5, <1>6, <1>8, CodeTypes DEF CodeInv, CodeSafety, ClosedIsQuiet,
     NobodyIsLate, Saves, Busy, ActiveStatuses
<1>15. ServiceFits'
  BY <1>1, <1>3, <1>4, <1>5, <1>8, CodeTyped DEF CodeInv, ServiceFits, Saves, Busy,
     ActiveStatuses
<1>16. FedFits'
  BY <1>1, <1>3, <1>4, <1>5, <1>7, <1>8, CodeTyped DEF CodeInv, FedFits
<1>17. TurnsFit'
  BY <1>1, <1>3, <1>4, <1>7, <1>8, CodeTyped DEF CodeInv, TurnsFit
<1>18. ProcessesFit'
  <2>1. \A p \in Operations : /\ job'[p].generation = job[p].generation
                             /\ native'.turn[p] = native.turn[p]
    BY <1>1, <1>5, <1>7
  <2>2. \A g \in Generations : /\ process'[g].state = process[g].state
                              /\ process'[g].begun = process[g].begun
    BY <1>6
  <2> QED
    BY <1>1, <2>1, <2>2, Generated, Numbers DEF CodeInv, ProcessesFit
<1>19. HandsFit'
  BY <1>1, <1>3, <1>4, <1>5, <1>8, CodeTyped, TaskNames, Numbers DEF CodeInv, HandsFit
<1>20. EventsAreTrue'
  BY <1>1, <1>2, <1>3, <1>4, <1>5, <1>6, <1>7, <1>8, CodeTyped, EventsOf, Generated, Numbers DEF
     CodeInv, EventsAreTrue, Busy, IsActive, ActiveStatuses
<1>21. StartsAreActive'
  BY <1>1, <1>3, <1>4, <1>5, <1>8, CodeTyped, JobsHaveProcesses DEF CodeInv, StartsAreActive,
     Busy, IsActive, ActiveStatuses
<1>22. OpeningIsUnasked'
  BY <1>1, <1>3, <1>4, <1>5, <1>6, <1>8, CodeTyped, Generated, Numbers DEF CodeInv,
     OpeningIsUnasked, PromptOpen, Opening, Busy, ActiveStatuses
<1>23. AnswererFits'
  BY <1>1, <1>2, <1>3, <1>4, <1>5, <1>8, CodeTyped, AnswererOf, JobsHaveProcesses DEF CodeInv,
     AnswererFits, Unopened, Connected
<1>24. ShutFits'
  BY <1>1, <1>2, <1>3, <1>4, <1>5, <1>8, CodeTyped, JobsHaveProcesses DEF CodeInv, ShutFits
<1>25. PlaceIsFree'
  BY <1>1, <1>3, <1>4, <1>5, <1>8, CodeTyped DEF CodeInv, PlaceIsFree, NobodyIsLate, Opening,
     Connected
<1>26. GoneStays'
  BY <1>1, <1>3, <1>4, <1>5, <1>7, <1>8, CodeTyped, JobsHaveProcesses DEF CodeInv, GoneStays
<1>27. DeletedIsGone'
  BY <1>26 DEF DeletedIsGone, GoneStays
<1>28. InputNeverResent'
  BY <1>11 DEF InputNeverResent, JobsFit
<1>29. RunsStay
  BY <1>1 DEF RunsStay
<1> QED
  BY <1>1, <1>2, <1>3, <1>4, <1>5, <1>6, <1>7, <1>8, <1>9, <1>10, <1>11, <1>12, <1>13, <1>14,
     <1>15, <1>16, <1>17, <1>18, <1>19, <1>20, <1>21, <1>22, <1>23, <1>24, <1>25, <1>26, <1>27,
     <1>28, <1>29 DEF CodeInv, CodeSafety

\* It is loaded.
LEMMA CodeResumes == ASSUME CodeInv, NEW o \in Operations, Resumes(o) PROVE CodeInv' /\ RunsStay
<1>1. UNCHANGED <<service, closer, crashes, storage, session, current, runs, prompt, sends,
   connection, loaded, events, native, hand, interrupter, deleter, halter, answerer>>
  BY DEF Resumes, serverVars, stored, linkVars, helpers
<1>2. EventsFit' /\ Waiting' = Waiting
  BY <1>1 DEF CodeInv, EventsFit, Waiting
<1>3. job[o].stage = "thread" /\ session.thread # 0 /\ session.thread \in native.threads
  BY DEF Resumes
<1>4. session.thread \in 0..MaxThreads
  BY CodeTypes DEF CodeInv, CodeSafety, SessionRecords
<1>5. /\ job' \in [Operations -> JobRecords]
      /\ job'[o].stage = "attach" /\ job'[o].thread = session.thread
      /\ job'[o].generation = job[o].generation /\ job'[o].late = job[o].late
      /\ \A p \in Operations : p # o => job'[p] = job[p]
  <2>1. "attach" \in JobStages /\ session.thread \in 0..MaxThreads
    BY <1>4 DEF JobStages
  <2>2. job \in [Operations -> JobRecords]
    BY CodeTypes DEF CodeInv, CodeSafety
  <2>3. TakesThread(o, "attach", session.thread)
    BY Zenon DEF Resumes, TakesThread
  <2> QED
    BY <2>1, <2>2, <2>3, JobLoads
<1>6. /\ process' \in [Generations -> ProcessRecords]
      /\ \A h \in Generations : process'[h].state = process[h].state
          /\ process'[h].begun = process[h].begun
  <2>1. session.thread \in 0..MaxThreads /\ process \in [Generations -> ProcessRecords]
         /\ job[o].generation \in Generations
    BY <1>3, <1>4, CodeTypes, JobsHaveProcesses, Generated, Numbers DEF CodeInv, CodeSafety
  <2>2. process' = [process EXCEPT ![job[o].generation].thread = session.thread]
    BY DEF Resumes
  <2>3. /\ process' \in [Generations -> ProcessRecords]
        /\ process'[job[o].generation].state = process[job[o].generation].state
        /\ process'[job[o].generation].begun = process[job[o].generation].begun
        /\ \A p \in Generations : p # job[o].generation => process'[p] = process[p]
    BY <2>1, <2>2, ProcessLoads
  <2> QED
    BY <2>3
<1>7. CodeTypeOK'
  BY <1>1, <1>2, <1>3, <1>4, <1>5, <1>6, CodeTypes, Numbers DEF CodeInv, CodeSafety, CodeTypeOK,
     RunRecords, RunStatuses, PromptRecords, SendRecords, ProcessRecords, NativeRecords,
     JobRecords, SessionRecords, SessionStatuses, DeleterRecords, DeleterStages, AnswererRecords,
     InterrupterStages, Closers
<1>8. OneActiveRun' /\ CompletedIsOver' /\ DeletionIsDecided' /\ TurnsFit' /\ DeletedIsGone' /\
   InputNeverResent'
  BY <1>1, <1>2, PartsRest
<1>9. JobsFit'
  BY <1>1, <1>3, <1>4, <1>5, CodeTyped, Numbers DEF CodeInv, JobsFit, Unopened, Unfed, Connected
<1>10. ProcessesAreOwned'
  BY <1>1, <1>3, <1>4, <1>5, <1>6, CodeTypes DEF CodeInv, CodeSafety, ProcessesAreOwned,
     NobodyIsLate, HandsFit
<1>11. ClosedIsQuiet'
  BY <1>1, <1>3, <1>4, <1>5, <1>6, CodeTypes DEF CodeInv, CodeSafety, ClosedIsQuiet,
     NobodyIsLate, Saves, Busy, ActiveStatuses
<1>12. ServiceFits'
  BY <1>1, <1>3, <1>4, <1>5, CodeTyped DEF CodeInv, ServiceFits, Saves, Busy, ActiveStatuses
<1>13. FedFits'
  BY <1>1, <1>3, <1>4, <1>5, CodeTyped DEF CodeInv, FedFits
<1>14. ProcessesFit'
  <2>1. \A p \in Operations : /\ job'[p].generation = job[p].generation
                             /\ native'.turn[p] = native.turn[p]
    BY <1>1, <1>5
  <2>2. \A g \in Generations : /\ process'[g].state = process[g].state
                              /\ process'[g].begun = process[g].begun
    BY <1>6
  <2> QED
    BY <1>1, <2>1, <2>2, Generated, Numbers DEF CodeInv, ProcessesFit
<1>15. HandsFit'
  BY <1>1, <1>3, <1>4, <1>5, CodeTyped, TaskNames, Numbers DEF CodeInv, HandsFit
<1>16. EventsAreTrue'
  BY <1>1, <1>2, <1>3, <1>4, <1>5, <1>6, CodeTyped, EventsOf, Generated, Numbers DEF CodeInv,
     EventsAreTrue, Busy, IsActive, ActiveStatuses
<1>17. StartsAreActive'
  BY <1>1, <1>3, <1>4, <1>5, CodeTyped, JobsHaveProcesses DEF CodeInv, StartsAreActive, Busy,
     IsActive, ActiveStatuses
<1>18. OpeningIsUnasked'
  BY <1>1, <1>3, <1>4, <1>5, <1>6, CodeTyped, Generated, Numbers DEF CodeInv, OpeningIsUnasked,
     PromptOpen, Opening, Busy, ActiveStatuses
<1>19. AnswererFits'
  BY <1>1, <1>2, <1>3, <1>4, <1>5, CodeTyped, AnswererOf, JobsHaveProcesses DEF CodeInv,
     AnswererFits, Unopened, Connected
<1>20. ShutFits'
  BY <1>1, <1>2, <1>3, <1>4, <1>5, CodeTyped, JobsHaveProcesses DEF CodeInv, ShutFits
<1>21. PlaceIsFree'
  BY <1>1, <1>3, <1>4, <1>5, CodeTyped DEF CodeInv, PlaceIsFree, NobodyIsLate, Opening, Connected
<1>22. GoneStays'
  BY <1>1, <1>3, <1>4, <1>5, CodeTyped, JobsHaveProcesses DEF CodeInv, GoneStays
<1>23. RunsStay
  BY <1>1 DEF RunsStay
<1> QED
  BY <1>1, <1>2, <1>3, <1>4, <1>5, <1>6, <1>7, <1>8, <1>9, <1>10, <1>11, <1>12, <1>13, <1>14,
     <1>15, <1>16, <1>17, <1>18, <1>19, <1>20, <1>21, <1>22, <1>23 DEF CodeInv, CodeSafety

\* Nothing has to be saved of it.
LEMMA CodeHasLoaded == ASSUME CodeInv, NEW o \in Operations, HasLoaded(o) PROVE CodeInv' /\
           RunsStay
<1>1. UNCHANGED <<service, closer, crashes, storage, session, current, runs, prompt, sends,
   connection, loaded, events, process, native, hand, interrupter, deleter, halter, answerer>>
  BY DEF HasLoaded, serverVars, stored, linkVars, helpers
<1>2. EventsFit' /\ Waiting' = Waiting
  BY <1>1 DEF CodeInv, EventsFit, Waiting
<1>3. job[o].stage = "thread" /\ session.thread # 0
  BY DEF HasLoaded
<1>4. /\ job' \in [Operations -> JobRecords]
      /\ job'[o].stage = "attach" /\ job'[o].thread = 0
      /\ job'[o].generation = job[o].generation /\ job'[o].late = job[o].late
      /\ \A p \in Operations : p # o => job'[p] = job[p]
  <2>1. "attach" \in JobStages /\ 0 \in 0..MaxThreads
    BY Numbers DEF JobStages
  <2>2. job \in [Operations -> JobRecords]
    BY CodeTypes DEF CodeInv, CodeSafety
  <2>3. TakesThread(o, "attach", 0)
    BY Zenon DEF HasLoaded, TakesThread
  <2> QED
    BY <2>1, <2>2, <2>3, JobLoads
<1>5. CodeTypeOK'
  BY <1>1, <1>2, <1>3, <1>4, CodeTypes, Numbers DEF CodeInv, CodeSafety, CodeTypeOK, RunRecords,
     RunStatuses, PromptRecords, SendRecords, ProcessRecords, NativeRecords, JobRecords,
     SessionRecords, SessionStatuses, DeleterRecords, DeleterStages, AnswererRecords,
     InterrupterStages, Closers
<1>6. OneActiveRun' /\ CompletedIsOver' /\ DeletionIsDecided' /\ TurnsFit' /\ DeletedIsGone' /\
   InputNeverResent'
  BY <1>1, <1>2, PartsRest
<1>7. JobsFit'
  BY <1>1, <1>3, <1>4, CodeTyped, Numbers DEF CodeInv, JobsFit, Unopened, Unfed, Connected
<1>8. ProcessesAreOwned'
  BY <1>1, <1>3, <1>4, CodeTypes DEF CodeInv, CodeSafety, ProcessesAreOwned, NobodyIsLate,
     HandsFit
<1>9. ClosedIsQuiet'
  BY <1>1, <1>3, <1>4, CodeTypes DEF CodeInv, CodeSafety, ClosedIsQuiet, NobodyIsLate, Saves,
     Busy, ActiveStatuses
<1>10. ServiceFits'
  BY <1>1, <1>3, <1>4, CodeTyped DEF CodeInv, ServiceFits, Saves, Busy, ActiveStatuses
<1>11. FedFits'
  BY <1>1, <1>3, <1>4, CodeTyped DEF CodeInv, FedFits
<1>12. ProcessesFit'
  BY <1>1, <1>3, <1>4, CodeTyped, Numbers, TaskNames, Generated DEF CodeInv, ProcessesFit
<1>13. HandsFit'
  BY <1>1, <1>3, <1>4, CodeTyped, TaskNames, Numbers DEF CodeInv, HandsFit
<1>14. EventsAreTrue'
  BY <1>1, <1>2, <1>3, <1>4, CodeTyped, EventsOf, Generated, Numbers DEF CodeInv, EventsAreTrue,
     Busy, IsActive, ActiveStatuses
<1>15. StartsAreActive'
  BY <1>1, <1>3, <1>4, CodeTyped, JobsHaveProcesses DEF CodeInv, StartsAreActive, Busy, IsActive,
     ActiveStatuses
<1>16. OpeningIsUnasked'
  BY <1>1, <1>3, <1>4, CodeTyped, Generated, Numbers DEF CodeInv, OpeningIsUnasked, PromptOpen,
     Opening, Busy, ActiveStatuses
<1>17. AnswererFits'
  BY <1>1, <1>2, <1>3, <1>4, CodeTyped, AnswererOf, JobsHaveProcesses DEF CodeInv, AnswererFits,
     Unopened, Connected
<1>18. ShutFits'
  BY <1>1, <1>2, <1>3, <1>4, CodeTyped, JobsHaveProcesses DEF CodeInv, ShutFits
<1>19. PlaceIsFree'
  BY <1>1, <1>3, <1>4, CodeTyped DEF CodeInv, PlaceIsFree, NobodyIsLate, Opening, Connected
<1>20. GoneStays'
  BY <1>1, <1>3, <1>4, CodeTyped, JobsHaveProcesses DEF CodeInv, GoneStays
<1>21. RunsStay
  BY <1>1 DEF RunsStay
<1> QED
  BY <1>1, <1>2, <1>3, <1>4, <1>5, <1>6, <1>7, <1>8, <1>9, <1>10, <1>11, <1>12, <1>13, <1>14,
     <1>15, <1>16, <1>17, <1>18, <1>19, <1>20, <1>21 DEF CodeInv, CodeSafety

\* The run is finished.
LEMMA CodeStopsUnthreaded == ASSUME CodeInv, NEW o \in Operations, StopsUnthreaded(o), Busy PROVE
           CodeInv' /\ RunsStay
<1>1. UNCHANGED <<service, closer, crashes, storage, session, current, connection, loaded,
   events, process, native, hand, interrupter, deleter, halter, answerer>>
  BY DEF StopsUnthreaded, Finish, serverVars, stored, linkVars, helpers
<1>2. EventsFit' /\ Waiting' = Waiting
  BY <1>1 DEF CodeInv, EventsFit, Waiting
<1>3. job[o].stage = "thread" /\ session.thread = 0
  BY DEF StopsUnthreaded
<1>4. /\ job' \in [Operations -> JobRecords]
      /\ job'[o].stage = "final" /\ job'[o].generation = job[o].generation
      /\ job'[o].thread = job[o].thread /\ job'[o].late = job[o].late
      /\ \A p \in Operations : p # o => job'[p] = job[p]
  <2>1. "final" \in JobStages /\ Goes(o, "final")
    BY DEF StopsUnthreaded, JobStages
  <2> QED
    BY <2>1, CodeTypes, JobGoes DEF CodeInv, CodeSafety
<1>5. current \in Operations
  BY CodeTypes DEF Busy, CodeInv, CodeSafety
<1>6. /\ runs' \in [Operations -> RunRecords]
      /\ runs'[current].status \in {"interrupted", "failed"}
          /\ runs'[current].turn = runs[current].turn
      /\ \A p \in Operations : p # current => runs'[p] = runs[p]
      /\ prompt' \in {prompt, NoPrompt} /\ prompt' \in PromptRecords
      /\ sends' \in [Senders -> SendRecords]
      /\ session' = session /\ current' = current
  <2>1. PICK s \in {"interrupted", "failed"} : Finish(s)
    BY DEF StopsUnthreaded
  <2>2. s \in FinalStatuses
    BY <2>1 DEF FinalStatuses
  <2> QED
    BY <1>5, <2>1, <2>2, RunFinishes DEF CodeInv, CodeSafety
<1>7. \A e \in Waiting : e.kind = "started" => runs[e.of].turn = e.of
  BY <1>3, EventsOf DEF CodeInv, EventsAreTrue, FedFits
<1>8. \A p \in Operations : job[p].stage = "start" => connection # job[p].generation
  BY <1>3 DEF CodeInv, FedFits
<1>9. NoPrompt.status = "none" /\ NoPrompt.generation = 0 /\ NoPrompt.turn = 0
  BY PromptIsNone
<1>10. CodeTypeOK'
  BY <1>1, <1>2, <1>3, <1>4, <1>5, <1>6, <1>7, <1>8, <1>9, CodeTypes, Numbers DEF CodeInv,
     CodeSafety, CodeTypeOK, RunRecords, RunStatuses, PromptRecords, SendRecords, ProcessRecords,
     NativeRecords, JobRecords, SessionRecords, SessionStatuses, DeleterRecords, DeleterStages,
     AnswererRecords, InterrupterStages, Closers
<1>11. DeletionIsDecided' /\ DeletedIsGone' /\ InputNeverResent'
  BY <1>1, <1>2, PartsRest
<1>12. JobsFit'
  BY <1>1, <1>3, <1>4, <1>5, <1>6, <1>7, <1>8, CodeTyped, Numbers DEF CodeInv, JobsFit, Busy,
     ActiveStatuses, Unopened, Unfed, Connected
<1>13. OneActiveRun'
  BY <1>1, <1>3, <1>5, <1>6, <1>7, <1>8, CodeTypes, Numbers DEF CodeInv, CodeSafety,
     OneActiveRun, Busy, ActiveStatuses
<1>14. CompletedIsOver'
  BY <1>1, <1>3, <1>5, <1>6, <1>7, <1>8, CodeTypes, Numbers DEF CodeInv, CodeSafety,
     CompletedIsOver
<1>15. ProcessesAreOwned'
  BY <1>1, <1>3, <1>4, <1>5, <1>7, <1>8, CodeTypes DEF CodeInv, CodeSafety, ProcessesAreOwned,
     NobodyIsLate, HandsFit
<1>16. ClosedIsQuiet'
  BY <1>1, <1>3, <1>4, <1>5, <1>6, <1>7, <1>8, CodeTypes DEF CodeInv, CodeSafety, ClosedIsQuiet,
     NobodyIsLate, Saves, Busy, ActiveStatuses
<1>17. ServiceFits'
  BY <1>1, <1>3, <1>4, <1>5, <1>6, <1>7, <1>8, CodeTyped DEF CodeInv, ServiceFits, Saves, Busy,
     ActiveStatuses
<1>18. FedFits'
  BY <1>1, <1>3, <1>4, <1>5, <1>6, <1>7, <1>8, CodeTyped DEF CodeInv, FedFits
<1>19. TurnsFit'
  BY <1>1, <1>3, <1>5, <1>6, <1>7, <1>8, CodeTyped DEF CodeInv, TurnsFit
<1>20. ProcessesFit'
  BY <1>1, <1>3, <1>4, <1>5, <1>6, <1>7, <1>8, <1>9, CodeTyped, Numbers, TaskNames, Generated DEF
     CodeInv, ProcessesFit
<1>21. HandsFit'
  BY <1>1, <1>3, <1>4, <1>5, <1>7, <1>8, CodeTyped, TaskNames, Numbers DEF CodeInv, HandsFit
<1>22. EventsAreTrue'
  BY <1>1, <1>2, <1>3, <1>4, <1>5, <1>6, <1>7, <1>8, CodeTyped, EventsOf, Generated, Numbers DEF
     CodeInv, EventsAreTrue, Busy, IsActive, ActiveStatuses
<1>23. StartsAreActive'
  BY <1>1, <1>3, <1>4, <1>5, <1>6, <1>7, <1>8, CodeTyped, JobsHaveProcesses DEF CodeInv,
     StartsAreActive, Busy, IsActive, ActiveStatuses
<1>24. OpeningIsUnasked'
  BY <1>1, <1>3, <1>4, <1>5, <1>6, <1>7, <1>8, <1>9, CodeTyped, Generated, Numbers DEF CodeInv,
     OpeningIsUnasked, PromptOpen, Opening, Busy, ActiveStatuses
<1>25. AnswererFits'
  BY <1>1, <1>2, <1>3, <1>4, <1>5, <1>7, <1>8, CodeTyped, AnswererOf, JobsHaveProcesses DEF
     CodeInv, AnswererFits, Unopened, Connected
<1>26. ShutFits'
  BY <1>1, <1>2, <1>3, <1>4, <1>5, <1>7, <1>8, CodeTyped, JobsHaveProcesses DEF CodeInv, ShutFits
<1>27. PlaceIsFree'
  BY <1>1, <1>3, <1>4, <1>5, <1>6, <1>7, <1>8, CodeTyped DEF CodeInv, PlaceIsFree, NobodyIsLate,
     Opening, Connected
<1>28. GoneStays'
  BY <1>1, <1>3, <1>4, <1>5, <1>6, <1>7, <1>8, CodeTyped, JobsHaveProcesses DEF CodeInv,
     GoneStays
<1>29. RunsStay
  BY <1>1, <1>2, <1>3, <1>4, <1>5, <1>6, <1>7, <1>8, <1>9, CodeTypes DEF CodeInv, CodeSafety,
     RunsStay, CompletedIsOver, OneActiveRun, Busy, ActiveStatuses, FinalStatuses
<1> QED
  BY <1>1, <1>2, <1>3, <1>4, <1>5, <1>6, <1>7, <1>8, <1>9, <1>10, <1>11, <1>12, <1>13, <1>14,
     <1>15, <1>16, <1>17, <1>18, <1>19, <1>20, <1>21, <1>22, <1>23, <1>24, <1>25, <1>26, <1>27,
     <1>28, <1>29 DEF CodeInv, CodeSafety

\* It is over already.
LEMMA CodeStopsAlready == ASSUME CodeInv, NEW o \in Operations, StopsUnthreaded(o), ~Busy PROVE
           CodeInv' /\ RunsStay
<1>1. UNCHANGED <<service, closer, crashes, storage, session, current, runs, prompt, sends,
   connection, loaded, events, process, native, hand, interrupter, deleter, halter, answerer>>
  BY DEF StopsUnthreaded, serverVars, stored, linkVars, helpers
<1>2. EventsFit' /\ Waiting' = Waiting
  BY <1>1 DEF CodeInv, EventsFit, Waiting
<1>3. job[o].stage = "thread"
  BY DEF StopsUnthreaded
<1>4. /\ job' \in [Operations -> JobRecords]
      /\ job'[o].stage = "final" /\ job'[o].generation = job[o].generation
      /\ job'[o].thread = job[o].thread /\ job'[o].late = job[o].late
      /\ \A p \in Operations : p # o => job'[p] = job[p]
  <2>1. "final" \in JobStages /\ Goes(o, "final")
    BY DEF StopsUnthreaded, JobStages
  <2> QED
    BY <2>1, CodeTypes, JobGoes DEF CodeInv, CodeSafety
<1>5. CodeTypeOK'
  BY <1>1, <1>2, <1>3, <1>4, CodeTypes, Numbers DEF CodeInv, CodeSafety, CodeTypeOK, RunRecords,
     RunStatuses, PromptRecords, SendRecords, ProcessRecords, NativeRecords, JobRecords,
     SessionRecords, SessionStatuses, DeleterRecords, DeleterStages, AnswererRecords,
     InterrupterStages, Closers
<1>6. OneActiveRun' /\ CompletedIsOver' /\ DeletionIsDecided' /\ TurnsFit' /\ DeletedIsGone' /\
   InputNeverResent'
  BY <1>1, <1>2, PartsRest
<1>7. JobsFit'
  BY <1>1, <1>3, <1>4, CodeTyped, Numbers DEF CodeInv, JobsFit, Busy, ActiveStatuses, Unopened,
     Unfed, Connected
<1>8. ProcessesAreOwned'
  BY <1>1, <1>3, <1>4, CodeTypes DEF CodeInv, CodeSafety, ProcessesAreOwned, NobodyIsLate,
     HandsFit
<1>9. ClosedIsQuiet'
  BY <1>1, <1>3, <1>4, CodeTypes DEF CodeInv, CodeSafety, ClosedIsQuiet, NobodyIsLate, Saves,
     Busy, ActiveStatuses
<1>10. ServiceFits'
  BY <1>1, <1>3, <1>4, CodeTyped DEF CodeInv, ServiceFits, Saves, Busy, ActiveStatuses
<1>11. FedFits'
  BY <1>1, <1>3, <1>4, CodeTyped DEF CodeInv, FedFits
<1>12. ProcessesFit'
  BY <1>1, <1>3, <1>4, CodeTyped, Numbers, TaskNames, Generated DEF CodeInv, ProcessesFit
<1>13. HandsFit'
  BY <1>1, <1>3, <1>4, CodeTyped, TaskNames, Numbers DEF CodeInv, HandsFit
<1>14. EventsAreTrue'
  BY <1>1, <1>2, <1>3, <1>4, CodeTyped, EventsOf, Generated, Numbers DEF CodeInv, EventsAreTrue,
     Busy, IsActive, ActiveStatuses
<1>15. StartsAreActive'
  BY <1>1, <1>3, <1>4, CodeTyped, JobsHaveProcesses DEF CodeInv, StartsAreActive, Busy, IsActive,
     ActiveStatuses
<1>16. OpeningIsUnasked'
  BY <1>1, <1>3, <1>4, CodeTyped, Generated, Numbers DEF CodeInv, OpeningIsUnasked, PromptOpen,
     Opening, Busy, ActiveStatuses
<1>17. AnswererFits'
  BY <1>1, <1>2, <1>3, <1>4, CodeTyped, AnswererOf, JobsHaveProcesses DEF CodeInv, AnswererFits,
     Unopened, Connected
<1>18. ShutFits'
  BY <1>1, <1>2, <1>3, <1>4, CodeTyped, JobsHaveProcesses DEF CodeInv, ShutFits
<1>19. PlaceIsFree'
  BY <1>1, <1>3, <1>4, CodeTyped DEF CodeInv, PlaceIsFree, NobodyIsLate, Opening, Connected
<1>20. GoneStays'
  BY <1>1, <1>3, <1>4, CodeTyped, JobsHaveProcesses DEF CodeInv, GoneStays
<1>21. RunsStay
  BY <1>1 DEF RunsStay
<1> QED
  BY <1>1, <1>2, <1>3, <1>4, <1>5, <1>6, <1>7, <1>8, <1>9, <1>10, <1>11, <1>12, <1>13, <1>14,
     <1>15, <1>16, <1>17, <1>18, <1>19, <1>20, <1>21 DEF CodeInv, CodeSafety

\* The task fails.
LEMMA CodeMissesThread == ASSUME CodeInv, NEW o \in Operations, MissesThread(o) PROVE CodeInv' /\
           RunsStay
<1>1. UNCHANGED <<service, closer, crashes, storage, session, current, runs, prompt, sends,
   connection, loaded, events, process, native, hand, interrupter, deleter, halter, answerer>>
  BY DEF MissesThread, serverVars, stored, linkVars, helpers
<1>2. EventsFit' /\ Waiting' = Waiting
  BY <1>1 DEF CodeInv, EventsFit, Waiting
<1>3. job[o].stage = "thread"
  BY DEF MissesThread
<1>4. /\ job' \in [Operations -> JobRecords]
      /\ job'[o].stage = "fail" /\ job'[o].generation = job[o].generation
      /\ job'[o].thread = job[o].thread /\ job'[o].late = job[o].late
      /\ \A p \in Operations : p # o => job'[p] = job[p]
  <2>1. "fail" \in JobStages /\ Goes(o, "fail")
    BY DEF MissesThread, JobStages
  <2> QED
    BY <2>1, CodeTypes, JobGoes DEF CodeInv, CodeSafety
<1>5. CodeTypeOK'
  BY <1>1, <1>2, <1>3, <1>4, CodeTypes, Numbers DEF CodeInv, CodeSafety, CodeTypeOK, RunRecords,
     RunStatuses, PromptRecords, SendRecords, ProcessRecords, NativeRecords, JobRecords,
     SessionRecords, SessionStatuses, DeleterRecords, DeleterStages, AnswererRecords,
     InterrupterStages, Closers
<1>6. OneActiveRun' /\ CompletedIsOver' /\ DeletionIsDecided' /\ TurnsFit' /\ DeletedIsGone' /\
   InputNeverResent'
  BY <1>1, <1>2, PartsRest
<1>7. JobsFit'
  BY <1>1, <1>3, <1>4, CodeTyped, Numbers DEF CodeInv, JobsFit, Unopened, Unfed, Connected
<1>8. ProcessesAreOwned'
  BY <1>1, <1>3, <1>4, CodeTypes DEF CodeInv, CodeSafety, ProcessesAreOwned, NobodyIsLate,
     HandsFit
<1>9. ClosedIsQuiet'
  BY <1>1, <1>3, <1>4, CodeTypes DEF CodeInv, CodeSafety, ClosedIsQuiet, NobodyIsLate, Saves,
     Busy, ActiveStatuses
<1>10. ServiceFits'
  BY <1>1, <1>3, <1>4, CodeTyped DEF CodeInv, ServiceFits, Saves, Busy, ActiveStatuses
<1>11. FedFits'
  BY <1>1, <1>3, <1>4, CodeTyped DEF CodeInv, FedFits
<1>12. ProcessesFit'
  BY <1>1, <1>3, <1>4, CodeTyped, Numbers, TaskNames, Generated DEF CodeInv, ProcessesFit
<1>13. HandsFit'
  BY <1>1, <1>3, <1>4, CodeTyped, TaskNames, Numbers DEF CodeInv, HandsFit
<1>14. EventsAreTrue'
  BY <1>1, <1>2, <1>3, <1>4, CodeTyped, EventsOf, Generated, Numbers DEF CodeInv, EventsAreTrue,
     Busy, IsActive, ActiveStatuses
<1>15. StartsAreActive'
  BY <1>1, <1>3, <1>4, CodeTyped, JobsHaveProcesses DEF CodeInv, StartsAreActive, Busy, IsActive,
     ActiveStatuses
<1>16. OpeningIsUnasked'
  BY <1>1, <1>3, <1>4, CodeTyped, Generated, Numbers DEF CodeInv, OpeningIsUnasked, PromptOpen,
     Opening, Busy, ActiveStatuses
<1>17. AnswererFits'
  BY <1>1, <1>2, <1>3, <1>4, CodeTyped, AnswererOf, JobsHaveProcesses DEF CodeInv, AnswererFits,
     Unopened, Connected
<1>18. ShutFits'
  BY <1>1, <1>2, <1>3, <1>4, CodeTyped, JobsHaveProcesses DEF CodeInv, ShutFits
<1>19. PlaceIsFree'
  BY <1>1, <1>3, <1>4, CodeTyped DEF CodeInv, PlaceIsFree, NobodyIsLate, Opening, Connected
<1>20. GoneStays'
  BY <1>1, <1>3, <1>4, CodeTyped, JobsHaveProcesses DEF CodeInv, GoneStays
<1>21. RunsStay
  BY <1>1 DEF RunsStay
<1> QED
  BY <1>1, <1>2, <1>3, <1>4, <1>5, <1>6, <1>7, <1>8, <1>9, <1>10, <1>11, <1>12, <1>13, <1>14,
     <1>15, <1>16, <1>17, <1>18, <1>19, <1>20, <1>21 DEF CodeInv, CodeSafety

\* The conversation of the session is made or loaded, or the task does without.
LEMMA CodeThread == ASSUME CodeInv, NEW o \in Operations, Thread(o) PROVE CodeInv' /\ RunsStay
<1>1. ASSUME NEW n \in 1..MaxThreads, Creates(o, n) PROVE CodeInv' /\ RunsStay
  BY <1>1, CodeCreates
<1>2. ASSUME Resumes(o) \/ HasLoaded(o) \/ MissesThread(o) PROVE CodeInv' /\ RunsStay
  BY <1>2, CodeResumes, CodeHasLoaded, CodeMissesThread
<1>3. ASSUME StopsUnthreaded(o) PROVE CodeInv' /\ RunsStay
  BY <1>3, CodeStopsUnthreaded, CodeStopsAlready
<1> QED
  BY <1>1, <1>2, <1>3 DEF Thread, Creates, Resumes, HasLoaded, StopsUnthreaded, MissesThread

\* The conversation of a task that attaches it: its own, or the session's.
ThreadOf(o) == IF job[o].thread = 0 THEN session.thread ELSE job[o].thread

\* There is one.
LEMMA ThreadIsThere ==
    ASSUME CodeInv, NEW o \in Operations, job[o].stage = "attach"
    PROVE  ThreadOf(o) \in 0..MaxThreads /\ ThreadOf(o) # 0
  BY CodeTypes DEF CodeInv, CodeSafety, JobRecords, SessionRecords, JobsFit, ThreadOf

\* The run is over: what the conversation tells is saved all the same.
AttachesOver(o) ==
    /\ job[o].stage = "attach" /\ connection = job[o].generation /\ ~IsActive(o)
    /\ loaded' = (IF job[o].thread = 0 THEN loaded ELSE job[o].thread)
    /\ runs' = Recovered(job[o].thread) /\ session' = [session EXCEPT !.thread = ThreadOf(o)]
    /\ Goes(o, "final")
    /\ UNCHANGED <<current, prompt, sends>>
    /\ UNCHANGED <<serverVars, storage, connection, events, process, native, hand, interrupter,
                   deleter, helpers>>

\* It is to stop: nothing is given away.
AttachesStopped(o) ==
    /\ job[o].stage = "attach" /\ connection = job[o].generation /\ IsActive(o)
    /\ loaded' = (IF job[o].thread = 0 THEN loaded ELSE job[o].thread)
    /\ runs' = [Recovered(job[o].thread) EXCEPT ![o].status = "interrupted"]
    /\ session' = [session EXCEPT !.thread = ThreadOf(o)]
    /\ Goes(o, "final") /\ sends' = Stale
    /\ UNCHANGED <<current, prompt>>
    /\ UNCHANGED <<serverVars, storage, connection, events, process, native, hand, interrupter,
                   deleter, helpers>>

\* Its input is about to be given away.
AttachesActive(o) ==
    /\ job[o].stage = "attach" /\ connection = job[o].generation /\ IsActive(o)
    /\ service = "up"
    /\ loaded' = (IF job[o].thread = 0 THEN loaded ELSE job[o].thread)
    /\ runs' = [Recovered(job[o].thread) EXCEPT ![o].submitted = TRUE]
    /\ FeedsSession(ThreadOf(o), TRUE)
    /\ Goes(o, "start")
    /\ UNCHANGED <<current, prompt, sends>>
    /\ UNCHANGED <<serverVars, storage, connection, events, process, native, hand, interrupter,
                   deleter, helpers>>

\* What recovery and one more change do to the runs.
LEMMA RecoveredChanges ==
    ASSUME CodeTypeOK, NEW t, NEW o \in Operations, NEW s \in RunStatuses,
           runs' = [Recovered(t) EXCEPT ![o].status = s]
    PROVE  /\ runs' \in [Operations -> RunRecords]
           /\ runs'[o].status = s
           /\ \A p \in Operations :
                  /\ p # o => runs'[p].status = runs[p].status
                  /\ runs'[p].turn = runs[p].turn \/ (runs'[p].turn = p /\ native.turn[p] # 0)
<1> DEFINE R == Recovered(t)
<1>1. /\ R \in [Operations -> RunRecords]
      /\ \A p \in Operations : /\ R[p].status = runs[p].status
                               /\ R[p].turn = runs[p].turn \/ (R[p].turn = p
                                   /\ native.turn[p] # 0)
  BY RunsRecovered
<1>2. runs' = [R EXCEPT ![o].status = s]
  OBVIOUS
<1> HIDE DEF R
<1> DEFINE r == [status |-> s, stop |-> R[o].stop, submitted |-> R[o].submitted,
    turn |-> R[o].turn]
<1>3. [R[o] EXCEPT !.status = s] = r /\ r \in RunRecords
  BY <1>1 DEF RunRecords
<1>4. runs' = [R EXCEPT ![o] = r]
  BY <1>2, <1>3
<1>5. r.status = s /\ r.turn = R[o].turn
  OBVIOUS
<1> HIDE DEF r
<1>6. runs' \in [Operations -> RunRecords] /\ runs'[o] = r
  BY <1>1, <1>3, <1>4
<1>7. \A p \in Operations : p # o => runs'[p] = R[p]
  BY <1>1, <1>4
<1>8. ASSUME NEW p \in Operations
      PROVE  runs'[p].turn = R[p].turn /\ (p # o => runs'[p].status = R[p].status)
  <2>1. CASE p = o
    BY <1>5, <1>6, <2>1
  <2>2. CASE p # o
    BY <1>7, <2>2
  <2> QED
    BY <2>1, <2>2
<1>9. \A p \in Operations :
          /\ p # o => runs'[p].status = runs[p].status
          /\ runs'[p].turn = runs[p].turn \/ (runs'[p].turn = p /\ native.turn[p] # 0)
  BY <1>1, <1>8
<1> QED
  BY <1>5, <1>6, <1>9

\* The mark of the submission changes nothing else.
LEMMA RecoveredSubmits ==
    ASSUME CodeTypeOK, NEW t, NEW o \in Operations, NEW b \in BOOLEAN,
           runs' = [Recovered(t) EXCEPT ![o].submitted = b]
    PROVE  /\ runs' \in [Operations -> RunRecords]
           /\ \A p \in Operations :
                  /\ runs'[p].status = runs[p].status
                  /\ runs'[p].turn = runs[p].turn \/ (runs'[p].turn = p /\ native.turn[p] # 0)
<1> DEFINE R == Recovered(t)
<1>1. /\ R \in [Operations -> RunRecords]
      /\ \A p \in Operations : /\ R[p].status = runs[p].status
                               /\ R[p].turn = runs[p].turn \/ (R[p].turn = p
                                   /\ native.turn[p] # 0)
  BY RunsRecovered
<1>2. runs' = [R EXCEPT ![o].submitted = b]
  OBVIOUS
<1> HIDE DEF R
<1> DEFINE r == [status |-> R[o].status, stop |-> R[o].stop, submitted |-> b, turn |-> R[o].turn]
<1>3. [R[o] EXCEPT !.submitted = b] = r /\ r \in RunRecords
  BY <1>1 DEF RunRecords
<1>4. runs' = [R EXCEPT ![o] = r]
  BY <1>2, <1>3
<1>5. r.status = R[o].status /\ r.turn = R[o].turn
  OBVIOUS
<1> HIDE DEF r
<1>6. runs' \in [Operations -> RunRecords] /\ runs'[o] = r
  BY <1>1, <1>3, <1>4
<1>7. \A p \in Operations : p # o => runs'[p] = R[p]
  BY <1>1, <1>4
<1>8. ASSUME NEW p \in Operations
      PROVE  runs'[p].turn = R[p].turn /\ (TRUE => runs'[p].status = R[p].status)
  <2>1. CASE p = o
    BY <1>5, <1>6, <2>1
  <2>2. CASE p # o
    BY <1>7, <2>2
  <2> QED
    BY <2>1, <2>2
<1>9. \A p \in Operations :
          /\ TRUE => runs'[p].status = runs[p].status
          /\ runs'[p].turn = runs[p].turn \/ (runs'[p].turn = p /\ native.turn[p] # 0)
  BY <1>1, <1>8
<1> QED
  BY <1>5, <1>6, <1>9

\* The task ends.
LEMMA CodeAttachesOver == ASSUME CodeInv, NEW o \in Operations, AttachesOver(o) PROVE CodeInv' /\
           RunsStay
<1>1. UNCHANGED <<service, closer, crashes, storage, current, prompt, sends, connection, events,
   process, native, hand, interrupter, deleter, halter, answerer>>
  BY DEF AttachesOver, serverVars, helpers
<1>2. EventsFit' /\ Waiting' = Waiting
  BY <1>1 DEF CodeInv, EventsFit, Waiting
<1>3. job[o].stage = "attach" /\ connection = job[o].generation
  BY DEF AttachesOver
<1>4. ThreadOf(o) \in 0..MaxThreads /\ ThreadOf(o) # 0
  BY <1>3, ThreadIsThere
<1>5. loaded' \in 0..MaxThreads
  BY CodeTypes DEF AttachesOver, CodeInv, CodeSafety, JobRecords
<1>6. /\ session' \in SessionRecords /\ session'.status = session.status
      /\ session'.fed = session.fed /\ session'.thread = ThreadOf(o)
  BY <1>4, CodeTypes, SessionLoads DEF AttachesOver, CodeInv, CodeSafety
<1>7. /\ job' \in [Operations -> JobRecords]
      /\ job'[o].stage = "final" /\ job'[o].generation = job[o].generation
      /\ job'[o].thread = job[o].thread /\ job'[o].late = job[o].late
      /\ \A p \in Operations : p # o => job'[p] = job[p]
  <2>1. "final" \in JobStages /\ Goes(o, "final")
    BY DEF AttachesOver, JobStages
  <2> QED
    BY <2>1, CodeTypes, JobGoes DEF CodeInv, CodeSafety
<1>8. /\ runs' \in [Operations -> RunRecords]
      /\ \A p \in Operations : runs'[p].status = runs[p].status
      /\ \A p \in Operations : runs'[p].turn = runs[p].turn \/ (runs'[p].turn = p
          /\ native.turn[p] # 0)
  BY RunsRecovered DEF AttachesOver, CodeInv, CodeSafety
<1>9. CodeTypeOK'
  BY <1>1, <1>2, <1>3, <1>4, <1>5, <1>6, <1>7, <1>8, CodeTypes, Numbers DEF CodeInv, CodeSafety,
     CodeTypeOK, RunRecords, RunStatuses, PromptRecords, SendRecords, ProcessRecords,
     NativeRecords, JobRecords, SessionRecords, SessionStatuses, DeleterRecords, DeleterStages,
     AnswererRecords, InterrupterStages, Closers
<1>10. InputNeverResent'
  BY <1>1, <1>2, PartsRest
<1>11. JobsFit'
  BY <1>1, <1>3, <1>4, <1>6, <1>7, <1>8, CodeTyped, Numbers DEF CodeInv, JobsFit, Unopened,
     Unfed, Connected
<1>12. OneActiveRun'
  BY <1>1, <1>3, <1>4, <1>8, CodeTypes, Numbers DEF CodeInv, CodeSafety, OneActiveRun,
     ActiveStatuses
<1>13. CompletedIsOver'
  BY <1>1, <1>3, <1>4, <1>8, CodeTypes, Numbers DEF CodeInv, CodeSafety, CompletedIsOver
<1>14. ProcessesAreOwned'
  BY <1>1, <1>3, <1>4, <1>7, CodeTypes DEF CodeInv, CodeSafety, ProcessesAreOwned, NobodyIsLate,
     HandsFit
<1>15. ClosedIsQuiet'
  BY <1>1, <1>3, <1>4, <1>7, <1>8, CodeTypes DEF CodeInv, CodeSafety, ClosedIsQuiet,
     NobodyIsLate, Saves, Busy, ActiveStatuses
<1>16. DeletionIsDecided'
  BY <1>1, <1>3, <1>4, <1>6, CodeTypes DEF CodeInv, CodeSafety, DeletionIsDecided, Saves
<1>17. ServiceFits'
  BY <1>1, <1>3, <1>4, <1>6, <1>7, <1>8, CodeTyped DEF CodeInv, ServiceFits, Saves, Busy,
     ActiveStatuses
<1>18. FedFits'
  BY <1>1, <1>3, <1>4, <1>6, <1>7, CodeTyped DEF CodeInv, FedFits
<1>19. TurnsFit'
  BY <1>1, <1>3, <1>4, <1>8, CodeTyped DEF CodeInv, TurnsFit
<1>20. ProcessesFit'
  BY <1>1, <1>3, <1>4, <1>7, CodeTyped, Numbers, TaskNames, Generated DEF CodeInv, ProcessesFit
<1>21. HandsFit'
  BY <1>1, <1>3, <1>4, <1>7, CodeTyped, TaskNames, Numbers DEF CodeInv, HandsFit
<1>22. EventsAreTrue'
  BY <1>1, <1>2, <1>3, <1>4, <1>7, <1>8, CodeTyped, EventsOf, Generated, Numbers DEF CodeInv,
     EventsAreTrue, Busy, IsActive, ActiveStatuses
<1>23. StartsAreActive'
  BY <1>1, <1>3, <1>4, <1>7, <1>8, CodeTyped, JobsHaveProcesses DEF CodeInv, StartsAreActive,
     Busy, IsActive, ActiveStatuses
<1>24. OpeningIsUnasked'
  BY <1>1, <1>3, <1>4, <1>7, <1>8, CodeTyped, Generated, Numbers DEF CodeInv, OpeningIsUnasked,
     PromptOpen, Opening, Busy, ActiveStatuses
<1>25. AnswererFits'
  BY <1>1, <1>2, <1>3, <1>4, <1>7, CodeTyped, AnswererOf, JobsHaveProcesses DEF CodeInv,
     AnswererFits, Unopened, Connected
<1>26. ShutFits'
  BY <1>1, <1>2, <1>3, <1>4, <1>7, CodeTyped, JobsHaveProcesses DEF CodeInv, ShutFits
<1>27. PlaceIsFree'
  BY <1>1, <1>3, <1>4, <1>7, CodeTyped DEF CodeInv, PlaceIsFree, NobodyIsLate, Opening, Connected
<1>28. GoneStays'
  BY <1>1, <1>3, <1>4, <1>6, <1>7, CodeTyped, JobsHaveProcesses DEF CodeInv, GoneStays, ThreadOf
<1>29. DeletedIsGone'
  BY <1>28 DEF DeletedIsGone, GoneStays
<1>30. RunsStay
  BY <1>1, <1>2, <1>3, <1>4, <1>5, <1>6, <1>7, <1>8, CodeTypes DEF CodeInv, CodeSafety, RunsStay,
     CompletedIsOver, OneActiveRun, ActiveStatuses, FinalStatuses
<1> QED
  BY <1>1, <1>2, <1>3, <1>4, <1>5, <1>6, <1>7, <1>8, <1>9, <1>10, <1>11, <1>12, <1>13, <1>14,
     <1>15, <1>16, <1>17, <1>18, <1>19, <1>20, <1>21, <1>22, <1>23, <1>24, <1>25, <1>26, <1>27,
     <1>28, <1>29, <1>30 DEF CodeInv, CodeSafety

\* The run is interrupted.
LEMMA CodeAttachesStopped == ASSUME CodeInv, NEW o \in Operations, AttachesStopped(o) PROVE
           CodeInv' /\ RunsStay
<1>1. UNCHANGED <<service, closer, crashes, storage, current, prompt, connection, events,
   process, native, hand, interrupter, deleter, halter, answerer>>
  BY DEF AttachesStopped, serverVars, helpers
<1>2. EventsFit' /\ Waiting' = Waiting
  BY <1>1 DEF CodeInv, EventsFit, Waiting
<1>3. job[o].stage = "attach" /\ connection = job[o].generation
  BY DEF AttachesStopped
<1>4. ThreadOf(o) \in 0..MaxThreads /\ ThreadOf(o) # 0
  BY <1>3, ThreadIsThere
<1>5. loaded' \in 0..MaxThreads
  BY CodeTypes DEF AttachesStopped, CodeInv, CodeSafety, JobRecords
<1>6. /\ session' \in SessionRecords /\ session'.status = session.status
      /\ session'.fed = session.fed /\ session'.thread = ThreadOf(o)
  BY <1>4, CodeTypes, SessionLoads DEF AttachesStopped, CodeInv, CodeSafety
<1>7. /\ job' \in [Operations -> JobRecords]
      /\ job'[o].stage = "final" /\ job'[o].generation = job[o].generation
      /\ job'[o].thread = job[o].thread /\ job'[o].late = job[o].late
      /\ \A p \in Operations : p # o => job'[p] = job[p]
  <2>1. "final" \in JobStages /\ Goes(o, "final")
    BY DEF AttachesStopped, JobStages
  <2> QED
    BY <2>1, CodeTypes, JobGoes DEF CodeInv, CodeSafety
<1>8. /\ o = current /\ Busy /\ session.status = "ready" /\ deleter.stage = "none"
      /\ native.turn[o] = 0 /\ native.inputs[o] = 0
  BY <1>3 DEF AttachesStopped, IsActive, CodeInv, ServiceFits, JobsFit, Unfed
<1>9. /\ runs' \in [Operations -> RunRecords] /\ runs'[o].status = "interrupted"
      /\ \A p \in Operations : p # o => runs'[p].status = runs[p].status
      /\ \A p \in Operations : runs'[p].turn = runs[p].turn \/ (runs'[p].turn = p
          /\ native.turn[p] # 0)
  <2>1. "interrupted" \in RunStatuses
    BY DEF RunStatuses, FinalStatuses
  <2> QED
    BY <2>1, RecoveredChanges DEF AttachesStopped, CodeInv, CodeSafety
<1>10. sends' \in [Senders -> SendRecords]
  BY CodeTypes, SendsStale DEF AttachesStopped, CodeInv, CodeSafety
<1>11. CodeTypeOK'
  BY <1>1, <1>2, <1>3, <1>4, <1>5, <1>6, <1>7, <1>8, <1>9, <1>10, CodeTypes, Numbers DEF CodeInv,
     CodeSafety, CodeTypeOK, RunRecords, RunStatuses, PromptRecords, SendRecords, ProcessRecords,
     NativeRecords, JobRecords, SessionRecords, SessionStatuses, DeleterRecords, DeleterStages,
     AnswererRecords, InterrupterStages, Closers
<1>12. InputNeverResent'
  BY <1>1, <1>2, PartsRest
<1>13. JobsFit'
  BY <1>1, <1>3, <1>4, <1>6, <1>7, <1>8, <1>9, CodeTyped, Numbers DEF CodeInv, JobsFit, Busy,
     ActiveStatuses, Unopened, Unfed, Connected
<1>14. OneActiveRun'
  BY <1>1, <1>3, <1>4, <1>8, <1>9, CodeTypes, Numbers DEF CodeInv, CodeSafety, OneActiveRun,
     Busy, ActiveStatuses
<1>15. CompletedIsOver'
  BY <1>1, <1>3, <1>4, <1>8, <1>9, CodeTypes, Numbers DEF CodeInv, CodeSafety, CompletedIsOver
<1>16. ProcessesAreOwned'
  BY <1>1, <1>3, <1>4, <1>7, <1>8, CodeTypes DEF CodeInv, CodeSafety, ProcessesAreOwned,
     NobodyIsLate, HandsFit
<1>17. ClosedIsQuiet'
  BY <1>1, <1>3, <1>4, <1>7, <1>8, <1>9, CodeTypes DEF CodeInv, CodeSafety, ClosedIsQuiet,
     NobodyIsLate, Saves, Busy, ActiveStatuses
<1>18. DeletionIsDecided'
  BY <1>1, <1>3, <1>4, <1>6, <1>8, CodeTypes DEF CodeInv, CodeSafety, DeletionIsDecided, Saves
<1>19. ServiceFits'
  BY <1>1, <1>3, <1>4, <1>6, <1>7, <1>8, <1>9, CodeTyped DEF CodeInv, ServiceFits, Saves, Busy,
     ActiveStatuses
<1>20. FedFits'
  BY <1>1, <1>3, <1>4, <1>6, <1>7, <1>8, CodeTyped DEF CodeInv, FedFits
<1>21. TurnsFit'
  BY <1>1, <1>3, <1>4, <1>8, <1>9, CodeTyped DEF CodeInv, TurnsFit
<1>22. ProcessesFit'
  BY <1>1, <1>3, <1>4, <1>7, <1>8, CodeTyped, Numbers, TaskNames, Generated DEF CodeInv,
     ProcessesFit
<1>23. HandsFit'
  BY <1>1, <1>3, <1>4, <1>7, <1>8, CodeTyped, TaskNames, Numbers DEF CodeInv, HandsFit
<1>24. EventsAreTrue'
  BY <1>1, <1>2, <1>3, <1>4, <1>7, <1>8, <1>9, CodeTyped, EventsOf, Generated, Numbers DEF
     CodeInv, EventsAreTrue, Busy, IsActive, ActiveStatuses
<1>25. StartsAreActive'
  BY <1>1, <1>3, <1>4, <1>7, <1>8, <1>9, CodeTyped, JobsHaveProcesses DEF CodeInv,
     StartsAreActive, Busy, IsActive, ActiveStatuses
<1>26. OpeningIsUnasked'
  BY <1>1, <1>3, <1>4, <1>7, <1>8, <1>9, CodeTyped, Generated, Numbers DEF CodeInv,
     OpeningIsUnasked, PromptOpen, Opening, Busy, ActiveStatuses
<1>27. AnswererFits'
  BY <1>1, <1>2, <1>3, <1>4, <1>7, <1>8, CodeTyped, AnswererOf, JobsHaveProcesses DEF CodeInv,
     AnswererFits, Unopened, Connected
<1>28. ShutFits'
  BY <1>1, <1>2, <1>3, <1>4, <1>7, <1>8, CodeTyped, JobsHaveProcesses DEF CodeInv, ShutFits
<1>29. PlaceIsFree'
  BY <1>1, <1>3, <1>4, <1>7, <1>8, CodeTyped DEF CodeInv, PlaceIsFree, NobodyIsLate, Opening,
     Connected
<1>30. GoneStays'
  BY <1>1, <1>3, <1>4, <1>6, <1>7, <1>8, CodeTyped, JobsHaveProcesses DEF CodeInv, GoneStays
<1>31. DeletedIsGone'
  BY <1>30 DEF DeletedIsGone, GoneStays
<1>32. RunsStay
  BY <1>1, <1>2, <1>3, <1>4, <1>5, <1>6, <1>7, <1>8, <1>9, <1>10, CodeTypes DEF CodeInv,
     CodeSafety, RunsStay, CompletedIsOver, OneActiveRun, Busy, ActiveStatuses, FinalStatuses
<1> QED
  BY <1>1, <1>2, <1>3, <1>4, <1>5, <1>6, <1>7, <1>8, <1>9, <1>10, <1>11, <1>12, <1>13, <1>14,
     <1>15, <1>16, <1>17, <1>18, <1>19, <1>20, <1>21, <1>22, <1>23, <1>24, <1>25, <1>26, <1>27,
     <1>28, <1>29, <1>30, <1>31, <1>32 DEF CodeInv, CodeSafety

\* The task is about to start its turn.
LEMMA CodeAttachesActive == ASSUME CodeInv, NEW o \in Operations, AttachesActive(o) PROVE
           CodeInv' /\ RunsStay
<1>1. UNCHANGED <<service, closer, crashes, storage, current, prompt, sends, connection, events,
   process, native, hand, interrupter, deleter, halter, answerer>>
  BY DEF AttachesActive, serverVars, helpers
<1>2. EventsFit' /\ Waiting' = Waiting
  BY <1>1 DEF CodeInv, EventsFit, Waiting
<1>3. job[o].stage = "attach" /\ connection = job[o].generation
  BY DEF AttachesActive
<1>4. ThreadOf(o) \in 0..MaxThreads /\ ThreadOf(o) # 0
  BY <1>3, ThreadIsThere
<1>5. loaded' \in 0..MaxThreads
  BY CodeTypes DEF AttachesActive, CodeInv, CodeSafety, JobRecords
<1>6. /\ session' \in SessionRecords /\ session'.status = session.status
      /\ session'.fed = TRUE /\ session'.thread = ThreadOf(o)
  <2>1. TRUE \in BOOLEAN
    OBVIOUS
  <2> QED
    BY <1>4, <2>1, CodeTypes, SessionFeeds DEF AttachesActive, CodeInv, CodeSafety
<1>7. /\ job' \in [Operations -> JobRecords]
      /\ job'[o].stage = "start" /\ job'[o].generation = job[o].generation
      /\ job'[o].thread = job[o].thread /\ job'[o].late = job[o].late
      /\ \A p \in Operations : p # o => job'[p] = job[p]
  <2>1. "start" \in JobStages /\ Goes(o, "start")
    BY DEF AttachesActive, JobStages
  <2> QED
    BY <2>1, CodeTypes, JobGoes DEF CodeInv, CodeSafety
<1>8. /\ o = current /\ Busy /\ session.status = "ready" /\ deleter.stage = "none"
      /\ native.turn[o] = 0 /\ native.inputs[o] = 0
  BY <1>3 DEF AttachesActive, IsActive, CodeInv, ServiceFits, JobsFit, Unfed
<1>9. /\ runs' \in [Operations -> RunRecords]
      /\ \A p \in Operations : runs'[p].status = runs[p].status
      /\ \A p \in Operations : runs'[p].turn = runs[p].turn \/ (runs'[p].turn = p
          /\ native.turn[p] # 0)
  <2>1. TRUE \in BOOLEAN
    OBVIOUS
  <2> QED
    BY <2>1, RecoveredSubmits DEF AttachesActive, CodeInv, CodeSafety
<1>10. service = "up" /\ closer = "none"
  BY DEF AttachesActive, CodeInv, ServiceFits
<1>11. CodeTypeOK'
  BY <1>1, <1>2, <1>3, <1>4, <1>5, <1>6, <1>7, <1>8, <1>9, <1>10, CodeTypes, Numbers DEF CodeInv,
     CodeSafety, CodeTypeOK, RunRecords, RunStatuses, PromptRecords, SendRecords, ProcessRecords,
     NativeRecords, JobRecords, SessionRecords, SessionStatuses, DeleterRecords, DeleterStages,
     AnswererRecords, InterrupterStages, Closers
<1>12. InputNeverResent'
  BY <1>1, <1>2, PartsRest
<1>13. JobsFit'
  BY <1>1, <1>3, <1>4, <1>6, <1>7, <1>8, <1>9, <1>10, CodeTyped, Numbers DEF CodeInv, JobsFit,
     Busy, ActiveStatuses, Unopened, Unfed, Connected
<1>14. OneActiveRun'
  BY <1>1, <1>3, <1>4, <1>8, <1>9, <1>10, CodeTypes, Numbers DEF CodeInv, CodeSafety,
     OneActiveRun, Busy, ActiveStatuses
<1>15. CompletedIsOver'
  BY <1>1, <1>3, <1>4, <1>8, <1>9, <1>10, CodeTypes, Numbers DEF CodeInv, CodeSafety,
     CompletedIsOver
<1>16. ProcessesAreOwned'
  BY <1>1, <1>3, <1>4, <1>7, <1>8, <1>10, CodeTypes DEF CodeInv, CodeSafety, ProcessesAreOwned,
     NobodyIsLate, HandsFit
<1>17. ClosedIsQuiet'
  BY <1>1, <1>3, <1>4, <1>7, <1>8, <1>9, <1>10, CodeTypes DEF CodeInv, CodeSafety, ClosedIsQuiet,
     NobodyIsLate, Saves, Busy, ActiveStatuses
<1>18. DeletionIsDecided'
  BY <1>1, <1>3, <1>4, <1>6, <1>8, <1>10, CodeTypes DEF CodeInv, CodeSafety, DeletionIsDecided,
     Saves
<1>19. ServiceFits'
  BY <1>1, <1>3, <1>4, <1>6, <1>7, <1>8, <1>9, <1>10, CodeTyped DEF CodeInv, ServiceFits, Saves,
     Busy, ActiveStatuses
<1>20. FedFits'
  BY <1>1, <1>3, <1>4, <1>6, <1>7, <1>8, <1>10, CodeTyped DEF CodeInv, FedFits
<1>21. TurnsFit'
  BY <1>1, <1>3, <1>4, <1>8, <1>9, <1>10, CodeTyped DEF CodeInv, TurnsFit
<1>22. ProcessesFit'
  BY <1>1, <1>3, <1>4, <1>7, <1>8, <1>10, CodeTyped, Numbers, TaskNames, Generated DEF CodeInv,
     ProcessesFit
<1>23. HandsFit'
  BY <1>1, <1>3, <1>4, <1>7, <1>8, <1>10, CodeTyped, TaskNames, Numbers DEF CodeInv, HandsFit
<1>24. EventsAreTrue'
  BY <1>1, <1>2, <1>3, <1>4, <1>7, <1>8, <1>9, <1>10, CodeTyped, EventsOf, Generated, Numbers DEF
     CodeInv, EventsAreTrue, Busy, IsActive, ActiveStatuses
<1>25. StartsAreActive'
  BY <1>1, <1>3, <1>4, <1>7, <1>8, <1>9, <1>10, CodeTyped, JobsHaveProcesses DEF CodeInv,
     StartsAreActive, Busy, IsActive, ActiveStatuses
<1>26. OpeningIsUnasked'
  BY <1>1, <1>3, <1>4, <1>7, <1>8, <1>9, <1>10, CodeTyped, Generated, Numbers DEF CodeInv,
     OpeningIsUnasked, PromptOpen, Opening, Busy, ActiveStatuses
<1>27. AnswererFits'
  BY <1>1, <1>2, <1>3, <1>4, <1>7, <1>8, <1>10, CodeTyped, AnswererOf, JobsHaveProcesses DEF
     CodeInv, AnswererFits, Unopened, Connected
<1>28. ShutFits'
  BY <1>1, <1>2, <1>3, <1>4, <1>7, <1>8, <1>10, CodeTyped, JobsHaveProcesses DEF CodeInv,
     ShutFits
<1>29. PlaceIsFree'
  BY <1>1, <1>3, <1>4, <1>7, <1>8, <1>10, CodeTyped DEF CodeInv, PlaceIsFree, NobodyIsLate,
     Opening, Connected
<1>30. GoneStays'
  BY <1>1, <1>3, <1>4, <1>6, <1>7, <1>8, <1>10, CodeTyped, JobsHaveProcesses DEF CodeInv,
     GoneStays
<1>31. DeletedIsGone'
  BY <1>30 DEF DeletedIsGone, GoneStays
<1>32. RunsStay
  BY <1>1, <1>2, <1>3, <1>4, <1>5, <1>6, <1>7, <1>8, <1>9, <1>10, CodeTypes DEF CodeInv,
     CodeSafety, RunsStay, CompletedIsOver, OneActiveRun, Busy, ActiveStatuses, FinalStatuses
<1> QED
  BY <1>1, <1>2, <1>3, <1>4, <1>5, <1>6, <1>7, <1>8, <1>9, <1>10, <1>11, <1>12, <1>13, <1>14,
     <1>15, <1>16, <1>17, <1>18, <1>19, <1>20, <1>21, <1>22, <1>23, <1>24, <1>25, <1>26, <1>27,
     <1>28, <1>29, <1>30, <1>31, <1>32 DEF CodeInv, CodeSafety

\* The conversation is attached under the lock.
LEMMA CodeAttach == ASSUME CodeInv, NEW o \in Operations, Attach(o) PROVE CodeInv' /\ RunsStay
<1>1. CASE ~IsActive(o)
  BY <1>1, CodeAttachesOver DEF Attach, AttachesOver, ThreadOf
<1>2. CASE IsActive(o) /\ (runs[o].stop \/ service # "up")
  BY <1>2, CodeAttachesStopped DEF Attach, AttachesStopped, ThreadOf
<1>3. CASE IsActive(o) /\ ~(runs[o].stop \/ service # "up")
  BY <1>3, CodeAttachesActive DEF Attach, AttachesActive, ThreadOf, FeedsSession
<1> QED
  BY <1>1, <1>2, <1>3

\* The process takes the input.
Starts(o) ==
    /\ job[o].stage = "start" /\ Alive(o)
    /\ native' = [native EXCEPT !.inputs[o] = @ + 1, !.turn[o] = job[o].generation]
    /\ process' = [process EXCEPT ![job[o].generation].begun = TRUE]
    /\ events' = IF connection = job[o].generation
                 THEN Append(events, [kind |-> "started", of |-> o]) ELSE events
    /\ Goes(o, "bind") \/ Goes(o, "fail")
    /\ UNCHANGED <<serverVars, storage, stored, connection, loaded, hand, interrupter,
                   deleter, helpers>>

\* It does not.
StartFails(o) ==
    /\ job[o].stage = "start" /\ Goes(o, "fail") /\ UNCHANGED <<native, events, process>>
    /\ UNCHANGED <<serverVars, storage, stored, connection, loaded, hand, interrupter,
                   deleter, helpers>>

\* The turn begins.
LEMMA CodeStarts == ASSUME CodeInv, NEW o \in Operations, Starts(o) PROVE CodeInv' /\ RunsStay
<1>1. UNCHANGED <<service, closer, crashes, storage, session, current, runs, prompt, sends,
   connection, loaded, hand, interrupter, deleter, halter, answerer>>
  BY DEF Starts, serverVars, stored, helpers
<1>2. /\ job[o].stage = "start" /\ job[o].generation \in Generations
      /\ native.turn[o] = 0 /\ native.inputs[o] = 0 /\ session.fed
  BY Generated, Numbers, JobsHaveProcesses DEF Starts, CodeInv, JobsFit, FedFits, Unfed
<1>3. /\ native' \in NativeRecords /\ native'.threads = native.threads
      /\ native'.inputs[o] = 1 /\ native'.turn[o] = job[o].generation
      /\ \A p \in Operations : p # o =>
             native'.inputs[p] = native.inputs[p] /\ native'.turn[p] = native.turn[p]
  <2>1. /\ native \in NativeRecords
        /\ native' = [native EXCEPT !.inputs[o] = 1, !.turn[o] = job[o].generation]
    <3>1. native \in NativeRecords /\ native.inputs[o] + 1 = 1
      BY <1>2, CodeTypes DEF CodeInv, CodeSafety
    <3> QED
      BY <3>1 DEF Starts
  <2>2. job[o].generation \in 0..Over
    BY <1>2, Numbers
  <2>3. 1 \in 0..2
    OBVIOUS
  <2> QED
    BY <2>1, <2>2, <2>3, NativeFeeds
<1>4. /\ process' \in [Generations -> ProcessRecords]
      /\ \A h \in Generations : /\ process'[h].state = process[h].state
                                /\ h # job[o].generation => process'[h].begun = process[h].begun
      /\ process'[job[o].generation].begun
      /\ process[job[o].generation].state = "alive"
  <2>1. /\ process \in [Generations -> ProcessRecords] /\ TRUE \in BOOLEAN
        /\ process' = [process EXCEPT ![job[o].generation].begun = TRUE]
        /\ process[job[o].generation].state = "alive"
    BY CodeTypes DEF Starts, Alive, CodeInv, CodeSafety
  <2>2. /\ process' \in [Generations -> ProcessRecords]
        /\ process'[job[o].generation].state = process[job[o].generation].state
        /\ process'[job[o].generation].begun = TRUE
        /\ \A p \in Generations : p # job[o].generation => process'[p] = process[p]
    BY <1>2, <2>1, ProcessBegins
  <2> QED
    BY <2>1, <2>2
<1>5. /\ job' \in [Operations -> JobRecords]
      /\ job'[o].stage \in {"bind", "fail"} /\ job'[o].generation = job[o].generation
      /\ job'[o].thread = job[o].thread /\ job'[o].late = job[o].late
      /\ \A p \in Operations : p # o => job'[p] = job[p]
  <2>1. "bind" \in JobStages /\ "fail" \in JobStages /\ (Goes(o, "bind") \/ Goes(o, "fail"))
    BY DEF Starts, JobStages
  <2> QED
    BY <2>1, CodeTypes, JobGoes DEF CodeInv, CodeSafety
<1>6. /\ EventsFit'
      /\ \/ connection = job[o].generation /\ Waiting' = Waiting \cup {[kind |-> "started",
            of |-> o]}
         \/ connection # job[o].generation /\ Waiting' = Waiting
  <2>1. [kind |-> "started", of |-> o] \in Events
    BY DEF Events
  <2>2. CASE connection = job[o].generation
    BY <2>1, <2>2, Appends DEF Starts, CodeInv
  <2>3. CASE connection # job[o].generation
    BY <2>3 DEF Starts, CodeInv, EventsFit, Waiting
  <2> QED
    BY <2>2, <2>3
<1>7. connection = job[o].generation => IsActive(o)
  BY <1>2 DEF CodeInv, StartsAreActive
<1>8. [kind |-> "started", of |-> o].kind = "started" /\ [kind |-> "started", of |-> o].of = o
  OBVIOUS
<1>9. CodeTypeOK'
  BY <1>1, <1>2, <1>3, <1>4, <1>5, <1>6, <1>7, <1>8, CodeTypes, Numbers DEF CodeInv, CodeSafety,
     CodeTypeOK, RunRecords, RunStatuses, PromptRecords, SendRecords, ProcessRecords,
     NativeRecords, JobRecords, SessionRecords, SessionStatuses, DeleterRecords, DeleterStages,
     AnswererRecords, InterrupterStages, Closers
<1>10. OneActiveRun' /\ DeletionIsDecided'
  BY <1>1, PartsRest
<1>11. JobsFit'
  BY <1>1, <1>2, <1>3, <1>5, <1>7, <1>8, CodeTyped, Numbers DEF CodeInv, JobsFit, Unopened,
     Unfed, Connected
<1>12. CompletedIsOver'
  BY <1>1, <1>2, <1>3, <1>7, <1>8, CodeTypes, Numbers DEF CodeInv, CodeSafety, CompletedIsOver
<1>13. ProcessesAreOwned'
  BY <1>1, <1>2, <1>4, <1>5, <1>7, <1>8, CodeTypes DEF CodeInv, CodeSafety, ProcessesAreOwned,
     NobodyIsLate, HandsFit
<1>14. ClosedIsQuiet'
  BY <1>1, <1>2, <1>4, <1>5, <1>7, <1>8, CodeTypes DEF CodeInv, CodeSafety, ClosedIsQuiet,
     NobodyIsLate, Saves, Busy, IsActive, ActiveStatuses
<1>15. ServiceFits'
  BY <1>1, <1>2, <1>5, <1>7, <1>8, CodeTyped DEF CodeInv, ServiceFits, Saves, Busy, IsActive,
     ActiveStatuses
<1>16. FedFits'
  BY <1>1, <1>2, <1>3, <1>5, <1>7, <1>8, CodeTyped DEF CodeInv, FedFits
<1>17. TurnsFit'
  BY <1>1, <1>2, <1>3, <1>7, <1>8, CodeTyped DEF CodeInv, TurnsFit
<1>18. ProcessesFit'
  <2>1. \A h \in Generations : /\ process'[h].state = process[h].state
                               /\ process[h].begun => process'[h].begun
    BY <1>4
  <2>2. connection' # 0 => process'[connection'].state # "none"
    BY <1>1, <2>1, Generated, Numbers DEF CodeInv, ProcessesFit
  <2>3. \A g \in Generations : process'[g].begun => process'[g].state # "none"
    BY <1>4, <2>1 DEF CodeInv, ProcessesFit
  <2>4. \A p \in Operations : job'[p].generation # 0 => process'[job'[p].generation].state # "none"
    BY <1>2, <1>5, <2>1, Generated, Numbers DEF CodeInv, ProcessesFit
  <2>5. \A p \in Operations : native'.turn[p] \in Generations => process'[native'.turn[p]].begun
    BY <1>3, <1>4, <2>1 DEF CodeInv, ProcessesFit
  <2>6. \A t \in Tasks : hand'[t] # 0 => process'[hand'[t]].state # "none"
    BY <1>1, <2>1, Generated, Numbers DEF CodeInv, ProcessesFit
  <2>7. prompt'.generation # 0 => process'[prompt'.generation].state # "none"
    <3>1. prompt' = prompt /\ prompt.generation \in 0..MaxConnections
      BY <1>1, Generated
    <3>2. prompt.generation # 0 => prompt.generation \in Generations
      BY <3>1, Numbers
    <3>3. prompt.generation # 0 => process[prompt.generation].state # "none"
      <4>1. ProcessesFit
        BY DEF CodeInv
      <4> QED
        BY <4>1, Zenon DEF ProcessesFit
    <3> QED
      BY <3>1, <3>2, <3>3, <2>1
  <2> QED
    BY <2>2, <2>3, <2>4, <2>5, <2>6, <2>7 DEF ProcessesFit
<1>19. HandsFit'
  BY <1>1, <1>2, <1>5, <1>7, <1>8, CodeTyped, TaskNames, Numbers DEF CodeInv, HandsFit
<1>20. EventsAreTrue'
  BY <1>1, <1>2, <1>3, <1>4, <1>5, <1>6, <1>7, <1>8, CodeTyped, EventsOf, Generated, Numbers DEF
     CodeInv, EventsAreTrue, Busy, IsActive, ActiveStatuses
<1>21. StartsAreActive'
  BY <1>1, <1>2, <1>5, <1>7, <1>8, CodeTyped, JobsHaveProcesses DEF CodeInv, StartsAreActive,
     Busy, IsActive, ActiveStatuses
<1>22. OpeningIsUnasked'
  BY <1>1, <1>2, <1>4, <1>5, <1>7, <1>8, CodeTyped, Generated, Numbers DEF CodeInv,
     OpeningIsUnasked, PromptOpen, Opening, Busy, IsActive, ActiveStatuses
<1>23. AnswererFits'
  BY <1>1, <1>2, <1>5, <1>6, <1>7, <1>8, CodeTyped, AnswererOf, JobsHaveProcesses DEF CodeInv,
     AnswererFits, Unopened, Connected
<1>24. ShutFits'
  BY <1>1, <1>2, <1>5, <1>6, <1>7, <1>8, CodeTyped, JobsHaveProcesses DEF CodeInv, ShutFits
<1>25. PlaceIsFree'
  BY <1>1, <1>2, <1>5, <1>7, <1>8, CodeTyped DEF CodeInv, PlaceIsFree, NobodyIsLate, Opening,
     Connected
<1>26. GoneStays'
  BY <1>1, <1>2, <1>3, <1>5, <1>7, <1>8, CodeTyped, JobsHaveProcesses DEF CodeInv, GoneStays
<1>27. DeletedIsGone'
  BY <1>26 DEF DeletedIsGone, GoneStays
<1>28. InputNeverResent'
  BY <1>11 DEF InputNeverResent, JobsFit
<1>29. RunsStay
  BY <1>1 DEF RunsStay
<1> QED
  BY <1>1, <1>2, <1>3, <1>4, <1>5, <1>6, <1>7, <1>8, <1>9, <1>10, <1>11, <1>12, <1>13, <1>14,
     <1>15, <1>16, <1>17, <1>18, <1>19, <1>20, <1>21, <1>22, <1>23, <1>24, <1>25, <1>26, <1>27,
     <1>28, <1>29 DEF CodeInv, CodeSafety

\* The task fails.
LEMMA CodeStartFails == ASSUME CodeInv, NEW o \in Operations, StartFails(o) PROVE CodeInv' /\
           RunsStay
<1>1. UNCHANGED <<service, closer, crashes, storage, session, current, runs, prompt, sends,
   connection, loaded, events, process, native, hand, interrupter, deleter, halter, answerer>>
  BY DEF StartFails, serverVars, stored, helpers
<1>2. EventsFit' /\ Waiting' = Waiting
  BY <1>1 DEF CodeInv, EventsFit, Waiting
<1>3. job[o].stage = "start"
  BY DEF StartFails
<1>4. /\ job' \in [Operations -> JobRecords]
      /\ job'[o].stage = "fail" /\ job'[o].generation = job[o].generation
      /\ job'[o].thread = job[o].thread /\ job'[o].late = job[o].late
      /\ \A p \in Operations : p # o => job'[p] = job[p]
  <2>1. "fail" \in JobStages /\ Goes(o, "fail")
    BY DEF StartFails, JobStages
  <2> QED
    BY <2>1, CodeTypes, JobGoes DEF CodeInv, CodeSafety
<1>5. CodeTypeOK'
  BY <1>1, <1>2, <1>3, <1>4, CodeTypes, Numbers DEF CodeInv, CodeSafety, CodeTypeOK, RunRecords,
     RunStatuses, PromptRecords, SendRecords, ProcessRecords, NativeRecords, JobRecords,
     SessionRecords, SessionStatuses, DeleterRecords, DeleterStages, AnswererRecords,
     InterrupterStages, Closers
<1>6. OneActiveRun' /\ CompletedIsOver' /\ DeletionIsDecided' /\ TurnsFit' /\ DeletedIsGone' /\
   InputNeverResent'
  BY <1>1, <1>2, PartsRest
<1>7. JobsFit'
  BY <1>1, <1>3, <1>4, CodeTyped, Numbers DEF CodeInv, JobsFit, Unopened, Unfed, Connected
<1>8. ProcessesAreOwned'
  BY <1>1, <1>3, <1>4, CodeTypes DEF CodeInv, CodeSafety, ProcessesAreOwned, NobodyIsLate,
     HandsFit
<1>9. ClosedIsQuiet'
  BY <1>1, <1>3, <1>4, CodeTypes DEF CodeInv, CodeSafety, ClosedIsQuiet, NobodyIsLate, Saves,
     Busy, ActiveStatuses
<1>10. ServiceFits'
  BY <1>1, <1>3, <1>4, CodeTyped DEF CodeInv, ServiceFits, Saves, Busy, ActiveStatuses
<1>11. FedFits'
  BY <1>1, <1>3, <1>4, CodeTyped DEF CodeInv, FedFits
<1>12. ProcessesFit'
  BY <1>1, <1>3, <1>4, CodeTyped, Numbers, TaskNames, Generated DEF CodeInv, ProcessesFit
<1>13. HandsFit'
  BY <1>1, <1>3, <1>4, CodeTyped, TaskNames, Numbers DEF CodeInv, HandsFit
<1>14. EventsAreTrue'
  BY <1>1, <1>2, <1>3, <1>4, CodeTyped, EventsOf, Generated, Numbers DEF CodeInv, EventsAreTrue,
     Busy, IsActive, ActiveStatuses
<1>15. StartsAreActive'
  BY <1>1, <1>3, <1>4, CodeTyped, JobsHaveProcesses DEF CodeInv, StartsAreActive, Busy, IsActive,
     ActiveStatuses
<1>16. OpeningIsUnasked'
  BY <1>1, <1>3, <1>4, CodeTyped, Generated, Numbers DEF CodeInv, OpeningIsUnasked, PromptOpen,
     Opening, Busy, ActiveStatuses
<1>17. AnswererFits'
  BY <1>1, <1>2, <1>3, <1>4, CodeTyped, AnswererOf, JobsHaveProcesses DEF CodeInv, AnswererFits,
     Unopened, Connected
<1>18. ShutFits'
  BY <1>1, <1>2, <1>3, <1>4, CodeTyped, JobsHaveProcesses DEF CodeInv, ShutFits
<1>19. PlaceIsFree'
  BY <1>1, <1>3, <1>4, CodeTyped DEF CodeInv, PlaceIsFree, NobodyIsLate, Opening, Connected
<1>20. GoneStays'
  BY <1>1, <1>3, <1>4, CodeTyped, JobsHaveProcesses DEF CodeInv, GoneStays
<1>21. RunsStay
  BY <1>1 DEF RunsStay
<1> QED
  BY <1>1, <1>2, <1>3, <1>4, <1>5, <1>6, <1>7, <1>8, <1>9, <1>10, <1>11, <1>12, <1>13, <1>14,
     <1>15, <1>16, <1>17, <1>18, <1>19, <1>20, <1>21 DEF CodeInv, CodeSafety

\* turn/start.
LEMMA CodeStartTurn == ASSUME CodeInv, NEW o \in Operations, StartTurn(o) PROVE CodeInv'
                       /\ RunsStay
<1>1. Starts(o) \/ StartFails(o)
  BY DEF StartTurn, Starts, StartFails
<1> QED
  BY <1>1, CodeStarts, CodeStartFails

\* The answer names the turn of the run that waits for it.
Binds(o) ==
    /\ job[o].stage = "bind" /\ IsActive(o)
    /\ runs' = [runs EXCEPT ![o].turn = o,
                            ![o].status = IF runs[o].stop THEN "stopping" ELSE "running"]
    /\ Interrupts(TRUE, runs[o].stop)
    /\ Goes(o, "wait")
    /\ UNCHANGED <<serverVars, storage, session, current, prompt, sends, linkVars, process,
        native,
                   hand, deleter, helpers>>

\* The task waits for the run's end.
LEMMA CodeBinds == ASSUME CodeInv, NEW o \in Operations, Binds(o) PROVE CodeInv' /\ RunsStay
<1>1. UNCHANGED <<service, closer, crashes, storage, session, current, prompt, sends, connection,
   loaded, events, process, native, hand, deleter, halter, answerer>>
  BY DEF Binds, serverVars, linkVars, helpers
<1>2. EventsFit' /\ Waiting' = Waiting
  BY <1>1 DEF CodeInv, EventsFit, Waiting
<1>3. job[o].stage = "bind"
  BY DEF Binds
<1>4. o = current /\ Busy /\ native.turn[o] # 0
  BY <1>3 DEF Binds, IsActive, CodeInv, JobsFit
<1>5. /\ job' \in [Operations -> JobRecords]
      /\ job'[o].stage = "wait" /\ job'[o].generation = job[o].generation
      /\ job'[o].thread = job[o].thread /\ job'[o].late = job[o].late
      /\ \A p \in Operations : p # o => job'[p] = job[p]
  <2>1. "wait" \in JobStages /\ Goes(o, "wait")
    BY DEF Binds, JobStages
  <2> QED
    BY <2>1, CodeTypes, JobGoes DEF CodeInv, CodeSafety
<1>6. /\ runs' \in [Operations -> RunRecords]
      /\ runs'[o].turn = o /\ runs'[o].status \in ActiveStatuses
      /\ \A p \in Operations : p # o => runs'[p] = runs[p]
  BY RunIsBound DEF Binds, CodeInv, CodeSafety
<1>7. /\ interrupter' \in [Operations -> InterrupterStages]
      /\ \A q \in Operations :
             \/ interrupter'[q] = interrupter[q]
             \/ q = current /\ interrupter[q] = "none" /\ interrupter'[q] = "ask"
  BY InterruptedNow DEF Binds, CodeInv, CodeSafety
<1>8. CodeTypeOK'
  BY <1>1, <1>2, <1>3, <1>4, <1>5, <1>6, <1>7, CodeTypes, Numbers DEF CodeInv, CodeSafety,
     CodeTypeOK, RunRecords, RunStatuses, PromptRecords, SendRecords, ProcessRecords,
     NativeRecords, JobRecords, SessionRecords, SessionStatuses, DeleterRecords, DeleterStages,
     AnswererRecords, InterrupterStages, Closers
<1>9. DeletionIsDecided' /\ DeletedIsGone' /\ InputNeverResent'
  BY <1>1, <1>2, PartsRest
<1>10. JobsFit'
  BY <1>1, <1>3, <1>4, <1>5, <1>6, CodeTyped, Numbers DEF CodeInv, JobsFit, Busy, ActiveStatuses,
     Unopened, Unfed, Connected
<1>11. OneActiveRun'
  BY <1>1, <1>3, <1>4, <1>6, CodeTypes, Numbers DEF CodeInv, CodeSafety, OneActiveRun, Busy,
     ActiveStatuses
<1>12. CompletedIsOver'
  BY <1>1, <1>3, <1>4, <1>6, CodeTypes, Numbers DEF CodeInv, CodeSafety, CompletedIsOver,
     ActiveStatuses
<1>13. ProcessesAreOwned'
  BY <1>1, <1>3, <1>4, <1>5, CodeTypes DEF CodeInv, CodeSafety, ProcessesAreOwned, NobodyIsLate,
     HandsFit
<1>14. ClosedIsQuiet'
  BY <1>1, <1>3, <1>4, <1>5, <1>6, CodeTypes DEF CodeInv, CodeSafety, ClosedIsQuiet,
     NobodyIsLate, Saves, Busy, ActiveStatuses
<1>15. ServiceFits'
  BY <1>1, <1>3, <1>4, <1>5, <1>6, CodeTyped DEF CodeInv, ServiceFits, Saves, Busy,
     ActiveStatuses
<1>16. FedFits'
  BY <1>1, <1>3, <1>4, <1>5, CodeTyped DEF CodeInv, FedFits
<1>17. TurnsFit'
  BY <1>1, <1>3, <1>4, <1>6, <1>7, CodeTyped DEF CodeInv, TurnsFit
<1>18. ProcessesFit'
  <2>1. \A p \in Operations : job'[p].generation = job[p].generation
    BY <1>5
  <2> QED
    BY <1>1, <2>1 DEF CodeInv, ProcessesFit
<1>19. HandsFit'
  BY <1>1, <1>3, <1>4, <1>5, <1>7, CodeTyped, TaskNames, Numbers DEF CodeInv, HandsFit
<1>20. EventsAreTrue'
  BY <1>1, <1>2, <1>3, <1>4, <1>5, <1>6, CodeTyped, EventsOf, Generated, Numbers DEF CodeInv,
     EventsAreTrue, Busy, IsActive, ActiveStatuses
<1>21. StartsAreActive'
  BY <1>1, <1>3, <1>4, <1>5, <1>6, CodeTyped, JobsHaveProcesses DEF CodeInv, StartsAreActive,
     Busy, IsActive, ActiveStatuses
<1>22. OpeningIsUnasked'
  BY <1>1, <1>3, <1>4, <1>5, <1>6, CodeTyped, Generated, Numbers DEF CodeInv, OpeningIsUnasked,
     PromptOpen, Opening, Busy, ActiveStatuses
<1>23. AnswererFits'
  BY <1>1, <1>2, <1>3, <1>4, <1>5, CodeTyped, AnswererOf, JobsHaveProcesses DEF CodeInv,
     AnswererFits, Unopened, Connected
<1>24. ShutFits'
  BY <1>1, <1>2, <1>3, <1>4, <1>5, CodeTyped, JobsHaveProcesses DEF CodeInv, ShutFits
<1>25. PlaceIsFree'
  BY <1>1, <1>3, <1>4, <1>5, CodeTyped DEF CodeInv, PlaceIsFree, NobodyIsLate, Opening, Connected
<1>26. GoneStays'
  BY <1>1, <1>3, <1>4, <1>5, CodeTyped, JobsHaveProcesses DEF CodeInv, GoneStays
<1>27. RunsStay
  BY <1>1, <1>2, <1>3, <1>4, <1>5, <1>6, <1>7, CodeTypes DEF CodeInv, CodeSafety, RunsStay,
     CompletedIsOver, OneActiveRun, Busy, ActiveStatuses, FinalStatuses
<1> QED
  BY <1>1, <1>2, <1>3, <1>4, <1>5, <1>6, <1>7, <1>8, <1>9, <1>10, <1>11, <1>12, <1>13, <1>14,
     <1>15, <1>16, <1>17, <1>18, <1>19, <1>20, <1>21, <1>22, <1>23, <1>24, <1>25, <1>26, <1>27
     DEF CodeInv, CodeSafety

\* The run is over already.
LEMMA CodeBindsNothing == ASSUME CodeInv, NEW o \in Operations, Bind(o), ~IsActive(o) PROVE
           CodeInv' /\ RunsStay
<1>1. UNCHANGED <<service, closer, crashes, storage, session, current, runs, prompt, sends,
   connection, loaded, events, process, native, hand, interrupter, deleter, halter, answerer>>
  BY DEF Bind, serverVars, linkVars, helpers
<1>2. EventsFit' /\ Waiting' = Waiting
  BY <1>1 DEF CodeInv, EventsFit, Waiting
<1>3. job[o].stage = "bind"
  BY DEF Bind
<1>4. /\ job' \in [Operations -> JobRecords]
      /\ job'[o].stage = "final" /\ job'[o].generation = job[o].generation
      /\ job'[o].thread = job[o].thread /\ job'[o].late = job[o].late
      /\ \A p \in Operations : p # o => job'[p] = job[p]
  <2>1. "final" \in JobStages /\ Goes(o, "final")
    BY DEF Bind, JobStages
  <2> QED
    BY <2>1, CodeTypes, JobGoes DEF CodeInv, CodeSafety
<1>5. CodeTypeOK'
  BY <1>1, <1>2, <1>3, <1>4, CodeTypes, Numbers DEF CodeInv, CodeSafety, CodeTypeOK, RunRecords,
     RunStatuses, PromptRecords, SendRecords, ProcessRecords, NativeRecords, JobRecords,
     SessionRecords, SessionStatuses, DeleterRecords, DeleterStages, AnswererRecords,
     InterrupterStages, Closers
<1>6. OneActiveRun' /\ CompletedIsOver' /\ DeletionIsDecided' /\ TurnsFit' /\ DeletedIsGone' /\
   InputNeverResent'
  BY <1>1, <1>2, PartsRest
<1>7. JobsFit'
  BY <1>1, <1>3, <1>4, CodeTyped, Numbers DEF CodeInv, JobsFit, Unopened, Unfed, Connected
<1>8. ProcessesAreOwned'
  BY <1>1, <1>3, <1>4, CodeTypes DEF CodeInv, CodeSafety, ProcessesAreOwned, NobodyIsLate,
     HandsFit
<1>9. ClosedIsQuiet'
  BY <1>1, <1>3, <1>4, CodeTypes DEF CodeInv, CodeSafety, ClosedIsQuiet, NobodyIsLate, Saves,
     Busy, IsActive, ActiveStatuses
<1>10. ServiceFits'
  BY <1>1, <1>3, <1>4, CodeTyped DEF CodeInv, ServiceFits, Saves, Busy, IsActive, ActiveStatuses
<1>11. FedFits'
  BY <1>1, <1>3, <1>4, CodeTyped DEF CodeInv, FedFits
<1>12. ProcessesFit'
  BY <1>1, <1>3, <1>4, CodeTyped, Numbers, TaskNames, Generated DEF CodeInv, ProcessesFit
<1>13. HandsFit'
  BY <1>1, <1>3, <1>4, CodeTyped, TaskNames, Numbers DEF CodeInv, HandsFit
<1>14. EventsAreTrue'
  BY <1>1, <1>2, <1>3, <1>4, CodeTyped, EventsOf, Generated, Numbers DEF CodeInv, EventsAreTrue,
     Busy, IsActive, ActiveStatuses
<1>15. StartsAreActive'
  BY <1>1, <1>3, <1>4, CodeTyped, JobsHaveProcesses DEF CodeInv, StartsAreActive, Busy, IsActive,
     ActiveStatuses
<1>16. OpeningIsUnasked'
  BY <1>1, <1>3, <1>4, CodeTyped, Generated, Numbers DEF CodeInv, OpeningIsUnasked, PromptOpen,
     Opening, Busy, IsActive, ActiveStatuses
<1>17. AnswererFits'
  BY <1>1, <1>2, <1>3, <1>4, CodeTyped, AnswererOf, JobsHaveProcesses DEF CodeInv, AnswererFits,
     Unopened, Connected
<1>18. ShutFits'
  BY <1>1, <1>2, <1>3, <1>4, CodeTyped, JobsHaveProcesses DEF CodeInv, ShutFits
<1>19. PlaceIsFree'
  BY <1>1, <1>3, <1>4, CodeTyped DEF CodeInv, PlaceIsFree, NobodyIsLate, Opening, Connected
<1>20. GoneStays'
  BY <1>1, <1>3, <1>4, CodeTyped, JobsHaveProcesses DEF CodeInv, GoneStays
<1>21. RunsStay
  BY <1>1 DEF RunsStay
<1> QED
  BY <1>1, <1>2, <1>3, <1>4, <1>5, <1>6, <1>7, <1>8, <1>9, <1>10, <1>11, <1>12, <1>13, <1>14,
     <1>15, <1>16, <1>17, <1>18, <1>19, <1>20, <1>21 DEF CodeInv, CodeSafety

\* The task has its answer.
LEMMA CodeBind == ASSUME CodeInv, NEW o \in Operations, Bind(o) PROVE CodeInv' /\ RunsStay
<1>1. CASE IsActive(o)
  BY <1>1, CodeBinds DEF Bind, Binds
<1>2. CASE ~IsActive(o)
  BY <1>2, CodeBindsNothing
<1> QED
  BY <1>1, <1>2

\* The run fails: its connection is closed first.
LEMMA CodeFailsActive == ASSUME CodeInv, NEW o \in Operations, Fail(o), IsActive(o) PROVE
           CodeInv' /\ RunsStay
<1>1. UNCHANGED <<service, closer, crashes, storage, session, current, runs, prompt, sends,
   process, native, interrupter, deleter, halter, answerer>>
  BY DEF Fail, Detach, serverVars, stored, linkVars, helpers
<1>2. job[o].stage = "fail"
  BY DEF Fail
<1>3. hand[Task("job", o)] = 0
  BY CodeTypes DEF Fail, CodeInv, CodeSafety, HandsFit
<1>4. /\ job' \in [Operations -> JobRecords]
      /\ job'[o].stage = "closeFailed" /\ job'[o].generation = job[o].generation
      /\ job'[o].thread = job[o].thread /\ job'[o].late = job[o].late
      /\ \A p \in Operations : p # o => job'[p] = job[p]
  <2>1. "closeFailed" \in JobStages /\ Goes(o, "closeFailed")
    BY DEF Fail, JobStages
  <2> QED
    BY <2>1, CodeTypes, JobGoes DEF CodeInv, CodeSafety
<1>5. /\ Task("job", o) \in Tasks
      /\ hand' \in [Tasks -> 0..MaxConnections] /\ hand'[Task("job", o)] = connection
      /\ \A s \in Tasks : s # Task("job", o) => hand'[s] = hand[s]
      /\ connection' = 0 /\ loaded' = 0 /\ EventsFit' /\ Waiting' = {}
  BY TaskNames, Detaches DEF Fail, CodeInv, CodeSafety
<1>6. CodeTypeOK'
  BY <1>1, <1>2, <1>3, <1>4, <1>5, CodeTypes, Numbers DEF CodeInv, CodeSafety, CodeTypeOK,
     RunRecords, RunStatuses, PromptRecords, SendRecords, ProcessRecords, NativeRecords,
     JobRecords, SessionRecords, SessionStatuses, DeleterRecords, DeleterStages, AnswererRecords,
     InterrupterStages, Closers
<1>7. OneActiveRun' /\ CompletedIsOver' /\ DeletionIsDecided' /\ TurnsFit' /\ DeletedIsGone' /\
   InputNeverResent'
  BY <1>1, PartsRest
<1>8. JobsFit'
  BY <1>1, <1>2, <1>3, <1>4, CodeTyped, Numbers DEF CodeInv, JobsFit, Unopened, Unfed, Connected
<1>9. ProcessesAreOwned'
  BY <1>1, <1>2, <1>3, <1>4, <1>5, CodeTypes DEF CodeInv, CodeSafety, ProcessesAreOwned,
     NobodyIsLate, HandsFit
<1>10. ClosedIsQuiet'
  BY <1>1, <1>2, <1>3, <1>4, CodeTypes DEF CodeInv, CodeSafety, ClosedIsQuiet, NobodyIsLate,
     Saves, Busy, IsActive, ActiveStatuses
<1>11. ServiceFits'
  BY <1>1, <1>2, <1>3, <1>4, CodeTyped DEF CodeInv, ServiceFits, Saves, Busy, IsActive,
     ActiveStatuses
<1>12. FedFits'
  BY <1>1, <1>2, <1>3, <1>4, CodeTyped DEF CodeInv, FedFits
<1>13. ProcessesFit'
  BY <1>1, <1>2, <1>3, <1>4, <1>5, CodeTyped, Numbers, TaskNames, Generated DEF CodeInv,
     ProcessesFit
<1>14. HandsFit'
  BY <1>1, <1>2, <1>3, <1>4, <1>5, CodeTyped, TaskNames, Numbers DEF CodeInv, HandsFit
<1>15. EventsAreTrue'
  BY <1>1, <1>2, <1>3, <1>4, <1>5, CodeTyped, EventsOf, Generated, Numbers DEF CodeInv,
     EventsAreTrue, Busy, IsActive, ActiveStatuses
<1>16. StartsAreActive'
  BY <1>1, <1>2, <1>3, <1>4, <1>5, CodeTyped, JobsHaveProcesses DEF CodeInv, StartsAreActive,
     Busy, IsActive, ActiveStatuses
<1>17. OpeningIsUnasked'
  BY <1>1, <1>2, <1>3, <1>4, <1>5, CodeTyped, Generated, Numbers DEF CodeInv, OpeningIsUnasked,
     PromptOpen, Opening, Busy, IsActive, ActiveStatuses
<1>18. AnswererFits'
  BY <1>1, <1>2, <1>3, <1>4, <1>5, CodeTyped, AnswererOf, JobsHaveProcesses DEF CodeInv,
     AnswererFits, Unopened, Connected
<1>19. ShutFits'
  BY <1>1, <1>2, <1>3, <1>4, <1>5, CodeTyped, JobsHaveProcesses DEF CodeInv, ShutFits
<1>20. PlaceIsFree'
  BY <1>1, <1>2, <1>3, <1>4, <1>5, CodeTyped DEF CodeInv, PlaceIsFree, NobodyIsLate, Opening,
     Connected
<1>21. GoneStays'
  BY <1>1, <1>2, <1>3, <1>4, <1>5, CodeTyped, JobsHaveProcesses DEF CodeInv, GoneStays
<1>22. RunsStay
  BY <1>1 DEF RunsStay
<1> QED
  BY <1>1, <1>2, <1>3, <1>4, <1>5, <1>6, <1>7, <1>8, <1>9, <1>10, <1>11, <1>12, <1>13, <1>14,
     <1>15, <1>16, <1>17, <1>18, <1>19, <1>20, <1>21, <1>22 DEF CodeInv, CodeSafety

\* It is over already.
LEMMA CodeFailsOver == ASSUME CodeInv, NEW o \in Operations, Fail(o), ~IsActive(o) PROVE CodeInv'
           /\ RunsStay
<1>1. UNCHANGED <<service, closer, crashes, storage, session, current, runs, prompt, sends,
   connection, loaded, events, process, native, hand, interrupter, deleter, halter, answerer>>
  BY DEF Fail, serverVars, stored, linkVars, helpers
<1>2. EventsFit' /\ Waiting' = Waiting
  BY <1>1 DEF CodeInv, EventsFit, Waiting
<1>3. job[o].stage = "fail"
  BY DEF Fail
<1>4. /\ job' \in [Operations -> JobRecords]
      /\ job'[o].stage = "final" /\ job'[o].generation = job[o].generation
      /\ job'[o].thread = job[o].thread /\ job'[o].late = job[o].late
      /\ \A p \in Operations : p # o => job'[p] = job[p]
  <2>1. "final" \in JobStages /\ Goes(o, "final")
    BY DEF Fail, JobStages
  <2> QED
    BY <2>1, CodeTypes, JobGoes DEF CodeInv, CodeSafety
<1>5. CodeTypeOK'
  BY <1>1, <1>2, <1>3, <1>4, CodeTypes, Numbers DEF CodeInv, CodeSafety, CodeTypeOK, RunRecords,
     RunStatuses, PromptRecords, SendRecords, ProcessRecords, NativeRecords, JobRecords,
     SessionRecords, SessionStatuses, DeleterRecords, DeleterStages, AnswererRecords,
     InterrupterStages, Closers
<1>6. OneActiveRun' /\ CompletedIsOver' /\ DeletionIsDecided' /\ TurnsFit' /\ DeletedIsGone' /\
   InputNeverResent'
  BY <1>1, <1>2, PartsRest
<1>7. JobsFit'
  BY <1>1, <1>3, <1>4, CodeTyped, Numbers DEF CodeInv, JobsFit, Unopened, Unfed, Connected
<1>8. ProcessesAreOwned'
  BY <1>1, <1>3, <1>4, CodeTypes DEF CodeInv, CodeSafety, ProcessesAreOwned, NobodyIsLate,
     HandsFit
<1>9. ClosedIsQuiet'
  BY <1>1, <1>3, <1>4, CodeTypes DEF CodeInv, CodeSafety, ClosedIsQuiet, NobodyIsLate, Saves,
     Busy, IsActive, ActiveStatuses
<1>10. ServiceFits'
  BY <1>1, <1>3, <1>4, CodeTyped DEF CodeInv, ServiceFits, Saves, Busy, IsActive, ActiveStatuses
<1>11. FedFits'
  BY <1>1, <1>3, <1>4, CodeTyped DEF CodeInv, FedFits
<1>12. ProcessesFit'
  BY <1>1, <1>3, <1>4, CodeTyped, Numbers, TaskNames, Generated DEF CodeInv, ProcessesFit
<1>13. HandsFit'
  BY <1>1, <1>3, <1>4, CodeTyped, TaskNames, Numbers DEF CodeInv, HandsFit
<1>14. EventsAreTrue'
  BY <1>1, <1>2, <1>3, <1>4, CodeTyped, EventsOf, Generated, Numbers DEF CodeInv, EventsAreTrue,
     Busy, IsActive, ActiveStatuses
<1>15. StartsAreActive'
  BY <1>1, <1>3, <1>4, CodeTyped, JobsHaveProcesses DEF CodeInv, StartsAreActive, Busy, IsActive,
     ActiveStatuses
<1>16. OpeningIsUnasked'
  BY <1>1, <1>3, <1>4, CodeTyped, Generated, Numbers DEF CodeInv, OpeningIsUnasked, PromptOpen,
     Opening, Busy, IsActive, ActiveStatuses
<1>17. AnswererFits'
  BY <1>1, <1>2, <1>3, <1>4, CodeTyped, AnswererOf, JobsHaveProcesses DEF CodeInv, AnswererFits,
     Unopened, Connected
<1>18. ShutFits'
  BY <1>1, <1>2, <1>3, <1>4, CodeTyped, JobsHaveProcesses DEF CodeInv, ShutFits
<1>19. PlaceIsFree'
  BY <1>1, <1>3, <1>4, CodeTyped DEF CodeInv, PlaceIsFree, NobodyIsLate, Opening, Connected
<1>20. GoneStays'
  BY <1>1, <1>3, <1>4, CodeTyped, JobsHaveProcesses DEF CodeInv, GoneStays
<1>21. RunsStay
  BY <1>1 DEF RunsStay
<1> QED
  BY <1>1, <1>2, <1>3, <1>4, <1>5, <1>6, <1>7, <1>8, <1>9, <1>10, <1>11, <1>12, <1>13, <1>14,
     <1>15, <1>16, <1>17, <1>18, <1>19, <1>20, <1>21 DEF CodeInv, CodeSafety

\* Its process has ended.
LEMMA CodeClosedFailed == ASSUME CodeInv, NEW o \in Operations, ClosedFailed(o) PROVE CodeInv' /\
           RunsStay
<1>1. UNCHANGED <<service, closer, crashes, storage, current, runs, sends, connection, loaded,
   events, process, native, interrupter, deleter, halter, answerer>>
  BY DEF ClosedFailed, AfterClose, serverVars, linkVars, helpers
<1>2. EventsFit' /\ Waiting' = Waiting
  BY <1>1 DEF CodeInv, EventsFit, Waiting
<1>3. job[o].stage = "closeFailed"
  BY DEF ClosedFailed
<1>4. /\ job' \in [Operations -> JobRecords]
      /\ job'[o].stage = "settle" /\ job'[o].generation = job[o].generation
      /\ job'[o].thread = job[o].thread /\ job'[o].late = job[o].late
      /\ \A p \in Operations : p # o => job'[p] = job[p]
  <2>1. "settle" \in JobStages /\ Goes(o, "settle")
    BY DEF ClosedFailed, JobStages
  <2> QED
    BY <2>1, CodeTypes, JobGoes DEF CodeInv, CodeSafety
<1>5. /\ Task("job", o) \in Tasks
      /\ hand' \in [Tasks -> 0..MaxConnections] /\ hand'[Task("job", o)] = 0
      /\ \A s \in Tasks : s # Task("job", o) => hand'[s] = hand[s]
      /\ hand[Task("job", o)] # 0 => process[hand[Task("job", o)]].state = "dead"
      /\ prompt' \in {prompt, NoPrompt} /\ prompt' \in PromptRecords
      /\ session' \in SessionRecords
      /\ session'.status = session.status /\ session'.fed = session.fed
      /\ session.thread # 0 => session'.thread = session.thread
  BY TaskNames, ClosesAfter DEF ClosedFailed, CodeInv, CodeSafety
<1>6. NoPrompt.status = "none" /\ NoPrompt.generation = 0 /\ NoPrompt.turn = 0
  BY PromptIsNone
<1>7. session.fed => session'.thread = session.thread
  BY <1>5 DEF CodeInv, FedFits
<1>8. CodeTypeOK'
  BY <1>1, <1>2, <1>3, <1>4, <1>5, <1>6, <1>7, CodeTypes, Numbers DEF CodeInv, CodeSafety,
     CodeTypeOK, RunRecords, RunStatuses, PromptRecords, SendRecords, ProcessRecords,
     NativeRecords, JobRecords, SessionRecords, SessionStatuses, DeleterRecords, DeleterStages,
     AnswererRecords, InterrupterStages, Closers
<1>9. OneActiveRun' /\ CompletedIsOver' /\ TurnsFit' /\ InputNeverResent'
  BY <1>1, <1>2, PartsRest
<1>10. JobsFit'
  BY <1>1, <1>3, <1>4, <1>5, <1>7, CodeTyped, Numbers DEF CodeInv, JobsFit, Unopened, Unfed,
     Connected
<1>11. ProcessesAreOwned'
  BY <1>1, <1>3, <1>4, <1>5, CodeTypes DEF CodeInv, CodeSafety, ProcessesAreOwned, NobodyIsLate,
     HandsFit
<1>12. ClosedIsQuiet'
  BY <1>1, <1>3, <1>4, CodeTypes DEF CodeInv, CodeSafety, ClosedIsQuiet, NobodyIsLate, Saves,
     Busy, ActiveStatuses
<1>13. DeletionIsDecided'
  BY <1>1, <1>3, <1>5, <1>7, CodeTypes DEF CodeInv, CodeSafety, DeletionIsDecided, Saves
<1>14. ServiceFits'
  BY <1>1, <1>3, <1>4, <1>5, <1>7, CodeTyped DEF CodeInv, ServiceFits, Saves, Busy,
     ActiveStatuses
<1>15. FedFits'
  BY <1>1, <1>3, <1>4, <1>5, <1>7, CodeTyped DEF CodeInv, FedFits
<1>16. ProcessesFit'
  BY <1>1, <1>3, <1>4, <1>5, <1>6, CodeTyped, Numbers, TaskNames, Generated DEF CodeInv,
     ProcessesFit
<1>17. HandsFit'
  BY <1>1, <1>3, <1>4, <1>5, CodeTyped, TaskNames, Numbers DEF CodeInv, HandsFit
<1>18. EventsAreTrue'
  BY <1>1, <1>2, <1>3, <1>4, CodeTyped, EventsOf, Generated, Numbers DEF CodeInv, EventsAreTrue,
     Busy, IsActive, ActiveStatuses
<1>19. StartsAreActive'
  BY <1>1, <1>3, <1>4, CodeTyped, JobsHaveProcesses DEF CodeInv, StartsAreActive, Busy, IsActive,
     ActiveStatuses
<1>20. OpeningIsUnasked'
  BY <1>1, <1>3, <1>4, <1>5, <1>6, CodeTyped, Generated, Numbers DEF CodeInv, OpeningIsUnasked,
     PromptOpen, Opening, Busy, ActiveStatuses
<1>21. AnswererFits'
  BY <1>1, <1>2, <1>3, <1>4, CodeTyped, AnswererOf, JobsHaveProcesses DEF CodeInv, AnswererFits,
     Unopened, Connected
<1>22. ShutFits'
  BY <1>1, <1>2, <1>3, <1>4, CodeTyped, JobsHaveProcesses DEF CodeInv, ShutFits
<1>23. PlaceIsFree'
  BY <1>1, <1>3, <1>4, CodeTyped DEF CodeInv, PlaceIsFree, NobodyIsLate, Opening, Connected
<1>24. GoneStays'
  BY <1>1, <1>3, <1>4, <1>5, <1>7, CodeTyped, JobsHaveProcesses DEF CodeInv, GoneStays
<1>25. DeletedIsGone'
  BY <1>24 DEF DeletedIsGone, GoneStays
<1>26. RunsStay
  BY <1>1 DEF RunsStay
<1> QED
  BY <1>1, <1>2, <1>3, <1>4, <1>5, <1>6, <1>7, <1>8, <1>9, <1>10, <1>11, <1>12, <1>13, <1>14,
     <1>15, <1>16, <1>17, <1>18, <1>19, <1>20, <1>21, <1>22, <1>23, <1>24, <1>25, <1>26 DEF
     CodeInv, CodeSafety

\* The run that failed is finished.
LEMMA CodeSettlesFailed == ASSUME CodeInv, NEW o \in Operations, Settle(o), IsActive(o), Saves
           PROVE CodeInv' /\ RunsStay
<1>1. UNCHANGED <<service, closer, crashes, storage, session, current, connection, loaded,
   events, process, native, hand, interrupter, deleter, halter, answerer>>
  BY DEF Settle, Finish, serverVars, stored, linkVars, helpers
<1>2. EventsFit' /\ Waiting' = Waiting
  BY <1>1 DEF CodeInv, EventsFit, Waiting
<1>3. job[o].stage = "settle"
  BY DEF Settle
<1>4. /\ job' \in [Operations -> JobRecords]
      /\ job'[o].stage = "final" /\ job'[o].generation = job[o].generation
      /\ job'[o].thread = job[o].thread /\ job'[o].late = job[o].late
      /\ \A p \in Operations : p # o => job'[p] = job[p]
  <2>1. "final" \in JobStages /\ Goes(o, "final")
    BY DEF Settle, JobStages
  <2> QED
    BY <2>1, CodeTypes, JobGoes DEF CodeInv, CodeSafety
<1>5. current \in Operations /\ Busy /\ o = current
  BY CodeTypes DEF IsActive, CodeInv, CodeSafety
<1>6. /\ runs' \in [Operations -> RunRecords]
      /\ runs'[current].status \in {"interrupted", "failed"}
          /\ runs'[current].turn = runs[current].turn
      /\ \A p \in Operations : p # current => runs'[p] = runs[p]
      /\ prompt' \in {prompt, NoPrompt} /\ prompt' \in PromptRecords
      /\ sends' \in [Senders -> SendRecords]
      /\ session' = session /\ current' = current
  <2>1. PICK s \in {"interrupted", "failed"} : Finish(s)
    BY DEF Settle
  <2>2. s \in FinalStatuses
    BY <2>1 DEF FinalStatuses
  <2> QED
    BY <1>5, <2>1, <2>2, RunFinishes DEF CodeInv, CodeSafety
<1>7. \A e \in Waiting : e.kind = "started" => runs[e.of].turn = e.of
  BY <1>3, <1>5, EventsOf DEF CodeInv, EventsAreTrue, IsActive
<1>8. \A p \in Operations : job[p].stage = "start" => connection # job[p].generation
  BY <1>3, <1>5 DEF CodeInv, StartsAreActive, IsActive
<1>9. NoPrompt.status = "none" /\ NoPrompt.generation = 0 /\ NoPrompt.turn = 0
  BY PromptIsNone
<1>10. CodeTypeOK'
  BY <1>1, <1>2, <1>3, <1>4, <1>5, <1>6, <1>7, <1>8, <1>9, CodeTypes, Numbers DEF CodeInv,
     CodeSafety, CodeTypeOK, RunRecords, RunStatuses, PromptRecords, SendRecords, ProcessRecords,
     NativeRecords, JobRecords, SessionRecords, SessionStatuses, DeleterRecords, DeleterStages,
     AnswererRecords, InterrupterStages, Closers
<1>11. DeletionIsDecided' /\ DeletedIsGone' /\ InputNeverResent'
  BY <1>1, <1>2, PartsRest
<1>12. JobsFit'
  BY <1>1, <1>3, <1>4, <1>5, <1>6, <1>7, <1>8, CodeTyped, Numbers DEF CodeInv, JobsFit, Busy,
     ActiveStatuses, Unopened, Unfed, Connected
<1>13. OneActiveRun'
  BY <1>1, <1>3, <1>5, <1>6, <1>7, <1>8, CodeTypes, Numbers DEF CodeInv, CodeSafety,
     OneActiveRun, Busy, IsActive, ActiveStatuses
<1>14. CompletedIsOver'
  BY <1>1, <1>3, <1>5, <1>6, <1>7, <1>8, CodeTypes, Numbers DEF CodeInv, CodeSafety,
     CompletedIsOver
<1>15. ProcessesAreOwned'
  BY <1>1, <1>3, <1>4, <1>5, <1>7, <1>8, CodeTypes DEF CodeInv, CodeSafety, ProcessesAreOwned,
     NobodyIsLate, HandsFit
<1>16. ClosedIsQuiet'
  BY <1>1, <1>3, <1>4, <1>5, <1>6, <1>7, <1>8, CodeTypes DEF CodeInv, CodeSafety, ClosedIsQuiet,
     NobodyIsLate, Saves, Busy, IsActive, ActiveStatuses
<1>17. ServiceFits'
  BY <1>1, <1>3, <1>4, <1>5, <1>6, <1>7, <1>8, CodeTyped DEF CodeInv, ServiceFits, Saves, Busy,
     IsActive, ActiveStatuses
<1>18. FedFits'
  BY <1>1, <1>3, <1>4, <1>5, <1>6, <1>7, <1>8, CodeTyped DEF CodeInv, FedFits
<1>19. TurnsFit'
  BY <1>1, <1>3, <1>5, <1>6, <1>7, <1>8, CodeTyped DEF CodeInv, TurnsFit
<1>20. ProcessesFit'
  BY <1>1, <1>3, <1>4, <1>5, <1>6, <1>7, <1>8, <1>9, CodeTyped, Numbers, TaskNames, Generated DEF
     CodeInv, ProcessesFit
<1>21. HandsFit'
  BY <1>1, <1>3, <1>4, <1>5, <1>7, <1>8, CodeTyped, TaskNames, Numbers DEF CodeInv, HandsFit
<1>22. EventsAreTrue'
  BY <1>1, <1>2, <1>3, <1>4, <1>5, <1>6, <1>7, <1>8, CodeTyped, EventsOf, Generated, Numbers DEF
     CodeInv, EventsAreTrue, Busy, IsActive, ActiveStatuses
<1>23. StartsAreActive'
  BY <1>1, <1>3, <1>4, <1>5, <1>6, <1>7, <1>8, CodeTyped, JobsHaveProcesses DEF CodeInv,
     StartsAreActive, Busy, IsActive, ActiveStatuses
<1>24. OpeningIsUnasked'
  BY <1>1, <1>3, <1>4, <1>5, <1>6, <1>7, <1>8, <1>9, CodeTyped, Generated, Numbers DEF CodeInv,
     OpeningIsUnasked, PromptOpen, Opening, Busy, IsActive, ActiveStatuses
<1>25. AnswererFits'
  BY <1>1, <1>2, <1>3, <1>4, <1>5, <1>7, <1>8, CodeTyped, AnswererOf, JobsHaveProcesses DEF
     CodeInv, AnswererFits, Unopened, Connected
<1>26. ShutFits'
  BY <1>1, <1>2, <1>3, <1>4, <1>5, <1>7, <1>8, CodeTyped, JobsHaveProcesses DEF CodeInv, ShutFits
<1>27. PlaceIsFree'
  BY <1>1, <1>3, <1>4, <1>5, <1>6, <1>7, <1>8, CodeTyped DEF CodeInv, PlaceIsFree, NobodyIsLate,
     Opening, Connected
<1>28. GoneStays'
  BY <1>1, <1>3, <1>4, <1>5, <1>6, <1>7, <1>8, CodeTyped, JobsHaveProcesses DEF CodeInv,
     GoneStays
<1>29. RunsStay
  BY <1>1, <1>2, <1>3, <1>4, <1>5, <1>6, <1>7, <1>8, <1>9, CodeTypes DEF CodeInv, CodeSafety,
     RunsStay, CompletedIsOver, OneActiveRun, Busy, IsActive, ActiveStatuses, FinalStatuses
<1> QED
  BY <1>1, <1>2, <1>3, <1>4, <1>5, <1>6, <1>7, <1>8, <1>9, <1>10, <1>11, <1>12, <1>13, <1>14,
     <1>15, <1>16, <1>17, <1>18, <1>19, <1>20, <1>21, <1>22, <1>23, <1>24, <1>25, <1>26, <1>27,
     <1>28, <1>29 DEF CodeInv, CodeSafety

\* It is over already, or cannot be saved.
LEMMA CodeSettlesOver == ASSUME CodeInv, NEW o \in Operations, Settle(o), ~(IsActive(o) /\ Saves)
           PROVE CodeInv' /\ RunsStay
<1>1. UNCHANGED <<service, closer, crashes, storage, session, current, runs, prompt, sends,
   connection, loaded, events, process, native, hand, interrupter, deleter, halter, answerer>>
  BY DEF Settle, serverVars, stored, linkVars, helpers
<1>2. EventsFit' /\ Waiting' = Waiting
  BY <1>1 DEF CodeInv, EventsFit, Waiting
<1>3. job[o].stage = "settle"
  BY DEF Settle
<1>4. /\ job' \in [Operations -> JobRecords]
      /\ job'[o].stage = "final" /\ job'[o].generation = job[o].generation
      /\ job'[o].thread = job[o].thread /\ job'[o].late = job[o].late
      /\ \A p \in Operations : p # o => job'[p] = job[p]
  <2>1. "final" \in JobStages /\ Goes(o, "final")
    BY DEF Settle, JobStages
  <2> QED
    BY <2>1, CodeTypes, JobGoes DEF CodeInv, CodeSafety
<1>5. CodeTypeOK'
  BY <1>1, <1>2, <1>3, <1>4, CodeTypes, Numbers DEF CodeInv, CodeSafety, CodeTypeOK, RunRecords,
     RunStatuses, PromptRecords, SendRecords, ProcessRecords, NativeRecords, JobRecords,
     SessionRecords, SessionStatuses, DeleterRecords, DeleterStages, AnswererRecords,
     InterrupterStages, Closers
<1>6. OneActiveRun' /\ CompletedIsOver' /\ DeletionIsDecided' /\ TurnsFit' /\ DeletedIsGone' /\
   InputNeverResent'
  BY <1>1, <1>2, PartsRest
<1>7. JobsFit'
  BY <1>1, <1>3, <1>4, CodeTyped, Numbers DEF CodeInv, JobsFit, Unopened, Unfed, Connected
<1>8. ProcessesAreOwned'
  BY <1>1, <1>3, <1>4, CodeTypes DEF CodeInv, CodeSafety, ProcessesAreOwned, NobodyIsLate,
     HandsFit
<1>9. ClosedIsQuiet'
  BY <1>1, <1>3, <1>4, CodeTypes DEF CodeInv, CodeSafety, ClosedIsQuiet, NobodyIsLate, Saves,
     Busy, IsActive, ActiveStatuses
<1>10. ServiceFits'
  BY <1>1, <1>3, <1>4, CodeTyped DEF CodeInv, ServiceFits, Saves, Busy, IsActive, ActiveStatuses
<1>11. FedFits'
  BY <1>1, <1>3, <1>4, CodeTyped DEF CodeInv, FedFits
<1>12. ProcessesFit'
  BY <1>1, <1>3, <1>4, CodeTyped, Numbers, TaskNames, Generated DEF CodeInv, ProcessesFit
<1>13. HandsFit'
  BY <1>1, <1>3, <1>4, CodeTyped, TaskNames, Numbers DEF CodeInv, HandsFit
<1>14. EventsAreTrue'
  BY <1>1, <1>2, <1>3, <1>4, CodeTyped, EventsOf, Generated, Numbers DEF CodeInv, EventsAreTrue,
     Busy, IsActive, ActiveStatuses
<1>15. StartsAreActive'
  BY <1>1, <1>3, <1>4, CodeTyped, JobsHaveProcesses DEF CodeInv, StartsAreActive, Busy, IsActive,
     ActiveStatuses
<1>16. OpeningIsUnasked'
  BY <1>1, <1>3, <1>4, CodeTyped, Generated, Numbers DEF CodeInv, OpeningIsUnasked, PromptOpen,
     Opening, Busy, IsActive, ActiveStatuses
<1>17. AnswererFits'
  BY <1>1, <1>2, <1>3, <1>4, CodeTyped, AnswererOf, JobsHaveProcesses DEF CodeInv, AnswererFits,
     Unopened, Connected
<1>18. ShutFits'
  BY <1>1, <1>2, <1>3, <1>4, CodeTyped, JobsHaveProcesses DEF CodeInv, ShutFits
<1>19. PlaceIsFree'
  BY <1>1, <1>3, <1>4, CodeTyped DEF CodeInv, PlaceIsFree, NobodyIsLate, Opening, Connected
<1>20. GoneStays'
  BY <1>1, <1>3, <1>4, CodeTyped, JobsHaveProcesses DEF CodeInv, GoneStays
<1>21. RunsStay
  BY <1>1 DEF RunsStay
<1> QED
  BY <1>1, <1>2, <1>3, <1>4, <1>5, <1>6, <1>7, <1>8, <1>9, <1>10, <1>11, <1>12, <1>13, <1>14,
     <1>15, <1>16, <1>17, <1>18, <1>19, <1>20, <1>21 DEF CodeInv, CodeSafety

\* A task that ends closes a connection that nobody will need.
LEMMA CodeEndClosing == ASSUME CodeInv, NEW o \in Operations, EndWork(o), Detach(Task("job", o)),
           Goes(o, "closeFinal") PROVE CodeInv' /\ RunsStay
<1>1. UNCHANGED <<service, closer, crashes, storage, session, current, runs, prompt, sends,
   process, native, interrupter, deleter, halter, answerer>>
  BY DEF EndWork, Detach, serverVars, stored, linkVars, helpers
<1>2. job[o].stage = "final"
  BY DEF EndWork
<1>3. hand[Task("job", o)] = 0
  BY CodeTypes DEF EndWork, CodeInv, CodeSafety, HandsFit
<1>4. /\ job' \in [Operations -> JobRecords]
      /\ job'[o].stage = "closeFinal" /\ job'[o].generation = job[o].generation
      /\ job'[o].thread = job[o].thread /\ job'[o].late = job[o].late
      /\ \A p \in Operations : p # o => job'[p] = job[p]
  <2>1. "closeFinal" \in JobStages /\ Goes(o, "closeFinal")
    BY DEF EndWork, JobStages
  <2> QED
    BY <2>1, CodeTypes, JobGoes DEF CodeInv, CodeSafety
<1>5. /\ Task("job", o) \in Tasks
      /\ hand' \in [Tasks -> 0..MaxConnections] /\ hand'[Task("job", o)] = connection
      /\ \A s \in Tasks : s # Task("job", o) => hand'[s] = hand[s]
      /\ connection' = 0 /\ loaded' = 0 /\ EventsFit' /\ Waiting' = {}
  BY TaskNames, Detaches DEF EndWork, CodeInv, CodeSafety
<1>6. CodeTypeOK'
  BY <1>1, <1>2, <1>3, <1>4, <1>5, CodeTypes, Numbers DEF CodeInv, CodeSafety, CodeTypeOK,
     RunRecords, RunStatuses, PromptRecords, SendRecords, ProcessRecords, NativeRecords,
     JobRecords, SessionRecords, SessionStatuses, DeleterRecords, DeleterStages, AnswererRecords,
     InterrupterStages, Closers
<1>7. OneActiveRun' /\ CompletedIsOver' /\ DeletionIsDecided' /\ TurnsFit' /\ DeletedIsGone' /\
   InputNeverResent'
  BY <1>1, PartsRest
<1>8. JobsFit'
  BY <1>1, <1>2, <1>3, <1>4, CodeTyped, Numbers DEF CodeInv, JobsFit, Unopened, Unfed, Connected
<1>9. ProcessesAreOwned'
  BY <1>1, <1>2, <1>3, <1>4, <1>5, CodeTypes DEF CodeInv, CodeSafety, ProcessesAreOwned,
     NobodyIsLate, HandsFit
<1>10. ClosedIsQuiet'
  BY <1>1, <1>2, <1>3, <1>4, CodeTypes DEF CodeInv, CodeSafety, ClosedIsQuiet, NobodyIsLate,
     Saves, Busy, ActiveStatuses
<1>11. ServiceFits'
  BY <1>1, <1>2, <1>3, <1>4, CodeTyped DEF CodeInv, ServiceFits, Saves, Busy, ActiveStatuses
<1>12. FedFits'
  BY <1>1, <1>2, <1>3, <1>4, CodeTyped DEF CodeInv, FedFits
<1>13. ProcessesFit'
  BY <1>1, <1>2, <1>3, <1>4, <1>5, CodeTyped, Numbers, TaskNames, Generated DEF CodeInv,
     ProcessesFit
<1>14. HandsFit'
  BY <1>1, <1>2, <1>3, <1>4, <1>5, CodeTyped, TaskNames, Numbers DEF CodeInv, HandsFit
<1>15. EventsAreTrue'
  BY <1>1, <1>2, <1>3, <1>4, <1>5, CodeTyped, EventsOf, Generated, Numbers DEF CodeInv,
     EventsAreTrue, Busy, IsActive, ActiveStatuses
<1>16. StartsAreActive'
  BY <1>1, <1>2, <1>3, <1>4, <1>5, CodeTyped, JobsHaveProcesses DEF CodeInv, StartsAreActive,
     Busy, IsActive, ActiveStatuses
<1>17. OpeningIsUnasked'
  BY <1>1, <1>2, <1>3, <1>4, <1>5, CodeTyped, Generated, Numbers DEF CodeInv, OpeningIsUnasked,
     PromptOpen, Opening, Busy, ActiveStatuses
<1>18. AnswererFits'
  BY <1>1, <1>2, <1>3, <1>4, <1>5, CodeTyped, AnswererOf, JobsHaveProcesses DEF CodeInv,
     AnswererFits, Unopened, Connected
<1>19. ShutFits'
  BY <1>1, <1>2, <1>3, <1>4, <1>5, CodeTyped, JobsHaveProcesses DEF CodeInv, ShutFits
<1>20. PlaceIsFree'
  BY <1>1, <1>2, <1>3, <1>4, <1>5, CodeTyped DEF CodeInv, PlaceIsFree, NobodyIsLate, Opening,
     Connected
<1>21. GoneStays'
  BY <1>1, <1>2, <1>3, <1>4, <1>5, CodeTyped, JobsHaveProcesses DEF CodeInv, GoneStays
<1>22. RunsStay
  BY <1>1 DEF RunsStay
<1> QED
  BY <1>1, <1>2, <1>3, <1>4, <1>5, <1>6, <1>7, <1>8, <1>9, <1>10, <1>11, <1>12, <1>13, <1>14,
     <1>15, <1>16, <1>17, <1>18, <1>19, <1>20, <1>21, <1>22 DEF CodeInv, CodeSafety

\* It leaves one that is needed.
LEMMA CodeEndResting == ASSUME CodeInv, NEW o \in Operations, EndWork(o), service = "up",
           Rests(o), UNCHANGED <<linkVars, hand>> PROVE CodeInv' /\ RunsStay
<1>1. UNCHANGED <<service, closer, crashes, storage, session, current, runs, prompt, sends,
   connection, loaded, events, process, native, hand, interrupter, deleter, halter, answerer>>
  BY DEF EndWork, serverVars, stored, linkVars, helpers
<1>2. EventsFit' /\ Waiting' = Waiting
  BY <1>1 DEF CodeInv, EventsFit, Waiting
<1>3. job[o].stage = "final"
  BY DEF EndWork
<1>4. /\ job' \in [Operations -> JobRecords]
      /\ job'[o].stage = "over" /\ job'[o].generation = 0 /\ job'[o].thread = 0
          /\ job'[o].late = job[o].late
      /\ \A p \in Operations : p # o => job'[p] = job[p]
  BY CodeTypes, JobRests DEF EndWork, CodeInv, CodeSafety
<1>5. closer = "none"
  BY DEF CodeInv, ServiceFits
<1>6. CodeTypeOK'
  BY <1>1, <1>2, <1>3, <1>4, <1>5, CodeTypes, Numbers DEF CodeInv, CodeSafety, CodeTypeOK,
     RunRecords, RunStatuses, PromptRecords, SendRecords, ProcessRecords, NativeRecords,
     JobRecords, SessionRecords, SessionStatuses, DeleterRecords, DeleterStages, AnswererRecords,
     InterrupterStages, Closers
<1>7. OneActiveRun' /\ CompletedIsOver' /\ DeletionIsDecided' /\ TurnsFit' /\ DeletedIsGone' /\
   InputNeverResent'
  BY <1>1, <1>2, PartsRest
<1>8. JobsFit'
  BY <1>1, <1>3, <1>4, <1>5, CodeTyped, Numbers DEF CodeInv, JobsFit, Unopened, Unfed, Connected
<1>9. ProcessesAreOwned'
  BY <1>1, <1>3, <1>4, <1>5, CodeTypes DEF CodeInv, CodeSafety, ProcessesAreOwned, NobodyIsLate,
     HandsFit
<1>10. ClosedIsQuiet'
  BY <1>1, <1>3, <1>4, <1>5, CodeTypes DEF CodeInv, CodeSafety, ClosedIsQuiet, NobodyIsLate,
     Saves, Busy, ActiveStatuses
<1>11. ServiceFits'
  BY <1>1, <1>3, <1>4, <1>5, CodeTyped DEF CodeInv, ServiceFits, Saves, Busy, ActiveStatuses
<1>12. FedFits'
  BY <1>1, <1>3, <1>4, <1>5, CodeTyped DEF CodeInv, FedFits
<1>13. ProcessesFit'
  BY <1>1, <1>3, <1>4, <1>5, CodeTyped, Numbers, TaskNames, Generated DEF CodeInv, ProcessesFit
<1>14. HandsFit'
  BY <1>1, <1>3, <1>4, <1>5, CodeTyped, TaskNames, Numbers DEF CodeInv, HandsFit
<1>15. EventsAreTrue'
  BY <1>1, <1>2, <1>3, <1>4, <1>5, CodeTyped, EventsOf, Generated, Numbers DEF CodeInv,
     EventsAreTrue, Busy, IsActive, ActiveStatuses
<1>16. StartsAreActive'
  BY <1>1, <1>3, <1>4, <1>5, CodeTyped, JobsHaveProcesses DEF CodeInv, StartsAreActive, Busy,
     IsActive, ActiveStatuses
<1>17. OpeningIsUnasked'
  BY <1>1, <1>3, <1>4, <1>5, CodeTyped, Generated, Numbers DEF CodeInv, OpeningIsUnasked,
     PromptOpen, Opening, Busy, ActiveStatuses
<1>18. AnswererFits'
  BY <1>1, <1>2, <1>3, <1>4, <1>5, CodeTyped, AnswererOf, JobsHaveProcesses DEF CodeInv,
     AnswererFits, Unopened, Connected
<1>19. ShutFits'
  BY <1>1, <1>2, <1>3, <1>4, <1>5, CodeTyped, JobsHaveProcesses DEF CodeInv, ShutFits
<1>20. PlaceIsFree'
  BY <1>1, <1>3, <1>4, <1>5, CodeTyped DEF CodeInv, PlaceIsFree, NobodyIsLate, Opening, Connected
<1>21. GoneStays'
  BY <1>1, <1>3, <1>4, <1>5, CodeTyped, JobsHaveProcesses DEF CodeInv, GoneStays
<1>22. RunsStay
  BY <1>1 DEF RunsStay
<1> QED
  BY <1>1, <1>2, <1>3, <1>4, <1>5, <1>6, <1>7, <1>8, <1>9, <1>10, <1>11, <1>12, <1>13, <1>14,
     <1>15, <1>16, <1>17, <1>18, <1>19, <1>20, <1>21, <1>22 DEF CodeInv, CodeSafety

\* The task has ended.
LEMMA CodeClosedFinal == ASSUME CodeInv, NEW o \in Operations, ClosedFinal(o) PROVE CodeInv' /\
           RunsStay
<1>1. UNCHANGED <<service, closer, crashes, storage, current, runs, sends, connection, loaded,
   events, process, native, interrupter, deleter, halter, answerer>>
  BY DEF ClosedFinal, AfterClose, serverVars, linkVars, helpers
<1>2. EventsFit' /\ Waiting' = Waiting
  BY <1>1 DEF CodeInv, EventsFit, Waiting
<1>3. job[o].stage = "closeFinal"
  BY DEF ClosedFinal
<1>4. /\ job' \in [Operations -> JobRecords]
      /\ job'[o].stage = "over" /\ job'[o].generation = 0 /\ job'[o].thread = 0
          /\ job'[o].late = job[o].late
      /\ \A p \in Operations : p # o => job'[p] = job[p]
  BY CodeTypes, JobRests DEF ClosedFinal, CodeInv, CodeSafety
<1>5. /\ Task("job", o) \in Tasks
      /\ hand' \in [Tasks -> 0..MaxConnections] /\ hand'[Task("job", o)] = 0
      /\ \A s \in Tasks : s # Task("job", o) => hand'[s] = hand[s]
      /\ hand[Task("job", o)] # 0 => process[hand[Task("job", o)]].state = "dead"
      /\ prompt' \in {prompt, NoPrompt} /\ prompt' \in PromptRecords
      /\ session' \in SessionRecords
      /\ session'.status = session.status /\ session'.fed = session.fed
      /\ session.thread # 0 => session'.thread = session.thread
  BY TaskNames, ClosesAfter DEF ClosedFinal, CodeInv, CodeSafety
<1>6. NoPrompt.status = "none" /\ NoPrompt.generation = 0 /\ NoPrompt.turn = 0
  BY PromptIsNone
<1>7. session.fed => session'.thread = session.thread
  BY <1>5 DEF CodeInv, FedFits
<1>8. CodeTypeOK'
  BY <1>1, <1>2, <1>3, <1>4, <1>5, <1>6, <1>7, CodeTypes, Numbers DEF CodeInv, CodeSafety,
     CodeTypeOK, RunRecords, RunStatuses, PromptRecords, SendRecords, ProcessRecords,
     NativeRecords, JobRecords, SessionRecords, SessionStatuses, DeleterRecords, DeleterStages,
     AnswererRecords, InterrupterStages, Closers
<1>9. OneActiveRun' /\ CompletedIsOver' /\ TurnsFit' /\ InputNeverResent'
  BY <1>1, <1>2, PartsRest
<1>10. JobsFit'
  BY <1>1, <1>3, <1>4, <1>5, <1>7, CodeTyped, Numbers DEF CodeInv, JobsFit, Unopened, Unfed,
     Connected
<1>11. ProcessesAreOwned'
  BY <1>1, <1>3, <1>4, <1>5, CodeTypes DEF CodeInv, CodeSafety, ProcessesAreOwned, NobodyIsLate,
     HandsFit
<1>12. ClosedIsQuiet'
  BY <1>1, <1>3, <1>4, CodeTypes DEF CodeInv, CodeSafety, ClosedIsQuiet, NobodyIsLate, Saves,
     Busy, ActiveStatuses
<1>13. DeletionIsDecided'
  BY <1>1, <1>3, <1>5, <1>7, CodeTypes DEF CodeInv, CodeSafety, DeletionIsDecided, Saves
<1>14. ServiceFits'
  BY <1>1, <1>3, <1>4, <1>5, <1>7, CodeTyped DEF CodeInv, ServiceFits, Saves, Busy,
     ActiveStatuses
<1>15. FedFits'
  BY <1>1, <1>3, <1>4, <1>5, <1>7, CodeTyped DEF CodeInv, FedFits
<1>16. ProcessesFit'
  BY <1>1, <1>3, <1>4, <1>5, <1>6, CodeTyped, Numbers, TaskNames, Generated DEF CodeInv,
     ProcessesFit
<1>17. HandsFit'
  BY <1>1, <1>3, <1>4, <1>5, CodeTyped, TaskNames, Numbers DEF CodeInv, HandsFit
<1>18. EventsAreTrue'
  BY <1>1, <1>2, <1>3, <1>4, CodeTyped, EventsOf, Generated, Numbers DEF CodeInv, EventsAreTrue,
     Busy, IsActive, ActiveStatuses
<1>19. StartsAreActive'
  BY <1>1, <1>3, <1>4, CodeTyped, JobsHaveProcesses DEF CodeInv, StartsAreActive, Busy, IsActive,
     ActiveStatuses
<1>20. OpeningIsUnasked'
  BY <1>1, <1>3, <1>4, <1>5, <1>6, CodeTyped, Generated, Numbers DEF CodeInv, OpeningIsUnasked,
     PromptOpen, Opening, Busy, ActiveStatuses
<1>21. AnswererFits'
  BY <1>1, <1>2, <1>3, <1>4, CodeTyped, AnswererOf, JobsHaveProcesses DEF CodeInv, AnswererFits,
     Unopened, Connected
<1>22. ShutFits'
  BY <1>1, <1>2, <1>3, <1>4, CodeTyped, JobsHaveProcesses DEF CodeInv, ShutFits
<1>23. PlaceIsFree'
  BY <1>1, <1>3, <1>4, CodeTyped DEF CodeInv, PlaceIsFree, NobodyIsLate, Opening, Connected
<1>24. GoneStays'
  BY <1>1, <1>3, <1>4, <1>5, <1>7, CodeTyped, JobsHaveProcesses DEF CodeInv, GoneStays
<1>25. DeletedIsGone'
  BY <1>24 DEF DeletedIsGone, GoneStays
<1>26. RunsStay
  BY <1>1 DEF RunsStay
<1> QED
  BY <1>1, <1>2, <1>3, <1>4, <1>5, <1>6, <1>7, <1>8, <1>9, <1>10, <1>11, <1>12, <1>13, <1>14,
     <1>15, <1>16, <1>17, <1>18, <1>19, <1>20, <1>21, <1>22, <1>23, <1>24, <1>25, <1>26 DEF
     CodeInv, CodeSafety

\* The process is asked to interrupt the turn.
LEMMA CodeAskInterrupt == ASSUME CodeInv, NEW o \in Operations, AskInterrupt(o) PROVE CodeInv' /\
           RunsStay
<1>1. UNCHANGED <<service, closer, crashes, storage, session, current, runs, prompt, sends,
   connection, loaded, events, process, native, job, hand, deleter, halter, answerer>>
  BY DEF AskInterrupt, serverVars, stored, linkVars, helpers
<1>2. EventsFit' /\ Waiting' = Waiting
  BY <1>1 DEF CodeInv, EventsFit, Waiting
<1>3. interrupter[o] = "ask"
  BY DEF AskInterrupt
<1>4. /\ interrupter' \in [Operations -> InterrupterStages] /\ interrupter'[o] = "wait"
      /\ \A p \in Operations : p # o => interrupter'[p] = interrupter[p]
  BY CodeTypes DEF AskInterrupt, CodeInv, CodeSafety, InterrupterStages
<1>5. CodeTypeOK'
  BY <1>1, <1>2, <1>3, <1>4, CodeTypes, Numbers DEF CodeInv, CodeSafety, CodeTypeOK, RunRecords,
     RunStatuses, PromptRecords, SendRecords, ProcessRecords, NativeRecords, JobRecords,
     SessionRecords, SessionStatuses, DeleterRecords, DeleterStages, AnswererRecords,
     InterrupterStages, Closers
<1>6. JobsFit' /\ OneActiveRun' /\ CompletedIsOver' /\ ProcessesAreOwned' /\ ClosedIsQuiet' /\
   DeletionIsDecided' /\ ServiceFits' /\ FedFits' /\ ProcessesFit' /\ EventsAreTrue' /\
   StartsAreActive' /\ OpeningIsUnasked' /\ AnswererFits' /\ ShutFits' /\ PlaceIsFree' /\
   GoneStays' /\ DeletedIsGone' /\ InputNeverResent'
  BY <1>1, <1>2, PartsRest
<1>7. TurnsFit'
  BY <1>1, <1>3, <1>4, CodeTyped DEF CodeInv, TurnsFit
<1>8. HandsFit'
  BY <1>1, <1>3, <1>4, CodeTyped, TaskNames, Numbers DEF CodeInv, HandsFit
<1>9. RunsStay
  BY <1>1 DEF RunsStay
<1> QED
  BY <1>1, <1>2, <1>3, <1>4, <1>5, <1>6, <1>7, <1>8, <1>9 DEF CodeInv, CodeSafety

\* It has not: it is closed.
LEMMA CodeInterruptClosing == ASSUME CodeInv, NEW o \in Operations, EndInterrupt(o), IsActive(o),
           connection # 0 PROVE CodeInv' /\ RunsStay
<1>1. UNCHANGED <<service, closer, crashes, storage, session, current, runs, prompt, sends,
   process, native, job, deleter, halter, answerer>>
  BY DEF EndInterrupt, Detach, serverVars, stored, linkVars, helpers
<1>2. interrupter[o] = "wait"
  BY DEF EndInterrupt
<1>3. hand[Task("interrupter", o)] = 0
  BY CodeTypes DEF EndInterrupt, CodeInv, CodeSafety, HandsFit
<1>4. /\ interrupter' \in [Operations -> InterrupterStages] /\ interrupter'[o] = "close"
      /\ \A p \in Operations : p # o => interrupter'[p] = interrupter[p]
  BY CodeTypes DEF EndInterrupt, CodeInv, CodeSafety, InterrupterStages
<1>5. /\ Task("interrupter", o) \in Tasks
      /\ hand' \in [Tasks -> 0..MaxConnections] /\ hand'[Task("interrupter", o)] = connection
      /\ \A s \in Tasks : s # Task("interrupter", o) => hand'[s] = hand[s]
      /\ connection' = 0 /\ loaded' = 0 /\ EventsFit' /\ Waiting' = {}
  BY TaskNames, Detaches DEF EndInterrupt, CodeInv, CodeSafety
<1>6. CodeTypeOK'
  BY <1>1, <1>2, <1>3, <1>4, <1>5, CodeTypes, Numbers DEF CodeInv, CodeSafety, CodeTypeOK,
     RunRecords, RunStatuses, PromptRecords, SendRecords, ProcessRecords, NativeRecords,
     JobRecords, SessionRecords, SessionStatuses, DeleterRecords, DeleterStages, AnswererRecords,
     InterrupterStages, Closers
<1>7. JobsFit' /\ OneActiveRun' /\ CompletedIsOver' /\ ClosedIsQuiet' /\ DeletionIsDecided' /\
   ServiceFits' /\ FedFits' /\ DeletedIsGone' /\ InputNeverResent'
  BY <1>1, PartsRest
<1>8. ProcessesAreOwned'
  BY <1>1, <1>2, <1>3, <1>5, CodeTypes DEF CodeInv, CodeSafety, ProcessesAreOwned, NobodyIsLate,
     HandsFit
<1>9. TurnsFit'
  BY <1>1, <1>2, <1>3, <1>4, CodeTyped DEF CodeInv, TurnsFit
<1>10. ProcessesFit'
  BY <1>1, <1>2, <1>3, <1>5, CodeTyped, Numbers, TaskNames, Generated DEF CodeInv, ProcessesFit
<1>11. HandsFit'
  BY <1>1, <1>2, <1>3, <1>4, <1>5, CodeTyped, TaskNames, Numbers DEF CodeInv, HandsFit
<1>12. EventsAreTrue'
  BY <1>1, <1>2, <1>3, <1>5, CodeTyped, EventsOf, Generated, Numbers DEF CodeInv, EventsAreTrue,
     Busy, IsActive, ActiveStatuses
<1>13. StartsAreActive'
  BY <1>1, <1>2, <1>3, <1>5, CodeTyped, JobsHaveProcesses DEF CodeInv, StartsAreActive, Busy,
     IsActive, ActiveStatuses
<1>14. OpeningIsUnasked'
  BY <1>1, <1>2, <1>3, <1>5, CodeTyped, Generated, Numbers DEF CodeInv, OpeningIsUnasked,
     PromptOpen, Opening, Busy, IsActive, ActiveStatuses
<1>15. AnswererFits'
  BY <1>1, <1>2, <1>3, <1>5, CodeTyped, AnswererOf, JobsHaveProcesses DEF CodeInv, AnswererFits,
     Unopened, Connected
<1>16. ShutFits'
  BY <1>1, <1>2, <1>3, <1>5, CodeTyped, JobsHaveProcesses DEF CodeInv, ShutFits
<1>17. PlaceIsFree'
  BY <1>1, <1>2, <1>3, <1>5, CodeTyped DEF CodeInv, PlaceIsFree, NobodyIsLate, Opening, Connected
<1>18. GoneStays'
  BY <1>1, <1>2, <1>3, <1>5, CodeTyped, JobsHaveProcesses DEF CodeInv, GoneStays
<1>19. RunsStay
  BY <1>1 DEF RunsStay
<1> QED
  BY <1>1, <1>2, <1>3, <1>4, <1>5, <1>6, <1>7, <1>8, <1>9, <1>10, <1>11, <1>12, <1>13, <1>14,
     <1>15, <1>16, <1>17, <1>18, <1>19 DEF CodeInv, CodeSafety

\* There is nothing to close.
LEMMA CodeInterruptResting == ASSUME CodeInv, NEW o \in Operations, EndInterrupt(o), ~IsActive(o)
           \/ connection = 0 PROVE CodeInv' /\ RunsStay
<1>1. UNCHANGED <<service, closer, crashes, storage, session, current, runs, prompt, sends,
   connection, loaded, events, process, native, job, hand, deleter, halter, answerer>>
  BY DEF EndInterrupt, serverVars, stored, linkVars, helpers
<1>2. EventsFit' /\ Waiting' = Waiting
  BY <1>1 DEF CodeInv, EventsFit, Waiting
<1>3. interrupter[o] = "wait"
  BY DEF EndInterrupt
<1>4. /\ interrupter' \in [Operations -> InterrupterStages] /\ interrupter'[o] = "over"
      /\ \A p \in Operations : p # o => interrupter'[p] = interrupter[p]
  BY CodeTypes DEF EndInterrupt, CodeInv, CodeSafety, InterrupterStages
<1>5. CodeTypeOK'
  BY <1>1, <1>2, <1>3, <1>4, CodeTypes, Numbers DEF CodeInv, CodeSafety, CodeTypeOK, RunRecords,
     RunStatuses, PromptRecords, SendRecords, ProcessRecords, NativeRecords, JobRecords,
     SessionRecords, SessionStatuses, DeleterRecords, DeleterStages, AnswererRecords,
     InterrupterStages, Closers
<1>6. JobsFit' /\ OneActiveRun' /\ CompletedIsOver' /\ ProcessesAreOwned' /\ ClosedIsQuiet' /\
   DeletionIsDecided' /\ ServiceFits' /\ FedFits' /\ ProcessesFit' /\ EventsAreTrue' /\
   StartsAreActive' /\ OpeningIsUnasked' /\ AnswererFits' /\ ShutFits' /\ PlaceIsFree' /\
   GoneStays' /\ DeletedIsGone' /\ InputNeverResent'
  BY <1>1, <1>2, PartsRest
<1>7. TurnsFit'
  BY <1>1, <1>3, <1>4, CodeTyped DEF CodeInv, TurnsFit
<1>8. HandsFit'
  BY <1>1, <1>3, <1>4, CodeTyped, TaskNames, Numbers DEF CodeInv, HandsFit
<1>9. RunsStay
  BY <1>1 DEF RunsStay
<1> QED
  BY <1>1, <1>2, <1>3, <1>4, <1>5, <1>6, <1>7, <1>8, <1>9 DEF CodeInv, CodeSafety

\* The run is interrupted.
LEMMA CodeInterruptFinishes == ASSUME CodeInv, NEW o \in Operations, ClosedInterrupted(o),
           IsActive(o), Saves PROVE CodeInv' /\ RunsStay
<1>1. UNCHANGED <<service, closer, crashes, storage, session, current, connection, loaded,
   events, process, native, job, deleter, halter, answerer>>
  BY DEF ClosedInterrupted, Finish, serverVars, stored, linkVars, helpers
<1>2. EventsFit' /\ Waiting' = Waiting
  BY <1>1 DEF CodeInv, EventsFit, Waiting
<1>3. interrupter[o] = "close"
  BY DEF ClosedInterrupted
<1>4. /\ interrupter' \in [Operations -> InterrupterStages] /\ interrupter'[o] = "over"
      /\ \A p \in Operations : p # o => interrupter'[p] = interrupter[p]
  BY CodeTypes DEF ClosedInterrupted, CodeInv, CodeSafety, InterrupterStages
<1>5. /\ Task("interrupter", o) \in Tasks
      /\ hand' \in [Tasks -> 0..MaxConnections] /\ hand'[Task("interrupter", o)] = 0
      /\ \A s \in Tasks : s # Task("interrupter", o) => hand'[s] = hand[s]
      /\ hand[Task("interrupter", o)] # 0 => process[hand[Task("interrupter", o)]].state = "dead"
  BY CodeTypes, TaskNames, Numbers DEF ClosedInterrupted, Closed, CodeInv, CodeSafety
<1>6. current \in Operations /\ Busy /\ o = current /\ runs[o].turn = o
  BY <1>3, CodeTypes DEF IsActive, CodeInv, CodeSafety, TurnsFit
<1>7. /\ runs' \in [Operations -> RunRecords]
      /\ runs'[current].status \in {"interrupted", "failed"}
          /\ runs'[current].turn = runs[current].turn
      /\ \A p \in Operations : p # current => runs'[p] = runs[p]
      /\ prompt' \in {prompt, NoPrompt} /\ prompt' \in PromptRecords
      /\ sends' \in [Senders -> SendRecords]
      /\ session' = session /\ current' = current
  <2>1. PICK s \in {"interrupted", "failed"} : Finish(s)
    BY DEF ClosedInterrupted
  <2>2. s \in FinalStatuses
    BY <2>1 DEF FinalStatuses
  <2> QED
    BY <1>6, <2>1, <2>2, RunFinishes DEF CodeInv, CodeSafety
<1>8. \A e \in Waiting : e.kind = "started" => runs[e.of].turn = e.of
  BY <1>6, EventsOf DEF CodeInv, EventsAreTrue, IsActive
<1>9. \A p \in Operations : job[p].stage = "start" => connection # job[p].generation
  <2>1. job[o].stage # "start"
    BY <1>6, Numbers DEF CodeInv, TurnsFit, JobsFit, Unfed
  <2> QED
    BY <1>6, <2>1 DEF CodeInv, StartsAreActive, IsActive
<1>10. NoPrompt.status = "none" /\ NoPrompt.generation = 0 /\ NoPrompt.turn = 0
  BY PromptIsNone
<1>11. CodeTypeOK'
  BY <1>1, <1>2, <1>3, <1>4, <1>5, <1>6, <1>7, <1>8, <1>9, <1>10, CodeTypes, Numbers DEF CodeInv,
     CodeSafety, CodeTypeOK, RunRecords, RunStatuses, PromptRecords, SendRecords, ProcessRecords,
     NativeRecords, JobRecords, SessionRecords, SessionStatuses, DeleterRecords, DeleterStages,
     AnswererRecords, InterrupterStages, Closers
<1>12. DeletionIsDecided' /\ FedFits' /\ AnswererFits' /\ ShutFits' /\ PlaceIsFree' /\ GoneStays'
   /\ DeletedIsGone' /\ InputNeverResent'
  BY <1>1, <1>2, PartsRest
<1>13. JobsFit'
  BY <1>1, <1>3, <1>6, <1>7, <1>8, <1>9, CodeTyped, Numbers DEF CodeInv, JobsFit, Busy,
     ActiveStatuses, Unopened, Unfed, Connected
<1>14. OneActiveRun'
  BY <1>1, <1>3, <1>6, <1>7, <1>8, <1>9, CodeTypes, Numbers DEF CodeInv, CodeSafety,
     OneActiveRun, Busy, IsActive, ActiveStatuses
<1>15. CompletedIsOver'
  BY <1>1, <1>3, <1>6, <1>7, <1>8, <1>9, CodeTypes, Numbers DEF CodeInv, CodeSafety,
     CompletedIsOver
<1>16. ProcessesAreOwned'
  BY <1>1, <1>3, <1>5, <1>6, <1>8, <1>9, CodeTypes DEF CodeInv, CodeSafety, ProcessesAreOwned,
     NobodyIsLate, HandsFit
<1>17. ClosedIsQuiet'
  BY <1>1, <1>3, <1>6, <1>7, <1>8, <1>9, CodeTypes DEF CodeInv, CodeSafety, ClosedIsQuiet,
     NobodyIsLate, Saves, Busy, IsActive, ActiveStatuses
<1>18. ServiceFits'
  BY <1>1, <1>3, <1>6, <1>7, <1>8, <1>9, CodeTyped DEF CodeInv, ServiceFits, Saves, Busy,
     IsActive, ActiveStatuses
<1>19. TurnsFit'
  BY <1>1, <1>3, <1>4, <1>6, <1>7, <1>8, <1>9, CodeTyped DEF CodeInv, TurnsFit
<1>20. ProcessesFit'
  BY <1>1, <1>3, <1>5, <1>6, <1>7, <1>8, <1>9, <1>10, CodeTyped, Numbers, TaskNames, Generated
     DEF CodeInv, ProcessesFit
<1>21. HandsFit'
  BY <1>1, <1>3, <1>4, <1>5, <1>6, <1>8, <1>9, CodeTyped, TaskNames, Numbers DEF CodeInv,
     HandsFit
<1>22. EventsAreTrue'
  BY <1>1, <1>2, <1>3, <1>6, <1>7, <1>8, <1>9, CodeTyped, EventsOf, Generated, Numbers DEF
     CodeInv, EventsAreTrue, Busy, IsActive, ActiveStatuses
<1>23. StartsAreActive'
  BY <1>1, <1>3, <1>6, <1>7, <1>8, <1>9, CodeTyped, JobsHaveProcesses DEF CodeInv,
     StartsAreActive, Busy, IsActive, ActiveStatuses
<1>24. OpeningIsUnasked'
  BY <1>1, <1>3, <1>6, <1>7, <1>8, <1>9, <1>10, CodeTyped, Generated, Numbers DEF CodeInv,
     OpeningIsUnasked, PromptOpen, Opening, Busy, IsActive, ActiveStatuses
<1>25. RunsStay
  BY <1>1, <1>2, <1>3, <1>4, <1>5, <1>6, <1>7, <1>8, <1>9, <1>10, CodeTypes DEF CodeInv,
     CodeSafety, RunsStay, CompletedIsOver, OneActiveRun, Busy, IsActive, ActiveStatuses,
     FinalStatuses
<1> QED
  BY <1>1, <1>2, <1>3, <1>4, <1>5, <1>6, <1>7, <1>8, <1>9, <1>10, <1>11, <1>12, <1>13, <1>14,
     <1>15, <1>16, <1>17, <1>18, <1>19, <1>20, <1>21, <1>22, <1>23, <1>24, <1>25 DEF CodeInv,
     CodeSafety

\* It is over already, or cannot be saved.
LEMMA CodeInterruptLate == ASSUME CodeInv, NEW o \in Operations, ClosedInterrupted(o),
           ~(IsActive(o) /\ Saves) PROVE CodeInv' /\ RunsStay
<1>1. UNCHANGED <<service, closer, crashes, storage, session, current, runs, prompt, sends,
   connection, loaded, events, process, native, job, deleter, halter, answerer>>
  BY DEF ClosedInterrupted, serverVars, stored, linkVars, helpers
<1>2. EventsFit' /\ Waiting' = Waiting
  BY <1>1 DEF CodeInv, EventsFit, Waiting
<1>3. interrupter[o] = "close"
  BY DEF ClosedInterrupted
<1>4. /\ interrupter' \in [Operations -> InterrupterStages] /\ interrupter'[o] = "over"
      /\ \A p \in Operations : p # o => interrupter'[p] = interrupter[p]
  BY CodeTypes DEF ClosedInterrupted, CodeInv, CodeSafety, InterrupterStages
<1>5. /\ Task("interrupter", o) \in Tasks
      /\ hand' \in [Tasks -> 0..MaxConnections] /\ hand'[Task("interrupter", o)] = 0
      /\ \A s \in Tasks : s # Task("interrupter", o) => hand'[s] = hand[s]
      /\ hand[Task("interrupter", o)] # 0 => process[hand[Task("interrupter", o)]].state = "dead"
  BY CodeTypes, TaskNames, Numbers DEF ClosedInterrupted, Closed, CodeInv, CodeSafety
<1>6. CodeTypeOK'
  BY <1>1, <1>2, <1>3, <1>4, <1>5, CodeTypes, Numbers DEF CodeInv, CodeSafety, CodeTypeOK,
     RunRecords, RunStatuses, PromptRecords, SendRecords, ProcessRecords, NativeRecords,
     JobRecords, SessionRecords, SessionStatuses, DeleterRecords, DeleterStages, AnswererRecords,
     InterrupterStages, Closers
<1>7. JobsFit' /\ OneActiveRun' /\ CompletedIsOver' /\ ClosedIsQuiet' /\ DeletionIsDecided' /\
   ServiceFits' /\ FedFits' /\ EventsAreTrue' /\ StartsAreActive' /\ OpeningIsUnasked' /\
   AnswererFits' /\ ShutFits' /\ PlaceIsFree' /\ GoneStays' /\ DeletedIsGone' /\
   InputNeverResent'
  BY <1>1, <1>2, PartsRest
<1>8. ProcessesAreOwned'
  BY <1>1, <1>3, <1>5, CodeTypes DEF CodeInv, CodeSafety, ProcessesAreOwned, NobodyIsLate,
     HandsFit
<1>9. TurnsFit'
  BY <1>1, <1>3, <1>4, CodeTyped DEF CodeInv, TurnsFit
<1>10. ProcessesFit'
  BY <1>1, <1>3, <1>5, CodeTyped, Numbers, TaskNames, Generated DEF CodeInv, ProcessesFit
<1>11. HandsFit'
  BY <1>1, <1>3, <1>4, <1>5, CodeTyped, TaskNames, Numbers DEF CodeInv, HandsFit
<1>12. RunsStay
  BY <1>1 DEF RunsStay
<1> QED
  BY <1>1, <1>2, <1>3, <1>4, <1>5, <1>6, <1>7, <1>8, <1>9, <1>10, <1>11, <1>12 DEF CodeInv,
     CodeSafety

\* A process ends, and its turns with it.
LEMMA CodeEnds == ASSUME CodeInv, NEW g \in Generations, Ends(g) PROVE CodeInv' /\ RunsStay
<1>1. UNCHANGED <<service, closer, crashes, storage, session, current, runs, prompt, sends,
   connection, loaded, job, hand, interrupter, deleter, halter, answerer>>
  BY DEF Ends, serverVars, stored, helpers
<1>2. /\ process' \in [Generations -> ProcessRecords] /\ process'[g].state = "dead"
      /\ \A h \in Generations : /\ h # g => process'[h] = process[h]
                                /\ process'[h].begun = process[h].begun
      /\ native' \in NativeRecords
      /\ native'.threads = native.threads /\ native'.inputs = native.inputs
      /\ \A o \in Operations : native'.turn[o] = IF native.turn[o] = g THEN Over ELSE native.turn[o]
      /\ EventsFit'
      /\ \/ connection = g /\ Waiting' = Waiting \cup {[kind |-> "closed", of |-> 0]}
         \/ Waiting' = Waiting
  BY ProcessEnds DEF CodeInv, CodeSafety
<1>3. [kind |-> "closed", of |-> 0].kind = "closed" /\ [kind |-> "closed", of |-> 0].of = 0
  OBVIOUS
<1>4. g # 0 /\ g # Over
  BY Numbers
<1>5. CodeTypeOK'
  BY <1>1, <1>2, <1>3, <1>4, CodeTypes, Numbers DEF CodeInv, CodeSafety, CodeTypeOK, RunRecords,
     RunStatuses, PromptRecords, SendRecords, ProcessRecords, NativeRecords, JobRecords,
     SessionRecords, SessionStatuses, DeleterRecords, DeleterStages, AnswererRecords,
     InterrupterStages, Closers
<1>6. OneActiveRun' /\ DeletionIsDecided' /\ ServiceFits' /\ HandsFit' /\ StartsAreActive' /\
   PlaceIsFree'
  BY <1>1, PartsRest
<1>7. JobsFit'
  BY <1>1, <1>2, <1>3, <1>4, CodeTyped, Numbers DEF CodeInv, JobsFit, Unopened, Unfed, Connected
<1>8. CompletedIsOver'
  BY <1>1, <1>2, <1>3, <1>4, CodeTypes, Numbers DEF CodeInv, CodeSafety, CompletedIsOver
<1>9. ProcessesAreOwned'
  BY <1>1, <1>2, <1>3, <1>4, CodeTypes DEF CodeInv, CodeSafety, ProcessesAreOwned, NobodyIsLate,
     HandsFit
<1>10. ClosedIsQuiet'
  BY <1>1, <1>2, <1>3, <1>4, CodeTypes DEF CodeInv, CodeSafety, ClosedIsQuiet, NobodyIsLate,
     Saves, Busy, ActiveStatuses
<1>11. FedFits'
  BY <1>1, <1>2, <1>3, <1>4, CodeTyped DEF CodeInv, FedFits
<1>12. TurnsFit'
  <2>1. \A p \in Operations : native.turn[p] # 0 => native'.turn[p] # 0
    BY <1>2, Numbers
  <2> QED
    BY <1>1, <2>1 DEF CodeInv, TurnsFit
<1>13. ProcessesFit'
  BY <1>1, <1>2, <1>3, <1>4, CodeTyped, Numbers, TaskNames, Generated DEF CodeInv, ProcessesFit
<1>14. EventsAreTrue'
  BY <1>1, <1>2, <1>3, <1>4, CodeTyped, EventsOf, Generated, Numbers DEF CodeInv, EventsAreTrue,
     Busy, IsActive, ActiveStatuses
<1>15. OpeningIsUnasked'
  BY <1>1, <1>2, <1>3, <1>4, CodeTyped, Generated, Numbers DEF CodeInv, OpeningIsUnasked,
     PromptOpen, Opening, Busy, ActiveStatuses
<1>16. AnswererFits'
  BY <1>1, <1>2, <1>3, <1>4, CodeTyped, AnswererOf, JobsHaveProcesses DEF CodeInv, AnswererFits,
     Unopened, Connected
<1>17. ShutFits'
  BY <1>1, <1>2, <1>3, <1>4, CodeTyped, JobsHaveProcesses DEF CodeInv, ShutFits
<1>18. GoneStays'
  BY <1>1, <1>2, <1>3, <1>4, CodeTyped, JobsHaveProcesses DEF CodeInv, GoneStays
<1>19. DeletedIsGone'
  BY <1>18 DEF DeletedIsGone, GoneStays
<1>20. InputNeverResent'
  BY <1>7 DEF InputNeverResent, JobsFit
<1>21. RunsStay
  BY <1>1 DEF RunsStay
<1> QED
  BY <1>1, <1>2, <1>3, <1>4, <1>5, <1>6, <1>7, <1>8, <1>9, <1>10, <1>11, <1>12, <1>13, <1>14,
     <1>15, <1>16, <1>17, <1>18, <1>19, <1>20, <1>21 DEF CodeInv, CodeSafety

\* A turn ends, and its process says so.
LEMMA CodeTurnEnds == ASSUME CodeInv, NEW o \in Operations, TurnEnds(o) PROVE CodeInv' /\
           RunsStay
<1>1. UNCHANGED <<service, closer, crashes, storage, session, current, runs, prompt, sends,
   connection, loaded, process, job, hand, interrupter, deleter, halter, answerer>>
  BY DEF TurnEnds, CodexUnchanged, Announces, serverVars, stored, helpers
<1>2. native.turn[o] \in Generations /\ native.turn[o] # 0 /\ native.turn[o] # Over
  BY Numbers DEF TurnEnds
<1>3. /\ native' \in NativeRecords /\ native'.threads = native.threads
      /\ native'.inputs = native.inputs /\ native'.turn[o] = Over
      /\ \A p \in Operations : p # o => native'.turn[p] = native.turn[p]
  BY TurnIsOver, Numbers, CodeTypes DEF TurnEnds, CodeInv, CodeSafety
<1>4. /\ EventsFit'
      /\ \/ connection = native.turn[o] /\ Waiting' = Waiting \cup {[kind |-> "completed",
            of |-> o]}
         \/ Waiting' = Waiting
  <2>1. [kind |-> "completed", of |-> o] \in Events
    BY DEF Events
  <2>2. CASE connection = native.turn[o]
    BY <2>1, <2>2, Appends DEF TurnEnds, Announces, CodeInv
  <2>3. CASE connection # native.turn[o]
    BY <2>3 DEF TurnEnds, CodeInv, EventsFit, Waiting
  <2> QED
    BY <2>2, <2>3
<1>5. [kind |-> "completed", of |-> o].kind = "completed" /\ [kind |-> "completed",
       of |-> o].of = o
  OBVIOUS
<1>6. CodeTypeOK'
  BY <1>1, <1>2, <1>3, <1>4, <1>5, CodeTypes, Numbers DEF CodeInv, CodeSafety, CodeTypeOK,
     RunRecords, RunStatuses, PromptRecords, SendRecords, ProcessRecords, NativeRecords,
     JobRecords, SessionRecords, SessionStatuses, DeleterRecords, DeleterStages, AnswererRecords,
     InterrupterStages, Closers
<1>7. OneActiveRun' /\ ProcessesAreOwned' /\ ClosedIsQuiet' /\ DeletionIsDecided' /\ ServiceFits'
   /\ HandsFit' /\ StartsAreActive' /\ OpeningIsUnasked' /\ PlaceIsFree'
  BY <1>1, PartsRest
<1>8. JobsFit'
  BY <1>1, <1>2, <1>3, <1>5, CodeTyped, Numbers DEF CodeInv, JobsFit, Unopened, Unfed, Connected
<1>9. CompletedIsOver'
  BY <1>1, <1>2, <1>3, <1>5, CodeTypes, Numbers DEF CodeInv, CodeSafety, CompletedIsOver
<1>10. FedFits'
  BY <1>1, <1>2, <1>3, <1>5, CodeTyped DEF CodeInv, FedFits
<1>11. TurnsFit'
  <2>1. \A p \in Operations : native.turn[p] # 0 => native'.turn[p] # 0
    BY <1>2, <1>3, Numbers
  <2> QED
    BY <1>1, <2>1 DEF CodeInv, TurnsFit
<1>12. ProcessesFit'
  BY <1>1, <1>2, <1>3, <1>5, CodeTyped, Numbers, TaskNames, Generated DEF CodeInv, ProcessesFit
<1>13. EventsAreTrue'
  BY <1>1, <1>2, <1>3, <1>4, <1>5, CodeTyped, EventsOf, Generated, Numbers DEF CodeInv,
     EventsAreTrue, Busy, IsActive, ActiveStatuses
<1>14. AnswererFits'
  BY <1>1, <1>2, <1>4, <1>5, CodeTyped, AnswererOf, JobsHaveProcesses DEF CodeInv, AnswererFits,
     Unopened, Connected
<1>15. ShutFits'
  BY <1>1, <1>2, <1>4, <1>5, CodeTyped, JobsHaveProcesses DEF CodeInv, ShutFits
<1>16. GoneStays'
  BY <1>1, <1>2, <1>3, <1>5, CodeTyped, JobsHaveProcesses DEF CodeInv, GoneStays
<1>17. DeletedIsGone'
  BY <1>16 DEF DeletedIsGone, GoneStays
<1>18. InputNeverResent'
  BY <1>8 DEF InputNeverResent, JobsFit
<1>19. RunsStay
  BY <1>1 DEF RunsStay
<1> QED
  BY <1>1, <1>2, <1>3, <1>4, <1>5, <1>6, <1>7, <1>8, <1>9, <1>10, <1>11, <1>12, <1>13, <1>14,
     <1>15, <1>16, <1>17, <1>18, <1>19 DEF CodeInv, CodeSafety

\* A turn asks something.
LEMMA CodeAsks == ASSUME CodeInv, NEW o \in {0} \cup Operations, Asks(o) PROVE CodeInv' /\
           RunsStay
<1>1. UNCHANGED <<service, closer, crashes, storage, session, current, runs, prompt, sends,
   connection, loaded, process, native, job, hand, interrupter, deleter, halter, answerer>>
  BY DEF Asks, CodexUnchanged, Announces, serverVars, stored, helpers
<1>2. EventsFit' /\ Waiting' = Waiting \cup {[kind |-> "prompt", of |-> o]}
  <2>1. [kind |-> "prompt", of |-> o] \in Events
    BY DEF Events
  <2> QED
    BY <2>1, Appends DEF Asks, Announces, CodeInv
<1>3. connection # 0 /\ process[connection].begun
  <2>1. connection \in Generations /\ connection # 0
    BY Generated, Numbers DEF Asks
  <2> QED
    BY <2>1 DEF Asks, CodeInv, ProcessesFit
<1>4. [kind |-> "prompt", of |-> o].kind = "prompt" /\ [kind |-> "prompt", of |-> o].of = o
  OBVIOUS
<1>5. CodeTypeOK'
  BY <1>1, <1>2, <1>3, <1>4, CodeTypes, Numbers DEF CodeInv, CodeSafety, CodeTypeOK, RunRecords,
     RunStatuses, PromptRecords, SendRecords, ProcessRecords, NativeRecords, JobRecords,
     SessionRecords, SessionStatuses, DeleterRecords, DeleterStages, AnswererRecords,
     InterrupterStages, Closers
<1>6. JobsFit' /\ OneActiveRun' /\ CompletedIsOver' /\ ProcessesAreOwned' /\ ClosedIsQuiet' /\
   DeletionIsDecided' /\ ServiceFits' /\ FedFits' /\ TurnsFit' /\ ProcessesFit' /\ HandsFit' /\
   StartsAreActive' /\ OpeningIsUnasked' /\ PlaceIsFree' /\ GoneStays' /\ DeletedIsGone' /\
   InputNeverResent'
  BY <1>1, PartsRest
<1>7. EventsAreTrue'
  BY <1>1, <1>2, <1>3, <1>4, CodeTyped, EventsOf, Generated, Numbers DEF CodeInv, EventsAreTrue,
     Busy, IsActive, ActiveStatuses
<1>8. AnswererFits'
  BY <1>1, <1>2, <1>3, <1>4, CodeTyped, AnswererOf, JobsHaveProcesses DEF CodeInv, AnswererFits,
     Unopened, Connected
<1>9. ShutFits'
  BY <1>1, <1>2, <1>3, <1>4, CodeTyped, JobsHaveProcesses DEF CodeInv, ShutFits
<1>10. RunsStay
  BY <1>1 DEF RunsStay
<1> QED
  BY <1>1, <1>2, <1>3, <1>4, <1>5, <1>6, <1>7, <1>8, <1>9, <1>10 DEF CodeInv, CodeSafety

\* The turn of the run is known.
LEMMA CodeTurnStarted == ASSUME CodeInv, TurnStarted PROVE CodeInv' /\ RunsStay
<1>1. UNCHANGED <<service, closer, crashes, storage, session, current, prompt, sends, connection,
   loaded, process, native, job, hand, deleter, halter, answerer>>
  BY DEF TurnStarted, Event, serverVars, helpers
<1>2. /\ EventsFit' /\ Waiting' \subseteq Waiting /\ Head(events) \in Waiting
      /\ Head(events) \in Events /\ Head(events).kind = "started"
  BY FirstIsTaken DEF TurnStarted, Event, CodeInv
<1>3. /\ current \in Operations /\ Busy /\ Head(events).of = current
      /\ native.turn[current] # 0
  <2>1. current \in Operations /\ Busy
    BY CodeTypes DEF TurnStarted, Matches, Busy, CodeInv, CodeSafety
  <2>2. Head(events).of \in Operations
    BY <1>2, EventsOf DEF CodeInv, EventsAreTrue
  <2>3. /\ runs[current].turn = Head(events).of \/ \A p \in Operations : runs[p].turn # Head(events).of
        /\ runs[Head(events).of].turn = Head(events).of \/ IsActive(Head(events).of)
        /\ native.turn[Head(events).of] # 0
    BY <1>2 DEF TurnStarted, Matches, CodeInv, EventsAreTrue
  <2>4. runs[current].turn \in {0, current}
    BY <2>1 DEF CodeInv, CodeSafety, CompletedIsOver
  <2> QED
    BY <2>1, <2>2, <2>3, <2>4, Numbers DEF IsActive
<1>4. /\ runs' \in [Operations -> RunRecords]
      /\ runs'[current].turn = current /\ runs'[current].status \in ActiveStatuses
      /\ \A p \in Operations : p # current => runs'[p] = runs[p]
  <2>1. runs' = [runs EXCEPT ![current].turn = current,
                             ![current].status = IF runs[current].stop THEN "stopping" ELSE "running"]
    BY <1>3 DEF TurnStarted
  <2> QED
    <3>1. CodeTypeOK /\ current \in Operations
      BY <1>3 DEF CodeInv, CodeSafety
    <3> QED
      BY <2>1, <3>1, RunIsBound
<1>5. /\ interrupter' \in [Operations -> InterrupterStages]
      /\ \A q \in Operations :
             \/ interrupter'[q] = interrupter[q]
             \/ q = current /\ interrupter[q] = "none" /\ interrupter'[q] = "ask"
  BY InterruptedNow DEF TurnStarted, CodeInv, CodeSafety
<1>6. CodeTypeOK'
  BY <1>1, <1>2, <1>3, <1>4, <1>5, CodeTypes, Numbers DEF CodeInv, CodeSafety, CodeTypeOK,
     RunRecords, RunStatuses, PromptRecords, SendRecords, ProcessRecords, NativeRecords,
     JobRecords, SessionRecords, SessionStatuses, DeleterRecords, DeleterStages, AnswererRecords,
     InterrupterStages, Closers
<1>7. ProcessesAreOwned' /\ DeletionIsDecided' /\ FedFits' /\ ProcessesFit' /\ PlaceIsFree' /\
   GoneStays' /\ DeletedIsGone' /\ InputNeverResent'
  BY <1>1, PartsRest
<1>8. JobsFit'
  BY <1>1, <1>3, <1>4, CodeTyped, Numbers DEF CodeInv, JobsFit, Busy, ActiveStatuses, Unopened,
     Unfed, Connected
<1>9. OneActiveRun'
  BY <1>1, <1>3, <1>4, CodeTypes, Numbers DEF CodeInv, CodeSafety, OneActiveRun, Busy,
     ActiveStatuses
<1>10. CompletedIsOver'
  BY <1>1, <1>3, <1>4, CodeTypes, Numbers DEF CodeInv, CodeSafety, CompletedIsOver,
     ActiveStatuses
<1>11. ClosedIsQuiet'
  BY <1>1, <1>3, <1>4, CodeTypes DEF CodeInv, CodeSafety, ClosedIsQuiet, NobodyIsLate, Saves,
     Busy, ActiveStatuses
<1>12. ServiceFits'
  BY <1>1, <1>3, <1>4, CodeTyped DEF CodeInv, ServiceFits, Saves, Busy, ActiveStatuses
<1>13. TurnsFit'
  BY <1>1, <1>3, <1>4, <1>5, CodeTyped DEF CodeInv, TurnsFit
<1>14. HandsFit'
  BY <1>1, <1>3, <1>5, CodeTyped, TaskNames, Numbers DEF CodeInv, HandsFit
<1>15. EventsAreTrue'
  BY <1>1, <1>2, <1>3, <1>4, CodeTyped, EventsOf, Generated, Numbers DEF CodeInv, EventsAreTrue,
     Busy, IsActive, ActiveStatuses
<1>16. StartsAreActive'
  BY <1>1, <1>3, <1>4, CodeTyped, JobsHaveProcesses DEF CodeInv, StartsAreActive, Busy, IsActive,
     ActiveStatuses
<1>17. OpeningIsUnasked'
  BY <1>1, <1>3, <1>4, CodeTyped, Generated, Numbers DEF CodeInv, OpeningIsUnasked, PromptOpen,
     Opening, Busy, ActiveStatuses
<1>18. AnswererFits'
  BY <1>1, <1>2, <1>3, CodeTyped, AnswererOf, JobsHaveProcesses DEF CodeInv, AnswererFits,
     Unopened, Connected
<1>19. ShutFits'
  BY <1>1, <1>2, <1>3, CodeTyped, JobsHaveProcesses DEF CodeInv, ShutFits
<1>20. RunsStay
  BY <1>1, <1>2, <1>3, <1>4, <1>5, CodeTypes DEF CodeInv, CodeSafety, RunsStay, CompletedIsOver,
     OneActiveRun, Busy, ActiveStatuses, FinalStatuses
<1> QED
  BY <1>1, <1>2, <1>3, <1>4, <1>5, <1>6, <1>7, <1>8, <1>9, <1>10, <1>11, <1>12, <1>13, <1>14,
     <1>15, <1>16, <1>17, <1>18, <1>19, <1>20 DEF CodeInv, CodeSafety

\* The turn of the run is over.
LEMMA CodeTurnCompleted == ASSUME CodeInv, TurnCompleted PROVE CodeInv' /\ RunsStay
<1>1. UNCHANGED <<service, closer, crashes, storage, session, current, connection, loaded,
   process, native, job, hand, interrupter, deleter, halter, answerer>>
  BY DEF TurnCompleted, Event, Finish, serverVars, helpers
<1>2. /\ EventsFit' /\ Waiting' \subseteq Waiting /\ Head(events) \in Waiting
      /\ Head(events) \in Events /\ Head(events).kind = "completed"
  BY FirstIsTaken DEF TurnCompleted, Event, CodeInv
<1>3. /\ current \in Operations /\ Busy /\ runs[current].turn = current
      /\ native.turn[current] = Over /\ Over # 0
  <2>1. current \in Operations /\ Busy
    BY CodeTypes DEF TurnCompleted, Matches, Busy, CodeInv, CodeSafety
  <2>2. Head(events).of # 0 /\ native.turn[Head(events).of] = Over
    BY <1>2 DEF CodeInv, EventsAreTrue
  <2>3. runs[current].turn = Head(events).of
    BY <1>2 DEF TurnCompleted, Matches
  <2>4. runs[current].turn \in {0, current}
    BY <2>1 DEF CodeInv, CodeSafety, CompletedIsOver
  <2> QED
    BY <2>1, <2>2, <2>3, <2>4, Numbers
<1>4. /\ runs' \in [Operations -> RunRecords]
      /\ runs'[current].status \in {"completed"} /\ runs'[current].turn = runs[current].turn
      /\ \A p \in Operations : p # current => runs'[p] = runs[p]
      /\ prompt' \in {prompt, NoPrompt} /\ prompt' \in PromptRecords
      /\ sends' \in [Senders -> SendRecords]
      /\ session' = session /\ current' = current
  <2>1. PICK s \in {"completed"} : Finish(s)
    BY DEF TurnCompleted
  <2>2. s \in FinalStatuses
    BY <2>1 DEF FinalStatuses
  <2> QED
    BY <1>3, <2>1, <2>2, RunFinishes DEF CodeInv, CodeSafety
<1>5. \A e \in Waiting : e.kind = "started" => runs[e.of].turn = e.of
  BY <1>3, EventsOf DEF CodeInv, EventsAreTrue, IsActive
<1>6. \A p \in Operations : job[p].stage = "start" => connection # job[p].generation
  <2>1. job[current].stage # "start"
    BY <1>3 DEF CodeInv, JobsFit, Unfed
  <2> QED
    BY <2>1 DEF CodeInv, StartsAreActive, IsActive
<1>7. NoPrompt.status = "none" /\ NoPrompt.generation = 0 /\ NoPrompt.turn = 0
  BY PromptIsNone
<1>8. CodeTypeOK'
  BY <1>1, <1>2, <1>3, <1>4, <1>5, <1>6, <1>7, CodeTypes, Numbers DEF CodeInv, CodeSafety,
     CodeTypeOK, RunRecords, RunStatuses, PromptRecords, SendRecords, ProcessRecords,
     NativeRecords, JobRecords, SessionRecords, SessionStatuses, DeleterRecords, DeleterStages,
     AnswererRecords, InterrupterStages, Closers
<1>9. ProcessesAreOwned' /\ DeletionIsDecided' /\ FedFits' /\ HandsFit' /\ PlaceIsFree' /\
   GoneStays' /\ DeletedIsGone' /\ InputNeverResent'
  BY <1>1, PartsRest
<1>10. JobsFit'
  BY <1>1, <1>3, <1>4, <1>5, <1>6, CodeTyped, Numbers DEF CodeInv, JobsFit, Busy, ActiveStatuses,
     Unopened, Unfed, Connected
<1>11. OneActiveRun'
  BY <1>1, <1>3, <1>4, <1>5, <1>6, CodeTypes, Numbers DEF CodeInv, CodeSafety, OneActiveRun,
     Busy, ActiveStatuses
<1>12. CompletedIsOver'
  BY <1>1, <1>3, <1>4, <1>5, <1>6, CodeTypes, Numbers DEF CodeInv, CodeSafety, CompletedIsOver
<1>13. ClosedIsQuiet'
  BY <1>1, <1>3, <1>4, <1>5, <1>6, CodeTypes DEF CodeInv, CodeSafety, ClosedIsQuiet,
     NobodyIsLate, Saves, Busy, ActiveStatuses
<1>14. ServiceFits'
  BY <1>1, <1>3, <1>4, <1>5, <1>6, CodeTyped DEF CodeInv, ServiceFits, Saves, Busy,
     ActiveStatuses
<1>15. TurnsFit'
  BY <1>1, <1>3, <1>4, <1>5, <1>6, CodeTyped DEF CodeInv, TurnsFit
<1>16. ProcessesFit'
  BY <1>1, <1>3, <1>4, <1>5, <1>6, <1>7, CodeTyped, Numbers, TaskNames, Generated DEF CodeInv,
     ProcessesFit
<1>17. EventsAreTrue'
  BY <1>1, <1>2, <1>3, <1>4, <1>5, <1>6, CodeTyped, EventsOf, Generated, Numbers DEF CodeInv,
     EventsAreTrue, Busy, IsActive, ActiveStatuses
<1>18. StartsAreActive'
  BY <1>1, <1>3, <1>4, <1>5, <1>6, CodeTyped, JobsHaveProcesses DEF CodeInv, StartsAreActive,
     Busy, IsActive, ActiveStatuses
<1>19. OpeningIsUnasked'
  BY <1>1, <1>3, <1>4, <1>5, <1>6, <1>7, CodeTyped, Generated, Numbers DEF CodeInv,
     OpeningIsUnasked, PromptOpen, Opening, Busy, ActiveStatuses
<1>20. AnswererFits'
  BY <1>1, <1>2, <1>3, <1>5, <1>6, CodeTyped, AnswererOf, JobsHaveProcesses DEF CodeInv,
     AnswererFits, Unopened, Connected
<1>21. ShutFits'
  BY <1>1, <1>2, <1>3, <1>5, <1>6, CodeTyped, JobsHaveProcesses DEF CodeInv, ShutFits
<1>22. RunsStay
  BY <1>1, <1>2, <1>3, <1>4, <1>5, <1>6, <1>7, CodeTypes DEF CodeInv, CodeSafety, RunsStay,
     CompletedIsOver, OneActiveRun, Busy, ActiveStatuses, FinalStatuses
<1> QED
  BY <1>1, <1>2, <1>3, <1>4, <1>5, <1>6, <1>7, <1>8, <1>9, <1>10, <1>11, <1>12, <1>13, <1>14,
     <1>15, <1>16, <1>17, <1>18, <1>19, <1>20, <1>21, <1>22 DEF CodeInv, CodeSafety

\* A prompt is kept.
LEMMA CodePrompted == ASSUME CodeInv, Prompted PROVE CodeInv' /\ RunsStay
<1>1. UNCHANGED <<service, closer, crashes, storage, session, current, runs, sends, connection,
   loaded, process, native, job, hand, interrupter, deleter, halter, answerer>>
  BY DEF Prompted, Event, serverVars, helpers
<1>2. /\ EventsFit' /\ Waiting' \subseteq Waiting /\ Head(events) \in Waiting
      /\ Head(events) \in Events /\ Head(events).kind = "prompt"
  BY FirstIsTaken DEF Prompted, Event, CodeInv
<1>3. connection \in Generations /\ connection # 0 /\ process[connection].begun
  BY <1>2, Generated, Numbers DEF CodeInv, EventsAreTrue
<1>4. /\ prompt' \in PromptRecords /\ prompt'.status = "pending"
      /\ prompt'.generation = connection
  BY <1>2, <1>3, Numbers DEF Prompted, PromptRecords, Events
<1>5. CodeTypeOK'
  BY <1>1, <1>2, <1>3, <1>4, CodeTypes, Numbers DEF CodeInv, CodeSafety, CodeTypeOK, RunRecords,
     RunStatuses, PromptRecords, SendRecords, ProcessRecords, NativeRecords, JobRecords,
     SessionRecords, SessionStatuses, DeleterRecords, DeleterStages, AnswererRecords,
     InterrupterStages, Closers
<1>6. JobsFit' /\ OneActiveRun' /\ CompletedIsOver' /\ ProcessesAreOwned' /\ ClosedIsQuiet' /\
   DeletionIsDecided' /\ ServiceFits' /\ FedFits' /\ TurnsFit' /\ HandsFit' /\ StartsAreActive'
   /\ PlaceIsFree' /\ GoneStays' /\ DeletedIsGone' /\ InputNeverResent'
  BY <1>1, PartsRest
<1>7. ProcessesFit'
  BY <1>1, <1>3, <1>4, CodeTyped, Numbers, TaskNames, Generated DEF CodeInv, ProcessesFit
<1>8. EventsAreTrue'
  BY <1>1, <1>2, <1>3, CodeTyped, EventsOf, Generated, Numbers DEF CodeInv, EventsAreTrue, Busy,
     IsActive, ActiveStatuses
<1>9. OpeningIsUnasked'
  BY <1>1, <1>3, <1>4, CodeTyped, Generated, Numbers DEF CodeInv, OpeningIsUnasked, PromptOpen,
     Opening, Busy, ActiveStatuses
<1>10. AnswererFits'
  BY <1>1, <1>2, <1>3, CodeTyped, AnswererOf, JobsHaveProcesses DEF CodeInv, AnswererFits,
     Unopened, Connected
<1>11. ShutFits'
  BY <1>1, <1>2, <1>3, CodeTyped, JobsHaveProcesses DEF CodeInv, ShutFits
<1>12. RunsStay
  BY <1>1 DEF RunsStay
<1> QED
  BY <1>1, <1>2, <1>3, <1>4, <1>5, <1>6, <1>7, <1>8, <1>9, <1>10, <1>11, <1>12 DEF CodeInv,
     CodeSafety

\* The connection of a run that is active has gone.
LEMMA CodeClosedActive == ASSUME CodeInv, ConnectionClosed, Saves, Busy PROVE CodeInv' /\
           RunsStay
<1>1. UNCHANGED <<service, closer, crashes, storage, session, current, process, native, job,
   hand, interrupter, deleter, halter, answerer>>
  BY DEF ConnectionClosed, Event, serverVars, helpers
<1>2. connection # 0 /\ process[connection].state = "dead"
  <2>1. Head(events) \in Waiting /\ Head(events).kind = "closed"
    <3>1. events \in Seq(Events) /\ events # <<>>
      BY DEF ConnectionClosed, Event, CodeInv, EventsFit
    <3>2. 1 \in DOMAIN events /\ Head(events) = events[1]
      BY <3>1
    <3> QED
      BY <3>2 DEF ConnectionClosed, Event, Waiting
  <2> QED
    BY <2>1 DEF CodeInv, EventsAreTrue
<1>3. /\ connection' = 0 /\ loaded' = 0 /\ EventsFit' /\ Waiting' = {}
  BY Numbers DEF ConnectionClosed, EventsFit, Waiting
<1>4. current \in Operations
  BY CodeTypes DEF Busy, CodeInv, CodeSafety
<1>5. /\ runs' \in [Operations -> RunRecords]
      /\ runs'[current].status \in {"interrupted", "failed"}
          /\ runs'[current].turn = runs[current].turn
      /\ \A p \in Operations : p # current => runs'[p] = runs[p]
  <2>1. PICK s \in {"interrupted", "failed"} : runs' = [runs EXCEPT ![current].status = s]
    BY DEF ConnectionClosed
  <2>2. s \in RunStatuses
    BY <2>1 DEF RunStatuses, FinalStatuses
  <2> QED
    BY <1>4, <2>1, <2>2, CodeTypes, RunChanges DEF CodeInv, CodeSafety
<1>6. sends' \in [Senders -> SendRecords] /\ prompt' = NoPrompt /\ prompt' \in PromptRecords
  BY CodeTypes, SendsStale, PromptIsNone DEF ConnectionClosed, CodeInv, CodeSafety
<1>7. NoPrompt.status = "none" /\ NoPrompt.generation = 0 /\ NoPrompt.turn = 0
  BY PromptIsNone
<1>8. CodeTypeOK'
  BY <1>1, <1>2, <1>3, <1>4, <1>5, <1>6, <1>7, CodeTypes, Numbers DEF CodeInv, CodeSafety,
     CodeTypeOK, RunRecords, RunStatuses, PromptRecords, SendRecords, ProcessRecords,
     NativeRecords, JobRecords, SessionRecords, SessionStatuses, DeleterRecords, DeleterStages,
     AnswererRecords, InterrupterStages, Closers
<1>9. DeletionIsDecided' /\ FedFits' /\ HandsFit' /\ DeletedIsGone' /\ InputNeverResent'
  BY <1>1, PartsRest
<1>10. JobsFit'
  BY <1>1, <1>2, <1>4, <1>5, CodeTyped, Numbers DEF CodeInv, JobsFit, Busy, ActiveStatuses,
     Unopened, Unfed, Connected
<1>11. OneActiveRun'
  BY <1>1, <1>2, <1>4, <1>5, CodeTypes, Numbers DEF CodeInv, CodeSafety, OneActiveRun, Busy,
     ActiveStatuses
<1>12. CompletedIsOver'
  BY <1>1, <1>2, <1>4, <1>5, CodeTypes, Numbers DEF CodeInv, CodeSafety, CompletedIsOver
<1>13. ProcessesAreOwned'
  BY <1>1, <1>2, <1>3, <1>4, CodeTypes DEF CodeInv, CodeSafety, ProcessesAreOwned, NobodyIsLate,
     HandsFit
<1>14. ClosedIsQuiet'
  BY <1>1, <1>2, <1>4, <1>5, CodeTypes DEF CodeInv, CodeSafety, ClosedIsQuiet, NobodyIsLate,
     Saves, Busy, ActiveStatuses
<1>15. ServiceFits'
  BY <1>1, <1>2, <1>4, <1>5, CodeTyped DEF CodeInv, ServiceFits, Saves, Busy, ActiveStatuses
<1>16. TurnsFit'
  BY <1>1, <1>2, <1>4, <1>5, CodeTyped DEF CodeInv, TurnsFit
<1>17. ProcessesFit'
  BY <1>1, <1>2, <1>3, <1>4, <1>6, <1>7, CodeTyped, Numbers, TaskNames, Generated DEF CodeInv,
     ProcessesFit
<1>18. EventsAreTrue'
  BY <1>1, <1>2, <1>3, <1>4, <1>5, CodeTyped, EventsOf, Generated, Numbers DEF CodeInv,
     EventsAreTrue, Busy, IsActive, ActiveStatuses
<1>19. StartsAreActive'
  BY <1>1, <1>2, <1>3, <1>4, <1>5, CodeTyped, JobsHaveProcesses DEF CodeInv, StartsAreActive,
     Busy, IsActive, ActiveStatuses
<1>20. OpeningIsUnasked'
  BY <1>1, <1>2, <1>3, <1>4, <1>5, <1>6, <1>7, CodeTyped, Generated, Numbers DEF CodeInv,
     OpeningIsUnasked, PromptOpen, Opening, Busy, ActiveStatuses
<1>21. AnswererFits'
  BY <1>1, <1>2, <1>3, <1>4, CodeTyped, AnswererOf, JobsHaveProcesses DEF CodeInv, AnswererFits,
     Unopened, Connected
<1>22. ShutFits'
  BY <1>1, <1>2, <1>3, <1>4, CodeTyped, JobsHaveProcesses DEF CodeInv, ShutFits
<1>23. PlaceIsFree'
  BY <1>1, <1>2, <1>3, <1>4, CodeTyped DEF CodeInv, PlaceIsFree, NobodyIsLate, Opening, Connected
<1>24. GoneStays'
  BY <1>1, <1>2, <1>3, <1>4, CodeTyped, JobsHaveProcesses DEF CodeInv, GoneStays
<1>25. RunsStay
  BY <1>1, <1>2, <1>3, <1>4, <1>5, <1>6, <1>7, CodeTypes DEF CodeInv, CodeSafety, RunsStay,
     CompletedIsOver, OneActiveRun, Busy, ActiveStatuses, FinalStatuses
<1> QED
  BY <1>1, <1>2, <1>3, <1>4, <1>5, <1>6, <1>7, <1>8, <1>9, <1>10, <1>11, <1>12, <1>13, <1>14,
     <1>15, <1>16, <1>17, <1>18, <1>19, <1>20, <1>21, <1>22, <1>23, <1>24, <1>25 DEF CodeInv,
     CodeSafety

\* It has gone, and there is nothing to finish.
LEMMA CodeClosedResting == ASSUME CodeInv, ConnectionClosed, ~(Saves /\ Busy) PROVE CodeInv' /\
           RunsStay
<1>1. UNCHANGED <<service, closer, crashes, storage, session, current, runs, sends, process,
   native, job, hand, interrupter, deleter, halter, answerer>>
  BY DEF ConnectionClosed, Event, serverVars, helpers
<1>2. connection # 0 /\ process[connection].state = "dead"
  <2>1. Head(events) \in Waiting /\ Head(events).kind = "closed"
    <3>1. events \in Seq(Events) /\ events # <<>>
      BY DEF ConnectionClosed, Event, CodeInv, EventsFit
    <3>2. 1 \in DOMAIN events /\ Head(events) = events[1]
      BY <3>1
    <3> QED
      BY <3>2 DEF ConnectionClosed, Event, Waiting
  <2> QED
    BY <2>1 DEF CodeInv, EventsAreTrue
<1>3. /\ connection' = 0 /\ loaded' = 0 /\ EventsFit' /\ Waiting' = {}
  BY Numbers DEF ConnectionClosed, EventsFit, Waiting
<1>4. prompt' \in {prompt, NoPrompt} /\ prompt' \in PromptRecords
  BY CodeTypes, PromptIsNone DEF ConnectionClosed, CodeInv, CodeSafety
<1>5. NoPrompt.status = "none" /\ NoPrompt.generation = 0 /\ NoPrompt.turn = 0
  BY PromptIsNone
<1>6. CodeTypeOK'
  BY <1>1, <1>2, <1>3, <1>4, <1>5, CodeTypes, Numbers DEF CodeInv, CodeSafety, CodeTypeOK,
     RunRecords, RunStatuses, PromptRecords, SendRecords, ProcessRecords, NativeRecords,
     JobRecords, SessionRecords, SessionStatuses, DeleterRecords, DeleterStages, AnswererRecords,
     InterrupterStages, Closers
<1>7. JobsFit' /\ OneActiveRun' /\ CompletedIsOver' /\ ClosedIsQuiet' /\ DeletionIsDecided' /\
   ServiceFits' /\ FedFits' /\ TurnsFit' /\ HandsFit' /\ DeletedIsGone' /\ InputNeverResent'
  BY <1>1, PartsRest
<1>8. ProcessesAreOwned'
  BY <1>1, <1>2, <1>3, CodeTypes DEF CodeInv, CodeSafety, ProcessesAreOwned, NobodyIsLate,
     HandsFit
<1>9. ProcessesFit'
  BY <1>1, <1>2, <1>3, <1>4, <1>5, CodeTyped, Numbers, TaskNames, Generated DEF CodeInv,
     ProcessesFit
<1>10. EventsAreTrue'
  BY <1>1, <1>2, <1>3, CodeTyped, EventsOf, Generated, Numbers DEF CodeInv, EventsAreTrue, Busy,
     IsActive, ActiveStatuses
<1>11. StartsAreActive'
  BY <1>1, <1>2, <1>3, CodeTyped, JobsHaveProcesses DEF CodeInv, StartsAreActive, Busy, IsActive,
     ActiveStatuses
<1>12. OpeningIsUnasked'
  BY <1>1, <1>2, <1>3, <1>4, <1>5, CodeTyped, Generated, Numbers DEF CodeInv, OpeningIsUnasked,
     PromptOpen, Opening, Busy, ActiveStatuses
<1>13. AnswererFits'
  BY <1>1, <1>2, <1>3, CodeTyped, AnswererOf, JobsHaveProcesses DEF CodeInv, AnswererFits,
     Unopened, Connected
<1>14. ShutFits'
  BY <1>1, <1>2, <1>3, CodeTyped, JobsHaveProcesses DEF CodeInv, ShutFits
<1>15. PlaceIsFree'
  BY <1>1, <1>2, <1>3, CodeTyped DEF CodeInv, PlaceIsFree, NobodyIsLate, Opening, Connected
<1>16. GoneStays'
  BY <1>1, <1>2, <1>3, CodeTyped, JobsHaveProcesses DEF CodeInv, GoneStays
<1>17. RunsStay
  BY <1>1 DEF RunsStay
<1> QED
  BY <1>1, <1>2, <1>3, <1>4, <1>5, <1>6, <1>7, <1>8, <1>9, <1>10, <1>11, <1>12, <1>13, <1>14,
     <1>15, <1>16, <1>17 DEF CodeInv, CodeSafety

\* The owner's connection is forgotten.
LEMMA CodeConnectionClosed == ASSUME CodeInv, ConnectionClosed PROVE CodeInv' /\ RunsStay
  BY CodeClosedActive, CodeClosedResting

\* An event is not accepted.
LEMMA CodeDropped == ASSUME CodeInv, Dropped PROVE CodeInv' /\ RunsStay
<1>1. UNCHANGED <<service, closer, crashes, storage, session, current, runs, prompt, sends,
   connection, loaded, process, native, job, hand, interrupter, deleter, halter, answerer>>
  BY DEF Dropped, serverVars, stored, helpers
<1>2. EventsFit' /\ Waiting' \subseteq Waiting
  BY FirstIsTaken DEF Dropped, CodeInv
<1>3. CodeTypeOK'
  BY <1>1, <1>2, CodeTypes, Numbers DEF CodeInv, CodeSafety, CodeTypeOK, RunRecords, RunStatuses,
     PromptRecords, SendRecords, ProcessRecords, NativeRecords, JobRecords, SessionRecords,
     SessionStatuses, DeleterRecords, DeleterStages, AnswererRecords, InterrupterStages, Closers
<1>4. JobsFit' /\ OneActiveRun' /\ CompletedIsOver' /\ ProcessesAreOwned' /\ ClosedIsQuiet' /\
   DeletionIsDecided' /\ ServiceFits' /\ FedFits' /\ TurnsFit' /\ ProcessesFit' /\ HandsFit' /\
   StartsAreActive' /\ OpeningIsUnasked' /\ PlaceIsFree' /\ GoneStays' /\ DeletedIsGone' /\
   InputNeverResent'
  BY <1>1, PartsRest
<1>5. EventsAreTrue'
  BY <1>1, <1>2, CodeTyped, EventsOf, Generated, Numbers DEF CodeInv, EventsAreTrue, Busy,
     IsActive, ActiveStatuses
<1>6. AnswererFits'
  BY <1>1, <1>2, CodeTyped, AnswererOf, JobsHaveProcesses DEF CodeInv, AnswererFits, Unopened,
     Connected
<1>7. ShutFits'
  BY <1>1, <1>2, CodeTyped, JobsHaveProcesses DEF CodeInv, ShutFits
<1>8. RunsStay
  BY <1>1 DEF RunsStay
<1> QED
  BY <1>1, <1>2, <1>3, <1>4, <1>5, <1>6, <1>7, <1>8 DEF CodeInv, CodeSafety

\* While a session is deleted no run of it is active.
LEMMA NotBusy ==
    CodeInv /\ deleter.stage # "none" =>
        /\ ~Busy /\ session.status \in {"deleting", "delete_uncertain"}
        /\ closer # "over" /\ service # "closed"
  BY DEF CodeInv, ServiceFits

\* A session that has no conversation needs no process to be deleted.
DeletesNothing ==
    /\ deleter.stage = "begin" /\ session.thread = 0
    /\ Detach(Only("deleter")) /\ deleter' = [deleter EXCEPT !.stage = "close", !.done = TRUE]
    /\ UNCHANGED process
    /\ UNCHANGED <<session, prompt, native>> /\ DeleterUnchanged

\* One that has uses the connection there is.
DeletesThere ==
    /\ deleter.stage = "begin" /\ session.thread # 0 /\ connection # 0
    /\ deleter' = [deleter EXCEPT !.stage = "native"]
    /\ UNCHANGED <<linkVars, process, hand>>
    /\ UNCHANGED <<session, prompt, native>> /\ DeleterUnchanged

\* Or a new one.
DeletesOpening(g) ==
    /\ deleter.stage = "begin" /\ session.thread # 0 /\ connection = 0
    /\ Opened(g)
    /\ deleter' = [deleter EXCEPT !.stage = "native"]
    /\ UNCHANGED hand
    /\ UNCHANGED <<session, prompt, native>> /\ DeleterUnchanged

\* Which cannot be opened.
DeletesUnopened ==
    /\ deleter.stage = "begin" /\ session.thread # 0 /\ connection = 0
    /\ deleter' = [deleter EXCEPT !.stage = "failed", !.outcome = "delete_uncertain"]
    /\ UNCHANGED <<linkVars, process, hand>>
    /\ UNCHANGED <<session, prompt, native>> /\ DeleterUnchanged

\* Its connection is closed.
LEMMA CodeDeletesNothing == ASSUME CodeInv, DeletesNothing PROVE CodeInv' /\ RunsStay
<1>1. UNCHANGED <<service, closer, crashes, storage, session, current, runs, prompt, sends,
   process, native, job, interrupter, halter, answerer>>
  BY DEF DeletesNothing, Detach, DeleterUnchanged, serverVars, helpers
<1>2. deleter.stage = "begin"
  BY DEF DeletesNothing
<1>3. /\ ~Busy /\ session.status \in {"deleting", "delete_uncertain"}
      /\ closer # "over" /\ service # "closed"
  BY <1>2, NotBusy
<1>4. ~(session.fed)
  BY DEF DeletesNothing, CodeInv, FedFits
<1>5. deleter' \in DeleterRecords /\ deleter'.stage = "close"
  <2>1. deleter \in DeleterRecords /\ "close" \in DeleterStages /\ TRUE \in BOOLEAN
    BY CodeTypes DEF CodeInv, CodeSafety, DeleterStages
  <2>2. DoneDeleting("close", TRUE)
    BY Zenon DEF DeletesNothing, DoneDeleting
  <2> QED
    BY <2>1, <2>2, DeleterIsDone
<1>6. hand[Only("deleter")] = 0
  BY <1>2 DEF CodeInv, HandsFit
<1>7. /\ Only("deleter") \in Tasks
      /\ hand' \in [Tasks -> 0..MaxConnections] /\ hand'[Only("deleter")] = connection
      /\ \A s \in Tasks : s # Only("deleter") => hand'[s] = hand[s]
      /\ connection' = 0 /\ loaded' = 0 /\ EventsFit' /\ Waiting' = {}
  BY TaskNames, Detaches DEF DeletesNothing, CodeInv, CodeSafety
<1>8. CodeTypeOK'
  BY <1>1, <1>2, <1>3, <1>4, <1>5, <1>6, <1>7, CodeTypes, Numbers DEF CodeInv, CodeSafety,
     CodeTypeOK, RunRecords, RunStatuses, PromptRecords, SendRecords, ProcessRecords,
     NativeRecords, JobRecords, SessionRecords, SessionStatuses, DeleterRecords, DeleterStages,
     AnswererRecords, InterrupterStages, Closers
<1>9. JobsFit' /\ OneActiveRun' /\ CompletedIsOver' /\ ClosedIsQuiet' /\ FedFits' /\ TurnsFit' /\
   DeletedIsGone' /\ InputNeverResent'
  BY <1>1, PartsRest
<1>10. ProcessesAreOwned'
  BY <1>1, <1>2, <1>3, <1>4, <1>6, <1>7, CodeTypes DEF CodeInv, CodeSafety, ProcessesAreOwned,
     NobodyIsLate, HandsFit
<1>11. DeletionIsDecided'
  BY <1>1, <1>2, <1>3, <1>4, <1>5, <1>6, CodeTypes DEF CodeInv, CodeSafety, DeletionIsDecided,
     Saves
<1>12. ServiceFits'
  BY <1>1, <1>2, <1>3, <1>4, <1>5, <1>6, CodeTyped DEF CodeInv, ServiceFits, Saves, Busy,
     ActiveStatuses
<1>13. ProcessesFit'
  BY <1>1, <1>2, <1>3, <1>4, <1>6, <1>7, CodeTyped, Numbers, TaskNames, Generated DEF CodeInv,
     ProcessesFit
<1>14. HandsFit'
  BY <1>1, <1>2, <1>3, <1>4, <1>5, <1>6, <1>7, CodeTyped, TaskNames, Numbers DEF CodeInv,
     HandsFit
<1>15. EventsAreTrue'
  BY <1>1, <1>2, <1>3, <1>4, <1>6, <1>7, CodeTyped, EventsOf, Generated, Numbers DEF CodeInv,
     EventsAreTrue, Busy, IsActive, ActiveStatuses
<1>16. StartsAreActive'
  BY <1>1, <1>2, <1>3, <1>4, <1>6, <1>7, CodeTyped, JobsHaveProcesses DEF CodeInv,
     StartsAreActive, Busy, IsActive, ActiveStatuses
<1>17. OpeningIsUnasked'
  BY <1>1, <1>2, <1>3, <1>4, <1>6, <1>7, CodeTyped, Generated, Numbers DEF CodeInv,
     OpeningIsUnasked, PromptOpen, Opening, Busy, ActiveStatuses
<1>18. AnswererFits'
  BY <1>1, <1>2, <1>3, <1>4, <1>6, <1>7, CodeTyped, AnswererOf, JobsHaveProcesses DEF CodeInv,
     AnswererFits, Unopened, Connected
<1>19. ShutFits'
  BY <1>1, <1>2, <1>3, <1>4, <1>6, <1>7, CodeTyped, JobsHaveProcesses DEF CodeInv, ShutFits
<1>20. PlaceIsFree'
  BY <1>1, <1>2, <1>3, <1>4, <1>5, <1>6, <1>7, CodeTyped DEF CodeInv, PlaceIsFree, NobodyIsLate,
     Opening, Connected
<1>21. GoneStays'
  BY <1>1, <1>2, <1>3, <1>4, <1>5, <1>6, <1>7, CodeTyped, JobsHaveProcesses DEF CodeInv,
     GoneStays
<1>22. RunsStay
  BY <1>1 DEF RunsStay
<1> QED
  BY <1>1, <1>2, <1>3, <1>4, <1>5, <1>6, <1>7, <1>8, <1>9, <1>10, <1>11, <1>12, <1>13, <1>14,
     <1>15, <1>16, <1>17, <1>18, <1>19, <1>20, <1>21, <1>22 DEF CodeInv, CodeSafety

\* It is asked next.
LEMMA CodeDeletesThere == ASSUME CodeInv, DeletesThere PROVE CodeInv' /\ RunsStay
<1>1. UNCHANGED <<service, closer, crashes, storage, session, current, runs, prompt, sends,
   connection, loaded, events, process, native, job, hand, interrupter, halter, answerer>>
  BY DEF DeletesThere, DeleterUnchanged, serverVars, linkVars, helpers
<1>2. EventsFit' /\ Waiting' = Waiting
  BY <1>1 DEF CodeInv, EventsFit, Waiting
<1>3. deleter.stage = "begin"
  BY DEF DeletesThere
<1>4. /\ ~Busy /\ session.status \in {"deleting", "delete_uncertain"}
      /\ closer # "over" /\ service # "closed"
  BY <1>3, NotBusy
<1>5. deleter' \in DeleterRecords /\ deleter'.stage = "native"
  <2>1. deleter \in DeleterRecords /\ "native" \in DeleterStages
    BY CodeTypes DEF CodeInv, CodeSafety, DeleterStages
  <2>2. deleter' = [deleter EXCEPT !.stage = "native"]
    BY DEF DeletesThere
  <2> QED
    BY <2>1, <2>2, DeleterGoes
<1>6. CodeTypeOK'
  BY <1>1, <1>2, <1>3, <1>4, <1>5, CodeTypes, Numbers DEF CodeInv, CodeSafety, CodeTypeOK,
     RunRecords, RunStatuses, PromptRecords, SendRecords, ProcessRecords, NativeRecords,
     JobRecords, SessionRecords, SessionStatuses, DeleterRecords, DeleterStages, AnswererRecords,
     InterrupterStages, Closers
<1>7. JobsFit' /\ OneActiveRun' /\ CompletedIsOver' /\ ProcessesAreOwned' /\ ClosedIsQuiet' /\
   FedFits' /\ TurnsFit' /\ ProcessesFit' /\ EventsAreTrue' /\ StartsAreActive' /\
   OpeningIsUnasked' /\ AnswererFits' /\ ShutFits' /\ DeletedIsGone' /\ InputNeverResent'
  BY <1>1, <1>2, PartsRest
<1>8. DeletionIsDecided'
  BY <1>1, <1>3, <1>4, <1>5, CodeTypes DEF CodeInv, CodeSafety, DeletionIsDecided, Saves
<1>9. ServiceFits'
  BY <1>1, <1>3, <1>4, <1>5, CodeTyped DEF CodeInv, ServiceFits, Saves, Busy, ActiveStatuses
<1>10. HandsFit'
  BY <1>1, <1>3, <1>4, <1>5, CodeTyped, TaskNames, Numbers DEF CodeInv, HandsFit
<1>11. PlaceIsFree'
  BY <1>1, <1>3, <1>4, <1>5, CodeTyped DEF CodeInv, PlaceIsFree, NobodyIsLate, Opening, Connected
<1>12. GoneStays'
  BY <1>1, <1>3, <1>4, <1>5, CodeTyped, JobsHaveProcesses DEF CodeInv, GoneStays
<1>13. RunsStay
  BY <1>1 DEF RunsStay
<1> QED
  BY <1>1, <1>2, <1>3, <1>4, <1>5, <1>6, <1>7, <1>8, <1>9, <1>10, <1>11, <1>12, <1>13 DEF
     CodeInv, CodeSafety

\* It is started for the deletion.
LEMMA CodeDeletesOpening == ASSUME CodeInv, NEW g \in Generations, DeletesOpening(g) PROVE
           CodeInv' /\ RunsStay
<1>1. UNCHANGED <<service, closer, crashes, storage, session, current, runs, prompt, sends,
   loaded, native, job, hand, interrupter, halter, answerer>>
  BY DEF DeletesOpening, Opened, DeleterUnchanged, serverVars, helpers
<1>2. deleter.stage = "begin" /\ connection = 0
  BY DEF DeletesOpening
<1>3. /\ ~Busy /\ session.status \in {"deleting", "delete_uncertain"}
      /\ closer # "over" /\ service # "closed"
  BY <1>2, NotBusy
<1>4. deleter' \in DeleterRecords /\ deleter'.stage = "native"
  <2>1. deleter \in DeleterRecords /\ "native" \in DeleterStages
    BY CodeTypes DEF CodeInv, CodeSafety, DeleterStages
  <2>2. deleter' = [deleter EXCEPT !.stage = "native"]
    BY DEF DeletesOpening
  <2> QED
    BY <2>1, <2>2, DeleterGoes
<1>5. /\ process' \in [Generations -> ProcessRecords]
      /\ process[g].state = "none" /\ process'[g].state = "alive"
      /\ process'[g].begun = process[g].begun
      /\ \A h \in Generations : h # g => process'[h] = process[h]
      /\ connection' = g /\ EventsFit' /\ Waiting' = {}
  BY Opens DEF DeletesOpening, CodeInv, CodeSafety
<1>6. /\ \A p \in Operations : job[p].generation # g
      /\ prompt.generation # g /\ ~(process'[g].begun)
  BY <1>5, Numbers DEF CodeInv, ProcessesFit
<1>7. CodeTypeOK'
  BY <1>1, <1>2, <1>3, <1>4, <1>5, <1>6, CodeTypes, Numbers DEF CodeInv, CodeSafety, CodeTypeOK,
     RunRecords, RunStatuses, PromptRecords, SendRecords, ProcessRecords, NativeRecords,
     JobRecords, SessionRecords, SessionStatuses, DeleterRecords, DeleterStages, AnswererRecords,
     InterrupterStages, Closers
<1>8. JobsFit' /\ OneActiveRun' /\ CompletedIsOver' /\ FedFits' /\ TurnsFit' /\ DeletedIsGone' /\
   InputNeverResent'
  BY <1>1, PartsRest
<1>9. ProcessesAreOwned'
  BY <1>1, <1>2, <1>5, Numbers DEF CodeInv, CodeSafety, ProcessesAreOwned, NobodyIsLate
<1>10. ClosedIsQuiet'
  BY <1>1, <1>3 DEF ClosedIsQuiet
<1>11. DeletionIsDecided'
  BY <1>1, <1>2, <1>3, <1>4, <1>6, CodeTypes DEF CodeInv, CodeSafety, DeletionIsDecided, Saves
<1>12. ServiceFits'
  BY <1>1, <1>2, <1>3, <1>4, <1>6, CodeTyped DEF CodeInv, ServiceFits, Saves, Busy,
     ActiveStatuses
<1>13. ProcessesFit'
  <2>1. /\ \A h \in Generations : /\ process[h].state # "none" => process'[h].state # "none"
                                  /\ process'[h].begun = process[h].begun
        /\ process'[g].state # "none" /\ connection' = g
    BY <1>5
  <2>2. connection' # 0 => process'[connection'].state # "none"
    BY <2>1
  <2>3. \A h \in Generations : process'[h].begun => process'[h].state # "none"
    BY <2>1 DEF CodeInv, ProcessesFit
  <2>4. \A p \in Operations :
            /\ job'[p].generation # 0 => process'[job'[p].generation].state # "none"
            /\ native'.turn[p] \in Generations => process'[native'.turn[p]].begun
    <3>1. \A p \in Operations : job'[p].generation \in {job[p].generation, g}
           /\ native'.turn[p] = native.turn[p]
      BY <1>1
    <3> QED
      BY <2>1, <3>1, Generated, Numbers DEF CodeInv, ProcessesFit
  <2>5. \A t \in Tasks : hand'[t] # 0 => process'[hand'[t]].state # "none"
    BY <1>1, <2>1, Generated, Numbers DEF CodeInv, ProcessesFit
  <2>6. prompt'.generation # 0 => process'[prompt'.generation].state # "none"
    BY <1>1, <2>1, Generated, Numbers DEF CodeInv, ProcessesFit
  <2> QED
    BY <2>2, <2>3, <2>4, <2>5, <2>6 DEF ProcessesFit
<1>14. HandsFit'
  BY <1>1, <1>2, <1>3, <1>4, <1>6, CodeTyped, TaskNames, Numbers DEF CodeInv, HandsFit
<1>15. EventsAreTrue'
  BY <1>1, <1>2, <1>3, <1>5, <1>6, CodeTyped, EventsOf, Generated, Numbers DEF CodeInv,
     EventsAreTrue, Busy, IsActive, ActiveStatuses
<1>16. StartsAreActive'
  BY <1>1, <1>2, <1>3, <1>5, <1>6, CodeTyped, JobsHaveProcesses DEF CodeInv, StartsAreActive,
     Busy, IsActive, ActiveStatuses
<1>17. OpeningIsUnasked'
  BY <1>1, <1>2, <1>3, <1>5, <1>6, CodeTyped, Generated, Numbers DEF CodeInv, OpeningIsUnasked,
     PromptOpen, Opening, Busy, ActiveStatuses
<1>18. AnswererFits'
  BY <1>1, <1>2, <1>3, <1>5, <1>6, CodeTyped, AnswererOf, JobsHaveProcesses DEF CodeInv,
     AnswererFits, Unopened, Connected
<1>19. ShutFits'
  BY <1>1, <1>2, <1>3, <1>5, <1>6, CodeTyped, JobsHaveProcesses DEF CodeInv, ShutFits
<1>20. PlaceIsFree'
  BY <1>1, <1>2, <1>3, <1>4, <1>5, <1>6, CodeTyped DEF CodeInv, PlaceIsFree, NobodyIsLate,
     Opening, Connected
<1>21. GoneStays'
  BY <1>1, <1>2, <1>3, <1>4, <1>5, <1>6, CodeTyped, JobsHaveProcesses DEF CodeInv, GoneStays
<1>22. RunsStay
  BY <1>1 DEF RunsStay
<1> QED
  BY <1>1, <1>2, <1>3, <1>4, <1>5, <1>6, <1>7, <1>8, <1>9, <1>10, <1>11, <1>12, <1>13, <1>14,
     <1>15, <1>16, <1>17, <1>18, <1>19, <1>20, <1>21, <1>22 DEF CodeInv, CodeSafety

\* The deletion fails.
LEMMA CodeDeletesUnopened == ASSUME CodeInv, DeletesUnopened PROVE CodeInv' /\ RunsStay
<1>1. UNCHANGED <<service, closer, crashes, storage, session, current, runs, prompt, sends,
   connection, loaded, events, process, native, job, hand, interrupter, halter, answerer>>
  BY DEF DeletesUnopened, DeleterUnchanged, serverVars, linkVars, helpers
<1>2. EventsFit' /\ Waiting' = Waiting
  BY <1>1 DEF CodeInv, EventsFit, Waiting
<1>3. deleter.stage = "begin"
  BY DEF DeletesUnopened
<1>4. /\ ~Busy /\ session.status \in {"deleting", "delete_uncertain"}
      /\ closer # "over" /\ service # "closed"
  BY <1>3, NotBusy
<1>5. deleter' \in DeleterRecords /\ deleter'.stage = "failed"
  <2>1. deleter \in DeleterRecords /\ "failed" \in DeleterStages
    BY CodeTypes DEF CodeInv, CodeSafety, DeleterStages
  <2>2. FailsDeleting("failed", "delete_uncertain")
    BY Zenon DEF DeletesUnopened, FailsDeleting
  <2> QED
    BY <2>1, <2>2, DeleterFails
<1>6. CodeTypeOK'
  BY <1>1, <1>2, <1>3, <1>4, <1>5, CodeTypes, Numbers DEF CodeInv, CodeSafety, CodeTypeOK,
     RunRecords, RunStatuses, PromptRecords, SendRecords, ProcessRecords, NativeRecords,
     JobRecords, SessionRecords, SessionStatuses, DeleterRecords, DeleterStages, AnswererRecords,
     InterrupterStages, Closers
<1>7. JobsFit' /\ OneActiveRun' /\ CompletedIsOver' /\ ProcessesAreOwned' /\ ClosedIsQuiet' /\
   FedFits' /\ TurnsFit' /\ ProcessesFit' /\ EventsAreTrue' /\ StartsAreActive' /\
   OpeningIsUnasked' /\ AnswererFits' /\ ShutFits' /\ DeletedIsGone' /\ InputNeverResent'
  BY <1>1, <1>2, PartsRest
<1>8. DeletionIsDecided'
  BY <1>1, <1>3, <1>4, <1>5, CodeTypes DEF CodeInv, CodeSafety, DeletionIsDecided, Saves
<1>9. ServiceFits'
  BY <1>1, <1>3, <1>4, <1>5, CodeTyped DEF CodeInv, ServiceFits, Saves, Busy, ActiveStatuses
<1>10. HandsFit'
  BY <1>1, <1>3, <1>4, <1>5, CodeTyped, TaskNames, Numbers DEF CodeInv, HandsFit
<1>11. PlaceIsFree'
  BY <1>1, <1>3, <1>4, <1>5, CodeTyped DEF CodeInv, PlaceIsFree, NobodyIsLate, Opening, Connected
<1>12. GoneStays'
  BY <1>1, <1>3, <1>4, <1>5, CodeTyped, JobsHaveProcesses DEF CodeInv, GoneStays
<1>13. RunsStay
  BY <1>1 DEF RunsStay
<1> QED
  BY <1>1, <1>2, <1>3, <1>4, <1>5, <1>6, <1>7, <1>8, <1>9, <1>10, <1>11, <1>12, <1>13 DEF
     CodeInv, CodeSafety

\* The removal of the histories begins.
LEMMA CodeBeginDelete == ASSUME CodeInv, BeginDelete PROVE CodeInv' /\ RunsStay
<1>1. ASSUME NEW g \in Generations, DeletesOpening(g) PROVE CodeInv' /\ RunsStay
  BY <1>1, CodeDeletesOpening
<1>2. ASSUME DeletesNothing \/ DeletesThere \/ DeletesUnopened PROVE CodeInv' /\ RunsStay
  BY <1>2, CodeDeletesNothing, CodeDeletesThere, CodeDeletesUnopened
<1> QED
  BY <1>1, <1>2 DEF BeginDelete, DeletesNothing, DeletesThere, DeletesOpening, DeletesUnopened

\* The conversation is gone.
DeletesThread ==
    /\ deleter.stage = "native"
    /\ \/ session.thread \notin native.threads /\ UNCHANGED native
       \/ native' = [native EXCEPT !.threads = @ \ {session.thread}]
    /\ deleter' = [deleter EXCEPT !.stage = "close", !.done = TRUE]
    /\ Detach(Only("deleter"))
    /\ UNCHANGED <<session, prompt, process>> /\ DeleterUnchanged

\* It is there still, or nothing is known.
KeepsThread(x) ==
    /\ deleter.stage = "native"
    /\ \/ UNCHANGED native
       \/ native' = [native EXCEPT !.threads = @ \ {session.thread}]
    /\ deleter' = [deleter EXCEPT !.stage = "failed", !.outcome = x]
    /\ UNCHANGED <<linkVars, hand>>
    /\ UNCHANGED <<session, prompt, process>> /\ DeleterUnchanged

\* The connection is closed.
LEMMA CodeDeletesThread == ASSUME CodeInv, DeletesThread PROVE CodeInv' /\ RunsStay
<1>1. UNCHANGED <<service, closer, crashes, storage, session, current, runs, prompt, sends,
   process, job, interrupter, halter, answerer>>
  BY DEF DeletesThread, Detach, DeleterUnchanged, serverVars, helpers
<1>2. deleter.stage = "native"
  BY DEF DeletesThread
<1>3. /\ ~Busy /\ session.status \in {"deleting", "delete_uncertain"}
      /\ closer # "over" /\ service # "closed"
  BY <1>2, NotBusy
<1>4. /\ native' \in NativeRecords /\ native'.threads \subseteq native.threads
      /\ native'.turn = native.turn /\ native'.inputs = native.inputs
      /\ session.thread \notin native'.threads
  <2>1. native \in NativeRecords
    BY CodeTypes DEF CodeInv, CodeSafety
  <2>2. CASE native' = [native EXCEPT !.threads = native.threads \ {session.thread}]
    <3>1. native.threads \ {session.thread} \in SUBSET (1..MaxThreads)
      BY <2>1 DEF NativeRecords
    <3> QED
      BY <2>1, <2>2, <3>1, ThreadsChange
  <2>3. CASE native' = native /\ session.thread \notin native.threads
    BY <2>1, <2>3
  <2> QED
    BY <2>2, <2>3 DEF DeletesThread
<1>5. deleter' \in DeleterRecords /\ deleter'.stage = "close"
  <2>1. deleter \in DeleterRecords /\ "close" \in DeleterStages /\ TRUE \in BOOLEAN
    BY CodeTypes DEF CodeInv, CodeSafety, DeleterStages
  <2>2. DoneDeleting("close", TRUE)
    BY Zenon DEF DeletesThread, DoneDeleting
  <2> QED
    BY <2>1, <2>2, DeleterIsDone
<1>6. hand[Only("deleter")] = 0
  BY <1>2 DEF CodeInv, HandsFit
<1>7. /\ Only("deleter") \in Tasks
      /\ hand' \in [Tasks -> 0..MaxConnections] /\ hand'[Only("deleter")] = connection
      /\ \A s \in Tasks : s # Only("deleter") => hand'[s] = hand[s]
      /\ connection' = 0 /\ loaded' = 0 /\ EventsFit' /\ Waiting' = {}
  BY TaskNames, Detaches DEF DeletesThread, CodeInv, CodeSafety
<1>8. CodeTypeOK'
  BY <1>1, <1>2, <1>3, <1>4, <1>5, <1>6, <1>7, CodeTypes, Numbers DEF CodeInv, CodeSafety,
     CodeTypeOK, RunRecords, RunStatuses, PromptRecords, SendRecords, ProcessRecords,
     NativeRecords, JobRecords, SessionRecords, SessionStatuses, DeleterRecords, DeleterStages,
     AnswererRecords, InterrupterStages, Closers
<1>9. OneActiveRun' /\ ClosedIsQuiet'
  BY <1>1, PartsRest
<1>10. JobsFit'
  BY <1>1, <1>2, <1>3, <1>4, <1>6, CodeTyped, Numbers DEF CodeInv, JobsFit, Busy, ActiveStatuses,
     Unopened, Unfed, Connected
<1>11. CompletedIsOver'
  BY <1>1, <1>2, <1>3, <1>4, <1>6, CodeTypes, Numbers DEF CodeInv, CodeSafety, CompletedIsOver
<1>12. ProcessesAreOwned'
  BY <1>1, <1>2, <1>3, <1>6, <1>7, CodeTypes DEF CodeInv, CodeSafety, ProcessesAreOwned,
     NobodyIsLate, HandsFit
<1>13. DeletionIsDecided'
  BY <1>1, <1>2, <1>3, <1>5, <1>6, CodeTypes DEF CodeInv, CodeSafety, DeletionIsDecided, Saves
<1>14. ServiceFits'
  BY <1>1, <1>2, <1>3, <1>5, <1>6, CodeTyped DEF CodeInv, ServiceFits, Saves, Busy,
     ActiveStatuses
<1>15. FedFits'
  BY <1>1, <1>2, <1>3, <1>4, <1>6, CodeTyped DEF CodeInv, FedFits
<1>16. TurnsFit'
  BY <1>1, <1>2, <1>3, <1>4, <1>6, CodeTyped DEF CodeInv, TurnsFit
<1>17. ProcessesFit'
  BY <1>1, <1>2, <1>3, <1>4, <1>6, <1>7, CodeTyped, Numbers, TaskNames, Generated DEF CodeInv,
     ProcessesFit
<1>18. HandsFit'
  BY <1>1, <1>2, <1>3, <1>5, <1>6, <1>7, CodeTyped, TaskNames, Numbers DEF CodeInv, HandsFit
<1>19. EventsAreTrue'
  BY <1>1, <1>2, <1>3, <1>4, <1>6, <1>7, CodeTyped, EventsOf, Generated, Numbers DEF CodeInv,
     EventsAreTrue, Busy, IsActive, ActiveStatuses
<1>20. StartsAreActive'
  BY <1>1, <1>2, <1>3, <1>6, <1>7, CodeTyped, JobsHaveProcesses DEF CodeInv, StartsAreActive,
     Busy, IsActive, ActiveStatuses
<1>21. OpeningIsUnasked'
  BY <1>1, <1>2, <1>3, <1>6, <1>7, CodeTyped, Generated, Numbers DEF CodeInv, OpeningIsUnasked,
     PromptOpen, Opening, Busy, ActiveStatuses
<1>22. AnswererFits'
  BY <1>1, <1>2, <1>3, <1>6, <1>7, CodeTyped, AnswererOf, JobsHaveProcesses DEF CodeInv,
     AnswererFits, Unopened, Connected
<1>23. ShutFits'
  BY <1>1, <1>2, <1>3, <1>6, <1>7, CodeTyped, JobsHaveProcesses DEF CodeInv, ShutFits
<1>24. PlaceIsFree'
  BY <1>1, <1>2, <1>3, <1>5, <1>6, <1>7, CodeTyped DEF CodeInv, PlaceIsFree, NobodyIsLate,
     Opening, Connected
<1>25. GoneStays'
  BY <1>1, <1>2, <1>3, <1>4, <1>5, <1>6, <1>7, CodeTyped, JobsHaveProcesses DEF CodeInv,
     GoneStays
<1>26. DeletedIsGone'
  BY <1>25 DEF DeletedIsGone, GoneStays
<1>27. InputNeverResent'
  BY <1>10 DEF InputNeverResent, JobsFit
<1>28. RunsStay
  BY <1>1 DEF RunsStay
<1> QED
  BY <1>1, <1>2, <1>3, <1>4, <1>5, <1>6, <1>7, <1>8, <1>9, <1>10, <1>11, <1>12, <1>13, <1>14,
     <1>15, <1>16, <1>17, <1>18, <1>19, <1>20, <1>21, <1>22, <1>23, <1>24, <1>25, <1>26, <1>27,
     <1>28 DEF CodeInv, CodeSafety

\* The deletion fails.
LEMMA CodeKeepsThread == ASSUME CodeInv, NEW x \in {"ready", "delete_uncertain"}, KeepsThread(x)
           PROVE CodeInv' /\ RunsStay
<1>1. UNCHANGED <<service, closer, crashes, storage, session, current, runs, prompt, sends,
   connection, loaded, events, process, job, hand, interrupter, halter, answerer>>
  BY DEF KeepsThread, DeleterUnchanged, serverVars, linkVars, helpers
<1>2. EventsFit' /\ Waiting' = Waiting
  BY <1>1 DEF CodeInv, EventsFit, Waiting
<1>3. deleter.stage = "native"
  BY DEF KeepsThread
<1>4. /\ ~Busy /\ session.status \in {"deleting", "delete_uncertain"}
      /\ closer # "over" /\ service # "closed"
  BY <1>3, NotBusy
<1>5. /\ native' \in NativeRecords /\ native'.threads \subseteq native.threads
      /\ native'.turn = native.turn /\ native'.inputs = native.inputs
  <2>1. native \in NativeRecords
    BY CodeTypes DEF CodeInv, CodeSafety
  <2>2. CASE native' = [native EXCEPT !.threads = native.threads \ {session.thread}]
    <3>1. native.threads \ {session.thread} \in SUBSET (1..MaxThreads)
      BY <2>1 DEF NativeRecords
    <3> QED
      BY <2>1, <2>2, <3>1, ThreadsChange
  <2>3. CASE native' = native
    BY <2>1, <2>3
  <2> QED
    BY <2>2, <2>3 DEF KeepsThread
<1>6. deleter' \in DeleterRecords /\ deleter'.stage = "failed"
  <2>1. deleter \in DeleterRecords /\ "failed" \in DeleterStages
    BY CodeTypes DEF CodeInv, CodeSafety, DeleterStages
  <2>2. FailsDeleting("failed", x)
    BY Zenon DEF KeepsThread, FailsDeleting
  <2> QED
    BY <2>1, <2>2, DeleterFails
<1>7. CodeTypeOK'
  BY <1>1, <1>2, <1>3, <1>4, <1>5, <1>6, CodeTypes, Numbers DEF CodeInv, CodeSafety, CodeTypeOK,
     RunRecords, RunStatuses, PromptRecords, SendRecords, ProcessRecords, NativeRecords,
     JobRecords, SessionRecords, SessionStatuses, DeleterRecords, DeleterStages, AnswererRecords,
     InterrupterStages, Closers
<1>8. OneActiveRun' /\ ProcessesAreOwned' /\ ClosedIsQuiet' /\ StartsAreActive' /\
   OpeningIsUnasked' /\ AnswererFits' /\ ShutFits'
  BY <1>1, <1>2, PartsRest
<1>9. JobsFit'
  BY <1>1, <1>3, <1>4, <1>5, CodeTyped, Numbers DEF CodeInv, JobsFit, Busy, ActiveStatuses,
     Unopened, Unfed, Connected
<1>10. CompletedIsOver'
  BY <1>1, <1>3, <1>4, <1>5, CodeTypes, Numbers DEF CodeInv, CodeSafety, CompletedIsOver
<1>11. DeletionIsDecided'
  BY <1>1, <1>3, <1>4, <1>6, CodeTypes DEF CodeInv, CodeSafety, DeletionIsDecided, Saves
<1>12. ServiceFits'
  BY <1>1, <1>3, <1>4, <1>6, CodeTyped DEF CodeInv, ServiceFits, Saves, Busy, ActiveStatuses
<1>13. FedFits'
  BY <1>1, <1>3, <1>4, <1>5, CodeTyped DEF CodeInv, FedFits
<1>14. TurnsFit'
  BY <1>1, <1>3, <1>4, <1>5, CodeTyped DEF CodeInv, TurnsFit
<1>15. ProcessesFit'
  BY <1>1, <1>3, <1>4, <1>5, CodeTyped, Numbers, TaskNames, Generated DEF CodeInv, ProcessesFit
<1>16. HandsFit'
  BY <1>1, <1>3, <1>4, <1>6, CodeTyped, TaskNames, Numbers DEF CodeInv, HandsFit
<1>17. EventsAreTrue'
  BY <1>1, <1>2, <1>3, <1>4, <1>5, CodeTyped, EventsOf, Generated, Numbers DEF CodeInv,
     EventsAreTrue, Busy, IsActive, ActiveStatuses
<1>18. PlaceIsFree'
  BY <1>1, <1>3, <1>4, <1>6, CodeTyped DEF CodeInv, PlaceIsFree, NobodyIsLate, Opening, Connected
<1>19. GoneStays'
  BY <1>1, <1>3, <1>4, <1>5, <1>6, CodeTyped, JobsHaveProcesses DEF CodeInv, GoneStays
<1>20. DeletedIsGone'
  BY <1>19 DEF DeletedIsGone, GoneStays
<1>21. InputNeverResent'
  BY <1>9 DEF InputNeverResent, JobsFit
<1>22. RunsStay
  BY <1>1 DEF RunsStay
<1> QED
  BY <1>1, <1>2, <1>3, <1>4, <1>5, <1>6, <1>7, <1>8, <1>9, <1>10, <1>11, <1>12, <1>13, <1>14,
     <1>15, <1>16, <1>17, <1>18, <1>19, <1>20, <1>21, <1>22 DEF CodeInv, CodeSafety

\* The conversation is deleted, or looked for.
LEMMA CodeDeleteThread == ASSUME CodeInv, DeleteThread PROVE CodeInv' /\ RunsStay
<1>1. \/ DeletesThread
      \/ \E x \in {"ready", "delete_uncertain"} : KeepsThread(x)
  BY Zenon DEF DeleteThread, DeletesThread, KeepsThread
<1> QED
  BY <1>1, CodeDeletesThread, CodeKeepsThread

\* The process that deleted it has ended.
LEMMA CodeClosedDeleted == ASSUME CodeInv, ClosedDeleted PROVE CodeInv' /\ RunsStay
<1>1. UNCHANGED <<service, closer, crashes, storage, current, runs, sends, connection, loaded,
   events, process, native, job, interrupter, halter, answerer>>
  BY DEF ClosedDeleted, AfterClose, DeleterUnchanged, serverVars, linkVars, helpers
<1>2. EventsFit' /\ Waiting' = Waiting
  BY <1>1 DEF CodeInv, EventsFit, Waiting
<1>3. deleter.stage = "close"
  BY DEF ClosedDeleted
<1>4. /\ ~Busy /\ session.status \in {"deleting", "delete_uncertain"}
      /\ closer # "over" /\ service # "closed"
  BY <1>3, NotBusy
<1>5. deleter' \in DeleterRecords /\ deleter'.stage = "remove"
  <2>1. deleter \in DeleterRecords /\ "remove" \in DeleterStages
    BY CodeTypes DEF CodeInv, CodeSafety, DeleterStages
  <2>2. deleter' = [deleter EXCEPT !.stage = "remove"]
    BY DEF ClosedDeleted
  <2> QED
    BY <2>1, <2>2, DeleterGoes
<1>6. /\ Only("deleter") \in Tasks
      /\ hand' \in [Tasks -> 0..MaxConnections] /\ hand'[Only("deleter")] = 0
      /\ \A s \in Tasks : s # Only("deleter") => hand'[s] = hand[s]
      /\ hand[Only("deleter")] # 0 => process[hand[Only("deleter")]].state = "dead"
      /\ prompt' \in {prompt, NoPrompt} /\ prompt' \in PromptRecords
      /\ session' \in SessionRecords
      /\ session'.status = session.status /\ session'.fed = session.fed
      /\ session.thread # 0 => session'.thread = session.thread
  BY TaskNames, ClosesAfter DEF ClosedDeleted, CodeInv, CodeSafety
<1>7. NoPrompt.status = "none" /\ NoPrompt.generation = 0 /\ NoPrompt.turn = 0
  BY PromptIsNone
<1>8. session.fed => session'.thread = session.thread
  BY <1>6 DEF CodeInv, FedFits
<1>9. CodeTypeOK'
  BY <1>1, <1>2, <1>3, <1>4, <1>5, <1>6, <1>7, <1>8, CodeTypes, Numbers DEF CodeInv, CodeSafety,
     CodeTypeOK, RunRecords, RunStatuses, PromptRecords, SendRecords, ProcessRecords,
     NativeRecords, JobRecords, SessionRecords, SessionStatuses, DeleterRecords, DeleterStages,
     AnswererRecords, InterrupterStages, Closers
<1>10. OneActiveRun' /\ CompletedIsOver' /\ ClosedIsQuiet' /\ TurnsFit' /\ EventsAreTrue' /\
   StartsAreActive' /\ AnswererFits' /\ ShutFits' /\ InputNeverResent'
  BY <1>1, <1>2, PartsRest
<1>11. JobsFit'
  BY <1>1, <1>3, <1>4, <1>6, <1>8, CodeTyped, Numbers DEF CodeInv, JobsFit, Busy, ActiveStatuses,
     Unopened, Unfed, Connected
<1>12. ProcessesAreOwned'
  BY <1>1, <1>3, <1>4, <1>6, CodeTypes DEF CodeInv, CodeSafety, ProcessesAreOwned, NobodyIsLate,
     HandsFit
<1>13. DeletionIsDecided'
  BY <1>1, <1>3, <1>4, <1>5, <1>6, <1>8, CodeTypes DEF CodeInv, CodeSafety, DeletionIsDecided,
     Saves
<1>14. ServiceFits'
  BY <1>1, <1>3, <1>4, <1>5, <1>6, <1>8, CodeTyped DEF CodeInv, ServiceFits, Saves, Busy,
     ActiveStatuses
<1>15. FedFits'
  BY <1>1, <1>3, <1>4, <1>6, <1>8, CodeTyped DEF CodeInv, FedFits
<1>16. ProcessesFit'
  BY <1>1, <1>3, <1>4, <1>6, <1>7, CodeTyped, Numbers, TaskNames, Generated DEF CodeInv,
     ProcessesFit
<1>17. HandsFit'
  BY <1>1, <1>3, <1>4, <1>5, <1>6, CodeTyped, TaskNames, Numbers DEF CodeInv, HandsFit
<1>18. OpeningIsUnasked'
  BY <1>1, <1>3, <1>4, <1>6, <1>7, CodeTyped, Generated, Numbers DEF CodeInv, OpeningIsUnasked,
     PromptOpen, Opening, Busy, ActiveStatuses
<1>19. PlaceIsFree'
  BY <1>1, <1>3, <1>4, <1>5, CodeTyped DEF CodeInv, PlaceIsFree, NobodyIsLate, Opening, Connected
<1>20. GoneStays'
  BY <1>1, <1>3, <1>4, <1>5, <1>6, <1>8, CodeTyped, JobsHaveProcesses DEF CodeInv, GoneStays
<1>21. DeletedIsGone'
  BY <1>20 DEF DeletedIsGone, GoneStays
<1>22. RunsStay
  BY <1>1 DEF RunsStay
<1> QED
  BY <1>1, <1>2, <1>3, <1>4, <1>5, <1>6, <1>7, <1>8, <1>9, <1>10, <1>11, <1>12, <1>13, <1>14,
     <1>15, <1>16, <1>17, <1>18, <1>19, <1>20, <1>21, <1>22 DEF CodeInv, CodeSafety

\* The process that was to delete it has ended.
LEMMA CodeClosedUndeleted == ASSUME CodeInv, ClosedUndeleted PROVE CodeInv' /\ RunsStay
<1>1. UNCHANGED <<service, closer, crashes, storage, current, runs, sends, connection, loaded,
   events, process, native, job, interrupter, halter, answerer>>
  BY DEF ClosedUndeleted, AfterClose, DeleterUnchanged, serverVars, linkVars, helpers
<1>2. EventsFit' /\ Waiting' = Waiting
  BY <1>1 DEF CodeInv, EventsFit, Waiting
<1>3. deleter.stage = "closeFailed"
  BY DEF ClosedUndeleted
<1>4. /\ ~Busy /\ session.status \in {"deleting", "delete_uncertain"}
      /\ closer # "over" /\ service # "closed"
  BY <1>3, NotBusy
<1>5. deleter' \in DeleterRecords /\ deleter'.stage = "save"
  <2>1. deleter \in DeleterRecords /\ "save" \in DeleterStages
    BY CodeTypes DEF CodeInv, CodeSafety, DeleterStages
  <2>2. deleter' = [deleter EXCEPT !.stage = "save"]
    BY DEF ClosedUndeleted
  <2> QED
    BY <2>1, <2>2, DeleterGoes
<1>6. /\ Only("deleter") \in Tasks
      /\ hand' \in [Tasks -> 0..MaxConnections] /\ hand'[Only("deleter")] = 0
      /\ \A s \in Tasks : s # Only("deleter") => hand'[s] = hand[s]
      /\ hand[Only("deleter")] # 0 => process[hand[Only("deleter")]].state = "dead"
      /\ prompt' \in {prompt, NoPrompt} /\ prompt' \in PromptRecords
      /\ session' \in SessionRecords
      /\ session'.status = session.status /\ session'.fed = session.fed
      /\ session.thread # 0 => session'.thread = session.thread
  BY TaskNames, ClosesAfter DEF ClosedUndeleted, CodeInv, CodeSafety
<1>7. NoPrompt.status = "none" /\ NoPrompt.generation = 0 /\ NoPrompt.turn = 0
  BY PromptIsNone
<1>8. session.fed => session'.thread = session.thread
  BY <1>6 DEF CodeInv, FedFits
<1>9. CodeTypeOK'
  BY <1>1, <1>2, <1>3, <1>4, <1>5, <1>6, <1>7, <1>8, CodeTypes, Numbers DEF CodeInv, CodeSafety,
     CodeTypeOK, RunRecords, RunStatuses, PromptRecords, SendRecords, ProcessRecords,
     NativeRecords, JobRecords, SessionRecords, SessionStatuses, DeleterRecords, DeleterStages,
     AnswererRecords, InterrupterStages, Closers
<1>10. OneActiveRun' /\ CompletedIsOver' /\ ClosedIsQuiet' /\ TurnsFit' /\ EventsAreTrue' /\
   StartsAreActive' /\ AnswererFits' /\ ShutFits' /\ InputNeverResent'
  BY <1>1, <1>2, PartsRest
<1>11. JobsFit'
  BY <1>1, <1>3, <1>4, <1>6, <1>8, CodeTyped, Numbers DEF CodeInv, JobsFit, Busy, ActiveStatuses,
     Unopened, Unfed, Connected
<1>12. ProcessesAreOwned'
  BY <1>1, <1>3, <1>4, <1>6, CodeTypes DEF CodeInv, CodeSafety, ProcessesAreOwned, NobodyIsLate,
     HandsFit
<1>13. DeletionIsDecided'
  BY <1>1, <1>3, <1>4, <1>5, <1>6, <1>8, CodeTypes DEF CodeInv, CodeSafety, DeletionIsDecided,
     Saves
<1>14. ServiceFits'
  BY <1>1, <1>3, <1>4, <1>5, <1>6, <1>8, CodeTyped DEF CodeInv, ServiceFits, Saves, Busy,
     ActiveStatuses
<1>15. FedFits'
  BY <1>1, <1>3, <1>4, <1>6, <1>8, CodeTyped DEF CodeInv, FedFits
<1>16. ProcessesFit'
  BY <1>1, <1>3, <1>4, <1>6, <1>7, CodeTyped, Numbers, TaskNames, Generated DEF CodeInv,
     ProcessesFit
<1>17. HandsFit'
  BY <1>1, <1>3, <1>4, <1>5, <1>6, CodeTyped, TaskNames, Numbers DEF CodeInv, HandsFit
<1>18. OpeningIsUnasked'
  BY <1>1, <1>3, <1>4, <1>6, <1>7, CodeTyped, Generated, Numbers DEF CodeInv, OpeningIsUnasked,
     PromptOpen, Opening, Busy, ActiveStatuses
<1>19. PlaceIsFree'
  BY <1>1, <1>3, <1>4, <1>5, CodeTyped DEF CodeInv, PlaceIsFree, NobodyIsLate, Opening, Connected
<1>20. GoneStays'
  BY <1>1, <1>3, <1>4, <1>5, <1>6, <1>8, CodeTyped, JobsHaveProcesses DEF CodeInv, GoneStays
<1>21. DeletedIsGone'
  BY <1>20 DEF DeletedIsGone, GoneStays
<1>22. RunsStay
  BY <1>1 DEF RunsStay
<1> QED
  BY <1>1, <1>2, <1>3, <1>4, <1>5, <1>6, <1>7, <1>8, <1>9, <1>10, <1>11, <1>12, <1>13, <1>14,
     <1>15, <1>16, <1>17, <1>18, <1>19, <1>20, <1>21, <1>22 DEF CodeInv, CodeSafety

\* The connection of a deletion that failed is closed.
LEMMA CodeDeleteFails == ASSUME CodeInv, DeleteFails PROVE CodeInv' /\ RunsStay
<1>1. UNCHANGED <<service, closer, crashes, storage, session, current, runs, prompt, sends,
   process, native, job, interrupter, halter, answerer>>
  BY DEF DeleteFails, Detach, DeleterUnchanged, serverVars, helpers
<1>2. deleter.stage = "failed"
  BY DEF DeleteFails
<1>3. /\ ~Busy /\ session.status \in {"deleting", "delete_uncertain"}
      /\ closer # "over" /\ service # "closed"
  BY <1>2, NotBusy
<1>4. deleter' \in DeleterRecords /\ deleter'.stage = "closeFailed"
  <2>1. deleter \in DeleterRecords /\ "closeFailed" \in DeleterStages
    BY CodeTypes DEF CodeInv, CodeSafety, DeleterStages
  <2>2. deleter' = [deleter EXCEPT !.stage = "closeFailed"]
    BY DEF DeleteFails
  <2> QED
    BY <2>1, <2>2, DeleterGoes
<1>5. hand[Only("deleter")] = 0
  BY <1>2 DEF CodeInv, HandsFit
<1>6. /\ Only("deleter") \in Tasks
      /\ hand' \in [Tasks -> 0..MaxConnections] /\ hand'[Only("deleter")] = connection
      /\ \A s \in Tasks : s # Only("deleter") => hand'[s] = hand[s]
      /\ connection' = 0 /\ loaded' = 0 /\ EventsFit' /\ Waiting' = {}
  BY TaskNames, Detaches DEF DeleteFails, CodeInv, CodeSafety
<1>7. CodeTypeOK'
  BY <1>1, <1>2, <1>3, <1>4, <1>5, <1>6, CodeTypes, Numbers DEF CodeInv, CodeSafety, CodeTypeOK,
     RunRecords, RunStatuses, PromptRecords, SendRecords, ProcessRecords, NativeRecords,
     JobRecords, SessionRecords, SessionStatuses, DeleterRecords, DeleterStages, AnswererRecords,
     InterrupterStages, Closers
<1>8. JobsFit' /\ OneActiveRun' /\ CompletedIsOver' /\ ClosedIsQuiet' /\ FedFits' /\ TurnsFit' /\
   DeletedIsGone' /\ InputNeverResent'
  BY <1>1, PartsRest
<1>9. ProcessesAreOwned'
  BY <1>1, <1>2, <1>3, <1>5, <1>6, CodeTypes DEF CodeInv, CodeSafety, ProcessesAreOwned,
     NobodyIsLate, HandsFit
<1>10. DeletionIsDecided'
  BY <1>1, <1>2, <1>3, <1>4, <1>5, CodeTypes DEF CodeInv, CodeSafety, DeletionIsDecided, Saves
<1>11. ServiceFits'
  BY <1>1, <1>2, <1>3, <1>4, <1>5, CodeTyped DEF CodeInv, ServiceFits, Saves, Busy,
     ActiveStatuses
<1>12. ProcessesFit'
  BY <1>1, <1>2, <1>3, <1>5, <1>6, CodeTyped, Numbers, TaskNames, Generated DEF CodeInv,
     ProcessesFit
<1>13. HandsFit'
  BY <1>1, <1>2, <1>3, <1>4, <1>5, <1>6, CodeTyped, TaskNames, Numbers DEF CodeInv, HandsFit
<1>14. EventsAreTrue'
  BY <1>1, <1>2, <1>3, <1>5, <1>6, CodeTyped, EventsOf, Generated, Numbers DEF CodeInv,
     EventsAreTrue, Busy, IsActive, ActiveStatuses
<1>15. StartsAreActive'
  BY <1>1, <1>2, <1>3, <1>5, <1>6, CodeTyped, JobsHaveProcesses DEF CodeInv, StartsAreActive,
     Busy, IsActive, ActiveStatuses
<1>16. OpeningIsUnasked'
  BY <1>1, <1>2, <1>3, <1>5, <1>6, CodeTyped, Generated, Numbers DEF CodeInv, OpeningIsUnasked,
     PromptOpen, Opening, Busy, ActiveStatuses
<1>17. AnswererFits'
  BY <1>1, <1>2, <1>3, <1>5, <1>6, CodeTyped, AnswererOf, JobsHaveProcesses DEF CodeInv,
     AnswererFits, Unopened, Connected
<1>18. ShutFits'
  BY <1>1, <1>2, <1>3, <1>5, <1>6, CodeTyped, JobsHaveProcesses DEF CodeInv, ShutFits
<1>19. PlaceIsFree'
  BY <1>1, <1>2, <1>3, <1>4, <1>5, <1>6, CodeTyped DEF CodeInv, PlaceIsFree, NobodyIsLate,
     Opening, Connected
<1>20. GoneStays'
  BY <1>1, <1>2, <1>3, <1>4, <1>5, <1>6, CodeTyped, JobsHaveProcesses DEF CodeInv, GoneStays
<1>21. RunsStay
  BY <1>1 DEF RunsStay
<1> QED
  BY <1>1, <1>2, <1>3, <1>4, <1>5, <1>6, <1>7, <1>8, <1>9, <1>10, <1>11, <1>12, <1>13, <1>14,
     <1>15, <1>16, <1>17, <1>18, <1>19, <1>20, <1>21 DEF CodeInv, CodeSafety

\* The row goes.
Removes ==
    /\ deleter.stage = "remove"
    /\ session' = [session EXCEPT !.status = "deleted"]
    /\ deleter' = NoDeletion
    /\ UNCHANGED <<prompt, linkVars, process, native, hand>> /\ DeleterUnchanged

\* It does not.
RemoveFails ==
    /\ deleter.stage = "remove"
    /\ deleter' = [deleter EXCEPT !.stage = "failed", !.outcome = "delete_uncertain"]
    /\ UNCHANGED session
    /\ UNCHANGED <<prompt, linkVars, process, native, hand>> /\ DeleterUnchanged

\* The session is deleted.
LEMMA CodeRemoves == ASSUME CodeInv, Removes PROVE CodeInv' /\ RunsStay
<1>1. UNCHANGED <<service, closer, crashes, storage, current, runs, prompt, sends, connection,
   loaded, events, process, native, job, hand, interrupter, halter, answerer>>
  BY DEF Removes, DeleterUnchanged, serverVars, linkVars, helpers
<1>2. EventsFit' /\ Waiting' = Waiting
  BY <1>1 DEF CodeInv, EventsFit, Waiting
<1>3. deleter.stage = "remove"
  BY DEF Removes
<1>4. /\ ~Busy /\ session.status \in {"deleting", "delete_uncertain"}
      /\ closer # "over" /\ service # "closed"
  BY <1>3, NotBusy
<1>5. /\ session' \in SessionRecords /\ session'.status = "deleted"
      /\ session'.thread = session.thread /\ session'.fed = session.fed
  <2>1. session' = [session EXCEPT !.status = "deleted"]
    BY DEF Removes
  <2>2. "deleted" \in SessionStatuses
    BY DEF SessionStatuses
  <2> QED
    BY <2>1, <2>2, CodeTypes, SessionIs DEF CodeInv, CodeSafety
<1>6. deleter' \in DeleterRecords /\ deleter'.stage = "none"
  BY DeletionBegins DEF Removes
<1>7. CodeTypeOK'
  BY <1>1, <1>2, <1>3, <1>4, <1>5, <1>6, CodeTypes, Numbers DEF CodeInv, CodeSafety, CodeTypeOK,
     RunRecords, RunStatuses, PromptRecords, SendRecords, ProcessRecords, NativeRecords,
     JobRecords, SessionRecords, SessionStatuses, DeleterRecords, DeleterStages, AnswererRecords,
     InterrupterStages, Closers
<1>8. OneActiveRun' /\ CompletedIsOver' /\ ProcessesAreOwned' /\ ClosedIsQuiet' /\ TurnsFit' /\
   ProcessesFit' /\ EventsAreTrue' /\ StartsAreActive' /\ OpeningIsUnasked' /\ AnswererFits' /\
   ShutFits' /\ InputNeverResent'
  BY <1>1, <1>2, PartsRest
<1>9. JobsFit'
  BY <1>1, <1>3, <1>4, <1>5, CodeTyped, Numbers DEF CodeInv, JobsFit, Busy, ActiveStatuses,
     Unopened, Unfed, Connected
<1>10. DeletionIsDecided'
  BY <1>1, <1>3, <1>4, <1>5, <1>6, CodeTypes DEF CodeInv, CodeSafety, DeletionIsDecided, Saves
<1>11. ServiceFits'
  BY <1>1, <1>3, <1>4, <1>5, <1>6, CodeTyped DEF CodeInv, ServiceFits, Saves, Busy,
     ActiveStatuses
<1>12. FedFits'
  BY <1>1, <1>3, <1>4, <1>5, CodeTyped DEF CodeInv, FedFits
<1>13. HandsFit'
  BY <1>1, <1>3, <1>4, <1>6, CodeTyped, TaskNames, Numbers DEF CodeInv, HandsFit
<1>14. PlaceIsFree'
  BY <1>1, <1>3, <1>4, <1>6, CodeTyped DEF CodeInv, PlaceIsFree, NobodyIsLate, Opening, Connected
<1>15. GoneStays'
  BY <1>1, <1>3, <1>4, <1>5, <1>6, CodeTyped, JobsHaveProcesses DEF CodeInv, GoneStays
<1>16. DeletedIsGone'
  BY <1>15 DEF DeletedIsGone, GoneStays
<1>17. RunsStay
  BY <1>1 DEF RunsStay
<1> QED
  BY <1>1, <1>2, <1>3, <1>4, <1>5, <1>6, <1>7, <1>8, <1>9, <1>10, <1>11, <1>12, <1>13, <1>14,
     <1>15, <1>16, <1>17 DEF CodeInv, CodeSafety

\* The deletion fails.
LEMMA CodeRemoveFails == ASSUME CodeInv, RemoveFails PROVE CodeInv' /\ RunsStay
<1>1. UNCHANGED <<service, closer, crashes, storage, session, current, runs, prompt, sends,
   connection, loaded, events, process, native, job, hand, interrupter, halter, answerer>>
  BY DEF RemoveFails, DeleterUnchanged, serverVars, linkVars, helpers
<1>2. EventsFit' /\ Waiting' = Waiting
  BY <1>1 DEF CodeInv, EventsFit, Waiting
<1>3. deleter.stage = "remove"
  BY DEF RemoveFails
<1>4. /\ ~Busy /\ session.status \in {"deleting", "delete_uncertain"}
      /\ closer # "over" /\ service # "closed"
  BY <1>3, NotBusy
<1>5. deleter' \in DeleterRecords /\ deleter'.stage = "failed"
  <2>1. deleter \in DeleterRecords /\ "failed" \in DeleterStages
    BY CodeTypes DEF CodeInv, CodeSafety, DeleterStages
  <2>2. FailsDeleting("failed", "delete_uncertain")
    BY Zenon DEF RemoveFails, FailsDeleting
  <2> QED
    BY <2>1, <2>2, DeleterFails
<1>6. CodeTypeOK'
  BY <1>1, <1>2, <1>3, <1>4, <1>5, CodeTypes, Numbers DEF CodeInv, CodeSafety, CodeTypeOK,
     RunRecords, RunStatuses, PromptRecords, SendRecords, ProcessRecords, NativeRecords,
     JobRecords, SessionRecords, SessionStatuses, DeleterRecords, DeleterStages, AnswererRecords,
     InterrupterStages, Closers
<1>7. JobsFit' /\ OneActiveRun' /\ CompletedIsOver' /\ ProcessesAreOwned' /\ ClosedIsQuiet' /\
   FedFits' /\ TurnsFit' /\ ProcessesFit' /\ EventsAreTrue' /\ StartsAreActive' /\
   OpeningIsUnasked' /\ AnswererFits' /\ ShutFits' /\ DeletedIsGone' /\ InputNeverResent'
  BY <1>1, <1>2, PartsRest
<1>8. DeletionIsDecided'
  BY <1>1, <1>3, <1>4, <1>5, CodeTypes DEF CodeInv, CodeSafety, DeletionIsDecided, Saves
<1>9. ServiceFits'
  BY <1>1, <1>3, <1>4, <1>5, CodeTyped DEF CodeInv, ServiceFits, Saves, Busy, ActiveStatuses
<1>10. HandsFit'
  BY <1>1, <1>3, <1>4, <1>5, CodeTyped, TaskNames, Numbers DEF CodeInv, HandsFit
<1>11. PlaceIsFree'
  BY <1>1, <1>3, <1>4, <1>5, CodeTyped DEF CodeInv, PlaceIsFree, NobodyIsLate, Opening, Connected
<1>12. GoneStays'
  BY <1>1, <1>3, <1>4, <1>5, CodeTyped, JobsHaveProcesses DEF CodeInv, GoneStays
<1>13. RunsStay
  BY <1>1 DEF RunsStay
<1> QED
  BY <1>1, <1>2, <1>3, <1>4, <1>5, <1>6, <1>7, <1>8, <1>9, <1>10, <1>11, <1>12, <1>13 DEF
     CodeInv, CodeSafety

\* The session is removed.
LEMMA CodeRemoveSession == ASSUME CodeInv, RemoveSession PROVE CodeInv' /\ RunsStay
<1>1. Removes \/ RemoveFails
  BY DEF RemoveSession, Removes, RemoveFails
<1> QED
  BY <1>1, CodeRemoves, CodeRemoveFails

\* What is known of the deletion is saved.
LEMMA CodeDecisionIsSaved == ASSUME CodeInv, SaveDeletion, Saves PROVE CodeInv' /\ RunsStay
<1>1. UNCHANGED <<service, closer, crashes, storage, current, runs, prompt, connection, loaded,
   events, process, native, job, hand, interrupter, halter, answerer>>
  BY DEF SaveDeletion, serverVars, linkVars, helpers
<1>2. EventsFit' /\ Waiting' = Waiting
  BY <1>1 DEF CodeInv, EventsFit, Waiting
<1>3. deleter.stage = "save"
  BY DEF SaveDeletion
<1>4. /\ ~Busy /\ session.status \in {"deleting", "delete_uncertain"}
      /\ closer # "over" /\ service # "closed"
  BY <1>3, NotBusy
<1>5. /\ session' \in SessionRecords /\ session'.status = deleter.outcome
      /\ session'.thread = session.thread /\ session'.fed = session.fed
      /\ deleter.outcome \in {"ready", "delete_uncertain"}
  <2>1. session' = [session EXCEPT !.status = deleter.outcome]
    BY DEF SaveDeletion
  <2>2. deleter.outcome \in {"ready", "delete_uncertain"}
    BY CodeTypes DEF CodeInv, CodeSafety, DeleterRecords
  <2>3. deleter.outcome \in SessionStatuses
    BY <2>2 DEF SessionStatuses
  <2> QED
    BY <2>1, <2>2, <2>3, CodeTypes, SessionIs DEF CodeInv, CodeSafety
<1>6. sends' \in [Senders -> SendRecords]
  BY CodeTypes, SendsStale DEF SaveDeletion, CodeInv, CodeSafety
<1>7. /\ deleter' \in DeleterRecords
      /\ \/ deleter'.stage = "none"
         \/ deleter'.stage = "begin" /\ deleter.outcome = "delete_uncertain"
  BY DeletionBegins DEF SaveDeletion
<1>8. CodeTypeOK'
  BY <1>1, <1>2, <1>3, <1>4, <1>5, <1>6, <1>7, CodeTypes, Numbers DEF CodeInv, CodeSafety,
     CodeTypeOK, RunRecords, RunStatuses, PromptRecords, SendRecords, ProcessRecords,
     NativeRecords, JobRecords, SessionRecords, SessionStatuses, DeleterRecords, DeleterStages,
     AnswererRecords, InterrupterStages, Closers
<1>9. OneActiveRun' /\ CompletedIsOver' /\ ProcessesAreOwned' /\ ClosedIsQuiet' /\ TurnsFit' /\
   ProcessesFit' /\ EventsAreTrue' /\ StartsAreActive' /\ OpeningIsUnasked' /\ AnswererFits' /\
   ShutFits' /\ InputNeverResent'
  BY <1>1, <1>2, PartsRest
<1>10. JobsFit'
  BY <1>1, <1>3, <1>4, <1>5, CodeTyped, Numbers DEF CodeInv, JobsFit, Busy, ActiveStatuses,
     Unopened, Unfed, Connected
<1>11. DeletionIsDecided'
  BY <1>1, <1>3, <1>4, <1>5, <1>7, CodeTypes DEF CodeInv, CodeSafety, DeletionIsDecided, Saves
<1>12. ServiceFits'
  BY <1>1, <1>3, <1>4, <1>5, <1>7, CodeTyped DEF CodeInv, ServiceFits, Saves, Busy,
     ActiveStatuses
<1>13. FedFits'
  BY <1>1, <1>3, <1>4, <1>5, CodeTyped DEF CodeInv, FedFits
<1>14. HandsFit'
  BY <1>1, <1>3, <1>4, <1>7, CodeTyped, TaskNames, Numbers DEF CodeInv, HandsFit
<1>15. PlaceIsFree'
  BY <1>1, <1>3, <1>4, <1>7, CodeTyped DEF CodeInv, PlaceIsFree, NobodyIsLate, Opening, Connected
<1>16. GoneStays'
  BY <1>1, <1>3, <1>4, <1>5, <1>7, CodeTyped, JobsHaveProcesses DEF CodeInv, GoneStays
<1>17. DeletedIsGone'
  BY <1>16 DEF DeletedIsGone, GoneStays
<1>18. RunsStay
  BY <1>1 DEF RunsStay
<1> QED
  BY <1>1, <1>2, <1>3, <1>4, <1>5, <1>6, <1>7, <1>8, <1>9, <1>10, <1>11, <1>12, <1>13, <1>14,
     <1>15, <1>16, <1>17, <1>18 DEF CodeInv, CodeSafety

\* It cannot be saved.
LEMMA CodeDecisionIsLost == ASSUME CodeInv, SaveDeletion, ~Saves PROVE CodeInv' /\ RunsStay
<1>1. UNCHANGED <<service, closer, crashes, storage, session, current, runs, prompt, sends,
   connection, loaded, events, process, native, job, hand, interrupter, halter, answerer>>
  BY DEF SaveDeletion, serverVars, linkVars, helpers
<1>2. EventsFit' /\ Waiting' = Waiting
  BY <1>1 DEF CodeInv, EventsFit, Waiting
<1>3. deleter.stage = "save"
  BY DEF SaveDeletion
<1>4. /\ ~Busy /\ session.status \in {"deleting", "delete_uncertain"}
      /\ closer # "over" /\ service # "closed"
  BY <1>3, NotBusy
<1>5. deleter' \in DeleterRecords /\ deleter'.stage = "none"
  BY DeletionBegins DEF SaveDeletion
<1>6. CodeTypeOK'
  BY <1>1, <1>2, <1>3, <1>4, <1>5, CodeTypes, Numbers DEF CodeInv, CodeSafety, CodeTypeOK,
     RunRecords, RunStatuses, PromptRecords, SendRecords, ProcessRecords, NativeRecords,
     JobRecords, SessionRecords, SessionStatuses, DeleterRecords, DeleterStages, AnswererRecords,
     InterrupterStages, Closers
<1>7. JobsFit' /\ OneActiveRun' /\ CompletedIsOver' /\ ProcessesAreOwned' /\ ClosedIsQuiet' /\
   FedFits' /\ TurnsFit' /\ ProcessesFit' /\ EventsAreTrue' /\ StartsAreActive' /\
   OpeningIsUnasked' /\ AnswererFits' /\ ShutFits' /\ DeletedIsGone' /\ InputNeverResent'
  BY <1>1, <1>2, PartsRest
<1>8. DeletionIsDecided'
  BY <1>1, <1>3, <1>4, <1>5, CodeTypes DEF CodeInv, CodeSafety, DeletionIsDecided, Saves
<1>9. ServiceFits'
  BY <1>1, <1>3, <1>4, <1>5, CodeTyped DEF CodeInv, ServiceFits, Saves, Busy, ActiveStatuses
<1>10. HandsFit'
  BY <1>1, <1>3, <1>4, <1>5, CodeTyped, TaskNames, Numbers DEF CodeInv, HandsFit
<1>11. PlaceIsFree'
  BY <1>1, <1>3, <1>4, <1>5, CodeTyped DEF CodeInv, PlaceIsFree, NobodyIsLate, Opening, Connected
<1>12. GoneStays'
  BY <1>1, <1>3, <1>4, <1>5, CodeTyped, JobsHaveProcesses DEF CodeInv, GoneStays
<1>13. RunsStay
  BY <1>1 DEF RunsStay
<1> QED
  BY <1>1, <1>2, <1>3, <1>4, <1>5, <1>6, <1>7, <1>8, <1>9, <1>10, <1>11, <1>12, <1>13 DEF
     CodeInv, CodeSafety

\* A commit raises.
LEMMA CodeStorageFails == ASSUME CodeInv, StorageFails PROVE CodeInv' /\ RunsStay
<1>1. UNCHANGED <<service, closer, crashes, session, current, runs, prompt, sends, connection,
   loaded, events, process, native, job, hand, interrupter, deleter, answerer>>
  BY DEF StorageFails, serverVars, stored, linkVars
<1>2. EventsFit' /\ Waiting' = Waiting
  BY <1>1 DEF CodeInv, EventsFit, Waiting
<1>3. /\ halter = "none" /\ halter' = "begin" /\ storage' = "failed" /\ Saves /\ ~Saves'
      /\ service # "closed" /\ hand[Only("halter")] = 0
  BY DEF StorageFails, Saves, CodeInv, ServiceFits, HandsFit
<1>4. CodeTypeOK'
  BY <1>1, <1>2, <1>3, CodeTypes, Numbers DEF CodeInv, CodeSafety, CodeTypeOK, RunRecords,
     RunStatuses, PromptRecords, SendRecords, ProcessRecords, NativeRecords, JobRecords,
     SessionRecords, SessionStatuses, DeleterRecords, DeleterStages, AnswererRecords,
     InterrupterStages, Closers
<1>5. JobsFit' /\ OneActiveRun' /\ CompletedIsOver' /\ ProcessesAreOwned' /\ FedFits' /\
   TurnsFit' /\ ProcessesFit' /\ EventsAreTrue' /\ StartsAreActive' /\ OpeningIsUnasked' /\
   AnswererFits' /\ ShutFits' /\ PlaceIsFree' /\ GoneStays' /\ DeletedIsGone' /\
   InputNeverResent'
  BY <1>1, <1>2, PartsRest
<1>6. ClosedIsQuiet'
  BY <1>1, <1>3, CodeTypes DEF CodeInv, CodeSafety, ClosedIsQuiet, NobodyIsLate, Saves, Busy,
     ActiveStatuses
<1>7. DeletionIsDecided'
  BY <1>1, <1>3, CodeTypes DEF CodeInv, CodeSafety, DeletionIsDecided, Saves
<1>8. ServiceFits'
  BY <1>1, <1>3, CodeTyped DEF CodeInv, ServiceFits, Saves, Busy, ActiveStatuses
<1>9. HandsFit'
  BY <1>1, <1>3, CodeTyped, TaskNames, Numbers DEF CodeInv, HandsFit
<1>10. RunsStay
  BY <1>1 DEF RunsStay
<1> QED
  BY <1>1, <1>2, <1>3, <1>4, <1>5, <1>6, <1>7, <1>8, <1>9, <1>10 DEF CodeInv, CodeSafety

\* The session is halted: its connection is closed.
LEMMA CodeHalt == ASSUME CodeInv, Halt PROVE CodeInv' /\ RunsStay
<1>1. UNCHANGED <<service, closer, crashes, storage, session, current, runs, prompt, sends,
   process, native, job, interrupter, deleter, answerer>>
  BY DEF Halt, Detach, serverVars, stored
<1>2. halter = "begin" /\ halter' = "close"
  BY DEF Halt
<1>3. hand[Only("halter")] = 0
  BY <1>2 DEF CodeInv, HandsFit
<1>4. /\ Only("halter") \in Tasks
      /\ hand' \in [Tasks -> 0..MaxConnections] /\ hand'[Only("halter")] = connection
      /\ \A s \in Tasks : s # Only("halter") => hand'[s] = hand[s]
      /\ connection' = 0 /\ loaded' = 0 /\ EventsFit' /\ Waiting' = {}
  BY TaskNames, Detaches DEF Halt, CodeInv, CodeSafety
<1>5. CodeTypeOK'
  BY <1>1, <1>2, <1>3, <1>4, CodeTypes, Numbers DEF CodeInv, CodeSafety, CodeTypeOK, RunRecords,
     RunStatuses, PromptRecords, SendRecords, ProcessRecords, NativeRecords, JobRecords,
     SessionRecords, SessionStatuses, DeleterRecords, DeleterStages, AnswererRecords,
     InterrupterStages, Closers
<1>6. JobsFit' /\ OneActiveRun' /\ CompletedIsOver' /\ ClosedIsQuiet' /\ DeletionIsDecided' /\
   FedFits' /\ TurnsFit' /\ DeletedIsGone' /\ InputNeverResent'
  BY <1>1, PartsRest
<1>7. ProcessesAreOwned'
  BY <1>1, <1>3, <1>4, CodeTypes DEF CodeInv, CodeSafety, ProcessesAreOwned, NobodyIsLate,
     HandsFit
<1>8. ServiceFits'
  BY <1>1, <1>2, <1>3, CodeTyped DEF CodeInv, ServiceFits, Saves, Busy, ActiveStatuses
<1>9. ProcessesFit'
  BY <1>1, <1>3, <1>4, CodeTyped, Numbers, TaskNames, Generated DEF CodeInv, ProcessesFit
<1>10. HandsFit'
  BY <1>1, <1>2, <1>3, <1>4, CodeTyped, TaskNames, Numbers DEF CodeInv, HandsFit
<1>11. EventsAreTrue'
  BY <1>1, <1>3, <1>4, CodeTyped, EventsOf, Generated, Numbers DEF CodeInv, EventsAreTrue, Busy,
     IsActive, ActiveStatuses
<1>12. StartsAreActive'
  BY <1>1, <1>3, <1>4, CodeTyped, JobsHaveProcesses DEF CodeInv, StartsAreActive, Busy, IsActive,
     ActiveStatuses
<1>13. OpeningIsUnasked'
  BY <1>1, <1>3, <1>4, CodeTyped, Generated, Numbers DEF CodeInv, OpeningIsUnasked, PromptOpen,
     Opening, Busy, ActiveStatuses
<1>14. AnswererFits'
  BY <1>1, <1>3, <1>4, CodeTyped, AnswererOf, JobsHaveProcesses DEF CodeInv, AnswererFits,
     Unopened, Connected
<1>15. ShutFits'
  BY <1>1, <1>3, <1>4, CodeTyped, JobsHaveProcesses DEF CodeInv, ShutFits
<1>16. PlaceIsFree'
  BY <1>1, <1>3, <1>4, CodeTyped DEF CodeInv, PlaceIsFree, NobodyIsLate, Opening, Connected
<1>17. GoneStays'
  BY <1>1, <1>3, <1>4, CodeTyped, JobsHaveProcesses DEF CodeInv, GoneStays
<1>18. RunsStay
  BY <1>1 DEF RunsStay
<1> QED
  BY <1>1, <1>2, <1>3, <1>4, <1>5, <1>6, <1>7, <1>8, <1>9, <1>10, <1>11, <1>12, <1>13, <1>14,
     <1>15, <1>16, <1>17, <1>18 DEF CodeInv, CodeSafety

\* Its process has ended.
LEMMA CodeHalted == ASSUME CodeInv, Halted PROVE CodeInv' /\ RunsStay
<1>1. UNCHANGED <<service, closer, crashes, storage, current, runs, sends, connection, loaded,
   events, process, native, job, interrupter, deleter, answerer>>
  BY DEF Halted, AfterClose, serverVars, linkVars
<1>2. EventsFit' /\ Waiting' = Waiting
  BY <1>1 DEF CodeInv, EventsFit, Waiting
<1>3. halter = "close" /\ halter' = "over"
  BY DEF Halted
<1>4. /\ Only("halter") \in Tasks
      /\ hand' \in [Tasks -> 0..MaxConnections] /\ hand'[Only("halter")] = 0
      /\ \A s \in Tasks : s # Only("halter") => hand'[s] = hand[s]
      /\ hand[Only("halter")] # 0 => process[hand[Only("halter")]].state = "dead"
      /\ prompt' \in {prompt, NoPrompt} /\ prompt' \in PromptRecords
      /\ session' \in SessionRecords
      /\ session'.status = session.status /\ session'.fed = session.fed
      /\ session.thread # 0 => session'.thread = session.thread
  BY TaskNames, ClosesAfter DEF Halted, CodeInv, CodeSafety
<1>5. NoPrompt.status = "none" /\ NoPrompt.generation = 0 /\ NoPrompt.turn = 0
  BY PromptIsNone
<1>6. session.fed => session'.thread = session.thread
  BY <1>4 DEF CodeInv, FedFits
<1>7. CodeTypeOK'
  BY <1>1, <1>2, <1>3, <1>4, <1>5, <1>6, CodeTypes, Numbers DEF CodeInv, CodeSafety, CodeTypeOK,
     RunRecords, RunStatuses, PromptRecords, SendRecords, ProcessRecords, NativeRecords,
     JobRecords, SessionRecords, SessionStatuses, DeleterRecords, DeleterStages, AnswererRecords,
     InterrupterStages, Closers
<1>8. OneActiveRun' /\ CompletedIsOver' /\ ClosedIsQuiet' /\ TurnsFit' /\ EventsAreTrue' /\
   StartsAreActive' /\ AnswererFits' /\ ShutFits' /\ PlaceIsFree' /\ InputNeverResent'
  BY <1>1, <1>2, PartsRest
<1>9. JobsFit'
  BY <1>1, <1>4, <1>6, CodeTyped, Numbers DEF CodeInv, JobsFit, Unopened, Unfed, Connected
<1>10. ProcessesAreOwned'
  BY <1>1, <1>4, CodeTypes DEF CodeInv, CodeSafety, ProcessesAreOwned, NobodyIsLate, HandsFit
<1>11. DeletionIsDecided'
  BY <1>1, <1>4, <1>6, CodeTypes DEF CodeInv, CodeSafety, DeletionIsDecided, Saves
<1>12. ServiceFits'
  BY <1>1, <1>3, <1>4, <1>6, CodeTyped DEF CodeInv, ServiceFits, Saves, Busy, ActiveStatuses
<1>13. FedFits'
  BY <1>1, <1>4, <1>6, CodeTyped DEF CodeInv, FedFits
<1>14. ProcessesFit'
  BY <1>1, <1>4, <1>5, CodeTyped, Numbers, TaskNames, Generated DEF CodeInv, ProcessesFit
<1>15. HandsFit'
  BY <1>1, <1>3, <1>4, CodeTyped, TaskNames, Numbers DEF CodeInv, HandsFit
<1>16. OpeningIsUnasked'
  BY <1>1, <1>4, <1>5, CodeTyped, Generated, Numbers DEF CodeInv, OpeningIsUnasked, PromptOpen,
     Opening, Busy, ActiveStatuses
<1>17. GoneStays'
  BY <1>1, <1>4, <1>6, CodeTyped, JobsHaveProcesses DEF CodeInv, GoneStays
<1>18. DeletedIsGone'
  BY <1>17 DEF DeletedIsGone, GoneStays
<1>19. RunsStay
  BY <1>1 DEF RunsStay
<1> QED
  BY <1>1, <1>2, <1>3, <1>4, <1>5, <1>6, <1>7, <1>8, <1>9, <1>10, <1>11, <1>12, <1>13, <1>14,
     <1>15, <1>16, <1>17, <1>18, <1>19 DEF CodeInv, CodeSafety

\* The service is closed.
LEMMA CodeBeginShutdown == ASSUME CodeInv, BeginShutdown PROVE CodeInv' /\ RunsStay
<1>1. UNCHANGED <<crashes, storage, session, current, runs, prompt, sends, connection, loaded,
   events, process, native, job, hand, interrupter, deleter, halter, answerer>>
  BY DEF BeginShutdown, Closes, TasksUnchanged, stored, linkVars, helpers
<1>2. EventsFit' /\ Waiting' = Waiting
  BY <1>1 DEF CodeInv, EventsFit, Waiting
<1>3. service = "up" /\ closer = "none" /\ service' = "stopping" /\ closer' = "commands"
  BY DEF BeginShutdown, Closes
<1>4. CodeTypeOK'
  BY <1>1, <1>2, <1>3, CodeTypes, Numbers DEF CodeInv, CodeSafety, CodeTypeOK, RunRecords,
     RunStatuses, PromptRecords, SendRecords, ProcessRecords, NativeRecords, JobRecords,
     SessionRecords, SessionStatuses, DeleterRecords, DeleterStages, AnswererRecords,
     InterrupterStages, Closers
<1>5. JobsFit' /\ OneActiveRun' /\ CompletedIsOver' /\ ProcessesAreOwned' /\ DeletionIsDecided'
   /\ FedFits' /\ TurnsFit' /\ ProcessesFit' /\ EventsAreTrue' /\ StartsAreActive' /\
   OpeningIsUnasked' /\ AnswererFits' /\ GoneStays' /\ DeletedIsGone' /\ InputNeverResent'
  BY <1>1, <1>2, PartsRest
<1>6. ClosedIsQuiet'
  BY <1>1, <1>3, CodeTypes DEF CodeInv, CodeSafety, ClosedIsQuiet, NobodyIsLate, Saves, Busy,
     ActiveStatuses
<1>7. ServiceFits'
  BY <1>1, <1>3, CodeTyped DEF CodeInv, ServiceFits, Saves, Busy, ActiveStatuses
<1>8. HandsFit'
  BY <1>1, <1>3, CodeTyped, TaskNames, Numbers DEF CodeInv, HandsFit
<1>9. ShutFits'
  BY <1>1, <1>2, <1>3, CodeTyped, JobsHaveProcesses DEF CodeInv, ShutFits
<1>10. PlaceIsFree'
  BY <1>1, <1>3, CodeTyped DEF CodeInv, PlaceIsFree, NobodyIsLate, Opening, Connected
<1>11. RunsStay
  BY <1>1 DEF RunsStay
<1> QED
  BY <1>1, <1>2, <1>3, <1>4, <1>5, <1>6, <1>7, <1>8, <1>9, <1>10, <1>11 DEF CodeInv, CodeSafety

\* The commands have ended.
LEMMA CodeCommandsEnd == ASSUME CodeInv, CommandsEnd PROVE CodeInv' /\ RunsStay
<1>1. UNCHANGED <<service, crashes, storage, session, current, runs, prompt, sends, connection,
   loaded, events, process, native, job, hand, interrupter, deleter, halter, answerer>>
  BY DEF CommandsEnd, Closes, TasksUnchanged, stored, linkVars, helpers
<1>2. EventsFit' /\ Waiting' = Waiting
  BY <1>1 DEF CodeInv, EventsFit, Waiting
<1>3. closer = "commands" /\ closer' = "stop"
  BY DEF CommandsEnd, Closes
<1>4. CodeTypeOK'
  BY <1>1, <1>2, <1>3, CodeTypes, Numbers DEF CodeInv, CodeSafety, CodeTypeOK, RunRecords,
     RunStatuses, PromptRecords, SendRecords, ProcessRecords, NativeRecords, JobRecords,
     SessionRecords, SessionStatuses, DeleterRecords, DeleterStages, AnswererRecords,
     InterrupterStages, Closers
<1>5. JobsFit' /\ OneActiveRun' /\ CompletedIsOver' /\ ProcessesAreOwned' /\ ClosedIsQuiet' /\
   DeletionIsDecided' /\ FedFits' /\ TurnsFit' /\ ProcessesFit' /\ EventsAreTrue' /\
   StartsAreActive' /\ OpeningIsUnasked' /\ AnswererFits' /\ GoneStays' /\ DeletedIsGone' /\
   InputNeverResent'
  BY <1>1, <1>2, PartsRest
<1>6. ServiceFits'
  BY <1>1, <1>3, CodeTyped DEF CodeInv, ServiceFits, Saves, Busy, ActiveStatuses
<1>7. HandsFit'
  BY <1>1, <1>3, CodeTyped, TaskNames, Numbers DEF CodeInv, HandsFit
<1>8. ShutFits'
  BY <1>1, <1>2, <1>3, CodeTyped, JobsHaveProcesses DEF CodeInv, ShutFits
<1>9. PlaceIsFree'
  BY <1>1, <1>3, CodeTyped DEF CodeInv, PlaceIsFree, NobodyIsLate, Opening, Connected
<1>10. RunsStay
  BY <1>1 DEF RunsStay
<1> QED
  BY <1>1, <1>2, <1>3, <1>4, <1>5, <1>6, <1>7, <1>8, <1>9, <1>10 DEF CodeInv, CodeSafety

\* It takes the connection.
LEMMA CodeJobsWaited == ASSUME CodeInv, JobsWaited PROVE CodeInv' /\ RunsStay
<1>1. UNCHANGED <<service, crashes, storage, session, current, runs, prompt, sends, process,
   native, job, interrupter, deleter, halter, answerer>>
  BY DEF JobsWaited, Detach, Closes, TasksUnchanged, stored, helpers
<1>2. closer = "jobs" /\ closer' = "close"
  BY DEF JobsWaited, Closes
<1>3. hand[Only("closer")] = 0
  BY <1>2 DEF CodeInv, HandsFit
<1>4. /\ Only("closer") \in Tasks
      /\ hand' \in [Tasks -> 0..MaxConnections] /\ hand'[Only("closer")] = connection
      /\ \A s \in Tasks : s # Only("closer") => hand'[s] = hand[s]
      /\ connection' = 0 /\ loaded' = 0 /\ EventsFit' /\ Waiting' = {}
  BY TaskNames, Detaches DEF JobsWaited, CodeInv, CodeSafety
<1>5. CodeTypeOK'
  BY <1>1, <1>2, <1>3, <1>4, CodeTypes, Numbers DEF CodeInv, CodeSafety, CodeTypeOK, RunRecords,
     RunStatuses, PromptRecords, SendRecords, ProcessRecords, NativeRecords, JobRecords,
     SessionRecords, SessionStatuses, DeleterRecords, DeleterStages, AnswererRecords,
     InterrupterStages, Closers
<1>6. JobsFit' /\ OneActiveRun' /\ CompletedIsOver' /\ ClosedIsQuiet' /\ DeletionIsDecided' /\
   FedFits' /\ TurnsFit' /\ DeletedIsGone' /\ InputNeverResent'
  BY <1>1, PartsRest
<1>7. ProcessesAreOwned'
  BY <1>1, <1>3, <1>4, CodeTypes DEF CodeInv, CodeSafety, ProcessesAreOwned, NobodyIsLate,
     HandsFit
<1>8. ServiceFits'
  BY <1>1, <1>2, <1>3, CodeTyped DEF CodeInv, ServiceFits, Saves, Busy, ActiveStatuses
<1>9. ProcessesFit'
  BY <1>1, <1>3, <1>4, CodeTyped, Numbers, TaskNames, Generated DEF CodeInv, ProcessesFit
<1>10. HandsFit'
  BY <1>1, <1>2, <1>3, <1>4, CodeTyped, TaskNames, Numbers DEF CodeInv, HandsFit
<1>11. EventsAreTrue'
  BY <1>1, <1>3, <1>4, CodeTyped, EventsOf, Generated, Numbers DEF CodeInv, EventsAreTrue, Busy,
     IsActive, ActiveStatuses
<1>12. StartsAreActive'
  BY <1>1, <1>3, <1>4, CodeTyped, JobsHaveProcesses DEF CodeInv, StartsAreActive, Busy, IsActive,
     ActiveStatuses
<1>13. OpeningIsUnasked'
  BY <1>1, <1>3, <1>4, CodeTyped, Generated, Numbers DEF CodeInv, OpeningIsUnasked, PromptOpen,
     Opening, Busy, ActiveStatuses
<1>14. AnswererFits'
  BY <1>1, <1>3, <1>4, CodeTyped, AnswererOf, JobsHaveProcesses DEF CodeInv, AnswererFits,
     Unopened, Connected
<1>15. ShutFits'
  BY <1>1, <1>2, <1>3, <1>4, CodeTyped, JobsHaveProcesses DEF CodeInv, ShutFits
<1>16. PlaceIsFree'
  BY <1>1, <1>2, <1>3, <1>4, CodeTyped DEF CodeInv, PlaceIsFree, NobodyIsLate, Opening, Connected
<1>17. GoneStays'
  BY <1>1, <1>3, <1>4, CodeTyped, JobsHaveProcesses DEF CodeInv, GoneStays
<1>18. RunsStay
  BY <1>1 DEF RunsStay
<1> QED
  BY <1>1, <1>2, <1>3, <1>4, <1>5, <1>6, <1>7, <1>8, <1>9, <1>10, <1>11, <1>12, <1>13, <1>14,
     <1>15, <1>16, <1>17, <1>18 DEF CodeInv, CodeSafety

\* Its process has ended.
LEMMA CodeClosedForShutdown == ASSUME CodeInv, ClosedForShutdown PROVE CodeInv' /\ RunsStay
<1>1. UNCHANGED <<service, crashes, storage, current, runs, sends, connection, loaded, events,
   process, native, job, interrupter, deleter, halter, answerer>>
  BY DEF ClosedForShutdown, AfterClose, Closes, TasksUnchanged, linkVars, helpers
<1>2. EventsFit' /\ Waiting' = Waiting
  BY <1>1 DEF CodeInv, EventsFit, Waiting
<1>3. closer = "close" /\ closer' = "settle"
  BY DEF ClosedForShutdown, Closes
<1>4. /\ Only("closer") \in Tasks
      /\ hand' \in [Tasks -> 0..MaxConnections] /\ hand'[Only("closer")] = 0
      /\ \A s \in Tasks : s # Only("closer") => hand'[s] = hand[s]
      /\ hand[Only("closer")] # 0 => process[hand[Only("closer")]].state = "dead"
      /\ prompt' \in {prompt, NoPrompt} /\ prompt' \in PromptRecords
      /\ session' \in SessionRecords
      /\ session'.status = session.status /\ session'.fed = session.fed
      /\ session.thread # 0 => session'.thread = session.thread
  BY TaskNames, ClosesAfter DEF ClosedForShutdown, CodeInv, CodeSafety
<1>5. NoPrompt.status = "none" /\ NoPrompt.generation = 0 /\ NoPrompt.turn = 0
  BY PromptIsNone
<1>6. session.fed => session'.thread = session.thread
  BY <1>4 DEF CodeInv, FedFits
<1>7. CodeTypeOK'
  BY <1>1, <1>2, <1>3, <1>4, <1>5, <1>6, CodeTypes, Numbers DEF CodeInv, CodeSafety, CodeTypeOK,
     RunRecords, RunStatuses, PromptRecords, SendRecords, ProcessRecords, NativeRecords,
     JobRecords, SessionRecords, SessionStatuses, DeleterRecords, DeleterStages, AnswererRecords,
     InterrupterStages, Closers
<1>8. OneActiveRun' /\ CompletedIsOver' /\ ClosedIsQuiet' /\ TurnsFit' /\ EventsAreTrue' /\
   StartsAreActive' /\ AnswererFits' /\ InputNeverResent'
  BY <1>1, <1>2, PartsRest
<1>9. JobsFit'
  BY <1>1, <1>4, <1>6, CodeTyped, Numbers DEF CodeInv, JobsFit, Unopened, Unfed, Connected
<1>10. ProcessesAreOwned'
  BY <1>1, <1>4, CodeTypes DEF CodeInv, CodeSafety, ProcessesAreOwned, NobodyIsLate, HandsFit
<1>11. DeletionIsDecided'
  BY <1>1, <1>4, <1>6, CodeTypes DEF CodeInv, CodeSafety, DeletionIsDecided, Saves
<1>12. ServiceFits'
  BY <1>1, <1>3, <1>4, <1>6, CodeTyped DEF CodeInv, ServiceFits, Saves, Busy, ActiveStatuses
<1>13. FedFits'
  BY <1>1, <1>4, <1>6, CodeTyped DEF CodeInv, FedFits
<1>14. ProcessesFit'
  BY <1>1, <1>4, <1>5, CodeTyped, Numbers, TaskNames, Generated DEF CodeInv, ProcessesFit
<1>15. HandsFit'
  BY <1>1, <1>3, <1>4, CodeTyped, TaskNames, Numbers DEF CodeInv, HandsFit
<1>16. OpeningIsUnasked'
  BY <1>1, <1>4, <1>5, CodeTyped, Generated, Numbers DEF CodeInv, OpeningIsUnasked, PromptOpen,
     Opening, Busy, ActiveStatuses
<1>17. ShutFits'
  BY <1>1, <1>2, <1>3, CodeTyped, JobsHaveProcesses DEF CodeInv, ShutFits
<1>18. PlaceIsFree'
  BY <1>1, <1>3, CodeTyped DEF CodeInv, PlaceIsFree, NobodyIsLate, Opening, Connected
<1>19. GoneStays'
  BY <1>1, <1>4, <1>6, CodeTyped, JobsHaveProcesses DEF CodeInv, GoneStays
<1>20. DeletedIsGone'
  BY <1>19 DEF DeletedIsGone, GoneStays
<1>21. RunsStay
  BY <1>1 DEF RunsStay
<1> QED
  BY <1>1, <1>2, <1>3, <1>4, <1>5, <1>6, <1>7, <1>8, <1>9, <1>10, <1>11, <1>12, <1>13, <1>14,
     <1>15, <1>16, <1>17, <1>18, <1>19, <1>20, <1>21 DEF CodeInv, CodeSafety

\* The run is interrupted.
LEMMA CodeShutdownSettles == ASSUME CodeInv, SettleForShutdown, Busy, Saves PROVE CodeInv' /\
           RunsStay
<1>1. UNCHANGED <<service, crashes, storage, session, current, connection, loaded, events,
   process, native, job, hand, interrupter, deleter, halter, answerer>>
  BY DEF SettleForShutdown, Finish, Closes, TasksUnchanged, stored, linkVars, helpers
<1>2. EventsFit' /\ Waiting' = Waiting
  BY <1>1 DEF CodeInv, EventsFit, Waiting
<1>3. closer = "settle" /\ closer' = "gather"
  BY DEF SettleForShutdown, Closes
<1>4. current \in Operations /\ Busy
  BY CodeTypes DEF CodeInv, CodeSafety, Busy
<1>5. /\ runs' \in [Operations -> RunRecords]
      /\ runs'[current].status \in {"interrupted"} /\ runs'[current].turn = runs[current].turn
      /\ \A p \in Operations : p # current => runs'[p] = runs[p]
      /\ prompt' \in {prompt, NoPrompt} /\ prompt' \in PromptRecords
      /\ sends' \in [Senders -> SendRecords]
      /\ session' = session /\ current' = current
  <2>1. PICK s \in {"interrupted"} : Finish(s)
    BY DEF SettleForShutdown
  <2>2. s \in FinalStatuses
    BY <2>1 DEF FinalStatuses
  <2> QED
    BY <1>4, <2>1, <2>2, RunFinishes DEF CodeInv, CodeSafety
<1>6. \A e \in Waiting : e.kind = "started" => runs[e.of].turn = e.of
  BY <1>3 DEF CodeInv, ShutFits
<1>7. \A p \in Operations : job[p].stage = "start" => connection # job[p].generation
  BY <1>3 DEF CodeInv, ShutFits
<1>8. NoPrompt.status = "none" /\ NoPrompt.generation = 0 /\ NoPrompt.turn = 0
  BY PromptIsNone
<1>9. CodeTypeOK'
  BY <1>1, <1>2, <1>3, <1>4, <1>5, <1>6, <1>7, <1>8, CodeTypes, Numbers DEF CodeInv, CodeSafety,
     CodeTypeOK, RunRecords, RunStatuses, PromptRecords, SendRecords, ProcessRecords,
     NativeRecords, JobRecords, SessionRecords, SessionStatuses, DeleterRecords, DeleterStages,
     AnswererRecords, InterrupterStages, Closers
<1>10. ProcessesAreOwned' /\ DeletionIsDecided' /\ FedFits' /\ AnswererFits' /\ GoneStays' /\
   DeletedIsGone' /\ InputNeverResent'
  BY <1>1, <1>2, PartsRest
<1>11. JobsFit'
  BY <1>1, <1>4, <1>5, <1>6, <1>7, CodeTyped, Numbers DEF CodeInv, JobsFit, Busy, ActiveStatuses,
     Unopened, Unfed, Connected
<1>12. OneActiveRun'
  BY <1>1, <1>4, <1>5, <1>6, <1>7, CodeTypes, Numbers DEF CodeInv, CodeSafety, OneActiveRun,
     Busy, ActiveStatuses
<1>13. CompletedIsOver'
  BY <1>1, <1>4, <1>5, <1>6, <1>7, CodeTypes, Numbers DEF CodeInv, CodeSafety, CompletedIsOver
<1>14. ClosedIsQuiet'
  BY <1>1, <1>4, <1>5, <1>6, <1>7, CodeTypes DEF CodeInv, CodeSafety, ClosedIsQuiet,
     NobodyIsLate, Saves, Busy, ActiveStatuses
<1>15. ServiceFits'
  BY <1>1, <1>3, <1>4, <1>5, <1>6, <1>7, CodeTyped DEF CodeInv, ServiceFits, Saves, Busy,
     ActiveStatuses
<1>16. TurnsFit'
  BY <1>1, <1>4, <1>5, <1>6, <1>7, CodeTyped DEF CodeInv, TurnsFit
<1>17. ProcessesFit'
  BY <1>1, <1>4, <1>5, <1>6, <1>7, <1>8, CodeTyped, Numbers, TaskNames, Generated DEF CodeInv,
     ProcessesFit
<1>18. HandsFit'
  BY <1>1, <1>3, <1>4, <1>6, <1>7, CodeTyped, TaskNames, Numbers DEF CodeInv, HandsFit
<1>19. EventsAreTrue'
  BY <1>1, <1>2, <1>4, <1>5, <1>6, <1>7, CodeTyped, EventsOf, Generated, Numbers DEF CodeInv,
     EventsAreTrue, Busy, IsActive, ActiveStatuses
<1>20. StartsAreActive'
  BY <1>1, <1>4, <1>5, <1>6, <1>7, CodeTyped, JobsHaveProcesses DEF CodeInv, StartsAreActive,
     Busy, IsActive, ActiveStatuses
<1>21. OpeningIsUnasked'
  BY <1>1, <1>4, <1>5, <1>6, <1>7, <1>8, CodeTyped, Generated, Numbers DEF CodeInv,
     OpeningIsUnasked, PromptOpen, Opening, Busy, ActiveStatuses
<1>22. ShutFits'
  BY <1>1, <1>2, <1>3, <1>4, <1>6, <1>7, CodeTyped, JobsHaveProcesses DEF CodeInv, ShutFits
<1>23. PlaceIsFree'
  BY <1>1, <1>3, <1>4, <1>5, <1>6, <1>7, CodeTyped DEF CodeInv, PlaceIsFree, NobodyIsLate,
     Opening, Connected
<1>24. RunsStay
  BY <1>1, <1>2, <1>3, <1>4, <1>5, <1>6, <1>7, <1>8, CodeTypes DEF CodeInv, CodeSafety, RunsStay,
     CompletedIsOver, OneActiveRun, Busy, ActiveStatuses, FinalStatuses
<1> QED
  BY <1>1, <1>2, <1>3, <1>4, <1>5, <1>6, <1>7, <1>8, <1>9, <1>10, <1>11, <1>12, <1>13, <1>14,
     <1>15, <1>16, <1>17, <1>18, <1>19, <1>20, <1>21, <1>22, <1>23, <1>24 DEF CodeInv, CodeSafety

\* There is nothing to interrupt.
LEMMA CodeShutdownLeaves == ASSUME CodeInv, SettleForShutdown, ~(Busy /\ Saves) PROVE CodeInv' /\
           RunsStay
<1>1. UNCHANGED <<service, crashes, storage, session, current, runs, prompt, sends, connection,
   loaded, events, process, native, job, hand, interrupter, deleter, halter, answerer>>
  BY DEF SettleForShutdown, Closes, TasksUnchanged, stored, linkVars, helpers
<1>2. EventsFit' /\ Waiting' = Waiting
  BY <1>1 DEF CodeInv, EventsFit, Waiting
<1>3. closer = "settle" /\ closer' = "gather"
  BY DEF SettleForShutdown, Closes
<1>4. CodeTypeOK'
  BY <1>1, <1>2, <1>3, CodeTypes, Numbers DEF CodeInv, CodeSafety, CodeTypeOK, RunRecords,
     RunStatuses, PromptRecords, SendRecords, ProcessRecords, NativeRecords, JobRecords,
     SessionRecords, SessionStatuses, DeleterRecords, DeleterStages, AnswererRecords,
     InterrupterStages, Closers
<1>5. JobsFit' /\ OneActiveRun' /\ CompletedIsOver' /\ ProcessesAreOwned' /\ ClosedIsQuiet' /\
   DeletionIsDecided' /\ FedFits' /\ TurnsFit' /\ ProcessesFit' /\ EventsAreTrue' /\
   StartsAreActive' /\ OpeningIsUnasked' /\ AnswererFits' /\ GoneStays' /\ DeletedIsGone' /\
   InputNeverResent'
  BY <1>1, <1>2, PartsRest
<1>6. ServiceFits'
  BY <1>1, <1>3, CodeTyped DEF CodeInv, ServiceFits, Saves, Busy, ActiveStatuses
<1>7. HandsFit'
  BY <1>1, <1>3, CodeTyped, TaskNames, Numbers DEF CodeInv, HandsFit
<1>8. ShutFits'
  BY <1>1, <1>2, <1>3, CodeTyped, JobsHaveProcesses DEF CodeInv, ShutFits
<1>9. PlaceIsFree'
  BY <1>1, <1>3, CodeTyped DEF CodeInv, PlaceIsFree, NobodyIsLate, Opening, Connected
<1>10. RunsStay
  BY <1>1 DEF RunsStay
<1> QED
  BY <1>1, <1>2, <1>3, <1>4, <1>5, <1>6, <1>7, <1>8, <1>9, <1>10 DEF CodeInv, CodeSafety

\* Who the tasks are.
LEMMA TaskIs ==
    ASSUME NEW t \in Tasks
    PROVE  \/ \E o \in Operations : t = Task("job", o) \/ t = Task("interrupter", o)
           \/ t \in {Only("deleter"), Only("halter"), Only("closer"), Only("answerer")}
<1>1. CASE t \in [kind : {"job", "interrupter"}, of : Operations]
  <2>1. t.kind \in {"job", "interrupter"} /\ t.of \in Operations /\ t = [kind |-> t.kind,
         of |-> t.of]
    BY <1>1
  <2> QED
    BY <2>1 DEF Task
<1>2. CASE t \in [kind : {"deleter", "halter", "closer", "answerer"}, of : {0}]
  <2>1. t.kind \in {"deleter", "halter", "closer", "answerer"} /\ t = [kind |-> t.kind, of |-> 0]
    BY <1>2
  <2> QED
    BY <2>1 DEF Task, Only
<1> QED
  BY <1>1, <1>2 DEF Tasks

\* When the tasks rest nobody holds a process.
LEMMA NobodyHolds ==
    ASSUME CodeInv, TasksRest, closer # "close", NEW t \in Tasks PROVE hand[t] = 0
<1>1. /\ \A o \in Operations : hand[Task("job", o)] = 0 /\ hand[Task("interrupter", o)] = 0
      /\ hand[Only("deleter")] = 0 /\ hand[Only("halter")] = 0
      /\ hand[Only("closer")] = 0 /\ hand[Only("answerer")] = 0
  BY DEF CodeInv, HandsFit, TasksRest, NoAnswer
<1> QED
  BY <1>1, TaskIs

\* The service has closed.
LEMMA CodeStoreCloses == ASSUME CodeInv, StoreCloses PROVE CodeInv' /\ RunsStay
<1>1. UNCHANGED <<crashes, storage, session, current, runs, prompt, sends, connection, loaded,
   events, process, native, job, hand, interrupter, deleter, halter, answerer>>
  BY DEF StoreCloses, Closes, TasksUnchanged, stored, linkVars, helpers
<1>2. EventsFit' /\ Waiting' = Waiting
  BY <1>1 DEF CodeInv, EventsFit, Waiting
<1>3. /\ closer = "gather" /\ closer' = "over" /\ service' = "closed"
      /\ deleter.stage = "none" /\ \A o \in Operations : job[o].stage \in {"none", "over"}
  BY DEF StoreCloses, Closes, TasksRest
<1>4. \A t \in Tasks : hand[t] = 0
  BY <1>3, NobodyHolds DEF StoreCloses
<1>5. NobodyIsLate => connection = 0
  BY <1>3, CodeTypes DEF CodeInv, CodeSafety, PlaceIsFree, Connected
<1>6. NobodyIsLate => \A g \in Generations : process[g].state # "alive"
  BY <1>4, <1>5, Numbers DEF CodeInv, CodeSafety, ProcessesAreOwned
<1>7. Busy => ~Saves
  BY <1>3 DEF CodeInv, ServiceFits
<1>8. CodeTypeOK'
  BY <1>1, <1>2, <1>3, <1>4, <1>5, <1>6, <1>7, CodeTypes, Numbers DEF CodeInv, CodeSafety,
     CodeTypeOK, RunRecords, RunStatuses, PromptRecords, SendRecords, ProcessRecords,
     NativeRecords, JobRecords, SessionRecords, SessionStatuses, DeleterRecords, DeleterStages,
     AnswererRecords, InterrupterStages, Closers
<1>9. JobsFit' /\ OneActiveRun' /\ CompletedIsOver' /\ ProcessesAreOwned' /\ DeletionIsDecided'
   /\ FedFits' /\ TurnsFit' /\ ProcessesFit' /\ EventsAreTrue' /\ StartsAreActive' /\
   OpeningIsUnasked' /\ AnswererFits' /\ GoneStays' /\ DeletedIsGone' /\ InputNeverResent'
  BY <1>1, <1>2, PartsRest
<1>10. ClosedIsQuiet'
  BY <1>1, <1>6, <1>7 DEF ClosedIsQuiet, NobodyIsLate, Saves, Busy
<1>11. ServiceFits'
  BY <1>1, <1>3, <1>4, <1>5, <1>6, <1>7, CodeTyped DEF CodeInv, ServiceFits, Saves, Busy,
     ActiveStatuses
<1>12. HandsFit'
  BY <1>1, <1>3, <1>4, <1>5, <1>6, <1>7, CodeTyped, TaskNames, Numbers DEF CodeInv, HandsFit
<1>13. ShutFits'
  BY <1>1, <1>2, <1>3, <1>4, <1>5, <1>6, <1>7, CodeTyped, JobsHaveProcesses DEF CodeInv, ShutFits
<1>14. PlaceIsFree'
  BY <1>1, <1>3, <1>4, <1>5, <1>6, <1>7, CodeTyped DEF CodeInv, PlaceIsFree, NobodyIsLate,
     Opening, Connected
<1>15. RunsStay
  BY <1>1 DEF RunsStay
<1> QED
  BY <1>1, <1>2, <1>3, <1>4, <1>5, <1>6, <1>7, <1>8, <1>9, <1>10, <1>11, <1>12, <1>13, <1>14,
     <1>15 DEF CodeInv, CodeSafety

\* The server dies and is started again.
LEMMA CodeCrash == ASSUME CodeInv, Crash PROVE CodeInv' /\ RunsStay
<1>1. UNCHANGED <<session, current>>
  BY DEF Crash
<1>2. /\ service' = "up" /\ closer' = "none" /\ storage' = "fine" /\ halter' = "none"
      /\ crashes' \in 0..MaxCrashes /\ connection' = 0 /\ loaded' = 0
      /\ EventsFit' /\ Waiting' = {} /\ hand' = [t \in Tasks |-> 0]
  BY CodeTypes, CodeAssumption DEF Crash, CodeInv, CodeSafety, EventsFit, Waiting
<1>3. /\ prompt' = NoPrompt /\ prompt' \in PromptRecords
      /\ sends' \in [Senders -> SendRecords]
      /\ answerer' \in AnswererRecords /\ answerer'.stage = "none"
  BY PromptIsNone, Numbers DEF Crash, SendRecords, Idle, AnswererRecords, NoAnswer
<1>4. NoPrompt.status = "none" /\ NoPrompt.generation = 0 /\ NoPrompt.turn = 0
  BY PromptIsNone
<1>5. /\ runs' \in [Operations -> RunRecords]
      /\ \A o \in Operations :
            /\ runs'[o].turn = runs[o].turn
            /\ runs'[o].status = IF runs[o].status \in ActiveStatuses THEN "interrupted"
                                 ELSE runs[o].status
  <2>1. runs \in [Operations -> RunRecords] /\ "interrupted" \in RunStatuses
    BY CodeTypes DEF CodeInv, CodeSafety, RunStatuses, FinalStatuses
  <2>2. ASSUME NEW o \in Operations
        PROVE  /\ [runs[o] EXCEPT !.status = "interrupted"] \in RunRecords
               /\ [runs[o] EXCEPT !.status = "interrupted"].turn = runs[o].turn
               /\ [runs[o] EXCEPT !.status = "interrupted"].status = "interrupted"
    BY <2>1 DEF RunRecords
  <2>3. runs' = [o \in Operations |-> IF runs[o].status \in ActiveStatuses
                                     THEN [runs[o] EXCEPT !.status = "interrupted"] ELSE runs[o]]
    BY DEF Crash, Restarted
  <2> QED
    BY <2>1, <2>2, <2>3
<1>6. /\ process' \in [Generations -> ProcessRecords]
      /\ \A g \in Generations :
            /\ process'[g].state # "alive" /\ process'[g].begun = process[g].begun
            /\ process[g].state # "none" => process'[g].state # "none"
  <2>1. process \in [Generations -> ProcessRecords]
    BY CodeTypes DEF CodeInv, CodeSafety
  <2>2. ASSUME NEW g \in Generations
        PROVE  /\ [process[g] EXCEPT !.state = "dead"] \in ProcessRecords
               /\ [process[g] EXCEPT !.state = "dead"].state = "dead"
               /\ [process[g] EXCEPT !.state = "dead"].begun = process[g].begun
    BY <2>1 DEF ProcessRecords
  <2>3. process' = [g \in Generations |-> IF process[g].state = "alive"
                                         THEN [process[g] EXCEPT !.state = "dead"] ELSE process[g]]
    BY DEF Crash
  <2> QED
    BY <2>1, <2>2, <2>3
<1>7. /\ native' \in NativeRecords
      /\ native'.threads = native.threads /\ native'.inputs = native.inputs
      /\ \A o \in Operations : native'.turn[o] = IF native.turn[o] \in Generations THEN Over
                                               ELSE native.turn[o]
  <2> DEFINE T == [o \in Operations |-> IF native.turn[o] \in Generations THEN Over
                                       ELSE native.turn[o]]
  <2>1. native \in NativeRecords
    BY CodeTypes DEF CodeInv, CodeSafety
  <2>2. native' = [native EXCEPT !.turn = T]
    BY DEF Crash
  <2>3. T \in [Operations -> 0..Over]
    BY <2>1, Numbers DEF NativeRecords
  <2>4. \A o \in Operations : T[o] = IF native.turn[o] \in Generations THEN Over ELSE native.turn[o]
    OBVIOUS
  <2> HIDE DEF T
  <2>5. native' = [threads |-> native.threads, turn |-> T, inputs |-> native.inputs]
    BY <2>1, <2>2 DEF NativeRecords
  <2>6. /\ native' \in NativeRecords /\ native'.turn = T
        /\ native'.threads = native.threads /\ native'.inputs = native.inputs
    BY <2>1, <2>3, <2>5 DEF NativeRecords
  <2> QED
    BY <2>4, <2>6
<1>8. /\ job' \in [Operations -> JobRecords]
      /\ \A o \in Operations :
            \/ job[o].stage = "none" /\ job'[o] = job[o]
            \/ /\ job[o].stage # "none" /\ job'[o].stage = "over"
               /\ job'[o].generation = 0 /\ ~(job'[o].late)
  <2> DEFINE h == [NoJob EXCEPT !.stage = "over"]
  <2>1. h \in JobRecords /\ h.stage = "over" /\ h.generation = 0 /\ h.late = FALSE
    <3>1. NoJob \in JobRecords /\ NoJob.generation = 0 /\ NoJob.late = FALSE
      BY Numbers DEF NoJob, JobRecords, JobStages
    <3> QED
      BY <3>1 DEF JobRecords, JobStages
  <2> HIDE DEF h
  <2>2. job \in [Operations -> JobRecords]
    BY CodeTypes DEF CodeInv, CodeSafety
  <2>3. job' = [o \in Operations |-> IF job[o].stage = "none" THEN job[o] ELSE h]
    BY DEF Crash, h
  <2> QED
    BY <2>1, <2>2, <2>3
<1>9. /\ interrupter' \in [Operations -> InterrupterStages]
      /\ \A o \in Operations : /\ interrupter'[o] \in {"none", "over"}
                               /\ interrupter'[o] # "none" => interrupter[o] # "none"
  BY DEF Crash, InterrupterStages
<1>10. /\ deleter' \in DeleterRecords
      /\ IF session.status \in {"deleting", "delete_uncertain"} THEN deleter'.stage = "begin"
         ELSE deleter'.stage = "none"
  BY DeletionBegins DEF Crash
<1>11. ~(Busy')
  <2>1. current' = current /\ current \in {0} \cup Operations
    BY <1>1, CodeTypes DEF CodeInv, CodeSafety
  <2>2. \A o \in Operations : runs'[o].status \notin ActiveStatuses
    BY <1>5 DEF ActiveStatuses
  <2> QED
    BY <2>1, <2>2 DEF Busy
<1>12. CodeTypeOK'
  BY <1>1, <1>2, <1>3, <1>4, <1>5, <1>6, <1>7, <1>8, <1>9, <1>10, <1>11, CodeTypes, Numbers DEF
     CodeInv, CodeSafety, CodeTypeOK, RunRecords, RunStatuses, PromptRecords, SendRecords,
     ProcessRecords, NativeRecords, JobRecords, SessionRecords, SessionStatuses, DeleterRecords,
     DeleterStages, AnswererRecords, InterrupterStages, Closers
<1>13. JobsFit'
  <2>1. \A o \in Operations : runs'[o].status = "none" <=> runs[o].status = "none"
    BY <1>5 DEF ActiveStatuses
  <2>2. \A o \in Operations : job'[o].stage = "none" <=> job[o].stage = "none"
    BY <1>8
  <2>3. \A o \in Operations : job'[o].stage \in Unfed =>
            /\ job'[o] = job[o] /\ native'.turn[o] = native.turn[o] /\ native.turn[o] = 0
    <3>1. \A o \in Operations : job'[o].stage \in Unfed => job'[o] = job[o]
           /\ job[o].stage \in Unfed
      BY <1>8 DEF Unfed, Unopened
    <3>2. \A o \in Operations : job[o].stage \in Unfed => native.turn[o] = 0
      BY DEF CodeInv, JobsFit
    <3> QED
      BY <1>7, <3>1, <3>2, Numbers
  <2>4. \A o \in Operations : job'[o].stage \in {"none", "over"}
    BY <1>8
  <2> QED
    BY <1>1, <1>7, <2>1, <2>2, <2>3, <2>4 DEF CodeInv, JobsFit, Unfed, Unopened, Connected
<1>14. OneActiveRun'
  BY <1>1, <1>5, <1>11, CodeTypes, Numbers DEF CodeInv, CodeSafety, OneActiveRun, Busy,
     ActiveStatuses
<1>15. CompletedIsOver'
  BY <1>1, <1>5, <1>7, <1>11, CodeTypes, Numbers DEF CodeInv, CodeSafety, CompletedIsOver,
     ActiveStatuses
<1>16. ProcessesAreOwned'
  BY <1>6 DEF ProcessesAreOwned
<1>17. ClosedIsQuiet'
  BY <1>1, <1>2, <1>5, <1>6, <1>8, <1>11, CodeTypes DEF CodeInv, CodeSafety, ClosedIsQuiet,
     NobodyIsLate, Saves, Busy, ActiveStatuses
<1>18. DeletionIsDecided'
  BY <1>1, <1>2, <1>10, CodeTypes DEF CodeInv, CodeSafety, DeletionIsDecided, Saves
<1>19. ServiceFits'
  BY <1>1, <1>2, <1>5, <1>8, <1>10, <1>11, CodeTyped DEF CodeInv, ServiceFits, Saves, Busy,
     ActiveStatuses
<1>20. FedFits'
  <2>1. \A o \in Operations : native'.turn[o] # 0 => native.turn[o] # 0
    BY <1>7, Numbers
  <2>2. \A o \in Operations : job'[o].stage # "start"
    BY <1>8
  <2> QED
    BY <1>1, <2>1, <2>2 DEF CodeInv, FedFits
<1>21. TurnsFit'
  <2>1. \A o \in Operations : native.turn[o] # 0 => native'.turn[o] # 0
    BY <1>7, Numbers
  <2> QED
    BY <1>5, <1>9, <2>1 DEF CodeInv, TurnsFit
<1>22. ProcessesFit'
  <2>1. \A o \in Operations : native'.turn[o] \in Generations => FALSE
    BY <1>7, Numbers
  <2>2. \A o \in Operations : job'[o].generation # 0 => job'[o].generation = job[o].generation
    BY <1>8
  <2>3. \A t \in Tasks : hand'[t] = 0
    BY <1>2
  <2> QED
    BY <1>2, <1>3, <1>4, <1>6, <2>1, <2>2, <2>3, Generated, Numbers DEF CodeInv, ProcessesFit
<1>23. HandsFit'
  BY <1>2, TaskNames DEF HandsFit
<1>24. EventsAreTrue'
  BY <1>1, <1>2, <1>5, <1>6, <1>7, <1>8, <1>11, CodeTyped, EventsOf, Generated, Numbers DEF
     CodeInv, EventsAreTrue, Busy, IsActive, ActiveStatuses
<1>25. StartsAreActive'
  BY <1>1, <1>2, <1>5, <1>8, <1>11, CodeTyped, JobsHaveProcesses DEF CodeInv, StartsAreActive,
     Busy, IsActive, ActiveStatuses
<1>26. OpeningIsUnasked'
  BY <1>1, <1>2, <1>3, <1>4, <1>5, <1>6, <1>8, <1>11, CodeTyped, Generated, Numbers DEF CodeInv,
     OpeningIsUnasked, PromptOpen, Opening, Busy, ActiveStatuses
<1>27. AnswererFits'
  BY <1>1, <1>2, <1>3, <1>8, CodeTyped, AnswererOf, JobsHaveProcesses DEF CodeInv, AnswererFits,
     Unopened, Connected
<1>28. ShutFits'
  BY <1>1, <1>2, <1>8, CodeTyped, JobsHaveProcesses DEF CodeInv, ShutFits
<1>29. PlaceIsFree'
  BY <1>1, <1>2, <1>8, <1>10, <1>11, CodeTyped DEF CodeInv, PlaceIsFree, NobodyIsLate, Opening,
     Connected
<1>30. GoneStays'
  BY <1>1, <1>2, <1>7, <1>8, <1>10, CodeTyped, JobsHaveProcesses DEF CodeInv, GoneStays
<1>31. DeletedIsGone'
  BY <1>30 DEF DeletedIsGone, GoneStays
<1>32. InputNeverResent'
  BY <1>13 DEF InputNeverResent, JobsFit
<1>33. RunsStay
  BY <1>1, <1>2, <1>3, <1>4, <1>5, <1>6, <1>7, <1>8, <1>9, <1>10, <1>11, CodeTypes DEF CodeInv,
     CodeSafety, RunsStay, CompletedIsOver, OneActiveRun, Busy, ActiveStatuses, FinalStatuses
<1> QED
  BY <1>1, <1>2, <1>3, <1>4, <1>5, <1>6, <1>7, <1>8, <1>9, <1>10, <1>11, <1>12, <1>13, <1>14,
     <1>15, <1>16, <1>17, <1>18, <1>19, <1>20, <1>21, <1>22, <1>23, <1>24, <1>25, <1>26, <1>27,
     <1>28, <1>29, <1>30, <1>31, <1>32, <1>33 DEF CodeInv, CodeSafety

\* At the beginning nothing runs and nothing is asked.
LEMMA CodeBegins == CodeInit => CodeInv
<1> SUFFICES ASSUME CodeInit PROVE CodeInv
  OBVIOUS
<1>1. CodeTypeOK
  <2>1. /\ NoDeletion \in DeleterRecords /\ NoPrompt \in PromptRecords
        /\ NoJob \in JobRecords /\ NoAnswer \in AnswererRecords /\ Idle \in SendRecords
    BY DeletionBegins, PromptIsNone, Numbers DEF NoJob, JobRecords, JobStages, NoAnswer,
       AnswererRecords, Idle, SendRecords
  <2>2. /\ service \in {"down", "up", "stopping", "closed"} /\ crashes \in 0..MaxCrashes
        /\ closer \in Closers /\ storage \in {"fine", "failed"}
    BY CodeAssumption DEF CodeInit, Closers
  <2>3. session \in SessionRecords
    BY Numbers DEF CodeInit, SessionRecords, SessionStatuses
  <2>4. current \in {0} \cup Operations /\ runs \in [Operations -> RunRecords]
    BY DEF CodeInit, RunRecords, RunStatuses
  <2>5. process \in [Generations -> ProcessRecords] /\ native \in NativeRecords
    BY Numbers DEF CodeInit, ProcessRecords, NativeRecords
  <2>6. /\ connection \in 0..MaxConnections /\ loaded \in 0..MaxThreads
        /\ hand \in [Tasks -> 0..MaxConnections]
    BY Numbers DEF CodeInit
  <2>7. /\ prompt \in PromptRecords /\ sends \in [Senders -> SendRecords]
        /\ job \in [Operations -> JobRecords]
        /\ interrupter \in [Operations -> InterrupterStages]
        /\ deleter \in DeleterRecords /\ halter \in {"none", "begin", "close", "over"}
        /\ answerer \in AnswererRecords
    BY <2>1 DEF CodeInit, InterrupterStages
  <2> QED
    BY <2>2, <2>3, <2>4, <2>5, <2>6, <2>7, CodeTypes
<1>2. /\ \A o \in Operations : /\ runs[o].status = "none" /\ runs[o].turn = 0
                               /\ native.turn[o] = 0 /\ native.inputs[o] = 0
                               /\ interrupter[o] = "none"
      /\ ~Busy /\ current = 0
  BY Numbers DEF CodeInit, Busy
<1>3. \A o \in Operations : /\ job[o].stage = "none" /\ job[o].generation = 0
       /\ job[o].late = FALSE
  BY DEF CodeInit, NoJob
<1>4. /\ \A g \in Generations : process[g].state = "none" /\ process[g].begun = FALSE
      /\ \A t \in Tasks : hand[t] = 0
      /\ connection = 0 /\ EventsFit /\ Waiting = {}
  BY DEF CodeInit, EventsFit, Waiting
<1>5. /\ session.status = "ready" /\ session.fed = FALSE /\ session.thread = 0
      /\ service = "up" /\ closer = "none" /\ halter = "none" /\ Saves
      /\ prompt.status = "none" /\ prompt.generation = 0
      /\ deleter.stage = "none" /\ answerer.stage = "none"
  BY PromptIsNone, DeletionBegins DEF CodeInit, Saves, NoAnswer
<1>6. InputNeverResent /\ OneActiveRun /\ CompletedIsOver
  BY <1>2, Numbers DEF InputNeverResent, OneActiveRun, CompletedIsOver, ActiveStatuses
<1>7. ProcessesAreOwned /\ ClosedIsQuiet /\ DeletedIsGone /\ DeletionIsDecided
  BY <1>4, <1>5 DEF ProcessesAreOwned, ClosedIsQuiet, DeletedIsGone, DeletionIsDecided
<1>8. JobsFit /\ ServiceFits /\ FedFits /\ TurnsFit
  BY <1>2, <1>3, <1>5, Numbers DEF JobsFit, ServiceFits, FedFits, TurnsFit, Connected
<1>9. ProcessesFit /\ HandsFit
  BY <1>2, <1>3, <1>4, <1>5, Numbers, TaskNames DEF ProcessesFit, HandsFit
<1>10. EventsAreTrue /\ StartsAreActive /\ OpeningIsUnasked /\ AnswererFits
  BY <1>2, <1>3, <1>4, <1>5 DEF EventsAreTrue, StartsAreActive, OpeningIsUnasked, AnswererFits,
     PromptOpen
<1>11. ShutFits /\ PlaceIsFree /\ GoneStays
  BY <1>4, <1>5 DEF ShutFits, PlaceIsFree, GoneStays
<1> QED
  BY <1>1, <1>4, <1>6, <1>7, <1>8, <1>9, <1>10, <1>11 DEF CodeInv, CodeSafety

\* A step of somebody else.
LEMMA CodeRests == ASSUME CodeInv, UNCHANGED codeVars PROVE CodeInv' /\ RunsStay
<1>1. /\ UNCHANGED <<service, closer, crashes, storage, session, current, runs, prompt, sends>>
      /\ UNCHANGED <<connection, loaded, events, process, native, job, hand, interrupter>>
      /\ UNCHANGED <<deleter, halter, answerer>>
  BY DEF codeVars, serverVars, stored, linkVars, helpers
<1>2. Waiting' = Waiting /\ EventsFit' /\ CodeTypeOK'
  BY <1>1 DEF Waiting, EventsFit, CodeInv, CodeSafety, CodeTypeOK
<1>3. (Busy <=> Busy') /\ (Saves <=> Saves') /\ (NobodyIsLate <=> NobodyIsLate')
       /\ (PromptOpen <=> PromptOpen')
      /\ \A o \in Operations : IsActive(o) <=> IsActive(o)'
  BY <1>1 DEF Busy, Saves, NobodyIsLate, PromptOpen, IsActive
<1>4. /\ InputNeverResent' /\ OneActiveRun' /\ CompletedIsOver' /\ ProcessesAreOwned'
      /\ ClosedIsQuiet' /\ DeletedIsGone' /\ DeletionIsDecided'
  BY <1>1, <1>3 DEF CodeInv, CodeSafety, InputNeverResent, OneActiveRun, CompletedIsOver,
     ProcessesAreOwned, ClosedIsQuiet, DeletedIsGone, DeletionIsDecided
<1>5. JobsFit' /\ ServiceFits' /\ FedFits' /\ TurnsFit' /\ ProcessesFit' /\ HandsFit'
  BY <1>1, <1>3 DEF CodeInv, JobsFit, ServiceFits, FedFits, TurnsFit, ProcessesFit, HandsFit
<1>6. EventsAreTrue' /\ StartsAreActive' /\ OpeningIsUnasked' /\ AnswererFits'
  <2>1. EventsAreTrue'
    BY <1>1, <1>2, Busy' = Busy DEF CodeInv, EventsAreTrue, IsActive, Busy
  <2>2. StartsAreActive' /\ OpeningIsUnasked' /\ AnswererFits'
    BY <1>1, <1>2, <1>3 DEF CodeInv, StartsAreActive, OpeningIsUnasked, AnswererFits, PromptOpen
  <2> QED
    BY <2>1, <2>2
<1>7. ShutFits' /\ PlaceIsFree' /\ GoneStays'
  BY <1>1, <1>2, <1>3 DEF CodeInv, ShutFits, PlaceIsFree, GoneStays
<1>8. RunsStay
  BY <1>1 DEF RunsStay
<1> QED
  BY <1>2, <1>4, <1>5, <1>6, <1>7, <1>8 DEF CodeInv, CodeSafety

\* The shutdown stops what is active.
LEMMA CodeStopForShutdown == ASSUME CodeInv, StopForShutdown PROVE CodeInv' /\ RunsStay
<1>1. CASE Busy /\ Saves
  BY <1>1, CodeStopsForShutdown DEF StopForShutdown
<1>2. CASE ~(Busy /\ Saves)
  BY <1>2, CodeSkipsStop DEF StopForShutdown
<1> QED
  BY <1>1, <1>2

\* The run of an answer that failed is settled.
LEMMA CodeSettleAnswered == ASSUME CodeInv, SettleAnswered PROVE CodeInv' /\ RunsStay
<1>1. CASE IsActive(answerer.of) /\ Saves
  BY <1>1, CodeSettlesAnswered
<1>2. CASE ~(IsActive(answerer.of) /\ Saves)
  BY <1>2, CodeLeavesAnswered
<1> QED
  BY <1>1, <1>2 DEF SettleAnswered

\* A session is deleted.
LEMMA CodeDelete == ASSUME CodeInv, Delete PROVE CodeInv' /\ RunsStay
<1>1. CASE session.status = "ready"
  BY <1>1, CodeDeleteReady
<1>2. CASE session.status = "delete_uncertain"
  BY <1>2, CodeDeleteAgain
<1> QED
  BY <1>1, <1>2 DEF Delete

\* A run fails.
LEMMA CodeFail == ASSUME CodeInv, NEW o \in Operations, Fail(o) PROVE CodeInv' /\ RunsStay
<1>1. CASE IsActive(o)
  BY <1>1, CodeFailsActive
<1>2. CASE ~IsActive(o)
  BY <1>2, CodeFailsOver
<1> QED
  BY <1>1, <1>2 DEF Fail

\* It is settled.
LEMMA CodeSettle == ASSUME CodeInv, NEW o \in Operations, Settle(o) PROVE CodeInv' /\ RunsStay
<1>1. CASE IsActive(o) /\ Saves
  BY <1>1, CodeSettlesFailed
<1>2. CASE ~(IsActive(o) /\ Saves)
  BY <1>2, CodeSettlesOver
<1> QED
  BY <1>1, <1>2 DEF Settle

\* The task ends.
LEMMA CodeEndWork == ASSUME CodeInv, NEW o \in Operations, EndWork(o) PROVE CodeInv' /\ RunsStay
<1>1. CASE service # "up" \/ ~Saves
  BY <1>1, CodeEndClosing DEF EndWork
<1>2. CASE ~(service # "up" \/ ~Saves)
  BY <1>2, CodeEndResting DEF EndWork
<1> QED
  BY <1>1, <1>2

\* The interruption has taken too long, or is not needed any longer.
LEMMA CodeEndInterrupt == ASSUME CodeInv, NEW o \in Operations, EndInterrupt(o) PROVE CodeInv'
                          /\ RunsStay
<1>1. CASE IsActive(o) /\ connection # 0
  BY <1>1, CodeInterruptClosing
<1>2. CASE ~IsActive(o) \/ connection = 0
  BY <1>2, CodeInterruptResting
<1> QED
  BY <1>1, <1>2 DEF EndInterrupt

\* The process of the interruption has ended.
LEMMA CodeClosedInterrupted == ASSUME CodeInv, NEW o \in Operations, ClosedInterrupted(o)
                               PROVE CodeInv' /\ RunsStay
<1>1. CASE IsActive(o) /\ Saves
  BY <1>1, CodeInterruptFinishes
<1>2. CASE ~(IsActive(o) /\ Saves)
  BY <1>2, CodeInterruptLate
<1> QED
  BY <1>1, <1>2 DEF ClosedInterrupted

\* The shutdown settles the run.
LEMMA CodeSettleForShutdown == ASSUME CodeInv, SettleForShutdown PROVE CodeInv' /\ RunsStay
<1>1. CASE Busy /\ Saves
  BY <1>1, CodeShutdownSettles
<1>2. CASE ~(Busy /\ Saves)
  BY <1>2, CodeShutdownLeaves
<1> QED
  BY <1>1, <1>2 DEF SettleForShutdown

\* The deletion is decided.
LEMMA CodeSaveDeletion == ASSUME CodeInv, SaveDeletion PROVE CodeInv' /\ RunsStay
<1>1. CASE Saves
  BY <1>1, CodeDecisionIsSaved
<1>2. CASE ~Saves
  BY <1>2, CodeDecisionIsLost
<1> QED
  BY <1>1, <1>2 DEF SaveDeletion

\* A process that a task closes ends.
LEMMA CodeKillProcess == ASSUME CodeInv, NEW t \in Tasks, KillProcess(t) PROVE CodeInv'
                         /\ RunsStay
<1>1. hand[t] \in Generations
  BY Generated, Numbers DEF KillProcess
<1> QED
  BY <1>1, CodeEnds DEF KillProcess

\* Every step of a run's task keeps the invariant.
LEMMA WorkKeeps ==
    ASSUME CodeInv, NEW o \in Operations,
           \/ CloseOld(o) \/ ClosedOld(o) \/ Open(o) \/ Thread(o) \/ Attach(o)
           \/ StartTurn(o) \/ Bind(o) \/ EndWait(o) \/ WorkFails(o) \/ Fail(o) \/ ClosedFailed(o)
           \/ Settle(o) \/ EndWork(o) \/ ClosedFinal(o)
           \/ AskInterrupt(o) \/ EndInterrupt(o) \/ ClosedInterrupted(o)
    PROVE  CodeInv' /\ RunsStay
  BY CodeCloseOld, CodeClosedOld, CodeOpen, CodeThread, CodeAttach, CodeStartTurn, CodeBind,
     CodeEndWait, CodeWorkFails, CodeFail, CodeClosedFailed, CodeSettle, CodeEndWork,
     CodeClosedFinal, CodeAskInterrupt, CodeEndInterrupt, CodeClosedInterrupted

\* So does every step of the service's other tasks.
LEMMA CodeWorkKeeps == ASSUME CodeInv, CodeWork PROVE CodeInv' /\ RunsStay
<1>1. ASSUME NEW t \in Tasks, KillProcess(t) PROVE CodeInv' /\ RunsStay
  BY <1>1, CodeKillProcess
<1>2. ASSUME \/ Halt \/ Halted \/ ClosedAnswered \/ SettleAnswered
             \/ CommandsEnd \/ StopForShutdown \/ JobsWaited \/ ClosedForShutdown
             \/ SettleForShutdown \/ StoreCloses
      PROVE  CodeInv' /\ RunsStay
  BY <1>2, CodeHalt, CodeHalted, CodeClosedAnswered, CodeSettleAnswered, CodeCommandsEnd,
     CodeStopForShutdown, CodeJobsWaited, CodeClosedForShutdown, CodeSettleForShutdown,
     CodeStoreCloses
<1> QED
  BY <1>1, <1>2, WorkKeeps DEF CodeWork

\* Every event.
LEMMA EventWorkKeeps == ASSUME CodeInv, EventWork PROVE CodeInv' /\ RunsStay
  BY CodeTurnStarted, CodeTurnCompleted, CodePrompted, CodeConnectionClosed, CodeDropped
  DEF EventWork

\* Every step of a command that goes on by itself.
LEMMA CommandWorkKeeps == ASSUME CodeInv, CommandWork PROVE CodeInv' /\ RunsStay
<1>1. ASSUME NEW s \in Senders, AdmitSend(s) PROVE CodeInv' /\ RunsStay
  BY <1>1, CodeAdmitSend
<1> QED
  BY <1>1, CodeDeliverAnswer, CodeAnswerFails, CodeBeginDelete, CodeDeleteThread,
     CodeClosedDeleted, CodeRemoveSession, CodeDeleteFails, CodeClosedUndeleted, CodeSaveDeletion
  DEF CommandWork

\* And whatever clients, Codex and the machine do.
LEMMA DisturbedKeeps ==
    ASSUME CodeInv, NEW kind \in Disturbances, Disturbed(kind) PROVE CodeInv' /\ RunsStay
<1>1. ASSUME NEW o \in {0} \cup Operations, Asks(o) PROVE CodeInv' /\ RunsStay
  BY <1>1, CodeAsks
<1>2. ASSUME NEW g \in Generations, ProcessDies(g) PROVE CodeInv' /\ RunsStay
  BY <1>2, CodeEnds DEF ProcessDies
<1> QED
  BY <1>1, <1>2, CodeDelete, CodeStop, CodeAnswer, CodeResolve, CodeStorageFails,
     CodeBeginShutdown, CodeCrash, CodeUpdateSettings DEF Disturbed

\* The invariant is inductive, and no step of it changes how a run ended.
LEMMA CodeStep == ASSUME CodeInv, [CodeNext]_codeVars PROVE CodeInv' /\ RunsStay
<1>1. ASSUME NEW s \in Senders, NEW o \in Operations, CheckSend(s, o)
      PROVE  CodeInv' /\ RunsStay
  BY <1>1, CodeCheckSend
<1>2. ASSUME NEW o \in Operations, TurnEnds(o) PROVE CodeInv' /\ RunsStay
  BY <1>2, CodeTurnEnds
<1>3. ASSUME CodeWork \/ EventWork \/ CommandWork PROVE CodeInv' /\ RunsStay
  BY <1>3, CodeWorkKeeps, EventWorkKeeps, CommandWorkKeeps
<1>4. ASSUME NEW kind \in Disturbances, Disturbed(kind) PROVE CodeInv' /\ RunsStay
  BY <1>4, DisturbedKeeps
<1>5. CASE UNCHANGED codeVars
  BY <1>5, CodeRests
<1> QED
  BY <1>1, <1>2, <1>3, <1>4, <1>5 DEF CodeNext

\* A coding session is safe: no input is given to Codex twice, one run is active, a run is
\* completed only by the end of its own turn, every process is somebody's, a service that
\* has closed is quiet, and a session is deleted only with its conversation.
THEOREM CodeCorrectness == CodeSpec => []CodeSafety
<1>1. CodeInit => CodeInv
  BY CodeBegins
<1>2. CodeInv /\ [CodeNext]_codeVars => CodeInv'
  BY CodeStep
<1>3. CodeInv => CodeSafety
  BY DEF CodeInv
<1> QED
  BY <1>1, <1>2, <1>3, PTL DEF CodeSpec

\* A run that has ended stays as it ended, through crashes, shutdowns and late events.
THEOREM EndsOnce == CodeSpec => FinishedStays
<1>1. CodeInit => CodeInv
  BY CodeBegins
<1>2. CodeInv /\ [CodeNext]_codeVars => CodeInv'
  BY CodeStep
<1>3. CodeInv /\ [CodeNext]_codeVars =>
          [\A o \in Operations : runs[o].status \in FinalStatuses =>
              runs'[o].status = runs[o].status
                  /\ (runs[o].turn # 0 => runs'[o].turn = runs[o].turn)]_codeVars
  BY CodeStep DEF RunsStay
<1> QED
  BY <1>1, <1>2, <1>3, PTL DEF CodeSpec, FinishedStays

=============================================================================
