----------------------------- MODULE Conversation -----------------------------
(***************************************************************************)
(* The messaging conversations of one chat: trees of prompts that run one  *)
(* at a time per tree (messaging/trees), the tasks that run them, and the  *)
(* workflow that admits, stops and clears them and saves snapshots         *)
(* (messaging/workflow.py).                                                *)
(*                                                                         *)
(* The manager's and the trees' locks are never held across a suspension,  *)
(* so what happens under them is one step.  The workflow's state lock is   *)
(* held while a stop or clear drains the tasks it cancelled: wf says who   *)
(* holds it.  Draining is bounded by a timeout, so it may end before the   *)
(* cancelled tasks do.  User interface effects are left out.               *)
(***************************************************************************)
EXTENDS Integers, SequencesExt

CONSTANTS
    Nodes,           \* prompt message ids
    NoNode,          \* no parent, no reply reference
    MaxTurns,        \* bound: inbound messages
    MaxGenerations   \* bound: chat-wide stops and clears of one process

ASSUME NodesAssumption == NoNode \notin Nodes
ASSUME BoundsAssumption == MaxTurns \in Nat /\ MaxGenerations \in Nat

VARIABLES
    node,        \* the published trees' nodes (MessageTreeGraph, MessageNode)
    queue,       \* by root: MessageNodeQueue
    active,      \* by root: the active claim, 0 for none
    tasks,       \* every claim, with its _TaskSlot
    turn,        \* messages between receipt and admission: token and reply target
    turns,       \* messages received so far
    generation,  \* _stop_generation + _clear_generations[scope]
    wf,          \* the holder of the workflow's state lock
    store,       \* by root: the tree's snapshot in SessionStore, NoSnapshot if none
    closing      \* MessagingWorkflow.close: "open", "closing" or "closed"

trees == <<node, queue, active, tasks>>
intake == <<turn, turns>>
vars == <<node, queue, active, tasks, turn, turns, generation, wf, store, closing>>

Runnable == {"PENDING", "IN_PROGRESS"}
Blank == [state |-> "absent", root |-> NoNode, parent |-> NoNode,
          viaStatus |-> FALSE, status |-> FALSE, session |-> FALSE]
NoTurn == [token |-> -1, ref |-> NoNode, viaStatus |-> FALSE]
NoSnapshot == <<>>
Idle == [op |-> "idle", roots |-> {}, snaps |-> {}, drop |-> {}]

(* unclaimed: not made yet; fresh: launched by an admission, not yet        *)
(* entered; successor: launched by the previous claim's end; announcing: in *)
(* its start callbacks; running: in process_node; finishing: about to       *)
(* release its claim; gone.                                                 *)
Places == {"unclaimed", "fresh", "successor", "announcing", "running", "finishing", "gone"}

\* Every turn makes at most one claim.
Claims == 1..MaxTurns

\* What is left of a claim whose task is gone.
Gone == [node |-> NoNode, root |-> NoNode, place |-> "gone",
         cancelled |-> FALSE, resume |-> FALSE]

Known(n) == node[n].state # "absent"
Published == {r \in Nodes : Known(r) /\ node[r].root = r}
Members(r) == {n \in Nodes : Known(n) /\ node[n].root = r}
InQueue(r, n) == n \in ToSet(queue[r])
Over(c) == tasks[c].place \in {"unclaimed", "gone"}

HasReplies(s) == \A m \in Nodes : Known(m) /\ node[m].parent \in s => m \in s

\* The prompts of a reply subtree: n and everything that replies to it.
Subtree(n) == {m \in Nodes : Known(m) /\ \A s \in SUBSET Nodes : n \in s /\ HasReplies(s) => m \in s}

\* A tree's snapshot.
SnapshotOf(nodes, r) ==
    [n \in {m \in Nodes : nodes[m].state # "absent" /\ nodes[m].root = r} |-> nodes[n]]

NodeRecord == [state : {"absent", "PENDING", "IN_PROGRESS", "COMPLETED", "ERROR"},
               root : Nodes \cup {NoNode}, parent : Nodes \cup {NoNode},
               viaStatus : BOOLEAN, status : BOOLEAN, session : BOOLEAN]
TaskRecord == [node : Nodes \cup {NoNode}, root : Nodes \cup {NoNode}, place : Places,
               cancelled : BOOLEAN, resume : BOOLEAN]
TurnRecord == [token : -1..MaxGenerations, ref : Nodes \cup {NoNode}, viaStatus : BOOLEAN]
IsSnapshot(s) == DOMAIN s \subseteq Nodes /\ \A n \in DOMAIN s : s[n] \in NodeRecord

TypeOK ==
    /\ node \in [Nodes -> NodeRecord]
    /\ \A n \in Nodes : Known(n) =>
          /\ node[n].root \in Published
          /\ node[n].parent = NoNode <=> node[n].root = n
          /\ node[n].parent # NoNode => node[node[n].parent].root = node[n].root
    /\ queue \in [Nodes -> Seq(Nodes)]
    /\ tasks \in [Claims -> TaskRecord]
    /\ active \in [Nodes -> Claims \cup {0}]
    /\ turn \in [Nodes -> TurnRecord]
    /\ turns \in 0..MaxTurns
    /\ generation \in 0..MaxGenerations
    /\ wf = [op |-> wf.op, roots |-> wf.roots, snaps |-> wf.snaps, drop |-> wf.drop]
    /\ wf.op \in {"idle", "stop", "stopAll", "clearReply", "clearChat"}
    /\ wf.roots \in SUBSET Nodes /\ wf.drop \in SUBSET Nodes
    /\ \A p \in wf.snaps : p[1] \in Nodes /\ IsSnapshot(p[2])
    /\ DOMAIN store = Nodes /\ \A r \in Nodes : IsSnapshot(store[r])
    /\ closing \in {"open", "closing", "closed"}

Init ==
    /\ node = [n \in Nodes |-> Blank]
    /\ queue = [n \in Nodes |-> <<>>]
    /\ active = [n \in Nodes |-> 0]
    /\ tasks = [c \in Claims |-> [Gone EXCEPT !.place = "unclaimed"]]
    /\ turn = [n \in Nodes |-> NoTurn] /\ turns = 0
    /\ generation = 0 /\ wf = Idle
    /\ store = [n \in Nodes |-> NoSnapshot]
    /\ closing = "open"

\* A mutant: nobody waits for the state lock.
UnlockedAlways == TRUE

\* The state lock is free.
Unlocked == wf.op = "idle"

-----------------------------------------------------------------------------
(* Claims.                                                                  *)

Unclaimed == {c \in Claims : tasks[c].place = "unclaimed"}
NextClaim == CHOOSE c \in Unclaimed : TRUE

\* A mutant: the claim's resume session is that of the node itself.
NewTaskOwnSession(nodes, r, n, where) ==
    [node |-> n, root |-> r, place |-> where, cancelled |-> FALSE,
     resume |-> nodes[n].session]

\* A claim of n with the task the processor attaches to it.
NewTask(nodes, r, n, where) ==
    [node |-> n, root |-> r, place |-> where, cancelled |-> FALSE,
     resume |-> nodes[n].parent # NoNode /\ nodes[nodes[n].parent].session]

\* _enqueue_or_claim of a pending node in the tree of r; where is the place of the
\* claim's task: "fresh" when admit launches it, "gone" when it never does.
EnqueueOrClaim(nodes, r, n, where) ==
    IF active[r] = 0
    THEN /\ Unclaimed # {}
         /\ node' = [nodes EXCEPT ![n].state = "IN_PROGRESS"]
         /\ tasks' = [tasks EXCEPT ![NextClaim] = NewTask(nodes, r, n, where)]
         /\ active' = [active EXCEPT ![r] = NextClaim]
         /\ UNCHANGED queue
    ELSE /\ node' = nodes
         /\ queue' = IF InQueue(r, n) THEN queue
                     ELSE [queue EXCEPT ![r] = Append(@, n)]
         /\ UNCHANGED <<active, tasks>>

\* The aggregate still honours claim c: it is active and nobody cancelled it.
Honoured(c) == ~Over(c) /\ active[tasks[c].root] = c /\ ~tasks[c].cancelled

-----------------------------------------------------------------------------
(* Intake: a message is received, its status message is sent, and the turn  *)
(* is admitted if no stop or clear came in between.                         *)

\* A reply reference that resolves: a prompt, or a status message still there.
Resolves(p, viaStatus) == p # NoNode /\ Known(p) /\ (viaStatus => node[p].status)

\* A message is received; one that is delivered again refers to what it referred to.
Receive(n) ==
    /\ Unlocked /\ closing = "open" /\ turn[n] = NoTurn /\ turns < MaxTurns
    /\ turns' = turns + 1
    /\ \E p \in (Nodes \ {n}) \cup {NoNode}, v \in BOOLEAN :
          /\ p = NoNode => ~v
          /\ p # NoNode => Resolves(p, v)
          /\ Known(n) => <<p, v>> = IF Resolves(node[n].parent, node[n].viaStatus)
                                   THEN <<node[n].parent, node[n].viaStatus>>
                                   ELSE <<NoNode, FALSE>>
          /\ turn' = [turn EXCEPT ![n] = [token |-> generation, ref |-> p, viaStatus |-> v]]
    /\ UNCHANGED <<trees, generation, wf, store, closing>>

Current(n) == turn[n] # NoTurn /\ turn[n].token = generation

\* A stop or clear invalidated the turn, or its reply target was cleared.
Discard(n) ==
    /\ Unlocked /\ turn[n] # NoTurn
    /\ \/ ~Current(n)
       \/ /\ ~Known(n)
          /\ turn[n].ref # NoNode /\ ~Resolves(turn[n].ref, turn[n].viaStatus)
    /\ turn' = [turn EXCEPT ![n] = NoTurn]
    /\ UNCHANGED <<trees, turns, generation, wf, store, closing>>

\* A new prompt: a node of its parent's tree, or the root of a tree of its own.
Admit(n) ==
    /\ Unlocked /\ Current(n) /\ ~Known(n)
    /\ LET p == turn[n].ref
           r == IF p = NoNode THEN n ELSE node[p].root
       IN  /\ p # NoNode => Resolves(p, turn[n].viaStatus)
           /\ EnqueueOrClaim([node EXCEPT ![n] =
                  [state |-> "PENDING", root |-> r, parent |-> p,
                   viaStatus |-> turn[n].viaStatus, status |-> TRUE, session |-> FALSE]],
                  r, n, "fresh")
           /\ store' = [store EXCEPT ![r] = SnapshotOf(node', r)]
    /\ turn' = [turn EXCEPT ![n] = NoTurn]
    /\ UNCHANGED <<turns, generation, wf, closing>>

\* A prompt delivered again while its node is there.  A claim made here would not
\* be launched; ActiveHasTask shows that there never is one to make.
AdmitAgain(n) ==
    /\ Unlocked /\ Current(n) /\ Known(n)
    /\ IF node[n].state = "PENDING"
       THEN /\ EnqueueOrClaim(node, node[n].root, n, "gone")
            /\ store' = IF InQueue(node[n].root, n) THEN store
                        ELSE [store EXCEPT ![node[n].root] = SnapshotOf(node', node[n].root)]
       ELSE UNCHANGED <<trees, store>>
    /\ turn' = [turn EXCEPT ![n] = NoTurn]
    /\ UNCHANGED <<turns, generation, wf, closing>>

-----------------------------------------------------------------------------
(* The task of claim c (TreeQueueProcessor._run_claim, MessagingNodeRunner). *)

\* The task enters its body; a successor first announces that it started.
Enter(c) ==
    /\ tasks[c].place \in {"fresh", "successor"}
    /\ tasks' = [tasks EXCEPT ![c].place =
                     IF @ = "fresh" THEN "running" ELSE "announcing"]
    /\ UNCHANGED <<node, queue, active, intake, generation, wf, store, closing>>

\* After the callbacks a cancellation they absorbed still prevents the run.
Announced(c) ==
    /\ tasks[c].place = "announcing"
    /\ tasks' = [tasks EXCEPT ![c].place =
                     IF tasks[c].cancelled THEN "finishing" ELSE "running"]
    /\ UNCHANGED <<node, queue, active, intake, generation, wf, store, closing>>

\* A cancelled runner unwinds.
Unwind(c) ==
    /\ tasks[c].place \in {"announcing", "running"} /\ tasks[c].cancelled
    /\ tasks' = [tasks EXCEPT ![c].place = "finishing"]
    /\ UNCHANGED <<node, queue, active, intake, generation, wf, store, closing>>

\* record_session: the CLI announced the session this node can be resumed from.
RecordSession(c) ==
    LET n == tasks[c].node IN
    /\ tasks[c].place = "running" /\ Honoured(c)
    /\ node[n].state = "IN_PROGRESS"
    /\ node' = [node EXCEPT ![n].session = TRUE]
    /\ store' = [store EXCEPT ![tasks[c].root] = SnapshotOf(node', tasks[c].root)]
    /\ UNCHANGED <<queue, active, tasks, intake, generation, wf, closing>>

\* A mutant: a cancelled claim may still complete.
CompleteCancelled(c) ==
    LET n == tasks[c].node IN
    /\ tasks[c].place = "running"
    /\ IF active[tasks[c].root] = c /\ node[n].state \in {"IN_PROGRESS", "ERROR"}
       THEN /\ node' = [node EXCEPT ![n].state = "COMPLETED"]
            /\ store' = [store EXCEPT ![tasks[c].root] = SnapshotOf(node', tasks[c].root)]
       ELSE UNCHANGED <<node, store>>
    /\ tasks' = [tasks EXCEPT ![c].place = "finishing"]
    /\ UNCHANGED <<queue, active, intake, generation, wf, closing>>

\* The CLI reports success: complete_claim, also over an earlier error event.
Complete(c) ==
    LET n == tasks[c].node IN
    /\ tasks[c].place = "running"
    /\ IF Honoured(c) /\ node[n].state \in {"IN_PROGRESS", "ERROR"}
       THEN /\ node' = [node EXCEPT ![n].state = "COMPLETED"]
            /\ store' = [store EXCEPT ![tasks[c].root] = SnapshotOf(node', tasks[c].root)]
       ELSE UNCHANGED <<node, store>>
    /\ tasks' = [tasks EXCEPT ![c].place = "finishing"]
    /\ UNCHANGED <<queue, active, intake, generation, wf, closing>>

InOrderOf(p, q) ==
    \A i, j \in DOMAIN p : i < j =>
        \E k, l \in DOMAIN q : k < l /\ p[i] = q[k] /\ p[j] = q[l]

\* The queue q without the prompts of gone, in its order.
Without(q, gone) ==
    CHOOSE p \in SeqOf(ToSet(q) \ gone, Len(q)) :
        ToSet(p) = ToSet(q) \ gone /\ InOrderOf(p, q)

Dequeue(r, gone) == [queue EXCEPT ![r] = Without(@, gone)]

\* fail_claim: the node fails, and with propagation its pending descendants.
Fail(c, propagate) ==
    LET n == tasks[c].node
        r == tasks[c].root
        failed == {n} \cup IF propagate
                           THEN {m \in Subtree(n) : node[m].state = "PENDING"} ELSE {}
    IN  IF Honoured(c) /\ Known(n)
        THEN /\ IF node[n].state = "COMPLETED" THEN UNCHANGED <<node, queue>>
                ELSE /\ node' = [m \in Nodes |-> IF m \in failed
                                                 THEN [node[m] EXCEPT !.state = "ERROR"]
                                                 ELSE node[m]]
                     /\ queue' = Dequeue(r, failed)
             /\ store' = [store EXCEPT ![r] = SnapshotOf(node', r)]
        ELSE UNCHANGED <<node, queue, store>>

\* The CLI reports an error that may still be followed by success.
ReportError(c) ==
    /\ tasks[c].place = "running" /\ Honoured(c)
    /\ Fail(c, FALSE)
    /\ UNCHANGED <<active, tasks, intake, generation, wf, closing>>

\* The run ends in failure; reaching the session limit spares the descendants.
EndInFailure(c) ==
    /\ tasks[c].place = "running"
    /\ \E propagate \in BOOLEAN : Fail(c, propagate)
    /\ tasks' = [tasks EXCEPT ![c].place = "finishing"]
    /\ UNCHANGED <<active, intake, generation, wf, closing>>

\* A mutant: whoever finishes clears the tree's active claim.
OwnsTreeAnyway(c) == active[tasks[c].root] # 0

OwnsTree(c) == active[tasks[c].root] = c

\* A mutant: the successor is the prompt queued last.
SuccessorsNewest(r) ==
    {i \in 1..Len(queue[r]) :
        /\ node[queue[r][i]].state = "PENDING"
        /\ \A j \in i + 1..Len(queue[r]) : node[queue[r][j]].state # "PENDING"}

\* The place in the queue of the prompt to claim next, if there is one.
Successors(r) ==
    {i \in 1..Len(queue[r]) :
        /\ node[queue[r][i]].state = "PENDING"
        /\ \A j \in 1..i - 1 : node[queue[r][j]].state # "PENDING"}

\* _finish_claim: the matching claim is released and the oldest pending node of
\* the queue is claimed; a claim the tree no longer knows just goes away.
Finish(c) ==
    LET r == tasks[c].root
        gone == [tasks EXCEPT ![c] = Gone]
    IN
    /\ tasks[c].place = "finishing"
    /\ \/ ~OwnsTree(c) /\ tasks' = gone /\ UNCHANGED <<node, queue, active>>
       \/ /\ OwnsTree(c) /\ Successors(r) = {}
          /\ tasks' = gone /\ active' = [active EXCEPT ![r] = 0]
          /\ queue' = [queue EXCEPT ![r] = <<>>] /\ UNCHANGED node
       \/ \E i \in Successors(r) :
          /\ OwnsTree(c)
          /\ node' = [node EXCEPT ![queue[r][i]].state = "IN_PROGRESS"]
          /\ Unclaimed # {}
          /\ tasks' = [gone EXCEPT ![NextClaim] = NewTask(node, r, queue[r][i], "successor")]
          /\ active' = [active EXCEPT ![r] = NextClaim]
          /\ queue' = [queue EXCEPT ![r] = SubSeq(@, i + 1, Len(@))]
    /\ UNCHANGED <<intake, generation, wf, store, closing>>

Run(c) == \/ Enter(c) \/ Announced(c) \/ Unwind(c) \/ RecordSession(c) \/ Complete(c)
          \/ ReportError(c) \/ EndInFailure(c) \/ Finish(c)

-----------------------------------------------------------------------------
(* Stop and clear.                                                          *)

\* The tree's active claim if its node is one of s, else 0.
ActiveWithin(r, s) == IF active[r] # 0 /\ tasks[active[r]].node \in s THEN active[r] ELSE 0

\* A mutant: a task not yet entered never runs its recovery.
CancelTasksUnrecovered(cs) ==
    [c \in Claims |->
        IF c \notin cs THEN tasks[c]
        ELSE [tasks[c] EXCEPT !.cancelled = TRUE,
                  !.place = IF @ \in {"fresh", "successor"} THEN "gone" ELSE @]]

\* processor.cancel: a task that has not entered its body will never do so and
\* its recovery task finishes the claim; others unwind or, absorbing it, go on.
CancelTasks(cs) ==
    [c \in Claims |->
        IF c \notin cs THEN tasks[c]
        ELSE [tasks[c] EXCEPT !.cancelled = TRUE,
                  !.place = IF @ \in {"fresh", "successor"} THEN "finishing" ELSE @]]

Stopped(s) == [n \in Nodes |-> IF n \in s /\ node[n].state \in Runnable
                               THEN [node[n] EXCEPT !.state = "ERROR"] ELSE node[n]]

\* _ui_target raises for a cancelled claim whose status message was cleared.
Untargetable(r, s) ==
    LET c == ActiveWithin(r, s) IN
    c # 0 /\ node[tasks[c].node].state = "ERROR" /\ ~node[tasks[c].node].status

\* Reply with /stop: cancel one node, whatever its state.
StopReply(n) ==
    LET r == node[n].root IN
    /\ Unlocked /\ Known(n) /\ ~Untargetable(r, {n})
    /\ node' = Stopped({n})
    /\ queue' = Dequeue(r, {n})
    /\ tasks' = CancelTasks({ActiveWithin(r, {n})})
    /\ wf' = [Idle EXCEPT !.op = "stop", !.roots = {r}]
    /\ UNCHANGED <<active, intake, generation, store, closing>>

\* cancel_all of every tree of s.
CancelTrees(s) ==
    /\ node' = Stopped({n \in Nodes : node[n].root \in s})
    /\ queue' = [r \in Nodes |-> IF r \in s THEN <<>> ELSE queue[r]]
    /\ tasks' = CancelTasks({active[r] : r \in s})
    /\ UNCHANGED active

Broken == {r \in Published : Untargetable(r, Nodes)}

\* Standalone /stop.  If cancelling one tree raises, the trees after it are not
\* reached.
StopAll ==
    /\ Unlocked /\ generation < MaxGenerations
    /\ generation' = generation + 1
    /\ \/ /\ Broken = {} /\ CancelTrees(Published)
          /\ wf' = [Idle EXCEPT !.op = "stopAll", !.roots = Published]
          /\ closing' \in {closing, "closing"}
       \/ /\ Broken # {} /\ \E s \in SUBSET (Published \ Broken) : CancelTrees(s)
          /\ UNCHANGED <<wf, closing>>
    /\ UNCHANGED <<intake, store>>

\* clear_scope: the trees of s are cancelled and unpublished.
DetachTrees(s) ==
    /\ node' = [n \in Nodes |-> IF node[n].root \in s THEN Blank ELSE node[n]]
    /\ queue' = [r \in Nodes |-> IF r \in s THEN <<>> ELSE queue[r]]
    /\ active' = [r \in Nodes |-> IF r \in s THEN 0 ELSE active[r]]
    /\ tasks' = CancelTasks({active[r] : r \in s})

\* Standalone /clear.  If detaching a tree raises, the store is cleared even so.
ClearChat ==
    /\ Unlocked /\ generation < MaxGenerations /\ closing = "open"
    /\ generation' = generation + 1
    /\ \/ /\ Broken = {} /\ DetachTrees(Published)
          /\ wf' = [Idle EXCEPT !.op = "clearChat", !.drop = Nodes]
          /\ UNCHANGED store
       \/ /\ Broken # {} /\ \E s \in SUBSET (Published \ Broken) : DetachTrees(s)
          /\ store' = [r \in Nodes |-> NoSnapshot]
          /\ UNCHANGED wf
    /\ UNCHANGED <<intake, closing>>

\* A mutant: the replies to a removed prompt stay.
RemovedByOnlyItself(n, viaStatus) == {n}

\* The prompts that a /clear of n's prompt or status message removes.
RemovedBy(n, viaStatus) ==
    IF viaStatus
    THEN UNION {Subtree(m) : m \in {x \in Nodes : node[x].parent = n /\ node[x].viaStatus}}
    ELSE Subtree(n)

\* Reply with /clear to a prompt or to a status message.
ClearReply(n, viaStatus) ==
    LET r == node[n].root
        removed == RemovedBy(n, viaStatus)
        affected == removed \cup {n}
        whole == r \in removed
    IN
    /\ Unlocked /\ closing = "open" /\ Resolves(n, viaStatus)
    /\ \/ /\ ~Untargetable(r, affected)
          /\ node' = [m \in Nodes |->
                 IF m \in removed THEN Blank
                 ELSE IF m = n
                      THEN [node[m] EXCEPT !.state = "ERROR", !.status = FALSE, !.session = FALSE]
                      ELSE node[m]]
          /\ queue' = Dequeue(r, affected)
          /\ active' = IF whole THEN [active EXCEPT ![r] = 0] ELSE active
          /\ tasks' = CancelTasks({ActiveWithin(r, affected)})
          /\ wf' = [Idle EXCEPT !.op = "clearReply",
                        !.roots = IF whole THEN {} ELSE {r},
                        !.drop = IF whole THEN {r} ELSE {}]
       \/ /\ Untargetable(r, affected)
          /\ \E s \in SUBSET affected : node' = Stopped(s) /\ queue' = Dequeue(r, s)
          /\ UNCHANGED <<active, tasks, wf>>
    /\ UNCHANGED <<intake, generation, store, closing>>

\* The drain is over and the holder of the state lock captures a tree again.
TakeSnapshot(r) ==
    /\ r \in wf.roots
    /\ wf' = [wf EXCEPT !.roots = @ \ {r},
                  !.snaps = IF r \in Published THEN @ \cup {<<r, SnapshotOf(node, r)>>} ELSE @]
    /\ UNCHANGED <<trees, intake, generation, store, closing>>

\* A mutant: a clear leaves the removed trees in the store.
SavedWithoutDrop == [r \in Nodes |-> IF \E s \in wf.snaps : s[1] = r
                     THEN (CHOOSE s \in wf.snaps : s[1] = r)[2] ELSE store[r]]

Saved == [r \in Nodes |-> IF r \in wf.drop THEN NoSnapshot
                          ELSE IF \E s \in wf.snaps : s[1] = r
                               THEN (CHOOSE s \in wf.snaps : s[1] = r)[2]
                               ELSE store[r]]

\* The result is applied to the store and the state lock is released.
Save ==
    /\ ~Unlocked /\ wf.roots = {}
    /\ store' = Saved /\ wf' = Idle
    /\ UNCHANGED <<trees, intake, generation, closing>>

\* close() returns once every task has finished.
Close ==
    /\ closing = "closing" /\ Unlocked
    /\ \A c \in Claims : Over(c)
    /\ closing' = "closed"
    /\ UNCHANGED <<trees, intake, generation, wf, store>>

\* What from_snapshot makes of a tree: interrupted prompts have failed.
Restored(snap, n) ==
    [snap[n] EXCEPT !.state = IF @ \in Runnable THEN "ERROR" ELSE @]

\* from_snapshot accepts a snapshot: its root is there, every other node hangs
\* from a reference of the tree, and what was runnable has a status message.
Restorable(snap, r) ==
    /\ r \in DOMAIN snap
    /\ snap[r].parent = NoNode
    /\ \A n \in DOMAIN snap \ {r} :
          /\ snap[n].parent \in DOMAIN snap
          /\ snap[n].viaStatus => snap[snap[n].parent].status
    /\ \A n \in DOMAIN snap : snap[n].state \in Runnable => snap[n].status

\* The process ends, by itself or killed, and a new one restores the trees of the
\* store (MessagingWorkflow.restore).  That the store is on disk by then is the
\* business of its persistence and not modelled.
Restart ==
    LET kept == {r \in Nodes : store[r] # NoSnapshot /\ Restorable(store[r], r)}
        home(n) == {r \in kept : n \in DOMAIN store[r]}
    IN
    /\ node' = [n \in Nodes |-> IF home(n) = {} THEN Blank
                                ELSE Restored(store[CHOOSE r \in home(n) : TRUE], n)]
    /\ store' = [r \in Nodes |-> IF r \in kept THEN SnapshotOf(node', r) ELSE NoSnapshot]
    /\ queue' = [r \in Nodes |-> <<>>] /\ active' = [r \in Nodes |-> 0]
    /\ turn' = [n \in Nodes |-> NoTurn]
    /\ generation' = 0 /\ wf' = Idle /\ closing' = "open"
    /\ tasks' = [c \in Claims |-> IF c \in Unclaimed THEN tasks[c] ELSE Gone]
    /\ UNCHANGED turns

Next == \/ \E n \in Nodes : Receive(n) \/ Discard(n) \/ Admit(n) \/ AdmitAgain(n)
        \/ \E c \in Claims : Run(c)
        \/ \E n \in Nodes : StopReply(n) \/ TakeSnapshot(n)
        \/ \E n \in Nodes, v \in BOOLEAN : ClearReply(n, v)
        \/ StopAll \/ ClearChat \/ Save \/ Close \/ Restart

Spec == Init /\ [][Next]_vars

-----------------------------------------------------------------------------
(* Safety.                                                                  *)

\* A claim that has neither finished nor been cancelled.
Working(c) == ~Over(c) /\ ~tasks[c].cancelled

\* The active claim of a tree always has a task that will still release it, and a
\* tree without one has nothing to do: a cancellation that hits the task before
\* it enters its body, or a clear, never strands the queue.
ActiveHasTask ==
    \A r \in Nodes :
        /\ active[r] # 0 =>
              /\ r \in Published
              /\ tasks[active[r]].root = r /\ ~Over(active[r])
        /\ active[r] = 0 => \A n \in Members(r) : node[n].state \notin Runnable

\* The queue of a tree holds exactly its pending prompts, each of them once,
\* whatever stops, clears and failures removed from its middle.
QueueIsPending ==
    \A r \in Nodes :
        /\ ToSet(queue[r]) = {n \in Members(r) : node[n].state = "PENDING"}
        /\ IsInjective(queue[r])

\* One prompt runs at a time in a tree: work that nobody cancelled is the tree's
\* active claim, and a prompt in progress is run by such work, even while a
\* detached claim of a tree with the same root is still finishing.
OneRunnerPerTree ==
    /\ \A c \in Claims : Working(c) => active[tasks[c].root] = c
    /\ \A n \in Nodes : node[n].state = "IN_PROGRESS" =>
          \E c \in Claims : /\ tasks[c].node = n /\ tasks[c].root = node[n].root
                                   /\ Working(c) /\ tasks[c].place # "finishing"

\* A tree's work is run by exactly one task: none is stranded, none runs twice.
ExactlyOneRunner == ActiveHasTask /\ OneRunnerPerTree

\* A prompt runs only after the prompt it replies to has settled.
ParentSettledFirst ==
    \A n \in Nodes : node[n].state = "IN_PROGRESS" /\ node[n].parent # NoNode =>
        node[node[n].parent].state \in {"COMPLETED", "ERROR"}

\* Prompts leave the queue from anywhere and are run in the order of the tree.
QueueIsInOrder == QueueIsPending /\ ParentSettledFirst

\* A run resumes the session of the prompt it replies to exactly if that prompt
\* ended with one, unless the reply's parent lost its answer to a clear meanwhile.
ResumeMatchesParent ==
    \A c \in Claims :
        LET p == node[tasks[c].node].parent IN
        Working(c) /\ p # NoNode /\ node[p].status =>
            (tasks[c].resume <=> node[p].session)

\* From the moment a stop of all work has cancelled until its result is saved
\* nothing is runnable: no late admission, no successor of a cancelled claim.
StopIsQuiet ==
    wf.op = "stopAll" => \A n \in Nodes : node[n].state \notin Runnable

\* Once a clear has returned, the store holds no tree that is not published: no
\* runner of a removed tree has saved it again.
StoreNeverResurrects ==
    Unlocked => \A r \in Nodes : store[r] # NoSnapshot => r \in Published

\* Every tree in the store can be restored, although clears remove prompts and
\* answers from the middle of it.
StoreIsRestorable ==
    \A r \in Nodes : store[r] # NoSnapshot => Restorable(store[r], r)

\* When close returns the store holds exactly the published trees as they are,
\* with no work left in them.
ClosedStoreIsExact ==
    closing = "closed" =>
        \A r \in Nodes :
            IF r \in Published
            THEN /\ store[r] = SnapshotOf(node, r)
                 /\ \A n \in Members(r) : node[n].state \notin Runnable
            ELSE store[r] = NoSnapshot

\* The store follows the trees: nothing cleared comes back, and close saves all.
StoreFollowsTrees == TypeOK /\ StoreNeverResurrects /\ ClosedStoreIsExact

\* A prompt that failed or was cancelled never runs or completes again, unless its
\* own claim is still honoured (the CLI may report success after an error) or the
\* process died before its failure was saved.
CancelledStaysCancelled ==
    [][Restart \/ \A n \in Nodes :
          node[n].state = "ERROR" /\ node'[n].state \notin {"ERROR", "absent"} =>
              \E c \in Claims : Honoured(c) /\ tasks[c].node = n]_vars

\* What the documentation of /stop says, "Cancel all work": no work that was there
\* when it ran is left.
StopCancelsAllWork ==
    [][StopAll => \A n \in Nodes : node'[n].state \notin Runnable]_vars

-----------------------------------------------------------------------------
(* Liveness.                                                                *)

\* The runner of claim c ends by itself or by its cancellation.
RunEnds(c) == Unwind(c) \/ Complete(c) \/ EndInFailure(c)

\* Tasks are scheduled, and the CLI's run ends.
Fairness ==
    \A c \in Claims :
        /\ WF_vars(Enter(c) \/ Announced(c))
        /\ WF_vars(RunEnds(c))
        /\ WF_vars(Finish(c))

FairSpec == Spec /\ Fairness

\* A prompt that is queued or running settles: it completes, fails, is cancelled
\* or is cleared.
Settles(n) == node[n].state \in Runnable ~> node[n].state \notin Runnable
===============================================================================
