------------------------------ MODULE Admission ------------------------------
(***************************************************************************)
(* One provider's admission controller (providers/admission.py): the       *)
(* sliding-window quota, the concurrency semaphore and the recovery        *)
(* episode that coordinates retries of concurrent logical operations.      *)
(*                                                                         *)
(* Everything runs on one asyncio event loop, so a step is the code between *)
(* two awaits that may suspend.  The condition's lock is never held across *)
(* a suspension (its only inner await is wait(), which drops it), hence a  *)
(* critical section is one step.  Instants are abstracted to whether they  *)
(* have been reached: "due" is now >= ready_at for a recovering episode    *)
(* and now >= terminal_until for an exhausted one.                         *)
(***************************************************************************)
EXTENDS Integers, Sequences, FiniteSets

CONSTANTS
    Executions,       \* the logical provider operations (ProviderExecution)
    NoOne,            \* None as an episode's leader
    MaxAttempts,      \* physical attempts per execution (max_attempts)
    MaxConcurrency,   \* slots of the semaphore (max_concurrency)
    RateLimit         \* acquisitions per window (rate_limit)

ASSUME ExecutionsAssumption == NoOne \notin Executions /\ IsFiniteSet(Executions)
ASSUME LimitsAssumption == /\ MaxAttempts \in Nat \ {0}
                           /\ MaxConcurrency \in Nat \ {0}
                           /\ RateLimit \in Nat \ {0}

VARIABLES
    execState,    \* ProviderExecution._state
    attempts,     \* ProviderExecution._attempts_started
    pc,           \* where the execution's task is suspended
    permit,       \* generation of its probe permit, 0 for a normal permit; while
                  \* it waits at the gate, the generation it saw there
    phase,        \* "none": no episode; "recovering"; "exhausted": terminal_until set
    generation,   \* generation of the newest episode (_next_generation - 1)
    leader,       \* episode.leader
    waiters,      \* episode.waiters
    probeActive,  \* episode.probe_active
    due,          \* the episode's ready_at / terminal_until has been reached
    used,         \* acquisitions inside the current sliding window
    free,         \* the semaphore's value
    queue,        \* the semaphore's FIFO of suspended acquirers
    shielded      \* _attempt_abandoned tasks detached by asyncio.shield

episode == <<phase, generation, leader, waiters, probeActive, due>>
slots == <<free, queue>>
vars == <<execState, attempts, pc, permit, phase, generation, leader, waiters,
          probeActive, due, used, free, queue, shielded>>

(* idle: between attempts; wait: in condition.wait as a follower; woken:    *)
(* notified, about to run the gate loop again; backoff: the leader asleep; *)
(* rate: in acquire_if; slot: in the semaphore's queue; granted: a slot was *)
(* handed over; open: the physical call is in flight; accepted: streaming;  *)
(* settled: resolved, closing its stream; closing: aclose of an unresolved *)
(* attempt; done: the logical operation has ended.                          *)
Places == {"idle", "wait", "woken", "backoff", "rate", "slot", "granted",
           "open", "accepted", "settled", "closing", "done"}
States == {"ACTIVE", "SUCCEEDED", "FAILED", "ABANDONED"}

\* The places in which an attempt owns a slot of the semaphore.
HoldingPlaces == {"granted", "open", "accepted", "settled", "closing"}
Holders == {e \in Executions : pc[e] \in HoldingPlaces}

TypeOK ==
    /\ execState \in [Executions -> States]
    /\ attempts \in [Executions -> 0..MaxAttempts]
    /\ pc \in [Executions -> Places]
    /\ permit \in [Executions -> Nat]
    /\ phase \in {"none", "recovering", "exhausted"}
    /\ generation \in Nat
    /\ leader \in Executions \cup {NoOne}
    /\ waiters \in SUBSET Executions
    /\ probeActive \in BOOLEAN
    /\ due \in BOOLEAN
    /\ used \in 0..RateLimit
    /\ free \in 0..MaxConcurrency
    /\ queue \in Seq(Executions)
    /\ shielded \in SUBSET (Executions \X Nat)

Init ==
    /\ execState = [e \in Executions |-> "ACTIVE"]
    /\ attempts = [e \in Executions |-> 0]
    /\ pc = [e \in Executions |-> "idle"]
    /\ permit = [e \in Executions |-> 0]
    /\ phase = "none" /\ generation = 0 /\ leader = NoOne /\ waiters = {}
    /\ probeActive = FALSE /\ due = FALSE
    /\ used = 0 /\ free = MaxConcurrency /\ queue = <<>> /\ shielded = {}

-----------------------------------------------------------------------------
(* Helpers of the controller.                                               *)

\* A mutant: one attempt too many.
CanAttemptOffByOne(e) == execState[e] = "ACTIVE" /\ attempts[e] <= MaxAttempts

\* can_attempt: the operation is not terminal and has budget left.
CanAttempt(e) == execState[e] = "ACTIVE" /\ attempts[e] < MaxAttempts

\* A mutant of MatchingProbe: any outcome counts as the episode's probe.
MatchingProbeOfAnyone(e, g) == phase = "recovering" /\ probeActive

\* _matching_probe: the outcome belongs to the live episode's own probe.
MatchingProbe(e, g) ==
    g > 0 /\ phase # "none" /\ generation = g /\ leader = e /\ probeActive

PermitIsCurrent(e) ==
    IF permit[e] = 0
    THEN phase = "none"
    ELSE MatchingProbe(e, permit[e]) /\ phase = "recovering"

\* condition.notify_all() in a step that moves the tasks as p says.
Notified(p) == [x \in Executions |-> IF p[x] = "wait" THEN "woken" ELSE p[x]]

Ended(e, s) == IF execState[e] = "ACTIVE" THEN [execState EXCEPT ![e] = s]
                                          ELSE execState

\* Semaphore.release(): the slot goes to the longest-suspended acquirer.
Release(p) ==
    IF queue = <<>>
    THEN pc' = p /\ free' = free + 1 /\ UNCHANGED queue
    ELSE /\ pc' = [p EXCEPT ![Head(queue)] = "granted"]
         /\ queue' = Tail(queue)
         /\ UNCHANGED free

Without(s, i) == SubSeq(s, 1, i - 1) \o SubSeq(s, i + 1, Len(s))

\* A cancelled acquirer leaves the semaphore's queue.
LeaveQueue(e) ==
    /\ \E i \in 1..Len(queue) : queue[i] = e /\ queue' = Without(queue, i)
    /\ UNCHANGED free

\* A mutant: the follower is not registered with the episode.
WithWaiterForgotten(e) == waiters

WithWaiter(e) == waiters \cup {e}

CloseEpisode ==
    /\ phase' = "none" /\ leader' = NoOne /\ waiters' = {}
    /\ probeActive' = FALSE /\ due' = FALSE
    /\ UNCHANGED generation

\* The leader's probe ends without an outcome: leadership becomes vacant and
\* the next probe may start at once.
VacateProbe ==
    /\ leader' = NoOne /\ probeActive' = FALSE /\ due' = TRUE
    /\ UNCHANGED <<phase, generation, waiters>>

StartEpisode(newPhase, newLeader, probing, reached) ==
    /\ phase' = newPhase /\ generation' = generation + 1 /\ leader' = newLeader
    /\ waiters' = {} /\ probeActive' = probing /\ due' = reached

-----------------------------------------------------------------------------
(* _wait_for_gate: one pass of its loop, entered by open_attempt or again   *)
(* after a wake-up.                                                         *)

\* A mutant: the budget is not checked on entry.
AtGateUnbudgeted(e) == \/ pc[e] = "idle" /\ execState[e] = "ACTIVE"
                       \/ pc[e] = "woken" /\ execState[e] = "ACTIVE"

AtGate(e) == \/ pc[e] = "idle" /\ CanAttempt(e)
             \/ pc[e] = "woken" /\ execState[e] = "ACTIVE"

\* No episode: a normal permit.
GatePass(e) ==
    /\ AtGate(e) /\ phase = "none"
    /\ pc' = [pc EXCEPT ![e] = "rate"] /\ permit' = [permit EXCEPT ![e] = 0]
    /\ UNCHANGED <<execState, attempts, episode, used, slots, shielded>>

\* The loop's first check: the shared episode failed this execution meanwhile.
GateFailed(e) ==
    /\ pc[e] = "woken" /\ execState[e] = "FAILED"
    /\ pc' = [pc EXCEPT ![e] = "done"]
    /\ UNCHANGED <<execState, attempts, permit, episode, used, slots, shielded>>

\* An exhausted episode still cooling down refuses the call.
GateRefuse(e) ==
    /\ AtGate(e) /\ phase = "exhausted" /\ ~due
    /\ pc' = [pc EXCEPT ![e] = "done"] /\ execState' = Ended(e, "FAILED")
    /\ UNCHANGED <<attempts, permit, episode, used, slots, shielded>>

\* After the cooldown the first caller opens a new episode and probes at once.
GateReopen(e) ==
    /\ AtGate(e) /\ phase = "exhausted" /\ due
    /\ StartEpisode("recovering", e, TRUE, TRUE)
    /\ pc' = [pc EXCEPT ![e] = "rate"]
    /\ permit' = [permit EXCEPT ![e] = generation + 1]
    /\ UNCHANGED <<execState, attempts, used, slots, shielded>>

\* Mutants: the gate lets anyone probe, or does not look at probe_active.
LeadsAnyone(e) == phase = "recovering" /\ ~probeActive
LeadsWhileProbing(e) == phase = "recovering"

Leads(e) == phase = "recovering" /\ leader \in {NoOne, e} /\ ~probeActive

\* The leader, or whoever finds leadership vacant, claims the probe if the
\* backoff is over, and otherwise sleeps until it is.
GateProbe(e) ==
    /\ AtGate(e) /\ Leads(e) /\ due
    /\ leader' = e /\ waiters' = waiters \ {e} /\ probeActive' = TRUE
    /\ pc' = [pc EXCEPT ![e] = "rate"]
    /\ permit' = [permit EXCEPT ![e] = generation]
    /\ UNCHANGED <<execState, attempts, phase, generation, due, used, slots, shielded>>

GateBackoff(e) ==
    /\ AtGate(e) /\ Leads(e) /\ ~due
    /\ leader' = e /\ waiters' = waiters \ {e}
    /\ pc' = [pc EXCEPT ![e] = "backoff"]
    /\ permit' = [permit EXCEPT ![e] = generation]
    /\ UNCHANGED <<execState, attempts, phase, generation, probeActive, due, used,
                   slots, shielded>>

\* Someone else leads: join the waiters and sleep on the condition.
GateFollow(e) ==
    /\ AtGate(e) /\ phase = "recovering" /\ leader \notin {NoOne, e}
    /\ waiters' = WithWaiter(e)
    /\ pc' = [pc EXCEPT ![e] = "wait"]
    /\ permit' = [permit EXCEPT ![e] = generation]
    /\ UNCHANGED <<execState, attempts, phase, generation, leader, probeActive, due,
                   used, slots, shielded>>

\* The leader's sleep ends and it claims the probe if the episode is still the
\* one it slept for.
BackoffEnds(e) ==
    /\ pc[e] = "backoff" /\ due
    /\ phase = "recovering" /\ generation = permit[e] /\ leader = e /\ ~probeActive
    /\ probeActive' = TRUE
    /\ pc' = [pc EXCEPT ![e] = "rate"]
    /\ UNCHANGED <<execState, attempts, permit, phase, generation, leader, waiters,
                   due, used, slots, shielded>>

Gate(e) == \/ GatePass(e) \/ GateFailed(e) \/ GateRefuse(e) \/ GateReopen(e)
           \/ GateProbe(e) \/ GateBackoff(e) \/ GateFollow(e) \/ BackoffEnds(e)

-----------------------------------------------------------------------------
(* _open_attempt after the gate: quota, slot, second look at the permit.    *)

\* acquire_if finds room and the permit still current; then the semaphore
\* gives a slot at once or suspends the task.
TakeQuota(e) ==
    /\ pc[e] = "rate" /\ used < RateLimit /\ PermitIsCurrent(e)
    /\ used' = used + 1
    /\ IF free > 0
       THEN pc' = [pc EXCEPT ![e] = "granted"] /\ free' = free - 1 /\ UNCHANGED queue
       ELSE pc' = [pc EXCEPT ![e] = "slot"] /\ queue' = Append(queue, e) /\ UNCHANGED free
    /\ UNCHANGED <<execState, attempts, permit, episode, shielded>>

\* acquire_if finds room but the permit stale: no quota is consumed, back to the gate.
QuotaStale(e) ==
    /\ pc[e] = "rate" /\ used < RateLimit /\ ~PermitIsCurrent(e)
    /\ IF MatchingProbe(e, permit[e])
       THEN VacateProbe /\ pc' = Notified([pc EXCEPT ![e] = "woken"])
       ELSE pc' = [pc EXCEPT ![e] = "woken"] /\ UNCHANGED episode
    /\ UNCHANGED <<execState, attempts, permit, used, slots, shielded>>

\* With a slot in hand and the permit current, the attempt is claimed.
Claim(e) ==
    /\ pc[e] = "granted" /\ PermitIsCurrent(e)
    /\ attempts' = [attempts EXCEPT ![e] = @ + 1]
    /\ pc' = [pc EXCEPT ![e] = "open"]
    /\ UNCHANGED <<execState, permit, episode, used, slots, shielded>>

\* A mutant: the slot is kept.
SlotStaleLeaking(e) ==
    /\ pc[e] = "granted" /\ ~PermitIsCurrent(e)
    /\ IF MatchingProbe(e, permit[e])
       THEN VacateProbe /\ pc' = Notified([pc EXCEPT ![e] = "woken"])
       ELSE pc' = [pc EXCEPT ![e] = "woken"] /\ UNCHANGED episode
    /\ UNCHANGED <<execState, attempts, permit, used, slots, shielded>>

\* The permit went stale while the task was queued for the slot.
SlotStale(e) ==
    /\ pc[e] = "granted" /\ ~PermitIsCurrent(e)
    /\ IF MatchingProbe(e, permit[e])
       THEN VacateProbe /\ Release(Notified([pc EXCEPT ![e] = "woken"]))
       ELSE Release([pc EXCEPT ![e] = "woken"]) /\ UNCHANGED episode
    /\ UNCHANGED <<execState, attempts, permit, used, shielded>>

Admit(e) == TakeQuota(e) \/ QuotaStale(e) \/ Claim(e) \/ SlotStale(e)

-----------------------------------------------------------------------------
(* ProviderAttempt: accept, correct and fail resolve the call in flight.    *)

\* A mutant: the episode closes without a notification.
AcceptSilently(e) ==
    /\ pc[e] = "open"
    /\ IF MatchingProbe(e, permit[e]) THEN CloseEpisode ELSE UNCHANGED episode
    /\ pc' = [pc EXCEPT ![e] = "accepted"]
    /\ UNCHANGED <<execState, attempts, permit, used, slots, shielded>>

\* accept(): only the live episode's own probe closes it.
Accept(e) ==
    /\ pc[e] = "open"
    /\ IF MatchingProbe(e, permit[e])
       THEN CloseEpisode /\ pc' = Notified([pc EXCEPT ![e] = "accepted"])
       ELSE pc' = [pc EXCEPT ![e] = "accepted"] /\ UNCHANGED episode
    /\ UNCHANGED <<execState, attempts, permit, used, slots, shielded>>

\* correct() with budget left: the same leader may probe again at once.
Correct(e) ==
    /\ pc[e] = "open" /\ CanAttempt(e)
    /\ IF MatchingProbe(e, permit[e])
       THEN /\ probeActive' = FALSE /\ due' = TRUE
            /\ UNCHANGED <<phase, generation, leader, waiters>>
            /\ pc' = Notified([pc EXCEPT ![e] = "settled"])
       ELSE pc' = [pc EXCEPT ![e] = "settled"] /\ UNCHANGED episode
    /\ UNCHANGED <<execState, attempts, permit, used, slots, shielded>>

\* A final rejection, by fail() with an error that is not retryable or by
\* correct() without budget: upstream answered, so a probe closes its episode.
Reject(e) ==
    /\ pc[e] = "open"
    /\ IF MatchingProbe(e, permit[e])
       THEN CloseEpisode /\ pc' = Notified([pc EXCEPT ![e] = "settled"])
       ELSE pc' = [pc EXCEPT ![e] = "settled"] /\ UNCHANGED episode
    /\ execState' = Ended(e, "FAILED")
    /\ UNCHANGED <<attempts, permit, used, slots, shielded>>

\* fail() with a retryable error and budget left (_attempt_failed, can_retry):
\* open an episode as its leader, back off as the leader whose probe failed,
\* share the outcome of an exhausted episode, or join the waiters.
FailRetryable(e) ==
    /\ pc[e] = "open" /\ CanAttempt(e)
    /\ \/ /\ phase = "none"
          /\ StartEpisode("recovering", e, FALSE, FALSE)
          /\ UNCHANGED execState
       \/ /\ MatchingProbe(e, permit[e])
          /\ probeActive' = FALSE /\ due' = FALSE
          /\ UNCHANGED <<execState, phase, generation, leader, waiters>>
       \/ /\ phase = "exhausted" /\ ~MatchingProbe(e, permit[e])
          /\ execState' = Ended(e, "FAILED")
          /\ UNCHANGED episode
       \/ /\ phase = "recovering" /\ ~MatchingProbe(e, permit[e])
          /\ waiters' = WithWaiter(e)
          /\ UNCHANGED <<execState, phase, generation, leader, probeActive, due>>
    /\ pc' = Notified([pc EXCEPT ![e] = "settled"])
    /\ UNCHANGED <<attempts, permit, used, slots, shielded>>

\* fail() of the last attempt: the shared budget is spent, every waiter fails
\* with it and the episode refuses callers until its cooldown is over.  A late
\* failure that is not the live episode's probe changes nothing shared.
FailLast(e) ==
    /\ pc[e] = "open" /\ ~CanAttempt(e)
    /\ \/ /\ phase = "none"
          /\ StartEpisode("exhausted", NoOne, FALSE, FALSE)
          /\ execState' = Ended(e, "FAILED")
          /\ pc' = Notified([pc EXCEPT ![e] = "settled"])
       \/ /\ MatchingProbe(e, permit[e])
          /\ phase' = "exhausted" /\ leader' = NoOne /\ waiters' = {}
          /\ probeActive' = FALSE /\ due' = FALSE /\ UNCHANGED generation
          /\ execState' = [x \in Executions |->
                 IF x \in waiters \cup {e} /\ execState[x] = "ACTIVE"
                 THEN "FAILED" ELSE execState[x]]
          /\ pc' = Notified([pc EXCEPT ![e] = "settled"])
       \/ /\ phase # "none" /\ ~MatchingProbe(e, permit[e])
          /\ execState' = Ended(e, "FAILED")
          /\ pc' = [pc EXCEPT ![e] = "settled"]
          /\ UNCHANGED episode
    /\ UNCHANGED <<attempts, permit, used, slots, shielded>>

Resolve(e) == Accept(e) \/ Correct(e) \/ Reject(e) \/ FailRetryable(e) \/ FailLast(e)

-----------------------------------------------------------------------------
(* Closing attempts, and the logical operation around them.                 *)

\* The call is cancelled in flight: aclose() of an unresolved attempt starts
\* the shielded abandonment and waits for it.
CancelOpen(e) ==
    /\ pc[e] = "open"
    /\ pc' = [pc EXCEPT ![e] = "closing"]
    /\ shielded' = shielded \cup {<<e, permit[e]>>}
    /\ UNCHANGED <<execState, attempts, permit, episode, used, slots>>

\* The shielded task, which runs whatever happens to its creator.
AbandonProbe(t) ==
    /\ shielded' = shielded \ {t}
    /\ IF MatchingProbe(t[1], t[2])
       THEN VacateProbe /\ pc' = Notified(pc)
       ELSE UNCHANGED <<episode, pc>>
    /\ UNCHANGED <<execState, attempts, permit, used, slots>>

\* aclose() goes on, because the task has finished or because a second
\* cancellation interrupted the wait for it: claim and slot are given back and
\* the operation is abandoned.
FinishClosing(e) ==
    /\ pc[e] = "closing"
    /\ Release([pc EXCEPT ![e] = "done"])
    /\ execState' = Ended(e, "ABANDONED")
    /\ UNCHANGED <<attempts, permit, episode, used, shielded>>

\* The response ends and the operation succeeds.
Succeed(e) ==
    /\ pc[e] = "accepted"
    /\ Release([pc EXCEPT ![e] = "done"])
    /\ execState' = Ended(e, "SUCCEEDED")
    /\ UNCHANGED <<attempts, permit, episode, used, shielded>>

\* The stream of a resolved attempt is closed (after a failure, or after an
\* accepted stream broke) and the caller decides what to do next.
CloseResolved(e) ==
    /\ pc[e] \in {"accepted", "settled"}
    /\ Release([pc EXCEPT ![e] = "idle"])
    /\ UNCHANGED <<execState, attempts, permit, episode, used, shielded>>

\* Between two attempts the caller ends the operation: its task is cancelled
\* while the old stream closes, resolving the request's endpoint raises, or no
\* attempt is left.  Nothing tells the controller.
GiveUp(e) ==
    /\ pc[e] = "idle"
    /\ pc' = [pc EXCEPT ![e] = "done"]
    /\ execState' \in {Ended(e, "FAILED"), Ended(e, "ABANDONED")}
    /\ UNCHANGED <<attempts, permit, episode, used, slots, shielded>>

\* Cancellation of a task suspended inside open_attempt.
CancelFollower(e) ==
    /\ pc[e] \in {"wait", "woken"}
    /\ waiters' = IF generation = permit[e] THEN waiters \ {e} ELSE waiters
    /\ pc' = [pc EXCEPT ![e] = "done"] /\ execState' = Ended(e, "ABANDONED")
    /\ UNCHANGED <<attempts, permit, phase, generation, leader, probeActive, due,
                   used, slots, shielded>>

\* _abandon_waiting_leader: the episode keeps its ready_at and a waiter takes over.
CancelBackoff(e) ==
    /\ pc[e] = "backoff"
    /\ execState' = Ended(e, "ABANDONED")
    /\ IF phase # "none" /\ generation = permit[e] /\ leader = e /\ ~probeActive
       THEN /\ leader' = NoOne /\ pc' = Notified([pc EXCEPT ![e] = "done"])
            /\ UNCHANGED <<phase, generation, waiters, probeActive, due>>
       ELSE pc' = [pc EXCEPT ![e] = "done"] /\ UNCHANGED episode
    /\ UNCHANGED <<attempts, permit, used, slots, shielded>>

\* The exception path of _open_attempt: leave the limiter or the semaphore
\* (a slot already handed over goes on to the next acquirer), and give the
\* probe permit back.
CancelAdmission(e) ==
    /\ pc[e] \in {"rate", "slot", "granted"}
    /\ LET p == [pc EXCEPT ![e] = "done"]
           q == IF MatchingProbe(e, permit[e]) THEN Notified(p) ELSE p
       IN  \/ pc[e] = "rate" /\ pc' = q /\ UNCHANGED slots
           \/ pc[e] = "slot" /\ pc' = q /\ LeaveQueue(e)
           \/ pc[e] = "granted" /\ Release(q)
    /\ IF MatchingProbe(e, permit[e]) THEN VacateProbe ELSE UNCHANGED episode
    /\ execState' = Ended(e, "ABANDONED")
    /\ UNCHANGED <<attempts, permit, used, shielded>>

Close(e) == FinishClosing(e) \/ Succeed(e) \/ CloseResolved(e)
Cancel(e) == \/ CancelOpen(e) \/ GiveUp(e) \/ CancelFollower(e)
             \/ CancelBackoff(e) \/ CancelAdmission(e)

-----------------------------------------------------------------------------
(* Time.                                                                    *)

\* ready_at or terminal_until is reached.
Elapse ==
    /\ phase # "none" /\ ~due /\ due' = TRUE
    /\ UNCHANGED <<execState, attempts, pc, permit, phase, generation, leader, waiters,
                   probeActive, used, slots, shielded>>

\* The oldest acquisition leaves the sliding window.
Slide ==
    /\ used > 0 /\ used' = used - 1
    /\ UNCHANGED <<execState, attempts, pc, permit, episode, slots, shielded>>

Next == \/ \E e \in Executions : Gate(e) \/ Admit(e) \/ Resolve(e) \/ Close(e) \/ Cancel(e)
        \/ \E t \in shielded : AbandonProbe(t)
        \/ Elapse
        \/ Slide

Spec == Init /\ [][Next]_vars

\* The loop runs every task that is not suspended, sleeps end, the window
\* slides, the upstream answers or times out (read timeouts) and callers go on
\* to their next attempt; nobody has to cancel.
Fairness ==
    /\ \A e \in Executions :
          /\ WF_vars(Gate(e)) /\ WF_vars(Admit(e)) /\ WF_vars(Resolve(e))
          /\ WF_vars(Close(e)) /\ WF_vars(GiveUp(e) /\ ~CanAttempt(e))
    /\ \A t \in Executions \X (0..MaxAttempts * Cardinality(Executions)) :
          WF_vars(t \in shielded /\ AbandonProbe(t))
    /\ WF_vars(Elapse) /\ WF_vars(Slide)

FairSpec == Spec /\ Fairness

-----------------------------------------------------------------------------
(* Properties.                                                              *)

AdmittingPlaces == {"rate", "slot", "granted"}

\* The probe token is never lost: while probe_active blocks every caller, the
\* leader holds the live generation's permit and will resolve it, or the
\* shielded abandonment that gives the token back is still to run.
ProbeTokenHeld ==
    probeActive =>
        /\ phase = "recovering" /\ leader # NoOne
        /\ \/ pc[leader] \in AdmittingPlaces \cup {"open"} /\ permit[leader] = generation
           \/ <<leader, generation>> \in shielded

\* Exactly one probe: a task that holds a probe permit on its way to the
\* upstream or in the call is the live episode's leader, so no second call of
\* the episode, and none of an earlier generation, is unresolved.
SingleProbe ==
    \A e \in Executions :
        pc[e] \in AdmittingPlaces \cup {"open"} /\ permit[e] > 0 => PermitIsCurrent(e)

\* The bulkhead neither leaks nor over-grants slots across hand-over, stale
\* permits and cancellation, and no slot is free while somebody waits for one.
SlotsConserved ==
    /\ free + Cardinality(Holders) = MaxConcurrency
    /\ free > 0 => queue = <<>>

\* No lost wake-up: a task asleep on the condition is a registered waiter of
\* the live episode, and somebody else leads that episode and will notify.
FollowersAreLed ==
    \A e \in Executions : pc[e] = "wait" =>
        /\ phase = "recovering" /\ generation = permit[e]
        /\ e \in waiters /\ leader \notin {NoOne, e}

\* A task that passed the gate still owns an attempt of its budget when it
\* reaches _claim_attempt, whatever happened while it queued for quota and
\* slot: the RuntimeError there is unreachable.
ClaimIsLegal ==
    \A e \in Executions : pc[e] \in AdmittingPlaces => CanAttempt(e)

\* A sleeping leader keeps its episode: nobody can replace or end it meanwhile.
BackoffOwnsEpisode ==
    \A e \in Executions : pc[e] = "backoff" =>
        /\ phase = "recovering" /\ generation = permit[e]
        /\ leader = e /\ ~probeActive /\ e \notin waiters

\* Both sides of the probe token: it is neither lost nor held twice.
ProbeIsExclusive == ProbeTokenHeld /\ SingleProbe

\* Both sides of an episode: its followers sleep under a leader, and its leader
\* sleeps only while it leads.
EpisodeIsLed == FollowersAreLed /\ BackoffOwnsEpisode

\* A recovering episode ends only by the outcome of its own leader's probe,
\* never by a call admitted before it or in another generation.
EpisodeEndsByItsProbe ==
    [][phase = "recovering" /\ (phase' # "recovering" \/ generation' # generation) =>
           /\ leader # NoOne
           /\ pc[leader] = "open" /\ permit[leader] = generation
           /\ pc'[leader] \in {"accepted", "settled"}]_vars

\* While an episode is live the only call that starts is its leader's probe,
\* and none starts during the cooldown of an exhausted one.
OnlyTheProbeStarts ==
    [][\A e \in Executions : attempts'[e] # attempts[e] =>
           \/ phase = "none"
           \/ phase = "recovering" /\ leader = e /\ permit[e] = generation]_vars

\* Spending the shared budget fails every task asleep behind the episode, so
\* none of them starts a retry loop of its own in a later generation.
ExhaustionIsShared ==
    [][phase = "recovering" /\ phase' = "exhausted" =>
           \A e \in Executions : pc[e] = "wait" => execState'[e] = "FAILED"]_vars

\* The leadership is held by an operation that has ended.
DeadLeader ==
    /\ leader # NoOne /\ pc[leader] = "done"
    /\ ~ \E t \in shielded : t[1] = leader

\* "Exactly one logical execution owns its half-open probes; concurrent callers
\* wait for that episode": the owner callers wait for is still there.
OwnerIsAlive == ~DeadLeader

\* Unless the leader ended between two attempts, whoever enters open_attempt
\* leaves it with a call in flight or with an error.
EventuallyAdmitted(e) ==
    []~DeadLeader =>
        (pc[e] \in {"wait", "woken", "backoff", "rate", "slot", "granted"} ~>
            pc[e] \in {"open", "done"})

-----------------------------------------------------------------------------
(* The abstract breaker the controller implements.                          *)

Breaker == INSTANCE CircuitBreaker WITH
    Clients <- Executions, NoClient <- NoOne,
    mode <- CASE phase = "none" -> "closed"
              [] phase = "exhausted" -> "tripped"
              [] phase = "recovering" -> IF probeActive THEN "probing" ELSE "waiting",
    epoch <- generation,
    prober <- IF probeActive THEN leader ELSE NoOne,
    called <- probeActive /\ pc[leader] \notin AdmittingPlaces,
    calls <- attempts

\* The controller implements the breaker: one call per probe, and nothing but
\* that call's outcome closes or trips it.
ImplementsBreaker == Breaker!Spec

=============================================================================
