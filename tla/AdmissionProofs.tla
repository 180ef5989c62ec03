--------------------------- MODULE AdmissionProofs ---------------------------
(***************************************************************************)
(* Proofs about Admission, for any finite number of executions and any     *)
(* limits: the inductive invariant, and what follows from it: the          *)
(* conservation of the semaphore's slots, type correctness with all        *)
(* bounds, the action properties of the recovery episode, and that the     *)
(* controller implements the abstract breaker.                             *)
(***************************************************************************)
EXTENDS Admission, SequenceTheorems, FiniteSetTheorems, TLAPS

-----------------------------------------------------------------------------
(* The inductive invariant.                                                 *)

\* Types without the upper bounds that need the other conjuncts.
Typed ==
    /\ execState \in [Executions -> States]
    /\ attempts \in [Executions -> 0..MaxAttempts]
    /\ pc \in [Executions -> Places]
    /\ permit \in [Executions -> Nat]
    /\ phase \in {"none", "recovering", "exhausted"}
    /\ generation \in Nat
    /\ leader \in Executions \cup {NoOne}
    /\ waiters \in SUBSET Executions
    /\ probeActive \in BOOLEAN
    /\ due \in BOOLEAN
    /\ used \in 0..RateLimit
    /\ free \in Nat
    /\ queue \in Seq(Executions)
    /\ shielded \in SUBSET (Executions \X Nat)

\* Only a recovering episode has a leader, waiters and a probe.
EpisodeShape ==
    /\ phase # "recovering" => leader = NoOne /\ waiters = {} /\ ~probeActive
    /\ phase # "none" => generation > 0
    /\ leader \notin waiters

\* What a task inside open_attempt may rely on.
AdmittingOK ==
    \A e \in Executions :
        /\ pc[e] \in AdmittingPlaces \cup {"backoff"} => CanAttempt(e) /\ e \notin waiters
        /\ pc[e] \in AdmittingPlaces \cup {"open"} /\ leader = e => probeActive
        /\ pc[e] \in {"wait", "woken"} => attempts[e] < MaxAttempts

\* A detached abandonment belongs to a task that has left its attempt.
ShieldedOK == \A t \in shielded : pc[t[1]] \in {"closing", "done"}

\* The semaphore's queue holds exactly the tasks suspended in it, each once.
QueueIsSuspended ==
    /\ \A e \in Executions : pc[e] = "slot" <=> \E i \in 1..Len(queue) : queue[i] = e
    /\ \A i, j \in 1..Len(queue) : queue[i] = queue[j] => i = j

IInv ==
    /\ Typed
    /\ QueueIsSuspended
    /\ EpisodeShape
    /\ SingleProbe
    /\ FollowersAreLed
    /\ BackoffOwnsEpisode
    /\ AdmittingOK
    /\ ShieldedOK
    /\ ProbeTokenHeld

-----------------------------------------------------------------------------
(* Lemmas about the semaphore.                                              *)

\* Who is suspended depends on the queue and on who waits for a slot alone.
LEMMA QueueStays ==
    ASSUME QueueIsSuspended, queue' = queue,
           \A x \in Executions : pc'[x] = "slot" <=> pc[x] = "slot"
    PROVE  QueueIsSuspended'
  BY DEF QueueIsSuspended

\* Release keeps the semaphore well formed and changes nobody's place but that
\* of the acquirer it hands the slot to.
LEMMA ReleaseEffect ==
    ASSUME Typed, QueueIsSuspended, NEW STATE p, p \in [Executions -> Places],
           \A x \in Executions : pc[x] = "slot" <=> p[x] = "slot",
           Release(p)
    PROVE  /\ pc' \in [Executions -> Places] /\ free' \in Nat
           /\ queue' \in Seq(Executions)
           /\ QueueIsSuspended'
           /\ \A x \in Executions :
                 pc'[x] = p[x] \/ (p[x] = "slot" /\ pc'[x] = "granted")
<1>1. CASE queue = <<>>
  BY <1>1 DEF Release, Typed, QueueIsSuspended
<1>2. CASE queue # <<>>
  <2>1. /\ pc' = [p EXCEPT ![Head(queue)] = "granted"]
        /\ queue' = Tail(queue) /\ free' = free
    BY <1>2 DEF Release
  <2>2. /\ queue' \in Seq(Executions) /\ Len(queue') = Len(queue) - 1
        /\ \A i \in 1..Len(queue') : queue'[i] = queue[i + 1]
        /\ Head(queue) = queue[1] /\ Head(queue) \in Executions
        /\ Len(queue) \in Nat \ {0}
    BY <1>2, <2>1, HeadTailProperties DEF Typed
  <2>3. p[Head(queue)] = "slot"
    BY <2>2 DEF QueueIsSuspended
  <2>4. QueueIsSuspended'
    <3>1. \A i, j \in 1..Len(queue') : queue'[i] = queue'[j] => i = j
      BY <2>2 DEF QueueIsSuspended
    <3>2. ASSUME NEW e \in Executions, pc'[e] = "slot"
          PROVE  \E i \in 1..Len(queue') : queue'[i] = e
      <4>1. e # Head(queue) /\ pc[e] = "slot"
        BY <2>1, <2>2, <3>2
      <4>2. PICK i \in 1..Len(queue) : queue[i] = e
        BY <4>1 DEF QueueIsSuspended
      <4>3. i - 1 \in 1..Len(queue') /\ queue'[i - 1] = e
        BY <4>1, <4>2, <2>2
      <4>4. QED
        BY <4>3
    <3>3. ASSUME NEW e \in Executions, NEW i \in 1..Len(queue'), queue'[i] = e
          PROVE  pc'[e] = "slot"
      <4>0. queue[i + 1] = e /\ i + 1 \in 1..Len(queue) /\ 1 \in 1..Len(queue) /\ i + 1 # 1
        BY <2>2, <3>3
      <4>1. queue[i + 1] = e /\ i + 1 \in 1..Len(queue) /\ e # Head(queue)
        BY <2>2, <4>0 DEF QueueIsSuspended
      <4>2. pc[e] = "slot"
        BY <4>1 DEF QueueIsSuspended
      <4>3. QED
        BY <2>1, <4>1, <4>2
    <3>4. QED
      BY <3>1, <3>2, <3>3 DEF QueueIsSuspended
  <2>5. QED
    BY <2>1, <2>2, <2>3, <2>4 DEF Typed, Places
<1>3. QED
  BY <1>1, <1>2

\* Removing the element at k from a sequence.
LEMMA RemovalProperties ==
    ASSUME NEW S, NEW s \in Seq(S), NEW k \in 1..Len(s)
    PROVE  /\ Without(s, k) \in Seq(S) /\ Len(Without(s, k)) = Len(s) - 1
           /\ \A i \in 1..Len(s) - 1 : Without(s, k)[i] = IF i < k THEN s[i] ELSE s[i + 1]
<1> DEFINE front == SubSeq(s, 1, k - 1)
           back == SubSeq(s, k + 1, Len(s))
           r == Without(s, k)
<1>1. k \in Nat /\ Len(s) \in Nat /\ 1 <= k /\ k <= Len(s)
  OBVIOUS
<1>2. /\ front \in Seq(S) /\ Len(front) = k - 1
      /\ \A i \in 1..k - 1 : front[i] = s[i]
  BY <1>1
<1>3. /\ back \in Seq(S) /\ Len(back) = Len(s) - k
      /\ \A i \in 1..Len(s) - k : back[i] = s[i + k]
  BY <1>1
<1> HIDE DEF front, back, r
<1>4. /\ front \o back \in Seq(S) /\ Len(front \o back) = Len(front) + Len(back)
      /\ \A i \in 1..Len(front) + Len(back) :
            (front \o back)[i] = IF i <= Len(front) THEN front[i] ELSE back[i - Len(front)]
  BY <1>2, <1>3, ConcatProperties
<1>5. /\ r \in Seq(S) /\ Len(r) = Len(front) + Len(back)
      /\ \A i \in 1..Len(front) + Len(back) :
            r[i] = IF i <= Len(front) THEN front[i] ELSE back[i - Len(front)]
  <2>1. r = front \o back
    BY DEF front, back, r, Without
  <2>2. QED
    BY <1>4, <2>1
<1>6. Len(front) + Len(back) = Len(s) - 1
  BY <1>1, <1>2, <1>3
<1>7. \A i \in 1..Len(s) - 1 : r[i] = IF i <= k - 1 THEN front[i] ELSE back[i - (k - 1)]
  <2>1. Len(front) = k - 1
    BY <1>2
  <2>2. QED
    BY <1>5, <1>6, <2>1, Zenon
<1>8. ASSUME NEW i \in 1..Len(s) - 1
      PROVE  r[i] = IF i < k THEN s[i] ELSE s[i + 1]
  <2>0. i \in Nat /\ i >= 1 /\ i <= Len(s) - 1
    BY <1>1
  <2>1. CASE i < k
    <3>1. i <= k - 1 /\ i \in 1..k - 1
      BY <1>1, <2>0, <2>1
    <3>2. r[i] = front[i] /\ front[i] = s[i]
      BY <1>2, <1>7, <3>1
    <3>3. QED
      BY <2>1, <3>2
  <2>2. CASE ~(i < k)
    <3>1. /\ i - (k - 1) \in 1..Len(s) - k /\ (i - (k - 1)) + k = i + 1
          /\ ~(i <= k - 1)
      BY <1>1, <2>0, <2>2
    <3>2. r[i] = back[i - (k - 1)]
      BY <1>7, <3>1
    <3>3. back[i - (k - 1)] = s[i + 1]
      BY <1>3, <3>1
    <3>4. QED
      BY <2>2, <3>2, <3>3
  <2>3. QED
    BY <2>1, <2>2
<1>9. Len(r) = Len(s) - 1
  BY <1>5, <1>6
<1>10. QED
  BY <1>5, <1>8, <1>9 DEF r

\* A cancelled acquirer leaves the queue; the order of the others is kept.
LEMMA LeaveQueueEffect ==
    ASSUME Typed, QueueIsSuspended, NEW e \in Executions, pc[e] = "slot",
           LeaveQueue(e), pc'[e] # "slot",
           \A x \in Executions \ {e} : pc[x] = "slot" <=> pc'[x] = "slot"
    PROVE  queue' \in Seq(Executions) /\ QueueIsSuspended' /\ free' = free
<1>1. PICK k \in 1..Len(queue) :
         queue[k] = e /\ queue' = Without(queue, k)
  BY DEF LeaveQueue
<1>2. Len(queue) \in Nat /\ \A i \in 1..Len(queue) : queue[i] \in Executions
  BY DEF Typed
<1>3. /\ queue' \in Seq(Executions) /\ Len(queue') = Len(queue) - 1
      /\ \A i \in 1..Len(queue) - 1 : queue'[i] = IF i < k THEN queue[i] ELSE queue[i + 1]
  <2>1. queue \in Seq(Executions)
    BY DEF Typed
  <2>2. QED
    BY ZenonT(60), <1>1, <2>1, RemovalProperties
<1>4. \A i, j \in 1..Len(queue') : queue'[i] = queue'[j] => i = j
  <2>1. \A i, j \in 1..Len(queue) : queue[i] = queue[j] => i = j
    BY DEF QueueIsSuspended
  <2>2. ASSUME NEW i \in 1..Len(queue'), NEW j \in 1..Len(queue'), queue'[i] = queue'[j]
        PROVE  i = j
    <3>0. /\ Len(queue') = Len(queue) - 1 /\ Len(queue) \in Nat
          /\ k \in 1..Len(queue)
      BY <1>1, <1>2, <1>3
    <3>1. /\ i \in Int /\ j \in Int /\ k \in Int
          /\ i \in 1..Len(queue) /\ i + 1 \in 1..Len(queue)
          /\ j \in 1..Len(queue) /\ j + 1 \in 1..Len(queue)
      BY <3>0
    <3>2. CASE i < k /\ j < k
      BY <1>3, <2>1, <2>2, <3>1, <3>2
    <3>3. CASE i < k /\ ~(j < k)
      <4>1. queue[i] = queue[j + 1]
        BY <1>3, <2>2, <3>3
      <4>2. QED
        BY <2>1, <3>1, <3>3, <4>1
    <3>4. CASE ~(i < k) /\ j < k
      <4>1. queue[i + 1] = queue[j]
        BY <1>3, <2>2, <3>4
      <4>2. QED
        BY <2>1, <3>1, <3>4, <4>1
    <3>5. CASE ~(i < k) /\ ~(j < k)
      <4>1. queue[i + 1] = queue[j + 1]
        BY <1>3, <2>2, <3>5
      <4>2. i + 1 = j + 1
        BY <2>1, <3>1, <4>1
      <4>3. QED
        BY <3>1, <4>2
    <3>6. QED
      BY <3>2, <3>3, <3>4, <3>5
  <2>3. QED
    BY <2>2
<1>5. ASSUME NEW x \in Executions, pc'[x] = "slot"
      PROVE  \E i \in 1..Len(queue') : queue'[i] = x
  <2>1. PICK i \in 1..Len(queue) : queue[i] = x /\ i # k
    BY <1>1, <1>5 DEF QueueIsSuspended
  <2>2. CASE i < k
    BY <1>2, <1>3, <2>1, <2>2
  <2>3. CASE i > k
    <3>1. i - 1 \in 1..Len(queue') /\ queue'[i - 1] = x
      BY <1>2, <1>3, <2>1, <2>3
    <3>2. QED
      BY <3>1
  <2>4. QED
    BY <2>1, <2>2, <2>3
<1>6. ASSUME NEW x \in Executions, NEW i \in 1..Len(queue'), queue'[i] = x
      PROVE  pc'[x] = "slot"
  <2>1. PICK j \in 1..Len(queue) : queue[j] = x /\ j # k
    <3>1. CASE i < k
      BY <1>2, <1>3, <1>6, <3>1
    <3>2. CASE ~(i < k)
      <4>1. i + 1 \in 1..Len(queue) /\ i + 1 # k /\ queue[i + 1] = x
        BY <1>2, <1>3, <1>6, <3>2
      <4>2. QED
        BY <4>1
    <3>3. QED
      BY <3>1, <3>2
  <2>2. pc[x] = "slot" /\ x # e
    BY <1>1, <2>1 DEF QueueIsSuspended
  <2>3. QED
    BY <2>2
<1>7. QED
  BY <1>3, <1>4, <1>5, <1>6 DEF QueueIsSuspended, LeaveQueue

\* A task that has to queue for a slot joins at the end.
LEMMA JoinQueueEffect ==
    ASSUME Typed, QueueIsSuspended, NEW e \in Executions, pc[e] = "rate",
           pc' = [pc EXCEPT ![e] = "slot"], queue' = Append(queue, e)
    PROVE  queue' \in Seq(Executions) /\ QueueIsSuspended'
<1>1. /\ queue' \in Seq(Executions) /\ Len(queue') = Len(queue) + 1
      /\ \A i \in 1..Len(queue) : queue'[i] = queue[i]
      /\ queue'[Len(queue) + 1] = e /\ Len(queue) \in Nat
  BY AppendProperties DEF Typed
<1>2. \A i \in 1..Len(queue) : queue[i] # e
  BY DEF QueueIsSuspended
<1>3. \A i, j \in 1..Len(queue') : queue'[i] = queue'[j] => i = j
  BY <1>1, <1>2 DEF QueueIsSuspended
<1>4. ASSUME NEW x \in Executions, pc'[x] = "slot"
      PROVE  \E i \in 1..Len(queue') : queue'[i] = x
  <2>1. CASE x = e
    BY <1>1, <2>1
  <2>2. CASE x # e
    <3>1. PICK i \in 1..Len(queue) : queue[i] = x
      BY <1>4, <2>2 DEF QueueIsSuspended, Typed
    <3>2. QED
      BY <1>1, <3>1
  <2>3. QED
    BY <2>1, <2>2
<1>5. ASSUME NEW x \in Executions, NEW i \in 1..Len(queue'), queue'[i] = x
      PROVE  pc'[x] = "slot"
  <2>1. CASE i = Len(queue) + 1
    BY <1>1, <1>5, <2>1 DEF Typed
  <2>2. CASE i # Len(queue) + 1
    <3>1. i \in 1..Len(queue) /\ queue[i] = x
      BY <1>1, <1>5, <2>2
    <3>2. QED
      BY <1>2, <3>1 DEF QueueIsSuspended, Typed
  <2>3. QED
    BY <2>1, <2>2
<1>6. QED
  BY <1>1, <1>3, <1>4, <1>5 DEF QueueIsSuspended

-----------------------------------------------------------------------------
(* Each action preserves the invariant.                                     *)

\* Whoever is admitted or in a call, leads and finds the probe flag set is the
\* prober: its outcome is the one _matching_probe accepts.
-----------------------------------------------------------------------------
(* Every action keeps the inductive invariant. *)

\* A task with an attempt under way that leads a probing episode holds that
\* episode's permit: its outcome is the one _matching_probe recognises.
LEMMA OwnProbe ==
    ASSUME IInv, NEW e \in Executions, pc[e] \in AdmittingPlaces \cup {"open"}
    PROVE  probeActive /\ leader = e => permit[e] = generation /\ MatchingProbe(e, permit[e])
BY DEF IInv, Typed, ProbeTokenHeld, ShieldedOK, AdmittingPlaces, MatchingProbe, EpisodeShape

\* With no episode the gate issues normal permits, which are current.
LEMMA GatePassStep ==
    ASSUME IInv, NEW e \in Executions, GatePass(e)
    PROVE  IInv'
<1>1. Typed'
  BY DEF IInv, GatePass, episode, slots, AtGate, CanAttempt, Typed, Places, States
<1>2. QueueIsSuspended'
  BY DEF IInv, GatePass, episode, slots, AtGate, CanAttempt, QueueIsSuspended, Typed
<1>3. EpisodeShape'
  BY ExecutionsAssumption DEF IInv, GatePass, episode, slots, AtGate, CanAttempt,
       EpisodeShape, Typed, BackoffOwnsEpisode, AdmittingOK
<1>4. SingleProbe'
  BY DEF IInv, GatePass, episode, slots, AtGate, CanAttempt, SingleProbe,
       EpisodeShape, Typed, AdmittingPlaces, PermitIsCurrent, MatchingProbe,
       ShieldedOK
<1>5. FollowersAreLed'
  BY ExecutionsAssumption DEF IInv, GatePass, episode, slots, AtGate, CanAttempt,
       FollowersAreLed, EpisodeShape, Typed
<1>6. BackoffOwnsEpisode'
  BY ExecutionsAssumption DEF IInv, GatePass, episode, slots, AtGate, CanAttempt,
       BackoffOwnsEpisode, EpisodeShape, Typed, ShieldedOK
<1>7. AdmittingOK'
  BY ExecutionsAssumption DEF IInv, GatePass, episode, slots, AtGate, CanAttempt,
       AdmittingOK, SingleProbe, BackoffOwnsEpisode, FollowersAreLed, EpisodeShape,
       Typed, AdmittingPlaces, PermitIsCurrent, MatchingProbe
<1>8. ShieldedOK'
  BY DEF IInv, GatePass, episode, slots, AtGate, CanAttempt, ShieldedOK, Typed
<1>9. ProbeTokenHeld'
  BY ExecutionsAssumption DEF IInv, GatePass, episode, slots, AtGate, CanAttempt,
       ProbeTokenHeld, EpisodeShape, BackoffOwnsEpisode, ShieldedOK, Typed,
       AdmittingPlaces
<1>10. QED
  BY <1>1, <1>2, <1>3, <1>4, <1>5, <1>6, <1>7, <1>8, <1>9 DEF IInv

\* A waiter failed with the shared episode leaves; it leads nothing.
LEMMA GateFailedStep ==
    ASSUME IInv, NEW e \in Executions, GateFailed(e)
    PROVE  IInv'
<1>1. Typed'
  BY DEF IInv, GateFailed, episode, slots, Typed, Places, States
<1>2. QueueIsSuspended'
  BY DEF IInv, GateFailed, episode, slots, QueueIsSuspended, Typed
<1>3. EpisodeShape'
  BY ExecutionsAssumption DEF IInv, GateFailed, episode, slots, EpisodeShape, Typed,
       BackoffOwnsEpisode, AdmittingOK
<1>4. SingleProbe'
  BY DEF IInv, GateFailed, episode, slots, SingleProbe, EpisodeShape, Typed,
       AdmittingPlaces, PermitIsCurrent, MatchingProbe, ShieldedOK
<1>5. FollowersAreLed'
  BY ExecutionsAssumption DEF IInv, GateFailed, episode, slots, FollowersAreLed,
       EpisodeShape, Typed
<1>6. BackoffOwnsEpisode'
  BY ExecutionsAssumption DEF IInv, GateFailed, episode, slots, BackoffOwnsEpisode,
       EpisodeShape, Typed, ShieldedOK
<1>7. AdmittingOK'
  BY ExecutionsAssumption DEF IInv, GateFailed, episode, slots, AdmittingOK,
       SingleProbe, BackoffOwnsEpisode, FollowersAreLed, EpisodeShape, Typed,
       AdmittingPlaces, CanAttempt, PermitIsCurrent, MatchingProbe
<1>8. ShieldedOK'
  BY DEF IInv, GateFailed, episode, slots, ShieldedOK, Typed
<1>9. ProbeTokenHeld'
  BY ExecutionsAssumption DEF IInv, GateFailed, episode, slots, ProbeTokenHeld,
       EpisodeShape, BackoffOwnsEpisode, ShieldedOK, Typed, AdmittingPlaces
<1>10. QED
  BY <1>1, <1>2, <1>3, <1>4, <1>5, <1>6, <1>7, <1>8, <1>9 DEF IInv

\* A refused caller holds no permit and was not registered.
LEMMA GateRefuseStep ==
    ASSUME IInv, NEW e \in Executions, GateRefuse(e)
    PROVE  IInv'
<1>1. Typed'
  BY DEF IInv, GateRefuse, episode, slots, AtGate, CanAttempt, Ended, Typed, Places,
       States
<1>2. QueueIsSuspended'
  BY DEF IInv, GateRefuse, episode, slots, AtGate, CanAttempt, Ended,
       QueueIsSuspended, Typed
<1>3. EpisodeShape'
  BY ExecutionsAssumption DEF IInv, GateRefuse, episode, slots, AtGate, CanAttempt,
       Ended, EpisodeShape, Typed, BackoffOwnsEpisode, AdmittingOK
<1>4. SingleProbe'
  BY DEF IInv, GateRefuse, episode, slots, AtGate, CanAttempt, Ended, SingleProbe,
       EpisodeShape, Typed, AdmittingPlaces, PermitIsCurrent, MatchingProbe,
       ShieldedOK
<1>5. FollowersAreLed'
  BY ExecutionsAssumption DEF IInv, GateRefuse, episode, slots, AtGate, CanAttempt,
       Ended, FollowersAreLed, EpisodeShape, Typed
<1>6. BackoffOwnsEpisode'
  BY ExecutionsAssumption DEF IInv, GateRefuse, episode, slots, AtGate, CanAttempt,
       Ended, BackoffOwnsEpisode, EpisodeShape, Typed, ShieldedOK
<1>7. AdmittingOK'
  BY ExecutionsAssumption DEF IInv, GateRefuse, episode, slots, AtGate, CanAttempt,
       Ended, AdmittingOK, SingleProbe, BackoffOwnsEpisode, FollowersAreLed,
       EpisodeShape, Typed, AdmittingPlaces, PermitIsCurrent, MatchingProbe
<1>8. ShieldedOK'
  BY DEF IInv, GateRefuse, episode, slots, AtGate, CanAttempt, Ended, ShieldedOK,
       Typed
<1>9. ProbeTokenHeld'
  BY ExecutionsAssumption DEF IInv, GateRefuse, episode, slots, AtGate, CanAttempt,
       Ended, ProbeTokenHeld, EpisodeShape, BackoffOwnsEpisode, ShieldedOK, Typed,
       AdmittingPlaces
<1>10. QED
  BY <1>1, <1>2, <1>3, <1>4, <1>5, <1>6, <1>7, <1>8, <1>9 DEF IInv

\* Reopening after the cooldown starts a generation whose only probe is the
\* caller's: every older probe permit was already gone.
LEMMA GateReopenStep ==
    ASSUME IInv, NEW e \in Executions, GateReopen(e)
    PROVE  IInv'
<1>1. Typed'
  BY DEF IInv, GateReopen, slots, AtGate, CanAttempt, StartEpisode, Typed, Places, States
<1>2. QueueIsSuspended'
  BY DEF IInv, GateReopen, slots, AtGate, CanAttempt, StartEpisode, QueueIsSuspended, Typed
<1>3. EpisodeShape'
  BY ExecutionsAssumption DEF IInv, GateReopen, slots, AtGate, CanAttempt, StartEpisode,
     EpisodeShape, Typed, BackoffOwnsEpisode, AdmittingOK
<1>4. SingleProbe'
  BY DEF IInv, GateReopen, slots, AtGate, CanAttempt, StartEpisode, SingleProbe, EpisodeShape,
     Typed, AdmittingPlaces, PermitIsCurrent, MatchingProbe, ShieldedOK
<1>5. FollowersAreLed'
  BY ExecutionsAssumption DEF IInv, GateReopen, slots, AtGate, CanAttempt, StartEpisode,
     FollowersAreLed, EpisodeShape, Typed
<1>6. BackoffOwnsEpisode'
  BY ExecutionsAssumption DEF IInv, GateReopen, slots, AtGate, CanAttempt, StartEpisode,
     BackoffOwnsEpisode, EpisodeShape, Typed, ShieldedOK
<1>7. AdmittingOK'
  BY ExecutionsAssumption DEF IInv, GateReopen, slots, AtGate, CanAttempt, StartEpisode,
     AdmittingOK, SingleProbe, BackoffOwnsEpisode, FollowersAreLed, EpisodeShape, Typed,
     AdmittingPlaces, PermitIsCurrent, MatchingProbe
<1>8. ShieldedOK'
  BY DEF IInv, GateReopen, slots, AtGate, CanAttempt, StartEpisode, ShieldedOK, Typed
<1>9. ProbeTokenHeld'
  BY ExecutionsAssumption DEF IInv, GateReopen, slots, AtGate, CanAttempt, StartEpisode,
     ProbeTokenHeld, EpisodeShape, BackoffOwnsEpisode, ShieldedOK, Typed, AdmittingPlaces
<1>10. QED
  BY <1>1, <1>2, <1>3, <1>4, <1>5, <1>6, <1>7, <1>8, <1>9 DEF IInv

\* Claiming the probe is exclusive because probe_active was off.
LEMMA GateProbeStep ==
    ASSUME IInv, NEW e \in Executions, GateProbe(e)
    PROVE  IInv'
<1>1. Typed'
  BY DEF IInv, GateProbe, slots, AtGate, CanAttempt, Leads, Typed, Places, States
<1>2. QueueIsSuspended'
  BY DEF IInv, GateProbe, slots, AtGate, CanAttempt, Leads, QueueIsSuspended, Typed
<1>3. EpisodeShape'
  BY ExecutionsAssumption DEF IInv, GateProbe, slots, AtGate, CanAttempt, Leads, EpisodeShape,
     Typed, BackoffOwnsEpisode, AdmittingOK
<1>4. SingleProbe'
  BY DEF IInv, GateProbe, slots, AtGate, CanAttempt, Leads, SingleProbe, EpisodeShape, Typed,
     AdmittingPlaces, PermitIsCurrent, MatchingProbe, ShieldedOK
<1>5. FollowersAreLed'
  BY ExecutionsAssumption DEF IInv, GateProbe, slots, AtGate, CanAttempt, Leads, FollowersAreLed,
     EpisodeShape, Typed
<1>6. BackoffOwnsEpisode'
  BY ExecutionsAssumption DEF IInv, GateProbe, slots, AtGate, CanAttempt, Leads,
     BackoffOwnsEpisode, EpisodeShape, Typed, ShieldedOK
<1>7. AdmittingOK'
  BY ExecutionsAssumption DEF IInv, GateProbe, slots, AtGate, CanAttempt, Leads, AdmittingOK,
     SingleProbe, BackoffOwnsEpisode, FollowersAreLed, EpisodeShape, Typed, AdmittingPlaces,
     PermitIsCurrent, MatchingProbe
<1>8. ShieldedOK'
  BY DEF IInv, GateProbe, slots, AtGate, CanAttempt, Leads, ShieldedOK, Typed
<1>9. ProbeTokenHeld'
  BY ExecutionsAssumption DEF IInv, GateProbe, slots, AtGate, CanAttempt, Leads, ProbeTokenHeld,
     EpisodeShape, BackoffOwnsEpisode, ShieldedOK, Typed, AdmittingPlaces
<1>10. QED
  BY <1>1, <1>2, <1>3, <1>4, <1>5, <1>6, <1>7, <1>8, <1>9 DEF IInv

\* Taking leadership with the backoff still running claims no probe.
LEMMA GateBackoffStep ==
    ASSUME IInv, NEW e \in Executions, GateBackoff(e)
    PROVE  IInv'
<1>1. Typed'
  BY DEF IInv, GateBackoff, slots, AtGate, CanAttempt, Leads, Typed, Places, States
<1>2. QueueIsSuspended'
  BY DEF IInv, GateBackoff, slots, AtGate, CanAttempt, Leads, QueueIsSuspended, Typed
<1>3. EpisodeShape'
  BY ExecutionsAssumption DEF IInv, GateBackoff, slots, AtGate, CanAttempt, Leads, EpisodeShape,
     Typed, BackoffOwnsEpisode, AdmittingOK
<1>4. SingleProbe'
  BY DEF IInv, GateBackoff, slots, AtGate, CanAttempt, Leads, SingleProbe, EpisodeShape, Typed,
     AdmittingPlaces, PermitIsCurrent, MatchingProbe, ShieldedOK
<1>5. FollowersAreLed'
  BY ExecutionsAssumption DEF IInv, GateBackoff, slots, AtGate, CanAttempt, Leads,
     FollowersAreLed, EpisodeShape, Typed
<1>6. BackoffOwnsEpisode'
  BY ExecutionsAssumption DEF IInv, GateBackoff, slots, AtGate, CanAttempt, Leads,
     BackoffOwnsEpisode, EpisodeShape, Typed, ShieldedOK
<1>7. AdmittingOK'
  BY ExecutionsAssumption DEF IInv, GateBackoff, slots, AtGate, CanAttempt, Leads, AdmittingOK,
     SingleProbe, BackoffOwnsEpisode, FollowersAreLed, EpisodeShape, Typed, AdmittingPlaces,
     PermitIsCurrent, MatchingProbe
<1>8. ShieldedOK'
  BY DEF IInv, GateBackoff, slots, AtGate, CanAttempt, Leads, ShieldedOK, Typed
<1>9. ProbeTokenHeld'
  BY ExecutionsAssumption DEF IInv, GateBackoff, slots, AtGate, CanAttempt, Leads,
     ProbeTokenHeld, EpisodeShape, BackoffOwnsEpisode, ShieldedOK, Typed, AdmittingPlaces
<1>10. QED
  BY <1>1, <1>2, <1>3, <1>4, <1>5, <1>6, <1>7, <1>8, <1>9 DEF IInv

\* A follower is registered with a led episode before it sleeps.
LEMMA GateFollowStep ==
    ASSUME IInv, NEW e \in Executions, GateFollow(e)
    PROVE  IInv'
<1>1. Typed'
  BY DEF IInv, GateFollow, slots, AtGate, CanAttempt, WithWaiter, Typed, Places, States
<1>2. QueueIsSuspended'
  BY DEF IInv, GateFollow, slots, AtGate, CanAttempt, WithWaiter, QueueIsSuspended, Typed
<1>3. EpisodeShape'
  BY ExecutionsAssumption DEF IInv, GateFollow, slots, AtGate, CanAttempt, WithWaiter,
     EpisodeShape, Typed, BackoffOwnsEpisode, AdmittingOK
<1>4. SingleProbe'
  BY DEF IInv, GateFollow, slots, AtGate, CanAttempt, WithWaiter, SingleProbe, EpisodeShape,
     Typed, AdmittingPlaces, PermitIsCurrent, MatchingProbe, ShieldedOK
<1>5. FollowersAreLed'
  BY ExecutionsAssumption DEF IInv, GateFollow, slots, AtGate, CanAttempt, WithWaiter,
     FollowersAreLed, EpisodeShape, Typed
<1>6. BackoffOwnsEpisode'
  BY ExecutionsAssumption DEF IInv, GateFollow, slots, AtGate, CanAttempt, WithWaiter,
     BackoffOwnsEpisode, EpisodeShape, Typed, ShieldedOK
<1>7. AdmittingOK'
  BY ExecutionsAssumption DEF IInv, GateFollow, slots, AtGate, CanAttempt, WithWaiter,
     AdmittingOK, SingleProbe, BackoffOwnsEpisode, FollowersAreLed, EpisodeShape, Typed,
     AdmittingPlaces, PermitIsCurrent, MatchingProbe
<1>8. ShieldedOK'
  BY DEF IInv, GateFollow, slots, AtGate, CanAttempt, WithWaiter, ShieldedOK, Typed
<1>9. ProbeTokenHeld'
  BY ExecutionsAssumption DEF IInv, GateFollow, slots, AtGate, CanAttempt, WithWaiter,
     ProbeTokenHeld, EpisodeShape, BackoffOwnsEpisode, ShieldedOK, Typed, AdmittingPlaces
<1>10. QED
  BY <1>1, <1>2, <1>3, <1>4, <1>5, <1>6, <1>7, <1>8, <1>9 DEF IInv

\* The leader whose backoff ended claims the probe of its own episode.
LEMMA BackoffEndsStep ==
    ASSUME IInv, NEW e \in Executions, BackoffEnds(e)
    PROVE  IInv'
<1>1. Typed'
  BY DEF IInv, BackoffEnds, slots, Typed, Places, States
<1>2. QueueIsSuspended'
  BY DEF IInv, BackoffEnds, slots, QueueIsSuspended, Typed
<1>3. EpisodeShape'
  BY ExecutionsAssumption DEF IInv, BackoffEnds, slots, EpisodeShape, Typed, BackoffOwnsEpisode,
     AdmittingOK
<1>4. SingleProbe'
  BY DEF IInv, BackoffEnds, slots, SingleProbe, EpisodeShape, Typed, AdmittingPlaces,
     PermitIsCurrent, MatchingProbe, ShieldedOK
<1>5. FollowersAreLed'
  BY ExecutionsAssumption DEF IInv, BackoffEnds, slots, FollowersAreLed, EpisodeShape, Typed
<1>6. BackoffOwnsEpisode'
  BY ExecutionsAssumption DEF IInv, BackoffEnds, slots, BackoffOwnsEpisode, EpisodeShape, Typed,
     ShieldedOK
<1>7. AdmittingOK'
  BY ExecutionsAssumption DEF IInv, BackoffEnds, slots, AdmittingOK, SingleProbe,
     BackoffOwnsEpisode, FollowersAreLed, EpisodeShape, Typed, AdmittingPlaces, CanAttempt,
     PermitIsCurrent, MatchingProbe
<1>8. ShieldedOK'
  BY DEF IInv, BackoffEnds, slots, ShieldedOK, Typed
<1>9. ProbeTokenHeld'
  BY ExecutionsAssumption DEF IInv, BackoffEnds, slots, ProbeTokenHeld, EpisodeShape,
     BackoffOwnsEpisode, ShieldedOK, Typed, AdmittingPlaces
<1>10. QED
  BY <1>1, <1>2, <1>3, <1>4, <1>5, <1>6, <1>7, <1>8, <1>9 DEF IInv

\* Only a normal permit can be stale at the quota.
LEMMA QuotaStaleStep ==
    ASSUME IInv, NEW e \in Executions, QuotaStale(e)
    PROVE  IInv'
<1>1. Typed'
  BY DEF IInv, QuotaStale, episode, slots, MatchingProbe, VacateProbe, Notified,
       Typed, Places, States
<1>2. QueueIsSuspended'
  <2>1. queue' = queue
    BY DEF QuotaStale, slots
  <2>2. \A x \in Executions : pc'[x] = "slot" <=> pc[x] = "slot"
    BY DEF QuotaStale, IInv, Typed, Notified, VacateProbe
  <2>3. QED
    BY <2>1, <2>2, QueueStays DEF IInv
<1>3. EpisodeShape'
  BY ExecutionsAssumption DEF IInv, QuotaStale, episode, slots, MatchingProbe,
       VacateProbe, Notified, EpisodeShape, Typed, BackoffOwnsEpisode, AdmittingOK
<1>4. SingleProbe'
  BY DEF IInv, QuotaStale, episode, slots, MatchingProbe, VacateProbe, Notified,
       SingleProbe, EpisodeShape, Typed, AdmittingPlaces, PermitIsCurrent, ShieldedOK
<1>5. FollowersAreLed'
  BY ExecutionsAssumption DEF IInv, QuotaStale, episode, slots, MatchingProbe,
       VacateProbe, Notified, FollowersAreLed, EpisodeShape, Typed
<1>6. BackoffOwnsEpisode'
  BY ExecutionsAssumption DEF IInv, QuotaStale, episode, slots, MatchingProbe,
       VacateProbe, Notified, BackoffOwnsEpisode, EpisodeShape, Typed, ShieldedOK
<1>7. AdmittingOK'
  BY ExecutionsAssumption DEF IInv, QuotaStale, episode, slots, MatchingProbe,
       VacateProbe, Notified, AdmittingOK, SingleProbe, BackoffOwnsEpisode,
       FollowersAreLed, EpisodeShape, Typed, AdmittingPlaces, CanAttempt,
       PermitIsCurrent
<1>8. ShieldedOK'
  BY DEF IInv, QuotaStale, episode, slots, MatchingProbe, VacateProbe, Notified,
       ShieldedOK, Typed
<1>9. ProbeTokenHeld'
  <2>1. CASE MatchingProbe(e, permit[e])
    BY <2>1 DEF QuotaStale, ProbeTokenHeld, VacateProbe
  <2>2. CASE ~MatchingProbe(e, permit[e])
    <3>1. probeActive => leader # e
      BY <2>2, OwnProbe DEF QuotaStale, AdmittingPlaces
    <3>2. pc' = [pc EXCEPT ![e] = "woken"] /\ UNCHANGED <<permit, episode, shielded>>
      BY <2>2 DEF QuotaStale
    <3>3. QED
      BY <3>1, <3>2 DEF ProbeTokenHeld, IInv, Typed, episode
  <2>3. QED
    BY <2>1, <2>2
<1>10. QED
  BY <1>1, <1>2, <1>3, <1>4, <1>5, <1>6, <1>7, <1>8, <1>9 DEF IInv

\* The attempt claimed keeps the permit it was admitted with.
LEMMA ClaimStep ==
    ASSUME IInv, NEW e \in Executions, Claim(e)
    PROVE  IInv'
<1>1. Typed'
  BY LimitsAssumption DEF IInv, Claim, episode, slots, PermitIsCurrent, MatchingProbe,
       AdmittingPlaces, CanAttempt, Typed, Places, States, AdmittingOK
<1>2. QueueIsSuspended'
  BY DEF IInv, Claim, episode, slots, PermitIsCurrent, MatchingProbe, QueueIsSuspended, Typed
<1>3. EpisodeShape'
  BY ExecutionsAssumption DEF IInv, Claim, episode, slots, PermitIsCurrent,
       MatchingProbe, AdmittingPlaces, CanAttempt, EpisodeShape, Typed,
       BackoffOwnsEpisode, AdmittingOK
<1>4. SingleProbe'
  BY DEF IInv, Claim, episode, slots, PermitIsCurrent, MatchingProbe, AdmittingPlaces,
     SingleProbe, EpisodeShape, Typed, ShieldedOK
<1>5. FollowersAreLed'
  BY ExecutionsAssumption DEF IInv, Claim, episode, slots, PermitIsCurrent, MatchingProbe,
     FollowersAreLed, EpisodeShape, Typed
<1>6. BackoffOwnsEpisode'
  BY ExecutionsAssumption DEF IInv, Claim, episode, slots, PermitIsCurrent, MatchingProbe,
     BackoffOwnsEpisode, EpisodeShape, Typed, ShieldedOK
<1>7. AdmittingOK'
  BY ExecutionsAssumption DEF IInv, Claim, episode, slots, PermitIsCurrent,
       MatchingProbe, AdmittingPlaces, CanAttempt, AdmittingOK, SingleProbe,
       BackoffOwnsEpisode, FollowersAreLed, EpisodeShape, Typed
<1>8. ShieldedOK'
  BY DEF IInv, Claim, episode, slots, PermitIsCurrent, MatchingProbe, ShieldedOK, Typed
<1>9. ProbeTokenHeld'
  BY ExecutionsAssumption DEF IInv, Claim, episode, slots, PermitIsCurrent, MatchingProbe,
     AdmittingPlaces, ProbeTokenHeld, EpisodeShape, BackoffOwnsEpisode, ShieldedOK, Typed
<1>10. QED
  BY <1>1, <1>2, <1>3, <1>4, <1>5, <1>6, <1>7, <1>8, <1>9 DEF IInv

\* A success closes the episode of its own probe and wakes every follower.
LEMMA AcceptStep ==
    ASSUME IInv, NEW e \in Executions, Accept(e)
    PROVE  IInv'
<1>1. Typed'
  BY DEF IInv, Accept, episode, slots, MatchingProbe, CloseEpisode, Notified, Typed,
       Places, States
<1>2. QueueIsSuspended'
  <2>1. queue' = queue
    BY DEF Accept, slots
  <2>2. \A x \in Executions : pc'[x] = "slot" <=> pc[x] = "slot"
    BY DEF Accept, IInv, Typed, Notified, CloseEpisode
  <2>3. QED
    BY <2>1, <2>2, QueueStays DEF IInv
<1>3. EpisodeShape'
  BY ExecutionsAssumption DEF IInv, Accept, episode, slots, MatchingProbe,
       CloseEpisode, Notified, EpisodeShape, Typed, BackoffOwnsEpisode, AdmittingOK
<1>4. SingleProbe'
  BY ZenonT(60) DEF IInv, Accept, episode, slots, MatchingProbe, CloseEpisode, Notified,
       SingleProbe, EpisodeShape, Typed, AdmittingPlaces, PermitIsCurrent, ShieldedOK
<1>5. FollowersAreLed'
  BY ExecutionsAssumption DEF IInv, Accept, episode, slots, MatchingProbe,
       CloseEpisode, Notified, FollowersAreLed, EpisodeShape, Typed
<1>6. BackoffOwnsEpisode'
  BY ExecutionsAssumption DEF IInv, Accept, episode, slots, MatchingProbe,
       CloseEpisode, Notified, BackoffOwnsEpisode, EpisodeShape, Typed, ShieldedOK
<1>7. AdmittingOK'
  BY ExecutionsAssumption DEF IInv, Accept, episode, slots, MatchingProbe,
       CloseEpisode, Notified, AdmittingOK, SingleProbe, BackoffOwnsEpisode,
       FollowersAreLed, EpisodeShape, Typed, AdmittingPlaces, CanAttempt,
       PermitIsCurrent
<1>8. ShieldedOK'
  BY DEF IInv, Accept, episode, slots, MatchingProbe, CloseEpisode, Notified,
       ShieldedOK, Typed
<1>9. ProbeTokenHeld'
  <2>1. CASE MatchingProbe(e, permit[e])
    BY <2>1 DEF Accept, ProbeTokenHeld, CloseEpisode
  <2>2. CASE ~MatchingProbe(e, permit[e])
    <3>1. probeActive => leader # e
      BY <2>2, OwnProbe DEF Accept, AdmittingPlaces
    <3>2. pc' = [pc EXCEPT ![e] = "accepted"] /\ UNCHANGED <<permit, episode, shielded>>
      BY <2>2 DEF Accept
    <3>3. QED
      BY <3>1, <3>2 DEF ProbeTokenHeld, IInv, Typed, episode
  <2>3. QED
    BY <2>1, <2>2
<1>10. QED
  BY <1>1, <1>2, <1>3, <1>4, <1>5, <1>6, <1>7, <1>8, <1>9 DEF IInv

\* A correction frees the probe for the same leader.
LEMMA CorrectStep ==
    ASSUME IInv, NEW e \in Executions, Correct(e)
    PROVE  IInv'
<1>1. Typed'
  BY DEF IInv, Correct, episode, slots, MatchingProbe, CanAttempt, Notified, Typed,
       Places, States
<1>2. QueueIsSuspended'
  <2>1. queue' = queue
    BY DEF Correct, slots
  <2>2. \A x \in Executions : pc'[x] = "slot" <=> pc[x] = "slot"
    BY DEF Correct, IInv, Typed, Notified
  <2>3. QED
    BY <2>1, <2>2, QueueStays DEF IInv
<1>3. EpisodeShape'
  BY ExecutionsAssumption DEF IInv, Correct, episode, slots, MatchingProbe,
       CanAttempt, Notified, EpisodeShape, Typed, BackoffOwnsEpisode, AdmittingOK
<1>4. SingleProbe'
  <2>1. CASE MatchingProbe(e, permit[e])
    BY <2>1 DEF IInv, Correct, episode, slots, MatchingProbe, CanAttempt, Notified,
         SingleProbe, EpisodeShape, Typed, AdmittingPlaces, PermitIsCurrent,
         ShieldedOK
  <2>2. CASE ~MatchingProbe(e, permit[e])
    BY <2>2 DEF IInv, Correct, episode, slots, MatchingProbe, CanAttempt, Notified,
         SingleProbe, EpisodeShape, Typed, AdmittingPlaces, PermitIsCurrent,
         ShieldedOK
  <2>3. QED
    BY <2>1, <2>2
<1>5. FollowersAreLed'
  BY ExecutionsAssumption DEF IInv, Correct, episode, slots, MatchingProbe,
       CanAttempt, Notified, FollowersAreLed, EpisodeShape, Typed
<1>6. BackoffOwnsEpisode'
  BY ExecutionsAssumption DEF IInv, Correct, episode, slots, MatchingProbe,
       CanAttempt, Notified, BackoffOwnsEpisode, EpisodeShape, Typed, ShieldedOK
<1>7. AdmittingOK'
  BY ExecutionsAssumption DEF IInv, Correct, episode, slots, MatchingProbe,
       CanAttempt, Notified, AdmittingOK, SingleProbe, BackoffOwnsEpisode,
       FollowersAreLed, EpisodeShape, Typed, AdmittingPlaces, PermitIsCurrent
<1>8. ShieldedOK'
  BY DEF IInv, Correct, episode, slots, MatchingProbe, CanAttempt, Notified,
       ShieldedOK, Typed
<1>9. ProbeTokenHeld'
  <2>1. CASE MatchingProbe(e, permit[e])
    BY <2>1 DEF Correct, ProbeTokenHeld
  <2>2. CASE ~MatchingProbe(e, permit[e])
    <3>1. probeActive => leader # e
      BY <2>2, OwnProbe DEF Correct, AdmittingPlaces
    <3>2. pc' = [pc EXCEPT ![e] = "settled"] /\ UNCHANGED <<permit, episode, shielded>>
      BY <2>2 DEF Correct
    <3>3. QED
      BY <3>1, <3>2 DEF ProbeTokenHeld, IInv, Typed, episode
  <2>3. QED
    BY <2>1, <2>2
<1>10. QED
  BY <1>1, <1>2, <1>3, <1>4, <1>5, <1>6, <1>7, <1>8, <1>9 DEF IInv

\* A final rejection closes the episode of its own probe.
LEMMA RejectStep ==
    ASSUME IInv, NEW e \in Executions, Reject(e)
    PROVE  IInv'
<1>1. Typed'
  BY DEF IInv, Reject, episode, slots, MatchingProbe, CloseEpisode, Notified, Ended,
       Typed, Places, States
<1>2. QueueIsSuspended'
  <2>1. queue' = queue
    BY DEF Reject, slots
  <2>2. \A x \in Executions : pc'[x] = "slot" <=> pc[x] = "slot"
    BY DEF Reject, IInv, Typed, Notified, CloseEpisode
  <2>3. QED
    BY <2>1, <2>2, QueueStays DEF IInv
<1>3. EpisodeShape'
  BY ExecutionsAssumption DEF IInv, Reject, episode, slots, MatchingProbe,
       CloseEpisode, Notified, Ended, EpisodeShape, Typed, BackoffOwnsEpisode,
       AdmittingOK
<1>4. SingleProbe'
  BY ZenonT(60) DEF IInv, Reject, episode, slots, MatchingProbe, CloseEpisode, Notified, Ended,
       SingleProbe, EpisodeShape, Typed, AdmittingPlaces, PermitIsCurrent, ShieldedOK
<1>5. FollowersAreLed'
  BY ExecutionsAssumption DEF IInv, Reject, episode, slots, MatchingProbe,
       CloseEpisode, Notified, Ended, FollowersAreLed, EpisodeShape, Typed
<1>6. BackoffOwnsEpisode'
  BY ExecutionsAssumption DEF IInv, Reject, episode, slots, MatchingProbe,
       CloseEpisode, Notified, Ended, BackoffOwnsEpisode, EpisodeShape, Typed,
       ShieldedOK
<1>7. AdmittingOK'
  BY ExecutionsAssumption DEF IInv, Reject, episode, slots, MatchingProbe,
       CloseEpisode, Notified, Ended, AdmittingOK, SingleProbe, BackoffOwnsEpisode,
       FollowersAreLed, EpisodeShape, Typed, AdmittingPlaces, CanAttempt,
       PermitIsCurrent
<1>8. ShieldedOK'
  BY DEF IInv, Reject, episode, slots, MatchingProbe, CloseEpisode, Notified, Ended,
       ShieldedOK, Typed
<1>9. ProbeTokenHeld'
  <2>1. CASE MatchingProbe(e, permit[e])
    BY <2>1 DEF Reject, ProbeTokenHeld, CloseEpisode
  <2>2. CASE ~MatchingProbe(e, permit[e])
    <3>1. probeActive => leader # e
      BY <2>2, OwnProbe DEF Reject, AdmittingPlaces
    <3>2. pc' = [pc EXCEPT ![e] = "settled"] /\ UNCHANGED <<permit, episode, shielded>>
      BY <2>2 DEF Reject
    <3>3. QED
      BY <3>1, <3>2 DEF ProbeTokenHeld, IInv, Typed, episode
  <2>3. QED
    BY <2>1, <2>2
<1>10. QED
  BY <1>1, <1>2, <1>3, <1>4, <1>5, <1>6, <1>7, <1>8, <1>9 DEF IInv

\* A call cancelled in flight leaves its token to the shielded task.
LEMMA CancelOpenStep ==
    ASSUME IInv, NEW e \in Executions, CancelOpen(e)
    PROVE  IInv'
<1>1. Typed'
  BY DEF IInv, CancelOpen, episode, slots, Typed, Places, States
<1>2. QueueIsSuspended'
  BY DEF IInv, CancelOpen, episode, slots, QueueIsSuspended, Typed
<1>3. EpisodeShape'
  BY ExecutionsAssumption DEF IInv, CancelOpen, episode, slots, EpisodeShape, Typed,
       BackoffOwnsEpisode, AdmittingOK
<1>4. SingleProbe'
  BY DEF IInv, CancelOpen, episode, slots, SingleProbe, EpisodeShape, Typed,
       AdmittingPlaces, PermitIsCurrent, MatchingProbe, ShieldedOK
<1>5. FollowersAreLed'
  BY ExecutionsAssumption DEF IInv, CancelOpen, episode, slots, FollowersAreLed,
       EpisodeShape, Typed
<1>6. BackoffOwnsEpisode'
  BY ExecutionsAssumption DEF IInv, CancelOpen, episode, slots, BackoffOwnsEpisode,
       EpisodeShape, Typed, ShieldedOK
<1>7. AdmittingOK'
  BY ExecutionsAssumption DEF IInv, CancelOpen, episode, slots, AdmittingOK,
       SingleProbe, BackoffOwnsEpisode, FollowersAreLed, EpisodeShape, Typed,
       AdmittingPlaces, CanAttempt, PermitIsCurrent, MatchingProbe
<1>8. ShieldedOK'
  BY DEF IInv, CancelOpen, episode, slots, ShieldedOK, Typed
<1>9. ProbeTokenHeld'
  BY ExecutionsAssumption DEF IInv, CancelOpen, episode, slots, ProbeTokenHeld,
       EpisodeShape, BackoffOwnsEpisode, ShieldedOK, Typed, AdmittingPlaces
<1>10. QED
  BY <1>1, <1>2, <1>3, <1>4, <1>5, <1>6, <1>7, <1>8, <1>9 DEF IInv

\* An operation that ends between attempts holds no token.
LEMMA GiveUpStep ==
    ASSUME IInv, NEW e \in Executions, GiveUp(e)
    PROVE  IInv'
<1>1. Typed'
  BY DEF IInv, GiveUp, episode, slots, Ended, Typed, Places, States
<1>2. QueueIsSuspended'
  BY DEF IInv, GiveUp, episode, slots, Ended, QueueIsSuspended, Typed
<1>3. EpisodeShape'
  BY ExecutionsAssumption DEF IInv, GiveUp, episode, slots, Ended, EpisodeShape,
       Typed, BackoffOwnsEpisode, AdmittingOK
<1>4. SingleProbe'
  BY DEF IInv, GiveUp, episode, slots, Ended, SingleProbe, EpisodeShape, Typed,
       AdmittingPlaces, PermitIsCurrent, MatchingProbe, ShieldedOK
<1>5. FollowersAreLed'
  BY ExecutionsAssumption DEF IInv, GiveUp, episode, slots, Ended, FollowersAreLed,
       EpisodeShape, Typed
<1>6. BackoffOwnsEpisode'
  BY ExecutionsAssumption DEF IInv, GiveUp, episode, slots, Ended, BackoffOwnsEpisode,
       EpisodeShape, Typed, ShieldedOK
<1>7. AdmittingOK'
  BY ExecutionsAssumption DEF IInv, GiveUp, episode, slots, Ended, AdmittingOK,
       SingleProbe, BackoffOwnsEpisode, FollowersAreLed, EpisodeShape, Typed,
       AdmittingPlaces, CanAttempt, PermitIsCurrent, MatchingProbe
<1>8. ShieldedOK'
  BY DEF IInv, GiveUp, episode, slots, Ended, ShieldedOK, Typed
<1>9. ProbeTokenHeld'
  BY ExecutionsAssumption DEF IInv, GiveUp, episode, slots, Ended, ProbeTokenHeld,
       EpisodeShape, BackoffOwnsEpisode, ShieldedOK, Typed, AdmittingPlaces
<1>10. QED
  BY <1>1, <1>2, <1>3, <1>4, <1>5, <1>6, <1>7, <1>8, <1>9 DEF IInv

\* A cancelled follower leaves no trace but its dropped registration.
LEMMA CancelFollowerStep ==
    ASSUME IInv, NEW e \in Executions, CancelFollower(e)
    PROVE  IInv'
<1>1. Typed'
  BY DEF IInv, CancelFollower, slots, Ended, Typed, Places, States
<1>2. QueueIsSuspended'
  BY DEF IInv, CancelFollower, slots, Ended, QueueIsSuspended, Typed
<1>3. EpisodeShape'
  BY ExecutionsAssumption DEF IInv, CancelFollower, slots, Ended, EpisodeShape, Typed,
     BackoffOwnsEpisode, AdmittingOK
<1>4. SingleProbe'
  BY DEF IInv, CancelFollower, slots, Ended, SingleProbe, EpisodeShape, Typed, AdmittingPlaces,
     PermitIsCurrent, MatchingProbe, ShieldedOK
<1>5. FollowersAreLed'
  BY ExecutionsAssumption DEF IInv, CancelFollower, slots, Ended, FollowersAreLed, EpisodeShape,
     Typed
<1>6. BackoffOwnsEpisode'
  BY ExecutionsAssumption DEF IInv, CancelFollower, slots, Ended, BackoffOwnsEpisode,
     EpisodeShape, Typed, ShieldedOK
<1>7. AdmittingOK'
  BY ExecutionsAssumption DEF IInv, CancelFollower, slots, Ended, AdmittingOK, SingleProbe,
     BackoffOwnsEpisode, FollowersAreLed, EpisodeShape, Typed, AdmittingPlaces, CanAttempt,
     PermitIsCurrent, MatchingProbe
<1>8. ShieldedOK'
  BY DEF IInv, CancelFollower, slots, Ended, ShieldedOK, Typed
<1>9. ProbeTokenHeld'
  BY ExecutionsAssumption DEF IInv, CancelFollower, slots, Ended, ProbeTokenHeld, EpisodeShape,
     BackoffOwnsEpisode, ShieldedOK, Typed, AdmittingPlaces
<1>10. QED
  BY <1>1, <1>2, <1>3, <1>4, <1>5, <1>6, <1>7, <1>8, <1>9 DEF IInv

\* A cancelled sleeping leader vacates an episode that is not probing.
LEMMA CancelBackoffStep ==
    ASSUME IInv, NEW e \in Executions, CancelBackoff(e)
    PROVE  IInv'
<1>1. Typed'
  BY DEF IInv, CancelBackoff, episode, slots, Ended, Notified, Typed, Places, States
<1>2. QueueIsSuspended'
  <2>1. queue' = queue
    BY DEF CancelBackoff, slots
  <2>2. \A x \in Executions : pc'[x] = "slot" <=> pc[x] = "slot"
    BY DEF CancelBackoff, IInv, Typed, Notified
  <2>3. QED
    BY <2>1, <2>2, QueueStays DEF IInv
<1>3. EpisodeShape'
  BY ExecutionsAssumption DEF IInv, CancelBackoff, episode, slots, Ended, Notified,
       EpisodeShape, Typed, BackoffOwnsEpisode, AdmittingOK
<1>4. SingleProbe'
  BY DEF IInv, CancelBackoff, episode, slots, Ended, Notified, SingleProbe,
       EpisodeShape, Typed, AdmittingPlaces, PermitIsCurrent, MatchingProbe,
       ShieldedOK
<1>5. FollowersAreLed'
  BY ExecutionsAssumption DEF IInv, CancelBackoff, episode, slots, Ended, Notified,
       FollowersAreLed, EpisodeShape, Typed
<1>6. BackoffOwnsEpisode'
  BY ExecutionsAssumption DEF IInv, CancelBackoff, episode, slots, Ended, Notified,
       BackoffOwnsEpisode, EpisodeShape, Typed, ShieldedOK
<1>7. AdmittingOK'
  BY ExecutionsAssumption DEF IInv, CancelBackoff, episode, slots, Ended, Notified,
       AdmittingOK, SingleProbe, BackoffOwnsEpisode, FollowersAreLed, EpisodeShape,
       Typed, AdmittingPlaces, CanAttempt, PermitIsCurrent, MatchingProbe
<1>8. ShieldedOK'
  BY DEF IInv, CancelBackoff, episode, slots, Ended, Notified, ShieldedOK, Typed
<1>9. ProbeTokenHeld'
  BY ExecutionsAssumption DEF IInv, CancelBackoff, episode, slots, Ended, Notified,
       ProbeTokenHeld, EpisodeShape, BackoffOwnsEpisode, ShieldedOK, Typed,
       AdmittingPlaces
<1>10. QED
  BY <1>1, <1>2, <1>3, <1>4, <1>5, <1>6, <1>7, <1>8, <1>9 DEF IInv

\* The four outcomes of a retryable failure, one step each.
LEMMA FailRetryableStep ==
    ASSUME IInv, NEW e \in Executions, FailRetryable(e)
    PROVE  IInv'
<1>1. /\ pc[e] = "open" /\ pc' = Notified([pc EXCEPT ![e] = "settled"])
      /\ UNCHANGED <<attempts, permit, used, free, queue, shielded>>
  BY DEF FailRetryable, slots
<1>2. CASE phase = "none" /\ StartEpisode("recovering", e, FALSE, FALSE) /\ UNCHANGED execState
  <2>1. Typed'
    <3>1. pc' \in [Executions -> Places]
      BY <1>1, <1>2 DEF IInv, Typed, Places, Notified
    <3>2. execState' \in [Executions -> States]
      BY <1>1, <1>2 DEF IInv, Typed, States
    <3>3. /\ phase' \in {"recovering", "exhausted"} /\ generation' = generation + 1
          /\ leader' \in {e, NoOne} /\ waiters' = {}
          /\ probeActive' = FALSE /\ due' = FALSE
      BY <1>1, <1>2, Zenon DEF StartEpisode
    <3>4. phase' \in {"none", "recovering", "exhausted"} /\ generation' \in Nat
      BY <3>3 DEF IInv, Typed
    <3>5. leader' \in Executions \cup {NoOne} /\ waiters' \in SUBSET Executions
      BY <3>3
    <3>6. probeActive' \in BOOLEAN /\ due' \in BOOLEAN
      BY <3>3
    <3>7. QED
      BY <1>1, <3>1, <3>2, <3>4, <3>5, <3>6 DEF IInv, Typed
  <2>2. QueueIsSuspended'
    BY <1>1, <1>2 DEF IInv, Notified, StartEpisode, QueueIsSuspended, Typed
  <2>3. EpisodeShape'
    BY <1>1, <1>2, ExecutionsAssumption DEF IInv, Notified, StartEpisode,
         EpisodeShape, Typed, BackoffOwnsEpisode, AdmittingOK
  <2>4. SingleProbe'
    BY <1>1, <1>2 DEF IInv, Notified, StartEpisode, SingleProbe, EpisodeShape, Typed,
         AdmittingPlaces, PermitIsCurrent, MatchingProbe, ShieldedOK
  <2>5. FollowersAreLed'
    BY <1>1, <1>2, ExecutionsAssumption DEF IInv, Notified, StartEpisode,
         FollowersAreLed, EpisodeShape, Typed
  <2>6. BackoffOwnsEpisode'
    BY <1>1, <1>2, ExecutionsAssumption DEF IInv, Notified, StartEpisode,
         BackoffOwnsEpisode, EpisodeShape, Typed, ShieldedOK
  <2>7. AdmittingOK'
    BY <1>1, <1>2, ExecutionsAssumption DEF IInv, Notified, StartEpisode, AdmittingOK,
         SingleProbe, BackoffOwnsEpisode, FollowersAreLed, EpisodeShape, Typed,
         AdmittingPlaces, CanAttempt, PermitIsCurrent, MatchingProbe
  <2>8. ShieldedOK'
    BY <1>1, <1>2 DEF IInv, Notified, StartEpisode, ShieldedOK, Typed
  <2>9. ProbeTokenHeld'
    BY <1>1, <1>2, ExecutionsAssumption DEF IInv, Notified, StartEpisode,
         ProbeTokenHeld, EpisodeShape, BackoffOwnsEpisode, ShieldedOK, Typed,
         AdmittingPlaces
  <2>10. QED
    BY <2>1, <2>2, <2>3, <2>4, <2>5, <2>6, <2>7, <2>8, <2>9 DEF IInv
<1>3. CASE MatchingProbe(e, permit[e]) /\ probeActive' = FALSE /\ due' = FALSE
           /\ UNCHANGED <<execState, phase, generation, leader, waiters>>
  <2>1. Typed'
    BY <1>1, <1>3 DEF IInv, Notified, Typed, Places, States
  <2>2. QueueIsSuspended'
    BY <1>1, <1>3 DEF IInv, Notified, QueueIsSuspended, Typed
  <2>3. EpisodeShape'
    BY <1>1, <1>3, ExecutionsAssumption DEF IInv, Notified, EpisodeShape, Typed,
         BackoffOwnsEpisode, AdmittingOK
  <2>4. SingleProbe'
    BY <1>1, <1>3 DEF IInv, Notified, SingleProbe, EpisodeShape, Typed,
         AdmittingPlaces, PermitIsCurrent, MatchingProbe, ShieldedOK
  <2>5. FollowersAreLed'
    BY <1>1, <1>3, ExecutionsAssumption DEF IInv, Notified, FollowersAreLed,
         EpisodeShape, Typed
  <2>6. BackoffOwnsEpisode'
    BY <1>1, <1>3, ExecutionsAssumption DEF IInv, Notified, BackoffOwnsEpisode,
         EpisodeShape, Typed, ShieldedOK
  <2>7. AdmittingOK'
    BY <1>1, <1>3, ExecutionsAssumption DEF IInv, Notified, AdmittingOK, SingleProbe,
         BackoffOwnsEpisode, FollowersAreLed, EpisodeShape, Typed, AdmittingPlaces,
         CanAttempt, PermitIsCurrent, MatchingProbe
  <2>8. ShieldedOK'
    BY <1>1, <1>3 DEF IInv, Notified, ShieldedOK, Typed
  <2>9. ProbeTokenHeld'
    BY <1>1, <1>3, ExecutionsAssumption DEF IInv, Notified, ProbeTokenHeld,
         EpisodeShape, BackoffOwnsEpisode, ShieldedOK, Typed, AdmittingPlaces
  <2>10. QED
    BY <2>1, <2>2, <2>3, <2>4, <2>5, <2>6, <2>7, <2>8, <2>9 DEF IInv
<1>4. CASE phase = "exhausted" /\ execState' = Ended(e, "FAILED") /\ UNCHANGED episode
  <2>1. Typed'
    BY <1>1, <1>4 DEF IInv, Notified, Ended, episode, Typed, Places, States
  <2>2. QueueIsSuspended'
    BY <1>1, <1>4 DEF IInv, Notified, Ended, episode, QueueIsSuspended, Typed
  <2>3. EpisodeShape'
    BY <1>1, <1>4, ExecutionsAssumption DEF IInv, Notified, Ended, episode,
         EpisodeShape, Typed, BackoffOwnsEpisode, AdmittingOK
  <2>4. SingleProbe'
    BY <1>1, <1>4 DEF IInv, Notified, Ended, episode, SingleProbe, EpisodeShape,
         Typed, AdmittingPlaces, PermitIsCurrent, MatchingProbe, ShieldedOK
  <2>5. FollowersAreLed'
    BY <1>1, <1>4, ExecutionsAssumption DEF IInv, Notified, Ended, episode,
         FollowersAreLed, EpisodeShape, Typed
  <2>6. BackoffOwnsEpisode'
    BY <1>1, <1>4, ExecutionsAssumption DEF IInv, Notified, Ended, episode,
         BackoffOwnsEpisode, EpisodeShape, Typed, ShieldedOK
  <2>7. AdmittingOK'
    BY <1>1, <1>4, ExecutionsAssumption DEF IInv, Notified, Ended, episode,
         AdmittingOK, SingleProbe, BackoffOwnsEpisode, FollowersAreLed, EpisodeShape,
         Typed, AdmittingPlaces, CanAttempt, PermitIsCurrent, MatchingProbe
  <2>8. ShieldedOK'
    BY <1>1, <1>4 DEF IInv, Notified, Ended, episode, ShieldedOK, Typed
  <2>9. ProbeTokenHeld'
    BY <1>1, <1>4, ExecutionsAssumption DEF IInv, Notified, Ended, episode,
         ProbeTokenHeld, EpisodeShape, BackoffOwnsEpisode, ShieldedOK, Typed,
         AdmittingPlaces
  <2>10. QED
    BY <2>1, <2>2, <2>3, <2>4, <2>5, <2>6, <2>7, <2>8, <2>9 DEF IInv
<1>5. CASE phase = "recovering" /\ ~MatchingProbe(e, permit[e]) /\ waiters' = WithWaiter(e)
           /\ UNCHANGED <<execState, phase, generation, leader, probeActive, due>>
  <2>0. leader # e
    BY <1>1, <1>5, OwnProbe DEF IInv, AdmittingOK
  <2>1. Typed'
    BY <1>1, <1>5, <2>0 DEF IInv, Notified, WithWaiter, Typed, Places, States
  <2>2. QueueIsSuspended'
    BY <1>1, <1>5, <2>0 DEF IInv, Notified, WithWaiter, QueueIsSuspended, Typed
  <2>3. EpisodeShape'
    BY <1>1, <1>5, <2>0, ExecutionsAssumption DEF IInv, Notified, WithWaiter,
         EpisodeShape, Typed, BackoffOwnsEpisode, AdmittingOK
  <2>4. SingleProbe'
    BY <1>1, <1>5, <2>0 DEF IInv, Notified, WithWaiter, SingleProbe, EpisodeShape,
         Typed, AdmittingPlaces, PermitIsCurrent, MatchingProbe, ShieldedOK
  <2>5. FollowersAreLed'
    BY <1>1, <1>5, <2>0, ExecutionsAssumption DEF IInv, Notified, WithWaiter,
         FollowersAreLed, EpisodeShape, Typed
  <2>6. BackoffOwnsEpisode'
    BY <1>1, <1>5, <2>0, ExecutionsAssumption DEF IInv, Notified, WithWaiter,
         BackoffOwnsEpisode, EpisodeShape, Typed, ShieldedOK
  <2>7. AdmittingOK'
    BY <1>1, <1>5, <2>0, ExecutionsAssumption DEF IInv, Notified, WithWaiter,
         AdmittingOK, SingleProbe, BackoffOwnsEpisode, FollowersAreLed, EpisodeShape,
         Typed, AdmittingPlaces, CanAttempt, PermitIsCurrent, MatchingProbe
  <2>8. ShieldedOK'
    BY <1>1, <1>5, <2>0 DEF IInv, Notified, WithWaiter, ShieldedOK, Typed
  <2>9. ProbeTokenHeld'
    BY <1>1, <1>5, <2>0, ExecutionsAssumption DEF IInv, Notified, WithWaiter,
         ProbeTokenHeld, EpisodeShape, BackoffOwnsEpisode, ShieldedOK, Typed,
         AdmittingPlaces
  <2>10. QED
    BY <2>1, <2>2, <2>3, <2>4, <2>5, <2>6, <2>7, <2>8, <2>9 DEF IInv
<1>6. QED
  BY <1>2, <1>3, <1>4, <1>5 DEF FailRetryable

\* The last failure exhausts the episode only as its probe.
LEMMA FailLastStep ==
    ASSUME IInv, NEW e \in Executions, FailLast(e)
    PROVE  IInv'
<1>1. /\ pc[e] = "open"
      /\ UNCHANGED <<attempts, permit, used, free, queue, shielded>>
  BY DEF FailLast, slots
<1>2. CASE phase = "none" /\ StartEpisode("exhausted", NoOne, FALSE, FALSE)
           /\ execState' = Ended(e, "FAILED")
           /\ pc' = Notified([pc EXCEPT ![e] = "settled"])
  <2>1. Typed'
    <3>1. pc' \in [Executions -> Places]
      BY <1>1, <1>2 DEF IInv, Typed, Places, Notified
    <3>2. execState' \in [Executions -> States]
      BY <1>1, <1>2 DEF IInv, Typed, States, Ended
    <3>3. /\ phase' \in {"recovering", "exhausted"} /\ generation' = generation + 1
          /\ leader' \in {e, NoOne} /\ waiters' = {}
          /\ probeActive' = FALSE /\ due' = FALSE
      BY <1>1, <1>2, Zenon DEF StartEpisode
    <3>4. phase' \in {"none", "recovering", "exhausted"} /\ generation' \in Nat
      BY <3>3 DEF IInv, Typed
    <3>5. leader' \in Executions \cup {NoOne} /\ waiters' \in SUBSET Executions
      BY <3>3
    <3>6. probeActive' \in BOOLEAN /\ due' \in BOOLEAN
      BY <3>3
    <3>7. QED
      BY <1>1, <3>1, <3>2, <3>4, <3>5, <3>6 DEF IInv, Typed
  <2>2. QueueIsSuspended'
    BY <1>1, <1>2 DEF IInv, Notified, StartEpisode, Ended, QueueIsSuspended, Typed
  <2>3. EpisodeShape'
    BY <1>1, <1>2, ExecutionsAssumption DEF IInv, Notified, StartEpisode, Ended,
         EpisodeShape, Typed, BackoffOwnsEpisode, AdmittingOK
  <2>4. SingleProbe'
    BY <1>1, <1>2 DEF IInv, Notified, StartEpisode, Ended, SingleProbe, EpisodeShape,
         Typed, AdmittingPlaces, PermitIsCurrent, MatchingProbe, ShieldedOK
  <2>5. FollowersAreLed'
    BY <1>1, <1>2, ExecutionsAssumption DEF IInv, Notified, StartEpisode, Ended,
         FollowersAreLed, EpisodeShape, Typed
  <2>6. BackoffOwnsEpisode'
    BY <1>1, <1>2, ExecutionsAssumption DEF IInv, Notified, StartEpisode, Ended,
         BackoffOwnsEpisode, EpisodeShape, Typed, ShieldedOK
  <2>7. AdmittingOK'
    BY <1>1, <1>2, ExecutionsAssumption DEF IInv, Notified, StartEpisode, Ended,
         AdmittingOK, SingleProbe, BackoffOwnsEpisode, FollowersAreLed, EpisodeShape,
         Typed, AdmittingPlaces, CanAttempt, PermitIsCurrent, MatchingProbe
  <2>8. ShieldedOK'
    BY <1>1, <1>2 DEF IInv, Notified, StartEpisode, Ended, ShieldedOK, Typed
  <2>9. ProbeTokenHeld'
    BY <1>1, <1>2, ExecutionsAssumption DEF IInv, Notified, StartEpisode, Ended,
         ProbeTokenHeld, EpisodeShape, BackoffOwnsEpisode, ShieldedOK, Typed,
         AdmittingPlaces
  <2>10. QED
    BY <2>1, <2>2, <2>3, <2>4, <2>5, <2>6, <2>7, <2>8, <2>9 DEF IInv
<1>3. CASE /\ MatchingProbe(e, permit[e])
           /\ phase' = "exhausted" /\ leader' = NoOne /\ waiters' = {}
           /\ probeActive' = FALSE /\ due' = FALSE /\ UNCHANGED generation
           /\ execState' = [x \in Executions |->
                  IF x \in waiters \cup {e} /\ execState[x] = "ACTIVE"
                  THEN "FAILED" ELSE execState[x]]
           /\ pc' = Notified([pc EXCEPT ![e] = "settled"])
  <2>1. Typed'
    BY <1>1, <1>3 DEF IInv, Notified, MatchingProbe, Typed, Places, States
  <2>2. QueueIsSuspended'
    BY <1>1, <1>3 DEF IInv, Notified, MatchingProbe, QueueIsSuspended, Typed
  <2>3. EpisodeShape'
    BY <1>1, <1>3, ExecutionsAssumption DEF IInv, Notified, MatchingProbe,
         EpisodeShape, Typed, BackoffOwnsEpisode, AdmittingOK
  <2>4. SingleProbe'
    BY <1>1, <1>3 DEF IInv, Notified, MatchingProbe, SingleProbe, EpisodeShape, Typed,
         AdmittingPlaces, PermitIsCurrent, ShieldedOK
  <2>5. FollowersAreLed'
    BY <1>1, <1>3, ExecutionsAssumption DEF IInv, Notified, MatchingProbe,
         FollowersAreLed, EpisodeShape, Typed
  <2>6. BackoffOwnsEpisode'
    BY <1>1, <1>3, ExecutionsAssumption DEF IInv, Notified, MatchingProbe,
         BackoffOwnsEpisode, EpisodeShape, Typed, ShieldedOK
  <2>7. AdmittingOK'
    BY <1>1, <1>3, ExecutionsAssumption DEF IInv, Notified, MatchingProbe,
         AdmittingOK, SingleProbe, BackoffOwnsEpisode, FollowersAreLed, EpisodeShape,
         Typed, AdmittingPlaces, CanAttempt, PermitIsCurrent
  <2>8. ShieldedOK'
    BY <1>1, <1>3 DEF IInv, Notified, MatchingProbe, ShieldedOK, Typed
  <2>9. ProbeTokenHeld'
    BY <1>1, <1>3, ExecutionsAssumption DEF IInv, Notified, MatchingProbe,
         ProbeTokenHeld, EpisodeShape, BackoffOwnsEpisode, ShieldedOK, Typed,
         AdmittingPlaces
  <2>10. QED
    BY <2>1, <2>2, <2>3, <2>4, <2>5, <2>6, <2>7, <2>8, <2>9 DEF IInv
<1>4. CASE ~MatchingProbe(e, permit[e]) /\ execState' = Ended(e, "FAILED")
           /\ pc' = [pc EXCEPT ![e] = "settled"] /\ UNCHANGED episode
  <2>0. probeActive => leader # e
    BY <1>1, <1>4, OwnProbe
  <2>1. Typed'
    BY <1>1, <1>4, <2>0 DEF IInv, Ended, episode, Typed, Places, States
  <2>2. QueueIsSuspended'
    BY <1>1, <1>4, <2>0 DEF IInv, Ended, episode, QueueIsSuspended, Typed
  <2>3. EpisodeShape'
    BY <1>1, <1>4, <2>0, ExecutionsAssumption DEF IInv, Ended, episode, EpisodeShape, Typed,
       BackoffOwnsEpisode, AdmittingOK
  <2>4. SingleProbe'
    BY <1>1, <1>4, <2>0 DEF IInv, Ended, episode, SingleProbe, EpisodeShape, Typed,
       AdmittingPlaces, PermitIsCurrent, MatchingProbe, ShieldedOK
  <2>5. FollowersAreLed'
    BY <1>1, <1>4, <2>0, ExecutionsAssumption DEF IInv, Ended, episode, FollowersAreLed,
       EpisodeShape, Typed
  <2>6. BackoffOwnsEpisode'
    BY <1>1, <1>4, <2>0, ExecutionsAssumption DEF IInv, Ended, episode, BackoffOwnsEpisode,
       EpisodeShape, Typed, ShieldedOK
  <2>7. AdmittingOK'
    BY <1>1, <1>4, <2>0, ExecutionsAssumption DEF IInv, Ended, episode, AdmittingOK, SingleProbe,
       BackoffOwnsEpisode, FollowersAreLed, EpisodeShape, Typed, AdmittingPlaces, CanAttempt,
       PermitIsCurrent, MatchingProbe
  <2>8. ShieldedOK'
    BY <1>1, <1>4, <2>0 DEF IInv, Ended, episode, ShieldedOK, Typed
  <2>9. ProbeTokenHeld'
    BY <1>1, <1>4, <2>0, ExecutionsAssumption DEF IInv, Ended, episode, ProbeTokenHeld,
       EpisodeShape, BackoffOwnsEpisode, ShieldedOK, Typed, AdmittingPlaces
  <2>10. QED
    BY <2>1, <2>2, <2>3, <2>4, <2>5, <2>6, <2>7, <2>8, <2>9 DEF IInv
<1>5. QED
  BY <1>2, <1>3, <1>4 DEF FailLast

\* The shielded abandonment gives back at most its own token.
LEMMA AbandonProbeStep ==
    ASSUME IInv, NEW t \in shielded, AbandonProbe(t)
    PROVE  IInv'
<1>1. CASE MatchingProbe(t[1], t[2])
  <2>0. /\ t[1] \in Executions /\ leader = t[1] /\ phase = "recovering"
        /\ leader' = NoOne /\ probeActive' = FALSE /\ due' = TRUE
        /\ pc' = Notified(pc) /\ shielded' = shielded \ {t}
        /\ UNCHANGED <<execState, attempts, permit, phase, generation, waiters, used,
                       free, queue>>
    BY <1>1 DEF AbandonProbe, MatchingProbe, VacateProbe, slots, IInv, Typed, EpisodeShape
  <2>a. \A e \in Executions : pc[e] \in AdmittingPlaces \cup {"open", "backoff"} => leader # e
    BY <1>1, <2>0 DEF IInv, ShieldedOK, BackoffOwnsEpisode, MatchingProbe, AdmittingPlaces
  <2>1. Typed'
    BY <2>0, <2>a DEF IInv, Notified, Typed, Places, States
  <2>2. QueueIsSuspended'
    BY <2>0, <2>a DEF IInv, Notified, QueueIsSuspended, Typed
  <2>3. EpisodeShape'
    BY <2>0, <2>a, ExecutionsAssumption DEF IInv, Notified, EpisodeShape, Typed,
         BackoffOwnsEpisode, AdmittingOK
  <2>4. SingleProbe'
    BY <2>0, <2>a DEF IInv, Notified, SingleProbe, EpisodeShape, Typed,
         AdmittingPlaces, PermitIsCurrent, MatchingProbe, ShieldedOK
  <2>5. FollowersAreLed'
    BY <2>0, <2>a, ExecutionsAssumption DEF IInv, Notified, FollowersAreLed,
         EpisodeShape, Typed
  <2>6. BackoffOwnsEpisode'
    BY <2>0, <2>a, ExecutionsAssumption DEF IInv, Notified, BackoffOwnsEpisode,
         EpisodeShape, Typed, ShieldedOK
  <2>7. AdmittingOK'
    BY <2>0, <2>a, ExecutionsAssumption DEF IInv, Notified, AdmittingOK, SingleProbe,
         BackoffOwnsEpisode, FollowersAreLed, EpisodeShape, Typed, AdmittingPlaces,
         CanAttempt, PermitIsCurrent, MatchingProbe
  <2>8. ShieldedOK'
    BY <2>0, <2>a DEF IInv, Notified, ShieldedOK, Typed
  <2>9. ProbeTokenHeld'
    BY <2>0, <2>a, ExecutionsAssumption DEF IInv, Notified, ProbeTokenHeld,
         EpisodeShape, BackoffOwnsEpisode, ShieldedOK, Typed, AdmittingPlaces
  <2>10. QED
    BY <2>1, <2>2, <2>3, <2>4, <2>5, <2>6, <2>7, <2>8, <2>9 DEF IInv
<1>2. CASE ~MatchingProbe(t[1], t[2])
  <2>0. t # <<leader, generation>> \/ ~probeActive
    BY <1>2 DEF IInv, Typed, MatchingProbe, EpisodeShape
  <2>1. Typed'
    BY <1>2, <2>0 DEF IInv, AbandonProbe, slots, episode, Typed, Places, States
  <2>2. QueueIsSuspended'
    BY <1>2, <2>0 DEF IInv, AbandonProbe, slots, episode, QueueIsSuspended, Typed
  <2>3. EpisodeShape'
    BY <1>2, <2>0, ExecutionsAssumption DEF IInv, AbandonProbe, slots, episode,
         EpisodeShape, Typed, BackoffOwnsEpisode, AdmittingOK
  <2>4. SingleProbe'
    BY <1>2, <2>0 DEF IInv, AbandonProbe, slots, episode, SingleProbe, EpisodeShape,
         Typed, AdmittingPlaces, PermitIsCurrent, MatchingProbe, ShieldedOK
  <2>5. FollowersAreLed'
    BY <1>2, <2>0, ExecutionsAssumption DEF IInv, AbandonProbe, slots, episode,
         FollowersAreLed, EpisodeShape, Typed
  <2>6. BackoffOwnsEpisode'
    BY <1>2, <2>0, ExecutionsAssumption DEF IInv, AbandonProbe, slots, episode,
         BackoffOwnsEpisode, EpisodeShape, Typed, ShieldedOK
  <2>7. AdmittingOK'
    BY <1>2, <2>0, ExecutionsAssumption DEF IInv, AbandonProbe, slots, episode,
         AdmittingOK, SingleProbe, BackoffOwnsEpisode, FollowersAreLed, EpisodeShape,
         Typed, AdmittingPlaces, CanAttempt, PermitIsCurrent, MatchingProbe
  <2>8. ShieldedOK'
    BY <1>2, <2>0 DEF IInv, AbandonProbe, slots, episode, ShieldedOK, Typed
  <2>9. ProbeTokenHeld'
    BY <1>2, <2>0, ExecutionsAssumption DEF IInv, AbandonProbe, slots, episode,
         ProbeTokenHeld, EpisodeShape, BackoffOwnsEpisode, ShieldedOK, Typed,
         AdmittingPlaces
  <2>10. QED
    BY <2>1, <2>2, <2>3, <2>4, <2>5, <2>6, <2>7, <2>8, <2>9 DEF IInv
<1>3. QED
  BY <1>1, <1>2

\* Time changes no ownership.
LEMMA TimeStep ==
    ASSUME IInv, Elapse \/ Slide
    PROVE  IInv'
<1>1. CASE Elapse
  <2>1. Typed'
    BY <1>1 DEF IInv, Elapse, slots, Typed, Places, States
  <2>2. QueueIsSuspended'
    BY <1>1 DEF IInv, Elapse, slots, QueueIsSuspended, Typed
  <2>3. EpisodeShape'
    BY <1>1, ExecutionsAssumption DEF IInv, Elapse, slots, EpisodeShape, Typed,
         BackoffOwnsEpisode, AdmittingOK
  <2>4. SingleProbe'
    BY <1>1 DEF IInv, Elapse, slots, SingleProbe, EpisodeShape, Typed,
         AdmittingPlaces, PermitIsCurrent, MatchingProbe, ShieldedOK
  <2>5. FollowersAreLed'
    BY <1>1, ExecutionsAssumption DEF IInv, Elapse, slots, FollowersAreLed,
         EpisodeShape, Typed
  <2>6. BackoffOwnsEpisode'
    BY <1>1, ExecutionsAssumption DEF IInv, Elapse, slots, BackoffOwnsEpisode,
         EpisodeShape, Typed, ShieldedOK
  <2>7. AdmittingOK'
    BY <1>1, ExecutionsAssumption DEF IInv, Elapse, slots, AdmittingOK, SingleProbe,
         BackoffOwnsEpisode, FollowersAreLed, EpisodeShape, Typed, AdmittingPlaces,
         CanAttempt, PermitIsCurrent, MatchingProbe
  <2>8. ShieldedOK'
    BY <1>1 DEF IInv, Elapse, slots, ShieldedOK, Typed
  <2>9. ProbeTokenHeld'
    BY <1>1, ExecutionsAssumption DEF IInv, Elapse, slots, ProbeTokenHeld,
         EpisodeShape, BackoffOwnsEpisode, ShieldedOK, Typed, AdmittingPlaces
  <2>10. QED
    BY <2>1, <2>2, <2>3, <2>4, <2>5, <2>6, <2>7, <2>8, <2>9 DEF IInv
<1>2. CASE Slide
  <2>1. Typed'
    BY <1>2, LimitsAssumption DEF IInv, Slide, slots, episode, Typed, Places, States
  <2>2. QueueIsSuspended'
    BY <1>2, LimitsAssumption DEF IInv, Slide, slots, episode, QueueIsSuspended, Typed
  <2>3. EpisodeShape'
    BY <1>2, LimitsAssumption, ExecutionsAssumption DEF IInv, Slide, slots, episode,
         EpisodeShape, Typed, BackoffOwnsEpisode, AdmittingOK
  <2>4. SingleProbe'
    BY <1>2, LimitsAssumption DEF IInv, Slide, slots, episode, SingleProbe,
         EpisodeShape, Typed, AdmittingPlaces, PermitIsCurrent, MatchingProbe,
         ShieldedOK
  <2>5. FollowersAreLed'
    BY <1>2, LimitsAssumption, ExecutionsAssumption DEF IInv, Slide, slots, episode,
         FollowersAreLed, EpisodeShape, Typed
  <2>6. BackoffOwnsEpisode'
    BY <1>2, LimitsAssumption, ExecutionsAssumption DEF IInv, Slide, slots, episode,
         BackoffOwnsEpisode, EpisodeShape, Typed, ShieldedOK
  <2>7. AdmittingOK'
    BY <1>2, LimitsAssumption, ExecutionsAssumption DEF IInv, Slide, slots, episode,
         AdmittingOK, SingleProbe, BackoffOwnsEpisode, FollowersAreLed, EpisodeShape,
         Typed, AdmittingPlaces, CanAttempt, PermitIsCurrent, MatchingProbe
  <2>8. ShieldedOK'
    BY <1>2, LimitsAssumption DEF IInv, Slide, slots, episode, ShieldedOK, Typed
  <2>9. ProbeTokenHeld'
    BY <1>2, LimitsAssumption, ExecutionsAssumption DEF IInv, Slide, slots, episode,
         ProbeTokenHeld, EpisodeShape, BackoffOwnsEpisode, ShieldedOK, Typed,
         AdmittingPlaces
  <2>10. QED
    BY <2>1, <2>2, <2>3, <2>4, <2>5, <2>6, <2>7, <2>8, <2>9 DEF IInv
<1>3. QED
  BY <1>1, <1>2

\* Passing the quota keeps the permit current, with or without a free slot.
LEMMA TakeQuotaStep ==
    ASSUME IInv, NEW e \in Executions, TakeQuota(e)
    PROVE  IInv'
<1>1. CASE free > 0
  <2>0. /\ pc[e] = "rate" /\ pc' = [pc EXCEPT ![e] = "granted"]
        /\ UNCHANGED <<execState, attempts, permit, phase, generation, leader, waiters,
                       probeActive, due, queue, shielded>>
    BY <1>1 DEF TakeQuota, episode
  <2>a. used' \in 0..RateLimit /\ free' \in Nat
    BY <1>1, LimitsAssumption DEF TakeQuota, IInv, Typed
  <2>1. Typed'
    BY <2>0, <2>a DEF IInv, Typed, Places, States
  <2>2. QueueIsSuspended'
    BY <2>0, <2>a DEF IInv, QueueIsSuspended, Typed
  <2>3. EpisodeShape'
    BY <2>0, <2>a, ExecutionsAssumption DEF IInv, EpisodeShape, Typed,
         BackoffOwnsEpisode, AdmittingOK
  <2>4. SingleProbe'
    BY <2>0, <2>a DEF IInv, SingleProbe, EpisodeShape, Typed, AdmittingPlaces,
         PermitIsCurrent, MatchingProbe, ShieldedOK
  <2>5. FollowersAreLed'
    BY <2>0, <2>a, ExecutionsAssumption DEF IInv, FollowersAreLed, EpisodeShape, Typed
  <2>6. BackoffOwnsEpisode'
    BY <2>0, <2>a, ExecutionsAssumption DEF IInv, BackoffOwnsEpisode, EpisodeShape,
         Typed, ShieldedOK
  <2>7. AdmittingOK'
    BY <2>0, <2>a, ExecutionsAssumption DEF IInv, AdmittingOK, SingleProbe,
         BackoffOwnsEpisode, FollowersAreLed, EpisodeShape, Typed, AdmittingPlaces,
         CanAttempt, PermitIsCurrent, MatchingProbe
  <2>8. ShieldedOK'
    BY <2>0, <2>a DEF IInv, ShieldedOK, Typed
  <2>9. ProbeTokenHeld'
    BY <2>0, <2>a, ExecutionsAssumption DEF IInv, ProbeTokenHeld, EpisodeShape,
         BackoffOwnsEpisode, ShieldedOK, Typed, AdmittingPlaces
  <2>10. QED
    BY <2>1, <2>2, <2>3, <2>4, <2>5, <2>6, <2>7, <2>8, <2>9 DEF IInv
<1>2. CASE ~(free > 0)
  <2>0. /\ pc[e] = "rate" /\ pc' = [pc EXCEPT ![e] = "slot"] /\ queue' = Append(queue, e)
        /\ UNCHANGED <<execState, attempts, permit, phase, generation, leader, waiters,
                       probeActive, due, free, shielded>>
        /\ used' \in 0..RateLimit
    BY <1>2, LimitsAssumption DEF TakeQuota, episode, IInv, Typed
  <2>a. queue' \in Seq(Executions) /\ QueueIsSuspended'
    BY <2>0, JoinQueueEffect DEF IInv
  <2>1. Typed'
    BY <2>0, <2>a DEF IInv, Typed, Places, States
  <2>2. QueueIsSuspended'
    BY <2>a
  <2>3. EpisodeShape'
    BY <2>0, <2>a, ExecutionsAssumption DEF IInv, EpisodeShape, Typed,
         BackoffOwnsEpisode, AdmittingOK
  <2>4. SingleProbe'
    BY <2>0, <2>a DEF IInv, SingleProbe, EpisodeShape, Typed, AdmittingPlaces,
         PermitIsCurrent, MatchingProbe, ShieldedOK
  <2>5. FollowersAreLed'
    BY <2>0, <2>a, ExecutionsAssumption DEF IInv, FollowersAreLed, EpisodeShape, Typed
  <2>6. BackoffOwnsEpisode'
    BY <2>0, <2>a, ExecutionsAssumption DEF IInv, BackoffOwnsEpisode, EpisodeShape,
         Typed, ShieldedOK
  <2>7. AdmittingOK'
    BY <2>0, <2>a, ExecutionsAssumption DEF IInv, AdmittingOK, SingleProbe,
         BackoffOwnsEpisode, FollowersAreLed, EpisodeShape, Typed, AdmittingPlaces,
         CanAttempt, PermitIsCurrent, MatchingProbe
  <2>8. ShieldedOK'
    BY <2>0, <2>a DEF IInv, ShieldedOK, Typed
  <2>9. ProbeTokenHeld'
    BY <2>0, <2>a, ExecutionsAssumption DEF IInv, ProbeTokenHeld, EpisodeShape,
         BackoffOwnsEpisode, ShieldedOK, Typed, AdmittingPlaces
  <2>10. QED
    BY <2>1, <2>2, <2>3, <2>4, <2>5, <2>6, <2>7, <2>8, <2>9 DEF IInv
<1>3. QED
  BY <1>1, <1>2

\* The slot of an abandoned attempt is handed over.
LEMMA FinishClosingStep ==
    ASSUME IInv, NEW e \in Executions, FinishClosing(e)
    PROVE  IInv'
<1> DEFINE p == [pc EXCEPT ![e] = "done"]
<1>a. /\ pc[e] = "closing" /\ Release(p)
      /\ execState' = Ended(e, "ABANDONED")
      /\ UNCHANGED <<attempts, permit, phase, generation, leader, waiters, probeActive, due,
                     used, shielded>>
  BY DEF FinishClosing, episode
<1>b. p \in [Executions -> Places] /\ \A x \in Executions : pc[x] = "slot" <=> p[x] = "slot"
  BY <1>a DEF IInv, Typed, Places
<1> HIDE DEF p
<1>c. /\ pc' \in [Executions -> Places] /\ free' \in Nat /\ queue' \in Seq(Executions)
      /\ QueueIsSuspended'
      /\ \A x \in Executions : pc'[x] = p[x] \/ (p[x] = "slot" /\ pc'[x] = "granted")
  BY <1>a, <1>b, ReleaseEffect DEF IInv
<1>d. \A x \in Executions \ {e} : p[x] = pc[x]
  BY DEF p
<1>e. p[e] = "done"
  BY DEF p, IInv, Typed
<1>1. Typed'
  BY <1>a, <1>c, <1>d, <1>e DEF IInv, Ended, Typed, Places, States
<1>2. QueueIsSuspended'
  BY <1>c
<1>3. EpisodeShape'
  BY <1>a, <1>c, <1>d, <1>e, ExecutionsAssumption DEF IInv, Ended, EpisodeShape,
       Typed, BackoffOwnsEpisode, AdmittingOK
<1>4. SingleProbe'
  BY <1>a, <1>c, <1>d, <1>e DEF IInv, Ended, SingleProbe, EpisodeShape, Typed,
       AdmittingPlaces, PermitIsCurrent, MatchingProbe, ShieldedOK
<1>5. FollowersAreLed'
  BY <1>a, <1>c, <1>d, <1>e, ExecutionsAssumption DEF IInv, Ended, FollowersAreLed,
       EpisodeShape, Typed
<1>6. BackoffOwnsEpisode'
  BY <1>a, <1>c, <1>d, <1>e, ExecutionsAssumption DEF IInv, Ended, BackoffOwnsEpisode,
       EpisodeShape, Typed, ShieldedOK
<1>7. AdmittingOK'
  BY <1>a, <1>c, <1>d, <1>e, ExecutionsAssumption DEF IInv, Ended, AdmittingOK,
       SingleProbe, BackoffOwnsEpisode, FollowersAreLed, EpisodeShape, Typed,
       AdmittingPlaces, CanAttempt, PermitIsCurrent, MatchingProbe
<1>8. ShieldedOK'
  BY <1>a, <1>c, <1>d, <1>e DEF IInv, Ended, ShieldedOK, Typed
<1>9. ProbeTokenHeld'
  BY <1>a, <1>c, <1>d, <1>e, ExecutionsAssumption DEF IInv, Ended, ProbeTokenHeld,
       EpisodeShape, BackoffOwnsEpisode, ShieldedOK, Typed, AdmittingPlaces
<1>10. QED
  BY <1>1, <1>2, <1>3, <1>4, <1>5, <1>6, <1>7, <1>8, <1>9 DEF IInv

\* The slot of a finished response is handed over.
LEMMA SucceedStep ==
    ASSUME IInv, NEW e \in Executions, Succeed(e)
    PROVE  IInv'
<1> DEFINE p == [pc EXCEPT ![e] = "done"]
<1>a. /\ pc[e] = "accepted" /\ Release(p)
      /\ execState' = Ended(e, "SUCCEEDED")
      /\ UNCHANGED <<attempts, permit, phase, generation, leader, waiters, probeActive, due,
                     used, shielded>>
  BY DEF Succeed, episode
<1>b. p \in [Executions -> Places] /\ \A x \in Executions : pc[x] = "slot" <=> p[x] = "slot"
  BY <1>a DEF IInv, Typed, Places
<1> HIDE DEF p
<1>c. /\ pc' \in [Executions -> Places] /\ free' \in Nat /\ queue' \in Seq(Executions)
      /\ QueueIsSuspended'
      /\ \A x \in Executions : pc'[x] = p[x] \/ (p[x] = "slot" /\ pc'[x] = "granted")
  BY <1>a, <1>b, ReleaseEffect DEF IInv
<1>d. \A x \in Executions \ {e} : p[x] = pc[x]
  BY DEF p
<1>e. p[e] = "done"
  BY DEF p, IInv, Typed
<1>1. Typed'
  BY <1>a, <1>c, <1>d, <1>e DEF IInv, Ended, Typed, Places, States
<1>2. QueueIsSuspended'
  BY <1>c
<1>3. EpisodeShape'
  BY <1>a, <1>c, <1>d, <1>e, ExecutionsAssumption DEF IInv, Ended, EpisodeShape,
       Typed, BackoffOwnsEpisode, AdmittingOK
<1>4. SingleProbe'
  BY <1>a, <1>c, <1>d, <1>e DEF IInv, Ended, SingleProbe, EpisodeShape, Typed,
       AdmittingPlaces, PermitIsCurrent, MatchingProbe, ShieldedOK
<1>5. FollowersAreLed'
  BY <1>a, <1>c, <1>d, <1>e, ExecutionsAssumption DEF IInv, Ended, FollowersAreLed,
       EpisodeShape, Typed
<1>6. BackoffOwnsEpisode'
  BY <1>a, <1>c, <1>d, <1>e, ExecutionsAssumption DEF IInv, Ended, BackoffOwnsEpisode,
       EpisodeShape, Typed, ShieldedOK
<1>7. AdmittingOK'
  BY <1>a, <1>c, <1>d, <1>e, ExecutionsAssumption DEF IInv, Ended, AdmittingOK,
       SingleProbe, BackoffOwnsEpisode, FollowersAreLed, EpisodeShape, Typed,
       AdmittingPlaces, CanAttempt, PermitIsCurrent, MatchingProbe
<1>8. ShieldedOK'
  BY <1>a, <1>c, <1>d, <1>e DEF IInv, Ended, ShieldedOK, Typed
<1>9. ProbeTokenHeld'
  BY <1>a, <1>c, <1>d, <1>e, ExecutionsAssumption DEF IInv, Ended, ProbeTokenHeld,
       EpisodeShape, BackoffOwnsEpisode, ShieldedOK, Typed, AdmittingPlaces
<1>10. QED
  BY <1>1, <1>2, <1>3, <1>4, <1>5, <1>6, <1>7, <1>8, <1>9 DEF IInv

\* The slot of a resolved attempt is handed over.
LEMMA CloseResolvedStep ==
    ASSUME IInv, NEW e \in Executions, CloseResolved(e)
    PROVE  IInv'
<1> DEFINE p == [pc EXCEPT ![e] = "idle"]
<1>a. /\ pc[e] \in {"accepted", "settled"} /\ Release(p)
      /\ UNCHANGED execState
      /\ UNCHANGED <<attempts, permit, phase, generation, leader, waiters, probeActive, due,
                     used, shielded>>
  BY DEF CloseResolved, episode
<1>b. p \in [Executions -> Places] /\ \A x \in Executions : pc[x] = "slot" <=> p[x] = "slot"
  BY <1>a DEF IInv, Typed, Places
<1> HIDE DEF p
<1>c. /\ pc' \in [Executions -> Places] /\ free' \in Nat /\ queue' \in Seq(Executions)
      /\ QueueIsSuspended'
      /\ \A x \in Executions : pc'[x] = p[x] \/ (p[x] = "slot" /\ pc'[x] = "granted")
  BY <1>a, <1>b, ReleaseEffect DEF IInv
<1>d. \A x \in Executions \ {e} : p[x] = pc[x]
  BY DEF p
<1>e. p[e] = "idle"
  BY DEF p, IInv, Typed
<1>1. Typed'
  BY <1>a, <1>c, <1>d, <1>e DEF IInv, Typed, Places, States
<1>2. QueueIsSuspended'
  BY <1>c
<1>3. EpisodeShape'
  BY <1>a, <1>c, <1>d, <1>e, ExecutionsAssumption DEF IInv, EpisodeShape, Typed,
       BackoffOwnsEpisode, AdmittingOK
<1>4. SingleProbe'
  BY <1>a, <1>c, <1>d, <1>e DEF IInv, SingleProbe, EpisodeShape, Typed,
       AdmittingPlaces, PermitIsCurrent, MatchingProbe, ShieldedOK
<1>5. FollowersAreLed'
  BY <1>a, <1>c, <1>d, <1>e, ExecutionsAssumption DEF IInv, FollowersAreLed,
       EpisodeShape, Typed
<1>6. BackoffOwnsEpisode'
  BY <1>a, <1>c, <1>d, <1>e, ExecutionsAssumption DEF IInv, BackoffOwnsEpisode,
       EpisodeShape, Typed, ShieldedOK
<1>7. AdmittingOK'
  BY <1>a, <1>c, <1>d, <1>e, ExecutionsAssumption DEF IInv, AdmittingOK, SingleProbe,
       BackoffOwnsEpisode, FollowersAreLed, EpisodeShape, Typed, AdmittingPlaces,
       CanAttempt, PermitIsCurrent, MatchingProbe
<1>8. ShieldedOK'
  BY <1>a, <1>c, <1>d, <1>e DEF IInv, ShieldedOK, Typed
<1>9. ProbeTokenHeld'
  BY <1>a, <1>c, <1>d, <1>e, ExecutionsAssumption DEF IInv, ProbeTokenHeld,
       EpisodeShape, BackoffOwnsEpisode, ShieldedOK, Typed, AdmittingPlaces
<1>10. QED
  BY <1>1, <1>2, <1>3, <1>4, <1>5, <1>6, <1>7, <1>8, <1>9 DEF IInv

\* Only a normal permit can go stale in the semaphore's queue.
LEMMA SlotStaleStep ==
    ASSUME IInv, NEW e \in Executions, SlotStale(e)
    PROVE  IInv'
<1> DEFINE p == [pc EXCEPT ![e] = "woken"]
<1>0. ~MatchingProbe(e, permit[e])
  BY DEF SlotStale, IInv, SingleProbe, AdmittingPlaces, MatchingProbe
<1>a. /\ pc[e] = "granted" /\ Release(p)
      /\ UNCHANGED execState
      /\ UNCHANGED <<attempts, permit, phase, generation, leader, waiters, probeActive, due,
                     used, shielded>>
  BY <1>0 DEF SlotStale, episode
<1>b. p \in [Executions -> Places] /\ \A x \in Executions : pc[x] = "slot" <=> p[x] = "slot"
  BY <1>a DEF IInv, Typed, Places
<1> HIDE DEF p
<1>c. /\ pc' \in [Executions -> Places] /\ free' \in Nat /\ queue' \in Seq(Executions)
      /\ QueueIsSuspended'
      /\ \A x \in Executions : pc'[x] = p[x] \/ (p[x] = "slot" /\ pc'[x] = "granted")
  BY <1>a, <1>b, ReleaseEffect DEF IInv
<1>d. \A x \in Executions \ {e} : p[x] = pc[x]
  BY DEF p
<1>e. p[e] = "woken"
  BY DEF p, IInv, Typed
<1>f. probeActive => leader # e
  BY <1>0, <1>a, OwnProbe DEF AdmittingPlaces
<1>1. Typed'
  BY <1>f, <1>a, <1>c, <1>d, <1>e DEF IInv, Typed, Places, States
<1>2. QueueIsSuspended'
  BY <1>c
<1>3. EpisodeShape'
  BY <1>f, <1>a, <1>c, <1>d, <1>e, ExecutionsAssumption DEF IInv, EpisodeShape, Typed,
       BackoffOwnsEpisode, AdmittingOK
<1>4. SingleProbe'
  BY <1>f, <1>a, <1>c, <1>d, <1>e DEF IInv, SingleProbe, EpisodeShape, Typed,
       AdmittingPlaces, PermitIsCurrent, MatchingProbe, ShieldedOK
<1>5. FollowersAreLed'
  BY <1>f, <1>a, <1>c, <1>d, <1>e, ExecutionsAssumption DEF IInv, FollowersAreLed,
       EpisodeShape, Typed
<1>6. BackoffOwnsEpisode'
  BY <1>f, <1>a, <1>c, <1>d, <1>e, ExecutionsAssumption DEF IInv, BackoffOwnsEpisode,
       EpisodeShape, Typed, ShieldedOK
<1>7. AdmittingOK'
  BY <1>f, <1>a, <1>c, <1>d, <1>e, ExecutionsAssumption DEF IInv, AdmittingOK, SingleProbe,
       BackoffOwnsEpisode, FollowersAreLed, EpisodeShape, Typed, AdmittingPlaces,
       CanAttempt, PermitIsCurrent, MatchingProbe
<1>8. ShieldedOK'
  BY <1>f, <1>a, <1>c, <1>d, <1>e DEF IInv, ShieldedOK, Typed
<1>9. ProbeTokenHeld'
  BY <1>f, <1>a, <1>c, <1>d, <1>e, ExecutionsAssumption DEF IInv, ProbeTokenHeld,
       EpisodeShape, BackoffOwnsEpisode, ShieldedOK, Typed, AdmittingPlaces
<1>10. QED
  BY <1>1, <1>2, <1>3, <1>4, <1>5, <1>6, <1>7, <1>8, <1>9 DEF IInv

\* A cancelled admission gives back its slot or place and its token.
LEMMA CancelAdmissionStep ==
    ASSUME IInv, NEW e \in Executions, CancelAdmission(e)
    PROVE  IInv'
<1> DEFINE p == [pc EXCEPT ![e] = "done"]
           q == IF MatchingProbe(e, permit[e]) THEN Notified(p) ELSE p
<1>a. /\ pc[e] \in AdmittingPlaces /\ execState' = Ended(e, "ABANDONED")
      /\ \/ pc[e] = "rate" /\ pc' = q /\ UNCHANGED slots
         \/ pc[e] = "slot" /\ pc' = q /\ LeaveQueue(e)
         \/ pc[e] = "granted" /\ Release(q)
      /\ IF MatchingProbe(e, permit[e]) THEN VacateProbe ELSE UNCHANGED episode
      /\ UNCHANGED <<attempts, permit, used, shielded>>
  BY DEF CancelAdmission, AdmittingPlaces
<1>b. /\ q \in [Executions -> Places] /\ q[e] = "done"
      /\ \A x \in Executions \ {e} :
            q[x] = IF MatchingProbe(e, permit[e]) /\ pc[x] = "wait" THEN "woken" ELSE pc[x]
  BY DEF Notified, IInv, Typed, Places
<1> HIDE DEF p, q
<1>c. /\ pc' \in [Executions -> Places] /\ free' \in Nat /\ queue' \in Seq(Executions)
      /\ QueueIsSuspended'
      /\ \A x \in Executions : pc'[x] = q[x] \/ (q[x] = "slot" /\ pc'[x] = "granted")
  <2>1. CASE pc[e] = "rate" /\ pc' = q /\ UNCHANGED slots
    BY <1>b, <2>1 DEF slots, IInv, Typed, QueueIsSuspended
  <2>2. CASE pc[e] = "slot" /\ pc' = q /\ LeaveQueue(e)
    <3>1. pc'[e] # "slot" /\ \A x \in Executions \ {e} : pc[x] = "slot" <=> pc'[x] = "slot"
      BY <1>b, <2>2
    <3>2. queue' \in Seq(Executions) /\ QueueIsSuspended' /\ free' = free
      BY <2>2, <3>1, LeaveQueueEffect DEF IInv
    <3>3. QED
      BY <1>b, <2>2, <3>2 DEF IInv, Typed
  <2>3. CASE pc[e] = "granted" /\ Release(q)
    <3>1. \A x \in Executions : pc[x] = "slot" <=> q[x] = "slot"
      BY <1>b, <2>3
    <3>2. QED
      BY <1>b, <2>3, <3>1, ReleaseEffect DEF IInv
  <2>4. QED
    BY <1>a, <2>1, <2>2, <2>3
<1>d. CASE MatchingProbe(e, permit[e])
  <2>0. /\ leader = e /\ phase = "recovering"
        /\ leader' = NoOne /\ probeActive' = FALSE /\ due' = TRUE
        /\ UNCHANGED <<phase, generation, waiters>>
    BY <1>a, <1>d DEF MatchingProbe, VacateProbe, IInv, EpisodeShape
  <2>a. \A x \in Executions :
           x # e => ~(pc[x] \in AdmittingPlaces \cup {"open"} /\ permit[x] > 0)
    BY <2>0 DEF IInv, SingleProbe, PermitIsCurrent, MatchingProbe, Typed
  <2>1. Typed'
    BY <1>a, <1>b, <1>c, <1>d, <2>0, <2>a DEF IInv, Ended, Typed, Places, States
  <2>2. QueueIsSuspended'
    BY <1>c
  <2>3. EpisodeShape'
    BY <1>a, <1>b, <1>c, <1>d, <2>0, <2>a, ExecutionsAssumption DEF IInv, Ended,
         EpisodeShape, Typed, BackoffOwnsEpisode, AdmittingOK
  <2>4. SingleProbe'
    BY <1>a, <1>b, <1>c, <1>d, <2>0, <2>a DEF IInv, Ended, SingleProbe, EpisodeShape,
         Typed, AdmittingPlaces, PermitIsCurrent, MatchingProbe, ShieldedOK
  <2>5. FollowersAreLed'
    BY <1>a, <1>b, <1>c, <1>d, <2>0, <2>a, ExecutionsAssumption DEF IInv, Ended,
         FollowersAreLed, EpisodeShape, Typed
  <2>6. BackoffOwnsEpisode'
    BY <1>a, <1>b, <1>c, <1>d, <2>0, <2>a, ExecutionsAssumption DEF IInv, Ended,
         BackoffOwnsEpisode, EpisodeShape, Typed, ShieldedOK
  <2>7. AdmittingOK'
    BY <1>a, <1>b, <1>c, <1>d, <2>0, <2>a, ExecutionsAssumption DEF IInv, Ended,
         AdmittingOK, SingleProbe, BackoffOwnsEpisode, FollowersAreLed, EpisodeShape,
         Typed, AdmittingPlaces, CanAttempt, PermitIsCurrent, MatchingProbe
  <2>8. ShieldedOK'
    BY <1>a, <1>b, <1>c, <1>d, <2>0, <2>a DEF IInv, Ended, ShieldedOK, Typed
  <2>9. ProbeTokenHeld'
    BY <1>a, <1>b, <1>c, <1>d, <2>0, <2>a, ExecutionsAssumption DEF IInv, Ended,
         ProbeTokenHeld, EpisodeShape, BackoffOwnsEpisode, ShieldedOK, Typed,
         AdmittingPlaces
  <2>10. QED
    BY <2>1, <2>2, <2>3, <2>4, <2>5, <2>6, <2>7, <2>8, <2>9 DEF IInv
<1>f. CASE ~MatchingProbe(e, permit[e])
  <2>0. UNCHANGED <<phase, generation, leader, waiters, probeActive, due>>
    BY <1>a, <1>f DEF episode
  <2>a. probeActive => leader # e
    BY <1>a, <1>f, OwnProbe
  <2>1. Typed'
    BY <1>a, <1>b, <1>c, <1>f, <2>0, <2>a DEF IInv, Ended, Typed, Places, States
  <2>2. QueueIsSuspended'
    BY <1>c
  <2>3. EpisodeShape'
    BY <1>a, <1>b, <1>c, <1>f, <2>0, <2>a, ExecutionsAssumption DEF IInv, Ended,
         EpisodeShape, Typed, BackoffOwnsEpisode, AdmittingOK
  <2>4. SingleProbe'
    BY <1>a, <1>b, <1>c, <1>f, <2>0, <2>a DEF IInv, Ended, SingleProbe, EpisodeShape,
         Typed, AdmittingPlaces, PermitIsCurrent, MatchingProbe, ShieldedOK
  <2>5. FollowersAreLed'
    BY <1>a, <1>b, <1>c, <1>f, <2>0, <2>a, ExecutionsAssumption DEF IInv, Ended,
         FollowersAreLed, EpisodeShape, Typed
  <2>6. BackoffOwnsEpisode'
    BY <1>a, <1>b, <1>c, <1>f, <2>0, <2>a, ExecutionsAssumption DEF IInv, Ended,
         BackoffOwnsEpisode, EpisodeShape, Typed, ShieldedOK
  <2>7. AdmittingOK'
    BY <1>a, <1>b, <1>c, <1>f, <2>0, <2>a, ExecutionsAssumption DEF IInv, Ended,
         AdmittingOK, SingleProbe, BackoffOwnsEpisode, FollowersAreLed, EpisodeShape,
         Typed, AdmittingPlaces, CanAttempt, PermitIsCurrent, MatchingProbe
  <2>8. ShieldedOK'
    BY <1>a, <1>b, <1>c, <1>f, <2>0, <2>a DEF IInv, Ended, ShieldedOK, Typed
  <2>9. ProbeTokenHeld'
    BY <1>a, <1>b, <1>c, <1>f, <2>0, <2>a, ExecutionsAssumption DEF IInv, Ended,
         ProbeTokenHeld, EpisodeShape, BackoffOwnsEpisode, ShieldedOK, Typed,
         AdmittingPlaces
  <2>10. QED
    BY <2>1, <2>2, <2>3, <2>4, <2>5, <2>6, <2>7, <2>8, <2>9 DEF IInv
<1>g. QED
  BY <1>d, <1>f

-----------------------------------------------------------------------------
(* The invariance theorem.                                                  *)

\* No execution has entered the controller yet.
LEMMA InitStep ==
    ASSUME Init
    PROVE  IInv
<1>1. Typed
  <2>1. /\ execState \in [Executions -> States] /\ pc \in [Executions -> Places]
        /\ attempts \in [Executions -> 0..MaxAttempts]
        /\ permit \in [Executions -> Nat]
    BY LimitsAssumption DEF Init, States, Places
  <2>2. /\ phase \in {"none", "recovering", "exhausted"} /\ generation \in Nat
        /\ leader \in Executions \cup {NoOne} /\ waiters \in SUBSET Executions
        /\ probeActive \in BOOLEAN /\ due \in BOOLEAN
    BY DEF Init
  <2>3. /\ used \in 0..RateLimit /\ free \in Nat /\ queue \in Seq(Executions)
        /\ shielded \in SUBSET (Executions \X Nat)
    BY LimitsAssumption DEF Init
  <2>4. QED
    BY <2>1, <2>2, <2>3 DEF Typed
<1>2. QueueIsSuspended /\ EpisodeShape /\ ShieldedOK /\ ProbeTokenHeld
  BY DEF Init, QueueIsSuspended, EpisodeShape, ShieldedOK, ProbeTokenHeld
<1>3. SingleProbe /\ FollowersAreLed /\ BackoffOwnsEpisode /\ AdmittingOK
  BY LimitsAssumption DEF Init, SingleProbe, FollowersAreLed, BackoffOwnsEpisode,
     AdmittingOK, AdmittingPlaces
<1>4. QED
  BY <1>1, <1>2, <1>3 DEF IInv

\* A stuttering step keeps every conjunct.
LEMMA StutterStep ==
    ASSUME IInv, UNCHANGED vars
    PROVE  IInv'
<1>1. Typed' /\ QueueIsSuspended' /\ EpisodeShape' /\ ShieldedOK'
  BY DEF IInv, vars, Typed, QueueIsSuspended, EpisodeShape, ShieldedOK
<1>2. SingleProbe' /\ FollowersAreLed' /\ BackoffOwnsEpisode'
  BY DEF IInv, vars, SingleProbe, FollowersAreLed, BackoffOwnsEpisode,
     PermitIsCurrent, MatchingProbe
<1>3. AdmittingOK' /\ ProbeTokenHeld'
  BY DEF IInv, vars, AdmittingOK, ProbeTokenHeld, CanAttempt
<1>4. QED
  BY <1>1, <1>2, <1>3 DEF IInv

\* A task of the gate loop keeps the inductive invariant.
LEMMA GateStep ==
    ASSUME IInv, NEW e \in Executions, Gate(e)
    PROVE  IInv'
BY GatePassStep, GateFailedStep, GateRefuseStep, GateReopenStep, GateProbeStep,
   GateBackoffStep, GateFollowStep, BackoffEndsStep DEF Gate

\* Quota, slot and claim keep the inductive invariant.
LEMMA AdmitStep ==
    ASSUME IInv, NEW e \in Executions, Admit(e)
    PROVE  IInv'
BY TakeQuotaStep, QuotaStaleStep, ClaimStep, SlotStaleStep DEF Admit

\* Every way an attempt resolves keeps the inductive invariant.
LEMMA ResolveStep ==
    ASSUME IInv, NEW e \in Executions, Resolve(e)
    PROVE  IInv'
BY AcceptStep, CorrectStep, RejectStep, FailRetryableStep, FailLastStep DEF Resolve

\* Closing an attempt keeps the inductive invariant.
LEMMA CloseStep ==
    ASSUME IInv, NEW e \in Executions, Close(e)
    PROVE  IInv'
BY FinishClosingStep, SucceedStep, CloseResolvedStep DEF Close

\* Cancellation at any suspension point keeps the inductive invariant.
LEMMA CancelStep ==
    ASSUME IInv, NEW e \in Executions, Cancel(e)
    PROVE  IInv'
BY CancelOpenStep, GiveUpStep, CancelFollowerStep, CancelBackoffStep,
   CancelAdmissionStep DEF Cancel

\* The inductive invariant holds in every reachable state.
THEOREM Invariance == Spec => []IInv
<1>1. Init => IInv
  BY InitStep
<1>2. IInv /\ [Next]_vars => IInv'
  <2> SUFFICES ASSUME IInv, [Next]_vars PROVE IInv'
    OBVIOUS
  <2>1. ASSUME NEW e \in Executions,
               Gate(e) \/ Admit(e) \/ Resolve(e) \/ Close(e) \/ Cancel(e)
        PROVE  IInv'
    BY <2>1, GateStep, AdmitStep, ResolveStep, CloseStep, CancelStep
  <2>2. ASSUME NEW t \in shielded, AbandonProbe(t)
        PROVE  IInv'
    BY <2>2, AbandonProbeStep
  <2>3. CASE Elapse \/ Slide
    BY <2>3, TimeStep
  <2>4. CASE UNCHANGED vars
    BY <2>4, StutterStep
  <2>5. QED
    BY <2>1, <2>2, <2>3, <2>4 DEF Next
<1>3. QED
  BY <1>1, <1>2, PTL DEF Spec

\* The probe token is never lost: while probe_active blocks every caller, its
\* leader or the leader's shielded abandonment will still release it.
THEOREM ProbeTokenNeverLost == Spec => []ProbeTokenHeld
BY Invariance, PTL DEF IInv

\* At most one probe, and only of the live generation, is under way.
THEOREM OneProbeAtATime == Spec => []SingleProbe
BY Invariance, PTL DEF IInv

\* No wake-up is lost: a sleeping follower is registered with a led episode.
THEOREM NoFollowerForgotten == Spec => []FollowersAreLed
BY Invariance, PTL DEF IInv

\* The leader asleep in its backoff cannot be displaced.
THEOREM SleepingLeaderKeepsEpisode == Spec => []BackoffOwnsEpisode
BY Invariance, PTL DEF IInv

\* The probe token is neither lost nor held twice.
THEOREM ProbeExclusion == Spec => []ProbeIsExclusive
BY ProbeTokenNeverLost, OneProbeAtATime, PTL DEF ProbeIsExclusive

\* Followers sleep under a leader, and a leader sleeps only while it leads.
THEOREM EpisodeLeadership == Spec => []EpisodeIsLed
BY NoFollowerForgotten, SleepingLeaderKeepsEpisode, PTL DEF EpisodeIsLed

\* The semaphore's queue is exactly the tasks suspended in it, each once.
THEOREM QueueMatchesTasks == Spec => []QueueIsSuspended
BY Invariance, PTL DEF IInv

\* _claim_attempt never raises for an admitted task.
THEOREM ClaimNeverRefused == Spec => []ClaimIsLegal
<1>1. IInv => ClaimIsLegal
  BY DEF IInv, AdmittingOK, ClaimIsLegal
<1>2. QED
  BY <1>1, Invariance, PTL

-----------------------------------------------------------------------------
(* Slots.                                                                   *)

\* A task that starts holding a slot is one more holder.
LEMMA HoldersGain ==
    ASSUME NEW e \in Executions, e \notin Holders, Holders' = Holders \cup {e}
    PROVE  Cardinality(Holders') = Cardinality(Holders) + 1
BY ExecutionsAssumption, FS_Subset, FS_AddElement DEF Holders

\* A task that stops holding its slot is one holder less.
LEMMA HoldersLoss ==
    ASSUME NEW e \in Executions, e \in Holders, Holders' = Holders \ {e}
    PROVE  Cardinality(Holders') = Cardinality(Holders) - 1
BY ExecutionsAssumption, FS_Subset, FS_RemoveElement DEF Holders

\* The number of holders is a natural number.
LEMMA HoldersFinite == Cardinality(Holders) \in Nat /\ IsFiniteSet(Holders)
BY ExecutionsAssumption, FS_Subset, FS_CardinalityType DEF Holders

\* A step that moves nobody into or out of the holding places and touches
\* neither the semaphore's value nor its queue conserves the slots.
LEMMA SlotsUntouched ==
    ASSUME SlotsConserved, UNCHANGED slots,
           \A x \in Executions : pc'[x] \in HoldingPlaces <=> pc[x] \in HoldingPlaces
    PROVE  SlotsConserved'
<1>1. Holders' = Holders
  BY DEF Holders
<1>2. QED
  BY <1>1 DEF SlotsConserved, slots

\* Release by a holder that leaves the holding places conserves the slots: the
\* slot either goes back or makes one suspended acquirer a holder.
LEMMA ReleaseConserves ==
    ASSUME IInv, SlotsConserved, NEW STATE p, p \in [Executions -> Places],
           NEW e \in Executions, pc[e] \in HoldingPlaces,
           p[e] \notin HoldingPlaces \cup {"slot"},
           \A x \in Executions \ {e} :
               /\ p[x] \in HoldingPlaces <=> pc[x] \in HoldingPlaces
               /\ p[x] = "slot" <=> pc[x] = "slot",
           Release(p)
    PROVE  SlotsConserved'
<1>1. e \in Holders
  BY DEF Holders
<1>2. CASE queue = <<>>
  <2>1. pc' = p /\ free' = free + 1 /\ queue' = queue
    BY <1>2 DEF Release
  <2>2. Holders' = Holders \ {e}
    BY <2>1 DEF Holders
  <2>3. Cardinality(Holders') = Cardinality(Holders) - 1
    BY <1>1, <2>2, HoldersLoss
  <2>4. free \in Nat /\ free + Cardinality(Holders) = MaxConcurrency
    BY DEF SlotsConserved, IInv, Typed
  <2>5. free' + Cardinality(Holders') = MaxConcurrency
    BY <2>1, <2>3, <2>4, HoldersFinite
  <2>6. QED
    BY <1>2, <2>1, <2>5 DEF SlotsConserved
<1>3. CASE queue # <<>>
  <2> DEFINE h == Head(queue)
  <2>1. pc' = [p EXCEPT ![h] = "granted"] /\ queue' = Tail(queue) /\ free' = free
    BY <1>3 DEF Release
  <2>2. h \in Executions /\ pc[h] = "slot"
    <3>1. queue[1] = h /\ 1 \in 1..Len(queue) /\ h \in Executions
      BY <1>3, HeadTailProperties DEF IInv, Typed
    <3>2. QED
      BY <3>1 DEF IInv, QueueIsSuspended
  <2>3. h # e /\ h \notin Holders
    BY <2>2 DEF Holders, HoldingPlaces
  <2>4. Holders' = (Holders \ {e}) \cup {h}
    BY <2>1, <2>2, <2>3 DEF Holders, HoldingPlaces
  <2>5. Cardinality(Holders \ {e}) = Cardinality(Holders) - 1
    BY <1>1, HoldersFinite, FS_RemoveElement
  <2>6. Cardinality((Holders \ {e}) \cup {h}) = Cardinality(Holders \ {e}) + 1
    BY <2>3, HoldersFinite, FS_AddElement, FS_RemoveElement
  <2>7. Cardinality(Holders') = Cardinality(Holders)
    BY <2>4, <2>5, <2>6, HoldersFinite
  <2>8. ~(free > 0)
    BY <1>3 DEF SlotsConserved
  <2>9. QED
    BY <2>1, <2>7, <2>8 DEF SlotsConserved
<1>4. QED
  BY <1>2, <1>3

\* The gate, the retries and the abandonments never touch the semaphore.
LEMMA SlotFreeSteps ==
    ASSUME IInv, SlotsConserved, NEW e \in Executions,
           \/ Gate(e) \/ QuotaStale(e) \/ Claim(e) \/ Resolve(e)
           \/ CancelOpen(e) \/ GiveUp(e) \/ CancelFollower(e) \/ CancelBackoff(e)
    PROVE  SlotsConserved'
<1> USE DEF IInv, Typed, HoldingPlaces
<1>1. CASE Gate(e)
  BY <1>1, SlotsUntouched DEF Gate, GatePass, GateFailed, GateRefuse, GateReopen,
     GateProbe, GateBackoff, GateFollow, BackoffEnds, AtGate, CanAttempt, slots
<1>2. CASE QuotaStale(e)
  BY <1>2, SlotsUntouched DEF QuotaStale, Notified
<1>3. CASE Claim(e)
  BY <1>3, SlotsUntouched DEF Claim
<1>4. CASE Resolve(e)
  <2>1. CASE Accept(e)
    BY <2>1, SlotsUntouched DEF Accept, Notified
  <2>2. CASE Correct(e)
    BY <2>2, SlotsUntouched DEF Correct, Notified
  <2>3. CASE Reject(e)
    BY <2>3, SlotsUntouched DEF Reject, Notified
  <2>4. CASE FailRetryable(e)
    BY <2>4, SlotsUntouched DEF FailRetryable, Notified
  <2>5. CASE FailLast(e)
    <3>1. pc[e] = "open" /\ UNCHANGED slots
      BY <2>5 DEF FailLast
    <3>2. \/ pc' = Notified([pc EXCEPT ![e] = "settled"])
          \/ pc' = [pc EXCEPT ![e] = "settled"]
      BY <2>5 DEF FailLast
    <3>3. QED
      BY <3>1, <3>2, SlotsUntouched DEF Notified
  <2>6. QED
    BY <1>4, <2>1, <2>2, <2>3, <2>4, <2>5 DEF Resolve
<1>5. CASE CancelOpen(e)
  BY <1>5, SlotsUntouched DEF CancelOpen
<1>6. CASE GiveUp(e)
  BY <1>6, SlotsUntouched DEF GiveUp
<1>7. CASE CancelFollower(e)
  BY <1>7, SlotsUntouched DEF CancelFollower, slots
<1>8. CASE CancelBackoff(e)
  BY <1>8, SlotsUntouched DEF CancelBackoff, Notified
<1>9. QED
  BY <1>1, <1>2, <1>3, <1>4, <1>5, <1>6, <1>7, <1>8

\* A free slot is taken by the task that asks for it; without one the task
\* joins the queue.
LEMMA TakeQuotaConserves ==
    ASSUME IInv, SlotsConserved, NEW e \in Executions, TakeQuota(e)
    PROVE  SlotsConserved'
<1>1. pc[e] = "rate" /\ e \notin Holders
  BY DEF TakeQuota, Holders, HoldingPlaces
<1>2. CASE free > 0
  <2>1. pc' = [pc EXCEPT ![e] = "granted"] /\ free' = free - 1 /\ queue' = queue
    BY <1>2 DEF TakeQuota
  <2>2. Holders' = Holders \cup {e}
    BY <2>1 DEF Holders, HoldingPlaces, IInv, Typed
  <2>3. Cardinality(Holders') = Cardinality(Holders) + 1
    BY <1>1, <2>2, HoldersGain
  <2>4. free \in Nat /\ free + Cardinality(Holders) = MaxConcurrency /\ queue = <<>>
    BY <1>2 DEF SlotsConserved, IInv, Typed
  <2>5. free' + Cardinality(Holders') = MaxConcurrency
    BY <2>1, <2>3, <2>4, HoldersFinite
  <2>6. QED
    BY <2>1, <2>4, <2>5 DEF SlotsConserved
<1>3. CASE ~(free > 0)
  <2>1. pc' = [pc EXCEPT ![e] = "slot"] /\ free' = free
    BY <1>3 DEF TakeQuota
  <2>2. Holders' = Holders
    BY <1>1, <2>1 DEF Holders, HoldingPlaces, IInv, Typed
  <2>3. QED
    BY <1>3, <2>1, <2>2 DEF SlotsConserved
<1>4. QED
  BY <1>2, <1>3

\* Closing an attempt passes its slot on.
LEMMA CloseConserves ==
    ASSUME IInv, SlotsConserved, NEW e \in Executions, Close(e)
    PROVE  SlotsConserved'
<1> DEFINE ended == [pc EXCEPT ![e] = "done"]
           resting == [pc EXCEPT ![e] = "idle"]
<1>1. /\ ended \in [Executions -> Places] /\ resting \in [Executions -> Places]
      /\ ended[e] = "done" /\ resting[e] = "idle"
      /\ \A x \in Executions \ {e} : ended[x] = pc[x] /\ resting[x] = pc[x]
  BY DEF IInv, Typed, Places
<1>2. /\ pc[e] \in HoldingPlaces
      /\ Release(ended) \/ Release(resting)
  BY DEF Close, FinishClosing, Succeed, CloseResolved, HoldingPlaces
<1> HIDE DEF ended, resting
<1>3. CASE Release(ended)
  BY <1>1, <1>2, <1>3, ReleaseConserves DEF HoldingPlaces
<1>4. CASE Release(resting)
  BY <1>1, <1>2, <1>4, ReleaseConserves DEF HoldingPlaces
<1>5. QED
  BY <1>2, <1>3, <1>4

\* A stale permit gives its slot back before the task returns to the gate.
LEMMA SlotStaleConserves ==
    ASSUME IInv, SlotsConserved, NEW e \in Executions, SlotStale(e)
    PROVE  SlotsConserved'
<1> DEFINE woken == [pc EXCEPT ![e] = "woken"]
<1>1. /\ woken \in [Executions -> Places] /\ Notified(woken) \in [Executions -> Places]
      /\ woken[e] = "woken" /\ Notified(woken)[e] = "woken"
      /\ \A x \in Executions \ {e} :
            /\ woken[x] = pc[x]
            /\ Notified(woken)[x] = IF pc[x] = "wait" THEN "woken" ELSE pc[x]
  BY DEF IInv, Typed, Places, Notified
<1>2. pc[e] \in HoldingPlaces /\ (Release(woken) \/ Release(Notified(woken)))
  BY DEF SlotStale, HoldingPlaces
<1> HIDE DEF woken
<1>3. CASE Release(woken)
  BY <1>1, <1>2, <1>3, ReleaseConserves DEF HoldingPlaces
<1>4. CASE Release(Notified(woken))
  <2> DEFINE n == Notified(woken)
  <2>1. /\ n \in [Executions -> Places] /\ n[e] = "woken"
        /\ \A x \in Executions \ {e} :
              /\ n[x] \in HoldingPlaces <=> pc[x] \in HoldingPlaces
              /\ n[x] = "slot" <=> pc[x] = "slot"
    BY <1>1 DEF HoldingPlaces
  <2>2. Release(n)
    BY <1>4
  <2> HIDE DEF n
  <2>3. QED
    BY <1>2, <2>1, <2>2, ReleaseConserves DEF HoldingPlaces
<1>5. QED
  BY <1>2, <1>3, <1>4

\* A cancelled admission holds nothing, leaves the queue, or passes the slot on
\* that had just been handed to it.
LEMMA CancelAdmissionConserves ==
    ASSUME IInv, SlotsConserved, NEW e \in Executions, CancelAdmission(e)
    PROVE  SlotsConserved'
<1> DEFINE p == [pc EXCEPT ![e] = "done"]
           q == IF MatchingProbe(e, permit[e]) THEN Notified(p) ELSE p
<1>1. /\ q \in [Executions -> Places] /\ q[e] = "done"
      /\ \A x \in Executions \ {e} :
            /\ q[x] \in HoldingPlaces <=> pc[x] \in HoldingPlaces
            /\ q[x] = "slot" <=> pc[x] = "slot"
  BY DEF IInv, Typed, Places, Notified, HoldingPlaces
<1>2. \/ pc[e] = "rate" /\ pc' = q /\ UNCHANGED slots
      \/ pc[e] = "slot" /\ pc' = q /\ LeaveQueue(e)
      \/ pc[e] = "granted" /\ Release(q)
  BY DEF CancelAdmission
<1> HIDE DEF q
<1>3. CASE pc[e] = "rate" /\ pc' = q /\ UNCHANGED slots
  BY <1>1, <1>3, SlotsUntouched DEF HoldingPlaces
<1>4. CASE pc[e] = "slot" /\ pc' = q /\ LeaveQueue(e)
  <2>1. Holders' = Holders
    BY <1>1, <1>4 DEF Holders, HoldingPlaces
  <2>2. free' = free
    BY <1>4 DEF LeaveQueue
  <2>3. PICK i \in 1..Len(queue) : queue[i] = e
    BY <1>4 DEF LeaveQueue
  <2>4. queue # <<>>
    BY <2>3 DEF IInv, Typed
  <2>5. QED
    BY <2>1, <2>2, <2>4 DEF SlotsConserved
<1>5. CASE pc[e] = "granted" /\ Release(q)
  BY <1>1, <1>5, ReleaseConserves DEF HoldingPlaces
<1>6. QED
  BY <1>2, <1>3, <1>4, <1>5

\* The bulkhead neither leaks nor over-grants a slot.
THEOREM SlotConservation == Spec => []SlotsConserved
<1>1. Init => SlotsConserved
  <2> SUFFICES ASSUME Init PROVE SlotsConserved
    OBVIOUS
  <2>1. Holders = {}
    BY DEF Init, Holders, HoldingPlaces
  <2>2. QED
    BY <2>1, FS_EmptySet, LimitsAssumption DEF Init, SlotsConserved
<1>2. IInv /\ SlotsConserved /\ [Next]_vars => SlotsConserved'
  <2> SUFFICES ASSUME IInv, SlotsConserved, [Next]_vars PROVE SlotsConserved'
    OBVIOUS
  <2>1. ASSUME NEW e \in Executions,
               Gate(e) \/ Admit(e) \/ Resolve(e) \/ Close(e) \/ Cancel(e)
        PROVE  SlotsConserved'
    BY <2>1, SlotFreeSteps, TakeQuotaConserves, SlotStaleConserves, CloseConserves,
       CancelAdmissionConserves DEF Admit, Cancel
  <2>2. ASSUME NEW t \in shielded, AbandonProbe(t)
        PROVE  SlotsConserved'
    BY <2>2, SlotsUntouched DEF AbandonProbe, Notified, HoldingPlaces, IInv, Typed
  <2>3. CASE Elapse \/ Slide \/ UNCHANGED vars
    BY <2>3, SlotsUntouched DEF Elapse, Slide, vars, slots
  <2>4. QED
    BY <2>1, <2>2, <2>3 DEF Next
<1>3. QED
  BY <1>1, <1>2, Invariance, PTL DEF Spec

\* Type correctness, with the semaphore's value inside its bounds.
THEOREM TypeCorrectness == Spec => []TypeOK
<1>1. IInv /\ SlotsConserved => TypeOK
  <2> SUFFICES ASSUME IInv, SlotsConserved PROVE TypeOK
    OBVIOUS
  <2>1. free \in 0..MaxConcurrency
    BY HoldersFinite, LimitsAssumption DEF SlotsConserved, IInv, Typed
  <2>2. QED
    BY <2>1 DEF IInv, Typed, TypeOK
<1>2. QED
  BY <1>1, Invariance, SlotConservation, PTL

-----------------------------------------------------------------------------
(* Action properties.                                                       *)

\* While an episode is live only its leader's probe starts a call.
THEOREM OnlyProbesCall == Spec => OnlyTheProbeStarts
<1> DEFINE A == \A e \in Executions : attempts'[e] # attempts[e] =>
           \/ phase = "none"
           \/ phase = "recovering" /\ leader = e /\ permit[e] = generation
<1>1. IInv /\ [Next]_vars => [A]_vars
  <2> SUFFICES ASSUME IInv, [Next]_vars,
                      NEW e \in Executions, attempts'[e] # attempts[e]
               PROVE  \/ phase = "none"
                      \/ phase = "recovering" /\ leader = e /\ permit[e] = generation
    OBVIOUS
  <2>1. Claim(e)
    <3>1. ASSUME NEW x \in Executions, Claim(x)
          PROVE  x = e
      BY <3>1 DEF Claim, IInv, Typed
    <3>2. ASSUME NEW x \in Executions,
                 Gate(x) \/ Admit(x) \/ Resolve(x) \/ Close(x) \/ Cancel(x)
          PROVE  Claim(x)
      BY <3>2 DEF Gate, GatePass, GateFailed, GateRefuse, GateReopen, GateProbe,
         GateBackoff, GateFollow, BackoffEnds, Admit, TakeQuota, QuotaStale, SlotStale,
         Resolve, Accept, Correct, Reject, FailRetryable, FailLast, Close,
         FinishClosing, Succeed, CloseResolved, Cancel, CancelOpen, GiveUp,
         CancelFollower, CancelBackoff, CancelAdmission
    <3>3. QED
      BY <3>1, <3>2 DEF Next, AbandonProbe, Elapse, Slide, vars
  <2>2. QED
    BY <2>1 DEF Claim, PermitIsCurrent, MatchingProbe
<1>2. QED
  BY <1>1, Invariance, PTL DEF Spec, OnlyTheProbeStarts

\* The steps that may end a recovering episode: an outcome of its own probe.
LEMMA EndOfEpisode ==
    ASSUME IInv, [Next]_vars, phase = "recovering",
           phase' # "recovering" \/ generation' # generation
    PROVE  \E e \in Executions :
              /\ Accept(e) \/ Reject(e) \/ FailLast(e)
              /\ MatchingProbe(e, permit[e])
<1>1. ASSUME NEW e \in Executions, Gate(e) \/ Admit(e) \/ Close(e) \/ Cancel(e)
      PROVE  FALSE
  BY <1>1 DEF Gate, GatePass, GateFailed, GateRefuse, GateReopen, GateProbe,
     GateBackoff, GateFollow, BackoffEnds, Admit, TakeQuota, QuotaStale, Claim,
     SlotStale, Close, FinishClosing, Succeed, CloseResolved, Cancel, CancelOpen,
     GiveUp, CancelFollower, CancelBackoff, CancelAdmission, VacateProbe, episode
<1>2. ASSUME NEW e \in Executions, Correct(e) \/ FailRetryable(e)
      PROVE  FALSE
  BY <1>2 DEF Correct, FailRetryable, episode
<1>3. ASSUME NEW e \in Executions, Accept(e) \/ Reject(e) \/ FailLast(e),
             ~MatchingProbe(e, permit[e])
      PROVE  FALSE
  BY <1>3 DEF Accept, Reject, FailLast, episode
<1>4. ~ \E t \in shielded : AbandonProbe(t)
  BY DEF AbandonProbe, VacateProbe, episode
<1>5. ~(Elapse \/ Slide \/ UNCHANGED vars)
  BY DEF Elapse, Slide, vars, episode
<1>6. PICK e \in Executions : Resolve(e)
  BY <1>1, <1>4, <1>5 DEF Next
<1>7. QED
  BY <1>2, <1>3, <1>6 DEF Resolve

\* A recovering episode ends only by the outcome of its own leader's probe.
THEOREM EpisodeEndsOnlyByItsProbe == Spec => EpisodeEndsByItsProbe
<1> DEFINE A == phase = "recovering" /\ (phase' # "recovering" \/ generation' # generation) =>
           /\ leader # NoOne
           /\ pc[leader] = "open" /\ permit[leader] = generation
           /\ pc'[leader] \in {"accepted", "settled"}
<1>1. IInv /\ [Next]_vars => [A]_vars
  <2> SUFFICES ASSUME IInv, [Next]_vars, phase = "recovering",
                      phase' # "recovering" \/ generation' # generation
               PROVE  /\ leader # NoOne
                      /\ pc[leader] = "open" /\ permit[leader] = generation
                      /\ pc'[leader] \in {"accepted", "settled"}
    OBVIOUS
  <2>1. PICK e \in Executions : /\ Accept(e) \/ Reject(e) \/ FailLast(e)
                                /\ MatchingProbe(e, permit[e])
    BY EndOfEpisode
  <2>2. leader = e /\ permit[e] = generation /\ leader # NoOne
    BY <2>1, ExecutionsAssumption DEF MatchingProbe
  <2>3. pc[e] = "open" /\ pc'[e] \in {"accepted", "settled"}
    BY <2>1 DEF Accept, Reject, FailLast, Notified, IInv, Typed
  <2>4. QED
    BY <2>2, <2>3
<1>2. QED
  BY <1>1, Invariance, PTL DEF Spec, EpisodeEndsByItsProbe

\* A task asleep on the condition is still active: exhaustion fails and wakes it
\* in the same step.
FollowersActive == \A x \in Executions : pc[x] = "wait" => execState[x] = "ACTIVE"

\* FollowersActive is inductive relative to IInv.
LEMMA FollowersStayActive == Spec => []FollowersActive
<1>1. Init => FollowersActive
  BY DEF Init, FollowersActive
<1>2. IInv /\ FollowersActive /\ [Next]_vars => FollowersActive'
  <2> SUFFICES ASSUME IInv, FollowersActive, [Next]_vars, NEW x \in Executions,
                      pc'[x] = "wait"
               PROVE  execState'[x] = "ACTIVE"
    BY DEF FollowersActive
  <2> USE DEF IInv, Typed, FollowersActive, Places
  <2>1. ASSUME NEW e \in Executions, Gate(e) PROVE execState'[x] = "ACTIVE"
    BY <2>1 DEF Gate, GatePass, GateFailed, GateRefuse, GateReopen, GateProbe,
       GateBackoff, GateFollow, BackoffEnds, AtGate, CanAttempt, Ended
  <2>2. ASSUME NEW e \in Executions, Admit(e) PROVE execState'[x] = "ACTIVE"
    BY <2>2 DEF Admit, TakeQuota, QuotaStale, Claim, SlotStale, Release, Notified
  <2>3. ASSUME NEW e \in Executions, Accept(e) \/ Correct(e) \/ Reject(e)
        PROVE  execState'[x] = "ACTIVE"
    BY <2>3 DEF Accept, Correct, Reject, Notified, Ended
  <2>4. ASSUME NEW e \in Executions, FailRetryable(e) PROVE execState'[x] = "ACTIVE"
    BY <2>4 DEF FailRetryable, Notified
  <2>5. ASSUME NEW e \in Executions, FailLast(e) PROVE execState'[x] = "ACTIVE"
    BY <2>5 DEF FailLast, Notified, Ended
  <2>6. ASSUME NEW e \in Executions, Close(e) PROVE execState'[x] = "ACTIVE"
    BY <2>6 DEF Close, FinishClosing, Succeed, CloseResolved, Release, Ended
  <2>7. ASSUME NEW e \in Executions, Cancel(e) PROVE execState'[x] = "ACTIVE"
    <3>1. CASE CancelAdmission(e)
      BY <3>1 DEF CancelAdmission, Release, LeaveQueue, Notified, Ended
    <3>2. CASE ~CancelAdmission(e)
      BY <2>7, <3>2 DEF Cancel, CancelOpen, GiveUp, CancelFollower, CancelBackoff,
         Notified, Ended
    <3>3. QED
      BY <3>1, <3>2
  <2>8. ASSUME NEW t \in shielded, AbandonProbe(t) PROVE execState'[x] = "ACTIVE"
    BY <2>8 DEF AbandonProbe, Notified
  <2>9. CASE Elapse \/ Slide \/ UNCHANGED vars
    BY <2>9 DEF Elapse, Slide, vars
  <2>10. QED
    BY <2>1, <2>2, <2>3, <2>4, <2>5, <2>6, <2>7, <2>8, <2>9 DEF Next, Resolve
<1>3. QED
  BY <1>1, <1>2, Invariance, PTL DEF Spec

\* Spending the shared budget fails every task asleep behind the episode.
THEOREM ExhaustionReachesEveryFollower == Spec => ExhaustionIsShared
<1> DEFINE A == phase = "recovering" /\ phase' = "exhausted" =>
           \A e \in Executions : pc[e] = "wait" => execState'[e] = "FAILED"
<1>1. IInv /\ FollowersActive /\ [Next]_vars => [A]_vars
  <2> SUFFICES ASSUME IInv, FollowersActive, [Next]_vars, phase = "recovering", phase' = "exhausted",
                      NEW x \in Executions, pc[x] = "wait"
               PROVE  execState'[x] = "FAILED"
    OBVIOUS
  <2>1. PICK e \in Executions : /\ Accept(e) \/ Reject(e) \/ FailLast(e)
                                /\ MatchingProbe(e, permit[e])
    BY EndOfEpisode
  <2>2. FailLast(e)
    BY <2>1 DEF Accept, Reject, CloseEpisode
  <2>3. x \in waiters
    BY DEF IInv, FollowersAreLed
  <2>4. execState[x] = "ACTIVE"
    BY DEF FollowersActive
  <2>5. QED
    BY <2>1, <2>2, <2>3, <2>4 DEF FailLast, IInv, Typed
<1>2. QED
  BY <1>1, Invariance, FollowersStayActive, PTL DEF Spec, ExhaustionIsShared

-----------------------------------------------------------------------------
(* The controller implements the abstract breaker (CircuitBreaker) under    *)
(* the refinement mapping Breaker of module Admission: each step of the     *)
(* controller is a step of the breaker or leaves the breaker unchanged.     *)

\* What a step must leave alone to be a stutter of the breaker.
LEMMA BreakerStutter ==
    ASSUME UNCHANGED <<phase, generation, attempts, probeActive>>,
           probeActive => /\ leader' = leader
                          /\ pc'[leader] \in AdmittingPlaces <=> pc[leader] \in AdmittingPlaces
    PROVE  UNCHANGED Breaker!breakerVars
<1>1. CASE probeActive
  <2>1. leader' = leader /\ probeActive'
    BY <1>1
  <2>2. (pc'[leader'] \notin AdmittingPlaces) = (pc[leader] \notin AdmittingPlaces)
    BY <1>1, <2>1
  <2>3. QED
    BY <1>1, <2>1, <2>2 DEF Breaker!breakerVars, AdmittingPlaces
<1>2. CASE ~probeActive
  BY <1>2 DEF Breaker!breakerVars
<1>3. QED
  BY <1>1, <1>2

\* The gate starts probes: of the recovering episode, or of a new one once the
\* cooldown of an exhausted one is over.
LEMMA GateRefines ==
    ASSUME IInv, NEW e \in Executions, Gate(e)
    PROVE  Breaker!Next \/ UNCHANGED Breaker!breakerVars
<1> USE DEF IInv, Typed
<1>1. CASE GateProbe(e) \/ BackoffEnds(e)
  <2>1. /\ phase = "recovering" /\ phase' = phase /\ generation' = generation
        /\ ~probeActive /\ probeActive' /\ leader' = e /\ attempts' = attempts
        /\ pc'[e] = "rate"
    BY <1>1 DEF GateProbe, BackoffEnds, Leads
  <2>2. Breaker!StartProbe(e)
    BY <2>1 DEF Breaker!StartProbe, AdmittingPlaces
  <2>3. QED
    BY <2>2 DEF Breaker!Next
<1>2. CASE GateReopen(e)
  <2>1. /\ phase = "exhausted" /\ phase' = "recovering" /\ generation' = generation + 1
        /\ ~probeActive /\ probeActive' /\ leader' = e /\ attempts' = attempts
        /\ pc'[e] = "rate"
    BY <1>2 DEF GateReopen, StartEpisode, EpisodeShape
  <2>2. Breaker!StartProbe(e)
    BY <2>1 DEF Breaker!StartProbe, AdmittingPlaces
  <2>3. QED
    BY <2>2 DEF Breaker!Next
<1>3. CASE GateBackoff(e)
  BY <1>3, BreakerStutter DEF GateBackoff, Leads
<1>4. CASE GatePass(e)
  BY <1>4, BreakerStutter DEF GatePass, episode, EpisodeShape
<1>5. CASE GateFailed(e) \/ GateRefuse(e) \/ GateFollow(e)
  <2>1. /\ UNCHANGED <<phase, generation, attempts, probeActive, leader>>
        /\ pc[e] \in {"idle", "woken"} /\ pc'[e] \notin AdmittingPlaces
        /\ \A x \in Executions \ {e} : pc'[x] = pc[x]
    BY <1>5 DEF GateFailed, GateRefuse, GateFollow, AtGate, episode, AdmittingPlaces
  <2>2. probeActive => (pc'[leader] \in AdmittingPlaces <=> pc[leader] \in AdmittingPlaces)
    BY <2>1 DEF ProbeTokenHeld, AdmittingPlaces
  <2>3. QED
    BY <2>1, <2>2, BreakerStutter
<1>6. QED
  BY <1>1, <1>2, <1>3, <1>4, <1>5 DEF Gate

\* A claim is the breaker's probe call or, with no episode, an ordinary call.
LEMMA ClaimRefines ==
    ASSUME IInv, NEW e \in Executions, Claim(e)
    PROVE  Breaker!Next \/ UNCHANGED Breaker!breakerVars
<1> USE DEF IInv, Typed
<1>1. /\ pc[e] = "granted" /\ pc' = [pc EXCEPT ![e] = "open"]
      /\ attempts' = [attempts EXCEPT ![e] = @ + 1]
      /\ UNCHANGED <<phase, generation, leader, probeActive>>
  BY DEF Claim, episode
<1>2. CASE permit[e] = 0
  <2>1. phase = "none" /\ ~probeActive
    BY <1>2 DEF Claim, PermitIsCurrent, EpisodeShape
  <2>2. Breaker!Call(e)
    BY <1>1, <2>1 DEF Breaker!Call
  <2>3. QED
    BY <2>2 DEF Breaker!Next
<1>3. CASE permit[e] # 0
  <2>1. phase = "recovering" /\ probeActive /\ leader = e
    BY <1>3 DEF Claim, PermitIsCurrent, MatchingProbe
  <2>2. Breaker!ProbeCall
    BY <1>1, <2>1 DEF Breaker!ProbeCall, AdmittingPlaces
  <2>3. QED
    BY <2>2 DEF Breaker!Next
<1>4. QED
  BY <1>2, <1>3

\* The steps between gate and claim return a probe or leave the breaker alone.
LEMMA AdmitRefines ==
    ASSUME IInv, NEW e \in Executions, Admit(e)
    PROVE  Breaker!Next \/ UNCHANGED Breaker!breakerVars
<1> USE DEF IInv, Typed
<1>1. CASE TakeQuota(e)
  <2>1. /\ UNCHANGED <<phase, generation, attempts, probeActive, leader>>
        /\ pc[e] = "rate" /\ pc'[e] \in {"granted", "slot"}
        /\ \A x \in Executions \ {e} : pc'[x] = pc[x]
    BY <1>1 DEF TakeQuota, episode
  <2>2. probeActive => (pc'[leader] \in AdmittingPlaces <=> pc[leader] \in AdmittingPlaces)
    BY <2>1 DEF ProbeTokenHeld, AdmittingPlaces
  <2>3. QED
    BY <2>1, <2>2, BreakerStutter
<1>2. CASE QuotaStale(e) \/ SlotStale(e)
  <2>1. permit[e] = 0 /\ ~MatchingProbe(e, permit[e])
    BY <1>2 DEF QuotaStale, SlotStale, SingleProbe, MatchingProbe, AdmittingPlaces
  <2>2. probeActive => leader # e
    BY <1>2, <2>1, OwnProbe DEF QuotaStale, SlotStale, AdmittingPlaces, MatchingProbe
  <2>3. /\ UNCHANGED <<phase, generation, attempts, probeActive, leader>>
        /\ \A x \in Executions \ {e} :
              pc'[x] = pc[x] \/ (pc[x] = "slot" /\ pc'[x] = "granted")
    <3>1. CASE QuotaStale(e)
      BY <2>1, <3>1 DEF QuotaStale, episode
    <3>2. CASE SlotStale(e)
      <4> DEFINE p == [pc EXCEPT ![e] = "woken"]
      <4>1. Release(p) /\ UNCHANGED <<phase, generation, attempts, probeActive, leader>>
        BY <2>1, <3>2 DEF SlotStale, episode
      <4>2. /\ p \in [Executions -> Places] /\ pc[e] = "granted"
            /\ \A x \in Executions : pc[x] = "slot" <=> p[x] = "slot"
        BY <3>2 DEF SlotStale, Places
      <4>3. \A x \in Executions :
               pc'[x] = p[x] \/ (p[x] = "slot" /\ pc'[x] = "granted")
        <5> HIDE DEF p
        <5>1. QED
          BY <4>1, <4>2, ReleaseEffect
      <4>4. QED
        BY <4>1, <4>3
    <3>3. QED
      BY <1>2, <3>1, <3>2
  <2>4. probeActive => (pc'[leader] \in AdmittingPlaces <=> pc[leader] \in AdmittingPlaces)
    BY <2>2, <2>3 DEF ProbeTokenHeld, AdmittingPlaces
  <2>5. QED
    BY <2>3, <2>4, BreakerStutter
<1>3. QED
  BY <1>1, <1>2, ClaimRefines DEF Admit

\* An outcome settles the probe of its own episode, trips the closed breaker or
\* leaves the breaker alone.
LEMMA ResolveRefines ==
    ASSUME IInv, NEW e \in Executions, Resolve(e)
    PROVE  Breaker!Next \/ UNCHANGED Breaker!breakerVars
<1> USE DEF IInv, Typed
<1>1. pc[e] = "open" /\ attempts' = attempts
  BY DEF Resolve, Accept, Correct, Reject, FailRetryable, FailLast
<1>2. \A x \in Executions \ {e} :
         pc'[x] = pc[x] \/ (pc[x] = "wait" /\ pc'[x] = "woken")
  BY DEF Resolve, Accept, Correct, Reject, FailRetryable, FailLast, Notified
<1>3. CASE MatchingProbe(e, permit[e])
  <2>1. phase = "recovering" /\ probeActive /\ leader = e
    BY <1>3 DEF MatchingProbe, ProbeTokenHeld
  <2>2. /\ phase' \in {"none", "recovering", "exhausted"} /\ ~probeActive'
        /\ generation' = generation
    BY <1>3, <2>1 DEF Resolve, Accept, Correct, Reject, FailRetryable, FailLast,
       CloseEpisode, StartEpisode
  <2>3. Breaker!SettleProbe
    BY <1>1, <2>1, <2>2 DEF Breaker!SettleProbe, AdmittingPlaces
  <2>4. QED
    BY <2>3 DEF Breaker!Next
<1>4. CASE ~MatchingProbe(e, permit[e])
  <2>1. probeActive => leader # e
    BY <1>1, <1>4, OwnProbe DEF AdmittingPlaces
  <2>2. \/ UNCHANGED <<phase, generation, leader, probeActive>>
        \/ /\ phase = "none" /\ phase' \in {"recovering", "exhausted"}
           /\ generation' = generation + 1 /\ probeActive' = FALSE
    BY <1>4 DEF Resolve, Accept, Correct, Reject, FailRetryable, FailLast, episode,
       StartEpisode
  <2>3. CASE UNCHANGED <<phase, generation, leader, probeActive>>
    <3>1. probeActive =>
             (pc'[leader] \in AdmittingPlaces <=> pc[leader] \in AdmittingPlaces)
      BY <1>2, <2>1 DEF ProbeTokenHeld, AdmittingPlaces
    <3>2. QED
      BY <1>1, <2>3, <3>1, BreakerStutter
  <2>4. CASE /\ phase = "none" /\ phase' \in {"recovering", "exhausted"}
             /\ generation' = generation + 1 /\ probeActive' = FALSE
    <3>1. ~probeActive
      BY <2>4 DEF EpisodeShape
    <3>2. Breaker!Trip
      BY <1>1, <2>4, <3>1 DEF Breaker!Trip
    <3>3. QED
      BY <3>2 DEF Breaker!Next
  <2>5. QED
    BY <2>2, <2>3, <2>4
<1>5. QED
  BY <1>3, <1>4

\* Closing an attempt changes nothing the breaker sees.
LEMMA CloseRefines ==
    ASSUME IInv, NEW e \in Executions, Close(e)
    PROVE  Breaker!Next \/ UNCHANGED Breaker!breakerVars
<1> USE DEF IInv, Typed
<1>1. PICK place \in {"done", "idle"} : Release([pc EXCEPT ![e] = place])
  BY DEF Close, FinishClosing, Succeed, CloseResolved
<1> DEFINE p == [pc EXCEPT ![e] = place]
<1>2. /\ p \in [Executions -> Places]
      /\ pc[e] \in {"closing", "accepted", "settled"}
      /\ \A x \in Executions : pc[x] = "slot" <=> p[x] = "slot"
      /\ UNCHANGED <<phase, generation, leader, probeActive, attempts>>
  BY DEF Close, FinishClosing, Succeed, CloseResolved, Places, episode
<1>3. \A x \in Executions : pc'[x] = p[x] \/ (p[x] = "slot" /\ pc'[x] = "granted")
  <2>1. Release(p)
    BY <1>1
  <2> HIDE DEF p
  <2>2. QED
    BY <1>2, <2>1, ReleaseEffect
<1>4. probeActive => (pc'[leader] \in AdmittingPlaces <=> pc[leader] \in AdmittingPlaces)
  BY <1>2, <1>3 DEF ProbeTokenHeld, AdmittingPlaces
<1>5. QED
  BY <1>2, <1>4, BreakerStutter

\* A cancelled admission returns its probe; no other cancellation reaches the
\* breaker.
LEMMA CancelRefines ==
    ASSUME IInv, NEW e \in Executions, Cancel(e)
    PROVE  Breaker!Next \/ UNCHANGED Breaker!breakerVars
<1> USE DEF IInv, Typed
<1>1. CASE CancelOpen(e) \/ GiveUp(e) \/ CancelFollower(e)
  <2>1. /\ UNCHANGED <<phase, generation, attempts, probeActive, leader>>
        /\ pc[e] \notin AdmittingPlaces /\ pc'[e] \notin AdmittingPlaces
        /\ \A x \in Executions \ {e} : pc'[x] = pc[x]
    BY <1>1 DEF CancelOpen, GiveUp, CancelFollower, episode, AdmittingPlaces
  <2>2. probeActive => (pc'[leader] \in AdmittingPlaces <=> pc[leader] \in AdmittingPlaces)
    BY <2>1 DEF ProbeTokenHeld
  <2>3. QED
    BY <2>1, <2>2, BreakerStutter
<1>2. CASE CancelBackoff(e)
  <2>1. ~probeActive /\ UNCHANGED <<phase, generation, attempts, probeActive>>
    BY <1>2 DEF CancelBackoff, BackoffOwnsEpisode, episode
  <2>2. QED
    BY <2>1, BreakerStutter
<1>3. CASE CancelAdmission(e)
  <2>1. pc[e] \in AdmittingPlaces /\ attempts' = attempts
    BY <1>3 DEF CancelAdmission, AdmittingPlaces
  <2>2. CASE MatchingProbe(e, permit[e])
    <3>1. /\ phase = "recovering" /\ probeActive /\ leader = e /\ ~probeActive'
          /\ phase' = phase /\ generation' = generation
      BY <1>3, <2>2 DEF CancelAdmission, VacateProbe, MatchingProbe, ProbeTokenHeld
    <3>2. Breaker!ReturnProbe
      BY <2>1, <3>1 DEF Breaker!ReturnProbe
    <3>3. QED
      BY <3>2 DEF Breaker!Next
  <2>3. CASE ~MatchingProbe(e, permit[e])
    <3> DEFINE p == [pc EXCEPT ![e] = "done"]
    <3>1. probeActive => leader # e
      BY <2>1, <2>3, OwnProbe
    <3>2. UNCHANGED <<phase, generation, probeActive, leader>>
      BY <1>3, <2>3 DEF CancelAdmission, episode
    <3>3. pc' = p \/ (pc[e] = "granted" /\ Release(p))
      BY <1>3, <2>3 DEF CancelAdmission
    <3>4. /\ p \in [Executions -> Places]
          /\ pc[e] = "granted" => \A x \in Executions : pc[x] = "slot" <=> p[x] = "slot"
      BY DEF Places
    <3>5. \A x \in Executions : pc'[x] = p[x] \/ (p[x] = "slot" /\ pc'[x] = "granted")
      <4> HIDE DEF p
      <4>1. QED
        BY <3>3, <3>4, ReleaseEffect
    <3>6. probeActive =>
             (pc'[leader] \in AdmittingPlaces <=> pc[leader] \in AdmittingPlaces)
      BY <3>1, <3>5 DEF ProbeTokenHeld, AdmittingPlaces
    <3>7. QED
      BY <2>1, <3>2, <3>6, BreakerStutter
  <2>4. QED
    BY <2>2, <2>3
<1>4. QED
  BY <1>1, <1>2, <1>3 DEF Cancel

\* The shielded abandonment settles a probe whose call was cancelled.
LEMMA AbandonRefines ==
    ASSUME IInv, NEW t \in shielded, AbandonProbe(t)
    PROVE  Breaker!Next \/ UNCHANGED Breaker!breakerVars
<1> USE DEF IInv, Typed
<1>1. t[1] \in Executions /\ pc[t[1]] \in {"closing", "done"} /\ attempts' = attempts
  BY DEF ShieldedOK, AbandonProbe
<1>2. CASE MatchingProbe(t[1], t[2])
  <2>1. /\ phase = "recovering" /\ probeActive /\ leader = t[1] /\ ~probeActive'
        /\ phase' = phase /\ generation' = generation
    BY <1>2 DEF AbandonProbe, VacateProbe, MatchingProbe, ProbeTokenHeld
  <2>2. Breaker!SettleProbe
    BY <1>1, <2>1 DEF Breaker!SettleProbe, AdmittingPlaces
  <2>3. QED
    BY <2>2 DEF Breaker!Next
<1>3. CASE ~MatchingProbe(t[1], t[2])
  BY <1>1, <1>3, BreakerStutter DEF AbandonProbe, episode
<1>4. QED
  BY <1>2, <1>3

\* The controller implements the breaker.
THEOREM Refinement == Spec => Breaker!Spec
<1>1. Init => Breaker!Init
  BY DEF Init, Breaker!Init
<1>2. IInv /\ [Next]_vars => [Breaker!Next]_(Breaker!breakerVars)
  <2> SUFFICES ASSUME IInv, [Next]_vars
               PROVE  Breaker!Next \/ UNCHANGED Breaker!breakerVars
    OBVIOUS
  <2>1. ASSUME NEW e \in Executions,
               Gate(e) \/ Admit(e) \/ Resolve(e) \/ Close(e) \/ Cancel(e)
        PROVE  Breaker!Next \/ UNCHANGED Breaker!breakerVars
    BY <2>1, GateRefines, AdmitRefines, ResolveRefines, CloseRefines, CancelRefines
  <2>2. ASSUME NEW t \in shielded, AbandonProbe(t)
        PROVE  Breaker!Next \/ UNCHANGED Breaker!breakerVars
    BY <2>2, AbandonRefines
  <2>3. CASE Elapse \/ Slide \/ UNCHANGED vars
    BY <2>3, BreakerStutter DEF Elapse, Slide, vars, episode
  <2>4. QED
    BY <2>1, <2>2, <2>3 DEF Next
<1>3. QED
  BY <1>1, <1>2, Invariance, PTL DEF Spec, Breaker!Spec

\* The same, as the property that the runs check.
THEOREM BreakerImplemented == Spec => ImplementsBreaker
BY Refinement DEF ImplementsBreaker
=============================================================================
