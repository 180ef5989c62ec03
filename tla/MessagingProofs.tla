---------------------------- MODULE MessagingProofs ----------------------------
(***************************************************************************)
(* Safety of the delivery limiter, of voice notes and of managed CLI       *)
(* sessions, for any number of keys, calls, notes, commands, sessions and  *)
(* turns.                                                                  *)
(*                                                                         *)
(* Each needs more than it says.  Delivery: where a call that waits is     *)
(* (QueueFits), that the operation of a key is the newest call's           *)
(* (NewestRuns) and what each stage of the close leaves (CloseFits).       *)
(* Voice notes: what the place of a flow and of its handoff says of the    *)
(* claim and of the status message (HandoffFits, StatusFits).  Managed     *)
(* sessions: who holds which lock at which place, and that whoever stops a *)
(* session finds the latest process there is (SessionFits, TurnFits,       *)
(* ProcessFits).                                                           *)
(***************************************************************************)
EXTENDS Delivery, VoiceNotes, ManagedCli, FiniteSetTheorems, TLAPS

(* The delivery limiter. *)

\* A call that has enqueued, now or before.
Enqueued(c) == callAt[c] \notin {"unused", "created", "backoff"}

\* Calls are made one after the other; only tasks of the limiter are yet to enqueue, and
\* they start in the order in which their calls were made.
CallsFit ==
    /\ \A c, d \in Calls : c < d /\ callAt[d] # "unused" => callAt[c] # "unused"
    /\ \A c \in Calls : callAt[c] # "unused" => key[c] \in Keys
    /\ \A c \in Calls : callAt[c] \in {"created", "backoff"} => kind[c] = "forget"
    /\ \A c \in Calls : callAt[c] = "backoff" => retries[c] > 0
    /\ \A c, d \in Calls : c < d /\ callAt[c] = "created" /\ kind[d] = "forget" => callAt[d] \notin {"waiting", "backoff"}

\* What is queued under a key was enqueued under it, and only there.
QueueFits ==
    /\ \A k \in Keys : \A c \in futures[k] : key[c] = k /\ Enqueued(c) /\ c \notin activeFutures
    /\ \A k \in Keys : func[k] # 0 => func[k] \in futures[k]
    /\ \A c \in activeFutures : Enqueued(c)
    /\ activeFunc # 0 => activeFunc \in activeFutures
    /\ workerTask \in {"idle", "stopped"} => activeFutures = {}

\* An older call's operation answers for a newer one only when it is a retry or a task
\* that started late.
Answers(o, c) == o >= c \/ (kind[o] = "forget" /\ (retries[o] > 0 \/ kind[c] # "forget"))

\* The operation of a key answers for every call that waits for it.
NewestRuns ==
    /\ \A k \in Keys : \A c \in futures[k] : callAt[c] = "waiting" => Answers(func[k], c)
    /\ \A c \in activeFutures : callAt[c] = "waiting" => Answers(activeFunc, c)

\* What each stage of the close leaves.
CloseFits ==
    /\ ~LimiterIsOpen => \A k \in Keys : futures[k] = {} /\ func[k] = 0
    /\ workerTask = "stopped" => ~LimiterIsOpen
    /\ shutting # "open" => \A c \in Calls : callAt[c] \in Unfinished => kind[c] # "owned"
    /\ shutting \in {"tasks", "closed"} => workerTask = "stopped" /\ \A c \in Calls : callAt[c] \notin Unfinished

DeliveryInv == DeliveryTypeOK /\ NoCallerStranded /\ CallsFit /\ QueueFits /\ NewestRuns /\ CloseFits

\* The inductive invariant says what DeliverySafety does.
LEMMA DeliveryImplied == DeliveryInv => DeliverySafety
  BY DEF DeliveryInv, DeliverySafety, QuietWhenClosed, CloseFits

\* Nothing is called, queued or run when the limiter starts.
LEMMA DeliveryStarts == DeliveryInit => DeliveryInv
<1> SUFFICES ASSUME DeliveryInit PROVE DeliveryInv
  OBVIOUS
<1> USE DeliveryAssumption DEF DeliveryInit
<1>1. queue \in Seq(Keys) /\ IsInjective(queue) /\ ToSet(queue) = {}
  BY DEF IsInjective, ToSet
<1>2. DeliveryTypeOK
  BY <1>1 DEF DeliveryTypeOK, Kinds, Unfinished, Calls
<1>3. NoCallerStranded /\ CallsFit /\ QueueFits /\ NewestRuns
  BY DEF NoCallerStranded, CallsFit, QueueFits, NewestRuns
<1>4. CloseFits
  BY DEF CloseFits, LimiterIsOpen
<1> QED
  BY <1>2, <1>3, <1>4 DEF DeliveryInv

\* The calls made are the first ones, so that a new call's number is the next.
LEMMA NextCallIsNew ==
    ASSUME DeliveryTypeOK, CallsFit
    PROVE  LET c == Cardinality({d \in Calls : callAt[d] # "unused"}) + 1 IN
           c \in Calls => /\ callAt[c] = "unused"
                          /\ \A d \in Calls : callAt[d] # "unused" <=> d < c
<1> DEFINE used == {d \in Calls : callAt[d] # "unused"}
<1>1. \A n \in Nat : n <= MaxCalls => IsFiniteSet(1..n) /\ Cardinality(1..n) = n
  BY FS_Interval
<1>2. IsFiniteSet(Calls) /\ used \subseteq Calls
  BY <1>1, DeliveryAssumption DEF Calls
<1>3. IsFiniteSet(used) /\ Cardinality(used) \in Nat
  BY <1>2, FS_Subset, FS_CardinalityType
<1>4. ASSUME NEW n \in Calls, n \notin used PROVE Cardinality(used) < n
  <2>1. used \subseteq 1..(n - 1)
    BY <1>4 DEF CallsFit, Calls
  <2>2. n - 1 \in Nat /\ n - 1 <= MaxCalls
    BY DeliveryAssumption DEF Calls
  <2> QED
    BY <1>1, <1>3, <2>1, <2>2, FS_Subset DEF Calls
<1>5. ASSUME NEW n \in used PROVE n <= Cardinality(used)
  <2>1. 1..n \subseteq used
    <3> SUFFICES ASSUME NEW i \in 1..n PROVE i \in used
      OBVIOUS
    <3>1. i \in Calls /\ n \in Calls /\ (i < n \/ i = n)
      BY <1>2, <1>5, DeliveryAssumption DEF Calls
    <3> QED
      BY <1>5, <3>1 DEF CallsFit
  <2>2. n \in Nat /\ n <= MaxCalls
    BY DeliveryAssumption DEF Calls
  <2> QED
    BY <1>1, <1>3, <2>1, <2>2, FS_Subset DEF Calls
<1> QED
  BY <1>3, <1>4, <1>5 DEF Calls

\* A key is appended to the queue when it is not in it.
LEMMA QueueGrows ==
    ASSUME NEW S, NEW q \in Seq(S), IsInjective(q), NEW k \in S, k \notin ToSet(q)
    PROVE  /\ Append(q, k) \in Seq(S) /\ IsInjective(Append(q, k))
           /\ ToSet(Append(q, k)) = ToSet(q) \cup {k}
<1>1. /\ Len(q) \in Nat /\ DOMAIN q = 1..Len(q) /\ DOMAIN Append(q, k) = 1..(Len(q) + 1)
      /\ Append(q, k)[Len(q) + 1] = k /\ \A i \in 1..Len(q) : Append(q, k)[i] = q[i]
  OBVIOUS
<1>2. ToSet(Append(q, k)) = ToSet(q) \cup {k}
  <2>1. ASSUME NEW x \in ToSet(Append(q, k)) PROVE x \in ToSet(q) \cup {k}
    <3>1. PICK i \in 1..(Len(q) + 1) : x = Append(q, k)[i]
      BY <1>1 DEF ToSet
    <3>2. i \in 1..Len(q) \/ i = Len(q) + 1
      BY <1>1
    <3> QED
      BY <1>1, <3>1, <3>2 DEF ToSet
  <2>2. ASSUME NEW x \in ToSet(q) PROVE x \in ToSet(Append(q, k))
    <3>1. PICK i \in 1..Len(q) : x = q[i]
      BY <1>1 DEF ToSet
    <3>2. i \in 1..(Len(q) + 1) /\ Append(q, k)[i] = x
      BY <1>1, <3>1
    <3> QED
      BY <1>1, <3>2 DEF ToSet
  <2>3. k \in ToSet(Append(q, k))
    <3>1. Len(q) + 1 \in 1..(Len(q) + 1)
      BY <1>1
    <3> QED
      BY <1>1, <3>1 DEF ToSet
  <2> QED
    BY <2>1, <2>2, <2>3
<1>3. ASSUME NEW i \in 1..(Len(q) + 1), NEW j \in 1..(Len(q) + 1), Append(q, k)[i] = Append(q, k)[j]
      PROVE  i = j
  <2>1. \A m \in 1..Len(q) : q[m] # k
    BY <1>1 DEF ToSet
  <2>2. (i \in 1..Len(q) \/ i = Len(q) + 1) /\ (j \in 1..Len(q) \/ j = Len(q) + 1)
    BY <1>1
  <2> QED
    BY <1>1, <1>3, <2>1, <2>2 DEF IsInjective
<1> QED
  BY <1>1, <1>2, <1>3 DEF IsInjective

\* The worker takes the first key.
LEMMA QueueShrinks ==
    ASSUME NEW S, NEW q \in Seq(S), IsInjective(q), q # <<>>
    PROVE  /\ Head(q) \in ToSet(q) /\ Head(q) \in S
           /\ Tail(q) \in Seq(S) /\ IsInjective(Tail(q)) /\ ToSet(Tail(q)) = ToSet(q) \ {Head(q)}
<1>1. /\ Len(q) \in Nat /\ Len(q) > 0 /\ DOMAIN q = 1..Len(q) /\ DOMAIN Tail(q) = 1..(Len(q) - 1)
      /\ Head(q) = q[1] /\ Tail(q) \in Seq(S) /\ \A i \in 1..(Len(q) - 1) : Tail(q)[i] = q[i + 1]
  OBVIOUS
<1>2. Head(q) \in ToSet(q) /\ Head(q) \in S
  BY <1>1 DEF ToSet
<1>3. ASSUME NEW i \in 1..(Len(q) - 1), NEW j \in 1..(Len(q) - 1), Tail(q)[i] = Tail(q)[j]
      PROVE  i = j
  <2>1. i + 1 \in 1..Len(q) /\ j + 1 \in 1..Len(q) /\ q[i + 1] = q[j + 1]
    BY <1>1, <1>3
  <2>2. i + 1 = j + 1
    BY <1>1, <2>1 DEF IsInjective
  <2> QED
    BY <2>2
<1>4. ASSUME NEW x \in ToSet(Tail(q)) PROVE x \in ToSet(q) \ {Head(q)}
  <2>1. PICK i \in 1..(Len(q) - 1) : x = q[i + 1]
    BY <1>1 DEF ToSet
  <2>2. i + 1 \in 1..Len(q) /\ 1 \in 1..Len(q) /\ i + 1 # 1
    BY <1>1
  <2>3. q[i + 1] # q[1]
    BY <1>1, <2>2 DEF IsInjective
  <2> QED
    BY <1>1, <2>1, <2>2, <2>3 DEF ToSet
<1>5. ASSUME NEW x \in ToSet(q) \ {Head(q)} PROVE x \in ToSet(Tail(q))
  <2>1. PICK i \in 1..Len(q) : x = q[i]
    BY <1>1 DEF ToSet
  <2>2. i - 1 \in 1..(Len(q) - 1) /\ (i - 1) + 1 = i
    BY <1>1, <1>5, <2>1
  <2>3. Tail(q)[i - 1] = x
    BY <1>1, <2>1, <2>2
  <2> QED
    BY <1>1, <2>2, <2>3 DEF ToSet
<1> QED
  BY <1>1, <1>2, <1>3, <1>4, <1>5 DEF IsInjective

\* Calls that only go on or end, and are retried when they have failed, still fit.
LEMMA CallsGoOn ==
    ASSUME CallsFit, UNCHANGED <<key, kind>>,
           \A c \in Calls : retries[c] \in Nat /\ retries'[c] \in Nat /\ retries'[c] >= retries[c],
           \A c \in Calls : \/ callAt'[c] = callAt[c]
                            \/ callAt[c] # "unused" /\ callAt'[c] \in {"delivered", "failed", "cancelled"}
                            \/ callAt[c] = "waiting" /\ callAt'[c] = "backoff" /\ kind[c] = "forget" /\ retries'[c] > 0
    PROVE  CallsFit'
<1>1. \A c \in Calls : /\ callAt'[c] = "unused" <=> callAt[c] = "unused"
                       /\ callAt'[c] = "created" => callAt[c] = "created"
                       /\ callAt'[c] \in {"waiting", "backoff"} => callAt[c] \in {"waiting", "backoff"}
                       /\ callAt'[c] = "backoff" => kind[c] = "forget" /\ retries'[c] > 0
  BY DEF CallsFit
<1>2. \A c, d \in Calls : c < d /\ callAt'[d] # "unused" => callAt'[c] # "unused"
  BY <1>1 DEF CallsFit
<1>3. /\ \A c \in Calls : callAt'[c] # "unused" => key'[c] \in Keys
      /\ \A c \in Calls : callAt'[c] \in {"created", "backoff"} => kind'[c] = "forget"
  BY <1>1 DEF CallsFit
<1>4. \A c, d \in Calls : c < d /\ callAt'[c] = "created" /\ kind'[d] = "forget" => callAt'[d] \notin {"waiting", "backoff"}
  BY <1>1 DEF CallsFit
<1> QED
  BY <1>1, <1>2, <1>3, <1>4 DEF CallsFit

\* A call that is made or goes on enqueues its operation.
LEMMA EnqueueKeeps ==
    ASSUME DeliveryInv, NEW c \in Calls, NEW k \in Keys, NEW who \in Kinds,
           EnqueueUnder(c, k), LimiterIsOpen, ~Enqueued(c),
           \A d \in Calls : d < c => callAt[d] # "unused",
           key' = [key EXCEPT ![c] = k], kind' = [kind EXCEPT ![c] = who],
           who = "owned" => shutting = "open",
           \A d \in Calls : d < c /\ callAt[d] = "created" => who # "forget",
           \A d \in Calls : d > c /\ callAt[d] = "waiting" =>
               who = "forget" /\ (retries[c] > 0 \/ kind[d] # "forget"),
           UNCHANGED <<retries, active, workerTask, shutting, shown>>
    PROVE  DeliveryInv'
<1> USE DeliveryAssumption DEF DeliveryInv, active
<1>1. /\ callAt' = [callAt EXCEPT ![c] = "waiting"]
      /\ func' = [func EXCEPT ![k] = c] /\ futures' = [futures EXCEPT ![k] = futures[k] \cup {c}]
      /\ queue' = IF func[k] = 0 THEN Append(queue, k) ELSE queue
  BY DEF EnqueueUnder, NewestFunc, Compacted
<1>2. c \in Nat /\ c # 0 /\ c \in 0..MaxCalls
  BY DEF Calls
<1>3. c \notin activeFutures /\ (\A j \in Keys : c \notin futures[j]) /\ (\A j \in Keys : func[j] # c) /\ activeFunc # c
  BY <1>2 DEF QueueFits
<1>4. queue' \in Seq(Keys) /\ IsInjective(queue') /\ ToSet(queue') = ToSet(queue) \cup {k}
  <2>1. CASE func[k] = 0
    <3>1. k \notin ToSet(queue)
      BY <2>1 DEF DeliveryTypeOK
    <3> QED
      BY <1>1, <2>1, <3>1, QueueGrows DEF DeliveryTypeOK
  <2>2. CASE func[k] # 0
    <3>1. k \in ToSet(queue)
      BY <2>2 DEF DeliveryTypeOK
    <3> QED
      BY <1>1, <2>2, <3>1 DEF DeliveryTypeOK
  <2> QED
    BY <2>1, <2>2
<1>5. DeliveryTypeOK'
  <2>1. \A j \in Keys : IF j \in ToSet(queue') THEN func'[j] # 0 ELSE func'[j] = 0 /\ futures'[j] = {}
    BY <1>1, <1>2, <1>4 DEF DeliveryTypeOK
  <2>2. func' \in [Keys -> 0..MaxCalls] /\ futures' \in [Keys -> SUBSET Calls]
    BY <1>1, <1>2 DEF DeliveryTypeOK
  <2> QED
    BY <1>1, <1>4, <2>1, <2>2 DEF DeliveryTypeOK, Unfinished
<1>6. NoCallerStranded'
  BY <1>1, <1>3 DEF NoCallerStranded, CloseFits, DeliveryTypeOK, CallsFit
<1>7. CallsFit'
  BY <1>1 DEF CallsFit, DeliveryTypeOK, Calls
<1>8. QueueFits'
  BY <1>1, <1>3 DEF QueueFits, DeliveryTypeOK, Enqueued
<1>9. NewestRuns'
  <2>1. ASSUME NEW o \in Calls, NEW d \in Calls, o # c, d # c, Answers(o, d)
        PROVE  Answers(o, d)'
    BY <2>1 DEF Answers
  <2>2. ASSUME NEW j \in Keys, NEW d \in futures'[j], callAt'[d] = "waiting"
        PROVE  Answers(func[j], d)'
    <3>1. d \in Calls
      BY <1>1, <2>2 DEF DeliveryTypeOK
    <3>2. CASE j = k
      <4>1. func'[j] = c
        BY <1>1, <3>2 DEF DeliveryTypeOK
      <4>2. CASE d > c
        <5>1. callAt[d] = "waiting" /\ d # c
          BY <1>1, <1>2, <2>2, <3>1, <4>2
        <5>2. who = "forget" /\ (retries[c] > 0 \/ kind[d] # "forget")
          BY <3>1, <4>2, <5>1
        <5>3. kind'[c] = who /\ kind'[d] = kind[d] /\ retries' = retries
          BY <3>1, <5>1 DEF DeliveryTypeOK
        <5> QED
          BY <4>1, <5>2, <5>3 DEF Answers
      <4> QED
        BY <3>1, <4>1, <4>2 DEF Answers, Calls
    <3>3. CASE j # k
      <4>1. func'[j] = func[j] /\ d \in futures[j] /\ d # c
        BY <1>1, <1>3, <2>2, <3>3
      <4>2. callAt[d] = "waiting" /\ func[j] # c /\ func[j] \in Calls
        BY <1>1, <1>3, <2>2, <3>1, <4>1 DEF DeliveryTypeOK, Calls
      <4>3. Answers(func[j], d)
        BY <4>1, <4>2 DEF NewestRuns
      <4> QED
        BY <2>1, <3>1, <4>1, <4>2, <4>3 DEF Answers
    <3> QED
      BY <3>2, <3>3
  <2>3. ASSUME NEW d \in activeFutures, callAt'[d] = "waiting"
        PROVE Answers(activeFunc, d)'
    <3>1. d \in Calls /\ d # c /\ callAt[d] = "waiting"
      BY <1>1, <1>3, <2>3 DEF DeliveryTypeOK
    <3>2. activeFunc \in Calls /\ activeFunc # c
      BY <1>3, <2>3 DEF DeliveryTypeOK, QueueFits, Calls
    <3>3. Answers(activeFunc, d)
      BY <2>3, <3>1 DEF NewestRuns
    <3> QED
      BY <2>1, <3>1, <3>2, <3>3 DEF Answers
  <2> QED
    BY <2>2, <2>3 DEF NewestRuns
<1>10. CloseFits'
  BY <1>1 DEF CloseFits, LimiterIsOpen, DeliveryTypeOK
<1> QED
  BY <1>5, <1>6, <1>7, <1>8, <1>9, <1>10

\* A call is made, and enqueues at once or in a task.
LEMMA CallKeeps ==
    ASSUME DeliveryInv, NEW k \in Keys, NEW who \in Kinds, Call(k, who)
    PROVE  DeliveryInv'
<1> USE DeliveryAssumption DEF DeliveryInv
<1> DEFINE c == Cardinality({d \in Calls : callAt[d] # "unused"}) + 1
<1>1. /\ shutting = "open" /\ c \in Calls
      /\ key' = [key EXCEPT ![c] = k] /\ kind' = [kind EXCEPT ![c] = who]
      /\ IF who = "forget"
         THEN callAt' = [callAt EXCEPT ![c] = "created"] /\ UNCHANGED queued
         ELSE EnqueueUnder(c, k)
      /\ UNCHANGED <<retries, active, workerTask, shutting, shown>>
  BY DEF Call
<1>2. callAt[c] = "unused" /\ \A d \in Calls : callAt[d] # "unused" <=> d < c
  BY <1>1, NextCallIsNew
<1> HIDE DEF c
<1>3. CASE who # "forget"
  <2>1. EnqueueUnder(c, k) /\ LimiterIsOpen /\ ~Enqueued(c) /\ (who = "owned" => shutting = "open")
    BY <1>1, <1>2, <1>3 DEF Enqueued, LimiterIsOpen
  <2>2. /\ \A d \in Calls : d < c => callAt[d] # "unused"
        /\ \A d \in Calls : ~(d > c /\ callAt[d] = "waiting")
    BY <1>1, <1>2 DEF Calls
  <2> QED
    BY <1>1, <1>3, <2>1, <2>2, EnqueueKeeps
<1>4. CASE who = "forget"
  <2>1. callAt' = [callAt EXCEPT ![c] = "created"] /\ UNCHANGED <<queue, func, futures, activeFunc, activeFutures>>
    BY <1>1, <1>4 DEF queued, active
  <2>2. c \notin activeFutures /\ (\A j \in Keys : c \notin futures[j])
    BY <1>2 DEF QueueFits, Enqueued
  <2>3. DeliveryTypeOK'
    BY <1>1, <2>1 DEF DeliveryTypeOK, Unfinished, Kinds
  <2>4. NoCallerStranded'
    BY <1>1, <2>1 DEF NoCallerStranded, DeliveryTypeOK
  <2>5. CallsFit'
    BY <1>1, <1>2, <1>4, <2>1 DEF CallsFit, DeliveryTypeOK, Calls
  <2>6. QueueFits'
    BY <1>1, <2>1, <2>2 DEF QueueFits, Enqueued
  <2>7. NewestRuns'
    <3>1. ASSUME NEW o \in Calls, NEW d \in Calls, o # c, d # c, Answers(o, d)
          PROVE  Answers(o, d)'
      BY <1>1, <3>1 DEF Answers
    <3>2. ASSUME NEW j \in Keys, NEW d \in futures'[j], callAt'[d] = "waiting" PROVE Answers(func[j], d)'
      <4>1. d \in Calls /\ d # c /\ callAt[d] = "waiting" /\ d \in futures[j]
        BY <1>1, <2>1, <2>2, <3>2 DEF DeliveryTypeOK
      <4>2. func[j] \in Calls /\ func[j] # c
        BY <2>2, <4>1 DEF DeliveryTypeOK, QueueFits, Calls
      <4>3. Answers(func[j], d)
        BY <4>1 DEF NewestRuns
      <4> QED
        BY <2>1, <3>1, <4>1, <4>2, <4>3 DEF Answers
    <3>3. ASSUME NEW d \in activeFutures, callAt'[d] = "waiting" PROVE Answers(activeFunc, d)'
      <4>1. d \in Calls /\ d # c /\ callAt[d] = "waiting"
        BY <1>1, <2>1, <2>2, <3>3 DEF DeliveryTypeOK
      <4>2. activeFunc \in Calls /\ activeFunc # c
        BY <2>2, <3>3 DEF DeliveryTypeOK, QueueFits, Calls
      <4>3. Answers(activeFunc, d)
        BY <3>3, <4>1 DEF NewestRuns
      <4> QED
        BY <2>1, <3>1, <4>1, <4>2, <4>3 DEF Answers
    <3> QED
      BY <2>1, <3>2, <3>3 DEF NewestRuns, Answers
  <2>8. CloseFits'
    BY <1>1, <1>4, <2>1 DEF CloseFits, LimiterIsOpen
  <2> QED
    BY <2>3, <2>4, <2>5, <2>6, <2>7, <2>8
<1> QED
  BY <1>3, <1>4

\* A task of the limiter starts, or its delay is over.
LEMMA TaskEnqueues ==
    ASSUME DeliveryInv, NEW c \in Calls, Enqueue(c)
    PROVE  DeliveryInv'
<1> USE DeliveryAssumption DEF DeliveryInv
<1>1. /\ callAt[c] \in {"created", "backoff"} /\ kind[c] = "forget" /\ key[c] \in Keys
      /\ UNCHANGED <<key, kind, retries, active, workerTask, shutting, shown>>
  BY DEF Enqueue, Ready, CallsFit, calls
<1>2. CASE LimiterIsOpen
  <2>1. EnqueueUnder(c, key[c]) /\ ~Enqueued(c)
    BY <1>1, <1>2 DEF Enqueue, Enqueued
  <2>2. key' = [key EXCEPT ![c] = key[c]] /\ kind' = [kind EXCEPT ![c] = "forget"]
    BY <1>1 DEF DeliveryTypeOK
  <2>3. \A d \in Calls : d < c => callAt[d] # "unused"
    BY <1>1 DEF CallsFit
  <2>5. \A d \in Calls : d < c => callAt[d] # "created"
    BY <1>1 DEF Enqueue, Ready, CallsFit, Calls
  <2>6. \A d \in Calls : d > c /\ callAt[d] = "waiting" => retries[c] > 0 \/ kind[d] # "forget"
    BY <1>1 DEF CallsFit
  <2>4. "forget" \in Kinds /\ "forget" # "owned"
    BY DEF Kinds
  <2> QED
    BY <1>1, <1>2, <2>1, <2>2, <2>3, <2>4, <2>5, <2>6, EnqueueKeeps
<1>3. CASE ~LimiterIsOpen
  <2>1. callAt' = [callAt EXCEPT ![c] = "failed"] /\ UNCHANGED <<queue, func, futures, activeFunc, activeFutures>>
    BY <1>1, <1>3 DEF Enqueue, queued, active
  <2>2. c \notin activeFutures /\ (\A j \in Keys : c \notin futures[j])
    BY <1>1 DEF QueueFits, Enqueued
  <2>3. DeliveryTypeOK'
    BY <1>1, <2>1 DEF DeliveryTypeOK
  <2>4. NoCallerStranded' /\ CallsFit'
    BY <1>1, <2>1 DEF NoCallerStranded, CallsFit
  <2>5. QueueFits' /\ NewestRuns'
    BY <1>1, <2>1, <2>2 DEF QueueFits, NewestRuns, Answers, Enqueued
  <2>6. CloseFits'
    BY <1>1, <2>1 DEF CloseFits, LimiterIsOpen, Unfinished
  <2> QED
    BY <2>3, <2>4, <2>5, <2>6
<1> QED
  BY <1>2, <1>3

\* The worker takes the operation queued first.
LEMMA TakeKeeps == ASSUME DeliveryInv, Take PROVE DeliveryInv'
<1> USE DeliveryAssumption DEF DeliveryInv
<1> DEFINE k == Head(queue)
<1>1. /\ workerTask = "idle" /\ LimiterIsOpen /\ queue # <<>>
      /\ activeFunc' = func[k] /\ activeFutures' = futures[k]
      /\ func' = [func EXCEPT ![k] = 0] /\ futures' = [futures EXCEPT ![k] = {}]
      /\ queue' = Tail(queue) /\ workerTask' = "taken"
      /\ UNCHANGED <<key, kind, retries, callAt, shutting, shown>>
  BY DEF Take, calls
<1>2. /\ k \in ToSet(queue) /\ k \in Keys
      /\ queue' \in Seq(Keys) /\ IsInjective(queue') /\ ToSet(queue') = ToSet(queue) \ {k}
  BY <1>1, QueueShrinks DEF DeliveryTypeOK
<1> HIDE DEF k
<1>3. activeFutures = {} /\ func[k] # 0
  BY <1>1, <1>2 DEF QueueFits, DeliveryTypeOK
<1>4. DeliveryTypeOK'
  <2>1. \A j \in Keys : IF j \in ToSet(queue') THEN func'[j] # 0 ELSE func'[j] = 0 /\ futures'[j] = {}
    BY <1>1, <1>2 DEF DeliveryTypeOK
  <2> QED
    BY <1>1, <1>2, <1>3, <2>1 DEF DeliveryTypeOK
<1>5. NoCallerStranded' /\ CallsFit'
  BY <1>1, <1>2, <1>3 DEF NoCallerStranded, CallsFit
<1>6. QueueFits'
  BY <1>1, <1>2, <1>3 DEF QueueFits, DeliveryTypeOK, Enqueued
<1>7. NewestRuns'
  BY <1>1, <1>2, <1>3 DEF NewestRuns, Answers, DeliveryTypeOK
<1>8. CloseFits'
  BY <1>1 DEF CloseFits, LimiterIsOpen
<1> QED
  BY <1>4, <1>5, <1>6, <1>7, <1>8

\* The worker is done with its operation: the calls that waited for it do so no longer.
LEMMA WorkerEnds ==
    ASSUME DeliveryInv, workerTask # "stopped", Released,
           workerTask' = IF LimiterIsOpen THEN "idle" ELSE "stopped",
           callAt' \in [Calls -> Unfinished \cup {"unused", "delivered", "failed", "cancelled"}],
           retries' \in [Calls -> 0..MaxRetries], shown' \in [Keys -> 0..MaxCalls],
           \A c \in Calls : c \in activeFutures => callAt'[c] # "waiting",
           \A c \in Calls : callAt'[c] = callAt[c] \/
               /\ c \in activeFutures
               /\ \/ callAt'[c] \in {"delivered", "failed", "cancelled"}
                  \/ callAt[c] = "waiting" /\ callAt'[c] = "backoff" /\ kind[c] = "forget" /\ retries'[c] > 0,
           \A c \in Calls : retries'[c] >= retries[c],
           UNCHANGED <<key, kind, queue, func, futures, shutting>>
    PROVE  DeliveryInv'
<1> USE DeliveryAssumption DEF DeliveryInv, Released
<1>1. DeliveryTypeOK'
  BY DEF DeliveryTypeOK
<1>2. NoCallerStranded'
  BY DEF NoCallerStranded, DeliveryTypeOK, CloseFits, CallsFit
<1>3. CallsFit'
  <2>1. \A c \in Calls : retries[c] \in Nat /\ retries'[c] \in Nat
    BY DEF DeliveryTypeOK
  <2>2. \A c \in activeFutures : callAt[c] # "unused"
    BY DEF QueueFits, Enqueued
  <2> QED
    BY <2>1, <2>2, CallsGoOn
<1>4. QueueFits'
  BY DEF QueueFits, DeliveryTypeOK, Enqueued
<1>5. NewestRuns'
  <2>1. ASSUME NEW k \in Keys, NEW c \in futures[k], callAt'[c] = "waiting" PROVE Answers(func[k], c)'
    <3>1. c \in Calls /\ callAt[c] = "waiting" /\ func[k] \in Calls
      BY <2>1 DEF DeliveryTypeOK, Calls
    <3>2. Answers(func[k], c)
      BY <3>1 DEF NewestRuns
    <3>3. retries'[func[k]] >= retries[func[k]] /\ retries[func[k]] \in Nat /\ retries'[func[k]] \in Nat
      BY <3>1 DEF DeliveryTypeOK
    <3> QED
      BY <3>2, <3>3 DEF Answers
  <2> QED
    BY <2>1 DEF NewestRuns
<1>6. CloseFits'
  BY DEF CloseFits, LimiterIsOpen, Unfinished
<1> QED
  BY <1>1, <1>2, <1>3, <1>4, <1>5, <1>6

\* The operation in hand is delivered, fails or is tried again, and with it every call
\* that waits for it.
LEMMA OperationEnds ==
    ASSUME DeliveryInv, Deliver \/ Cancelled \/ StopWorker \/ \E transient \in BOOLEAN : Fail(transient)
    PROVE  DeliveryInv'
<1> USE DeliveryAssumption DEF DeliveryInv
<1>1. \A S, reached : \A c \in Calls : Moved(S, reached)[c] = IF c \in S THEN reached ELSE callAt[c]
  BY DEF Moved
<1>2. workerTask = "calling" => Shows \in [Keys -> 0..MaxCalls]
  BY DEF Shows, DeliveryTypeOK
<1>3. ASSUME NEW reached \in {"delivered", "cancelled"}, callAt' = Moved(Waiting(activeFutures), reached),
             workerTask # "stopped", Released, workerTask' = IF LimiterIsOpen THEN "idle" ELSE "stopped",
             shown' \in [Keys -> 0..MaxCalls],
             UNCHANGED <<key, kind, retries, queue, func, futures, shutting>>
      PROVE  DeliveryInv'
  <2>1. callAt' \in [Calls -> Unfinished \cup {"unused", "delivered", "failed", "cancelled"}]
    BY <1>3 DEF Moved, DeliveryTypeOK
  <2>2. \A c \in Calls : callAt'[c] = IF c \in activeFutures /\ callAt[c] = "waiting" THEN reached ELSE callAt[c]
    BY <1>3 DEF Moved, Waiting
  <2>3. retries' \in [Calls -> 0..MaxRetries] /\ \A c \in Calls : retries'[c] >= retries[c]
    BY <1>3 DEF DeliveryTypeOK
  <2> QED
    BY <1>3, <2>1, <2>2, <2>3, WorkerEnds
<1>4. CASE Deliver \/ Cancelled
  BY <1>2, <1>3, <1>4 DEF Deliver, Cancelled, Round, calls, queued, DeliveryTypeOK
<1>5. CASE StopWorker
  BY <1>3, <1>5 DEF StopWorker, LimiterIsOpen, calls, queued, DeliveryTypeOK
<1>6. ASSUME NEW transient \in BOOLEAN, Fail(transient) PROVE DeliveryInv'
  <2> DEFINE hit == Waiting(activeFutures)
             again == {c \in hit : transient /\ kind[c] = "forget" /\ retries[c] < MaxRetries}
  <2>1. /\ workerTask = "calling" /\ Released /\ Round /\ shown' \in {shown, Shows}
        /\ callAt' = [c \in Calls |-> IF c \in again THEN "backoff" ELSE IF c \in hit THEN "failed" ELSE callAt[c]]
        /\ retries' = [c \in Calls |-> IF c \in again THEN retries[c] + 1 ELSE retries[c]]
        /\ UNCHANGED <<key, kind, queue, func, futures, shutting>>
    BY <1>6 DEF Fail, queued
  <2>2. \A c \in hit : c \in activeFutures /\ callAt[c] = "waiting"
    BY DEF Waiting
  <2>6. \A c \in activeFutures : callAt[c] = "waiting" => c \in hit
    BY DEF Waiting
  <2>3. \A c \in again : c \in hit /\ kind[c] = "forget" /\ retries[c] < MaxRetries
    OBVIOUS
  <2> HIDE DEF hit, again
  <2>4. /\ callAt' \in [Calls -> Unfinished \cup {"unused", "delivered", "failed", "cancelled"}]
        /\ \A c \in Calls : c \in activeFutures => callAt'[c] # "waiting"
        /\ \A c \in Calls : callAt'[c] = callAt[c] \/
               /\ c \in activeFutures
               /\ \/ callAt'[c] \in {"delivered", "failed", "cancelled"}
                  \/ callAt[c] = "waiting" /\ callAt'[c] = "backoff" /\ kind[c] = "forget" /\ retries'[c] > 0
    BY <2>1, <2>2, <2>3, <2>6 DEF DeliveryTypeOK, Unfinished
  <2>5. /\ retries' \in [Calls -> 0..MaxRetries] /\ shown' \in [Keys -> 0..MaxCalls]
        /\ \A c \in Calls : retries'[c] >= retries[c]
    BY <1>2, <2>1, <2>2, <2>3 DEF DeliveryTypeOK
  <2> QED
    BY <2>1, <2>4, <2>5, WorkerEnds DEF Round
<1> QED
  BY <1>4, <1>5, <1>6

\* Calls that are cancelled.
LEMMA CallsCancelled ==
    ASSUME DeliveryInv, NEW S \in SUBSET Calls, \A c \in S : callAt[c] \in Unfinished,
           callAt' = Moved(S, "cancelled"),
           UNCHANGED <<calls, queued, active, workerTask, shown>>
    PROVE  /\ DeliveryTypeOK' \/ shutting' \notin {"open", "outbox", "worker", "tasks", "closed"}
           /\ NoCallerStranded' /\ CallsFit' /\ NewestRuns'
           /\ (\A c \in S : callAt[c] = "waiting") => QueueFits'
<1> USE DeliveryAssumption DEF DeliveryInv, calls, queued, active
<1>1. /\ callAt' \in [Calls -> Unfinished \cup {"unused", "delivered", "failed", "cancelled"}]
      /\ \A c \in Calls : callAt'[c] = IF c \in S THEN "cancelled" ELSE callAt[c]
  BY DEF Moved, DeliveryTypeOK
<1>2. DeliveryTypeOK' \/ shutting' \notin {"open", "outbox", "worker", "tasks", "closed"}
  BY <1>1 DEF DeliveryTypeOK
<1>3. CallsFit'
  <2>1. \A c \in Calls : retries[c] \in Nat /\ retries' = retries
    BY DEF DeliveryTypeOK
  <2>2. \A c \in S : callAt[c] # "unused"
    BY DEF Unfinished
  <2> QED
    BY <1>1, <2>1, <2>2, CallsGoOn
<1>5. NoCallerStranded' /\ NewestRuns'
  BY <1>1 DEF NoCallerStranded, NewestRuns, Answers, DeliveryTypeOK, Unfinished
<1>4. QueueFits'
  BY <1>1 DEF QueueFits, DeliveryTypeOK, Enqueued
<1> QED
  BY <1>2, <1>3, <1>4, <1>5

\* The stages of the close: the callers of the outbox are cancelled, then the worker and
\* what is queued, then the tasks of the limiter.
LEMMA CloseKeeps ==
    ASSUME DeliveryInv, CloseOutbox \/ Shutdown \/ CancelTasks \/ EndShutdown
    PROVE  DeliveryInv'
<1> USE DeliveryAssumption DEF DeliveryInv, LimiterIsOpen
<1>1. CASE CloseOutbox
  <2> DEFINE S == {c \in Calls : callAt[c] \in Unfinished /\ kind[c] = "owned"}
  <2>1. /\ S \in SUBSET Calls /\ shutting = "open" /\ shutting' = "outbox" /\ callAt' = Moved(S, "cancelled")
        /\ UNCHANGED <<calls, queued, active, workerTask, shown>> /\ \A c \in S : callAt[c] \in Unfinished
    BY <1>1 DEF CloseOutbox
  <2>2. \A c \in Calls : callAt'[c] \in Unfinished => callAt[c] \in Unfinished /\ kind[c] # "owned"
    BY <2>1 DEF Moved, Unfinished
  <2> HIDE DEF S
  <2>3. DeliveryTypeOK' /\ NoCallerStranded' /\ CallsFit' /\ NewestRuns'
    BY <2>1, CallsCancelled
  <2>4. QueueFits'
    BY <2>1 DEF QueueFits, DeliveryTypeOK, Enqueued, Moved, calls, queued, active
  <2>5. CloseFits'
    BY <2>1, <2>2 DEF CloseFits, calls, queued
  <2> QED
    BY <2>3, <2>4, <2>5
<1>2. CASE CancelTasks
  <2> DEFINE S == {c \in Calls : callAt[c] \in Unfinished /\ kind[c] = "forget"}
  <2>1. /\ S \in SUBSET Calls /\ shutting = "worker" /\ shutting' = "tasks" /\ workerTask = "stopped"
        /\ callAt' = Moved(S, "cancelled")
        /\ UNCHANGED <<calls, queued, active, workerTask, shown>> /\ \A c \in S : callAt[c] \in Unfinished
    BY <1>2 DEF CancelTasks
  <2>2. \A c \in Calls : callAt'[c] \notin Unfinished
    BY <2>1 DEF Moved, DeliveryTypeOK, Unfinished, NoCallerStranded, CallsFit
  <2> HIDE DEF S
  <2>3. DeliveryTypeOK' /\ NoCallerStranded' /\ CallsFit' /\ NewestRuns'
    BY <2>1, CallsCancelled
  <2>4. QueueFits'
    BY <2>1 DEF QueueFits, DeliveryTypeOK, Enqueued, Moved, calls, queued, active
  <2>5. CloseFits'
    BY <2>1, <2>2 DEF CloseFits, calls, queued
  <2> QED
    BY <2>3, <2>4, <2>5
<1>3. CASE Shutdown
  <2> DEFINE S == Waiting((UNION {futures[k] : k \in Keys}) \cup activeFutures)
  <2>1. /\ shutting = "outbox" /\ shutting' = "worker" /\ callAt' = Moved(S, "cancelled")
        /\ queue' = <<>> /\ func' = [k \in Keys |-> 0] /\ futures' = [k \in Keys |-> {}]
        /\ UNCHANGED <<key, kind, retries, activeFunc, activeFutures, workerTask, shown>>
    BY <1>3 DEF Shutdown, calls, active
  <2>2. /\ \A c \in Calls : callAt'[c] \in {callAt[c], "cancelled"}
        /\ callAt' \in [Calls -> Unfinished \cup {"unused", "delivered", "failed", "cancelled"}]
    BY <2>1 DEF Moved, DeliveryTypeOK
  <2>3. \A c \in Calls : callAt[c] = "waiting" => c \in S
    <3>1. SUFFICES ASSUME NEW c \in Calls, callAt[c] = "waiting" PROVE c \in S
      OBVIOUS
    <3>2. key[c] \in Keys /\ (c \in futures[key[c]] \/ c \in activeFutures)
      BY <3>1 DEF NoCallerStranded, CallsFit
    <3>3. c \in (UNION {futures[k] : k \in Keys}) \cup activeFutures
      BY <3>2
    <3> QED
      BY <3>1, <3>3 DEF Waiting
  <2>4. \A c \in Calls : callAt'[c] # "waiting" /\ (c \in S => callAt[c] = "waiting")
    BY <2>1, <2>3 DEF Moved, Waiting
  <2>8. \A c \in Calls : callAt'[c] = callAt[c] \/ (callAt[c] = "waiting" /\ callAt'[c] = "cancelled")
    BY <2>1, <2>4 DEF Moved
  <2> HIDE DEF S
  <2>5. DeliveryTypeOK'
    <3>1. queue' \in Seq(Keys) /\ IsInjective(queue') /\ ToSet(queue') = {}
      BY <2>1 DEF IsInjective, ToSet
    <3> QED
      BY <2>1, <2>2, <3>1 DEF DeliveryTypeOK
  <2>9. NoCallerStranded' /\ NewestRuns'
    <3>1. \A c \in Calls : ~(callAt'[c] = "waiting")
      BY <2>4
    <3>2. NoCallerStranded'
      BY <3>1 DEF NoCallerStranded
    <3>3. activeFutures' \subseteq Calls /\ \A k \in Keys : futures'[k] = {}
      BY <2>1 DEF DeliveryTypeOK
    <3>4. NewestRuns'
      BY <3>1, <3>3 DEF NewestRuns
    <3> QED
      BY <3>2, <3>4
  <2>10. CallsFit'
    <3>1. \A c \in Calls : retries[c] \in Nat /\ retries' = retries
      BY <2>1 DEF DeliveryTypeOK
    <3> QED
      BY <2>1, <2>8, <3>1, CallsGoOn
  <2>6. NoCallerStranded' /\ CallsFit' /\ NewestRuns'
    BY <2>9, <2>10
  <2>7. QueueFits' /\ CloseFits'
    BY <2>1, <2>8 DEF QueueFits, CloseFits, DeliveryTypeOK, Enqueued, Unfinished
  <2> QED
    BY <2>5, <2>6, <2>7
<1>4. CASE EndShutdown
  BY <1>4 DEF EndShutdown, calls, queued, active, DeliveryTypeOK, NoCallerStranded, CallsFit,
     QueueFits,
     NewestRuns, Answers, CloseFits, Enqueued
<1> QED
  BY <1>1, <1>2, <1>3, <1>4

\* Every step of the limiter and of its callers keeps DeliveryInv.
LEMMA DeliveryStep == DeliveryInv /\ [DeliveryNext]_deliveryVars => DeliveryInv'
<1> SUFFICES ASSUME DeliveryInv, [DeliveryNext]_deliveryVars PROVE DeliveryInv'
  OBVIOUS
<1>1. ASSUME NEW c \in Calls, CancelCaller(c) PROVE DeliveryInv'
  <2>1. callAt[c] = "waiting" /\ callAt' = [callAt EXCEPT ![c] = "cancelled"]
        /\ UNCHANGED <<key, kind, retries, queue, func, futures, activeFunc, activeFutures, workerTask, shutting, shown>>
    BY <1>1 DEF CancelCaller, calls, queued, active
  <2>2. DeliveryTypeOK' /\ NoCallerStranded' /\ CallsFit'
    BY <2>1 DEF DeliveryInv, DeliveryTypeOK, NoCallerStranded, CallsFit
  <2>3. QueueFits' /\ NewestRuns' /\ CloseFits'
    BY <2>1 DEF DeliveryInv, DeliveryTypeOK, QueueFits, NewestRuns, Answers, CloseFits, Enqueued,
       LimiterIsOpen, Unfinished
  <2> QED
    BY <2>2, <2>3 DEF DeliveryInv
<1>2. CASE StartCall
  BY <1>2 DEF StartCall, calls, queued, active, DeliveryInv, DeliveryTypeOK, NoCallerStranded,
     CallsFit, QueueFits,
     NewestRuns, Answers, CloseFits, Enqueued, LimiterIsOpen
<1>3. CASE UNCHANGED deliveryVars
  BY <1>3 DEF deliveryVars, calls, queued, active, DeliveryInv, DeliveryTypeOK, NoCallerStranded,
     CallsFit, QueueFits,
     NewestRuns, Answers, CloseFits, Enqueued, LimiterIsOpen
<1> QED
  BY <1>1, <1>2, <1>3, CallKeeps, TaskEnqueues, TakeKeeps, OperationEnds, CloseKeeps
  DEF DeliveryNext, DeliveryWork

\* Every caller that waits has a future the worker or the queue holds, an operation runs
\* once, and after the close nothing runs and nobody waits (messaging/limiter.py and
\* outbox.py).
THEOREM DeliveryCorrectness == DeliverySpec => []DeliverySafety
  BY DeliveryImplied, DeliveryStarts, DeliveryStep, PTL DEF DeliverySpec

\* Only Deliver reports a call delivered, and the operation it ends is the newest.
LEMMA DeliveredFits ==
    ASSUME DeliveryInv, [DeliveryNext]_deliveryVars, NEW c \in Calls, callAt[c] = "waiting", callAt'[c] = "delivered"
    PROVE  Answers(activeFunc, c)
<1> USE DeliveryAssumption DEF DeliveryInv
<1>1. CASE Deliver
  <2>1. c \in activeFutures
    BY <1>1 DEF Deliver, Moved, Waiting
  <2> QED
    BY <2>1 DEF NewestRuns
<1>2. \A S, reached, d : d \in Calls /\ Moved(S, reached)[d] = "delivered" => reached = "delivered" \/ callAt[d] = "delivered"
  BY DEF Moved
<1>3. CASE Cancelled \/ StopWorker \/ CloseOutbox \/ Shutdown \/ CancelTasks
  BY <1>2, <1>3 DEF Cancelled, StopWorker, CloseOutbox, Shutdown, CancelTasks
<1>4. ASSUME NEW transient \in BOOLEAN, Fail(transient) PROVE FALSE
  BY <1>4 DEF Fail
<1>5. ASSUME NEW d \in Calls, CancelCaller(d) \/ Enqueue(d) PROVE FALSE
  BY <1>5 DEF CancelCaller, Enqueue, EnqueueUnder, DeliveryTypeOK
<1>6. ASSUME NEW k \in Keys, NEW who \in Kinds, Call(k, who) PROVE FALSE
  BY <1>6 DEF Call, EnqueueUnder, DeliveryTypeOK
<1>7. CASE Take \/ StartCall \/ EndShutdown \/ UNCHANGED deliveryVars
  BY <1>7 DEF Take, StartCall, EndShutdown, deliveryVars
<1> QED
  BY <1>1, <1>3, <1>4, <1>5, <1>6, <1>7 DEF DeliveryNext, DeliveryWork

\* A call is only told that its operation was delivered when that operation is its own or
\* that of a later call under the same key, or of a retry or of a task that started late.
THEOREM DeliveryIsHonest == DeliverySpec => OnlyTasksOvertake
<1> DEFINE A == \A c \in Calls : callAt[c] = "waiting" /\ callAt'[c] = "delivered" =>
                   \/ activeFunc >= c
                   \/ kind[activeFunc] = "forget" /\ (retries[activeFunc] > 0 \/ kind[c] # "forget")
<1>1. DeliveryInv /\ [DeliveryNext]_deliveryVars => [A]_deliveryVars
  BY DeliveredFits DEF Answers
<1>2. DeliverySpec => [][A]_deliveryVars
  BY <1>1, DeliveryStarts, DeliveryStep, PTL DEF DeliverySpec
<1> QED
  BY <1>2 DEF OnlyTasksOvertake

-----------------------------------------------------------------------------
(* Voice notes. *)

Early == {"unused", "sending"}
HandedStages == {"working", "handing", "unwinding", "finishing"}

\* A claim is that of a flow which is under way.
ClaimsFit == \A v \in Voices : owner[v] # NoFlow => stage[owner[v]] \notin {"unused", "ended"}

\* A note that was cancelled never gets its claim back.
TakenIsLost == \A x \in Cancellers : \A f \in taken[x] : ~Owns(f) /\ stage[f] # "unused"

\* The handoff task and what is left to the flow after it.
HandoffFits(f) ==
    /\ stage[f] \in {"unused", "sending", "working"} => handoff[f] = "none"
    /\ stage[f] \in {"finishing", "cleaning", "ended"} => handoff[f] \notin Alive
    /\ handoff[f] \in Alive /\ ~asked[f] => Owns(f)
    /\ asked[f] => cut[f] \/ ~Owns(f)
    /\ handoff[f] \in Alive \ {"created"} => handedOff[f]
    /\ handoff[f] = "ended" /\ ~handedOff[f] => failure[f] = "cancelled"
    /\ failure[f] = "cancelled" => asked[f] \/ cut[f]
    /\ failure[f] = "error" => handedOff[f]
    /\ stage[f] = "finishing" => handoff[f] = "ended"
    /\ stage[f] \in {"handing", "unwinding"} => handoff[f] \in Alive \cup {"ended"}
    /\ handoff[f] = "none" => ~asked[f]

\* A status message whose note lost its claim to nobody is the flow's to delete.
StatusFits(f) ==
    /\ stage[f] \in Early => status[f] = "none" /\ ~bound[f]
    /\ stage[f] \in HandedStages => bound[f]
    /\ bound[f] /\ stage[f] \in HandedStages => Owns(f) \/ f \in released
    /\ bound[f] /\ stage[f] = "cleaning" => Owns(f) \/ f \in released \/ handedOff[f] \/ cut[f]

VoiceInv ==
    /\ VoiceTypeOK /\ ClaimsFit /\ TakenIsLost /\ CancelledNoteIsQuiet /\ StatusHasOwner
    /\ \A f \in Flows : HandoffFits(f) /\ StatusFits(f)

\* The inductive invariant says what VoiceSafety does.
LEMMA VoiceImplied == VoiceInv => VoiceSafety
<1> SUFFICES ASSUME VoiceInv PROVE VoiceSafety
  OBVIOUS
<1> USE VoiceAssumption DEF VoiceInv
<1>1. OneHandlerPerNote
  BY DEF OneHandlerPerNote, HandoffFits, Owns, VoiceTypeOK
<1>2. NoClaimLeft
  BY DEF NoClaimLeft, ClaimsFit, Owns, VoiceTypeOK
<1> QED
  BY <1>1, <1>2 DEF VoiceSafety

\* No note is claimed and nobody cancels.
LEMMA VoiceStarts == VoiceInit => VoiceInv
<1> SUFFICES ASSUME VoiceInit PROVE VoiceInv
  OBVIOUS
<1> USE VoiceAssumption DEF VoiceInit
<1>1. (CHOOSE v \in Voices : TRUE) \in Voices
  OBVIOUS
<1>2. VoiceTypeOK
  <2>1. bound \in [Flows -> BOOLEAN] /\ handedOff \in [Flows -> BOOLEAN]
    OBVIOUS
  <2>2. asked \in [Flows -> BOOLEAN] /\ cut \in [Flows -> BOOLEAN]
    OBVIOUS
  <2>3. \A f \in Flows : cancellations[f] = "unused" /\ handoff[f] = "none"
    BY DEF Cancellers
  <2> QED
    BY <1>1, <2>1, <2>2, <2>3 DEF VoiceTypeOK
<1>3. ClaimsFit /\ TakenIsLost /\ CancelledNoteIsQuiet /\ StatusHasOwner
  BY DEF ClaimsFit, TakenIsLost, CancelledNoteIsQuiet, StatusHasOwner
<1>4. ASSUME NEW f \in Flows PROVE HandoffFits(f) /\ StatusFits(f)
  BY <1>4 DEF HandoffFits, StatusFits, Alive, Early, HandedStages, Owns
<1> QED
  BY <1>2, <1>3, <1>4 DEF VoiceInv

\* A note that is cancelled loses its claim, and its handoff is asked to end.
LEMMA VoiceNoteCancelled ==
    ASSUME NEW g \in Flows, HandoffFits(g), NEW notes,
           (~Owns(g))' <=> (~Owns(g) \/ g \in notes),
           asked'[g] <=> asked[g] \/ (g \in notes /\ handoff[g] \in Alive),
           handoff'[g] \in Alive <=> handoff[g] \in Alive,
           handoff'[g] \in Alive \ {"created"} <=> handoff[g] \in Alive \ {"created"},
           handoff'[g] = "ended" <=> handoff[g] = "ended",
           handoff'[g] = "none" <=> handoff[g] = "none",
           UNCHANGED <<stage, handedOff, failure, cut>>
    PROVE  HandoffFits(g)'
<1>1. "none" \notin Alive /\ "ended" \notin Alive
  BY DEF Alive
<1> QED
  BY <1>1 DEF HandoffFits

\* The steps of a voice flow, one for each await it can be suspended at.
LEMMA VoiceFlowGoesOn ==
    ASSUME VoiceInv, NEW f \in Flows, NEW v \in Voices,
           Receive(f, v) \/ FlowStep(f) \/ CutFlow(f)
    PROVE  VoiceInv'
<1> USE VoiceAssumption DEF VoiceInv, Step
<1>1. CASE Receive(f, v)
  <2> USE <1>1 DEF Receive, Reservable
  <2>0. \A w \in Voices : owner[w] # f
    BY DEF ClaimsFit
  <2>1. VoiceTypeOK'
    <3>1. owner' \in [Voices -> Flows \cup {NoFlow}] /\ voice' \in [Flows -> Voices]
      BY DEF VoiceTypeOK
    <3>2. \A w \in Voices : owner'[w] # NoFlow => voice'[owner'[w]] = w
      <4> SUFFICES ASSUME NEW w \in Voices, owner'[w] # NoFlow PROVE voice'[owner'[w]] = w
        OBVIOUS
      <4>1. CASE owner[w] # NoFlow
        BY <2>0, <4>1 DEF VoiceTypeOK
      <4>2. CASE owner[w] = NoFlow
        BY <4>2 DEF VoiceTypeOK
      <4> QED
        BY <4>1, <4>2
    <3>3. stage' \in [Flows -> {"unused", "sending", "working", "handing", "unwinding",
                              "finishing", "cleaning", "ended"}]
      BY DEF VoiceTypeOK
    <3> QED
      BY <3>1, <3>2, <3>3 DEF VoiceTypeOK
  <2>2. ClaimsFit'
    BY DEF ClaimsFit, VoiceTypeOK, HandoffFits
  <2>3. TakenIsLost' /\ CancelledNoteIsQuiet'
    BY DEF TakenIsLost, CancelledNoteIsQuiet, Owns, VoiceTypeOK, Alive
  <2>5. ASSUME NEW g \in Flows PROVE HandoffFits(g)'
    <3>1. CASE g = f
      BY <3>1 DEF HandoffFits, Alive, Owns, VoiceTypeOK
    <3>2. CASE g # f
      <4>1. Owns(g)' <=> Owns(g)
        BY <2>0, <3>2 DEF Owns, VoiceTypeOK
      <4> QED
        BY <3>2, <4>1 DEF HandoffFits, Alive, VoiceTypeOK
    <3> QED
      BY <3>1, <3>2
  <2>6. ASSUME NEW g \in Flows PROVE StatusFits(g)'
    BY DEF HandoffFits, StatusFits, Early, HandedStages, Owns, VoiceTypeOK
  <2>4. StatusHasOwner'
    BY DEF StatusHasOwner, StatusFits, HandoffFits, VoiceTypeOK, Owns, Early, HandedStages, Alive
  <2> QED
    BY <2>1, <2>2, <2>3, <2>4, <2>5, <2>6
<1>2. CASE StatusSent(f)
  <2> USE <1>2 DEF StatusSent
  <2>1. VoiceTypeOK'
    <3>1. Owns(f) \in BOOLEAN
      BY DEF Owns
    <3>2. bound' \in [Flows -> BOOLEAN]
      BY <3>1 DEF VoiceTypeOK
    <3> QED
      BY <3>2 DEF VoiceTypeOK
  <2>2. ClaimsFit'
    BY DEF ClaimsFit
  <2>3. TakenIsLost' /\ CancelledNoteIsQuiet'
    BY DEF TakenIsLost, CancelledNoteIsQuiet, Owns, Alive
  <2>5. ASSUME NEW g \in Flows PROVE HandoffFits(g)'
    BY DEF HandoffFits, Alive, Owns
  <2>6. ASSUME NEW g \in Flows PROVE StatusFits(g)'
    <3>1. CASE Owns(f)
      <4>1. bound' = [bound EXCEPT ![f] = TRUE] /\ stage' = [stage EXCEPT ![f] = "working"]
        BY <3>1
      <4> QED
        BY <3>1, <4>1 DEF StatusFits, Early, HandedStages, Owns, VoiceTypeOK
    <3>2. CASE ~Owns(f)
      <4>0. Owns(f) = FALSE
        BY <3>2 DEF Owns
      <4>1. bound' = [bound EXCEPT ![f] = FALSE] /\ stage' = [stage EXCEPT ![f] = "cleaning"]
        BY <4>0 DEF StatusSent
      <4> QED
        BY <4>1 DEF StatusFits, Early, HandedStages, Owns, VoiceTypeOK
    <3> QED
      BY <3>1, <3>2
  <2>4. StatusHasOwner'
    BY DEF StatusHasOwner
  <2> QED
    BY <2>1, <2>2, <2>3, <2>4, <2>5, <2>6
<1>3. CASE StageFails(f)
  <2> USE <1>3 DEF StageFails
  <2>1. VoiceTypeOK'
    BY DEF VoiceTypeOK, Alive
  <2>2. ClaimsFit'
    BY DEF ClaimsFit
  <2>3. TakenIsLost' /\ CancelledNoteIsQuiet'
    BY DEF TakenIsLost, CancelledNoteIsQuiet, Owns, Alive
  <2>5. ASSUME NEW g \in Flows PROVE HandoffFits(g)'
    BY DEF HandoffFits, Alive, Owns
  <2>6. ASSUME NEW g \in Flows PROVE StatusFits(g)'
    BY DEF StatusFits, Early, HandedStages, Owns
  <2>4. StatusHasOwner'
    BY DEF StatusHasOwner
  <2> QED
    BY <2>1, <2>2, <2>3, <2>4, <2>5, <2>6
<1>4. CASE Transcribed(f)
  <2> USE <1>4 DEF Transcribed, Publishable
  <2>1. VoiceTypeOK'
    BY DEF VoiceTypeOK, HandoffFits, Alive
  <2>2. ClaimsFit'
    BY DEF ClaimsFit, VoiceTypeOK, HandoffFits
  <2>3. TakenIsLost' /\ CancelledNoteIsQuiet'
    BY DEF TakenIsLost, CancelledNoteIsQuiet, Owns, VoiceTypeOK, Alive
  <2>5. ASSUME NEW g \in Flows PROVE HandoffFits(g)'
    BY DEF HandoffFits, Alive, Owns, VoiceTypeOK
  <2>6. ASSUME NEW g \in Flows PROVE StatusFits(g)'
    BY DEF HandoffFits, StatusFits, Early, HandedStages, Owns, VoiceTypeOK
  <2>4. StatusHasOwner'
    BY DEF StatusHasOwner, StatusFits, HandoffFits, VoiceTypeOK, Owns, Early, HandedStages, Alive
  <2> QED
    BY <2>1, <2>2, <2>3, <2>4, <2>5, <2>6
<1>5. CASE HandoffOver(f)
  <2> USE <1>5 DEF HandoffOver
  <2>1. VoiceTypeOK'
    BY DEF VoiceTypeOK, Alive
  <2>2. ClaimsFit'
    BY DEF ClaimsFit
  <2>3. TakenIsLost' /\ CancelledNoteIsQuiet'
    BY DEF TakenIsLost, CancelledNoteIsQuiet, Owns, Alive
  <2>5. ASSUME NEW g \in Flows PROVE HandoffFits(g)'
    BY DEF HandoffFits, Alive, Owns
  <2>6. ASSUME NEW g \in Flows PROVE StatusFits(g)'
    BY DEF StatusFits, Early, HandedStages, Owns
  <2>4. StatusHasOwner'
    BY DEF StatusHasOwner
  <2> QED
    BY <2>1, <2>2, <2>3, <2>4, <2>5, <2>6
<1>6. CASE FinishOwnership(f)
  <2> USE <1>6 DEF FinishOwnership
  <2>1. VoiceTypeOK'
    BY DEF VoiceTypeOK, Alive
  <2>2. ClaimsFit'
    BY DEF ClaimsFit, VoiceTypeOK, HandoffFits
  <2>3. TakenIsLost' /\ CancelledNoteIsQuiet'
    BY DEF TakenIsLost, CancelledNoteIsQuiet, Owns, VoiceTypeOK, Alive
  <2>5. ASSUME NEW g \in Flows PROVE HandoffFits(g)'
    BY DEF HandoffFits, Alive, Owns
  <2>6. ASSUME NEW g \in Flows PROVE StatusFits(g)'
    BY DEF HandoffFits, StatusFits, Early, HandedStages, Owns, VoiceTypeOK
  <2>4. StatusHasOwner'
    BY DEF StatusHasOwner, StatusFits, HandoffFits, VoiceTypeOK, Owns, Early, HandedStages, Alive
  <2> QED
    BY <2>1, <2>2, <2>3, <2>4, <2>5, <2>6
<1>7. CASE ClearFailed(f)
  <2> USE <1>7 DEF ClearFailed, DeletesStatus
  <2>1. VoiceTypeOK'
    BY DEF VoiceTypeOK, Alive
  <2>2. ClaimsFit'
    BY DEF ClaimsFit, VoiceTypeOK, HandoffFits
  <2>3. TakenIsLost' /\ CancelledNoteIsQuiet'
    BY DEF TakenIsLost, CancelledNoteIsQuiet, Owns, VoiceTypeOK, Alive
  <2>5. ASSUME NEW g \in Flows PROVE HandoffFits(g)'
    BY DEF HandoffFits, Alive, Owns
  <2>6. ASSUME NEW g \in Flows PROVE StatusFits(g)'
    BY DEF HandoffFits, StatusFits, Early, HandedStages, Owns, VoiceTypeOK
  <2>4. StatusHasOwner'
    BY DEF StatusHasOwner, StatusFits, HandoffFits, VoiceTypeOK, Owns, Early, HandedStages, Alive
  <2> QED
    BY <2>1, <2>2, <2>3, <2>4, <2>5, <2>6
<1>8. CASE CutFlow(f)
  <2> USE <1>8 DEF CutFlow
  <2>1. VoiceTypeOK'
    BY ZenonT(60) DEF VoiceTypeOK, Alive
  <2>2. ClaimsFit'
    BY DEF ClaimsFit, VoiceTypeOK, HandoffFits
  <2>3. TakenIsLost' /\ CancelledNoteIsQuiet'
    BY DEF TakenIsLost, CancelledNoteIsQuiet, Owns, VoiceTypeOK, Alive
  <2>5. ASSUME NEW g \in Flows PROVE HandoffFits(g)'
    BY DEF HandoffFits, Alive, Owns, VoiceTypeOK
  <2>6. ASSUME NEW g \in Flows PROVE StatusFits(g)'
    BY DEF HandoffFits, StatusFits, Early, HandedStages, Owns, VoiceTypeOK
  <2>4. StatusHasOwner'
    BY DEF StatusHasOwner, StatusFits, HandoffFits, VoiceTypeOK, Owns, Early, HandedStages, Alive
  <2> QED
    BY <2>1, <2>2, <2>3, <2>4, <2>5, <2>6
<1> QED
  BY <1>1, <1>2, <1>3, <1>4, <1>5, <1>6, <1>7, <1>8 DEF FlowStep

\* The steps of the task that hands a note to the workflow.
LEMMA VoiceHandoffGoesOn ==
    ASSUME VoiceInv, NEW f \in Flows, NEW how \in {"none", "error", "cancelled"},
           StartHandoff(f) \/ EndHandoff(f, how) \/ BeginCommand(f)
    PROVE  VoiceInv'
<1> USE VoiceAssumption DEF VoiceInv, Step
<1>1. CASE StartHandoff(f)
  <2> USE <1>1 DEF StartHandoff
  <2>1. VoiceTypeOK'
    BY DEF VoiceTypeOK, Alive
  <2>2. ClaimsFit'
    BY DEF ClaimsFit
  <2>3. TakenIsLost' /\ CancelledNoteIsQuiet'
    BY DEF TakenIsLost, CancelledNoteIsQuiet, Owns, Alive
  <2>5. ASSUME NEW g \in Flows PROVE HandoffFits(g)'
    <3>1. CASE asked[f]
      <4>1. /\ handoff' = [handoff EXCEPT ![f] = "ended"] /\ handedOff' = [handedOff EXCEPT ![f] = FALSE]
            /\ failure' = [failure EXCEPT ![f] = "cancelled"]
        BY <3>1
      <4> QED
        BY <3>1, <4>1 DEF HandoffFits, Alive, Owns, VoiceTypeOK
    <3>2. CASE ~asked[f]
      <4>1. /\ handoff' = [handoff EXCEPT ![f] = "running"] /\ handedOff' = [handedOff EXCEPT ![f] = TRUE]
            /\ failure' = failure
        BY <3>2 DEF VoiceTypeOK
      <4> QED
        BY <3>2, <4>1 DEF HandoffFits, Alive, Owns, VoiceTypeOK
    <3> QED
      BY <3>1, <3>2
  <2>6. ASSUME NEW g \in Flows PROVE StatusFits(g)'
    BY DEF HandoffFits, StatusFits, Early, HandedStages, Owns, VoiceTypeOK
  <2>4. StatusHasOwner'
    BY DEF StatusHasOwner, StatusFits, HandoffFits, VoiceTypeOK, Owns, Early, HandedStages, Alive
  <2> QED
    BY <2>1, <2>2, <2>3, <2>4, <2>5, <2>6
<1>2. CASE EndHandoff(f, how)
  <2> USE <1>2 DEF EndHandoff
  <2>1. VoiceTypeOK'
    BY DEF VoiceTypeOK, Alive
  <2>2. ClaimsFit'
    BY DEF ClaimsFit
  <2>3. TakenIsLost' /\ CancelledNoteIsQuiet'
    BY DEF TakenIsLost, CancelledNoteIsQuiet, Owns, Alive
  <2>5. ASSUME NEW g \in Flows PROVE HandoffFits(g)'
    BY DEF HandoffFits, Alive, Owns
  <2>6. ASSUME NEW g \in Flows PROVE StatusFits(g)'
    BY DEF StatusFits, Early, HandedStages, Owns
  <2>4. StatusHasOwner'
    BY DEF StatusHasOwner
  <2> QED
    BY <2>1, <2>2, <2>3, <2>4, <2>5, <2>6
<1>3. CASE BeginCommand(f)
  <2> USE <1>3 DEF BeginCommand
  <2>1. VoiceTypeOK'
    BY DEF VoiceTypeOK, Alive
  <2>2. ClaimsFit'
    BY DEF ClaimsFit
  <2>3. TakenIsLost' /\ CancelledNoteIsQuiet'
    BY DEF TakenIsLost, CancelledNoteIsQuiet, Owns, Alive
  <2>5. ASSUME NEW g \in Flows PROVE HandoffFits(g)'
    BY DEF HandoffFits, Alive, Owns
  <2>6. ASSUME NEW g \in Flows PROVE StatusFits(g)'
    BY DEF StatusFits, Early, HandedStages, Owns
  <2>4. StatusHasOwner'
    BY DEF StatusHasOwner
  <2> QED
    BY <2>1, <2>2, <2>3, <2>4, <2>5, <2>6
<1> QED
  BY <1>1, <1>2, <1>3

\* A command takes the notes it cancels, asks their handoffs to stop and waits for them.
LEMMA VoiceCancels ==
    ASSUME VoiceInv, NEW x \in Cancellers, NEW notes \in SUBSET Flows, CancelNotes(x, notes) \/ EndCancellation(x)
    PROVE  VoiceInv'
<1> USE VoiceAssumption DEF VoiceInv, Step
<1>1. CASE CancelNotes(x, notes)
  <2> USE <1>1 DEF CancelNotes, MayCancel, Cancellers
  <2>1. VoiceTypeOK'
    BY DEF VoiceTypeOK, Alive
  <2>2. ClaimsFit'
    BY DEF ClaimsFit
  <2>3. TakenIsLost' /\ CancelledNoteIsQuiet'
    <3>1. \A g \in Flows : Owns(g)' <=> Owns(g) /\ g \notin notes
      BY DEF Owns, VoiceTypeOK
    <3>2. TakenIsLost'
      BY <3>1 DEF TakenIsLost, VoiceTypeOK, ClaimsFit, Owns
    <3>3. \A g \in Flows : handoff'[g] \in Alive => handoff[g] \in Alive
      BY DEF Alive
    <3>4. CancelledNoteIsQuiet'
      BY <3>3 DEF CancelledNoteIsQuiet, VoiceTypeOK
    <3> QED
      BY <3>2, <3>4
  <2>5. ASSUME NEW g \in Flows PROVE HandoffFits(g)'
    <3>1. Owns(g)' <=> Owns(g) /\ g \notin notes
      BY DEF Owns, VoiceTypeOK
    <3>3. asked'[g] <=> asked[g] \/ (g \in notes /\ handoff[g] \in Alive)
      OBVIOUS
    <3>4. /\ handoff'[g] \in Alive \ {"created"} <=> handoff[g] \in Alive \ {"created"}
          /\ handoff'[g] = "created" <=> handoff[g] = "created"
          /\ handoff'[g] = "ended" <=> handoff[g] = "ended"
          /\ handoff'[g] = "none" <=> handoff[g] = "none"
      BY DEF Alive
    <3>5. UNCHANGED <<stage, bound, handedOff, failure, cut>>
      BY DEF CancelNotes
    <3>6. handoff'[g] \in Alive <=> handoff[g] \in Alive
      BY <3>4 DEF Alive
    <3> QED
      BY <3>1, <3>3, <3>4, <3>5, <3>6, VoiceNoteCancelled
  <2>6. ASSUME NEW g \in Flows PROVE StatusFits(g)'
    BY DEF HandoffFits, StatusFits, Early, HandedStages, Owns, VoiceTypeOK
  <2>4. StatusHasOwner'
    BY DEF StatusHasOwner
  <2> QED
    BY <2>1, <2>2, <2>3, <2>4, <2>5, <2>6
<1>2. CASE EndCancellation(x)
  <2> USE <1>2 DEF EndCancellation, Drained, Cancellers
  <2>1. VoiceTypeOK'
    BY DEF VoiceTypeOK, Alive
  <2>2. ClaimsFit'
    BY DEF ClaimsFit
  <2>3. TakenIsLost' /\ CancelledNoteIsQuiet'
    BY DEF TakenIsLost, CancelledNoteIsQuiet, Owns, VoiceTypeOK, Alive
  <2>5. ASSUME NEW g \in Flows PROVE HandoffFits(g)'
    BY DEF HandoffFits, Alive, Owns, VoiceTypeOK
  <2>6. ASSUME NEW g \in Flows PROVE StatusFits(g)'
    BY DEF StatusFits, Early, HandedStages, Owns
  <2>4. StatusHasOwner'
    BY DEF StatusHasOwner
  <2> QED
    BY <2>1, <2>2, <2>3, <2>4, <2>5, <2>6
<1> QED
  BY <1>1, <1>2

\* Every step of the flows, of their handoffs and of the commands keeps VoiceInv.
LEMMA VoiceStep == VoiceInv /\ [VoiceNext]_voiceVars => VoiceInv'
<1> SUFFICES ASSUME VoiceInv, [VoiceNext]_voiceVars PROVE VoiceInv'
  OBVIOUS
<1>1. CASE UNCHANGED voiceVars
  BY <1>1 DEF voiceVars, VoiceInv, VoiceTypeOK, ClaimsFit, TakenIsLost, CancelledNoteIsQuiet,
     StatusHasOwner, HandoffFits, StatusFits, Owns
<1>2. ASSUME NEW x \in Cancellers, CancelAll(x) PROVE VoiceInv'
  BY <1>2, VoiceCancels DEF CancelAll
<1>3. ASSUME NEW x \in Cancellers, NEW f \in Flows, CancelOne(x, f) PROVE VoiceInv'
  BY <1>3, VoiceCancels DEF CancelOne
<1>4. Flows \subseteq Cancellers /\ Commands \subseteq Cancellers
  BY DEF Cancellers
<1>5. ASSUME NEW f \in Flows, FlowStep(f) \/ CutFlow(f) PROVE VoiceInv'
  BY <1>5, VoiceFlowGoesOn, VoiceAssumption
<1>6. ASSUME NEW f \in Flows, HandoffStep(f) \/ BeginCommand(f) PROVE VoiceInv'
  BY <1>6, <1>2, <1>4, VoiceHandoffGoesOn DEF HandoffStep
<1>7. ASSUME NEW x \in Cancellers, EndCancellation(x) PROVE VoiceInv'
  BY <1>7, VoiceCancels
<1>8. ASSUME NEW f \in Flows, NEW v \in Voices, Receive(f, v) PROVE VoiceInv'
  BY <1>8, VoiceFlowGoesOn
<1> QED
  BY <1>1, <1>2, <1>3, <1>4, <1>5, <1>6, <1>7, <1>8 DEF VoiceNext, VoiceWork

\* A note has one handler, a cancelled note stays quiet, no claim outlives its flow, and a
\* status message has an owner that deletes it (messaging/voice.py and workflow.py).
THEOREM VoiceCorrectness == VoiceSpec => []VoiceSafety
  BY VoiceImplied, VoiceStarts, VoiceStep, PTL DEF VoiceSpec

-----------------------------------------------------------------------------
(* Managed CLI sessions. *)

\* Places at which a turn iterates its generator, and so has its session's lock.
Iterating == {"starting", "reading", "handling", "registering", "stopping", "draining"}

\* A session that is not made has nothing.
SessionFresh(s) ==
    pool[s] = "unused" =>
        /\ latest[s] = NoTurn /\ cliLock[s] = NoTurn /\ lifeLock[s] = "free" /\ ~sessionClosed[s]
        /\ stoppers[s]["generator"] = "no" /\ stoppers[s]["pool"] = "no" /\ s \notin poolSweep
        /\ \A t \in Turns : mine[t] # s

\* A session that is stopped, or was, is closed; and who stops it is known.
SessionFits(s) ==
    /\ lifeLock[s] = "start" => /\ ~sessionClosed[s] /\ cliLock[s] \in Turns
                                /\ place[cliLock[s]] = "starting" /\ mine[cliLock[s]] = s
    /\ lifeLock[s] \in Stoppers => sessionClosed[s]
    /\ pool[s] = "forgotten" => sessionClosed[s]
    /\ latest[s] # NoTurn => /\ process[latest[s]] \in {"running", "killed", "exited"}
                             /\ mine[latest[s]] = s
    /\ stoppers[s]["generator"] # "no" =>
         \/ sessionClosed[s]
         \/ cliLock[s] \in Turns /\ place[cliLock[s]] = "stopping" /\ mine[cliLock[s]] = s
    /\ stoppers[s]["pool"] # "no" =>
         /\ poolLock # NoTurn
         /\ poolLock = "all" => s \in poolSweep
         /\ poolLock \in Turns => mine[poolLock] = s

\* What the place of a turn says of its session and of its process.
TurnFits(t) ==
    /\ place[t] \in {"unused", "asking", "queued"} => process[t] = "none"
    /\ place[t] = "starting" <=> process[t] = "starting"
    /\ place[t] \in Iterating \cup {"queued", "removing"} => mine[t] \in Sessions
    /\ place[t] \in Iterating => cliLock[mine[t]] = t
    /\ place[t] = "starting" => lifeLock[mine[t]] = "start"
    /\ place[t] \in {"starting", "reading", "handling", "registering"} =>
         stoppers[mine[t]]["generator"] = "no"
    /\ place[t] = "draining" => sessionClosed[mine[t]]
    /\ place[t] = "removing" <=> poolLock = t

\* A process that runs is registered, and the last of a session that is in the pool.
ProcessFits(t) ==
    /\ Running(t) => mine[t] \in Pooled
    /\ process[t] \in {"running", "killed"} =>
         /\ t \in registered /\ latest[mine[t]] = t
         /\ cliLock[mine[t]] = t \/ sessionClosed[mine[t]]

ManagedInv ==
    /\ ManagedTypeOK
    /\ \A s \in Sessions : SessionFresh(s) /\ SessionFits(s)
    /\ \A t \in Turns : TurnFits(t) /\ ProcessFits(t)

\* The inductive invariant says what ManagedSafety does.
LEMMA ManagedImplied == ManagedInv => ManagedSafety
<1> SUFFICES ASSUME ManagedInv PROVE ManagedSafety
  OBVIOUS
<1> USE ManagedAssumption DEF ManagedInv
<1>1. RunningIsRegistered
  BY DEF RunningIsRegistered, ProcessFits
<1>2. ForgottenIsDead
  BY DEF ForgottenIsDead, ProcessFits
<1>3. ASSUME NEW t \in Turns, NEW u \in Turns, t # u, mine[t] = mine[u], Running(t), Running(u)
      PROVE  FALSE
  <2>1. mine[t] \in Sessions
    BY <1>3 DEF ProcessFits, Pooled
  <2>2. process[t] = "starting" => cliLock[mine[t]] = t /\ ~sessionClosed[mine[t]]
    BY <2>1 DEF TurnFits, SessionFits, Iterating
  <2>3. process[u] = "starting" => cliLock[mine[u]] = u /\ ~sessionClosed[mine[u]]
    BY <1>3, <2>1 DEF TurnFits, SessionFits, Iterating
  <2> QED
    BY <1>3, <2>1, <2>2, <2>3 DEF ProcessFits, Running
<1> QED
  BY <1>1, <1>2, <1>3 DEF ManagedSafety, OneProcess

\* A session nothing happens to.
LEMMA FreshStays ==
    ASSUME NEW r \in Sessions, SessionFresh(r), pool'[r] = pool[r], lifeLock'[r] = lifeLock[r],
           stoppers'[r] = stoppers[r], (~sessionClosed[r])' <=> ~sessionClosed[r],
           poolSweep' \subseteq poolSweep, UNCHANGED <<latest, cliLock, mine>>
    PROVE  SessionFresh(r)'
  BY DEF SessionFresh

\* The pool is empty and no turn has a process.
LEMMA ManagedStarts == ManagedInit => ManagedInv
<1> SUFFICES ASSUME ManagedInit PROVE ManagedInv
  OBVIOUS
<1> USE ManagedAssumption DEF ManagedInit
<1>1. ManagedTypeOK
  <2>1. sessionClosed \in [Sessions -> BOOLEAN]
    OBVIOUS
  <2>2. stoppers \in [Sessions -> [Stoppers -> {"no", "waiting", "killing"}]]
    OBVIOUS
  <2>3. \A s \in Sessions, h \in Stoppers : stoppers[s][h] = "no" /\ lifeLock[s] # h
    BY DEF Stoppers
  <2> QED
    BY <2>1, <2>2, <2>3 DEF ManagedTypeOK, Pooled
<1>2. ASSUME NEW s \in Sessions PROVE SessionFresh(s) /\ SessionFits(s)
  BY <1>2 DEF SessionFresh, SessionFits, Stoppers
<1>3. ASSUME NEW t \in Turns PROVE TurnFits(t) /\ ProcessFits(t)
  BY <1>3 DEF TurnFits, ProcessFits, Iterating, Running
<1> QED
  BY <1>1, <1>2, <1>3 DEF ManagedInv
\* A turn gets its session and its process.
\* A turn gets its session and its process.
\* A turn gets its session and its process.
\* A turn gets its session and its process.
\* A turn gets its session and its process.
\* A turn gets its session and its process.
\* A turn gets its session and its process.
\* A turn gets its session and its process.
LEMMA ManagedAsks ==
    ASSUME ManagedInv, NEW t \in Turns, NEW p \in Parents \cup {NoParent}, NEW ok \in BOOLEAN,
           Ask(t, p) \/ StartTask(t) \/ Spawned(t, ok)
    PROVE  ManagedInv'
<1> USE ManagedAssumption DEF ManagedInv, Goes
<1>1. CASE Ask(t, p)
  <2> USE <1>1 DEF Ask
  <2>1. ManagedTypeOK'
    BY DEF ManagedTypeOK, Pooled, Stoppers
  <2>2. ASSUME NEW r \in Sessions PROVE SessionFresh(r)'
    BY DEF SessionFresh
  <2>3. ASSUME NEW r \in Sessions PROVE SessionFits(r)'
    BY DEF SessionFits, Stoppers
  <2>4. ASSUME NEW u \in Turns PROVE TurnFits(u)'
    BY DEF TurnFits, Iterating
  <2>5. ASSUME NEW u \in Turns PROVE ProcessFits(u)'
    BY DEF ProcessFits, Pooled, Running
  <2> QED
    BY <2>1, <2>2, <2>3, <2>4, <2>5
<1>2. CASE StartTask(t)
  <2> USE <1>2 DEF StartTask, MayStart
  <2>1. ManagedTypeOK'
    <3>1. place' \in [Turns -> {"unused", "asking", "queued", "starting", "reading", "handling",
                              "registering", "stopping", "draining", "leaving", "removing", "ended"}]
      BY DEF ManagedTypeOK
    <3>2. process' \in [Turns -> {"none", "starting", "running", "killed", "exited"}]
      BY DEF ManagedTypeOK
    <3>3. pool' \in [Sessions -> {"unused", "temporary", "real", "forgotten"}]
      BY DEF ManagedTypeOK
    <3>8. latest' \in [Sessions -> Turns \cup {NoTurn}]
      BY DEF ManagedTypeOK
    <3>9. cliLock' \in [Sessions -> Turns \cup {NoTurn}]
      BY DEF ManagedTypeOK
    <3>10. lifeLock' \in [Sessions -> Stoppers \cup {"free", "start"}]
      BY DEF ManagedTypeOK, Stoppers
    <3>4. stoppers' \in [Sessions -> [Stoppers -> {"no", "waiting", "killing"}]]
      BY DEF ManagedTypeOK, Stoppers
    <3>5. \A s2 \in Sessions, h2 \in Stoppers : stoppers'[s2][h2] = "killing" <=> lifeLock'[s2] = h2
      BY DEF ManagedTypeOK, Stoppers
    <3>6. sessionClosed' \in [Sessions -> BOOLEAN]
      BY DEF ManagedTypeOK
    <3>7. sessionClosing' \subseteq Pooled' /\ poolSweep' \subseteq Sessions
      BY DEF ManagedTypeOK, Pooled
    <3> QED
      BY <3>1, <3>2, <3>3, <3>4, <3>5, <3>6, <3>7, <3>8, <3>9, <3>10 DEF ManagedTypeOK, Pooled
  <2>2. ASSUME NEW r \in Sessions PROVE SessionFresh(r)'
    BY DEF SessionFresh, TurnFits, ManagedTypeOK, Iterating, Pooled
  <2>3. ASSUME NEW r \in Sessions PROVE SessionFits(r)'
    BY SMTT(40) DEF SessionFits, SessionFresh, TurnFits, ManagedTypeOK, Iterating, Stoppers
  <2>4. ASSUME NEW u \in Turns PROVE TurnFits(u)'
    BY DEF SessionFits, SessionFresh, TurnFits, ManagedTypeOK, Iterating, Stoppers
  <2>5. ASSUME NEW u \in Turns PROVE ProcessFits(u)'
    BY DEF SessionFits, SessionFresh, TurnFits, ProcessFits, ManagedTypeOK, Iterating, Pooled,
       Running
  <2> QED
    BY <2>1, <2>2, <2>3, <2>4, <2>5
<1>3. CASE Spawned(t, ok)
  <2> USE <1>3 DEF Spawned
  <2>1. ManagedTypeOK'
    <3>1. place' \in [Turns -> {"unused", "asking", "queued", "starting", "reading", "handling",
                              "registering", "stopping", "draining", "leaving", "removing", "ended"}]
      BY DEF ManagedTypeOK
    <3>2. process' \in [Turns -> {"none", "starting", "running", "killed", "exited"}]
      BY DEF ManagedTypeOK
    <3>3. pool' \in [Sessions -> {"unused", "temporary", "real", "forgotten"}]
      BY DEF ManagedTypeOK
    <3>8. latest' \in [Sessions -> Turns \cup {NoTurn}]
      BY DEF ManagedTypeOK
    <3>9. cliLock' \in [Sessions -> Turns \cup {NoTurn}]
      BY DEF ManagedTypeOK
    <3>10. lifeLock' \in [Sessions -> Stoppers \cup {"free", "start"}]
      BY DEF ManagedTypeOK, Stoppers
    <3>4. stoppers' \in [Sessions -> [Stoppers -> {"no", "waiting", "killing"}]]
      BY DEF ManagedTypeOK, Stoppers
    <3>5. \A s2 \in Sessions, h2 \in Stoppers : stoppers'[s2][h2] = "killing" <=> lifeLock'[s2] = h2
      BY DEF ManagedTypeOK, TurnFits, SessionFits, Iterating, Stoppers
    <3>6. sessionClosed' \in [Sessions -> BOOLEAN]
      BY DEF ManagedTypeOK
    <3>7. sessionClosing' \subseteq Pooled' /\ poolSweep' \subseteq Sessions
      BY DEF ManagedTypeOK, Pooled
    <3> QED
      BY <3>1, <3>2, <3>3, <3>4, <3>5, <3>6, <3>7, <3>8, <3>9, <3>10 DEF ManagedTypeOK, Pooled
  <2>2. ASSUME NEW r \in Sessions PROVE SessionFresh(r)'
    BY DEF SessionFresh, TurnFits, ManagedTypeOK, Iterating, Pooled
  <2>3. ASSUME NEW r \in Sessions PROVE SessionFits(r)'
    BY DEF SessionFits, SessionFresh, TurnFits, ManagedTypeOK, Iterating, Stoppers
  <2>4. ASSUME NEW u \in Turns PROVE TurnFits(u)'
    BY DEF SessionFits, SessionFresh, TurnFits, ManagedTypeOK, Iterating, Stoppers
  <2>5. ASSUME NEW u \in Turns PROVE ProcessFits(u)'
    BY DEF SessionFits, SessionFresh, TurnFits, ProcessFits, ManagedTypeOK, Iterating, Pooled,
       Running
  <2> QED
    BY <2>1, <2>2, <2>3, <2>4, <2>5
<1> QED
  BY <1>1, <1>2, <1>3

\* A turn gets a session of the pool, or a new one.
LEMMA ManagedGets ==
    ASSUME ManagedInv, NEW t \in Turns, GetSession(t)
    PROVE  ManagedInv'
<1> USE ManagedAssumption DEF ManagedInv, Goes
<1>1. /\ place[t] = "asking" /\ poolLock = NoTurn
      /\ UNCHANGED <<parent, cancels, registered, latest, stoppers, sessionClosed, sessionClosing, poolLock, poolSweep, sweeps>>
  BY DEF GetSession
<1>2. ASSUME place' = [place EXCEPT ![t] = "ended"], UNCHANGED <<mine, pool, process, cliLock, lifeLock>>
      PROVE  ManagedInv'
  <2> USE <1>1, <1>2
  <2>1. ManagedTypeOK'
    BY DEF ManagedTypeOK, Pooled, Stoppers
  <2>2. ASSUME NEW r \in Sessions PROVE SessionFresh(r)'
    BY DEF SessionFresh
  <2>3. ASSUME NEW r \in Sessions PROVE SessionFits(r)'
    BY DEF SessionFits, Stoppers
  <2>4. ASSUME NEW u \in Turns PROVE TurnFits(u)'
    BY DEF TurnFits, Iterating
  <2>5. ASSUME NEW u \in Turns PROVE ProcessFits(u)'
    BY DEF ProcessFits, Pooled, Running
  <2> QED
    BY <2>1, <2>2, <2>3, <2>4, <2>5
<1>3. ASSUME NEW s \in Pooled, place' = [place EXCEPT ![t] = "queued"], mine' = [mine EXCEPT ![t] = s],
             UNCHANGED <<pool, process, cliLock, lifeLock>>
      PROVE  ManagedInv'
  <2> USE <1>1, <1>3
  <2>1. ManagedTypeOK'
    BY DEF ManagedTypeOK, Pooled, Stoppers
  <2>2. ASSUME NEW r \in Sessions PROVE SessionFresh(r)'
    BY DEF SessionFresh, Pooled
  <2>3. ASSUME NEW r \in Sessions PROVE SessionFits(r)'
    BY DEF SessionFits, SessionFresh, TurnFits, ManagedTypeOK, Iterating, Stoppers
  <2>4. ASSUME NEW u \in Turns PROVE TurnFits(u)'
    <3>1. s \in Sessions /\ pool[s] # "unused"
      BY DEF Pooled
    <3> QED
      BY <3>1 DEF SessionFits, SessionFresh, TurnFits, ManagedTypeOK, Iterating, Stoppers
  <2>5. ASSUME NEW u \in Turns PROVE ProcessFits(u)'
    BY DEF SessionFits, SessionFresh, TurnFits, ProcessFits, ManagedTypeOK, Iterating, Pooled,
       Running
  <2> QED
    BY <2>1, <2>2, <2>3, <2>4, <2>5
<1>4. ASSUME NEW s \in Sessions, pool[s] = "unused", place' = [place EXCEPT ![t] = "starting"], mine' = [mine EXCEPT ![t] = s],
             pool' = [pool EXCEPT ![s] = "temporary"], process' = [process EXCEPT ![t] = "starting"],
             cliLock' = [cliLock EXCEPT ![s] = t], lifeLock' = [lifeLock EXCEPT ![s] = "start"]
      PROVE  ManagedInv'
  <2> USE <1>1, <1>4
  <2>1. ManagedTypeOK'
    <3>1. place' \in [Turns -> {"unused", "asking", "queued", "starting", "reading", "handling",
                              "registering", "stopping", "draining", "leaving", "removing", "ended"}]
      BY DEF ManagedTypeOK
    <3>2. process' \in [Turns -> {"none", "starting", "running", "killed", "exited"}]
      BY DEF ManagedTypeOK
    <3>3. pool' \in [Sessions -> {"unused", "temporary", "real", "forgotten"}]
      BY DEF ManagedTypeOK
    <3>8. latest' \in [Sessions -> Turns \cup {NoTurn}]
      BY DEF ManagedTypeOK
    <3>9. cliLock' \in [Sessions -> Turns \cup {NoTurn}]
      BY DEF ManagedTypeOK
    <3>10. lifeLock' \in [Sessions -> Stoppers \cup {"free", "start"}]
      BY DEF ManagedTypeOK, Stoppers
    <3>4. stoppers' \in [Sessions -> [Stoppers -> {"no", "waiting", "killing"}]]
      BY DEF ManagedTypeOK, Stoppers
    <3>5. \A s2 \in Sessions, h2 \in Stoppers : stoppers'[s2][h2] = "killing" <=> lifeLock'[s2] = h2
      BY DEF ManagedTypeOK, SessionFresh, Stoppers
    <3>6. sessionClosed' \in [Sessions -> BOOLEAN]
      BY DEF ManagedTypeOK
    <3>7. sessionClosing' \subseteq Pooled' /\ poolSweep' \subseteq Sessions
      BY DEF ManagedTypeOK, Pooled
    <3> QED
      BY <3>1, <3>2, <3>3, <3>4, <3>5, <3>6, <3>7, <3>8, <3>9, <3>10 DEF ManagedTypeOK, Pooled
  <2>2. ASSUME NEW r \in Sessions PROVE SessionFresh(r)'
    BY DEF SessionFresh, TurnFits, ManagedTypeOK, Iterating, Pooled
  <2>3. ASSUME NEW r \in Sessions PROVE SessionFits(r)'
    BY DEF SessionFits, SessionFresh, TurnFits, ManagedTypeOK, Iterating, Stoppers
  <2>4. ASSUME NEW u \in Turns PROVE TurnFits(u)'
    BY DEF SessionFits, SessionFresh, TurnFits, ManagedTypeOK, Iterating, Stoppers
  <2>5. ASSUME NEW u \in Turns PROVE ProcessFits(u)'
    BY DEF SessionFits, SessionFresh, TurnFits, ProcessFits, ManagedTypeOK, Iterating, Pooled,
       Running
  <2> QED
    BY <2>1, <2>2, <2>3, <2>4, <2>5
<1>5. CASE LockHolders(parent[t]) # {}
  <2>1. PICK s \in LockHolders(parent[t]) :
              /\ IF s \in sessionClosing
                 THEN Goes(t, "ended") /\ UNCHANGED mine
                 ELSE Goes(t, "queued") /\ mine' = [mine EXCEPT ![t] = s]
              /\ UNCHANGED <<pool, process, cliLock, lifeLock>>
    BY <1>5 DEF GetSession
  <2>2. s \in Pooled
    BY DEF LockHolders
  <2> QED
    BY <2>1, <2>2, <1>2, <1>3
<1>6. CASE LockHolders(parent[t]) = {}
  <2> DEFINE s == CHOOSE s \in Unused : TRUE
  <2>1. s \in Unused
    BY <1>6 DEF GetSession
  <2>2. s \in Sessions /\ pool[s] = "unused"
    BY <2>1 DEF Unused
  <2>3. /\ place' = [place EXCEPT ![t] = "starting"] /\ mine' = [mine EXCEPT ![t] = s]
        /\ pool' = [pool EXCEPT ![s] = "temporary"] /\ process' = [process EXCEPT ![t] = "starting"]
        /\ cliLock' = [cliLock EXCEPT ![s] = t] /\ lifeLock' = [lifeLock EXCEPT ![s] = "start"]
    BY <1>6 DEF GetSession
  <2> HIDE DEF s
  <2> QED
    BY <2>2, <2>3, <1>4
<1> QED
  BY <1>5, <1>6

\* A turn iterates its generator, and leaves it.
LEMMA ManagedReads ==
    ASSUME ManagedInv, NEW t \in Turns, NEW from, NEW to,
           <<from, to>> \in {<<"reading", "handling">>, <<"reading", "registering">>, <<"handling", "reading">>},
           Iterate(t, from, to) \/ Register(t) \/ ReadToEnd(t) \/ CloseGenerator(t) \/ BeginRemove(t)
    PROVE  ManagedInv'
<1> USE ManagedAssumption DEF ManagedInv, Goes
<1>1. CASE Iterate(t, from, to)
  <2> USE <1>1 DEF Iterate
  <2>1. ManagedTypeOK'
    BY DEF ManagedTypeOK, Pooled, Stoppers
  <2>2. ASSUME NEW r \in Sessions PROVE SessionFresh(r)'
    BY DEF SessionFresh
  <2>3. ASSUME NEW r \in Sessions PROVE SessionFits(r)'
    BY DEF SessionFits, Stoppers
  <2>4. ASSUME NEW u \in Turns PROVE TurnFits(u)'
    BY DEF TurnFits, Iterating
  <2>5. ASSUME NEW u \in Turns PROVE ProcessFits(u)'
    BY DEF ProcessFits, Pooled, Running
  <2> QED
    BY <2>1, <2>2, <2>3, <2>4, <2>5
<1>2. CASE Register(t)
  <2> USE <1>2 DEF Register
  <2>1. ManagedTypeOK'
    <3>1. place' \in [Turns -> {"unused", "asking", "queued", "starting", "reading", "handling",
                              "registering", "stopping", "draining", "leaving", "removing", "ended"}]
      BY DEF ManagedTypeOK
    <3>2. process' \in [Turns -> {"none", "starting", "running", "killed", "exited"}]
      BY DEF ManagedTypeOK
    <3>3. pool' \in [Sessions -> {"unused", "temporary", "real", "forgotten"}]
      BY DEF ManagedTypeOK
    <3>8. latest' \in [Sessions -> Turns \cup {NoTurn}]
      BY DEF ManagedTypeOK
    <3>9. cliLock' \in [Sessions -> Turns \cup {NoTurn}]
      BY DEF ManagedTypeOK
    <3>10. lifeLock' \in [Sessions -> Stoppers \cup {"free", "start"}]
      BY DEF ManagedTypeOK, Stoppers
    <3>4. stoppers' \in [Sessions -> [Stoppers -> {"no", "waiting", "killing"}]]
      BY DEF ManagedTypeOK, Stoppers
    <3>5. \A s2 \in Sessions, h2 \in Stoppers : stoppers'[s2][h2] = "killing" <=> lifeLock'[s2] = h2
      BY DEF ManagedTypeOK, Stoppers
    <3>6. sessionClosed' \in [Sessions -> BOOLEAN]
      BY DEF ManagedTypeOK
    <3>7. sessionClosing' \subseteq Pooled' /\ poolSweep' \subseteq Sessions
      BY DEF ManagedTypeOK, Pooled
    <3> QED
      BY <3>1, <3>2, <3>3, <3>4, <3>5, <3>6, <3>7, <3>8, <3>9, <3>10 DEF ManagedTypeOK, Pooled
  <2>2. ASSUME NEW r \in Sessions PROVE SessionFresh(r)'
    BY DEF SessionFresh
  <2>3. ASSUME NEW r \in Sessions PROVE SessionFits(r)'
    BY DEF SessionFits, Stoppers
  <2>4. ASSUME NEW u \in Turns PROVE TurnFits(u)'
    BY DEF TurnFits, Iterating
  <2>5. ASSUME NEW u \in Turns PROVE ProcessFits(u)'
    BY DEF ProcessFits, Pooled, Running
  <2> QED
    BY <2>1, <2>2, <2>3, <2>4, <2>5
<1>3. CASE ReadToEnd(t)
  <2> USE <1>3 DEF ReadToEnd, ReleaseCli
  <2>1. ManagedTypeOK'
    BY ZenonT(60) DEF ManagedTypeOK, Pooled, Stoppers
  <2>2. ASSUME NEW r \in Sessions PROVE SessionFresh(r)'
    BY DEF SessionFresh
  <2>3. ASSUME NEW r \in Sessions PROVE SessionFits(r)'
    BY DEF SessionFits, Stoppers
  <2>4. ASSUME NEW u \in Turns PROVE TurnFits(u)'
    BY DEF SessionFits, SessionFresh, TurnFits, ManagedTypeOK, Iterating, Stoppers
  <2>5. ASSUME NEW u \in Turns PROVE ProcessFits(u)'
    BY DEF ProcessFits, Pooled, Running
  <2> QED
    BY <2>1, <2>2, <2>3, <2>4, <2>5
<1>4. CASE CloseGenerator(t)
  <2> USE <1>4 DEF CloseGenerator, ReleaseCli, Closable
  <2>1. ManagedTypeOK'
    BY DEF ManagedTypeOK, Pooled, Stoppers
  <2>2. ASSUME NEW r \in Sessions PROVE SessionFresh(r)'
    BY DEF SessionFresh
  <2>3. ASSUME NEW r \in Sessions PROVE SessionFits(r)'
    BY DEF SessionFits, Stoppers
  <2>4. ASSUME NEW u \in Turns PROVE TurnFits(u)'
    BY DEF TurnFits, Iterating
  <2>5. ASSUME NEW u \in Turns PROVE ProcessFits(u)'
    BY DEF ProcessFits, Pooled, Running
  <2> QED
    BY <2>1, <2>2, <2>3, <2>4, <2>5
<1>5. CASE BeginRemove(t)
  <2> USE <1>5 DEF BeginRemove
  <2>0. \/ /\ mine[t] \in Pooled /\ place' = [place EXCEPT ![t] = "removing"] /\ poolLock' = t
           /\ sessionClosing' = sessionClosing \cup {mine[t]}
           /\ stoppers' = [stoppers EXCEPT ![mine[t]]["pool"] = "waiting"]
        \/ /\ place' = [place EXCEPT ![t] = "ended"] /\ UNCHANGED <<poolLock, sessionClosing, stoppers>>
    OBVIOUS
  <2>1. ManagedTypeOK'
    <3>1. place' \in [Turns -> {"unused", "asking", "queued", "starting", "reading", "handling",
                              "registering", "stopping", "draining", "leaving", "removing", "ended"}]
      BY <2>0 DEF ManagedTypeOK
    <3>2. process' \in [Turns -> {"none", "starting", "running", "killed", "exited"}]
      BY <2>0 DEF ManagedTypeOK
    <3>3. pool' \in [Sessions -> {"unused", "temporary", "real", "forgotten"}]
      BY <2>0 DEF ManagedTypeOK
    <3>8. latest' \in [Sessions -> Turns \cup {NoTurn}]
      BY <2>0 DEF ManagedTypeOK
    <3>9. cliLock' \in [Sessions -> Turns \cup {NoTurn}]
      BY <2>0 DEF ManagedTypeOK
    <3>10. lifeLock' \in [Sessions -> Stoppers \cup {"free", "start"}]
      BY <2>0 DEF ManagedTypeOK, Stoppers
    <3>4. stoppers' \in [Sessions -> [Stoppers -> {"no", "waiting", "killing"}]]
      BY <2>0 DEF ManagedTypeOK, Stoppers
    <3>5. \A s2 \in Sessions, h2 \in Stoppers : stoppers'[s2][h2] = "killing" <=> lifeLock'[s2] = h2
      BY SMTT(40), <2>0 DEF ManagedTypeOK, TurnFits, SessionFits, Iterating, Stoppers
    <3>6. sessionClosed' \in [Sessions -> BOOLEAN]
      BY <2>0 DEF ManagedTypeOK
    <3>7. sessionClosing' \subseteq Pooled' /\ poolSweep' \subseteq Sessions
      BY <2>0 DEF ManagedTypeOK, Pooled
    <3> QED
      BY <3>1, <3>2, <3>3, <3>4, <3>5, <3>6, <3>7, <3>8, <3>9, <3>10 DEF ManagedTypeOK, Pooled
  <2>2. ASSUME NEW r \in Sessions PROVE SessionFresh(r)'
    BY DEF SessionFresh, TurnFits, ManagedTypeOK, Iterating, Pooled
  <2>3. ASSUME NEW r \in Sessions PROVE SessionFits(r)'
    BY DEF SessionFits, SessionFresh, TurnFits, ManagedTypeOK, Iterating, Stoppers
  <2>4. ASSUME NEW u \in Turns PROVE TurnFits(u)'
    <3>1. CASE mine[t] \in Pooled
      BY <3>1 DEF SessionFits, SessionFresh, TurnFits, ManagedTypeOK, Iterating, Stoppers, Pooled
    <3>2. CASE mine[t] \notin Pooled
      BY <3>2 DEF SessionFits, SessionFresh, TurnFits, ManagedTypeOK, Iterating, Stoppers
    <3> QED
      BY <3>1, <3>2
  <2>5. ASSUME NEW u \in Turns PROVE ProcessFits(u)'
    BY DEF ProcessFits, Pooled, Running
  <2> QED
    BY <2>1, <2>2, <2>3, <2>4, <2>5
<1> QED
  BY <1>1, <1>2, <1>3, <1>4, <1>5

\* A session is stopped, by its generator or by the pool.
LEMMA ManagedStops ==
    ASSUME ManagedInv, NEW s \in Sessions, NEW h \in Stoppers, NEW ok \in BOOLEAN,
           BeginStop(s, h) \/ EndStop(s, h, ok) \/ SweepNext(s)
    PROVE  ManagedInv'
<1> USE ManagedAssumption DEF ManagedInv, Goes
<1>1. CASE BeginStop(s, h)
  <2> USE <1>1 DEF BeginStop, Stoppable, Answer, StillClosing
  <2>0. pool' = [pool EXCEPT ![s] = "forgotten"] \/ pool' = pool
    BY DEF ManagedTypeOK
  <2>9. pool[s] # "unused"
    BY DEF SessionFresh, Stoppers
  <2>1. ManagedTypeOK'
    <3>1. place' \in [Turns -> {"unused", "asking", "queued", "starting", "reading", "handling",
                              "registering", "stopping", "draining", "leaving", "removing", "ended"}]
      BY DEF ManagedTypeOK
    <3>2. process' \in [Turns -> {"none", "starting", "running", "killed", "exited"}]
      BY DEF ManagedTypeOK
    <3>3. pool' \in [Sessions -> {"unused", "temporary", "real", "forgotten"}]
      BY <2>0 DEF ManagedTypeOK
    <3>8. latest' \in [Sessions -> Turns \cup {NoTurn}]
      BY DEF ManagedTypeOK
    <3>9. cliLock' \in [Sessions -> Turns \cup {NoTurn}]
      BY DEF ManagedTypeOK
    <3>10. lifeLock' \in [Sessions -> Stoppers \cup {"free", "start"}]
      BY DEF ManagedTypeOK, Stoppers
    <3>4. stoppers' \in [Sessions -> [Stoppers -> {"no", "waiting", "killing"}]]
      BY DEF ManagedTypeOK, Stoppers
    <3>5. \A s2 \in Sessions, h2 \in Stoppers : stoppers'[s2][h2] = "killing" <=> lifeLock'[s2] = h2
      BY DEF ManagedTypeOK, Stoppers
    <3>6. sessionClosed' \in [Sessions -> BOOLEAN]
      BY DEF ManagedTypeOK
    <3>7. sessionClosing' \subseteq Pooled' /\ poolSweep' \subseteq Sessions
      BY DEF ManagedTypeOK, Pooled
    <3> QED
      BY <3>1, <3>2, <3>3, <3>4, <3>5, <3>6, <3>7, <3>8, <3>9, <3>10 DEF ManagedTypeOK, Pooled
  <2>2. ASSUME NEW r \in Sessions PROVE SessionFresh(r)'
    <3>1. CASE r = s
      BY <3>1, <2>0, <2>9 DEF SessionFresh, ManagedTypeOK
    <3>2. CASE r # s
      <4>1. pool'[r] = pool[r] /\ lifeLock'[r] = lifeLock[r] /\ stoppers'[r] = stoppers[r]
        BY <3>2, <2>0 DEF ManagedTypeOK
      <4>2. (~sessionClosed[r])' <=> ~sessionClosed[r]
        BY <3>2
      <4>3. poolSweep' \subseteq poolSweep /\ UNCHANGED <<latest, cliLock, mine>>
        OBVIOUS
      <4> QED
        BY <4>1, <4>2, <4>3, FreshStays
    <3> QED
      BY <3>1, <3>2
  <2>3. ASSUME NEW r \in Sessions PROVE SessionFits(r)'
    BY DEF SessionFits, SessionFresh, TurnFits, ManagedTypeOK, Iterating, Stoppers
  <2>4. ASSUME NEW u \in Turns PROVE TurnFits(u)'
    BY DEF SessionFits, SessionFresh, TurnFits, ManagedTypeOK, Iterating, Stoppers
  <2>5. ASSUME NEW u \in Turns PROVE ProcessFits(u)'
    BY DEF SessionFits, SessionFresh, TurnFits, ProcessFits, ManagedTypeOK, Iterating, Pooled,
       Running
  <2> QED
    BY <2>1, <2>2, <2>3, <2>4, <2>5
<1>2. CASE EndStop(s, h, ok)
  <2> USE <1>2 DEF EndStop, Confirmed, Answer, StillClosing
  <2>1. ManagedTypeOK'
    BY DEF ManagedTypeOK, Pooled, Stoppers
  <2>2. ASSUME NEW r \in Sessions PROVE SessionFresh(r)'
    BY DEF SessionFresh
  <2>3. ASSUME NEW r \in Sessions PROVE SessionFits(r)'
    BY DEF SessionFits, SessionFresh, TurnFits, ManagedTypeOK, Iterating, Stoppers
  <2>4. ASSUME NEW u \in Turns PROVE TurnFits(u)'
    BY DEF SessionFits, SessionFresh, TurnFits, ManagedTypeOK, Iterating, Stoppers
  <2>5. ASSUME NEW u \in Turns PROVE ProcessFits(u)'
    BY DEF SessionFits, SessionFresh, TurnFits, ProcessFits, ManagedTypeOK, Iterating, Pooled,
       Running
  <2> QED
    BY <2>1, <2>2, <2>3, <2>4, <2>5
<1>3. CASE SweepNext(s)
  <2> USE <1>3 DEF SweepNext
  <2>1. ManagedTypeOK'
    BY DEF ManagedTypeOK, Pooled, Stoppers
  <2>2. ASSUME NEW r \in Sessions PROVE SessionFresh(r)'
    BY DEF SessionFresh
  <2>3. ASSUME NEW r \in Sessions PROVE SessionFits(r)'
    BY DEF SessionFits, Stoppers
  <2>4. ASSUME NEW u \in Turns PROVE TurnFits(u)'
    BY DEF TurnFits, Iterating, Stoppers
  <2>5. ASSUME NEW u \in Turns PROVE ProcessFits(u)'
    BY DEF ProcessFits, Pooled, Running
  <2> QED
    BY <2>1, <2>2, <2>3, <2>4, <2>5
<1> QED
  BY <1>1, <1>2, <1>3

\* stop_all takes the lock of the pool, and lets go of it.
LEMMA ManagedSweeps ==
    ASSUME ManagedInv, BeginSweep \/ EndSweep
    PROVE  ManagedInv'
<1> USE ManagedAssumption DEF ManagedInv, Goes
<1>1. CASE BeginSweep
  <2> USE <1>1 DEF BeginSweep
  <2>1. ManagedTypeOK'
    BY DEF ManagedTypeOK, Pooled, Stoppers
  <2>2. ASSUME NEW r \in Sessions PROVE SessionFresh(r)'
    BY DEF SessionFresh, TurnFits, ManagedTypeOK, Iterating, Pooled
  <2>3. ASSUME NEW r \in Sessions PROVE SessionFits(r)'
    BY DEF SessionFits, Stoppers
  <2>4. ASSUME NEW u \in Turns PROVE TurnFits(u)'
    BY DEF TurnFits, Iterating
  <2>5. ASSUME NEW u \in Turns PROVE ProcessFits(u)'
    BY DEF ProcessFits, Pooled, Running
  <2> QED
    BY <2>1, <2>2, <2>3, <2>4, <2>5
<1>2. CASE EndSweep
  <2> USE <1>2 DEF EndSweep
  <2>1. ManagedTypeOK'
    BY DEF ManagedTypeOK, Pooled, Stoppers
  <2>2. ASSUME NEW r \in Sessions PROVE SessionFresh(r)'
    BY DEF SessionFresh
  <2>3. ASSUME NEW r \in Sessions PROVE SessionFits(r)'
    BY DEF SessionFits, Stoppers
  <2>4. ASSUME NEW u \in Turns PROVE TurnFits(u)'
    BY DEF TurnFits, Iterating
  <2>5. ASSUME NEW u \in Turns PROVE ProcessFits(u)'
    BY DEF ProcessFits, Pooled, Running
  <2> QED
    BY <2>1, <2>2, <2>3, <2>4, <2>5
<1> QED
  BY <1>1, <1>2

\* A turn is cancelled wherever it is, and a process exits.
LEMMA ManagedCancels ==
    ASSUME ManagedInv, NEW t \in Turns, CancelTurn(t) \/ ProcessExits(t)
    PROVE  ManagedInv'
<1> USE ManagedAssumption DEF ManagedInv, Goes
<1>1. CASE CancelTurn(t)
  <2> USE <1>1 DEF CancelTurn
  <2>1. ManagedTypeOK'
    <3>1. place' \in [Turns -> {"unused", "asking", "queued", "starting", "reading", "handling",
                              "registering", "stopping", "draining", "leaving", "removing", "ended"}]
      BY DEF ManagedTypeOK
    <3>2. process' \in [Turns -> {"none", "starting", "running", "killed", "exited"}]
      BY DEF ManagedTypeOK
    <3>3. pool' \in [Sessions -> {"unused", "temporary", "real", "forgotten"}]
      BY DEF ManagedTypeOK
    <3>8. latest' \in [Sessions -> Turns \cup {NoTurn}]
      BY DEF ManagedTypeOK
    <3>9. cliLock' \in [Sessions -> Turns \cup {NoTurn}]
      BY DEF ManagedTypeOK
    <3>10. lifeLock' \in [Sessions -> Stoppers \cup {"free", "start"}]
      BY DEF ManagedTypeOK, Stoppers
    <3>4. stoppers' \in [Sessions -> [Stoppers -> {"no", "waiting", "killing"}]]
      BY DEF ManagedTypeOK, Stoppers
    <3>5. \A s2 \in Sessions, h2 \in Stoppers : stoppers'[s2][h2] = "killing" <=> lifeLock'[s2] = h2
      BY DEF ManagedTypeOK, TurnFits, SessionFits, Iterating, Stoppers
    <3>6. sessionClosed' \in [Sessions -> BOOLEAN]
      BY DEF ManagedTypeOK
    <3>7. sessionClosing' \subseteq Pooled' /\ poolSweep' \subseteq Sessions
      BY DEF ManagedTypeOK, Pooled
    <3> QED
      BY <3>1, <3>2, <3>3, <3>4, <3>5, <3>6, <3>7, <3>8, <3>9, <3>10 DEF ManagedTypeOK, Pooled
  <2>2. ASSUME NEW r \in Sessions PROVE SessionFresh(r)'
    BY DEF SessionFresh
  <2>3. ASSUME NEW r \in Sessions PROVE SessionFits(r)'
    BY DEF SessionFits, SessionFresh, TurnFits, ManagedTypeOK, Iterating, Stoppers
  <2>4. ASSUME NEW u \in Turns PROVE TurnFits(u)'
    BY DEF SessionFits, SessionFresh, TurnFits, ManagedTypeOK, Iterating, Stoppers
  <2>5. ASSUME NEW u \in Turns PROVE ProcessFits(u)'
    BY DEF SessionFits, SessionFresh, TurnFits, ProcessFits, ManagedTypeOK, Iterating, Pooled,
       Running
  <2> QED
    BY <2>1, <2>2, <2>3, <2>4, <2>5
<1>2. CASE ProcessExits(t)
  <2> USE <1>2 DEF ProcessExits
  <2>1. ManagedTypeOK'
    BY DEF ManagedTypeOK, Pooled, Stoppers
  <2>2. ASSUME NEW r \in Sessions PROVE SessionFresh(r)'
    BY DEF SessionFresh
  <2>3. ASSUME NEW r \in Sessions PROVE SessionFits(r)'
    BY DEF SessionFits, Stoppers
  <2>4. ASSUME NEW u \in Turns PROVE TurnFits(u)'
    BY DEF TurnFits, Iterating
  <2>5. ASSUME NEW u \in Turns PROVE ProcessFits(u)'
    BY DEF ProcessFits, Pooled, Running
  <2> QED
    BY <2>1, <2>2, <2>3, <2>4, <2>5
<1> QED
  BY <1>1, <1>2

\* Every step of the turns, of the stops and of the sweeps keeps ManagedInv.
LEMMA ManagedStep == ManagedInv /\ [ManagedNext]_managedVars => ManagedInv'
<1> SUFFICES ASSUME ManagedInv, [ManagedNext]_managedVars PROVE ManagedInv'
  OBVIOUS
<1>1. CASE UNCHANGED managedVars
  <2> USE <1>1 DEF managedVars, ManagedInv
  <2>1. ManagedTypeOK'
    BY DEF ManagedTypeOK, Pooled
  <2>2. ASSUME NEW s \in Sessions PROVE SessionFresh(s)' /\ SessionFits(s)'
    BY DEF SessionFresh, SessionFits
  <2>3. ASSUME NEW t \in Turns PROVE TurnFits(t)' /\ ProcessFits(t)'
    BY DEF TurnFits, ProcessFits, Running, Pooled
  <2> QED
    BY <2>1, <2>2, <2>3
<1>2. ASSUME NEW t \in Turns, TurnStep(t) \/ ProcessExits(t) \/ CancelTurn(t) PROVE ManagedInv'
  <2>1. ASSUME NEW ok \in BOOLEAN, StartTask(t) \/ Spawned(t, ok) PROVE ManagedInv'
    <3>1. NoParent \in Parents \cup {NoParent}
      OBVIOUS
    <3> QED
      BY <2>1, <3>1, ManagedAsks
  <2>2. ASSUME Register(t) \/ ReadToEnd(t) \/ CloseGenerator(t) \/ BeginRemove(t) PROVE ManagedInv'
    BY <2>2, ManagedReads
  <2>3. ASSUME ProcessExits(t) \/ CancelTurn(t) PROVE ManagedInv'
    BY <2>3, ManagedCancels
  <2>4. TRUE \in BOOLEAN
    OBVIOUS
  <2> QED
    BY <1>2, <2>1, <2>2, <2>3, <2>4, ManagedGets DEF TurnStep
<1>3. ASSUME NEW t \in Turns, NEW p \in Parents \cup {NoParent}, Ask(t, p) PROVE ManagedInv'
  BY <1>3, ManagedAsks
<1>4. ASSUME NEW t \in Turns,
             \/ Iterate(t, "reading", "handling") \/ Iterate(t, "reading", "registering")
             \/ Iterate(t, "handling", "reading")
      PROVE  ManagedInv'
  BY <1>4, ManagedReads
<1>5. ASSUME NEW s \in Sessions, NEW h \in Stoppers, BeginStop(s, h) \/ \E ok \in BOOLEAN : EndStop(s, h, ok)
      PROVE  ManagedInv'
  BY <1>5, ManagedStops
<1>6. ASSUME NEW s \in Sessions, SweepNext(s) PROVE ManagedInv'
  BY <1>6, ManagedStops DEF Stoppers
<1>7. ASSUME BeginSweep \/ EndSweep PROVE ManagedInv'
  BY <1>7, ManagedSweeps
<1> QED
  BY <1>1, <1>2, <1>3, <1>4, <1>5, <1>6, <1>7 DEF ManagedNext, ManagedWork, PoolStep

\* A running process is registered and its session in the pool, a session that is
\* forgotten is dead, and no two turns run a process of one session (cli/managed/).
THEOREM ManagedCorrectness == ManagedSpec => []ManagedSafety
  BY ManagedImplied, ManagedStarts, ManagedStep, PTL DEF ManagedSpec
=============================================================================
