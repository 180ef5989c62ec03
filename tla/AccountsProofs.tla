---------------------------- MODULE AccountsProofs ----------------------------
(***************************************************************************)
(* Safety of the session file, of the ChatGPT account, of the runtime of a *)
(* Copilot broker and of the server's supervisor, for any                  *)
(* number of saves, processes, sessions and runs, and, with the Copilot    *)
(* account, as MCAccounts composes them.                                   *)
(*                                                                         *)
(* The session file: a snapshot whose generation is current is the newest  *)
(* one, because every change of the state bumps the generation before      *)
(* anybody else can take a snapshot (the store's lock); a writer that was  *)
(* current when it took the writer's lock is at least as new as the file   *)
(* until it lets go of that lock; so replacing the file never makes it     *)
(* older.                                                                  *)
(*                                                                         *)
(* The ChatGPT account: credentials that are yet to be written are in one  *)
(* place and nobody uses them (SecretsFit), and what a process holds is    *)
(* what the file said or says (FileFits).                                  *)
(***************************************************************************)
EXTENDS MCAccounts, CopilotProofs

(* The session file. *)

\* The version the current generation stands for.
Base == IF at[Loop] = "changed" THEN state - 1 ELSE state

Holding == {"snapped", "writing"}

\* A changed state whose generation is still to come.
ChangeIsCounted == at[Loop] = "changed" => op \in {"save", "clear"} /\ state > 0 /\ generation < MaxGeneration

SnapshotsAreOld == \A t \in Threads :
    /\ at[t] \in Holding \cup {"claimed"} => pending[t].generation <= generation
    /\ at[t] \in Holding => pending[t].version <= Base
    /\ at[t] \in Holding /\ Current(t) => pending[t].version = Base

FileIsOld == file <= Base /\ lost <= state

WritersAreNewer == \A t \in Threads : at[t] = "writing" => file <= pending[t].version

OneWriter == \A t, u \in Threads : at[t] = "writing" /\ at[u] = "writing" => t = u

LoopIsCurrent == at[Loop] \in {"claimed", "snapped", "writing", "wrote", "clean"} => Current(Loop)

\* After a flush or clear has written, only the same version can follow.
ReturnedIsWritten ==
    at[Loop] \in {"wrote", "clean", "returned"} /\ op \in {"clear", "flush"} =>
        /\ file = state
        /\ \A t \in Threads : at[t] = "writing" => Current(t)

TimersAreKnown ==
    /\ saveTimer # 0 => at[saveTimer] \in {"armed", "fired"}
    /\ \A t \in Timers : at[t] = "unused" \/ t <= generation
    /\ \A t \in Timers : at[t] = "armed" => t = saveTimer

IInv ==
    /\ TypeOK
    /\ ChangeIsCounted
    /\ SnapshotsAreOld
    /\ FileIsOld
    /\ WritersAreNewer
    /\ OneWriter
    /\ LoopIsCurrent
    /\ ReturnedIsWritten
    /\ TimersAreKnown
    /\ ChangesAreNotForgotten

-----------------------------------------------------------------------------
(* Cancelling the armed timer touches no other thread.                    *)
LEMMA TimerCancelledKeeps ==
  ASSUME TypeOK
  PROVE  /\ TimerCancelled \in [Threads -> LoopStages \cup TimerStages]
         /\ TimerCancelled[Loop] = at[Loop]
         /\ \A t \in Timers : TimerCancelled[t] = IF t = saveTimer /\ at[t] = "armed"
                                                THEN "done" ELSE at[t]
<1>1. saveTimer \in Threads /\ (saveTimer # 0 => saveTimer \in Timers)
  BY BoundsAssumption DEF TypeOK, Threads, Timers, Loop
<1>2. Loop \in Threads /\ Loop = 0 /\ \A t \in Timers : t \in Threads /\ t # 0
  BY DEF Threads, Timers, Loop
<1>3. TimerCancelled \in [Threads -> LoopStages \cup TimerStages]
  BY <1>1 DEF TypeOK, TimerCancelled, TimerStages
<1>4. TimerCancelled[Loop] = at[Loop]
  BY <1>1, <1>2 DEF TypeOK, TimerCancelled
<1>5. ASSUME NEW t \in Timers
      PROVE  TimerCancelled[t] = IF t = saveTimer /\ at[t] = "armed" THEN "done" ELSE at[t]
  BY <1>1, <1>2 DEF TypeOK, TimerCancelled
<1> QED
  BY <1>3, <1>4, <1>5

LEMMA Initially ==
  ASSUME Init
  PROVE  IInv
<1> USE BoundsAssumption DEF Init
<1>1. Loop \in Threads /\ at[Loop] = "returned" /\ \A t \in Timers : at[t] = "unused"
  <2>1. Loop \in Threads /\ \A t \in Timers : t \in Threads /\ t # Loop
    BY DEF Threads, Timers, Loop
  <2> QED
    BY <2>1
<1>2. \A t \in Threads : at[t] \in {"returned", "unused"}
  OBVIOUS
<1>3. TypeOK
  <2>1. at \in [Threads -> LoopStages \cup TimerStages]
    BY DEF LoopStages, TimerStages, Resting
  <2>2. NoWrite \in [generation : 0..MaxGeneration, version : 0..MaxVersion]
    BY DEF NoWrite
  <2>3. pending \in [Threads -> [generation : 0..MaxGeneration, version : 0..MaxVersion]]
    BY <2>2
  <2>4. at[Loop] \in LoopStages /\ \A t \in Timers : at[t] \in TimerStages
    BY <1>1 DEF LoopStages, TimerStages, Resting
  <2>5. /\ state \in 0..MaxVersion /\ file \in 0..MaxVersion /\ lost \in 0..MaxVersion
        /\ dirty \in BOOLEAN /\ op \in {"none", "save", "clear", "flush"}
        /\ generation \in 0..MaxGeneration /\ saveTimer \in {0, generation}
    <3>1. 0 \in 0..MaxVersion /\ 0 \in 0..MaxGeneration
      OBVIOUS
    <3> QED
      BY <3>1
  <2> QED
    BY <2>1, <2>3, <2>4, <2>5 DEF TypeOK
<1>4. ChangeIsCounted /\ FileIsOld /\ LoopIsCurrent
  BY <1>1 DEF ChangeIsCounted, FileIsOld, LoopIsCurrent, Base
<1>5. SnapshotsAreOld /\ WritersAreNewer /\ OneWriter
  BY <1>2 DEF SnapshotsAreOld, WritersAreNewer, OneWriter, Holding
<1>6. ReturnedIsWritten /\ TimersAreKnown /\ ChangesAreNotForgotten
  BY <1>1 DEF ReturnedIsWritten, TimersAreKnown, ChangesAreNotForgotten
<1> QED
  BY <1>3, <1>4, <1>5, <1>6 DEF IInv

-----------------------------------------------------------------------------
(* Every action keeps the invariant.                                      *)
LEMMA StepBegin ==
  ASSUME IInv, NEW kind \in {"save", "clear", "flush"}, Begin(kind)
  PROVE  IInv'
<1> USE BoundsAssumption DEF IInv
<1>1. TypeOK'
  BY DEF Begin, TypeOK, Threads, Timers, Loop, LoopStages
<1>2. ChangeIsCounted'
  BY DEF Begin, TypeOK, ChangeIsCounted, Threads
<1>3. SnapshotsAreOld'
  BY DEF Begin, TypeOK, SnapshotsAreOld, Base, Holding, Current, Threads, Resting
<1>4. FileIsOld'
  BY DEF Begin, TypeOK, FileIsOld, Base
<1>5. WritersAreNewer'
  BY DEF Begin, WritersAreNewer
<1>6. OneWriter'
  BY DEF Begin, OneWriter
<1>7. LoopIsCurrent'
  BY DEF Begin, TypeOK, LoopIsCurrent, Threads
<1>8. ReturnedIsWritten'
  BY DEF Begin, TypeOK, ReturnedIsWritten, Threads
<1>9. TimersAreKnown'
  BY DEF Begin, TypeOK, TimersAreKnown, Loop
<1>10. ChangesAreNotForgotten'
  BY DEF Begin, TypeOK, ChangesAreNotForgotten, Threads, SaveInFlight
<1> QED
  BY <1>1, <1>2, <1>3, <1>4, <1>5, <1>6, <1>7, <1>8, <1>9, <1>10

LEMMA StepSchedule ==
  ASSUME IInv, Schedule
  PROVE  IInv'
<1> USE BoundsAssumption DEF IInv
<1>1. TypeOK'
  <2>1. generation + 1 \in Timers /\ generation + 1 \in Threads /\ Loop \in Threads
    BY DEF TypeOK, ChangeIsCounted, Schedule, Timers, Threads, Loop
  <2>2. generation' \in 0..MaxGeneration /\ saveTimer' \in {0, generation'}
    BY DEF TypeOK, ChangeIsCounted, Schedule
  <2>3. at' \in [Threads -> LoopStages \cup TimerStages]
    BY <2>1, TimerCancelledKeeps DEF Schedule, LoopStages, TimerStages, Resting
  <2>4. at'[Loop] \in LoopStages
    BY <2>1, TimerCancelledKeeps DEF Schedule, LoopStages, Resting, Timers, Loop
  <2>5. ASSUME NEW t \in Timers
        PROVE  at'[t] \in TimerStages
    <3>1. t \in Threads /\ t # Loop
      BY DEF Timers, Threads, Loop
    <3>2. at'[t] = IF t = generation + 1 THEN "armed" ELSE TimerCancelled[t]
      BY <2>1, <3>1, TimerCancelledKeeps DEF Schedule
    <3>3. TimerCancelled[t] \in TimerStages
      BY TimerCancelledKeeps DEF TypeOK, TimerStages
    <3> QED
      BY <3>2, <3>3 DEF TimerStages
  <2> QED
    BY <2>2, <2>3, <2>4, <2>5 DEF TypeOK, Schedule
<1>2. ChangeIsCounted'
  BY DEF Schedule, TypeOK, ChangeIsCounted, Threads, TimerCancelled
<1>3. SnapshotsAreOld'
  BY DEF Schedule, TypeOK, SnapshotsAreOld, Base, Holding, Current, TimerCancelled
<1>4. FileIsOld'
  BY DEF Schedule, TypeOK, FileIsOld, Base
<1>5. WritersAreNewer'
  BY DEF Schedule, TypeOK, WritersAreNewer, TimerCancelled
<1>6. OneWriter'
  BY DEF Schedule, TypeOK, OneWriter, TimerCancelled
<1>7. LoopIsCurrent'
  BY DEF Schedule, TypeOK, LoopIsCurrent, Threads, TimerCancelled
<1>8. ReturnedIsWritten'
  BY DEF Schedule, ReturnedIsWritten
<1>9. TimersAreKnown'
  <2>1. generation + 1 \in Timers /\ generation + 1 \in Threads /\ Loop \in Threads
    BY DEF TypeOK, ChangeIsCounted, Schedule, Timers, Threads, Loop
  <2>2. generation \in Nat /\ generation' = generation + 1 /\ saveTimer' = generation + 1
    BY DEF TypeOK, Schedule
  <2>3. ASSUME NEW t \in Timers
        PROVE  at'[t] = IF t = generation + 1 THEN "armed" ELSE TimerCancelled[t]
    BY <2>1, TimerCancelledKeeps DEF Schedule, Timers, Threads, Loop
  <2>4. at'[saveTimer'] = "armed"
    BY <2>1, <2>2, <2>3
  <2>5. ASSUME NEW t \in Timers
        PROVE  (at'[t] = "unused" \/ t <= generation') /\ (at'[t] = "armed" => t = saveTimer')
    <3>1. CASE t = generation + 1
      BY <2>2, <3>1
    <3>2. CASE t # generation + 1
      <4>1. at'[t] = TimerCancelled[t]
        BY <2>3, <3>2
      <4>2. at[t] = "unused" => at'[t] = "unused"
        BY <4>1, TimerCancelledKeeps
      <4>3. at'[t] # "armed"
        BY <4>1, TimerCancelledKeeps DEF TimersAreKnown
      <4> QED
        BY <2>2, <4>2, <4>3 DEF TimersAreKnown, Timers
    <3> QED
      BY <3>1, <3>2
  <2> QED
    BY <2>4, <2>5 DEF TimersAreKnown
<1>10. ChangesAreNotForgotten'
  BY DEF Schedule, TypeOK, ChangeIsCounted, ChangesAreNotForgotten, Threads, Timers,
     TimerCancelled, SaveInFlight
<1> QED
  BY <1>1, <1>2, <1>3, <1>4, <1>5, <1>6, <1>7, <1>8, <1>9, <1>10

LEMMA StepInvalidate ==
  ASSUME IInv, Invalidate
  PROVE  IInv'
<1> USE BoundsAssumption DEF IInv
<1>1. TypeOK'
  <2>1. generation' \in 0..MaxGeneration /\ saveTimer' \in {0, generation'}
    BY DEF TypeOK, ChangeIsCounted, Invalidate
  <2>2. at' \in [Threads -> LoopStages \cup TimerStages]
    BY TimerCancelledKeeps DEF Invalidate, LoopStages, Writing
  <2>3. Loop \in Threads /\ at'[Loop] \in LoopStages
    BY TimerCancelledKeeps DEF Invalidate, LoopStages, Writing, Threads
  <2>4. ASSUME NEW t \in Timers
        PROVE  at'[t] \in TimerStages
    BY TimerCancelledKeeps DEF TypeOK, Invalidate, TimerStages, Timers, Loop
  <2>5. pending' \in [Threads -> [generation : 0..MaxGeneration, version : 0..MaxVersion]]
    BY <2>1 DEF TypeOK, Invalidate
  <2> QED
    BY <2>1, <2>2, <2>3, <2>4, <2>5 DEF TypeOK, Invalidate
<1>2. ChangeIsCounted'
  BY DEF Invalidate, TypeOK, ChangeIsCounted, Threads, TimerCancelled
<1>3. SnapshotsAreOld'
  BY DEF Invalidate, TypeOK, SnapshotsAreOld, Base, Holding, Current, TimerCancelled
<1>4. FileIsOld'
  BY DEF Invalidate, TypeOK, FileIsOld, Base
<1>5. WritersAreNewer'
  BY DEF Invalidate, TypeOK, WritersAreNewer, TimerCancelled
<1>6. OneWriter'
  BY DEF Invalidate, TypeOK, OneWriter, TimerCancelled
<1>7. LoopIsCurrent'
  BY DEF Invalidate, TypeOK, LoopIsCurrent, Current, Threads
<1>8. ReturnedIsWritten'
  BY DEF Invalidate, TypeOK, ReturnedIsWritten, Threads, TimerCancelled
<1>9. TimersAreKnown'
  <2>1. generation \in Nat /\ generation' = generation + 1 /\ saveTimer' = 0
    BY DEF TypeOK, Invalidate
  <2>2. ASSUME NEW t \in Timers
        PROVE  (at'[t] = "unused" \/ t <= generation') /\ (at'[t] = "armed" => t = saveTimer')
    <3>1. at'[t] = TimerCancelled[t]
      BY TimerCancelledKeeps DEF Invalidate, Timers, Threads, Loop
    <3>2. at[t] = "unused" => at'[t] = "unused"
      BY <3>1, TimerCancelledKeeps
    <3>3. at'[t] # "armed"
      BY <3>1, TimerCancelledKeeps DEF TimersAreKnown
    <3> QED
      BY <2>1, <3>2, <3>3 DEF TimersAreKnown, Timers
  <2> QED
    BY <2>1, <2>2 DEF TimersAreKnown
<1>10. ChangesAreNotForgotten'
  BY DEF Invalidate, TypeOK, ChangesAreNotForgotten, Current, Threads, TimerCancelled,
     SaveInFlight
<1> QED
  BY <1>1, <1>2, <1>3, <1>4, <1>5, <1>6, <1>7, <1>8, <1>9, <1>10

LEMMA StepClaimForFlush ==
  ASSUME IInv, ClaimForFlush
  PROVE  IInv'
<1> USE BoundsAssumption DEF IInv
<1>1. TypeOK'
  BY DEF ClaimForFlush, TypeOK, Threads, LoopStages, TimerStages, Writing, TimerCancelled
<1>2. ChangeIsCounted'
  BY DEF ClaimForFlush, TypeOK, ChangeIsCounted, Threads, TimerCancelled
<1>3. SnapshotsAreOld'
  BY DEF ClaimForFlush, TypeOK, SnapshotsAreOld, Base, Holding, Current, Threads,
     TimerCancelled
<1>4. FileIsOld'
  BY DEF ClaimForFlush, TypeOK, FileIsOld, Base, Threads, TimerCancelled
<1>5. WritersAreNewer'
  BY DEF ClaimForFlush, TypeOK, WritersAreNewer, TimerCancelled
<1>6. OneWriter'
  BY DEF ClaimForFlush, TypeOK, OneWriter, TimerCancelled
<1>7. LoopIsCurrent'
  BY DEF ClaimForFlush, TypeOK, LoopIsCurrent, Current, Threads
<1>8. ReturnedIsWritten'
  BY DEF ClaimForFlush, TypeOK, ReturnedIsWritten, Threads, TimerCancelled
<1>9. TimersAreKnown'
  BY DEF ClaimForFlush, TypeOK, TimersAreKnown, Threads, TimerCancelled
<1>10. ChangesAreNotForgotten'
  BY DEF ClaimForFlush, TypeOK, ChangesAreNotForgotten, Current, Threads, TimerCancelled,
     SaveInFlight
<1> QED
  BY <1>1, <1>2, <1>3, <1>4, <1>5, <1>6, <1>7, <1>8, <1>9, <1>10

LEMMA StepFire ==
  ASSUME IInv, NEW t \in Threads, Fire(t)
  PROVE  IInv'
<1> USE BoundsAssumption DEF IInv
<1>1. TypeOK'
  BY DEF Fire, TypeOK, LoopStages, TimerStages, Writing, Resting
<1>2. ChangeIsCounted'
  BY DEF Fire, ChangeIsCounted
<1>3. SnapshotsAreOld'
  BY DEF Fire, SnapshotsAreOld, Base, Holding, Current
<1>4. FileIsOld'
  BY DEF Fire, FileIsOld, Base
<1>5. WritersAreNewer'
  BY DEF Fire, WritersAreNewer
<1>6. OneWriter'
  BY DEF Fire, OneWriter
<1>7. LoopIsCurrent'
  BY DEF Fire, LoopIsCurrent, Current
<1>8. ReturnedIsWritten'
  BY DEF Fire, ReturnedIsWritten, Current
<1>9. TimersAreKnown'
  BY DEF Fire, TimersAreKnown
<1>10. ChangesAreNotForgotten'
  BY DEF Fire, ChangesAreNotForgotten, Current, SaveInFlight
<1> QED
  BY <1>1, <1>2, <1>3, <1>4, <1>5, <1>6, <1>7, <1>8, <1>9, <1>10

LEMMA StepClaim ==
  ASSUME IInv, NEW t \in Threads, Claim(t)
  PROVE  IInv'
<1> USE BoundsAssumption DEF IInv
<1>1. TypeOK'
  BY DEF Claim, TypeOK, Threads, LoopStages, TimerStages, Writing, Resting
<1>2. ChangeIsCounted'
  BY DEF Claim, TypeOK, ChangeIsCounted, Threads
<1>3. SnapshotsAreOld'
  BY DEF Claim, TypeOK, SnapshotsAreOld, Base, Holding, Current, Threads
<1>4. FileIsOld'
  BY DEF Claim, TypeOK, FileIsOld, Base, Threads
<1>5. WritersAreNewer'
  BY DEF Claim, TypeOK, WritersAreNewer
<1>6. OneWriter'
  BY DEF Claim, TypeOK, OneWriter
<1>7. LoopIsCurrent'
  BY DEF Claim, TypeOK, LoopIsCurrent, Current, Threads
<1>8. ReturnedIsWritten'
  BY DEF Claim, TypeOK, ReturnedIsWritten, Current, Threads
<1>9. TimersAreKnown'
  BY DEF Claim, TypeOK, TimersAreKnown, Threads, Timers
<1>10. ChangesAreNotForgotten'
  BY DEF Claim, TypeOK, ChangesAreNotForgotten, Current, Threads, Timers, SaveInFlight
<1> QED
  BY <1>1, <1>2, <1>3, <1>4, <1>5, <1>6, <1>7, <1>8, <1>9, <1>10

LEMMA StepSnapshot ==
  ASSUME IInv, NEW t \in Threads, Snapshot(t)
  PROVE  IInv'
<1> USE BoundsAssumption DEF IInv
<1>1. TypeOK'
  BY DEF Snapshot, TypeOK, LoopStages, TimerStages, Writing
<1>2. ChangeIsCounted'
  BY DEF Snapshot, ChangeIsCounted
<1>3. SnapshotsAreOld'
  BY DEF Snapshot, TypeOK, ChangeIsCounted, SnapshotsAreOld, Base, Current, Resting,
     StoreIsFree
<1>4. FileIsOld'
  BY DEF Snapshot, FileIsOld, Base
<1>5. WritersAreNewer'
  BY DEF Snapshot, WritersAreNewer
<1>6. OneWriter'
  BY DEF Snapshot, OneWriter
<1>7. LoopIsCurrent'
  BY DEF Snapshot, LoopIsCurrent, Current
<1>8. ReturnedIsWritten'
  BY DEF Snapshot, ReturnedIsWritten, Current
<1>9. TimersAreKnown'
  BY DEF Snapshot, TimersAreKnown
<1>10. ChangesAreNotForgotten'
  BY DEF Snapshot, ChangesAreNotForgotten, Current, SaveInFlight
<1> QED
  BY <1>1, <1>2, <1>3, <1>4, <1>5, <1>6, <1>7, <1>8, <1>9, <1>10

LEMMA StepBeginWrite ==
  ASSUME IInv, NEW t \in Threads, BeginWrite(t)
  PROVE  IInv'
<1> USE BoundsAssumption DEF IInv
<1>1. TypeOK'
  BY DEF BeginWrite, TypeOK, Timers, Loop, LoopStages, TimerStages, Writing, Resting, Over
<1>2. ChangeIsCounted'
  BY DEF BeginWrite, ChangeIsCounted, Over
<1>3. SnapshotsAreOld'
  BY DEF BeginWrite, SnapshotsAreOld, Base, Holding, Current, Over
<1>4. FileIsOld'
  BY DEF BeginWrite, FileIsOld, Base, Over
<1>5. WritersAreNewer'
  BY DEF BeginWrite, SnapshotsAreOld, FileIsOld, WritersAreNewer, Holding, Over
<1>6. OneWriter'
  BY DEF BeginWrite, OneWriter, WriterIsFree
<1>7. LoopIsCurrent'
  BY DEF BeginWrite, LoopIsCurrent, Current
<1>8. ReturnedIsWritten'
  BY DEF BeginWrite, LoopIsCurrent, ReturnedIsWritten, Current, Over
<1>9. TimersAreKnown'
  BY DEF BeginWrite, TimersAreKnown, Over
<1>10. ChangesAreNotForgotten'
  BY DEF BeginWrite, ChangesAreNotForgotten, Current, SaveInFlight
<1> QED
  BY <1>1, <1>2, <1>3, <1>4, <1>5, <1>6, <1>7, <1>8, <1>9, <1>10

LEMMA StepReplace ==
  ASSUME IInv, NEW t \in Threads, Replace(t)
  PROVE  IInv'
<1> USE BoundsAssumption DEF IInv
<1>1. TypeOK'
  BY DEF Replace, TypeOK, LoopStages, TimerStages, Writing
<1>2. ChangeIsCounted'
  BY DEF Replace, ChangeIsCounted
<1>3. SnapshotsAreOld'
  BY DEF Replace, SnapshotsAreOld, Base, Holding, Current
<1>4. FileIsOld'
  BY DEF Replace, SnapshotsAreOld, FileIsOld, Base, Holding
<1>5. WritersAreNewer'
  BY DEF Replace, TypeOK, WritersAreNewer, OneWriter
<1>6. OneWriter'
  BY DEF Replace, OneWriter
<1>7. LoopIsCurrent'
  BY DEF Replace, LoopIsCurrent, Current
<1>8. ReturnedIsWritten'
  BY DEF Replace, TypeOK, SnapshotsAreOld, OneWriter, LoopIsCurrent, ReturnedIsWritten, Base, Holding
<1>9. TimersAreKnown'
  BY DEF Replace, TimersAreKnown
<1>10. ChangesAreNotForgotten'
  BY DEF Replace, TypeOK, SnapshotsAreOld, WritersAreNewer, ChangesAreNotForgotten, Base,
     Holding, Current, Threads, Resting, SaveInFlight
<1> QED
  BY <1>1, <1>2, <1>3, <1>4, <1>5, <1>6, <1>7, <1>8, <1>9, <1>10

LEMMA StepFailWrite ==
  ASSUME IInv, NEW t \in Threads, FailWrite(t)
  PROVE  IInv'
<1> USE BoundsAssumption DEF IInv
<1>1. TypeOK'
  BY DEF FailWrite, TypeOK, LoopStages, TimerStages, Writing
<1>2. ChangeIsCounted'
  BY DEF FailWrite, ChangeIsCounted
<1>3. SnapshotsAreOld'
  BY DEF FailWrite, SnapshotsAreOld, Base, Holding, Current
<1>4. FileIsOld'
  BY DEF FailWrite, TypeOK, SnapshotsAreOld, FileIsOld, Base, Holding
<1>5. WritersAreNewer'
  BY DEF FailWrite, WritersAreNewer
<1>6. OneWriter'
  BY DEF FailWrite, OneWriter
<1>7. LoopIsCurrent'
  BY DEF FailWrite, LoopIsCurrent, Current
<1>8. ReturnedIsWritten'
  BY DEF FailWrite, TypeOK, OneWriter, ReturnedIsWritten
<1>9. TimersAreKnown'
  BY DEF FailWrite, TimersAreKnown
<1>10. ChangesAreNotForgotten'
  BY DEF FailWrite, TypeOK, SnapshotsAreOld, FileIsOld, ChangesAreNotForgotten, Base,
     Holding, Current, SaveInFlight
<1> QED
  BY <1>1, <1>2, <1>3, <1>4, <1>5, <1>6, <1>7, <1>8, <1>9, <1>10

LEMMA StepLookIfCurrent ==
  ASSUME IInv, NEW t \in Threads, LookIfCurrent(t)
  PROVE  IInv'
<1> USE BoundsAssumption DEF IInv
<1>1. TypeOK'
  BY DEF LookIfCurrent, TypeOK, Timers, Loop, LoopStages, TimerStages, Writing, Resting,
     Over
<1>2. ChangeIsCounted'
  BY DEF LookIfCurrent, ChangeIsCounted, Over
<1>3. SnapshotsAreOld'
  BY DEF LookIfCurrent, SnapshotsAreOld, Base, Holding, Current, Over
<1>4. FileIsOld'
  BY DEF LookIfCurrent, FileIsOld, Base, Over
<1>5. WritersAreNewer'
  BY DEF LookIfCurrent, WritersAreNewer, Over
<1>6. OneWriter'
  BY DEF LookIfCurrent, OneWriter, Over
<1>7. LoopIsCurrent'
  BY DEF LookIfCurrent, LoopIsCurrent, Current
<1>8. ReturnedIsWritten'
  BY DEF LookIfCurrent, ReturnedIsWritten, Current, Over
<1>9. TimersAreKnown'
  BY DEF LookIfCurrent, TimersAreKnown, Over
<1>10. ChangesAreNotForgotten'
  BY DEF LookIfCurrent, ChangesAreNotForgotten, Current, SaveInFlight
<1> QED
  BY <1>1, <1>2, <1>3, <1>4, <1>5, <1>6, <1>7, <1>8, <1>9, <1>10

LEMMA StepMarkClean ==
  ASSUME IInv, NEW t \in Threads, MarkClean(t)
  PROVE  IInv'
<1> USE BoundsAssumption DEF IInv
<1>1. TypeOK'
  <2>1. Over(t, "returned") \in LoopStages \cup TimerStages
    BY DEF Over, LoopStages, TimerStages, Resting
  <2>2. at' \in [Threads -> LoopStages \cup TimerStages]
    BY <2>1 DEF TypeOK, MarkClean
  <2>3. at'[Loop] \in LoopStages
    BY DEF TypeOK, MarkClean, Over, LoopStages, Resting, Threads
  <2>4. ASSUME NEW u \in Timers
        PROVE  at'[u] \in TimerStages
    BY DEF TypeOK, MarkClean, Over, TimerStages, Threads, Timers, Loop
  <2> QED
    BY <2>2, <2>3, <2>4 DEF TypeOK, MarkClean
<1>2. ChangeIsCounted'
  BY DEF MarkClean, ChangeIsCounted, Over
<1>3. SnapshotsAreOld'
  BY DEF MarkClean, SnapshotsAreOld, Base, Holding, Current, Over
<1>4. FileIsOld'
  BY DEF MarkClean, FileIsOld, Base, Over
<1>5. WritersAreNewer'
  BY DEF MarkClean, WritersAreNewer, Over
<1>6. OneWriter'
  BY DEF MarkClean, OneWriter, Over
<1>7. LoopIsCurrent'
  BY DEF MarkClean, LoopIsCurrent, Current
<1>8. ReturnedIsWritten'
  BY DEF MarkClean, ReturnedIsWritten, Current, Over
<1>9. TimersAreKnown'
  BY DEF MarkClean, TimersAreKnown, Over
<1>10. ChangesAreNotForgotten'
  BY DEF MarkClean, ChangesAreNotForgotten, Current, SaveInFlight
<1> QED
  BY <1>1, <1>2, <1>3, <1>4, <1>5, <1>6, <1>7, <1>8, <1>9, <1>10

LEMMA StepMarkDirty ==
  ASSUME IInv, NEW t \in Threads, MarkDirty(t)
  PROVE  IInv'
<1> USE BoundsAssumption DEF IInv
<1>1. TypeOK'
  BY DEF MarkDirty, TypeOK, Timers, Loop, LoopStages, TimerStages, Resting, Over
<1>2. ChangeIsCounted'
  BY DEF MarkDirty, ChangeIsCounted, Over
<1>3. SnapshotsAreOld'
  BY DEF MarkDirty, SnapshotsAreOld, Base, Holding, Current, Over
<1>4. FileIsOld'
  BY DEF MarkDirty, FileIsOld, Base, Over
<1>5. WritersAreNewer'
  BY DEF MarkDirty, WritersAreNewer, Over
<1>6. OneWriter'
  BY DEF MarkDirty, OneWriter, Over
<1>7. LoopIsCurrent'
  BY DEF MarkDirty, LoopIsCurrent, Current, Over
<1>8. ReturnedIsWritten'
  BY DEF MarkDirty, ReturnedIsWritten, Current, Over
<1>9. TimersAreKnown'
  BY DEF MarkDirty, TimersAreKnown, Over
<1>10. ChangesAreNotForgotten'
  BY DEF MarkDirty, ChangesAreNotForgotten, Current, SaveInFlight
<1> QED
  BY <1>1, <1>2, <1>3, <1>4, <1>5, <1>6, <1>7, <1>8, <1>9, <1>10

LEMMA StepRestart ==
  ASSUME IInv, Restart
  PROVE  IInv'
<1> USE BoundsAssumption DEF IInv
<1>1. TypeOK'
  <2>1. at' \in [Threads -> LoopStages \cup TimerStages]
    BY DEF Restart, LoopStages, TimerStages, Resting
  <2>2. at'[Loop] \in LoopStages
    BY DEF Restart, LoopStages, Resting, Threads
  <2>3. ASSUME NEW t \in Timers
        PROVE  at'[t] \in TimerStages
    BY DEF Restart, TimerStages, Threads, Timers, Loop
  <2>4. NoWrite \in [generation : 0..MaxGeneration, version : 0..MaxVersion]
    BY BoundsAssumption DEF NoWrite
  <2>5. pending' \in [Threads -> [generation : 0..MaxGeneration, version : 0..MaxVersion]]
    BY <2>4 DEF Restart
  <2>6. /\ state' \in 0..MaxVersion /\ file' \in 0..MaxVersion /\ lost' \in 0..MaxVersion
        /\ dirty' \in BOOLEAN /\ op' \in {"none", "save", "clear", "flush"}
        /\ generation' \in 0..MaxGeneration /\ saveTimer' \in {0, generation'}
    <3>1. 0 \in 0..MaxVersion /\ 0 \in 0..MaxGeneration
      OBVIOUS
    <3> QED
      BY <3>1 DEF TypeOK, Restart
  <2> QED
    BY <2>1, <2>2, <2>3, <2>5, <2>6 DEF TypeOK
<1>2. ChangeIsCounted'
  BY DEF Restart, ChangeIsCounted, Threads
<1>3. SnapshotsAreOld'
  BY DEF Restart, SnapshotsAreOld, Holding
<1>4. FileIsOld'
  BY DEF Restart, TypeOK, FileIsOld, Base, Threads
<1>5. WritersAreNewer'
  BY DEF Restart, WritersAreNewer
<1>6. OneWriter'
  BY DEF Restart, OneWriter
<1>7. LoopIsCurrent'
  BY DEF Restart, LoopIsCurrent, Threads
<1>8. ReturnedIsWritten'
  BY DEF Restart, ReturnedIsWritten
<1>9. TimersAreKnown'
  BY DEF Restart, TimersAreKnown, Threads, Loop
<1>10. ChangesAreNotForgotten'
  BY DEF Restart, ChangesAreNotForgotten
<1> QED
  BY <1>1, <1>2, <1>3, <1>4, <1>5, <1>6, <1>7, <1>8, <1>9, <1>10

LEMMA StepStutter ==
  ASSUME IInv, UNCHANGED vars
  PROVE  IInv'
  BY DEF vars, IInv, TypeOK, ChangeIsCounted, SnapshotsAreOld, FileIsOld, WritersAreNewer,
     OneWriter, LoopIsCurrent, ReturnedIsWritten, TimersAreKnown, ChangesAreNotForgotten, SaveInFlight,
     Base, Current

LEMMA StepNext ==
  ASSUME IInv, [Next]_vars
  PROVE  IInv'
<1>1. CASE Next
  BY <1>1, StepBegin, StepSchedule, StepInvalidate, StepClaimForFlush, StepFire, StepClaim,
     StepSnapshot, StepBeginWrite, StepReplace, StepFailWrite, StepLookIfCurrent,
     StepMarkClean, StepMarkDirty, StepRestart DEF Next, Write
<1>2. CASE UNCHANGED vars
  BY <1>2, StepStutter
<1> QED
  BY <1>1, <1>2

-----------------------------------------------------------------------------
(* The results.                                                           *)

(* The invariant holds in every state.                                    *)
THEOREM Invariance == Spec => []IInv
<1>1. Init => IInv
  BY Initially
<1>2. IInv /\ [Next]_vars => IInv'
  BY StepNext
<1> QED
  BY <1>1, <1>2, PTL DEF Spec

(* The state of SessionStore and its persistence has its types.           *)
THEOREM TypeCorrectness == Spec => []TypeOK
<1>1. IInv => TypeOK
  BY DEF IInv
<1> QED
  BY <1>1, Invariance, PTL

(* Every change is in the file, on its way there or lost to a failed      *)
(* write, whatever timers and clears overtake each other.                 *)
THEOREM NothingForgotten == Spec => []ChangesAreNotForgotten
<1>1. IInv => ChangesAreNotForgotten
  BY DEF IInv
<1> QED
  BY <1>1, Invariance, PTL

(* When a flush or a clear returns, the file holds the current state.     *)
THEOREM Durability == Spec => []DurableOnReturn
<1>1. IInv => DurableOnReturn
  BY DEF IInv, ReturnedIsWritten, DurableOnReturn
<1> QED
  BY <1>1, Invariance, PTL

(* A step that replaces the file writes a version at least as new.        *)
LEMMA StepKeepsFile ==
  ASSUME IInv, [Next]_vars
  PROVE  file' >= file
<1> USE DEF IInv
<1>1. file \in Nat
  BY BoundsAssumption DEF TypeOK
<1>2. ASSUME NEW t \in Threads, Replace(t)
      PROVE  file' >= file
  BY <1>1, <1>2 DEF Replace, WritersAreNewer, TypeOK
<1>3. CASE Next
  <2>1. file' = file \/ \E t \in Threads : Replace(t)
    BY <1>3 DEF Next, Write, Begin, Schedule, Invalidate, ClaimForFlush, Fire, Claim, Snapshot,
       BeginWrite, FailWrite, LookIfCurrent, MarkClean, MarkDirty, Restart
  <2> QED
    BY <1>1, <1>2, <2>1
<1>4. CASE UNCHANGED vars
  BY <1>1, <1>4 DEF vars
<1> QED
  BY <1>3, <1>4

(* The file never goes back: no thread, late timer, failure or restart     *)
(* puts an older snapshot over a newer one.                               *)
THEOREM Monotonicity == Spec => FileNeverGoesBack
<1>1. IInv /\ [Next]_vars => [file' >= file]_vars
  BY StepKeepsFile
<1> QED
  BY <1>1, Invariance, PTL DEF Spec, FileNeverGoesBack

-----------------------------------------------------------------------------
(* The ChatGPT account. *)

\* A disconnection's steps under the state lock belong to its administration, and a
\* login is started when there is none.
AdministrationFits ==
    \A m \in Managers :
        /\ held[m].at \in {"revoke", "removelock", "remove"} <=> held[m].kind = "disconnect"
        /\ held[m].kind = "disconnect" => admin[m] = "removing"
        /\ admin[m] = "starting" => ~attached[m]

\* Credentials that have been issued and are yet to be written: the service accepts
\* them, nobody uses them, and each is in one place.
Places == {"held", "login", "abandoned"}
Secrets(m, k) ==
    IF k = "held" THEN {c \in {held[m].using} : held[m].at = "write"}
    ELSE IF k = "login" THEN {c \in {granted[m]} : login[m] \in {"lock", "write"}}
    ELSE abandoned[m]
Known(c) ==
    \/ c = authFile
    \/ \E m \in Managers :
           \/ c = memory[m]
           \/ c = held[m].using /\ held[m].at # "write"
           \/ c = granted[m] /\ login[m] = "memory"

SecretsFit ==
    /\ \A m \in Managers, k \in Places : \A c \in Secrets(m, k) : c \in usable /\ ~Known(c)
    /\ \A m, n \in Managers, k, l \in Places : m # n \/ k # l => Secrets(m, k) \cap Secrets(n, l) = {}

\* Nothing is known that has not been issued.
IssuedFits ==
    /\ authFile <= issued /\ \A c \in usable : c <= issued
    /\ \A m \in Managers : memory[m] <= issued /\ held[m].using <= issued /\ granted[m] <= issued

\* What the file says is renewable, or about to be replaced under the lock.
FileFits ==
    authFile # 0 =>
        \/ authFile \in usable
        \/ \E m \in Managers : held[m].at \in {"removelock", "remove", "write", "erase"}

NothingUpset == upsets = 0 => SecretsFit /\ IssuedFits /\ FileFits

AccountInv == AccountTypeOK /\ LoginIsOwned /\ WritersAreAlone /\ AdministrationFits /\ NothingUpset

\* Who holds the file lock says whether somebody is about to replace the file.
LEMMA AccountImplied == AccountInv => AccountSafety
<1> SUFFICES ASSUME AccountInv PROVE FileIsRenewable
  BY DEF AccountInv, AccountSafety
<1> SUFFICES ASSUME upsets = 0, authFile # 0, fileLock = Nobody, ~Removing PROVE authFile \in usable
  BY DEF FileIsRenewable
<1>1. FileFits
  BY DEF AccountInv, NothingUpset
<1>2. \A m \in Managers : held[m].at \notin {"remove", "write", "erase"}
  BY DEF AccountInv, WritersAreAlone, Nobody
<1>3. \A m \in Managers : held[m].at # "removelock"
  BY DEF Removing
<1> QED
  BY <1>1, <1>2, <1>3 DEF FileFits

\* What becomes known has left its place of secrecy.
LEMMA SecretsKept ==
    ASSUME SecretsFit, NEW K,
           \A m \in Managers, k \in Places : Secrets(m, k)' \subseteq Secrets(m, k),
           \A m \in Managers, k \in Places : \A c \in Secrets(m, k)' : c \notin K /\ c \in usable',
           \A m \in Managers, k \in Places : \A c \in Secrets(m, k) : Known(c)' => Known(c) \/ c \in K
    PROVE  SecretsFit'
<1>1. ASSUME NEW m \in Managers, NEW k \in Places, NEW c \in Secrets(m, k)' PROVE c \in usable' /\ ~Known(c)'
  BY <1>1 DEF SecretsFit
<1>2. ASSUME NEW m \in Managers, NEW n \in Managers, NEW k \in Places, NEW l \in Places, m # n \/ k # l
      PROVE  Secrets(m, k)' \cap Secrets(n, l)' = {}
  <2>1. Secrets(m, k) \cap Secrets(n, l) = {}
    BY <1>2 DEF SecretsFit
  <2>2. Secrets(m, k)' \subseteq Secrets(m, k) /\ Secrets(n, l)' \subseteq Secrets(n, l)
    OBVIOUS
  <2> QED
    BY <2>1, <2>2
<1> QED
  BY <1>1, <1>2 DEF SecretsFit

\* Credentials that have just been issued are a secret of the one who was given them.
LEMMA SecretAdded ==
    ASSUME SecretsFit, NEW s, NEW m \in Managers, NEW k \in Places,
           ~Known(s), s \notin usable, s \in usable',
           Secrets(m, k) = {}, Secrets(m, k)' = {s},
           \A n \in Managers, l \in Places : m # n \/ k # l => Secrets(n, l)' \subseteq Secrets(n, l),
           \A n \in Managers, l \in Places : \A c \in Secrets(n, l) : c \in usable',
           \A c : Known(c)' => Known(c)
    PROVE  SecretsFit'
<1>0. \A n \in Managers, l \in Places : s \notin Secrets(n, l)
  BY DEF SecretsFit
<1>1. ASSUME NEW n \in Managers, NEW l \in Places, NEW c \in Secrets(n, l)' PROVE c \in usable' /\ ~Known(c)'
  <2>1. CASE m # n \/ k # l
    BY <1>1, <2>1 DEF SecretsFit
  <2>2. CASE m = n /\ k = l
    BY <1>1, <2>2
  <2> QED
    BY <2>1, <2>2
<1>2. ASSUME NEW n \in Managers, NEW o \in Managers, NEW j \in Places, NEW l \in Places, n # o \/ j # l
      PROVE  Secrets(n, j)' \cap Secrets(o, l)' = {}
  <2>1. Secrets(n, j) \cap Secrets(o, l) = {}
    BY <1>2 DEF SecretsFit
  <2>2. Secrets(n, j)' \subseteq Secrets(n, j) \/ (n = m /\ j = k /\ Secrets(n, j)' = {s})
    OBVIOUS
  <2>3. Secrets(o, l)' \subseteq Secrets(o, l) \/ (o = m /\ l = k /\ Secrets(o, l)' = {s})
    OBVIOUS
  <2> QED
    BY <1>0, <1>2, <2>1, <2>2, <2>3
<1> QED
  BY <1>1, <1>2 DEF SecretsFit

\* A secret changes its place.
LEMMA SecretMoved ==
    ASSUME SecretsFit, NEW m \in Managers, NEW j \in Places, NEW k \in Places, j # k,
           Secrets(m, j)' = {}, Secrets(m, k)' \subseteq Secrets(m, k) \cup Secrets(m, j),
           \A n \in Managers, l \in Places : m # n \/ k # l => Secrets(n, l)' \subseteq Secrets(n, l),
           usable' = usable, \A c \in usable : Known(c)' => Known(c)
    PROVE  SecretsFit'
<1>1. ASSUME NEW n \in Managers, NEW l \in Places, NEW c \in Secrets(n, l)' PROVE c \in usable' /\ ~Known(c)'
  <2>1. \E o \in Places : c \in Secrets(n, o)
    BY <1>1
  <2>2. c \in usable /\ ~Known(c)
    BY <2>1 DEF SecretsFit
  <2> QED
    BY <2>2
<1>2. ASSUME NEW n \in Managers, NEW o \in Managers, NEW i \in Places, NEW l \in Places, n # o \/ i # l
      PROVE  Secrets(n, i)' \cap Secrets(o, l)' = {}
  <2>1. \A a, b \in Managers, c, d \in Places : a # b \/ c # d => Secrets(a, c) \cap Secrets(b, d) = {}
    BY DEF SecretsFit
  <2>2. CASE n = m /\ i = k
    <3>1. CASE o = m /\ l = j
      BY <3>1
    <3>2. CASE o # m \/ l # j
      <4>1. Secrets(o, l)' \subseteq Secrets(o, l)
        BY <1>2, <2>2
      <4>2. Secrets(m, k) \cap Secrets(o, l) = {} /\ Secrets(m, j) \cap Secrets(o, l) = {}
        BY <1>2, <2>1, <2>2, <3>2
      <4> QED
        BY <2>2, <4>1, <4>2
    <3> QED
      BY <3>1, <3>2
  <2>3. CASE o = m /\ l = k
    <3>1. CASE n = m /\ i = j
      BY <3>1
    <3>2. CASE n # m \/ i # j
      <4>1. Secrets(n, i)' \subseteq Secrets(n, i)
        BY <1>2, <2>3
      <4>2. Secrets(m, k) \cap Secrets(n, i) = {} /\ Secrets(m, j) \cap Secrets(n, i) = {}
        BY <1>2, <2>1, <2>3, <3>2
      <4> QED
        BY <2>3, <4>1, <4>2
    <3> QED
      BY <3>1, <3>2
  <2>4. CASE (n # m \/ i # k) /\ (o # m \/ l # k)
    BY <1>2, <2>1, <2>4
  <2> QED
    BY <2>2, <2>3, <2>4
<1> QED
  BY <1>1, <1>2 DEF SecretsFit

\* The lock stays where it is, and so do those who write.
WriteSteps == {"reread", "post", "write", "erase", "remove"}

LEMMA LockKept ==
    ASSUME WritersAreAlone, fileLock' = fileLock,
           \A n \in Managers : held'[n].at \in WriteSteps <=> held[n].at \in WriteSteps,
           \A n \in Managers : login'[n] = "write" <=> login[n] = "write"
    PROVE  WritersAreAlone'
  BY DEF WritersAreAlone, WriteSteps

\* Its holder gives it back.
LEMMA LockLeft ==
    ASSUME WritersAreAlone, NEW m \in Managers,
           held[m].at \in WriteSteps \/ fileLock = <<m, "held">>, fileLock' = Nobody, held'[m].at \notin WriteSteps,
           \A n \in Managers \ {m} : held'[n].at = held[n].at,
           \A n \in Managers : login'[n] = "write" <=> login[n] = "write"
    PROVE  WritersAreAlone'
<1>1. fileLock = <<m, "held">>
  BY DEF WritersAreAlone, WriteSteps
<1>2. \A n \in Managers : login[n] # "write"
  BY <1>1 DEF WritersAreAlone
<1>3. \A n \in Managers \ {m} : held[n].at \notin WriteSteps
  BY <1>1 DEF WritersAreAlone, WriteSteps
<1>4. \A n \in Managers : fileLock' # <<n, "held">> /\ fileLock' # <<n, "login">>
  BY DEF Nobody
<1> QED
  BY <1>2, <1>3, <1>4 DEF WritersAreAlone, WriteSteps

\* Nothing becomes known or secret.
LEMMA NothingTold ==
    ASSUME SecretsFit,
           \A m \in Managers, k \in Places : Secrets(m, k)' \subseteq Secrets(m, k),
           \A c \in usable : c \in usable' \/ Known(c),
           \A c \in usable : Known(c)' => Known(c)
    PROVE  SecretsFit'
<1>1. ASSUME NEW m \in Managers, NEW k \in Places, NEW c \in Secrets(m, k)' PROVE c \in usable' /\ ~Known(c)'
  <2>1. c \in usable /\ ~Known(c)
    BY <1>1 DEF SecretsFit
  <2> QED
    BY <2>1
<1>2. ASSUME NEW m \in Managers, NEW n \in Managers, NEW k \in Places, NEW l \in Places, m # n \/ k # l
      PROVE  Secrets(m, k)' \cap Secrets(n, l)' = {}
  <2>1. Secrets(m, k) \cap Secrets(n, l) = {}
    BY <1>2 DEF SecretsFit
  <2>2. Secrets(m, k)' \subseteq Secrets(m, k) /\ Secrets(n, l)' \subseteq Secrets(n, l)
    OBVIOUS
  <2> QED
    BY <2>1, <2>2
<1> QED
  BY <1>1, <1>2 DEF SecretsFit

\* What an operation under the state lock knows of itself.
HeldRecords == [at : StateLockSteps, kind : {"none", "access", "recover", "disconnect"},
                using : 0..MaxIssued, tries : 0..2]

LEMMA HeldRecord ==
    ASSUME NEW stage \in StateLockSteps, NEW kind \in {"none", "access", "recover", "disconnect"},
           NEW using \in 0..MaxIssued, NEW tries \in 0..2
    PROVE  [at |-> stage, kind |-> kind, using |-> using, tries |-> tries] \in HeldRecords
  BY DEF HeldRecords

LEMMA HeldRetried ==
    ASSUME NEW r \in HeldRecords, NEW stage, NEW tries
    PROVE  [r EXCEPT !.at = stage, !.tries = tries]
             = [at |-> stage, kind |-> r.kind, using |-> r.using, tries |-> tries]
<1> DEFINE s == [r EXCEPT !.at = stage]
<1>1. s = [at |-> stage, kind |-> r.kind, using |-> r.using, tries |-> r.tries]
  BY DEF HeldRecords
<1> HIDE DEF s
<1>2. [s EXCEPT !.tries = tries] = [at |-> stage, kind |-> r.kind, using |-> r.using, tries |-> tries]
  BY <1>1
<1> QED
  BY <1>2 DEF s

\* Its record is replaced.
LEMMA HeldSet ==
    ASSUME AccountTypeOK, NEW m \in Managers, NEW r \in HeldRecords, held' = [held EXCEPT ![m] = r]
    PROVE  /\ held' \in [Managers -> HeldRecords]
           /\ \A n \in Managers : n # m => held'[n] = held[n]
           /\ held'[m] = r
<1>1. held \in [Managers -> HeldRecords]
  BY DEF AccountTypeOK, HeldRecords
<1> QED
  BY <1>1

\* It goes on to its next step.
LEMMA HeldMoved ==
    ASSUME AccountTypeOK, NEW m \in Managers, NEW stage \in StateLockSteps, HeldTo(m, stage)
    PROVE  /\ held' \in [Managers -> HeldRecords]
           /\ \A n \in Managers : n # m => held'[n] = held[n]
           /\ held'[m].at = stage /\ held'[m].kind = held[m].kind
           /\ held'[m].using = held[m].using /\ held'[m].tries = held[m].tries
<1>1. held \in [Managers -> HeldRecords]
  BY DEF AccountTypeOK, HeldRecords
<1>2. held' = [held EXCEPT ![m] = [at |-> stage, kind |-> held[m].kind, using |-> held[m].using,
                                   tries |-> held[m].tries]]
  <2>1. [held[m] EXCEPT !.at = stage] = [at |-> stage, kind |-> held[m].kind, using |-> held[m].using,
                                      tries |-> held[m].tries]
    BY <1>1 DEF HeldRecords
  <2> QED
    BY <2>1, <1>1 DEF HeldTo
<1>3. [at |-> stage, kind |-> held[m].kind, using |-> held[m].using, tries |-> held[m].tries] \in HeldRecords
  BY <1>1 DEF HeldRecords
<1> QED
  BY <1>2, <1>3, HeldSet

\* It is over.
LEMMA HeldEnded ==
    ASSUME AccountTypeOK, NEW m \in Managers, EndHeld(m)
    PROVE  /\ held' \in [Managers -> HeldRecords]
           /\ \A n \in Managers : n # m => held'[n] = held[n]
           /\ held'[m].at = "free" /\ held'[m].kind = "none" /\ held'[m].using = 0
<1>1. Free \in HeldRecords
  BY AccountAssumption DEF Free, HeldRecords, StateLockSteps, AccountAssumption
<1>2. held'[m] = Free
  BY <1>1, HeldSet DEF EndHeld
<1> QED
  BY <1>1, <1>2, HeldSet DEF EndHeld, Free

\* Credentials come near their end.
LEMMA AccountAge == ASSUME AccountInv, Age PROVE AccountInv'
<1>1. AccountTypeOK'
  <2>1. authFile' \in 0..MaxIssued /\ issued' \in 0..MaxIssued /\ upsets' \in 0..MaxUpsets
        /\ transients' \in 0..MaxTransients /\ logins' \in 0..MaxLogins
    BY DEF AccountInv, Age, AccountTypeOK
  <2>2. usable' \subseteq Credentials /\ ageing' \subseteq Credentials
    BY AccountAssumption DEF AccountInv, Age, AccountTypeOK, AccountAssumption, Credentials
  <2>3. memory' \in [Managers -> 0..MaxIssued] /\ granted' \in [Managers -> 0..MaxIssued]
    BY DEF AccountInv, Age, loginVars, AccountTypeOK
  <2>4. fileLock' \in {Nobody} \cup (Managers \X {"held", "login"})
    BY DEF AccountInv, Age, AccountTypeOK
  <2>5. held' \in [Managers -> [at : StateLockSteps, kind : {"none", "access", "recover", "disconnect"},
                              using : 0..MaxIssued, tries : 0..2]]
    BY DEF AccountInv, Age, AccountTypeOK, StateLockSteps
  <2>6. login' \in [Managers -> {"none", "grant", "exchange", "lock", "write", "memory", "ending"}]
    BY DEF AccountInv, Age, loginVars, AccountTypeOK
  <2>7. /\ attached' \in [Managers -> BOOLEAN] /\ stopping' \in [Managers -> BOOLEAN]
        /\ listener' \in [Managers -> BOOLEAN] /\ shut' \in [Managers -> BOOLEAN]
    BY DEF AccountInv, Age, loginVars, AccountTypeOK
  <2>8. /\ admin' \in [Managers -> {"none", "starting", "cancel", "disconnect", "removing", "close"}]
        /\ abandoned' \in [Managers -> SUBSET (0..MaxIssued)]
    BY DEF AccountInv, Age, AccountTypeOK
  <2> QED
    BY <2>1, <2>2, <2>3, <2>4, <2>5, <2>6, <2>7, <2>8 DEF AccountTypeOK
<1>2. LoginIsOwned'
  BY DEF AccountInv, Age, loginVars, LoginIsOwned, AccountTypeOK, AdministrationFits
<1>3. WritersAreAlone'
  <2>1. WritersAreAlone /\ fileLock' = fileLock
    BY DEF AccountInv, Age
  <2>2. \A n \in Managers : held'[n].at \in WriteSteps <=> held[n].at \in WriteSteps
    BY DEF AccountInv, Age, WriteSteps
  <2>3. \A n \in Managers : login'[n] = "write" <=> login[n] = "write"
    BY DEF AccountInv, Age, loginVars, AccountTypeOK
  <2> QED
    BY <2>1, <2>2, <2>3, LockKept
<1>4. AdministrationFits'
  BY DEF AccountInv, Age, loginVars, AdministrationFits, AccountTypeOK
<1>5. NothingUpset'
  <2> SUFFICES ASSUME upsets' = 0 PROVE SecretsFit' /\ IssuedFits' /\ FileFits'
    BY DEF NothingUpset
  <2>1. SecretsFit /\ IssuedFits /\ FileFits
    BY DEF AccountInv, Age, NothingUpset
  <2>2. SecretsFit'
    <3>1. \A n \in Managers, k \in Places : Secrets(n, k)' \subseteq Secrets(n, k)
      BY DEF AccountInv, Age, loginVars, Secrets, AccountTypeOK
    <3>2. \A c \in usable : c \in usable' \/ Known(c)
      BY DEF AccountInv, Age
    <3>3. \A c \in usable : Known(c)' => Known(c)
      BY DEF AccountInv, Age, loginVars, Known, AccountTypeOK
    <3> QED
      BY <2>1, <3>1, <3>2, <3>3, NothingTold
  <2>3. IssuedFits'
    BY <2>1 DEF AccountInv, Age, loginVars, IssuedFits, AccountTypeOK
  <2>4. FileFits'
    BY <2>1 DEF AccountInv, Age, FileFits, AccountTypeOK
  <2> QED
    BY <2>2, <2>3, <2>4
<1> QED
  BY <1>1, <1>2, <1>3, <1>4, <1>5 DEF AccountInv

\* A request needs credentials.
LEMMA AccountAccess == ASSUME AccountInv, NEW m \in Managers, Access(m) PROVE AccountInv'
<1>0. /\ held' \in [Managers -> HeldRecords]
      /\ \A n \in Managers : n # m => held'[n] = held[n]
      /\ held'[m] = [at |-> "lock", kind |-> "access", using |-> memory[m], tries |-> 0]
  <2>1. memory[m] \in 0..MaxIssued /\ 0 \in 0..2 /\ "lock" \in StateLockSteps
    BY DEF AccountInv, AccountTypeOK, StateLockSteps
  <2>2. [at |-> "lock", kind |-> "access", using |-> memory[m], tries |-> 0] \in HeldRecords
    BY <2>1, HeldRecord
  <2>3. held' = [held EXCEPT ![m] = [at |-> "lock", kind |-> "access", using |-> memory[m], tries |-> 0]]
    BY DEF Access
  <2> QED
    BY <2>2, <2>3, HeldSet DEF AccountInv
<1>1. AccountTypeOK'
  <2>1. authFile' \in 0..MaxIssued /\ issued' \in 0..MaxIssued /\ upsets' \in 0..MaxUpsets
        /\ transients' \in 0..MaxTransients /\ logins' \in 0..MaxLogins
    BY <1>0 DEF AccountInv, Access, sharedVars, AccountTypeOK
  <2>2. usable' \subseteq Credentials /\ ageing' \subseteq Credentials
    BY <1>0 DEF AccountInv, Access, sharedVars, AccountTypeOK
  <2>3. memory' \in [Managers -> 0..MaxIssued] /\ granted' \in [Managers -> 0..MaxIssued]
    BY <1>0 DEF AccountInv, Access, loginVars, AccountTypeOK
  <2>4. fileLock' \in {Nobody} \cup (Managers \X {"held", "login"})
    BY <1>0 DEF AccountInv, Access, sharedVars, AccountTypeOK
  <2>5. held' \in [Managers -> [at : StateLockSteps, kind : {"none", "access", "recover", "disconnect"},
                              using : 0..MaxIssued, tries : 0..2]]
    BY <1>0 DEF HeldRecords
  <2>6. login' \in [Managers -> {"none", "grant", "exchange", "lock", "write", "memory", "ending"}]
    BY <1>0 DEF AccountInv, Access, loginVars, AccountTypeOK
  <2>7. /\ attached' \in [Managers -> BOOLEAN] /\ stopping' \in [Managers -> BOOLEAN]
        /\ listener' \in [Managers -> BOOLEAN] /\ shut' \in [Managers -> BOOLEAN]
    BY <1>0 DEF AccountInv, Access, loginVars, AccountTypeOK
  <2>8. /\ admin' \in [Managers -> {"none", "starting", "cancel", "disconnect", "removing", "close"}]
        /\ abandoned' \in [Managers -> SUBSET (0..MaxIssued)]
    BY <1>0 DEF AccountInv, Access, AccountTypeOK
  <2> QED
    BY <2>1, <2>2, <2>3, <2>4, <2>5, <2>6, <2>7, <2>8 DEF AccountTypeOK
<1>2. LoginIsOwned'
  BY <1>0 DEF AccountInv, Access, loginVars, LoginIsOwned, AccountTypeOK, AdministrationFits
<1>3. WritersAreAlone'
  <2>1. WritersAreAlone /\ fileLock' = fileLock
    BY DEF AccountInv, Access, sharedVars
  <2>2. \A n \in Managers : held'[n].at \in WriteSteps <=> held[n].at \in WriteSteps
    BY <1>0 DEF AccountInv, Access, Free, WriteSteps
  <2>3. \A n \in Managers : login'[n] = "write" <=> login[n] = "write"
    BY DEF AccountInv, Access, loginVars, AccountTypeOK
  <2> QED
    BY <2>1, <2>2, <2>3, LockKept
<1>4. AdministrationFits'
  BY <1>0 DEF AccountInv, Access, loginVars, AdministrationFits, AccountTypeOK
<1>5. NothingUpset'
  <2> SUFFICES ASSUME upsets' = 0 PROVE SecretsFit' /\ IssuedFits' /\ FileFits'
    BY DEF NothingUpset
  <2>1. SecretsFit /\ IssuedFits /\ FileFits
    BY DEF AccountInv, Access, NothingUpset
  <2>2. SecretsFit'
    <3>1. \A n \in Managers, k \in Places : Secrets(n, k)' \subseteq Secrets(n, k)
      BY <1>0 DEF AccountInv, Access, loginVars, Secrets, AccountTypeOK
    <3>2. \A c \in usable : c \in usable' \/ Known(c)
      BY DEF AccountInv, Access, sharedVars
    <3>3. \A c \in usable : Known(c)' => Known(c)
      BY <1>0 DEF AccountInv, Access, sharedVars, loginVars, Known, AccountTypeOK
    <3> QED
      BY <2>1, <3>1, <3>2, <3>3, NothingTold
  <2>3. IssuedFits'
    BY <1>0, <2>1 DEF AccountInv, Access, sharedVars, loginVars, IssuedFits, AccountTypeOK
  <2>4. FileFits'
    BY <1>0, <2>1 DEF AccountInv, Access, Free, sharedVars, FileFits, AccountTypeOK
  <2> QED
    BY <2>2, <2>3, <2>4
<1> QED
  BY <1>1, <1>2, <1>3, <1>4, <1>5 DEF AccountInv

\* Its access token was rejected.
LEMMA AccountRecover == ASSUME AccountInv, NEW m \in Managers, Recover(m) PROVE AccountInv'
<1>0. /\ held' \in [Managers -> HeldRecords]
      /\ \A n \in Managers : n # m => held'[n] = held[n]
      /\ held'[m] = [at |-> "reload", kind |-> "recover", using |-> memory[m], tries |-> 0]
  <2>1. memory[m] \in 0..MaxIssued /\ 0 \in 0..2 /\ "reload" \in StateLockSteps
    BY DEF AccountInv, AccountTypeOK, StateLockSteps
  <2>2. [at |-> "reload", kind |-> "recover", using |-> memory[m], tries |-> 0] \in HeldRecords
    BY <2>1, HeldRecord
  <2> DEFINE s == [Free EXCEPT !.at = "reload"]
  <2> DEFINE t == [s EXCEPT !.kind = "recover"]
  <2> DEFINE r == [t EXCEPT !.using = memory[m]]
  <2>3. held' = [held EXCEPT ![m] = r]
    BY DEF Recover
  <2>4. s = [at |-> "reload", kind |-> "none", using |-> 0, tries |-> 0]
    BY DEF Free
  <2> HIDE DEF s
  <2>5. t = [at |-> "reload", kind |-> "recover", using |-> 0, tries |-> 0]
    BY <2>4
  <2> HIDE DEF t
  <2>6. r = [at |-> "reload", kind |-> "recover", using |-> memory[m], tries |-> 0]
    BY <2>5
  <2> HIDE DEF r
  <2> QED
    BY <2>2, <2>3, <2>6, HeldSet DEF AccountInv
<1>1. AccountTypeOK'
  <2>1. authFile' \in 0..MaxIssued /\ issued' \in 0..MaxIssued /\ upsets' \in 0..MaxUpsets
        /\ transients' \in 0..MaxTransients /\ logins' \in 0..MaxLogins
    BY <1>0 DEF AccountInv, Recover, sharedVars, AccountTypeOK
  <2>2. usable' \subseteq Credentials /\ ageing' \subseteq Credentials
    BY <1>0 DEF AccountInv, Recover, sharedVars, AccountTypeOK
  <2>3. memory' \in [Managers -> 0..MaxIssued] /\ granted' \in [Managers -> 0..MaxIssued]
    BY <1>0 DEF AccountInv, Recover, loginVars, AccountTypeOK
  <2>4. fileLock' \in {Nobody} \cup (Managers \X {"held", "login"})
    BY <1>0 DEF AccountInv, Recover, sharedVars, AccountTypeOK
  <2>5. held' \in [Managers -> [at : StateLockSteps, kind : {"none", "access", "recover", "disconnect"},
                              using : 0..MaxIssued, tries : 0..2]]
    BY <1>0 DEF HeldRecords
  <2>6. login' \in [Managers -> {"none", "grant", "exchange", "lock", "write", "memory", "ending"}]
    BY <1>0 DEF AccountInv, Recover, loginVars, AccountTypeOK
  <2>7. /\ attached' \in [Managers -> BOOLEAN] /\ stopping' \in [Managers -> BOOLEAN]
        /\ listener' \in [Managers -> BOOLEAN] /\ shut' \in [Managers -> BOOLEAN]
    BY <1>0 DEF AccountInv, Recover, loginVars, AccountTypeOK
  <2>8. /\ admin' \in [Managers -> {"none", "starting", "cancel", "disconnect", "removing", "close"}]
        /\ abandoned' \in [Managers -> SUBSET (0..MaxIssued)]
    BY <1>0 DEF AccountInv, Recover, AccountTypeOK
  <2> QED
    BY <2>1, <2>2, <2>3, <2>4, <2>5, <2>6, <2>7, <2>8 DEF AccountTypeOK
<1>2. LoginIsOwned'
  BY <1>0 DEF AccountInv, Recover, loginVars, LoginIsOwned, AccountTypeOK, AdministrationFits
<1>3. WritersAreAlone'
  <2>1. WritersAreAlone /\ fileLock' = fileLock
    BY DEF AccountInv, Recover, sharedVars
  <2>2. \A n \in Managers : held'[n].at \in WriteSteps <=> held[n].at \in WriteSteps
    BY <1>0 DEF AccountInv, Recover, Free, WriteSteps
  <2>3. \A n \in Managers : login'[n] = "write" <=> login[n] = "write"
    BY DEF AccountInv, Recover, loginVars, AccountTypeOK
  <2> QED
    BY <2>1, <2>2, <2>3, LockKept
<1>4. AdministrationFits'
  BY <1>0 DEF AccountInv, Recover, loginVars, AdministrationFits, AccountTypeOK
<1>5. NothingUpset'
  <2> SUFFICES ASSUME upsets' = 0 PROVE SecretsFit' /\ IssuedFits' /\ FileFits'
    BY DEF NothingUpset
  <2>1. SecretsFit /\ IssuedFits /\ FileFits
    BY DEF AccountInv, Recover, NothingUpset
  <2>2. SecretsFit'
    <3>1. \A n \in Managers, k \in Places : Secrets(n, k)' \subseteq Secrets(n, k)
      BY <1>0 DEF AccountInv, Recover, loginVars, Secrets, AccountTypeOK
    <3>2. \A c \in usable : c \in usable' \/ Known(c)
      BY DEF AccountInv, Recover, sharedVars
    <3>3. \A c \in usable : Known(c)' => Known(c)
      BY <1>0 DEF AccountInv, Recover, sharedVars, loginVars, Known, AccountTypeOK
    <3> QED
      BY <2>1, <3>1, <3>2, <3>3, NothingTold
  <2>3. IssuedFits'
    BY <1>0, <2>1 DEF AccountInv, Recover, sharedVars, loginVars, IssuedFits, AccountTypeOK
  <2>4. FileFits'
    BY <1>0, <2>1 DEF AccountInv, Recover, Free, sharedVars, FileFits, AccountTypeOK
  <2> QED
    BY <2>2, <2>3, <2>4
<1> QED
  BY <1>1, <1>2, <1>3, <1>4, <1>5 DEF AccountInv

\* The file's credentials are taken over.
LEMMA AccountReload == ASSUME AccountInv, NEW m \in Managers, Reload(m) PROVE AccountInv'
<1>0. /\ held' \in [Managers -> HeldRecords]
      /\ \A n \in Managers : n # m => held'[n] = held[n]
      /\ held'[m].at \in {"free", "lock"}
      /\ held'[m].kind \in {"none", held[m].kind} /\ held'[m].using \in {0, held[m].using}
  <2>1. "lock" \in StateLockSteps
    BY DEF StateLockSteps
  <2>2. CASE EndHeld(m)
    BY <2>2, HeldEnded DEF AccountInv
  <2>3. CASE HeldTo(m, "lock")
    BY <2>1, <2>3, HeldMoved DEF AccountInv
  <2> QED
    BY <2>2, <2>3 DEF Reload
<1>1. AccountTypeOK'
  <2>1. authFile' \in 0..MaxIssued /\ issued' \in 0..MaxIssued /\ upsets' \in 0..MaxUpsets
        /\ transients' \in 0..MaxTransients /\ logins' \in 0..MaxLogins
    BY <1>0 DEF AccountInv, Reload, HeldTo, EndHeld, Remember, sharedVars, AccountTypeOK
  <2>2. usable' \subseteq Credentials /\ ageing' \subseteq Credentials
    BY <1>0 DEF AccountInv, Reload, HeldTo, EndHeld, Remember, sharedVars, AccountTypeOK
  <2>3. memory' \in [Managers -> 0..MaxIssued] /\ granted' \in [Managers -> 0..MaxIssued]
    BY <1>0 DEF AccountInv, Reload, HeldTo, EndHeld, Remember, loginVars, AccountTypeOK
  <2>4. fileLock' \in {Nobody} \cup (Managers \X {"held", "login"})
    BY <1>0 DEF AccountInv, Reload, HeldTo, EndHeld, Remember, sharedVars, AccountTypeOK
  <2>5. held' \in [Managers -> [at : StateLockSteps, kind : {"none", "access", "recover", "disconnect"},
                              using : 0..MaxIssued, tries : 0..2]]
    BY <1>0 DEF HeldRecords
  <2>6. login' \in [Managers -> {"none", "grant", "exchange", "lock", "write", "memory", "ending"}]
    BY <1>0 DEF AccountInv, Reload, HeldTo, EndHeld, Remember, loginVars, AccountTypeOK
  <2>7. /\ attached' \in [Managers -> BOOLEAN] /\ stopping' \in [Managers -> BOOLEAN]
        /\ listener' \in [Managers -> BOOLEAN] /\ shut' \in [Managers -> BOOLEAN]
    BY <1>0 DEF AccountInv, Reload, HeldTo, EndHeld, Remember, loginVars, AccountTypeOK
  <2>8. /\ admin' \in [Managers -> {"none", "starting", "cancel", "disconnect", "removing", "close"}]
        /\ abandoned' \in [Managers -> SUBSET (0..MaxIssued)]
    BY <1>0 DEF AccountInv, Reload, HeldTo, EndHeld, Remember, AccountTypeOK
  <2> QED
    BY <2>1, <2>2, <2>3, <2>4, <2>5, <2>6, <2>7, <2>8 DEF AccountTypeOK
<1>2. LoginIsOwned'
  BY <1>0 DEF AccountInv, Reload, HeldTo, EndHeld, Remember, loginVars, LoginIsOwned,
     AccountTypeOK, AdministrationFits
<1>3. WritersAreAlone'
  <2>1. WritersAreAlone /\ fileLock' = fileLock
    BY DEF AccountInv, Reload, HeldTo, EndHeld, Remember, sharedVars
  <2>2. \A n \in Managers : held'[n].at \in WriteSteps <=> held[n].at \in WriteSteps
    BY <1>0 DEF AccountInv, Reload, HeldTo, EndHeld, Remember, WriteSteps
  <2>3. \A n \in Managers : login'[n] = "write" <=> login[n] = "write"
    BY DEF AccountInv, Reload, HeldTo, EndHeld, Remember, loginVars, AccountTypeOK
  <2> QED
    BY <2>1, <2>2, <2>3, LockKept
<1>4. AdministrationFits'
  BY <1>0 DEF AccountInv, Reload, HeldTo, EndHeld, Remember, loginVars, AdministrationFits,
     AccountTypeOK
<1>5. NothingUpset'
  <2> SUFFICES ASSUME upsets' = 0 PROVE SecretsFit' /\ IssuedFits' /\ FileFits'
    BY DEF NothingUpset
  <2>1. SecretsFit /\ IssuedFits /\ FileFits
    BY DEF AccountInv, Reload, HeldTo, EndHeld, Remember, NothingUpset
  <2>2. SecretsFit'
    <3>1. \A n \in Managers, k \in Places : Secrets(n, k)' \subseteq Secrets(n, k)
      BY <1>0 DEF AccountInv, Reload, HeldTo, EndHeld, Remember, loginVars, Secrets,
         AccountTypeOK
    <3>2. \A c \in usable : c \in usable' \/ Known(c)
      BY DEF AccountInv, Reload, HeldTo, EndHeld, Remember, sharedVars
    <3>3. \A c \in usable : Known(c)' => Known(c)
      <4> SUFFICES ASSUME NEW c \in usable, Known(c)' PROVE Known(c)
        OBVIOUS
      <4>0. c \in Nat \ {0}
        BY DEF AccountInv, AccountTypeOK, Credentials
      <4>1. ASSUME c = authFile' PROVE Known(c)
        BY <4>0, <4>1, <1>0 DEF AccountInv, Reload, HeldTo, EndHeld, Remember, sharedVars, Known
      <4>2. ASSUME NEW n \in Managers, c = memory'[n] PROVE Known(c)
        <5>1. c = memory[n] \/ c = authFile
          BY <4>0, <4>2, <1>0 DEF AccountInv, Reload, HeldTo, EndHeld, Remember, AccountTypeOK
        <5> QED
          BY <5>1 DEF Known
      <4>3. ASSUME NEW n \in Managers, c = held'[n].using, held'[n].at # "write" PROVE Known(c)
        <5>1. \/ c = held[n].using /\ held[n].at # "write"
              \/ c = memory[n]
          BY <4>0, <4>3, <1>0 DEF AccountInv, Reload, HeldTo, EndHeld, Remember, AccountTypeOK
        <5> QED
          BY <5>1 DEF Known
      <4>4. ASSUME NEW n \in Managers, c = granted'[n], login'[n] = "memory" PROVE Known(c)
        <5>1. c = granted[n] /\ login[n] = "memory"
          BY <4>0, <4>4 DEF AccountInv, Reload, HeldTo, EndHeld, Remember, loginVars,
             AccountTypeOK
        <5> QED
          BY <5>1 DEF Known
      <4> QED
        BY <4>1, <4>2, <4>3, <4>4 DEF Known
    <3> QED
      BY <2>1, <3>1, <3>2, <3>3, NothingTold
  <2>3. IssuedFits'
    BY <1>0, <2>1 DEF AccountInv, Reload, HeldTo, EndHeld, Remember, sharedVars, loginVars,
       IssuedFits, AccountTypeOK
  <2>4. FileFits'
    BY <1>0, <2>1 DEF AccountInv, Reload, HeldTo, EndHeld, Remember, sharedVars, FileFits,
       AccountTypeOK
  <2> QED
    BY <2>2, <2>3, <2>4
<1> QED
  BY <1>1, <1>2, <1>3, <1>4, <1>5 DEF AccountInv

\* The file lock is taken.
LEMMA AccountLockFile == ASSUME AccountInv, NEW m \in Managers, LockFile(m) PROVE AccountInv'
<1>0. /\ held' \in [Managers -> HeldRecords]
      /\ \A n \in Managers : n # m => held'[n] = held[n]
      /\ held'[m].at = IF held[m].at = "lock" THEN "reread" ELSE "remove"
      /\ held'[m].kind = held[m].kind /\ held'[m].using = held[m].using
  <2>1. (IF held[m].at = "lock" THEN "reread" ELSE "remove") \in StateLockSteps
    BY DEF StateLockSteps
  <2> QED
    BY <2>1, HeldMoved DEF AccountInv, LockFile
<1>1. AccountTypeOK'
  <2>1. authFile' \in 0..MaxIssued /\ issued' \in 0..MaxIssued /\ upsets' \in 0..MaxUpsets
        /\ transients' \in 0..MaxTransients /\ logins' \in 0..MaxLogins
    BY <1>0 DEF AccountInv, LockFile, HeldTo, AccountTypeOK
  <2>2. usable' \subseteq Credentials /\ ageing' \subseteq Credentials
    BY <1>0 DEF AccountInv, LockFile, HeldTo, AccountTypeOK
  <2>3. memory' \in [Managers -> 0..MaxIssued] /\ granted' \in [Managers -> 0..MaxIssued]
    BY <1>0 DEF AccountInv, LockFile, HeldTo, loginVars, AccountTypeOK
  <2>4. fileLock' \in {Nobody} \cup (Managers \X {"held", "login"})
    BY <1>0 DEF AccountInv, LockFile, HeldTo, AccountTypeOK
  <2>5. held' \in [Managers -> [at : StateLockSteps, kind : {"none", "access", "recover", "disconnect"},
                              using : 0..MaxIssued, tries : 0..2]]
    BY <1>0 DEF HeldRecords
  <2>6. login' \in [Managers -> {"none", "grant", "exchange", "lock", "write", "memory", "ending"}]
    BY <1>0 DEF AccountInv, LockFile, HeldTo, loginVars, AccountTypeOK
  <2>7. /\ attached' \in [Managers -> BOOLEAN] /\ stopping' \in [Managers -> BOOLEAN]
        /\ listener' \in [Managers -> BOOLEAN] /\ shut' \in [Managers -> BOOLEAN]
    BY <1>0 DEF AccountInv, LockFile, HeldTo, loginVars, AccountTypeOK
  <2>8. /\ admin' \in [Managers -> {"none", "starting", "cancel", "disconnect", "removing", "close"}]
        /\ abandoned' \in [Managers -> SUBSET (0..MaxIssued)]
    BY <1>0 DEF AccountInv, LockFile, HeldTo, AccountTypeOK
  <2> QED
    BY <2>1, <2>2, <2>3, <2>4, <2>5, <2>6, <2>7, <2>8 DEF AccountTypeOK
<1>2. LoginIsOwned'
  BY <1>0 DEF AccountInv, LockFile, HeldTo, loginVars, LoginIsOwned, AccountTypeOK,
     AdministrationFits
<1>3. WritersAreAlone'
  BY <1>0 DEF AccountInv, LockFile, HeldTo, loginVars, WritersAreAlone, AccountTypeOK, Nobody
<1>4. AdministrationFits'
  BY <1>0 DEF AccountInv, LockFile, HeldTo, loginVars, AdministrationFits, AccountTypeOK
<1>5. NothingUpset'
  <2> SUFFICES ASSUME upsets' = 0 PROVE SecretsFit' /\ IssuedFits' /\ FileFits'
    BY DEF NothingUpset
  <2>1. SecretsFit /\ IssuedFits /\ FileFits
    BY DEF AccountInv, LockFile, HeldTo, NothingUpset
  <2>2. SecretsFit'
    <3>1. \A n \in Managers, k \in Places : Secrets(n, k)' \subseteq Secrets(n, k)
      BY <1>0 DEF AccountInv, LockFile, HeldTo, loginVars, Secrets, AccountTypeOK
    <3>2. \A c \in usable : c \in usable' \/ Known(c)
      BY DEF AccountInv, LockFile, HeldTo
    <3>3. \A c \in usable : Known(c)' => Known(c)
      BY <1>0 DEF AccountInv, LockFile, HeldTo, loginVars, Known, AccountTypeOK
    <3> QED
      BY <2>1, <3>1, <3>2, <3>3, NothingTold
  <2>3. IssuedFits'
    BY <1>0, <2>1 DEF AccountInv, LockFile, HeldTo, loginVars, IssuedFits, AccountTypeOK
  <2>4. FileFits'
    BY <1>0, <2>1 DEF AccountInv, LockFile, HeldTo, FileFits, AccountTypeOK
  <2> QED
    BY <2>2, <2>3, <2>4
<1> QED
  BY <1>1, <1>2, <1>3, <1>4, <1>5 DEF AccountInv

\* It is not.
LEMMA AccountLockTimesOut == ASSUME AccountInv, NEW m \in Managers, LockTimesOut(m) PROVE AccountInv'
<1>0. /\ held' \in [Managers -> HeldRecords]
      /\ \A n \in Managers : n # m => held'[n] = held[n]
      /\ held'[m].at = "free" /\ held'[m].kind = "none" /\ held'[m].using = 0
  BY HeldEnded DEF AccountInv, LockTimesOut
<1>1. AccountTypeOK'
  <2>1. authFile' \in 0..MaxIssued /\ issued' \in 0..MaxIssued /\ upsets' \in 0..MaxUpsets
        /\ transients' \in 0..MaxTransients /\ logins' \in 0..MaxLogins
    BY <1>0, AccountAssumption DEF AccountInv, LockTimesOut, Upset, EndHeld, sharedVars,
       AccountTypeOK, AccountAssumption
  <2>2. usable' \subseteq Credentials /\ ageing' \subseteq Credentials
    BY <1>0 DEF AccountInv, LockTimesOut, Upset, EndHeld, sharedVars, AccountTypeOK
  <2>3. memory' \in [Managers -> 0..MaxIssued] /\ granted' \in [Managers -> 0..MaxIssued]
    BY <1>0 DEF AccountInv, LockTimesOut, Upset, EndHeld, loginVars, AccountTypeOK
  <2>4. fileLock' \in {Nobody} \cup (Managers \X {"held", "login"})
    BY <1>0 DEF AccountInv, LockTimesOut, Upset, EndHeld, sharedVars, AccountTypeOK
  <2>5. held' \in [Managers -> [at : StateLockSteps, kind : {"none", "access", "recover", "disconnect"},
                              using : 0..MaxIssued, tries : 0..2]]
    BY <1>0 DEF HeldRecords
  <2>6. login' \in [Managers -> {"none", "grant", "exchange", "lock", "write", "memory", "ending"}]
    BY <1>0 DEF AccountInv, LockTimesOut, Upset, EndHeld, loginVars, AccountTypeOK
  <2>7. /\ attached' \in [Managers -> BOOLEAN] /\ stopping' \in [Managers -> BOOLEAN]
        /\ listener' \in [Managers -> BOOLEAN] /\ shut' \in [Managers -> BOOLEAN]
    BY <1>0 DEF AccountInv, LockTimesOut, Upset, EndHeld, loginVars, AccountTypeOK
  <2>8. /\ admin' \in [Managers -> {"none", "starting", "cancel", "disconnect", "removing", "close"}]
        /\ abandoned' \in [Managers -> SUBSET (0..MaxIssued)]
    BY <1>0 DEF AccountInv, LockTimesOut, Upset, EndHeld, AccountTypeOK
  <2> QED
    BY <2>1, <2>2, <2>3, <2>4, <2>5, <2>6, <2>7, <2>8 DEF AccountTypeOK
<1>2. LoginIsOwned'
  BY <1>0 DEF AccountInv, LockTimesOut, Upset, EndHeld, loginVars, LoginIsOwned, AccountTypeOK,
     AdministrationFits
<1>3. WritersAreAlone'
  <2>1. WritersAreAlone /\ fileLock' = fileLock
    BY DEF AccountInv, LockTimesOut, Upset, EndHeld, sharedVars
  <2>2. \A n \in Managers : held'[n].at \in WriteSteps <=> held[n].at \in WriteSteps
    BY <1>0 DEF AccountInv, LockTimesOut, Upset, EndHeld, WriteSteps
  <2>3. \A n \in Managers : login'[n] = "write" <=> login[n] = "write"
    BY DEF AccountInv, LockTimesOut, Upset, EndHeld, loginVars, AccountTypeOK
  <2> QED
    BY <2>1, <2>2, <2>3, LockKept
<1>4. AdministrationFits'
  BY <1>0 DEF AccountInv, LockTimesOut, Upset, EndHeld, loginVars, AdministrationFits,
     AccountTypeOK
<1>5. NothingUpset'
  <2> SUFFICES ASSUME upsets' = 0 PROVE FALSE
    BY DEF NothingUpset
  <2> QED
    BY DEF AccountInv, LockTimesOut, Upset, EndHeld, AccountTypeOK
<1> QED
  BY <1>1, <1>2, <1>3, <1>4, <1>5 DEF AccountInv

\* Another process may have refreshed.
LEMMA AccountReread == ASSUME AccountInv, NEW m \in Managers, Reread(m) PROVE AccountInv'
<1>0. /\ held' \in [Managers -> HeldRecords]
      /\ \A n \in Managers : n # m => held'[n] = held[n]
      /\ held'[m].at \in {"free", "post"}
      /\ held'[m].at = "free" => held'[m].kind = "none" /\ held'[m].using = 0 /\ fileLock' = Nobody
      /\ held'[m].at = "post" => /\ held'[m].kind = held[m].kind /\ held'[m].using = held[m].using
                                 /\ fileLock' = fileLock
  <2>1. "post" \in StateLockSteps
    BY DEF StateLockSteps
  <2>2. CASE Done(m)
    BY <2>2, HeldEnded DEF AccountInv, Done
  <2>3. CASE HeldTo(m, "post") /\ fileLock' = fileLock
    BY <2>1, <2>3, HeldMoved DEF AccountInv
  <2> QED
    BY <2>2, <2>3 DEF Reread
<1>1. AccountTypeOK'
  <2>1. authFile' \in 0..MaxIssued /\ issued' \in 0..MaxIssued /\ upsets' \in 0..MaxUpsets
        /\ transients' \in 0..MaxTransients /\ logins' \in 0..MaxLogins
    BY <1>0 DEF AccountInv, Reread, HeldTo, EndHeld, Remember, Done, AccountTypeOK
  <2>2. usable' \subseteq Credentials /\ ageing' \subseteq Credentials
    BY <1>0 DEF AccountInv, Reread, HeldTo, EndHeld, Remember, Done, AccountTypeOK
  <2>3. memory' \in [Managers -> 0..MaxIssued] /\ granted' \in [Managers -> 0..MaxIssued]
    BY <1>0 DEF AccountInv, Reread, HeldTo, EndHeld, Remember, Done, loginVars, AccountTypeOK
  <2>4. fileLock' \in {Nobody} \cup (Managers \X {"held", "login"})
    BY <1>0 DEF AccountInv, Reread, HeldTo, EndHeld, Remember, Done, AccountTypeOK
  <2>5. held' \in [Managers -> [at : StateLockSteps, kind : {"none", "access", "recover", "disconnect"},
                              using : 0..MaxIssued, tries : 0..2]]
    BY <1>0 DEF HeldRecords
  <2>6. login' \in [Managers -> {"none", "grant", "exchange", "lock", "write", "memory", "ending"}]
    BY <1>0 DEF AccountInv, Reread, HeldTo, EndHeld, Remember, Done, loginVars, AccountTypeOK
  <2>7. /\ attached' \in [Managers -> BOOLEAN] /\ stopping' \in [Managers -> BOOLEAN]
        /\ listener' \in [Managers -> BOOLEAN] /\ shut' \in [Managers -> BOOLEAN]
    BY <1>0 DEF AccountInv, Reread, HeldTo, EndHeld, Remember, Done, loginVars, AccountTypeOK
  <2>8. /\ admin' \in [Managers -> {"none", "starting", "cancel", "disconnect", "removing", "close"}]
        /\ abandoned' \in [Managers -> SUBSET (0..MaxIssued)]
    BY <1>0 DEF AccountInv, Reread, HeldTo, EndHeld, Remember, Done, AccountTypeOK
  <2> QED
    BY <2>1, <2>2, <2>3, <2>4, <2>5, <2>6, <2>7, <2>8 DEF AccountTypeOK
<1>2. LoginIsOwned'
  BY <1>0 DEF AccountInv, Reread, HeldTo, EndHeld, Remember, Done, loginVars, LoginIsOwned,
     AccountTypeOK, AdministrationFits
<1>3. WritersAreAlone'
  <2>0. /\ WritersAreAlone /\ held[m].at \in WriteSteps
        /\ \A n \in Managers : login'[n] = "write" <=> login[n] = "write"
    BY DEF Reread, AccountInv, loginVars, WriteSteps
  <2>1. CASE held'[m].at = "free"
    <3>1. /\ held'[m].at \notin WriteSteps /\ fileLock' = Nobody
          /\ \A n \in Managers \ {m} : held'[n].at = held[n].at
      BY <1>0, <2>1 DEF WriteSteps
    <3> QED
      BY <2>0, <3>1, LockLeft
  <2>2. CASE held'[m].at = "post"
    <3>1. \A n \in Managers : held'[n].at \in WriteSteps <=> held[n].at \in WriteSteps
      BY <1>0, <2>0, <2>2 DEF WriteSteps
    <3> QED
      BY <1>0, <2>0, <2>2, <3>1, LockKept
  <2> QED
    BY <1>0, <2>1, <2>2
<1>4. AdministrationFits'
  BY <1>0 DEF AccountInv, Reread, HeldTo, EndHeld, Remember, Done, loginVars, AdministrationFits,
     AccountTypeOK
<1>5. NothingUpset'
  <2> SUFFICES ASSUME upsets' = 0 PROVE SecretsFit' /\ IssuedFits' /\ FileFits'
    BY DEF NothingUpset
  <2>1. SecretsFit /\ IssuedFits /\ FileFits
    BY DEF AccountInv, Reread, HeldTo, EndHeld, Remember, Done, NothingUpset
  <2>2. SecretsFit'
    <3>1. \A n \in Managers, k \in Places : Secrets(n, k)' \subseteq Secrets(n, k)
      BY <1>0 DEF AccountInv, Reread, HeldTo, EndHeld, Remember, Done, loginVars, Secrets,
         AccountTypeOK
    <3>2. \A c \in usable : c \in usable' \/ Known(c)
      BY DEF AccountInv, Reread, HeldTo, EndHeld, Remember, Done
    <3>3. \A c \in usable : Known(c)' => Known(c)
      <4> SUFFICES ASSUME NEW c \in usable, Known(c)' PROVE Known(c)
        OBVIOUS
      <4>0. c \in Nat \ {0}
        BY DEF AccountInv, AccountTypeOK, Credentials
      <4>1. ASSUME c = authFile' PROVE Known(c)
        BY <4>0, <4>1, <1>0 DEF AccountInv, Reread, HeldTo, EndHeld, Remember, Done, Known
      <4>2. ASSUME NEW n \in Managers, c = memory'[n] PROVE Known(c)
        <5>1. c = memory[n] \/ c = authFile
          BY <4>0, <4>2, <1>0 DEF AccountInv, Reread, HeldTo, EndHeld, Remember, Done,
             AccountTypeOK
        <5> QED
          BY <5>1 DEF Known
      <4>3. ASSUME NEW n \in Managers, c = held'[n].using, held'[n].at # "write" PROVE Known(c)
        <5>1. \/ c = held[n].using /\ held[n].at # "write"
              \/ c = memory[n]
          BY <4>0, <4>3, <1>0 DEF AccountInv, Reread, HeldTo, EndHeld, Remember, Done,
             AccountTypeOK
        <5> QED
          BY <5>1 DEF Known
      <4>4. ASSUME NEW n \in Managers, c = granted'[n], login'[n] = "memory" PROVE Known(c)
        <5>1. c = granted[n] /\ login[n] = "memory"
          BY <4>0, <4>4 DEF AccountInv, Reread, HeldTo, EndHeld, Remember, Done, loginVars,
             AccountTypeOK
        <5> QED
          BY <5>1 DEF Known
      <4> QED
        BY <4>1, <4>2, <4>3, <4>4 DEF Known
    <3> QED
      BY <2>1, <3>1, <3>2, <3>3, NothingTold
  <2>3. IssuedFits'
    <3>1. \A n \in Managers : memory'[n] <= issued
      BY <1>0, <2>1 DEF Reread, Remember, IssuedFits, AccountInv, AccountTypeOK
    <3>2. \A n \in Managers : held'[n].using <= issued
      BY <1>0, <2>1 DEF IssuedFits, AccountInv, AccountTypeOK
    <3> QED
      BY <2>1, <3>1, <3>2 DEF Reread, IssuedFits, loginVars
  <2>4. FileFits'
    BY <1>0, <2>1 DEF AccountInv, Reread, HeldTo, EndHeld, Remember, Done, FileFits,
       AccountTypeOK
  <2> QED
    BY <2>2, <2>3, <2>4
<1> QED
  BY <1>1, <1>2, <1>3, <1>4, <1>5 DEF AccountInv

\* The service rejects the refresh token.
LEMMA AccountRejected == ASSUME AccountInv, NEW m \in Managers, Rejected(m) PROVE AccountInv'
<1>0. /\ held' \in [Managers -> HeldRecords]
      /\ \A n \in Managers : n # m => held'[n] = held[n]
      /\ held'[m].at = "erase" /\ held'[m].kind = held[m].kind /\ held'[m].using = held[m].using
  <2>1. "erase" \in StateLockSteps
    BY DEF StateLockSteps
  <2> QED
    BY <2>1, HeldMoved DEF AccountInv, Rejected
<1>1. AccountTypeOK'
  <2>1. authFile' \in 0..MaxIssued /\ issued' \in 0..MaxIssued /\ upsets' \in 0..MaxUpsets
        /\ transients' \in 0..MaxTransients /\ logins' \in 0..MaxLogins
    BY <1>0 DEF AccountInv, Rejected, HeldTo, sharedVars, AccountTypeOK
  <2>2. usable' \subseteq Credentials /\ ageing' \subseteq Credentials
    BY <1>0 DEF AccountInv, Rejected, HeldTo, sharedVars, AccountTypeOK
  <2>3. memory' \in [Managers -> 0..MaxIssued] /\ granted' \in [Managers -> 0..MaxIssued]
    BY <1>0 DEF AccountInv, Rejected, HeldTo, loginVars, AccountTypeOK
  <2>4. fileLock' \in {Nobody} \cup (Managers \X {"held", "login"})
    BY <1>0 DEF AccountInv, Rejected, HeldTo, sharedVars, AccountTypeOK
  <2>5. held' \in [Managers -> [at : StateLockSteps, kind : {"none", "access", "recover", "disconnect"},
                              using : 0..MaxIssued, tries : 0..2]]
    BY <1>0 DEF HeldRecords
  <2>6. login' \in [Managers -> {"none", "grant", "exchange", "lock", "write", "memory", "ending"}]
    BY <1>0 DEF AccountInv, Rejected, HeldTo, loginVars, AccountTypeOK
  <2>7. /\ attached' \in [Managers -> BOOLEAN] /\ stopping' \in [Managers -> BOOLEAN]
        /\ listener' \in [Managers -> BOOLEAN] /\ shut' \in [Managers -> BOOLEAN]
    BY <1>0 DEF AccountInv, Rejected, HeldTo, loginVars, AccountTypeOK
  <2>8. /\ admin' \in [Managers -> {"none", "starting", "cancel", "disconnect", "removing", "close"}]
        /\ abandoned' \in [Managers -> SUBSET (0..MaxIssued)]
    BY <1>0 DEF AccountInv, Rejected, HeldTo, AccountTypeOK
  <2> QED
    BY <2>1, <2>2, <2>3, <2>4, <2>5, <2>6, <2>7, <2>8 DEF AccountTypeOK
<1>2. LoginIsOwned'
  BY <1>0 DEF AccountInv, Rejected, HeldTo, loginVars, LoginIsOwned, AccountTypeOK,
     AdministrationFits
<1>3. WritersAreAlone'
  <2>1. WritersAreAlone /\ fileLock' = fileLock
    BY DEF AccountInv, Rejected, HeldTo, sharedVars
  <2>2. \A n \in Managers : held'[n].at \in WriteSteps <=> held[n].at \in WriteSteps
    BY <1>0 DEF AccountInv, Rejected, HeldTo, WriteSteps
  <2>3. \A n \in Managers : login'[n] = "write" <=> login[n] = "write"
    BY DEF AccountInv, Rejected, HeldTo, loginVars, AccountTypeOK
  <2> QED
    BY <2>1, <2>2, <2>3, LockKept
<1>4. AdministrationFits'
  BY <1>0 DEF AccountInv, Rejected, HeldTo, loginVars, AdministrationFits, AccountTypeOK
<1>5. NothingUpset'
  <2> SUFFICES ASSUME upsets' = 0 PROVE SecretsFit' /\ IssuedFits' /\ FileFits'
    BY DEF NothingUpset
  <2>1. SecretsFit /\ IssuedFits /\ FileFits
    BY DEF AccountInv, Rejected, HeldTo, NothingUpset
  <2>2. SecretsFit'
    <3>1. \A n \in Managers, k \in Places : Secrets(n, k)' \subseteq Secrets(n, k)
      BY <1>0 DEF AccountInv, Rejected, HeldTo, loginVars, Secrets, AccountTypeOK
    <3>2. \A c \in usable : c \in usable' \/ Known(c)
      BY DEF AccountInv, Rejected, HeldTo, sharedVars
    <3>3. \A c \in usable : Known(c)' => Known(c)
      BY <1>0 DEF AccountInv, Rejected, HeldTo, sharedVars, loginVars, Known, AccountTypeOK
    <3> QED
      BY <2>1, <3>1, <3>2, <3>3, NothingTold
  <2>3. IssuedFits'
    BY <1>0, <2>1 DEF AccountInv, Rejected, HeldTo, sharedVars, loginVars, IssuedFits,
       AccountTypeOK
  <2>4. FileFits'
    BY <1>0, <2>1 DEF AccountInv, Rejected, HeldTo, FileFits, AccountTypeOK
  <2> QED
    BY <2>2, <2>3, <2>4
<1> QED
  BY <1>1, <1>2, <1>3, <1>4, <1>5 DEF AccountInv

\* There is no answer.
LEMMA AccountNotRefreshed == ASSUME AccountInv, NEW m \in Managers, NotRefreshed(m) PROVE AccountInv'
<1>0. /\ held' \in [Managers -> HeldRecords]
      /\ \A n \in Managers : n # m => held'[n] = held[n]
      /\ held'[m].at \in {"free", "lock"} /\ held'[m].using \in {0, held[m].using}
      /\ held'[m].kind \in {"none", "recover"}
  <2>1. CASE held' = [held EXCEPT ![m] = Free]
    BY <2>1, HeldEnded DEF AccountInv, EndHeld
  <2>2. CASE held[m].kind = "recover" /\ held' = [held EXCEPT ![m] = [@ EXCEPT !.at = "lock", !.tries = 1]]
    <3>0. /\ held[m] \in HeldRecords /\ held[m].kind \in {"none", "access", "recover", "disconnect"}
          /\ held[m].using \in 0..MaxIssued /\ "lock" \in StateLockSteps /\ 1 \in 0..2
      BY DEF AccountInv, AccountTypeOK, HeldRecords, StateLockSteps
    <3> DEFINE r == [at |-> "lock", kind |-> held[m].kind, using |-> held[m].using, tries |-> 1]
    <3>1. r \in HeldRecords
      BY <3>0, HeldRecord
    <3>2. held' = [held EXCEPT ![m] = r]
      BY <2>2, <3>0, HeldRetried
    <3> HIDE DEF r
    <3>3. /\ held' \in [Managers -> HeldRecords]
          /\ \A n \in Managers : n # m => held'[n] = held[n]
          /\ held'[m] = r
      BY <3>1, <3>2, HeldSet DEF AccountInv
    <3> QED
      BY <2>2, <3>3 DEF r
  <2> QED
    BY <2>1, <2>2 DEF NotRefreshed, GoOn
<1>1. AccountTypeOK'
  <2>1. authFile' \in 0..MaxIssued /\ issued' \in 0..MaxIssued /\ upsets' \in 0..MaxUpsets
        /\ transients' \in 0..MaxTransients /\ logins' \in 0..MaxLogins
    BY <1>0, AccountAssumption DEF AccountInv, NotRefreshed, GoOn, AccountTypeOK,
       AccountAssumption
  <2>2. usable' \subseteq Credentials /\ ageing' \subseteq Credentials
    BY <1>0 DEF AccountInv, NotRefreshed, GoOn, AccountTypeOK
  <2>3. memory' \in [Managers -> 0..MaxIssued] /\ granted' \in [Managers -> 0..MaxIssued]
    BY <1>0 DEF AccountInv, NotRefreshed, GoOn, loginVars, AccountTypeOK
  <2>4. fileLock' \in {Nobody} \cup (Managers \X {"held", "login"})
    BY <1>0 DEF AccountInv, NotRefreshed, GoOn, AccountTypeOK
  <2>5. held' \in [Managers -> [at : StateLockSteps, kind : {"none", "access", "recover", "disconnect"},
                              using : 0..MaxIssued, tries : 0..2]]
    BY <1>0 DEF HeldRecords
  <2>6. login' \in [Managers -> {"none", "grant", "exchange", "lock", "write", "memory", "ending"}]
    BY <1>0 DEF AccountInv, NotRefreshed, GoOn, loginVars, AccountTypeOK
  <2>7. /\ attached' \in [Managers -> BOOLEAN] /\ stopping' \in [Managers -> BOOLEAN]
        /\ listener' \in [Managers -> BOOLEAN] /\ shut' \in [Managers -> BOOLEAN]
    BY <1>0 DEF AccountInv, NotRefreshed, GoOn, loginVars, AccountTypeOK
  <2>8. /\ admin' \in [Managers -> {"none", "starting", "cancel", "disconnect", "removing", "close"}]
        /\ abandoned' \in [Managers -> SUBSET (0..MaxIssued)]
    BY <1>0 DEF AccountInv, NotRefreshed, GoOn, AccountTypeOK
  <2> QED
    BY <2>1, <2>2, <2>3, <2>4, <2>5, <2>6, <2>7, <2>8 DEF AccountTypeOK
<1>2. LoginIsOwned'
  BY <1>0 DEF AccountInv, NotRefreshed, GoOn, loginVars, LoginIsOwned, AccountTypeOK,
     AdministrationFits
<1>3. WritersAreAlone'
  <2>1. WritersAreAlone /\ fileLock' = Nobody /\ held[m].at \in WriteSteps
    BY <1>0 DEF AccountInv, NotRefreshed, GoOn, WriteSteps
  <2>2. held'[m].at \notin WriteSteps /\ \A n \in Managers \ {m} : held'[n].at = held[n].at
    BY <1>0 DEF AccountInv, NotRefreshed, GoOn, WriteSteps
  <2>3. \A n \in Managers : login'[n] = "write" <=> login[n] = "write"
    BY DEF AccountInv, NotRefreshed, GoOn, loginVars, AccountTypeOK
  <2> QED
    BY <2>1, <2>2, <2>3, LockLeft
<1>4. AdministrationFits'
  BY <1>0 DEF AccountInv, NotRefreshed, GoOn, loginVars, AdministrationFits, AccountTypeOK
<1>5. NothingUpset'
  <2> SUFFICES ASSUME upsets' = 0 PROVE SecretsFit' /\ IssuedFits' /\ FileFits'
    BY DEF NothingUpset
  <2>1. SecretsFit /\ IssuedFits /\ FileFits
    BY DEF AccountInv, NotRefreshed, GoOn, NothingUpset
  <2>2. SecretsFit'
    <3>1. \A n \in Managers, k \in Places : Secrets(n, k)' \subseteq Secrets(n, k)
      BY <1>0 DEF AccountInv, NotRefreshed, GoOn, loginVars, Secrets, AccountTypeOK
    <3>2. \A c \in usable : c \in usable' \/ Known(c)
      BY DEF AccountInv, NotRefreshed, GoOn
    <3>3. \A c \in usable : Known(c)' => Known(c)
      <4> SUFFICES ASSUME NEW c \in usable, Known(c)' PROVE Known(c)
        OBVIOUS
      <4>0. c \in Nat \ {0}
        BY DEF AccountInv, AccountTypeOK, Credentials
      <4>1. ASSUME c = authFile' PROVE Known(c)
        BY <4>0, <4>1, <1>0 DEF AccountInv, NotRefreshed, GoOn, Known
      <4>2. ASSUME NEW n \in Managers, c = memory'[n] PROVE Known(c)
        <5>1. c = memory[n] \/ c = authFile
          BY <4>0, <4>2, <1>0 DEF AccountInv, NotRefreshed, GoOn, AccountTypeOK
        <5> QED
          BY <5>1 DEF Known
      <4>3. ASSUME NEW n \in Managers, c = held'[n].using, held'[n].at # "write" PROVE Known(c)
        <5>1. \/ c = held[n].using /\ held[n].at # "write"
              \/ c = memory[n]
          BY <4>0, <4>3, <1>0 DEF AccountInv, NotRefreshed, GoOn, AccountTypeOK
        <5> QED
          BY <5>1 DEF Known
      <4>4. ASSUME NEW n \in Managers, c = granted'[n], login'[n] = "memory" PROVE Known(c)
        <5>1. c = granted[n] /\ login[n] = "memory"
          BY <4>0, <4>4 DEF AccountInv, NotRefreshed, GoOn, loginVars, AccountTypeOK
        <5> QED
          BY <5>1 DEF Known
      <4> QED
        BY <4>1, <4>2, <4>3, <4>4 DEF Known
    <3> QED
      BY <2>1, <3>1, <3>2, <3>3, NothingTold
  <2>3. IssuedFits'
    BY <1>0, <2>1 DEF AccountInv, NotRefreshed, GoOn, loginVars, IssuedFits, AccountTypeOK
  <2>4. FileFits'
    BY <1>0, <2>1 DEF AccountInv, NotRefreshed, GoOn, FileFits, AccountTypeOK
  <2> QED
    BY <2>2, <2>3, <2>4
<1> QED
  BY <1>1, <1>2, <1>3, <1>4, <1>5 DEF AccountInv

\* The answer is lost.
LEMMA AccountAnswerLost == ASSUME AccountInv, NEW m \in Managers, AnswerLost(m) PROVE AccountInv'
<1>0. /\ held' \in [Managers -> HeldRecords]
      /\ \A n \in Managers : n # m => held'[n] = held[n]
      /\ held'[m].at \in {"free", "lock"} /\ held'[m].using \in {0, held[m].using}
      /\ held'[m].kind \in {"none", "recover"}
  <2>1. CASE held' = [held EXCEPT ![m] = Free]
    BY <2>1, HeldEnded DEF AccountInv, EndHeld
  <2>2. CASE held[m].kind = "recover" /\ held' = [held EXCEPT ![m] = [@ EXCEPT !.at = "lock", !.tries = 1]]
    <3>0. /\ held[m] \in HeldRecords /\ held[m].kind \in {"none", "access", "recover", "disconnect"}
          /\ held[m].using \in 0..MaxIssued /\ "lock" \in StateLockSteps /\ 1 \in 0..2
      BY DEF AccountInv, AccountTypeOK, HeldRecords, StateLockSteps
    <3> DEFINE r == [at |-> "lock", kind |-> held[m].kind, using |-> held[m].using, tries |-> 1]
    <3>1. r \in HeldRecords
      BY <3>0, HeldRecord
    <3>2. held' = [held EXCEPT ![m] = r]
      BY <2>2, <3>0, HeldRetried
    <3> HIDE DEF r
    <3>3. /\ held' \in [Managers -> HeldRecords]
          /\ \A n \in Managers : n # m => held'[n] = held[n]
          /\ held'[m] = r
      BY <3>1, <3>2, HeldSet DEF AccountInv
    <3> QED
      BY <2>2, <3>3 DEF r
  <2> QED
    BY <2>1, <2>2 DEF AnswerLost, GoOn
<1>1. AccountTypeOK'
  <2>1. authFile' \in 0..MaxIssued /\ issued' \in 0..MaxIssued /\ upsets' \in 0..MaxUpsets
        /\ transients' \in 0..MaxTransients /\ logins' \in 0..MaxLogins
    BY <1>0, AccountAssumption DEF AccountInv, AnswerLost, GoOn, Upset, Granted, AccountTypeOK,
       AccountAssumption
  <2>2. usable' \subseteq Credentials /\ ageing' \subseteq Credentials
    BY <1>0, AccountAssumption DEF AccountInv, AnswerLost, GoOn, Upset, Granted, AccountTypeOK,
       AccountAssumption, Credentials
  <2>3. memory' \in [Managers -> 0..MaxIssued] /\ granted' \in [Managers -> 0..MaxIssued]
    BY <1>0 DEF AccountInv, AnswerLost, GoOn, Upset, Granted, loginVars, AccountTypeOK
  <2>4. fileLock' \in {Nobody} \cup (Managers \X {"held", "login"})
    BY <1>0 DEF AccountInv, AnswerLost, GoOn, Upset, Granted, AccountTypeOK
  <2>5. held' \in [Managers -> [at : StateLockSteps, kind : {"none", "access", "recover", "disconnect"},
                              using : 0..MaxIssued, tries : 0..2]]
    BY <1>0 DEF HeldRecords
  <2>6. login' \in [Managers -> {"none", "grant", "exchange", "lock", "write", "memory", "ending"}]
    BY <1>0 DEF AccountInv, AnswerLost, GoOn, Upset, Granted, loginVars, AccountTypeOK
  <2>7. /\ attached' \in [Managers -> BOOLEAN] /\ stopping' \in [Managers -> BOOLEAN]
        /\ listener' \in [Managers -> BOOLEAN] /\ shut' \in [Managers -> BOOLEAN]
    BY <1>0 DEF AccountInv, AnswerLost, GoOn, Upset, Granted, loginVars, AccountTypeOK
  <2>8. /\ admin' \in [Managers -> {"none", "starting", "cancel", "disconnect", "removing", "close"}]
        /\ abandoned' \in [Managers -> SUBSET (0..MaxIssued)]
    BY <1>0 DEF AccountInv, AnswerLost, GoOn, Upset, Granted, AccountTypeOK
  <2> QED
    BY <2>1, <2>2, <2>3, <2>4, <2>5, <2>6, <2>7, <2>8 DEF AccountTypeOK
<1>2. LoginIsOwned'
  BY <1>0 DEF AccountInv, AnswerLost, GoOn, Upset, Granted, loginVars, LoginIsOwned,
     AccountTypeOK, AdministrationFits
<1>3. WritersAreAlone'
  <2>1. WritersAreAlone /\ fileLock' = Nobody /\ held[m].at \in WriteSteps
    BY <1>0 DEF AccountInv, AnswerLost, GoOn, Upset, Granted, WriteSteps
  <2>2. held'[m].at \notin WriteSteps /\ \A n \in Managers \ {m} : held'[n].at = held[n].at
    BY <1>0 DEF AccountInv, AnswerLost, GoOn, Upset, Granted, WriteSteps
  <2>3. \A n \in Managers : login'[n] = "write" <=> login[n] = "write"
    BY DEF AccountInv, AnswerLost, GoOn, Upset, Granted, loginVars, AccountTypeOK
  <2> QED
    BY <2>1, <2>2, <2>3, LockLeft
<1>4. AdministrationFits'
  BY <1>0 DEF AccountInv, AnswerLost, GoOn, Upset, Granted, loginVars, AdministrationFits,
     AccountTypeOK
<1>5. NothingUpset'
  <2> SUFFICES ASSUME upsets' = 0 PROVE FALSE
    BY DEF NothingUpset
  <2> QED
    BY DEF AccountInv, AnswerLost, GoOn, Upset, Granted, AccountTypeOK
<1> QED
  BY <1>1, <1>2, <1>3, <1>4, <1>5 DEF AccountInv

\* Rejected credentials are erased.
LEMMA AccountErased == ASSUME AccountInv, NEW m \in Managers, Erased(m) PROVE AccountInv'
<1>0. /\ held' \in [Managers -> HeldRecords]
      /\ \A n \in Managers : n # m => held'[n] = held[n]
      /\ held'[m].at = "free" /\ held'[m].kind = "none" /\ held'[m].using = 0
  BY HeldEnded DEF AccountInv, Erased, Done
<1>1. AccountTypeOK'
  <2>1. authFile' \in 0..MaxIssued /\ issued' \in 0..MaxIssued /\ upsets' \in 0..MaxUpsets
        /\ transients' \in 0..MaxTransients /\ logins' \in 0..MaxLogins
    BY <1>0, AccountAssumption DEF AccountInv, Erased, EndHeld, Remember, Done, AccountTypeOK,
       AccountAssumption
  <2>2. usable' \subseteq Credentials /\ ageing' \subseteq Credentials
    BY <1>0 DEF AccountInv, Erased, EndHeld, Remember, Done, AccountTypeOK
  <2>3. memory' \in [Managers -> 0..MaxIssued] /\ granted' \in [Managers -> 0..MaxIssued]
    BY <1>0, AccountAssumption DEF AccountInv, Erased, EndHeld, Remember, Done, loginVars,
       AccountTypeOK, AccountAssumption
  <2>4. fileLock' \in {Nobody} \cup (Managers \X {"held", "login"})
    BY <1>0 DEF AccountInv, Erased, EndHeld, Remember, Done, AccountTypeOK
  <2>5. held' \in [Managers -> [at : StateLockSteps, kind : {"none", "access", "recover", "disconnect"},
                              using : 0..MaxIssued, tries : 0..2]]
    BY <1>0 DEF HeldRecords
  <2>6. login' \in [Managers -> {"none", "grant", "exchange", "lock", "write", "memory", "ending"}]
    BY <1>0 DEF AccountInv, Erased, EndHeld, Remember, Done, loginVars, AccountTypeOK
  <2>7. /\ attached' \in [Managers -> BOOLEAN] /\ stopping' \in [Managers -> BOOLEAN]
        /\ listener' \in [Managers -> BOOLEAN] /\ shut' \in [Managers -> BOOLEAN]
    BY <1>0 DEF AccountInv, Erased, EndHeld, Remember, Done, loginVars, AccountTypeOK
  <2>8. /\ admin' \in [Managers -> {"none", "starting", "cancel", "disconnect", "removing", "close"}]
        /\ abandoned' \in [Managers -> SUBSET (0..MaxIssued)]
    BY <1>0 DEF AccountInv, Erased, EndHeld, Remember, Done, AccountTypeOK
  <2> QED
    BY <2>1, <2>2, <2>3, <2>4, <2>5, <2>6, <2>7, <2>8 DEF AccountTypeOK
<1>2. LoginIsOwned'
  BY <1>0 DEF AccountInv, Erased, EndHeld, Remember, Done, loginVars, LoginIsOwned,
     AccountTypeOK, AdministrationFits
<1>3. WritersAreAlone'
  <2>1. WritersAreAlone /\ fileLock' = Nobody /\ held[m].at \in WriteSteps
    BY <1>0 DEF AccountInv, Erased, EndHeld, Remember, Done, WriteSteps
  <2>2. held'[m].at \notin WriteSteps /\ \A n \in Managers \ {m} : held'[n].at = held[n].at
    BY <1>0 DEF AccountInv, Erased, EndHeld, Remember, Done, WriteSteps
  <2>3. \A n \in Managers : login'[n] = "write" <=> login[n] = "write"
    BY DEF AccountInv, Erased, EndHeld, Remember, Done, loginVars, AccountTypeOK
  <2> QED
    BY <2>1, <2>2, <2>3, LockLeft
<1>4. AdministrationFits'
  BY <1>0 DEF AccountInv, Erased, EndHeld, Remember, Done, loginVars, AdministrationFits,
     AccountTypeOK
<1>5. NothingUpset'
  <2> SUFFICES ASSUME upsets' = 0 PROVE SecretsFit' /\ IssuedFits' /\ FileFits'
    BY DEF NothingUpset
  <2>1. SecretsFit /\ IssuedFits /\ FileFits
    BY DEF AccountInv, Erased, EndHeld, Remember, Done, NothingUpset
  <2>2. SecretsFit'
    <3>1. \A n \in Managers, k \in Places : Secrets(n, k)' \subseteq Secrets(n, k)
      BY <1>0 DEF AccountInv, Erased, EndHeld, Remember, Done, loginVars, Secrets, AccountTypeOK
    <3>2. \A c \in usable : c \in usable' \/ Known(c)
      BY DEF AccountInv, Erased, EndHeld, Remember, Done
    <3>3. \A c \in usable : Known(c)' => Known(c)
      <4> SUFFICES ASSUME NEW c \in usable, Known(c)' PROVE Known(c)
        OBVIOUS
      <4>0. c \in Nat \ {0}
        BY DEF AccountInv, AccountTypeOK, Credentials
      <4>1. ASSUME c = authFile' PROVE Known(c)
        BY <4>0, <4>1, <1>0 DEF AccountInv, Erased, EndHeld, Remember, Done, Known
      <4>2. ASSUME NEW n \in Managers, c = memory'[n] PROVE Known(c)
        <5>1. c = memory[n] \/ c = authFile
          BY <4>0, <4>2, <1>0 DEF AccountInv, Erased, EndHeld, Remember, Done, AccountTypeOK
        <5> QED
          BY <5>1 DEF Known
      <4>3. ASSUME NEW n \in Managers, c = held'[n].using, held'[n].at # "write" PROVE Known(c)
        <5>1. \/ c = held[n].using /\ held[n].at # "write"
              \/ c = memory[n]
          BY <4>0, <4>3, <1>0 DEF AccountInv, Erased, EndHeld, Remember, Done, AccountTypeOK
        <5> QED
          BY <5>1 DEF Known
      <4>4. ASSUME NEW n \in Managers, c = granted'[n], login'[n] = "memory" PROVE Known(c)
        <5>1. c = granted[n] /\ login[n] = "memory"
          BY <4>0, <4>4 DEF AccountInv, Erased, EndHeld, Remember, Done, loginVars, AccountTypeOK
        <5> QED
          BY <5>1 DEF Known
      <4> QED
        BY <4>1, <4>2, <4>3, <4>4 DEF Known
    <3> QED
      BY <2>1, <3>1, <3>2, <3>3, NothingTold
  <2>3. IssuedFits'
    BY <1>0, <2>1 DEF AccountInv, Erased, EndHeld, Remember, Done, loginVars, IssuedFits,
       AccountTypeOK
  <2>4. FileFits'
    BY <1>0, <2>1 DEF AccountInv, Erased, EndHeld, Remember, Done, FileFits, AccountTypeOK
  <2> QED
    BY <2>2, <2>3, <2>4
<1> QED
  BY <1>1, <1>2, <1>3, <1>4, <1>5 DEF AccountInv

\* The caller is cancelled.
LEMMA AccountCancelHeld == ASSUME AccountInv, NEW m \in Managers, CancelHeld(m) PROVE AccountInv'
<1>0. /\ held' \in [Managers -> HeldRecords]
      /\ \A n \in Managers : n # m => held'[n] = held[n]
      /\ held'[m].at = "free" /\ held'[m].kind = "none" /\ held'[m].using = 0
  BY HeldEnded DEF AccountInv, CancelHeld
<1>1. AccountTypeOK'
  <2>1. authFile' \in 0..MaxIssued /\ issued' \in 0..MaxIssued /\ upsets' \in 0..MaxUpsets
        /\ transients' \in 0..MaxTransients /\ logins' \in 0..MaxLogins
    BY <1>0, AccountAssumption DEF AccountInv, CancelHeld, Upset, Granted, ThreadOf, EndHeld,
       AccountTypeOK, AccountAssumption
  <2>2. usable' \subseteq Credentials /\ ageing' \subseteq Credentials
    <3>1. CASE usable' = usable
      BY <3>1 DEF CancelHeld, AccountInv, AccountTypeOK
    <3>2. CASE Granted(held[m].using)
      <4>1. usable' \subseteq usable \cup {issued'}
        BY <3>2 DEF Granted
      <4>2. issued' \in Credentials
        BY <3>2, AccountAssumption DEF Granted, AccountInv, AccountTypeOK, AccountAssumption,
           Credentials
      <4> QED
        BY <4>1, <4>2 DEF CancelHeld, AccountInv, AccountTypeOK
    <3> QED
      BY <3>1, <3>2 DEF CancelHeld
  <2>3. memory' \in [Managers -> 0..MaxIssued] /\ granted' \in [Managers -> 0..MaxIssued]
    BY <1>0 DEF AccountInv, CancelHeld, Upset, Granted, ThreadOf, EndHeld, loginVars,
       AccountTypeOK
  <2>4. fileLock' \in {Nobody} \cup (Managers \X {"held", "login"})
    BY <1>0 DEF AccountInv, CancelHeld, Upset, Granted, ThreadOf, EndHeld, AccountTypeOK
  <2>5. held' \in [Managers -> [at : StateLockSteps, kind : {"none", "access", "recover", "disconnect"},
                              using : 0..MaxIssued, tries : 0..2]]
    BY <1>0 DEF HeldRecords
  <2>6. login' \in [Managers -> {"none", "grant", "exchange", "lock", "write", "memory", "ending"}]
    BY <1>0 DEF AccountInv, CancelHeld, Upset, Granted, ThreadOf, EndHeld, loginVars,
       AccountTypeOK
  <2>7. /\ attached' \in [Managers -> BOOLEAN] /\ stopping' \in [Managers -> BOOLEAN]
        /\ listener' \in [Managers -> BOOLEAN] /\ shut' \in [Managers -> BOOLEAN]
    BY <1>0 DEF AccountInv, CancelHeld, Upset, Granted, ThreadOf, EndHeld, loginVars,
       AccountTypeOK
  <2>8. /\ admin' \in [Managers -> {"none", "starting", "cancel", "disconnect", "removing", "close"}]
        /\ abandoned' \in [Managers -> SUBSET (0..MaxIssued)]
    BY <1>0, AccountAssumption DEF AccountInv, CancelHeld, Upset, Granted, ThreadOf, EndHeld,
       AccountTypeOK, AccountAssumption
  <2> QED
    BY <2>1, <2>2, <2>3, <2>4, <2>5, <2>6, <2>7, <2>8 DEF AccountTypeOK
<1>2. LoginIsOwned'
  BY <1>0 DEF AccountInv, CancelHeld, Upset, Granted, ThreadOf, EndHeld, loginVars, LoginIsOwned,
     AccountTypeOK, AdministrationFits
<1>3. WritersAreAlone'
  <2>0. WritersAreAlone /\ \A n \in Managers : login'[n] = "write" <=> login[n] = "write"
    BY DEF CancelHeld, AccountInv, loginVars
  <2>1. held'[m].at \notin WriteSteps /\ \A n \in Managers \ {m} : held'[n].at = held[n].at
    BY <1>0 DEF WriteSteps
  <2>2. CASE fileLock = <<m, "held">>
    BY <2>0, <2>1, <2>2, LockLeft DEF CancelHeld
  <2>3. CASE fileLock # <<m, "held">>
    <3>1. held[m].at \notin WriteSteps
      BY <2>0, <2>3 DEF WritersAreAlone, WriteSteps
    <3> QED
      BY <2>0, <2>1, <2>3, <3>1, LockKept DEF CancelHeld
  <2> QED
    BY <2>2, <2>3
<1>4. AdministrationFits'
  BY <1>0 DEF AccountInv, CancelHeld, Upset, Granted, ThreadOf, EndHeld, loginVars,
     AdministrationFits, AccountTypeOK
<1>5. NothingUpset'
  <2> SUFFICES ASSUME upsets' = 0 PROVE FALSE
    BY DEF NothingUpset
  <2> QED
    BY DEF AccountInv, CancelHeld, Upset, Granted, ThreadOf, EndHeld, AccountTypeOK
<1> QED
  BY <1>1, <1>2, <1>3, <1>4, <1>5 DEF AccountInv

\* A login is asked for.
LEMMA AccountStartLogin == ASSUME AccountInv, NEW m \in Managers, StartLogin(m) PROVE AccountInv'
<1>1. AccountTypeOK'
  <2>1. authFile' \in 0..MaxIssued /\ issued' \in 0..MaxIssued /\ upsets' \in 0..MaxUpsets
        /\ transients' \in 0..MaxTransients /\ logins' \in 0..MaxLogins
    BY AccountAssumption DEF AccountInv, StartLogin, AdminTo, sharedVars, AccountTypeOK,
       AccountAssumption
  <2>2. usable' \subseteq Credentials /\ ageing' \subseteq Credentials
    BY DEF AccountInv, StartLogin, AdminTo, sharedVars, AccountTypeOK
  <2>3. memory' \in [Managers -> 0..MaxIssued] /\ granted' \in [Managers -> 0..MaxIssued]
    BY DEF AccountInv, StartLogin, AdminTo, loginVars, AccountTypeOK
  <2>4. fileLock' \in {Nobody} \cup (Managers \X {"held", "login"})
    BY DEF AccountInv, StartLogin, AdminTo, sharedVars, AccountTypeOK
  <2>5. held' \in [Managers -> [at : StateLockSteps, kind : {"none", "access", "recover", "disconnect"},
                              using : 0..MaxIssued, tries : 0..2]]
    BY DEF AccountInv, StartLogin, AdminTo, AccountTypeOK, StateLockSteps
  <2>6. login' \in [Managers -> {"none", "grant", "exchange", "lock", "write", "memory", "ending"}]
    BY DEF AccountInv, StartLogin, AdminTo, loginVars, AccountTypeOK
  <2>7. /\ attached' \in [Managers -> BOOLEAN] /\ stopping' \in [Managers -> BOOLEAN]
        /\ listener' \in [Managers -> BOOLEAN] /\ shut' \in [Managers -> BOOLEAN]
    BY DEF AccountInv, StartLogin, AdminTo, loginVars, AccountTypeOK
  <2>8. /\ admin' \in [Managers -> {"none", "starting", "cancel", "disconnect", "removing", "close"}]
        /\ abandoned' \in [Managers -> SUBSET (0..MaxIssued)]
    BY DEF AccountInv, StartLogin, AdminTo, AccountTypeOK
  <2> QED
    BY <2>1, <2>2, <2>3, <2>4, <2>5, <2>6, <2>7, <2>8 DEF AccountTypeOK
<1>2. LoginIsOwned'
  BY DEF AccountInv, StartLogin, AdminTo, loginVars, LoginIsOwned, AccountTypeOK,
     AdministrationFits
<1>3. WritersAreAlone'
  <2>1. WritersAreAlone /\ fileLock' = fileLock
    BY DEF AccountInv, StartLogin, AdminTo, sharedVars
  <2>2. \A n \in Managers : held'[n].at \in WriteSteps <=> held[n].at \in WriteSteps
    BY DEF AccountInv, StartLogin, AdminTo, WriteSteps
  <2>3. \A n \in Managers : login'[n] = "write" <=> login[n] = "write"
    BY DEF AccountInv, StartLogin, AdminTo, loginVars, AccountTypeOK
  <2> QED
    BY <2>1, <2>2, <2>3, LockKept
<1>4. AdministrationFits'
  BY DEF AccountInv, StartLogin, AdminTo, loginVars, AdministrationFits, AccountTypeOK
<1>5. NothingUpset'
  <2> SUFFICES ASSUME upsets' = 0 PROVE SecretsFit' /\ IssuedFits' /\ FileFits'
    BY DEF NothingUpset
  <2>1. SecretsFit /\ IssuedFits /\ FileFits
    BY DEF AccountInv, StartLogin, AdminTo, NothingUpset
  <2>2. SecretsFit'
    <3>1. \A n \in Managers, k \in Places : Secrets(n, k)' \subseteq Secrets(n, k)
      BY DEF AccountInv, StartLogin, AdminTo, loginVars, Secrets, AccountTypeOK
    <3>2. \A c \in usable : c \in usable' \/ Known(c)
      BY DEF AccountInv, StartLogin, AdminTo, sharedVars
    <3>3. \A c \in usable : Known(c)' => Known(c)
      BY DEF AccountInv, StartLogin, AdminTo, sharedVars, loginVars, Known, AccountTypeOK
    <3> QED
      BY <2>1, <3>1, <3>2, <3>3, NothingTold
  <2>3. IssuedFits'
    BY <2>1 DEF AccountInv, StartLogin, AdminTo, sharedVars, loginVars, IssuedFits, AccountTypeOK
  <2>4. FileFits'
    BY <2>1 DEF AccountInv, StartLogin, AdminTo, sharedVars, FileFits, AccountTypeOK
  <2> QED
    BY <2>2, <2>3, <2>4
<1> QED
  BY <1>1, <1>2, <1>3, <1>4, <1>5 DEF AccountInv

\* Its task is there.
LEMMA AccountLoginStarted == ASSUME AccountInv, NEW m \in Managers, LoginStarted(m) PROVE AccountInv'
<1>1. AccountTypeOK'
  <2>1. authFile' \in 0..MaxIssued /\ issued' \in 0..MaxIssued /\ upsets' \in 0..MaxUpsets
        /\ transients' \in 0..MaxTransients /\ logins' \in 0..MaxLogins
    BY DEF AccountInv, LoginStarted, LoginTo, AdminTo, sharedVars, AccountTypeOK
  <2>2. usable' \subseteq Credentials /\ ageing' \subseteq Credentials
    BY DEF AccountInv, LoginStarted, LoginTo, AdminTo, sharedVars, AccountTypeOK
  <2>3. memory' \in [Managers -> 0..MaxIssued] /\ granted' \in [Managers -> 0..MaxIssued]
    BY DEF AccountInv, LoginStarted, LoginTo, AdminTo, AccountTypeOK
  <2>4. fileLock' \in {Nobody} \cup (Managers \X {"held", "login"})
    BY DEF AccountInv, LoginStarted, LoginTo, AdminTo, sharedVars, AccountTypeOK
  <2>5. held' \in [Managers -> [at : StateLockSteps, kind : {"none", "access", "recover", "disconnect"},
                              using : 0..MaxIssued, tries : 0..2]]
    BY DEF AccountInv, LoginStarted, LoginTo, AdminTo, AccountTypeOK, StateLockSteps
  <2>6. login' \in [Managers -> {"none", "grant", "exchange", "lock", "write", "memory", "ending"}]
    BY DEF AccountInv, LoginStarted, LoginTo, AdminTo, AccountTypeOK
  <2>7. /\ attached' \in [Managers -> BOOLEAN] /\ stopping' \in [Managers -> BOOLEAN]
        /\ listener' \in [Managers -> BOOLEAN] /\ shut' \in [Managers -> BOOLEAN]
    <3>1. attached' \in [Managers -> BOOLEAN]
      BY ZenonT(30) DEF LoginStarted, AccountInv, AccountTypeOK
    <3>2. listener' \in [Managers -> BOOLEAN]
      BY ZenonT(30) DEF LoginStarted, AccountInv, AccountTypeOK
    <3> QED
      BY <3>1, <3>2 DEF LoginStarted, AccountInv, AccountTypeOK
  <2>8. /\ admin' \in [Managers -> {"none", "starting", "cancel", "disconnect", "removing", "close"}]
        /\ abandoned' \in [Managers -> SUBSET (0..MaxIssued)]
    BY DEF AccountInv, LoginStarted, LoginTo, AdminTo, AccountTypeOK
  <2> QED
    BY <2>1, <2>2, <2>3, <2>4, <2>5, <2>6, <2>7, <2>8 DEF AccountTypeOK
<1>2. LoginIsOwned'
  BY DEF AccountInv, LoginStarted, LoginTo, AdminTo, LoginIsOwned, AccountTypeOK,
     AdministrationFits
<1>3. WritersAreAlone'
  <2>1. login[m] # "write"
    BY DEF LoginStarted, AccountInv, LoginIsOwned, AdministrationFits
  <2>2. fileLock' = fileLock /\ WritersAreAlone
    BY DEF LoginStarted, AccountInv, sharedVars
  <2>3. \A n \in Managers : held'[n].at \in WriteSteps <=> held[n].at \in WriteSteps
    BY DEF LoginStarted
  <2>4. \A n \in Managers : login'[n] = "write" <=> login[n] = "write"
    BY <2>1 DEF LoginStarted, LoginTo, AccountInv, AccountTypeOK
  <2> QED
    BY <2>2, <2>3, <2>4, LockKept
<1>4. AdministrationFits'
  BY DEF AccountInv, LoginStarted, LoginTo, AdminTo, AdministrationFits, AccountTypeOK
<1>5. NothingUpset'
  <2> SUFFICES ASSUME upsets' = 0 PROVE SecretsFit' /\ IssuedFits' /\ FileFits'
    BY DEF NothingUpset
  <2>1. SecretsFit /\ IssuedFits /\ FileFits
    BY DEF AccountInv, LoginStarted, LoginTo, AdminTo, NothingUpset
  <2>2. SecretsFit'
    <3>1. \A n \in Managers, k \in Places : Secrets(n, k)' \subseteq Secrets(n, k)
      BY DEF AccountInv, LoginStarted, LoginTo, AdminTo, Secrets, AccountTypeOK
    <3>2. \A c \in usable : c \in usable' \/ Known(c)
      BY DEF AccountInv, LoginStarted, LoginTo, AdminTo, sharedVars
    <3>3. \A c \in usable : Known(c)' => Known(c)
      BY DEF AccountInv, LoginStarted, LoginTo, AdminTo, sharedVars, Known, AccountTypeOK
    <3> QED
      BY <2>1, <3>1, <3>2, <3>3, NothingTold
  <2>3. IssuedFits'
    BY <2>1 DEF AccountInv, LoginStarted, LoginTo, AdminTo, sharedVars, IssuedFits, AccountTypeOK
  <2>4. FileFits'
    BY <2>1 DEF AccountInv, LoginStarted, LoginTo, AdminTo, sharedVars, FileFits, AccountTypeOK
  <2> QED
    BY <2>2, <2>3, <2>4
<1> QED
  BY <1>1, <1>2, <1>3, <1>4, <1>5 DEF AccountInv

\* The login's task ends.
LEMMA AccountLoginEnds == ASSUME AccountInv, NEW m \in Managers, LoginEnds(m) PROVE AccountInv'
<1>1. AccountTypeOK'
  <2>1. authFile' \in 0..MaxIssued /\ issued' \in 0..MaxIssued /\ upsets' \in 0..MaxUpsets
        /\ transients' \in 0..MaxTransients /\ logins' \in 0..MaxLogins
    BY DEF AccountInv, LoginEnds, LoginTo, sharedVars, AccountTypeOK
  <2>2. usable' \subseteq Credentials /\ ageing' \subseteq Credentials
    BY DEF AccountInv, LoginEnds, LoginTo, sharedVars, AccountTypeOK
  <2>3. memory' \in [Managers -> 0..MaxIssued] /\ granted' \in [Managers -> 0..MaxIssued]
    BY DEF AccountInv, LoginEnds, Free, LoginTo, AccountTypeOK
  <2>4. fileLock' \in {Nobody} \cup (Managers \X {"held", "login"})
    BY DEF AccountInv, LoginEnds, LoginTo, sharedVars, AccountTypeOK
  <2>5. held' \in [Managers -> [at : StateLockSteps, kind : {"none", "access", "recover", "disconnect"},
                              using : 0..MaxIssued, tries : 0..2]]
    BY DEF AccountInv, LoginEnds, LoginTo, AccountTypeOK, StateLockSteps
  <2>6. login' \in [Managers -> {"none", "grant", "exchange", "lock", "write", "memory", "ending"}]
    BY DEF AccountInv, LoginEnds, LoginTo, AccountTypeOK
  <2>7. /\ attached' \in [Managers -> BOOLEAN] /\ stopping' \in [Managers -> BOOLEAN]
        /\ listener' \in [Managers -> BOOLEAN] /\ shut' \in [Managers -> BOOLEAN]
    BY DEF AccountInv, LoginEnds, LoginTo, AccountTypeOK
  <2>8. /\ admin' \in [Managers -> {"none", "starting", "cancel", "disconnect", "removing", "close"}]
        /\ abandoned' \in [Managers -> SUBSET (0..MaxIssued)]
    BY DEF AccountInv, LoginEnds, LoginTo, AccountTypeOK
  <2> QED
    BY <2>1, <2>2, <2>3, <2>4, <2>5, <2>6, <2>7, <2>8 DEF AccountTypeOK
<1>2. LoginIsOwned'
  BY DEF AccountInv, LoginEnds, LoginTo, LoginIsOwned, AccountTypeOK, AdministrationFits
<1>3. WritersAreAlone'
  <2>1. WritersAreAlone /\ fileLock' = fileLock
    BY DEF AccountInv, LoginEnds, LoginTo, sharedVars
  <2>2. \A n \in Managers : held'[n].at \in WriteSteps <=> held[n].at \in WriteSteps
    BY DEF AccountInv, LoginEnds, LoginTo, WriteSteps
  <2>3. \A n \in Managers : login'[n] = "write" <=> login[n] = "write"
    BY DEF AccountInv, LoginEnds, LoginTo, AccountTypeOK
  <2> QED
    BY <2>1, <2>2, <2>3, LockKept
<1>4. AdministrationFits'
  BY DEF AccountInv, LoginEnds, LoginTo, AdministrationFits, AccountTypeOK
<1>5. NothingUpset'
  <2> SUFFICES ASSUME upsets' = 0 PROVE SecretsFit' /\ IssuedFits' /\ FileFits'
    BY DEF NothingUpset
  <2>1. SecretsFit /\ IssuedFits /\ FileFits
    BY DEF AccountInv, LoginEnds, LoginTo, NothingUpset
  <2>2. SecretsFit'
    <3>1. \A n \in Managers, k \in Places : Secrets(n, k)' \subseteq Secrets(n, k)
      BY DEF AccountInv, LoginEnds, LoginTo, Secrets, AccountTypeOK
    <3>2. \A c \in usable : c \in usable' \/ Known(c)
      BY DEF AccountInv, LoginEnds, LoginTo, sharedVars
    <3>3. \A c \in usable : Known(c)' => Known(c)
      BY DEF AccountInv, LoginEnds, LoginTo, sharedVars, Known, AccountTypeOK
    <3> QED
      BY <2>1, <3>1, <3>2, <3>3, NothingTold
  <2>3. IssuedFits'
    BY <2>1 DEF AccountInv, LoginEnds, LoginTo, sharedVars, IssuedFits, AccountTypeOK
  <2>4. FileFits'
    BY <2>1 DEF AccountInv, LoginEnds, LoginTo, sharedVars, FileFits, AccountTypeOK
  <2> QED
    BY <2>2, <2>3, <2>4
<1> QED
  BY <1>1, <1>2, <1>3, <1>4, <1>5 DEF AccountInv

\* A login is detached and cancelled.
LEMMA AccountDetach == ASSUME AccountInv, NEW m \in Managers, NEW kind \in {"cancel", "disconnect", "close"}, Detach(m, kind) PROVE AccountInv'
<1>1. AccountTypeOK'
  <2>1. authFile' \in 0..MaxIssued /\ issued' \in 0..MaxIssued /\ upsets' \in 0..MaxUpsets
        /\ transients' \in 0..MaxTransients /\ logins' \in 0..MaxLogins
    BY DEF AccountInv, Detach, AdminTo, sharedVars, AccountTypeOK
  <2>2. usable' \subseteq Credentials /\ ageing' \subseteq Credentials
    BY DEF AccountInv, Detach, AdminTo, sharedVars, AccountTypeOK
  <2>3. memory' \in [Managers -> 0..MaxIssued] /\ granted' \in [Managers -> 0..MaxIssued]
    BY DEF AccountInv, Detach, AdminTo, AccountTypeOK
  <2>4. fileLock' \in {Nobody} \cup (Managers \X {"held", "login"})
    BY DEF AccountInv, Detach, AdminTo, sharedVars, AccountTypeOK
  <2>5. held' \in [Managers -> [at : StateLockSteps, kind : {"none", "access", "recover", "disconnect"},
                              using : 0..MaxIssued, tries : 0..2]]
    BY DEF AccountInv, Detach, AdminTo, AccountTypeOK, StateLockSteps
  <2>6. login' \in [Managers -> {"none", "grant", "exchange", "lock", "write", "memory", "ending"}]
    BY DEF AccountInv, Detach, AdminTo, AccountTypeOK
  <2>7. /\ attached' \in [Managers -> BOOLEAN] /\ stopping' \in [Managers -> BOOLEAN]
        /\ listener' \in [Managers -> BOOLEAN] /\ shut' \in [Managers -> BOOLEAN]
    BY DEF AccountInv, Detach, AdminTo, AccountTypeOK
  <2>8. /\ admin' \in [Managers -> {"none", "starting", "cancel", "disconnect", "removing", "close"}]
        /\ abandoned' \in [Managers -> SUBSET (0..MaxIssued)]
    BY DEF AccountInv, Detach, AdminTo, AccountTypeOK
  <2> QED
    BY <2>1, <2>2, <2>3, <2>4, <2>5, <2>6, <2>7, <2>8 DEF AccountTypeOK
<1>2. LoginIsOwned'
  BY DEF AccountInv, Detach, AdminTo, LoginIsOwned, AccountTypeOK, AdministrationFits
<1>3. WritersAreAlone'
  <2>1. WritersAreAlone /\ fileLock' = fileLock
    BY DEF AccountInv, Detach, AdminTo, sharedVars
  <2>2. \A n \in Managers : held'[n].at \in WriteSteps <=> held[n].at \in WriteSteps
    BY DEF AccountInv, Detach, AdminTo, WriteSteps
  <2>3. \A n \in Managers : login'[n] = "write" <=> login[n] = "write"
    BY DEF AccountInv, Detach, AdminTo, AccountTypeOK
  <2> QED
    BY <2>1, <2>2, <2>3, LockKept
<1>4. AdministrationFits'
  BY DEF AccountInv, Detach, AdminTo, AdministrationFits, AccountTypeOK
<1>5. NothingUpset'
  <2> SUFFICES ASSUME upsets' = 0 PROVE SecretsFit' /\ IssuedFits' /\ FileFits'
    BY DEF NothingUpset
  <2>1. SecretsFit /\ IssuedFits /\ FileFits
    BY DEF AccountInv, Detach, AdminTo, NothingUpset
  <2>2. SecretsFit'
    <3>1. \A n \in Managers, k \in Places : Secrets(n, k)' \subseteq Secrets(n, k)
      BY DEF AccountInv, Detach, AdminTo, Secrets, AccountTypeOK
    <3>2. \A c \in usable : c \in usable' \/ Known(c)
      BY DEF AccountInv, Detach, AdminTo, sharedVars
    <3>3. \A c \in usable : Known(c)' => Known(c)
      BY DEF AccountInv, Detach, AdminTo, sharedVars, Known, AccountTypeOK
    <3> QED
      BY <2>1, <3>1, <3>2, <3>3, NothingTold
  <2>3. IssuedFits'
    BY <2>1 DEF AccountInv, Detach, AdminTo, sharedVars, IssuedFits, AccountTypeOK
  <2>4. FileFits'
    BY <2>1 DEF AccountInv, Detach, AdminTo, sharedVars, FileFits, AccountTypeOK
  <2> QED
    BY <2>2, <2>3, <2>4
<1> QED
  BY <1>1, <1>2, <1>3, <1>4, <1>5 DEF AccountInv

\* It is over.
LEMMA AccountDetached == ASSUME AccountInv, NEW m \in Managers, Detached(m) PROVE AccountInv'
<1>0. /\ held' \in [Managers -> HeldRecords]
      /\ \A n \in Managers : n # m => held'[n] = held[n]
      /\ held'[m] \in {held[m], [at |-> "revoke", kind |-> "disconnect", using |-> memory[m], tries |-> 0]}
      /\ held'[m] # held[m] => held[m] = Free
  <2>1. [at |-> "revoke", kind |-> "disconnect", using |-> memory[m], tries |-> 0] \in HeldRecords
    BY DEF AccountInv, AccountTypeOK, HeldRecords, StateLockSteps
  <2>2. CASE admin[m] = "disconnect"
    BY <2>1, <2>2, HeldSet DEF AccountInv, Detached
  <2>3. CASE admin[m] # "disconnect"
    BY <2>3 DEF AccountInv, AccountTypeOK, Detached, HeldRecords
  <2> QED
    BY <2>2, <2>3
<1>1. AccountTypeOK'
  <2>1. authFile' \in 0..MaxIssued /\ issued' \in 0..MaxIssued /\ upsets' \in 0..MaxUpsets
        /\ transients' \in 0..MaxTransients /\ logins' \in 0..MaxLogins
    BY <1>0 DEF AccountInv, Detached, LoginIsOver, AdminTo, sharedVars, AccountTypeOK
  <2>2. usable' \subseteq Credentials /\ ageing' \subseteq Credentials
    BY <1>0 DEF AccountInv, Detached, LoginIsOver, AdminTo, sharedVars, AccountTypeOK
  <2>3. memory' \in [Managers -> 0..MaxIssued] /\ granted' \in [Managers -> 0..MaxIssued]
    BY <1>0 DEF AccountInv, Detached, LoginIsOver, AdminTo, loginVars, AccountTypeOK
  <2>4. fileLock' \in {Nobody} \cup (Managers \X {"held", "login"})
    BY <1>0 DEF AccountInv, Detached, LoginIsOver, AdminTo, sharedVars, AccountTypeOK
  <2>5. held' \in [Managers -> [at : StateLockSteps, kind : {"none", "access", "recover", "disconnect"},
                              using : 0..MaxIssued, tries : 0..2]]
    BY <1>0 DEF HeldRecords
  <2>6. login' \in [Managers -> {"none", "grant", "exchange", "lock", "write", "memory", "ending"}]
    BY <1>0 DEF AccountInv, Detached, LoginIsOver, AdminTo, loginVars, AccountTypeOK
  <2>7. /\ attached' \in [Managers -> BOOLEAN] /\ stopping' \in [Managers -> BOOLEAN]
        /\ listener' \in [Managers -> BOOLEAN] /\ shut' \in [Managers -> BOOLEAN]
    BY <1>0 DEF AccountInv, Detached, LoginIsOver, AdminTo, loginVars, AccountTypeOK
  <2>8. /\ admin' \in [Managers -> {"none", "starting", "cancel", "disconnect", "removing", "close"}]
        /\ abandoned' \in [Managers -> SUBSET (0..MaxIssued)]
    BY <1>0 DEF AccountInv, Detached, LoginIsOver, AdminTo, AccountTypeOK
  <2> QED
    BY <2>1, <2>2, <2>3, <2>4, <2>5, <2>6, <2>7, <2>8 DEF AccountTypeOK
<1>2. LoginIsOwned'
  BY <1>0 DEF AccountInv, Detached, LoginIsOver, AdminTo, loginVars, LoginIsOwned, AccountTypeOK,
     AdministrationFits
<1>3. WritersAreAlone'
  <2>1. WritersAreAlone /\ fileLock' = fileLock
    BY DEF AccountInv, Detached, LoginIsOver, AdminTo, sharedVars
  <2>2. \A n \in Managers : held'[n].at \in WriteSteps <=> held[n].at \in WriteSteps
    BY <1>0 DEF AccountInv, Detached, Free, LoginIsOver, AdminTo, WriteSteps
  <2>3. \A n \in Managers : login'[n] = "write" <=> login[n] = "write"
    BY DEF AccountInv, Detached, LoginIsOver, AdminTo, loginVars, AccountTypeOK
  <2> QED
    BY <2>1, <2>2, <2>3, LockKept
<1>4. AdministrationFits'
  BY <1>0 DEF AccountInv, Detached, LoginIsOver, AdminTo, loginVars, AdministrationFits,
     AccountTypeOK
<1>5. NothingUpset'
  <2> SUFFICES ASSUME upsets' = 0 PROVE SecretsFit' /\ IssuedFits' /\ FileFits'
    BY DEF NothingUpset
  <2>1. SecretsFit /\ IssuedFits /\ FileFits
    BY DEF AccountInv, Detached, LoginIsOver, AdminTo, NothingUpset
  <2>2. SecretsFit'
    <3>1. \A n \in Managers, k \in Places : Secrets(n, k)' \subseteq Secrets(n, k)
      <4>1. \A n \in Managers : held'[n] = held[n] \/ held'[n].at = "revoke"
        BY <1>0
      <4>2. UNCHANGED <<login, granted, abandoned>>
        BY DEF Detached, loginVars
      <4> QED
        BY <4>1, <4>2 DEF Secrets
    <3>2. \A c \in usable : c \in usable' \/ Known(c)
      BY DEF AccountInv, Detached, LoginIsOver, AdminTo, sharedVars
    <3>3. \A c \in usable : Known(c)' => Known(c)
      <4> SUFFICES ASSUME NEW c \in usable, Known(c)' PROVE Known(c)
        OBVIOUS
      <4>0. c \in Nat \ {0}
        BY DEF AccountInv, AccountTypeOK, Credentials
      <4>1. ASSUME c = authFile' PROVE Known(c)
        BY <4>0, <4>1, <1>0 DEF AccountInv, Detached, LoginIsOver, AdminTo, sharedVars, Known
      <4>2. ASSUME NEW n \in Managers, c = memory'[n] PROVE Known(c)
        <5>1. c = memory[n] \/ c = authFile
          BY <4>0, <4>2, <1>0 DEF AccountInv, Detached, LoginIsOver, AdminTo, AccountTypeOK
        <5> QED
          BY <5>1 DEF Known
      <4>3. ASSUME NEW n \in Managers, c = held'[n].using, held'[n].at # "write" PROVE Known(c)
        <5>1. \/ c = held[n].using /\ held[n].at # "write"
              \/ c = memory[n]
          BY <4>0, <4>3, <1>0 DEF AccountInv, Detached, LoginIsOver, AdminTo, AccountTypeOK
        <5> QED
          BY <5>1 DEF Known
      <4>4. ASSUME NEW n \in Managers, c = granted'[n], login'[n] = "memory" PROVE Known(c)
        <5>1. c = granted[n] /\ login[n] = "memory"
          BY <4>0, <4>4 DEF AccountInv, Detached, LoginIsOver, AdminTo, loginVars, AccountTypeOK
        <5> QED
          BY <5>1 DEF Known
      <4> QED
        BY <4>1, <4>2, <4>3, <4>4 DEF Known
    <3> QED
      BY <2>1, <3>1, <3>2, <3>3, NothingTold
  <2>3. IssuedFits'
    BY <1>0, <2>1 DEF AccountInv, Detached, LoginIsOver, AdminTo, sharedVars, loginVars,
       IssuedFits, AccountTypeOK
  <2>4. FileFits'
    BY <1>0, <2>1 DEF AccountInv, Detached, Free, LoginIsOver, AdminTo, sharedVars, FileFits,
       AccountTypeOK
  <2> QED
    BY <2>2, <2>3, <2>4
<1> QED
  BY <1>1, <1>2, <1>3, <1>4, <1>5 DEF AccountInv

\* The file is removed.
LEMMA AccountRemoved == ASSUME AccountInv, NEW m \in Managers, Removed(m) PROVE AccountInv'
<1>0. /\ held' \in [Managers -> HeldRecords]
      /\ \A n \in Managers : n # m => held'[n] = held[n]
      /\ held'[m].at = "free" /\ held'[m].kind = "none" /\ held'[m].using = 0
  BY HeldEnded DEF AccountInv, Removed, Done
<1>1. AccountTypeOK'
  <2>1. authFile' \in 0..MaxIssued /\ issued' \in 0..MaxIssued /\ upsets' \in 0..MaxUpsets
        /\ transients' \in 0..MaxTransients /\ logins' \in 0..MaxLogins
    BY <1>0, AccountAssumption DEF AccountInv, Removed, EndHeld, AdminTo, Remember, Done,
       AccountTypeOK, AccountAssumption
  <2>2. usable' \subseteq Credentials /\ ageing' \subseteq Credentials
    BY <1>0 DEF AccountInv, Removed, EndHeld, AdminTo, Remember, Done, AccountTypeOK
  <2>3. memory' \in [Managers -> 0..MaxIssued] /\ granted' \in [Managers -> 0..MaxIssued]
    BY <1>0, AccountAssumption DEF AccountInv, Removed, EndHeld, AdminTo, Remember, Done,
       loginVars, AccountTypeOK, AccountAssumption
  <2>4. fileLock' \in {Nobody} \cup (Managers \X {"held", "login"})
    BY <1>0 DEF AccountInv, Removed, EndHeld, AdminTo, Remember, Done, AccountTypeOK
  <2>5. held' \in [Managers -> [at : StateLockSteps, kind : {"none", "access", "recover", "disconnect"},
                              using : 0..MaxIssued, tries : 0..2]]
    BY <1>0 DEF HeldRecords
  <2>6. login' \in [Managers -> {"none", "grant", "exchange", "lock", "write", "memory", "ending"}]
    BY <1>0 DEF AccountInv, Removed, EndHeld, AdminTo, Remember, Done, loginVars, AccountTypeOK
  <2>7. /\ attached' \in [Managers -> BOOLEAN] /\ stopping' \in [Managers -> BOOLEAN]
        /\ listener' \in [Managers -> BOOLEAN] /\ shut' \in [Managers -> BOOLEAN]
    BY <1>0 DEF AccountInv, Removed, EndHeld, AdminTo, Remember, Done, loginVars, AccountTypeOK
  <2>8. /\ admin' \in [Managers -> {"none", "starting", "cancel", "disconnect", "removing", "close"}]
        /\ abandoned' \in [Managers -> SUBSET (0..MaxIssued)]
    BY <1>0 DEF AccountInv, Removed, EndHeld, AdminTo, Remember, Done, AccountTypeOK
  <2> QED
    BY <2>1, <2>2, <2>3, <2>4, <2>5, <2>6, <2>7, <2>8 DEF AccountTypeOK
<1>2. LoginIsOwned'
  BY <1>0 DEF AccountInv, Removed, EndHeld, AdminTo, Remember, Done, loginVars, LoginIsOwned,
     AccountTypeOK, AdministrationFits
<1>3. WritersAreAlone'
  <2>1. WritersAreAlone /\ fileLock' = Nobody /\ held[m].at \in WriteSteps
    BY <1>0 DEF AccountInv, Removed, EndHeld, AdminTo, Remember, Done, WriteSteps
  <2>2. held'[m].at \notin WriteSteps /\ \A n \in Managers \ {m} : held'[n].at = held[n].at
    BY <1>0 DEF AccountInv, Removed, EndHeld, AdminTo, Remember, Done, WriteSteps
  <2>3. \A n \in Managers : login'[n] = "write" <=> login[n] = "write"
    BY DEF AccountInv, Removed, EndHeld, AdminTo, Remember, Done, loginVars, AccountTypeOK
  <2> QED
    BY <2>1, <2>2, <2>3, LockLeft
<1>4. AdministrationFits'
  BY <1>0 DEF AccountInv, Removed, EndHeld, AdminTo, Remember, Done, loginVars,
     AdministrationFits, AccountTypeOK
<1>5. NothingUpset'
  <2> SUFFICES ASSUME upsets' = 0 PROVE SecretsFit' /\ IssuedFits' /\ FileFits'
    BY DEF NothingUpset
  <2>1. SecretsFit /\ IssuedFits /\ FileFits
    BY DEF AccountInv, Removed, EndHeld, AdminTo, Remember, Done, NothingUpset
  <2>2. SecretsFit'
    <3>1. \A n \in Managers, k \in Places : Secrets(n, k)' \subseteq Secrets(n, k)
      BY <1>0 DEF AccountInv, Removed, EndHeld, AdminTo, Remember, Done, loginVars, Secrets,
         AccountTypeOK
    <3>2. \A c \in usable : c \in usable' \/ Known(c)
      BY DEF AccountInv, Removed, EndHeld, AdminTo, Remember, Done
    <3>3. \A c \in usable : Known(c)' => Known(c)
      <4> SUFFICES ASSUME NEW c \in usable, Known(c)' PROVE Known(c)
        OBVIOUS
      <4>0. c \in Nat \ {0}
        BY DEF AccountInv, AccountTypeOK, Credentials
      <4>1. ASSUME c = authFile' PROVE Known(c)
        BY <4>0, <4>1, <1>0 DEF AccountInv, Removed, EndHeld, AdminTo, Remember, Done, Known
      <4>2. ASSUME NEW n \in Managers, c = memory'[n] PROVE Known(c)
        <5>1. c = memory[n] \/ c = authFile
          BY <4>0, <4>2, <1>0 DEF AccountInv, Removed, EndHeld, AdminTo, Remember, Done,
             AccountTypeOK
        <5> QED
          BY <5>1 DEF Known
      <4>3. ASSUME NEW n \in Managers, c = held'[n].using, held'[n].at # "write" PROVE Known(c)
        <5>1. \/ c = held[n].using /\ held[n].at # "write"
              \/ c = memory[n]
          BY <4>0, <4>3, <1>0 DEF AccountInv, Removed, EndHeld, AdminTo, Remember, Done,
             AccountTypeOK
        <5> QED
          BY <5>1 DEF Known
      <4>4. ASSUME NEW n \in Managers, c = granted'[n], login'[n] = "memory" PROVE Known(c)
        <5>1. c = granted[n] /\ login[n] = "memory"
          BY <4>0, <4>4 DEF AccountInv, Removed, EndHeld, AdminTo, Remember, Done, loginVars,
             AccountTypeOK
        <5> QED
          BY <5>1 DEF Known
      <4> QED
        BY <4>1, <4>2, <4>3, <4>4 DEF Known
    <3> QED
      BY <2>1, <3>1, <3>2, <3>3, NothingTold
  <2>3. IssuedFits'
    BY <1>0, <2>1 DEF AccountInv, Removed, EndHeld, AdminTo, Remember, Done, loginVars,
       IssuedFits, AccountTypeOK
  <2>4. FileFits'
    BY <1>0, <2>1 DEF AccountInv, Removed, EndHeld, AdminTo, Remember, Done, FileFits,
       AccountTypeOK
  <2> QED
    BY <2>2, <2>3, <2>4
<1> QED
  BY <1>1, <1>2, <1>3, <1>4, <1>5 DEF AccountInv

\* The process crashes.
LEMMA AccountCrash == ASSUME AccountInv, NEW m \in Managers, Crash(m) PROVE AccountInv'
<1>0. /\ held' \in [Managers -> HeldRecords]
      /\ \A n \in Managers : n # m => held'[n] = held[n]
      /\ held'[m].at = "free" /\ held'[m].kind = "none" /\ held'[m].using = 0
  BY HeldEnded DEF AccountInv, Crash
<1>1. AccountTypeOK'
  <2>1. authFile' \in 0..MaxIssued /\ issued' \in 0..MaxIssued /\ upsets' \in 0..MaxUpsets
        /\ transients' \in 0..MaxTransients /\ logins' \in 0..MaxLogins
    BY <1>0, AccountAssumption DEF AccountInv, Crash, Upset, EndHeld, LoginTo, AdminTo, Remember,
       AccountTypeOK, AccountAssumption
  <2>2. usable' \subseteq Credentials /\ ageing' \subseteq Credentials
    BY <1>0 DEF AccountInv, Crash, Upset, EndHeld, LoginTo, AdminTo, Remember, AccountTypeOK
  <2>3. memory' \in [Managers -> 0..MaxIssued] /\ granted' \in [Managers -> 0..MaxIssued]
    BY <1>0, AccountAssumption DEF AccountInv, Crash, Upset, EndHeld, LoginTo, AdminTo, Remember,
       AccountTypeOK, AccountAssumption
  <2>4. fileLock' \in {Nobody} \cup (Managers \X {"held", "login"})
    BY <1>0 DEF AccountInv, Crash, Upset, EndHeld, LoginTo, AdminTo, Remember, AccountTypeOK
  <2>5. held' \in [Managers -> [at : StateLockSteps, kind : {"none", "access", "recover", "disconnect"},
                              using : 0..MaxIssued, tries : 0..2]]
    BY <1>0 DEF HeldRecords
  <2>6. login' \in [Managers -> {"none", "grant", "exchange", "lock", "write", "memory", "ending"}]
    BY <1>0 DEF AccountInv, Crash, Upset, EndHeld, LoginTo, AdminTo, Remember, AccountTypeOK
  <2>7. /\ attached' \in [Managers -> BOOLEAN] /\ stopping' \in [Managers -> BOOLEAN]
        /\ listener' \in [Managers -> BOOLEAN] /\ shut' \in [Managers -> BOOLEAN]
    BY <1>0 DEF AccountInv, Crash, Upset, EndHeld, LoginTo, AdminTo, Remember, AccountTypeOK
  <2>8. /\ admin' \in [Managers -> {"none", "starting", "cancel", "disconnect", "removing", "close"}]
        /\ abandoned' \in [Managers -> SUBSET (0..MaxIssued)]
    BY <1>0 DEF AccountInv, Crash, Upset, EndHeld, LoginTo, AdminTo, Remember, AccountTypeOK
  <2> QED
    BY <2>1, <2>2, <2>3, <2>4, <2>5, <2>6, <2>7, <2>8 DEF AccountTypeOK
<1>2. LoginIsOwned'
  BY <1>0 DEF AccountInv, Crash, Upset, EndHeld, LoginTo, AdminTo, Remember, LoginIsOwned,
     AccountTypeOK, AdministrationFits
<1>3. WritersAreAlone'
  <2>0. /\ WritersAreAlone /\ login'[m] = "none"
        /\ \A n \in Managers \ {m} : login'[n] = login[n]
    BY DEF Crash, AccountInv, AccountTypeOK, LoginTo
  <2>1. held'[m].at \notin WriteSteps /\ \A n \in Managers \ {m} : held'[n].at = held[n].at
    BY <1>0 DEF WriteSteps
  <2>2. CASE fileLock[1] = m
    <3>1. fileLock' = Nobody /\ \A n \in Managers \ {m} : fileLock # <<n, "held">> /\ fileLock # <<n, "login">>
      BY <2>2 DEF Crash
    <3>2. \A n \in Managers : fileLock' # <<n, "held">> /\ fileLock' # <<n, "login">>
      BY <3>1 DEF Nobody
    <3> QED
      BY <2>0, <2>1, <3>1, <3>2 DEF WritersAreAlone, WriteSteps
  <2>3. CASE fileLock[1] # m
    <3>1. fileLock' = fileLock /\ fileLock # <<m, "held">> /\ fileLock # <<m, "login">>
      BY <2>3 DEF Crash
    <3> QED
      BY <2>0, <2>1, <3>1 DEF WritersAreAlone, WriteSteps
  <2> QED
    BY <2>2, <2>3
<1>4. AdministrationFits'
  BY <1>0 DEF AccountInv, Crash, Upset, EndHeld, LoginTo, AdminTo, Remember, AdministrationFits,
     AccountTypeOK
<1>5. NothingUpset'
  <2> SUFFICES ASSUME upsets' = 0 PROVE FALSE
    BY DEF NothingUpset
  <2> QED
    BY DEF AccountInv, Crash, Upset, EndHeld, LoginTo, AdminTo, Remember, AccountTypeOK
<1> QED
  BY <1>1, <1>2, <1>3, <1>4, <1>5 DEF AccountInv

\* The service issues new credentials.
LEMMA AccountRefreshed == ASSUME AccountInv, NEW m \in Managers, Refreshed(m) PROVE AccountInv'
<1>0. /\ held' \in [Managers -> HeldRecords]
      /\ \A n \in Managers : n # m => held'[n] = held[n]
      /\ held'[m].at = "write" /\ held'[m].kind = held[m].kind /\ held'[m].using = issued + 1
      /\ issued' = issued + 1 /\ issued' \in 0..MaxIssued
  <2>1. issued' = issued + 1 /\ issued' \in 0..MaxIssued
    BY DEF Refreshed, Granted, AccountInv, AccountTypeOK
  <2>2. held \in [Managers -> HeldRecords]
    BY DEF AccountInv, AccountTypeOK, HeldRecords
  <2>3. "write" \in StateLockSteps
    BY DEF StateLockSteps
  <2> DEFINE r == [at |-> "write", kind |-> held[m].kind, using |-> issued', tries |-> held[m].tries]
  <2>4. r \in HeldRecords
    BY <2>1, <2>2, <2>3 DEF HeldRecords
  <2>5. held' = [held EXCEPT ![m].at = "write", ![m].using = issued']
    BY DEF Refreshed
  <2>6. held' = [held EXCEPT ![m] = r]
    <3>1. [held EXCEPT ![m].at = "write"] = [held EXCEPT ![m] = [held[m] EXCEPT !.at = "write"]]
      BY <2>2
    <3> DEFINE h == [held EXCEPT ![m].at = "write"]
    <3>2. h[m] = [at |-> "write", kind |-> held[m].kind, using |-> held[m].using, tries |-> held[m].tries]
      BY <2>2 DEF HeldRecords
    <3>3. h = [held EXCEPT ![m] = h[m]]
      BY <2>2
    <3> HIDE DEF h
    <3>4. [h EXCEPT ![m].using = issued'] = [h EXCEPT ![m] = r]
      <4>1. [h[m] EXCEPT !.using = issued'] = r
        BY <3>2
      <4>2. [h EXCEPT ![m].using = issued'] = [h EXCEPT ![m] = [h[m] EXCEPT !.using = issued']]
        OBVIOUS
      <4> QED
        BY <4>1, <4>2, Zenon
    <3>5. [h EXCEPT ![m] = r] = [held EXCEPT ![m] = r]
      BY <2>2, <3>3
    <3> QED
      BY <2>5, <3>4, <3>5 DEF h
  <2> HIDE DEF r
  <2>7. held'[m] = r /\ held' \in [Managers -> HeldRecords] /\ \A n \in Managers : n # m => held'[n] = held[n]
    BY <2>4, <2>6, HeldSet DEF AccountInv
  <2> QED
    BY <2>1, <2>7 DEF r
<1>1. AccountTypeOK'
  <2>1. authFile' \in 0..MaxIssued /\ issued' \in 0..MaxIssued /\ upsets' \in 0..MaxUpsets
        /\ transients' \in 0..MaxTransients /\ logins' \in 0..MaxLogins
    BY <1>0 DEF AccountInv, Refreshed, Granted, AccountTypeOK
  <2>2. usable' \subseteq Credentials /\ ageing' \subseteq Credentials
    <3>1. issued' \in Credentials
      BY DEF Refreshed, Granted, AccountInv, AccountTypeOK
    <3>2. usable' \subseteq usable \cup {issued'}
      BY DEF Refreshed, Granted
    <3> QED
      BY <3>1, <3>2 DEF Refreshed, AccountInv, AccountTypeOK
  <2>3. memory' \in [Managers -> 0..MaxIssued] /\ granted' \in [Managers -> 0..MaxIssued]
    BY <1>0 DEF AccountInv, Refreshed, Granted, loginVars, AccountTypeOK
  <2>4. fileLock' \in {Nobody} \cup (Managers \X {"held", "login"})
    BY <1>0 DEF AccountInv, Refreshed, Granted, AccountTypeOK
  <2>5. held' \in [Managers -> [at : StateLockSteps, kind : {"none", "access", "recover", "disconnect"},
                              using : 0..MaxIssued, tries : 0..2]]
    BY <1>0 DEF HeldRecords
  <2>6. login' \in [Managers -> {"none", "grant", "exchange", "lock", "write", "memory", "ending"}]
    BY <1>0 DEF AccountInv, Refreshed, Granted, loginVars, AccountTypeOK
  <2>7. /\ attached' \in [Managers -> BOOLEAN] /\ stopping' \in [Managers -> BOOLEAN]
        /\ listener' \in [Managers -> BOOLEAN] /\ shut' \in [Managers -> BOOLEAN]
    BY <1>0 DEF AccountInv, Refreshed, Granted, loginVars, AccountTypeOK
  <2>8. /\ admin' \in [Managers -> {"none", "starting", "cancel", "disconnect", "removing", "close"}]
        /\ abandoned' \in [Managers -> SUBSET (0..MaxIssued)]
    BY <1>0 DEF AccountInv, Refreshed, Granted, AccountTypeOK
  <2> QED
    BY <2>1, <2>2, <2>3, <2>4, <2>5, <2>6, <2>7, <2>8 DEF AccountTypeOK
<1>2. LoginIsOwned'
  BY <1>0 DEF AccountInv, Refreshed, Granted, loginVars, LoginIsOwned, AccountTypeOK,
     AdministrationFits
<1>3. WritersAreAlone'
  <2>1. WritersAreAlone /\ fileLock' = fileLock
    BY DEF AccountInv, Refreshed, Granted
  <2>2. \A n \in Managers : held'[n].at \in WriteSteps <=> held[n].at \in WriteSteps
    BY <1>0 DEF AccountInv, Refreshed, Granted, WriteSteps
  <2>3. \A n \in Managers : login'[n] = "write" <=> login[n] = "write"
    BY DEF AccountInv, Refreshed, Granted, loginVars, AccountTypeOK
  <2> QED
    BY <2>1, <2>2, <2>3, LockKept
<1>4. AdministrationFits'
  BY <1>0 DEF AccountInv, Refreshed, Granted, loginVars, AdministrationFits, AccountTypeOK
<1>5. NothingUpset'
  <2> SUFFICES ASSUME upsets' = 0 PROVE SecretsFit' /\ IssuedFits' /\ FileFits'
    BY DEF NothingUpset
  <2>1. SecretsFit /\ IssuedFits /\ FileFits
    BY DEF AccountInv, Refreshed, Granted, NothingUpset
  <2>2. SecretsFit'
    <3> DEFINE s == issued + 1
    <3>1. s \notin usable /\ s # authFile
      BY <2>1 DEF IssuedFits, AccountInv, AccountTypeOK
    <3>2. ~Known(s)
      <4>1. \A n \in Managers : memory[n] # s /\ held[n].using # s /\ granted[n] # s
        BY <2>1 DEF IssuedFits, AccountInv, AccountTypeOK
      <4> QED
        BY <3>1, <4>1 DEF Known
    <3>3. s \in usable' /\ issued' = s
      BY DEF AccountInv, Refreshed, Granted
    <3>4. Secrets(m, "held") = {}
      BY DEF AccountInv, Refreshed, Granted, Secrets
    <3>5. Secrets(m, "held")' = {s}
      BY <1>0 DEF AccountInv, Refreshed, Granted, Secrets, AccountTypeOK
    <3>6. \A n \in Managers, l \in Places : m # n \/ "held" # l => Secrets(n, l)' \subseteq Secrets(n, l)
      BY <1>0 DEF AccountInv, Refreshed, Granted, loginVars, Secrets, AccountTypeOK, Places
    <3>7. \A n \in Managers, l \in Places : \A c \in Secrets(n, l) : c \in usable'
      <4>1. Known(held[m].using)
        BY DEF Refreshed, Known
      <4>2. usable \ {held[m].using} \subseteq usable'
        BY DEF Refreshed, Granted
      <4> QED
        BY <2>1, <4>1, <4>2 DEF SecretsFit
    <3>8. \A c : Known(c)' => Known(c)
      <4> SUFFICES ASSUME NEW c, Known(c)' PROVE Known(c)
        OBVIOUS
      <4>1. c = authFile' => c = authFile
        BY DEF AccountInv, Refreshed, Granted
      <4>2. ASSUME NEW n \in Managers, c = memory'[n] PROVE Known(c)
        BY <4>2 DEF AccountInv, Refreshed, Granted, Known
      <4>3. ASSUME NEW n \in Managers, c = held'[n].using, held'[n].at # "write" PROVE Known(c)
        <5>1. c = held[n].using /\ held[n].at # "write"
          BY <4>3, <1>0 DEF AccountInv, Refreshed, Granted
        <5> QED
          BY <5>1 DEF Known
      <4>4. ASSUME NEW n \in Managers, c = granted'[n], login'[n] = "memory" PROVE Known(c)
        <5>1. c = granted[n] /\ login[n] = "memory"
          BY <4>4 DEF AccountInv, Refreshed, Granted, loginVars, AccountTypeOK
        <5> QED
          BY <5>1 DEF Known
      <4> QED
        BY <4>1, <4>2, <4>3, <4>4 DEF Known
    <3>9. "held" \in Places
      BY DEF Places
    <3> HIDE DEF s
    <3> QED
      BY <2>1, <3>1, <3>2, <3>3, <3>4, <3>5, <3>6, <3>7, <3>8, <3>9, SecretAdded
  <2>3. IssuedFits'
    <3>1. \A n \in Managers : memory[n] <= issued + 1 /\ granted[n] <= issued + 1
      BY <2>1 DEF IssuedFits, AccountInv, AccountTypeOK
    <3>2. \A n \in Managers : held'[n].using <= issued + 1
      BY <1>0, <2>1 DEF IssuedFits, AccountInv, AccountTypeOK
    <3>3. authFile <= issued + 1 /\ \A c \in usable \cup {issued + 1} : c <= issued + 1
      BY <2>1 DEF IssuedFits, AccountInv, AccountTypeOK, Credentials
    <3>4. usable' \subseteq usable \cup {issued + 1}
      BY <1>0 DEF Refreshed, Granted
    <3> QED
      BY <1>0, <3>1, <3>2, <3>3, <3>4 DEF IssuedFits, Refreshed, loginVars
  <2>4. FileFits'
    BY <1>0, <2>1 DEF AccountInv, Refreshed, Granted, FileFits, AccountTypeOK
  <2> QED
    BY <2>2, <2>3, <2>4
<1> QED
  BY <1>1, <1>2, <1>3, <1>4, <1>5 DEF AccountInv

\* The new credentials are in the file.
LEMMA AccountWritten == ASSUME AccountInv, NEW m \in Managers, Written(m) PROVE AccountInv'
<1>0. /\ held' \in [Managers -> HeldRecords]
      /\ \A n \in Managers : n # m => held'[n] = held[n]
      /\ held'[m].at = "free" /\ held'[m].kind = "none" /\ held'[m].using = 0
  BY HeldEnded DEF AccountInv, Written, Done
<1>1. AccountTypeOK'
  <2>1. authFile' \in 0..MaxIssued /\ issued' \in 0..MaxIssued /\ upsets' \in 0..MaxUpsets
        /\ transients' \in 0..MaxTransients /\ logins' \in 0..MaxLogins
    BY <1>0 DEF AccountInv, Written, EndHeld, Remember, Done, AccountTypeOK
  <2>2. usable' \subseteq Credentials /\ ageing' \subseteq Credentials
    BY <1>0 DEF AccountInv, Written, EndHeld, Remember, Done, AccountTypeOK
  <2>3. memory' \in [Managers -> 0..MaxIssued] /\ granted' \in [Managers -> 0..MaxIssued]
    BY <1>0 DEF AccountInv, Written, EndHeld, Remember, Done, loginVars, AccountTypeOK
  <2>4. fileLock' \in {Nobody} \cup (Managers \X {"held", "login"})
    BY <1>0 DEF AccountInv, Written, EndHeld, Remember, Done, AccountTypeOK
  <2>5. held' \in [Managers -> [at : StateLockSteps, kind : {"none", "access", "recover", "disconnect"},
                              using : 0..MaxIssued, tries : 0..2]]
    BY <1>0 DEF HeldRecords
  <2>6. login' \in [Managers -> {"none", "grant", "exchange", "lock", "write", "memory", "ending"}]
    BY <1>0 DEF AccountInv, Written, EndHeld, Remember, Done, loginVars, AccountTypeOK
  <2>7. /\ attached' \in [Managers -> BOOLEAN] /\ stopping' \in [Managers -> BOOLEAN]
        /\ listener' \in [Managers -> BOOLEAN] /\ shut' \in [Managers -> BOOLEAN]
    BY <1>0 DEF AccountInv, Written, EndHeld, Remember, Done, loginVars, AccountTypeOK
  <2>8. /\ admin' \in [Managers -> {"none", "starting", "cancel", "disconnect", "removing", "close"}]
        /\ abandoned' \in [Managers -> SUBSET (0..MaxIssued)]
    BY <1>0 DEF AccountInv, Written, EndHeld, Remember, Done, AccountTypeOK
  <2> QED
    BY <2>1, <2>2, <2>3, <2>4, <2>5, <2>6, <2>7, <2>8 DEF AccountTypeOK
<1>2. LoginIsOwned'
  BY <1>0 DEF AccountInv, Written, EndHeld, Remember, Done, loginVars, LoginIsOwned,
     AccountTypeOK, AdministrationFits
<1>3. WritersAreAlone'
  <2>1. WritersAreAlone /\ fileLock' = Nobody /\ held[m].at \in WriteSteps
    BY <1>0 DEF AccountInv, Written, EndHeld, Remember, Done, WriteSteps
  <2>2. held'[m].at \notin WriteSteps /\ \A n \in Managers \ {m} : held'[n].at = held[n].at
    BY <1>0 DEF AccountInv, Written, EndHeld, Remember, Done, WriteSteps
  <2>3. \A n \in Managers : login'[n] = "write" <=> login[n] = "write"
    BY DEF AccountInv, Written, EndHeld, Remember, Done, loginVars, AccountTypeOK
  <2> QED
    BY <2>1, <2>2, <2>3, LockLeft
<1>4. AdministrationFits'
  BY <1>0 DEF AccountInv, Written, EndHeld, Remember, Done, loginVars, AdministrationFits,
     AccountTypeOK
<1>5. NothingUpset'
  <2> SUFFICES ASSUME upsets' = 0 PROVE SecretsFit' /\ IssuedFits' /\ FileFits'
    BY DEF NothingUpset
  <2>1. SecretsFit /\ IssuedFits /\ FileFits
    BY DEF AccountInv, Written, EndHeld, Remember, Done, NothingUpset
  <2>2. SecretsFit'
    <3> DEFINE s == held[m].using
    <3>0. s \in Secrets(m, "held") /\ "held" \in Places
      BY DEF AccountInv, Written, EndHeld, Remember, Done, Secrets, Places
    <3>1. \A n \in Managers, l \in Places : Secrets(n, l)' \subseteq Secrets(n, l)
      BY <1>0 DEF AccountInv, Written, EndHeld, Remember, Done, loginVars, Secrets, AccountTypeOK
    <3>2. s \notin Secrets(m, "held")'
      BY <1>0 DEF AccountInv, Written, EndHeld, Remember, Done, Secrets, AccountTypeOK
    <3>3. \A n \in Managers, l \in Places : m # n \/ "held" # l => s \notin Secrets(n, l)
      BY <2>1, <3>0 DEF SecretsFit
    <3>4. \A n \in Managers, l \in Places : \A c \in Secrets(n, l)' : c \notin {s} /\ c \in usable'
      <4>1. usable' = usable
        BY DEF AccountInv, Written, EndHeld, Remember, Done
      <4> QED
        BY <2>1, <3>1, <3>2, <3>3, <4>1 DEF SecretsFit
    <3>5. \A c \in usable : Known(c)' => Known(c) \/ c \in {s}
      <4> SUFFICES ASSUME NEW c \in usable, Known(c)', c # s PROVE Known(c)
        OBVIOUS
      <4>0. c # 0
        BY DEF AccountInv, AccountTypeOK, Credentials
      <4>1. c # authFile'
        BY DEF AccountInv, Written, EndHeld, Remember, Done
      <4>2. ASSUME NEW n \in Managers, c = memory'[n] PROVE Known(c)
        <5>1. c = memory[n]
          BY <4>2, <1>0 DEF AccountInv, Written, EndHeld, Remember, Done, AccountTypeOK
        <5> QED
          BY <5>1 DEF Known
      <4>3. ASSUME NEW n \in Managers, c = held'[n].using, held'[n].at # "write" PROVE Known(c)
        <5>1. c = held[n].using /\ held[n].at # "write"
          BY <4>0, <4>3, <1>0 DEF AccountInv, Written, EndHeld, Remember, Done
        <5> QED
          BY <5>1 DEF Known
      <4>4. ASSUME NEW n \in Managers, c = granted'[n], login'[n] = "memory" PROVE Known(c)
        <5>1. c = granted[n] /\ login[n] = "memory"
          BY <4>4 DEF AccountInv, Written, EndHeld, Remember, Done, loginVars, AccountTypeOK
        <5> QED
          BY <5>1 DEF Known
      <4> QED
        BY <4>1, <4>2, <4>3, <4>4 DEF Known
    <3>6. \A n \in Managers, l \in Places : \A c \in Secrets(n, l) : Known(c)' => Known(c) \/ c \in {s}
      BY <2>1, <3>5 DEF SecretsFit
    <3> HIDE DEF s
    <3> QED
      BY <2>1, <3>1, <3>4, <3>6, SecretsKept
  <2>3. IssuedFits'
    BY <1>0, <2>1 DEF AccountInv, Written, EndHeld, Remember, Done, loginVars, IssuedFits,
       AccountTypeOK
  <2>4. FileFits'
    <3>1. held[m].using \in Secrets(m, "held") /\ "held" \in Places
      BY DEF Written, Secrets, Places
    <3> QED
      BY <2>1, <3>1 DEF Written, SecretsFit, FileFits
  <2> QED
    BY <2>2, <2>3, <2>4
<1> QED
  BY <1>1, <1>2, <1>3, <1>4, <1>5 DEF AccountInv

\* The service revokes the refresh token.
LEMMA AccountRevoke == ASSUME AccountInv, NEW m \in Managers, Revoke(m) PROVE AccountInv'
<1>0. /\ held' \in [Managers -> HeldRecords]
      /\ \A n \in Managers : n # m => held'[n] = held[n]
      /\ held'[m].at = "removelock" /\ held'[m].kind = held[m].kind /\ held'[m].using = held[m].using
  <2>1. "removelock" \in StateLockSteps
    BY DEF StateLockSteps
  <2> QED
    BY <2>1, HeldMoved DEF AccountInv, Revoke
<1>1. AccountTypeOK'
  <2>1. authFile' \in 0..MaxIssued /\ issued' \in 0..MaxIssued /\ upsets' \in 0..MaxUpsets
        /\ transients' \in 0..MaxTransients /\ logins' \in 0..MaxLogins
    BY <1>0 DEF AccountInv, Revoke, HeldTo, AccountTypeOK
  <2>2. usable' \subseteq Credentials /\ ageing' \subseteq Credentials
    BY <1>0 DEF AccountInv, Revoke, HeldTo, AccountTypeOK
  <2>3. memory' \in [Managers -> 0..MaxIssued] /\ granted' \in [Managers -> 0..MaxIssued]
    BY <1>0 DEF AccountInv, Revoke, HeldTo, loginVars, AccountTypeOK
  <2>4. fileLock' \in {Nobody} \cup (Managers \X {"held", "login"})
    BY <1>0 DEF AccountInv, Revoke, HeldTo, AccountTypeOK
  <2>5. held' \in [Managers -> [at : StateLockSteps, kind : {"none", "access", "recover", "disconnect"},
                              using : 0..MaxIssued, tries : 0..2]]
    BY <1>0 DEF HeldRecords
  <2>6. login' \in [Managers -> {"none", "grant", "exchange", "lock", "write", "memory", "ending"}]
    BY <1>0 DEF AccountInv, Revoke, HeldTo, loginVars, AccountTypeOK
  <2>7. /\ attached' \in [Managers -> BOOLEAN] /\ stopping' \in [Managers -> BOOLEAN]
        /\ listener' \in [Managers -> BOOLEAN] /\ shut' \in [Managers -> BOOLEAN]
    BY <1>0 DEF AccountInv, Revoke, HeldTo, loginVars, AccountTypeOK
  <2>8. /\ admin' \in [Managers -> {"none", "starting", "cancel", "disconnect", "removing", "close"}]
        /\ abandoned' \in [Managers -> SUBSET (0..MaxIssued)]
    BY <1>0 DEF AccountInv, Revoke, HeldTo, AccountTypeOK
  <2> QED
    BY <2>1, <2>2, <2>3, <2>4, <2>5, <2>6, <2>7, <2>8 DEF AccountTypeOK
<1>2. LoginIsOwned'
  BY <1>0 DEF AccountInv, Revoke, HeldTo, loginVars, LoginIsOwned, AccountTypeOK,
     AdministrationFits
<1>3. WritersAreAlone'
  <2>1. WritersAreAlone /\ fileLock' = fileLock
    BY DEF AccountInv, Revoke, HeldTo
  <2>2. \A n \in Managers : held'[n].at \in WriteSteps <=> held[n].at \in WriteSteps
    BY <1>0 DEF AccountInv, Revoke, HeldTo, WriteSteps
  <2>3. \A n \in Managers : login'[n] = "write" <=> login[n] = "write"
    BY DEF AccountInv, Revoke, HeldTo, loginVars, AccountTypeOK
  <2> QED
    BY <2>1, <2>2, <2>3, LockKept
<1>4. AdministrationFits'
  BY <1>0 DEF AccountInv, Revoke, HeldTo, loginVars, AdministrationFits, AccountTypeOK
<1>5. NothingUpset'
  <2> SUFFICES ASSUME upsets' = 0 PROVE SecretsFit' /\ IssuedFits' /\ FileFits'
    BY DEF NothingUpset
  <2>1. SecretsFit /\ IssuedFits /\ FileFits
    BY DEF AccountInv, Revoke, HeldTo, NothingUpset
  <2>2. SecretsFit'
    <3>1. \A n \in Managers, k \in Places : Secrets(n, k)' \subseteq Secrets(n, k)
      BY <1>0 DEF AccountInv, Revoke, HeldTo, loginVars, Secrets, AccountTypeOK
    <3>2. \A c \in usable : c \in usable' \/ Known(c)
      <4>1. Known(held[m].using)
        BY DEF Revoke, Known
      <4> QED
        BY <4>1 DEF Revoke
    <3>3. \A c \in usable : Known(c)' => Known(c)
      BY <1>0 DEF AccountInv, Revoke, HeldTo, loginVars, Known, AccountTypeOK
    <3> QED
      BY <2>1, <3>1, <3>2, <3>3, NothingTold
  <2>3. IssuedFits'
    BY <1>0, <2>1 DEF AccountInv, Revoke, HeldTo, loginVars, IssuedFits, AccountTypeOK
  <2>4. FileFits'
    BY <1>0, <2>1 DEF AccountInv, Revoke, HeldTo, FileFits, AccountTypeOK
  <2> QED
    BY <2>2, <2>3, <2>4
<1> QED
  BY <1>1, <1>2, <1>3, <1>4, <1>5 DEF AccountInv

\* A thread that was abandoned puts c into the file.
ThreadEnds(m, c) ==
    /\ authFile' = c /\ abandoned' = [abandoned EXCEPT ![m] = @ \ {c}]
    /\ UNCHANGED <<issued, usable, ageing, fileLock, memory, held, loginVars, admin, shut,
                   upsets, transients, logins>>

\* The threads of cancelled calls and logins write what they had.
LEMMA AccountThreadEnds == ASSUME AccountInv, NEW m \in Managers, NEW c \in abandoned[m], ThreadEnds(m, c) PROVE AccountInv'
<1>1. AccountTypeOK'
  <2>1. authFile' \in 0..MaxIssued /\ issued' \in 0..MaxIssued /\ upsets' \in 0..MaxUpsets
        /\ transients' \in 0..MaxTransients /\ logins' \in 0..MaxLogins
    BY DEF AccountInv, ThreadEnds, AccountTypeOK
  <2>2. usable' \subseteq Credentials /\ ageing' \subseteq Credentials
    BY DEF AccountInv, ThreadEnds, AccountTypeOK
  <2>3. memory' \in [Managers -> 0..MaxIssued] /\ granted' \in [Managers -> 0..MaxIssued]
    BY DEF AccountInv, ThreadEnds, loginVars, AccountTypeOK
  <2>4. fileLock' \in {Nobody} \cup (Managers \X {"held", "login"})
    BY DEF ThreadEnds, AccountInv, AccountTypeOK
  <2>5. held' \in [Managers -> [at : StateLockSteps, kind : {"none", "access", "recover", "disconnect"},
                              using : 0..MaxIssued, tries : 0..2]]
    BY DEF AccountInv, ThreadEnds, AccountTypeOK, StateLockSteps
  <2>6. login' \in [Managers -> {"none", "grant", "exchange", "lock", "write", "memory", "ending"}]
    BY DEF AccountInv, ThreadEnds, loginVars, AccountTypeOK
  <2>7. /\ attached' \in [Managers -> BOOLEAN] /\ stopping' \in [Managers -> BOOLEAN]
        /\ listener' \in [Managers -> BOOLEAN] /\ shut' \in [Managers -> BOOLEAN]
    BY DEF AccountInv, ThreadEnds, loginVars, AccountTypeOK
  <2>8. /\ admin' \in [Managers -> {"none", "starting", "cancel", "disconnect", "removing", "close"}]
        /\ abandoned' \in [Managers -> SUBSET (0..MaxIssued)]
    BY DEF AccountInv, ThreadEnds, AccountTypeOK
  <2> QED
    BY <2>1, <2>2, <2>3, <2>4, <2>5, <2>6, <2>7, <2>8 DEF AccountTypeOK
<1>2. LoginIsOwned'
  BY DEF AccountInv, ThreadEnds, loginVars, LoginIsOwned, AccountTypeOK, AdministrationFits
<1>3. WritersAreAlone'
  BY DEF AccountInv, ThreadEnds, loginVars, WritersAreAlone, AccountTypeOK, Nobody
<1>4. AdministrationFits'
  BY DEF AccountInv, ThreadEnds, loginVars, AdministrationFits, AccountTypeOK
<1>5. NothingUpset'
  <2> SUFFICES ASSUME upsets' = 0 PROVE SecretsFit' /\ IssuedFits' /\ FileFits'
    BY DEF NothingUpset
  <2>1. SecretsFit /\ IssuedFits /\ FileFits
    BY DEF AccountInv, ThreadEnds, NothingUpset
  <2>2. SecretsFit'
    <3> DEFINE s == c
    <3>0. s \in Secrets(m, "abandoned") /\ "abandoned" \in Places
      BY DEF AccountInv, ThreadEnds, Secrets, Places
    <3>1. \A n \in Managers, l \in Places : Secrets(n, l)' \subseteq Secrets(n, l)
      BY DEF AccountInv, ThreadEnds, loginVars, Secrets, AccountTypeOK
    <3>2. s \notin Secrets(m, "abandoned")'
      BY DEF AccountInv, ThreadEnds, Secrets, AccountTypeOK
    <3>3. \A n \in Managers, l \in Places : m # n \/ "abandoned" # l => s \notin Secrets(n, l)
      BY <2>1, <3>0 DEF SecretsFit
    <3>4. \A n \in Managers, l \in Places : \A d \in Secrets(n, l)' : d \notin {s} /\ d \in usable'
      <4>1. usable' = usable
        BY DEF AccountInv, ThreadEnds
      <4> QED
        BY <2>1, <3>1, <3>2, <3>3, <4>1 DEF SecretsFit
    <3>5. \A d \in usable : Known(d)' => Known(d) \/ d \in {s}
      <4> SUFFICES ASSUME NEW d \in usable, Known(d)', d # s PROVE Known(d)
        OBVIOUS
      <4>0. d # 0
        BY DEF AccountInv, AccountTypeOK, Credentials
      <4>1. d # authFile'
        BY DEF AccountInv, ThreadEnds
      <4>2. ASSUME NEW n \in Managers, d = memory'[n] PROVE Known(d)
        <5>1. d = memory[n]
          BY <4>2 DEF AccountInv, ThreadEnds, AccountTypeOK
        <5> QED
          BY <5>1 DEF Known
      <4>3. ASSUME NEW n \in Managers, d = held'[n].using, held'[n].at # "write" PROVE Known(d)
        <5>1. d = held[n].using /\ held[n].at # "write"
          BY <4>0, <4>3 DEF AccountInv, ThreadEnds
        <5> QED
          BY <5>1 DEF Known
      <4>4. ASSUME NEW n \in Managers, d = granted'[n], login'[n] = "memory" PROVE Known(d)
        <5>1. d = granted[n] /\ login[n] = "memory"
          BY <4>4 DEF AccountInv, ThreadEnds, loginVars, AccountTypeOK
        <5> QED
          BY <5>1 DEF Known
      <4> QED
        BY <4>1, <4>2, <4>3, <4>4 DEF Known
    <3>6. \A n \in Managers, l \in Places : \A d \in Secrets(n, l) : Known(d)' => Known(d) \/ d \in {s}
      BY <2>1, <3>5 DEF SecretsFit
    <3> HIDE DEF s
    <3> QED
      BY <2>1, <3>1, <3>4, <3>6, SecretsKept
  <2>3. IssuedFits'
    <3>1. c \in Secrets(m, "abandoned") /\ "abandoned" \in Places
      BY DEF Secrets, Places
    <3>2. c <= issued
      BY <2>1, <3>1 DEF SecretsFit, IssuedFits
    <3> QED
      BY <2>1, <3>2 DEF ThreadEnds, IssuedFits, loginVars
  <2>4. FileFits'
    <3>1. c \in Secrets(m, "abandoned") /\ "abandoned" \in Places
      BY DEF Secrets, Places
    <3> QED
      BY <2>1, <3>1 DEF ThreadEnds, SecretsFit, FileFits
  <2> QED
    BY <2>2, <2>3, <2>4
<1> QED
  BY <1>1, <1>2, <1>3, <1>4, <1>5 DEF AccountInv

\* The login's steps, one by one.
LoginAsked(m) ==
    /\ login[m] = "grant" /\ LoginTo(m, "exchange")
    /\ UNCHANGED <<sharedVars, attached, granted, stopping, listener, memory, held, admin, shut,
                   abandoned, upsets, transients, logins>>
LoginGranted(m) ==
    /\ login[m] = "exchange" /\ issued < MaxIssued
    /\ issued' = issued + 1 /\ usable' = usable \cup {issued'}
    /\ granted' = [granted EXCEPT ![m] = issued'] /\ LoginTo(m, "lock")
    /\ UNCHANGED <<authFile, ageing, fileLock, attached, stopping, listener, memory, held, admin,
                   shut, abandoned, upsets, transients, logins>>
LoginLocks(m) ==
    /\ login[m] = "lock" /\ fileLock = Nobody
    /\ fileLock' = <<m, "login">> /\ LoginTo(m, "write")
    /\ UNCHANGED <<authFile, issued, usable, ageing, attached, granted, stopping, listener, memory,
                   held, admin, shut, abandoned, upsets, transients, logins>>
LoginWritten(m) ==
    /\ login[m] = "write" /\ authFile' = granted[m] /\ fileLock' = Nobody /\ LoginTo(m, "memory")
    /\ UNCHANGED <<issued, usable, ageing, attached, granted, stopping, listener, memory, held,
                   admin, shut, abandoned, upsets, transients, logins>>
LoginGivesUp(m) ==
    /\ login[m] \in {"grant", "exchange", "lock"} /\ LoginTo(m, "ending")
    /\ UNCHANGED <<sharedVars, attached, granted, stopping, listener, memory, held, admin, shut,
                   abandoned, upsets, transients, logins>>

LEMMA LoginSteps ==
    ASSUME NEW m, LoginStep(m)
    PROVE  LoginAsked(m) \/ LoginGranted(m) \/ LoginLocks(m) \/ LoginWritten(m) \/ LoginGivesUp(m)
<1>1. CASE Exchange(m)
  BY <1>1 DEF LoginStep, Exchange, LoginAsked, LoginGranted, sharedVars
<1>2. CASE LoginWrites(m) /\ UNCHANGED <<issued, usable, ageing, attached, granted, stopping, listener>>
  BY <1>2 DEF LoginStep, LoginWrites, LoginLocks, LoginWritten
<1>3. CASE LoginFails(m) /\ LoginTo(m, "ending") /\ UNCHANGED <<sharedVars, attached, granted, stopping, listener>>
  BY <1>3 DEF LoginStep, LoginFails, LoginGivesUp
<1> QED
  BY <1>1, <1>2, <1>3 DEF LoginStep

\* The user's grant is exchanged.
LEMMA AccountLoginAsked == ASSUME AccountInv, NEW m \in Managers, LoginAsked(m) PROVE AccountInv'
<1>1. AccountTypeOK'
  <2>1. authFile' \in 0..MaxIssued /\ issued' \in 0..MaxIssued /\ upsets' \in 0..MaxUpsets
        /\ transients' \in 0..MaxTransients /\ logins' \in 0..MaxLogins
    BY DEF AccountInv, LoginAsked, LoginTo, sharedVars, AccountTypeOK
  <2>2. usable' \subseteq Credentials /\ ageing' \subseteq Credentials
    BY DEF AccountInv, LoginAsked, LoginTo, sharedVars, AccountTypeOK
  <2>3. memory' \in [Managers -> 0..MaxIssued] /\ granted' \in [Managers -> 0..MaxIssued]
    BY DEF AccountInv, LoginAsked, LoginTo, AccountTypeOK
  <2>4. fileLock' \in {Nobody} \cup (Managers \X {"held", "login"})
    BY DEF AccountInv, LoginAsked, LoginTo, sharedVars, AccountTypeOK
  <2>5. held' \in [Managers -> [at : StateLockSteps, kind : {"none", "access", "recover", "disconnect"},
                              using : 0..MaxIssued, tries : 0..2]]
    BY DEF AccountInv, LoginAsked, LoginTo, AccountTypeOK, StateLockSteps
  <2>6. login' \in [Managers -> {"none", "grant", "exchange", "lock", "write", "memory", "ending"}]
    BY DEF AccountInv, LoginAsked, LoginTo, AccountTypeOK
  <2>7. /\ attached' \in [Managers -> BOOLEAN] /\ stopping' \in [Managers -> BOOLEAN]
        /\ listener' \in [Managers -> BOOLEAN] /\ shut' \in [Managers -> BOOLEAN]
    BY DEF AccountInv, LoginAsked, LoginTo, AccountTypeOK
  <2>8. /\ admin' \in [Managers -> {"none", "starting", "cancel", "disconnect", "removing", "close"}]
        /\ abandoned' \in [Managers -> SUBSET (0..MaxIssued)]
    BY DEF AccountInv, LoginAsked, LoginTo, AccountTypeOK
  <2> QED
    BY <2>1, <2>2, <2>3, <2>4, <2>5, <2>6, <2>7, <2>8 DEF AccountTypeOK
<1>2. LoginIsOwned'
  BY DEF AccountInv, LoginAsked, LoginTo, LoginIsOwned, AccountTypeOK, AdministrationFits
<1>3. WritersAreAlone'
  <2>1. WritersAreAlone /\ fileLock' = fileLock
    BY DEF AccountInv, LoginAsked, LoginTo, sharedVars
  <2>2. \A n \in Managers : held'[n].at \in WriteSteps <=> held[n].at \in WriteSteps
    BY DEF AccountInv, LoginAsked, LoginTo, WriteSteps
  <2>3. \A n \in Managers : login'[n] = "write" <=> login[n] = "write"
    BY DEF AccountInv, LoginAsked, LoginTo, AccountTypeOK
  <2> QED
    BY <2>1, <2>2, <2>3, LockKept
<1>4. AdministrationFits'
  BY DEF AccountInv, LoginAsked, LoginTo, AdministrationFits, AccountTypeOK
<1>5. NothingUpset'
  <2> SUFFICES ASSUME upsets' = 0 PROVE SecretsFit' /\ IssuedFits' /\ FileFits'
    BY DEF NothingUpset
  <2>1. SecretsFit /\ IssuedFits /\ FileFits
    BY DEF AccountInv, LoginAsked, LoginTo, NothingUpset
  <2>2. SecretsFit'
    <3>1. \A n \in Managers, k \in Places : Secrets(n, k)' \subseteq Secrets(n, k)
      BY DEF AccountInv, LoginAsked, LoginTo, Secrets, AccountTypeOK
    <3>2. \A c \in usable : c \in usable' \/ Known(c)
      BY DEF AccountInv, LoginAsked, LoginTo, sharedVars
    <3>3. \A c \in usable : Known(c)' => Known(c)
      BY DEF AccountInv, LoginAsked, LoginTo, sharedVars, Known, AccountTypeOK
    <3> QED
      BY <2>1, <3>1, <3>2, <3>3, NothingTold
  <2>3. IssuedFits'
    BY <2>1 DEF AccountInv, LoginAsked, LoginTo, sharedVars, IssuedFits, AccountTypeOK
  <2>4. FileFits'
    BY <2>1 DEF AccountInv, LoginAsked, LoginTo, sharedVars, FileFits, AccountTypeOK
  <2> QED
    BY <2>2, <2>3, <2>4
<1> QED
  BY <1>1, <1>2, <1>3, <1>4, <1>5 DEF AccountInv

\* The service issues credentials for it.
LEMMA AccountLoginGranted == ASSUME AccountInv, NEW m \in Managers, LoginGranted(m) PROVE AccountInv'
<1>1. AccountTypeOK'
  <2>1. authFile' \in 0..MaxIssued /\ issued' \in 0..MaxIssued /\ upsets' \in 0..MaxUpsets
        /\ transients' \in 0..MaxTransients /\ logins' \in 0..MaxLogins
    BY AccountAssumption DEF AccountInv, LoginGranted, LoginTo, AccountTypeOK, AccountAssumption
  <2>2. usable' \subseteq Credentials /\ ageing' \subseteq Credentials
    <3>1. issued' \in Credentials
      BY AccountAssumption DEF LoginGranted, AccountInv, AccountTypeOK, AccountAssumption,
         Credentials
    <3>2. usable' \subseteq usable \cup {issued'}
      BY DEF LoginGranted
    <3> QED
      BY <3>1, <3>2 DEF LoginGranted, AccountInv, AccountTypeOK
  <2>3. memory' \in [Managers -> 0..MaxIssued] /\ granted' \in [Managers -> 0..MaxIssued]
    BY AccountAssumption DEF AccountInv, LoginGranted, LoginTo, AccountTypeOK, AccountAssumption
  <2>4. fileLock' \in {Nobody} \cup (Managers \X {"held", "login"})
    BY DEF AccountInv, LoginGranted, LoginTo, AccountTypeOK
  <2>5. held' \in [Managers -> [at : StateLockSteps, kind : {"none", "access", "recover", "disconnect"},
                              using : 0..MaxIssued, tries : 0..2]]
    BY DEF AccountInv, LoginGranted, LoginTo, AccountTypeOK, StateLockSteps
  <2>6. login' \in [Managers -> {"none", "grant", "exchange", "lock", "write", "memory", "ending"}]
    BY DEF AccountInv, LoginGranted, LoginTo, AccountTypeOK
  <2>7. /\ attached' \in [Managers -> BOOLEAN] /\ stopping' \in [Managers -> BOOLEAN]
        /\ listener' \in [Managers -> BOOLEAN] /\ shut' \in [Managers -> BOOLEAN]
    BY DEF AccountInv, LoginGranted, LoginTo, AccountTypeOK
  <2>8. /\ admin' \in [Managers -> {"none", "starting", "cancel", "disconnect", "removing", "close"}]
        /\ abandoned' \in [Managers -> SUBSET (0..MaxIssued)]
    BY DEF AccountInv, LoginGranted, LoginTo, AccountTypeOK
  <2> QED
    BY <2>1, <2>2, <2>3, <2>4, <2>5, <2>6, <2>7, <2>8 DEF AccountTypeOK
<1>2. LoginIsOwned'
  BY DEF AccountInv, LoginGranted, LoginTo, LoginIsOwned, AccountTypeOK, AdministrationFits
<1>3. WritersAreAlone'
  <2>1. WritersAreAlone /\ fileLock' = fileLock
    BY DEF AccountInv, LoginGranted, LoginTo
  <2>2. \A n \in Managers : held'[n].at \in WriteSteps <=> held[n].at \in WriteSteps
    BY DEF AccountInv, LoginGranted, LoginTo, WriteSteps
  <2>3. \A n \in Managers : login'[n] = "write" <=> login[n] = "write"
    BY DEF AccountInv, LoginGranted, LoginTo, AccountTypeOK
  <2> QED
    BY <2>1, <2>2, <2>3, LockKept
<1>4. AdministrationFits'
  BY DEF AccountInv, LoginGranted, LoginTo, AdministrationFits, AccountTypeOK
<1>5. NothingUpset'
  <2> SUFFICES ASSUME upsets' = 0 PROVE SecretsFit' /\ IssuedFits' /\ FileFits'
    BY DEF NothingUpset
  <2>1. SecretsFit /\ IssuedFits /\ FileFits
    BY DEF AccountInv, LoginGranted, LoginTo, NothingUpset
  <2>2. SecretsFit'
    <3> DEFINE s == issued + 1
    <3>1. s \notin usable /\ s # authFile
      BY <2>1 DEF IssuedFits, AccountInv, AccountTypeOK
    <3>2. ~Known(s)
      <4>1. \A n \in Managers : memory[n] # s /\ held[n].using # s /\ granted[n] # s
        BY <2>1 DEF IssuedFits, AccountInv, AccountTypeOK
      <4> QED
        BY <3>1, <4>1 DEF Known
    <3>3. s \in usable' /\ issued' = s
      BY DEF AccountInv, LoginGranted, LoginTo
    <3>4. Secrets(m, "login") = {}
      BY DEF AccountInv, LoginGranted, LoginTo, Secrets
    <3>5. Secrets(m, "login")' = {s}
      BY DEF AccountInv, LoginGranted, LoginTo, Secrets, AccountTypeOK
    <3>6. \A n \in Managers, l \in Places : m # n \/ "login" # l => Secrets(n, l)' \subseteq Secrets(n, l)
      BY DEF AccountInv, LoginGranted, LoginTo, Secrets, AccountTypeOK, Places
    <3>7. \A n \in Managers, l \in Places : \A c \in Secrets(n, l) : c \in usable'
      BY <2>1 DEF LoginGranted, SecretsFit
    <3>8. \A c : Known(c)' => Known(c)
      <4> SUFFICES ASSUME NEW c, Known(c)' PROVE Known(c)
        OBVIOUS
      <4>1. c = authFile' => c = authFile
        BY DEF AccountInv, LoginGranted, LoginTo
      <4>2. ASSUME NEW n \in Managers, c = memory'[n] PROVE Known(c)
        BY <4>2 DEF AccountInv, LoginGranted, LoginTo, Known
      <4>3. ASSUME NEW n \in Managers, c = held'[n].using, held'[n].at # "write" PROVE Known(c)
        <5>1. c = held[n].using /\ held[n].at # "write"
          BY <4>3 DEF AccountInv, LoginGranted, LoginTo
        <5> QED
          BY <5>1 DEF Known
      <4>4. ASSUME NEW n \in Managers, c = granted'[n], login'[n] = "memory" PROVE Known(c)
        <5>1. c = granted[n] /\ login[n] = "memory"
          BY <4>4 DEF AccountInv, LoginGranted, LoginTo, AccountTypeOK
        <5> QED
          BY <5>1 DEF Known
      <4> QED
        BY <4>1, <4>2, <4>3, <4>4 DEF Known
    <3>9. "login" \in Places
      BY DEF Places
    <3> HIDE DEF s
    <3> QED
      BY <2>1, <3>1, <3>2, <3>3, <3>4, <3>5, <3>6, <3>7, <3>8, <3>9, SecretAdded
  <2>3. IssuedFits'
    <3>1. \A n \in Managers : memory[n] <= issued + 1 /\ held[n].using <= issued + 1
      BY <2>1 DEF IssuedFits, AccountInv, AccountTypeOK
    <3>2. \A n \in Managers : granted'[n] <= issued + 1
      BY <2>1 DEF LoginGranted, IssuedFits, AccountInv, AccountTypeOK
    <3>3. authFile <= issued + 1 /\ \A c \in usable \cup {issued + 1} : c <= issued + 1
      BY <2>1 DEF IssuedFits, AccountInv, AccountTypeOK, Credentials
    <3> QED
      BY <3>1, <3>2, <3>3 DEF LoginGranted, IssuedFits
  <2>4. FileFits'
    BY <2>1 DEF AccountInv, LoginGranted, LoginTo, FileFits, AccountTypeOK
  <2> QED
    BY <2>2, <2>3, <2>4
<1> QED
  BY <1>1, <1>2, <1>3, <1>4, <1>5 DEF AccountInv

\* They are written under the file lock.
LEMMA AccountLoginLocks == ASSUME AccountInv, NEW m \in Managers, LoginLocks(m) PROVE AccountInv'
<1>1. AccountTypeOK'
  <2>1. authFile' \in 0..MaxIssued /\ issued' \in 0..MaxIssued /\ upsets' \in 0..MaxUpsets
        /\ transients' \in 0..MaxTransients /\ logins' \in 0..MaxLogins
    BY DEF AccountInv, LoginLocks, LoginTo, AccountTypeOK
  <2>2. usable' \subseteq Credentials /\ ageing' \subseteq Credentials
    BY DEF AccountInv, LoginLocks, LoginTo, AccountTypeOK
  <2>3. memory' \in [Managers -> 0..MaxIssued] /\ granted' \in [Managers -> 0..MaxIssued]
    BY DEF AccountInv, LoginLocks, LoginTo, AccountTypeOK
  <2>4. fileLock' \in {Nobody} \cup (Managers \X {"held", "login"})
    BY DEF AccountInv, LoginLocks, LoginTo, AccountTypeOK
  <2>5. held' \in [Managers -> [at : StateLockSteps, kind : {"none", "access", "recover", "disconnect"},
                              using : 0..MaxIssued, tries : 0..2]]
    BY DEF AccountInv, LoginLocks, LoginTo, AccountTypeOK, StateLockSteps
  <2>6. login' \in [Managers -> {"none", "grant", "exchange", "lock", "write", "memory", "ending"}]
    BY DEF AccountInv, LoginLocks, LoginTo, AccountTypeOK
  <2>7. /\ attached' \in [Managers -> BOOLEAN] /\ stopping' \in [Managers -> BOOLEAN]
        /\ listener' \in [Managers -> BOOLEAN] /\ shut' \in [Managers -> BOOLEAN]
    BY DEF AccountInv, LoginLocks, LoginTo, AccountTypeOK
  <2>8. /\ admin' \in [Managers -> {"none", "starting", "cancel", "disconnect", "removing", "close"}]
        /\ abandoned' \in [Managers -> SUBSET (0..MaxIssued)]
    BY DEF AccountInv, LoginLocks, LoginTo, AccountTypeOK
  <2> QED
    BY <2>1, <2>2, <2>3, <2>4, <2>5, <2>6, <2>7, <2>8 DEF AccountTypeOK
<1>2. LoginIsOwned'
  BY DEF AccountInv, LoginLocks, LoginTo, LoginIsOwned, AccountTypeOK, AdministrationFits
<1>3. WritersAreAlone'
  <2>0. WritersAreAlone /\ fileLock = Nobody /\ fileLock' = <<m, "login">> /\ held' = held
    BY DEF LoginLocks, AccountInv
  <2>1. \A n \in Managers : held[n].at \notin WriteSteps /\ login[n] # "write"
    BY <2>0 DEF WritersAreAlone, WriteSteps, Nobody
  <2>2. \A n \in Managers : login'[n] = "write" <=> n = m
    BY <2>1 DEF LoginLocks, LoginTo, AccountInv, AccountTypeOK
  <2>3. \A n \in Managers : fileLock' # <<n, "held">> /\ (fileLock' = <<n, "login">> <=> n = m)
    BY <2>0
  <2> QED
    BY <2>0, <2>1, <2>2, <2>3 DEF WritersAreAlone, WriteSteps
<1>4. AdministrationFits'
  BY DEF AccountInv, LoginLocks, LoginTo, AdministrationFits, AccountTypeOK
<1>5. NothingUpset'
  <2> SUFFICES ASSUME upsets' = 0 PROVE SecretsFit' /\ IssuedFits' /\ FileFits'
    BY DEF NothingUpset
  <2>1. SecretsFit /\ IssuedFits /\ FileFits
    BY DEF AccountInv, LoginLocks, LoginTo, NothingUpset
  <2>2. SecretsFit'
    <3>1. \A n \in Managers, k \in Places : Secrets(n, k)' \subseteq Secrets(n, k)
      BY DEF AccountInv, LoginLocks, LoginTo, Secrets, AccountTypeOK
    <3>2. \A c \in usable : c \in usable' \/ Known(c)
      BY DEF AccountInv, LoginLocks, LoginTo
    <3>3. \A c \in usable : Known(c)' => Known(c)
      BY DEF AccountInv, LoginLocks, LoginTo, Known, AccountTypeOK
    <3> QED
      BY <2>1, <3>1, <3>2, <3>3, NothingTold
  <2>3. IssuedFits'
    BY <2>1 DEF AccountInv, LoginLocks, LoginTo, IssuedFits, AccountTypeOK
  <2>4. FileFits'
    BY <2>1 DEF AccountInv, LoginLocks, LoginTo, FileFits, AccountTypeOK
  <2> QED
    BY <2>2, <2>3, <2>4
<1> QED
  BY <1>1, <1>2, <1>3, <1>4, <1>5 DEF AccountInv

\* They are in the file.
LEMMA AccountLoginWritten == ASSUME AccountInv, NEW m \in Managers, LoginWritten(m) PROVE AccountInv'
<1>1. AccountTypeOK'
  <2>1. authFile' \in 0..MaxIssued /\ issued' \in 0..MaxIssued /\ upsets' \in 0..MaxUpsets
        /\ transients' \in 0..MaxTransients /\ logins' \in 0..MaxLogins
    BY DEF AccountInv, LoginWritten, LoginTo, AccountTypeOK
  <2>2. usable' \subseteq Credentials /\ ageing' \subseteq Credentials
    BY DEF AccountInv, LoginWritten, LoginTo, AccountTypeOK
  <2>3. memory' \in [Managers -> 0..MaxIssued] /\ granted' \in [Managers -> 0..MaxIssued]
    BY DEF AccountInv, LoginWritten, LoginTo, AccountTypeOK
  <2>4. fileLock' \in {Nobody} \cup (Managers \X {"held", "login"})
    BY DEF AccountInv, LoginWritten, LoginTo, AccountTypeOK
  <2>5. held' \in [Managers -> [at : StateLockSteps, kind : {"none", "access", "recover", "disconnect"},
                              using : 0..MaxIssued, tries : 0..2]]
    BY DEF AccountInv, LoginWritten, LoginTo, AccountTypeOK, StateLockSteps
  <2>6. login' \in [Managers -> {"none", "grant", "exchange", "lock", "write", "memory", "ending"}]
    BY DEF AccountInv, LoginWritten, LoginTo, AccountTypeOK
  <2>7. /\ attached' \in [Managers -> BOOLEAN] /\ stopping' \in [Managers -> BOOLEAN]
        /\ listener' \in [Managers -> BOOLEAN] /\ shut' \in [Managers -> BOOLEAN]
    BY DEF AccountInv, LoginWritten, LoginTo, AccountTypeOK
  <2>8. /\ admin' \in [Managers -> {"none", "starting", "cancel", "disconnect", "removing", "close"}]
        /\ abandoned' \in [Managers -> SUBSET (0..MaxIssued)]
    BY DEF AccountInv, LoginWritten, LoginTo, AccountTypeOK
  <2> QED
    BY <2>1, <2>2, <2>3, <2>4, <2>5, <2>6, <2>7, <2>8 DEF AccountTypeOK
<1>2. LoginIsOwned'
  BY DEF AccountInv, LoginWritten, LoginTo, LoginIsOwned, AccountTypeOK, AdministrationFits
<1>3. WritersAreAlone'
  <2>1. WritersAreAlone /\ held' = held /\ fileLock = <<m, "login">> /\ fileLock' = Nobody
    BY DEF LoginWritten, AccountInv, WritersAreAlone
  <2>2. \A n \in Managers : login'[n] # "write" /\ held[n].at \notin WriteSteps
    BY <2>1 DEF LoginWritten, LoginTo, AccountInv, AccountTypeOK, WritersAreAlone, WriteSteps
  <2>3. \A n \in Managers : fileLock' # <<n, "held">> /\ fileLock' # <<n, "login">>
    BY <2>1 DEF Nobody
  <2> QED
    BY <2>1, <2>2, <2>3 DEF WritersAreAlone, WriteSteps
<1>4. AdministrationFits'
  BY DEF AccountInv, LoginWritten, LoginTo, AdministrationFits, AccountTypeOK
<1>5. NothingUpset'
  <2> SUFFICES ASSUME upsets' = 0 PROVE SecretsFit' /\ IssuedFits' /\ FileFits'
    BY DEF NothingUpset
  <2>1. SecretsFit /\ IssuedFits /\ FileFits
    BY DEF AccountInv, LoginWritten, LoginTo, NothingUpset
  <2>2. SecretsFit'
    <3> DEFINE s == granted[m]
    <3>0. s \in Secrets(m, "login") /\ "login" \in Places
      BY DEF AccountInv, LoginWritten, LoginTo, Secrets, Places
    <3>1. \A n \in Managers, l \in Places : Secrets(n, l)' \subseteq Secrets(n, l)
      BY DEF AccountInv, LoginWritten, LoginTo, Secrets, AccountTypeOK
    <3>2. s \notin Secrets(m, "login")'
      BY DEF AccountInv, LoginWritten, LoginTo, Secrets, AccountTypeOK
    <3>3. \A n \in Managers, l \in Places : m # n \/ "login" # l => s \notin Secrets(n, l)
      BY <2>1, <3>0 DEF SecretsFit
    <3>4. \A n \in Managers, l \in Places : \A c \in Secrets(n, l)' : c \notin {s} /\ c \in usable'
      <4>1. usable' = usable
        BY DEF AccountInv, LoginWritten, LoginTo
      <4> QED
        BY <2>1, <3>1, <3>2, <3>3, <4>1 DEF SecretsFit
    <3>5. \A c \in usable : Known(c)' => Known(c) \/ c \in {s}
      <4> SUFFICES ASSUME NEW c \in usable, Known(c)', c # s PROVE Known(c)
        OBVIOUS
      <4>0. c # 0
        BY DEF AccountInv, AccountTypeOK, Credentials
      <4>1. c # authFile'
        BY DEF AccountInv, LoginWritten, LoginTo
      <4>2. ASSUME NEW n \in Managers, c = memory'[n] PROVE Known(c)
        <5>1. c = memory[n]
          BY <4>2 DEF AccountInv, LoginWritten, LoginTo, AccountTypeOK
        <5> QED
          BY <5>1 DEF Known
      <4>3. ASSUME NEW n \in Managers, c = held'[n].using, held'[n].at # "write" PROVE Known(c)
        <5>1. c = held[n].using /\ held[n].at # "write"
          BY <4>0, <4>3 DEF AccountInv, LoginWritten, LoginTo
        <5> QED
          BY <5>1 DEF Known
      <4>4. ASSUME NEW n \in Managers, c = granted'[n], login'[n] = "memory" PROVE Known(c)
        <5>1. c = granted[n] /\ login[n] = "memory"
          BY <4>4 DEF AccountInv, LoginWritten, LoginTo, AccountTypeOK
        <5> QED
          BY <5>1 DEF Known
      <4> QED
        BY <4>1, <4>2, <4>3, <4>4 DEF Known
    <3>6. \A n \in Managers, l \in Places : \A c \in Secrets(n, l) : Known(c)' => Known(c) \/ c \in {s}
      BY <2>1, <3>5 DEF SecretsFit
    <3> HIDE DEF s
    <3> QED
      BY <2>1, <3>1, <3>4, <3>6, SecretsKept
  <2>3. IssuedFits'
    BY <2>1 DEF AccountInv, LoginWritten, LoginTo, IssuedFits, AccountTypeOK
  <2>4. FileFits'
    <3>1. granted[m] \in Secrets(m, "login") /\ "login" \in Places
      BY DEF LoginWritten, Secrets, Places
    <3> QED
      BY <2>1, <3>1 DEF LoginWritten, SecretsFit, FileFits
  <2> QED
    BY <2>2, <2>3, <2>4
<1> QED
  BY <1>1, <1>2, <1>3, <1>4, <1>5 DEF AccountInv

\* It comes to nothing.
LEMMA AccountLoginGivesUp == ASSUME AccountInv, NEW m \in Managers, LoginGivesUp(m) PROVE AccountInv'
<1>1. AccountTypeOK'
  <2>1. authFile' \in 0..MaxIssued /\ issued' \in 0..MaxIssued /\ upsets' \in 0..MaxUpsets
        /\ transients' \in 0..MaxTransients /\ logins' \in 0..MaxLogins
    BY DEF AccountInv, LoginGivesUp, LoginTo, sharedVars, AccountTypeOK
  <2>2. usable' \subseteq Credentials /\ ageing' \subseteq Credentials
    BY DEF AccountInv, LoginGivesUp, LoginTo, sharedVars, AccountTypeOK
  <2>3. memory' \in [Managers -> 0..MaxIssued] /\ granted' \in [Managers -> 0..MaxIssued]
    BY DEF AccountInv, LoginGivesUp, LoginTo, AccountTypeOK
  <2>4. fileLock' \in {Nobody} \cup (Managers \X {"held", "login"})
    BY DEF AccountInv, LoginGivesUp, LoginTo, sharedVars, AccountTypeOK
  <2>5. held' \in [Managers -> [at : StateLockSteps, kind : {"none", "access", "recover", "disconnect"},
                              using : 0..MaxIssued, tries : 0..2]]
    BY DEF AccountInv, LoginGivesUp, LoginTo, AccountTypeOK, StateLockSteps
  <2>6. login' \in [Managers -> {"none", "grant", "exchange", "lock", "write", "memory", "ending"}]
    BY DEF AccountInv, LoginGivesUp, LoginTo, AccountTypeOK
  <2>7. /\ attached' \in [Managers -> BOOLEAN] /\ stopping' \in [Managers -> BOOLEAN]
        /\ listener' \in [Managers -> BOOLEAN] /\ shut' \in [Managers -> BOOLEAN]
    BY DEF AccountInv, LoginGivesUp, LoginTo, AccountTypeOK
  <2>8. /\ admin' \in [Managers -> {"none", "starting", "cancel", "disconnect", "removing", "close"}]
        /\ abandoned' \in [Managers -> SUBSET (0..MaxIssued)]
    BY DEF AccountInv, LoginGivesUp, LoginTo, AccountTypeOK
  <2> QED
    BY <2>1, <2>2, <2>3, <2>4, <2>5, <2>6, <2>7, <2>8 DEF AccountTypeOK
<1>2. LoginIsOwned'
  BY DEF AccountInv, LoginGivesUp, LoginTo, LoginIsOwned, AccountTypeOK, AdministrationFits
<1>3. WritersAreAlone'
  <2>1. WritersAreAlone /\ fileLock' = fileLock
    BY DEF AccountInv, LoginGivesUp, LoginTo, sharedVars
  <2>2. \A n \in Managers : held'[n].at \in WriteSteps <=> held[n].at \in WriteSteps
    BY DEF AccountInv, LoginGivesUp, LoginTo, WriteSteps
  <2>3. \A n \in Managers : login'[n] = "write" <=> login[n] = "write"
    BY DEF AccountInv, LoginGivesUp, LoginTo, AccountTypeOK
  <2> QED
    BY <2>1, <2>2, <2>3, LockKept
<1>4. AdministrationFits'
  BY DEF AccountInv, LoginGivesUp, LoginTo, AdministrationFits, AccountTypeOK
<1>5. NothingUpset'
  <2> SUFFICES ASSUME upsets' = 0 PROVE SecretsFit' /\ IssuedFits' /\ FileFits'
    BY DEF NothingUpset
  <2>1. SecretsFit /\ IssuedFits /\ FileFits
    BY DEF AccountInv, LoginGivesUp, LoginTo, NothingUpset
  <2>2. SecretsFit'
    <3>1. \A n \in Managers, k \in Places : Secrets(n, k)' \subseteq Secrets(n, k)
      BY DEF AccountInv, LoginGivesUp, LoginTo, Secrets, AccountTypeOK
    <3>2. \A c \in usable : c \in usable' \/ Known(c)
      BY DEF AccountInv, LoginGivesUp, LoginTo, sharedVars
    <3>3. \A c \in usable : Known(c)' => Known(c)
      BY DEF AccountInv, LoginGivesUp, LoginTo, sharedVars, Known, AccountTypeOK
    <3> QED
      BY <2>1, <3>1, <3>2, <3>3, NothingTold
  <2>3. IssuedFits'
    BY <2>1 DEF AccountInv, LoginGivesUp, LoginTo, sharedVars, IssuedFits, AccountTypeOK
  <2>4. FileFits'
    BY <2>1 DEF AccountInv, LoginGivesUp, LoginTo, sharedVars, FileFits, AccountTypeOK
  <2> QED
    BY <2>2, <2>3, <2>4
<1> QED
  BY <1>1, <1>2, <1>3, <1>4, <1>5 DEF AccountInv

\* The login is cancelled.
LEMMA AccountLoginInterrupted == ASSUME AccountInv, NEW m \in Managers, LoginInterrupted(m) PROVE AccountInv'
<1>1. AccountTypeOK'
  <2>1. authFile' \in 0..MaxIssued /\ issued' \in 0..MaxIssued /\ upsets' \in 0..MaxUpsets
        /\ transients' \in 0..MaxTransients /\ logins' \in 0..MaxLogins
    BY DEF AccountInv, LoginInterrupted, LoginTo, AccountTypeOK
  <2>2. usable' \subseteq Credentials /\ ageing' \subseteq Credentials
    BY DEF AccountInv, LoginInterrupted, LoginTo, AccountTypeOK
  <2>3. memory' \in [Managers -> 0..MaxIssued] /\ granted' \in [Managers -> 0..MaxIssued]
    BY DEF AccountInv, LoginInterrupted, LoginTo, AccountTypeOK
  <2>4. fileLock' \in {Nobody} \cup (Managers \X {"held", "login"})
    BY DEF AccountInv, LoginInterrupted, LoginTo, AccountTypeOK
  <2>5. held' \in [Managers -> [at : StateLockSteps, kind : {"none", "access", "recover", "disconnect"},
                              using : 0..MaxIssued, tries : 0..2]]
    BY DEF AccountInv, LoginInterrupted, LoginTo, AccountTypeOK, StateLockSteps
  <2>6. login' \in [Managers -> {"none", "grant", "exchange", "lock", "write", "memory", "ending"}]
    BY DEF AccountInv, LoginInterrupted, LoginTo, AccountTypeOK
  <2>7. /\ attached' \in [Managers -> BOOLEAN] /\ stopping' \in [Managers -> BOOLEAN]
        /\ listener' \in [Managers -> BOOLEAN] /\ shut' \in [Managers -> BOOLEAN]
    BY DEF AccountInv, LoginInterrupted, LoginTo, AccountTypeOK
  <2>8. /\ admin' \in [Managers -> {"none", "starting", "cancel", "disconnect", "removing", "close"}]
        /\ abandoned' \in [Managers -> SUBSET (0..MaxIssued)]
    BY DEF AccountInv, LoginInterrupted, LoginTo, AccountTypeOK
  <2> QED
    BY <2>1, <2>2, <2>3, <2>4, <2>5, <2>6, <2>7, <2>8 DEF AccountTypeOK
<1>2. LoginIsOwned'
  BY DEF AccountInv, LoginInterrupted, LoginTo, LoginIsOwned, AccountTypeOK, AdministrationFits
<1>3. WritersAreAlone'
  <2>0. WritersAreAlone /\ held' = held /\ login'[m] # "write"
        /\ \A n \in Managers : n # m => login'[n] = login[n]
    BY DEF LoginInterrupted, LoginTo, AccountInv, AccountTypeOK
  <2>1. CASE login[m] = "write"
    <3>1. fileLock = <<m, "login">> /\ fileLock' = Nobody
      BY <2>0, <2>1 DEF LoginInterrupted, WritersAreAlone
    <3>2. \A n \in Managers : login'[n] # "write" /\ held[n].at \notin WriteSteps
      BY <2>0, <3>1 DEF WritersAreAlone, WriteSteps
    <3>3. \A n \in Managers : fileLock' # <<n, "held">> /\ fileLock' # <<n, "login">>
      BY <3>1 DEF Nobody
    <3> QED
      BY <2>0, <3>2, <3>3 DEF WritersAreAlone, WriteSteps
  <2>2. CASE login[m] # "write"
    <3>1. fileLock' = fileLock
      BY <2>0, <2>2 DEF LoginInterrupted, WritersAreAlone
    <3>2. \A n \in Managers : login'[n] = "write" <=> login[n] = "write"
      BY <2>0, <2>2
    <3> QED
      BY <2>0, <3>1, <3>2, LockKept
  <2> QED
    BY <2>1, <2>2
<1>4. AdministrationFits'
  BY DEF AccountInv, LoginInterrupted, LoginTo, AdministrationFits, AccountTypeOK
<1>5. NothingUpset'
  <2> SUFFICES ASSUME upsets' = 0 PROVE SecretsFit' /\ IssuedFits' /\ FileFits'
    BY DEF NothingUpset
  <2>1. SecretsFit /\ IssuedFits /\ FileFits
    BY DEF AccountInv, LoginInterrupted, LoginTo, NothingUpset
  <2>2. SecretsFit'
    <3>1. "login" \in Places /\ "abandoned" \in Places
      BY DEF Places
    <3>2. Secrets(m, "login")' = {}
      BY DEF AccountInv, LoginInterrupted, LoginTo, Secrets, AccountTypeOK
    <3>3. Secrets(m, "abandoned")' \subseteq Secrets(m, "abandoned") \cup Secrets(m, "login")
      BY DEF AccountInv, LoginInterrupted, LoginTo, Secrets, AccountTypeOK
    <3>4. \A n \in Managers, l \in Places : m # n \/ "abandoned" # l => Secrets(n, l)' \subseteq Secrets(n, l)
      BY DEF AccountInv, LoginInterrupted, LoginTo, Secrets, AccountTypeOK, Places
    <3>5. usable' = usable
      BY DEF LoginInterrupted
    <3>6. \A c \in usable : Known(c)' => Known(c)
      BY DEF AccountInv, LoginInterrupted, LoginTo, Known, AccountTypeOK
    <3> QED
      BY <2>1, <3>1, <3>2, <3>3, <3>4, <3>5, <3>6, SecretMoved
  <2>3. IssuedFits'
    BY <2>1 DEF AccountInv, LoginInterrupted, LoginTo, IssuedFits, AccountTypeOK
  <2>4. FileFits'
    BY <2>1 DEF AccountInv, LoginInterrupted, LoginTo, FileFits, AccountTypeOK
  <2> QED
    BY <2>2, <2>3, <2>4
<1> QED
  BY <1>1, <1>2, <1>3, <1>4, <1>5 DEF AccountInv

\* Nothing has been asked for.
LEMMA AccountStarts == AccountInit => AccountInv
<1> SUFFICES ASSUME AccountInit PROVE AccountInv
  OBVIOUS
<1>0. /\ \A m \in Managers : held[m] = Free /\ login[m] = "none" /\ ~attached[m] /\ ~listener[m]
      /\ \A m \in Managers : memory[m] = authFile /\ granted[m] = 0 /\ abandoned[m] = {} /\ admin[m] = "none"
  BY DEF AccountInit
<1>1. AccountTypeOK
  <2>1. Free \in HeldRecords
    BY AccountAssumption DEF Free, HeldRecords, StateLockSteps, AccountAssumption
  <2>2. held \in [Managers -> HeldRecords]
    BY <2>1 DEF AccountInit
  <2>3. authFile \in 0..MaxIssued /\ issued \in 0..MaxIssued /\ usable \subseteq Credentials
    BY AccountAssumption DEF AccountInit, AccountAssumption, Credentials
  <2> QED
    BY <2>2, <2>3, AccountAssumption DEF AccountInit, AccountTypeOK, AccountAssumption,
       HeldRecords
<1>2. LoginIsOwned /\ AdministrationFits
  BY <1>0 DEF LoginIsOwned, AdministrationFits, Free
<1>3. WritersAreAlone
  BY <1>0 DEF AccountInit, WritersAreAlone, Nobody, Free
<1>4. SecretsFit
  <2>1. \A m \in Managers, k \in Places : Secrets(m, k) = {}
    BY <1>0 DEF Secrets, Free, Places
  <2> QED
    BY <2>1 DEF SecretsFit
<1>5. IssuedFits
  <2>1. authFile \in Nat /\ issued = authFile /\ \A c \in usable : c <= issued
    BY DEF AccountInit
  <2> QED
    BY <1>0, <2>1 DEF IssuedFits, Free
<1>6. FileFits
  BY DEF AccountInit, FileFits
<1> QED
  BY <1>1, <1>2, <1>3, <1>4, <1>5, <1>6 DEF AccountInv, NothingUpset

\* Nothing happens to the account.
LEMMA AccountRests == ASSUME AccountInv, UNCHANGED accountVars PROVE AccountInv'
<1> USE DEF accountVars, sharedVars, loginVars
<1>1. AccountTypeOK' /\ LoginIsOwned' /\ WritersAreAlone' /\ AdministrationFits'
  BY DEF AccountInv, AccountTypeOK, LoginIsOwned, WritersAreAlone, AdministrationFits
<1>2. SecretsFit => SecretsFit'
  <2>1. \A m \in Managers, k \in Places : Secrets(m, k)' = Secrets(m, k)
    BY DEF Secrets
  <2>2. \A c : Known(c)' <=> Known(c)
    BY DEF Known
  <2> QED
    BY <2>1, <2>2 DEF SecretsFit
<1>3. (IssuedFits => IssuedFits') /\ (FileFits => FileFits')
  BY DEF IssuedFits, FileFits
<1> QED
  BY <1>1, <1>2, <1>3 DEF AccountInv, NothingUpset

\* Every step keeps the account's invariant.
LEMMA AccountStep == AccountInv /\ [AccountNext]_accountVars => AccountInv'
<1> SUFFICES ASSUME AccountInv, [AccountNext]_accountVars PROVE AccountInv'
  OBVIOUS
<1>1. CASE UNCHANGED accountVars
  BY <1>1, AccountRests
<1>2. CASE Age
  BY <1>2, AccountAge
<1>3. ASSUME NEW m \in Managers, AccountWork(m) PROVE AccountInv'
  <2>1. CASE AbandonedEnds(m)
    <3>1. PICK c \in abandoned[m] : ThreadEnds(m, c)
      BY <2>1 DEF AbandonedEnds, ThreadEnds
    <3> QED
      BY <3>1, AccountThreadEnds
  <2>2. CASE LoginStep(m)
    BY <2>2, LoginSteps, AccountLoginAsked, AccountLoginGranted, AccountLoginLocks,
       AccountLoginWritten, AccountLoginGivesUp
  <2>3. CASE Reload(m) \/ LockFile(m) \/ Reread(m) \/ Refreshed(m) \/ Rejected(m) \/ NotRefreshed(m)
    BY <2>3, AccountReload, AccountLockFile, AccountReread, AccountRefreshed, AccountRejected,
       AccountNotRefreshed
  <2>4. CASE Written(m) \/ Erased(m) \/ LoginStarted(m) \/ LoginInterrupted(m) \/ LoginEnds(m)
    BY <2>4, AccountWritten, AccountErased, AccountLoginStarted, AccountLoginInterrupted, AccountLoginEnds
  <2>5. CASE Detached(m) \/ Revoke(m) \/ Removed(m)
    BY <2>5, AccountDetached, AccountRevoke, AccountRemoved
  <2> QED
    BY <1>3, <2>1, <2>2, <2>3, <2>4, <2>5 DEF AccountWork
<1>4. ASSUME NEW m \in Managers, Access(m) \/ Recover(m) \/ StartLogin(m) PROVE AccountInv'
  BY <1>4, AccountAccess, AccountRecover, AccountStartLogin
<1>5. ASSUME NEW m \in Managers, CancelHeld(m) \/ LockTimesOut(m) \/ AnswerLost(m) \/ Crash(m)
      PROVE  AccountInv'
  BY <1>5, AccountCancelHeld, AccountLockTimesOut, AccountAnswerLost, AccountCrash
<1>6. ASSUME NEW m \in Managers, NEW kind \in {"cancel", "disconnect", "close"}, Detach(m, kind)
      PROVE  AccountInv'
  BY <1>6, AccountDetach
<1> QED
  BY <1>1, <1>2, <1>3, <1>4, <1>5, <1>6 DEF AccountNext

-----------------------------------------------------------------------------
(* The runtime of a Copilot broker. *)

\* A session is opened or unknown, and a creation awaits its answer or has lost it;
\* nothing is written late once the process has been stopped.
CreationsFit ==
    /\ late \subseteq unknown /\ asking \cap late = {}
    /\ opened \cap unknown = {}
    /\ stopped \/ sdkProcess = "down" => late = {}
    /\ recordsOnly /\ ending.at \in {"sessions", "unknown", "stop", "after"} => late = {}
    /\ refusing \/ ~sdkClient => asking = {}

\* The close runs on a client it has begun to refuse.
EndingFits ==
    /\ ending # NotEnding => refusing /\ sdkClient
    /\ ending.at = "sessions" => ending.left \subseteq opened
    /\ ending.at = "unknown" => recordsOnly
    /\ stopped => refusing
    /\ ending.at = "after" => sdkProcess = "down" /\ stopped
    /\ sdkClient /\ ~refusing => sdkProcess = "up"
    /\ ~sdkClient => sdkProcess = "down" /\ opened \cup unknown = {}

\* A close in which no call has failed yet leaves nothing behind.
LosslessFits ==
    ~lossy =>
        /\ ending.at # "quit"
        /\ ending.at = "sessions" => opened \subseteq ending.left
        /\ ending.at \in {"unknown", "stop", "after"} => opened = {}
        /\ ending.at = "unknown" => unknown \subseteq ending.left
        /\ ending.at \in {"stop", "after"} /\ recordsOnly => unknown = {}

SdkInv == SdkSafety /\ CreationsFit /\ EndingFits /\ LosslessFits

\* Nothing has been started.
LEMMA SdkStarts == SdkInit => SdkInv
<1> SUFFICES ASSUME SdkInit PROVE SdkInv
  OBVIOUS
<1> USE SdkAssumption DEF SdkAssumption, SdkInit
<1>1. SdkTypeOK
  <2>1. losses \in 0..MaxLosses
    OBVIOUS
  <2>2. ending \in [at : {"none", "begin", "sessions", "unknown", "stop", "quit", "after"}, left : SUBSET Ids]
    BY DEF NotEnding
  <2> QED
    BY <2>1, <2>2 DEF SdkTypeOK
<1>2. SdkSafety
  BY <1>1 DEF SdkSafety, RecordsAreKnown, ForgottenIsClean, RetryFinishes
<1> QED
  BY <1>2 DEF SdkInv, CreationsFit, EndingFits, LosslessFits, NotEnding

\* What an end of the client is made of.
LEMMA SdkEnding ==
  ASSUME SdkInv
  PROVE  /\ ending.at \in {"none", "begin", "sessions", "unknown", "stop", "quit", "after"}
         /\ ending.left \in SUBSET Ids /\ ending = [at |-> ending.at, left |-> ending.left]
         /\ NotEnding = [at |-> "none", left |-> {}]
  BY DEF SdkInv, SdkSafety, SdkTypeOK, NotEnding

USE SdkAssumption DEF SdkAssumption, SdkInv, SdkSafety, Loss, EndingTo, sessionVars

\* The client is started, or its start fails.
LEMMA SdkStartSdk == ASSUME SdkInv, StartSdk PROVE SdkInv'
<1> USE DEF StartSdk
<1>1. SdkTypeOK'
  <2>1. ending' \in [at : {"none", "begin", "sessions", "unknown", "stop", "quit", "after"}, left : SUBSET Ids]
    BY SdkEnding DEF SdkTypeOK
  <2>2. /\ losses' \in 0..MaxLosses /\ opened' \subseteq Ids /\ unknown' \subseteq Ids /\ late' \subseteq Ids
        /\ detached' \subseteq Ids /\ records' \subseteq Ids /\ sdkProcess' \in {"down", "up"}
    BY DEF SdkTypeOK
  <2>3. /\ asking' \subseteq unknown' /\ sdkClient' \in BOOLEAN /\ stopped' \in BOOLEAN
        /\ refusing' \in BOOLEAN /\ recordsOnly' \in BOOLEAN /\ lossy' \in BOOLEAN
    BY DEF SdkTypeOK
  <2> QED
    BY <2>1, <2>2, <2>3 DEF SdkTypeOK
<1>2. RecordsAreKnown' /\ ForgottenIsClean' /\ RetryFinishes'
  BY SdkEnding DEF RecordsAreKnown, ForgottenIsClean, RetryFinishes
<1>3. CreationsFit'
  BY SdkEnding DEF SdkTypeOK, CreationsFit, EndingFits
<1>4. EndingFits' /\ LosslessFits'
  BY SdkEnding DEF EndingFits, LosslessFits
<1> QED
  BY <1>1, <1>2, <1>3, <1>4

\* A session is going to be created.
LEMMA SdkCreateSession == ASSUME SdkInv, NEW i \in Ids, CreateSession(i) PROVE SdkInv'
<1> USE DEF CreateSession
<1>1. SdkTypeOK'
  BY SdkEnding DEF SdkTypeOK
<1>2. RecordsAreKnown' /\ ForgottenIsClean' /\ RetryFinishes'
  BY SdkEnding DEF RecordsAreKnown, ForgottenIsClean, RetryFinishes
<1>3. CreationsFit'
  BY SdkEnding DEF CreationsFit
<1>4. EndingFits' /\ LosslessFits'
  BY SdkEnding DEF EndingFits, LosslessFits
<1> QED
  BY <1>1, <1>2, <1>3, <1>4

\* The creation is answered, or its answer lost.
LEMMA SdkSessionAnswers == ASSUME SdkInv, NEW i \in Ids, SessionAnswers(i) PROVE SdkInv'
<1> USE DEF SessionAnswers
<1>1. SdkTypeOK'
  <2>1. ending' \in [at : {"none", "begin", "sessions", "unknown", "stop", "quit", "after"}, left : SUBSET Ids]
    BY SdkEnding DEF SdkTypeOK
  <2>2. /\ losses' \in 0..MaxLosses /\ opened' \subseteq Ids /\ unknown' \subseteq Ids /\ late' \subseteq Ids
        /\ detached' \subseteq Ids /\ records' \subseteq Ids /\ sdkProcess' \in {"down", "up"}
    BY DEF SdkTypeOK
  <2>3. /\ asking' \subseteq unknown' /\ sdkClient' \in BOOLEAN /\ stopped' \in BOOLEAN
        /\ refusing' \in BOOLEAN /\ recordsOnly' \in BOOLEAN /\ lossy' \in BOOLEAN
    BY DEF SdkTypeOK
  <2> QED
    BY <2>1, <2>2, <2>3 DEF SdkTypeOK
<1>2. RecordsAreKnown' /\ ForgottenIsClean' /\ RetryFinishes'
  BY SdkEnding DEF SdkTypeOK, RecordsAreKnown, ForgottenIsClean, RetryFinishes, CreationsFit, EndingFits, LosslessFits
<1>3. CreationsFit'
  BY SdkEnding DEF SdkTypeOK, CreationsFit, EndingFits
<1>4. EndingFits' /\ LosslessFits'
  BY SdkEnding DEF SdkTypeOK, EndingFits, LosslessFits, CreationsFit
<1> QED
  BY <1>1, <1>2, <1>3, <1>4

\* A record is written late.
LEMMA SdkLateRecord == ASSUME SdkInv, NEW i \in Ids, LateRecord(i) PROVE SdkInv'
<1> USE DEF LateRecord
<1>1. SdkTypeOK'
  BY SdkEnding DEF SdkTypeOK
<1>2. RecordsAreKnown' /\ ForgottenIsClean' /\ RetryFinishes'
  BY SdkEnding DEF RecordsAreKnown, ForgottenIsClean, RetryFinishes
<1>3. CreationsFit'
  BY SdkEnding DEF CreationsFit
<1>4. EndingFits' /\ LosslessFits'
  BY SdkEnding DEF EndingFits, LosslessFits
<1> QED
  BY <1>1, <1>2, <1>3, <1>4

\* close is called.
LEMMA SdkAskEnd == ASSUME SdkInv, AskEnd PROVE SdkInv'
<1> USE DEF AskEnd
<1>1. SdkTypeOK'
  BY SdkEnding DEF SdkTypeOK
<1>2. RecordsAreKnown' /\ ForgottenIsClean' /\ RetryFinishes'
  BY SdkEnding DEF SdkTypeOK, RecordsAreKnown, ForgottenIsClean, RetryFinishes, CreationsFit, EndingFits, LosslessFits
<1>3. CreationsFit'
  BY SdkEnding DEF CreationsFit
<1>4. EndingFits' /\ LosslessFits'
  BY SdkEnding DEF EndingFits, LosslessFits
<1> QED
  BY <1>1, <1>2, <1>3, <1>4

\* The close begins, with a client that may have to be started again.
LEMMA SdkBeginEnd == ASSUME SdkInv, BeginEnd PROVE SdkInv'
<1> USE DEF BeginEnd
<1>1. SdkTypeOK'
  <2>1. ending' \in [at : {"none", "begin", "sessions", "unknown", "stop", "quit", "after"}, left : SUBSET Ids]
    BY SdkEnding DEF SdkTypeOK
  <2>2. /\ losses' \in 0..MaxLosses /\ opened' \subseteq Ids /\ unknown' \subseteq Ids /\ late' \subseteq Ids
        /\ detached' \subseteq Ids /\ records' \subseteq Ids /\ sdkProcess' \in {"down", "up"}
    BY DEF SdkTypeOK
  <2>3. /\ asking' \subseteq unknown' /\ sdkClient' \in BOOLEAN /\ stopped' \in BOOLEAN
        /\ refusing' \in BOOLEAN /\ recordsOnly' \in BOOLEAN /\ lossy' \in BOOLEAN
    BY DEF SdkTypeOK
  <2> QED
    BY <2>1, <2>2, <2>3 DEF SdkTypeOK
<1>2. RecordsAreKnown' /\ ForgottenIsClean' /\ RetryFinishes'
  BY SdkEnding DEF SdkTypeOK, RecordsAreKnown, ForgottenIsClean, RetryFinishes, CreationsFit, EndingFits, LosslessFits
<1>3. CreationsFit'
  BY SdkEnding DEF CreationsFit
<1>4. EndingFits' /\ LosslessFits'
  BY SdkEnding DEF EndingFits, LosslessFits
<1> QED
  BY <1>1, <1>2, <1>3, <1>4

\* A session is closed.
LEMMA SdkCloseSession == ASSUME SdkInv, NEW i \in Ids, CloseSession(i) PROVE SdkInv'
<1> USE DEF CloseSession, Deleted, FoundAbsent, NotDeleted
<1>1. SdkTypeOK'
  <2>1. ending' \in [at : {"none", "begin", "sessions", "unknown", "stop", "quit", "after"}, left : SUBSET Ids]
    BY SdkEnding DEF SdkTypeOK
  <2>2. /\ losses' \in 0..MaxLosses /\ opened' \subseteq Ids /\ unknown' \subseteq Ids /\ late' \subseteq Ids
        /\ detached' \subseteq Ids /\ records' \subseteq Ids /\ sdkProcess' \in {"down", "up"}
    BY DEF SdkTypeOK
  <2>3. /\ asking' \subseteq unknown' /\ sdkClient' \in BOOLEAN /\ stopped' \in BOOLEAN
        /\ refusing' \in BOOLEAN /\ recordsOnly' \in BOOLEAN /\ lossy' \in BOOLEAN
    BY DEF SdkTypeOK
  <2> QED
    BY <2>1, <2>2, <2>3 DEF SdkTypeOK
<1>2. RecordsAreKnown' /\ ForgottenIsClean' /\ RetryFinishes'
  BY SdkEnding DEF SdkTypeOK, RecordsAreKnown, ForgottenIsClean, RetryFinishes, CreationsFit, EndingFits, LosslessFits
<1>3. CreationsFit'
  BY SdkEnding DEF CreationsFit
<1>4. EndingFits' /\ LosslessFits'
  BY SdkEnding DEF EndingFits, LosslessFits
<1> QED
  BY <1>1, <1>2, <1>3, <1>4

\* The sessions are done.
LEMMA SdkSessionsClosed == ASSUME SdkInv, SessionsClosed PROVE SdkInv'
<1> USE DEF SessionsClosed, WriterIsGone
<1>1. SdkTypeOK'
  BY SdkEnding DEF SdkTypeOK
<1>2. RecordsAreKnown' /\ ForgottenIsClean' /\ RetryFinishes'
  BY SdkEnding DEF RecordsAreKnown, ForgottenIsClean, RetryFinishes
<1>3. CreationsFit'
  BY SdkEnding DEF CreationsFit
<1>4. EndingFits' /\ LosslessFits'
  BY SdkEnding DEF EndingFits, LosslessFits
<1> QED
  BY <1>1, <1>2, <1>3, <1>4

\* A session that may exist is cleaned up.
LEMMA SdkCleanUnknown == ASSUME SdkInv, NEW i \in Ids, CleanUnknown(i) PROVE SdkInv'
<1> USE DEF CleanUnknown, Deleted, FoundAbsent, NotDeleted
<1>1. SdkTypeOK'
  <2>1. ending' \in [at : {"none", "begin", "sessions", "unknown", "stop", "quit", "after"}, left : SUBSET Ids]
    BY SdkEnding DEF SdkTypeOK
  <2>2. /\ losses' \in 0..MaxLosses /\ opened' \subseteq Ids /\ unknown' \subseteq Ids /\ late' \subseteq Ids
        /\ detached' \subseteq Ids /\ records' \subseteq Ids /\ sdkProcess' \in {"down", "up"}
    BY DEF SdkTypeOK
  <2>3. asking' \subseteq unknown'
    BY DEF SdkTypeOK, EndingFits, CreationsFit, NotEnding
  <2>4. /\ sdkClient' \in BOOLEAN /\ stopped' \in BOOLEAN
        /\ refusing' \in BOOLEAN /\ recordsOnly' \in BOOLEAN /\ lossy' \in BOOLEAN
    BY DEF SdkTypeOK
  <2> QED
    BY <2>1, <2>2, <2>3, <2>4 DEF SdkTypeOK
<1>2. RecordsAreKnown' /\ ForgottenIsClean' /\ RetryFinishes'
  BY SdkEnding DEF SdkTypeOK, RecordsAreKnown, ForgottenIsClean, RetryFinishes, CreationsFit, EndingFits, LosslessFits
<1>3. CreationsFit'
  BY SdkEnding DEF SdkTypeOK, CreationsFit, EndingFits
<1>4. EndingFits' /\ LosslessFits'
  BY SdkEnding DEF EndingFits, LosslessFits
<1> QED
  BY <1>1, <1>2, <1>3, <1>4

\* The unknown ones are done.
LEMMA SdkUnknownCleaned == ASSUME SdkInv, UnknownCleaned PROVE SdkInv'
<1> USE DEF UnknownCleaned
<1>1. SdkTypeOK'
  BY SdkEnding DEF SdkTypeOK
<1>2. RecordsAreKnown' /\ ForgottenIsClean' /\ RetryFinishes'
  BY SdkEnding DEF RecordsAreKnown, ForgottenIsClean, RetryFinishes
<1>3. CreationsFit'
  BY SdkEnding DEF CreationsFit
<1>4. EndingFits' /\ LosslessFits'
  BY SdkEnding DEF EndingFits, LosslessFits
<1> QED
  BY <1>1, <1>2, <1>3, <1>4

\* The process is stopped, or is not.
LEMMA SdkStopProcess == ASSUME SdkInv, StopProcess PROVE SdkInv'
<1> USE DEF StopProcess
<1>1. SdkTypeOK'
  <2>1. ending' \in [at : {"none", "begin", "sessions", "unknown", "stop", "quit", "after"}, left : SUBSET Ids]
    BY SdkEnding DEF SdkTypeOK
  <2>2. /\ losses' \in 0..MaxLosses /\ opened' \subseteq Ids /\ unknown' \subseteq Ids /\ late' \subseteq Ids
        /\ detached' \subseteq Ids /\ records' \subseteq Ids /\ sdkProcess' \in {"down", "up"}
    BY DEF SdkTypeOK
  <2>3. /\ asking' \subseteq unknown' /\ sdkClient' \in BOOLEAN /\ stopped' \in BOOLEAN
        /\ refusing' \in BOOLEAN /\ recordsOnly' \in BOOLEAN /\ lossy' \in BOOLEAN
    BY DEF SdkTypeOK
  <2> QED
    BY <2>1, <2>2, <2>3 DEF SdkTypeOK
<1>2. RecordsAreKnown' /\ ForgottenIsClean' /\ RetryFinishes'
  BY SdkEnding DEF SdkTypeOK, RecordsAreKnown, ForgottenIsClean, RetryFinishes, CreationsFit, EndingFits, LosslessFits
<1>3. CreationsFit'
  BY SdkEnding DEF CreationsFit
<1>4. EndingFits' /\ LosslessFits'
  BY SdkEnding DEF EndingFits, LosslessFits
<1> QED
  BY <1>1, <1>2, <1>3, <1>4

\* Once more, or the client is forgotten.
LEMMA SdkAfterStop == ASSUME SdkInv, AfterStop PROVE SdkInv'
<1> USE DEF AfterStop
<1>1. SdkTypeOK'
  <2>1. ending' \in [at : {"none", "begin", "sessions", "unknown", "stop", "quit", "after"}, left : SUBSET Ids]
    BY SdkEnding DEF SdkTypeOK
  <2>2. /\ losses' \in 0..MaxLosses /\ opened' \subseteq Ids /\ unknown' \subseteq Ids /\ late' \subseteq Ids
        /\ detached' \subseteq Ids /\ records' \subseteq Ids /\ sdkProcess' \in {"down", "up"}
    BY DEF SdkTypeOK
  <2>3. /\ asking' \subseteq unknown' /\ sdkClient' \in BOOLEAN /\ stopped' \in BOOLEAN
        /\ refusing' \in BOOLEAN /\ recordsOnly' \in BOOLEAN /\ lossy' \in BOOLEAN
    BY DEF SdkTypeOK
  <2> QED
    BY <2>1, <2>2, <2>3 DEF SdkTypeOK
<1>2. RecordsAreKnown' /\ ForgottenIsClean' /\ RetryFinishes'
  BY SdkEnding DEF SdkTypeOK, RecordsAreKnown, ForgottenIsClean, RetryFinishes, CreationsFit, EndingFits, LosslessFits
<1>3. CreationsFit'
  BY SdkEnding DEF SdkTypeOK, CreationsFit, EndingFits
<1>4. EndingFits' /\ LosslessFits'
  BY SdkEnding DEF SdkTypeOK, EndingFits, LosslessFits, CreationsFit
<1> QED
  BY <1>1, <1>2, <1>3, <1>4

HIDE SdkAssumption DEF SdkAssumption, SdkInv, SdkSafety, Loss, EndingTo, sessionVars

\* Every step of the runtime keeps its invariant.
LEMMA SdkStep == SdkInv /\ [SdkNext]_sdkVars => SdkInv'
<1> SUFFICES ASSUME SdkInv, [SdkNext]_sdkVars PROVE SdkInv'
  OBVIOUS
<1>1. CASE UNCHANGED sdkVars
  BY <1>1
  DEF sdkVars, sessionVars, SdkInv, SdkSafety, SdkTypeOK, RecordsAreKnown, ForgottenIsClean,
      RetryFinishes, CreationsFit, EndingFits, LosslessFits
<1>2. CASE SdkNext
  BY <1>2, SdkStartSdk, SdkCreateSession, SdkSessionAnswers, SdkLateRecord, SdkAskEnd, SdkBeginEnd,
     SdkCloseSession, SdkSessionsClosed, SdkCleanUnknown, SdkUnknownCleaned, SdkStopProcess, SdkAfterStop
  DEF SdkNext, SdkWork
<1> QED
  BY <1>1, <1>2

-----------------------------------------------------------------------------
(* The supervisor of the server. *)

\* Where the thread is says whether it runs, and has started its server.
RunFits ==
    /\ runScheduled => worker = "scheduled"
    /\ running <=> worker \in {"loop", "bind", "publish", "serving", "started", "over", "decide", "leaving"}
    /\ worker = "started" => server = "started"

SupervisorInv == SupervisorSafety /\ RunFits

\* No thread has been started.
LEMMA SupervisorStarts == SupervisorInit => SupervisorInv
<1> SUFFICES ASSUME SupervisorInit PROVE SupervisorInv
  OBVIOUS
<1> USE SupervisorAssumption DEF SupervisorAssumption, SupervisorInit
<1>1. /\ runs \in 0..MaxRuns /\ loaded \in 0..MaxRestarts /\ restartGeneration \in 0..MaxRestarts
      /\ readySettings \in -1..MaxRestarts /\ clicks \in 0..MaxClicks
      /\ browser \in [settings : -1..MaxRestarts, generation : -1..MaxRestarts]
  BY DEF NoBrowser
<1>2. SupervisorTypeOK
  BY <1>1 DEF SupervisorTypeOK
<1> QED
  BY <1>2 DEF SupervisorInv, SupervisorSafety, NothingIsOverdue, OneRun, RunFits

USE SupervisorAssumption DEF SupervisorAssumption, SupervisorInv, SupervisorSafety, runVars, serverVars

\* The tray starts a thread.
LEMMA SupervisorTrayStarts == ASSUME SupervisorInv, TrayStarts PROVE SupervisorInv'
<1> USE DEF TrayStarts, StartServer, ThreadIsAlive
<1>1. SupervisorTypeOK'
  <2>1. runs' \in 0..MaxRuns
    BY DEF SupervisorTypeOK
  <2>2. runScheduled' \in BOOLEAN /\ worker' \in {"none", "ended", "scheduled"}
    BY Zenon DEF SupervisorTypeOK
  <2> QED
    BY <2>1, <2>2 DEF SupervisorTypeOK
<1> QED
  BY <1>1 DEF RunFits, OneRun, NothingIsOverdue, Overdue

\* The tray is going to ask for a restart.
LEMMA SupervisorTrayRestarts == ASSUME SupervisorInv, TrayRestarts PROVE SupervisorInv'
<1> USE DEF TrayRestarts, ThreadIsAlive
<1>1. SupervisorTypeOK'
  BY DEF SupervisorTypeOK
<1> QED
  BY <1>1 DEF RunFits, OneRun, NothingIsOverdue, Overdue

\* It asks: a published server has to exit.
LEMMA SupervisorTrayAsks == ASSUME SupervisorInv, TrayAsks PROVE SupervisorInv'
<1> USE DEF TrayAsks, RequestRestart
<1>1. SupervisorTypeOK'
  BY DEF SupervisorTypeOK
<1>2. RunFits' /\ OneRun'
  BY DEF RunFits, OneRun
<1>3. NothingIsOverdue'
  BY DEF SupervisorTypeOK, RunFits, OneRun, NothingIsOverdue, Overdue
<1> QED
  BY <1>1, <1>2, <1>3

\* The server's own runtime asks.
LEMMA SupervisorRuntimeAsks == ASSUME SupervisorInv, RuntimeAsks PROVE SupervisorInv'
<1> USE DEF RuntimeAsks, RequestRestart
<1>1. SupervisorTypeOK'
  BY DEF SupervisorTypeOK
<1>2. RunFits' /\ OneRun'
  BY DEF RunFits, OneRun
<1>3. NothingIsOverdue'
  BY DEF SupervisorTypeOK, RunFits, OneRun, NothingIsOverdue, Overdue
<1> QED
  BY <1>1, <1>2, <1>3

\* The application quits.
LEMMA SupervisorQuit == ASSUME SupervisorInv, Quit PROVE SupervisorInv'
<1> USE DEF Quit, RequestStop
<1>1. SupervisorTypeOK'
  BY DEF SupervisorTypeOK
<1> QED
  BY <1>1 DEF RunFits, OneRun, NothingIsOverdue, Overdue

\* The Admin page is asked for.
LEMMA SupervisorOpenAdmin == ASSUME SupervisorInv, OpenAdmin PROVE SupervisorInv'
<1> USE DEF OpenAdmin, NoBrowser
<1>1. SupervisorTypeOK'
  BY DEF SupervisorTypeOK
<1> QED
  BY <1>1 DEF RunFits, OneRun, NothingIsOverdue, Overdue

\* A browser thread comes to its end.
LEMMA SupervisorBrowserOpens == ASSUME SupervisorInv, BrowserOpens PROVE SupervisorInv'
<1> USE DEF BrowserOpens, Eligible, NoBrowser
<1>1. SupervisorTypeOK'
  BY DEF SupervisorTypeOK
<1> QED
  BY <1>1 DEF RunFits, OneRun, NothingIsOverdue, Overdue

\* The thread begins to run, or another instance is running.
LEMMA SupervisorRunBegins == ASSUME SupervisorInv, RunBegins PROVE SupervisorInv'
<1> USE DEF RunBegins, RequestStop, WorkerTo
<1>1. SupervisorTypeOK'
  BY DEF SupervisorTypeOK
<1>2. RunFits' /\ OneRun'
  <2>1. CASE RequestStop /\ WorkerTo("ended") /\ UNCHANGED running
    BY <2>1 DEF RunFits, OneRun
  <2>2. CASE /\ runScheduled' = FALSE /\ running' = ~stopEvent
             /\ WorkerTo(IF stopEvent THEN "ended" ELSE "loop") /\ UNCHANGED <<stopEvent, shouldExit>>
    BY <2>2 DEF RunFits, OneRun
  <2> QED
    BY <2>1, <2>2
<1>3. NothingIsOverdue'
  BY DEF NothingIsOverdue, Overdue
<1> QED
  BY <1>1, <1>2, <1>3

\* A turn of the loop.
LEMMA SupervisorLoadSettings == ASSUME SupervisorInv, LoadSettings PROVE SupervisorInv'
<1> USE DEF LoadSettings
<1>1. SupervisorTypeOK'
  BY DEF SupervisorTypeOK
<1> QED
  BY <1>1 DEF RunFits, OneRun, NothingIsOverdue, Overdue

\* The port is reserved.
LEMMA SupervisorBind == ASSUME SupervisorInv, Bind PROVE SupervisorInv'
<1> USE DEF Bind, WorkerTo
<1>1. SupervisorTypeOK'
  BY DEF SupervisorTypeOK
<1> QED
  BY <1>1 DEF RunFits, OneRun, NothingIsOverdue, Overdue

\* The server is published.
LEMMA SupervisorPublishServer == ASSUME SupervisorInv, PublishServer PROVE SupervisorInv'
<1> USE DEF PublishServer, WorkerTo, Overdue
<1>1. SupervisorTypeOK'
  BY DEF SupervisorTypeOK
<1> QED
  BY <1>1 DEF RunFits, OneRun, NothingIsOverdue, Overdue

\* It listens.
LEMMA SupervisorServerStarts == ASSUME SupervisorInv, ServerStarts PROVE SupervisorInv'
<1> USE DEF ServerStarts, WorkerTo
<1>1. SupervisorTypeOK'
  BY DEF SupervisorTypeOK
<1> QED
  BY <1>1 DEF RunFits, OneRun, NothingIsOverdue, Overdue

\* Its settings are ready.
LEMMA SupervisorOnStarted == ASSUME SupervisorInv, OnStarted PROVE SupervisorInv'
<1> USE DEF OnStarted, WorkerTo, Overdue, NoBrowser
<1>1. SupervisorTypeOK'
  <2>1. worker' = "serving" /\ loaded \in -1..MaxRestarts
    BY DEF SupervisorTypeOK
  <2>2. CASE Overdue
    <3>1. UNCHANGED <<readySettings, browser, autoOpened>>
      BY <2>2, Zenon
    <3> QED
      BY <2>1, <3>1 DEF SupervisorTypeOK
  <2>3. CASE ~Overdue
    <3>1. /\ readySettings' = loaded /\ autoOpened' \in {autoOpened, TRUE}
          /\ browser' \in {browser, [settings |-> loaded, generation |-> loaded]}
      BY <2>3, Zenon
    <3>2. autoOpened' \in BOOLEAN
      BY <3>1, Zenon DEF SupervisorTypeOK
    <3> QED
      BY <2>1, <3>1, <3>2 DEF SupervisorTypeOK
  <2> QED
    BY <2>2, <2>3
<1> QED
  BY <1>1 DEF RunFits, OneRun, NothingIsOverdue, Overdue

\* It leaves.
LEMMA SupervisorServerExits == ASSUME SupervisorInv, NEW x \in BOOLEAN, ServerExits(x) PROVE SupervisorInv'
<1> USE DEF ServerExits, WorkerTo
<1>1. SupervisorTypeOK'
  BY DEF SupervisorTypeOK
<1> QED
  BY <1>1 DEF RunFits, OneRun, NothingIsOverdue, Overdue

\* It is forgotten.
LEMMA SupervisorUnpublish == ASSUME SupervisorInv, Unpublish PROVE SupervisorInv'
<1> USE DEF Unpublish
<1>1. SupervisorTypeOK'
  <2>1. readySettings' \in -1..MaxRestarts
    BY DEF SupervisorTypeOK
  <2>2. shouldExit' \in BOOLEAN /\ server' = "none" /\ worker' \in {"decide", "leaving"}
    BY Zenon
  <2> QED
    BY <2>1, <2>2 DEF SupervisorTypeOK
<1> QED
  BY <1>1 DEF RunFits, OneRun, NothingIsOverdue, Overdue

\* Another turn, or the end.
LEMMA SupervisorDecide == ASSUME SupervisorInv, Decide PROVE SupervisorInv'
<1> USE DEF Decide, WorkerTo, MayRestart
<1>1. SupervisorTypeOK'
  BY DEF SupervisorTypeOK
<1> QED
  BY <1>1 DEF RunFits, OneRun, NothingIsOverdue, Overdue

\* The thread ends.
LEMMA SupervisorRunEnds == ASSUME SupervisorInv, RunEnds PROVE SupervisorInv'
<1> USE DEF RunEnds, WorkerTo
<1>1. SupervisorTypeOK'
  BY DEF SupervisorTypeOK
<1> QED
  BY <1>1 DEF RunFits, OneRun, NothingIsOverdue, Overdue

HIDE SupervisorAssumption DEF SupervisorAssumption, SupervisorInv, SupervisorSafety, runVars, serverVars

\* Every step of the supervisor keeps its invariant.
LEMMA SupervisorStep == SupervisorInv /\ [SupervisorNext]_supervisorVars => SupervisorInv'
<1> SUFFICES ASSUME SupervisorInv, [SupervisorNext]_supervisorVars PROVE SupervisorInv'
  OBVIOUS
<1>1. CASE UNCHANGED supervisorVars
  BY <1>1
  DEF supervisorVars, runVars, serverVars, SupervisorInv, SupervisorSafety, SupervisorTypeOK,
      NothingIsOverdue, OneRun, RunFits, Overdue
<1>2. CASE SupervisorNext
  BY <1>2, SupervisorTrayStarts, SupervisorTrayRestarts, SupervisorTrayAsks, SupervisorRuntimeAsks, SupervisorQuit, SupervisorOpenAdmin, SupervisorBrowserOpens, SupervisorRunBegins,
     SupervisorLoadSettings, SupervisorBind, SupervisorPublishServer, SupervisorServerStarts, SupervisorOnStarted, SupervisorServerExits, SupervisorUnpublish, SupervisorDecide, SupervisorRunEnds
  DEF SupervisorNext, SupervisorWork
<1> QED
  BY <1>1, <1>2

-----------------------------------------------------------------------------
(* The results. *)

\* Whatever managers, logins and administrations do in several processes, with lost
\* answers and crashes: one process writes the credentials at a time, a login's
\* credentials belong to its manager, and unless something upset them the file holds
\* credentials the service accepts (providers/openai_codex/auth.py).
THEOREM AccountIsSafe == AccountInit /\ [][AccountNext]_accountVars => []AccountSafety
<1> QED
  BY AccountImplied, AccountStarts, AccountStep, PTL

\* Whatever calls of the SDK fail: a record that is or may yet be written is known, a
\* runtime that has forgotten its client has left no process and no record, and a close
\* in which no call fails finishes (providers/github_copilot/sdk.py).
THEOREM SdkIsSafe == SdkInit /\ [][SdkNext]_sdkVars => []SdkSafety
<1>1. SdkInv => SdkSafety
  BY DEF SdkInv
<1> QED
  BY <1>1, SdkStarts, SdkStep, PTL

\* One thread runs the server at a time and alone publishes it, and a published server
\* knows of every accepted stop and restart (cli/commands.py, cli/desktop.py).
THEOREM SupervisorIsSafe == SupervisorInit /\ [][SupervisorNext]_supervisorVars => []SupervisorSafety
<1>1. SupervisorInv => SupervisorSafety
  BY DEF SupervisorInv
<1> QED
  BY <1>1, SupervisorStarts, SupervisorStep, PTL

(* The parts together, as MCAccounts composes them. *)

PartsInv ==
    IInv /\ AccountInv /\ CopilotInv /\ SdkInv /\ SupervisorInv

\* A step of one part leaves the others as they are.
LEMMA PartsStep == PartsInv /\ [AccountsNext /\ UNCHANGED part]_<<allVars, part>> => PartsInv'
<1> SUFFICES ASSUME PartsInv, [AccountsNext /\ UNCHANGED part]_<<allVars, part>> PROVE PartsInv'
  OBVIOUS
<1>1. /\ [Next]_vars /\ [AccountNext]_accountVars /\ [CopilotNext]_copilotVars
      /\ [SdkNext]_sdkVars /\ [SupervisorNext]_supervisorVars
  BY DEF AccountsNext, allVars
<1> QED
  BY <1>1, StepNext, AccountStep, CopilotStep, SdkStep, SupervisorStep DEF PartsInv

\* The inductive invariants hold together.
LEMMA PartsSafe == AccountsSafe => []PartsInv
<1>1. AccountsInit => PartsInv
  BY Initially, AccountStarts, CopilotStarts, SdkStarts, SupervisorStarts
     DEF AccountsInit, AccountsStart, PartsInv
<1> QED
  BY <1>1, PartsStep, PTL DEF AccountsSafe

\* Whatever is cancelled, fails or crashes on the way: credentials in use are not
\* given away or left behind, a broker that is used is not closed and one that runs
\* has an owner, and one server runs at a time (providers/openai_codex/auth.py,
\* providers/github_copilot, cli/commands.py, messaging/session/store.py).
THEOREM AccountsCorrectness == AccountsSpec => []AccountsSafety
<1>1. PartsInv => AccountsSafety
  BY AccountImplied DEF PartsInv, IInv, CopilotInv, SdkInv, SupervisorInv, AccountsSafety
<1> QED
  BY <1>1, PartsSafe, PTL DEF AccountsSpec
=============================================================================
