------------------------------ MODULE UsageStore ------------------------------
(***************************************************************************)
(* Usage records on their way to the disk: the buffering sink              *)
(* (application/usage/sink.py), the database singleton and its writer task *)
(* (runtime/usage_sqlite.py), and their shutdown by the application        *)
(* runtime (runtime/application.py).  A batch in flight waits for the      *)
(* database, which is opened by whoever asks for it first.  Writes run in  *)
(* worker threads; a cancelled task abandons its thread, which goes on.    *)
(*                                                                         *)
(* Records are numbered in the order of their start; requests and          *)
(* optimizations are treated alike.                                        *)
(***************************************************************************)
EXTENDS Integers, Sequences, FiniteSets, SequencesExt

CONSTANTS
    BatchSize,      \* flush_batch_size
    MaxRows,        \* max_rows of the retention
    MaxRecords,     \* bound: records
    MaxReads        \* bound: reads of the admin page while there is no database

ASSUME UsageAssumption ==
    /\ BatchSize \in Nat \ {0} /\ MaxRows \in Nat /\ MaxRecords \in Nat /\ MaxReads \in Nat

Records == 1..MaxRecords

VARIABLES
    recorded,   \* number of records so far
    unflushed,  \* _pending_requests
    flusher,    \* what the flush loop awaits
    inFlight,   \* the batch each flush has drained
    sinkClose,  \* how far the sink's close has come
    database,   \* the singleton
    opener,     \* who opens it, under its lock
    reads,      \* reads of the admin page
    batches,    \* the database's queue
    writer,     \* what the writer task awaits
    writing,    \* the batch it has taken
    abandoned,  \* batches whose thread was abandoned
    rows,       \* records committed
    aged,       \* records older than the retention
    failed,     \* records whose flush or write failed
    dropped     \* records given up by the shutdown

usageVars == <<recorded, unflushed, flusher, inFlight, sinkClose, database, opener, reads,
               batches, writer, writing, abandoned, rows, aged, failed, dropped>>

Flushers == {"loop", "close"}
Shutdown == {"stopping", "flushing", "flushed", "draining", "raised", "closed"}
RecordsOf(s) == UNION ToSet(s)

UsageTypeOK ==
    /\ recorded \in 0..MaxRecords
    /\ unflushed \in Seq(Records) /\ IsInjective(unflushed)
    /\ flusher \in {"none", "sleeping", "flushing", "ended"}
    /\ inFlight \in [Flushers -> SUBSET Records]
    /\ sinkClose \in {"open"} \cup Shutdown
    /\ database \in {"none", "migrating", "open", "closing"}
    /\ opener \in Flushers \cup {"nobody", "reader"}
    /\ opener # "nobody" <=> database = "migrating"
    /\ reads \in 0..MaxReads /\ batches \in Seq(SUBSET Records)
    /\ writer \in {"none", "waiting", "taken", "thread", "cleaning", "ended"} /\ writing \in SUBSET Records
    /\ abandoned \in SUBSET SUBSET Records
    /\ rows \subseteq Records /\ aged \subseteq Records
    /\ failed \subseteq Records /\ dropped \subseteq Records

UsageInit ==
    /\ recorded = 0 /\ unflushed = <<>>
    /\ flusher = "none" /\ inFlight = [f \in Flushers |-> {}] /\ sinkClose = "open"
    /\ database = "none" /\ opener = "nobody" /\ reads = 0
    /\ batches = <<>> /\ writer = "none" /\ writing = {} /\ abandoned = {}
    /\ rows = {} /\ aged = {} /\ failed = {} /\ dropped = {}

sinkVars == <<recorded, unflushed, flusher, inFlight, sinkClose>>
writerVars == <<batches, writer, writing, abandoned, rows, aged>>

-----------------------------------------------------------------------------
(* The sink. *)

\* record_request; the first record creates the sink and its flush loop.
Record ==
    /\ recorded < MaxRecords
    /\ recorded' = recorded + 1
    /\ unflushed' = Append(unflushed, recorded + 1)
    /\ flusher' = IF flusher = "none" THEN "sleeping" ELSE flusher
    /\ UNCHANGED <<inFlight, sinkClose, database, opener, reads, writerVars, failed, dropped>>

\* A batch takes what there is, and no more than BatchSize.
Drained == IF BatchSize < Len(unflushed) THEN BatchSize ELSE Len(unflushed)
Batch == ToSet(SubSeq(unflushed, 1, Drained))

\* Mutant: the records that did not fit into the batch are dropped as well.
RestEmpty == <<>>

Rest == SubSeq(unflushed, Drained + 1, Len(unflushed))

\* _drain_pending, up to the await of on_flush.
Drain(f) ==
    /\ inFlight' = [inFlight EXCEPT ![f] = Batch]
    /\ unflushed' = Rest

\* The loop's interval is over.
Tick ==
    /\ flusher = "sleeping" /\ sinkClose = "open" /\ unflushed # <<>>
    /\ Drain("loop") /\ flusher' = "flushing"
    /\ UNCHANGED <<recorded, sinkClose, database, opener, reads, writerVars, failed, dropped>>

\* The flush f is over; the loop sleeps again.
EndFlush(f) ==
    /\ inFlight' = [inFlight EXCEPT ![f] = {}]
    /\ flusher' = IF f = "loop" THEN "sleeping" ELSE flusher
    /\ sinkClose' = IF f = "close" THEN "flushed" ELSE sinkClose
    /\ UNCHANGED <<recorded, unflushed>>

\* write_batch; a database that is being closed drops the batch.
Deliver(f) ==
    /\ inFlight[f] # {} /\ database \in {"open", "closing"}
    /\ IF database = "open"
       THEN batches' = Append(batches, inFlight[f]) /\ UNCHANGED dropped
       ELSE dropped' = dropped \cup inFlight[f] /\ UNCHANGED batches
    /\ EndFlush(f)
    /\ UNCHANGED <<database, opener, reads, writer, writing, abandoned, rows, aged, failed>>

-----------------------------------------------------------------------------
(* The database. *)

\* get_usage_database creates the instance under its lock.
BeginOpen(who) ==
    /\ database = "none"
    /\ who \in Flushers => inFlight[who] # {}
    /\ who = "reader" => reads < MaxReads /\ sinkClose = "open"
    /\ database' = "migrating" /\ opener' = who
    /\ reads' = IF who = "reader" THEN reads + 1 ELSE reads
    /\ UNCHANGED <<sinkVars, writerVars, failed, dropped>>

\* The migration has run and the writer task is started.
Migrated ==
    /\ database = "migrating"
    /\ database' = "open" /\ opener' = "nobody"
    /\ writer' = "waiting"
    /\ UNCHANGED <<sinkVars, reads, batches, writing, abandoned, rows, aged, failed, dropped>>

\* The migration raised: the opener's batch is lost.
MigrationFails ==
    /\ database = "migrating"
    /\ database' = "none" /\ opener' = "nobody"
    /\ IF opener \in Flushers
       THEN failed' = failed \cup inFlight[opener] /\ EndFlush(opener)
       ELSE UNCHANGED <<failed, sinkVars>>
    /\ UNCHANGED <<reads, writerVars, dropped>>

Take ==
    /\ writer = "waiting" /\ batches # <<>> /\ database = "open"
    /\ writing' = Head(batches) /\ batches' = Tail(batches)
    /\ writer' = "taken"
    /\ UNCHANGED <<sinkVars, database, opener, reads, abandoned, rows, aged, failed, dropped>>

StartThread ==
    /\ writer = "taken" /\ database = "open"
    /\ writer' = "thread"
    /\ UNCHANGED <<sinkVars, database, opener, reads, batches, writing, abandoned, rows, aged,
                   failed, dropped>>

Committed(b) == rows \cup b

\* The thread has committed the batch, or failed; now and then the old rows are
\* cleaned up next.
EndWrite(ok) ==
    /\ writer = "thread"
    /\ rows' = IF ok THEN Committed(writing) ELSE rows
    /\ failed' = IF ok THEN failed ELSE failed \cup writing
    /\ writing' = {}
    /\ writer' \in IF ok THEN {"waiting", "cleaning"} ELSE {"waiting"}
    /\ UNCHANGED <<sinkVars, database, opener, reads, batches, abandoned, aged, dropped>>

\* An abandoned thread ends, or fails.
EndAbandoned(b, ok) ==
    /\ b \in abandoned
    /\ abandoned' = abandoned \ {b}
    /\ rows' = IF ok THEN Committed(b) ELSE rows
    /\ failed' = IF ok THEN failed ELSE failed \cup b
    /\ UNCHANGED <<sinkVars, database, opener, reads, batches, writer, writing, aged, dropped>>

\* The rows that are not older than the n-th newest one.
Newest(n) == {r \in rows : Cardinality({q \in rows : q > r}) < n}

\* _sync_retention replaces both placeholders of its statement by the cutoff time, so
\* that the number of rows to keep is in the order of 10^12.
KeptRows == MaxRecords + 1

Retain ==
    /\ writer = "cleaning" /\ database = "open"
    /\ rows' = rows \ {r \in aged : r \notin Newest(KeptRows)}
    /\ writer' = "waiting"
    /\ UNCHANGED <<sinkVars, database, opener, reads, batches, writing, abandoned, aged,
                   failed, dropped>>

\* Time passes: the oldest record that was not yet is older than the retention.
Age ==
    /\ aged # 1..recorded
    /\ aged' = aged \cup {Cardinality(aged) + 1}
    /\ UNCHANGED <<sinkVars, database, opener, reads, batches, writer, writing, abandoned, rows,
                   failed, dropped>>

-----------------------------------------------------------------------------
(* The shutdown. *)

\* close of the sink cancels the loop: a batch in flight is given up, and so is an
\* opening of the database.
CloseSink ==
    /\ sinkClose = "open"
    /\ sinkClose' = "stopping"
    /\ flusher' = "ended"
    /\ dropped' = dropped \cup inFlight["loop"]
    /\ inFlight' = [inFlight EXCEPT !["loop"] = {}]
    /\ IF opener = "loop" THEN database' = "none" /\ opener' = "nobody"
       ELSE UNCHANGED <<database, opener>>
    /\ UNCHANGED <<recorded, unflushed, reads, writerVars, failed>>

\* The last flush, of one batch.
LastFlush ==
    /\ sinkClose = "stopping"
    /\ IF unflushed = <<>>
       THEN sinkClose' = "flushed" /\ UNCHANGED <<unflushed, inFlight>>
       ELSE sinkClose' = "flushing" /\ Drain("close")
    /\ UNCHANGED <<recorded, flusher, database, opener, reads, writerVars, failed, dropped>>

\* close_usage_database has the lock.
CloseDatabase ==
    /\ sinkClose = "flushed" /\ database # "migrating"
    /\ IF database = "none"
       THEN sinkClose' = "closed" /\ UNCHANGED <<database, writer, writing, abandoned, dropped>>
       ELSE /\ sinkClose' = "draining" /\ database' = "closing"
            /\ writer' = "ended" /\ writing' = {}
            /\ abandoned' = IF writer = "thread" THEN abandoned \cup {writing} ELSE abandoned
            /\ dropped' = IF writer = "taken" THEN dropped \cup writing ELSE dropped
    /\ UNCHANGED <<recorded, unflushed, flusher, inFlight, opener, reads, batches, rows, aged, failed>>

\* One more batch of the queue is written, or close raises.
DrainOne(ok) ==
    /\ sinkClose = "draining" /\ batches # <<>>
    /\ rows' = IF ok THEN Committed(Head(batches)) ELSE rows
    /\ failed' = IF ok THEN failed ELSE failed \cup Head(batches)
    /\ batches' = Tail(batches)
    /\ sinkClose' = IF ok THEN sinkClose ELSE "raised"
    /\ UNCHANGED <<recorded, unflushed, flusher, inFlight, database, opener, reads, writer,
                   writing, abandoned, aged, dropped>>

\* The runtime's close is called again, from the sink on.
CloseAgain ==
    /\ sinkClose = "raised"
    /\ sinkClose' = "stopping"
    /\ UNCHANGED <<recorded, unflushed, flusher, inFlight, database, opener, reads, writerVars,
                   failed, dropped>>

EndClose ==
    /\ sinkClose = "draining" /\ batches = <<>>
    /\ sinkClose' = "closed" /\ database' = "none" /\ writer' = "none"
    /\ UNCHANGED <<recorded, unflushed, flusher, inFlight, opener, reads, batches, writing,
                   abandoned, rows, aged, failed, dropped>>

-----------------------------------------------------------------------------
UsageWork ==
    \/ Tick \/ \E f \in Flushers : Deliver(f) \/ BeginOpen(f)
    \/ Migrated \/ MigrationFails \/ Take \/ StartThread \/ Retain
    \/ \E ok \in BOOLEAN : EndWrite(ok) \/ DrainOne(ok)
    \/ \E ok \in BOOLEAN, b \in abandoned : EndAbandoned(b, ok)
    \/ LastFlush \/ CloseDatabase \/ EndClose

UsageNext == UsageWork \/ Record \/ Age \/ CloseSink \/ CloseAgain \/ BeginOpen("reader")

UsageSpec == UsageInit /\ [][UsageNext]_usageVars

\* Tasks and threads are run, whatever comes of their work.
UsageFairness == WF_usageVars(UsageWork)

-----------------------------------------------------------------------------
(* Properties. *)

\* Until the shutdown begins, every record is somewhere on its way, in the file,
\* or its flush or write has failed; afterwards it may have been given up as well.
RecordsAreAccounted ==
    1..recorded = ToSet(unflushed) \cup inFlight["loop"] \cup inFlight["close"]
        \cup RecordsOf(batches) \cup writing \cup (UNION abandoned)
        \cup rows \cup failed \cup dropped

NothingDroppedBefore == sinkClose = "open" => dropped = {}

\* When the shutdown has returned, no task of the database is left, and whatever the
\* queue held has been written: only a thread that was abandoned may still write.
ClosedIsDrained ==
    sinkClose = "closed" => batches = <<>> /\ writing = {} /\ writer = "none" /\ database = "none"

UsageSafety == UsageTypeOK /\ RecordsAreAccounted /\ NothingDroppedBefore /\ ClosedIsDrained

\* Unless it is shut down, the sink comes to rest with everything written or
\* failed; and a shutdown ends.
NobodyBuffers ==
    /\ sinkClose \in {"open", "raised", "closed"} /\ abandoned = {}
    /\ sinkClose = "open" => unflushed = <<>> /\ inFlight["loop"] = {} /\ batches = <<>> /\ writing = {}

\* What GUIDE.md promises: 90 days or 100,000 rows.  A cleanup leaves no row that
\* is both older than the retention and beyond the newest MaxRows.
RetentionIsKept ==
    [][Retain => \A r \in rows' : r \in aged => Cardinality({n \in rows' : n > r}) < MaxRows]_usageVars
=============================================================================
