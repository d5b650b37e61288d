------------------------------ MODULE Pipeline ------------------------------
(***************************************************************************)
(* The runs of one source: Run, the bounded queue and the writer goroutine *)
(* of src/internal/collect/runner.go, on top of the batching Writer of     *)
(* src/internal/db/writer.go.                                              *)
(*                                                                         *)
(* Three kinds of goroutine interleave.  The emitters are the goroutines   *)
(* an adapter's Collect uses; each calls Emit or PutState, may block in    *)
(* the select of send, and finally returns.  The writer goroutine receives *)
(* from the queue, batches, and flushes when the batch is full, when the   *)
(* ticker fires, or when the queue is closed.  Run starts both, waits for  *)
(* Collect, closes the queue and writes the run's row in _runs.  SIGINT    *)
(* cancels the context at any moment, the database may refuse an           *)
(* operation, and the process may die between any two steps.               *)
(*                                                                         *)
(* A record stands for its uniqueness key; a batch is the set of its       *)
(* records.  A resume state is the set of records it covers: an adapter    *)
(* saves a state once Emit has returned nil for the records before it.     *)
(***************************************************************************)
EXTENDS Naturals, Sequences, FiniteSets

CONSTANTS
    Emitters,    \* goroutines of one Collect call that use the sink
    Record,      \* every record the source can produce
    DataRecord,  \* those whose table name does not start with "_"
    Replaced,    \* those of tables that replace a row with the same key
    Batches,     \* the batches an adapter may pass to Emit
    QueueSize,   \* capacity of the channel (64 unless set)
    BatchSize,   \* records per transaction
    MaxRecords,  \* --max-records, 0 for no limit
    Faults,      \* database operations that may fail: "load", "flush", "finish"
    NoState,     \* no state in a message, no row in _source_state
    MaxCalls,    \* bound: calls of Emit and PutState in all runs
    MaxRuns      \* bound: runs of the source

ASSUME RecordAssumption == IsFiniteSet(Record) /\ DataRecord \subseteq Record /\ Replaced \subseteq Record
ASSUME EmittersAssumption == IsFiniteSet(Emitters)
ASSUME BatchesAssumption == Batches \subseteq (SUBSET Record) \ {{}}
ASSUME SizeAssumption == QueueSize \in Nat \ {0} /\ BatchSize \in Nat \ {0}
ASSUME LimitAssumption == MaxRecords \in Nat
ASSUME NoStateAssumption == \A S \in SUBSET Record : S # NoState
ASSUME BoundAssumption == MaxCalls \in Nat /\ MaxRuns \in Nat

VARIABLES
    \* Run
    phase,       \* where Run is: "idle", "starting", "collecting", "closing"
    ctx,         \* the run's context: "live" or "cancelled"
    collectErr,  \* what Collect returned
    runs,        \* runs started so far
    \* the adapter's goroutines
    pc,          \* "returned", "idle", "send" (in the select) or "sent"
    out,         \* the message being sent, and whether Emit truncated it
    covered,     \* records for which an Emit has returned nil, or resumed from
    seen,        \* errors the sink has returned to the adapter in this run
    calls,       \* calls of Emit and PutState so far
    \* pipeline
    ch, closed,  \* the channel
    emitted,     \* pipeline.emitted, the records charged against MaxRecords
    fetched,     \* stats.Fetched
    draining,    \* the goroutine of drain is running
    \* the writer goroutine
    wpc,         \* "off", "select", "flush", "final", "exiting" or "done"
    buf, nbuf,   \* Writer.buf as a set of records, and its length
    nrepl,       \* how many of its records replace
    pending,     \* Writer.pendingState
    writeErr,    \* pipeline.writeErr is set
    inserted,    \* stats.Inserted
    \* the database
    rows,        \* records in the source's tables
    saved,       \* the source's state in _source_state, or NoState
    runStatus,   \* status column of the newest row of _runs
    runRecords,  \* records column of that row
    \* history, read by no action of the code
    taken,       \* messages the writer received since its last commit
    acked,       \* records the queue accepted in this run
    ackedState,  \* the newest state the queue accepted in this run
    rowsBefore,  \* rows of tables that ignore, when the run started
    replaced     \* records of tables that replace the writer received in this run

runVars == <<phase, ctx, collectErr, runs>>
srcVars == <<pc, out, covered, seen, calls>>
queueVars == <<ch, closed, emitted, fetched, draining>>
writerVars == <<wpc, buf, nbuf, nrepl, pending, writeErr, inserted>>
dbVars == <<rows, saved, runStatus, runRecords>>
histVars == <<taken, acked, ackedState, rowsBefore, replaced>>
vars == <<runVars, srcVars, queueVars, writerVars, dbVars, histVars>>

State == SUBSET Record
Message == [recs : SUBSET Record, state : {NoState} \cup State]
Outgoing == [msg : Message, limited : BOOLEAN]
NoOutgoing == [msg |-> [recs |-> {}, state |-> NoState], limited |-> FALSE]

DataCount(recs) == Cardinality(recs \cap DataRecord)
ReplaceCount(recs) == Cardinality(recs \cap Replaced)
Newest(old, st) == IF st = NoState THEN old ELSE st

Init ==
    /\ phase = "idle" /\ ctx = "live" /\ collectErr = "nil" /\ runs = 0
    /\ pc = [e \in Emitters |-> "returned"]
    /\ out = [e \in Emitters |-> NoOutgoing]
    /\ covered = {} /\ seen = {} /\ calls = 0
    /\ ch = <<>> /\ closed = FALSE /\ emitted = 0 /\ fetched = 0 /\ draining = FALSE
    /\ wpc = "off" /\ buf = {} /\ nbuf = 0 /\ nrepl = 0 /\ pending = NoState
    /\ writeErr = FALSE /\ inserted = 0
    /\ rows = {} /\ saved = NoState /\ runStatus = "none" /\ runRecords = 0
    /\ taken = <<>> /\ acked = {} /\ ackedState = NoState
    /\ rowsBefore = 0 /\ replaced = 0

-----------------------------------------------------------------------------
(* Run, up to the call of Collect. *)

(* --reset: ClearState, before Run. *)
Reset ==
    /\ phase = "idle" /\ saved # NoState
    /\ saved' = NoState
    /\ ackedState' = NoState
    /\ UNCHANGED <<runVars, srcVars, queueVars, writerVars,
                   rows, runStatus, runRecords, taken, acked, rowsBefore, replaced>>

(* startRun inserts the row; a cancelled process starts no further run, so  *)
(* the context of a new run is live.                                        *)
StartRun ==
    /\ phase = "idle" /\ runs < MaxRuns
    /\ phase' = "starting" /\ ctx' = "live" /\ collectErr' = "nil" /\ runs' = runs + 1
    /\ seen' = {} /\ covered' = {}
    /\ emitted' = 0 /\ fetched' = 0 /\ inserted' = 0
    /\ writeErr' = FALSE /\ closed' = FALSE
    /\ runStatus' = "running" /\ runRecords' = 0
    /\ acked' = {} /\ ackedState' = NoState
    /\ rowsBefore' = Cardinality(rows \ Replaced) /\ replaced' = 0
    /\ UNCHANGED <<pc, out, calls, ch, draining, wpc, buf, nbuf, nrepl, pending, rows, saved, taken>>

(* The state is read (with --resume), and the pipeline and Collect start. *)
BeginCollect(resume) ==
    /\ phase = "starting"
    /\ resume => ctx = "live"
    /\ phase' = "collecting"
    /\ covered' = IF resume /\ saved # NoState THEN saved ELSE {}
    /\ pc' = [e \in Emitters |-> "idle"]
    /\ wpc' = "select"
    /\ UNCHANGED <<ctx, collectErr, runs, out, seen, calls, queueVars,
                   buf, nbuf, nrepl, pending, writeErr, inserted, dbVars, histVars>>

(* LoadState fails: Run returns at once and leaves the row as it is. *)
LoadFails ==
    /\ phase = "starting"
    /\ ctx = "cancelled" \/ "load" \in Faults
    /\ phase' = "idle"
    /\ UNCHANGED <<ctx, collectErr, runs, srcVars, queueVars, writerVars, dbVars, histVars>>

-----------------------------------------------------------------------------
(* The adapter's goroutines: Emit, PutState and send. *)

(* truncateData: every record of an internal table, and room data records.  *)
(* Which data records are kept depends on their order in the batch.         *)
Truncated(recs, room) ==
    {kept \in SUBSET recs : /\ recs \ DataRecord \subseteq kept
                            /\ DataCount(kept) = room}

(* The batch crosses the limit, given the data records charged before it.   *)
Overdraws(recs) ==
    /\ MaxRecords > 0 /\ DataCount(recs) > 0
    /\ emitted + DataCount(recs) > MaxRecords

(* The part of a batch that --max-records leaves.                           *)
(* Faulty variant: a batch that crosses the limit is dropped.               *)
Room == IF emitted < MaxRecords THEN MaxRecords - emitted ELSE 0
AdmittedWhole(recs) == IF Overdraws(recs) THEN {recs \ DataRecord} ELSE {recs}
Admitted(recs) == IF Overdraws(recs) THEN Truncated(recs, Room) ELSE {recs}

Charged(recs) ==
    IF MaxRecords > 0 THEN emitted + DataCount(recs) ELSE emitted

(* A batch with nothing left is not sent. *)
Dispatch(e, recs, kept) ==
    /\ emitted' = Charged(recs)
    /\ IF kept = {}
       THEN /\ seen' = seen \cup {"ErrLimit"}
            /\ UNCHANGED <<pc, out>>
       ELSE /\ out' = [out EXCEPT ![e] = [msg |-> [recs |-> kept, state |-> NoState],
                                         limited |-> Overdraws(recs)]]
            /\ pc' = [pc EXCEPT ![e] = "send"]
            /\ UNCHANGED seen

(* Emit up to the select: charge the batch against the limit, truncate it. *)
EmitBegin(e) ==
    /\ phase = "collecting" /\ pc[e] = "idle" /\ calls < MaxCalls
    /\ calls' = calls + 1
    /\ \E recs \in Batches : \E kept \in Admitted(recs) : Dispatch(e, recs, kept)
    /\ UNCHANGED <<runVars, covered, ch, closed, fetched, draining, writerVars, dbVars, histVars>>

(* SaveState: the state covers what Emit has returned nil for. *)
PutStateBegin(e) ==
    /\ phase = "collecting" /\ pc[e] = "idle" /\ calls < MaxCalls
    /\ calls' = calls + 1
    /\ out' = [out EXCEPT ![e] =
          [msg |-> [recs |-> {}, state |-> covered], limited |-> FALSE]]
    /\ pc' = [pc EXCEPT ![e] = "send"]
    /\ UNCHANGED <<runVars, covered, seen, queueVars, writerVars, dbVars, histVars>>

(* The three branches of send's select. *)
Send(e) ==
    /\ pc[e] = "send" /\ Len(ch) < QueueSize
    /\ ch' = Append(ch, out[e].msg)
    /\ pc' = [pc EXCEPT ![e] = "sent"]
    /\ acked' = acked \cup out[e].msg.recs
    /\ ackedState' = Newest(ackedState, out[e].msg.state)
    /\ UNCHANGED <<runVars, out, covered, seen, calls, closed, emitted, fetched, draining,
                   writerVars, dbVars, taken, rowsBefore, replaced>>

SendStopped(e) ==
    /\ pc[e] = "send" /\ wpc = "done"
    /\ pc' = [pc EXCEPT ![e] = "idle"]
    /\ seen' = seen \cup {"WriteErr"}
    /\ UNCHANGED <<runVars, out, covered, calls, queueVars, writerVars, dbVars, histVars>>

SendCancelled(e) ==
    /\ pc[e] = "send" /\ ctx = "cancelled"
    /\ pc' = [pc EXCEPT ![e] = "idle"]
    /\ seen' = seen \cup {"Canceled"}
    /\ UNCHANGED <<runVars, out, covered, calls, queueVars, writerVars, dbVars, histVars>>

(* Emit after the send: count the records, return nil or ErrLimit.  Records *)
(* of a truncated batch are not covered: the adapter got an error.          *)
EmitEnd(e) ==
    /\ pc[e] = "sent"
    /\ pc' = [pc EXCEPT ![e] = "idle"]
    /\ fetched' = fetched + DataCount(out[e].msg.recs)
    /\ IF out[e].limited
       THEN seen' = seen \cup {"ErrLimit"} /\ UNCHANGED covered
       ELSE covered' = covered \cup out[e].msg.recs /\ UNCHANGED seen
    /\ UNCHANGED <<runVars, out, calls, ch, closed, emitted, draining,
                   writerVars, dbVars, histVars>>

(* A goroutine of the adapter ends. *)
Return(e) ==
    /\ phase = "collecting" /\ pc[e] = "idle"
    /\ pc' = [pc EXCEPT ![e] = "returned"]
    /\ UNCHANGED <<runVars, out, covered, seen, calls, queueVars, writerVars, dbVars, histVars>>

-----------------------------------------------------------------------------
(* The writer goroutine. *)

(* Whether Add flushes.                                                     *)
FullBatch(n) == n >= BatchSize

(* A message is received: SetState, then Add, which flushes a full batch. *)
Receive ==
    /\ wpc = "select" /\ ch # <<>>
    /\ LET m == Head(ch)
       IN  /\ pending' = Newest(pending, m.state)
           /\ buf' = buf \cup m.recs
           /\ nbuf' = nbuf + Cardinality(m.recs)
           /\ nrepl' = nrepl + ReplaceCount(m.recs)
           /\ replaced' = replaced + ReplaceCount(m.recs)
           /\ wpc' = IF FullBatch(nbuf + Cardinality(m.recs)) THEN "flush" ELSE "select"
           /\ taken' = Append(taken, m)
    /\ ch' = Tail(ch)
    /\ UNCHANGED <<runVars, srcVars, closed, emitted, fetched, draining, writeErr, inserted,
                   dbVars, acked, ackedState, rowsBefore>>

(* The ticker flushes what is buffered.  Faulty variant: only a full batch. *)
TickFullOnly ==
    /\ wpc = "select" /\ FullBatch(nbuf)
    /\ wpc' = "flush"
    /\ UNCHANGED <<runVars, srcVars, queueVars, buf, nbuf, nrepl, pending, writeErr, inserted,
                   dbVars, histVars>>
Tick ==
    /\ wpc = "select" /\ nbuf > 0
    /\ wpc' = "flush"
    /\ UNCHANGED <<runVars, srcVars, queueVars, buf, nbuf, nrepl, pending, writeErr, inserted,
                   dbVars, histVars>>

(* The queue is closed and empty.  Faulty variant: leaves without a flush.  *)
QueueClosedNoFlush ==
    /\ wpc = "select" /\ closed /\ ch = <<>>
    /\ wpc' = "exiting"
    /\ UNCHANGED <<runVars, srcVars, queueVars, buf, nbuf, nrepl, pending, writeErr, inserted,
                   dbVars, histVars>>
QueueClosed ==
    /\ wpc = "select" /\ closed /\ ch = <<>>
    /\ wpc' = "final"
    /\ UNCHANGED <<runVars, srcVars, queueVars, buf, nbuf, nrepl, pending, writeErr, inserted,
                   dbVars, histVars>>

(* Rows affected: INSERT OR REPLACE counts each of its records, INSERT OR   *)
(* IGNORE those that were not there.  Faulty variant: each record counts.   *)
AffectedSent == nbuf
Affected == nrepl + Cardinality((buf \ Replaced) \ rows)

(* Flush: one transaction for the buffered records and the pending state,   *)
(* both cleared only once it is committed.                                  *)
FlushCommit ==
    /\ wpc \in {"flush", "final"}
    /\ rows' = rows \cup buf
    /\ saved' = Newest(saved, pending)
    /\ inserted' = inserted + Affected
    /\ buf' = {} /\ nbuf' = 0 /\ nrepl' = 0 /\ pending' = NoState
    /\ wpc' = IF wpc = "flush" THEN "select" ELSE "exiting"
    /\ taken' = <<>>
    /\ UNCHANGED <<runVars, srcVars, queueVars, writeErr, runStatus, runRecords,
                   acked, ackedState, rowsBefore, replaced>>

(* Faulty variant: a failed flush drops the buffer, and the writer goes on.  *)
FlushFailGoesOn ==
    /\ wpc = "flush" /\ "flush" \in Faults
    /\ wpc' = "select"
    /\ buf' = {} /\ nbuf' = 0 /\ nrepl' = 0
    /\ UNCHANGED <<runVars, srcVars, queueVars, pending, writeErr, inserted, dbVars, histVars>>

(* Faulty variant: the writer leaves without drain and without its defers.  *)
FlushFailSilent ==
    /\ wpc \in {"flush", "final"} /\ "flush" \in Faults
    /\ writeErr' = TRUE
    /\ wpc' = "off"
    /\ UNCHANGED <<runVars, srcVars, queueVars, buf, nbuf, nrepl, pending, inserted, dbVars, histVars>>

(* The transaction is rolled back, but the rows of the statements that had  *)
(* succeeded stay counted.  Before the close, drain takes over the queue.   *)
FlushFail ==
    /\ wpc \in {"flush", "final"} /\ "flush" \in Faults
    /\ nbuf > 0 \/ pending # NoState
    /\ \E n \in 0..Affected : inserted' = inserted + n
    /\ writeErr' = TRUE
    /\ draining' = (wpc = "flush")
    /\ wpc' = "exiting"
    /\ UNCHANGED <<runVars, srcVars, ch, closed, emitted, fetched, buf, nbuf, nrepl, pending,
                   dbVars, histVars>>

(* The deferred calls: Writer.Close, then close(p.done). *)
WriterExit ==
    /\ wpc = "exiting"
    /\ wpc' = "done"
    /\ UNCHANGED <<runVars, srcVars, queueVars, buf, nbuf, nrepl, pending, writeErr, inserted,
                   dbVars, histVars>>

Drain ==
    /\ draining /\ ch # <<>>
    /\ ch' = Tail(ch)
    /\ UNCHANGED <<runVars, srcVars, closed, emitted, fetched, draining, writerVars,
                   dbVars, histVars>>

-----------------------------------------------------------------------------
(* Run, from the return of Collect. *)

(* Faulty variant: Run waits for the writer without closing the channel.    *)
CloseQueueOpen ==
    /\ phase = "collecting" /\ \A e \in Emitters : pc[e] = "returned"
    /\ phase' = "closing"
    /\ UNCHANGED <<ctx, collectErr, runs, srcVars, queueVars, writerVars, dbVars, histVars>>

(* Collect returns once its goroutines have: nil, an error of its own, or   *)
(* an error the sink or the context gave it.                                *)
CloseQueue ==
    /\ phase = "collecting" /\ \A e \in Emitters : pc[e] = "returned"
    /\ \E err \in {"nil", "error"} \cup seen
                  \cup (IF ctx = "cancelled" THEN {"Canceled"} ELSE {}) :
          collectErr' = err
    /\ closed' = TRUE
    /\ phase' = "closing"
    /\ UNCHANGED <<ctx, runs, srcVars, ch, emitted, fetched, draining, writerVars,
                   dbVars, histVars>>

(* The switch of Run. *)
Stopped == collectErr = "Canceled" \/ ctx = "cancelled"
(* Faulty variant: the error itself is stored.                              *)
FinalStatusRaw == IF writeErr THEN "failed" ELSE collectErr
FinalStatus ==
    CASE writeErr -> "failed"
      [] ~writeErr /\ collectErr = "ErrLimit" -> "completed"
      [] ~writeErr /\ collectErr # "ErrLimit" /\ Stopped -> "cancelled"
      [] ~writeErr /\ collectErr # "ErrLimit" /\ ~Stopped ->
            IF collectErr = "nil" THEN "completed" ELSE "failed"

(* What the end of Run, or of the process, takes away. *)
DropPipeline ==
    /\ phase' = "idle"
    /\ pc' = [e \in Emitters |-> "returned"]
    /\ out' = [e \in Emitters |-> NoOutgoing]
    /\ ch' = <<>> /\ draining' = FALSE
    /\ wpc' = "off" /\ buf' = {} /\ nbuf' = 0 /\ nrepl' = 0 /\ pending' = NoState
    /\ taken' = <<>>

(* close() has seen done; finishRun updates the row, or fails with a        *)
(* warning.                                                                 *)
FinishRun ==
    /\ phase = "closing" /\ wpc = "done"
    /\ \/ /\ runStatus' = FinalStatus
          /\ runRecords' = inserted
       \/ /\ "finish" \in Faults
          /\ UNCHANGED <<runStatus, runRecords>>
    /\ DropPipeline
    /\ UNCHANGED <<ctx, collectErr, runs, covered, seen, calls, closed, emitted, fetched,
                   writeErr, inserted, rows, saved, acked, ackedState, rowsBefore, replaced>>

-----------------------------------------------------------------------------
(* The environment. *)

(* The first SIGINT cancels the context. *)
Interrupt ==
    /\ phase # "idle" /\ ctx = "live"
    /\ ctx' = "cancelled"
    /\ UNCHANGED <<phase, collectErr, runs, srcVars, queueVars, writerVars, dbVars, histVars>>

(* The process dies: killed, or stopped by a second SIGINT.  SQLite rolls   *)
(* back the open transaction.                                               *)
Crash ==
    /\ phase # "idle"
    /\ DropPipeline
    /\ UNCHANGED <<ctx, collectErr, runs, covered, seen, calls, closed, emitted, fetched,
                   writeErr, inserted, dbVars, acked, ackedState, rowsBefore, replaced>>

(* Nothing is left to do once the bound on runs is reached. *)
Finished ==
    /\ phase = "idle" /\ runs = MaxRuns
    /\ UNCHANGED vars

EmitterStep(e) ==
    \/ EmitBegin(e) \/ PutStateBegin(e) \/ Send(e) \/ SendStopped(e)
    \/ SendCancelled(e) \/ EmitEnd(e) \/ Return(e)

WriterStep ==
    \/ Receive \/ Tick \/ QueueClosed \/ FlushCommit \/ FlushFail \/ WriterExit \/ Drain

RunStep ==
    \/ Reset \/ StartRun \/ (\E resume \in BOOLEAN : BeginCollect(resume))
    \/ LoadFails \/ CloseQueue \/ FinishRun

Next ==
    \/ \E e \in Emitters : EmitterStep(e)
    \/ WriterStep \/ RunStep \/ Interrupt \/ Crash \/ Finished

Spec == Init /\ [][Next]_vars

-----------------------------------------------------------------------------
(* Fairness.  The Go scheduler runs every goroutine that can run; a channel *)
(* serves blocked senders in order, so a sender that is ready infinitely    *)
(* often succeeds; the ticker keeps firing; Run's own goroutine goes on.    *)
(* An adapter may keep its goroutines busy for as long as it likes, but it  *)
(* returns once its context is cancelled.                                   *)
ReturnWhenCancelled(e) == ctx = "cancelled" /\ Return(e)

Fairness ==
    /\ \A e \in Emitters :
          /\ SF_vars(Send(e))
          /\ WF_vars(SendStopped(e) \/ SendCancelled(e) \/ EmitEnd(e) \/ ReturnWhenCancelled(e))
    /\ WF_vars(Receive \/ QueueClosed \/ FlushCommit \/ FlushFail \/ WriterExit)
    /\ WF_vars(Tick) /\ WF_vars(Drain)
    /\ WF_vars((\E resume \in BOOLEAN : BeginCollect(resume)) \/ LoadFails
                \/ CloseQueue \/ FinishRun)

FairSpec == Spec /\ Fairness

-----------------------------------------------------------------------------
(* Properties. *)

(* Every variable holds a value of its type. *)
RunType ==
    /\ phase \in {"idle", "starting", "collecting", "closing"}
    /\ ctx \in {"live", "cancelled"}
    /\ collectErr \in {"nil", "error", "ErrLimit", "WriteErr", "Canceled"}
    /\ runs \in Nat

SourceType ==
    /\ pc \in [Emitters -> {"returned", "idle", "send", "sent"}]
    /\ out \in [Emitters -> Outgoing]
    /\ covered \subseteq Record
    /\ seen \subseteq {"ErrLimit", "WriteErr", "Canceled"}
    /\ calls \in Nat

QueueType ==
    /\ ch \in Seq(Message)
    /\ closed \in BOOLEAN /\ draining \in BOOLEAN
    /\ emitted \in Nat /\ fetched \in Nat

WriterType ==
    /\ wpc \in {"off", "select", "flush", "final", "exiting", "done"}
    /\ buf \subseteq Record /\ nbuf \in Nat /\ nrepl \in Nat
    /\ pending \in {NoState} \cup State
    /\ writeErr \in BOOLEAN /\ inserted \in Nat

DbType ==
    /\ rows \subseteq Record
    /\ saved \in {NoState} \cup State
    /\ runStatus \in {"none", "running", "completed", "cancelled", "failed"}
    /\ runRecords \in Nat

HistoryType ==
    /\ taken \in Seq(Message)
    /\ acked \subseteq Record
    /\ ackedState \in {NoState} \cup State
    /\ rowsBefore \in Nat /\ replaced \in Nat

TypeOK == RunType /\ SourceType /\ QueueType /\ WriterType /\ DbType /\ HistoryType

(* The writer can still commit something in this run. *)
WriterAlive == wpc \in {"select", "flush", "final"}

(* The resume state in the database never covers a record that is not in    *)
(* the database: whatever goroutines emitted it, whichever batch it was in, *)
(* and wherever a flush failed or the process died, the next run resumes    *)
(* behind every record it lost.  (architecture.md, "Crash safety")          *)
StateCovered == saved # NoState => saved \subseteq rows

(* A run reported as completed or cancelled has lost nothing the queue      *)
(* accepted: its records are rows and the last state it put is the saved    *)
(* one, so an interrupt commits the work in flight.                         *)
AckedIsDurable ==
    phase = "idle" /\ runStatus \in {"completed", "cancelled"} =>
        /\ acked \subseteq rows
        /\ ackedState # NoState => saved = ackedState

(* Emitters that charge the limit concurrently never get more than          *)
(* --max-records data records between them into the queue, and a run told   *)
(* that the limit was reached did collect exactly that many, unless a send  *)
(* was refused: truncation wastes none of the room.                         *)
LimitIsExact ==
    /\ MaxRecords > 0 => fetched <= MaxRecords
    /\ phase = "closing" /\ "ErrLimit" \in seen /\ seen \cap {"WriteErr", "Canceled"} = {}
          => fetched = MaxRecords

(* The records column of a run that did not fail counts, over all its       *)
(* flushes, the rows it added to tables that ignore, with duplicates left   *)
(* out, and each record for a table that replaces, whether or not its row   *)
(* was there: for those it may exceed the number of rows added.             *)
RecordsColumn ==
    phase = "idle" /\ runStatus \in {"completed", "cancelled"} =>
        runRecords + rowsBefore = Cardinality(rows \ Replaced) + replaced

(* What a crash of this run would lose: queued or buffered messages, oldest *)
(* first.  A writer that has given up loses them all.                       *)
InFlight == IF WriterAlive THEN taken \o ch ELSE <<>>

Promise == INSTANCE Ingest WITH backlog <- InFlight
PromiseInit == Promise!Init
PromiseStep == [Promise!Next]_(Promise!vars)

(* The pipeline implements the abstract log: what is durable only changes   *)
(* by committing a prefix of the accepted messages, records and newest      *)
(* state together.                                                          *)
ImplementsIngest == Promise!Spec

(* A blocked Emit or PutState always returns: the writer receives, or       *)
(* drain does, or done or the context releases it.                          *)
EmitReturns == \A e \in Emitters : pc[e] \in {"send", "sent"} ~> pc[e] \in {"idle", "returned"}

(* An interrupted run always ends, also with a full queue and a dead writer.*)
InterruptEndsRun == phase # "idle" /\ ctx = "cancelled" ~> phase = "idle"

(* "FlushInterval bounds how long finished work sits unflushed"             *)
(* (runner.go:31): records a slow source leaves buffered below the batch    *)
(* size are flushed, or the run fails or ends.                              *)
SlowWorkIsFlushed == nbuf > 0 ~> nbuf = 0 \/ writeErr

-----------------------------------------------------------------------------
(* The inductive invariant behind StateCovered, AckedIsDurable and          *)
(* ImplementsIngest.  PipelineProofs.tla proves it.                         *)

(* What is durable once the writer has committed what it holds and the next *)
(* k messages.                                                              *)
Reached(k) == rows \cup buf \cup UNION {ch[i].recs : i \in 1..k}

(* Between runs there is no pipeline; a run that has not ended is recorded  *)
(* as running.                                                              *)
Lifecycle ==
    /\ phase \in {"idle", "starting"} =>
          /\ wpc = "off" /\ ch = <<>> /\ buf = {} /\ pending = NoState
          /\ taken = <<>> /\ draining = FALSE
          /\ \A e \in Emitters : pc[e] = "returned"
    /\ phase = "starting" => acked = {} /\ ackedState = NoState
    /\ phase # "idle" => runStatus = "running"
    /\ phase \in {"starting", "collecting"} => closed = FALSE
    /\ phase = "closing" => \A e \in Emitters : pc[e] = "returned"

(* The writer leaves its loop through an error or an empty, closed queue.   *)
WriterOrder ==
    /\ draining = TRUE => wpc \in {"exiting", "done"}
    /\ wpc = "final" => phase = "closing" /\ ch = <<>>
    /\ wpc \in {"exiting", "done"} /\ writeErr = FALSE => phase = "closing"

(* Every state on its way to the database covers only records that are      *)
(* ahead of it.                                                             *)
Coverage ==
    /\ StateCovered
    /\ WriterAlive =>
          /\ pending # NoState => pending \subseteq rows \cup buf
          /\ \A k \in 1..Len(ch) : ch[k].state # NoState => ch[k].state \subseteq Reached(k)
          /\ covered \subseteq Reached(Len(ch))
          /\ \A e \in Emitters :
                pc[e] = "sent" => out[e].msg.recs \subseteq Reached(Len(ch))
    /\ \A e \in Emitters :
          pc[e] = "send" /\ out[e].msg.state # NoState => out[e].msg.state \subseteq covered

(* Whatever the queue accepted in this run is durable, or still on its way. *)
Durability ==
    /\ AckedIsDurable
    /\ WriterAlive =>
          /\ acked \subseteq Reached(Len(ch))
          /\ ackedState # NoState =>
                Promise!IsLastState(ch, Newest(saved, pending), ackedState)
    /\ wpc \in {"exiting", "done"} /\ writeErr = FALSE =>
          /\ acked \subseteq rows
          /\ ackedState # NoState => saved = ackedState

(* The writer's buffer is what it has received since its last commit.       *)
Buffered ==
    WriterAlive =>
        /\ buf = Promise!RecsOf(taken)
        /\ Promise!IsLastState(taken, NoState, pending)

IInv == TypeOK /\ Lifecycle /\ WriterOrder /\ Coverage /\ Durability /\ Buffered

=============================================================================
