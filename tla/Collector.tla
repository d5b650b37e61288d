------------------------------- MODULE Collector -------------------------------
(***************************************************************************)
(* Processes of the collector that share one database file: cmdMigrate and *)
(* cmdRun of src/cmd/collector/main.go with the migrations and the         *)
(* connection settings of src/internal/db/db.go.  A process applies the    *)
(* migrations that are missing, then runs its targets one after the other, *)
(* each with a row in _runs, and checkpoints the log at the end.  Nothing  *)
(* keeps two processes apart but the write lock of SQLite.                 *)
(*                                                                         *)
(* What a run writes is a number of batches, each committed with or        *)
(* without a state that covers it; how a run comes to its batches is the   *)
(* subject of Pipeline.tla and of the adapters.  With journal_mode(WAL)    *)
(* and synchronous(NORMAL) a commit reaches the disk at a later checkpoint *)
(* or whenever the system writes the log: when the power fails, a suffix   *)
(* of the commits is lost.                                                 *)
(***************************************************************************)
EXTENDS Naturals, Sequences, FiniteSets

CONSTANTS
    Procs,        \* processes
    Sources,      \* names of sources
    Commands,     \* command lines of each process
    LastVersion,  \* migrations, numbered from 1
    MaxBatches,   \* bound: batches in the database
    MaxStarts,    \* bound: processes started
    MaxTrouble,   \* bound: kills, power failures, failing statements
    Faults        \* what may fail: "sql", "lock", "load", "flush", "collect", "checkpoint"

Command == [name : {"migrate", "run"}, targets : Seq(Sources), reset : BOOLEAN]

ASSUME CollectorAssumption ==
    /\ Commands \in [Procs -> SUBSET Command]
    /\ LastVersion \in Nat /\ MaxBatches \in Nat
    /\ MaxStarts \in Nat /\ MaxTrouble \in Nat

VARIABLES
    database, \* what the processes see
    disk,     \* what is left of it when the power fails: an earlier one
    lock,     \* the process that holds the write lock, or Nobody
    proc,     \* each process: its program counter and local variables
    starts,   \* processes started so far
    trouble,  \* what went wrong so far
    orphans   \* runs that no process will finish any more

vars == <<database, disk, lock, proc, starts, trouble, orphans>>

Nobody == "nobody"
NoState == <<0, 0>>
Versions == 1..LastVersion

Empty == [made |-> FALSE, tables |-> {}, ledger |-> {}, runs |-> <<>>,
          rows |-> {}, state |-> [s \in Sources |-> NoState]]

(* Transactions that are committed one after the other.  The log may reach  *)
(* the disk after any of them, or later.                                    *)
CommitAll(dbs) ==
    /\ database' = dbs[Len(dbs)]
    /\ \E n \in 0..Len(dbs) : disk' = IF n = 0 THEN disk ELSE dbs[n]
Commit(db) == CommitAll(<<db>>)

(* A process that is not there. *)
Off == [pc |-> "off", cmd |-> [name |-> "migrate", targets |-> <<>>, reset |-> FALSE],
        ctx |-> "live", applied |-> {}, tx |-> {}, at |-> 1, run |-> 0,
        batches |-> 0, counted |-> 0, err |-> "nil", writeErr |-> FALSE, failed |-> FALSE, done |-> <<>>]

(* A new database, or one that an older version of the program has left.    *)
Init ==
    /\ \E n \in 0..LastVersion :
          database = [Empty EXCEPT !.made = n > 0, !.tables = 1..n, !.ledger = 1..n]
    /\ disk = database
    /\ lock = Nobody
    /\ proc = [p \in Procs |-> Off]
    /\ starts = 0 /\ trouble = 0
    /\ orphans = {}

-----------------------------------------------------------------------------
(* A step of process p from pc to pc, changing the given local variables.   *)
At(p, pc) == proc[p].pc = pc
Goto(p, pc) == proc' = [proc EXCEPT ![p].pc = pc]
Cancelled(p) == proc[p].ctx = "cancelled"
Free == lock = Nobody

Trouble == trouble < MaxTrouble /\ trouble' = trouble + 1
Fault(kind) == kind \in Faults /\ Trouble

(* A statement under the context of the process fails: the context is       *)
(* cancelled, another process keeps the lock longer than busy_timeout, or   *)
(* the database refuses it.                                                 *)
StatementFails(p, kind) ==
    \/ Cancelled(p) /\ UNCHANGED trouble
    \/ lock \notin {Nobody, p} /\ Fault("lock")
    \/ Fault(kind)

(* The process ends: its row in memory is gone, its lock is released.       *)
Gone(p) ==
    /\ proc' = [proc EXCEPT ![p] = Off]
    /\ lock' = IF lock = p THEN Nobody ELSE lock

-----------------------------------------------------------------------------
(* Migrate. *)

Start(p) ==
    /\ At(p, "off") /\ starts < MaxStarts
    /\ \E c \in Commands[p] : proc' = [proc EXCEPT ![p] = [Off EXCEPT !.pc = "create", !.cmd = c]]
    /\ starts' = starts + 1
    /\ UNCHANGED <<database, disk, lock, trouble, orphans>>

(* CREATE TABLE IF NOT EXISTS _migrations. *)
CreateLedger(p) ==
    /\ At(p, "create") /\ Free /\ ~Cancelled(p)
    /\ Commit([database EXCEPT !.made = TRUE])
    /\ Goto(p, "read")
    /\ UNCHANGED <<lock, starts, trouble, orphans>>

(* SELECT version: a snapshot of the ledger, read once and without a lock.  *)
ReadApplied(p) ==
    /\ At(p, "read") /\ ~Cancelled(p)
    /\ proc' = [proc EXCEPT ![p].pc = "migrate", ![p].applied = database.ledger]
    /\ UNCHANGED <<database, disk, lock, starts, trouble, orphans>>

(* Faulty variant: the loop stops before the newest one.                    *)
PendingButLast(p) == 1..(LastVersion - 1) \ proc[p].applied
Pending(p) == Versions \ proc[p].applied
NextVersion(p) == CHOOSE v \in Pending(p) : \A w \in Pending(p) : v <= w

(* BEGIN IMMEDIATE. *)
BeginMigration(p) ==
    /\ At(p, "migrate") /\ Pending(p) # {} /\ Free /\ ~Cancelled(p)
    /\ lock' = p
    /\ Goto(p, "exec")
    /\ UNCHANGED <<database, disk, starts, trouble, orphans>>

(* The statements of the migration, each IF NOT EXISTS. *)
ExecMigration(p) ==
    /\ At(p, "exec") /\ ~Cancelled(p)
    /\ proc' = [proc EXCEPT ![p].pc = "record", ![p].tx = {NextVersion(p)}]
    /\ UNCHANGED <<database, disk, lock, starts, trouble, orphans>>

(* The row of _migrations, whose version is a primary key, and COMMIT.      *)
(* Faulty variant: a transaction for the tables, another one for the row.   *)
Applied(p) == [database EXCEPT !.tables = @ \cup proc[p].tx, !.ledger = @ \cup proc[p].tx]
MigrationCommitsTwo(p) == <<[Applied(p) EXCEPT !.ledger = database.ledger], Applied(p)>>
MigrationCommits(p) == <<Applied(p)>>

CommitMigration(p) ==
    /\ At(p, "record") /\ ~Cancelled(p)
    /\ proc[p].tx \cap database.ledger = {}
    /\ CommitAll(MigrationCommits(p))
    /\ proc' = [proc EXCEPT ![p].pc = "migrate", ![p].applied = @ \cup proc[p].tx, ![p].tx = {}]
    /\ lock' = Nobody
    /\ UNCHANGED <<starts, trouble, orphans>>

(* Rollback and return: a statement fails, or another process has applied   *)
(* the version since the ledger was read.                                   *)
MigrateFails(p) ==
    /\ \/ At(p, "create") /\ StatementFails(p, "sql")
       \/ At(p, "read") /\ StatementFails(p, "sql")
       \/ At(p, "migrate") /\ Pending(p) # {} /\ StatementFails(p, "sql")
       \/ At(p, "exec") /\ StatementFails(p, "sql")
       \/ At(p, "record") /\ StatementFails(p, "sql")
       \/ At(p, "record") /\ proc[p].tx \cap database.ledger # {} /\ UNCHANGED trouble
    /\ Gone(p)
    /\ UNCHANGED <<database, disk, starts, orphans>>

Migrated(p) ==
    /\ At(p, "migrate") /\ Pending(p) = {}
    /\ IF proc[p].cmd.name = "migrate" THEN Gone(p)
       ELSE proc' = [proc EXCEPT ![p].pc = "loop", ![p].applied = {}] /\ UNCHANGED lock
    /\ UNCHANGED <<database, disk, starts, trouble, orphans>>

-----------------------------------------------------------------------------
(* cmdRun: the loop over the targets. *)

Targets(p) == proc[p].cmd.targets
Source(p) == Targets(p)[proc[p].at]
RunRow(p) == database.runs[proc[p].run]
WithRun(db, id, row) == [db EXCEPT !.runs[id] = row]

(* The context is looked at before each target.                             *)
NextTarget(p) ==
    /\ At(p, "loop") /\ proc[p].at <= Len(Targets(p)) /\ ~Cancelled(p)
    /\ Goto(p, IF proc[p].cmd.reset THEN "reset" ELSE "start")
    /\ UNCHANGED <<database, disk, lock, starts, trouble, orphans>>

LoopEnds(p) ==
    /\ At(p, "loop") /\ (proc[p].at > Len(Targets(p)) \/ Cancelled(p))
    /\ Goto(p, "checkpoint")
    /\ UNCHANGED <<database, disk, lock, starts, trouble, orphans>>

(* ClearState; its error ends the process without a checkpoint.             *)
ClearState(p) ==
    /\ At(p, "reset") /\ Free /\ ~Cancelled(p)
    /\ Commit([database EXCEPT !.state[Source(p)] = NoState])
    /\ Goto(p, "start")
    /\ UNCHANGED <<lock, starts, trouble, orphans>>

ClearStateFails(p) ==
    /\ At(p, "reset") /\ StatementFails(p, "sql")
    /\ Gone(p)
    /\ UNCHANGED <<database, disk, starts, orphans>>

(* Run has returned: its error is added to those of the targets before, and *)
(* the next target is due.  Faulty variant: the last error counts.          *)
FailedLast(p, err) == err # "nil"
Failed(p, err) == proc[p].failed \/ err # "nil"

Advanced(p, err) ==
    proc' = [proc EXCEPT ![p].pc = "loop", ![p].at = @ + 1,
                         ![p].run = 0, ![p].batches = 0, ![p].counted = 0, ![p].err = "nil", ![p].writeErr = FALSE,
                         ![p].failed = Failed(p, err), ![p].done = Append(@, proc[p].run)]
(* Faulty variant: a run that cannot begin is tried again.                  *)
ReturnedRetry(p, err) ==
    IF err = "start" THEN UNCHANGED proc ELSE Advanced(p, err)
Returned(p, err) == Advanced(p, err)

-----------------------------------------------------------------------------
(* Run, for one target. *)

StartRun(p) ==
    /\ At(p, "start") /\ Free /\ ~Cancelled(p)
    /\ Commit([database EXCEPT !.runs = Append(@,
                   [source |-> Source(p), status |-> "running", records |-> 0])])
    /\ proc' = [proc EXCEPT ![p].pc = "load", ![p].run = Len(database.runs) + 1]
    /\ UNCHANGED <<lock, starts, trouble, orphans>>

StartRunFails(p) ==
    /\ At(p, "start") /\ StatementFails(p, "sql")
    /\ Returned(p, "start")
    /\ UNCHANGED <<database, disk, lock, starts, orphans>>

(* With --resume=false nothing is loaded, which looks the same from here.   *)
LoadState(p) ==
    /\ At(p, "load")
    /\ Goto(p, "collect")
    /\ UNCHANGED <<database, disk, lock, starts, trouble, orphans>>

(* Run returns without finishRun. *)
LoadStateFails(p) ==
    /\ At(p, "load")
    /\ (Cancelled(p) /\ UNCHANGED trouble) \/ Fault("load")
    /\ Returned(p, "load")
    /\ orphans' = orphans \cup {proc[p].run}
    /\ UNCHANGED <<database, disk, lock, starts>>

(* The writer commits a batch, alone or with a state that covers it and     *)
(* all before it.  Faulty variant: the state is committed first.            *)
Written(p) == [database EXCEPT !.rows = @ \cup {<<proc[p].run, proc[p].batches + 1>>}]
Covered(db, p) == [db EXCEPT !.state[Source(p)] = <<proc[p].run, proc[p].batches + 1>>]
FlushCommitsTwo(p) == {<<Covered(database, p), Covered(Written(p), p)>>}
FlushCommits(p) == {<<Written(p)>>, <<Covered(Written(p), p)>>}

Flush(p) ==
    /\ At(p, "collect") \/ At(p, "close")
    /\ ~proc[p].writeErr /\ Cardinality(database.rows) < MaxBatches /\ Free
    /\ \E new \in FlushCommits(p) : CommitAll(new)
    /\ proc' = [proc EXCEPT ![p].batches = @ + 1, ![p].counted = @ + 1]
    /\ UNCHANGED <<lock, starts, trouble, orphans>>

(* A statement fails, the transaction is rolled back and the writer gives   *)
(* up.  What it has inserted by then is counted all the same.               *)
FlushFails(p) ==
    /\ At(p, "collect") \/ At(p, "close")
    /\ ~proc[p].writeErr
    /\ Fault("flush")
    /\ \E n \in 0..1 :
          proc' = [proc EXCEPT ![p].writeErr = TRUE, ![p].counted = @ + n]
    /\ UNCHANGED <<database, disk, lock, starts, orphans>>

(* Collect returns: nil, ErrLimit or an error of its own.  What is still    *)
(* queued is written while Run waits.                                       *)
Collected(p) ==
    /\ At(p, "collect")
    /\ \E err \in {"nil", "limit", "collect"} :
          /\ IF err = "collect" /\ ~Cancelled(p) THEN Fault("collect") ELSE UNCHANGED trouble
          /\ proc' = [proc EXCEPT ![p].pc = "close", ![p].err = err]
    /\ UNCHANGED <<database, disk, lock, starts, orphans>>

(* The status switch: ErrLimit is a success, also of a run that is          *)
(* cancelled later; a cancelled context hides any other error of Collect;   *)
(* the one of the writer is never hidden.                                   *)
RunError(p) ==
    IF proc[p].writeErr THEN "write"
    ELSE IF proc[p].err = "limit" \/ Cancelled(p) THEN "nil" ELSE proc[p].err
Status(p) ==
    IF RunError(p) # "nil" THEN "failed"
    ELSE IF proc[p].err # "limit" /\ Cancelled(p) THEN "cancelled" ELSE "completed"

(* finishRun is not stopped by the context, and its error is only logged.   *)
(* Faulty variant: it is stopped, as every other statement.                 *)
ClosedRow(p) == [RunRow(p) EXCEPT !.status = Status(p), !.records = proc[p].counted]
RowUnlessCancelled(p) == IF Cancelled(p) THEN RunRow(p) ELSE ClosedRow(p)
FinalRow(p) == ClosedRow(p)

FinishRun(p) ==
    /\ At(p, "close") /\ Free
    /\ Commit(WithRun(database, proc[p].run, FinalRow(p)))
    /\ Returned(p, RunError(p))
    /\ UNCHANGED <<lock, starts, trouble, orphans>>

FinishRunFails(p) ==
    /\ At(p, "close") /\ Fault("finish")
    /\ Returned(p, RunError(p))
    /\ orphans' = orphans \cup {proc[p].run}
    /\ UNCHANGED <<database, disk, lock, starts>>

-----------------------------------------------------------------------------
(* The end of cmdRun, and the environment. *)

(* PRAGMA wal_checkpoint, which the context does not stop: what has been    *)
(* committed is on the disk.                                                *)
Checkpoint(p) ==
    /\ At(p, "checkpoint")
    /\ disk' = database /\ UNCHANGED database
    /\ Gone(p)
    /\ UNCHANGED <<starts, trouble, orphans>>

CheckpointFails(p) ==
    /\ At(p, "checkpoint") /\ Fault("checkpoint")
    /\ Gone(p)
    /\ UNCHANGED <<database, disk, starts, orphans>>

(* The first signal. *)
Interrupt(p) ==
    /\ ~At(p, "off") /\ ~Cancelled(p)
    /\ proc' = [proc EXCEPT ![p].ctx = "cancelled"]
    /\ UNCHANGED <<database, disk, lock, starts, trouble, orphans>>

(* The second signal, or any other end of the process.                      *)
Kill(p) ==
    /\ ~At(p, "off") /\ Trouble
    /\ orphans' = orphans \cup ({proc[p].run} \ {0})
    /\ Gone(p)
    /\ UNCHANGED <<database, disk, starts>>

(* The machine stops: of the commits since the last checkpoint an initial   *)
(* part is left.                                                            *)
PowerFails ==
    /\ Trouble
    /\ database' = disk /\ UNCHANGED disk
    /\ orphans' = {i \in DOMAIN disk.runs : disk.runs[i].status = "running"}
    /\ proc' = [p \in Procs |-> Off]
    /\ lock' = Nobody
    /\ UNCHANGED starts

(* Every process has ended, and no other one is started.                    *)
Finished ==
    /\ starts = MaxStarts /\ \A p \in Procs : At(p, "off")
    /\ UNCHANGED vars

Step(p) ==
    \/ CreateLedger(p) \/ ReadApplied(p) \/ BeginMigration(p) \/ ExecMigration(p)
    \/ CommitMigration(p) \/ MigrateFails(p) \/ Migrated(p)
    \/ NextTarget(p) \/ LoopEnds(p) \/ ClearState(p) \/ ClearStateFails(p)
    \/ StartRun(p) \/ StartRunFails(p) \/ LoadState(p) \/ LoadStateFails(p)
    \/ FinishRun(p) \/ FinishRunFails(p)
    \/ Checkpoint(p) \/ CheckpointFails(p)

Next ==
    \/ \E p \in Procs :
          Start(p) \/ Step(p) \/ Flush(p) \/ FlushFails(p) \/ Collected(p)
          \/ Interrupt(p) \/ Kill(p)
    \/ PowerFails \/ Finished

Spec == Init /\ [][Next]_vars

(* A process goes on.  Collect returns once its context is cancelled        *)
(* (Pipeline.tla), and otherwise when it likes.                             *)
FairSpec ==
    /\ Spec
    /\ \A p \in Procs :
          /\ WF_vars(Step(p))
          /\ WF_vars(Cancelled(p) /\ Collected(p))

-----------------------------------------------------------------------------
(* Every variable holds a value of its type. *)
TypeOK ==
    /\ lock \in Procs \cup {Nobody}
    /\ starts \in 0..MaxStarts /\ trouble \in 0..MaxTrouble
    /\ orphans \subseteq DOMAIN database.runs
    /\ \A p \in Procs : proc[p].run \in 0..Len(database.runs)

(* "a crash cannot half-apply a schema" (db.go:143): whatever is left of    *)
(* the commits, the tables are those of the versions that are recorded, and *)
(* no version is missing before another one, also when two processes        *)
(* migrate at once.                                                         *)
SchemaIsWhole ==
    \A db \in {database, disk} :
        /\ db.tables = db.ledger
        /\ \E v \in 0..LastVersion : db.ledger = 1..v

(* A process collects with every migration applied, though it has read the  *)
(* ledger before the lock and another one may have applied some of them.    *)
CollectsOnNewestSchema ==
    \A p \in Procs :
        proc[p].pc \in {"loop", "reset", "start", "load", "collect", "close"} =>
            database.ledger = Versions

(* Whatever a power failure leaves: a run that is recorded as completed or  *)
(* cancelled has all the batches it counts, and a saved state the batches   *)
(* it covers.                                                               *)
Batches(db, i) == {b \in db.rows : b[1] = i}
RecordsSurvive ==
    \A db \in {database, disk} :
        /\ \A i \in DOMAIN db.runs : db.runs[i].status \in {"completed", "cancelled"} =>
              Cardinality(Batches(db, i)) = db.runs[i].records
        /\ \A s \in Sources : {db.state[s][1]} \X (1..db.state[s][2]) \subseteq db.rows

(* A run whose row says "running" is running, unless its process was        *)
(* killed, finishRun failed, or LoadState did (runner.go:65): interrupts    *)
(* and failing runs leave no such row.                                      *)
RunningIsLive ==
    \A i \in DOMAIN database.runs :
        database.runs[i].status = "running" =>
            i \in orphans \/ \E p \in Procs : proc[p].run = i

(* A process ends without an error exactly if no target it took has failed: *)
(* each one has a run that is recorded as completed or cancelled, or never  *)
(* will be.  With an error, one has no run, a failed one or such a run.     *)
(* Targets are left out after an interrupt only, which is no error.         *)
Good(id) == id # 0 /\ (id \in orphans \/ database.runs[id].status \in {"completed", "cancelled"})
Bad(id) == id \in {0} \cup orphans \/ database.runs[id].status = "failed"
ExitIsHonest ==
    \A p \in Procs : At(p, "checkpoint") =>
        /\ IF proc[p].failed THEN \E i \in DOMAIN proc[p].done : Bad(proc[p].done[i])
                             ELSE \A i \in DOMAIN proc[p].done : Good(proc[p].done[i])
        /\ Len(proc[p].done) = Len(Targets(p)) \/ Cancelled(p)

(* The first signal ends a process, wherever it is: waiting for the lock,   *)
(* within a migration, between two targets or in one of them.               *)
InterruptEnds == \A p \in Procs : Cancelled(p) ~> At(p, "off")
=============================================================================
