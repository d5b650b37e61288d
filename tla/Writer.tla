--------------------------------- MODULE Writer ---------------------------------
(***************************************************************************)
(* The writer, src/internal/db/writer.go, statement by statement, between  *)
(* an adapter that uses one batch buffer over and over and the database.   *)
(* Pipeline.tla has the goroutines, the limit and the runs, and a flush as *)
(* one step; here a flush groups its records by their INSERT, inserts each *)
(* group in chunks with prepared statements, and may fail at each of them. *)
(*                                                                         *)
(* All records of a table share one INSERT in this program, so that the    *)
(* table stands for Signature.  A row is the record that made it.  Names    *)
(* that Collector has too begin with Writer: the proofs extend both.        *)
(***************************************************************************)
EXTENDS Naturals, Sequences, FiniteSets

CONSTANTS
    Records,      \* records with fields table, key, val
    Conflict,     \* for each table "ignore", "replace", or "fail" (no unique key)
    Columns,      \* for each table the number of its columns
    MaxVars, MaxRowsPerStmt,
    BatchCap,     \* capacity of the adapter's batch
    BatchSize,    \* records after which the writer flushes
    QueueSize,
    MaxStmts,     \* prepared statements that are kept
    WriterFaults, \* subset of {"begin", "prepare", "insert", "state", "commit"}
    MaxEmitted    \* bound: records emitted

Tables == DOMAIN Conflict

WriterParameters ==
    /\ \A r \in Records : r.table \in Tables
    /\ Conflict \in [Tables -> {"ignore", "replace", "fail"}]
    /\ Columns \in [Tables -> Nat \ {0}]
    /\ {MaxVars, MaxRowsPerStmt, BatchCap, BatchSize, QueueSize} \subseteq Nat \ {0}
    /\ MaxStmts \in Nat /\ MaxEmitted \in Nat

ASSUME WriterAssumption == WriterParameters

VARIABLES
    array,      \* the adapter's batch buffer, with what is left in it of earlier batches
    length,     \* length of the batch
    emitted,    \* records the adapter emitted, in order
    open,       \* Run has not closed the queue
    ch,         \* the queue
    at,         \* where the writer is
    buf,        \* w.buf
    pending,    \* w.pendingState, as the number of records emitted before it, 0 for none
    stmts,      \* w.stmts, as pairs of a table and a number of rows
    work,       \* the tables as the open transaction sees them
    groups,     \* groups the transaction has not inserted yet
    start,      \* rows of the first of them that it has inserted
    tables,     \* the database: for each table its rows, in the order of insertion
    saved,      \* the state in the database
    inserted, duplicates,   \* of stats
    committed   \* records in committed transactions

adapterVars == <<open, array, length, emitted>>
txVars == <<work, groups, start>>
dbVars == <<tables, saved, committed>>
writerVars == <<adapterVars, ch, at, buf, pending, stmts, txVars, dbVars, inserted, duplicates>>

NoRows == [t \in Tables |-> <<>>]

WriterInit ==
    /\ open = TRUE /\ array = <<>> /\ length = 0 /\ emitted = <<>>
    /\ ch = <<>> /\ at = "select" /\ buf = <<>> /\ pending = 0 /\ stmts = {}
    /\ work = NoRows /\ groups = <<>> /\ start = 0
    /\ tables = NoRows /\ saved = 0 /\ committed = 0
    /\ inserted = 0 /\ duplicates = 0

-----------------------------------------------------------------------------
(* The adapter. *)

(* batch = append(batch, record) writes over what an earlier batch left.    *)
Fill(r) ==
    /\ open /\ length < BatchCap /\ Len(emitted) + length < MaxEmitted
    /\ array' = IF length < Len(array) THEN [array EXCEPT ![length + 1] = r] ELSE Append(array, r)
    /\ length' = length + 1
    /\ UNCHANGED <<open, emitted, ch, at, buf, pending, stmts, txVars, dbVars, inserted, duplicates>>

Batch == SubSeq(array, 1, length)

(* A message of records, and what its receiver reads in it.  Faulty         *)
(* variant: Emit does not copy the batch.                                   *)
SharedBatch == [shared |-> TRUE, recs |-> Batch, state |-> 0]
CopiedBatch == [shared |-> FALSE, recs |-> Batch, state |-> 0]
RecordsOf(m) == IF m.shared THEN SubSeq(array, 1, Len(m.recs)) ELSE m.recs

Send(m) == Len(ch) < QueueSize /\ ch' = Append(ch, m)

Emit ==
    /\ open /\ length > 0
    /\ Send(CopiedBatch)
    /\ emitted' = emitted \o Batch
    /\ length' = 0
    /\ UNCHANGED <<open, array, at, buf, pending, stmts, txVars, dbVars, inserted, duplicates>>

PutState ==
    /\ open /\ emitted # <<>>
    /\ Send([shared |-> FALSE, recs |-> <<>>, state |-> Len(emitted)])
    /\ UNCHANGED <<adapterVars, at, buf, pending, stmts, txVars, dbVars, inserted, duplicates>>

-----------------------------------------------------------------------------
(* The loop of the writer's goroutine. *)

Receive ==
    /\ at = "select" /\ ch # <<>>
    /\ ch' = Tail(ch)
    /\ buf' = buf \o RecordsOf(Head(ch))
    /\ pending' = IF Head(ch).state > 0 THEN Head(ch).state ELSE pending
    /\ at' = IF Len(buf') >= BatchSize THEN "begin" ELSE "select"
    /\ UNCHANGED <<adapterVars, stmts, txVars, dbVars, inserted, duplicates>>

Tick ==
    /\ at = "select" /\ buf # <<>>
    /\ at' = "begin"
    /\ UNCHANGED <<adapterVars, ch, buf, pending, stmts, txVars, dbVars, inserted, duplicates>>

(* Collect has returned, maybe with records it did not emit. *)
CloseQueue ==
    /\ open /\ open' = FALSE
    /\ UNCHANGED <<array, length, emitted, ch, at, buf, pending, stmts, txVars, dbVars,
                   inserted, duplicates>>

(* The last flush. *)
QueueClosed ==
    /\ at = "select" /\ ~open /\ ch = <<>>
    /\ at' = IF buf = <<>> /\ pending = 0 THEN "closed" ELSE "begin"
    /\ UNCHANGED <<adapterVars, ch, buf, pending, stmts, txVars, dbVars, inserted, duplicates>>

-----------------------------------------------------------------------------
(* Flush. *)

(* The elements of s that are in S, in their order. *)
Those(s, S) ==
    LET those[n \in 0..Len(s)] ==
            IF n = 0 THEN <<>>
            ELSE IF s[n] \in S THEN Append(those[n - 1], s[n]) ELSE those[n - 1]
    IN  those[Len(s)]

OfTable(s, t) == Those(s, {r \in Records : r.table = t})

(* group: the tables in the order in which they appear first, and a group   *)
(* for each.                                                                *)
Order(s) ==
    LET order[n \in 0..Len(s)] ==
            IF n = 0 THEN <<>>
            ELSE LET before == order[n - 1]
                 IN  IF \E i \in DOMAIN before : before[i] = s[n].table
                     THEN before ELSE Append(before, s[n].table)
    IN  order[Len(s)]
Group(s) == [i \in DOMAIN Order(s) |-> OfTable(s, Order(s)[i])]

Begin ==
    /\ at = "begin"
    /\ at' = "insert"
    /\ work' = tables /\ groups' = Group(buf) /\ start' = 0
    /\ UNCHANGED <<adapterVars, ch, buf, pending, stmts, dbVars, inserted, duplicates>>

(* The rows of a statement.  Faulty variant: the last, partial chunk is     *)
(* left out.                                                                *)
AtLeastOne(n) == IF n < 1 THEN 1 ELSE n
Lesser(m, n) == IF m < n THEN m ELSE n
PerStmt(t) == Lesser(AtLeastOne(MaxVars \div Columns[t]), MaxRowsPerStmt)
FullChunk(g) ==
    IF start + PerStmt(g[1].table) <= Len(g) THEN SubSeq(g, start + 1, start + PerStmt(g[1].table))
                                             ELSE <<>>
Chunk(g) == SubSeq(g, start + 1, Lesser(start + PerStmt(g[1].table), Len(g)))

(* What SQLite makes of a row.                                              *)
SameKey(r, s) == r.key = s.key
InsertRow(rows, r) ==
    CASE Conflict[r.table] = "fail" -> Append(rows, r)
      [] Conflict[r.table] = "ignore" ->
            IF \E i \in DOMAIN rows : SameKey(rows[i], r) THEN rows ELSE Append(rows, r)
      [] Conflict[r.table] = "replace" -> Append(Those(rows, {s \in Records : ~SameKey(s, r)}), r)

RowsAfter(rows, recs) ==
    LET after[n \in 0..Len(recs)] ==
            IF n = 0 THEN rows ELSE InsertRow(after[n - 1], recs[n])
    IN  after[Len(recs)]

(* Rows affected: the ignored ones are not.                                 *)
Affected(t, rows, recs) ==
    IF Conflict[t] = "ignore" THEN Len(RowsAfter(rows, recs)) - Len(rows) ELSE Len(recs)

(* The duplicates of a statement.  Faulty variant: those of its group.      *)
DuplicatesOfGroup(g, n) == Len(g) - n
DuplicatesOf(g, n) == Len(Chunk(g)) - n

(* prepared. *)
Shape(g) == <<g[1].table, Len(Chunk(g))>>
Prepared(g) ==
    IF Shape(g) \in stmts THEN stmts
    ELSE (IF Cardinality(stmts) > MaxStmts THEN {} ELSE stmts) \cup {Shape(g)}

InsertChunk ==
    /\ at = "insert" /\ groups # <<>>
    /\ LET g == Head(groups)
           t == g[1].table
           n == Affected(t, work[t], Chunk(g))
           next == start + PerStmt(t)
       IN  /\ stmts' = Prepared(g)
           /\ work' = [work EXCEPT ![t] = RowsAfter(@, Chunk(g))]
           /\ inserted' = inserted + n
           /\ duplicates' = duplicates + DuplicatesOf(g, n)
           /\ IF next < Len(g) THEN start' = next /\ UNCHANGED groups
                               ELSE start' = 0 /\ groups' = Tail(groups)
    /\ UNCHANGED <<adapterVars, ch, at, buf, pending, dbVars>>

CommitFlush ==
    /\ at = "insert" /\ groups = <<>>
    /\ tables' = work
    /\ saved' = IF pending > 0 THEN pending ELSE saved
    /\ committed' = committed + Len(buf)
    /\ buf' = <<>> /\ pending' = 0
    /\ at' = "select"
    /\ UNCHANGED <<adapterVars, ch, stmts, txVars, inserted, duplicates>>

(* An error on the way: the transaction is rolled back and the writer       *)
(* gives up; drain empties the queue from now on.                           *)
Failing(fault) ==
    CASE fault = "begin" -> at = "begin"
      [] fault = "prepare" -> at = "insert" /\ groups # <<>> /\ Shape(Head(groups)) \notin stmts
      [] fault = "insert" -> at = "insert" /\ groups # <<>>
      [] fault = "state" -> at = "insert" /\ groups = <<>> /\ pending > 0
      [] fault = "commit" -> at = "insert" /\ groups = <<>>

Fail ==
    /\ \E fault \in WriterFaults : Failing(fault)
    /\ at' = "dead" /\ ch' = <<>>
    /\ UNCHANGED <<adapterVars, buf, pending, stmts, txVars, dbVars, inserted, duplicates>>

Over == at \in {"closed", "dead"} /\ ~open /\ UNCHANGED writerVars

WriterNext ==
    \/ \E r \in Records : Fill(r)
    \/ Emit \/ PutState \/ CloseQueue
    \/ Receive \/ Tick \/ QueueClosed
    \/ Begin \/ InsertChunk \/ CommitFlush \/ Fail \/ Over

WriterSpec == WriterInit /\ [][WriterNext]_writerVars

-----------------------------------------------------------------------------
(* Every variable holds a value of its type. *)
WriterTypeOK ==
    /\ open \in BOOLEAN /\ array \in Seq(Records) /\ length \in 0..BatchCap /\ emitted \in Seq(Records)
    /\ Len(ch) <= QueueSize /\ buf \in Seq(Records)
    /\ at \in {"select", "begin", "insert", "closed", "dead"}
    /\ {pending, saved, committed, inserted, duplicates, start} \subseteq Nat
    /\ stmts \subseteq Tables \X Nat
    /\ work \in [Tables -> Seq(Records)] /\ tables \in [Tables -> Seq(Records)]

(* The tables after the first n emitted records, inserted one by one.       *)
OneByOne(n) == [t \in Tables |-> RowsAfter(<<>>, OfTable(SubSeq(emitted, 1, n), t))]

(* Grouping, chunks, a batch buffer that is used again "as soon as Emit     *)
(* returns" (runner.go:193), a full queue, a failure at any statement: what *)
(* the database holds is always what inserting an initial part of the       *)
(* emitted records one by one would have left, and the saved state is not   *)
(* ahead of it.                                                             *)
LikeOneByOne == tables = OneByOne(committed) /\ saved <= committed

(* Between two flushes the counters say exactly what those insertions did:  *)
(* every committed record either changed a row or counts once as a          *)
(* duplicate, and the duplicates are the records of the tables that ignore  *)
(* whose key an earlier record had.                                         *)
IsDuplicate(i) ==
    /\ Conflict[emitted[i].table] = "ignore"
    /\ \E j \in 1..(i - 1) :
          emitted[j].table = emitted[i].table /\ SameKey(emitted[j], emitted[i])
CountersExact ==
    at \in {"select", "begin", "closed"} =>
        /\ inserted + duplicates = committed
        /\ duplicates = Cardinality({i \in 1..committed : IsDuplicate(i)})
=============================================================================
