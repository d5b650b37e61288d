----------------------------- MODULE DatabaseProofs -----------------------------
(***************************************************************************)
(* Theorems about what src/internal/db leaves in the file: about Collector, *)
(* for every set of processes and sources, every number of migrations,     *)
(* starts and batches, and every number of things that go wrong, and about *)
(* Writer, for records, tables and limits of any kind and size.            *)
(***************************************************************************)
EXTENDS Collector, Writer, TLAPS, SequenceTheorems, FiniteSetTheorems, WellFoundedInduction

-----------------------------------------------------------------------------
(* Types. *)

RunRecord == [source : Sources, status : {"running", "completed", "cancelled", "failed"},
              records : Nat]
Database == [made : BOOLEAN, tables : SUBSET Versions, ledger : SUBSET Versions,
             runs : Seq(RunRecord), rows : SUBSET (Nat \X Nat), state : [Sources -> Nat \X Nat]]
Place == {"off", "create", "read", "migrate", "exec", "record",
          "loop", "reset", "start", "load", "collect", "close", "checkpoint"}
Process == [pc : Place, cmd : Command, ctx : {"live", "cancelled"},
            applied : SUBSET Versions, tx : SUBSET Versions, at : Nat \ {0}, run : Nat,
            batches : Nat, counted : Nat, err : {"nil", "limit", "collect"}, writeErr : BOOLEAN,
            failed : BOOLEAN, done : Seq(Nat)]

Typed ==
    /\ database \in Database /\ disk \in Database
    /\ proc \in [Procs -> Process]
    /\ orphans \subseteq Nat

-----------------------------------------------------------------------------
(* The inductive invariant. *)

InRun == {"load", "collect", "close"}
InTarget == {"reset", "start"} \cup InRun

(* A process has a run from its row on until Run returns: the row is there  *)
(* and says "running", and no other process has the run.                    *)
Held ==
    \A p \in Procs :
        /\ proc[p].pc \in InRun <=> proc[p].run # 0
        /\ proc[p].run # 0 =>
              /\ proc[p].run \in DOMAIN database.runs
              /\ database.runs[proc[p].run].status = "running"
              /\ \A q \in Procs \ {p} : proc[q].run # proc[p].run

(* The targets are taken in order, and each leaves an entry in done.        *)
Early == {"create", "read", "migrate", "exec", "record"}
InOrder(r) ==
    /\ r.pc \in Early => r.at = 1 /\ r.done = <<>>
    /\ r.pc \in InTarget => r.at <= Len(r.cmd.targets)
    /\ r.pc \in InTarget \cup {"loop"} =>
          r.at <= Len(r.cmd.targets) + 1 /\ r.at = Len(r.done) + 1
    /\ r.pc = "checkpoint" => Len(r.done) = Len(r.cmd.targets) \/ r.ctx = "cancelled"
Progress == \A p \in Procs : InOrder(proc[p])

(* As long as no target of a process has failed, those it is done with have *)
(* a row that says so, or will never say so; and once one has failed, one   *)
(* of them has no row, one that says so, or one that never will.            *)
FailedAt(p, i) ==
    /\ Bad(proc[p].done[i])
    /\ proc[p].done[i] \in DOMAIN database.runs \cup {0} \cup orphans
Sincere(p) ==
    /\ ~proc[p].failed => \A i \in DOMAIN proc[p].done :
          proc[p].done[i] \in DOMAIN database.runs /\ Good(proc[p].done[i])
    /\ proc[p].failed => \E i \in DOMAIN proc[p].done : FailedAt(p, i)
Honest == \A p \in Procs : Sincere(p)

(* What a process takes for applied is an initial part of the versions and  *)
(* recorded; it has begun a migration only if one is missing, the next one. *)
Migrating ==
    \A p \in Procs : proc[p].pc \in {"migrate", "exec", "record"} =>
        \E u \in 0..LastVersion :
            /\ proc[p].applied = 1..u /\ 1..u \subseteq database.ledger
            /\ proc[p].pc \in {"exec", "record"} => u < LastVersion
            /\ proc[p].pc = "record" => proc[p].tx = {u + 1}

-----------------------------------------------------------------------------
(* Type correctness. *)

LEMMA OffType == Off \in Process
  BY DEF Off, Process, Place, Command

LEMMA EmptyType == Empty \in Database
  BY DEF Empty, Database, NoState

(* One transaction: the disk has it or not. *)
LEMMA CommitOne ==
    ASSUME NEW db, CommitAll(<<db>>)
    PROVE  database' = db /\ disk' \in {disk, db}
  <1>1. Len(<<db>>) = 1 /\ <<db>>[1] = db
    OBVIOUS
  <1>2. database' = db
    BY <1>1 DEF CommitAll
  <1>3. PICK n \in 0..1 : disk' = IF n = 0 THEN disk ELSE <<db>>[n]
    BY <1>1 DEF CommitAll
  <1> QED
    BY <1>1, <1>2, <1>3

LEMMA CommitType ==
    ASSUME Typed, NEW db \in Database, CommitAll(<<db>>)
    PROVE  database' \in Database /\ disk' \in Database
  BY CommitOne DEF Typed

LEMMA PlaceType ==
    ASSUME NEW r \in Process, NEW q \in Place
    PROVE  [r EXCEPT !.pc = q] \in Process
  BY DEF Process

LEMMA ProcessUpdates ==
    ASSUME NEW r \in Process, NEW q \in Place
    PROVE  /\ \A c \in Command : [r EXCEPT !.pc = q, !.cmd = c] \in Process
           /\ \A S \in SUBSET Versions : [r EXCEPT !.pc = q, !.applied = S] \in Process
           /\ \A S \in SUBSET Versions : [r EXCEPT !.pc = q, !.tx = S] \in Process
           /\ \A S, T \in SUBSET Versions :
                 [r EXCEPT !.pc = q, !.applied = S, !.tx = T] \in Process
           /\ \A n \in Nat : [r EXCEPT !.pc = q, !.run = n] \in Process
           /\ \A err \in {"nil", "limit", "collect"} : [r EXCEPT !.pc = q, !.err = err] \in Process
  BY DEF Process

LEMMA CounterUpdates ==
    ASSUME NEW r \in Process
    PROVE  /\ \A m, n \in Nat : [r EXCEPT !.batches = m, !.counted = n] \in Process
           /\ \A n \in Nat : [r EXCEPT !.writeErr = TRUE, !.counted = n] \in Process
           /\ [r EXCEPT !.ctx = "cancelled"] \in Process
  BY DEF Process

LEMMA GotoType ==
    ASSUME Typed, NEW p \in Procs, NEW q \in Place, Goto(p, q)
    PROVE  proc' \in [Procs -> Process]
  <1>1. proc' = [proc EXCEPT ![p] = [proc[p] EXCEPT !.pc = q]]
    BY DEF Goto
  <1>2. [proc[p] EXCEPT !.pc = q] \in Process
    BY PlaceType DEF Typed
  <1> QED
    BY <1>1, <1>2, Zenon DEF Typed

LEMMA GoneType ==
    ASSUME Typed, NEW p \in Procs, Gone(p)
    PROVE  proc' \in [Procs -> Process]
  BY OffType, Zenon DEF Typed, Gone

LEMMA ReturnedType ==
    ASSUME Typed, NEW p \in Procs, NEW err, Returned(p, err)
    PROVE  proc' \in [Procs -> Process]
  <1>1. ASSUME NEW r \in Process, NEW b \in BOOLEAN, NEW n \in Nat \ {0}, NEW d \in Seq(Nat)
        PROVE  [r EXCEPT !.pc = "loop", !.at = n,
                         !.run = 0, !.batches = 0, !.counted = 0, !.err = "nil", !.writeErr = FALSE,
                         !.failed = b, !.done = d] \in Process
    BY DEF Process, Place
  <1>2. Failed(p, err) \in BOOLEAN
    BY DEF Failed
  <1>3. /\ proc[p].at + 1 \in Nat \ {0} /\ Append(proc[p].done, proc[p].run) \in Seq(Nat)
        /\ proc[p] \in Process
    BY DEF Process, Typed
  <1>4. [proc[p] EXCEPT !.pc = "loop", !.at = @ + 1,
                         !.run = 0, !.batches = 0, !.counted = 0, !.err = "nil", !.writeErr = FALSE,
                         !.failed = Failed(p, err), !.done = Append(@, proc[p].run)] \in Process
    BY <1>1, <1>2, <1>3
  <1> QED
    BY <1>4 DEF Returned, Advanced, Typed

LEMMA InitType == Init => Typed
  <1> SUFFICES ASSUME Init
               PROVE  Typed
    OBVIOUS
  <1>1. PICK n \in 0..LastVersion :
            database = [Empty EXCEPT !.made = n > 0, !.tables = 1..n, !.ledger = 1..n]
    BY DEF Init
  <1>2. 1..n \subseteq Versions /\ (n > 0) \in BOOLEAN
    BY CollectorAssumption DEF Versions
  <1>3. ASSUME NEW b \in BOOLEAN, NEW S \in SUBSET Versions
        PROVE  [Empty EXCEPT !.made = b, !.tables = S, !.ledger = S] \in Database
    BY EmptyType DEF Database
  <1>4. database \in Database
    BY <1>1, <1>2, <1>3
  <1> QED
    BY <1>4, OffType DEF Init, Typed

(* The steps that commit something. *)
LEMMA DatabaseUpdates ==
    ASSUME NEW db \in Database
    PROVE  /\ [db EXCEPT !.made = TRUE] \in Database
           /\ \A S \in SUBSET Versions :
                 [db EXCEPT !.tables = @ \cup S, !.ledger = @ \cup S] \in Database
           /\ \A s \in Sources, st \in Nat \X Nat : [db EXCEPT !.state[s] = st] \in Database
           /\ \A r \in RunRecord : [db EXCEPT !.runs = Append(@, r)] \in Database
           /\ \A i \in DOMAIN db.runs, r \in RunRecord : [db EXCEPT !.runs[i] = r] \in Database
           /\ \A b \in Nat \X Nat : [db EXCEPT !.rows = @ \cup {b}] \in Database
  <1> USE DEF Database
  <1>1. [db EXCEPT !.made = TRUE] \in Database
    OBVIOUS
  <1>2. ASSUME NEW S \in SUBSET Versions
        PROVE  [db EXCEPT !.tables = @ \cup S, !.ledger = @ \cup S] \in Database
    OBVIOUS
  <1>3. ASSUME NEW s \in Sources, NEW st \in Nat \X Nat
        PROVE  [db EXCEPT !.state[s] = st] \in Database
    <2>1. [db.state EXCEPT ![s] = st] \in [Sources -> Nat \X Nat]
      OBVIOUS
    <2> QED
      BY <2>1
  <1>4. ASSUME NEW r \in RunRecord
        PROVE  [db EXCEPT !.runs = Append(@, r)] \in Database
    <2>1. Append(db.runs, r) \in Seq(RunRecord)
      OBVIOUS
    <2> QED
      BY <2>1
  <1>5. ASSUME NEW i \in DOMAIN db.runs, NEW r \in RunRecord
        PROVE  [db EXCEPT !.runs[i] = r] \in Database
    <2>1. [db.runs EXCEPT ![i] = r] \in Seq(RunRecord)
      BY ExceptSeq, LenProperties
    <2> QED
      BY <2>1
  <1>6. ASSUME NEW b \in Nat \X Nat
        PROVE  [db EXCEPT !.rows = @ \cup {b}] \in Database
    OBVIOUS
  <1> QED
    BY <1>1, <1>2, <1>3, <1>4, <1>5, <1>6

(* The smallest version that is missing after 1..u is u + 1. *)
LEMMA NextVersionIs ==
    ASSUME NEW p \in Procs, NEW u \in 0..LastVersion, proc[p].applied = 1..u
    PROVE  /\ Pending(p) # {} <=> u < LastVersion
           /\ Pending(p) # {} => NextVersion(p) = u + 1 /\ u + 1 \in Versions
  <1> USE CollectorAssumption
  <1>1. \A v \in Nat : v \in Pending(p) <=> v > u /\ v <= LastVersion
    BY DEF Pending, Versions
  <1>2. Pending(p) \subseteq Nat
    BY DEF Pending, Versions
  <1>3. Pending(p) # {} <=> u < LastVersion
    BY <1>1, <1>2
  <1>4. ASSUME Pending(p) # {}
        PROVE  NextVersion(p) = u + 1 /\ u + 1 \in Versions
    <2>1. u + 1 \in Pending(p) /\ \A w \in Pending(p) : u + 1 <= w
      BY <1>1, <1>2, <1>3, <1>4
    <2>2. \A v \in Pending(p) : (\A w \in Pending(p) : v <= w) => v = u + 1
      BY <1>2, <2>1
    <2>3. NextVersion(p) = u + 1
      BY <2>1, <2>2 DEF NextVersion
    <2> QED
      BY <2>1, <2>3 DEF Pending
  <1> QED
    BY <1>3, <1>4

LEMMA CommitMigrationType ==
    ASSUME Typed, NEW p \in Procs, CommitMigration(p)
    PROVE  Typed'
  <1>1. Applied(p) \in Database
    BY DatabaseUpdates DEF Typed, Applied, Process
  <1>2. database' \in Database /\ disk' \in Database
    BY <1>1, CommitType DEF CommitMigration, MigrationCommits
  <1>3. /\ proc[p] \in Process /\ proc[p].applied \in SUBSET Versions
        /\ proc[p].tx \in SUBSET Versions
    BY DEF Typed, Process
  <1>4. [proc[p] EXCEPT !.pc = "migrate", !.applied = @ \cup proc[p].tx, !.tx = {}] \in Process
    BY <1>3, ProcessUpdates DEF Place
  <1>5. proc' \in [Procs -> Process]
    BY <1>4 DEF CommitMigration, Typed
  <1> QED
    BY <1>2, <1>5 DEF CommitMigration, Typed

LEMMA CurrentRun ==
    ASSUME Typed, Held, NEW p \in Procs, proc[p].pc \in InRun
    PROVE  /\ proc[p].run \in DOMAIN database.runs /\ proc[p].run \in Nat \ {0}
           /\ RunRow(p) \in RunRecord
           /\ DOMAIN database.runs = 1..Len(database.runs)
  <1>1. proc[p].run # 0 /\ proc[p].run \in DOMAIN database.runs
    BY DEF Held
  <1>2. database.runs \in Seq(RunRecord) /\ proc[p].run \in Nat
    BY DEF Typed, Database, Process
  <1>3. DOMAIN database.runs = 1..Len(database.runs)
    BY <1>2, LenProperties
  <1> QED
    BY <1>1, <1>2, <1>3, ElementOfSeq DEF RunRow

LEMMA CurrentSource ==
    ASSUME Typed, Progress, NEW p \in Procs, proc[p].pc \in InTarget
    PROVE  Source(p) \in Sources
  <1>1. proc[p].at \in 1..Len(proc[p].cmd.targets) /\ proc[p].cmd.targets \in Seq(Sources)
    BY LenProperties DEF Typed, Progress, InOrder, Process, Command
  <1> QED
    BY <1>1, ElementOfSeq DEF Source, Targets

LEMMA ClosedRowType ==
    ASSUME Typed, Held, NEW p \in Procs, proc[p].pc \in InRun
    PROVE  FinalRow(p) \in RunRecord
  <1>1. RunRow(p) \in RunRecord
    BY CurrentRun
  <1>2. Status(p) \in {"completed", "cancelled", "failed"}
    BY DEF Status
  <1>3. proc[p].counted \in Nat
    BY DEF Typed, Process
  <1> QED
    BY <1>1, <1>2, <1>3 DEF FinalRow, ClosedRow, RunRecord

LEMMA TypeStep == Typed /\ Held /\ Progress /\ Migrating /\ [Next]_vars => Typed'
  <1> SUFFICES ASSUME Typed, Held, Progress, Migrating, [Next]_vars
               PROVE  Typed'
    OBVIOUS
  <1> USE DEF At
  <1>0. \A p \in Procs : proc[p] \in Process
    BY DEF Typed
  <1>1. ASSUME NEW p \in Procs, Start(p)
        PROVE  Typed'
    <2>1. PICK c \in Commands[p] : proc' = [proc EXCEPT ![p] = [Off EXCEPT !.pc = "create", !.cmd = c]]
      BY <1>1 DEF Start
    <2>2. c \in Command
      BY CollectorAssumption
    <2>3. [Off EXCEPT !.pc = "create", !.cmd = c] \in Process
      BY <2>2, OffType, ProcessUpdates DEF Place
    <2>4. proc' \in [Procs -> Process]
      BY <2>1, <2>3, Zenon DEF Typed
    <2> QED
      BY <1>1, <2>4 DEF Start, Typed
  <1>2. ASSUME NEW p \in Procs, CreateLedger(p)
        PROVE  Typed'
    <2>1. [database EXCEPT !.made = TRUE] \in Database
      BY DatabaseUpdates DEF Typed
    <2>2. database' \in Database /\ disk' \in Database
      BY <1>2, <2>1, CommitType DEF CreateLedger, Commit
    <2>3. proc' \in [Procs -> Process]
      BY <1>2, GotoType DEF CreateLedger, Place
    <2> QED
      BY <1>2, <2>2, <2>3 DEF CreateLedger, Typed
  <1>3. ASSUME NEW p \in Procs, ReadApplied(p)
        PROVE  Typed'
    <2>1. [proc[p] EXCEPT !.pc = "migrate", !.applied = database.ledger] \in Process
      BY <1>0, ProcessUpdates DEF Place, Typed, Database
    <2> QED
      BY <1>3, <2>1 DEF ReadApplied, Typed
  <1>4. ASSUME NEW p \in Procs, BeginMigration(p) \/ NextTarget(p) \/ LoopEnds(p) \/ LoadState(p)
        PROVE  Typed'
    <2>1. PICK q \in Place : Goto(p, q)
      BY <1>4 DEF BeginMigration, NextTarget, LoopEnds, LoadState, Place
    <2>2. UNCHANGED <<database, disk, orphans>>
      BY <1>4 DEF BeginMigration, NextTarget, LoopEnds, LoadState
    <2> QED
      BY <2>1, <2>2, GotoType DEF Typed
  <1>5. ASSUME NEW p \in Procs, ExecMigration(p)
        PROVE  Typed'
    <2>1. NextVersion(p) \in Versions
      <3>1. PICK u \in 0..LastVersion : proc[p].applied = 1..u /\ u < LastVersion
        BY <1>5 DEF ExecMigration, Migrating
      <3> QED
        BY <3>1, NextVersionIs
    <2> DEFINE T == {NextVersion(p)}
    <2>2. [proc[p] EXCEPT !.pc = "record", !.tx = T] \in Process
      <3>1. T \in SUBSET Versions /\ "record" \in Place
        BY <2>1 DEF Place
      <3> HIDE DEF T
      <3> QED
        BY <1>0, <3>1, ProcessUpdates
    <2> QED
      BY <1>5, <2>2 DEF ExecMigration, Typed
  <1>6. ASSUME NEW p \in Procs, CommitMigration(p)
        PROVE  Typed'
    BY <1>6, CommitMigrationType
  <1>7. ASSUME NEW p \in Procs, MigrateFails(p) \/ ClearStateFails(p) \/ CheckpointFails(p)
        PROVE  Typed'
    <2>1. Gone(p) /\ UNCHANGED <<database, disk, orphans>>
      BY <1>7 DEF MigrateFails, ClearStateFails, CheckpointFails
    <2> QED
      BY <2>1, GoneType DEF Typed
  <1>8. ASSUME NEW p \in Procs, Migrated(p)
        PROVE  Typed'
    <2>1. [proc[p] EXCEPT !.pc = "loop", !.applied = {}] \in Process
      BY <1>0, ProcessUpdates DEF Place
    <2>2. Gone(p) \/ proc' = [proc EXCEPT ![p].pc = "loop", ![p].applied = {}]
      BY <1>8 DEF Migrated
    <2>3. proc' \in [Procs -> Process]
      BY <2>1, <2>2, GoneType DEF Typed
    <2> QED
      BY <1>8, <2>3 DEF Migrated, Typed
  <1>9. ASSUME NEW p \in Procs, ClearState(p)
        PROVE  Typed'
    <2>1. Source(p) \in Sources /\ NoState \in Nat \X Nat
      BY <1>9, CurrentSource DEF ClearState, InTarget, NoState
    <2>2. [database EXCEPT !.state[Source(p)] = NoState] \in Database
      BY <2>1, DatabaseUpdates DEF Typed
    <2>3. database' \in Database /\ disk' \in Database
      BY <1>9, <2>2, CommitType DEF ClearState, Commit
    <2>4. proc' \in [Procs -> Process]
      BY <1>9, GotoType DEF ClearState, Place
    <2> QED
      BY <1>9, <2>3, <2>4 DEF ClearState, Typed
  <1>10. ASSUME NEW p \in Procs, StartRun(p)
         PROVE  Typed'
    <2>1. Source(p) \in Sources
      BY <1>10, CurrentSource DEF StartRun, InTarget
    <2> DEFINE r == [source |-> Source(p), status |-> "running", records |-> 0]
    <2>2. r \in RunRecord
      BY <2>1 DEF RunRecord
    <2>3. [database EXCEPT !.runs = Append(@, r)] \in Database
      BY <2>2, DatabaseUpdates DEF Typed
    <2>4. database' \in Database /\ disk' \in Database
      BY <1>10, <2>3, CommitType DEF StartRun, Commit
    <2>5. Len(database.runs) + 1 \in Nat
      BY LenProperties DEF Typed, Database
    <2>6. [proc[p] EXCEPT !.pc = "load", !.run = Len(database.runs) + 1] \in Process
      BY <1>0, <2>5, ProcessUpdates DEF Place
    <2>7. proc' \in [Procs -> Process]
      BY <1>10, <2>6 DEF StartRun, Typed
    <2> QED
      BY <1>10, <2>4, <2>7 DEF StartRun, Typed
  <1>11. ASSUME NEW p \in Procs, StartRunFails(p)
         PROVE  Typed'
    BY <1>11, ReturnedType DEF StartRunFails, Typed
  <1>12. ASSUME NEW p \in Procs, LoadStateFails(p) \/ FinishRunFails(p)
         PROVE  Typed'
    <2>1. /\ orphans' = orphans \cup {proc[p].run} /\ UNCHANGED <<database, disk>>
          /\ \E err : Returned(p, err)
      BY <1>12 DEF LoadStateFails, FinishRunFails
    <2>2. proc[p].run \in Nat
      BY <1>0 DEF Process
    <2> QED
      BY <2>1, <2>2, ReturnedType DEF Typed
  <1>13. ASSUME NEW p \in Procs, FinishRun(p)
         PROVE  Typed'
    <2>1. FinalRow(p) \in RunRecord /\ proc[p].run \in DOMAIN database.runs
      BY <1>13, CurrentRun, ClosedRowType DEF FinishRun, InRun
    <2>2. [database EXCEPT !.runs[proc[p].run] = FinalRow(p)] \in Database
      BY <2>1, DatabaseUpdates DEF Typed
    <2>3. database' \in Database /\ disk' \in Database
      BY <1>13, <2>2, CommitType DEF FinishRun, Commit, WithRun
    <2> QED
      BY <1>13, <2>3, ReturnedType DEF FinishRun, Typed
  <1>14. ASSUME NEW p \in Procs, Checkpoint(p)
         PROVE  Typed'
    BY <1>14, GoneType DEF Checkpoint, Typed
  <1>15. ASSUME NEW p \in Procs, Flush(p)
         PROVE  Typed'
    <2>1. PICK new \in FlushCommits(p) : CommitAll(new)
      BY <1>15 DEF Flush
    <2>2. /\ <<proc[p].run, proc[p].batches + 1>> \in Nat \X Nat
          /\ proc[p].batches + 1 \in Nat /\ proc[p].counted + 1 \in Nat
      BY <1>0 DEF Process
    <2>3. Written(p) \in Database
      BY <2>2, DatabaseUpdates DEF Typed, Written
    <2>4. Source(p) \in Sources
      BY <1>15, CurrentSource DEF Flush, InTarget, InRun
    <2>5. Covered(Written(p), p) \in Database
      BY <2>2, <2>3, <2>4, DatabaseUpdates DEF Covered
    <2>6. database' \in Database /\ disk' \in Database
      BY <2>1, <2>3, <2>5, CommitType DEF FlushCommits
    <2>7. [proc[p] EXCEPT !.batches = @ + 1, !.counted = @ + 1] \in Process
      BY <1>0, <2>2, CounterUpdates
    <2>8. proc' \in [Procs -> Process]
      BY <1>15, <2>7 DEF Flush, Typed
    <2> QED
      BY <1>15, <2>6, <2>8 DEF Flush, Typed
  <1>16. ASSUME NEW p \in Procs, FlushFails(p)
         PROVE  Typed'
    <2>1. PICK n \in 0..1 : proc' = [proc EXCEPT ![p].writeErr = TRUE, ![p].counted = @ + n]
      BY <1>16 DEF FlushFails
    <2>2. proc[p].counted + n \in Nat
      BY <1>0 DEF Process
    <2>3. [proc[p] EXCEPT !.writeErr = TRUE, !.counted = @ + n] \in Process
      BY <1>0, <2>2, CounterUpdates
    <2> QED
      BY <1>16, <2>1, <2>3 DEF FlushFails, Typed
  <1>17. ASSUME NEW p \in Procs, Collected(p)
         PROVE  Typed'
    <2>1. PICK err \in {"nil", "limit", "collect"} : proc' = [proc EXCEPT ![p].pc = "close", ![p].err = err]
      BY <1>17 DEF Collected
    <2>2. [proc[p] EXCEPT !.pc = "close", !.err = err] \in Process
      BY <1>0, ProcessUpdates DEF Place
    <2> QED
      BY <1>17, <2>1, <2>2 DEF Collected, Typed
  <1>18. ASSUME NEW p \in Procs, Interrupt(p)
         PROVE  Typed'
    <2>1. [proc[p] EXCEPT !.ctx = "cancelled"] \in Process
      BY <1>0, CounterUpdates
    <2> QED
      BY <1>18, <2>1 DEF Interrupt, Typed
  <1>19. ASSUME NEW p \in Procs, Kill(p)
         PROVE  Typed'
    <2>1. proc[p].run \in Nat
      BY <1>0 DEF Process
    <2> QED
      BY <1>19, <2>1, GoneType DEF Kill, Typed
  <1>20. CASE PowerFails
    <2>1. disk.runs \in Seq(RunRecord)
      BY DEF Typed, Database
    <2>2. DOMAIN disk.runs \subseteq Nat
      BY <2>1, LenProperties
    <2> QED
      BY <1>20, <2>2, OffType DEF PowerFails, Typed
  <1>21. CASE UNCHANGED vars
    BY <1>21 DEF vars, Typed
  <1> QED
    BY <1>1, <1>2, <1>3, <1>4, <1>5, <1>6, <1>7, <1>8, <1>9, <1>10, <1>11, <1>12, <1>13,
       <1>14, <1>15, <1>16, <1>17, <1>18, <1>19, <1>20, <1>21 DEF Next, Step, Finished

-----------------------------------------------------------------------------
(* The schema. *)

WholeSchema(db) == db.tables = db.ledger /\ \E v \in 0..LastVersion : db.ledger = 1..v

(* Every step but a migration leaves the schema of both databases as it is. *)
LEMMA SchemaKept ==
    ASSUME Typed, NEW p \in Procs,
           \/ Start(p) \/ (Step(p) /\ ~CommitMigration(p))
           \/ Flush(p) \/ FlushFails(p) \/ Collected(p) \/ Interrupt(p) \/ Kill(p)
    PROVE  /\ database'.tables = database.tables /\ database'.ledger = database.ledger
           /\ \E db \in {database, disk} :
                 disk'.tables = db.tables /\ disk'.ledger = db.ledger
  <1> DEFINE Same(db) == db.tables = database.tables /\ db.ledger = database.ledger
             Goal == /\ Same(database')
                     /\ \E db \in {database, disk} :
                           disk'.tables = db.tables /\ disk'.ledger = db.ledger
  <1>1. ASSUME NEW db, CommitAll(<<db>>), Same(db)
        PROVE  Goal
    BY <1>1, CommitOne
  <1>2. CASE UNCHANGED <<database, disk>>
    BY <1>2
  <1>3. CASE Checkpoint(p)
    BY <1>3 DEF Checkpoint
  <1>4. CASE CreateLedger(p)
    <2>1. Same([database EXCEPT !.made = TRUE])
      BY DEF Typed, Database
    <2> QED
      BY <1>1, <1>4, <2>1 DEF CreateLedger, Commit
  <1>5. CASE ClearState(p)
    <2>1. Same([database EXCEPT !.state[Source(p)] = NoState])
      BY DEF Typed, Database
    <2> QED
      BY <1>1, <1>5, <2>1 DEF ClearState, Commit
  <1>6. CASE StartRun(p)
    <2>1. Same([database EXCEPT !.runs = Append(@,
                   [source |-> Source(p), status |-> "running", records |-> 0])])
      BY DEF Typed, Database
    <2> QED
      BY <1>1, <1>6, <2>1 DEF StartRun, Commit
  <1>7. CASE FinishRun(p)
    <2>1. Same(WithRun(database, proc[p].run, FinalRow(p)))
      BY DEF Typed, Database, WithRun
    <2> QED
      BY <1>1, <1>7, <2>1 DEF FinishRun, Commit
  <1>8. CASE Flush(p)
    <2>1. Same(Written(p)) /\ Same(Covered(Written(p), p))
      BY DEF Typed, Database, Written, Covered
    <2> QED
      BY <1>1, <1>8, <2>1 DEF Flush, FlushCommits
  <1> QED
    BY <1>2, <1>3, <1>4, <1>5, <1>6, <1>7, <1>8
       DEF Step, Start, FlushFails, Collected, Interrupt, Kill, ReadApplied, BeginMigration,
           ExecMigration, MigrateFails, Migrated, NextTarget, LoopEnds, ClearStateFails,
           StartRunFails, LoadState, LoadStateFails, FinishRunFails, CheckpointFails

(* A step of one process leaves the others as they are. *)
LEMMA OthersKept ==
    ASSUME Typed, NEW p \in Procs,
           \/ Start(p) \/ Step(p) \/ Flush(p) \/ FlushFails(p) \/ Collected(p)
           \/ Interrupt(p) \/ Kill(p)
    PROVE  \A q \in Procs \ {p} : proc'[q] = proc[q]
  <1>1. ASSUME NEW r, proc' = [proc EXCEPT ![p] = r]
        PROVE  \A q \in Procs \ {p} : proc'[q] = proc[q]
    BY <1>1 DEF Typed
  <1>2. ASSUME Gone(p) PROVE \A q \in Procs \ {p} : proc'[q] = proc[q]
    BY <1>2 DEF Gone, Typed
  <1>3. ASSUME NEW err, Returned(p, err) PROVE \A q \in Procs \ {p} : proc'[q] = proc[q]
    BY <1>3 DEF Returned, Advanced, Typed
  <1>4. ASSUME NEW q, Goto(p, q) PROVE \A r \in Procs \ {p} : proc'[r] = proc[r]
    BY <1>4 DEF Goto, Typed
  <1>5. CASE Start(p) \/ FlushFails(p) \/ Collected(p) \/ Interrupt(p) \/ Kill(p)
    BY <1>1, <1>2, <1>5 DEF Start, FlushFails, Collected, Interrupt, Kill
  <1>6. CASE Flush(p)
    BY <1>1, <1>6 DEF Flush
  <1> QED
    BY <1>1, <1>2, <1>3, <1>4, <1>5, <1>6
       DEF Step, CreateLedger, ReadApplied, BeginMigration, ExecMigration, CommitMigration,
           MigrateFails, Migrated, NextTarget, LoopEnds, ClearState, ClearStateFails,
           StartRun, StartRunFails, LoadState, LoadStateFails, FinishRun, FinishRunFails,
           Checkpoint, CheckpointFails

SchemaOK ==
    /\ SchemaIsWhole /\ CollectsOnNewestSchema /\ Migrating

(* The places where the schema is the newest one. *)
SchemaReady == {"loop", "reset", "start"} \cup InRun

(* A step that leaves the schema alone, and with it what its process has    *)
(* learnt of it.                                                            *)
LEMMA SchemaStays ==
    ASSUME Typed, SchemaOK, NEW p \in Procs,
           \/ Start(p) \/ (Step(p) /\ ~CommitMigration(p))
           \/ Flush(p) \/ FlushFails(p) \/ Collected(p) \/ Interrupt(p) \/ Kill(p),
           proc'[p].pc \in SchemaReady => proc[p].pc \in SchemaReady \/ database.ledger = Versions,
           proc'[p].pc \in {"migrate", "exec", "record"} =>
               \E u \in 0..LastVersion :
                   /\ proc'[p].applied = 1..u /\ 1..u \subseteq database.ledger
                   /\ proc'[p].pc \in {"exec", "record"} => u < LastVersion
                   /\ proc'[p].pc = "record" => proc'[p].tx = {u + 1}
    PROVE  SchemaOK'
  <1>1. /\ database'.tables = database.tables /\ database'.ledger = database.ledger
        /\ \E db \in {database, disk} :
              disk'.tables = db.tables /\ disk'.ledger = db.ledger
    BY SchemaKept
  <1>2. \A q \in Procs \ {p} : proc'[q] = proc[q]
    BY OthersKept
  <1>3. SchemaIsWhole'
    BY <1>1 DEF SchemaOK, SchemaIsWhole
  <1>4. CollectsOnNewestSchema'
    BY <1>1, <1>2 DEF SchemaOK, CollectsOnNewestSchema, SchemaReady, InRun
  <1>5. Migrating'
    BY <1>1, <1>2 DEF SchemaOK, Migrating
  <1> QED
    BY <1>3, <1>4, <1>5 DEF SchemaOK

LEMMA SchemaCommit ==
    ASSUME Typed, SchemaOK, NEW p \in Procs, CommitMigration(p)
    PROVE  SchemaOK'
  <1> USE CollectorAssumption
  <1>1. PICK u \in 0..LastVersion :
            /\ proc[p].applied = 1..u /\ 1..u \subseteq database.ledger
            /\ u < LastVersion /\ proc[p].tx = {u + 1}
    BY DEF CommitMigration, At, SchemaOK, Migrating
  <1>2. PICK v \in 0..LastVersion : database.ledger = 1..v
    BY DEF SchemaOK, SchemaIsWhole
  <1>3. u = v
    <2>1. u + 1 \notin 1..v
      BY <1>1, <1>2 DEF CommitMigration
    <2>2. u <= v
      BY <1>1, <1>2
    <2> QED
      BY <2>1, <2>2
  <1>4. /\ Applied(p).ledger = 1..(u + 1) /\ Applied(p).tables = 1..(u + 1)
    <2>1. (1..u) \cup {u + 1} = 1..(u + 1)
      OBVIOUS
    <2>2. /\ Applied(p).ledger = database.ledger \cup proc[p].tx
          /\ Applied(p).tables = database.tables \cup proc[p].tx
      BY DEF Applied, Typed, Database
    <2>3. database.tables = database.ledger
      BY DEF SchemaOK, SchemaIsWhole
    <2> QED
      BY <1>1, <1>2, <1>3, <2>1, <2>2, <2>3
  <1>5. database' = Applied(p) /\ disk' \in {disk, Applied(p)}
    BY CommitOne DEF CommitMigration, MigrationCommits
  <1>6. \A q \in Procs \ {p} : proc'[q] = proc[q]
    BY OthersKept DEF Step
  <1>7. proc'[p].pc = "migrate" /\ proc'[p].applied = 1..(u + 1)
    <2>1. (1..u) \cup {u + 1} = 1..(u + 1)
      OBVIOUS
    <2> QED
      BY <1>1, <2>1 DEF CommitMigration, Typed, Process
  <1>8. SchemaIsWhole'
    BY <1>1, <1>4, <1>5 DEF SchemaOK, SchemaIsWhole
  <1>9. ~\E q \in Procs : proc[q].pc \in SchemaReady
    <2>1. u + 1 \in Versions /\ u + 1 \notin database.ledger
      BY <1>1 DEF Versions, CommitMigration
    <2> QED
      BY <2>1 DEF SchemaOK, CollectsOnNewestSchema, SchemaReady, InRun
  <1>10. CollectsOnNewestSchema'
    BY <1>6, <1>7, <1>9 DEF CollectsOnNewestSchema, SchemaReady, InRun
  <1>11. Migrating'
    <2>1. u + 1 \in 0..LastVersion
      BY <1>1
    <2>2. database.ledger \subseteq database'.ledger
      BY <1>2, <1>3, <1>4, <1>5
    <2> QED
      BY <1>4, <1>5, <1>6, <1>7, <2>1, <2>2 DEF SchemaOK, Migrating
  <1> QED
    BY <1>8, <1>10, <1>11 DEF SchemaOK

SameBut(p) ==
    /\ proc'[p].cmd = proc[p].cmd /\ proc'[p].ctx = proc[p].ctx
    /\ proc'[p].applied = proc[p].applied /\ proc'[p].tx = proc[p].tx
    /\ proc'[p].at = proc[p].at /\ proc'[p].run = proc[p].run
    /\ proc'[p].batches = proc[p].batches /\ proc'[p].counted = proc[p].counted
    /\ proc'[p].err = proc[p].err /\ proc'[p].writeErr = proc[p].writeErr
    /\ proc'[p].failed = proc[p].failed /\ proc'[p].done = proc[p].done

(* Where a step that neither migrates nor reads the ledger takes its        *)
(* process.                                                                 *)
LEMMA Landing ==
    ASSUME Typed, NEW p \in Procs
    PROVE  /\ Gone(p) => proc'[p] = Off
           /\ \A q : Goto(p, q) => proc'[p].pc = q /\ SameBut(p)
           /\ \A err : Returned(p, err) =>
                 /\ proc'[p].pc = "loop" /\ proc'[p].at = proc[p].at + 1 /\ proc'[p].run = 0
                 /\ proc'[p].batches = 0 /\ proc'[p].counted = 0 /\ ~proc'[p].writeErr
                 /\ proc'[p].cmd = proc[p].cmd /\ proc'[p].ctx = proc[p].ctx
                 /\ proc'[p].failed = Failed(p, err)
                 /\ proc'[p].done = Append(proc[p].done, proc[p].run)
  <1>1. Gone(p) => proc'[p] = Off
    BY DEF Gone, Typed
  <1>2. ASSUME NEW q, Goto(p, q)
        PROVE  proc'[p].pc = q /\ SameBut(p)
    <2>1. ASSUME NEW r \in Process, NEW new, new = [r EXCEPT !.pc = q]
          PROVE  /\ new.pc = q /\ new.cmd = r.cmd /\ new.ctx = r.ctx
                 /\ new.applied = r.applied /\ new.tx = r.tx /\ new.at = r.at
                 /\ new.run = r.run /\ new.batches = r.batches /\ new.counted = r.counted
                 /\ new.err = r.err /\ new.writeErr = r.writeErr
                 /\ new.failed = r.failed /\ new.done = r.done
      BY <2>1 DEF Process
    <2>2. proc'[p] = [proc[p] EXCEPT !.pc = q] /\ proc[p] \in Process
      BY <1>2 DEF Goto, Typed
    <2> QED
      BY <2>1, <2>2 DEF SameBut
  <1>3. ASSUME NEW err, Returned(p, err)
        PROVE  /\ proc'[p].pc = "loop" /\ proc'[p].at = proc[p].at + 1 /\ proc'[p].run = 0
               /\ proc'[p].batches = 0 /\ proc'[p].counted = 0 /\ ~proc'[p].writeErr
               /\ proc'[p].cmd = proc[p].cmd /\ proc'[p].ctx = proc[p].ctx
               /\ proc'[p].failed = Failed(p, err)
               /\ proc'[p].done = Append(proc[p].done, proc[p].run)
    <2> DEFINE b == Failed(p, err)
               n == proc[p].at + 1
               d == Append(proc[p].done, proc[p].run)
    <2>2. b \in BOOLEAN
      BY DEF Failed
    <2>3. n \in Nat \ {0} /\ d \in Seq(Nat) /\ proc[p] \in Process
      BY DEF Process, Typed
    <2>4. proc'[p] =
              [proc[p] EXCEPT !.pc = "loop", !.at = n,
                         !.run = 0, !.batches = 0, !.counted = 0, !.err = "nil", !.writeErr = FALSE,
                         !.failed = b, !.done = d]
      BY <1>3 DEF Returned, Advanced, Typed
    <2> HIDE DEF b, n, d
    <2>5. /\ proc'[p].pc = "loop" /\ proc'[p].at = n /\ proc'[p].run = 0
          /\ proc'[p].batches = 0 /\ proc'[p].counted = 0 /\ ~proc'[p].writeErr
          /\ proc'[p].cmd = proc[p].cmd /\ proc'[p].ctx = proc[p].ctx
          /\ proc'[p].failed = b /\ proc'[p].done = d
      BY <2>2, <2>3, <2>4 DEF Process
    <2> QED
      BY <2>5 DEF b, n, d
  <1> QED
    BY <1>1, <1>2, <1>3

LEMMA SchemaStep == Typed /\ SchemaOK /\ [Next]_vars => SchemaOK'
  <1> SUFFICES ASSUME Typed, SchemaOK, [Next]_vars
               PROVE  SchemaOK'
    OBVIOUS
  <1> USE CollectorAssumption
  <1>0. \A p \in Procs : proc[p] \in Process
    BY DEF Typed
  <1>1. ASSUME NEW p \in Procs, CommitMigration(p)
        PROVE  SchemaOK'
    BY <1>1, SchemaCommit
  <1>2. ASSUME NEW p \in Procs, ReadApplied(p)
        PROVE  SchemaOK'
    <2>1. proc'[p].pc = "migrate" /\ proc'[p].applied = database.ledger
      BY <1>0, <1>2 DEF ReadApplied, Typed, Process
    <2>2. \E v \in 0..LastVersion : database.ledger = 1..v
      BY DEF SchemaOK, SchemaIsWhole
    <2>3. Step(p) /\ ~CommitMigration(p)
      BY <1>2 DEF Step, ReadApplied, CommitMigration, At
    <2> QED
      BY <2>1, <2>2, <2>3, SchemaStays DEF SchemaReady, InRun
  <1>3. ASSUME NEW p \in Procs, BeginMigration(p)
        PROVE  SchemaOK'
    <2>1. PICK u \in 0..LastVersion : proc[p].applied = 1..u /\ 1..u \subseteq database.ledger
      BY <1>3 DEF BeginMigration, At, SchemaOK, Migrating
    <2>2. u < LastVersion
      BY <1>3, <2>1, NextVersionIs DEF BeginMigration
    <2>3. proc'[p].pc = "exec" /\ proc'[p].applied = proc[p].applied
      BY <1>3, Landing DEF BeginMigration, SameBut
    <2>4. Step(p) /\ ~CommitMigration(p)
      BY <1>3 DEF Step, BeginMigration, CommitMigration, At
    <2> QED
      BY <2>1, <2>2, <2>3, <2>4, SchemaStays DEF SchemaReady, InRun
  <1>4. ASSUME NEW p \in Procs, ExecMigration(p)
        PROVE  SchemaOK'
    <2>1. PICK u \in 0..LastVersion :
              proc[p].applied = 1..u /\ 1..u \subseteq database.ledger /\ u < LastVersion
      BY <1>4 DEF ExecMigration, At, SchemaOK, Migrating
    <2>2. NextVersion(p) = u + 1
      BY <2>1, NextVersionIs
    <2>3. /\ proc'[p].pc = "record" /\ proc'[p].applied = proc[p].applied
          /\ proc'[p].tx = {NextVersion(p)}
      BY <1>0, <1>4 DEF ExecMigration, Typed, Process
    <2>4. Step(p) /\ ~CommitMigration(p)
      BY <1>4 DEF Step, ExecMigration, CommitMigration, At
    <2> QED
      BY <2>1, <2>2, <2>3, <2>4, SchemaStays DEF SchemaReady, InRun
  <1>5. ASSUME NEW p \in Procs, Migrated(p)
        PROVE  SchemaOK'
    <2>1. PICK u \in 0..LastVersion : proc[p].applied = 1..u /\ 1..u \subseteq database.ledger
      BY <1>5 DEF Migrated, At, SchemaOK, Migrating
    <2>2. u = LastVersion
      BY <1>5, <2>1, NextVersionIs DEF Migrated
    <2>3. database.ledger = Versions
      BY <2>1, <2>2 DEF Versions, Typed, Database
    <2>4. proc'[p].pc \in {"off", "loop"}
      BY <1>0, <1>5, Landing DEF Migrated, Typed, Process, Off
    <2>5. Step(p) /\ ~CommitMigration(p)
      BY <1>5, NextVersionIs, <2>1, <2>2 DEF Step, Migrated, CommitMigration, At
    <2> QED
      BY <2>3, <2>4, <2>5, SchemaStays DEF SchemaReady, InRun
  <1>6. ASSUME NEW p \in Procs, Start(p) \/ Kill(p) \/ CreateLedger(p)
        PROVE  SchemaOK'
    <2>1. proc'[p].pc \in {"off", "create", "read"}
      <3>1. CASE Start(p)
        BY <3>1 DEF Start, Typed, Off
      <3> QED
        BY <1>6, <3>1, Landing DEF Kill, CreateLedger, Off
    <2>2. Start(p) \/ Kill(p) \/ (Step(p) /\ ~CommitMigration(p))
      BY <1>6 DEF CreateLedger, CommitMigration, At, Step
    <2> QED
      BY <2>1, <2>2, SchemaStays DEF SchemaReady, InRun
  <1>7. ASSUME NEW p \in Procs, MigrateFails(p) \/ ClearStateFails(p) \/ Checkpoint(p) \/ CheckpointFails(p)
        PROVE  SchemaOK'
    <2>1. Gone(p) /\ Step(p)
      BY <1>7 DEF MigrateFails, ClearStateFails, Checkpoint, CheckpointFails, Step
    <2>2. proc'[p].pc = "off"
      BY <2>1, Landing DEF Off
    <2>3. ~CommitMigration(p)
      BY <1>0, <2>2 DEF CommitMigration, Typed, Process
    <2> QED
      BY <2>1, <2>2, <2>3, SchemaStays DEF SchemaReady, InRun
  <1>8. ASSUME NEW p \in Procs,
               \/ NextTarget(p) \/ LoopEnds(p) \/ ClearState(p) \/ StartRun(p) \/ StartRunFails(p)
               \/ LoadState(p) \/ LoadStateFails(p) \/ FinishRun(p) \/ FinishRunFails(p)
        PROVE  SchemaOK'
    <2>1. proc[p].pc \in SchemaReady
      BY <1>8 DEF NextTarget, LoopEnds, ClearState, StartRun, StartRunFails, LoadState,
                  LoadStateFails, FinishRun, FinishRunFails, At, SchemaReady, InRun
    <2>2. Step(p) /\ ~CommitMigration(p)
      BY <1>8, <2>1 DEF Step, CommitMigration, At, SchemaReady, InRun
    <2>3. proc'[p].pc \in SchemaReady \cup {"checkpoint"}
      <3>1. CASE StartRun(p)
        BY <1>0, <3>1 DEF StartRun, Typed, Process, SchemaReady, InRun
      <3>2. CASE \E err : Returned(p, err)
        BY <3>2, Landing DEF SchemaReady
      <3>3. CASE \E q \in SchemaReady \cup {"checkpoint"} : Goto(p, q)
        BY <3>3, Landing
      <3> QED
        BY <1>8, <3>1, <3>2, <3>3
           DEF NextTarget, LoopEnds, ClearState, StartRunFails, LoadState,
               LoadStateFails, FinishRun, FinishRunFails, SchemaReady, InRun
    <2> QED
      BY <2>1, <2>2, <2>3, SchemaStays DEF SchemaReady, InRun
  <1>9. ASSUME NEW p \in Procs, Flush(p) \/ FlushFails(p) \/ Interrupt(p)
        PROVE  SchemaOK'
    <2>1. /\ proc'[p].pc = proc[p].pc /\ proc'[p].applied = proc[p].applied
          /\ proc'[p].tx = proc[p].tx
      BY <1>0, <1>9 DEF Flush, FlushFails, Interrupt, Typed, Process
    <2> QED
      BY <1>9, <2>1, SchemaStays DEF SchemaOK, Migrating
  <1>10. ASSUME NEW p \in Procs, Collected(p)
         PROVE  SchemaOK'
    <2>1. proc[p].pc = "collect" /\ proc'[p].pc = "close"
      BY <1>0, <1>10 DEF Collected, At, Typed, Process
    <2> QED
      BY <1>10, <2>1, SchemaStays DEF SchemaReady, InRun
  <1>11. CASE PowerFails
    <2>1. database' = disk /\ disk' = disk /\ \A q \in Procs : proc'[q].pc = "off"
      BY <1>11 DEF PowerFails, Off
    <2> QED
      BY <2>1 DEF SchemaOK, SchemaIsWhole, CollectsOnNewestSchema, Migrating
  <1>12. CASE UNCHANGED vars
    BY <1>12 DEF vars, SchemaOK, SchemaIsWhole, CollectsOnNewestSchema, Migrating
  <1> QED
    BY <1>1, <1>2, <1>3, <1>4, <1>5, <1>6, <1>7, <1>8, <1>9, <1>10, <1>11, <1>12
       DEF Next, Step, Finished

-----------------------------------------------------------------------------
(* The targets. *)

LEMMA ProgressStep == Typed /\ Progress /\ [Next]_vars => Progress'
  <1> SUFFICES ASSUME Typed, Progress, [Next]_vars
               PROVE  Progress'
    OBVIOUS
  <1> USE DEF At, Early, InTarget, InRun
  <1>0. \A p \in Procs : proc[p] \in Process /\ InOrder(proc[p])
    BY DEF Typed, Progress
  <1>a. ASSUME NEW p \in Procs,
               \/ Start(p) \/ Step(p) \/ Flush(p) \/ FlushFails(p) \/ Collected(p)
               \/ Interrupt(p) \/ Kill(p),
               InOrder(proc'[p])
        PROVE  Progress'
    BY <1>a, OthersKept DEF Progress
  <1>1. ASSUME NEW p \in Procs, Start(p)
        PROVE  InOrder(proc'[p])
    <2>1. proc'[p].pc = "create" /\ proc'[p].at = 1 /\ proc'[p].done = <<>>
      BY <1>1 DEF Start, Typed, Off
    <2> QED
      BY <2>1 DEF InOrder
  <1>2. ASSUME NEW p \in Procs,
               \/ Kill(p) \/ MigrateFails(p) \/ ClearStateFails(p) \/ Checkpoint(p)
               \/ CheckpointFails(p) \/ (Migrated(p) /\ Gone(p))
        PROVE  InOrder(proc'[p])
    <2>1. proc'[p].pc = "off"
      BY <1>2, Landing DEF Kill, MigrateFails, ClearStateFails, Checkpoint, CheckpointFails, Off
    <2> QED
      BY <2>1 DEF InOrder
  <1>3. ASSUME NEW p \in Procs,
               \/ CreateLedger(p) \/ BeginMigration(p) \/ ReadApplied(p) \/ ExecMigration(p)
               \/ CommitMigration(p)
        PROVE  InOrder(proc'[p])
    <2>1. /\ proc[p].pc \in Early /\ proc'[p].pc \in Early
          /\ proc'[p].at = proc[p].at /\ proc'[p].done = proc[p].done
      <3>1. CASE CreateLedger(p) \/ BeginMigration(p)
        BY <3>1, Landing DEF CreateLedger, BeginMigration, SameBut
      <3>2. CASE ReadApplied(p)
        BY <1>0, <3>2 DEF ReadApplied, Typed, Process
      <3>3. CASE ExecMigration(p)
        BY <1>0, <3>3 DEF ExecMigration, Typed, Process
      <3>4. CASE CommitMigration(p)
        BY <1>0, <3>4 DEF CommitMigration, Typed, Process
      <3> QED
        BY <1>3, <3>1, <3>2, <3>3, <3>4
    <2> QED
      BY <1>0, <2>1 DEF InOrder
  <1>4. ASSUME NEW p \in Procs, Migrated(p), ~Gone(p)
        PROVE  InOrder(proc'[p])
    <2>1. /\ proc'[p].pc = "loop" /\ proc[p].pc = "migrate"
          /\ proc'[p].at = proc[p].at /\ proc'[p].done = proc[p].done
          /\ proc'[p].cmd = proc[p].cmd
      BY <1>0, <1>4 DEF Migrated, Typed, Process
    <2>2. Len(proc[p].cmd.targets) \in Nat
      BY <1>0, LenProperties DEF Process, Command
    <2> QED
      BY <1>0, <2>1, <2>2, EmptySeq DEF InOrder
  <1>5. ASSUME NEW p \in Procs, NextTarget(p) \/ LoopEnds(p)
        PROVE  InOrder(proc'[p])
    <2>1. proc[p].pc = "loop" /\ SameBut(p)
      BY <1>5, Landing DEF NextTarget, LoopEnds
    <2>2. /\ Len(proc[p].cmd.targets) \in Nat /\ Len(proc[p].done) \in Nat /\ proc[p].at \in Nat
      BY <1>0, LenProperties DEF Process, Command
    <2>3. CASE NextTarget(p)
      <3>1. proc'[p].pc \in {"reset", "start"} /\ proc[p].at <= Len(proc[p].cmd.targets)
        BY <2>3, Landing DEF NextTarget, Targets
      <3> QED
        BY <1>0, <2>1, <2>2, <3>1 DEF InOrder, SameBut
    <2>4. CASE LoopEnds(p)
      <3>1. /\ proc'[p].pc = "checkpoint"
            /\ proc[p].at > Len(proc[p].cmd.targets) \/ proc[p].ctx = "cancelled"
        BY <2>4, Landing DEF LoopEnds, Targets, Cancelled
      <3> QED
        BY <1>0, <2>1, <2>2, <3>1 DEF InOrder, SameBut
    <2> QED
      BY <1>5, <2>3, <2>4
  <1>6. ASSUME NEW p \in Procs,
               \/ ClearState(p) \/ StartRun(p) \/ LoadState(p) \/ Flush(p) \/ FlushFails(p)
               \/ Collected(p)
        PROVE  InOrder(proc'[p])
    <2>1. /\ proc[p].pc \in InTarget /\ proc'[p].pc \in InTarget
          /\ proc'[p].at = proc[p].at /\ proc'[p].done = proc[p].done
          /\ proc'[p].cmd = proc[p].cmd
      <3>1. CASE ClearState(p) \/ LoadState(p)
        BY <3>1, Landing DEF ClearState, LoadState, SameBut
      <3>2. CASE StartRun(p)
        BY <1>0, <3>2 DEF StartRun, Typed, Process
      <3>3. CASE Flush(p)
        BY <1>0, <3>3 DEF Flush, Typed, Process
      <3>4. CASE FlushFails(p)
        BY <1>0, <3>4 DEF FlushFails, Typed, Process
      <3>5. CASE Collected(p)
        BY <1>0, <3>5 DEF Collected, Typed, Process
      <3> QED
        BY <1>6, <3>1, <3>2, <3>3, <3>4, <3>5
    <2> QED
      BY <1>0, <2>1 DEF InOrder
  <1>7. ASSUME NEW p \in Procs,
               \/ StartRunFails(p) \/ LoadStateFails(p) \/ FinishRun(p) \/ FinishRunFails(p)
        PROVE  InOrder(proc'[p])
    <2>1. proc[p].pc \in InTarget /\ \E err : Returned(p, err)
      BY <1>7 DEF StartRunFails, LoadStateFails, FinishRun, FinishRunFails
    <2>2. /\ proc'[p].pc = "loop" /\ proc'[p].at = proc[p].at + 1
          /\ proc'[p].cmd = proc[p].cmd /\ proc'[p].done = Append(proc[p].done, proc[p].run)
      BY <2>1, Landing
    <2>3. Len(proc'[p].done) = Len(proc[p].done) + 1
      BY <1>0, <2>2, AppendProperties DEF Process
    <2>4. /\ Len(proc[p].cmd.targets) \in Nat /\ Len(proc[p].done) \in Nat /\ proc[p].at \in Nat
      BY <1>0, LenProperties DEF Process, Command
    <2> QED
      BY <1>0, <2>1, <2>2, <2>3, <2>4 DEF InOrder
  <1>8. ASSUME NEW p \in Procs, Interrupt(p)
        PROVE  InOrder(proc'[p])
    <2>1. /\ proc'[p].pc = proc[p].pc /\ proc'[p].at = proc[p].at
          /\ proc'[p].done = proc[p].done /\ proc'[p].cmd = proc[p].cmd
          /\ proc'[p].ctx = "cancelled"
      BY <1>0, <1>8 DEF Interrupt, Typed, Process
    <2> QED
      BY <1>0, <2>1 DEF InOrder
  <1>9. CASE PowerFails
    <2>1. \A p \in Procs : proc'[p].pc = "off"
      BY <1>9 DEF PowerFails, Off
    <2> QED
      BY <2>1 DEF Progress, InOrder
  <1>10. CASE UNCHANGED vars
    BY <1>10 DEF vars, Progress
  <1>11. ASSUME NEW p \in Procs, Step(p)
         PROVE  InOrder(proc'[p])
    BY <1>2, <1>3, <1>4, <1>5, <1>6, <1>7, <1>11 DEF Step
  <1> QED
    BY <1>a, <1>1, <1>2, <1>6, <1>8, <1>9, <1>10, <1>11 DEF Next, Finished

-----------------------------------------------------------------------------
(* The rows of _runs. *)

(* Most steps leave what the runs have written as it is. *)
SameContent(db, new) == new.runs = db.runs /\ new.rows = db.rows /\ new.state = db.state

LEMMA ContentKept ==
    ASSUME Typed, NEW p \in Procs,
           \/ Start(p) \/ FlushFails(p) \/ Collected(p) \/ Interrupt(p) \/ Kill(p)
           \/ (Step(p) /\ ~ClearState(p) /\ ~StartRun(p) /\ ~FinishRun(p))
    PROVE  /\ SameContent(database, database')
           /\ \E db \in {database, disk} : SameContent(db, disk')
  <1> DEFINE Goal == /\ SameContent(database, database')
                     /\ \E db \in {database, disk} : SameContent(db, disk')
  <1>1. ASSUME NEW db, CommitAll(<<db>>), SameContent(database, db)
        PROVE  Goal
    BY <1>1, CommitOne DEF SameContent
  <1>2. CASE UNCHANGED <<database, disk>>
    BY <1>2 DEF SameContent
  <1>3. CASE Checkpoint(p)
    BY <1>3 DEF Checkpoint, SameContent
  <1>4. CASE CreateLedger(p)
    <2>1. SameContent(database, [database EXCEPT !.made = TRUE])
      BY DEF Typed, Database, SameContent
    <2> QED
      BY <1>1, <1>4, <2>1 DEF CreateLedger, Commit
  <1>5. CASE CommitMigration(p)
    <2>1. SameContent(database, Applied(p))
      BY DEF Typed, Database, SameContent, Applied
    <2> QED
      BY <1>1, <1>5, <2>1 DEF CommitMigration, MigrationCommits
  <1> QED
    BY <1>2, <1>3, <1>4, <1>5
       DEF Step, Start, FlushFails, Collected, Interrupt, Kill, ReadApplied, BeginMigration,
           ExecMigration, MigrateFails, Migrated, NextTarget, LoopEnds, ClearStateFails,
           StartRunFails, LoadState, LoadStateFails, FinishRunFails, CheckpointFails

RunsOK == Held /\ RunningIsLive

(* The rows stay as they are, and the process keeps its run or leaves it    *)
(* to nobody.                                                               *)
LEMMA RunsStay ==
    ASSUME Typed, RunsOK, NEW p \in Procs,
           \/ Start(p) \/ Step(p) \/ Flush(p) \/ FlushFails(p) \/ Collected(p)
           \/ Interrupt(p) \/ Kill(p),
           database'.runs = database.runs,
           proc'[p].run \in {0, proc[p].run},
           orphans \subseteq orphans', {proc[p].run} \ {0, proc'[p].run} \subseteq orphans',
           proc'[p].pc \in InRun <=> proc'[p].run # 0
    PROVE  RunsOK'
  <1>1. \A q \in Procs \ {p} : proc'[q] = proc[q]
    BY OthersKept
  <1>2. \A i \in DOMAIN database.runs : i # 0
    BY LenProperties DEF Typed, Database
  <1>3. Held'
    BY <1>1 DEF RunsOK, Held
  <1>4. RunningIsLive'
    BY <1>1, <1>2 DEF RunsOK, RunningIsLive
  <1> QED
    BY <1>3, <1>4 DEF RunsOK

LEMMA RunsStart ==
    ASSUME Typed, RunsOK, NEW p \in Procs, StartRun(p)
    PROVE  RunsOK' /\ \A i \in DOMAIN database.runs : i \in DOMAIN database'.runs /\ database'.runs[i] = database.runs[i]
  <1> DEFINE r == [source |-> Source(p), status |-> "running", records |-> 0]
             n == Len(database.runs) + 1
  <1>1. database' = [database EXCEPT !.runs = Append(@, r)]
    BY CommitOne DEF StartRun, Commit
  <1>2. database'.runs = Append(database.runs, r)
    BY <1>1 DEF Typed, Database
  <1>3. /\ DOMAIN database.runs = 1..Len(database.runs) /\ Len(database.runs) \in Nat
        /\ DOMAIN database'.runs = 1..n
    BY <1>2, LenProperties, AppendProperties DEF Typed, Database
  <1>4. /\ database'.runs[n] = r
        /\ \A i \in DOMAIN database.runs : database'.runs[i] = database.runs[i]
    BY <1>2, <1>3, AppendProperties DEF Typed, Database
  <1>5. \A q \in Procs \ {p} : proc'[q] = proc[q]
    BY OthersKept DEF Step
  <1>6. proc'[p].run = n /\ proc'[p].pc = "load"
    BY DEF StartRun, Typed, Process
  <1>7. \A q \in Procs : proc[q].run # n
    BY <1>3 DEF RunsOK, Held
  <1>8. n # 0 /\ n \in DOMAIN database'.runs
    BY <1>3
  <1> HIDE DEF n
  <1>9. Held'
    BY <1>3, <1>4, <1>5, <1>6, <1>7, <1>8 DEF RunsOK, Held, InRun, n
  <1>10. RunningIsLive'
    <2> SUFFICES ASSUME NEW i \in DOMAIN database'.runs, database'.runs[i].status = "running"
                 PROVE  i \in orphans' \/ \E q \in Procs : proc'[q].run = i
      BY DEF RunningIsLive
    <2>1. CASE i = n
      BY <1>6, <2>1
    <2>2. CASE i # n
      <3>1. i \in DOMAIN database.runs /\ database.runs[i].status = "running"
        BY <1>3, <1>4, <2>2 DEF n
      <3>2. i \in orphans \/ \E q \in Procs : proc[q].run = i
        BY <3>1 DEF RunsOK, RunningIsLive
      <3>3. proc[p].run = 0
        BY DEF RunsOK, Held, StartRun, At, InRun
      <3>4. i # 0
        BY <3>1, <1>3
      <3> QED
        BY <1>5, <3>2, <3>3, <3>4 DEF StartRun
    <2> QED
      BY <2>1, <2>2
  <1>11. \A i \in DOMAIN database.runs : i \in DOMAIN database'.runs
    BY <1>3 DEF n
  <1> QED
    BY <1>4, <1>9, <1>10, <1>11 DEF RunsOK

LEMMA RunsFinish ==
    ASSUME Typed, RunsOK, NEW p \in Procs, FinishRun(p)
    PROVE  /\ RunsOK'
           /\ DOMAIN database'.runs = DOMAIN database.runs
           /\ database'.runs[proc[p].run].status = Status(p)
           /\ \A i \in DOMAIN database.runs \ {proc[p].run} :
                 database'.runs[i] = database.runs[i]
  <1> DEFINE n == proc[p].run
  <1>1. database' = WithRun(database, n, FinalRow(p))
    BY CommitOne DEF FinishRun, Commit
  <1>2. database'.runs = [database.runs EXCEPT ![n] = FinalRow(p)]
    BY <1>1 DEF Typed, Database, WithRun
  <1>3. /\ n # 0 /\ n \in DOMAIN database.runs /\ RunRow(p) \in RunRecord
        /\ database.runs \in Seq(RunRecord)
    BY CurrentRun DEF FinishRun, At, InRun, RunsOK, Typed, Database
  <1>4. FinalRow(p).status = Status(p) /\ Status(p) # "running"
    BY <1>3 DEF FinalRow, ClosedRow, RunRecord, Status
  <1>5. /\ DOMAIN database'.runs = DOMAIN database.runs
        /\ database'.runs[n] = FinalRow(p)
        /\ \A i \in DOMAIN database.runs \ {n} : database'.runs[i] = database.runs[i]
    BY <1>2, <1>3, ExceptSeq
  <1>6. \A q \in Procs \ {p} : proc'[q] = proc[q]
    BY OthersKept DEF Step
  <1>7. proc'[p].run = 0 /\ proc'[p].pc = "loop"
    BY Landing DEF FinishRun
  <1>8. Held'
    <2>1. \A q \in Procs \ {p} : proc[q].run # n
      BY <1>3 DEF RunsOK, Held
    <2> QED
      BY <1>5, <1>6, <1>7, <2>1 DEF RunsOK, Held, InRun
  <1>9. RunningIsLive'
    <2> SUFFICES ASSUME NEW i \in DOMAIN database'.runs, database'.runs[i].status = "running"
                 PROVE  i \in orphans' \/ \E q \in Procs : proc'[q].run = i
      BY DEF RunningIsLive
    <2>1. i # n /\ i \in DOMAIN database.runs /\ database.runs[i].status = "running"
      BY <1>4, <1>5
    <2>2. i \in orphans \/ \E q \in Procs : proc[q].run = i
      BY <2>1 DEF RunsOK, RunningIsLive
    <2> QED
      BY <1>6, <2>1, <2>2 DEF FinishRun
  <1> QED
    BY <1>4, <1>5, <1>8, <1>9 DEF RunsOK

(* Rows are added, and only those that say "running" change. *)
RunsGrow ==
    /\ orphans \subseteq orphans'
    /\ \A i \in DOMAIN database.runs :
          /\ i \in DOMAIN database'.runs
          /\ \/ database'.runs[i] = database.runs[i]
             \/ database.runs[i].status = "running"

LEMMA SincereStays ==
    ASSUME NEW p \in Procs, Sincere(p), RunsGrow,
           proc'[p].done = proc[p].done, proc'[p].failed = proc[p].failed
    PROVE  Sincere(p)'
  BY DEF Sincere, Good, Bad, FailedAt, RunsGrow

(* A target is done with. *)
LEMMA SincereReturned ==
    ASSUME Typed, NEW p \in Procs, Sincere(p), RunsGrow, NEW err, Returned(p, err),
           err = "nil" =>
              /\ proc[p].run \in DOMAIN database'.runs /\ proc[p].run # 0
              /\ \/ proc[p].run \in orphans'
                 \/ database'.runs[proc[p].run].status \in {"completed", "cancelled"},
           err # "nil" =>
              \/ proc[p].run \in {0} \cup orphans'
              \/ /\ proc[p].run \in DOMAIN database'.runs
                 /\ database'.runs[proc[p].run].status = "failed"
    PROVE  Sincere(p)'
  <1>1. /\ proc'[p].done = Append(proc[p].done, proc[p].run)
        /\ proc'[p].failed = (proc[p].failed \/ err # "nil")
    BY Landing DEF Failed
  <1>2. /\ proc[p].done \in Seq(Nat) /\ proc[p].run \in Nat
    BY DEF Typed, Process
  <1> DEFINE last == Len(proc[p].done) + 1
  <1>3. last \in DOMAIN proc'[p].done /\ proc'[p].done[last] = proc[p].run
    BY <1>1, <1>2, AppendProperties, LenProperties
  <1>4. \A i \in DOMAIN proc[p].done :
            i \in DOMAIN proc'[p].done /\ proc'[p].done[i] = proc[p].done[i]
    BY <1>1, <1>2, AppendProperties, LenProperties
  <1>5. \A i \in DOMAIN proc'[p].done : i # last => i \in DOMAIN proc[p].done
    BY <1>1, <1>2, AppendProperties, LenProperties
  <1>6. ASSUME ~proc'[p].failed, NEW i \in DOMAIN proc'[p].done
        PROVE  proc'[p].done[i] \in DOMAIN database'.runs /\ Good(proc[p].done[i])'
    <2>1. ~proc[p].failed /\ err = "nil"
      BY <1>1, <1>6
    <2>2. CASE i = last
      BY <1>3, <2>1, <2>2 DEF Good
    <2>3. CASE i # last
      <3>1. proc[p].done[i] \in DOMAIN database.runs /\ Good(proc[p].done[i])
        BY <1>5, <1>6, <2>1, <2>3 DEF Sincere
      <3>2. proc'[p].done[i] = proc[p].done[i]
        BY <1>4, <1>5, <1>6, <2>3
      <3> QED
        BY <3>1, <3>2 DEF Good, RunsGrow
    <2> QED
      BY <2>2, <2>3
  <1>7. ASSUME proc'[p].failed
        PROVE  \E i \in DOMAIN proc'[p].done : FailedAt(p, i)'
    <2>1. CASE err # "nil"
      <3>1. PICK i \in DOMAIN proc'[p].done : proc'[p].done[i] = proc[p].run
        BY <1>3
      <3>2. FailedAt(p, i)'
        BY <2>1, <3>1 DEF FailedAt, Bad
      <3> QED
        BY <3>1, <3>2
    <2>2. CASE err = "nil"
      <3>1. PICK i \in DOMAIN proc[p].done : FailedAt(p, i)
        BY <1>1, <1>7, <2>2 DEF Sincere
      <3>2. FailedAt(p, i)'
        BY <1>4, <3>1 DEF FailedAt, Bad, RunsGrow
      <3> QED
        BY <1>4, <3>2
    <2> QED
      BY <2>1, <2>2
  <1> QED
    BY <1>6, <1>7 DEF Sincere

LEMMA RunsStep == Typed /\ RunsOK /\ Honest /\ [Next]_vars => RunsOK' /\ Honest'
  <1> SUFFICES ASSUME Typed, RunsOK, Honest, [Next]_vars
               PROVE  RunsOK' /\ Honest'
    OBVIOUS
  <1> USE DEF At
  <1> DEFINE Steps(p) == \/ Start(p) \/ Step(p) \/ Flush(p) \/ FlushFails(p) \/ Collected(p)
                         \/ Interrupt(p) \/ Kill(p)
  <1>0. \A p \in Procs : proc[p] \in Process
    BY DEF Typed
  <1>a. ASSUME NEW p \in Procs, Steps(p), RunsGrow, Sincere(p)'
        PROVE  Honest'
    <2>1. \A q \in Procs \ {p} : proc'[q] = proc[q]
      BY <1>a, OthersKept
    <2>2. \A q \in Procs \ {p} : Sincere(q)'
      BY <1>a, <2>1, SincereStays DEF Honest
    <2> QED
      BY <1>a, <2>2 DEF Honest
  <1>1. ASSUME NEW p \in Procs, Steps(p), database'.runs = database.runs, orphans \subseteq orphans',
               proc'[p].run = proc[p].run,
               proc'[p].pc \in InRun <=> proc[p].pc \in InRun,
               proc'[p].done = proc[p].done, proc'[p].failed = proc[p].failed
        PROVE  RunsOK' /\ Honest'
    <2>1. RunsGrow
      BY <1>1 DEF RunsGrow
    <2>2. Sincere(p)'
      BY <1>1, <2>1, SincereStays DEF Honest
    <2>3. proc'[p].pc \in InRun <=> proc'[p].run # 0
      BY <1>1 DEF RunsOK, Held
    <2> QED
      BY <1>a, <1>1, <2>1, <2>2, <2>3, RunsStay
  <1>2. ASSUME NEW p \in Procs, Start(p)
        PROVE  RunsOK' /\ Honest'
    <2>1. /\ proc'[p].pc = "create" /\ proc'[p].run = 0 /\ proc'[p].done = <<>> /\ ~proc'[p].failed
          /\ UNCHANGED <<database, orphans>> /\ proc[p].run = 0
      BY <1>2 DEF Start, Typed, Off, RunsOK, Held, InRun
    <2>2. RunsGrow /\ Sincere(p)'
      BY <2>1 DEF RunsGrow, Sincere
    <2>3. proc'[p].pc \in InRun <=> proc'[p].run # 0
      BY <2>1 DEF InRun
    <2> QED
      BY <1>a, <1>2, <2>1, <2>2, <2>3, RunsStay
  <1>3. ASSUME NEW p \in Procs, Steps(p), Gone(p), database'.runs = database.runs,
               orphans \subseteq orphans', {proc[p].run} \ {0} \subseteq orphans'
        PROVE  RunsOK' /\ Honest'
    <2>1. proc'[p].pc = "off" /\ proc'[p].run = 0 /\ proc'[p].done = <<>> /\ ~proc'[p].failed
      BY <1>3, Landing DEF Off
    <2>2. RunsGrow /\ Sincere(p)'
      BY <1>3, <2>1 DEF RunsGrow, Sincere
    <2>3. proc'[p].pc \in InRun <=> proc'[p].run # 0
      BY <2>1 DEF InRun
    <2> QED
      BY <1>a, <1>3, <2>1, <2>2, <2>3, RunsStay
  <1>4. ASSUME NEW p \in Procs, Kill(p)
        PROVE  RunsOK' /\ Honest'
    <2>1. Gone(p) /\ database' = database /\ orphans' = orphans \cup ({proc[p].run} \ {0})
      BY <1>4 DEF Kill
    <2> QED
      BY <1>3, <1>4, <2>1
  <1>5. ASSUME NEW p \in Procs,
               \/ MigrateFails(p) \/ ClearStateFails(p) \/ Checkpoint(p) \/ CheckpointFails(p)
               \/ (Migrated(p) /\ Gone(p))
        PROVE  RunsOK' /\ Honest'
    <2>1. Gone(p) /\ UNCHANGED <<database, orphans>> /\ proc[p].pc \notin InRun
      BY <1>5 DEF MigrateFails, ClearStateFails, Checkpoint, CheckpointFails, Migrated, InRun
    <2>2. proc[p].run = 0 /\ Steps(p)
      BY <1>5, <2>1 DEF RunsOK, Held, Step
    <2> QED
      BY <1>3, <2>1, <2>2
  <1>6. ASSUME NEW p \in Procs,
               \/ CreateLedger(p) \/ BeginMigration(p) \/ NextTarget(p) \/ LoopEnds(p)
               \/ ClearState(p) \/ LoadState(p)
        PROVE  RunsOK' /\ Honest'
    <2>1. SameBut(p) /\ orphans' = orphans /\ Steps(p)
      BY <1>6, Landing DEF CreateLedger, BeginMigration, NextTarget, LoopEnds, ClearState, LoadState, Step
    <2>2. proc'[p].pc \in InRun <=> proc[p].pc \in InRun
      BY <1>6, Landing DEF CreateLedger, BeginMigration, NextTarget, LoopEnds, ClearState, LoadState, InRun
    <2>3. database'.runs = database.runs
      <3>1. CASE ClearState(p)
        <4>1. database' = [database EXCEPT !.state[Source(p)] = NoState]
          BY <3>1, CommitOne DEF ClearState, Commit
        <4> QED
          BY <4>1 DEF Typed, Database
      <3>2. CASE ~ClearState(p)
        <4>1. ~StartRun(p) /\ ~FinishRun(p) /\ Step(p)
          BY <1>6, <3>2 DEF CreateLedger, BeginMigration, NextTarget, LoopEnds, LoadState, StartRun, FinishRun, Step
        <4> QED
          BY <3>2, <4>1, ContentKept DEF SameContent
      <3> QED
        BY <3>1, <3>2
    <2> QED
      BY <1>1, <2>1, <2>2, <2>3 DEF SameBut
  <1>7. ASSUME NEW p \in Procs,
               \/ ReadApplied(p) \/ ExecMigration(p) \/ CommitMigration(p) \/ (Migrated(p) /\ ~Gone(p))
               \/ FlushFails(p) \/ Collected(p) \/ Interrupt(p)
        PROVE  RunsOK' /\ Honest'
    <2>1. /\ proc'[p].run = proc[p].run /\ proc'[p].done = proc[p].done
          /\ proc'[p].failed = proc[p].failed /\ orphans' = orphans
          /\ proc'[p].pc \in InRun <=> proc[p].pc \in InRun
      <3>1. CASE ReadApplied(p)
        BY <1>0, <3>1 DEF ReadApplied, Typed, Process, InRun
      <3>2. CASE ExecMigration(p)
        BY <1>0, <3>2 DEF ExecMigration, Typed, Process, InRun
      <3>3. CASE CommitMigration(p)
        BY <1>0, <3>3 DEF CommitMigration, Typed, Process, InRun
      <3>4. CASE Migrated(p) /\ ~Gone(p)
        BY <1>0, <3>4 DEF Migrated, Typed, Process, InRun
      <3>5. CASE FlushFails(p)
        BY <1>0, <3>5 DEF FlushFails, Typed, Process, InRun
      <3>6. CASE Collected(p)
        BY <1>0, <3>6 DEF Collected, Typed, Process, InRun
      <3>7. CASE Interrupt(p)
        BY <1>0, <3>7 DEF Interrupt, Typed, Process, InRun
      <3> QED
        BY <1>7, <3>1, <3>2, <3>3, <3>4, <3>5, <3>6, <3>7
    <2>2. \/ FlushFails(p) \/ Collected(p) \/ Interrupt(p)
          \/ (Step(p) /\ ~ClearState(p) /\ ~StartRun(p) /\ ~FinishRun(p))
      BY <1>7 DEF Step, ReadApplied, ExecMigration, CommitMigration, Migrated, ClearState, StartRun, FinishRun
    <2>3. database'.runs = database.runs
      BY <2>2, ContentKept DEF SameContent
    <2>4. Steps(p)
      BY <2>2
    <2> QED
      BY <1>1, <2>1, <2>3, <2>4
  <1>8. ASSUME NEW p \in Procs, Flush(p)
        PROVE  RunsOK' /\ Honest'
    <2>1. /\ proc'[p].run = proc[p].run /\ proc'[p].done = proc[p].done /\ proc'[p].pc = proc[p].pc
          /\ proc'[p].failed = proc[p].failed /\ orphans' = orphans
      BY <1>0, <1>8 DEF Flush, Typed, Process
    <2>2. database' = Written(p) \/ database' = Covered(Written(p), p)
      BY <1>8, CommitOne DEF Flush, FlushCommits
    <2>3. database'.runs = database.runs
      BY <2>2 DEF Written, Covered, Typed, Database
    <2> QED
      BY <1>1, <1>8, <2>1, <2>3
  <1>9. ASSUME NEW p \in Procs, StartRun(p)
        PROVE  RunsOK' /\ Honest'
    <2>1. RunsOK' /\ RunsGrow
      BY <1>9, RunsStart DEF RunsGrow, StartRun
    <2>2. proc'[p].done = proc[p].done /\ proc'[p].failed = proc[p].failed
      BY <1>0, <1>9 DEF StartRun, Typed, Process
    <2>3. Sincere(p)'
      BY <2>1, <2>2, SincereStays DEF Honest
    <2> QED
      BY <1>a, <1>9, <2>1, <2>3 DEF Step
  <1>10. ASSUME NEW p \in Procs, StartRunFails(p) \/ LoadStateFails(p) \/ FinishRunFails(p)
         PROVE  RunsOK' /\ Honest'
    <2>1. /\ Steps(p) /\ database' = database /\ orphans \subseteq orphans'
          /\ {proc[p].run} \ {0} \subseteq orphans'
      <3>1. CASE StartRunFails(p)
        BY <3>1 DEF StartRunFails, Step, RunsOK, Held, InRun
      <3>2. CASE LoadStateFails(p) \/ FinishRunFails(p)
        BY <3>2 DEF LoadStateFails, FinishRunFails, Step
      <3> QED
        BY <1>10, <3>1, <3>2
    <2>2. PICK err : /\ Returned(p, err)
                     /\ err = "nil" => proc[p].run # 0 /\ proc[p].run \in DOMAIN database.runs
                     /\ proc[p].run \in {0} \cup orphans'
      <3>1. CASE StartRunFails(p) \/ LoadStateFails(p)
        <4>1. Returned(p, "start") \/ Returned(p, "load")
          BY <3>1 DEF StartRunFails, LoadStateFails
        <4> QED
          BY <2>1, <4>1
      <3>2. CASE FinishRunFails(p)
        <4>1. Returned(p, RunError(p)) /\ proc[p].pc \in InRun
          BY <3>2 DEF FinishRunFails, InRun
        <4> QED
          BY <2>1, <4>1 DEF RunsOK, Held
      <3> QED
        BY <1>10, <3>1, <3>2
    <2>3. RunsGrow
      BY <2>1 DEF RunsGrow
    <2>4. Sincere(p)'
      BY <2>1, <2>2, <2>3, SincereReturned DEF Honest
    <2>5. proc'[p].pc = "loop" /\ proc'[p].run = 0
      BY <2>2, Landing
    <2>6. proc'[p].pc \in InRun <=> proc'[p].run # 0
      BY <2>5 DEF InRun
    <2> QED
      BY <1>a, <2>1, <2>3, <2>4, <2>5, <2>6, RunsStay
  <1>11. ASSUME NEW p \in Procs, FinishRun(p)
         PROVE  RunsOK' /\ Honest'
    <2>1. RunsOK' /\ DOMAIN database'.runs = DOMAIN database.runs
      BY <1>11, RunsFinish
    <2>2. /\ proc[p].run # 0 /\ proc[p].run \in DOMAIN database.runs
          /\ database.runs[proc[p].run].status = "running"
      BY <1>11 DEF RunsOK, Held, FinishRun, InRun
    <2>3. RunsGrow
      BY <1>11, <2>2, RunsFinish DEF RunsGrow, FinishRun
    <2>4. /\ RunError(p) = "nil" => database'.runs[proc[p].run].status \in {"completed", "cancelled"}
          /\ RunError(p) # "nil" => database'.runs[proc[p].run].status = "failed"
      BY <1>11, RunsFinish DEF Status
    <2>5. Returned(p, RunError(p))
      BY <1>11 DEF FinishRun
    <2>6. Sincere(p)'
      BY <2>1, <2>2, <2>3, <2>4, <2>5, SincereReturned DEF Honest
    <2> QED
      BY <1>a, <1>11, <2>1, <2>3, <2>6 DEF Step
  <1>12. CASE PowerFails
    <2>1. /\ \A p \in Procs : proc'[p] = Off
          /\ database' = disk
          /\ orphans' = {i \in DOMAIN disk.runs : disk.runs[i].status = "running"}
      BY <1>12 DEF PowerFails
    <2>2. \A p \in Procs : /\ proc'[p].pc = "off" /\ proc'[p].run = 0
                            /\ proc'[p].done = <<>> /\ ~proc'[p].failed
      BY <2>1 DEF Off
    <2>3. Held'
      BY <2>2 DEF Held, InRun
    <2>4. RunningIsLive'
      BY <2>1 DEF RunningIsLive
    <2>5. Honest'
      BY <2>2 DEF Honest, Sincere
    <2> QED
      BY <2>3, <2>4, <2>5 DEF RunsOK
  <1>13. CASE UNCHANGED vars
    BY <1>13 DEF vars, RunsOK, Held, RunningIsLive, Honest, Sincere, FailedAt, Good, Bad
  <1>14. ASSUME NEW p \in Procs, Step(p)
         PROVE  RunsOK' /\ Honest'
    BY <1>5, <1>6, <1>7, <1>9, <1>10, <1>11, <1>14 DEF Step
  <1> QED
    BY <1>2, <1>4, <1>7, <1>8, <1>12, <1>13, <1>14 DEF Next, Finished

-----------------------------------------------------------------------------
(* What the runs have written. *)

(* A database in which the rows of _runs and the states are covered.        *)
Covering(db) ==
    /\ \A b \in db.rows : b[1] \in DOMAIN db.runs
    /\ \A i \in DOMAIN db.runs : db.runs[i].status \in {"completed", "cancelled"} =>
          Cardinality(Batches(db, i)) = db.runs[i].records
    /\ \A s \in Sources : {db.state[s][1]} \X (1..db.state[s][2]) \subseteq db.rows

(* A process knows what its run has written, unless its writer gave up.     *)
Knows(db, r) ==
    IF r.run = 0 THEN r.batches = 0 /\ r.counted = 0 /\ ~r.writeErr
    ELSE /\ Batches(db, r.run) = {r.run} \X (1..r.batches)
         /\ ~r.writeErr => r.counted = r.batches

ContentOK ==
    /\ \A db \in {database, disk} : Covering(db)
    /\ \A p \in Procs : Knows(database, proc[p])

LEMMA CountBatches ==
    ASSUME NEW r, NEW n \in Nat
    PROVE  Cardinality({r} \X (1..n)) = n
  <1>1. IsFiniteSet({r}) /\ Cardinality({r}) = 1
    BY FS_Singleton
  <1>2. IsFiniteSet(1..n) /\ Cardinality(1..n) = n
    BY FS_Interval
  <1>3. Cardinality({r} \X (1..n)) = 1 * n
    BY <1>1, <1>2, FS_Product
  <1> QED
    BY <1>3

(* Steps that leave the rows, the runs and the states as they are.          *)
LEMMA ContentStays ==
    ASSUME Typed, ContentOK, NEW p \in Procs,
           \/ Start(p) \/ FlushFails(p) \/ Collected(p) \/ Interrupt(p) \/ Kill(p)
           \/ (Step(p) /\ ~ClearState(p) /\ ~StartRun(p) /\ ~FinishRun(p)),
           Knows(database, proc'[p])
    PROVE  ContentOK'
  <1>1. /\ SameContent(database, database')
        /\ \E db \in {database, disk} : SameContent(db, disk')
    BY ContentKept
  <1>2. ASSUME NEW db \in {database, disk}, NEW new, SameContent(db, new)
        PROVE  Covering(new)
    BY <1>2 DEF ContentOK, Covering, SameContent, Batches
  <1>3. \A db \in {database', disk'} : Covering(db)
    BY <1>1, <1>2
  <1>4. ASSUME NEW q \in Procs
        PROVE  Knows(database', proc'[q])
    <2>1. Knows(database, proc'[q])
      BY OthersKept DEF ContentOK
    <2> QED
      BY <1>1, <2>1 DEF Knows, SameContent, Batches
  <1> QED
    BY <1>3, <1>4 DEF ContentOK

(* A commit, of which the disk may have heard. *)
LEMMA ContentCommit ==
    ASSUME ContentOK, NEW db, CommitAll(<<db>>), Covering(db),
           \A q \in Procs : Knows(db, proc'[q])
    PROVE  ContentOK'
  BY CommitOne DEF ContentOK

LEMMA ContentFlush ==
    ASSUME Typed, RunsOK, Progress, ContentOK, NEW p \in Procs, Flush(p)
    PROVE  ContentOK'
  <1> DEFINE n == proc[p].run
             b == proc[p].batches + 1
  <1>0. proc[p] \in Process /\ proc[p].pc \in InRun
    BY DEF Typed, Flush, At, InRun
  <1>1. /\ n # 0 /\ n \in DOMAIN database.runs /\ database.runs[n].status = "running"
        /\ n \in Nat /\ b \in Nat /\ proc[p].batches \in Nat
        /\ \A q \in Procs \ {p} : proc[q].run # n
    BY <1>0 DEF RunsOK, Held, Process
  <1>2. Batches(database, n) = {n} \X (1..proc[p].batches)
    BY <1>1 DEF ContentOK, Knows
  <1>3. PICK db \in {Written(p), Covered(Written(p), p)} : CommitAll(<<db>>)
    BY DEF Flush, FlushCommits
  <1>4. /\ db.runs = database.runs /\ db.rows = database.rows \cup {<<n, b>>}
        /\ \/ db.state = database.state
           \/ db.state = [database.state EXCEPT ![Source(p)] = <<n, b>>]
    BY <1>3 DEF Written, Covered, Typed, Database
  <1>5. Batches(db, n) = {n} \X (1..b)
    <2>1. 1..b = (1..proc[p].batches) \cup {b}
      BY <1>1
    <2>2. Batches(db, n) = Batches(database, n) \cup {<<n, b>>}
      BY <1>4 DEF Batches
    <2> QED
      BY <1>2, <2>1, <2>2
  <1>6. \A i : i # n => Batches(db, i) = Batches(database, i)
    BY <1>4 DEF Batches
  <1>7. Covering(db)
    <2>1. \A c \in db.rows : c[1] \in DOMAIN db.runs
      BY <1>1, <1>4 DEF ContentOK, Covering
    <2>2. \A i \in DOMAIN db.runs : db.runs[i].status \in {"completed", "cancelled"} =>
              Cardinality(Batches(db, i)) = db.runs[i].records
      BY <1>1, <1>4, <1>6 DEF ContentOK, Covering
    <2>3. ASSUME NEW s \in Sources
          PROVE  {db.state[s][1]} \X (1..db.state[s][2]) \subseteq db.rows
      <3>1. {database.state[s][1]} \X (1..database.state[s][2]) \subseteq db.rows
        BY <1>4 DEF ContentOK, Covering
      <3>2. {n} \X (1..b) \subseteq db.rows
        BY <1>5 DEF Batches
      <3>3. database.state \in [Sources -> Nat \X Nat]
        BY DEF Typed, Database
      <3>4. db.state[s] = database.state[s] \/ db.state[s] = <<n, b>>
        BY <1>4, <3>3
      <3> QED
        BY <3>1, <3>2, <3>4
    <2> QED
      BY <2>1, <2>2, <2>3 DEF Covering
  <1>8. ASSUME NEW q \in Procs
        PROVE  Knows(db, proc'[q])
    <2>1. CASE q = p
      <3>1. /\ proc'[p].run = n /\ proc'[p].batches = b
            /\ proc'[p].counted = proc[p].counted + 1 /\ proc'[p].writeErr = proc[p].writeErr
        BY <1>0 DEF Flush, Typed, Process
      <3>2. ~proc[p].writeErr => proc[p].counted = proc[p].batches
        BY <1>1 DEF ContentOK, Knows
      <3> QED
        BY <1>1, <1>5, <2>1, <3>1, <3>2 DEF Knows
    <2>2. CASE q # p
      <3>1. proc'[q] = proc[q] /\ proc[q].run # n
        BY <1>1, <2>2, OthersKept
      <3> QED
        BY <1>6, <3>1 DEF ContentOK, Knows
    <2> QED
      BY <2>1, <2>2
  <1> QED
    BY <1>3, <1>7, <1>8, ContentCommit

LEMMA ContentFinish ==
    ASSUME Typed, RunsOK, ContentOK, NEW p \in Procs, FinishRun(p)
    PROVE  ContentOK'
  <1> DEFINE n == proc[p].run
             db == WithRun(database, n, FinalRow(p))
  <1>0. proc[p] \in Process /\ proc[p].pc \in InRun
    BY DEF Typed, FinishRun, At, InRun
  <1>1. /\ n # 0 /\ n \in DOMAIN database.runs /\ RunRow(p) \in RunRecord
        /\ database.runs \in Seq(RunRecord)
        /\ \A q \in Procs \ {p} : proc[q].run # n
    BY <1>0, CurrentRun DEF RunsOK, Held, Typed, Database
  <1>2. /\ db.runs = [database.runs EXCEPT ![n] = FinalRow(p)]
        /\ db.rows = database.rows /\ db.state = database.state
    BY DEF Typed, Database, WithRun
  <1>3. /\ DOMAIN db.runs = DOMAIN database.runs
        /\ db.runs[n] = FinalRow(p)
        /\ \A i \in DOMAIN database.runs \ {n} : db.runs[i] = database.runs[i]
    BY <1>1, <1>2, ExceptSeq
  <1>4. FinalRow(p).status = Status(p) /\ FinalRow(p).records = proc[p].counted
    BY <1>1 DEF FinalRow, ClosedRow, RunRecord
  <1>5. \A i : Batches(db, i) = Batches(database, i)
    BY <1>2 DEF Batches
  <1>6. Status(p) \in {"completed", "cancelled"} => Cardinality(Batches(db, n)) = proc[p].counted
    <2> SUFFICES ASSUME Status(p) \in {"completed", "cancelled"}
                 PROVE  Cardinality(Batches(db, n)) = proc[p].counted
      OBVIOUS
    <2>1. ~proc[p].writeErr
      BY DEF Status, RunError
    <2>2. Batches(database, n) = {n} \X (1..proc[p].batches) /\ proc[p].counted = proc[p].batches
      BY <1>1, <2>1 DEF ContentOK, Knows
    <2>3. proc[p].batches \in Nat
      BY <1>0 DEF Process
    <2> QED
      BY <1>5, <2>2, <2>3, CountBatches
  <1> HIDE DEF db
  <1>7. Covering(db)
    <2>1. \A b \in db.rows : b[1] \in DOMAIN db.runs
      BY <1>2, <1>3 DEF ContentOK, Covering
    <2>2. ASSUME NEW i \in DOMAIN db.runs, db.runs[i].status \in {"completed", "cancelled"}
          PROVE  Cardinality(Batches(db, i)) = db.runs[i].records
      <3>1. CASE i = n
        BY <1>3, <1>4, <1>6, <2>2, <3>1
      <3>2. CASE i # n
        BY <1>3, <1>5, <2>2, <3>2 DEF ContentOK, Covering
      <3> QED
        BY <3>1, <3>2
    <2>3. \A s \in Sources : {db.state[s][1]} \X (1..db.state[s][2]) \subseteq db.rows
      BY <1>2 DEF ContentOK, Covering
    <2> QED
      BY <2>1, <2>2, <2>3 DEF Covering
  <1>8. ASSUME NEW q \in Procs
        PROVE  Knows(db, proc'[q])
    <2>1. CASE q = p
      BY <2>1, Landing DEF FinishRun, Knows
    <2>2. CASE q # p
      <3>1. proc'[q] = proc[q]
        BY <2>2, OthersKept DEF Step
      <3> QED
        BY <1>5, <3>1 DEF ContentOK, Knows
    <2> QED
      BY <2>1, <2>2
  <1>9. CommitAll(<<db>>)
    BY DEF FinishRun, Commit, db
  <1> QED
    BY <1>7, <1>8, <1>9, ContentCommit

LEMMA ContentStart ==
    ASSUME Typed, RunsOK, ContentOK, NEW p \in Procs, StartRun(p)
    PROVE  ContentOK'
  <1> DEFINE r == [source |-> Source(p), status |-> "running", records |-> 0]
             n == Len(database.runs) + 1
             db == [database EXCEPT !.runs = Append(@, r)]
  <1>1. /\ db.runs = Append(database.runs, r)
        /\ db.rows = database.rows /\ db.state = database.state
    BY DEF Typed, Database
  <1>2. /\ DOMAIN database.runs = 1..Len(database.runs) /\ Len(database.runs) \in Nat
        /\ DOMAIN db.runs = 1..n /\ db.runs[n] = r
        /\ \A i \in DOMAIN database.runs : db.runs[i] = database.runs[i]
    BY <1>1, LenProperties, AppendProperties DEF Typed, Database
  <1>3. \A i : Batches(db, i) = Batches(database, i)
    BY <1>1 DEF Batches
  <1>4. n \notin DOMAIN database.runs /\ n # 0
    BY <1>2
  <1>5. \A i \in DOMAIN db.runs : i \in DOMAIN database.runs \/ i = n
    BY <1>2
  <1>6. Batches(database, n) = {}
    BY <1>4 DEF Batches, ContentOK, Covering
  <1> HIDE DEF db
  <1>7. Covering(db)
    <2>1. \A b \in db.rows : b[1] \in DOMAIN db.runs
      <3>1. DOMAIN database.runs \subseteq DOMAIN db.runs
        BY <1>2
      <3> QED
        BY <1>1, <3>1 DEF ContentOK, Covering
    <2>2. ASSUME NEW i \in DOMAIN db.runs, db.runs[i].status \in {"completed", "cancelled"}
          PROVE  Cardinality(Batches(db, i)) = db.runs[i].records
      <3>1. i # n
        BY <1>2, <2>2
      <3> QED
        BY <1>2, <1>3, <1>5, <2>2, <3>1 DEF ContentOK, Covering
    <2>3. \A s \in Sources : {db.state[s][1]} \X (1..db.state[s][2]) \subseteq db.rows
      BY <1>1 DEF ContentOK, Covering
    <2> QED
      BY <2>1, <2>2, <2>3 DEF Covering
  <1>8. ASSUME NEW q \in Procs
        PROVE  Knows(db, proc'[q])
    <2>1. CASE q = p
      <3>1. /\ proc'[p].run = n /\ proc'[p].batches = proc[p].batches
            /\ proc'[p].counted = proc[p].counted /\ proc'[p].writeErr = proc[p].writeErr
        BY DEF StartRun, Typed, Process
      <3>2. proc[p].run = 0
        BY DEF RunsOK, Held, StartRun, At, InRun
      <3>3. proc[p].batches = 0 /\ proc[p].counted = 0
        BY <3>2 DEF ContentOK, Knows
      <3>4. Batches(db, n) = {n} \X (1..0)
        BY <1>3, <1>6
      <3> HIDE DEF n
      <3> QED
        BY <1>4, <2>1, <3>1, <3>3, <3>4 DEF Knows
    <2>2. CASE q # p
      <3>1. proc'[q] = proc[q]
        BY <2>2, OthersKept DEF Step
      <3> QED
        BY <1>3, <3>1 DEF ContentOK, Knows
    <2> QED
      BY <2>1, <2>2
  <1>9. CommitAll(<<db>>)
    BY DEF StartRun, Commit, db
  <1> QED
    BY <1>7, <1>8, <1>9, ContentCommit

LEMMA ContentClear ==
    ASSUME Typed, ContentOK, NEW p \in Procs, ClearState(p)
    PROVE  ContentOK'
  <1> DEFINE db == [database EXCEPT !.state[Source(p)] = NoState]
  <1>1. /\ db.runs = database.runs /\ db.rows = database.rows
        /\ db.state = [database.state EXCEPT ![Source(p)] = NoState]
    BY DEF Typed, Database
  <1>2. \A i : Batches(db, i) = Batches(database, i)
    BY <1>1 DEF Batches
  <1> HIDE DEF db
  <1>3. Covering(db)
    <2>1. /\ \A b \in db.rows : b[1] \in DOMAIN db.runs
          /\ \A i \in DOMAIN db.runs : db.runs[i].status \in {"completed", "cancelled"} =>
                Cardinality(Batches(db, i)) = db.runs[i].records
      BY <1>1, <1>2 DEF ContentOK, Covering
    <2>2. ASSUME NEW s \in Sources
          PROVE  {db.state[s][1]} \X (1..db.state[s][2]) \subseteq db.rows
      <3>1. database.state \in [Sources -> Nat \X Nat]
        BY DEF Typed, Database
      <3>2. CASE db.state[s] = NoState
        BY <3>2 DEF NoState
      <3>3. CASE db.state[s] = database.state[s]
        BY <1>1, <3>3 DEF ContentOK, Covering
      <3> QED
        BY <1>1, <3>1, <3>2, <3>3
    <2> QED
      BY <2>1, <2>2 DEF Covering
  <1>4. ASSUME NEW q \in Procs
        PROVE  Knows(db, proc'[q])
    <2>1. /\ proc'[q].run = proc[q].run /\ proc'[q].batches = proc[q].batches
          /\ proc'[q].counted = proc[q].counted /\ proc'[q].writeErr = proc[q].writeErr
      BY Landing, OthersKept DEF ClearState, SameBut, Step
    <2> QED
      BY <1>2, <2>1 DEF ContentOK, Knows
  <1>5. CommitAll(<<db>>)
    BY DEF ClearState, Commit, db
  <1> QED
    BY <1>3, <1>4, <1>5, ContentCommit

LEMMA ContentStep ==
    Typed /\ RunsOK /\ Progress /\ ContentOK /\ [Next]_vars => ContentOK'
  <1> SUFFICES ASSUME Typed, RunsOK, Progress, ContentOK, [Next]_vars
               PROVE  ContentOK'
    OBVIOUS
  <1>0. \A p \in Procs : proc[p] \in Process /\ Knows(database, proc[p])
    BY DEF Typed, ContentOK
  <1>1. ASSUME NEW p \in Procs, Flush(p) \/ FinishRun(p) \/ StartRun(p) \/ ClearState(p)
        PROVE  ContentOK'
    BY <1>1, ContentFlush, ContentFinish, ContentStart, ContentClear
  <1> DEFINE Others(p) ==
          \/ Start(p) \/ FlushFails(p) \/ Collected(p) \/ Interrupt(p) \/ Kill(p)
          \/ (Step(p) /\ ~ClearState(p) /\ ~StartRun(p) /\ ~FinishRun(p))
  <1>2. ASSUME NEW p \in Procs, Others(p), proc'[p].run = 0, proc'[p].batches = 0,
               proc'[p].counted = 0, ~proc'[p].writeErr
        PROVE  ContentOK'
    BY <1>2, ContentStays DEF Knows
  <1>3. ASSUME NEW p \in Procs, Others(p), proc'[p].run = proc[p].run,
               proc'[p].batches = proc[p].batches,
               proc'[p].counted = proc[p].counted, proc'[p].writeErr = proc[p].writeErr
        PROVE  ContentOK'
    BY <1>0, <1>3, ContentStays DEF Knows
  <1>4. ASSUME NEW p \in Procs, Others(p), Gone(p) \/ \E err : Returned(p, err)
        PROVE  ContentOK'
    BY <1>2, <1>4, Landing DEF Off
  <1>5. ASSUME NEW p \in Procs, Others(p), \E q : Goto(p, q)
        PROVE  ContentOK'
    BY <1>3, <1>5, Landing DEF SameBut
  <1>6. ASSUME NEW p \in Procs, Start(p)
        PROVE  ContentOK'
    <2>1. /\ proc'[p].run = 0 /\ proc'[p].batches = 0
          /\ proc'[p].counted = 0 /\ ~proc'[p].writeErr
      BY <1>6 DEF Start, Typed, Off
    <2>2. Others(p)
      BY <1>6
    <2> HIDE DEF Others
    <2> QED
      BY <1>2, <2>1, <2>2
  <1>7. ASSUME NEW p \in Procs, FlushFails(p)
        PROVE  ContentOK'
    <2>1. /\ proc'[p].run = proc[p].run /\ proc'[p].batches = proc[p].batches
          /\ proc'[p].writeErr = TRUE
      BY <1>0, <1>7 DEF FlushFails, Typed, Process
    <2>2. proc[p].run # 0
      BY <1>7 DEF FlushFails, RunsOK, Held, InRun, At
    <2> QED
      BY <1>0, <1>7, <2>1, <2>2, ContentStays DEF Knows
  <1>8. ASSUME NEW p \in Procs, Others(p),
               \/ Collected(p) \/ Interrupt(p) \/ ReadApplied(p) \/ ExecMigration(p)
               \/ CommitMigration(p) \/ (Migrated(p) /\ ~Gone(p))
        PROVE  ContentOK'
    <2>1. /\ proc'[p].run = proc[p].run /\ proc'[p].batches = proc[p].batches
          /\ proc'[p].counted = proc[p].counted /\ proc'[p].writeErr = proc[p].writeErr
      <3>1. CASE Collected(p)
        BY <1>0, <3>1 DEF Collected, Typed, Process
      <3>2. CASE Interrupt(p)
        BY <1>0, <3>2 DEF Interrupt, Typed, Process
      <3>3. CASE ReadApplied(p)
        BY <1>0, <3>3 DEF ReadApplied, Typed, Process
      <3>4. CASE ExecMigration(p)
        BY <1>0, <3>4 DEF ExecMigration, Typed, Process
      <3>5. CASE CommitMigration(p)
        BY <1>0, <3>5 DEF CommitMigration, Typed, Process
      <3>6. CASE Migrated(p) /\ ~Gone(p)
        BY <1>0, <3>6 DEF Migrated, Typed, Process
      <3> QED
        BY <1>8, <3>1, <3>2, <3>3, <3>4, <3>5, <3>6
    <2> QED
      BY <1>3, <1>8, <2>1
  <1>9. ASSUME NEW p \in Procs, Step(p)
        PROVE  ContentOK'
    <2>1. CASE ClearState(p) \/ StartRun(p) \/ FinishRun(p)
      BY <1>1, <2>1
    <2>2. CASE Others(p)
      <3>1. \/ Gone(p) \/ (\E err : Returned(p, err)) \/ (\E q : Goto(p, q))
            \/ ReadApplied(p) \/ ExecMigration(p) \/ CommitMigration(p)
            \/ (Migrated(p) /\ ~Gone(p)) \/ StartRun(p)
        <4>1. CASE \/ CreateLedger(p) \/ BeginMigration(p) \/ MigrateFails(p) \/ NextTarget(p)
                   \/ LoopEnds(p) \/ ClearState(p) \/ ClearStateFails(p)
          BY <4>1 DEF CreateLedger, BeginMigration, MigrateFails, NextTarget, LoopEnds,
                      ClearState, ClearStateFails
        <4>2. CASE \/ StartRunFails(p) \/ LoadState(p) \/ LoadStateFails(p) \/ FinishRun(p)
                   \/ FinishRunFails(p) \/ Checkpoint(p) \/ CheckpointFails(p)
          BY <4>2 DEF StartRunFails, LoadState, LoadStateFails, FinishRun, FinishRunFails,
                      Checkpoint, CheckpointFails
        <4> QED
          BY <1>9, <4>1, <4>2 DEF Step
      <3>2. CASE StartRun(p)
        BY <1>1, <3>2
      <3> HIDE DEF Others
      <3> QED
        BY <1>4, <1>5, <1>8, <2>2, <3>1, <3>2
    <2> QED
      BY <1>9, <2>1, <2>2
  <1>10. CASE PowerFails
    <2>1. /\ database' = disk /\ disk' = disk /\ \A p \in Procs : proc'[p] = Off
      BY <1>10 DEF PowerFails
    <2> QED
      BY <2>1 DEF ContentOK, Knows, Off
  <1>11. CASE UNCHANGED vars
    BY <1>11 DEF vars, ContentOK
  <1>12. ASSUME NEW p \in Procs, Kill(p)
         PROVE  ContentOK'
    BY <1>4, <1>12 DEF Kill
  <1> QED
    BY <1>1, <1>6, <1>7, <1>8, <1>9, <1>10, <1>11, <1>12 DEF Next, Finished

-----------------------------------------------------------------------------
(* The lock, the bounds and the orphans. *)

LEMMA DomainGrows ==
    ASSUME Typed, RunsOK, Progress, NEW p \in Procs,
           \/ Start(p) \/ Step(p) \/ Flush(p) \/ FlushFails(p) \/ Collected(p)
           \/ Interrupt(p) \/ Kill(p)
    PROVE  DOMAIN database.runs \subseteq DOMAIN database'.runs
  <1>1. CASE Flush(p)
    <2>1. database' = Written(p) \/ database' = Covered(Written(p), p)
      BY <1>1, CommitOne DEF Flush, FlushCommits
    <2> QED
      BY <2>1 DEF Written, Covered, Typed, Database
  <1>2. CASE ClearState(p)
    <2>1. database' = [database EXCEPT !.state[Source(p)] = NoState]
      BY <1>2, CommitOne DEF ClearState, Commit
    <2> QED
      BY <2>1 DEF Typed, Database
  <1>3. CASE StartRun(p) \/ FinishRun(p)
    BY <1>3, RunsStart, RunsFinish
  <1>4. CASE ~Flush(p) /\ ~ClearState(p) /\ ~StartRun(p) /\ ~FinishRun(p)
    BY <1>4, ContentKept DEF SameContent
  <1> QED
    BY <1>1, <1>2, <1>3, <1>4

LEMMA BoundsStep == Typed /\ RunsOK /\ Progress /\ TypeOK /\ RunsOK' /\ Typed' /\ [Next]_vars => TypeOK'
  <1> SUFFICES ASSUME Typed, RunsOK, Progress, TypeOK, RunsOK', Typed', [Next]_vars
               PROVE  TypeOK'
    OBVIOUS
  <1> USE CollectorAssumption
  <1>1. \A p \in Procs : proc'[p].run \in 0..Len(database'.runs)
    <2>1. /\ DOMAIN database'.runs = 1..Len(database'.runs) /\ Len(database'.runs) \in Nat
      BY LenProperties DEF Typed, Database
    <2> QED
      BY <2>1 DEF RunsOK, Held
  <1>2. ASSUME NEW p \in Procs,
               \/ Start(p) \/ Step(p) \/ Flush(p) \/ FlushFails(p) \/ Collected(p)
               \/ Interrupt(p) \/ Kill(p)
        PROVE  TypeOK'
    <2>1. orphans' \subseteq orphans \cup ({proc[p].run} \ {0})
      <3>1. CASE LoadStateFails(p) \/ FinishRunFails(p)
        <4>1. proc[p].run # 0 /\ orphans' = orphans \cup {proc[p].run}
          BY <3>1 DEF LoadStateFails, FinishRunFails, At, RunsOK, Held, InRun
        <4> QED
          BY <4>1
      <3>2. CASE Kill(p)
        BY <3>2 DEF Kill
      <3> QED
        BY <1>2, <3>1, <3>2
           DEF Start, Step, Flush, FlushFails, Collected, Interrupt, CreateLedger, ReadApplied,
               BeginMigration, ExecMigration, CommitMigration, MigrateFails, Migrated,
               NextTarget, LoopEnds, ClearState, ClearStateFails, StartRun, StartRunFails,
               LoadState, FinishRun, Checkpoint, CheckpointFails
    <2>2. orphans' \subseteq DOMAIN database'.runs
      BY <1>2, <2>1, DomainGrows DEF TypeOK, RunsOK, Held
    <2>3. lock' \in Procs \cup {Nobody}
      <3>1. CASE Gone(p)
        BY <3>1 DEF Gone, TypeOK
      <3> QED
        BY <1>2, <3>1
           DEF TypeOK, Start, Step, Flush, FlushFails, Collected, Interrupt, Kill, CreateLedger,
               ReadApplied, BeginMigration, ExecMigration, CommitMigration, MigrateFails,
               Migrated, NextTarget, LoopEnds, ClearState, ClearStateFails, StartRun,
               StartRunFails, LoadState, LoadStateFails, FinishRun, FinishRunFails,
               Checkpoint, CheckpointFails
    <2>4. starts' \in 0..MaxStarts
      <3>1. CASE Start(p)
        BY <3>1 DEF Start, TypeOK
      <3> QED
        BY <1>2, <3>1
           DEF TypeOK, Step, Flush, FlushFails, Collected, Interrupt, Kill, CreateLedger,
               ReadApplied, BeginMigration, ExecMigration, CommitMigration, MigrateFails,
               Migrated, NextTarget, LoopEnds, ClearState, ClearStateFails, StartRun,
               StartRunFails, LoadState, LoadStateFails, FinishRun, FinishRunFails,
               Checkpoint, CheckpointFails
    <2>5. trouble' \in 0..MaxTrouble
      <3>1. CASE Trouble \/ UNCHANGED trouble
        BY <3>1 DEF Trouble, TypeOK
      <3> QED
        BY <1>2, <3>1
           DEF Fault, StatementFails, Start, Step, Flush, FlushFails, Collected, Interrupt, Kill,
               CreateLedger, ReadApplied, BeginMigration, ExecMigration, CommitMigration,
               MigrateFails, Migrated, NextTarget, LoopEnds, ClearState, ClearStateFails,
               StartRun, StartRunFails, LoadState, LoadStateFails, FinishRun, FinishRunFails,
               Checkpoint, CheckpointFails
    <2> QED
      BY <1>1, <2>2, <2>3, <2>4, <2>5 DEF TypeOK
  <1>3. CASE PowerFails
    <2>1. /\ orphans' \subseteq DOMAIN database'.runs /\ lock' = Nobody /\ starts' = starts
          /\ trouble < MaxTrouble /\ trouble' = trouble + 1
      BY <1>3 DEF PowerFails, Trouble
    <2> QED
      BY <1>1, <2>1 DEF TypeOK
  <1>4. CASE UNCHANGED vars
    BY <1>4 DEF vars, TypeOK
  <1> QED
    BY <1>2, <1>3, <1>4 DEF Next, Finished

-----------------------------------------------------------------------------
(* The theorems. *)

IInv ==
    /\ Typed /\ TypeOK /\ Progress
    /\ SchemaOK
    /\ RunsOK /\ Honest
    /\ ContentOK

LEMMA InitIInv == Init => IInv
  <1> SUFFICES ASSUME Init
               PROVE  IInv
    OBVIOUS
  <1>1. Typed
    BY InitType
  <1>2. PICK n \in 0..LastVersion :
            database = [Empty EXCEPT !.made = n > 0, !.tables = 1..n, !.ledger = 1..n]
    BY DEF Init
  <1>3. \A b, S : LET db == [Empty EXCEPT !.made = b, !.tables = S, !.ledger = S]
                  IN  /\ db.tables = S /\ db.ledger = S /\ db.runs = <<>> /\ db.rows = {}
                      /\ db.state = [s \in Sources |-> NoState]
    BY DEF Empty
  <1>4. /\ database.tables = 1..n /\ database.ledger = 1..n
        /\ database.runs = <<>> /\ database.rows = {}
        /\ database.state = [s \in Sources |-> NoState]
    BY <1>2, <1>3
  <1>5. disk = database /\ orphans = {} /\ \A p \in Procs : proc[p] = Off
    BY DEF Init
  <1>6. \A p \in Procs :
            /\ proc[p].pc = "off" /\ proc[p].run = 0 /\ proc[p].batches = 0
            /\ proc[p].counted = 0 /\ ~proc[p].writeErr /\ ~proc[p].failed
            /\ proc[p].done = <<>>
    BY <1>5 DEF Off
  <1>7. Progress
    BY <1>6 DEF Progress, InOrder, Early, InTarget, InRun
  <1>8. SchemaOK
    BY <1>4, <1>5, <1>6 DEF SchemaOK, SchemaIsWhole, CollectsOnNewestSchema, Migrating
  <1>9. RunsOK /\ Honest
    BY <1>4, <1>6 DEF RunsOK, Held, RunningIsLive, Honest, Sincere, InRun
  <1>10. Covering(database)
    BY <1>4 DEF Covering, NoState
  <1>11. ContentOK
    BY <1>5, <1>6, <1>10 DEF ContentOK, Knows
  <1>12. TypeOK
    <2>1. Len(database.runs) = 0
      BY <1>4, EmptySeq
    <2> QED
      BY <1>5, <1>6, <2>1, CollectorAssumption DEF Init, TypeOK
  <1> QED
    BY <1>1, <1>7, <1>8, <1>9, <1>11, <1>12 DEF IInv

LEMMA StepIInv == IInv /\ [Next]_vars => IInv'
  BY TypeStep, ProgressStep, SchemaStep, RunsStep, ContentStep, BoundsStep DEF IInv, RunsOK, SchemaOK

LEMMA Invariance == Spec => []IInv
  BY InitIInv, StepIInv, PTL DEF Spec

(* Every variable holds a value of its type. *)
THEOREM TypeCorrect == Spec => [](Typed /\ TypeOK)
  <1>1. IInv => Typed /\ TypeOK
    BY DEF IInv
  <1> QED
    BY <1>1, Invariance, PTL

(* Whatever is left of the commits, the tables are those of the recorded    *)
(* versions, and these have no gap: a crash cannot apply half a schema.     *)
THEOREM SchemaNeverHalf == Spec => []SchemaIsWhole
  <1>1. IInv => SchemaIsWhole
    BY DEF IInv, SchemaOK
  <1> QED
    BY <1>1, Invariance, PTL

(* No process collects before every migration is applied, whoever has       *)
(* applied it.                                                              *)
THEOREM NewestSchema == Spec => []CollectsOnNewestSchema
  <1>1. IInv => CollectsOnNewestSchema
    BY DEF IInv, SchemaOK
  <1> QED
    BY <1>1, Invariance, PTL

(* A run recorded as completed or cancelled has all the batches it counts,  *)
(* and a state those it covers, also after a power failure.                 *)
THEOREM NothingRecordedIsLost == Spec => []RecordsSurvive
  <1>1. IInv => RecordsSurvive
    BY DEF IInv, ContentOK, Covering, RecordsSurvive
  <1> QED
    BY <1>1, Invariance, PTL

(* Interrupts and failing runs leave no row that says "running". *)
THEOREM NoStaleRunning == Spec => []RunningIsLive
  <1>1. IInv => RunningIsLive
    BY DEF IInv, RunsOK
  <1> QED
    BY <1>1, Invariance, PTL

(* A process that is about to end without an error has completed or         *)
(* cancelled a run of every target it did not leave out; one that is about  *)
(* to end with an error has a target whose run failed or did not begin.     *)
THEOREM ExitTellsTheTruth == Spec => []ExitIsHonest
  <1>1. IInv => ExitIsHonest
    BY DEF IInv, Honest, Sincere, FailedAt, Progress, InOrder, ExitIsHonest, At, Targets, Cancelled
  <1> QED
    BY <1>1, Invariance, PTL

-----------------------------------------------------------------------------
(* The writer: where it leaves the database, on the way to LikeOneByOne and *)
(* CountersExact.                                                           *)
-----------------------------------------------------------------------------
(* Induction, from the fact that every set of numbers has a least element.  *)
LEMMA LeastNumber ==
    ASSUME NEW T, T \subseteq Nat, T # {}
    PROVE  \E m \in T : \A n \in T : m <= n
  <1> DEFINE R == {ss \in Nat \X Nat : ss[1] < ss[2]}
  <1>1. IsWellFoundedOn(R, Nat)
    BY NatLessThanWellFounded DEF OpToRel
  <1>2. PICK m \in T : \A n \in T : ~ (<<n, m>> \in R)
    BY <1>1, WFMin
  <1>3. ASSUME NEW n \in T
        PROVE  m <= n
    <2>1. m \in Nat /\ n \in Nat
      OBVIOUS
    <2>2. ~ (n < m)
      BY <1>2, <2>1
    <2> QED
      BY <2>1, <2>2
  <1> QED
    BY <1>3

LEMMA Induction ==
    ASSUME NEW T, 0 \in T, \A n \in Nat : n \in T => n + 1 \in T
    PROVE  \A n \in Nat : n \in T
  <1> DEFINE U == {n \in Nat : n \notin T}
  <1> SUFFICES ASSUME U # {}
               PROVE  FALSE
    OBVIOUS
  <1>1. PICK m \in U : \A n \in U : m <= n
    BY LeastNumber
  <1>2. m - 1 \in Nat /\ m - 1 \notin U
    BY <1>1
  <1> QED
    BY <1>1, <1>2

(* g[i] is what Those keeps of the first i elements of s. *)
ThoseUpTo(g, s, S, n) ==
    g = [i \in 0..n |-> IF i = 0 THEN <<>> ELSE IF s[i] \in S THEN Append(g[i - 1], s[i])
                                                ELSE g[i - 1]]

LEMMA ThoseExists ==
    ASSUME NEW s, NEW S
    PROVE  \A n \in Nat : \E g : ThoseUpTo(g, s, S, n)
  <1> DEFINE T == {n \in Nat : \E g : ThoseUpTo(g, s, S, n)}
  <1>1. 0 \in T
    <2>1. ThoseUpTo([i \in 0..0 |-> <<>>], s, S, 0)
      BY DEF ThoseUpTo
    <2> QED
      BY <2>1
  <1>2. ASSUME NEW n \in T
        PROVE  n + 1 \in T
    <2>1. PICK g : ThoseUpTo(g, s, S, n)
      OBVIOUS
    <2> DEFINE top == IF s[n + 1] \in S THEN Append(g[n], s[n + 1]) ELSE g[n]
               h == [i \in 0..(n + 1) |-> IF i = n + 1 THEN top ELSE g[i]]
    <2>2. n \in Nat
      OBVIOUS
    <2>3. \A i \in 0..n : g[i] = IF i = 0 THEN <<>>
                                 ELSE IF s[i] \in S THEN Append(g[i - 1], s[i]) ELSE g[i - 1]
      BY <2>1 DEF ThoseUpTo
    <2> HIDE DEF top
    <2>4. h[n + 1] = top /\ h[n] = g[n]
          /\ \A i \in 0..n : h[i] = g[i] /\ (i # 0 => h[i - 1] = g[i - 1])
      BY <2>2
    <2>5. h[n + 1] = IF s[n + 1] \in S THEN Append(h[n], s[n + 1]) ELSE h[n]
      BY <2>4 DEF top
    <2>6. ASSUME NEW i \in 0..(n + 1)
          PROVE  h[i] = IF i = 0 THEN <<>> ELSE IF s[i] \in S THEN Append(h[i - 1], s[i])
                                                ELSE h[i - 1]
      <3>1. CASE i = n + 1
        <4>1. i # 0 /\ i - 1 = n
          BY <2>2, <3>1
        <4> QED
          BY <3>1, <4>1, <2>5
      <3>2. CASE i # n + 1
        <4>1. i \in 0..n /\ h[i] = g[i] /\ (i # 0 => h[i - 1] = g[i - 1])
          BY <2>2, <2>4, <3>2
        <4> QED
          BY <4>1, <2>3
      <3> QED
        BY <3>1, <3>2
    <2>7. ThoseUpTo(h, s, S, n + 1)
      BY <2>6 DEF ThoseUpTo
    <2> QED
      BY <2>2, <2>7
  <1>3. \A n \in Nat : n \in T
    BY <1>1, <1>2, Induction
  <1> QED
    BY <1>3

LEMMA ThoseIs ==
    ASSUME NEW A, NEW s \in Seq(A), NEW S
    PROVE  \E f : ThoseUpTo(f, s, S, Len(s)) /\ Those(s, S) = f[Len(s)]
  <1> DEFINE n == Len(s)
             f == CHOOSE g : g = [i \in 0..n |-> IF i = 0 THEN <<>>
                                                 ELSE IF s[i] \in S THEN Append(g[i - 1],
                                                     s[i]) ELSE g[i - 1]]
  <1>0. n \in Nat
    OBVIOUS
  <1>1. PICK g : ThoseUpTo(g, s, S, n)
    BY <1>0, ThoseExists
  <1>2. f = [i \in 0..n |-> IF i = 0 THEN <<>>
                            ELSE IF s[i] \in S THEN Append(f[i - 1], s[i]) ELSE f[i - 1]]
    BY <1>1 DEF ThoseUpTo
  <1>3. ThoseUpTo(f, s, S, n)
    BY <1>2 DEF ThoseUpTo
  <1>4. Those(s, S) = f[n]
    BY DEF Those
  <1> QED
    BY <1>3, <1>4

LEMMA ThoseNone ==
    ASSUME NEW S
    PROVE  Those(<<>>, S) = <<>>
  <1>1. PICK f : ThoseUpTo(f, <<>>, S, 0) /\ Those(<<>>, S) = f[0]
    BY ThoseIs, <<>> \in Seq({}), Len(<<>>) = 0
  <1> QED
    BY <1>1 DEF ThoseUpTo

LEMMA ThoseAppend ==
    ASSUME NEW A, NEW s \in Seq(A), NEW r \in A, NEW S
    PROVE  Those(Append(s, r), S) = IF r \in S THEN Append(Those(s, S), r)
                                          ELSE Those(s, S)
  <1> DEFINE n == Len(s)
             s2 == Append(s, r)
  <1>1. n \in Nat /\ s2 \in Seq(A) /\ Len(s2) = n + 1 /\ s2[n + 1] = r
        /\ \A i \in 1..n : s2[i] = s[i]
    OBVIOUS
  <1>2. PICK f : ThoseUpTo(f, s, S, n) /\ Those(s, S) = f[n]
    BY ThoseIs
  <1> HIDE DEF s2
  <1>3. PICK f2 : ThoseUpTo(f2, s2, S, n + 1) /\ Those(s2, S) = f2[n + 1]
    BY <1>1, ThoseIs
  <1>4. \A i \in 0..n : f[i] = IF i = 0 THEN <<>>
                               ELSE IF s[i] \in S THEN Append(f[i - 1], s[i]) ELSE f[i - 1]
    BY <1>2 DEF ThoseUpTo
  <1>5. \A i \in 0..(n + 1) : f2[i] = IF i = 0 THEN <<>>
                                      ELSE IF s2[i] \in S THEN Append(f2[i - 1], s2[i])
                                           ELSE f2[i - 1]
    BY <1>3 DEF ThoseUpTo
  <1> DEFINE T == {i \in Nat : i <= n => f2[i] = f[i]}
  <1>6. 0 \in T
    BY <1>1, <1>4, <1>5
  <1>7. ASSUME NEW i \in Nat, i \in T
        PROVE  i + 1 \in T
    <2> SUFFICES ASSUME i + 1 <= n
                 PROVE  f2[i + 1] = f[i + 1]
      OBVIOUS
    <2>1. i + 1 \in 0..n /\ i + 1 \in 0..(n + 1) /\ i + 1 # 0 /\ (i + 1) - 1 = i
          /\ s2[i + 1] = s[i + 1] /\ f2[i] = f[i]
      BY <1>1, <1>7
    <2> QED
      BY <2>1, <1>4, <1>5
  <1>8. f2[n] = f[n]
    <2> HIDE DEF T
    <2>1. n \in T
      BY <1>1, <1>6, <1>7, Induction
    <2> QED
      BY <1>1, <2>1 DEF T
  <1>9. n + 1 \in 0..(n + 1) /\ n + 1 # 0 /\ (n + 1) - 1 = n
    BY <1>1
  <1>10. f2[n + 1] = IF r \in S THEN Append(f[n], r) ELSE f[n]
    BY <1>1, <1>5, <1>8, <1>9
  <1> QED
    BY <1>2, <1>3, <1>10 DEF s2

(* g[i] is what the first i records of s make of the rows. *)
AfterUpTo(g, s, rows, n) ==
    g = [i \in 0..n |-> IF i = 0 THEN rows ELSE InsertRow(g[i - 1], s[i])]

LEMMA AfterExists ==
    ASSUME NEW s, NEW rows
    PROVE  \A n \in Nat : \E g : AfterUpTo(g, s, rows, n)
  <1> DEFINE T == {n \in Nat : \E g : AfterUpTo(g, s, rows, n)}
  <1>1. 0 \in T
    <2>1. AfterUpTo([i \in 0..0 |-> rows], s, rows, 0)
      BY DEF AfterUpTo
    <2> QED
      BY <2>1
  <1>2. ASSUME NEW n \in T
        PROVE  n + 1 \in T
    <2>1. PICK g : AfterUpTo(g, s, rows, n)
      OBVIOUS
    <2> DEFINE top == InsertRow(g[n], s[n + 1])
               h == [i \in 0..(n + 1) |-> IF i = n + 1 THEN top ELSE g[i]]
    <2>2. n \in Nat
      OBVIOUS
    <2>3. \A i \in 0..n : g[i] = IF i = 0 THEN rows ELSE InsertRow(g[i - 1], s[i])
      BY <2>1 DEF AfterUpTo
    <2> HIDE DEF top
    <2>4. h[n + 1] = top /\ h[n] = g[n]
          /\ \A i \in 0..n : h[i] = g[i] /\ (i # 0 => h[i - 1] = g[i - 1])
      BY <2>2
    <2>5. h[n + 1] = InsertRow(h[n], s[n + 1])
      BY <2>4 DEF top
    <2>6. ASSUME NEW i \in 0..(n + 1)
          PROVE  h[i] = IF i = 0 THEN rows ELSE InsertRow(h[i - 1], s[i])
      <3>1. CASE i = n + 1
        <4>1. i # 0 /\ i - 1 = n
          BY <2>2, <3>1
        <4> QED
          BY <3>1, <4>1, <2>5
      <3>2. CASE i # n + 1
        <4>1. i \in 0..n /\ h[i] = g[i] /\ (i # 0 => h[i - 1] = g[i - 1])
          BY <2>2, <2>4, <3>2
        <4> QED
          BY <4>1, <2>3
      <3> QED
        BY <3>1, <3>2
    <2>7. AfterUpTo(h, s, rows, n + 1)
      BY <2>6 DEF AfterUpTo
    <2> QED
      BY <2>2, <2>7
  <1>3. \A n \in Nat : n \in T
    BY <1>1, <1>2, Induction
  <1> QED
    BY <1>3

LEMMA AfterIs ==
    ASSUME NEW A, NEW s \in Seq(A), NEW rows
    PROVE  \E f : AfterUpTo(f, s, rows, Len(s)) /\ RowsAfter(rows, s) = f[Len(s)]
  <1> DEFINE n == Len(s)
             f == CHOOSE g : g = [i \in 0..n |-> IF i = 0 THEN rows
                                                 ELSE InsertRow(g[i - 1], s[i])]
  <1>0. n \in Nat
    OBVIOUS
  <1>1. PICK g : AfterUpTo(g, s, rows, n)
    BY <1>0, AfterExists
  <1>2. f = [i \in 0..n |-> IF i = 0 THEN rows ELSE InsertRow(f[i - 1], s[i])]
    BY <1>1 DEF AfterUpTo
  <1>3. AfterUpTo(f, s, rows, n)
    BY <1>2 DEF AfterUpTo
  <1>4. RowsAfter(rows, s) = f[n]
    BY DEF RowsAfter
  <1> QED
    BY <1>3, <1>4

LEMMA AfterNone ==
    ASSUME NEW rows
    PROVE  RowsAfter(rows, <<>>) = rows
  <1>1. PICK f : AfterUpTo(f, <<>>, rows, 0) /\ RowsAfter(rows, <<>>) = f[0]
    BY AfterIs, <<>> \in Seq({}), Len(<<>>) = 0
  <1> QED
    BY <1>1 DEF AfterUpTo

LEMMA AfterAppend ==
    ASSUME NEW A, NEW s \in Seq(A), NEW r \in A, NEW rows
    PROVE  RowsAfter(rows, Append(s, r)) = InsertRow(RowsAfter(rows, s), r)
  <1> DEFINE n == Len(s)
             s2 == Append(s, r)
  <1>1. n \in Nat /\ s2 \in Seq(A) /\ Len(s2) = n + 1 /\ s2[n + 1] = r
        /\ \A i \in 1..n : s2[i] = s[i]
    OBVIOUS
  <1>2. PICK f : AfterUpTo(f, s, rows, n) /\ RowsAfter(rows, s) = f[n]
    BY AfterIs
  <1> HIDE DEF s2
  <1>3. PICK f2 : AfterUpTo(f2, s2, rows, n + 1) /\ RowsAfter(rows, s2) = f2[n + 1]
    BY <1>1, AfterIs
  <1>4. \A i \in 0..n : f[i] = IF i = 0 THEN rows ELSE InsertRow(f[i - 1], s[i])
    BY <1>2 DEF AfterUpTo
  <1>5. \A i \in 0..(n + 1) : f2[i] = IF i = 0 THEN rows ELSE InsertRow(f2[i - 1], s2[i])
    BY <1>3 DEF AfterUpTo
  <1> DEFINE T == {i \in Nat : i <= n => f2[i] = f[i]}
  <1>6. 0 \in T
    BY <1>1, <1>4, <1>5
  <1>7. ASSUME NEW i \in Nat, i \in T
        PROVE  i + 1 \in T
    <2> SUFFICES ASSUME i + 1 <= n
                 PROVE  f2[i + 1] = f[i + 1]
      OBVIOUS
    <2>1. i + 1 \in 0..n /\ i + 1 \in 0..(n + 1) /\ i + 1 # 0 /\ (i + 1) - 1 = i
          /\ s2[i + 1] = s[i + 1] /\ f2[i] = f[i]
      BY <1>1, <1>7
    <2> QED
      BY <2>1, <1>4, <1>5
  <1>8. f2[n] = f[n]
    <2> HIDE DEF T
    <2>1. n \in T
      BY <1>1, <1>6, <1>7, Induction
    <2> QED
      BY <1>1, <2>1 DEF T
  <1>9. n + 1 \in 0..(n + 1) /\ n + 1 # 0 /\ (n + 1) - 1 = n
    BY <1>1
  <1>10. f2[n + 1] = InsertRow(f[n], r)
    BY <1>1, <1>5, <1>8, <1>9
  <1> QED
    BY <1>2, <1>3, <1>10 DEF s2

(* g[i] is the order of the tables of the first i records of s. *)
OrderUpTo(g, s, n) ==
    g = [i \in 0..n |-> IF i = 0 THEN <<>>
                        ELSE IF \E k \in DOMAIN g[i - 1] : g[i - 1][k] = s[i].table
                             THEN g[i - 1] ELSE Append(g[i - 1], s[i].table)]

LEMMA OrderExists ==
    ASSUME NEW s
    PROVE  \A n \in Nat : \E g : OrderUpTo(g, s, n)
  <1> DEFINE T == {n \in Nat : \E g : OrderUpTo(g, s, n)}
  <1>1. 0 \in T
    <2>1. OrderUpTo([i \in 0..0 |-> <<>>], s, 0)
      BY DEF OrderUpTo
    <2> QED
      BY <2>1
  <1>2. ASSUME NEW n \in T
        PROVE  n + 1 \in T
    <2>1. PICK g : OrderUpTo(g, s, n)
      OBVIOUS
    <2> DEFINE top == IF \E k \in DOMAIN g[n] : g[n][k] = s[n + 1].table THEN g[n]
                      ELSE Append(g[n], s[n + 1].table)
               h == [i \in 0..(n + 1) |-> IF i = n + 1 THEN top ELSE g[i]]
    <2>2. n \in Nat
      OBVIOUS
    <2>3. \A i \in 0..n : g[i] = IF i = 0 THEN <<>>
                                 ELSE IF \E k \in DOMAIN g[i - 1] : g[i - 1][k] = s[i].table
                                      THEN g[i - 1] ELSE Append(g[i - 1], s[i].table)
      BY <2>1 DEF OrderUpTo
    <2> HIDE DEF top
    <2>4. h[n + 1] = top /\ h[n] = g[n]
          /\ \A i \in 0..n : h[i] = g[i] /\ (i # 0 => h[i - 1] = g[i - 1])
      BY <2>2
    <2>5. h[n + 1] = IF \E k \in DOMAIN h[n] : h[n][k] = s[n + 1].table THEN h[n]
                     ELSE Append(h[n], s[n + 1].table)
      BY <2>4 DEF top
    <2>6. ASSUME NEW i \in 0..(n + 1)
          PROVE  h[i] = IF i = 0 THEN <<>>
                        ELSE IF \E k \in DOMAIN h[i - 1] : h[i - 1][k] = s[i].table
                             THEN h[i - 1] ELSE Append(h[i - 1], s[i].table)
      <3>1. CASE i = n + 1
        <4>1. i # 0 /\ i - 1 = n
          BY <2>2, <3>1
        <4> QED
          BY <3>1, <4>1, <2>5
      <3>2. CASE i # n + 1
        <4>1. i \in 0..n /\ h[i] = g[i] /\ (i # 0 => h[i - 1] = g[i - 1])
          BY <2>2, <2>4, <3>2
        <4> QED
          BY <4>1, <2>3
      <3> QED
        BY <3>1, <3>2
    <2>7. OrderUpTo(h, s, n + 1)
      BY <2>6 DEF OrderUpTo
    <2> QED
      BY <2>2, <2>7
  <1>3. \A n \in Nat : n \in T
    BY <1>1, <1>2, Induction
  <1> QED
    BY <1>3

LEMMA OrderIs ==
    ASSUME NEW A, NEW s \in Seq(A)
    PROVE  \E f : OrderUpTo(f, s, Len(s)) /\ Order(s) = f[Len(s)]
  <1> DEFINE n == Len(s)
             f == CHOOSE g : g = [i \in 0..n |-> IF i = 0 THEN <<>>
                                                 ELSE IF \E k \in DOMAIN g[i - 1] : g[i - 1][k] = s[i].table
                                                         THEN g[i - 1] ELSE Append(g[i - 1], s[i].table)]
  <1>0. n \in Nat
    OBVIOUS
  <1>1. PICK g : OrderUpTo(g, s, n)
    BY <1>0, OrderExists
  <1>2. f = [i \in 0..n |-> IF i = 0 THEN <<>>
                            ELSE IF \E k \in DOMAIN f[i - 1] : f[i - 1][k] = s[i].table
                                 THEN f[i - 1] ELSE Append(f[i - 1], s[i].table)]
    BY <1>1 DEF OrderUpTo
  <1>3. OrderUpTo(f, s, n)
    BY <1>2 DEF OrderUpTo
  <1>4. Order(s) = f[n]
    BY DEF Order
  <1> QED
    BY <1>3, <1>4

LEMMA OrderNone ==
    Order(<<>>) = <<>>
  <1>1. PICK f : OrderUpTo(f, <<>>, 0) /\ Order(<<>>) = f[0]
    BY OrderIs, <<>> \in Seq({}), Len(<<>>) = 0
  <1> QED
    BY <1>1 DEF OrderUpTo

LEMMA OrderAppend ==
    ASSUME NEW A, NEW s \in Seq(A), NEW r \in A
    PROVE  Order(Append(s,
        r)) = IF \E k \in DOMAIN Order(s) : Order(s)[k] = r.table
              THEN Order(s) ELSE Append(Order(s), r.table)
  <1> DEFINE n == Len(s)
             s2 == Append(s, r)
  <1>1. n \in Nat /\ s2 \in Seq(A) /\ Len(s2) = n + 1 /\ s2[n + 1] = r
        /\ \A i \in 1..n : s2[i] = s[i]
    OBVIOUS
  <1>2. PICK f : OrderUpTo(f, s, n) /\ Order(s) = f[n]
    BY OrderIs
  <1> HIDE DEF s2
  <1>3. PICK f2 : OrderUpTo(f2, s2, n + 1) /\ Order(s2) = f2[n + 1]
    BY <1>1, OrderIs
  <1>4. \A i \in 0..n : f[i] = IF i = 0 THEN <<>>
                               ELSE IF \E k \in DOMAIN f[i - 1] : f[i - 1][k] = s[i].table
                                    THEN f[i - 1] ELSE Append(f[i - 1], s[i].table)
    BY <1>2 DEF OrderUpTo
  <1>5. \A i \in 0..(n + 1) : f2[i] = IF i = 0 THEN <<>>
                                      ELSE IF \E k \in DOMAIN f2[i - 1] : f2[i - 1][k] = s2[i].table
                                              THEN f2[i - 1] ELSE Append(f2[i - 1], s2[i].table)
    BY <1>3 DEF OrderUpTo
  <1> DEFINE T == {i \in Nat : i <= n => f2[i] = f[i]}
  <1>6. 0 \in T
    BY <1>1, <1>4, <1>5
  <1>7. ASSUME NEW i \in Nat, i \in T
        PROVE  i + 1 \in T
    <2> SUFFICES ASSUME i + 1 <= n
                 PROVE  f2[i + 1] = f[i + 1]
      OBVIOUS
    <2>1. i + 1 \in 0..n /\ i + 1 \in 0..(n + 1) /\ i + 1 # 0 /\ (i + 1) - 1 = i
          /\ s2[i + 1] = s[i + 1] /\ f2[i] = f[i]
      BY <1>1, <1>7
    <2> QED
      BY <2>1, <1>4, <1>5
  <1>8. f2[n] = f[n]
    <2> HIDE DEF T
    <2>1. n \in T
      BY <1>1, <1>6, <1>7, Induction
    <2> QED
      BY <1>1, <2>1 DEF T
  <1>9. n + 1 \in 0..(n + 1) /\ n + 1 # 0 /\ (n + 1) - 1 = n
    BY <1>1
  <1>10. f2[n + 1] = IF \E k \in DOMAIN f[n] : f[n][k] = r.table THEN f[n]
                     ELSE Append(f[n], r.table)
    BY <1>1, <1>5, <1>8, <1>9
  <1> QED
    BY <1>2, <1>3, <1>10 DEF s2

-----------------------------------------------------------------------------
(* The first n elements of a sequence, over which the inductions go. *)
Prefix(s, n) == SubSeq(s, 1, n)

LEMMA PrefixIs ==
    ASSUME NEW A, NEW s \in Seq(A)
    PROVE  /\ Len(s) \in Nat
           /\ Prefix(s, 0) = <<>> /\ Prefix(s, Len(s)) = s
           /\ \A n \in 0..Len(s) :
                 /\ Prefix(s, n) \in Seq(A) /\ Len(Prefix(s, n)) = n
                 /\ \A i \in 1..n : Prefix(s, n)[i] = s[i]
  BY DEF Prefix

LEMMA PrefixStep ==
    ASSUME NEW A, NEW s \in Seq(A), NEW n \in Nat, n + 1 <= Len(s)
    PROVE  /\ n \in 0..Len(s) /\ n + 1 \in 0..Len(s) /\ n + 1 \in 1..Len(s)
           /\ s[n + 1] \in A
           /\ Prefix(s, n) \in Seq(A)
           /\ Prefix(s, n + 1) = Append(Prefix(s, n), s[n + 1])
  <1>1. n \in 0..Len(s) /\ n + 1 \in 0..Len(s) /\ n + 1 \in 1..Len(s) /\ Len(s) \in Nat
    OBVIOUS
  <1>2. s[n + 1] \in A
    BY <1>1, ElementOfSeq
  <1>3. Prefix(s, n) \in Seq(A) /\ Len(Prefix(s, n)) = n /\ \A i \in 1..n : Prefix(s, n)[i] = s[i]
    BY <1>1, PrefixIs
  <1>4. Prefix(s, n + 1) \in Seq(A) /\ Len(Prefix(s, n + 1)) = n + 1
        /\ \A i \in 1..(n + 1) : Prefix(s, n + 1)[i] = s[i]
    BY <1>1, PrefixIs
  <1> DEFINE a == Append(Prefix(s, n), s[n + 1])
  <1>5. a \in Seq(A) /\ Len(a) = n + 1 /\ a[n + 1] = s[n + 1] /\ \A i \in 1..n : a[i] = Prefix(s,
      n)[i]
    BY <1>2, <1>3, AppendProperties
  <1>6. \A i \in 1..(n + 1) : Prefix(s, n + 1)[i] = a[i]
    BY <1>1, <1>3, <1>4, <1>5
  <1> HIDE DEF a
  <1>7. Prefix(s, n + 1) = a
    BY <1>4, <1>5, <1>6, SeqEqual
  <1> QED
    BY <1>1, <1>2, <1>3, <1>7 DEF a

-----------------------------------------------------------------------------
(* What Those keeps of one more element. *)
LEMMA ThoseStep ==
    ASSUME NEW A, NEW s \in Seq(A), NEW S, NEW n \in Nat, n + 1 <= Len(s)
    PROVE  Those(Prefix(s, n + 1), S) =
             IF s[n + 1] \in S THEN Append(Those(Prefix(s, n), S), s[n + 1])
                               ELSE Those(Prefix(s, n), S)
  <1> DEFINE p == Prefix(s, n)
             r == s[n + 1]
  <1>1. p \in Seq(A) /\ r \in A /\ Prefix(s, n + 1) = Append(p, r)
    BY PrefixStep
  <1> HIDE DEF p, r
  <1>2. Those(Append(p, r), S) =
          IF r \in S THEN Append(Those(p, S), r) ELSE Those(p, S)
    BY <1>1, ThoseAppend
  <1> QED
    BY <1>1, <1>2 DEF p, r

(* It keeps elements of s that are in S. *)
LEMMA ThoseType ==
    ASSUME NEW A, NEW s \in Seq(A), NEW S
    PROVE  /\ Those(s, S) \in Seq(A \cap S)
           /\ \A n \in 0..Len(s) : Those(Prefix(s, n), S) \in Seq(A \cap S)
  <1> DEFINE T == {n \in Nat : n <= Len(s) => Those(Prefix(s, n), S) \in Seq(A \cap S)}
  <1>1. 0 \in T
    BY PrefixIs, ThoseNone
  <1>2. ASSUME NEW n \in Nat, n \in T
        PROVE  n + 1 \in T
    <2> SUFFICES ASSUME n + 1 <= Len(s)
                 PROVE  Those(Prefix(s, n + 1), S) \in Seq(A \cap S)
      OBVIOUS
    <2>1. Len(s) \in Nat /\ s[n + 1] \in A
      BY PrefixStep
    <2>2. Those(Prefix(s, n), S) \in Seq(A \cap S)
      BY <1>2, <2>1
    <2>3. CASE s[n + 1] \in S
      <3>1. Append(Those(Prefix(s, n), S), s[n + 1]) \in Seq(A \cap S)
        BY <2>1, <2>2, <2>3, AppendProperties
      <3> QED
        BY <2>3, <3>1, ThoseStep
    <2>4. CASE s[n + 1] \notin S
      BY <2>2, <2>4, ThoseStep
    <2> QED
      BY <2>3, <2>4
  <1> HIDE DEF T
  <1>3. \A n \in Nat : n \in T
    BY <1>1, <1>2, Induction
  <1>4. \A n \in 0..Len(s) : Those(Prefix(s, n), S) \in Seq(A \cap S)
    BY <1>3, PrefixIs DEF T
  <1> QED
    BY <1>4, PrefixIs

(* Of more elements it keeps no fewer, and one more where it keeps the last. *)
LEMMA ThoseGrows ==
    ASSUME NEW A, NEW s \in Seq(A), NEW S
    PROVE  \A n \in 0..Len(s) : \A m \in 0..n :
             /\ Len(Those(Prefix(s, m), S)) <= Len(Those(Prefix(s, n), S))
             /\ m < n /\ s[n] \in S =>
                  Len(Those(Prefix(s, m), S)) < Len(Those(Prefix(s, n), S))
  <1> DEFINE Kept(k) == Len(Those(Prefix(s, k), S))
             T == {n \in Nat : n <= Len(s) => \A m \in 0..n :
                      Kept(m) <= Kept(n) /\ (m < n /\ s[n] \in S => Kept(m) < Kept(n))}
  <1>0. \A k \in 0..Len(s) : Kept(k) \in Nat
    BY ThoseType, LenProperties
  <1>1. 0 \in T
    BY <1>0, PrefixIs
  <1>2. ASSUME NEW n \in Nat, n \in T
        PROVE  n + 1 \in T
    <2> SUFFICES ASSUME n + 1 <= Len(s), NEW m \in 0..(n + 1)
                 PROVE  /\ Kept(m) <= Kept(n + 1)
                        /\ m < n + 1 /\ s[n + 1] \in S => Kept(m) < Kept(n + 1)
      <3> HIDE DEF Kept
      <3> QED
        OBVIOUS
    <2>1. Len(s) \in Nat /\ n \in 0..Len(s) /\ n + 1 \in 0..Len(s)
      BY PrefixStep
    <2>2. Kept(n + 1) = IF s[n + 1] \in S THEN Kept(n) + 1 ELSE Kept(n)
      <3>1. s[n + 1] \in A /\ Those(Prefix(s, n), S) \in Seq(A \cap S)
        BY <2>1, PrefixStep, ThoseType
      <3>2. CASE s[n + 1] \in S
        <4>1. Len(Append(Those(Prefix(s, n), S), s[n + 1])) = Kept(n) + 1
          BY <3>1, <3>2, AppendProperties
        <4> QED
          BY <3>2, <4>1, ThoseStep
      <3>3. CASE s[n + 1] \notin S
        BY <3>3, ThoseStep
      <3> QED
        BY <3>2, <3>3
    <2>3. Kept(n) \in Nat /\ Kept(n + 1) \in Nat
      BY <1>0, <2>1
    <2> HIDE DEF Kept
    <2>4. CASE m = n + 1
      BY <2>3, <2>4
    <2>5. CASE m # n + 1
      <3>1. m \in 0..n /\ m \in 0..Len(s)
        BY <2>1, <2>5
      <3>2. Kept(m) <= Kept(n) /\ Kept(m) \in Nat
        BY <1>0, <1>2, <2>1, <3>1
      <3> QED
        BY <2>2, <2>3, <3>2
    <2> QED
      BY <2>4, <2>5
  <1> HIDE DEF T
  <1>3. \A n \in Nat : n \in T
    BY <1>1, <1>2, Induction
  <1> QED
    BY <1>3, PrefixIs DEF T

(* Every initial part of what it keeps is what it keeps of an initial part. *)
LEMMA ThoseReach ==
    ASSUME NEW A, NEW s \in Seq(A), NEW S
    PROVE  \A m \in 0..Len(Those(s, S)) :
             \E k \in 0..Len(s) : Those(Prefix(s, k), S) = Prefix(Those(s, S), m)
  <1> DEFINE Kept(k) == Those(Prefix(s, k), S)
             T == {n \in Nat : n <= Len(s) =>
                     \A m \in 0..Len(Kept(n)) : \E k \in 0..n : Kept(k) = Prefix(Kept(n), m)}
  <1>0. Len(s) \in Nat /\ \A k \in 0..Len(s) : Kept(k) \in Seq(A \cap S)
    BY ThoseType, PrefixIs
  <1>1. 0 \in T
    <2>1. Kept(0) = <<>>
      BY PrefixIs, ThoseNone
    <2>2. ASSUME NEW m \in 0..Len(Kept(0))
          PROVE  Kept(0) = Prefix(Kept(0), m)
      <3> HIDE DEF Kept
      <3>1. m = 0
        BY <2>1
      <3> QED
        BY <2>1, <3>1, PrefixIs, <<>> \in Seq({}), Len(<<>>) = 0
    <2> HIDE DEF Kept
    <2> QED
      BY <2>2
  <1>2. ASSUME NEW n \in Nat, n \in T
        PROVE  n + 1 \in T
    <2> SUFFICES ASSUME n + 1 <= Len(s), NEW m \in 0..Len(Kept(n + 1))
                 PROVE  \E k \in 0..(n + 1) : Kept(k) = Prefix(Kept(n + 1), m)
      <3> HIDE DEF Kept
      <3> QED
        OBVIOUS
    <2>1. n \in 0..Len(s) /\ n + 1 \in 0..Len(s) /\ s[n + 1] \in A
      BY PrefixStep
    <2>2. Kept(n + 1) = IF s[n + 1] \in S THEN Append(Kept(n), s[n + 1]) ELSE Kept(n)
      BY ThoseStep
    <2>3. Kept(n) \in Seq(A \cap S) /\ Kept(n + 1) \in Seq(A \cap S)
      BY <1>0, <2>1
    <2>4. \A i \in 0..Len(Kept(n)) : \E k \in 0..n : Kept(k) = Prefix(Kept(n), i)
      BY <1>0, <1>2, <2>1
    <2> HIDE DEF Kept
    <2>5. CASE s[n + 1] \notin S
      BY <2>2, <2>4, <2>5
    <2>6. CASE s[n + 1] \in S
      <3>1. Len(Kept(n + 1)) = Len(Kept(n)) + 1 /\ Len(Kept(n)) \in Nat
        BY <2>1, <2>2, <2>3, <2>6, AppendProperties
      <3>2. CASE m = Len(Kept(n)) + 1
        <4>1. Prefix(Kept(n + 1), m) = Kept(n + 1)
          BY <2>3, <3>1, <3>2, PrefixIs
        <4> QED
          BY <4>1
      <3>3. CASE m # Len(Kept(n)) + 1
        <4>1. m \in 0..Len(Kept(n))
          BY <3>1, <3>3
        <4>2. Prefix(Kept(n + 1), m) = Prefix(Kept(n), m)
          BY <2>1, <2>2, <2>3, <2>6, <4>1 DEF Prefix
        <4> QED
          BY <2>4, <4>1, <4>2
      <3> QED
        BY <3>2, <3>3
    <2> QED
      BY <2>5, <2>6
  <1> HIDE DEF T
  <1>3. Len(s) \in T
    BY <1>0, <1>1, <1>2, Induction
  <1>4. Kept(Len(s)) = Those(s, S)
    BY PrefixIs
  <1> HIDE DEF Kept
  <1>5. \A m \in 0..Len(Kept(Len(s))) : \E k \in 0..Len(s) : Kept(k) = Prefix(Kept(Len(s)), m)
    BY <1>0, <1>3 DEF T
  <1> QED
    BY <1>4, <1>5 DEF Kept

(* What it keeps of elements c+1 to c+n follows what it keeps of the first c. *)
Follows(b, e, c) == c + Len(b) <= Len(e) /\ \A i \in 1..Len(b) : b[i] = e[c + i]
Joined(x, y) == x \o y

LEMMA ThoseConcat ==
    ASSUME NEW A, NEW e \in Seq(A), NEW S, NEW b \in Seq(A), NEW c \in Nat,
           Follows(b, e, c), NEW n0 \in 0..Len(b)
    PROVE  Those(Prefix(e, c + n0), S) =
           Joined(Those(Prefix(e, c), S), Those(Prefix(b, n0), S))
  <1> DEFINE K == Those(Prefix(e, c), S)
             L(k) == Those(Prefix(b, k), S)
             M(k) == Those(Prefix(e, c + k), S)
             T == {n \in Nat : n <= Len(b) => M(n) = K \o L(n)}
  <1>0. Len(b) \in Nat /\ Len(e) \in Nat
    BY LenProperties
  <1>00. c + Len(b) <= Len(e) /\ \A i \in 1..Len(b) : b[i] = e[c + i]
    BY DEF Follows
  <1>1. K \in Seq(A \cap S) /\ \A k \in 0..Len(b) : L(k) \in Seq(A \cap S)
    <2>1. c \in 0..Len(e)
      BY <1>0, <1>00
    <2> QED
      BY <2>1, ThoseType
  <1>2. 0 \in T
    <2>1. L(0) = <<>>
      BY PrefixIs, ThoseNone
    <2>2. M(0) = K
      OBVIOUS
    <2> HIDE DEF K, L, M
    <2>3. K \o L(0) = K
      BY <1>1, <2>1, ConcatEmptySeq
    <2> QED
      BY <2>2, <2>3
  <1>3. ASSUME NEW n \in Nat, n \in T
        PROVE  n + 1 \in T
    <2> SUFFICES ASSUME n + 1 <= Len(b)
                 PROVE  M(n + 1) = K \o L(n + 1)
      <3> HIDE DEF K, L, M
      <3> QED
        OBVIOUS
    <2> DEFINE r == b[n + 1]
    <2>1. n \in 0..Len(b) /\ n + 1 \in 1..Len(b) /\ c + n \in Nat /\ (c + n) + 1 <= Len(e)
          /\ c + (n + 1) = (c + n) + 1 /\ e[(c + n) + 1] = r
      BY <1>0, <1>00
    <2>2. L(n + 1) = IF r \in S THEN Append(L(n), r) ELSE L(n)
      BY ThoseStep
    <2>3. M(n + 1) = IF r \in S THEN Append(M(n), r) ELSE M(n)
      <3>1. Those(Prefix(e, (c + n) + 1), S) =
              IF e[(c + n) + 1] \in S THEN Append(M(n), e[(c + n) + 1]) ELSE M(n)
        BY <2>1, ThoseStep
      <3> QED
        BY <2>1, <3>1
    <2>4. r \in A
      BY <2>1, ElementOfSeq
    <2>5. M(n) = K \o L(n)
      <3> HIDE DEF K, L, M
      <3> QED
        BY <1>0, <1>3, <2>1
    <2>6. L(n) \in Seq(A \cap S)
      BY <1>1, <2>1
    <2> HIDE DEF K, L, M, r
    <2>7. ASSUME r \in S
          PROVE  Append(M(n), r) = K \o Append(L(n), r)
      <3> DEFINE B == A \cap S
                 m == M(n)
                 l == L(n)
      <3>1. r \in B /\ K \in Seq(B) /\ l \in Seq(B) /\ m = K \o l
        BY <1>1, <2>4, <2>5, <2>6, <2>7
      <3> HIDE DEF B, m, l
      <3>2. m \in Seq(B) /\ <<r>> \in Seq(B)
        BY <3>1, ConcatProperties
      <3>3. Append(m, r) = m \o <<r>> /\ Append(l, r) = l \o <<r>>
        BY <3>1, <3>2, AppendIsConcat
      <3>4. (K \o l) \o <<r>> = K \o (l \o <<r>>)
        BY <3>1, <3>2, ConcatAssociative
      <3> QED
        BY <3>1, <3>3, <3>4 DEF m, l
    <2> QED
      BY <2>2, <2>3, <2>5, <2>7
  <1> HIDE DEF K, L, M
  <1>4. \A n \in Nat : n \in T
    <2> HIDE DEF T
    <2> QED
      BY <1>2, <1>3, Induction
  <1>5. n0 \in T /\ n0 <= Len(b)
    BY <1>0, <1>4
  <1> QED
    BY <1>5 DEF K, L, M, Joined

(* Rows inserted after rows. *)
LEMMA AfterConcat ==
    ASSUME NEW A, NEW x \in Seq(A), NEW y \in Seq(A), NEW rows
    PROVE  RowsAfter(rows, x \o y) = RowsAfter(RowsAfter(rows, x), y)
  <1> DEFINE P(k) == x \o Prefix(y, k)
             M(k) == RowsAfter(rows, P(k))
             L(k) == RowsAfter(RowsAfter(rows, x), Prefix(y, k))
             T == {n \in Nat : n <= Len(y) => M(n) = L(n)}
  <1>1. 0 \in T
    <2>1. P(0) = x
      BY PrefixIs, ConcatEmptySeq
    <2>2. L(0) = RowsAfter(rows, x)
      BY PrefixIs, AfterNone
    <2>3. M(0) = L(0)
      BY <2>1, <2>2
    <2> HIDE DEF M, L
    <2> QED
      BY <2>3
  <1>2. ASSUME NEW n \in Nat, n \in T
        PROVE  n + 1 \in T
    <2> SUFFICES ASSUME n + 1 <= Len(y)
                 PROVE  M(n + 1) = L(n + 1)
      <3> HIDE DEF M, L
      <3> QED
        OBVIOUS
    <2> DEFINE p == Prefix(y, n)
               r == y[n + 1]
    <2>1. p \in Seq(A) /\ r \in A /\ Prefix(y, n + 1) = Append(p, r) /\ n <= Len(y)
      BY PrefixStep, PrefixIs
    <2>2. M(n) = L(n)
      <3> HIDE DEF M, L, p, r
      <3> QED
        BY <1>2, <2>1
    <2>3. M(n) = RowsAfter(rows, x \o p) /\ M(n + 1) = RowsAfter(rows, x \o Append(p,
        r))
      BY <2>1
    <2>4. L(n) = RowsAfter(RowsAfter(rows, x), p)
          /\ L(n + 1) = RowsAfter(RowsAfter(rows, x), Append(p, r))
      BY <2>1
    <2> HIDE DEF M, L, P, p, r
    <2>5. x \o Append(p, r) = Append(x \o p, r) /\ x \o p \in Seq(A)
      BY <2>1
    <2>6. RowsAfter(rows, Append(x \o p, r)) = InsertRow(RowsAfter(rows,
        x \o p), r)
      BY <2>1, <2>5, AfterAppend
    <2>7. RowsAfter(RowsAfter(rows, x), Append(p, r)) =
            InsertRow(RowsAfter(RowsAfter(rows, x), p), r)
      BY <2>1, AfterAppend
    <2> QED
      BY <2>2, <2>3, <2>4, <2>5, <2>6, <2>7
  <1>3. Len(y) \in T
    <2> HIDE DEF T
    <2> QED
      BY <1>1, <1>2, Induction, LenProperties
  <1>4. M(Len(y)) = L(Len(y))
    <2> HIDE DEF M, L
    <2> QED
      BY <1>3, LenProperties
  <1>5. Prefix(y, Len(y)) = y
    BY PrefixIs
  <1> QED
    BY <1>4, <1>5

-----------------------------------------------------------------------------
(* The order of the groups: each table of the records, once. *)
LEMMA OrderOnce ==
    ASSUME NEW A, NEW s \in Seq(A), \A r \in A : r.table \in Tables
    PROVE  \A n \in 0..Len(s) : LET o == Order(Prefix(s, n)) IN
             /\ o \in Seq(Tables)
             /\ \A i, j \in DOMAIN o : o[i] = o[j] => i = j
             /\ \A t : (\E i \in DOMAIN o : o[i] = t) <=> (\E i \in 1..n : s[i].table = t)
  <1> DEFINE O(k) == Order(Prefix(s, k))
             P(n) == /\ O(n) \in Seq(Tables)
                     /\ \A i, j \in DOMAIN O(n) : O(n)[i] = O(n)[j] => i = j
                     /\ \A t : (\E i \in DOMAIN O(n) : O(n)[i] = t)
                              <=> (\E i \in 1..n : s[i].table = t)
             T == {n \in Nat : n <= Len(s) => P(n)}
  <1>1. 0 \in T
    <2>1. O(0) = <<>>
      BY PrefixIs, OrderNone
    <2>2. O(0) \in Seq(Tables) /\ DOMAIN O(0) = {}
      <3> HIDE DEF O
      <3>1. <<>> \in Seq(Tables)
        OBVIOUS
      <3>2. DOMAIN <<>> = {}
        OBVIOUS
      <3> QED
        BY <2>1, <3>1, <3>2
    <2>3. P(0)
      <3> HIDE DEF O
      <3> QED
        BY <2>2
    <2> HIDE DEF P
    <2> QED
      BY <2>3
  <1>2. ASSUME NEW n \in Nat, n \in T
        PROVE  n + 1 \in T
    <2> SUFFICES ASSUME n + 1 <= Len(s)
                 PROVE  P(n + 1)
      <3> HIDE DEF P
      <3> QED
        OBVIOUS
    <2> DEFINE p == Prefix(s, n)
               r == s[n + 1]
    <2>1. p \in Seq(A) /\ r \in A /\ Prefix(s, n + 1) = Append(p, r) /\ n <= Len(s)
      BY PrefixStep, PrefixIs
    <2>2. P(n)
      <3> HIDE DEF P, p, r
      <3> QED
        BY <1>2, <2>1
    <2>3. O(n + 1) = IF \E k \in DOMAIN O(n) : O(n)[k] = r.table THEN O(n)
                     ELSE Append(O(n), r.table)
      <3> HIDE DEF p, r
      <3>1. Order(Append(p, r)) =
              IF \E k \in DOMAIN Order(p) : Order(p)[k] = r.table THEN Order(p)
              ELSE Append(Order(p), r.table)
        BY <2>1, OrderAppend
      <3>2. O(n) = Order(p) /\ O(n + 1) = Order(Append(p, r))
        BY <2>1 DEF p
      <3> HIDE DEF O
      <3> QED
        BY <3>1, <3>2
    <2>4. r.table \in Tables
      BY <2>1
    <2>5. \A t : (\E i \in 1..(n + 1) : s[i].table = t)
               <=> ((\E i \in 1..n : s[i].table = t) \/ r.table = t)
      OBVIOUS
    <2> DEFINE o == O(n)
               u == r.table
    <2>6. /\ o \in Seq(Tables)
          /\ \A i, j \in DOMAIN o : o[i] = o[j] => i = j
          /\ \A t : (\E i \in DOMAIN o : o[i] = t) <=> (\E i \in 1..n : s[i].table = t)
      BY <2>2
    <2>7. O(n + 1) = IF \E k \in DOMAIN o : o[k] = u THEN o ELSE Append(o, u)
      BY <2>3
    <2> DEFINE o2 == O(n + 1)
    <2> SUFFICES /\ o2 \in Seq(Tables)
                 /\ \A i, j \in DOMAIN o2 : o2[i] = o2[j] => i = j
                 /\ \A t : (\E i \in DOMAIN o2 : o2[i]
                     = t) <=> (\E i \in 1..(n + 1) : s[i].table = t)
      OBVIOUS
    <2>10. u \in Tables /\ o2 = IF \E k \in DOMAIN o : o[k] = u THEN o ELSE Append(o, u)
      BY <2>4, <2>7
    <2> HIDE DEF O, P, p, r, o, u, o2
    <2>8. CASE \E k \in DOMAIN o : o[k] = u
      <3>1. o2 = o
        BY <2>8, <2>10
      <3>2. \A t : (\E i \in DOMAIN o : o[i] = t) <=> (\E i \in 1..(n + 1) : s[i].table = t)
        BY <2>5, <2>6, <2>8 DEF u
      <3> QED
        BY <3>1, <3>2, <2>6
    <2>9. CASE ~ \E k \in DOMAIN o : o[k] = u
      <3> DEFINE m == Len(o)
      <3>1. o2 = Append(o, u) /\ o2 \in Seq(Tables)
        BY <2>6, <2>9, <2>10, AppendProperties
      <3>2. m \in Nat /\ DOMAIN o = 1..m /\ DOMAIN o2 = 1..(m + 1) /\ o2[m + 1] = u
            /\ \A i \in 1..m : o2[i] = o[i]
        BY <2>6, <2>10, <3>1
      <3> HIDE DEF m
      <3>3. \A i, j \in DOMAIN o2 : o2[i] = o2[j] => i = j
        <4> SUFFICES ASSUME NEW i \in 1..(m + 1), NEW j \in 1..(m + 1), o2[i] = o2[j]
                     PROVE  i = j
          BY <3>2
        <4>1. CASE i = m + 1 /\ j = m + 1
          BY <4>1
        <4>2. CASE i \in 1..m /\ j \in 1..m
          BY <4>2, <2>6, <3>2
        <4>3. CASE i = m + 1 /\ j \in 1..m
          BY <4>3, <2>9, <3>2
        <4>4. CASE i \in 1..m /\ j = m + 1
          BY <4>4, <2>9, <3>2
        <4> QED
          BY <4>1, <4>2, <4>3, <4>4, <3>2
      <3>4. \A t : (\E i \in DOMAIN o2 : o2[i] = t) <=> ((\E i \in DOMAIN o : o[i] = t) \/ u = t)
        <4>1. 1..(m + 1) = (1..m) \cup {m + 1}
          BY <3>2
        <4> QED
          BY <3>2, <4>1
      <3> QED
        BY <3>1, <3>3, <3>4, <2>5, <2>6 DEF u
    <2> QED
      BY <2>8, <2>9
  <1> HIDE DEF P
  <1>3. \A n \in Nat : n \in T
    <2> HIDE DEF T
    <2> QED
      BY <1>1, <1>2, Induction
  <1>4. \A n \in 0..Len(s) : P(n)
    BY <1>3, LenProperties
  <1> QED
    BY <1>4 DEF P

-----------------------------------------------------------------------------
(* Counting.  Mine(t, n) are those of the first n emitted records that go   *)
(* to table t, Again(t, n) the duplicates among them; RowsOf(t, n) is what  *)
(* table t holds when they are inserted one by one.                         *)
Mine(t, n) == {i \in 1..n : emitted[i].table = t}
Again(t, n) == {i \in Mine(t, n) : IsDuplicate(i)}
RowsOf(t, n) == RowsAfter(<<>>, OfTable(Prefix(emitted, n), t))

LEMMA CardinalityAdds ==
    ASSUME NEW S, NEW T, IsFiniteSet(S), IsFiniteSet(T), S \cap T = {}
    PROVE  IsFiniteSet(S \cup T) /\ Cardinality(S \cup T) = Cardinality(S) + Cardinality(T)
  <1>1. Cardinality(S) \in Nat /\ Cardinality(T) \in Nat /\ Cardinality({}) = 0
    BY FS_CardinalityType, FS_EmptySet
  <1>2. /\ IsFiniteSet(S \cup T)
        /\ Cardinality(S \cup T) = Cardinality(S) + Cardinality(T) - Cardinality(S \cap T)
    BY FS_Union
  <1>3. Cardinality(S \cap T) = 0
    BY <1>1
  <1> DEFINE a == Cardinality(S)
             b == Cardinality(T)
             c == Cardinality(S \cup T)
             d == Cardinality(S \cap T)
  <1>4. a \in Nat /\ b \in Nat /\ c = a + b - d /\ d = 0
    BY <1>1, <1>2, <1>3
  <1>5. c = a + b
    <2> HIDE DEF a, b, c, d
    <2> QED
      BY <1>4
  <1> QED
    BY <1>2, <1>5

(* What OfTable keeps of one more record. *)
LEMMA OfTableStep ==
    ASSUME emitted \in Seq(Records), NEW t, NEW n \in Nat, n + 1 <= Len(emitted)
    PROVE  /\ emitted[n + 1] \in Records
           /\ OfTable(Prefix(emitted, n), t) \in Seq(Records)
           /\ OfTable(Prefix(emitted, n + 1), t) =
                IF emitted[n + 1].table = t
                THEN Append(OfTable(Prefix(emitted, n), t), emitted[n + 1])
                ELSE OfTable(Prefix(emitted, n), t)
  <1> DEFINE S == {r \in Records : r.table = t}
  <1>1. emitted[n + 1] \in Records /\ n \in 0..Len(emitted)
    BY PrefixStep
  <1>2. \A s : OfTable(s, t) = Those(s, S)
    BY DEF OfTable
  <1>3. emitted[n + 1] \in S <=> emitted[n + 1].table = t
    BY <1>1
  <1>4. Those(Prefix(emitted, n), S) \in Seq(Records)
    <2>1. Those(Prefix(emitted, n), S) \in Seq(Records \cap S)
      BY <1>1, ThoseType
    <2>2. Records \cap S \subseteq Records
      OBVIOUS
    <2> HIDE DEF S
    <2> QED
      BY <2>1, <2>2
  <1> HIDE DEF S
  <1>5. Those(Prefix(emitted, n + 1), S) =
          IF emitted[n + 1] \in S
          THEN Append(Those(Prefix(emitted, n), S), emitted[n + 1])
          ELSE Those(Prefix(emitted, n), S)
    BY ThoseStep
  <1> QED
    BY <1>1, <1>2, <1>3, <1>4, <1>5

LEMMA CountMine ==
    ASSUME emitted \in Seq(Records), NEW t
    PROVE  \A n \in 0..Len(emitted) :
             /\ IsFiniteSet(Mine(t, n))
             /\ Cardinality(Mine(t, n)) = Len(OfTable(Prefix(emitted, n), t))
  <1> DEFINE K(n) == OfTable(Prefix(emitted, n), t)
             P(n) == IsFiniteSet(Mine(t, n)) /\ Cardinality(Mine(t, n)) = Len(K(n))
             T == {n \in Nat : n <= Len(emitted) => P(n)}
  <1>1. 0 \in T
    <2>1. K(0) = <<>>
      BY PrefixIs, ThoseNone DEF OfTable
    <2>2. Mine(t, 0) = {}
      BY DEF Mine
    <2> HIDE DEF K
    <2> QED
      BY <2>1, <2>2, FS_EmptySet
  <1>2. ASSUME NEW n \in Nat, n \in T
        PROVE  n + 1 \in T
    <2> SUFFICES ASSUME n + 1 <= Len(emitted)
                 PROVE  P(n + 1)
      <3> HIDE DEF P
      <3> QED
        OBVIOUS
    <2>1. n <= Len(emitted) /\ Len(emitted) \in Nat
      BY LenProperties
    <2>2. P(n)
      <3> HIDE DEF P
      <3> QED
        BY <1>2, <2>1
    <2> DEFINE e == emitted[n + 1]
    <2>3. e \in Records /\ K(n) \in Seq(Records) /\ K(n + 1) = IF e.table = t
                                                               THEN Append(K(n), e) ELSE K(n)
      BY OfTableStep
    <2>4. Mine(t, n + 1) = IF e.table = t THEN Mine(t, n) \cup {n + 1} ELSE Mine(t, n)
      BY DEF Mine
    <2>5. n + 1 \notin Mine(t, n)
      BY DEF Mine
    <2> HIDE DEF K, e
    <2>6. CASE e.table = t
      <3>1. Len(Append(K(n), e)) = Len(K(n)) + 1
        BY <2>3, AppendProperties
      <3>2. IsFiniteSet(Mine(t, n + 1)) /\ Cardinality(Mine(t, n + 1)) = Cardinality(Mine(t, n)) + 1
        <4>1. Mine(t, n + 1) = Mine(t, n) \cup {n + 1}
          BY <2>4, <2>6
        <4>2. IsFiniteSet(Mine(t, n))
          BY <2>2
        <4> QED
          BY <2>5, <4>1, <4>2, FS_AddElement
      <3> QED
        BY <2>2, <2>3, <2>6, <3>1, <3>2
    <2>7. CASE e.table # t
      BY <2>2, <2>3, <2>4, <2>7
    <2> QED
      BY <2>6, <2>7
  <1> HIDE DEF P
  <1>3. \A n \in Nat : n \in T
    <2> HIDE DEF T
    <2> QED
      BY <1>1, <1>2, Induction
  <1>4. \A n \in 0..Len(emitted) : P(n)
    BY <1>3, LenProperties
  <1> QED
    BY <1>4 DEF P

(* One row more, or none, in a table that ignores. *)
LEMMA InsertIgnored ==
    ASSUME NEW r, Conflict[r.table] = "ignore", NEW rows
    PROVE  InsertRow(rows, r) =
             IF \E i \in DOMAIN rows : rows[i].key = r.key THEN rows ELSE Append(rows, r)
  BY DEF InsertRow, SameKey

(* A table that ignores has the keys of its records, and a record for each  *)
(* that is no duplicate.                                                    *)
LEMMA CountAgain ==
    ASSUME emitted \in Seq(Records), NEW t, Conflict[t] = "ignore"
    PROVE  \A n \in 0..Len(emitted) :
             /\ RowsOf(t, n) \in Seq(Records)
             /\ \A key : (\E i \in DOMAIN RowsOf(t, n) : RowsOf(t, n)[i].key = key)
                            <=> (\E j \in 1..n : emitted[j].table = t /\ emitted[j].key = key)
             /\ IsFiniteSet(Again(t, n))
             /\ Cardinality(Again(t, n)) + Len(RowsOf(t, n)) = Len(OfTable(Prefix(emitted,
                 n), t))
  <1> DEFINE K(n) == OfTable(Prefix(emitted, n), t)
             Keys(n) == \A key : (\E i \in DOMAIN RowsOf(t, n) : RowsOf(t, n)[i].key = key)
                            <=> (\E j \in 1..n : emitted[j].table = t /\ emitted[j].key = key)
             Count(n) == IsFiniteSet(Again(t, n)) /\ Cardinality(Again(t, n)) + Len(RowsOf(t,
                 n)) = Len(K(n))
             P(n) == RowsOf(t, n) \in Seq(Records) /\ Keys(n) /\ Count(n)
             T == {n \in Nat : n <= Len(emitted) => P(n)}
  <1>1. 0 \in T
    <2>1. K(0) = <<>>
      BY PrefixIs, ThoseNone DEF OfTable
    <2>2. RowsOf(t, 0) = <<>>
      BY <2>1, AfterNone DEF RowsOf
    <2>3. Again(t, 0) = {}
      BY DEF Again, Mine
    <2>4. Keys(0)
      BY <2>2
    <2>5. Count(0)
      <3> HIDE DEF K
      <3>1. Cardinality(Again(t, 0)) = 0 /\ IsFiniteSet(Again(t, 0))
        BY <2>3, FS_EmptySet
      <3>2. Len(RowsOf(t, 0)) = 0 /\ Len(K(0)) = 0
        BY <2>1, <2>2
      <3> QED
        BY <3>1, <3>2
    <2>6. RowsOf(t, 0) \in Seq(Records)
      BY <2>2, EmptySeq
    <2> HIDE DEF Keys, Count
    <2> QED
      BY <2>4, <2>5, <2>6
  <1>2. ASSUME NEW n \in Nat, n \in T
        PROVE  n + 1 \in T
    <2> SUFFICES ASSUME n + 1 <= Len(emitted)
                 PROVE  P(n + 1)
      <3> HIDE DEF P
      <3> QED
        OBVIOUS
    <2>1. n <= Len(emitted) /\ Len(emitted) \in Nat
      BY LenProperties
    <2>2. P(n)
      <3> HIDE DEF P
      <3> QED
        BY <1>2, <2>1
    <2> DEFINE e == emitted[n + 1]
               rows == RowsOf(t, n)
               next == RowsOf(t, n + 1)
    <2>3. e \in Records /\ K(n) \in Seq(Records) /\ K(n + 1) = IF e.table = t
                                                               THEN Append(K(n), e) ELSE K(n)
      BY OfTableStep
    <2>4. Mine(t, n + 1) = IF e.table = t THEN Mine(t, n) \cup {n + 1} ELSE Mine(t, n)
      BY DEF Mine
    <2>5. n + 1 \notin Mine(t, n)
      BY DEF Mine
    <2>6. rows \in Seq(Records) /\ Count(n)
          /\ \A key : (\E i \in DOMAIN rows : rows[i].key = key)
                        <=> (\E j \in 1..n : emitted[j].table = t /\ emitted[j].key = key)
      BY <2>2
    <2>7. CASE e.table # t
      <3>1. next = rows
        <4> HIDE DEF K, e
        <4> QED
          BY <2>3, <2>7 DEF RowsOf, K
      <3>2. \A key : (\E j \in 1..n : emitted[j].table = t /\ emitted[j].key = key)
                <=> (\E j \in 1..(n + 1) : emitted[j].table = t /\ emitted[j].key = key)
        <4>1. 1..(n + 1) = (1..n) \cup {n + 1}
          OBVIOUS
        <4> QED
          BY <2>7, <4>1
      <3>3. Again(t, n + 1) = Again(t, n)
        BY <2>4, <2>7 DEF Again
      <3>4. K(n + 1) = K(n)
        BY <2>3, <2>7
      <3>5. Keys(n + 1)
        BY <2>6, <3>1, <3>2
      <3>6. Count(n + 1)
        BY <2>6, <3>1, <3>3, <3>4
      <3> HIDE DEF Keys, Count
      <3> QED
        BY <2>6, <3>1, <3>5, <3>6
    <2>8. CASE e.table = t
      <3>1. next = IF \E i \in DOMAIN rows : rows[i].key = e.key THEN rows ELSE Append(rows, e)
        <4>1. next = InsertRow(rows, e)
          <5>1. K(n + 1) = Append(K(n), e)
            BY <2>3, <2>8
          <5>2. RowsAfter(<<>>, Append(K(n), e)) = InsertRow(RowsAfter(<<>>,
                                                                                           K(n)), e)
            <6> HIDE DEF K, e
            <6> QED
              BY <2>3, AfterAppend
          <5> QED
            BY <5>1, <5>2 DEF RowsOf
        <4> HIDE DEF e, rows, next
        <4> QED
          BY <2>8, <4>1, InsertIgnored
      <3>2. IsDuplicate(n + 1) <=> \E i \in DOMAIN rows : rows[i].key = e.key
        <4>1. IsDuplicate(n + 1) <=> \E j \in 1..n : emitted[j].table
            = t /\ emitted[j].key = e.key
          <5>1. (n + 1) - 1 = n
            OBVIOUS
          <5> QED
            BY <2>8, <5>1 DEF IsDuplicate, SameKey
        <4> HIDE DEF e, rows
        <4> QED
          BY <2>6, <4>1
      <3>3. Again(t, n + 1) = IF IsDuplicate(n + 1) THEN Again(t, n) \cup {n + 1}
                              ELSE Again(t, n)
        BY <2>4, <2>8 DEF Again
      <3>4. n + 1 \notin Again(t, n)
        BY <2>5 DEF Again
      <3>5. K(n + 1) = Append(K(n), e) /\ Len(K(n + 1)) = Len(K(n)) + 1
        <4> HIDE DEF K, e
        <4> QED
          BY <2>3, <2>8, AppendProperties
      <3>6. \A key : (\E j \in 1..(n + 1) : emitted[j].table = t /\ emitted[j].key = key)
                <=> ((\E j \in 1..n : emitted[j].table = t /\ emitted[j].key = key) \/ e.key = key)
        <4>1. 1..(n + 1) = (1..n) \cup {n + 1}
          OBVIOUS
        <4> QED
          BY <2>8, <4>1
      <3>7. Len(rows) \in Nat /\ Len(K(n)) \in Nat /\ Cardinality(Again(t, n)) \in Nat
        <4>1. Cardinality(Again(t, n)) \in Nat
          BY <2>6, FS_CardinalityType
        <4> HIDE DEF K, rows
        <4> QED
          BY <4>1, <2>3, <2>6, LenProperties
      <3>8. CASE \E i \in DOMAIN rows : rows[i].key = e.key
        <4>1. next = rows
          BY <3>1, <3>8
        <4>2. \A key : (\E i \in DOMAIN rows : rows[i].key = key)
                 <=> (\E j \in 1..(n + 1) : emitted[j].table = t /\ emitted[j].key = key)
          <5> HIDE DEF e, rows, next
          <5> QED
            BY <2>6, <3>6, <3>8
        <4>3. IsFiniteSet(Again(t, n + 1)) /\ Cardinality(Again(t, n + 1)) = Cardinality(Again(t,
            n)) + 1
          <5>1. Again(t, n + 1) = Again(t, n) \cup {n + 1}
            BY <3>2, <3>3, <3>8
          <5> QED
            BY <2>6, <3>4, <5>1, FS_AddElement
        <4>4. Count(n + 1)
          <5> HIDE DEF K
          <5> QED
            BY <2>6, <3>5, <3>7, <4>1, <4>3
        <4> HIDE DEF Count
        <4> QED
          BY <2>6, <4>1, <4>2, <4>4
      <3>9. CASE ~ \E i \in DOMAIN rows : rows[i].key = e.key
        <4> DEFINE m == Len(rows)
        <4>1. next = Append(rows, e)
          BY <3>1, <3>9
        <4>2. next \in Seq(Records) /\ Len(next) = m + 1 /\ next[m + 1] = e
              /\ \A i \in 1..m : next[i] = rows[i]
          <5> HIDE DEF e, rows, next
          <5> QED
            BY <2>3, <2>6, <4>1, AppendProperties
        <4>3. DOMAIN rows = 1..m /\ DOMAIN next = (1..m) \cup {m + 1} /\ m \in Nat
          <5>1. 1..(m + 1) = (1..m) \cup {m + 1}
            BY <3>7
          <5> HIDE DEF e, rows, next
          <5>2. DOMAIN next = 1..(m + 1) /\ DOMAIN rows = 1..m
            BY <2>6, <4>2, LenProperties
          <5> QED
            BY <3>7, <5>1, <5>2
        <4>4. \A key : (\E i \in DOMAIN next : next[i].key = key)
                 <=> ((\E i \in DOMAIN rows : rows[i].key = key) \/ e.key = key)
          <5> HIDE DEF e, rows, next, m
          <5> QED
            BY <4>2, <4>3
        <4>5. Keys(n + 1)
          <5> HIDE DEF e, rows
          <5> QED
            BY <2>6, <3>6, <4>4
        <4>6. Again(t, n + 1) = Again(t, n)
          BY <3>2, <3>3, <3>9
        <4>7. Count(n + 1)
          <5> HIDE DEF K
          <5> QED
            BY <2>6, <3>5, <3>7, <4>2, <4>6
        <4> HIDE DEF Count, Keys
        <4> QED
          BY <4>2, <4>5, <4>7
      <3> QED
        BY <3>8, <3>9
    <2> QED
      BY <2>7, <2>8
  <1> HIDE DEF P
  <1>3. \A n \in Nat : n \in T
    <2> HIDE DEF T
    <2> QED
      BY <1>1, <1>2, Induction
  <1>4. \A n \in 0..Len(emitted) : P(n)
    BY <1>3, LenProperties
  <1> QED
    BY <1>4 DEF P

LEMMA CardinalityOfRest ==
    ASSUME NEW S, NEW T, IsFiniteSet(T), S \subseteq T
    PROVE  /\ IsFiniteSet(T \ S) /\ Cardinality(T \ S) \in Nat
           /\ Cardinality(S) \in Nat /\ Cardinality(T) \in Nat
           /\ Cardinality(T \ S) = Cardinality(T) - Cardinality(S)
  <1>1. IsFiniteSet(S) /\ IsFiniteSet(T \ S)
    BY FS_Subset
  <1>2. S \cap (T \ S) = {} /\ S \cup (T \ S) = T
    OBVIOUS
  <1>3. Cardinality(S \cup (T \ S)) = Cardinality(S) + Cardinality(T \ S)
    BY <1>1, <1>2, CardinalityAdds
  <1> DEFINE a == Cardinality(S)
             b == Cardinality(T)
             d == Cardinality(T \ S)
  <1>4. a \in Nat /\ b \in Nat /\ d \in Nat
    BY <1>1, FS_CardinalityType
  <1>5. b = a + d
    BY <1>2, <1>3
  <1>6. d = b - a
    <2> HIDE DEF a, b, d
    <2> QED
      BY <1>4, <1>5
  <1> QED
    BY <1>1, <1>4, <1>6

(* A statement that inserts the records of table t up to the b-th when those *)
(* up to the a-th are inserted: what it makes of the table, how many records *)
(* it stands for, and how many of them are duplicates.                       *)
LEMMA ChunkCounts ==
    ASSUME emitted \in Seq(Records), NEW t, NEW a \in 0..Len(emitted), NEW b \in 0..Len(emitted),
           a <= b, NEW chunk \in Seq(Records),
           OfTable(Prefix(emitted, b), t) = OfTable(Prefix(emitted, a), t) \o chunk
    PROVE  /\ RowsOf(t, b) = RowsAfter(RowsOf(t, a), chunk)
           /\ IsFiniteSet(Mine(t, b) \ Mine(t, a))
           /\ Cardinality(Mine(t, b) \ Mine(t, a)) = Len(chunk)
           /\ IsFiniteSet(Again(t, b) \ Again(t, a))
           /\ Cardinality(Again(t, b) \ Again(t, a)) \in Nat
           /\ Affected(t, RowsOf(t, a), chunk) =
                Len(chunk) - Cardinality(Again(t, b) \ Again(t, a))
           /\ Affected(t, RowsOf(t, a), chunk) \in Nat
  <1> DEFINE K(n) == OfTable(Prefix(emitted, n), t)
  <1>1. K(a) \in Seq(Records) /\ K(b) \in Seq(Records) /\ K(b) = K(a) \o chunk
    <2>1. \A n \in 0..Len(emitted) : K(n) \in Seq(Records)
      <3> DEFINE S == {r \in Records : r.table = t}
      <3>1. Records \cap S \subseteq Records
        OBVIOUS
      <3>2. \A n \in 0..Len(emitted) : K(n) = Those(Prefix(emitted, n), S)
        BY DEF OfTable
      <3> HIDE DEF S, K
      <3>3. \A n \in 0..Len(emitted) : Those(Prefix(emitted, n), S) \in Seq(Records \cap S)
        BY ThoseType
      <3> QED
        BY <3>1, <3>2, <3>3
    <2> QED
      BY <2>1
  <1>2. Len(K(a)) \in Nat /\ Len(chunk) \in Nat /\ Len(K(b)) = Len(K(a)) + Len(chunk)
    <2> HIDE DEF K
    <2> QED
      BY <1>1, ConcatProperties, LenProperties
  <1>3. RowsOf(t, b) = RowsAfter(RowsOf(t, a), chunk)
    <2>1. RowsOf(t, b) = RowsAfter(<<>>, K(b)) /\ RowsOf(t, a) = RowsAfter(<<>>, K(a))
      BY DEF RowsOf
    <2> HIDE DEF K
    <2> QED
      BY <1>1, <2>1, AfterConcat
  <1>4. Mine(t, a) \subseteq Mine(t, b) /\ Again(t, a) \subseteq Again(t, b)
    BY DEF Mine, Again
  <1>5. /\ IsFiniteSet(Mine(t, b)) /\ Cardinality(Mine(t, b)) = Len(K(b))
        /\ Cardinality(Mine(t, a)) = Len(K(a))
    BY CountMine
  <1>6. IsFiniteSet(Mine(t, b) \ Mine(t, a)) /\ Cardinality(Mine(t, b) \ Mine(t, a)) = Len(chunk)
    <2>1. /\ IsFiniteSet(Mine(t, b) \ Mine(t, a))
          /\ Cardinality(Mine(t, b) \ Mine(t, a)) = Cardinality(Mine(t, b)) - Cardinality(Mine(t,
              a))
      BY <1>4, <1>5, CardinalityOfRest
    <2> HIDE DEF K
    <2>2. Len(K(b)) - Len(K(a)) = Len(chunk)
      BY <1>2
    <2> QED
      BY <1>5, <2>1, <2>2
  <1> DEFINE d == Cardinality(Again(t, b) \ Again(t, a))
  <1>9. d \in Nat /\ d <= Len(chunk)
    <2>1. Again(t, b) \ Again(t, a) \subseteq Mine(t, b) \ Mine(t, a)
      BY DEF Again
    <2>2. /\ Cardinality(Again(t, b) \ Again(t, a)) <= Cardinality(Mine(t, b) \ Mine(t, a))
          /\ IsFiniteSet(Again(t, b) \ Again(t, a))
      BY <1>6, <2>1, FS_Subset
    <2> QED
      BY <1>6, <2>2, FS_CardinalityType
  <1>7. CASE Conflict[t] = "ignore"
    <2>1. /\ IsFiniteSet(Again(t, b))
          /\ Cardinality(Again(t, b)) + Len(RowsOf(t, b)) = Len(K(b))
          /\ Cardinality(Again(t, a)) + Len(RowsOf(t, a)) = Len(K(a))
          /\ RowsOf(t, a) \in Seq(Records) /\ RowsOf(t, b) \in Seq(Records)
      BY <1>7, CountAgain
    <2>2. /\ IsFiniteSet(Again(t, b) \ Again(t, a)) /\ d \in Nat
          /\ Cardinality(Again(t, b)) \in Nat /\ Cardinality(Again(t, a)) \in Nat
          /\ d = Cardinality(Again(t, b)) - Cardinality(Again(t, a))
      BY <1>4, <2>1, CardinalityOfRest
    <2>3. Affected(t, RowsOf(t, a), chunk) = Len(RowsOf(t, b)) - Len(RowsOf(t, a))
      BY <1>3, <1>7 DEF Affected
    <2>4. Len(RowsOf(t, b)) \in Nat /\ Len(RowsOf(t, a)) \in Nat
      BY <2>1, LenProperties
    <2>5. Len(RowsOf(t, b)) - Len(RowsOf(t, a)) = Len(chunk) - d
      <3> DEFINE ka == Len(K(a))
                 kb == Len(K(b))
                 ra == Len(RowsOf(t, a))
                 rb == Len(RowsOf(t, b))
                 ga == Cardinality(Again(t, a))
                 gb == Cardinality(Again(t, b))
                 l == Len(chunk)
      <3>1. /\ ka \in Nat /\ kb \in Nat /\ ra \in Nat /\ rb \in Nat
            /\ ga \in Nat /\ gb \in Nat /\ l \in Nat /\ d \in Nat
            /\ kb = ka + l /\ d = gb - ga /\ gb + rb = kb /\ ga + ra = ka
        BY <1>2, <2>1, <2>2, <2>4
      <3> HIDE DEF ka, kb, ra, rb, ga, gb, l, d
      <3>2. rb - ra = l - d
        BY <3>1
      <3> QED
        BY <3>2 DEF ra, rb, l
    <2> HIDE DEF d, K
    <2>6. Len(chunk) - d \in Nat
      BY <1>2, <1>9
    <2>7. Affected(t, RowsOf(t, a), chunk) = Len(chunk) - d
      BY <2>3, <2>5
    <2> QED
      BY <1>3, <1>6, <1>9, <2>2, <2>6, <2>7 DEF d
  <1>8. CASE Conflict[t] # "ignore"
    <2>1. Again(t, b) = {} /\ Again(t, a) = {}
      BY <1>8 DEF Again, Mine, IsDuplicate
    <2>2. Again(t, b) \ Again(t, a) = {}
      BY <2>1
    <2>3. IsFiniteSet(Again(t, b) \ Again(t, a)) /\ d = 0
      BY <2>2, FS_EmptySet
    <2>4. Affected(t, RowsOf(t, a), chunk) = Len(chunk)
      BY <1>8 DEF Affected
    <2> HIDE DEF d
    <2>5. Len(chunk) - d = Len(chunk) /\ Len(chunk) \in Nat
      BY <1>2, <2>3
    <2> QED
      BY <1>3, <1>6, <1>9, <2>3, <2>4, <2>5 DEF d
  <1> QED
    BY <1>7, <1>8

-----------------------------------------------------------------------------
(* The inductive invariant of the writer.                                   *)

(* The batch is in the adapter's buffer; nothing is committed, or promised  *)
(* by the saved state, that was not emitted.                                *)
Bounds ==
    /\ array \in Seq(Records) /\ length \in 0..Len(array)
    /\ emitted \in Seq(Records) /\ committed \in 0..Len(emitted) /\ saved \in 0..committed
    /\ inserted \in Nat /\ duplicates \in Nat
    /\ at \in {"select", "begin", "insert", "closed", "dead"}

(* What the writer holds follows what is committed, ... *)
Buffered ==
    /\ buf \in Seq(Records) /\ committed + Len(buf) <= Len(emitted)
    /\ \A i \in 1..Len(buf) : buf[i] = emitted[committed + i]
    /\ pending \in 0..(committed + Len(buf))

(* ... and what is queued follows that: the first i messages reach up to     *)
(* record pos[i], and no state is ahead of the records.                     *)
QueuedAt(pos) ==
    /\ pos \in [0..Len(ch) -> 0..Len(emitted)]
    /\ pos[0] = committed + Len(buf) /\ pos[Len(ch)] = Len(emitted)
    /\ \A i \in 1..Len(ch) :
          /\ ch[i].state <= pos[i] /\ pos[i] = pos[i - 1] + Len(ch[i].recs)
          /\ \A k \in 1..Len(ch[i].recs) : ch[i].recs[k] = emitted[pos[i - 1] + k]
Messages == [shared : {FALSE}, recs : Seq(Records), state : Nat]
Queued == ch \in Seq(Messages) /\ \E pos \in [0..Len(ch) -> 0..Len(emitted)] : QueuedAt(pos)

(* Of the committed records, the counters count each once. *)
Counted == inserted + duplicates = committed
           /\ duplicates = Cardinality({i \in 1..committed : IsDuplicate(i)})

(* In a transaction each group is the records of a table, a table of its    *)
(* own; the table t holds the committed records and the first upto[t] of    *)
(* the buffer.  Only the first of the groups may be inserted in part.       *)
Through(upto) == {i \in 1..(committed + Len(buf)) : i <= committed + upto[emitted[i].table]}
Dup(S) == {i \in S : IsDuplicate(i)}
GroupsOf(ord) ==
    /\ ord \in Seq(Tables)
    /\ \A i, j \in DOMAIN ord : ord[i] = ord[j] => i = j
    /\ groups = [i \in DOMAIN ord |-> OfTable(buf, ord[i])]
    /\ \A i \in DOMAIN ord : groups[i] # <<>>
InsertedAt(ord, upto) ==
    /\ upto \in [Tables -> 0..Len(buf)]
    /\ work = [t \in Tables |-> RowsOf(t, committed + upto[t])]
    /\ \A t \in Tables : (\A i \in DOMAIN ord : ord[i] # t) => upto[t] = Len(buf)
    /\ \A i \in DOMAIN ord : i > 1 => upto[ord[i]] = 0
    /\ start \in Nat
    /\ ord # <<>> =>
          /\ start < Len(groups[1])
          /\ OfTable(Prefix(buf, upto[ord[1]]), ord[1]) = Prefix(groups[1], start)
CountedAt(upto) ==
    /\ inserted + duplicates = Cardinality(Through(upto))
    /\ duplicates = Cardinality(Dup(Through(upto)))

InTransaction ==
    \E ord \in Seq(Tables) : \E upto \in [Tables -> 0..Len(buf)] :
       GroupsOf(ord) /\ InsertedAt(ord, upto) /\ CountedAt(upto)

Ledger ==
    /\ Bounds
    /\ tables = [t \in Tables |-> RowsOf(t, committed)]
    /\ at # "dead" => Buffered /\ Queued
    /\ at \in {"select", "begin", "closed"} => Counted
    /\ at = "insert" => InTransaction

-----------------------------------------------------------------------------
(* What earlier records mean stays when more are emitted. *)
Grown ==
    /\ emitted' \in Seq(Records) /\ Len(emitted) <= Len(emitted')
    /\ \A i \in 1..Len(emitted) : emitted'[i] = emitted[i]

LEMMA GrownFacts ==
    ASSUME emitted \in Seq(Records), Grown
    PROVE  /\ Len(emitted) \in Nat /\ Len(emitted') \in Nat
           /\ \A t : \A n \in 0..Len(emitted) : RowsOf(t, n)' = RowsOf(t, n)
           /\ \A i \in 1..Len(emitted) : IsDuplicate(i)' <=> IsDuplicate(i)
  <1>1. Len(emitted) \in Nat /\ Len(emitted') \in Nat
    BY LenProperties DEF Grown
  <1>2. \A n \in 0..Len(emitted) : Prefix(emitted', n) = Prefix(emitted, n)
    <2> SUFFICES ASSUME NEW n \in 0..Len(emitted)
                 PROVE  Prefix(emitted', n) = Prefix(emitted, n)
      OBVIOUS
    <2> DEFINE x == emitted
               y == emitted'
    <2>1. x \in Seq(Records) /\ y \in Seq(Records) /\ n \in 0..Len(x) /\ n \in 0..Len(y)
          /\ \A i \in 1..n : y[i] = x[i]
      BY <1>1 DEF Grown
    <2> HIDE DEF x, y
    <2>2. Prefix(x, n) \in Seq(Records) /\ Len(Prefix(x, n)) = n
          /\ \A i \in 1..n : Prefix(x, n)[i] = x[i]
      BY <2>1, PrefixIs
    <2>3. Prefix(y, n) \in Seq(Records) /\ Len(Prefix(y, n)) = n
          /\ \A i \in 1..n : Prefix(y, n)[i] = y[i]
      BY <2>1, PrefixIs
    <2>4. \A i \in 1..Len(Prefix(x, n)) : Prefix(x, n)[i] = Prefix(y, n)[i]
      BY <2>1, <2>2, <2>3
    <2>5. Prefix(x, n) = Prefix(y, n)
      BY <2>2, <2>3, <2>4, SeqEqual
    <2> QED
      BY <2>5 DEF x, y
  <1>3. \A t : \A n \in 0..Len(emitted) : RowsOf(t, n)' = RowsOf(t, n)
    BY <1>2 DEF RowsOf
  <1>4. \A i \in 1..Len(emitted) : IsDuplicate(i)' <=> IsDuplicate(i)
    <2> SUFFICES ASSUME NEW i \in 1..Len(emitted)
                 PROVE  IsDuplicate(i)' <=> IsDuplicate(i)
      OBVIOUS
    <2>1. emitted'[i] = emitted[i] /\ \A j \in 1..(i - 1) : emitted'[j] = emitted[j]
      BY <1>1 DEF Grown
    <2> QED
      BY <2>1 DEF IsDuplicate
  <1> QED
    BY <1>1, <1>3, <1>4

LEMMA KeepsTables ==
    ASSUME Bounds, Grown, UNCHANGED <<tables, committed>>,
           tables = [t \in Tables |-> RowsOf(t, committed)]
    PROVE  tables' = [t \in Tables |-> RowsOf(t, committed)']
  BY GrownFacts DEF Bounds

LEMMA KeepsBuffered ==
    ASSUME Bounds, Grown, Buffered, UNCHANGED <<buf, pending, committed>>
    PROVE  Buffered'
  <1>1. Len(buf) \in Nat /\ committed \in Nat /\ Len(emitted) \in Nat /\ Len(emitted') \in Nat
    BY GrownFacts, LenProperties DEF Bounds, Buffered
  <1>2. \A i \in 1..Len(buf) : committed + i \in 1..Len(emitted)
    BY <1>1 DEF Buffered
  <1> QED
    BY <1>1, <1>2 DEF Buffered, Grown

LEMMA KeepsCounted ==
    ASSUME Bounds, Grown, Counted, UNCHANGED <<inserted, duplicates, committed>>
    PROVE  Counted'
  <1>1. \A i \in 1..committed : i \in 1..Len(emitted)
    BY GrownFacts DEF Bounds
  <1>2. {i \in 1..committed : IsDuplicate(i)'} = {i \in 1..committed : IsDuplicate(i)}
    BY <1>1, GrownFacts DEF Bounds
  <1> QED
    BY <1>2 DEF Counted

LEMMA KeepsTransaction ==
    ASSUME WriterParameters, Bounds, Grown, Buffered, InTransaction,
           UNCHANGED <<buf, committed, work, groups, start, inserted, duplicates>>
    PROVE  InTransaction'
  <1>1. PICK ord \in Seq(Tables), upto \in [Tables -> 0..Len(buf)] :
           GroupsOf(ord) /\ InsertedAt(ord, upto) /\ CountedAt(upto)
    BY DEF InTransaction
  <1>2. Len(buf) \in Nat /\ committed \in Nat /\ Len(emitted) \in Nat /\ Len(emitted') \in Nat
        /\ committed + Len(buf) <= Len(emitted)
    BY GrownFacts, LenProperties DEF Bounds, Buffered
  <1>3. GroupsOf(ord)'
    BY <1>1 DEF GroupsOf
  <1>4. InsertedAt(ord, upto)'
    <2>1. \A t \in Tables : RowsOf(t, committed + upto[t])' = RowsOf(t, committed + upto[t])
      <3>1. \A t \in Tables : committed + upto[t] \in 0..Len(emitted)
        BY <1>2
      <3>2. \A t \in Tables : \A n \in 0..Len(emitted) : RowsOf(t, n)' = RowsOf(t, n)
        BY GrownFacts DEF Bounds
      <3> QED
        BY <3>1, <3>2
    <2> QED
      BY <1>1, <2>1 DEF InsertedAt
  <1>5. Through(upto)' = Through(upto)
    <2>1. \A i \in 1..(committed + Len(buf)) : i \in 1..Len(emitted)
      BY <1>2
    <2> QED
      BY <2>1 DEF Through, Grown
  <1>6. Dup(Through(upto))' = Dup(Through(upto))
    <2>1. \A i \in Through(upto) : i \in 1..Len(emitted)
      BY <1>2 DEF Through
    <2>2. \A i \in Through(upto) : IsDuplicate(i)' <=> IsDuplicate(i)
      BY <2>1, GrownFacts DEF Bounds
    <2> QED
      BY <1>5, <2>2 DEF Dup
  <1>7. CountedAt(upto)'
    BY <1>1, <1>5, <1>6 DEF CountedAt
  <1>8. upto \in [Tables -> 0..Len(buf')]
    OBVIOUS
  <1> QED
    BY <1>3, <1>4, <1>7, <1>8 DEF InTransaction

-----------------------------------------------------------------------------
(* The queue. *)
LEMMA SendKeeps ==
    ASSUME Bounds, Grown, Queued, UNCHANGED <<committed, buf>>,
           NEW m \in Messages, ch' = Append(ch, m),
           Len(emitted') = Len(emitted) + Len(m.recs), m.state <= Len(emitted'),
           \A k \in 1..Len(m.recs) : m.recs[k] = emitted'[Len(emitted) + k]
    PROVE  Queued'
  <1>1. PICK pos \in [0..Len(ch) -> 0..Len(emitted)] : QueuedAt(pos)
    BY DEF Queued
  <1> DEFINE n == Len(ch)
             e == Len(emitted)
             e2 == Len(emitted')
  <1>0. PICK next : next = [i \in 0..(n + 1) |-> IF i = n + 1 THEN e2 ELSE pos[i]]
    OBVIOUS
  <1>2. n \in Nat /\ e \in Nat /\ e2 \in Nat /\ e <= e2 /\ ch \in Seq(Messages)
    BY GrownFacts, LenProperties DEF Bounds, Queued, Grown
  <1>3. ch' \in Seq(Messages) /\ Len(ch') = n + 1 /\ ch'[n + 1] = m /\ \A i \in 1..n : ch'[i]
      = ch[i]
    BY <1>2, AppendProperties
  <1>4. next \in [0..Len(ch') -> 0..Len(emitted')]
    BY <1>0, <1>2, <1>3
  <1>5. QueuedAt(next)'
    <2>1. next[0] = committed + Len(buf)
      BY <1>0, <1>1, <1>2 DEF QueuedAt
    <2>2. next[Len(ch')] = e2
      BY <1>0, <1>2, <1>3
    <2>3. ASSUME NEW i \in 1..Len(ch')
          PROVE  /\ ch'[i].state <= next[i] /\ next[i] = next[i - 1] + Len(ch'[i].recs)
                 /\ \A k \in 1..Len(ch'[i].recs) : ch'[i].recs[k] = emitted'[next[i - 1] + k]
      <3>1. CASE i = n + 1
        <4>1. ch'[i] = m /\ next[i] = e2 /\ next[i - 1] = e
          BY <1>0, <1>1, <1>2, <1>3, <3>1 DEF QueuedAt
        <4> QED
          BY <4>1
      <3>2. CASE i \in 1..n
        <4>1. ch'[i] = ch[i] /\ next[i] = pos[i] /\ next[i - 1] = pos[i - 1]
          BY <1>0, <1>2, <1>3, <3>2
        <4>2. /\ ch[i].state <= pos[i] /\ pos[i] = pos[i - 1] + Len(ch[i].recs)
              /\ \A k \in 1..Len(ch[i].recs) : ch[i].recs[k] = emitted[pos[i - 1] + k]
          BY <1>1, <3>2 DEF QueuedAt
        <4>3. pos[i - 1] \in Nat /\ pos[i] \in 0..e
          BY <1>2, <3>2
        <4>4. ch[i].recs \in Seq(Records) /\ Len(ch[i].recs) \in Nat
          <5>1. ch[i] \in Messages
            BY <1>2, <3>2, ElementOfSeq
          <5> QED
            BY <5>1, LenProperties DEF Messages
        <4>5. \A k \in 1..Len(ch[i].recs) : emitted'[pos[i - 1] + k] = emitted[pos[i - 1] + k]
          BY <1>2, <4>2, <4>3, <4>4 DEF Grown
        <4> QED
          BY <4>1, <4>2, <4>5
      <3> HIDE DEF e, e2
      <3>3. i = n + 1 \/ i \in 1..n
        BY <1>2, <1>3
      <3> QED
        BY <3>1, <3>2, <3>3
    <2> HIDE DEF n, e, e2
    <2>4. next[Len(ch')] = Len(emitted')
      BY <2>2 DEF e2
    <2> QED
      BY <1>4, <2>1, <2>3, <2>4 DEF QueuedAt
  <1> HIDE DEF n, e, e2
  <1> QED
    BY <1>3, <1>4, <1>5 DEF Queued

LEMMA ReceiveKeeps ==
    ASSUME Bounds, Buffered, Queued, Receive
    PROVE  Buffered' /\ Queued'
  <1>1. PICK pos \in [0..Len(ch) -> 0..Len(emitted)] : QueuedAt(pos)
    BY DEF Queued
  <1> DEFINE n == Len(ch)
             m == Head(ch)
             b == Len(buf)
             l == Len(m.recs)
  <1>0. PICK next : next = [i \in 0..(n - 1) |-> pos[i + 1]]
    OBVIOUS
  <1>2. ch \in Seq(Messages) /\ ch # <<>> /\ ch' = Tail(ch) /\ buf \in Seq(Records)
        /\ UNCHANGED <<emitted, committed>>
    BY DEF Receive, Queued, Buffered, adapterVars, dbVars
  <1>3. n \in Nat \ {0} /\ m = ch[1] /\ m \in Messages /\ b \in Nat /\ l \in Nat
    BY <1>2, HeadTailProperties, LenProperties, EmptySeq DEF Messages
  <1>4. ch' \in Seq(Messages) /\ Len(ch') = n - 1 /\ \A i \in 1..(n - 1) : ch'[i] = ch[i + 1]
    BY <1>2, HeadTailProperties
  <1>5. buf' = buf \o m.recs /\ pending' = IF m.state > 0 THEN m.state ELSE pending
    BY <1>3 DEF Receive, RecordsOf, Messages
  <1>6. /\ pos[0] = committed + b /\ pos[1] = committed + b + l /\ m.state <= pos[1]
        /\ \A k \in 1..l : m.recs[k] = emitted[committed + b + k]
    <2>1. 1 \in 1..n /\ 1 - 1 = 0
      BY <1>3
    <2> QED
      BY <1>1, <1>3, <2>1 DEF QueuedAt
  <1>7. pos[1] \in 0..Len(emitted) /\ committed \in Nat /\ Len(emitted) \in Nat
    BY <1>3, LenProperties DEF Bounds
  <1>8. buf' \in Seq(Records) /\ Len(buf') = b + l
        /\ \A k \in 1..(b + l) : buf'[k] = IF k <= b THEN buf[k] ELSE m.recs[k - b]
    <2>1. m.recs \in Seq(Records)
      BY <1>3 DEF Messages
    <2> HIDE DEF m
    <2> QED
      BY <1>2, <1>5, <2>1, ConcatProperties
  <1>9. Buffered'
    <2>1. committed + Len(buf') <= Len(emitted)
      <3> HIDE DEF b, l
      <3> QED
        BY <1>3, <1>6, <1>7, <1>8
    <2>2. \A i \in 1..Len(buf') : buf'[i] = emitted[committed + i]
      <3> SUFFICES ASSUME NEW i \in 1..(b + l)
                   PROVE  buf'[i] = emitted[committed + i]
        BY <1>8
      <3>1. CASE i <= b
        BY <1>3, <1>8, <3>1 DEF Buffered
      <3>2. CASE ~(i <= b)
        <4>1. i - b \in 1..l /\ committed + b + (i - b) = committed + i
          BY <1>3, <1>7, <3>2
        <4> HIDE DEF b, m, l
        <4> QED
          BY <1>6, <1>8, <3>2, <4>1
      <3> QED
        BY <3>1, <3>2
    <2>3. pending' \in 0..(committed + Len(buf'))
      <3>1. m.state \in Nat
        BY <1>3 DEF Messages
      <3>2. pending \in 0..(committed + b)
        BY DEF Buffered
      <3> HIDE DEF m, b, l
      <3> QED
        BY <1>3, <1>5, <1>6, <1>7, <1>8, <3>1, <3>2
    <2> QED
      BY <1>2, <1>8, <2>1, <2>2, <2>3 DEF Buffered
  <1>10. next \in [0..Len(ch') -> 0..Len(emitted')]
    BY <1>0, <1>2, <1>3, <1>4
  <1>11. QueuedAt(next)'
    <2>1. next[0] = committed + Len(buf')
      <3>1. next[0] = pos[1]
        BY <1>0, <1>3
      <3> HIDE DEF b, l
      <3> QED
        BY <1>3, <1>6, <1>7, <1>8, <3>1
    <2>2. next[Len(ch')] = Len(emitted)
      BY <1>0, <1>1, <1>3, <1>4 DEF QueuedAt
    <2>3. ASSUME NEW i \in 1..Len(ch')
          PROVE  /\ ch'[i].state <= next[i] /\ next[i] = next[i - 1] + Len(ch'[i].recs)
                 /\ \A k \in 1..Len(ch'[i].recs) : ch'[i].recs[k] = emitted[next[i - 1] + k]
      <3>1. ch'[i] = ch[i + 1] /\ next[i] = pos[i + 1] /\ next[i - 1] = pos[(i + 1) - 1]
            /\ i + 1 \in 1..n
        BY <1>0, <1>3, <1>4
      <3> QED
        BY <1>1, <3>1 DEF QueuedAt
    <2> HIDE DEF b, l, m, n
    <2> QED
      BY <1>2, <1>10, <2>1, <2>2, <2>3 DEF QueuedAt
  <1> HIDE DEF b, l, m, n
  <1>12. Queued'
    BY <1>4, <1>10, <1>11 DEF Queued
  <1> QED
    BY <1>9, <1>12

-----------------------------------------------------------------------------
(* The records of a table in the buffer. *)
LEMMA OfTableNone ==
    ASSUME NEW s \in Seq(Records), NEW t, \A i \in 1..Len(s) : s[i].table # t
    PROVE  OfTable(s, t) = <<>>
  <1> DEFINE A == {r \in Records : r.table # t}
             S == {r \in Records : r.table = t}
  <1>1. s \in Seq(A)
    <2>1. \A i \in 1..Len(s) : s[i] \in Records
      BY ElementOfSeq
    <2>2. \A i \in 1..Len(s) : s[i] \in A
      BY <2>1
    <2> HIDE DEF A
    <2> QED
      BY <2>2
  <1>2. A \cap S = {}
    OBVIOUS
  <1>3. OfTable(s, t) = Those(s, S)
    BY DEF OfTable
  <1> HIDE DEF A, S
  <1>4. Those(s, S) \in Seq({})
    BY <1>1, <1>2, ThoseType
  <1> DEFINE q == Those(s, S)
  <1>5. q = <<>>
    <2>1. q \in Seq({})
      BY <1>4
    <2> HIDE DEF q
    <2> QED
      BY <2>1
  <1> QED
    BY <1>3, <1>5

LEMMA OfTableSome ==
    ASSUME NEW s \in Seq(Records), NEW t, NEW i \in 1..Len(s), s[i].table = t
    PROVE  OfTable(s, t) # <<>>
  <1> DEFINE S == {r \in Records : r.table = t}
             kept(n) == Len(Those(Prefix(s, n), S))
  <1>1. s[i] \in S /\ i \in Nat /\ 0 < i /\ Len(s) \in Nat
    BY ElementOfSeq
  <1>2. OfTable(s, t) = Those(s, S)
    BY DEF OfTable
  <1> HIDE DEF S
  <1>3. \A n \in 0..Len(s) : kept(n) \in Nat
    BY ThoseType, LenProperties
  <1>4. \A n \in 0..Len(s) : \A m \in 0..n :
           kept(m) <= kept(n) /\ (m < n /\ s[n] \in S => kept(m) < kept(n))
    BY ThoseGrows
  <1> HIDE DEF kept
  <1>5. 0 <= kept(0) /\ kept(0) < kept(i) /\ kept(i) <= kept(Len(s)) /\ kept(i) \in Nat
        /\ kept(0) \in Nat /\ kept(Len(s)) \in Nat
    BY <1>1, <1>3, <1>4
  <1>6. kept(Len(s)) # 0
    BY <1>5
  <1>7. kept(Len(s)) = Len(Those(s, S))
    BY PrefixIs DEF kept
  <1> QED
    BY <1>2, <1>6, <1>7

LEMMA OfTableType ==
    ASSUME NEW s \in Seq(Records), NEW t
    PROVE  /\ OfTable(s, t) \in Seq(Records)
           /\ \A i \in 1..Len(OfTable(s, t)) : OfTable(s, t)[i].table = t
           /\ \A n \in 0..Len(s) : OfTable(Prefix(s, n), t) \in Seq(Records)
           /\ OfTable(Prefix(s, 0), t) = <<>>
           /\ OfTable(Prefix(s, Len(s)), t) = OfTable(s, t)
  <1> DEFINE S == {r \in Records : r.table = t}
             B == Records \cap S
  <1>1. B \subseteq Records /\ \A r \in B : r.table = t
    OBVIOUS
  <1>2. \A x : OfTable(x, t) = Those(x, S)
    BY DEF OfTable
  <1>3. /\ Those(s, S) \in Seq(B)
        /\ \A n \in 0..Len(s) : Those(Prefix(s, n), S) \in Seq(B)
    <2> HIDE DEF S
    <2> QED
      BY ThoseType
  <1> HIDE DEF B, S
  <1> DEFINE q == Those(s, S)
  <1>4. q \in Seq(Records) /\ \A i \in 1..Len(q) : q[i].table = t
    <2>1. q \in Seq(B)
      BY <1>3
    <2> HIDE DEF q
    <2>2. \A i \in 1..Len(q) : q[i] \in B
      BY <2>1, ElementOfSeq
    <2> QED
      BY <1>1, <2>1, <2>2
  <1>5. \A n \in 0..Len(s) : Those(Prefix(s, n), S) \in Seq(Records)
    BY <1>1, <1>3
  <1>6. Those(Prefix(s, 0), S) = <<>> /\ Those(Prefix(s, Len(s)), S) = q
    BY PrefixIs, ThoseNone
  <1> QED
    BY <1>2, <1>4, <1>5, <1>6

(* Among the emitted records they follow those that are committed. *)
LEMMA BufferFollows ==
    ASSUME Bounds, Buffered, NEW t
    PROVE  /\ Len(buf) \in Nat /\ committed \in Nat /\ Len(emitted) \in Nat
           /\ committed + Len(buf) <= Len(emitted)
           /\ OfTable(Prefix(emitted, committed), t) \in Seq(Records)
           /\ \A n \in 0..Len(buf) :
                 OfTable(Prefix(emitted, committed + n), t) =
                   OfTable(Prefix(emitted, committed), t) \o OfTable(Prefix(buf, n), t)
  <1> DEFINE S == {r \in Records : r.table = t}
  <1>1. Len(buf) \in Nat /\ committed \in Nat /\ Len(emitted) \in Nat
        /\ committed + Len(buf) <= Len(emitted) /\ committed \in 0..Len(emitted)
        /\ emitted \in Seq(Records) /\ buf \in Seq(Records)
        /\ \A i \in 1..Len(buf) : buf[i] = emitted[committed + i]
    BY LenProperties DEF Bounds, Buffered
  <1>2. \A x : OfTable(x, t) = Those(x, S)
    BY DEF OfTable
  <1> HIDE DEF S
  <1>3. \A n \in 0..Len(buf) : Those(Prefix(emitted, committed + n), S) =
                                Those(Prefix(emitted, committed),
                                    S) \o Those(Prefix(buf, n), S)
    <2> DEFINE e == emitted
               b == buf
               c == committed
    <2>1. e \in Seq(Records) /\ b \in Seq(Records) /\ c \in Nat /\ Follows(b, e, c)
      BY <1>1 DEF Follows
    <2> HIDE DEF e, b, c
    <2>2. \A n \in 0..Len(b) : Those(Prefix(e, c + n), S) =
                               Joined(Those(Prefix(e, c), S), Those(Prefix(b, n), S))
      BY <2>1, ThoseConcat
    <2> QED
      BY <2>2 DEF e, b, c, Joined
  <1>4. OfTable(Prefix(emitted, committed), t) \in Seq(Records)
    BY <1>1, OfTableType
  <1> QED
    BY <1>1, <1>2, <1>3, <1>4

(* The i-th record of the buffer, among the emitted ones. *)
LEMMA TableOfBuffered ==
    ASSUME WriterParameters, Bounds, Buffered, NEW i \in 1..(committed + Len(buf))
    PROVE  /\ emitted[i] \in Records /\ emitted[i].table \in Tables
           /\ i > committed => i - committed \in 1..Len(buf) /\ emitted[i] = buf[i - committed]
  <1>1. Len(buf) \in Nat /\ committed \in Nat /\ Len(emitted) \in Nat
        /\ committed + Len(buf) <= Len(emitted) /\ emitted \in Seq(Records)
    BY BufferFollows DEF Bounds
  <1>2. emitted[i] \in Records
    BY <1>1, ElementOfSeq
  <1>3. ASSUME i > committed
        PROVE  i - committed \in 1..Len(buf) /\ committed + (i - committed) = i
    BY <1>1, <1>3
  <1> QED
    BY <1>2, <1>3 DEF WriterParameters, Buffered

-----------------------------------------------------------------------------
(* A transaction begins with nothing of its groups inserted. *)
LEMMA BeginOpens ==
    ASSUME WriterParameters, Bounds, Buffered, Counted, Begin,
           tables = [t \in Tables |-> RowsOf(t, committed)]
    PROVE  InTransaction'
  <1> DEFINE l == Len(buf)
             c == committed
  <1>0. PICK ord : ord = Order(buf)
    OBVIOUS
  <1>00. PICK upto : upto = [t \in Tables |-> IF \E i \in DOMAIN ord : ord[i] = t
                                                    THEN 0 ELSE l]
    OBVIOUS
  <1>1. /\ UNCHANGED <<buf, committed, emitted, inserted, duplicates>>
        /\ work' = tables /\ groups' = Group(buf) /\ start' = 0
    BY DEF Begin, adapterVars, dbVars
  <1>2. l \in Nat /\ c \in Nat /\ Len(emitted) \in Nat /\ c + l <= Len(emitted)
      /\ buf \in Seq(Records)
    BY BufferFollows DEF Buffered
  <1>3. /\ ord \in Seq(Tables)
        /\ \A i, j \in DOMAIN ord : ord[i] = ord[j] => i = j
        /\ \A t : (\E i \in DOMAIN ord : ord[i] = t) <=> (\E i \in 1..l : buf[i].table = t)
    <2>1. \A r \in Records : r.table \in Tables
      BY DEF WriterParameters
    <2>2. Prefix(buf, l) = buf /\ l \in 0..l
      BY <1>2, PrefixIs
    <2>3. \A n \in 0..Len(buf) :
             /\ Order(Prefix(buf, n)) \in Seq(Tables)
             /\ \A i, j \in DOMAIN Order(Prefix(buf, n)) :
                   Order(Prefix(buf, n))[i] = Order(Prefix(buf, n))[j] => i = j
             /\ \A t : (\E i \in DOMAIN Order(Prefix(buf, n)) : Order(Prefix(buf,
                 n))[i] = t)
                        <=> (\E i \in 1..n : buf[i].table = t)
      BY <1>2, <2>1, OrderOnce
    <2>4. Order(Prefix(buf, l)) = ord
      BY <1>0, <2>2
    <2>5. /\ Order(Prefix(buf, l)) \in Seq(Tables)
          /\ \A i, j \in DOMAIN Order(Prefix(buf, l)) :
                Order(Prefix(buf, l))[i] = Order(Prefix(buf, l))[j] => i = j
          /\ \A t : (\E i \in DOMAIN Order(Prefix(buf, l)) : Order(Prefix(buf,
              l))[i] = t)
                     <=> (\E i \in 1..l : buf[i].table = t)
      BY <2>2, <2>3
    <2> HIDE DEF l
    <2> QED
      BY <2>4, <2>5
  <1>4. upto \in [Tables -> 0..l]
    BY <1>00, <1>2
  <1>5. GroupsOf(ord)'
    <2>1. groups' = [i \in DOMAIN ord |-> OfTable(buf, ord[i])]
      BY <1>0, <1>1 DEF Group
    <2>2. \A i \in DOMAIN ord : OfTable(buf, ord[i]) # <<>>
      <3> SUFFICES ASSUME NEW i \in DOMAIN ord
                   PROVE  OfTable(buf, ord[i]) # <<>>
        OBVIOUS
      <3>1. PICK j \in 1..l : buf[j].table = ord[i]
        BY <1>3
      <3> QED
        BY <1>2, <3>1, OfTableSome
    <2> QED
      BY <1>1, <1>3, <2>1, <2>2 DEF GroupsOf
  <1>6. InsertedAt(ord, upto)'
    <2>1. \A t \in Tables : RowsOf(t, c + upto[t]) = RowsOf(t, c)
      <3> SUFFICES ASSUME NEW t \in Tables
                   PROVE  RowsOf(t, c + upto[t]) = RowsOf(t, c)
        OBVIOUS
      <3>1. CASE \E i \in DOMAIN ord : ord[i] = t
        <4>1. c + upto[t] = c
          BY <1>00, <1>2, <3>1
        <4> QED
          BY <4>1
      <3>2. CASE ~ \E i \in DOMAIN ord : ord[i] = t
        <4>1. upto[t] = l
          BY <1>00, <3>2
        <4>2. OfTable(buf, t) = <<>>
          BY <1>2, <1>3, <3>2, OfTableNone
        <4>3. OfTable(Prefix(buf, l), t) = <<>>
          BY <1>2, <4>2, PrefixIs
        <4> DEFINE K == OfTable(Prefix(emitted, c), t)
                   M == OfTable(Prefix(emitted, c + l), t)
        <4>4. K \in Seq(Records) /\ M = K \o OfTable(Prefix(buf, l), t)
          BY <1>2, BufferFollows
        <4> HIDE DEF K, M
        <4>5. M = K
          BY <4>3, <4>4, ConcatEmptySeq
        <4> QED
          BY <4>1, <4>5 DEF K, M, RowsOf
      <3> QED
        BY <3>1, <3>2
    <2>2. work' = [t \in Tables |-> RowsOf(t, c + upto[t])]
      BY <1>1, <2>1
    <2>3. \A t \in Tables : (\A i \in DOMAIN ord : ord[i] # t) => upto[t] = l
      BY <1>00
    <2>4. \A i \in DOMAIN ord : ord[i] \in Tables /\ upto[ord[i]] = 0
      BY <1>00, <1>3
    <2>5. ASSUME ord # <<>>
          PROVE  /\ 0 < Len(groups'[1])
                 /\ OfTable(Prefix(buf, upto[ord[1]]), ord[1]) = Prefix(groups'[1], 0)
      <3>1. 1 \in DOMAIN ord
        BY <1>3, <2>5, EmptySeq
      <3> DEFINE g == OfTable(buf, ord[1])
      <3>2. groups'[1] = g /\ g # <<>> /\ g \in Seq(Records)
        BY <1>1, <1>2, <1>5, <3>1, OfTableType DEF GroupsOf
      <3>3. OfTable(Prefix(buf, 0), ord[1]) = <<>>
        BY <1>2, OfTableType
      <3> HIDE DEF g
      <3>4. 0 < Len(g) /\ Prefix(g, 0) = <<>>
        BY <3>2, PrefixIs, EmptySeq
      <3> QED
        BY <2>4, <3>1, <3>2, <3>3, <3>4
    <2>6. \A t \in Tables : RowsOf(t, c + upto[t])' = RowsOf(t, c + upto[t])
      BY <1>1 DEF RowsOf
    <2> QED
      BY <1>1, <1>4, <2>2, <2>3, <2>4, <2>5, <2>6 DEF InsertedAt
  <1>7. Through(upto) = 1..c
    <2>1. \A i \in 1..c : i \in 1..(c + l) /\ emitted[i].table \in Tables
      BY <1>2, TableOfBuffered
    <2>2. \A i \in 1..c : i <= c + upto[emitted[i].table]
      BY <1>2, <1>4, <2>1
    <2>3. ASSUME NEW i \in 1..(c + l), i > c
          PROVE  ~(i <= c + upto[emitted[i].table])
      <3>1. i - c \in 1..l /\ emitted[i] = buf[i - c] /\ emitted[i].table \in Tables
        BY <2>3, TableOfBuffered
      <3>2. \E j \in DOMAIN ord : ord[j] = emitted[i].table
        BY <1>3, <3>1
      <3>3. upto[emitted[i].table] = 0
        BY <1>00, <3>1, <3>2
      <3> QED
        BY <1>2, <2>3, <3>3
    <2>4. \A i \in 1..(c + l) : i <= c + upto[emitted[i].table] <=> i <= c
      BY <1>2, <2>2, <2>3
    <2> HIDE DEF c, l
    <2>5. {i \in 1..(c + l) : i <= c + upto[emitted[i].table]} = 1..c
      BY <1>2, <2>4
    <2> QED
      BY <2>5 DEF Through, c, l
  <1>8. Through(upto)' = 1..c
    BY <1>1, <1>7 DEF Through
  <1>9. CountedAt(upto)'
    <2>1. Cardinality(1..c) = c
      BY <1>2, FS_Interval
    <2>2. \A i \in 1..c : IsDuplicate(i)' <=> IsDuplicate(i)
      BY <1>1 DEF IsDuplicate
    <2>3. Dup(Through(upto))' = {i \in 1..c : IsDuplicate(i)}
      BY <1>8, <2>2 DEF Dup
    <2> QED
      BY <1>1, <1>8, <2>1, <2>3 DEF CountedAt, Counted
  <1>10. upto \in [Tables -> 0..Len(buf')]
    BY <1>1, <1>4
  <1> HIDE DEF l, c
  <1> QED
    BY <1>3, <1>5, <1>6, <1>9, <1>10 DEF InTransaction

(* A commit has inserted all groups, hence all records of the buffer. *)
LEMMA CommitCloses ==
    ASSUME WriterParameters, Bounds, Buffered, Queued, InTransaction, CommitFlush
    PROVE  /\ Bounds' /\ Buffered' /\ Queued' /\ Counted'
           /\ tables' = [t \in Tables |-> RowsOf(t, committed)']
  <1> DEFINE l == Len(buf)
             c == committed
  <1>1. /\ UNCHANGED <<array, length, emitted, ch, inserted, duplicates>>
        /\ groups = <<>> /\ at' = "select" /\ tables' = work
        /\ saved' = IF pending > 0 THEN pending ELSE saved
        /\ committed' = c + l /\ buf' = <<>> /\ pending' = 0
    BY DEF CommitFlush, adapterVars
  <1>2. PICK ord \in Seq(Tables), upto \in [Tables -> 0..Len(buf)] :
           GroupsOf(ord) /\ InsertedAt(ord, upto) /\ CountedAt(upto)
    BY DEF InTransaction
  <1>3. l \in Nat /\ c \in Nat /\ Len(emitted) \in Nat /\ c + l <= Len(emitted)
      /\ buf \in Seq(Records)
    BY BufferFollows DEF Buffered
  <1>4. \A t \in Tables : upto[t] = l
    <2>1. DOMAIN ord = {}
      BY <1>1, <1>2 DEF GroupsOf
    <2> QED
      BY <1>2, <2>1 DEF InsertedAt
  <1>5. Through(upto) = 1..(c + l)
    <2>1. \A i \in 1..(c + l) : upto[emitted[i].table] = l
      BY <1>4, TableOfBuffered
    <2> QED
      BY <1>3, <2>1 DEF Through
  <1>6. Counted'
    <2>1. Cardinality(1..(c + l)) = c + l
      BY <1>3, FS_Interval
    <2>2. \A i \in 1..(c + l) : IsDuplicate(i)' <=> IsDuplicate(i)
      BY <1>1 DEF IsDuplicate
    <2>3. {i \in 1..committed : IsDuplicate(i)}' = Dup(Through(upto))
      BY <1>1, <1>5, <2>2 DEF Dup
    <2> QED
      BY <1>1, <1>2, <1>5, <2>1, <2>3 DEF CountedAt, Counted
  <1>7. tables' = [t \in Tables |-> RowsOf(t, committed)']
    <2>1. work = [t \in Tables |-> RowsOf(t, c + l)]
      BY <1>2, <1>4 DEF InsertedAt
    <2>2. \A t \in Tables : RowsOf(t, committed)' = RowsOf(t, c + l)
      BY <1>1 DEF RowsOf
    <2> QED
      BY <1>1, <2>1, <2>2
  <1>8. Bounds'
    <2>1. c + l \in 0..Len(emitted) /\ saved' \in 0..(c + l)
      BY <1>1, <1>3 DEF Bounds, Buffered
    <2> QED
      BY <1>1, <2>1 DEF Bounds
  <1>9. Len(buf') = 0 /\ buf' \in Seq(Records)
    BY <1>1
  <1>10. Buffered'
    BY <1>1, <1>3, <1>9 DEF Buffered
  <1>11. Queued'
    <2>1. PICK pos \in [0..Len(ch) -> 0..Len(emitted)] : QueuedAt(pos)
      BY DEF Queued
    <2>2. pos[0] = committed' + Len(buf')
      BY <1>1, <1>3, <1>9, <2>1 DEF QueuedAt
    <2> HIDE DEF c, l
    <2>3. QueuedAt(pos)'
      BY <1>1, <2>1, <2>2 DEF QueuedAt
    <2> QED
      BY <1>1, <2>3 DEF Queued
  <1> QED
    BY <1>6, <1>7, <1>8, <1>10, <1>11

-----------------------------------------------------------------------------
(* A statement. *)
LEMMA PerStmtPositive ==
    ASSUME WriterParameters, NEW t \in Tables
    PROVE  PerStmt(t) \in Nat \ {0}
  <1>1. MaxVars \in Nat \ {0} /\ MaxRowsPerStmt \in Nat \ {0} /\ Columns[t] \in Nat \ {0}
    BY DEF WriterParameters
  <1> DEFINE q == MaxVars \div Columns[t]
  <1>2. q \in Int
    BY <1>1
  <1> HIDE DEF q
  <1>3. AtLeastOne(q) \in Nat \ {0}
    BY <1>2 DEF AtLeastOne
  <1>4. PerStmt(t) = Lesser(AtLeastOne(q), MaxRowsPerStmt)
    BY DEF PerStmt, q
  <1> QED
    BY <1>1, <1>3, <1>4 DEF Lesser

(* Where the rows of a group up to the m-th are found in the buffer. *)
LEMMA OfTableReach ==
    ASSUME NEW s \in Seq(Records), NEW t, NEW g, g = OfTable(s, t),
           NEW m \in 0..Len(g)
    PROVE  \E n \in 0..Len(s) : /\ OfTable(Prefix(s, n), t) = Prefix(g, m)
                                /\ m = Len(g) => n = Len(s)
  <1> DEFINE S == {r \in Records : r.table = t}
  <1>1. \A x : OfTable(x, t) = Those(x, S)
    BY DEF OfTable
  <1>2. g \in Seq(Records) /\ Len(s) \in Nat /\ Len(g) \in Nat
    BY OfTableType, LenProperties
  <1> HIDE DEF S
  <1>3. CASE m = Len(g)
    <2>1. Prefix(s, Len(s)) = s /\ Prefix(g, m) = g
      BY <1>2, <1>3, PrefixIs
    <2>2. Len(s) \in 0..Len(s)
      BY <1>2
    <2> QED
      BY <2>1, <2>2
  <1>4. CASE m # Len(g)
    <2>1. g = Those(s, S)
      BY <1>1
    <2>2. PICK n \in 0..Len(s) : Those(Prefix(s, n), S) = Prefix(Those(s, S), m)
      BY <2>1, ThoseReach
    <2> QED
      BY <1>1, <1>4, <2>1, <2>2
  <1> QED
    BY <1>3, <1>4

LEMMA OfTableGrows ==
    ASSUME NEW s \in Seq(Records), NEW t, NEW n \in 0..Len(s), NEW m \in 0..n
    PROVE  Len(OfTable(Prefix(s, m), t)) <= Len(OfTable(Prefix(s, n), t))
  <1> DEFINE S == {r \in Records : r.table = t}
  <1>1. \A x : OfTable(x, t) = Those(x, S)
    BY DEF OfTable
  <1> HIDE DEF S
  <1>2. Len(Those(Prefix(s, m), S)) <= Len(Those(Prefix(s, n), S))
    BY ThoseGrows
  <1> QED
    BY <1>1, <1>2

LEMMA PrefixThenChunk ==
    ASSUME NEW g \in Seq(Records), NEW m \in 0..Len(g), NEW k \in 0..m
    PROVE  /\ SubSeq(g, k + 1, m) \in Seq(Records) /\ Len(SubSeq(g, k + 1, m)) = m - k
           /\ Prefix(g, m) = Prefix(g, k) \o SubSeq(g, k + 1, m)
           /\ Len(Prefix(g, m)) = m /\ Len(Prefix(g, k)) = k
           /\ Prefix(g, m) \in Seq(Records) /\ Prefix(g, k) \in Seq(Records)
  <1>1. Len(g) \in Nat /\ m \in Nat /\ k \in Nat /\ k <= m /\ m <= Len(g) /\ k \in 0..Len(g)
    BY LenProperties
  <1>2. SubSeq(g, 1, k) \o SubSeq(g, k + 1, m) = SubSeq(g, 1, m)
    <2>1. 1 \in 1..(Len(g) + 1) /\ k \in (1 - 1)..Len(g) /\ m \in k..Len(g)
      BY <1>1
    <2> QED
      BY <2>1, ConcatAdjacentSubSeq
  <1>3. SubSeq(g, k + 1, m) \in Seq(Records) /\ Len(SubSeq(g, k + 1, m)) = m - k
    BY <1>1
  <1> QED
    BY <1>1, <1>2, <1>3, PrefixIs DEF Prefix

(* From record n1 of the buffer, up to which start rows of the group are in *)
(* the table, to record n2, up to which m are.                              *)
LEMMA ChunkFollows ==
    ASSUME Bounds, Buffered, NEW t, NEW g, g = OfTable(buf, t),
           NEW m \in 0..Len(g), NEW k \in 0..m, k < m,
           NEW n1 \in 0..Len(buf), NEW n2 \in 0..Len(buf),
           OfTable(Prefix(buf, n1), t) = Prefix(g, k),
           OfTable(Prefix(buf, n2), t) = Prefix(g, m)
    PROVE  /\ n1 < n2
           /\ OfTable(Prefix(emitted, committed + n2), t) =
                Joined(OfTable(Prefix(emitted, committed + n1), t), SubSeq(g, k + 1, m))
  <1>1. buf \in Seq(Records) /\ g \in Seq(Records)
    BY OfTableType DEF Buffered
  <1> DEFINE K == OfTable(Prefix(emitted, committed), t)
             L1 == OfTable(Prefix(emitted, committed + n1), t)
             L2 == OfTable(Prefix(emitted, committed + n2), t)
             p == Prefix(g, k)
             q == Prefix(g, m)
             r == SubSeq(g, k + 1, m)
  <1>2. p \in Seq(Records) /\ r \in Seq(Records) /\ q = p \o r /\ Len(q) = m /\ Len(p) = k
    BY <1>1, PrefixThenChunk
  <1>3. n1 < n2
    <2> SUFFICES ASSUME n2 <= n1
                 PROVE  FALSE
      OBVIOUS
    <2>1. n2 \in 0..n1
      OBVIOUS
    <2>2. Len(OfTable(Prefix(buf, n2), t)) <= Len(OfTable(Prefix(buf, n1), t))
      BY <1>1, <2>1, OfTableGrows
    <2> QED
      BY <1>2, <2>2
  <1>4. K \in Seq(Records) /\ L1 = K \o p /\ L2 = K \o q
    BY BufferFollows
  <1> HIDE DEF K, L1, L2, p, q, r
  <1>5. (K \o p) \o r = K \o (p \o r)
    <2>1. K \in Seq(Records) /\ p \in Seq(Records) /\ r \in Seq(Records)
      BY <1>2, <1>4
    <2> QED
      BY <2>1, ConcatAssociative
  <1>6. L2 = L1 \o r
    BY <1>2, <1>4, <1>5
  <1> QED
    BY <1>3, <1>6 DEF L1, L2, r, Joined

(* The records that are inserted then. *)
Adds(S, T, U) == S = T \cup U /\ T \cap U = {}

LEMMA ThroughGrows ==
    ASSUME WriterParameters, Bounds, Buffered, NEW t \in Tables,
           NEW upto \in [Tables -> 0..Len(buf)], NEW n \in 0..Len(buf), upto[t] <= n,
           NEW next, next = [upto EXCEPT ![t] = n],
           NEW a, a = committed + upto[t], NEW b, b = committed + n
    PROVE  /\ IsFiniteSet(Through(upto)) /\ IsFiniteSet(Dup(Through(upto)))
           /\ Adds(Through(next), Through(upto), Mine(t, b) \ Mine(t, a))
           /\ Adds(Dup(Through(next)), Dup(Through(upto)), Again(t, b) \ Again(t, a))
  <1> DEFINE c == committed
             l == Len(buf)
  <1>0. a = c + upto[t] /\ b = c + n
    OBVIOUS
  <1>1. l \in Nat /\ c \in Nat /\ n \in Nat /\ upto[t] \in Nat /\ a <= b /\ b <= c + l
    BY BufferFollows
  <1>2. \A i \in 1..(c + l) : emitted[i].table \in Tables
    BY TableOfBuffered
  <1>3. \A i : i \in Through(next) <=> i \in 1..(c + l) /\ i <= c + next[emitted[i].table]
    BY DEF Through
  <1>4. \A i : i \in Through(upto) <=> i \in 1..(c + l) /\ i <= c + upto[emitted[i].table]
    BY DEF Through
  <1>5. \A u \in Tables : next[u] = IF u = t THEN n ELSE upto[u]
    OBVIOUS
  <1>6. \A i : i \in Mine(t, b) \ Mine(t, a) <=>
               i \in 1..(c + l) /\ emitted[i].table = t /\ i <= b /\ ~(i <= a)
    BY <1>0, <1>1 DEF Mine
  <1> HIDE DEF c, l
  <1>7. Through(next) = Through(upto) \cup (Mine(t, b) \ Mine(t, a))
    <2> SUFFICES ASSUME NEW i
                 PROVE  i \in Through(next) <=> i \in Through(upto) \/ i \in Mine(t, b) \ Mine(t, a)
      BY Zenon
    <2> SUFFICES ASSUME i \in 1..(c + l)
                 PROVE  i \in Through(next) <=> i \in Through(upto) \/ i \in Mine(t, b) \ Mine(t, a)
      BY <1>3, <1>4, <1>6
    <2>1. CASE emitted[i].table = t
      <3>1. next[emitted[i].table] = n /\ upto[emitted[i].table] = upto[t]
        BY <1>5, <2>1
      <3>2. i \in Through(next) <=> i <= b
        BY <1>0, <1>3, <3>1
      <3>3. i \in Through(upto) <=> i <= a
        BY <1>0, <1>4, <3>1
      <3>4. i \in Mine(t, b) \ Mine(t, a) <=> i <= b /\ ~(i <= a)
        BY <1>6, <2>1
      <3>5. i <= a => i <= b
        BY <1>1
      <3> QED
        BY <3>2, <3>3, <3>4, <3>5
    <2>2. CASE emitted[i].table # t
      BY <1>2, <1>3, <1>4, <1>5, <1>6, <2>2
    <2> QED
      BY <2>1, <2>2
  <1>8. Through(upto) \cap (Mine(t, b) \ Mine(t, a)) = {}
    <2> SUFFICES ASSUME NEW i, i \in Through(upto), i \in Mine(t, b) \ Mine(t, a)
                 PROVE  FALSE
      OBVIOUS
    <2>1. emitted[i].table = t /\ ~(i <= a)
      BY <1>6
    <2>2. i <= c + upto[t]
      BY <1>4, <2>1
    <2> QED
      BY <1>0, <2>1, <2>2
  <1>9. \A i : i \in Again(t, b) \ Again(t, a)
                <=> i \in Mine(t, b) \ Mine(t, a) /\ IsDuplicate(i)
    BY DEF Again
  <1>10. Dup(Through(next)) = Dup(Through(upto)) \cup (Again(t, b) \ Again(t, a))
    BY <1>7, <1>9 DEF Dup
  <1>11. Dup(Through(upto)) \cap (Again(t, b) \ Again(t, a)) = {}
    BY <1>8, <1>9 DEF Dup
  <1>12. IsFiniteSet(Through(upto)) /\ IsFiniteSet(Dup(Through(upto)))
    <2>1. IsFiniteSet(1..(c + l))
      BY <1>1, FS_Interval
    <2>2. Through(upto) \subseteq 1..(c + l) /\ Dup(Through(upto)) \subseteq 1..(c + l)
      BY <1>4 DEF Dup
    <2> QED
      BY <2>1, <2>2, FS_Subset
  <1> QED
    BY <1>7, <1>8, <1>10, <1>11, <1>12 DEF c, Adds

(* A statement moves its table forward by its rows, and the counters by its *)
(* records.                                                                 *)
LEMMA InsertKeeps ==
    ASSUME WriterParameters, Bounds, Buffered, InTransaction, InsertChunk
    PROVE  InTransaction' /\ inserted' \in Nat /\ duplicates' \in Nat
  <1> DEFINE l == Len(buf)
             c == committed
  <1>1. PICK ord \in Seq(Tables), upto \in [Tables -> 0..l] :
           GroupsOf(ord) /\ InsertedAt(ord, upto) /\ CountedAt(upto)
    BY DEF InTransaction
  <1>2. l \in Nat /\ c \in Nat /\ Len(emitted) \in Nat /\ c + l <= Len(emitted)
        /\ buf \in Seq(Records) /\ emitted \in Seq(Records) /\ inserted \in Nat
            /\ duplicates \in Nat
    BY BufferFollows DEF Bounds, Buffered
  <1>3. UNCHANGED <<buf, committed, emitted>> /\ groups # <<>>
    BY DEF InsertChunk, adapterVars, dbVars
  <1>4. /\ DOMAIN ord = 1..Len(ord) /\ Len(ord) \in Nat \ {0} /\ ord # <<>> /\ 1 \in DOMAIN ord
        /\ groups \in Seq(Seq(Records)) /\ Len(groups) = Len(ord)
        /\ \A i \in DOMAIN ord : groups[i] = OfTable(buf, ord[i])
    <2>1. DOMAIN ord = 1..Len(ord) /\ Len(ord) \in Nat
      BY LenProperties
    <2>2. groups = [i \in 1..Len(ord) |-> OfTable(buf, ord[i])]
      BY <1>1, <2>1 DEF GroupsOf
    <2>3. \A i \in 1..Len(ord) : OfTable(buf, ord[i]) \in Seq(Records)
      BY <1>2, OfTableType
    <2>4. groups \in Seq(Seq(Records)) /\ Len(groups) = Len(ord)
      BY <2>1, <2>2, <2>3
    <2>5. Len(ord) # 0
      BY <1>3, <2>4, EmptySeq
    <2> QED
      BY <2>1, <2>2, <2>4, <2>5
  <1>5. PICK g, t : g = groups[1] /\ t = ord[1]
    OBVIOUS
  <1>6. t \in Tables /\ g = OfTable(buf,
      t) /\ g \in Seq(Records) /\ g # <<>> /\ g[1].table = t
        /\ Len(g) \in Nat
    <2>1. t \in Tables /\ g = OfTable(buf, t) /\ g # <<>>
      BY <1>1, <1>4, <1>5 DEF GroupsOf
    <2>2. g \in Seq(Records) /\ \A i \in 1..Len(g) : g[i].table = t
      BY <1>2, <2>1, OfTableType
    <2>3. Len(g) \in Nat /\ 1 \in 1..Len(g)
      BY <2>1, <2>2, EmptySeq, LenProperties
    <2> QED
      BY <2>1, <2>2, <2>3
  <1>7. PICK per, m : per = PerStmt(t) /\ m = Lesser(start + per, Len(g))
    OBVIOUS
  <1>8. per \in Nat \ {0} /\ start \in Nat /\ start < Len(g) /\ start < m /\ m \in 0..Len(g)
      /\ start \in 0..m
        /\ (start + per < Len(g) => m = start + per) /\ (~(start + per < Len(g)) => m = Len(g))
    <2>1. per \in Nat \ {0}
      BY <1>6, <1>7, PerStmtPositive
    <2>2. start \in Nat /\ start < Len(g)
      BY <1>1, <1>4, <1>5 DEF InsertedAt
    <2> QED
      BY <1>6, <1>7, <2>1, <2>2 DEF Lesser
  <1>9. PICK chunk : chunk = SubSeq(g, start + 1, m)
    OBVIOUS
  <1>10. chunk \in Seq(Records) /\ Len(chunk) \in Nat
    BY <1>6, <1>8, <1>9, PrefixThenChunk, LenProperties
  <1>11. /\ work' = [work EXCEPT ![t] = RowsAfter(work[t], chunk)]
         /\ inserted' = inserted + Affected(t, work[t], chunk)
         /\ duplicates' = duplicates + (Len(chunk) - Affected(t, work[t], chunk))
         /\ IF start + per < Len(g) THEN start' = start + per /\ groups' = groups
                                    ELSE start' = 0 /\ groups' = Tail(groups)
    <2>1. Head(groups) = g
      BY <1>3, <1>4, <1>5, HeadTailProperties
    <2>2. Chunk(g) = chunk
      BY <1>6, <1>7, <1>9 DEF Chunk
    <2> QED
      BY <1>6, <1>7, <2>1, <2>2 DEF InsertChunk, DuplicatesOf
  <1>12. PICK n1 : n1 = upto[t]
    OBVIOUS
  <1>13. n1 \in 0..l /\ OfTable(Prefix(buf, n1), t) = Prefix(g, start)
         /\ work[t] = RowsOf(t, c + n1)
    BY <1>1, <1>4, <1>5, <1>6, <1>12 DEF InsertedAt
  <1>14. PICK n2 \in 0..l : /\ OfTable(Prefix(buf, n2), t) = Prefix(g, m)
                            /\ m = Len(g) => n2 = l
    BY <1>2, <1>6, <1>8, OfTableReach
  <1>15. n1 < n2 /\ OfTable(Prefix(emitted, c + n2), t) =
                    OfTable(Prefix(emitted, c + n1), t) \o chunk
    <2>1. n1 < n2 /\ OfTable(Prefix(emitted, committed + n2), t) =
                      Joined(OfTable(Prefix(emitted, committed + n1), t), chunk)
      BY <1>6, <1>8, <1>9, <1>13, <1>14, ChunkFollows
    <2> QED
      BY <2>1 DEF Joined
  <1> DEFINE a == c + n1
             b == c + n2
             M == Mine(t, b) \ Mine(t, a)
             D == Again(t, b) \ Again(t, a)
             d == Cardinality(D)
             aff == Affected(t, work[t], chunk)
  <1>16. a \in 0..Len(emitted) /\ b \in 0..Len(emitted) /\ a <= b
    BY <1>2, <1>13, <1>15
  <1>17. /\ RowsOf(t, b) = RowsAfter(work[t], chunk)
         /\ IsFiniteSet(M) /\ Cardinality(M) = Len(chunk) /\ IsFiniteSet(D) /\ d \in Nat
         /\ aff = Len(chunk) - d /\ aff \in Nat
    <2> HIDE DEF a, b
    <2>1. OfTable(Prefix(emitted, b), t) = OfTable(Prefix(emitted, a), t) \o chunk
      BY <1>15 DEF a, b
    <2>2. /\ RowsOf(t, b) = RowsAfter(RowsOf(t, a), chunk)
          /\ IsFiniteSet(M) /\ Cardinality(M) = Len(chunk) /\ IsFiniteSet(D) /\ d \in Nat
          /\ Affected(t, RowsOf(t, a), chunk) = Len(chunk) - d
          /\ Affected(t, RowsOf(t, a), chunk) \in Nat
      BY <1>2, <1>10, <1>16, <2>1, ChunkCounts
    <2>3. work[t] = RowsOf(t, a)
      BY <1>13 DEF a
    <2> QED
      BY <2>2, <2>3
  <1>18. PICK next : next = [upto EXCEPT ![t] = n2]
    OBVIOUS
  <1>19. next \in [Tables -> 0..l] /\ \A u \in Tables : next[u] = IF u = t
                                                                              THEN n2 ELSE upto[u]
    BY <1>18
  <1>20. /\ IsFiniteSet(Through(upto)) /\ IsFiniteSet(Dup(Through(upto)))
         /\ Through(next) = Through(upto) \cup M /\ Through(upto) \cap M = {}
         /\ Dup(Through(next)) = Dup(Through(upto)) \cup D /\ Dup(Through(upto)) \cap D = {}
    <2>1. a = committed + upto[t] /\ b = committed + n2 /\ upto[t] <= n2
      BY <1>12, <1>13, <1>15
    <2>2. next = [upto EXCEPT ![t] = n2] /\ n2 \in 0..Len(buf) /\ t \in Tables
          /\ upto \in [Tables -> 0..Len(buf)]
      BY <1>6, <1>14, <1>18
    <2> HIDE DEF a, b, l
    <2>3. /\ IsFiniteSet(Through(upto)) /\ IsFiniteSet(Dup(Through(upto)))
          /\ Adds(Through(next), Through(upto), Mine(t, b) \ Mine(t, a))
          /\ Adds(Dup(Through(next)), Dup(Through(upto)), Again(t, b) \ Again(t, a))
      BY <2>1, <2>2, ThroughGrows
    <2> QED
      BY <2>3 DEF Adds
  <1>21. CountedAt(next)'
    <2>1. Cardinality(Through(next)) = Cardinality(Through(upto)) + Len(chunk)
      BY <1>17, <1>20, CardinalityAdds
    <2>2. Cardinality(Dup(Through(next))) = Cardinality(Dup(Through(upto))) + d
      BY <1>17, <1>20, CardinalityAdds
    <2>3. Through(next)' = Through(next)
      BY <1>3 DEF Through
    <2>4. Dup(Through(next))' = Dup(Through(next))
      BY <1>3, <2>3 DEF Dup, IsDuplicate
    <2>5. /\ inserted + duplicates = Cardinality(Through(upto))
          /\ duplicates = Cardinality(Dup(Through(upto)))
      BY <1>1 DEF CountedAt
    <2> DEFINE x == Cardinality(Through(next))
               y == Cardinality(Dup(Through(next)))
    <2>6. inserted' = inserted + aff /\ duplicates' = duplicates + (Len(chunk) - aff)
      BY <1>11
    <2>7. x = inserted + duplicates + Len(chunk) /\ y = duplicates + d
      BY <2>1, <2>2, <2>5
    <2>8. inserted' + duplicates' = x /\ duplicates' = y
      <3>1. aff = Len(chunk) - d /\ d \in Nat /\ Len(chunk) \in Nat
        BY <1>10, <1>17
      <3> HIDE DEF x, y, d, aff
      <3> QED
        BY <1>2, <2>6, <2>7, <3>1
    <2> QED
      BY <2>3, <2>4, <2>8 DEF CountedAt
  <1>22. inserted' \in Nat /\ duplicates' \in Nat
    <2>1. inserted' = inserted + aff /\ duplicates' = duplicates + (Len(chunk) - aff)
      BY <1>11
    <2>2. aff = Len(chunk) - d /\ d \in Nat /\ Len(chunk) \in Nat /\ aff \in Nat
      BY <1>10, <1>17
    <2> HIDE DEF d, aff
    <2> QED
      BY <1>2, <2>1, <2>2
  <1>23. work' = [u \in Tables |-> RowsOf(u, c + next[u])']
    <2>1. \A u \in Tables : RowsOf(u, c + next[u])' = RowsOf(u, c + next[u])
      BY <1>3 DEF RowsOf
    <2>2. work = [u \in Tables |-> RowsOf(u, c + upto[u])]
      BY <1>1 DEF InsertedAt
    <2>3. RowsOf(t, c + next[t]) = RowsAfter(work[t], chunk)
      BY <1>6, <1>17, <1>19
    <2>4. work' = [u \in Tables |-> IF u = t THEN RowsAfter(work[t], chunk)
                                          ELSE RowsOf(u, c + upto[u])]
      BY <1>6, <1>11, <2>2
    <2> QED
      BY <1>19, <2>1, <2>3, <2>4
  <1>24. CASE start + per < Len(g)
    <2>1. start' = m /\ groups' = groups /\ start' \in Nat
      BY <1>8, <1>11, <1>24
    <2>2. GroupsOf(ord)'
      BY <1>1, <1>3, <2>1 DEF GroupsOf
    <2>3. InsertedAt(ord, next)'
      <3>1. \A u \in Tables : (\A i \in DOMAIN ord : ord[i] # u) => next[u] = l
        BY <1>1, <1>4, <1>5, <1>19 DEF InsertedAt
      <3>2. \A i \in DOMAIN ord : i > 1 => next[ord[i]] = 0
        <4> SUFFICES ASSUME NEW i \in DOMAIN ord, i > 1
                     PROVE  next[ord[i]] = 0
          OBVIOUS
        <4>1. ord[i] # t /\ ord[i] \in Tables
          BY <1>1, <1>4, <1>5 DEF GroupsOf
        <4> QED
          BY <1>1, <1>19, <4>1 DEF InsertedAt
      <3>3. m < Len(g)
        BY <1>8, <1>24
      <3>4. next[t] = n2
        BY <1>6, <1>19
      <3>5. start' < Len(groups'[1])
            /\ OfTable(Prefix(buf', next[ord[1]]), ord[1]) = Prefix(groups'[1], start')
        BY <1>3, <1>5, <1>14, <2>1, <3>3, <3>4
      <3> QED
        BY <1>3, <1>19, <1>23, <2>1, <3>1, <3>2, <3>5 DEF InsertedAt
    <2>4. next \in [Tables -> 0..Len(buf')]
      BY <1>3, <1>19
    <2> QED
      BY <1>21, <1>22, <2>2, <2>3, <2>4 DEF InTransaction
  <1>25. CASE ~(start + per < Len(g))
    <2>1. start' = 0 /\ groups' = Tail(groups) /\ m = Len(g) /\ n2 = l
      BY <1>8, <1>11, <1>14, <1>25
    <2>2. PICK rest : rest = Tail(ord)
      OBVIOUS
    <2>3. /\ rest \in Seq(Tables) /\ DOMAIN rest = 1..(Len(ord) - 1)
          /\ \A i \in DOMAIN rest : i + 1 \in DOMAIN ord /\ rest[i] = ord[i + 1]
      BY <1>4, <2>2, HeadTailProperties
    <2>4. groups' = [i \in DOMAIN rest |-> OfTable(buf, rest[i])]
      <3>1. groups' = Tail(groups)
        BY <2>1
      <3>2. Tail(groups) = [i \in 1..(Len(groups) - 1) |-> groups[i + 1]]
        <4>1. Tail(groups) \in Seq(Seq(Records)) /\ Len(Tail(groups)) = Len(groups) - 1
              /\ \A i \in 1..Len(Tail(groups)) : Tail(groups)[i] = groups[i + 1]
          BY <1>3, <1>4, HeadTailProperties
        <4> DEFINE tl == Tail(groups)
        <4>2. tl \in Seq(Seq(Records)) /\ Len(tl)
            = Len(groups) - 1 /\ \A i \in 1..Len(tl) : tl[i] = groups[i + 1]
          BY <4>1
        <4> HIDE DEF tl
        <4>3. tl = [i \in 1..Len(tl) |-> tl[i]]
          BY <4>2
        <4> QED
          BY <4>2, <4>3 DEF tl
      <3> QED
        BY <1>4, <2>3, <3>1, <3>2
    <2>5. GroupsOf(rest)'
      <3>1. \A i, j \in DOMAIN rest : rest[i] = rest[j] => i = j
        <4> SUFFICES ASSUME NEW i \in DOMAIN rest, NEW j \in DOMAIN rest, rest[i] = rest[j]
                     PROVE  i = j
          OBVIOUS
        <4>1. i + 1 = j + 1
          BY <1>1, <2>3 DEF GroupsOf
        <4> QED
          BY <1>4, <2>3, <4>1
      <3>2. \A i \in DOMAIN rest : groups'[i] # <<>>
        BY <1>1, <2>3, <2>4 DEF GroupsOf
      <3> QED
        BY <1>3, <2>3, <2>4, <3>1, <3>2 DEF GroupsOf
    <2>6. \A i \in DOMAIN rest : rest[i] \in Tables /\ rest[i] # t /\ next[rest[i]] = 0
      <3> SUFFICES ASSUME NEW i \in DOMAIN rest
                   PROVE  rest[i] \in Tables /\ rest[i] # t /\ next[rest[i]] = 0
        OBVIOUS
      <3>1. i + 1 \in DOMAIN ord /\ rest[i] = ord[i + 1] /\ i + 1 > 1 /\ rest[i] \in Tables
        BY <1>4, <2>3
      <3>2. rest[i] # t
        <4> SUFFICES ASSUME rest[i] = t
                     PROVE  FALSE
          OBVIOUS
        <4>1. i + 1 = 1
          BY <1>1, <1>4, <1>5, <3>1 DEF GroupsOf
        <4> QED
          BY <1>4, <2>3, <4>1
      <3> QED
        BY <1>1, <1>19, <3>1, <3>2 DEF InsertedAt
    <2>7. InsertedAt(rest, next)'
      <3>1. ASSUME NEW u \in Tables, \A i \in DOMAIN rest : rest[i] # u
            PROVE  next[u] = l
        <4>1. CASE u = t
          BY <1>19, <2>1, <4>1
        <4>2. CASE u # t
          <5>1. \A i \in DOMAIN ord : ord[i] # u
            <6> SUFFICES ASSUME NEW i \in DOMAIN ord, ord[i] = u
                         PROVE  FALSE
              OBVIOUS
            <6>1. i # 1
              BY <1>5, <4>2
            <6>2. i - 1 \in DOMAIN rest /\ (i - 1) + 1 = i
              BY <1>4, <2>3, <6>1
            <6> QED
              BY <2>3, <3>1, <6>2
          <5> QED
            BY <1>1, <1>19, <4>2, <5>1 DEF InsertedAt
        <4> QED
          BY <4>1, <4>2
      <3>2. ASSUME rest # <<>>
            PROVE  /\ 0 < Len(groups'[1])
                   /\ OfTable(Prefix(buf, next[rest[1]]), rest[1]) = Prefix(groups'[1], 0)
        <4>1. 1 \in DOMAIN rest
          BY <2>3, <3>2, EmptySeq
        <4> DEFINE h == OfTable(buf, rest[1])
        <4>2. groups'[1] = h /\ h # <<>> /\ h \in Seq(Records)
          BY <1>2, <2>4, <2>5, <4>1, OfTableType DEF GroupsOf
        <4>3. OfTable(Prefix(buf, 0), rest[1]) = <<>>
          BY <1>2, OfTableType
        <4> HIDE DEF h
        <4>4. 0 < Len(h) /\ Prefix(h, 0) = <<>>
          BY <4>2, PrefixIs, EmptySeq
        <4> QED
          BY <2>6, <4>1, <4>2, <4>3, <4>4
      <3> QED
        BY <1>3, <1>19, <1>23, <2>1, <2>6, <3>1, <3>2 DEF InsertedAt
    <2>8. next \in [Tables -> 0..Len(buf')]
      BY <1>3, <1>19
    <2> QED
      BY <1>21, <1>22, <2>3, <2>5, <2>7, <2>8 DEF InTransaction
  <1> QED
    BY <1>24, <1>25

-----------------------------------------------------------------------------
(* Every step keeps the ledger. *)
LEMMA NotGrown ==
    ASSUME Bounds, UNCHANGED emitted
    PROVE  Grown
  BY LenProperties DEF Bounds, Grown

LEMMA AdapterKeeps ==
    ASSUME WriterParameters, Ledger, Grown, at # "dead" => Queued',
           array' \in Seq(Records), length' \in 0..Len(array'),
           UNCHANGED <<at, buf, pending, committed, saved, tables, inserted, duplicates, work,
                       groups, start>>
    PROVE  Ledger'
  <1>1. Bounds /\ tables = [t \in Tables |-> RowsOf(t, committed)]
    BY DEF Ledger
  <1>2. Bounds'
    <2>1. Len(emitted) \in Nat /\ Len(emitted') \in Nat /\ Len(emitted) <= Len(emitted')
      BY <1>1, GrownFacts DEF Bounds, Grown
    <2> QED
      BY <1>1, <2>1 DEF Bounds, Grown
  <1>3. tables' = [t \in Tables |-> RowsOf(t, committed)']
    BY <1>1, KeepsTables
  <1>4. at # "dead" => Buffered'
    BY <1>1, KeepsBuffered DEF Ledger
  <1>5. at \in {"select", "begin", "closed"} => Counted'
    BY <1>1, KeepsCounted DEF Ledger
  <1>6. at = "insert" => InTransaction'
    BY <1>1, KeepsTransaction DEF Ledger
  <1> QED
    BY <1>2, <1>3, <1>4, <1>5, <1>6 DEF Ledger

LEMMA LedgerInit ==
    ASSUME WriterInit
    PROVE  Ledger
  <1>1. /\ array = <<>> /\ length = 0 /\ emitted = <<>> /\ ch = <<>> /\ at = "select" /\ buf = <<>>
        /\ pending = 0 /\ tables = NoRows /\ saved = 0 /\ committed = 0
        /\ inserted = 0 /\ duplicates = 0
    BY DEF WriterInit
  <1>2. <<>> \in Seq(Records) /\ <<>> \in Seq(Messages) /\ Len(<<>>) = 0
    BY EmptySeq
  <1>3. Bounds
    BY <1>1, <1>2 DEF Bounds
  <1>4. tables = [t \in Tables |-> RowsOf(t, committed)]
    <2>1. \A t : RowsOf(t, 0) = <<>>
      BY <1>1, <1>2, OfTableType, PrefixIs, AfterNone DEF RowsOf
    <2> QED
      BY <1>1, <2>1 DEF NoRows
  <1>5. Buffered
    BY <1>1, <1>2 DEF Buffered
  <1>6. Queued
    <2>1. PICK pos : pos = [i \in 0..0 |-> 0]
      OBVIOUS
    <2>2. pos \in [0..Len(ch) -> 0..Len(emitted)] /\ QueuedAt(pos)
      BY <1>1, <1>2, <2>1 DEF QueuedAt
    <2> QED
      BY <1>1, <1>2, <2>2 DEF Queued
  <1>7. Counted
    <2>1. {i \in 1..committed : IsDuplicate(i)} = {}
      BY <1>1
    <2> QED
      BY <1>1, <2>1, FS_EmptySet DEF Counted
  <1> QED
    BY <1>1, <1>3, <1>4, <1>5, <1>6, <1>7 DEF Ledger

LEMMA FillKeeps ==
    ASSUME WriterParameters, Ledger, NEW r \in Records, Fill(r)
    PROVE  Ledger'
  <1>1. Bounds
    BY DEF Ledger
  <1>2. /\ UNCHANGED <<emitted, ch, at, buf, pending, committed, saved, tables, inserted,
                       duplicates, work, groups, start>>
        /\ array' = IF length < Len(array) THEN [array EXCEPT ![length + 1] = r]
                    ELSE Append(array, r)
        /\ length' = length + 1
    BY DEF Fill, txVars, dbVars
  <1>3. array' \in Seq(Records) /\ length' \in 0..Len(array')
    <2>1. Len(array) \in Nat /\ array \in Seq(Records) /\ length \in 0..Len(array)
      BY <1>1, LenProperties DEF Bounds
    <2>2. CASE length < Len(array)
      <3>1. array' = [array EXCEPT ![length + 1] = r] /\ length + 1 \in 1..Len(array)
        BY <1>2, <2>1, <2>2
      <3>2. array' \in Seq(Records) /\ Len(array') = Len(array)
        BY <2>1, <3>1, ExceptSeq
      <3> QED
        BY <1>2, <3>1, <3>2
    <2>3. CASE ~(length < Len(array))
      <3>1. array' = Append(array, r)
        BY <1>2, <2>3
      <3>2. array' \in Seq(Records) /\ Len(array') = Len(array) + 1
        BY <2>1, <3>1, AppendProperties
      <3> QED
        BY <1>2, <2>1, <3>2
    <2> QED
      BY <2>2, <2>3
  <1>4. Queued => Queued'
    BY <1>2 DEF Queued, QueuedAt
  <1> QED
    BY <1>1, <1>2, <1>3, <1>4, NotGrown, AdapterKeeps DEF Ledger

LEMMA EmitKeeps ==
    ASSUME WriterParameters, Ledger, Emit
    PROVE  Ledger'
  <1>1. Bounds
    BY DEF Ledger
  <1>2. /\ UNCHANGED <<array, at, buf, pending, committed, saved, tables, inserted, duplicates,
                       work, groups, start>>
        /\ ch' = Append(ch, CopiedBatch) /\ emitted' = emitted \o Batch /\ length' = 0
    BY DEF Emit, Send, txVars, dbVars
  <1> DEFINE x == Batch
  <1>3. x \in Seq(Records) /\ Len(x) = length /\ emitted \in Seq(Records) /\ array \in Seq(Records)
        /\ Len(array) \in Nat
    <2>1. array \in Seq(Records) /\ length \in 0..Len(array)
      BY <1>1 DEF Bounds
    <2> QED
      BY <1>1, <2>1, PrefixIs DEF Bounds, Batch, Prefix
  <1>4. PICK m : m = CopiedBatch
    OBVIOUS
  <1>5. m \in Messages /\ m.recs = x /\ m.state = 0
    BY <1>3, <1>4 DEF Messages, CopiedBatch
  <1> HIDE DEF x
  <1>6. /\ emitted' \in Seq(Records) /\ Len(emitted') = Len(emitted) + Len(x)
        /\ \A i \in 1..(Len(emitted) + Len(x)) :
              emitted'[i] = IF i <= Len(emitted) THEN emitted[i] ELSE x[i - Len(emitted)]
    <2>1. emitted' = emitted \o x
      BY <1>2 DEF x
    <2> QED
      BY <1>3, <2>1, ConcatProperties
  <1>7. Len(emitted) \in Nat /\ Len(x) \in Nat
    BY <1>3, LenProperties
  <1>8. Grown
    BY <1>6, <1>7 DEF Grown
  <1>9. Queued => Queued'
    <2>1. \A k \in 1..Len(m.recs) : m.recs[k] = emitted'[Len(emitted) + k]
      <3> SUFFICES ASSUME NEW k \in 1..Len(x)
                   PROVE  x[k] = emitted'[Len(emitted) + k]
        BY <1>5
      <3>1. Len(emitted) + k \in 1..(Len(emitted) + Len(x)) /\ ~(Len(emitted) + k <= Len(emitted))
            /\ (Len(emitted) + k) - Len(emitted) = k
        BY <1>7
      <3> QED
        BY <1>6, <3>1
    <2>2. Len(emitted') = Len(emitted) + Len(m.recs) /\ m.state <= Len(emitted') /\ ch'
        = Append(ch, m)
      BY <1>2, <1>4, <1>5, <1>6, <1>7
    <2> QED
      BY <1>1, <1>2, <1>5, <1>8, <2>1, <2>2, SendKeeps
  <1>10. length' \in 0..Len(array')
    BY <1>2, <1>3
  <1> QED
    BY <1>2, <1>3, <1>8, <1>9, <1>10, AdapterKeeps DEF Ledger

LEMMA PutStateKeeps ==
    ASSUME WriterParameters, Ledger, PutState
    PROVE  Ledger'
  <1>1. Bounds
    BY DEF Ledger
  <1>2. PICK m : m = [shared |-> FALSE, recs |-> <<>>, state |-> Len(emitted)]
    OBVIOUS
  <1>3. /\ UNCHANGED <<array, length, emitted, at, buf, pending, committed, saved, tables,
                       inserted, duplicates, work, groups, start>>
        /\ ch' = Append(ch, m)
    BY <1>2 DEF PutState, Send, adapterVars, txVars, dbVars
  <1>4. Len(emitted) \in Nat /\ <<>> \in Seq(Records) /\ Len(<<>>) = 0
    BY <1>1, EmptySeq, LenProperties DEF Bounds
  <1>5. m \in Messages /\ Len(m.recs) = 0 /\ m.state = Len(emitted) /\ m.recs = <<>>
    BY <1>2, <1>4 DEF Messages
  <1>6. Grown
    BY <1>1, <1>3, NotGrown
  <1>7. Queued => Queued'
    <2>1. Len(emitted') = Len(emitted) + Len(m.recs) /\ m.state <= Len(emitted')
          /\ \A k \in 1..Len(m.recs) : m.recs[k] = emitted'[Len(emitted) + k]
      BY <1>3, <1>4, <1>5
    <2> QED
      BY <1>1, <1>3, <1>5, <1>6, <2>1, SendKeeps
  <1>8. array' \in Seq(Records) /\ length' \in 0..Len(array')
    BY <1>1, <1>3 DEF Bounds
  <1> QED
    BY <1>3, <1>6, <1>7, <1>8, AdapterKeeps DEF Ledger

(* What changes only where the writer is, or closes the queue. *)
LEMMA TurnKeeps ==
    ASSUME WriterParameters, Ledger, at' # at => at \in {"select", "dead"} \/ at' = "dead",
           at' \in {"select", "begin", "closed", "dead"} \/ at' = at,
           at' # "dead" => at # "dead" /\ ch' = ch,
           UNCHANGED <<array, length, emitted, buf, pending, committed, saved, tables, inserted,
                       duplicates, work, groups, start>>
    PROVE  Ledger'
  <1>1. Bounds /\ tables = [t \in Tables |-> RowsOf(t, committed)]
    BY DEF Ledger
  <1>2. Grown
    BY <1>1, NotGrown
  <1>3. Bounds'
    BY <1>1 DEF Bounds
  <1>4. tables' = [t \in Tables |-> RowsOf(t, committed)']
    BY <1>1, <1>2, KeepsTables
  <1>5. at' # "dead" => Buffered' /\ Queued'
    <2> SUFFICES ASSUME at' # "dead"
                 PROVE  Buffered' /\ Queued'
      OBVIOUS
    <2>1. Buffered /\ Queued /\ ch' = ch
      BY DEF Ledger
    <2> QED
      BY <1>1, <1>2, <2>1, KeepsBuffered DEF Queued, QueuedAt
  <1>6. at' \in {"select", "begin", "closed"} => Counted'
    <2> SUFFICES ASSUME at' \in {"select", "begin", "closed"}
                 PROVE  Counted'
      OBVIOUS
    <2>1. Counted
      BY DEF Ledger
    <2> QED
      BY <1>1, <1>2, <2>1, KeepsCounted
  <1>7. at' = "insert" => InTransaction'
    <2> SUFFICES ASSUME at' = "insert"
                 PROVE  InTransaction'
      OBVIOUS
    <2>1. InTransaction /\ Buffered
      BY DEF Ledger
    <2> QED
      BY <1>1, <1>2, <2>1, KeepsTransaction
  <1> QED
    BY <1>3, <1>4, <1>5, <1>6, <1>7 DEF Ledger

LEMMA ReceiveLedger ==
    ASSUME WriterParameters, Ledger, Receive
    PROVE  Ledger'
  <1>1. at = "select" /\ at' \in {"select", "begin"}
        /\ UNCHANGED <<array, length, emitted, committed, saved, tables, inserted, duplicates>>
    BY DEF Receive, adapterVars, txVars, dbVars
  <1>2. Bounds /\ Buffered /\ Queued /\ Counted /\ tables = [t \in Tables |-> RowsOf(t,
      committed)]
    BY <1>1 DEF Ledger
  <1>3. Grown /\ Bounds'
    BY <1>1, <1>2, NotGrown DEF Bounds
  <1>4. Buffered' /\ Queued'
    BY <1>2, ReceiveKeeps
  <1>5. Counted' /\ tables' = [t \in Tables |-> RowsOf(t, committed)']
    BY <1>1, <1>2, <1>3, KeepsCounted, KeepsTables
  <1> QED
    BY <1>1, <1>3, <1>4, <1>5 DEF Ledger

LEMMA BeginLedger ==
    ASSUME WriterParameters, Ledger, Begin
    PROVE  Ledger'
  <1>1. at = "begin" /\ at' = "insert"
        /\ UNCHANGED <<array, length, emitted, ch, buf, pending,
                       committed, saved, tables, inserted, duplicates>>
    BY DEF Begin, adapterVars, dbVars
  <1>2. Bounds /\ Buffered /\ Queued /\ Counted /\ tables = [t \in Tables |-> RowsOf(t,
      committed)]
    BY <1>1 DEF Ledger
  <1>3. Grown /\ Bounds'
    BY <1>1, <1>2, NotGrown DEF Bounds
  <1>4. InTransaction'
    BY <1>2, BeginOpens
  <1>5. Buffered' /\ tables' = [t \in Tables |-> RowsOf(t, committed)']
    BY <1>1, <1>2, <1>3, KeepsBuffered, KeepsTables
  <1>6. Queued'
    BY <1>1, <1>2 DEF Queued, QueuedAt
  <1> QED
    BY <1>1, <1>3, <1>4, <1>5, <1>6 DEF Ledger

LEMMA InsertLedger ==
    ASSUME WriterParameters, Ledger, InsertChunk
    PROVE  Ledger'
  <1>1. at = "insert" /\ at' = "insert"
        /\ UNCHANGED <<array, length, emitted, ch, buf, pending, committed, saved, tables>>
    BY DEF InsertChunk, adapterVars, dbVars
  <1>2. Bounds /\ Buffered /\ Queued /\ InTransaction /\ tables
      = [t \in Tables |-> RowsOf(t, committed)]
    BY <1>1 DEF Ledger
  <1>3. InTransaction' /\ inserted' \in Nat /\ duplicates' \in Nat
    BY <1>2, InsertKeeps
  <1>4. Grown /\ Bounds'
    BY <1>1, <1>2, <1>3, NotGrown DEF Bounds
  <1>5. Buffered' /\ tables' = [t \in Tables |-> RowsOf(t, committed)']
    BY <1>1, <1>2, <1>4, KeepsBuffered, KeepsTables
  <1>6. Queued'
    BY <1>1, <1>2 DEF Queued, QueuedAt
  <1> QED
    BY <1>1, <1>3, <1>4, <1>5, <1>6 DEF Ledger

LEMMA CommitLedger ==
    ASSUME WriterParameters, Ledger, CommitFlush
    PROVE  Ledger'
  <1>1. at = "insert" /\ at' = "select"
    BY DEF CommitFlush
  <1>2. Bounds /\ Buffered /\ Queued /\ InTransaction
    BY <1>1 DEF Ledger
  <1>3. Bounds' /\ Buffered' /\ Queued' /\ Counted'
        /\ tables' = [t \in Tables |-> RowsOf(t, committed)']
    BY <1>2, CommitCloses
  <1> QED
    BY <1>1, <1>3 DEF Ledger

LEMMA LedgerStep ==
    ASSUME WriterParameters, Ledger, [WriterNext]_writerVars
    PROVE  Ledger'
  <1>1. ASSUME NEW r \in Records, Fill(r)
        PROVE  Ledger'
    BY <1>1, FillKeeps
  <1>2. CASE Emit
    BY <1>2, EmitKeeps
  <1>3. CASE PutState
    BY <1>3, PutStateKeeps
  <1>4. CASE CloseQueue
    <2>1. UNCHANGED <<at, ch, array, length, emitted, buf, pending,
                      committed, saved, tables, inserted, duplicates, work, groups, start>>
      BY <1>4 DEF CloseQueue, txVars, dbVars
    <2> QED
      BY <2>1, TurnKeeps
  <1>5. CASE Receive
    BY <1>5, ReceiveLedger
  <1>6. CASE Tick
    <2>1. at = "select" /\ at' = "begin"
          /\ UNCHANGED <<ch, array, length, emitted, buf, pending,
                         committed, saved, tables, inserted, duplicates, work, groups, start>>
      BY <1>6 DEF Tick, adapterVars, txVars, dbVars
    <2> QED
      BY <2>1, TurnKeeps
  <1>7. CASE QueueClosed
    <2>1. at = "select" /\ at' \in {"begin", "closed"}
          /\ UNCHANGED <<ch, array, length, emitted, buf, pending,
                         committed, saved, tables, inserted, duplicates, work, groups, start>>
      BY <1>7 DEF QueueClosed, adapterVars, txVars, dbVars
    <2> QED
      BY <2>1, TurnKeeps
  <1>8. CASE Begin
    BY <1>8, BeginLedger
  <1>9. CASE InsertChunk
    BY <1>9, InsertLedger
  <1>10. CASE CommitFlush
    BY <1>10, CommitLedger
  <1>11. CASE Fail
    <2>1. at' = "dead"
          /\ UNCHANGED <<array, length, emitted, buf, pending,
                         committed, saved, tables, inserted, duplicates, work, groups, start>>
      BY <1>11 DEF Fail, adapterVars, txVars, dbVars
    <2> QED
      BY <2>1, TurnKeeps
  <1>12. CASE Over \/ UNCHANGED writerVars
    <2>1. UNCHANGED <<at, ch, array, length, emitted, buf, pending,
                      committed, saved, tables, inserted, duplicates, work, groups, start>>
      BY <1>12 DEF Over, writerVars, adapterVars, txVars, dbVars
    <2> QED
      BY <2>1, TurnKeeps
  <1> QED
    BY <1>1, <1>2, <1>3, <1>4, <1>5, <1>6, <1>7, <1>8, <1>9, <1>10, <1>11, <1>12 DEF WriterNext

LEMMA LedgerInvariant ==
    ASSUME WriterParameters
    PROVE  WriterSpec => []Ledger
  <1>1. WriterInit => Ledger
    BY LedgerInit
  <1>2. Ledger /\ [WriterNext]_writerVars => Ledger'
    BY LedgerStep
  <1> QED
    BY <1>1, <1>2, PTL DEF WriterSpec

(* For records of any kind, batches, chunks, buffers and queues of any size *)
(* and whichever statement fails, the database is what inserting an initial *)
(* part of the emitted records one by one would have left, and the saved    *)
(* state is not ahead of it (Flush, insertGroup).                           *)
THEOREM WriterLikeOneByOne == WriterSpec => []LikeOneByOne
  <1>1. Ledger => LikeOneByOne
    BY DEF Ledger, Bounds, LikeOneByOne, OneByOne, RowsOf, Prefix
  <1>2. WriterSpec => []Ledger
    BY WriterAssumption, LedgerInvariant
  <1> QED
    BY <1>1, <1>2, PTL

(* And between two flushes the counters are exact (Flush, stats).           *)
THEOREM WriterCountersExact == WriterSpec => []CountersExact
  <1>1. Ledger => CountersExact
    <2>1. Ledger => (at \in {"select", "begin", "closed"} => Counted)
      BY DEF Ledger
    <2>2. (at \in {"select", "begin", "closed"} => Counted) => CountersExact
      BY DEF Counted, CountersExact
    <2> QED
      BY <2>1, <2>2
  <1>2. WriterSpec => []Ledger
    BY WriterAssumption, LedgerInvariant
  <1> QED
    BY <1>1, <1>2, PTL
==============================================================================
