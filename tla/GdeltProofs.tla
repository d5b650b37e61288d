------------------------------ MODULE GdeltProofs ------------------------------
(***************************************************************************)
(* Theorems about GdeltSource and Gdelt, for every number of stamps,       *)
(* datasets, rows, batches and workers, every limit and window, and        *)
(* whatever fails.                                                         *)
(***************************************************************************)
EXTENDS Gdelt, TLAPS, SequenceTheorems, FiniteSetTheorems

Log == INSTANCE SinkLemmas

-----------------------------------------------------------------------------
(* The inductive invariant of GdeltSource. *)

(* Sets of records in which a file's row comes with all rows of the file.   *)
Whole ==
    {R \in SUBSET Record : \A f \in File : FileRow(f) \in R => {f} \X (0..RowsPerFile) \subseteq R}

(* A stamp is covered by the records of a file of it. *)
Stamped ==
    {p \in State \X SUBSET Record : \E f \in File : f[1] = p[1] /\ FileRow(f) \in p[2]}

(* Whatever part of the log a crash leaves out, the rest is as it must be.  *)
Durable == Log!Sound(Whole, Stamped, NoState, rows, backlog, saved)

(* All that the run has handed over, as long as the writer takes it.        *)
All == Log!Backlogged

(* Where Collect is, and what it has in hand. *)
Place ==
    /\ step # "off" <=> phase = "collecting"
    /\ phase = "idle" => backlog = <<>>
    /\ result = "nil" => step = "off"
    /\ job \in File <=> step \in {"check", "ingest", "save"}

(* Rows already handed over, and the state in memory, as long as nothing    *)
(* that was accepted is lost.                                               *)
InHand ==
    writer = "live" /\ step # "off" =>
        /\ step = "ingest" => \A i \in 1..at : <<job, i>> \in All
        /\ step = "save" => FileRow(job) \in All /\ stamp # 0
        /\ stamp # 0 => <<stamp, All>> \in Stamped

(* Each selected file is still to come, in hand, given up or handed over.   *)
Accounted ==
    /\ writer = "live" /\ step \in {"loop", "check", "ingest", "save"} =>
          \A f \in selected : f \in todo \/ f \in skipped \/ f = job \/ FileRow(f) \in All
    /\ writer = "live" /\ ctx = "live" /\ result = "nil" =>
          \A f \in selected : f \in skipped \/ FileRow(f) \in All

SourceInv == TypeOK /\ Durable /\ Place /\ InHand /\ Accounted

-----------------------------------------------------------------------------
(* Files and records. *)

LEMMA Files ==
  /\ NoFile \notin File
  /\ \A f \in File : f[1] \in State /\ f[1] \in Nat /\ f[1] # 0
  /\ \A f \in File, i \in 0..RowsPerFile : <<f, i>> \in Record
  /\ \A f \in File : FileRow(f) \in Record
  BY GdeltAssumption DEF File, NoFile, Stamp, State, Record, FileRow

LEMMA Constants ==
  /\ MaxRecords \in Nat /\ RowsPerFile \in Nat /\ BatchCap \in Nat \ {0} /\ MaxStamp \in Nat
  /\ NoState \notin State
  BY GdeltAssumption DEF State

(* More records cover what fewer do. *)
LEMMA StampedGrows == Log!Monotone(Whole, Stamped)
  <1> SUFFICES ASSUME NEW x, NEW A, NEW B, <<x, A>> \in Stamped, A \subseteq B, B \in Whole
               PROVE  <<x, B>> \in Stamped
    BY DEF Log!Monotone
  <1>1. B \in SUBSET Record
    BY DEF Whole
  <1>2. x \in State
    BY DEF Stamped
  <1>3. PICK f \in File : f[1] = x /\ FileRow(f) \in A
    BY DEF Stamped
  <1> QED
    BY <1>1, <1>2, <1>3 DEF Stamped

(* Rows other than a file's own never spoil what is whole. *)
LEMMA WholeGrows ==
  ASSUME NEW R \in Whole, NEW X \in SUBSET Record, \A f \in File : FileRow(f) \notin X
  PROVE  R \cup X \in Whole
  BY DEF Whole

(* What Sink.tla says of the queue. *)
LEMMA Sink ==
  /\ Queue!SinkType <=> Log!SinkType
  /\ \A batch, err : Queue!Emit(batch, err) <=> Log!Emit(batch, err)
  /\ \A st, err : Queue!PutState(st, err) <=> Log!PutState(st, err)
  /\ Queue!Write <=> Log!Write
  /\ Queue!Lose <=> Log!Lose
  <1>1. Queue!SinkType <=> Log!SinkType
    BY DEF Queue!SinkType, Log!SinkType, Queue!TypeOK, Log!TypeOK, Queue!Message, Log!Message
  <1>2. ASSUME NEW batch, NEW err
        PROVE  Queue!Emit(batch, err) <=> Log!Emit(batch, err)
    BY DEF Queue!Emit, Log!Emit, Queue!Kept, Log!Kept, Queue!Overdraws, Log!Overdraws,
           Queue!Room, Log!Room, Queue!Deliver, Log!Deliver, Queue!Accept, Log!Accept,
           Queue!RecsIn, Log!RecsIn, Queue!Refused, Log!Refused, Queue!vars, Log!vars
  <1>3. ASSUME NEW st, NEW err
        PROVE  Queue!PutState(st, err) <=> Log!PutState(st, err)
    BY DEF Queue!PutState, Log!PutState, Queue!Deliver, Log!Deliver, Queue!Accept, Log!Accept,
           Queue!Refused, Log!Refused, Queue!vars, Log!vars, Queue!runVars, Log!runVars
  <1>4. Queue!Write <=> Log!Write
    BY DEF Queue!Write, Log!Write, Queue!Commit, Log!Commit, Queue!RecsOf, Log!RecsOf,
           Queue!IsLastState, Log!IsLastState, Queue!runVars, Log!runVars
  <1>5. Queue!Lose <=> Log!Lose
    BY DEF Queue!Lose, Log!Lose
  <1> QED
    BY <1>1, <1>2, <1>3, <1>4, <1>5

-----------------------------------------------------------------------------
(* The steps of the log. *)

LEMMA Still ==
  ASSUME SourceInv, UNCHANGED <<backlog, rows, saved>>
  PROVE  Durable' /\ All' = All
  BY DEF SourceInv, Durable, All, Log!Backlogged

LEMMA Emitting ==
  ASSUME SourceInv, NEW batch \in Seq(Record), NEW err, Queue!Emit(batch, err),
         Log!Leaves(Whole, batch, err)
  PROVE  /\ Queue!SinkType'
         /\ UNCHANGED <<rows, saved, phase, ctx, writer>>
         /\ Durable'
         /\ All \subseteq All'
         /\ err = "nil" /\ writer = "live" => \A i \in 1..Len(batch) : batch[i] \in All'
  <1>1. Log!SinkType /\ Log!Emit(batch, err) /\ Durable
    BY Sink DEF SourceInv, TypeOK
  <1>2. /\ Log!SinkType'
        /\ UNCHANGED <<rows, saved, phase, ctx, writer>>
        /\ Log!Sound(Whole, Stamped, NoState, rows', backlog', saved')
        /\ Log!Backlogged \subseteq Log!Backlogged'
        /\ err = "nil" /\ writer = "live" => \A i \in 1..Len(batch) : batch[i] \in Log!Backlogged'
    BY <1>1, Constants, Log!EmitKeeps DEF Durable
  <1>3. Queue!SinkType'
    BY <1>2
       DEF Queue!SinkType, Log!SinkType, Queue!TypeOK, Log!TypeOK, Queue!Message, Log!Message
  <1> QED
    BY <1>2, <1>3 DEF Durable, All

LEMMA Saving ==
  ASSUME SourceInv, NEW st \in State, NEW err, Queue!PutState(st, err),
         writer = "live" => <<st, All>> \in Stamped
  PROVE  /\ Queue!SinkType'
         /\ UNCHANGED <<rows, saved, phase, ctx, writer>>
         /\ Durable'
         /\ All' = All
  <1>1. Log!SinkType /\ Log!PutState(st, err) /\ Durable
    BY Sink DEF SourceInv, TypeOK
  <1>2. /\ Log!SinkType'
        /\ UNCHANGED <<rows, saved, phase, ctx, writer>>
        /\ Log!Sound(Whole, Stamped, NoState, rows', backlog', saved')
        /\ Log!Backlogged' = Log!Backlogged
    BY <1>1, Constants, Log!PutStateKeeps DEF Durable, All
  <1>3. Queue!SinkType'
    BY <1>2
       DEF Queue!SinkType, Log!SinkType, Queue!TypeOK, Log!TypeOK, Queue!Message, Log!Message
  <1> QED
    BY <1>2, <1>3 DEF Durable, All

LEMMA Writing ==
  ASSUME SourceInv, Queue!Write
  PROVE  /\ Queue!SinkType'
         /\ UNCHANGED <<phase, ctx, writer, emitted>>
         /\ Durable'
         /\ All' = All
  <1>1. Log!SinkType /\ Log!Write /\ Durable
    BY Sink DEF SourceInv, TypeOK
  <1>2. /\ Log!SinkType'
        /\ UNCHANGED <<phase, ctx, writer, emitted>>
        /\ Log!Sound(Whole, Stamped, NoState, rows', backlog', saved')
        /\ Log!Backlogged' = Log!Backlogged
    BY <1>1, StampedGrows, Log!WriteKeeps DEF Durable, All
  <1>3. Queue!SinkType'
    BY <1>2
       DEF Queue!SinkType, Log!SinkType, Queue!TypeOK, Log!TypeOK, Queue!Message, Log!Message
  <1> QED
    BY <1>2, <1>3 DEF Durable, All

LEMMA Losing ==
  ASSUME SourceInv, Queue!Lose
  PROVE  /\ Queue!TypeOK'
         /\ UNCHANGED <<rows, saved>> /\ backlog' = <<>>
         /\ Durable'
  <1>1. Log!SinkType /\ Log!Lose /\ Durable
    BY Sink DEF SourceInv, TypeOK
  <1>2. /\ Log!TypeOK'
        /\ UNCHANGED <<rows, saved>> /\ backlog' = <<>>
        /\ Log!Sound(Whole, Stamped, NoState, rows', backlog', saved')
    BY <1>1, Log!LoseKeeps DEF Durable
  <1>3. Queue!TypeOK'
    BY <1>2 DEF Queue!TypeOK, Log!TypeOK, Queue!Message, Log!Message
  <1> QED
    BY <1>2, <1>3 DEF Durable

(* With nothing in the backlog, what was handed over is in the database.    *)
LEMMA Settled == ASSUME backlog = <<>> PROVE All = rows
  BY Log!AcceptedNone DEF All, Log!Backlogged

-----------------------------------------------------------------------------
(* The invariant holds initially. *)

LEMMA SourceInit == Init => SourceInv
  <1> SUFFICES ASSUME Init
               PROVE  SourceInv
    OBVIOUS
  <1>1. TypeOK
    BY GdeltAssumption
       DEF Init, Queue!SinkInit, Queue!Init, TypeOK, Queue!SinkType, Queue!TypeOK, State, NoFile
  <1>2. Durable
    <2>1. {} \in Whole
      BY DEF Whole, FileRow
    <2>2. \A k \in 0..Len(<<>>) : Log!Reach({}, <<>>, k) = {}
      BY Log!ReachZero, EmptySeq
    <2>3. 1..Len(<<>>) = {}
      BY EmptySeq
    <2>4. rows = {} /\ backlog = <<>> /\ saved = NoState
      BY DEF Init, Queue!SinkInit, Queue!Init
    <2> QED
      BY <2>1, <2>2, <2>3, <2>4 DEF Durable, Log!Sound
  <1>3. Place /\ InHand /\ Accounted
    BY Files DEF Init, Queue!SinkInit, Queue!Init, Place, InHand, Accounted
  <1> QED
    BY <1>1, <1>2, <1>3 DEF SourceInv

-----------------------------------------------------------------------------
(* The steps that leave the queue alone. *)

LEMMA Quiet ==
  ASSUME SourceInv, UNCHANGED sinkVars
  PROVE  Queue!SinkType' /\ Durable' /\ All' = All
  BY Still DEF SourceInv, sinkVars, TypeOK, Queue!SinkType, Queue!TypeOK

LEMMA StartStep ==
  ASSUME SourceInv, NEW resume \in BOOLEAN, StartRun(resume)
  PROVE  SourceInv'
  <1>1. /\ phase = "idle" /\ phase' = "collecting" /\ ctx' = "live" /\ writer' = "live"
        /\ emitted' = 0 /\ UNCHANGED <<backlog, rows, saved>>
    BY DEF StartRun, Queue!StartRun, Queue!vars
  <1>2. /\ step' = "discover" /\ skipped' = {} /\ selected' = {} /\ result' = "error"
        /\ stamp' = IF resume /\ saved # NoState THEN saved ELSE 0
        /\ UNCHANGED <<published, stops, todo, job, at>>
    BY DEF StartRun
  <1>3. Durable' /\ All' = All
    BY <1>1, Still
  <1>4. TypeOK'
    <2>1. Queue!SinkType'
      BY <1>1 DEF SourceInv, TypeOK, Queue!SinkType, Queue!TypeOK
    <2>2. stamp' \in State
      BY <1>2, GdeltAssumption DEF SourceInv, TypeOK, Queue!SinkType, Queue!TypeOK, State
    <2> QED
      BY <1>2, <2>1, <2>2 DEF SourceInv, TypeOK
  <1>5. Place'
    BY <1>1, <1>2 DEF SourceInv, Place
  <1>6. InHand'
    <2>1. All = rows
      BY <1>1, Settled DEF SourceInv, Place
    <2>2. saved # NoState => <<saved, rows>> \in Stamped
      BY DEF SourceInv, Durable, Log!Sound
    <2> QED
      BY <1>1, <1>2, <1>3, <2>1, <2>2 DEF InHand
  <1>7. Accounted'
    BY <1>2 DEF Accounted
  <1> QED
    BY <1>3, <1>4, <1>5, <1>6, <1>7 DEF SourceInv

LEMMA DiscoverStep ==
  ASSUME SourceInv, Discover \/ DiscoverFails
  PROVE  SourceInv'
  <1>1. Queue!SinkType' /\ Durable' /\ All' = All
    BY Quiet DEF Discover, DiscoverFails
  <1>2. /\ step = "discover" /\ step' \in {"loop", "fail"}
        /\ UNCHANGED <<sinkVars, published, stops, stamp, job, at, skipped, result>>
        /\ todo' \subseteq selected' \/ step' = "fail"
        /\ step' = "loop" => todo' = selected'
    BY DEF Discover, DiscoverFails, jobVars
  <1>3. selected' \subseteq File /\ todo' \subseteq File
    <2>1. CASE Discover
      <3>1. PICK mode \in Modes, w \in Windows : selected' = Selected(mode, w[1], w[2])
        BY <2>1 DEF Discover
      <3>2. selected' \subseteq File
        BY <3>1 DEF Selected, Capped, Listed
      <3> QED
        BY <2>1, <3>2 DEF Discover
    <2>2. CASE DiscoverFails
      BY <2>2 DEF DiscoverFails, jobVars, SourceInv, TypeOK
    <2> QED
      BY <2>1, <2>2
  <1>4. TypeOK'
    BY <1>1, <1>2, <1>3 DEF SourceInv, TypeOK
  <1>5. Place' /\ InHand' /\ Accounted'
    BY <1>1, <1>2 DEF SourceInv, Place, InHand, Accounted, sinkVars
  <1> QED
    BY <1>1, <1>4, <1>5 DEF SourceInv

LEMMA TakeStep ==
  ASSUME SourceInv, NEW f \in File, NEW ok \in BOOLEAN, Take(f, ok)
  PROVE  SourceInv'
  <1>1. Queue!SinkType' /\ Durable' /\ All' = All
    BY Quiet DEF Take
  <1>2. TypeOK'
    BY <1>1 DEF Take, SourceInv, TypeOK
  <1>3. Place' /\ InHand'
    BY <1>1, Files DEF Take, SourceInv, Place, InHand, sinkVars, TypeOK
  <1>4. Accounted'
    BY <1>1, Files DEF Take, SourceInv, TypeOK, Place, Accounted, sinkVars
  <1> QED
    BY <1>1, <1>2, <1>3, <1>4 DEF SourceInv

LEMMA AlreadyCollectedStep ==
  ASSUME SourceInv, AlreadyCollected
  PROVE  SourceInv'
  <1>1. Queue!SinkType' /\ Durable' /\ All' = All
    BY Quiet DEF AlreadyCollected
  <1>2. TypeOK'
    BY <1>1, Constants DEF AlreadyCollected, SourceInv, TypeOK
  <1>3. Place' /\ InHand'
    BY <1>1, Files DEF AlreadyCollected, SourceInv, Place, InHand, sinkVars
  <1>4. Accounted'
    <2>1. rows \subseteq All
      <3>1. backlog \in Seq(Queue!Message)
        BY DEF SourceInv, TypeOK, Queue!SinkType, Queue!TypeOK
      <3> QED
        BY <3>1, Log!AcceptedIsMost DEF All, Log!Backlogged
    <2> QED
      BY <1>1, <2>1 DEF AlreadyCollected, SourceInv, Place, Accounted, sinkVars, Seen, Collected
  <1> QED
    BY <1>1, <1>2, <1>3, <1>4 DEF SourceInv

-----------------------------------------------------------------------------
(* The steps of ingest. *)

(* A file that is given up, whatever part of it was handed over.            *)
LEMMA GivingUp ==
  ASSUME SourceInv, step = "ingest", GiveUp,
         Queue!SinkType', Durable', All \subseteq All',
         UNCHANGED <<rows, saved, phase, ctx, writer, published, stops, todo, selected, result>>
  PROVE  SourceInv'
  <1>1. TypeOK'
    BY DEF GiveUp, SourceInv, TypeOK, Place
  <1>2. Place'
    BY Files DEF GiveUp, SourceInv, Place
  <1>3. InHand'
    <2>1. stamp # 0 /\ writer = "live" => <<stamp, All>> \in Stamped
      BY DEF SourceInv, InHand
    <2>2. All' \in Whole
      BY DEF Durable, All, Log!Backlogged, Log!Accepted, Log!Sound
    <2>3. stamp # 0 /\ writer = "live" => <<stamp, All'>> \in Stamped
      BY <2>1, <2>2, StampedGrows DEF Log!Monotone
    <2> QED
      BY <2>3 DEF GiveUp, InHand
  <1>4. Accounted'
    BY DEF GiveUp, SourceInv, Place, Accounted
  <1> QED
    BY <1>1, <1>2, <1>3, <1>4 DEF SourceInv

(* What was handed over is whole, as far as it goes. *)
LEMMA AllIsWhole == ASSUME SourceInv PROVE All \in Whole
  BY DEF SourceInv, Durable, All, Log!Backlogged, Log!Accepted, Log!Sound

(* The next n rows of the file in hand. *)
LEMMA LinesAre ==
  ASSUME SourceInv, step = "ingest", NEW n \in Nat, at + n <= RowsPerFile
  PROVE  /\ Lines(n) \in Seq(Record) /\ Len(Lines(n)) = n
         /\ \A i \in 1..n : /\ Lines(n)[i] = <<job, at + i>>
                            /\ Lines(n)[i] \in Record
                            /\ \A f \in File : Lines(n)[i] # FileRow(f)
  <1>1. job \in File /\ at \in Nat /\ RowsPerFile \in Nat
    BY Constants DEF SourceInv, TypeOK, Place
  <1>2. \A i \in 1..n : /\ Lines(n)[i] = <<job, at + i>>
                        /\ at + i \in 0..RowsPerFile /\ at + i # 0
    BY <1>1 DEF Lines
  <1>3. \A i \in 1..n : <<job, at + i>> \in Record
    BY <1>1, <1>2, Files
  <1>4. Lines(n) \in Seq(Record) /\ Len(Lines(n)) = n
    BY <1>3 DEF Lines
  <1> QED
    BY <1>2, <1>3, <1>4 DEF FileRow

LEMMA IngestBatchStep ==
  ASSUME SourceInv, IngestBatch
  PROVE  SourceInv'
  <1> DEFINE batch == Lines(BatchCap)
  <1>1. /\ step = "ingest" /\ at \in Nat /\ BatchCap \in Nat \ {0} /\ at + BatchCap <= RowsPerFile
        /\ job \in File /\ RowsPerFile \in Nat
    BY Constants DEF IngestBatch, SourceInv, TypeOK, Place
  <1>2. /\ batch \in Seq(Record) /\ Len(batch) = BatchCap
        /\ \A i \in 1..BatchCap : /\ batch[i] = <<job, at + i>> /\ batch[i] \in Record
                                  /\ \A f \in File : batch[i] # FileRow(f)
    BY <1>1, LinesAre
  <1>3. PICK err \in Queue!Errors :
           /\ Queue!Emit(batch, err)
           /\ IF err = "nil" THEN at' = at + BatchCap /\ UNCHANGED <<step, stamp, job, skipped>>
                             ELSE GiveUp
    BY DEF IngestBatch
  <1>4. UNCHANGED <<published, stops, todo, selected, result>>
    BY DEF IngestBatch
  <1> HIDE DEF batch
  <1>5. Log!Leaves(Whole, batch, err)
    <2> SUFFICES ASSUME NEW n \in 0..Len(batch)
                 PROVE  Log!Backlogged \cup {batch[i] : i \in 1..n} \in Whole
      BY DEF Log!Leaves
    <2>1. \A i \in 1..n : i \in 1..BatchCap
      BY <1>1, <1>2
    <2>2. {batch[i] : i \in 1..n} \in SUBSET Record
      BY <1>2, <2>1
    <2>3. \A f \in File : FileRow(f) \notin {batch[i] : i \in 1..n}
      BY <1>2, <2>1
    <2> QED
      BY <2>2, <2>3, AllIsWhole, WholeGrows DEF All
  <1>6. /\ Queue!SinkType'
        /\ UNCHANGED <<rows, saved, phase, ctx, writer>>
        /\ Durable'
        /\ All \subseteq All'
        /\ err = "nil" /\ writer = "live" => \A i \in 1..Len(batch) : batch[i] \in All'
    BY <1>2, <1>3, <1>5, Emitting
  <1>7. CASE err # "nil"
    BY <1>1, <1>3, <1>4, <1>6, <1>7, GivingUp
  <1>8. CASE err = "nil"
    <2>1. at' = at + BatchCap /\ UNCHANGED <<step, stamp, job, skipped>>
      BY <1>3, <1>8
    <2>2. TypeOK'
      BY <1>1, <1>4, <1>6, <2>1 DEF SourceInv, TypeOK
    <2>3. Place'
      BY <1>1, <1>4, <1>6, <2>1 DEF SourceInv, Place
    <2>4. InHand'
      <3>1. ASSUME writer = "live", NEW i \in 1..at'
            PROVE  <<job, i>> \in All'
        <4>1. CASE i <= at
          BY <1>1, <1>6, <3>1, <4>1 DEF SourceInv, InHand
        <4>2. CASE i > at
          <5>1. i - at \in 1..BatchCap /\ at + (i - at) = i
            BY <1>1, <2>1, <3>1, <4>2
          <5> QED
            BY <1>2, <1>6, <1>8, <3>1, <5>1
        <4> QED
          BY <1>1, <2>1, <3>1, <4>1, <4>2
      <3>2. stamp # 0 /\ writer = "live" => <<stamp, All'>> \in Stamped
        <4>1. All' \in Whole
          BY <1>6 DEF Durable, All, Log!Backlogged, Log!Accepted, Log!Sound
        <4> QED
          BY <1>1, <1>6, <4>1, StampedGrows DEF SourceInv, InHand, Log!Monotone
      <3> QED
        BY <1>1, <1>6, <2>1, <3>1, <3>2 DEF InHand
    <2>5. Accounted'
      BY <1>1, <1>4, <1>6, <2>1 DEF SourceInv, Place, Accounted
    <2> QED
      BY <1>6, <2>2, <2>3, <2>4, <2>5 DEF SourceInv
  <1> QED
    BY <1>7, <1>8

(* The last batch: the rows that are left, and after them the file's row.   *)
LEMMA LastBatchIs ==
  ASSUME SourceInv, step = "ingest"
  PROVE  /\ LastBatch \in Seq(Record) /\ Len(LastBatch) = RowsPerFile - at + 1
         /\ \A i \in 1..(RowsPerFile - at) :
               /\ LastBatch[i] = <<job, at + i>> /\ LastBatch[i] \in Record
               /\ \A f \in File : LastBatch[i] # FileRow(f)
         /\ LastBatch[RowsPerFile - at + 1] = FileRow(job)
  <1> DEFINE n == RowsPerFile - at
             s == Lines(n)
             t == <<FileRow(job)>>
  <1>1. job \in File /\ at \in Nat /\ RowsPerFile \in Nat /\ n \in Nat /\ at + n <= RowsPerFile
    BY Constants DEF SourceInv, TypeOK, Place
  <1>2. FileRow(job) \in Record
    BY <1>1, Files
  <1>3. t \in Seq(Record) /\ Len(t) = 1 /\ t[1] = FileRow(job)
    BY <1>2
  <1> HIDE DEF n
  <1>4. /\ s \in Seq(Record) /\ Len(s) = n
        /\ \A i \in 1..n : /\ s[i] = <<job, at + i>> /\ s[i] \in Record
                           /\ \A f \in File : s[i] # FileRow(f)
    BY <1>1, LinesAre
  <1> HIDE DEF s, t
  <1>5. /\ s \o t \in Seq(Record) /\ Len(s \o t) = n + 1
        /\ \A i \in 1..(n + 1) : (s \o t)[i] = IF i <= n THEN s[i] ELSE t[i - n]
    <2>1. s \in Seq(Record) /\ t \in Seq(Record)
      BY <1>3, <1>4
    <2>2. /\ s \o t \in Seq(Record) /\ Len(s \o t) = Len(s) + Len(t)
          /\ \A i \in 1..(Len(s) + Len(t)) :
                (s \o t)[i] = IF i <= Len(s) THEN s[i] ELSE t[i - Len(s)]
      BY <2>1, ConcatProperties
    <2> QED
      BY <1>3, <1>4, <2>2
  <1>6. \A i \in 1..n : (s \o t)[i] = s[i]
    BY <1>1, <1>5
  <1>7. (s \o t)[n + 1] = FileRow(job)
    BY <1>1, <1>3, <1>5
  <1>8. LastBatch = s \o t
    BY DEF LastBatch, s, t, n
  <1>9. \A i \in 1..n : /\ (s \o t)[i] = <<job, at + i>> /\ (s \o t)[i] \in Record
                        /\ \A f \in File : (s \o t)[i] # FileRow(f)
    BY <1>4, <1>6
  <1> QED
    BY <1>5, <1>7, <1>8, <1>9 DEF n

LEMMA IngestLastStep ==
  ASSUME SourceInv, IngestLast
  PROVE  SourceInv'
  <1> DEFINE m == RowsPerFile - at
             batch == LastBatch
  <1>1. /\ step = "ingest" /\ at \in Nat /\ RowsPerFile \in Nat /\ m \in Nat
        /\ job \in File /\ FileRow(job) \in Record
    BY Constants, Files DEF IngestLast, SourceInv, TypeOK, Place
  <1>2. /\ batch \in Seq(Record) /\ Len(batch) = m + 1
        /\ \A i \in 1..m : /\ batch[i] = <<job, at + i>> /\ batch[i] \in Record
                           /\ \A f \in File : batch[i] # FileRow(f)
        /\ batch[m + 1] = FileRow(job)
    BY <1>1, LastBatchIs
  <1>3. PICK err \in Queue!Errors :
           /\ Queue!Emit(batch, err)
           /\ IF err = "nil" THEN /\ stamp' = Advance(job)
                                  /\ step' = "save"
                                  /\ UNCHANGED <<job, at, skipped>>
                             ELSE GiveUp
    BY DEF IngestLast
  <1>4. UNCHANGED <<published, stops, todo, selected, result>>
    BY DEF IngestLast
  <1> HIDE DEF batch
  <1>5. CASE err # "nil"
    <2>1. Log!Leaves(Whole, batch, err)
      <3> SUFFICES ASSUME NEW n \in 0..Len(batch), n # Len(batch)
                   PROVE  Log!Backlogged \cup {batch[i] : i \in 1..n} \in Whole
        BY <1>5 DEF Log!Leaves
      <3>1. \A i \in 1..n : i \in 1..m
        BY <1>1, <1>2
      <3>2. {batch[i] : i \in 1..n} \in SUBSET Record
        BY <1>2, <3>1
      <3>3. \A f \in File : FileRow(f) \notin {batch[i] : i \in 1..n}
        BY <1>2, <3>1
      <3> QED
        BY <3>2, <3>3, AllIsWhole, WholeGrows DEF All
    <2>2. /\ Queue!SinkType'
          /\ UNCHANGED <<rows, saved, phase, ctx, writer>>
          /\ Durable'
          /\ All \subseteq All'
      BY <1>2, <1>3, <2>1, Emitting
    <2> QED
      BY <1>1, <1>3, <1>4, <1>5, <2>2, GivingUp
  <1>6. CASE err = "nil" /\ writer = "live"
    <2> DEFINE new == {batch[i] : i \in 1..(m + 1)}
    <2>1. new \in SUBSET Record
      <3>1. \A i \in 1..(m + 1) : i \in 1..m \/ i = m + 1
        BY <1>1
      <3> QED
        BY <1>1, <1>2, <3>1
    <2>2. {job} \X (0..RowsPerFile) \subseteq All \cup new
      <3> SUFFICES ASSUME NEW j \in 0..RowsPerFile
                   PROVE  <<job, j>> \in All \cup new
        OBVIOUS
      <3>1. CASE j = 0
        <4>1. m + 1 \in 1..(m + 1)
          BY <1>1
        <4> QED
          BY <1>2, <3>1, <4>1 DEF FileRow
      <3>2. CASE j \in 1..at
        BY <1>1, <1>6, <3>2 DEF SourceInv, InHand
      <3>3. CASE j > at
        <4>1. j - at \in 1..m /\ j - at \in 1..(m + 1) /\ at + (j - at) = j
          BY <1>1, <3>3
        <4> QED
          BY <1>2, <4>1
      <3> QED
        BY <1>1, <3>1, <3>2, <3>3
    <2>3. \A f \in File : FileRow(f) \in new => f = job
      <3> SUFFICES ASSUME NEW f \in File, NEW i \in 1..(m + 1), FileRow(f) = batch[i]
                   PROVE  f = job
        OBVIOUS
      <3>1. i = m + 1
        BY <1>1, <1>2
      <3> QED
        BY <1>2, <3>1 DEF FileRow
    <2>4. All \cup new \in Whole
      BY <2>1, <2>2, <2>3, AllIsWhole DEF Whole
    <2>5. Log!Leaves(Whole, batch, err)
      <3> SUFFICES ASSUME NEW n \in 0..Len(batch), n = Len(batch)
                   PROVE  Log!Backlogged \cup {batch[i] : i \in 1..n} \in Whole
        BY <1>6 DEF Log!Leaves
      <3> QED
        BY <1>2, <2>4 DEF All
    <2>6. /\ Queue!SinkType'
          /\ UNCHANGED <<rows, saved, phase, ctx, writer>>
          /\ Durable'
          /\ All \subseteq All'
          /\ err = "nil" /\ writer = "live" => \A i \in 1..Len(batch) : batch[i] \in All'
      BY <1>2, <1>3, <2>5, Emitting
    <2>7. stamp' = Advance(job) /\ step' = "save" /\ UNCHANGED <<job, at, skipped>>
      BY <1>3, <1>6
    <2>8. stamp' \in State /\ stamp' # 0
      BY <1>1, <2>7, Files, Constants DEF Advance, SourceInv, TypeOK, State
    <2>9. TypeOK'
      BY <1>4, <2>6, <2>7, <2>8 DEF SourceInv, TypeOK
    <2>10. Place'
      BY <1>1, <1>4, <2>6, <2>7 DEF SourceInv, Place
    <2>11. FileRow(job) \in All'
      <3>1. m + 1 \in 1..Len(batch)
        BY <1>1, <1>2
      <3> QED
        BY <1>2, <1>6, <2>6, <3>1
    <2>12. InHand'
      <3>1. All' \in Whole /\ All' \in SUBSET Record
        BY <2>6 DEF Durable, All, Log!Backlogged, Log!Accepted, Log!Sound, Whole
      <3>2. <<stamp', All'>> \in Stamped
        <4>1. CASE stamp' = job[1]
          BY <1>1, <2>8, <2>11, <3>1, <4>1 DEF Stamped
        <4>2. CASE stamp' # job[1]
          <5>1. stamp' = stamp
            BY <2>7, <4>2 DEF Advance
          <5>2. <<stamp, All>> \in Stamped
            BY <1>1, <1>6, <2>8, <5>1 DEF SourceInv, InHand
          <5> QED
            BY <2>6, <3>1, <5>1, <5>2, StampedGrows DEF Log!Monotone
        <4> QED
          BY <4>1, <4>2
      <3> QED
        BY <2>6, <2>7, <2>8, <2>11, <3>2 DEF InHand
    <2>13. Accounted'
      BY <1>1, <1>4, <2>6, <2>7 DEF SourceInv, Place, Accounted
    <2> QED
      BY <2>6, <2>9, <2>10, <2>12, <2>13 DEF SourceInv
  <1>7. CASE err = "nil" /\ writer # "live"
    <2>1. Queue!SinkType' /\ Durable' /\ UNCHANGED <<rows, saved, phase, ctx, writer>>
      <3>1. UNCHANGED <<backlog, rows, saved, phase, ctx, writer>> /\ emitted' \in Nat
        <4>1. Len(batch) \in Nat
          BY <1>2, LenProperties
        <4> QED
          BY <1>3, <1>7, <4>1, Constants
             DEF Queue!Emit, Queue!Deliver, Queue!vars, SourceInv, TypeOK, Queue!SinkType
      <3>2. Queue!SinkType'
        BY <3>1 DEF SourceInv, TypeOK, Queue!SinkType, Queue!TypeOK
      <3> QED
        BY <3>1, <3>2, Still
    <2>2. stamp' = Advance(job) /\ step' = "save" /\ UNCHANGED <<job, at, skipped>>
      BY <1>3, <1>7
    <2>3. stamp' \in State
      BY <1>1, <2>2, Files DEF Advance, SourceInv, TypeOK
    <2>4. TypeOK'
      BY <1>4, <2>1, <2>2, <2>3 DEF SourceInv, TypeOK
    <2>5. Place' /\ InHand' /\ Accounted'
      BY <1>1, <1>4, <1>7, <2>1, <2>2 DEF SourceInv, Place, InHand, Accounted
    <2> QED
      BY <2>1, <2>4, <2>5 DEF SourceInv
  <1> QED
    BY <1>5, <1>6, <1>7

-----------------------------------------------------------------------------
(* The order of the files. *)

(* Before is a strict linear order. *)
LEMMA Order ==
  /\ \A f \in File : ~Before(f, f)
  /\ \A f, g \in File : f # g => Before(f, g) \/ Before(g, f)
  /\ \A f, g \in File : ~(Before(f, g) /\ Before(g, f))
  /\ \A f, g, h \in File : Before(f, g) /\ Before(g, h) => Before(f, h)
  <1>1. \A f \in File : f[1] \in Nat /\ f[2] \in Nat /\ f = <<f[1], f[2]>>
    BY DEF File, Stamp
  <1>2. \A f \in File : ~Before(f, f)
    BY <1>1 DEF Before
  <1>3. \A f, g \in File : f # g => Before(f, g) \/ Before(g, f)
    <2> TAKE f, g \in File
    <2>1. f # g => f[1] # g[1] \/ f[2] # g[2]
      BY <1>1
    <2> QED
      BY <1>1, <2>1 DEF Before
  <1>4. \A f, g \in File : ~(Before(f, g) /\ Before(g, f))
    BY <1>1 DEF Before
  <1>5. \A f, g, h \in File : Before(f, g) /\ Before(g, h) => Before(f, h)
    BY <1>1 DEF Before
  <1> QED
    BY <1>2, <1>3, <1>4, <1>5

LEMMA FileSets ==
  \A S \in SUBSET File : IsFiniteSet(S) /\ Cardinality(S) \in Nat
  <1>1. IsFiniteSet(File)
    <2>1. IsFiniteSet(Stamp) /\ IsFiniteSet(1..Kinds)
      BY FS_Interval, GdeltAssumption DEF Stamp
    <2> QED
      BY <2>1, FS_Product DEF File
  <1> QED
    BY <1>1, FS_Subset, FS_CardinalityType

(* A set of files can be put in order: each file's place is the number of   *)
(* those before it.                                                         *)
LEMMA CanBeSorted ==
  ASSUME NEW S \in SUBSET File
  PROVE  \E s \in [1..Cardinality(S) -> S] :
            \A i, j \in 1..Cardinality(S) : i < j => Before(s[i], s[j])
  <1> DEFINE n == Cardinality(S)
             Earlier(f) == {g \in S : Before(g, f)}
             rank == [f \in S |-> Cardinality(Earlier(f)) + 1]
  <1>1. IsFiniteSet(S) /\ n \in Nat
    BY FileSets
  <1>2. ASSUME NEW f \in S
        PROVE  IsFiniteSet(Earlier(f)) /\ Cardinality(Earlier(f)) \in Nat
    <2>1. Earlier(f) \in SUBSET File
      OBVIOUS
    <2> QED
      BY <2>1, FileSets
  <1>3. ASSUME NEW f \in S
        PROVE  rank[f] \in 1..n
    <2>1. f \notin Earlier(f)
      BY Order
    <2>2. Earlier(f) \cup {f} \in SUBSET S
      OBVIOUS
    <2>3. Cardinality(Earlier(f) \cup {f}) = Cardinality(Earlier(f)) + 1
      BY <1>2, <2>1, FS_AddElement
    <2>4. Cardinality(Earlier(f) \cup {f}) <= n
      BY <1>1, <2>2, FS_Subset
    <2> QED
      BY <1>1, <1>2, <2>3, <2>4
  <1>4. ASSUME NEW f \in S, NEW g \in S, Before(f, g)
        PROVE  rank[f] < rank[g]
    <2>1. f \notin Earlier(f)
      BY Order
    <2>2. Earlier(f) \cup {f} \in SUBSET Earlier(g)
      BY <1>4, Order
    <2>3. Cardinality(Earlier(f) \cup {f}) = Cardinality(Earlier(f)) + 1
      BY <1>2, <2>1, FS_AddElement
    <2>4. Cardinality(Earlier(f) \cup {f}) <= Cardinality(Earlier(g))
      BY <1>2, <2>2, FS_Subset
    <2>5. Cardinality(Earlier(f)) \in Nat /\ Cardinality(Earlier(g)) \in Nat
      BY <1>2
    <2>6. rank[f] = Cardinality(Earlier(f)) + 1 /\ rank[g] = Cardinality(Earlier(g)) + 1
      OBVIOUS
    <2> HIDE DEF Earlier, rank
    <2> QED
      BY <2>3, <2>4, <2>5, <2>6
  <1>5. rank \in [S -> 1..n]
    BY <1>3
  <1> HIDE DEF rank
  <1>6. \A f, g \in S : rank[f] = rank[g] => f = g
    <2> SUFFICES ASSUME NEW f \in S, NEW g \in S, f # g
                 PROVE  rank[f] # rank[g]
      OBVIOUS
    <2>1. Before(f, g) \/ Before(g, f)
      BY Order
    <2>2. rank[f] \in Nat /\ rank[g] \in Nat
      BY <1>1, <1>5
    <2> QED
      BY <1>4, <2>1, <2>2
  <1>7. rank \in Surjection(S, 1..n)
    <2>1. rank \in Injection(S, 1..n)
      BY <1>5, <1>6 DEF Injection, IsInjective
    <2>2. IsFiniteSet(1..n) /\ Cardinality(1..n) = n
      BY <1>1, FS_Interval
    <2> QED
      BY <2>1, <2>2, FS_Injection
  <1>8. \A i \in 1..n : \E f \in S : rank[f] = i
    BY <1>7 DEF Surjection
  <1> DEFINE s == [i \in 1..n |-> CHOOSE f \in S : rank[f] = i]
  <1>9. \A i \in 1..n : s[i] \in S /\ rank[s[i]] = i
    BY <1>8
  <1>10. s \in [1..n -> S]
    BY <1>9
  <1> HIDE DEF s, n
  <1>11. ASSUME NEW i \in 1..n, NEW j \in 1..n, i < j
         PROVE  Before(s[i], s[j])
    <2>1. s[i] \in S /\ s[j] \in S /\ rank[s[i]] = i /\ rank[s[j]] = j
      BY <1>9
    <2>2. s[i] # s[j]
      BY <1>1, <1>11, <2>1
    <2>3. Before(s[i], s[j]) \/ Before(s[j], s[i])
      BY <2>1, <2>2, Order
    <2>4. ASSUME Before(s[j], s[i])
          PROVE  FALSE
      <3>1. rank[s[j]] < rank[s[i]]
        BY <1>4, <2>1, <2>4
      <3>2. j < i
        BY <2>1, <3>1
      <3> QED
        BY <1>1, <1>11, <3>2
    <2> QED
      BY <2>3, <2>4
  <1> QED
    BY <1>10, <1>11 DEF n

(* Sorted(S) is S in order: all of it, nothing twice.                       *)
LEMMA SortedIs ==
  ASSUME NEW S \in SUBSET File
  PROVE  /\ Sorted(S) \in Seq(File) /\ DOMAIN Sorted(S) = 1..Len(Sorted(S))
         /\ \A i, j \in 1..Len(Sorted(S)) : i < j => Before(Sorted(S)[i], Sorted(S)[j])
         /\ {Sorted(S)[i] : i \in 1..Len(Sorted(S))} = S
         /\ Len(Sorted(S)) = Cardinality(S)
  <1> DEFINE n == Cardinality(S)
  <1>1. IsFiniteSet(S) /\ n \in Nat
    BY FileSets
  <1>2. PICK s : s = Sorted(S)
    OBVIOUS
  <1>3. /\ s \in [1..n -> S]
        /\ \A i, j \in 1..n : i < j => Before(s[i], s[j])
    BY <1>2, CanBeSorted DEF Sorted
  <1> HIDE DEF n
  <1>4. s \in Seq(File) /\ Len(s) = n /\ DOMAIN s = 1..n
    BY <1>1, <1>3
  <1>5. \A i, j \in 1..n : s[i] = s[j] => i = j
    <2> SUFFICES ASSUME NEW i \in 1..n, NEW j \in 1..n, i < j
                 PROVE  s[i] # s[j]
      BY <1>1
    <2>1. Before(s[i], s[j]) /\ s[i] \in File
      BY <1>3
    <2> QED
      BY <2>1, Order
  <1>6. s \in Surjection(1..n, S)
    <2>1. s \in Injection(1..n, S)
      BY <1>3, <1>5 DEF Injection, IsInjective
    <2>2. Cardinality(1..n) = n
      BY <1>1, FS_Interval
    <2> QED
      BY <1>1, <2>1, <2>2, FS_Injection DEF n
  <1>7. \A f \in S : \E i \in 1..n : s[i] = f
    BY <1>6 DEF Surjection
  <1>8. {s[i] : i \in 1..n} = S
    BY <1>3, <1>7
  <1> QED
    BY <1>2, <1>3, <1>4, <1>8 DEF n

(* The first of a set of files is before all others. *)
LEMMA FirstIs ==
  ASSUME NEW S \in SUBSET File, S # {}
  PROVE  First(S) \in S /\ \A g \in S \ {First(S)} : Before(First(S), g)
  <1>1. PICK s : s = Sorted(S)
    OBVIOUS
  <1>2. /\ s \in Seq(File) /\ Len(s) \in Nat
        /\ \A i, j \in 1..Len(s) : i < j => Before(s[i], s[j])
        /\ {s[i] : i \in 1..Len(s)} = S
    BY <1>1, SortedIs, LenProperties
  <1>3. 1 \in 1..Len(s)
    BY <1>2
  <1>4. s[1] \in S
    BY <1>2, <1>3
  <1>5. \A g \in S \ {s[1]} : Before(s[1], g)
    <2> SUFFICES ASSUME NEW i \in 1..Len(s), s[i] # s[1]
                 PROVE  Before(s[1], s[i])
      BY <1>2
    <2> QED
      BY <1>2, <1>3
  <1> QED
    BY <1>4, <1>5 DEF First

-----------------------------------------------------------------------------
(* The other steps. *)

LEMMA IngestBrokenStep ==
  ASSUME SourceInv, IngestBroken
  PROVE  SourceInv'
  <1>1. Queue!SinkType' /\ Durable' /\ All' = All
    BY Quiet DEF IngestBroken
  <1> QED
    BY <1>1, GivingUp DEF IngestBroken, sinkVars

LEMMA SaveStateStep ==
  ASSUME SourceInv, SaveState
  PROVE  SourceInv'
  <1>1. PICK err \in Queue!Errors :
           /\ Queue!PutState(stamp, err)
           /\ step' = IF err = "nil" THEN "loop" ELSE "fail"
    BY DEF SaveState
  <1>2. /\ step = "save" /\ job' = NoFile
        /\ UNCHANGED <<published, stops, stamp, todo, at, selected, skipped, result>>
    BY DEF SaveState
  <1>3. stamp \in State
    BY DEF SourceInv, TypeOK
  <1>4. writer = "live" => <<stamp, All>> \in Stamped
    BY <1>2 DEF SourceInv, InHand
  <1>5. /\ Queue!SinkType'
        /\ UNCHANGED <<rows, saved, phase, ctx, writer>>
        /\ Durable'
        /\ All' = All
    BY <1>1, <1>3, <1>4, Saving
  <1>6. TypeOK'
    BY <1>1, <1>2, <1>5 DEF SourceInv, TypeOK
  <1>7. Place'
    BY <1>1, <1>2, <1>5, Files DEF SourceInv, Place
  <1>8. InHand'
    BY <1>1, <1>2, <1>5 DEF SourceInv, InHand
  <1>9. Accounted'
    BY <1>1, <1>2, <1>5 DEF SourceInv, Place, InHand, Accounted
  <1> QED
    BY <1>5, <1>6, <1>7, <1>8, <1>9 DEF SourceInv

(* Collect returns with success only if it has gone through its files or    *)
(* the run is cancelled.                                                    *)
LEMMA ReturnStep ==
  ASSUME SourceInv, Return
  PROVE  SourceInv'
  <1>1. /\ phase' = "closing" /\ UNCHANGED <<ctx, writer, emitted, backlog, rows, saved>>
        /\ step' = "off" /\ todo' = {}
        /\ UNCHANGED <<published, stops, stamp, job, at, selected, skipped>>
        /\ \/ step = "fail" /\ result' = "error"
           \/ step = "loop" /\ result' = "nil" /\ (todo = {} \/ ctx = "cancelled")
    BY DEF Return, Leave, Queue!CollectReturns, Queue!vars
  <1>2. Durable' /\ All' = All
    BY <1>1, Still
  <1>3. TypeOK'
    BY <1>1 DEF SourceInv, TypeOK, Queue!SinkType, Queue!TypeOK
  <1>4. Place' /\ InHand'
    BY <1>1, <1>2, Files DEF SourceInv, Place, InHand
  <1>5. Accounted'
    <2>1. \A f \in selected : step = "loop" => f # job
      BY DEF SourceInv, TypeOK, Place
    <2> QED
      BY <1>1, <1>2, <2>1 DEF SourceInv, Accounted
  <1> QED
    BY <1>2, <1>3, <1>4, <1>5 DEF SourceInv

LEMMA TakeJobStep ==
  ASSUME SourceInv, TakeJob
  PROVE  SourceInv'
  <1>1. todo # {} /\ todo \in SUBSET File
    BY DEF TakeJob, SourceInv, TypeOK
  <1>2. First(todo) \in File
    BY <1>1, FirstIs
  <1>3. PICK ok \in BOOLEAN : Take(First(todo), ok)
    BY DEF TakeJob
  <1> QED
    BY <1>2, <1>3, TakeStep

LEMMA CollectSteps ==
  ASSUME SourceInv, CollectStep
  PROVE  SourceInv'
  BY DiscoverStep, TakeJobStep, AlreadyCollectedStep, IngestBatchStep, IngestLastStep,
     IngestBrokenStep, SaveStateStep, ReturnStep
     DEF CollectStep

-----------------------------------------------------------------------------
(* The run around it. *)

LEMMA WriteStep ==
  ASSUME SourceInv, Write
  PROVE  SourceInv'
  <1>1. /\ Queue!SinkType'
        /\ UNCHANGED <<phase, ctx, writer, emitted>>
        /\ Durable'
        /\ All' = All
    BY Writing DEF Write
  <1>2. UNCHANGED <<published, stops, step, stamp, todo, job, at, selected, skipped, result>>
    BY DEF Write, adapterVars, jobVars
  <1>3. TypeOK'
    BY <1>1, <1>2 DEF SourceInv, TypeOK
  <1>4. Place'
    <2>1. phase = "idle" => FALSE
      <3>1. backlog # <<>>
        <4>1. PICK n \in 1..Len(backlog) : Queue!Commit(n)
          BY DEF Write, Queue!Write
        <4> QED
          BY <4>1, EmptySeq
      <3> QED
        BY <3>1 DEF SourceInv, Place
    <2> QED
      BY <1>1, <1>2, <2>1 DEF SourceInv, Place
  <1>5. InHand' /\ Accounted'
    BY <1>1, <1>2 DEF SourceInv, InHand, Accounted
  <1> QED
    BY <1>1, <1>3, <1>4, <1>5 DEF SourceInv

LEMMA WriteFailsStep ==
  ASSUME SourceInv, WriteFails
  PROVE  SourceInv'
  <1>1. /\ Queue!TypeOK' /\ Durable' /\ backlog' = <<>>
        /\ writer' = "dead" /\ UNCHANGED <<phase, ctx, emitted>>
    BY Losing DEF WriteFails, Queue!WriteFails
  <1>2. UNCHANGED <<published, stops, step, stamp, todo, job, at, selected, skipped, result>>
    BY DEF WriteFails, adapterVars, jobVars
  <1>3. TypeOK'
    BY <1>1, <1>2 DEF SourceInv, TypeOK, Queue!SinkType
  <1>4. Place' /\ InHand' /\ Accounted'
    BY <1>1, <1>2 DEF SourceInv, Place, InHand, Accounted
  <1> QED
    BY <1>1, <1>3, <1>4 DEF SourceInv

LEMMA CrashStep ==
  ASSUME SourceInv, Crash
  PROVE  SourceInv'
  <1>1. /\ Queue!TypeOK' /\ Durable' /\ backlog' = <<>>
        /\ phase' = "idle" /\ UNCHANGED <<ctx, writer, emitted>>
    BY Losing DEF Crash, Queue!Crash
  <1>2. /\ stops < MaxStops /\ stops' = stops + 1
        /\ step' = "off" /\ todo' = {} /\ job' = NoFile /\ result' = "error"
        /\ UNCHANGED <<published, stamp, at, selected, skipped>>
    BY DEF Crash
  <1>3. TypeOK'
    BY <1>1, <1>2, GdeltAssumption DEF SourceInv, TypeOK, Queue!SinkType
  <1>4. Place' /\ InHand' /\ Accounted'
    BY <1>1, <1>2, Files DEF SourceInv, Place, InHand, Accounted
  <1> QED
    BY <1>1, <1>3, <1>4 DEF SourceInv

LEMMA EnvironmentStep ==
  ASSUME SourceInv, EndRun \/ Publish \/ Interrupt
  PROVE  SourceInv'
  <1>1. /\ UNCHANGED <<backlog, rows, saved, writer, emitted, step, stamp, todo, job, at,
                       selected, skipped, result>>
        /\ phase' = phase \/ (phase = "closing" /\ backlog = <<>> /\ phase' = "idle")
        /\ ctx' = ctx \/ ctx' = "cancelled"
        /\ stops' = stops \/ (stops < MaxStops /\ stops' = stops + 1)
        /\ published' = published \/ (published < MaxStamp /\ published' = published + 1)
    BY DEF EndRun, Publish, Interrupt, Queue!EndRun, Queue!Interrupt, Queue!vars, sinkVars,
           adapterVars, jobVars
  <1>2. Durable' /\ All' = All
    BY <1>1, Still
  <1>3. TypeOK'
    BY <1>1, GdeltAssumption DEF SourceInv, TypeOK, Queue!SinkType, Queue!TypeOK
  <1>4. Place' /\ InHand' /\ Accounted'
    BY <1>1, <1>2 DEF SourceInv, Place, InHand, Accounted
  <1> QED
    BY <1>2, <1>3, <1>4 DEF SourceInv

LEMMA SourceStep == SourceInv /\ [Next]_vars => SourceInv'
  <1> SUFFICES ASSUME SourceInv, [Next]_vars
               PROVE  SourceInv'
    OBVIOUS
  <1>1. CASE UNCHANGED vars
    BY <1>1, Quiet
       DEF vars, jobVars, sinkVars, SourceInv, TypeOK, Place, InHand, Accounted
  <1>2. ASSUME NEW resume \in BOOLEAN, StartRun(resume)
        PROVE  SourceInv'
    BY <1>2, StartStep
  <1> QED
    BY <1>1, <1>2, CollectSteps, WriteStep, WriteFailsStep, CrashStep, EnvironmentStep DEF Next

LEMMA SourceInvariant == Spec => []SourceInv
  BY SourceInit, SourceStep, PTL DEF Spec

-----------------------------------------------------------------------------
(* What follows of the database and of the runs. *)

(* Every variable of the adapter holds a value of its type. *)
THEOREM TypeCorrect == Spec => []TypeOK
  <1>1. SourceInv => TypeOK
    BY DEF SourceInv
  <1> QED
    BY SourceInvariant, <1>1, PTL

LEMMA DatabaseIsSound ==
  ASSUME SourceInv
  PROVE  FileRowMeansWhole /\ SavedStampCollected
  <1>1. rows \in Whole
    <2>1. Len(backlog) \in Nat
      BY LenProperties DEF SourceInv, TypeOK, Queue!SinkType, Queue!TypeOK
    <2> QED
      BY <2>1, Log!ReachZero DEF SourceInv, Durable, Log!Sound
  <1>2. FileRowMeansWhole
    BY <1>1 DEF Whole, FileRowMeansWhole, Collected
  <1>3. saved # NoState => <<saved, rows>> \in Stamped
    BY DEF SourceInv, Durable, Log!Sound
  <1>4. SavedStampCollected
    BY <1>3 DEF Stamped, SavedStampCollected, Collected
  <1> QED
    BY <1>2, <1>4

(* A row of gdelt_files vouches for its file, through truncated batches,    *)
(* failed flushes, crashes and restarts: a file that alreadyCollected skips *)
(* is in the database whole.                                                *)
THEOREM FileRowsVouch == Spec => []FileRowMeansWhole
  BY SourceInvariant, DatabaseIsSound, PTL

(* The saved stamp is that of a file in the database. *)
THEOREM SavedStampIsSafe == Spec => []SavedStampCollected
  BY SourceInvariant, DatabaseIsSound, PTL

(* A run that reports success, was not cancelled, lost no write and         *)
(* recorded no error has collected all it selected.                         *)
THEOREM SuccessIsComplete == Spec => []CleanRunIsComplete
  <1>1. SourceInv => CleanRunIsComplete
    <2> SUFFICES ASSUME SourceInv, phase = "idle", result = "nil", ctx = "live",
                        writer = "live", skipped = {}, NEW f \in selected
                 PROVE  Collected(f)
      BY DEF CleanRunIsComplete
    <2>1. All = rows
      BY Settled DEF SourceInv, Place
    <2>2. FileRow(f) \in All
      BY DEF SourceInv, Accounted
    <2> QED
      BY <2>1, <2>2 DEF Collected
  <1> QED
    BY SourceInvariant, <1>1, PTL

-----------------------------------------------------------------------------
(* The invariant of the goroutines. *)

Elems(s) == {s[i] : i \in 1..Len(s)}
Rising(s) == \A i, j \in 1..Len(s) : i < j => Before(s[i], s[j])
AllBefore(S, T) == \A f \in S, g \in T : Before(f, g)

Held == IF held = NoFile THEN {} ELSE {held}

ChannelType ==
    /\ waiting \in Seq(File) /\ out \in Seq(File) /\ ordered \in Seq(File)
    /\ Len(out) <= Workers
    /\ feeder \in {"running", "done"} /\ relay \in {"running", "done"}
    /\ running \subseteq File /\ finished \subseteq File /\ broken \subseteq File
    /\ held \in File \cup {NoFile}

(* The files go through the channels in their order. *)
FilesInOrder ==
    /\ Rising(waiting) /\ Rising(out) /\ Rising(ordered)
    /\ AllBefore(Elems(ordered), Held \cup Elems(out) \cup Elems(waiting))
    /\ AllBefore(Held, Elems(out) \cup Elems(waiting))
    /\ AllBefore(Elems(out), Elems(waiting))

(* A download is started once, while its job is on the way to the relay,    *)
(* and finished before the relay passes the job on.                         *)
Downloads ==
    /\ running \cap finished = {}
    /\ running \subseteq Held \cup Elems(out)
    /\ Elems(ordered) \subseteq finished
    /\ AllBefore(running \cup finished, Elems(waiting))
    /\ job \in File => job \in finished
    /\ broken # {} /\ ctx = "live" => "download" \in Faults

(* The channels hold what Collect still has to do, and end only after it in *)
(* a run that goes on.                                                      *)
Feeding ==
    /\ step = "discover" => Ahead!Off
    /\ step \in {"loop", "check", "ingest", "save"} =>
          todo = Elems(ordered) \cup Held \cup Elems(out) \cup Elems(waiting)
    /\ ctx = "live" /\ feeder = "done" => waiting = <<>>
    /\ ctx = "live" /\ relay = "done" => held = NoFile /\ out = <<>> /\ feeder = "done"

AheadInv == ChannelType /\ FilesInOrder /\ Downloads /\ Feeding

-----------------------------------------------------------------------------
(* Sequences in order. *)

LEMMA NoElems == Elems(<<>>) = {} /\ Rising(<<>>)
  <1>1. 1..Len(<<>>) = {}
    BY EmptySeq
  <1> QED
    BY <1>1 DEF Elems, Rising

LEMMA AppendElems ==
  ASSUME NEW s \in Seq(File), NEW f \in File
  PROVE  /\ Append(s, f) \in Seq(File) /\ Len(Append(s, f)) = Len(s) + 1
         /\ Elems(Append(s, f)) = Elems(s) \cup {f}
         /\ Rising(s) /\ AllBefore(Elems(s), {f}) => Rising(Append(s, f))
  <1> DEFINE t == Append(s, f)
             n == Len(s)
  <1>1. /\ t \in Seq(File) /\ Len(t) = n + 1
        /\ \A i \in 1..n : t[i] = s[i]
        /\ t[n + 1] = f /\ n \in Nat
    BY AppendProperties, LenProperties
  <1> HIDE DEF t, n
  <1>2. \A i \in 1..(n + 1) : i \in 1..n \/ i = n + 1
    BY <1>1
  <1>3. Elems(t) = {s[i] : i \in 1..n} \cup {f}
    <2>1. Elems(t) \subseteq {s[i] : i \in 1..n} \cup {f}
      BY <1>1, <1>2 DEF Elems
    <2>2. {s[i] : i \in 1..n} \subseteq Elems(t)
      <3>1. \A i \in 1..n : i \in 1..Len(t) /\ t[i] = s[i]
        BY <1>1
      <3> QED
        BY <3>1 DEF Elems
    <2>3. f \in Elems(t)
      <3>1. n + 1 \in 1..Len(t)
        BY <1>1
      <3> QED
        BY <1>1, <3>1 DEF Elems
    <2> QED
      BY <2>1, <2>2, <2>3
  <1>4. ASSUME Rising(s), AllBefore(Elems(s), {f})
        PROVE  Rising(t)
    <2> SUFFICES ASSUME NEW i \in 1..(n + 1), NEW j \in 1..(n + 1), i < j
                 PROVE  Before(t[i], t[j])
      BY <1>1 DEF Rising
    <2>1. i \in 1..n
      BY <1>1
    <2>2. CASE j \in 1..n
      BY <1>1, <1>4, <2>1, <2>2 DEF Rising, n
    <2>3. CASE j = n + 1
      <3>1. s[i] \in Elems(s)
        BY <2>1 DEF Elems, n
      <3> QED
        BY <1>1, <1>4, <2>1, <2>3, <3>1 DEF AllBefore
    <2> QED
      BY <1>2, <2>2, <2>3
  <1> QED
    BY <1>1, <1>3, <1>4 DEF t, n, Elems

LEMMA TailElems ==
  ASSUME NEW s \in Seq(File), s # <<>>
  PROVE  /\ Head(s) \in File /\ Tail(s) \in Seq(File) /\ Len(Tail(s)) = Len(s) - 1
         /\ Elems(s) = {Head(s)} \cup Elems(Tail(s))
         /\ Rising(s) => Rising(Tail(s)) /\ AllBefore({Head(s)}, Elems(Tail(s)))
  <1> DEFINE t == Tail(s)
             n == Len(s)
  <1>1. /\ Head(s) \in File /\ t \in Seq(File) /\ Len(t) = n - 1
        /\ \A i \in 1..Len(t) : t[i] = s[i + 1]
    BY HeadTailProperties
  <1>2. n \in Nat /\ n # 0 /\ Head(s) = s[1]
    BY EmptySeq, LenProperties
  <1> HIDE DEF t, n
  <1>3. \A i \in 1..(n - 1) : i + 1 \in 1..n /\ t[i] = s[i + 1]
    BY <1>1, <1>2
  <1>4. \A i \in 1..n : i = 1 \/ (i - 1 \in 1..(n - 1) /\ t[i - 1] = s[i])
    BY <1>1, <1>2
  <1>5. Elems(t) = {t[i] : i \in 1..(n - 1)}
    BY <1>1 DEF Elems
  <1>6. Elems(s) = {s[i] : i \in 1..n}
    BY DEF Elems, n
  <1>7. Elems(s) = {Head(s)} \cup Elems(t)
    <2>1. Elems(t) \subseteq Elems(s)
      BY <1>3, <1>5, <1>6
    <2>2. s[1] \in Elems(s)
      BY <1>2, <1>6
    <2>3. Elems(s) \subseteq {s[1]} \cup Elems(t)
      BY <1>4, <1>5, <1>6
    <2> QED
      BY <1>2, <2>1, <2>2, <2>3
  <1>8. ASSUME Rising(s)
        PROVE  Rising(t) /\ AllBefore({Head(s)}, Elems(t))
    <2>1. \A i, j \in 1..n : i < j => Before(s[i], s[j])
      BY <1>8 DEF Rising, n
    <2>2. \A i, j \in 1..(n - 1) : i < j => Before(t[i], t[j])
      <3> TAKE i, j \in 1..(n - 1)
      <3>1. i + 1 \in 1..n /\ j + 1 \in 1..n /\ (i < j => i + 1 < j + 1)
        BY <1>2
      <3> QED
        BY <1>3, <2>1, <3>1
    <2>3. \A i \in 1..(n - 1) : Before(s[1], t[i])
      <3> TAKE i \in 1..(n - 1)
      <3>1. i + 1 \in 1..n /\ 1 \in 1..n /\ 1 < i + 1
        BY <1>2
      <3> QED
        BY <1>3, <2>1, <3>1
    <2> QED
      BY <1>1, <1>2, <1>5, <2>2, <2>3 DEF Rising, AllBefore
  <1> QED
    BY <1>1, <1>7, <1>8 DEF t, n

LEMMA SortedElems ==
  ASSUME NEW S \in SUBSET File
  PROVE  Sorted(S) \in Seq(File) /\ Elems(Sorted(S)) = S /\ Rising(Sorted(S))
  BY SortedIs DEF Elems, Rising
LEMMA SeqLengths == \A s \in Seq(File) : Len(s) \in Nat
  BY LenProperties

-----------------------------------------------------------------------------
(* The goroutines keep the invariant. *)

AheadStays == UNCHANGED <<ctx, step, todo, job>>

LEMMA OfferStep ==
  ASSUME SourceInv, AheadInv, Ahead!Offer, AheadStays
  PROVE  AheadInv'
  <1>1. /\ feeder = "running" /\ waiting # <<>> /\ Len(out) < Workers
        /\ out' = Append(out, Head(waiting))
        /\ running' = running \cup {Head(waiting)}
        /\ waiting' = Tail(waiting)
        /\ UNCHANGED <<ctx, feeder, finished, broken, relay, held, ordered>>
    BY DEF Ahead!Offer, Ahead!MayOffer
  <1>2. /\ Head(waiting) \in File /\ waiting' \in Seq(File)
        /\ Elems(waiting) = {Head(waiting)} \cup Elems(waiting')
        /\ Rising(waiting') /\ AllBefore({Head(waiting)}, Elems(waiting'))
    BY <1>1, TailElems DEF AheadInv, ChannelType, FilesInOrder
  <1>3. AllBefore(Elems(out), {Head(waiting)})
    BY <1>2 DEF AheadInv, FilesInOrder, AllBefore
  <1>4. /\ out' \in Seq(File) /\ Len(out') = Len(out) + 1
        /\ Elems(out') = Elems(out) \cup {Head(waiting)} /\ Rising(out')
    BY <1>1, <1>2, <1>3, AppendElems DEF AheadInv, ChannelType, FilesInOrder
  <1> DEFINE f == Head(waiting)
  <1> HIDE DEF f
  <1>5. ChannelType'
    BY <1>1, <1>2, <1>4, SeqLengths, PrefetchAssumption DEF AheadInv, ChannelType, f
  <1>6. FilesInOrder'
    BY <1>1, <1>2, <1>4 DEF AheadInv, FilesInOrder, AllBefore, Held
  <1>7. Downloads'
    <2>1. f \notin finished
      BY <1>2, Order DEF AheadInv, Downloads, AllBefore, f
    <2>2. AllBefore(running' \cup finished', Elems(waiting'))
      BY <1>1, <1>2 DEF AheadInv, Downloads, AllBefore
    <2>3. running' \cap finished' = {} /\ running' \subseteq Held' \cup Elems(out')
      BY <1>1, <1>4, <2>1 DEF AheadInv, Downloads, Held, f
    <2> QED
      BY <1>1, <2>2, <2>3 DEF AheadInv, Downloads, AheadStays
  <1>8. Feeding'
    <2>1. step # "discover"
      BY <1>1 DEF AheadInv, Feeding, Ahead!Off
    <2>2. Held' = Held
      BY <1>1 DEF Held
    <2>3. Elems(out') \cup Elems(waiting') = Elems(out) \cup Elems(waiting)
      BY <1>2, <1>4
    <2> QED
      BY <1>1, <2>1, <2>2, <2>3 DEF AheadInv, Feeding, AheadStays
  <1> QED
    BY <1>5, <1>6, <1>7, <1>8 DEF AheadInv

LEMMA FeederEndsStep ==
  ASSUME SourceInv, AheadInv, Ahead!FeederEnds, AheadStays
  PROVE  AheadInv'
  <1>1. /\ feeder = "running" /\ feeder' = "done" /\ (waiting = <<>> \/ ctx = "cancelled")
        /\ UNCHANGED <<ctx, waiting, out, running, finished, broken, relay, held, ordered>>
    BY DEF Ahead!FeederEnds, Ahead!FeederMayEnd, Ahead!downloadVars
  <1>2. ChannelType' /\ FilesInOrder' /\ Downloads'
    BY <1>1 DEF AheadInv, ChannelType, FilesInOrder, Downloads, Held, AheadStays
  <1>3. step # "discover"
    BY <1>1 DEF AheadInv, Feeding, Ahead!Off
  <1>4. Feeding'
    BY <1>1, <1>3 DEF AheadInv, Feeding, Held, AheadStays
  <1> QED
    BY <1>2, <1>4 DEF AheadInv

LEMMA DownloadStep ==
  ASSUME SourceInv, AheadInv, NEW f \in File, Ahead!Download(f), AheadStays
  PROVE  AheadInv'
  <1>1. /\ f \in running /\ running' = running \ {f} /\ finished' = finished \cup {f}
        /\ \/ broken' = broken
           \/ (ctx = "cancelled" \/ "download" \in Faults) /\ broken' = broken \cup {f}
        /\ UNCHANGED <<ctx, waiting, feeder, out, relay, held, ordered>>
    BY DEF Ahead!Download
  <1>2. ChannelType' /\ FilesInOrder'
    BY <1>1 DEF AheadInv, ChannelType, FilesInOrder, Held
  <1>3. Downloads'
    <2>1. running' \cup finished' = running \cup finished
      BY <1>1
    <2>2. Held' = Held
      BY <1>1 DEF Held
    <2> QED
      BY <1>1, <2>1, <2>2 DEF AheadInv, Downloads, AheadStays
  <1>4. step # "discover"
    BY <1>1 DEF AheadInv, Feeding, Ahead!Off
  <1>5. Feeding'
    BY <1>1, <1>4 DEF AheadInv, Feeding, Held, AheadStays
  <1> QED
    BY <1>2, <1>3, <1>5 DEF AheadInv

LEMMA TakeFromOutStep ==
  ASSUME SourceInv, AheadInv, Ahead!TakeFromOut, AheadStays
  PROVE  AheadInv'
  <1>1. /\ relay = "running" /\ held = NoFile /\ out # <<>>
        /\ held' = Head(out) /\ out' = Tail(out)
        /\ UNCHANGED <<ctx, waiting, feeder, running, finished, broken, relay, ordered>>
    BY DEF Ahead!TakeFromOut, Ahead!MayTake, Ahead!downloadVars
  <1>2. /\ Head(out) \in File /\ out' \in Seq(File) /\ Len(out') = Len(out) - 1
        /\ Elems(out) = {Head(out)} \cup Elems(out')
        /\ Rising(out') /\ AllBefore({Head(out)}, Elems(out'))
    BY <1>1, TailElems DEF AheadInv, ChannelType, FilesInOrder
  <1>3. Held = {} /\ Held' = {Head(out)}
    BY <1>1, <1>2, Files DEF Held
  <1>4. ChannelType'
    BY <1>1, <1>2, SeqLengths, PrefetchAssumption DEF AheadInv, ChannelType
  <1>5. FilesInOrder'
    BY <1>1, <1>2, <1>3 DEF AheadInv, FilesInOrder, AllBefore
  <1>6. Downloads'
    <2>1. Held' \cup Elems(out') = Held \cup Elems(out)
      BY <1>2, <1>3
    <2> QED
      BY <1>1, <2>1 DEF AheadInv, Downloads, AheadStays
  <1>7. step # "discover"
    BY <1>1 DEF AheadInv, Feeding, Ahead!Off
  <1>8. Feeding'
    BY <1>1, <1>2, <1>3, <1>7 DEF AheadInv, Feeding, AheadStays
  <1> QED
    BY <1>4, <1>5, <1>6, <1>8 DEF AheadInv

LEMMA PassOnStep ==
  ASSUME SourceInv, AheadInv, Ahead!PassOn, AheadStays
  PROVE  AheadInv'
  <1>1. /\ relay = "running" /\ held \in finished
        /\ ordered' = Append(ordered, held) /\ held' = NoFile
        /\ UNCHANGED <<ctx, waiting, feeder, out, running, finished, broken, relay>>
    BY DEF Ahead!PassOn, Ahead!MayPassOn, Ahead!downloadVars
  <1>2. held \in File /\ Held = {held} /\ Held' = {}
    BY <1>1, Files DEF AheadInv, ChannelType, Held
  <1>3. AllBefore(Elems(ordered), {held})
    BY <1>2 DEF AheadInv, FilesInOrder, AllBefore
  <1>4. /\ ordered' \in Seq(File) /\ Rising(ordered')
        /\ Elems(ordered') = Elems(ordered) \cup {held}
    BY <1>1, <1>2, <1>3, AppendElems DEF AheadInv, ChannelType, FilesInOrder
  <1>5. ChannelType'
    BY <1>1, <1>4 DEF AheadInv, ChannelType
  <1>6. FilesInOrder'
    BY <1>1, <1>2, <1>4 DEF AheadInv, FilesInOrder, AllBefore
  <1>7. Downloads'
    BY <1>1, <1>2, <1>4 DEF AheadInv, Downloads, AheadStays
  <1>8. step # "discover"
    BY <1>1 DEF AheadInv, Feeding, Ahead!Off
  <1>9. Feeding'
    BY <1>1, <1>2, <1>4, <1>8 DEF AheadInv, Feeding, AheadStays
  <1> QED
    BY <1>5, <1>6, <1>7, <1>9 DEF AheadInv

LEMMA RelayEndsStep ==
  ASSUME SourceInv, AheadInv, Ahead!RelayEnds, AheadStays
  PROVE  AheadInv'
  <1>1. /\ relay = "running" /\ relay' = "done"
        /\ \/ held = NoFile /\ out = <<>> /\ feeder = "done"
           \/ ctx = "cancelled"
        /\ UNCHANGED <<ctx, waiting, feeder, out, running, finished, broken, held, ordered>>
    BY DEF Ahead!RelayEnds, Ahead!RelayMayEnd, Ahead!downloadVars
  <1>2. ChannelType' /\ FilesInOrder' /\ Downloads'
    BY <1>1 DEF AheadInv, ChannelType, FilesInOrder, Downloads, Held, AheadStays
  <1>3. step # "discover"
    BY <1>1 DEF AheadInv, Feeding, Ahead!Off
  <1>4. Feeding'
    BY <1>1, <1>3 DEF AheadInv, Feeding, Held, AheadStays
  <1> QED
    BY <1>2, <1>4 DEF AheadInv

LEMMA GoroutineStep ==
  ASSUME SourceInv, AheadInv, Goroutine
  PROVE  AheadInv' /\ UNCHANGED vars
  <1>1. UNCHANGED ctx
    BY DEF Goroutine, Ahead!Goroutine, Ahead!Offer, Ahead!FeederEnds, Ahead!Download,
           Ahead!TakeFromOut, Ahead!PassOn, Ahead!RelayEnds
  <1>2. UNCHANGED vars /\ AheadStays
    BY <1>1 DEF Goroutine, vars, sinkVars, jobVars, AheadStays
  <1> QED
    BY <1>2, OfferStep, FeederEndsStep, DownloadStep, TakeFromOutStep, PassOnStep, RelayEndsStep
       DEF Goroutine, Ahead!Goroutine
-----------------------------------------------------------------------------
(* Collect's side of the channels. *)

(* A process that has just started has no goroutine, and nothing in hand.   *)
LEMMA OffStep ==
  ASSUME SourceInv, NewProcess, step' \in {"off", "discover"}, job' \notin File
  PROVE  AheadInv'
  <1>1. /\ waiting' = <<>> /\ feeder' = "done" /\ out' = <<>>
        /\ running' = {} /\ finished' = {} /\ broken' = {}
        /\ relay' = "done" /\ held' = NoFile /\ ordered' = <<>>
    BY DEF NewProcess
  <1>2. <<>> \in Seq(File) /\ Len(<<>>) = 0
    OBVIOUS
  <1>3. ChannelType'
    <2>1. 0 <= Workers
      BY PrefetchAssumption
    <2> QED
      BY <1>1, <1>2, <2>1 DEF ChannelType
  <1>4. Elems(waiting') = {} /\ Elems(out') = {} /\ Elems(ordered') = {} /\ Held' = {}
    BY <1>1, NoElems DEF Held
  <1>5. FilesInOrder'
    BY <1>1, <1>4, NoElems DEF FilesInOrder, AllBefore
  <1>6. Downloads'
    BY <1>1, <1>4 DEF Downloads, AllBefore
  <1>7. Feeding'
    BY <1>1 DEF Feeding, Ahead!Off
  <1> QED
    BY <1>3, <1>5, <1>6, <1>7 DEF AheadInv

LEMMA ListingStep ==
  ASSUME SourceInv, AheadInv, Listing
  PROVE  AheadInv' /\ Discover
  <1>1. /\ step = "discover" /\ step' = "loop" /\ todo' = selected'
        /\ UNCHANGED <<ctx, job>>
    BY DEF Listing, Discover, sinkVars
  <1>2. selected' \in SUBSET File
    BY DiscoverStep DEF Listing, SourceInv, TypeOK
  <1>3. /\ waiting = <<>> /\ feeder = "done" /\ out = <<>>
        /\ running = {} /\ finished = {} /\ broken = {}
        /\ relay = "done" /\ held = NoFile /\ ordered = <<>>
    BY <1>1 DEF AheadInv, Feeding, Ahead!Off
  <1>4. job' \notin File
    BY <1>1 DEF SourceInv, Place
  <1>5. Elems(out) = {} /\ Elems(ordered) = {} /\ Held = {}
    BY <1>3, NoElems DEF Held
  <1>6. CASE selected' = {}
    <2>1. UNCHANGED <<waiting, feeder, out, running, finished, broken, relay, held, ordered>>
      BY <1>6 DEF Listing, prefetchVars
    <2>2. ChannelType' /\ FilesInOrder' /\ Downloads'
      BY <1>1, <1>4, <2>1 DEF AheadInv, ChannelType, FilesInOrder, Downloads, Held
    <2>3. Elems(waiting') = {} /\ Elems(out') = {} /\ Elems(ordered') = {} /\ Held' = {}
      BY <1>3, <2>1, NoElems DEF Held
    <2>4. Feeding'
      BY <1>1, <1>3, <1>6, <2>1, <2>3 DEF Feeding
    <2> QED
      BY <2>2, <2>4 DEF AheadInv, Listing
  <1>7. CASE selected' # {}
    <2>1. /\ waiting' = Sorted(selected') /\ feeder' = "running" /\ relay' = "running"
          /\ UNCHANGED <<out, running, finished, broken, held, ordered>>
      BY <1>7 DEF Listing, Ahead!Begin, Ahead!downloadVars
    <2>2. waiting' \in Seq(File) /\ Elems(waiting') = selected' /\ Rising(waiting')
      BY <1>2, <2>1, SortedElems
    <2>3. Elems(out') = {} /\ Elems(ordered') = {} /\ Held' = {}
      BY <1>5, <2>1 DEF Held
    <2>4. ChannelType'
      BY <2>1, <2>2 DEF AheadInv, ChannelType
    <2>5. FilesInOrder'
      BY <2>1, <2>2, <2>3 DEF AheadInv, FilesInOrder, AllBefore
    <2>6. Downloads'
      BY <1>3, <1>4, <2>1, <2>3 DEF Downloads, AllBefore
    <2>7. Feeding'
      BY <1>1, <2>1, <2>2, <2>3 DEF Feeding
    <2> QED
      BY <2>4, <2>5, <2>6, <2>7 DEF AheadInv, Listing
  <1> QED
    BY <1>6, <1>7

(* The job that is received is the first file that is left.                 *)
LEMMA ReceiveStep ==
  ASSUME SourceInv, AheadInv, NEW f \in File, Receive(f)
  PROVE  AheadInv' /\ TakeJob
  <1>1. /\ ordered # <<>> /\ f = Head(ordered) /\ ordered' = Tail(ordered)
        /\ UNCHANGED <<waiting, feeder, out, running, finished, broken, relay, held>>
    BY DEF Receive, Ahead!Receive, Ahead!downloadVars
  <1>2. /\ step = "loop" /\ todo' = todo \ {f} /\ UNCHANGED ctx
        /\ \/ step' = "fail" /\ UNCHANGED job
           \/ step' = "loop" /\ UNCHANGED job
           \/ step' = "check" /\ job' = f
    BY DEF Receive, Take, sinkVars
  <1>3. /\ ordered' \in Seq(File)
        /\ Elems(ordered) = {f} \cup Elems(ordered')
        /\ Rising(ordered') /\ AllBefore({f}, Elems(ordered'))
    BY <1>1, TailElems DEF AheadInv, ChannelType, FilesInOrder
  <1>4. Held' = Held
    BY <1>1 DEF Held
  <1> DEFINE rest == Held \cup Elems(out) \cup Elems(waiting)
  <1>5. AllBefore({f}, rest)
    BY <1>3 DEF AheadInv, FilesInOrder, AllBefore
  <1>6. todo = {f} \cup Elems(ordered') \cup rest
    BY <1>2, <1>3 DEF AheadInv, Feeding
  <1>7. AllBefore({f}, Elems(ordered') \cup rest)
    BY <1>3, <1>5 DEF AllBefore
  <1>8. f \notin Elems(ordered') \cup rest
    BY <1>7, Order DEF AllBefore
  <1>9. ChannelType'
    BY <1>1, <1>3 DEF AheadInv, ChannelType
  <1>10. FilesInOrder'
    BY <1>1, <1>3, <1>4 DEF AheadInv, FilesInOrder, AllBefore
  <1>11. Downloads'
    BY <1>1, <1>2, <1>3, <1>4 DEF AheadInv, Downloads
  <1>12. todo' = Elems(ordered') \cup rest
    BY <1>2, <1>6, <1>8
  <1>13. Feeding'
    <2>1. todo' = Elems(ordered') \cup Held' \cup Elems(out') \cup Elems(waiting')
      BY <1>1, <1>4, <1>12
    <2> QED
      BY <1>1, <1>2, <2>1 DEF AheadInv, Feeding
  <1>14. f = First(todo)
    <2>1. todo \in SUBSET File /\ todo # {}
      BY <1>6 DEF SourceInv, TypeOK
    <2>2. First(todo) \in todo /\ \A g \in todo \ {First(todo)} : Before(First(todo), g)
      BY <2>1, FirstIs
    <2>3. SUFFICES ASSUME f # First(todo)
                   PROVE  FALSE
      OBVIOUS
    <2>4. Before(First(todo), f)
      BY <1>6, <2>2, <2>3
    <2>5. Before(f, First(todo))
      BY <1>6, <1>7, <2>2, <2>3 DEF AllBefore
    <2> QED
      BY <2>1, <2>2, <2>4, <2>5, Order
  <1>15. TakeJob
    <2>1. todo # {}
      BY <1>6
    <2>2. Take(f, f \notin broken)
      BY DEF Receive
    <2>3. CASE f \notin broken
      <3>1. Take(f, TRUE)
        BY <2>2, <2>3
      <3> QED
        BY <1>14, <2>1, <3>1 DEF TakeJob
    <2>4. CASE f \in broken /\ ctx = "live"
      <3>1. Take(f, FALSE)
        BY <2>2, <2>4
      <3>2. "download" \in Faults
        BY <2>4 DEF AheadInv, Downloads
      <3> QED
        BY <1>14, <2>1, <3>1, <3>2 DEF TakeJob
    <2>5. CASE ctx # "live"
      <3>1. Take(f, TRUE)
        BY <2>2, <2>5 DEF Take
      <3> QED
        BY <1>14, <2>1, <3>1 DEF TakeJob
    <2> QED
      BY <2>3, <2>4, <2>5
  <1> QED
    BY <1>9, <1>10, <1>11, <1>13, <1>15 DEF AheadInv

(* The loop ends early only in a cancelled run. *)
LEMMA LeavingStep ==
  ASSUME SourceInv, AheadInv, Leaving
  PROVE  AheadInv' /\ Return
  <1>1. /\ step' = "off" /\ UNCHANGED <<ctx, job>>
        /\ UNCHANGED <<waiting, feeder, out, running, finished, broken, relay, held, ordered>>
    BY DEF Leaving, Leave, Queue!CollectReturns, prefetchVars
  <1>2. ChannelType' /\ FilesInOrder' /\ Downloads'
    BY <1>1 DEF AheadInv, ChannelType, FilesInOrder, Downloads, Held
  <1>3. Feeding'
    BY <1>1 DEF AheadInv, Feeding
  <1>4. ASSUME step = "loop", ctx = "live"
        PROVE  todo = {}
    <2>1. relay = "done" /\ ordered = <<>>
      BY <1>4 DEF Leaving, Ahead!Closed
    <2>2. held = NoFile /\ out = <<>> /\ waiting = <<>>
      BY <1>4, <2>1 DEF AheadInv, Feeding
    <2> QED
      BY <1>4, <2>1, <2>2, NoElems DEF AheadInv, Feeding, Held
  <1>5. ctx \in {"live", "cancelled"}
    BY DEF SourceInv, TypeOK, Queue!SinkType
  <1>6. Return
    BY <1>4, <1>5 DEF Leaving, Return
  <1> QED
    BY <1>2, <1>3, <1>6 DEF AheadInv

LEMMA LoopingStep ==
  ASSUME SourceInv, AheadInv, Looping
  PROVE  AheadInv' /\ CollectStep
  <1>1. /\ UNCHANGED <<ctx, todo>>
        /\ UNCHANGED <<waiting, feeder, out, running, finished, broken, relay, held, ordered>>
        /\ \/ step = "discover" /\ step' = "fail" /\ UNCHANGED job
           \/ /\ step \in {"check", "ingest", "save"}
              /\ step' \in {"loop", "ingest", "save", "fail"}
              /\ job' \in {job, NoFile}
    <2>1. ASSUME NEW batch, NEW err, Queue!Emit(batch, err)
          PROVE  UNCHANGED ctx
      BY <2>1 DEF Queue!Emit
    <2>2. ASSUME NEW st, NEW err, Queue!PutState(st, err)
          PROVE  UNCHANGED ctx
      BY <2>2 DEF Queue!PutState, Queue!runVars
    <2>3. CASE DiscoverFails \/ AlreadyCollected \/ IngestBroken
      BY <2>3 DEF Looping, DiscoverFails, AlreadyCollected, IngestBroken, GiveUp, sinkVars,
                  jobVars, prefetchVars
    <2>4. CASE IngestBatch \/ IngestLast
      BY <2>1, <2>4 DEF Looping, IngestBatch, IngestLast, GiveUp, prefetchVars
    <2>5. CASE SaveState
      BY <2>2, <2>5 DEF Looping, SaveState, prefetchVars
    <2> QED
      BY <2>3, <2>4, <2>5 DEF Looping
  <1>2. Held' = Held
    BY <1>1 DEF Held
  <1>3. ChannelType' /\ FilesInOrder'
    BY <1>1, <1>2 DEF AheadInv, ChannelType, FilesInOrder
  <1>4. Downloads'
    BY <1>1, <1>2, Files DEF AheadInv, Downloads
  <1>5. Feeding'
    BY <1>1, <1>2 DEF AheadInv, Feeding
  <1> QED
    BY <1>3, <1>4, <1>5 DEF AheadInv, Looping, CollectStep

LEMMA AroundStep ==
  ASSUME SourceInv, AheadInv, Around
  PROVE  AheadInv'
  <1>1. /\ UNCHANGED <<step, todo, job>> /\ ctx' \in {ctx, "cancelled"}
        /\ UNCHANGED <<waiting, feeder, out, running, finished, broken, relay, held, ordered>>
    BY DEF Around, EndRun, Write, WriteFails, Publish, Interrupt, Queue!EndRun, Queue!Write,
           Queue!WriteFails, Queue!Interrupt, Queue!runVars, sinkVars, adapterVars, jobVars,
           prefetchVars
  <1>2. Held' = Held
    BY <1>1 DEF Held
  <1> QED
    BY <1>1, <1>2 DEF AheadInv, ChannelType, FilesInOrder, Downloads, Feeding, Ahead!Off

-----------------------------------------------------------------------------
(* The whole: every step keeps the invariant, and is one of GdeltSource or  *)
(* leaves its variables alone.                                              *)

WholeInv == SourceInv /\ AheadInv

LEMMA WholeInit == GInit => WholeInv
  <1> SUFFICES ASSUME GInit
               PROVE  WholeInv
    OBVIOUS
  <1>1. SourceInv
    BY SourceInit DEF GInit
  <1>2. /\ waiting = <<>> /\ feeder = "done" /\ out = <<>>
        /\ running = {} /\ finished = {} /\ broken = {}
        /\ relay = "done" /\ held = NoFile /\ ordered = <<>>
        /\ step = "off" /\ job = NoFile
    BY DEF GInit, Init, Ahead!Off
  <1>3. Elems(<<>>) = {} /\ Rising(<<>>) /\ Held = {}
    BY <1>2, NoElems DEF Held
  <1>4. ChannelType
    <2>1. <<>> \in Seq(File) /\ Len(<<>>) = 0 /\ 0 <= Workers
      BY PrefetchAssumption
    <2> QED
      BY <1>2, <2>1 DEF ChannelType
  <1>5. FilesInOrder
    BY <1>2, <1>3 DEF FilesInOrder, AllBefore
  <1>6. Downloads
    BY <1>2, <1>3, Files DEF Downloads, AllBefore
  <1>7. Feeding
    BY <1>2 DEF Feeding
  <1> QED
    BY <1>1, <1>4, <1>5, <1>6, <1>7 DEF WholeInv, AheadInv

LEMMA WholeStep == WholeInv /\ [GNext]_allVars => WholeInv' /\ [Next]_vars
  <1> SUFFICES ASSUME WholeInv, [GNext]_allVars
               PROVE  WholeInv' /\ [Next]_vars
    OBVIOUS
  <1> USE DEF WholeInv
  <1>1. SUFFICES AheadInv' /\ [Next]_vars
    BY SourceStep
  <1>2. CASE UNCHANGED allVars
    <2>1. AheadInv'
      BY <1>2 DEF allVars, vars, prefetchVars, sinkVars, jobVars, AheadInv, ChannelType,
                  FilesInOrder, Downloads, Feeding, Ahead!Off, Held
    <2> QED
      BY <1>2, <2>1 DEF allVars
  <1>3. ASSUME NEW resume \in BOOLEAN, Starting(resume)
        PROVE  AheadInv' /\ Next
    <2>1. StartRun(resume) /\ NewProcess
      BY <1>3 DEF Starting
    <2>2. step' = "discover" /\ job' = job /\ phase = "idle"
      BY <2>1 DEF StartRun, Queue!StartRun
    <2>3. job' \notin File
      BY <2>2 DEF SourceInv, Place
    <2> QED
      BY <2>1, <2>2, <2>3, OffStep DEF Next
  <1>4. CASE Crashing
    <2>1. Crash /\ NewProcess
      BY <1>4 DEF Crashing
    <2>2. step' = "off" /\ job' \notin File
      BY <2>1, Files DEF Crash
    <2> QED
      BY <2>1, <2>2, OffStep DEF Next
  <1>5. CASE Listing
    BY <1>5, ListingStep DEF CollectStep, Next
  <1>6. ASSUME NEW f \in File, Receive(f)
        PROVE  AheadInv' /\ Next
    BY <1>6, ReceiveStep DEF CollectStep, Next
  <1>7. CASE Leaving
    BY <1>7, LeavingStep DEF CollectStep, Next
  <1>8. CASE Looping
    BY <1>8, LoopingStep DEF Next
  <1>9. CASE Around
    BY <1>9, AroundStep DEF Around, Next
  <1>10. CASE Goroutine
    BY <1>10, GoroutineStep
  <1> QED
    BY <1>2, <1>3, <1>4, <1>5, <1>6, <1>7, <1>8, <1>9, <1>10 DEF GNext, Collecting

LEMMA WholeInvariant == GSpec => []WholeInv
  BY WholeInit, WholeStep, PTL DEF GSpec

(* With its goroutines and channels, whatever they do and wherever they     *)
(* are stopped, the adapter implements the one that takes its files in      *)
(* order by itself: all that is proved of GdeltSource holds of it.          *)
THEOREM Refinement == GSpec => ImplementsSource
  <1>1. GInit => Init
    BY DEF GInit
  <1> QED
    BY <1>1, WholeInit, WholeStep, PTL DEF GSpec, ImplementsSource, Spec

(* Collect reads a job only once its download has finished with it.         *)
THEOREM DataIsReady == GSpec => []NoEarlyRead
  <1>1. WholeInv => NoEarlyRead
    BY DEF WholeInv, AheadInv, Downloads, SourceInv, TypeOK, NoEarlyRead
  <1> QED
    BY WholeInvariant, <1>1, PTL

(* A sequence has no more elements than its length. *)
LEMMA FewElems ==
  ASSUME NEW s \in Seq(File)
  PROVE  IsFiniteSet(Elems(s)) /\ Cardinality(Elems(s)) <= Len(s)
  <1> DEFINE n == Len(s)
  <1>1. n \in Nat /\ s \in [1..n -> File]
    BY SeqLengths
  <1> HIDE DEF n
  <1>2. s \in Surjection(1..n, Elems(s))
    BY <1>1 DEF Surjection, Elems, n
  <1>3. IsFiniteSet(1..n) /\ Cardinality(1..n) = n
    BY <1>1, FS_Interval
  <1> QED
    BY <1>2, <1>3, FS_Surjection DEF n

(* However many files there are, no more than Workers + 1 downloads run.    *)
THEOREM DownloadsAreBounded == GSpec => []DownloadsBounded
  <1>1. ASSUME WholeInv
        PROVE  DownloadsBounded
    <2>1. /\ out \in Seq(File) /\ Len(out) <= Workers /\ Workers \in Nat
          /\ running \subseteq Elems(out) \cup Held
      BY <1>1, PrefetchAssumption DEF WholeInv, AheadInv, ChannelType, Downloads
    <2>2. IsFiniteSet(Elems(out)) /\ Cardinality(Elems(out)) <= Len(out) /\ Len(out) \in Nat
      BY <2>1, FewElems, SeqLengths
    <2>3. Cardinality(Elems(out)) \in Nat
      BY <2>2, FS_CardinalityType
    <2>4. IsFiniteSet(Elems(out) \cup {held})
          /\ Cardinality(Elems(out) \cup {held}) <= Cardinality(Elems(out)) + 1
      BY <2>2, <2>3, FS_AddElement
    <2>5. running \subseteq Elems(out) \cup {held}
      BY <2>1 DEF Held
    <2>6. Cardinality(running) <= Cardinality(Elems(out) \cup {held})
          /\ Cardinality(running) \in Nat
      BY <2>4, <2>5, FS_Subset, FS_CardinalityType
    <2>7. Cardinality(Elems(out) \cup {held}) \in Nat
      BY <2>4, FS_CardinalityType
    <2> QED
      BY <2>1, <2>2, <2>3, <2>4, <2>6, <2>7 DEF DownloadsBounded
  <1> QED
    BY WholeInvariant, <1>1, PTL

-----------------------------------------------------------------------------
(* Where the saved stamp is a position in the archive: a backfill of one    *)
(* dataset from its beginning, in which nothing makes the loop pass over a  *)
(* file, neither a failed download, a broken archive nor the limit.  The    *)
(* listing, a query and the writer's transactions may fail, a run may be    *)
(* capped or bounded above, interrupted or killed.                          *)

Backfill ==
    /\ Kinds <= 1 /\ MaxRecords = 0
    /\ Modes \subseteq {"backfill"} /\ \A w \in Windows : w[1] <= 1
    /\ Faults \cap {"download", "zip"} = {}

(* The records of all files up to a stamp. *)
Passed ==
    {p \in State \X SUBSET Record : \A f \in File : f[1] <= p[1] => FileRow(f) \in p[2]}

(* A saved stamp, durable or on its way, leaves no file behind. *)
Ordered == Log!Sound(SUBSET Record, Passed, NoState, rows, backlog, saved)

(* The files the run has still to hand over. *)
Left == IF step \in {"check", "ingest"} THEN todo \cup {job} ELSE todo

(* As long as the writer takes what is handed over: no file up to the stamp *)
(* is missing, and none before a file that is left, unless it is left too;  *)
(* the file in hand is before all that are to come.                         *)
Behind ==
    writer = "live" /\ step # "off" =>
        /\ <<stamp, All>> \in Passed
        /\ step \in {"loop", "check", "ingest", "save"} =>
              \A g \in Left, f \in File : f[1] < g[1] => f \in Left \/ FileRow(f) \in All
        /\ step \in {"check", "ingest"} => \A g \in todo : job[1] < g[1]

BackfillInv == SourceInv /\ Ordered /\ Behind

LEMMA PassedGrows == Log!Monotone(SUBSET Record, Passed)
  <1> SUFFICES ASSUME NEW x, NEW A, NEW B, <<x, A>> \in Passed, A \subseteq B,
                      B \in SUBSET Record
               PROVE  <<x, B>> \in Passed
    BY DEF Log!Monotone
  <1> QED
    BY DEF Passed

LEMMA AllIsRecords == ASSUME SourceInv PROVE All \in SUBSET Record /\ rows \subseteq All
  <1>1. All \in SUBSET Record
    BY AllIsWhole DEF Whole
  <1>2. backlog \in Seq(Queue!Message)
    BY DEF SourceInv, TypeOK, Queue!SinkType, Queue!TypeOK
  <1> QED
    BY <1>1, <1>2, Log!AcceptedIsMost DEF All, Log!Backlogged

(* One dataset has one file for each stamp. *)
LEMMA OneFile ==
  ASSUME Backfill
  PROVE  /\ \A f, g \in File : f[1] = g[1] => f = g
         /\ \A f, g \in File : Before(f, g) => f[1] < g[1]
  <1>1. \A f \in File : f = <<f[1], 1>> /\ f[1] \in Nat /\ f[2] = 1
    BY GdeltAssumption DEF Backfill, File, Stamp
  <1> QED
    BY <1>1 DEF Before

(* Without a limit, only a cancelled run or a dead writer refuses a batch.  *)
LEMMA Unlimited ==
  ASSUME Backfill, NEW batch, NEW err, Queue!Emit(batch, err), err # "nil"
  PROVE  ctx = "cancelled" \/ writer = "dead"
  BY DEF Backfill, Queue!Emit, Queue!Overdraws, Queue!Refused

LEMMA Handing ==
  ASSUME BackfillInv, NEW batch \in Seq(Record), NEW err, Queue!Emit(batch, err)
  PROVE  /\ Ordered'
         /\ UNCHANGED <<ctx, writer>>
         /\ All \subseteq All' /\ All' \in SUBSET Record
         /\ err = "nil" /\ writer = "live" => \A i \in 1..Len(batch) : batch[i] \in All'
  <1>1. Log!SinkType /\ Log!Emit(batch, err)
    BY Sink DEF BackfillInv, SourceInv, TypeOK
  <1>2. Log!Leaves(SUBSET Record, batch, err)
    <2> SUFFICES ASSUME NEW n \in 0..Len(batch)
                 PROVE  Log!Backlogged \cup {batch[i] : i \in 1..n} \in SUBSET Record
      BY DEF Log!Leaves
    <2>1. \A i \in 1..n : batch[i] \in Record
      BY ElementOfSeq
    <2> QED
      BY <2>1, AllIsRecords DEF All, BackfillInv
  <1>3. /\ UNCHANGED <<rows, saved, phase, ctx, writer>>
        /\ Log!Sound(SUBSET Record, Passed, NoState, rows', backlog', saved')
        /\ Log!Backlogged \subseteq Log!Backlogged'
        /\ err = "nil" /\ writer = "live" => \A i \in 1..Len(batch) : batch[i] \in Log!Backlogged'
    BY <1>1, <1>2, Constants, Log!EmitKeeps DEF Ordered, BackfillInv
  <1>4. Ordered'
    BY <1>3 DEF Ordered
  <1>5. All' \in SUBSET Record
    BY <1>4 DEF Ordered, All, Log!Backlogged, Log!Accepted, Log!Sound
  <1> QED
    BY <1>3, <1>4, <1>5 DEF All

LEMMA OrderedStays ==
  ASSUME Ordered, UNCHANGED <<backlog, rows, saved>>
  PROVE  Ordered' /\ All' = All
  BY DEF Ordered, All, Log!Backlogged

(* The steps that leave behind what was behind. *)
LEMMA BehindStays ==
  ASSUME BackfillInv, All' = All,
         step' # "off" => step' = step /\ job' = job /\ todo' = todo /\ stamp' = stamp,
         writer' = writer \/ writer' = "dead"
  PROVE  Behind'
  BY DEF BackfillInv, Behind, Left

(* The selection leaves no file out below one it keeps. *)
LEMMA SelectsInOrder ==
  ASSUME BackfillInv, Backfill, Discover
  PROVE  \A g \in selected', f \in File :
            f[1] < g[1] => f[1] <= stamp \/ f \in selected'
  <1>1. PICK mode \in Modes, w \in Windows : selected' = Selected(mode, w[1], w[2])
    BY DEF Discover
  <1>2. mode = "backfill" /\ w[1] <= 1 /\ w[1] \in Nat /\ w[2] \in Nat
    BY GdeltAssumption DEF Backfill
  <1>3. stamp \in Nat /\ published \in Nat
    BY GdeltAssumption DEF BackfillInv, SourceInv, TypeOK, State
  <1> DEFINE S == {f \in File : /\ f[1] <= published
                                /\ f[1] > stamp /\ f[1] >= w[1] /\ f[1] <= w[2]}
  <1>4. {f \in Listed(mode) : f[1] > stamp /\ f[1] >= w[1] /\ f[1] <= w[2]} = S
    BY <1>2 DEF Listed
  <1>5. selected' = Capped(S)
    BY <1>1, <1>4 DEF Selected
  <1>6. S \in SUBSET File
    OBVIOUS
  <1> SUFFICES ASSUME NEW g \in selected', NEW f \in File, f[1] < g[1], ~(f[1] <= stamp)
               PROVE  f \in selected'
    OBVIOUS
  <1>7. g \in S /\ f \in S
    <2>1. g \in S
      BY <1>5 DEF Capped
    <2>2. f[1] \in Nat /\ g[1] \in Nat /\ f[1] # 0
      BY <2>1, Files
    <2> QED
      BY <1>2, <1>3, <2>1, <2>2
  <1> HIDE DEF S
  <1>8. CASE MaxFiles = 0
    BY <1>5, <1>7, <1>8 DEF Capped
  <1>9. CASE MaxFiles # 0
    <2> DEFINE Lower(h) == {k \in S : Before(k, h)}
    <2>1. Lower(f) \subseteq Lower(g)
      <3>1. Before(f, g)
        BY DEF Before
      <3> QED
        BY <1>6, <1>7, <3>1, Order
    <2>2. Lower(f) \in SUBSET File /\ Lower(g) \in SUBSET File
      BY <1>6
    <2>3. /\ IsFiniteSet(Lower(g)) /\ Cardinality(Lower(g)) \in Nat
          /\ Cardinality(Lower(f)) \in Nat
      BY <2>2, FileSets
    <2>4. Cardinality(Lower(f)) <= Cardinality(Lower(g))
      BY <2>1, <2>3, FS_Subset
    <2>5. Cardinality(Lower(g)) < MaxFiles
      BY <1>5, <1>9 DEF Capped
    <2>6. Cardinality(Lower(f)) < MaxFiles
      BY <2>3, <2>4, <2>5, GdeltAssumption
    <2> QED
      BY <1>5, <1>7, <1>9, <2>6 DEF Capped
  <1> QED
    BY <1>8, <1>9

LEMMA BackfillStart ==
  ASSUME BackfillInv, NEW resume \in BOOLEAN, StartRun(resume)
  PROVE  Ordered' /\ Behind'
  <1>1. /\ phase = "idle" /\ UNCHANGED <<backlog, rows, saved>>
        /\ step' = "discover"
        /\ stamp' = IF resume /\ saved # NoState THEN saved ELSE 0
    BY DEF StartRun, Queue!StartRun, Queue!vars
  <1>2. Ordered' /\ All' = All
    BY <1>1, OrderedStays DEF BackfillInv
  <1>3. saved # NoState => <<saved, rows>> \in Passed
    BY DEF BackfillInv, Ordered, Log!Sound
  <1>4. All = rows /\ rows \in SUBSET Record
    BY <1>1, Settled DEF BackfillInv, SourceInv, Place, TypeOK, Queue!SinkType, Queue!TypeOK
  <1>5. <<0, rows>> \in Passed
    <2>1. 0 \in State
      BY GdeltAssumption DEF State
    <2>2. \A f \in File : ~(f[1] <= 0)
      BY Files
    <2> QED
      BY <1>4, <2>1, <2>2 DEF Passed
  <1>6. <<stamp', All'>> \in Passed
    BY <1>1, <1>2, <1>3, <1>4, <1>5
  <1> QED
    BY <1>1, <1>2, <1>6 DEF Behind

LEMMA BackfillDiscover ==
  ASSUME BackfillInv, Backfill, Discover \/ DiscoverFails
  PROVE  Ordered' /\ Behind'
  <1>1. /\ UNCHANGED sinkVars /\ UNCHANGED stamp /\ step = "discover"
        /\ \/ Discover /\ step' = "loop" /\ todo' = selected'
           \/ step' = "fail"
    BY DEF Discover, DiscoverFails
  <1>2. Ordered' /\ All' = All
    BY <1>1, OrderedStays DEF BackfillInv, sinkVars
  <1>3. writer' = "live" => <<stamp', All'>> \in Passed
    BY <1>1, <1>2 DEF BackfillInv, Behind, sinkVars
  <1>4. CASE step' = "fail"
    BY <1>2, <1>3, <1>4 DEF Behind
  <1>5. CASE Discover /\ step' = "loop" /\ todo' = selected'
    <2>1. Left' = selected'
      BY <1>5 DEF Left
    <2> SUFFICES ASSUME writer' = "live", NEW g \in selected', NEW f \in File, f[1] < g[1]
                 PROVE  f \in selected' \/ FileRow(f) \in All'
      BY <1>2, <1>3, <1>5, <2>1 DEF Behind
    <2>2. f[1] <= stamp \/ f \in selected'
      BY <1>5, SelectsInOrder
    <2> QED
      BY <1>1, <1>3, <2>2 DEF Passed
  <1> QED
    BY <1>1, <1>4, <1>5

LEMMA BackfillTake ==
  ASSUME BackfillInv, Backfill, TakeJob
  PROVE  Ordered' /\ Behind'
  <1> DEFINE f == First(todo)
  <1>1. todo \in SUBSET File /\ todo # {}
    BY DEF TakeJob, BackfillInv, SourceInv, TypeOK
  <1>2. f \in todo /\ f \in File /\ \A g \in todo \ {f} : Before(f, g) /\ g \in File
    BY <1>1, FirstIs
  <1>3. \A g \in todo \ {f} : f[1] < g[1]
    BY <1>2, OneFile
  <1>4. Take(f, TRUE)
    BY DEF TakeJob, Backfill
  <1> HIDE DEF f
  <1>5. /\ UNCHANGED sinkVars /\ UNCHANGED stamp /\ step = "loop" /\ todo' = todo \ {f}
        /\ step' = "fail" \/ (step' = "check" /\ job' = f)
    BY <1>4 DEF Take
  <1>6. Ordered' /\ All' = All
    BY <1>5, OrderedStays DEF BackfillInv, sinkVars
  <1>7. writer' = "live" => <<stamp', All'>> \in Passed
    BY <1>5, <1>6 DEF BackfillInv, Behind, sinkVars
  <1>8. CASE step' = "fail"
    BY <1>6, <1>7, <1>8 DEF Behind
  <1>9. CASE step' = "check" /\ job' = f
    <2>1. Left' = Left
      BY <1>2, <1>5, <1>9 DEF Left
    <2>2. writer = "live" =>
             \A g \in Left, h \in File : h[1] < g[1] => h \in Left \/ FileRow(h) \in All
      BY <1>5 DEF BackfillInv, Behind
    <2> QED
      BY <1>3, <1>5, <1>6, <1>7, <1>9, <2>1, <2>2 DEF Behind, sinkVars
  <1> QED
    BY <1>5, <1>8, <1>9

LEMMA BackfillCheck ==
  ASSUME BackfillInv, Backfill, AlreadyCollected
  PROVE  Ordered' /\ Behind'
  <1>1. /\ UNCHANGED sinkVars /\ UNCHANGED <<stamp, todo>> /\ step = "check"
        /\ \/ step' = "ingest" /\ job' = job
           \/ step' = "loop" /\ FileRow(job) \in rows
    BY DEF AlreadyCollected, Seen, Collected
  <1>2. Ordered' /\ All' = All
    BY <1>1, OrderedStays DEF BackfillInv, sinkVars
  <1>3. SUFFICES ASSUME writer = "live"
                 PROVE  Behind'
    BY <1>1, <1>2 DEF Behind, sinkVars
  <1>4. /\ <<stamp, All>> \in Passed
        /\ \A g \in Left, f \in File : f[1] < g[1] => f \in Left \/ FileRow(f) \in All
        /\ \A g \in todo : job[1] < g[1]
    BY <1>1, <1>3 DEF BackfillInv, Behind
  <1>5. CASE step' = "ingest" /\ job' = job
    BY <1>1, <1>2, <1>4, <1>5 DEF Behind, Left
  <1>6. CASE step' = "loop" /\ FileRow(job) \in rows
    <2>1. FileRow(job) \in All
      BY <1>6, AllIsRecords DEF BackfillInv
    <2> QED
      BY <1>1, <1>2, <1>4, <1>6, <2>1 DEF Behind, Left
  <1> QED
    BY <1>1, <1>5, <1>6

(* A file is given up only at the end of the run or behind a dead writer.   *)
LEMMA BackfillGivesUp ==
  ASSUME BackfillInv, step = "ingest", GiveUp, All \subseteq All', All' \in SUBSET Record,
         ctx = "cancelled" \/ writer = "dead",
         UNCHANGED <<ctx, writer>>
  PROVE  Behind'
  <1>1. stamp' = stamp /\ (ctx = "cancelled" => step' = "fail")
    BY DEF GiveUp
  <1>2. writer = "live" => <<stamp, All'>> \in Passed
    BY PassedGrows DEF BackfillInv, Behind, Log!Monotone
  <1>3. CASE writer = "dead"
    BY <1>3 DEF Behind
  <1>4. CASE ctx = "cancelled"
    BY <1>1, <1>2, <1>4 DEF Behind
  <1> QED
    BY <1>3, <1>4

LEMMA BackfillBatch ==
  ASSUME BackfillInv, Backfill, IngestBatch
  PROVE  Ordered' /\ Behind'
  <1> DEFINE batch == Lines(BatchCap)
  <1>1. step = "ingest" /\ at + BatchCap <= RowsPerFile /\ BatchCap \in Nat /\ SourceInv
    BY Constants DEF IngestBatch, BackfillInv
  <1>2. batch \in Seq(Record)
    BY <1>1, LinesAre
  <1>3. PICK err \in Queue!Errors :
           /\ Queue!Emit(batch, err)
           /\ IF err = "nil" THEN at' = at + BatchCap /\ UNCHANGED <<step, stamp, job, skipped>>
                             ELSE GiveUp
    BY DEF IngestBatch
  <1>4. UNCHANGED todo
    BY DEF IngestBatch
  <1> HIDE DEF batch
  <1>5. Ordered' /\ UNCHANGED <<ctx, writer>> /\ All \subseteq All' /\ All' \in SUBSET Record
    BY <1>2, <1>3, Handing
  <1>6. CASE err # "nil"
    BY <1>1, <1>3, <1>5, <1>6, Unlimited, BackfillGivesUp
  <1>7. CASE err = "nil"
    <2>1. UNCHANGED <<step, stamp, job, todo>> /\ Left' = Left
      BY <1>3, <1>4, <1>7 DEF Left
    <2>2. writer = "live" => <<stamp, All'>> \in Passed
      BY <1>1, <1>5, PassedGrows DEF BackfillInv, Behind, Log!Monotone
    <2> QED
      BY <1>1, <1>5, <2>1, <2>2 DEF BackfillInv, Behind
  <1> QED
    BY <1>6, <1>7

LEMMA BackfillLast ==
  ASSUME BackfillInv, Backfill, IngestLast
  PROVE  Ordered' /\ Behind'
  <1> DEFINE batch == LastBatch
             n == RowsPerFile - at
  <1>1. /\ step = "ingest" /\ SourceInv /\ n \in Nat /\ n + 1 \in 1..(n + 1)
        /\ job \in File /\ stamp \in State
    BY Constants DEF IngestLast, BackfillInv, SourceInv, TypeOK, Place
  <1>2. batch \in Seq(Record) /\ Len(batch) = n + 1 /\ batch[n + 1] = FileRow(job)
    BY <1>1, LastBatchIs
  <1>3. PICK err \in Queue!Errors :
           /\ Queue!Emit(batch, err)
           /\ IF err = "nil" THEN stamp' = Advance(job) /\ step' = "save" /\ UNCHANGED job
                             ELSE GiveUp
    BY DEF IngestLast
  <1>4. UNCHANGED todo
    BY DEF IngestLast
  <1> HIDE DEF batch, n
  <1>5. /\ Ordered' /\ UNCHANGED <<ctx, writer>> /\ All \subseteq All' /\ All' \in SUBSET Record
        /\ err = "nil" /\ writer = "live" => \A i \in 1..Len(batch) : batch[i] \in All'
    BY <1>2, <1>3, Handing
  <1>6. CASE err # "nil"
    BY <1>1, <1>3, <1>5, <1>6, Unlimited, BackfillGivesUp
  <1>7. CASE err = "nil"
    <2>1. stamp' = Advance(job) /\ step' = "save" /\ UNCHANGED job /\ Left' = todo
      BY <1>3, <1>4, <1>7 DEF Left
    <2> SUFFICES ASSUME writer = "live"
                 PROVE  Behind'
      BY <1>5 DEF Behind
    <2>2. /\ <<stamp, All>> \in Passed
          /\ \A g \in todo \cup {job}, f \in File :
                f[1] < g[1] => f \in todo \cup {job} \/ FileRow(f) \in All
          /\ \A g \in todo : job[1] < g[1]
      BY <1>1 DEF BackfillInv, Behind, Left
    <2>3. FileRow(job) \in All'
      BY <1>1, <1>2, <1>5, <1>7
    <2>4. todo \subseteq File /\ \A f \in File : f[1] \in Nat /\ f[1] \in State
      BY <1>1, Files DEF SourceInv, TypeOK
    <2>5. ASSUME NEW f \in File, f[1] <= job[1]
          PROVE  FileRow(f) \in All'
      <3>1. CASE f[1] = job[1]
        BY <1>1, <2>3, <3>1, OneFile
      <3>2. CASE f[1] < job[1]
        <4>1. f \notin todo \cup {job}
          BY <1>1, <2>2, <2>4, <3>2
        <4> QED
          BY <1>5, <2>2, <3>2, <4>1
      <3> QED
        BY <1>1, <2>4, <2>5, <3>1, <3>2
    <2>6. <<stamp', All'>> \in Passed
      <3>1. stamp' = job[1] \/ stamp' = stamp
        BY <2>1 DEF Advance
      <3>2. CASE stamp' = job[1]
        BY <1>1, <1>5, <2>4, <2>5, <3>2 DEF Passed
      <3>3. CASE stamp' = stamp
        BY <1>5, <2>2, <3>3, PassedGrows DEF Log!Monotone
      <3> QED
        BY <3>1, <3>2, <3>3
    <2>7. ASSUME NEW g \in todo, NEW f \in File, f[1] < g[1]
          PROVE  f \in todo \/ FileRow(f) \in All'
      BY <1>5, <2>2, <2>3, <2>7
    <2> QED
      BY <1>4, <2>1, <2>6, <2>7 DEF Behind
  <1> QED
    BY <1>6, <1>7

LEMMA BackfillSave ==
  ASSUME BackfillInv, SaveState
  PROVE  Ordered' /\ Behind'
  <1>1. PICK err \in Queue!Errors :
           /\ Queue!PutState(stamp, err)
           /\ step' = IF err = "nil" THEN "loop" ELSE "fail"
    BY DEF SaveState
  <1>2. step = "save" /\ UNCHANGED <<stamp, todo>> /\ stamp \in State
    BY DEF SaveState, BackfillInv, SourceInv, TypeOK
  <1>3. writer = "live" => <<stamp, All>> \in Passed
    BY <1>2 DEF BackfillInv, Behind
  <1>4. Log!SinkType /\ Log!PutState(stamp, err)
    BY <1>1, Sink DEF BackfillInv, SourceInv, TypeOK
  <1>5. /\ UNCHANGED <<rows, saved, phase, ctx, writer>>
        /\ Log!Sound(SUBSET Record, Passed, NoState, rows', backlog', saved')
        /\ Log!Backlogged' = Log!Backlogged
    BY <1>2, <1>3, <1>4, Constants, Log!PutStateKeeps DEF Ordered, BackfillInv, All
  <1>6. Ordered' /\ All' = All
    BY <1>5 DEF Ordered, All
  <1>7. Left' = Left
    BY <1>1, <1>2 DEF Left
  <1> QED
    BY <1>1, <1>2, <1>5, <1>6, <1>7 DEF BackfillInv, Behind

LEMMA BackfillWriter ==
  ASSUME BackfillInv, Write \/ WriteFails \/ Crash
  PROVE  Ordered' /\ Behind'
  <1>1. Log!SinkType
    BY Sink DEF BackfillInv, SourceInv, TypeOK
  <1>2. CASE Write
    <2>1. /\ UNCHANGED <<phase, ctx, writer, emitted>>
          /\ Log!Sound(SUBSET Record, Passed, NoState, rows', backlog', saved')
          /\ Log!Backlogged' = Log!Backlogged
      BY <1>1, <1>2, Sink, PassedGrows, Log!WriteKeeps DEF Write, Ordered, BackfillInv
    <2>2. UNCHANGED <<step, stamp, todo, job>>
      BY <1>2 DEF Write, adapterVars, jobVars
    <2> QED
      BY <2>1, <2>2, BehindStays DEF Ordered, All
  <1>3. CASE WriteFails \/ Crash
    <2>1. Queue!Lose /\ (writer' = "dead" \/ step' = "off")
      BY <1>3 DEF WriteFails, Crash, Queue!WriteFails, Queue!Crash
    <2>2. Log!Sound(SUBSET Record, Passed, NoState, rows', backlog', saved')
      BY <1>1, <2>1, Sink, Log!LoseKeeps DEF Ordered, BackfillInv
    <2> QED
      BY <2>1, <2>2 DEF Ordered, Behind
  <1> QED
    BY <1>2, <1>3

LEMMA BackfillAround ==
  ASSUME BackfillInv, Return \/ EndRun \/ Publish \/ Interrupt \/ UNCHANGED vars
  PROVE  Ordered' /\ Behind'
  <1>1. /\ UNCHANGED <<backlog, rows, saved, writer>>
        /\ step' = "off" \/ UNCHANGED <<step, stamp, todo, job>>
    BY DEF Return, Leave, EndRun, Publish, Interrupt, Queue!CollectReturns, Queue!EndRun,
           Queue!Interrupt, Queue!vars, sinkVars, adapterVars, jobVars, vars
  <1> QED
    BY <1>1, OrderedStays, BehindStays DEF BackfillInv

LEMMA BackfillInit == Init => BackfillInv
  <1> SUFFICES ASSUME Init
               PROVE  BackfillInv
    OBVIOUS
  <1>1. rows = {} /\ backlog = <<>> /\ saved = NoState /\ step = "off"
    BY DEF Init, Queue!SinkInit, Queue!Init
  <1>2. \A k \in 0..Len(<<>>) : Log!Reach({}, <<>>, k) = {}
    BY Log!ReachZero, EmptySeq
  <1>3. 1..Len(<<>>) = {}
    BY EmptySeq
  <1>4. Ordered
    BY <1>1, <1>2, <1>3 DEF Ordered, Log!Sound
  <1> QED
    BY <1>1, <1>4, SourceInit DEF BackfillInv, Behind

LEMMA BackfillStep ==
  ASSUME Backfill, BackfillInv, [Next]_vars
  PROVE  BackfillInv'
  <1>1. SourceInv'
    BY SourceStep DEF BackfillInv
  <1>2. SUFFICES Ordered' /\ Behind'
    BY <1>1 DEF BackfillInv
  <1>3. ~IngestBroken
    BY DEF Backfill, IngestBroken
  <1>4. ASSUME NEW resume \in BOOLEAN, StartRun(resume)
        PROVE  Ordered' /\ Behind'
    BY <1>4, BackfillStart
  <1>5. CASE CollectStep
    BY <1>3, <1>5, BackfillDiscover, BackfillTake, BackfillCheck, BackfillBatch, BackfillLast,
       BackfillSave, BackfillAround
       DEF CollectStep
  <1> QED
    BY <1>4, <1>5, BackfillWriter, BackfillAround DEF Next

(* "An interrupted backfill resumes at the right file" (configuration.md)   *)
(* wherever Backfill holds: whatever is lost, killed, capped or repeated,   *)
(* with and without --resume and with the goroutines that download ahead,   *)
(* no published file up to the saved stamp is missing from the database.    *)
THEOREM BackfillResumes ==
  ASSUME Backfill
  PROVE  GSpec => []ResumesAtTheRightFile
  <1>1. Spec => []BackfillInv
    <2>1. Init => BackfillInv
      BY BackfillInit
    <2>2. BackfillInv /\ [Next]_vars => BackfillInv'
      BY BackfillStep
    <2> QED
      BY <2>1, <2>2, PTL DEF Spec
  <1>2. BackfillInv => ResumesAtTheRightFile
    BY DEF BackfillInv, Ordered, Log!Sound, Passed, ResumesAtTheRightFile, Collected
  <1>3. GSpec => Spec
    BY Refinement DEF ImplementsSource
  <1> QED
    BY <1>1, <1>2, <1>3, PTL

-----------------------------------------------------------------------------
(* The end of the goroutines. *)

(* Whatever the relay holds or has before it is downloaded or on its way,   *)
(* and Collect returns nil in a run that goes on only after the relay.      *)
Awaited == Held \cup Elems(out) \subseteq running \cup finished
AfterRelay == result = "nil" /\ ctx = "live" => relay = "done"

EndInv == WholeInv /\ Awaited /\ AfterRelay

LEMMA GoroutineAwaited ==
  ASSUME EndInv, Goroutine
  PROVE  Awaited' /\ AfterRelay'
  <1>1. AfterRelay'
    BY DEF Goroutine, Ahead!Goroutine, Ahead!Offer, Ahead!FeederEnds, Ahead!Download,
           Ahead!TakeFromOut, Ahead!PassOn, Ahead!RelayEnds, EndInv, AfterRelay
  <1>2. ChannelType /\ FilesInOrder /\ Held \cup Elems(out) \subseteq running \cup finished
    BY DEF EndInv, WholeInv, AheadInv, Awaited
  <1>3. CASE Ahead!Offer
    <2>1. /\ waiting # <<>> /\ out' = Append(out, Head(waiting)) /\ held' = held
          /\ running' = running \cup {Head(waiting)} /\ finished' = finished
      BY <1>3 DEF Ahead!Offer, Ahead!MayOffer
    <2>2. Head(waiting) \in File /\ Head(waiting) \in Elems(waiting)
      BY <1>2, <2>1, TailElems DEF ChannelType, FilesInOrder
    <2>3. AllBefore(Elems(out), {Head(waiting)})
      BY <1>2, <2>2 DEF FilesInOrder, AllBefore
    <2>4. Elems(out') = Elems(out) \cup {Head(waiting)}
      BY <1>2, <2>1, <2>2, <2>3, AppendElems DEF ChannelType, FilesInOrder
    <2> QED
      BY <1>1, <1>2, <2>1, <2>4 DEF Awaited, Held
  <1>4. CASE Ahead!TakeFromOut
    <2>1. /\ out # <<>> /\ out' = Tail(out) /\ held' = Head(out)
          /\ running' = running /\ finished' = finished
      BY <1>4 DEF Ahead!TakeFromOut, Ahead!MayTake, Ahead!downloadVars
    <2>2. Elems(out) = {Head(out)} \cup Elems(out')
      BY <1>2, <2>1, TailElems DEF ChannelType, FilesInOrder
    <2> QED
      BY <1>1, <1>2, <2>1, <2>2 DEF Awaited, Held
  <1>5. CASE Ahead!PassOn
    BY <1>1, <1>2, <1>5 DEF Ahead!PassOn, Ahead!downloadVars, Awaited, Held
  <1>6. ASSUME NEW f \in File, Ahead!Download(f)
        PROVE  Awaited'
    <2>1. running' \cup finished' = running \cup finished /\ held' = held /\ out' = out
      BY <1>6 DEF Ahead!Download
    <2> QED
      BY <1>2, <2>1 DEF Awaited, Held
  <1>7. CASE Ahead!FeederEnds \/ Ahead!RelayEnds
    BY <1>1, <1>2, <1>7 DEF Ahead!FeederEnds, Ahead!RelayEnds, Ahead!downloadVars, Awaited, Held
  <1> QED
    BY <1>1, <1>3, <1>4, <1>5, <1>6, <1>7 DEF Goroutine, Ahead!Goroutine

LEMMA EndStep == EndInv /\ [GNext]_allVars => EndInv'
  <1> SUFFICES ASSUME EndInv, [GNext]_allVars
               PROVE  Awaited' /\ AfterRelay'
    BY WholeStep DEF EndInv
  <1>1. CASE Goroutine
    BY <1>1, GoroutineAwaited
  <1>2. ASSUME NewProcess, result' = "error"
        PROVE  Awaited' /\ AfterRelay'
    <2>1. Held' = {} /\ Elems(out') = {}
      BY <1>2, NoElems DEF NewProcess, Held
    <2> QED
      BY <1>2, <2>1 DEF Awaited, AfterRelay
  <1>3. ASSUME UNCHANGED <<held, out, running, finished>>
        PROVE  Awaited'
    BY <1>3 DEF EndInv, Awaited, Held
  <1>4. CASE Listing
    <2>1. UNCHANGED <<held, out, running, finished>>
      BY <1>4 DEF Listing, prefetchVars, Ahead!Begin, Ahead!downloadVars
    <2>2. result' = result /\ step = "discover"
      BY <1>4 DEF Listing, Discover
    <2>3. result # "nil"
      BY <2>2 DEF EndInv, WholeInv, SourceInv, Place
    <2> QED
      BY <1>3, <2>1, <2>2, <2>3 DEF AfterRelay
  <1>5. ASSUME NEW f \in File, Receive(f)
        PROVE  Awaited' /\ AfterRelay'
    <2>1. UNCHANGED <<held, out, running, finished, relay, result, ctx>>
      BY <1>5 DEF Receive, Ahead!Receive, Ahead!downloadVars, Take, sinkVars
    <2> QED
      BY <1>3, <2>1 DEF EndInv, AfterRelay
  <1>6. CASE Leaving
    <2>1. UNCHANGED prefetchVars /\ (result' = "nil" => relay = "done")
      BY <1>6 DEF Leaving, Leave, Ahead!Closed
    <2> QED
      BY <1>3, <2>1 DEF prefetchVars, AfterRelay
  <1>7. CASE Looping \/ Around \/ UNCHANGED allVars
    <2>1. UNCHANGED prefetchVars /\ result' = result /\ (ctx' = ctx \/ ctx' = "cancelled")
      BY <1>7
         DEF Looping, DiscoverFails, AlreadyCollected, IngestBatch, IngestLast, IngestBroken,
             SaveState, Queue!Emit, Queue!PutState, Queue!runVars, Around, EndRun, Write,
             WriteFails, Publish, Interrupt, Queue!EndRun, Queue!Write, Queue!WriteFails,
             Queue!Interrupt, adapterVars, sinkVars, allVars, vars
    <2> QED
      BY <1>3, <2>1 DEF prefetchVars, EndInv, AfterRelay
  <1>8. ASSUME NEW resume \in BOOLEAN, Starting(resume)
        PROVE  Awaited' /\ AfterRelay'
    BY <1>2, <1>8 DEF Starting, StartRun
  <1>9. CASE Crashing
    BY <1>2, <1>9 DEF Crashing, Crash
  <1> QED
    BY <1>1, <1>4, <1>5, <1>6, <1>7, <1>8, <1>9 DEF GNext, Collecting

(* Once Collect has left a cancelled run or has returned nil, the feeder,   *)
(* the relay and the downloads never wait for each other or for Collect:    *)
(* one of them can go on until all have ended, for every number of workers  *)
(* and files and wherever the run was cancelled.                            *)
THEOREM NobodyIsLeftBehind == GSpec => []NoneLeftBehind
  <1>1. GInit => EndInv
    <2> SUFFICES ASSUME GInit
                 PROVE  Awaited /\ AfterRelay
      BY WholeInit DEF EndInv
    <2>1. Held = {} /\ Elems(out) = {} /\ result = "error"
      BY NoElems DEF GInit, Init, Ahead!Off, Held
    <2> QED
      BY <2>1 DEF Awaited, AfterRelay
  <1>2. GSpec => []EndInv
    BY <1>1, EndStep, PTL DEF GSpec
  <1>3. ASSUME EndInv
        PROVE  NoneLeftBehind
    <2> SUFFICES ASSUME ctx = "cancelled" \/ result = "nil", ~Ahead!Awake
                 PROVE  Ahead!Ended
      BY DEF NoneLeftBehind
    <2>1. running = {} /\ ~Ahead!FeederMayEnd /\ ~Ahead!MayTake /\ ~Ahead!RelayMayEnd
      BY DEF Ahead!Awake
    <2>2. /\ ctx \in {"live", "cancelled"} /\ feeder \in {"running", "done"}
          /\ relay \in {"running", "done"} /\ held \in File \cup {NoFile}
      BY <1>3 DEF EndInv, WholeInv, SourceInv, TypeOK, Queue!SinkType, AheadInv, ChannelType
    <2>3. CASE ctx = "live"
      <3>1. relay = "done"
        BY <1>3, <2>3 DEF EndInv, AfterRelay
      <3>2. feeder = "done"
        BY <1>3, <2>3, <3>1 DEF EndInv, WholeInv, AheadInv, Feeding
      <3> QED
        BY <2>1, <3>1, <3>2 DEF Ahead!Ended
    <2>4. CASE ctx = "cancelled"
      <3>1. feeder = "done"
        BY <2>1, <2>2, <2>4 DEF Ahead!FeederMayEnd
      <3>2. held # NoFile => held \in finished
        BY <1>3, <2>1 DEF EndInv, Awaited, Held
      <3>3. relay = "done"
        BY <2>1, <2>2, <2>4, <3>1, <3>2 DEF Ahead!MayTake, Ahead!RelayMayEnd
      <3> QED
        BY <2>1, <3>1, <3>3 DEF Ahead!Ended
    <2> QED
      BY <2>2, <2>3, <2>4
  <1> QED
    BY <1>2, <1>3, PTL
=============================================================================
