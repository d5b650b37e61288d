------------------------------ MODULE GdeltSource ------------------------------
(***************************************************************************)
(* The GDELT adapter, src/internal/source/gdelt/gdelt.go, over repeated    *)
(* runs.  A run lists the published files, keeps those of the wanted       *)
(* datasets that are newer than the saved stamp, and ingests them in       *)
(* order: the rows of a file in batches, its row of gdelt_files with the   *)
(* last one, then the state.  A file that fails is recorded and skipped.   *)
(*                                                                         *)
(* A file is a pair of a stamp and a dataset; datasets are numbered in     *)
(* alphabetical order.  Its rows are numbered, and row 0 is its row of     *)
(* gdelt_files.  Here the next file is the first that is left; Gdelt.tla   *)
(* adds the goroutines that download it and shows that they make it so.    *)
(***************************************************************************)
EXTENDS Naturals, Sequences, FiniteSets

CONSTANTS
    MaxStamp,     \* bound: stamps the server publishes
    Kinds,        \* number of wanted datasets
    RowsPerFile,  \* rows of a file
    BatchCap,     \* rows per Emit (512)
    Modes,        \* modes the runs may be started with
    MaxFiles,     \* max_files, 0 for no cap
    Windows,      \* pairs <<since, until>> the runs may be started with
    MaxRecords, Faults, NoState,
    MaxStops      \* bound: interrupts and crashes

ASSUME GdeltAssumption ==
    /\ MaxStamp \in Nat /\ Kinds \in Nat /\ RowsPerFile \in Nat
    /\ BatchCap \in Nat \ {0} /\ MaxFiles \in Nat /\ MaxRecords \in Nat
    /\ Modes \subseteq {"latest", "backfill"} /\ Windows \subseteq Nat \X Nat /\ MaxStops \in Nat
    /\ NoState \notin Nat

VARIABLES
    backlog, rows, saved, phase, ctx, writer, emitted,  \* of Sink
    published,  \* newest stamp on the server
    stops,      \* interrupts and crashes so far
    step,       \* where Collect is
    stamp,      \* st.LastStamp
    todo,       \* selected files not yet taken from prefetch
    job, at,    \* the file in hand, and how many of its rows were emitted
    selected,   \* files this run selected
    skipped,    \* files this run gave up
    result      \* "nil" or "error", what Collect returned

sinkVars == <<backlog, rows, saved, phase, ctx, writer, emitted>>
jobVars == <<todo, job, at, selected, skipped>>
vars == <<sinkVars, published, stops, step, stamp, jobVars, result>>

Stamp == 1..MaxStamp
File == Stamp \X (1..Kinds)
NoFile == <<0, 0>>
Record == File \X (0..RowsPerFile)
State == 0..MaxStamp

Queue == INSTANCE Sink

FileRow(f) == <<f, 0>>
Collected(f) == FileRow(f) \in rows

Init ==
    /\ Queue!SinkInit
    /\ published = 0 /\ stops = 0
    /\ step = "off" /\ stamp = 0
    /\ todo = {} /\ job = NoFile /\ at = 0
    /\ selected = {} /\ skipped = {} /\ result = "error"

-----------------------------------------------------------------------------
(* Start: LoadState and discover. *)

StartRun(resume) ==
    /\ Queue!StartRun
    /\ step' = "discover"
    /\ stamp' = IF resume /\ saved # NoState THEN saved ELSE 0
    /\ skipped' = {} /\ selected' = {} /\ result' = "error"
    /\ UNCHANGED <<published, stops, todo, job, at>>

(* lastupdate.txt lists the newest stamp, masterfilelist.txt all of them.   *)
Listed(mode) ==
    {f \in File : IF mode = "backfill" THEN f[1] <= published ELSE f[1] = published}

Before(f, g) == f[1] < g[1] \/ (f[1] = g[1] /\ f[2] < g[2])

(* max_files keeps the first files.  Faulty variant: it keeps the newest.   *)
CappedNewest(S) ==
    IF MaxFiles = 0 THEN S
    ELSE {f \in S : Cardinality({g \in S : Before(f, g)}) < MaxFiles}
Capped(S) ==
    IF MaxFiles = 0 THEN S
    ELSE {f \in S : Cardinality({g \in S : Before(g, f)}) < MaxFiles}

Selected(mode, since, until) ==
    Capped({f \in Listed(mode) : f[1] > stamp /\ f[1] >= since /\ f[1] <= until})

Discover ==
    /\ step = "discover"
    /\ \E mode \in Modes, w \in Windows : selected' = Selected(mode, w[1], w[2])
    /\ todo' = selected'
    /\ step' = "loop"
    /\ UNCHANGED <<sinkVars, published, stops, stamp, job, at, skipped, result>>

DiscoverFails ==
    /\ step = "discover"
    /\ ctx = "cancelled" \/ "list" \in Faults
    /\ step' = "fail"
    /\ UNCHANGED <<sinkVars, published, stops, stamp, jobVars, result>>

-----------------------------------------------------------------------------
(* The loop of Collect over the prefetched files. *)

First(S) == CHOOSE f \in S : \A g \in S \ {f} : Before(f, g)

(* A file is received, with its data or with an error.  A cancelled run     *)
(* leaves the loop; a failed download is recorded, and the loop goes on.    *)
Take(f, ok) ==
    /\ step = "loop"
    /\ todo' = todo \ {f}
    /\ \/ /\ ctx = "cancelled"
          /\ step' = "fail"
          /\ UNCHANGED <<job, skipped>>
       \/ /\ ctx = "live" /\ ~ok
          /\ skipped' = skipped \cup {f}
          /\ UNCHANGED <<step, job>>
       \/ /\ ctx = "live" /\ ok
          /\ job' = f
          /\ step' = "check"
          /\ UNCHANGED skipped
    /\ UNCHANGED <<sinkVars, published, stops, stamp, at, selected, result>>

TakeJob ==
    /\ todo # {}
    /\ \E ok \in BOOLEAN : (ok \/ "download" \in Faults) /\ Take(First(todo), ok)

(* alreadyCollected.  Faulty variant: any file of the stamp counts.         *)
SeenStamp(f) == \E k \in 1..Kinds : Collected(<<f[1], k>>)
Seen(f) == Collected(f)

(* A query that fails counts as not seen. *)
AlreadyCollected ==
    /\ step = "check"
    /\ \/ /\ Seen(job)
          /\ step' = "loop" /\ job' = NoFile
          /\ UNCHANGED at
       \/ /\ ~Seen(job) \/ ctx = "cancelled" \/ "query" \in Faults
          /\ step' = "ingest" /\ at' = 0
          /\ UNCHANGED job
    /\ UNCHANGED <<sinkVars, published, stops, stamp, todo, selected, skipped, result>>

(* ingest returned an error: the file is given up, or the run is. *)
GiveUp ==
    /\ skipped' = skipped \cup {job}
    /\ job' = NoFile
    /\ step' = IF ctx = "cancelled" THEN "fail" ELSE "loop"
    /\ UNCHANGED <<stamp, at>>

Lines(n) == [i \in 1..n |-> <<job, at + i>>]

IngestBatch ==
    /\ step = "ingest" /\ at + BatchCap <= RowsPerFile
    /\ \E err \in Queue!Errors :
          /\ Queue!Emit(Lines(BatchCap), err)
          /\ IF err = "nil" THEN at' = at + BatchCap /\ UNCHANGED <<step, stamp, job, skipped>>
                            ELSE GiveUp
    /\ UNCHANGED <<published, stops, todo, selected, result>>

(* The rows of the last batch, the file's own row after them.  Faulty       *)
(* variant: the file's row comes first.                                     *)
LastBatchRowFirst == <<FileRow(job)>> \o Lines(RowsPerFile - at)
LastBatch == Lines(RowsPerFile - at) \o <<FileRow(job)>>

(* What LastStamp becomes once a file is ingested.  Faulty variant: the     *)
(* newest stamp of the selection.                                           *)
AdvanceToLast(f) == CHOOSE s \in {g[1] : g \in selected} : \A g \in selected : g[1] <= s
Advance(f) == IF f[1] > stamp THEN f[1] ELSE stamp

IngestLast ==
    /\ step = "ingest" /\ at + BatchCap > RowsPerFile
    /\ \E err \in Queue!Errors :
          /\ Queue!Emit(LastBatch, err)
          /\ IF err = "nil" THEN /\ stamp' = Advance(job)
                                 /\ step' = "save"
                                 /\ UNCHANGED <<job, at, skipped>>
                            ELSE GiveUp
    /\ UNCHANGED <<published, stops, todo, selected, result>>

(* The zip file or one of its entries cannot be read to the end. *)
IngestBroken ==
    /\ step = "ingest" /\ "zip" \in Faults
    /\ GiveUp
    /\ UNCHANGED <<sinkVars, published, stops, todo, selected, result>>

SaveState ==
    /\ step = "save"
    /\ job' = NoFile
    /\ \E err \in Queue!Errors :
          /\ Queue!PutState(stamp, err)
          /\ step' = IF err = "nil" THEN "loop" ELSE "fail"
    /\ UNCHANGED <<published, stops, stamp, todo, at, selected, skipped, result>>

(* Collect returns: with an error, or at the end of the channel of          *)
(* prefetch, which comes after the last file or, once cancelled, earlier.   *)
Leave ==
    /\ \/ step = "fail" /\ result' = "error"
       \/ step = "loop" /\ result' = "nil"
    /\ Queue!CollectReturns
    /\ step' = "off" /\ todo' = {}
    /\ UNCHANGED <<published, stops, stamp, job, at, selected, skipped>>

Return ==
    /\ step = "loop" => todo = {} \/ ctx = "cancelled"
    /\ Leave

-----------------------------------------------------------------------------
(* The run around it, and the environment. *)

Publish ==
    /\ published < MaxStamp
    /\ published' = published + 1
    /\ UNCHANGED <<sinkVars, stops, step, stamp, jobVars, result>>

adapterVars == <<published, step, stamp, jobVars, result>>

EndRun == Queue!EndRun /\ UNCHANGED <<stops, adapterVars>>
Write == Queue!Write /\ UNCHANGED <<stops, adapterVars>>
WriteFails == Queue!WriteFails /\ UNCHANGED <<stops, adapterVars>>

Interrupt ==
    /\ stops < MaxStops
    /\ Queue!Interrupt
    /\ stops' = stops + 1
    /\ UNCHANGED adapterVars

Crash ==
    /\ stops < MaxStops
    /\ Queue!Crash
    /\ stops' = stops + 1
    /\ step' = "off" /\ todo' = {} /\ job' = NoFile /\ result' = "error"
    /\ UNCHANGED <<published, stamp, at, selected, skipped>>

CollectStep ==
    \/ Discover \/ DiscoverFails \/ TakeJob \/ AlreadyCollected
    \/ IngestBatch \/ IngestLast \/ IngestBroken \/ SaveState \/ Return

Next ==
    \/ \E resume \in BOOLEAN : StartRun(resume)
    \/ CollectStep \/ EndRun \/ Write \/ WriteFails
    \/ Publish \/ Interrupt \/ Crash

Spec == Init /\ [][Next]_vars

-----------------------------------------------------------------------------
(* Every variable holds a value of its type. *)
TypeOK ==
    /\ Queue!SinkType
    /\ published \in 0..MaxStamp /\ stops \in 0..MaxStops
    /\ step \in {"off", "discover", "loop", "check", "ingest", "save", "fail"}
    /\ stamp \in State
    /\ todo \subseteq File /\ selected \subseteq File /\ skipped \subseteq File
    /\ job \in File \cup {NoFile} /\ at \in 0..RowsPerFile
    /\ result \in {"nil", "error"}

(* A row of gdelt_files vouches for its file: alreadyCollected never skips  *)
(* a file of which a row is missing, whatever the limit cut off, whichever  *)
(* batch was lost and wherever the process died.                            *)
FileRowMeansWhole == \A f \in File : Collected(f) => {f} \X (0..RowsPerFile) \subseteq rows

(* The saved stamp is always that of a file that is in the database whole:  *)
(* a failed or truncated file does not move the state.                      *)
SavedStampCollected ==
    saved # NoState => \E f \in File : f[1] = saved /\ Collected(f)

(* A run whose Collect returned nil, that was not cancelled, lost no write  *)
(* and recorded no error has every file it selected.                        *)
CleanRunIsComplete ==
    phase = "idle" /\ result = "nil" /\ ctx = "live" /\ writer = "live" /\ skipped = {}
        => \A f \in selected : Collected(f)

(* "state advances one file at a time, so an interrupted backfill resumes   *)
(* at the right file" (docs/configuration.md:78): no published file is at   *)
(* or before the saved stamp without being collected, since no later run    *)
(* selects it.                                                              *)
ResumesAtTheRightFile ==
    saved # NoState => \A f \in File : f[1] <= saved => Collected(f)
=============================================================================
