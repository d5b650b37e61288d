------------------------------ MODULE GithubSource ------------------------------
(***************************************************************************)
(* The GitHub adapter, src/internal/source/github/github.go, over repeated *)
(* runs.  A run works through its datasets in order, and all of them share *)
(* one state: `repositories` pages through the public repositories from    *)
(* the last known id on, `events` reads the pages of the event stream      *)
(* unless the first one is unchanged, and `repo_details` asks for          *)
(* snapshots of the next repositories, in chunks, by a pool of workers.  A *)
(* dataset that fails is recorded, and the next one goes on with whatever  *)
(* the failed one has left in the state.                                   *)
(*                                                                         *)
(* Records: <<"repo", id>>, <<"event", version, page>> for the events of   *)
(* one page, and <<"snapshot", id>>.  Snapshots do not grow old: the runs  *)
(* follow each other within refresh_after, or it is 0.                     *)
(***************************************************************************)
EXTENDS Naturals, Sequences, FiniteSets

CONSTANTS
    Datasets,     \* the configured datasets, in order
    LastRepo,     \* bound: repositories, numbered by id
    PageSize,     \* repositories per page (100)
    MaxPages,     \* max_pages, 0 for all
    MaxUpdates,   \* bound: versions of the event stream
    Exposed,      \* pages of events the server has
    EventPages,   \* event_pages
    Refresh,      \* refresh_after > 0
    DetailBatch,  \* detail_batch
    PerQuery,     \* repositories per query (100)
    Workers,      \* goroutines of repo_details
    Gone,         \* repositories that the queries no longer know
    MaxRecords, Faults, NoState,
    MaxStops      \* bound: interrupts, crashes, failures and --resume=false

ASSUME GithubAssumption ==
    /\ Datasets \in Seq({"repositories", "events", "repo_details"})
    /\ LastRepo \in Nat /\ PageSize \in Nat \ {0} /\ MaxPages \in Nat
    /\ MaxUpdates \in Nat /\ Exposed \in Nat \ {0} /\ EventPages \in Nat
    /\ Refresh \in BOOLEAN /\ DetailBatch \in Nat \ {0} /\ PerQuery \in Nat \ {0}
    /\ Workers # {} /\ Gone \subseteq Nat /\ MaxRecords \in Nat /\ MaxStops \in Nat
    /\ NoState \notin [since : Nat, etag : Nat, details : Nat]

VARIABLES
    backlog, rows, saved, phase, ctx, writer, emitted,  \* of Sink
    newest,    \* newest repository on the server
    version,   \* version of the event stream
    stops,     \* what went wrong so far: interrupts, crashes, failures
    step,      \* where Collect is
    ds,        \* position in Datasets
    page,      \* page of the dataset
    batch,     \* records to emit
    st,        \* c.st
    targets,   \* repositories to ask for
    next,      \* chunks a worker has taken
    pool,      \* each worker: its chunk, 0 between two, or Done
    answered, failed,  \* chunks
    chunk      \* the chunk whose records are emitted

sinkVars == <<backlog, rows, saved, phase, ctx, writer, emitted>>
serverVars == <<newest, version>>
pageVars == <<ds, page, batch>>
poolVars == <<targets, next, pool, answered, failed, chunk>>
vars == <<sinkVars, serverVars, stops, step, pageVars, st, poolVars>>

Repo == 1..LastRepo
Version == 1..(MaxUpdates + 1)
Record == ({"repo", "snapshot"} \X Repo) \cup ({"event"} \X Version \X (1..Exposed))
State == [since : 0..LastRepo, etag : {0} \cup Version, details : 0..LastRepo]
Fresh == [since |-> 0, etag |-> 0, details |-> 0]

Queue == INSTANCE Sink

(* S in ascending order. *)
InOrder(S) ==
    CHOOSE s \in [1..Cardinality(S) -> S] :
        \A i, j \in 1..Cardinality(S) : i < j => s[i] < s[j]

Done == LastRepo + 1
NoPool == [w \in Workers |-> Done]

Init ==
    /\ Queue!SinkInit
    /\ newest = 0 /\ version = 1 /\ stops = 0
    /\ step = "off" /\ ds = 1 /\ page = 0 /\ batch = <<>> /\ st = Fresh
    /\ targets = {} /\ next = 0 /\ pool = NoPool
    /\ answered = {} /\ failed = {} /\ chunk = 0

(* Something goes wrong. *)
Trouble == stops < MaxStops /\ stops' = stops + 1
Fault(kind) == kind \in Faults /\ Trouble

(* A request ends with an error. *)
RequestFails(kind) == (ctx = "cancelled" /\ UNCHANGED stops) \/ Fault(kind)

-----------------------------------------------------------------------------
(* Collect: the datasets one after the other. *)

StartRun(resume) ==
    /\ Queue!StartRun
    /\ IF resume THEN UNCHANGED stops ELSE Trouble
    /\ step' = "dataset" /\ ds' = 1
    /\ st' = IF resume /\ saved # NoState THEN saved ELSE Fresh
    /\ UNCHANGED <<serverVars, page, batch, poolVars>>

NextDataset ==
    /\ step = "dataset" /\ ds <= Len(Datasets) /\ ctx = "live"
    /\ step' = Datasets[ds]
    /\ page' = 0
    /\ UNCHANGED <<sinkVars, serverVars, stops, ds, batch, st, poolVars>>

NoMoreDatasets ==
    /\ step = "dataset" /\ (ds > Len(Datasets) \/ ctx = "cancelled")
    /\ step' = "return"
    /\ UNCHANGED <<sinkVars, serverVars, stops, pageVars, st, poolVars>>

(* A dataset returned err.  Only the limit and a cancellation end the run.  *)
(* Faulty variant: the limit is an error like any other.                    *)
EndsRunCancelled(err) == err # "nil" /\ ctx = "cancelled"
EndsRun(err) == err = "ErrLimit" \/ (err # "nil" /\ ctx = "cancelled")
Leave(err) ==
    /\ step' = IF EndsRun(err) THEN "return" ELSE "dataset"
    /\ ds' = IF EndsRun(err) THEN ds ELSE ds + 1

(* Emit and SaveState in a dataset: go on at `after`, or leave with err.    *)
Goes(err, after) ==
    IF err = "nil" THEN step' = after /\ UNCHANGED ds ELSE Leave(err)

(* respectRateLimit may wait for the quota, or find the wait too long.      *)
Paused(after) ==
    \/ step' = after /\ UNCHANGED <<ds, stops>>
    \/ Leave("error") /\ RequestFails("quota")

-----------------------------------------------------------------------------
(* repositories *)

MoreRepositories == MaxPages = 0 \/ page < MaxPages
Listed == {i \in 1..newest : i > st.since /\ i <= st.since + PageSize}

(* The next page.  The cursor in memory moves before the page is emitted.   *)
GetRepositories ==
    /\ step = "repositories" /\ MoreRepositories /\ ctx = "live" /\ Listed # {}
    /\ batch' = [i \in 1..Cardinality(Listed) |-> <<"repo", st.since + i>>]
    /\ st' = [st EXCEPT !.since = @ + Cardinality(Listed)]
    /\ step' = "emit_repositories"
    /\ UNCHANGED <<sinkVars, serverVars, stops, ds, page, poolVars>>

(* The next page is empty, or the run has read enough pages.                *)
RepositoriesEnd ==
    /\ step = "repositories"
    /\ (ctx = "live" /\ Listed = {}) \/ ~MoreRepositories
    /\ Leave("nil")
    /\ UNCHANGED <<sinkVars, serverVars, stops, page, batch, st, poolVars>>

EmitPage ==
    /\ step \in {"emit_repositories", "emit_events"}
    /\ \E err \in Queue!Errors :
          /\ Queue!Emit(batch, err)
          /\ Goes(err, IF step = "emit_events" THEN "save_events" ELSE "save_repositories")
    /\ batch' = <<>>
    /\ UNCHANGED <<serverVars, stops, page, st, poolVars>>

SavePage ==
    /\ step \in {"save_repositories", "save_events"}
    /\ \E err \in Queue!Errors :
          /\ Queue!PutState(st, err)
          /\ Goes(err, IF step = "save_events" THEN "rest_events" ELSE "rest_repositories")
    /\ UNCHANGED <<serverVars, stops, page, batch, st, poolVars>>

(* The response may have no link to a next page. *)
RestRepositories ==
    /\ step = "rest_repositories"
    /\ page' = IF MaxPages = 0 THEN 0 ELSE page + 1
    /\ Paused("repositories") \/ (Leave("nil") /\ UNCHANGED stops)
    /\ UNCHANGED <<sinkVars, serverVars, batch, st, poolVars>>

-----------------------------------------------------------------------------
(* events *)

NotModified ==
    /\ step = "events" /\ ctx = "live" /\ page = 0 /\ EventPages > 0
    /\ st.etag = version
    /\ Leave("nil")
    /\ UNCHANGED <<sinkVars, serverVars, stops, page, batch, st, poolVars>>

(* Page 1 is asked for with the saved ETag, and brings the new one.         *)
GetEvents ==
    /\ step = "events" /\ ctx = "live" /\ page < EventPages /\ page < Exposed
    /\ page = 0 => st.etag # version
    /\ page' = page + 1
    /\ batch' = <<<<"event", version, page'>>>>
    /\ st' = IF page' = 1 THEN [st EXCEPT !.etag = version] ELSE st
    /\ step' = "emit_events"
    /\ UNCHANGED <<sinkVars, serverVars, stops, ds, poolVars>>

(* All pages are read, or the next one is empty. *)
EventsEnd ==
    /\ step = "events"
    /\ page < EventPages => ctx = "live" /\ page = Exposed
    /\ Leave("nil")
    /\ UNCHANGED <<sinkVars, serverVars, stops, page, batch, st, poolVars>>

RestEvents ==
    /\ step = "rest_events"
    /\ Paused("events")
    /\ UNCHANGED <<sinkVars, serverVars, page, batch, st, poolVars>>

-----------------------------------------------------------------------------
(* repo_details: the query and the pool. *)

Snapshot(i) == <<"snapshot", i>>

(* detailTargets, from what the database has at this moment.  Faulty        *)
(* variant: one repository after the cursor is left out.                    *)
BehindLate(i) == i > st.details + 1
Behind(i) == i > st.details
Wanted ==
    {i \in Repo : /\ Behind(i) /\ <<"repo", i>> \in rows
                  /\ Refresh => Snapshot(i) \notin rows}
Targets == {i \in Wanted : Cardinality({j \in Wanted : j < i}) < DetailBatch}

Query ==
    /\ step = "repo_details" /\ Targets # {}
    /\ targets' = Targets
    /\ next' = 0 /\ pool' = [w \in Workers |-> 0]
    /\ answered' = {} /\ failed' = {} /\ chunk' = 1
    /\ step' = "ask"
    /\ UNCHANGED <<sinkVars, serverVars, stops, pageVars, st>>

(* The sweep is over and starts again from the first repository.            *)
Wrap ==
    /\ step = "repo_details" /\ Targets = {}
    /\ st' = [st EXCEPT !.details = 0]
    /\ \E err \in Queue!Errors : Queue!PutState(st', err) /\ Leave(err)
    /\ UNCHANGED <<serverVars, stops, page, batch, poolVars>>

(* chunkTargets: the targets in order, PerQuery at a time. *)
ChunkOf(t) == (Cardinality({u \in targets : u < t}) \div PerQuery) + 1
Chunks == {ChunkOf(t) : t \in targets}
Members(i) == {t \in targets : ChunkOf(t) = i}

(* A chunk is left. *)
IsLeft == next + 1 \in Chunks

Take(w) ==
    /\ step = "ask" /\ pool[w] = 0
    /\ IF IsLeft /\ ctx = "live"
       THEN next' = next + 1 /\ pool' = [pool EXCEPT ![w] = next']
       ELSE pool' = [pool EXCEPT ![w] = Done] /\ UNCHANGED next
    /\ UNCHANGED <<sinkVars, serverVars, stops, step, pageVars, st, targets,
                   answered, failed, chunk>>

Answered(w) ==
    /\ step = "ask" /\ pool[w] \in Chunks
    /\ answered' = answered \cup {pool[w]}
    /\ pool' = [pool EXCEPT ![w] = 0]
    /\ UNCHANGED <<sinkVars, serverVars, stops, step, pageVars, st, targets,
                   next, failed, chunk>>

(* A worker whose query fails leaves: chunks may stay without an answer     *)
(* and without an error.                                                    *)
QueryFails(w) ==
    /\ step = "ask" /\ pool[w] \in Chunks
    /\ RequestFails("query")
    /\ failed' = failed \cup {pool[w]}
    /\ pool' = [pool EXCEPT ![w] = Done]
    /\ UNCHANGED <<sinkVars, serverVars, step, pageVars, st, targets,
                   next, answered, chunk>>

-----------------------------------------------------------------------------
(* repo_details, after wg.Wait. *)

Wait ==
    /\ step = "ask" /\ pool = NoPool
    /\ IF ctx = "cancelled" THEN Leave("Canceled") ELSE step' = "emit_details" /\ UNCHANGED ds
    /\ UNCHANGED <<sinkVars, serverVars, stops, page, batch, st, poolVars>>

(* The snapshots of a chunk, one per repository the answer has. *)
SnapshotsOf(i) ==
    LET known == InOrder(IF i \in answered THEN Members(i) \ Gone ELSE {})
    IN  [j \in DOMAIN known |-> Snapshot(known[j])]

EmitChunk ==
    /\ step = "emit_details" /\ chunk \in Chunks
    /\ chunk' = chunk + 1
    /\ \/ chunk \in failed /\ UNCHANGED <<sinkVars, step, ds>>
       \/ /\ chunk \notin failed
          /\ \E err \in Queue!Errors :
                /\ Queue!Emit(SnapshotsOf(chunk), err)
                /\ Goes(err, "emit_details")
    /\ UNCHANGED <<serverVars, stops, page, batch, st, targets, next, pool, answered, failed>>

(* The cursor goes to the end of the last chunk before the first failure.   *)
(* Faulty variant: to the last chunk that has an answer.                    *)
LastOf(S) == IF S = {} THEN st.details ELSE CHOOSE i \in S : \A j \in S : j <= i
AdvanceToAnswered == LastOf(UNION {Members(i) : i \in answered})
Contiguous == {t \in targets : \A i \in failed : ChunkOf(t) < i}
AdvanceTo == LastOf(Contiguous)

(* The quota in the last answer is then reported as an error or not, which  *)
(* makes no difference here.                                                *)
SaveDetails ==
    /\ step = "emit_details" /\ chunk \notin Chunks
    /\ st' = [st EXCEPT !.details = AdvanceTo]
    /\ \E err \in Queue!Errors : Queue!PutState(st', err) /\ Leave(err)
    /\ UNCHANGED <<serverVars, stops, page, batch, poolVars>>

(* The context is cancelled or a request fails, in one of the datasets.     *)
DatasetFails ==
    /\ \/ step = "repositories" /\ MoreRepositories
       \/ step = "events" /\ page < EventPages
       \/ step = "repo_details"
    /\ RequestFails("request")
    /\ Leave("error")
    /\ UNCHANGED <<sinkVars, serverVars, page, batch, st, poolVars>>

Return ==
    /\ step = "return"
    /\ Queue!CollectReturns
    /\ step' = "off"
    /\ UNCHANGED <<serverVars, stops, pageVars, st, poolVars>>

-----------------------------------------------------------------------------
(* The run around it, and the environment. *)

adapterVars == <<step, pageVars, st, poolVars>>

NewRepository ==
    /\ newest < LastRepo /\ newest' = newest + 1
    /\ UNCHANGED <<sinkVars, version, stops, adapterVars>>

NewEvents ==
    /\ version <= MaxUpdates /\ version' = version + 1
    /\ UNCHANGED <<sinkVars, newest, stops, adapterVars>>

(* What Collect had in memory is gone when the run ends. *)
Forget ==
    /\ step' = "off" /\ ds' = 1 /\ page' = 0 /\ batch' = <<>> /\ st' = Fresh
    /\ targets' = {} /\ next' = 0 /\ pool' = NoPool
    /\ answered' = {} /\ failed' = {} /\ chunk' = 0
    /\ UNCHANGED serverVars

EndRun == Queue!EndRun /\ Forget /\ UNCHANGED stops
Write == Queue!Write /\ UNCHANGED <<serverVars, stops, adapterVars>>
WriteFails == Queue!WriteFails /\ Trouble /\ UNCHANGED <<serverVars, adapterVars>>
Interrupt == Queue!Interrupt /\ Trouble /\ UNCHANGED <<serverVars, adapterVars>>
Crash == Queue!Crash /\ Trouble /\ Forget

CollectStep ==
    \/ NextDataset \/ NoMoreDatasets \/ DatasetFails \/ Return
    \/ GetRepositories \/ RepositoriesEnd \/ EmitPage \/ SavePage \/ RestRepositories
    \/ NotModified \/ GetEvents \/ EventsEnd \/ RestEvents
    \/ Query \/ Wrap \/ (\E w \in Workers : Take(w) \/ Answered(w) \/ QueryFails(w))
    \/ Wait \/ EmitChunk \/ SaveDetails

Next ==
    \/ \E resume \in BOOLEAN : StartRun(resume)
    \/ CollectStep \/ EndRun \/ Write \/ WriteFails
    \/ NewRepository \/ NewEvents \/ Interrupt \/ Crash

Spec == Init /\ [][Next]_vars

(* The collector is started again and again with --resume, and within a run *)
(* its goroutines go on.                                                    *)
FairSpec ==
    /\ Spec
    /\ SF_vars(StartRun(TRUE)) /\ WF_vars(CollectStep)
    /\ WF_vars(EndRun) /\ WF_vars(Write)

-----------------------------------------------------------------------------
(* Every variable holds a value of its type, and batches are bounded.       *)
TypeOK ==
    /\ Queue!SinkType
    /\ newest \in 0..LastRepo /\ version \in Version /\ stops \in 0..MaxStops
    /\ ds \in 1..(Len(Datasets) + 1) /\ page \in Nat
    /\ batch \in Seq(Record) /\ Len(batch) <= PageSize
    /\ st \in State
    /\ targets \subseteq Repo /\ Cardinality(targets) <= DetailBatch
    /\ next \in 0..LastRepo /\ chunk \in 0..(LastRepo + 1)
    /\ answered \subseteq Chunks /\ failed \subseteq Chunks
    /\ pool \in [Workers -> {0, Done} \cup Chunks]

(* The cursor in memory moves before its page is emitted, and other         *)
(* datasets save it: a saved one has its repositories all the same.         *)
RepositoriesCovered ==
    saved # NoState => \A i \in 1..saved.since : <<"repo", i>> \in rows

(* An ETag that is saved, by whichever dataset, has the page it came with,  *)
(* which the server never sends again while nothing changes.                *)
EtagCovered == saved # NoState /\ saved.etag # 0 => <<"event", saved.etag, 1>> \in rows

(* Chunks are answered in any order, some fail, and workers that failed     *)
(* leave others unasked: no repository behind the saved cursor lacks a      *)
(* snapshot, unless the queries do not know it.                             *)
DetailsCovered ==
    saved # NoState => \A i \in 1..saved.details : i \in Gone \/ Snapshot(i) \in rows

(* Again and again all repositories there are have their snapshots,         *)
(* although some are stopped or fail and others no longer exist.  Needs a   *)
(* limit of at least PageSize records, or none: a page that is always cut   *)
(* is never passed.                                                         *)
SnapshotsTaken == []<>(\A i \in Repo \ Gone : i <= newest => Snapshot(i) \in rows)
=============================================================================
