------------------------------- MODULE RssSource -------------------------------
(***************************************************************************)
(* The RSS adapter, src/internal/source/rss/rss.go, over repeated runs.    *)
(* A feeder goroutine hands each feed with its saved state to a pool of    *)
(* workers; a worker asks for the feed with the saved ETag, emits its      *)
(* items in one batch and passes the feed's new state to Collect, which    *)
(* gathers the states in a map and saves it every so many feeds.           *)
(*                                                                         *)
(* A feed has one item per version and offers its newest one; the ETag is  *)
(* the version, 0 for none.  Record <<f, v>> is that item, <<f, 0>> the    *)
(* feed's row of rss_feeds.  Collect's map is shared with the feeder       *)
(* without a lock; a read that meets a write finds the entry or misses it, *)
(* or the runtime stops the process.                                       *)
(***************************************************************************)
EXTENDS Naturals, Sequences, FiniteSets, Functions

CONSTANTS
    Feeds,       \* number of feeds, in the order of the configuration
    Workers,     \* goroutines that fetch feeds
    MaxUpdates,  \* bound: updates of the feeds
    SaveEvery,   \* results between two SaveState calls (64)
    MaxRecords, Faults, NoState,
    MaxStops     \* bound: interrupts, crashes and failing writers

ASSUME RssAssumption ==
    /\ Feeds \in Nat \ {0} /\ MaxUpdates \in Nat /\ SaveEvery \in Nat \ {0}
    /\ IsFiniteSet(Workers) /\ Workers # {}
    /\ MaxRecords \in Nat /\ MaxStops \in Nat
    /\ NoState \notin [1..Feeds -> Nat]

VARIABLES
    backlog, rows, saved, phase, ctx, writer, emitted,  \* of Sink
    version,   \* the server's version of each feed
    stops,     \* interrupts, crashes and failing writers so far
    feeder,    \* "read" (the map), "offer" (a job), "done" (jobs is closed)
    offered,   \* the feed of the feeder's job, and its saved ETag
    pool,      \* each worker: where it is, its feed, the old and new ETag
    results,   \* the channel of results
    main,      \* Collect: "range", "write" (the map), "save", "closing",
                 \* "returned"
    gathered,  \* the result Collect has received
    st,        \* st.Feeds, the ETag of each feed
    done,      \* results gathered in this run
    result,    \* what Collect returned
    fatal      \* why the process died: "no", "race" or "panic"

sinkVars == <<backlog, rows, saved, phase, ctx, writer, emitted>>
feederVars == <<feeder, offered>>
mainVars == <<main, gathered, st, done, result>>
vars == <<sinkVars, version, stops, feederVars, pool, results, mainVars, fatal>>

Feed == 1..Feeds
Version == Nat
Record == Feed \X Version
State == [Feed -> Version]

Queue == INSTANCE Sink

Without(at) == [at |-> at, feed |-> 0, prev |-> 0, next |-> 0]
NoResult == [feed |-> 0, etag |-> 0]
Fresh == [f \in Feed |-> 0]

Init ==
    /\ Queue!SinkInit
    /\ version = [f \in Feed |-> 1] /\ stops = 0
    /\ feeder = "done" /\ offered = NoResult
    /\ pool = [w \in Workers |-> Without("gone")] /\ results = <<>>
    /\ main = "returned" /\ gathered = NoResult /\ st = Fresh /\ done = 0
    /\ result = "nil" /\ fatal = "no"

StartRun(resume) ==
    /\ fatal = "no"
    /\ Queue!StartRun
    /\ st' = IF resume /\ saved # NoState THEN saved ELSE Fresh
    /\ feeder' = "read" /\ offered' = [feed |-> 1, etag |-> 0]
    /\ pool' = [w \in Workers |-> Without("idle")]
    /\ main' = "range" /\ gathered' = NoResult /\ done' = 0
    /\ results' = <<>> /\ result' = "nil"
    /\ UNCHANGED <<version, stops, fatal>>

-----------------------------------------------------------------------------
(* The feeder. *)

Racing == feeder = "read" /\ main = "write"

(* The job's ETag is read from the map before the select. *)
ReadMap ==
    /\ feeder = "read"
    /\ \E etag \in {st[offered.feed]} \cup (IF Racing THEN {0} ELSE {}) :
          offered' = [offered EXCEPT !.etag = etag]
    /\ feeder' = "offer"
    /\ UNCHANGED <<sinkVars, version, stops, pool, results, mainVars, fatal>>

(* A worker takes the job; the feeder goes on to the next feed. *)
TakeJob(w) ==
    /\ feeder = "offer" /\ pool[w].at = "idle"
    /\ pool' = [pool EXCEPT ![w] = [at |-> "fetch", feed |-> offered.feed,
                                    prev |-> offered.etag, next |-> offered.etag]]
    /\ IF offered.feed < Feeds
       THEN feeder' = "read" /\ offered' = [feed |-> offered.feed + 1, etag |-> 0]
       ELSE feeder' = "done" /\ offered' = NoResult
    /\ UNCHANGED <<sinkVars, version, stops, results, mainVars, fatal>>

FeederCancelled ==
    /\ feeder = "offer" /\ ctx = "cancelled"
    /\ feeder' = "done" /\ offered' = NoResult
    /\ UNCHANGED <<sinkVars, version, stops, pool, results, mainVars, fatal>>

-----------------------------------------------------------------------------
(* A worker: collectFeed. *)

Goes(w, at) ==
    pool' = [pool EXCEPT ![w] = IF at \in {"idle", "gone"} THEN Without(at)
                                                           ELSE [@ EXCEPT !.at = at]]
workerFrame == <<version, stops, feederVars, mainVars, fatal>>

NoMoreJobs(w) ==
    /\ pool[w].at = "idle" /\ feeder = "done"
    /\ Goes(w, "gone")
    /\ UNCHANGED <<sinkVars, results, workerFrame>>

NotModified(w) ==
    /\ pool[w].at = "fetch"
    /\ pool[w].prev # 0 /\ pool[w].prev = version[pool[w].feed]
    /\ Goes(w, "send")
    /\ UNCHANGED <<sinkVars, results, workerFrame>>

(* A full response: its ETag is noted before the body is parsed. *)
Modified(w) ==
    /\ pool[w].at = "fetch" /\ pool[w].prev # version[pool[w].feed]
    /\ pool' = [pool EXCEPT ![w].at = "parse", ![w].next = version[pool[w].feed]]
    /\ UNCHANGED <<sinkVars, results, workerFrame>>

RequestFails(w) ==
    /\ pool[w].at = "fetch"
    /\ ctx = "cancelled" \/ "fetch" \in Faults
    /\ Goes(w, "failed")
    /\ UNCHANGED <<sinkVars, results, workerFrame>>

Parsed(w) ==
    /\ pool[w].at = "parse"
    /\ Goes(w, "emit")
    /\ UNCHANGED <<sinkVars, results, workerFrame>>

(* The document is broken, or the body cannot be read to its end. *)
ParseFails(w) ==
    /\ pool[w].at = "parse"
    /\ ctx = "cancelled" \/ "parse" \in Faults
    /\ Goes(w, "failed")
    /\ UNCHANGED <<sinkVars, results, workerFrame>>

Batch(w) == <<<<pool[w].feed, 0>>, <<pool[w].feed, pool[w].next>>>>

EmitFeed(w) ==
    /\ pool[w].at = "emit" /\ phase = "collecting"
    /\ \E err \in Queue!Errors :
          /\ Queue!Emit(Batch(w), err)
          /\ Goes(w, IF err = "nil" THEN "send" ELSE "failed")
    /\ UNCHANGED <<results, workerFrame>>

(* Once Collect has returned, the pipeline's channel is closed.  The select *)
(* of send may still take an error branch.                                  *)
EmitStopped(w) ==
    /\ pool[w].at = "emit" /\ phase = "closing"
    /\ ctx = "cancelled" \/ writer = "dead"
    /\ Goes(w, "failed")
    /\ UNCHANGED <<sinkVars, results, workerFrame>>

(* An error ends the worker if the run is cancelled; otherwise the feed is  *)
(* recorded in _errors and its state passed on all the same.  Faulty        *)
(* variants: the state is passed on in any case; the worker tries again.    *)
FailedGoesOn(w) ==
    /\ pool[w].at = "failed"
    /\ Goes(w, "send")
    /\ UNCHANGED <<sinkVars, results, workerFrame>>

FailedRetries(w) ==
    /\ pool[w].at = "failed"
    /\ Goes(w, IF ctx = "cancelled" THEN "gone" ELSE "fetch")
    /\ UNCHANGED <<sinkVars, results, workerFrame>>

Failed(w) ==
    /\ pool[w].at = "failed"
    /\ Goes(w, IF ctx = "cancelled" THEN "gone" ELSE "send")
    /\ UNCHANGED <<sinkVars, results, workerFrame>>

SendResult(w) ==
    /\ pool[w].at = "send"
    /\ \/ /\ Len(results) < Cardinality(Workers)
          /\ results' = Append(results, [feed |-> pool[w].feed, etag |-> pool[w].next])
          /\ Goes(w, "idle")
       \/ /\ ctx = "cancelled"
          /\ Goes(w, "gone")
          /\ UNCHANGED results
    /\ UNCHANGED <<sinkVars, workerFrame>>

-----------------------------------------------------------------------------
(* Collect. *)

Gather ==
    /\ main = "range" /\ results # <<>>
    /\ gathered' = Head(results) /\ results' = Tail(results)
    /\ main' = "write"
    /\ UNCHANGED <<sinkVars, version, stops, feederVars, pool, st, done, result, fatal>>

WriteMap ==
    /\ main = "write"
    /\ st' = [st EXCEPT ![gathered.feed] = gathered.etag]
    /\ gathered' = NoResult
    /\ done' = done + 1
    /\ main' = IF done' % SaveEvery = 0 THEN "save" ELSE "range"
    /\ UNCHANGED <<sinkVars, version, stops, feederVars, pool, results, result, fatal>>

Leave(err) ==
    /\ result' = err
    /\ main' = "closing"

(* Every so many feeds.  An error returns from Collect.                     *)
SaveSome ==
    /\ main = "save"
    /\ \E err \in Queue!Errors :
          /\ Queue!PutState(st, err)
          /\ IF err = "nil" THEN main' = "range" /\ UNCHANGED result ELSE Leave(err)
    /\ UNCHANGED <<version, stops, feederVars, pool, results, gathered, st, done, fatal>>

(* The workers are gone and results is closed: the last SaveState.  Faulty  *)
(* variant: does not wait for the workers.                                  *)
AllGatheredUnwaited == results = <<>>
AllGathered == results = <<>> /\ \A w \in Workers : pool[w].at = "gone"
SaveLast ==
    /\ main = "range" /\ AllGathered
    /\ \E err \in Queue!Errors :
          /\ Queue!PutState(st, err)
          /\ Leave(IF ctx = "cancelled" THEN "Canceled" ELSE err)
    /\ UNCHANGED <<version, stops, feederVars, pool, results, gathered, st, done, fatal>>

Return ==
    /\ main = "closing"
    /\ Queue!CollectReturns
    /\ main' = "returned"
    /\ UNCHANGED <<version, stops, feederVars, pool, results, gathered, st, done, result, fatal>>

-----------------------------------------------------------------------------
(* The run around it, and the environment. *)

adapterVars == <<feederVars, pool, results, mainVars, fatal>>

Update(f) ==
    /\ FoldFunction(+, 0, version) < Feeds + MaxUpdates
    /\ version' = [version EXCEPT ![f] = @ + 1]
    /\ UNCHANGED <<sinkVars, stops, adapterVars>>

Write == Queue!Write /\ UNCHANGED <<version, stops, adapterVars>>

(* Something goes wrong. *)
Trouble == stops < MaxStops /\ stops' = stops + 1

WriteFails == Queue!WriteFails /\ Trouble /\ UNCHANGED <<version, adapterVars>>

(* The process ends with the run: goroutines that are left vanish. *)
Stop ==
    /\ feeder' = "done" /\ offered' = NoResult
    /\ pool' = [w \in Workers |-> Without("gone")] /\ results' = <<>>
    /\ main' = "returned" /\ gathered' = NoResult /\ st' = Fresh /\ done' = 0
    /\ result' = "nil"
    /\ UNCHANGED version

EndRun == Queue!EndRun /\ Stop /\ UNCHANGED <<stops, fatal>>

Interrupt == Queue!Interrupt /\ Trouble /\ UNCHANGED <<version, adapterVars>>
Crash == Queue!Crash /\ Trouble /\ Stop /\ UNCHANGED fatal

(* The runtime notices a read and a write of the map at the same time. *)
RaceDetected ==
    /\ Racing
    /\ Queue!Crash
    /\ Stop
    /\ fatal' = "race"
    /\ UNCHANGED stops

(* send picks the closed channel. *)
SendOnClosed ==
    /\ phase = "closing" /\ \E w \in Workers : pool[w].at = "emit"
    /\ Queue!Crash
    /\ Stop
    /\ fatal' = "panic"
    /\ UNCHANGED stops

(* Somebody starts the collector again. *)
Recover ==
    /\ fatal # "no"
    /\ fatal' = "no"
    /\ UNCHANGED <<sinkVars, version, stops, feederVars, pool, results, mainVars>>

WorkerStep(w) ==
    \/ TakeJob(w) \/ NoMoreJobs(w) \/ NotModified(w) \/ Modified(w) \/ RequestFails(w)
    \/ Parsed(w) \/ ParseFails(w) \/ EmitFeed(w) \/ EmitStopped(w) \/ Failed(w)
    \/ SendResult(w)

MainStep == Gather \/ WriteMap \/ SaveSome \/ SaveLast \/ Return

Next ==
    \/ \E resume \in BOOLEAN : StartRun(resume)
    \/ ReadMap \/ FeederCancelled
    \/ \E w \in Workers : WorkerStep(w)
    \/ MainStep \/ EndRun \/ Write \/ WriteFails
    \/ Interrupt \/ Crash \/ RaceDetected \/ SendOnClosed \/ Recover
    \/ \E f \in Feed : Update(f)

Spec == Init /\ [][Next]_vars

(* Every goroutine that can go on does. *)
FairSpec ==
    /\ Spec
    /\ WF_vars(ReadMap) /\ WF_vars(FeederCancelled)
    /\ \A w \in Workers : WF_vars(WorkerStep(w))
    /\ WF_vars(MainStep) /\ WF_vars(Write)

-----------------------------------------------------------------------------
(* A saved ETag vouches for the items of its version, since a later request *)
(* with it gets no items: "Each transaction contains a batch of records and *)
(* the state update that covers them" (docs/architecture.md:74).            *)
EtagCovered ==
    saved # NoState => \A f \in Feed : saved[f] # 0 => <<f, saved[f]>> \in rows

(* A run that was neither cancelled nor refused by the sink passes over no  *)
(* feed: each one has had its result gathered when Collect returns.         *)
EveryFeedGathered ==
    main = "closing" /\ ctx = "live" /\ result = "nil" => done = Feeds

(* Collect returns, whatever its workers met: nobody waits for a channel    *)
(* that no one serves or closes any more.                                   *)
CollectEnds == phase = "collecting" ~> phase # "collecting"

(* "the map is only ever touched by this goroutine" (rss.go:117).           *)
MapHasOneUser == ~Racing
=============================================================================
