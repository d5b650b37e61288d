------------------------------- MODULE RssProofs -------------------------------
(***************************************************************************)
(* Theorems about RssSource, for every number of feeds and workers, every  *)
(* interval between two states, and whatever fails and races.              *)
(***************************************************************************)
EXTENDS RssSource, TLAPS, SequenceTheorems, FiniteSetTheorems

Log == INSTANCE SinkLemmas

-----------------------------------------------------------------------------
(* The inductive invariant: types, and where everything is. *)

Result == [feed : 0..Feeds, etag : Version]
Gathered == [feed : Feed, etag : Version]
Resting == {"idle", "gone"}
Places == Resting \cup {"fetch", "parse", "emit", "failed", "send"}
Job == [at : Places, feed : 0..Feeds, prev : Version, next : Version]

Typed ==
    /\ Queue!SinkType
    /\ version \in [Feed -> Version] /\ stops \in 0..MaxStops
    /\ feeder \in {"read", "offer", "done"} /\ offered \in Result
    /\ pool \in [Workers -> Job]
    /\ results \in Seq(Gathered)
    /\ main \in {"range", "write", "save", "closing", "returned"}
    /\ gathered \in Result /\ st \in State /\ done \in Nat
    /\ result \in Queue!Errors /\ fatal \in {"no", "race", "panic"}

Place ==
    /\ phase = "idle" => backlog = <<>> /\ main = "returned"
    /\ phase = "collecting" <=> main # "returned"
    /\ feeder # "done" => offered.feed \in Feed
    /\ main = "write" => gathered.feed \in Feed
    /\ \A w \in Workers : pool[w].at \notin Resting => pool[w].feed \in Feed

-----------------------------------------------------------------------------
(* Where each feed is, in a run that goes on. *)

Busy == {w \in Workers : pool[w].at \notin Resting}
Left == IF feeder = "done" THEN 0 ELSE Feeds + 1 - offered.feed
InHand == IF main = "write" THEN 1 ELSE 0

(* Every feed is still to be offered, with a worker, on its way to Collect  *)
(* or gathered, and no worker leaves before the last job.                   *)
Counted ==
    ctx = "live" /\ main \in {"range", "write", "save"} =>
        /\ Left + Cardinality(Busy) + Len(results) + InHand + done = Feeds
        /\ \A w \in Workers : pool[w].at = "gone" => feeder = "done"

-----------------------------------------------------------------------------
(* What an ETag vouches for. *)

(* Neither of the two cases in which an ETag is passed on without its items *)
(* may come up.                                                             *)
Careful == MaxRecords = 0 /\ "parse" \notin Faults

Covered ==
    {p \in State \X SUBSET Record :
        Careful => \A f \in Feed : p[1][f] # 0 => <<f, p[1][f]>> \in p[2]}

(* Whatever part of the log a crash leaves out, the rest covers its state.  *)
Durable == Log!Sound(SUBSET Record, Covered, NoState, rows, backlog, saved)

(* All that the run has handed over, as long as the writer takes it.        *)
All == Log!Backlogged

Vouched(f, etag) == etag # 0 => <<f, etag>> \in All

JobVouched(j) ==
    /\ Vouched(j.feed, j.prev)
    /\ j.at = "fetch" => j.next = j.prev
    /\ j.at = "send" \/ (j.at = "failed" /\ ctx = "live") => Vouched(j.feed, j.next)

ResultsVouched == \A i \in 1..Len(results) : Vouched(results[i].feed, results[i].etag)

(* So is every ETag on its way from the map to the map. *)
Vouching ==
    Careful /\ writer = "live" =>
        /\ \A f \in Feed : Vouched(f, st[f])
        /\ Vouched(offered.feed, offered.etag)
        /\ Vouched(gathered.feed, gathered.etag)
        /\ ResultsVouched
        /\ \A w \in Workers : JobVouched(pool[w])

RssInv == Typed /\ Place /\ Counted /\ EveryFeedGathered /\ Durable /\ Vouching
-----------------------------------------------------------------------------
(* The queue. *)

LEMMA Constants ==
  /\ MaxRecords \in Nat /\ Feeds \in Nat /\ Feeds # 0 /\ NoState \notin State
  /\ 0 \in Version /\ Fresh \in State /\ Feed \subseteq 0..Feeds
  BY RssAssumption DEF State, Feed, Version, Fresh

(* More records vouch for what fewer do. *)
LEMMA CoveredGrows == Log!Monotone(SUBSET Record, Covered)
  <1> SUFFICES ASSUME NEW x, NEW A, NEW B,
                      <<x, A>> \in Covered, A \subseteq B, B \in SUBSET Record
               PROVE  <<x, B>> \in Covered
    BY DEF Log!Monotone
  <1>1. x \in State /\ (Careful => \A f \in Feed : x[f] # 0 => <<f, x[f]>> \in A)
    BY DEF Covered
  <1> QED
    BY <1>1 DEF Covered

(* What Sink.tla says of the queue. *)
LEMMA Sink ==
  /\ Queue!SinkType <=> Log!SinkType
  /\ \A batch, err : Queue!Emit(batch, err) <=> Log!Emit(batch, err)
  /\ \A x, err : Queue!PutState(x, err) <=> Log!PutState(x, err)
  /\ Queue!Write <=> Log!Write
  /\ Queue!Lose <=> Log!Lose
  <1>1. Queue!SinkType <=> Log!SinkType
    BY DEF Queue!SinkType, Log!SinkType, Queue!TypeOK, Log!TypeOK, Queue!Message, Log!Message
  <1>2. ASSUME NEW batch, NEW err
        PROVE  Queue!Emit(batch, err) <=> Log!Emit(batch, err)
    BY DEF Queue!Emit, Log!Emit, Queue!Kept, Log!Kept, Queue!Overdraws, Log!Overdraws,
           Queue!Room, Log!Room, Queue!Deliver, Log!Deliver, Queue!Accept, Log!Accept,
           Queue!RecsIn, Log!RecsIn, Queue!Refused, Log!Refused, Queue!vars, Log!vars
  <1>3. ASSUME NEW x, NEW err
        PROVE  Queue!PutState(x, err) <=> Log!PutState(x, err)
    BY DEF Queue!PutState, Log!PutState, Queue!Deliver, Log!Deliver, Queue!Accept, Log!Accept,
           Queue!Refused, Log!Refused, Queue!vars, Log!vars, Queue!runVars, Log!runVars
  <1>4. Queue!Write <=> Log!Write
    BY DEF Queue!Write, Log!Write, Queue!Commit, Log!Commit, Queue!RecsOf, Log!RecsOf,
           Queue!IsLastState, Log!IsLastState, Queue!runVars, Log!runVars
  <1>5. Queue!Lose <=> Log!Lose
    BY DEF Queue!Lose, Log!Lose
  <1> QED
    BY <1>1, <1>2, <1>3, <1>4, <1>5

LEMMA Still ==
  ASSUME RssInv, UNCHANGED <<backlog, rows, saved>>
  PROVE  Durable' /\ All' = All
  BY DEF RssInv, Durable, All, Log!Backlogged

(* Whatever Emit leaves of a batch, the records are records. *)
LEMMA AnyPart ==
  ASSUME RssInv, NEW batch \in Seq(Record), NEW err
  PROVE  Log!Leaves(SUBSET Record, batch, err)
  <1>1. Log!Backlogged \in SUBSET Record
    <2>1. Len(backlog) \in Nat
      BY LenProperties DEF RssInv, Typed, Queue!SinkType, Queue!TypeOK
    <2> QED
      BY <2>1 DEF RssInv, Durable, Log!Sound, Log!Backlogged, Log!Accepted
  <1>2. Len(batch) \in Nat /\ batch \in [1..Len(batch) -> Record]
    BY LenProperties
  <1>3. ASSUME NEW n \in 0..Len(batch)
        PROVE  {batch[i] : i \in 1..n} \in SUBSET Record
    <2>1. \A i \in 1..n : i \in 1..Len(batch)
      BY <1>2
    <2> QED
      BY <1>2, <2>1
  <1> QED
    BY <1>1, <1>3 DEF Log!Leaves

LEMMA Emitting ==
  ASSUME RssInv, NEW batch \in Seq(Record), NEW err, Queue!Emit(batch, err)
  PROVE  /\ Queue!SinkType'
         /\ UNCHANGED <<rows, saved, phase, ctx, writer>>
         /\ Durable'
         /\ All \subseteq All'
         /\ err = "nil" /\ writer = "live" => \A i \in 1..Len(batch) : batch[i] \in All'
  <1>1. Log!SinkType /\ Log!Emit(batch, err) /\ Durable
    BY Sink DEF RssInv, Typed
  <1>2. /\ Log!SinkType'
        /\ UNCHANGED <<rows, saved, phase, ctx, writer>>
        /\ Log!Sound(SUBSET Record, Covered, NoState, rows', backlog', saved')
        /\ Log!Backlogged \subseteq Log!Backlogged'
        /\ err = "nil" /\ writer = "live" => \A i \in 1..Len(batch) : batch[i] \in Log!Backlogged'
    BY <1>1, Constants, AnyPart, Log!EmitKeeps DEF Durable
  <1>3. Queue!SinkType'
    BY <1>2
       DEF Queue!SinkType, Log!SinkType, Queue!TypeOK, Log!TypeOK, Queue!Message, Log!Message
  <1> QED
    BY <1>2, <1>3 DEF Durable, All

(* With MaxRecords = 0, Emit fails in a live run only behind a dead writer. *)
LEMMA EmitFails ==
  ASSUME Careful, NEW batch, NEW err, Queue!Emit(batch, err), ctx = "live", writer = "live"
  PROVE  err = "nil"
  BY DEF Careful, Queue!Emit, Queue!Overdraws, Queue!Refused

(* The states that Collect saves are covered by what it has handed over.    *)
LEMMA StateIsCovered ==
  ASSUME RssInv, writer = "live"
  PROVE  <<st, All>> \in Covered
  <1>1. st \in State
    BY DEF RssInv, Typed
  <1>2. All \in SUBSET Record
    <2>1. Len(backlog) \in Nat
      BY LenProperties DEF RssInv, Typed, Queue!SinkType, Queue!TypeOK
    <2> QED
      BY <2>1 DEF RssInv, Durable, Log!Sound, All, Log!Backlogged, Log!Accepted
  <1>3. Careful => \A f \in Feed : st[f] # 0 => <<f, st[f]>> \in All
    BY DEF RssInv, Vouching, ResultsVouched, Vouched
  <1> QED
    BY <1>1, <1>2, <1>3 DEF Covered

LEMMA Saving ==
  ASSUME RssInv, NEW err, Queue!PutState(st, err)
  PROVE  /\ Queue!SinkType'
         /\ UNCHANGED <<rows, saved, phase, ctx, writer>>
         /\ Durable'
         /\ All' = All
  <1>1. Log!SinkType /\ Log!PutState(st, err) /\ Durable
    BY Sink DEF RssInv, Typed
  <1>2. st \in State
    BY DEF RssInv, Typed
  <1>3. /\ Log!SinkType'
        /\ UNCHANGED <<rows, saved, phase, ctx, writer>>
        /\ Log!Sound(SUBSET Record, Covered, NoState, rows', backlog', saved')
        /\ Log!Backlogged' = Log!Backlogged
    BY <1>1, <1>2, Constants, StateIsCovered, Log!PutStateKeeps DEF Durable, All
  <1>4. Queue!SinkType'
    BY <1>3
       DEF Queue!SinkType, Log!SinkType, Queue!TypeOK, Log!TypeOK, Queue!Message, Log!Message
  <1> QED
    BY <1>3, <1>4 DEF Durable, All

LEMMA Writing ==
  ASSUME RssInv, Queue!Write
  PROVE  /\ Queue!SinkType'
         /\ UNCHANGED <<phase, ctx, writer, emitted>>
         /\ Durable'
         /\ All' = All
  <1>1. Log!SinkType /\ Log!Write /\ Durable
    BY Sink DEF RssInv, Typed
  <1>2. /\ Log!SinkType'
        /\ UNCHANGED <<phase, ctx, writer, emitted>>
        /\ Log!Sound(SUBSET Record, Covered, NoState, rows', backlog', saved')
        /\ Log!Backlogged' = Log!Backlogged
    BY <1>1, CoveredGrows, Log!WriteKeeps DEF Durable, All
  <1>3. Queue!SinkType'
    BY <1>2
       DEF Queue!SinkType, Log!SinkType, Queue!TypeOK, Log!TypeOK, Queue!Message, Log!Message
  <1> QED
    BY <1>2, <1>3 DEF Durable, All

LEMMA Losing ==
  ASSUME RssInv, Queue!Lose
  PROVE  /\ Queue!TypeOK'
         /\ UNCHANGED <<rows, saved>> /\ backlog' = <<>>
         /\ Durable'
  <1>1. Log!SinkType /\ Log!Lose /\ Durable
    BY Sink DEF RssInv, Typed
  <1>2. /\ Log!TypeOK'
        /\ UNCHANGED <<rows, saved>> /\ backlog' = <<>>
        /\ Log!Sound(SUBSET Record, Covered, NoState, rows', backlog', saved')
    BY <1>1, Log!LoseKeeps DEF Durable
  <1>3. Queue!TypeOK'
    BY <1>2 DEF Queue!TypeOK, Log!TypeOK, Queue!Message, Log!Message
  <1> QED
    BY <1>2, <1>3 DEF Durable

(* With nothing in the backlog, what was handed over is in the database.    *)
LEMMA Settled == ASSUME backlog = <<>> PROVE All = rows
  BY Log!AcceptedNone DEF All, Log!Backlogged

-----------------------------------------------------------------------------
(* The invariant holds initially, and between two runs. *)

LEMMA NoWorker ==
  ASSUME NEW at \in Resting
  PROVE  /\ Without(at) \in Job /\ Without(at).at = at
         /\ Without(at).feed = 0 /\ Without(at).prev = 0 /\ Without(at).next = 0
         /\ [w \in Workers |-> Without(at)] \in [Workers -> Job]
  BY Constants DEF Without, Job, Places

LEMMA Nothing ==
  /\ NoResult \in Result /\ NoResult.feed = 0 /\ NoResult.etag = 0
  /\ <<>> \in Seq(Gathered) /\ Len(<<>>) = 0 /\ 1..Len(<<>>) = {}
  /\ Fresh \in State /\ \A f \in Feed : Fresh[f] = 0
  BY Constants DEF NoResult, Result, Fresh

LEMMA RssInit == Init => RssInv
  <1> SUFFICES ASSUME Init
               PROVE  RssInv
    OBVIOUS
  <1>1. /\ backlog = <<>> /\ rows = {} /\ saved = NoState
        /\ phase = "idle" /\ ctx = "live" /\ writer = "live" /\ emitted = 0
    BY DEF Init, Queue!SinkInit, Queue!Init
  <1>2. /\ version = [f \in Feed |-> 1] /\ stops = 0
        /\ feeder = "done" /\ offered = NoResult
        /\ pool = [w \in Workers |-> Without("gone")] /\ results = <<>>
        /\ main = "returned" /\ gathered = NoResult /\ st = Fresh /\ done = 0
        /\ result = "nil" /\ fatal = "no"
    BY DEF Init
  <1>3. pool \in [Workers -> Job]
    BY <1>2, NoWorker DEF Resting
  <1>4. Typed
    <2>1. Queue!SinkType
      BY <1>1 DEF Queue!SinkType, Queue!TypeOK
    <2>2. version \in [Feed -> Version] /\ stops \in 0..MaxStops
      BY <1>2, RssAssumption DEF Version
    <2> QED
      BY <1>2, <1>3, <2>1, <2>2, Nothing DEF Typed, Queue!Errors
  <1>5. \A w \in Workers : pool[w].at = "gone" /\ pool[w].feed = 0 /\ pool[w].prev = 0
    BY <1>2, NoWorker DEF Resting
  <1>6. Place /\ Counted /\ EveryFeedGathered
    BY <1>1, <1>2, <1>5 DEF Place, Counted, EveryFeedGathered, Resting
  <1>7. Durable
    <2>1. \A k \in 0..Len(<<>>) : Log!Reach({}, <<>>, k) = {}
      BY Log!ReachZero, EmptySeq
    <2> QED
      BY <1>1, <2>1, Nothing DEF Durable, Log!Sound
  <1>8. Vouching
    BY <1>2, <1>5, Nothing DEF Vouching, ResultsVouched, Vouched, JobVouched
  <1> QED
    BY <1>4, <1>6, <1>7, <1>8 DEF RssInv

(* The end of the process, whatever it dies of. *)
LEMMA StopStep ==
  ASSUME RssInv, Stop, phase' = "idle", backlog' = <<>>, Queue!SinkType', Durable',
         stops' \in 0..MaxStops, fatal' \in {"no", "race", "panic"}
  PROVE  RssInv'
  <1>1. /\ feeder' = "done" /\ offered' = NoResult
        /\ pool' = [w \in Workers |-> Without("gone")] /\ results' = <<>>
        /\ main' = "returned" /\ gathered' = NoResult /\ st' = Fresh /\ done' = 0
        /\ result' = "nil" /\ version' = version
    BY DEF Stop
  <1>2. pool' \in [Workers -> Job]
    BY <1>1, NoWorker DEF Resting
  <1>3. Typed'
    BY <1>1, <1>2, Nothing DEF RssInv, Typed, Queue!Errors
  <1>4. \A w \in Workers : /\ pool'[w].at = "gone" /\ pool'[w].feed = 0 /\ pool'[w].prev = 0
    BY <1>1, NoWorker DEF Resting
  <1>5. Place' /\ Counted' /\ EveryFeedGathered'
    BY <1>1, <1>4 DEF Place, Counted, EveryFeedGathered, Resting
  <1>6. Vouching'
    BY <1>1, <1>4, Nothing DEF Vouching, ResultsVouched, Vouched, JobVouched
  <1> QED
    BY <1>3, <1>5, <1>6 DEF RssInv

LEMMA StartStep ==
  ASSUME RssInv, NEW resume \in BOOLEAN, StartRun(resume)
  PROVE  RssInv'
  <1>1. /\ phase = "idle" /\ phase' = "collecting" /\ ctx' = "live" /\ writer' = "live"
        /\ emitted' = 0 /\ UNCHANGED <<backlog, rows, saved>>
    BY DEF StartRun, Queue!StartRun, Queue!vars
  <1>2. /\ st' = IF resume /\ saved # NoState THEN saved ELSE Fresh
        /\ feeder' = "read" /\ offered' = [feed |-> 1, etag |-> 0]
        /\ pool' = [w \in Workers |-> Without("idle")]
        /\ main' = "range" /\ gathered' = NoResult /\ done' = 0
        /\ results' = <<>> /\ result' = "nil"
        /\ UNCHANGED <<version, stops, fatal>>
    BY DEF StartRun
  <1>3. Durable' /\ All' = All
    BY <1>1, Still
  <1>4. pool' \in [Workers -> Job]
    BY <1>2, NoWorker DEF Resting
  <1>5. \A w \in Workers : pool'[w].at = "idle" /\ pool'[w].feed = 0 /\ pool'[w].prev = 0
    BY <1>2, NoWorker DEF Resting
  <1>6. 1 \in Feed /\ offered' \in Result /\ offered'.feed = 1 /\ offered'.etag = 0
    BY <1>2, Constants DEF Feed, Result
  <1>7. st' \in State
    BY <1>2, Constants DEF RssInv, Typed, Queue!SinkType, Queue!TypeOK
  <1>8. Typed'
    <2>1. Queue!SinkType'
      BY <1>1 DEF RssInv, Typed, Queue!SinkType, Queue!TypeOK
    <2> QED
      BY <1>2, <1>4, <1>6, <1>7, <2>1, Nothing DEF RssInv, Typed, Queue!Errors
  <1>9. Place' /\ EveryFeedGathered'
    BY <1>1, <1>2, <1>5, <1>6 DEF Place, EveryFeedGathered, Resting
  <1>10. Counted'
    <2>1. Busy' = {}
      BY <1>5 DEF Busy, Resting
    <2>2. Cardinality({}) = 0
      BY FS_EmptySet
    <2>3. Left' = Feeds /\ InHand' = 0 /\ Len(results') = 0
      BY <1>2, <1>6, Constants, Nothing DEF Left, InHand
    <2> QED
      BY <1>2, <1>5, <2>1, <2>2, <2>3, Constants DEF Counted
  <1>11. Vouching'
    <2>1. All = rows
      BY <1>1, Settled DEF RssInv, Place
    <2>2. saved # NoState => <<saved, rows>> \in Covered
      BY DEF RssInv, Durable, Log!Sound
    <2>3. Careful => \A f \in Feed : st'[f] # 0 => <<f, st'[f]>> \in All'
      BY <1>2, <1>3, <2>1, <2>2, Nothing DEF Covered
    <2> QED
      BY <1>2, <1>5, <1>6, <2>3, Nothing DEF Vouching, ResultsVouched, Vouched, JobVouched
  <1> QED
    BY <1>3, <1>8, <1>9, <1>10, <1>11 DEF RssInv
-----------------------------------------------------------------------------
(* The workers. *)

LEMMA BusyIs ==
  ASSUME RssInv
  PROVE  /\ IsFiniteSet(Busy) /\ Cardinality(Busy) \in Nat
         /\ \A w \in Workers : IsFiniteSet(Busy \cup {w}) /\ IsFiniteSet(Busy \ {w})
         /\ \A w \in Workers : w \notin Busy => Cardinality(Busy \cup {w}) = Cardinality(Busy) + 1
         /\ \A w \in Busy : Cardinality(Busy \ {w}) = Cardinality(Busy) - 1
  <1>1. IsFiniteSet(Busy)
    BY RssAssumption, FS_Subset DEF Busy
  <1> QED
    BY <1>1, FS_CardinalityType, FS_AddElement, FS_RemoveElement

(* A worker that moves on with its job, or has none, and keeps all that it  *)
(* has vouched for.                                                         *)
LEMMA Moves ==
  ASSUME RssInv, NEW w \in Workers, NEW j \in Job,
         pool' = [pool EXCEPT ![w] = j],
         j.at \notin Resting => j.feed \in Feed,
         ctx = "live" => (j.at \in Resting <=> pool[w].at \in Resting),
         j.at = "gone" /\ ctx = "live" => feeder = "done",
         Queue!SinkType', Durable', All \subseteq All',
         UNCHANGED <<phase, ctx, writer, results>>, UNCHANGED workerFrame,
         phase = "idle" => backlog' = <<>>,
         Careful /\ writer = "live" => JobVouched(j)'
  PROVE  RssInv'
  <1>1. /\ pool' \in [Workers -> Job] /\ pool'[w] = j
        /\ \A v \in Workers : v # w => pool'[v] = pool[v]
    BY DEF RssInv, Typed
  <1>2. UNCHANGED <<version, stops, feeder, offered, main, gathered, st, done, result, fatal>>
    BY DEF workerFrame, feederVars, mainVars
  <1>3. Typed'
    BY <1>1, <1>2 DEF RssInv, Typed
  <1>4. Place' /\ EveryFeedGathered'
    BY <1>1, <1>2 DEF RssInv, Place, EveryFeedGathered
  <1>5. Counted'
    <2>1. ctx = "live" => Busy' = Busy
      BY <1>1 DEF Busy
    <2>2. Left' = Left /\ InHand' = InHand
      BY <1>2 DEF Left, InHand
    <2> QED
      BY <1>1, <1>2, <2>1, <2>2 DEF RssInv, Counted
  <1>6. Vouching'
    <2>1. ASSUME Careful, writer = "live", NEW v \in Workers
          PROVE  JobVouched(pool[v])'
      <3>1. CASE v = w
        BY <1>1, <2>1, <3>1
      <3>2. CASE v # w
        BY <1>1, <2>1, <3>2 DEF RssInv, Vouching, JobVouched, Vouched
      <3> QED
        BY <3>1, <3>2
    <2> QED
      BY <1>2, <2>1 DEF RssInv, Vouching, ResultsVouched, Vouched
  <1> QED
    BY <1>3, <1>4, <1>5, <1>6 DEF RssInv

(* What Goes makes of a job. *)
LEMMA GoesIs ==
  ASSUME RssInv, NEW w \in Workers, NEW at \in Places, Goes(w, at)
  PROVE  \E j \in Job :
            /\ pool' = [pool EXCEPT ![w] = j] /\ j.at = at
            /\ at \in Resting => j.feed = 0 /\ j.prev = 0 /\ j.next = 0
            /\ at \notin Resting =>
                  j.feed = pool[w].feed /\ j.prev = pool[w].prev /\ j.next = pool[w].next
  <1>1. pool[w] \in Job
    BY DEF RssInv, Typed
  <1>2. CASE at \in Resting
    BY <1>2, NoWorker DEF Goes, Resting
  <1>3. CASE at \notin Resting
    <2> DEFINE j == [pool[w] EXCEPT !.at = at]
    <2>1. /\ j \in Job /\ j.at = at
          /\ j.feed = pool[w].feed /\ j.prev = pool[w].prev /\ j.next = pool[w].next
      BY <1>1 DEF Job
    <2>2. pool' = [pool EXCEPT ![w] = j]
      BY <1>3 DEF Goes, Resting
    <2> HIDE DEF j
    <2> QED
      BY <1>3, <2>1, <2>2
  <1> QED
    BY <1>2, <1>3

LEMMA SinkStill ==
  ASSUME RssInv, UNCHANGED sinkVars
  PROVE  /\ Queue!SinkType' /\ Durable' /\ All' = All
         /\ UNCHANGED <<phase, ctx, writer>> /\ (phase = "idle" => backlog' = <<>>)
  BY Still DEF sinkVars, RssInv, Typed, Place, Queue!SinkType, Queue!TypeOK

LEMMA QuietWorkerStep ==
  ASSUME RssInv, NEW w \in Workers,
         NoMoreJobs(w) \/ NotModified(w) \/ RequestFails(w) \/ Parsed(w) \/ ParseFails(w)
         \/ EmitStopped(w) \/ Failed(w)
  PROVE  RssInv'
  <1>1. UNCHANGED sinkVars /\ UNCHANGED results /\ UNCHANGED workerFrame
    BY DEF NoMoreJobs, NotModified, RequestFails, Parsed, ParseFails, EmitStopped, Failed
  <1>2. PICK at \in Places :
           /\ Goes(w, at)
           /\ \/ pool[w].at = "idle" /\ at = "gone" /\ feeder = "done"
              \/ pool[w].at = "fetch" /\ at = "send" /\ pool[w].prev # 0
              \/ pool[w].at = "fetch" /\ at = "failed"
              \/ pool[w].at = "parse" /\ at = "emit"
              \/ pool[w].at = "parse" /\ at = "failed" /\ (ctx = "cancelled" \/ "parse" \in Faults)
              \/ pool[w].at = "emit" /\ at = "failed" /\ (ctx = "cancelled" \/ writer = "dead")
              \/ pool[w].at = "failed" /\ at = "gone" /\ ctx = "cancelled"
              \/ pool[w].at = "failed" /\ at = "send" /\ ctx # "cancelled"
    <2>1. CASE NoMoreJobs(w)
      BY <2>1 DEF NoMoreJobs, Places, Resting
    <2>2. CASE NotModified(w)
      BY <2>2 DEF NotModified, Places
    <2>3. CASE RequestFails(w)
      BY <2>3 DEF RequestFails, Places
    <2>4. CASE Parsed(w)
      BY <2>4 DEF Parsed, Places
    <2>5. CASE ParseFails(w)
      BY <2>5 DEF ParseFails, Places
    <2>6. CASE EmitStopped(w)
      BY <2>6 DEF EmitStopped, Places
    <2>7. CASE Failed(w)
      BY <2>7 DEF Failed, Places, Resting
    <2> QED
      BY <2>1, <2>2, <2>3, <2>4, <2>5, <2>6, <2>7
  <1>3. PICK j \in Job :
            /\ pool' = [pool EXCEPT ![w] = j] /\ j.at = at
            /\ at \in Resting => j.feed = 0 /\ j.prev = 0 /\ j.next = 0
            /\ at \notin Resting =>
                  j.feed = pool[w].feed /\ j.prev = pool[w].prev /\ j.next = pool[w].next
    BY <1>2, GoesIs
  <1>4. /\ Queue!SinkType' /\ Durable' /\ All' = All
        /\ UNCHANGED <<phase, ctx, writer>> /\ (phase = "idle" => backlog' = <<>>)
    BY <1>1, SinkStill
  <1>5. j.at \notin Resting => j.feed \in Feed
    BY <1>2, <1>3 DEF RssInv, Place, Resting
  <1>6. ctx \in {"live", "cancelled"}
    BY DEF RssInv, Typed, Queue!SinkType
  <1>7. ctx = "live" => (j.at \in Resting <=> pool[w].at \in Resting)
    BY <1>2, <1>3, <1>6 DEF Resting
  <1> QED
    BY <1>1, <1>2, <1>3, <1>4, <1>5, <1>6, <1>7, Moves
       DEF RssInv, Vouching, JobVouched, Vouched, Careful, Resting
LEMMA ModifiedStep ==
  ASSUME RssInv, NEW w \in Workers, Modified(w)
  PROVE  RssInv'
  <1>1. UNCHANGED sinkVars /\ UNCHANGED results /\ UNCHANGED workerFrame /\ pool[w].at = "fetch"
    BY DEF Modified
  <1>2. pool[w] \in Job /\ pool[w].feed \in Feed /\ version[pool[w].feed] \in Version
    BY <1>1 DEF RssInv, Typed, Place, Resting
  <1>3. PICK j : j = [pool[w] EXCEPT !.at = "parse", !.next = version[pool[w].feed]]
    OBVIOUS
  <1>4. j \in Job /\ j.at = "parse" /\ j.feed = pool[w].feed /\ j.prev = pool[w].prev
    BY <1>2, <1>3 DEF Job, Places
  <1>5. pool' = [pool EXCEPT ![w] = j]
    BY <1>3 DEF Modified, RssInv, Typed
  <1>6. /\ Queue!SinkType' /\ Durable' /\ All' = All
        /\ UNCHANGED <<phase, ctx, writer>> /\ (phase = "idle" => backlog' = <<>>)
    BY <1>1, SinkStill
  <1>7. Careful /\ writer = "live" => JobVouched(j)'
    BY <1>4, <1>6 DEF RssInv, Vouching, JobVouched, Vouched
  <1> QED
    BY <1>1, <1>2, <1>4, <1>6, <1>7, <1>5, Moves DEF Resting

LEMMA EmitFeedStep ==
  ASSUME RssInv, NEW w \in Workers, EmitFeed(w)
  PROVE  RssInv'
  <1>1. PICK err \in Queue!Errors :
           /\ Queue!Emit(Batch(w), err)
           /\ Goes(w, IF err = "nil" THEN "send" ELSE "failed")
    BY DEF EmitFeed
  <1>2. /\ pool[w].at = "emit" /\ phase = "collecting"
        /\ UNCHANGED results /\ UNCHANGED workerFrame
    BY DEF EmitFeed
  <1>3. pool[w] \in Job /\ pool[w].feed \in Feed
    BY <1>2 DEF RssInv, Typed, Place, Resting
  <1>4. /\ Batch(w) \in Seq(Record) /\ Len(Batch(w)) = 2
        /\ Batch(w)[2] = <<pool[w].feed, pool[w].next>>
    BY <1>3 DEF Batch, Record, Job, Version
  <1>5. /\ Queue!SinkType'
        /\ UNCHANGED <<rows, saved, phase, ctx, writer>>
        /\ Durable'
        /\ All \subseteq All'
        /\ err = "nil" /\ writer = "live" => \A i \in 1..Len(Batch(w)) : Batch(w)[i] \in All'
    BY <1>1, <1>4, Emitting
  <1>6. err = "nil" /\ writer = "live" => <<pool[w].feed, pool[w].next>> \in All'
    BY <1>4, <1>5
  <1>7. PICK at \in {"send", "failed"} : Goes(w, at) /\ (at = "send" <=> err = "nil")
    BY <1>1
  <1>8. PICK j \in Job :
            /\ pool' = [pool EXCEPT ![w] = j] /\ j.at = at
            /\ at \in Resting => j.feed = 0 /\ j.prev = 0 /\ j.next = 0
            /\ at \notin Resting =>
                  j.feed = pool[w].feed /\ j.prev = pool[w].prev /\ j.next = pool[w].next
    BY <1>7, GoesIs DEF Places
  <1>9. Careful /\ writer = "live" => JobVouched(j)'
    <2> SUFFICES ASSUME Careful, writer = "live"
                 PROVE  JobVouched(j)'
      OBVIOUS
    <2>1. Vouched(j.feed, j.prev)'
      BY <1>2, <1>5, <1>7, <1>8 DEF RssInv, Vouching, JobVouched, Vouched, Resting
    <2>2. err = "nil" => Vouched(j.feed, j.next)'
      BY <1>6, <1>7, <1>8 DEF Vouched, Resting
    <2>3. ctx = "live" => err = "nil"
      BY <1>1, EmitFails
    <2> QED
      BY <1>5, <1>7, <1>8, <2>1, <2>2, <2>3 DEF JobVouched
  <1> QED
    BY <1>2, <1>3, <1>5, <1>7, <1>8, <1>9, Moves DEF Resting

LEMMA TakeJobStep ==
  ASSUME RssInv, NEW w \in Workers, TakeJob(w)
  PROVE  RssInv'
  <1> DEFINE j == [at |-> "fetch", feed |-> offered.feed, prev |-> offered.etag,
                   next |-> offered.etag]
  <1>1. /\ feeder = "offer" /\ pool[w].at = "idle" /\ pool' = [pool EXCEPT ![w] = j]
        /\ IF offered.feed < Feeds
           THEN feeder' = "read" /\ offered' = [feed |-> offered.feed + 1, etag |-> 0]
           ELSE feeder' = "done" /\ offered' = NoResult
        /\ UNCHANGED <<sinkVars, version, stops, results, mainVars, fatal>>
    BY DEF TakeJob
  <1>2. offered \in Result /\ offered.feed \in Feed /\ offered.feed \in 1..Feeds
    BY <1>1 DEF RssInv, Typed, Place, Feed
  <1>3. /\ j \in Job /\ j.at = "fetch" /\ j.feed = offered.feed /\ j.prev = offered.etag
        /\ j.next = offered.etag
    BY <1>2, Constants DEF Job, Places, Result
  <1> HIDE DEF j
  <1>4. /\ Queue!SinkType' /\ Durable' /\ All' = All
        /\ UNCHANGED <<phase, ctx, writer>> /\ (phase = "idle" => backlog' = <<>>)
    BY <1>1, SinkStill
  <1>5. /\ pool' \in [Workers -> Job] /\ pool'[w] = j
        /\ \A v \in Workers : v # w => pool'[v] = pool[v]
    BY <1>1, <1>3 DEF RssInv, Typed
  <1>6. /\ offered' \in Result /\ offered'.etag = 0
        /\ feeder' # "done" => offered'.feed \in Feed
        /\ feeder' \in {"read", "done"} /\ Left' = Left - 1
    <2>1. CASE offered.feed < Feeds
      <3>1. offered.feed + 1 \in Feed /\ offered.feed + 1 \in 0..Feeds
        BY <1>2, <2>1, Constants DEF Feed
      <3>2. /\ offered' \in Result /\ offered'.etag = 0 /\ offered'.feed = offered.feed + 1
            /\ feeder' = "read"
        BY <1>1, <2>1, <3>1, Constants DEF Result
      <3> QED
        BY <1>1, <1>2, <3>1, <3>2, Constants DEF Left
    <2>2. CASE ~(offered.feed < Feeds)
      <3>1. offered.feed = Feeds
        BY <1>2, <2>2, Constants
      <3> QED
        BY <1>1, <2>2, <3>1, Nothing, Constants DEF Left
    <2> QED
      BY <2>1, <2>2
  <1>7. UNCHANGED <<version, stops, results, main, gathered, st, done, result, fatal>>
    BY <1>1 DEF mainVars
  <1>8. Typed'
    BY <1>4, <1>5, <1>6, <1>7 DEF RssInv, Typed
  <1>9. Place' /\ EveryFeedGathered'
    BY <1>2, <1>3, <1>4, <1>5, <1>6, <1>7 DEF RssInv, Place, EveryFeedGathered, Resting
  <1>10. Counted'
    <2>1. w \notin Busy /\ Busy' = Busy \cup {w}
      BY <1>1, <1>3, <1>5 DEF Busy, Resting
    <2>2. Cardinality(Busy') = Cardinality(Busy) + 1 /\ Cardinality(Busy) \in Nat
      BY <2>1, BusyIs
    <2>3. InHand' = InHand
      BY <1>7 DEF InHand
    <2>4. \A v \in Workers : pool'[v].at = "gone" => pool[v].at = "gone"
      BY <1>3, <1>5
    <2>5. Left \in Nat /\ Left # 0 /\ InHand \in Nat /\ Len(results) \in Nat /\ done \in Nat
      BY <1>1, <1>2, LenProperties, Constants DEF Left, InHand, RssInv, Typed
    <2> QED
      BY <1>1, <1>4, <1>6, <1>7, <2>2, <2>3, <2>4, <2>5 DEF RssInv, Counted
  <1>11. Vouching'
    <2>1. ASSUME Careful, writer = "live", NEW v \in Workers
          PROVE  JobVouched(pool[v])'
      <3>1. CASE v = w
        BY <1>3, <1>4, <1>5, <2>1, <3>1 DEF RssInv, Vouching, JobVouched, Vouched
      <3>2. CASE v # w
        BY <1>4, <1>5, <2>1, <3>2 DEF RssInv, Vouching, JobVouched, Vouched
      <3> QED
        BY <3>1, <3>2
    <2> QED
      BY <1>4, <1>6, <1>7, <2>1 DEF RssInv, Vouching, ResultsVouched, Vouched
  <1> QED
    BY <1>4, <1>8, <1>9, <1>10, <1>11 DEF RssInv

(* A result on its way. *)
LEMMA ResultsAppend ==
  ASSUME RssInv, NEW r \in Gathered, results' = Append(results, r), All' = All
  PROVE  /\ results' \in Seq(Gathered) /\ Len(results') = Len(results) + 1
         /\ ResultsVouched /\ Vouched(r.feed, r.etag) => ResultsVouched'
  <1> DEFINE n == Len(results)
  <1>1. /\ results' \in Seq(Gathered) /\ Len(results') = n + 1 /\ n \in Nat
        /\ \A i \in 1..n : results'[i] = results[i]
        /\ results'[n + 1] = r
    BY AppendProperties, LenProperties DEF RssInv, Typed
  <1> HIDE DEF n
  <1>2. \A i \in 1..(n + 1) : i \in 1..n \/ i = n + 1
    BY <1>1
  <1>3. ASSUME ResultsVouched, Vouched(r.feed, r.etag), NEW i \in 1..(n + 1)
        PROVE  results'[i].etag # 0 => <<results'[i].feed, results'[i].etag>> \in All
    BY <1>1, <1>2, <1>3 DEF ResultsVouched, Vouched, n
  <1>4. ResultsVouched /\ Vouched(r.feed, r.etag) => ResultsVouched'
    BY <1>1, <1>3 DEF ResultsVouched, Vouched
  <1> QED
    BY <1>1, <1>4 DEF n

LEMMA SendResultStep ==
  ASSUME RssInv, NEW w \in Workers, SendResult(w)
  PROVE  RssInv'
  <1>1. pool[w].at = "send" /\ UNCHANGED sinkVars /\ UNCHANGED workerFrame
    BY DEF SendResult
  <1>2. pool[w] \in Job /\ pool[w].feed \in Feed
    BY <1>1 DEF RssInv, Typed, Place, Resting
  <1>3. /\ Queue!SinkType' /\ Durable' /\ All' = All
        /\ UNCHANGED <<phase, ctx, writer>> /\ (phase = "idle" => backlog' = <<>>)
    BY <1>1, SinkStill
  <1>4. UNCHANGED <<version, stops, feeder, offered, main, gathered, st, done, result, fatal>>
    BY <1>1 DEF workerFrame, feederVars, mainVars
  <1>5. CASE ctx = "cancelled" /\ Goes(w, "gone") /\ UNCHANGED results
    <2>1. PICK j \in Job :
              /\ pool' = [pool EXCEPT ![w] = j] /\ j.at = "gone"
              /\ j.feed = 0 /\ j.prev = 0 /\ j.next = 0
      BY <1>5, GoesIs DEF Places, Resting
    <2> QED
      BY <1>1, <1>3, <1>5, <2>1, Moves DEF JobVouched, Vouched, Resting
  <1>6. CASE /\ results' = Append(results, [feed |-> pool[w].feed, etag |-> pool[w].next])
             /\ Goes(w, "idle")
    <2>1. PICK j \in Job :
              /\ pool' = [pool EXCEPT ![w] = j] /\ j.at = "idle"
              /\ j.feed = 0 /\ j.prev = 0 /\ j.next = 0
      BY <1>6, GoesIs DEF Places, Resting
    <2> DEFINE r == [feed |-> pool[w].feed, etag |-> pool[w].next]
    <2>2. r \in Gathered /\ r.feed = pool[w].feed /\ r.etag = pool[w].next /\ results' = Append(results, r)
      BY <1>2, <1>6 DEF Gathered, Job
    <2> HIDE DEF r
    <2>3. /\ results' \in Seq(Gathered) /\ Len(results') = Len(results) + 1
          /\ ResultsVouched /\ Vouched(r.feed, r.etag) => ResultsVouched'
      BY <1>3, <2>2, ResultsAppend
    <2>4. /\ pool' \in [Workers -> Job] /\ pool'[w] = j
          /\ \A v \in Workers : v # w => pool'[v] = pool[v]
      BY <2>1 DEF RssInv, Typed
    <2>5. Typed'
      BY <1>3, <1>4, <2>3, <2>4 DEF RssInv, Typed
    <2>6. Place' /\ EveryFeedGathered'
      BY <1>3, <1>4, <2>1, <2>4 DEF RssInv, Place, EveryFeedGathered, Resting
    <2>7. Counted'
      <3>1. w \in Busy /\ Busy' = Busy \ {w}
        BY <1>1, <2>1, <2>4 DEF Busy, Resting
      <3>2. Cardinality(Busy') = Cardinality(Busy) - 1 /\ Cardinality(Busy) \in Nat
        BY <3>1, BusyIs
      <3>3. InHand' = InHand /\ Left' = Left /\ InHand \in Nat
        BY <1>4 DEF InHand, Left
      <3>4. \A v \in Workers : pool'[v].at = "gone" => pool[v].at = "gone"
        BY <2>1, <2>4
      <3>5. Left \in Nat /\ Len(results) \in Nat /\ done \in Nat
        <4>1. feeder # "done" => offered.feed \in 1..Feeds
          BY DEF RssInv, Place, Feed
        <4> QED
          BY <4>1, LenProperties, Constants DEF Left, RssInv, Typed
      <3> QED
        BY <1>3, <1>4, <2>3, <3>2, <3>3, <3>4, <3>5 DEF RssInv, Counted
    <2>8. Vouching'
      <3> SUFFICES ASSUME Careful, writer = "live"
                   PROVE  (/\ \A f \in Feed : Vouched(f, st[f])
                           /\ Vouched(offered.feed, offered.etag)
                           /\ Vouched(gathered.feed, gathered.etag)
                           /\ ResultsVouched
                           /\ \A v \in Workers : JobVouched(pool[v]))'
        BY <1>3 DEF Vouching
      <3>1. ResultsVouched'
        <4>1. Vouched(r.feed, r.etag)
          BY <1>1, <2>2 DEF RssInv, Vouching, JobVouched
        <4>2. ResultsVouched
          BY DEF RssInv, Vouching
        <4> QED
          BY <2>3, <4>1, <4>2
      <3>2. ASSUME NEW v \in Workers
            PROVE  JobVouched(pool[v])'
        <4>1. CASE v = w
          BY <2>1, <2>4, <4>1 DEF JobVouched, Vouched
        <4>2. CASE v # w
          BY <1>3, <2>4, <4>2 DEF RssInv, Vouching, JobVouched, Vouched
        <4> QED
          BY <4>1, <4>2
      <3>3. (/\ \A f \in Feed : Vouched(f, st[f])
             /\ Vouched(offered.feed, offered.etag)
             /\ Vouched(gathered.feed, gathered.etag))'
        BY <1>3, <1>4 DEF RssInv, Vouching, ResultsVouched, Vouched
      <3> QED
        BY <3>1, <3>2, <3>3
    <2> QED
      BY <1>3, <2>5, <2>6, <2>7, <2>8 DEF RssInv
  <1> QED
    BY <1>5, <1>6 DEF SendResult

LEMMA WorkerSteps ==
  ASSUME RssInv, NEW w \in Workers, WorkerStep(w)
  PROVE  RssInv'
  BY QuietWorkerStep, ModifiedStep, EmitFeedStep, TakeJobStep, SendResultStep DEF WorkerStep
-----------------------------------------------------------------------------
(* The feeder. *)

LEMMA FeederStep ==
  ASSUME RssInv, ReadMap \/ FeederCancelled
  PROVE  RssInv'
  <1>1. UNCHANGED <<sinkVars, version, stops, pool, results, mainVars, fatal>>
    BY DEF ReadMap, FeederCancelled
  <1>2. UNCHANGED <<version, stops, pool, results, main, gathered, st, done, result, fatal>>
    BY <1>1 DEF mainVars
  <1>3. /\ Queue!SinkType' /\ Durable' /\ All' = All
        /\ UNCHANGED <<phase, ctx, writer>> /\ (phase = "idle" => backlog' = <<>>)
    BY <1>1, SinkStill
  <1>4. Busy' = Busy /\ InHand' = InHand
    BY <1>2 DEF Busy, InHand
  <1>5. ASSUME Careful, writer = "live"
        PROVE  ResultsVouched' /\ \A w \in Workers : JobVouched(pool[w])'
    BY <1>2, <1>3, <1>5 DEF RssInv, Vouching, ResultsVouched, Vouched, JobVouched
  <1>6. CASE ReadMap
    <2>1. PICK etag \in {st[offered.feed], 0} : offered' = [offered EXCEPT !.etag = etag]
      BY <1>6 DEF ReadMap
    <2>2. feeder = "read" /\ feeder' = "offer" /\ offered \in Result /\ offered.feed \in Feed
      BY <1>6 DEF ReadMap, RssInv, Typed, Place
    <2>3. etag \in Version
      BY <2>2, Constants DEF RssInv, Typed, State
    <2>4. offered' \in Result /\ offered'.feed = offered.feed /\ offered'.etag = etag
      BY <2>1, <2>2, <2>3 DEF Result
    <2>5. Typed'
      BY <1>2, <1>3, <2>2, <2>4 DEF RssInv, Typed
    <2>6. Place' /\ EveryFeedGathered'
      BY <1>2, <1>3, <2>2, <2>4 DEF RssInv, Place, EveryFeedGathered
    <2>7. Left' = Left
      BY <2>2, <2>4 DEF Left
    <2>8. Counted'
      BY <1>2, <1>3, <1>4, <2>2, <2>7 DEF RssInv, Counted
    <2>9. Vouching'
      BY <1>2, <1>3, <1>5, <2>1, <2>2, <2>4 DEF RssInv, Vouching, Vouched
    <2> QED
      BY <1>3, <2>5, <2>6, <2>8, <2>9 DEF RssInv
  <1>7. CASE FeederCancelled
    <2>1. ctx = "cancelled" /\ feeder' = "done" /\ offered' = NoResult
      BY <1>7 DEF FeederCancelled
    <2>2. Typed'
      BY <1>2, <1>3, <2>1, Nothing DEF RssInv, Typed
    <2>3. Place' /\ EveryFeedGathered' /\ Counted'
      BY <1>2, <1>3, <2>1 DEF RssInv, Place, EveryFeedGathered, Counted
    <2>4. Vouching'
      BY <1>2, <1>3, <1>5, <2>1, Nothing DEF RssInv, Vouching, Vouched
    <2> QED
      BY <1>3, <2>2, <2>3, <2>4 DEF RssInv
  <1> QED
    BY <1>6, <1>7

-----------------------------------------------------------------------------
(* Collect. *)

LEMMA GatherStep ==
  ASSUME RssInv, Gather
  PROVE  RssInv'
  <1>1. /\ main = "range" /\ results # <<>> /\ main' = "write"
        /\ gathered' = Head(results) /\ results' = Tail(results)
        /\ UNCHANGED <<version, stops, feeder, offered, pool, st, done, result, fatal>>
        /\ UNCHANGED sinkVars
    BY DEF Gather, feederVars
  <1>2. /\ Queue!SinkType' /\ Durable' /\ All' = All
        /\ UNCHANGED <<phase, ctx, writer>> /\ (phase = "idle" => backlog' = <<>>)
    BY <1>1, SinkStill
  <1> DEFINE n == Len(results)
  <1>3. /\ Head(results) \in Gathered /\ Tail(results) \in Seq(Gathered)
        /\ Len(Tail(results)) = n - 1
        /\ \A i \in 1..Len(Tail(results)) : Tail(results)[i] = results[i + 1]
    BY <1>1, HeadTailProperties DEF RssInv, Typed
  <1>4. n \in Nat /\ n # 0 /\ Head(results) = results[1]
    BY <1>1, EmptySeq, LenProperties DEF RssInv, Typed
  <1> HIDE DEF n
  <1>5. gathered' \in Result /\ gathered'.feed \in Feed
    BY <1>1, <1>3, Constants DEF Gathered, Result
  <1>6. Typed'
    BY <1>1, <1>2, <1>3, <1>5 DEF RssInv, Typed
  <1>7. Place' /\ EveryFeedGathered'
    BY <1>1, <1>2, <1>5 DEF RssInv, Place, EveryFeedGathered
  <1>8. Counted'
    <2>1. Busy' = Busy /\ Left' = Left /\ InHand = 0 /\ InHand' = 1
      BY <1>1 DEF Busy, Left, InHand
    <2>2. Cardinality(Busy) \in Nat
      BY BusyIs
    <2>3. Left \in Nat /\ done \in Nat
      <3>1. feeder # "done" => offered.feed \in 1..Feeds
        BY DEF RssInv, Place, Feed
      <3> QED
        BY <3>1, Constants DEF Left, RssInv, Typed
    <2>4. Len(results') = n - 1
      BY <1>1, <1>3
    <2> QED
      BY <1>1, <1>2, <1>4, <2>1, <2>2, <2>3, <2>4 DEF RssInv, Counted, n
  <1>9. Vouching'
    <2> SUFFICES ASSUME Careful, writer = "live"
                 PROVE  (/\ \A f \in Feed : Vouched(f, st[f])
                         /\ Vouched(offered.feed, offered.etag)
                         /\ Vouched(gathered.feed, gathered.etag)
                         /\ ResultsVouched
                         /\ \A v \in Workers : JobVouched(pool[v]))'
      BY <1>2 DEF Vouching
    <2>1. \A i \in 1..n : results[i].etag # 0 => <<results[i].feed, results[i].etag>> \in All
      BY DEF RssInv, Vouching, ResultsVouched, Vouched, n
    <2>2. Vouched(gathered.feed, gathered.etag)'
      <3>1. 1 \in 1..n
        BY <1>4
      <3> QED
        BY <1>1, <1>2, <1>4, <2>1, <3>1 DEF Vouched
    <2>3. ResultsVouched'
      <3>1. \A i \in 1..(n - 1) : i + 1 \in 1..n
        BY <1>4
      <3> QED
        BY <1>1, <1>2, <1>3, <2>1, <3>1 DEF ResultsVouched, Vouched
    <2>4. (/\ \A f \in Feed : Vouched(f, st[f])
           /\ Vouched(offered.feed, offered.etag)
           /\ \A v \in Workers : JobVouched(pool[v]))'
      BY <1>1, <1>2 DEF RssInv, Vouching, Vouched, JobVouched
    <2> QED
      BY <2>2, <2>3, <2>4
  <1> QED
    BY <1>2, <1>6, <1>7, <1>8, <1>9 DEF RssInv

LEMMA WriteMapStep ==
  ASSUME RssInv, WriteMap
  PROVE  RssInv'
  <1>1. /\ main = "write" /\ main' \in {"save", "range"}
        /\ st' = [st EXCEPT ![gathered.feed] = gathered.etag]
        /\ gathered' = NoResult /\ done' = done + 1
        /\ UNCHANGED <<version, stops, feeder, offered, pool, results, result, fatal>>
        /\ UNCHANGED sinkVars
    BY DEF WriteMap, feederVars
  <1>2. /\ Queue!SinkType' /\ Durable' /\ All' = All
        /\ UNCHANGED <<phase, ctx, writer>> /\ (phase = "idle" => backlog' = <<>>)
    BY <1>1, SinkStill
  <1>3. gathered.feed \in Feed /\ gathered.etag \in Version /\ st \in [Feed -> Version]
    BY <1>1 DEF RssInv, Typed, Place, Result, State
  <1>4. /\ st' \in State /\ st'[gathered.feed] = gathered.etag
        /\ \A f \in Feed : f # gathered.feed => st'[f] = st[f]
    BY <1>1, <1>3 DEF State
  <1>5. Typed'
    BY <1>1, <1>2, <1>4, Nothing DEF RssInv, Typed
  <1>6. Place' /\ EveryFeedGathered'
    BY <1>1, <1>2 DEF RssInv, Place, EveryFeedGathered
  <1>7. Counted'
    <2>1. Busy' = Busy /\ Left' = Left /\ InHand = 1 /\ InHand' = 0
      BY <1>1 DEF Busy, Left, InHand
    <2>2. Cardinality(Busy) \in Nat
      BY BusyIs
    <2>3. Left \in Nat /\ done \in Nat /\ Len(results) \in Nat
      <3>1. feeder # "done" => offered.feed \in 1..Feeds
        BY DEF RssInv, Place, Feed
      <3> QED
        BY <3>1, Constants, LenProperties DEF Left, RssInv, Typed
    <2> QED
      BY <1>1, <1>2, <2>1, <2>2, <2>3 DEF RssInv, Counted
  <1>8. Vouching'
    <2>1. ASSUME Careful, writer = "live", NEW f \in Feed
          PROVE  Vouched(f, st[f])'
      BY <1>2, <1>4, <2>1 DEF RssInv, Vouching, Vouched
    <2> QED
      BY <1>1, <1>2, <2>1, Nothing
         DEF RssInv, Vouching, ResultsVouched, Vouched, JobVouched
  <1> QED
    BY <1>2, <1>5, <1>6, <1>7, <1>8 DEF RssInv

(* A run that goes on comes to the last SaveState with every feed gathered. *)
LEMMA SaveStep ==
  ASSUME RssInv, SaveSome \/ SaveLast
  PROVE  RssInv'
  <1>1. PICK err \in Queue!Errors :
           /\ Queue!PutState(st, err)
           /\ \/ main = "save" /\ err = "nil" /\ main' = "range" /\ UNCHANGED result
              \/ main = "save" /\ err # "nil" /\ Leave(err)
              \/ /\ main = "range" /\ AllGathered
                 /\ Leave(IF ctx = "cancelled" THEN "Canceled" ELSE err)
    BY DEF SaveSome, SaveLast
  <1>2. UNCHANGED <<version, stops, feeder, offered, pool, results, gathered, st, done, fatal>>
    BY DEF SaveSome, SaveLast, feederVars
  <1>3. /\ Queue!SinkType'
        /\ UNCHANGED <<rows, saved, phase, ctx, writer>>
        /\ Durable' /\ All' = All
    BY <1>1, Saving
  <1>4. main \in {"range", "save"} /\ main' \in {"range", "closing"} /\ result' \in Queue!Errors
    BY <1>1 DEF Leave, RssInv, Typed, Queue!Errors
  <1>5. Typed'
    BY <1>2, <1>3, <1>4 DEF RssInv, Typed
  <1>6. Place'
    BY <1>2, <1>3, <1>4 DEF RssInv, Place
  <1>7. Counted'
    <2>1. Busy' = Busy /\ Left' = Left /\ InHand' = InHand
      BY <1>2, <1>4 DEF Busy, Left, InHand
    <2> QED
      BY <1>2, <1>3, <1>4, <2>1 DEF RssInv, Counted
  <1>8. EveryFeedGathered'
    <2> SUFFICES ASSUME main' = "closing", ctx = "live", result' = "nil"
                 PROVE  done = Feeds
      BY <1>2, <1>3 DEF EveryFeedGathered
    <2>1. main = "range" /\ AllGathered
      BY <1>1 DEF Leave
    <2>2. results = <<>> /\ \A w \in Workers : pool[w].at = "gone"
      BY <2>1 DEF AllGathered
    <2>3. feeder = "done"
      BY <2>1, <2>2, RssAssumption DEF RssInv, Counted
    <2>4. Busy = {} /\ Left = 0 /\ InHand = 0 /\ Len(results) = 0
      BY <2>1, <2>2, <2>3, Nothing DEF Busy, Left, InHand, Resting
    <2>5. Cardinality({}) = 0
      BY FS_EmptySet
    <2> QED
      BY <2>1, <2>4, <2>5 DEF RssInv, Counted, Typed
  <1>9. Vouching'
    BY <1>2, <1>3 DEF RssInv, Vouching, ResultsVouched, Vouched, JobVouched
  <1> QED
    BY <1>3, <1>5, <1>6, <1>7, <1>8, <1>9 DEF RssInv

LEMMA ReturnStep ==
  ASSUME RssInv, Return
  PROVE  RssInv'
  <1>1. /\ main = "closing" /\ main' = "returned" /\ phase' = "closing"
        /\ UNCHANGED <<ctx, writer, emitted, backlog, rows, saved>>
        /\ UNCHANGED <<version, stops, feeder, offered, pool, results, gathered, st, done,
                       result, fatal>>
    BY DEF Return, Queue!CollectReturns, Queue!vars, feederVars
  <1>2. Durable' /\ All' = All
    BY <1>1, Still
  <1>3. Typed'
    BY <1>1 DEF RssInv, Typed, Queue!SinkType, Queue!TypeOK
  <1>4. Place' /\ Counted' /\ EveryFeedGathered'
    BY <1>1 DEF RssInv, Place, Counted, EveryFeedGathered
  <1>5. Vouching'
    BY <1>1, <1>2 DEF RssInv, Vouching, ResultsVouched, Vouched, JobVouched
  <1> QED
    BY <1>2, <1>3, <1>4, <1>5 DEF RssInv

-----------------------------------------------------------------------------
(* The run around it, and the environment. *)

LEMMA WriteStep ==
  ASSUME RssInv, Write
  PROVE  RssInv'
  <1>1. /\ Queue!SinkType'
        /\ UNCHANGED <<phase, ctx, writer, emitted>>
        /\ Durable' /\ All' = All
    BY Writing DEF Write
  <1>2. UNCHANGED <<version, stops, feeder, offered, pool, results, main, gathered, st, done,
                    result, fatal>>
    BY DEF Write, adapterVars, feederVars, mainVars
  <1>3. Typed'
    BY <1>1, <1>2 DEF RssInv, Typed
  <1>4. phase # "idle"
    <2>1. PICK n \in 1..Len(backlog) : Queue!Commit(n)
      BY DEF Write, Queue!Write
    <2>2. backlog # <<>>
      BY <2>1, EmptySeq
    <2> QED
      BY <2>2 DEF RssInv, Place
  <1>5. Place' /\ EveryFeedGathered'
    BY <1>1, <1>2, <1>4 DEF RssInv, Place, EveryFeedGathered
  <1>6. Counted'
    BY <1>1, <1>2 DEF RssInv, Counted, Busy, Left, InHand
  <1>7. Vouching'
    BY <1>1, <1>2 DEF RssInv, Vouching, ResultsVouched, Vouched, JobVouched
  <1> QED
    BY <1>1, <1>3, <1>5, <1>6, <1>7 DEF RssInv

LEMMA WriteFailsStep ==
  ASSUME RssInv, WriteFails
  PROVE  RssInv'
  <1>1. /\ Queue!TypeOK' /\ Durable' /\ backlog' = <<>>
        /\ writer' = "dead" /\ UNCHANGED <<phase, ctx, emitted>>
    BY Losing DEF WriteFails, Queue!WriteFails
  <1>2. /\ UNCHANGED <<version, feeder, offered, pool, results, main, gathered, st, done,
                       result, fatal>>
        /\ stops < MaxStops /\ stops' = stops + 1
    BY DEF WriteFails, Trouble, adapterVars, feederVars, mainVars
  <1>3. Typed'
    BY <1>1, <1>2, RssAssumption DEF RssInv, Typed, Queue!SinkType
  <1>4. Place' /\ EveryFeedGathered'
    BY <1>1, <1>2 DEF RssInv, Place, EveryFeedGathered
  <1>5. Counted' /\ Vouching'
    BY <1>1, <1>2 DEF RssInv, Counted, Busy, Left, InHand, Vouching
  <1> QED
    BY <1>1, <1>3, <1>4, <1>5 DEF RssInv

LEMMA QuietStep ==
  ASSUME RssInv,
         \/ Interrupt \/ Recover \/ (\E f \in Feed : Update(f)) \/ UNCHANGED vars
  PROVE  RssInv'
  <1>1. /\ UNCHANGED <<backlog, rows, saved, phase, writer, emitted, feeder, offered, pool,
                       results, main, gathered, st, done, result>>
        /\ ctx' \in {ctx, "cancelled"}
        /\ stops' = stops \/ (stops < MaxStops /\ stops' = stops + 1)
        /\ fatal' \in {fatal, "no"}
        /\ version' = version \/ \E f \in Feed : version' = [version EXCEPT ![f] = @ + 1]
    BY DEF Interrupt, Queue!Interrupt, Queue!vars, Trouble, Recover, Update, vars, sinkVars,
           adapterVars, feederVars, mainVars
  <1>2. Durable' /\ All' = All
    BY <1>1, Still
  <1>3. version' \in [Feed -> Version]
    BY <1>1 DEF RssInv, Typed, Version
  <1>4. stops' \in 0..MaxStops
    BY <1>1, RssAssumption DEF RssInv, Typed
  <1>5. Typed'
    BY <1>1, <1>3, <1>4 DEF RssInv, Typed, Queue!SinkType, Queue!TypeOK
  <1>6. Place' /\ EveryFeedGathered'
    BY <1>1 DEF RssInv, Place, EveryFeedGathered
  <1>7. Counted'
    BY <1>1 DEF RssInv, Counted, Busy, Left, InHand
  <1>8. Vouching'
    BY <1>1, <1>2 DEF RssInv, Vouching, ResultsVouched, Vouched, JobVouched
  <1> QED
    BY <1>2, <1>5, <1>6, <1>7, <1>8 DEF RssInv

LEMMA EndStep ==
  ASSUME RssInv, EndRun \/ Crash \/ RaceDetected \/ SendOnClosed
  PROVE  RssInv'
  <1>1. CASE EndRun
    <2>1. /\ phase' = "idle" /\ backlog' = <<>> /\ Stop
          /\ UNCHANGED <<backlog, rows, saved, ctx, writer, emitted, stops, fatal>>
      BY <1>1 DEF EndRun, Queue!EndRun, Queue!vars
    <2>2. Durable' /\ Queue!SinkType'
      BY <2>1, Still DEF RssInv, Typed, Queue!SinkType, Queue!TypeOK
    <2> QED
      BY <2>1, <2>2, StopStep DEF RssInv, Typed
  <1>2. CASE Crash \/ RaceDetected \/ SendOnClosed
    <2>1. /\ Queue!Crash /\ Stop
          /\ stops' = stops \/ (stops < MaxStops /\ stops' = stops + 1)
          /\ fatal' \in {fatal, "race", "panic"}
      BY <1>2 DEF Crash, RaceDetected, SendOnClosed, Trouble
    <2>2. /\ Queue!TypeOK' /\ Durable' /\ backlog' = <<>>
          /\ phase' = "idle" /\ UNCHANGED <<ctx, writer, emitted>>
      BY <2>1, Losing DEF Queue!Crash
    <2>3. Queue!SinkType'
      BY <2>2 DEF RssInv, Typed, Queue!SinkType
    <2>4. stops' \in 0..MaxStops
      BY <2>1, RssAssumption DEF RssInv, Typed
    <2>5. fatal' \in {"no", "race", "panic"}
      BY <2>1 DEF RssInv, Typed
    <2> QED
      BY <2>1, <2>2, <2>3, <2>4, <2>5, StopStep
  <1> QED
    BY <1>1, <1>2

LEMMA RssStep == RssInv /\ [Next]_vars => RssInv'
  <1> SUFFICES ASSUME RssInv, [Next]_vars
               PROVE  RssInv'
    OBVIOUS
  <1>1. ASSUME NEW resume \in BOOLEAN, StartRun(resume)
        PROVE  RssInv'
    BY <1>1, StartStep
  <1>2. ASSUME NEW w \in Workers, WorkerStep(w)
        PROVE  RssInv'
    BY <1>2, WorkerSteps
  <1>3. CASE MainStep
    BY <1>3, GatherStep, WriteMapStep, SaveStep, ReturnStep DEF MainStep
  <1> QED
    BY <1>1, <1>2, <1>3, FeederStep, EndStep, WriteStep, WriteFailsStep, QuietStep DEF Next

LEMMA RssInvariant == Spec => []RssInv
  BY RssInit, RssStep, PTL DEF Spec

-----------------------------------------------------------------------------
(* What follows. *)

(* Every variable of the adapter holds a value of its type. *)
THEOREM TypeCorrect == Spec => []Typed
  <1>1. RssInv => Typed
    BY DEF RssInv
  <1> QED
    BY RssInvariant, <1>1, PTL

(* Whatever the workers meet, and however their results interleave, a run   *)
(* that was neither cancelled nor refused gathers a result of every feed.   *)
THEOREM NoFeedIsPassedOver == Spec => []EveryFeedGathered
  <1>1. RssInv => EveryFeedGathered
    BY DEF RssInv
  <1> QED
    BY RssInvariant, <1>1, PTL

(* Where no document is broken and no limit cuts a batch, a saved ETag is   *)
(* that of a version whose items are in the database: through the races     *)
(* for the map, failing requests and writers, cancellation and crashes.     *)
THEOREM EtagsVouch ==
  ASSUME MaxRecords = 0, "parse" \notin Faults
  PROVE  Spec => []EtagCovered
  <1>1. RssInv => EtagCovered
    <2> SUFFICES ASSUME RssInv, saved # NoState, NEW f \in Feed, saved[f] # 0
                 PROVE  <<f, saved[f]>> \in rows
      BY DEF EtagCovered
    <2>1. <<saved, rows>> \in Covered
      BY DEF RssInv, Durable, Log!Sound
    <2> QED
      BY <2>1 DEF Covered, Careful
  <1> QED
    BY RssInvariant, <1>1, PTL
=============================================================================
