------------------------------ MODULE GithubProofs ------------------------------
(***************************************************************************)
(* Theorems about GithubSource, for every list of datasets, every number   *)
(* of repositories, pages and workers, every size of pages, batches and    *)
(* queries, every limit, and whatever fails.                               *)
(***************************************************************************)
EXTENDS GithubSource, TLAPS, SequenceTheorems, FiniteSetTheorems

Log == INSTANCE SinkLemmas

-----------------------------------------------------------------------------
(* The inductive invariant: types, and where everything is. *)

Repositories == {"repositories", "emit_repositories", "save_repositories", "rest_repositories"}
Events == {"events", "emit_events", "save_events", "rest_events"}
Details == {"repo_details", "ask", "emit_details"}
Steps == {"off", "dataset", "return"} \cup Repositories \cup Events \cup Details

RepoRow(i) == <<"repo", i>>

(* The chunks that were taken are the first ones. *)
Chunking ==
    /\ 1..next \subseteq Chunks
    /\ answered \subseteq 1..next /\ failed \subseteq 1..next
    /\ pool \in [Workers -> {0, Done} \cup (1..next)]

Place ==
    /\ step \in Steps
    /\ step # "off" <=> phase = "collecting"
    /\ phase = "idle" => backlog = <<>>
    /\ step \notin {"off", "dataset", "return"} => ds <= Len(Datasets)
    /\ step = "emit_repositories" =>
          /\ Len(batch) <= st.since
          /\ \A i \in 1..Len(batch) : batch[i] = RepoRow(st.since - Len(batch) + i)
    /\ step = "emit_events" => \A i \in 1..Len(batch), j \in Repo : batch[i] # RepoRow(j)

-----------------------------------------------------------------------------
(* What the database has. *)

(* Sets of records with no repository before one of them left out.          *)
Closed ==
    {R \in SUBSET Record :
        \A i, j \in Repo : i < j /\ RepoRow(j) \in R => RepoRow(i) \in R}

(* The records that a state stands for. *)
Vouches(s, R) ==
    /\ \A i \in 1..s.since : RepoRow(i) \in R
    /\ s.etag # 0 => <<"event", s.etag, 1>> \in R
    /\ \A i \in 1..s.details : i \in Gone \/ Snapshot(i) \in R

Covered == {p \in State \X SUBSET Record : Vouches(p[1], p[2])}

(* Whatever part of the log a crash leaves out, the rest covers its state.  *)
Durable == Log!Sound(Closed, Covered, NoState, rows, backlog, saved)

(* All that the run has handed over, as long as the writer takes it.        *)
All == Log!Backlogged

(* What Collect is about to hand over. *)
Batch == {batch[i] : i \in 1..Len(batch)}

Holds(i) == i \in Gone \/ Snapshot(i) \in All

-----------------------------------------------------------------------------
(* The state in memory: with the page that is being emitted it is covered,  *)
(* so that it is whenever some dataset saves it.                            *)
InHand ==
    writer = "live" =>
        /\ step \notin {"emit_repositories", "emit_events", "return", "off"} => Vouches(st, All)
        /\ step \in {"emit_repositories", "emit_events"} => Vouches(st, All \cup Batch)
        /\ step = "emit_repositories" =>
              \A i \in 1..(st.since - Len(batch)) : RepoRow(i) \in All

(* Between two targets, each repository has its snapshot.                   *)
NoGap ==
    writer = "live" /\ step \in {"ask", "emit_details"} =>
        \A t \in targets, i \in Repo : st.details < i /\ i < t /\ i \notin targets => Snapshot(i) \in All

(* A chunk that was taken is answered, failed or with a worker; workers     *)
(* leave chunks behind only after a failure or a cancellation.              *)
Asked ==
    /\ step = "ask" =>
          /\ chunk = 1
          /\ \A c \in 1..next : c \in answered \cup failed \/ \E w \in Workers : pool[w] = c
          /\ ctx = "live" /\ failed = {} => \A w \in Workers : pool[w] = Done => ~IsLeft
    /\ step = "emit_details" =>
          \A c \in Chunks : (\A f \in failed : c < f) => c \in answered

(* The answered chunks before the next one are handed over.                 *)
Emitted ==
    step = "emit_details" =>
        /\ chunk \in Nat \ {0}
        /\ writer = "live" =>
              \A t \in targets :
                 ChunkOf(t) < chunk /\ ChunkOf(t) \in answered /\ ChunkOf(t) \notin failed => Holds(t)

GithubInv ==
    /\ TypeOK /\ Chunking /\ Place
    /\ Durable /\ InHand /\ NoGap /\ Asked /\ Emitted

-----------------------------------------------------------------------------
(* Sets of repositories in order, and the chunks they are cut into. *)

LEMMA Constants ==
  /\ MaxRecords \in Nat /\ LastRepo \in Nat /\ NoState \notin State
  /\ PageSize \in Nat \ {0} /\ PerQuery \in Nat \ {0} /\ DetailBatch \in Nat \ {0}
  /\ Fresh \in State /\ Done \in Nat /\ MaxStops \in Nat /\ MaxUpdates \in Nat
  BY GithubAssumption DEF State, Fresh, Version, Done

LEMMA SameSets ==
  /\ \A S : Log!IsFiniteSet(S) <=> IsFiniteSet(S)
  /\ \A S : Log!Cardinality(S) = Cardinality(S)
  BY DEF Log!IsFiniteSet, IsFiniteSet, Log!Cardinality, Cardinality

(* The rank of a number among those of a set, which SinkLemmas counts.      *)
LEMMA RankIs == \A S, t : Log!Rank(S, t) = Cardinality({u \in S : u < t})
  BY SameSets DEF Log!Rank, Log!Below

LEMMA Ranks ==
  ASSUME NEW S \in SUBSET Nat, IsFiniteSet(S)
  PROVE  /\ Cardinality(S) \in Nat
         /\ \A t \in S : Log!Rank(S, t) \in Nat /\ Log!Rank(S, t) < Cardinality(S)
         /\ \A t, u \in S : t < u => Log!Rank(S, t) < Log!Rank(S, u)
         /\ \A i \in Nat : i < Cardinality(S) => \E t \in S : Log!Rank(S, t) = i
  <1>1. Log!IsFiniteSet(S)
    BY SameSets
  <1>2. /\ Log!Cardinality(S) \in Nat
        /\ \A t \in S : Log!Rank(S, t) \in Nat /\ Log!Rank(S, t) < Log!Cardinality(S)
        /\ \A t, u \in S : t < u => Log!Rank(S, t) < Log!Rank(S, u)
        /\ \A i \in Nat : i < Log!Cardinality(S) => \E t \in S : Log!Rank(S, t) = i
    BY <1>1, Log!Ranks
  <1> QED
    BY <1>2, SameSets

(* InOrder enumerates a finite set of numbers. *)
LEMMA InOrderIs ==
  ASSUME NEW S \in SUBSET Nat, IsFiniteSet(S)
  PROVE  /\ DOMAIN InOrder(S) = 1..Cardinality(S)
         /\ \A j \in DOMAIN InOrder(S) : InOrder(S)[j] \in S
         /\ \A t \in S : \E j \in DOMAIN InOrder(S) : InOrder(S)[j] = t
  <1>1. InOrder(S) = Log!Ascending(S)
    BY SameSets DEF InOrder, Log!Ascending
  <1>2. Log!IsFiniteSet(S)
    BY SameSets
  <1>3. /\ DOMAIN Log!Ascending(S) = 1..Log!Cardinality(S)
        /\ \A j \in DOMAIN Log!Ascending(S) : Log!Ascending(S)[j] \in S
        /\ \A t \in S : \E j \in DOMAIN Log!Ascending(S) : Log!Ascending(S)[j] = t
    BY <1>2, Log!AscendingIs
  <1> QED
    BY <1>1, <1>3, SameSets

LEMMA RepoSets ==
  ASSUME NEW S \in SUBSET Repo
  PROVE  S \in SUBSET Nat /\ IsFiniteSet(S) /\ Cardinality(S) \in Nat /\ Cardinality(S) <= LastRepo
  <1>1. IsFiniteSet(1..LastRepo) /\ Cardinality(1..LastRepo) = LastRepo
    BY Constants, FS_Interval
  <1>2. S \in SUBSET (1..LastRepo)
    BY DEF Repo
  <1>3. IsFiniteSet(S) /\ Cardinality(S) <= Cardinality(1..LastRepo)
    BY <1>1, <1>2, FS_Subset
  <1>4. Cardinality(S) \in Nat
    BY <1>3, FS_CardinalityType
  <1>5. S \in SUBSET Nat
    BY <1>2
  <1> QED
    BY <1>1, <1>3, <1>4, <1>5

(* Some set of repositories has a last one. *)
LEMMA LastOfIs ==
  ASSUME NEW S \in SUBSET Repo, S # {}
  PROVE  LastOf(S) \in S /\ \A j \in S : j <= LastOf(S)
  <1> DEFINE n == Cardinality(S)
  <1>1. n \in Nat /\ n # 0
    BY RepoSets, FS_EmptySet
  <1>2. PICK t \in S : Log!Rank(S, t) = n - 1
    <2>1. n - 1 \in Nat /\ n - 1 < n
      BY <1>1
    <2> QED
      BY <2>1, RepoSets, Ranks
  <1>3. \A j \in S : j <= t
    <2> SUFFICES ASSUME NEW j \in S, t < j
                 PROVE  FALSE
      BY RepoSets
    <2>1. Log!Rank(S, t) < Log!Rank(S, j) /\ Log!Rank(S, j) < n /\ Log!Rank(S, j) \in Nat
      BY RepoSets, Ranks
    <2> HIDE DEF n
    <2> QED
      BY <1>1, <1>2, <2>1
  <1> QED
    BY <1>3 DEF LastOf

(* The chunks of the targets are 1, 2, 3, ..., in the order of the targets. *)
LEMMA ChunksAre ==
  ASSUME targets \in SUBSET Repo
  PROVE  /\ \A t \in targets : ChunkOf(t) \in 1..LastRepo
         /\ \A t, u \in targets : t < u => ChunkOf(t) <= ChunkOf(u)
         /\ Chunks \subseteq 1..LastRepo
         /\ \A c \in Chunks, d \in Nat \ {0} : d <= c => d \in Chunks
  <1> DEFINE n == Cardinality(targets)
             k == PerQuery
  <1>1. targets \in SUBSET Nat /\ IsFiniteSet(targets) /\ n \in Nat /\ n <= LastRepo
    BY RepoSets
  <1>2. \A t : ChunkOf(t) = (Log!Rank(targets, t) \div k) + 1
    BY RankIs DEF ChunkOf
  <1>3. k \in Nat \ {0} /\ LastRepo \in Nat
    BY Constants
  <1>4. /\ \A t \in targets : Log!Rank(targets, t) \in Nat /\ Log!Rank(targets, t) < n
        /\ \A t, u \in targets : t < u => Log!Rank(targets, t) < Log!Rank(targets, u)
        /\ \A i \in Nat : i < n => \E t \in targets : Log!Rank(targets, t) = i
    BY <1>1, Ranks
  <1> HIDE DEF n, k
  <1>5. ASSUME NEW a \in Nat
        PROVE  a \div k \in Nat /\ a \div k <= a
    BY <1>3
  <1>6. ASSUME NEW a \in Nat, NEW b \in Nat, a < b
        PROVE  a \div k <= b \div k
    BY <1>3, <1>6
  <1>7. ASSUME NEW t \in targets
        PROVE  ChunkOf(t) \in 1..LastRepo
    <2> DEFINE r == Log!Rank(targets, t)
    <2>1. r \in Nat /\ r < n
      BY <1>4
    <2> HIDE DEF r
    <2>2. r \div k \in Nat /\ r \div k <= r
      BY <1>5, <2>1
    <2> QED
      BY <1>1, <1>2, <1>3, <2>1, <2>2 DEF r
  <1>8. ASSUME NEW t \in targets, NEW u \in targets, t < u
        PROVE  ChunkOf(t) <= ChunkOf(u)
    <2> DEFINE r == Log!Rank(targets, t)
               q == Log!Rank(targets, u)
    <2>1. r \in Nat /\ q \in Nat /\ r < q
      BY <1>4, <1>8
    <2> HIDE DEF r, q
    <2>2. r \div k <= q \div k /\ r \div k \in Nat /\ q \div k \in Nat
      BY <1>5, <1>6, <2>1
    <2> QED
      BY <1>2, <2>2 DEF r, q
  <1>9. ASSUME NEW t \in targets, NEW d \in Nat \ {0}, d <= ChunkOf(t)
        PROVE  d \in Chunks
    <2> DEFINE r == Log!Rank(targets, t)
    <2>1. r \in Nat /\ r < n
      BY <1>4
    <2>2. d - 1 \in Nat /\ d - 1 <= r \div k
      BY <1>2, <1>5, <1>9, <2>1
    <2> HIDE DEF r
    <2>3. (d - 1) * k \in Nat /\ (d - 1) * k <= r
      BY <1>3, <2>1, <2>2
    <2>4. PICK u \in targets : Log!Rank(targets, u) = (d - 1) * k
      BY <1>1, <1>4, <2>1, <2>3
    <2>5. ((d - 1) * k) \div k = d - 1
      BY <1>3, <2>2
    <2>6. ChunkOf(u) = d
      BY <1>2, <2>2, <2>4, <2>5
    <2> QED
      BY <2>6 DEF Chunks
  <1> QED
    BY <1>7, <1>8, <1>9 DEF Chunks

-----------------------------------------------------------------------------
(* The queue. *)

(* More records vouch for what fewer do. *)
LEMMA VouchesGrows ==
  ASSUME NEW s, NEW A, NEW B, Vouches(s, A), A \subseteq B
  PROVE  Vouches(s, B)
  BY DEF Vouches

LEMMA CoveredGrows == Log!Monotone(Closed, Covered)
  <1> SUFFICES ASSUME NEW x, NEW A, NEW B,
                      <<x, A>> \in Covered, A \subseteq B, B \in Closed
               PROVE  <<x, B>> \in Covered
    BY DEF Log!Monotone
  <1>1. x \in State /\ Vouches(x, A) /\ B \in SUBSET Record
    BY DEF Covered, Closed
  <1>2. Vouches(x, B)
    BY <1>1, VouchesGrows
  <1> QED
    BY <1>1, <1>2 DEF Covered

(* What Sink.tla says of the queue. *)
LEMMA Sink ==
  /\ Queue!SinkType <=> Log!SinkType
  /\ \A recs, err : Queue!Emit(recs, err) <=> Log!Emit(recs, err)
  /\ \A x, err : Queue!PutState(x, err) <=> Log!PutState(x, err)
  /\ Queue!Write <=> Log!Write
  /\ Queue!Lose <=> Log!Lose
  <1>1. Queue!SinkType <=> Log!SinkType
    BY DEF Queue!SinkType, Log!SinkType, Queue!TypeOK, Log!TypeOK, Queue!Message, Log!Message
  <1>2. ASSUME NEW recs, NEW err
        PROVE  Queue!Emit(recs, err) <=> Log!Emit(recs, err)
    BY DEF Queue!Emit, Log!Emit, Queue!Kept, Log!Kept, Queue!Overdraws, Log!Overdraws,
           Queue!Room, Log!Room, Queue!Deliver, Log!Deliver, Queue!Accept, Log!Accept,
           Queue!RecsIn, Log!RecsIn, Queue!Refused, Log!Refused, Queue!vars, Log!vars
  <1>3. ASSUME NEW x, NEW err
        PROVE  Queue!PutState(x, err) <=> Log!PutState(x, err)
    BY DEF Queue!PutState, Log!PutState, Queue!Deliver, Log!Deliver, Queue!Accept, Log!Accept,
           Queue!Refused, Log!Refused, Queue!vars, Log!vars, Queue!runVars, Log!runVars
  <1>4. Queue!Write <=> Log!Write
    BY DEF Queue!Write, Log!Write, Queue!Commit, Log!Commit, Queue!RecsOf, Log!RecsOf,
           Queue!IsLastState, Log!IsLastState, Queue!runVars, Log!runVars
  <1>5. Queue!Lose <=> Log!Lose
    BY DEF Queue!Lose, Log!Lose
  <1> QED
    BY <1>1, <1>2, <1>3, <1>4, <1>5

LEMMA Still ==
  ASSUME GithubInv, UNCHANGED <<backlog, rows, saved>>
  PROVE  Durable' /\ All' = All
  BY DEF GithubInv, Durable, All, Log!Backlogged

(* What was handed over has no gaps, nor has what is in the database. *)
LEMMA AllClosed ==
  ASSUME GithubInv
  PROVE  All \in Closed /\ rows \in Closed /\ rows \subseteq All
  <1>1. backlog \in Seq(Queue!Message) /\ Len(backlog) \in Nat
    BY LenProperties DEF GithubInv, TypeOK, Queue!SinkType, Queue!TypeOK
  <1>2. \A k \in 0..Len(backlog) : Log!Reach(rows, backlog, k) \in Closed
    BY DEF GithubInv, Durable, Log!Sound
  <1>3. All \in Closed
    BY <1>1, <1>2 DEF All, Log!Backlogged, Log!Accepted
  <1>4. Log!Reach(rows, backlog, 0) = rows
    BY Log!ReachZero
  <1>5. rows \in Closed
    BY <1>1, <1>2, <1>4
  <1>6. rows \subseteq All
    BY <1>1, Log!AcceptedIsMost DEF All, Log!Backlogged
  <1> QED
    BY <1>3, <1>5, <1>6

LEMMA Emitting ==
  ASSUME GithubInv, NEW recs \in Seq(Record), NEW err, Queue!Emit(recs, err),
         writer = "live" => Log!Leaves(Closed, recs, err)
  PROVE  /\ Queue!SinkType'
         /\ UNCHANGED <<rows, saved, phase, ctx, writer>>
         /\ Durable'
         /\ All \subseteq All'
         /\ err = "nil" /\ writer = "live" => \A i \in 1..Len(recs) : recs[i] \in All'
  <1>1. Log!SinkType /\ Log!Emit(recs, err) /\ Durable
    BY Sink DEF GithubInv, TypeOK
  <1>2. /\ Log!SinkType'
        /\ UNCHANGED <<rows, saved, phase, ctx, writer>>
        /\ Log!Sound(Closed, Covered, NoState, rows', backlog', saved')
        /\ Log!Backlogged \subseteq Log!Backlogged'
        /\ err = "nil" /\ writer = "live" => \A i \in 1..Len(recs) : recs[i] \in Log!Backlogged'
    BY <1>1, Constants, Log!EmitKeeps DEF Durable
  <1>3. Queue!SinkType'
    BY <1>2
       DEF Queue!SinkType, Log!SinkType, Queue!TypeOK, Log!TypeOK, Queue!Message, Log!Message
  <1> QED
    BY <1>2, <1>3 DEF Durable, All

(* An Emit that fails ends the run, or its records are lost anyway. *)
LEMMA EmitFails ==
  ASSUME NEW recs, NEW err, Queue!Emit(recs, err), err # "nil", writer = "live"
  PROVE  EndsRun(err)
  BY DEF EndsRun, Queue!Emit, Queue!Refused

LEMMA PutFails ==
  ASSUME NEW x, NEW err, Queue!PutState(x, err), err # "nil", writer = "live"
  PROVE  EndsRun(err)
  BY DEF EndsRun, Queue!PutState, Queue!Refused

LEMMA Saving ==
  ASSUME GithubInv, NEW s \in State, NEW err, Queue!PutState(s, err),
         writer = "live" => Vouches(s, All)
  PROVE  /\ Queue!SinkType'
         /\ UNCHANGED <<rows, saved, phase, ctx, writer>>
         /\ Durable'
         /\ All' = All
  <1>1. Log!SinkType /\ Log!PutState(s, err) /\ Durable
    BY Sink DEF GithubInv, TypeOK
  <1>2. writer = "live" => <<s, All>> \in Covered
    BY AllClosed DEF Covered, Closed
  <1>3. /\ Log!SinkType'
        /\ UNCHANGED <<rows, saved, phase, ctx, writer>>
        /\ Log!Sound(Closed, Covered, NoState, rows', backlog', saved')
        /\ Log!Backlogged' = Log!Backlogged
    BY <1>1, <1>2, Constants, Log!PutStateKeeps DEF Durable, All
  <1>4. Queue!SinkType'
    BY <1>3
       DEF Queue!SinkType, Log!SinkType, Queue!TypeOK, Log!TypeOK, Queue!Message, Log!Message
  <1> QED
    BY <1>3, <1>4 DEF Durable, All

LEMMA Writing ==
  ASSUME GithubInv, Queue!Write
  PROVE  /\ Queue!SinkType'
         /\ UNCHANGED <<phase, ctx, writer, emitted>>
         /\ Durable'
         /\ All' = All
  <1>1. Log!SinkType /\ Log!Write /\ Durable
    BY Sink DEF GithubInv, TypeOK
  <1>2. /\ Log!SinkType'
        /\ UNCHANGED <<phase, ctx, writer, emitted>>
        /\ Log!Sound(Closed, Covered, NoState, rows', backlog', saved')
        /\ Log!Backlogged' = Log!Backlogged
    BY <1>1, CoveredGrows, Log!WriteKeeps DEF Durable, All
  <1>3. Queue!SinkType'
    BY <1>2
       DEF Queue!SinkType, Log!SinkType, Queue!TypeOK, Log!TypeOK, Queue!Message, Log!Message
  <1> QED
    BY <1>2, <1>3 DEF Durable, All

LEMMA Losing ==
  ASSUME GithubInv, Queue!Lose
  PROVE  /\ Queue!TypeOK'
         /\ UNCHANGED <<rows, saved>> /\ backlog' = <<>>
         /\ Durable'
  <1>1. Log!SinkType /\ Log!Lose /\ Durable
    BY Sink DEF GithubInv, TypeOK
  <1>2. /\ Log!TypeOK'
        /\ UNCHANGED <<rows, saved>> /\ backlog' = <<>>
        /\ Log!Sound(Closed, Covered, NoState, rows', backlog', saved')
    BY <1>1, Log!LoseKeeps DEF Durable
  <1>3. Queue!TypeOK'
    BY <1>2 DEF Queue!TypeOK, Log!TypeOK, Queue!Message, Log!Message
  <1> QED
    BY <1>2, <1>3 DEF Durable

(* With nothing in the backlog, what was handed over is in the database.    *)
LEMMA Settled == ASSUME backlog = <<>> PROVE All = rows
  BY Log!AcceptedNone DEF All, Log!Backlogged

-----------------------------------------------------------------------------
(* Runs and datasets begin and end. *)

LEMMA Nothing ==
  /\ <<>> \in Seq(Record) /\ Len(<<>>) = 0 /\ 1..0 = {}
  /\ Fresh.since = 0 /\ Fresh.etag = 0 /\ Fresh.details = 0
  /\ \A R : Vouches(Fresh, R)
  /\ Cardinality({}) = 0
  <1>1. Fresh.since = 0 /\ Fresh.etag = 0 /\ Fresh.details = 0
    BY DEF Fresh
  <1>2. <<>> \in Seq(Record) /\ Len(<<>>) = 0 /\ 1..0 = {}
    OBVIOUS
  <1>3. \A R : Vouches(Fresh, R)
    BY <1>1, <1>2 DEF Vouches
  <1> QED
    BY <1>1, <1>2, <1>3, FS_EmptySet

LEMMA NoChunks == targets = {} => Chunks = {}
  BY DEF Chunks

(* The steps that leave the pool alone, outside of the pool's work. *)
LEMMA Outside ==
  ASSUME GithubInv, UNCHANGED poolVars, step' \notin {"ask", "emit_details"},
         Queue!SinkType', Durable', InHand', Place',
         newest' \in 0..LastRepo, version' \in Version, stops' \in 0..MaxStops,
         ds' \in 1..(Len(Datasets) + 1), page' \in Nat,
         batch' \in Seq(Record), Len(batch') <= PageSize, st' \in State
  PROVE  GithubInv'
  <1>1. UNCHANGED <<targets, next, pool, answered, failed, chunk>> /\ Chunks' = Chunks
    BY DEF poolVars, Chunks, ChunkOf
  <1>2. TypeOK'
    BY <1>1 DEF GithubInv, TypeOK
  <1>3. Chunking'
    BY <1>1 DEF GithubInv, Chunking
  <1>4. NoGap' /\ Asked' /\ Emitted'
    BY DEF NoGap, Asked, Emitted
  <1> QED
    BY <1>2, <1>3, <1>4 DEF GithubInv

(* Where a dataset leaves to. *)
LEMMA Leaving ==
  ASSUME GithubInv, NEW err, Leave(err), step \notin {"off", "dataset", "return"}
  PROVE  /\ step' \in {"return", "dataset"} /\ ds' \in 1..(Len(Datasets) + 1)
         /\ EndsRun(err) => step' = "return"
  <1>1. ds \in 1..(Len(Datasets) + 1) /\ ds <= Len(Datasets) /\ Len(Datasets) \in Nat
    BY GithubAssumption, LenProperties DEF GithubInv, TypeOK, Place
  <1> QED
    BY <1>1 DEF Leave

LEMMA GithubInit == Init => GithubInv
  <1> SUFFICES ASSUME Init
               PROVE  GithubInv
    OBVIOUS
  <1>1. /\ backlog = <<>> /\ rows = {} /\ saved = NoState
        /\ phase = "idle" /\ ctx = "live" /\ writer = "live" /\ emitted = 0
    BY DEF Init, Queue!SinkInit, Queue!Init
  <1>2. /\ newest = 0 /\ version = 1 /\ stops = 0
        /\ step = "off" /\ ds = 1 /\ page = 0 /\ batch = <<>> /\ st = Fresh
        /\ targets = {} /\ next = 0 /\ pool = NoPool
        /\ answered = {} /\ failed = {} /\ chunk = 0
    BY DEF Init
  <1>3. Queue!SinkType
    BY <1>1 DEF Queue!SinkType, Queue!TypeOK
  <1>4. TypeOK
    <2>1. Len(Datasets) \in Nat
      BY GithubAssumption, LenProperties
    <2> QED
      BY <1>2, <1>3, <2>1, Constants, Nothing, NoChunks DEF TypeOK, NoPool, Version
  <1>5. Chunking
    BY <1>2, Nothing DEF Chunking, NoPool
  <1>6. Place /\ InHand /\ NoGap /\ Asked /\ Emitted
    BY <1>1, <1>2 DEF Place, InHand, NoGap, Asked, Emitted, Steps
  <1>7. Durable
    <2>1. \A k \in 0..Len(<<>>) : Log!Reach({}, <<>>, k) = {}
      BY Log!ReachZero, EmptySeq
    <2>2. {} \in Closed
      BY DEF Closed
    <2> QED
      BY <1>1, <2>1, <2>2, Nothing DEF Durable, Log!Sound
  <1> QED
    BY <1>4, <1>5, <1>6, <1>7 DEF GithubInv

(* The end of the process. *)
LEMMA StopStep ==
  ASSUME GithubInv, Forget, phase' = "idle", backlog' = <<>>, Queue!SinkType', Durable',
         stops' \in 0..MaxStops
  PROVE  GithubInv'
  <1>1. /\ step' = "off" /\ ds' = 1 /\ page' = 0 /\ batch' = <<>> /\ st' = Fresh
        /\ targets' = {} /\ next' = 0 /\ pool' = NoPool
        /\ answered' = {} /\ failed' = {} /\ chunk' = 0
        /\ newest' = newest /\ version' = version
    BY DEF Forget, serverVars
  <1>2. Chunks' = {}
    BY <1>1 DEF Chunks
  <1>3. TypeOK'
    <2>1. Len(Datasets) \in Nat
      BY GithubAssumption, LenProperties
    <2> QED
      BY <1>1, <1>2, <2>1, Constants, Nothing DEF GithubInv, TypeOK, NoPool
  <1>4. Chunking'
    BY <1>1, Nothing DEF Chunking, NoPool
  <1>5. Place' /\ InHand' /\ NoGap' /\ Asked' /\ Emitted'
    BY <1>1 DEF Place, InHand, NoGap, Asked, Emitted, Steps
  <1> QED
    BY <1>3, <1>4, <1>5 DEF GithubInv

LEMMA StartStep ==
  ASSUME GithubInv, NEW resume \in BOOLEAN, StartRun(resume)
  PROVE  GithubInv'
  <1>1. /\ phase = "idle" /\ phase' = "collecting" /\ ctx' = "live" /\ writer' = "live"
        /\ emitted' = 0 /\ UNCHANGED <<backlog, rows, saved>>
    BY DEF StartRun, Queue!StartRun, Queue!vars
  <1>2. /\ step' = "dataset" /\ ds' = 1
        /\ st' = IF resume /\ saved # NoState THEN saved ELSE Fresh
        /\ stops' = stops \/ (stops < MaxStops /\ stops' = stops + 1)
        /\ UNCHANGED <<newest, version, page, batch, poolVars>>
    BY DEF StartRun, Trouble, serverVars
  <1>3. Durable' /\ All' = All
    BY <1>1, Still
  <1>4. st' \in State /\ Vouches(st', rows)
    <2>1. saved # NoState => saved \in State /\ Vouches(saved, rows)
      BY DEF GithubInv, Durable, Log!Sound, Covered
    <2> QED
      BY <1>2, <2>1, Nothing, Constants
  <1>5. InHand'
    <2>1. All' = rows
      BY <1>1, <1>3, Settled DEF GithubInv, Place
    <2> QED
      BY <1>2, <1>4, <2>1 DEF InHand
  <1>6. Place'
    BY <1>1, <1>2 DEF GithubInv, Place, Steps
  <1>7. stops' \in 0..MaxStops
    BY <1>2, Constants DEF GithubInv, TypeOK
  <1>8. ds' \in 1..(Len(Datasets) + 1)
    BY <1>2, GithubAssumption, LenProperties
  <1>9. Queue!SinkType'
    BY <1>1 DEF GithubInv, TypeOK, Queue!SinkType, Queue!TypeOK
  <1> QED
    BY <1>2, <1>3, <1>4, <1>5, <1>6, <1>7, <1>8, <1>9, Outside DEF GithubInv, TypeOK

(* Steps that hand over nothing, change no state and read nothing. *)
LEMMA Moving ==
  ASSUME GithubInv, UNCHANGED <<sinkVars, serverVars, batch, st, poolVars>>,
         step \notin {"off", "return", "emit_repositories", "emit_events"},
         step' \in Steps \ {"off", "ask", "emit_details", "emit_repositories", "emit_events"},
         step' \notin {"dataset", "return"} => ds' <= Len(Datasets),
         ds' \in 1..(Len(Datasets) + 1), page' \in Nat, stops' \in 0..MaxStops
  PROVE  GithubInv'
  <1>1. UNCHANGED <<backlog, rows, saved, phase, ctx, writer, emitted, newest, version>>
    BY DEF sinkVars, serverVars
  <1>2. Durable' /\ All' = All
    BY <1>1, Still
  <1>3. Queue!SinkType'
    BY <1>1 DEF GithubInv, TypeOK, Queue!SinkType, Queue!TypeOK
  <1>4. Place'
    BY <1>1 DEF GithubInv, Place
  <1>5. InHand'
    BY <1>1, <1>2 DEF GithubInv, InHand
  <1> QED
    BY <1>1, <1>2, <1>3, <1>4, <1>5, Outside DEF GithubInv, TypeOK

LEMMA Counting ==
  ASSUME GithubInv
  PROVE  /\ stops \in 0..MaxStops
         /\ Trouble => stops' \in 0..MaxStops
         /\ \A kind : RequestFails(kind) => stops' \in 0..MaxStops
  BY Constants DEF GithubInv, TypeOK, Trouble, RequestFails, Fault

LEMMA DatasetStep ==
  ASSUME GithubInv, NextDataset \/ NoMoreDatasets
  PROVE  GithubInv'
  <1>1. /\ UNCHANGED <<sinkVars, serverVars, batch, st, poolVars, stops, ds>>
        /\ step = "dataset" /\ page' \in {0, page}
    BY DEF NextDataset, NoMoreDatasets, pageVars
  <1>2. \/ step' = "return"
        \/ step' \in {"repositories", "events", "repo_details"} /\ ds <= Len(Datasets)
    <2>1. ASSUME NextDataset
          PROVE  step' \in {"repositories", "events", "repo_details"} /\ ds <= Len(Datasets)
      <3>1. ds \in 1..Len(Datasets) /\ step' = Datasets[ds]
        BY <2>1, GithubAssumption, LenProperties DEF NextDataset, GithubInv, TypeOK
      <3> QED
        BY <3>1, GithubAssumption, ElementOfSeq
    <2> QED
      BY <2>1 DEF NoMoreDatasets
  <1>3. step' \in Steps \ {"off", "ask", "emit_details", "emit_repositories", "emit_events"}
    BY <1>2 DEF Steps, Repositories, Events, Details
  <1>4. ds' \in 1..(Len(Datasets) + 1) /\ page' \in Nat
    BY <1>1 DEF GithubInv, TypeOK
  <1> QED
    BY <1>1, <1>2, <1>3, <1>4, Counting, Moving

(* The steps at which a dataset leaves or goes on to its next request. *)
LEMMA RestingStep ==
  ASSUME GithubInv,
         \/ RepositoriesEnd \/ RestRepositories \/ NotModified \/ EventsEnd \/ RestEvents
         \/ DatasetFails
  PROVE  GithubInv'
  <1>1. /\ UNCHANGED <<sinkVars, serverVars, batch, st, poolVars>>
        /\ step \in {"repositories", "rest_repositories", "events", "rest_events", "repo_details"}
    BY DEF RepositoriesEnd, RestRepositories, NotModified, EventsEnd, RestEvents, DatasetFails
  <1>2. page' \in {page, 0, page + 1}
    BY DEF RepositoriesEnd, RestRepositories, NotModified, EventsEnd, RestEvents, DatasetFails
  <1>3. stops' \in 0..MaxStops
    BY Counting
       DEF RepositoriesEnd, RestRepositories, NotModified, EventsEnd, RestEvents, DatasetFails,
           Paused
  <1>4. (\E err : Leave(err)) \/ (step' \in {"repositories", "events"} /\ UNCHANGED ds)
    BY DEF RepositoriesEnd, RestRepositories, NotModified, EventsEnd, RestEvents, DatasetFails,
           Paused
  <1>5. ds \in 1..(Len(Datasets) + 1) /\ ds <= Len(Datasets) /\ page \in Nat
    BY <1>1 DEF GithubInv, TypeOK, Place
  <1>6. /\ step' \in {"repositories", "events", "dataset", "return"}
        /\ ds' \in 1..(Len(Datasets) + 1)
        /\ step' \notin {"dataset", "return"} => ds' <= Len(Datasets)
    <2>1. ASSUME NEW err, Leave(err)
          PROVE  step' \in {"dataset", "return"} /\ ds' \in 1..(Len(Datasets) + 1)
      BY <1>1, <2>1, Leaving
    <2> QED
      BY <1>4, <1>5, <2>1
  <1>7. step' \in Steps \ {"off", "ask", "emit_details", "emit_repositories", "emit_events"}
    BY <1>6 DEF Steps, Repositories, Events, Details
  <1>8. page' \in Nat
    BY <1>2, <1>5
  <1> QED
    BY <1>1, <1>3, <1>6, <1>7, <1>8, Moving

LEMMA ReturnStep ==
  ASSUME GithubInv, Return
  PROVE  GithubInv'
  <1>1. /\ step = "return" /\ step' = "off" /\ phase' = "closing"
        /\ UNCHANGED <<backlog, rows, saved, ctx, writer, emitted>>
        /\ UNCHANGED <<newest, version, stops, ds, page, batch, st, poolVars>>
    BY DEF Return, Queue!CollectReturns, Queue!vars, serverVars, pageVars
  <1>2. Durable' /\ All' = All
    BY <1>1, Still
  <1>3. Queue!SinkType'
    BY <1>1 DEF GithubInv, TypeOK, Queue!SinkType, Queue!TypeOK
  <1>4. Place' /\ InHand'
    BY <1>1 DEF Place, InHand, Steps
  <1> QED
    BY <1>1, <1>2, <1>3, <1>4, Outside DEF GithubInv, TypeOK

-----------------------------------------------------------------------------
(* repositories and events. *)

(* A page holds the next repositories, one after the other. *)
LEMMA ListedIs ==
  ASSUME GithubInv, Listed # {}
  PROVE  /\ Cardinality(Listed) \in 1..PageSize
         /\ st.since + Cardinality(Listed) <= LastRepo
  <1> DEFINE s == st.since
             m == s + PageSize
             top == IF newest < m THEN newest ELSE m
  <1>1. s \in Nat /\ newest \in Nat /\ newest <= LastRepo /\ PageSize \in Nat \ {0}
    BY Constants DEF GithubInv, TypeOK, State
  <1>2. Listed = {i \in 1..newest : i > s /\ i <= s + PageSize}
    BY DEF Listed
  <1> HIDE DEF s
  <1>3. Listed = (s + 1)..top
    BY <1>1, <1>2
  <1>4. top \in Nat /\ top > s /\ top <= s + PageSize /\ top <= LastRepo
    BY <1>1, <1>3, Constants
  <1> HIDE DEF top
  <1>5. Cardinality((s + 1)..top) = IF s + 1 > top THEN 0 ELSE top - (s + 1) + 1
    BY <1>1, <1>4, FS_Interval
  <1>6. Cardinality(Listed) = top - s
    BY <1>1, <1>3, <1>4, <1>5
  <1> QED
    BY <1>1, <1>4, <1>6 DEF s

LEMMA GetRepositoriesStep ==
  ASSUME GithubInv, GetRepositories
  PROVE  GithubInv'
  <1> DEFINE c == Cardinality(Listed)
             s == st.since
  <1>1. /\ step = "repositories" /\ step' = "emit_repositories"
        /\ batch' = [i \in 1..c |-> <<"repo", s + i>>]
        /\ st' = [st EXCEPT !.since = s + c]
        /\ UNCHANGED <<backlog, rows, saved, phase, ctx, writer, emitted>>
        /\ UNCHANGED <<newest, version, stops, ds, page, poolVars>>
    BY DEF GetRepositories, sinkVars, serverVars
  <1>2. c \in 1..PageSize /\ s \in Nat /\ s + c <= LastRepo
    <2>1. Listed # {}
      BY DEF GetRepositories
    <2> QED
      BY <2>1, ListedIs DEF GithubInv, TypeOK, State
  <1> HIDE DEF c
  <1>3. PageSize \in Nat /\ LastRepo \in Nat
    BY Constants
  <1>4. /\ st' \in State /\ st'.since = s + c
        /\ st'.etag = st.etag /\ st'.details = st.details
    <2>1. s + c \in 0..LastRepo
      BY <1>2, <1>3
    <2>2. st \in State
      BY DEF GithubInv, TypeOK
    <2> QED
      BY <1>1, <2>1, <2>2 DEF State
  <1> HIDE DEF s
  <1>5. batch' \in Seq(Record) /\ Len(batch') = c /\ \A i \in 1..c : batch'[i] = RepoRow(s + i)
    <2>1. c \in Nat
      BY <1>2, <1>3
    <2>2. \A i \in 1..c : s + i \in Repo
      BY <1>2, <1>3 DEF Repo
    <2>3. \A i \in 1..c : <<"repo", s + i>> \in Record
      BY <2>2 DEF Record
    <2>4. batch' \in [1..c -> Record]
      BY <1>1, <2>3
    <2>5. batch' \in Seq(Record)
      BY <2>1, <2>4
    <2>6. \A i \in 1..c : batch'[i] = RepoRow(s + i)
      BY <1>1 DEF RepoRow
    <2>7. Len(batch') = c
      BY <2>1, <2>4, <2>5, LenProperties
    <2> QED
      BY <2>5, <2>6, <2>7
  <1>6. Durable' /\ All' = All
    BY <1>1, Still
  <1>7. Queue!SinkType'
    BY <1>1 DEF GithubInv, TypeOK, Queue!SinkType, Queue!TypeOK
  <1>8. Place'
    <2>1. Len(batch') <= st'.since
      BY <1>2, <1>3, <1>4, <1>5
    <2>2. \A i \in 1..Len(batch') : batch'[i] = RepoRow(st'.since - Len(batch') + i)
      <3>1. st'.since - Len(batch') = s
        BY <1>2, <1>3, <1>4, <1>5
      <3> QED
        BY <1>5, <3>1
    <2> QED
      BY <1>1, <2>1, <2>2 DEF GithubInv, Place, Steps, Repositories
  <1>9. InHand'
    <2> SUFFICES ASSUME writer = "live"
                 PROVE  /\ Vouches(st', All' \cup Batch')
                        /\ \A i \in 1..(st'.since - Len(batch')) : RepoRow(i) \in All'
      BY <1>1 DEF InHand
    <2>1. Vouches(st, All)
      BY <1>1 DEF GithubInv, InHand
    <2>2. \A i \in 1..s : RepoRow(i) \in All
      BY <2>1 DEF Vouches, RepoRow, s
    <2>3. \A i \in (s + 1)..(s + c) : RepoRow(i) \in Batch'
      <3> SUFFICES ASSUME NEW i \in (s + 1)..(s + c)
                   PROVE  RepoRow(i) \in Batch'
        OBVIOUS
      <3>1. i - s \in 1..c /\ s + (i - s) = i
        BY <1>2, <1>3
      <3> QED
        BY <1>5, <3>1 DEF Batch
    <2>4. \A i \in 1..(s + c) : i \in 1..s \/ i \in (s + 1)..(s + c)
      BY <1>2, <1>3
    <2>5. \A i \in 1..(s + c) : RepoRow(i) \in All' \cup Batch'
      BY <1>6, <2>2, <2>3, <2>4
    <2>6. Vouches(st', All' \cup Batch')
      BY <1>4, <1>6, <2>1, <2>5 DEF Vouches, RepoRow
    <2>7. st'.since - Len(batch') = s
      BY <1>2, <1>3, <1>4, <1>5
    <2> QED
      BY <1>6, <2>2, <2>6, <2>7
  <1>10. Len(batch') <= PageSize
    BY <1>2, <1>3, <1>5
  <1> QED
    BY <1>1, <1>4, <1>5, <1>6, <1>7, <1>8, <1>9, <1>10, Outside DEF GithubInv, TypeOK

LEMMA GetEventsStep ==
  ASSUME GithubInv, GetEvents
  PROVE  GithubInv'
  <1>1. /\ step = "events" /\ step' = "emit_events" /\ page < Exposed
        /\ page' = page + 1
        /\ batch' = <<<<"event", version, page'>>>>
        /\ (st' = [st EXCEPT !.etag = version] /\ page' = 1) \/ st' = st
        /\ UNCHANGED <<backlog, rows, saved, phase, ctx, writer, emitted>>
        /\ UNCHANGED <<newest, version, stops, ds, poolVars>>
    BY DEF GetEvents, sinkVars, serverVars
  <1>2. page \in Nat /\ page' \in Nat /\ page' \in 1..Exposed /\ version \in Version
    <2>1. page \in Nat /\ version \in Version
      BY DEF GithubInv, TypeOK
    <2>2. page < Exposed /\ page' = page + 1 /\ Exposed \in Nat
      BY GithubAssumption DEF GetEvents
    <2> QED
      BY <2>1, <2>2
  <1> DEFINE r == <<"event", version, page'>>
  <1>3. r \in Record /\ \A j \in Repo : r # RepoRow(j)
    BY <1>2 DEF Record, RepoRow
  <1> HIDE DEF r
  <1>4. batch' \in Seq(Record) /\ Len(batch') = 1 /\ batch'[1] = r
    <2>1. batch' = <<r>>
      BY <1>1 DEF r
    <2> QED
      BY <1>3, <2>1
  <1>5. st' \in State
    BY <1>1, <1>2 DEF GithubInv, TypeOK, State
  <1>6. Durable' /\ All' = All
    BY <1>1, Still
  <1>7. Queue!SinkType'
    BY <1>1 DEF GithubInv, TypeOK, Queue!SinkType, Queue!TypeOK
  <1>8. Place'
    <2>1. \A i \in 1..Len(batch'), j \in Repo : batch'[i] # RepoRow(j)
      BY <1>3, <1>4
    <2> QED
      BY <1>1, <2>1 DEF GithubInv, Place, Steps, Events
  <1>9. InHand'
    <2> SUFFICES ASSUME writer = "live"
                 PROVE  Vouches(st', All' \cup Batch')
      BY <1>1 DEF InHand
    <2>1. Vouches(st, All)
      BY <1>1 DEF GithubInv, InHand
    <2>2. r \in Batch'
      BY <1>4 DEF Batch
    <2>3. CASE st' = st
      BY <1>6, <2>1, <2>3, VouchesGrows
    <2>4. CASE st' = [st EXCEPT !.etag = version] /\ page' = 1
      <3>1. st \in State
        BY DEF GithubInv, TypeOK
      <3>2. st'.since = st.since /\ st'.details = st.details /\ st'.etag = version
        BY <2>4, <3>1 DEF State
      <3>3. <<"event", version, 1>> \in Batch'
        BY <2>2, <2>4 DEF r
      <3> QED
        BY <1>6, <2>1, <3>2, <3>3 DEF Vouches
    <2> QED
      BY <1>1, <2>3, <2>4
  <1>10. Len(batch') <= PageSize
    BY <1>4, Constants
  <1> QED
    BY <1>1, <1>2, <1>4, <1>5, <1>6, <1>7, <1>8, <1>9, <1>10, Outside DEF GithubInv, TypeOK

(* Whatever Emit leaves of a page, no repository before another is missing. *)
LEMMA PageLeaves ==
  ASSUME GithubInv, writer = "live",
         step = "emit_repositories" \/ step = "emit_events", NEW err
  PROVE  Log!Leaves(Closed, batch, err)
  <1> SUFFICES ASSUME NEW n \in Nat, n <= Len(batch)
               PROVE  All \cup {batch[i] : i \in 1..n} \in Closed
    <2>1. \A n \in 0..Len(batch) : n \in Nat /\ n <= Len(batch)
      BY LenProperties DEF GithubInv, TypeOK
    <2> QED
      BY <2>1 DEF Log!Leaves, All
  <1> DEFINE part == {batch[i] : i \in 1..n}
             L == Len(batch)
  <1>1. L \in Nat /\ \A i \in 1..L : batch[i] \in Record
    BY LenProperties, ElementOfSeq DEF GithubInv, TypeOK
  <1>2. All \in Closed
    BY AllClosed
  <1>0. n <= L
    OBVIOUS
  <1> HIDE DEF L
  <1>3. n \in Nat /\ \A i \in 1..n : i \in 1..L
    BY <1>0, <1>1
  <1>4. part \subseteq Record
    BY <1>1, <1>3
  <1>5. ASSUME NEW i \in Repo, NEW j \in Repo, i < j, RepoRow(j) \in All \cup part
        PROVE  RepoRow(i) \in All \cup part
    <2>1. CASE RepoRow(j) \in All
      BY <1>2, <1>5, <2>1 DEF Closed
    <2>2. CASE RepoRow(j) \in part
      <3>1. PICK m \in 1..n : batch[m] = RepoRow(j)
        BY <2>2
      <3>2. step = "emit_repositories"
        BY <1>3, <3>1 DEF GithubInv, Place
      <3> DEFINE s == st.since
      <3>3. s \in Nat
        BY DEF GithubInv, TypeOK, State
      <3>8. /\ \A k \in 1..L : batch[k] = RepoRow(s - L + k)
            /\ \A k \in 1..(s - L) : RepoRow(k) \in All
            /\ L <= s
        BY <3>2 DEF GithubInv, Place, InHand, L
      <3> HIDE DEF s
      <3>4. j = s - L + m
        <4>1. RepoRow(j) = RepoRow(s - L + m)
          BY <1>3, <3>1, <3>8
        <4> QED
          BY <4>1 DEF RepoRow
      <3>5. i \in Nat /\ i # 0 /\ j \in Nat
        <4>1. i \in 1..LastRepo /\ j \in 1..LastRepo
          BY DEF Repo
        <4> QED
          BY <4>1, Constants
      <3>6. CASE i \in 1..(s - L)
        BY <3>8, <3>6
      <3>7. CASE i > s - L
        <4>1. i - (s - L) \in 1..n /\ s - L + (i - (s - L)) = i
          BY <1>1, <1>3, <1>5, <3>3, <3>4, <3>5, <3>7
        <4>2. batch[i - (s - L)] = RepoRow(i)
          BY <1>3, <3>8, <4>1
        <4> QED
          BY <4>1, <4>2
      <3> QED
        BY <1>1, <3>3, <3>8, <3>5, <3>6, <3>7
    <2> QED
      BY <1>5, <2>1, <2>2
  <1>6. All \cup part \in SUBSET Record
    BY <1>2, <1>4 DEF Closed
  <1> HIDE DEF part
  <1>7. All \cup part \in Closed
    BY <1>5, <1>6 DEF Closed
  <1> QED
    BY <1>7 DEF part

LEMMA EmitPageStep ==
  ASSUME GithubInv, EmitPage
  PROVE  GithubInv'
  <1> DEFINE after == IF step = "emit_events" THEN "save_events" ELSE "save_repositories"
  <1>1. PICK err \in Queue!Errors : Queue!Emit(batch, err) /\ Goes(err, after)
    BY DEF EmitPage
  <1>2. /\ step \in {"emit_repositories", "emit_events"} /\ batch' = <<>>
        /\ UNCHANGED <<newest, version, stops, page, st, poolVars>>
    BY DEF EmitPage, serverVars
  <1>3. batch \in Seq(Record) /\ Len(batch) \in Nat
    BY LenProperties DEF GithubInv, TypeOK
  <1>4. /\ Queue!SinkType'
        /\ UNCHANGED <<rows, saved, phase, ctx, writer>>
        /\ Durable'
        /\ All \subseteq All'
        /\ err = "nil" /\ writer = "live" => \A i \in 1..Len(batch) : batch[i] \in All'
    BY <1>1, <1>2, <1>3, PageLeaves, Emitting
  <1>5. /\ step' \in {"save_events", "save_repositories", "dataset", "return"}
        /\ ds' \in 1..(Len(Datasets) + 1)
        /\ step' \notin {"dataset", "return"} => ds' <= Len(Datasets) /\ err = "nil"
        /\ err # "nil" /\ EndsRun(err) => step' = "return"
    <2>1. CASE err = "nil"
      BY <1>1, <1>2, <2>1 DEF Goes, GithubInv, TypeOK, Place
    <2>2. CASE err # "nil"
      BY <1>1, <1>2, <2>2, Leaving DEF Goes
    <2> QED
      BY <2>1, <2>2
  <1>6. Place'
    <2>1. phase = "collecting"
      BY <1>2 DEF GithubInv, Place
    <2> QED
      BY <1>4, <1>5, <2>1 DEF Place, Steps, Repositories, Events
  <1>7. InHand'
    <2> SUFFICES ASSUME writer = "live", step' # "return"
                 PROVE  Vouches(st, All')
      BY <1>2, <1>4, <1>5 DEF InHand
    <2>1. err = "nil"
      BY <1>1, <1>5, EmitFails
    <2>2. All \cup Batch \subseteq All'
      BY <1>4, <2>1 DEF Batch
    <2>3. Vouches(st, All \cup Batch)
      BY <1>2 DEF GithubInv, InHand
    <2> QED
      BY <2>2, <2>3, VouchesGrows
  <1>8. Len(batch') <= PageSize
    <2>1. Len(batch') = 0
      BY <1>2
    <2> QED
      BY <2>1, Constants
  <1> QED
    BY <1>2, <1>4, <1>5, <1>6, <1>7, <1>8, Nothing, Outside DEF GithubInv, TypeOK

LEMMA SavePageStep ==
  ASSUME GithubInv, SavePage
  PROVE  GithubInv'
  <1> DEFINE after == IF step = "save_events" THEN "rest_events" ELSE "rest_repositories"
  <1>1. PICK err \in Queue!Errors : Queue!PutState(st, err) /\ Goes(err, after)
    BY DEF SavePage
  <1>2. /\ step \in {"save_repositories", "save_events"}
        /\ UNCHANGED <<newest, version, stops, page, batch, st, poolVars>>
    BY DEF SavePage, serverVars
  <1>3. st \in State /\ (writer = "live" => Vouches(st, All))
    BY <1>2 DEF GithubInv, TypeOK, InHand
  <1>4. /\ Queue!SinkType'
        /\ UNCHANGED <<rows, saved, phase, ctx, writer>>
        /\ Durable' /\ All' = All
    BY <1>1, <1>3, Saving
  <1>5. /\ step' \in {"rest_events", "rest_repositories", "dataset", "return"}
        /\ ds' \in 1..(Len(Datasets) + 1)
        /\ step' \notin {"dataset", "return"} => ds' <= Len(Datasets)
    <2>1. CASE err = "nil"
      BY <1>1, <1>2, <2>1 DEF Goes, GithubInv, TypeOK, Place
    <2>2. CASE err # "nil"
      BY <1>1, <1>2, <2>2, Leaving DEF Goes
    <2> QED
      BY <2>1, <2>2
  <1>6. Place'
    <2>1. phase = "collecting"
      BY <1>2 DEF GithubInv, Place
    <2> QED
      BY <1>4, <1>5, <2>1 DEF Place, Steps, Repositories, Events
  <1>7. InHand'
    BY <1>2, <1>3, <1>4, <1>5 DEF InHand
  <1> QED
    BY <1>2, <1>3, <1>4, <1>5, <1>6, <1>7, Outside DEF GithubInv, TypeOK

-----------------------------------------------------------------------------
(* repo_details: the query. *)

(* No batch is larger than detail_batch. *)
LEMMA TargetsAre ==
  /\ Targets \in SUBSET Repo /\ Cardinality(Targets) <= DetailBatch
  /\ \A t \in Targets, i \in Wanted : i < t => i \in Targets
  /\ Targets \subseteq Wanted
  <1>1. Wanted \in SUBSET Repo /\ Targets \in SUBSET Repo /\ Targets \subseteq Wanted
    BY DEF Wanted, Targets
  <1>2. /\ \A t \in Wanted : Log!Rank(Wanted, t) \in Nat
        /\ \A t, u \in Wanted : t < u => Log!Rank(Wanted, t) < Log!Rank(Wanted, u)
    BY <1>1, RepoSets, Ranks
  <1>3. \A i : i \in Targets <=> i \in Wanted /\ Log!Rank(Wanted, i) < DetailBatch
    BY RankIs DEF Targets
  <1>4. DetailBatch \in Nat
    BY Constants
  <1>5. ASSUME NEW t \in Targets, NEW i \in Wanted, i < t
        PROVE  i \in Targets
    BY <1>1, <1>2, <1>3, <1>4, <1>5
  <1>6. Cardinality(Targets) <= DetailBatch
    <2> DEFINE rank == [t \in Targets |-> Log!Rank(Wanted, t) + 1]
    <2>1. rank \in [Targets -> 1..DetailBatch]
      BY <1>1, <1>2, <1>3, <1>4
    <2>2. \A t, u \in Targets : rank[t] = rank[u] => t = u
      <3> SUFFICES ASSUME NEW t \in Targets, NEW u \in Targets, t # u
                   PROVE  rank[t] # rank[u]
        OBVIOUS
      <3>1. t \in Nat /\ u \in Nat
        BY <1>1, RepoSets
      <3>2. t < u \/ u < t
        BY <3>1
      <3>3. t \in Wanted /\ u \in Wanted
        BY <1>1
      <3>4. Log!Rank(Wanted, t) \in Nat /\ Log!Rank(Wanted, u) \in Nat /\ Log!Rank(Wanted, t) # Log!Rank(Wanted, u)
        BY <1>2, <3>2, <3>3
      <3> QED
        BY <3>4
    <2>3. rank \in Injection(Targets, 1..DetailBatch)
      BY <2>1, <2>2 DEF Injection, IsInjective
    <2>4. IsFiniteSet(1..DetailBatch) /\ Cardinality(1..DetailBatch) = DetailBatch
      BY <1>4, FS_Interval
    <2>5. Cardinality(Targets) <= Cardinality(1..DetailBatch)
      BY <2>3, <2>4, FS_Injection
    <2> QED
      BY <2>4, <2>5
  <1> QED
    BY <1>1, <1>5, <1>6

LEMMA QueryStep ==
  ASSUME GithubInv, Query
  PROVE  GithubInv'
  <1>1. /\ step = "repo_details" /\ step' = "ask" /\ targets' = Targets
        /\ next' = 0 /\ pool' = [w \in Workers |-> 0]
        /\ answered' = {} /\ failed' = {} /\ chunk' = 1
        /\ UNCHANGED <<backlog, rows, saved, phase, ctx, writer, emitted>>
        /\ UNCHANGED <<newest, version, stops, ds, page, batch, st>>
    BY DEF Query, sinkVars, serverVars, pageVars
  <1>2. Durable' /\ All' = All
    BY <1>1, Still
  <1>3. Queue!SinkType'
    BY <1>1 DEF GithubInv, TypeOK, Queue!SinkType, Queue!TypeOK
  <1>4. pool' \in [Workers -> {0}]
    BY <1>1
  <1>5. TypeOK'
    <2>1. targets' \subseteq Repo /\ Cardinality(targets') <= DetailBatch
      BY <1>1, TargetsAre
    <2>2. next' \in 0..LastRepo /\ chunk' \in 0..(LastRepo + 1)
      BY <1>1, Constants
    <2>3. pool' \in [Workers -> {0, Done} \cup Chunks']
      BY <1>4
    <2> QED
      BY <1>1, <1>3, <2>1, <2>2, <2>3 DEF GithubInv, TypeOK
  <1>6. Chunking'
    <2>1. 1..next' = {}
      BY <1>1
    <2>2. pool' \in [Workers -> {0, Done} \cup (1..next')]
      BY <1>4
    <2> QED
      BY <1>1, <2>1, <2>2 DEF Chunking
  <1>7. Place'
    BY <1>1 DEF GithubInv, Place, Steps, Details
  <1>8. InHand'
    BY <1>1, <1>2 DEF GithubInv, InHand
  <1>9. NoGap'
    <2> SUFFICES ASSUME NEW t \in Targets, NEW i \in Repo,
                        st.details < i, i < t, i \notin Targets
                 PROVE  Snapshot(i) \in All
      BY <1>1, <1>2 DEF NoGap, Snapshot
    <2>1. rows \in Closed /\ rows \subseteq All
      BY AllClosed
    <2>2. t \in Repo /\ RepoRow(t) \in rows
      BY TargetsAre DEF Wanted, RepoRow
    <2>3. RepoRow(i) \in rows
      BY <2>1, <2>2 DEF Closed
    <2>4. i \notin Wanted
      BY TargetsAre
    <2>5. Snapshot(i) \in rows
      BY <2>3, <2>4 DEF Wanted, Behind, RepoRow
    <2> QED
      BY <2>1, <2>5
  <1>10. Asked'
    <2>1. 1..next' = {}
      BY <1>1
    <2>2. \A w \in Workers : pool'[w] # Done
      BY <1>4, Constants DEF Done
    <2> QED
      BY <1>1, <2>1, <2>2 DEF Asked
  <1>11. Emitted'
    BY <1>1 DEF Emitted
  <1> QED
    BY <1>2, <1>5, <1>6, <1>7, <1>8, <1>9, <1>10, <1>11 DEF GithubInv

LEMMA WrapStep ==
  ASSUME GithubInv, Wrap
  PROVE  GithubInv'
  <1>1. PICK err \in Queue!Errors : Queue!PutState(st', err) /\ Leave(err)
    BY DEF Wrap
  <1>2. /\ step = "repo_details" /\ st' = [st EXCEPT !.details = 0]
        /\ UNCHANGED <<newest, version, stops, page, batch, poolVars>>
    BY DEF Wrap, serverVars
  <1>3. st' \in State /\ (writer = "live" => Vouches(st', All))
    <2>1. st \in State /\ (writer = "live" => Vouches(st, All))
      BY <1>2 DEF GithubInv, TypeOK, InHand
    <2>2. /\ st' \in State
          /\ st'.since = st.since /\ st'.etag = st.etag /\ st'.details = 0
      BY <1>2, <2>1, Constants DEF State
    <2> QED
      BY <2>1, <2>2, Nothing DEF Vouches
  <1>4. /\ Queue!SinkType'
        /\ UNCHANGED <<rows, saved, phase, ctx, writer>>
        /\ Durable' /\ All' = All
    <2>1. PICK x : x = st'
      OBVIOUS
    <2> QED
      BY <1>1, <1>3, <2>1, Saving
  <1>5. step' \in {"dataset", "return"} /\ ds' \in 1..(Len(Datasets) + 1)
    BY <1>1, <1>2, Leaving
  <1>6. Place'
    <2>1. phase = "collecting"
      BY <1>2 DEF GithubInv, Place
    <2> QED
      BY <1>4, <1>5, <2>1 DEF Place, Steps
  <1>7. InHand'
    BY <1>3, <1>4, <1>5 DEF InHand
  <1> QED
    BY <1>2, <1>3, <1>4, <1>5, <1>6, <1>7, Outside DEF GithubInv, TypeOK

-----------------------------------------------------------------------------
(* repo_details: the pool. *)

LEMMA Chunked ==
  ASSUME GithubInv
  PROVE  /\ targets \in SUBSET Repo
         /\ Chunks \subseteq 1..LastRepo /\ 0 \notin Chunks /\ Done \notin Chunks
         /\ next \in Nat /\ 1..next \subseteq Chunks
         /\ answered \subseteq 1..next /\ failed \subseteq 1..next
         /\ pool \in [Workers -> {0, Done} \cup (1..next)]
         /\ 0 \notin 1..next /\ Done \notin 1..next
  <1>1. targets \in SUBSET Repo /\ next \in Nat
    BY Constants DEF GithubInv, TypeOK
  <1>2. Chunks \subseteq 1..LastRepo
    BY <1>1, ChunksAre
  <1>3. 0 \notin Chunks /\ Done \notin Chunks
    BY <1>2, Constants DEF Done
  <1>4. Chunking
    BY DEF GithubInv
  <1> QED
    BY <1>1, <1>2, <1>3, <1>4 DEF Chunking

(* What the workers leave as it is. *)
LEMMA Working ==
  ASSUME GithubInv, step = "ask", step' = "ask",
         UNCHANGED <<sinkVars, serverVars, ds, page, batch, st, targets, chunk>>,
         stops' \in 0..MaxStops, next' \in 0..LastRepo, Chunking', Asked'
  PROVE  GithubInv'
  <1>1. UNCHANGED <<backlog, rows, saved, phase, ctx, writer, emitted, newest, version>>
    BY DEF sinkVars, serverVars
  <1>2. Durable' /\ All' = All
    BY <1>1, Still
  <1>3. Queue!SinkType'
    BY <1>1 DEF GithubInv, TypeOK, Queue!SinkType, Queue!TypeOK
  <1>4. Chunks' = Chunks
    BY DEF Chunks, ChunkOf
  <1>5. answered' \subseteq Chunks' /\ failed' \subseteq Chunks'
        /\ pool' \in [Workers -> {0, Done} \cup Chunks']
    BY DEF Chunking
  <1>6. TypeOK'
    BY <1>1, <1>3, <1>5 DEF GithubInv, TypeOK
  <1>7. Place' /\ InHand' /\ NoGap' /\ Emitted'
    BY <1>1, <1>2 DEF GithubInv, Place, InHand, NoGap, Emitted, Snapshot
  <1> QED
    BY <1>2, <1>6, <1>7 DEF GithubInv

LEMMA TakeStep ==
  ASSUME GithubInv, NEW w \in Workers, Take(w)
  PROVE  GithubInv'
  <1>1. /\ step = "ask" /\ step' = "ask" /\ pool[w] = 0
        /\ UNCHANGED <<sinkVars, serverVars, stops, ds, page, batch, st, targets,
                       answered, failed, chunk>>
        /\ ctx' = ctx
    BY DEF Take, pageVars, sinkVars
  <1>2. Chunks' = Chunks
    BY <1>1 DEF Chunks, ChunkOf
  <1>3. /\ chunk = 1
        /\ \A c \in 1..next : c \in answered \cup failed \/ \E v \in Workers : pool[v] = c
        /\ ctx = "live" /\ failed = {} => \A v \in Workers : pool[v] = Done => ~IsLeft
    BY <1>1 DEF GithubInv, Asked
  <1>4. CASE IsLeft /\ ctx = "live"
    <2>1. next' = next + 1 /\ pool' = [pool EXCEPT ![w] = next + 1] /\ next + 1 \in Chunks
      BY <1>4 DEF Take, IsLeft
    <2>2. next \in Nat /\ next' \in 0..LastRepo /\ 1..next' = (1..next) \cup {next + 1}
      BY <2>1, Chunked, Constants
    <2>3. /\ pool'[w] = next + 1 /\ \A v \in Workers : v # w => pool'[v] = pool[v]
          /\ pool' \in [Workers -> {0, Done} \cup (1..next')]
      BY <2>1, <2>2, Chunked
    <2>4. Chunking'
      <3>1. 1..next' \subseteq Chunks'
        BY <1>2, <2>1, <2>2, Chunked
      <3>2. answered' \subseteq 1..next' /\ failed' \subseteq 1..next'
        BY <1>1, <2>2, Chunked
      <3> QED
        BY <2>3, <3>1, <3>2 DEF Chunking
    <2>5. \A c \in 1..next' : c \in answered' \cup failed' \/ \E v \in Workers : pool'[v] = c
      <3> SUFFICES ASSUME NEW c \in 1..next, c \notin answered \cup failed
                   PROVE  \E v \in Workers : pool'[v] = c
        BY <1>1, <2>2, <2>3
      <3>1. PICK v \in Workers : pool[v] = c
        BY <1>3
      <3>2. v # w
        BY <1>1, <3>1, Chunked
      <3> QED
        BY <2>3, <3>1, <3>2
    <2>6. failed' = {} => \A v \in Workers : pool'[v] # Done
      <3>1. pool'[w] # Done
        BY <2>1, <2>3, Chunked
      <3> QED
        BY <1>1, <1>3, <1>4, <2>3, <3>1
    <2>7. Asked'
      BY <1>1, <1>3, <2>5, <2>6 DEF Asked
    <2> QED
      BY <1>1, <2>2, <2>4, <2>7, Counting, Working
  <1>5. CASE ~(IsLeft /\ ctx = "live")
    <2>1. next' = next /\ pool' = [pool EXCEPT ![w] = Done]
      BY <1>5 DEF Take
    <2>2. \A v \in Workers : v # w => pool'[v] = pool[v]
      BY <2>1, Chunked
    <2>3. Chunking'
      <3>1. pool' \in [Workers -> {0, Done} \cup (1..next')]
        BY <2>1, Chunked
      <3>2. 1..next' \subseteq Chunks'
        BY <1>2, <2>1, Chunked
      <3> QED
        BY <1>1, <2>1, <3>1, <3>2, Chunked DEF Chunking
    <2>4. \A c \in 1..next' : c \in answered' \cup failed' \/ \E v \in Workers : pool'[v] = c
      <3> SUFFICES ASSUME NEW c \in 1..next, c \notin answered \cup failed
                   PROVE  \E v \in Workers : pool'[v] = c
        BY <1>1, <2>1
      <3>1. PICK v \in Workers : pool[v] = c
        BY <1>3
      <3>2. v # w
        BY <1>1, <3>1, Chunked
      <3> QED
        BY <2>2, <3>1, <3>2
    <2>5. ctx' = "live" => ~IsLeft'
      BY <1>1, <1>2, <1>5, <2>1 DEF IsLeft
    <2>6. Asked'
      BY <1>1, <1>3, <2>4, <2>5 DEF Asked
    <2>7. next' \in 0..LastRepo
      BY <2>1 DEF GithubInv, TypeOK
    <2> QED
      BY <1>1, <2>3, <2>6, <2>7, Counting, Working
  <1> QED
    BY <1>4, <1>5

(* A chunk comes back from its worker. *)
LEMMA BackStep ==
  ASSUME GithubInv, NEW w \in Workers, Answered(w) \/ QueryFails(w)
  PROVE  GithubInv'
  <1>1. /\ step = "ask" /\ step' = "ask" /\ pool[w] \in Chunks
        /\ UNCHANGED <<sinkVars, serverVars, ds, page, batch, st, targets, next, chunk>>
        /\ ctx' = ctx
        /\ stops' = stops \/ stops' \in 0..MaxStops
    BY Counting DEF Answered, QueryFails, pageVars, sinkVars
  <1>2. /\ answered' \cup failed' = answered \cup failed \cup {pool[w]}
        /\ answered' \subseteq answered \cup {pool[w]}
        /\ failed' \subseteq failed \cup {pool[w]}
        /\ \/ failed' = failed /\ pool' = [pool EXCEPT ![w] = 0]
           \/ failed' # {} /\ pool' = [pool EXCEPT ![w] = Done]
    BY DEF Answered, QueryFails
  <1>3. Chunks' = Chunks
    BY <1>1 DEF Chunks, ChunkOf
  <1>4. /\ chunk = 1
        /\ \A c \in 1..next : c \in answered \cup failed \/ \E v \in Workers : pool[v] = c
        /\ ctx = "live" /\ failed = {} => \A v \in Workers : pool[v] = Done => ~IsLeft
    BY <1>1 DEF GithubInv, Asked
  <1>5. pool[w] \in 1..next
    BY <1>1, Chunked
  <1>6. pool' \in [Workers -> {0, Done} \cup (1..next)] /\ \A v \in Workers : v # w => pool'[v] = pool[v]
    BY <1>2, Chunked
  <1>7. Chunking'
    <2>1. 1..next' \subseteq Chunks'
      BY <1>1, <1>3, Chunked
    <2>2. answered' \subseteq 1..next /\ failed' \subseteq 1..next
      BY <1>2, <1>5, Chunked
    <2> QED
      BY <1>1, <1>6, <2>1, <2>2 DEF Chunking
  <1>8. \A c \in 1..next' : c \in answered' \cup failed' \/ \E v \in Workers : pool'[v] = c
    <2> SUFFICES ASSUME NEW c \in 1..next, c \notin answered' \cup failed'
                 PROVE  \E v \in Workers : pool'[v] = c
      BY <1>1
    <2>1. c \notin answered \cup failed /\ c # pool[w]
      BY <1>2
    <2>2. PICK v \in Workers : pool[v] = c
      BY <1>4, <2>1
    <2> QED
      BY <1>6, <2>1, <2>2
  <1>9. ctx' = "live" /\ failed' = {} => \A v \in Workers : pool'[v] = Done => ~IsLeft'
    <2> SUFFICES ASSUME ctx = "live", failed' = {}, NEW v \in Workers, pool'[v] = Done
                 PROVE  ~IsLeft
      BY <1>1, <1>3 DEF IsLeft
    <2>1. failed = {} /\ pool'[w] = 0
      BY <1>2, Chunked
    <2>2. v # w
      BY <2>1, Constants DEF Done
    <2> QED
      BY <1>4, <1>6, <2>1, <2>2
  <1>10. Asked'
    BY <1>1, <1>4, <1>8, <1>9 DEF Asked
  <1>11. next' \in 0..LastRepo
    BY <1>1 DEF GithubInv, TypeOK
  <1> QED
    BY <1>1, <1>7, <1>10, <1>11, Counting, Working

-----------------------------------------------------------------------------
(* repo_details, after the pool. *)

(* Without a failure all chunks were taken and answered; before the first   *)
(* failure, too.                                                            *)
LEMMA AllAsked ==
  ASSUME GithubInv, step = "ask", pool = NoPool, ctx = "live",
         NEW c \in Chunks, \A f \in failed : c < f
  PROVE  c \in answered
  <1>1. \A w \in Workers : pool[w] = Done
    BY DEF NoPool
  <1>2. \A d \in 1..next : d \in answered \cup failed
    <2>1. \A d \in 1..next : d \in answered \cup failed \/ \E v \in Workers : pool[v] = d
      BY DEF GithubInv, Asked
    <2> QED
      BY <1>1, <2>1, Chunked
  <1>3. c \in Nat /\ c # 0 /\ next \in Nat
    BY Chunked, Constants
  <1>4. c \in 1..next
    <2>1. CASE failed = {}
      <3>1. ~IsLeft
        BY <1>1, <2>1, GithubAssumption DEF GithubInv, Asked
      <3>2. c <= next
        <4> SUFFICES ASSUME next + 1 <= c
                     PROVE  FALSE
          BY <1>3
        <4>1. next + 1 \in Nat \ {0}
          BY <1>3
        <4>2. next + 1 \in Chunks
          BY <4>1, Chunked, ChunksAre
        <4> QED
          BY <3>1, <4>2 DEF IsLeft
      <3> QED
        BY <1>3, <3>2
    <2>2. CASE failed # {}
      <3>1. PICK f : f \in failed
        BY <2>2
      <3>2. f \in 1..next /\ c < f
        BY <3>1, Chunked
      <3> QED
        BY <1>3, <3>2
    <2> QED
      BY <2>1, <2>2
  <1>5. c \notin failed
    BY <1>3
  <1> QED
    BY <1>2, <1>4, <1>5

LEMMA WaitStep ==
  ASSUME GithubInv, Wait
  PROVE  GithubInv'
  <1>1. /\ step = "ask" /\ pool = NoPool
        /\ UNCHANGED <<sinkVars, serverVars, stops, page, batch, st, poolVars>>
    BY DEF Wait
  <1>2. /\ UNCHANGED <<backlog, rows, saved, phase, ctx, writer, emitted, newest, version>>
        /\ UNCHANGED <<targets, next, pool, answered, failed, chunk>>
    BY <1>1 DEF sinkVars, serverVars, poolVars
  <1>3. Durable' /\ All' = All
    BY <1>2, Still
  <1>4. Queue!SinkType'
    BY <1>2 DEF GithubInv, TypeOK, Queue!SinkType, Queue!TypeOK
  <1>5. CASE ctx = "cancelled"
    <2>1. step' = "return" /\ ds' \in 1..(Len(Datasets) + 1)
      <3>1. Leave("Canceled")
        BY <1>5 DEF Wait
      <3>2. EndsRun("Canceled")
        BY <1>5 DEF EndsRun
      <3> QED
        BY <1>1, <3>1, <3>2, Leaving
    <2>2. Place' /\ InHand'
      BY <1>1, <1>2, <2>1 DEF GithubInv, Place, InHand, Steps
    <2> QED
      BY <1>1, <1>2, <1>3, <1>4, <2>1, <2>2, Outside DEF GithubInv, TypeOK
  <1>6. CASE ctx # "cancelled"
    <2>1. ctx = "live" /\ step' = "emit_details" /\ ds' = ds
      BY <1>6 DEF Wait, GithubInv, TypeOK, Queue!SinkType
    <2>2. Chunks' = Chunks /\ \A t \in targets : ChunkOf(t)' = ChunkOf(t)
      BY <1>2 DEF Chunks, ChunkOf
    <2>3. TypeOK'
      BY <1>1, <1>2, <1>4, <2>1, <2>2 DEF GithubInv, TypeOK
    <2>4. Chunking'
      BY <1>2, <2>2 DEF GithubInv, Chunking
    <2>5. Place' /\ InHand' /\ NoGap'
      BY <1>1, <1>2, <1>3, <2>1 DEF GithubInv, Place, InHand, NoGap, Steps, Details, Snapshot
    <2>6. Asked'
      <3>1. \A c \in Chunks : (\A f \in failed : c < f) => c \in answered
        BY <1>1, <2>1, AllAsked
      <3> QED
        BY <1>2, <2>1, <2>2, <3>1 DEF Asked
    <2>7. Emitted'
      <3>1. chunk = 1
        BY <1>1 DEF GithubInv, Asked
      <3>2. \A t \in targets : ChunkOf(t) \in 1..LastRepo
        BY Chunked, ChunksAre
      <3>3. \A t \in targets : ~(ChunkOf(t) < 1)
        BY <3>2, Constants
      <3> QED
        BY <1>2, <2>1, <2>2, <3>1, <3>3 DEF Emitted
    <2> QED
      BY <1>3, <2>3, <2>4, <2>5, <2>6, <2>7 DEF GithubInv
  <1> QED
    BY <1>5, <1>6

(* The answer to a chunk, as records. *)
LEMMA SnapshotsAre ==
  ASSUME GithubInv, NEW c \in Nat
  PROVE  /\ SnapshotsOf(c) \in Seq(Record) /\ Len(SnapshotsOf(c)) \in Nat
         /\ \A j \in 1..Len(SnapshotsOf(c)), i \in Repo : SnapshotsOf(c)[j] # RepoRow(i)
         /\ c \in answered =>
               \A t \in targets :
                  ChunkOf(t) = c => t \in Gone \/ \E j \in 1..Len(SnapshotsOf(c)) :
                                                     SnapshotsOf(c)[j] = Snapshot(t)
  <1> DEFINE S == IF c \in answered THEN Members(c) \ Gone ELSE {}
             known == InOrder(S)
             n == Cardinality(S)
             recs == SnapshotsOf(c)
  <1>1. S \in SUBSET Repo
    BY DEF Members, GithubInv, TypeOK
  <1>2. S \in SUBSET Nat /\ IsFiniteSet(S) /\ n \in Nat
    BY <1>1, RepoSets
  <1>3. /\ DOMAIN known = 1..n
        /\ \A j \in 1..n : known[j] \in S
        /\ \A t \in S : \E j \in 1..n : known[j] = t
    BY <1>2, InOrderIs
  <1>4. recs = [j \in DOMAIN known |-> Snapshot(known[j])]
    BY DEF SnapshotsOf
  <1>5. c \in answered => \A t \in targets : ChunkOf(t) = c => t \in Gone \/ t \in S
    BY DEF Members
  <1> HIDE DEF known, S, n, recs
  <1>6. \A j \in 1..n : recs[j] = <<"snapshot", known[j]>> /\ recs[j] \in Record
    <2>1. \A j \in 1..n : recs[j] = <<"snapshot", known[j]>> /\ known[j] \in Repo
      BY <1>1, <1>3, <1>4 DEF Snapshot
    <2> QED
      BY <2>1 DEF Record
  <1>7. recs \in [1..n -> Record]
    BY <1>3, <1>4, <1>6
  <1>8. recs \in Seq(Record) /\ Len(recs) = n
    BY <1>2, <1>7
  <1>9. \A j \in 1..n, i \in Repo : recs[j] # RepoRow(i)
    BY <1>6 DEF RepoRow
  <1>10. \A t \in S : \E j \in 1..n : recs[j] = Snapshot(t)
    BY <1>3, <1>6 DEF Snapshot
  <1> QED
    BY <1>2, <1>5, <1>8, <1>9, <1>10 DEF recs

LEMMA SnapshotsLeave ==
  ASSUME GithubInv, NEW c \in Nat, NEW err
  PROVE  Log!Leaves(Closed, SnapshotsOf(c), err)
  <1>1. PICK recs : recs = SnapshotsOf(c)
    OBVIOUS
  <1>2. /\ recs \in Seq(Record) /\ Len(recs) \in Nat
        /\ \A j \in 1..Len(recs), i \in Repo : recs[j] # RepoRow(i)
    BY <1>1, SnapshotsAre
  <1>3. \A j \in 1..Len(recs) : recs[j] \in Record
    BY <1>2, ElementOfSeq
  <1>4. All \in Closed
    BY AllClosed
  <1>5. ASSUME NEW n \in 0..Len(recs)
        PROVE  All \cup {recs[i] : i \in 1..n} \in Closed
    <2> DEFINE part == {recs[i] : i \in 1..n}
    <2>1. \A i \in 1..n : i \in 1..Len(recs)
      BY <1>2
    <2>2. part \subseteq Record /\ \A i \in Repo : RepoRow(i) \notin part
      BY <1>2, <1>3, <2>1
    <2> HIDE DEF part
    <2>3. All \cup part \in Closed
      BY <1>4, <2>2 DEF Closed
    <2> QED
      BY <2>3 DEF part
  <1>6. Log!Leaves(Closed, recs, err)
    BY <1>5 DEF Log!Leaves, All
  <1> QED
    BY <1>1, <1>6

LEMMA EmitChunkStep ==
  ASSUME GithubInv, EmitChunk
  PROVE  GithubInv'
  <1>1. /\ step = "emit_details" /\ chunk \in Chunks /\ chunk' = chunk + 1
        /\ UNCHANGED <<newest, version, stops, page, batch, st,
                       targets, next, pool, answered, failed>>
    BY DEF EmitChunk, serverVars
  <1>2. chunk \in Nat /\ chunk # 0 /\ chunk' \in 0..(LastRepo + 1)
    BY <1>1, Chunked, Constants
  <1>3. Chunks' = Chunks /\ \A t \in targets : ChunkOf(t)' = ChunkOf(t)
    BY <1>1 DEF Chunks, ChunkOf
  <1>4. \A t \in targets : ChunkOf(t) \in Nat
    BY Chunked, ChunksAre, Constants
  <1>5. /\ \A c \in Chunks : (\A f \in failed : c < f) => c \in answered
        /\ writer = "live" =>
              \A t \in targets :
                 ChunkOf(t) < chunk /\ ChunkOf(t) \in answered /\ ChunkOf(t) \notin failed => Holds(t)
    BY <1>1 DEF GithubInv, Asked, Emitted
  <1>6. CASE chunk \in failed
    <2>1. /\ UNCHANGED <<backlog, rows, saved, phase, ctx, writer, emitted, step, ds>>
      BY <1>6 DEF EmitChunk, sinkVars
    <2>2. Durable' /\ All' = All
      BY <2>1, Still
    <2>3. Queue!SinkType'
      BY <2>1 DEF GithubInv, TypeOK, Queue!SinkType, Queue!TypeOK
    <2>4. TypeOK'
      BY <1>1, <1>2, <1>3, <2>1, <2>3 DEF GithubInv, TypeOK
    <2>5. Chunking' /\ Place' /\ InHand' /\ NoGap'
      BY <1>1, <1>3, <2>1, <2>2 DEF GithubInv, Chunking, Place, InHand, NoGap, Snapshot
    <2>6. Asked'
      BY <1>1, <1>3, <1>5, <2>1 DEF Asked
    <2>7. Emitted'
      <3>1. \A t \in targets : ChunkOf(t) < chunk' /\ ChunkOf(t) \notin failed => ChunkOf(t) < chunk
        BY <1>1, <1>2, <1>4, <1>6
      <3>2. \A t : Holds(t)' <=> Holds(t)
        BY <2>2 DEF Holds, Snapshot
      <3> QED
        BY <1>1, <1>2, <1>3, <1>5, <2>1, <3>1, <3>2 DEF Emitted
    <2> QED
      BY <2>2, <2>4, <2>5, <2>6, <2>7 DEF GithubInv
  <1>7. CASE chunk \notin failed
    <2>1. PICK err \in Queue!Errors :
             Queue!Emit(SnapshotsOf(chunk), err) /\ Goes(err, "emit_details")
      BY <1>7 DEF EmitChunk
    <2>2. PICK recs : recs = SnapshotsOf(chunk)
      OBVIOUS
    <2>3. /\ recs \in Seq(Record)
          /\ chunk \in answered =>
               \A t \in targets :
                  ChunkOf(t) = chunk =>
                     t \in Gone \/ \E j \in 1..Len(recs) : recs[j] = Snapshot(t)
      BY <1>2, <2>2, SnapshotsAre
    <2>4. Log!Leaves(Closed, recs, err)
      BY <1>2, <2>2, SnapshotsLeave
    <2>5. Queue!Emit(recs, err)
      BY <2>1, <2>2
    <2>6. /\ Queue!SinkType'
          /\ UNCHANGED <<rows, saved, phase, ctx, writer>>
          /\ Durable'
          /\ All \subseteq All'
          /\ err = "nil" /\ writer = "live" => \A i \in 1..Len(recs) : recs[i] \in All'
      BY <2>3, <2>4, <2>5, Emitting
    <2>7. /\ step' \in {"emit_details", "dataset", "return"}
          /\ ds' \in 1..(Len(Datasets) + 1)
          /\ step' = "emit_details" => ds' <= Len(Datasets) /\ err = "nil"
          /\ err # "nil" /\ EndsRun(err) => step' = "return"
      <3>1. CASE err = "nil"
        BY <1>1, <2>1, <3>1 DEF Goes, GithubInv, TypeOK, Place
      <3>2. CASE err # "nil"
        BY <1>1, <2>1, <3>2, Leaving DEF Goes
      <3> QED
        BY <3>1, <3>2
    <2>8. TypeOK'
      BY <1>1, <1>2, <1>3, <2>6, <2>7 DEF GithubInv, TypeOK
    <2>9. Chunking'
      BY <1>1, <1>3 DEF GithubInv, Chunking
    <2>10. Place'
      <3>1. phase = "collecting"
        BY <1>1 DEF GithubInv, Place
      <3> QED
        BY <2>6, <2>7, <3>1 DEF Place, Steps, Details
    <2>11. InHand'
      <3>1. writer = "live" => Vouches(st, All)
        BY <1>1 DEF GithubInv, InHand
      <3>2. writer = "live" => Vouches(st, All')
        BY <2>6, <3>1, VouchesGrows
      <3> QED
        BY <1>1, <2>6, <2>7, <3>2 DEF InHand
    <2>12. NoGap'
      BY <1>1, <2>6, <2>7 DEF GithubInv, NoGap, Snapshot
    <2>13. Asked'
      BY <1>1, <1>3, <1>5, <2>7 DEF Asked
    <2>14. Emitted'
      <3> SUFFICES ASSUME step' = "emit_details", writer = "live", NEW t \in targets,
                          ChunkOf(t) < chunk', ChunkOf(t) \in answered, ChunkOf(t) \notin failed
                   PROVE  t \in Gone \/ Snapshot(t) \in All'
        BY <1>1, <1>2, <1>3, <2>6 DEF Emitted, Holds, Snapshot
      <3>1. err = "nil"
        BY <2>7
      <3>2. CASE ChunkOf(t) < chunk
        <4>1. Holds(t)
          BY <1>5, <3>2
        <4> QED
          BY <2>6, <4>1 DEF Holds
      <3>3. CASE ChunkOf(t) = chunk
        BY <2>3, <2>6, <3>1, <3>3
      <3> QED
        BY <1>1, <1>2, <1>4, <3>2, <3>3
    <2> QED
      BY <2>6, <2>8, <2>9, <2>10, <2>11, <2>12, <2>13, <2>14 DEF GithubInv
  <1> QED
    BY <1>6, <1>7

(* Where the cursor may go. *)
LEMMA AdvanceIsCovered ==
  ASSUME GithubInv, writer = "live", step = "emit_details", chunk \notin Chunks,
         NEW i \in 1..AdvanceTo
  PROVE  Holds(i)
  <1>1. CASE Contiguous = {}
    <2>1. AdvanceTo = st.details
      BY <1>1 DEF AdvanceTo, LastOf
    <2> QED
      BY <2>1 DEF GithubInv, InHand, Vouches, Holds
  <1>2. CASE Contiguous # {}
    <2>0. PICK d : d = AdvanceTo
      OBVIOUS
    <2>1. targets \in SUBSET Repo /\ Contiguous \in SUBSET Repo /\ Contiguous \subseteq targets
      BY Chunked DEF Contiguous
    <2>2. d \in Contiguous
      BY <1>2, <2>0, <2>1, LastOfIs DEF AdvanceTo
    <2>3. d \in targets /\ d \in Repo /\ \A f \in failed : ChunkOf(d) < f
      BY <2>1, <2>2 DEF Contiguous
    <2>4. d \in Nat /\ i \in Nat /\ i # 0 /\ i <= d /\ i \in Repo
      BY <2>0, <2>3, Constants DEF Repo
    <2>5. st.details \in Nat /\ Vouches(st, All)
      BY DEF GithubInv, TypeOK, State, InHand
    <2>6. CASE i <= st.details
      <3>1. i \in 1..st.details
        BY <2>4, <2>5, <2>6
      <3> QED
        BY <2>5, <3>1 DEF Vouches, Holds
    <2>7. CASE st.details < i /\ i \notin targets
      <3>1. i < d
        BY <2>3, <2>4, <2>7
      <3> QED
        BY <2>3, <2>4, <2>7, <3>1 DEF GithubInv, NoGap, Holds
    <2>8. CASE i \in targets
      <3>1. PICK a, b : a = ChunkOf(i) /\ b = ChunkOf(d)
        OBVIOUS
      <3>2. a \in Chunks /\ b \in Chunks /\ Chunks \subseteq Nat
        BY <2>3, <2>8, <3>1, Chunked, Constants DEF Chunks
      <3>3. a <= b
        <4>1. CASE i = d
          BY <3>1, <3>2, <4>1
        <4>2. CASE i < d
          BY <2>1, <2>3, <2>8, <3>1, <4>2, ChunksAre
        <4> QED
          BY <2>4, <4>1, <4>2
      <3>4. \A f \in failed : f \in Nat /\ b < f
        BY <2>3, <3>1, Chunked
      <3>5. \A f \in failed : a < f
        BY <3>2, <3>3, <3>4
      <3>6. a \in answered /\ a \notin failed
        BY <3>2, <3>5 DEF GithubInv, Asked
      <3>7. chunk \in Nat \ {0}
        BY DEF GithubInv, Emitted
      <3>8. a < chunk
        <4> SUFFICES ASSUME chunk <= a
                     PROVE  FALSE
          BY <3>2, <3>7
        <4> QED
          BY <2>1, <3>2, <3>7, ChunksAre
      <3> QED
        BY <2>8, <3>1, <3>6, <3>8 DEF GithubInv, Emitted
    <2> QED
      BY <2>4, <2>5, <2>6, <2>7, <2>8
  <1> QED
    BY <1>1, <1>2

LEMMA SaveDetailsStep ==
  ASSUME GithubInv, SaveDetails
  PROVE  GithubInv'
  <1>1. PICK err \in Queue!Errors : Queue!PutState(st', err) /\ Leave(err)
    BY DEF SaveDetails
  <1>2. /\ step = "emit_details" /\ chunk \notin Chunks
        /\ st' = [st EXCEPT !.details = AdvanceTo]
        /\ UNCHANGED <<newest, version, stops, page, batch, poolVars>>
    BY DEF SaveDetails, serverVars
  <1>3. st \in State /\ (writer = "live" => Vouches(st, All))
    BY <1>2 DEF GithubInv, TypeOK, InHand
  <1>4. AdvanceTo \in 0..LastRepo
    <2>1. CASE Contiguous = {}
      BY <1>3, <2>1 DEF AdvanceTo, LastOf, State
    <2>2. CASE Contiguous # {}
      <3>1. Contiguous \in SUBSET Repo
        BY Chunked DEF Contiguous
      <3>2. AdvanceTo \in 1..LastRepo
        BY <2>2, <3>1, LastOfIs DEF AdvanceTo, Repo
      <3> QED
        BY <3>2, Constants
    <2> QED
      BY <2>1, <2>2
  <1>5. st' \in State /\ st'.since = st.since /\ st'.etag = st.etag /\ st'.details = AdvanceTo
    BY <1>2, <1>3, <1>4 DEF State
  <1>6. writer = "live" => Vouches(st', All)
    <2>1. writer = "live" => \A i \in 1..AdvanceTo : i \in Gone \/ Snapshot(i) \in All
      BY <1>2, AdvanceIsCovered DEF Holds
    <2> QED
      BY <1>3, <1>5, <2>1 DEF Vouches
  <1>7. /\ Queue!SinkType'
        /\ UNCHANGED <<rows, saved, phase, ctx, writer>>
        /\ Durable' /\ All' = All
    <2>1. PICK x : x = st'
      OBVIOUS
    <2> QED
      BY <1>1, <1>5, <1>6, <2>1, Saving
  <1>8. step' \in {"dataset", "return"} /\ ds' \in 1..(Len(Datasets) + 1)
    BY <1>1, <1>2, Leaving
  <1>9. Place'
    <2>1. phase = "collecting"
      BY <1>2 DEF GithubInv, Place
    <2> QED
      BY <1>7, <1>8, <2>1 DEF Place, Steps
  <1>10. InHand'
    BY <1>6, <1>7, <1>8 DEF InHand
  <1> QED
    BY <1>2, <1>5, <1>7, <1>8, <1>9, <1>10, Outside DEF GithubInv, TypeOK

-----------------------------------------------------------------------------
(* The run around it, and the environment. *)

LEMMA SamePool ==
  ASSUME GithubInv, UNCHANGED poolVars
  PROVE  /\ UNCHANGED <<targets, next, pool, answered, failed, chunk>>
         /\ Chunks' = Chunks /\ \A t \in targets : ChunkOf(t)' = ChunkOf(t)
  BY DEF poolVars, Chunks, ChunkOf

LEMMA WriteStep ==
  ASSUME GithubInv, Write
  PROVE  GithubInv'
  <1>1. /\ Queue!SinkType'
        /\ UNCHANGED <<phase, ctx, writer, emitted>>
        /\ Durable' /\ All' = All
    BY Writing DEF Write
  <1>2. UNCHANGED <<newest, version, stops, step, ds, page, batch, st, poolVars>>
    BY DEF Write, serverVars, adapterVars, pageVars
  <1>3. /\ UNCHANGED <<targets, next, pool, answered, failed, chunk>>
        /\ Chunks' = Chunks /\ \A t \in targets : ChunkOf(t)' = ChunkOf(t)
    BY <1>2, SamePool
  <1>4. TypeOK' /\ Chunking'
    BY <1>1, <1>2, <1>3 DEF GithubInv, TypeOK, Chunking
  <1>5. phase # "idle"
    <2>1. PICK n \in 1..Len(backlog) : Queue!Commit(n)
      BY DEF Write, Queue!Write
    <2>2. backlog # <<>>
      BY <2>1, EmptySeq
    <2> QED
      BY <2>2 DEF GithubInv, Place
  <1>6. Place'
    BY <1>1, <1>2, <1>5 DEF GithubInv, Place
  <1>7. InHand' /\ NoGap'
    BY <1>1, <1>2, <1>3 DEF GithubInv, InHand, NoGap, Batch, Snapshot
  <1>8. Asked' /\ Emitted'
    BY <1>1, <1>2, <1>3 DEF GithubInv, Asked, Emitted, IsLeft, Holds, Snapshot
  <1> QED
    BY <1>1, <1>4, <1>6, <1>7, <1>8 DEF GithubInv

LEMMA WriteFailsStep ==
  ASSUME GithubInv, WriteFails
  PROVE  GithubInv'
  <1>1. /\ Queue!TypeOK' /\ Durable' /\ backlog' = <<>>
        /\ writer' = "dead" /\ UNCHANGED <<phase, ctx, emitted>>
    BY Losing DEF WriteFails, Queue!WriteFails
  <1>2. UNCHANGED <<newest, version, step, ds, page, batch, st, poolVars>> /\ Trouble
    BY DEF WriteFails, serverVars, adapterVars, pageVars
  <1>3. /\ UNCHANGED <<targets, next, pool, answered, failed, chunk>>
        /\ Chunks' = Chunks /\ \A t \in targets : ChunkOf(t)' = ChunkOf(t)
    BY <1>2, SamePool
  <1>4. Queue!SinkType'
    BY <1>1 DEF GithubInv, TypeOK, Queue!SinkType
  <1>5. TypeOK' /\ Chunking'
    BY <1>2, <1>3, <1>4, Counting DEF GithubInv, TypeOK, Chunking
  <1>6. Place' /\ InHand' /\ NoGap'
    BY <1>1, <1>2 DEF GithubInv, Place, InHand, NoGap
  <1>7. Asked' /\ Emitted'
    BY <1>1, <1>2, <1>3 DEF GithubInv, Asked, Emitted, IsLeft
  <1> QED
    BY <1>1, <1>5, <1>6, <1>7 DEF GithubInv

LEMMA QuietStep ==
  ASSUME GithubInv, Interrupt \/ NewRepository \/ NewEvents \/ UNCHANGED vars
  PROVE  GithubInv'
  <1>1. /\ UNCHANGED <<backlog, rows, saved, phase, writer, emitted>>
        /\ UNCHANGED <<step, ds, page, batch, st, poolVars>>
        /\ ctx' \in {ctx, "cancelled"}
        /\ stops' = stops \/ Trouble
        /\ newest' = newest \/ (newest < LastRepo /\ newest' = newest + 1)
        /\ version' = version \/ (version <= MaxUpdates /\ version' = version + 1)
    BY DEF Interrupt, Queue!Interrupt, Queue!vars, NewRepository, NewEvents, vars, sinkVars,
           serverVars, adapterVars, pageVars
  <1>2. Durable' /\ All' = All
    BY <1>1, Still
  <1>3. /\ UNCHANGED <<targets, next, pool, answered, failed, chunk>>
        /\ Chunks' = Chunks /\ \A t \in targets : ChunkOf(t)' = ChunkOf(t)
    BY <1>1, SamePool
  <1>4. newest' \in 0..LastRepo /\ version' \in Version
    BY <1>1, Constants DEF GithubInv, TypeOK, Version
  <1>5. Queue!SinkType'
    BY <1>1 DEF GithubInv, TypeOK, Queue!SinkType, Queue!TypeOK
  <1>6. stops' \in 0..MaxStops
    BY <1>1, Counting
  <1>7. TypeOK' /\ Chunking'
    BY <1>1, <1>3, <1>4, <1>5, <1>6 DEF GithubInv, TypeOK, Chunking
  <1>8. Place'
    BY <1>1 DEF GithubInv, Place
  <1>9. InHand' /\ NoGap'
    BY <1>1, <1>2, <1>3 DEF GithubInv, InHand, NoGap, Batch, Snapshot
  <1>10. Asked' /\ Emitted'
    BY <1>1, <1>2, <1>3 DEF GithubInv, Asked, Emitted, IsLeft, Holds, Snapshot
  <1> QED
    BY <1>2, <1>7, <1>8, <1>9, <1>10 DEF GithubInv

LEMMA EndStep ==
  ASSUME GithubInv, EndRun \/ Crash
  PROVE  GithubInv'
  <1>1. CASE EndRun
    <2>1. /\ phase' = "idle" /\ backlog' = <<>> /\ Forget
          /\ UNCHANGED <<backlog, rows, saved, ctx, writer, emitted, stops>>
      BY <1>1 DEF EndRun, Queue!EndRun, Queue!vars
    <2>2. Durable' /\ Queue!SinkType'
      BY <2>1, Still DEF GithubInv, TypeOK, Queue!SinkType, Queue!TypeOK
    <2> QED
      BY <2>1, <2>2, StopStep, Counting
  <1>2. CASE Crash
    <2>1. /\ Queue!TypeOK' /\ Durable' /\ backlog' = <<>>
          /\ phase' = "idle" /\ UNCHANGED <<ctx, writer, emitted>> /\ Forget /\ Trouble
      BY <1>2, Losing DEF Crash, Queue!Crash
    <2>2. Queue!SinkType'
      BY <2>1 DEF GithubInv, TypeOK, Queue!SinkType
    <2> QED
      BY <2>1, <2>2, Counting, StopStep
  <1> QED
    BY <1>1, <1>2

LEMMA GithubStep == GithubInv /\ [Next]_vars => GithubInv'
  <1> SUFFICES ASSUME GithubInv, [Next]_vars
               PROVE  GithubInv'
    OBVIOUS
  <1>1. ASSUME NEW resume \in BOOLEAN, StartRun(resume)
        PROVE  GithubInv'
    BY <1>1, StartStep
  <1>2. CASE CollectStep
    <2>1. ASSUME NEW w \in Workers, Take(w) \/ Answered(w) \/ QueryFails(w)
          PROVE  GithubInv'
      BY <2>1, TakeStep, BackStep
    <2>2. CASE \/ NextDataset \/ NoMoreDatasets \/ DatasetFails \/ Return
               \/ RepositoriesEnd \/ RestRepositories \/ NotModified \/ EventsEnd \/ RestEvents
      BY <2>2, DatasetStep, RestingStep, ReturnStep
    <2>3. CASE GetRepositories \/ GetEvents \/ EmitPage \/ SavePage
      BY <2>3, GetRepositoriesStep, GetEventsStep, EmitPageStep, SavePageStep
    <2>4. CASE Query \/ Wrap \/ Wait \/ EmitChunk \/ SaveDetails
      BY <2>4, QueryStep, WrapStep, WaitStep, EmitChunkStep, SaveDetailsStep
    <2> QED
      BY <1>2, <2>1, <2>2, <2>3, <2>4 DEF CollectStep
  <1> QED
    BY <1>1, <1>2, EndStep, WriteStep, WriteFailsStep, QuietStep DEF Next

LEMMA GithubInvariant == Spec => []GithubInv
  BY GithubInit, GithubStep, PTL DEF Spec

-----------------------------------------------------------------------------
(* What follows. *)

(* Every variable of the adapter holds a value of its type, no batch of     *)
(* records is longer than a page and no query asks for more repositories    *)
(* than detail_batch.                                                       *)
THEOREM TypeCorrect == Spec => []TypeOK
  <1>1. GithubInv => TypeOK
    BY DEF GithubInv
  <1> QED
    BY GithubInvariant, <1>1, PTL

LEMMA SavedIsCovered ==
  ASSUME GithubInv, saved # NoState
  PROVE  Vouches(saved, rows)
  BY DEF GithubInv, Durable, Log!Sound, Covered

(* A saved cursor has the rows of all repositories up to it, whichever      *)
(* dataset saved it, although it moves before they are emitted.             *)
THEOREM CursorIsSafe == Spec => []RepositoriesCovered
  <1>1. GithubInv => RepositoriesCovered
    BY SavedIsCovered DEF Vouches, RepoRow, RepositoriesCovered
  <1> QED
    BY GithubInvariant, <1>1, PTL

(* A saved ETag has the events of the page it came with. *)
THEOREM EtagIsSafe == Spec => []EtagCovered
  <1>1. GithubInv => EtagCovered
    BY SavedIsCovered DEF Vouches, EtagCovered
  <1> QED
    BY GithubInvariant, <1>1, PTL

(* However the workers share the chunks, whichever queries fail, and with   *)
(* what chunks nobody asked for: no repository behind the saved cursor of   *)
(* the details lacks a snapshot that the queries know.                      *)
THEOREM DetailsAreComplete == Spec => []DetailsCovered
  <1>1. GithubInv => DetailsCovered
    BY SavedIsCovered DEF Vouches, DetailsCovered
  <1> QED
    BY GithubInvariant, <1>1, PTL
=============================================================================
