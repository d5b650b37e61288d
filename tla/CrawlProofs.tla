------------------------------ MODULE CrawlProofs ------------------------------
(***************************************************************************)
(* Theorems about CommonCrawl, for every configuration (numbers of crawls, *)
(* shards, lines, sizes of batches and checkpoints, limits, documents that *)
(* rows have in common), every number of workers, and whatever fails.      *)
(***************************************************************************)
EXTENDS CommonCrawl, TLAPS, SequenceTheorems, FiniteSetTheorems

Log == INSTANCE SinkLemmas

-----------------------------------------------------------------------------
(* What the database has, for a configuration c and the numbering d of its  *)
(* index rows.                                                              *)

Numbers(d) == {d[r] : r \in DOMAIN d}
RowWith(d, i) == CHOOSE r \in DOMAIN d : d[r] = i
Doc(c, d, i) == {RowWith(d, i)} \cup UNION {t \in c.twins : RowWith(d, i) \in t}

(* The lines of a shard up to the given one, but for those that do not parse *)
(* and those that a stream may cut.                                          *)
Due(c, n, s, l) == <<s, l>> \notin c.malformed /\ <<n, s, l>> \notin c.cut
UpTo(c, n, s, last, R) ==
    \A l \in 1..c.lastLine : l <= last /\ Due(c, n, s, l) => <<n, s, l>> \in R

(* Sets of records in which the row of a shard comes with its lines, and a  *)
(* page with a numbered row.                                                *)
Whole(c, d) ==
    {R \in SUBSET RecordsOf(c) :
        /\ \A n \in 1..c.lastCrawl, s \in 0..(c.shardCount - 1) :
              ShardRow(n, s) \in R => UpTo(c, n, s, c.lastLine, R)
        /\ \A i \in 1..LastId(c) : Page(i) \in R => i \in Numbers(d)}

(* The records that a state x stands for. *)
IndexBehind(c, x, R) ==
    /\ \A s \in 0..(c.shardCount - 1) : s < x.shard => UpTo(c, x.crawl, s, c.lastLine, R)
    /\ UpTo(c, x.crawl, x.shard, x.line, R)
PagesBehind(c, d, x, R) ==
    /\ x.page <= Cardinality(DOMAIN d)
    /\ \A i \in Numbers(d) : i <= x.page =>
          \E j \in Numbers(d) : Page(j) \in R /\ Doc(c, d, j) = Doc(c, d, i)
Vouches(c, d, x, R) == IndexBehind(c, x, R) /\ PagesBehind(c, d, x, R)

Covered(c, d) ==
    {p \in StatesOf(c) \X SUBSET RecordsOf(c) : Vouches(c, d, p[1], p[2])}

(* Whatever part of the log a crash leaves out, the rest covers its state.  *)
Durable == Log!Sound(Whole(config, ids), Covered(config, ids), NoState, rows, backlog, saved)

(* All that the run has handed over, as long as the writer takes it.        *)
All == Log!Backlogged

(* The rows are numbered from 1 on, each with its own number. *)
Numbering ==
    /\ \A r \in DOMAIN ids : ids[r] \in 1..Cardinality(DOMAIN ids)
    /\ \A q, r \in DOMAIN ids : ids[q] = ids[r] => q = r

(* Of the pages of a document the database has kept one. *)
OnePerDocument(c, d, kept, R) ==
    /\ \A i \in kept : i \in Numbers(d) /\ Page(i) \in R
    /\ \A i \in 1..LastId(c) :
          Page(i) \in R => \E j \in kept : Doc(c, d, j) = Doc(c, d, i)

-----------------------------------------------------------------------------
(* The inductive invariant: where Collect is, and what it has in hand.      *)

Reading == {"scan", "flush", "last", "broken", "checkpoint", "mark"}
InShard == Reading \cup {"open", "abort"}
InIndex == InShard \cup {"loop", "save"}
Fetching == {"fetch", "emit", "advance"}
InPages == Fetching \cup {"query"}

Place ==
    /\ step # "off" <=> phase = "collecting"
    /\ phase = "idle" => backlog = <<>>
    /\ step \in InIndex \cup InPages => left # <<>>
    /\ step \in InIndex \cup InPages \cup {"dataset"} => st.crawl \in Crawls
    /\ step \in InShard => st.shard < config.shardCount
    /\ step \in InShard \cup {"save"} => done < config.maxShards
    /\ step = "scan" => Len(batch) < config.batchCap
    /\ step \in {"last", "mark"} => lines = config.lastLine
    /\ step \in {"checkpoint", "mark"} => batch = <<>>
    /\ step = "query" => taken = {} /\ results = {} /\ failures = {}

(* The state in memory is covered, so that any dataset may save it.         *)
InHand == writer = "live" /\ step # "off" => Vouches(config, ids, st, All)

(* Up to the line it has read, a shard is handed over or in the batch.      *)
Batch == {batch[i] : i \in 1..Len(batch)}
Scanned ==
    writer = "live" =>
        /\ step \in Reading => UpTo(config, st.crawl, st.shard, lines, All \cup Batch)
        /\ step \in Reading \cup {"abort"} =>
              /\ UpTo(config, st.crawl, st.shard, flushed, All)
              /\ UpTo(config, st.crawl, st.shard, skip, All)

(* Between the cursor and a target, each row has its page or is a target.   *)
NoGap ==
    step \in Fetching =>
        \A t \in targets :
            /\ t \in Numbers(ids)
            /\ \A i \in Numbers(ids) : st.page < i /\ i < t => i \in targets \cup paged

(* A target that was taken is fetched, failed or with a worker; in a run    *)
(* that goes on workers leave no target behind.                             *)
Asked ==
    /\ step = "fetch" /\ ctx = "live" =>
          /\ \A t \in taken : t \in results \cup failures \/ \E w \in Workers : pool[w] = t
          /\ \A w \in Workers : pool[w] = Done => targets \subseteq taken
    /\ step \in {"emit", "advance"} => targets \subseteq results \cup failures
    /\ step = "advance" /\ writer = "live" => \A t \in results : Page(t) \in All

CrawlInv ==
    /\ TypeOK /\ Numbering /\ OnePerDocument(config, ids, paged, rows) /\ Place
    /\ Durable /\ InHand /\ Scanned /\ NoGap /\ Asked

-----------------------------------------------------------------------------
(* Configurations, and finite sets. *)

LEMMA ConfigIs ==
  ASSUME NEW c \in Configs
  PROVE  /\ c.datasets \in Seq({"index", "pages"})
         /\ c.lastCrawl \in Nat \ {0} /\ c.shardCount \in Nat /\ c.lastLine \in Nat
         /\ c.listed \in Nat /\ c.checkpoint \in Nat \ {0} /\ c.batchCap \in Nat \ {0}
         /\ c.maxShards \in Nat \ {0} /\ c.pageBatch \in Nat \ {0} /\ c.maxStops \in Nat
         /\ LastId(c) \in Nat
  <1>1. /\ c.datasets \in Seq({"index", "pages"})
        /\ c.lastCrawl \in Nat \ {0} /\ c.shardCount \in Nat /\ c.lastLine \in Nat
        /\ c.listed \in Nat /\ c.checkpoint \in Nat \ {0} /\ c.batchCap \in Nat \ {0}
        /\ c.maxShards \in Nat \ {0} /\ c.pageBatch \in Nat \ {0} /\ c.maxStops \in Nat
    BY ConfigAssumption
  <1> DEFINE a == c.lastCrawl
             b == c.shardCount
             d == c.lastLine
  <1>2. a \in Nat /\ b \in Nat /\ d \in Nat
    BY <1>1
  <1> HIDE DEF a, b, d
  <1>3. (a * b) * d \in Nat
    BY <1>2
  <1> QED
    BY <1>1, <1>3 DEF LastId, a, b, d

LEMMA SetsOf ==
  ASSUME NEW c \in Configs
  PROVE  /\ RecordsOf(c) \subseteq Record /\ StatesOf(c) \subseteq State
         /\ RowsOf(c) \subseteq RecordsOf(c) /\ Start \in StatesOf(c)
         /\ NoState \notin State /\ MaxRecords \in Nat
  <1>1. ASSUME NEW e \in Configs
        PROVE  StatesOf(e) \subseteq [crawl : Nat, shard : Nat, line : Nat, page : Nat]
    <2>1. e.lastCrawl \in Nat /\ e.shardCount \in Nat /\ e.lastLine \in Nat /\ LastId(e) \in Nat
      BY ConfigIs
    <2> QED
      BY <2>1 DEF StatesOf
  <1>2. NoState \notin State
    BY <1>1, ConfigAssumption DEF State
  <1>3. Start \in StatesOf(c)
    BY ConfigIs DEF Start, StatesOf
  <1>4. RecordsOf(c) \subseteq Record /\ StatesOf(c) \subseteq State
    BY DEF Record, State
  <1>5. RowsOf(c) \subseteq RecordsOf(c)
    BY DEF RecordsOf
  <1> QED
    BY <1>2, <1>3, <1>4, <1>5, ConfigAssumption

LEMMA FirstNumbers ==
  ASSUME NEW n \in Nat
  PROVE  IsFiniteSet(1..n) /\ Cardinality(1..n) = n
  <1>1. IsFiniteSet(1..n) /\ Cardinality(1..n) = IF 1 > n THEN 0 ELSE n - 1 + 1
    BY FS_Interval
  <1> QED
    BY <1>1

(* There are as many index rows as ids. *)
LEMMA NumberOfRows ==
  ASSUME NEW c \in Configs
  PROVE  IsFiniteSet(RowsOf(c)) /\ Cardinality(RowsOf(c)) = LastId(c)
  <1> DEFINE A == 1..c.lastCrawl
             B == 0..(c.shardCount - 1)
             D == 1..c.lastLine
             flat == [p \in (A \X B) \X D |-> <<p[1][1], p[1][2], p[2]>>]
  <1>1. c.lastCrawl \in Nat /\ c.shardCount \in Nat /\ c.lastLine \in Nat
    BY ConfigIs
  <1>2. IsFiniteSet(A) /\ Cardinality(A) = c.lastCrawl
    BY <1>1, FirstNumbers
  <1>3. IsFiniteSet(B) /\ Cardinality(B) = c.shardCount
    <2>1. c.shardCount - 1 \in Int /\ 0 \in Int
      BY <1>1
    <2>2. IsFiniteSet(0..(c.shardCount - 1))
          /\ Cardinality(0..(c.shardCount - 1)) =
                IF 0 > c.shardCount - 1 THEN 0 ELSE (c.shardCount - 1) - 0 + 1
      BY <2>1, FS_Interval
    <2> QED
      BY <1>1, <2>2
  <1>4. IsFiniteSet(D) /\ Cardinality(D) = c.lastLine
    BY <1>1, FirstNumbers
  <1> HIDE DEF A, B, D
  <1>5. IsFiniteSet(A \X B) /\ Cardinality(A \X B) = Cardinality(A) * Cardinality(B)
    BY <1>2, <1>3, FS_Product
  <1>6. /\ IsFiniteSet((A \X B) \X D)
        /\ Cardinality((A \X B) \X D) = Cardinality(A \X B) * Cardinality(D)
    BY <1>4, <1>5, FS_Product
  <1>7. flat \in Bijection((A \X B) \X D, A \X B \X D)
    <2>1. flat \in [(A \X B) \X D -> A \X B \X D]
      OBVIOUS
    <2>2. \A p, q \in (A \X B) \X D : flat[p] = flat[q] => p = q
      OBVIOUS
    <2>3. \A r \in A \X B \X D : \E p \in (A \X B) \X D : flat[p] = r
      <3> TAKE r \in A \X B \X D
      <3>1. <<<<r[1], r[2]>>, r[3]>> \in (A \X B) \X D
        OBVIOUS
      <3>2. flat[<<<<r[1], r[2]>>, r[3]>>] = r
        BY <3>1
      <3> QED
        BY <3>1, <3>2
    <2> HIDE DEF flat
    <2> QED
      BY <2>1, <2>2, <2>3 DEF Bijection, Injection, Surjection, IsInjective
  <1> HIDE DEF flat
  <1>8. /\ IsFiniteSet(A \X B \X D)
        /\ Cardinality(A \X B \X D) = Cardinality((A \X B) \X D)
    BY <1>6, <1>7, FS_Bijection DEF ExistsBijection
  <1>9. RowsOf(c) = A \X B \X D
    BY DEF RowsOf, A, B, D
  <1> QED
    BY <1>2, <1>3, <1>4, <1>5, <1>6, <1>8, <1>9 DEF LastId

LEMMA SameSets ==
  /\ \A S : Log!IsFiniteSet(S) <=> IsFiniteSet(S)
  /\ \A S : Log!Cardinality(S) = Cardinality(S)
  BY DEF Log!IsFiniteSet, IsFiniteSet, Log!Cardinality, Cardinality

LEMMA Ranks ==
  ASSUME NEW S \in SUBSET Nat, IsFiniteSet(S)
  PROVE  /\ Cardinality(S) \in Nat
         /\ \A t \in S : Log!Rank(S, t) \in Nat /\ Log!Rank(S, t) < Cardinality(S)
         /\ \A t, u \in S : t < u => Log!Rank(S, t) < Log!Rank(S, u)
         /\ \A i \in Nat : i < Cardinality(S) => \E t \in S : Log!Rank(S, t) = i
  <1>1. Log!IsFiniteSet(S)
    BY SameSets
  <1>2. /\ Log!Cardinality(S) \in Nat
        /\ \A t \in S : Log!Rank(S, t) \in Nat /\ Log!Rank(S, t) < Log!Cardinality(S)
        /\ \A t, u \in S : t < u => Log!Rank(S, t) < Log!Rank(S, u)
        /\ \A i \in Nat : i < Log!Cardinality(S) => \E t \in S : Log!Rank(S, t) = i
    BY <1>1, Log!Ranks
  <1> QED
    BY <1>2, SameSets

(* InOrder enumerates a finite set of numbers. *)
LEMMA InOrderIs ==
  ASSUME NEW S \in SUBSET Nat, IsFiniteSet(S)
  PROVE  /\ DOMAIN InOrder(S) = 1..Cardinality(S)
         /\ \A j \in DOMAIN InOrder(S) : InOrder(S)[j] \in S
         /\ \A t \in S : \E j \in DOMAIN InOrder(S) : InOrder(S)[j] = t
  <1>1. InOrder(S) = Log!Ascending(S)
    BY SameSets DEF InOrder, Log!Ascending
  <1>2. Log!IsFiniteSet(S)
    BY SameSets
  <1>3. /\ DOMAIN Log!Ascending(S) = 1..Log!Cardinality(S)
        /\ \A j \in DOMAIN Log!Ascending(S) : Log!Ascending(S)[j] \in S
        /\ \A t \in S : \E j \in DOMAIN Log!Ascending(S) : Log!Ascending(S)[j] = t
    BY <1>2, Log!AscendingIs
  <1> QED
    BY <1>1, <1>3, SameSets

(* A finite set of numbers has a first and a last one. *)
LEMMA Ends ==
  ASSUME NEW S \in SUBSET Nat, IsFiniteSet(S), S # {}
  PROVE  /\ \E i \in S : \A j \in S : i <= j
         /\ \E i \in S : \A j \in S : j <= i
  <1> DEFINE n == Cardinality(S)
  <1>1. n \in Nat /\ n # 0
    BY Ranks, FS_EmptySet
  <1>2. \A t \in S : Log!Rank(S, t) \in Nat /\ Log!Rank(S, t) < n
    BY Ranks
  <1>3. \A t, u \in S : t < u => Log!Rank(S, t) < Log!Rank(S, u)
    BY Ranks
  <1>4. \A i \in Nat : i < n => \E t \in S : Log!Rank(S, t) = i
    BY Ranks
  <1> HIDE DEF n
  <1>5. PICK first \in S : Log!Rank(S, first) = 0
    BY <1>1, <1>4
  <1>6. \A j \in S : first <= j
    <2> SUFFICES ASSUME NEW j \in S, j < first
                 PROVE  FALSE
      OBVIOUS
    <2> QED
      BY <1>2, <1>3, <1>5
  <1>7. PICK last \in S : Log!Rank(S, last) = n - 1
    <2>1. n - 1 \in Nat /\ n - 1 < n
      BY <1>1
    <2> QED
      BY <1>4, <2>1
  <1>8. \A j \in S : j <= last
    <2> SUFFICES ASSUME NEW j \in S, last < j
                 PROVE  FALSE
      OBVIOUS
    <2> QED
      BY <1>1, <1>2, <1>3, <1>7
  <1> QED
    BY <1>6, <1>8

LEMMA LeastIs ==
  ASSUME NEW S \in SUBSET Nat, IsFiniteSet(S), S # {}
  PROVE  Least(S) \in S /\ \A j \in S : Least(S) <= j
  BY Ends DEF Least

LEMMA IdSets ==
  ASSUME NEW c \in Configs, NEW S \in SUBSET (1..LastId(c))
  PROVE  S \in SUBSET Nat /\ IsFiniteSet(S)
  <1>1. LastId(c) \in Nat
    BY ConfigIs
  <1>2. IsFiniteSet(1..LastId(c))
    BY <1>1, FirstNumbers
  <1>3. IsFiniteSet(S)
    BY <1>2, FS_Subset
  <1>4. S \in SUBSET Nat
    BY <1>1
  <1> QED
    BY <1>3, <1>4

-----------------------------------------------------------------------------
(* The kinds of records. *)

LEMMA Kinds ==
  /\ \A i, n, s, l : Page(i) # <<n, s, l>>
  /\ \A i, j : Page(i) = Page(j) => i = j
  /\ \A c, s, i, n, t, l \in Nat : ShardRow(c, s) = <<n, t, l>> => n = c /\ t = s /\ l = 0
  <1>1. ASSUME NEW i, NEW n, NEW s, NEW l
        PROVE  <<"page", i>> # <<n, s, l>>
    <2>1. DOMAIN <<"page", i>> = 1..2 /\ DOMAIN <<n, s, l>> = 1..3
      OBVIOUS
    <2>2. 3 \notin 1..2 /\ 3 \in 1..3
      OBVIOUS
    <2> QED
      BY <2>1, <2>2
  <1> QED
    BY <1>1 DEF Page, ShardRow

-----------------------------------------------------------------------------
(* The ids of the rows. *)

LEMMA RowsInOrder ==
  ASSUME NEW c \in Configs
  PROVE  /\ \A q, r \in RowsOf(c) : q # r => Before(q, r) \/ Before(r, q)
         /\ \A q, r \in RowsOf(c) : Before(q, r) => ~Before(r, q)
         /\ \A q, r, t \in RowsOf(c) : Before(q, r) /\ Before(r, t) => Before(q, t)
  <1>1. RowsOf(c) \subseteq Nat \X Nat \X Nat
    BY ConfigIs DEF RowsOf
  <1>2. \A q, r \in Nat \X Nat \X Nat : q # r => Before(q, r) \/ Before(r, q)
    BY DEF Before
  <1>3. \A q, r \in Nat \X Nat \X Nat : Before(q, r) => ~Before(r, q)
    BY DEF Before
  <1>4. \A q, r, t \in Nat \X Nat \X Nat : Before(q, r) /\ Before(r, t) => Before(q, t)
    BY DEF Before
  <1> QED
    BY <1>1, <1>2, <1>3, <1>4

(* In a set of new rows each has a place of its own. *)
LEMMA Places ==
  ASSUME NEW c \in Configs, NEW S \in SUBSET RowsOf(c)
  PROVE  /\ Cardinality(S) \in Nat
         /\ \A r \in S : Cardinality({q \in S : ~Before(r, q)}) \in 1..Cardinality(S)
         /\ \A r, t \in S : Cardinality({q \in S : ~Before(r, q)})
                               = Cardinality({q \in S : ~Before(t, q)}) => r = t
  <1> DEFINE U(r) == {q \in S : ~Before(r, q)}
  <1>1. IsFiniteSet(S) /\ Cardinality(S) \in Nat
    BY NumberOfRows, FS_Subset, FS_CardinalityType
  <1>2. ASSUME NEW r \in S
        PROVE  IsFiniteSet(U(r)) /\ Cardinality(U(r)) \in 1..Cardinality(S)
    <2>1. U(r) \in SUBSET S /\ r \in U(r)
      BY RowsInOrder
    <2>2. IsFiniteSet(U(r)) /\ Cardinality(U(r)) <= Cardinality(S)
      BY <1>1, <2>1, FS_Subset
    <2>3. Cardinality(U(r)) \in Nat /\ Cardinality(U(r)) # 0
      BY <2>1, <2>2, FS_CardinalityType, FS_EmptySet
    <2> QED
      BY <1>1, <2>2, <2>3
  <1>3. ASSUME NEW r \in S, NEW t \in S, Before(r, t)
        PROVE  Cardinality(U(r)) # Cardinality(U(t))
    <2>1. U(r) \in SUBSET U(t)
      BY <1>3, RowsInOrder
    <2>2. t \in U(t) /\ t \notin U(r)
      BY <1>3, RowsInOrder
    <2> QED
      BY <1>2, <2>1, <2>2, FS_Subset
  <1>4. ASSUME NEW r \in S, NEW t \in S, Cardinality(U(r)) = Cardinality(U(t))
        PROVE  r = t
    BY <1>3, <1>4, RowsInOrder
  <1> QED
    BY <1>1, <1>2, <1>4

(* A numbering that goes on from ids. *)
GoesOn(d, recs) ==
    /\ DOMAIN d = DOMAIN ids \cup (recs \cap IndexRows)
    /\ \A r \in DOMAIN ids : d[r] = ids[r]
    /\ \A r \in DOMAIN d \ DOMAIN ids : d[r] > Cardinality(DOMAIN ids)
    /\ Cardinality(DOMAIN ids) \in Nat /\ Cardinality(DOMAIN d) \in Nat
    /\ Cardinality(DOMAIN ids) <= Cardinality(DOMAIN d)
    /\ Cardinality(DOMAIN d) <= LastId(config)
    /\ \A r \in DOMAIN d : d[r] \in 1..Cardinality(DOMAIN d)
    /\ \A q, r \in DOMAIN d : d[q] = d[r] => q = r

(* The rows of a commit keep their numbers, or get the next ones. *)
LEMMA NumberedIs ==
  ASSUME TypeOK, Numbering, NEW recs
  PROVE  GoesOn(Numbered(recs), recs)
  <1> DEFINE S == NewRows(recs)
             U(r) == {q \in S : ~Before(r, q)}
             m == Cardinality(S)
  <1>d. PICK d : d = Numbered(recs)
    OBVIOUS
  <1>0. PICK n : n = Cardinality(DOMAIN ids)
    OBVIOUS
  <1>1. config \in Configs /\ DOMAIN ids \in SUBSET RowsOf(config)
    BY DEF TypeOK, IndexRows
  <1>2. S \in SUBSET RowsOf(config) /\ S \cap DOMAIN ids = {}
    BY DEF NewRows, IndexRows
  <1>3. /\ m \in Nat
        /\ \A r \in S : Cardinality(U(r)) \in 1..m
        /\ \A r, t \in S : Cardinality(U(r)) = Cardinality(U(t)) => r = t
    BY <1>1, <1>2, Places
  <1>4. IsFiniteSet(DOMAIN ids) /\ IsFiniteSet(S) /\ n \in Nat
    BY <1>0, <1>1, <1>2, NumberOfRows, FS_Subset, FS_CardinalityType
  <1>5. /\ d = [r \in DOMAIN ids \cup S |-> IF r \in DOMAIN ids THEN ids[r] ELSE n + Cardinality(U(r))]
    BY <1>0, <1>d DEF Numbered
  <1>6. DOMAIN d = DOMAIN ids \cup S /\ DOMAIN ids \cup S = DOMAIN ids \cup (recs \cap IndexRows)
    BY <1>5 DEF NewRows
  <1>7. Cardinality(DOMAIN ids \cup S) = n + m
    <2>1. Cardinality(DOMAIN ids \cup S) = n + m - Cardinality(DOMAIN ids \cap S)
      BY <1>0, <1>4, FS_Union
    <2>2. Cardinality(DOMAIN ids \cap S) = 0
      BY <1>2, FS_EmptySet
    <2> HIDE DEF m, S
    <2> QED
      BY <1>3, <1>4, <2>1, <2>2
  <1>8. Cardinality(DOMAIN ids \cup S) <= LastId(config)
    <2>1. DOMAIN ids \cup S \in SUBSET RowsOf(config)
      BY <1>1, <1>2
    <2> QED
      BY <1>1, <2>1, NumberOfRows, FS_Subset
  <1>9. \A r \in DOMAIN ids : d[r] = ids[r] /\ d[r] \in 1..n
    BY <1>0, <1>5, <1>6 DEF Numbering
  <1>10. \A r \in S : d[r] = n + Cardinality(U(r))
    BY <1>2, <1>5
  <1> HIDE DEF S, U, m
  <1>11. \A r \in S : d[r] \in 1..(n + m) /\ d[r] > n
    BY <1>3, <1>4, <1>10
  <1>12. \A r \in DOMAIN d : d[r] \in 1..(n + m)
    BY <1>3, <1>4, <1>6, <1>9, <1>11
  <1>13. ASSUME NEW q \in DOMAIN d, NEW r \in DOMAIN d, d[q] = d[r]
         PROVE  q = r
    <2>1. CASE q \in DOMAIN ids /\ r \in DOMAIN ids
      BY <1>9, <1>13, <2>1 DEF Numbering
    <2>2. CASE q \in S /\ r \in S
      <3>1. Cardinality(U(q)) \in Nat /\ Cardinality(U(r)) \in Nat
        BY <1>3, <2>2
      <3>2. n + Cardinality(U(q)) = n + Cardinality(U(r))
        BY <1>10, <1>13, <2>2
      <3>3. Cardinality(U(q)) = Cardinality(U(r))
        BY <1>4, <3>1, <3>2
      <3> QED
        BY <1>3, <2>2, <3>3
    <2>3. CASE (q \in DOMAIN ids /\ r \in S) \/ (q \in S /\ r \in DOMAIN ids)
      BY <1>4, <1>9, <1>11, <1>13, <2>3
    <2> QED
      BY <1>6, <2>1, <2>2, <2>3
  <1>14. \A r \in DOMAIN d \ DOMAIN ids : d[r] > n
    BY <1>6, <1>11
  <1>15. GoesOn(d, recs)
    BY <1>0, <1>3, <1>4, <1>6, <1>7, <1>8, <1>9, <1>12, <1>13, <1>14 DEF GoesOn
  <1> QED
    BY <1>d, <1>15

LEMMA SameNumbers ==
  /\ Considered = Numbers(ids)
  /\ \A i : Document(i) = Doc(config, ids, i)
  BY DEF Considered, Numbers, Document, RowOf, Doc, RowWith

(* What is said of the numbers that there were stays true. *)
LEMMA NumbersGrow ==
  ASSUME TypeOK, Numbering, NEW recs, NEW d, d = Numbered(recs)
  PROVE  /\ Numbers(ids) \subseteq Numbers(d)
         /\ \A i \in Numbers(ids) : Doc(config, d, i) = Doc(config, ids, i)
         /\ \A i \in Numbers(ids) : i \in Ids /\ i <= Cardinality(DOMAIN ids)
         /\ \A i \in Numbers(d) \ Numbers(ids) : i > Cardinality(DOMAIN ids)
         /\ Cardinality(DOMAIN ids) \in Nat /\ Cardinality(DOMAIN d) \in Nat
         /\ Cardinality(DOMAIN ids) <= Cardinality(DOMAIN d)
  <1>0. PICK n : n = Cardinality(DOMAIN ids)
    OBVIOUS
  <1>a. GoesOn(d, recs)
    BY NumberedIs
  <1>1. /\ DOMAIN d = DOMAIN ids \cup (recs \cap IndexRows)
        /\ \A r \in DOMAIN ids : d[r] = ids[r]
        /\ \A r \in DOMAIN d \ DOMAIN ids : d[r] > n
        /\ n \in Nat /\ Cardinality(DOMAIN d) \in Nat /\ n <= Cardinality(DOMAIN d)
        /\ Cardinality(DOMAIN d) <= LastId(config)
        /\ \A r \in DOMAIN d : d[r] \in 1..Cardinality(DOMAIN d)
        /\ \A q, r \in DOMAIN d : d[q] = d[r] => q = r
    BY <1>0, <1>a DEF GoesOn
  <1>2. LastId(config) \in Nat
    BY ConfigIs DEF TypeOK
  <1>3. \A r \in DOMAIN ids : ids[r] \in 1..n /\ ids[r] \in Ids
    BY <1>0 DEF Numbering, TypeOK
  <1>4. Numbers(ids) \subseteq Numbers(d)
    BY <1>1 DEF Numbers
  <1>5. \A i \in Numbers(ids) : i \in Ids /\ i <= n
    BY <1>1, <1>3 DEF Numbers
  <1>6. \A i \in Numbers(d) \ Numbers(ids) : i > n
    BY <1>1 DEF Numbers
  <1>7. ASSUME NEW i \in Numbers(ids)
        PROVE  RowWith(d, i) = RowWith(ids, i)
    <2>1. PICK r \in DOMAIN ids : ids[r] = i
      BY DEF Numbers
    <2>2. r \in DOMAIN d /\ d[r] = i
      BY <1>1, <2>1
    <2>3. RowWith(d, i) = r
      <3>1. RowWith(d, i) \in DOMAIN d /\ d[RowWith(d, i)] = i
        BY <2>2 DEF RowWith
      <3> QED
        BY <1>1, <2>2, <3>1
    <2>4. RowWith(ids, i) = r
      <3>1. RowWith(ids, i) \in DOMAIN ids /\ ids[RowWith(ids, i)] = i
        BY <2>1 DEF RowWith
      <3> QED
        BY <2>1, <3>1 DEF Numbering
    <2> QED
      BY <2>3, <2>4
  <1>8. \A i \in Numbers(ids) : Doc(config, d, i) = Doc(config, ids, i)
    BY <1>7 DEF Doc
  <1> QED
    BY <1>0, <1>1, <1>4, <1>5, <1>6, <1>8

LEMMA PagesBehindStay ==
  ASSUME TypeOK, Numbering, NEW recs, NEW d, d = Numbered(recs),
         NEW x \in StatesOf(config), NEW R, PagesBehind(config, ids, x, R)
  PROVE  PagesBehind(config, d, x, R)
  <1> DEFINE n == Cardinality(DOMAIN ids)
             m == Cardinality(DOMAIN d)
  <1>1. /\ Numbers(ids) \subseteq Numbers(d)
        /\ \A i \in Numbers(ids) : Doc(config, d, i) = Doc(config, ids, i)
        /\ \A i \in Numbers(ids) : i \in Ids /\ i <= n
        /\ \A i \in Numbers(d) \ Numbers(ids) : i > n
        /\ n \in Nat /\ m \in Nat /\ n <= m
    BY NumbersGrow
  <1>2. x.page \in Nat /\ x.page <= n
    BY ConfigIs DEF TypeOK, StatesOf, PagesBehind
  <1> HIDE DEF n, m
  <1>3. x.page <= m
    BY <1>1, <1>2
  <1>4. ASSUME NEW i \in Numbers(d), i <= x.page
        PROVE  \E j \in Numbers(d) : Page(j) \in R /\ Doc(config, d, j) = Doc(config, d, i)
    <2>1. i \in Numbers(ids)
      <3> SUFFICES ASSUME i \notin Numbers(ids)
                   PROVE  FALSE
        OBVIOUS
      <3>1. i > n /\ i \in Nat
        <4>1. i > n
          BY <1>1
        <4>2. \A r \in DOMAIN d : d[r] \in 1..Cardinality(DOMAIN d)
          BY NumberedIs DEF GoesOn
        <4>3. i \in 1..m
          BY <4>2 DEF Numbers, m
        <4> QED
          BY <1>1, <4>1, <4>3
      <3> QED
        BY <1>1, <1>2, <1>4, <3>1
    <2>2. PICK j \in Numbers(ids) : Page(j) \in R /\ Doc(config, ids, j) = Doc(config, ids, i)
      BY <1>4, <2>1 DEF PagesBehind
    <2> QED
      BY <1>1, <2>1, <2>2
  <1> QED
    BY <1>3, <1>4 DEF PagesBehind, m

LEMMA PromisesStay ==
  ASSUME TypeOK, Numbering, NEW recs, NEW d, d = Numbered(recs)
  PROVE  /\ Whole(config, ids) \subseteq Whole(config, d)
         /\ Covered(config, ids) \subseteq Covered(config, d)
  <1>1. Numbers(ids) \subseteq Numbers(d)
    BY NumbersGrow
  <1>2. Whole(config, ids) \subseteq Whole(config, d)
    BY <1>1 DEF Whole
  <1>3. ASSUME NEW p \in Covered(config, ids)
        PROVE  p \in Covered(config, d)
    <2>1. /\ p \in StatesOf(config) \X SUBSET RecordsOf(config)
          /\ IndexBehind(config, p[1], p[2]) /\ PagesBehind(config, ids, p[1], p[2])
      BY DEF Covered, Vouches
    <2>2. p[1] \in StatesOf(config)
      BY <2>1
    <2>3. PagesBehind(config, d, p[1], p[2])
      BY <2>1, <2>2, PagesBehindStay
    <2> QED
      BY <2>1, <2>3 DEF Covered, Vouches
  <1> QED
    BY <1>2, <1>3

(* More records vouch for what fewer do. *)
LEMMA VouchesGrows ==
  ASSUME NEW c, NEW d, NEW x, NEW A, NEW B, Vouches(c, d, x, A), A \subseteq B
  PROVE  Vouches(c, d, x, B)
  <1>1. IndexBehind(c, x, B)
    BY DEF Vouches, IndexBehind, UpTo
  <1>2. PagesBehind(c, d, x, B)
    BY DEF Vouches, PagesBehind
  <1> QED
    BY <1>1, <1>2 DEF Vouches

LEMMA CoveredGrows ==
  ASSUME NEW c, NEW d
  PROVE  Log!Monotone(Whole(c, d), Covered(c, d))
  <1> SUFFICES ASSUME NEW x, NEW A, NEW B,
                      <<x, A>> \in Covered(c, d), A \subseteq B, B \in Whole(c, d)
               PROVE  <<x, B>> \in Covered(c, d)
    BY DEF Log!Monotone
  <1>1. x \in StatesOf(c) /\ Vouches(c, d, x, A) /\ B \in SUBSET RecordsOf(c)
    BY DEF Covered, Whole
  <1>2. Vouches(c, d, x, B)
    BY <1>1, VouchesGrows
  <1> QED
    BY <1>1, <1>2 DEF Covered

-----------------------------------------------------------------------------
(* The queue. *)

(* What Sink.tla says of the queue. *)
LEMMA Sink ==
  /\ Queue!SinkType <=> Log!SinkType
  /\ \A recs, err : Queue!Emit(recs, err) <=> Log!Emit(recs, err)
  /\ \A x, err : Queue!PutState(x, err) <=> Log!PutState(x, err)
  /\ \A n : Queue!Commit(n) <=> Log!Commit(n)
  /\ Queue!Lose <=> Log!Lose
  <1>1. Queue!SinkType <=> Log!SinkType
    BY DEF Queue!SinkType, Log!SinkType, Queue!TypeOK, Log!TypeOK, Queue!Message, Log!Message
  <1>2. ASSUME NEW recs, NEW err
        PROVE  Queue!Emit(recs, err) <=> Log!Emit(recs, err)
    BY DEF Queue!Emit, Log!Emit, Queue!Kept, Log!Kept, Queue!Overdraws, Log!Overdraws,
           Queue!Room, Log!Room, Queue!Deliver, Log!Deliver, Queue!Accept, Log!Accept,
           Queue!RecsIn, Log!RecsIn, Queue!Refused, Log!Refused, Queue!vars, Log!vars
  <1>3. ASSUME NEW x, NEW err
        PROVE  Queue!PutState(x, err) <=> Log!PutState(x, err)
    BY DEF Queue!PutState, Log!PutState, Queue!Deliver, Log!Deliver, Queue!Accept, Log!Accept,
           Queue!Refused, Log!Refused, Queue!vars, Log!vars, Queue!runVars, Log!runVars
  <1>4. \A n : Queue!Commit(n) <=> Log!Commit(n)
    BY DEF Queue!Commit, Log!Commit, Queue!RecsOf, Log!RecsOf,
           Queue!IsLastState, Log!IsLastState
  <1>5. Queue!Lose <=> Log!Lose
    BY DEF Queue!Lose, Log!Lose
  <1> QED
    BY <1>1, <1>2, <1>3, <1>4, <1>5

LEMMA QueueType ==
  Log!SinkType' => Queue!SinkType'
  BY DEF Queue!SinkType, Log!SinkType, Queue!TypeOK, Log!TypeOK, Queue!Message, Log!Message

LEMMA ConfigKnown ==
  ASSUME CrawlInv
  PROVE  /\ config \in Configs /\ RecordsOf(config) \subseteq Record
         /\ StatesOf(config) \subseteq State /\ NoState \notin State /\ MaxRecords \in Nat
         /\ Whole(config, ids) \subseteq SUBSET RecordsOf(config)
  BY SetsOf DEF CrawlInv, TypeOK, Whole

LEMMA Still ==
  ASSUME CrawlInv, UNCHANGED <<backlog, rows, saved, config, ids>>
  PROVE  Durable' /\ All' = All
  BY DEF CrawlInv, Durable, All, Log!Backlogged

(* What was handed over is whole, and so is what is in the database. *)
LEMMA AllWhole ==
  ASSUME CrawlInv
  PROVE  All \in Whole(config, ids) /\ rows \in Whole(config, ids) /\ rows \subseteq All
  <1>1. backlog \in Seq(Queue!Message) /\ Len(backlog) \in Nat
    BY LenProperties DEF CrawlInv, TypeOK, Queue!SinkType, Queue!TypeOK
  <1>2. \A k \in 0..Len(backlog) : Log!Reach(rows, backlog, k) \in Whole(config, ids)
    BY DEF CrawlInv, Durable, Log!Sound
  <1>3. All \in Whole(config, ids)
    BY <1>1, <1>2 DEF All, Log!Backlogged, Log!Accepted
  <1>4. Log!Reach(rows, backlog, 0) = rows
    BY Log!ReachZero
  <1>5. rows \in Whole(config, ids)
    BY <1>1, <1>2, <1>4
  <1>6. rows \subseteq All
    BY <1>1, Log!AcceptedIsMost DEF All, Log!Backlogged
  <1> QED
    BY <1>3, <1>5, <1>6

LEMMA Emitting ==
  ASSUME CrawlInv, NEW recs \in Seq(RecordsOf(config)), NEW err, Queue!Emit(recs, err),
         UNCHANGED <<config, ids>>,
         writer = "live" => Log!Leaves(Whole(config, ids), recs, err)
  PROVE  /\ Queue!SinkType'
         /\ UNCHANGED <<rows, saved, phase, ctx, writer>>
         /\ Durable'
         /\ All \subseteq All'
         /\ err = "nil" /\ writer = "live" => \A i \in 1..Len(recs) : recs[i] \in All'
  <1>1. Log!SinkType /\ Log!Emit(recs, err) /\ Durable
    BY Sink DEF CrawlInv, TypeOK
  <1>2. recs \in Seq(Record) /\ MaxRecords \in Nat
    BY ConfigKnown
  <1>3. PICK G : G = Whole(config, ids)
    OBVIOUS
  <1>4. PICK C : C = Covered(config, ids)
    OBVIOUS
  <1>5. Log!Sound(G, C, NoState, rows, backlog, saved)
    BY <1>1, <1>3, <1>4 DEF Durable
  <1>6. writer = "live" => Log!Leaves(G, recs, err)
    BY <1>3
  <1>7. /\ Log!SinkType'
        /\ UNCHANGED <<rows, saved, phase, ctx, writer>>
        /\ Log!Sound(G, C, NoState, rows', backlog', saved')
        /\ Log!Backlogged \subseteq Log!Backlogged'
        /\ err = "nil" /\ writer = "live" => \A i \in 1..Len(recs) : recs[i] \in Log!Backlogged'
    BY <1>1, <1>2, <1>5, <1>6, Log!EmitKeeps
  <1>8. Durable'
    BY <1>3, <1>4, <1>7 DEF Durable
  <1> QED
    BY <1>7, <1>8, QueueType DEF All

LEMMA Saving ==
  ASSUME CrawlInv, NEW s \in StatesOf(config), NEW err, Queue!PutState(s, err),
         UNCHANGED <<config, ids>>,
         writer = "live" => Vouches(config, ids, s, All)
  PROVE  /\ Queue!SinkType'
         /\ UNCHANGED <<rows, saved, phase, ctx, writer>>
         /\ Durable'
         /\ All' = All
  <1>1. Log!SinkType /\ Log!PutState(s, err) /\ Durable
    BY Sink DEF CrawlInv, TypeOK
  <1>2. s \in State /\ NoState \notin State
    BY ConfigKnown
  <1>3. PICK G : G = Whole(config, ids)
    OBVIOUS
  <1>4. PICK C : C = Covered(config, ids)
    OBVIOUS
  <1>5. Log!Sound(G, C, NoState, rows, backlog, saved)
    BY <1>1, <1>3, <1>4 DEF Durable
  <1>6. writer = "live" => <<s, All>> \in C
    BY <1>4, AllWhole, ConfigKnown DEF Covered
  <1>7. /\ Log!SinkType'
        /\ UNCHANGED <<rows, saved, phase, ctx, writer>>
        /\ Log!Sound(G, C, NoState, rows', backlog', saved')
        /\ Log!Backlogged' = Log!Backlogged
    BY <1>1, <1>2, <1>5, <1>6, Log!PutStateKeeps DEF All
  <1>8. Durable'
    BY <1>3, <1>4, <1>7 DEF Durable
  <1> QED
    BY <1>7, <1>8, QueueType DEF All

LEMMA Losing ==
  ASSUME CrawlInv, Queue!Lose, UNCHANGED <<config, ids>>
  PROVE  /\ Queue!TypeOK'
         /\ UNCHANGED <<rows, saved>> /\ backlog' = <<>>
         /\ Durable'
  <1>1. Log!SinkType /\ Log!Lose /\ Durable
    BY Sink DEF CrawlInv, TypeOK
  <1>2. PICK G : G = Whole(config, ids)
    OBVIOUS
  <1>3. PICK C : C = Covered(config, ids)
    OBVIOUS
  <1>4. Log!Sound(G, C, NoState, rows, backlog, saved)
    BY <1>1, <1>2, <1>3 DEF Durable
  <1>5. /\ Log!TypeOK'
        /\ UNCHANGED <<rows, saved>> /\ backlog' = <<>>
        /\ Log!Sound(G, C, NoState, rows', backlog', saved')
    BY <1>1, <1>4, Log!LoseKeeps
  <1>6. Durable'
    BY <1>2, <1>3, <1>5 DEF Durable
  <1>7. Queue!TypeOK'
    BY <1>5 DEF Queue!TypeOK, Log!TypeOK, Queue!Message, Log!Message
  <1> QED
    BY <1>5, <1>6, <1>7

(* With nothing in the backlog, what was handed over is in the database.    *)
LEMMA Settled == ASSUME backlog = <<>> PROVE All = rows
  BY Log!AcceptedNone DEF All, Log!Backlogged

-----------------------------------------------------------------------------
(* The steps: what most of them leave alone. *)

Steps == {"off", "resolve", "dataset", "return"} \cup InIndex \cup InPages

LEMMA UpTos ==
  /\ \A c, n, s, l, A, B : UpTo(c, n, s, l, A) /\ A \subseteq B => UpTo(c, n, s, l, B)
  /\ \A c, n, s, A : UpTo(c, n, s, 0, A)
  BY DEF UpTo

(* The next line is handed over, or does not count. *)
LEMMA UpToNext ==
  ASSUME NEW c, NEW n, NEW s, NEW l \in Nat, NEW A, UpTo(c, n, s, l, A),
         ~Due(c, n, s, l + 1) \/ <<n, s, l + 1>> \in A
  PROVE  UpTo(c, n, s, l + 1, A)
  <1> SUFFICES ASSUME NEW k \in 1..c.lastLine, k <= l + 1, Due(c, n, s, k)
               PROVE  <<n, s, k>> \in A
    BY DEF UpTo
  <1>1. k \in Nat /\ (k <= l \/ k = l + 1)
    OBVIOUS
  <1> QED
    BY <1>1 DEF UpTo

LEMMA UpToLess ==
  ASSUME NEW c, NEW n, NEW s, NEW l \in Nat, NEW k \in Nat, NEW A, UpTo(c, n, s, l, A), k <= l
  PROVE  UpTo(c, n, s, k, A)
  BY DEF UpTo

(* A step outside the fetching of pages that leaves the database alone. *)
LEMMA Outside ==
  ASSUME CrawlInv, UNCHANGED <<rows, config, ids, paged>>, step' \notin Fetching,
         TypeOK', Place', Durable', InHand', Scanned'
  PROVE  CrawlInv'
  <1>1. Numbering' /\ OnePerDocument(config', ids', paged', rows')
    BY DEF CrawlInv, Numbering
  <1>2. NoGap' /\ Asked'
    BY DEF NoGap, Asked, Fetching
  <1> QED
    BY <1>1, <1>2 DEF CrawlInv

LEMMA StillInHand ==
  ASSUME CrawlInv, UNCHANGED <<config, ids, st, writer>>, All \subseteq All', step # "off"
  PROVE  InHand'
  <1>1. writer = "live" => Vouches(config, ids, st, All)
    BY DEF CrawlInv, InHand
  <1>2. writer = "live" => Vouches(config, ids, st, All')
    BY <1>1, VouchesGrows
  <1> QED
    BY <1>2 DEF InHand

(* The types of all that is not of the pages. *)
LEMMA IndexTypes ==
  ASSUME CrawlInv, UNCHANGED <<config, ids, pagesVars>>,
         Queue!SinkType', stops' \in 0..config.maxStops, newest' \in Crawls,
         step' \in Steps, left' \in Seq({"index", "pages"}), st' \in StatesOf(config),
         done' \in 0..config.maxShards, skip' \in 0..config.lastLine,
         lines' \in 0..config.lastLine, flushed' \in 0..config.lastLine,
         batch' \in Seq(IndexRows), Len(batch') <= config.batchCap
  PROVE  TypeOK'
  <1>1. /\ Done' = Done /\ Ids' = Ids /\ IndexRows' = IndexRows /\ Crawls' = Crawls
    BY DEF Done, Ids, IndexRows, Crawls
  <1>2. UNCHANGED <<paged, targets, taken, pool, results, failures>>
    BY DEF pagesVars, poolVars
  <1>3. step' \in {"off", "resolve", "dataset", "loop", "open", "scan", "flush", "last", "broken",
                   "checkpoint", "abort", "mark", "save", "query", "fetch", "emit", "advance",
                   "return"}
    BY DEF Steps, InIndex, InShard, Reading, InPages, Fetching
  <1> QED
    BY <1>1, <1>2, <1>3 DEF CrawlInv, TypeOK

LEMMA Lefts ==
  ASSUME CrawlInv
  PROVE  left # <<>> => Tail(left) \in Seq({"index", "pages"})
  BY DEF CrawlInv, TypeOK

LEMMA Numerals ==
  ASSUME CrawlInv
  PROVE  /\ config.lastCrawl \in Nat \ {0} /\ config.shardCount \in Nat /\ config.lastLine \in Nat
         /\ config.listed \in Nat /\ config.checkpoint \in Nat \ {0} /\ config.batchCap \in Nat \ {0}
         /\ config.maxShards \in Nat \ {0} /\ config.pageBatch \in Nat \ {0}
         /\ config.maxStops \in Nat /\ LastId(config) \in Nat
         /\ config.datasets \in Seq({"index", "pages"})
  BY ConfigIs DEF CrawlInv, TypeOK

LEMMA Stops ==
  ASSUME CrawlInv, Trouble
  PROVE  stops' \in 0..config.maxStops
  BY Numerals DEF CrawlInv, TypeOK, Trouble

LEMMA Quiet ==
  ASSUME CrawlInv, UNCHANGED <<sinkVars, config, ids>>
  PROVE  /\ Queue!SinkType' /\ Durable' /\ All' = All
         /\ UNCHANGED <<backlog, rows, saved, phase, ctx, writer, emitted>>
  <1>1. UNCHANGED <<backlog, rows, saved, phase, ctx, writer, emitted>>
    BY DEF sinkVars
  <1>2. Queue!SinkType'
    BY <1>1 DEF CrawlInv, TypeOK, Queue!SinkType, Queue!TypeOK
  <1> QED
    BY <1>1, <1>2, Still

-----------------------------------------------------------------------------
(* The index: the loop over the shards, and the lines of one. *)

LEMMA NextShardStep ==
  ASSUME CrawlInv, NextShard, UNCHANGED <<pagesVars, newest>>
  PROVE  CrawlInv'
  <1>1. /\ step = "loop" /\ step' = "open" /\ done < config.maxShards /\ st.shard < config.shardCount
        /\ UNCHANGED <<sinkVars, config, ids, stops, left, st, done, skip, lines, batch, flushed>>
    BY DEF NextShard, Goto, sharedVars, indexVars, scanVars
  <1>2. /\ Queue!SinkType' /\ Durable' /\ All' = All
        /\ UNCHANGED <<backlog, rows, saved, phase, ctx, writer, emitted>>
    BY <1>1, Quiet
  <1>3. TypeOK'
    BY <1>1, <1>2, IndexTypes DEF CrawlInv, TypeOK, Steps, InIndex, InShard
  <1>4. Place'
    BY <1>1, <1>2 DEF CrawlInv, Place, Crawls, InIndex, InShard, InPages, Fetching, Reading
  <1>5. InHand'
    BY <1>1, <1>2, StillInHand
  <1>6. Scanned'
    BY <1>1 DEF Scanned, Reading
  <1> QED
    BY <1>1, <1>2, <1>3, <1>4, <1>5, <1>6, Outside DEF Fetching, pagesVars

(* A dataset ends. *)
LEMMA DatasetEnds ==
  ASSUME CrawlInv, NEW err, DatasetReturns(err), step \in InIndex,
         UNCHANGED <<config, ids, st, phase, writer, rows, indexVars, pagesVars, newest>>,
         stops' \in 0..config.maxStops, Queue!SinkType', Durable', All \subseteq All',
         phase = "collecting"
  PROVE  CrawlInv'
  <1>1. /\ step' \in {"return", "dataset"} /\ left' = Tail(left) /\ left # <<>>
        /\ st.crawl \in Crawls
        /\ UNCHANGED <<done, skip, lines, batch, flushed>>
    BY DEF DatasetReturns, CrawlInv, Place, indexVars, scanVars
  <1>2. left' \in Seq({"index", "pages"})
    BY <1>1, Lefts
  <1>3. TypeOK'
    BY <1>1, <1>2, IndexTypes DEF CrawlInv, TypeOK, Steps
  <1>4. Place'
    BY <1>1 DEF Place, Crawls, InIndex, InShard, InPages, Fetching, Reading
  <1>5. InHand'
    BY StillInHand DEF InIndex, InShard, Reading
  <1>6. Scanned'
    BY <1>1 DEF Scanned, Reading
  <1> QED
    BY <1>1, <1>3, <1>4, <1>5, <1>6, Outside DEF Fetching, pagesVars

LEMMA Collecting ==
  ASSUME CrawlInv, step # "off"
  PROVE  phase = "collecting"
  BY DEF CrawlInv, Place

LEMMA LoopEndsStep ==
  ASSUME CrawlInv, LoopEnds, UNCHANGED <<pagesVars, newest>>
  PROVE  CrawlInv'
  <1>1. /\ step = "loop" /\ UNCHANGED <<sinkVars, config, ids, stops, st, indexVars>>
        /\ \E err : DatasetReturns(err)
    BY DEF LoopEnds, sharedVars
  <1>2. /\ Queue!SinkType' /\ Durable' /\ All' = All
        /\ UNCHANGED <<backlog, rows, saved, phase, ctx, writer, emitted>>
    BY <1>1, Quiet
  <1>3. stops' \in 0..config.maxStops
    BY <1>1 DEF CrawlInv, TypeOK
  <1> QED
    BY <1>1, <1>2, <1>3, Collecting, DatasetEnds DEF InIndex

LEMMA OpenFailsStep ==
  ASSUME CrawlInv, OpenFails, UNCHANGED <<pagesVars, newest>>
  PROVE  CrawlInv'
  <1>1. /\ step = "open" /\ UNCHANGED <<sinkVars, config, ids, st, indexVars>>
        /\ \E err : DatasetReturns(err)
        /\ UNCHANGED stops \/ Trouble
    BY DEF OpenFails, Fault
  <1>2. /\ Queue!SinkType' /\ Durable' /\ All' = All
        /\ UNCHANGED <<backlog, rows, saved, phase, ctx, writer, emitted>>
    BY <1>1, Quiet
  <1>3. stops' \in 0..config.maxStops
    BY <1>1, Stops DEF CrawlInv, TypeOK
  <1> QED
    BY <1>1, <1>2, <1>3, Collecting, DatasetEnds DEF InIndex, InShard

LEMMA OpenStep ==
  ASSUME CrawlInv, Open, UNCHANGED <<pagesVars, newest>>
  PROVE  CrawlInv'
  <1>1. /\ step = "open" /\ step' = "scan"
        /\ skip' = st.line /\ lines' = 0 /\ batch' = <<>> /\ flushed' = 0
        /\ UNCHANGED <<sinkVars, config, ids, stops, left, st, done>>
    BY DEF Open, Goto, sharedVars
  <1>2. /\ Queue!SinkType' /\ Durable' /\ All' = All
        /\ UNCHANGED <<backlog, rows, saved, phase, ctx, writer, emitted>>
    BY <1>1, Quiet
  <1>3. st.line \in 0..config.lastLine /\ 0 \in 0..config.lastLine
        /\ config.batchCap \in Nat \ {0}
    BY Numerals DEF CrawlInv, TypeOK, StatesOf
  <1>4. <<>> \in Seq(IndexRows) /\ Len(<<>>) = 0
    OBVIOUS
  <1>5. TypeOK'
    BY <1>1, <1>2, <1>3, <1>4, IndexTypes DEF CrawlInv, TypeOK, Steps, InIndex, InShard, Reading
  <1>6. Place'
    BY <1>1, <1>2, <1>3, <1>4
       DEF CrawlInv, Place, Crawls, InIndex, InShard, InPages, Fetching, Reading
  <1>7. InHand'
    BY <1>1, <1>2, StillInHand
  <1>8. Scanned'
    <2>1. writer = "live" => Vouches(config, ids, st, All)
      BY <1>1 DEF CrawlInv, InHand
    <2>2. writer = "live" => UpTo(config, st.crawl, st.shard, st.line, All)
      BY <2>1 DEF Vouches, IndexBehind
    <2> QED
      BY <1>1, <1>2, <2>2, UpTos DEF Scanned
  <1> QED
    BY <1>1, <1>2, <1>5, <1>6, <1>7, <1>8, Outside DEF Fetching, pagesVars

LEMMA PassLineStep ==
  ASSUME CrawlInv, PassLine, UNCHANGED <<pagesVars, newest>>
  PROVE  CrawlInv'
  <1>1. /\ step = "scan" /\ step' = "scan" /\ lines < config.lastLine /\ lines' = lines + 1
        /\ lines + 1 <= skip \/ <<st.shard, lines + 1>> \in config.malformed
        /\ UNCHANGED <<sinkVars, config, ids, stops, left, st, done, skip, batch, flushed>>
    BY DEF PassLine, sharedVars, NextLine
  <1>2. /\ Queue!SinkType' /\ Durable' /\ All' = All
        /\ UNCHANGED <<backlog, rows, saved, phase, ctx, writer, emitted>>
    BY <1>1, Quiet
  <1>3. lines \in Nat /\ skip \in Nat /\ lines' \in 0..config.lastLine
    BY <1>1, Numerals DEF CrawlInv, TypeOK
  <1>5. TypeOK'
    BY <1>1, <1>2, <1>3, IndexTypes DEF CrawlInv, TypeOK, Steps, InIndex, InShard, Reading
  <1>6. Place'
    BY <1>1, <1>2
       DEF CrawlInv, Place, Crawls, InIndex, InShard, InPages, Fetching, Reading
  <1>7. InHand'
    BY <1>1, <1>2, StillInHand
  <1>8. Scanned'
    <2> SUFFICES ASSUME writer = "live"
                 PROVE  Scanned'
      BY <1>2 DEF Scanned
    <2>1. /\ UpTo(config, st.crawl, st.shard, lines, All \cup Batch)
          /\ UpTo(config, st.crawl, st.shard, flushed, All)
          /\ UpTo(config, st.crawl, st.shard, skip, All)
      BY <1>1 DEF CrawlInv, Scanned, Reading
    <2>2. UpTo(config, st.crawl, st.shard, lines + 1, All \cup Batch)
      <3>1. CASE lines + 1 <= skip
        <4>1. lines + 1 \in Nat
          BY <1>3
        <4>2. UpTo(config, st.crawl, st.shard, lines + 1, All)
          BY <1>3, <2>1, <3>1, <4>1, UpToLess
        <4> QED
          BY <4>2, UpTos
      <3>2. CASE <<st.shard, lines + 1>> \in config.malformed
        BY <1>3, <2>1, <3>2, UpToNext DEF Due
      <3> QED
        BY <1>1, <3>1, <3>2
    <2>3. Batch' = Batch
      BY <1>1 DEF Batch
    <2> QED
      BY <1>1, <1>2, <2>1, <2>2, <2>3 DEF Scanned
  <1> QED
    BY <1>1, <1>2, <1>5, <1>6, <1>7, <1>8, Outside DEF Fetching, pagesVars

(* A line that is cut is counted, and nothing is handed over for it. *)
LEMMA CutLineStep ==
  ASSUME CrawlInv, CutLine, UNCHANGED <<pagesVars, newest>>
  PROVE  CrawlInv'
  <1>1. /\ step = "scan" /\ step' = "broken" /\ lines < config.lastLine /\ lines' = lines + 1
        /\ <<st.crawl, st.shard, lines + 1>> \in config.cut
        /\ Trouble
        /\ UNCHANGED <<sinkVars, config, ids, left, st, done, skip, batch, flushed>>
    BY DEF CutLine, Goto, Fault
  <1>2. /\ Queue!SinkType' /\ Durable' /\ All' = All
        /\ UNCHANGED <<backlog, rows, saved, phase, ctx, writer, emitted>>
    BY <1>1, Quiet
  <1>a. lines \in 0..config.lastLine
    BY DEF CrawlInv, TypeOK
  <1>b. lines \in Nat /\ lines' \in 0..config.lastLine
    BY <1>1, <1>a, Numerals
  <1>3. lines \in Nat /\ lines' \in 0..config.lastLine /\ stops' \in 0..config.maxStops
    BY <1>1, <1>b, Stops
  <1>4. TypeOK'
    BY <1>1, <1>2, <1>3, IndexTypes DEF CrawlInv, TypeOK, Steps, InIndex, InShard, Reading
  <1>5. Place'
    BY <1>1, <1>2
       DEF CrawlInv, Place, Crawls, InIndex, InShard, InPages, Fetching, Reading
  <1>6. InHand'
    BY <1>1, <1>2, StillInHand
  <1>7. Scanned'
    <2> SUFFICES ASSUME writer = "live"
                 PROVE  Scanned'
      BY <1>2 DEF Scanned
    <2>1. /\ UpTo(config, st.crawl, st.shard, lines, All \cup Batch)
          /\ UpTo(config, st.crawl, st.shard, flushed, All)
          /\ UpTo(config, st.crawl, st.shard, skip, All)
      BY <1>1 DEF CrawlInv, Scanned, Reading
    <2>2. ~Due(config, st.crawl, st.shard, lines + 1)
      BY <1>1 DEF Due
    <2>3. UpTo(config, st.crawl, st.shard, lines + 1, All \cup Batch)
      BY <1>3, <2>1, <2>2, UpToNext
    <2>4. Batch' = Batch
      BY <1>1 DEF Batch
    <2> QED
      BY <1>1, <1>2, <2>1, <2>3, <2>4 DEF Scanned
  <1> QED
    BY <1>1, <1>2, <1>4, <1>5, <1>6, <1>7, Outside DEF Fetching, pagesVars

LEMMA ReadLineStep ==
  ASSUME CrawlInv, ReadLine, UNCHANGED <<pagesVars, newest>>
  PROVE  CrawlInv'
  <1> DEFINE r == <<st.crawl, st.shard, lines + 1>>
  <1>1. /\ step = "scan" /\ lines < config.lastLine /\ lines' = lines + 1
        /\ batch' = Append(batch, r)
        /\ step' \in {"flush", "scan"} /\ (step' = "scan" => Len(batch') # config.batchCap)
        /\ UNCHANGED <<sinkVars, config, ids, stops, left, st, done, skip, flushed>>
    BY DEF ReadLine, Goto, sharedVars
  <1>2. /\ Queue!SinkType' /\ Durable' /\ All' = All
        /\ UNCHANGED <<backlog, rows, saved, phase, ctx, writer, emitted>>
    BY <1>1, Quiet
  <1>3. lines \in Nat /\ lines' \in 0..config.lastLine /\ lines + 1 \in 1..config.lastLine
    BY <1>1, Numerals DEF CrawlInv, TypeOK
  <1>4. r \in IndexRows
    <2>1. st.crawl \in 1..config.lastCrawl /\ st.shard < config.shardCount
          /\ st.shard \in 0..config.shardCount
      BY <1>1 DEF CrawlInv, TypeOK, StatesOf, Place, InIndex, InShard, Reading, Crawls
    <2>2. st.shard \in 0..(config.shardCount - 1)
      BY <2>1, Numerals
    <2> QED
      BY <1>3, <2>1, <2>2 DEF IndexRows, RowsOf
  <1> HIDE DEF r
  <1>5. batch \in Seq(IndexRows) /\ Len(batch) \in Nat /\ Len(batch) < config.batchCap
    BY <1>1, LenProperties DEF CrawlInv, TypeOK, Place
  <1>6. /\ batch' \in Seq(IndexRows) /\ Len(batch') = Len(batch) + 1
        /\ \A i \in 1..Len(batch) : batch'[i] = batch[i]
        /\ batch'[Len(batch) + 1] = r
    BY <1>1, <1>4, <1>5, AppendProperties
  <1>7. Len(batch') <= config.batchCap /\ (step' = "scan" => Len(batch') < config.batchCap)
    BY <1>1, <1>5, <1>6, Numerals
  <1>8. TypeOK'
    BY <1>1, <1>2, <1>3, <1>6, <1>7, IndexTypes
       DEF CrawlInv, TypeOK, Steps, InIndex, InShard, Reading
  <1>9. Place'
    BY <1>1, <1>2, <1>7
       DEF CrawlInv, Place, Crawls, InIndex, InShard, InPages, Fetching, Reading
  <1>10. InHand'
    BY <1>1, <1>2, StillInHand
  <1>11. Scanned'
    <2> SUFFICES ASSUME writer = "live"
                 PROVE  Scanned'
      BY <1>2 DEF Scanned
    <2>1. /\ UpTo(config, st.crawl, st.shard, lines, All \cup Batch)
          /\ UpTo(config, st.crawl, st.shard, flushed, All)
          /\ UpTo(config, st.crawl, st.shard, skip, All)
      BY <1>1 DEF CrawlInv, Scanned, Reading
    <2>2. Batch \subseteq Batch' /\ r \in Batch'
      <3>1. \A i \in 1..Len(batch) : i \in 1..Len(batch')
        BY <1>5, <1>6
      <3>2. Len(batch) + 1 \in 1..Len(batch')
        BY <1>5, <1>6
      <3> QED
        BY <1>6, <3>1, <3>2 DEF Batch
    <2>3. UpTo(config, st.crawl, st.shard, lines, All \cup Batch')
      BY <2>1, <2>2, UpTos
    <2>4. UpTo(config, st.crawl, st.shard, lines + 1, All \cup Batch')
      BY <1>3, <2>2, <2>3, UpToNext DEF r
    <2> QED
      BY <1>1, <1>2, <2>1, <2>4 DEF Scanned
  <1> QED
    BY <1>1, <1>2, <1>8, <1>9, <1>10, <1>11, Outside DEF Fetching, pagesVars

(* The ends of the scan. *)
LEMMA ScanEnds ==
  ASSUME CrawlInv, ReadCancelled \/ ReadFails \/ EndOfShard, UNCHANGED <<pagesVars, newest>>
  PROVE  CrawlInv'
  <1>1. /\ step = "scan" /\ step' \in {"abort", "broken", "last"}
        /\ step' \in {"broken", "last"} => lines' = lines
        /\ step' = "last" => lines = config.lastLine
        /\ lines' = lines \/ (lines' = lines + 1 /\ lines < config.lastLine)
        /\ UNCHANGED <<sinkVars, config, ids, left, st, done, skip, batch, flushed>>
        /\ UNCHANGED stops \/ Trouble
    BY DEF ReadCancelled, ReadFails, EndOfShard, Goto, sharedVars, indexVars, scanVars, Fault
  <1>2. /\ Queue!SinkType' /\ Durable' /\ All' = All
        /\ UNCHANGED <<backlog, rows, saved, phase, ctx, writer, emitted>>
    BY <1>1, Quiet
  <1>a. lines \in 0..config.lastLine /\ stops \in 0..config.maxStops
    BY DEF CrawlInv, TypeOK
  <1>b. lines' \in 0..config.lastLine
    BY <1>1, <1>a, Numerals
  <1>c. stops' \in 0..config.maxStops
    BY <1>1, <1>a, Stops
  <1>3. lines' \in 0..config.lastLine /\ stops' \in 0..config.maxStops
    BY <1>b, <1>c
  <1>5. TypeOK'
    BY <1>1, <1>2, <1>3, IndexTypes DEF CrawlInv, TypeOK, Steps, InIndex, InShard, Reading
  <1>6. Place'
    BY <1>1, <1>2
       DEF CrawlInv, Place, Crawls, InIndex, InShard, InPages, Fetching, Reading
  <1>7. InHand'
    BY <1>1, <1>2, StillInHand
  <1>8. Scanned'
    <2>1. Batch' = Batch
      BY <1>1 DEF Batch
    <2> QED
      BY <1>1, <1>2, <2>1 DEF CrawlInv, Scanned, Reading
  <1> QED
    BY <1>1, <1>2, <1>5, <1>6, <1>7, <1>8, Outside DEF Fetching, pagesVars

-----------------------------------------------------------------------------
(* The index: what is handed over and saved. *)

(* Records other than shard rows and pages may always be added. *)
LEMMA PlainRecords ==
  ASSUME NEW c, NEW d, NEW A \in Whole(c, d), NEW S \in SUBSET RecordsOf(c),
         \A n \in 1..c.lastCrawl, s \in 0..(c.shardCount - 1) : ShardRow(n, s) \notin S,
         \A i \in 1..LastId(c) : Page(i) \notin S
  PROVE  A \cup S \in Whole(c, d)
  <1>1. A \cup S \in SUBSET RecordsOf(c)
    BY DEF Whole
  <1>2. ASSUME NEW n \in 1..c.lastCrawl, NEW s \in 0..(c.shardCount - 1), ShardRow(n, s) \in A \cup S
        PROVE  UpTo(c, n, s, c.lastLine, A \cup S)
    <2>1. UpTo(c, n, s, c.lastLine, A)
      BY <1>2 DEF Whole
    <2> QED
      BY <2>1, UpTos
  <1>3. \A i \in 1..LastId(c) : Page(i) \in A \cup S => i \in Numbers(d)
    BY DEF Whole
  <1> QED
    BY <1>1, <1>2, <1>3 DEF Whole

LEMMA RowsArePlain ==
  ASSUME CrawlInv
  PROVE  \A err : Log!Leaves(Whole(config, ids), batch, err)
  <1> SUFFICES ASSUME NEW n \in 0..Len(batch)
               PROVE  All \cup {batch[i] : i \in 1..n} \in Whole(config, ids)
    BY DEF Log!Leaves, All
  <1>1. batch \in Seq(RowsOf(config)) /\ Len(batch) \in Nat
    BY LenProperties DEF CrawlInv, TypeOK, IndexRows
  <1>2. config \in Configs
    BY ConfigKnown
  <1>3. PICK S : S = {batch[i] : i \in 1..n}
    OBVIOUS
  <1>4. S \subseteq RowsOf(config)
    <2>1. \A i \in 1..n : i \in 1..Len(batch)
      BY <1>1
    <2>2. \A i \in 1..Len(batch) : batch[i] \in RowsOf(config)
      BY <1>1, ElementOfSeq
    <2> QED
      BY <1>3, <2>1, <2>2
  <1>5. S \in SUBSET RecordsOf(config)
    BY <1>2, <1>4, SetsOf
  <1>6. \A x \in RowsOf(config) : \A m, s : x # ShardRow(m, s)
    BY DEF RowsOf, ShardRow
  <1>7. \A x \in RowsOf(config) : \A i : x # Page(i)
    <2> SUFFICES ASSUME NEW x \in RowsOf(config), NEW i
                 PROVE  x # Page(i)
      OBVIOUS
    <2>1. x = <<x[1], x[2], x[3]>>
      BY DEF RowsOf
    <2> QED
      BY <2>1, Kinds
  <1>8. All \in Whole(config, ids)
    BY AllWhole
  <1>9. All \cup S \in Whole(config, ids)
    BY <1>4, <1>5, <1>6, <1>7, <1>8, PlainRecords
  <1> QED
    BY <1>3, <1>9
LEMMA FlushStep ==
  ASSUME CrawlInv, Flush, UNCHANGED <<pagesVars, newest>>
  PROVE  CrawlInv'
  <1>1. PICK err \in Queue!Errors :
           /\ Queue!Emit(batch, err)
           /\ flushed' = Flushed(err)
           /\ Goto(AfterFlush(err))
    BY DEF Flush
  <1>2. /\ step \in {"flush", "last", "broken"} /\ batch' = <<>>
        /\ UNCHANGED <<config, ids, stops, left, st, done, skip, lines>>
    BY <1>1 DEF Flush, Goto, sharedVars
  <1>3. /\ step' \in {"abort", "mark", "checkpoint", "scan"}
        /\ step' = "mark" => step = "last"
        /\ step' \in {"mark", "checkpoint", "scan"} => err = "nil"
        /\ flushed' = lines \/ flushed' = flushed
        /\ flushed' = lines /\ err # "nil" => lines = flushed
        /\ err = "nil" => flushed' = lines
    BY <1>1, <1>2 DEF Flushed, AfterFlush, Goto
  <1>4. \A e : Log!Leaves(Whole(config, ids), batch, e)
    BY RowsArePlain
  <1>5. batch \in Seq(RecordsOf(config)) /\ Len(batch) \in Nat
    <2>1. batch \in Seq(RowsOf(config)) /\ Len(batch) \in Nat
      BY LenProperties DEF CrawlInv, TypeOK, IndexRows
    <2>2. RowsOf(config) \subseteq RecordsOf(config)
      BY DEF RecordsOf
    <2> QED
      BY <2>1, <2>2
  <1>6. /\ Queue!SinkType' /\ UNCHANGED <<rows, saved, phase, ctx, writer>>
        /\ Durable' /\ All \subseteq All'
        /\ err = "nil" /\ writer = "live" => \A i \in 1..Len(batch) : batch[i] \in All'
    BY <1>1, <1>2, <1>4, <1>5, Emitting
  <1>7. <<>> \in Seq(IndexRows) /\ Len(<<>>) = 0 /\ flushed' \in 0..config.lastLine
        /\ config.batchCap \in Nat \ {0}
    BY <1>3, Numerals DEF CrawlInv, TypeOK
  <1>8. TypeOK'
    BY <1>2, <1>3, <1>6, <1>7, IndexTypes DEF CrawlInv, TypeOK, Steps, InIndex, InShard, Reading
  <1>9. Place'
    BY <1>2, <1>3, <1>6, <1>7
       DEF CrawlInv, Place, Crawls, InIndex, InShard, InPages, Fetching, Reading
  <1>10. InHand'
    BY <1>2, <1>6, StillInHand
  <1>11. Scanned'
    <2> SUFFICES ASSUME writer = "live"
                 PROVE  Scanned'
      BY <1>6 DEF Scanned
    <2>1. /\ UpTo(config, st.crawl, st.shard, lines, All \cup Batch)
          /\ UpTo(config, st.crawl, st.shard, flushed, All)
          /\ UpTo(config, st.crawl, st.shard, skip, All)
      BY <1>2 DEF CrawlInv, Scanned, Reading
    <2>2. /\ UpTo(config, st.crawl, st.shard, flushed, All')
          /\ UpTo(config, st.crawl, st.shard, skip, All')
      BY <1>6, <2>1, UpTos
    <2>3. err = "nil" => All \cup Batch \subseteq All'
      BY <1>6 DEF Batch
    <2>4. err = "nil" => UpTo(config, st.crawl, st.shard, lines, All')
      BY <2>1, <2>3, UpTos
    <2>5. err = "nil" => UpTo(config, st.crawl, st.shard, lines, All' \cup Batch')
      BY <2>4, UpTos
    <2>6. UpTo(config, st.crawl, st.shard, flushed', All')
      BY <1>3, <2>2, <2>4
    <2>7. step' \in Reading => err = "nil"
      BY <1>3 DEF Reading
    <2> QED
      BY <1>2, <2>2, <2>5, <2>6, <2>7 DEF Scanned
  <1>12. step' \notin Fetching
    BY <1>3 DEF Fetching
  <1> QED
    BY <1>2, <1>6, <1>8, <1>9, <1>10, <1>11, <1>12, Outside DEF pagesVars

(* The state in memory moves within its shard, or to the next one. *)
LEMMA Moved ==
  ASSUME CrawlInv, step \in InIndex, writer = "live", NEW x \in StatesOf(config), NEW R,
         All \subseteq R, x.crawl = st.crawl, x.page = st.page,
         \/ x.shard = st.shard /\ UpTo(config, st.crawl, st.shard, x.line, R)
         \/ x.shard = st.shard + 1 /\ x.line = 0
            /\ UpTo(config, st.crawl, st.shard, config.lastLine, R)
  PROVE  Vouches(config, ids, x, R)
  <1>1. Vouches(config, ids, st, R)
    <2>1. Vouches(config, ids, st, All)
      BY DEF CrawlInv, InHand, InIndex, InShard, Reading
    <2> QED
      BY <2>1, VouchesGrows
  <1>2. PagesBehind(config, ids, x, R)
    BY <1>1 DEF Vouches, PagesBehind
  <1>3. CASE x.shard = st.shard /\ UpTo(config, st.crawl, st.shard, x.line, R)
    BY <1>1, <1>2, <1>3 DEF Vouches, IndexBehind
  <1>4. CASE /\ x.shard = st.shard + 1 /\ x.line = 0
             /\ UpTo(config, st.crawl, st.shard, config.lastLine, R)
    <2>1. st.shard \in Nat
      BY Numerals DEF CrawlInv, TypeOK, StatesOf
    <2>2. \A s \in 0..(config.shardCount - 1) :
             s < st.shard => UpTo(config, st.crawl, s, config.lastLine, R)
      BY <1>1 DEF Vouches, IndexBehind
    <2>3. ASSUME NEW s \in 0..(config.shardCount - 1), s < x.shard
          PROVE  UpTo(config, x.crawl, s, config.lastLine, R)
      <3>1. s < st.shard \/ s = st.shard
        BY <1>4, <2>1, <2>3, Numerals
      <3> QED
        BY <1>4, <2>2, <3>1
    <2>4. UpTo(config, x.crawl, x.shard, x.line, R)
      BY <1>4, UpTos
    <2> QED
      BY <1>2, <2>3, <2>4 DEF Vouches, IndexBehind
  <1> QED
    BY <1>3, <1>4
(* A dataset ends after the state in memory has moved. *)
LEMMA DatasetLeaves ==
  ASSUME CrawlInv, NEW err, DatasetReturns(err), step \in InIndex \cup InPages,
         UNCHANGED <<config, ids, phase, writer, rows, scanVars, pagesVars, newest>>,
         stops' \in 0..config.maxStops, done' \in 0..config.maxShards, st' \in StatesOf(config), st'.crawl \in Crawls,
         Queue!SinkType', Durable', InHand'
  PROVE  CrawlInv'
  <1>1. /\ step' \in {"return", "dataset"} /\ left' = Tail(left) /\ left # <<>>
        /\ phase = "collecting"
        /\ UNCHANGED <<skip, lines, batch, flushed>>
    BY Collecting
       DEF DatasetReturns, CrawlInv, Place, scanVars, InIndex, InShard, Reading, InPages, Fetching
  <1>2. left' \in Seq({"index", "pages"})
    BY <1>1, Lefts
  <1>3. TypeOK'
    BY <1>1, <1>2, IndexTypes DEF CrawlInv, TypeOK, Steps
  <1>4. Place'
    BY <1>1 DEF Place, Crawls, InIndex, InShard, InPages, Fetching, Reading
  <1>5. Scanned'
    BY <1>1 DEF Scanned, Reading
  <1> QED
    BY <1>1, <1>3, <1>4, <1>5, Outside DEF Fetching, pagesVars

(* Another line of the shard in the state in memory. *)
LEMMA AnotherLine ==
  ASSUME CrawlInv, step \in {"checkpoint", "abort"},
         NEW x, x = [st EXCEPT !.line = flushed]
  PROVE  /\ x \in StatesOf(config) /\ x.crawl \in Crawls
         /\ x.crawl = st.crawl /\ x.shard = st.shard
         /\ writer = "live" => Vouches(config, ids, x, All)
  <1>1. st \in StatesOf(config) /\ flushed \in 0..config.lastLine /\ st.crawl \in Crawls
    BY DEF CrawlInv, TypeOK, Place, InIndex, InShard, Reading
  <1>2. /\ x \in StatesOf(config) /\ x.crawl = st.crawl /\ x.shard = st.shard
        /\ x.line = flushed /\ x.page = st.page
    BY <1>1 DEF StatesOf
  <1>3. writer = "live" => UpTo(config, st.crawl, st.shard, flushed, All)
    BY DEF CrawlInv, Scanned, Reading
  <1>4. step \in InIndex
    BY DEF InIndex, InShard, Reading
  <1>5. writer = "live" => Vouches(config, ids, x, All)
    BY <1>2, <1>3, <1>4, Moved
  <1> QED
    BY <1>1, <1>2, <1>5

LEMMA SaveCheckpointStep ==
  ASSUME CrawlInv, SaveCheckpoint, UNCHANGED <<pagesVars, newest>>
  PROVE  CrawlInv'
  <1>1. PICK x : x = [st EXCEPT !.line = flushed]
    OBVIOUS
  <1>2. PICK err \in Queue!Errors :
           /\ Queue!PutState(x, err)
           /\ IF err = "nil" THEN Goto("scan") ELSE DatasetReturns(err)
    BY <1>1 DEF SaveCheckpoint
  <1>3. /\ step = "checkpoint" /\ st' = x
        /\ UNCHANGED <<config, ids, stops, indexVars>>
        /\ UNCHANGED <<done, skip, lines, batch, flushed>>
    BY <1>1 DEF SaveCheckpoint, sharedVars, indexVars, scanVars
  <1>4. /\ x \in StatesOf(config) /\ x.crawl \in Crawls
        /\ x.crawl = st.crawl /\ x.shard = st.shard
        /\ writer = "live" => Vouches(config, ids, x, All)
    BY <1>1, <1>3, AnotherLine
  <1>5. /\ Queue!SinkType' /\ UNCHANGED <<rows, saved, phase, ctx, writer>>
        /\ Durable' /\ All' = All
    BY <1>2, <1>3, <1>4, Saving
  <1>6. InHand'
    BY <1>3, <1>4, <1>5 DEF InHand
  <1>7. CASE err # "nil"
    BY <1>2, <1>3, <1>4, <1>5, <1>6, <1>7, DatasetLeaves
       DEF InIndex, InShard, Reading, indexVars, CrawlInv, TypeOK
  <1>8. CASE err = "nil"
    <2>1. step' = "scan" /\ left' = left
      BY <1>2, <1>8 DEF Goto
    <2>2. TypeOK'
      BY <1>3, <1>4, <1>5, <2>1, IndexTypes
         DEF CrawlInv, TypeOK, Steps, InIndex, InShard, Reading
    <2>3. Len(batch) < config.batchCap
      BY <1>3, Numerals DEF CrawlInv, Place
    <2>4. Place'
      BY <1>3, <1>4, <1>5, <2>1, <2>3
         DEF CrawlInv, Place, Crawls, InIndex, InShard, InPages, Fetching, Reading
    <2>5. Batch' = Batch
      BY <1>3 DEF Batch
    <2>6. Scanned'
      BY <1>3, <1>4, <1>5, <2>1, <2>5 DEF CrawlInv, Scanned, Reading
    <2> QED
      BY <1>3, <1>5, <1>6, <2>1, <2>2, <2>4, <2>6, Outside DEF Fetching, pagesVars
  <1> QED
    BY <1>7, <1>8

LEMMA AbortStep ==
  ASSUME CrawlInv, Abort, UNCHANGED <<pagesVars, newest>>
  PROVE  CrawlInv'
  <1>1. PICK x : x = [st EXCEPT !.line = flushed]
    OBVIOUS
  <1>2. PICK err \in Queue!Errors : Queue!PutState(x, err)
    BY <1>1 DEF Abort, Rewind
  <1>3. /\ step = "abort" /\ st' = x /\ DatasetReturns(cause)
        /\ UNCHANGED <<config, ids, stops, done, scanVars>>
    BY <1>1 DEF Abort, Rewind, sharedVars, indexVars
  <1>4. /\ x \in StatesOf(config) /\ x.crawl \in Crawls
        /\ x.crawl = st.crawl /\ x.shard = st.shard
        /\ writer = "live" => Vouches(config, ids, x, All)
    BY <1>1, <1>3, AnotherLine
  <1>5. /\ Queue!SinkType' /\ UNCHANGED <<rows, saved, phase, ctx, writer>>
        /\ Durable' /\ All' = All
    BY <1>2, <1>3, <1>4, Saving
  <1>6. InHand'
    BY <1>3, <1>4, <1>5 DEF InHand
  <1> QED
    BY <1>3, <1>4, <1>5, <1>6, DatasetLeaves DEF InIndex, InShard, CrawlInv, TypeOK

LEMMA SaveShardStep ==
  ASSUME CrawlInv, SaveShard, UNCHANGED <<pagesVars, newest>>
  PROVE  CrawlInv'
  <1>1. PICK err \in Queue!Errors :
           /\ Queue!PutState(st, err)
           /\ IF err = "nil" THEN Goto("loop") ELSE DatasetReturns(err)
    BY DEF SaveShard
  <1>2. /\ step = "save" /\ done' = done + 1
        /\ UNCHANGED <<config, ids, stops, st, scanVars>>
        /\ UNCHANGED <<skip, lines, batch, flushed>>
    BY DEF SaveShard, sharedVars, scanVars
  <1>3. /\ st \in StatesOf(config) /\ st.crawl \in Crawls
        /\ writer = "live" => Vouches(config, ids, st, All)
    BY <1>2 DEF CrawlInv, TypeOK, Place, InHand, InIndex
  <1>4. done' \in 0..config.maxShards
    BY <1>2, Numerals DEF CrawlInv, TypeOK, Place
  <1>5. /\ Queue!SinkType' /\ UNCHANGED <<rows, saved, phase, ctx, writer>>
        /\ Durable' /\ All' = All
    BY <1>1, <1>2, <1>3, Saving
  <1>6. InHand'
    BY <1>2, <1>5, StillInHand
  <1>7. CASE err # "nil"
    BY <1>1, <1>2, <1>3, <1>4, <1>5, <1>6, <1>7, DatasetLeaves DEF InIndex, Crawls, CrawlInv, TypeOK
  <1>8. CASE err = "nil"
    <2>1. step' = "loop" /\ left' = left
      BY <1>1, <1>8 DEF Goto
    <2>2. TypeOK'
      BY <1>2, <1>3, <1>4, <1>5, <2>1, IndexTypes DEF CrawlInv, TypeOK, Steps, InIndex
    <2>3. Place'
      BY <1>2, <1>3, <1>5, <2>1
         DEF CrawlInv, Place, Crawls, InIndex, InShard, InPages, Fetching, Reading
    <2>4. Scanned'
      BY <2>1 DEF Scanned, Reading
    <2> QED
      BY <1>2, <1>5, <1>6, <2>1, <2>2, <2>3, <2>4, Outside DEF Fetching, pagesVars
  <1> QED
    BY <1>7, <1>8
(* The row of a shard may be added once its lines are handed over. *)
LEMMA ShardIsWhole ==
  ASSUME CrawlInv, step = "mark", writer = "live",
         NEW r, r = ShardRow(st.crawl, st.shard)
  PROVE  /\ r \in RecordsOf(config) /\ All \cup {r} \in Whole(config, ids)
         /\ UpTo(config, st.crawl, st.shard, config.lastLine, All)
  <1>1. /\ st.crawl \in 1..config.lastCrawl /\ st.shard \in 0..(config.shardCount - 1)
        /\ lines = config.lastLine /\ batch = <<>>
    <2>1. /\ st.crawl \in 1..config.lastCrawl /\ st.shard < config.shardCount
          /\ lines = config.lastLine /\ batch = <<>>
      BY DEF CrawlInv, Place, Crawls, InIndex, InShard, Reading
    <2>2. st.shard \in Nat
      BY Numerals DEF CrawlInv, TypeOK, StatesOf
    <2> QED
      BY <2>1, <2>2, Numerals
  <1>2. r \in RecordsOf(config)
    BY <1>1 DEF RecordsOf
  <1>3. UpTo(config, st.crawl, st.shard, config.lastLine, All)
    <2>1. UpTo(config, st.crawl, st.shard, lines, All \cup Batch)
      BY DEF CrawlInv, Scanned, Reading
    <2>2. Batch = {}
      BY <1>1 DEF Batch
    <2> QED
      BY <1>1, <2>1, <2>2
  <1>4. All \in Whole(config, ids)
    BY AllWhole
  <1>5. ASSUME NEW n \in 1..config.lastCrawl, NEW s \in 0..(config.shardCount - 1),
               ShardRow(n, s) \in All \cup {r}
        PROVE  UpTo(config, n, s, config.lastLine, All \cup {r})
    <2>1. CASE ShardRow(n, s) \in All
      <3>1. UpTo(config, n, s, config.lastLine, All)
        BY <1>4, <2>1 DEF Whole
      <3> QED
        BY <3>1, UpTos
    <2>2. CASE ShardRow(n, s) = r
      <3>1. n = st.crawl /\ s = st.shard
        BY <2>2 DEF ShardRow
      <3> QED
        BY <1>3, <3>1, UpTos
    <2> QED
      BY <1>5, <2>1, <2>2
  <1>6. \A i : Page(i) # r
    BY Kinds DEF ShardRow
  <1>7. All \cup {r} \in Whole(config, ids)
    BY <1>2, <1>4, <1>5, <1>6 DEF Whole
  <1> QED
    BY <1>2, <1>3, <1>7

LEMMA MarkStep ==
  ASSUME CrawlInv, Mark, UNCHANGED <<pagesVars, newest>>
  PROVE  CrawlInv'
  <1>1. PICK r : r = ShardRow(st.crawl, st.shard)
    OBVIOUS
  <1>2. PICK err \in Queue!Errors :
           /\ Queue!Emit(<<r>>, err)
           /\ IF err = "nil" THEN st' = Marked /\ Goto("save")
                             ELSE UNCHANGED st /\ DatasetReturns(err)
    BY <1>1 DEF Mark
  <1>3. /\ step = "mark" /\ UNCHANGED <<config, ids, stops, indexVars>>
        /\ UNCHANGED <<done, skip, lines, batch, flushed>>
    BY DEF Mark, sharedVars, indexVars, scanVars
  <1>4. /\ writer = "live" => All \cup {r} \in Whole(config, ids)
        /\ writer = "live" => UpTo(config, st.crawl, st.shard, config.lastLine, All)
    BY <1>1, <1>3, ShardIsWhole
  <1>5. r \in RecordsOf(config)
    <2>1. /\ st.crawl \in 1..config.lastCrawl /\ st.shard < config.shardCount
      BY <1>3 DEF CrawlInv, Place, Crawls, InIndex, InShard, Reading
    <2>2. st.shard \in Nat
      BY Numerals DEF CrawlInv, TypeOK, StatesOf
    <2>3. st.shard \in 0..(config.shardCount - 1)
      BY <2>1, <2>2, Numerals
    <2> QED
      BY <1>1, <2>1, <2>3 DEF RecordsOf
  <1>6. <<r>> \in Seq(RecordsOf(config)) /\ Len(<<r>>) = 1 /\ <<r>>[1] = r
    BY <1>5
  <1>7. writer = "live" => Log!Leaves(Whole(config, ids), <<r>>, err)
    <2> SUFFICES ASSUME writer = "live", NEW n \in 0..Len(<<r>>)
                 PROVE  All \cup {<<r>>[i] : i \in 1..n} \in Whole(config, ids)
      BY DEF Log!Leaves, All
    <2>1. n = 0 \/ n = 1
      BY <1>6
    <2>2. CASE n = 0
      <3>1. {<<r>>[i] : i \in 1..n} = {}
        BY <2>2
      <3> QED
        BY <3>1, AllWhole
    <2>3. CASE n = 1
      <3>1. {<<r>>[i] : i \in 1..n} = {r}
        BY <1>6, <2>3
      <3> QED
        BY <1>4, <3>1
    <2> QED
      BY <2>1, <2>2, <2>3
  <1>8. /\ Queue!SinkType' /\ UNCHANGED <<rows, saved, phase, ctx, writer>>
        /\ Durable' /\ All \subseteq All'
    BY <1>2, <1>3, <1>6, <1>7, Emitting
  <1>9. CASE err # "nil"
    <2>1. UNCHANGED st /\ DatasetReturns(err)
      BY <1>2, <1>9
    <2> QED
      BY <1>3, <1>8, <2>1, Collecting, DatasetEnds
         DEF InIndex, InShard, Reading, CrawlInv, TypeOK
  <1>10. CASE err = "nil"
    <2>1. st' = Marked /\ step' = "save" /\ left' = left
      BY <1>2, <1>10 DEF Goto
    <2>2. PICK x : x = Marked
      OBVIOUS
    <2>3. st \in StatesOf(config) /\ st.crawl \in Crawls /\ st.shard < config.shardCount
      BY <1>3 DEF CrawlInv, TypeOK, Place, InIndex, InShard, Reading
    <2>4. /\ x \in StatesOf(config) /\ x.crawl = st.crawl /\ x.shard = st.shard + 1
          /\ x.line = 0 /\ x.page = st.page
      <3>1. st.shard + 1 \in 0..config.shardCount /\ 0 \in 0..config.lastLine
        BY <2>3, Numerals DEF StatesOf
      <3> QED
        BY <2>2, <2>3, <3>1 DEF Marked, StatesOf
    <2>5. writer = "live" => Vouches(config, ids, x, All)
      BY <1>3, <1>4, <2>4, Moved DEF InIndex, InShard, Reading
    <2>6. InHand'
      <3>1. writer = "live" => Vouches(config, ids, x, All')
        BY <1>8, <2>5, VouchesGrows
      <3> QED
        BY <1>3, <1>8, <2>1, <2>2, <3>1 DEF InHand
    <2>7. TypeOK'
      BY <1>3, <1>8, <2>1, <2>2, <2>4, IndexTypes DEF CrawlInv, TypeOK, Steps, InIndex
    <2>8. Place'
      BY <1>3, <1>8, <2>1, <2>2, <2>3, <2>4
         DEF CrawlInv, Place, Crawls, InIndex, InShard, InPages, Fetching, Reading
    <2>9. Scanned'
      BY <2>1 DEF Scanned, Reading
    <2> QED
      BY <1>3, <1>8, <2>1, <2>6, <2>7, <2>8, <2>9, Outside DEF Fetching, pagesVars
  <1> QED
    BY <1>9, <1>10

LEMMA IndexSteps ==
  ASSUME CrawlInv, IndexStep, UNCHANGED <<pagesVars, newest>>
  PROVE  CrawlInv'
  BY NextShardStep, LoopEndsStep, OpenStep, OpenFailsStep, PassLineStep, ReadLineStep,
     CutLineStep, ScanEnds, FlushStep, SaveCheckpointStep, AbortStep, MarkStep, SaveShardStep DEF IndexStep
-----------------------------------------------------------------------------
(* The pages: which are due. *)

(* A step of the pages dataset that leaves the database alone. *)
LEMMA Inside ==
  ASSUME CrawlInv, UNCHANGED <<rows, config, ids, paged>>, step' \in InPages,
         TypeOK', Place', Durable', InHand', NoGap', Asked'
  PROVE  CrawlInv'
  <1>1. Numbering' /\ OnePerDocument(config', ids', paged', rows')
    BY DEF CrawlInv, Numbering
  <1>2. Scanned'
    BY DEF Scanned, Reading, InPages, Fetching
  <1> QED
    BY <1>1, <1>2 DEF CrawlInv

(* The types of all that is not of the index. *)
LEMMA PagesTypes ==
  ASSUME CrawlInv, UNCHANGED <<config, ids, paged, indexVars, newest>>,
         Queue!SinkType', stops' \in 0..config.maxStops,
         step' \in InPages, left' \in Seq({"index", "pages"}), st' \in StatesOf(config),
         targets' \subseteq Ids, taken' \subseteq targets', results' \subseteq targets',
         failures' \subseteq targets', pool' \in [Workers -> 0..Done]
  PROVE  TypeOK'
  <1>1. Done' = Done /\ Ids' = Ids /\ IndexRows' = IndexRows /\ Crawls' = Crawls
    BY DEF Done, Ids, IndexRows, Crawls
  <1>2. UNCHANGED <<done, skip, lines, batch, flushed>>
    BY DEF indexVars, scanVars
  <1>3. step' \in {"query", "fetch", "emit", "advance"}
    BY DEF InPages, Fetching
  <1> QED
    BY <1>1, <1>2, <1>3 DEF CrawlInv, TypeOK

LEMMA PageNumbers ==
  ASSUME CrawlInv
  PROVE  /\ Numbers(ids) \in SUBSET Ids /\ Cardinality(DOMAIN ids) \in Nat
         /\ \A i \in Numbers(ids) : i <= Cardinality(DOMAIN ids)
         /\ LastId(config) \in Nat /\ Done \in Nat /\ Done # 0 /\ Done \notin Ids /\ 0 \notin Ids
         /\ Ids \subseteq 0..Done /\ 0 \in 0..Done /\ Done \in 0..Done
  <1>1. LastId(config) \in Nat
    BY Numerals
  <1>2. /\ Done \in Nat /\ Done # 0 /\ Done \notin Ids /\ 0 \notin Ids
        /\ Ids \subseteq 0..Done /\ 0 \in 0..Done /\ Done \in 0..Done
    BY <1>1 DEF Done, Ids
  <1>3. Numbers(ids) \in SUBSET Ids
    BY DEF CrawlInv, TypeOK, Numbers
  <1>4. Cardinality(DOMAIN ids) \in Nat
    <2>1. config \in Configs /\ DOMAIN ids \in SUBSET RowsOf(config)
      BY DEF CrawlInv, TypeOK, IndexRows
    <2> QED
      BY <2>1, Places
  <1>5. \A i \in Numbers(ids) : i <= Cardinality(DOMAIN ids)
    <2>1. PICK n : n = Cardinality(DOMAIN ids)
      OBVIOUS
    <2> QED
      BY <1>4, <2>1 DEF CrawlInv, Numbering, Numbers
  <1> QED
    BY <1>1, <1>2, <1>3, <1>4, <1>5

(* The targets are the first of the rows without a page. *)
LEMMA TargetsAreFirst ==
  ASSUME CrawlInv
  PROVE  /\ Targets \in SUBSET Numbers(ids)
         /\ \A t \in Targets : \A i \in Numbers(ids) :
               st.page < i /\ i < t => i \in Targets \cup paged
  <1>1. Missing \in SUBSET Numbers(ids) /\ Targets \in SUBSET Missing
    BY SameNumbers DEF Missing, Targets
  <1>2. config \in Configs /\ Numbers(ids) \in SUBSET Ids
    BY PageNumbers, ConfigKnown
  <1>3. IsFiniteSet(Missing) /\ Missing \in SUBSET Nat
    BY <1>1, <1>2, IdSets DEF Ids
  <1>4. ASSUME NEW t \in Targets, NEW i \in Numbers(ids), st.page < i, i < t, i \notin paged
        PROVE  i \in Targets
    <2> DEFINE U(k) == {j \in Missing : j < k}
    <2>1. i \in Missing
      BY <1>4, SameNumbers DEF Missing
    <2>2. t \in Nat /\ i \in Nat
      BY <1>1, <1>3, <2>1
    <2>3. U(i) \in SUBSET U(t)
      <3>1. \A j \in Missing : j \in Nat
        BY <1>3
      <3>2. \A j \in Missing : j < i => j < t
        BY <1>4, <2>2, <3>1
      <3> QED
        BY <3>2
    <2>4. IsFiniteSet(U(t))
      BY <1>3, FS_Subset
    <2>5. Cardinality(U(i)) <= Cardinality(U(t)) /\ IsFiniteSet(U(i))
      BY <2>3, <2>4, FS_Subset
    <2>6. Cardinality(U(i)) \in Nat /\ Cardinality(U(t)) \in Nat
      BY <2>4, <2>5, FS_CardinalityType
    <2>7. Cardinality(U(t)) < config.pageBatch
      BY DEF Targets
    <2>8. Cardinality(U(i)) < config.pageBatch
      <3> HIDE DEF U
      <3> QED
        BY <2>5, <2>6, <2>7, Numerals
    <2> QED
      BY <2>1, <2>8 DEF Targets
  <1> QED
    BY <1>1, <1>4

LEMMA QueryStep ==
  ASSUME CrawlInv, Query, UNCHANGED <<indexVars, newest>>
  PROVE  CrawlInv'
  <1>1. PICK T : T = Targets
    OBVIOUS
  <1>2. /\ step = "query" /\ step' = "fetch" /\ targets' = T /\ pool' = [w \in Workers |-> 0]
        /\ UNCHANGED <<sinkVars, config, ids, stops, left, st, paged, taken, results, failures>>
    BY <1>1 DEF Query, Goto, sharedVars
  <1>3. /\ Queue!SinkType' /\ Durable' /\ All' = All
        /\ UNCHANGED <<backlog, rows, saved, phase, ctx, writer, emitted>>
    BY <1>2, Quiet
  <1>4. taken = {} /\ results = {} /\ failures = {}
    BY <1>2 DEF CrawlInv, Place
  <1>5. /\ T \in SUBSET Numbers(ids)
        /\ \A t \in T : \A i \in Numbers(ids) : st.page < i /\ i < t => i \in T \cup paged
    BY <1>1, TargetsAreFirst
  <1>6. T \subseteq Ids /\ pool' \in [Workers -> 0..Done] /\ \A w \in Workers : pool'[w] # Done
    <2>1. T \subseteq Ids /\ 0 \in 0..Done /\ Done # 0
      BY <1>5, PageNumbers
    <2> QED
      BY <1>2, <2>1
  <1>7. TypeOK'
    BY <1>2, <1>3, <1>4, <1>6, PagesTypes DEF CrawlInv, TypeOK, InPages, Fetching
  <1>8. Place'
    BY <1>2, <1>3
       DEF CrawlInv, Place, Crawls, InIndex, InShard, InPages, Fetching, Reading, indexVars, scanVars
  <1>9. InHand'
    BY <1>2, <1>3, StillInHand
  <1>10. NoGap'
    BY <1>2, <1>5 DEF NoGap
  <1>11. Asked'
    <2>1. Done' = Done
      BY <1>2 DEF Done
    <2> QED
      BY <1>2, <1>4, <1>6, <2>1 DEF Asked
  <1> QED
    BY <1>2, <1>3, <1>7, <1>8, <1>9, <1>10, <1>11, Inside DEF InPages, Fetching

LEMMA QueryFailsStep ==
  ASSUME CrawlInv, QueryFails, UNCHANGED <<indexVars, newest>>
  PROVE  CrawlInv'
  <1>1. /\ step = "query" /\ UNCHANGED <<sinkVars, config, ids, st, pagesVars>>
        /\ DatasetReturns("query") /\ (UNCHANGED stops \/ Trouble)
    BY DEF QueryFails, Fault
  <1>2. /\ Queue!SinkType' /\ Durable' /\ All' = All
        /\ UNCHANGED <<backlog, rows, saved, phase, ctx, writer, emitted>>
    BY <1>1, Quiet
  <1>3. stops' \in 0..config.maxStops
    BY <1>1, Stops DEF CrawlInv, TypeOK
  <1>4. InHand'
    BY <1>1, <1>2, StillInHand
  <1>5. st' \in StatesOf(config) /\ st'.crawl \in Crawls
    BY <1>1 DEF CrawlInv, TypeOK, Place, InPages
  <1> QED
    BY <1>1, <1>2, <1>3, <1>4, <1>5, DatasetLeaves
       DEF InPages, indexVars, scanVars, CrawlInv, TypeOK

(* Another cursor of the pages in the state in memory. *)
LEMMA AnotherPage ==
  ASSUME CrawlInv, step \in InPages, writer = "live",
         NEW p \in 0..LastId(config), NEW x, x = [st EXCEPT !.page = p],
         PagesBehind(config, ids, x, All)
  PROVE  Vouches(config, ids, x, All)
  <1>1. st \in StatesOf(config)
    BY DEF CrawlInv, TypeOK
  <1>2. x.crawl = st.crawl /\ x.shard = st.shard /\ x.line = st.line
    BY <1>1 DEF StatesOf
  <1>3. IndexBehind(config, st, All)
    BY DEF CrawlInv, InHand, Vouches, InPages, Fetching
  <1>4. IndexBehind(config, x, All)
    BY <1>2, <1>3 DEF IndexBehind
  <1> QED
    BY <1>4 DEF Vouches

(* The pages dataset ends after it has saved another cursor. *)
LEMMA CursorSaved ==
  ASSUME CrawlInv, step \in InPages, NEW p \in 0..LastId(config),
         NEW x, x = [st EXCEPT !.page = p], st' = x,
         writer = "live" => PagesBehind(config, ids, x, All),
         NEW err, Queue!PutState(x, err), DatasetReturns(err),
         UNCHANGED <<sharedVars, pagesVars, indexVars, newest>>
  PROVE  CrawlInv'
  <1>1. UNCHANGED <<config, ids, stops, done, scanVars>>
    BY DEF sharedVars, indexVars
  <1>2. x \in StatesOf(config) /\ x.crawl \in Crawls
    <2>1. st \in StatesOf(config) /\ st.crawl \in Crawls
      BY DEF CrawlInv, TypeOK, Place
    <2> QED
      BY <2>1 DEF StatesOf
  <1>3. writer = "live" => Vouches(config, ids, x, All)
    BY AnotherPage
  <1>4. /\ Queue!SinkType' /\ UNCHANGED <<rows, saved, phase, ctx, writer>>
        /\ Durable' /\ All' = All
    BY <1>1, <1>2, <1>3, Saving
  <1>5. InHand'
    BY <1>1, <1>3, <1>4 DEF InHand
  <1> QED
    BY <1>1, <1>2, <1>4, <1>5, DatasetLeaves DEF CrawlInv, TypeOK

LEMMA WrapStep ==
  ASSUME CrawlInv, Wrap, UNCHANGED <<indexVars, newest>>
  PROVE  CrawlInv'
  <1>1. PICK x : x = [st EXCEPT !.page = 0]
    OBVIOUS
  <1>2. PICK err \in Queue!Errors : Queue!PutState(x, err) /\ DatasetReturns(err)
    BY <1>1 DEF Wrap
  <1>3. step = "query" /\ st' = x /\ UNCHANGED <<sharedVars, pagesVars>>
    BY <1>1 DEF Wrap
  <1>4. x.page = 0 /\ 0 \in 0..LastId(config)
    BY <1>1, Numerals DEF CrawlInv, TypeOK, StatesOf
  <1>5. PagesBehind(config, ids, x, All)
    <2>1. \A i \in Numbers(ids) : ~(i <= 0)
      BY PageNumbers DEF Ids
    <2> QED
      BY <1>4, <2>1, PageNumbers DEF PagesBehind
  <1> QED
    BY <1>1, <1>2, <1>3, <1>4, <1>5, CursorSaved DEF InPages
-----------------------------------------------------------------------------
(* The pages: the workers, and what becomes of their results. *)

LEMMA Pooled ==
  ASSUME CrawlInv, step = "fetch",
         UNCHANGED <<sinkVars, config, ids, step, left, st, paged, targets, indexVars, newest>>,
         stops' \in 0..config.maxStops, pool' \in [Workers -> 0..Done],
         taken' \subseteq targets, results' \subseteq targets, failures' \subseteq targets,
         Asked'
  PROVE  CrawlInv'
  <1>1. /\ Queue!SinkType' /\ Durable' /\ All' = All
        /\ UNCHANGED <<backlog, rows, saved, phase, ctx, writer, emitted>>
    BY Quiet
  <1>2. TypeOK'
    BY <1>1, PagesTypes DEF CrawlInv, TypeOK, InPages, Fetching
  <1>3. Place'
    BY <1>1 DEF CrawlInv, Place, Crawls, InIndex, InShard, InPages, Fetching, Reading
  <1>4. InHand'
    BY <1>1, StillInHand
  <1>5. NoGap'
    BY DEF CrawlInv, NoGap
  <1> QED
    BY <1>1, <1>2, <1>3, <1>4, <1>5, Inside DEF InPages, Fetching

(* What is known while the workers fetch. *)
LEMMA Fetch ==
  ASSUME CrawlInv, step = "fetch"
  PROVE  /\ targets \subseteq Ids /\ targets \subseteq Numbers(ids)
         /\ taken \subseteq targets /\ results \subseteq targets /\ failures \subseteq targets
         /\ pool \in [Workers -> 0..Done]
         /\ 0 \notin targets /\ Done \notin targets /\ Done # 0
         /\ 0 \in 0..Done /\ Done \in 0..Done /\ targets \subseteq 0..Done
         /\ stops \in 0..config.maxStops
         /\ ctx = "live" =>
              /\ \A t \in taken : t \in results \cup failures \/ \E w \in Workers : pool[w] = t
              /\ \A w \in Workers : pool[w] = Done => targets \subseteq taken
  <1>1. targets \subseteq Ids /\ targets \subseteq Numbers(ids)
    BY DEF CrawlInv, TypeOK, NoGap, Fetching
  <1> QED
    BY <1>1, PageNumbers DEF CrawlInv, TypeOK, Asked

LEMMA TakeStep ==
  ASSUME CrawlInv, UNCHANGED <<indexVars, newest>>, NEW w \in Workers, Take(w)
  PROVE  CrawlInv'
  <1> DEFINE U == targets \ taken
  <1>1. PICK t : t = Least(U)
    OBVIOUS
  <1>2. PICK p : p = IF ctx = "cancelled" THEN Done ELSE t
    OBVIOUS
  <1>3. /\ step = "fetch" /\ pool[w] = 0 /\ U # {}
        /\ pool' = [pool EXCEPT ![w] = p]
        /\ taken' = taken \cup {t}
        /\ UNCHANGED <<sinkVars, config, ids, stops, step, left, st, paged, targets, results, failures>>
    BY <1>1, <1>2 DEF Take, sharedVars
  <1>4. /\ targets \subseteq Ids
        /\ taken \subseteq targets /\ results \subseteq targets /\ failures \subseteq targets
        /\ pool \in [Workers -> 0..Done]
        /\ 0 \notin targets /\ Done \notin targets
        /\ Done \in 0..Done /\ targets \subseteq 0..Done
        /\ stops \in 0..config.maxStops
        /\ ctx = "live" =>
             /\ \A u \in taken : u \in results \cup failures \/ \E v \in Workers : pool[v] = u
             /\ \A v \in Workers : pool[v] = Done => targets \subseteq taken
    BY <1>3, Fetch
  <1>5. t \in targets
    <2>1. U \in SUBSET (1..LastId(config)) /\ config \in Configs
      BY <1>4, ConfigKnown DEF Ids
    <2>2. U \in SUBSET Nat /\ IsFiniteSet(U)
      BY <2>1, IdSets
    <2> QED
      BY <1>1, <1>3, <2>2, LeastIs
  <1>6. pool' \in [Workers -> 0..Done] /\ taken' \subseteq targets
    BY <1>2, <1>3, <1>4, <1>5
  <1>7. Asked'
    <2> SUFFICES ASSUME ctx' = "live"
                 PROVE  /\ \A u \in taken' : u \in results' \cup failures' \/ \E v \in Workers : pool'[v] = u
                        /\ \A v \in Workers : pool'[v] = Done' => targets' \subseteq taken'
      BY <1>3 DEF Asked
    <2>1. ctx = "live" /\ p = t /\ Done' = Done
      BY <1>2, <1>3 DEF sinkVars, Done
    <2>2. \A v \in Workers : pool'[v] = IF v = w THEN t ELSE pool[v]
      BY <1>3, <1>4, <2>1
    <2>3. ASSUME NEW u \in taken, u \notin results \cup failures
          PROVE  \E v \in Workers : pool'[v] = u
      <3>1. PICK v \in Workers : pool[v] = u
        BY <1>4, <2>1, <2>3
      <3>2. v # w
        BY <1>3, <1>4, <3>1
      <3> QED
        BY <2>2, <3>1, <3>2
    <2>4. pool'[w] = t
      BY <2>2
    <2>5. \A u \in taken' : u \in results' \cup failures' \/ \E v \in Workers : pool'[v] = u
      BY <1>3, <2>3, <2>4
    <2>6. \A v \in Workers : pool'[v] = Done' => targets' \subseteq taken'
      BY <1>3, <1>4, <1>5, <2>1, <2>2
    <2> QED
      BY <2>5, <2>6
  <1> QED
    BY <1>3, <1>4, <1>6, <1>7, Pooled

LEMMA LeaveStep ==
  ASSUME CrawlInv, UNCHANGED <<indexVars, newest>>, NEW w \in Workers, Leave(w)
  PROVE  CrawlInv'
  <1>1. /\ step = "fetch" /\ pool[w] = 0 /\ targets \ taken = {}
        /\ pool' = [pool EXCEPT ![w] = Done]
        /\ UNCHANGED <<sinkVars, config, ids, stops, step, left, st, paged, targets, taken, results, failures>>
    BY DEF Leave, sharedVars
  <1>2. /\ taken \subseteq targets /\ results \subseteq targets /\ failures \subseteq targets
        /\ pool \in [Workers -> 0..Done]
        /\ 0 \notin targets /\ Done \in 0..Done
        /\ stops \in 0..config.maxStops
        /\ ctx = "live" =>
             \A u \in taken : u \in results \cup failures \/ \E v \in Workers : pool[v] = u
    BY <1>1, Fetch
  <1>3. pool' \in [Workers -> 0..Done]
    BY <1>1, <1>2
  <1>4. Asked'
    <2> SUFFICES ASSUME ctx' = "live"
                 PROVE  /\ \A u \in taken' : u \in results' \cup failures' \/ \E v \in Workers : pool'[v] = u
                        /\ \A v \in Workers : pool'[v] = Done' => targets' \subseteq taken'
      BY <1>1 DEF Asked
    <2>1. ctx = "live"
      BY <1>1 DEF sinkVars
    <2>2. \A v \in Workers : pool'[v] = IF v = w THEN Done ELSE pool[v]
      BY <1>1, <1>2
    <2>3. ASSUME NEW u \in taken, u \notin results \cup failures
          PROVE  \E v \in Workers : pool'[v] = u
      <3>1. PICK v \in Workers : pool[v] = u
        BY <1>2, <2>1, <2>3
      <3>2. v # w
        BY <1>1, <1>2, <3>1
      <3> QED
        BY <2>2, <3>1, <3>2
    <2>4. \A u \in taken' : u \in results' \cup failures' \/ \E v \in Workers : pool'[v] = u
      BY <1>1, <2>3
    <2>5. targets' \subseteq taken'
      BY <1>1
    <2> QED
      BY <2>4, <2>5
  <1> QED
    BY <1>1, <1>2, <1>3, <1>4, Pooled

(* A target is fetched, or has failed. *)
LEMMA Answered ==
  ASSUME CrawlInv, UNCHANGED <<indexVars, newest>>, NEW w \in Workers, Fetched(w) \/ FetchFails(w)
  PROVE  CrawlInv'
  <1>1. /\ step = "fetch" /\ pool[w] \in targets
        /\ pool' = [pool EXCEPT ![w] = 0]
        /\ results \subseteq results' /\ failures \subseteq failures'
        /\ pool[w] \in results' \cup failures'
        /\ results' \subseteq results \cup {pool[w]} /\ failures' \subseteq failures \cup {pool[w]}
        /\ UNCHANGED stops \/ Trouble
        /\ UNCHANGED <<sinkVars, config, ids, step, left, st, paged, targets, taken>>
    BY DEF Fetched, FetchFails, sharedVars, Fault
  <1>2. /\ taken \subseteq targets /\ results \subseteq targets /\ failures \subseteq targets
        /\ pool \in [Workers -> 0..Done]
        /\ 0 \in 0..Done /\ Done # 0
        /\ ctx = "live" =>
             /\ \A u \in taken : u \in results \cup failures \/ \E v \in Workers : pool[v] = u
             /\ \A v \in Workers : pool[v] = Done => targets \subseteq taken
    BY <1>1, Fetch
  <1>3. pool' \in [Workers -> 0..Done] /\ results' \subseteq targets /\ failures' \subseteq targets
    BY <1>1, <1>2
  <1>4. stops' \in 0..config.maxStops
    BY <1>1, Stops DEF CrawlInv, TypeOK
  <1>5. Asked'
    <2> SUFFICES ASSUME ctx' = "live"
                 PROVE  /\ \A u \in taken' : u \in results' \cup failures' \/ \E v \in Workers : pool'[v] = u
                        /\ \A v \in Workers : pool'[v] = Done' => targets' \subseteq taken'
      BY <1>1 DEF Asked
    <2>1. ctx = "live" /\ Done' = Done
      BY <1>1 DEF sinkVars, Done
    <2>2. \A v \in Workers : pool'[v] = IF v = w THEN 0 ELSE pool[v]
      BY <1>1, <1>2
    <2>3. ASSUME NEW u \in taken, u \notin results' \cup failures'
          PROVE  \E v \in Workers : pool'[v] = u
      <3>1. PICK v \in Workers : pool[v] = u
        BY <1>1, <1>2, <2>1, <2>3
      <3>2. v # w
        BY <1>1, <2>3, <3>1
      <3> QED
        BY <2>2, <3>1, <3>2
    <2>4. \A u \in taken' : u \in results' \cup failures' \/ \E v \in Workers : pool'[v] = u
      BY <1>1, <2>3
    <2>5. \A v \in Workers : pool'[v] = Done' => targets' \subseteq taken'
      BY <1>1, <1>2, <2>1, <2>2
    <2> QED
      BY <2>4, <2>5
  <1> QED
    BY <1>1, <1>2, <1>3, <1>4, <1>5, Pooled

LEMMA WaitStep ==
  ASSUME CrawlInv, Wait, UNCHANGED <<indexVars, newest>>
  PROVE  CrawlInv'
  <1>1. /\ step = "fetch" /\ pool = NoPool
        /\ IF ctx = "cancelled" THEN DatasetReturns("Canceled") ELSE Goto("emit")
        /\ UNCHANGED <<sinkVars, config, ids, stops, st, pagesVars>>
    BY DEF Wait, AfterPool, sharedVars
  <1>2. /\ Queue!SinkType' /\ Durable' /\ All' = All
        /\ UNCHANGED <<backlog, rows, saved, phase, ctx, writer, emitted>>
    BY <1>1, Quiet
  <1>3. InHand'
    BY <1>1, <1>2, StillInHand
  <1>4. CASE ctx = "cancelled"
    <2>1. st' \in StatesOf(config) /\ st'.crawl \in Crawls
      BY <1>1 DEF CrawlInv, TypeOK, Place, InPages, Fetching
    <2> QED
      BY <1>1, <1>2, <1>3, <1>4, <2>1, DatasetLeaves
         DEF InPages, Fetching, indexVars, scanVars, CrawlInv, TypeOK
  <1>5. CASE ctx # "cancelled"
    <2>1. /\ step' = "emit" /\ UNCHANGED <<left, paged, targets, taken, pool, results, failures>>
      BY <1>1, <1>5 DEF Goto, pagesVars, poolVars
    <2>2. ctx = "live"
      BY <1>5 DEF CrawlInv, TypeOK, Queue!SinkType
    <2>3. targets \subseteq results \cup failures
      <3>1. PICK w \in Workers : TRUE
        BY WorkersAssumption
      <3>2. \A v \in Workers : pool[v] = Done
        BY <1>1 DEF NoPool
      <3>3. /\ targets \subseteq taken /\ Done \notin targets /\ taken \subseteq targets
            /\ \A t \in taken : t \in results \cup failures \/ \E v \in Workers : pool[v] = t
        BY <1>1, <2>2, <3>1, <3>2, Fetch
      <3> QED
        BY <3>2, <3>3
    <2>4. TypeOK'
      BY <1>1, <1>2, <2>1, PagesTypes DEF CrawlInv, TypeOK, InPages, Fetching
    <2>5. Place'
      BY <1>1, <1>2, <2>1
         DEF CrawlInv, Place, Crawls, InIndex, InShard, InPages, Fetching, Reading
    <2>6. NoGap'
      BY <1>1, <2>1 DEF CrawlInv, NoGap, Fetching
    <2>7. Asked'
      BY <2>1, <2>3 DEF Asked
    <2> QED
      BY <1>1, <1>2, <1>3, <2>1, <2>4, <2>5, <2>6, <2>7, Inside DEF InPages, Fetching
  <1> QED
    BY <1>4, <1>5
(* Pages of numbered rows may always be added. *)
LEMMA PagesMayCome ==
  ASSUME NEW c, NEW d, NEW A \in Whole(c, d), NEW S \in SUBSET RecordsOf(c),
         \A x \in S : \E i \in Numbers(d) : x = Page(i)
  PROVE  A \cup S \in Whole(c, d)
  <1>1. A \cup S \in SUBSET RecordsOf(c)
    BY DEF Whole
  <1>2. ASSUME NEW n \in 1..c.lastCrawl, NEW s \in 0..(c.shardCount - 1), ShardRow(n, s) \in A \cup S
        PROVE  UpTo(c, n, s, c.lastLine, A \cup S)
    <2>1. ShardRow(n, s) \in A
      BY <1>2, Kinds DEF ShardRow
    <2>2. UpTo(c, n, s, c.lastLine, A)
      BY <2>1 DEF Whole
    <2> QED
      BY <2>2, UpTos
  <1>3. ASSUME NEW i \in 1..LastId(c), Page(i) \in A \cup S
        PROVE  i \in Numbers(d)
    <2>1. CASE Page(i) \in A
      BY <2>1 DEF Whole
    <2>2. CASE Page(i) \in S
      BY <2>2, Kinds
    <2> QED
      BY <1>3, <2>1, <2>2
  <1> QED
    BY <1>1, <1>2, <1>3 DEF Whole

LEMMA EmitPagesStep ==
  ASSUME CrawlInv, EmitPages, UNCHANGED <<indexVars, newest>>
  PROVE  CrawlInv'
  <1>1. PICK order : order = InOrder(results)
    OBVIOUS
  <1>2. PICK pages : pages = [i \in DOMAIN order |-> Page(order[i])]
    OBVIOUS
  <1>3. PICK err \in Queue!Errors :
           /\ Queue!Emit(pages, err)
           /\ IF err = "nil" THEN Goto("advance") ELSE DatasetReturns(err)
    BY <1>1, <1>2 DEF EmitPages
  <1>4. /\ step = "emit" /\ UNCHANGED <<config, ids, stops, st, pagesVars>>
    BY DEF EmitPages, sharedVars
  <1>5. /\ targets \subseteq Numbers(ids) /\ Numbers(ids) \in SUBSET Ids
        /\ results \in SUBSET targets /\ targets \subseteq results \cup failures
    BY <1>4, PageNumbers DEF CrawlInv, TypeOK, NoGap, Asked, Fetching
  <1>6. PICK n : n = Cardinality(results)
    OBVIOUS
  <1>7. /\ n \in Nat /\ DOMAIN order = 1..n
        /\ \A j \in 1..n : order[j] \in results
        /\ \A t \in results : \E j \in 1..n : order[j] = t
    <2>1. results \in SUBSET (1..LastId(config)) /\ config \in Configs
      BY <1>5, ConfigKnown DEF Ids
    <2>2. results \in SUBSET Nat /\ IsFiniteSet(results)
      BY <2>1, IdSets
    <2> QED
      BY <1>1, <1>6, <2>2, InOrderIs, FS_CardinalityType
  <1>8. \A j \in 1..n : pages[j] = Page(order[j]) /\ pages[j] \in RecordsOf(config)
    <2>1. \A i \in Ids : Page(i) \in RecordsOf(config)
      BY DEF Ids, RecordsOf
    <2>2. \A j \in 1..n : pages[j] = Page(order[j])
      BY <1>2, <1>7
    <2>3. \A j \in 1..n : order[j] \in Ids
      BY <1>5, <1>7
    <2> QED
      BY <2>1, <2>2, <2>3
  <1>9. pages \in Seq(RecordsOf(config)) /\ Len(pages) = n
    <2>1. pages \in [1..n -> RecordsOf(config)]
      BY <1>2, <1>7, <1>8
    <2> QED
      BY <1>7, <2>1, SeqDef
  <1>10. Log!Leaves(Whole(config, ids), pages, err)
    <2> SUFFICES ASSUME NEW k \in 0..Len(pages)
                 PROVE  All \cup {pages[i] : i \in 1..k} \in Whole(config, ids)
      BY DEF Log!Leaves, All
    <2>1. PICK S : S = {pages[i] : i \in 1..k}
      OBVIOUS
    <2>2. \A i \in 1..k : i \in 1..n
      BY <1>7, <1>9
    <2>3. S \in SUBSET RecordsOf(config)
      BY <1>8, <2>1, <2>2
    <2>4. \A x \in S : \E i \in Numbers(ids) : x = Page(i)
      BY <1>5, <1>7, <1>8, <2>1, <2>2
    <2>5. All \in Whole(config, ids)
      BY AllWhole
    <2>6. All \cup S \in Whole(config, ids)
      BY <2>3, <2>4, <2>5, PagesMayCome
    <2> QED
      BY <2>1, <2>6
  <1>11. /\ Queue!SinkType' /\ UNCHANGED <<rows, saved, phase, ctx, writer>>
         /\ Durable' /\ All \subseteq All'
         /\ err = "nil" /\ writer = "live" => \A i \in 1..Len(pages) : pages[i] \in All'
    BY <1>3, <1>4, <1>9, <1>10, Emitting
  <1>12. InHand'
    BY <1>4, <1>11, StillInHand
  <1>13. CASE err # "nil"
    <2>1. st' \in StatesOf(config) /\ st'.crawl \in Crawls
      BY <1>4 DEF CrawlInv, TypeOK, Place, InPages, Fetching
    <2> QED
      BY <1>3, <1>4, <1>11, <1>12, <1>13, <2>1, DatasetLeaves
         DEF InPages, Fetching, indexVars, scanVars, CrawlInv, TypeOK
  <1>14. CASE err = "nil"
    <2>1. /\ step' = "advance"
          /\ UNCHANGED <<left, paged, targets, taken, pool, results, failures>>
      BY <1>3, <1>4, <1>14 DEF Goto, pagesVars, poolVars
    <2>2. writer = "live" => \A t \in results : Page(t) \in All'
      BY <1>7, <1>8, <1>9, <1>11, <1>14
    <2>3. TypeOK'
      BY <1>4, <1>11, <2>1, PagesTypes DEF CrawlInv, TypeOK, InPages, Fetching
    <2>4. Place'
      BY <1>4, <1>11, <2>1
         DEF CrawlInv, Place, Crawls, InIndex, InShard, InPages, Fetching, Reading
    <2>5. NoGap'
      BY <1>4, <2>1 DEF CrawlInv, NoGap, Fetching
    <2>6. Asked'
      BY <1>5, <1>11, <2>1, <2>2 DEF Asked
    <2> QED
      BY <1>4, <1>11, <1>12, <2>1, <2>3, <2>4, <2>5, <2>6, Inside DEF InPages, Fetching
  <1> QED
    BY <1>13, <1>14

(* The rows up to the cursor's next place have their pages. *)
LEMMA AdvanceIsCovered ==
  ASSUME CrawlInv, step = "advance", writer = "live", NEW d, d = AdvanceTo
  PROVE  /\ d <= Cardinality(DOMAIN ids)
         /\ \A i \in Numbers(ids) : i <= d =>
               \E j \in Numbers(ids) : Page(j) \in All /\ Doc(config, ids, j) = Doc(config, ids, i)
  <1>1. /\ targets \subseteq Numbers(ids) /\ targets \subseteq results \cup failures
        /\ \A t \in targets : \A i \in Numbers(ids) :
              st.page < i /\ i < t => i \in targets \cup paged
        /\ \A t \in results : Page(t) \in All
        /\ Numbers(ids) \subseteq Ids
    BY PageNumbers DEF CrawlInv, NoGap, Asked, Fetching
  <1>2. /\ \A i \in Numbers(ids) : i <= Cardinality(DOMAIN ids)
        /\ Ids \subseteq Nat /\ st.page \in Nat
    <2>1. \A i \in Numbers(ids) : i <= Cardinality(DOMAIN ids)
      BY PageNumbers
    <2>2. LastId(config) \in Nat /\ st \in StatesOf(config)
      BY Numerals DEF CrawlInv, TypeOK
    <2>3. st.page \in 0..LastId(config)
      BY <2>2 DEF StatesOf
    <2> QED
      BY <2>1, <2>2, <2>3 DEF Ids
  <1>3. Vouches(config, ids, st, All)
    BY DEF CrawlInv, InHand
  <1>4. CASE Contiguous = {}
    <2>1. d = st.page
      BY <1>4 DEF AdvanceTo
    <2> QED
      BY <1>3, <2>1 DEF Vouches, PagesBehind
  <1>5. CASE Contiguous # {}
    <2>1. Contiguous \in SUBSET (1..LastId(config)) /\ config \in Configs
      BY <1>1, ConfigKnown DEF Contiguous, Ids
    <2>2. Contiguous \in SUBSET Nat /\ IsFiniteSet(Contiguous)
      BY <2>1, IdSets
    <2>3. \E i \in Contiguous : \A j \in Contiguous : j <= i
      BY <1>5, <2>2, Ends
    <2>4. d \in Contiguous
      BY <1>5, <2>3 DEF AdvanceTo
    <2>5. d \in targets /\ \A j \in targets : j <= d => j \in results
      BY <1>1, <2>4 DEF Contiguous
    <2>6. ASSUME NEW i \in Numbers(ids), i <= d
          PROVE  \E j \in Numbers(ids) : Page(j) \in All /\ Doc(config, ids, j) = Doc(config, ids, i)
      <3>1. CASE i <= st.page
        BY <1>3, <3>1 DEF Vouches, PagesBehind
      <3>2. CASE i \in targets
        <4>1. Page(i) \in All
          BY <1>1, <2>5, <2>6, <3>2
        <4> QED
          BY <4>1
      <3>3. CASE i \in paged
        <4>1. Page(i) \in rows
          BY <3>3 DEF CrawlInv, OnePerDocument
        <4> QED
          BY <4>1, AllWhole
      <3>4. i <= st.page \/ i = d \/ (st.page < i /\ i < d)
        <4>1. i \in Nat /\ d \in Nat
          BY <1>1, <1>2, <2>5
        <4> QED
          BY <1>2, <2>6, <4>1
      <3> QED
        BY <1>1, <2>5, <3>1, <3>2, <3>3, <3>4
    <2>7. d <= Cardinality(DOMAIN ids)
      BY <1>1, <1>2, <2>5
    <2> QED
      BY <2>6, <2>7
  <1> QED
    BY <1>4, <1>5

LEMMA SaveCursorStep ==
  ASSUME CrawlInv, SaveCursor, UNCHANGED <<indexVars, newest>>
  PROVE  CrawlInv'
  <1>1. PICK d : d = AdvanceTo
    OBVIOUS
  <1>2. PICK x : x = [st EXCEPT !.page = d]
    OBVIOUS
  <1>3. PICK err \in Queue!Errors : Queue!PutState(x, err) /\ DatasetReturns(err)
    BY <1>1, <1>2 DEF SaveCursor
  <1>4. step = "advance" /\ st' = x /\ UNCHANGED <<sharedVars, pagesVars>>
    BY <1>1, <1>2 DEF SaveCursor
  <1>5. d \in 0..LastId(config)
    <2>1. CASE Contiguous = {}
      BY <1>1, <2>1 DEF AdvanceTo, CrawlInv, TypeOK, StatesOf
    <2>2. CASE Contiguous # {}
      <3>1. Contiguous \in SUBSET (1..LastId(config)) /\ config \in Configs
        BY ConfigKnown DEF Contiguous, CrawlInv, TypeOK, Ids
      <3>2. Contiguous \in SUBSET Nat /\ IsFiniteSet(Contiguous)
        BY <3>1, IdSets
      <3>3. \E i \in Contiguous : \A j \in Contiguous : j <= i
        BY <2>2, <3>2, Ends
      <3>4. d \in Contiguous
        BY <1>1, <2>2, <3>3 DEF AdvanceTo
      <3> QED
        BY <3>1, <3>4, Numerals
    <2> QED
      BY <2>1, <2>2
  <1>6. x.page = d
    BY <1>2, <1>5 DEF CrawlInv, TypeOK, StatesOf
  <1>7. writer = "live" => PagesBehind(config, ids, x, All)
    BY <1>1, <1>4, <1>6, AdvanceIsCovered DEF PagesBehind
  <1> QED
    BY <1>2, <1>3, <1>4, <1>5, <1>7, CursorSaved DEF InPages, Fetching

LEMMA PagesSteps ==
  ASSUME CrawlInv, PagesStep, UNCHANGED <<indexVars, newest>>
  PROVE  CrawlInv'
  BY QueryStep, WrapStep, QueryFailsStep, TakeStep, LeaveStep, Answered, WaitStep,
     EmitPagesStep, SaveCursorStep DEF PagesStep
-----------------------------------------------------------------------------
(* The database. *)

(* What a commit does to the tables. *)
LEMMA Writing ==
  ASSUME CrawlInv, NEW n \in 1..Len(backlog), Queue!Commit(n),
         UNCHANGED <<phase, ctx, writer, emitted, config>>,
         NEW recs, recs = Queue!RecsOf(SubSeq(backlog, 1, n)), ids' = Numbered(recs)
  PROVE  /\ Queue!SinkType'
         /\ Durable' /\ All' = All
         /\ rows' = rows \cup recs /\ rows' \in Whole(config, ids)
  <1>1. Log!SinkType /\ Log!Write /\ Durable
    <2>1. Log!Commit(n)
      BY Sink
    <2>2. Log!Write
      BY <2>1 DEF Log!Write, Log!runVars
    <2> QED
      BY <2>2, Sink DEF CrawlInv, TypeOK
  <1>2. PICK G : G = Whole(config, ids)
    OBVIOUS
  <1>3. PICK C : C = Covered(config, ids)
    OBVIOUS
  <1>4. Log!Monotone(G, C)
    BY <1>2, <1>3, CoveredGrows
  <1>5. Log!Sound(G, C, NoState, rows, backlog, saved)
    BY <1>1, <1>2, <1>3 DEF Durable
  <1>6. /\ Log!SinkType'
        /\ Log!Sound(G, C, NoState, rows', backlog', saved')
        /\ Log!Backlogged' = Log!Backlogged
    BY <1>1, <1>4, <1>5, Log!WriteKeeps
  <1>7. rows' = rows \cup recs
    BY DEF Queue!Commit
  <1>8. rows' \in G
    <2>1. Len(backlog') \in Nat
      BY <1>6, LenProperties DEF Log!SinkType, Log!TypeOK
    <2>2. Log!Reach(rows', backlog', 0) \in G
      BY <1>6, <2>1 DEF Log!Sound
    <2> QED
      BY <2>2, Log!ReachZero
  <1>9. Durable'
    <2>1. PICK d : d = Numbered(recs)
      OBVIOUS
    <2>2. PICK G2 : G2 = Whole(config, d)
      OBVIOUS
    <2>3. PICK C2 : C2 = Covered(config, d)
      OBVIOUS
    <2>4. G \subseteq G2 /\ C \subseteq C2
      BY <1>2, <1>3, <2>1, <2>2, <2>3, PromisesStay DEF CrawlInv
    <2>5. Log!Sound(G2, C2, NoState, rows', backlog', saved')
      BY <1>6, <2>4, Log!SoundAllows
    <2>6. ids' = d
      BY <2>1
    <2> QED
      BY <2>2, <2>3, <2>5, <2>6 DEF Durable
  <1> QED
    BY <1>2, <1>6, <1>7, <1>8, <1>9, QueueType DEF All

(* Of the pages of a document that a commit brings, the first is kept, if   *)
(* there is none yet.                                                       *)
LEMMA NewPagesAreKept ==
  ASSUME CrawlInv, NEW recs, rows \cup recs \in Whole(config, ids),
         NEW d, d = Numbered(recs)
  PROVE  OnePerDocument(config, d, paged \cup NewPages(recs), rows \cup recs)
  <1>1. /\ Numbers(ids) \subseteq Numbers(d)
        /\ \A i \in Numbers(ids) : Doc(config, d, i) = Doc(config, ids, i)
    BY NumbersGrow DEF CrawlInv
  <1>2. \A i \in Ids : Page(i) \in rows \cup recs => i \in Numbers(ids)
    BY DEF Whole, Ids
  <1>3. /\ \A i \in paged : i \in Numbers(ids) /\ Page(i) \in rows
        /\ \A i \in Ids :
              Page(i) \in rows => \E j \in paged : Doc(config, ids, j) = Doc(config, ids, i)
    BY DEF CrawlInv, OnePerDocument, Ids
  <1>4. \A i : Document(i) = Doc(config, ids, i)
    BY SameNumbers
  <1> DEFINE offered == {i \in Ids : Page(i) \in recs /\ ~Held(i)}
  <1>5. NewPages(recs) = {i \in offered : \A j \in offered : j < i => Document(j) # Document(i)}
    BY DEF NewPages
  <1>6. \A i \in NewPages(recs) : i \in Numbers(ids) /\ Page(i) \in recs
    BY <1>2, <1>5
  <1>7. ASSUME NEW i \in Ids, Page(i) \in rows \cup recs
        PROVE  \E j \in paged \cup NewPages(recs) : Doc(config, ids, j) = Doc(config, ids, i)
    <2>1. CASE Page(i) \in rows
      BY <1>3, <2>1
    <2>2. CASE Held(i)
      BY <1>4, <2>2 DEF Held
    <2>3. CASE Page(i) \in recs /\ ~Held(i)
      <3> DEFINE same == {j \in offered : Document(j) = Document(i)}
      <3>1. i \in same
        BY <2>3
      <3>2. same \in SUBSET (1..LastId(config)) /\ config \in Configs
        BY ConfigKnown DEF Ids
      <3>3. same \in SUBSET Nat /\ IsFiniteSet(same)
        BY <3>2, IdSets
      <3>4. PICK m \in same : \A j \in same : m <= j
        <4> HIDE DEF same
        <4> QED
          BY <3>1, <3>3, Ends
      <3>5. m \in offered /\ Document(m) = Document(i)
        BY <3>4
      <3>6. \A j \in offered : j < m => Document(j) # Document(m)
        <4> SUFFICES ASSUME NEW j \in offered, j < m, Document(j) = Document(m)
                     PROVE  FALSE
          OBVIOUS
        <4>1. j \in same
          BY <3>5
        <4>2. m <= j /\ j \in Nat /\ m \in Nat
          BY <3>3, <3>4, <4>1
        <4> QED
          BY <4>2
      <3>7. m \in NewPages(recs)
        BY <1>5, <3>5, <3>6
      <3> QED
        BY <1>4, <3>5, <3>7
    <2> QED
      BY <1>7, <2>1, <2>2, <2>3
  <1>8. ASSUME NEW i \in Ids, Page(i) \in rows \cup recs
        PROVE  \E j \in paged \cup NewPages(recs) : Doc(config, d, j) = Doc(config, d, i)
    <2>1. PICK j \in paged \cup NewPages(recs) : Doc(config, ids, j) = Doc(config, ids, i)
      BY <1>7, <1>8
    <2>2. i \in Numbers(ids) /\ j \in Numbers(ids)
      BY <1>2, <1>3, <1>6, <1>8
    <2> QED
      BY <1>1, <2>1, <2>2
  <1>9. \A i \in paged \cup NewPages(recs) : i \in Numbers(d) /\ Page(i) \in rows \cup recs
    BY <1>1, <1>3, <1>6
  <1> QED
    BY <1>8, <1>9 DEF OnePerDocument, Ids

LEMMA WriteStep ==
  ASSUME CrawlInv, Write
  PROVE  CrawlInv'
  <1>1. PICK n \in 1..Len(backlog) :
           LET recs == Queue!RecsOf(SubSeq(backlog, 1, n)) IN
           /\ Queue!Commit(n)
           /\ ids' = Numbered(recs)
           /\ paged' = paged \cup NewPages(recs)
    BY DEF Write
  <1>2. PICK recs : recs = Queue!RecsOf(SubSeq(backlog, 1, n))
    OBVIOUS
  <1>3. Queue!Commit(n) /\ ids' = Numbered(recs) /\ paged' = paged \cup NewPages(recs)
    BY <1>1, <1>2
  <1>4. /\ UNCHANGED <<phase, ctx, writer, emitted, config, stops, step, left, st, newest>>
        /\ UNCHANGED <<done, skip, lines, batch, flushed>>
        /\ UNCHANGED <<targets, taken, pool, results, failures>>
    BY DEF Write, indexVars, scanVars, poolVars
  <1>5. /\ Queue!SinkType' /\ Durable' /\ All' = All
        /\ rows' = rows \cup recs /\ rows' \in Whole(config, ids)
    BY <1>2, <1>3, <1>4, Writing
  <1>6. PICK d : d = Numbered(recs)
    OBVIOUS
  <1>7. GoesOn(d, recs)
    BY <1>6, NumberedIs DEF CrawlInv
  <1>8. /\ Numbers(ids) \subseteq Numbers(d)
        /\ \A i \in Numbers(ids) : i <= Cardinality(DOMAIN ids)
        /\ \A i \in Numbers(d) \ Numbers(ids) : i > Cardinality(DOMAIN ids)
        /\ Cardinality(DOMAIN ids) \in Nat
    BY <1>6, NumbersGrow DEF CrawlInv
  <1>9. DOMAIN d \subseteq IndexRows /\ \A r \in DOMAIN d : d[r] \in Ids
    <2>1. PICK m : m = Cardinality(DOMAIN d)
      OBVIOUS
    <2>2. m \in Nat /\ m <= LastId(config) /\ \A r \in DOMAIN d : d[r] \in 1..m
      BY <1>7, <2>1 DEF GoesOn
    <2>3. \A r \in DOMAIN d : d[r] \in Ids
      BY <2>2, Numerals DEF Ids
    <2>4. DOMAIN d \subseteq IndexRows
      BY <1>7 DEF GoesOn, CrawlInv, TypeOK
    <2> QED
      BY <2>3, <2>4
  <1>10. NewPages(recs) \subseteq Ids
    BY DEF NewPages
  <1>11. TypeOK'
    <2>1. /\ Done' = Done /\ Ids' = Ids /\ IndexRows' = IndexRows /\ Crawls' = Crawls
      BY <1>4 DEF Done, Ids, IndexRows, Crawls
    <2>2. ids' = d
      BY <1>3, <1>6
    <2> QED
      BY <1>3, <1>4, <1>5, <1>9, <1>10, <2>1, <2>2 DEF CrawlInv, TypeOK
  <1>12. Numbering'
    BY <1>3, <1>6, <1>7 DEF Numbering, GoesOn
  <1>13. OnePerDocument(config', ids', paged', rows')
    <2>1. PICK k : k = paged \cup NewPages(recs)
      OBVIOUS
    <2>2. PICK R : R = rows \cup recs
      OBVIOUS
    <2>3. OnePerDocument(config, d, k, R)
      BY <1>5, <1>6, <2>1, <2>2, NewPagesAreKept
    <2>4. config' = config /\ ids' = d /\ paged' = k /\ rows' = R
      BY <1>3, <1>4, <1>5, <1>6, <2>1, <2>2
    <2> QED
      BY <2>3, <2>4
  <1>14. Place'
    <2>1. phase # "idle"
      <3>1. backlog # <<>>
        BY EmptySeq
      <3> QED
        BY <3>1 DEF CrawlInv, Place
    <2> QED
      BY <1>4, <2>1 DEF CrawlInv, Place, Crawls
  <1>15. InHand'
    <2> SUFFICES ASSUME writer = "live", step # "off"
                 PROVE  Vouches(config, d, st, All)
      BY <1>3, <1>4, <1>5, <1>6 DEF InHand
    <2>1. IndexBehind(config, st, All) /\ PagesBehind(config, ids, st, All)
      BY DEF CrawlInv, InHand, Vouches
    <2>2. PICK A : A = All
      OBVIOUS
    <2>3. PICK x : x = st
      OBVIOUS
    <2>4. x \in StatesOf(config) /\ PagesBehind(config, ids, x, A)
      BY <2>1, <2>2, <2>3 DEF CrawlInv, TypeOK
    <2>5. PagesBehind(config, d, x, A)
      BY <1>6, <2>4, PagesBehindStay DEF CrawlInv
    <2> QED
      BY <2>1, <2>2, <2>3, <2>5 DEF Vouches
  <1>16. Scanned'
    <2>1. Batch' = Batch
      BY <1>4 DEF Batch
    <2> QED
      BY <1>4, <1>5, <2>1 DEF CrawlInv, Scanned
  <1>17. NoGap'
    <2> SUFFICES ASSUME step \in Fetching, NEW t \in targets
                 PROVE  /\ t \in Numbers(d)
                        /\ \A i \in Numbers(d) : st.page < i /\ i < t => i \in targets \cup paged'
      BY <1>3, <1>4, <1>6 DEF NoGap
    <2>1. /\ t \in Numbers(ids)
          /\ \A i \in Numbers(ids) : st.page < i /\ i < t => i \in targets \cup paged
      BY DEF CrawlInv, NoGap
    <2>2. ASSUME NEW i \in Numbers(d), i < t
          PROVE  i \in Numbers(ids)
      <3> SUFFICES ASSUME i \notin Numbers(ids)
                   PROVE  FALSE
        OBVIOUS
      <3>1. i \in Nat /\ t \in Nat
        <4>1. Numbers(d) \subseteq Ids
          BY <1>9 DEF Numbers
        <4>2. Ids \subseteq Nat
          BY Numerals DEF Ids
        <4> QED
          BY <1>8, <2>1, <4>1, <4>2
      <3>2. PICK c : c = Cardinality(DOMAIN ids)
        OBVIOUS
      <3>3. i > c /\ t <= c /\ c \in Nat
        BY <1>8, <2>1, <3>2
      <3> QED
        BY <2>2, <3>1, <3>3
    <2> QED
      BY <1>3, <1>8, <2>1, <2>2
  <1>18. Asked'
    <2>1. Done' = Done
      BY <1>4 DEF Done
    <2> QED
      BY <1>4, <1>5, <2>1 DEF CrawlInv, Asked
  <1> QED
    BY <1>5, <1>11, <1>12, <1>13, <1>14, <1>15, <1>16, <1>17, <1>18 DEF CrawlInv
-----------------------------------------------------------------------------
(* The run around it, and the environment. *)

LEMMA CrawlInit == Init => CrawlInv
  <1> SUFFICES ASSUME Init
               PROVE  CrawlInv
    OBVIOUS
  <1>1. /\ backlog = <<>> /\ rows = {} /\ saved = NoState
        /\ phase = "idle" /\ ctx = "live" /\ writer = "live" /\ emitted = 0
    BY DEF Init, Queue!SinkInit, Queue!Init
  <1>2. /\ config \in Configs /\ newest = 1 /\ stops = 0 /\ step = "off" /\ left = <<>>
        /\ st = Start /\ ids = <<>>
        /\ done = 0 /\ skip = 0 /\ lines = 0 /\ batch = <<>> /\ flushed = 0
        /\ paged = {} /\ targets = {} /\ taken = {} /\ pool = NoPool
        /\ results = {} /\ failures = {}
    BY DEF Init, IndexInit, PagesInit
  <1>3. /\ config.lastCrawl \in Nat \ {0} /\ config.lastLine \in Nat /\ config.batchCap \in Nat
        /\ config.maxShards \in Nat /\ config.maxStops \in Nat /\ LastId(config) \in Nat
    BY <1>2, ConfigIs
  <1>4. Queue!SinkType
    BY <1>1 DEF Queue!SinkType, Queue!TypeOK
  <1>5. pool \in [Workers -> 0..Done]
    BY <1>2, <1>3 DEF NoPool, Done
  <1>6. DOMAIN ids = {}
    BY <1>2
  <1>7. Start \in StatesOf(config) /\ 1 \in Crawls
    BY <1>2, <1>3, SetsOf DEF Crawls
  <1>8. /\ <<>> \in Seq(IndexRows) /\ Len(<<>>) = 0 /\ <<>> \in Seq({"index", "pages"})
        /\ stops \in 0..config.maxStops /\ done \in 0..config.maxShards
        /\ 0 \in 0..config.lastLine /\ 0 <= config.batchCap
    BY <1>2, <1>3
  <1>9. TypeOK
    BY <1>2, <1>4, <1>5, <1>6, <1>7, <1>8 DEF TypeOK
  <1>10. Numbering /\ OnePerDocument(config, ids, paged, rows)
    BY <1>1, <1>2, <1>6 DEF Numbering, OnePerDocument
  <1>11. Place
    BY <1>1, <1>2 DEF Place, InIndex, InPages, InShard, Reading, Fetching
  <1>12. InHand /\ Scanned /\ NoGap /\ Asked
    BY <1>2 DEF InHand, Scanned, NoGap, Asked, Reading, Fetching
  <1>13. Durable
    <2>1. \A k \in 0..Len(<<>>) : Log!Reach({}, <<>>, k) = {}
      BY Log!ReachZero, EmptySeq
    <2>2. {} \in Whole(config, ids)
      BY DEF Whole
    <2>3. 1..Len(<<>>) = {}
      OBVIOUS
    <2> QED
      BY <1>1, <2>1, <2>2, <2>3 DEF Durable, Log!Sound
  <1> QED
    BY <1>9, <1>10, <1>11, <1>12, <1>13 DEF CrawlInv

LEMMA SavedIsCovered ==
  ASSUME CrawlInv, saved # NoState
  PROVE  saved \in StatesOf(config) /\ Vouches(config, ids, saved, rows)
  BY DEF CrawlInv, Durable, Log!Sound, Covered

LEMMA StartIsCovered ==
  ASSUME CrawlInv, NEW R
  PROVE  Start \in StatesOf(config) /\ Vouches(config, ids, Start, R)
  <1>1. Start \in StatesOf(config)
    BY SetsOf, ConfigKnown
  <1>2. IndexBehind(config, Start, R)
    <2>1. \A s \in 0..(config.shardCount - 1) : ~(s < 0)
      BY Numerals
    <2> QED
      BY <2>1, UpTos DEF IndexBehind, Start
  <1>3. PagesBehind(config, ids, Start, R)
    <2>1. \A i \in Numbers(ids) : ~(i <= 0)
      BY PageNumbers DEF Ids
    <2> QED
      BY <2>1, PageNumbers DEF PagesBehind, Start
  <1> QED
    BY <1>1, <1>2, <1>3 DEF Vouches

LEMMA StartStep ==
  ASSUME CrawlInv, NEW resume \in BOOLEAN, StartRun(resume)
  PROVE  CrawlInv'
  <1>1. /\ phase = "idle" /\ phase' = "collecting" /\ ctx' = "live" /\ writer' = "live"
        /\ emitted' = 0 /\ UNCHANGED <<backlog, rows, saved>>
    BY DEF StartRun, Queue!StartRun, Queue!vars
  <1>2. /\ step' = "resolve" /\ left' = config.datasets
        /\ st' = IF resume /\ saved # NoState THEN saved ELSE Start
        /\ UNCHANGED stops \/ Trouble
        /\ UNCHANGED <<config, ids, newest>>
        /\ UNCHANGED <<done, skip, lines, batch, flushed>> /\ UNCHANGED pagesVars
    BY DEF StartRun, indexVars, scanVars
  <1>3. Durable' /\ All' = All /\ All = rows
    BY <1>1, <1>2, Still, Settled DEF CrawlInv, Place
  <1>4. Queue!SinkType'
    BY <1>1 DEF CrawlInv, TypeOK, Queue!SinkType, Queue!TypeOK
  <1>5. st' \in StatesOf(config) /\ Vouches(config, ids, st', rows)
    BY <1>2, SavedIsCovered, StartIsCovered
  <1>6. stops' \in 0..config.maxStops /\ left' \in Seq({"index", "pages"})
    BY <1>2, Stops, Numerals DEF CrawlInv, TypeOK
  <1>7. TypeOK'
    BY <1>2, <1>4, <1>5, <1>6, IndexTypes DEF CrawlInv, TypeOK, Steps
  <1>8. Place'
    BY <1>1, <1>2 DEF Place, InIndex, InPages, InShard, Reading, Fetching
  <1>9. InHand'
    BY <1>2, <1>3, <1>5 DEF InHand
  <1>10. Scanned'
    BY <1>2 DEF Scanned, Reading
  <1> QED
    BY <1>1, <1>2, <1>3, <1>7, <1>8, <1>9, <1>10, Outside DEF Fetching, pagesVars

(* The list of crawls may always be emitted. *)
LEMMA ListIsPlain ==
  ASSUME CrawlInv, NEW recs, recs = CrawlList
  PROVE  /\ recs \in Seq(RecordsOf(config))
         /\ \A err : Log!Leaves(Whole(config, ids), recs, err)
  <1>1. PICK n : n = config.listed
    OBVIOUS
  <1>2. n \in Nat /\ recs = [i \in 1..n |-> <<0, 0, i>>]
    BY <1>1, Numerals DEF CrawlList
  <1>3. recs \in [1..n -> RecordsOf(config)]
    <2>1. \A i \in 1..n : <<0, 0, i>> \in RecordsOf(config)
      BY <1>1 DEF RecordsOf
    <2> QED
      BY <1>2, <2>1
  <1>4. recs \in Seq(RecordsOf(config)) /\ Len(recs) = n
    BY <1>2, <1>3, SeqDef
  <1>5. ASSUME NEW k \in 0..Len(recs)
        PROVE  All \cup {recs[i] : i \in 1..k} \in Whole(config, ids)
    <2>1. PICK S : S = {recs[i] : i \in 1..k}
      OBVIOUS
    <2>2. \A i \in 1..k : i \in 1..n
      BY <1>2, <1>4
    <2>3. S \in SUBSET RecordsOf(config) /\ \A x \in S : \E i : x = <<0, 0, i>>
      BY <1>2, <1>3, <2>1, <2>2
    <2>4. \A m \in 1..config.lastCrawl, s \in 0..(config.shardCount - 1) : ShardRow(m, s) \notin S
      <3> SUFFICES ASSUME NEW m \in 1..config.lastCrawl, NEW s, NEW i, <<m, s, 0>> = <<0, 0, i>>
                   PROVE  FALSE
        BY <2>3 DEF ShardRow
      <3> QED
        OBVIOUS
    <2>5. \A i \in 1..LastId(config) : Page(i) \notin S
      BY <2>3, Kinds
    <2>6. All \in Whole(config, ids)
      BY AllWhole
    <2>7. All \cup S \in Whole(config, ids)
      BY <2>3, <2>4, <2>5, <2>6, PlainRecords
    <2> QED
      BY <2>1, <2>7
  <1> QED
    BY <1>4, <1>5 DEF Log!Leaves, All

(* What Switched does with the state. *)
LEMMA SwitchedIsCovered ==
  ASSUME CrawlInv, step # "off", NEW x, x = Switched(newest), NEW R, All \subseteq R
  PROVE  /\ x \in StatesOf(config) /\ x.crawl \in Crawls
         /\ writer = "live" => Vouches(config, ids, x, R)
  <1>1. /\ newest \in 1..config.lastCrawl /\ st \in StatesOf(config)
        /\ config.lastCrawl \in Nat /\ config.lastLine \in Nat /\ config.shardCount \in Nat
    BY Numerals DEF CrawlInv, TypeOK, Crawls
  <1>2. writer = "live" => Vouches(config, ids, st, R)
    <2>1. writer = "live" => Vouches(config, ids, st, All)
      BY DEF CrawlInv, InHand
    <2> QED
      BY <2>1, VouchesGrows
  <1>3. CASE st.crawl = newest
    BY <1>1, <1>2, <1>3 DEF Switched, Crawls
  <1>4. CASE st.crawl # newest
    <2>1. x = [crawl |-> newest, shard |-> 0, line |-> 0, page |-> st.page]
      BY <1>4 DEF Switched
    <2>2. x.crawl = newest /\ x.shard = 0 /\ x.line = 0 /\ x.page = st.page
      BY <2>1
    <2>3. x \in StatesOf(config)
      BY <1>1, <2>1 DEF StatesOf
    <2>4. IndexBehind(config, x, R)
      <3>1. \A s \in 0..(config.shardCount - 1) : ~(s < 0)
        BY <1>1
      <3> QED
        BY <2>2, <3>1, UpTos DEF IndexBehind
    <2>5. writer = "live" => PagesBehind(config, ids, x, R)
      BY <1>2, <2>2 DEF Vouches, PagesBehind
    <2> QED
      BY <1>1, <2>2, <2>3, <2>4, <2>5 DEF Vouches, Crawls
  <1> QED
    BY <1>3, <1>4

LEMMA ResolveStep ==
  ASSUME CrawlInv, Resolve
  PROVE  CrawlInv'
  <1>1. PICK recs : recs = CrawlList
    OBVIOUS
  <1>2. PICK err \in Queue!Errors :
           /\ Queue!Emit(recs, err)
           /\ IF err = "nil" THEN st' = Switched(newest) /\ step' = "dataset"
                             ELSE step' = "return" /\ UNCHANGED st
    BY <1>1 DEF Resolve
  <1>3. /\ step = "resolve" /\ UNCHANGED <<config, ids, stops, left, newest>>
        /\ UNCHANGED <<done, skip, lines, batch, flushed>> /\ UNCHANGED pagesVars
    BY DEF Resolve, sharedVars, indexVars, scanVars
  <1>4. /\ recs \in Seq(RecordsOf(config))
        /\ Log!Leaves(Whole(config, ids), recs, err)
    BY <1>1, ListIsPlain
  <1>5. /\ Queue!SinkType' /\ UNCHANGED <<rows, saved, phase, ctx, writer>>
        /\ Durable' /\ All \subseteq All'
    BY <1>2, <1>3, <1>4, Emitting
  <1>6. PICK x : x = Switched(newest)
    OBVIOUS
  <1>7. /\ x \in StatesOf(config) /\ x.crawl \in Crawls
        /\ writer = "live" => Vouches(config, ids, x, All')
    <2>1. PICK R : R = All'
      OBVIOUS
    <2> QED
      BY <1>3, <1>5, <1>6, <2>1, SwitchedIsCovered
  <1>8. /\ step' \in {"dataset", "return"} /\ st' \in StatesOf(config)
        /\ step' = "dataset" => st' = x
    BY <1>2, <1>6, <1>7 DEF CrawlInv, TypeOK
  <1>9. InHand'
    <2>1. CASE err = "nil"
      BY <1>2, <1>3, <1>5, <1>6, <1>7, <2>1 DEF InHand
    <2>2. CASE err # "nil"
      BY <1>2, <1>3, <1>5, <2>2, StillInHand
    <2> QED
      BY <2>1, <2>2
  <1>10. TypeOK'
    BY <1>3, <1>5, <1>8, IndexTypes DEF CrawlInv, TypeOK, Steps
  <1>11. Place'
    BY <1>3, <1>5, <1>7, <1>8
       DEF CrawlInv, Place, Crawls, InIndex, InPages, InShard, Reading, Fetching
  <1>12. Scanned'
    BY <1>8 DEF Scanned, Reading
  <1> QED
    BY <1>3, <1>5, <1>8, <1>9, <1>10, <1>11, <1>12, Outside DEF Fetching, pagesVars
(* Collect goes on to its next dataset, or to its end. *)
LEMMA DatasetSteps ==
  ASSUME CrawlInv, ResolveFails \/ NextDataset \/ DatasetsEnd
  PROVE  CrawlInv'
  <1>1. /\ step \in {"resolve", "dataset"} /\ step' \in {"return", "loop", "query"}
        /\ step' \in {"loop", "query"} => step = "dataset" /\ left # <<>>
        /\ UNCHANGED <<sinkVars, config, ids, left, st, newest>>
        /\ UNCHANGED <<skip, lines, batch, flushed>> /\ UNCHANGED <<paged, pool>>
        /\ UNCHANGED stops \/ Trouble
        /\ done' = done \/ done' = 0
        /\ \/ UNCHANGED <<targets, taken, results, failures>> /\ step' # "query"
           \/ targets' = {} /\ taken' = {} /\ results' = {} /\ failures' = {}
    BY DEF ResolveFails, NextDataset, DatasetsEnd, BeginIndex, BeginPages, Goto, Fault,
           sharedVars, indexVars, scanVars, pagesVars, poolVars
  <1>2. /\ Queue!SinkType' /\ Durable' /\ All' = All
        /\ UNCHANGED <<backlog, rows, saved, phase, ctx, writer, emitted>>
    BY <1>1, Quiet
  <1>3. stops' \in 0..config.maxStops /\ done' \in 0..config.maxShards
    BY <1>1, Stops, Numerals DEF CrawlInv, TypeOK
  <1>4. TypeOK'
    <2>1. Done' = Done /\ Ids' = Ids /\ IndexRows' = IndexRows /\ Crawls' = Crawls
      BY <1>1 DEF Done, Ids, IndexRows, Crawls
    <2> QED
      BY <1>1, <1>2, <1>3, <2>1 DEF CrawlInv, TypeOK
  <1>5. Place'
    BY <1>1, <1>2 DEF CrawlInv, Place, Crawls, InIndex, InPages, InShard, Reading, Fetching
  <1>6. InHand'
    BY <1>1, <1>2, StillInHand
  <1>7. Scanned'
    BY <1>1 DEF Scanned, Reading
  <1> QED
    BY <1>1, <1>2, <1>4, <1>5, <1>6, <1>7, Outside DEF Fetching

(* Collect or the process is over. *)
LEMMA OverSteps ==
  ASSUME CrawlInv, Return \/ Crash
  PROVE  CrawlInv'
  <1>1. /\ step' = "off" /\ left' = <<>>
        /\ UNCHANGED <<config, ids, st, newest, rows, paged>>
        /\ UNCHANGED <<done, skip, lines, batch, flushed>>
        /\ UNCHANGED <<targets, taken, results, failures>>
        /\ pool' = pool \/ pool' = NoPool
        /\ UNCHANGED stops \/ Trouble
    BY DEF Return, Crash, Queue!CollectReturns, Queue!Crash, Queue!Lose, Queue!vars, sharedVars,
           indexVars, scanVars, pagesVars, poolVars
  <1>2. Queue!SinkType' /\ Durable' /\ phase' # "collecting" /\ (phase' = "idle" => backlog' = <<>>)
    <2>1. CASE Return
      <3>1. phase' = "closing" /\ UNCHANGED <<backlog, rows, saved, ctx, writer, emitted>>
        BY <2>1 DEF Return, Queue!CollectReturns, Queue!vars
      <3> QED
        BY <1>1, <3>1, Still DEF CrawlInv, TypeOK, Queue!SinkType, Queue!TypeOK
    <2>2. CASE Crash
      <3>1. Queue!Lose /\ phase' = "idle" /\ UNCHANGED <<ctx, writer, emitted>>
        BY <2>2 DEF Crash, Queue!Crash
      <3>2. Queue!TypeOK' /\ backlog' = <<>> /\ Durable'
        BY <1>1, <3>1, Losing
      <3> QED
        BY <3>1, <3>2 DEF CrawlInv, TypeOK, Queue!SinkType
    <2> QED
      BY <2>1, <2>2
  <1>3. stops' \in 0..config.maxStops
    BY <1>1, Stops DEF CrawlInv, TypeOK
  <1>4. TypeOK'
    <2>1. Done' = Done /\ Ids' = Ids /\ IndexRows' = IndexRows /\ Crawls' = Crawls
      BY <1>1 DEF Done, Ids, IndexRows, Crawls
    <2>2. pool' \in [Workers -> 0..Done]
      BY <1>1, PageNumbers DEF NoPool, CrawlInv, TypeOK
    <2>3. <<>> \in Seq({"index", "pages"})
      OBVIOUS
    <2> QED
      BY <1>1, <1>2, <1>3, <2>1, <2>2, <2>3 DEF CrawlInv, TypeOK
  <1>5. Place'
    BY <1>1, <1>2 DEF Place, InIndex, InPages, InShard, Reading, Fetching
  <1>6. InHand' /\ Scanned'
    BY <1>1 DEF InHand, Scanned, Reading
  <1> QED
    BY <1>1, <1>2, <1>4, <1>5, <1>6, Outside DEF Fetching

LEMMA WriteFailsStep ==
  ASSUME CrawlInv, WriteFails
  PROVE  CrawlInv'
  <1>1. /\ Queue!Lose /\ writer' = "dead" /\ UNCHANGED <<phase, ctx, emitted>>
        /\ UNCHANGED <<config, ids, step, left, st, newest>> /\ Trouble
        /\ UNCHANGED <<done, skip, lines, batch, flushed>>
        /\ UNCHANGED <<paged, targets, taken, pool, results, failures>>
    BY DEF WriteFails, Queue!WriteFails, adapterVars, indexVars, scanVars, pagesVars, poolVars
  <1>2. Queue!TypeOK' /\ Durable' /\ backlog' = <<>> /\ UNCHANGED <<rows, saved>>
    BY <1>1, Losing
  <1>3. Queue!SinkType'
    BY <1>1, <1>2 DEF CrawlInv, TypeOK, Queue!SinkType
  <1>4. stops' \in 0..config.maxStops
    BY <1>1, Stops
  <1>5. /\ Done' = Done /\ Ids' = Ids /\ IndexRows' = IndexRows /\ Crawls' = Crawls
    BY <1>1 DEF Done, Ids, IndexRows, Crawls
  <1>6. TypeOK'
    BY <1>1, <1>3, <1>4, <1>5 DEF CrawlInv, TypeOK
  <1>7. Numbering' /\ OnePerDocument(config', ids', paged', rows')
    BY <1>1, <1>2 DEF CrawlInv, Numbering
  <1>8. Place'
    BY <1>1, <1>2, <1>5 DEF CrawlInv, Place
  <1>9. InHand' /\ Scanned'
    BY <1>1 DEF InHand, Scanned
  <1>10. NoGap' /\ Asked'
    BY <1>1, <1>5 DEF CrawlInv, NoGap, Asked
  <1> QED
    BY <1>2, <1>6, <1>7, <1>8, <1>9, <1>10 DEF CrawlInv

(* Steps that leave the adapter where it is. *)
LEMMA QuietSteps ==
  ASSUME CrawlInv, EndRun \/ Interrupt \/ NewCrawl \/ UNCHANGED vars
  PROVE  CrawlInv'
  <1>1. /\ UNCHANGED <<backlog, rows, saved, writer, emitted>>
        /\ UNCHANGED <<config, ids, step, left, st>>
        /\ UNCHANGED <<done, skip, lines, batch, flushed>>
        /\ UNCHANGED <<paged, targets, taken, pool, results, failures>>
        /\ ctx' = ctx \/ ctx' = "cancelled"
        /\ phase' = phase \/ (phase = "closing" /\ phase' = "idle" /\ backlog = <<>>)
        /\ newest' = newest \/ (newest < config.lastCrawl /\ newest' = newest + 1)
        /\ UNCHANGED stops \/ Trouble
    BY DEF EndRun, Queue!EndRun, Interrupt, Queue!Interrupt, Queue!vars, NewCrawl, vars,
           sinkVars, sharedVars, adapterVars, indexVars, scanVars, pagesVars, poolVars
  <1>2. Durable' /\ All' = All
    BY <1>1, Still
  <1>3. Queue!SinkType'
    BY <1>1 DEF CrawlInv, TypeOK, Queue!SinkType, Queue!TypeOK
  <1>4. stops' \in 0..config.maxStops
    BY <1>1, Stops DEF CrawlInv, TypeOK
  <1>5. /\ Done' = Done /\ Ids' = Ids /\ IndexRows' = IndexRows /\ Crawls' = Crawls
        /\ Batch' = Batch
    BY <1>1 DEF Done, Ids, IndexRows, Crawls, Batch
  <1>6. newest' \in Crawls
    BY <1>1, Numerals DEF CrawlInv, TypeOK, Crawls
  <1>7. TypeOK'
    BY <1>1, <1>3, <1>4, <1>5, <1>6 DEF CrawlInv, TypeOK
  <1>8. Numbering' /\ OnePerDocument(config', ids', paged', rows')
    BY <1>1 DEF CrawlInv, Numbering
  <1>9. Place'
    BY <1>1, <1>5 DEF CrawlInv, Place
  <1>10. InHand' /\ Scanned'
    BY <1>1, <1>2, <1>5 DEF CrawlInv, InHand, Scanned
  <1>11. NoGap' /\ Asked'
    BY <1>1, <1>2, <1>5 DEF CrawlInv, NoGap, Asked
  <1> QED
    BY <1>2, <1>7, <1>8, <1>9, <1>10, <1>11 DEF CrawlInv

LEMMA CrawlStep == CrawlInv /\ [Next]_vars => CrawlInv'
  <1> SUFFICES ASSUME CrawlInv, [Next]_vars
               PROVE  CrawlInv'
    OBVIOUS
  <1>1. ASSUME NEW resume \in BOOLEAN, StartRun(resume)
        PROVE  CrawlInv'
    BY <1>1, StartStep
  <1>2. CASE CollectStep
    BY <1>2, ResolveStep, DatasetSteps, OverSteps, IndexSteps, PagesSteps DEF CollectStep
  <1> QED
    BY <1>1, <1>2, WriteStep, OverSteps, WriteFailsStep, QuietSteps DEF Next

LEMMA CrawlInvariant == Spec => []CrawlInv
  BY CrawlInit, CrawlStep, PTL DEF Spec

-----------------------------------------------------------------------------
(* What follows. *)

(* Every variable of the adapter holds a value of its type: positions stay  *)
(* within the shards and lines of a crawl, ids within the rows, and no      *)
(* batch is longer than its capacity.                                       *)
THEOREM TypeCorrect == Spec => []TypeOK
  <1>1. CrawlInv => TypeOK
    BY DEF CrawlInv
  <1> QED
    BY CrawlInvariant, <1>1, PTL

LEMMA WantedIs ==
  ASSUME NEW n, NEW s, NEW l, NEW R, UpTo(config, n, s, l, R),
         NEW r \in Wanted(n, s), r[3] <= l
  PROVE  r \in R
  <1>1. PICK k \in 1..config.lastLine : Due(config, n, s, k) /\ r = <<n, s, k>>
    BY DEF Wanted, Due
  <1>2. r[3] = k
    BY <1>1
  <1> QED
    BY <1>1, <1>2 DEF UpTo

LEMMA AllWanted ==
  ASSUME NEW n, NEW s, NEW R, UpTo(config, n, s, config.lastLine, R)
  PROVE  Wanted(n, s) \subseteq R
  <1> SUFFICES ASSUME NEW r \in Wanted(n, s)
               PROVE  r \in R
    OBVIOUS
  <1>1. PICK k \in 1..config.lastLine : Due(config, n, s, k) /\ r = <<n, s, k>>
    BY DEF Wanted, Due
  <1>2. k <= config.lastLine
    OBVIOUS
  <1> QED
    BY <1>1, <1>2 DEF UpTo

(* Resuming leaves no hole but for lines that a broken stream has cut: the  *)
(* other lines behind the saved position and the pages behind the saved     *)
(* cursor are in the database, whichever batches were truncated, refused or *)
(* lost, in whatever order the pages were fetched, and whichever dataset    *)
(* saved the state.  The lines that may be cut are any set, so a row that   *)
(* is missing behind the position is one whose own line was cut.            *)
THEOREM PositionsAreSafe == Spec => []CursorsCovered
  <1>1. CrawlInv => CursorsCovered
    <2> SUFFICES ASSUME CrawlInv, saved # NoState
                 PROVE  /\ \A s \in Shard : s < saved.shard => Wanted(saved.crawl, s) \subseteq rows
                        /\ \A r \in Wanted(saved.crawl, saved.shard) : r[3] <= saved.line => r \in rows
                        /\ \A i \in Considered : i <= saved.page => Held(i)
      BY DEF CursorsCovered
    <2>1. IndexBehind(config, saved, rows) /\ PagesBehind(config, ids, saved, rows)
      BY SavedIsCovered DEF Vouches
    <2>2. \A s \in Shard : s < saved.shard => Wanted(saved.crawl, s) \subseteq rows
      BY <2>1, AllWanted DEF IndexBehind, Shard
    <2>3. \A r \in Wanted(saved.crawl, saved.shard) : r[3] <= saved.line => r \in rows
      BY <2>1, WantedIs DEF IndexBehind
    <2>4. ASSUME NEW i \in Considered, i <= saved.page
          PROVE  Held(i)
      <3>1. PICK j \in Numbers(ids) : Page(j) \in rows /\ Doc(config, ids, j) = Doc(config, ids, i)
        BY <2>1, <2>4, SameNumbers DEF PagesBehind
      <3>2. j \in 1..LastId(config)
        BY PageNumbers DEF Ids
      <3>3. PICK k \in paged : Doc(config, ids, k) = Doc(config, ids, j)
        BY <3>1, <3>2 DEF CrawlInv, OnePerDocument
      <3> QED
        BY <3>1, <3>3, SameNumbers DEF Held
    <2> QED
      BY <2>2, <2>3, <2>4
  <1> QED
    BY CrawlInvariant, <1>1, PTL

(* A shard has its row only when all its lines are in the database that no  *)
(* broken stream has cut.                                                   *)
THEOREM ShardRowsVouch == Spec => []ShardRowMeansWhole
  <1>1. CrawlInv => ShardRowMeansWhole
    <2> SUFFICES ASSUME CrawlInv, NEW c \in Crawls, NEW s \in Shard, ShardRow(c, s) \in rows
                 PROVE  Wanted(c, s) \subseteq rows
      BY DEF ShardRowMeansWhole
    <2>1. UpTo(config, c, s, config.lastLine, rows)
      BY AllWhole DEF Whole, Crawls, Shard
    <2> QED
      BY <2>1, AllWanted
  <1> QED
    BY CrawlInvariant, <1>1, PTL
=============================================================================
