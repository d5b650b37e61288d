------------------------------ MODULE SinkLemmas ------------------------------
(***************************************************************************)
(* Lemmas about Sink.tla, for the proofs about the adapters.  The backlog  *)
(* is a log of messages [recs, state] that the database has not taken in   *)
(* yet.  What an adapter promises of the database has to hold after every  *)
(* prefix of the log, since a crash may leave any of them; these lemmas    *)
(* say what keeps it so, first for any log, then for the steps of Sink.    *)
(***************************************************************************)
EXTENDS Sink, TLAPS, SequenceTheorems, FiniteSetTheorems

(* The records in the database once the k oldest messages are committed.    *)
Reach(R, log, k) == R \cup UNION {log[i].recs : i \in 1..k}

(* What is left of the log then. *)
After(log, n) == SubSeq(log, n + 1, Len(log))

(* All that has been accepted, durable or not. *)
Accepted(R, log) == Reach(R, log, Len(log))

(* Whatever prefix is committed, the records form a set of Good, and the    *)
(* saved state covers them: Covers is a set of pairs <<state, records>>,    *)
(* none stands for no state.                                                *)
Sound(Good, Covers, none, R, log, old) ==
    /\ \A k \in 0..Len(log) : Reach(R, log, k) \in Good
    /\ \A k \in 1..Len(log) :
          log[k].state # none => <<log[k].state, Reach(R, log, k)>> \in Covers
    /\ old # none => <<old, R>> \in Covers

(* st is the state of one of the n oldest messages, or the one before them. *)
Found(log, n, old, st) == st = old \/ \E i \in 1..n : st = log[i].state

(* A state that covers some records covers more of them. *)
Monotone(Good, Covers) ==
    \A x, A, B : <<x, A>> \in Covers /\ A \subseteq B /\ B \in Good => <<x, B>> \in Covers

-----------------------------------------------------------------------------
(* Committing nothing changes nothing. *)
LEMMA ReachZero == \A R, log : Reach(R, log, 0) = R
  BY DEF Reach

(* A longer prefix has no fewer records. *)
LEMMA ReachGrows ==
  ASSUME NEW R, NEW log, NEW j \in Nat, NEW k \in Nat, j <= k
  PROVE  Reach(R, log, j) \subseteq Reach(R, log, k)
  <1>1. 1..j \subseteq 1..k
    OBVIOUS
  <1> QED
    BY <1>1 DEF Reach

(* Nor has all that was accepted. *)
LEMMA AcceptedIsMost ==
  ASSUME NEW M, NEW R, NEW log \in Seq(M)
  PROVE  /\ R \subseteq Accepted(R, log)
         /\ \A k \in 0..Len(log) : Reach(R, log, k) \subseteq Accepted(R, log)
  <1>1. Len(log) \in Nat
    BY LenProperties
  <1>2. R \subseteq Accepted(R, log)
    BY DEF Reach, Accepted
  <1>3. ASSUME NEW k \in 0..Len(log)
        PROVE  Reach(R, log, k) \subseteq Accepted(R, log)
    BY <1>1, ReachGrows DEF Accepted
  <1> QED
    BY <1>2, <1>3

(* An empty log. *)
LEMMA AcceptedNone == \A R : Accepted(R, <<>>) = R
  BY ReachZero, EmptySeq DEF Accepted

(* Accepting a message adds a prefix and leaves the others as they are. *)
LEMMA ReachAppend ==
  ASSUME NEW M, NEW R, NEW log \in Seq(M), NEW m \in M
  PROVE  /\ \A k \in 0..Len(log) : Reach(R, Append(log, m), k) = Reach(R, log, k)
         /\ Accepted(R, Append(log, m)) = Accepted(R, log) \cup m.recs
  <1> DEFINE n == Len(log)
  <1>1. n \in Nat /\ Len(Append(log, m)) = n + 1
    BY LenProperties, AppendProperties
  <1>2. \A i \in 1..n : Append(log, m)[i] = log[i]
    BY AppendProperties
  <1>3. Append(log, m)[n + 1] = m
    BY AppendProperties
  <1>4. ASSUME NEW k \in 0..n
        PROVE  Reach(R, Append(log, m), k) = Reach(R, log, k)
    <2>1. \A i \in 1..k : Append(log, m)[i].recs = log[i].recs
      BY <1>1, <1>2
    <2> HIDE DEF n
    <2> QED
      BY <2>1 DEF Reach
  <1>5. Reach(R, Append(log, m), n + 1) = Reach(R, log, n) \cup m.recs
    <2>1. 1..(n + 1) = (1..n) \cup {n + 1}
      BY <1>1
    <2>2. \A i \in 1..n : Append(log, m)[i].recs = log[i].recs
      BY <1>2
    <2> HIDE DEF n
    <2> QED
      BY <1>3, <2>1, <2>2 DEF Reach
  <1> QED
    BY <1>1, <1>4, <1>5 DEF Accepted

(* What is left of a log once its n oldest messages are committed. *)
LEMMA AfterIs ==
  ASSUME NEW M, NEW log \in Seq(M), NEW n \in 1..Len(log)
  PROVE  /\ After(log, n) \in Seq(M)
         /\ Len(After(log, n)) = Len(log) - n
         /\ \A k \in 1..(Len(log) - n) : After(log, n)[k] = log[n + k]
  <1> DEFINE L == Len(log)
  <1>1. L \in Nat /\ n \in Nat /\ n <= L
    BY LenProperties
  <1>2. \A i \in (n + 1)..L : log[i] \in M
    BY <1>1, ElementOfSeq
  <1>3. /\ SubSeq(log, n + 1, L) \in Seq(M)
        /\ Len(SubSeq(log, n + 1, L)) = IF n + 1 <= L THEN L - (n + 1) + 1 ELSE 0
        /\ \A i \in 1..(L - (n + 1) + 1) : SubSeq(log, n + 1, L)[i] = log[(n + 1) + i - 1]
    <2> HIDE DEF L
    <2> QED
      BY <1>1, <1>2, SubSeqProperties
  <1>4. Len(SubSeq(log, n + 1, L)) = L - n
    BY <1>1, <1>3
  <1>5. \A k \in 1..(L - n) : SubSeq(log, n + 1, L)[k] = log[n + k]
    BY <1>1, <1>3
  <1> QED
    BY <1>3, <1>4, <1>5 DEF After

(* Its prefixes reach what the longer ones of the whole log reach.          *)
LEMMA ReachCut ==
  ASSUME NEW M, NEW R, NEW log \in Seq(M), NEW n \in 1..Len(log)
  PROVE  \A k \in 0..(Len(log) - n) :
            Reach(Reach(R, log, n), After(log, n), k) = Reach(R, log, n + k)
  <1> DEFINE L == Len(log)
             rest == After(log, n)
  <1>1. L \in Nat /\ n \in Nat /\ n <= L
    BY LenProperties
  <1>2. Len(rest) = L - n /\ \A k \in 1..(L - n) : rest[k] = log[n + k]
    BY AfterIs
  <1> HIDE DEF rest, L
  <1>3. ASSUME NEW k \in 0..(L - n)
        PROVE  Reach(Reach(R, log, n), rest, k) = Reach(R, log, n + k)
    <2>1. 1..(n + k) = (1..n) \cup ((n + 1)..(n + k))
      BY <1>1
    <2>2. \A i \in (n + 1)..(n + k) : i - n \in 1..k /\ rest[i - n] = log[i]
      BY <1>1, <1>2
    <2>3. \A i \in 1..k : n + i \in (n + 1)..(n + k) /\ rest[i] = log[n + i]
      BY <1>1, <1>2
    <2>4. {rest[i].recs : i \in 1..k} \subseteq {log[i].recs : i \in (n + 1)..(n + k)}
      BY <2>3
    <2>5. {log[i].recs : i \in (n + 1)..(n + k)} \subseteq {rest[i].recs : i \in 1..k}
      BY <2>2
    <2>6. {log[i].recs : i \in 1..(n + k)}
            = {log[i].recs : i \in 1..n} \cup {rest[i].recs : i \in 1..k}
      BY <2>1, <2>4, <2>5
    <2>7. Reach(R, log, n + k) = R \cup UNION {log[i].recs : i \in 1..(n + k)}
      BY DEF Reach
    <2>8. Reach(R, log, n) = R \cup UNION {log[i].recs : i \in 1..n}
      BY DEF Reach
    <2>9. Reach(Reach(R, log, n), rest, k) = Reach(R, log, n) \cup UNION {rest[i].recs : i \in 1..k}
      BY DEF Reach
    <2> QED
      BY <2>6, <2>7, <2>8, <2>9
  <1> QED
    BY <1>3 DEF rest, L

(* In all, a commit adds nothing to what was accepted. *)
LEMMA AcceptedCut ==
  ASSUME NEW M, NEW R, NEW log \in Seq(M), NEW n \in 1..Len(log)
  PROVE  Accepted(Reach(R, log, n), After(log, n)) = Accepted(R, log)
  <1> DEFINE L == Len(log)
             rest == After(log, n)
  <1>1. L \in Nat /\ n \in Nat /\ n <= L
    BY LenProperties
  <1>2. Len(rest) = L - n
    BY AfterIs
  <1>3. \A k \in 0..(L - n) : Reach(Reach(R, log, n), rest, k) = Reach(R, log, n + k)
    BY ReachCut
  <1> HIDE DEF rest, L
  <1>4. L - n \in 0..(L - n) /\ n + (L - n) = L
    BY <1>1
  <1> QED
    BY <1>2, <1>3, <1>4 DEF Accepted, rest, L

-----------------------------------------------------------------------------
(* What keeps a log sound. *)

(* Accepting a message after which the records are good and its state, if   *)
(* it has one, covers them.                                                 *)
LEMMA SoundAppend ==
  ASSUME NEW Good, NEW Covers, NEW none, NEW M, NEW R, NEW log \in Seq(M), NEW old,
         NEW m \in M,
         Sound(Good, Covers, none, R, log, old),
         Accepted(R, log) \cup m.recs \in Good,
         m.state # none => <<m.state, Accepted(R, log) \cup m.recs>> \in Covers
  PROVE  Sound(Good, Covers, none, R, Append(log, m), old)
  <1> DEFINE s == Append(log, m)
             n == Len(log)
  <1>1. n \in Nat /\ Len(s) = n + 1
    BY LenProperties, AppendProperties
  <1>2. \A i \in 1..n : s[i] = log[i]
    BY AppendProperties
  <1>3. s[n + 1] = m
    BY AppendProperties
  <1>4. /\ \A k \in 0..n : Reach(R, s, k) = Reach(R, log, k)
        /\ Reach(R, s, n + 1) = Accepted(R, log) \cup m.recs
    BY <1>1, ReachAppend DEF Accepted
  <1> HIDE DEF s
  <1>5. \A k \in 0..Len(s) : Reach(R, s, k) \in Good
    <2> TAKE k \in 0..Len(s)
    <2>1. CASE k \in 0..n
      BY <1>4, <2>1 DEF Sound
    <2>2. CASE k = n + 1
      BY <1>4, <2>2
    <2> QED
      BY <1>1, <2>1, <2>2
  <1>6. \A k \in 1..Len(s) : s[k].state # none => <<s[k].state, Reach(R, s, k)>> \in Covers
    <2> SUFFICES ASSUME NEW k \in 1..Len(s), s[k].state # none
                 PROVE  <<s[k].state, Reach(R, s, k)>> \in Covers
      OBVIOUS
    <2>1. CASE k \in 1..n
      <3>1. s[k] = log[k] /\ Reach(R, s, k) = Reach(R, log, k)
        BY <1>1, <1>2, <1>4, <2>1
      <3> QED
        BY <2>1, <3>1 DEF Sound
    <2>2. CASE k = n + 1
      BY <1>3, <1>4, <2>2
    <2> QED
      BY <1>1, <2>1, <2>2
  <1> QED
    BY <1>5, <1>6 DEF Sound, s

(* Committing a prefix. *)
LEMMA SoundCut ==
  ASSUME NEW Good, NEW Covers, NEW none, NEW M, NEW R, NEW log \in Seq(M), NEW old,
         NEW n \in 1..Len(log), NEW st,
         Sound(Good, Covers, none, R, log, old),
         Monotone(Good, Covers),
         Found(log, n, old, st)
  PROVE  Sound(Good, Covers, none, Reach(R, log, n), After(log, n), st)
  <1> DEFINE now == Reach(R, log, n)
  <1> DEFINE rest == After(log, n)
  <1>1. Len(log) \in Nat /\ n \in Nat /\ n <= Len(log)
    BY LenProperties
  <1>2. /\ Len(rest) = Len(log) - n
        /\ \A k \in 1..(Len(log) - n) : rest[k] = log[n + k]
        /\ \A k \in 0..(Len(log) - n) : Reach(now, rest, k) = Reach(R, log, n + k)
    <2>1. Len(rest) = Len(log) - n /\ \A k \in 1..(Len(log) - n) : rest[k] = log[n + k]
      BY AfterIs
    <2>2. \A k \in 0..(Len(log) - n) : Reach(now, rest, k) = Reach(R, log, n + k)
      BY ReachCut
    <2> QED
      BY <2>1, <2>2
  <1>3. ASSUME st # none
        PROVE  <<st, now>> \in Covers
    <2>1. now \in Good
      BY <1>1 DEF Sound
    <2>2. CASE st = old
      <3>1. R \subseteq now
        BY DEF Reach
      <3>2. <<st, R>> \in Covers
        BY <1>3, <2>2 DEF Sound
      <3> HIDE DEF now
      <3> QED
        BY <2>1, <3>1, <3>2 DEF Monotone
    <2>3. ASSUME NEW i \in 1..n, st = log[i].state
          PROVE  <<st, now>> \in Covers
      <3>1. Reach(R, log, i) \subseteq now
        BY <1>1, ReachGrows
      <3>2. i \in 1..Len(log)
        BY <1>1
      <3>3. <<st, Reach(R, log, i)>> \in Covers
        BY <1>3, <2>3, <3>2 DEF Sound
      <3> HIDE DEF now
      <3> QED
        BY <2>1, <3>1, <3>3 DEF Monotone
    <2> QED
      BY <2>2, <2>3 DEF Found
  <1> HIDE DEF now, rest
  <1>4. \A k \in 0..Len(rest) : n + k \in 0..Len(log)
    BY <1>1, <1>2
  <1>5. \A k \in 1..Len(rest) : n + k \in 1..Len(log)
    BY <1>1, <1>2
  <1>6. \A k \in 0..Len(rest) : Reach(now, rest, k) \in Good
    BY <1>2, <1>4 DEF Sound
  <1>7. \A k \in 1..Len(rest) :
            rest[k].state # none => <<rest[k].state, Reach(now, rest, k)>> \in Covers
    <2> TAKE k \in 1..Len(rest)
    <2>1. rest[k] = log[n + k] /\ Reach(now, rest, k) = Reach(R, log, n + k)
      BY <1>1, <1>2
    <2> QED
      BY <1>5, <2>1 DEF Sound
  <1> QED
    BY <1>3, <1>6, <1>7 DEF Sound, now, rest

(* The loss of the log. *)
LEMMA SoundLost ==
  ASSUME NEW Good, NEW Covers, NEW none, NEW M, NEW R, NEW log \in Seq(M), NEW old,
         Sound(Good, Covers, none, R, log, old)
  PROVE  Sound(Good, Covers, none, R, <<>>, old)
  <1>1. Len(log) \in Nat
    BY LenProperties
  <1>2. R \in Good
    BY <1>1, ReachZero DEF Sound
  <1>3. \A k \in 0..Len(<<>>) : Reach(R, <<>>, k) = R
    BY ReachZero, EmptySeq
  <1>4. 1..Len(<<>>) = {}
    BY EmptySeq
  <1> QED
    BY <1>2, <1>3, <1>4 DEF Sound

(* Allowing more. *)
LEMMA SoundAllows ==
  ASSUME NEW Good, NEW Covers, NEW Better, NEW More, NEW none, NEW R, NEW log, NEW old,
         Sound(Good, Covers, none, R, log, old), Good \subseteq Better, Covers \subseteq More
  PROVE  Sound(Better, More, none, R, log, old)
  BY DEF Sound

-----------------------------------------------------------------------------
(* The steps of Sink. *)

(* What Emit does with a batch of records: nothing, or it hands over a      *)
(* first part of it, the whole only if it says so.                          *)
LEMMA EmitIs ==
  ASSUME NEW batch \in Seq(Record), NEW err, SinkType, MaxRecords \in Nat,
         Emit(batch, err)
  PROVE  /\ UNCHANGED <<rows, saved, phase, ctx, writer>> /\ emitted' \in Nat
         /\ \/ backlog' = backlog /\ (err = "nil" => writer = "dead" \/ batch = <<>>)
            \/ \E n \in 0..Len(batch) :
                  /\ backlog' = Append(backlog, [recs |-> {batch[i] : i \in 1..n},
                                                 state |-> NoState])
                  /\ err = "nil" <=> n = Len(batch)
                  /\ writer = "live"
  <1>1. Len(batch) \in Nat /\ DOMAIN batch = 1..Len(batch)
    BY LenProperties
  <1>2. emitted \in Nat /\ MaxRecords \in Nat
    BY DEF SinkType
  <1>3. /\ UNCHANGED <<phase, ctx, writer>> /\ emitted' \in Nat
        /\ UNCHANGED <<rows, saved>>
    BY <1>1, <1>2 DEF Emit, Deliver, Accept, vars
  <1>4. CASE ~Overdraws(Len(batch))
    <2>1. Kept(batch) = batch
      BY <1>4 DEF Kept
    <2>2. RecsIn(batch) = {batch[i] : i \in 1..Len(batch)}
      BY <1>1 DEF RecsIn
    <2>3. CASE err = "nil" /\ batch # <<>> /\ writer = "live"
      <3>1. Kept(batch) # <<>>
        BY <2>1, <2>3
      <3>2. ~Refused(err)
        BY <2>3 DEF Refused
      <3>3. backlog' = Append(backlog, [recs |-> RecsIn(batch), state |-> NoState])
        BY <2>1, <2>3, <3>1, <3>2 DEF Emit, Deliver, Accept
      <3>4. Len(batch) \in 0..Len(batch)
        BY <1>1
      <3> QED
        BY <1>3, <2>2, <2>3, <3>3, <3>4
    <2>4. CASE ~(err = "nil" /\ batch # <<>> /\ writer = "live")
      <3>1. backlog' = backlog /\ (err = "nil" => writer = "dead" \/ batch = <<>>)
        BY <1>4, <2>1, <2>4
           DEF Emit, Deliver, Accept, vars, Refused, SinkType
      <3> QED
        BY <1>3, <3>1
    <2> QED
      BY <2>3, <2>4
  <1>5. CASE Overdraws(Len(batch))
    <2>1. Room \in Nat /\ Room < Len(batch)
      BY <1>1, <1>2, <1>5 DEF Room, Overdraws
    <2>2. Kept(batch) = SubSeq(batch, 1, Room)
      BY <1>5 DEF Kept
    <2>3. /\ Len(Kept(batch)) = Room
          /\ \A i \in 1..Room : Kept(batch)[i] = batch[i]
          /\ DOMAIN Kept(batch) = 1..Room
      <3> DEFINE r == Room
      <3>1. r \in Nat /\ r < Len(batch)
        BY <2>1
      <3> HIDE DEF r
      <3>2. \A i \in 1..r : batch[i] \in Record
        BY <1>1, <3>1, ElementOfSeq
      <3>3. /\ SubSeq(batch, 1, r) \in Seq(Record)
            /\ Len(SubSeq(batch, 1, r)) = IF 1 <= r THEN r - 1 + 1 ELSE 0
            /\ \A i \in 1..(r - 1 + 1) : SubSeq(batch, 1, r)[i] = batch[1 + i - 1]
        BY <3>1, <3>2, SubSeqProperties
      <3>4. Len(SubSeq(batch, 1, r)) = r /\ \A i \in 1..r : SubSeq(batch, 1, r)[i] = batch[i]
        BY <3>1, <3>3
      <3>5. DOMAIN SubSeq(batch, 1, r) = 1..r
        BY <3>3, <3>4, LenProperties
      <3> QED
        BY <2>2, <3>4, <3>5 DEF r
    <2>4. RecsIn(Kept(batch)) = {batch[i] : i \in 1..Room}
      BY <2>3 DEF RecsIn
    <2>5. err # "nil"
      BY <1>5 DEF Emit, Refused
    <2>6. \/ backlog' = backlog
          \/ /\ writer = "live"
             /\ backlog' = Append(backlog, [recs |-> RecsIn(Kept(batch)),
                                            state |-> NoState])
      BY DEF Emit, Deliver, Accept, vars
    <2>7. Room \in 0..Len(batch) /\ Room # Len(batch)
      <3> DEFINE r == Room
                 b == Len(batch)
      <3>1. r \in Nat /\ b \in Nat /\ r < b
        BY <1>1, <2>1
      <3> HIDE DEF r, b
      <3>2. r \in 0..b /\ r # b
        BY <3>1
      <3> QED
        BY <3>2 DEF r, b
    <2> QED
      BY <1>3, <2>4, <2>5, <2>6, <2>7
  <1> QED
    BY <1>4, <1>5

(* SaveState hands over the state, or nothing behind a dead writer.         *)
LEMMA PutStateIs ==
  ASSUME NEW st, NEW err, PutState(st, err)
  PROVE  /\ UNCHANGED <<rows, saved, phase, ctx, writer, emitted>>
         /\ \/ backlog' = backlog
            \/ backlog' = Append(backlog, [recs |-> {}, state |-> st]) /\ writer = "live"
  BY DEF PutState, Deliver, Accept, vars, runVars

(* A commit takes over the records of a prefix and a state of it.           *)
LEMMA CommitIs ==
  ASSUME NEW n \in 1..Len(backlog), backlog \in Seq(Message), Commit(n)
  PROVE  /\ rows' = Reach(rows, backlog, n)
         /\ backlog' = After(backlog, n)
         /\ Found(backlog, n, saved, saved')
  <1>1. Len(backlog) \in Nat /\ n \in Nat /\ n <= Len(backlog)
    BY LenProperties
  <1>2. \A i \in 1..n : backlog[i] \in Message
    BY <1>1, ElementOfSeq
  <1>3. /\ SubSeq(backlog, 1, n) \in Seq(Message)
        /\ Len(SubSeq(backlog, 1, n)) = IF 1 <= n THEN n - 1 + 1 ELSE 0
        /\ \A i \in 1..(n - 1 + 1) : SubSeq(backlog, 1, n)[i] = backlog[1 + i - 1]
    BY <1>1, <1>2, SubSeqProperties
  <1>4. Len(SubSeq(backlog, 1, n)) = n /\ \A i \in 1..n : SubSeq(backlog, 1, n)[i] = backlog[i]
    BY <1>1, <1>3
  <1>5. DOMAIN SubSeq(backlog, 1, n) = 1..n
    BY <1>3, <1>4, LenProperties
  <1>6. RecsOf(SubSeq(backlog, 1, n)) = UNION {backlog[i].recs : i \in 1..n}
    BY <1>4, <1>5 DEF RecsOf
  <1>7. rows' = Reach(rows, backlog, n)
    BY <1>6 DEF Commit, Reach
  <1>8. backlog' = After(backlog, n)
    BY DEF Commit, After
  <1>9. saved' = saved \/ \E i \in 1..n : saved' = backlog[i].state
    BY DEF Commit
  <1> QED
    BY <1>7, <1>8, <1>9 DEF Found

-----------------------------------------------------------------------------
(* Soundness of the backlog through the steps. *)

Backlogged == Accepted(rows, backlog)

(* What is there after Emit is good, whatever part of the batch it leaves.  *)
Leaves(Good, batch, err) ==
    \A n \in 0..Len(batch) :
        (err = "nil" <=> n = Len(batch)) => Backlogged \cup {batch[i] : i \in 1..n} \in Good

(* Emit keeps a sound backlog sound if the first parts of the batch that it *)
(* may leave do, and hands over the whole batch if it says so.  Behind a    *)
(* dead writer it hands over nothing.                                       *)
LEMMA EmitKeeps ==
  ASSUME NEW Good, NEW Covers, NEW batch \in Seq(Record), NEW err,
         SinkType, MaxRecords \in Nat,
         Emit(batch, err),
         Sound(Good, Covers, NoState, rows, backlog, saved),
         writer = "live" => Leaves(Good, batch, err)
  PROVE  /\ SinkType'
         /\ UNCHANGED <<rows, saved, phase, ctx, writer>>
         /\ Sound(Good, Covers, NoState, rows', backlog', saved')
         /\ Backlogged \subseteq Backlogged'
         /\ err = "nil" /\ writer = "live" => \A i \in 1..Len(batch) : batch[i] \in Backlogged'
  <1>0. Len(batch) \in Nat /\ batch \in [1..Len(batch) -> Record]
    BY LenProperties
  <1>1. /\ UNCHANGED <<rows, saved, phase, ctx, writer>> /\ emitted' \in Nat
        /\ \/ backlog' = backlog /\ (err = "nil" => writer = "dead" \/ batch = <<>>)
           \/ \E n \in 0..Len(batch) :
                 /\ backlog' = Append(backlog, [recs |-> {batch[i] : i \in 1..n},
                                                state |-> NoState])
                 /\ err = "nil" <=> n = Len(batch)
                 /\ writer = "live"
    BY EmitIs
  <1>2. CASE backlog' = backlog /\ (err = "nil" => writer = "dead" \/ batch = <<>>)
    <2>1. SinkType'
      BY <1>1, <1>2 DEF SinkType, TypeOK
    <2>2. batch = <<>> => 1..Len(batch) = {}
      BY EmptySeq
    <2> QED
      BY <1>1, <1>2, <2>1, <2>2 DEF Backlogged
  <1>3. ASSUME NEW n \in 0..Len(batch),
               backlog' = Append(backlog, [recs |-> {batch[i] : i \in 1..n}, state |-> NoState]),
               err = "nil" <=> n = Len(batch), writer = "live"
        PROVE  /\ SinkType'
               /\ Sound(Good, Covers, NoState, rows', backlog', saved')
               /\ Backlogged \subseteq Backlogged'
               /\ err = "nil" => \A i \in 1..Len(batch) : batch[i] \in Backlogged'
    <2> DEFINE m == [recs |-> {batch[i] : i \in 1..n}, state |-> NoState]
    <2>1. {batch[i] : i \in 1..n} \subseteq Record
      <3>1. \A i \in 1..n : i \in 1..Len(batch)
        BY <1>0
      <3> QED
        BY <1>0, <3>1
    <2>2. m \in Message
      BY <2>1 DEF Message
    <2>2a. m.recs = {batch[i] : i \in 1..n}
      OBVIOUS
    <2>2b. m.state = NoState
      OBVIOUS
    <2>3. backlog \in Seq(Message)
      BY DEF SinkType, TypeOK
    <2>4. backlog' = Append(backlog, m)
      BY <1>3
    <2>5. Accepted(rows, backlog) \cup m.recs \in Good
      <3>1. Backlogged \cup {batch[i] : i \in 1..n} \in Good
        BY <1>3, Zenon DEF Leaves
      <3> QED
        BY <2>2a, <3>1, Zenon DEF Backlogged
    <2> HIDE DEF m
    <2>6. Sound(Good, Covers, NoState, rows, Append(backlog, m), saved)
      BY <2>2, <2>3, <2>5, <2>2b, SoundAppend
    <2>7. Accepted(rows, Append(backlog, m)) = Accepted(rows, backlog) \cup m.recs
      BY <2>2, <2>3, ReachAppend
    <2>8. Append(backlog, m) \in Seq(Message)
      BY <2>2, <2>3, AppendProperties
    <2>9. SinkType'
      BY <1>1, <2>4, <2>8 DEF SinkType, TypeOK
    <2>10. Backlogged' = Backlogged \cup {batch[i] : i \in 1..n}
      BY <1>1, <2>4, <2>7, <2>2a DEF Backlogged
    <2> QED
      BY <1>1, <1>3, <2>4, <2>6, <2>9, <2>10
  <1> QED
    BY <1>1, <1>2, <1>3

(* SaveState keeps a sound backlog sound if what was handed over covers the *)
(* state.                                                                   *)
LEMMA PutStateKeeps ==
  ASSUME NEW Good, NEW Covers, NEW st \in State, NEW err, NoState \notin State,
         SinkType, PutState(st, err),
         Sound(Good, Covers, NoState, rows, backlog, saved),
         writer = "live" => <<st, Backlogged>> \in Covers
  PROVE  /\ SinkType'
         /\ UNCHANGED <<rows, saved, phase, ctx, writer>>
         /\ Sound(Good, Covers, NoState, rows', backlog', saved')
         /\ Backlogged' = Backlogged
  <1>1. /\ UNCHANGED <<rows, saved, phase, ctx, writer, emitted>>
        /\ \/ backlog' = backlog
           \/ backlog' = Append(backlog, [recs |-> {}, state |-> st]) /\ writer = "live"
    BY PutStateIs
  <1>2. CASE backlog' = backlog
    BY <1>1, <1>2 DEF SinkType, TypeOK, Backlogged
  <1>3. CASE backlog' = Append(backlog, [recs |-> {}, state |-> st]) /\ writer = "live"
    <2> DEFINE m == [recs |-> {}, state |-> st]
    <2>0. m \in Message
      BY DEF Message
    <2>1. m.state = st /\ m.recs = {}
      OBVIOUS
    <2>2. backlog \in Seq(Message)
      BY DEF SinkType, TypeOK
    <2>3. backlog' = Append(backlog, m)
      BY <1>3
    <2> HIDE DEF m
    <2>4. Accepted(rows, backlog) \in Good
      <3>1. Len(backlog) \in Nat
        BY <2>2, LenProperties
      <3> QED
        BY <3>1 DEF Sound, Accepted
    <2>5. Accepted(rows, backlog) \cup m.recs = Accepted(rows, backlog)
      BY <2>1
    <2>6. Sound(Good, Covers, NoState, rows, Append(backlog, m), saved)
      BY <1>3, <2>0, <2>1, <2>2, <2>4, <2>5, SoundAppend DEF Backlogged
    <2>7. Accepted(rows, Append(backlog, m)) = Accepted(rows, backlog)
      <3>1. Accepted(rows, Append(backlog, m)) = Accepted(rows, backlog) \cup m.recs
        BY <2>0, <2>2, ReachAppend
      <3> QED
        BY <2>5, <3>1
    <2>8. Append(backlog, m) \in Seq(Message)
      BY <2>0, <2>2, AppendProperties
    <2>9. SinkType'
      BY <1>1, <2>3, <2>8 DEF SinkType, TypeOK
    <2> QED
      BY <1>1, <2>3, <2>6, <2>7, <2>9 DEF Backlogged
  <1> QED
    BY <1>1, <1>2, <1>3

(* So does the writer. *)
LEMMA WriteKeeps ==
  ASSUME NEW Good, NEW Covers, SinkType, Write, Monotone(Good, Covers),
         Sound(Good, Covers, NoState, rows, backlog, saved)
  PROVE  /\ SinkType'
         /\ UNCHANGED <<phase, ctx, writer, emitted>>
         /\ Sound(Good, Covers, NoState, rows', backlog', saved')
         /\ Backlogged' = Backlogged
         /\ rows \subseteq rows'
  <1>1. PICK n \in 1..Len(backlog) : Commit(n)
    BY DEF Write
  <1>2. backlog \in Seq(Message)
    BY DEF SinkType, TypeOK
  <1>3. /\ rows' = Reach(rows, backlog, n)
        /\ backlog' = After(backlog, n)
        /\ Found(backlog, n, saved, saved')
    BY <1>1, <1>2, CommitIs
  <1>4. Sound(Good, Covers, NoState, rows', backlog', saved')
    BY <1>2, <1>3, SoundCut
  <1>5. Backlogged' = Backlogged
    BY <1>2, <1>3, AcceptedCut DEF Backlogged
  <1>6. backlog' \in Seq(Message)
    BY <1>2, <1>3, AfterIs
  <1>7. \A i \in 1..n : backlog[i] \in Message
    BY <1>2, LenProperties, ElementOfSeq
  <1>8. rows' \subseteq Record
    <2>1. \A i \in 1..n : backlog[i].recs \subseteq Record
      BY <1>7 DEF Message
    <2> QED
      BY <1>3, <2>1 DEF SinkType, TypeOK, Reach
  <1>9. saved' \in {NoState} \cup State
    <2>1. \A i \in 1..n : backlog[i].state \in {NoState} \cup State
      BY <1>7 DEF Message
    <2> QED
      BY <1>3, <2>1 DEF SinkType, TypeOK, Found
  <1>10. UNCHANGED <<phase, ctx, writer, emitted>>
    BY DEF Write, runVars
  <1>11. SinkType'
    BY <1>6, <1>8, <1>9, <1>10 DEF SinkType, TypeOK
  <1> QED
    BY <1>3, <1>4, <1>5, <1>10, <1>11 DEF Reach

(* So do a crash and a writer that gives up. *)
LEMMA LoseKeeps ==
  ASSUME NEW Good, NEW Covers, SinkType, Lose,
         Sound(Good, Covers, NoState, rows, backlog, saved)
  PROVE  /\ TypeOK'
         /\ UNCHANGED <<rows, saved>> /\ backlog' = <<>>
         /\ Sound(Good, Covers, NoState, rows', backlog', saved')
  <1>1. UNCHANGED <<rows, saved>> /\ backlog' = <<>>
    BY DEF Lose
  <1>2. Sound(Good, Covers, NoState, rows, <<>>, saved)
    BY SoundLost DEF SinkType, TypeOK
  <1>3. TypeOK'
    BY <1>1 DEF SinkType, TypeOK
  <1> QED
    BY <1>1, <1>2, <1>3

-----------------------------------------------------------------------------
(* Finite sets of numbers, which the adapters cut into batches and sort.    *)

Below(S, t) == {u \in S : u < t}
Rank(S, t) == Cardinality(Below(S, t))

Ascending(S) ==
    CHOOSE s \in [1..Cardinality(S) -> S] :
        \A i, j \in 1..Cardinality(S) : i < j => s[i] < s[j]

(* The members of a finite set of numbers have the ranks 0, 1, 2, ... *)
LEMMA Ranks ==
  ASSUME NEW S \in SUBSET Nat, IsFiniteSet(S)
  PROVE  /\ Cardinality(S) \in Nat
         /\ \A t \in S : Rank(S, t) \in Nat /\ Rank(S, t) < Cardinality(S)
         /\ \A t, u \in S : t < u => Rank(S, t) < Rank(S, u)
         /\ \A i \in Nat : i < Cardinality(S) => \E t \in S : Rank(S, t) = i
  <1> DEFINE n == Cardinality(S)
             rank == [t \in S |-> Rank(S, t) + 1]
  <1>1. n \in Nat
    BY FS_CardinalityType
  <1>2. ASSUME NEW t \in S
        PROVE  IsFiniteSet(Below(S, t)) /\ Rank(S, t) \in Nat
    <2>1. Below(S, t) \in SUBSET S
      BY DEF Below
    <2>2. IsFiniteSet(Below(S, t))
      BY <2>1, FS_Subset
    <2> QED
      BY <2>2, FS_CardinalityType DEF Rank
  <1>3. ASSUME NEW t \in S
        PROVE  Rank(S, t) < n
    <2>1. t \notin Below(S, t) /\ Below(S, t) \cup {t} \in SUBSET S
      BY DEF Below
    <2>2. Cardinality(Below(S, t) \cup {t}) = Rank(S, t) + 1
      BY <1>2, <2>1, FS_AddElement DEF Rank
    <2>3. Cardinality(Below(S, t) \cup {t}) <= n
      BY <2>1, FS_Subset
    <2> QED
      BY <1>1, <1>2, <2>2, <2>3
  <1>4. ASSUME NEW t \in S, NEW u \in S, t < u
        PROVE  Rank(S, t) < Rank(S, u)
    <2>0. \A v \in S : v < t => v < u
      BY <1>4
    <2>4. t \notin Below(S, t) /\ t \in Below(S, u)
      BY <1>4 DEF Below
    <2>5. \A v \in Below(S, t) : v \in Below(S, u)
      BY <2>0 DEF Below
    <2>1. t \notin Below(S, t) /\ Below(S, t) \cup {t} \in SUBSET Below(S, u)
      BY <2>4, <2>5
    <2>2. Cardinality(Below(S, t) \cup {t}) = Rank(S, t) + 1
      BY <1>2, <2>1, FS_AddElement DEF Rank
    <2>3. Cardinality(Below(S, t) \cup {t}) <= Rank(S, u)
      BY <1>2, <2>1, FS_Subset DEF Rank
    <2> QED
      BY <1>2, <2>2, <2>3
  <1>5. rank \in [S -> 1..n]
    BY <1>1, <1>2, <1>3
  <1>6. \A t, u \in S : rank[t] = rank[u] => t = u
    <2> SUFFICES ASSUME NEW t \in S, NEW u \in S, t < u
                 PROVE  rank[t] # rank[u]
      BY SMT
    <2> QED
      BY <1>2, <1>4
  <1>7. rank \in Surjection(S, 1..n)
    <2>1. rank \in Injection(S, 1..n)
      BY <1>5, <1>6 DEF Injection, IsInjective
    <2>2. IsFiniteSet(1..n) /\ Cardinality(1..n) = n
      BY <1>1, FS_Interval
    <2> QED
      BY <2>1, <2>2, FS_Injection
  <1>8. ASSUME NEW i \in Nat, i < n
        PROVE  \E t \in S : Rank(S, t) = i
    <2>1. i + 1 \in 1..n
      BY <1>1, <1>8
    <2>2. PICK t \in S : rank[t] = i + 1
      BY <1>7, <2>1 DEF Surjection
    <2> QED
      BY <1>2, <2>2
  <1> QED
    BY <1>1, <1>2, <1>3, <1>4, <1>8

(* Such a set in ascending order. *)
LEMMA AscendingIs ==
  ASSUME NEW S \in SUBSET Nat, IsFiniteSet(S)
  PROVE  /\ DOMAIN Ascending(S) = 1..Cardinality(S)
         /\ \A j \in DOMAIN Ascending(S) : Ascending(S)[j] \in S
         /\ \A t \in S : \E j \in DOMAIN Ascending(S) : Ascending(S)[j] = t
  <1> DEFINE n == Cardinality(S)
             sorted == [i \in 1..n |-> CHOOSE t \in S : Rank(S, t) = i - 1]
  <1>1. n \in Nat
    BY Ranks
  <1>2. ASSUME NEW i \in 1..n
        PROVE  sorted[i] \in S /\ Rank(S, sorted[i]) = i - 1
    <2>1. i - 1 \in Nat /\ i - 1 < n
      BY <1>1
    <2>2. \E t \in S : Rank(S, t) = i - 1
      BY <2>1, Ranks
    <2> QED
      BY <2>2
  <1>3. sorted \in [1..n -> S]
    BY <1>2
  <1> HIDE DEF sorted
  <1>4. \A i, j \in 1..n : i < j => sorted[i] < sorted[j]
    <2> SUFFICES ASSUME NEW i \in 1..n, NEW j \in 1..n, i < j, ~(sorted[i] < sorted[j])
                 PROVE  FALSE
      OBVIOUS
    <2>1. sorted[i] \in Nat /\ sorted[j] \in Nat
      BY <1>2
    <2>2. sorted[j] = sorted[i] \/ sorted[j] < sorted[i]
      BY <2>1
    <2>3. sorted[j] < sorted[i] => Rank(S, sorted[j]) < Rank(S, sorted[i])
      BY <1>2, Ranks
    <2> QED
      BY <1>1, <1>2, <2>2, <2>3
  <1>5. \E s \in [1..n -> S] : \A i, j \in 1..n : i < j => s[i] < s[j]
    BY <1>3, <1>4
  <1> DEFINE s == Ascending(S)
  <1>6. s \in [1..n -> S] /\ \A i, j \in 1..n : i < j => s[i] < s[j]
    BY <1>5 DEF Ascending
  <1> HIDE DEF s
  <1>7. \A i, j \in 1..n : s[i] = s[j] => i = j
    <2> SUFFICES ASSUME NEW i \in 1..n, NEW j \in 1..n, i < j
                 PROVE  s[i] # s[j]
      BY <1>1
    <2>1. s[i] \in Nat /\ s[j] \in Nat /\ s[i] < s[j]
      BY <1>6
    <2> QED
      BY <2>1
  <1>8. s \in Surjection(1..n, S)
    <2>1. s \in Injection(1..n, S)
      BY <1>6, <1>7 DEF Injection, IsInjective
    <2>2. Cardinality(1..n) = n
      BY <1>1, FS_Interval
    <2> HIDE DEF n
    <2> QED
      BY <2>1, <2>2, FS_Injection DEF n
  <1>9. DOMAIN s = 1..n /\ (\A j \in 1..n : s[j] \in S) /\ (\A t \in S : \E j \in 1..n : s[j] = t)
    BY <1>6, <1>8 DEF Surjection
  <1> QED
    BY <1>9 DEF s
=============================================================================
