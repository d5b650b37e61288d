--------------------------- MODULE FetchClientProofs ---------------------------
(***************************************************************************)
(* Theorems about FetchClient, for every set of workers and hosts, every   *)
(* number of slots, burst and bound of retries, and each kind of limit.    *)
(***************************************************************************)
EXTENDS FetchClient, TLAPS, FiniteSetTheorems

-----------------------------------------------------------------------------
(* The inductive invariant. *)

Place == {"idle", "limit", "slot", "sent", "pause", "body"}

(* A worker pauses only before a retry that it may still make. *)
PausesAllowed == \A w \in Workers : pc[w] = "pause" => attempt[w] < MaxRetries

(* The slots that are taken are those of the holders. *)
SlotsHeld == IsFiniteSet(Holders) /\ sem = Cardinality(Holders)

(* Workers that have a token of bucket b and wait for their slot. *)
Between(b) == {w \in Workers : pc[w] = "slot" /\ Bucket(host[w]) = b}

(* Every token that a bucket started with or got since is still in it, is   *)
(* in the hands of a worker, or was used for a request, or is lost.         *)
TokensBounded ==
    \A b \in Buckets :
        /\ IsFiniteSet(Between(b))
        /\ Limited /\ ticks < MaxTicks =>
              sent[b] + tokens[b] + Cardinality(Between(b)) <= Burst + ticks

IInv == TypeOK /\ PausesAllowed /\ SlotsHeld /\ TokensBounded

-----------------------------------------------------------------------------
(* Type correctness. *)

LEMMA AnyHostType == AnyHost \in Hosts
  BY FetchAssumption DEF AnyHost

LEMMA BucketType ==
    ASSUME TypeOK, NEW w \in Workers
    PROVE  Bucket(host[w]) \in Buckets
  BY DEF TypeOK, Bucket, Buckets

LEMMA ReturnType ==
    ASSUME TypeOK, PausesAllowed, NEW w \in Workers, Return(w)
    PROVE  /\ pc' \in [Workers -> {"idle", "limit", "slot", "sent", "pause", "body"}]
           /\ host' \in [Workers -> Hosts] /\ replayable' \in [Workers -> BOOLEAN]
           /\ attempt' \in [Workers -> 0..MaxRetries]
           /\ PausesAllowed'
  BY AnyHostType, FetchAssumption DEF TypeOK, Return, PausesAllowed

LEMMA InitType == Init => TypeOK /\ PausesAllowed
  BY AnyHostType, FetchAssumption DEF Init, TypeOK, PausesAllowed, Buckets

LEMMA TypeStep == TypeOK /\ PausesAllowed /\ [Next]_vars => TypeOK' /\ PausesAllowed'
  <1> SUFFICES ASSUME TypeOK, PausesAllowed, [Next]_vars
               PROVE  TypeOK' /\ PausesAllowed'
    OBVIOUS
  <1> USE FetchAssumption
  <1>1. ASSUME NEW w \in Workers, Call(w)
        PROVE  TypeOK' /\ PausesAllowed'
    BY <1>1 DEF Call, TypeOK, PausesAllowed, rateVars, Buckets
  <1>2. ASSUME NEW w \in Workers, TakeToken(w)
        PROVE  TypeOK' /\ PausesAllowed'
    <2>1. tokens' \in [Buckets -> 0..Burst]
      BY <1>2, BucketType DEF TakeToken, TypeOK
    <2> QED
      BY <1>2, <2>1 DEF TakeToken, TypeOK, PausesAllowed, callVars, Buckets
  <1>3. ASSUME NEW w \in Workers, Send(w)
        PROVE  TypeOK' /\ PausesAllowed'
    <2>1. sent' \in [Buckets -> Nat]
      BY <1>3, BucketType DEF Send, TypeOK
    <2> QED
      BY <1>3, <2>1 DEF Send, TypeOK, PausesAllowed, Buckets
  <1>4. ASSUME NEW w \in Workers, GetBodyFails(w) \/ Cancelled(w)
        PROVE  TypeOK' /\ PausesAllowed'
    <2>1. Return(w) /\ UNCHANGED <<limit, ctx, calls, sem, rateVars>>
      BY <1>4 DEF GetBodyFails, Cancelled
    <2> QED
      BY <2>1, ReturnType DEF TypeOK, rateVars, Buckets
  <1>5. ASSUME NEW w \in Workers, Transient(w)
        PROVE  TypeOK' /\ PausesAllowed'
    <2>1. sem' \in 0..Concurrency
      BY <1>5 DEF Transient, TypeOK, Released
    <2>2. CASE Return(w)
      BY <1>5, <2>1, <2>2, ReturnType DEF Transient, TypeOK, rateVars, Buckets
    <2>3. CASE MayRetry(w) /\ pc' = [pc EXCEPT ![w] = "pause"] /\ UNCHANGED callVars
      BY <1>5, <2>1, <2>3 DEF Transient, MayRetry, TypeOK, PausesAllowed, callVars, rateVars, Buckets
    <2> QED
      BY <1>5, <2>2, <2>3 DEF Transient
  <1>6. ASSUME NEW w \in Workers, Retry(w)
        PROVE  TypeOK' /\ PausesAllowed'
    BY <1>6 DEF Retry, TypeOK, PausesAllowed, rateVars, Buckets
  <1>7. ASSUME NEW w \in Workers, Permanent(w) \/ Close(w)
        PROVE  TypeOK' /\ PausesAllowed'
    <2>1. sem' \in 0..Concurrency
      BY <1>7 DEF Permanent, Close, TypeOK, Released, GivenBack
    <2>2. Return(w) /\ UNCHANGED <<limit, ctx, calls, rateVars>>
      BY <1>7 DEF Permanent, Close
    <2> QED
      BY <2>1, <2>2, ReturnType DEF TypeOK, rateVars, Buckets
  <1>8. ASSUME NEW w \in Workers, Success(w)
        PROVE  TypeOK' /\ PausesAllowed'
    BY <1>8 DEF Success, TypeOK, PausesAllowed, callVars, rateVars, Buckets
  <1>9. CASE Tick
    BY <1>9 DEF Tick, Refill, TypeOK, PausesAllowed, callVars, Buckets
  <1>10. CASE Cancel
    BY <1>10 DEF Cancel, TypeOK, PausesAllowed, callVars, rateVars, Buckets
  <1>11. CASE UNCHANGED vars
    BY <1>11 DEF vars, TypeOK, PausesAllowed, callVars, rateVars, Buckets
  <1> QED
    BY <1>1, <1>2, <1>3, <1>4, <1>5, <1>6, <1>7, <1>8, <1>9, <1>10, <1>11 DEF Next, Finished

(* The variables of the client always have their types. *)
THEOREM TypeCorrect == Spec => []TypeOK
  <1>1. Init => TypeOK /\ PausesAllowed
    BY InitType
  <1>2. TypeOK /\ PausesAllowed /\ [Next]_vars => TypeOK' /\ PausesAllowed'
    BY TypeStep
  <1> QED
    BY <1>1, <1>2, PTL DEF Spec

-----------------------------------------------------------------------------
(* Slots. *)

LEMMA HoldersStep ==
    ASSUME NEW w \in Workers, pc \in [Workers -> Place],
           NEW q \in Place, pc' = [pc EXCEPT ![w] = q]
    PROVE  Holders' = IF q \in {"sent", "body"} THEN Holders \cup {w} ELSE Holders \ {w}
  BY DEF Holders

(* The set of holders grows by one with a slot taken, and shrinks by one    *)
(* with a slot given back.                                                  *)
LEMMA SlotsStep == TypeOK /\ SlotsHeld /\ [Next]_vars => SlotsHeld'
  <1> SUFFICES ASSUME TypeOK, SlotsHeld, [Next]_vars
               PROVE  SlotsHeld'
    OBVIOUS
  <1>1. pc \in [Workers -> Place]
    BY DEF TypeOK, Place
  <1>2. ASSUME NEW w \in Workers, NEW q \in Place, pc' = [pc EXCEPT ![w] = q],
               \/ w \in Holders /\ q \in {"sent", "body"} /\ sem' = sem
               \/ w \in Holders /\ q \notin {"sent", "body"} /\ sem' = sem - 1
               \/ w \notin Holders /\ q \in {"sent", "body"} /\ sem' = sem + 1
               \/ w \notin Holders /\ q \notin {"sent", "body"} /\ sem' = sem
        PROVE  SlotsHeld'
    <2>1. Holders' = IF q \in {"sent", "body"} THEN Holders \cup {w} ELSE Holders \ {w}
      BY <1>1, <1>2, HoldersStep
    <2>2. IsFiniteSet(Holders') /\ Cardinality(Holders') =
             Cardinality(Holders) + (IF w \in Holders THEN 0 ELSE IF q \in {"sent", "body"} THEN 1 ELSE 0)
                                  - (IF w \notin Holders THEN 0 ELSE IF q \in {"sent", "body"} THEN 0 ELSE 1)
      <3>1. Cardinality(Holders) \in Nat
        BY FS_CardinalityType DEF SlotsHeld
      <3>2. CASE q \in {"sent", "body"}
        BY <2>1, <3>1, <3>2, FS_AddElement DEF SlotsHeld
      <3>3. CASE q \notin {"sent", "body"}
        BY <2>1, <3>1, <3>3, FS_RemoveElement DEF SlotsHeld
      <3> QED
        BY <3>2, <3>3
    <2>3. Cardinality(Holders) \in Nat
      BY FS_CardinalityType DEF SlotsHeld
    <2> QED
      BY <1>2, <2>2, <2>3 DEF SlotsHeld
  <1>3. \A w \in Workers : w \in Holders => sem > 0
    BY FS_EmptySet, FS_CardinalityType DEF SlotsHeld
  <1>4. sem \in Nat
    BY FetchAssumption DEF TypeOK
  <1> USE DEF Holders, Place
  <1>5. ASSUME NEW w \in Workers, Call(w) \/ TakeToken(w) \/ Retry(w)
        PROVE  SlotsHeld'
    <2>1. /\ w \notin Holders /\ sem' = sem
          /\ \E q \in Place : q \notin {"sent", "body"} /\ pc' = [pc EXCEPT ![w] = q]
      BY <1>5 DEF Call, TakeToken, Retry, Place
    <2> QED
      BY <1>2, <2>1
  <1>6. ASSUME NEW w \in Workers, Send(w)
        PROVE  SlotsHeld'
    <2>1. w \notin Holders /\ sem' = sem + 1 /\ pc' = [pc EXCEPT ![w] = "sent"]
      BY <1>6 DEF Send
    <2> QED
      BY <1>2, <2>1
  <1>7. ASSUME NEW w \in Workers, GetBodyFails(w) \/ Cancelled(w)
        PROVE  SlotsHeld'
    <2>1. w \notin Holders /\ sem' = sem /\ pc' = [pc EXCEPT ![w] = "idle"]
      BY <1>7 DEF GetBodyFails, Cancelled, Return
    <2> QED
      BY <1>2, <2>1
  <1>8. ASSUME NEW w \in Workers, Transient(w) \/ Permanent(w) \/ Close(w)
        PROVE  SlotsHeld'
    <2>1. w \in Holders /\ sem' = sem - 1
      BY <1>3, <1>4, <1>8 DEF Transient, Permanent, Close, Released, GivenBack
    <2>2. pc' = [pc EXCEPT ![w] = "idle"] \/ pc' = [pc EXCEPT ![w] = "pause"]
      BY <1>8 DEF Transient, Permanent, Close, Return
    <2> QED
      BY <1>2, <2>1, <2>2
  <1>9. ASSUME NEW w \in Workers, Success(w)
        PROVE  SlotsHeld'
    <2>1. w \in Holders /\ sem' = sem /\ pc' = [pc EXCEPT ![w] = "body"]
      BY <1>9 DEF Success
    <2> QED
      BY <1>2, <2>1
  <1>10. CASE Tick \/ Cancel \/ UNCHANGED vars
    BY <1>10 DEF Tick, Cancel, vars, SlotsHeld
  <1> QED
    BY <1>5, <1>6, <1>7, <1>8, <1>9, <1>10 DEF Next, Finished

-----------------------------------------------------------------------------
(* Tokens. *)

LEMMA BetweenStep ==
    ASSUME NEW w \in Workers, TypeOK, UNCHANGED limit, NEW q \in Place,
           pc' = [pc EXCEPT ![w] = q], pc[w] = "slot" => q # "slot",
           q = "slot" => UNCHANGED host,
           \A v \in Workers \ {w} : host'[v] = host[v],
           NEW b \in Buckets
    PROVE  Between(b)' = IF q = "slot" /\ Bucket(host[w]) = b THEN Between(b) \cup {w}
                                                             ELSE Between(b) \ {w}
  BY DEF Between, TypeOK, Bucket, Place

LEMMA SmallerByOne ==
    ASSUME NEW S, IsFiniteSet(S), NEW x
    PROVE  /\ IsFiniteSet(S \ {x}) /\ Cardinality(S \ {x}) \in Nat
           /\ Cardinality(S \ {x}) <= Cardinality(S)
  <1>1. Cardinality(S) \in Nat /\ IsFiniteSet(S \ {x}) /\ Cardinality(S \ {x}) \in Nat
    BY FS_CardinalityType, FS_RemoveElement
  <1>2. Cardinality(S \ {x}) = IF x \in S THEN Cardinality(S) - 1 ELSE Cardinality(S)
    BY FS_RemoveElement
  <1> QED
    BY <1>1, <1>2

LEMMA TokensStep == TypeOK /\ TokensBounded /\ [Next]_vars => TokensBounded'
  <1> SUFFICES ASSUME TypeOK, TokensBounded, [Next]_vars, NEW b \in Buckets
               PROVE  /\ IsFiniteSet(Between(b))'
                      /\ (Limited /\ ticks < MaxTicks =>
                            sent[b] + tokens[b] + Cardinality(Between(b)) <= Burst + ticks)'
    BY DEF TokensBounded, Buckets
  <1>1. /\ IsFiniteSet(Between(b)) /\ Cardinality(Between(b)) \in Nat
        /\ Limited /\ ticks < MaxTicks =>
              sent[b] + tokens[b] + Cardinality(Between(b)) <= Burst + ticks
        /\ sent[b] \in Nat /\ tokens[b] \in 0..Burst
        /\ ticks \in Nat /\ MaxTicks \in Nat /\ Burst \in Nat
    BY FS_CardinalityType, FetchAssumption DEF TokensBounded, TypeOK
  <1> DEFINE n == Cardinality(Between(b))
  <1> USE DEF Place
  (* A step of one worker in which no bucket changes. *)
  <1>2. ASSUME NEW w \in Workers, NEW q \in Place \ {"slot"},
               pc' = [pc EXCEPT ![w] = q],
               \A v \in Workers \ {w} : host'[v] = host[v],
               UNCHANGED <<limit, rateVars>>
        PROVE  /\ IsFiniteSet(Between(b))'
               /\ (Limited /\ ticks < MaxTicks =>
                     sent[b] + tokens[b] + Cardinality(Between(b)) <= Burst + ticks)'
    <2>1. Between(b)' = Between(b) \ {w}
      BY <1>2, BetweenStep
    <2>2. LET S == Between(b) \ {w}
          IN  IsFiniteSet(S) /\ Cardinality(S) \in Nat /\ Cardinality(S) <= Cardinality(Between(b))
      BY <1>1, SmallerByOne, Zenon
    <2>3. IsFiniteSet(Between(b)') /\ Cardinality(Between(b)') <= n /\ Cardinality(Between(b)') \in Nat
      BY <2>1, <2>2, Zenon
    <2> QED
      BY <1>1, <1>2, <2>3 DEF Limited, rateVars
  <1>3. ASSUME NEW w \in Workers, Call(w)
        PROVE  /\ IsFiniteSet(Between(b))'
               /\ (Limited /\ ticks < MaxTicks =>
                     sent[b] + tokens[b] + Cardinality(Between(b)) <= Burst + ticks)'
    <2>1. /\ pc' = [pc EXCEPT ![w] = "limit"]
          /\ \A v \in Workers \ {w} : host'[v] = host[v]
          /\ UNCHANGED <<limit, rateVars>>
      BY <1>3 DEF Call, TypeOK
    <2> QED
      BY <1>2, <2>1
  <1>4. ASSUME NEW w \in Workers, TakeToken(w)
        PROVE  /\ IsFiniteSet(Between(b))'
               /\ (Limited /\ ticks < MaxTicks =>
                     sent[b] + tokens[b] + Cardinality(Between(b)) <= Burst + ticks)'
    <2>1. /\ pc' = [pc EXCEPT ![w] = "slot"] /\ pc[w] = "limit"
          /\ UNCHANGED <<limit, host, ticks, sent>>
      BY <1>4 DEF TakeToken, callVars
    <2>2. Between(b)' = IF Bucket(host[w]) = b THEN Between(b) \cup {w} ELSE Between(b) \ {w}
      BY <2>1, BetweenStep
    <2>3. w \notin Between(b)
      BY <2>1 DEF Between
    <2>4. CASE Bucket(host[w]) = b
      <3>1. IsFiniteSet(Between(b)') /\ Cardinality(Between(b)') = n + 1
        BY <1>1, <2>2, <2>3, <2>4, FS_AddElement
      <3>2. Limited => tokens'[b] = tokens[b] - 1
        BY <1>4, <2>4 DEF TakeToken, TypeOK
      <3> QED
        BY <1>1, <2>1, <3>1, <3>2 DEF Limited
    <2>5. CASE Bucket(host[w]) # b
      <3>1. Between(b)' = Between(b)
        BY <2>2, <2>3, <2>5
      <3>2. tokens'[b] = tokens[b]
        BY <1>4, <2>5 DEF TakeToken, TypeOK
      <3> QED
        BY <1>1, <2>1, <3>1, <3>2 DEF Limited
    <2> QED
      BY <2>4, <2>5
  <1>5. ASSUME NEW w \in Workers, Send(w)
        PROVE  /\ IsFiniteSet(Between(b))'
               /\ (Limited /\ ticks < MaxTicks =>
                     sent[b] + tokens[b] + Cardinality(Between(b)) <= Burst + ticks)'
    <2>1. /\ pc' = [pc EXCEPT ![w] = "sent"] /\ pc[w] = "slot"
          /\ UNCHANGED <<limit, host, ticks, tokens>>
      BY <1>5 DEF Send
    <2>2. Between(b)' = Between(b) \ {w}
      BY <2>1, BetweenStep
    <2>3. w \in Between(b) <=> Bucket(host[w]) = b
      BY <2>1 DEF Between
    <2>4. CASE Bucket(host[w]) = b
      <3>1. IsFiniteSet(Between(b)') /\ Cardinality(Between(b)') = n - 1
        BY <1>1, <2>2, <2>3, <2>4, FS_RemoveElement
      <3>2. sent'[b] = sent[b] + 1
        BY <1>5, <2>4 DEF Send, TypeOK
      <3> QED
        BY <1>1, <2>1, <3>1, <3>2 DEF Limited
    <2>5. CASE Bucket(host[w]) # b
      <3>1. Between(b)' = Between(b)
        BY <2>2, <2>3, <2>5
      <3>2. sent'[b] = sent[b]
        BY <1>5, <2>5 DEF Send, TypeOK
      <3> QED
        BY <1>1, <2>1, <3>1, <3>2 DEF Limited
    <2> QED
      BY <2>4, <2>5
  <1>6. ASSUME NEW w \in Workers,
               GetBodyFails(w) \/ Cancelled(w) \/ Transient(w) \/ Permanent(w) \/ Close(w)
                  \/ Retry(w) \/ Success(w)
        PROVE  /\ IsFiniteSet(Between(b))'
               /\ (Limited /\ ticks < MaxTicks =>
                     sent[b] + tokens[b] + Cardinality(Between(b)) <= Burst + ticks)'
    <2>1. /\ \E q \in {"idle", "pause", "limit", "body"} : pc' = [pc EXCEPT ![w] = q]
          /\ UNCHANGED <<limit, rateVars>>
      BY <1>6 DEF GetBodyFails, Cancelled, Transient, Permanent, Close, Retry, Success, Return
    <2>2. \A v \in Workers \ {w} : host'[v] = host[v]
      BY <1>6 DEF GetBodyFails, Cancelled, Transient, Permanent, Close, Retry, Success, Return,
                  callVars, TypeOK
    <2> QED
      BY <1>2, <2>1, <2>2
  <1>7. CASE Tick
    <2>1. Between(b)' = Between(b) /\ UNCHANGED <<limit, sent>>
      BY <1>7 DEF Tick, Between, Bucket, callVars
    <2>2. tokens'[b] <= tokens[b] + 1 /\ tokens'[b] \in Nat
      BY <1>1, <1>7 DEF Tick, Refill
    <2>3. ticks' < MaxTicks => ticks < MaxTicks /\ ticks' = ticks + 1
      BY <1>1, <1>7 DEF Tick
    <2> QED
      BY <1>1, <2>1, <2>2, <2>3 DEF Limited
  <1>8. CASE Cancel \/ UNCHANGED vars
    BY <1>1, <1>8 DEF Cancel, vars, Between, Bucket, Limited, callVars, rateVars
  <1> QED
    BY <1>3, <1>4, <1>5, <1>6, <1>7, <1>8 DEF Next, Finished

-----------------------------------------------------------------------------
(* The theorems. *)

LEMMA InitInvariant == Init => IInv
  <1> SUFFICES ASSUME Init
               PROVE  IInv
    OBVIOUS
  <1>1. Holders = {} /\ \A b \in Buckets : Between(b) = {}
    BY DEF Init, Holders, Between
  <1>2. SlotsHeld
    BY <1>1, FS_EmptySet DEF Init, SlotsHeld
  <1>3. TokensBounded
    BY <1>1, FS_EmptySet, FetchAssumption DEF Init, TokensBounded
  <1> QED
    BY <1>2, <1>3, InitType DEF IInv

LEMMA Invariant == Spec => []IInv
  <1>1. IInv /\ [Next]_vars => IInv'
    BY TypeStep, SlotsStep, TokensStep DEF IInv
  <1> QED
    BY <1>1, InitInvariant, PTL DEF Spec

(* No slot is leaked on any way out of Do, and none is given back twice.    *)
THEOREM SlotsAreExact == Spec => []SlotsExact
  <1>1. IInv => SlotsExact
    BY DEF IInv, SlotsHeld, SlotsExact
  <1> QED
    BY <1>1, Invariant, PTL

(* Retries included, no bucket lets more through than its burst and one     *)
(* request per tick.                                                        *)
THEOREM RateIsKept == Spec => []LongRunRate
  <1>1. IInv => LongRunRate
    <2> SUFFICES ASSUME IInv, Limited, ticks < MaxTicks, NEW b \in Buckets
                 PROVE  sent[b] <= Burst + ticks
      BY DEF LongRunRate
    <2>1. /\ sent[b] + tokens[b] + Cardinality(Between(b)) <= Burst + ticks
          /\ Cardinality(Between(b)) \in Nat
      BY FS_CardinalityType DEF IInv, TokensBounded
    <2> QED
      BY <2>1, FetchAssumption DEF IInv, TypeOK
  <1> QED
    BY <1>1, Invariant, PTL
=============================================================================
