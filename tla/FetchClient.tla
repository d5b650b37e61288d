------------------------------ MODULE FetchClient ------------------------------
(***************************************************************************)
(* The shared HTTP client, src/internal/fetch/client.go, with the token    *)
(* bucket of limiter.go.  Worker goroutines call Do: each attempt takes a  *)
(* token, then one of the Concurrency slots, and sends one request.  A     *)
(* slot is given back when the attempt fails, and otherwise when the       *)
(* caller closes the body.  Transient failures are retried after a pause   *)
(* spent without a slot.                                                   *)
(*                                                                         *)
(* Time is counted in ticks of 1/rate second, so that a tick adds one      *)
(* token; how long a pause or a request takes is left open.                *)
(***************************************************************************)
EXTENDS Naturals, FiniteSets

CONSTANTS
    Workers,      \* goroutines that use the client
    Hosts,        \* hosts they send requests to
    Limits,       \* RateLimit and PerHost: "none", "global" or "host" (rss)
    Burst,        \* capacity of a bucket
    Concurrency,  \* slots
    MaxRetries,
    MaxCalls,     \* bound: calls of Do by one worker
    MaxTicks      \* bound: ticks that are counted

ASSUME FetchAssumption ==
    /\ Limits \subseteq {"none", "global", "host"}
    /\ Burst \in Nat \ {0} /\ Concurrency \in Nat \ {0}
    /\ MaxRetries \in Nat /\ MaxCalls \in Nat /\ MaxTicks \in Nat
    /\ Hosts # {}

VARIABLES
    limit,        \* which of Limits the client was made with
    ctx,          \* "live" or "cancelled"
    pc,           \* "idle", "limit" and "slot" (in acquire), "sent", "pause", "body"
    host,         \* the host of the worker's call
    replayable,   \* the call's request can be sent again
    attempt,      \* attempt of the call's loop
    calls,        \* calls the worker has made
    sem,          \* length of the channel sem
    tokens,       \* tokens of each bucket
    ticks,        \* time
    sent          \* requests sent so far, per bucket

callVars == <<host, replayable, attempt>>
rateVars == <<tokens, ticks, sent>>
vars == <<limit, ctx, pc, callVars, calls, sem, rateVars>>

(* The limiter that acquire uses for a host. *)
Limited == limit # "none"
Bucket(h) == IF limit = "host" THEN h ELSE "global"
Buckets == Hosts \cup {"global"}

(* Do returns, and its local variables are gone. *)
AnyHost == CHOOSE h \in Hosts : TRUE
Return(w) ==
    /\ pc' = [pc EXCEPT ![w] = "idle"]
    /\ host' = [host EXCEPT ![w] = AnyHost]
    /\ replayable' = [replayable EXCEPT ![w] = TRUE]
    /\ attempt' = [attempt EXCEPT ![w] = 0]

Init ==
    /\ limit \in Limits
    /\ ctx = "live"
    /\ pc = [w \in Workers |-> "idle"]
    /\ host = [w \in Workers |-> AnyHost]
    /\ replayable = [w \in Workers |-> TRUE]
    /\ attempt = [w \in Workers |-> 0]
    /\ calls = [w \in Workers |-> 0]
    /\ sem = 0
    /\ tokens = [b \in Buckets |-> Burst]
    /\ ticks = 0
    /\ sent = [b \in Buckets |-> 0]

(* release: a non-blocking receive.                                         *)
Released == IF sem > 0 THEN sem - 1 ELSE 0

-----------------------------------------------------------------------------
(* Do, up to the request. *)

Call(w) ==
    /\ pc[w] = "idle" /\ calls[w] < MaxCalls
    /\ pc' = [pc EXCEPT ![w] = "limit"]
    /\ \E h \in Hosts : host' = [host EXCEPT ![w] = h]
    /\ \E r \in BOOLEAN : replayable' = [replayable EXCEPT ![w] = r]
    /\ calls' = [calls EXCEPT ![w] = @ + 1]
    /\ UNCHANGED <<limit, ctx, attempt, sem, rateVars>>

(* limiter.wait. *)
TakeToken(w) ==
    /\ pc[w] = "limit"
    /\ IF Limited
       THEN /\ tokens[Bucket(host[w])] >= 1
            /\ tokens' = [tokens EXCEPT ![Bucket(host[w])] = @ - 1]
       ELSE UNCHANGED tokens
    /\ pc' = [pc EXCEPT ![w] = "slot"]
    /\ UNCHANGED <<limit, ctx, callVars, calls, sem, ticks, sent>>

(* A slot, then the request. *)
Send(w) ==
    /\ pc[w] = "slot" /\ sem < Concurrency
    /\ sem' = sem + 1
    /\ pc' = [pc EXCEPT ![w] = "sent"]
    /\ sent' = [sent EXCEPT ![Bucket(host[w])] = @ + 1]
    /\ UNCHANGED <<limit, ctx, host, replayable, attempt, calls, tokens, ticks>>

(* The body of a later attempt cannot be rewound. *)
GetBodyFails(w) ==
    /\ pc[w] = "slot" /\ sem < Concurrency
    /\ attempt[w] > 0
    /\ Return(w)
    /\ UNCHANGED <<limit, ctx, calls, sem, rateVars>>

(* acquire and sleep end with the context's error. *)
Cancelled(w) ==
    /\ ctx = "cancelled"
    /\ \/ pc[w] = "limit" /\ Limited /\ tokens[Bucket(host[w])] < 1
       \/ pc[w] \in {"slot", "pause"}
    /\ Return(w)
    /\ UNCHANGED <<limit, ctx, calls, sem, rateVars>>

-----------------------------------------------------------------------------
(* Do, from the response on. *)

MayRetry(w) == replayable[w] /\ attempt[w] < MaxRetries

(* A transport error, or a retryable status: 429, 500, 502, 503, 504.       *)
Transient(w) ==
    /\ pc[w] = "sent"
    /\ sem' = Released
    /\ IF MayRetry(w) THEN pc' = [pc EXCEPT ![w] = "pause"] /\ UNCHANGED callVars
                      ELSE Return(w)
    /\ UNCHANGED <<limit, ctx, calls, rateVars>>

(* The pause is over: backoff, or what Retry-After asked for.  Faulty       *)
(* variant: the retry does not pass the limiter again.                      *)
RetryUnlimited(w) ==
    /\ pc[w] = "pause"
    /\ attempt' = [attempt EXCEPT ![w] = @ + 1]
    /\ pc' = [pc EXCEPT ![w] = "slot"]
    /\ UNCHANGED <<limit, ctx, host, replayable, calls, sem, rateVars>>
Retry(w) ==
    /\ pc[w] = "pause"
    /\ attempt' = [attempt EXCEPT ![w] = @ + 1]
    /\ pc' = [pc EXCEPT ![w] = "limit"]
    /\ UNCHANGED <<limit, ctx, host, replayable, calls, sem, rateVars>>

(* Any other status of 400 or more, or an error that is not retried, such   *)
(* as the cancellation.                                                     *)
Permanent(w) ==
    /\ pc[w] = "sent"
    /\ sem' = Released
    /\ Return(w)
    /\ UNCHANGED <<limit, ctx, calls, rateVars>>

Success(w) ==
    /\ pc[w] = "sent"
    /\ pc' = [pc EXCEPT ![w] = "body"]
    /\ UNCHANGED <<limit, ctx, callVars, calls, sem, rateVars>>

(* The slots given back by n calls of Close.  Faulty variant: each of them  *)
(* gives one back.                                                          *)
GivenBackEach(n) == n
GivenBack(n) == 1

(* The caller closes the body, possibly twice. *)
Close(w) ==
    /\ pc[w] = "body"
    /\ \E n \in 1..2 : sem' = IF sem > GivenBack(n) THEN sem - GivenBack(n) ELSE 0
    /\ Return(w)
    /\ UNCHANGED <<limit, ctx, calls, rateVars>>

-----------------------------------------------------------------------------
(* Time, cancellation. *)

(* A tick's token, up to the burst.  Faulty variant: the time of the last   *)
(* refill is overwritten before it is used.                                 *)
RefillLastFirst(b) == tokens[b]
Refill(b) == IF tokens[b] < Burst THEN tokens[b] + 1 ELSE Burst

Tick ==
    /\ Limited
    /\ ticks' = IF ticks < MaxTicks THEN ticks + 1 ELSE ticks
    /\ tokens' = [b \in Buckets |-> Refill(b)]
    /\ UNCHANGED <<limit, ctx, pc, callVars, calls, sem, sent>>

Cancel ==
    /\ ctx = "live"
    /\ ctx' = "cancelled"
    /\ UNCHANGED <<limit, pc, callVars, calls, sem, rateVars>>

(* Every worker has made its calls. *)
Finished ==
    /\ \A w \in Workers : pc[w] = "idle" /\ calls[w] = MaxCalls
    /\ UNCHANGED vars

Next ==
    \/ \E w \in Workers :
          \/ Call(w) \/ TakeToken(w) \/ Send(w) \/ GetBodyFails(w) \/ Cancelled(w)
          \/ Transient(w) \/ Retry(w) \/ Permanent(w) \/ Success(w) \/ Close(w)
    \/ Tick \/ Cancel \/ Finished

Spec == Init /\ [][Next]_vars

(* Requests end (each attempt has a timeout), callers close the bodies they *)
(* get, pauses end, and a channel serves its blocked senders in turn.  The  *)
(* limiter promises its waiters no order, so it gets weak fairness only.    *)
FairSpec ==
    /\ Spec
    /\ \A w \in Workers :
          /\ WF_vars(TakeToken(w)) /\ SF_vars(Send(w) \/ GetBodyFails(w))
          /\ WF_vars(Transient(w) \/ Permanent(w) \/ Success(w))
          /\ WF_vars(Retry(w)) /\ WF_vars(Close(w))
    /\ WF_vars(Tick)

-----------------------------------------------------------------------------
(* Every variable holds a value of its type. *)
TypeOK ==
    /\ limit \in Limits /\ ctx \in {"live", "cancelled"}
    /\ pc \in [Workers -> {"idle", "limit", "slot", "sent", "pause", "body"}]
    /\ host \in [Workers -> Hosts] /\ replayable \in [Workers -> BOOLEAN]
    /\ attempt \in [Workers -> 0..MaxRetries]
    /\ calls \in [Workers -> 0..MaxCalls]
    /\ sem \in 0..Concurrency
    /\ tokens \in [Buckets -> 0..Burst]
    /\ sent \in [Buckets -> Nat] /\ ticks \in 0..MaxTicks

(* A slot is held exactly while a request is out or a body is open: none is *)
(* leaked on any way out of Do, none is given back twice, and no more than  *)
(* Concurrency requests and bodies exist at a time.                         *)
Holders == {w \in Workers : pc[w] \in {"sent", "body"}}
SlotsExact == sem = Cardinality(Holders)

(* Retries included, no bucket lets through more than its burst and one     *)
(* request per tick in the long run.                                        *)
LongRunRate == Limited /\ ticks < MaxTicks => \A b \in Buckets : sent[b] <= Burst + ticks

(* Every call returns: no slot is waited for for ever.                      *)
CallsReturn == \A w \in Workers : pc[w] # "idle" ~> pc[w] = "idle"
=============================================================================
