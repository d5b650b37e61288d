--------------------------------- MODULE Gdelt ---------------------------------
(***************************************************************************)
(* The GDELT adapter with the goroutines that download ahead of it: the    *)
(* loop of Collect (GdeltSource.tla) ranges over the channel that prefetch *)
(* (Prefetch.tla) returns, src/internal/source/gdelt/gdelt.go.  Which file *)
(* the loop gets next, whether its download failed and when the channel is *)
(* closed are decided by the goroutines.  They live until they end or the  *)
(* process does: Collect may leave its loop before them, and the run is    *)
(* over without waiting for them.                                          *)
(***************************************************************************)
EXTENDS GdeltSource

CONSTANT Workers   \* capacity of each channel of prefetch

ASSUME PrefetchAssumption == Workers \in Nat \ {0}

VARIABLES waiting, feeder, out, running, finished, broken, relay, held, ordered

Ahead == INSTANCE Prefetch WITH MayFail <- "download" \in Faults

prefetchVars == <<waiting, feeder, out, running, finished, broken, relay, held, ordered>>
allVars == <<vars, prefetchVars>>

(* The goroutines of the last process are gone. *)
NewProcess ==
    /\ waiting' = <<>> /\ feeder' = "done" /\ out' = <<>>
    /\ running' = {} /\ finished' = {} /\ broken' = {}
    /\ relay' = "done" /\ held' = NoFile /\ ordered' = <<>>

GInit == Init /\ Ahead!Off

-----------------------------------------------------------------------------
(* The steps of Collect that prefetch has a part in. *)

(* filterFiles sorts what it selects; without a file there is no prefetch.  *)
Sorted(S) ==
    CHOOSE s \in [1..Cardinality(S) -> S] :
        \A i, j \in 1..Cardinality(S) : i < j => Before(s[i], s[j])
Listing ==
    /\ Discover
    /\ IF selected' = {} THEN UNCHANGED prefetchVars
                         ELSE Ahead!Begin(Sorted(selected'))

Receive(f) == Ahead!Receive(f) /\ Take(f, f \notin broken)

(* The range loop ends with the channel.                                    *)
Leaving ==
    /\ step = "loop" => Ahead!Closed
    /\ Leave
    /\ UNCHANGED prefetchVars

Looping ==
    /\ \/ DiscoverFails \/ AlreadyCollected
       \/ IngestBatch \/ IngestLast \/ IngestBroken \/ SaveState
    /\ UNCHANGED prefetchVars

Collecting == Listing \/ (\E f \in File : Receive(f)) \/ Leaving \/ Looping

-----------------------------------------------------------------------------
(* Everything around it. *)

Starting(resume) == StartRun(resume) /\ NewProcess
Crashing == Crash /\ NewProcess

Around ==
    /\ EndRun \/ Write \/ WriteFails \/ Publish \/ Interrupt
    /\ UNCHANGED prefetchVars

Goroutine ==
    /\ Ahead!Goroutine
    /\ UNCHANGED <<backlog, rows, saved, phase, writer, emitted, published, stops, step,
                   stamp, jobVars, result>>

GNext ==
    \/ \E resume \in BOOLEAN : Starting(resume)
    \/ Crashing \/ Collecting \/ Around \/ Goroutine

GSpec == GInit /\ [][GNext]_allVars

(* The collector is started again and again, infinitely often with --resume *)
(* (the default; another start in between does not count); within a run     *)
(* downloads end (the client bounds each by its timeout and its retries)    *)
(* and every goroutine goes on.                                             *)
ByItself(A) == A /\ UNCHANGED <<backlog, rows, saved, phase, writer, emitted, published,
                                stops, step, stamp, jobVars, result>>
GFairSpec ==
    /\ GSpec
    /\ SF_allVars(Starting(TRUE)) /\ WF_allVars(Collecting)
    /\ WF_allVars(EndRun /\ UNCHANGED prefetchVars)
    /\ WF_allVars(Write /\ UNCHANGED prefetchVars)
    /\ WF_allVars(ByItself(Ahead!Offer \/ Ahead!FeederEnds))
    /\ \A f \in File : WF_allVars(ByItself(Ahead!Download(f)))
    /\ WF_allVars(ByItself(Ahead!TakeFromOut))
    /\ WF_allVars(ByItself(Ahead!PassOn \/ Ahead!RelayEnds))

-----------------------------------------------------------------------------
(* However the downloads finish and wherever the context is cancelled, the  *)
(* loop behaves as if it took the files itself, one after the other in      *)
(* "strict file order" (gdelt.go:219): none twice, none left out, and the   *)
(* channel ends before the last one only in a cancelled run.                *)
ImplementsSource == Spec

(* Collect reads job.data and job.err only after the download has written   *)
(* them: the two goroutines never touch a job at the same time.             *)
NoEarlyRead == job # NoFile => job \in finished

(* However many files a run has and however slow the database is, no more   *)
(* than Workers + 1 downloads run at a time: a job that nobody receives     *)
(* holds up the relay, a full channel the feeder.                           *)
DownloadsBounded == Cardinality(running) <= Workers + 1

(* Once Collect has left after a cancellation or with success, prefetch     *)
(* comes to its end too: no goroutine and no download waits for a channel   *)
(* nobody uses any more, in a process that goes on with its next source.    *)
NoneLeftBehind ==
    step = "off" /\ (ctx = "cancelled" \/ result = "nil") /\ ~Ahead!Awake => Ahead!Ended

(* The files the next backfill selects are as many as it may take, and all  *)
(* of them are collected: it passes them over and does not advance          *)
(* (gdelt.go:80-83), so that it selects the same ones for ever.  Files come *)
(* to lie like this when a run stops between the commit of a file's row and *)
(* that of its stamp, or when a run without --resume is cancelled at a file *)
(* it has already, takes it in again and saves its old stamp.               *)
Stalled ==
    LET next == Capped({f \in File : f[1] <= published /\ (saved # NoState => f[1] > saved)})
    IN  Cardinality(next) = MaxFiles /\ \A f \in next : Collected(f)

(* A backfill that is repeated gets every published file, again and again,  *)
(* if interrupts and crashes stop in the end and nothing else fails, unless *)
(* such a stop has left it stalled.                                         *)
EventuallyCollected ==
    []<>(\/ \A f \in File : f[1] <= published => Collected(f)
         \/ Stalled /\ stops > 0)
=============================================================================
