-------------------------------- MODULE Prefetch --------------------------------
(***************************************************************************)
(* prefetch of src/internal/source/gdelt/gdelt.go: the goroutines that     *)
(* download ahead of the adapter's loop.  The feeder puts a job per file   *)
(* into the channel `out` and starts its download; the relay takes the     *)
(* jobs in order, waits for each download to finish and passes the job on  *)
(* through the channel `ordered`, over which Collect ranges.  Both         *)
(* channels hold Workers jobs.  A cancelled context stops the feeder and   *)
(* the relay at their next select, and makes the downloads fail.           *)
(*                                                                         *)
(* A job is its file.  Gdelt.tla puts these goroutines beside the loop.    *)
(***************************************************************************)
EXTENDS Naturals, Sequences, FiniteSets

CONSTANTS File, NoFile,
          Workers,  \* capacity of each channel
          MayFail   \* a download may fail in a run that goes on

VARIABLES
    ctx,         \* "live" or "cancelled", the run's context
    waiting,     \* files the feeder has not put into out yet, in order
    feeder,      \* "running", or "done" once it has closed out
    out,         \* the channel between feeder and relay
    running,     \* jobs whose download goroutine is running
    finished,    \* jobs whose done channel is closed
    broken,      \* those of them that carry an error
    relay,       \* "running", or "done" once it has closed ordered
    held,        \* the job the relay has taken from out
    ordered      \* the channel between relay and Collect

downloadVars == <<running, finished, broken>>
prefetchVars == <<waiting, feeder, out, downloadVars, relay, held, ordered>>

(* No goroutine exists: a process that has just started. *)
Off ==
    /\ waiting = <<>> /\ feeder = "done" /\ out = <<>>
    /\ running = {} /\ finished = {} /\ broken = {}
    /\ relay = "done" /\ held = NoFile /\ ordered = <<>>

Begin(files) ==
    /\ waiting' = files /\ feeder' = "running" /\ relay' = "running"
    /\ UNCHANGED <<out, downloadVars, held, ordered>>

-----------------------------------------------------------------------------
(* The feeder, and the downloads it starts. *)

(* Each of them is blocked until its guard holds.  Faulty variant: the      *)
(* channel has no bound.                                                    *)
MayOfferAll == feeder = "running" /\ waiting # <<>>
MayOffer == feeder = "running" /\ waiting # <<>> /\ Len(out) < Workers
Offer ==
    /\ MayOffer
    /\ out' = Append(out, Head(waiting))
    /\ running' = running \cup {Head(waiting)}
    /\ waiting' = Tail(waiting)
    /\ UNCHANGED <<ctx, feeder, finished, broken, relay, held, ordered>>

FeederMayEnd == feeder = "running" /\ (waiting = <<>> \/ ctx = "cancelled")
FeederEnds ==
    /\ FeederMayEnd
    /\ feeder' = "done"
    /\ UNCHANGED <<ctx, waiting, out, downloadVars, relay, held, ordered>>

Download(f) ==
    /\ f \in running
    /\ running' = running \ {f}
    /\ finished' = finished \cup {f}
    /\ \/ UNCHANGED broken
       \/ (ctx = "cancelled" \/ MayFail) /\ broken' = broken \cup {f}
    /\ UNCHANGED <<ctx, waiting, feeder, out, relay, held, ordered>>

-----------------------------------------------------------------------------
(* The relay. *)

(* Faulty variant: takes whichever download finished first.                 *)
TakeFinished ==
    /\ relay = "running" /\ held = NoFile
    /\ \E i \in DOMAIN out :
          /\ out[i] \in finished
          /\ held' = out[i]
          /\ out' = SubSeq(out, 1, i - 1) \o SubSeq(out, i + 1, Len(out))
    /\ UNCHANGED <<ctx, waiting, feeder, downloadVars, relay, ordered>>
MayTake == relay = "running" /\ held = NoFile /\ out # <<>>
TakeFromOut ==
    /\ MayTake
    /\ held' = Head(out)
    /\ out' = Tail(out)
    /\ UNCHANGED <<ctx, waiting, feeder, downloadVars, relay, ordered>>

(* Faulty variant: the job is passed on while its download is running.      *)
MayPassOnEarly == relay = "running" /\ held # NoFile /\ Len(ordered) < Workers
MayPassOn == relay = "running" /\ held \in finished /\ Len(ordered) < Workers
PassOn ==
    /\ MayPassOn
    /\ ordered' = Append(ordered, held)
    /\ held' = NoFile
    /\ UNCHANGED <<ctx, waiting, feeder, out, downloadVars, relay>>

(* The relay leaves when out is closed and empty, or gives up its job once  *)
(* the context is cancelled.  Faulty variants: does not look at the         *)
(* context; does not empty out.                                             *)
RelayMayEndBlind == relay = "running" /\ held = NoFile /\ out = <<>> /\ feeder = "done"
RelayMayEndEarly == relay = "running" /\ held = NoFile /\ feeder = "done"
RelayMayEnd ==
    /\ relay = "running"
    /\ \/ held = NoFile /\ out = <<>> /\ feeder = "done"
       \/ held \in finished /\ ctx = "cancelled"
RelayEnds ==
    /\ RelayMayEnd
    /\ relay' = "done"
    /\ UNCHANGED <<ctx, waiting, feeder, out, downloadVars, held, ordered>>

Goroutine ==
    \/ Offer \/ FeederEnds \/ (\E f \in File : Download(f))
    \/ TakeFromOut \/ PassOn \/ RelayEnds

(* One of them is not blocked, and all have ended. *)
Awake == MayOffer \/ FeederMayEnd \/ running # {} \/ MayTake \/ MayPassOn \/ RelayMayEnd
Ended == feeder = "done" /\ relay = "done" /\ running = {}

-----------------------------------------------------------------------------
(* Collect's side of the channel. *)

Receive(f) ==
    /\ ordered # <<>> /\ f = Head(ordered)
    /\ ordered' = Tail(ordered)
    /\ UNCHANGED <<waiting, feeder, out, downloadVars, relay, held>>

Closed == relay = "done" /\ ordered = <<>>
=============================================================================
