--------------------------------- MODULE Sink ---------------------------------
(***************************************************************************)
(* What one adapter sees of a run: env.Emit and env.SaveState on top of    *)
(* the log of Ingest.tla, with the goroutines of the pipeline hidden.      *)
(*                                                                         *)
(* Emit charges a batch against --max-records, queues what is left of it,  *)
(* and returns nil or ErrLimit; a cancelled context or a writer that has   *)
(* given up may refuse it instead.  Once the writer has given up, what is  *)
(* still queued is drained and lost.  The adapters' modules instantiate    *)
(* this one and add their own state and steps.  The rows of _errors, which *)
(* env.Error emits and which no limit counts, are left out.                *)
(***************************************************************************)
EXTENDS Ingest

CONSTANTS MaxRecords,  \* --max-records, 0 for no limit
          Faults       \* what may fail; "flush" is the writer's transaction

VARIABLES phase,       \* "idle", "collecting", or "closing" after Collect
          ctx,         \* "live" or "cancelled"
          writer,      \* "live", or "dead" once a flush has failed
          emitted      \* records charged against MaxRecords in this run

runVars == <<phase, ctx, writer, emitted>>

SinkType ==
    /\ TypeOK
    /\ phase \in {"idle", "collecting", "closing"}
    /\ ctx \in {"live", "cancelled"}
    /\ writer \in {"live", "dead"}
    /\ emitted \in Nat

SinkInit ==
    /\ Init
    /\ phase = "idle" /\ ctx = "live" /\ writer = "live" /\ emitted = 0

RecsIn(batch) == {batch[i] : i \in DOMAIN batch}

(* A batch of n records crosses the limit; what the limit leaves of it.     *)
Overdraws(n) == MaxRecords > 0 /\ n > 0 /\ emitted + n > MaxRecords
Room == IF emitted < MaxRecords THEN MaxRecords - emitted ELSE 0
Kept(batch) == IF Overdraws(Len(batch)) THEN SubSeq(batch, 1, Room) ELSE batch

(* send: the message joins the log, or is drained behind a dead writer.     *)
Deliver(m) == IF writer = "live" THEN Accept(m) ELSE UNCHANGED vars
Refused(err) ==
    \/ err = "Canceled" /\ ctx = "cancelled"
    \/ err = "WriteErr" /\ writer = "dead"

Emit(batch, err) ==
    /\ emitted' = IF MaxRecords > 0 THEN emitted + Len(batch) ELSE emitted
    /\ \/ /\ err = IF Overdraws(Len(batch)) THEN "ErrLimit" ELSE "nil"
          /\ IF Kept(batch) = <<>>
             THEN UNCHANGED vars
             ELSE Deliver([recs |-> RecsIn(Kept(batch)), state |-> NoState])
       \/ /\ Kept(batch) # <<>> /\ Refused(err)
          /\ UNCHANGED vars
    /\ UNCHANGED <<phase, ctx, writer>>

PutState(st, err) ==
    /\ \/ err = "nil" /\ Deliver([recs |-> {}, state |-> st])
       \/ Refused(err) /\ UNCHANGED vars
    /\ UNCHANGED runVars

Errors == {"nil", "ErrLimit", "Canceled", "WriteErr"}

(* The run around Collect. *)
StartRun ==
    /\ phase = "idle"
    /\ phase' = "collecting" /\ ctx' = "live" /\ writer' = "live" /\ emitted' = 0
    /\ UNCHANGED vars

CollectReturns ==
    /\ phase' = "closing"
    /\ UNCHANGED <<ctx, writer, emitted, vars>>

(* The queue is closed and the writer has finished. *)
EndRun ==
    /\ phase = "closing" /\ backlog = <<>>
    /\ phase' = "idle"
    /\ UNCHANGED <<ctx, writer, emitted, vars>>

(* The writer commits what it has received, or fails and gives up. *)
Write ==
    /\ \E n \in 1..Len(backlog) : Commit(n)
    /\ UNCHANGED runVars

WriteFails ==
    /\ "flush" \in Faults /\ backlog # <<>>
    /\ writer' = "dead"
    /\ Lose
    /\ UNCHANGED <<phase, ctx, emitted>>

Interrupt ==
    /\ phase # "idle" /\ ctx = "live"
    /\ ctx' = "cancelled"
    /\ UNCHANGED <<phase, writer, emitted, vars>>

Crash ==
    /\ phase # "idle"
    /\ phase' = "idle"
    /\ Lose
    /\ UNCHANGED <<ctx, writer, emitted>>
=============================================================================
