------------------------------- MODULE Ingest -------------------------------
(***************************************************************************)
(* What the collector promises the adapters that feed it, with the queue,  *)
(* the writer goroutine, its batching and its failures all hidden:         *)
(*                                                                         *)
(*   - messages (a batch of records, or a new resume state) are accepted   *)
(*     in one order;                                                       *)
(*   - what is durable always changes by committing a prefix of them, the  *)
(*     records and the newest state of that prefix in the same step;       *)
(*   - a crash, or a writer that gives up, loses the whole rest and never  *)
(*     a part of it.                                                       *)
(*                                                                         *)
(* This is docs/architecture.md "Crash safety" and the comment on Writer   *)
(* (internal/db/writer.go) as the code in src/internal/collect and         *)
(* src/internal/db keeps them.  Pipeline.tla is shown to implement it, and *)
(* the adapters are modelled on top of it.                                 *)
(***************************************************************************)
EXTENDS Naturals, Sequences

CONSTANTS Record,   \* records, each named by the key that makes its row unique
          State,    \* resume states of one source
          NoState   \* no state in a message, or no row in _source_state

VARIABLES backlog,  \* messages accepted and not yet durable, oldest first
          rows,     \* records in the database
          saved     \* the source's row in _source_state, or NoState

vars == <<backlog, rows, saved>>

Message == [recs : SUBSET Record, state : {NoState} \cup State]

TypeOK ==
    /\ backlog \in Seq(Message)
    /\ rows \subseteq Record
    /\ saved \in {NoState} \cup State

(* The records of the messages of s. *)
RecsOf(s) == UNION {s[i].recs : i \in DOMAIN s}

(* st is the newest state among the messages of s, or old if they have none. *)
IsLastState(s, old, st) ==
    \/ /\ \A i \in DOMAIN s : s[i].state = NoState
       /\ st = old
    \/ \E i \in DOMAIN s :
          /\ s[i].state # NoState
          /\ st = s[i].state
          /\ \A j \in DOMAIN s : j > i => s[j].state = NoState

Init ==
    /\ backlog = <<>>
    /\ rows = {}
    /\ saved = NoState

Accept(m) ==
    /\ backlog' = Append(backlog, m)
    /\ UNCHANGED <<rows, saved>>

(* One transaction makes the n oldest messages durable. *)
Commit(n) ==
    LET prefix == SubSeq(backlog, 1, n)
    IN  /\ rows' = rows \cup RecsOf(prefix)
        /\ \E st \in {saved} \cup {backlog[i].state : i \in 1..n} :
              /\ IsLastState(prefix, saved, st)
              /\ saved' = st
        /\ backlog' = SubSeq(backlog, n + 1, Len(backlog))

(* The process dies, or the writer fails and gives up. *)
Lose ==
    /\ backlog' = <<>>
    /\ UNCHANGED <<rows, saved>>

(* --reset deletes the state between two runs. *)
Clear ==
    /\ backlog = <<>>
    /\ saved' = NoState
    /\ UNCHANGED <<backlog, rows>>

Next ==
    \/ \E m \in Message : Accept(m)
    \/ \E n \in 1..Len(backlog) : Commit(n)
    \/ Lose
    \/ Clear

Spec == Init /\ [][Next]_vars
=============================================================================
