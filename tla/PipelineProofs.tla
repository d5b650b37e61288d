--------------------------- MODULE PipelineProofs ---------------------------
(***************************************************************************)
(* Theorems about Pipeline, for every set of emitters and records, every   *)
(* queue and batch size, every limit, any number of runs and calls.        *)
(***************************************************************************)
EXTENDS Pipeline, TLAPS, SequenceTheorems, FiniteSetTheorems

-----------------------------------------------------------------------------
(* The operators of the model. *)

LEMMA CardinalityType ==
    ASSUME NEW S \in SUBSET Record
    PROVE  IsFiniteSet(S) /\ Cardinality(S) \in Nat
  BY RecordAssumption, FS_Subset, FS_CardinalityType

LEMMA DataCountType ==
    ASSUME NEW S \in SUBSET Record
    PROVE  DataCount(S) \in Nat
  <1>1. S \cap DataRecord \in SUBSET Record
    OBVIOUS
  <1> QED
    BY <1>1, CardinalityType DEF DataCount

LEMMA AdmittedType ==
    ASSUME NEW recs \in Batches, NEW kept \in Admitted(recs)
    PROVE  recs \in SUBSET Record /\ kept \in SUBSET Record
  BY BatchesAssumption DEF Admitted, Truncated

LEMMA NewestType ==
    ASSUME NEW a \in {NoState} \cup State, NEW b \in {NoState} \cup State
    PROVE  Newest(a, b) \in {NoState} \cup State
  BY DEF Newest

LEMMA NoOutgoingType == NoOutgoing \in Outgoing
  BY DEF NoOutgoing, Outgoing, Message

LEMMA NoMessageType == <<>> \in Seq(Message)
  OBVIOUS

-----------------------------------------------------------------------------
(* Type correctness. *)

LEMMA InitType == Init => TypeOK
  <1> SUFFICES ASSUME Init
               PROVE  TypeOK
    OBVIOUS
  <1>1. RunType
    BY DEF Init, RunType
  <1>2. SourceType
    BY NoOutgoingType DEF Init, SourceType
  <1>3. QueueType
    BY NoMessageType DEF Init, QueueType
  <1>4. WriterType
    BY DEF Init, WriterType
  <1>5. DbType
    BY DEF Init, DbType
  <1>6. HistoryType
    BY NoMessageType DEF Init, HistoryType
  <1> QED
    BY <1>1, <1>2, <1>3, <1>4, <1>5, <1>6 DEF TypeOK

(* A step that leaves a group of variables alone keeps the group typed. *)
LEMMA UnchangedType ==
    /\ RunType /\ UNCHANGED runVars => RunType'
    /\ SourceType /\ UNCHANGED srcVars => SourceType'
    /\ QueueType /\ UNCHANGED queueVars => QueueType'
    /\ WriterType /\ UNCHANGED writerVars => WriterType'
    /\ DbType /\ UNCHANGED dbVars => DbType'
    /\ HistoryType /\ UNCHANGED histVars => HistoryType'
  <1>1. RunType /\ UNCHANGED runVars => RunType'
    BY DEF RunType, runVars
  <1>2. SourceType /\ UNCHANGED srcVars => SourceType'
    BY DEF SourceType, srcVars
  <1>3. QueueType /\ UNCHANGED queueVars => QueueType'
    BY DEF QueueType, queueVars
  <1>4. WriterType /\ UNCHANGED writerVars => WriterType'
    BY DEF WriterType, writerVars
  <1>5. DbType /\ UNCHANGED dbVars => DbType'
    BY DEF DbType, dbVars
  <1>6. HistoryType /\ UNCHANGED histVars => HistoryType'
    BY DEF HistoryType, histVars
  <1> QED
    BY <1>1, <1>2, <1>3, <1>4, <1>5, <1>6

LEMMA ResetType ==
    ASSUME TypeOK, Reset
    PROVE  TypeOK'
  <1>1. DbType'
    BY DEF TypeOK, DbType, Reset
  <1>2. HistoryType'
    BY DEF TypeOK, HistoryType, Reset
  <1>3. RunType' /\ SourceType' /\ QueueType' /\ WriterType'
    BY UnchangedType DEF TypeOK, Reset
  <1> QED
    BY <1>1, <1>2, <1>3 DEF TypeOK

LEMMA StartRunType ==
    ASSUME TypeOK, StartRun
    PROVE  TypeOK'
  <1>1. RunType'
    BY DEF TypeOK, RunType, StartRun
  <1>2. SourceType'
    BY DEF TypeOK, SourceType, StartRun
  <1>3. QueueType'
    BY DEF TypeOK, QueueType, StartRun
  <1>4. WriterType'
    BY DEF TypeOK, WriterType, StartRun
  <1>5. DbType'
    BY DEF TypeOK, DbType, StartRun
  <1>6. HistoryType'
    BY CardinalityType DEF TypeOK, HistoryType, StartRun, DbType
  <1> QED
    BY <1>1, <1>2, <1>3, <1>4, <1>5, <1>6 DEF TypeOK

LEMMA BeginCollectType ==
    ASSUME TypeOK, NEW resume \in BOOLEAN, BeginCollect(resume)
    PROVE  TypeOK'
  <1>1. RunType'
    BY DEF TypeOK, RunType, BeginCollect
  <1>2. SourceType'
    BY DEF TypeOK, SourceType, BeginCollect, DbType, State
  <1>3. WriterType'
    BY DEF TypeOK, WriterType, BeginCollect
  <1>4. QueueType' /\ DbType' /\ HistoryType'
    BY UnchangedType DEF TypeOK, BeginCollect
  <1> QED
    BY <1>1, <1>2, <1>3, <1>4 DEF TypeOK

LEMMA LoadFailsType ==
    ASSUME TypeOK, LoadFails
    PROVE  TypeOK'
  <1>1. RunType'
    BY DEF TypeOK, RunType, LoadFails
  <1>2. SourceType' /\ QueueType' /\ WriterType' /\ DbType' /\ HistoryType'
    BY UnchangedType DEF TypeOK, LoadFails
  <1> QED
    BY <1>1, <1>2 DEF TypeOK

LEMMA EmitBeginType ==
    ASSUME TypeOK, NEW e \in Emitters, EmitBegin(e)
    PROVE  TypeOK'
  <1>1. PICK recs \in Batches : \E kept \in Admitted(recs) : Dispatch(e, recs, kept)
    BY DEF EmitBegin
  <1>2. PICK kept \in Admitted(recs) : Dispatch(e, recs, kept)
    BY <1>1
  <1>3. [msg |-> [recs |-> kept, state |-> NoState], limited |-> Overdraws(recs)] \in Outgoing
    BY AdmittedType DEF Outgoing, Message, Overdraws
  <1>4. SourceType'
    <2>1. out' \in [Emitters -> Outgoing]
          /\ pc' \in [Emitters -> {"returned", "idle", "send", "sent"}]
      BY <1>2, <1>3 DEF TypeOK, SourceType, Dispatch
    <2>2. covered' \subseteq Record /\ calls' \in Nat
      BY DEF TypeOK, SourceType, EmitBegin
    <2>3. seen' \subseteq {"ErrLimit", "WriteErr", "Canceled"}
      BY <1>2 DEF TypeOK, SourceType, Dispatch
    <2> QED
      BY <2>1, <2>2, <2>3 DEF SourceType
  <1>5. QueueType'
    BY <1>2, AdmittedType, DataCountType, LimitAssumption DEF TypeOK, QueueType, EmitBegin, Dispatch, Charged
  <1>6. RunType' /\ WriterType' /\ DbType' /\ HistoryType'
    BY UnchangedType DEF TypeOK, EmitBegin
  <1> QED
    BY <1>4, <1>5, <1>6 DEF TypeOK

LEMMA PutStateBeginType ==
    ASSUME TypeOK, NEW e \in Emitters, PutStateBegin(e)
    PROVE  TypeOK'
  <1>1. [msg |-> [recs |-> {}, state |-> covered], limited |-> FALSE] \in Outgoing
    BY DEF TypeOK, SourceType, Outgoing, Message, State
  <1>2. SourceType'
    BY <1>1 DEF TypeOK, SourceType, PutStateBegin
  <1>3. RunType' /\ QueueType' /\ WriterType' /\ DbType' /\ HistoryType'
    BY UnchangedType DEF TypeOK, PutStateBegin
  <1> QED
    BY <1>2, <1>3 DEF TypeOK

LEMMA SendType ==
    ASSUME TypeOK, NEW e \in Emitters, Send(e)
    PROVE  TypeOK'
  <1>1. out[e].msg \in Message
    BY DEF TypeOK, SourceType, Outgoing
  <1>2. out[e].msg.recs \subseteq Record /\ out[e].msg.state \in {NoState} \cup State
    BY <1>1 DEF Message
  <1>3. SourceType'
    BY DEF TypeOK, SourceType, Send
  <1>4. QueueType'
    BY <1>1, AppendProperties DEF TypeOK, QueueType, Send
  <1>5. HistoryType'
    BY <1>2, NewestType DEF TypeOK, HistoryType, Send
  <1>6. RunType' /\ WriterType' /\ DbType'
    BY UnchangedType DEF TypeOK, Send
  <1> QED
    BY <1>3, <1>4, <1>5, <1>6 DEF TypeOK

LEMMA SendStoppedType ==
    ASSUME TypeOK, NEW e \in Emitters, SendStopped(e)
    PROVE  TypeOK'
  <1>1. SourceType'
    BY DEF TypeOK, SourceType, SendStopped
  <1>2. RunType' /\ QueueType' /\ WriterType' /\ DbType' /\ HistoryType'
    BY UnchangedType DEF TypeOK, SendStopped
  <1> QED
    BY <1>1, <1>2 DEF TypeOK

LEMMA SendCancelledType ==
    ASSUME TypeOK, NEW e \in Emitters, SendCancelled(e)
    PROVE  TypeOK'
  <1>1. SourceType'
    BY DEF TypeOK, SourceType, SendCancelled
  <1>2. RunType' /\ QueueType' /\ WriterType' /\ DbType' /\ HistoryType'
    BY UnchangedType DEF TypeOK, SendCancelled
  <1> QED
    BY <1>1, <1>2 DEF TypeOK

LEMMA EmitEndType ==
    ASSUME TypeOK, NEW e \in Emitters, EmitEnd(e)
    PROVE  TypeOK'
  <1>1. out[e].msg.recs \in SUBSET Record
    BY DEF TypeOK, SourceType, Outgoing, Message
  <1>2. SourceType'
    BY <1>1 DEF TypeOK, SourceType, EmitEnd
  <1>3. QueueType'
    BY <1>1, DataCountType DEF TypeOK, QueueType, EmitEnd
  <1>4. RunType' /\ WriterType' /\ DbType' /\ HistoryType'
    BY UnchangedType DEF TypeOK, EmitEnd
  <1> QED
    BY <1>2, <1>3, <1>4 DEF TypeOK

LEMMA ReturnType ==
    ASSUME TypeOK, NEW e \in Emitters, Return(e)
    PROVE  TypeOK'
  <1>1. SourceType'
    BY DEF TypeOK, SourceType, Return
  <1>2. RunType' /\ QueueType' /\ WriterType' /\ DbType' /\ HistoryType'
    BY UnchangedType DEF TypeOK, Return
  <1> QED
    BY <1>1, <1>2 DEF TypeOK

LEMMA ReceiveType ==
    ASSUME TypeOK, Receive
    PROVE  TypeOK'
  <1>1. Head(ch) \in Message /\ Tail(ch) \in Seq(Message)
    BY HeadTailProperties DEF Receive, TypeOK, QueueType
  <1>2. Head(ch).recs \in SUBSET Record /\ Head(ch).state \in {NoState} \cup State
    BY <1>1 DEF Message
  <1>3. QueueType'
    BY <1>1 DEF TypeOK, QueueType, Receive
  <1>4. WriterType'
    <2>1. nbuf' \in Nat /\ nrepl' \in Nat /\ wpc' \in {"off", "select", "flush", "final", "exiting", "done"}
      BY <1>2, CardinalityType DEF TypeOK, WriterType, Receive, FullBatch, ReplaceCount
    <2>2. pending' \in {NoState} \cup State
      BY <1>2, NewestType DEF TypeOK, WriterType, Receive
    <2>3. buf' \subseteq Record
      BY <1>2 DEF TypeOK, WriterType, Receive
    <2> QED
      BY <2>1, <2>2, <2>3 DEF WriterType, TypeOK, Receive
  <1>5. HistoryType'
    BY <1>1, <1>2, AppendProperties, CardinalityType DEF TypeOK, HistoryType, Receive, ReplaceCount
  <1>6. RunType' /\ SourceType' /\ DbType'
    BY UnchangedType DEF TypeOK, Receive
  <1> QED
    BY <1>3, <1>4, <1>5, <1>6 DEF TypeOK

LEMMA TickType ==
    ASSUME TypeOK, Tick
    PROVE  TypeOK'
  <1>1. WriterType'
    BY DEF TypeOK, WriterType, Tick
  <1>2. RunType' /\ SourceType' /\ QueueType' /\ DbType' /\ HistoryType'
    BY UnchangedType DEF TypeOK, Tick
  <1> QED
    BY <1>1, <1>2 DEF TypeOK

LEMMA QueueClosedType ==
    ASSUME TypeOK, QueueClosed
    PROVE  TypeOK'
  <1>1. WriterType'
    BY DEF TypeOK, WriterType, QueueClosed
  <1>2. RunType' /\ SourceType' /\ QueueType' /\ DbType' /\ HistoryType'
    BY UnchangedType DEF TypeOK, QueueClosed
  <1> QED
    BY <1>1, <1>2 DEF TypeOK

LEMMA FlushCommitType ==
    ASSUME TypeOK, FlushCommit
    PROVE  TypeOK'
  <1>1. WriterType'
    BY CardinalityType DEF TypeOK, WriterType, FlushCommit, DbType, Affected
  <1>2. DbType'
    BY NewestType DEF TypeOK, DbType, FlushCommit, WriterType
  <1>3. HistoryType'
    BY DEF TypeOK, HistoryType, FlushCommit
  <1>4. RunType' /\ SourceType' /\ QueueType'
    BY UnchangedType DEF TypeOK, FlushCommit
  <1> QED
    BY <1>1, <1>2, <1>3, <1>4 DEF TypeOK

LEMMA FlushFailType ==
    ASSUME TypeOK, FlushFail
    PROVE  TypeOK'
  <1>1. QueueType'
    BY DEF TypeOK, QueueType, FlushFail
  <1>2. WriterType'
    BY CardinalityType DEF TypeOK, WriterType, FlushFail, DbType, Affected
  <1>3. RunType' /\ SourceType' /\ DbType' /\ HistoryType'
    BY UnchangedType DEF TypeOK, FlushFail
  <1> QED
    BY <1>1, <1>2, <1>3 DEF TypeOK

LEMMA WriterExitType ==
    ASSUME TypeOK, WriterExit
    PROVE  TypeOK'
  <1>1. WriterType'
    BY DEF TypeOK, WriterType, WriterExit
  <1>2. RunType' /\ SourceType' /\ QueueType' /\ DbType' /\ HistoryType'
    BY UnchangedType DEF TypeOK, WriterExit
  <1> QED
    BY <1>1, <1>2 DEF TypeOK

LEMMA DrainType ==
    ASSUME TypeOK, Drain
    PROVE  TypeOK'
  <1>1. QueueType'
    BY HeadTailProperties DEF TypeOK, QueueType, Drain
  <1>2. RunType' /\ SourceType' /\ WriterType' /\ DbType' /\ HistoryType'
    BY UnchangedType DEF TypeOK, Drain
  <1> QED
    BY <1>1, <1>2 DEF TypeOK

LEMMA CloseQueueType ==
    ASSUME TypeOK, CloseQueue
    PROVE  TypeOK'
  <1>1. RunType'
    BY DEF TypeOK, RunType, CloseQueue, SourceType
  <1>2. QueueType'
    BY DEF TypeOK, QueueType, CloseQueue
  <1>3. SourceType' /\ WriterType' /\ DbType' /\ HistoryType'
    BY UnchangedType DEF TypeOK, CloseQueue
  <1> QED
    BY <1>1, <1>2, <1>3 DEF TypeOK

LEMMA FinishRunType ==
    ASSUME TypeOK, FinishRun
    PROVE  TypeOK'
  <1>1. RunType'
    BY DEF TypeOK, RunType, FinishRun, DropPipeline
  <1>2. SourceType'
    BY NoOutgoingType DEF TypeOK, SourceType, FinishRun, DropPipeline
  <1>3. QueueType'
    BY NoMessageType DEF TypeOK, QueueType, FinishRun, DropPipeline
  <1>4. WriterType'
    BY DEF TypeOK, WriterType, FinishRun, DropPipeline
  <1>5. DbType'
    BY DEF TypeOK, DbType, FinishRun, DropPipeline, WriterType, FinalStatus
  <1>6. HistoryType'
    BY NoMessageType DEF TypeOK, HistoryType, FinishRun, DropPipeline
  <1> QED
    BY <1>1, <1>2, <1>3, <1>4, <1>5, <1>6 DEF TypeOK

LEMMA InterruptType ==
    ASSUME TypeOK, Interrupt
    PROVE  TypeOK'
  <1>1. RunType'
    BY DEF TypeOK, RunType, Interrupt
  <1>2. SourceType' /\ QueueType' /\ WriterType' /\ DbType' /\ HistoryType'
    BY UnchangedType DEF TypeOK, Interrupt
  <1> QED
    BY <1>1, <1>2 DEF TypeOK

LEMMA CrashType ==
    ASSUME TypeOK, Crash
    PROVE  TypeOK'
  <1>1. RunType'
    BY DEF TypeOK, RunType, Crash, DropPipeline
  <1>2. SourceType'
    BY NoOutgoingType DEF TypeOK, SourceType, Crash, DropPipeline
  <1>3. QueueType'
    BY NoMessageType DEF TypeOK, QueueType, Crash, DropPipeline
  <1>4. WriterType'
    BY DEF TypeOK, WriterType, Crash, DropPipeline
  <1>5. DbType'
    BY UnchangedType DEF TypeOK, Crash
  <1>6. HistoryType'
    BY NoMessageType DEF TypeOK, HistoryType, Crash, DropPipeline
  <1> QED
    BY <1>1, <1>2, <1>3, <1>4, <1>5, <1>6 DEF TypeOK

LEMMA TypeStep == TypeOK /\ [Next]_vars => TypeOK'
  <1> SUFFICES ASSUME TypeOK, [Next]_vars
               PROVE  TypeOK'
    OBVIOUS
  <1>1. CASE \E e \in Emitters : EmitterStep(e)
    BY <1>1, EmitBeginType, PutStateBeginType, SendType, SendStoppedType, SendCancelledType,
       EmitEndType, ReturnType DEF EmitterStep
  <1>2. CASE WriterStep
    BY <1>2, ReceiveType, TickType, QueueClosedType, FlushCommitType, FlushFailType,
       WriterExitType, DrainType DEF WriterStep
  <1>3. CASE RunStep
    BY <1>3, ResetType, StartRunType, BeginCollectType, LoadFailsType, CloseQueueType,
       FinishRunType DEF RunStep
  <1>4. CASE Interrupt \/ Crash
    BY <1>4, InterruptType, CrashType
  <1>5. CASE Finished \/ UNCHANGED vars
    BY <1>5, UnchangedType DEF Finished, vars, TypeOK
  <1> QED
    BY <1>1, <1>2, <1>3, <1>4, <1>5 DEF Next

(* Every variable of the pipeline always has its type. *)
THEOREM TypeCorrect == Spec => []TypeOK
  <1>1. Init => TypeOK
    BY InitType
  <1>2. TypeOK /\ [Next]_vars => TypeOK'
    BY TypeStep
  <1> QED
    BY <1>1, <1>2, PTL DEF Spec

-----------------------------------------------------------------------------
(* Sequences of messages, and what they make durable. *)

LEMMA RecsAppend ==
    ASSUME NEW s \in Seq(Message), NEW m \in Message
    PROVE  Promise!RecsOf(Append(s, m)) = Promise!RecsOf(s) \cup m.recs
  <1> DEFINE t == Append(s, m)
  <1>1. /\ DOMAIN s = 1..Len(s) /\ DOMAIN t = 1..(Len(s) + 1)
        /\ \A i \in 1..Len(s) : t[i] = s[i]
        /\ t[Len(s) + 1] = m /\ Len(s) \in Nat
    BY AppendProperties, LenProperties
  <1>2. \A r : r \in Promise!RecsOf(t) <=> \E i \in 1..(Len(s) + 1) : r \in t[i].recs
    BY <1>1 DEF Promise!RecsOf
  <1>3. \A r : r \in Promise!RecsOf(s) <=> \E i \in 1..Len(s) : r \in s[i].recs
    BY <1>1 DEF Promise!RecsOf
  <1>4. ASSUME NEW r
        PROVE  r \in Promise!RecsOf(t) <=> r \in Promise!RecsOf(s) \/ r \in m.recs
    BY <1>1, <1>2, <1>3
  <1> QED
    BY <1>4

LEMMA LastStateAppend ==
    ASSUME NEW s \in Seq(Message), NEW m \in Message, NEW old, NEW st,
           m.state # NoState \/ Promise!IsLastState(s, old, st)
    PROVE  Promise!IsLastState(Append(s, m), old, Newest(st, m.state))
  <1> DEFINE t == Append(s, m)
  <1>1. /\ DOMAIN s = 1..Len(s) /\ DOMAIN t = 1..(Len(s) + 1)
        /\ \A i \in 1..Len(s) : t[i] = s[i]
        /\ t[Len(s) + 1] = m /\ Len(s) \in Nat
    BY AppendProperties, LenProperties
  <1>2. CASE m.state # NoState
    BY <1>1, <1>2 DEF Promise!IsLastState, Newest
  <1>3. CASE m.state = NoState
    BY <1>1, <1>3 DEF Promise!IsLastState, Newest
  <1> QED
    BY <1>2, <1>3

LEMMA LastStateTail ==
    ASSUME NEW s \in Seq(Message), s # <<>>, NEW old, NEW st,
           Promise!IsLastState(s, old, st)
    PROVE  Promise!IsLastState(Tail(s), Newest(old, Head(s).state), st)
  <1> DEFINE t == Tail(s)
  <1>1. /\ DOMAIN s = 1..Len(s) /\ DOMAIN t = 1..(Len(s) - 1)
        /\ \A i \in 1..(Len(s) - 1) : t[i] = s[i + 1]
        /\ Head(s) = s[1] /\ Len(s) \in Nat /\ Len(s) >= 1
    BY HeadTailProperties, LenProperties
  <1>2. CASE \A i \in DOMAIN s : s[i].state = NoState
    BY <1>1, <1>2 DEF Promise!IsLastState, Newest
  <1>3. CASE ~ \A i \in DOMAIN s : s[i].state = NoState
    <2>1. PICK i \in 1..Len(s) : /\ s[i].state # NoState /\ st = s[i].state
                                /\ \A j \in 1..Len(s) : j > i => s[j].state = NoState
      BY <1>1, <1>3 DEF Promise!IsLastState
    <2>2. CASE i = 1
      <3>1. \A j \in 1..(Len(s) - 1) : t[j].state = NoState
        BY <1>1, <2>1, <2>2
      <3>2. st = Newest(old, Head(s).state)
        BY <1>1, <2>1, <2>2 DEF Newest
      <3> QED
        BY <1>1, <3>1, <3>2 DEF Promise!IsLastState
    <2>3. CASE i # 1
      <3>1. i - 1 \in 1..(Len(s) - 1) /\ t[i - 1] = s[i]
        BY <1>1, <2>1, <2>3
      <3>2. \A j \in 1..(Len(s) - 1) : j > i - 1 => t[j].state = NoState
        BY <1>1, <2>1
      <3> QED
        BY <1>1, <2>1, <3>1, <3>2 DEF Promise!IsLastState
    <2> QED
      BY <2>2, <2>3
  <1> QED
    BY <1>2, <1>3

LEMMA LastStateOver ==
    ASSUME NEW s, NEW old, NEW st, Promise!IsLastState(s, NoState, st)
    PROVE  Promise!IsLastState(s, old, Newest(old, st))
  BY DEF Promise!IsLastState, Newest

(* What a longer part of the queue reaches. *)
LEMMA ReachedMonotone ==
    ASSUME NEW k \in Nat, NEW n \in Nat, k <= n
    PROVE  Reached(k) \subseteq Reached(n)
  BY DEF Reached

(* A send only adds behind the queue. *)
LEMMA ReachedSend ==
    ASSUME ch \in Seq(Message), NEW m \in Message,
           ch' = Append(ch, m), UNCHANGED <<rows, buf>>
    PROVE  /\ \A k \in 0..Len(ch) : Reached(k)' = Reached(k)
           /\ Len(ch') = Len(ch) + 1
           /\ Reached(Len(ch)) \cup m.recs \subseteq Reached(Len(ch))'
  <1>1. /\ \A i \in 1..Len(ch) : ch'[i] = ch[i]
        /\ ch'[Len(ch) + 1] = m /\ Len(ch) \in Nat /\ Len(ch') = Len(ch) + 1
    BY AppendProperties, LenProperties
  <1>2. \A k \in 0..Len(ch) : Reached(k)' = Reached(k)
    BY <1>1 DEF Reached
  <1>3. ASSUME NEW r \in Reached(Len(ch)) \cup m.recs
        PROVE  r \in Reached(Len(ch))'
    <2>1. CASE r \in m.recs
      BY <1>1, <2>1 DEF Reached
    <2>2. CASE r \in rows \cup buf
      BY <2>2 DEF Reached
    <2>3. CASE r \notin m.recs /\ r \notin rows \cup buf
      <3>1. PICK i \in 1..Len(ch) : r \in ch[i].recs
        BY <1>3, <2>3 DEF Reached
      <3> QED
        BY <1>1, <3>1 DEF Reached
    <2> QED
      BY <2>1, <2>2, <2>3
  <1> QED
    BY <1>1, <1>2, <1>3

(* Receiving a message moves it from the queue to the buffer. *)
LEMMA ReachedReceive ==
    ASSUME ch \in Seq(Message), ch # <<>>, UNCHANGED rows,
           ch' = Tail(ch), buf' = buf \cup Head(ch).recs
    PROVE  /\ Len(ch') = Len(ch) - 1 /\ Len(ch) \in Nat \ {0}
           /\ \A k \in 1..Len(ch) : Reached(k) \subseteq Reached(k - 1)'
  <1>1. /\ \A i \in 1..(Len(ch) - 1) : ch'[i] = ch[i + 1]
        /\ Head(ch) = ch[1] /\ Len(ch) \in Nat \ {0} /\ Len(ch') = Len(ch) - 1
    BY HeadTailProperties, LenProperties
  <1>2. ASSUME NEW k \in 1..Len(ch), NEW r \in Reached(k)
        PROVE  r \in Reached(k - 1)'
    <2>1. CASE r \in rows \cup buf
      BY <2>1 DEF Reached
    <2>2. CASE r \notin rows \cup buf
      <3>1. PICK i \in 1..k : r \in ch[i].recs
        BY <1>2, <2>2 DEF Reached
      <3>2. CASE i = 1
        BY <1>1, <3>1, <3>2 DEF Reached
      <3>3. CASE i # 1
        <4>1. i - 1 \in 1..(k - 1) /\ ch'[i - 1] = ch[i]
          BY <1>1, <3>1, <3>3
        <4> QED
          BY <3>1, <4>1 DEF Reached
      <3> QED
        BY <3>2, <3>3
    <2> QED
      BY <2>1, <2>2
  <1> QED
    BY <1>1, <1>2

(* A commit empties the buffer into the tables. *)
LEMMA ReachedCommit ==
    ASSUME rows' = rows \cup buf, buf' = {}, UNCHANGED ch, NEW k \in Nat
    PROVE  Reached(k)' = Reached(k)
  BY DEF Reached

-----------------------------------------------------------------------------
(* The parts of the inductive invariant, one step per action. *)

(* Lifecycle is preserved. *)
LEMMA LifecycleStep ==
    ASSUME IInv, [Next]_vars
    PROVE  Lifecycle'
  <1>1. CASE Reset
    BY <1>1 DEF Reset, runVars, srcVars, queueVars, writerVars, IInv, Lifecycle
  <1>2. CASE StartRun
    BY <1>2 DEF StartRun, IInv, Lifecycle
  <1>3. ASSUME NEW resume \in BOOLEAN, BeginCollect(resume)
        PROVE  Lifecycle'
    BY <1>3 DEF BeginCollect, queueVars, dbVars, histVars, IInv, Lifecycle
  <1>4. CASE LoadFails
    BY <1>4 DEF LoadFails, srcVars, queueVars, writerVars, dbVars, histVars, IInv, Lifecycle
  <1>5. ASSUME NEW e \in Emitters, EmitBegin(e)
        PROVE  Lifecycle'
    BY <1>5 DEF EmitBegin, Dispatch, runVars, writerVars, dbVars, histVars, IInv, Lifecycle,
       TypeOK, SourceType
  <1>6. ASSUME NEW e \in Emitters, PutStateBegin(e)
        PROVE  Lifecycle'
    BY <1>6 DEF PutStateBegin, runVars, queueVars, writerVars, dbVars, histVars, IInv,
       Lifecycle
  <1>7. ASSUME NEW e \in Emitters, Send(e)
        PROVE  Lifecycle'
    BY <1>7 DEF Send, runVars, writerVars, dbVars, IInv, Lifecycle
  <1>8. ASSUME NEW e \in Emitters, SendStopped(e)
        PROVE  Lifecycle'
    BY <1>8 DEF SendStopped, runVars, queueVars, writerVars, dbVars, histVars, IInv, Lifecycle
  <1>9. ASSUME NEW e \in Emitters, SendCancelled(e)
        PROVE  Lifecycle'
    BY <1>9 DEF SendCancelled, runVars, queueVars, writerVars, dbVars, histVars, IInv,
       Lifecycle
  <1>10. ASSUME NEW e \in Emitters, EmitEnd(e)
        PROVE  Lifecycle'
    BY <1>10 DEF EmitEnd, runVars, writerVars, dbVars, histVars, IInv, Lifecycle
  <1>11. ASSUME NEW e \in Emitters, Return(e)
        PROVE  Lifecycle'
    BY <1>11 DEF Return, runVars, queueVars, writerVars, dbVars, histVars, IInv, Lifecycle
  <1>12. CASE Receive
    BY <1>12 DEF Receive, runVars, srcVars, dbVars, IInv, Lifecycle
  <1>13. CASE Tick
    BY <1>13 DEF Tick, runVars, srcVars, queueVars, dbVars, histVars, IInv, Lifecycle
  <1>14. CASE QueueClosed
    BY <1>14 DEF QueueClosed, runVars, srcVars, queueVars, dbVars, histVars, IInv, Lifecycle
  <1>15. CASE FlushCommit
    BY <1>15 DEF FlushCommit, runVars, srcVars, queueVars, IInv, Lifecycle
  <1>16. CASE FlushFail
    BY <1>16 DEF FlushFail, runVars, srcVars, dbVars, histVars, IInv, Lifecycle
  <1>17. CASE WriterExit
    BY <1>17 DEF WriterExit, runVars, srcVars, queueVars, dbVars, histVars, IInv, Lifecycle
  <1>18. CASE Drain
    BY <1>18 DEF Drain, runVars, srcVars, writerVars, dbVars, histVars, IInv, Lifecycle
  <1>19. CASE CloseQueue
    BY <1>19 DEF CloseQueue, srcVars, writerVars, dbVars, histVars, IInv, Lifecycle
  <1>20. CASE FinishRun
    BY <1>20 DEF FinishRun, DropPipeline, IInv, Lifecycle
  <1>21. CASE Interrupt
    BY <1>21 DEF Interrupt, srcVars, queueVars, writerVars, dbVars, histVars, IInv, Lifecycle
  <1>22. CASE Crash
    BY <1>22 DEF Crash, DropPipeline, IInv, Lifecycle, dbVars
  <1>23. CASE Finished \/ UNCHANGED vars
    BY <1>23 DEF Finished, vars, runVars, srcVars, queueVars, writerVars, dbVars, histVars, IInv, Lifecycle
  <1> QED
    BY <1>1, <1>2, <1>3, <1>4, <1>5, <1>6, <1>7, <1>8, <1>9, <1>10, <1>11, <1>12,
       <1>13, <1>14, <1>15, <1>16, <1>17, <1>18, <1>19, <1>20, <1>21, <1>22, <1>23
       DEF Next, EmitterStep, WriterStep, RunStep

(* WriterOrder is preserved. *)
LEMMA WriterOrderStep ==
    ASSUME IInv, [Next]_vars
    PROVE  WriterOrder'
  <1>1. CASE Reset
    BY <1>1 DEF Reset, runVars, srcVars, queueVars, writerVars, IInv, WriterOrder
  <1>2. CASE StartRun
    BY <1>2 DEF StartRun, IInv, WriterOrder, Lifecycle
  <1>3. ASSUME NEW resume \in BOOLEAN, BeginCollect(resume)
        PROVE  WriterOrder'
    BY <1>3 DEF BeginCollect, queueVars, dbVars, histVars, IInv, WriterOrder, Lifecycle
  <1>4. CASE LoadFails
    BY <1>4 DEF LoadFails, srcVars, queueVars, writerVars, dbVars, histVars, IInv, WriterOrder
  <1>5. ASSUME NEW e \in Emitters, EmitBegin(e)
        PROVE  WriterOrder'
    BY <1>5 DEF EmitBegin, runVars, writerVars, dbVars, histVars, IInv, WriterOrder
  <1>6. ASSUME NEW e \in Emitters, PutStateBegin(e)
        PROVE  WriterOrder'
    BY <1>6 DEF PutStateBegin, runVars, queueVars, writerVars, dbVars, histVars, IInv,
       WriterOrder
  <1>7. ASSUME NEW e \in Emitters, Send(e)
        PROVE  WriterOrder'
    BY <1>7 DEF Send, runVars, writerVars, dbVars, IInv, WriterOrder, Lifecycle
  <1>8. ASSUME NEW e \in Emitters, SendStopped(e)
        PROVE  WriterOrder'
    BY <1>8 DEF SendStopped, runVars, queueVars, writerVars, dbVars, histVars, IInv,
       WriterOrder
  <1>9. ASSUME NEW e \in Emitters, SendCancelled(e)
        PROVE  WriterOrder'
    BY <1>9 DEF SendCancelled, runVars, queueVars, writerVars, dbVars, histVars, IInv,
       WriterOrder
  <1>10. ASSUME NEW e \in Emitters, EmitEnd(e)
        PROVE  WriterOrder'
    BY <1>10 DEF EmitEnd, runVars, writerVars, dbVars, histVars, IInv, WriterOrder
  <1>11. ASSUME NEW e \in Emitters, Return(e)
        PROVE  WriterOrder'
    BY <1>11 DEF Return, runVars, queueVars, writerVars, dbVars, histVars, IInv, WriterOrder
  <1>12. CASE Receive
    BY <1>12 DEF Receive, runVars, srcVars, dbVars, IInv, WriterOrder
  <1>13. CASE Tick
    BY <1>13 DEF Tick, runVars, srcVars, queueVars, dbVars, histVars, IInv, WriterOrder
  <1>14. CASE QueueClosed
    BY <1>14 DEF QueueClosed, runVars, srcVars, queueVars, dbVars, histVars, IInv, WriterOrder,
       Lifecycle, TypeOK, RunType
  <1>15. CASE FlushCommit
    BY <1>15 DEF FlushCommit, runVars, srcVars, queueVars, IInv, WriterOrder
  <1>16. CASE FlushFail
    BY <1>16 DEF FlushFail, runVars, srcVars, dbVars, histVars, IInv, WriterOrder
  <1>17. CASE WriterExit
    BY <1>17 DEF WriterExit, runVars, srcVars, queueVars, dbVars, histVars, IInv, WriterOrder
  <1>18. CASE Drain
    BY <1>18 DEF Drain, runVars, srcVars, writerVars, dbVars, histVars, IInv, WriterOrder
  <1>19. CASE CloseQueue
    BY <1>19 DEF CloseQueue, srcVars, writerVars, dbVars, histVars, IInv, WriterOrder
  <1>20. CASE FinishRun
    BY <1>20 DEF FinishRun, DropPipeline, IInv, WriterOrder
  <1>21. CASE Interrupt
    BY <1>21 DEF Interrupt, srcVars, queueVars, writerVars, dbVars, histVars, IInv, WriterOrder
  <1>22. CASE Crash
    BY <1>22 DEF Crash, DropPipeline, IInv, WriterOrder
  <1>23. CASE Finished \/ UNCHANGED vars
    BY <1>23 DEF Finished, vars, runVars, srcVars, queueVars, writerVars, dbVars, histVars, IInv, WriterOrder
  <1> QED
    BY <1>1, <1>2, <1>3, <1>4, <1>5, <1>6, <1>7, <1>8, <1>9, <1>10, <1>11, <1>12,
       <1>13, <1>14, <1>15, <1>16, <1>17, <1>18, <1>19, <1>20, <1>21, <1>22, <1>23
       DEF Next, EmitterStep, WriterStep, RunStep

(* Coverage is preserved. *)
LEMMA CoverageStep ==
    ASSUME IInv, [Next]_vars
    PROVE  Coverage'
  <1>1. CASE Reset
    BY <1>1 DEF Reset, runVars, srcVars, queueVars, writerVars, IInv, Coverage, StateCovered,
       WriterAlive, Reached
  <1>2. CASE StartRun
    BY <1>2 DEF StartRun, IInv, Coverage, StateCovered, WriterAlive, Reached, Lifecycle,
       WriterOrder
  <1>3. ASSUME NEW resume \in BOOLEAN, BeginCollect(resume)
        PROVE  Coverage'
    BY <1>3 DEF BeginCollect, queueVars, dbVars, histVars, IInv, Coverage, StateCovered,
       WriterAlive, Reached, Lifecycle, WriterOrder
  <1>4. CASE LoadFails
    BY <1>4 DEF LoadFails, srcVars, queueVars, writerVars, dbVars, histVars, IInv, Coverage,
       StateCovered, WriterAlive, Reached
  <1>5. ASSUME NEW e \in Emitters, EmitBegin(e)
        PROVE  Coverage'
    <2>1. PICK recs \in Batches : \E kept \in Admitted(recs) : Dispatch(e, recs, kept)
      BY <1>5 DEF EmitBegin
    <2>2. PICK kept \in Admitted(recs) : Dispatch(e, recs, kept)
      BY <2>1
    <2>3. \A f \in Emitters : pc'[f] = "sent" => pc[f] = "sent" /\ out'[f] = out[f]
      BY <1>5, <2>2 DEF EmitBegin, Dispatch, IInv, TypeOK, SourceType
    <2>4. \A f \in Emitters : pc'[f] = "send" /\ out'[f].msg.state # NoState
                               => pc[f] = "send" /\ out'[f] = out[f]
      BY <1>5, <2>2 DEF EmitBegin, Dispatch, IInv, TypeOK, SourceType
    <2>5. UNCHANGED <<rows, saved, ch, wpc, buf, pending, covered>>
      BY <1>5 DEF EmitBegin, writerVars, dbVars
    <2> QED
      BY <2>3, <2>4, <2>5 DEF IInv, Coverage, StateCovered, WriterAlive, Reached
  <1>6. ASSUME NEW e \in Emitters, PutStateBegin(e)
        PROVE  Coverage'
    BY <1>6 DEF PutStateBegin, runVars, queueVars, writerVars, dbVars, histVars, IInv,
       Coverage, StateCovered, WriterAlive, Reached, Lifecycle, WriterOrder, TypeOK, SourceType
  <1>7. ASSUME NEW e \in Emitters, Send(e)
        PROVE  Coverage'
    <2>1. out[e].msg \in Message /\ ch \in Seq(Message)
      BY DEF IInv, TypeOK, SourceType, QueueType, Outgoing
    <2>2. UNCHANGED <<rows, saved, wpc, buf, pending, covered, out>> /\ ch' = Append(ch, out[e].msg)
      BY <1>7 DEF Send, writerVars, dbVars
    <2>3. /\ \A k \in 0..Len(ch) : Reached(k)' = Reached(k)
          /\ Len(ch') = Len(ch) + 1 /\ Len(ch) \in Nat
          /\ Reached(Len(ch)) \cup out[e].msg.recs \subseteq Reached(Len(ch))'
      BY <2>1, <2>2, ReachedSend, LenProperties
    <2>4. \A i \in 1..Len(ch) : ch'[i] = ch[i]
      BY <2>1, <2>2, AppendProperties
    <2>5. ch'[Len(ch) + 1] = out[e].msg
      BY <2>1, <2>2, AppendProperties
    <2>6. \A f \in Emitters : /\ pc'[f] = "send" => pc[f] = "send"
                              /\ pc'[f] = "sent" => pc[f] = "sent" \/ f = e
      BY <1>7 DEF Send, IInv, TypeOK, SourceType
    <2>7. StateCovered'
      BY <2>2 DEF IInv, Coverage, StateCovered
    <2>8. \A f \in Emitters :
             pc'[f] = "send" /\ out'[f].msg.state # NoState => out'[f].msg.state \subseteq covered'
      BY <2>2, <2>6 DEF IInv, Coverage
    <2>9. ASSUME WriterAlive'
          PROVE  /\ pending' # NoState => pending' \subseteq rows' \cup buf'
                 /\ \A k \in 1..Len(ch') :
                       ch'[k].state # NoState => ch'[k].state \subseteq Reached(k)'
                 /\ covered' \subseteq Reached(Len(ch))'
                 /\ \A f \in Emitters :
                       pc'[f] = "sent" => out'[f].msg.recs \subseteq Reached(Len(ch))'
      <3>1. WriterAlive
        BY <2>2, <2>9 DEF WriterAlive
      <3>2. pending' # NoState => pending' \subseteq rows' \cup buf'
        BY <2>2, <3>1 DEF IInv, Coverage
      <3>3. covered' \subseteq Reached(Len(ch))'
        BY <2>2, <2>3, <3>1 DEF IInv, Coverage
      <3>4. \A f \in Emitters :
               pc'[f] = "sent" => out'[f].msg.recs \subseteq Reached(Len(ch))'
        BY <2>2, <2>3, <2>6, <3>1 DEF IInv, Coverage
      <3>5. ASSUME NEW k \in 1..Len(ch), ch'[k].state # NoState
            PROVE  ch'[k].state \subseteq Reached(k)'
        BY <2>3, <2>4, <3>1, <3>5 DEF IInv, Coverage
      <3>6. out[e].msg.state # NoState => out[e].msg.state \subseteq Reached(Len(ch))'
        BY <1>7, <2>3, <3>1 DEF Send, IInv, Coverage
      <3>7. ASSUME NEW k \in 1..Len(ch'), ch'[k].state # NoState
            PROVE  ch'[k].state \subseteq Reached(k)'
        <4>1. CASE k \in 1..Len(ch)
          BY <3>5, <3>7, <4>1
        <4>2. CASE k = Len(ch')
          BY <2>3, <2>5, <3>6, <3>7, <4>2
        <4> QED
          BY <2>3, <4>1, <4>2
      <3> QED
        BY <3>2, <3>3, <3>4, <3>7
    <2> QED
      BY <2>7, <2>8, <2>9 DEF Coverage
  <1>8. ASSUME NEW e \in Emitters, SendStopped(e)
        PROVE  Coverage'
    BY <1>8 DEF SendStopped, runVars, queueVars, writerVars, dbVars, histVars, IInv, Coverage,
       StateCovered, WriterAlive, Reached
  <1>9. ASSUME NEW e \in Emitters, SendCancelled(e)
        PROVE  Coverage'
    BY <1>9 DEF SendCancelled, runVars, queueVars, writerVars, dbVars, histVars, IInv,
       Coverage, StateCovered, WriterAlive, Reached
  <1>10. ASSUME NEW e \in Emitters, EmitEnd(e)
        PROVE  Coverage'
    BY <1>10 DEF EmitEnd, runVars, writerVars, dbVars, histVars, IInv, Coverage, StateCovered,
       WriterAlive, Reached
  <1>11. ASSUME NEW e \in Emitters, Return(e)
        PROVE  Coverage'
    BY <1>11 DEF Return, runVars, queueVars, writerVars, dbVars, histVars, IInv, Coverage,
       StateCovered, WriterAlive, Reached
  <1>12. CASE Receive
    <2>1. ch \in Seq(Message) /\ ch # <<>> /\ WriterAlive
      BY <1>12 DEF Receive, WriterAlive, IInv, TypeOK, QueueType
    <2>2. /\ UNCHANGED <<rows, saved, covered, out, pc>>
          /\ ch' = Tail(ch) /\ buf' = buf \cup Head(ch).recs
          /\ pending' = Newest(pending, Head(ch).state)
      BY <1>12 DEF Receive, srcVars, dbVars
    <2>3. /\ Len(ch') = Len(ch) - 1 /\ Len(ch) \in Nat \ {0}
          /\ \A k \in 1..Len(ch) : Reached(k) \subseteq Reached(k - 1)'
      BY <2>1, <2>2, ReachedReceive
    <2>4. Reached(Len(ch)) \subseteq Reached(Len(ch))'
      BY <2>3
    <2>5. Head(ch) = ch[1] /\ \A k \in 1..(Len(ch) - 1) : ch'[k] = ch[k + 1]
      BY <2>1, <2>2, <2>3, HeadTailProperties
    <2>6. pending' # NoState => pending' \subseteq rows' \cup buf'
      <3>1. CASE Head(ch).state = NoState
        BY <2>1, <2>2, <3>1 DEF IInv, Coverage, Newest
      <3>2. CASE Head(ch).state # NoState
        <4>1. Head(ch).state \subseteq Reached(1)
          BY <2>1, <2>3, <2>5, <3>2 DEF IInv, Coverage
        <4>2. Reached(1) = rows' \cup buf'
          BY <2>2, <2>5 DEF Reached
        <4> QED
          BY <2>2, <3>2, <4>1, <4>2 DEF Newest
      <3> QED
        BY <3>1, <3>2
    <2>7. ASSUME NEW k \in 1..Len(ch'), ch'[k].state # NoState
          PROVE  ch'[k].state \subseteq Reached(k)'
      <3>1. k + 1 \in 1..Len(ch) /\ ch'[k] = ch[k + 1]
        BY <2>3, <2>5
      <3>2. ch[k + 1].state \subseteq Reached(k + 1)
        BY <2>1, <2>7, <3>1 DEF IInv, Coverage
      <3>3. Reached(k + 1) \subseteq Reached((k + 1) - 1)'
        BY <2>3, <3>1
      <3>4. (k + 1) - 1 = k
        BY <2>3
      <3> QED
        BY <3>1, <3>2, <3>3, <3>4
    <2> QED
      BY <2>1, <2>2, <2>4, <2>6, <2>7 DEF IInv, Coverage, StateCovered
  <1>13. CASE Tick
    BY <1>13 DEF Tick, runVars, srcVars, queueVars, dbVars, histVars, IInv, Coverage,
       StateCovered, WriterAlive, Reached
  <1>14. CASE QueueClosed
    BY <1>14 DEF QueueClosed, runVars, srcVars, queueVars, dbVars, histVars, IInv, Coverage,
       StateCovered, WriterAlive, Reached
  <1>15. CASE FlushCommit
    <2>1. /\ UNCHANGED <<ch, covered, out, pc>> /\ WriterAlive
          /\ rows' = rows \cup buf /\ buf' = {} /\ pending' = NoState
          /\ saved' = Newest(saved, pending)
      BY <1>15 DEF FlushCommit, WriterAlive, srcVars, queueVars
    <2>2. Len(ch) \in Nat
      BY LenProperties DEF IInv, TypeOK, QueueType
    <2>3. \A k \in Nat : Reached(k)' = Reached(k)
      BY <2>1, ReachedCommit
    <2>4. Reached(Len(ch))' = Reached(Len(ch))
      BY <2>1, <2>2, <2>3
    <2>5. StateCovered'
      BY <2>1 DEF IInv, Coverage, StateCovered, Newest
    <2>6. ASSUME NEW k \in 1..Len(ch'), ch'[k].state # NoState
          PROVE  ch'[k].state \subseteq Reached(k)'
      <3>1. k \in 1..Len(ch) /\ k \in Nat
        BY <2>1, <2>2
      <3> QED
        BY <2>1, <2>3, <2>6, <3>1 DEF IInv, Coverage
    <2> QED
      BY <2>1, <2>4, <2>5, <2>6 DEF IInv, Coverage
  <1>16. CASE FlushFail
    BY <1>16 DEF FlushFail, runVars, srcVars, dbVars, histVars, IInv, Coverage, StateCovered,
       WriterAlive, Reached
  <1>17. CASE WriterExit
    BY <1>17 DEF WriterExit, runVars, srcVars, queueVars, dbVars, histVars, IInv, Coverage,
       StateCovered, WriterAlive, Reached
  <1>18. CASE Drain
    BY <1>18 DEF Drain, runVars, srcVars, writerVars, dbVars, histVars, IInv, Coverage,
       StateCovered, WriterAlive, Reached, Lifecycle, WriterOrder
  <1>19. CASE CloseQueue
    BY <1>19 DEF CloseQueue, srcVars, writerVars, dbVars, histVars, IInv, Coverage,
       StateCovered, WriterAlive, Reached
  <1>20. CASE FinishRun
    BY <1>20 DEF FinishRun, DropPipeline, IInv, Coverage, StateCovered, WriterAlive
  <1>21. CASE Interrupt
    BY <1>21 DEF Interrupt, srcVars, queueVars, writerVars, dbVars, histVars, IInv, Coverage,
       StateCovered, WriterAlive, Reached
  <1>22. CASE Crash
    BY <1>22 DEF Crash, DropPipeline, dbVars, IInv, Coverage, StateCovered, WriterAlive
  <1>23. CASE Finished \/ UNCHANGED vars
    BY <1>23 DEF Finished, vars, runVars, srcVars, queueVars, writerVars, dbVars, histVars, IInv, Coverage, StateCovered, WriterAlive, Reached
  <1> QED
    BY <1>1, <1>2, <1>3, <1>4, <1>5, <1>6, <1>7, <1>8, <1>9, <1>10, <1>11, <1>12,
       <1>13, <1>14, <1>15, <1>16, <1>17, <1>18, <1>19, <1>20, <1>21, <1>22, <1>23
       DEF Next, EmitterStep, WriterStep, RunStep

(* Durability is preserved. *)
LEMMA DurabilityStep ==
    ASSUME IInv, [Next]_vars
    PROVE  Durability'
  <1>1. CASE Reset
    BY <1>1 DEF Reset, runVars, srcVars, queueVars, writerVars, IInv, Durability,
       AckedIsDurable, WriterAlive, Reached
  <1>2. CASE StartRun
    BY <1>2 DEF StartRun, IInv, Durability, AckedIsDurable, WriterAlive, Reached
  <1>3. ASSUME NEW resume \in BOOLEAN, BeginCollect(resume)
        PROVE  Durability'
    BY <1>3 DEF BeginCollect, dbVars, histVars, queueVars, IInv, Lifecycle, Reached, Promise!IsLastState, Durability, AckedIsDurable, WriterAlive
  <1>4. CASE LoadFails
    BY <1>4 DEF LoadFails, srcVars, queueVars, writerVars, dbVars, histVars, IInv, Durability,
       AckedIsDurable, WriterAlive, Reached, Lifecycle
  <1>5. ASSUME NEW e \in Emitters, EmitBegin(e)
        PROVE  Durability'
    BY <1>5 DEF EmitBegin, runVars, writerVars, dbVars, histVars, IInv, Durability,
       AckedIsDurable, WriterAlive, Reached
  <1>6. ASSUME NEW e \in Emitters, PutStateBegin(e)
        PROVE  Durability'
    BY <1>6 DEF PutStateBegin, runVars, queueVars, writerVars, dbVars, histVars, IInv,
       Durability, AckedIsDurable, WriterAlive, Reached
  <1>7. ASSUME NEW e \in Emitters, Send(e)
        PROVE  Durability'
    <2>1. out[e].msg \in Message /\ ch \in Seq(Message)
      BY DEF IInv, TypeOK, SourceType, QueueType, Outgoing
    <2>2. /\ UNCHANGED <<rows, saved, wpc, buf, pending, writeErr, phase>>
          /\ ch' = Append(ch, out[e].msg)
          /\ acked' = acked \cup out[e].msg.recs
          /\ ackedState' = Newest(ackedState, out[e].msg.state)
          /\ pc[e] = "send"
      BY <1>7 DEF Send, writerVars, dbVars, runVars
    <2>3. Reached(Len(ch)) \cup out[e].msg.recs \subseteq Reached(Len(ch))'
      BY <2>1, <2>2, ReachedSend
    <2>4. phase \notin {"idle", "closing"}
      BY <2>2 DEF IInv, Lifecycle
    <2>5. AckedIsDurable'
      BY <2>2, <2>4 DEF AckedIsDurable
    <2>6. WriterAlive' => acked' \subseteq Reached(Len(ch))'
      BY <2>2, <2>3 DEF IInv, Durability, WriterAlive
    <2>7. WriterAlive' /\ ackedState' # NoState =>
             Promise!IsLastState(ch', Newest(saved', pending'), ackedState')
      BY <2>1, <2>2, LastStateAppend DEF IInv, Durability, WriterAlive, Newest
    <2>8. wpc' \in {"exiting", "done"} /\ writeErr' = FALSE => FALSE
      BY <2>2, <2>4 DEF IInv, WriterOrder
    <2> QED
      BY <2>5, <2>6, <2>7, <2>8 DEF Durability
  <1>8. ASSUME NEW e \in Emitters, SendStopped(e)
        PROVE  Durability'
    BY <1>8 DEF SendStopped, runVars, queueVars, writerVars, dbVars, histVars, IInv,
       Durability, AckedIsDurable, WriterAlive, Reached
  <1>9. ASSUME NEW e \in Emitters, SendCancelled(e)
        PROVE  Durability'
    BY <1>9 DEF SendCancelled, runVars, queueVars, writerVars, dbVars, histVars, IInv,
       Durability, AckedIsDurable, WriterAlive, Reached
  <1>10. ASSUME NEW e \in Emitters, EmitEnd(e)
        PROVE  Durability'
    BY <1>10 DEF EmitEnd, runVars, writerVars, dbVars, histVars, IInv, Durability,
       AckedIsDurable, WriterAlive, Reached
  <1>11. ASSUME NEW e \in Emitters, Return(e)
        PROVE  Durability'
    BY <1>11 DEF Return, runVars, queueVars, writerVars, dbVars, histVars, IInv, Durability,
       AckedIsDurable, WriterAlive, Reached
  <1>12. CASE Receive
    <2>1. ch \in Seq(Message) /\ ch # <<>> /\ WriterAlive /\ wpc' \in {"select", "flush"}
      BY <1>12 DEF Receive, WriterAlive, IInv, TypeOK, QueueType
    <2>2. /\ UNCHANGED <<rows, saved, acked, ackedState, phase, runStatus>>
          /\ ch' = Tail(ch) /\ buf' = buf \cup Head(ch).recs
          /\ pending' = Newest(pending, Head(ch).state)
      BY <1>12 DEF Receive, runVars, dbVars
    <2>3. /\ Len(ch') = Len(ch) - 1 /\ Len(ch) \in Nat \ {0}
          /\ \A k \in 1..Len(ch) : Reached(k) \subseteq Reached(k - 1)'
      BY <2>1, <2>2, ReachedReceive
    <2>4. Reached(Len(ch)) \subseteq Reached(Len(ch))'
      BY <2>3
    <2>5. acked' \subseteq Reached(Len(ch))'
      BY <2>1, <2>2, <2>4 DEF IInv, Durability
    <2>6. Newest(Newest(saved, pending), Head(ch).state) = Newest(saved', pending')
      BY <2>2 DEF Newest
    <2>7. ackedState' # NoState => Promise!IsLastState(ch', Newest(saved', pending'), ackedState')
      BY <2>1, <2>2, <2>6, LastStateTail DEF IInv, Durability
    <2> QED
      BY <2>1, <2>2, <2>5, <2>7 DEF IInv, Durability, AckedIsDurable
  <1>13. CASE Tick
    BY <1>13 DEF Tick, runVars, srcVars, queueVars, dbVars, histVars, IInv, Durability,
       AckedIsDurable, WriterAlive, Reached
  <1>14. CASE QueueClosed
    BY <1>14 DEF QueueClosed, runVars, srcVars, queueVars, dbVars, histVars, IInv, Durability,
       AckedIsDurable, WriterAlive, Reached
  <1>15. CASE FlushCommit
    <2>1. /\ UNCHANGED <<ch, acked, ackedState, phase>> /\ WriterAlive
          /\ rows' = rows \cup buf /\ buf' = {} /\ pending' = NoState
          /\ saved' = Newest(saved, pending)
      BY <1>15 DEF FlushCommit, WriterAlive, runVars, queueVars
    <2>2. Len(ch) \in Nat
      BY LenProperties DEF IInv, TypeOK, QueueType
    <2>3. Reached(Len(ch))' = Reached(Len(ch))
      BY <2>1, <2>2, ReachedCommit
    <2>4. acked' \subseteq Reached(Len(ch))'
      BY <2>1, <2>3 DEF IInv, Durability
    <2>5. ackedState' # NoState => Promise!IsLastState(ch', Newest(saved', pending'), ackedState')
      BY <2>1 DEF IInv, Durability, Newest
    <2>6. AckedIsDurable'
      BY <2>1 DEF IInv, Lifecycle, AckedIsDurable, WriterAlive
    <2>7. CASE wpc = "flush"
      <3>1. wpc' = "select"
        BY <1>15, <2>7 DEF FlushCommit
      <3> QED
        BY <2>4, <2>5, <2>6, <3>1 DEF Durability
    <2>8. CASE wpc = "final"
      <3>1. ch = <<>> /\ wpc' = "exiting"
        BY <1>15, <2>8 DEF FlushCommit, IInv, WriterOrder
      <3>2. acked' \subseteq rows'
        BY <2>1, <2>4, <3>1 DEF Reached
      <3>3. ackedState' # NoState => saved' = ackedState'
        BY <2>1, <2>5, <3>1 DEF Promise!IsLastState, Newest
      <3> QED
        BY <2>6, <3>1, <3>2, <3>3 DEF Durability, WriterAlive
    <2> QED
      BY <1>15, <2>7, <2>8 DEF FlushCommit
  <1>16. CASE FlushFail
    BY <1>16 DEF FlushFail, runVars, srcVars, dbVars, histVars, IInv, Durability,
       AckedIsDurable, WriterAlive, Reached
  <1>17. CASE WriterExit
    BY <1>17 DEF WriterExit, runVars, srcVars, queueVars, dbVars, histVars, IInv, Durability,
       AckedIsDurable, WriterAlive, Reached
  <1>18. CASE Drain
    BY <1>18 DEF Drain, runVars, srcVars, writerVars, dbVars, histVars, IInv, Durability,
       AckedIsDurable, WriterAlive, Reached, Lifecycle, WriterOrder, TypeOK, WriterType
  <1>19. CASE CloseQueue
    BY <1>19 DEF CloseQueue, srcVars, writerVars, dbVars, histVars, IInv, Durability,
       AckedIsDurable, WriterAlive, Reached
  <1>20. CASE FinishRun
    <2>1. /\ UNCHANGED <<rows, saved, acked, ackedState>> /\ wpc = "done" /\ wpc' = "off"
          /\ phase = "closing"
      BY <1>20 DEF FinishRun, DropPipeline
    <2>2. runStatus' \in {"completed", "cancelled"} => writeErr # TRUE
      BY <1>20 DEF FinishRun, FinalStatus, IInv, Lifecycle
    <2>3. runStatus' \in {"completed", "cancelled"} =>
             /\ acked \subseteq rows
             /\ ackedState # NoState => saved = ackedState
      BY <2>1, <2>2 DEF IInv, Durability, TypeOK, WriterType
    <2> QED
      BY <2>1, <2>3 DEF Durability, AckedIsDurable, WriterAlive
  <1>21. CASE Interrupt
    BY <1>21 DEF Interrupt, srcVars, queueVars, writerVars, dbVars, histVars, IInv, Durability,
       AckedIsDurable, WriterAlive, Reached
  <1>22. CASE Crash
    BY <1>22 DEF Crash, DropPipeline, dbVars, IInv, Lifecycle, Durability, AckedIsDurable, WriterAlive
  <1>23. CASE Finished \/ UNCHANGED vars
    BY <1>23 DEF Finished, vars, runVars, srcVars, queueVars, writerVars, dbVars, histVars, IInv, Durability, AckedIsDurable, WriterAlive, Reached
  <1> QED
    BY <1>1, <1>2, <1>3, <1>4, <1>5, <1>6, <1>7, <1>8, <1>9, <1>10, <1>11, <1>12,
       <1>13, <1>14, <1>15, <1>16, <1>17, <1>18, <1>19, <1>20, <1>21, <1>22, <1>23
       DEF Next, EmitterStep, WriterStep, RunStep

(* Buffered is preserved. *)
LEMMA BufferedStep ==
    ASSUME IInv, [Next]_vars
    PROVE  Buffered'
  <1>1. CASE Reset
    BY <1>1 DEF Reset, runVars, srcVars, queueVars, writerVars, IInv, Buffered, WriterAlive
  <1>2. CASE StartRun
    BY <1>2 DEF StartRun, IInv, Buffered, WriterAlive
  <1>3. ASSUME NEW resume \in BOOLEAN, BeginCollect(resume)
        PROVE  Buffered'
    BY <1>3 DEF BeginCollect, histVars, IInv, Lifecycle, Buffered, WriterAlive, Promise!RecsOf, Promise!IsLastState
  <1>4. CASE LoadFails
    BY <1>4 DEF LoadFails, srcVars, queueVars, writerVars, dbVars, histVars, IInv, Buffered,
       WriterAlive
  <1>5. ASSUME NEW e \in Emitters, EmitBegin(e)
        PROVE  Buffered'
    BY <1>5 DEF EmitBegin, runVars, writerVars, dbVars, histVars, IInv, Buffered, WriterAlive
  <1>6. ASSUME NEW e \in Emitters, PutStateBegin(e)
        PROVE  Buffered'
    BY <1>6 DEF PutStateBegin, runVars, queueVars, writerVars, dbVars, histVars, IInv,
       Buffered, WriterAlive
  <1>7. ASSUME NEW e \in Emitters, Send(e)
        PROVE  Buffered'
    BY <1>7 DEF Send, runVars, writerVars, dbVars, IInv, Buffered, WriterAlive
  <1>8. ASSUME NEW e \in Emitters, SendStopped(e)
        PROVE  Buffered'
    BY <1>8 DEF SendStopped, runVars, queueVars, writerVars, dbVars, histVars, IInv, Buffered,
       WriterAlive
  <1>9. ASSUME NEW e \in Emitters, SendCancelled(e)
        PROVE  Buffered'
    BY <1>9 DEF SendCancelled, runVars, queueVars, writerVars, dbVars, histVars, IInv,
       Buffered, WriterAlive
  <1>10. ASSUME NEW e \in Emitters, EmitEnd(e)
        PROVE  Buffered'
    BY <1>10 DEF EmitEnd, runVars, writerVars, dbVars, histVars, IInv, Buffered, WriterAlive
  <1>11. ASSUME NEW e \in Emitters, Return(e)
        PROVE  Buffered'
    BY <1>11 DEF Return, runVars, queueVars, writerVars, dbVars, histVars, IInv, Buffered,
       WriterAlive
  <1>12. CASE Receive
    <2>1. ch \in Seq(Message) /\ ch # <<>> /\ WriterAlive /\ taken \in Seq(Message)
      BY <1>12 DEF Receive, WriterAlive, IInv, TypeOK, QueueType, HistoryType
    <2>2. /\ buf' = buf \cup Head(ch).recs
          /\ pending' = Newest(pending, Head(ch).state)
          /\ taken' = Append(taken, Head(ch))
      BY <1>12 DEF Receive
    <2>3. Head(ch) \in Message
      BY <2>1, HeadTailProperties
    <2>4. buf' = Promise!RecsOf(taken')
      BY <2>1, <2>2, <2>3, RecsAppend DEF IInv, Buffered
    <2>5. Promise!IsLastState(taken', NoState, pending')
      BY <2>1, <2>2, <2>3, LastStateAppend DEF IInv, Buffered
    <2> QED
      BY <2>4, <2>5 DEF Buffered
  <1>13. CASE Tick
    BY <1>13 DEF Tick, runVars, srcVars, queueVars, dbVars, histVars, IInv, Buffered,
       WriterAlive
  <1>14. CASE QueueClosed
    BY <1>14 DEF QueueClosed, runVars, srcVars, queueVars, dbVars, histVars, IInv, Buffered,
       WriterAlive
  <1>15. CASE FlushCommit
    BY <1>15 DEF FlushCommit, Buffered, Promise!RecsOf, Promise!IsLastState
  <1>16. CASE FlushFail
    BY <1>16 DEF FlushFail, runVars, srcVars, dbVars, histVars, IInv, Buffered, WriterAlive
  <1>17. CASE WriterExit
    BY <1>17 DEF WriterExit, runVars, srcVars, queueVars, dbVars, histVars, IInv, Buffered,
       WriterAlive
  <1>18. CASE Drain
    BY <1>18 DEF Drain, runVars, srcVars, writerVars, dbVars, histVars, IInv, Buffered,
       WriterAlive
  <1>19. CASE CloseQueue
    BY <1>19 DEF CloseQueue, srcVars, writerVars, dbVars, histVars, IInv, Buffered, WriterAlive
  <1>20. CASE FinishRun
    BY <1>20 DEF FinishRun, DropPipeline, Buffered, WriterAlive
  <1>21. CASE Interrupt
    BY <1>21 DEF Interrupt, srcVars, queueVars, writerVars, dbVars, histVars, IInv, Buffered,
       WriterAlive
  <1>22. CASE Crash
    BY <1>22 DEF Crash, DropPipeline, Buffered, WriterAlive
  <1>23. CASE Finished \/ UNCHANGED vars
    BY <1>23 DEF Finished, vars, runVars, srcVars, queueVars, writerVars, dbVars, histVars, IInv, Buffered, WriterAlive
  <1> QED
    BY <1>1, <1>2, <1>3, <1>4, <1>5, <1>6, <1>7, <1>8, <1>9, <1>10, <1>11, <1>12,
       <1>13, <1>14, <1>15, <1>16, <1>17, <1>18, <1>19, <1>20, <1>21, <1>22, <1>23
       DEF Next, EmitterStep, WriterStep, RunStep

-----------------------------------------------------------------------------
(* The theorems. *)

LEMMA InitInvariant == Init => IInv
  <1> SUFFICES ASSUME Init
               PROVE  IInv
    OBVIOUS
  <1>1. TypeOK
    BY InitType
  <1>2. Lifecycle /\ WriterOrder
    BY DEF Init, Lifecycle, WriterOrder
  <1>3. Coverage /\ Durability /\ Buffered
    BY DEF Init, Coverage, StateCovered, Durability, AckedIsDurable, Buffered, WriterAlive
  <1> QED
    BY <1>1, <1>2, <1>3 DEF IInv

LEMMA Invariant == Spec => []IInv
  <1>1. IInv /\ [Next]_vars => IInv'
    BY TypeStep, LifecycleStep, WriterOrderStep, CoverageStep, DurabilityStep, BufferedStep
       DEF IInv
  <1> QED
    BY InitInvariant, <1>1, PTL DEF Spec

(* The resume state in the database never covers a record that is not in    *)
(* the database, after any interleaving, failed flush, crash or restart.    *)
THEOREM ResumeIsSafe == Spec => []StateCovered
  <1>1. IInv => StateCovered
    BY DEF IInv, Coverage
  <1> QED
    BY Invariant, <1>1, PTL

(* A run reported as completed or cancelled has made everything durable     *)
(* that the queue accepted.                                                 *)
THEOREM ReportIsHonest == Spec => []AckedIsDurable
  <1>1. IInv => AckedIsDurable
    BY DEF IInv, Durability
  <1> QED
    BY Invariant, <1>1, PTL

-----------------------------------------------------------------------------
(* The refinement. *)

LEMMA AppendOfConcat ==
    ASSUME NEW s \in Seq(Message), NEW t \in Seq(Message), NEW m \in Message
    PROVE  s \o Append(t, m) = Append(s \o t, m)
  <1>1. <<m>> \in Seq(Message) /\ s \o t \in Seq(Message)
    BY ConcatProperties
  <1>2. s \o (t \o <<m>>) = (s \o t) \o <<m>>
    BY <1>1, ConcatAssociative
  <1> QED
    BY <1>1, <1>2, AppendIsConcat

LEMMA MoveHead ==
    ASSUME NEW s \in Seq(Message), NEW t \in Seq(Message), t # <<>>
    PROVE  Append(s, Head(t)) \o Tail(t) = s \o t
  <1> DEFINE l == Append(s, Head(t)) \o Tail(t)
             r == s \o t
  <1>1. Head(t) \in Message /\ Tail(t) \in Seq(Message) /\ Head(t) = t[1]
        /\ Len(t) \in Nat \ {0} /\ Len(s) \in Nat /\ Len(Tail(t)) = Len(t) - 1
        /\ \A i \in 1..(Len(t) - 1) : Tail(t)[i] = t[i + 1]
    BY HeadTailProperties, LenProperties
  <1>2. /\ Append(s, Head(t)) \in Seq(Message) /\ Len(Append(s, Head(t))) = Len(s) + 1
        /\ \A i \in 1..Len(s) : Append(s, Head(t))[i] = s[i]
        /\ Append(s, Head(t))[Len(s) + 1] = t[1]
    BY <1>1, AppendProperties
  <1>3. /\ l \in Seq(Message) /\ Len(l) = Len(s) + Len(t)
        /\ \A i \in 1..(Len(s) + Len(t)) :
              l[i] = IF i <= Len(s) + 1 THEN Append(s, Head(t))[i] ELSE Tail(t)[i - (Len(s) + 1)]
    BY <1>1, <1>2, ConcatProperties
  <1>4. /\ r \in Seq(Message) /\ Len(r) = Len(s) + Len(t)
        /\ \A i \in 1..(Len(s) + Len(t)) :
              r[i] = IF i <= Len(s) THEN s[i] ELSE t[i - Len(s)]
    BY <1>1, ConcatProperties
  <1>5. ASSUME NEW i \in 1..(Len(s) + Len(t))
        PROVE  l[i] = r[i]
    <2>1. CASE i <= Len(s)
      BY <1>1, <1>2, <1>3, <1>4, <2>1
    <2>2. CASE i = Len(s) + 1
      BY <1>1, <1>2, <1>3, <1>4, <2>2
    <2>3. CASE i > Len(s) + 1
      <3>1. l[i] = Tail(t)[i - (Len(s) + 1)] /\ r[i] = t[i - Len(s)]
        BY <1>1, <1>3, <1>4, <2>3
      <3>2. i - (Len(s) + 1) \in 1..(Len(t) - 1) /\ i - (Len(s) + 1) + 1 = i - Len(s)
        BY <1>1, <2>3
      <3> QED
        BY <1>1, <3>1, <3>2
    <2> QED
      BY <1>1, <2>1, <2>2, <2>3
  <1> QED
    BY <1>3, <1>4, <1>5, SeqEqual

(* Committing what the writer took is committing a prefix. *)
LEMMA CommitTaken ==
    ASSUME IInv, WriterAlive, taken # <<>>,
           rows' = rows \cup buf, saved' = Newest(saved, pending), InFlight' = ch
    PROVE  \E n \in 1..Len(InFlight) : Promise!Commit(n)
  <1> DEFINE n == Len(taken)
  <1>1. taken \in Seq(Message) /\ ch \in Seq(Message) /\ InFlight = taken \o ch
    BY DEF IInv, TypeOK, QueueType, HistoryType, InFlight
  <1>2. n \in Nat \ {0} /\ Len(ch) \in Nat /\ Len(InFlight) = n + Len(ch)
        /\ InFlight \in Seq(Message)
    BY <1>1, LenProperties, ConcatProperties, EmptySeq
  <1>3. \A i \in 1..n : InFlight[i] = taken[i]
    BY <1>1, <1>2, ConcatProperties
  <1>4. SubSeq(InFlight, 1, n) = taken
    <2>1. SubSeq(InFlight, 1, n) = SubSeq(taken, 1, n)
      BY <1>1, <1>2, SubSeqOfConcat1
    <2> QED
      BY <1>1, <2>1, SubSeqFull
  <1>5. SubSeq(InFlight, n + 1, Len(InFlight)) = ch
    <2>1. CASE ch = <<>>
      <3>1. Len(InFlight) < n + 1
        BY <1>2, <2>1
      <3> QED
        BY <1>2, <2>1, <3>1, SubSeqEmpty
    <2>2. CASE ch # <<>>
      <3>1. n + 1 \in n + 1..n + Len(ch) /\ n + Len(ch) \in n + 1..n + Len(ch)
        BY <1>1, <1>2, <2>2, EmptySeq
      <3>2. SubSeq(InFlight, n + 1, n + Len(ch)) = SubSeq(ch, (n + 1) - n, (n + Len(ch)) - n)
        BY <1>1, <3>1, SubSeqOfConcat2
      <3>3. (n + 1) - n = 1 /\ (n + Len(ch)) - n = Len(ch)
        BY <1>2
      <3> QED
        BY <1>1, <1>2, <3>2, <3>3, SubSeqFull
    <2> QED
      BY <2>1, <2>2
  <1>6. buf = Promise!RecsOf(taken) /\ Promise!IsLastState(taken, saved, Newest(saved, pending))
    BY LastStateOver DEF IInv, Buffered
  <1>7. Newest(saved, pending) \in {saved} \cup {InFlight[i].state : i \in 1..n}
    <2>1. DOMAIN taken = 1..n
      BY <1>1, LenProperties
    <2> QED
      BY <1>3, <1>6, <2>1 DEF Promise!IsLastState
  <1>8. Promise!Commit(n)
    BY <1>4, <1>5, <1>6, <1>7 DEF Promise!Commit
  <1> QED
    BY <1>2, <1>8

LEMMA RefinementStep ==
    ASSUME IInv, IInv', [Next]_vars
    PROVE  PromiseStep
  <1>1. CASE Reset
    <2>1. Promise!Clear
      BY <1>1 DEF Reset, Promise!Clear, IInv, Lifecycle, InFlight, WriterAlive, writerVars, queueVars
    <2> QED
      BY <2>1 DEF PromiseStep, Promise!Next
  <1>2. CASE StartRun
    BY <1>2 DEF StartRun, InFlight, WriterAlive, PromiseStep, Promise!vars
  <1>3. ASSUME NEW resume \in BOOLEAN, BeginCollect(resume)
        PROVE  PromiseStep
    <2>1. InFlight = <<>> /\ InFlight' = <<>> \o <<>> /\ UNCHANGED <<rows, saved>>
      BY <1>3 DEF BeginCollect, IInv, Lifecycle, InFlight, WriterAlive, dbVars, queueVars, histVars
    <2>2. <<>> \o <<>> = <<>>
      BY NoMessageType, ConcatEmptySeq
    <2> QED
      BY <2>1, <2>2 DEF PromiseStep, Promise!vars
  <1>4. CASE LoadFails
    BY <1>4 DEF LoadFails, srcVars, queueVars, writerVars, dbVars, histVars, InFlight,
       WriterAlive, PromiseStep, Promise!vars
  <1>5. ASSUME NEW e \in Emitters, EmitBegin(e)
        PROVE  PromiseStep
    BY <1>5 DEF EmitBegin, runVars, writerVars, dbVars, histVars, InFlight, WriterAlive,
       PromiseStep, Promise!vars
  <1>6. ASSUME NEW e \in Emitters, PutStateBegin(e)
        PROVE  PromiseStep
    BY <1>6 DEF PutStateBegin, runVars, queueVars, writerVars, dbVars, histVars, InFlight,
       WriterAlive, PromiseStep, Promise!vars
  <1>7. ASSUME NEW e \in Emitters, Send(e)
        PROVE  PromiseStep
    <2>1. /\ UNCHANGED <<wpc, taken, rows, saved>> /\ ch' = Append(ch, out[e].msg)
      BY <1>7 DEF Send, writerVars, dbVars
    <2>2. out[e].msg \in Message /\ ch \in Seq(Message) /\ taken \in Seq(Message)
      BY DEF IInv, TypeOK, SourceType, QueueType, HistoryType, Outgoing
    <2>3. CASE WriterAlive
      <3>1. InFlight = taken \o ch /\ InFlight' = taken \o Append(ch, out[e].msg)
        BY <2>1, <2>3 DEF InFlight, WriterAlive
      <3>2. Promise!Accept(out[e].msg)
        BY <2>1, <2>2, <3>1, AppendOfConcat DEF Promise!Accept
      <3>3. out[e].msg \in Promise!Message
        BY <2>2 DEF Message, Promise!Message
      <3> QED
        BY <3>2, <3>3 DEF PromiseStep, Promise!Next
    <2>4. CASE ~WriterAlive
      BY <2>1, <2>4 DEF InFlight, WriterAlive, PromiseStep, Promise!vars
    <2> QED
      BY <2>3, <2>4
  <1>8. ASSUME NEW e \in Emitters, SendStopped(e)
        PROVE  PromiseStep
    BY <1>8 DEF SendStopped, runVars, queueVars, writerVars, dbVars, histVars, InFlight,
       WriterAlive, PromiseStep, Promise!vars
  <1>9. ASSUME NEW e \in Emitters, SendCancelled(e)
        PROVE  PromiseStep
    BY <1>9 DEF SendCancelled, runVars, queueVars, writerVars, dbVars, histVars, InFlight,
       WriterAlive, PromiseStep, Promise!vars
  <1>10. ASSUME NEW e \in Emitters, EmitEnd(e)
        PROVE  PromiseStep
    BY <1>10 DEF EmitEnd, runVars, writerVars, dbVars, histVars, InFlight, WriterAlive,
       PromiseStep, Promise!vars
  <1>11. ASSUME NEW e \in Emitters, Return(e)
        PROVE  PromiseStep
    BY <1>11 DEF Return, runVars, queueVars, writerVars, dbVars, histVars, InFlight,
       WriterAlive, PromiseStep, Promise!vars
  <1>12. CASE Receive
    <2>1. /\ UNCHANGED <<rows, saved>> /\ ch # <<>>
          /\ ch' = Tail(ch) /\ taken' = Append(taken, Head(ch))
          /\ WriterAlive /\ WriterAlive'
      BY <1>12 DEF Receive, WriterAlive, dbVars
    <2>2. ch \in Seq(Message) /\ taken \in Seq(Message)
      BY DEF IInv, TypeOK, QueueType, HistoryType
    <2>3. InFlight' = InFlight
      BY <2>1, <2>2, MoveHead DEF InFlight
    <2> QED
      BY <2>1, <2>3 DEF PromiseStep, Promise!vars
  <1>13. CASE Tick
    BY <1>13 DEF Tick, runVars, srcVars, queueVars, dbVars, histVars, InFlight, WriterAlive,
       PromiseStep, Promise!vars
  <1>14. CASE QueueClosed
    BY <1>14 DEF QueueClosed, runVars, srcVars, queueVars, dbVars, histVars, InFlight,
       WriterAlive, PromiseStep, Promise!vars
  <1>15. CASE FlushCommit
    <2>1. /\ rows' = rows \cup buf /\ saved' = Newest(saved, pending)
          /\ UNCHANGED ch /\ taken' = <<>> /\ WriterAlive
      BY <1>15 DEF FlushCommit, WriterAlive, queueVars
    <2>2. ch \in Seq(Message) /\ <<>> \o ch = ch
      BY ConcatEmptySeq DEF IInv, TypeOK, QueueType
    <2>3. InFlight' = ch
      <3>1. CASE wpc = "flush"
        <4>1. wpc' = "select"
          BY <1>15, <3>1 DEF FlushCommit
        <4> QED
          BY <2>1, <2>2, <4>1 DEF InFlight, WriterAlive
      <3>2. CASE wpc = "final"
        <4>1. wpc' = "exiting" /\ ch = <<>>
          BY <1>15, <3>2 DEF FlushCommit, IInv, WriterOrder
        <4> QED
          BY <2>1, <4>1 DEF InFlight, WriterAlive
      <3> QED
        BY <1>15, <3>1, <3>2 DEF FlushCommit
    <2>4. CASE taken # <<>>
      BY <2>1, <2>3, <2>4, CommitTaken DEF PromiseStep, Promise!Next
    <2>5. CASE taken = <<>>
      <3>1. InFlight = ch
        BY <2>1, <2>2, <2>5 DEF InFlight
      <3>2. buf = {} /\ pending = NoState
        BY <2>1, <2>5 DEF IInv, Buffered, Promise!RecsOf, Promise!IsLastState
      <3>3. UNCHANGED <<rows, saved>>
        BY <2>1, <3>2 DEF Newest
      <3> QED
        BY <2>3, <3>1, <3>3 DEF PromiseStep, Promise!vars
    <2> QED
      BY <2>4, <2>5
  <1>16. CASE FlushFail
    <2>1. Promise!Lose
      BY <1>16 DEF FlushFail, Promise!Lose, InFlight, WriterAlive, dbVars
    <2> QED
      BY <2>1 DEF PromiseStep, Promise!Next
  <1>17. CASE WriterExit
    BY <1>17 DEF WriterExit, runVars, srcVars, queueVars, dbVars, histVars, InFlight,
       WriterAlive, PromiseStep, Promise!vars
  <1>18. CASE Drain
    BY <1>18 DEF Drain, IInv, WriterOrder, TypeOK, QueueType, writerVars, dbVars, histVars,
       InFlight, WriterAlive, PromiseStep, Promise!vars
  <1>19. CASE CloseQueue
    BY <1>19 DEF CloseQueue, srcVars, writerVars, dbVars, histVars, InFlight, WriterAlive,
       PromiseStep, Promise!vars
  <1>20. CASE FinishRun
    BY <1>20 DEF FinishRun, DropPipeline, InFlight, WriterAlive, PromiseStep, Promise!vars
  <1>21. CASE Interrupt
    BY <1>21 DEF Interrupt, srcVars, queueVars, writerVars, dbVars, histVars, InFlight,
       WriterAlive, PromiseStep, Promise!vars
  <1>22. CASE Crash
    <2>1. Promise!Lose
      BY <1>22 DEF Crash, DropPipeline, Promise!Lose, InFlight, WriterAlive, dbVars
    <2> QED
      BY <2>1 DEF PromiseStep, Promise!Next
  <1>23. CASE Finished \/ UNCHANGED vars
    BY <1>23 DEF Finished, vars, runVars, srcVars, queueVars, writerVars, dbVars, histVars, InFlight, WriterAlive, PromiseStep, Promise!vars
  <1> QED
    BY <1>1, <1>2, <1>3, <1>4, <1>5, <1>6, <1>7, <1>8, <1>9, <1>10, <1>11, <1>12,
       <1>13, <1>14, <1>15, <1>16, <1>17, <1>18, <1>19, <1>20, <1>21, <1>22, <1>23
       DEF Next, EmitterStep, WriterStep, RunStep


LEMMA RefinementInit == Init => PromiseInit
  BY DEF Init, PromiseInit, Promise!Init, InFlight, WriterAlive

(* The pipeline and its writer implement the abstract log of Ingest: what   *)
(* is durable only ever changes by a committed prefix of what was accepted. *)
THEOREM Refinement == Spec => ImplementsIngest
  <1>1. IInv /\ IInv' /\ [Next]_vars => PromiseStep
    BY RefinementStep
  <1> QED
    BY Invariant, RefinementInit, <1>1, PTL
       DEF Spec, ImplementsIngest, PromiseInit, PromiseStep, Promise!Spec


-----------------------------------------------------------------------------
(* The records column. *)

(* A run whose writer has not failed has counted the rows it added to       *)
(* tables that ignore, and the records for tables that replace that its     *)
(* writer has received, but for those still in the buffer.                  *)
RowsCounted ==
    /\ phase # "idle" /\ ~writeErr =>
          inserted + nrepl + rowsBefore = Cardinality(rows \ Replaced) + replaced
    /\ wpc = "off" => nrepl = 0
    /\ wpc \in {"exiting", "done"} /\ ~writeErr => nrepl = 0
    /\ RecordsColumn

LEMMA CountAdded ==
    ASSUME NEW A \in SUBSET Record, NEW B \in SUBSET Record
    PROVE  Cardinality(A \cup B) = Cardinality(A) + Cardinality(B \ A)
  <1>1. A \cup B = A \cup (B \ A) /\ A \cap (B \ A) = {}
    OBVIOUS
  <1>2. /\ IsFiniteSet(A) /\ IsFiniteSet(B \ A)
        /\ Cardinality(A) \in Nat /\ Cardinality(B \ A) \in Nat
    BY CardinalityType
  <1>3. Cardinality(A \cup (B \ A)) =
            Cardinality(A) + Cardinality(B \ A) - Cardinality(A \cap (B \ A))
    BY <1>2, FS_Union
  <1>4. Cardinality(A \cap (B \ A)) = 0
    BY <1>1, FS_EmptySet
  <1> QED
    BY <1>1, <1>2, <1>3, <1>4

LEMMA RowsCountedStep == IInv /\ RowsCounted /\ [Next]_vars => RowsCounted'
  <1> SUFFICES ASSUME IInv, RowsCounted, [Next]_vars
               PROVE  RowsCounted'
    OBVIOUS
  <1> USE DEF RowsCounted, RecordsColumn
  <1>0. /\ rows \in SUBSET Record /\ buf \in SUBSET Record
        /\ inserted \in Nat /\ nrepl \in Nat /\ rowsBefore \in Nat /\ replaced \in Nat
        /\ Cardinality(rows \ Replaced) \in Nat
    BY CardinalityType DEF IInv, TypeOK, DbType, WriterType, HistoryType
  <1>1. CASE StartRun
    <2>1. nrepl = 0
      BY <1>1 DEF StartRun, IInv, Lifecycle
    <2> QED
      BY <1>0, <1>1, <2>1 DEF StartRun
  <1>2. CASE FlushCommit
    <2> DEFINE new == Cardinality((buf \ Replaced) \ rows)
    <2>1. (rows \cup buf) \ Replaced = (rows \ Replaced) \cup (buf \ Replaced)
          /\ (buf \ Replaced) \ (rows \ Replaced) = (buf \ Replaced) \ rows
      OBVIOUS
    <2>2. Cardinality((rows \cup buf) \ Replaced) = Cardinality(rows \ Replaced) + new
      <3>1. rows \ Replaced \in SUBSET Record /\ buf \ Replaced \in SUBSET Record
        BY <1>0
      <3>2. Cardinality((rows \ Replaced) \cup (buf \ Replaced)) =
               Cardinality(rows \ Replaced) + Cardinality((buf \ Replaced) \ (rows \ Replaced))
        BY <3>1, CountAdded
      <3> QED
        BY <2>1, <3>2
    <2>3. new \in Nat /\ Affected = nrepl + new
      BY <1>0, CardinalityType DEF Affected
    <2>4. phase # "idle"
      BY <1>2 DEF FlushCommit, IInv, Lifecycle
    <2>5. /\ rows' = rows \cup buf /\ inserted' = inserted + Affected /\ nrepl' = 0
          /\ wpc' \in {"select", "exiting"}
          /\ UNCHANGED <<phase, writeErr, runStatus, runRecords, rowsBefore, replaced>>
      BY <1>2 DEF FlushCommit, runVars
    <2> HIDE DEF new
    <2> QED
      BY <1>0, <2>2, <2>3, <2>4, <2>5
  <1>3. CASE FinishRun
    <2>1. phase # "idle" /\ runStatus = "running" /\ phase' = "idle"
      BY <1>3 DEF FinishRun, DropPipeline, IInv, Lifecycle
    <2>2. FinalStatus \in {"completed", "cancelled"} => ~writeErr /\ nrepl = 0
      BY <1>3 DEF FinishRun, FinalStatus, IInv, TypeOK, WriterType
    <2>3. /\ wpc' = "off" /\ nrepl' = 0
          /\ UNCHANGED <<rows, rowsBefore, replaced, inserted>>
          /\ \/ runStatus' = FinalStatus /\ runRecords' = inserted
             \/ UNCHANGED runStatus
      BY <1>3 DEF FinishRun, DropPipeline
    <2>4. runStatus' \in {"completed", "cancelled"} =>
             runRecords' + rowsBefore = Cardinality(rows \ Replaced) + replaced
      BY <1>0, <2>1, <2>2, <2>3
    <2> QED
      BY <2>1, <2>3, <2>4
  <1>4. CASE Crash \/ LoadFails
    <2>1. runStatus = "running" /\ UNCHANGED runStatus /\ phase' = "idle"
      BY <1>4 DEF Crash, LoadFails, DropPipeline, IInv, Lifecycle, dbVars
    <2>2. wpc' = "off" /\ nrepl' = 0
      BY <1>4 DEF Crash, LoadFails, DropPipeline, IInv, Lifecycle, writerVars
    <2> QED
      BY <2>1, <2>2
  <1>5. ASSUME UNCHANGED <<rows, runStatus, runRecords, rowsBefore, replaced, inserted, nrepl>>,
               writeErr => writeErr',
               wpc' = "off" => wpc = "off",
               wpc' \in {"exiting", "done"} => wpc \in {"exiting", "done"},
               phase = "idle" <=> phase' = "idle"
        PROVE  RowsCounted'
    BY <1>5
  <1>6. CASE Reset
    BY <1>5, <1>6 DEF Reset, runVars, writerVars
  <1>7. ASSUME NEW resume \in BOOLEAN, BeginCollect(resume)
        PROVE  RowsCounted'
    BY <1>5, <1>7 DEF BeginCollect, dbVars, histVars
  <1>8. CASE CloseQueue \/ Interrupt
    BY <1>5, <1>8 DEF CloseQueue, Interrupt, dbVars, histVars, writerVars
  <1>9. ASSUME NEW e \in Emitters, EmitterStep(e)
        PROVE  RowsCounted'
    <2>1. UNCHANGED <<runVars, writerVars, dbVars, rowsBefore, replaced>>
      BY <1>9 DEF EmitterStep, EmitBegin, PutStateBegin, Send, SendStopped, SendCancelled,
                  EmitEnd, Return, histVars
    <2> QED
      BY <1>5, <2>1 DEF runVars, writerVars, dbVars
  <1>10. CASE Tick \/ QueueClosed \/ WriterExit \/ Drain
    <2>1. /\ UNCHANGED <<runVars, writeErr, inserted, nrepl, dbVars, rowsBefore, replaced>>
          /\ wpc' = "off" => wpc = "off"
          /\ wpc' \in {"exiting", "done"} => wpc \in {"exiting", "done"}
      BY <1>10 DEF Tick, QueueClosed, WriterExit, Drain, histVars, writerVars
    <2> QED
      BY <1>5, <2>1 DEF runVars, dbVars
  <1>13. CASE Receive
    <2> DEFINE n == ReplaceCount(Head(ch).recs)
    <2>1. n \in Nat
      <3>1. Head(ch) \in Message
        BY <1>13, HeadTailProperties DEF Receive, IInv, TypeOK, QueueType
      <3> QED
        BY <3>1, CardinalityType DEF Message, ReplaceCount
    <2>2. /\ nrepl' = nrepl + n /\ replaced' = replaced + n
          /\ wpc' \in {"flush", "select"}
          /\ UNCHANGED <<phase, writeErr, inserted, rows, runStatus, runRecords, rowsBefore>>
      BY <1>13 DEF Receive, runVars, dbVars
    <2>3. phase # "idle"
      BY <1>13 DEF Receive, IInv, Lifecycle
    <2>4. Cardinality(rows' \ Replaced) = Cardinality(rows \ Replaced)
      BY <2>2
    <2> HIDE DEF n
    <2> QED
      BY <1>0, <2>1, <2>2, <2>3, <2>4
  <1>11. CASE FlushFail
    <2>1. /\ writeErr' = TRUE /\ wpc' = "exiting" /\ phase # "idle"
          /\ UNCHANGED <<runVars, dbVars, rowsBefore>>
      BY <1>11 DEF FlushFail, histVars, IInv, Lifecycle
    <2> QED
      BY <2>1 DEF runVars, dbVars
  <1>12. CASE UNCHANGED vars
    BY <1>5, <1>12 DEF vars, runVars, writerVars, dbVars, histVars
  <1> QED
    BY <1>1, <1>2, <1>3, <1>4, <1>6, <1>7, <1>8, <1>9, <1>10, <1>11, <1>12,
       <1>13
       DEF Next, WriterStep, RunStep, Finished

-----------------------------------------------------------------------------
(* The limit. *)

(* The data records of the messages that are being sent, with their emitter.*)
Sending == {x \in Emitters \X DataRecord :
               pc[x[1]] \in {"send", "sent"} /\ x[2] \in out[x[1]].msg.recs}
Used == IF emitted < MaxRecords THEN emitted ELSE MaxRecords

(* What has been charged within the limit is fetched, on its way, or lost   *)
(* to a send that was refused.  An emitter is told of the limit only once   *)
(* it is used up.                                                           *)
Metered ==
    /\ MaxRecords > 0 =>
          /\ fetched + Cardinality(Sending) <= Used
          /\ phase # "idle" /\ seen \cap {"WriteErr", "Canceled"} = {} =>
                fetched + Cardinality(Sending) = Used
    /\ "ErrLimit" \in seen => MaxRecords > 0 /\ emitted >= MaxRecords
    /\ \A e \in Emitters : pc[e] \in {"send", "sent"} /\ out[e].limited =>
          MaxRecords > 0 /\ emitted >= MaxRecords

LEMMA SendingType == IsFiniteSet(Sending) /\ Cardinality(Sending) \in Nat
  <1>1. IsFiniteSet(DataRecord)
    BY RecordAssumption, FS_Subset
  <1>2. IsFiniteSet(Emitters \X DataRecord)
    BY <1>1, EmittersAssumption, FS_Product
  <1>3. Sending \subseteq Emitters \X DataRecord
    BY DEF Sending
  <1> QED
    BY <1>2, <1>3, FS_Subset, FS_CardinalityType

(* The data records of one message. *)
LEMMA OneMessage ==
    ASSUME NEW e \in Emitters, NEW recs \in SUBSET Record
    PROVE  /\ IsFiniteSet({e} \X (recs \cap DataRecord))
           /\ Cardinality({e} \X (recs \cap DataRecord)) = DataCount(recs)
  <1>1. IsFiniteSet({e}) /\ Cardinality({e}) = 1
    BY FS_Singleton
  <1>2. IsFiniteSet(recs \cap DataRecord) /\ Cardinality(recs \cap DataRecord) \in Nat
    BY CardinalityType
  <1>3. /\ IsFiniteSet({e} \X (recs \cap DataRecord))
        /\ Cardinality({e} \X (recs \cap DataRecord)) = 1 * Cardinality(recs \cap DataRecord)
    BY <1>1, <1>2, FS_Product
  <1> QED
    BY <1>2, <1>3 DEF DataCount

LEMMA SendingGrows ==
    ASSUME TypeOK, NEW e \in Emitters, NEW recs \in SUBSET Record,
           pc[e] \notin {"send", "sent"}, pc'[e] \in {"send", "sent"},
           out'[e].msg.recs = recs,
           \A d \in Emitters \ {e} : pc'[d] = pc[d] /\ out'[d] = out[d]
    PROVE  Cardinality(Sending') = Cardinality(Sending) + DataCount(recs)
  <1> DEFINE new == {e} \X (recs \cap DataRecord)
  <1>1. Sending' = Sending \cup new
    BY DEF Sending
  <1>2. Sending \cap new = {}
    BY DEF Sending
  <1>3. Cardinality(Sending \cup new) =
            Cardinality(Sending) + Cardinality(new) - Cardinality(Sending \cap new)
    BY SendingType, OneMessage, FS_Union
  <1>4. Cardinality(Sending \cap new) = 0
    BY <1>2, FS_EmptySet
  <1>5. Cardinality(new) = DataCount(recs) /\ DataCount(recs) \in Nat
    BY OneMessage, DataCountType
  <1>6. Cardinality(Sending) \in Nat
    BY SendingType
  <1> HIDE DEF new
  <1> QED
    BY <1>1, <1>3, <1>4, <1>5, <1>6

LEMMA SendingShrinks ==
    ASSUME TypeOK, NEW e \in Emitters,
           pc[e] \in {"send", "sent"}, pc'[e] \notin {"send", "sent"},
           \A d \in Emitters \ {e} : pc'[d] = pc[d] /\ out'[d] = out[d]
    PROVE  Cardinality(Sending') = Cardinality(Sending) - DataCount(out[e].msg.recs)
  <1> DEFINE old == {e} \X (out[e].msg.recs \cap DataRecord)
  <1>0. out[e].msg.recs \in SUBSET Record
    BY DEF TypeOK, SourceType, Outgoing, Message
  <1>1. Sending' = Sending \ old
    BY DEF Sending
  <1>2. Sending \cap old = old
    BY DEF Sending
  <1>3. Cardinality(Sending \ old) = Cardinality(Sending) - Cardinality(Sending \cap old)
    BY SendingType, FS_Difference
  <1> QED
    BY <1>0, <1>1, <1>2, <1>3, OneMessage

LEMMA SendingSame ==
    ASSUME TypeOK, \A e \in Emitters :
              /\ pc'[e] \in {"send", "sent"} <=> pc[e] \in {"send", "sent"}
              /\ pc[e] \in {"send", "sent"} => out'[e] = out[e]
    PROVE  Sending' = Sending
  BY DEF Sending

(* A batch that is truncated uses what is left of the limit. *)
LEMMA UsedByBatch ==
    ASSUME TypeOK, MaxRecords > 0, NEW recs \in Batches, NEW kept \in Admitted(recs),
           emitted' = Charged(recs)
    PROVE  /\ Used' = Used + DataCount(kept)
           /\ Overdraws(recs) \/ kept = {} => emitted' >= MaxRecords
           /\ emitted' >= emitted
  <1>1. recs \in SUBSET Record /\ kept \in SUBSET Record /\ recs # {}
    BY AdmittedType, BatchesAssumption
  <1>2. DataCount(recs) \in Nat /\ DataCount(kept) \in Nat /\ emitted \in Nat
    BY <1>1, DataCountType DEF TypeOK, QueueType
  <1>3. emitted' = emitted + DataCount(recs)
    BY DEF Charged
  <1>4. CASE Overdraws(recs)
    <2>1. DataCount(kept) = Room
      BY <1>4 DEF Admitted, Truncated
    <2> QED
      BY <1>2, <1>3, <1>4, <2>1, LimitAssumption DEF Overdraws, Room, Used
  <1>5. CASE ~Overdraws(recs)
    <2>1. kept = recs
      BY <1>5 DEF Admitted
    <2>2. DataCount(recs) = 0 \/ emitted + DataCount(recs) <= MaxRecords
      BY <1>2, <1>5, LimitAssumption DEF Overdraws
    <2> QED
      BY <1>1, <1>2, <1>3, <1>5, <2>1, <2>2, LimitAssumption DEF Used
  <1> QED
    BY <1>4, <1>5

LEMMA MeteredStep == IInv /\ Metered /\ [Next]_vars => Metered'
  <1> SUFFICES ASSUME IInv, Metered, [Next]_vars
               PROVE  Metered'
    OBVIOUS
  <1> USE DEF Metered
  <1>0. /\ TypeOK
        /\ pc \in [Emitters -> {"returned", "idle", "send", "sent"}]
        /\ out \in [Emitters -> Outgoing]
        /\ emitted \in Nat /\ fetched \in Nat /\ MaxRecords \in Nat
        /\ Cardinality(Sending) \in Nat
    BY SendingType, LimitAssumption DEF IInv, TypeOK, SourceType, QueueType
  (* Nothing happens to the messages or the counters. *)
  <1>1. ASSUME UNCHANGED <<emitted, fetched>>,
               \A e \in Emitters :
                   /\ pc'[e] \in {"send", "sent"} <=> pc[e] \in {"send", "sent"}
                   /\ pc[e] \in {"send", "sent"} => out'[e] = out[e],
               seen' = seen, phase' # "idle" => phase # "idle"
        PROVE  Metered'
    <2>1. Sending' = Sending
      BY <1>0, <1>1, SendingSame
    <2>2. Used' = Used
      BY <1>1 DEF Used
    <2> QED
      BY <1>1, <2>1, <2>2
  (* A refused send. *)
  <1>2. ASSUME NEW e \in Emitters, SendStopped(e) \/ SendCancelled(e)
        PROVE  Metered'
    <2>1. /\ pc[e] = "send" /\ pc' = [pc EXCEPT ![e] = "idle"] /\ UNCHANGED <<out, emitted, fetched>>
          /\ seen' \cap {"WriteErr", "Canceled"} # {}
          /\ "ErrLimit" \in seen' => "ErrLimit" \in seen
      BY <1>2 DEF SendStopped, SendCancelled, queueVars
    <2>2. Cardinality(Sending') = Cardinality(Sending) - DataCount(out[e].msg.recs)
      BY <1>0, <2>1, SendingShrinks
    <2>3. DataCount(out[e].msg.recs) \in Nat /\ Cardinality(Sending') \in Nat
      <3>1. out[e].msg.recs \in SUBSET Record
        BY <1>0 DEF Outgoing, Message
      <3>2. IsFiniteSet(Sending') /\ Sending' \subseteq Sending
        <4>1. Sending' \subseteq Sending
          BY <1>0, <2>1 DEF Sending
        <4> QED
          BY <4>1, SendingType, FS_Subset
      <3> QED
        BY <3>1, <3>2, DataCountType, FS_CardinalityType
    <2>4. Used' = Used /\ Used \in Nat
      BY <1>0, <2>1 DEF Used
    <2>5. MaxRecords > 0 => fetched' + Cardinality(Sending') <= Used'
      BY <1>0, <2>1, <2>2, <2>3, <2>4
    <2>6. \A d \in Emitters : pc'[d] \in {"send", "sent"} => pc'[d] = pc[d] /\ out'[d] = out[d]
      BY <1>0, <2>1
    <2> QED
      BY <2>1, <2>5, <2>6
  <1>3. ASSUME NEW e \in Emitters, EmitEnd(e)
        PROVE  Metered'
    <2> DEFINE recs == out[e].msg.recs
    <2>1. /\ pc[e] = "sent" /\ pc' = [pc EXCEPT ![e] = "idle"] /\ UNCHANGED <<out, emitted, phase>>
          /\ fetched' = fetched + DataCount(recs)
          /\ \/ seen' = seen
             \/ out[e].limited /\ seen' = seen \cup {"ErrLimit"}
      BY <1>3 DEF EmitEnd, runVars
    <2>2. Cardinality(Sending') = Cardinality(Sending) - DataCount(recs)
      BY <1>0, <2>1, SendingShrinks
    <2>3. DataCount(recs) \in Nat
      <3>1. recs \in SUBSET Record
        BY <1>0 DEF Outgoing, Message
      <3> QED
        BY <3>1, DataCountType
    <2> HIDE DEF recs
    <2>4. Used' = Used /\ Used \in Nat
      BY <1>0, <2>1 DEF Used
    <2>5. fetched' + Cardinality(Sending') = fetched + Cardinality(Sending)
      BY <1>0, <2>1, <2>2, <2>3
    <2>6. \A d \in Emitters : pc'[d] \in {"send", "sent"} => pc'[d] = pc[d] /\ out'[d] = out[d]
      BY <1>0, <2>1
    <2>7. seen' \cap {"WriteErr", "Canceled"} = {} => seen \cap {"WriteErr", "Canceled"} = {}
      BY <2>1
    <2>8. "ErrLimit" \in seen' => MaxRecords > 0 /\ emitted >= MaxRecords
      BY <2>1
    <2> QED
      BY <2>1, <2>4, <2>5, <2>6, <2>7, <2>8
  <1>4. ASSUME NEW e \in Emitters, PutStateBegin(e)
        PROVE  Metered'
    <2>1. /\ pc[e] = "idle" /\ pc' = [pc EXCEPT ![e] = "send"]
          /\ out' = [out EXCEPT ![e] =
                [msg |-> [recs |-> {}, state |-> covered], limited |-> FALSE]]
          /\ UNCHANGED <<phase, seen, emitted, fetched>>
      BY <1>4 DEF PutStateBegin, runVars, queueVars
    <2>2. out'[e].msg.recs = {} /\ ~out'[e].limited
      BY <1>0, <2>1
    <2>3. \A d \in Emitters \ {e} : pc'[d] = pc[d] /\ out'[d] = out[d]
      BY <1>0, <2>1
    <2>4. Sending' = Sending
      BY <1>0, <2>1, <2>2, <2>3 DEF Sending
    <2>5. Used' = Used
      BY <2>1 DEF Used
    <2> QED
      BY <2>1, <2>2, <2>3, <2>4, <2>5
  <1>5. ASSUME NEW e \in Emitters, EmitBegin(e)
        PROVE  Metered'
    <2>0. PICK recs \in Batches : \E kept \in Admitted(recs) : Dispatch(e, recs, kept)
      BY <1>5 DEF EmitBegin
    <2>1. PICK kept \in Admitted(recs) : Dispatch(e, recs, kept)
      BY <2>0
    <2>2. /\ pc[e] = "idle" /\ phase' = phase /\ phase # "idle" /\ fetched' = fetched
          /\ emitted' = Charged(recs)
      BY <1>5, <2>1 DEF EmitBegin, Dispatch, runVars
    <2>3. DataCount(kept) \in Nat /\ kept \in SUBSET Record
      BY AdmittedType, DataCountType
    <2>4. MaxRecords > 0 => /\ Used' = Used + DataCount(kept)
                            /\ Overdraws(recs) \/ kept = {} => emitted' >= MaxRecords
                            /\ emitted' >= emitted
      BY <1>0, <2>2, UsedByBatch
    <2>5. MaxRecords = 0 => ~Overdraws(recs) /\ kept # {} /\ emitted' = emitted
      BY <2>2, BatchesAssumption DEF Overdraws, Admitted, Charged
    <2>6. CASE kept = {}
      <3>1. seen' = seen \cup {"ErrLimit"} /\ UNCHANGED <<pc, out>>
        BY <2>1, <2>6 DEF Dispatch
      <3>2. Sending' = Sending
        BY <3>1 DEF Sending
      <3>3. DataCount(kept) = 0
        BY <2>6, FS_EmptySet DEF DataCount
      <3>4. MaxRecords > 0
        BY <1>0, <2>5, <2>6
      <3>5. emitted' >= MaxRecords /\ emitted' \in Nat
        BY <1>0, <2>2, <2>4, <2>6, <3>4, DataCountType, AdmittedType DEF Charged
      <3>6. seen' \cap {"WriteErr", "Canceled"} = {} => seen \cap {"WriteErr", "Canceled"} = {}
        BY <3>1
      <3>7. Used' = Used
        BY <1>0, <2>4, <3>3, <3>4 DEF Used
      <3> QED
        BY <1>0, <2>2, <3>1, <3>2, <3>4, <3>5, <3>6, <3>7
    <2>7. CASE kept # {}
      <3>1. /\ out' = [out EXCEPT ![e] = [msg |-> [recs |-> kept, state |-> NoState],
                                         limited |-> Overdraws(recs)]]
            /\ pc' = [pc EXCEPT ![e] = "send"] /\ seen' = seen
        BY <2>1, <2>7 DEF Dispatch
      <3>2. /\ out'[e].msg.recs = kept /\ out'[e].limited = Overdraws(recs) /\ pc'[e] = "send"
            /\ \A d \in Emitters \ {e} : pc'[d] = pc[d] /\ out'[d] = out[d]
        BY <1>0, <3>1, Zenon
      <3>3. Cardinality(Sending') = Cardinality(Sending) + DataCount(kept)
        BY <1>0, <2>2, <2>3, <3>2, SendingGrows
      <3>4. MaxRecords > 0 => fetched' + Cardinality(Sending') = fetched + Cardinality(Sending) + DataCount(kept)
        BY <1>0, <2>2, <2>3, <3>3
      <3>5. Used \in Nat
        BY <1>0 DEF Used
      <3>6. MaxRecords > 0 => fetched' + Cardinality(Sending') <= Used'
        BY <1>0, <2>2, <2>3, <2>4, <3>3, <3>5
      <3>7. MaxRecords > 0 /\ seen' \cap {"WriteErr", "Canceled"} = {} =>
                fetched' + Cardinality(Sending') = Used'
        BY <1>0, <2>2, <2>3, <2>4, <3>1, <3>3, <3>5
      <3>8. "ErrLimit" \in seen' => MaxRecords > 0 /\ emitted' >= MaxRecords
        BY <1>0, <2>2, <2>4, <3>1, DataCountType, AdmittedType DEF Charged
      <3>9. ASSUME NEW d \in Emitters, pc'[d] \in {"send", "sent"}, out'[d].limited
            PROVE  MaxRecords > 0 /\ emitted' >= MaxRecords
        <4>1. CASE d = e
          <5>1. Overdraws(recs)
            BY <3>2, <3>9, <4>1
          <5> QED
            BY <1>0, <2>4, <2>5, <5>1
        <4>2. CASE d # e
          <5>1. MaxRecords > 0 /\ emitted >= MaxRecords
            BY <3>2, <3>9, <4>2
          <5> QED
            BY <1>0, <2>2, <2>4, <5>1, DataCountType, AdmittedType DEF Charged
        <4> QED
          BY <4>1, <4>2
      <3> QED
        BY <3>6, <3>7, <3>8, <3>9
    <2> QED
      BY <2>6, <2>7
  <1>6. ASSUME NEW e \in Emitters, Send(e) \/ Return(e)
        PROVE  Metered'
    <2>1. /\ UNCHANGED <<out, emitted, fetched, seen, phase>>
          /\ \/ pc[e] = "send" /\ pc' = [pc EXCEPT ![e] = "sent"]
             \/ pc[e] = "idle" /\ pc' = [pc EXCEPT ![e] = "returned"]
      BY <1>6 DEF Send, Return, runVars, queueVars
    <2> QED
      BY <1>0, <1>1, <2>1
  <1>7. CASE StartRun
    <2>1. /\ emitted' = 0 /\ fetched' = 0 /\ seen' = {} /\ UNCHANGED <<pc, out>>
          /\ \A e \in Emitters : pc[e] = "returned"
      BY <1>7 DEF StartRun, IInv, Lifecycle
    <2>2. Sending' = {}
      BY <2>1 DEF Sending
    <2>3. Cardinality(Sending') = 0
      BY <2>2, FS_EmptySet
    <2>4. Used' = 0
      BY <1>0, <2>1 DEF Used
    <2> QED
      BY <2>1, <2>3, <2>4
  <1>8. ASSUME NEW resume \in BOOLEAN, BeginCollect(resume)
        PROVE  Metered'
    <2>1. /\ UNCHANGED <<out, emitted, fetched, seen>> /\ phase # "idle"
          /\ pc' = [e \in Emitters |-> "idle"] /\ \A e \in Emitters : pc[e] = "returned"
      BY <1>8 DEF BeginCollect, queueVars, IInv, Lifecycle
    <2> QED
      BY <1>1, <2>1
  <1>9. CASE FinishRun \/ Crash
    <2>1. /\ phase' = "idle" /\ \A e \in Emitters : pc'[e] = "returned"
          /\ UNCHANGED <<emitted, fetched, seen>>
      BY <1>9 DEF FinishRun, Crash, DropPipeline
    <2>2. Sending' = {}
      BY <2>1 DEF Sending
    <2>3. Cardinality(Sending') = 0
      BY <2>2, FS_EmptySet
    <2>4. Used' = Used /\ Used \in Nat
      BY <1>0, <2>1 DEF Used
    <2>5. MaxRecords > 0 => fetched' + Cardinality(Sending') <= Used'
      BY <1>0, <2>1, <2>3, <2>4
    <2> QED
      BY <2>1, <2>5
  <1>10. CASE Reset \/ LoadFails \/ CloseQueue \/ Interrupt
    <2>1. UNCHANGED <<emitted, fetched, seen, pc, out>> /\ (phase' # "idle" => phase # "idle")
      BY <1>10 DEF Reset, LoadFails, CloseQueue, Interrupt, runVars, srcVars, queueVars
    <2> QED
      BY <1>1, <2>1
  <1>11. CASE WriterStep
    <2>1. UNCHANGED <<emitted, fetched, seen, pc, out, phase>>
      BY <1>11 DEF WriterStep, Receive, Tick, QueueClosed, FlushCommit, FlushFail, WriterExit,
                   Drain, runVars, srcVars, queueVars
    <2> QED
      BY <1>1, <2>1
  <1>12. CASE UNCHANGED vars
    BY <1>1, <1>12 DEF vars, runVars, srcVars, queueVars
  <1> QED
    BY <1>2, <1>3, <1>4, <1>5, <1>6, <1>7, <1>8, <1>9, <1>10, <1>11, <1>12
       DEF Next, EmitterStep, RunStep, Finished

LEMMA CountsInit == Init => RowsCounted /\ Metered
  <1> SUFFICES ASSUME Init
               PROVE  RowsCounted /\ Metered
    OBVIOUS
  <1>1. RowsCounted
    BY DEF Init, RowsCounted, RecordsColumn
  <1>2. Sending = {} /\ Used = 0
    BY LimitAssumption DEF Init, Sending, Used
  <1>3. Cardinality(Sending) = 0
    BY <1>2, FS_EmptySet
  <1> QED
    BY <1>1, <1>2, <1>3 DEF Init, Metered

LEMMA CountsInvariant == Spec => [](IInv /\ RowsCounted /\ Metered)
  <1>1. IInv /\ RowsCounted /\ Metered /\ [Next]_vars => RowsCounted' /\ Metered'
    BY RowsCountedStep, MeteredStep
  <1> QED
    BY Invariant, CountsInit, <1>1, PTL DEF Spec

(* The records column of a run that did not fail is the number of rows it   *)
(* added to tables that ignore and of records for tables that replace.      *)
THEOREM RecordsColumnIsExact == Spec => []RecordsColumn
  <1>1. RowsCounted => RecordsColumn
    BY DEF RowsCounted
  <1> QED
    BY CountsInvariant, <1>1, PTL

(* Emitters that charge the limit at once never get more than --max-records *)
(* data records between them into the queue, and a run told of the limit    *)
(* has collected that many, unless a send was refused.                      *)
THEOREM LimitIsKept == Spec => []LimitIsExact
  <1>1. IInv /\ Metered => LimitIsExact
    <2> SUFFICES ASSUME IInv, Metered
                 PROVE  LimitIsExact
      OBVIOUS
    <2>0. /\ emitted \in Nat /\ fetched \in Nat /\ MaxRecords \in Nat
          /\ Cardinality(Sending) \in Nat
      BY SendingType, LimitAssumption DEF IInv, TypeOK, QueueType
    <2>1. MaxRecords > 0 => fetched <= MaxRecords
      BY <2>0 DEF Metered, Used
    <2>2. ASSUME phase = "closing", "ErrLimit" \in seen, seen \cap {"WriteErr", "Canceled"} = {}
          PROVE  fetched = MaxRecords
      <3>1. \A e \in Emitters : pc[e] = "returned"
        BY <2>2 DEF IInv, Lifecycle
      <3>2. Sending = {}
        BY <3>1 DEF Sending
      <3>3. Cardinality(Sending) = 0
        BY <3>2, FS_EmptySet
      <3> QED
        BY <2>0, <2>2, <3>3 DEF Metered, Used
    <2> QED
      BY <2>1, <2>2 DEF LimitIsExact
  <1> QED
    BY CountsInvariant, <1>1, PTL
=============================================================================
