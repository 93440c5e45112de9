-------------------------- MODULE EventPipelineProofs --------------------------
(***************************************************************************)
(* Proofs about EventPipeline, for every set of requests, events and       *)
(* workers, every retry limit, every number of redeliveries and every set  *)
(* of faults.                                                              *)
(***************************************************************************)
EXTENDS EventPipeline, TLAPS

(* The row of an event is there as soon as a task for it can be there.      *)
RowExists ==
    /\ \A r \in Requests :
            phase[r] \in {"publish", "mark"} => status[Current(r)] # "absent"
    /\ \A e \in Events : \A k \in Attempts :
            queue[e][k] > 0 => status[e] # "absent"
    /\ \A w \in Workers : pc[w] # "idle" => status[task[w].event] # "absent"

(* At most one open transaction holds the row of an event. *)
LockIsExclusive ==
    \A v, w \in Workers :
        /\ pc[v] \in InTransaction
        /\ pc[w] \in InTransaction
        /\ task[v].event = task[w].event
        => v = w

(* What a worker has learned of its event at each point of process_event. *)
LocalState ==
    \A w \in Workers :
        /\ pc[w] \in InTransaction =>
                (task[w].incident # 0 <=> task[w].event \in Detected)
        /\ pc[w] = "selected" =>
                /\ task[w].incident # 0
                /\ task[w].existing = incident[task[w].event]
        /\ pc[w] \in {"persisted", "ticketed"} =>
                /\ processedAt[task[w].event]
                /\ incident[task[w].event] # 0

IInv ==
    /\ TypeOK
    /\ RowExists
    /\ LockIsExclusive
    /\ LocalState
    /\ ResultIsAtomic
    /\ OneLifecycleRow
    /\ NoticeAfterPersist

--------------------------------------------------------------------------------
(* Type correctness.                                                        *)

(* The initial state is well typed. *)
LEMMA InitTypeOK == Init => TypeOK
BY PipelineAssumption DEF Init, TypeOK, ApiTypeOK, DbTypeOK, BrokerTypeOK, WorkerTypeOK,
    Status, Busy

(* The loop of publish_batch is always at an event of its request. *)
LEMMA CurrentIsEvent ==
    ASSUME ApiTypeOK, NEW r \in Requests
    PROVE  Current(r) \in Events
BY PipelineAssumption DEF ApiTypeOK, Current

(* Ending a request keeps the state of the API well typed. *)
LEMMA AnswerTypeOK ==
    ASSUME ApiTypeOK, NEW r \in Requests,
           NEW code \in {"none", "accepted", "unavailable"}, Answer(r, code)
    PROVE  ApiTypeOK'
BY DEF ApiTypeOK, Answer

(* Going on to the next event of the batch does too, and stays in the batch. *)
LEMMA AdvanceTypeOK ==
    ASSUME ApiTypeOK, NEW r \in Requests, Advance(r)
    PROVE  ApiTypeOK'
<1>1. CASE next[r] = Len(Batch[r]) /\ Answer(r, "accepted")
  BY <1>1, AnswerTypeOK
<1>2. CASE /\ next[r] < Len(Batch[r])
           /\ next' = [next EXCEPT ![r] = @ + 1]
           /\ phase' = [phase EXCEPT ![r] = "record"]
           /\ UNCHANGED response
  <2>1. Batch[r] \in Seq(Events) /\ next[r] \in Nat
    BY PipelineAssumption DEF ApiTypeOK
  <2>2. next[r] + 1 \in DOMAIN Batch[r]
    BY <1>2, <2>1, DOMAIN Batch[r] = 1 .. Len(Batch[r])
  <2> QED
    BY <1>2, <2>1, <2>2 DEF ApiTypeOK
<1> QED
  BY <1>1, <1>2 DEF Advance

(* send_task and the retry keep the queues well typed. *)
LEMMA EnqueueTypeOK ==
    ASSUME BrokerTypeOK, NEW e \in Events, NEW k \in Attempts,
           Enqueue(e, k), UNCHANGED redelivered
    PROVE  BrokerTypeOK'
BY DEF BrokerTypeOK, Enqueue

(* record_event_accepted keeps the database well typed. *)
LEMMA InsertRowTypeOK ==
    ASSUME DbTypeOK, NEW e \in Events, InsertRow(e),
           UNCHANGED <<publishedAt, processedAt, retryCount, incident, lifecycle>>
    PROVE  DbTypeOK'
BY DEF DbTypeOK, InsertRow, Status

(* Every step of the ingestion API keeps the state well typed. *)
LEMMA ApiTypeCorrect ==
    ASSUME TypeOK, NEW r \in Requests, ApiStep(r) \/ ApiFault(r)
    PROVE  TypeOK'
<1>. DEFINE e == Current(r)
<1>0. /\ ApiTypeOK /\ DbTypeOK /\ BrokerTypeOK /\ WorkerTypeOK
      /\ tickets \subseteq Notice /\ pushes \subseteq Notice /\ lost \subseteq Events
      /\ e \in Events /\ 0 \in Attempts
  BY CurrentIsEvent, PipelineAssumption DEF TypeOK, Attempts
<1>. HIDE DEF e
<1>1. UNCHANGED <<workerVars, downVars>> /\ lost' \subseteq Events
  BY <1>0 DEF ApiStep, ApiFault, RecordAccepted, RecordFails, PublishTask, PublishFails,
     PublishLost, MarkPublished, MarkPublishedFails, ApiCrash, e
<1>2. WorkerTypeOK' /\ tickets' \subseteq Notice /\ pushes' \subseteq Notice
  BY <1>0, <1>1 DEF WorkerTypeOK, workerVars, downVars
<1>3. ApiTypeOK'
  <2>1. CASE RecordAccepted(r) \/ PublishTask(r) \/ PublishLost(r)
    BY <2>1, <1>0 DEF RecordAccepted, PublishTask, PublishLost, ApiTypeOK
  <2>2. CASE RecordFails(r) \/ PublishFails(r) \/ ApiCrash(r)
    BY <2>2, <1>0, AnswerTypeOK DEF RecordFails, PublishFails, ApiCrash
  <2>3. CASE MarkPublished(r) \/ MarkPublishedFails(r)
    BY <2>3, <1>0, AdvanceTypeOK DEF MarkPublished, MarkPublishedFails
  <2> QED
    BY <2>1, <2>2, <2>3 DEF ApiStep, ApiFault
<1>4. DbTypeOK'
  <2>1. CASE UNCHANGED dbVars
    BY <2>1, <1>0 DEF DbTypeOK, dbVars, rowVars
  <2>2. CASE RecordAccepted(r) \/ RecordFails(r)
    <3>1. \/ InsertRow(e) /\ UNCHANGED <<publishedAt, processedAt, retryCount, incident, lifecycle>>
          \/ UNCHANGED dbVars
      BY <2>2 DEF RecordAccepted, RecordFails, dbVars, rowVars, e
    <3> QED
      BY <3>1, <2>1, <1>0, InsertRowTypeOK
  <2>3. CASE MarkPublished(r)
    BY <2>3, <1>0 DEF MarkPublished, SetPublished, DbTypeOK, Status, e
  <2> QED
    BY <2>1, <2>2, <2>3 DEF ApiStep, ApiFault, PublishTask, PublishFails, PublishLost,
       MarkPublishedFails, ApiCrash
<1>5. BrokerTypeOK'
  <2>1. CASE UNCHANGED brokerVars
    BY <2>1, <1>0 DEF BrokerTypeOK, brokerVars
  <2>2. CASE PublishTask(r) \/ PublishFails(r)
    <3>1. UNCHANGED redelivered /\ (Enqueue(e, 0) \/ UNCHANGED queue)
      BY <2>2 DEF PublishTask, PublishFails, e
    <3> QED
      BY <3>1, <2>1, <1>0, EnqueueTypeOK DEF brokerVars
  <2> QED
    BY <2>1, <2>2 DEF ApiStep, ApiFault, RecordAccepted, RecordFails, PublishLost,
       MarkPublished, MarkPublishedFails, ApiCrash
<1> QED
  BY <1>1, <1>2, <1>3, <1>4, <1>5 DEF TypeOK

(* update_event_status keeps the database well typed. *)
LEMMA SetStatusTypeOK ==
    ASSUME DbTypeOK, NEW e \in Events, NEW s \in Status,
           NEW n \in 0 .. MaxRetries + 1, SetStatus(e, s, n),
           UNCHANGED <<incident, lifecycle>>
    PROVE  DbTypeOK'
BY DEF DbTypeOK, SetStatus

(* The transaction of persist_event_result does too. *)
LEMMA CommittedTypeOK ==
    ASSUME DbTypeOK, NEW w \in Workers, task[w] \in Task, Committed(w)
    PROVE  DbTypeOK'
<1>. DEFINE t == task[w]
<1>1. t.event \in Events /\ t.incident \in Nat
  BY DEF Task
<1>. HIDE DEF t
<1>2. /\ status' \in [Events -> Status \cup {"absent"}]
      /\ processedAt' \in [Events -> BOOLEAN]
      /\ UNCHANGED <<publishedAt, retryCount>>
  BY <1>1 DEF Committed, DbTypeOK, Status, t
<1>3. incident' \in [Events -> Nat]
  BY <1>1 DEF Committed, DbTypeOK, t
<1>4. lifecycle' \in [Events -> Nat]
  BY <1>1 DEF Committed, DbTypeOK, t
<1> QED
  BY <1>2, <1>3, <1>4 DEF DbTypeOK

(* The end of a task keeps the workers well typed. *)
LEMMA ReleaseTypeOK ==
    ASSUME WorkerTypeOK, NEW w \in Workers, Release(w), UNCHANGED minted
    PROVE  WorkerTypeOK'
BY DEF WorkerTypeOK, Release, Goto, Busy

(* So does going on to the next statement of process_event. *)
LEMMA GotoTypeOK ==
    ASSUME WorkerTypeOK, NEW w \in Workers, NEW label \in Busy,
           pc[w] # "idle", Goto(w, label), UNCHANGED <<task, minted>>
    PROVE  WorkerTypeOK'
BY DEF WorkerTypeOK, Goto

(* Every step of a worker keeps the state well typed. *)
LEMMA WorkerTypeCorrect ==
    ASSUME TypeOK, NEW w \in Workers, WorkerStep(w) \/ WorkerFault(w)
    PROVE  TypeOK'
<1>. DEFINE e == task[w].event
            k == task[w].retries
<1>0. /\ ApiTypeOK /\ DbTypeOK /\ BrokerTypeOK /\ WorkerTypeOK
      /\ tickets \subseteq Notice /\ pushes \subseteq Notice /\ lost \subseteq Events
      /\ MaxRetries \in Nat
  BY PipelineAssumption DEF TypeOK
<1>1. pc[w] # "idle"
  BY DEF WorkerStep, WorkerFault, MarkProcessing, DetectRaises, OpenTransaction,
     SelectIncident, Commit, Committed, CreateTicket, PushIncident, MarkFailed, Retry,
     MarkProcessingFails, PersistFails, DownstreamRaises, MarkFailedFails, RetryLost,
     WorkerCrash, InTransaction
<1>2. task[w] \in Task
  BY <1>0, <1>1 DEF WorkerTypeOK
<1>3. /\ e \in Events /\ k \in Attempts
      /\ k \in 0 .. MaxRetries + 1 /\ k + 1 \in 0 .. MaxRetries + 1
      /\ NoticeOf(w) \in Notice
  BY <1>0, <1>2 DEF Task, Attempts, NoticeOf, Notice
<1>. HIDE DEF e, k
<1>4. ApiTypeOK'
  <2>1. UNCHANGED apiVars
    BY DEF WorkerStep, WorkerFault, MarkProcessing, DetectRaises, OpenTransaction,
       SelectIncident, Commit, CreateTicket, PushIncident, MarkFailed, Retry,
       MarkProcessingFails, PersistFails, DownstreamRaises, MarkFailedFails, RetryLost,
       WorkerCrash
  <2> QED
    BY <2>1, <1>0 DEF ApiTypeOK, apiVars
<1>5. DbTypeOK'
  <2>1. CASE UNCHANGED dbVars
    BY <2>1, <1>0 DEF DbTypeOK, dbVars, rowVars
  <2>2. CASE MarkProcessing(w) \/ MarkProcessingFails(w)
    <3>1. /\ UNCHANGED rowVars \/ SetStatus(e, "processing", k)
          /\ UNCHANGED <<incident, lifecycle>>
      BY <2>2 DEF MarkProcessing, MarkProcessingFails, e, k
    <3> QED
      BY <3>1, <2>1, <1>0, <1>3, SetStatusTypeOK DEF dbVars, Status
  <2>3. CASE MarkFailed(w)
    <3>1. SetStatus(e, "failed", k + 1) /\ UNCHANGED <<incident, lifecycle>>
      BY <2>3 DEF MarkFailed, e, k
    <3> QED
      BY <3>1, <1>0, <1>3, SetStatusTypeOK DEF Status
  <2>4. CASE Commit(w) \/ PersistFails(w)
    <3>1. Committed(w) \/ UNCHANGED dbVars
      BY <2>4 DEF Commit, PersistFails
    <3> QED
      BY <3>1, <2>1, <1>0, <1>2, CommittedTypeOK
  <2> QED
    BY <2>1, <2>2, <2>3, <2>4 DEF WorkerStep, WorkerFault, DetectRaises, OpenTransaction,
       SelectIncident, CreateTicket, PushIncident, Retry, DownstreamRaises,
       MarkFailedFails, RetryLost, WorkerCrash
<1>6. BrokerTypeOK'
  <2>1. CASE UNCHANGED brokerVars
    BY <2>1, <1>0 DEF BrokerTypeOK, brokerVars
  <2>2. CASE Retry(w)
    <3>1. UNCHANGED redelivered
      BY <2>2 DEF Retry
    <3>2. (k < MaxRetries /\ Enqueue(e, k + 1)) \/ UNCHANGED queue
      BY <2>2 DEF Retry, e, k
    <3>3. k < MaxRetries => k + 1 \in Attempts
      BY <1>0, <1>3 DEF Attempts
    <3> QED
      BY <3>1, <3>2, <3>3, <2>1, <1>0, <1>3, EnqueueTypeOK DEF brokerVars
  <2> QED
    BY <2>1, <2>2 DEF WorkerStep, WorkerFault, MarkProcessing, DetectRaises,
       OpenTransaction, SelectIncident, Commit, CreateTicket, PushIncident, MarkFailed,
       MarkProcessingFails, PersistFails, DownstreamRaises, MarkFailedFails, RetryLost,
       WorkerCrash
<1>7. WorkerTypeOK'
  <2>1. CASE Release(w) /\ UNCHANGED minted
    BY <2>1, <1>0, ReleaseTypeOK
  <2>2. CASE UNCHANGED <<task, minted>> /\ \E label \in Busy : Goto(w, label)
    BY <2>2, <1>0, <1>1, GotoTypeOK
  <2>3. CASE OpenTransaction(w) \/ SelectIncident(w)
    <3>1. PICK t \in Task : task' = [task EXCEPT ![w] = t]
      <4>1. CASE OpenTransaction(w)
        <5>. DEFINE id == IF e \in Detected THEN minted[e] + 1 ELSE 0
        <5>1. id \in Nat
          BY <1>0, <1>3 DEF WorkerTypeOK
        <5>2. task' = [task EXCEPT ![w].incident = id]
          BY <4>1 DEF OpenTransaction, e
        <5>. HIDE DEF id
        <5>3. [task[w] EXCEPT !.incident = id] \in Task
          BY <5>1, <1>2 DEF Task
        <5> QED
          BY <5>2, <5>3
      <4>2. CASE SelectIncident(w)
        <5>1. incident[e] \in Nat
          BY <1>0, <1>3 DEF DbTypeOK
        <5>2. [task[w] EXCEPT !.existing = incident[e]] \in Task
          BY <5>1, <1>2 DEF Task
        <5> QED
          BY <4>2, <5>2 DEF SelectIncident, e
      <4> QED
        BY <2>3, <4>1, <4>2
    <3>2. PICK label \in Busy : Goto(w, label)
      BY <2>3 DEF OpenTransaction, SelectIncident, Busy, InTransaction
    <3>3. minted' \in [Events -> Nat]
      <4>1. CASE OpenTransaction(w)
        BY <4>1, <1>0, <1>3 DEF OpenTransaction, WorkerTypeOK, e
      <4>2. CASE SelectIncident(w)
        BY <4>2, <1>0 DEF SelectIncident, WorkerTypeOK
      <4> QED
        BY <2>3, <4>1, <4>2
    <3> QED
      BY <3>1, <3>2, <3>3, <1>0, <1>1 DEF WorkerTypeOK, Goto
  <2>4. CASE Commit(w)
    BY <2>4, <2>1, <2>2 DEF Commit, Busy
  <2>5. CASE MarkProcessing(w) \/ DetectRaises(w) \/ CreateTicket(w) \/ MarkFailed(w)
             \/ MarkProcessingFails(w) \/ PersistFails(w) \/ DownstreamRaises(w)
             \/ MarkFailedFails(w)
    BY <2>5, <2>2 DEF MarkProcessing, DetectRaises, CreateTicket, MarkFailed,
       MarkProcessingFails, PersistFails, DownstreamRaises, MarkFailedFails, Busy
  <2>6. CASE PushIncident(w) \/ Retry(w) \/ RetryLost(w) \/ WorkerCrash(w)
    BY <2>6, <2>1 DEF PushIncident, Retry, RetryLost, WorkerCrash
  <2> QED
    BY <2>3, <2>4, <2>5, <2>6 DEF WorkerStep, WorkerFault
<1>8. tickets' \subseteq Notice /\ pushes' \subseteq Notice
  <2>1. CASE UNCHANGED downVars
    BY <2>1, <1>0 DEF downVars
  <2>2. CASE CreateTicket(w) \/ PushIncident(w) \/ DownstreamRaises(w)
    BY <2>2, <1>0, <1>3 DEF CreateTicket, PushIncident, DownstreamRaises
  <2> QED
    BY <2>1, <2>2 DEF WorkerStep, WorkerFault, MarkProcessing, DetectRaises,
       OpenTransaction, SelectIncident, Commit, MarkFailed, Retry, MarkProcessingFails,
       PersistFails, MarkFailedFails, RetryLost, WorkerCrash
<1>9. lost' \subseteq Events
  BY <1>0, <1>3 DEF WorkerStep, WorkerFault, MarkProcessing, DetectRaises,
     OpenTransaction, SelectIncident, Commit, CreateTicket, PushIncident, MarkFailed,
     Retry, MarkProcessingFails, PersistFails, DownstreamRaises, MarkFailedFails,
     RetryLost, WorkerCrash, e
<1> QED
  BY <1>4, <1>5, <1>6, <1>7, <1>8, <1>9 DEF TypeOK

(* So does the delivery of a message. *)
LEMMA DeliverTypeCorrect ==
    ASSUME TypeOK, NEW w \in Workers, NEW e \in Events, NEW k \in Attempts, Deliver(w, e, k)
    PROVE  TypeOK'
<1>1. ApiTypeOK' /\ DbTypeOK' /\ tickets' \subseteq Notice /\ pushes' \subseteq Notice
      /\ lost' \subseteq Events
  BY DEF Deliver, TypeOK, ApiTypeOK, DbTypeOK, apiVars, dbVars, rowVars, downVars
<1>2. BrokerTypeOK'
  <2>1. redelivered' \in 0 .. MaxRedeliveries
    BY PipelineAssumption DEF Deliver, TypeOK, BrokerTypeOK
  <2>2. queue' \in [Events -> [Attempts -> Nat]]
    BY DEF Deliver, TypeOK, BrokerTypeOK
  <2> QED
    BY <2>1, <2>2 DEF BrokerTypeOK
<1>3. WorkerTypeOK'
  <2>. DEFINE t == [event |-> e, retries |-> k, incident |-> 0, existing |-> 0]
  <2>1. t \in Task
    BY DEF Task
  <2>2. task' = [task EXCEPT ![w] = t] /\ Goto(w, "started") /\ UNCHANGED minted
    BY DEF Deliver
  <2>. HIDE DEF t
  <2> QED
    BY <2>1, <2>2 DEF TypeOK, WorkerTypeOK, Goto, Busy
<1> QED
  BY <1>1, <1>2, <1>3 DEF TypeOK

(* And so does a stuttering step. *)
LEMMA StutterTypeCorrect == TypeOK /\ UNCHANGED vars => TypeOK'
BY DEF TypeOK, ApiTypeOK, DbTypeOK, BrokerTypeOK, WorkerTypeOK, vars, apiVars, dbVars,
   rowVars, brokerVars, workerVars, downVars

(* TypeOK is inductive. *)
LEMMA NextTypeOK == TypeOK /\ [Next]_vars => TypeOK'
BY ApiTypeCorrect, WorkerTypeCorrect, DeliverTypeCorrect, StutterTypeCorrect
   DEF Next, DeliverSome

(* The variables of the pipeline keep their types, retry_count its bound of *)
(* max_retries + 1 among them. *)
THEOREM TypeCorrect == Spec => []TypeOK
BY InitTypeOK, NextTypeOK, PTL DEF Spec

--------------------------------------------------------------------------------
(* The inductive invariant.                                                 *)

(* The inductive invariant holds at the start. *)
LEMMA InitIInv == Init => IInv
<1>. SUFFICES ASSUME Init PROVE IInv
  OBVIOUS
<1>1. TypeOK
  BY InitTypeOK
<1>2. RowExists /\ LockIsExclusive /\ LocalState
  BY DEF Init, RowExists, LockIsExclusive, LocalState, InTransaction
<1>3. ResultIsAtomic /\ OneLifecycleRow /\ NoticeAfterPersist
  BY DEF Init, ResultIsAtomic, OneLifecycleRow, NoticeAfterPersist
<1> QED
  BY <1>1, <1>2, <1>3 DEF IInv

(* The API never touches a result, and gives no row the status processed.   *)
LEMMA ApiKeepsResults ==
    ASSUME TypeOK, NEW r \in Requests, ApiStep(r) \/ ApiFault(r)
    PROVE  /\ UNCHANGED <<processedAt, incident, lifecycle, workerVars, downVars>>
           /\ \A e \in Events :
                /\ status'[e] = "processed" => status[e] = "processed"
                /\ status[e] # "absent" => status'[e] # "absent"
<1>1. UNCHANGED <<processedAt, incident, lifecycle, workerVars, downVars>>
  BY DEF ApiStep, ApiFault, RecordAccepted, RecordFails, PublishTask, PublishFails,
     PublishLost, MarkPublished, SetPublished, MarkPublishedFails, ApiCrash, dbVars, rowVars
<1>2. \/ UNCHANGED status
      \/ InsertRow(Current(r))
      \/ SetPublished(Current(r))
  BY DEF ApiStep, ApiFault, RecordAccepted, RecordFails, PublishTask, PublishFails,
     PublishLost, MarkPublished, MarkPublishedFails, ApiCrash, dbVars, rowVars
<1>3. status \in [Events -> Status \cup {"absent"}]
  BY DEF TypeOK, DbTypeOK
<1> QED
  BY <1>1, <1>2, <1>3 DEF InsertRow, SetPublished

(* The API queues a task only for an event whose row it has written. *)
LEMMA ApiKeepsRows ==
    ASSUME IInv, NEW r \in Requests, ApiStep(r) \/ ApiFault(r)
    PROVE  RowExists'
<1>. DEFINE c == Current(r)
<1>0. /\ TypeOK /\ ApiTypeOK /\ RowExists /\ c \in Events
      /\ status \in [Events -> Status \cup {"absent"}]
      /\ queue \in [Events -> [Attempts -> Nat]]
      /\ pc' = pc /\ task' = task
      /\ \A e \in Events : status[e] # "absent" => status'[e] # "absent"
  BY CurrentIsEvent, ApiKeepsResults DEF IInv, TypeOK, DbTypeOK, BrokerTypeOK, workerVars
<1>. HIDE DEF c
<1>1. \A s \in Requests : phase'[s] \in {"publish", "mark"} => status'[Current(s)'] # "absent"
  <2>. SUFFICES ASSUME NEW s \in Requests, phase'[s] \in {"publish", "mark"}
                PROVE  status'[Current(s)'] # "absent"
    OBVIOUS
  <2>1. CASE s # r
    <3>1. phase'[s] = phase[s] /\ next'[s] = next[s]
      BY <2>1, <1>0 DEF ApiTypeOK, ApiStep, ApiFault, RecordAccepted, RecordFails,
         PublishTask, PublishFails, PublishLost, MarkPublished, MarkPublishedFails,
         ApiCrash, Advance, Answer
    <3>2. Current(s)' = Current(s) /\ Current(s) \in Events
      BY <3>1, <1>0, CurrentIsEvent DEF Current
    <3> QED
      BY <3>1, <3>2, <1>0 DEF RowExists
  <2>2. CASE s = r /\ RecordAccepted(r)
    <3>1. Current(r)' = c /\ InsertRow(c)
      BY <2>2 DEF RecordAccepted, Current, c
    <3> QED
      BY <3>1, <2>2, <1>0 DEF InsertRow
  <2>3. CASE s = r /\ (PublishTask(r) \/ PublishLost(r))
    <3>1. Current(r)' = c /\ status[c] # "absent"
      BY <2>3, <1>0 DEF PublishTask, PublishLost, RowExists, Current, c
    <3> QED
      BY <3>1, <2>3, <1>0
  <2>4. CASE s = r /\ ~ (RecordAccepted(r) \/ PublishTask(r) \/ PublishLost(r))
    <3>1. phase'[r] \in {"record", "done"}
      BY <2>4, <1>0 DEF ApiTypeOK, ApiStep, ApiFault, RecordFails, PublishFails,
         MarkPublished, MarkPublishedFails, ApiCrash, Advance, Answer
    <3> QED
      BY <3>1, <2>4
  <2> QED
    BY <2>1, <2>2, <2>3, <2>4
<1>2. \A e \in Events : \A k \in Attempts : queue'[e][k] > 0 => status'[e] # "absent"
  <2>1. CASE UNCHANGED queue
    BY <2>1, <1>0 DEF RowExists
  <2>2. CASE Enqueue(c, 0) /\ phase[r] = "publish"
    <3>1. status[c] # "absent"
      BY <2>2, <1>0 DEF RowExists, c
    <3> QED
      BY <2>2, <3>1, <1>0 DEF Enqueue, RowExists
  <2> QED
    BY <2>1, <2>2 DEF ApiStep, ApiFault, RecordAccepted, RecordFails, PublishTask,
       PublishFails, PublishLost, MarkPublished, MarkPublishedFails, ApiCrash, brokerVars, c
<1>3. \A w \in Workers : pc'[w] # "idle" => status'[task'[w].event] # "absent"
  <2>1. \A w \in Workers : pc[w] # "idle" => task[w].event \in Events
    BY <1>0 DEF TypeOK, WorkerTypeOK, Task
  <2> QED
    BY <2>1, <1>0 DEF RowExists
<1> QED
  BY <1>1, <1>2, <1>3 DEF RowExists

(* The API keeps the inductive invariant. *)
LEMMA ApiKeepsIInv ==
    ASSUME IInv, NEW r \in Requests, ApiStep(r) \/ ApiFault(r)
    PROVE  IInv'
<1>1. TypeOK' /\ RowExists'
  BY ApiTypeCorrect, ApiKeepsRows DEF IInv
<1>2. /\ UNCHANGED <<processedAt, incident, lifecycle, pc, task, tickets, pushes>>
      /\ \A e \in Events : status'[e] = "processed" => status[e] = "processed"
  BY ApiKeepsResults DEF IInv, workerVars, downVars
<1>3. LockIsExclusive' /\ LocalState'
  BY <1>2 DEF IInv, LockIsExclusive, LocalState
<1>4. ResultIsAtomic' /\ OneLifecycleRow' /\ NoticeAfterPersist'
  BY <1>2 DEF IInv, ResultIsAtomic, OneLifecycleRow, NoticeAfterPersist
<1> QED
  BY <1>1, <1>3, <1>4 DEF IInv

(* No worker takes the row of an event away. *)
LEMMA WorkerKeepsStatus ==
    ASSUME TypeOK, NEW w \in Workers, WorkerStep(w) \/ WorkerFault(w)
    PROVE  \A e \in Events : status[e] # "absent" => status'[e] # "absent"
<1>1. \/ UNCHANGED status
      \/ \E s \in Status : status' = [status EXCEPT ![task[w].event] = s]
  <2>1. CASE MarkProcessing(w) \/ MarkProcessingFails(w) \/ MarkFailed(w)
    BY <2>1 DEF MarkProcessing, MarkProcessingFails, MarkFailed, SetStatus, Status, rowVars
  <2>2. CASE Commit(w) \/ PersistFails(w)
    BY <2>2 DEF Commit, PersistFails, Committed, Status, dbVars, rowVars
  <2> QED
    BY <2>1, <2>2 DEF WorkerStep, WorkerFault, DetectRaises, OpenTransaction,
       SelectIncident, CreateTicket, PushIncident, Retry, DownstreamRaises,
       MarkFailedFails, RetryLost, WorkerCrash, dbVars, rowVars
<1>2. status \in [Events -> Status \cup {"absent"}] /\ "absent" \notin Status
  BY DEF TypeOK, DbTypeOK, Status
<1> QED
  BY <1>1, <1>2

(* The other workers go nowhere while worker w takes a step. *)
LEMMA WorkerAlone ==
    ASSUME TypeOK, NEW w \in Workers, WorkerStep(w) \/ WorkerFault(w)
    PROVE  /\ \A v \in Workers \ {w} : pc'[v] = pc[v] /\ task'[v] = task[v]
           /\ pc[w] # "idle" /\ task[w] \in Task
           /\ pc'[w] # "idle" => task'[w].event = task[w].event
           /\ UNCHANGED apiVars
<1>0. pc \in [Workers -> Busy \cup {"idle"}] /\ task \in [Workers -> Task \cup {NoTask}]
  BY DEF TypeOK, WorkerTypeOK
<1>1. pc[w] # "idle" /\ UNCHANGED apiVars
  BY DEF WorkerStep, WorkerFault, MarkProcessing, DetectRaises, OpenTransaction,
     SelectIncident, Commit, Committed, CreateTicket, PushIncident, MarkFailed, Retry,
     MarkProcessingFails, PersistFails, DownstreamRaises, MarkFailedFails, RetryLost,
     WorkerCrash, InTransaction
<1>2. task[w] \in Task
  BY <1>1 DEF TypeOK, WorkerTypeOK
<1>3. CASE OpenTransaction(w) \/ SelectIncident(w)
  BY <1>0, <1>1, <1>2, <1>3 DEF OpenTransaction, SelectIncident, Goto, Task
<1>4. CASE Release(w)
  BY <1>0, <1>1, <1>2, <1>4 DEF Release, Goto
<1>5. CASE UNCHANGED task /\ \E label \in Busy : Goto(w, label)
  BY <1>0, <1>1, <1>2, <1>5 DEF Goto
<1> QED
  BY <1>3, <1>4, <1>5 DEF WorkerStep, WorkerFault, MarkProcessing, DetectRaises,
     Commit, CreateTicket, PushIncident, MarkFailed, Retry,
     MarkProcessingFails, PersistFails, DownstreamRaises, MarkFailedFails, RetryLost,
     WorkerCrash, Busy

(* Workers run, and retry, tasks of stored events only. *)
LEMMA WorkerKeepsRows ==
    ASSUME IInv, NEW w \in Workers, WorkerStep(w) \/ WorkerFault(w)
    PROVE  RowExists'
<1>. DEFINE e == task[w].event
<1>0. /\ TypeOK /\ ApiTypeOK /\ RowExists
      /\ queue \in [Events -> [Attempts -> Nat]]
      /\ \A d \in Events : status[d] # "absent" => status'[d] # "absent"
      /\ \A v \in Workers \ {w} : pc'[v] = pc[v] /\ task'[v] = task[v]
      /\ pc'[w] # "idle" => task'[w].event = e
      /\ pc[w] # "idle" /\ e \in Events /\ task[w].retries \in Attempts
      /\ phase' = phase /\ next' = next
  BY WorkerKeepsStatus, WorkerAlone
     DEF IInv, TypeOK, BrokerTypeOK, Task, apiVars
<1>1. status[e] # "absent"
  BY <1>0 DEF RowExists
<1>. HIDE DEF e
<1>2. \A r \in Requests : phase'[r] \in {"publish", "mark"} => status'[Current(r)'] # "absent"
  <2>1. \A r \in Requests : Current(r)' = Current(r) /\ Current(r) \in Events
    BY <1>0, CurrentIsEvent DEF Current
  <2> QED
    BY <2>1, <1>0 DEF RowExists
<1>3. \A d \in Events : \A k \in Attempts : queue'[d][k] > 0 => status'[d] # "absent"
  <2>1. \/ UNCHANGED queue
        \/ \E k \in Nat : Enqueue(e, k)
    <3>1. CASE Retry(w)
      BY <3>1, <1>0 DEF Retry, Attempts, e
    <3> QED
      BY <3>1 DEF WorkerStep, WorkerFault, MarkProcessing, DetectRaises,
         OpenTransaction, SelectIncident, Commit, CreateTicket, PushIncident, MarkFailed,
         MarkProcessingFails, PersistFails, DownstreamRaises, MarkFailedFails, RetryLost,
         WorkerCrash, brokerVars
  <2> QED
    BY <2>1, <1>0, <1>1 DEF Enqueue, RowExists
<1>4. \A v \in Workers : pc'[v] # "idle" => status'[task'[v].event] # "absent"
  <2>1. \A v \in Workers : pc[v] # "idle" => task[v].event \in Events
    BY <1>0 DEF TypeOK, WorkerTypeOK, Task
  <2> QED
    BY <2>1, <1>0, <1>1 DEF RowExists
<1> QED
  BY <1>2, <1>3, <1>4 DEF RowExists

(* OpenTransaction waits for the lock of the row, so the locks stay exclusive. *)
LEMMA WorkerKeepsLocks ==
    ASSUME IInv, NEW w \in Workers, WorkerStep(w) \/ WorkerFault(w)
    PROVE  LockIsExclusive'
<1>0. /\ TypeOK /\ LockIsExclusive
      /\ \A v \in Workers \ {w} : pc'[v] = pc[v] /\ task'[v] = task[v]
      /\ pc'[w] # "idle" => task'[w].event = task[w].event
      /\ pc \in [Workers -> Busy \cup {"idle"}]
  BY WorkerAlone DEF IInv, TypeOK, WorkerTypeOK
<1>1. CASE OpenTransaction(w)
  <2>1. ~ Locked(task[w].event)
    BY <1>1 DEF OpenTransaction
  <2> QED
    BY <2>1, <1>0 DEF Locked, LockIsExclusive, InTransaction
<1>2. CASE pc'[w] \in InTransaction => pc[w] \in InTransaction
  BY <1>2, <1>0 DEF LockIsExclusive, InTransaction
<1>3. OpenTransaction(w) \/ (pc'[w] \in InTransaction => pc[w] \in InTransaction)
  <2>1. CASE SelectIncident(w)
    BY <2>1 DEF SelectIncident, InTransaction
  <2>2. CASE ~ OpenTransaction(w) /\ ~ SelectIncident(w)
    BY <2>2, <1>0 DEF WorkerStep, WorkerFault, MarkProcessing, DetectRaises,
       Commit, CreateTicket, PushIncident, MarkFailed, Retry, Release, Goto,
       MarkProcessingFails, PersistFails, DownstreamRaises, MarkFailedFails, RetryLost,
       WorkerCrash, InTransaction
  <2> QED
    BY <2>1, <2>2
<1> QED
  BY <1>1, <1>2, <1>3

(* A worker changes results in one way only: by committing its transaction. *)
LEMMA WorkerCommitsResults ==
    ASSUME TypeOK, NEW w \in Workers, WorkerStep(w) \/ WorkerFault(w)
    PROVE  \/ Committed(w)
           \/ /\ UNCHANGED <<processedAt, incident, lifecycle>>
              /\ \A e \in Events : status'[e] = "processed" => status[e] = "processed"
<1>1. CASE UNCHANGED dbVars
  BY <1>1 DEF dbVars, rowVars
<1>2. CASE /\ \E n \in Nat, s \in {"processing", "failed"} : SetStatus(task[w].event, s, n)
           /\ UNCHANGED <<incident, lifecycle>>
  BY <1>2 DEF SetStatus, TypeOK, DbTypeOK
<1>3. CASE MarkProcessing(w) \/ MarkProcessingFails(w) \/ MarkFailed(w)
  <2>1. task[w].retries \in Nat /\ task[w].retries + 1 \in Nat
    BY <1>3, WorkerAlone, PipelineAssumption DEF Task, Attempts
  <2> QED
    BY <1>1, <1>2, <1>3, <2>1 DEF MarkProcessing, MarkProcessingFails, MarkFailed, dbVars
<1> QED
  BY <1>1, <1>3 DEF WorkerStep, WorkerFault, DetectRaises, OpenTransaction,
     SelectIncident, Commit, CreateTicket, PushIncident, Retry, PersistFails,
     DownstreamRaises, MarkFailedFails, RetryLost, WorkerCrash

(* What a commit does to the result of the event, and to no other event.    *)
LEMMA CommitEffect ==
    ASSUME IInv, NEW w \in Workers, Committed(w)
    PROVE  LET e == task[w].event IN
           /\ e \in Events
           /\ e \in Detected <=> task[w].incident # 0
           /\ processedAt'[e]
           /\ incident'[e] # 0 <=> e \in Detected
           /\ lifecycle'[e] = IF incident'[e] = 0 THEN 0 ELSE 1
           /\ incident[e] # 0 => incident'[e] = incident[e]
           /\ \A d \in Events \ {e} :
                /\ status'[d] = status[d]
                /\ processedAt'[d] = processedAt[d]
                /\ incident'[d] = incident[d]
                /\ lifecycle'[d] = lifecycle[d]
<1>. DEFINE e == task[w].event
<1>0. /\ TypeOK /\ DbTypeOK /\ task[w] \in Task /\ e \in Events
      /\ pc[w] \in InTransaction
      /\ pc[w] = "updated" => task[w].incident = 0
      /\ pc[w] = "selected" => task[w].incident # 0 /\ task[w].existing = incident[e]
      /\ task[w].incident # 0 <=> e \in Detected
      /\ task[w].incident \in Nat
  <2>1. pc[w] \in InTransaction /\ (pc[w] = "updated" => task[w].incident = 0)
    BY DEF Committed, InTransaction
  <2>2. TypeOK /\ DbTypeOK /\ task[w] \in Task
    BY <2>1 DEF IInv, TypeOK, WorkerTypeOK, InTransaction
  <2>3. e \in Events /\ task[w].incident \in Nat
    BY <2>2 DEF Task
  <2>4. /\ pc[w] = "selected" => task[w].incident # 0 /\ task[w].existing = incident[e]
        /\ task[w].incident # 0 <=> e \in Detected
    BY <2>1 DEF IInv, LocalState
  <2> QED
    BY <2>1, <2>2, <2>3, <2>4
<1>1. /\ incident[e] # 0 => e \in Detected
      /\ lifecycle[e] = IF incident[e] = 0 THEN 0 ELSE 1
  BY <1>0 DEF IInv, ResultIsAtomic, OneLifecycleRow
<1>2. /\ status' = [status EXCEPT ![e] = "processed"]
      /\ processedAt' = [processedAt EXCEPT ![e] = TRUE]
      /\ incident' = [incident EXCEPT ![e] = IF @ = 0 THEN task[w].incident ELSE @]
      /\ lifecycle' = [lifecycle EXCEPT ![e] =
                IF task[w].incident # 0 /\ task[w].existing = 0 THEN @ + 1 ELSE @]
  BY DEF Committed
<1>3. pc[w] = "updated" \/ pc[w] = "selected"
  BY DEF Committed
<1>. HIDE DEF e
<1>4. processedAt'[e] /\ \A d \in Events \ {e} :
                /\ status'[d] = status[d]
                /\ processedAt'[d] = processedAt[d]
                /\ incident'[d] = incident[d]
                /\ lifecycle'[d] = lifecycle[d]
  BY <1>0, <1>2 DEF DbTypeOK
<1>5. incident'[e] = IF incident[e] = 0 THEN task[w].incident ELSE incident[e]
  BY <1>0, <1>2 DEF DbTypeOK
<1>6. lifecycle'[e] = IF incident'[e] = 0 THEN 0 ELSE 1
  <2>1. lifecycle'[e] = IF task[w].incident # 0 /\ task[w].existing = 0
                        THEN lifecycle[e] + 1 ELSE lifecycle[e]
    BY <1>0, <1>2 DEF DbTypeOK
  <2> QED
    BY <2>1, <1>0, <1>1, <1>3, <1>5
<1> QED
  BY <1>0, <1>1, <1>4, <1>5, <1>6 DEF e

(* No step of a worker breaks the unity of status, incident and lifecycle. *)
LEMMA WorkerKeepsResults ==
    ASSUME IInv, NEW w \in Workers, WorkerStep(w) \/ WorkerFault(w)
    PROVE  ResultIsAtomic' /\ OneLifecycleRow'
<1>1. CASE Committed(w)
  BY <1>1, CommitEffect DEF IInv, ResultIsAtomic, OneLifecycleRow
<1>2. CASE /\ UNCHANGED <<processedAt, incident, lifecycle>>
           /\ \A e \in Events : status'[e] = "processed" => status[e] = "processed"
  BY <1>2 DEF IInv, ResultIsAtomic, OneLifecycleRow
<1> QED
  BY <1>1, <1>2, WorkerCommitsResults DEF IInv

(* No worker takes a result back. *)
LEMMA WorkerKeepsIncidents ==
    ASSUME IInv, NEW w \in Workers, WorkerStep(w) \/ WorkerFault(w)
    PROVE  \A e \in Events :
                /\ processedAt[e] => processedAt'[e]
                /\ incident[e] # 0 => incident'[e] = incident[e]
BY CommitEffect, WorkerCommitsResults DEF IInv

(* What a worker read in its transaction stays true: the other workers cannot *)
(* commit for the same event while it holds the lock. *)
LEMMA WorkerKeepsLocalState ==
    ASSUME IInv, NEW w \in Workers, WorkerStep(w) \/ WorkerFault(w)
    PROVE  LocalState'
<1>. DEFINE e == task[w].event
<1>0. /\ TypeOK /\ LocalState /\ LockIsExclusive /\ DbTypeOK /\ WorkerTypeOK
      /\ \A v \in Workers \ {w} : pc'[v] = pc[v] /\ task'[v] = task[v]
      /\ pc[w] # "idle" /\ task[w] \in Task /\ e \in Events
      /\ \A d \in Events : processedAt[d] => processedAt'[d]
      /\ \A d \in Events : incident[d] # 0 => incident'[d] = incident[d]
  BY WorkerAlone, WorkerKeepsIncidents DEF IInv, TypeOK, Task
<1>1. \A v \in Workers \ {w} :
        /\ pc'[v] \in InTransaction =>
                (task'[v].incident # 0 <=> task'[v].event \in Detected)
        /\ pc'[v] = "selected" =>
                /\ task'[v].incident # 0
                /\ task'[v].existing = incident'[task'[v].event]
        /\ pc'[v] \in {"persisted", "ticketed"} =>
                /\ processedAt'[task'[v].event]
                /\ incident'[task'[v].event] # 0
  <2>. SUFFICES ASSUME NEW v \in Workers \ {w}
                PROVE  /\ pc[v] \in InTransaction =>
                            (task[v].incident # 0 <=> task[v].event \in Detected)
                       /\ pc[v] = "selected" =>
                            /\ task[v].incident # 0
                            /\ task[v].existing = incident'[task[v].event]
                       /\ pc[v] \in {"persisted", "ticketed"} =>
                            /\ processedAt'[task[v].event]
                            /\ incident'[task[v].event] # 0
    BY <1>0
  <2>1. pc[v] # "idle" => task[v].event \in Events
    BY <1>0 DEF WorkerTypeOK, Task
  <2>2. pc[v] = "selected" => incident'[task[v].event] = incident[task[v].event]
    <3>. SUFFICES ASSUME pc[v] = "selected"
                  PROVE  incident'[task[v].event] = incident[task[v].event]
      OBVIOUS
    <3>1. CASE Committed(w)
      <4>1. pc[w] \in InTransaction
        BY <3>1 DEF Committed, InTransaction
      <4>2. task[v].event # e
        BY <4>1, <1>0 DEF LockIsExclusive, InTransaction
      <4> QED
        BY <3>1, <4>2, <2>1, CommitEffect
    <3>2. CASE UNCHANGED incident
      BY <3>2
    <3> QED
      BY <3>1, <3>2, <1>0, WorkerCommitsResults
  <2>3. pc[v] \in InTransaction => (task[v].incident # 0 <=> task[v].event \in Detected)
    BY <1>0 DEF LocalState
  <2>4. pc[v] = "selected" =>
            task[v].incident # 0 /\ task[v].existing = incident[task[v].event]
    BY <1>0 DEF LocalState
  <2>5. pc[v] \in {"persisted", "ticketed"} =>
            processedAt[task[v].event] /\ incident[task[v].event] # 0
    BY <1>0 DEF LocalState
  <2> QED
    BY <2>1, <2>2, <2>3, <2>4, <2>5, <1>0
<1>2. /\ pc'[w] \in InTransaction =>
                (task'[w].incident # 0 <=> task'[w].event \in Detected)
      /\ pc'[w] = "selected" =>
                /\ task'[w].incident # 0
                /\ task'[w].existing = incident'[task'[w].event]
      /\ pc'[w] \in {"persisted", "ticketed"} =>
                /\ processedAt'[task'[w].event]
                /\ incident'[task'[w].event] # 0
  <2>. USE <1>0 DEF WorkerTypeOK
  <2>1. CASE OpenTransaction(w)
    <3>. DEFINE id == IF e \in Detected THEN minted[e] + 1 ELSE 0
    <3>1. task' = [task EXCEPT ![w].incident = id] /\ pc'[w] = "updated"
      BY <2>1 DEF OpenTransaction, Goto
    <3>2. task'[w].incident = id /\ task'[w].event = e
      BY <3>1 DEF Task
    <3>3. id # 0 <=> e \in Detected
      OBVIOUS
    <3> QED
      BY <3>1, <3>2, <3>3
  <2>2. CASE SelectIncident(w)
    <3>1. /\ task' = [task EXCEPT ![w].existing = incident[e]]
          /\ pc'[w] = "selected" /\ pc[w] \in InTransaction
          /\ incident' = incident /\ task[w].incident # 0
      BY <2>2 DEF SelectIncident, Goto, InTransaction, dbVars
    <3>2. task'[w].incident = task[w].incident /\ task'[w].event = e
          /\ task'[w].existing = incident[e]
      BY <3>1 DEF Task
    <3> QED
      BY <3>1, <3>2 DEF LocalState
  <2>3. CASE Commit(w)
    <3>1. CASE Release(w)
      BY <3>1 DEF Release, Goto, InTransaction
    <3>2. CASE task[w].incident # 0 /\ Goto(w, "persisted") /\ UNCHANGED task
      <4>1. processedAt'[e] /\ incident'[e] # 0
        BY <2>3, <3>2, CommitEffect DEF Commit
      <4> QED
        BY <3>2, <4>1 DEF Goto, InTransaction
    <3> QED
      BY <2>3, <3>1, <3>2 DEF Commit
  <2>4. CASE CreateTicket(w)
    <3>1. pc[w] = "persisted" /\ pc'[w] = "ticketed" /\ task' = task
      BY <2>4 DEF CreateTicket, Goto
    <3>2. processedAt[e] /\ incident[e] # 0
      BY <3>1 DEF LocalState
    <3> QED
      BY <3>1, <3>2 DEF InTransaction
  <2>5. CASE \/ \E label \in {"processing", "failing", "retrying"} : Goto(w, label)
             \/ Release(w)
    BY <2>5 DEF Release, Goto, InTransaction
  <2> QED
    BY <2>1, <2>2, <2>3, <2>4, <2>5 DEF WorkerStep, WorkerFault, MarkProcessing,
       DetectRaises, PushIncident, MarkFailed, Retry, MarkProcessingFails, PersistFails,
       DownstreamRaises, MarkFailedFails, RetryLost, WorkerCrash
<1> QED
  BY <1>1, <1>2 DEF LocalState

(* A worker reports an incident only after it was persisted. *)
LEMMA WorkerKeepsNotices ==
    ASSUME IInv, NEW w \in Workers, WorkerStep(w) \/ WorkerFault(w)
    PROVE  NoticeAfterPersist'
<1>1. \A e \in Events : /\ processedAt[e] => processedAt'[e]
                        /\ incident[e] # 0 => incident'[e] # 0
  <2>1. \A e \in Events : incident[e] # 0 => incident'[e] = incident[e]
    BY WorkerKeepsIncidents
  <2> QED
    BY <2>1, WorkerKeepsIncidents
<1>2. CASE UNCHANGED downVars
  <2>1. \A n \in tickets \cup pushes : n.event \in Events
    BY DEF IInv, TypeOK, Notice
  <2> QED
    BY <1>1, <1>2, <2>1 DEF IInv, NoticeAfterPersist, downVars
<1>3. CASE CreateTicket(w) \/ PushIncident(w) \/ DownstreamRaises(w)
  <2>1. pc[w] \in {"persisted", "ticketed"} /\ UNCHANGED dbVars
    BY <1>3 DEF CreateTicket, PushIncident, DownstreamRaises
  <2>2. processedAt'[NoticeOf(w).event] /\ incident'[NoticeOf(w).event] # 0
    BY <2>1 DEF IInv, LocalState, NoticeOf, dbVars, rowVars
  <2>3. \A n \in tickets' \cup pushes' : n \in tickets \cup pushes \/ n = NoticeOf(w)
    BY <1>3 DEF CreateTicket, PushIncident, DownstreamRaises
  <2>4. \A n \in tickets \cup pushes : processedAt'[n.event] /\ incident'[n.event] # 0
    BY <2>1 DEF IInv, NoticeAfterPersist, dbVars, rowVars
  <2> QED
    BY <2>2, <2>3, <2>4 DEF NoticeAfterPersist
<1> QED
  BY <1>2, <1>3 DEF WorkerStep, WorkerFault, MarkProcessing, DetectRaises,
     OpenTransaction, SelectIncident, Commit, MarkFailed, Retry, MarkProcessingFails,
     PersistFails, MarkFailedFails, RetryLost, WorkerCrash

(* The workers keep the inductive invariant. *)
LEMMA WorkerKeepsIInv ==
    ASSUME IInv, NEW w \in Workers, WorkerStep(w) \/ WorkerFault(w)
    PROVE  IInv'
BY WorkerTypeCorrect, WorkerKeepsRows, WorkerKeepsLocks, WorkerKeepsLocalState,
   WorkerKeepsResults, WorkerKeepsNotices DEF IInv

(* So does the delivery of a message, the first time or again. *)
LEMMA DeliverKeepsIInv ==
    ASSUME IInv, NEW w \in Workers, NEW e \in Events, NEW k \in Attempts, Deliver(w, e, k)
    PROVE  IInv'
<1>. DEFINE t == [event |-> e, retries |-> k, incident |-> 0, existing |-> 0]
<1>1. TypeOK'
  BY DeliverTypeCorrect DEF IInv
<1>2. /\ queue[e][k] > 0
      /\ queue' = [queue EXCEPT ![e][k] = @ - 1] \/ queue' = queue
      /\ pc' = [pc EXCEPT ![w] = "started"]
      /\ task' = [task EXCEPT ![w] = t]
      /\ UNCHANGED <<apiVars, dbVars, downVars>>
  BY DEF Deliver, Goto
<1>3. t.event = e
  OBVIOUS
<1>. HIDE DEF t
<1>4. /\ TypeOK /\ RowExists /\ status[e] # "absent"
      /\ pc \in [Workers -> Busy \cup {"idle"}] /\ task \in [Workers -> Task \cup {NoTask}]
      /\ queue \in [Events -> [Attempts -> Nat]]
  BY <1>2 DEF IInv, TypeOK, WorkerTypeOK, BrokerTypeOK, RowExists
<1>5. RowExists'
  <2>1. \A r \in Requests : phase'[r] \in {"publish", "mark"} => status'[Current(r)'] # "absent"
    BY <1>2, <1>4 DEF RowExists, Current, apiVars, dbVars, rowVars
  <2>2. \A d \in Events : \A j \in Attempts : queue'[d][j] > 0 => status'[d] # "absent"
    BY <1>2, <1>4 DEF RowExists, dbVars, rowVars
  <2>3. \A v \in Workers : pc'[v] # "idle" => status'[task'[v].event] # "absent"
    BY <1>2, <1>3, <1>4 DEF RowExists, dbVars, rowVars
  <2> QED
    BY <2>1, <2>2, <2>3 DEF RowExists
<1>6. LockIsExclusive' /\ LocalState'
  BY <1>2, <1>4 DEF IInv, LockIsExclusive, LocalState, InTransaction, dbVars, rowVars
<1>7. ResultIsAtomic' /\ OneLifecycleRow' /\ NoticeAfterPersist'
  BY <1>2 DEF IInv, ResultIsAtomic, OneLifecycleRow, NoticeAfterPersist, dbVars, rowVars,
     downVars
<1> QED
  BY <1>1, <1>5, <1>6, <1>7 DEF IInv

(* And so does a stuttering step. *)
LEMMA StutterKeepsIInv == IInv /\ UNCHANGED vars => IInv'
<1>. SUFFICES ASSUME IInv, UNCHANGED vars PROVE IInv'
  OBVIOUS
<1>1. TypeOK'
  BY StutterTypeCorrect DEF IInv
<1>2. RowExists'
  BY DEF IInv, RowExists, Current, vars, apiVars, dbVars, rowVars, brokerVars, workerVars
<1>3. LockIsExclusive' /\ LocalState'
  BY DEF IInv, LockIsExclusive, LocalState, vars, dbVars, rowVars, workerVars
<1>4. ResultIsAtomic' /\ OneLifecycleRow' /\ NoticeAfterPersist'
  BY DEF IInv, ResultIsAtomic, OneLifecycleRow, NoticeAfterPersist, vars, dbVars, rowVars,
     downVars
<1> QED
  BY <1>1, <1>2, <1>3, <1>4 DEF IInv

(* IInv is inductive. *)
LEMMA NextKeepsIInv == IInv /\ [Next]_vars => IInv'
BY ApiKeepsIInv, WorkerKeepsIInv, DeliverKeepsIInv, StutterKeepsIInv
   DEF Next, DeliverSome

(* The inductive invariant holds in every reachable state. *)
THEOREM Invariance == Spec => []IInv
BY InitIInv, NextKeepsIInv, PTL DEF Spec

(* Status, incident and processed_at of an event change together. *)
THEOREM ResultAtomicity == Spec => []ResultIsAtomic
<1>1. IInv => ResultIsAtomic
  BY DEF IInv
<1> QED
  BY <1>1, Invariance, PTL

(* An incident has exactly one lifecycle row, whatever races on its event. *)
THEOREM LifecycleOnce == Spec => []OneLifecycleRow
<1>1. IInv => OneLifecycleRow
  BY DEF IInv
<1> QED
  BY <1>1, Invariance, PTL

(* Tickets and pushes are only made for persisted incidents. *)
THEOREM PersistBeforeNotice == Spec => []NoticeAfterPersist
<1>1. IInv => NoticeAfterPersist
  BY DEF IInv
<1> QED
  BY <1>1, Invariance, PTL

--------------------------------------------------------------------------------
(* Action properties.                                                       *)

(* No step takes a row, a result or an incident id back. *)
LEMMA StepKeepsIncidents ==
    ASSUME IInv, [Next]_vars
    PROVE  \A e \in Events : /\ incident[e] # 0 => incident'[e] = incident[e]
                             /\ processedAt[e] => processedAt'[e]
                             /\ status[e] # "absent" => status'[e] # "absent"
<1>1. CASE UNCHANGED <<processedAt, incident, status>>
  BY <1>1
<1>2. ASSUME NEW r \in Requests, ApiStep(r) \/ ApiFault(r)
      PROVE  UNCHANGED <<processedAt, incident>>
             /\ \A e \in Events : status[e] # "absent" => status'[e] # "absent"
  BY <1>2, ApiKeepsResults DEF IInv
<1>3. ASSUME NEW w \in Workers, WorkerStep(w) \/ WorkerFault(w)
      PROVE  \A e \in Events : /\ incident[e] # 0 => incident'[e] = incident[e]
                               /\ processedAt[e] => processedAt'[e]
                               /\ status[e] # "absent" => status'[e] # "absent"
  BY <1>3, WorkerKeepsIncidents, WorkerKeepsStatus DEF IInv
<1>4. CASE DeliverSome \/ UNCHANGED vars
  BY <1>1, <1>4 DEF DeliverSome, Deliver, vars, dbVars, rowVars
<1> QED
  BY <1>2, <1>3, <1>4 DEF Next

(* The incident id of an event never changes once it is set. *)
THEOREM IncidentStability == Spec => IncidentIsStable
<1>1. IInv /\ [Next]_vars =>
        [\A e \in Events : incident[e] # 0 => incident'[e] = incident[e]]_vars
  BY StepKeepsIncidents
<1> QED
  BY <1>1, Invariance, PTL DEF Spec, IncidentIsStable

(* Only the CASE of update_event_status writes "published". *)
LEMMA PublishStep ==
    ASSUME IInv, [Next]_vars
    PROVE  \A e \in Events : status'[e] = "published" => status[e] \in {"accepted", "published"}
<1>0. status \in [Events -> Status \cup {"absent"}]
  BY DEF IInv, TypeOK, DbTypeOK
<1>1. CASE UNCHANGED status
  BY <1>1
<1>2. ASSUME NEW r \in Requests, ApiStep(r) \/ ApiFault(r)
      PROVE  \/ UNCHANGED status
             \/ InsertRow(Current(r))
             \/ SetPublished(Current(r))
  BY <1>2 DEF ApiStep, ApiFault, RecordAccepted, RecordFails, PublishTask, PublishFails,
     PublishLost, MarkPublished, MarkPublishedFails, ApiCrash, dbVars, rowVars
<1>3. ASSUME NEW w \in Workers, WorkerStep(w) \/ WorkerFault(w)
      PROVE  \/ UNCHANGED status
             \/ \E s \in {"processing", "processed", "failed"} :
                    status' = [status EXCEPT ![task[w].event] = s]
  <2>1. CASE MarkProcessing(w) \/ MarkProcessingFails(w) \/ MarkFailed(w)
    BY <2>1 DEF MarkProcessing, MarkProcessingFails, MarkFailed, SetStatus, rowVars
  <2>2. CASE Commit(w) \/ PersistFails(w)
    BY <2>2 DEF Commit, PersistFails, Committed, dbVars, rowVars
  <2> QED
    BY <1>3, <2>1, <2>2 DEF WorkerStep, WorkerFault, DetectRaises, OpenTransaction,
       SelectIncident, CreateTicket, PushIncident, Retry, DownstreamRaises,
       MarkFailedFails, RetryLost, WorkerCrash, dbVars, rowVars
<1>4. CASE DeliverSome \/ UNCHANGED vars
  BY <1>1, <1>4 DEF DeliverSome, Deliver, vars, dbVars, rowVars
<1>5. CASE \E r \in Requests : ApiStep(r) \/ ApiFault(r)
  BY <1>0, <1>2, <1>5 DEF InsertRow, SetPublished
<1>6. CASE \E w \in Workers : WorkerStep(w) \/ WorkerFault(w)
  BY <1>0, <1>3, <1>6
<1> QED
  BY <1>4, <1>5, <1>6 DEF Next

(* The late update of the API never takes a status of a worker back. *)
THEOREM PublishMonotonicity == Spec => PublishNeverRegresses
<1>1. IInv /\ [Next]_vars =>
        [\A e \in Events :
            status'[e] = "published" => status[e] \in {"accepted", "published"}]_vars
  BY PublishStep
<1> QED
  BY <1>1, Invariance, PTL DEF Spec, PublishNeverRegresses

--------------------------------------------------------------------------------
(* No event is lost silently.  The two arguments are: an event is working   *)
(* while some copy of its task will still write its row, and what the last  *)
(* such copy writes is an outcome.                                          *)

(* Worker w has yet to write an outcome, or to queue another attempt. *)
Unfinished(w) ==
    \/ pc[w] \in InTransaction \cup {"started", "processing", "failing"}
    \/ pc[w] = "retrying" /\ task[w].retries < MaxRetries

Working(e) ==
    \/ \E k \in Attempts : queue[e][k] > 0
    \/ \E w \in Workers : Unfinished(w) /\ task[w].event = e

Outcome(e) ==
    \/ status[e] = "processed"
    \/ status[e] = "failed" /\ retryCount[e] = MaxRetries + 1

ProgressInv ==
    /\ \A r \in Requests : phase[r] # "done" => response[r] = "none"
    /\ \A r \in Requests : \A e \in HandedOver(r) \ lost : Working(e) \/ Outcome(e)

(* What is handed over are events. *)
LEMMA HandedOverAreEvents ==
    ASSUME ApiTypeOK, NEW r \in Requests
    PROVE  HandedOver(r) \subseteq Events
<1>1. Batch[r] \in Seq(Events)
  BY PipelineAssumption
<1> QED
  BY <1>1 DEF HandedOver

(* A worker gives an event up only with an outcome, or by losing the task:  *)
(* a copy that has written its outcome leaves whatever another one wrote.   *)
LEMMA WorkerKeepsProgress ==
    ASSUME TypeOK, "status" \notin Faults,
           NEW w \in Workers, WorkerStep(w) \/ WorkerFault(w),
           NEW e \in Events, e \notin lost', Working(e) \/ Outcome(e)
    PROVE  Working(e)' \/ Outcome(e)'
<1>. DEFINE c == task[w].event
            k == task[w].retries
<1>0. /\ \A v \in Workers \ {w} : pc'[v] = pc[v] /\ task'[v] = task[v]
      /\ pc[w] # "idle" /\ task[w] \in Task
      /\ c \in Events /\ k \in Attempts /\ MaxRetries \in Nat
      /\ pc \in [Workers -> Busy \cup {"idle"}] /\ task \in [Workers -> Task \cup {NoTask}]
      /\ status \in [Events -> Status \cup {"absent"}]
      /\ retryCount \in [Events -> 0 .. MaxRetries + 1]
      /\ queue \in [Events -> [Attempts -> Nat]]
  BY WorkerAlone, PipelineAssumption DEF TypeOK, WorkerTypeOK, DbTypeOK, BrokerTypeOK, Task
<1>. HIDE DEF c, k
<1>1. ~ MarkProcessingFails(w) /\ ~ MarkFailedFails(w)
  BY DEF MarkProcessingFails, MarkFailedFails
<1>2. \A v \in Workers \ {w} : Unfinished(v)' <=> Unfinished(v)
  BY <1>0 DEF Unfinished
<1>3. CASE /\ UNCHANGED queue \/ Retry(w)
           /\ \/ UNCHANGED <<status, retryCount>>
              \/ \E s \in Status, n \in 0 .. MaxRetries + 1 :
                    /\ status' = [status EXCEPT ![c] = s]
                    /\ UNCHANGED retryCount \/ retryCount' = [retryCount EXCEPT ![c] = n]
           /\ e # c
  <2>1. /\ status'[e] = status[e] /\ retryCount'[e] = retryCount[e]
        /\ queue'[e] = queue[e]
    BY <1>0, <1>3 DEF Retry, Enqueue, c
  <2>2. \A v \in Workers : Unfinished(v) /\ task[v].event = e => v # w
    BY <1>3 DEF c
  <2> QED
    BY <1>0, <1>2, <2>1, <2>2 DEF Working, Outcome
<1>4. CASE e = c /\ Unfinished(w)' /\ task'[w].event = c
  BY <1>4 DEF Working
<1>5. CASE e = c /\ ~ Unfinished(w) /\ UNCHANGED <<dbVars, queue>>
  <2>1. \A v \in Workers : Unfinished(v) => v \in Workers \ {w}
    BY <1>5
  <2>2. Outcome(e) => Outcome(e)'
    BY <1>5 DEF Outcome, dbVars, rowVars
  <2>3. Working(e) => Working(e)'
    BY <1>0, <1>2, <1>5, <2>1 DEF Working
  <2> QED
    BY <2>2, <2>3
<1>6. CASE MarkProcessing(w) \/ DetectRaises(w) \/ PersistFails(w) \/ DownstreamRaises(w)
  <2>1. Unfinished(w)' /\ task'[w].event = c
    BY <1>0, <1>6 DEF MarkProcessing, DetectRaises, PersistFails, DownstreamRaises, Goto,
       Unfinished, c
  <2>2. /\ UNCHANGED queue
        /\ \/ UNCHANGED <<status, retryCount>>
           \/ \E s \in Status, n \in 0 .. MaxRetries + 1 :
                /\ status' = [status EXCEPT ![c] = s]
                /\ UNCHANGED retryCount \/ retryCount' = [retryCount EXCEPT ![c] = n]
    <3>1. CASE MarkProcessing(w)
      <4>1. UNCHANGED queue /\ SetStatus(c, "processing", k)
        BY <3>1 DEF MarkProcessing, brokerVars, c, k
      <4>2. k \in 0 .. MaxRetries + 1 /\ "processing" \in Status
        BY <1>0 DEF Attempts, Status
      <4> QED
        BY <4>1, <4>2 DEF SetStatus
    <3>2. CASE PersistFails(w)
      <4>1. UNCHANGED queue /\ (UNCHANGED dbVars \/ Committed(w))
        BY <3>2 DEF PersistFails, brokerVars
      <4>2. Committed(w) => /\ status' = [status EXCEPT ![c] = "processed"]
                            /\ UNCHANGED retryCount
        BY DEF Committed, c
      <4>3. "processed" \in Status /\ 0 \in 0 .. MaxRetries + 1
        BY <1>0 DEF Status
      <4> QED
        BY <4>1, <4>2, <4>3 DEF dbVars, rowVars
    <3>3. CASE DetectRaises(w) \/ DownstreamRaises(w)
      BY <3>3 DEF DetectRaises, DownstreamRaises, dbVars, rowVars, brokerVars
    <3> QED
      BY <1>6, <3>1, <3>2, <3>3
  <2> QED
    BY <1>3, <1>4, <2>1, <2>2
<1>7. CASE OpenTransaction(w) \/ SelectIncident(w)
  <2>1. UNCHANGED <<queue, status, retryCount>>
    BY <1>7 DEF OpenTransaction, SelectIncident, dbVars, rowVars, brokerVars
  <2>2. pc'[w] \in InTransaction /\ task'[w].event = c
    BY <1>0, <1>7 DEF OpenTransaction, SelectIncident, Goto, InTransaction, Task, c
  <2> QED
    BY <1>3, <1>4, <2>1, <2>2 DEF Unfinished
<1>8. CASE Commit(w)
  <2>1. /\ UNCHANGED <<queue, retryCount>>
        /\ status' = [status EXCEPT ![c] = "processed"]
    BY <1>8 DEF Commit, Committed, brokerVars, c
  <2>2. CASE e = c
    BY <1>0, <2>1, <2>2 DEF Outcome
  <2>3. "processed" \in Status /\ 0 \in 0 .. MaxRetries + 1
    BY <1>0 DEF Status
  <2> QED
    BY <1>3, <2>1, <2>2, <2>3
<1>9. CASE MarkFailed(w)
  <2>1. /\ UNCHANGED <<queue, task>>
        /\ status' = [status EXCEPT ![c] = "failed"]
        /\ retryCount' = [retryCount EXCEPT ![c] = k + 1]
        /\ pc'[w] = "retrying"
    BY <1>0, <1>9 DEF MarkFailed, SetStatus, Goto, brokerVars, c, k
  <2>2. "failed" \in Status /\ k + 1 \in 0 .. MaxRetries + 1 /\ k \in 0 .. MaxRetries
    BY <1>0 DEF Status, Attempts
  <2>3. CASE e = c /\ k < MaxRetries
    BY <1>4, <2>1, <2>3 DEF Unfinished, c, k
  <2>4. CASE e = c /\ k = MaxRetries
    BY <1>0, <2>1, <2>4 DEF Outcome
  <2>5. CASE e # c
    BY <1>3, <2>1, <2>2, <2>5
  <2> QED
    BY <1>0, <2>2, <2>3, <2>4, <2>5
<1>10. CASE CreateTicket(w) \/ PushIncident(w)
  <2>1. UNCHANGED <<dbVars, queue>> /\ ~ Unfinished(w)
    BY <1>10 DEF CreateTicket, PushIncident, Unfinished, InTransaction, brokerVars
  <2> QED
    BY <1>3, <1>5, <2>1 DEF dbVars, rowVars
<1>11. CASE Retry(w)
  <2>1. /\ UNCHANGED dbVars
        /\ \/ k < MaxRetries /\ Enqueue(c, k + 1)
           \/ ~ (k < MaxRetries) /\ UNCHANGED queue
        /\ pc[w] = "retrying"
    BY <1>11 DEF Retry, c, k
  <2>2. CASE e = c /\ k < MaxRetries
    <3>1. k + 1 \in Attempts /\ queue[c][k + 1] \in Nat
      BY <1>0, <2>2 DEF Attempts
    <3>2. queue'[c][k + 1] > 0
      BY <1>0, <2>1, <2>2, <3>1 DEF Enqueue
    <3> QED
      BY <2>2, <3>1, <3>2 DEF Working
  <2>3. CASE e = c /\ ~ (k < MaxRetries)
    <3>1. ~ Unfinished(w)
      BY <2>1, <2>3 DEF Unfinished, InTransaction, k
    <3> QED
      BY <1>5, <2>1, <2>3, <3>1
  <2>4. CASE e # c
    BY <1>3, <1>11, <2>1, <2>4 DEF dbVars, rowVars
  <2> QED
    BY <2>2, <2>3, <2>4
<1>12. CASE RetryLost(w) \/ WorkerCrash(w)
  <2>1. c \in lost' /\ UNCHANGED <<dbVars, queue>>
    BY <1>12 DEF RetryLost, WorkerCrash, brokerVars, c
  <2> QED
    BY <1>3, <2>1 DEF dbVars, rowVars
<1> QED
  BY <1>1, <1>6, <1>7, <1>8, <1>9, <1>10, <1>11, <1>12 DEF WorkerStep, WorkerFault

(* The API's updates make no outcome and undo none, and it takes no task     *)
(* from the queue.                                                          *)
LEMMA ApiKeepsProgress ==
    ASSUME TypeOK, NEW r \in Requests, ApiStep(r) \/ ApiFault(r),
           NEW e \in Events, Working(e) \/ Outcome(e)
    PROVE  Working(e)' \/ Outcome(e)'
<1>0. /\ status \in [Events -> Status \cup {"absent"}]
      /\ queue \in [Events -> [Attempts -> Nat]]
      /\ Current(r) \in Events /\ 0 \in Attempts /\ UNCHANGED <<pc, task>>
  <2>1. 0 \in Attempts
    BY PipelineAssumption DEF Attempts
  <2>2. UNCHANGED <<pc, task>>
    BY ApiKeepsResults DEF workerVars
  <2> QED
    BY <2>1, <2>2, CurrentIsEvent DEF TypeOK, DbTypeOK, BrokerTypeOK
<1>1. \A k \in Attempts : queue[e][k] > 0 => queue'[e][k] > 0
  <2>1. UNCHANGED queue \/ Enqueue(Current(r), 0)
    BY DEF ApiStep, ApiFault, RecordAccepted, RecordFails, PublishTask, PublishFails,
       PublishLost, MarkPublished, MarkPublishedFails, ApiCrash, brokerVars
  <2> QED
    BY <1>0, <2>1 DEF Enqueue
<1>2. Outcome(e) => Outcome(e)'
  <2>1. \/ UNCHANGED status
        \/ InsertRow(Current(r))
        \/ SetPublished(Current(r))
    BY DEF ApiStep, ApiFault, RecordAccepted, RecordFails, PublishTask, PublishFails,
       PublishLost, MarkPublished, MarkPublishedFails, ApiCrash, dbVars, rowVars
  <2>2. UNCHANGED retryCount
    BY DEF ApiStep, ApiFault, RecordAccepted, RecordFails, PublishTask, PublishFails,
       PublishLost, MarkPublished, SetPublished, MarkPublishedFails, ApiCrash, dbVars, rowVars
  <2> QED
    BY <1>0, <2>1, <2>2 DEF Outcome, InsertRow, SetPublished
<1>3. Working(e) => Working(e)'
  BY <1>0, <1>1 DEF Working, Unfinished
<1> QED
  BY <1>2, <1>3

(* A step of the API hands over the current event at most, and only when    *)
(* send_task has returned: its task is queued, or it is lost.               *)
LEMMA ApiHandsOver ==
    ASSUME TypeOK, ProgressInv, NEW r \in Requests, ApiStep(r) \/ ApiFault(r),
           NEW s \in Requests, NEW e \in HandedOver(s)'
    PROVE  e \in HandedOver(s) \/ e \in lost' \/ (e \in Events /\ Working(e)')
<1>. DEFINE c == Current(r)
<1>0. /\ next \in [Requests -> Nat] /\ next[r] \in DOMAIN Batch[r]
      /\ phase \in [Requests -> {"record", "publish", "mark", "done"}]
      /\ response \in [Requests -> {"none", "accepted", "unavailable"}]
      /\ c \in Events /\ queue \in [Events -> [Attempts -> Nat]] /\ 0 \in Attempts
      /\ Batch[r] \in Seq(Events)
      /\ phase[r] # "done" => response[r] = "none"
  <2>1. c \in Events
    BY CurrentIsEvent DEF TypeOK
  <2>2. 0 \in Attempts /\ Batch[r] \in Seq(Events)
    BY PipelineAssumption DEF Attempts
  <2> QED
    BY <2>1, <2>2 DEF TypeOK, ApiTypeOK, BrokerTypeOK, ProgressInv
<1>. HIDE DEF c
<1>1. CASE s # r
  <2>1. next'[s] = next[s] /\ phase'[s] = phase[s] /\ response'[s] = response[s]
    BY <1>0, <1>1 DEF ApiStep, ApiFault, RecordAccepted, RecordFails, PublishTask,
       PublishFails, PublishLost, MarkPublished, MarkPublishedFails, ApiCrash, Advance, Answer
  <2> QED
    BY <2>1 DEF HandedOver
<1>2. CASE s = r /\ (PublishTask(r) \/ PublishLost(r))
  <2>1. next'[r] = next[r] /\ Batch[r][next[r]] = c
    BY <1>0, <1>2 DEF PublishTask, PublishLost, Current, c
  <2>2. e \in HandedOver(r) \/ e = c
    BY <1>0, <1>2, <2>1 DEF HandedOver
  <2>3. c \in lost' \/ queue'[c][0] > 0
    BY <1>0, <1>2 DEF PublishTask, PublishLost, Enqueue, c
  <2> QED
    BY <1>0, <1>2, <2>2, <2>3 DEF Working
<1>3. CASE s = r /\ (MarkPublished(r) \/ MarkPublishedFails(r))
  <2>1. Advance(r) /\ phase[r] = "mark"
    BY <1>3 DEF MarkPublished, MarkPublishedFails
  <2>2. CASE /\ next[r] < Len(Batch[r])
             /\ next'[r] = next[r] + 1
             /\ phase'[r] = "record" /\ response'[r] = "none"
    <3>1. PICK j \in DOMAIN Batch[r] : j < next[r] + 1 /\ e = Batch[r][j]
      BY <1>3, <2>2 DEF HandedOver
    <3>2. j \in Nat /\ next[r] \in Nat
      BY <1>0, DOMAIN Batch[r] = 1 .. Len(Batch[r])
    <3>3. j < next[r] \/ j = next[r]
      BY <3>1, <3>2
    <3> QED
      BY <1>3, <2>1, <3>1, <3>3 DEF HandedOver
  <2>3. CASE next'[r] = next[r]
    BY <1>3, <2>1, <2>3 DEF HandedOver
  <2> QED
    BY <1>0, <2>1, <2>2, <2>3 DEF Advance, Answer
<1>4. CASE s = r /\ (RecordAccepted(r) \/ RecordFails(r) \/ PublishFails(r) \/ ApiCrash(r))
  <2>1. /\ next'[r] = next[r] /\ phase'[r] # "mark"
        /\ response'[r] # "accepted" \/ response'[r] = response[r]
    BY <1>0, <1>4 DEF RecordAccepted, RecordFails, PublishFails, ApiCrash, Answer
  <2> QED
    BY <1>4, <2>1 DEF HandedOver
<1> QED
  BY <1>1, <1>2, <1>3, <1>4 DEF ApiStep, ApiFault

(* The API keeps the progress invariant. *)
LEMMA ApiKeepsProgressInv ==
    ASSUME TypeOK, ProgressInv, NEW r \in Requests, ApiStep(r) \/ ApiFault(r)
    PROVE  ProgressInv'
<1>1. \A s \in Requests : phase'[s] # "done" => response'[s] = "none"
  BY DEF TypeOK, ApiTypeOK, ProgressInv, ApiStep, ApiFault, RecordAccepted, RecordFails,
     PublishTask, PublishFails, PublishLost, MarkPublished, MarkPublishedFails, ApiCrash,
     Advance, Answer, apiVars
<1>2. ASSUME NEW s \in Requests, NEW e \in HandedOver(s)', e \notin lost'
      PROVE  Working(e)' \/ Outcome(e)'
  <2>1. lost \subseteq lost'
    BY DEF ApiStep, ApiFault, RecordAccepted, RecordFails, PublishTask, PublishFails,
       PublishLost, MarkPublished, MarkPublishedFails, ApiCrash
  <2>2. CASE e \in HandedOver(s)
    <3>1. e \in Events /\ (Working(e) \/ Outcome(e))
      BY <1>2, <2>1, <2>2, HandedOverAreEvents DEF TypeOK, ProgressInv
    <3> QED
      BY <3>1, ApiKeepsProgress
  <2> QED
    BY <1>2, <2>2, ApiHandsOver
<1> QED
  BY <1>1, <1>2 DEF ProgressInv

(* A delivery moves the task from the queue to a worker. *)
LEMMA DeliverKeepsProgress ==
    ASSUME TypeOK, NEW w \in Workers, NEW d \in Events, NEW k \in Attempts, Deliver(w, d, k),
           NEW e \in Events, Working(e) \/ Outcome(e)
    PROVE  Working(e)' \/ Outcome(e)'
<1>. DEFINE t == [event |-> d, retries |-> k, incident |-> 0, existing |-> 0]
<1>1. /\ pc[w] = "idle" /\ queue' \in {queue, [queue EXCEPT ![d][k] = @ - 1]}
      /\ pc' = [pc EXCEPT ![w] = "started"] /\ task' = [task EXCEPT ![w] = t]
      /\ UNCHANGED <<status, retryCount>>
      /\ pc \in [Workers -> Busy \cup {"idle"}] /\ task \in [Workers -> Task \cup {NoTask}]
      /\ queue \in [Events -> [Attempts -> Nat]]
  BY DEF Deliver, Goto, TypeOK, WorkerTypeOK, BrokerTypeOK, dbVars, rowVars
<1>2. t.event = d
  OBVIOUS
<1>. HIDE DEF t
<1>3. CASE e = d
  <2>1. Unfinished(w)' /\ task'[w].event = d
    BY <1>1, <1>2 DEF Unfinished
  <2> QED
    BY <1>3, <2>1 DEF Working
<1>4. CASE e # d
  <2>1. queue'[e] = queue[e]
    BY <1>1, <1>4
  <2>2. \A v \in Workers : Unfinished(v) => Unfinished(v)' /\ task'[v] = task[v]
    BY <1>1 DEF Unfinished, InTransaction
  <2> QED
    BY <1>1, <2>1, <2>2 DEF Working, Outcome
<1> QED
  BY <1>3, <1>4

(* ProgressInv is inductive, if updates of the status do not fail. *)
LEMMA NextKeepsProgressInv ==
    ASSUME "status" \notin Faults, TypeOK, ProgressInv, [Next]_vars
    PROVE  ProgressInv'
<1>1. ASSUME UNCHANGED apiVars, lost \subseteq lost',
             \A e \in Events : (Working(e) \/ Outcome(e)) /\ e \notin lost'
                                    => Working(e)' \/ Outcome(e)'
      PROVE  ProgressInv'
  <2>1. \A r \in Requests : HandedOver(r)' = HandedOver(r) /\ HandedOver(r) \subseteq Events
    BY <1>1, HandedOverAreEvents DEF TypeOK, HandedOver, apiVars
  <2>2. \A r \in Requests : phase'[r] # "done" => response'[r] = "none"
    BY <1>1 DEF ProgressInv, apiVars
  <2> QED
    BY <1>1, <2>1, <2>2 DEF ProgressInv
<1>2. ASSUME NEW w \in Workers, WorkerStep(w) \/ WorkerFault(w)
      PROVE  ProgressInv'
  <2>1. lost \subseteq lost'
    BY <1>2 DEF WorkerStep, WorkerFault, MarkProcessing, DetectRaises, OpenTransaction,
       SelectIncident, Commit, CreateTicket, PushIncident, MarkFailed, Retry,
       MarkProcessingFails, PersistFails, DownstreamRaises, MarkFailedFails, RetryLost,
       WorkerCrash
  <2> QED
    BY <1>1, <1>2, <2>1, WorkerAlone, WorkerKeepsProgress
<1>3. CASE DeliverSome
  <2>1. UNCHANGED apiVars /\ UNCHANGED lost
    BY <1>3 DEF DeliverSome, Deliver
  <2> QED
    BY <1>1, <1>3, <2>1, DeliverKeepsProgress DEF DeliverSome
<1>4. CASE UNCHANGED vars
  BY <1>1, <1>4 DEF Working, Unfinished, Outcome, vars, dbVars, rowVars, brokerVars, workerVars
<1> QED
  BY <1>2, <1>3, <1>4, ApiKeepsProgressInv DEF Next

(* Nothing has been handed over at the start. *)
LEMMA InitProgressInv == Init => ProgressInv
<1>1. Init => \A r \in Requests : HandedOver(r) = {}
  BY PipelineAssumption DEF Init, HandedOver
<1> QED
  BY <1>1 DEF Init, ProgressInv

(* While status updates succeed, an event the broker took and nothing lost  *)
(* is in flight, processed, or failed after its last attempt.               *)
THEOREM NothingLostSilently ==
    ASSUME "status" \notin Faults
    PROVE  Spec => []NoSilentLoss
<1>1. TypeOK /\ ProgressInv /\ [Next]_vars => ProgressInv'
  BY NextKeepsProgressInv
<1>2. TypeOK /\ ProgressInv => NoSilentLoss
  <2>1. \A e \in Events : Working(e) => InFlight(e)
    BY DEF Working, InFlight, Unfinished, InTransaction
  <2> QED
    BY <2>1, HandedOverAreEvents DEF TypeOK, ProgressInv, NoSilentLoss, Outcome
<1> QED
  BY <1>1, <1>2, InitProgressInv, TypeCorrect, PTL DEF Spec

--------------------------------------------------------------------------------
(* Refinement of IncidentLedger.                                            *)

Stored   == {e \in Events : status[e] # "absent"}
Handled  == {e \in Events : processedAt[e]}
Opened   == {e \in Events : incident[e] # 0}
Notified == {n.event : n \in tickets \cup pushes}

(* The initial state is the empty ledger. *)
LEMMA LedgerInit == Init => Ledger!Init
BY DEF Init, Ledger!Init

(* A step of the API stores an event or changes nothing in the ledger. *)
LEMMA ApiLedgerStep ==
    ASSUME IInv, NEW r \in Requests, ApiStep(r) \/ ApiFault(r)
    PROVE  [Ledger!Next]_(Ledger!vars)
<1>1. UNCHANGED <<Handled, Opened, Notified>>
  BY ApiKeepsResults DEF IInv, Handled, Opened, Notified, downVars
<1>2. \/ UNCHANGED Stored
      \/ \E e \in Events : Stored' = Stored \cup {e}
  <2>1. \/ UNCHANGED status
        \/ InsertRow(Current(r))
        \/ SetPublished(Current(r))
    BY DEF ApiStep, ApiFault, RecordAccepted, RecordFails, PublishTask, PublishFails,
       PublishLost, MarkPublished, MarkPublishedFails, ApiCrash, dbVars, rowVars
  <2>2. status \in [Events -> Status \cup {"absent"}] /\ Current(r) \in Events
    BY CurrentIsEvent DEF IInv, TypeOK, DbTypeOK
  <2>3. CASE InsertRow(Current(r))
    BY <2>2, <2>3 DEF InsertRow, Stored
  <2>4. CASE SetPublished(Current(r))
    <3>1. Stored' = Stored
      BY <2>2, <2>4 DEF SetPublished, Stored
    <3> QED
      BY <3>1
  <2> QED
    BY <2>1, <2>3, <2>4 DEF Stored
<1> QED
  BY <1>1, <1>2 DEF Ledger!Next, Ledger!Store, Ledger!vars, Stored, Handled, Opened, Notified

(* A step of a worker handles an event, announces its incident, or changes *)
(* nothing in the ledger. *)
LEMMA WorkerLedgerStep ==
    ASSUME IInv, NEW w \in Workers, WorkerStep(w) \/ WorkerFault(w)
    PROVE  [Ledger!Next]_(Ledger!vars)
<1>. DEFINE e == task[w].event
<1>0. /\ e \in Events /\ status[e] # "absent" /\ pc[w] # "idle"
      /\ status \in [Events -> Status \cup {"absent"}]
  BY WorkerAlone DEF IInv, RowExists, TypeOK, DbTypeOK, Task
<1>1. CASE Committed(w) /\ UNCHANGED downVars
  <2>1. Stored' = Stored
    BY <1>0, <1>1 DEF Committed, Stored
  <2>2. Notified' = Notified
    BY <1>1 DEF Notified, downVars
  <2>3. Handled' = Handled \cup {e}
    BY <1>0, <1>1, CommitEffect DEF Handled
  <2>4. Opened' = Opened \cup ({e} \cap Detected)
    <3>1. /\ incident'[e] # 0 <=> e \in Detected
          /\ incident[e] # 0 => incident'[e] # 0
          /\ \A d \in Events \ {e} : incident'[d] = incident[d]
      BY <1>1, CommitEffect
    <3> QED
      BY <1>0, <3>1 DEF Opened
  <2>5. e \in Stored
    BY <1>0 DEF Stored
  <2> QED
    BY <1>0, <2>1, <2>2, <2>3, <2>4, <2>5
       DEF Ledger!Next, Ledger!Handle, Stored, Handled, Opened, Notified
<1>2. CASE UNCHANGED dbVars /\ UNCHANGED downVars
  BY <1>2 DEF Ledger!vars, dbVars, rowVars, downVars
<1>3. CASE MarkProcessing(w) \/ MarkProcessingFails(w) \/ MarkFailed(w)
  <2>1. UNCHANGED <<processedAt, incident, tickets, pushes>>
    BY <1>3 DEF MarkProcessing, MarkProcessingFails, MarkFailed, SetStatus, rowVars, downVars
  <2>2. UNCHANGED status \/ \E s \in Status : status' = [status EXCEPT ![e] = s]
    BY <1>3 DEF MarkProcessing, MarkProcessingFails, MarkFailed, SetStatus, rowVars, Status
  <2>3. Stored' = Stored
    BY <1>0, <2>2 DEF Stored, Status
  <2> QED
    BY <2>1, <2>3 DEF Ledger!vars, Stored
<1>4. CASE CreateTicket(w) \/ PushIncident(w) \/ DownstreamRaises(w)
  <2>1. pc[w] \in {"persisted", "ticketed"} /\ UNCHANGED dbVars
    BY <1>4 DEF CreateTicket, PushIncident, DownstreamRaises
  <2>2. e \in Opened
    BY <1>0, <2>1 DEF IInv, LocalState, Opened
  <2>3. Notified' = Notified \/ Notified' = Notified \cup {e}
    <3>1. \/ tickets' = tickets /\ pushes' = pushes
          \/ tickets' = tickets \cup {NoticeOf(w)} /\ pushes' = pushes
          \/ tickets' = tickets /\ pushes' = pushes \cup {NoticeOf(w)}
      BY <1>4 DEF CreateTicket, PushIncident, DownstreamRaises
    <3>2. NoticeOf(w).event = e
      BY DEF NoticeOf
    <3> QED
      BY <3>1, <3>2 DEF Notified
  <2>4. UNCHANGED <<Stored, Handled, Opened>>
    BY <2>1 DEF Stored, Handled, Opened, dbVars, rowVars
  <2>5. CASE Notified' = Notified
    BY <2>4, <2>5 DEF Ledger!vars, Stored, Handled, Opened, Notified
  <2>6. CASE Notified' = Notified \cup {e}
    BY <1>0, <2>2, <2>4, <2>6
       DEF Ledger!Next, Ledger!Notify, Stored, Handled, Opened, Notified
  <2> QED
    BY <2>3, <2>5, <2>6
<1> QED
  BY <1>1, <1>2, <1>3, <1>4 DEF WorkerStep, WorkerFault, DetectRaises, OpenTransaction,
     SelectIncident, Commit, Retry, PersistFails, MarkFailedFails, RetryLost, WorkerCrash

(* Every step of the pipeline is a step of the ledger or a stutter. *)
LEMMA LedgerStep == IInv /\ [Next]_vars => [Ledger!Next]_(Ledger!vars)
<1>1. DeliverSome \/ UNCHANGED vars => UNCHANGED Ledger!vars
  BY DEF DeliverSome, Deliver, vars, dbVars, rowVars, downVars, Ledger!vars
<1> QED
  BY <1>1, ApiLedgerStep, WorkerLedgerStep DEF Next

(* The pipeline implements the abstract incident ledger. *)
THEOREM LedgerRefinement == Spec => ImplementsLedger
BY LedgerInit, LedgerStep, Invariance, PTL DEF Spec, ImplementsLedger, Ledger!Spec

================================================================================
