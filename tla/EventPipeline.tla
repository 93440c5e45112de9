----------------------------- MODULE EventPipeline -----------------------------
(***************************************************************************)
(* The NSEP event pipeline: the ingestion API records an event in Postgres *)
(* and queues a Celery task for it, workers consume the tasks, persist the *)
(* result in one transaction and then tell Zammad and Network Guardian.    *)
(*                                                                         *)
(* Every event below is one normalised event: normalize_event mints a new  *)
(* event_id for every envelope of every request, so an event belongs to    *)
(* exactly one position of one request.                                    *)
(***************************************************************************)
EXTENDS Naturals, Sequences

CONSTANTS
    Events,           \* the event ids the API mints
    Requests,         \* HTTP requests; a batch of one is POST /v1/events
    Batch,            \* [Requests -> Seq(Events)], the events of each request
    Workers,          \* Celery worker processes
    Detected,         \* the events in which detect() finds something
    Poison,           \* the events on which enrich() or detect() raises
    MaxRetries,       \* max_retries of the task (3 in the code)
    MaxRedeliveries,  \* bound: how often the broker delivers a message again
    Faults,           \* the kinds of fault that may happen in a run
    NoTask            \* the task of an idle worker

FaultKinds == {"store", "status", "broker", "downstream", "crash"}

ASSUME PipelineAssumption ==
    /\ Batch \in [Requests -> Seq(Events)]
    /\ \A r \in Requests : Batch[r] # <<>>
    /\ \A r, s \in Requests : \A i \in DOMAIN Batch[r], j \in DOMAIN Batch[s] :
            Batch[r][i] = Batch[s][j] => r = s /\ i = j
    /\ Detected \subseteq Events
    /\ Poison \subseteq Events \ Detected
    /\ MaxRetries \in Nat
    /\ MaxRedeliveries \in Nat
    /\ Faults \subseteq FaultKinds

VARIABLES
    (* ingestion API: publish_event and publish_batch *)
    next,          \* position, in its batch, of the event being published
    phase,         \* the next step for that event
    response,      \* what the client was told: 202, 503 or (yet) nothing
    (* Postgres *)
    status,        \* normalized_events.processing_status, or "absent"
    publishedAt,   \* published_at is set
    processedAt,   \* processed_at is set
    retryCount,    \* retry_count
    incident,      \* incidents.incident_id of the event, 0 if there is no row
    lifecycle,     \* number of incident_lifecycle rows of that incident
    (* RabbitMQ *)
    queue,         \* queue[e][k]: copies of the task for e with request.retries = k
    redelivered,   \* how often a message was delivered again so far
    (* workers *)
    pc,            \* where in process_event a worker is
    task,          \* its event, request.retries and local results
    minted,        \* minted[e]: incident ids create_incident minted for e so far
    (* downstream systems *)
    tickets,       \* Zammad tickets, by event and the incident id they name
    pushes,        \* envelopes that reached the Network Guardian intake
    (* history *)
    lost           \* events of which the broker or a crash lost a task

apiVars    == <<next, phase, response>>
rowVars    == <<status, publishedAt, processedAt, retryCount>>
dbVars     == <<rowVars, incident, lifecycle>>
brokerVars == <<queue, redelivered>>
workerVars == <<pc, task, minted>>
downVars   == <<tickets, pushes>>
vars       == <<apiVars, dbVars, brokerVars, workerVars, downVars, lost>>

Attempts  == 0 .. MaxRetries
Status    == {"accepted", "published", "processing", "processed", "failed"}
Notice    == [event : Events, incident : Nat]
Task      == [event : Events, retries : Attempts, incident : Nat, existing : Nat]
InTransaction == {"updated", "selected"}
Busy      == InTransaction \cup
             {"started", "processing", "persisted", "ticketed", "failing", "retrying"}

ApiTypeOK ==
    /\ next \in [Requests -> Nat]
    /\ \A r \in Requests : next[r] \in DOMAIN Batch[r]
    /\ phase \in [Requests -> {"record", "publish", "mark", "done"}]
    /\ response \in [Requests -> {"none", "accepted", "unavailable"}]

DbTypeOK ==
    /\ status \in [Events -> Status \cup {"absent"}]
    /\ publishedAt \in [Events -> BOOLEAN]
    /\ processedAt \in [Events -> BOOLEAN]
    /\ retryCount \in [Events -> 0 .. MaxRetries + 1]
    /\ incident \in [Events -> Nat]
    /\ lifecycle \in [Events -> Nat]

BrokerTypeOK ==
    /\ queue \in [Events -> [Attempts -> Nat]]
    /\ redelivered \in 0 .. MaxRedeliveries

WorkerTypeOK ==
    /\ pc \in [Workers -> Busy \cup {"idle"}]
    /\ task \in [Workers -> Task \cup {NoTask}]
    /\ \A w \in Workers : pc[w] # "idle" => task[w] \in Task
    /\ minted \in [Events -> Nat]

TypeOK ==
    /\ ApiTypeOK
    /\ DbTypeOK
    /\ BrokerTypeOK
    /\ WorkerTypeOK
    /\ tickets \subseteq Notice
    /\ pushes \subseteq Notice
    /\ lost \subseteq Events

Init ==
    /\ next = [r \in Requests |-> 1]
    /\ phase = [r \in Requests |-> "record"]
    /\ response = [r \in Requests |-> "none"]
    /\ status = [e \in Events |-> "absent"]
    /\ publishedAt = [e \in Events |-> FALSE]
    /\ processedAt = [e \in Events |-> FALSE]
    /\ retryCount = [e \in Events |-> 0]
    /\ incident = [e \in Events |-> 0]
    /\ lifecycle = [e \in Events |-> 0]
    /\ queue = [e \in Events |-> [k \in Attempts |-> 0]]
    /\ redelivered = 0
    /\ pc = [w \in Workers |-> "idle"]
    /\ task = [w \in Workers |-> NoTask]
    /\ minted = [e \in Events |-> 0]
    /\ tickets = {}
    /\ pushes = {}
    /\ lost = {}

--------------------------------------------------------------------------------
(* Row locks.  A transaction that has updated the row of an event holds its *)
(* lock until it commits or aborts; every other UPDATE of that row waits.   *)

Locked(e) == \E w \in Workers : pc[w] \in InTransaction /\ task[w].event = e

--------------------------------------------------------------------------------
(* The ingestion API.  Current(r) is the event the loop of request r is at. *)

Current(r) == Batch[r][next[r]]

(* The request ends, with the answer the client gets. *)
Answer(r, code) ==
    /\ phase' = [phase EXCEPT ![r] = "done"]
    /\ response' = [response EXCEPT ![r] = code]
    /\ UNCHANGED next

(* The loop goes on to the next event, or the request is answered with 202. *)
Advance(r) ==
    \/ /\ next[r] < Len(Batch[r])
       /\ next' = [next EXCEPT ![r] = @ + 1]
       /\ phase' = [phase EXCEPT ![r] = "record"]
       /\ UNCHANGED response
    \/ /\ next[r] = Len(Batch[r])
       /\ Answer(r, "accepted")

(* INSERT ... ON CONFLICT DO NOTHING; processing_status defaults to accepted. *)
InsertRow(e) ==
    status' = [status EXCEPT ![e] = IF @ = "absent" THEN "accepted" ELSE @]

RecordAccepted(r) ==
    /\ phase[r] = "record"
    /\ InsertRow(Current(r))
    /\ phase' = [phase EXCEPT ![r] = "publish"]
    /\ UNCHANGED <<next, response, publishedAt, processedAt, retryCount,
                   incident, lifecycle, brokerVars, workerVars, downVars, lost>>

(* psycopg raises: nothing was inserted, or only the answer to COMMIT is lost. *)
RecordFails(r) ==
    /\ "store" \in Faults
    /\ phase[r] = "record"
    /\ InsertRow(Current(r)) \/ UNCHANGED status
    /\ Answer(r, "unavailable")
    /\ UNCHANGED <<publishedAt, processedAt, retryCount,
                   incident, lifecycle, brokerVars, workerVars, downVars, lost>>

Enqueue(e, k) == queue' = [queue EXCEPT ![e][k] = @ + 1]

PublishTask(r) ==
    /\ phase[r] = "publish"
    /\ Enqueue(Current(r), 0)
    /\ phase' = [phase EXCEPT ![r] = "mark"]
    /\ UNCHANGED <<next, response, dbVars, redelivered, workerVars, downVars, lost>>

(* send_task raises; the broker may have taken the message all the same. *)
PublishFails(r) ==
    /\ "broker" \in Faults
    /\ phase[r] = "publish"
    /\ Enqueue(Current(r), 0) \/ UNCHANGED queue
    /\ Answer(r, "unavailable")
    /\ UNCHANGED <<dbVars, redelivered, workerVars, downVars, lost>>

(* send_task returns without a publisher confirm and the message is gone. *)
PublishLost(r) ==
    /\ "broker" \in Faults
    /\ phase[r] = "publish"
    /\ lost' = lost \cup {Current(r)}
    /\ phase' = [phase EXCEPT ![r] = "mark"]
    /\ UNCHANGED <<next, response, dbVars, brokerVars, workerVars, downVars>>

(* Mutant: the UPDATE without its CASE. *)
SetPublishedUnconditionally(e) ==
    /\ status' = [status EXCEPT ![e] = "published"]
    /\ publishedAt' = [publishedAt EXCEPT ![e] = TRUE]
    /\ UNCHANGED <<processedAt, retryCount>>

(* update_event_status(..., "published"): CASE WHEN accepted THEN published. *)
SetPublished(e) ==
    /\ status' = [status EXCEPT ![e] = IF @ = "accepted" THEN "published" ELSE @]
    /\ publishedAt' = [publishedAt EXCEPT ![e] = TRUE]
    /\ UNCHANGED <<processedAt, retryCount>>

MarkPublished(r) ==
    /\ phase[r] = "mark"
    /\ ~ Locked(Current(r))
    /\ SetPublished(Current(r))
    /\ Advance(r)
    /\ UNCHANGED <<incident, lifecycle, brokerVars, workerVars, downVars, lost>>

(* The error is logged and the request goes on as if the update had worked. *)
MarkPublishedFails(r) ==
    /\ "status" \in Faults
    /\ phase[r] = "mark"
    /\ Advance(r)
    /\ UNCHANGED <<dbVars, brokerVars, workerVars, downVars, lost>>

(* The API process stops in the middle of a request: nobody is answered. *)
ApiCrash(r) ==
    /\ "crash" \in Faults
    /\ phase[r] # "done"
    /\ Answer(r, "none")
    /\ UNCHANGED <<dbVars, brokerVars, workerVars, downVars, lost>>

--------------------------------------------------------------------------------
(* The workers: process_event, one action per statement with an effect.     *)

Goto(w, label) == pc' = [pc EXCEPT ![w] = label]

Release(w) ==
    /\ Goto(w, "idle")
    /\ task' = [task EXCEPT ![w] = NoTask]

(* Celery acknowledges the message when it starts the task.  If the         *)
(* acknowledgement does not reach the broker, the message is delivered again.*)
Deliver(w, e, k) ==
    /\ pc[w] = "idle"
    /\ queue[e][k] > 0
    /\ \/ /\ queue' = [queue EXCEPT ![e][k] = @ - 1]
          /\ UNCHANGED redelivered
       \/ /\ redelivered < MaxRedeliveries
          /\ redelivered' = redelivered + 1
          /\ UNCHANGED queue
    /\ Goto(w, "started")
    /\ task' = [task EXCEPT ![w] =
                  [event |-> e, retries |-> k, incident |-> 0, existing |-> 0]]
    /\ UNCHANGED <<apiVars, dbVars, minted, downVars, lost>>

(* update_event_status(..., s, retry_count = n) *)
SetStatus(e, s, n) ==
    /\ status' = [status EXCEPT ![e] = s]
    /\ retryCount' = [retryCount EXCEPT ![e] = n]
    /\ UNCHANGED <<publishedAt, processedAt>>

MarkProcessing(w) ==
    /\ pc[w] = "started"
    /\ ~ Locked(task[w].event)
    /\ SetStatus(task[w].event, "processing", task[w].retries)
    /\ Goto(w, "processing")
    /\ UNCHANGED <<apiVars, incident, lifecycle, brokerVars, task, minted, downVars, lost>>

(* This update stands before the try block: if it raises, the task is       *)
(* retried but the row is not marked failed.                                *)
MarkProcessingFails(w) ==
    /\ "status" \in Faults
    /\ pc[w] = "started"
    /\ \/ UNCHANGED rowVars
       \/ /\ ~ Locked(task[w].event)
          /\ SetStatus(task[w].event, "processing", task[w].retries)
    /\ Goto(w, "retrying")
    /\ UNCHANGED <<apiVars, incident, lifecycle, brokerVars, task, minted, downVars, lost>>

(* enrich() or detect() raises on the payload, the same way on every attempt. *)
DetectRaises(w) ==
    /\ pc[w] = "processing"
    /\ task[w].event \in Poison
    /\ Goto(w, "failing")
    /\ UNCHANGED <<apiVars, dbVars, brokerVars, task, minted, downVars, lost>>

(* Mutant: nothing makes the transaction wait for the lock of the row. *)
OpenTransactionUnlocked(w) ==
    LET e  == task[w].event
        id == IF e \in Detected THEN minted[e] + 1 ELSE 0
    IN  /\ pc[w] = "processing"
        /\ e \notin Poison
        /\ task' = [task EXCEPT ![w].incident = id]
        /\ minted' = [minted EXCEPT ![e] = IF e \in Detected THEN id ELSE @]
        /\ Goto(w, "updated")
        /\ UNCHANGED <<apiVars, dbVars, brokerVars, downVars, lost>>

(* detect, score and create_incident, which mints a new incident id, then   *)
(* the first statements of persist_event_result: INSERT event ON CONFLICT DO *)
(* NOTHING and the UPDATE that takes the lock of the event's row.           *)
OpenTransaction(w) ==
    LET e  == task[w].event
        id == IF e \in Detected THEN minted[e] + 1 ELSE 0
    IN  /\ pc[w] = "processing"
        /\ e \notin Poison
        /\ ~ Locked(e)
        /\ task' = [task EXCEPT ![w].incident = id]
        /\ minted' = [minted EXCEPT ![e] = IF e \in Detected THEN id ELSE @]
        /\ Goto(w, "updated")
        /\ UNCHANGED <<apiVars, dbVars, brokerVars, downVars, lost>>

(* SELECT incident_id FROM incidents WHERE event_id = ... *)
SelectIncident(w) ==
    /\ pc[w] = "updated"
    /\ task[w].incident # 0
    /\ task' = [task EXCEPT ![w].existing = incident[task[w].event]]
    /\ Goto(w, "selected")
    /\ UNCHANGED <<apiVars, dbVars, brokerVars, minted, downVars, lost>>

(* Mutant: the update of the event commits before the incident is written. *)
CommittedInParts(w) ==
    LET e == task[w].event
    IN  /\ pc[w] \in InTransaction
        /\ status' = [status EXCEPT ![e] = "processed"]
        /\ processedAt' = [processedAt EXCEPT ![e] = TRUE]
        /\ IF pc[w] = "selected"
           THEN /\ incident' = [incident EXCEPT ![e] = task[w].incident]
                /\ lifecycle' = [lifecycle EXCEPT ![e] = 1]
           ELSE UNCHANGED <<incident, lifecycle>>
        /\ UNCHANGED <<publishedAt, retryCount>>

(* Mutant: ON CONFLICT DO UPDATE also overwrites the incident id. *)
CommittedOverwriting(w) ==
    LET e == task[w].event
    IN  /\ \/ pc[w] = "updated" /\ task[w].incident = 0
           \/ pc[w] = "selected"
        /\ status' = [status EXCEPT ![e] = "processed"]
        /\ processedAt' = [processedAt EXCEPT ![e] = TRUE]
        /\ incident' = [incident EXCEPT ![e] = task[w].incident]
        /\ lifecycle' = [lifecycle EXCEPT ![e] =
                IF task[w].incident # 0 /\ task[w].existing = 0 THEN @ + 1 ELSE @]
        /\ UNCHANGED <<publishedAt, retryCount>>

(* What the transaction of worker w leaves in the database.  The upsert of  *)
(* the incident keeps the id that is there; the lifecycle row is written    *)
(* only if the SELECT found no incident.                                    *)
Committed(w) ==
    LET e == task[w].event
    IN  /\ \/ pc[w] = "updated" /\ task[w].incident = 0
           \/ pc[w] = "selected"
        /\ status' = [status EXCEPT ![e] = "processed"]
        /\ processedAt' = [processedAt EXCEPT ![e] = TRUE]
        /\ incident' = [incident EXCEPT ![e] = IF @ = 0 THEN task[w].incident ELSE @]
        /\ lifecycle' = [lifecycle EXCEPT ![e] =
                IF task[w].incident # 0 /\ task[w].existing = 0 THEN @ + 1 ELSE @]
        /\ UNCHANGED <<publishedAt, retryCount>>

(* Without an incident the task is over when the transaction has committed. *)
Commit(w) ==
    /\ Committed(w)
    /\ \/ /\ task[w].incident = 0
          /\ Release(w)
       \/ /\ task[w].incident # 0
          /\ Goto(w, "persisted")
          /\ UNCHANGED task
    /\ UNCHANGED <<apiVars, brokerVars, minted, downVars, lost>>

(* psycopg raises: the transaction aborted, or it committed and the answer  *)
(* to COMMIT is lost.                                                       *)
PersistFails(w) ==
    /\ "store" \in Faults
    /\ pc[w] \in {"processing"} \cup InTransaction
    /\ \/ UNCHANGED dbVars
       \/ Committed(w)
    /\ Goto(w, "failing")
    /\ UNCHANGED <<apiVars, brokerVars, task, minted, downVars, lost>>

NoticeOf(w) == [event |-> task[w].event, incident |-> task[w].incident]

(* Mutant: the ticket is made while the transaction is still open. *)
CreateTicketEarly(w) ==
    /\ pc[w] \in {"selected", "persisted"}
    /\ \/ tickets' = tickets \cup {NoticeOf(w)}
       \/ UNCHANGED tickets
    /\ Goto(w, "ticketed")
    /\ UNCHANGED <<apiVars, dbVars, brokerVars, task, minted, pushes, lost>>

(* create_ticket: the ticket is made, or Zammad is off, refuses or does not *)
(* answer and the client returns None; the task goes on in either case.     *)
CreateTicket(w) ==
    /\ pc[w] = "persisted"
    /\ \/ tickets' = tickets \cup {NoticeOf(w)}
       \/ UNCHANGED tickets
    /\ Goto(w, "ticketed")
    /\ UNCHANGED <<apiVars, dbVars, brokerVars, task, minted, pushes, lost>>

(* push_incident, likewise; it is the last statement with an effect. *)
PushIncident(w) ==
    /\ pc[w] = "ticketed"
    /\ \/ pushes' = pushes \cup {NoticeOf(w)}
       \/ UNCHANGED pushes
    /\ Release(w)
    /\ UNCHANGED <<apiVars, dbVars, brokerVars, minted, tickets, lost>>

(* A client catches RequestException only: an answer whose body is JSON but *)
(* not an object raises AttributeError after the request had its effect.    *)
DownstreamRaises(w) ==
    /\ "downstream" \in Faults
    /\ \/ /\ pc[w] = "persisted"
          /\ tickets' = tickets \cup {NoticeOf(w)}
          /\ UNCHANGED pushes
       \/ /\ pc[w] = "ticketed"
          /\ pushes' = pushes \cup {NoticeOf(w)}
          /\ UNCHANGED tickets
    /\ Goto(w, "failing")
    /\ UNCHANGED <<apiVars, dbVars, brokerVars, task, minted, lost>>

MarkFailed(w) ==
    /\ pc[w] = "failing"
    /\ ~ Locked(task[w].event)
    /\ SetStatus(task[w].event, "failed", task[w].retries + 1)
    /\ Goto(w, "retrying")
    /\ UNCHANGED <<apiVars, incident, lifecycle, brokerVars, task, minted, downVars, lost>>

(* The update in the except block raises as well; the task is retried. *)
MarkFailedFails(w) ==
    /\ "status" \in Faults
    /\ pc[w] = "failing"
    /\ Goto(w, "retrying")
    /\ UNCHANGED <<apiVars, dbVars, brokerVars, task, minted, downVars, lost>>

(* Mutant: the retry forgets how many attempts there were. *)
RetryForgetting(w) ==
    LET e == task[w].event  k == task[w].retries
    IN  /\ pc[w] = "retrying"
        /\ IF k < MaxRetries THEN Enqueue(e, k) ELSE UNCHANGED queue
        /\ Release(w)
        /\ UNCHANGED <<apiVars, dbVars, redelivered, minted, downVars, lost>>

(* autoretry_for: a new message with retries + 1, until max_retries is reached. *)
Retry(w) ==
    LET e == task[w].event  k == task[w].retries
    IN  /\ pc[w] = "retrying"
        /\ IF k < MaxRetries THEN Enqueue(e, k + 1) ELSE UNCHANGED queue
        /\ Release(w)
        /\ UNCHANGED <<apiVars, dbVars, redelivered, minted, downVars, lost>>

(* The broker cannot be reached when the retry is published: the original   *)
(* message was acknowledged long ago, so the task is gone.                  *)
RetryLost(w) ==
    /\ "broker" \in Faults
    /\ pc[w] = "retrying"
    /\ lost' = lost \cup {task[w].event}
    /\ Release(w)
    /\ UNCHANGED <<apiVars, dbVars, brokerVars, minted, downVars>>

(* A worker process dies: its transaction rolls back and the task, which    *)
(* was acknowledged when it started, is not delivered again.                *)
WorkerCrash(w) ==
    /\ "crash" \in Faults
    /\ pc[w] # "idle"
    /\ lost' = lost \cup {task[w].event}
    /\ Release(w)
    /\ UNCHANGED <<apiVars, dbVars, brokerVars, minted, downVars>>

--------------------------------------------------------------------------------
ApiStep(r) ==
    \/ RecordAccepted(r) \/ PublishTask(r) \/ MarkPublished(r)

ApiFault(r) ==
    \/ RecordFails(r) \/ PublishFails(r) \/ PublishLost(r)
    \/ MarkPublishedFails(r) \/ ApiCrash(r)

WorkerStep(w) ==
    \/ MarkProcessing(w) \/ DetectRaises(w) \/ OpenTransaction(w)
    \/ SelectIncident(w) \/ Commit(w)
    \/ CreateTicket(w) \/ PushIncident(w) \/ MarkFailed(w) \/ Retry(w)

WorkerFault(w) ==
    \/ MarkProcessingFails(w) \/ PersistFails(w) \/ DownstreamRaises(w)
    \/ MarkFailedFails(w) \/ RetryLost(w) \/ WorkerCrash(w)

DeliverSome == \E w \in Workers, e \in Events, k \in Attempts : Deliver(w, e, k)

Next ==
    \/ \E r \in Requests : ApiStep(r) \/ ApiFault(r)
    \/ \E w \in Workers : WorkerStep(w) \/ WorkerFault(w)
    \/ DeliverSome

Spec == Init /\ [][Next]_vars

(* A request handler and a worker that run keep running, and the broker     *)
(* keeps delivering to idle workers.  Nothing is assumed of the faults.     *)
FairSpec ==
    /\ Spec
    /\ \A r \in Requests : WF_vars(ApiStep(r))
    /\ \A w \in Workers : WF_vars(WorkerStep(w))
    /\ WF_vars(DeliverSome)

--------------------------------------------------------------------------------
(* Properties.                                                              *)

(* A task for the event is queued or being run. *)
InFlight(e) ==
    \/ \E k \in Attempts : queue[e][k] > 0
    \/ \E w \in Workers : pc[w] # "idle" /\ task[w].event = e

(* An incident row exists exactly for the detected events whose result was  *)
(* committed, and a row that says processed has its result: status, incident *)
(* and processed_at change in one transaction (persist_event_result).       *)
ResultIsAtomic ==
    \A e \in Events :
        /\ incident[e] # 0 <=> processedAt[e] /\ e \in Detected
        /\ status[e] = "processed" => processedAt[e]

(* However many attempts, redeliveries and workers race on one event, its   *)
(* incident gets one lifecycle row: the UPDATE at the head of               *)
(* persist_event_result serialises the SELECT that decides about the row.   *)
OneLifecycleRow ==
    \A e \in Events : lifecycle[e] = IF incident[e] = 0 THEN 0 ELSE 1

(* "Persist the NSEP event and incident first": no ticket and no push goes  *)
(* out for an event whose incident is not in the database, and a committed  *)
(* incident survives whatever Zammad or Network Guardian do.                *)
NoticeAfterPersist ==
    \A n \in tickets \cup pushes : processedAt[n.event] /\ incident[n.event] # 0

(* "A fast worker may already have advanced the state before the publisher  *)
(* returns": the late update of the API never takes back a worker's status. *)
PublishNeverRegresses ==
    [][\A e \in Events :
            status'[e] = "published" => status[e] \in {"accepted", "published"}]_vars

(* An event keeps its first incident id for good, on every later attempt. *)
IncidentIsStable ==
    [][\A e \in Events : incident[e] # 0 => incident'[e] = incident[e]]_vars

(* The events of request r whose task the broker took, as the API sees it. *)
HandedOver(r) ==
    {Batch[r][i] : i \in {j \in DOMAIN Batch[r] :
        \/ j < next[r]
        \/ j = next[r] /\ (phase[r] = "mark" \/ response[r] = "accepted")}}

(* While status updates succeed, an event that was handed to the broker and *)
(* that no broker fault or crash lost is either still on its way or settled: *)
(* processed, or failed after max_retries + 1 attempts.  In particular a row *)
(* that says failed with fewer attempts has another attempt coming.         *)
NoSilentLoss ==
    \A r \in Requests : \A e \in HandedOver(r) \ lost :
        \/ InFlight(e)
        \/ status[e] = "processed"
        \/ status[e] = "failed" /\ retryCount[e] = MaxRetries + 1

(* Every event of a request that was answered with 202 is in the end        *)
(* processed, or marked failed, and no worker touches it again, unless a     *)
(* broker fault or a crash lost its task.                                   *)
Settled(e) == ~ InFlight(e) /\ status[e] \in {"processed", "failed"}

AcceptedIsSettled ==
    \A r \in Requests :
        response[r] = "accepted" ~>
            \A i \in DOMAIN Batch[r] : Batch[r][i] \in lost \/ Settled(Batch[r][i])

--------------------------------------------------------------------------------
(* What the pipeline promises, whatever the faults: see IncidentLedger.     *)

Ledger == INSTANCE IncidentLedger WITH
    stored   <- {e \in Events : status[e] # "absent"},
    handled  <- {e \in Events : processedAt[e]},
    opened   <- {e \in Events : incident[e] # 0},
    notified <- {n.event : n \in tickets \cup pushes}

ImplementsLedger == Ledger!Spec

================================================================================
