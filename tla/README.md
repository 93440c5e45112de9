# Network Guardian: TLA+ models and proofs

TLA+ modules for the parts of this repository in which several actors share state: the NSEP event
pipeline, the automatic blocks of FloodGuard and the Smart Firewall, the isolation sandbox, the
tuning of the firewall's confidence threshold, the probes and their base station, the team's
accounts, the SaaS control plane, and the event fabric with its security graph. TLC checks each
module on small instances; the TLA+ proof system (TLAPS) proves safety properties for every value
of the constants. `PROJECT.json` maps every definition to the lines of source it stands for and
lists the runs, the mutants that each property must detect, the findings, the hazards and the
theorems.

    tlc -config EventPipeline_safety.cfg MCEventPipeline.tla      # one run
    tlapm EventPipelineProofs.tla                                 # the proofs of a module

## 1. The system

The repository holds two programs that talk to each other and a number of satellites. *Network
Guardian* (`network_guardian/`) is one Python process around an asyncio event loop and an event bus,
with a dashboard that is also the base station of probes in the field and the intake of events from
other applications. *NSEP* (`NSEP/services/`) is a distributed service: a FastAPI ingestion API,
RabbitMQ, Celery workers and Postgres. The SaaS control plane (`network_guardian/saas/`) is a server
of its own, several of which may share a database.

| component | state | operations | interacts with | what is hard | what makes it correct |
|---|---|---|---|---|---|
| NSEP ingestion API | none of its own | `publish_event`, `publish_batch` | Postgres, broker | three steps per event, each of which may fail; a batch is published while its first events are being processed | nothing accepted is forgotten; a late update never undoes a worker's |
| NSEP workers | the running task | `process_event` and its retries | Postgres, broker, Zammad, Network Guardian intake | early acknowledgement, redelivery, retries, two workers on one event, lost answers to COMMIT | status, incident and lifecycle row change together; notices come after them |
| Postgres (`shared/database.py`) | `normalized_events`, `incidents`, `incident_lifecycle` | the four functions that write them | API, workers | row locks under READ COMMITTED | one lifecycle row per incident |
| Intrusion prevention (`ips/`) | allowlist, blocklist, quarantine, rate limits, policy | block, unblock, allowlist, quarantine, rate limit | all agents, the operator | last writer wins; expiry | nobody trusted is blocked |
| FloodGuard | suppression times, offences, its own allowlist | `_handle_flood`, `_handle_table_exhaustion` | IPS, event bus | the flood event makes the firewall block in the middle of the handler | escalation reaches the permanent tier and keeps it |
| Smart Firewall: response | history, SQLite table, pending detections, flood sources, multi-vector set | `scan_payload`, `_on_ids_alert`, `run_cycle`, false positives, restart | IPS, FloodGuard, SQLite | order of flood and injection; a failing statement in the middle of a batch | memory and table agree; blocks are not weakened |
| Smart Firewall: tuning | threshold, baseline, pending recoveries, two windows | `_adapt_thresholds`, `_on_table_exhaustion`, `_recover_after`, `set_confidence_threshold` | FloodGuard, operator | four writers of one number, overlapping delayed tasks, floating point | high sensitivity ends; quiet returns to normal |
| Isolation sandbox | sessions, scores, subscriptions | five event handlers, release, pruning, start, stop | event bus, IPS | decay against arrival of events, repeated start | a session over the threshold is isolated, once, and in the end forgotten |
| Probe (`agent/probe.py`, `react_agent.py`) | threat reports in memory and in a file | `agent_loop`, `learn`, `phone_home`, `register` | the fleet registry, through proxies | lost and overtaken requests, restarts, unreadable and full files | what it found arrives in the end |
| Fleet registry (`interface/_fleet.py`) | agents with their reports, in memory and in `fleet.json` | `register_agent`, `accept_report`, `_save`, `_load` | probes, dashboard | the same threat reports arrive again and out of order, against a limit; a save that raises | nothing is filed twice; what was acknowledged is saved |
| Team accounts (`interface/_security.py`, `password_manager.py`) | members in memory and in `wolfpak_team.json`, sessions, attempts | login, change of password, team administration, the password manager's menu | the dashboard's handlers | two processes write one file whole; removals in any order; throttling in two handlers | members and an admin remain; acknowledged changes are saved |
| SaaS control plane (`saas/`) | organizations, subscriptions, keys, agents, reports, usage | signup, API keys, fleet API, billing webhook | billing provider, agents, SQLite or Postgres | handlers of two to five transactions on several servers; events repeated or out of order | plans agree; usage agrees with what is stored |
| Event fabric: intake and graph (`core/events.py`, `core/security_graph.py`, the dashboard) | the table of envelopes, the graph in memory | `_event_fabric_intake`, `_ingest` | MASK and PakShield adapters, dashboard pages | events in any order and again and again, events handled after their sender gave up, a crash that empties the graph but not the store | the graph is what the events say and is filled again |
| Adapters (`scripts/mask_adapter.py`, `pakshield_adapter.py`) | a cycle over observations; a cycle over a database | `observe_and_push`, `export_all` | the intake | they ignore the answers, and the intake limits them | everything arrives |
| Triage agent, policy engine, action gateway, remote control, orchestrator | see section 5 | | | | |

The remaining components - IDS signatures, dual-pass evaluator, MCP parser, scanners, sensors, user
interfaces, machine learning, PakShield's own calculators, the mask network, vendored Tcl/Tk - are
listed in `PROJECT.json` with the reason they are not modelled. Most are pattern matching, arithmetic
or input/output without shared state.

Interactions. NSEP's API and workers share only the database and the queue. In Network Guardian
everything meets at `EventBus.publish`, which awaits the subscribers of a topic one after the other;
the handlers modelled here never suspend between reading and writing, so one handler, with everything
it makes others do, is one action. The components meet in the IPS blocklist, in the events
`flood.detected` and `flood.table_exhaustion`, and in `ids.alert`, which the sandbox and the firewall
read. Probes, team members and adapters meet the process over HTTP, where requests are lost, refused,
answered too late or handled after their sender has gone. The servers of the control plane meet in
their database, so there a transaction is one action. `POST /v1/...` of NSEP and the push of incidents
to Network Guardian's intake connect the two programs.

## 2. Modules

| module | role |
|---|---|
| `EventPipeline` | ingestion API, broker, workers and Postgres, one action per statement with an effect |
| `IncidentLedger` | what the pipeline promises of an event, without API, broker or workers |
| `Blocklist` | allowlist and blocklist of the IPS, as operators for the modules that write them |
| `ThreatResponse` | FloodGuard, Smart Firewall and operator on one blocklist |
| `IsolationSandbox` | sessions, scores, isolation, pruning |
| `AdaptiveThreshold` | the confidence threshold and its four writers |
| `FleetReports` | probes, the network between, and the fleet registry with its file |
| `TeamAccess` | the dashboard's logins, sessions and team administration, and the password manager |
| `SaaSControl` | signup, API keys, fleet API, usage and webhook, one action per transaction |
| `UsageLedger` | what the control plane promises of usage, without servers, handlers or transactions |
| `EventFabric` | intake, store, security graph and the two adapters |
| `MC*` | values of the constants for TLC |
| `*Proofs` | the theorems of a module |

Definitions whose comment begins with "Mutant:" (or "A mutant of") are deliberate errors. Each stands
before the definition it would replace, and no specification uses it: they show that a property can
fail.

### EventPipeline

`next`, `phase` and `response` are the program counter of a request: record the row, send the task,
mark the row published, go on to the next event. `pc` and `task` are the worker's: `started`,
`processing`, the two points inside the transaction of `persist_event_result`, `persisted`,
`ticketed`, and `failing` and `retrying` for the except block and Celery's `autoretry_for`.
`queue[e][k]` counts the copies of the task for `e` in its `k`-th retry: a bag, because neither the
broker with several workers nor the retry countdown keeps an order.

* A statement of the transaction that takes a row lock is enabled only if no other worker holds the
  lock (`Locked`); the `SELECT` that decides about the lifecycle row is a step of its own behind it.
* A failing statement has both outcomes that psycopg leaves open: nothing was written, or it was
  committed and the answer is lost.
* The task is acknowledged when it starts (Celery's default; `celery_app.py` sets nothing else), so a
  worker's crash loses it. `lost` is a history variable naming the events this, a lost publish or a
  failing retry hit: those the design gives up on.
* Detection, enrichment and risk are the sets `Detected` and `Poison`. `normalize_event` mints a new
  event id for every envelope; the assumption on `Batch` says so.
* `Faults` selects the faults of a run: `store`, `status` (the update of the status alone), `broker`,
  `downstream`, `crash`.

### Blocklist and ThreatResponse

An entry of the blocklist is the number of ticks it has left, `Permanent` for none, 0 for no entry:
`is_blocked` and `blocked_ips` delete expired entries before they look. `block_ip` replaces whatever is there.
`HandleFlood` is `_handle_flood` with the block, the event and the firewall's `_on_flood_detected`,
which may block again. `ActOn` is `_act_on_detection` over the addresses of a batch: of several
detections from an address only the first acts, since the others find it blocked. `Save`
is `_save_detections_to_history`, whose transaction may fail at any row; `Restart` keeps only the
table. `overridden` (the operator had a say since the last flood) and `unsaved` (SQLite failed on the
address) are history variables.

### IsolationSandbox

A tick is one half-life of the scores (five minutes); the sum of the contributions is kept, because
they all decay alike, and halves are rounded down. Points are counted in tens, which divides
both thresholds and every severity score but that of `low` (4 points). `handlers` counts how often `start` subscribed: `stop`
never unsubscribes, so `Charge` adds an event's points once for each subscription. `shadow` is chosen
in `Init` and never changes, like the configuration it stands for. Sessions of different addresses do
not influence each other, so one named address and `0.0.0.0` show all there is. `IpsTakesCall` says
whether the IPS accepts the arguments the sandbox passes; the one in the repository does not.

### AdaptiveThreshold

A tick is a minute: the tuning interval, the velocity window and the time for which FloodGuard keeps quiet about
the connection table are all 60 seconds. Within a tick anything happens in any order. Two tunings see disjoint
windows in the code, so a tick empties the counters. `recoveries` holds the time left of each pending
`_recover_after`; a set is enough, since two in one minute are excluded by `warned`.
Confidence is counted in ten-thousandths. TLA+ has no floating point, and here it matters: from 0.55
the sums of 0.02 come out at 0.6900000000000002, whose distance to 0.70 is below 0.01 and is
dropped. `TwoMore` adds one unit of rounding for that; without it the model would reach 0.70, which the code does not.
`emergency` and `manual` are history variables.

### FleetReports

`reports` and `file` are the probe's threat reports in memory and on disk, `fleet` and `disk` the
registry's agents. A threat report is its number in the order of generation, which the code does not have (its
ids are random): it only lets the model say which is newer. `wire[a]` holds the last `MaxLate + 1`
requests of a probe, any of which may arrive, in any order, or never. `Cycle` is one turn of
`agent_loop`: `learn`, which generates and saves, and `phone_home`, which sends the latest `Window`
threat reports without looking at the answer. `AcceptReport` files those the base has not, one after
the other (`FileOne`), and saves; `RejectReport` has every point at which the save of the registration
or of the report raises. `BaseRestart` loads the file or, if it cannot be read, replaces it by an
empty one, with a new key unless `FLEET_KEY` is set (`pinned`). `stale` names probes that went on
from an old file after a failed save, which number their reports differently; two properties
exclude them. `acked` counts what the probe was told had been accepted.

### TeamAccess

`store[p]` is what process `p` - the dashboard, or the password manager - has in memory, `disk` the
team file. Each loads once and writes all it has (`Save`). The dashboard's handlers do not
suspend, so each is one action; a request that is refused and counted nowhere changes nothing and is
left out. A failed save leaves the memory changed (`SaveFails`). `session[n]` is for how long a
session of `n` is accepted, `attempts` the entries of `_login_attempts` for one address. `Login` keeps
the name as typed in the token, as the code does, so that one typed differently from the stored name
or with a dot in it opens no usable session. `allowed[n]` collects what account `n` may be on disk: as last
acknowledged, or as a later change whose save failed; `behind` and `overwritten` record that a process
has not seen a write of the other, and that it saved nevertheless. `guesses` are the wrong passwords
that were compared, whoever counted them; a tick takes from `attempts` and `guesses` those that leave the
window (`Aged`, the list comprehension with which both handlers begin).

### SaaSControl

One action per transaction: `job[s]` is where server `s` is in the handler of a fleet call (`look`,
`register`, `agents`, `insert`, `reports`, `answer`), and `Fail` ends it anywhere. `Signup` and
`Webhook` write in one transaction each, whose failure, and the loss of whose answer, are outcomes of
the action. The provider delivers an event (`due`) until it is answered with 2xx, in any order.
`lost[o][m]` counts what a fault kept from being charged. An agent id is the primary key of its table,
so an organization that registers it takes it over from another: `Register`.

`UsageLedger` is the control plane as its customers see it: accounts, owners of agents, stored reports, and
per organization and metric what is `owed`, `charged` and `waived`. Nothing can be charged that is not owed,
and nothing accepted that is not charged. The mapping counts as owed the servers whose handler is about to
call `record_usage`.

### EventFabric

An event is its source, kind, asset, the processes or users it names, and its time; the rest of the
payload is abstracted to whether the list in it is `garbled`, which makes `_edges_from_envelope` raise
after the node was made. `node[i]` has `first_seen_ms`, `last_seen_ms` and the time `said` of the event whose
payload went into the properties last (0 if none did: the first event's payload is not used). `link`
has the edges. `Ingest` is `_ingest` as a whole, `Intake` stores first. `Post` is `post_event` with its
outcomes: handled, 500, timed out and perhaps handled later (`late`, `HandleLate`), or not reached.
`Observe` goes through the four observations of a MASK cycle; `Fetch` and `PostRow` go through the four
tables of PakShield, newest row first. `Refused` has the two refusals of the server: 429 for what is beyond
`Limit` requests in a cycle, and 413 for an envelope of more than 4096 bytes. A row's `form` says whether its
envelope `fits`, is `large`, or cannot be made (`broken`: its JSON does not parse, or a device in `Unscored` has
no posture score). At a broken row `export_all` raises, and the adapter sleeps and begins again with the first
table (`ExportRaises`), in every cycle: this is the exporter's ordinary course and no fault, and what is behind the row
is never posted. `ExportRestart` is a new process of the adapter.
`Crash` empties the graph, and `Restart` does not fill it again. `seen` and `belated` are history variables:
the events this graph was given, and the assets of which it was given a late one last. Events that the intake
rejects (422) change nothing and are left out; in the store an event that comes again is a further row, which no property counts.

## 3. Runs

| run | question | instance | result |
|---|---|---|---|
| `safety` | Do status, incident, lifecycle row and notices stay consistent under all faults, and is the pipeline an incident ledger? | 1 event, 2 workers, 1 retry, 1 redelivery, all faults | holds |
| `delivery` | Is every event of an accepted batch settled, and is none silently dropped? | batch of 2 (one detected, one that cannot be processed), 2 workers, 2 retries, all faults but `status` | holds |
| `response_escalation` | Do the tiers survive three authors of blocks, expiry, operators and restarts? | 1 address, 2 kinds of flood, blocks of 2, 3 and unlimited ticks | holds |
| `response_downgrade` | Does a permanent block of a multi-vector address stay? | 1 address | violated |
| `sandbox_life` | Are thresholds acted on, once, and isolated sessions forgotten? | 1 address and `0.0.0.0`, 2 starts, events of 20, 40 and 100 points | holds |
| `sandbox_severed` | Is an isolated address blocked? | same | violated |
| `adaptive_tuning` | Do emergencies end, with any overlap, and does quiet bring the threshold back? | 5 ticks of emergency, limits 4/2 and 3/2, operator values -0.01, 0.43, 0.69, 1.2 | holds |
| `fleet_resend` | Is every threat report filed, once, whatever is lost, overtaken or restarted? | 1 probe, 4 threat reports, 2 in a message, the base keeps 3, 1 overtaking request, saves and reads fail | holds |
| `team_admin` | Do members, an admin and acknowledged changes survive removals, two processes and failed saves, and does the throttle hold and end? | 2 names, 2 passwords, 2 changes, 2 attempts, window and lifetime of 2 ticks | holds |
| `saas_tenants` | Do plans agree, is what is charged what is stored, is the control plane a usage ledger, and are the provider's events applied? | 2 servers, 2 organizations, 1 agent, 3 calls and events, 1 fault | holds |
| `fabric_intake` | Is the graph what the events say, in any order, backed by the store, is each host current unless the last event about it was late, and is each user of a row that the exporter comes to linked in the end? | 1 tenant, 1 user; 2 rows of any form, or 1 row and a cycle of 1 host with 1 process; limit 2, 2 mishaps, 2 times | holds |
| `fabric_starved` | Does every row of PakShield reach the store? | 3 rows, 2 devices (one without a score), limit 2, no faults | violated |

Bounds, and why they are enough. *Pipeline*: tasks of different events meet only in the worker pool,
so one event with two workers has every race on a row (two is also what a redelivery can double); two events
are needed for the batch. One retry gives every order of a failed and a successful attempt, two give a
retry that is neither first nor last. `MaxRedeliveries` caps duplicates. *Response*: addresses meet only
in the batch of `RunCycle` and in one SQLite transaction.
`MaxOffences = 4` goes beyond the last tier, `MaxHistory = 4` beyond the last tier of injections;
block lengths keep the order of the real ones (1 h < 6 h < permanent, all longer than the suppression).
*Sandbox*: `MaxAge` is 1 or 2 ticks in place of twelve, which only sets how many half-lives a session
survives; `MaxScore` leaves room for an event of 100 points that is weighed twice (200);
two starts have the duplicate subscription. *Threshold*: the delay of a recovery has its real value, so five overlap; the limits are
scaled down in the same order. *Fleet*: probes meet only in one file, which is written whole; the
limits keep the order of the real ones (20 in a message, 50 at the base, 100 at the probe), with room
at the base for one overtaking request beyond a message, and twice as many threat reports as a message
holds. `MaxCount = 1` shows whether a count is lost. `MaxLate`: a cycle is a minute, the timeouts
are seconds. *Team*: two names are the least with which one admin removes or demotes another; two
changes are an overwrite by a process that missed a write. *SaaS*: one agent that two organizations
register, on two servers, has every race of one handler with another; handlers touch the row of
their agent and organization only. Two events give every order. *Fabric*: one row re-exported in each
cycle, two times, and a host in parallel have every order of old and new events about an asset;
two mishaps have a late event and a crash, two late events, or two crashes. Two rows have a
good row in front of a broken one, behind it and beside a large one: `RowsReachGraph` fails as soon as it is
asked of the large row or of the row behind the broken one. `MaxInputs` lets a second row or the host in, not both, since
they meet in the store and in a crash only. The `fabric_starved`
instance has no faults at all, a device without a score, and a property that is asked only if no row is large or broken. A burst of the exporter is taken to be shorter than the limiter's
window of 60 s, and clocks do not go back.

Deadlock is checked except in the runs of the pipeline and the control plane, which end when the
requests are used up and nothing is pending.

### Fairness

`EventPipeline!FairSpec`: a request handler and a task that run keep running, and the broker delivers
to an idle worker. That is the operating system's and Celery's scheduling; a crash is not excluded by
it, since it ends the step that would have been fair. No fault is ever required. `RetryLost` and `WorkerCrash` put
the event in `lost`; what `AcceptedIsSettled` promises of the rest has no other assumption.
`IsolationSandbox!FairSpec`: time passes, and the prune loop, which sleeps two minutes and prunes,
runs. `AdaptiveThreshold!FairSpec`: time passes, the firewall's loop calls `_adapt_thresholds` on
every cycle, and a sleeping task wakes. `Tick` waits for a recovery that is due: the loop
runs a due task long before another minute is over. `FleetReports!FairSpec`: a probe that runs goes
through its cycle, and of the requests that bring threat reports again and again one gets through
(strong fairness: a network that loses every one of them refutes nothing). Restarts need no limit.
`TeamAccess!FairSpec`: time passes. `SaaSControl!FairSpec`: the provider goes on delivering each event
it has not seen answered, as payment providers do; the bound on faults says that they end.
`EventFabric!FairSpec`: the exporter's loop goes on, over the rows or back to the first table from a broken one. Nothing else has to happen: not the crash, the
restart (the liveness properties ask for it in their conclusion, `~up`), or the handling of a late event.

### What the violations show

1. `response_downgrade`: the second flood of a multi-vector address replaces its permanent block with
   six hours.
2. `sandbox_severed`: the sandbox passes `duration_seconds=`, which `block_ip` does not accept; the
   exception is swallowed and the session counts as severed.
3. `fabric_starved`: `export_all` posts the whole database in each cycle, the newest rows of the first
   table first, ignores the answers and then sleeps. With more rows than the dashboard takes from an
   address in a minute (200) the same rows use up the limit in every cycle, and the rest never arrives.

Observations without a run, found while modelling:

* *Pipeline.* An attempt that follows a committed one mints a new incident id and announces it, while
  the database keeps the first: the ticket names an incident nobody can find. A batch the broker fails in the middle of is
  answered with 503 and no word about the events already queued; a client that repeats it has them twice.
* *Response.* An injection under an active flood block is put down as "already blocked" before the
  firewall looks at its flood sources; the address keeps its one-hour block, although CHANGELOG.md:426-427
  has the escalation immediate.
* *Threshold.* Tuning raises the threshold within a minute of an exhaustion, and the recovery of an
  earlier one ends the emergency of a later one, against the five minutes of CHANGELOG.md:430-431.
* *Sandbox.* `ids.alert` carries the alert under the key `alert` (`ids/__init__.py:442-445`); the
  sandbox reads the keys beside it (`isolation_sandbox_engine.py:578`) and charges every alert to
  `0.0.0.0`. In shadow mode an event that takes a session past both thresholds leaves it `active`.
* *Team.* The dashboard loads the team file once: a user removed with the password manager still
  logs in to the running dashboard, whose next save brings the user back, although CHANGELOG.md:1669 has the manager use
  "the same object used by the live dashboard". A name typed with capitals, or one with a dot, logs in
  to a session that is never accepted. Every start resets the password of `admin`. A member who is
  removed and added again within the hour has the old sessions back.
* *SaaS.* Subscription events do not inherit the `organization_id` that the checkout puts into its
  session's metadata (`billing.py:83`) and are then ignored. Events are applied in the order of arrival,
  so a delayed one overwrites a newer plan; one without a plan resets it to `starter`. The keys of a
  canceled organization still work. The web page shows the number of registrations as the number of agents.
* *Fabric.* The payload of an asset's first event is not used. After each export a tenant's
  properties are those of its oldest row, because rows are posted newest first and each replaces what is there.
  Neither the properties of an edge (a risk score) nor the `last_seen_ms` of its end is ever updated,
  although WOLF-PAK_CORRELATION_SPEC.md:289 has each event update what it is about. A user's node is
  the same for all tenants of an application. A row that cannot be parsed ends the export in every cycle and
  hides the rows behind it, and a row that makes more than 4096 bytes (its indicators, its context) is refused in
  every cycle, against the docstring of `export_all`; no answer is looked at, so nothing but a log line tells of it.

## 4. Proofs

Nearly all are invariance proofs of the same form: an inductive invariant, one lemma per action or
group of actions under which it survives, and a temporal step that combines them. They assume the
named assumption on the constants of each module and nothing else, but for two theorems about the fleet,
which state their condition; TLC evaluates the assumptions in every run.
Where `TypeOK` and other consequences of an inductive invariant are proved here, the runs leave them
out (`TypeOK` of the pipeline, the response, the sandbox, the fleet, the control plane and the fabric;
`NoticeAfterPersist` and `PublishNeverRegresses` of the pipeline, `ReportsHaveAgents` of the control plane).

**EventPipelineProofs.** `ResultIsAtomic` and `OneLifecycleRow` are not inductive: whether a commit
adds a second lifecycle row depends on what the worker read one step earlier. `IInv` adds three
conjuncts. `LockIsExclusive`: at most one worker is inside a transaction on an event. `LocalState`:
inside the transaction a task has an incident id exactly if its event is a detected one; a worker in `selected` has
seen the incident as it still is; a worker past its commit has the result behind it. `RowExists`:
wherever a task or a request is beyond its first step, the row is there. `SelectIncident` and
`Commit` use exclusiveness to know that nobody else committed in between. From `IInv` follow the
three invariants; the action properties `IncidentIsStable` and `PublishNeverRegresses` follow action
by action; and `LedgerRefinement` shows that every step of the pipeline is a `Store`, `Handle` or
`Notify` of `IncidentLedger` or a stutter. `NothingLostSilently` has an invariant of its own,
`ProgressInv`, and one assumption, that updates of the status do not fail. `NoSilentLoss` itself is not
inductive: a worker that is about to end is in flight, and nothing says what it leaves behind.
`ProgressInv` counts a copy of a task only while it is queued or `Unfinished`, that is, still has to write an
outcome or to queue the next attempt; an event without such a copy has its outcome already, whatever
other copies of it do at their ends. So it also covers redeliveries, which the run `delivery` leaves out.

**ThreatResponseProofs.** `IInv` conjoins the invariants with `Bookkeeping`: an allowlisted address
counts as overridden, and an address the firewall knows for a flooder has an offence that FloodGuard counted. The
first covers floods whose block the IPS refuses; the second gives `MultiVectorEscalation` its cases,
since a flood of an address with one offence is its second, the one exception. `FloodEscalation` needs that the
firewall writes only where there is no block, so that it cannot replace a permanent one.

**IsolationSandboxProofs.** `SessionsIsolatedOnce` strengthens the invariant with: nothing is
announced for a session that is neither isolated nor released. `ThresholdsHold` uses that halving
lowers a score and that the handlers of an event see rising scores.

**AdaptiveThresholdProofs.** `EmergencySensitivity` and `RecoveryIsPending` are inductive together
with the types: tuning sets the threshold to a tier or raises it, a drop schedules a recovery of full
length, and a tick shortens `emergency` and every pending recovery alike.

**FleetReportsProofs.** `AckedIsSavedTheorem`: `acked <= disk.count <= fleet.count`. The second
inequality is the strengthening: a failed save leaves the file behind the memory, never ahead, so that
the next save writes no smaller count than the one it replaces; a report that is accepted adds one
to what it finds in memory.

`WindowArrivesTheorem` and `ResentIsKeptTheorem` are about the loop of `accept_report` for messages and lists
of any length. Their invariant, `OrderInv`, says for each probe that is not `stale` how far a threat report may be
behind its newest one, `n`: in its memory no further than its place in the list, in its file the same as of the
last save, in a message at most `Window - 1` and one more for each message sent since. The base keeps
what it has `NearlyInOrder`: each once, and a later entry at most `Slack` behind an earlier one, since
overtaking is all that disturbs the order. If the base pushed out one that can still be sent, it would hold
`BaseKeep + 1` different numbers between `n - 2 * Slack` and `n`, against the pigeonhole principle; hence the
condition `RoomForLate == 2 * Slack + 1 <= BaseKeep`, with `Slack == Window + MaxLate - 1`. With the limits of the
code, 20 and 50, it holds as long as no request is handled after the sixth that follows it; they follow
each other by a minute and are given up after seconds. Some such condition is needed: with
`Window = 2`, `BaseKeep = 3` and `MaxLate = 2` TLC finds a run in which the base drops a threat report that
the probe sends again. It is not necessary: the run `fleet_resend` has `MaxLate = 1` and
`BaseKeep = 3`, two less than it asks for, and passes.

**TeamAccessProofs.** `HasMembersTheorem` and `AdminRemainsTheorem` rest on who acts: an admin with
a session, which is not the account it removes. `AcknowledgedIsSavedTheorem` adds that the memory of
every process that has missed no write also holds only what is allowed (`SavedInv`), since that is what
its next save writes. `GuessesAreLimitedTheorem` compares two sequences of times: counted from the end, each guess
has an attempt that stays in the window at least as long (`Covers`). A tick takes the oldest from both and
keeps that, so there are never more guesses than attempts, and these are limited by the handlers' check;
`LimitInv` adds that both are in order of time.

**SaaSControlProofs.** `AgentsAreCounted` compares cardinalities: a registration adds at most one agent
to an organization and one server to those that owe it a count; `RecordUsage` and `Fail` move that server's count
to `usage` or `lost`. The invariant adds that handlers past their registration have an agent in the
table (`JobsHaveAgents`), that a server about to answer a report has counted it
(`AnsweredIsCounted`), and that events are about organizations with an account, without
which a webhook could write a plan for none. `ReportsCountedTheorem` is about a sum over agents, `ReportsOf`: the lemmas
before it show that the sum exists and is a number, is 0 if all its terms are, and is one more if one
term is (`SumOfOneMore`); every step of a handler then adds to both sides alike (`AccountKept`).
`LedgerRefinement` maps each transaction to one step of `UsageLedger` or to a stutter. A charge needs that its
server is among those that owe it, an acceptance `AnsweredIsCounted`, a stored report `JobsHaveAgents`, and a
registration that the key it came with belongs to an organization with an account (`JobsHaveKeys`).
`NoEventGivenUp` is the safety half of `EventsAreApplied`: an event that is not written is still due.

**EventFabricProofs.** What is posted, now or late, is well-formed, not of the future and, from
PakShield, of a row or a device (`FeedInv`). Every step then gives one such event to store and graph,
or empties the graph, or leaves both alone (`GraphStep`), and the four invariants are shown for
these three cases only. `GraphIsComplete` needs that an edge that is skipped because it is there has its end, which is
the invariant itself; `GraphIsCurrent` that what is posted about a host or a device and handled at once is of the
moment, so that it is at least as new as all before it, and that an event changes the node of its own asset only.

**Induction.** The theorems of the library that state induction take an operator as parameter, which the
installed provers cannot instantiate. Where a proof needs induction - the rounds of `accept_report`'s loop,
the entries of a list that ages, the elements of a sum - it takes the least number for which the claim would
fail (`NatMin`, from the fact that `<` on the natural numbers is well-founded, a fact about sets) and shows that
the number before it fails too. This also gives the values of the recursive functions in `Accepted`, `Aged` and
`MapThenSumSet`, which are defined by CHOOSE and have to be shown to exist.

Only model-checked: liveness (`AcceptedIsSettled`, `IsolatedIsForgotten`, `QuietRecovers`, `BaseCatchesUp`,
`ThrottleEnds`, `EventsAreApplied`, `RowsReachGraph`). TLAPS proves neither liveness under fairness nor
anything about ENABLED. Every invariant and action property of the passing runs has its theorem.

## 5. Not modelled

The map covers a small share of the implementation's lines, and will stay so: most of the nearly
sixty thousand lines are the HTML and JavaScript of the dashboard's pages, scanners, sensors and
other calls to the operating system, pattern tables, numerical models, reports, text for a voice
interface, and vendored code. None of it shares state between actors.

* *NSEP*: authentication, the routes that only read, the detection rules, the wording of tickets.
* *IPS*: quarantine, token buckets, `should_allow` and the policy for IDS alerts, which only tests call.
* *FloodGuard*: the counting of packets, and the clocks near the machine's boot, when
  `_suppressed.get(key, 0.0)` swallows the first flood.
* *Triage agent*: nothing publishes `triage.command` or calls `triage()`, so its plans never run.
* *Policy engine, action gateway*: stateless evaluation of a list of policies, and stubs that answer
  success. Worth knowing: `rules/__init__.py:46` promises a verdict "across all matching policies", while a
  policy whose scope does not match rejects (line 103).
* *Orchestrator*: its continuous mode raises when it subscribes (`orchestrator_service.py:324`); what
  remains is one sequential pass over the stored events.
* *Remote control*: each operation checks one record.
* *Fleet*: the scans that find threats, patches to probes (nothing sets one), code updates, the
  sizes of reports. *Team*: hashing, cookies, the age of passwords,
  and `_fleet_auth` (dashboard.py:1966), which tries a password for a request signed with the fleet key and does not count it;
  `GuessesAreLimited` is about the login of the dashboard. *SaaS*: tokens, roles, the
  migrations (on SQLite a crash in the middle of one keeps every later start from coming up).
  *Fabric*: queries of the graph, the pages that read the store, what the adapters parse.
* Memory that grows without limit (active sandbox sessions, offence counters): the bounds of the
  models hide it.

## 6. Plan

1. The action properties of the fleet without `RoomForLate`: how many requests may be late for a given
   `BaseKeep` exactly, which lies between what the runs show and what is proved.
2. An abstract registry for `FleetReports`, as `UsageLedger` is one for the control plane: what the base has of
   a probe only moves forward until the probe registers again.
3. The safety half of further liveness properties, as `NoEventGivenUp` is for `EventsAreApplied`: that a throttled
   address has an attempt that will leave the window, that a pending row is in what the exporter fetches.
4. A composition of `ThreatResponse` with the sandbox on one blocklist, once the sandbox's call to
   `block_ip` is one the IPS accepts.
