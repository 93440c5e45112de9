------------------------------- MODULE EventFabric -----------------------------
(***************************************************************************)
(* The dashboard's intake of events from other applications: the store     *)
(* (a table that is only added to) and the security graph (in memory, lost *)
(* with the process), and the two adapters that feed it.                   *)
(*                                                                         *)
(* The MASK adapter posts four observations of its host in each cycle, as  *)
(* of now.  The PakShield adapter posts its whole database in each cycle,  *)
(* the newest rows of a table first, as fast as it can, until it comes to  *)
(* a row it cannot read.  The dashboard refuses what is more than an       *)
(* address may send in a minute, and what is too large.  Neither adapter   *)
(* looks at the answers: an event that is refused is left out until it is  *)
(* posted again, and one that the adapter has given up waiting for may     *)
(* still be handled after newer ones.                                      *)
(***************************************************************************)
EXTENDS Naturals, FiniteSets

CONSTANTS
    Hosts,       \* asset ids of hosts that a MASK adapter observes
    Tenants,     \* asset ids PakShield gives to risks, findings and accesses
    Devices,     \* asset ids of PakShield's devices
    Unscored,    \* devices whose posture_score is NULL
    Users,       \* names of users
    Pids,        \* process ids on a host
    Limit,       \* requests a minute of one address (200), as many as its other
                 \* clients leave to the PakShield adapter
    MaxTime,     \* bound: the clock
    MaxInputs,   \* bound: rows of PakShield's database, without devices, and
                 \* hosts that are observed, together
    MaxCycles,   \* bound: cycles of a MASK adapter
    MaxMishaps   \* bound: faults (timeouts, failed stores, failed queries) and
                 \* crashes (of the dashboard, and restarts of the exporter)

Assets     == Hosts \cup Tenants \cup Devices
Processes  == {<<"proc", h, p>> : h \in Hosts, p \in Pids}
Identities == {<<"identity", from, u>> : from \in {"MASK", "PAKSHIELD"}, u \in Users}
Targets    == Processes \cup Identities
NodeIds    == Assets \cup Targets
Pairs      == Assets \X Targets

ASSUME FabricAssumption ==
    /\ Hosts \cap (Tenants \cup Devices) = {}
    /\ Tenants \cap Devices = {}
    /\ Unscored \subseteq Devices
    /\ Assets \cap Targets = {}
    /\ MaxTime \in Nat \ {0}
    /\ Limit \in Nat
    /\ MaxInputs \in Nat
    /\ MaxCycles \in Nat
    /\ MaxMishaps \in Nat

VARIABLES
    now,       \* the time, from 1 on
    rows,      \* PakShield's risk_events, findings and access_events
    table,     \* the table its adapter is posting, 0 before the first
    todo,      \* the rows of that table it has yet to post
    tries,     \* the requests it has made in this cycle, up to Limit
    round,     \* the MASK adapter's next observation in its cycle
    cycles,    \* cycles it has begun
    late,      \* events whose adapter waits no longer, not handled yet
    up,        \* the dashboard runs
    stored,    \* the events in the store; one that is stored twice counts once
    node,      \* _entities of the graph
    link,      \* _relationships: the time of the event that made an edge, or 0
    seen,      \* history: events the graph has been given since the start
    belated,   \* history: assets of which the graph was given a late event last
    mishaps    \* faults and crashes so far

exportVars == <<table, todo, tries>>
graphVars  == <<node, link, seen, belated>>
maskVars   == <<round, cycles>>
vars       == <<now, rows, exportVars, maskVars, late, up, stored, graphVars, mishaps>>

(* What a MASK adapter observes, in the order of its cycle, and the tables   *)
(* that the PakShield adapter exports, in the order of its own.              *)
Observations == <<"sysinfo", "network", "process", "sessions">>
Tables       == <<"risk", "finding", "access", "device">>
RowEvents    == {"risk", "finding", "access"}
Events       == {"sysinfo", "network", "process", "sessions", "risk", "finding", "access", "device"}

(* Only the events of these types make edges, to what they name.             *)
LinkingEvents == {"process", "sessions", "risk", "finding"}

Times == 1 .. MaxTime

(* The events, without what the graph does not look at.  An event that is    *)
(* garbled has a list whose members are not objects.                         *)
Envelopes == [source : {"MASK", "PAKSHIELD"}, event : Events, asset : Assets,
              names : SUBSET (Pids \cup Users), garbled : BOOLEAN, at : Times]

(* A row makes an envelope that the dashboard takes, or one of more than     *)
(* 4096 bytes, or none: its indicators, policy_decisions or context are not  *)
(* JSON (no finding has any of these), or a device's posture_score is NULL.  *)
Forms == {"fits", "large", "broken"}
FormsOf(k) == IF k = "finding" THEN Forms \ {"broken"} ELSE Forms

(* A device has no time of its own. *)
Rows == [event : Events, asset : Tenants \cup Devices, names : SUBSET Users,
         form : Forms, at : 0 .. MaxTime]

(* A node: first_seen_ms, last_seen_ms, and the time of the event whose      *)
(* payload its properties were updated from last, 0 if there is none.        *)
Nodes  == [first : 0 .. MaxTime, last : 0 .. MaxTime, said : 0 .. MaxTime]
NoNode == [first |-> 0, last |-> 0, said |-> 0]

TypeOK ==
    /\ now \in Times
    /\ rows \subseteq Rows
    /\ table \in 0 .. 4
    /\ todo \subseteq Rows
    /\ tries \in 0 .. Limit
    /\ round \in [Hosts -> 1 .. 4]
    /\ cycles \in [Hosts -> 0 .. MaxCycles]
    /\ late \subseteq Envelopes
    /\ up \in BOOLEAN
    /\ stored \subseteq Envelopes
    /\ node \in [NodeIds -> Nodes]
    /\ link \in [Pairs -> 0 .. MaxTime]
    /\ seen \subseteq Envelopes
    /\ belated \subseteq Assets
    /\ mishaps \in 0 .. MaxMishaps

Init ==
    /\ now = 1
    /\ rows = {}
    /\ table = 0
    /\ todo = {}
    /\ tries = 0
    /\ round = [h \in Hosts |-> 1]
    /\ cycles = [h \in Hosts |-> 0]
    /\ late = {}
    /\ up = TRUE
    /\ stored = {}
    /\ node = [i \in NodeIds |-> NoNode]
    /\ link = [l \in Pairs |-> 0]
    /\ seen = {}
    /\ belated = {}
    /\ mishaps = 0

--------------------------------------------------------------------------------
(* The security graph. *)

Known(i)  == node[i].first # 0
Linked(l) == link[l] # 0

Later(s, t) == IF s < t THEN t ELSE s

(* A node that is made by an event gets none of its payload. *)
Fresh(e) == [first |-> e.at, last |-> e.at, said |-> 0]

(* Mutant: last_seen_ms is set, not raised. *)
UpdatedInOrder(n, e) == [first |-> n.first, last |-> e.at, said |-> e.at]

(* Mutant: an event without a list has no properties to give. *)
UpdatedIfListed(n, e) ==
    [first |-> n.first, last |-> Later(n.last, e.at), said |-> IF e.names = {} THEN n.said ELSE e.at]

(* GraphEntity.update: the payload replaces the properties, old or not. *)
Updated(n, e) == [first |-> n.first, last |-> Later(n.last, e.at), said |-> e.at]

(* A process belongs to a host; a user is the same for all assets of an      *)
(* application.                                                              *)
TargetOf(e, x) == IF e.event = "process" THEN <<"proc", e.asset, x>>
                                         ELSE <<"identity", e.source, x>>

(* _edges_from_envelope.  A garbled event raises before any edge is made.    *)
Links(e) == IF e.event \in LinkingEvents /\ ~e.garbled
            THEN {<<e.asset, TargetOf(e, x)>> : x \in e.names}
            ELSE {}

(* An edge that is there already is left as it is, and so is its end.        *)
NewLinks(e) == {l \in Links(e) : ~Linked(l)}

(* Mutant: an edge is made without its end. *)
IngestWithoutEnds(e) ==
    /\ node' = [node EXCEPT ![e.asset] = IF Known(e.asset) THEN Updated(@, e) ELSE Fresh(e)]
    /\ link' = [l \in Pairs |-> IF l \in NewLinks(e) THEN e.at ELSE link[l]]
    /\ seen' = seen \cup {e}

Ingest(e) ==
    /\ node' = [i \in NodeIds |->
                    IF i = e.asset
                    THEN IF Known(i) THEN Updated(node[i], e) ELSE Fresh(e)
                    ELSE IF ~Known(i) /\ <<e.asset, i>> \in NewLinks(e) THEN Fresh(e)
                    ELSE node[i]]
    /\ link' = [l \in Pairs |-> IF l \in NewLinks(e) THEN e.at ELSE link[l]]
    /\ seen' = seen \cup {e}

--------------------------------------------------------------------------------
(* The intake, which handles one event at a time. *)

Mishap == mishaps < MaxMishaps /\ mishaps' = mishaps + 1

(* Mutant: the graph takes the event although the store failed. *)
IntakeUnstored(e) ==
    /\ up
    /\ \/ stored' = stored \cup {e} /\ UNCHANGED mishaps
       \/ UNCHANGED stored /\ Mishap
    /\ Ingest(e)

(* The event is stored, published to nobody, and given to the graph.  A      *)
(* crash in between is one right after, since the graph is lost with it.     *)
Intake(e) ==
    /\ up
    /\ stored' = stored \cup {e}
    /\ Ingest(e)
    /\ UNCHANGED mishaps

(* SQLite cannot write: the answer is 500. *)
IntakeFails ==
    /\ up
    /\ Mishap
    /\ UNCHANGED <<stored, graphVars>>

(* post_event: handled, timed out, or refused; the adapter goes on.  After   *)
(* a timeout the event may be handled later, or never.                       *)
Post(e) ==
    \/ Intake(e) /\ belated' = belated \ {e.asset} /\ UNCHANGED late
    \/ IntakeFails /\ UNCHANGED late
    \/ /\ up
       /\ Mishap
       /\ late' = late \cup {e}
       /\ UNCHANGED <<stored, graphVars>>
    \/ /\ ~up
       /\ UNCHANGED <<late, stored, graphVars, mishaps>>

HandleLate(e) ==
    /\ \/ Intake(e) /\ belated' = belated \cup {e.asset}
       \/ IntakeFails
    /\ late' = late \ {e}
    /\ UNCHANGED <<now, rows, exportVars, maskVars, up>>

(* The dashboard stops, and its connections and its graph are gone, and so   *)
(* are the requests it has counted.                                          *)
Crash ==
    /\ up
    /\ Mishap
    /\ up' = FALSE
    /\ late' = {}
    /\ node' = [i \in NodeIds |-> NoNode]
    /\ link' = [l \in Pairs |-> 0]
    /\ seen' = {}
    /\ belated' = {}
    /\ tries' = 0
    /\ UNCHANGED <<now, rows, table, todo, maskVars, stored>>

(* It starts with an empty graph: the store is not replayed. *)
Restart ==
    /\ ~up
    /\ up' = TRUE
    /\ UNCHANGED <<now, rows, exportVars, maskVars, late, stored, graphVars, mishaps>>

--------------------------------------------------------------------------------
(* The MASK adapter. *)

(* The bound on what comes in. *)
Room == Cardinality(rows) + Cardinality({h \in Hosts : cycles[h] > 0}) < MaxInputs

Observation(h, xs, g) == [source |-> "MASK", event |-> Observations[round[h]], asset |-> h,
                          names |-> xs, garbled |-> g, at |-> now]

(* The list of connections makes no edges: the graph looks for one address.  *)
Listed(h) == IF round[h] = 3 THEN SUBSET Pids \ {{}}
             ELSE IF round[h] = 4 THEN SUBSET Users
             ELSE {{}}

(* A cycle begins with the first observation. *)
Begin(h) ==
    \/ /\ round[h] = 1
       /\ cycles[h] < MaxCycles
       /\ cycles[h] = 0 => Room
       /\ cycles' = [cycles EXCEPT ![h] = @ + 1]
    \/ round[h] # 1 /\ UNCHANGED cycles

(* observe_and_push makes an observation and posts it.  The list of          *)
(* processes is the daemon's, if it runs, and is passed on as it is.  A list *)
(* of more than 4096 bytes is refused, whether the dashboard runs or not.    *)
Observe(h) ==
    /\ Begin(h)
    /\ \/ \E xs \in Listed(h), g \in BOOLEAN : (g => round[h] = 3) /\ Post(Observation(h, xs, g))
       \/ round[h] \in {2, 3} /\ UNCHANGED <<late, stored, graphVars, mishaps>>
    /\ round' = [round EXCEPT ![h] = IF @ = 4 THEN 1 ELSE @ + 1]
    /\ UNCHANGED <<now, rows, exportVars, up>>

(* An observation raises, or the adapter is started again: a new cycle.      *)
ObserveFails(h) ==
    /\ Begin(h)
    /\ round' = [round EXCEPT ![h] = 1]
    /\ UNCHANGED <<now, rows, exportVars, late, up, stored, graphVars, mishaps>>

--------------------------------------------------------------------------------
(* PakShield and its adapter. *)

(* Whom a row names.  An access names its user too, but not to the graph; a  *)
(* risk or a finding whose user is missing does what an access does.         *)
Named(k) == IF k = "access" THEN {{}} ELSE {{u} : u \in Users}

(* PakShield adds a row. *)
NewRow(k, t, xs, f) ==
    /\ Room
    /\ rows' = rows \cup {[event |-> k, asset |-> t, names |-> xs, form |-> f, at |-> now]}
    /\ UNCHANGED <<now, exportVars, maskVars, late, up, stored, graphVars, mishaps>>

DeviceRows == {[event |-> "device", asset |-> d, names |-> {},
                form |-> IF d \in Unscored THEN "broken" ELSE "fits", at |-> 0] : d \in Devices}

NextTable == IF table = 4 THEN 1 ELSE table + 1

(* Mutant: only the rows since the last export. *)
SelectedSince(k) == {r \in rows \cup DeviceRows : r.event = k /\ r.at \in {0, now}}

(* All rows of the table, whether they have been posted before or not. *)
Selected(k) == {r \in rows \cup DeviceRows : r.event = k}

(* The next query of export_all, which gives no rows if it fails.  After the *)
(* last table the adapter sleeps for a minute, and none of its requests      *)
(* counts any more.                                                          *)
Fetch ==
    /\ todo = {}
    /\ table' = NextTable
    /\ tries' = IF table = 4 THEN 0 ELSE tries
    /\ \/ todo' = Selected(Tables[NextTable]) /\ UNCHANGED mishaps
       \/ todo' = {} /\ Mishap
    /\ UNCHANGED <<now, rows, maskVars, late, up, stored, graphVars>>

(* ORDER BY created_at DESC. *)
Newest(r) == \A q \in todo : q.at <= r.at

EnvelopeOf(r) == [source |-> "PAKSHIELD", event |-> r.event, asset |-> r.asset,
                  names |-> r.names, garbled |-> FALSE,
                  at |-> IF r.event = "device" THEN now ELSE r.at]

(* A request that is one too many is answered with 429, and one that is too  *)
(* large with 413, in this cycle as in all others.                           *)
Refused(r) == tries = Limit \/ r.form = "large"

PostRow(r) ==
    /\ Newest(r)
    /\ r.form # "broken"
    /\ \/ ~Refused(r) /\ Post(EnvelopeOf(r))
       \/ Refused(r) /\ UNCHANGED <<late, stored, graphVars, mishaps>>
    /\ tries' = IF up /\ tries < Limit THEN tries + 1 ELSE tries
    /\ todo' = todo \ {r}
    /\ UNCHANGED <<now, rows, table, maskVars, up>>

(* There is no envelope to make of the row: export_all raises, the adapter   *)
(* sleeps for a minute, and it begins again with the first table.            *)
ExportRaises(r) ==
    /\ Newest(r)
    /\ r.form = "broken"
    /\ table' = 0
    /\ todo' = {}
    /\ tries' = 0
    /\ UNCHANGED <<now, rows, maskVars, late, up, stored, graphVars, mishaps>>

(* The adapter's process ends and is started again, within the minute or     *)
(* after it.                                                                 *)
ExportRestart ==
    /\ Mishap
    /\ table' = 0
    /\ todo' = {}
    /\ tries' \in {0, tries}
    /\ UNCHANGED <<now, rows, maskVars, late, up, stored, graphVars>>

--------------------------------------------------------------------------------
Tick ==
    /\ now < MaxTime
    /\ now' = now + 1
    /\ UNCHANGED <<rows, exportVars, maskVars, late, up, stored, graphVars, mishaps>>

ExportStep == Fetch \/ \E r \in todo : PostRow(r) \/ ExportRaises(r)

Next ==
    \/ Tick
    \/ Crash
    \/ Restart
    \/ ExportRestart
    \/ ExportStep
    \/ \E e \in late : HandleLate(e)
    \/ \E h \in Hosts : Observe(h) \/ ObserveFails(h)
    \/ \E k \in RowEvents, t \in Tenants : \E xs \in Named(k), f \in FormsOf(k) : NewRow(k, t, xs, f)

Spec == Init /\ [][Next]_vars

(* The exporter's loop goes on; nothing else has to happen. *)
FairSpec == Spec /\ WF_vars(ExportStep)

--------------------------------------------------------------------------------
(* Properties. *)

(* The graph holds exactly the assets the events it was given are about and  *)
(* the links they name, whatever the order in which they came, how often,    *)
(* and which of them raised half-way (security_graph.py:229-278): no event   *)
(* hides what another one adds, and no edge is without an end.               *)
GraphIsWhatItSaw ==
    /\ \A l \in Pairs : Linked(l) <=> \E e \in seen : l \in Links(e)
    /\ \A i \in Assets : Known(i) <=> \E e \in seen : e.asset = i
    /\ \A i \in Targets : Known(i) <=> \E a \in Assets : Linked(<<a, i>>)

(* The last_seen_ms of an asset is the time of the latest event about it,    *)
(* although events come newest first and late (security_graph.py:84-85).     *)
LastSeenIsLatest ==
    \A i \in Assets :
        /\ \A e \in seen : e.asset = i => e.at <= node[i].last
        /\ Known(i) => \E e \in seen : e.asset = i /\ e.at = node[i].last

(* What the graph tells can be looked up: each node, its properties and each *)
(* edge come from an event in the store (events.py:344-353 stores before     *)
(* dashboard.py:2040 ingests), and an edge of a tenant from a row PakShield  *)
(* has.                                                                      *)
GraphHasEvidence ==
    /\ \A i \in Assets : node[i].said # 0 => \E e \in stored : e.asset = i /\ e.at = node[i].said
    /\ \A i \in NodeIds : Known(i) => \E e \in stored : e.at = node[i].first
    /\ \A l \in Pairs : Linked(l) => \E e \in stored : l \in Links(e) /\ e.at = link[l]
    /\ \A t \in Tenants, u \in Users :
            Linked(<<t, <<"identity", "PAKSHIELD", u>>>>) =>
                \E r \in rows : r.asset = t /\ u \in r.names /\ r.event \in LinkingEvents

(* The properties of a host or a device are older than its last_seen_ms only *)
(* as long as the event about it that was handled last was one its adapter   *)
(* had given up: both adapters post these as of now, so whatever failed, and *)
(* whatever is late about other assets, the next event that is handled in    *)
(* time puts them right (security_graph.py:75-80).                           *)
CurrentUnlessLate ==
    \A i \in Hosts \cup Devices : node[i].said \in {0, node[i].last} \/ i \in belated

(* What export_all may come to after a row: the tables behind its own, and   *)
(* what is not newer than it.                                                *)
TableOf(r) == CHOOSE n \in DOMAIN Tables : Tables[n] = r.event
Behind(r)  == {q \in rows \ {r} : \/ TableOf(r) < TableOf(q)
                                  \/ TableOf(r) = TableOf(q) /\ q.at <= r.at}

(* The rows that each cycle of export_all comes to and that are not too      *)
(* large: no row in front of them is broken.                                 *)
Exported == {r \in rows : r.form = "fits" /\ \A b \in rows : b.form = "broken" => r \notin Behind(b)}

(* The exported rows of PakShield that link the user to the tenant.          *)
Awaited(t, u) == {r \in Exported : r.asset = t /\ u \in r.names /\ r.event \in LinkingEvents}

(* A user who is not linked to the tenant, although a row of theirs is       *)
(* exported, the dashboard runs, and there are no more rows than an address  *)
(* may send requests.                                                        *)
Missing(t, u) ==
    /\ Awaited(t, u) # {}
    /\ ~Linked(<<t, <<"identity", "PAKSHIELD", u>>>>)
    /\ up
    /\ Cardinality(rows) <= Limit

(* No such user is missing for ever: requests time out, stores and queries   *)
(* fail, and the graph is forgotten in a restart, but everything is posted   *)
(* again (pakshield_adapter.py:246-326).  Nothing is said of a row that is   *)
(* too large, of one behind a row that cannot be read, or of more rows than  *)
(* the limit lets in.                                                        *)
RowsReachGraph == \A t \in Tenants, u \in Users : []<>~Missing(t, u)

(* export_all exports all pending events (pakshield_adapter.py:247): each    *)
(* row is in the store in the end, as long as the dashboard runs and no row  *)
(* is too large or cannot be read.                                           *)
EveryRowIsStored ==
    \A k \in RowEvents, t \in Tenants, s \in Times :
        (\E r \in rows : r.event = k /\ r.asset = t /\ r.at = s)
            ~> \/ \E e \in stored : e.event = k /\ e.asset = t /\ e.at = s
               \/ ~up
               \/ Exported # rows

================================================================================
