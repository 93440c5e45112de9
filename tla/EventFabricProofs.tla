--------------------------- MODULE EventFabricProofs ----------------------------
(***************************************************************************)
(* Theorems about EventFabric, for any assets, users and processes, any    *)
(* number of rows, cycles, faults and crashes, and any limit: its types,   *)
(* and the four invariants that the runs check.                            *)
(*                                                                         *)
(* The argument: what is posted, now or late, is well-formed, not of the   *)
(* future and, if it is PakShield's, a row or a device; and a step either  *)
(* gives such an event to the store and the graph, or empties the graph,   *)
(* or leaves both alone.                                                   *)
(***************************************************************************)
EXTENDS EventFabric, TLAPS

(* What an adapter posts names things of the right kind. *)
WellFormed(e) ==
    /\ e \in Envelopes
    /\ e.at <= now
    /\ e.event = "process" => e.asset \in Hosts /\ e.names \subseteq Pids
    /\ e.event \in {"sessions", "risk", "finding"} => e.names \subseteq Users

(* It has come from a row of PakShield, or says nothing of a user. *)
FromRow(e) ==
    e.source = "PAKSHIELD" /\ e.event \in LinkingEvents =>
        \E r \in rows : r.event = e.event /\ r.asset = e.asset /\ r.names = e.names

(* It is of the moment, or comes from a row: no host or device is told what  *)
(* was true before.                                                          *)
OnTime(e) == e.at = now \/ e.asset \in Tenants

FeedInv ==
    /\ \A r \in rows : r.event \in RowEvents /\ r.asset \in Tenants /\ r.at \in Times /\ r.at <= now
    /\ todo \subseteq rows \cup DeviceRows
    /\ \A e \in late : WellFormed(e) /\ FromRow(e)
    /\ \A e \in stored : FromRow(e)

GraphInv ==
    /\ seen \subseteq stored
    /\ GraphIsWhatItSaw
    /\ LastSeenIsLatest
    /\ \A i \in Assets : node[i].said # 0 => \E e \in stored : e.asset = i /\ e.at = node[i].said
    /\ \A i \in NodeIds : Known(i) => \E e \in stored : e.at = node[i].first
    /\ \A l \in Pairs : Linked(l) => \E e \in stored : l \in Links(e) /\ e.at = link[l]

NowInv ==
    /\ \A i \in NodeIds : node[i].last <= now
    /\ CurrentUnlessLate

IInv == TypeOK /\ FeedInv /\ GraphInv /\ NowInv

--------------------------------------------------------------------------------
(* Events and links. *)

LEMMA LinksArePairs ==
    ASSUME NEW e, WellFormed(e), NEW l \in Links(e)
    PROVE  l \in Pairs /\ l[1] = e.asset
<1>1. PICK x \in e.names : l = <<e.asset, TargetOf(e, x)>>
    BY DEF Links
<1>2. e.event \in LinkingEvents /\ e.asset \in Assets /\ e.source \in {"MASK", "PAKSHIELD"}
    BY DEF Links, WellFormed, Envelopes
<1>3. TargetOf(e, x) \in Targets
    <2>1. CASE e.event = "process"
        BY <1>1, <2>1 DEF WellFormed, TargetOf, Targets, Processes
    <2>2. CASE e.event # "process"
        <3>1. x \in Users
            BY <1>1, <1>2, <2>2 DEF WellFormed, LinkingEvents
        <3>. QED BY <1>2, <2>2, <3>1 DEF TargetOf, Targets, Identities
    <2>. QED BY <2>1, <2>2
<1>. QED BY <1>1, <1>2, <1>3 DEF Pairs

LEMMA ObservationIsWellFormed ==
    ASSUME TypeOK, NEW h \in Hosts, NEW xs \in Listed(h), NEW g \in BOOLEAN
    PROVE  /\ WellFormed(Observation(h, xs, g))
           /\ FromRow(Observation(h, xs, g))
           /\ OnTime(Observation(h, xs, g))
<1>1. round[h] \in 1 .. 4 /\ now \in Times
    BY DEF TypeOK
<1>2. xs \subseteq Pids \cup Users /\ (round[h] = 3 => xs \subseteq Pids) /\ (round[h] = 4 => xs \subseteq Users)
    BY DEF Listed
<1>3. /\ round[h] = 1 => Observations[round[h]] = "sysinfo"
      /\ round[h] = 2 => Observations[round[h]] = "network"
      /\ round[h] = 3 => Observations[round[h]] = "process"
      /\ round[h] = 4 => Observations[round[h]] = "sessions"
    BY DEF Observations
<1>4. Observation(h, xs, g) \in Envelopes
    BY <1>1, <1>2, <1>3 DEF Observation, Envelopes, Events, Assets
<1>. QED BY <1>1, <1>2, <1>3, <1>4 DEF Observation, WellFormed, FromRow, OnTime, Times

LEMMA RowIsWellFormed ==
    ASSUME TypeOK, FeedInv, NEW r \in todo
    PROVE  /\ WellFormed(EnvelopeOf(r))
           /\ FromRow(EnvelopeOf(r))
           /\ OnTime(EnvelopeOf(r))
<1>1. r \in Rows /\ now \in Times
    BY DEF TypeOK
<1>2. CASE r \in rows
    <2>1. r.event \in RowEvents /\ r.asset \in Tenants /\ r.at \in Times /\ r.at <= now
        BY <1>2 DEF FeedInv
    <2>2. EnvelopeOf(r) \in Envelopes
        BY <1>1, <2>1 DEF EnvelopeOf, Envelopes, Rows, RowEvents, Assets
    <2>. QED BY <1>1, <1>2, <2>1, <2>2 DEF EnvelopeOf, WellFormed, FromRow, OnTime, Rows, RowEvents
<1>3. CASE r \in DeviceRows
    <2>1. r.event = "device" /\ r.asset \in Devices /\ r.names = {}
        BY <1>3 DEF DeviceRows
    <2>2. EnvelopeOf(r) \in Envelopes
        BY <1>1, <2>1 DEF EnvelopeOf, Envelopes, Events, Assets
    <2>. QED BY <1>1, <2>1, <2>2 DEF EnvelopeOf, WellFormed, FromRow, OnTime, LinkingEvents, Times
<1>. QED BY <1>2, <1>3 DEF FeedInv

--------------------------------------------------------------------------------
(* What a step may do to the store and to the graph. *)

GraphStep ==
    \/ \E e :
        /\ WellFormed(e) /\ FromRow(e)
        /\ Intake(e)
        /\ \/ OnTime(e) /\ belated' = belated \ {e.asset}
           \/ belated' = belated \cup {e.asset}
    \/ Crash
    \/ UNCHANGED <<stored, graphVars>>

LEMMA PostIsGraphStep ==
    ASSUME NEW e, WellFormed(e), FromRow(e), OnTime(e), Post(e)
    PROVE  GraphStep
<1>1. CASE Intake(e) /\ belated' = belated \ {e.asset}
    BY <1>1 DEF GraphStep
<1>2. CASE UNCHANGED <<stored, graphVars>>
    BY <1>2 DEF GraphStep
<1>. QED BY <1>1, <1>2 DEF Post, IntakeFails

LEMMA NextIsGraphStep ==
    ASSUME IInv, [Next]_vars
    PROVE  GraphStep
<1>1. ASSUME NEW h \in Hosts, Observe(h) PROVE GraphStep
    BY <1>1, ObservationIsWellFormed, PostIsGraphStep DEF Observe, IInv, GraphStep
<1>2. ASSUME NEW r \in todo, PostRow(r) PROVE GraphStep
    BY <1>2, RowIsWellFormed, PostIsGraphStep DEF PostRow, IInv, GraphStep
<1>3. ASSUME NEW e \in late, HandleLate(e) PROVE GraphStep
    <2>1. WellFormed(e) /\ FromRow(e)
        BY DEF IInv, FeedInv
    <2>. QED BY <1>3, <2>1 DEF HandleLate, IntakeFails, GraphStep
<1>4. CASE Tick \/ Restart \/ ExportRestart \/ Fetch \/ UNCHANGED vars
    BY <1>4 DEF Tick, Restart, ExportRestart, Fetch, vars, GraphStep
<1>5. ASSUME NEW h \in Hosts, ObserveFails(h) PROVE GraphStep
    BY <1>5 DEF ObserveFails, GraphStep
<1>6. ASSUME NEW k, NEW t, NEW xs, NEW f, NewRow(k, t, xs, f) PROVE GraphStep
    BY <1>6 DEF NewRow, GraphStep
<1>7. CASE Crash
    BY <1>7 DEF GraphStep
<1>8. ASSUME NEW r \in todo, ExportRaises(r) PROVE GraphStep
    BY <1>8 DEF ExportRaises, GraphStep
<1>. QED BY <1>1, <1>2, <1>3, <1>4, <1>5, <1>6, <1>7, <1>8 DEF Next, ExportStep

--------------------------------------------------------------------------------
(* The graph. *)

LEMMA IngestKeepsTypes ==
    ASSUME FabricAssumption, TypeOK, NEW e, WellFormed(e), Ingest(e)
    PROVE  /\ node' \in [NodeIds -> Nodes]
           /\ link' \in [Pairs -> 0 .. MaxTime]
           /\ seen' \subseteq Envelopes
<1>1. e \in Envelopes /\ e.at \in 1 .. MaxTime /\ MaxTime \in Nat
    BY DEF WellFormed, Envelopes, Times, FabricAssumption
<1>2. Fresh(e) \in Nodes
    BY <1>1 DEF Fresh, Nodes
<1>3. ASSUME NEW i \in NodeIds PROVE Updated(node[i], e) \in Nodes
    <2>1. node[i] \in Nodes
        BY DEF TypeOK
    <2>2. node[i].first \in 0 .. MaxTime /\ node[i].last \in 0 .. MaxTime
        BY <2>1 DEF Nodes
    <2>3. Later(node[i].last, e.at) \in 0 .. MaxTime
        BY <1>1, <2>2 DEF Later
    <2>. QED BY <1>1, <2>2, <2>3 DEF Updated, Nodes
<1>4. node' \in [NodeIds -> Nodes]
    BY <1>2, <1>3 DEF Ingest, TypeOK
<1>5. link' \in [Pairs -> 0 .. MaxTime]
    BY <1>1 DEF Ingest, TypeOK
<1>. QED BY <1>1, <1>4, <1>5 DEF Ingest, TypeOK

(* What an event does to nodes and edges. *)
LEMMA IngestEffect ==
    ASSUME FabricAssumption, TypeOK, NEW e, WellFormed(e), Ingest(e)
    PROVE  /\ e.asset \in Assets /\ e.at \in Nat \ {0}
           /\ Known(e.asset) => node'[e.asset] = Updated(node[e.asset], e)
           /\ ~Known(e.asset) => node'[e.asset] = Fresh(e)
           /\ \A i \in Assets : i # e.asset => node'[i] = node[i]
           /\ \A i \in Targets : Known(i) \/ <<e.asset, i>> \notin NewLinks(e) => node'[i] = node[i]
           /\ \A i \in Targets : ~Known(i) /\ <<e.asset, i>> \in NewLinks(e) => node'[i] = Fresh(e)
           /\ \A l \in Pairs : l \in NewLinks(e) => link'[l] = e.at
           /\ \A l \in Pairs : l \notin NewLinks(e) => link'[l] = link[l]
           /\ seen' = seen \cup {e}
<1>1. e.asset \in Assets /\ e.at \in Nat \ {0}
    BY DEF WellFormed, Envelopes, Times, FabricAssumption
<1>2. Assets \cap Targets = {} /\ NodeIds = Assets \cup Targets
    BY DEF FabricAssumption, NodeIds
<1>3. \A i \in Assets : <<e.asset, i>> \notin Links(e)
    BY <1>2, LinksArePairs DEF Pairs
<1>4. \A i \in Assets : <<e.asset, i>> \notin NewLinks(e)
    BY <1>3 DEF NewLinks
<1>5. /\ node' = [i \in NodeIds |->
                    IF i = e.asset
                    THEN IF Known(i) THEN Updated(node[i], e) ELSE Fresh(e)
                    ELSE IF ~Known(i) /\ <<e.asset, i>> \in NewLinks(e) THEN Fresh(e)
                    ELSE node[i]]
      /\ link' = [l \in Pairs |-> IF l \in NewLinks(e) THEN e.at ELSE link[l]]
      /\ seen' = seen \cup {e}
    BY DEF Ingest
<1>6. \A i \in Targets : i # e.asset
    BY <1>1, <1>2
<1>. QED BY <1>1, <1>2, <1>4, <1>5, <1>6

(* Where an event leaves a node's times. *)
LEMMA IngestTimes ==
    ASSUME FabricAssumption, TypeOK, NEW e, WellFormed(e), Ingest(e), NEW i \in NodeIds
    PROVE  /\ Known(i) => node'[i].first = node[i].first
           /\ ~Known(i) /\ Known(i)' => node'[i].first = e.at
           /\ i \in Targets => (Known(i)' <=> Known(i) \/ <<e.asset, i>> \in NewLinks(e))
           /\ node'[i].last \in {node[i].last, e.at}
           /\ Known(e.asset)'
           /\ Known(e.asset) => node'[e.asset].last = Later(node[e.asset].last, e.at)
           /\ Known(e.asset) => node'[e.asset].said = e.at
           /\ ~Known(e.asset) => node'[e.asset].last = e.at /\ node'[e.asset].said = 0
<1>1. /\ Fresh(e).first = e.at /\ Fresh(e).last = e.at /\ Fresh(e).said = 0
    BY DEF Fresh
<1>2. ASSUME NEW n
      PROVE  Updated(n, e).first = n.first /\ Updated(n, e).last = Later(n.last, e.at) /\ Updated(n, e).said = e.at
    BY DEF Updated
<1>3. e.at # 0
    BY IngestEffect
<1>4. CASE i \in Assets /\ i # e.asset
    <2>1. node'[i] = node[i] /\ i \notin Targets
        BY <1>4, IngestEffect DEF FabricAssumption
    <2>2. Known(i)' <=> Known(i)
        BY <2>1 DEF Known
    <2>3. Known(e.asset)'
        BY <1>1, <1>2, <1>3, IngestEffect DEF Known
    <2>. QED BY <1>1, <1>2, <2>1, <2>2, <2>3, IngestEffect
<1>5. CASE i = e.asset
    <2>1. i \notin Targets
        BY <1>5, IngestEffect DEF FabricAssumption
    <2>2. Known(e.asset)'
        BY <1>1, <1>2, <1>3, IngestEffect DEF Known
    <2>3. Later(node[i].last, e.at) \in {node[i].last, e.at}
        BY DEF Later
    <2>. QED BY <1>1, <1>2, <1>5, <2>1, <2>2, <2>3, IngestEffect
<1>6. CASE i \in Targets
    <2>1. Known(e.asset)'
        BY <1>1, <1>2, <1>3, IngestEffect DEF Known
    <2>2. Known(i) \/ <<e.asset, i>> \notin NewLinks(e) => node'[i] = node[i] /\ (Known(i)' <=> Known(i))
        BY <1>6, IngestEffect DEF Known
    <2>3. ~Known(i) /\ <<e.asset, i>> \in NewLinks(e) =>
                node'[i].first = e.at /\ node'[i].last = e.at /\ Known(i)'
        BY <1>1, <1>3, <1>6, IngestEffect DEF Known
    <2>. QED BY <1>1, <1>2, <2>1, <2>2, <2>3, IngestEffect
<1>. QED BY <1>4, <1>5, <1>6 DEF NodeIds

LEMMA IngestIsWhatItSaw ==
    ASSUME FabricAssumption, TypeOK, GraphIsWhatItSaw, NEW e, WellFormed(e), Ingest(e)
    PROVE  GraphIsWhatItSaw'
<1>1. \A l \in Pairs : Linked(l)' <=> Linked(l) \/ l \in Links(e)
    <2>1. ASSUME NEW l \in Pairs PROVE Linked(l)' <=> Linked(l) \/ l \in NewLinks(e)
        BY IngestEffect DEF Linked
    <2>. QED BY <2>1 DEF NewLinks
<1>2. ASSUME NEW l \in Pairs
      PROVE  Linked(l)' <=> \E d \in seen' : l \in Links(d)
    <2>1. Linked(l) <=> \E d \in seen : l \in Links(d)
        BY DEF GraphIsWhatItSaw
    <2>. QED BY <1>1, <2>1, IngestEffect
<1>4. Known(e.asset)' /\ e.asset \in NodeIds
    BY IngestEffect, IngestTimes DEF NodeIds
<1>5. ASSUME NEW i \in Assets
      PROVE  Known(i)' <=> \E d \in seen' : d.asset = i
    <2>1. Known(i) <=> \E d \in seen : d.asset = i
        BY DEF GraphIsWhatItSaw
    <2>2. i # e.asset => (Known(i)' <=> Known(i))
        BY IngestEffect DEF Known
    <2>. QED BY <1>4, <2>1, <2>2, IngestEffect
<1>6. ASSUME NEW i \in Targets
      PROVE  Known(i)' <=> \E a \in Assets : Linked(<<a, i>>)'
    <2>1. Known(i) <=> \E a \in Assets : Linked(<<a, i>>)
        BY DEF GraphIsWhatItSaw
    <2>2. Known(i)' <=> Known(i) \/ <<e.asset, i>> \in NewLinks(e)
        BY IngestTimes DEF NodeIds
    <2>3. ASSUME NEW a \in Assets
          PROVE  Linked(<<a, i>>)' <=> Linked(<<a, i>>) \/ (a = e.asset /\ <<a, i>> \in NewLinks(e))
        <3>1. <<a, i>> \in Pairs
            BY DEF Pairs
        <3>2. <<a, i>> \in Links(e) => a = e.asset
            BY DEF Links
        <3>. QED BY <1>1, <3>1, <3>2 DEF NewLinks
    <2>. QED BY <2>1, <2>2, <2>3, IngestEffect
<1>. QED BY <1>2, <1>5, <1>6 DEF GraphIsWhatItSaw

LEMMA IngestSeesLatest ==
    ASSUME FabricAssumption, TypeOK, GraphIsWhatItSaw, LastSeenIsLatest, NEW e, WellFormed(e), Ingest(e)
    PROVE  LastSeenIsLatest'
<1>1. SUFFICES ASSUME NEW i \in Assets
               PROVE  /\ \A d \in seen' : d.asset = i => d.at <= node'[i].last
                      /\ Known(i)' => \E d \in seen' : d.asset = i /\ d.at = node'[i].last
    BY DEF LastSeenIsLatest
<1>2. /\ \A d \in seen : d.asset = i => d.at <= node[i].last
      /\ Known(i) => \E d \in seen : d.asset = i /\ d.at = node[i].last
      /\ Known(i) <=> \E d \in seen : d.asset = i
    BY DEF LastSeenIsLatest, GraphIsWhatItSaw
<1>3. CASE i # e.asset
    BY <1>2, <1>3, IngestEffect DEF Known
<1>4. CASE i = e.asset /\ ~Known(i)
    <2>1. node'[i].last = e.at /\ e.at \in Nat
        BY <1>4, IngestEffect, IngestTimes DEF NodeIds
    <2>2. \A d \in seen' : d.asset = i => d = e
        BY <1>2, <1>4, IngestEffect
    <2>. QED BY <1>4, <2>1, <2>2, IngestEffect
<1>5. CASE i = e.asset /\ Known(i)
    <2>1. node[i].last \in Nat /\ e.at \in Nat
        BY IngestEffect DEF TypeOK, Nodes, NodeIds
    <2>2. node'[i].last = Later(node[i].last, e.at)
        BY <1>5, IngestTimes DEF NodeIds
    <2>3. \A d \in seen : d.at \in Nat
        BY DEF TypeOK, Envelopes, Times
    <2>4. node[i].last <= node'[i].last /\ e.at <= node'[i].last
        BY <2>1, <2>2 DEF Later
    <2>5. node'[i].last \in {node[i].last, e.at}
        BY <2>2 DEF Later
    <2>6. ASSUME NEW d \in seen', d.asset = i PROVE d.at <= node'[i].last
        <3>1. CASE d = e
            BY <2>4, <3>1
        <3>2. CASE d \in seen
            <4>1. d.at <= node[i].last
                BY <1>2, <2>6, <3>2
            <4>2. node'[i].last \in Nat
                BY <2>1, <2>5
            <4>. QED BY <2>1, <2>3, <2>4, <3>2, <4>1, <4>2
        <3>. QED BY <3>1, <3>2, IngestEffect
    <2>. QED BY <1>2, <1>5, <2>5, <2>6, IngestEffect
<1>. QED BY <1>3, <1>4, <1>5

LEMMA IntakeHasEvidence ==
    ASSUME FabricAssumption, IInv, NEW e, WellFormed(e), Intake(e)
    PROVE  /\ (\A i \in Assets : node[i].said # 0 => \E d \in stored : d.asset = i /\ d.at = node[i].said)'
           /\ (\A i \in NodeIds : Known(i) => \E d \in stored : d.at = node[i].first)'
           /\ (\A l \in Pairs : Linked(l) => \E d \in stored : l \in Links(d) /\ d.at = link[l])'
<1>1. TypeOK /\ Ingest(e) /\ stored' = stored \cup {e}
    BY DEF IInv, Intake
<1>2. ASSUME NEW i \in Assets, node'[i].said # 0
      PROVE  \E d \in stored' : d.asset = i /\ d.at = node'[i].said
    <2>1. node[i].said # 0 => \E d \in stored : d.asset = i /\ d.at = node[i].said
        BY DEF IInv, GraphInv
    <2>2. CASE i # e.asset
        BY <1>1, <1>2, <2>1, <2>2, IngestEffect
    <2>3. CASE i = e.asset
        <3>1. Known(i) /\ node'[i].said = e.at
            BY <1>1, <1>2, <2>3, IngestTimes DEF NodeIds
        <3>. QED BY <1>1, <2>3, <3>1
    <2>. QED BY <2>2, <2>3
<1>3. ASSUME NEW i \in NodeIds, Known(i)'
      PROVE  \E d \in stored' : d.at = node'[i].first
    <2>1. Known(i) => \E d \in stored : d.at = node[i].first
        BY DEF IInv, GraphInv
    <2>2. \/ Known(i) /\ node'[i].first = node[i].first
          \/ node'[i].first = e.at
        BY <1>1, <1>3, IngestTimes
    <2>. QED BY <1>1, <2>1, <2>2
<1>4. ASSUME NEW l \in Pairs, Linked(l)'
      PROVE  \E d \in stored' : l \in Links(d) /\ d.at = link'[l]
    <2>1. Linked(l) => \E d \in stored : l \in Links(d) /\ d.at = link[l]
        BY DEF IInv, GraphInv
    <2>. QED BY <1>1, <1>4, <2>1, IngestEffect DEF Linked, NewLinks
<1>. QED BY <1>2, <1>3, <1>4

LEMMA CrashKeepsGraph ==
    ASSUME FabricAssumption, Crash
    PROVE  GraphInv'
<1>1. \A i \in NodeIds : node'[i] = NoNode
    BY DEF Crash
<1>2. \A l \in Pairs : link'[l] = 0
    BY DEF Crash
<1>3. seen' = {}
    BY DEF Crash
<1>4. GraphIsWhatItSaw'
    <2>1. \A l \in Pairs : ~Linked(l)'
        BY <1>2 DEF Linked
    <2>2. \A i \in NodeIds : ~Known(i)'
        BY <1>1 DEF Known, NoNode
    <2>3. \A i \in Targets : ~Known(i)' /\ \A a \in Assets : ~Linked(<<a, i>>)'
        BY <2>1, <2>2 DEF NodeIds, Pairs
    <2>. QED BY <1>3, <2>1, <2>2, <2>3 DEF GraphIsWhatItSaw, NodeIds
<1>5. LastSeenIsLatest'
    BY <1>1, <1>3 DEF LastSeenIsLatest, Known, NodeIds, NoNode
<1>. QED BY <1>1, <1>2, <1>3, <1>4, <1>5 DEF GraphInv, Known, Linked, NodeIds, NoNode

LEMMA StepKeepsGraph ==
    ASSUME FabricAssumption, IInv, GraphStep
    PROVE  GraphInv'
<1>1. ASSUME NEW e, WellFormed(e), Intake(e) PROVE GraphInv'
    <2>1. TypeOK /\ GraphIsWhatItSaw /\ LastSeenIsLatest /\ seen \subseteq stored /\ Ingest(e)
        BY <1>1 DEF IInv, GraphInv, Intake
    <2>2. seen' \subseteq stored'
        BY <1>1, <2>1 DEF Intake, Ingest
    <2>3. GraphIsWhatItSaw' /\ LastSeenIsLatest'
        BY <1>1, <2>1, IngestIsWhatItSaw, IngestSeesLatest
    <2>. QED BY <1>1, <2>2, <2>3, IntakeHasEvidence DEF GraphInv
<1>2. CASE UNCHANGED <<stored, graphVars>>
    BY <1>2 DEF IInv, GraphInv, GraphIsWhatItSaw, LastSeenIsLatest, Known, Linked, graphVars
<1>. QED BY <1>1, <1>2, CrashKeepsGraph DEF GraphStep

--------------------------------------------------------------------------------
(* The rest of the state. *)

(* What every step does to the clock, the rows and what waits to be handled. *)
FeedStep ==
    /\ now' \in Times /\ now <= now'
    /\ rows \subseteq rows' /\ rows' \subseteq Rows
    /\ \A r \in rows' \ rows : r.event \in RowEvents /\ r.asset \in Tenants /\ r.at = now
    /\ todo' \subseteq rows \cup DeviceRows
    /\ \A e \in late' \ late : WellFormed(e) /\ FromRow(e)
    /\ table' \in 0 .. 4 /\ tries' \in 0 .. Limit
    /\ round' \in [Hosts -> 1 .. 4] /\ cycles' \in [Hosts -> 0 .. MaxCycles]
    /\ up' \in BOOLEAN
    /\ mishaps' \in 0 .. MaxMishaps

LEMMA MishapCounts ==
    ASSUME FabricAssumption, TypeOK, Mishap
    PROVE  mishaps' \in 0 .. MaxMishaps
<1>1. mishaps \in Nat /\ MaxMishaps \in Nat
    BY DEF TypeOK, FabricAssumption
<1>2. mishaps' = mishaps + 1 /\ mishaps < MaxMishaps
    BY DEF Mishap
<1>. QED BY <1>1, <1>2

LEMMA PostFeeds ==
    ASSUME FabricAssumption, TypeOK, NEW e, Post(e)
    PROVE  /\ late' \subseteq late \cup {e}
           /\ mishaps' \in 0 .. MaxMishaps
<1>1. mishaps \in 0 .. MaxMishaps
    BY DEF TypeOK
<1>2. CASE mishaps' = mishaps /\ late' = late
    BY <1>1, <1>2
<1>3. CASE Mishap /\ late' \subseteq late \cup {e}
    BY <1>3, MishapCounts
<1>. QED BY <1>2, <1>3 DEF Post, Intake, IntakeFails

LEMMA NextFeeds ==
    ASSUME FabricAssumption, IInv, [Next]_vars
    PROVE  FeedStep
<1>. USE DEF exportVars, maskVars, graphVars
<1>1. /\ TypeOK /\ FeedInv /\ todo \subseteq rows \cup DeviceRows
      /\ now \in Times /\ now <= now
    BY DEF IInv, FeedInv, TypeOK, Times
<1>2. /\ rows \subseteq Rows /\ table \in 0 .. 4 /\ tries \in 0 .. Limit
      /\ round \in [Hosts -> 1 .. 4] /\ cycles \in [Hosts -> 0 .. MaxCycles]
      /\ up \in BOOLEAN /\ mishaps \in 0 .. MaxMishaps
      /\ Limit \in Nat /\ MaxCycles \in Nat /\ MaxTime \in Nat
    BY <1>1 DEF TypeOK, FabricAssumption
<1>3. CASE Tick
    <2>1. now' \in Times /\ now <= now'
        BY <1>1, <1>2, <1>3 DEF Tick, Times
    <2>. QED BY <1>1, <1>2, <1>3, <2>1 DEF Tick, FeedStep
<1>4. CASE Crash
    <2>1. mishaps' \in 0 .. MaxMishaps
        BY <1>1, <1>4, MishapCounts DEF Crash
    <2>2. tries' \in 0 .. Limit
        BY <1>2, <1>4 DEF Crash
    <2>. QED BY <1>1, <1>2, <1>4, <2>1, <2>2 DEF Crash, FeedStep
<1>5. CASE Restart
    BY <1>1, <1>2, <1>5 DEF Restart, FeedStep
<1>6. CASE ExportRestart
    <2>1. mishaps' \in 0 .. MaxMishaps
        BY <1>1, <1>6, MishapCounts DEF ExportRestart
    <2>2. tries' \in 0 .. Limit /\ table' \in 0 .. 4
        BY <1>2, <1>6 DEF ExportRestart
    <2>. QED BY <1>1, <1>2, <1>6, <2>1, <2>2 DEF ExportRestart, FeedStep
<1>7. CASE Fetch
    <2>1. table' \in 0 .. 4
        BY <1>2, <1>7 DEF Fetch, NextTable
    <2>2. tries' \in 0 .. Limit
        BY <1>2, <1>7 DEF Fetch
    <2>3. todo' \subseteq rows \cup DeviceRows
        BY <1>7 DEF Fetch, Selected
    <2>4. mishaps' \in 0 .. MaxMishaps
        BY <1>1, <1>2, <1>7, MishapCounts DEF Fetch
    <2>. QED BY <1>1, <1>2, <1>7, <2>1, <2>2, <2>3, <2>4 DEF Fetch, FeedStep
<1>8. ASSUME NEW r \in todo, PostRow(r) PROVE FeedStep
    <2>1. WellFormed(EnvelopeOf(r)) /\ FromRow(EnvelopeOf(r))
        BY <1>1, RowIsWellFormed
    <2>2. /\ late' \subseteq late \cup {EnvelopeOf(r)}
          /\ mishaps' \in 0 .. MaxMishaps
        BY <1>1, <1>2, <1>8, PostFeeds DEF PostRow
    <2>3. tries' \in 0 .. Limit
        BY <1>2, <1>8 DEF PostRow
    <2>. QED BY <1>1, <1>2, <1>8, <2>1, <2>2, <2>3 DEF PostRow, FeedStep
<1>9. ASSUME NEW e \in late, HandleLate(e) PROVE FeedStep
    <2>1. mishaps' \in 0 .. MaxMishaps
        BY <1>1, <1>2, <1>9, MishapCounts DEF HandleLate, Intake, IntakeFails
    <2>. QED BY <1>1, <1>2, <1>9, <2>1 DEF HandleLate, FeedStep
<1>10. ASSUME NEW h \in Hosts, Observe(h) PROVE FeedStep
    <2>1. round' \in [Hosts -> 1 .. 4]
        BY <1>2, <1>10 DEF Observe
    <2>2. cycles' \in [Hosts -> 0 .. MaxCycles]
        BY <1>2, <1>10 DEF Observe, Begin
    <2>3. CASE UNCHANGED <<late, mishaps>>
        BY <1>1, <1>2, <1>10, <2>1, <2>2, <2>3 DEF Observe, FeedStep
    <2>4. ASSUME NEW xs \in Listed(h), NEW g \in BOOLEAN, Post(Observation(h, xs, g)) PROVE FeedStep
        <3>1. WellFormed(Observation(h, xs, g)) /\ FromRow(Observation(h, xs, g))
            BY <1>1, ObservationIsWellFormed
        <3>2. /\ late' \subseteq late \cup {Observation(h, xs, g)}
              /\ mishaps' \in 0 .. MaxMishaps
            BY <1>1, <2>4, PostFeeds
        <3>. QED BY <1>1, <1>2, <1>10, <2>1, <2>2, <3>1, <3>2 DEF Observe, FeedStep
    <2>. QED BY <1>10, <2>3, <2>4 DEF Observe
<1>11. ASSUME NEW h \in Hosts, ObserveFails(h) PROVE FeedStep
    <2>1. round' \in [Hosts -> 1 .. 4]
        BY <1>2, <1>11 DEF ObserveFails
    <2>2. cycles' \in [Hosts -> 0 .. MaxCycles]
        BY <1>2, <1>11 DEF ObserveFails, Begin
    <2>. QED BY <1>1, <1>2, <1>11, <2>1, <2>2 DEF ObserveFails, FeedStep
<1>12. ASSUME NEW k \in RowEvents, NEW t \in Tenants, NEW xs \in Named(k), NEW f \in FormsOf(k),
              NewRow(k, t, xs, f)
       PROVE  FeedStep
    <2>. DEFINE r == [event |-> k, asset |-> t, names |-> xs, form |-> f, at |-> now]
    <2>1. r \in Rows
        BY <1>1, <1>2 DEF Rows, RowEvents, Events, Named, Times, Forms, FormsOf
    <2>2. rows' = rows \cup {r} /\ r.event \in RowEvents /\ r.asset \in Tenants /\ r.at = now
        BY <1>12 DEF NewRow
    <2>3. UNCHANGED <<now, todo, late, mishaps, table, tries, round, cycles, up>>
        BY <1>12 DEF NewRow
    <2>. HIDE DEF r
    <2>. QED BY <1>1, <1>2, <2>1, <2>2, <2>3 DEF FeedStep
<1>13. ASSUME NEW r \in todo, ExportRaises(r) PROVE FeedStep
    <2>1. tries' \in 0 .. Limit /\ table' \in 0 .. 4
        BY <1>2, <1>13 DEF ExportRaises
    <2>. QED BY <1>1, <1>2, <1>13, <2>1 DEF ExportRaises, FeedStep
<1>14. CASE UNCHANGED vars
    BY <1>1, <1>2, <1>14 DEF vars, FeedStep
<1>. QED BY <1>3, <1>4, <1>5, <1>6, <1>7, <1>8, <1>9, <1>10, <1>11, <1>12, <1>13, <1>14 DEF Next, ExportStep

--------------------------------------------------------------------------------
(* The invariant. *)

LEMMA InitInv ==
    ASSUME FabricAssumption, Init
    PROVE  IInv
<1>1. TypeOK
    <2>1. NoNode \in Nodes /\ 1 \in Times
        BY DEF NoNode, Nodes, FabricAssumption, Times
    <2>. QED BY <2>1 DEF Init, TypeOK, FabricAssumption
<1>2. FeedInv
    BY DEF Init, FeedInv
<1>3. /\ \A i \in NodeIds : node[i] = NoNode /\ ~Known(i)
      /\ \A l \in Pairs : ~Linked(l)
      /\ seen = {} /\ stored = {} /\ late = {} /\ now = 1
    BY DEF Init, Known, Linked, NoNode
<1>4. \A i \in Targets : ~Known(i) /\ \A a \in Assets : ~Linked(<<a, i>>)
    BY <1>3 DEF NodeIds, Pairs
<1>5. GraphIsWhatItSaw /\ LastSeenIsLatest
    BY <1>3, <1>4 DEF GraphIsWhatItSaw, LastSeenIsLatest, NodeIds
<1>6. GraphInv
    BY <1>3, <1>5 DEF GraphInv, NodeIds, NoNode
<1>7. NowInv
    BY <1>3 DEF NowInv, CurrentUnlessLate, NodeIds, Assets, NoNode
<1>. QED BY <1>1, <1>2, <1>6, <1>7 DEF IInv

LEMMA StepKeepsTypes ==
    ASSUME FabricAssumption, IInv, GraphStep, FeedStep
    PROVE  TypeOK'
<1>1. TypeOK /\ FeedInv
    BY DEF IInv
<1>2. /\ node' \in [NodeIds -> Nodes] /\ link' \in [Pairs -> 0 .. MaxTime]
      /\ seen' \subseteq Envelopes /\ belated' \subseteq Assets /\ stored' \subseteq Envelopes
    <2>1. ASSUME NEW e, WellFormed(e), Intake(e), belated' \subseteq belated \cup {e.asset}
          PROVE  /\ node' \in [NodeIds -> Nodes] /\ link' \in [Pairs -> 0 .. MaxTime]
                 /\ seen' \subseteq Envelopes /\ belated' \subseteq Assets /\ stored' \subseteq Envelopes
        <3>1. e.asset \in Assets /\ belated' \subseteq Assets
            BY <1>1, <2>1 DEF TypeOK, WellFormed, Envelopes
        <3>. QED BY <1>1, <2>1, <3>1, IngestKeepsTypes DEF Intake, TypeOK, WellFormed
    <2>2. CASE Crash
        <3>1. NoNode \in Nodes /\ 0 \in 0 .. MaxTime
            BY DEF NoNode, Nodes, FabricAssumption
        <3>. QED BY <1>1, <2>2, <3>1 DEF Crash, TypeOK
    <2>3. CASE UNCHANGED <<stored, graphVars>>
        BY <1>1, <2>3 DEF graphVars, TypeOK
    <2>. QED BY <2>1, <2>2, <2>3 DEF GraphStep
<1>3. todo' \subseteq Rows
    <2>1. DeviceRows \subseteq Rows
        BY DEF DeviceRows, Rows, Events, Forms, FabricAssumption
    <2>. QED BY <1>1, <2>1 DEF FeedStep, TypeOK
<1>4. late' \subseteq Envelopes
    BY <1>1 DEF FeedStep, TypeOK, WellFormed
<1>. QED BY <1>2, <1>3, <1>4 DEF FeedStep, TypeOK

LEMMA StepKeepsFeeds ==
    ASSUME FabricAssumption, IInv, GraphStep, FeedStep
    PROVE  FeedInv'
<1>1. now \in Nat /\ now' \in Nat /\ now <= now' /\ rows \subseteq rows'
    BY DEF IInv, TypeOK, FeedStep, Times
<1>2. \A e : FromRow(e) => FromRow(e)'
    BY <1>1 DEF FromRow
<1>3. ASSUME NEW e, WellFormed(e) PROVE WellFormed(e)'
    <2>1. e.at \in Nat /\ e.at <= now
        BY <1>3 DEF WellFormed, Envelopes, Times
    <2>. QED BY <1>1, <1>3, <2>1 DEF WellFormed
<1>4. ASSUME NEW r \in rows'
      PROVE  r.event \in RowEvents /\ r.asset \in Tenants /\ r.at \in Times /\ r.at <= now'
    <2>1. CASE r \in rows
        <3>1. r.event \in RowEvents /\ r.asset \in Tenants /\ r.at \in Times /\ r.at <= now
            BY <2>1 DEF IInv, FeedInv
        <3>. QED BY <1>1, <3>1 DEF Times
    <2>2. CASE r \notin rows
        BY <1>1, <2>2 DEF FeedStep, IInv, TypeOK
    <2>. QED BY <2>1, <2>2
<1>5. todo' \subseteq rows' \cup DeviceRows
    BY <1>1 DEF FeedStep
<1>6. \A e \in late' : WellFormed(e)' /\ FromRow(e)'
    BY <1>2, <1>3 DEF FeedStep, IInv, FeedInv
<1>7. \A e \in stored' : FromRow(e)'
    <2>1. \A e \in stored' \ stored : FromRow(e)
        BY DEF GraphStep, Intake, Crash, graphVars
    <2>. QED BY <1>2, <2>1 DEF IInv, FeedInv
<1>. QED BY <1>4, <1>5, <1>6, <1>7 DEF FeedInv

LEMMA StepKeepsNow ==
    ASSUME FabricAssumption, IInv, GraphStep, FeedStep
    PROVE  NowInv'
<1>1. /\ now \in Nat /\ now' \in Nat /\ now <= now'
      /\ \A i \in NodeIds : node[i].last \in Nat /\ node[i].last <= now
      /\ TypeOK
    BY DEF IInv, TypeOK, NowInv, FeedStep, Times, Nodes
<1>2. \A i \in NodeIds : node'[i].last <= now'
    <2>1. ASSUME NEW e, WellFormed(e), Intake(e), NEW i \in NodeIds PROVE node'[i].last <= now'
        <3>1. e.at \in Nat /\ e.at <= now
            BY <2>1 DEF WellFormed, Envelopes, Times
        <3>2. node'[i].last \in {node[i].last, e.at}
            BY <1>1, <2>1, IngestTimes DEF Intake
        <3>. QED BY <1>1, <3>1, <3>2
    <2>2. CASE Crash
        <3>1. \A i \in NodeIds : node'[i].last = 0
            BY <2>2 DEF Crash, NoNode
        <3>. QED BY <1>1, <3>1
    <2>3. CASE UNCHANGED <<stored, graphVars>>
        BY <1>1, <2>3 DEF graphVars
    <2>. QED BY <2>1, <2>2, <2>3 DEF GraphStep
<1>3. ASSUME NEW i \in Hosts \cup Devices, i \notin belated'
      PROVE  node'[i].said \in {0, node'[i].last}
    <2>1. i \in Assets /\ i \in NodeIds /\ i \notin Tenants
        BY DEF Assets, NodeIds, FabricAssumption
    <2>2. i \notin belated => node[i].said \in {0, node[i].last}
        BY DEF IInv, NowInv, CurrentUnlessLate
    <2>3. ASSUME NEW e, WellFormed(e), Intake(e), i # e.asset, i \notin belated
          PROVE  node'[i].said \in {0, node'[i].last}
        BY <1>1, <2>1, <2>2, <2>3, IngestEffect DEF Intake
    <2>4. ASSUME NEW e, WellFormed(e), Intake(e), i = e.asset, OnTime(e)
          PROVE  node'[i].said \in {0, node'[i].last}
        <3>1. Ingest(e)
            BY <2>4 DEF Intake
        <3>2. CASE ~Known(i)
            BY <1>1, <2>1, <2>4, <3>1, <3>2, IngestTimes
        <3>3. CASE Known(i)
            <4>1. e.at = now
                BY <2>1, <2>4 DEF OnTime
            <4>2. node'[i].last = Later(node[i].last, e.at) /\ node'[i].said = e.at
                BY <1>1, <2>1, <2>4, <3>1, <3>3, IngestTimes
            <4>3. node[i].last \in Nat /\ node[i].last <= now
                BY <1>1, <2>1
            <4>4. Later(node[i].last, now) = now
                BY <1>1, <4>3 DEF Later
            <4>. QED BY <4>1, <4>2, <4>4
        <3>. QED BY <3>2, <3>3
    <2>5. CASE Crash
        BY <2>1, <2>5 DEF Crash, NoNode
    <2>6. CASE UNCHANGED <<stored, graphVars>>
        BY <1>3, <2>2, <2>6 DEF graphVars
    <2>. QED BY <1>3, <2>3, <2>4, <2>5, <2>6 DEF GraphStep
<1>. QED BY <1>2, <1>3 DEF NowInv, CurrentUnlessLate

LEMMA InvHolds == Spec => []IInv
<1>1. Init => IInv
    BY FabricAssumption, InitInv
<1>2. IInv /\ [Next]_vars => IInv'
    <2>. SUFFICES ASSUME IInv, [Next]_vars PROVE IInv'
        OBVIOUS
    <2>1. GraphStep /\ FeedStep
        BY FabricAssumption, NextIsGraphStep, NextFeeds
    <2>. QED BY <2>1, FabricAssumption, StepKeepsTypes, StepKeepsFeeds, StepKeepsGraph, StepKeepsNow DEF IInv
<1>. QED BY <1>1, <1>2, PTL DEF Spec

--------------------------------------------------------------------------------
(* Every variable stays within its type. *)
THEOREM TypeCorrect == Spec => []TypeOK
<1>1. IInv => TypeOK
    BY DEF IInv
<1>. QED BY <1>1, InvHolds, PTL

(* The graph's assets and edges are those of the events it was given,        *)
(* whatever their order and number, and no edge lacks its end.               *)
THEOREM GraphIsComplete == Spec => []GraphIsWhatItSaw
<1>1. IInv => GraphIsWhatItSaw
    BY DEF IInv, GraphInv
<1>. QED BY <1>1, InvHolds, PTL

(* An asset's last_seen_ms is the time of the latest event about it, in      *)
(* whatever order the events came.                                           *)
THEOREM LastSeenIsRight == Spec => []LastSeenIsLatest
<1>1. IInv => LastSeenIsLatest
    BY DEF IInv, GraphInv
<1>. QED BY <1>1, InvHolds, PTL

(* What the graph tells comes from stored events, and what it tells of a     *)
(* tenant and a user from a row of PakShield.                                *)
THEOREM GraphIsProvable == Spec => []GraphHasEvidence
<1>1. ASSUME IInv, NEW t \in Tenants, NEW u \in Users, Linked(<<t, <<"identity", "PAKSHIELD", u>>>>)
      PROVE  \E r \in rows : r.asset = t /\ u \in r.names /\ r.event \in LinkingEvents
    <2>. DEFINE l == <<t, <<"identity", "PAKSHIELD", u>>>>
    <2>1. l \in Pairs
        BY DEF Pairs, Assets, Targets, Identities
    <2>2. PICK e \in stored : l \in Links(e)
        BY <1>1, <2>1 DEF IInv, GraphInv
    <2>3. PICK x \in e.names : l = <<e.asset, TargetOf(e, x)>> /\ e.event \in LinkingEvents
        BY <2>2 DEF Links
    <2>4. e.asset = t /\ TargetOf(e, x) = <<"identity", "PAKSHIELD", u>>
        BY <2>3
    <2>5. e.source = "PAKSHIELD" /\ x = u
        BY <2>4 DEF TargetOf
    <2>6. FromRow(e)
        BY <1>1, <2>2 DEF IInv, FeedInv
    <2>. QED BY <2>3, <2>4, <2>5, <2>6 DEF FromRow
<1>2. IInv => GraphHasEvidence
    BY <1>1 DEF IInv, GraphInv, GraphHasEvidence
<1>. QED BY <1>2, InvHolds, PTL

(* What the graph says of a host or a device is as new as its last_seen_ms,  *)
(* unless the event about it that was handled last was a late one.           *)
THEOREM GraphIsCurrent == Spec => []CurrentUnlessLate
<1>1. IInv => CurrentUnlessLate
    BY DEF IInv, NowInv
<1>. QED BY <1>1, InvHolds, PTL

================================================================================
