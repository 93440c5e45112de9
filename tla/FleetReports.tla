------------------------------ MODULE FleetReports -----------------------------
(***************************************************************************)
(* Probes in the field and the agent registry of their base station.       *)
(*                                                                         *)
(* A probe keeps its threat reports in memory and in a file.  Once a cycle *)
(* it sends a report with its latest threat reports, whether or not it has *)
(* sent them before, and takes no notice of the answer.  The base drops    *)
(* those it has already and keeps a limited number.  The threat reports of *)
(* a probe are numbered in the order in which it generated them; the code  *)
(* gives them random ids.                                                  *)
(*                                                                         *)
(* A request may get lost, and one that the probe has given up may still    *)
(* reach the base, through the proxies it is sent by, after the next one.  *)
(* Both sides may restart, and their files may be unreadable or full.      *)
(***************************************************************************)
EXTENDS Naturals, SequencesExt

CONSTANTS
    Agents,       \* the probes
    Window,       \* threat reports in one message (20)
    ProbeKeep,    \* threat reports a probe keeps (100)
    BaseKeep,     \* threat reports the base keeps of a probe (50)
    MaxLate,      \* a request may still arrive when so many newer ones are sent
    Faults,       \* subset of {"save", "read"}
    MaxReports,   \* bound: threat reports a probe generates
    MaxCount      \* bound: up to here reports are counted

ASSUME FleetAssumption ==
    /\ Window \in Nat \ {0}
    /\ BaseKeep \in Nat /\ Window <= BaseKeep
    /\ ProbeKeep \in Nat /\ Window <= ProbeKeep
    /\ MaxLate \in Nat
    /\ Faults \subseteq {"save", "read"}
    /\ MaxReports \in Nat
    /\ MaxCount \in Nat

VARIABLES
    made,        \* the number of threat reports a probe has generated
    reports,     \* _threat_reports of the probe
    file,        \* its threat_reports.json
    wire,        \* its last requests, newest last, or Gone if no longer on the way
    fleet,       \* the agents of the base: FleetStore._data
    disk,        \* its fleet.json
    pinned,      \* FLEET_KEY is set in the base's environment
    keyed,       \* the base has the key the probes sign with
    stale,       \* history: probes that started from a file without their newest report
    acked        \* history: reports answered with ok since disk was last lost

probeVars == <<made, reports, file, stale>>
baseVars  == <<fleet, disk, keyed, acked>>
vars      == <<probeVars, wire, baseVars, pinned>>

(* The last n elements of s: Python's s[-n:]. *)
Latest(s, n) == IF Len(s) <= n THEN s ELSE SubSeq(s, Len(s) - n + 1, Len(s))

OneMore(n) == IF n < MaxCount THEN n + 1 ELSE n

(* latest_threat_reports. *)
Sendable(a) == Latest(reports[a], Window)

Slots    == 1 .. MaxLate + 1
Ids      == 1 .. MaxReports
Lists(n) == UNION {[1 .. k -> Ids] : k \in 0 .. n}
Request  == [kind : {"register", "report"}, window : Lists(Window)]
Entry    == [known : BOOLEAN, count : 0 .. MaxCount, filed : Lists(BaseKeep)]

Gone         == [kind |-> "none", window |-> <<>>]
Registration == [kind |-> "register", window |-> <<>>]
Report(w)    == [kind |-> "report", window |-> w]

(* No entry in the store. *)
Unknown == [known |-> FALSE, count |-> 0, filed |-> <<>>]

TypeOK ==
    /\ made \in [Agents -> 0 .. MaxReports]
    /\ \A a \in Agents :
            /\ reports[a] \in Lists(ProbeKeep)
            /\ file[a] \in Lists(ProbeKeep)
            /\ wire[a] \in [Slots -> Request \cup {Gone}]
            /\ fleet[a] \in Entry
            /\ disk[a] \in Entry
    /\ pinned \in BOOLEAN
    /\ keyed \in BOOLEAN
    /\ stale \subseteq Agents
    /\ acked \in [Agents -> 0 .. MaxCount]

Init ==
    /\ made = [a \in Agents |-> 0]
    /\ reports = [a \in Agents |-> <<>>]
    /\ file = [a \in Agents |-> <<>>]
    /\ wire = [a \in Agents |-> [i \in Slots |-> Gone]]
    /\ fleet = [a \in Agents |-> Unknown]
    /\ disk = [a \in Agents |-> Unknown]
    /\ pinned \in BOOLEAN
    /\ keyed = TRUE
    /\ stale = {}
    /\ acked = [a \in Agents |-> 0]

--------------------------------------------------------------------------------
(* The probe. *)

(* A request is sent.  The one sent MaxLate + 1 cycles ago can no longer be   *)
(* on its way, since a cycle is a minute and the timeouts of client, proxies *)
(* and base are seconds: if it has not been handled by now, it is lost, or   *)
(* was refused (too many from one address, too long, not read to its end).   *)
Sent(a, m) == wire' = [wire EXCEPT ![a] = [i \in Slots |-> IF i <= MaxLate THEN @[i + 1] ELSE m]]

(* The process starts, again or for the first time: it loads its file, or    *)
(* starts with nothing if it cannot be read, and registers.                  *)
ProbeStart(a) ==
    /\ \/ /\ reports' = [reports EXCEPT ![a] = file[a]]
          /\ stale' = IF file[a] = <<>> \/ made[a] \in Range(file[a])
                      THEN stale ELSE stale \cup {a}
       \/ /\ "read" \in Faults
          /\ reports' = [reports EXCEPT ![a] = <<>>]
          /\ UNCHANGED stale
    /\ Sent(a, Registration)
    /\ UNCHANGED <<made, file, baseVars, pinned>>

(* learn: a threat report is generated, because there are threats or because *)
(* ten cycles are over, and saved together with the others; a failing save   *)
(* is logged.                                                                *)
Generate(a) ==
    LET kept == Latest(Append(reports[a], made[a] + 1), ProbeKeep) IN
    /\ made[a] < MaxReports
    /\ made' = [made EXCEPT ![a] = @ + 1]
    /\ reports' = [reports EXCEPT ![a] = kept]
    /\ \/ file' = [file EXCEPT ![a] = kept]
       \/ "save" \in Faults /\ UNCHANGED file
    /\ UNCHANGED stale

(* Mutant: only the threat report of this cycle is sent. *)
CycleOfNews(a) ==
    /\ \/ Generate(a) /\ Sent(a, Report(<<made'[a]>>))
       \/ UNCHANGED probeVars /\ Sent(a, Report(<<>>))
    /\ UNCHANGED <<baseVars, pinned>>

(* A cycle of agent_loop: build_report runs the ReAct cycle, phone_home      *)
(* sends what there is, new or not.                                          *)
Cycle(a) ==
    /\ Generate(a) \/ UNCHANGED probeVars
    /\ Sent(a, Report(Latest(reports'[a], Window)))
    /\ UNCHANGED <<baseVars, pinned>>

(* The ReAct cycle raises: the report is sent without threat reports.        *)
CycleWithoutReAct(a) ==
    /\ Sent(a, Report(<<>>))
    /\ UNCHANGED <<probeVars, baseVars, pinned>>

--------------------------------------------------------------------------------
(* The base station. *)

(* The request leaves the wire. *)
Taken(a, i) == wire' = [wire EXCEPT ![a] = [@ EXCEPT ![i] = Gone]]

(* register_agent: of an entry that exists only the time of its first        *)
(* registration, the number of reports, the last report and the label stay.  *)
Registered(e) == [known |-> TRUE, count |-> e.count, filed |-> <<>>]

(* Mutant: the base keeps as many as one message has. *)
FileOneOfWindow(filed, r) ==
    IF r \in Range(filed) THEN filed ELSE Latest(Append(filed, r), Window)

(* Mutant: the limit drops the newest. *)
FileOneIfRoom(filed, r) ==
    IF r \in Range(filed) \/ Len(filed) = BaseKeep THEN filed ELSE Append(filed, r)

(* One threat report of a message, in the loop of accept_report.             *)
FileOne(filed, r) ==
    IF r \in Range(filed) THEN filed ELSE Latest(Append(filed, r), BaseKeep)

(* accept_report, for an entry that exists. *)
Accepted(e, window) ==
    LET filed[i \in 0 .. Len(window)] ==
            IF i = 0 THEN e.filed ELSE FileOne(filed[i - 1], window[i])
    IN  [known |-> TRUE, count |-> OneMore(e.count), filed |-> filed[Len(window)]]

(* An agent that the base does not know is registered before its report is   *)
(* accepted.                                                                 *)
Ensured(e) == IF e.known THEN e ELSE Registered(e)

(* _save writes the whole store.  When it raises, the old file stays, and    *)
(* what is in memory stays changed.                                          *)
Saved == disk' = fleet' \/ ("save" \in Faults /\ UNCHANGED disk)

RegisterAgent(a, i) ==
    /\ keyed
    /\ wire[a][i].kind = "register"
    /\ fleet' = [fleet EXCEPT ![a] = Registered(@)]
    /\ Saved
    /\ Taken(a, i)
    /\ UNCHANGED <<probeVars, keyed, acked, pinned>>

(* Mutant: a failing save is logged and the report acknowledged. *)
AcceptReportUnsaved(a, i) ==
    /\ keyed
    /\ wire[a][i].kind = "report"
    /\ fleet' = [fleet EXCEPT ![a] = Accepted(Ensured(@), wire[a][i].window)]
    /\ Saved
    /\ acked' = [acked EXCEPT ![a] = OneMore(@)]
    /\ Taken(a, i)
    /\ UNCHANGED <<probeVars, keyed, pinned>>

(* A report is accepted, saved and acknowledged. *)
AcceptReport(a, i) ==
    /\ keyed
    /\ wire[a][i].kind = "report"
    /\ fleet' = [fleet EXCEPT ![a] = Accepted(Ensured(@), wire[a][i].window)]
    /\ disk' = fleet'
    /\ acked' = [acked EXCEPT ![a] = OneMore(@)]
    /\ Taken(a, i)
    /\ UNCHANGED <<probeVars, keyed, pinned>>

(* A save raises on the way, that of the registration or that of the report, *)
(* and the probe gets no answer.                                             *)
RejectReport(a, i) ==
    /\ "save" \in Faults
    /\ keyed
    /\ wire[a][i].kind = "report"
    /\ \/ /\ ~fleet[a].known
          /\ fleet' = [fleet EXCEPT ![a] = Registered(@)]
          /\ UNCHANGED disk
       \/ /\ fleet' = [fleet EXCEPT ![a] = Accepted(Ensured(@), wire[a][i].window)]
          /\ \/ fleet[a].known /\ UNCHANGED disk
             \/ ~fleet[a].known /\ disk' = [fleet EXCEPT ![a] = Registered(@)]
    /\ Taken(a, i)
    /\ UNCHANGED <<probeVars, keyed, acked, pinned>>

(* The base starts again and loads its file.  If it cannot be read, it       *)
(* starts with an empty store and saves that one at once, under the key of   *)
(* the environment or a new one.                                             *)
BaseRestart ==
    /\ \/ fleet' = disk /\ UNCHANGED <<disk, keyed, acked>>
       \/ /\ "read" \in Faults
          /\ fleet' = [a \in Agents |-> Unknown]
          /\ disk' = fleet'
          /\ keyed' = pinned
          /\ acked' = [a \in Agents |-> 0]
    /\ UNCHANGED <<probeVars, wire, pinned>>

Arrive(a) ==
    \E i \in Slots :
        RegisterAgent(a, i) \/ AcceptReport(a, i) \/ RejectReport(a, i)

Next ==
    \/ \E a \in Agents : ProbeStart(a) \/ Cycle(a) \/ CycleWithoutReAct(a) \/ Arrive(a)
    \/ BaseRestart

Spec == Init /\ [][Next]_vars

(* A report that brings threat reports gets through. *)
Through(a) ==
    \E i \in Slots : wire[a][i].window # <<>> /\ AcceptReport(a, i)

(* A probe that runs keeps sending, and now and then a request gets through. *)
FairSpec == Spec /\ \A a \in Agents : WF_vars(Cycle(a)) /\ SF_vars(Through(a))

--------------------------------------------------------------------------------
(* Properties. *)

(* A report that was acknowledged is in the file: no restart of the base     *)
(* forgets it unless the file cannot be read (accept_report saves before the *)
(* answer is sent; _fleet_report, _load).                                    *)
AckedIsSaved == \A a \in Agents : acked[a] <= disk[a].count

(* When a report has been accepted, the base has all the threat reports of   *)
(* its message: filing the later ones never pushes out the earlier ones,     *)
(* also when messages have overtaken one another (accept_report).            *)
WindowArrives ==
    [][\A a \in Agents \ stale : \A i \in Slots :
            AcceptReport(a, i) =>
                Range(wire[a][i].window) \subseteq Range(fleet'[a].filed)]_vars

(* What the base has and the probe is still going to send stays at the base  *)
(* until the agent registers again or the base restarts, so that dropping    *)
(* known threat reports really works: the base's limit and the probe's agree *)
(* (accept_report against latest_threat_reports).                            *)
ResentIsKept ==
    [][\A a \in Agents \ stale : \A r \in Range(fleet[a].filed) \cap Range(Sendable(a)) :
            \/ r \in Range(fleet'[a].filed)
            \/ r \notin Range(Sendable(a)')
            \/ fleet'[a].filed = <<>>
            \/ BaseRestart]_vars

(* However many requests are lost or overtaken and however often both sides  *)
(* restart, again and again there is a moment at which the base has all that *)
(* the probe would send, unless the base has lost its key (agent_loop,       *)
(* phone_home, accept_report).                                               *)
BaseCatchesUp ==
    \A a \in Agents :
        []<>(~keyed \/ Range(Sendable(a)) \subseteq Range(fleet[a].filed))

================================================================================
