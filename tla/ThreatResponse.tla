---------------------------- MODULE ThreatResponse -----------------------------
(***************************************************************************)
(* Three authors of blocks on one blocklist: FloodGuard, which escalates   *)
(* with every flood; the Smart Firewall, which escalates with every        *)
(* injection and reacts to the floods FloodGuard announces on the event    *)
(* bus; and the operator.                                                  *)
(*                                                                         *)
(* All of it runs on one event loop.  EventBus.publish awaits its          *)
(* subscribers in turn and none of those of these topics suspends, so each *)
(* action below is one handler with everything it makes others do.         *)
(***************************************************************************)
EXTENDS Blocklist

CONSTANTS
    FloodTypes,       \* syn_flood, udp_flood, icmp_flood, probe_saturation
    SuppressWindow,   \* _suppress_window, in ticks (30 s in the code)
    FirstBlock,       \* block of a first offence, in ticks (1 h)
    SecondBlock,      \* block of a second offence, in ticks (6 h)
    FirewallAllowed,  \* the Smart Firewall's own allowlist, set when it is made
    AutoBlock,        \* auto_block, set when the Smart Firewall is made
    StoreMayFail,     \* whether a SQLite statement may raise
    MaxOffences,      \* bound: floods counted per address
    MaxHistory        \* bound: injections recorded or pending per address

ASSUME ResponseAssumption ==
    /\ SuppressWindow \in Nat \ {0}
    /\ FirstBlock \in Nat \ {0}
    /\ SecondBlock \in Nat
    /\ FirstBlock < SecondBlock
    /\ SecondBlock <= LongestBlock
    /\ FirewallAllowed \subseteq IPs
    /\ AutoBlock \in BOOLEAN
    /\ StoreMayFail \in BOOLEAN
    /\ MaxOffences \in Nat
    /\ MaxHistory \in Nat

VARIABLES
    (* FloodGuard *)
    floodAllowed,  \* _allowlist
    suppressed,    \* _suppressed: the time for which a flood counts as a duplicate
    offences,      \* _offences
    (* Smart Firewall *)
    knownFlood,    \* _known_flood_ips
    multiVector,   \* _multi_vector_ips
    history,       \* length of _ip_history[ip]
    stored,        \* rows of the SQLite table detections, which outlives a restart
    pending,       \* detections in _pending, per source address
    (* history *)
    overridden,    \* addresses an operator had a say in since the last flood
    unsaved        \* addresses for which a SQLite statement failed since the start

floodVars    == <<floodAllowed, suppressed, offences>>
firewallVars == <<knownFlood, multiVector, history, stored, pending>>
vars         == <<blocklistVars, floodVars, firewallVars, overridden, unsaved>>

TypeOK ==
    /\ BlocklistTypeOK
    /\ floodAllowed \subseteq IPs
    /\ suppressed \in [IPs -> [FloodTypes -> 0 .. SuppressWindow]]
    /\ offences \in [IPs -> Nat]
    /\ knownFlood \subseteq IPs
    /\ multiVector \subseteq IPs
    /\ history \in [IPs -> Nat]
    /\ stored \in [IPs -> Nat]
    /\ pending \in [IPs -> Nat]
    /\ overridden \subseteq IPs
    /\ unsaved \subseteq IPs

NoneYet == [ip \in IPs |-> 0]
NothingSuppressed == [ip \in IPs |-> [type \in FloodTypes |-> 0]]

(* A first start, with an empty table. *)
Init ==
    /\ BlocklistInit
    /\ floodAllowed = AllowedAtStart
    /\ suppressed = NothingSuppressed
    /\ offences = NoneYet
    /\ knownFlood = {}
    /\ multiVector = {}
    /\ history = NoneYet
    /\ stored = NoneYet
    /\ pending = NoneYet
    /\ overridden = AllowedAtStart
    /\ unsaved = {}

--------------------------------------------------------------------------------
(* FloodGuard.  Which addresses exceed which threshold is up to the network. *)

FloodBlock(n) ==
    IF n = 1 THEN FirstBlock ELSE IF n = 2 THEN SecondBlock ELSE Permanent

(* _on_flood_detected: the flood is the second vector of this address. *)
JoinsByFlood(ip) ==
    /\ ip \notin FirewallAllowed
    /\ history[ip] > 0
    /\ ip \notin multiVector

(* _handle_flood: count the offence, block, and publish flood.detected, on  *)
(* which the firewall may block once more before the handler goes on.       *)
HandleFlood(ip, type) ==
    /\ ip \notin floodAllowed
    /\ suppressed[ip][type] = 0
    /\ offences[ip] < MaxOffences
    /\ suppressed' = [suppressed EXCEPT ![ip][type] = SuppressWindow]
    /\ offences' = [offences EXCEPT ![ip] = @ + 1]
    /\ BlockIP(ip, IF JoinsByFlood(ip) /\ AutoBlock THEN Permanent ELSE FloodBlock(offences'[ip]))
    /\ knownFlood' = knownFlood \cup ({ip} \ FirewallAllowed)
    /\ multiVector' = IF JoinsByFlood(ip) THEN multiVector \cup {ip} ELSE multiVector
    /\ overridden' = overridden \ ({ip} \ allowlist)
    /\ UNCHANGED <<floodAllowed, history, stored, pending, unsaved>>

FloodAllow(ip) ==
    /\ floodAllowed' = floodAllowed \cup {ip}
    /\ UNCHANGED <<blocklistVars, suppressed, offences, firewallVars, overridden, unsaved>>

FloodDisallow(ip) ==
    /\ ip \in floodAllowed
    /\ floodAllowed' = floodAllowed \ {ip}
    /\ UNCHANGED <<blocklistVars, suppressed, offences, firewallVars, overridden, unsaved>>

--------------------------------------------------------------------------------
(* The Smart Firewall. *)

(* _block_duration, chosen before the offence is recorded. *)
InjectionBlock(ip) == FloodBlock(history[ip] + 1)

(* Mutant: an active block is replaced. *)
ActsOnBlocked(ip) == ip \notin FirewallAllowed /\ AutoBlock

(* _act_on_detection goes on to a block. *)
Acts(ip) ==
    /\ ip \notin FirewallAllowed
    /\ AutoBlock
    /\ ~IsBlocked(ip)

JoinsByInjection(ip) == Acts(ip) /\ ip \in knownFlood /\ ip \notin multiVector

(* Mutant: the second vector is blocked like any injection. *)
InjectionVerdictByTier(ip) == InjectionBlock(ip)

(* How long an injection gets its address blocked. *)
InjectionVerdict(ip) == IF JoinsByInjection(ip) THEN Permanent ELSE InjectionBlock(ip)

(* _act_on_detection on each of the detections from the addresses of S.  The *)
(* ones after the first from an address find it blocked, or are refused by   *)
(* the IPS like the first.                                                   *)
ActOn(S) ==
    /\ block' = [ip \in IPs |->
            IF ip \in S /\ Acts(ip) THEN AfterBlock(ip, InjectionVerdict(ip)) ELSE block[ip]]
    /\ multiVector' = multiVector \cup {ip \in S : JoinsByInjection(ip)}
    /\ UNCHANGED <<allowlist, knownFlood>>

(* Mutant: the detections are only kept in memory. *)
SaveInMemory(n) ==
    /\ history' = [ip \in IPs |-> history[ip] + n[ip]]
    /\ UNCHANGED <<stored, unsaved>>

(* _save_detections_to_history, n[ip] detections from ip.  When a statement  *)
(* raises, the transaction is rolled back, the detections it had reached     *)
(* stay in memory and the others are in neither place.                       *)
Save(n) ==
    \/ /\ history' = [ip \in IPs |-> history[ip] + n[ip]]
       /\ stored' = [ip \in IPs |-> stored[ip] + n[ip]]
       /\ UNCHANGED unsaved
    \/ /\ StoreMayFail
       /\ \E kept \in [IPs -> 0 .. MaxHistory] :
            /\ \A ip \in IPs : kept[ip] <= n[ip]
            /\ history' = [ip \in IPs |-> history[ip] + kept[ip]]
       /\ unsaved' = unsaved \cup {ip \in IPs : n[ip] > 0}
       /\ UNCHANGED stored

(* Bound: what is in memory, in the table or on its way there. *)
Room(ip, n) ==
    /\ history[ip] + pending[ip] + n <= MaxHistory
    /\ stored[ip] + pending[ip] + n <= MaxHistory

(* scan_payload finds n kinds of injection in a payload of ip. *)
ScanPayload(ip, n) ==
    /\ Room(ip, n)
    /\ ActOn({ip})
    /\ Save([a \in IPs |-> IF a = ip THEN n ELSE 0])
    /\ UNCHANGED <<floodVars, pending, overridden>>

(* _on_ids_alert: an alert of the category injection; n kinds are found in it. *)
OnIdsAlert(ip, n) ==
    /\ Room(ip, n)
    /\ pending' = [pending EXCEPT ![ip] = @ + n]
    /\ UNCHANGED <<blocklistVars, floodVars, knownFlood, multiVector, history, stored,
                   overridden, unsaved>>

(* run_cycle: drain the queue, act on every detection, then record them all. *)
RunCycle ==
    /\ \E ip \in IPs : pending[ip] > 0
    /\ ActOn({ip \in IPs : pending[ip] > 0})
    /\ Save(pending)
    /\ pending' = NoneYet
    /\ UNCHANGED <<floodVars, overridden>>

(* mark_false_positive: one entry leaves the history and the table, which    *)
(* need not hold it if an earlier statement failed.                          *)
MarkFalsePositive(ip) ==
    /\ history[ip] > 0
    /\ history' = [history EXCEPT ![ip] = @ - 1]
    /\ \/ /\ stored[ip] > 0
          /\ stored' = [stored EXCEPT ![ip] = @ - 1]
          /\ UNCHANGED unsaved
       \/ /\ ip \in unsaved
          /\ UNCHANGED <<stored, unsaved>>
       \/ /\ StoreMayFail
          /\ unsaved' = unsaved \cup {ip}
          /\ UNCHANGED stored
    /\ UNCHANGED <<blocklistVars, floodVars, knownFlood, multiVector, pending, overridden>>

(* clear_history *)
ClearHistory(ip) ==
    /\ history' = [history EXCEPT ![ip] = 0]
    /\ \/ /\ stored' = [stored EXCEPT ![ip] = 0]
          /\ unsaved' = unsaved \ {ip}
       \/ /\ StoreMayFail
          /\ unsaved' = unsaved \cup {ip}
          /\ UNCHANGED stored
    /\ UNCHANGED <<blocklistVars, floodVars, knownFlood, multiVector, pending, overridden>>

--------------------------------------------------------------------------------
(* The operator: desktop, command line and the IPS's own methods. *)

(* An action of the operator on the blocklist; the agents do not notice. *)
Operator(ip, action) ==
    /\ action
    /\ overridden' = overridden \cup {ip}
    /\ UNCHANGED <<floodVars, firewallVars, unsaved>>

ManualBlock(ip, duration) == Operator(ip, BlockIP(ip, duration))
ManualUnblock(ip)         == Operator(ip, UnblockIP(ip))
Allow(ip)                 == Operator(ip, AddToAllowlist(ip))
Disallow(ip)              == Operator(ip, RemoveFromAllowlist(ip))

--------------------------------------------------------------------------------
(* Time and restarts. *)

Tick ==
    /\ block' = Elapsed
    /\ suppressed' = [ip \in IPs |-> [type \in FloodTypes |->
            IF suppressed[ip][type] = 0 THEN 0 ELSE suppressed[ip][type] - 1]]
    /\ UNCHANGED <<allowlist, floodAllowed, offences, firewallVars, overridden, unsaved>>

(* The process ends and a new one starts.  Only the table outlives it:       *)
(* _load_history reads it, and keeps what it has read when a read fails.     *)
Restart ==
    /\ allowlist' = AllowedAtStart
    /\ block' = [ip \in IPs |-> NotBlocked]
    /\ floodAllowed' = AllowedAtStart
    /\ suppressed' = NothingSuppressed
    /\ offences' = NoneYet
    /\ knownFlood' = {}
    /\ multiVector' = {}
    /\ pending' = NoneYet
    /\ overridden' = AllowedAtStart
    /\ UNCHANGED stored
    /\ \/ /\ history' = stored
          /\ unsaved' = {}
       \/ /\ StoreMayFail
          /\ history' \in [IPs -> 0 .. MaxHistory]
          /\ \A ip \in IPs : history'[ip] <= stored[ip]
          /\ unsaved' = {ip \in IPs : history'[ip] # stored[ip]}

Next ==
    \/ \E ip \in IPs, type \in FloodTypes : HandleFlood(ip, type)
    \/ \E ip \in IPs, n \in 1 .. MaxHistory : ScanPayload(ip, n) \/ OnIdsAlert(ip, n)
    \/ \E ip \in IPs, duration \in Durations : ManualBlock(ip, duration)
    \/ \E ip \in IPs :
            \/ FloodAllow(ip) \/ FloodDisallow(ip)
            \/ MarkFalsePositive(ip) \/ ClearHistory(ip)
            \/ ManualUnblock(ip) \/ Allow(ip) \/ Disallow(ip)
    \/ RunCycle
    \/ Tick
    \/ Restart

Spec == Init /\ [][Next]_vars

--------------------------------------------------------------------------------
(* Properties. *)

(* From the third offence on a flooder is blocked for good, whatever the     *)
(* firewall does with it in between, until an operator has a say: the tiers  *)
(* of FloodGuard and the rule that the firewall leaves an active block alone *)
(* work together (_handle_flood, _act_on_detection).                         *)
ThirdFloodIsPermanent ==
    \A ip \in IPs \ overridden : offences[ip] >= 3 => block[ip] = Permanent

(* An address that the firewall has put down as an attacker on two vectors   *)
(* is blocked for good, except while its last flood was its second, whose    *)
(* tier of six hours replaces the permanent block (_on_flood_detected and    *)
(* _act_on_detection against _handle_flood).                                 *)
MultiVectorIsPermanent ==
    AutoBlock =>
        \A ip \in multiVector \ overridden :
            \/ block[ip] = Permanent
            \/ offences[ip] = 2

(* What the firewall knows of an address is what the next process will load, *)
(* unless SQLite failed on it: the escalation survives a restart             *)
(* (_save_detections_to_history, mark_false_positive, clear_history,         *)
(* _load_history).                                                           *)
HistoryIsStored == \A ip \in IPs \ unsaved : history[ip] = stored[ip]

(* A block becomes weaker only because time passes, an operator has a say,   *)
(* the address floods again or the process restarts; a detected injection    *)
(* never weakens it (_act_on_detection).                                     *)
BlocksWeakenForAReason ==
    [][\A ip \in IPs : block'[ip] < block[ip] =>
            \/ Tick
            \/ Restart
            \/ ip \in overridden'
            \/ offences'[ip] > offences[ip]]_vars

(* The comment on _multi_vector_ips: these addresses "get a permanent block  *)
(* on the second vector regardless of offense count".                        *)
MultiVectorStaysPermanent ==
    [][\A ip \in multiVector : block[ip] = Permanent =>
            \/ block'[ip] = Permanent
            \/ ip \in overridden'
            \/ Restart]_vars

================================================================================
