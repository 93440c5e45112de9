---------------------------- MODULE IsolationSandbox ---------------------------
(***************************************************************************)
(* The isolation sandbox: threat scores per source address, collected from *)
(* the event bus, decaying with time, and the session life cycle they      *)
(* drive.  A handler of the sandbox does not suspend between its reading   *)
(* of the score and the change of the status, so each event is one action. *)
(*                                                                         *)
(* The score of a session is the decayed sum of its contributions.  They   *)
(* all decay at the same rate, so the sum is kept instead of the list; a   *)
(* tick is one half-life, and fractions of a point are dropped.            *)
(***************************************************************************)
EXTENDS Naturals

CONSTANTS
    IPs,            \* the source addresses that appear on the event bus
    NoAddress,      \* "0.0.0.0", charged when an event names no source
    IpsTakesCall,   \* whether block_ip accepts the arguments it is called with;
                    \* IntrusionPreventionSystem does not
    Scores,         \* the scores events carry
    AlertScore,     \* the score of an alert without a severity (10)
    SuspiciousAt,   \* SUSPICIOUS_THRESHOLD (40)
    IsolateAt,      \* ISOLATION_THRESHOLD (70)
    MaxAge,         \* _MAX_SESSION_AGE_SECS in ticks (12)
    MaxScore,       \* bound: the sum of a session
    MaxStarts       \* bound: calls of start

ASSUME SandboxAssumption ==
    /\ NoAddress \notin IPs
    /\ IpsTakesCall \in BOOLEAN
    /\ Scores \subseteq Nat
    /\ AlertScore \in Nat
    /\ SuspiciousAt \in Nat \ {0}
    /\ IsolateAt \in Nat
    /\ SuspiciousAt < IsolateAt
    /\ MaxAge \in Nat
    /\ MaxScore \in Nat
    /\ MaxStarts \in Nat

VARIABLES
    shadow,       \* shadow_mode, read from the configuration once
    running,      \* _running: the prune loop is alive
    handlers,     \* how often each handler is subscribed
    status,       \* status of the session of an address, "none" without one
    score,        \* effective_score() before it is capped at 100
    age,          \* ticks since isolated_at or, before that, created_at
    blocked,      \* addresses for which block_ip was accepted
    announced     \* sandbox.session.isolated events of the session

vars == <<shadow, running, handlers, status, score, age, blocked, announced>>

Addresses == IPs \cup {NoAddress}
Status    == {"none", "active", "suspicious", "isolated", "released"}

TypeOK ==
    /\ shadow \in BOOLEAN
    /\ running \in BOOLEAN
    /\ handlers \in Nat
    /\ status \in [Addresses -> Status]
    /\ score \in [Addresses -> Nat]
    /\ age \in [Addresses -> 0 .. MaxAge + 1]
    /\ blocked \subseteq Addresses
    /\ announced \in [Addresses -> Nat]

Init ==
    /\ shadow \in BOOLEAN
    /\ running = FALSE
    /\ handlers = 0
    /\ status = [a \in Addresses |-> "none"]
    /\ score = [a \in Addresses |-> 0]
    /\ age = [a \in Addresses |-> 0]
    /\ blocked = {}
    /\ announced = [a \in Addresses |-> 0]

(* start subscribes again; stop cancels the prune loop and leaves the        *)
(* subscriptions.                                                            *)
Start ==
    /\ handlers < MaxStarts
    /\ running' = TRUE
    /\ handlers' = handlers + 1
    /\ UNCHANGED <<shadow, status, score, age, blocked, announced>>

Stop ==
    /\ running
    /\ running' = FALSE
    /\ UNCHANGED <<shadow, handlers, status, score, age, blocked, announced>>

--------------------------------------------------------------------------------
(* The handlers of an event, each a call of report_threat. *)

(* The session an address has once it has been registered. *)
Registered(a) == IF status[a] = "none" THEN "active" ELSE status[a]

(* The score after the first j handlers of an event of s points. *)
ScoreAfter(a, s, j) == score[a] + j * s

(* Mutant: an isolated session is isolated again by the next event. *)
IsolatesAgain(a, s) ==
    /\ ~shadow
    /\ Registered(a) # "released"
    /\ ScoreAfter(a, s, handlers) >= IsolateAt

(* Mutant: the lower threshold is tested first. *)
IsolatesSecond(a, s) ==
    /\ ~shadow
    /\ Registered(a) = "suspicious"
    /\ ScoreAfter(a, s, handlers) >= IsolateAt

(* One of the handlers finds the session over the isolation threshold. *)
Isolates(a, s) ==
    /\ ~shadow
    /\ Registered(a) \in {"active", "suspicious"}
    /\ ScoreAfter(a, s, handlers) >= IsolateAt

(* One of them finds it over the lower threshold, but not over the upper. *)
TurnsSuspicious(a, s) ==
    /\ Registered(a) = "active"
    /\ \E j \in 1 .. handlers : ScoreAfter(a, s, j) \in SuspiciousAt .. IsolateAt - 1

(* Mutant: every event restarts the time after which a session is pruned. *)
AgeAfterEvent(a, s) == 0

(* The time since isolated_at, which the event may set. *)
AgeAfter(a, s) == IF Isolates(a, s) THEN 0 ELSE age[a]

(* All subscribed handlers of an event charge its points to an address. *)
Charge(a, s) ==
    /\ handlers > 0
    /\ ScoreAfter(a, s, handlers) <= MaxScore
    /\ score' = [score EXCEPT ![a] = ScoreAfter(a, s, handlers)]
    /\ status' = [status EXCEPT ![a] =
            IF Isolates(a, s) THEN "isolated"
            ELSE IF TurnsSuspicious(a, s) THEN "suspicious"
            ELSE Registered(a)]
    /\ age' = [age EXCEPT ![a] = AgeAfter(a, s)]
    /\ announced' = [announced EXCEPT ![a] = IF Isolates(a, s) THEN @ + 1 ELSE @]
    /\ blocked' = IF Isolates(a, s) /\ IpsTakesCall THEN blocked \cup {a} ELSE blocked
    /\ UNCHANGED <<shadow, running, handlers>>

(* A threat of the MCP parser, a flag or block of the dual-pass evaluator or *)
(* a detection of the Smart Firewall.                                        *)
OnThreat(ip, s) == Charge(ip, s)

(* on_ids_alert looks for source_ip and severity beside the alert the event  *)
(* carries, not in it, and finds neither.                                    *)
OnIdsAlert == Charge(NoAddress, AlertScore)

--------------------------------------------------------------------------------
(* release_session, of whatever status the session has. *)
Release(a) ==
    /\ status[a] # "none"
    /\ status' = [status EXCEPT ![a] = "released"]
    /\ UNCHANGED <<shadow, running, handlers, score, age, blocked, announced>>

Stale(a) == status[a] \in {"isolated", "released"} /\ age[a] > MaxAge

(* _prune_stale_sessions: forgets the session; the blocklist is not asked.   *)
Prune ==
    /\ running
    /\ \E a \in Addresses : Stale(a)
    /\ status' = [a \in Addresses |-> IF Stale(a) THEN "none" ELSE status[a]]
    /\ score' = [a \in Addresses |-> IF Stale(a) THEN 0 ELSE score[a]]
    /\ age' = [a \in Addresses |-> IF Stale(a) THEN 0 ELSE age[a]]
    /\ announced' = [a \in Addresses |-> IF Stale(a) THEN 0 ELSE announced[a]]
    /\ UNCHANGED <<shadow, running, handlers, blocked>>

(* The age of a session one tick later; all ages over MaxAge are alike.      *)
Older(a) == IF status[a] = "none" \/ age[a] > MaxAge THEN age[a] ELSE age[a] + 1

(* A half-life passes. *)
Tick ==
    /\ score' = [a \in Addresses |-> score[a] \div 2]
    /\ age' = [a \in Addresses |-> Older(a)]
    /\ UNCHANGED <<shadow, running, handlers, status, blocked, announced>>

Next ==
    \/ Start
    \/ Stop
    \/ \E ip \in IPs, s \in Scores : OnThreat(ip, s)
    \/ OnIdsAlert
    \/ \E a \in Addresses : Release(a)
    \/ Prune
    \/ Tick

Spec == Init /\ [][Next]_vars

(* Time passes, and the event loop runs the prune loop every two minutes. *)
FairSpec == Spec /\ WF_vars(Tick) /\ WF_vars(Prune)

--------------------------------------------------------------------------------
(* Properties. *)

(* Where isolation is enforced, no session below a threshold's status has    *)
(* reached the threshold: every event is weighed when it arrives and scores  *)
(* only decay in between, and one event that takes a session past both       *)
(* thresholds isolates it (report_threat).  In shadow mode such an event     *)
(* leaves the session active.                                                *)
ThresholdsAreActedOn ==
    ~shadow => \A a \in Addresses :
        /\ status[a] = "active" => score[a] < SuspiciousAt
        /\ status[a] = "suspicious" => score[a] < IsolateAt

(* A session is isolated, and its isolation announced, once: later events,   *)
(* the second subscription of an engine that was started again, and the      *)
(* release of the session do not isolate it again (_isolate_session).        *)
IsolatedOnce == \A a \in Addresses : announced[a] <= 1

(* An isolated session does not stay for ever while the engine runs, however *)
(* many events its address keeps causing (_prune_stale_sessions).            *)
IsolatedIsForgotten ==
    \A a \in Addresses : status[a] = "isolated" ~> (status[a] # "isolated" \/ ~running)

(* "ISOLATED - cumulative score >= ISOLATION_THRESHOLD (70); TCP severed,    *)
(* synthetic payload generated, forensic log written" (the module's          *)
(* docstring).                                                               *)
IsolatedIsSevered == \A a \in Addresses : status[a] = "isolated" => a \in blocked

================================================================================
