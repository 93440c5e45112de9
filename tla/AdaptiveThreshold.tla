---------------------------- MODULE AdaptiveThreshold --------------------------
(***************************************************************************)
(* The confidence threshold of the Smart Firewall.  Four writers share it  *)
(* on one event loop: the tuning by attack velocity, the drop on table     *)
(* exhaustion, the recoveries scheduled five minutes after each such drop, *)
(* and the operator.                                                       *)
(*                                                                         *)
(* A tick is a minute: the tuning interval, the velocity window and the    *)
(* time FloodGuard keeps quiet about the table are all 60 seconds.  What   *)
(* happens within a minute happens in any order.                           *)
(*                                                                         *)
(* A confidence is counted in ten-thousandths.  The sum of a double and    *)
(* 0.02 comes out a little high; here it is one unit too high.             *)
(***************************************************************************)
EXTENDS Integers

CONSTANTS
    EmergencyTicks,   \* delay of the recovery (5)
    HighCount,        \* attack events per window of the HIGH-ATTACK tier (20)
    ElevatedCount,    \* and of the ELEVATED tier (10)
    HighFresh,        \* new attackers per window, HIGH-ATTACK (5)
    ElevatedFresh,    \* and ELEVATED (3)
    OperatorValues    \* the values the operator asks for

ASSUME ThresholdAssumption ==
    /\ EmergencyTicks \in Nat \ {0}
    /\ HighCount \in Nat \ {0}
    /\ HighFresh \in Nat \ {0}
    /\ ElevatedCount \in 1 .. HighCount
    /\ ElevatedFresh \in 1 .. HighFresh
    /\ OperatorValues \subseteq Int

VARIABLES
    threshold,     \* _confidence_threshold
    baseline,      \* _adaptive_baseline
    due,           \* the tuning interval has passed
    events,        \* attack events in the window, at most HighCount
    fresh,         \* new attackers in the window, at most HighFresh
    recoveries,    \* time left of each pending _recover_after
    warned,        \* FloodGuard has warned of the table in this minute
    emergency,     \* history: what is left of the last emergency
    manual         \* history: the threshold derives from an operator's value

vars == <<threshold, baseline, due, events, fresh, recoveries, warned, emergency, manual>>

Certain   == 10000
Normal    == 7000      \* 0.70
Elevated  == 6200      \* 0.62
High      == 5500      \* 0.55
Emergency == 5000      \* 0.50
Cent      == 100       \* the smallest change that is made, 0.01

TypeOK ==
    /\ threshold \in 0 .. Certain
    /\ baseline \in {Normal, Emergency}
    /\ due \in BOOLEAN
    /\ events \in 0 .. HighCount
    /\ fresh \in 0 .. HighFresh
    /\ recoveries \subseteq 0 .. EmergencyTicks
    /\ warned \in BOOLEAN
    /\ emergency \in 0 .. EmergencyTicks
    /\ manual \in BOOLEAN

Init ==
    /\ threshold = Normal
    /\ baseline = Normal
    /\ due = FALSE
    /\ events = 0
    /\ fresh = 0
    /\ recoveries = {}
    /\ warned = FALSE
    /\ emergency = 0
    /\ manual = FALSE

--------------------------------------------------------------------------------
(* The tuning. *)

HighAttack == events >= HighCount \/ fresh >= HighFresh

ElevatedActivity == ~HighAttack /\ (events >= ElevatedCount \/ fresh >= ElevatedFresh)

(* threshold + 0.02 in floating point. *)
TwoMore == threshold + 2 * Cent + 1

(* Mutant: a high velocity lowers the threshold by as much as it may. *)
TunedRelative ==
    IF HighAttack THEN (IF threshold >= Normal - High THEN threshold - (Normal - High) ELSE 0)
    ELSE IF ElevatedActivity THEN Elevated
    ELSE IF TwoMore < Normal THEN TwoMore ELSE Normal

(* Mutant: recovery in steps smaller than the smallest change. *)
TunedSlowly ==
    IF HighAttack THEN High
    ELSE IF ElevatedActivity THEN Elevated
    ELSE IF threshold + 50 < Normal THEN threshold + 50 ELSE Normal

(* new_threshold *)
Tuned ==
    IF HighAttack THEN High
    ELSE IF ElevatedActivity THEN Elevated
    ELSE IF TwoMore < Normal THEN TwoMore ELSE Normal

(* abs(new_threshold - threshold) >= 0.01 *)
WorthChanging(new) == new - threshold >= Cent \/ threshold - new >= Cent

(* _adapt_thresholds, called by the loop every few seconds and by the flood  *)
(* handler.                                                                 *)
Adapt ==
    /\ due
    /\ due' = FALSE
    /\ threshold' = IF WorthChanging(Tuned) THEN Tuned ELSE threshold
    /\ manual' = (manual /\ (WorthChanging(Tuned) => Tuned = TwoMore))
    /\ UNCHANGED <<baseline, events, fresh, recoveries, warned, emergency>>

(* One more of what is counted up to a limit. *)
OneMore(n, limit) == IF n < limit THEN n + 1 ELSE n

(* A flood (_on_flood_detected) or an injection (_act_on_detection), new if   *)
(* its source is; the handler of a flood goes on to tune.                    *)
AttackEvent(new) ==
    /\ events' = OneMore(events, HighCount)
    /\ fresh' = IF new THEN OneMore(fresh, HighFresh) ELSE fresh
    /\ UNCHANGED <<threshold, baseline, due, recoveries, warned, emergency, manual>>

--------------------------------------------------------------------------------
(* The emergency mode. *)

(* Mutant: no recovery is scheduled while another is pending. *)
ScheduledOnce == IF recoveries # {} THEN recoveries ELSE {EmergencyTicks}

(* The pending recoveries after another was scheduled. *)
Scheduled == recoveries \cup {EmergencyTicks}

(* _handle_table_exhaustion of FloodGuard and _on_table_exhaustion. *)
TableExhaustion ==
    /\ ~warned
    /\ warned' = TRUE
    /\ threshold' = Emergency
    /\ baseline' = Emergency
    /\ recoveries' = Scheduled
    /\ emergency' = EmergencyTicks
    /\ manual' = FALSE
    /\ UNCHANGED <<due, events, fresh>>

(* What _recover_after restores. *)
Restored ==
    /\ threshold' = Normal
    /\ baseline' = Normal

(* A _recover_after whose delay is over, whatever happened since it was      *)
(* scheduled.                                                               *)
Recover ==
    /\ 0 \in recoveries
    /\ recoveries' = recoveries \ {0}
    /\ Restored
    /\ manual' = FALSE
    /\ UNCHANGED <<due, events, fresh, warned, emergency>>

--------------------------------------------------------------------------------
(* Mutant: the operator's value is taken as it is. *)
Unclamped(v) == v

(* max(0.0, min(1.0, threshold)) *)
Clamped(v) == IF v < 0 THEN 0 ELSE IF v > Certain THEN Certain ELSE v

(* set_confidence_threshold *)
SetConfidenceThreshold(v) ==
    /\ threshold' = Clamped(v)
    /\ manual' = TRUE
    /\ UNCHANGED <<baseline, due, events, fresh, recoveries, warned, emergency>>

(* A minute passes; a recovery that is due runs before it does.              *)
Tick ==
    /\ 0 \notin recoveries
    /\ recoveries' = {r - 1 : r \in recoveries}
    /\ emergency' = IF emergency > 0 THEN emergency - 1 ELSE 0
    /\ due' = TRUE
    /\ warned' = FALSE
    /\ events' = 0
    /\ fresh' = 0
    /\ UNCHANGED <<threshold, baseline, manual>>

Disturbance ==
    \/ \E new \in BOOLEAN : AttackEvent(new)
    \/ TableExhaustion
    \/ \E v \in OperatorValues : SetConfidenceThreshold(v)

Next == Adapt \/ Recover \/ Tick \/ Disturbance

Spec == Init /\ [][Next]_vars

(* Time passes, the firewall's loop keeps tuning, and a sleeping task wakes. *)
FairSpec == Spec /\ WF_vars(Tick) /\ WF_vars(Adapt) /\ WF_vars(Recover)

--------------------------------------------------------------------------------
(* Properties. *)

(* The threshold is below the tier of a high attack only in an emergency     *)
(* whose recovery is still to come, or because the operator said so: the     *)
(* tuning never lets the sensitivity of an emergency outlast its recoveries. *)
SensitiveForAReason ==
    threshold < High => recoveries # {} \/ manual

(* The recovery that ends the last emergency is pending until that emergency *)
(* is over, whatever recoveries of earlier ones have fired in between.       *)
LastEmergencyRecovers == emergency > 0 => emergency \in recoveries

(* When attacks, exhaustions and the operator fall silent for good, the       *)
(* threshold comes back to 0.70, or to within the 0.01 that is no change     *)
(* (RECOVERY in _adapt_thresholds).                                          *)
QuietRecovers ==
    <>[][~Disturbance]_vars => <>[](threshold > Normal - Cent)

================================================================================
