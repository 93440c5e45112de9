------------------------- MODULE AdaptiveThresholdProofs -----------------------
(***************************************************************************)
(* Theorems about AdaptiveThreshold, for any delay of the recovery, any     *)
(* velocity limits and any values of the operator.  The three properties    *)
(* are inductive together.                                                  *)
(***************************************************************************)
EXTENDS AdaptiveThreshold, TLAPS

ThresholdInv ==
    /\ TypeOK
    /\ SensitiveForAReason
    /\ LastEmergencyRecovers

--------------------------------------------------------------------------------
(* The tuning never goes below where it was, except to a tier.               *)
LEMMA TunedIsUpOrTier ==
    ASSUME TypeOK
    PROVE  /\ Tuned \in 0 .. Normal
           /\ Tuned >= High \/ (Tuned = TwoMore /\ Tuned > threshold)
<1>1. threshold \in Nat
    BY DEF TypeOK, Certain
<1>2. CASE HighAttack
    BY <1>2 DEF Tuned, High, Normal
<1>3. CASE ~HighAttack /\ ElevatedActivity
    BY <1>3 DEF Tuned, High, Elevated, Normal
<1>4. CASE ~HighAttack /\ ~ElevatedActivity
    BY <1>1, <1>4 DEF Tuned, TwoMore, High, Normal, Cent
<1>. QED BY <1>2, <1>3, <1>4

(* An operator's value ends up between 0 and 1. *)
LEMMA ClampedInRange ==
    ASSUME NEW v \in Int
    PROVE  Clamped(v) \in 0 .. Certain
BY DEF Clamped, Certain

LEMMA AdaptKeepsInv ==
    ASSUME ThresholdInv, Adapt
    PROVE  ThresholdInv'
<1>. USE DEF ThresholdInv
<1>1. threshold \in Nat /\ threshold' \in 0 .. Certain
    BY TunedIsUpOrTier DEF Adapt, TypeOK, Certain, Normal
<1>2. due' \in BOOLEAN
    BY DEF Adapt
<1>3. manual' \in BOOLEAN
    BY DEF Adapt, TypeOK
<1>4. TypeOK'
    BY <1>1, <1>2, <1>3 DEF Adapt, TypeOK
<1>5. SensitiveForAReason'
    <2>. SUFFICES ASSUME threshold' < High PROVE recoveries' # {} \/ manual'
        BY DEF SensitiveForAReason
    <2>1. Tuned \in 0 .. Normal
        BY TunedIsUpOrTier
    <2>2. CASE ~WorthChanging(Tuned)
        <3>1. threshold' = threshold
            BY <2>2 DEF Adapt
        <3>2. manual' = manual
            BY <2>2 DEF Adapt, TypeOK
        <3>. QED BY <3>1, <3>2 DEF SensitiveForAReason, Adapt
    <2>3. CASE WorthChanging(Tuned)
        <3>1. threshold' = Tuned
            BY <2>3 DEF Adapt
        <3>2. Tuned = TwoMore /\ threshold < High
            BY <1>1, <2>1, <3>1, TunedIsUpOrTier DEF High
        <3>3. manual' = manual
            BY <3>2 DEF Adapt, TypeOK
        <3>. QED BY <3>2, <3>3 DEF SensitiveForAReason, Adapt
    <2>. QED BY <2>2, <2>3
<1>6. LastEmergencyRecovers'
    BY DEF Adapt, LastEmergencyRecovers
<1>. QED BY <1>4, <1>5, <1>6

LEMMA AttackKeepsInv ==
    ASSUME ThresholdAssumption, ThresholdInv, NEW new \in BOOLEAN, AttackEvent(new)
    PROVE  ThresholdInv'
<1>. USE DEF ThresholdInv
<1>1. events' \in 0 .. HighCount
    BY DEF AttackEvent, OneMore, TypeOK, ThresholdAssumption
<1>2. fresh' \in 0 .. HighFresh
    BY DEF AttackEvent, OneMore, TypeOK, ThresholdAssumption
<1>3. TypeOK'
    BY <1>1, <1>2 DEF AttackEvent, TypeOK
<1>4. SensitiveForAReason' /\ LastEmergencyRecovers'
    BY DEF AttackEvent, SensitiveForAReason, LastEmergencyRecovers
<1>. QED BY <1>3, <1>4

LEMMA ExhaustionKeepsInv ==
    ASSUME ThresholdAssumption, ThresholdInv, TableExhaustion
    PROVE  ThresholdInv'
<1>. USE DEF ThresholdInv
<1>1. EmergencyTicks \in 0 .. EmergencyTicks
    BY DEF ThresholdAssumption
<1>2. TypeOK'
    <2>1. recoveries' \subseteq 0 .. EmergencyTicks
        BY <1>1 DEF TableExhaustion, Scheduled, TypeOK
    <2>2. threshold' \in 0 .. Certain
        BY DEF TableExhaustion, Emergency, Certain
    <2>3. warned' \in BOOLEAN /\ manual' \in BOOLEAN /\ due' \in BOOLEAN
        BY DEF TableExhaustion, TypeOK
    <2>4. emergency' \in 0 .. EmergencyTicks
        BY <1>1 DEF TableExhaustion
    <2>. QED BY <2>1, <2>2, <2>3, <2>4 DEF TableExhaustion, TypeOK
<1>3. EmergencyTicks \in recoveries' /\ emergency' = EmergencyTicks
    BY DEF TableExhaustion, Scheduled
<1>. QED BY <1>2, <1>3 DEF SensitiveForAReason, LastEmergencyRecovers

LEMMA RecoverKeepsInv ==
    ASSUME ThresholdInv, Recover
    PROVE  ThresholdInv'
<1>. USE DEF ThresholdInv
<1>1. threshold' = Normal
    BY DEF Recover, Restored
<1>2. TypeOK'
    <2>1. threshold' \in 0 .. Certain
        BY <1>1 DEF Normal, Certain
    <2>2. manual' \in BOOLEAN
        BY DEF Recover
    <2>3. recoveries' \subseteq 0 .. EmergencyTicks
        BY DEF Recover, TypeOK
    <2>. QED BY <2>1, <2>2, <2>3 DEF Recover, Restored, TypeOK
<1>3. SensitiveForAReason'
    BY <1>1 DEF SensitiveForAReason, Normal, High
<1>4. LastEmergencyRecovers'
    BY DEF Recover, LastEmergencyRecovers, TypeOK
<1>. QED BY <1>2, <1>3, <1>4

LEMMA TickKeepsInv ==
    ASSUME ThresholdAssumption, ThresholdInv, Tick
    PROVE  ThresholdInv'
<1>. USE DEF ThresholdInv
<1>1. EmergencyTicks \in Nat /\ HighCount \in Nat /\ HighFresh \in Nat
    BY DEF ThresholdAssumption
<1>2. \A r \in recoveries : r \in 1 .. EmergencyTicks /\ r - 1 \in recoveries'
    BY <1>1 DEF Tick, TypeOK
<1>3. recoveries' \subseteq 0 .. EmergencyTicks
    BY <1>1, <1>2 DEF Tick
<1>4. emergency' \in 0 .. EmergencyTicks
    BY <1>1 DEF Tick, TypeOK
<1>5. TypeOK'
    <2>1. due' \in BOOLEAN /\ warned' \in BOOLEAN
        BY DEF Tick
    <2>2. events' \in 0 .. HighCount /\ fresh' \in 0 .. HighFresh
        BY <1>1 DEF Tick
    <2>. QED BY <1>3, <1>4, <2>1, <2>2 DEF Tick, TypeOK
<1>6. SensitiveForAReason'
    <2>1. recoveries # {} => recoveries' # {}
        BY <1>2
    <2>2. threshold' = threshold /\ manual' = manual
        BY DEF Tick
    <2>. QED BY <2>1, <2>2 DEF SensitiveForAReason
<1>7. LastEmergencyRecovers'
    <2>. SUFFICES ASSUME emergency' > 0 PROVE emergency' \in recoveries'
        BY DEF LastEmergencyRecovers
    <2>1. emergency > 0 /\ emergency' = emergency - 1
        BY DEF Tick, TypeOK
    <2>2. emergency \in recoveries
        BY <2>1 DEF LastEmergencyRecovers
    <2>. QED BY <1>2, <2>1, <2>2
<1>. QED BY <1>5, <1>6, <1>7

LEMMA OperatorKeepsInv ==
    ASSUME ThresholdAssumption, ThresholdInv, NEW v \in OperatorValues,
           SetConfidenceThreshold(v)
    PROVE  ThresholdInv'
<1>. USE DEF ThresholdInv
<1>1. threshold' \in 0 .. Certain
    BY ClampedInRange DEF SetConfidenceThreshold, ThresholdAssumption
<1>2. TypeOK'
    <2>1. manual' \in BOOLEAN
        BY DEF SetConfidenceThreshold
    <2>. QED BY <1>1, <2>1 DEF SetConfidenceThreshold, TypeOK
<1>3. SensitiveForAReason' /\ LastEmergencyRecovers'
    BY DEF SetConfidenceThreshold, SensitiveForAReason, LastEmergencyRecovers
<1>. QED BY <1>2, <1>3

--------------------------------------------------------------------------------
LEMMA ThresholdInit ==
    ASSUME ThresholdAssumption, Init
    PROVE  ThresholdInv
<1>1. 0 \in 0 .. HighCount /\ 0 \in 0 .. HighFresh /\ 0 \in 0 .. EmergencyTicks
    BY DEF ThresholdAssumption
<1>2. TypeOK
    <2>1. threshold \in 0 .. Certain /\ baseline \in {Normal, Emergency}
        BY DEF Init, Normal, Certain
    <2>2. due \in BOOLEAN /\ warned \in BOOLEAN /\ manual \in BOOLEAN
        BY DEF Init
    <2>. QED BY <1>1, <2>1, <2>2 DEF Init, TypeOK
<1>3. SensitiveForAReason /\ LastEmergencyRecovers
    BY DEF Init, SensitiveForAReason, LastEmergencyRecovers, Normal, High
<1>. QED BY <1>2, <1>3 DEF ThresholdInv

LEMMA ThresholdNext ==
    ASSUME ThresholdAssumption, ThresholdInv, [Next]_vars
    PROVE  ThresholdInv'
<1>1. CASE Adapt
    BY <1>1, AdaptKeepsInv
<1>2. CASE Recover
    BY <1>2, RecoverKeepsInv
<1>3. CASE Tick
    BY <1>3, TickKeepsInv
<1>4. ASSUME NEW new \in BOOLEAN, AttackEvent(new)
      PROVE  ThresholdInv'
    BY <1>4, AttackKeepsInv
<1>5. CASE TableExhaustion
    BY <1>5, ExhaustionKeepsInv
<1>6. ASSUME NEW v \in OperatorValues, SetConfidenceThreshold(v)
      PROVE  ThresholdInv'
    BY <1>6, OperatorKeepsInv
<1>7. CASE UNCHANGED vars
    BY <1>7 DEF vars, ThresholdInv, TypeOK, SensitiveForAReason, LastEmergencyRecovers
<1>. QED BY <1>1, <1>2, <1>3, <1>4, <1>5, <1>6, <1>7 DEF Next, Disturbance

(* The inductive invariant holds in every behaviour.                         *)
THEOREM ThresholdInvariance == Spec => []ThresholdInv
<1>1. Init => ThresholdInv
    BY ThresholdAssumption, ThresholdInit
<1>2. ThresholdInv /\ [Next]_vars => ThresholdInv'
    BY ThresholdAssumption, ThresholdNext
<1>. QED BY <1>1, <1>2, PTL DEF Spec

(* The threshold stays between 0 and 1, whatever the operator asks for, and  *)
(* the other variables keep their types.                                     *)
THEOREM ThresholdTypes == Spec => []TypeOK
BY ThresholdInvariance, PTL DEF ThresholdInv

(* The sensitivity of an emergency never outlasts its recoveries.            *)
THEOREM EmergencySensitivity == Spec => []SensitiveForAReason
BY ThresholdInvariance, PTL DEF ThresholdInv

(* The recovery that ends the last emergency is never lost.                  *)
THEOREM RecoveryIsPending == Spec => []LastEmergencyRecovers
BY ThresholdInvariance, PTL DEF ThresholdInv

================================================================================
