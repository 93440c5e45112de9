------------------------- MODULE IsolationSandboxProofs ------------------------
(***************************************************************************)
(* Theorems about IsolationSandbox, for any addresses, scores, thresholds   *)
(* and ages.  The inductive invariant adds to the properties that an        *)
(* announced isolation is visible in the status until the session is        *)
(* forgotten.                                                               *)
(***************************************************************************)
EXTENDS IsolationSandbox, TLAPS

(* The isolation of a session is announced only when it ends up isolated,    *)
(* and only pruning, which forgets the announcement, leads out of isolated   *)
(* and released.                                                             *)
AnnouncedIsIsolated ==
    \A a \in Addresses :
        /\ announced[a] <= 1
        /\ announced[a] = 1 => status[a] \in {"isolated", "released"}

SandboxInv ==
    /\ TypeOK
    /\ AnnouncedIsIsolated
    /\ ThresholdsAreActedOn

--------------------------------------------------------------------------------
(* What one event does to the session it is charged to. *)

(* The points an event adds are a natural number. *)
LEMMA PointsAreNatural ==
    ASSUME TypeOK, NEW a \in Addresses, NEW s \in Nat, NEW j \in Nat
    PROVE  ScoreAfter(a, s, j) \in Nat
<1>1. j * s \in Nat
    OBVIOUS
<1>2. score[a] \in Nat
    BY DEF TypeOK
<1>. QED BY <1>1, <1>2 DEF ScoreAfter

(* A session which no handler isolates or makes suspicious ends below the    *)
(* threshold of the status it keeps: the last handler has seen all points.   *)
LEMMA LastHandlerDecides ==
    ASSUME SandboxAssumption, TypeOK, NEW a \in Addresses, NEW s \in Nat,
           handlers > 0, ~shadow, ~Isolates(a, s)
    PROVE  /\ Registered(a) = "suspicious" => ScoreAfter(a, s, handlers) < IsolateAt
           /\ TurnsSuspicious(a, s) => ScoreAfter(a, s, handlers) < IsolateAt
           /\ Registered(a) = "active" /\ ~TurnsSuspicious(a, s)
                => ScoreAfter(a, s, handlers) < SuspiciousAt
<1>. DEFINE total == ScoreAfter(a, s, handlers)
<1>1. handlers \in Nat
    BY DEF TypeOK
<1>2. total \in Nat
    BY <1>1, PointsAreNatural
<1>3. handlers \in 1 .. handlers
    BY <1>1
<1>4. Registered(a) \in {"active", "suspicious"} => total < IsolateAt
    BY <1>2 DEF Isolates, SandboxAssumption
<1>5. Registered(a) = "active" /\ ~TurnsSuspicious(a, s) => total < SuspiciousAt
    <2>1. ASSUME Registered(a) = "active", ~TurnsSuspicious(a, s)
          PROVE  total \notin SuspiciousAt .. IsolateAt - 1
        BY <2>1, <1>3 DEF TurnsSuspicious
    <2>. QED BY <2>1, <1>2, <1>4 DEF SandboxAssumption
<1>. QED BY <1>4, <1>5 DEF TurnsSuspicious

--------------------------------------------------------------------------------
(* The steps. *)

LEMMA ChargeKeepsInv ==
    ASSUME SandboxAssumption, SandboxInv, NEW a \in Addresses, NEW s \in Nat,
           Charge(a, s)
    PROVE  SandboxInv'
<1>. USE DEF SandboxInv
<1>1. /\ handlers \in Nat
      /\ ScoreAfter(a, s, handlers) \in Nat
    BY PointsAreNatural DEF TypeOK
<1>2. Registered(a) \in Status
    BY DEF Registered, TypeOK, Status
<1>3. TypeOK'
    <2>0. shadow' \in BOOLEAN
        BY DEF Charge, TypeOK
    <2>1. running' \in BOOLEAN /\ handlers' \in Nat /\ score' \in [Addresses -> Nat]
        BY <1>1 DEF Charge, TypeOK
    <2>2. status' \in [Addresses -> Status]
        BY <1>2 DEF Charge, TypeOK, Status
    <2>3. age' \in [Addresses -> 0 .. MaxAge + 1]
        BY DEF Charge, TypeOK, AgeAfter, SandboxAssumption
    <2>4. blocked' \subseteq Addresses /\ announced' \in [Addresses -> Nat]
        BY DEF Charge, TypeOK
    <2>. QED BY <2>0, <2>1, <2>2, <2>3, <2>4 DEF TypeOK
<1>4. AnnouncedIsIsolated'
    <2>. SUFFICES ASSUME NEW b \in Addresses
         PROVE  /\ announced'[b] <= 1
                /\ announced'[b] = 1 => status'[b] \in {"isolated", "released"}
        BY DEF AnnouncedIsIsolated
    <2>1. CASE b # a
        BY <2>1 DEF Charge, TypeOK, AnnouncedIsIsolated
    <2>2. CASE b = a /\ Isolates(a, s)
        <3>1. status[a] \notin {"isolated", "released"}
            BY <2>2 DEF Isolates, Registered
        <3>2. announced[a] = 0
            BY <3>1 DEF AnnouncedIsIsolated, TypeOK
        <3>3. announced'[a] = 1 /\ status'[a] = "isolated"
            BY <2>2, <3>2 DEF Charge, TypeOK
        <3>. QED BY <2>2, <3>3
    <2>3. CASE b = a /\ ~Isolates(a, s)
        <3>1. announced'[a] = announced[a]
            BY <2>3 DEF Charge, TypeOK
        <3>2. ASSUME status[a] \in {"isolated", "released"}
              PROVE  status'[a] = status[a]
            BY <2>3, <3>2 DEF Charge, TypeOK, TurnsSuspicious, Registered
        <3>. QED BY <2>3, <3>1, <3>2 DEF AnnouncedIsIsolated
    <2>. QED BY <2>1, <2>2, <2>3
<1>5. ThresholdsAreActedOn'
    <2>. SUFFICES ASSUME ~shadow', NEW b \in Addresses
         PROVE  /\ status'[b] = "active" => score'[b] < SuspiciousAt
                /\ status'[b] = "suspicious" => score'[b] < IsolateAt
        BY DEF ThresholdsAreActedOn
    <2>1. CASE b # a
        BY <2>1 DEF Charge, TypeOK, ThresholdsAreActedOn
    <2>2. CASE b = a /\ Isolates(a, s)
        BY <2>2 DEF Charge, TypeOK
    <2>3. CASE b = a /\ ~Isolates(a, s)
        <3>1. score'[a] = ScoreAfter(a, s, handlers)
            BY DEF Charge, TypeOK
        <3>2. status'[a] = IF TurnsSuspicious(a, s) THEN "suspicious" ELSE Registered(a)
            BY <2>3 DEF Charge, TypeOK
        <3>3. handlers > 0 /\ ~shadow
            BY DEF Charge
        <3>. QED BY <2>3, <3>1, <3>2, <3>3, LastHandlerDecides
    <2>. QED BY <2>1, <2>2, <2>3
<1>. QED BY <1>3, <1>4, <1>5

LEMMA PruneKeepsInv ==
    ASSUME SandboxAssumption, SandboxInv, Prune
    PROVE  SandboxInv'
<1>. USE DEF SandboxInv
<1>1. TypeOK'
    BY DEF Prune, TypeOK, Status, SandboxAssumption
<1>2. AnnouncedIsIsolated'
    BY DEF Prune, TypeOK, AnnouncedIsIsolated
<1>3. ThresholdsAreActedOn'
    BY DEF Prune, TypeOK, ThresholdsAreActedOn
<1>. QED BY <1>1, <1>2, <1>3

LEMMA TickKeepsInv ==
    ASSUME SandboxAssumption, SandboxInv, Tick
    PROVE  SandboxInv'
<1>. USE DEF SandboxInv
<1>1. \A n \in Nat : n \div 2 \in Nat /\ n \div 2 <= n
    OBVIOUS
<1>2. \A a \in Addresses : Older(a) \in 0 .. MaxAge + 1
    BY DEF Older, TypeOK, SandboxAssumption
<1>3. TypeOK'
    <2>1. score' \in [Addresses -> Nat]
        BY <1>1 DEF Tick, TypeOK
    <2>2. age' \in [Addresses -> 0 .. MaxAge + 1]
        BY <1>2 DEF Tick
    <2>. QED BY <2>1, <2>2 DEF Tick, TypeOK
<1>4. AnnouncedIsIsolated'
    BY DEF Tick, AnnouncedIsIsolated
<1>5. ThresholdsAreActedOn'
    <2>. SUFFICES ASSUME ~shadow', NEW a \in Addresses
         PROVE  /\ status'[a] = "active" => score'[a] < SuspiciousAt
                /\ status'[a] = "suspicious" => score'[a] < IsolateAt
        BY DEF ThresholdsAreActedOn
    <2>1. score'[a] \in Nat /\ score[a] \in Nat /\ score'[a] <= score[a]
        BY <1>1 DEF Tick, TypeOK
    <2>2. status'[a] = status[a]
        BY DEF Tick
    <2>3. ~shadow
        BY DEF Tick
    <2>. QED BY <2>1, <2>2, <2>3 DEF ThresholdsAreActedOn, SandboxAssumption
<1>. QED BY <1>3, <1>4, <1>5

LEMMA InitInv ==
    ASSUME SandboxAssumption, Init
    PROVE  SandboxInv
<1>1. TypeOK
    <2>1. 0 \in 0 .. MaxAge + 1
        BY DEF SandboxAssumption
    <2>2. age \in [Addresses -> 0 .. MaxAge + 1]
        BY <2>1 DEF Init
    <2>3. score \in [Addresses -> Nat] /\ announced \in [Addresses -> Nat]
        BY DEF Init
    <2>. QED BY <2>2, <2>3 DEF Init, TypeOK, Status
<1>2. AnnouncedIsIsolated
    BY DEF Init, AnnouncedIsIsolated
<1>3. ThresholdsAreActedOn
    BY DEF Init, ThresholdsAreActedOn
<1>. QED BY <1>1, <1>2, <1>3 DEF SandboxInv

LEMMA NextKeepsInv ==
    ASSUME SandboxAssumption, SandboxInv, [Next]_vars
    PROVE  SandboxInv'
<1>1. CASE Start
    BY <1>1 DEF Start, SandboxInv, TypeOK, AnnouncedIsIsolated, ThresholdsAreActedOn
<1>2. CASE Stop
    BY <1>2 DEF Stop, SandboxInv, TypeOK, AnnouncedIsIsolated, ThresholdsAreActedOn
<1>3. ASSUME NEW ip \in IPs, NEW s \in Scores, OnThreat(ip, s)
      PROVE  SandboxInv'
    <2>1. ip \in Addresses /\ s \in Nat
        BY DEF Addresses, SandboxAssumption
    <2>. QED BY <1>3, <2>1, ChargeKeepsInv DEF OnThreat
<1>4. CASE OnIdsAlert
    <2>1. NoAddress \in Addresses /\ AlertScore \in Nat
        BY DEF Addresses, SandboxAssumption
    <2>. QED BY <1>4, <2>1, ChargeKeepsInv DEF OnIdsAlert
<1>5. ASSUME NEW a \in Addresses, Release(a)
      PROVE  SandboxInv'
    BY <1>5 DEF Release, SandboxInv, TypeOK, Status, AnnouncedIsIsolated,
                ThresholdsAreActedOn
<1>6. CASE Prune
    BY <1>6, PruneKeepsInv
<1>7. CASE Tick
    BY <1>7, TickKeepsInv
<1>8. CASE UNCHANGED vars
    BY <1>8 DEF vars, SandboxInv, TypeOK, AnnouncedIsIsolated, ThresholdsAreActedOn
<1>. QED BY <1>1, <1>2, <1>3, <1>4, <1>5, <1>6, <1>7, <1>8 DEF Next

--------------------------------------------------------------------------------
(* The theorems. *)

(* The inductive invariant holds in every behaviour.                         *)
THEOREM SandboxInvariance == Spec => []SandboxInv
<1>1. Init => SandboxInv
    BY SandboxAssumption, InitInv
<1>2. SandboxInv /\ [Next]_vars => SandboxInv'
    BY SandboxAssumption, NextKeepsInv
<1>. QED BY <1>1, <1>2, PTL DEF Spec

(* The variables keep their types.                                           *)
THEOREM SandboxTypes == Spec => []TypeOK
BY SandboxInvariance, PTL DEF SandboxInv

(* Where isolation is enforced, no session rests above the threshold its     *)
(* status stands for, whatever the events are worth and however often the    *)
(* handlers are subscribed (report_threat).                                  *)
THEOREM ThresholdsHold == Spec => []ThresholdsAreActedOn
BY SandboxInvariance, PTL DEF SandboxInv

(* One session is isolated at most once, also after the engine has been      *)
(* started again and its handlers run twice (_isolate_session).              *)
THEOREM SessionsIsolatedOnce == Spec => []IsolatedOnce
<1>1. SandboxInv => IsolatedOnce
    BY DEF SandboxInv, AnnouncedIsIsolated, IsolatedOnce
<1>. QED BY <1>1, SandboxInvariance, PTL

================================================================================
