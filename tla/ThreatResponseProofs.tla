-------------------------- MODULE ThreatResponseProofs -------------------------
(***************************************************************************)
(* Proofs about ThreatResponse, for every set of addresses, every length   *)
(* of the blocks and of the suppression window, and with or without        *)
(* automatic blocks and storage faults.                                    *)
(***************************************************************************)
EXTENDS ThreatResponse, TLAPS

(* The bookkeeping behind the properties: an allowlisted address counts as   *)
(* one the operator had a say in, and the firewall knows an address for a    *)
(* flooder only from an offence FloodGuard has counted.                      *)
Bookkeeping ==
    /\ allowlist \subseteq overridden
    /\ \A ip \in knownFlood \cup multiVector : offences[ip] > 0

IInv ==
    /\ TypeOK
    /\ Bookkeeping
    /\ AllowlistIsSafe
    /\ ThirdFloodIsPermanent
    /\ MultiVectorIsPermanent
    /\ HistoryIsStored

--------------------------------------------------------------------------------
(* What the operators return. *)

(* Both escalations end within what the IPS can be asked for, and every tier *)
(* is a block.                                                               *)
LEMMA FloodBlockRange ==
    ASSUME NEW n \in Nat
    PROVE  FloodBlock(n) \in Durations
BY BlocklistAssumption, ResponseAssumption DEF FloodBlock, Durations, Permanent

(* The third tier and all after it are permanent. *)
LEMMA ThirdTier ==
    ASSUME NEW n \in Nat, n >= 3
    PROVE  FloodBlock(n) = Permanent
BY DEF FloodBlock

(* A permanent block is a block. *)
LEMMA PermanentIsBlock == Permanent \in Durations /\ Permanent # NotBlocked
BY BlocklistAssumption DEF Permanent, Durations, NotBlocked

(* What the firewall writes for an address is in the range of the blocklist, *)
(* and is never less than what was there: it writes only where there is no   *)
(* block.                                                                    *)
LEMMA ActOnStrengthens ==
    ASSUME TypeOK, NEW S \in SUBSET IPs, ActOn(S)
    PROVE  /\ block' \in [IPs -> 0 .. Permanent]
           /\ \A ip \in IPs : block'[ip] # block[ip] =>
                    /\ ip \notin allowlist
                    /\ ~IsBlocked(ip)
                    /\ ip \in S /\ Acts(ip)
           /\ \A ip \in IPs : block'[ip] >= block[ip]
<1>1. \A ip \in IPs : InjectionBlock(ip) \in Durations
  BY FloodBlockRange DEF TypeOK, InjectionBlock
<1>2. \A ip \in IPs : block[ip] \in 0 .. Permanent
  BY DEF TypeOK, BlocklistTypeOK
<1>3. \A ip \in IPs : block'[ip] # block[ip] =>
            /\ block'[ip] \in Durations
            /\ ip \notin allowlist
            /\ ip \in S /\ Acts(ip)
  BY <1>1, PermanentIsBlock DEF ActOn, AfterBlock, InjectionVerdict
<1>4. block' = [ip \in IPs |-> block'[ip]]
  BY DEF ActOn
<1>5. \A ip \in IPs : block'[ip] \in 0 .. Permanent
  BY <1>2, <1>3 DEF Durations
<1>6. \A ip \in IPs : block'[ip] # block[ip] => ~IsBlocked(ip)
  BY <1>3 DEF Acts
<1>7. \A ip \in IPs : block'[ip] >= block[ip]
  BY <1>2, <1>5, <1>6, BlocklistAssumption DEF IsBlocked, NotBlocked, Permanent
<1>. QED
  BY <1>3, <1>4, <1>5, <1>6, <1>7

(* The time that passes ends no permanent block and starts none.             *)
LEMMA ElapsedRange ==
    ASSUME BlocklistTypeOK
    PROVE  /\ Elapsed \in [IPs -> 0 .. Permanent]
           /\ \A ip \in IPs : block[ip] = Permanent => Elapsed[ip] = Permanent
           /\ \A ip \in IPs : ~IsBlocked(ip) => Elapsed[ip] = NotBlocked
BY BlocklistAssumption DEF BlocklistTypeOK, Elapsed, Permanent, IsBlocked, NotBlocked

(* What is recorded of a batch: both places stay well typed, and they agree  *)
(* on every address for which nothing failed.                                *)
LEMMA SaveKeepsStored ==
    ASSUME TypeOK, HistoryIsStored, NEW n \in [IPs -> Nat], Save(n)
    PROVE  /\ history' \in [IPs -> Nat]
           /\ stored' \in [IPs -> Nat]
           /\ unsaved' \subseteq IPs
           /\ HistoryIsStored'
<1>1. CASE /\ history' = [ip \in IPs |-> history[ip] + n[ip]]
           /\ stored' = [ip \in IPs |-> stored[ip] + n[ip]]
           /\ UNCHANGED unsaved
  BY <1>1 DEF TypeOK, HistoryIsStored
<1>2. CASE /\ \E kept \in [IPs -> 0 .. MaxHistory] :
                /\ \A ip \in IPs : kept[ip] <= n[ip]
                /\ history' = [ip \in IPs |-> history[ip] + kept[ip]]
           /\ unsaved' = unsaved \cup {ip \in IPs : n[ip] > 0}
           /\ UNCHANGED stored
  <2>1. PICK kept \in [IPs -> 0 .. MaxHistory] :
            /\ \A ip \in IPs : kept[ip] <= n[ip]
            /\ history' = [ip \in IPs |-> history[ip] + kept[ip]]
    BY <1>2
  <2>2. history' \in [IPs -> Nat]
    BY <2>1, ResponseAssumption DEF TypeOK
  <2>3. ASSUME NEW ip \in IPs \ unsaved'
        PROVE  history'[ip] = stored'[ip]
    <3>1. ip \notin unsaved /\ n[ip] = 0
      BY <1>2, <2>3
    <3>2. kept[ip] = 0
      BY <2>1, <3>1, ResponseAssumption
    <3>. QED
      BY <1>2, <2>1, <3>1, <3>2 DEF TypeOK, HistoryIsStored
  <2>. QED
    BY <1>2, <2>2, <2>3 DEF TypeOK, HistoryIsStored
<1>. QED
  BY <1>1, <1>2 DEF Save

(* The three facts about blocks, of which only what a step weakens or        *)
(* escalates has to be looked at again.                                      *)
LEMMA StrongerBlocks ==
    ASSUME TypeOK, ThirdFloodIsPermanent, MultiVectorIsPermanent,
           block' \in [IPs -> 0 .. Permanent],
           \A ip \in IPs : block[ip] = Permanent => block'[ip] = Permanent,
           UNCHANGED <<offences, overridden>>
    PROVE  /\ ThirdFloodIsPermanent'
           /\ multiVector' \subseteq multiVector => MultiVectorIsPermanent'
BY DEF TypeOK, ThirdFloodIsPermanent, MultiVectorIsPermanent

--------------------------------------------------------------------------------
(* Each action preserves the invariant. *)

(* The initial state satisfies it. *)
LEMMA InitIInv == Init => IInv
<1>. SUFFICES ASSUME Init PROVE IInv
  OBVIOUS
<1>1. TypeOK
  BY BlocklistAssumption, ResponseAssumption
  DEF Init, BlocklistInit, TypeOK, BlocklistTypeOK, NoneYet, NothingSuppressed, Permanent, NotBlocked
<1>2. Bookkeeping
  BY DEF Init, BlocklistInit, Bookkeeping
<1>3. AllowlistIsSafe
  BY BlocklistAssumption DEF Init, BlocklistInit, AllowlistIsSafe, IsBlocked
<1>4. ThirdFloodIsPermanent /\ MultiVectorIsPermanent /\ HistoryIsStored
  BY DEF Init, NoneYet, ThirdFloodIsPermanent, MultiVectorIsPermanent, HistoryIsStored
<1>. QED
  BY <1>1, <1>2, <1>3, <1>4 DEF IInv

(* _handle_flood: the block it leaves is the tier of the offence, or a       *)
(* permanent one from the firewall.                                          *)
LEMMA HandleFloodStep ==
    ASSUME IInv, NEW ip \in IPs, NEW type \in FloodTypes, HandleFlood(ip, type)
    PROVE  IInv'
<1>. DEFINE asked == IF JoinsByFlood(ip) /\ AutoBlock THEN Permanent ELSE FloodBlock(offences'[ip])
<1>. USE DEF IInv
<1>1. /\ offences' \in [IPs -> Nat]
      /\ offences'[ip] = offences[ip] + 1
      /\ \A other \in IPs \ {ip} : offences'[other] = offences[other]
  BY DEF HandleFlood, TypeOK
<1>2. asked \in Durations
  BY <1>1, FloodBlockRange, PermanentIsBlock
<1>3. /\ block' = [block EXCEPT ![ip] = AfterBlock(ip, asked)]
      /\ UNCHANGED allowlist
  BY DEF HandleFlood, BlockIP
<1>. HIDE DEF asked
<1>4. /\ block' \in [IPs -> 0 .. Permanent]
      /\ ip \notin allowlist => block'[ip] = asked
      /\ ip \in allowlist => block'[ip] = block[ip]
      /\ \A other \in IPs \ {ip} : block'[other] = block[other]
  BY <1>2, <1>3 DEF TypeOK, BlocklistTypeOK, AfterBlock, Durations
<1>5. TypeOK'
  <2>1. suppressed' \in [IPs -> [FloodTypes -> 0 .. SuppressWindow]]
    BY ResponseAssumption DEF HandleFlood, TypeOK
  <2>. QED
    BY <1>1, <1>3, <1>4, <2>1 DEF HandleFlood, TypeOK, BlocklistTypeOK
<1>6. Bookkeeping'
  BY <1>1, <1>3 DEF HandleFlood, Bookkeeping, TypeOK
<1>7. AllowlistIsSafe'
  BY <1>3, <1>4 DEF AllowlistIsSafe, IsBlocked, TypeOK, BlocklistTypeOK
<1>8. ThirdFloodIsPermanent'
  <2>1. ip \notin allowlist /\ offences'[ip] >= 3 => asked = Permanent
    BY <1>1, ThirdTier DEF asked
  <2>2. overridden' = overridden \ ({ip} \ allowlist)
    BY DEF HandleFlood
  <2>. QED
    BY <1>1, <1>4, <2>1, <2>2 DEF ThirdFloodIsPermanent, Bookkeeping
<1>9. MultiVectorIsPermanent'
  <2>1. overridden' = overridden \ ({ip} \ allowlist)
    BY DEF HandleFlood
  <2>2. ASSUME AutoBlock, NEW other \in multiVector' \ overridden', other # ip
        PROVE  block'[other] = Permanent \/ offences'[other] = 2
    <3>1. other \in multiVector \ overridden /\ other \in IPs
      BY <2>1, <2>2 DEF HandleFlood, TypeOK
    <3>. QED
      BY <1>1, <1>4, <2>2, <3>1 DEF MultiVectorIsPermanent
  <2>3. ASSUME AutoBlock, ip \in multiVector' \ overridden'
        PROVE  block'[ip] = Permanent \/ offences'[ip] = 2
    <3>1. CASE ip \in allowlist
      BY <2>1, <2>3, <3>1 DEF Bookkeeping
    <3>2. CASE ip \notin allowlist /\ JoinsByFlood(ip)
      BY <1>4, <2>3, <3>2 DEF asked
    <3>3. CASE ip \notin allowlist /\ ~JoinsByFlood(ip)
      <4>1. ip \in multiVector
        BY <2>3, <3>3 DEF HandleFlood
      <4>2. offences'[ip] >= 2
        BY <1>1, <4>1 DEF Bookkeeping, TypeOK
      <4>3. offences'[ip] >= 3 => asked = Permanent
        BY <1>1, ThirdTier DEF asked
      <4>. QED
        BY <1>1, <1>4, <3>3, <4>2, <4>3
    <3>. QED
      BY <3>1, <3>2, <3>3
  <2>. QED
    BY <2>2, <2>3 DEF MultiVectorIsPermanent
<1>10. HistoryIsStored'
  BY DEF HandleFlood, HistoryIsStored
<1>. QED
  BY <1>5, <1>6, <1>7, <1>8, <1>9, <1>10

(* _act_on_detection followed by _save_detections_to_history, for any batch: *)
(* scan_payload and run_cycle are both of this form.                         *)
LEMMA FirewallStep ==
    ASSUME IInv, NEW S \in SUBSET IPs, NEW n \in [IPs -> Nat], ActOn(S), Save(n),
           pending' \in [IPs -> Nat], UNCHANGED <<floodVars, overridden>>
    PROVE  IInv'
<1>. USE DEF IInv
<1>1. /\ block' \in [IPs -> 0 .. Permanent]
      /\ \A ip \in IPs : block'[ip] # block[ip] =>
            /\ ip \notin allowlist
            /\ ~IsBlocked(ip)
            /\ ip \in S /\ Acts(ip)
  BY ActOnStrengthens
<1>2. /\ history' \in [IPs -> Nat]
      /\ stored' \in [IPs -> Nat]
      /\ unsaved' \subseteq IPs
      /\ HistoryIsStored'
  BY SaveKeepsStored
<1>3. /\ multiVector' = multiVector \cup {ip \in S : JoinsByInjection(ip)}
      /\ UNCHANGED <<allowlist, knownFlood, offences, overridden, suppressed, floodAllowed>>
  BY DEF ActOn, floodVars
<1>4. \A ip \in IPs : block[ip] = Permanent => block'[ip] = Permanent
  BY <1>1, PermanentIsBlock DEF IsBlocked
<1>5. TypeOK'
  BY <1>1, <1>2, <1>3 DEF TypeOK, BlocklistTypeOK
<1>6. Bookkeeping'
  BY <1>3 DEF Bookkeeping, JoinsByInjection
<1>7. AllowlistIsSafe'
  BY <1>1, <1>3 DEF AllowlistIsSafe, IsBlocked, TypeOK, BlocklistTypeOK
<1>8. ThirdFloodIsPermanent'
  BY <1>1, <1>3, <1>4, StrongerBlocks
<1>9. MultiVectorIsPermanent'
  <2>1. ASSUME AutoBlock, NEW ip \in multiVector' \ overridden', ip \in multiVector
        PROVE  block'[ip] = Permanent \/ offences'[ip] = 2
    BY <1>3, <1>4, <2>1 DEF MultiVectorIsPermanent, TypeOK
  <2>2. ASSUME NEW ip \in multiVector' \ overridden', ip \notin multiVector
        PROVE  block'[ip] = Permanent
    <3>1. ip \in S /\ JoinsByInjection(ip) /\ ip \notin allowlist
      BY <1>3, <2>2 DEF Bookkeeping
    <3>2. AfterBlock(ip, InjectionVerdict(ip)) = Permanent
      BY <3>1 DEF AfterBlock, InjectionVerdict
    <3>. QED
      BY <3>1, <3>2 DEF ActOn, JoinsByInjection
  <2>. QED
    BY <2>1, <2>2 DEF MultiVectorIsPermanent
<1>. QED
  BY <1>2, <1>5, <1>6, <1>7, <1>8, <1>9

(* scan_payload *)
LEMMA ScanPayloadStep ==
    ASSUME IInv, NEW ip \in IPs, NEW n \in 1 .. MaxHistory, ScanPayload(ip, n)
    PROVE  IInv'
<1>. DEFINE batch == [a \in IPs |-> IF a = ip THEN n ELSE 0]
<1>1. batch \in [IPs -> Nat]
  BY ResponseAssumption
<1>2. /\ ActOn({ip}) /\ Save(batch)
      /\ pending' = pending
      /\ UNCHANGED <<floodVars, overridden>>
  BY DEF ScanPayload
<1>3. pending' \in [IPs -> Nat]
  BY <1>2 DEF IInv, TypeOK
<1>. QED
  BY <1>1, <1>2, <1>3, FirewallStep

(* run_cycle *)
LEMMA RunCycleStep ==
    ASSUME IInv, RunCycle
    PROVE  IInv'
<1>. DEFINE sources == {ip \in IPs : pending[ip] > 0}
<1>1. /\ ActOn(sources) /\ Save(pending)
      /\ pending' = NoneYet
      /\ UNCHANGED <<floodVars, overridden>>
  BY DEF RunCycle
<1>2. pending' \in [IPs -> Nat] /\ pending \in [IPs -> Nat]
  BY <1>1 DEF IInv, TypeOK, NoneYet
<1>. QED
  BY <1>1, <1>2, FirewallStep

(* _on_ids_alert only queues. *)
LEMMA OnIdsAlertStep ==
    ASSUME IInv, NEW ip \in IPs, NEW n \in 1 .. MaxHistory, OnIdsAlert(ip, n)
    PROVE  IInv'
<1>. USE DEF IInv
<1>1. TypeOK'
  BY ResponseAssumption DEF OnIdsAlert, TypeOK, BlocklistTypeOK, blocklistVars, floodVars
<1>. QED
  BY <1>1 DEF OnIdsAlert, blocklistVars, floodVars, Bookkeeping, AllowlistIsSafe, IsBlocked,
              ThirdFloodIsPermanent, MultiVectorIsPermanent, HistoryIsStored

(* FloodGuard's allowlist has no part in the invariant. *)
LEMMA FloodAllowlistStep ==
    ASSUME IInv, NEW ip \in IPs, FloodAllow(ip) \/ FloodDisallow(ip)
    PROVE  IInv'
<1>. USE DEF IInv
<1>1. TypeOK'
  BY DEF FloodAllow, FloodDisallow, TypeOK, BlocklistTypeOK, blocklistVars, firewallVars
<1>. QED
  BY <1>1 DEF FloodAllow, FloodDisallow, blocklistVars, firewallVars, Bookkeeping,
              AllowlistIsSafe, IsBlocked, ThirdFloodIsPermanent, MultiVectorIsPermanent,
              HistoryIsStored

(* mark_false_positive and clear_history touch the history and the table. *)
LEMMA HistoryStep ==
    ASSUME IInv, NEW ip \in IPs, MarkFalsePositive(ip) \/ ClearHistory(ip)
    PROVE  IInv'
<1>. USE DEF IInv
<1>1. /\ UNCHANGED <<blocklistVars, floodVars, knownFlood, multiVector, pending, overridden>>
      /\ history' \in [IPs -> Nat]
      /\ stored' \in [IPs -> Nat]
      /\ unsaved' \subseteq IPs
  BY DEF MarkFalsePositive, ClearHistory, TypeOK
<1>2. TypeOK'
  BY <1>1 DEF TypeOK, BlocklistTypeOK, blocklistVars, floodVars
<1>3. HistoryIsStored'
  <2>1. CASE MarkFalsePositive(ip)
    BY <2>1 DEF MarkFalsePositive, HistoryIsStored, TypeOK
  <2>2. CASE ClearHistory(ip)
    BY <2>2 DEF ClearHistory, HistoryIsStored, TypeOK
  <2>. QED
    BY <2>1, <2>2
<1>. QED
  BY <1>1, <1>2, <1>3
  DEF blocklistVars, floodVars, Bookkeeping, AllowlistIsSafe, IsBlocked,
      ThirdFloodIsPermanent, MultiVectorIsPermanent

(* Whatever an operator does to an address, it is overridden from then on,   *)
(* and the others keep their entries.                                        *)
LEMMA OperatorStep ==
    ASSUME IInv, NEW ip \in IPs,
           \/ \E duration \in Durations : ManualBlock(ip, duration)
           \/ ManualUnblock(ip)
           \/ Allow(ip)
           \/ Disallow(ip)
    PROVE  IInv'
<1>. USE DEF IInv
<1>1. /\ overridden' = overridden \cup {ip}
      /\ UNCHANGED <<floodVars, firewallVars, unsaved>>
  BY DEF ManualBlock, ManualUnblock, Allow, Disallow, Operator
<1>2. /\ block' \in [IPs -> 0 .. Permanent]
      /\ allowlist' \subseteq IPs
      /\ \A other \in IPs \ {ip} : block'[other] = block[other]
      /\ allowlist' \subseteq allowlist \cup {ip}
      /\ ip \in allowlist' => block'[ip] = NotBlocked
  <2>0. ip \in allowlist => block[ip] = NotBlocked
    BY DEF AllowlistIsSafe, IsBlocked
  <2>1. CASE \E duration \in Durations : ManualBlock(ip, duration)
    BY <2>0, <2>1 DEF ManualBlock, Operator, BlockIP, AfterBlock, Durations, TypeOK, BlocklistTypeOK
  <2>2. CASE ManualUnblock(ip)
    BY <2>0, <2>2, BlocklistAssumption
    DEF ManualUnblock, Operator, UnblockIP, TypeOK, BlocklistTypeOK, NotBlocked, Permanent
  <2>3. CASE Allow(ip)
    BY <2>3, BlocklistAssumption
    DEF Allow, Operator, AddToAllowlist, TypeOK, BlocklistTypeOK, NotBlocked, Permanent
  <2>4. CASE Disallow(ip)
    BY <2>0, <2>4 DEF Disallow, Operator, RemoveFromAllowlist, TypeOK, BlocklistTypeOK
  <2>. QED
    BY <2>1, <2>2, <2>3, <2>4
<1>3. TypeOK'
  BY <1>1, <1>2 DEF TypeOK, BlocklistTypeOK, floodVars, firewallVars
<1>4. Bookkeeping'
  BY <1>1, <1>2 DEF Bookkeeping, floodVars, firewallVars
<1>5. AllowlistIsSafe'
  BY <1>2 DEF AllowlistIsSafe, IsBlocked
<1>6. ThirdFloodIsPermanent' /\ MultiVectorIsPermanent' /\ HistoryIsStored'
  BY <1>1, <1>2
  DEF floodVars, firewallVars, ThirdFloodIsPermanent, MultiVectorIsPermanent, HistoryIsStored, TypeOK
<1>. QED
  BY <1>3, <1>4, <1>5, <1>6

(* Time weakens temporary blocks only. *)
LEMMA TickStep ==
    ASSUME IInv, Tick
    PROVE  IInv'
<1>. USE DEF IInv
<1>1. /\ block' = Elapsed
      /\ UNCHANGED <<allowlist, floodAllowed, offences, knownFlood, multiVector, history, stored,
                     pending, overridden, unsaved>>
  BY DEF Tick, firewallVars
<1>2. /\ block' \in [IPs -> 0 .. Permanent]
      /\ \A ip \in IPs : block[ip] = Permanent => block'[ip] = Permanent
      /\ \A ip \in IPs : ~IsBlocked(ip) => block'[ip] = NotBlocked
  BY <1>1, ElapsedRange DEF TypeOK
<1>3. suppressed' \in [IPs -> [FloodTypes -> 0 .. SuppressWindow]]
  <2>1. ASSUME NEW ip \in IPs, NEW type \in FloodTypes
        PROVE  (IF suppressed[ip][type] = 0 THEN 0 ELSE suppressed[ip][type] - 1) \in 0 .. SuppressWindow
    <3>1. suppressed[ip][type] \in 0 .. SuppressWindow
      BY DEF TypeOK
    <3>. QED
      BY <3>1, ResponseAssumption
  <2>. QED
    BY <2>1 DEF Tick
<1>4. TypeOK'
  BY <1>1, <1>2, <1>3 DEF TypeOK, BlocklistTypeOK
<1>5. Bookkeeping' /\ HistoryIsStored'
  BY <1>1 DEF Bookkeeping, HistoryIsStored
<1>6. AllowlistIsSafe'
  BY <1>1, <1>2 DEF AllowlistIsSafe, IsBlocked, TypeOK, BlocklistTypeOK
<1>7. ThirdFloodIsPermanent' /\ MultiVectorIsPermanent'
  BY <1>1, <1>2, StrongerBlocks
<1>. QED
  BY <1>4, <1>5, <1>6, <1>7

(* A restart leaves what the first start left, and the table. *)
LEMMA RestartStep ==
    ASSUME IInv, Restart
    PROVE  IInv'
<1>. USE DEF IInv
<1>1. /\ history' \in [IPs -> Nat]
      /\ unsaved' \subseteq IPs
      /\ HistoryIsStored'
  <2>1. CASE history' = stored /\ unsaved' = {}
    BY <2>1 DEF Restart, TypeOK, HistoryIsStored
  <2>2. CASE /\ history' \in [IPs -> 0 .. MaxHistory]
             /\ unsaved' = {ip \in IPs : history'[ip] # stored[ip]}
    BY <2>2, ResponseAssumption DEF Restart, TypeOK, HistoryIsStored
  <2>. QED
    BY <2>1, <2>2 DEF Restart
<1>2. TypeOK'
  BY <1>1, BlocklistAssumption, ResponseAssumption
  DEF Restart, TypeOK, BlocklistTypeOK, NoneYet, NothingSuppressed, Permanent, NotBlocked
<1>3. Bookkeeping' /\ AllowlistIsSafe'
  BY BlocklistAssumption DEF Restart, Bookkeeping, AllowlistIsSafe, IsBlocked
<1>4. ThirdFloodIsPermanent' /\ MultiVectorIsPermanent'
  BY DEF Restart, NoneYet, ThirdFloodIsPermanent, MultiVectorIsPermanent
<1>. QED
  BY <1>1, <1>2, <1>3, <1>4

(* A step that changes nothing. *)
LEMMA StutterStep ==
    ASSUME IInv, UNCHANGED vars
    PROVE  IInv'
BY DEF IInv, vars, blocklistVars, floodVars, firewallVars, TypeOK, BlocklistTypeOK, Bookkeeping,
       AllowlistIsSafe, IsBlocked, ThirdFloodIsPermanent, MultiVectorIsPermanent, HistoryIsStored

(* The invariant is inductive. *)
LEMMA NextIInv == IInv /\ [Next]_vars => IInv'
<1>. SUFFICES ASSUME IInv, [Next]_vars PROVE IInv'
  OBVIOUS
<1>1. ASSUME NEW ip \in IPs, NEW type \in FloodTypes, HandleFlood(ip, type) PROVE IInv'
  BY <1>1, HandleFloodStep
<1>2. ASSUME NEW ip \in IPs, NEW n \in 1 .. MaxHistory, ScanPayload(ip, n) PROVE IInv'
  BY <1>2, ScanPayloadStep
<1>3. ASSUME NEW ip \in IPs, NEW n \in 1 .. MaxHistory, OnIdsAlert(ip, n) PROVE IInv'
  BY <1>3, OnIdsAlertStep
<1>4. ASSUME NEW ip \in IPs, FloodAllow(ip) \/ FloodDisallow(ip) PROVE IInv'
  BY <1>4, FloodAllowlistStep
<1>5. ASSUME NEW ip \in IPs, MarkFalsePositive(ip) \/ ClearHistory(ip) PROVE IInv'
  BY <1>5, HistoryStep
<1>6. ASSUME NEW ip \in IPs,
             \/ \E duration \in Durations : ManualBlock(ip, duration)
             \/ ManualUnblock(ip)
             \/ Allow(ip)
             \/ Disallow(ip)
      PROVE  IInv'
  BY <1>6, OperatorStep
<1>7. CASE RunCycle
  BY <1>7, RunCycleStep
<1>8. CASE Tick
  BY <1>8, TickStep
<1>9. CASE Restart
  BY <1>9, RestartStep
<1>10. CASE UNCHANGED vars
  BY <1>10, StutterStep
<1>. QED
  BY <1>1, <1>2, <1>3, <1>4, <1>5, <1>6, <1>7, <1>8, <1>9, <1>10 DEF Next

--------------------------------------------------------------------------------
(* The theorems. *)

(* The inductive invariant holds in every reachable state. *)
THEOREM Invariance == Spec => []IInv
BY InitIInv, NextIInv, PTL DEF Spec

(* Every variable has its type. *)
THEOREM TypeCorrect == Spec => []TypeOK
<1>1. IInv => TypeOK
  BY DEF IInv
<1>. QED
  BY <1>1, Invariance, PTL

(* No allowlisted address is ever blocked. *)
THEOREM AllowlistSafety == Spec => []AllowlistIsSafe
<1>1. IInv => AllowlistIsSafe
  BY DEF IInv
<1>. QED
  BY <1>1, Invariance, PTL

(* From its third offence on a flooder stays blocked for good until an       *)
(* operator has a say.                                                       *)
THEOREM FloodEscalation == Spec => []ThirdFloodIsPermanent
<1>1. IInv => ThirdFloodIsPermanent
  BY DEF IInv
<1>. QED
  BY <1>1, Invariance, PTL

(* A multi-vector address is blocked for good unless its last flood was its  *)
(* second.                                                                   *)
THEOREM MultiVectorEscalation == Spec => []MultiVectorIsPermanent
<1>1. IInv => MultiVectorIsPermanent
  BY DEF IInv
<1>. QED
  BY <1>1, Invariance, PTL

(* Memory and table agree for every address on which no statement failed.    *)
THEOREM HistoryPersistence == Spec => []HistoryIsStored
<1>1. IInv => HistoryIsStored
  BY DEF IInv
<1>. QED
  BY <1>1, Invariance, PTL

(* Only time, the operator, another flood or a restart weakens a block.      *)
THEOREM BlocksAreKept == Spec => BlocksWeakenForAReason
<1>. DEFINE Kept ==
        \A ip \in IPs : block'[ip] < block[ip] =>
            \/ Tick
            \/ Restart
            \/ ip \in overridden'
            \/ offences'[ip] > offences[ip]
<1>1. IInv /\ [Next]_vars => [Kept]_vars
  <2>. SUFFICES ASSUME IInv, Next PROVE Kept
    BY DEF vars
  <2>0. block \in [IPs -> 0 .. Permanent] /\ Permanent \in Nat
    BY BlocklistAssumption DEF IInv, TypeOK, BlocklistTypeOK, Permanent
  <2>1. ASSUME NEW ip \in IPs, NEW type \in FloodTypes, HandleFlood(ip, type) PROVE Kept
    <3>1. offences'[ip] > offences[ip]
      BY <2>1 DEF HandleFlood, IInv, TypeOK
    <3>2. \A other \in IPs \ {ip} : block'[other] = block[other]
      BY <2>0, <2>1 DEF HandleFlood, BlockIP
    <3>. QED
      BY <2>0, <3>1, <3>2
  <2>2. ASSUME NEW ip \in IPs, NEW n \in 1 .. MaxHistory, ScanPayload(ip, n) PROVE Kept
    <3>1. \A a \in IPs : block'[a] >= block[a] /\ block'[a] \in 0 .. Permanent
      BY <2>2, ActOnStrengthens DEF ScanPayload, IInv
    <3>. QED
      BY <2>0, <3>1
  <2>3. CASE RunCycle
    <3>1. \A a \in IPs : block'[a] >= block[a] /\ block'[a] \in 0 .. Permanent
      BY <2>3, ActOnStrengthens DEF RunCycle, IInv
    <3>. QED
      BY <2>0, <3>1
  <2>4. ASSUME NEW ip \in IPs,
               \/ \E duration \in Durations : ManualBlock(ip, duration)
               \/ ManualUnblock(ip)
               \/ Allow(ip)
               \/ Disallow(ip)
        PROVE  Kept
    <3>1. /\ ip \in overridden'
          /\ \A other \in IPs \ {ip} : block'[other] = block[other]
      BY <2>0, <2>4 DEF ManualBlock, ManualUnblock, Allow, Disallow, Operator, BlockIP, UnblockIP,
                        AddToAllowlist, RemoveFromAllowlist
    <3>. QED
      BY <2>0, <3>1
  <2>5. CASE UNCHANGED block
    BY <2>0, <2>5
  <2>6. ASSUME NEW ip \in IPs,
               \/ FloodAllow(ip) \/ FloodDisallow(ip)
               \/ MarkFalsePositive(ip) \/ ClearHistory(ip)
               \/ \E n \in 1 .. MaxHistory : OnIdsAlert(ip, n)
        PROVE  UNCHANGED block
    BY <2>6 DEF FloodAllow, FloodDisallow, MarkFalsePositive, ClearHistory, OnIdsAlert, blocklistVars
  <2>. HIDE DEF Kept
  <2>7. CASE Tick \/ Restart
    BY <2>7 DEF Kept
  <2>. QED
    BY <2>1, <2>2, <2>3, <2>4, <2>5, <2>6, <2>7 DEF Next
<1>. QED
  BY <1>1, Invariance, PTL DEF Spec, BlocksWeakenForAReason

================================================================================
