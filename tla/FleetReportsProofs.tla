--------------------------- MODULE FleetReportsProofs --------------------------
(***************************************************************************)
(* Theorems about FleetReports, for any number of probes, any limits and   *)
(* any faults: its types are right, what the base has acknowledged is in   *)
(* its file, and, if the base has room for the messages that may come      *)
(* late, whatever is accepted and may still be sent stays filed.           *)
(*                                                                         *)
(* The loop of accept_report is a recursive function.  That it has values, *)
(* and that what each round preserves holds after the last, is shown by    *)
(* the least number of rounds for which it fails.                          *)
(***************************************************************************)
EXTENDS FleetReports, FiniteSetTheorems, SequenceTheorems, WellFoundedInduction, TLAPS

(* The file is behind memory when a save has failed, never ahead, so that    *)
(* the count the next save writes is no smaller than the one it replaces.    *)
SavedInv ==
    /\ acked \in [Agents -> Nat]
    /\ fleet = [a \in Agents |-> fleet[a]]
    /\ disk = [a \in Agents |-> disk[a]]
    /\ \A a \in Agents :
            /\ fleet[a].count \in Nat
            /\ disk[a].count \in Nat
            /\ acked[a] <= disk[a].count
            /\ disk[a].count <= fleet[a].count

--------------------------------------------------------------------------------
(* Counting one more is monotonic and never loses. *)
LEMMA OneMoreGrows ==
    ASSUME FleetAssumption, NEW n \in Nat
    PROVE  OneMore(n) \in Nat /\ n <= OneMore(n)
BY DEF OneMore, FleetAssumption

LEMMA OneMoreMonotonic ==
    ASSUME FleetAssumption, NEW m \in Nat, NEW n \in Nat, m <= n
    PROVE  OneMore(m) <= OneMore(n)
BY DEF OneMore, FleetAssumption

(* A registration leaves the count of an entry alone, a report adds one. *)
LEMMA RegisteredCount ==
    ASSUME NEW e
    PROVE  Registered(e).count = e.count /\ Ensured(e).count = e.count
BY DEF Registered, Ensured

LEMMA AcceptedCount ==
    ASSUME NEW e, NEW w
    PROVE  Accepted(e, w).count = OneMore(e.count)
BY DEF Accepted

--------------------------------------------------------------------------------
LEMMA InitSavedInv ==
    ASSUME Init
    PROVE  SavedInv
BY DEF Init, SavedInv, Unknown

LEMMA RegisterKeepsSaved ==
    ASSUME SavedInv, NEW a \in Agents, NEW i \in Slots, RegisterAgent(a, i)
    PROVE  SavedInv'
<1>1. fleet' = [fleet EXCEPT ![a] = Registered(@)] /\ acked' = acked
    BY DEF RegisterAgent
<1>2. disk' = fleet' \/ disk' = disk
    BY DEF RegisterAgent, Saved
<1>3. \A b \in Agents : fleet'[b].count = fleet[b].count
    BY <1>1, RegisteredCount DEF SavedInv
<1>. QED BY <1>1, <1>2, <1>3 DEF SavedInv

(* The entries after a report has been accepted. *)
LEMMA AcceptedCounts ==
    ASSUME FleetAssumption, SavedInv, NEW a \in Agents, NEW w,
           fleet' = [fleet EXCEPT ![a] = Accepted(Ensured(@), w)]
    PROVE  /\ fleet'[a].count = OneMore(fleet[a].count)
           /\ \A b \in Agents : fleet'[b].count \in Nat /\ fleet[b].count <= fleet'[b].count
<1>1. fleet'[a] = Accepted(Ensured(fleet[a]), w)
    BY DEF SavedInv
<1>2. fleet'[a].count = OneMore(Ensured(fleet[a]).count)
    BY <1>1, AcceptedCount
<1>3. fleet'[a].count = OneMore(fleet[a].count)
    BY <1>2, RegisteredCount
<1>4. ASSUME NEW b \in Agents, b # a PROVE fleet'[b] = fleet[b]
    BY <1>4 DEF SavedInv
<1>5. ASSUME NEW b \in Agents
      PROVE  fleet'[b].count \in Nat /\ fleet[b].count <= fleet'[b].count
    <2>1. fleet[b].count \in Nat
        BY DEF SavedInv
    <2>. QED BY <1>3, <1>4, <2>1, OneMoreGrows
<1>. QED BY <1>3, <1>5

LEMMA AcceptKeepsSaved ==
    ASSUME FleetAssumption, SavedInv, NEW a \in Agents, NEW i \in Slots, AcceptReport(a, i)
    PROVE  SavedInv'
<1>1. /\ fleet' = [fleet EXCEPT ![a] = Accepted(Ensured(@), wire[a][i].window)]
      /\ disk' = fleet'
      /\ acked' = [acked EXCEPT ![a] = OneMore(@)]
    BY DEF AcceptReport
<1>2. /\ fleet'[a].count = OneMore(fleet[a].count)
      /\ \A b \in Agents : fleet'[b].count \in Nat /\ fleet[b].count <= fleet'[b].count
    BY <1>1, AcceptedCounts
<1>3. acked'[a] = OneMore(acked[a]) /\ \A b \in Agents : b # a => acked'[b] = acked[b]
    BY <1>1 DEF SavedInv
<1>4. \A b \in Agents : acked[b] \in Nat /\ fleet[b].count \in Nat /\ acked[b] <= fleet[b].count
    BY DEF SavedInv
<1>5. OneMore(acked[a]) <= OneMore(fleet[a].count) /\ OneMore(acked[a]) \in Nat
    BY <1>4, OneMoreMonotonic, OneMoreGrows
<1>6. \A b \in Agents : acked'[b] <= disk'[b].count
    BY <1>1, <1>2, <1>3, <1>4, <1>5
<1>7. acked' \in [Agents -> Nat]
    BY <1>1, <1>5 DEF SavedInv
<1>8. fleet' = [b \in Agents |-> fleet'[b]] /\ disk' = [b \in Agents |-> disk'[b]]
    BY <1>1 DEF SavedInv
<1>. QED BY <1>1, <1>2, <1>6, <1>7, <1>8 DEF SavedInv

LEMMA RejectKeepsSaved ==
    ASSUME FleetAssumption, SavedInv, NEW a \in Agents, NEW i \in Slots, RejectReport(a, i)
    PROVE  SavedInv'
<1>1. acked' = acked
    BY DEF RejectReport
<1>2. CASE fleet' = [fleet EXCEPT ![a] = Registered(@)] /\ UNCHANGED disk
    <2>1. \A b \in Agents : fleet'[b].count = fleet[b].count
        BY <1>2, RegisteredCount DEF SavedInv
    <2>. QED BY <1>1, <1>2, <2>1 DEF SavedInv
<1>3. CASE /\ fleet' = [fleet EXCEPT ![a] = Accepted(Ensured(@), wire[a][i].window)]
           /\ UNCHANGED disk \/ disk' = [fleet EXCEPT ![a] = Registered(@)]
    <2>1. \A b \in Agents : fleet'[b].count \in Nat /\ fleet[b].count <= fleet'[b].count
        BY <1>3, AcceptedCounts
    <2>2. fleet' = [b \in Agents |-> fleet'[b]]
        BY <1>3 DEF SavedInv
    <2>3. CASE UNCHANGED disk
        <3>1. \A b \in Agents : disk'[b].count <= fleet'[b].count
            <4>1. \A b \in Agents : /\ disk[b].count \in Nat /\ fleet[b].count \in Nat
                                    /\ disk[b].count <= fleet[b].count
                BY DEF SavedInv
            <4>. QED BY <2>1, <2>3, <4>1
        <3>. QED BY <1>1, <2>1, <2>2, <2>3, <3>1 DEF SavedInv
    <2>4. CASE disk' = [fleet EXCEPT ![a] = Registered(@)]
        <3>1. \A b \in Agents : disk'[b].count = fleet[b].count
            BY <2>4, RegisteredCount DEF SavedInv
        <3>2. disk' = [b \in Agents |-> disk'[b]]
            BY <2>4 DEF SavedInv
        <3>3. \A b \in Agents : acked[b] <= fleet[b].count /\ fleet[b].count \in Nat
            BY DEF SavedInv
        <3>. QED BY <1>1, <2>1, <2>2, <3>1, <3>2, <3>3 DEF SavedInv
    <2>. QED BY <1>3, <2>3, <2>4
<1>. QED BY <1>2, <1>3 DEF RejectReport

LEMMA RestartKeepsSaved ==
    ASSUME SavedInv, BaseRestart
    PROVE  SavedInv'
<1>1. CASE fleet' = disk /\ UNCHANGED <<disk, keyed, acked>>
    BY <1>1 DEF SavedInv
<1>2. CASE /\ fleet' = [a \in Agents |-> Unknown] /\ disk' = fleet'
           /\ acked' = [a \in Agents |-> 0]
    BY <1>2 DEF SavedInv, Unknown
<1>. QED BY <1>1, <1>2 DEF BaseRestart

LEMMA NextKeepsSaved ==
    ASSUME FleetAssumption, SavedInv, [Next]_vars
    PROVE  SavedInv'
<1>1. CASE UNCHANGED baseVars
    BY <1>1 DEF SavedInv, baseVars
<1>2. CASE BaseRestart
    BY <1>2, RestartKeepsSaved
<1>3. ASSUME NEW a \in Agents, ProbeStart(a) \/ Cycle(a) \/ CycleWithoutReAct(a)
      PROVE  SavedInv'
    BY <1>1, <1>3 DEF ProbeStart, Cycle, CycleWithoutReAct
<1>4. ASSUME NEW a \in Agents, Arrive(a)
      PROVE  SavedInv'
    BY <1>4, RegisterKeepsSaved, AcceptKeepsSaved, RejectKeepsSaved DEF Arrive
<1>. QED BY <1>1, <1>2, <1>3, <1>4 DEF Next, vars

(* A report that was acknowledged is in the file, whatever the limits and    *)
(* however often saves fail and the base restarts (accept_report, _save).    *)
THEOREM AckedIsSavedTheorem == Spec => []AckedIsSaved
<1>1. Init => SavedInv
    BY InitSavedInv
<1>2. SavedInv /\ [Next]_vars => SavedInv'
    BY FleetAssumption, NextKeepsSaved
<1>3. SavedInv => AckedIsSaved
    BY DEF SavedInv, AckedIsSaved
<1>. QED BY <1>1, <1>2, <1>3, PTL DEF Spec

--------------------------------------------------------------------------------
(* The lists, and the loop of accept_report. *)

(* A set of natural numbers has a least element. *)
LEMMA NatMin ==
    ASSUME NEW T, T \subseteq Nat, T # {}
    PROVE  \E n \in T : \A m \in T : n <= m
<1>1. IsWellFoundedOn(OpToRel(<, Nat), Nat)
    BY NatLessThanWellFounded
<1>2. PICK n \in T : \A m \in T : ~ (<<m, n>> \in OpToRel(<, Nat))
    BY <1>1, WFMin, Zenon
<1>3. \A m, k \in Nat : m < k => <<m, k>> \in OpToRel(<, Nat)
    BY DEF OpToRel
<1>4. \A m \in T : ~ (m < n)
    BY <1>2, <1>3
<1>. QED BY <1>4

(* A list of at most n reports is a sequence that is no longer than n. *)
LEMMA ListsAre ==
    ASSUME NEW n \in Nat, NEW s
    PROVE  s \in Lists(n) <=> s \in Seq(Ids) /\ Len(s) <= n
<1>1. ASSUME s \in Lists(n) PROVE s \in Seq(Ids) /\ Len(s) <= n
    <2>1. PICK k \in 0 .. n : s \in [1 .. k -> Ids]
        BY <1>1 DEF Lists
    <2>. QED BY <2>1
<1>2. ASSUME s \in Seq(Ids), Len(s) <= n PROVE s \in Lists(n)
    <2>1. Len(s) \in 0 .. n /\ s \in [1 .. Len(s) -> Ids]
        BY <1>2
    <2>. QED BY <2>1 DEF Lists
<1>. QED BY <1>1, <1>2

(* s[-n:] has the last n elements of s, in their order. *)
LEMMA LatestIs ==
    ASSUME NEW S, NEW s \in Seq(S), NEW n \in Nat
    PROVE  /\ Latest(s, n) \in Seq(S)
           /\ Len(Latest(s, n)) = IF Len(s) <= n THEN Len(s) ELSE n
           /\ \A i \in 1 .. Len(Latest(s, n)) :
                    Latest(s, n)[i] = s[Len(s) - Len(Latest(s, n)) + i]
<1>1. CASE Len(s) <= n
    BY <1>1 DEF Latest
<1>2. CASE ~(Len(s) <= n)
    <2>1. Latest(s, n) = SubSeq(s, Len(s) - n + 1, Len(s))
        BY <1>2 DEF Latest
    <2>2. Len(s) \in Nat /\ Len(s) - n + 1 \in 1 .. Len(s) + 1
        BY <1>2
    <2>3. /\ Latest(s, n) \in Seq(S)
          /\ Len(Latest(s, n)) = n
          /\ \A i \in 1 .. n : Latest(s, n)[i] = s[Len(s) - n + 1 + i - 1]
        BY <2>1, <2>2
    <2>. QED BY <2>2, <2>3, <1>2
<1>. QED BY <1>1, <1>2

(* What the loop of accept_report has filed after i of the reports w. *)
Filing(f, w) ==
    LET filed[i \in 0 .. Len(w)] ==
            IF i = 0 THEN f ELSE FileOne(filed[i - 1], w[i])
    IN  filed

(* g is what has been filed after each of the first n rounds. *)
Files(g, f, w, n) ==
    g = [i \in 0 .. n |-> IF i = 0 THEN f ELSE FileOne(g[i - 1], w[i])]

(* Of the numbers of rounds for which there is no such g there is no least. *)
LEMMA FilingExists ==
    ASSUME NEW f, NEW w, NEW n \in Nat
    PROVE  \E g : Files(g, f, w, n)
<1>. USE DEF Files
<1>. DEFINE Ok(k) == \E g : g = [i \in 0 .. k |-> IF i = 0 THEN f ELSE FileOne(g[i - 1], w[i])]
            T == {k \in Nat : ~Ok(k)}
<1>1. SUFFICES ASSUME T # {} PROVE FALSE
    OBVIOUS
<1>2. PICK k \in T : \A m \in T : k <= m
    BY <1>1, NatMin
<1>3. CASE k = 0
    <2>. DEFINE g == [i \in 0 .. 0 |-> f]
    <2>1. g = [i \in 0 .. 0 |-> IF i = 0 THEN f ELSE FileOne(g[i - 1], w[i])]
        OBVIOUS
    <2>. QED BY <2>1, <1>3
<1>4. CASE k # 0
    <2>1. k - 1 \in Nat /\ k \in Nat /\ ~(k <= k - 1)
        BY <1>2, <1>4
    <2>a. k - 1 \notin T
        BY <1>2, <2>1
    <2>2. PICK h : h = [i \in 0 .. k - 1 |-> IF i = 0 THEN f ELSE FileOne(h[i - 1], w[i])]
        BY <2>1, <2>a
    <2>. DEFINE g == [i \in 0 .. k |-> IF i = k THEN FileOne(h[k - 1], w[k]) ELSE h[i]]
    <2>3. \A i \in 0 .. k : g[i] = IF i = 0 THEN f ELSE FileOne(g[i - 1], w[i])
        BY <1>4, <2>1, <2>2
    <2>4. g = [i \in 0 .. k |-> IF i = 0 THEN f ELSE FileOne(g[i - 1], w[i])]
        BY <2>3
    <2>. QED BY <2>4, <1>2
<1>. QED BY <1>3, <1>4

(* So the loop does what each of its rounds does. *)
LEMMA FilingIs ==
    ASSUME NEW f, NEW w, Len(w) \in Nat
    PROVE  /\ Filing(f, w)[0] = f
           /\ \A i \in 1 .. Len(w) : Filing(f, w)[i] = FileOne(Filing(f, w)[i - 1], w[i])
<1>1. Filing(f, w) = CHOOSE g : Files(g, f, w, Len(w))
    BY DEF Filing, Files
<1>2. \E g : Files(g, f, w, Len(w))
    BY FilingExists
<1>3. Files(Filing(f, w), f, w, Len(w))
    BY <1>1, <1>2, Zenon
<1>4. Filing(f, w) = [i \in 0 .. Len(w) |-> IF i = 0 THEN f ELSE FileOne(Filing(f, w)[i - 1], w[i])]
    BY <1>3 DEF Files
<1>. DEFINE g == Filing(f, w)
<1>. HIDE DEF g
<1>5. g = [i \in 0 .. Len(w) |-> IF i = 0 THEN f ELSE FileOne(g[i - 1], w[i])]
    BY <1>4 DEF g
<1>6. g[0] = f /\ \A i \in 1 .. Len(w) : g[i] = FileOne(g[i - 1], w[i])
    BY <1>5
<1>. QED BY <1>6 DEF g

(* Induction along a message: what holds before the first round, and is      *)
(* carried over by each, holds after the last (Good[i]: after i rounds).     *)
LEMMA FilingInduction ==
    ASSUME NEW e, NEW w, Len(w) \in Nat, NEW Good,
           e.filed \in Good[0],
           \A i \in 1 .. Len(w) : \A f \in Good[i - 1] : FileOne(f, w[i]) \in Good[i]
    PROVE  Accepted(e, w).filed \in Good[Len(w)]
<1>. DEFINE g == Filing(e.filed, w)
            T == {i \in 0 .. Len(w) : g[i] \notin Good[i]}
<1>1. Accepted(e, w).filed = g[Len(w)]
    BY DEF Accepted, Filing
<1>2. g[0] = e.filed /\ \A i \in 1 .. Len(w) : g[i] = FileOne(g[i - 1], w[i])
    BY FilingIs
<1>. HIDE DEF g
<1>3. ASSUME T # {} PROVE FALSE
    <2>a. T \subseteq Nat
        OBVIOUS
    <2>1. PICK i \in T : \A j \in T : i <= j
        <3>. HIDE DEF T
        <3>. QED BY <1>3, <2>a, NatMin
    <2>2. i # 0
        BY <2>1, <1>2
    <2>3. i \in 1 .. Len(w) /\ i - 1 \in 0 .. Len(w) /\ i - 1 \notin T
        BY <2>1, <2>2
    <2>4. g[i] \in Good[i]
        BY <2>3, <1>2
    <2>. QED BY <2>1, <2>4
<1>. QED BY <1>1, <1>3

--------------------------------------------------------------------------------
(* What filing keeps. *)

(* How far the threat reports of a message may be behind the newest one when *)
(* it is handled: the others of its window and one for each later message.   *)
Slack == Window + MaxLate - 1

(* The base has room for the late ones: it keeps as many as there are        *)
(* numbers at most Slack before or after a given one.  With the limits of    *)
(* the code, 20 and 50, that is so if a request is handled before the sixth  *)
(* that follows it.  They follow a minute apart, and the timeouts that end   *)
(* it are seconds.                                                           *)
RoomForLate == 2 * Slack + 1 <= BaseKeep

(* The threat reports f the base has filed, when the probe has made n: each  *)
(* once, and later ones at most Slack behind earlier ones.                   *)
NearlyInOrder(f, n) ==
    /\ Len(f) <= BaseKeep
    /\ \A i \in 1 .. Len(f) : f[i] <= n
    /\ \A i, j \in 1 .. Len(f) : i < j => f[i] # f[j] /\ f[i] <= f[j] + Slack

(* A message w whose reports may still be sent when the probe has made n. *)
Timely(w, n) == \A k \in 1 .. Len(w) : w[k] <= n /\ n <= w[k] + Slack

(* A new report goes to the end and may push out the first. *)
LEMMA FileOneIs ==
    ASSUME FleetAssumption, NEW S, NEW f \in Seq(S), Len(f) <= BaseKeep,
           NEW r \in S, r \notin Range(f)
    PROVE  \E c \in {0, 1} :
              /\ c = 1 => Len(f) = BaseKeep
              /\ c = 0 => Len(f) < BaseKeep
              /\ FileOne(f, r) \in Seq(S)
              /\ Len(FileOne(f, r)) = Len(f) + 1 - c
              /\ \A i \in 1 .. Len(f) - c : FileOne(f, r)[i] = f[i + c]
              /\ FileOne(f, r)[Len(f) + 1 - c] = r
<1>. DEFINE t == Append(f, r)
            g == FileOne(f, r)
<1>1. BaseKeep \in Nat \ {0} /\ Len(f) \in Nat
    BY DEF FleetAssumption
<1>2. /\ t \in Seq(S) /\ Len(t) = Len(f) + 1
      /\ \A i \in 1 .. Len(f) : t[i] = f[i]
      /\ t[Len(f) + 1] = r
    OBVIOUS
<1>3. g = Latest(t, BaseKeep)
    BY DEF FileOne
<1>. HIDE DEF t, g
<1>4. /\ g \in Seq(S)
      /\ Len(g) = IF Len(t) <= BaseKeep THEN Len(t) ELSE BaseKeep
      /\ \A i \in 1 .. Len(g) : g[i] = t[Len(t) - Len(g) + i]
    <2>1. /\ Latest(t, BaseKeep) \in Seq(S)
          /\ Len(Latest(t, BaseKeep)) = IF Len(t) <= BaseKeep THEN Len(t) ELSE BaseKeep
          /\ \A i \in 1 .. Len(Latest(t, BaseKeep)) :
                    Latest(t, BaseKeep)[i] = t[Len(t) - Len(Latest(t, BaseKeep)) + i]
        BY <1>1, <1>2, LatestIs
    <2>. QED BY <1>3, <2>1
<1>5. CASE Len(f) < BaseKeep
    <2>1. Len(g) = Len(f) + 1
        BY <1>1, <1>2, <1>4, <1>5
    <2>a. Len(t) - Len(g) = 0
        BY <1>1, <1>2, <2>1
    <2>2. ASSUME NEW i \in 1 .. Len(f) + 1 PROVE g[i] = t[i]
        <3>1. Len(t) - Len(g) + i = i
            BY <1>1, <2>a
        <3>2. g[i] = t[Len(t) - Len(g) + i]
            BY <1>4, <2>1
        <3>. QED BY <3>1, <3>2
    <2>3. \A i \in 1 .. Len(f) - 0 : g[i] = f[i + 0]
        BY <1>1, <1>2, <2>2
    <2>4. g[Len(f) + 1 - 0] = r
        BY <1>1, <1>2, <2>2
    <2>5. Len(g) = Len(f) + 1 - 0
        BY <1>1, <2>1
    <2>. QED BY <1>4, <1>5, <2>3, <2>4, <2>5 DEF g
<1>6. CASE Len(f) = BaseKeep
    <2>1. Len(g) = BaseKeep
        BY <1>1, <1>2, <1>4, <1>6
    <2>2. \A i \in 1 .. BaseKeep : g[i] = t[i + 1]
        BY <1>1, <1>2, <1>4, <1>6, <2>1
    <2>3. \A i \in 1 .. Len(f) - 1 : g[i] = f[i + 1]
        BY <1>1, <1>2, <1>6, <2>2
    <2>4. g[Len(f) + 1 - 1] = r
        BY <1>1, <1>2, <1>6, <2>2
    <2>5. Len(g) = Len(f) + 1 - 1
        BY <1>1, <1>6, <2>1
    <2>. QED BY <1>4, <1>6, <2>3, <2>4, <2>5 DEF g
<1>. QED BY <1>1, <1>5, <1>6

(* The report is then among those that are filed. *)
LEMMA FileOneHas ==
    ASSUME FleetAssumption, NEW S, NEW f \in Seq(S), Len(f) <= BaseKeep, NEW r \in S
    PROVE  /\ FileOne(f, r) \in Seq(S)
           /\ Len(FileOne(f, r)) <= BaseKeep
           /\ r \in Range(FileOne(f, r))
<1>1. CASE r \in Range(f)
    BY <1>1 DEF FileOne
<1>2. CASE r \notin Range(f)
    <2>1. PICK c \in {0, 1} :
              /\ c = 1 => Len(f) = BaseKeep
              /\ c = 0 => Len(f) < BaseKeep
              /\ FileOne(f, r) \in Seq(S)
              /\ Len(FileOne(f, r)) = Len(f) + 1 - c
              /\ FileOne(f, r)[Len(f) + 1 - c] = r
        BY <1>2, FileOneIs
    <2>2. Len(f) + 1 - c \in DOMAIN FileOne(f, r) /\ BaseKeep \in Nat \ {0}
        BY <2>1 DEF FleetAssumption
    <2>. QED BY <2>1, <2>2 DEF Range
<1>. QED BY <1>1, <1>2

(* A timely report keeps the list nearly in order. *)
LEMMA FileOneInOrder ==
    ASSUME FleetAssumption, NEW f \in Seq(Nat), NEW n \in Nat, NearlyInOrder(f, n),
           NEW r \in Nat, r <= n, n <= r + Slack
    PROVE  NearlyInOrder(FileOne(f, r), n)
<1>1. CASE r \in Range(f)
    BY <1>1 DEF FileOne
<1>2. CASE r \notin Range(f)
    <2>. DEFINE g == FileOne(f, r)
    <2>1. Len(f) <= BaseKeep
        BY DEF NearlyInOrder
    <2>2. PICK c \in {0, 1} :
              /\ g \in Seq(Nat)
              /\ Len(g) = Len(f) + 1 - c
              /\ \A i \in 1 .. Len(f) - c : g[i] = f[i + c]
              /\ g[Len(f) + 1 - c] = r
        BY <1>2, <2>1, FileOneIs
    <2>3. Len(g) <= BaseKeep /\ Slack \in Nat
        BY <2>1, FileOneHas DEF Slack, FleetAssumption
    <2>. HIDE DEF g
    <2>4. \A i \in 1 .. Len(f) : f[i] \in Nat /\ f[i] # r
        BY <1>2 DEF Range
    <2>5. \A i \in 1 .. Len(f) - c : i + c \in 1 .. Len(f)
        OBVIOUS
    <2>6. \A i \in 1 .. Len(g) : g[i] <= n
        <3>1. ASSUME NEW i \in 1 .. Len(g) PROVE g[i] <= n
            <4>1. CASE i = Len(f) + 1 - c
                BY <2>2, <4>1
            <4>2. CASE i # Len(f) + 1 - c
                <5>1. i \in 1 .. Len(f) - c
                    BY <2>2, <4>2
                <5>2. i + c \in 1 .. Len(f) /\ g[i] = f[i + c]
                    BY <2>2, <2>5, <5>1
                <5>. QED BY <5>2 DEF NearlyInOrder
            <4>. QED BY <4>1, <4>2
        <3>. QED BY <3>1
    <2>7. ASSUME NEW i \in 1 .. Len(g), NEW j \in 1 .. Len(g), i < j
          PROVE  g[i] # g[j] /\ g[i] <= g[j] + Slack
        <3>1. i \in 1 .. Len(f) - c
            BY <2>2, <2>7
        <3>2. CASE j = Len(f) + 1 - c
            <4>1. g[j] = r /\ g[i] = f[i + c] /\ i + c \in 1 .. Len(f)
                BY <2>2, <2>5, <3>1, <3>2
            <4>2. f[i + c] <= n
                BY <4>1 DEF NearlyInOrder
            <4>. QED BY <2>3, <2>4, <4>1, <4>2
        <3>3. CASE j # Len(f) + 1 - c
            <4>1. j \in 1 .. Len(f) - c
                BY <2>2, <3>3
            <4>2. g[j] = f[j + c] /\ g[i] = f[i + c] /\ i + c \in 1 .. Len(f)
                  /\ j + c \in 1 .. Len(f) /\ i + c < j + c
                <5>1. i + c < j + c
                    BY <2>7
                <5>2. i + c \in 1 .. Len(f) /\ j + c \in 1 .. Len(f)
                    BY <2>5, <3>1, <4>1
                <5>3. g[i] = f[i + c] /\ g[j] = f[j + c]
                    BY <2>2, <3>1, <4>1
                <5>. QED BY <5>1, <5>2, <5>3
            <4>. QED BY <4>2 DEF NearlyInOrder
        <3>. QED BY <3>2, <3>3
    <2>. QED BY <2>3, <2>6, <2>7 DEF NearlyInOrder, g
<1>. QED BY <1>1, <1>2

(* The base has room: if a report that may still be sent were pushed out,    *)
(* too many different ones would have come after it.                         *)
LEMMA FileOneKeepsNew ==
    ASSUME FleetAssumption, RoomForLate,
           NEW f \in Seq(Nat), NEW n \in Nat, NearlyInOrder(f, n),
           NEW r \in Nat, r <= n, n <= r + Slack,
           NEW x \in Range(f), n <= x + Slack
    PROVE  x \in Range(FileOne(f, r))
<1>1. CASE r \in Range(f)
    BY <1>1 DEF FileOne
<1>2. CASE r \notin Range(f)
    <2>1. Len(f) <= BaseKeep /\ Slack \in Nat /\ BaseKeep \in Nat /\ Len(f) \in Nat
        BY DEF NearlyInOrder, Slack, FleetAssumption
    <2>2. PICK c \in {0, 1} :
              /\ c = 1 => Len(f) = BaseKeep
              /\ FileOne(f, r) \in Seq(Nat)
              /\ Len(FileOne(f, r)) = Len(f) + 1 - c
              /\ \A i \in 1 .. Len(f) - c : FileOne(f, r)[i] = f[i + c]
        BY <1>2, <2>1, FileOneIs
    <2>3. PICK k \in 1 .. Len(f) : f[k] = x
        BY DEF Range
    <2>4. CASE k > c
        <3>1. k - c \in 1 .. Len(f) - c /\ k - c + c = k
            BY <2>1, <2>4
        <3>2. k - c \in DOMAIN FileOne(f, r) /\ FileOne(f, r)[k - c] = x
            <4>1. DOMAIN FileOne(f, r) = 1 .. Len(f) + 1 - c
                BY <2>2
            <4>2. k - c \in 1 .. Len(f) + 1 - c
                BY <2>1, <3>1
            <4>3. FileOne(f, r)[k - c] = f[k - c + c]
                BY <2>2, <3>1
            <4>. QED BY <2>3, <3>1, <4>1, <4>2, <4>3
        <3>. QED BY <3>2 DEF Range
    <2>5. CASE ~(k > c)
        <3>1. k = 1 /\ c = 1 /\ Len(f) = BaseKeep /\ BaseKeep >= 1
            BY <2>1, <2>2, <2>5
        <3>. DEFINE S == 1 .. BaseKeep + 1
                    T == n - 2 * Slack .. n
                    g == [i \in S |-> IF i <= BaseKeep THEN f[i] ELSE r]
        <3>2. \A i \in 1 .. Len(f) : f[i] \in Nat /\ f[i] <= n /\ x <= f[i] + Slack
            <4>1. \A i \in 1 .. Len(f) : f[i] \in Nat
                OBVIOUS
            <4>. QED BY <2>1, <2>3, <3>1, <4>1 DEF NearlyInOrder
        <3>3. x \in Nat
            BY <2>3
        <3>4. \A i \in 1 .. Len(f) : f[i] \in T
            BY <2>1, <3>2, <3>3
        <3>5. r \in T
            BY <2>1
        <3>6. g \in [S -> T]
            BY <2>1, <3>1, <3>4, <3>5
        <3>7. IsFiniteSet(S) /\ Cardinality(S) = BaseKeep + 1
            BY <2>1, FS_Interval
        <3>8. IsFiniteSet(T) /\ Cardinality(T) = 2 * Slack + 1
            <4>1. n - 2 * Slack \in Int /\ n \in Int /\ ~(n - 2 * Slack > n)
                BY <2>1
            <4>2. IsFiniteSet(T) /\ Cardinality(T) = n - (n - 2 * Slack) + 1
                BY <4>1, FS_Interval
            <4>. QED BY <2>1, <4>2
        <3>9. 2 * Slack + 1 < BaseKeep + 1
            BY <2>1 DEF RoomForLate
        <3>10. \E i, j \in S : i # j /\ g[i] = g[j]
            <4>. HIDE DEF S, T, g
            <4>. QED BY <3>6, <3>7, <3>8, <3>9, FS_PigeonHole
        <3>11. PICK i \in S, j \in S : i < j /\ g[i] = g[j]
            BY <2>1, <3>10
        <3>12. i \in 1 .. Len(f)
            BY <2>1, <3>1, <3>11
        <3>13. CASE j = BaseKeep + 1
            BY <1>2, <3>1, <3>11, <3>12, <3>13, <2>1 DEF Range
        <3>14. CASE j # BaseKeep + 1
            <4>1. j \in 1 .. Len(f) /\ f[i] = f[j]
                BY <2>1, <3>1, <3>11, <3>12, <3>14
            <4>. QED BY <3>11, <3>12, <4>1 DEF NearlyInOrder
        <3>. QED BY <3>13, <3>14
    <2>. QED BY <2>4, <2>5
<1>. QED BY <1>1, <1>2

(* The limit holds after each round, whatever the message. *)
LEMMA AcceptedIsList ==
    ASSUME FleetAssumption, NEW e, e.filed \in Lists(BaseKeep), NEW w \in Seq(Ids)
    PROVE  Accepted(e, w).filed \in Lists(BaseKeep)
<1>. DEFINE Good == [i \in 0 .. Len(w) |-> Lists(BaseKeep)]
<1>1. Len(w) \in Nat /\ BaseKeep \in Nat
    BY DEF FleetAssumption
<1>2. ASSUME NEW i \in 1 .. Len(w), NEW f \in Lists(BaseKeep)
      PROVE  FileOne(f, w[i]) \in Lists(BaseKeep)
    <2>1. f \in Seq(Ids) /\ Len(f) <= BaseKeep /\ w[i] \in Ids
        BY <1>1, ListsAre
    <2>2. FileOne(f, w[i]) \in Seq(Ids) /\ Len(FileOne(f, w[i])) <= BaseKeep
        BY <2>1, FileOneHas
    <2>. QED BY <1>1, <2>2, ListsAre
<1>3. \A i \in 1 .. Len(w) : \A f \in Good[i - 1] : FileOne(f, w[i]) \in Good[i]
    BY <1>1, <1>2
<1>4. e.filed \in Good[0] /\ Good[Len(w)] = Lists(BaseKeep)
    BY <1>1
<1>. HIDE DEF Good
<1>. QED BY <1>1, <1>3, <1>4, FilingInduction

(* The order survives a whole message. *)
LEMMA AcceptedInOrder ==
    ASSUME FleetAssumption, NEW n \in Nat, NEW e, e.filed \in Seq(Nat), NearlyInOrder(e.filed, n),
           NEW w \in Seq(Nat), Timely(w, n)
    PROVE  NearlyInOrder(Accepted(e, w).filed, n)
<1>. DEFINE G == {f \in Seq(Nat) : NearlyInOrder(f, n)}
            Good == [i \in 0 .. Len(w) |-> G]
<1>1. Len(w) \in Nat
    OBVIOUS
<1>2. ASSUME NEW i \in 1 .. Len(w), NEW f \in G
      PROVE  FileOne(f, w[i]) \in G
    <2>1. f \in Seq(Nat) /\ NearlyInOrder(f, n) /\ w[i] \in Nat /\ w[i] <= n /\ n <= w[i] + Slack
        BY DEF Timely
    <2>2. NearlyInOrder(FileOne(f, w[i]), n)
        BY <2>1, FileOneInOrder
    <2>3. FileOne(f, w[i]) \in Seq(Nat)
        BY <2>1, FileOneHas DEF NearlyInOrder
    <2>. QED BY <2>2, <2>3
<1>3. \A i \in 1 .. Len(w) : \A f \in Good[i - 1] : FileOne(f, w[i]) \in Good[i]
    BY <1>1, <1>2
<1>4. e.filed \in Good[0] /\ Good[Len(w)] = G
    BY <1>1
<1>. HIDE DEF Good
<1>5. Accepted(e, w).filed \in G
    <2>. HIDE DEF G
    <2>. QED BY <1>1, <1>3, <1>4, FilingInduction
<1>. QED BY <1>5

(* With room for the late ones, accepting a message files all its reports,   *)
(* and of those filed before no report is lost that may still be sent.       *)
LEMMA AcceptedKeepsNew ==
    ASSUME FleetAssumption, RoomForLate,
           NEW n \in Nat, NEW e, e.filed \in Seq(Nat), NearlyInOrder(e.filed, n),
           NEW w \in Seq(Nat), Timely(w, n)
    PROVE  /\ Range(w) \subseteq Range(Accepted(e, w).filed)
           /\ \A x \in Range(e.filed) : n <= x + Slack => x \in Range(Accepted(e, w).filed)
<1>. DEFINE New == {x \in Range(e.filed) : n <= x + Slack}
            G(i) == {f \in Seq(Nat) : /\ NearlyInOrder(f, n)
                                      /\ New \subseteq Range(f)
                                      /\ \A k \in 1 .. i : w[k] \in Range(f)}
            Good == [i \in 0 .. Len(w) |-> G(i)]
<1>1. Len(w) \in Nat
    OBVIOUS
<1>2. ASSUME NEW i \in 1 .. Len(w), NEW f \in G(i - 1)
      PROVE  FileOne(f, w[i]) \in G(i)
    <2>. DEFINE g == FileOne(f, w[i])
    <2>1. f \in Seq(Nat) /\ NearlyInOrder(f, n) /\ w[i] \in Nat /\ w[i] <= n /\ n <= w[i] + Slack
        BY DEF Timely
    <2>2. NearlyInOrder(g, n)
        BY <2>1, FileOneInOrder
    <2>3. g \in Seq(Nat) /\ w[i] \in Range(g)
        BY <2>1, FileOneHas DEF NearlyInOrder
    <2>4. \A x \in Range(f) : n <= x + Slack => x \in Range(g)
        BY <2>1, FileOneKeepsNew
    <2>. HIDE DEF g
    <2>5. New \subseteq Range(g)
        BY <2>4
    <2>6. \A k \in 1 .. i : w[k] \in Range(g)
        <3>1. ASSUME NEW k \in 1 .. i - 1 PROVE w[k] \in Range(g)
            <4>1. w[k] \in Range(f) /\ k \in 1 .. Len(w)
                BY <1>1
            <4>. QED BY <2>4, <4>1 DEF Timely
        <3>. QED BY <2>3, <3>1
    <2>. QED BY <2>2, <2>3, <2>5, <2>6 DEF g
<1>3. \A i \in 1 .. Len(w) : \A f \in Good[i - 1] : FileOne(f, w[i]) \in Good[i]
    <2>. HIDE DEF G
    <2>1. \A i \in 1 .. Len(w) : i - 1 \in 0 .. Len(w) /\ i \in 0 .. Len(w)
        BY <1>1
    <2>. QED BY <1>2, <2>1
<1>4. e.filed \in Good[0]
    BY <1>1
<1>5. Good[Len(w)] = G(Len(w))
    BY <1>1
<1>. HIDE DEF Good
<1>6. Accepted(e, w).filed \in G(Len(w))
    <2>. HIDE DEF G
    <2>. QED BY <1>1, <1>3, <1>4, <1>5, FilingInduction
<1>7. /\ New \subseteq Range(Accepted(e, w).filed)
      /\ \A k \in 1 .. Len(w) : w[k] \in Range(Accepted(e, w).filed)
    BY <1>6
<1>8. Range(w) \subseteq Range(Accepted(e, w).filed)
    <2>1. Range(w) = {w[k] : k \in 1 .. Len(w)}
        BY RangeEquality
    <2>. QED BY <1>7, <2>1
<1>. QED BY <1>7, <1>8

--------------------------------------------------------------------------------
(* Types. *)

(* TypeOK, and that the variables are functions on Agents. *)
TypeInv ==
    /\ made \in [Agents -> 0 .. MaxReports]
    /\ reports \in [Agents -> Lists(ProbeKeep)]
    /\ file \in [Agents -> Lists(ProbeKeep)]
    /\ wire \in [Agents -> [Slots -> Request \cup {Gone}]]
    /\ fleet \in [Agents -> Entry]
    /\ disk \in [Agents -> Entry]
    /\ pinned \in BOOLEAN
    /\ keyed \in BOOLEAN
    /\ stale \subseteq Agents
    /\ acked \in [Agents -> 0 .. MaxCount]

(* Messages and entries are what TypeOK says of them. *)
LEMMA Data ==
    ASSUME FleetAssumption
    PROVE  /\ \A n \in Nat : <<>> \in Lists(n)
           /\ Registration \in Request /\ Unknown \in Entry
           /\ \A w \in Lists(Window) : Report(w) \in Request
           /\ \A n \in 0 .. MaxCount : OneMore(n) \in 0 .. MaxCount
<1>1. ASSUME NEW n \in Nat PROVE <<>> \in Lists(n)
    <2>1. <<>> \in Seq(Ids) /\ Len(<<>>) <= n
        OBVIOUS
    <2>. QED BY <2>1, ListsAre
<1>2. Registration \in Request
    BY <1>1 DEF Registration, Request, FleetAssumption
<1>3. Unknown \in Entry
    BY <1>1 DEF Unknown, Entry, FleetAssumption
<1>4. \A w \in Lists(Window) : Report(w) \in Request
    BY DEF Report, Request
<1>5. \A n \in 0 .. MaxCount : OneMore(n) \in 0 .. MaxCount
    BY DEF OneMore, FleetAssumption
<1>. QED BY <1>1, <1>2, <1>3, <1>4, <1>5

LEMMA LatestIsList ==
    ASSUME FleetAssumption, NEW n \in Nat, NEW s \in Seq(Ids)
    PROVE  Latest(s, n) \in Lists(n)
<1>1. /\ Latest(s, n) \in Seq(Ids)
      /\ Len(Latest(s, n)) = IF Len(s) <= n THEN Len(s) ELSE n
    BY LatestIs
<1>2. Len(Latest(s, n)) <= n
    BY <1>1
<1>. QED BY <1>1, <1>2, ListsAre

LEMMA RegisteredIsEntry ==
    ASSUME FleetAssumption, NEW e \in Entry
    PROVE  Registered(e) \in Entry /\ Ensured(e) \in Entry
BY Data DEF Registered, Ensured, Entry, FleetAssumption

LEMMA AcceptedIsEntry ==
    ASSUME FleetAssumption, NEW e \in Entry, NEW w \in Lists(Window)
    PROVE  Accepted(e, w) \in Entry
<1>1. e.filed \in Lists(BaseKeep) /\ e.count \in 0 .. MaxCount
    BY DEF Entry
<1>2. w \in Seq(Ids)
    BY ListsAre DEF FleetAssumption
<1>. DEFINE f == Accepted(e, w).filed
<1>3. f \in Lists(BaseKeep)
    BY <1>1, <1>2, AcceptedIsList
<1>4. Accepted(e, w) = [known |-> TRUE, count |-> OneMore(e.count), filed |-> f]
    BY DEF Accepted
<1>5. OneMore(e.count) \in 0 .. MaxCount
    BY <1>1, Data
<1>. HIDE DEF f
<1>. QED BY <1>3, <1>4, <1>5 DEF Entry

LEMMA InitTypeInv ==
    ASSUME FleetAssumption, Init
    PROVE  TypeInv
<1>1. <<>> \in Lists(ProbeKeep)
    BY Data DEF FleetAssumption
<1>2. Unknown \in Entry /\ 0 \in 0 .. MaxReports /\ 0 \in 0 .. MaxCount
    BY Data DEF FleetAssumption
<1>. QED BY <1>1, <1>2 DEF Init, TypeInv

(* Sending and taking change the wire of one probe. *)
LEMMA SentType ==
    ASSUME FleetAssumption, TypeInv, NEW a \in Agents, NEW m \in Request, Sent(a, m)
    PROVE  /\ wire' \in [Agents -> [Slots -> Request \cup {Gone}]]
           /\ wire'[a] = [i \in Slots |-> IF i <= MaxLate THEN wire[a][i + 1] ELSE m]
           /\ \A b \in Agents : b # a => wire'[b] = wire[b]
<1>1. wire \in [Agents -> [Slots -> Request \cup {Gone}]]
    BY DEF TypeInv
<1>. DEFINE s == [i \in Slots |-> IF i <= MaxLate THEN wire[a][i + 1] ELSE m]
<1>2. wire' = [wire EXCEPT ![a] = s]
    BY DEF Sent
<1>3. \A i \in Slots : i <= MaxLate => i + 1 \in Slots
    BY DEF Slots, FleetAssumption
<1>4. s \in [Slots -> Request \cup {Gone}]
    BY <1>1, <1>3
<1>. HIDE DEF s
<1>5. wire' \in [Agents -> [Slots -> Request \cup {Gone}]] /\ wire'[a] = s
      /\ \A b \in Agents : b # a => wire'[b] = wire[b]
    BY <1>1, <1>2, <1>4
<1>. QED BY <1>5 DEF s

LEMMA TakenType ==
    ASSUME TypeInv, NEW a \in Agents, NEW i \in Slots, Taken(a, i)
    PROVE  /\ wire' \in [Agents -> [Slots -> Request \cup {Gone}]]
           /\ \A b \in Agents : \A j \in Slots : wire'[b][j] \in {wire[b][j], Gone}
<1>1. wire \in [Agents -> [Slots -> Request \cup {Gone}]]
    BY DEF TypeInv
<1>. DEFINE s == [wire[a] EXCEPT ![i] = Gone]
<1>2. wire' = [wire EXCEPT ![a] = s]
    BY DEF Taken
<1>3. s \in [Slots -> Request \cup {Gone}] /\ \A j \in Slots : s[j] \in {wire[a][j], Gone}
    BY <1>1
<1>. HIDE DEF s
<1>. QED BY <1>1, <1>2, <1>3

LEMMA GenerateType ==
    ASSUME FleetAssumption, TypeInv, NEW a \in Agents, Generate(a)
    PROVE  /\ made' \in [Agents -> 0 .. MaxReports]
           /\ reports' \in [Agents -> Lists(ProbeKeep)]
           /\ file' \in [Agents -> Lists(ProbeKeep)]
<1>. DEFINE kept == Latest(Append(reports[a], made[a] + 1), ProbeKeep)
<1>1. made[a] \in 0 .. MaxReports /\ made[a] < MaxReports
    BY DEF TypeInv, Generate
<1>2. made[a] + 1 \in Ids /\ made[a] + 1 \in 0 .. MaxReports
    BY <1>1 DEF Ids, FleetAssumption
<1>3. reports[a] \in Seq(Ids)
    BY ListsAre DEF TypeInv, FleetAssumption
<1>4. Append(reports[a], made[a] + 1) \in Seq(Ids)
    BY <1>2, <1>3
<1>6. kept \in Lists(ProbeKeep)
    BY <1>4, LatestIsList DEF FleetAssumption
<1>7. made' = [made EXCEPT ![a] = made[a] + 1] /\ reports' = [reports EXCEPT ![a] = kept]
      /\ (file' = [file EXCEPT ![a] = kept] \/ file' = file)
    BY DEF Generate
<1>. QED BY <1>2, <1>6, <1>7 DEF TypeInv

LEMMA NextTypeInv ==
    ASSUME FleetAssumption, TypeInv, [Next]_vars
    PROVE  TypeInv'
<1>. USE DEF TypeInv
<1>0. ProbeKeep \in Nat /\ Window \in Nat
    BY DEF FleetAssumption
<1>1. CASE UNCHANGED vars
    BY <1>1 DEF vars, probeVars, baseVars
<1>2. ASSUME NEW a \in Agents, ProbeStart(a) PROVE TypeInv'
    <2>1. <<>> \in Lists(ProbeKeep) /\ Registration \in Request
        BY <1>0, Data
    <2>2. wire' \in [Agents -> [Slots -> Request \cup {Gone}]]
        BY <1>2, <2>1, SentType DEF ProbeStart
    <2>3. UNCHANGED <<made, file, fleet, disk, keyed, acked, pinned>>
        BY <1>2 DEF ProbeStart, baseVars
    <2>4. reports' = [reports EXCEPT ![a] = file[a]] \/ reports' = [reports EXCEPT ![a] = <<>>]
        BY <1>2 DEF ProbeStart
    <2>5. stale' \subseteq Agents
        BY <1>2 DEF ProbeStart
    <2>. QED BY <2>1, <2>2, <2>3, <2>4, <2>5
<1>3. ASSUME NEW a \in Agents, Cycle(a) PROVE TypeInv'
    <2>1. /\ made' \in [Agents -> 0 .. MaxReports]
          /\ reports' \in [Agents -> Lists(ProbeKeep)]
          /\ file' \in [Agents -> Lists(ProbeKeep)]
          /\ stale' = stale
        BY <1>3, GenerateType DEF Cycle, Generate, probeVars
    <2>a. reports'[a] \in Seq(Ids)
        BY <1>0, <2>1, ListsAre
    <2>2. Report(Latest(reports'[a], Window)) \in Request
        BY <1>0, <2>a, LatestIsList, Data
    <2>3. wire' \in [Agents -> [Slots -> Request \cup {Gone}]]
        BY <1>3, <2>2, SentType DEF Cycle
    <2>. QED BY <1>3, <2>1, <2>3 DEF Cycle, baseVars
<1>4. ASSUME NEW a \in Agents, CycleWithoutReAct(a) PROVE TypeInv'
    <2>1. Report(<<>>) \in Request
        BY <1>0, Data
    <2>2. wire' \in [Agents -> [Slots -> Request \cup {Gone}]]
        BY <1>4, <2>1, SentType DEF CycleWithoutReAct
    <2>. QED BY <1>4, <2>2 DEF CycleWithoutReAct, probeVars, baseVars
<1>5. ASSUME NEW a \in Agents, NEW i \in Slots,
             RegisterAgent(a, i) \/ AcceptReport(a, i) \/ RejectReport(a, i)
      PROVE  TypeInv'
    <2>1. wire' \in [Agents -> [Slots -> Request \cup {Gone}]]
        BY <1>5, TakenType DEF RegisterAgent, AcceptReport, RejectReport
    <2>2. UNCHANGED <<made, reports, file, stale, keyed, pinned>>
        BY <1>5 DEF RegisterAgent, AcceptReport, RejectReport, probeVars
    <2>. DEFINE fr == [fleet EXCEPT ![a] = Registered(fleet[a])]
                fa == [fleet EXCEPT ![a] = Accepted(Ensured(fleet[a]), wire[a][i].window)]
    <2>3. fr \in [Agents -> Entry]
        BY RegisteredIsEntry
    <2>4. ASSUME wire[a][i].kind = "report" PROVE fa \in [Agents -> Entry]
        <3>1. wire[a][i] \in Request
            BY <2>4 DEF Gone
        <3>2. wire[a][i].window \in Lists(Window)
            BY <3>1 DEF Request
        <3>3. Accepted(Ensured(fleet[a]), wire[a][i].window) \in Entry
            BY <3>2, RegisteredIsEntry, AcceptedIsEntry
        <3>. QED BY <3>3
    <2>5. CASE RegisterAgent(a, i)
        <3>1. fleet' = fr /\ (disk' = fleet' \/ disk' = disk) /\ acked' = acked
            BY <2>5 DEF RegisterAgent, Saved
        <3>. HIDE DEF fr
        <3>. QED BY <2>1, <2>2, <2>3, <3>1
    <2>6. CASE AcceptReport(a, i)
        <3>1. fleet' = fa /\ disk' = fleet' /\ acked' = [acked EXCEPT ![a] = OneMore(acked[a])]
              /\ wire[a][i].kind = "report"
            BY <2>6 DEF AcceptReport
        <3>2. OneMore(acked[a]) \in 0 .. MaxCount
            BY Data
        <3>. HIDE DEF fa
        <3>. QED BY <2>1, <2>2, <2>4, <3>1, <3>2
    <2>7. CASE RejectReport(a, i)
        <3>1. /\ fleet' = fr \/ fleet' = fa
              /\ disk' = disk \/ disk' = fr
              /\ acked' = acked /\ wire[a][i].kind = "report"
            BY <2>7 DEF RejectReport
        <3>. HIDE DEF fa, fr
        <3>. QED BY <2>1, <2>2, <2>3, <2>4, <3>1
    <2>. QED BY <1>5, <2>5, <2>6, <2>7
<1>6. ASSUME BaseRestart PROVE TypeInv'
    <2>1. Unknown \in Entry /\ 0 \in 0 .. MaxCount
        BY Data DEF FleetAssumption
    <2>. QED BY <1>6, <2>1 DEF BaseRestart, probeVars
<1>. QED BY <1>1, <1>2, <1>3, <1>4, <1>5, <1>6 DEF Next, Arrive

(* Types are right: neither side ever keeps more than its limit, and no      *)
(* message has more than a window (learn, latest_threat_reports,             *)
(* accept_report).                                                           *)
THEOREM TypeCorrect == Spec => []TypeOK
<1>1. Init => TypeInv
    BY FleetAssumption, InitTypeInv
<1>2. TypeInv /\ [Next]_vars => TypeInv'
    BY FleetAssumption, NextTypeInv
<1>3. TypeInv => TypeOK
    BY DEF TypeInv, TypeOK
<1>. QED BY <1>1, <1>2, <1>3, PTL DEF Spec

--------------------------------------------------------------------------------
(* Order. *)

(* s holds numbers up to n, each no further from n than from the end of s. *)
UpTo(s, n) == \A i \in 1 .. Len(s) : s[i] <= n /\ n <= s[i] + (Len(s) - i)

(* The message w in slot i of the wire: the older, the further behind n. *)
OnTheWay(w, n, i) == \A k \in 1 .. Len(w) : w[k] <= n /\ n <= w[k] + Slack + 1 - i

(* What a probe has in memory and on the wire is up to date, what is in its  *)
(* file was so when it was saved.                                            *)
ProbeInOrder(a) ==
    /\ UpTo(reports[a], made[a])
    /\ \E n \in 0 .. made[a] : UpTo(file[a], n)
    /\ \A i \in Slots : OnTheWay(wire[a][i].window, made[a], i)

BaseInOrder(a) ==
    /\ NearlyInOrder(fleet[a].filed, made[a])
    /\ NearlyInOrder(disk[a].filed, made[a])

UnknownIsEmpty(a) ==
    /\ fleet[a].known \/ fleet[a].filed = <<>>
    /\ disk[a].known \/ disk[a].filed = <<>>

AgentInv(a) ==
    /\ UnknownIsEmpty(a)
    /\ a \in stale \/ (ProbeInOrder(a) /\ BaseInOrder(a))

(* The invariant behind WindowArrives and ResentIsKept.  Nothing is claimed  *)
(* of a probe that started from a file without its newest report.            *)
OrderInv ==
    /\ TypeInv
    /\ \A a \in Agents : AgentInv(a)

(* Trimming and appending the next report keep a list up to date. *)
LEMMA LatestUpTo ==
    ASSUME NEW s \in Seq(Nat), NEW n \in Nat, UpTo(s, n), NEW k \in Nat
    PROVE  UpTo(Latest(s, k), n)
<1>. DEFINE t == Latest(s, k)
<1>1. /\ t \in Seq(Nat)
      /\ Len(t) = IF Len(s) <= k THEN Len(s) ELSE k
      /\ \A i \in 1 .. Len(t) : t[i] = s[Len(s) - Len(t) + i]
    BY LatestIs
<1>. HIDE DEF t
<1>2. Len(t) \in Nat /\ Len(s) \in Nat /\ Len(t) <= Len(s)
    BY <1>1
<1>3. ASSUME NEW i \in 1 .. Len(t)
      PROVE  t[i] <= n /\ n <= t[i] + (Len(t) - i)
    <2>1. Len(s) - Len(t) + i \in 1 .. Len(s)
        BY <1>2
    <2>2. t[i] = s[Len(s) - Len(t) + i]
        BY <1>1
    <2>3. t[i] <= n /\ n <= t[i] + (Len(s) - (Len(s) - Len(t) + i))
        BY <2>1, <2>2 DEF UpTo
    <2>4. Len(s) - (Len(s) - Len(t) + i) = Len(t) - i
        BY <1>2
    <2>. QED BY <2>3, <2>4
<1>. QED BY <1>3 DEF UpTo, t

(* A message is on its way as long as it may be: it holds the latest reports.*)
LEMMA MessageInOrder ==
    ASSUME FleetAssumption, NEW s \in Seq(Nat), NEW n \in Nat, UpTo(s, n)
    PROVE  OnTheWay(Latest(s, Window), n, MaxLate + 1)
<1>. DEFINE t == Latest(s, Window)
<1>1. t \in Seq(Nat) /\ Len(t) <= Window /\ UpTo(t, n)
    <2>1. /\ t \in Seq(Nat)
          /\ Len(t) = IF Len(s) <= Window THEN Len(s) ELSE Window
        BY LatestIs DEF FleetAssumption
    <2>2. UpTo(t, n)
        BY LatestUpTo DEF FleetAssumption
    <2>. QED BY <2>1, <2>2
<1>. HIDE DEF t
<1>2. ASSUME NEW i \in 1 .. Len(t)
      PROVE  t[i] <= n /\ n <= t[i] + Slack + 1 - (MaxLate + 1)
    <2>1. t[i] \in Nat /\ t[i] <= n /\ n <= t[i] + (Len(t) - i)
        BY <1>1 DEF UpTo
    <2>2. Slack + 1 - (MaxLate + 1) = Window - 1 /\ Window \in Nat /\ Slack \in Nat /\ MaxLate \in Nat
        BY DEF Slack, FleetAssumption
    <2>. QED BY <1>1, <2>1, <2>2
<1>. QED BY <1>2 DEF OnTheWay, t

LEMMA AppendUpTo ==
    ASSUME NEW s \in Seq(Nat), NEW n \in Nat, UpTo(s, n)
    PROVE  UpTo(Append(s, n + 1), n + 1)
<1>. DEFINE t == Append(s, n + 1)
<1>1. Len(t) = Len(s) + 1 /\ Len(s) \in Nat /\ t[Len(s) + 1] = n + 1
      /\ \A i \in 1 .. Len(s) : t[i] = s[i]
    BY AppendProperties
<1>. HIDE DEF t
<1>2. ASSUME NEW i \in 1 .. Len(t)
      PROVE  t[i] <= n + 1 /\ n + 1 <= t[i] + (Len(t) - i)
    <2>1. CASE i = Len(s) + 1
        BY <1>1, <2>1
    <2>2. CASE i # Len(s) + 1
        <3>1. i \in 1 .. Len(s) /\ t[i] = s[i]
            BY <1>1, <2>2
        <3>2. s[i] \in Nat /\ s[i] <= n /\ n <= s[i] + (Len(s) - i)
            BY <3>1 DEF UpTo
        <3>. QED BY <1>1, <3>1, <3>2
    <2>. QED BY <2>1, <2>2
<1>. QED BY <1>2 DEF UpTo, t

LEMMA OrderIsMonotonic ==
    ASSUME NEW f \in Seq(Nat), NEW m \in Nat, NEW n \in Nat, m <= n, NearlyInOrder(f, m)
    PROVE  NearlyInOrder(f, n)
BY DEF NearlyInOrder

(* A message that has waited for one more to be sent, and one more report to *)
(* be generated at most.                                                     *)
LEMMA OneSlotOlder ==
    ASSUME FleetAssumption, NEW w \in Seq(Nat), NEW m \in Nat, NEW n \in Nat, m <= n, n <= m + 1,
           NEW i \in Slots, i <= MaxLate, OnTheWay(w, m, i + 1)
    PROVE  OnTheWay(w, n, i)
<1>1. Slack \in Nat /\ i \in Nat
    BY DEF Slack, Slots, FleetAssumption
<1>2. ASSUME NEW k \in 1 .. Len(w)
      PROVE  w[k] <= n /\ n <= w[k] + Slack + 1 - i
    <2>1. w[k] \in Nat /\ w[k] <= m /\ m <= w[k] + Slack + 1 - (i + 1)
        BY DEF OnTheWay
    <2>. QED BY <1>1, <2>1
<1>. QED BY <1>2 DEF OnTheWay

(* Whatever is on the way is timely. *)
LEMMA OnTheWayIsTimely ==
    ASSUME FleetAssumption, NEW w \in Seq(Nat), NEW n \in Nat, NEW i \in Slots, OnTheWay(w, n, i)
    PROVE  Timely(w, n)
<1>1. Slack \in Nat /\ i \in Nat /\ i >= 1
    BY DEF Slack, Slots, FleetAssumption
<1>2. ASSUME NEW k \in 1 .. Len(w)
      PROVE  w[k] <= n /\ n <= w[k] + Slack
    <2>1. w[k] \in Nat /\ w[k] <= n /\ n <= w[k] + Slack + 1 - i
        BY DEF OnTheWay
    <2>. QED BY <1>1, <2>1
<1>. QED BY <1>2 DEF Timely

(* What TypeInv says of the lists. *)
LEMMA SequencesOfNat ==
    ASSUME FleetAssumption, TypeInv, NEW a \in Agents
    PROVE  /\ made[a] \in Nat
           /\ reports[a] \in Seq(Nat) /\ file[a] \in Seq(Nat)
           /\ \A i \in Slots : wire[a][i].window \in Seq(Nat)
           /\ fleet[a].filed \in Seq(Nat) /\ disk[a].filed \in Seq(Nat)
<1>1. \A n \in Nat : \A s \in Lists(n) : s \in Seq(Nat)
    <2>1. \A n \in Nat : \A s \in Lists(n) : s \in Seq(Ids)
        BY ListsAre
    <2>2. \A s \in Seq(Ids) : s \in Seq(Nat)
        BY DEF Ids
    <2>. QED BY <2>1, <2>2
<1>2. Window \in Nat /\ ProbeKeep \in Nat /\ BaseKeep \in Nat
    BY DEF FleetAssumption
<1>3. ASSUME NEW i \in Slots PROVE wire[a][i].window \in Seq(Nat)
    <2>1. wire[a][i] \in Request \/ wire[a][i] = Gone
        BY DEF TypeInv
    <2>2. wire[a][i].window \in Lists(Window) \/ wire[a][i].window = <<>>
        BY <2>1 DEF Request, Gone
    <2>3. <<>> \in Seq(Nat)
        OBVIOUS
    <2>. QED BY <1>1, <1>2, <2>2, <2>3
<1>4. fleet[a].filed \in Lists(BaseKeep) /\ disk[a].filed \in Lists(BaseKeep)
    BY DEF TypeInv, Entry
<1>. QED BY <1>1, <1>2, <1>3, <1>4 DEF TypeInv

LEMMA InitOrderInv ==
    ASSUME FleetAssumption, Init
    PROVE  OrderInv
<1>1. TypeInv
    BY InitTypeInv
<1>2. ASSUME NEW a \in Agents PROVE UnknownIsEmpty(a) /\ ProbeInOrder(a) /\ BaseInOrder(a)
    <2>1. /\ made[a] = 0 /\ reports[a] = <<>> /\ file[a] = <<>>
          /\ \A i \in Slots : wire[a][i].window = <<>>
          /\ fleet[a].filed = <<>> /\ disk[a].filed = <<>>
        BY DEF Init, Unknown, Gone
    <2>2. UpTo(<<>>, 0) /\ \A i \in Slots : OnTheWay(<<>>, 0, i)
        BY DEF UpTo, OnTheWay
    <2>3. NearlyInOrder(<<>>, 0)
        BY DEF NearlyInOrder, FleetAssumption
    <2>. QED BY <2>1, <2>2, <2>3 DEF UnknownIsEmpty, ProbeInOrder, BaseInOrder
<1>. QED BY <1>1, <1>2 DEF OrderInv, AgentInv

(* Nothing about an agent changes. *)
LEMMA OthersKeepOrder ==
    ASSUME OrderInv, NEW a \in Agents, stale \subseteq stale',
           made'[a] = made[a], reports'[a] = reports[a], file'[a] = file[a],
           wire'[a] = wire[a], fleet'[a] = fleet[a], disk'[a] = disk[a]
    PROVE  AgentInv(a)'
BY DEF OrderInv, AgentInv, UnknownIsEmpty, ProbeInOrder, BaseInOrder

LEMMA SentKeepsOrder ==
    ASSUME FleetAssumption, TypeInv, NEW a \in Agents, ProbeInOrder(a),
           NEW m \in Request, Sent(a, m),
           NEW n \in Nat, made[a] <= n, n <= made[a] + 1,
           OnTheWay(m.window, n, MaxLate + 1)
    PROVE  \A i \in Slots : OnTheWay(wire'[a][i].window, n, i)
<1>1. wire'[a] = [i \in Slots |-> IF i <= MaxLate THEN wire[a][i + 1] ELSE m]
    BY SentType
<1>2. ASSUME NEW i \in Slots PROVE OnTheWay(wire'[a][i].window, n, i)
    <2>1. CASE i <= MaxLate
        <3>1. i + 1 \in Slots /\ wire'[a][i] = wire[a][i + 1]
            BY <1>1, <2>1 DEF Slots, FleetAssumption
        <3>2. OnTheWay(wire[a][i + 1].window, made[a], i + 1) /\ wire[a][i + 1].window \in Seq(Nat)
              /\ made[a] \in Nat
            BY <3>1, SequencesOfNat DEF ProbeInOrder
        <3>3. OnTheWay(wire[a][i + 1].window, n, i)
            BY <2>1, <3>2, OneSlotOlder
        <3>. QED BY <3>1, <3>3
    <2>2. CASE ~(i <= MaxLate)
        <3>1. i = MaxLate + 1 /\ wire'[a][i] = m
            BY <1>1, <2>2 DEF Slots, FleetAssumption
        <3>. QED BY <3>1
    <2>. QED BY <2>1, <2>2
<1>. QED BY <1>2

LEMMA ProbeStartKeepsOrder ==
    ASSUME FleetAssumption, OrderInv, NEW a \in Agents, ProbeStart(a)
    PROVE  \A b \in Agents : AgentInv(b)'
<1>0. TypeInv /\ MaxLate + 1 \in Slots /\ Registration \in Request
    BY Data DEF OrderInv, AgentInv, Slots, FleetAssumption
<1>1. UNCHANGED <<made, file, fleet, disk>> /\ stale \subseteq stale' /\ Sent(a, Registration)
    BY DEF ProbeStart, baseVars
<1>2. \A b \in Agents : b # a => reports'[b] = reports[b] /\ wire'[b] = wire[b]
    BY <1>0, <1>1, SentType DEF ProbeStart, TypeInv
<1>3. \A b \in Agents : b # a => AgentInv(b)'
    BY <1>1, <1>2, OthersKeepOrder
<1>4. ASSUME a \notin stale' PROVE ProbeInOrder(a)' /\ BaseInOrder(a)'
    <2>1. ProbeInOrder(a) /\ BaseInOrder(a)
        BY <1>1, <1>4 DEF OrderInv, AgentInv
    <2>2. made[a] \in Nat /\ file[a] \in Seq(Nat)
        BY <1>0, SequencesOfNat
    <2>3. UpTo(reports'[a], made[a])
        <3>1. reports'[a] = file[a] \/ reports'[a] = <<>>
            BY <1>0 DEF ProbeStart, TypeInv
        <3>2. CASE reports'[a] = <<>>
            BY <2>2, <3>2 DEF UpTo
        <3>3. CASE reports'[a] = file[a] /\ file[a] # <<>>
            <4>1. made[a] \in Range(file[a])
                <5>1. CASE reports' = [reports EXCEPT ![a] = <<>>]
                    BY <1>0, <3>3, <5>1 DEF TypeInv
                <5>2. CASE stale' = IF file[a] = <<>> \/ made[a] \in Range(file[a])
                                    THEN stale ELSE stale \cup {a}
                    BY <1>4, <3>3, <5>2
                <5>. QED BY <5>1, <5>2 DEF ProbeStart
            <4>2. PICK n \in 0 .. made[a] : UpTo(file[a], n)
                BY <2>1 DEF ProbeInOrder
            <4>3. PICK i \in 1 .. Len(file[a]) : file[a][i] = made[a]
                BY <4>1, <2>2, RangeEquality
            <4>4. made[a] <= n
                BY <4>2, <4>3 DEF UpTo
            <4>5. made[a] = n
                BY <2>2, <4>2, <4>4
            <4>. QED BY <3>3, <4>2, <4>5
        <3>. QED BY <3>1, <3>2, <3>3
    <2>4. OnTheWay(Registration.window, made[a], MaxLate + 1)
        BY DEF Registration, OnTheWay
    <2>5. \A i \in Slots : OnTheWay(wire'[a][i].window, made[a], i)
        BY <1>0, <1>1, <2>1, <2>2, <2>4, SentKeepsOrder
    <2>. QED BY <1>1, <2>1, <2>3, <2>5 DEF ProbeInOrder, BaseInOrder
<1>5. UnknownIsEmpty(a)'
    BY <1>1 DEF OrderInv, AgentInv, UnknownIsEmpty
<1>. QED BY <1>3, <1>4, <1>5 DEF AgentInv

LEMMA GenerateKeepsOrder ==
    ASSUME FleetAssumption, TypeInv, NEW a \in Agents, ProbeInOrder(a), Generate(a)
    PROVE  /\ made'[a] = made[a] + 1
           /\ UpTo(reports'[a], made[a] + 1)
           /\ \E n \in 0 .. made[a] + 1 : UpTo(file'[a], n)
<1>. DEFINE kept == Latest(Append(reports[a], made[a] + 1), ProbeKeep)
<1>1. made[a] \in Nat /\ reports[a] \in Seq(Nat)
    BY SequencesOfNat
<1>2. UpTo(Append(reports[a], made[a] + 1), made[a] + 1)
    BY <1>1, AppendUpTo DEF ProbeInOrder
<1>3. Append(reports[a], made[a] + 1) \in Seq(Nat) /\ made[a] + 1 \in Nat
    BY <1>1
<1>4. UpTo(kept, made[a] + 1)
    BY <1>2, <1>3, LatestUpTo DEF FleetAssumption
<1>5. /\ made'[a] = made[a] + 1 /\ reports'[a] = kept
      /\ file'[a] = kept \/ file'[a] = file[a]
    BY DEF Generate, TypeInv
<1>. HIDE DEF kept
<1>6. PICK n \in 0 .. made[a] : UpTo(file[a], n)
    BY DEF ProbeInOrder
<1>7. n \in 0 .. made[a] + 1 /\ made[a] + 1 \in 0 .. made[a] + 1
    BY <1>1
<1>. QED BY <1>4, <1>5, <1>6, <1>7

(* A cycle, whichever message it sends. *)
LEMMA CycleKeepsOrder ==
    ASSUME FleetAssumption, OrderInv, NEW a \in Agents, Cycle(a) \/ CycleWithoutReAct(a)
    PROVE  \A b \in Agents : AgentInv(b)'
<1>0. TypeInv /\ ProbeKeep \in Nat /\ Window \in Nat /\ TypeInv'
    BY NextTypeInv DEF OrderInv, AgentInv, FleetAssumption, Next
<1>1. /\ UNCHANGED <<fleet, disk, stale>>
      /\ Generate(a) \/ UNCHANGED <<made, reports, file>>
    BY DEF Cycle, CycleWithoutReAct, Generate, probeVars, baseVars
<1>. DEFINE m == IF Cycle(a) THEN Report(Latest(reports'[a], Window)) ELSE Report(<<>>)
<1>2. m \in Request
    <2>1. reports'[a] \in Seq(Ids)
        BY <1>0, ListsAre DEF TypeInv
    <2>2. Latest(reports'[a], Window) \in Lists(Window) /\ <<>> \in Lists(Window)
        BY <1>0, <2>1, LatestIsList, Data
    <2>. QED BY <2>2, Data
<1>3. Sent(a, m)
    BY DEF Cycle, CycleWithoutReAct
<1>4. \A b \in Agents : b # a => /\ wire'[b] = wire[b] /\ made'[b] = made[b]
                                 /\ reports'[b] = reports[b] /\ file'[b] = file[b]
    <2>1. \A b \in Agents : b # a => wire'[b] = wire[b]
        <3>. HIDE DEF m
        <3>. QED BY <1>0, <1>2, <1>3, SentType
    <2>. QED BY <1>0, <1>1, <2>1 DEF Generate, TypeInv
<1>5. \A b \in Agents : b # a => AgentInv(b)'
    BY <1>1, <1>4, OthersKeepOrder
<1>6. ASSUME a \notin stale' PROVE ProbeInOrder(a)' /\ BaseInOrder(a)'
    <2>1. ProbeInOrder(a) /\ BaseInOrder(a)
        BY <1>1, <1>6 DEF OrderInv, AgentInv
    <2>2. made[a] \in Nat
        BY <1>0, SequencesOfNat
    <2>3. /\ made'[a] \in Nat /\ made[a] <= made'[a] /\ made'[a] <= made[a] + 1
          /\ UpTo(reports'[a], made'[a])
          /\ \E n \in 0 .. made'[a] : UpTo(file'[a], n)
        <3>1. CASE Generate(a)
            BY <1>0, <2>1, <2>2, <3>1, GenerateKeepsOrder
        <3>2. CASE UNCHANGED <<made, reports, file>>
            BY <2>1, <2>2, <3>2 DEF ProbeInOrder
        <3>. QED BY <1>1, <3>1, <3>2
    <2>4. OnTheWay(m.window, made'[a], MaxLate + 1)
        <3>1. reports'[a] \in Seq(Nat)
            <4>1. reports'[a] \in Seq(Ids)
                BY <1>0, ListsAre DEF TypeInv
            <4>. QED BY <4>1 DEF Ids
        <3>2. OnTheWay(Latest(reports'[a], Window), made'[a], MaxLate + 1)
            BY <2>3, <3>1, MessageInOrder
        <3>3. OnTheWay(<<>>, made'[a], MaxLate + 1)
            BY DEF OnTheWay
        <3>4. m.window = Latest(reports'[a], Window) \/ m.window = <<>>
            BY DEF Report
        <3>. HIDE DEF m
        <3>. QED BY <3>2, <3>3, <3>4
    <2>5. \A i \in Slots : OnTheWay(wire'[a][i].window, made'[a], i)
        <3>. HIDE DEF m
        <3>. QED BY <1>0, <1>2, <1>3, <2>1, <2>3, <2>4, SentKeepsOrder
    <2>6. BaseInOrder(a)'
        <3>1. fleet[a].filed \in Seq(Nat) /\ disk[a].filed \in Seq(Nat)
            BY <1>0, SequencesOfNat
        <3>2. NearlyInOrder(fleet[a].filed, made'[a]) /\ NearlyInOrder(disk[a].filed, made'[a])
            BY <2>1, <2>2, <2>3, <3>1, OrderIsMonotonic DEF BaseInOrder
        <3>. QED BY <1>1, <3>2 DEF BaseInOrder
    <2>. QED BY <2>3, <2>5, <2>6 DEF ProbeInOrder
<1>7. UnknownIsEmpty(a)'
    BY <1>1 DEF OrderInv, AgentInv, UnknownIsEmpty
<1>. QED BY <1>5, <1>6, <1>7 DEF AgentInv

(* What the base may have of an agent after a report: what a registration    *)
(* leaves, or what accepting the report leaves.                              *)
LEMMA ArrivalKeepsEntries ==
    ASSUME FleetAssumption, OrderInv, NEW a \in Agents, NEW i \in Slots
    PROVE  /\ Registered(fleet[a]).filed = <<>>
           /\ Registered(fleet[a]).known
           /\ Accepted(Ensured(fleet[a]), wire[a][i].window).known
           /\ a \in stale \/
                NearlyInOrder(Accepted(Ensured(fleet[a]), wire[a][i].window).filed, made[a])
<1>1. TypeInv
    BY DEF OrderInv, AgentInv
<1>2. ASSUME a \notin stale
      PROVE  NearlyInOrder(Accepted(Ensured(fleet[a]), wire[a][i].window).filed, made[a])
    <2>. DEFINE e == Ensured(fleet[a])
                w == wire[a][i].window
    <2>1. made[a] \in Nat /\ w \in Seq(Nat) /\ fleet[a].filed \in Seq(Nat)
        BY <1>1, SequencesOfNat
    <2>2. ProbeInOrder(a) /\ BaseInOrder(a)
        BY <1>2 DEF OrderInv, AgentInv
    <2>3. Timely(w, made[a])
        BY <2>1, <2>2, OnTheWayIsTimely DEF ProbeInOrder
    <2>4. e.filed = fleet[a].filed \/ e.filed = <<>>
        BY DEF Ensured, Registered
    <2>5. NearlyInOrder(<<>>, made[a]) /\ <<>> \in Seq(Nat)
        BY DEF NearlyInOrder, FleetAssumption
    <2>6. NearlyInOrder(e.filed, made[a]) /\ e.filed \in Seq(Nat)
        BY <2>1, <2>2, <2>4, <2>5 DEF BaseInOrder
    <2>. HIDE DEF e, w
    <2>7. NearlyInOrder(Accepted(e, w).filed, made[a])
        BY <2>1, <2>3, <2>6, AcceptedInOrder
    <2>. QED BY <2>7 DEF e, w
<1>. QED BY <1>2 DEF Registered, Accepted

LEMMA ArriveKeepsOrder ==
    ASSUME FleetAssumption, OrderInv, NEW a \in Agents, NEW i \in Slots,
           RegisterAgent(a, i) \/ AcceptReport(a, i) \/ RejectReport(a, i)
    PROVE  \A b \in Agents : AgentInv(b)'
<1>. DEFINE r == Registered(fleet[a])
            f == Accepted(Ensured(fleet[a]), wire[a][i].window)
<1>1. /\ r.filed = <<>> /\ r.known /\ f.known
      /\ a \in stale \/ NearlyInOrder(f.filed, made[a])
    BY ArrivalKeepsEntries
<1>2. TypeInv
    BY DEF OrderInv, AgentInv
<1>3. /\ UNCHANGED <<made, reports, file, stale>>
      /\ \A b \in Agents : \A j \in Slots : wire'[b][j] \in {wire[b][j], Gone}
    BY <1>2, TakenType DEF RegisterAgent, AcceptReport, RejectReport, probeVars
<1>4. \A b \in Agents : b # a => fleet'[b] = fleet[b] /\ disk'[b] \in {disk[b], fleet[b]}
    BY <1>2 DEF RegisterAgent, AcceptReport, RejectReport, Saved, TypeInv
<1>5. fleet'[a] \in {r, f} /\ disk'[a] \in {disk[a], r, f}
    BY <1>2 DEF RegisterAgent, AcceptReport, RejectReport, Saved, TypeInv
<1>. HIDE DEF r, f
<1>6. ASSUME NEW b \in Agents PROVE UnknownIsEmpty(b)'
    <2>1. UnknownIsEmpty(b)
        BY DEF OrderInv, AgentInv
    <2>. QED BY <1>1, <1>4, <1>5, <2>1 DEF UnknownIsEmpty
<1>7. ASSUME NEW b \in Agents, b \notin stale' PROVE ProbeInOrder(b)'
    <2>1. ProbeInOrder(b)
        BY <1>3, <1>7 DEF OrderInv, AgentInv
    <2>2. \A j \in Slots : OnTheWay(wire'[b][j].window, made[b], j)
        <3>1. \A j \in Slots : OnTheWay(Gone.window, made[b], j)
            BY DEF Gone, OnTheWay
        <3>. QED BY <1>3, <2>1, <3>1 DEF ProbeInOrder
    <2>. QED BY <1>3, <2>1, <2>2 DEF ProbeInOrder
<1>8. ASSUME NEW b \in Agents, b \notin stale' PROVE BaseInOrder(b)'
    <2>1. BaseInOrder(b)
        BY <1>3, <1>8 DEF OrderInv, AgentInv
    <2>2. CASE b # a
        BY <1>3, <1>4, <2>1, <2>2 DEF BaseInOrder
    <2>3. CASE b = a
        <3>1. NearlyInOrder(r.filed, made[a])
            BY <1>1 DEF NearlyInOrder, FleetAssumption
        <3>2. NearlyInOrder(f.filed, made[a])
            BY <1>1, <1>3, <1>8, <2>3
        <3>. QED BY <1>3, <1>5, <2>1, <2>3, <3>1, <3>2 DEF BaseInOrder
    <2>. QED BY <2>2, <2>3
<1>. QED BY <1>6, <1>7, <1>8 DEF AgentInv

LEMMA RestartKeepsOrder ==
    ASSUME FleetAssumption, OrderInv, BaseRestart
    PROVE  \A b \in Agents : AgentInv(b)'
<1>1. UNCHANGED <<made, reports, file, stale, wire>>
    BY DEF BaseRestart, probeVars
<1>2. ASSUME NEW b \in Agents PROVE AgentInv(b)'
    <2>1. \/ fleet'[b] = disk[b] /\ disk'[b] = disk[b]
          \/ fleet'[b] = Unknown /\ disk'[b] = Unknown
        BY DEF BaseRestart
    <2>2. UnknownIsEmpty(b)'
        BY <2>1 DEF OrderInv, AgentInv, UnknownIsEmpty, Unknown
    <2>3. ASSUME b \notin stale' PROVE ProbeInOrder(b)' /\ BaseInOrder(b)'
        <3>1. ProbeInOrder(b) /\ BaseInOrder(b)
            BY <1>1, <2>3 DEF OrderInv, AgentInv
        <3>2. NearlyInOrder(Unknown.filed, made[b])
            BY DEF Unknown, NearlyInOrder, FleetAssumption
        <3>. QED BY <1>1, <2>1, <3>1, <3>2 DEF ProbeInOrder, BaseInOrder
    <2>. QED BY <2>2, <2>3 DEF AgentInv
<1>. QED BY <1>2

LEMMA NextOrderInv ==
    ASSUME FleetAssumption, OrderInv, [Next]_vars
    PROVE  OrderInv'
<1>1. TypeInv'
    BY NextTypeInv DEF OrderInv, AgentInv
<1>2. CASE UNCHANGED vars
    <2>1. \A b \in Agents : AgentInv(b)'
        BY <1>2, OthersKeepOrder DEF vars, probeVars, baseVars
    <2>. QED BY <1>1, <2>1 DEF OrderInv, AgentInv
<1>3. CASE Next
    <2>1. \A b \in Agents : AgentInv(b)'
        BY <1>3, ProbeStartKeepsOrder, CycleKeepsOrder, ArriveKeepsOrder, RestartKeepsOrder
        DEF Next, Arrive
    <2>. QED BY <1>1, <2>1 DEF OrderInv, AgentInv
<1>. QED BY <1>2, <1>3

(* What accepting the message in slot i does, by the invariant. *)
LEMMA AcceptingKeeps ==
    ASSUME FleetAssumption, RoomForLate, OrderInv, NEW a \in Agents \ stale, NEW i \in Slots
    PROVE  LET f == Accepted(Ensured(fleet[a]), wire[a][i].window).filed IN
           /\ Range(wire[a][i].window) \subseteq Range(f)
           /\ \A r \in Range(fleet[a].filed) \cap Range(Sendable(a)) : r \in Range(f)
<1>. DEFINE e == Ensured(fleet[a])
            w == wire[a][i].window
<1>1. TypeInv /\ ProbeInOrder(a) /\ BaseInOrder(a) /\ UnknownIsEmpty(a)
    BY DEF OrderInv, AgentInv
<1>2. made[a] \in Nat /\ w \in Seq(Nat) /\ fleet[a].filed \in Seq(Nat) /\ reports[a] \in Seq(Nat)
    BY <1>1, SequencesOfNat
<1>3. Timely(w, made[a])
    BY <1>1, <1>2, OnTheWayIsTimely DEF ProbeInOrder
<1>4. e.filed = fleet[a].filed
    BY <1>1 DEF Ensured, Registered, UnknownIsEmpty
<1>5. NearlyInOrder(e.filed, made[a]) /\ e.filed \in Seq(Nat)
    BY <1>1, <1>2, <1>4 DEF BaseInOrder
<1>. HIDE DEF e, w
<1>6. /\ Range(w) \subseteq Range(Accepted(e, w).filed)
      /\ \A x \in Range(e.filed) : made[a] <= x + Slack => x \in Range(Accepted(e, w).filed)
    BY <1>2, <1>3, <1>5, AcceptedKeepsNew
<1>7. ASSUME NEW x \in Range(Sendable(a)) PROVE made[a] <= x + Slack
    <2>1. OnTheWay(Latest(reports[a], Window), made[a], MaxLate + 1)
        BY <1>1, <1>2, MessageInOrder DEF ProbeInOrder
    <2>2. Latest(reports[a], Window) \in Seq(Nat)
        BY <1>2, LatestIs DEF FleetAssumption
    <2>3. MaxLate + 1 \in Slots
        BY DEF Slots, FleetAssumption
    <2>4. Timely(Latest(reports[a], Window), made[a])
        BY <1>2, <2>1, <2>2, <2>3, OnTheWayIsTimely
    <2>5. PICK k \in 1 .. Len(Latest(reports[a], Window)) : x = Latest(reports[a], Window)[k]
        BY <2>2, RangeEquality DEF Sendable
    <2>. QED BY <2>4, <2>5 DEF Timely
<1>. QED BY <1>4, <1>6, <1>7 DEF e, w

LEMMA ArrivesStep ==
    ASSUME FleetAssumption, RoomForLate, OrderInv, NEW a \in Agents \ stale, NEW i \in Slots,
           AcceptReport(a, i)
    PROVE  Range(wire[a][i].window) \subseteq Range(fleet'[a].filed)
<1>1. fleet'[a] = Accepted(Ensured(fleet[a]), wire[a][i].window)
    BY DEF AcceptReport, OrderInv, AgentInv, TypeInv
<1>. QED BY <1>1, AcceptingKeeps

LEMMA KeptStep ==
    ASSUME FleetAssumption, RoomForLate, OrderInv, [Next]_vars, NEW a \in Agents \ stale,
           NEW r \in Range(fleet[a].filed) \cap Range(Sendable(a))
    PROVE  r \in Range(fleet'[a].filed) \/ fleet'[a].filed = <<>> \/ BaseRestart
<1>1. CASE UNCHANGED fleet
    BY <1>1
<1>2. ASSUME NEW b \in Agents, NEW i \in Slots,
             RegisterAgent(b, i) \/ AcceptReport(b, i) \/ RejectReport(b, i)
      PROVE  r \in Range(fleet'[a].filed) \/ fleet'[a].filed = <<>>
    <2>1. CASE b # a
        BY <1>2, <2>1 DEF RegisterAgent, AcceptReport, RejectReport, OrderInv, AgentInv, TypeInv
    <2>2. CASE b = a
        <3>1. fleet'[a] = Registered(fleet[a])
              \/ fleet'[a] = Accepted(Ensured(fleet[a]), wire[a][i].window)
            BY <1>2, <2>2 DEF RegisterAgent, AcceptReport, RejectReport, OrderInv, AgentInv, TypeInv
        <3>. QED BY <3>1, AcceptingKeeps DEF Registered
    <2>. QED BY <2>1, <2>2
<1>3. ASSUME NEW b \in Agents, ProbeStart(b) \/ Cycle(b) \/ CycleWithoutReAct(b)
      PROVE  UNCHANGED fleet
    BY <1>3 DEF ProbeStart, Cycle, CycleWithoutReAct, baseVars
<1>. QED BY <1>1, <1>2, <1>3 DEF Next, Arrive, vars, baseVars

(* Whatever is lost, overtaken, restarted or not saved: messages, memories   *)
(* and files stay as near to one another as OrderInv says.                   *)
THEOREM OrderTheorem == Spec => []OrderInv
<1>1. Init => OrderInv
    BY FleetAssumption, InitOrderInv
<1>2. OrderInv /\ [Next]_vars => OrderInv'
    BY FleetAssumption, NextOrderInv
<1>. QED BY <1>1, <1>2, PTL DEF Spec

(* With room for the late ones, a report that has been accepted has brought  *)
(* all its threat reports: none is pushed out by the later ones of the same  *)
(* message (accept_report).                                                  *)
THEOREM WindowArrivesTheorem ==
    ASSUME RoomForLate
    PROVE  Spec => WindowArrives
<1>1. OrderInv => \A a \in Agents \ stale : \A i \in Slots :
                     AcceptReport(a, i) =>
                         Range(wire[a][i].window) \subseteq Range(fleet'[a].filed)
    BY FleetAssumption, ArrivesStep
<1>. QED BY <1>1, OrderTheorem, PTL DEF WindowArrives, Spec

(* With room for the late ones, the base keeps what the probe is still going *)
(* to send, unless the agent registers again or the base restarts            *)
(* (accept_report against latest_threat_reports).                            *)
THEOREM ResentIsKeptTheorem ==
    ASSUME RoomForLate
    PROVE  Spec => ResentIsKept
<1>1. OrderInv /\ [Next]_vars =>
            \A a \in Agents \ stale : \A r \in Range(fleet[a].filed) \cap Range(Sendable(a)) :
                \/ r \in Range(fleet'[a].filed)
                \/ r \notin Range(Sendable(a)')
                \/ fleet'[a].filed = <<>>
                \/ BaseRestart
    BY FleetAssumption, KeptStep
<1>. QED BY <1>1, OrderTheorem, PTL DEF ResentIsKept, Spec

================================================================================
