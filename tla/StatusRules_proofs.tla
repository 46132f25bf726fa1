------------------------- MODULE StatusRules_proofs -------------------------
(***************************************************************************)
(* Lemmas about the operators of StatusRules: what trimming the flap       *)
(* history leaves, and what one result does to a target's state.  The      *)
(* proofs about TargetFSM and ConMon rest on them.                         *)
(***************************************************************************)
EXTENDS StatusRules, FiniteSetTheorems, SequenceTheorems, WellFoundedInduction,
        TLAPS

-----------------------------------------------------------------------------
(* The flap tracker's window.                                               *)

LessOnNat == {p \in Nat \X Nat : p[1] < p[2]}

\* A non-empty set of naturals has a least element.
LEMMA LeastNatural ==
    ASSUME NEW S \in SUBSET Nat, S # {}
    PROVE  \E m \in S : \A k \in S : m <= k
<1>1. IsWellFoundedOn(LessOnNat, Nat)
    BY NatLessThanWellFounded DEF OpToRel, LessOnNat
<1>2. PICK m \in S : \A k \in S : ~ (<<k, m>> \in LessOnNat)
    BY <1>1, WFMin
<1>3. \A k \in S : <<k, m>> \in LessOnNat <=> k < m
    BY DEF LessOnNat
<1>4. \A k \in S : ~ (k < m)
    BY <1>2, <1>3, Zenon
<1>5. \A k \in S : k \in Nat /\ m \in Nat
    OBVIOUS
<1> QED
    BY <1>4, <1>5, SMT

\* The scan of trim stops, and everything before the place where it stops is
\* older than the window.
LEMMA FirstLiveProperties ==
    ASSUME NEW h \in Seq(Nat), NEW t \in Nat
    PROVE  LET i == FirstLive(h, t)
           IN  /\ i \in 1 .. Len(h) + 1
               /\ \A j \in 1 .. i - 1 : h[j] < t - FlapWindow
               /\ i <= Len(h) => h[i] >= t - FlapWindow
<1> DEFINE Stop(i) == i <= Len(h) => h[i] >= t - FlapWindow
           Stops == {i \in 1 .. Len(h) + 1 : Stop(i)}
<1>1. Stops \in SUBSET Nat /\ Stops # {}
  <2>1. Len(h) + 1 \in Stops
    BY LenProperties
  <2> QED
    BY <2>1
<1>2. PICK m \in Stops : \A k \in Stops : m <= k
  <2> HIDE DEF Stops
  <2> QED
    BY <1>1, LeastNatural
<1>3. m \in 1 .. Len(h) + 1 /\ (m <= Len(h) => h[m] >= t - FlapWindow)
    OBVIOUS
<1>4. ASSUME NEW j \in 1 .. m - 1
      PROVE  h[j] < t - FlapWindow
  <2>1. j \in 1 .. Len(h) /\ h[j] \in Nat
    BY <1>3, LenProperties, ElementOfSeq
  <2>2. j \notin Stops
    BY <1>2, <1>3, LenProperties
  <2> QED
    BY <2>1, <2>2, ThresholdAssumption DEF ThresholdAssumption
<1> QED
  BY <1>3, <1>4 DEF FirstLive

\* A history in increasing order.
Increasing(h) == \A i, j \in 1 .. Len(h) : i < j => h[i] < h[j]

\* What trim returns: the entries from some place on, and in an increasing
\* history exactly those inside the window.
LEMMA TrimProperties ==
    ASSUME NEW h \in Seq(Nat), NEW t \in Nat
    PROVE  \E i \in 1 .. Len(h) + 1 :
             /\ Trim(h, t) \in Seq(Nat)
             /\ Len(Trim(h, t)) = Len(h) + 1 - i
             /\ \A k \in 1 .. Len(h) + 1 - i : Trim(h, t)[k] = h[i + k - 1]
             /\ \A j \in 1 .. i - 1 : h[j] < t - FlapWindow
             /\ Increasing(h) =>
                  \A k \in 1 .. Len(h) + 1 - i : Trim(h, t)[k] >= t - FlapWindow
<1> DEFINE i == FirstLive(h, t)
           u == Trim(h, t)
<1>1. Len(h) \in Nat /\ \A j \in 1 .. Len(h) : h[j] \in Nat
    BY LenProperties, ElementOfSeq
<1>2. /\ i \in 1 .. Len(h) + 1
      /\ \A j \in 1 .. i - 1 : h[j] < t - FlapWindow
      /\ i <= Len(h) => h[i] >= t - FlapWindow
    BY FirstLiveProperties
<1> HIDE DEF i
<1>3. u = SubSeq(h, i, Len(h))
    BY DEF Trim, i
<1>4. /\ u \in Seq(Nat)
      /\ Len(u) = Len(h) + 1 - i
      /\ \A k \in 1 .. Len(h) + 1 - i : u[k] = h[i + k - 1]
  <2>1. /\ SubSeq(h, i, Len(h)) \in Seq(Nat)
        /\ Len(SubSeq(h, i, Len(h))) =
             IF i <= Len(h) THEN Len(h) - i + 1 ELSE 0
        /\ \A k \in 1 .. Len(h) - i + 1 : SubSeq(h, i, Len(h))[k] = h[i + k - 1]
    BY <1>1, <1>2, SubSeqProperties
  <2> QED
    BY <1>1, <1>2, <1>3, <2>1
<1> HIDE DEF u
<1>5. ASSUME Increasing(h), NEW k \in 1 .. Len(h) + 1 - i
      PROVE  u[k] >= t - FlapWindow
  <2>1. i <= Len(h) /\ h[i] >= t - FlapWindow /\ u[k] = h[i + k - 1]
    BY SMTT(30), <1>1, <1>2, <1>4
  <2>2. i + k - 1 \in 1 .. Len(h) /\ i \in 1 .. Len(h)
    BY <1>1, <1>2, <2>1
  <2>3. h[i + k - 1] >= h[i]
    BY SMTT(30), <1>1, <1>5, <2>2 DEF Increasing
  <2> QED
    BY <1>1, <2>1, <2>2, <2>3, ThresholdAssumption DEF ThresholdAssumption
<1> QED
    BY <1>2, <1>4, <1>5 DEF u

\* What Record followed by Count leaves of an increasing history whose entries
\* are older than the new one: an increasing history that lies in the window,
\* ends with the new entry and holds every old entry of the window.
LEMMA KeptProperties ==
    ASSUME NEW h \in Seq(Nat), NEW t \in Nat, Increasing(h),
           \A j \in 1 .. Len(h) : h[j] < t
    PROVE  LET kept == Trim(Record(h, t), t)
           IN  /\ kept \in Seq(Nat)
               /\ Len(kept) \in 1 .. Len(h) + 1
               /\ Increasing(kept)
               /\ \A k \in 1 .. Len(kept) : t - FlapWindow <= kept[k] /\ kept[k] <= t
               /\ kept[Len(kept)] = t
               /\ \A j \in 1 .. Len(h) : h[j] >= t - FlapWindow =>
                     \E k \in 1 .. Len(kept) : kept[k] = h[j]
<1> DEFINE old == Trim(h, t)
           rec == Record(h, t)
           kept == Trim(rec, t)
<1> USE ThresholdAssumption DEF ThresholdAssumption
<1>1. Len(h) \in Nat /\ \A j \in 1 .. Len(h) : h[j] \in Nat
    BY LenProperties, ElementOfSeq
<1>2. PICK a \in 1 .. Len(h) + 1 :
        /\ old \in Seq(Nat)
        /\ Len(old) = Len(h) + 1 - a
        /\ \A k \in 1 .. Len(h) + 1 - a : old[k] = h[a + k - 1]
        /\ \A j \in 1 .. a - 1 : h[j] < t - FlapWindow
    BY TrimProperties
<1> HIDE DEF old
<1>3. /\ rec \in Seq(Nat)
      /\ Len(rec) = Len(h) + 2 - a
      /\ \A k \in 1 .. Len(h) + 1 - a : rec[k] = h[a + k - 1]
      /\ rec[Len(h) + 2 - a] = t
  <2>1. rec = Append(old, t)
    BY DEF Record, old
  <2> HIDE DEF rec
  <2>2. /\ rec \in Seq(Nat)
        /\ Len(rec) = Len(old) + 1
        /\ \A k \in 1 .. Len(old) : rec[k] = old[k]
        /\ rec[Len(old) + 1] = t
    <3>1. old \in Seq(Nat) /\ t \in Nat
      BY <1>2
    <3>2. /\ Append(old, t) \in Seq(Nat)
          /\ Len(Append(old, t)) = Len(old) + 1
          /\ \A k \in 1 .. Len(old) : Append(old, t)[k] = old[k]
          /\ Append(old, t)[Len(old) + 1] = t
      BY <3>1, AppendProperties
    <3> QED
      BY <2>1, <3>2
  <2>3. Len(old) = Len(h) + 1 - a /\ Len(old) + 1 = Len(h) + 2 - a
    BY <1>1, <1>2
  <2> QED
    BY <1>2, <2>2, <2>3
<1> HIDE DEF rec
<1>4. Increasing(rec)
  <2> SUFFICES ASSUME NEW i \in 1 .. Len(rec), NEW j \in 1 .. Len(rec), i < j
               PROVE  rec[i] < rec[j]
    BY DEF Increasing
  <2>1. i \in 1 .. Len(h) + 1 - a /\ rec[i] = h[a + i - 1] /\ a + i - 1 \in 1 .. Len(h)
    BY SMTT(30), <1>1, <1>3
  <2>2. CASE j = Len(h) + 2 - a
    BY <1>3, <2>1, <2>2
  <2>3. CASE j \in 1 .. Len(h) + 1 - a
    <3>1. rec[j] = h[a + j - 1] /\ a + j - 1 \in 1 .. Len(h)
      BY <1>1, <1>3, <2>3
    <3>2. a + i - 1 < a + j - 1
      BY <1>1, <1>3
    <3>3. h[a + i - 1] < h[a + j - 1]
      BY <2>1, <3>1, <3>2 DEF Increasing
    <3> QED
      BY <2>1, <3>1, <3>3
  <2>4. j = Len(h) + 2 - a \/ j \in 1 .. Len(h) + 1 - a
    BY SMTT(30), <1>1, <1>3
  <2> QED
    BY <2>2, <2>3, <2>4
<1>5. PICK b \in 1 .. Len(rec) + 1 :
        /\ kept \in Seq(Nat)
        /\ Len(kept) = Len(rec) + 1 - b
        /\ \A k \in 1 .. Len(rec) + 1 - b : kept[k] = rec[b + k - 1]
        /\ \A j \in 1 .. b - 1 : rec[j] < t - FlapWindow
        /\ \A k \in 1 .. Len(rec) + 1 - b : kept[k] >= t - FlapWindow
    BY <1>3, <1>4, TrimProperties
<1> HIDE DEF kept
<1>6. b <= Len(rec)
  <2>1. rec[Len(rec)] = t /\ Len(rec) \in Nat /\ Len(rec) >= 1
    BY <1>1, <1>3
  <2>2. ~ Len(rec) \in 1 .. b - 1
    BY <1>5, <2>1
  <2> QED
    BY <2>1, <2>2
<1>7. kept \in Seq(Nat) /\ Len(kept) \in 1 .. Len(h) + 1
    BY SMTT(30), <1>1, <1>3, <1>5, <1>6
<1>8. \A k \in 1 .. Len(kept) :
         kept[k] = rec[b + k - 1] /\ b + k - 1 \in 1 .. Len(rec)
    BY <1>1, <1>3, <1>5
<1>9. kept[Len(kept)] = t
  <2>1. Len(kept) \in 1 .. Len(kept)
    BY <1>7
  <2>2. b + Len(kept) - 1 = Len(h) + 2 - a
    BY <1>1, <1>3, <1>5
  <2> QED
    BY <1>3, <1>8, <2>1, <2>2
<1>10. Increasing(kept)
  <2> SUFFICES ASSUME NEW i \in 1 .. Len(kept), NEW j \in 1 .. Len(kept), i < j
               PROVE  kept[i] < kept[j]
    BY DEF Increasing
  <2>1. /\ b + i - 1 \in 1 .. Len(rec) /\ kept[i] = rec[b + i - 1]
        /\ b + j - 1 \in 1 .. Len(rec) /\ kept[j] = rec[b + j - 1]
    BY <1>8
  <2>2. b + i - 1 < b + j - 1
    BY <1>5, <1>7
  <2> QED
    BY <1>4, <2>1, <2>2 DEF Increasing
<1>11. \A k \in 1 .. Len(kept) : t - FlapWindow <= kept[k] /\ kept[k] <= t
  <2> TAKE k \in 1 .. Len(kept)
  <2>1. kept[k] >= t - FlapWindow
    BY <1>5
  <2>2. k = Len(kept) \/ kept[k] < kept[Len(kept)]
    BY <1>7, <1>10 DEF Increasing
  <2>3. kept[k] \in Nat
    BY <1>7, ElementOfSeq
  <2> QED
    BY <1>9, <2>1, <2>2, <2>3
<1>12. ASSUME NEW j \in 1 .. Len(h), h[j] >= t - FlapWindow
       PROVE  \E k \in 1 .. Len(kept) : kept[k] = h[j]
  <2>1. j >= a
    BY <1>1, <1>2, <1>12
  <2>2. j - a + 1 \in 1 .. Len(h) + 1 - a
    BY <1>1, <2>1
  <2>3. rec[j - a + 1] = h[a + (j - a + 1) - 1]
    BY <1>3, <2>2
  <2>4. a + (j - a + 1) - 1 = j
    OBVIOUS
  <2>5. rec[j - a + 1] = h[j] /\ j - a + 1 \in 1 .. Len(rec)
    BY <1>1, <1>3, <2>2, <2>3, <2>4
  <2>6. j - a + 1 >= b
    BY SMTT(30), <1>1, <1>5, <1>12, <2>5
  <2>7. (j - a + 1) - b + 1 \in 1 .. Len(kept)
    BY <1>3, <1>5, <2>5, <2>6
  <2>8. kept[(j - a + 1) - b + 1] = rec[j - a + 1]
    BY <1>5, <2>7
  <2> QED
    BY <2>5, <2>7, <2>8
<1> QED
    BY <1>7, <1>9, <1>10, <1>11, <1>12 DEF kept, rec

-----------------------------------------------------------------------------
(* One result.                                                              *)

\* The counters of one result.
LEMMA CountedProperties ==
    ASSUME NEW s \in TargetState, NEW r \in ProbeResult
    PROVE  LET c == Counted(s, r)
           IN  /\ c \in TargetState
               /\ c.status = s.status
               /\ c.flapCount = s.flapCount
               /\ c.lastProbeAt = r.ts
               /\ c.fails = (IF r.success THEN 0 ELSE s.fails + 1)
               /\ c.succ = (IF r.success THEN s.succ + 1 ELSE 0)
<1> DEFINE c == Counted(s, r)
           fails == IF r.success THEN 0 ELSE s.fails + 1
           succ == IF r.success THEN s.succ + 1 ELSE 0
<1>1. s.fails \in Nat /\ s.succ \in Nat /\ r.ts \in Nat /\ r.success \in BOOLEAN
    BY DEF TargetState, ProbeResult
<1>2. c = [s EXCEPT !.lastProbeAt = r.ts, !.fails = fails, !.succ = succ]
    BY DEF Counted
<1>3. fails \in Nat /\ succ \in Nat
    BY <1>1
<1> HIDE DEF c, fails, succ
<1>4. /\ c \in TargetState
      /\ c.status = s.status
      /\ c.flapCount = s.flapCount
      /\ c.lastProbeAt = r.ts
      /\ c.fails = fails
      /\ c.succ = succ
    BY <1>1, <1>2, <1>3 DEF TargetState
<1> QED
    BY <1>4 DEF c, fails, succ

\* Where Derive can lead from each status, and on which evidence.
LEMMA DeriveProperties ==
    ASSUME NEW s \in TargetState, NEW r, NEW target
    PROVE  LET d == Derive(s, r, target)
           IN  /\ d \in Status
               /\ s.status \in {"MAINTENANCE", "SILENT"} => d = s.status
               /\ s.status = "UNKNOWN" => d \in {"UNKNOWN", "UP"}
               /\ s.status \in {"UP", "DEGRADED"} =>
                     /\ d \in {"UP", "DEGRADED", "DOWN"}
                     /\ d = "DOWN" => s.fails >= DownTh(target)
               /\ s.status \in {"DOWN", "FLAPPING"} =>
                     /\ d \in {"UP", "DOWN"}
                     /\ d = "UP" => s.succ >= RecoveryTh(target)
<1>1. s.status \in Status
    BY DEF TargetState
<1> QED
    BY <1>1, Zenon DEF Derive, Starting, Status

\* The two outcomes of Process.  Either nothing is announced and the flap
\* history is left alone, or a change is recorded in it.
QuietOutcome(s, h, p) ==
    /\ p.history = h
    /\ p.events = {}
    /\ p.state.status \in {s.status, "MAINTENANCE"}
    /\ s.status = "FLAPPING" => p.state.status = "MAINTENANCE"

RecordedOutcome(id, s, h, r, target, p) ==
    /\ s.status \notin {"MAINTENANCE", "SILENT"}
    /\ p.history = Trim(Record(h, r.ts), r.ts)
    /\ p.state.flapCount = Len(p.history)
    /\ p.events = EventFor(id, s.status, p.state.status, r.ts)
    /\ \/ /\ Len(p.history) >= FlapThreshold
          /\ p.state.status = "FLAPPING"
       \/ /\ Len(p.history) < FlapThreshold
          /\ p.state.status = Derive(Counted(s, r), r, target)
          /\ p.state.status # s.status

\* The state processing leaves, with its history: types, counters, time stamp,
\* and the status by its cause.
LEMMA ProcessedProperties ==
    ASSUME NEW id, NEW s \in TargetState, NEW h \in Seq(Nat),
           NEW r \in ProbeResult, NEW target
    PROVE  LET p == Processed(id, s, h, r, target)
           IN  /\ p.state \in TargetState
               /\ p.history \in Seq(Nat)
               /\ p.state.lastProbeAt = r.ts
               /\ p.state.fails = (IF r.success THEN 0 ELSE s.fails + 1)
               /\ p.state.succ = (IF r.success THEN s.succ + 1 ELSE 0)
               /\ \/ QuietOutcome(s, h, p)
                  \/ RecordedOutcome(id, s, h, r, target, p)
<1> DEFINE p == Processed(id, s, h, r, target)
           c == Counted(s, r)
           derived == Derive(c, r, target)
           quiet(status) == [state   |-> [c EXCEPT !.status = status],
                             history |-> h,
                             events  |-> {}]
<1>1. /\ c \in TargetState
      /\ c.status = s.status
      /\ c.lastProbeAt = r.ts
      /\ c.fails = (IF r.success THEN 0 ELSE s.fails + 1)
      /\ c.succ = (IF r.success THEN s.succ + 1 ELSE 0)
    BY CountedProperties
<1> HIDE DEF c
<1>2. /\ derived \in Status
      /\ s.status \in {"MAINTENANCE", "SILENT"} => derived = s.status
      /\ s.status = "FLAPPING" => derived # s.status
    BY <1>1, DeriveProperties
<1> HIDE DEF derived
<1>3. r.ts \in Nat /\ s.status \in Status
    BY DEF ProbeResult, TargetState
<1>4. ASSUME NEW status \in Status, status = "MAINTENANCE" \/ status = s.status,
             s.status = "FLAPPING" => status = "MAINTENANCE",
             p = quiet(status)
      PROVE  /\ p.state \in TargetState
             /\ p.history \in Seq(Nat)
             /\ p.state.lastProbeAt = c.lastProbeAt
             /\ p.state.fails = c.fails
             /\ p.state.succ = c.succ
             /\ QuietOutcome(s, h, p)
    BY SMTT(30), <1>1, <1>4 DEF QuietOutcome, TargetState
<1>5. CASE IsActive(target.maintenance, r.ts)
  <2>1. p = quiet("MAINTENANCE")
    BY <1>5 DEF Processed, c
  <2> QED
    BY <1>1, <1>4, <2>1 DEF Status
<1>6. CASE /\ ~ IsActive(target.maintenance, r.ts)
           /\ s.status = "SILENT" \/ derived = s.status
  <2>1. p = quiet(s.status)
    BY <1>6 DEF Processed, c, derived
  <2>2. s.status # "FLAPPING"
    BY <1>2, <1>6
  <2> QED
    BY <1>1, <1>3, <1>4, <2>1, <2>2
<1>7. CASE /\ ~ IsActive(target.maintenance, r.ts)
           /\ s.status # "SILENT"
           /\ derived # s.status
  <2> DEFINE kept == Trim(Record(h, r.ts), r.ts)
             status == IF Len(kept) >= FlapThreshold THEN "FLAPPING" ELSE derived
  <2>1. p = Changed(id, s, c, derived, h, r.ts)
    BY <1>7 DEF Processed, c, derived
  <2>2. kept \in Seq(Nat) /\ Len(kept) \in Nat
    <3>1. Trim(h, r.ts) \in Seq(Nat)
      BY <1>3, TrimProperties
    <3>2. Record(h, r.ts) \in Seq(Nat)
      BY <1>3, <3>1, AppendProperties DEF Record
    <3>3. kept \in Seq(Nat)
      BY <1>3, <3>2, TrimProperties
    <3> QED
      BY <3>3, LenProperties
  <2> HIDE DEF kept
  <2>3. status \in Status
    BY <1>2 DEF Status
  <2>4. /\ p.state = [c EXCEPT !.status = status, !.flapCount = Len(kept)]
        /\ p.history = kept
        /\ p.events = EventFor(id, s.status, status, r.ts)
    BY <2>1 DEF Changed, kept
  <2> HIDE DEF status
  <2>5. /\ p.state \in TargetState
        /\ p.state.status = status
        /\ p.state.flapCount = Len(kept)
        /\ p.state.lastProbeAt = c.lastProbeAt
        /\ p.state.fails = c.fails
        /\ p.state.succ = c.succ
    BY <1>1, <2>2, <2>3, <2>4 DEF TargetState
  <2>6. s.status \notin {"MAINTENANCE", "SILENT"}
    BY <1>2, <1>7
  <2>7. \/ Len(kept) >= FlapThreshold /\ status = "FLAPPING"
        \/ Len(kept) < FlapThreshold /\ status = derived /\ status # s.status
    BY <1>7, <2>2, ThresholdAssumption DEF status, ThresholdAssumption
  <2>8. RecordedOutcome(id, s, h, r, target, p)
    BY <2>4, <2>5, <2>6, <2>7 DEF RecordedOutcome, kept, derived, c
  <2> QED
    BY <1>1, <2>2, <2>4, <2>5, <2>8
<1> QED
    BY <1>5, <1>6, <1>7
=============================================================================
