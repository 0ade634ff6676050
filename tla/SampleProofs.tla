---------------------------- MODULE SampleProofs ----------------------------
(***************************************************************************)
(* Theorems about what becomes of a snapshot, for every scale of the clock *)
(* and every budget of samples, pressure events, sleeps, clock steps and   *)
(* failed clock reads.                                                     *)
(* Two arguments meet in one invariant.  The dispatch thread stores level, *)
(* time and count, the reader loads count, level and time, so the level it *)
(* holds is never older than its count, and the time it holds is never     *)
(* later than that of the newest event it loaded anything of.  And as long *)
(* as the clock does not step back, everything kept of earlier samples is  *)
(* dated before the sample in hand, which rounding to milliseconds keeps   *)
(* in order.                                                               *)
(***************************************************************************)
EXTENDS SampleEvidence, SequenceTheorems, TLAPS

BudgetSet == [samples : Nat, events : Nat, steps : Nat, sleeps : Nat, failures : Nat,
              monitor : BOOLEAN, found : SUBSET Found, answers : SUBSET Answers]
GhostFields == {"stepped", "bytes", "rates", "rate_at", "policy", "growth", "seen", "times"}
CalibrationFields == {"total", "complete", "incomplete", "first", "last", "peak", "peak_growth",
                      "baseline", "last_rate_at"}

Processed == {"load_deliveries", "load_mask", "load_ns", "record"}
Snapped == {"process"} \cup Processed
Places == {"start", "snapshot"} \cup Snapped

Clocks == 0 .. MaxClock

WorldOK ==
    /\ clock \in Clocks /\ mono \in Nat /\ pc \in Places /\ budget \in BudgetSet
    /\ DOMAIN ghost = GhostFields /\ ghost.stepped \in BOOLEAN
    /\ last_started_at \in Clocks \cup {None}

\* What is left of the event the dispatch thread is storing.
HandlerOK ==
    /\ handler \in Seq([store : {"mask", "ns", "deliveries"}, mask : Masks])
    /\ Len(handler) <= 3
    /\ Len(handler) = 3 => /\ handler[1].store = "mask" /\ handler[2].store = "ns"
                           /\ handler[3].store = "deliveries"
    /\ Len(handler) = 2 => handler[1].store = "ns" /\ handler[2].store = "deliveries"
    /\ Len(handler) = 1 => handler[1].store = "deliveries"

\* The three counters, apart by no more than the event being stored.
CountersOK ==
    /\ DOMAIN pressure = {"deliveries", "mask", "ns", "event"}
    /\ pressure.deliveries \in Nat /\ pressure.event \in Nat /\ pressure.ns \in Nat
    /\ pressure.mask \in Masks \cup {{}}
    /\ pressure.event = pressure.deliveries + (IF Len(handler) \in {1, 2} THEN 1 ELSE 0)
    /\ ghost.times \in Seq(Nat)
    /\ pressure.event = Len(ghost.times) + (IF Len(handler) = 2 THEN 1 ELSE 0)
    /\ pressure.ns <= mono
    /\ Len(ghost.times) > 0 => pressure.ns <= ghost.times[Len(ghost.times)]

\* The event whose time the last sample loaded.
Told == IF ghost.seen = None THEN 0 ELSE ghost.seen.timed
ToldOK == Told \in Nat /\ Told <= Len(ghost.times)

\* The newest event of which the reader loaded the level or the time.
Newest == IF loaded.timed > loaded.event THEN loaded.timed ELSE loaded.event

\* What the reader has loaded of them, one by one.
LoadedOK ==
    /\ pc \in {"load_deliveries", "load_mask", "load_ns"} => budget.monitor
    /\ pc = "load_mask" => loaded.deliveries \in Nat /\ loaded.deliveries <= pressure.deliveries
    /\ pc = "load_ns" =>
          /\ loaded.deliveries \in Nat /\ loaded.event \in Nat
          /\ loaded.deliveries <= loaded.event /\ loaded.event <= pressure.event
          /\ Told <= loaded.event
    /\ pc = "record" /\ budget.monitor =>
          /\ loaded.deliveries \in Nat /\ loaded.event \in Nat /\ loaded.ns \in Nat
          /\ loaded.deliveries <= loaded.event
          /\ loaded.ns <= mono /\ Told <= loaded.event
          /\ loaded.timed \in Nat /\ loaded.timed <= Len(ghost.times)
          /\ Newest \in DOMAIN ghost.times => loaded.ns <= ghost.times[Newest]

\* The sample in hand.
CurrentOK ==
    /\ pc # "start" => current.started_at \in Clocks
    /\ pc \in Snapped => current.finished_at \in Clocks /\ current.outcome \in Outcomes
    /\ pc \in Processed => current.processed_at \in Clocks
    /\ ~ghost.stepped =>
          /\ pc # "start" => current.started_at <= clock
          /\ pc \in Snapped => current.started_at < current.finished_at
                               /\ current.finished_at <= clock
          /\ pc \in Processed => current.finished_at <= current.processed_at
                                 /\ current.processed_at <= clock

\* The policy's number is the complete measurement of a window that is not empty.
PolicyOK ==
    /\ (pc \in Processed /\ ghost.policy # None) =>
          /\ current.outcome.kind = "Complete" /\ current.outcome.bytes = ghost.policy
          /\ current.started_at < current.finished_at
    /\ PolicyInputIsReported

\* All that is kept of earlier samples is dated before the one in hand.
Bound == IF pc = "start" THEN clock ELSE current.started_at

PastOK ==
    ~ghost.stepped =>
        /\ last_started_at # None => last_started_at <= Bound
        /\ ghost.growth.sample # None => ghost.growth.sample.at <= Bound
        /\ calibration.last_rate_at # None => calibration.last_rate_at <= Bound
        /\ \A i \in 1 .. Len(report_samples) :
              report_samples[i].processed_at_ms <= duration_ms(Bound)

\* The highest of a set of numbers, or None of the empty one.
Highest(peak, S) ==
    /\ S \subseteq Int
    /\ \/ S = {} /\ peak = None
       \/ peak \in S /\ \A n \in S : n <= peak

CalibrationOK ==
    /\ DOMAIN calibration = CalibrationFields
    /\ calibration.total \in Nat /\ calibration.complete \in Nat /\ calibration.incomplete \in Nat
    /\ calibration.complete + calibration.incomplete = calibration.total
    /\ calibration.complete = 0 <=> ghost.bytes = {}
    /\ ghost.rates \subseteq Int
    /\ Highest(calibration.peak, ghost.bytes)
    /\ Highest(calibration.peak_growth, {r \in ghost.rates : r > 0})

\* The baseline is the last sample, when that was complete and in order.
GrowthOK ==
    /\ DOMAIN ghost.growth = {"observed", "before", "sample"}
    /\ ghost.growth.sample \in [at : Nat, outcome : Outcomes] \cup {None}
    /\ calibration.baseline # None =>
          /\ calibration.baseline \in [at : Nat, bytes : Nat]
          /\ ghost.growth.sample # None /\ ghost.growth.sample.outcome.kind = "Complete"
          /\ ghost.growth.sample.at = calibration.baseline.at
          /\ ghost.growth.sample.outcome.bytes = calibration.baseline.bytes
    /\ (calibration.baseline = None /\ ~ghost.stepped) =>
          ghost.growth.sample = None \/ ghost.growth.sample.outcome.kind # "Complete"
    /\ calibration.last_rate_at = None => ghost.rates = {}
    /\ calibration.last_rate_at # None =>
          /\ calibration.last_rate_at \in Nat
          /\ ghost.rate_at = duration_ms(calibration.last_rate_at)
    /\ GrowthIsReal

Observations ==
    [tag : {"Available"}, value : Int \cup {"Critical", "Warning", "Normal"}]
        \cup [tag : {"Stale"}, last_seen_at_ms : Nat]
        \cup [tag : {"Error"}, code : {"PermissionDenied", "ProcessMissing", "Internal",
                                        "MalformedKernelData", "ClockAnomaly"}]
        \cup {Unknown, Unavailable}

Windows ==
    [captured_at_ms : Nat, processed_at_ms : Nat, window_ms : Nat,
     aggregate_footprint_bytes : Observations, advisory : [AdvisoryFields -> Observations],
     metadata : [AdvisoryFields ->
                    [captured_at_ms : Nat,
                     freshness : {"Fresh", "InitialUnknown", "Stale", "Unavailable"}]]]

ReportOK ==
    /\ report_samples \in Seq(Windows)
    /\ Len(report_samples) <= MAX_SAMPLE_HISTORY_CAPACITY
    /\ ~ghost.stepped =>
          /\ samples_ordered(report_samples)
          /\ \A i \in 1 .. Len(report_samples) : valid_advisory_metrics(report_samples[i])

IInv ==
    /\ WorldOK /\ HandlerOK /\ CountersOK /\ ToldOK /\ LoadedOK /\ CurrentOK /\ PolicyOK
    /\ PastOK /\ CalibrationOK /\ GrowthOK /\ ReportOK /\ PressureIsCurrent

-----------------------------------------------------------------------------
(* Rounding and maxima.                                                    *)

LEMMA Rounded ==
    ASSUME NEW a \in Nat
    PROVE  /\ duration_ms(a) \in Nat
           /\ positive_duration_ms(a) \in Nat
           /\ a > 0 => positive_duration_ms(a) > 0
<1>1. TicksPerMs \in Nat \ {0} BY EvidenceAssumption
<1>2. a \div TicksPerMs \in Nat BY <1>1
<1> QED BY <1>2 DEF duration_ms, positive_duration_ms

LEMMA RoundedInOrder ==
    ASSUME NEW a \in Nat, NEW b \in Nat, a <= b PROVE duration_ms(a) <= duration_ms(b)
<1>1. TicksPerMs \in Nat \ {0} BY EvidenceAssumption
<1>2. a \div TicksPerMs <= b \div TicksPerMs BY <1>1
<1> QED BY <1>2 DEF duration_ms

LEMMA MaxIs ==
    ASSUME NEW S \in SUBSET Int, NEW x \in S, \A y \in S : y <= x
    PROVE  Max(S) = x
<1> DEFINE m == CHOOSE y \in S : \A z \in S : y >= z
<1>1. \E y \in S : \A z \in S : y >= z OBVIOUS
<1>2. m \in S /\ \A z \in S : m >= z BY <1>1
<1> HIDE DEF m
<1>3. m \in Int /\ x \in Int /\ m >= x /\ m <= x BY <1>2
<1>4. m = x BY <1>3
<1> QED BY <1>4 DEF Max, m

LEMMA HighestGrows ==
    ASSUME NEW peak, NEW S, Highest(peak, S), NEW n \in Int
    PROVE  Highest(peak_of(peak, n), S \cup {n})
<1>1. None \notin Int BY EvidenceAssumption
<1>2. CASE S = {} /\ peak = None BY <1>2 DEF Highest, peak_of
<1>3. CASE peak \in S /\ \A k \in S : k <= peak
  <2>1. peak \in Int /\ peak # None BY <1>1, <1>3 DEF Highest
  <2>2. CASE n <= peak
    <3>1. Max({peak, n}) = peak BY <2>1, <2>2, MaxIs
    <3> QED BY <1>3, <2>1, <2>2, <3>1 DEF Highest, peak_of
  <2>3. CASE peak <= n
    <3>1. Max({peak, n}) = n BY <2>1, <2>3, MaxIs
    <3>2. \A k \in S : k <= n BY <1>3, <2>1, <2>3 DEF Highest
    <3> QED BY <2>1, <3>1, <3>2 DEF Highest, peak_of
  <2> QED BY <2>1, <2>2, <2>3
<1> QED BY <1>2, <1>3 DEF Highest

LEMMA HighestIsMax ==
    ASSUME NEW peak, NEW S, Highest(peak, S)
    PROVE  (peak = None <=> S = {}) /\ (S # {} => Max(S) = peak)
<1>1. None \notin Int BY EvidenceAssumption
<1> QED BY <1>1, MaxIs DEF Highest

-----------------------------------------------------------------------------
LEMMA InitInvariant == Init => IInv
<1> SUFFICES ASSUME Init PROVE IInv OBVIOUS
<1>1. /\ clock = 0 /\ mono = 0 /\ handler = << >> /\ pc = "start" /\ report_samples = << >>
      /\ last_started_at = None /\ budget \in Budgets
  BY DEF Init
<1>2. /\ DOMAIN ghost = GhostFields /\ ghost.stepped = FALSE /\ ghost.bytes = {}
      /\ ghost.rates = {} /\ ghost.policy = None /\ ghost.seen = None /\ ghost.times = << >>
      /\ ghost.growth = NoGrowth
  BY DEF Init, GhostFields
<1>3. /\ DOMAIN calibration = CalibrationFields
      /\ calibration.total = 0 /\ calibration.complete = 0 /\ calibration.incomplete = 0
      /\ calibration.peak = None /\ calibration.peak_growth = None
      /\ calibration.baseline = None /\ calibration.last_rate_at = None
  BY DEF Init, CalibrationFields
<1>4. /\ DOMAIN pressure = {"deliveries", "mask", "ns", "event"}
      /\ pressure.deliveries = 0 /\ pressure.mask = {} /\ pressure.ns = 0 /\ pressure.event = 0
  BY DEF Init
<1>5. WorldOK
  <2>1. MaxClock \in Nat /\ Budgets \subseteq BudgetSet BY EvidenceAssumption DEF BudgetSet
  <2>2. clock \in Clocks /\ budget \in BudgetSet BY <1>1, <2>1 DEF Clocks
  <2> QED BY <1>1, <1>2, <2>2 DEF WorldOK, Places
<1>6. HandlerOK BY <1>1 DEF HandlerOK
<1>7. CountersOK /\ ToldOK BY <1>1, <1>2, <1>4 DEF CountersOK, ToldOK, Told
<1>8. LoadedOK /\ CurrentOK BY <1>1 DEF LoadedOK, CurrentOK, Snapped, Processed
<1>9. PolicyOK BY <1>1, <1>2 DEF PolicyOK, PolicyInputIsReported, Processed
<1>10. ghost.growth.sample = None /\ ghost.growth.observed = None
       /\ DOMAIN ghost.growth = {"observed", "before", "sample"}
  BY <1>2 DEF NoGrowth
<1>11. PastOK BY <1>1, <1>3, <1>10 DEF PastOK
<1>12. CalibrationOK BY <1>2, <1>3 DEF CalibrationOK, Highest
<1>13. GrowthOK BY <1>2, <1>3, <1>10 DEF GrowthOK, GrowthIsReal
<1>14. ReportOK BY <1>1, EvidenceAssumption DEF ReportOK, samples_ordered
<1>15. PressureIsCurrent
  BY <1>2 DEF PressureIsCurrent, LevelKeepsUpWithCount, FreshLevelIsRecent
<1> QED
  BY <1>5, <1>6, <1>7, <1>8, <1>9, <1>11, <1>12, <1>13, <1>14, <1>15 DEF IInv

-----------------------------------------------------------------------------
(* What a step leaves alone stays as it was.                               *)

\* Nothing of an earlier sample changes before the next one is recorded.
LEMMA RecordedStays ==
    ASSUME IInv, UNCHANGED <<calibration, report_samples>>,
           ghost'.bytes = ghost.bytes, ghost'.rates = ghost.rates,
           ghost'.rate_at = ghost.rate_at, ghost'.growth = ghost.growth,
           ghost'.seen = ghost.seen, ghost.stepped => ghost'.stepped
    PROVE  CalibrationOK' /\ GrowthOK' /\ ReportOK' /\ PressureIsCurrent'
<1>1. CalibrationOK /\ GrowthOK /\ ReportOK /\ PressureIsCurrent BY DEF IInv
<1>2. CalibrationOK' BY <1>1 DEF CalibrationOK
<1>3. GrowthIsReal' BY <1>1 DEF GrowthOK, GrowthIsReal
<1>4. GrowthOK' BY <1>1, <1>3 DEF GrowthOK
<1>5. ReportOK' BY <1>1 DEF ReportOK
<1>6. PressureIsCurrent'
  BY <1>1 DEF PressureIsCurrent, LevelKeepsUpWithCount, FreshLevelIsRecent
<1> QED BY <1>2, <1>4, <1>5, <1>6

\* The past stays the past while the sample in hand is the same.
LEMMA PastStays ==
    ASSUME IInv, UNCHANGED <<calibration, report_samples, last_started_at>>,
           ghost'.growth = ghost.growth, ghost.stepped => ghost'.stepped,
           ~ghost'.stepped => Bound \in Nat /\ Bound' \in Nat /\ Bound <= Bound'
    PROVE  PastOK'
<1> SUFFICES ASSUME ~ghost'.stepped PROVE PastOK' BY DEF PastOK
<1>1. WorldOK /\ PastOK /\ GrowthOK /\ ReportOK BY DEF IInv
<1>2. Bound \in Nat /\ Bound' \in Nat /\ Bound <= Bound' OBVIOUS
<1>3. duration_ms(Bound) <= duration_ms(Bound') /\ duration_ms(Bound) \in Nat
      /\ duration_ms(Bound') \in Nat
  BY <1>2, RoundedInOrder, Rounded
<1>4. ~ghost.stepped OBVIOUS
<1>5. last_started_at # None => last_started_at <= Bound'
  BY <1>1, <1>2, <1>4, EvidenceAssumption DEF WorldOK, Clocks, PastOK
<1>6. ghost.growth.sample # None => ghost.growth.sample.at <= Bound'
  BY <1>1, <1>2, <1>4 DEF GrowthOK, PastOK
<1>7. calibration.last_rate_at # None => calibration.last_rate_at <= Bound'
  BY <1>1, <1>2, <1>4 DEF GrowthOK, PastOK
<1>8. \A i \in 1 .. Len(report_samples) :
         report_samples[i].processed_at_ms <= duration_ms(Bound')
  <2> SUFFICES ASSUME NEW i \in 1 .. Len(report_samples)
               PROVE  report_samples[i].processed_at_ms <= duration_ms(Bound')
    OBVIOUS
  <2>1. report_samples[i] \in Windows BY <1>1 DEF ReportOK
  <2>2. report_samples[i].processed_at_ms \in Nat BY <2>1 DEF Windows
  <2>3. report_samples[i].processed_at_ms <= duration_ms(Bound) BY <1>1, <1>4 DEF PastOK
  <2> HIDE DEF Bound
  <2> QED BY <1>3, <2>2, <2>3
<1> QED BY <1>5, <1>6, <1>7, <1>8 DEF PastOK, duration_ms

\* The dispatch thread is not at work.
LEMMA CountersStay ==
    ASSUME IInv, UNCHANGED <<handler, pressure>>, mono' \in Nat, mono <= mono',
           ghost'.times = ghost.times
    PROVE  /\ HandlerOK' /\ CountersOK'
           /\ ghost'.seen = ghost.seen => ToldOK'
<1>1. HandlerOK /\ CountersOK /\ mono \in Nat BY DEF IInv, WorldOK
<1>2. HandlerOK' BY <1>1 DEF HandlerOK
<1>3. pressure.ns <= mono' BY <1>1 DEF CountersOK
<1>4. CountersOK' BY <1>1, <1>3 DEF CountersOK
<1>5. ghost'.seen = ghost.seen => ToldOK' BY DEF IInv, ToldOK, Told
<1> QED BY <1>2, <1>4, <1>5

\* An event is timed after its level is stored.
LEMMA TimesBehind ==
    ASSUME CountersOK PROVE Len(ghost.times) \in Nat /\ Len(ghost.times) <= pressure.event
<1>1. Len(ghost.times) \in Nat BY DEF CountersOK
<1>2. CASE Len(handler) = 2
  <2>1. pressure.event = Len(ghost.times) + 1 BY <1>2 DEF CountersOK
  <2> QED BY <1>1, <2>1
<1>3. CASE Len(handler) # 2
  <2>1. pressure.event = Len(ghost.times) + 0 BY <1>3 DEF CountersOK
  <2> QED BY <1>1, <2>1
<1> QED BY <1>2, <1>3

-----------------------------------------------------------------------------
(* The clocks and the dispatch thread.                                     *)

LEMMA ClockStep ==
    ASSUME IInv, clock' \in Clocks, mono' \in Nat, mono <= mono', budget' \in BudgetSet,
           budget'.monitor = budget.monitor,
           UNCHANGED <<pressure, handler, pc, loaded, current, last_started_at, calibration,
                       report_samples>>,
           DOMAIN ghost' = GhostFields, ghost'.stepped \in BOOLEAN,
           ghost'.bytes = ghost.bytes, ghost'.rates = ghost.rates,
           ghost'.rate_at = ghost.rate_at, ghost'.growth = ghost.growth,
           ghost'.seen = ghost.seen, ghost'.policy = ghost.policy, ghost'.times = ghost.times,
           ghost.stepped => ghost'.stepped,
           ghost'.stepped \/ clock <= clock'
    PROVE  IInv'
<1>1. WorldOK /\ LoadedOK /\ CurrentOK /\ PolicyOK /\ CountersOK BY DEF IInv
<1>2. MaxClock \in Nat BY EvidenceAssumption
<1>3. WorldOK' BY <1>1 DEF WorldOK
<1>4. HandlerOK' /\ CountersOK' /\ ToldOK' BY CountersStay
<1>5. LoadedOK'
  <2>1. mono \in Nat BY <1>1 DEF WorldOK
  <2>2. Told' = Told /\ Newest' = Newest BY DEF Told, Newest
  <2> QED BY <1>1, <2>1, <2>2 DEF LoadedOK
<1>6. CurrentOK'
  <2>1. clock \in Nat /\ clock' \in Nat BY <1>1, <1>2 DEF WorldOK, Clocks
  <2> QED BY <1>1, <1>2, <2>1 DEF CurrentOK, Clocks, Snapped, Processed
<1>7. PolicyOK' BY <1>1 DEF PolicyOK, PolicyInputIsReported, Last
<1>8. PastOK'
  <2>1. ~ghost'.stepped => Bound \in Nat /\ Bound' \in Nat /\ Bound <= Bound'
    BY <1>1, <1>2 DEF WorldOK, CurrentOK, Clocks, Bound
  <2> QED BY <2>1, PastStays
<1>9. CalibrationOK' /\ GrowthOK' /\ ReportOK' /\ PressureIsCurrent' BY RecordedStays
<1> QED BY <1>3, <1>4, <1>5, <1>6, <1>7, <1>8, <1>9 DEF IInv

\* A bounded step costs one of its budget and nothing else.
LEMMA Spent ==
    ASSUME WorldOK, NEW what \in {"samples", "events", "steps", "sleeps", "failures"}, Spend(what)
    PROVE  /\ budget' \in BudgetSet /\ budget'.monitor = budget.monitor
           /\ budget'.found = budget.found /\ budget'.answers = budget.answers
<1>1. budget \in BudgetSet /\ budget[what] > 0 /\ budget' = [budget EXCEPT ![what] = @ - 1]
  BY DEF WorldOK, Spend
<1>2. budget[what] - 1 \in Nat BY <1>1 DEF BudgetSet
<1> QED BY <1>1, <1>2 DEF BudgetSet

\* So does a clock read that fails.
LEMMA ClockRead ==
    ASSUME WorldOK, NEW readable \in BOOLEAN, monotonic_ns(readable)
    PROVE  budget' \in BudgetSet /\ budget'.monitor = budget.monitor
<1>1. CASE readable BY <1>1 DEF monotonic_ns, WorldOK
<1>2. CASE ~readable BY <1>2, Spent DEF monotonic_ns
<1> QED BY <1>1, <1>2

LEMMA TickStep ==
    ASSUME IInv, Tick PROVE IInv'
<1>1. WorldOK /\ MaxClock \in Nat BY EvidenceAssumption DEF IInv
<1>2. clock \in Nat /\ mono \in Nat BY <1>1 DEF WorldOK, Clocks
<1>3. clock' \in Clocks /\ clock <= clock' /\ mono' \in Nat /\ mono <= mono'
  BY <1>1, <1>2 DEF Tick, Clocks
<1> QED BY <1>1, <1>3, ClockStep DEF Tick, WorldOK

LEMMA SleepStep ==
    ASSUME IInv, Sleep PROVE IInv'
<1>1. WorldOK /\ max_sample_age \in Nat BY EvidenceAssumption DEF IInv
<1>2. clock \in Clocks /\ clock \in Int /\ mono \in Nat BY <1>1 DEF WorldOK, Clocks
<1>3. mono' \in Nat /\ mono <= mono' BY <1>1, <1>2 DEF Sleep
<1>4. budget' \in BudgetSet /\ budget'.monitor = budget.monitor BY <1>1, Spent DEF Sleep
<1> QED BY <1>1, <1>2, <1>3, <1>4, ClockStep DEF Sleep, WorldOK

LEMMA ClockStepsBackStep ==
    ASSUME IInv, ClockStepsBack PROVE IInv'
<1>1. WorldOK /\ MaxClock \in Nat BY EvidenceAssumption DEF IInv
<1>2. clock \in Nat /\ clock <= MaxClock /\ mono \in Nat BY <1>1 DEF WorldOK, Clocks
<1>3. clock' \in Clocks BY <1>1, <1>2 DEF ClockStepsBack, Clocks
<1>4. budget' \in BudgetSet /\ budget'.monitor = budget.monitor
  BY <1>1, Spent DEF ClockStepsBack
<1>5. ghost' = [ghost EXCEPT !.stepped = TRUE] /\ DOMAIN ghost = GhostFields
  BY <1>1 DEF ClockStepsBack, WorldOK
<1>6. /\ DOMAIN ghost' = GhostFields /\ ghost'.stepped = TRUE
      /\ ghost'.bytes = ghost.bytes /\ ghost'.rates = ghost.rates
      /\ ghost'.rate_at = ghost.rate_at /\ ghost'.growth = ghost.growth
      /\ ghost'.seen = ghost.seen /\ ghost'.policy = ghost.policy /\ ghost'.times = ghost.times
  BY <1>5 DEF GhostFields
<1> QED BY <1>2, <1>3, <1>4, <1>6, ClockStep DEF ClockStepsBack

\* A step of the dispatch thread leaves the supervisor alone.
LEMMA DispatchStep ==
    ASSUME IInv, UNCHANGED <<clock, mono, pc, loaded, current, last_started_at, calibration,
                             report_samples>>,
           budget' \in BudgetSet,
           DOMAIN ghost' = GhostFields, ghost'.stepped = ghost.stepped,
           ghost'.bytes = ghost.bytes, ghost'.rates = ghost.rates,
           ghost'.rate_at = ghost.rate_at, ghost'.growth = ghost.growth,
           ghost'.seen = ghost.seen, ghost'.policy = ghost.policy,
           HandlerOK', CountersOK', ToldOK', LoadedOK'
    PROVE  IInv'
<1>1. WorldOK /\ CurrentOK /\ PolicyOK /\ PastOK BY DEF IInv
<1>2. WorldOK' BY <1>1 DEF WorldOK
<1>3. CurrentOK' BY <1>1 DEF CurrentOK
<1>4. PolicyOK' BY <1>1 DEF PolicyOK, PolicyInputIsReported, Last
<1>5. PastOK' BY <1>1 DEF PastOK, Bound
<1>6. CalibrationOK' /\ GrowthOK' /\ ReportOK' /\ PressureIsCurrent' BY RecordedStays
<1> QED BY <1>2, <1>3, <1>4, <1>5, <1>6 DEF IInv

LEMMA PressureEventStep ==
    ASSUME IInv, NEW mask \in Masks, PressureEvent(mask) PROVE IInv'
<1>1. WorldOK /\ HandlerOK /\ CountersOK /\ LoadedOK BY DEF IInv
<1>2. budget' \in BudgetSet /\ budget'.monitor = budget.monitor
  BY <1>1, Spent DEF PressureEvent
<1> DEFINE Store(i) == [store |-> StoreOrder[i], mask |-> mask]
<1>3. handler = << >> /\ handler' = [i \in 1 .. 3 |-> Store(i)] BY DEF PressureEvent
<1>4. StoreOrder[1] = "mask" /\ StoreOrder[2] = "ns" /\ StoreOrder[3] = "deliveries"
  BY DEF StoreOrder
<1>5. /\ \A i \in 1 .. 3 : Store(i) \in [store : {"mask", "ns", "deliveries"}, mask : Masks]
      /\ Store(1).store = "mask" /\ Store(2).store = "ns" /\ Store(3).store = "deliveries"
  BY <1>4
<1> HIDE DEF Store
<1>6. /\ handler' \in Seq([store : {"mask", "ns", "deliveries"}, mask : Masks])
      /\ Len(handler') = 3
  BY <1>3, <1>5
<1>7. handler'[1] = Store(1) /\ handler'[2] = Store(2) /\ handler'[3] = Store(3) BY <1>3
<1>8. HandlerOK' BY <1>5, <1>6, <1>7 DEF HandlerOK
<1>9. UNCHANGED <<mono, pressure, pc, loaded, ghost>> BY DEF PressureEvent
<1>10. Len(handler) = 0 BY <1>3
<1>11. CountersOK' BY <1>1, <1>6, <1>9, <1>10 DEF CountersOK
<1>12. LoadedOK' BY <1>1, <1>2, <1>9 DEF LoadedOK, Told, Newest
<1>13. ToldOK' BY <1>9 DEF IInv, ToldOK, Told
<1> QED
  BY <1>1, <1>2, <1>8, <1>9, <1>11, <1>12, <1>13, DispatchStep DEF PressureEvent, WorldOK

\* The level first, then its time, then the count.
LEMMA PressureStoreStep ==
    ASSUME IInv, NEW readable \in BOOLEAN, PressureStore(readable) PROVE IInv'
<1>1. WorldOK /\ HandlerOK /\ CountersOK /\ ToldOK /\ LoadedOK BY DEF IInv
<1> DEFINE Stores == [store : {"mask", "ns", "deliveries"}, mask : Masks]
           store == Head(handler).store
           ns == IF readable THEN mono ELSE 0
<1>2. handler # << >> /\ handler' = Tail(handler) BY DEF PressureStore
<1>3. /\ pressure' =
           CASE store = "mask" -> [pressure EXCEPT !.mask = Head(handler).mask, !.event = @ + 1]
             [] store = "ns" -> [pressure EXCEPT !.ns = ns]
             [] store = "deliveries" -> [pressure EXCEPT !.deliveries = @ + 1]
      /\ ghost' = IF store = "ns" THEN [ghost EXCEPT !.times = Append(@, mono)] ELSE ghost
      /\ UNCHANGED <<clock, mono, pc, loaded, current, last_started_at, calibration, report_samples>>
  BY DEF PressureStore
<1>4. handler \in Seq(Stores) BY <1>1 DEF HandlerOK
<1>5. /\ handler' \in Seq(Stores) /\ Len(handler) \in 1 .. 3 /\ Len(handler') = Len(handler) - 1
      /\ Head(handler) = handler[1] /\ handler[1] \in Stores
      /\ \A i \in 1 .. Len(handler') : handler'[i] = handler[i + 1]
  <2> HIDE DEF Stores
  <2>1. Len(handler) <= 3 BY <1>1 DEF HandlerOK
  <2>2. Len(handler) \in Nat /\ Len(handler) # 0 BY <1>2, <1>4
  <2>3. /\ handler' \in Seq(Stores) /\ Len(handler') = Len(handler) - 1
        /\ \A i \in 1 .. Len(handler') : handler'[i] = handler[i + 1]
    BY <1>2, <1>4
  <2>4. Head(handler) = handler[1] /\ handler[1] \in Stores BY <1>4, <2>2
  <2> QED BY <2>1, <2>2, <2>3, <2>4
<1>6. Head(handler).mask \in Masks BY <1>5
<1> HIDE DEF Stores
<1>7. HandlerOK'
  <2>1. CASE Len(handler) = 3 BY <1>1, <1>5, <2>1 DEF HandlerOK, Stores
  <2>2. CASE Len(handler) = 2 BY <1>1, <1>5, <2>2 DEF HandlerOK, Stores
  <2>3. CASE Len(handler) = 1 BY <1>1, <1>5, <2>3 DEF HandlerOK, Stores
  <2> QED BY <1>5, <2>1, <2>2, <2>3
<1>8. /\ mono \in Nat /\ DOMAIN ghost = GhostFields /\ budget \in BudgetSet
      /\ ghost.times \in Seq(Nat) /\ pressure.ns <= mono
      /\ pressure.deliveries \in Nat /\ pressure.event \in Nat /\ pressure.ns \in Nat
      /\ pressure.mask \in Masks \cup {{}}
      /\ Len(ghost.times) > 0 => pressure.ns <= ghost.times[Len(ghost.times)]
  BY <1>1 DEF WorldOK, CountersOK
<1>12. /\ UNCHANGED <<clock, mono, pc, loaded, current, last_started_at, calibration, report_samples>>
      /\ budget' \in BudgetSet /\ budget'.monitor = budget.monitor
      /\ ns \in Nat /\ ns <= mono
  BY <1>1, <1>3, <1>8, ClockRead DEF PressureStore
<1> HIDE DEF ns
<1> DEFINE mask == Head(handler).mask
           times == Append(ghost.times, mono)
<1>9. CASE Len(handler) = 3
  <2>1. store = "mask" BY <1>1, <1>5, <1>9 DEF HandlerOK
  <2>2. ghost' = ghost /\ pressure' = [pressure EXCEPT !.mask = mask, !.event = @ + 1]
    BY <1>3, <2>1
  <2> HIDE DEF mask
  <2>3. /\ DOMAIN pressure' = {"deliveries", "mask", "ns", "event"}
        /\ pressure'.deliveries = pressure.deliveries /\ pressure'.ns = pressure.ns
        /\ pressure'.event = pressure.event + 1 /\ pressure'.mask = mask
    BY <1>1, <2>2 DEF CountersOK
  <2>4. pressure.event = pressure.deliveries /\ pressure.event = Len(ghost.times)
    BY <1>1, <1>8, <1>9 DEF CountersOK
  <2>5. Len(handler') = 2 BY <1>5, <1>9
  <2>6. CountersOK' BY <1>6, <1>8, <1>12, <2>2, <2>3, <2>4, <2>5 DEF CountersOK, mask
  <2>7. pressure.event <= pressure'.event BY <1>8, <2>3
  <2>8. LoadedOK' BY <1>1, <1>8, <1>12, <2>2, <2>3, <2>7 DEF LoadedOK, Told, Newest
  <2>9. ToldOK' BY <1>1, <2>2 DEF ToldOK, Told
  <2> QED BY <1>7, <1>8, <1>12, <2>2, <2>6, <2>8, <2>9, DispatchStep
<1>10. CASE Len(handler) = 2
  <2>1. store = "ns" BY <1>1, <1>5, <1>10 DEF HandlerOK
  <2>2. ghost' = [ghost EXCEPT !.times = times] /\ pressure' = [pressure EXCEPT !.ns = ns]
    BY <1>3, <2>1
  <2>3. /\ times \in Seq(Nat) /\ Len(times) = Len(ghost.times) + 1 /\ times[Len(times)] = mono
        /\ DOMAIN times = 1 .. Len(ghost.times) + 1 /\ DOMAIN ghost.times = 1 .. Len(ghost.times)
        /\ \A i \in 1 .. Len(ghost.times) : times[i] = ghost.times[i]
    BY <1>8
  <2>4. Len(ghost.times) \in Nat BY <1>8
  <2> HIDE DEF times
  <2>5. /\ DOMAIN ghost' = GhostFields /\ ghost'.times = times /\ ghost'.stepped = ghost.stepped
        /\ ghost'.bytes = ghost.bytes /\ ghost'.rates = ghost.rates
        /\ ghost'.rate_at = ghost.rate_at /\ ghost'.growth = ghost.growth
        /\ ghost'.seen = ghost.seen /\ ghost'.policy = ghost.policy
    BY <1>8, <2>2 DEF GhostFields
  <2>6. /\ DOMAIN pressure' = {"deliveries", "mask", "ns", "event"}
        /\ pressure'.deliveries = pressure.deliveries /\ pressure'.ns = ns
        /\ pressure'.event = pressure.event /\ pressure'.mask = pressure.mask
    BY <1>1, <2>2 DEF CountersOK
  <2>7. CountersOK'
    <3>1. /\ pressure.event = pressure.deliveries + 1 /\ pressure.event = Len(ghost.times) + 1
          /\ pressure.deliveries \in Nat /\ pressure.event \in Nat
          /\ pressure.mask \in Masks \cup {{}}
      BY <1>1, <1>10 DEF CountersOK
    <3>2. Len(handler') = 1 /\ mono' = mono /\ mono \in Nat BY <1>3, <1>5, <1>8, <1>10
    <3> QED BY <1>12, <2>3, <2>4, <2>5, <2>6, <3>1, <3>2 DEF CountersOK
  <2>8. Told' = Told /\ Newest' = Newest BY <1>12, <2>5 DEF Told, Newest
  <2>9. ToldOK' BY <1>1, <2>3, <2>4, <2>5, <2>8 DEF ToldOK
  <2>10. LoadedOK'
    <3>1. ASSUME pc = "record", budget.monitor
          PROVE  /\ loaded.timed <= Len(times)
                 /\ Newest \in DOMAIN times => loaded.ns <= times[Newest]
      <4>1. /\ loaded.event \in Nat /\ loaded.ns \in Nat /\ loaded.ns <= mono
            /\ loaded.timed \in Nat /\ loaded.timed <= Len(ghost.times)
            /\ Newest \in DOMAIN ghost.times => loaded.ns <= ghost.times[Newest]
        BY <1>1, <3>1 DEF LoadedOK
      <4>2. Newest \in Nat BY <4>1 DEF Newest
      <4>3. CASE Newest = Len(times) BY <2>3, <2>4, <4>1, <4>3
      <4>4. CASE Newest # Len(times) BY <2>3, <2>4, <4>1, <4>2, <4>4
      <4> QED BY <4>3, <4>4
    <3> QED BY <1>1, <1>12, <2>5, <2>6, <2>8, <3>1 DEF LoadedOK
  <2> QED BY <1>7, <1>8, <1>12, <2>5, <2>7, <2>9, <2>10, DispatchStep
<1>11. CASE Len(handler) = 1
  <2>1. store = "deliveries" BY <1>1, <1>5, <1>11 DEF HandlerOK
  <2>2. ghost' = ghost /\ pressure' = [pressure EXCEPT !.deliveries = @ + 1]
    BY <1>3, <2>1
  <2>3. /\ DOMAIN pressure' = {"deliveries", "mask", "ns", "event"}
        /\ pressure'.deliveries = pressure.deliveries + 1 /\ pressure'.ns = pressure.ns
        /\ pressure'.event = pressure.event /\ pressure'.mask = pressure.mask
    BY <1>1, <2>2 DEF CountersOK
  <2>4. pressure.event = pressure.deliveries + 1 /\ pressure.event = Len(ghost.times)
    BY <1>1, <1>8, <1>11 DEF CountersOK
  <2>5. Len(handler') = 0 BY <1>5, <1>11
  <2>6. CountersOK' BY <1>8, <1>12, <2>2, <2>3, <2>4, <2>5 DEF CountersOK
  <2>7. pressure.deliveries <= pressure'.deliveries BY <1>8, <2>3
  <2>8. LoadedOK' BY <1>1, <1>8, <1>12, <2>2, <2>3, <2>7 DEF LoadedOK, Told, Newest
  <2>9. ToldOK' BY <1>1, <2>2 DEF ToldOK, Told
  <2> QED BY <1>7, <1>8, <1>12, <2>2, <2>6, <2>8, <2>9, DispatchStep
<1> QED BY <1>5, <1>9, <1>10, <1>11

-----------------------------------------------------------------------------
(* The sampler up to the record.                                           *)

\* A step of the supervisor before the record.
LEMMA SamplerStep ==
    ASSUME IInv, UNCHANGED <<clock, mono, pressure, handler, calibration, report_samples>>,
           budget' \in BudgetSet, pc' \in Places, last_started_at' \in Clocks \cup {None},
           DOMAIN ghost' = GhostFields, ghost'.stepped = ghost.stepped,
           ghost'.bytes = ghost.bytes, ghost'.rates = ghost.rates,
           ghost'.rate_at = ghost.rate_at, ghost'.growth = ghost.growth,
           ghost'.seen = ghost.seen, ghost'.times = ghost.times,
           LoadedOK', CurrentOK', PolicyOK', PastOK'
    PROVE  IInv'
<1>1. WorldOK BY DEF IInv
<1>2. mono \in Nat BY <1>1 DEF WorldOK
<1>3. HandlerOK' /\ CountersOK' /\ ToldOK' BY <1>2, CountersStay
<1>4. WorldOK' BY <1>1 DEF WorldOK
<1>5. CalibrationOK' /\ GrowthOK' /\ ReportOK' /\ PressureIsCurrent' BY RecordedStays
<1> QED BY <1>3, <1>4, <1>5 DEF IInv

LEMMA SampleNativeStep ==
    ASSUME IInv, sample_native PROVE IInv'
<1>1. WorldOK /\ PastOK BY DEF IInv
<1>2. /\ pc = "start" /\ pc' = "snapshot" /\ current'.started_at = clock
      /\ UNCHANGED <<clock, mono, pressure, handler, loaded, last_started_at, calibration,
                     report_samples, ghost>>
  BY DEF sample_native
<1>3. budget' \in BudgetSet BY <1>1, Spent DEF sample_native
<1>4. clock \in Clocks /\ clock \in Int BY <1>1 DEF WorldOK, Clocks
<1>5. LoadedOK' BY <1>2 DEF LoadedOK
<1>6. CurrentOK' BY <1>2, <1>4 DEF CurrentOK, Snapped, Processed
<1>7. PolicyOK' BY <1>2 DEF PolicyOK, PolicyInputIsReported, Processed
<1>8. PastOK' BY <1>1, <1>2 DEF PastOK, Bound
<1>9. pc' \in Places BY <1>2 DEF Places
<1> QED BY <1>1, <1>2, <1>3, <1>5, <1>6, <1>7, <1>8, <1>9, SamplerStep DEF WorldOK

LEMMA RecordSnapshotStep ==
    ASSUME IInv, NEW found \in budget.found, record_snapshot(found) PROVE IInv'
<1>1. WorldOK /\ CurrentOK /\ PastOK BY DEF IInv
<1> DEFINE discontinuity ==
               \/ clock < current.started_at
               \/ last_started_at # None /\ current.started_at < last_started_at
           outcome == IF discontinuity THEN [kind |-> "ClockDiscontinuity"] ELSE found
<1>2. /\ pc = "snapshot" /\ pc' = "process" /\ (clock > current.started_at \/ ghost.stepped)
      /\ current' = [started_at |-> current.started_at, finished_at |-> clock, outcome |-> outcome]
      /\ last_started_at' = IF discontinuity THEN last_started_at ELSE current.started_at
      /\ UNCHANGED <<clock, mono, pressure, handler, budget, loaded, calibration, report_samples,
                     ghost>>
  BY DEF record_snapshot, sampleStep
<1>3. found \in Found BY <1>1 DEF WorldOK, BudgetSet
<1>4. outcome \in Outcomes BY <1>3 DEF Outcomes
<1>5. last_started_at' \in {last_started_at, current.started_at} BY <1>2
<1> HIDE DEF outcome, discontinuity
<1>6. /\ current'.started_at = current.started_at /\ current'.finished_at = clock
      /\ current'.outcome = outcome
  BY <1>2
<1>7. clock \in Clocks /\ current.started_at \in Clocks
  BY <1>1, <1>2 DEF WorldOK, CurrentOK
<1>8. clock \in Int /\ current.started_at \in Int BY <1>7 DEF Clocks
<1>9. LoadedOK' BY <1>2 DEF LoadedOK
<1>10. CurrentOK' BY <1>2, <1>4, <1>6, <1>7, <1>8 DEF CurrentOK, Snapped, Processed
<1>11. PolicyOK' BY <1>2 DEF PolicyOK, PolicyInputIsReported, Processed
<1>12. PastOK' BY <1>1, <1>2, <1>5, <1>6, <1>8 DEF PastOK, Bound
<1>13. pc' \in Places BY <1>2 DEF Places, Snapped
<1>14. last_started_at' \in Clocks \cup {None} BY <1>1, <1>5, <1>7 DEF WorldOK
<1> QED
  BY <1>1, <1>2, <1>9, <1>10, <1>11, <1>12, <1>13, <1>14, SamplerStep DEF WorldOK

LEMMA PolicyIsMeasured ==
    ASSUME NEW sample, NEW processed_at, sample.started_at \in Nat, sample.finished_at \in Nat,
           policy_event(sample, processed_at) # None
    PROVE  /\ sample.outcome.kind = "Complete"
           /\ sample.outcome.bytes = policy_event(sample, processed_at)
           /\ sample.started_at < sample.finished_at
<1>1. sample.finished_at - sample.started_at > 0 /\ policy_event(sample, processed_at) = measured(sample)
  BY DEF policy_event
<1>2. sample.outcome.kind = "Complete" /\ measured(sample) = sample.outcome.bytes
  BY <1>1 DEF measured
<1> QED BY <1>1, <1>2

LEMMA ProcessStep ==
    ASSUME IInv, Process PROVE IInv'
<1>1. WorldOK /\ CurrentOK /\ PastOK BY DEF IInv
<1> DEFINE number == policy_event(current, clock)
<1>2. /\ pc = "process" /\ pc' = IF budget.monitor THEN "load_deliveries" ELSE "record"
      /\ current' = [started_at |-> current.started_at, finished_at |-> current.finished_at,
                     outcome |-> current.outcome, processed_at |-> clock]
      /\ ghost' = [ghost EXCEPT !.policy = number]
      /\ UNCHANGED <<clock, mono, pressure, handler, budget, loaded, last_started_at, calibration,
                     report_samples>>
  BY DEF Process, sampleStep
<1>3. /\ current.started_at \in Clocks /\ current.finished_at \in Clocks
      /\ current.outcome \in Outcomes /\ clock \in Clocks
  BY <1>1, <1>2 DEF WorldOK, CurrentOK, Snapped
<1>4. current.started_at \in Nat /\ current.finished_at \in Nat /\ clock \in Nat
  BY <1>3, EvidenceAssumption DEF Clocks
<1>5. number # None =>
        /\ current.outcome.kind = "Complete" /\ current.outcome.bytes = number
        /\ current.started_at < current.finished_at
  BY <1>4, PolicyIsMeasured
<1> HIDE DEF number
<1>6. /\ current'.started_at = current.started_at /\ current'.finished_at = current.finished_at
      /\ current'.outcome = current.outcome /\ current'.processed_at = clock
  BY <1>2
<1>7. /\ DOMAIN ghost' = GhostFields /\ ghost'.stepped = ghost.stepped
      /\ ghost'.bytes = ghost.bytes /\ ghost'.rates = ghost.rates
      /\ ghost'.rate_at = ghost.rate_at /\ ghost'.growth = ghost.growth
      /\ ghost'.seen = ghost.seen /\ ghost'.times = ghost.times /\ ghost'.policy = number
  BY <1>1, <1>2 DEF WorldOK, GhostFields
<1>8. pc' \in {"load_deliveries", "record"} /\ (pc' = "load_deliveries" <=> budget.monitor)
  BY <1>2
<1>9. LoadedOK' BY <1>2, <1>8 DEF LoadedOK
<1>10. CurrentOK'
  BY <1>1, <1>2, <1>3, <1>4, <1>6, <1>7, <1>8 DEF CurrentOK, Snapped, Processed
<1>11. PolicyOK' BY <1>5, <1>6, <1>7, <1>8 DEF PolicyOK, PolicyInputIsReported, Processed
<1>12. PastOK' BY <1>1, <1>2, <1>6, <1>7, <1>8 DEF PastOK, Bound
<1>13. pc' \in Places BY <1>8 DEF Places, Snapped, Processed
<1> QED
  BY <1>1, <1>2, <1>7, <1>9, <1>10, <1>11, <1>12, <1>13, SamplerStep DEF WorldOK

\* A load moves the reader on and keeps the sample in hand.
LEMMA LoadStep ==
    ASSUME IInv, pc \in Processed, NEW counters, NEW next \in Processed, Load(counters, next),
           LoadedOK'
    PROVE  IInv'
<1>1. WorldOK /\ CurrentOK /\ PolicyOK /\ PastOK BY DEF IInv
<1>2. /\ pc' = next
      /\ UNCHANGED <<clock, mono, pressure, handler, budget, current, last_started_at, calibration,
                     report_samples, ghost>>
  BY DEF Load, sampleStep
<1>3. pc # "start" /\ next # "start" /\ pc \in Snapped /\ next \in Snapped /\ next \in Places
  BY DEF Processed, Snapped, Places
<1>4. CurrentOK' BY <1>1, <1>2, <1>3 DEF CurrentOK
<1>5. PolicyOK' BY <1>1, <1>2, <1>3 DEF PolicyOK, PolicyInputIsReported
<1>6. PastOK' BY <1>1, <1>2, <1>3 DEF PastOK, Bound
<1> QED BY <1>1, <1>2, <1>3, <1>4, <1>5, <1>6, SamplerStep DEF WorldOK

LEMMA LoadDeliveriesStep ==
    ASSUME IInv, LoadDeliveries PROVE IInv'
<1>1. LoadedOK /\ CountersOK BY DEF IInv
<1>2. Load([deliveries |-> pressure.deliveries], "load_mask") /\ pc = "load_deliveries"
  BY DEF LoadDeliveries
<1>3. /\ pc' = "load_mask" /\ loaded'.deliveries = pressure.deliveries
      /\ UNCHANGED <<pressure, budget>>
  BY <1>2 DEF Load, sampleStep
<1>4. LoadedOK' BY <1>1, <1>2, <1>3 DEF LoadedOK, CountersOK
<1> QED BY <1>2, <1>4, LoadStep DEF Processed

LEMMA LoadMaskStep ==
    ASSUME IInv, LoadMask PROVE IInv'
<1>1. LoadedOK /\ CountersOK /\ ToldOK BY DEF IInv
<1> DEFINE counters == [deliveries |-> loaded.deliveries, mask |-> pressure.mask,
                        event |-> pressure.event]
<1>2. Load(counters, "load_ns") /\ pc = "load_mask" BY DEF LoadMask
<1>3. /\ pc' = "load_ns" /\ loaded'.deliveries = loaded.deliveries
      /\ loaded'.event = pressure.event /\ UNCHANGED <<pressure, budget, ghost>>
  BY <1>2 DEF Load, sampleStep
<1>4. /\ pressure.deliveries \in Nat /\ pressure.event \in Nat
      /\ pressure.deliveries <= pressure.event
  BY <1>1 DEF CountersOK
<1>6. loaded.deliveries \in Nat /\ loaded.deliveries <= pressure.deliveries
  BY <1>1, <1>2 DEF LoadedOK
<1>7. budget.monitor BY <1>1, <1>2 DEF LoadedOK
<1> HIDE DEF counters
<1>8. Told' = Told /\ Told <= pressure.event BY <1>1, <1>3, <1>4, TimesBehind DEF ToldOK, Told
<1>5. LoadedOK' BY <1>3, <1>4, <1>6, <1>7, <1>8 DEF LoadedOK
<1> QED BY <1>2, <1>5, LoadStep DEF Processed

\* The time loaded is not later than that of the newest event loaded anything of.
LEMMA LoadNsStep ==
    ASSUME IInv, LoadNs PROVE IInv'
<1>1. WorldOK /\ LoadedOK /\ CountersOK /\ ToldOK BY DEF IInv
<1> DEFINE timed == Len(ghost.times)
           counters == [deliveries |-> loaded.deliveries, mask |-> loaded.mask,
                        event |-> loaded.event, ns |-> pressure.ns, timed |-> timed]
<1>2. Load(counters, "record") /\ pc = "load_ns" BY DEF LoadNs
<1>3. /\ pc' = "record" /\ loaded'.deliveries = loaded.deliveries
      /\ loaded'.event = loaded.event /\ loaded'.ns = pressure.ns /\ loaded'.timed = timed
      /\ UNCHANGED <<mono, pressure, budget, ghost>>
  BY <1>2 DEF Load, sampleStep
<1>4. /\ loaded.deliveries \in Nat /\ loaded.event \in Nat /\ loaded.deliveries <= loaded.event
      /\ loaded.event <= pressure.event /\ pressure.event \in Nat /\ pressure.ns \in Nat
      /\ pressure.ns <= mono /\ Told <= loaded.event
  BY <1>1, <1>2 DEF LoadedOK, CountersOK
<1>5. timed \in Nat /\ DOMAIN ghost.times = 1 .. timed BY <1>1 DEF CountersOK
<1>6. Newest' = IF timed > loaded.event THEN timed ELSE loaded.event BY <1>3 DEF Newest
<1>7. ASSUME Newest' \in DOMAIN ghost.times PROVE pressure.ns <= ghost.times[Newest']
  <2>1. Newest' = timed /\ timed > 0 BY <1>4, <1>5, <1>6, <1>7
  <2> QED BY <1>1, <2>1 DEF CountersOK
<1>8. Told' = Told BY <1>3 DEF Told
<1> HIDE DEF counters
<1>9. LoadedOK' BY <1>3, <1>4, <1>5, <1>7, <1>8 DEF LoadedOK
<1> QED BY <1>2, <1>9, LoadStep DEF Processed

-----------------------------------------------------------------------------
(* The record: what is made of the sample in hand.                         *)

LEMMA OutcomeBytes ==
    ASSUME NEW outcome \in Outcomes, outcome.kind = "Complete"
    PROVE  outcome.bytes \in Nat
<1>1. outcome \in [kind : {"Complete"}, bytes : Bytes] BY DEF Outcomes, Found
<1> QED BY <1>1, EvidenceAssumption

LEMMA MonusFacts ==
    ASSUME NEW a \in Nat, NEW b \in Nat
    PROVE  Monus(a, b) \in Nat /\ Monus(a, b) <= a /\ a - b <= Monus(a, b)
           /\ (a > b => Monus(a, b) > 0)
BY DEF Monus

\* The observation made of the counters that were loaded.
LEMMA PairFacts ==
    ASSUME NEW counters, NEW now \in Nat, NEW captured_at \in Nat,
           counters.deliveries \in Nat, counters.ns \in Nat
    PROVE  LET pair == pressure_observation(counters, now, captured_at)
           IN /\ \A i \in {1, 2} :
                    /\ pair[i] \in Observations
                    /\ pair[i].tag = "Stale" => pair[i].last_seen_at_ms <= duration_ms(captured_at)
              /\ pair[2].tag = "Available" => Monus(now, counters.ns) <= max_sample_age
<1> DEFINE age == Monus(now, counters.ns)
           stale == Stale(duration_ms(Monus(captured_at, age)))
           pair == pressure_observation(counters, now, captured_at)
<1>1. \/ pair = <<Unknown, Unknown>>
      \/ pair = <<stale, stale>>
      \/ /\ pair = <<Available(counters.deliveries), level(counters.mask)>>
         /\ ~(age > max_sample_age)
  BY DEF pressure_observation
<1>2. age \in Nat /\ Monus(captured_at, age) \in Nat /\ Monus(captured_at, age) <= captured_at
  BY MonusFacts
<1>3. /\ duration_ms(Monus(captured_at, age)) \in Nat
      /\ duration_ms(Monus(captured_at, age)) <= duration_ms(captured_at)
  BY <1>2, Rounded, RoundedInOrder
<1>4. /\ stale \in Observations /\ stale.tag = "Stale"
      /\ stale.last_seen_at_ms <= duration_ms(captured_at)
  BY <1>3 DEF Stale, Observations
<1>5. Unknown \in Observations /\ Unknown.tag = "Unknown" BY DEF Unknown, Observations
<1>6. /\ Available(counters.deliveries) \in Observations
      /\ Available(counters.deliveries).tag = "Available"
  BY DEF Available, Observations
<1>7. level(counters.mask) \in Observations /\ level(counters.mask).tag \in {"Available", "Error"}
  BY DEF level, Available, Error, Observations
<1> HIDE DEF pair, stale, age
<1>8. CASE pair = <<Unknown, Unknown>> BY <1>5, <1>8 DEF pair, age
<1>9. CASE pair = <<stale, stale>> BY <1>4, <1>9 DEF pair, age
<1>10. CASE /\ pair = <<Available(counters.deliveries), level(counters.mask)>>
            /\ ~(age > max_sample_age)
  <2>1. age <= max_sample_age BY <1>2, <1>10, EvidenceAssumption
  <2> QED BY <1>6, <1>7, <1>10, <2>1 DEF pair, age
<1> QED BY <1>1, <1>8, <1>9, <1>10

\* GrowthTracker::observe, case by case.
LEMMA GrowthCases ==
    ASSUME NEW sample
    PROVE  LET g == observe(sample)
               last == calibration.last_rate_at
               previous == calibration.baseline
               now == [at |-> sample.finished_at, bytes |-> sample.outcome.bytes]
           IN \/ /\ sample.outcome.kind # "Complete" /\ g.at = last
                 /\ g.observed = (IF last = None THEN Unknown ELSE Stale(duration_ms(last)))
                 /\ g.baseline = None /\ g.last_rate_at = last
              \/ /\ sample.outcome.kind = "Complete" /\ g.at = None /\ g.last_rate_at = last
                 /\ \/ previous = None /\ g.observed = Unknown /\ g.baseline = now
                    \/ /\ previous # None /\ now.at <= previous.at
                       /\ g.observed = Error("ClockAnomaly") /\ g.baseline = None
                    \/ /\ previous # None
                       /\ g.observed = Error("Internal") /\ g.baseline = now
              \/ /\ sample.outcome.kind = "Complete" /\ previous # None
                 /\ ~(now.at <= previous.at)
                 /\ growth_rate(previous, now) \in -I64_MAX - 1 .. I64_MAX
                 /\ g.observed = Available(growth_rate(previous, now)) /\ g.at = now.at
                 /\ g.baseline = now /\ g.last_rate_at = now.at
BY DEF observe, Growth, baseline_after_gap

\* The sample in hand, when it is recorded.
InHand ==
    /\ pc = "record"
    /\ current.started_at \in Nat /\ current.finished_at \in Nat /\ current.processed_at \in Nat
    /\ current.outcome \in Outcomes /\ clock \in Nat /\ mono \in Nat
    /\ ~ghost.stepped => /\ current.started_at < current.finished_at
                         /\ current.finished_at <= current.processed_at
                         /\ current.processed_at <= clock

LEMMA RecordsInHand ==
    ASSUME IInv, pc = "record" PROVE InHand
<1>1. WorldOK /\ CurrentOK BY DEF IInv
<1>2. \A n \in Clocks : n \in Nat BY EvidenceAssumption DEF Clocks
<1>3. pc \in Snapped /\ pc \in Processed /\ pc # "start" BY DEF Snapped, Processed
<1>4. /\ current.started_at \in Clocks /\ current.finished_at \in Clocks
      /\ current.processed_at \in Clocks /\ current.outcome \in Outcomes
  BY <1>1, <1>3 DEF CurrentOK
<1>5. clock \in Nat /\ mono \in Nat BY <1>1, <1>2 DEF WorldOK
<1>6. ~ghost.stepped => /\ current.started_at < current.finished_at
                        /\ current.finished_at <= current.processed_at
                        /\ current.processed_at <= clock
  BY <1>1, <1>3 DEF CurrentOK
<1> QED BY <1>2, <1>4, <1>5, <1>6 DEF InHand

\* The growth told with the sample: its type, and the time it stands for.
LEMMA GrowthFacts ==
    ASSUME IInv, InHand
    PROVE  LET g == observe(current)
           IN /\ g.observed \in Observations
              /\ g.observed.tag = "Stale" => g.at # None
              /\ g.at # None => /\ g.at \in Nat
                                /\ ~ghost.stepped => g.at <= current.processed_at
              /\ g.observed.tag = "Available" => g.observed.value \in Int
              /\ g.last_rate_at \in {calibration.last_rate_at, current.finished_at}
<1>1. GrowthOK /\ PastOK BY DEF IInv
<1> DEFINE g == observe(current)
           last == calibration.last_rate_at
           previous == calibration.baseline
           now == [at |-> current.finished_at, bytes |-> current.outcome.bytes]
<1>2. last # None => /\ last \in Nat /\ duration_ms(last) \in Nat
                     /\ ~ghost.stepped => last <= current.processed_at
  <2>1. last # None => last \in Nat BY <1>1 DEF GrowthOK
  <2>2. ~ghost.stepped /\ last # None => last <= current.started_at
    BY <1>1 DEF PastOK, Bound, InHand
  <2> HIDE DEF last
  <2> QED BY <2>1, <2>2, Rounded DEF InHand
<1>3. now.at = current.finished_at OBVIOUS
<1>4. None \notin Int BY EvidenceAssumption
<1>5. Unknown \in Observations /\ Unknown.tag = "Unknown" BY DEF Unknown, Observations
<1>6. \A code \in {"ClockAnomaly", "Internal"} :
         Error(code) \in Observations /\ Error(code).tag = "Error"
  BY DEF Error, Observations
<1>7. \A n \in Nat : Stale(n) \in Observations /\ Stale(n).tag = "Stale"
  BY DEF Stale, Observations
<1>8. \A n \in Int : /\ Available(n) \in Observations /\ Available(n).tag = "Available"
                     /\ Available(n).value = n
  BY DEF Available, Observations
<1>9. -I64_MAX - 1 .. I64_MAX \subseteq Int BY EvidenceAssumption
<1>10. CASE /\ current.outcome.kind # "Complete" /\ g.at = last
            /\ g.observed = (IF last = None THEN Unknown ELSE Stale(duration_ms(last)))
            /\ g.baseline = None /\ g.last_rate_at = last
  <2> HIDE DEF g, last
  <2>1. CASE last = None BY <1>5, <1>10, <2>1 DEF g, last
  <2>2. CASE last # None BY <1>2, <1>7, <1>10, <2>2 DEF g, last
  <2> QED BY <2>1, <2>2
<1>11. CASE /\ g.at = None /\ g.last_rate_at = last
            /\ g.observed \in {Unknown, Error("ClockAnomaly"), Error("Internal")}
  <2> HIDE DEF g
  <2> QED BY <1>5, <1>6, <1>11 DEF g
<1>12. CASE /\ growth_rate(previous, now) \in -I64_MAX - 1 .. I64_MAX
            /\ g.observed = Available(growth_rate(previous, now)) /\ g.at = now.at
            /\ g.last_rate_at = now.at
  <2> DEFINE rate == growth_rate(previous, now)
  <2>1. rate \in Int BY <1>9, <1>12
  <2>2. g.observed = Available(rate) BY <1>12
  <2> HIDE DEF g, rate
  <2>3. g.at = current.finished_at /\ g.last_rate_at = current.finished_at BY <1>3, <1>12 DEF g
  <2> HIDE DEF now
  <2>4. current.finished_at \in Nat
        /\ (~ghost.stepped => current.finished_at <= current.processed_at)
    BY DEF InHand
  <2> QED BY <1>8, <2>1, <2>2, <2>3, <2>4 DEF g
<1> QED BY <1>10, <1>11, <1>12, GrowthCases

PairNow(readable) ==
    IF budget.monitor
    THEN pressure_observation(loaded, IF readable THEN mono ELSE loaded.ns, current.processed_at)
    ELSE <<Unavailable, Unavailable>>
AdvisoryNow(swap, vm, readable) ==
    [field \in AdvisoryFields |->
        CASE field = "pressure_events" -> PairNow(readable)[1]
          [] field = "pressure_level" -> PairNow(readable)[2]
          [] field = "growth_bytes_per_second" -> observe(current).observed
          [] field = "swap_bytes" -> read_swap_bytes(swap)
          [] OTHER -> read_vm_bytes(vm)]
WindowNow(swap, vm, readable) ==
    AdvisoryWindow(current, AdvisoryNow(swap, vm, readable), observe(current))

LEMMA PairNowFacts ==
    ASSUME IInv, InHand, NEW readable \in BOOLEAN
    PROVE  \A i \in {1, 2} :
              /\ PairNow(readable)[i] \in Observations
              /\ PairNow(readable)[i].tag = "Stale" =>
                    PairNow(readable)[i].last_seen_at_ms <= duration_ms(current.processed_at)
<1>1. CASE budget.monitor
  <2>1. loaded.deliveries \in Nat /\ loaded.ns \in Nat BY <1>1 DEF IInv, LoadedOK, InHand
  <2> DEFINE now == IF readable THEN mono ELSE loaded.ns
  <2>2. PairNow(readable) = pressure_observation(loaded, now, current.processed_at)
    BY <1>1 DEF PairNow
  <2>3. now \in Nat BY <2>1 DEF InHand
  <2> HIDE DEF now
  <2> QED BY <2>1, <2>2, <2>3, PairFacts DEF InHand
<1>2. CASE ~budget.monitor
  <2>1. PairNow(readable) = <<Unavailable, Unavailable>> BY <1>2 DEF PairNow
  <2>2. Unavailable \in Observations /\ Unavailable.tag = "Unavailable"
    BY DEF Unavailable, Observations
  <2> QED BY <2>1, <2>2
<1> QED BY <1>1, <1>2

\* Every advisory value, and the time of a stale one.
LEMMA AdvisoryFacts ==
    ASSUME IInv, InHand, NEW swap \in Answers, NEW vm \in Answers, NEW readable \in BOOLEAN
    PROVE  /\ AdvisoryNow(swap, vm, readable) \in [AdvisoryFields -> Observations]
           /\ \A field \in AdvisoryFields :
                 /\ AdvisoryNow(swap, vm, readable)[field].tag = "Stale" =>
                       \/ field = "growth_bytes_per_second" /\ observe(current).at # None
                       \/ /\ AdvisoryNow(swap, vm, readable)[field].last_seen_at_ms \in Nat
                          /\ AdvisoryNow(swap, vm, readable)[field].last_seen_at_ms
                                <= duration_ms(current.processed_at)
<1>1. /\ read_swap_bytes(swap) \in Observations /\ read_swap_bytes(swap).tag # "Stale"
      /\ read_vm_bytes(vm) \in Observations /\ read_vm_bytes(vm).tag # "Stale"
  BY DEF Answers, read_swap_bytes, read_vm_bytes, Available, Error, Unavailable, Observations
<1>2. /\ observe(current).observed \in Observations
      /\ observe(current).observed.tag = "Stale" => observe(current).at # None
  BY GrowthFacts
<1>3. \A i \in {1, 2} :
         /\ PairNow(readable)[i] \in Observations
         /\ PairNow(readable)[i].tag = "Stale" =>
               PairNow(readable)[i].last_seen_at_ms <= duration_ms(current.processed_at)
  BY PairNowFacts
<1>4. \A o \in Observations : o.tag = "Stale" => o.last_seen_at_ms \in Nat
  BY DEF Observations, Unknown, Unavailable
<1>5. ASSUME NEW field \in AdvisoryFields
      PROVE  /\ AdvisoryNow(swap, vm, readable)[field] \in Observations
             /\ AdvisoryNow(swap, vm, readable)[field].tag = "Stale" =>
                   \/ field = "growth_bytes_per_second" /\ observe(current).at # None
                   \/ /\ AdvisoryNow(swap, vm, readable)[field].last_seen_at_ms \in Nat
                      /\ AdvisoryNow(swap, vm, readable)[field].last_seen_at_ms
                            <= duration_ms(current.processed_at)
  <2> DEFINE value == AdvisoryNow(swap, vm, readable)[field]
  <2>1. CASE field = "pressure_events"
    <3>1. value = PairNow(readable)[1] BY <2>1 DEF AdvisoryNow
    <3> QED BY <1>3, <1>4, <3>1
  <2>2. CASE field = "pressure_level"
    <3>1. value = PairNow(readable)[2] BY <2>2 DEF AdvisoryNow
    <3> QED BY <1>3, <1>4, <3>1
  <2>3. CASE field = "growth_bytes_per_second"
    <3>1. value = observe(current).observed BY <2>3 DEF AdvisoryNow
    <3> QED BY <1>2, <2>3, <3>1
  <2>4. CASE field \notin {"pressure_events", "pressure_level", "growth_bytes_per_second"}
    <3>1. value \in {read_swap_bytes(swap), read_vm_bytes(vm)} BY <2>4 DEF AdvisoryNow
    <3> QED BY <1>1, <3>1
  <2> QED BY <2>1, <2>2, <2>3, <2>4
<1>6. AdvisoryNow(swap, vm, readable) \in [AdvisoryFields -> Observations]
  <2>1. DOMAIN AdvisoryNow(swap, vm, readable) = AdvisoryFields
        /\ AdvisoryNow(swap, vm, readable) =
               [field \in AdvisoryFields |-> AdvisoryNow(swap, vm, readable)[field]]
    BY DEF AdvisoryNow
  <2> QED BY <1>5, <2>1
<1> QED BY <1>5, <1>6

LEMMA MeasurementFacts ==
    ASSUME NEW outcome \in Outcomes
    PROVE  /\ sample_observation(outcome) \in Observations
           /\ outcome.kind = "Complete" => sample_observation(outcome) = Available(outcome.bytes)
<1>1. CASE outcome.kind = "Complete"
  <2>1. outcome.bytes \in Nat BY <1>1, OutcomeBytes
  <2>2. sample_observation(outcome) = Available(outcome.bytes) BY <1>1 DEF sample_observation
  <2> QED BY <2>1, <2>2 DEF Available, Observations
<1>2. CASE outcome \in [kind : {"Partial"}, bytes : Bytes]
  <2>1. outcome.kind = "Partial" BY <1>2
  <2>2. sample_observation(outcome) = Unknown BY <2>1 DEF sample_observation
  <2> QED BY <2>1, <2>2 DEF Observations
<1>3. CASE outcome = [kind |-> "Overflow"] \/ outcome = [kind |-> "ClockDiscontinuity"]
  <2>1. outcome.kind \in {"Overflow", "ClockDiscontinuity"} BY <1>3
  <2>2. sample_observation(outcome) \in {Error("Internal"), Error("ClockAnomaly")}
    BY <2>1 DEF sample_observation
  <2> QED BY <2>1, <2>2 DEF Error, Observations
<1>4. CASE outcome \in [kind : {"SnapshotFailed"}, failure : FailureKinds]
  <2>1. outcome.kind = "SnapshotFailed" /\ outcome.failure \in FailureKinds BY <1>4
  <2>2. sample_observation(outcome) = snapshot_failure(outcome.failure)
    BY <2>1 DEF sample_observation
  <2>3. \A kind \in FailureKinds : snapshot_failure(kind) \in Observations
    BY DEF FailureKinds, snapshot_failure, Unavailable, Error, Observations
  <2> QED BY <2>1, <2>2, <2>3
<1>5. \/ outcome.kind = "Complete" \/ outcome \in [kind : {"Partial"}, bytes : Bytes]
      \/ outcome = [kind |-> "Overflow"] \/ outcome = [kind |-> "ClockDiscontinuity"]
      \/ outcome \in [kind : {"SnapshotFailed"}, failure : FailureKinds]
  BY DEF Outcomes, Found
<1> QED BY <1>1, <1>2, <1>3, <1>4, <1>5

\* The time a field is said to stand for.
AtMsNow(swap, vm, readable, field) ==
    IF field = "growth_bytes_per_second" /\ observe(current).at # None
    THEN duration_ms(observe(current).at)
    ELSE IF AdvisoryNow(swap, vm, readable)[field].tag = "Stale"
         THEN AdvisoryNow(swap, vm, readable)[field].last_seen_at_ms
         ELSE duration_ms(current.processed_at)

LEMMA AtMsFacts ==
    ASSUME IInv, InHand, NEW swap \in Answers, NEW vm \in Answers, NEW readable \in BOOLEAN,
           NEW field \in AdvisoryFields
    PROVE  /\ AtMsNow(swap, vm, readable, field) \in Nat
           /\ ~ghost.stepped => AtMsNow(swap, vm, readable, field) <= duration_ms(current.processed_at)
<1>1. current.processed_at \in Nat BY DEF InHand
<1>2. duration_ms(current.processed_at) \in Nat BY <1>1, Rounded
<1> DEFINE at == observe(current).at
<1>3. at # None => at \in Nat /\ (~ghost.stepped => at <= current.processed_at) BY GrowthFacts
<1>4. AdvisoryNow(swap, vm, readable)[field].tag = "Stale" =>
         \/ field = "growth_bytes_per_second" /\ at # None
         \/ /\ AdvisoryNow(swap, vm, readable)[field].last_seen_at_ms \in Nat
            /\ AdvisoryNow(swap, vm, readable)[field].last_seen_at_ms <= duration_ms(current.processed_at)
  BY AdvisoryFacts
<1> HIDE DEF at
<1>5. CASE field = "growth_bytes_per_second" /\ at # None
  <2>1. AtMsNow(swap, vm, readable, field) = duration_ms(at) BY <1>5 DEF AtMsNow, at
  <2>2. duration_ms(at) \in Nat BY <1>3, <1>5, Rounded
  <2>3. ~ghost.stepped => duration_ms(at) <= duration_ms(current.processed_at)
    BY <1>1, <1>3, <1>5, RoundedInOrder
  <2> QED BY <2>1, <2>2, <2>3
<1>6. CASE ~(field = "growth_bytes_per_second" /\ at # None)
  <2>1. CASE AdvisoryNow(swap, vm, readable)[field].tag = "Stale"
    <3>1. AtMsNow(swap, vm, readable, field) = AdvisoryNow(swap, vm, readable)[field].last_seen_at_ms
      BY <1>6, <2>1 DEF AtMsNow, at
    <3> QED BY <1>4, <1>6, <2>1, <3>1
  <2>2. CASE AdvisoryNow(swap, vm, readable)[field].tag # "Stale"
    <3>1. AtMsNow(swap, vm, readable, field) = duration_ms(current.processed_at)
      BY <1>6, <2>2 DEF AtMsNow, at
    <3> QED BY <1>2, <3>1
  <2> QED BY <2>1, <2>2
<1> QED BY <1>5, <1>6

\* The window made of the sample in hand.
LEMMA WindowFacts ==
    ASSUME IInv, InHand, NEW swap \in Answers, NEW vm \in Answers, NEW readable \in BOOLEAN
    PROVE  LET w == WindowNow(swap, vm, readable)
           IN /\ w \in Windows
              /\ w.aggregate_footprint_bytes = sample_observation(current.outcome)
              /\ w.processed_at_ms = duration_ms(current.processed_at)
              /\ current.started_at < current.finished_at => w.window_ms > 0
              /\ ~ghost.stepped => /\ w.captured_at_ms <= w.processed_at_ms
                                   /\ w.window_ms > 0 /\ valid_advisory_metrics(w)
<1> DEFINE w == WindowNow(swap, vm, readable)
           advisory == AdvisoryNow(swap, vm, readable)
           span == Monus(current.finished_at, current.started_at)
           metadata == [field \in AdvisoryFields |->
                           [captured_at_ms |-> AtMsNow(swap, vm, readable, field),
                            freshness |-> freshness_for(advisory[field])]]
<1>1. /\ current.started_at \in Nat /\ current.finished_at \in Nat /\ current.processed_at \in Nat
      /\ current.outcome \in Outcomes
      /\ ~ghost.stepped => /\ current.started_at < current.finished_at
                           /\ current.finished_at <= current.processed_at
  BY DEF InHand
<1>2. w = [captured_at_ms |-> duration_ms(current.finished_at),
           processed_at_ms |-> duration_ms(current.processed_at),
           window_ms |-> positive_duration_ms(span),
           aggregate_footprint_bytes |-> sample_observation(current.outcome),
           advisory |-> advisory, metadata |-> metadata]
  BY DEF WindowNow, AdvisoryWindow, AtMsNow
<1>3. span \in Nat /\ (current.started_at < current.finished_at => span > 0)
  BY <1>1 DEF Monus
<1> HIDE DEF span
<1>4. /\ duration_ms(current.finished_at) \in Nat /\ duration_ms(current.processed_at) \in Nat
      /\ positive_duration_ms(span) \in Nat
      /\ current.started_at < current.finished_at => positive_duration_ms(span) > 0
  BY <1>1, <1>3, Rounded
<1>5. ~ghost.stepped => duration_ms(current.finished_at) <= duration_ms(current.processed_at)
  BY <1>1, RoundedInOrder
<1>6. sample_observation(current.outcome) \in Observations BY <1>1, MeasurementFacts
<1>7. advisory \in [AdvisoryFields -> Observations] BY AdvisoryFacts
<1>8. \A field \in AdvisoryFields :
         /\ metadata[field] = [captured_at_ms |-> AtMsNow(swap, vm, readable, field),
                               freshness |-> freshness_for(advisory[field])]
         /\ metadata[field].captured_at_ms = AtMsNow(swap, vm, readable, field)
         /\ metadata[field].freshness = freshness_for(advisory[field])
  OBVIOUS
<1>9. \A o : freshness_for(o) \in {"Fresh", "InitialUnknown", "Stale", "Unavailable"}
  BY DEF freshness_for
<1>10. \A field \in AdvisoryFields :
          /\ AtMsNow(swap, vm, readable, field) \in Nat
          /\ ~ghost.stepped => AtMsNow(swap, vm, readable, field) <= duration_ms(current.processed_at)
  BY AtMsFacts
<1>11. \A field \in AdvisoryFields :
          metadata[field] \in [captured_at_ms : Nat,
                               freshness : {"Fresh", "InitialUnknown", "Stale", "Unavailable"}]
  BY <1>8, <1>9, <1>10
<1>12. metadata \in [AdvisoryFields ->
                        [captured_at_ms : Nat,
                         freshness : {"Fresh", "InitialUnknown", "Stale", "Unavailable"}]]
  BY <1>11
<1> HIDE DEF metadata, advisory, w
<1>13. w \in Windows BY <1>2, <1>4, <1>6, <1>7, <1>12 DEF Windows
<1>14. /\ w.aggregate_footprint_bytes = sample_observation(current.outcome)
       /\ w.captured_at_ms = duration_ms(current.finished_at)
       /\ w.processed_at_ms = duration_ms(current.processed_at)
       /\ w.window_ms = positive_duration_ms(span)
       /\ w.advisory = advisory /\ w.metadata = metadata
  BY <1>2
<1>15. ~ghost.stepped => valid_advisory_metrics(w)
  BY <1>8, <1>10, <1>14 DEF valid_advisory_metrics
<1> QED BY <1>1, <1>4, <1>5, <1>13, <1>14, <1>15 DEF w

-----------------------------------------------------------------------------
(* The record, variable by variable.                                       *)

SampleNow == [at |-> current.finished_at, outcome |-> current.outcome]
GrowthNow == [observed |-> observe(current).observed, before |-> ghost.growth.sample,
              sample |-> SampleNow]
SeenNow(readable) ==
    [level |-> PairNow(readable)[2].tag, counted |-> loaded.deliveries, event |-> loaded.event,
     timed |-> loaded.timed, before |-> Told, readable |-> readable, age |-> NewestAge]

LEMMA RecordWrites ==
    ASSUME IInv, NEW swap \in budget.answers, NEW vm \in budget.answers,
           NEW readable \in BOOLEAN, Record(swap, vm, readable)
    PROVE  /\ pc = "record" /\ pc' = "start" /\ swap \in Answers /\ vm \in Answers
           /\ UNCHANGED <<clock, mono, pressure, handler, last_started_at>>
           /\ budget' \in BudgetSet
           /\ calibration' = calibrate(current, observe(current))
           /\ report_samples' = retain_recent_sample(report_samples, WindowNow(swap, vm, readable))
           /\ DOMAIN ghost' = GhostFields
           /\ ghost'.stepped = ghost.stepped /\ ghost'.policy = ghost.policy
           /\ ghost'.times = ghost.times
           /\ ghost'.growth = GrowthNow
           /\ ghost'.bytes = (IF current.outcome.kind = "Complete"
                              THEN ghost.bytes \cup {current.outcome.bytes} ELSE ghost.bytes)
           /\ ghost'.rates = (IF observe(current).observed.tag = "Available"
                              THEN ghost.rates \cup {observe(current).observed.value}
                              ELSE ghost.rates)
           /\ ghost'.rate_at = (IF observe(current).observed.tag = "Available"
                                THEN duration_ms(current.finished_at) ELSE ghost.rate_at)
           /\ ghost'.seen = (IF ~budget.monitor THEN ghost.seen ELSE SeenNow(readable))
<1>1. budget \in BudgetSet /\ DOMAIN ghost = GhostFields BY DEF IInv, WorldOK
<1>2. swap \in Answers /\ vm \in Answers BY <1>1 DEF BudgetSet
<1>3. /\ pc = "record" /\ pc' = "start"
      /\ UNCHANGED <<clock, mono, pressure, handler, last_started_at>>
  BY DEF Record
<1>8. budget' \in BudgetSet BY ClockRead DEF Record, IInv
<1>4. calibration' = calibrate(current, observe(current)) BY DEF Record
<1>5. report_samples' = retain_recent_sample(report_samples, WindowNow(swap, vm, readable))
  BY DEF Record, WindowNow, AdvisoryNow, PairNow
<1> DEFINE bytes == IF current.outcome.kind = "Complete"
                    THEN ghost.bytes \cup {current.outcome.bytes} ELSE ghost.bytes
           rates == IF observe(current).observed.tag = "Available"
                    THEN ghost.rates \cup {observe(current).observed.value} ELSE ghost.rates
           rate_at == IF observe(current).observed.tag = "Available"
                      THEN duration_ms(current.finished_at) ELSE ghost.rate_at
           seen == IF ~budget.monitor THEN ghost.seen ELSE SeenNow(readable)
           growth == GrowthNow
<1>6. ghost' = [ghost EXCEPT !.growth = growth, !.bytes = bytes, !.rates = rates,
                             !.rate_at = rate_at, !.seen = seen]
  BY DEF Record, GrowthNow, SampleNow, SeenNow, Told, PairNow
<1> HIDE DEF bytes, rates, rate_at, seen, growth
<1>7. /\ DOMAIN ghost' = GhostFields
      /\ ghost'.stepped = ghost.stepped /\ ghost'.policy = ghost.policy
      /\ ghost'.times = ghost.times /\ ghost'.growth = growth /\ ghost'.bytes = bytes
      /\ ghost'.rates = rates /\ ghost'.rate_at = rate_at /\ ghost'.seen = seen
  BY <1>1, <1>6 DEF GhostFields
<1> QED BY <1>2, <1>3, <1>4, <1>5, <1>7, <1>8 DEF bytes, rates, rate_at, seen, growth

LEMMA CalibrateFacts ==
    ASSUME CalibrationOK, NEW sample, NEW growth
    PROVE  LET c == calibrate(sample, growth)
               complete == sample.outcome.kind = "Complete"
               rising == growth.observed.tag = "Available" /\ growth.observed.value > 0
           IN /\ DOMAIN c = CalibrationFields
              /\ c.total = calibration.total + 1
              /\ complete => /\ c.complete = calibration.complete + 1
                             /\ c.incomplete = calibration.incomplete
                             /\ c.peak = peak_of(calibration.peak, sample.outcome.bytes)
              /\ ~complete => /\ c.complete = calibration.complete
                              /\ c.incomplete = calibration.incomplete + 1
                              /\ c.peak = calibration.peak
              /\ rising =>
                    c.peak_growth = peak_of(calibration.peak_growth, growth.observed.value)
              /\ ~rising => c.peak_growth = calibration.peak_growth
              /\ c.baseline = growth.baseline /\ c.last_rate_at = growth.last_rate_at
<1> DEFINE complete == sample.outcome.kind = "Complete"
           rising == growth.observed.tag = "Available" /\ growth.observed.value > 0
           m == IF complete THEN calibration.complete + 1 ELSE calibration.complete
           n == IF complete THEN calibration.incomplete ELSE calibration.incomplete + 1
           f == IF calibration.first = None THEN sample.finished_at ELSE calibration.first
           p == IF complete THEN peak_of(calibration.peak, sample.outcome.bytes)
                ELSE calibration.peak
           q == IF rising THEN peak_of(calibration.peak_growth, growth.observed.value)
                ELSE calibration.peak_growth
           c == calibrate(sample, growth)
<1>1. c = [calibration EXCEPT !.total = calibration.total + 1, !.complete = m,
              !.incomplete = n, !.first = f, !.last = sample.finished_at, !.peak = p,
              !.peak_growth = q, !.baseline = growth.baseline,
              !.last_rate_at = growth.last_rate_at]
  BY DEF calibrate
<1>2. DOMAIN calibration = CalibrationFields BY DEF CalibrationOK
<1> HIDE DEF m, n, f, p, q, c
<1>3. /\ DOMAIN c = CalibrationFields
      /\ c.total = calibration.total + 1 /\ c.complete = m /\ c.incomplete = n
      /\ c.peak = p /\ c.peak_growth = q
      /\ c.baseline = growth.baseline /\ c.last_rate_at = growth.last_rate_at
  BY <1>1, <1>2 DEF CalibrationFields
<1> QED BY <1>3 DEF m, n, p, q, c

LEMMA RecordCalibration ==
    ASSUME IInv, NEW swap \in budget.answers, NEW vm \in budget.answers,
           NEW readable \in BOOLEAN, Record(swap, vm, readable)
    PROVE  CalibrationOK'
<1>1. CalibrationOK /\ InHand BY RecordsInHand, RecordWrites DEF IInv
<1> DEFINE g == observe(current)
           c == calibrate(current, g)
           complete == current.outcome.kind = "Complete"
           bytes == current.outcome.bytes
           value == g.observed.value
           rising == {r \in ghost.rates : r > 0}
<1>2. /\ calibration' = c
      /\ ghost'.bytes = (IF complete THEN ghost.bytes \cup {bytes} ELSE ghost.bytes)
      /\ ghost'.rates = (IF g.observed.tag = "Available" THEN ghost.rates \cup {value}
                         ELSE ghost.rates)
  BY RecordWrites
<1>3. complete => bytes \in Nat BY <1>1, OutcomeBytes DEF InHand
<1>4. g.observed.tag = "Available" => value \in Int BY <1>1, GrowthFacts
<1>5. /\ DOMAIN c = CalibrationFields
      /\ c.total = calibration.total + 1
      /\ complete => /\ c.complete = calibration.complete + 1
                     /\ c.incomplete = calibration.incomplete
                     /\ c.peak = peak_of(calibration.peak, bytes)
      /\ ~complete => /\ c.complete = calibration.complete
                      /\ c.incomplete = calibration.incomplete + 1
                      /\ c.peak = calibration.peak
      /\ (g.observed.tag = "Available" /\ value > 0) =>
            c.peak_growth = peak_of(calibration.peak_growth, value)
      /\ ~(g.observed.tag = "Available" /\ value > 0) =>
            c.peak_growth = calibration.peak_growth
  BY <1>1, CalibrateFacts
<1> HIDE DEF g, c, complete, bytes, value
<1>6. /\ calibration.total \in Nat /\ calibration.complete \in Nat
      /\ calibration.incomplete \in Nat /\ ghost.rates \subseteq Int
      /\ calibration.complete + calibration.incomplete = calibration.total
      /\ calibration.complete = 0 <=> ghost.bytes = {}
      /\ Highest(calibration.peak, ghost.bytes)
      /\ Highest(calibration.peak_growth, rising)
  BY <1>1 DEF CalibrationOK
<1>7. /\ c.total \in Nat /\ c.complete \in Nat /\ c.incomplete \in Nat
      /\ c.complete + c.incomplete = c.total
  <2>1. CASE complete BY <1>5, <1>6, <2>1
  <2>2. CASE ~complete BY <1>5, <1>6, <2>2
  <2> QED BY <2>1, <2>2
<1>8. (c.complete = 0 <=> ghost'.bytes = {}) /\ Highest(c.peak, ghost'.bytes)
  <2>1. CASE complete
    <3>1. ghost'.bytes = ghost.bytes \cup {bytes} /\ bytes \in Int BY <1>2, <1>3, <2>1
    <3>2. Highest(peak_of(calibration.peak, bytes), ghost.bytes \cup {bytes})
      BY <1>6, <3>1, HighestGrows
    <3>3. c.complete # 0 BY <1>5, <1>6, <2>1
    <3> QED BY <1>5, <2>1, <3>1, <3>2, <3>3
  <2>2. CASE ~complete BY <1>2, <1>5, <1>6, <2>2
  <2> QED BY <2>1, <2>2
<1>9. ghost'.rates \subseteq Int BY <1>2, <1>4, <1>6
<1>10. Highest(c.peak_growth, {r \in ghost'.rates : r > 0})
  <2>1. CASE g.observed.tag = "Available" /\ value > 0
    <3>1. ghost'.rates = ghost.rates \cup {value} /\ value \in Int BY <1>2, <1>4, <2>1
    <3>2. {r \in ghost'.rates : r > 0} = rising \cup {value} BY <2>1, <3>1
    <3> HIDE DEF rising
    <3>3. Highest(peak_of(calibration.peak_growth, value), rising \cup {value})
      BY <1>6, <3>1, HighestGrows
    <3> QED BY <1>5, <2>1, <3>2, <3>3
  <2>2. CASE ~(g.observed.tag = "Available" /\ value > 0)
    <3>1. {r \in ghost'.rates : r > 0} = rising BY <1>2, <1>4, <1>6, <2>2
    <3> HIDE DEF rising
    <3> QED BY <1>5, <1>6, <2>2, <3>1
  <2> QED BY <2>1, <2>2
<1> QED BY <1>2, <1>5, <1>7, <1>8, <1>9, <1>10 DEF CalibrationOK

\* Without a step of the clock, the sample before is dated before this one.
LEMMA BaselineIsBefore ==
    ASSUME IInv, InHand, ~ghost.stepped, calibration.baseline # None
    PROVE  ~(current.finished_at <= calibration.baseline.at)
<1>1. GrowthOK /\ PastOK BY DEF IInv
<1>2. /\ calibration.baseline.at \in Nat /\ ghost.growth.sample # None
      /\ ghost.growth.sample.at = calibration.baseline.at
  BY <1>1 DEF GrowthOK
<1>3. ghost.growth.sample.at <= current.started_at BY <1>1, <1>2 DEF PastOK, Bound, InHand
<1> QED BY <1>2, <1>3 DEF InHand

LEMMA RecordGrowth ==
    ASSUME IInv, NEW swap \in budget.answers, NEW vm \in budget.answers,
           NEW readable \in BOOLEAN, Record(swap, vm, readable)
    PROVE  GrowthOK'
<1>1. GrowthOK /\ CalibrationOK /\ InHand BY RecordsInHand, RecordWrites DEF IInv
<1> DEFINE g == observe(current)
           last == calibration.last_rate_at
           previous == calibration.baseline
           now == [at |-> current.finished_at, bytes |-> current.outcome.bytes]
           complete == current.outcome.kind = "Complete"
           b == ghost.growth.sample
<1>2. /\ ghost'.stepped = ghost.stepped
      /\ ghost'.growth = GrowthNow
      /\ ghost'.rates = (IF g.observed.tag = "Available" THEN ghost.rates \cup {g.observed.value}
                         ELSE ghost.rates)
      /\ ghost'.rate_at = (IF g.observed.tag = "Available" THEN duration_ms(current.finished_at)
                           ELSE ghost.rate_at)
  BY RecordWrites
<1>3. calibration'.baseline = g.baseline /\ calibration'.last_rate_at = g.last_rate_at
  BY <1>1, CalibrateFacts, RecordWrites
<1>4. /\ current.finished_at \in Nat /\ current.outcome \in Outcomes
      /\ complete => current.outcome.bytes \in Nat
  BY <1>1, OutcomeBytes DEF InHand
<1>5. None \notin Int /\ None \notin [at : Nat, bytes : Nat] /\ None \notin [at : Nat, outcome : Outcomes]
  BY EvidenceAssumption
<1>6. /\ DOMAIN ghost'.growth = {"observed", "before", "sample"}
      /\ ghost'.growth.observed = g.observed /\ ghost'.growth.before = b
      /\ ghost'.growth.sample = SampleNow
  BY <1>2 DEF GrowthNow
<1>7. /\ SampleNow \in [at : Nat, outcome : Outcomes] /\ SampleNow # None
      /\ SampleNow.at = current.finished_at /\ SampleNow.outcome = current.outcome
  BY <1>4, <1>5 DEF SampleNow
<1>8. now.at = current.finished_at /\ now.bytes = current.outcome.bytes
      /\ (complete => now \in [at : Nat, bytes : Nat])
  BY <1>4
<1>9. /\ Unknown.tag = "Unknown"
      /\ \A n : Stale(n).tag = "Stale" /\ Stale(n).last_seen_at_ms = n
      /\ \A n : Available(n).tag = "Available" /\ Available(n).value = n
      /\ \A n : Error(n).tag = "Error"
  BY DEF Unknown, Stale, Available, Error
<1>10. /\ previous # None =>
             /\ previous.at \in Nat /\ b # None /\ b.outcome.kind = "Complete"
             /\ b.at = previous.at /\ b.outcome.bytes = previous.bytes
       /\ (previous = None /\ ~ghost.stepped) => b = None \/ b.outcome.kind # "Complete"
       /\ last = None => ghost.rates = {}
       /\ last # None => last \in Nat /\ ghost.rate_at = duration_ms(last)
  BY <1>1 DEF GrowthOK
<1>11. (~ghost.stepped /\ previous # None) => ~(now.at <= previous.at)
  BY <1>1, <1>8, BaselineIsBefore
<1>12. \/ /\ ~complete
          /\ g.observed = (IF last = None THEN Unknown ELSE Stale(duration_ms(last)))
          /\ g.baseline = None /\ g.last_rate_at = last
       \/ /\ complete /\ g.last_rate_at = last
          /\ \/ previous = None /\ g.observed = Unknown /\ g.baseline = now
             \/ /\ previous # None /\ now.at <= previous.at
                /\ g.observed = Error("ClockAnomaly") /\ g.baseline = None
             \/ /\ previous # None
                /\ g.observed = Error("Internal") /\ g.baseline = now
       \/ /\ complete /\ previous # None /\ ~(now.at <= previous.at)
          /\ g.observed = Available(growth_rate(previous, now))
          /\ g.baseline = now /\ g.last_rate_at = now.at
  BY GrowthCases
<1>13. growth_rate(previous, now)
          = checked_div((current.outcome.bytes - previous.bytes) * TicksPerSecond,
                        current.finished_at - previous.at)
  BY <1>8 DEF growth_rate
<1> DEFINE rate == growth_rate(previous, now)
<1> HIDE DEF g, last, previous, now, b, rate
\* The baseline.
<1>14. /\ g.baseline # None =>
             /\ g.baseline \in [at : Nat, bytes : Nat] /\ complete
             /\ g.baseline.at = current.finished_at
             /\ g.baseline.bytes = current.outcome.bytes
       /\ (g.baseline = None /\ ~ghost.stepped) => ~complete
  BY <1>5, <1>8, <1>11, <1>12
\* The last rate.
<1>15. /\ g.last_rate_at = None => ghost'.rates = {}
       /\ g.last_rate_at # None => /\ g.last_rate_at \in Nat
                                   /\ ghost'.rate_at = duration_ms(g.last_rate_at)
  <2>1. CASE g.observed.tag = "Available"
    <3>1. g.last_rate_at = current.finished_at BY <1>8, <1>9, <1>12, <2>1
    <3> QED BY <1>2, <1>4, <1>5, <2>1, <3>1
  <2>2. CASE g.observed.tag # "Available"
    <3>1. g.last_rate_at = last BY <1>9, <1>12, <2>2
    <3> QED BY <1>2, <1>10, <2>2, <3>1
  <2> QED BY <2>1, <2>2
\* What is told of the growth.
<1>16. g.observed.tag = "Available" =>
          /\ b # None /\ b.outcome.kind = "Complete" /\ complete
          /\ b.at < current.finished_at
          /\ g.observed.value = checked_div((current.outcome.bytes - b.outcome.bytes) * TicksPerSecond,
                                            current.finished_at - b.at)
  <2> SUFFICES ASSUME g.observed.tag = "Available"
               PROVE  /\ b # None /\ b.outcome.kind = "Complete" /\ complete
                      /\ b.at < current.finished_at
                      /\ g.observed.value
                           = checked_div((current.outcome.bytes - b.outcome.bytes) * TicksPerSecond,
                                         current.finished_at - b.at)
    OBVIOUS
  <2>1. /\ complete /\ previous # None /\ ~(now.at <= previous.at)
        /\ g.observed = Available(rate)
    BY <1>9, <1>12 DEF rate
  <2>2. /\ b # None /\ b.outcome.kind = "Complete" /\ b.at = previous.at
        /\ b.outcome.bytes = previous.bytes /\ previous.at \in Nat
    BY <1>10, <2>1
  <2>3. b.at < current.finished_at BY <1>4, <1>8, <2>1, <2>2
  <2>4. g.observed.value = rate BY <1>9, <2>1
  <2>5. rate = checked_div((current.outcome.bytes - b.outcome.bytes) * TicksPerSecond,
                           current.finished_at - b.at)
    BY <1>13, <2>2 DEF rate
  <2> QED BY <2>1, <2>2, <2>3, <2>4, <2>5
<1>17. g.observed.tag = "Stale" => g.observed.last_seen_at_ms = ghost'.rate_at
  BY <1>2, <1>9, <1>10, <1>12
<1>18. ~ghost.stepped /\ g.observed = Unknown =>
          b = None \/ b.outcome.kind # "Complete" \/ ghost'.rates = {}
  <2> SUFFICES ASSUME ~ghost.stepped, g.observed = Unknown
               PROVE  b = None \/ b.outcome.kind # "Complete" \/ ghost'.rates = {}
    OBVIOUS
  <2>1. ghost'.rates = ghost.rates BY <1>2, <1>9
  <2>2. last = None \/ previous = None BY <1>9, <1>12
  <2> QED BY <1>10, <2>1, <2>2
<1>19. GrowthIsReal'
  BY <1>2, <1>6, <1>7, <1>16, <1>17, <1>18 DEF GrowthIsReal
<1> QED BY <1>2, <1>3, <1>6, <1>7, <1>14, <1>15, <1>19 DEF GrowthOK, duration_ms

\* The ring: the newest window is last, and each other one keeps its neighbour.
LEMMA Retained ==
    ASSUME NEW samples \in Seq(Windows), Len(samples) <= MAX_SAMPLE_HISTORY_CAPACITY,
           NEW w \in Windows
    PROVE  \E drop \in {0, 1} :
              LET kept == retain_recent_sample(samples, w)
                  n == Len(samples) - drop
              IN /\ kept \in Seq(Windows) /\ n \in Nat /\ Len(kept) = n + 1
                 /\ Len(kept) <= MAX_SAMPLE_HISTORY_CAPACITY
                 /\ \A i \in 1 .. n : i + drop \in 1 .. Len(samples) /\ kept[i] = samples[i + drop]
                 /\ kept[n + 1] = w
<1>1. MAX_SAMPLE_HISTORY_CAPACITY \in Nat \ {0} BY EvidenceAssumption
<1>2. Len(samples) \in Nat OBVIOUS
<1>3. CASE Len(samples) = MAX_SAMPLE_HISTORY_CAPACITY
  <2>1. samples # << >> BY <1>1, <1>3
  <2> DEFINE t == Tail(samples)
  <2>2. t \in Seq(Windows) /\ Len(t) = Len(samples) - 1
        /\ \A i \in 1 .. Len(t) : t[i] = samples[i + 1]
    BY <2>1
  <2>3. retain_recent_sample(samples, w) = Append(t, w) BY <1>3 DEF retain_recent_sample
  <2> HIDE DEF t
  <2>4. /\ Append(t, w) \in Seq(Windows) /\ Len(Append(t, w)) = Len(t) + 1
        /\ \A i \in 1 .. Len(t) : Append(t, w)[i] = t[i]
        /\ Append(t, w)[Len(t) + 1] = w
    BY <2>2
  <2>5. \A i \in 1 .. Len(t) : i + 1 \in 1 .. Len(samples) BY <1>2, <2>2
  <2> WITNESS 1 \in {0, 1}
  <2> QED BY <1>1, <1>2, <1>3, <2>2, <2>3, <2>4, <2>5
<1>4. CASE Len(samples) # MAX_SAMPLE_HISTORY_CAPACITY
  <2>1. retain_recent_sample(samples, w) = Append(samples, w) BY <1>4 DEF retain_recent_sample
  <2>2. /\ Append(samples, w) \in Seq(Windows) /\ Len(Append(samples, w)) = Len(samples) + 1
        /\ \A i \in 1 .. Len(samples) : Append(samples, w)[i] = samples[i]
        /\ Append(samples, w)[Len(samples) + 1] = w
    OBVIOUS
  <2> WITNESS 0 \in {0, 1}
  <2> QED BY <1>1, <1>2, <1>4, <2>1, <2>2
<1> QED BY <1>3, <1>4

LEMMA RecordReport ==
    ASSUME IInv, NEW swap \in budget.answers, NEW vm \in budget.answers,
           NEW readable \in BOOLEAN, Record(swap, vm, readable)
    PROVE  /\ ReportOK' /\ PolicyOK'
           /\ ~ghost'.stepped => \A i \in 1 .. Len(report_samples') :
                                    report_samples'[i].processed_at_ms <= duration_ms(clock)
<1>1. ReportOK /\ PastOK /\ PolicyOK /\ InHand BY RecordsInHand, RecordWrites DEF IInv
<1> DEFINE w == WindowNow(swap, vm, readable)
           kept == retain_recent_sample(report_samples, w)
<1>2. /\ pc = "record" /\ pc' = "start" /\ report_samples' = kept /\ ghost'.stepped = ghost.stepped
      /\ ghost'.policy = ghost.policy /\ swap \in Answers /\ vm \in Answers
  BY RecordWrites
<1>3. /\ w \in Windows
      /\ w.aggregate_footprint_bytes = sample_observation(current.outcome)
      /\ w.processed_at_ms = duration_ms(current.processed_at)
      /\ current.started_at < current.finished_at => w.window_ms > 0
      /\ ~ghost.stepped => /\ w.captured_at_ms <= w.processed_at_ms
                           /\ w.window_ms > 0 /\ valid_advisory_metrics(w)
  BY <1>1, <1>2, WindowFacts
<1>4. report_samples \in Seq(Windows) /\ Len(report_samples) <= MAX_SAMPLE_HISTORY_CAPACITY
  BY <1>1 DEF ReportOK
<1> HIDE DEF w
<1>5. PICK drop \in {0, 1} :
         LET n == Len(report_samples) - drop
         IN /\ kept \in Seq(Windows) /\ n \in Nat /\ Len(kept) = n + 1
            /\ Len(kept) <= MAX_SAMPLE_HISTORY_CAPACITY
            /\ \A i \in 1 .. n : /\ i + drop \in 1 .. Len(report_samples)
                                 /\ kept[i] = report_samples[i + drop]
            /\ kept[n + 1] = w
  BY <1>3, <1>4, Retained
<1> DEFINE n == Len(report_samples) - drop
<1>6. /\ kept \in Seq(Windows) /\ n \in Nat /\ Len(kept) = n + 1
      /\ Len(kept) <= MAX_SAMPLE_HISTORY_CAPACITY /\ kept[n + 1] = w
      /\ \A i \in 1 .. n : i + drop \in 1 .. Len(report_samples)
                           /\ kept[i] = report_samples[i + drop]
  BY <1>5
<1> HIDE DEF kept, n
\* The policy's number is in the last window.
<1>7. PolicyOK'
  <2>1. Last' = w BY <1>2, <1>6 DEF Last
  <2>2. ghost.policy # None =>
           /\ current.outcome.kind = "Complete" /\ current.outcome.bytes = ghost.policy
           /\ current.started_at < current.finished_at
    BY <1>1, <1>2 DEF PolicyOK, Processed
  <2>3. ghost.policy # None =>
           w.aggregate_footprint_bytes = Available(ghost.policy) /\ w.window_ms > 0
    BY <1>1, <1>3, <2>2, MeasurementFacts DEF InHand
  <2>4. PolicyInputIsReported' BY <1>2, <2>1, <2>3 DEF PolicyInputIsReported, Available
  <2>5. pc' \notin Processed BY <1>2 DEF Processed
  <2> QED BY <2>4, <2>5 DEF PolicyOK
\* Times stay in order.
<1>8. ASSUME ~ghost.stepped
      PROVE  /\ samples_ordered(kept)
             /\ \A i \in 1 .. Len(kept) : valid_advisory_metrics(kept[i])
             /\ \A i \in 1 .. Len(kept) : kept[i].processed_at_ms <= duration_ms(clock)
  <2>1. /\ current.started_at \in Nat /\ current.processed_at \in Nat /\ clock \in Nat
        /\ current.started_at <= current.processed_at /\ current.processed_at <= clock
    BY <1>1, <1>8 DEF InHand
  <2>2. /\ duration_ms(current.started_at) <= w.processed_at_ms
        /\ w.processed_at_ms <= duration_ms(clock)
        /\ duration_ms(current.started_at) \in Nat /\ w.processed_at_ms \in Nat
        /\ duration_ms(clock) \in Nat
    BY <1>3, <2>1, Rounded, RoundedInOrder
  <2>3. \A i \in 1 .. Len(report_samples) :
           /\ report_samples[i] \in Windows
           /\ report_samples[i].processed_at_ms <= duration_ms(current.started_at)
           /\ report_samples[i].captured_at_ms <= report_samples[i].processed_at_ms
           /\ report_samples[i].window_ms > 0
           /\ valid_advisory_metrics(report_samples[i])
    <3>1. Bound = current.started_at BY <1>2 DEF Bound
    <3> QED BY <1>1, <1>4, <1>8, <3>1 DEF PastOK, ReportOK, samples_ordered
  <2>4. \A i \in 1 .. Len(report_samples) - 1 :
           report_samples[i].processed_at_ms <= report_samples[i + 1].processed_at_ms
    BY <1>1, <1>8 DEF ReportOK, samples_ordered
  <2>5. \A v \in Windows : v.processed_at_ms \in Nat BY DEF Windows
  <2>6. ASSUME NEW i \in 1 .. n
        PROVE  /\ kept[i].processed_at_ms \in Nat
               /\ kept[i].processed_at_ms <= duration_ms(current.started_at)
               /\ kept[i].captured_at_ms <= kept[i].processed_at_ms
               /\ kept[i].window_ms > 0 /\ valid_advisory_metrics(kept[i])
    <3>1. i + drop \in 1 .. Len(report_samples) /\ kept[i] = report_samples[i + drop] BY <1>6
    <3> QED BY <2>3, <2>5, <3>1
  <2>7. ASSUME NEW i \in 1 .. n PROVE kept[i].processed_at_ms <= kept[i + 1].processed_at_ms
    <3>1. CASE i = n
      <4>1. kept[i + 1] = w BY <1>6, <3>1
      <4> QED BY <2>2, <2>6, <4>1
    <3>2. CASE i # n
      <4>1. i + 1 \in 1 .. n BY <1>6, <3>2
      <4>2. kept[i] = report_samples[i + drop] /\ i + drop \in 1 .. Len(report_samples) BY <1>6
      <4>3. kept[i + 1] = report_samples[(i + 1) + drop]
            /\ (i + 1) + drop \in 1 .. Len(report_samples)
        BY <1>6, <4>1
      <4>4. (i + 1) + drop = (i + drop) + 1 /\ i + drop \in 1 .. Len(report_samples) - 1
        BY <1>4, <4>2, <4>3
      <4> QED BY <2>4, <4>2, <4>3, <4>4
    <3> QED BY <3>1, <3>2
  <2>8. ASSUME NEW i \in 1 .. Len(kept)
        PROVE  /\ kept[i].captured_at_ms <= kept[i].processed_at_ms /\ kept[i].window_ms > 0
               /\ valid_advisory_metrics(kept[i])
               /\ kept[i].processed_at_ms <= duration_ms(clock)
    <3>1. CASE i = n + 1 BY <1>3, <1>6, <1>8, <2>2, <3>1
    <3>2. CASE i # n + 1
      <4>1. i \in 1 .. n BY <1>6, <3>2
      <4> QED BY <2>2, <2>6, <4>1
    <3> QED BY <3>1, <3>2
  <2>9. samples_ordered(kept)
    <3>1. Len(kept) - 1 = n BY <1>6
    <3> QED BY <2>7, <2>8, <3>1 DEF samples_ordered
  <2> QED BY <2>8, <2>9
<1>9. ReportOK' BY <1>2, <1>6, <1>8 DEF ReportOK
<1> QED BY <1>2, <1>7, <1>8, <1>9

LEMMA RecordPast ==
    ASSUME IInv, NEW swap \in budget.answers, NEW vm \in budget.answers,
           NEW readable \in BOOLEAN, Record(swap, vm, readable)
    PROVE  PastOK'
<1>1. PastOK /\ GrowthOK /\ CalibrationOK /\ WorldOK /\ InHand
  BY RecordsInHand, RecordWrites DEF IInv
<1>2. /\ pc = "record" /\ pc' = "start" /\ clock' = clock /\ last_started_at' = last_started_at
      /\ ghost'.stepped = ghost.stepped /\ ghost'.growth.sample = SampleNow
  BY RecordWrites DEF GrowthNow
<1>3. Bound = current.started_at /\ Bound' = clock BY <1>2 DEF Bound
<1>4. calibration'.last_rate_at = observe(current).last_rate_at
      /\ observe(current).last_rate_at \in {calibration.last_rate_at, current.finished_at}
  BY <1>1, RecordWrites, CalibrateFacts, GrowthFacts
<1> SUFFICES ASSUME ~ghost.stepped PROVE PastOK' BY <1>2 DEF PastOK
<1>5. /\ current.started_at \in Nat /\ current.finished_at \in Nat /\ clock \in Nat
      /\ current.started_at <= clock /\ current.finished_at <= clock
  BY <1>1 DEF InHand
<1>6. last_started_at # None => last_started_at <= clock
  <2>1. last_started_at # None => last_started_at \in Nat
    BY <1>1, EvidenceAssumption DEF WorldOK, Clocks
  <2> QED BY <1>1, <1>3, <1>5, <2>1 DEF PastOK
<1>7. SampleNow.at <= clock BY <1>5 DEF SampleNow
<1>8. calibration'.last_rate_at # None => calibration'.last_rate_at <= clock
  <2>1. calibration.last_rate_at # None => calibration.last_rate_at \in Nat BY <1>1 DEF GrowthOK
  <2> QED BY <1>1, <1>3, <1>4, <1>5, <2>1 DEF PastOK
<1>9. \A i \in 1 .. Len(report_samples') :
         report_samples'[i].processed_at_ms <= duration_ms(clock)
  BY <1>2, RecordReport
<1> QED BY <1>2, <1>3, <1>6, <1>7, <1>8, <1>9 DEF PastOK, duration_ms

\* The reader's level is as new as its count, and fresh only within the age limit.
LEMMA RecordPressure ==
    ASSUME IInv, NEW swap \in budget.answers, NEW vm \in budget.answers,
           NEW readable \in BOOLEAN, Record(swap, vm, readable)
    PROVE  PressureIsCurrent' /\ ToldOK'
<1>1. LoadedOK /\ CountersOK /\ ToldOK /\ PressureIsCurrent /\ InHand
  BY RecordsInHand, RecordWrites DEF IInv
<1>2. /\ pc = "record" /\ ghost'.times = ghost.times
      /\ ghost'.seen = (IF ~budget.monitor THEN ghost.seen ELSE SeenNow(readable))
  BY RecordWrites
<1>3. CASE ~budget.monitor
  BY <1>1, <1>2, <1>3
  DEF PressureIsCurrent, LevelKeepsUpWithCount, FreshLevelIsRecent, ToldOK, Told
<1>4. CASE budget.monitor
  <2>1. /\ loaded.deliveries \in Nat /\ loaded.event \in Nat /\ loaded.ns \in Nat
        /\ loaded.deliveries <= loaded.event /\ loaded.ns <= mono /\ Told <= loaded.event
        /\ loaded.timed \in Nat /\ loaded.timed <= Len(ghost.times)
        /\ Newest \in DOMAIN ghost.times => loaded.ns <= ghost.times[Newest]
    BY <1>1, <1>2, <1>4 DEF LoadedOK
  <2>2. ASSUME PairNow(readable)[2].tag = "Available", readable
        PROVE  NewestAge <= max_sample_age
    <3>1. PairNow(readable) = pressure_observation(loaded, mono, current.processed_at)
      BY <1>4, <2>2 DEF PairNow
    <3>2. Monus(mono, loaded.ns) <= max_sample_age
      BY <1>1, <2>1, <2>2, <3>1, PairFacts DEF InHand
    <3>3. mono \in Nat /\ max_sample_age \in Nat BY <1>1, EvidenceAssumption DEF InHand
    <3>4. NewestAge = IF Newest \in DOMAIN ghost.times THEN Monus(mono, ghost.times[Newest]) ELSE 0
      BY DEF NewestAge, Newest
    <3>5. CASE Newest \in DOMAIN ghost.times
      <4>1. ghost.times[Newest] \in Nat BY <1>1, <3>5 DEF CountersOK
      <4>2. loaded.ns <= ghost.times[Newest] BY <2>1, <3>5
      <4> QED BY <2>1, <3>2, <3>3, <3>4, <3>5, <4>1, <4>2 DEF Monus
    <3>6. CASE Newest \notin DOMAIN ghost.times BY <3>3, <3>4, <3>6
    <3> QED BY <3>5, <3>6
  <2> DEFINE tag == PairNow(readable)[2].tag
             age == NewestAge
             told == Told
  <2> HIDE DEF tag, age, told
  <2>4. ghost'.seen = [level |-> tag, counted |-> loaded.deliveries, event |-> loaded.event,
                       timed |-> loaded.timed, before |-> told, readable |-> readable,
                       age |-> age]
    BY <1>2, <1>4 DEF SeenNow, tag, age, told
  <2>5. /\ ghost'.seen.level = tag /\ ghost'.seen.counted = loaded.deliveries
        /\ ghost'.seen.event = loaded.event /\ ghost'.seen.timed = loaded.timed
        /\ ghost'.seen.before = told /\ ghost'.seen.readable = readable
        /\ ghost'.seen.age = age
    BY <2>4
  <2>6. LevelKeepsUpWithCount'
    BY <1>1, <2>1, <2>5 DEF LevelKeepsUpWithCount, told, ToldOK
  <2>7. tag = "Available" /\ readable => age <= max_sample_age BY <2>2 DEF tag, age
  <2>8. FreshLevelIsRecent' BY <2>5, <2>7 DEF FreshLevelIsRecent
  <2>9. ghost'.seen = None => Told' = 0 BY DEF Told
  <2>10. ghost'.seen # None => Told' = loaded.timed BY <2>5 DEF Told
  <2>11. ToldOK'
    <3>1. Len(ghost.times) \in Nat BY <1>1 DEF CountersOK
    <3> QED BY <1>2, <2>1, <2>9, <2>10, <3>1 DEF ToldOK
  <2> QED BY <2>6, <2>8, <2>11 DEF PressureIsCurrent
<1> QED BY <1>3, <1>4

LEMMA RecordStep ==
    ASSUME IInv, NEW swap \in budget.answers, NEW vm \in budget.answers,
           NEW readable \in BOOLEAN, Record(swap, vm, readable)
    PROVE  IInv'
<1>1. WorldOK BY DEF IInv
<1>2. /\ pc' = "start" /\ UNCHANGED <<clock, mono, pressure, handler, last_started_at>>
      /\ budget' \in BudgetSet
      /\ DOMAIN ghost' = GhostFields /\ ghost'.stepped = ghost.stepped
      /\ ghost'.times = ghost.times
  BY RecordWrites
<1>3. WorldOK' BY <1>1, <1>2 DEF WorldOK, Places
<1>4. mono \in Nat /\ mono <= mono' BY <1>1, <1>2 DEF WorldOK
<1>5. HandlerOK' /\ CountersOK' BY <1>2, <1>4, CountersStay
<1>6. LoadedOK' /\ CurrentOK' BY <1>2 DEF LoadedOK, CurrentOK, Snapped, Processed
<1>7. ReportOK' /\ PolicyOK' BY RecordReport
<1>8. PastOK' /\ CalibrationOK' /\ GrowthOK' /\ PressureIsCurrent' /\ ToldOK'
  BY RecordPast, RecordCalibration, RecordGrowth, RecordPressure
<1> QED BY <1>3, <1>5, <1>6, <1>7, <1>8 DEF IInv

-----------------------------------------------------------------------------
LEMMA NextInvariant ==
    ASSUME IInv, Next PROVE IInv'
<1>1. CASE Tick BY <1>1, TickStep
<1>2. CASE Sleep BY <1>2, SleepStep
<1>3. CASE ClockStepsBack BY <1>3, ClockStepsBackStep
<1>4. CASE \E mask \in Masks : PressureEvent(mask) BY <1>4, PressureEventStep
<1>5. CASE \E readable \in BOOLEAN : PressureStore(readable) BY <1>5, PressureStoreStep
<1>6. CASE sample_native BY <1>6, SampleNativeStep
<1>7. CASE \E found \in budget.found : record_snapshot(found) BY <1>7, RecordSnapshotStep
<1>8. CASE Process BY <1>8, ProcessStep
<1>9. CASE LoadDeliveries BY <1>9, LoadDeliveriesStep
<1>10. CASE LoadMask BY <1>10, LoadMaskStep
<1>11. CASE LoadNs BY <1>11, LoadNsStep
<1>12. CASE \E swap, vm \in budget.answers, readable \in BOOLEAN : Record(swap, vm, readable)
  BY <1>12, RecordStep
<1> QED
  BY <1>1, <1>2, <1>3, <1>4, <1>5, <1>6, <1>7, <1>8, <1>9, <1>10, <1>11, <1>12 DEF Next

LEMMA StutterInvariant ==
    ASSUME IInv, UNCHANGED vars PROVE IInv'
<1>1. UNCHANGED <<clock, mono, pressure, handler, pc, loaded, current, last_started_at,
                  calibration, report_samples, budget, ghost>>
  BY DEF vars
<1>2. WorldOK /\ LoadedOK /\ CurrentOK /\ PolicyOK /\ PastOK BY DEF IInv
<1>3. WorldOK' BY <1>1, <1>2 DEF WorldOK
<1>4. mono \in Nat /\ mono <= mono' BY <1>1, <1>2 DEF WorldOK
<1>5. HandlerOK' /\ CountersOK' /\ ToldOK' BY <1>1, <1>4, CountersStay
<1>6. LoadedOK' BY <1>1, <1>2 DEF LoadedOK, Told, Newest
<1>7. CurrentOK' BY <1>1, <1>2 DEF CurrentOK
<1>8. PolicyOK' BY <1>1, <1>2 DEF PolicyOK, PolicyInputIsReported, Last
<1>9. PastOK' BY <1>1, <1>2 DEF PastOK, Bound
<1>10. CalibrationOK' /\ GrowthOK' /\ ReportOK' /\ PressureIsCurrent' BY <1>1, RecordedStays
<1> QED BY <1>3, <1>5, <1>6, <1>7, <1>8, <1>9, <1>10 DEF IInv

\* The evidence invariant: counters and loads in step, kept times before the
\* sample in hand, peaks the highest of the run, in every reachable state of
\* sample_once and the pressure handler.
THEOREM EvidenceInvariant == Spec => []IInv
<1>1. IInv /\ [Next]_vars => IInv' BY NextInvariant, StutterInvariant
<1> QED BY InitInvariant, <1>1, PTL DEF Spec

\* What the report would say now of the peaks.
LEMMA ArtifactFacts ==
    ASSUME IInv
    PROVE  PeaksAreOfTheRun /\ valid_artifact(artifact)
<1>1. CalibrationOK BY DEF IInv
<1> DEFINE rising == {r \in ghost.rates : r > 0}
<1>2. /\ calibration.complete + calibration.incomplete = calibration.total
      /\ calibration.complete = 0 <=> ghost.bytes = {}
      /\ Highest(calibration.peak, ghost.bytes) /\ Highest(calibration.peak_growth, rising)
  BY <1>1 DEF CalibrationOK
<1>3. /\ artifact.complete_samples = calibration.complete
      /\ artifact.incomplete_samples = calibration.incomplete
      /\ artifact.total_samples = calibration.total
      /\ artifact.peak_aggregate_footprint_bytes =
            (IF calibration.peak = None THEN Unknown ELSE Available(calibration.peak))
      /\ artifact.peak_growth_bytes_per_second =
            (IF calibration.peak_growth = None THEN Unknown ELSE Available(calibration.peak_growth))
  BY DEF artifact
<1>4. \A r \in rising : r > 0 OBVIOUS
<1>5. PeaksAreOfTheRun
  <2> HIDE DEF rising
  <2>1. (calibration.peak = None <=> ghost.bytes = {})
        /\ (ghost.bytes # {} => Max(ghost.bytes) = calibration.peak)
    BY <1>2, HighestIsMax
  <2>2. (calibration.peak_growth = None <=> rising = {})
        /\ (rising # {} => Max(rising) = calibration.peak_growth)
    BY <1>2, HighestIsMax
  <2>3. artifact.peak_aggregate_footprint_bytes =
           (IF ghost.bytes = {} THEN Unknown ELSE Available(Max(ghost.bytes)))
    BY <1>3, <2>1
  <2>4. artifact.peak_growth_bytes_per_second =
           (IF rising = {} THEN Unknown ELSE Available(Max(rising)))
    BY <1>3, <2>2
  <2> QED BY <2>3, <2>4 DEF PeaksAreOfTheRun, rising
<1>6. valid_artifact(artifact)
  <2> HIDE DEF rising
  <2>1. calibration.complete = 0 <=> calibration.peak = None BY <1>2, HighestIsMax
  <2>2. calibration.peak_growth # None => calibration.peak_growth > 0 BY <1>2, <1>4 DEF Highest
  <2>3. Unknown.tag = "Unknown"
        /\ \A n : Available(n).tag = "Available" /\ Available(n).value = n
    BY DEF Unknown, Available
  <2>4. IF artifact.complete_samples = 0 THEN artifact.peak_aggregate_footprint_bytes = Unknown
        ELSE artifact.peak_aggregate_footprint_bytes.tag = "Available"
    BY <1>3, <2>1, <2>3
  <2>5. artifact.peak_growth_bytes_per_second.tag = "Available" =>
           artifact.peak_growth_bytes_per_second.value > 0
    BY <1>3, <2>2, <2>3
  <2> QED BY <1>2, <1>3, <2>4, <2>5 DEF valid_artifact
<1> QED BY <1>5, <1>6

\* Whatever is found and however times are rounded, the report that would be
\* written now passes ReportV1::validate unless the clock stepped back.
THEOREM ReportSafety == Spec => []ReportValidates
<1>1. IInv => ReportValidates
  <2> SUFFICES ASSUME IInv PROVE ReportValidates OBVIOUS
  <2>1. WorldOK /\ HandlerOK /\ CountersOK /\ CalibrationOK /\ ReportOK BY DEF IInv
  <2>2. TypeOK
    BY <2>1 DEF WorldOK, HandlerOK, CountersOK, CalibrationOK, ReportOK, TypeOK, Clocks
  <2>3. valid_artifact(artifact) BY ArtifactFacts
  <2> QED BY <2>1, <2>2, <2>3 DEF ReportOK, ReportValidates
<1> QED BY EvidenceInvariant, <1>1, PTL

\* Each growth rate is the exact one between two complete samples in a row, and
\* the peaks are the highest values of the whole run.
THEOREM CalibrationSafety == Spec => []CalibrationIsReal
<1>1. IInv => CalibrationIsReal
  <2> SUFFICES ASSUME IInv PROVE CalibrationIsReal OBVIOUS
  <2>1. GrowthIsReal BY DEF IInv, GrowthOK
  <2> QED BY <2>1, ArtifactFacts DEF CalibrationIsReal
<1> QED BY EvidenceInvariant, <1>1, PTL

\* The level told with a sample is not behind its count, catches up with a torn
\* read at the next sample, and is fresh only while the newest event of which
\* anything was loaded is within the age limit, unless the reader's clock failed.
THEOREM PressureSafety == Spec => []PressureIsCurrent
<1>1. IInv => PressureIsCurrent BY DEF IInv
<1> QED BY EvidenceInvariant, <1>1, PTL

\* The number the policy acts on is the complete measurement the report shows.
THEOREM PolicyInputSafety == Spec => []PolicyInputIsReported
<1>1. IInv => PolicyInputIsReported BY DEF IInv, PolicyOK
<1> QED BY EvidenceInvariant, <1>1, PTL
=============================================================================
