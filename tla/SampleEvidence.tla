--------------------------- MODULE SampleEvidence ---------------------------
(***************************************************************************)
(* What becomes of one snapshot (sampling.rs, advisory.rs and sample_once  *)
(* of runtime.rs): the sampler times it, the policy gets a number or none, *)
(* the advisory observer adds the memory pressure that a dispatch thread   *)
(* records meanwhile, and the calibration derives growth and peaks.  The   *)
(* result must pass the rules of ReportSchema.  Time is in clock ticks,    *)
(* several to the millisecond; what the snapshot found is chosen freely    *)
(* (FootprintSampling says what it may be).                                *)
(***************************************************************************)
EXTENDS ReportSchema, FiniteSetsExt

CONSTANTS
    TicksPerMs, TicksPerSecond,   \* the scale of the clock
    I64_MAX,                      \* the largest growth rate
    MAX_SAMPLE_HISTORY_CAPACITY,  \* windows retained for the report
    max_sample_age, max_sample_window,
    Bytes,                        \* footprints of a complete sample
    Masks,                        \* flags of a memory pressure event
    MaxClock,                     \* bound: ticks
    Budgets                       \* bounds to start from: samples, pressure events,
                                  \* clock steps back, host sleeps, failed reads of
                                  \* the monotonic clock, whether there is a pressure
                                  \* monitor, and what the snapshots and the system
                                  \* calls may answer

FailureKinds == {"Unsupported", "Unavailable", "PermissionDenied", "Disappeared",
                 "StaleIdentity", "MalformedData", "EnumerationFailed"}

\* What a system call may answer, and what a snapshot may find.
Answers == {"ok", "denied", "unsupported", "failed"}
Found == [kind : {"Complete"}, bytes : Bytes] \cup [kind : {"Partial"}, bytes : Bytes]
             \cup {[kind |-> "Overflow"]} \cup [kind : {"SnapshotFailed"}, failure : FailureKinds]
Outcomes == Found \cup {[kind |-> "ClockDiscontinuity"]}

ASSUME EvidenceAssumption ==
    /\ TicksPerMs \in Nat \ {0} /\ TicksPerSecond \in Nat \ {0}
    /\ MAX_SAMPLE_HISTORY_CAPACITY \in Nat \ {0}
    /\ max_sample_window \in Nat \ {0} /\ max_sample_age \in Nat
    /\ max_sample_window <= max_sample_age      \* SamplingConfig::new
    /\ Bytes \subseteq Nat /\ Masks \subseteq SUBSET {"normal", "warning", "critical"}
    /\ I64_MAX \in Nat /\ MaxClock \in Nat
    /\ Budgets \subseteq [samples : Nat, events : Nat, steps : Nat, sleeps : Nat, failures : Nat,
                          monitor : BOOLEAN, found : SUBSET Found, answers : SUBSET Answers]
    /\ None \notin Int /\ None \notin [at : Nat, bytes : Nat]
    /\ None \notin [at : Nat, outcome : Outcomes]

VARIABLES
    clock,          \* Instant::elapsed since the start
    mono,           \* CLOCK_MONOTONIC, which also runs while the host sleeps
    pressure,       \* the counters the dispatch thread and the reader share
    handler,        \* the dispatch thread: the stores left of its event
    pc,             \* the supervisor's place in sample_once
    loaded,         \* the counters it has loaded
    current,        \* the sample in hand
    last_started_at,
    calibration,    \* ObserveCalibration
    report_samples, \* the retained windows
    budget,
    ghost           \* what happened, for the properties only

vars == <<clock, mono, pressure, handler, pc, loaded, current, last_started_at, calibration,
          report_samples, budget, ghost>>

NoGrowth == [observed |-> None, before |-> None, sample |-> None]

Init ==
    /\ clock = 0 /\ mono = 0
    /\ pressure = [deliveries |-> 0, mask |-> {}, ns |-> 0, event |-> 0]
    /\ handler = << >>
    /\ pc = "start"
    /\ loaded = None /\ current = None /\ last_started_at = None
    /\ calibration = [total |-> 0, complete |-> 0, incomplete |-> 0, first |-> None,
                      last |-> None, peak |-> None, peak_growth |-> None,
                      baseline |-> None, last_rate_at |-> None]
    /\ report_samples = << >>
    /\ budget \in Budgets
    /\ ghost = [stepped |-> FALSE, bytes |-> {}, rates |-> {}, rate_at |-> None,
                policy |-> None, growth |-> NoGrowth, seen |-> None, times |-> << >>]

Monus(a, b) == IF a > b THEN a - b ELSE 0
Spend(what) == budget[what] > 0 /\ budget' = [budget EXCEPT ![what] = @ - 1]

-----------------------------------------------------------------------------
(* Conversions.                                                            *)

duration_ms(ticks) == ticks \div TicksPerMs

\* Mutant: a window shorter than a millisecond is rounded down like any other.
positive_duration_ms_floor(ticks) == duration_ms(ticks)

positive_duration_ms(ticks) == IF duration_ms(ticks) = 0 /\ ticks # 0 THEN 1 ELSE duration_ms(ticks)

\* Division that truncates towards zero.
checked_div(a, b) == IF a >= 0 THEN a \div b ELSE -((-a) \div b)

-----------------------------------------------------------------------------
(* The clocks.                                                             *)

Tick ==
    /\ clock < MaxClock
    /\ clock' = clock + 1 /\ mono' = mono + 1
    /\ UNCHANGED <<pressure, handler, pc, loaded, current, last_started_at, calibration,
                   report_samples, budget, ghost>>

\* The host sleeps: Instant stands still.
Sleep ==
    /\ Spend("sleeps")
    /\ mono' = mono + max_sample_age
    /\ UNCHANGED <<clock, pressure, handler, pc, loaded, current, last_started_at, calibration,
                   report_samples, ghost>>

\* The case record_snapshot and GrowthTracker are written for.
ClockStepsBack ==
    /\ clock > 0 /\ Spend("steps")
    /\ clock' \in 0 .. clock - 1
    /\ ghost' = [ghost EXCEPT !.stepped = TRUE]
    /\ UNCHANGED <<mono, pressure, handler, pc, loaded, current, last_started_at, calibration,
                   report_samples>>

-----------------------------------------------------------------------------
(* pressure_event, on a dispatch thread: three separate atomic stores.     *)

\* Mutant: the delivery is counted before it is stored.
StoreOrder_count_first == <<"deliveries", "mask", "ns">>

StoreOrder == <<"mask", "ns", "deliveries">>

PressureEvent(mask) ==
    /\ handler = << >>
    /\ Spend("events")
    /\ handler' = [i \in 1 .. 3 |-> [store |-> StoreOrder[i], mask |-> mask]]
    /\ UNCHANGED <<clock, mono, pressure, pc, loaded, current, last_started_at, calibration,
                   report_samples, ghost>>

\* monotonic_ns: the clock is read, or the read fails.
monotonic_ns(readable) == IF readable THEN UNCHANGED budget ELSE Spend("failures")

\* ghost.times holds when each event was timed, also when its handler could not
\* read the clock and stored a zero.
PressureStore(readable) ==
    /\ handler # << >>
    /\ readable \/ Head(handler).store = "ns"
    /\ monotonic_ns(readable)
    /\ LET store == Head(handler).store
       IN /\ pressure' =
              CASE store = "mask" -> [pressure EXCEPT !.mask = Head(handler).mask, !.event = @ + 1]
                [] store = "ns" -> [pressure EXCEPT !.ns = IF readable THEN mono ELSE 0]
                [] store = "deliveries" -> [pressure EXCEPT !.deliveries = @ + 1]
          /\ ghost' = IF store = "ns" THEN [ghost EXCEPT !.times = Append(@, mono)] ELSE ghost
    /\ handler' = Tail(handler)
    /\ UNCHANGED <<clock, mono, pc, loaded, current, last_started_at, calibration, report_samples>>

\* pressure_observation: the count and the level, from what was loaded.
level(mask) ==
    IF "critical" \in mask THEN Available("Critical")
    ELSE IF "warning" \in mask THEN Available("Warning")
    ELSE IF "normal" \in mask THEN Available("Normal")
    ELSE Error("MalformedKernelData")

\* Mutant: a level stays current until the next event.
pressure_observation_ageless(counters, now, captured_at) ==
    IF counters.deliveries = 0 THEN <<Unknown, Unknown>>
    ELSE <<Available(counters.deliveries), level(counters.mask)>>

pressure_observation(counters, now, captured_at) ==
    LET age == Monus(now, counters.ns)
        stale == Stale(duration_ms(Monus(captured_at, age)))
    IN IF counters.deliveries = 0 THEN <<Unknown, Unknown>>
       ELSE IF age > max_sample_age THEN <<stale, stale>>
       ELSE <<Available(counters.deliveries), level(counters.mask)>>

-----------------------------------------------------------------------------
(* sample_native, record_snapshot and policy_event.                        *)

sampleStep == <<clock, mono, pressure, handler, budget>>

sample_native ==
    /\ pc = "start" /\ Spend("samples")
    /\ current' = [started_at |-> clock]
    /\ pc' = "snapshot"
    /\ UNCHANGED <<clock, mono, pressure, handler, loaded, last_started_at, calibration, report_samples, ghost>>

\* A snapshot takes at least one tick unless the clock stepped meanwhile.
record_snapshot(found) ==
    /\ pc = "snapshot"
    /\ clock > current.started_at \/ ghost.stepped
    /\ LET discontinuity == \/ clock < current.started_at
                            \/ last_started_at # None /\ current.started_at < last_started_at
       IN /\ current' = [started_at |-> current.started_at, finished_at |-> clock,
                         outcome |-> IF discontinuity THEN [kind |-> "ClockDiscontinuity"]
                                     ELSE found]
          /\ last_started_at' = IF discontinuity THEN last_started_at ELSE current.started_at
    /\ pc' = "process"
    /\ UNCHANGED <<sampleStep, loaded, calibration, report_samples, ghost>>

\* Mutant: the known part of a partial sample is given to the policy.
measured_partial(sample) ==
    IF sample.outcome.kind \in {"Complete", "Partial"} THEN sample.outcome.bytes ELSE None

measured(sample) == IF sample.outcome.kind = "Complete" THEN sample.outcome.bytes ELSE None

policy_event(sample, processed_at) ==
    LET window == sample.finished_at - sample.started_at
        quality_valid ==
            /\ window > 0 /\ processed_at >= sample.finished_at
            /\ last_started_at # None => sample.started_at <= last_started_at
            /\ window <= max_sample_window
            /\ processed_at - sample.finished_at <= max_sample_age
    IN IF quality_valid THEN measured(sample) ELSE None

Process ==
    /\ pc = "process"
    /\ current' = [started_at |-> current.started_at, finished_at |-> current.finished_at,
                   outcome |-> current.outcome, processed_at |-> clock]
    /\ ghost' = [ghost EXCEPT !.policy = policy_event(current, clock)]
    /\ pc' = IF budget.monitor THEN "load_deliveries" ELSE "record"
    /\ UNCHANGED <<sampleStep, loaded, last_started_at, calibration, report_samples>>

-----------------------------------------------------------------------------
(* observation: three atomic loads, then the age.                          *)

Load(counters, next) ==
    /\ loaded' = counters
    /\ pc' = next
    /\ UNCHANGED <<sampleStep, current, last_started_at, calibration, report_samples, ghost>>

LoadDeliveries ==
    pc = "load_deliveries" /\ Load([deliveries |-> pressure.deliveries], "load_mask")

LoadMask ==
    /\ pc = "load_mask"
    /\ Load([deliveries |-> loaded.deliveries, mask |-> pressure.mask, event |-> pressure.event],
            "load_ns")

\* The event whose level was loaded and the one whose time was (timed) may be two
\* events: nothing ties the loads together.
LoadNs ==
    /\ pc = "load_ns"
    /\ Load([deliveries |-> loaded.deliveries, mask |-> loaded.mask, event |-> loaded.event,
             ns |-> pressure.ns, timed |-> Len(ghost.times)], "record")

-----------------------------------------------------------------------------
(* GrowthTracker::observe: a rate between two complete samples in a row.   *)

Growth(observed, at, baseline, last_rate_at) ==
    [observed |-> observed, at |-> at, baseline |-> baseline, last_rate_at |-> last_rate_at]

\* Mutant: the baseline outlives an incomplete sample.
baseline_after_gap_kept == calibration.baseline

baseline_after_gap == None

growth_rate(previous, now) ==
    checked_div((now.bytes - previous.bytes) * TicksPerSecond, now.at - previous.at)

observe(sample) ==
    LET last == calibration.last_rate_at
        previous == calibration.baseline
        now == [at |-> sample.finished_at, bytes |-> sample.outcome.bytes]
    IN IF sample.outcome.kind # "Complete"
       THEN Growth(IF last = None THEN Unknown ELSE Stale(duration_ms(last)), last,
                   baseline_after_gap, last)
       ELSE IF previous = None THEN Growth(Unknown, None, now, last)
       ELSE IF now.at <= previous.at THEN Growth(Error("ClockAnomaly"), None, None, last)
       ELSE IF growth_rate(previous, now) \notin -I64_MAX - 1 .. I64_MAX
       THEN Growth(Error("Internal"), None, now, last)
       ELSE Growth(Available(growth_rate(previous, now)), now.at, now, now.at)

snapshot_failure(kind) ==
    CASE kind \in {"Unsupported", "Unavailable"} -> Unavailable
      [] kind = "PermissionDenied" -> Error("PermissionDenied")
      [] kind \in {"Disappeared", "StaleIdentity"} -> Error("ProcessMissing")
      [] kind = "MalformedData" -> Error("MalformedKernelData")
      [] kind = "EnumerationFailed" -> Error("Internal")

sample_observation(outcome) ==
    CASE outcome.kind = "Complete" -> Available(outcome.bytes)
      [] outcome.kind = "Partial" -> Unknown
      [] outcome.kind = "ClockDiscontinuity" -> Error("ClockAnomaly")
      [] outcome.kind = "Overflow" -> Error("Internal")
      [] outcome.kind = "SnapshotFailed" -> snapshot_failure(outcome.failure)

\* with_growth: every field with its freshness and the time it stands for.
AdvisoryWindow(sample, advisory, growth) ==
    LET captured == duration_ms(sample.processed_at)
        AtMs(field) ==
            IF field = "growth_bytes_per_second" /\ growth.at # None THEN duration_ms(growth.at)
            ELSE IF advisory[field].tag = "Stale" THEN advisory[field].last_seen_at_ms
            ELSE captured
    IN [captured_at_ms |-> duration_ms(sample.finished_at),
        processed_at_ms |-> captured,
        window_ms |-> positive_duration_ms(Monus(sample.finished_at, sample.started_at)),
        aggregate_footprint_bytes |-> sample_observation(sample.outcome),
        advisory |-> advisory,
        metadata |-> [field \in AdvisoryFields |->
                         [captured_at_ms |-> AtMs(field),
                          freshness |-> freshness_for(advisory[field])]]]

\* Mutant: the peak is the last complete sample's.
peak_of_last(peak, value) == value

peak_of(peak, value) == IF peak = None THEN value ELSE Max({peak, value})

\* record_sample
calibrate(sample, growth) ==
    LET complete == sample.outcome.kind = "Complete"
        rising == growth.observed.tag = "Available" /\ growth.observed.value > 0
    IN [calibration EXCEPT
           !.total = @ + 1,
           !.complete = IF complete THEN @ + 1 ELSE @,
           !.incomplete = IF complete THEN @ ELSE @ + 1,
           !.first = IF @ = None THEN sample.finished_at ELSE @,
           !.last = sample.finished_at,
           !.peak = IF complete THEN peak_of(@, sample.outcome.bytes) ELSE @,
           !.peak_growth = IF rising THEN peak_of(@, growth.observed.value) ELSE @,
           !.baseline = growth.baseline,
           !.last_rate_at = growth.last_rate_at]

\* Mutant: the oldest window is never dropped.
retain_recent_sample_unbounded(samples, window) == Append(samples, window)

\* retain_recent_sample
retain_recent_sample(samples, window) ==
    Append(IF Len(samples) = MAX_SAMPLE_HISTORY_CAPACITY THEN Tail(samples) ELSE samples, window)

\* Each system call answers or fails; one call answers for two metrics.
read_swap_bytes(answer) ==
    CASE answer = "ok" -> Available(0)
      [] answer = "denied" -> Error("PermissionDenied")
      [] answer = "unsupported" -> Unavailable
      [] answer = "failed" -> Error("Internal")

read_vm_bytes(answer) == IF answer = "ok" THEN Available(0) ELSE Error("Internal")

\* How old the newest event is of which this sample loaded the level or the time;
\* nothing while its handler has not timed it.
NewestAge ==
    LET newest == IF loaded.timed > loaded.event THEN loaded.timed ELSE loaded.event
    IN IF newest \in DOMAIN ghost.times THEN Monus(mono, ghost.times[newest]) ELSE 0

\* Observer::snapshot, then record_sample.  A host without a pressure source has
\* no monitor.  When the clock cannot be read, the time of the event stands for
\* the time now.
Record(swap, vm, readable) ==
    /\ pc = "record"
    /\ readable \/ budget.monitor
    /\ monotonic_ns(readable)
    /\ LET now == IF readable THEN mono ELSE loaded.ns
           pair == IF budget.monitor THEN pressure_observation(loaded, now, current.processed_at)
                   ELSE <<Unavailable, Unavailable>>
           growth == observe(current)
           advisory == [field \in AdvisoryFields |->
                           CASE field = "pressure_events" -> pair[1]
                             [] field = "pressure_level" -> pair[2]
                             [] field = "growth_bytes_per_second" -> growth.observed
                             [] field = "swap_bytes" -> read_swap_bytes(swap)
                             [] OTHER -> read_vm_bytes(vm)]
       IN /\ calibration' = calibrate(current, growth)
          /\ report_samples' =
                 retain_recent_sample(report_samples, AdvisoryWindow(current, advisory, growth))
          /\ ghost' = [ghost EXCEPT
                          !.growth = [observed |-> growth.observed, before |-> @.sample,
                                      sample |-> [at |-> current.finished_at,
                                                  outcome |-> current.outcome]],
                          !.bytes = IF current.outcome.kind = "Complete"
                                    THEN @ \cup {current.outcome.bytes} ELSE @,
                          !.rates = IF growth.observed.tag = "Available"
                                    THEN @ \cup {growth.observed.value} ELSE @,
                          !.rate_at = IF growth.observed.tag = "Available"
                                      THEN duration_ms(current.finished_at) ELSE @,
                          !.seen = IF ~budget.monitor THEN @ ELSE
                                   [level |-> pair[2].tag, counted |-> loaded.deliveries,
                                    event |-> loaded.event, timed |-> loaded.timed,
                                    before |-> IF @ = None THEN 0 ELSE @.timed,
                                    readable |-> readable, age |-> NewestAge]]
    /\ loaded' = None /\ current' = None
    /\ pc' = "start"
    /\ UNCHANGED <<clock, mono, pressure, handler, last_started_at>>

Next ==
    \/ Tick \/ Sleep \/ ClockStepsBack
    \/ (\E mask \in Masks : PressureEvent(mask)) \/ (\E readable \in BOOLEAN : PressureStore(readable))
    \/ sample_native \/ (\E found \in budget.found : record_snapshot(found)) \/ Process
    \/ LoadDeliveries \/ LoadMask \/ LoadNs
    \/ \E swap, vm \in budget.answers, readable \in BOOLEAN : Record(swap, vm, readable)

Spec == Init /\ [][Next]_vars

\* ObserveCalibration::artifact
artifact ==
    LET Peak(value) == IF value = None THEN Unknown ELSE Available(value)
    IN [total_samples |-> calibration.total, complete_samples |-> calibration.complete,
        incomplete_samples |-> calibration.incomplete,
        observed_duration_ms |->
            IF calibration.first = None THEN 0
            ELSE duration_ms(Monus(calibration.last, calibration.first)),
        peak_aggregate_footprint_bytes |-> Peak(calibration.peak),
        peak_growth_bytes_per_second |-> Peak(calibration.peak_growth)]

-----------------------------------------------------------------------------
(* Properties.                                                             *)

TypeOK ==
    /\ clock \in 0 .. MaxClock /\ mono \in Nat
    /\ pressure.deliveries \in Nat /\ pressure.mask \in Masks \cup {{}}
    /\ Len(handler) <= 3
    /\ last_started_at \in 0 .. MaxClock \cup {None}
    /\ calibration.total \in Nat
    /\ Len(report_samples) <= MAX_SAMPLE_HISTORY_CAPACITY

Last == report_samples[Len(report_samples)]

\* Whatever the snapshots find, the report that would be written now passes its
\* own validation, so the run is not lost: times in milliseconds stay ordered
\* though they are rounded separately, a window shorter than a millisecond is
\* not rounded to nothing and the artifact is coherent.  A clock that stepped
\* back, which Instant never does, would break it.
ReportValidates ==
    /\ TypeOK
    /\ ~ghost.stepped =>
           /\ samples_ordered(report_samples)
           /\ \A i \in 1 .. Len(report_samples) : valid_advisory_metrics(report_samples[i])
           /\ valid_artifact(artifact)

\* A growth rate is the exact rate between the last two samples, both complete
\* and in clock order, never across a gap or a clock step; without one the
\* report says so, or names the time of the last rate there was.
GrowthIsReal ==
    LET g == ghost.growth
        rate == checked_div((g.sample.outcome.bytes - g.before.outcome.bytes) * TicksPerSecond,
                            g.sample.at - g.before.at)
    IN g.observed # None =>
          /\ g.observed.tag = "Available" =>
                 /\ g.before # None
                 /\ g.before.outcome.kind = "Complete" /\ g.sample.outcome.kind = "Complete"
                 /\ g.before.at < g.sample.at
                 /\ g.observed.value = rate
          /\ g.observed.tag = "Stale" => g.observed.last_seen_at_ms = ghost.rate_at
          /\ ~ghost.stepped /\ g.observed = Unknown =>
                 g.before = None \/ g.before.outcome.kind # "Complete" \/ ghost.rates = {}

\* The calibration section holds the highest footprint and the highest rising
\* rate of the whole run, the windows that left the ring included.
PeaksAreOfTheRun ==
    /\ artifact.peak_aggregate_footprint_bytes =
           IF ghost.bytes = {} THEN Unknown ELSE Available(Max(ghost.bytes))
    /\ LET rising == {r \in ghost.rates : r > 0}
       IN artifact.peak_growth_bytes_per_second =
              IF rising = {} THEN Unknown ELSE Available(Max(rising))

\* A reported pressure level belongs to the last counted event or to a newer
\* one: the handler stores the level before it counts, the reader loads the
\* count before the level.  The three loads can be torn by an event that is
\* stored between them, so that an old level, of whatever age, is told with the
\* time of the newer event; the next sample tells that event's level or a newer.
LevelKeepsUpWithCount ==
    ghost.seen # None =>
        /\ ghost.seen.level = "Available" => ghost.seen.event >= ghost.seen.counted
        /\ ghost.seen.event >= ghost.seen.before

\* A level is reported fresh only while the newest event of which the sample
\* loaded anything is within the age limit: its own event, or after a torn read
\* the one that replaced it.  A handler that could not read the clock does not
\* change that (its zero only ages the event); a reader that cannot takes any
\* level for fresh, and is excepted.
FreshLevelIsRecent ==
    ghost.seen # None /\ ghost.seen.level = "Available" /\ ghost.seen.readable =>
        ghost.seen.age <= max_sample_age

\* The policy is given a number only when the window beside it in the report
\* shows the same number as a complete measurement.
PolicyInputIsReported ==
    pc = "start" /\ ghost.policy # None =>
        /\ Last.aggregate_footprint_bytes = Available(ghost.policy)
        /\ Last.window_ms > 0

\* The calibration is of this run: each growth rate is one that was measured, and
\* the peaks are the highest values there were.
CalibrationIsReal == GrowthIsReal /\ PeaksAreOfTheRun

\* The pressure level told with a sample is never behind the events counted
\* beside it, lags a torn read for that one sample only, and is not told fresh
\* once the newest event loaded is past the age limit, as long as the reader's
\* clock can be read.
PressureIsCurrent == LevelKeepsUpWithCount /\ FreshLevelIsRecent
=============================================================================
