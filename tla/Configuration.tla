--------------------------- MODULE Configuration ---------------------------
(***************************************************************************)
(* From the command line to the three configurations made of it            *)
(* (parse_cli and the parsers of crates/mlx-guard-cli/src/lib.rs;          *)
(* run_policy_config, sampling_config, run_configuration and               *)
(* observe_configuration of runtime.rs).  parse_cli checks once, and then  *)
(* the policy machine, the sampler and the report validate what was        *)
(* derived, each by rules of its own.  A quantity is a number and a unit   *)
(* on the command line; bytes are u64, durations are milliseconds.         *)
(***************************************************************************)
EXTENDS ReportSchema

CONSTANTS
    U64_MAX,        \* the largest u64
    MAX_WALL_TIME   \* 30 days

ASSUME ConfigurationAssumption ==
    U64_MAX \in Nat \ {0} /\ MAX_WALL_TIME \in Nat /\ None \notin Nat

Policy == INSTANCE PolicyMachine
              WITH MaxDuration <- U64_MAX, MaxCount <- U64_MAX, MaxRequestId <- U64_MAX

MIN_SAMPLE_INTERVAL == 10
MAX_SAMPLE_INTERVAL == 10000
MIN_CHECKPOINT_TIMEOUT == 10
MAX_CHECKPOINT_TIMEOUT == 60000
MIN_SAMPLE_WINDOW == 250
MIN_SAMPLE_AGE == 500
DEFAULT_CHECKPOINT_TIMEOUT == 1000
TERM_GRACE == 1000
REQUIRED_BREACH_SAMPLES == 2
MAX_MISSING_SAMPLES == 3

\* What may be written: an option left out is None.
Quantity == [digits : Nat, unit : Nat \ {0}]
RawOptions == [max_footprint : Quantity, sample_interval : Quantity,
               wall_time : Quantity \cup {None}, checkpoint_timeout : Quantity \cup {None}]

at_least(a, b) == IF a < b THEN b ELSE a

-----------------------------------------------------------------------------
(* Parsing: None refuses the command line.                                 *)

parse_positive_integer(digits) == IF digits \in 1 .. U64_MAX THEN digits ELSE None

\* parse_bytes and parse_duration: both multiply with a check.
parse_quantity(q) ==
    IF parse_positive_integer(q.digits) = None \/ q.digits * q.unit > U64_MAX THEN None
    ELSE q.digits * q.unit

parse_wall_time(q) ==
    IF parse_quantity(q) # None /\ parse_quantity(q) <= MAX_WALL_TIME THEN parse_quantity(q)
    ELSE None

parse_checkpoint_timeout(q) ==
    IF /\ parse_quantity(q) # None
       /\ parse_quantity(q) \in MIN_CHECKPOINT_TIMEOUT .. MAX_CHECKPOINT_TIMEOUT
    THEN parse_quantity(q) ELSE None

\* Mutant: a tenth of a small limit is nothing.
policy_band_step_zero(limit) == limit \div 10

policy_band_step(limit) == IF limit \div 10 = 0 THEN 1 ELSE limit \div 10

normalized(raw) ==
    /\ parse_quantity(raw.sample_interval) # None
    /\ parse_quantity(raw.sample_interval) \in MIN_SAMPLE_INTERVAL .. MAX_SAMPLE_INTERVAL

accepts_limit(limit) ==
    limit # None /\ limit >= 2 /\ limit + policy_band_step(limit) <= U64_MAX

\* The options of a command line that parse_cli accepts.
accepted(mode, raw) ==
    /\ normalized(raw)
    /\ mode = "run" =>
           /\ accepts_limit(parse_quantity(raw.max_footprint))
           /\ raw.wall_time # None => parse_wall_time(raw.wall_time) # None
           /\ raw.checkpoint_timeout # None =>
                  parse_checkpoint_timeout(raw.checkpoint_timeout) # None

parse_cli(raw) ==
    [max_footprint_bytes |-> parse_quantity(raw.max_footprint),
     sample_interval |-> parse_quantity(raw.sample_interval),
     wall_time |-> IF raw.wall_time = None THEN None ELSE parse_wall_time(raw.wall_time),
     checkpoint_timeout |-> IF raw.checkpoint_timeout = None THEN None
                            ELSE parse_checkpoint_timeout(raw.checkpoint_timeout)]

-----------------------------------------------------------------------------
(* What is derived from the options.                                       *)

saturating_sub(a, b) == IF a < b THEN 0 ELSE a - b
saturating_add(a, b) == IF a + b > U64_MAX THEN U64_MAX ELSE a + b

\* sample_quality_bounds
quality_window(interval) == at_least(interval, MIN_SAMPLE_WINDOW)
quality_age(interval) == at_least(2 * interval, MIN_SAMPLE_AGE)

run_policy_config(o) ==
    LET step == policy_band_step(o.max_footprint_bytes)
    IN [limit_bytes |-> o.max_footprint_bytes,
        warning_bytes |-> saturating_sub(o.max_footprint_bytes, step),
        recovery_bytes |-> saturating_sub(saturating_sub(o.max_footprint_bytes, step), step),
        emergency_bytes |-> saturating_add(o.max_footprint_bytes, step),
        required_breach_samples |-> REQUIRED_BREACH_SAMPLES,
        max_missing_samples |-> MAX_MISSING_SAMPLES,
        max_sample_age |-> quality_age(o.sample_interval),
        max_sample_window |-> quality_window(o.sample_interval),
        checkpoint_timeout |-> IF o.checkpoint_timeout = None THEN DEFAULT_CHECKPOINT_TIMEOUT
                               ELSE o.checkpoint_timeout,
        term_grace |-> TERM_GRACE,
        wall_time |-> o.wall_time]

\* SamplingConfig::new, of what sampling_config gives it.
sampling_config_valid(o) ==
    /\ o.sample_interval \in MIN_SAMPLE_INTERVAL .. MAX_SAMPLE_INTERVAL
    /\ quality_window(o.sample_interval) > 0 /\ quality_age(o.sample_interval) > 0
    /\ quality_window(o.sample_interval) <= quality_age(o.sample_interval)

run_configuration(o) ==
    LET policy == run_policy_config(o)
    IN [mode |-> "Enforce", max_footprint_bytes |-> policy.limit_bytes,
        warning_footprint_bytes |-> policy.warning_bytes,
        recovery_footprint_bytes |-> policy.recovery_bytes,
        emergency_footprint_bytes |-> policy.emergency_bytes,
        wall_time_ms |-> policy.wall_time, checkpoint_timeout_ms |-> policy.checkpoint_timeout,
        required_breach_samples |-> policy.required_breach_samples,
        max_missing_samples |-> policy.max_missing_samples,
        sample_interval_ms |-> o.sample_interval, max_sample_age_ms |-> policy.max_sample_age,
        max_sample_window_ms |-> policy.max_sample_window, term_grace_ms |-> policy.term_grace]

observe_configuration(o) ==
    [mode |-> "Observe", max_footprint_bytes |-> None, warning_footprint_bytes |-> None,
     recovery_footprint_bytes |-> None, emergency_footprint_bytes |-> None,
     wall_time_ms |-> None, checkpoint_timeout_ms |-> None,
     required_breach_samples |-> REQUIRED_BREACH_SAMPLES,
     max_missing_samples |-> MAX_MISSING_SAMPLES, sample_interval_ms |-> o.sample_interval,
     max_sample_age_ms |-> quality_age(o.sample_interval),
     max_sample_window_ms |-> quality_window(o.sample_interval), term_grace_ms |-> TERM_GRACE]

configuration_of(mode, o) == IF mode = "run" THEN run_configuration(o) ELSE observe_configuration(o)

\* The configuration checks of execute_run and execute_observe.
configured(mode, o) ==
    /\ mode = "run" => Policy!valid_config(run_policy_config(o))
    /\ sampling_config_valid(o)
=============================================================================
