---------------------------- MODULE ReportSchema ----------------------------
(***************************************************************************)
(* The rules of report schema v1 (crates/mlx-guard-core/src/report.rs)     *)
(* that relate what other parts of the program produce: ReportV1::validate *)
(* refuses a report that breaks one, and a refused report is not written.  *)
(* Rules about a single literal field (schema number, version text, file   *)
(* mode, hash format, fixed scope and source names) are left out.          *)
(***************************************************************************)
EXTENDS Integers, Sequences

CONSTANT None   \* Option::None

\* Observed<T>
Available(value) == [tag |-> "Available", value |-> value]
Unknown == [tag |-> "Unknown"]
Unavailable == [tag |-> "Unavailable"]
Stale(last_seen_at_ms) == [tag |-> "Stale", last_seen_at_ms |-> last_seen_at_ms]
Error(code) == [tag |-> "Error", code |-> code]

freshness_for(observation) ==
    CASE observation.tag = "Available" -> "Fresh"
      [] observation.tag = "Unknown" -> "InitialUnknown"
      [] observation.tag = "Stale" -> "Stale"
      [] OTHER -> "Unavailable"

AdvisoryFields == {"pressure_events", "pressure_level", "swap_bytes", "compressor_bytes",
                   "wired_bytes", "growth_bytes_per_second"}

valid_advisory_metrics(window) ==
    \A field \in AdvisoryFields :
        /\ window.metadata[field].freshness = freshness_for(window.advisory[field])
        /\ window.metadata[field].captured_at_ms <= window.processed_at_ms

\* The rules of validate_events about the retained samples.
samples_ordered(samples) ==
    /\ \A i \in 1 .. Len(samples) - 1 :
           samples[i].processed_at_ms <= samples[i + 1].processed_at_ms
    /\ \A i \in 1 .. Len(samples) :
           samples[i].captured_at_ms <= samples[i].processed_at_ms /\ samples[i].window_ms > 0

\* The checkpoint record: a status other than not-negotiated has a time, only
\* a request that reached the endpoint has an id, only an acknowledgement an
\* artifact, and only a limit is a reason.
checkpoint_valid(checkpoint) ==
    /\ (checkpoint.status = "NotNegotiated") = (checkpoint.at_ms = None)
    /\ checkpoint.request_id # None =>
           /\ checkpoint.request_id # 0
           /\ checkpoint.status \in {"RequestedUnverified", "AcknowledgedUnverifiedDurability",
                                     "TimedOut"}
    /\ checkpoint.artifact # None => checkpoint.status = "AcknowledgedUnverifiedDurability"
    /\ checkpoint.reason \in {None, "Footprint", "WallTime"}

escaped_count_agrees_with_detection(detected, escaped_count) ==
    escaped_count # None => escaped_count > 0 /\ detected

\* validate_configuration: what it says of the values and of the mode ...
configuration_valid(c) ==
    /\ c.sample_interval_ms > 0 /\ c.required_breach_samples > 0 /\ c.max_missing_samples > 0
    /\ c.max_sample_age_ms > 0 /\ c.max_sample_window_ms > 0 /\ c.term_grace_ms > 0
    /\ c.checkpoint_timeout_ms # 0 /\ c.wall_time_ms # 0
    /\ c.mode = "Observe" =>
           \A field \in {"max_footprint_bytes", "warning_footprint_bytes", "recovery_footprint_bytes",
                         "emergency_footprint_bytes", "wall_time_ms", "checkpoint_timeout_ms"} :
               c[field] = None
    /\ c.mode = "Enforce" =>
           /\ c.recovery_footprint_bytes < c.warning_footprint_bytes
           /\ c.warning_footprint_bytes < c.max_footprint_bytes
           /\ c.max_footprint_bytes < c.emergency_footprint_bytes

\* ... and of the parent watch.
parent_watch_valid(watch, on_parent_exit, parent_exited_at_ms) ==
    /\ watch = "Detach" => on_parent_exit = "Detach"
    /\ on_parent_exit = "Detach" => watch \in {"Detach", "ParentUnobservable"}
    /\ parent_exited_at_ms # None => watch \in {"Active", "Detach"}

\* CalibrationArtifact::validate
valid_artifact(artifact) ==
    /\ artifact.complete_samples + artifact.incomplete_samples = artifact.total_samples
    /\ IF artifact.complete_samples = 0 THEN artifact.peak_aggregate_footprint_bytes = Unknown
       ELSE artifact.peak_aggregate_footprint_bytes.tag = "Available"
    /\ artifact.peak_growth_bytes_per_second.tag = "Available" =>
           artifact.peak_growth_bytes_per_second.value > 0
=============================================================================
