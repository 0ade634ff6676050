--------------------------- MODULE PolicyMachine ---------------------------
(***************************************************************************)
(* The pure enforcement state machine of mlx-guard                         *)
(* (crates/mlx-guard-core/src/policy.rs).  A machine is a record with the  *)
(* fields of `PolicyMachine`; `apply` is a function of a machine and an    *)
(* event that returns the next machine and the list of actions requested   *)
(* from the platform, exactly as PolicyMachine::apply does.  The operators *)
(* carry no state, so the intervention engine and the two run loops reuse  *)
(* them; PolicyMachineSpec closes the machine with an environment.         *)
(***************************************************************************)
EXTENDS Integers, Sequences

CONSTANTS
    None,           \* Option::None
    MaxDuration,    \* Duration::MAX, where additions saturate
    MaxCount,       \* u32::MAX, where the streak counters saturate
    MaxRequestId    \* u64::MAX, where request ids saturate

ASSUME NoneAssumption == None \notin Nat
ASSUME WidthAssumption ==
    /\ MaxDuration \in Nat \ {0}
    /\ MaxCount \in Nat \ {0}
    /\ MaxRequestId \in Nat \ {0}

Duration == 0 .. MaxDuration
Count == 0 .. MaxCount
RequestId == 1 .. MaxRequestId
Option(S) == S \cup {None}

\* Mutant: the addition leaves its width.
unbounded_add(a, b) == a + b
saturating_add(a, b) == IF a + b > MaxDuration THEN MaxDuration ELSE a + b
\* Mutant: the counter wraps out of its width.
unbounded_inc(n) == n + 1
saturating_inc(n) == IF n + 1 > MaxCount THEN MaxCount ELSE n + 1

PolicyState == {"Observe", "Normal", "Warning", "CheckpointRequested",
                "Terminating", "Emergency", "Exited", "SupervisorError"}

CheckpointDisposition ==
    {"AcknowledgedUnverifiedDurability", "TimedOut", "SkippedCheckpointFailure",
     "SkippedObservationFailure", "SkippedSupervisorFailure",
     "SkippedNotNegotiated", "SkippedRootExited", "SkippedParentExited"}

ActuationKind == {"Checkpoint", "Term", "Kill", "ForwardSignal"}

PolicyConfig ==
    [limit_bytes: Nat, warning_bytes: Nat, recovery_bytes: Nat,
     emergency_bytes: Nat, required_breach_samples: Count,
     max_missing_samples: Count, max_sample_age: Duration,
     max_sample_window: Duration, checkpoint_timeout: Option(Duration),
     term_grace: Duration, wall_time: Option(Duration)]

Machine ==
    [mode: {"Observe", "Enforce"}, state: PolicyState, config: PolicyConfig,
     breach_streak: Count, missing_streak: Count,
     next_request_id: RequestId, active_request_id: Option(RequestId),
     checkpoint_deadline: Option(Duration), term_deadline: Option(Duration),
     last_event_at: Option(Duration), post_signal_observations: Count,
     intervention_started: BOOLEAN]

valid_config(c) ==
    /\ c.recovery_bytes < c.warning_bytes
    /\ c.warning_bytes < c.limit_bytes
    /\ c.limit_bytes < c.emergency_bytes
    /\ c.required_breach_samples > 0
    /\ c.max_missing_samples > 0
    /\ c.max_sample_age > 0
    /\ c.max_sample_window > 0
    /\ c.term_grace > 0
    /\ c.checkpoint_timeout # 0
    /\ c.wall_time # 0

\* A machine in its first state; both constructors clear every other field.
fresh(mode, state, config, request_id) ==
    [mode |-> mode, state |-> state, config |-> config,
     breach_streak |-> 0, missing_streak |-> 0,
     next_request_id |-> request_id, active_request_id |-> None,
     checkpoint_deadline |-> None, term_deadline |-> None,
     last_event_at |-> None, post_signal_observations |-> 0,
     intervention_started |-> FALSE]

\* PolicyMachine::observe overrides every destructive setting with its limit
\* value; the byte thresholds are never compared in observe mode.
observe(c) ==
    fresh("Observe", "Observe",
          [c EXCEPT !.required_breach_samples = MaxCount,
                    !.checkpoint_timeout = None,
                    !.term_grace = MaxDuration,
                    !.wall_time = None], 1)

\* Callable only with a valid configuration and a nonzero seed.
enforce_with_initial_request_id(c, request_id) ==
    fresh("Enforce", "Normal", c, request_id)

-----------------------------------------------------------------------------
(* Actions requested from the platform supervisor.                         *)

RecordObservation == [kind |-> "RecordObservation"]
RecordMissing == [kind |-> "RecordMissing"]
StopObserving == [kind |-> "StopObserving"]
SendKill == [kind |-> "SendKill"]
SendTerm(d) == [kind |-> "SendTerm", checkpoint |-> d]
ForwardSignal(s) == [kind |-> "ForwardSignal", signal |-> s]
RecordOvershoot(b) == [kind |-> "RecordOvershoot", bytes |-> b]
RequestCheckpoint(id, over, deadline) ==
    [kind |-> "RequestCheckpoint", request_id |-> id,
     overshoot_bytes |-> over, deadline_at |-> deadline]
ReportExit(bytes, n) ==
    [kind |-> "ReportExit", final_footprint_bytes |-> bytes,
     post_signal_observations |-> n]
ReportSupervisorError(action) ==
    [kind |-> "ReportSupervisorError", action |-> action]

Result(m, acts) == [m |-> m, acts |-> acts]

-----------------------------------------------------------------------------
(* Transitions.                                                            *)

next_deadline(m) ==
    CASE m.state = "CheckpointRequested" -> m.checkpoint_deadline
      [] m.state \in {"Terminating", "SupervisorError"} -> m.term_deadline
      [] OTHER -> None

reached(deadline, at) == deadline # None /\ at >= deadline

clear_request(m) ==
    [m EXCEPT !.active_request_id = None, !.checkpoint_deadline = None]

\* Mutant: the shutdown starts at the end of its grace.
begin_shutdown_at_deadline(m, state, at) ==
    [m EXCEPT !.state = state, !.intervention_started = TRUE, !.term_deadline = at]

\* The machine after the first signal of a shutdown: intervention latched and
\* the TERM grace running from `at`.
begin_shutdown(m, state, at) ==
    [m EXCEPT !.state = state, !.intervention_started = TRUE,
              !.term_deadline = saturating_add(at, m.config.term_grace)]

begin_graceful(m, at, overshoot, skipped) ==
    IF m.config.checkpoint_timeout # None
    THEN LET deadline == saturating_add(at, m.config.checkpoint_timeout)
             id == m.next_request_id
         IN Result([m EXCEPT !.next_request_id =
                                 IF id < MaxRequestId THEN id + 1 ELSE id,
                             !.active_request_id = id,
                             !.checkpoint_deadline = deadline,
                             !.state = "CheckpointRequested"],
                   <<RequestCheckpoint(id, overshoot, deadline)>>)
    ELSE Result(begin_shutdown(m, "Terminating", at), <<SendTerm(skipped)>>)

\* Mutant: the observing machine sends TERM like the enforcing one.
missing_in_any_mode(m, at) ==
    LET n == [m EXCEPT !.missing_streak = saturating_inc(@)]
    IN IF n.missing_streak < m.config.max_missing_samples \/ m.intervention_started
       THEN Result(n, <<RecordMissing>>)
       ELSE Result(begin_shutdown(n, "SupervisorError", at),
                   <<RecordMissing, SendTerm("SkippedObservationFailure")>>)

apply_missing(m, at) ==
    LET n == [m EXCEPT !.missing_streak = saturating_inc(@)]
    IN IF \/ n.missing_streak < m.config.max_missing_samples
          \/ m.state = "SupervisorError"
          \/ m.intervention_started
       THEN Result(n, <<RecordMissing>>)
       ELSE IF m.mode = "Observe"
            THEN Result([n EXCEPT !.state = "SupervisorError"],
                        <<RecordMissing, StopObserving>>)
            ELSE Result(begin_shutdown(n, "SupervisorError", at),
                        <<RecordMissing, SendTerm("SkippedObservationFailure")>>)

usable(m, s) ==
    /\ s.aggregate_bytes # None
    /\ s.processed_at >= s.captured_at
    /\ s.processed_at - s.captured_at <= m.config.max_sample_age
    /\ s.window <= m.config.max_sample_window

\* Mutant: the early return of an outstanding checkpoint is missing.
footprint_during_checkpoint(m, at, bytes) ==
    IF bytes < m.config.limit_bytes
    THEN Result([m EXCEPT !.breach_streak = 0, !.state = "Warning"],
                <<RecordObservation>>)
    ELSE begin_graceful([m EXCEPT !.breach_streak = saturating_inc(@)], at,
                        bytes - m.config.limit_bytes, "SkippedNotNegotiated")

\* A usable sample seen by an enforcing machine that has not yet intervened.
apply_footprint(m, at, bytes) ==
    LET over == bytes - m.config.limit_bytes
        streak == saturating_inc(m.breach_streak)
        warned == [m EXCEPT !.breach_streak = streak, !.state = "Warning"]
        graceful == begin_graceful(warned, at, over, "SkippedNotNegotiated")
        band == IF bytes >= m.config.warning_bytes THEN "Warning"
                ELSE IF bytes <= m.config.recovery_bytes THEN "Normal" ELSE m.state
    IN IF bytes >= m.config.emergency_bytes
       THEN Result([m EXCEPT !.state = "Emergency", !.intervention_started = TRUE],
                   <<RecordObservation, SendKill, RecordOvershoot(over)>>)
       ELSE IF m.state = "CheckpointRequested"
       THEN Result(m, <<RecordObservation>>)
       ELSE IF bytes < m.config.limit_bytes
       THEN Result([m EXCEPT !.breach_streak = 0, !.state = band],
                   <<RecordObservation>>)
       ELSE IF streak < m.config.required_breach_samples
       THEN Result(warned, <<RecordObservation>>)
       ELSE Result(graceful.m,
                   IF m.config.checkpoint_timeout = None
                   THEN <<RecordObservation, graceful.acts[1], RecordOvershoot(over)>>
                   ELSE <<RecordObservation, graceful.acts[1]>>)

\* Mutant: a usable sample does not end the run of missing ones.
sample_keeps_missing_streak(m, s) ==
    IF ~usable(m, s) THEN apply_missing(m, s.processed_at)
    ELSE IF m.mode = "Observe" \/ m.intervention_started
    THEN Result(m, <<RecordObservation>>)
    ELSE apply_footprint(m, s.processed_at, s.aggregate_bytes)

apply_sample(m, s) ==
    LET seen == [m EXCEPT !.missing_streak = 0,
                          !.post_signal_observations =
                              IF m.intervention_started
                              THEN saturating_inc(@) ELSE @]
    IN IF ~usable(m, s) THEN apply_missing(m, s.processed_at)
       ELSE IF m.mode = "Observe" \/ m.intervention_started
       THEN Result(seen, <<RecordObservation>>)
       ELSE apply_footprint(seen, s.processed_at, s.aggregate_bytes)

\* Mutant: only Terminating escalates when the grace is over.
tick_forgets_supervisor_error(m, at) ==
    IF m.state = "CheckpointRequested" /\ reached(m.checkpoint_deadline, at)
    THEN Result(begin_shutdown(clear_request(m), "Terminating", at),
                <<SendTerm("TimedOut")>>)
    ELSE IF m.state = "Terminating" /\ reached(m.term_deadline, at)
    THEN Result([m EXCEPT !.state = "Emergency"], <<SendKill>>)
    ELSE IF /\ ~m.intervention_started
            /\ m.state \in {"Normal", "Warning"}
            /\ reached(m.config.wall_time, at)
    THEN begin_graceful(m, at, 0, "SkippedNotNegotiated")
    ELSE Result(m, <<>>)

apply_tick(m, at) ==
    IF m.state = "CheckpointRequested" /\ reached(m.checkpoint_deadline, at)
    THEN Result(begin_shutdown(clear_request(m), "Terminating", at),
                <<SendTerm("TimedOut")>>)
    ELSE IF /\ m.state \in {"Terminating", "SupervisorError"}
            /\ reached(m.term_deadline, at)
    THEN Result([m EXCEPT !.state = "Emergency"], <<SendKill>>)
    ELSE IF /\ ~m.intervention_started
            /\ m.state \in {"Normal", "Warning"}
            /\ reached(m.config.wall_time, at)
    THEN begin_graceful(m, at, 0, "SkippedNotNegotiated")
    ELSE Result(m, <<>>)

apply_checkpoint_ack(m, at, request_id, authenticated) ==
    IF \/ m.state # "CheckpointRequested"
       \/ m.active_request_id # request_id
       \/ ~authenticated
    THEN Result(m, <<>>)
    ELSE Result(begin_shutdown(clear_request(m), "Terminating", at),
                <<SendTerm("AcknowledgedUnverifiedDurability")>>)

apply_external_signal(m, at, signal) ==
    IF m.state \in {"Terminating", "SupervisorError", "Emergency"}
    THEN Result([m EXCEPT !.state = "Emergency", !.intervention_started = TRUE],
                <<SendKill>>)
    ELSE Result(begin_shutdown(clear_request(m), "Terminating", at),
                <<ForwardSignal(signal)>>)

\* Mutant: a supervisor error is not recognised as a started shutdown.
root_exited_after_error(m, at) ==
    IF m.state \in {"Observe", "Terminating", "Emergency"}
    THEN Result(m, <<>>)
    ELSE Result(begin_shutdown(clear_request(m), "Terminating", at),
                <<SendTerm("SkippedRootExited")>>)

apply_root_exited(m, at) ==
    IF m.state \notin {"Normal", "Warning", "CheckpointRequested"}
    THEN Result(m, <<>>)
    ELSE Result(begin_shutdown(clear_request(m), "Terminating", at),
                <<SendTerm("SkippedRootExited")>>)

apply_parent_exited(m, at) ==
    IF m.state \notin {"Normal", "Warning"}
    THEN Result(m, <<>>)
    ELSE Result(begin_shutdown(clear_request(m), "Terminating", at),
                <<SendTerm("SkippedParentExited")>>)

apply_actuation_failed(m, at, action) ==
    LET halted(state) == [clear_request(m) EXCEPT !.term_deadline = None,
                                                  !.state = state,
                                                  !.intervention_started = TRUE]
    IN IF action = "Checkpoint" /\ m.state = "CheckpointRequested"
       THEN Result(begin_shutdown(clear_request(m), "Terminating", at),
                   <<SendTerm("SkippedCheckpointFailure")>>)
       ELSE IF action \in {"Term", "ForwardSignal"}
       THEN Result(halted("Emergency"), <<SendKill>>)
       ELSE Result(halted("SupervisorError"), <<ReportSupervisorError(action)>>)

\* Mutant: the fault drops the TERM deadline already running.
fault_disarms(m, at) ==
    LET faulted == [clear_request(m) EXCEPT !.state = "SupervisorError",
                                            !.term_deadline = None]
    IN IF m.mode = "Observe" THEN Result(faulted, <<StopObserving>>)
       ELSE IF m.intervention_started THEN Result(faulted, <<>>)
       ELSE Result(begin_shutdown(faulted, "SupervisorError", at),
                   <<SendTerm("SkippedSupervisorFailure")>>)

\* Mutant: the fault starts the TERM grace over.
fault_rearms(m, at) ==
    IF m.mode = "Observe"
    THEN Result([clear_request(m) EXCEPT !.state = "SupervisorError"], <<StopObserving>>)
    ELSE Result(begin_shutdown(clear_request(m), "SupervisorError", at),
                <<SendTerm("SkippedSupervisorFailure")>>)

apply_supervisor_fault(m, at) ==
    LET faulted == [clear_request(m) EXCEPT !.state = "SupervisorError"]
    IN IF m.mode = "Observe" THEN Result(faulted, <<StopObserving>>)
       ELSE IF m.intervention_started THEN Result(faulted, <<>>)
       ELSE Result(begin_shutdown(faulted, "SupervisorError", at),
                   <<SendTerm("SkippedSupervisorFailure")>>)

\* An event older than the last one: the clock can no longer be trusted.
fail_clock(m) ==
    IF m.intervention_started \/ m.state = "SupervisorError"
    THEN Result(m, <<>>)
    ELSE IF m.mode = "Observe"
    THEN Result([m EXCEPT !.state = "SupervisorError"],
                <<RecordMissing, StopObserving>>)
    ELSE Result(begin_shutdown(m, "SupervisorError", m.last_event_at),
                <<RecordMissing, SendTerm("SkippedObservationFailure")>>)

event_at(e) == IF e.type = "Sample" THEN e.processed_at ELSE e.at

\* The handler of every event but ProcessExited.
dispatch(m, e) ==
    CASE e.type = "Sample" -> apply_sample(m, e)
      [] e.type = "Tick" -> apply_tick(m, e.at)
      [] e.type = "CheckpointAck" ->
            apply_checkpoint_ack(m, e.at, e.request_id, e.authenticated)
      [] e.type = "ExternalSignal" -> apply_external_signal(m, e.at, e.signal)
      [] e.type = "ActuationFailed" -> apply_actuation_failed(m, e.at, e.action)
      [] e.type = "SupervisorFault" -> apply_supervisor_fault(m, e.at)
      [] e.type = "RootExited" -> apply_root_exited(m, e.at)
      [] e.type = "ParentExited" -> apply_parent_exited(m, e.at)

apply(m, e) ==
    IF m.state = "Exited" THEN Result(m, <<>>)
    ELSE IF e.type = "ProcessExited"
    THEN Result([m EXCEPT !.state = "Exited"],
                <<ReportExit(e.final_footprint_bytes, m.post_signal_observations)>>)
    ELSE IF m.last_event_at # None /\ event_at(e) < m.last_event_at
    THEN fail_clock(m)
    ELSE dispatch([m EXCEPT !.last_event_at = event_at(e)], e)
=============================================================================
