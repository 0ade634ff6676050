------------------------- MODULE InterventionEngine -------------------------
(***************************************************************************)
(* The intervention engine of mlx-guard                                    *)
(* (crates/mlx-guard-core/src/intervention.rs).  It feeds one event to the *)
(* policy machine, executes the signals and checkpoint requests the        *)
(* machine asks for, keeps bounded evidence of every attempt, and feeds a  *)
(* failed attempt back into the machine at the same instant.  `handle`     *)
(* makes one platform call per actuation, so it is split here at those     *)
(* calls: `begin` up to the first one, `executed` from one to the next.    *)
(***************************************************************************)
EXTENDS PolicyMachine, FiniteSets

CONSTANTS MAX_INTERVENTION_RECORDS   \* capacity of the evidence ring

\* 64 in the code; one event makes up to three attempts.
ASSUME CapacityAssumption == MAX_INTERVENTION_RECORDS \in Nat /\ MAX_INTERVENTION_RECORDS >= 3
ASSUME KindAssumption == None \notin ActuationKind

Delivered == "Delivered"
Missing == "ProcessMissing"
ActuationOutcome == {Delivered, Missing}
ActuationFailure ==
    {"CheckpointUnavailable", "CheckpointRejected", "EndpointMissing",
     "PermissionDenied", "InvalidTarget", "SignalFailed"}

\* The actions that reach the platform, under the name of their actuation.
actuation_for(action) ==
    CASE action.kind = "RequestCheckpoint" -> "Checkpoint"
      [] action.kind = "SendTerm" -> "Term"
      [] action.kind = "SendKill" -> "Kill"
      [] action.kind = "ForwardSignal" -> "ForwardSignal"
      [] OTHER -> None

IsActuation(action) == actuation_for(action) # None

\* The actuations of a list of actions, in the list's order.
actuations(acts) ==
    LET kept == {i \in DOMAIN acts : IsActuation(acts[i])}
        nth(n) == CHOOSE i \in kept : Cardinality({j \in kept : j <= i}) = n
    IN [n \in 1 .. Cardinality(kept) |-> acts[nth(n)]]

\* A group signal refused with EPERM is a delivery failure only while the group
\* still has a live member; members that are all exited refuse it the same way.
map_group_signal_result(result, group_has_live_member) ==
    IF result = "PermissionDenied" /\ ~group_has_live_member THEN Missing ELSE result

-----------------------------------------------------------------------------
(* Evidence: a ring of recent attempts plus counters that never lose one.  *)

EmptyEvidence ==
    [records |-> <<>>, total_attempts |-> 0, dropped_records |-> 0,
     maximum_overshoot_bytes |-> 0]

record_overshoot(ev, bytes) ==
    IF bytes > ev.maximum_overshoot_bytes
    THEN [ev EXCEPT !.maximum_overshoot_bytes = bytes] ELSE ev

NewRecord(at, action, result, baseline) ==
    [requested_at |-> at, action |-> action, result |-> result,
     baseline_footprint_bytes |-> baseline, first_observation_latency |-> None,
     observed_footprint_decrease_latency |-> None, group_empty_latency |-> None]

\* Mutant: the ring makes room one record too early.
record_attempt_off_by_one(ev, at, action, result, baseline) ==
    LET full == Len(ev.records) + 1 = MAX_INTERVENTION_RECORDS
        kept == IF full THEN Tail(ev.records) ELSE ev.records
    IN [ev EXCEPT !.total_attempts = @ + 1,
                  !.dropped_records = IF full THEN @ + 1 ELSE @,
                  !.records = Append(kept, NewRecord(at, action, result, baseline))]

record_attempt(ev, at, action, result, baseline) ==
    LET full == Len(ev.records) = MAX_INTERVENTION_RECORDS
        kept == IF full THEN Tail(ev.records) ELSE ev.records
    IN [ev EXCEPT !.total_attempts = @ + 1,
                  !.dropped_records = IF full THEN @ + 1 ELSE @,
                  !.records = Append(kept, NewRecord(at, action, result, baseline))]

get_or_insert(option, value) == IF option = None THEN value ELSE option

\* Mutant: the first observation is dated again by every later sample.
record_observe_overwrites(r, at, bytes) ==
    LET lower == /\ r.baseline_footprint_bytes # None
                 /\ bytes # None
                 /\ bytes < r.baseline_footprint_bytes
    IN IF at <= r.requested_at THEN r
       ELSE [r EXCEPT !.first_observation_latency = at - r.requested_at,
                      !.observed_footprint_decrease_latency =
                          IF lower THEN get_or_insert(@, at - r.requested_at) ELSE @]

\* A sample after the attempt dates the first observation and the first
\* decrease that followed it.
record_observe(r, at, bytes) ==
    LET lower == /\ r.baseline_footprint_bytes # None
                 /\ bytes # None
                 /\ bytes < r.baseline_footprint_bytes
        latency == at - r.requested_at
    IN IF at <= r.requested_at THEN r
       ELSE [r EXCEPT !.first_observation_latency = get_or_insert(@, latency),
                      !.observed_footprint_decrease_latency =
                          IF lower THEN get_or_insert(@, latency) ELSE @]

evidence_observe(ev, at, bytes) ==
    [ev EXCEPT !.records =
        [i \in DOMAIN @ |-> record_observe(ev.records[i], at, bytes)]]

record_group_empty(r, at) ==
    IF at > r.requested_at
    THEN [r EXCEPT !.group_empty_latency = get_or_insert(@, at - r.requested_at)]
    ELSE r

observe_group_empty(ev, at) ==
    [ev EXCEPT !.records =
        [i \in DOMAIN @ |-> record_group_empty(ev.records[i], at)]]

-----------------------------------------------------------------------------
(* The engine.                                                             *)

NewEngine(machine) ==
    [policy |-> machine, evidence |-> EmptyEvidence,
     last_observed_footprint_bytes |-> None]

\* The overshoot of the whole list of actions the machine returned.
overshoots(ev, acts) ==
    LET bytes == {acts[i].bytes : i \in {j \in DOMAIN acts :
                                            acts[j].kind = "RecordOvershoot"}}
                 \cup {acts[i].overshoot_bytes : i \in {j \in DOMAIN acts :
                                            acts[j].kind = "RequestCheckpoint"}}
    IN IF bytes = {} THEN ev ELSE record_overshoot(ev, CHOOSE b \in bytes : TRUE)

\* handle_with_transition_observer up to the first platform call: the machine
\* and the queue of actuations left to execute.
decide(m, e) ==
    LET r == apply(m, e) IN [m |-> r.m, acts |-> r.acts,
                             pending |-> actuations(r.acts)]

\* Mutant: a failed attempt is not fed back.
answered_ignores_failure(m, at, pending, result) ==
    [m |-> m, pending |-> Tail(pending)]

\* The rest of the loop body once the platform has answered the head of the
\* queue: a failure is fed back at the event's instant.
answered(m, at, pending, result) ==
    LET r == apply(m, [type |-> "ActuationFailed", at |-> at,
                       action |-> actuation_for(Head(pending))])
    IN IF result \in ActuationOutcome THEN [m |-> m, pending |-> Tail(pending)]
       ELSE [m |-> r.m, pending |-> Tail(pending) \o actuations(r.acts)]

\* The same two steps with the evidence they keep.
begin(engine, e) ==
    LET d == decide(engine.policy, e)
        observed == \E i \in DOMAIN d.acts : d.acts[i] = RecordObservation
        seen == IF observed
                THEN [engine EXCEPT
                        !.evidence = evidence_observe(@, event_at(e), e.aggregate_bytes),
                        !.last_observed_footprint_bytes = e.aggregate_bytes]
                ELSE engine
    IN [engine |-> [seen EXCEPT !.policy = d.m, !.evidence = overshoots(@, d.acts)],
        pending |-> d.pending]

executed(engine, at, pending, result) ==
    LET a == answered(engine.policy, at, pending, result)
    IN [engine |-> [engine EXCEPT !.policy = a.m,
                                  !.evidence = record_attempt(@, at, Head(pending), result,
                                                   engine.last_observed_footprint_bytes)],
        pending |-> a.pending]

\* Mutant: a supervisor error is terminal even with its TERM grace running.
group_progress_ignores_deadline(engine, group_exists) ==
    IF ~group_exists THEN "GroupEmpty"
    ELSE IF engine.policy.state = "SupervisorError" THEN "TerminalSupervisorError"
    ELSE "ObserveUntil"

\* What observe_group_status tells its caller to do next.
group_progress(engine, group_exists) ==
    IF ~group_exists THEN "GroupEmpty"
    ELSE IF engine.policy.state = "SupervisorError" /\ next_deadline(engine.policy) = None
    THEN "TerminalSupervisorError"
    ELSE "ObserveUntil"
=============================================================================
