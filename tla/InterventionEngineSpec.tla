----------------------- MODULE InterventionEngineSpec -----------------------
(***************************************************************************)
(* The intervention engine closed with an environment: a run loop that     *)
(* feeds it ordered monotonic events (docs/INTERVENTION.md) and a platform *)
(* that answers each actuation as it likes.  One action is one call of     *)
(* handle up to its first platform call, or one platform call with what    *)
(* handle does before the next.  The names say Engine where the run loop,  *)
(* whose proofs are about both, has one of its own.                        *)
(***************************************************************************)
EXTENDS InterventionEngine

CONSTANTS
    EngineConfig,  \* the enforced configuration
    MaxTime,       \* bound: the last instant of the run
    MaxAttempts,   \* bound: attempts after which no event is fed
    Bytes          \* the aggregate footprints a sample may carry

ASSUME EngineAssumption ==
    /\ EngineConfig \in PolicyConfig /\ valid_config(EngineConfig)
    /\ MaxTime \in Duration
    /\ Bytes \subseteq Nat
    /\ None \notin {"GroupEmpty", "TerminalSupervisorError", "ObserveUntil"}

VARIABLES
    engine,        \* the InterventionEngine
    pending,       \* actuations of the call in progress, empty between calls
    now,           \* the instant of the current event
    attempted,     \* history: the attempts of the current event, in order
    killTried,     \* history: a KILL was attempted
    progress       \* the last answer of observe_group_status

engine_vars == <<engine, pending, now, attempted, killTried, progress>>

EngineInit ==
    /\ engine = NewEngine(enforce_with_initial_request_id(EngineConfig, 1))
    /\ pending = <<>>
    /\ now = 0
    /\ attempted = <<>>
    /\ killTried = FALSE
    /\ progress = None

\* The call of handle for one event, up to its first platform call.  A caller
\* told that the group is empty feeds no more.
Handle(e) ==
    /\ pending = <<>>
    /\ progress # "GroupEmpty"
    /\ engine.evidence.total_attempts < MaxAttempts
    /\ LET b == begin(engine, e)
       IN engine' = b.engine /\ pending' = b.pending
    /\ attempted' = <<>>
    /\ now' = event_at(e)
    /\ UNCHANGED <<killTried, progress>>

Sample(at, bytes) ==
    Handle([type |-> "Sample", captured_at |-> at, processed_at |-> at,
            window |-> 1, aggregate_bytes |-> bytes])

EngineTick(at) == Handle([type |-> "Tick", at |-> at])

\* The runtime polls the channel only while a request is outstanding, and hands
\* over only an acknowledgement the channel matched.
CheckpointAnswered(at, completed) ==
    /\ engine.policy.state = "CheckpointRequested"
    /\ Handle(IF completed
              THEN [type |-> "CheckpointAck", at |-> at, authenticated |-> TRUE,
                    request_id |-> engine.policy.active_request_id]
              ELSE [type |-> "ActuationFailed", at |-> at, action |-> "Checkpoint"])

ExternalSignal(at) == Handle([type |-> "ExternalSignal", at |-> at, signal |-> 2])

\* Root exit, parent exit and supervisor fault.
Notice(at, type) == Handle([type |-> type, at |-> at])

ProcessExited(at) ==
    Handle([type |-> "ProcessExited", at |-> at, final_footprint_bytes |-> None])

\* The platform's answer to the head of the queue.  The engine distinguishes an
\* outcome from a failure only, so one of each kind stands for the others.
Answers(action) ==
    {Delivered, IF actuation_for(action) = "Checkpoint"
                THEN "CheckpointUnavailable" ELSE "PermissionDenied"}

EngineExecute(result) ==
    /\ pending # <<>>
    /\ result \in Answers(Head(pending))
    /\ LET x == executed(engine, now, pending, result)
       IN engine' = x.engine /\ pending' = x.pending
    /\ attempted' = Append(attempted, [action |-> Head(pending), result |-> result])
    /\ killTried' = (killTried \/ actuation_for(Head(pending)) = "Kill")
    /\ UNCHANGED <<now, progress>>

observe_group_status(at, group_exists) ==
    /\ pending = <<>>
    /\ progress # "GroupEmpty"
    /\ now' = at
    /\ attempted' = <<>>
    /\ engine' = IF group_exists THEN engine
                 ELSE [engine EXCEPT !.evidence = observe_group_empty(@, at)]
    /\ progress' = group_progress(engine, group_exists)
    /\ UNCHANGED <<pending, killTried>>

Later == {at \in Duration : now <= at /\ at <= MaxTime}

EngineNext ==
    \/ \E at \in Later, b \in Option(Bytes) : Sample(at, b)
    \/ \E at \in Later : EngineTick(at)
    \/ \E at \in Later, completed \in BOOLEAN : CheckpointAnswered(at, completed)
    \/ \E at \in Later : ExternalSignal(at)
    \/ \E at \in Later, type \in {"RootExited", "ParentExited", "SupervisorFault"} :
          Notice(at, type)
    \/ \E at \in Later : ProcessExited(at)
    \/ \E result \in ActuationOutcome \cup ActuationFailure : EngineExecute(result)
    \/ \E at \in Later, exists \in BOOLEAN : observe_group_status(at, exists)

EngineSpec == EngineInit /\ [][EngineNext]_engine_vars

-----------------------------------------------------------------------------
(* Properties.                                                             *)

\* The machine, the ring and the counters keep their types and bounds.
EngineTypeOK ==
    /\ engine.policy \in Machine
    /\ Len(engine.evidence.records) <= MAX_INTERVENTION_RECORDS
    /\ engine.evidence.total_attempts \in Nat
    /\ engine.evidence.dropped_records \in Nat
    /\ engine.evidence.maximum_overshoot_bytes \in Nat
    /\ \A i \in DOMAIN pending : IsActuation(pending[i])
    /\ now \in Duration
    /\ progress \in {None, "GroupEmpty", "TerminalSupervisorError", "ObserveUntil"}

Records == engine.evidence.records

\* The run loop recovers the attempts of an event as the last
\* `total_attempts - previous_attempts` records of the ring (RunRuntime::
\* handle_event): whatever the ring dropped, these are exactly the attempts of
\* that event, in order, and none is lost from the counters.
TailIsThisEvent ==
    LET n == Len(attempted)
        start == Len(Records) - n
    IN /\ n <= Len(Records)
       /\ \A i \in 1 .. n :
             /\ Records[start + i].action = attempted[i].action
             /\ Records[start + i].result = attempted[i].result
       /\ engine.evidence.total_attempts = Len(Records) + engine.evidence.dropped_records

\* What a refused attempt is followed by.
Stronger(action) ==
    IF action.kind = "RequestCheckpoint" THEN {"SendTerm", "SendKill"} ELSE {"SendKill"}

\* A delivery failure never ends an event quietly: when handle returns, a
\* checkpoint request that failed has been followed by TERM or KILL, a TERM or a
\* forwarded signal that failed by KILL, and a KILL that failed has left the
\* machine in its terminal supervisor error (docs/INTERVENTION.md, "Deadlines and
\* failures").
FailedSignalEscalates ==
    pending = <<>> =>
        \A i \in DOMAIN attempted :
            attempted[i].result \notin ActuationOutcome =>
                IF attempted[i].action = SendKill
                THEN engine.policy.state = "SupervisorError"
                ELSE \E j \in DOMAIN attempted : j > i /\
                        attempted[j].action.kind \in Stronger(attempted[i].action)

\* The latencies of a retained attempt tell one consistent story.  A footprint
\* decrease is seen by the first observation after the attempt or by a later one;
\* the end of the group is dated exactly once, by the observation that found it
\* empty and for every attempt made before that, and nothing is observed after it;
\* and each of the three latencies is positive and reaches no further than now.
LatenciesAgree ==
    \A i \in DOMAIN Records :
        LET at == Records[i].requested_at
            first == Records[i].first_observation_latency
            lower == Records[i].observed_footprint_decrease_latency
            empty == Records[i].group_empty_latency
        IN /\ first # None => first > 0 /\ at + first <= now
           /\ lower # None => first # None /\ first <= lower /\ at + lower <= now
           /\ empty # None <=> progress = "GroupEmpty" /\ at < now
           /\ empty # None => at + empty = now

\* The caller is told to give up on a live group (TerminalSupervisorError) only
\* after KILL has been tried: as long as it has not, some deadline still leads
\* to it.
GiveUpOnlyAfterKill ==
    progress = "TerminalSupervisorError" => killTried

\* The evidence is whole: of every event exactly its own attempts are found
\* again, in a ring and counters that keep their bounds.
AttemptsAreRecorded == EngineTypeOK /\ TailIsThisEvent

\* A signal that could not be delivered is never the end of it: a refused one is
\* escalated before handle returns, and the caller is not told to give up on a
\* live group while KILL has not been tried.
FailuresEscalate == FailedSignalEscalates /\ GiveUpOnlyAfterKill
=============================================================================
