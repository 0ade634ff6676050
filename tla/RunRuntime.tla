----------------------------- MODULE RunRuntime -----------------------------
(***************************************************************************)
(* `mlx-guard run`: the enforcing supervisor's loop                        *)
(* (crates/mlx-guard-cli/src/runtime.rs, execute_run and RunRuntime) with  *)
(* the policy machine and the intervention engine inside it, composed with *)
(* the world it supervises: the root command, one descendant in its        *)
(* process group, the launching parent, the user's terminal signals, and   *)
(* the checkpoint worker in the root.                                      *)
(*                                                                         *)
(* The loop is single threaded; one action is one system call's worth of   *)
(* it, and the world moves between any two.  The checkpoint channel is     *)
(* abstracted to what a poll of it can return (CheckpointExchange is the   *)
(* channel itself).  The journal is left out.                              *)
(***************************************************************************)
EXTENDS InterventionEngine, OwnedGroup, Functions

CONSTANTS
    Config,          \* the enforced configuration
    SampleBytes,     \* the aggregate footprints a complete sample may carry
    OnParentExit,    \* "Terminate", or "Detach" which only records
    Cooperative,     \* whether the command runs a checkpoint worker
    MaxSignals,      \* bound: terminal signals the user sends
    MaxFaults,       \* bound: failing system calls and refused signals
    MaxForks         \* bound: descendants the root starts, one at a time

ASSUME RuntimeAssumption ==
    /\ Config \in PolicyConfig /\ valid_config(Config)
    /\ Config.checkpoint_timeout # None      \* run_policy_config always sets one
    /\ Cooperative \in BOOLEAN
    /\ SampleBytes \subseteq Nat
    /\ OnParentExit \in {"Terminate", "Detach"}
    /\ MaxSignals \in Nat /\ MaxFaults \in Nat /\ MaxForks \in Nat
    /\ None \notin {"Footprint", "WallTime", "ExternalSignal", "RootExitCleanup", "ParentExit",
                    "ObservationFailure", "SupervisorFault", "RequestedUnverified",
                    "Cancelled", "TimedOut", "Child", "Completed", "artifact"}

VARIABLES
    parentAlive,   \* the launching parent
    worker,        \* the root's end of the checkpoint channel
    pipe,          \* terminal signals caught and not yet drained
    budget,        \* what is left of the bounded disturbances
    pc,            \* the supervisor's place in its loop
    clock,         \* Instant::elapsed since the start
    policy,        \* the engine's policy machine
    call,          \* the apply_event in progress, when pc = "execute"
    run,           \* the latches of RunRuntime
    drained,       \* terminal signals drained and not yet applied
    result,        \* the reported outcome
    history        \* what was sent, for the properties only

world == <<root, kid, parentAlive, worker, pipe>>
vars == <<world, budget, pc, clock, policy, call, run, drained, result, history>>

NoCall == [pending |-> <<>>, event |-> None, next |-> None]

Limits == {"Footprint", "WallTime"}
SignalReason == Limits \cup {"ExternalSignal", "RootExitCleanup", "ParentExit",
                             "ObservationFailure", "SupervisorFault"}
SIGINT == 2
SIGKILL == 9
SIGTERM == 15
SIGUSR1 == 30
CheckpointStatus == {"NotNegotiated", "RequestedUnverified", "Cancelled", "TimedOut",
                     "AcknowledgedUnverifiedDurability"}

Init ==
    /\ root = "alive" /\ kid = "gone"
    /\ parentAlive = TRUE
    /\ worker = [ready |-> FALSE, answer |-> None]
    /\ pipe = 0
    /\ budget = [signals |-> MaxSignals, faults |-> MaxFaults, forks |-> MaxForks]
    /\ pc = "prepare"
    /\ clock = 0
    /\ policy = enforce_with_initial_request_id(Config, 1)
    /\ call = NoCall
    /\ run = [root_outcome |-> FALSE, group_exists |-> TRUE, parent_exited |-> FALSE,
              root_exit_applied |-> FALSE, checkpoint_negotiation |-> "Pending",
              checkpoint_status |-> "NotNegotiated", checkpoint_request_id |-> None,
              checkpoint_at_ms |-> None,     \* None, or 0 for any time
              checkpoint_reason |-> None, checkpoint_artifact |-> FALSE,
              intervention_started |-> FALSE, supervisor_error |-> FALSE,
              intervention_cause |-> None, shutdown_reason |-> None,
              transitions |-> {},            \* of the report, those into Emergency
              last_started_at |-> 0, failed |-> FALSE]
    /\ drained = 0
    /\ result = None
    /\ history = [sent |-> << >>, opener |-> None, killed |-> FALSE, graceUntil |-> None,
                  hurried |-> FALSE, looped |-> FALSE, dropStruck |-> FALSE,
                  dropRefused |-> FALSE]

-----------------------------------------------------------------------------
(* Labels of events and actuations.                                        *)

shutdown_reason_for(e) ==
    CASE e.type = "ExternalSignal" -> "ExternalSignal"
      [] e.type = "RootExited" -> "RootExitCleanup"
      [] e.type = "ParentExited" -> "ParentExit"
      [] OTHER -> None

may_label_shutdown(e, state) ==
    CASE e.type = "ParentExited" -> state \in {"Normal", "Warning"}
      [] e.type = "RootExited" -> state \in {"Normal", "Warning", "CheckpointRequested"}
      [] OTHER -> TRUE

\* Mutant: a parent exit is taken for something the world asked for.
uncounted_parent_exit(e) == e.type \in {"ExternalSignal", "RootExited", "ParentExited"}
opens_an_uncounted_shutdown(e) == e.type \in {"ExternalSignal", "RootExited"}

intervention_cause_for(e) ==
    CASE e.type = "Sample" -> "Footprint"
      [] e.type = "Tick" -> "WallTime"
      [] OTHER -> None

actuation_reason(action, cause, shutdown) ==
    CASE action.kind = "RequestCheckpoint" -> cause
      [] action.kind = "ForwardSignal" -> "ExternalSignal"
      [] action.kind = "SendKill" -> IF shutdown # None THEN shutdown ELSE cause
      [] action.kind = "SendTerm" ->
            CASE action.checkpoint = "SkippedRootExited" -> "RootExitCleanup"
              [] action.checkpoint = "SkippedObservationFailure" -> "ObservationFailure"
              [] action.checkpoint = "SkippedSupervisorFailure" -> "SupervisorFault"
              [] action.checkpoint = "SkippedParentExited" -> "ParentExit"
              [] OTHER -> cause

\* Mutant: a failed request is taken for a cancelled one even without a worker.
progress_without_negotiation(action, answer, negotiated) ==
    CASE action.kind = "RequestCheckpoint" ->
            IF answer = Delivered THEN "RequestedUnverified" ELSE "TimedOut"
      [] OTHER -> None

\* The status one executed actuation proves; None leaves it as it was.
checkpoint_progress(action, answer, negotiated) ==
    CASE action.kind = "RequestCheckpoint" /\ answer = Delivered -> "RequestedUnverified"
      [] action.kind = "RequestCheckpoint" /\ answer \in ActuationFailure /\ negotiated ->
            "Cancelled"
      [] action.kind = "SendTerm" /\ action.checkpoint = "TimedOut" -> "TimedOut"
      [] OTHER -> None

\* Mutant: the cause is latched on the graceful path only.
latch_graceful_only(r, e, from, to) ==
    [r EXCEPT !.intervention_cause =
                  IF /\ @ = None /\ from \in {"Normal", "Warning"}
                     /\ to \in {"CheckpointRequested", "Terminating"}
                  THEN intervention_cause_for(e) ELSE @,
              !.transitions = IF from # to /\ to = "Emergency" THEN @ \cup {<<from, to>>} ELSE @,
              !.supervisor_error = @ \/ (from # to /\ to = "SupervisorError")]

\* The transition observer of handle_event.
latch(r, e, from, to) ==
    [r EXCEPT !.intervention_cause =
                  IF /\ @ = None /\ from \in {"Normal", "Warning"}
                     /\ to \in {"CheckpointRequested", "Terminating", "Emergency"}
                  THEN intervention_cause_for(e) ELSE @,
              !.transitions = IF from # to /\ to = "Emergency" THEN @ \cup {<<from, to>>} ELSE @,
              !.supervisor_error = @ \/ (from # to /\ to = "SupervisorError")]

\* record_actuations for one attempt, and the count of apply_event.  Both run
\* when handle returns; what they read is settled before the first attempt, so
\* the attempts may be taken one at a time.
record_actuation(r, e, action, answer) ==
    LET reason == actuation_reason(action, r.intervention_cause, r.shutdown_reason)
        request == action.kind = "RequestCheckpoint"
        progress == checkpoint_progress(action, answer, r.checkpoint_negotiation = "Ready")
    IN [r EXCEPT
          !.intervention_started = @ \/ ~opens_an_uncounted_shutdown(e),
          !.checkpoint_reason = IF request THEN reason ELSE @,
          !.checkpoint_request_id = IF request /\ answer = Delivered
                                    THEN action.request_id ELSE @,
          !.shutdown_reason = IF request THEN @ ELSE reason,
          !.checkpoint_status = IF progress = None THEN @ ELSE progress,
          !.checkpoint_at_ms = IF progress = None THEN @ ELSE 0]

\* signal_record: the number and target of an attempt, and how it is told; a
\* request that found no worker is no signal.
signal_number(action) ==
    CASE action.kind = "RequestCheckpoint" -> SIGUSR1
      [] action.kind = "SendTerm" -> SIGTERM
      [] action.kind = "SendKill" -> SIGKILL
      [] action.kind = "ForwardSignal" -> action.signal

is_recorded(s) ==
    ~(s.kind = "RequestCheckpoint" /\ s.answer \in {"CheckpointUnavailable", "CheckpointRejected"})

signal_record(s) ==
    [signal |-> s.signal, reason |-> s.reason,
     target |-> IF s.kind = "RequestCheckpoint" THEN "CooperativeEndpoint" ELSE "OwnedProcessGroup",
     result |-> CASE s.answer = Delivered -> "Delivered"
                  [] s.answer \in {Missing, "EndpointMissing"} -> "ProcessMissing"
                  [] s.answer = "PermissionDenied" -> "PermissionDenied"
                  [] OTHER -> "Failed"]

-----------------------------------------------------------------------------
(* apply_event, split at the platform calls of the engine.                 *)

at(type) == [type |-> type, at |-> clock]

\* apply_event up to the engine's first platform call, from latches `r`.
ApplyFrom(r, e, next) ==
    LET reason == shutdown_reason_for(e)
        labelled == IF may_label_shutdown(e, policy.state) /\ reason # None
                    THEN [r EXCEPT !.shutdown_reason = reason] ELSE r
        acked == IF e.type = "CheckpointAck"
                 THEN [labelled EXCEPT !.checkpoint_status = "AcknowledgedUnverifiedDurability",
                                       !.checkpoint_at_ms = 0]
                 ELSE labelled
        d == decide(policy, e)
    IN /\ policy' = d.m
       /\ run' = latch(acked, e, policy.state, d.m.state)
       /\ IF d.pending = <<>> THEN pc' = next /\ call' = NoCall
          ELSE pc' = "execute" /\ call' = [pending |-> d.pending, event |-> e, next |-> next]

Apply(e, next) == ApplyFrom(run, e, next)
Skip(r, next) == pc' = next /\ run' = r /\ UNCHANGED <<policy, call>>

CanFault == budget.faults > 0
Fault == budget' = [budget EXCEPT !.faults = @ - 1]

\* What the platform answers, and whether it took a fault.  A group signal is
\* refused while every member is a zombie, and may be refused or fail for a
\* live one; a checkpoint request needs a negotiated, living root.
Answer(action, answer, faulty) ==
    LET reachable == run.checkpoint_negotiation = "Ready" /\ Live(root)
    IN IF action.kind = "RequestCheckpoint"
       THEN \/ ~faulty /\ ~reachable /\ answer = "CheckpointUnavailable"
            \/ ~faulty /\ reachable /\ answer = Delivered
            \/ faulty /\ reachable /\ answer = "SignalFailed"
       ELSE \/ ~faulty /\ answer = map_group_signal_result(signal_raw, LiveMember)
            \/ faulty /\ LiveMember /\ answer = "PermissionDenied"

Ok(s) == s.answer \in ActuationOutcome

\* What the event that leads to the first attempt really is.
Opener(e) ==
    CASE e.type = "Sample" -> IF e.aggregate_bytes = None THEN "ObservationFailure" ELSE "Footprint"
      [] e.type = "Tick" -> "WallTime"
      [] e.type = "SupervisorFault" -> "SupervisorFault"
      [] OTHER -> shutdown_reason_for(e)

Execute(answer, faulty) ==
    LET action == Head(call.pending)
        e == call.event
        a == answered(policy, event_at(e), call.pending, answer)
        recorded == record_actuation(run, e, action, answer)
        kill == action.kind = "SendKill"
        first == history.graceUntil = None /\ action.kind \in {"SendTerm", "ForwardSignal"}
        escalated == history.sent # <<>> /\ ~Ok(history.sent[Len(history.sent)])
    IN /\ pc = "execute"
       /\ Answer(action, answer, faulty)
       /\ IF faulty THEN CanFault /\ Fault ELSE UNCHANGED budget
       /\ policy' = a.m
       /\ run' = latch(recorded, e, policy.state, a.m.state)
       /\ IF a.pending = <<>> THEN pc' = call.next /\ call' = NoCall
          ELSE pc' = pc /\ call' = [call EXCEPT !.pending = a.pending]
       /\ root' = IF kill /\ answer = Delivered THEN doom(root) ELSE root
       /\ kid' = IF kill /\ answer = Delivered THEN doom(kid) ELSE kid
       /\ history' = [history EXCEPT
             !.sent = Append(@, [kind |-> action.kind, signal |-> signal_number(action),
                                 answer |-> answer, escalation |-> escalated,
                                 reason |-> actuation_reason(action, run.intervention_cause,
                                                             run.shutdown_reason)]),
             !.opener = IF @ = None THEN Opener(e) ELSE @,
             !.killed = @ \/ (kill /\ answer = Delivered /\ root = "alive"),
             !.graceUntil = IF first
                            THEN saturating_add(event_at(e), Config.term_grace) ELSE @,
             !.hurried = @ \/ (/\ kill /\ e.type = "Tick" /\ ~escalated
                                  /\ clock < history.graceUntil)]
       /\ UNCHANGED <<parentAlive, worker, pipe, clock, drained, result>>

-----------------------------------------------------------------------------
(* Launch: prepare_run_worker.                                             *)

\* An exited root passes its inspection while it is a zombie, or fails it: then
\* it is reaped and ends the run before the loop, as a failing inspection of a
\* living one does, and the owned process is dropped.
Prepare ==
    /\ pc = "prepare"
    /\ \/ /\ pc' = "wait"
          /\ history' = [history EXCEPT !.looped = TRUE]
          /\ UNCHANGED <<root, budget, result>>
       \/ /\ root = "zombie"
          /\ root' = "gone"
          /\ result' = "Child"
          /\ pc' = "drop"
          /\ UNCHANGED <<budget, history>>
       \/ /\ Live(root) /\ CanFault /\ Fault
          /\ result' = "SupervisorFailure"
          /\ pc' = "drop"
          /\ UNCHANGED <<root, history>>
    /\ UNCHANGED <<kid, parentAlive, worker, pipe, clock, policy, call, run, drained>>

-----------------------------------------------------------------------------
(* The loop: sample_until_exit.                                            *)

\* try_wait_root, which reaps the root the first time it finds it exited.
WaitRoot ==
    /\ pc = "wait"
    /\ root' = reap(root)
    /\ Skip([run EXCEPT !.root_outcome = @ \/ root = "zombie"], "group")
    /\ UNCHANGED <<kid, parentAlive, worker, pipe, budget, clock, drained, result, history>>

\* Mutant: the run is over once the root is.
query_ends_with_root ==
    /\ pc = "group"
    /\ Skip([run EXCEPT !.group_exists = GroupExists],
            IF run.root_outcome THEN "finish" ELSE "parent")
    /\ UNCHANGED <<world, budget, clock, drained, result, history>>

\* owned_group_exists: a group of zombies still exists.
QueryGroup ==
    /\ pc = "group"
    /\ Skip([run EXCEPT !.group_exists = GroupExists],
            IF run.root_outcome /\ ~GroupExists THEN "finish" ELSE "parent")
    /\ UNCHANGED <<world, budget, clock, drained, result, history>>

\* parent_has_exited reports the parent's exit once.
CheckParent ==
    /\ pc = "parent"
    /\ LET r == [run EXCEPT !.parent_exited = ~parentAlive]
       IN IF ~parentAlive /\ ~run.parent_exited /\ OnParentExit = "Terminate"
          THEN ApplyFrom(r, at("ParentExited"), "survivors")
          ELSE Skip(r, "survivors")
    /\ UNCHANGED <<world, budget, clock, drained, result, history>>

\* What a poll of the checkpoint channel makes of it, then `next`.
\* Readiness and the answer are read in one call when both are there.
PollChannel(next) ==
    LET pending == run.checkpoint_negotiation = "Pending"
        negotiation == IF ~pending THEN run.checkpoint_negotiation
                       ELSE IF worker.ready THEN "Ready"
                       ELSE IF Live(root) THEN "Pending" ELSE "Unavailable"
        r == [run EXCEPT !.checkpoint_negotiation = negotiation]
        polled == negotiation = "Ready" /\ policy.state = "CheckpointRequested"
        late == reached(policy.checkpoint_deadline, clock)
        failed == [type |-> "ActuationFailed", at |-> clock, action |-> "Checkpoint"]
    IN \/ /\ ~polled \/ late \/ (worker.answer = None /\ Live(root))
          /\ Skip(r, next)
       \/ /\ polled /\ ~late /\ worker.answer = "Completed"
          /\ \E artifact \in BOOLEAN :
                ApplyFrom([r EXCEPT !.checkpoint_artifact = artifact],
                          [type |-> "CheckpointAck", at |-> clock, authenticated |-> TRUE,
                           request_id |-> policy.active_request_id], next)
       \/ /\ polled /\ ~late
          /\ worker.answer = "Failed" \/ (worker.answer = None /\ ~Live(root))
          /\ ApplyFrom(r, failed, next)

\* The root is gone and its group is not: drain the channel, then clean up.
PollSurvivors ==
    /\ pc = "survivors"
    /\ IF run.root_outcome /\ run.group_exists /\ ~run.root_exit_applied
       THEN PollChannel("cleanup") ELSE Skip(run, "poll")
    /\ UNCHANGED <<world, budget, clock, drained, result, history>>

CleanSurvivors ==
    /\ pc = "cleanup"
    /\ ApplyFrom([run EXCEPT !.root_exit_applied = TRUE], at("RootExited"), "poll")
    /\ UNCHANGED <<world, budget, clock, drained, result, history>>

PollCheckpoint ==
    /\ pc = "poll"
    /\ PollChannel("signals")
    /\ UNCHANGED <<world, budget, clock, drained, result, history>>

\* All signals queued so far are drained, then applied in order.
DrainSignals ==
    /\ pc = "signals"
    /\ pipe' = 0
    /\ drained' = pipe
    /\ Skip(run, "forward")
    /\ UNCHANGED <<root, kid, parentAlive, worker, budget, clock, result, history>>

ForwardNext ==
    /\ pc = "forward"
    /\ IF drained = 0 THEN Skip(run, "sample") /\ UNCHANGED drained
       ELSE /\ drained' = drained - 1
            /\ \E signal \in {SIGINT, SIGTERM} :
                  Apply([type |-> "ExternalSignal", at |-> clock, signal |-> signal], "forward")
    /\ UNCHANGED <<world, budget, clock, result, history>>

\* One sample, which may take a whole interval.  Without a living root the
\* tracked identity is lost and the sample carries no aggregate.
SampleOnce(bytes, duration) ==
    LET t == saturating_add(clock, duration)
    IN /\ pc = "sample"
       /\ bytes # None => Live(root)
       /\ clock' = t
       /\ ApplyFrom([run EXCEPT !.last_started_at = clock],
                    [type |-> "Sample", captured_at |-> t, processed_at |-> t,
                     window |-> 1, aggregate_bytes |-> bytes], "tick")
       /\ UNCHANGED <<world, budget, drained, result, history>>

Tick ==
    /\ pc = "tick"
    /\ Apply(at("Tick"), "sleep")
    /\ UNCHANGED <<world, budget, clock, drained, result, history>>

\* Sleep out the sampling interval of one, or wake for an earlier deadline; the
\* scheduler may oversleep by one.
Sleep(extra) ==
    LET elapsed == clock - run.last_started_at
        sample_delay == IF elapsed >= 1 THEN 0 ELSE 1 - elapsed
        deadline == next_deadline(policy)
        delay == IF deadline # None /\ deadline - clock < sample_delay
                 THEN (IF deadline > clock THEN deadline - clock ELSE 0) ELSE sample_delay
    IN /\ pc = "sleep"
       /\ clock' = IF delay = 0 THEN clock ELSE saturating_add(clock, delay + extra)
       /\ Skip(run, "wait")
       /\ UNCHANGED <<world, budget, drained, result, history>>

-----------------------------------------------------------------------------
(* The end of the run.                                                     *)

\* A wait, group query or pipe read that fails: fail_supervisor.
FailSupervisor ==
    /\ pc \in {"wait", "group", "signals"} /\ (pc = "wait" => ~run.root_outcome)
    /\ CanFault /\ Fault
    /\ ApplyFrom([run EXCEPT !.failed = TRUE], at("SupervisorFault"), "grace")
    /\ UNCHANGED <<world, clock, drained, result, history>>

\* The failing supervisor sits out the deadline and ticks once.
AwaitGrace ==
    LET deadline == next_deadline(policy)
        t == IF deadline # None /\ deadline > clock THEN deadline ELSE clock
    IN /\ pc = "grace"
       /\ clock' = t
       /\ IF deadline = None THEN Skip(run, "finish")
          ELSE Apply([type |-> "Tick", at |-> t], "finish")
       /\ UNCHANGED <<world, budget, drained, result, history>>

complete(r) ==
    IF r.failed \/ r.supervisor_error THEN "SupervisorFailure"
    ELSE IF r.intervention_started THEN "PolicyIntervention"
    ELSE IF r.root_outcome THEN "Child" ELSE "SupervisorFailure"

Finish ==
    /\ pc = "finish"
    /\ result' = complete(run)
    /\ pc' = "drop"
    /\ policy' = IF run.failed THEN policy
                 ELSE apply(policy, [type |-> "ProcessExited", at |-> clock,
                                     final_footprint_bytes |-> None]).m
    /\ UNCHANGED <<world, budget, clock, call, run, drained, history>>

\* Mutant: the owned process is relinquished instead of being cleaned up.
relinquish_on_drop ==
    /\ pc = "drop"
    /\ pc' = "reap"
    /\ UNCHANGED <<world, budget, clock, policy, call, run, drained, result, history>>

\* Drop for OwnedProcess: KILL whatever is left, ignoring the answer.
DropProcess ==
    /\ pc = "drop"
    /\ \/ /\ root' = doom(root) /\ kid' = doom(kid)
          /\ history' = [history EXCEPT !.dropStruck =
                            (root = "alive" \/ kid = "alive")]
          /\ UNCHANGED budget
       \/ /\ LiveMember /\ CanFault /\ Fault
          /\ history' = [history EXCEPT !.dropRefused = TRUE]
          /\ UNCHANGED <<root, kid>>
    /\ pc' = "reap"
    /\ UNCHANGED <<parentAlive, worker, pipe, clock, policy, call, run, drained, result>>

\* ... and wait for the root itself.
ReapRoot ==
    /\ pc = "reap" /\ ~Live(root)
    /\ root' = "gone"
    /\ pc' = "done"
    /\ UNCHANGED <<kid, parentAlive, worker, pipe, budget, clock, policy, call, run,
                   drained, result, history>>

Supervisor ==
    \/ Prepare \/ WaitRoot \/ QueryGroup \/ CheckParent \/ PollSurvivors \/ CleanSurvivors
    \/ PollCheckpoint \/ DrainSignals \/ ForwardNext \/ Tick
    \/ \E bytes \in Option(SampleBytes), duration \in 0 .. 1 : SampleOnce(bytes, duration)
    \/ \E extra \in 0 .. 1 : Sleep(extra)
    \/ \E answer \in ActuationOutcome \cup ActuationFailure, faulty \in BOOLEAN :
          Execute(answer, faulty)
    \/ FailSupervisor \/ AwaitGrace \/ Finish \/ DropProcess \/ ReapRoot

-----------------------------------------------------------------------------
(* The world.                                                              *)

supervisor == <<pc, clock, policy, call, run, drained, result, history>>

RootExits == RootExit /\ UNCHANGED <<parentAlive, worker, pipe, budget, supervisor>>
KidExits == KidExit /\ UNCHANGED <<parentAlive, worker, pipe, budget, supervisor>>
KidReaped == KidReap /\ UNCHANGED <<parentAlive, worker, pipe, budget, supervisor>>

Fork ==
    /\ KidFork /\ budget.forks > 0
    /\ budget' = [budget EXCEPT !.forks = @ - 1]
    /\ UNCHANGED <<parentAlive, worker, pipe, supervisor>>

ParentDies ==
    /\ parentAlive /\ parentAlive' = FALSE
    /\ UNCHANGED <<root, kid, worker, pipe, budget, supervisor>>

UserSignals ==
    /\ budget.signals > 0 /\ pc \notin {"drop", "reap", "done"}
    /\ budget' = [budget EXCEPT !.signals = @ - 1]
    /\ pipe' = pipe + 1
    /\ UNCHANGED <<root, kid, parentAlive, worker, supervisor>>

WorkerReady ==
    /\ Live(root) /\ ~worker.ready /\ Cooperative
    /\ worker' = [worker EXCEPT !.ready = TRUE]
    /\ UNCHANGED <<root, kid, parentAlive, pipe, budget, supervisor>>

WorkerAnswers(answer) ==
    /\ Live(root) /\ run.checkpoint_request_id # None /\ worker.answer = None
    /\ worker' = [worker EXCEPT !.answer = answer]
    /\ UNCHANGED <<root, kid, parentAlive, pipe, budget, supervisor>>

World ==
    \/ RootExits \/ KidExits \/ KidReaped \/ Fork \/ ParentDies \/ UserSignals
    \/ WorkerReady \/ \E answer \in {"Completed", "Failed"} : WorkerAnswers(answer)

Next == Supervisor \/ World

\* The supervisor keeps running; a member that was sent KILL exits, and an
\* exited descendant whose parent is gone is reaped.
Fairness ==
    /\ WF_vars(Supervisor)
    /\ WF_vars(root = "doomed" /\ RootExits)
    /\ WF_vars(kid = "doomed" /\ KidExits)
    /\ WF_vars(~Live(root) /\ KidReaped)

Spec == Init /\ [][Next]_vars
FairSpec == Spec /\ Fairness

-----------------------------------------------------------------------------
(* Properties.                                                             *)

Places == {"prepare", "wait", "group", "parent", "survivors", "cleanup", "poll", "signals",
           "forward", "sample", "tick", "sleep", "execute", "grace", "finish", "drop",
           "reap", "done"}

\* Every variable of the supervisor and of its world keeps its type.
TypeOK ==
    /\ root \in MemberState /\ kid \in MemberState
    /\ pc \in Places
    /\ clock \in Duration
    /\ policy \in Machine
    /\ run.checkpoint_status \in CheckpointStatus
    /\ run.intervention_cause \in Option(Limits)
    /\ run.shutdown_reason \in Option(SignalReason)
    /\ result \in Option({"Child", "PolicyIntervention", "SupervisorFailure"})

Sent == Range(history.sent)
LoopKillFailed == \E s \in Sent : s.kind = "SendKill" /\ ~Ok(s)
KillFailed == LoopKillFailed \/ history.dropRefused

\* Nothing is left behind: when the supervisor has exited, every member of the
\* owned group is gone, exited, or has been sent KILL, unless a KILL was refused
\* -- on every path, the failing and the early ones included.
NoOrphans ==
    (pc = "done" /\ ~KillFailed) => (root # "alive" /\ kid # "alive")

\* Every signal in the report says why it was sent (SignalRecord.reason), and a
\* checkpoint request only ever for a limit.
EverySignalHasAReason ==
    \A s \in Sent :
        /\ s.reason # None
        /\ s.kind = "RequestCheckpoint" => s.reason \in Limits

\* An attempt that leaves the run the command's own: one a terminal signal or the
\* cleanup after the root's exit asked for, where the cleanup's own KILL only
\* answers a signal that was refused.
LeavesTheRunToTheCommand(s) ==
    /\ s.reason \in {"ExternalSignal", "RootExitCleanup"}
    /\ s.kind = "SendKill" /\ s.reason = "RootExitCleanup" => s.escalation

\* The reported result tells who ended the run: if it is the command's own
\* status, then every limit, lost observation, parent exit or fault left the group
\* alone, and the cleanup's grace did not end in KILL, which docs/CLI.md:99 and
\* docs/PROCESS_CONTROL.md:35 want told as an intervention (75).  Two cases of
\* those sentences are excluded, because opens_an_uncounted_shutdown does not count
\* them and the code reports the command's status: the KILL that follows a refused
\* cleanup TERM, and the one a terminal signal asks for during the cleanup.  A KILL
\* that could not be delivered is never told as anything but a supervisor failure.
HonestResult ==
    /\ result = "Child" => \A s \in Sent : LeavesTheRunToTheCommand(s)
    /\ (result # None /\ LoopKillFailed) => result = "SupervisorFailure"

Schema == INSTANCE ReportSchema

\* The checkpoint record passes the validation of the report at any time, or the
\* whole report would be refused; and it is what the table of docs/REPORTS.md
\* wants: a request id exactly when the request was delivered, a limit as the
\* reason whenever one was tried, an acknowledgement only for a completed save.
CheckpointRecordAgrees ==
    /\ Schema!checkpoint_valid(
           [status |-> run.checkpoint_status, at_ms |-> run.checkpoint_at_ms,
            request_id |-> run.checkpoint_request_id, reason |-> run.checkpoint_reason,
            artifact |-> IF run.checkpoint_artifact THEN "artifact" ELSE None])
    /\ run.checkpoint_status \in {"RequestedUnverified", "TimedOut",
                                  "AcknowledgedUnverifiedDurability"} =>
          run.checkpoint_request_id # None
    /\ run.checkpoint_status # "NotNegotiated" => run.checkpoint_reason \in Limits
    /\ run.checkpoint_status = "AcknowledgedUnverifiedDurability" =>
          worker.answer = "Completed"

Plain == INSTANCE Explain

\* The report as explain_report reads it.  A root that KILL found alive ends on it.
Report ==
    [kind |-> IF result # "Child" THEN result
              ELSE IF history.killed THEN "ChildSignaled" ELSE "ChildExited",
     child_signal |-> SIGKILL, supervised |-> history.looped,
     signals |-> [i \in 1 .. Len(SelectSeq(history.sent, is_recorded)) |->
                     signal_record(SelectSeq(history.sent, is_recorded)[i])],
     transitions |-> run.transitions,
     checkpoint |-> [status |-> run.checkpoint_status, request_id |-> run.checkpoint_request_id,
                     reason |-> run.checkpoint_reason],
     parent_exited |-> run.parent_exited, wall_time |-> Config.wall_time # None]

\* The plain-language row that explain_report picks from the report's fields is
\* about the event that really began the shutdown: a limit is named when and only
\* when that limit was crossed first, whatever signals, exits and refusals came
\* after it, and a command that died of the supervisor's KILL is never told that
\* it ended "elsewhere".
ExplanationNamesTheCause ==
    result # None =>
        LET row == Plain!explain_report(Report)
            opener == history.opener
        IN /\ row \in {"emergency", "Footprint"} => opener = "Footprint"
           /\ row = "WallTime" => opener = "WallTime"
           /\ row = "ParentExit" => opener = "ParentExit"
           /\ row = "ignored_signal" => opener = "ExternalSignal"
           /\ row = "survivors" => opener = "RootExitCleanup"
           /\ row = "unrecorded" => opener \notin Limits \cup {"ParentExit"}
           /\ row # "elsewhere"

\* What the explanation says was done was done: every claim has a signal the
\* kernel delivered behind it, the vague "stopped" is used only after a refusal or,
\* in the last row, for a terminal signal other than SIGTERM that was passed on,
\* which the clause has no words for; and a KILL that ended the command is told --
\* unless it cut a checkpoint request short, which action_clause passes over.
ActionsToldHappened ==
    result # None =>
        LET row == Plain!explain_report(Report)
            told == Plain!action_clause(Report)
            Done(kind) == \E s \in Sent : s.kind = kind /\ s.answer = Delivered
        IN row \in Plain!TellsActions =>
              /\ "stopped" \in told =>
                    \E s \in Sent :
                        \/ s.kind # "RequestCheckpoint" /\ ~Ok(s)
                        \/ row = "unrecorded" /\ s.kind = "ForwardSignal" /\ s.signal # SIGTERM
              /\ "asked" \in told => Done("RequestCheckpoint")
              /\ "terminated" \in told => Done("SendTerm") \/ Done("ForwardSignal")
              /\ "killed" \in told => Done("SendKill")
              /\ Done("SendKill") => "killed" \in told \/ "asked" \in told

\* The command gets its whole grace: a deadline never turns into KILL before
\* term_grace has passed since the first TERM or forwarded signal.
GraceHonoured == ~history.hurried

\* The KILL of the dropped process is a last resort: once the loop has begun it
\* strikes a living member only after the loop's own signals to the group, on the
\* failing paths as well as behind the root's exit.
DropIsLastResort ==
    (history.looped /\ history.dropStruck) =>
        \E s \in Sent : s.kind \in {"SendTerm", "ForwardSignal", "SendKill"}

\* A run that has to end does end: once the root has exited, a shutdown has
\* begun, or the watched parent is gone, the supervisor exits -- given that KILL
\* can be delivered.
RunEnds ==
    (\/ ~Live(root)
     \/ policy.intervention_started
     \/ ~parentAlive /\ OnParentExit = "Terminate") ~> pc = "done"

\* docs/CLI.md: "if ... the KILL signal itself could not be delivered, the result
\* is 70": a run whose KILL was refused still comes to its result.
FailedKillIsReported == KillFailed ~> result # None

\* The run ends what it owns, in the right order: nobody of the group is left
\* alive behind an exited supervisor, and the KILL of the drop is not what
\* normally ends them.
NothingIsLeftBehind == TypeOK /\ NoOrphans /\ DropIsLastResort

\* The plain-language explanation of the finished report is true: it names the
\* event that began the shutdown and claims no action that did not happen.
ExplanationIsTrue == ExplanationNamesTheCause /\ ActionsToldHappened
=============================================================================
