--------------------------- MODULE ObserveRuntime ---------------------------
(***************************************************************************)
(* `mlx-guard observe`: the watching supervisor's loop                     *)
(* (crates/mlx-guard-cli/src/runtime.rs, execute_observe and               *)
(* ObserveRuntime) over the observe-mode policy machine, composed with the *)
(* group it owns, the launching parent and the user's terminal signals.    *)
(* One action is one system call's worth of the single-threaded loop; the  *)
(* world moves between any two.  What the run reports is the completion of *)
(* ObserveFinal; the journal behind it is left out.                        *)
(***************************************************************************)
EXTENDS PolicyMachine, OwnedGroup

CONSTANTS
    Config,          \* sample quality bounds of the observe machine
    OnParentExit,    \* "Terminate", or "Detach" which only records
    TERM_GRACE,      \* between the TERM and the KILL of a parent-exit shutdown
    MaxSignals,      \* bound: terminal signals the user sends
    MaxFaults,       \* bound: failing system calls and refused signals
    MaxForks         \* bound: descendants the root starts, one at a time

ASSUME ObserveAssumption ==
    /\ Config \in PolicyConfig /\ valid_config(Config)
    /\ OnParentExit \in {"Terminate", "Detach"}
    /\ TERM_GRACE \in Duration \ {0}
    /\ MaxSignals \in Nat /\ MaxFaults \in Nat /\ MaxForks \in Nat

VARIABLES
    parentAlive,   \* the launching parent
    pipe,          \* terminal signals caught and not yet drained
    budget,        \* what is left of the bounded disturbances
    pc,            \* the supervisor's place in its loop
    clock,         \* Instant::elapsed since the start
    policy,        \* the observe-mode policy machine
    obs,           \* the latches of ObserveRuntime
    drained,       \* terminal signals drained and not yet delivered
    report,        \* the completion, once the loop has returned
    history        \* what the run did, for the properties only

world == <<root, kid, parentAlive, pipe>>
vars == <<world, budget, pc, clock, policy, obs, drained, report, history>>

\* What is reported: who owns the result, whether the root's own status and
\* whether survivors are in it.
Report(result, child_status, survivors) ==
    [result |-> result, child_status |-> child_status, survivors |-> survivors]

Init ==
    /\ root = "alive" /\ kid = "gone"
    /\ parentAlive = TRUE
    /\ pipe = 0
    /\ budget = [signals |-> MaxSignals, faults |-> MaxFaults, forks |-> MaxForks]
    /\ pc = "prepare"
    /\ clock = 0
    /\ policy = observe(Config)
    /\ obs = [root_outcome |-> FALSE, group_exists |-> TRUE,
              observation_failed |-> FALSE, terminal_signal_count |-> 0,
              parent_exited |-> FALSE, parent_shutdown_deadline |-> None,
              last_started_at |-> 0]
    /\ drained = 0
    /\ report = None
    /\ history = [looped |-> FALSE, failed |-> FALSE, refused |-> FALSE, term |-> FALSE,
                  struck |-> FALSE]

CanFault == budget.faults > 0
Fault == budget' = [budget EXCEPT !.faults = @ - 1]

-----------------------------------------------------------------------------
(* Completions: the ObserveFinal of `run`.  A relinquished group is left   *)
(* alone; any other is dropped, which kills it.                            *)

Complete(final, relinquish) ==
    /\ report' = final
    /\ pc' = IF relinquish THEN "done" ELSE "drop"

\* Mutant: the survivors of the root are dropped with the owned process.
complete_root_drops(survivors) == Complete(Report("Child", TRUE, survivors), FALSE)
\* Mutant: the survivors are left alone and out of the report.
complete_root_silent(survivors) == Complete(Report("Child", TRUE, FALSE), survivors)
complete_root(survivors) == Complete(Report("Child", TRUE, survivors), survivors)

\* Mutant: a shutdown that found survivors leaves them running.
complete_parent_exit_relinquishes(survivors) ==
    Complete(Report("PolicyIntervention", obs.root_outcome, survivors), survivors)

complete_parent_exit(survivors) ==
    Complete(Report("PolicyIntervention", obs.root_outcome, survivors), FALSE)

complete_failure == Complete(Report("SupervisorFailure", FALSE, FALSE), TRUE)

Goto(next) == pc' = next /\ UNCHANGED report

-----------------------------------------------------------------------------
(* Launch: prepare_observe_worker.                                         *)

\* An exited root passes its inspection while it is a zombie, or fails it: then
\* it is reaped and its status is the result, as a failing inspection of a
\* living one is a failure, and the owned process is dropped.
Prepare ==
    /\ pc = "prepare"
    /\ \/ /\ Goto("wait")
          /\ history' = [history EXCEPT !.looped = TRUE]
          /\ UNCHANGED <<root, budget>>
       \/ /\ root = "zombie" /\ root' = "gone"
          /\ Complete(Report("Child", TRUE, FALSE), FALSE)
          /\ UNCHANGED <<budget, history>>
       \/ /\ Live(root) /\ CanFault /\ Fault
          /\ Complete(Report("SupervisorFailure", FALSE, FALSE), FALSE)
          /\ UNCHANGED <<root, history>>
    /\ UNCHANGED <<kid, parentAlive, pipe, clock, policy, obs, drained>>

-----------------------------------------------------------------------------
(* The loop: sample_until_exit.                                            *)

WaitRoot ==
    /\ pc = "wait"
    /\ root' = reap(root)
    /\ obs' = [obs EXCEPT !.root_outcome = @ \/ root = "zombie"]
    /\ Goto("group")
    /\ UNCHANGED <<kid, parentAlive, pipe, budget, clock, policy, drained, history>>

QueryGroup ==
    /\ pc = "group"
    /\ obs' = [obs EXCEPT !.group_exists = GroupExists]
    /\ Goto("decide")
    /\ UNCHANGED <<world, budget, clock, policy, drained, history>>

\* Mutant: a deadline that passed is only seen while sampling goes on.
decide_needs_samples ==
    /\ pc = "decide"
    /\ obs.parent_shutdown_deadline # None /\ ~obs.observation_failed
    /\ IF ~obs.group_exists THEN complete_parent_exit(FALSE)
       ELSE Goto(IF clock >= obs.parent_shutdown_deadline THEN "kill" ELSE "poll")
    /\ UNCHANGED <<world, budget, clock, policy, obs, drained, history>>

\* A parent-exit shutdown in flight owns the completion ...
DecideShutdown ==
    /\ pc = "decide"
    /\ obs.parent_shutdown_deadline # None
    /\ IF ~obs.group_exists THEN complete_parent_exit(FALSE)
       ELSE Goto(IF clock >= obs.parent_shutdown_deadline THEN "kill" ELSE "poll")
    /\ UNCHANGED <<world, budget, clock, policy, obs, drained, history>>

\* ... otherwise the root's exit does, and only then a parent's exit counts.
DecideRoot ==
    /\ pc = "decide"
    /\ obs.parent_shutdown_deadline = None
    /\ obs.root_outcome
    /\ complete_root(obs.group_exists)
    /\ UNCHANGED <<world, budget, clock, policy, obs, drained, history>>

\* parent_has_exited reports the parent's exit once.
CheckParent ==
    LET exited == ~parentAlive /\ ~obs.parent_exited
    IN /\ pc = "decide"
       /\ obs.parent_shutdown_deadline = None /\ ~obs.root_outcome
       /\ obs' = [obs EXCEPT !.parent_exited = ~parentAlive]
       /\ Goto(IF exited /\ OnParentExit = "Terminate" THEN "term" ELSE "poll")
       /\ UNCHANGED <<world, budget, clock, policy, drained, history>>

\* One group signal: delivered, answered like a missing or refused one, or
\* refused although a member lives.  `kill` dooms the members it reaches.
SignalGroup(kill) ==
    LET strike == kill /\ signal_raw = "Delivered"
    IN \/ /\ root' = IF strike THEN doom(root) ELSE root
          /\ kid' = IF strike THEN doom(kid) ELSE kid
          /\ history' = [history EXCEPT !.struck = @ \/ (strike /\ "alive" \in {root, kid}),
                                        !.term = @ \/ pc = "term"]
          /\ UNCHANGED budget
       \/ /\ LiveMember /\ CanFault /\ Fault
          /\ history' = [history EXCEPT !.refused = pc = "drop", !.term = @ \/ pc = "term"]
          /\ UNCHANGED <<root, kid>>

\* terminate_group arms the grace from the instant the parent was checked.
TerminateGroup ==
    /\ pc = "term"
    /\ SignalGroup(FALSE)
    /\ obs' = [obs EXCEPT !.parent_shutdown_deadline = saturating_add(clock, TERM_GRACE)]
    /\ Goto("poll")
    /\ UNCHANGED <<parentAlive, pipe, clock, policy, drained>>

KillGroup ==
    /\ pc = "kill"
    /\ SignalGroup(TRUE)
    /\ complete_parent_exit(TRUE)
    /\ UNCHANGED <<parentAlive, pipe, clock, policy, obs, drained>>

DrainSignals ==
    /\ pc = "poll"
    /\ pipe' = 0 /\ drained' = pipe
    /\ Goto("forward")
    /\ UNCHANGED <<root, kid, parentAlive, budget, clock, policy, obs, history>>

\* forward_terminal_signals: the first one unchanged, KILL for every other.
ForwardNext ==
    /\ pc = "forward" /\ drained > 0
    /\ SignalGroup(obs.terminal_signal_count > 0)
    /\ obs' = [obs EXCEPT !.terminal_signal_count = @ + 1]
    /\ drained' = drained - 1
    /\ Goto("forward")
    /\ UNCHANGED <<parentAlive, pipe, clock, policy>>

\* Mutant: measurement loss ends a shutdown in flight.
after_sample_any(failed) == IF failed THEN complete_failure ELSE Goto("sleep")

\* Measurement loss ends the run, but not a shutdown in flight.
after_sample(failed) ==
    IF failed /\ obs.parent_shutdown_deadline = None THEN complete_failure ELSE Goto("sleep")

\* sample_once, which may take a whole interval; without a living root the
\* tracked identity is lost and the sample carries no aggregate.
SampleOnce(usable_sample, duration) ==
    LET t == saturating_add(clock, duration)
        m == apply(policy, [type |-> "Sample", captured_at |-> t, processed_at |-> t,
                            window |-> 1,
                            aggregate_bytes |-> IF usable_sample THEN 1 ELSE None]).m
        failed == m.state = "SupervisorError"
    IN /\ pc = "forward" /\ drained = 0 /\ ~obs.observation_failed
       /\ usable_sample => Live(root)
       /\ clock' = t
       /\ policy' = m
       /\ obs' = [obs EXCEPT !.observation_failed = failed, !.last_started_at = clock]
       /\ after_sample(failed)
       /\ UNCHANGED <<world, budget, drained, history>>

\* A failed observation stops sampling while the shutdown goes on.
SkipSample ==
    /\ pc = "forward" /\ drained = 0 /\ obs.observation_failed
    /\ after_sample(TRUE)
    /\ UNCHANGED <<world, budget, clock, policy, obs, drained, history>>

\* Sleep out the sampling interval of one, or wake at the end of the grace; the
\* scheduler may oversleep by one.
Sleep(extra) ==
    LET elapsed == clock - obs.last_started_at
        sample_delay == IF obs.observation_failed \/ elapsed = 0 THEN 1 ELSE 0
        deadline == obs.parent_shutdown_deadline
        delay == IF deadline # None /\ clock >= deadline THEN 0 ELSE sample_delay
    IN /\ pc = "sleep"
       /\ clock' = IF delay = 0 THEN clock ELSE saturating_add(clock, delay + extra)
       /\ Goto("wait")
       /\ UNCHANGED <<world, budget, policy, obs, drained, history>>

\* A wait, group query, pipe read or signal that fails ends the run at once and
\* leaves the group alone.
FailSupervisor ==
    /\ \/ pc = "wait" /\ ~obs.root_outcome
       \/ pc \in {"group", "term", "kill", "poll"}
       \/ pc = "forward" /\ drained > 0
    /\ CanFault /\ Fault
    /\ history' = [history EXCEPT !.failed = TRUE]
    /\ complete_failure
    /\ UNCHANGED <<world, clock, policy, obs, drained>>

\* Drop for OwnedProcess: KILL whatever is left, then wait for the root.
DropProcess ==
    /\ pc = "drop"
    /\ SignalGroup(TRUE)
    /\ Goto("reap")
    /\ UNCHANGED <<parentAlive, pipe, clock, policy, obs, drained>>

ReapRoot ==
    /\ pc = "reap" /\ ~Live(root)
    /\ root' = "gone"
    /\ Goto("done")
    /\ UNCHANGED <<kid, parentAlive, pipe, budget, clock, policy, obs, drained, history>>

Supervisor ==
    \/ Prepare \/ WaitRoot \/ QueryGroup \/ DecideShutdown \/ DecideRoot \/ CheckParent
    \/ TerminateGroup \/ KillGroup \/ DrainSignals \/ ForwardNext \/ SkipSample
    \/ \E usable_sample \in BOOLEAN, duration \in 0 .. 1 : SampleOnce(usable_sample, duration)
    \/ \E extra \in 0 .. 1 : Sleep(extra)
    \/ FailSupervisor \/ DropProcess \/ ReapRoot

-----------------------------------------------------------------------------
(* The world.                                                              *)

supervisor == <<pc, clock, policy, obs, drained, report, history>>

RootExits == RootExit /\ UNCHANGED <<parentAlive, pipe, budget, supervisor>>
KidExits == KidExit /\ UNCHANGED <<parentAlive, pipe, budget, supervisor>>
KidReaped == KidReap /\ UNCHANGED <<parentAlive, pipe, budget, supervisor>>

Fork ==
    /\ KidFork /\ budget.forks > 0
    /\ budget' = [budget EXCEPT !.forks = @ - 1]
    /\ UNCHANGED <<parentAlive, pipe, supervisor>>

ParentDies ==
    /\ parentAlive /\ parentAlive' = FALSE
    /\ UNCHANGED <<root, kid, pipe, budget, supervisor>>

UserSignals ==
    /\ budget.signals > 0 /\ pc \notin {"drop", "reap", "done"}
    /\ budget' = [budget EXCEPT !.signals = @ - 1]
    /\ pipe' = pipe + 1
    /\ UNCHANGED <<root, kid, parentAlive, supervisor>>

World ==
    RootExits \/ KidExits \/ KidReaped \/ Fork \/ ParentDies \/ UserSignals

Next == Supervisor \/ World

\* The supervisor keeps running, and a member that was sent KILL exits.
Fairness ==
    /\ WF_vars(Supervisor)
    /\ WF_vars(root = "doomed" /\ RootExits)
    /\ WF_vars(kid = "doomed" /\ KidExits)

Spec == Init /\ [][Next]_vars
FairSpec == Spec /\ Fairness

-----------------------------------------------------------------------------
(* Properties.                                                             *)

Places == {"prepare", "wait", "group", "decide", "term", "kill", "poll", "forward",
           "sleep", "drop", "reap", "done"}

\* Every variable of the supervisor and of its world keeps its type.
TypeOK ==
    /\ root \in MemberState /\ kid \in MemberState
    /\ pc \in Places
    /\ clock \in Duration
    /\ policy \in Machine
    /\ obs.parent_shutdown_deadline \in Option(Duration)
    /\ report \in Option([result: {"Child", "PolicyIntervention", "SupervisorFailure"},
                          child_status: BOOLEAN, survivors: BOOLEAN])

\* The command is the user's: from the first turn of the loop on (what fails
\* before it goes to the drop, prepare_observe_worker) no member is
\* sent KILL -- by a decision of the loop or by the drop of the owned process --
\* unless a second terminal signal or the exit of the watched parent asked for it
\* (docs/OBSERVE_AND_CALIBRATION.md: the "only destructive exceptions").
OnlyAuthorisedKills ==
    (history.looped /\ history.struck) =>
        \/ obs.terminal_signal_count >= 2
        \/ obs.parent_shutdown_deadline # None

\* A run whose parent exited reports the intervention, whatever the sampler saw
\* during the shutdown and even when the command ended by itself meanwhile; only
\* a failing system call may own the result instead.
ParentExitOwnsResult ==
    (report # None /\ history.term /\ ~history.failed) =>
        report.result = "PolicyIntervention"

\* The parent-exit shutdown removes what it set out to remove: nobody is left
\* alive behind it, unless the drop's KILL was refused.
NoOrphanAfterParentExit ==
    (/\ pc = "done" /\ report.result = "PolicyIntervention" /\ ~history.refused)
        => (root # "alive" /\ kid # "alive")

\* Nobody is left behind silently: a member still running when observe has ended
\* is in the report (owned_group_survivors), or the run failed and says so, or the
\* drop's KILL was refused.
LeftBehindIsReported ==
    (pc = "done" /\ "alive" \in {root, kid}) =>
        \/ report.survivors
        \/ report.result = "SupervisorFailure"
        \/ history.refused

\* Observing ends: once the root has exited, or the watched parent has, so does
\* observe -- a shutdown that lost its measurements and a command that ignores
\* TERM included -- as long as KILL can be delivered.
ObserveEnds ==
    (~Live(root) \/ (~parentAlive /\ OnParentExit = "Terminate")) ~> pc = "done"

\* Observe is a bystander: once its loop runs it kills nobody unasked, and whoever
\* outlives it is in the report.  A run that fails before the loop is left to the
\* drop, which does kill.
CommandIsLeftAlone == TypeOK /\ OnlyAuthorisedKills /\ LeftBehindIsReported

\* Once the watched parent has exited, its exit owns the rest of the run: the
\* result says so, and nobody survives the shutdown it began.
ParentExitIsEnforced == ParentExitOwnsResult /\ NoOrphanAfterParentExit
=============================================================================
