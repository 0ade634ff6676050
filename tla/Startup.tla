------------------------------ MODULE Startup ------------------------------
(***************************************************************************)
(* From the start of the supervisor to its exit, seen from outside the run *)
(* loop: execute_run and execute_observe (runtime.rs) prepare one step     *)
(* after another and undo them on every failure, the terminal signal       *)
(* monitor (process_control.rs) takes over the signals, the parent watch   *)
(* binds and watches the launching parent, and a Python client             *)
(* (_client.py) waits for readiness and reads the result.  Signals, the    *)
(* parent's exit and the reuse of its pid happen between any two steps.    *)
(* What the loop does to its command is in RunRuntime and ObserveRuntime;  *)
(* here it only ends it.                                                   *)
(***************************************************************************)
EXTENDS Configuration, SequencesExt

CONSTANTS
    PipeCapacity,   \* signals the pipe of the monitor holds
    ChildCodes,     \* exit codes of the command
    ChildSignals,   \* signals that end the command
    MaxSignals,     \* bound: terminal signals sent
    Configs,        \* command lines, and the ways to start the supervisor
    MaxFaults,      \* bound: failed system calls
    MaxStrangers    \* bound: processes that reuse the parent's pid

Terminal == {"SIGHUP", "SIGINT", "SIGTERM"}

ASSUME StartupAssumption ==
    /\ PipeCapacity \in Nat \ {0} /\ ChildCodes \subseteq 0 .. 255
    /\ ChildSignals \subseteq 1 .. 127
    /\ Configs \subseteq [mode : {"run", "observe"}, on_parent_exit : {"Terminate", "Detach"},
                          started_by : {"client", "shell", "launchd"},
                          inherited : [Terminal -> {"default", "ignored"}], raw : RawOptions]

VARIABLES
    config,    \* the command line, who started the supervisor, inherited dispositions
    monitor,   \* signal dispositions and the TerminalSignalMonitor's own state
    kernel,    \* who has the parent's pid, and the supervisor's getppid
    watch,     \* ParentWatchState
    sup,       \* the supervisor: its place, outcome, journal and report
    worker,    \* the command
    holders,   \* who has the write end of the readiness pipe open
    status,    \* how the supervisor ended
    client,    \* the Python client
    budget

vars == <<config, monitor, kernel, watch, sup, worker, holders, status, client, budget>>

Init ==
    /\ config \in Configs
    /\ monitor = [disposition |-> config.inherited, previous |-> [s \in Terminal |-> None],
                  published |-> FALSE, pipe |-> << >>, drained |-> << >>, caught |-> << >>]
    /\ kernel = IF config.started_by = "launchd"
                THEN [who |-> None, exited |-> FALSE, ppid |-> "launchd"]
                ELSE [who |-> "parent", exited |-> FALSE, ppid |-> "P"]
    /\ watch = [parent |-> None, watch |-> None, exited_at_ms |-> None]
    /\ sup = [pc |-> "parse", todo |-> << >>, ppid |-> None, outcome |-> None, report |-> None]
    /\ worker = "none" /\ status = None
    /\ holders = IF config.started_by = "client" THEN {"supervisor"} ELSE {}
    /\ client = IF config.started_by = "client" THEN "waiting" ELSE "absent"
    /\ budget = [signals |-> MaxSignals, faults |-> MaxFaults, strangers |-> MaxStrangers]

ByClient == config.started_by = "client"
Alive == status = None
At(place) == Alive /\ sup.pc = place
Goto(place) == sup' = [sup EXCEPT !.pc = place]
Spend(what) == budget[what] > 0 /\ budget' = [budget EXCEPT ![what] = @ - 1]

Result(kind) == [kind |-> kind, code |-> None]
\* supervisor_outcome: the two ways a command ends by itself.
ChildOutcomes == [kind : {"ChildExited"}, code : ChildCodes]
                     \cup [kind : {"ChildSignaled"}, code : ChildSignals]

Outcomes == [kind : {"InvalidConfiguration", "SupervisorFailure", "PartialArtifactFailure",
                     "PolicyIntervention", "LaunchNotExecutable", "LaunchNotFound"}, code : {None}]
                \cup ChildOutcomes
Statuses == [how : Terminal \cup {"exit", "SIGKILL"}, code : 0 .. 255 \cup {None}]
Dispositions == {"default", "ignored", "handler"}
Processes == {"parent", "stranger", "launchd"}
Watches == {"Active", "Detach", "ParentIsLaunchd", "HangupIgnored", "ParentUnobservable"}

ASSUME NoneAssumption ==
    None \notin Outcomes \cup Statuses \cup Dispositions \cup Processes \cup Watches

\* Go on to another place with this result, at the cost of a failed call.
Fails(place, kind) ==
    Spend("faults") /\ sup' = [sup EXCEPT !.pc = place, !.outcome = Result(kind)]

-----------------------------------------------------------------------------
(* Before the journal exists: a failure returns its outcome and no report. *)

options == parse_cli(config.raw)

\* parse_cli: a refused command line goes no further than main.
Parse ==
    /\ At("parse")
    /\ sup' = IF accepted(config.mode, config.raw) THEN [sup EXCEPT !.pc = "client_ready"]
              ELSE [sup EXCEPT !.pc = "exit", !.outcome = Result("InvalidConfiguration")]
    /\ UNCHANGED <<config, monitor, kernel, watch, worker, holders, status, client, budget>>

\* ClientReady::take
client_ready ==
    /\ At("client_ready")
    /\ \/ Goto("configure") /\ UNCHANGED budget
       \/ ByClient /\ Fails("return", "InvalidConfiguration")
    /\ UNCHANGED <<config, monitor, kernel, watch, worker, holders, status, client>>

\* The policy machine and the sampler check what they are given; a run first
\* makes its checkpoint channel.
configure ==
    /\ At("configure")
    /\ \/ /\ sup' = IF configured(config.mode, options) THEN [sup EXCEPT !.pc = "hangup"]
                    ELSE [sup EXCEPT !.pc = "return", !.outcome = Result("InvalidConfiguration")]
          /\ UNCHANGED budget
       \/ config.mode = "run" /\ Fails("return", "SupervisorFailure")
    /\ UNCHANGED <<config, monitor, kernel, watch, worker, holders, status, client>>

hangup_is_ignored == monitor.disposition["SIGHUP"] = "ignored"
wants_detach == config.on_parent_exit = "Detach"

\* parent_watch_state: the query of the SIGHUP disposition may fail.
parent_watch_state ==
    /\ At("hangup")
    /\ \/ Goto("ppid") /\ UNCHANGED <<watch, budget>>
       \/ /\ Spend("faults") /\ Goto("initialize")
          /\ watch' = [watch EXCEPT !.watch = "ParentUnobservable"]
    /\ UNCHANGED <<config, monitor, kernel, worker, holders, status, client>>

\* Mutant: a nohup launcher is never watched, whatever the option.
unwatched_despite_detach(ppid) ==
    IF ppid = "launchd" /\ ~wants_detach THEN "ParentIsLaunchd"
    ELSE IF hangup_is_ignored THEN "HangupIgnored" ELSE None

\* establish_parent_watch: the reasons not to watch.
unwatched(ppid) ==
    IF ppid = "launchd" /\ ~wants_detach THEN "ParentIsLaunchd"
    ELSE IF hangup_is_ignored /\ ~wants_detach THEN "HangupIgnored" ELSE None

ReadParentPid ==
    /\ At("ppid")
    /\ sup' = [sup EXCEPT !.ppid = kernel.ppid,
                          !.pc = IF unwatched(kernel.ppid) = None THEN "bind" ELSE "initialize"]
    /\ watch' = [watch EXCEPT !.watch = unwatched(kernel.ppid)]
    /\ UNCHANGED <<config, monitor, kernel, worker, holders, status, client, budget>>

\* inspect: whoever has the pid now.
Bindable == IF sup.ppid = "launchd" THEN "launchd" ELSE IF kernel.exited THEN None ELSE kernel.who

establish_parent_watch ==
    /\ At("bind")
    /\ \/ /\ Bindable # None
          /\ watch' = [watch EXCEPT !.parent = Bindable,
                                    !.watch = IF wants_detach THEN "Detach" ELSE "Active"]
          /\ UNCHANGED budget
       \/ /\ IF Bindable \in {None, "launchd"} THEN UNCHANGED budget ELSE Spend("faults")
          /\ watch' = [watch EXCEPT !.watch = "ParentUnobservable"]
    /\ Goto("initialize")
    /\ UNCHANGED <<config, monitor, kernel, worker, holders, status, client>>

\* Mutant: the handlers are in place before they have a pipe to write to.
InstallOrder_handlers_first == <<"SIGHUP", "SIGINT", "SIGTERM", "publish">>

\* TerminalSignalMonitor::install
InstallOrder == <<"publish", "SIGHUP", "SIGINT", "SIGTERM">>

\* initialize: the probe and the run id, then the journal and its synced header.
initialize ==
    /\ At("initialize")
    /\ \/ /\ sup' = [sup EXCEPT !.pc = "install", !.todo = InstallOrder]
          /\ UNCHANGED budget
       \/ Fails("return", "SupervisorFailure")
       \/ Fails("return", "PartialArtifactFailure")
    /\ UNCHANGED <<config, monitor, kernel, watch, worker, holders, status, client>>

-----------------------------------------------------------------------------
(* The terminal signal monitor.                                            *)

\* One sigaction, or the descriptor made public.  A SIGHUP that is ignored stays so.
installed(step) ==
    IF step = "publish" THEN [monitor EXCEPT !.published = TRUE]
    ELSE IF step = "SIGHUP" /\ hangup_is_ignored THEN monitor
    ELSE [monitor EXCEPT !.previous[step] = monitor.disposition[step],
                         !.disposition[step] = "handler"]

\* Mutant: SIGHUP is put back though it was never replaced.
undone_unconditional(step) ==
    IF step = "unpublish" THEN [monitor EXCEPT !.published = FALSE]
    ELSE [monitor EXCEPT !.disposition[step] = monitor.previous[step],
                         !.previous[step] = None]

\* Only what was replaced is put back.
undone(step) ==
    IF step = "unpublish" THEN [monitor EXCEPT !.published = FALSE]
    ELSE IF monitor.previous[step] = None THEN monitor
    ELSE [monitor EXCEPT !.disposition[step] = monitor.previous[step],
                         !.previous[step] = None]

\* Mutant: a failed install leaves SIGHUP as it is.
RollbackOrder_without_hangup == <<"SIGINT", "unpublish">>

RollbackOrder == <<"SIGINT", "SIGHUP", "unpublish">>
DropOrder == <<"SIGINT", "SIGTERM", "SIGHUP", "unpublish">>

install ==
    /\ At("install")
    /\ \/ /\ monitor' = installed(Head(sup.todo))
          /\ sup' = [sup EXCEPT !.todo = Tail(@),
                                !.pc = IF Len(sup.todo) = 1 THEN "launch" ELSE @]
          /\ UNCHANGED budget
       \/ /\ Spend("faults")
          /\ sup' = [sup EXCEPT !.pc = "rollback", !.outcome = Result("SupervisorFailure"),
                                !.todo = RollbackOrder]
          /\ UNCHANGED monitor
    /\ UNCHANGED <<config, kernel, watch, worker, holders, status, client>>

\* The rollback of a failed install, and the Drop of an installed monitor.
restore ==
    /\ At("rollback") \/ At("drop")
    /\ monitor' = undone(Head(sup.todo))
    /\ sup' = [sup EXCEPT !.todo = Tail(@),
                          !.pc = IF Len(sup.todo) > 1 THEN @
                                 ELSE IF @ = "rollback" THEN "finalize" ELSE "return"]
    /\ UNCHANGED <<config, kernel, watch, worker, holders, status, client, budget>>

\* terminal_signal_handler: one byte into a nonblocking pipe.
terminal_signal_handler(signal) ==
    [monitor EXCEPT !.caught = Append(@, signal),
                    !.pipe = IF monitor.published /\ Len(@) < PipeCapacity
                             THEN Append(@, signal) ELSE @]

Receive(signal) ==
    /\ Alive
    /\ CASE monitor.disposition[signal] = "default" ->
              /\ status' = [how |-> signal, code |-> None]
              /\ holders' = holders \ {"supervisor"}
              /\ UNCHANGED monitor
         [] monitor.disposition[signal] = "ignored" -> UNCHANGED <<status, holders, monitor>>
         [] monitor.disposition[signal] = "handler" ->
              monitor' = terminal_signal_handler(signal) /\ UNCHANGED <<status, holders>>

\* A terminal, a shell or an operator sends a signal.
SignalArrives(signal) ==
    /\ Spend("signals") /\ monitor.disposition[signal] # "ignored" /\ Receive(signal)
    /\ UNCHANGED <<config, kernel, watch, sup, worker, client>>

-----------------------------------------------------------------------------
(* prepare_run_worker, prepare_observe_worker and launch_inner.            *)

\* Preflight, then fork: the child has a copy of every descriptor.
fork ==
    /\ At("launch")
    /\ \/ /\ Goto("spawn") /\ worker' = "forked"
          /\ holders' = IF "supervisor" \in holders THEN holders \cup {"worker"} ELSE holders
          /\ UNCHANGED budget
       \/ Fails("finalize", "InvalidConfiguration") /\ UNCHANGED <<worker, holders>>
    /\ UNCHANGED <<config, monitor, kernel, watch, status, client>>

\* Mutant: the readiness descriptor stays open in the command.
kept_by_exec_inherited == holders

\* The readiness descriptor is close-on-exec.
kept_by_exec == holders \ {"worker"}

ChildExecs ==
    /\ worker = "forked" /\ worker' = "running" /\ holders' = kept_by_exec
    /\ UNCHANGED <<config, monitor, kernel, watch, sup, status, client, budget>>

ChildExecFails ==
    /\ worker = "forked" /\ Spend("faults")
    /\ worker' = "none" /\ holders' = holders \ {"worker"}
    /\ UNCHANGED <<config, monitor, kernel, watch, sup, status, client>>

WorkerExits ==
    /\ worker = "running" /\ worker' = "exited"
    /\ UNCHANGED <<config, monitor, kernel, watch, sup, holders, status, client, budget>>

\* spawn returns when the child has executed the command or failed to: launch_outcome.
spawn ==
    /\ At("spawn") /\ worker # "forked"
    /\ \/ worker # "none" /\ Goto("validate")
       \/ /\ worker = "none"
          /\ \E kind \in {"LaunchNotFound", "LaunchNotExecutable", "SupervisorFailure"} :
                 sup' = [sup EXCEPT !.pc = "finalize", !.outcome = Result(kind)]
    /\ UNCHANGED <<config, monitor, kernel, watch, worker, holders, status, client, budget>>

\* A step on the launched root failed: the dropped process kills the group and reaps it.
StepFails == Fails("finalize", "SupervisorFailure") /\ worker' = "exited"
StepSucceeds(next) == Goto(next) /\ UNCHANGED <<worker, budget>>

\* early_exit_or_failure: a root that has exited was not the step's failure.
early_exit_or_failure ==
    \/ worker = "running" /\ StepFails
    \/ /\ worker = "exited"
       /\ \E result \in ChildOutcomes :
              sup' = [sup EXCEPT !.pc = "finalize", !.outcome = result]
       /\ UNCHANGED <<worker, budget>>

validate_group ==
    /\ At("validate")
    /\ StepSucceeds("inspect") \/ StepFails
    /\ UNCHANGED <<config, monitor, kernel, watch, holders, status, client>>

inspect_root ==
    /\ At("inspect")
    /\ \/ StepSucceeds(IF config.mode = "run" THEN "negotiate" ELSE "notify")
       \/ early_exit_or_failure
    /\ UNCHANGED <<config, monitor, kernel, watch, holders, status, client>>

negotiate_checkpoint_endpoint ==
    /\ At("negotiate")
    /\ \/ worker = "running" /\ StepSucceeds("notify")
       \/ early_exit_or_failure
    /\ UNCHANGED <<config, monitor, kernel, watch, holders, status, client>>

\* ready.notify, and the start of the loop
notify ==
    /\ At("notify")
    /\ holders' = holders \ {"supervisor"}
    /\ Goto("loop")
    /\ UNCHANGED <<config, monitor, kernel, watch, worker, status, client, budget>>

-----------------------------------------------------------------------------
(* The loop, as far as it concerns the parent and the signals.             *)

\* TerminalSignalMonitor::poll
poll ==
    /\ At("loop") /\ monitor.pipe # << >>
    /\ monitor' = [monitor EXCEPT !.drained = @ \o monitor.pipe, !.pipe = << >>]
    /\ UNCHANGED <<config, kernel, watch, sup, worker, holders, status, client, budget>>

PidOf(identity) == IF identity = "launchd" THEN "launchd" ELSE "P"

\* Mutant: a changed getppid is not asked for.
parent_pid_changed_unasked == TRUE

parent_pid_changed == kernel.ppid # PidOf(watch.parent)

\* parent_has_exited: the cheap test, then the exact identity.
CheckParent ==
    /\ At("loop") /\ watch.parent # None /\ watch.exited_at_ms = None
    /\ parent_pid_changed
    /\ Goto("confirm")
    /\ UNCHANGED <<config, monitor, kernel, watch, worker, holders, status, client, budget>>

\* Mutant: any process with the parent's pid will do.
still_alive_by_pid == kernel.who # None /\ ~kernel.exited

still_alive == kernel.who = watch.parent /\ ~kernel.exited

ConfirmParent ==
    /\ At("confirm")
    /\ \/ still_alive /\ UNCHANGED <<watch, budget>>
       \/ /\ IF still_alive THEN Spend("faults") ELSE UNCHANGED budget
          /\ watch' = [watch EXCEPT !.exited_at_ms = 0]
    /\ Goto("loop")
    /\ UNCHANGED <<config, monitor, kernel, worker, holders, status, client>>

\* A signal to forward, or a parent to follow, makes the loop end the command.
StopWorker ==
    /\ At("loop") /\ worker = "running"
    /\ monitor.drained # << >> \/ (watch.watch = "Active" /\ watch.exited_at_ms # None)
    /\ worker' = "exited"
    /\ UNCHANGED <<config, monitor, kernel, watch, sup, holders, status, client, budget>>

LoopEnds ==
    /\ At("loop") /\ worker = "exited"
    /\ \E result \in ChildOutcomes \cup {Result("PolicyIntervention")} :
           sup' = [sup EXCEPT !.pc = "finish", !.outcome = result]
    /\ UNCHANGED <<config, monitor, kernel, watch, worker, holders, status, client, budget>>

\* The loop fails; an observed command is left running, an enforced one is not.
LoopFails ==
    /\ At("loop") /\ worker = "running"
    /\ Fails("finish", "SupervisorFailure")
    /\ worker' = IF config.mode = "observe" THEN "left" ELSE worker
    /\ UNCHANGED <<config, monitor, kernel, watch, holders, status, client>>

-----------------------------------------------------------------------------
(* The end: the report, then the drops in the order of the code.           *)

\* Mutant: a command that was not found is reported as a supervisor failure.
terminal_kind_merged(result) ==
    IF result.kind \in {"LaunchNotExecutable", "InvalidConfiguration", "ChildExited", "ChildSignaled"}
    THEN result
    ELSE Result("SupervisorFailure")

\* finalize_without_worker
terminal_kind(result) ==
    IF result.kind \in {"LaunchNotFound", "LaunchNotExecutable", "InvalidConfiguration",
                        "ChildExited", "ChildSignaled"} THEN result
    ELSE Result("SupervisorFailure")

\* A failure may come before or after the report has its name.
Writes(kind, next) ==
    \/ sup' = [sup EXCEPT !.pc = next, !.report = kind] /\ UNCHANGED budget
    \/ /\ Spend("faults")
       /\ \E written \in {None, kind} :
              sup' = [sup EXCEPT !.pc = next, !.report = written,
                                 !.outcome = Result("PartialArtifactFailure")]

finalize_without_worker ==
    /\ At("finalize")
    /\ Writes(terminal_kind(sup.outcome), IF monitor.published THEN "unwind" ELSE "return")
    /\ UNCHANGED <<config, monitor, kernel, watch, worker, holders, status, client>>

finish_journal ==
    /\ At("finish")
    /\ Writes(sup.outcome, "unwind")
    /\ UNCHANGED <<config, monitor, kernel, watch, worker, holders, status, client>>

\* Mutant: the monitor is dropped while the command may still run.
drop_process_late(process) == process

\* The process is dropped before the monitor: its group is killed and the root reaped.
drop_process(process) == IF process = "running" THEN "exited" ELSE process

unwind ==
    /\ At("unwind")
    /\ worker' = drop_process(worker)
    /\ sup' = [sup EXCEPT !.pc = "drop", !.todo = DropOrder]
    /\ UNCHANGED <<config, monitor, kernel, watch, holders, status, client, budget>>

\* ClientReady is dropped last; it may have been closed long before.
return ==
    /\ At("return")
    /\ holders' = holders \ {"supervisor"}
    /\ Goto("exit")
    /\ UNCHANGED <<config, monitor, kernel, watch, worker, status, client, budget>>

\* SupervisorOutcome::exit_code
exit_code(result) ==
    CASE result.kind = "ChildExited" -> result.code
      [] result.kind = "ChildSignaled" -> 128 + result.code
      [] result.kind = "InvalidConfiguration" -> 64
      [] result.kind = "SupervisorFailure" -> 70
      [] result.kind = "PartialArtifactFailure" -> 74
      [] result.kind = "PolicyIntervention" -> 75
      [] result.kind = "LaunchNotExecutable" -> 126
      [] result.kind = "LaunchNotFound" -> 127

main ==
    /\ At("exit")
    /\ status' = [how |-> "exit", code |-> exit_code(sup.outcome)]
    /\ holders' = holders \ {"supervisor"}
    /\ UNCHANGED <<config, monitor, kernel, watch, sup, worker, client, budget>>

-----------------------------------------------------------------------------
(* The parent's pid in the kernel, as long as the supervisor can look.      *)

\* Its children are reparented at once, its pid is free when it is reaped.
ParentExits ==
    /\ Alive /\ kernel.who = "parent" /\ ~kernel.exited
    /\ kernel' = [kernel EXCEPT !.exited = TRUE, !.ppid = "launchd"]
    /\ client' = IF ByClient THEN "gone" ELSE client
    /\ UNCHANGED <<config, monitor, watch, sup, worker, holders, status, budget>>

ParentIsReaped ==
    /\ Alive /\ kernel.who # None /\ kernel.exited
    /\ kernel' = [kernel EXCEPT !.who = None, !.exited = FALSE]
    /\ UNCHANGED <<config, monitor, watch, sup, worker, holders, status, client, budget>>

PidIsReused ==
    /\ Alive /\ kernel.who = None /\ kernel.ppid = "launchd" /\ config.started_by # "launchd"
    /\ Spend("strangers")
    /\ kernel' = [kernel EXCEPT !.who = "stranger"]
    /\ UNCHANGED <<config, monitor, watch, sup, worker, holders, status, client>>

-----------------------------------------------------------------------------
(* The Python client.                                                      *)

\* _await_native_ready: end of file on the readiness pipe.
ClientReads ==
    /\ client = "waiting" /\ holders = {}
    /\ client' = "started"
    /\ UNCHANGED <<config, monitor, kernel, watch, sup, worker, holders, status, budget>>

\* _stop_unready_supervisor after five seconds: SIGINT ...
ClientTimesOut ==
    /\ client = "waiting"
    /\ \/ Alive /\ Receive("SIGINT") /\ client' = "interrupted"
       \/ ~Alive /\ client' = "failed" /\ UNCHANGED <<monitor, holders, status>>
    /\ UNCHANGED <<config, kernel, watch, sup, worker, budget>>

\* Mutant: the client gives up after the second.
ClientKills_gives_up ==
    /\ client = "interrupted"
    /\ client' = "failed"
    /\ UNCHANGED <<config, monitor, kernel, watch, sup, worker, holders, status, budget>>

\* ... and, one second later, SIGKILL.
ClientKills ==
    /\ client = "interrupted"
    /\ IF Alive THEN status' = [how |-> "SIGKILL", code |-> None] ELSE UNCHANGED status
    /\ holders' = holders \ {"supervisor"}
    /\ client' = "failed"
    /\ UNCHANGED <<config, monitor, kernel, watch, sup, worker, budget>>

\* GuardProcess.cancel
cancel ==
    /\ client = "started" /\ Alive
    /\ Spend("signals") /\ Receive("SIGINT")
    /\ UNCHANGED <<config, kernel, watch, sup, worker, client>>

\* _expected_exit_code
expected_exit_code(kind) ==
    CASE kind.kind = "ChildExited" -> kind.code
      [] kind.kind = "ChildSignaled" -> 128 + kind.code
      [] kind.kind = "InvalidConfiguration" -> 64
      [] kind.kind = "SupervisorFailure" -> 70
      [] kind.kind = "PartialArtifactFailure" -> 74
      [] kind.kind = "PolicyIntervention" -> 75
      [] kind.kind = "LaunchNotExecutable" -> 126
      [] kind.kind = "LaunchNotFound" -> 127

\* GuardProcess._finish
wait ==
    /\ client = "started" /\ ~Alive
    /\ client' = IF sup.report = None THEN "MissingReportError"
                 ELSE IF status.how = "exit" /\ status.code = expected_exit_code(sup.report)
                 THEN "RunResult" ELSE "ResultMismatchError"
    /\ UNCHANGED <<config, monitor, kernel, watch, sup, worker, holders, status, budget>>

-----------------------------------------------------------------------------
Supervisor ==
    \/ Parse \/ client_ready \/ configure \/ parent_watch_state \/ ReadParentPid
    \/ establish_parent_watch \/ initialize \/ install \/ restore
    \/ fork \/ spawn \/ validate_group \/ inspect_root \/ negotiate_checkpoint_endpoint \/ notify
    \/ poll \/ CheckParent \/ ConfirmParent \/ StopWorker \/ LoopEnds \/ LoopFails
    \/ finalize_without_worker \/ finish_journal \/ unwind \/ return \/ main

World ==
    \/ \E signal \in Terminal : SignalArrives(signal)
    \/ ChildExecs \/ ChildExecFails \/ WorkerExits
    \/ ParentExits \/ ParentIsReaped \/ PidIsReused
    \/ ClientReads \/ ClientTimesOut \/ ClientKills \/ cancel \/ wait

Next == Supervisor \/ World

Spec == Init /\ [][Next]_vars

\* The loop asks for the parent in every round.
FairSpec == Spec /\ WF_vars(CheckParent) /\ WF_vars(ConfirmParent)

-----------------------------------------------------------------------------
(* Properties.                                                             *)

Places == {"parse", "client_ready", "configure", "hangup", "ppid", "bind", "initialize", "install",
           "rollback", "launch", "spawn", "validate", "inspect", "negotiate", "notify", "loop",
           "confirm", "finish", "finalize", "unwind", "drop", "return", "exit"}

TypeOK ==
    /\ sup.pc \in Places
    /\ monitor.disposition \in [Terminal -> Dispositions]
    /\ Len(monitor.pipe) <= PipeCapacity
    /\ worker \in {"none", "forked", "running", "exited", "left"}
    /\ holders \subseteq {"supervisor", "worker"}

\* A terminal signal that ends the supervisor by its default action never leaves
\* a command behind, whenever it arrives: the handlers are in place before the
\* launch, and the process is dropped before the monitor.
SignalNeverOrphans ==
    status # None /\ status.how \in Terminal => worker \in {"none", "exited", "left"}

\* On its way out, by every path, the supervisor has put back the dispositions
\* it was started with; and a SIGHUP that nohup ignores stays ignored throughout.
DispositionsRestored ==
    /\ sup.pc \in {"return", "exit"} => monitor.disposition = config.inherited
    /\ config.inherited["SIGHUP"] = "ignored" => hangup_is_ignored

\* While a command may run, the first signals caught are in the pipe or taken, in
\* their order: only one that finds the pipe full is lost, and then a whole pipe
\* of earlier ones, more than the loop acts on, is ahead of it.
CaughtSignalsAreKept ==
    sup.pc \in {"launch", "spawn", "validate", "inspect", "negotiate", "notify", "loop", "confirm"} =>
        LET kept == monitor.drained \o monitor.pipe
            n == IF Len(monitor.caught) < PipeCapacity THEN Len(monitor.caught) ELSE PipeCapacity
        IN Len(kept) >= n /\ IsPrefix(SubSeq(monitor.caught, 1, n), kept)

\* The client's wait ends when the supervisor is ready or gone: nobody, the
\* command least of all, keeps the readiness pipe open.
ReadinessIsSeen ==
    sup.pc \in {"loop", "confirm", "finish"} \/ ~Alive => holders \subseteq {"worker"}
                                                             /\ (worker # "forked" => holders = {})

\* A start() that raised leaves no supervisor behind.  It is no proof of a clean
\* slate (docs/PYTHON_API.md:109): a command is left running by the SIGKILL of a
\* supervisor that the client's SIGINT did not end within the second, and by an
\* observation that ends without its command; and by nothing else.
FailedStartLeavesNoSupervisor ==
    client = "failed" => ~Alive /\ (worker \in {"forked", "running"} => status.how = "SIGKILL")

\* What the client returns as the result is the outcome the supervisor ended with,
\* unless the command's own code is that of a report that could not be finished;
\* and it raises a mismatch only for a supervisor that was killed or could not
\* finish its report.
ClientHearsTheTruth ==
    /\ client = "RunResult" => sup.report = sup.outcome \/ expected_exit_code(sup.report) = 74
    /\ client = "ResultMismatchError" =>
           status.how # "exit" \/ sup.outcome.kind = "PartialArtifactFailure"

\* A command line that parse_cli accepts is refused by none of the later checks,
\* at either end of the range of limits: not by the policy machine or the sampler
\* before the launch, and not by the validation of the report after the run.
AcceptedIsUsable ==
    sup.pc \notin {"parse", "exit"} =>
        configured(config.mode, options) /\ configuration_valid(configuration_of(config.mode, options))

\* The exit of a parent is never made up, whatever fails and whoever gets its pid.
NoFalseParentExit == watch.exited_at_ms # None => kernel.ppid = "launchd"

\* The parent watch always satisfies the rules the report is validated against.
WatchIsValid ==
    watch.watch # None => parent_watch_valid(watch.watch, config.on_parent_exit, watch.exited_at_ms)

\* The exit of a parent that was bound is noticed while the loop runs, even when
\* another process has its pid by then.
ParentExitIsNoticed ==
    (sup.pc \in {"loop", "confirm"} /\ watch.parent = "parent" /\ kernel.ppid = "launchd")
        ~> (watch.exited_at_ms # None \/ sup.pc \notin {"loop", "confirm"} \/ ~Alive)

\* Terminal signals are in safe hands from the first step to the last: none ends
\* the supervisor over a running command, none that was caught is lost while a
\* command may run, and the inherited dispositions are put back.
SignalsAreSafe == TypeOK /\ SignalNeverOrphans /\ CaughtSignalsAreKept /\ DispositionsRestored

\* The client is not misled: its wait for readiness ends, a start that failed has
\* left no supervisor, and a command only where it killed the supervisor (or where
\* an observation leaves its command alone), and the result it returns is the one
\* there was, unless the command's own code says that a report was not finished.
ClientIsNotMisled == ReadinessIsSeen /\ FailedStartLeavesNoSupervisor /\ ClientHearsTheTruth

\* The parent watch tells the truth: no exit is made up, and what it holds passes
\* the validation of the report.
ParentWatchIsTrue == NoFalseParentExit /\ WatchIsValid
=============================================================================
