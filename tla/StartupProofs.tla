--------------------------- MODULE StartupProofs ---------------------------
(***************************************************************************)
(* Theorems about the start and the end of the supervisor, for every set   *)
(* of command lines, every capacity of the signal pipe and every number of *)
(* signals, faults and reused pids.  The inductive invariant has one part  *)
(* per concern, each proved by a lemma over the actions that disturb it.   *)
(***************************************************************************)
EXTENDS Startup, SequenceTheorems, TLAPS

-----------------------------------------------------------------------------
(* Configuration: whatever command line parse_cli accepts, for every width *)
(* of u64, no later check refuses what is derived from it.                 *)

\* What one quantity parses to: None, or a positive number of the width.
LEMMA ParsedQuantity ==
    ASSUME NEW q \in Quantity
    PROVE  parse_quantity(q) \in 1 .. U64_MAX \cup {None}
<1>1. q.digits \in Nat /\ q.unit \in Nat /\ q.unit >= 1
    BY DEF Quantity
<1>2. CASE q.digits \in 1 .. U64_MAX
    <2>1. q.digits * q.unit \in Nat
        BY <1>1
    <2>2. q.digits * q.unit >= 1
        <3>1. q.digits * q.unit >= q.digits * 1
            BY <1>1, <1>2, Z3
        <3> QED
            BY <1>1, <1>2, <2>1, <3>1
    <2> QED
        BY <1>2, <2>1, <2>2, ConfigurationAssumption DEF parse_quantity, parse_positive_integer
<1>3. CASE q.digits \notin 1 .. U64_MAX
    BY <1>3 DEF parse_quantity, parse_positive_integer
<1> QED
    BY <1>2, <1>3

\* The band around a limit: at least one byte, at most the limit less one.
LEMMA BandStep ==
    ASSUME NEW limit \in Nat, limit >= 2
    PROVE  /\ policy_band_step(limit) \in 1 .. limit - 1
           /\ policy_band_step(limit) + policy_band_step(limit) <= limit
BY DEF policy_band_step

\* The four thresholds of an accepted limit are in order, and the emergency
\* threshold is not cut off at the width.
LEMMA ThresholdsInOrder ==
    ASSUME NEW limit \in Nat, accepts_limit(limit)
    PROVE  LET step == policy_band_step(limit)
           IN /\ saturating_sub(saturating_sub(limit, step), step) < saturating_sub(limit, step)
              /\ saturating_sub(limit, step) < limit
              /\ limit < saturating_add(limit, step)
              /\ saturating_add(limit, step) = limit + step
<1> DEFINE step == policy_band_step(limit)
<1>1. limit >= 2 /\ limit + step <= U64_MAX
    BY DEF accepts_limit
<1>2. step \in 1 .. limit - 1 /\ step + step <= limit
    BY <1>1, BandStep
<1> HIDE DEF step
<1>3. /\ saturating_sub(limit, step) = limit - step
      /\ saturating_add(limit, step) = limit + step
    BY <1>1, <1>2, ConfigurationAssumption DEF saturating_sub, saturating_add
<1>4. saturating_sub(limit - step, step) = limit - step - step
    BY <1>1, <1>2 DEF saturating_sub
<1>5. /\ limit - step - step < limit - step
      /\ limit - step < limit
      /\ limit < limit + step
    BY <1>2
<1> QED
    BY <1>3, <1>4, <1>5 DEF step

\* The sampler's bounds for an accepted interval are positive and ordered.
LEMMA QualityBounds ==
    ASSUME NEW interval \in MIN_SAMPLE_INTERVAL .. MAX_SAMPLE_INTERVAL
    PROVE  /\ interval > 0
           /\ quality_window(interval) > 0
           /\ quality_age(interval) > 0
           /\ quality_window(interval) <= quality_age(interval)
BY DEF MIN_SAMPLE_INTERVAL, MAX_SAMPLE_INTERVAL, MIN_SAMPLE_WINDOW, MIN_SAMPLE_AGE,
       quality_window, quality_age, at_least

\* The optional durations are left out or positive.
LEMMA OptionalDurations ==
    ASSUME NEW raw \in RawOptions, accepted("run", raw)
    PROVE  /\ parse_cli(raw).wall_time # 0
           /\ parse_cli(raw).checkpoint_timeout # 0
<1>1. None # 0
    BY ConfigurationAssumption
<1>2. raw.wall_time # None => parse_wall_time(raw.wall_time) # 0
    <2> SUFFICES ASSUME raw.wall_time # None PROVE parse_wall_time(raw.wall_time) # 0
        OBVIOUS
    <2>1. raw.wall_time \in Quantity
        BY DEF RawOptions
    <2>2. parse_quantity(raw.wall_time) # 0
        BY <1>1, <2>1, ParsedQuantity
    <2> QED
        BY <1>1, <2>2 DEF parse_wall_time
<1>3. raw.checkpoint_timeout # None => parse_checkpoint_timeout(raw.checkpoint_timeout) # 0
    <2> SUFFICES ASSUME raw.checkpoint_timeout # None
                 PROVE  parse_checkpoint_timeout(raw.checkpoint_timeout) # 0
        OBVIOUS
    <2>1. raw.checkpoint_timeout \in Quantity
        BY DEF RawOptions
    <2>2. parse_quantity(raw.checkpoint_timeout) # 0
        BY <1>1, <2>1, ParsedQuantity
    <2> QED
        BY <1>1, <2>2 DEF parse_checkpoint_timeout
<1> QED
    BY <1>1, <1>2, <1>3 DEF parse_cli

\* A run whose command line parse_cli accepts has a policy that
\* PolicyMachine::valid_config accepts, a sampler configuration that
\* SamplingConfig::new accepts and a report configuration that
\* validate_configuration accepts.
THEOREM AcceptedRunIsUsable ==
    ASSUME NEW raw \in RawOptions, accepted("run", raw)
    PROVE  /\ configured("run", parse_cli(raw))
           /\ configuration_valid(configuration_of("run", parse_cli(raw)))
<1> DEFINE o == parse_cli(raw)
           limit == parse_quantity(raw.max_footprint)
           interval == parse_quantity(raw.sample_interval)
<1>1. /\ o.max_footprint_bytes = limit
      /\ o.sample_interval = interval
    BY DEF parse_cli
<1>2. limit \in Nat /\ accepts_limit(limit)
    <2>1. raw.max_footprint \in Quantity
        BY DEF RawOptions
    <2>2. accepts_limit(limit)
        BY DEF accepted
    <2> QED
        BY <2>1, <2>2, ParsedQuantity, ConfigurationAssumption DEF accepts_limit
<1>3. interval \in MIN_SAMPLE_INTERVAL .. MAX_SAMPLE_INTERVAL
    BY DEF accepted, normalized
<1>4. o.wall_time # 0 /\ o.checkpoint_timeout # 0
    BY OptionalDurations
<1> HIDE DEF o, limit, interval
<1> DEFINE c == run_policy_config(o)
<1>5. /\ c.limit_bytes = limit
      /\ c.recovery_bytes < c.warning_bytes
      /\ c.warning_bytes < c.limit_bytes
      /\ c.limit_bytes < c.emergency_bytes
    BY <1>1, <1>2, ThresholdsInOrder DEF run_policy_config
<1>6. /\ c.max_sample_age = quality_age(interval)
      /\ c.max_sample_window = quality_window(interval)
      /\ c.required_breach_samples = 2 /\ c.max_missing_samples = 3
      /\ c.term_grace = 1000 /\ c.wall_time = o.wall_time
      /\ c.checkpoint_timeout # 0
    BY <1>1, <1>4 DEF run_policy_config, REQUIRED_BREACH_SAMPLES, MAX_MISSING_SAMPLES, TERM_GRACE,
                      DEFAULT_CHECKPOINT_TIMEOUT
<1>7. /\ interval > 0 /\ quality_window(interval) > 0 /\ quality_age(interval) > 0
      /\ quality_window(interval) <= quality_age(interval)
    BY <1>3, QualityBounds
<1>8. configured("run", o)
    BY <1>1, <1>3, <1>4, <1>5, <1>6, <1>7 DEF configured, sampling_config_valid, Policy!valid_config
<1>9. configuration_valid(configuration_of("run", o))
    BY <1>1, <1>4, <1>5, <1>6, <1>7 DEF configuration_of, run_configuration, configuration_valid
<1> QED
    BY <1>8, <1>9 DEF o

\* The same of an observed command: its sampler and its report configuration.
THEOREM AcceptedObserveIsUsable ==
    ASSUME NEW raw \in RawOptions, accepted("observe", raw)
    PROVE  /\ configured("observe", parse_cli(raw))
           /\ configuration_valid(configuration_of("observe", parse_cli(raw)))
<1> DEFINE o == parse_cli(raw)
           interval == parse_quantity(raw.sample_interval)
<1>1. o.sample_interval = interval
    BY DEF parse_cli
<1>2. interval \in MIN_SAMPLE_INTERVAL .. MAX_SAMPLE_INTERVAL
    BY DEF accepted, normalized
<1> HIDE DEF o, interval
<1>3. /\ interval > 0 /\ quality_window(interval) > 0 /\ quality_age(interval) > 0
      /\ quality_window(interval) <= quality_age(interval)
    BY <1>2, QualityBounds
<1>4. configured("observe", o)
    BY <1>1, <1>2, <1>3 DEF configured, sampling_config_valid
<1>5. configuration_valid(configuration_of("observe", o))
    BY <1>1, <1>3, ConfigurationAssumption
    DEF configuration_of, observe_configuration, configuration_valid, REQUIRED_BREACH_SAMPLES,
        MAX_MISSING_SAMPLES, TERM_GRACE
<1> QED
    BY <1>4, <1>5 DEF o

-----------------------------------------------------------------------------
(* The invariant of the start and the end.                                 *)

\* Places before the monitor is touched, and those with all handlers in place.
Unguarded == {"parse", "client_ready", "configure", "hangup", "ppid", "bind", "initialize"}
Launched == {"spawn", "validate", "inspect", "negotiate", "notify", "loop", "confirm"}
Guarded == Launched \cup {"launch", "finish", "unwind"}

Ended == {"none", "exited", "left"}
Unwatching == {"ParentIsLaunchd", "HangupIgnored", "ParentUnobservable"}

Monitors == [disposition : [Terminal -> Dispositions], previous : [Terminal -> Dispositions \cup {None}],
             published : BOOLEAN, pipe : Seq(Terminal), drained : Seq(Terminal),
             caught : Seq(Terminal)]
Kernels == [who : {None, "parent", "stranger"}, exited : BOOLEAN, ppid : {"launchd", "P"}]
ParentWatches == [parent : Processes \cup {None}, watch : Watches \cup {None},
                  exited_at_ms : {None, 0}]
Steps == Terminal \cup {"publish", "unpublish"}
Supervisors == [pc : Places, todo : Seq(Steps), ppid : {None, "launchd", "P"},
                outcome : Outcomes \cup {None}, report : Outcomes \cup {None}]

Typed ==
    /\ config \in Configs /\ monitor \in Monitors /\ kernel \in Kernels /\ watch \in ParentWatches
    /\ sup \in Supervisors
    /\ worker \in Ended \cup {"forked", "running"}
    /\ holders \subseteq {"supervisor", "worker"}
    /\ status \in Statuses \cup {None}

\* The command line in hand was accepted.
ConfigOK == sup.pc \notin {"parse", "exit"} => accepted(config.mode, config.raw)

\* What the parent watch holds is what the kernel said when it was asked.
WatchOK ==
    /\ sup.pc \in Unguarded \ {"initialize"} => watch.parent = None
    /\ watch.parent # None => watch.watch = IF wants_detach THEN "Detach" ELSE "Active"
    /\ watch.parent = None /\ watch.watch # None =>
           watch.watch \in Unwatching /\ (wants_detach => watch.watch = "ParentUnobservable")
    /\ watch.exited_at_ms # None => watch.parent # None /\ kernel.ppid = "launchd"
    /\ sup.pc = "confirm" => watch.parent # None /\ kernel.ppid = "launchd"
    /\ "launchd" \in {sup.ppid, watch.parent} => kernel.ppid = "launchd"

\* One signal: as it was inherited, replaced with the old disposition kept, or
\* (the nohup case) deliberately left alone.
Untouched(s) == monitor.disposition[s] = config.inherited[s] /\ monitor.previous[s] = None
Replaced(s) == monitor.disposition[s] = "handler" /\ monitor.previous[s] = config.inherited[s]
Spared(s) == s = "SIGHUP" /\ config.inherited[s] = "ignored"
Taken(s) == IF Spared(s) THEN Untouched(s) ELSE Replaced(s)

AllUntouched == \A s \in Terminal : Untouched(s)
AllTaken == \A s \in Terminal : Taken(s)
NothingCaught == monitor.pipe = << >> /\ monitor.drained = << >> /\ monitor.caught = << >>

\* The install: what is still to do is untouched, what is done is taken.
InstallOK ==
    /\ sup.todo \in {InstallOrder, <<"SIGHUP", "SIGINT", "SIGTERM">>, <<"SIGINT", "SIGTERM">>,
                     <<"SIGTERM">>}
    /\ IF Len(sup.todo) < 4 THEN monitor.published ELSE ~monitor.published
    /\ IF Len(sup.todo) < 3 THEN Taken("SIGHUP") ELSE Untouched("SIGHUP")
    /\ IF Len(sup.todo) < 2 THEN Taken("SIGINT") ELSE Untouched("SIGINT")
    /\ Untouched("SIGTERM")

\* The rollback and the drop: what is done is untouched again.
RollbackOK ==
    /\ sup.todo \in {RollbackOrder, <<"SIGHUP", "unpublish">>, <<"unpublish">>}
    /\ Untouched("SIGTERM")
    /\ Len(sup.todo) < 3 => Untouched("SIGINT")
    /\ Len(sup.todo) < 2 => Untouched("SIGHUP")

DropOK ==
    /\ sup.todo \in {DropOrder, <<"SIGTERM", "SIGHUP", "unpublish">>, <<"SIGHUP", "unpublish">>,
                     <<"unpublish">>}
    /\ Len(sup.todo) < 4 => Untouched("SIGINT")
    /\ Len(sup.todo) < 3 => Untouched("SIGTERM")
    /\ Len(sup.todo) < 2 => Untouched("SIGHUP")

MonitorOK ==
    /\ \A s \in Terminal : Untouched(s) \/ (Replaced(s) /\ ~Spared(s))
    /\ sup.pc \in Unguarded => AllUntouched /\ ~monitor.published
    /\ sup.pc = "install" => InstallOK
    /\ sup.pc \in Guarded => AllTaken /\ monitor.published
    /\ sup.pc = "rollback" => RollbackOK
    /\ sup.pc = "finalize" => IF monitor.published THEN AllTaken ELSE AllUntouched
    /\ sup.pc = "drop" => DropOK
    /\ sup.pc \in {"return", "exit"} => AllUntouched

\* Before a first loss the pipe and what was taken from it hold all that was
\* caught; a loss needs a full pipe, so a whole pipe of earlier signals is held.
Tracks(kept, caught) ==
    /\ Len(kept) <= Len(caught)
    /\ Len(kept) < PipeCapacity => Len(kept) = Len(caught)
    /\ \A i \in 1 .. Len(kept) : i <= PipeCapacity => kept[i] = caught[i]

PipeOK ==
    /\ Len(monitor.pipe) <= PipeCapacity
    /\ sup.pc \in Unguarded => NothingCaught
    /\ sup.pc \in Launched \cup {"install", "launch"} =>
           Tracks(monitor.drained \o monitor.pipe, monitor.caught)

\* Where the command may run, and who may hold the readiness pipe.
WorkerOK ==
    /\ worker = "forked" => sup.pc = "spawn"
    /\ sup.pc \in Unguarded \cup {"install", "rollback", "launch"} => worker = "none"
    /\ sup.pc \in {"finalize", "drop", "return", "exit"} => worker \in Ended
    /\ "worker" \in holders => worker = "forked"
    /\ sup.pc \in {"loop", "confirm", "finish"} \/ ~Alive => "supervisor" \notin holders
    /\ status # None /\ status.how # "SIGKILL" => worker \in Ended

\* The outcome the supervisor exits with is the one in its report, or it says
\* that there is something wrong with the report.
OutcomeOK ==
    /\ sup.pc \in {"rollback", "finalize", "finish", "unwind", "drop", "return", "exit"} =>
           sup.outcome # None
    /\ sup.pc \in {"rollback", "finalize"} =>
           sup.outcome.kind \notin {"PolicyIntervention", "PartialArtifactFailure"}
    /\ sup.pc \notin {"unwind", "drop", "return", "exit"} => sup.report = None
    /\ sup.report # None => sup.report = sup.outcome \/ sup.outcome.kind = "PartialArtifactFailure"
    /\ status # None /\ status.how = "exit" => status.code = exit_code(sup.outcome)

\* A client that has given up or has its result has seen the supervisor end.
ClientOK ==
    /\ client \in {"failed", "RunResult", "ResultMismatchError"} => ~Alive
    /\ ClientHearsTheTruth

IInv == Typed /\ ConfigOK /\ WatchOK /\ MonitorOK /\ PipeOK /\ WorkerOK /\ OutcomeOK /\ ClientOK

-----------------------------------------------------------------------------
(* Types.                                                                  *)

LEMMA OutcomeIsSome == \A r \in Outcomes : r # None
BY NoneAssumption

LEMMA ResultIsOutcome ==
    /\ Result("InvalidConfiguration") \in Outcomes /\ Result("SupervisorFailure") \in Outcomes
    /\ Result("PartialArtifactFailure") \in Outcomes /\ Result("PolicyIntervention") \in Outcomes
    /\ Result("LaunchNotExecutable") \in Outcomes /\ Result("LaunchNotFound") \in Outcomes
BY DEF Outcomes, Result

LEMMA PlaceMembers ==
    /\ "client_ready" \in Places /\ "configure" \in Places /\ "hangup" \in Places
    /\ "ppid" \in Places /\ "bind" \in Places /\ "initialize" \in Places /\ "install" \in Places
    /\ "rollback" \in Places /\ "launch" \in Places /\ "spawn" \in Places /\ "validate" \in Places
    /\ "inspect" \in Places /\ "negotiate" \in Places /\ "notify" \in Places /\ "loop" \in Places
    /\ "confirm" \in Places /\ "finish" \in Places /\ "finalize" \in Places /\ "unwind" \in Places
    /\ "drop" \in Places /\ "return" \in Places /\ "exit" \in Places
BY DEF Places

LEMMA ExitCodeFits == \A r \in Outcomes : exit_code(r) \in 0 .. 255
<1> SUFFICES ASSUME NEW r \in Outcomes PROVE exit_code(r) \in 0 .. 255
  OBVIOUS
<1>1. CASE r \in ChildOutcomes
  BY <1>1, StartupAssumption DEF ChildOutcomes, exit_code
<1>2. CASE r \notin ChildOutcomes
  BY <1>2 DEF Outcomes, exit_code
<1> QED
  BY <1>1, <1>2

LEMMA InstalledTyped ==
    ASSUME monitor \in Monitors, NEW step
    PROVE  installed(step) \in Monitors /\ undone(step) \in Monitors
<1>1. installed(step) \in Monitors
  BY DEF Monitors, installed, Dispositions
<1>2. undone(step) \in Monitors
  BY DEF Monitors, undone
<1> QED
  BY <1>1, <1>2

LEMMA HandlerTyped ==
    ASSUME monitor \in Monitors, NEW s \in Terminal
    PROVE  terminal_signal_handler(s) \in Monitors
<1>1. /\ Append(monitor.caught, s) \in Seq(Terminal)
      /\ Append(monitor.pipe, s) \in Seq(Terminal)
  BY DEF Monitors
<1> QED
  BY <1>1 DEF Monitors, terminal_signal_handler

LEMMA OrdersTyped ==
    InstallOrder \in Seq(Steps) /\ RollbackOrder \in Seq(Steps) /\ DropOrder \in Seq(Steps)
BY DEF InstallOrder, RollbackOrder, DropOrder, Steps, Terminal

\* What is left of an install, a rollback or a drop, one step after another.
LEMMA TodoTails ==
    /\ Tail(InstallOrder) = <<"SIGHUP", "SIGINT", "SIGTERM">>
    /\ Tail(<<"SIGHUP", "SIGINT", "SIGTERM">>) = <<"SIGINT", "SIGTERM">>
    /\ Tail(<<"SIGINT", "SIGTERM">>) = <<"SIGTERM">>
    /\ Tail(RollbackOrder) = <<"SIGHUP", "unpublish">>
    /\ Tail(<<"SIGHUP", "unpublish">>) = <<"unpublish">>
    /\ Tail(DropOrder) = <<"SIGTERM", "SIGHUP", "unpublish">>
    /\ Tail(<<"SIGTERM", "SIGHUP", "unpublish">>) = <<"SIGHUP", "unpublish">>
BY DEF InstallOrder, RollbackOrder, DropOrder

LEMMA TodoHeads ==
    /\ LET todo == <<"SIGINT", "SIGHUP", "unpublish">> IN Head(todo) = "SIGINT" /\ Len(todo) > 1
    /\ LET todo == <<"SIGHUP", "unpublish">> IN Head(todo) = "SIGHUP" /\ Len(todo) > 1
    /\ LET todo == <<"SIGINT", "SIGTERM", "SIGHUP", "unpublish">>
       IN Head(todo) = "SIGINT" /\ Len(todo) > 1
    /\ LET todo == <<"SIGTERM", "SIGHUP", "unpublish">> IN Head(todo) = "SIGTERM" /\ Len(todo) > 1
OBVIOUS

LEMMA TodoIsNotEmpty ==
    ASSUME MonitorOK, sup.pc \in {"install", "rollback", "drop"}
    PROVE  sup.todo # << >>
BY DEF MonitorOK, InstallOK, RollbackOK, DropOK, InstallOrder, RollbackOrder, DropOrder

LEMMA InitTyped == ASSUME Init PROVE Typed
<1>1. monitor \in Monitors
  BY StartupAssumption DEF Init, Monitors, Dispositions
<1>2. kernel \in Kernels /\ watch \in ParentWatches
  BY DEF Init, Kernels, ParentWatches, Processes
<1>3. sup \in Supervisors
  BY DEF Init, Supervisors, Places
<1> QED
  BY <1>1, <1>2, <1>3 DEF Init, Typed, Ended

LEMMA ReceiveTyped ==
    ASSUME Typed, NEW s \in Terminal, Receive(s)
    PROVE  /\ monitor' \in Monitors
           /\ status' \in Statuses \cup {None}
           /\ holders' \subseteq {"supervisor", "worker"}
<1>1. [how |-> s, code |-> None] \in Statuses
  BY DEF Statuses
<1>2. monitor.disposition[s] \in Dispositions
  BY DEF Typed, Monitors
<1> QED
  BY <1>1, <1>2, HandlerTyped DEF Typed, Receive, Dispositions

LEMMA TypedStep ==
    ASSUME Typed, MonitorOK, OutcomeOK, Next
    PROVE  Typed'
<1> USE DEF Typed, At, Goto, Fails, Spend
<1> USE PlaceMembers, ResultIsOutcome
<1>1. CASE Parse \/ client_ready \/ configure
  <2>1. CASE Parse
    BY <2>1 DEF Supervisors, Parse
  <2>2. CASE client_ready
    BY <2>2 DEF Supervisors, client_ready
  <2>3. CASE configure
    BY <2>3 DEF Supervisors, configure
  <2> QED BY <1>1, <2>1, <2>2, <2>3
<1>4. CASE parent_watch_state \/ ReadParentPid
  <2>1. unwatched(kernel.ppid) \in Watches \cup {None} /\ kernel.ppid \in {"launchd", "P"}
    BY DEF unwatched, Watches, Kernels
  <2> QED
    BY ZenonT(60), <1>4, <2>1 DEF Supervisors, ParentWatches, parent_watch_state, ReadParentPid, Watches
<1>6. CASE establish_parent_watch
  <2>1. Bindable \in Processes \cup {None}
    BY DEF Bindable, Kernels, Processes
  <2> QED
    BY ZenonT(60), <1>6, <2>1 DEF Supervisors, ParentWatches, establish_parent_watch, Watches
<1>7. CASE initialize
  BY <1>7, OrdersTyped DEF Supervisors, initialize
<1>8. CASE install
  <2>1. Tail(sup.todo) \in Seq(Steps) /\ sup.pc \in Places
    BY <1>8, TodoIsNotEmpty DEF Supervisors, install
  <2>2. sup' \in Supervisors
    BY <1>8, <2>1, OrdersTyped DEF Supervisors, install
  <2> QED
    BY <1>8, <2>2, InstalledTyped DEF install
<1>9. CASE restore
  <2>1. Tail(sup.todo) \in Seq(Steps) /\ sup.pc \in Places
    BY <1>9, TodoIsNotEmpty DEF Supervisors, restore
  <2> QED
    BY <1>9, <2>1, InstalledTyped DEF Supervisors, restore
<1>10. CASE \/ \E signal \in Terminal : SignalArrives(signal)
            \/ ClientTimesOut \/ cancel
  BY <1>10, ReceiveTyped DEF SignalArrives, ClientTimesOut, cancel, Terminal
<1>11. CASE fork
  BY <1>11 DEF Supervisors, fork, Ended
<1>12. CASE ChildExecs \/ ChildExecFails \/ WorkerExits \/ StopWorker
  BY <1>12 DEF ChildExecs, ChildExecFails, WorkerExits, StopWorker, kept_by_exec, Ended
<1>13. CASE spawn
  BY ZenonT(60), <1>13 DEF Supervisors, spawn
<1>14. CASE validate_group
  BY <1>14 DEF Supervisors, validate_group, StepSucceeds, StepFails, Ended
<1>15. CASE inspect_root \/ negotiate_checkpoint_endpoint
  <2>1. ChildOutcomes \subseteq Outcomes
    BY DEF Outcomes
  <2> QED
    BY <1>15, <2>1 DEF Supervisors, inspect_root, negotiate_checkpoint_endpoint, early_exit_or_failure, StepSucceeds,
        StepFails, Ended
<1>17. CASE notify \/ CheckParent
  BY <1>17 DEF Supervisors, notify, CheckParent
<1>18. CASE poll
  <2>1. monitor.drained \o monitor.pipe \in Seq(Terminal) /\ << >> \in Seq(Terminal)
    BY DEF Monitors
  <2>2. monitor' \in Monitors
    BY <1>18, <2>1 DEF poll, Monitors
  <2> QED
    BY <1>18, <2>2 DEF poll
<1>19. CASE ConfirmParent
  BY <1>19 DEF Supervisors, ParentWatches, ConfirmParent
<1>21. CASE LoopEnds
  <2>1. ChildOutcomes \cup {Result("PolicyIntervention")} \subseteq Outcomes
    BY ResultIsOutcome DEF Outcomes
  <2> QED
    BY <1>21, <2>1 DEF Supervisors, LoopEnds
<1>22. CASE LoopFails
  BY <1>22 DEF Supervisors, LoopFails, Ended
<1>23. CASE finalize_without_worker \/ finish_journal
  <2>1. sup.outcome \in Outcomes \cup {None}
    BY DEF Supervisors
  <2>2. terminal_kind(sup.outcome) \in Outcomes \cup {None}
    BY <2>1 DEF terminal_kind
  <2>3. \A kind \in Outcomes \cup {None}, next \in Places : Writes(kind, next) => sup' \in Supervisors
    BY DEF Supervisors, Writes
  <2> QED
    BY <1>23, <2>1, <2>2, <2>3 DEF finalize_without_worker, finish_journal
<1>25. CASE unwind
  BY <1>25, OrdersTyped DEF Supervisors, unwind, drop_process, Ended
<1>26. CASE return
  BY <1>26 DEF Supervisors, return
<1>28. CASE ParentExits \/ ParentIsReaped \/ PidIsReused
  <2>1. kernel' \in Kernels
    BY <1>28 DEF ParentExits, ParentIsReaped, PidIsReused, Kernels, Processes
  <2> QED
    BY <1>28, <2>1 DEF ParentExits, ParentIsReaped, PidIsReused
<1>29. CASE ClientReads \/ wait
  BY <1>29 DEF ClientReads, wait
<1>31. CASE ClientKills
  <2>1. [how |-> "SIGKILL", code |-> None] \in Statuses
    BY DEF Statuses
  <2> QED
    BY <1>31, <2>1 DEF ClientKills
<1>32. CASE main
  <2>1. exit_code(sup.outcome) \in 0 .. 255
    BY <1>32, ExitCodeFits DEF main, OutcomeOK, Supervisors
  <2>2. [how |-> "exit", code |-> exit_code(sup.outcome)] \in Statuses
    BY <2>1 DEF Statuses
  <2> QED
    BY <1>32, <2>2 DEF main
<1> QED
  BY <1>1, <1>4, <1>6, <1>7, <1>8, <1>9, <1>10, <1>11, <1>12, <1>13, <1>14, <1>15, <1>17, <1>18,
     <1>19, <1>21, <1>22, <1>23, <1>25, <1>26, <1>28, <1>29, <1>31, <1>32
  DEF Next, Supervisor, World

-----------------------------------------------------------------------------
(* The command line.                                                       *)

LEMMA ConfigStep ==
    ASSUME Typed, ConfigOK, Next
    PROVE  ConfigOK'
<1> USE DEF Typed, ConfigOK, Supervisors, At, Goto, Fails
<1>1. CASE Parse
  BY <1>1 DEF Parse
<1>2. CASE client_ready \/ configure \/ parent_watch_state \/ ReadParentPid \/ establish_parent_watch
  BY <1>2 DEF client_ready, configure, parent_watch_state, ReadParentPid, establish_parent_watch
<1>3. CASE initialize \/ install \/ restore \/ fork \/ spawn \/ notify \/ CheckParent \/ ConfirmParent
  BY <1>3 DEF initialize, install, restore, fork, spawn, notify, CheckParent, ConfirmParent
<1>4. CASE validate_group \/ inspect_root \/ negotiate_checkpoint_endpoint
  BY <1>4 DEF validate_group, inspect_root, negotiate_checkpoint_endpoint, early_exit_or_failure,
              StepSucceeds, StepFails
<1>5. CASE LoopEnds \/ LoopFails \/ finalize_without_worker \/ finish_journal \/ unwind \/ return
  BY <1>5 DEF LoopEnds, LoopFails, finalize_without_worker, finish_journal, Writes, unwind, return
<1>6. CASE poll \/ StopWorker \/ main \/ World
  BY <1>6 DEF poll, StopWorker, main, World, SignalArrives, ChildExecs, ChildExecFails, WorkerExits,
              ParentExits, ParentIsReaped, PidIsReused, ClientReads, ClientTimesOut, ClientKills,
              cancel, wait
<1> QED
  BY <1>1, <1>2, <1>3, <1>4, <1>5, <1>6 DEF Next, Supervisor

-----------------------------------------------------------------------------
(* The parent watch.                                                       *)

LEMMA WatchStep ==
    ASSUME Typed, WatchOK, Next
    PROVE  WatchOK'
<1> USE DEF Typed, WatchOK, Supervisors, Unguarded, At, Goto, Fails
<1>1. CASE Parse \/ client_ready \/ configure \/ initialize \/ install \/ restore \/ fork \/ spawn
  <2>1. CASE Parse
    BY <2>1 DEF Parse, wants_detach
  <2>2. CASE client_ready
    BY <2>2 DEF client_ready, wants_detach
  <2>3. CASE configure
    BY <2>3 DEF configure, wants_detach
  <2>4. CASE initialize
    BY <2>4 DEF initialize, wants_detach
  <2>5. CASE install
    BY <2>5 DEF install, wants_detach
  <2>6. CASE restore
    BY <2>6 DEF restore, wants_detach
  <2>7. CASE fork
    BY <2>7 DEF fork, wants_detach
  <2>8. CASE spawn
    BY <2>8 DEF spawn, wants_detach
  <2> QED BY <1>1, <2>1, <2>2, <2>3, <2>4, <2>5, <2>6, <2>7, <2>8
<1>2. CASE parent_watch_state
  BY <1>2, NoneAssumption
  DEF parent_watch_state, ParentWatches, Unwatching, Watches, wants_detach
<1>3. CASE ReadParentPid
  BY <1>3, NoneAssumption DEF ReadParentPid, unwatched, ParentWatches, Unwatching, Watches,
                              wants_detach
<1>4. CASE establish_parent_watch
  BY ZenonT(60), <1>4, NoneAssumption DEF establish_parent_watch, Bindable, ParentWatches, Kernels, Processes,
                              Unwatching, Watches, wants_detach
<1>5. CASE validate_group \/ inspect_root \/ negotiate_checkpoint_endpoint
  <2>1. CASE validate_group
    BY <2>1 DEF validate_group, StepSucceeds, StepFails, wants_detach
  <2>2. CASE inspect_root
    BY <2>2 DEF inspect_root, early_exit_or_failure, StepSucceeds, StepFails, wants_detach
  <2>3. CASE negotiate_checkpoint_endpoint
    BY <2>3 DEF negotiate_checkpoint_endpoint, early_exit_or_failure, StepSucceeds, StepFails,
       wants_detach
  <2> QED BY <1>5, <2>1, <2>2, <2>3
<1>6. CASE notify \/ LoopEnds \/ LoopFails \/ finalize_without_worker \/ finish_journal \/ unwind
             \/ return
  <2>1. CASE notify
    BY <2>1 DEF notify, wants_detach
  <2>2. CASE LoopEnds
    BY <2>2 DEF LoopEnds, wants_detach
  <2>3. CASE LoopFails
    BY <2>3 DEF LoopFails, wants_detach
  <2>4. CASE finalize_without_worker
    BY <2>4 DEF finalize_without_worker, Writes, wants_detach
  <2>5. CASE finish_journal
    BY <2>5 DEF finish_journal, Writes, wants_detach
  <2>6. CASE unwind
    BY <2>6 DEF unwind, wants_detach
  <2>7. CASE return
    BY <2>7 DEF return, wants_detach
  <2> QED BY <1>6, <2>1, <2>2, <2>3, <2>4, <2>5, <2>6, <2>7
<1>7. CASE CheckParent
  BY <1>7, NoneAssumption
  DEF CheckParent, parent_pid_changed, PidOf, ParentWatches, Processes, Kernels, wants_detach
<1>8. CASE ConfirmParent
  BY <1>8 DEF ConfirmParent, ParentWatches, wants_detach
<1>9. CASE ParentExits \/ ParentIsReaped \/ PidIsReused
  BY <1>9 DEF ParentExits, ParentIsReaped, PidIsReused, Kernels, wants_detach
<1>10. CASE \/ poll \/ StopWorker \/ main \/ \E signal \in Terminal : SignalArrives(signal)
            \/ ChildExecs \/ ChildExecFails \/ WorkerExits \/ ClientReads \/ ClientTimesOut
            \/ ClientKills \/ cancel \/ wait
  BY <1>10 DEF poll, StopWorker, main, SignalArrives, ChildExecs, ChildExecFails, WorkerExits,
               ClientReads, ClientTimesOut, ClientKills, cancel, wait, wants_detach
<1> QED
  BY <1>1, <1>2, <1>3, <1>4, <1>5, <1>6, <1>7, <1>8, <1>9, <1>10 DEF Next, Supervisor, World

-----------------------------------------------------------------------------
(* The signal monitor.                                                     *)

\* A signal that arrives leaves the dispositions alone.
LEMMA ReceiveKeeps ==
    ASSUME Typed, NEW s \in Terminal, Receive(s)
    PROVE  /\ monitor'.disposition = monitor.disposition
           /\ monitor'.previous = monitor.previous
           /\ monitor'.published = monitor.published
<1>1. monitor.disposition[s] \in Dispositions
  BY DEF Typed, Monitors
<1> QED
  BY <1>1 DEF Typed, Monitors, Receive, terminal_signal_handler, Dispositions

\* One signal is installed, or put back.
LEMMA InstallOne ==
    ASSUME Typed, MonitorOK, NEW s \in Terminal, Untouched(s), monitor' = installed(s),
           UNCHANGED config
    PROVE  /\ Taken(s)' /\ monitor'.published = monitor.published
           /\ \A r \in Terminal \ {s} : Untouched(r)' = Untouched(r) /\ Taken(r)' = Taken(r)
<1> USE DEF Typed, Monitors, Terminal
<1>1. CASE Spared(s)
  <2>1. monitor' = monitor
    BY <1>1 DEF Spared, Untouched, installed, hangup_is_ignored
  <2> QED
    BY <1>1, <2>1 DEF Spared, Untouched, Replaced, Taken
<1>2. CASE ~Spared(s)
  <2>1. monitor' = [monitor EXCEPT !.previous[s] = monitor.disposition[s],
                                   !.disposition[s] = "handler"]
    BY <1>2 DEF Spared, Untouched, installed, hangup_is_ignored
  <2> QED
    BY <1>2, <2>1 DEF Spared, Untouched, Replaced, Taken
<1> QED
  BY <1>1, <1>2

LEMMA UndoOne ==
    ASSUME Typed, MonitorOK, NEW s \in Terminal, monitor' = undone(s), UNCHANGED config
    PROVE  /\ Untouched(s)' /\ monitor'.published = monitor.published
           /\ \A r \in Terminal \ {s} : Untouched(r)' = Untouched(r) /\ Replaced(r)' = Replaced(r)
<1> USE DEF Typed, Monitors, Terminal
<1>0. config.inherited[s] # None
  BY StartupAssumption, NoneAssumption DEF Dispositions
<1>1. CASE Untouched(s)
  <2>1. monitor' = monitor
    BY <1>1 DEF undone, Untouched
  <2> QED
    BY <1>1, <2>1 DEF Untouched, Replaced
<1>2. CASE Replaced(s)
  <2>1. monitor' = [monitor EXCEPT !.disposition[s] = monitor.previous[s], !.previous[s] = None]
    BY <1>0, <1>2 DEF undone, Replaced
  <2> QED
    BY <1>2, <2>1 DEF Untouched, Replaced
<1> QED
  BY <1>1, <1>2 DEF MonitorOK

\* A step that leaves the dispositions alone.
LEMMA MonitorFrame ==
    ASSUME UNCHANGED config, monitor'.disposition = monitor.disposition,
           monitor'.previous = monitor.previous
    PROVE  /\ \A s \in Terminal : /\ Untouched(s)' = Untouched(s) /\ Taken(s)' = Taken(s)
                                  /\ Replaced(s)' = Replaced(s) /\ Spared(s)' = Spared(s)
           /\ AllUntouched' = AllUntouched /\ AllTaken' = AllTaken
BY DEF Untouched, Replaced, Spared, Taken, AllUntouched, AllTaken

LEMMA MonitorStep ==
    ASSUME Typed, MonitorOK, Next
    PROVE  MonitorOK'
<1> USE DEF Typed, Supervisors, At, Goto, Fails
<1>1. CASE \/ Parse \/ client_ready \/ configure \/ parent_watch_state \/ ReadParentPid
           \/ establish_parent_watch
  <2>1. CASE Parse
    BY <2>1, MonitorFrame DEF MonitorOK, Unguarded, Guarded, Launched, Parse
  <2>2. CASE client_ready
    BY <2>2, MonitorFrame DEF MonitorOK, Unguarded, Guarded, Launched, client_ready
  <2>3. CASE configure
    BY ZenonT(60), <2>3, MonitorFrame DEF MonitorOK, Unguarded, Guarded, Launched, configure
  <2>4. CASE parent_watch_state
    BY <2>4, MonitorFrame DEF MonitorOK, Unguarded, Guarded, Launched, parent_watch_state
  <2>5. CASE ReadParentPid
    BY <2>5, MonitorFrame DEF MonitorOK, Unguarded, Guarded, Launched, ReadParentPid
  <2>6. CASE establish_parent_watch
    BY <2>6, MonitorFrame DEF MonitorOK, Unguarded, Guarded, Launched, establish_parent_watch
  <2> QED BY <1>1, <2>1, <2>2, <2>3, <2>4, <2>5, <2>6
<1>2. CASE initialize
  <2>1. /\ sup'.pc = "install" => sup'.todo = InstallOrder
        /\ sup'.pc \in {"install", "return"}
        /\ UNCHANGED <<config, monitor>> /\ AllUntouched /\ ~monitor.published
    BY <1>2 DEF initialize, MonitorOK, Unguarded
  <2>2. ASSUME sup'.pc = "install" PROVE InstallOK'
    <3>1. sup'.todo = InstallOrder /\ Len(sup'.todo) = 4
      BY <2>1, <2>2 DEF InstallOrder
    <3>2. ~monitor'.published
      BY <2>1
    <3>3. Untouched("SIGHUP")' /\ Untouched("SIGINT")' /\ Untouched("SIGTERM")'
      BY <2>1 DEF AllUntouched, Untouched, Terminal
    <3> QED
      BY <3>1, <3>2, <3>3 DEF InstallOK
  <2> QED
    BY <2>1, <2>2, MonitorFrame DEF MonitorOK, Unguarded, Guarded, Launched
<1>3. CASE install
  <2>1. sup.pc = "install" /\ InstallOK /\ UNCHANGED config
    BY <1>3 DEF install, MonitorOK
  <2>2. \A s \in Terminal : Untouched(s) \/ (Replaced(s) /\ ~Spared(s))
    BY DEF MonitorOK
  <2>3. CASE sup'.pc = "rollback" /\ sup'.todo = RollbackOrder /\ UNCHANGED monitor
    <3>1. RollbackOK'
      BY <2>1, <2>3, MonitorFrame DEF InstallOK, RollbackOK, Terminal, RollbackOrder
    <3> QED
      BY <2>1, <2>2, <2>3, <3>1, MonitorFrame DEF MonitorOK, Unguarded, Guarded, Launched
  <2>4. CASE /\ monitor' = installed(Head(sup.todo)) /\ sup'.todo = Tail(sup.todo)
             /\ sup'.pc = IF Len(sup.todo) = 1 THEN "launch" ELSE "install"
    <3>1. CASE sup.todo = InstallOrder
      <4>1. monitor' = [monitor EXCEPT !.published = TRUE] /\ sup'.pc = "install"
        BY <2>4, <3>1 DEF InstallOrder, installed
      <4>2. /\ monitor'.disposition = monitor.disposition /\ monitor'.previous = monitor.previous
            /\ monitor'.published
        BY <4>1 DEF Monitors
      <4>3. InstallOK'
        BY <2>1, <2>4, <3>1, <4>2, MonitorFrame, TodoTails DEF InstallOK, Terminal, InstallOrder
      <4> QED
        BY <2>1, <2>2, <4>1, <4>2, <4>3, MonitorFrame DEF MonitorOK, Unguarded, Guarded, Launched
    <3>2. CASE sup.todo = <<"SIGHUP", "SIGINT", "SIGTERM">>
      <4>1. monitor' = installed("SIGHUP") /\ sup'.pc = "install"
        BY <2>4, <3>2
      <4>2. InstallOK' /\ \A s \in Terminal : Untouched(s)' \/ Taken(s)'
        BY <2>1, <2>4, <3>2, <4>1, InstallOne, TodoTails DEF InstallOK, Terminal, InstallOrder
      <4> QED
        BY <4>1, <4>2 DEF MonitorOK, Taken, Unguarded, Guarded, Launched
    <3>3. CASE sup.todo = <<"SIGINT", "SIGTERM">>
      <4>1. monitor' = installed("SIGINT") /\ sup'.pc = "install"
        BY <2>4, <3>3
      <4>2. InstallOK' /\ \A s \in Terminal : Untouched(s)' \/ Taken(s)'
        BY <2>1, <2>4, <3>3, <4>1, InstallOne, TodoTails DEF InstallOK, Terminal, InstallOrder
      <4> QED
        BY <4>1, <4>2 DEF MonitorOK, Taken, Unguarded, Guarded, Launched
    <3>4. CASE sup.todo = <<"SIGTERM">>
      <4>1. monitor' = installed("SIGTERM") /\ sup'.pc = "launch"
        BY <2>4, <3>4
      <4>2. AllTaken' /\ monitor'.published
        BY <2>1, <2>4, <3>4, <4>1, InstallOne DEF InstallOK, AllTaken, Terminal, InstallOrder
      <4> QED
        BY <4>1, <4>2 DEF MonitorOK, AllTaken, Taken, Unguarded, Guarded, Launched
    <3> QED
      BY <2>1, <3>1, <3>2, <3>3, <3>4 DEF InstallOK
  <2> QED
    BY <1>3, <2>3, <2>4 DEF install
<1>4. CASE restore
  <2>1. /\ monitor' = undone(Head(sup.todo)) /\ sup'.todo = Tail(sup.todo) /\ UNCHANGED config
        /\ (sup.pc = "rollback" /\ RollbackOK) \/ (sup.pc = "drop" /\ DropOK)
        /\ sup'.pc = IF Len(sup.todo) > 1 THEN sup.pc
                     ELSE IF sup.pc = "rollback" THEN "finalize" ELSE "return"
    BY <1>4 DEF restore, MonitorOK
  <2>2. \A s \in Terminal : Untouched(s) \/ (Replaced(s) /\ ~Spared(s))
    BY DEF MonitorOK
  <2>3. CASE sup.todo = <<"unpublish">>
    <3>1. monitor' = [monitor EXCEPT !.published = FALSE] /\ sup'.pc \in {"finalize", "return"}
      BY <2>1, <2>3 DEF undone
    <3>2. /\ monitor'.disposition = monitor.disposition /\ monitor'.previous = monitor.previous
          /\ ~monitor'.published
      BY <3>1 DEF Monitors
    <3>3. AllUntouched'
      BY <2>1, <2>3, <3>2, MonitorFrame DEF RollbackOK, DropOK, RollbackOrder, DropOrder, AllUntouched, Terminal
    <3> QED
      BY <2>1, <2>2, <3>1, <3>2, <3>3, MonitorFrame DEF MonitorOK, Unguarded, Guarded, Launched
  <2>4. ASSUME NEW s \in Terminal, sup.todo # <<"unpublish">>, Head(sup.todo) = s, Len(sup.todo) > 1
        PROVE  MonitorOK'
    <3>1. /\ Untouched(s)'
          /\ \A r \in Terminal \ {s} : Untouched(r)' = Untouched(r) /\ Replaced(r)' = Replaced(r)
      BY <2>1, <2>4, UndoOne
    <3>2. \A r \in Terminal : Untouched(r)' \/ (Replaced(r)' /\ ~Spared(r)')
      BY <2>1, <2>2, <3>1 DEF Spared
    <3>3. ASSUME sup.pc = "rollback" PROVE RollbackOK'
      <4>1. CASE sup.todo = RollbackOrder
        BY <2>1, <2>4, <3>1, <3>3, <4>1, TodoTails DEF RollbackOK, RollbackOrder, Terminal
      <4>2. CASE sup.todo = <<"SIGHUP", "unpublish">>
        BY <2>1, <2>4, <3>1, <3>3, <4>2, TodoTails DEF RollbackOK, RollbackOrder, Terminal
      <4> QED
        BY <2>1, <2>4, <3>3, <4>1, <4>2 DEF RollbackOK
    <3>4. ASSUME sup.pc = "drop" PROVE DropOK'
      <4>1. CASE sup.todo = DropOrder
        BY <2>1, <2>4, <3>1, <3>4, <4>1, TodoTails DEF DropOK, DropOrder, Terminal
      <4>2. CASE sup.todo = <<"SIGTERM", "SIGHUP", "unpublish">>
        BY <2>1, <2>4, <3>1, <3>4, <4>2, TodoTails DEF DropOK, DropOrder, Terminal
      <4>3. CASE sup.todo = <<"SIGHUP", "unpublish">>
        BY <2>1, <2>4, <3>1, <3>4, <4>3, TodoTails DEF DropOK, DropOrder, Terminal
      <4> QED
        BY <2>1, <2>4, <3>4, <4>1, <4>2, <4>3 DEF DropOK
    <3> QED
      BY <2>1, <2>4, <3>2, <3>3, <3>4 DEF MonitorOK, Unguarded, Guarded, Launched
  <2>5. sup.todo # <<"unpublish">> => Head(sup.todo) \in Terminal /\ Len(sup.todo) > 1
    <3>1. sup.todo \in {<<"SIGINT", "SIGHUP", "unpublish">>, <<"SIGHUP", "unpublish">>, <<"unpublish">>,
                        <<"SIGINT", "SIGTERM", "SIGHUP", "unpublish">>,
                        <<"SIGTERM", "SIGHUP", "unpublish">>}
      BY <2>1 DEF RollbackOK, DropOK, RollbackOrder, DropOrder
    <3> QED
      BY <3>1, TodoHeads DEF Terminal
  <2> QED
    BY <2>3, <2>4, <2>5
<1>5. CASE fork \/ spawn \/ notify \/ CheckParent \/ ConfirmParent \/ LoopEnds \/ LoopFails
  <2>1. CASE fork
    BY <2>1, MonitorFrame DEF MonitorOK, Unguarded, Guarded, Launched, fork
  <2>2. CASE spawn
    BY <2>2, MonitorFrame DEF MonitorOK, Unguarded, Guarded, Launched, spawn
  <2>3. CASE notify
    BY <2>3, MonitorFrame DEF MonitorOK, Unguarded, Guarded, Launched, notify
  <2>4. CASE CheckParent
    BY <2>4, MonitorFrame DEF MonitorOK, Unguarded, Guarded, Launched, CheckParent
  <2>5. CASE ConfirmParent
    BY <2>5, MonitorFrame DEF MonitorOK, Unguarded, Guarded, Launched, ConfirmParent
  <2>6. CASE LoopEnds
    BY <2>6, MonitorFrame DEF MonitorOK, Unguarded, Guarded, Launched, LoopEnds
  <2>7. CASE LoopFails
    BY <2>7, MonitorFrame DEF MonitorOK, Unguarded, Guarded, Launched, LoopFails
  <2> QED BY <1>5, <2>1, <2>2, <2>3, <2>4, <2>5, <2>6, <2>7
<1>6. CASE validate_group \/ inspect_root \/ negotiate_checkpoint_endpoint
  <2>1. CASE validate_group
    BY <2>1, MonitorFrame DEF MonitorOK, Unguarded, Guarded, Launched, validate_group,
       StepSucceeds, StepFails
  <2>2. CASE inspect_root
    BY <2>2, MonitorFrame DEF MonitorOK, Unguarded, Guarded, Launched, inspect_root,
       early_exit_or_failure, StepSucceeds, StepFails
  <2>3. CASE negotiate_checkpoint_endpoint
    BY <2>3, MonitorFrame DEF MonitorOK, Unguarded, Guarded, Launched,
       negotiate_checkpoint_endpoint, early_exit_or_failure, StepSucceeds, StepFails
  <2> QED BY <1>6, <2>1, <2>2, <2>3
<1>7. CASE finalize_without_worker \/ finish_journal \/ return
  <2>1. /\ sup.pc = "finalize" => sup'.pc = IF monitor.published THEN "unwind" ELSE "return"
        /\ sup.pc = "finish" => sup'.pc = "unwind"
        /\ sup.pc = "return" => sup'.pc = "exit"
        /\ sup.pc \in {"finalize", "finish", "return"} /\ UNCHANGED <<config, monitor>>
    BY <1>7 DEF finalize_without_worker, finish_journal, Writes, return
  <2> QED
    BY <2>1, MonitorFrame DEF MonitorOK, Unguarded, Guarded, Launched
<1>8. CASE unwind
  BY <1>8, MonitorFrame DEF MonitorOK, DropOK, Unguarded, Guarded, Launched, unwind, DropOrder
<1>9. CASE \/ StopWorker \/ main \/ ChildExecs \/ ChildExecFails \/ WorkerExits \/ ClientReads
           \/ ClientKills \/ wait \/ ParentExits \/ ParentIsReaped \/ PidIsReused
  BY <1>9, MonitorFrame DEF MonitorOK, InstallOK, RollbackOK, DropOK, Terminal,
       StopWorker, main, ChildExecs, ChildExecFails, WorkerExits, ClientReads, ClientKills, wait,
       ParentExits, ParentIsReaped, PidIsReused
<1>10. CASE poll \/ ClientTimesOut \/ cancel \/ \E signal \in Terminal : SignalArrives(signal)
  <2>1. /\ monitor'.disposition = monitor.disposition /\ monitor'.previous = monitor.previous
        /\ monitor'.published = monitor.published /\ UNCHANGED <<config, sup>>
    BY <1>10, ReceiveKeeps DEF poll, ClientTimesOut, cancel, SignalArrives, Terminal, Monitors
  <2> QED
    BY <2>1, MonitorFrame DEF MonitorOK, InstallOK, RollbackOK, DropOK, Terminal
<1> QED
  BY <1>1, <1>2, <1>3, <1>4, <1>5, <1>6, <1>7, <1>8, <1>9, <1>10 DEF Next, Supervisor, World

-----------------------------------------------------------------------------
(* The pipe.                                                               *)

\* The handler writes to the pipe only where it is public.
LEMMA HandlerIsPublished ==
    ASSUME MonitorOK, NEW s \in Terminal, monitor.disposition[s] = "handler",
           config.inherited[s] # "handler",
           sup.pc \in Unguarded \cup Launched \cup {"install", "launch"}
    PROVE  sup.pc \notin Unguarded /\ monitor.published
<1>1. ~Untouched(s)
  BY DEF Untouched
<1>2. sup.pc \notin Unguarded
  BY <1>1 DEF MonitorOK, AllUntouched
<1>3. CASE sup.pc = "install"
  BY <1>1, <1>3 DEF MonitorOK, InstallOK, Terminal
<1> QED
  BY <1>2, <1>3 DEF MonitorOK, Guarded

LEMMA ConcatAppend ==
    ASSUME NEW a \in Seq(Terminal), NEW b \in Seq(Terminal), NEW x \in Terminal
    PROVE  a \o Append(b, x) = Append(a \o b, x)
<1>1. <<x>> \in Seq(Terminal) /\ a \o b \in Seq(Terminal)
  OBVIOUS
<1>2. Append(b, x) = b \o <<x>> /\ Append(a \o b, x) = (a \o b) \o <<x>>
  BY <1>1, AppendIsConcat
<1>3. (a \o b) \o <<x>> = a \o (b \o <<x>>)
  BY <1>1, ConcatAssociative
<1> QED
  BY <1>2, <1>3

\* A signal that is kept, and one that finds the pipe full.
LEMMA TracksKept ==
    ASSUME NEW kept \in Seq(Terminal), NEW caught \in Seq(Terminal), NEW s \in Terminal,
           Tracks(kept, caught)
    PROVE  Tracks(Append(kept, s), Append(caught, s))
<1>1. PipeCapacity \in Nat /\ Len(kept) \in Nat /\ Len(caught) \in Nat
  BY StartupAssumption
<1>2. /\ Len(Append(kept, s)) = Len(kept) + 1 /\ Len(Append(caught, s)) = Len(caught) + 1
      /\ \A i \in 1 .. Len(kept) : Append(kept, s)[i] = kept[i]
      /\ \A i \in 1 .. Len(caught) : Append(caught, s)[i] = caught[i]
      /\ Append(kept, s)[Len(kept) + 1] = s /\ Append(caught, s)[Len(caught) + 1] = s
  BY AppendProperties
<1>3. ASSUME NEW i \in 1 .. Len(kept) + 1, i <= PipeCapacity
      PROVE  Append(kept, s)[i] = Append(caught, s)[i]
  <2>1. CASE i <= Len(kept)
    <3>1. i \in 1 .. Len(kept) /\ i \in 1 .. Len(caught)
      BY <1>1, <2>1 DEF Tracks
    <3> QED
      BY <1>2, <1>3, <3>1 DEF Tracks
  <2>2. CASE i = Len(kept) + 1
    BY <1>1, <1>2, <1>3, <2>2 DEF Tracks
  <2>3. i <= Len(kept) \/ i = Len(kept) + 1
    BY <1>1, <1>3
  <2> QED
    BY <2>1, <2>2, <2>3
<1> QED
  BY <1>1, <1>2, <1>3 DEF Tracks

LEMMA TracksLost ==
    ASSUME NEW kept \in Seq(Terminal), NEW caught \in Seq(Terminal), NEW s \in Terminal,
           Tracks(kept, caught), Len(kept) >= PipeCapacity
    PROVE  Tracks(kept, Append(caught, s))
<1>1. PipeCapacity \in Nat /\ Len(kept) \in Nat /\ Len(caught) \in Nat
  BY StartupAssumption
<1>2. /\ Len(Append(caught, s)) = Len(caught) + 1
      /\ \A i \in 1 .. Len(caught) : Append(caught, s)[i] = caught[i]
  BY AppendProperties
<1>3. 1 .. Len(kept) \subseteq 1 .. Len(caught)
  BY <1>1 DEF Tracks
<1> QED
  BY <1>1, <1>2, <1>3 DEF Tracks

\* One more signal, as the handler takes it.
LEMMA HandlerKeepsPipe ==
    ASSUME Typed, PipeOK, NEW s \in Terminal, sup.pc \notin Unguarded,
           sup.pc \in Launched \cup {"install", "launch"} => monitor.published,
           monitor' = terminal_signal_handler(s), UNCHANGED sup
    PROVE  PipeOK'
<1> DEFINE kept == monitor.drained \o monitor.pipe
           caught == monitor.caught
<1>1. /\ monitor.pipe \in Seq(Terminal) /\ monitor.drained \in Seq(Terminal)
      /\ caught \in Seq(Terminal) /\ kept \in Seq(Terminal)
      /\ Len(kept) = Len(monitor.drained) + Len(monitor.pipe)
      /\ PipeCapacity \in Nat
  BY StartupAssumption DEF Typed, Monitors
<1>2. /\ monitor'.drained = monitor.drained /\ monitor'.caught = Append(caught, s)
      /\ monitor'.pipe = IF monitor.published /\ Len(monitor.pipe) < PipeCapacity
                         THEN Append(monitor.pipe, s) ELSE monitor.pipe
  BY DEF Typed, Monitors, terminal_signal_handler
<1>3. Len(monitor'.pipe) <= PipeCapacity
  BY <1>1, <1>2 DEF PipeOK
<1>4. ASSUME sup.pc \in Launched \cup {"install", "launch"}
      PROVE  Tracks(monitor'.drained \o monitor'.pipe, monitor'.caught)
  <2>0. Tracks(kept, caught) /\ monitor.published
    BY <1>4 DEF PipeOK
  <2>1. CASE Len(monitor.pipe) < PipeCapacity
    <3>1. monitor'.drained \o monitor'.pipe = Append(kept, s)
      <4>1. monitor'.pipe = Append(monitor.pipe, s) /\ monitor'.drained = monitor.drained
        BY <1>2, <2>0, <2>1
      <4>2. monitor.drained \o Append(monitor.pipe, s) = Append(monitor.drained \o monitor.pipe, s)
        BY <1>1, ConcatAppend
      <4> QED
        BY <4>1, <4>2
    <3> QED
      BY <1>1, <1>2, <2>0, <3>1, TracksKept
  <2>2. CASE ~(Len(monitor.pipe) < PipeCapacity)
    <3>1. monitor'.drained \o monitor'.pipe = kept
      BY <1>2, <2>2
    <3>2. Len(kept) >= PipeCapacity
      <4>1. ASSUME NEW a \in Nat, NEW b \in Nat, ~(b < PipeCapacity) PROVE a + b >= PipeCapacity
        BY <1>1, <4>1
      <4>2. Len(monitor.pipe) \in Nat /\ Len(monitor.drained) \in Nat
        BY <1>1
      <4> QED
        BY <1>1, <2>2, <4>1, <4>2
    <3> QED
      BY <1>1, <1>2, <2>0, <3>1, <3>2, TracksLost
  <2> QED
    BY <2>1, <2>2
<1> QED
  BY <1>3, <1>4 DEF PipeOK

\* A signal in any place.
LEMMA ReceiveKeepsPipe ==
    ASSUME Typed, MonitorOK, PipeOK, NEW s \in Terminal, Receive(s), UNCHANGED sup
    PROVE  PipeOK'
<1>1. monitor.disposition[s] \in Dispositions /\ config.inherited[s] # "handler"
  BY StartupAssumption DEF Typed, Monitors
<1>2. CASE UNCHANGED monitor
  BY <1>2 DEF PipeOK, NothingCaught
<1>3. CASE monitor.disposition[s] = "handler" /\ monitor' = terminal_signal_handler(s)
  BY <1>1, <1>3, HandlerIsPublished, HandlerKeepsPipe
<1> QED
  BY <1>1, <1>2, <1>3 DEF Receive, Dispositions

LEMMA PipeStep ==
    ASSUME Typed, MonitorOK, PipeOK, Next
    PROVE  PipeOK'
<1> USE DEF Typed, Supervisors, Unguarded, Launched, At, Goto, Fails
<1>1. CASE \/ Parse \/ client_ready \/ configure \/ parent_watch_state \/ ReadParentPid
           \/ establish_parent_watch
  <2>1. CASE Parse
    BY <2>1 DEF PipeOK, NothingCaught, Parse
  <2>2. CASE client_ready
    BY <2>2 DEF PipeOK, NothingCaught, client_ready
  <2>3. CASE configure
    BY <2>3 DEF PipeOK, NothingCaught, configure
  <2>4. CASE parent_watch_state
    BY <2>4 DEF PipeOK, NothingCaught, parent_watch_state
  <2>5. CASE ReadParentPid
    BY <2>5 DEF PipeOK, NothingCaught, ReadParentPid
  <2>6. CASE establish_parent_watch
    BY <2>6 DEF PipeOK, NothingCaught, establish_parent_watch
  <2> QED BY <1>1, <2>1, <2>2, <2>3, <2>4, <2>5, <2>6
<1>2. CASE initialize
  <2>1. << >> \o << >> = << >> /\ Tracks(<< >>, << >>)
    BY StartupAssumption DEF Tracks
  <2> QED
    BY ZenonT(60), <1>2, <2>1 DEF PipeOK, NothingCaught, initialize
<1>3. CASE install
  <2>1. /\ monitor'.pipe = monitor.pipe /\ monitor'.drained = monitor.drained
        /\ monitor'.caught = monitor.caught
    BY <1>3 DEF install, installed, Monitors
  <2> QED
    BY <1>3, <2>1 DEF PipeOK, install
<1>4. CASE restore
  <2>1. monitor'.pipe = monitor.pipe
    BY <1>4 DEF restore, undone, Monitors
  <2> QED
    BY <1>4, <2>1 DEF PipeOK, restore
<1>5. CASE fork \/ spawn \/ notify \/ CheckParent \/ ConfirmParent \/ LoopEnds \/ LoopFails
  BY ZenonT(60), <1>5 DEF PipeOK, NothingCaught,
       fork, spawn, notify, CheckParent, ConfirmParent, LoopEnds, LoopFails
<1>6. CASE validate_group \/ inspect_root \/ negotiate_checkpoint_endpoint
  BY <1>6 DEF PipeOK, validate_group, inspect_root, negotiate_checkpoint_endpoint,
       early_exit_or_failure, StepSucceeds, StepFails
<1>7. CASE finalize_without_worker \/ finish_journal \/ return \/ unwind
  <2>1. CASE finalize_without_worker
    BY <2>1 DEF PipeOK, finalize_without_worker, Writes
  <2>2. CASE finish_journal
    BY <2>2 DEF PipeOK, finish_journal, Writes
  <2>3. CASE return
    BY <2>3 DEF PipeOK, return
  <2>4. CASE unwind
    BY <2>4 DEF PipeOK, unwind
  <2> QED BY <1>7, <2>1, <2>2, <2>3, <2>4
<1>8. CASE poll
  <2>1. /\ monitor'.pipe = << >> /\ monitor'.drained = monitor.drained \o monitor.pipe
        /\ monitor'.caught = monitor.caught /\ monitor.drained \o monitor.pipe \in Seq(Terminal)
    BY <1>8 DEF poll, Monitors
  <2>2. (monitor.drained \o monitor.pipe) \o << >> = monitor.drained \o monitor.pipe
    BY <2>1, ConcatEmptySeq
  <2> QED
    BY <1>8, <2>1, <2>2, StartupAssumption DEF PipeOK, poll
<1>9. CASE \/ StopWorker \/ main \/ ChildExecs \/ ChildExecFails \/ WorkerExits \/ ClientReads
           \/ ClientKills \/ wait \/ ParentExits \/ ParentIsReaped \/ PidIsReused
  BY <1>9 DEF PipeOK, NothingCaught,
       StopWorker, main, ChildExecs, ChildExecFails, WorkerExits, ClientReads, ClientKills, wait,
       ParentExits, ParentIsReaped, PidIsReused
<1>10. CASE \E signal \in Terminal : SignalArrives(signal)
  BY <1>10, ReceiveKeepsPipe DEF SignalArrives
<1>11. CASE ClientTimesOut \/ cancel
  <2>1. CASE Receive("SIGINT")
    BY <1>11, <2>1, ReceiveKeepsPipe DEF ClientTimesOut, cancel, Terminal
  <2>2. CASE UNCHANGED monitor
    BY <1>11, <2>2 DEF PipeOK, NothingCaught, ClientTimesOut, cancel
  <2> QED
    BY <1>11, <2>1, <2>2 DEF ClientTimesOut, cancel
<1> QED
  BY <1>1, <1>2, <1>3, <1>4, <1>5, <1>6, <1>7, <1>8, <1>9, <1>10, <1>11
  DEF Next, Supervisor, World

-----------------------------------------------------------------------------
(* The command and the readiness pipe.                                     *)

\* A signal that ends the supervisor by its default action finds no command.
LEMMA DefaultFindsNoCommand ==
    ASSUME Typed, MonitorOK, WorkerOK, NEW s \in Terminal, monitor.disposition[s] = "default"
    PROVE  worker \in Ended
<1>1. ~Taken(s)
  <2>1. Spared(s) => ~Untouched(s)
    BY DEF Spared, Untouched
  <2> QED
    BY <2>1 DEF Taken, Replaced
<1>2. sup.pc \notin Guarded
  BY <1>1 DEF MonitorOK, AllTaken
<1>3. sup.pc \in Places
  BY DEF Typed, Supervisors
<1> QED
  BY <1>2, <1>3 DEF WorkerOK, Places, Guarded, Launched, Unguarded, Ended

LEMMA ReceiveKeepsWorker ==
    ASSUME Typed, MonitorOK, WorkerOK, NEW s \in Terminal, Receive(s), UNCHANGED <<sup, worker>>
    PROVE  WorkerOK'
<1>1. monitor.disposition[s] \in Dispositions
  BY DEF Typed, Monitors
<1>2. CASE monitor.disposition[s] = "default"
  BY <1>2, DefaultFindsNoCommand DEF WorkerOK, Receive, Alive
<1>3. CASE monitor.disposition[s] # "default"
  BY <1>1, <1>3 DEF WorkerOK, Receive, Alive, Dispositions
<1> QED
  BY <1>2, <1>3

LEMMA WorkerStep ==
    ASSUME Typed, MonitorOK, WorkerOK, Next
    PROVE  WorkerOK'
<1> USE DEF Typed, WorkerOK, Supervisors, Ended, Unguarded, Alive, At, Goto, Fails
<1>1. CASE \/ Parse \/ client_ready \/ configure \/ parent_watch_state \/ ReadParentPid
           \/ establish_parent_watch \/ initialize \/ install
  <2>1. CASE Parse
    BY <2>1 DEF Parse
  <2>2. CASE client_ready
    BY <2>2 DEF client_ready
  <2>3. CASE configure
    BY <2>3 DEF configure
  <2>4. CASE parent_watch_state
    BY <2>4 DEF parent_watch_state
  <2>5. CASE ReadParentPid
    BY <2>5 DEF ReadParentPid
  <2>6. CASE establish_parent_watch
    BY <2>6 DEF establish_parent_watch
  <2>7. CASE initialize
    BY <2>7 DEF initialize
  <2>8. CASE install
    BY <2>8 DEF install
  <2> QED BY <1>1, <2>1, <2>2, <2>3, <2>4, <2>5, <2>6, <2>7, <2>8
<1>2. CASE restore
  BY <1>2 DEF restore
<1>3. CASE fork
  BY <1>3 DEF fork
<1>4. CASE spawn \/ notify \/ CheckParent \/ ConfirmParent
  <2>1. CASE spawn
    BY <2>1 DEF spawn
  <2>2. CASE notify
    BY <2>2 DEF notify
  <2>3. CASE CheckParent
    BY <2>3 DEF CheckParent
  <2>4. CASE ConfirmParent
    BY <2>4 DEF ConfirmParent
  <2> QED BY <1>4, <2>1, <2>2, <2>3, <2>4
<1>5. CASE LoopEnds \/ LoopFails \/ StopWorker \/ poll
  BY <1>5 DEF LoopEnds, LoopFails, StopWorker, poll
<1>6. CASE validate_group \/ inspect_root \/ negotiate_checkpoint_endpoint
  <2>1. CASE validate_group
    BY ZenonT(60), <2>1 DEF validate_group, StepSucceeds, StepFails
  <2>2. CASE inspect_root
    BY ZenonT(60), <2>2 DEF inspect_root, early_exit_or_failure, StepSucceeds, StepFails
  <2>3. CASE negotiate_checkpoint_endpoint
    BY ZenonT(60), <2>3 DEF negotiate_checkpoint_endpoint, early_exit_or_failure, StepSucceeds, StepFails
  <2> QED BY <1>6, <2>1, <2>2, <2>3
<1>7. CASE finalize_without_worker \/ finish_journal
  <2>1. /\ UNCHANGED <<worker, holders, status>>
        /\ sup.pc \in {"finalize", "finish"} /\ sup'.pc \in {"unwind", "return"}
        /\ sup'.pc = "return" => sup.pc = "finalize"
    BY <1>7 DEF finalize_without_worker, finish_journal, Writes
  <2> QED
    BY <2>1
<1>8. CASE unwind \/ return \/ main
  BY <1>8 DEF unwind, drop_process, return, main
<1>9. CASE ChildExecs \/ ChildExecFails \/ WorkerExits
  BY <1>9 DEF ChildExecs, ChildExecFails, WorkerExits, kept_by_exec
<1>10. CASE ClientReads \/ wait \/ ParentExits \/ ParentIsReaped \/ PidIsReused
  BY <1>10 DEF ClientReads, wait, ParentExits, ParentIsReaped, PidIsReused
<1>11. CASE ClientKills
  BY <1>11 DEF ClientKills
<1>12. CASE \E signal \in Terminal : SignalArrives(signal)
  BY <1>12, ReceiveKeepsWorker DEF SignalArrives
<1>13. CASE ClientTimesOut \/ cancel
  <2>1. CASE Receive("SIGINT")
    BY <1>13, <2>1, ReceiveKeepsWorker DEF ClientTimesOut, cancel, Terminal
  <2>2. CASE UNCHANGED <<monitor, holders, status>>
    BY <1>13, <2>2 DEF ClientTimesOut, cancel
  <2> QED
    BY <1>13, <2>1, <2>2 DEF ClientTimesOut, cancel
<1> QED
  BY <1>1, <1>2, <1>3, <1>4, <1>5, <1>6, <1>7, <1>8, <1>9, <1>10, <1>11, <1>12, <1>13
  DEF Next, Supervisor, World

-----------------------------------------------------------------------------
(* The outcome, the report and the client.                                 *)

\* What finalize_without_worker reports is what it was given.
LEMMA TerminalKindKeeps ==
    ASSUME NEW r \in Outcomes, r.kind \notin {"PolicyIntervention", "PartialArtifactFailure"}
    PROVE  terminal_kind(r) = r
<1>1. CASE r.kind = "SupervisorFailure"
  <2>1. r \in [kind : {"InvalidConfiguration", "SupervisorFailure", "PartialArtifactFailure",
                       "PolicyIntervention", "LaunchNotExecutable", "LaunchNotFound"},
               code : {None}]
    BY <1>1 DEF Outcomes, ChildOutcomes
  <2>2. r = [kind |-> "SupervisorFailure", code |-> None]
    BY <1>1, <2>1
  <2> QED
    BY <1>1, <2>2 DEF terminal_kind, Result
<1>2. CASE r.kind # "SupervisorFailure"
  BY <1>2 DEF terminal_kind, Outcomes, ChildOutcomes
<1> QED
  BY <1>1, <1>2

LEMMA WritesKeepsOutcome ==
    ASSUME Typed, OutcomeOK, NEW next \in {"unwind", "return"}, status = None, UNCHANGED status,
           sup.outcome \in Outcomes, Writes(sup.outcome, next)
    PROVE  OutcomeOK'
<1>1. /\ sup'.pc = next
      /\ \/ sup'.report = sup.outcome /\ sup'.outcome = sup.outcome
         \/ sup'.outcome = Result("PartialArtifactFailure")
  BY DEF Writes, Typed, Supervisors
<1>2. /\ Result("PartialArtifactFailure").kind = "PartialArtifactFailure"
      /\ Result("PartialArtifactFailure") # None /\ sup.outcome # None
  BY ResultIsOutcome, OutcomeIsSome DEF Result
<1> QED
  BY <1>1, <1>2 DEF OutcomeOK

LEMMA ReceiveKeepsOutcome ==
    ASSUME Typed, OutcomeOK, NEW s \in Terminal, Receive(s), UNCHANGED sup
    PROVE  OutcomeOK' /\ ~(status' # None /\ status'.how = "exit")
<1>1. monitor.disposition[s] \in Dispositions
  BY DEF Typed, Monitors
<1>2. CASE UNCHANGED status
  BY <1>2 DEF OutcomeOK, Receive, Alive
<1>3. CASE status' = [how |-> s, code |-> None]
  BY <1>3 DEF OutcomeOK, Terminal
<1> QED
  BY <1>1, <1>2, <1>3 DEF Receive, Dispositions

LEMMA OutcomeStep ==
    ASSUME Typed, MonitorOK, OutcomeOK, Next
    PROVE  OutcomeOK'
<1> USE DEF Typed, Supervisors, Alive, At, Goto, Fails
<1>0. \A kind \in {"InvalidConfiguration", "SupervisorFailure", "LaunchNotExecutable",
                  "LaunchNotFound"} :
          /\ Result(kind) # None
          /\ Result(kind).kind \notin {"PolicyIntervention", "PartialArtifactFailure"}
  BY ResultIsOutcome, OutcomeIsSome DEF Result
<1>1. CASE \/ Parse \/ client_ready \/ configure \/ parent_watch_state \/ ReadParentPid
           \/ establish_parent_watch
  <2>1. CASE Parse
    BY <2>1, ResultIsOutcome, OutcomeIsSome DEF OutcomeOK, Parse
  <2>2. CASE client_ready
    BY <2>2, ResultIsOutcome, OutcomeIsSome DEF OutcomeOK, client_ready
  <2>3. CASE configure
    BY <2>3, ResultIsOutcome, OutcomeIsSome DEF OutcomeOK, configure
  <2>4. CASE parent_watch_state
    BY <2>4, ResultIsOutcome, OutcomeIsSome DEF OutcomeOK, parent_watch_state
  <2>5. CASE ReadParentPid
    BY <2>5, ResultIsOutcome, OutcomeIsSome DEF OutcomeOK, ReadParentPid
  <2>6. CASE establish_parent_watch
    BY <2>6, ResultIsOutcome, OutcomeIsSome DEF OutcomeOK, establish_parent_watch
  <2> QED BY <1>1, <2>1, <2>2, <2>3, <2>4, <2>5, <2>6
<1>2. CASE initialize \/ install
  <2>1. CASE initialize
    BY <1>0, <2>1, ResultIsOutcome, OutcomeIsSome DEF OutcomeOK, initialize
  <2>2. CASE install
    BY <1>0, <2>2, ResultIsOutcome, OutcomeIsSome DEF OutcomeOK, install
  <2> QED BY <1>2, <2>1, <2>2
<1>3. CASE restore
  BY <1>3 DEF OutcomeOK, restore
<1>4. CASE fork \/ spawn
  <2>1. CASE fork
    BY <1>0, <2>1, ResultIsOutcome, OutcomeIsSome DEF OutcomeOK, fork
  <2>2. CASE spawn
    BY ZenonT(60), <1>0, <2>2, ResultIsOutcome, OutcomeIsSome DEF OutcomeOK, spawn
  <2> QED BY <1>4, <2>1, <2>2
<1>5. CASE validate_group \/ inspect_root \/ negotiate_checkpoint_endpoint
  <2>1. \A r \in ChildOutcomes :
            r # None /\ r.kind \notin {"PolicyIntervention", "PartialArtifactFailure"}
    BY OutcomeIsSome DEF Outcomes, ChildOutcomes
  <2> QED
    BY ZenonT(60), <1>0, <1>5, <2>1, ResultIsOutcome, OutcomeIsSome
    DEF OutcomeOK, validate_group, inspect_root, negotiate_checkpoint_endpoint,
        early_exit_or_failure, StepSucceeds, StepFails
<1>6. CASE notify \/ CheckParent \/ ConfirmParent \/ poll \/ StopWorker
  BY <1>6 DEF OutcomeOK, notify, CheckParent, ConfirmParent, poll, StopWorker
<1>7. CASE LoopEnds \/ LoopFails
  <2>1. \A r \in ChildOutcomes : r # None
    BY OutcomeIsSome DEF Outcomes
  <2> QED
    BY ZenonT(60), <1>7, <2>1, ResultIsOutcome, OutcomeIsSome DEF OutcomeOK, LoopEnds, LoopFails
<1>8. CASE finalize_without_worker
  <2>1. sup.outcome \in Outcomes /\ terminal_kind(sup.outcome) = sup.outcome
    BY <1>8, TerminalKindKeeps DEF OutcomeOK, finalize_without_worker
  <2> QED
    BY <1>8, <2>1, WritesKeepsOutcome DEF finalize_without_worker
<1>9. CASE finish_journal
  BY <1>9, WritesKeepsOutcome DEF OutcomeOK, finish_journal
<1>10. CASE unwind \/ return
  BY <1>10 DEF OutcomeOK, unwind, return
<1>11. CASE main
  BY <1>11 DEF OutcomeOK, main
<1>12. CASE \/ ChildExecs \/ ChildExecFails \/ WorkerExits \/ ClientReads \/ wait
            \/ ParentExits \/ ParentIsReaped \/ PidIsReused
  BY <1>12 DEF OutcomeOK, ChildExecs, ChildExecFails, WorkerExits, ClientReads, wait, ParentExits,
       ParentIsReaped, PidIsReused
<1>13. CASE ClientKills
  BY <1>13 DEF OutcomeOK, ClientKills
<1>14. CASE \E signal \in Terminal : SignalArrives(signal)
  BY <1>14, ReceiveKeepsOutcome DEF SignalArrives
<1>15. CASE ClientTimesOut \/ cancel
  <2>1. CASE Receive("SIGINT")
    BY <1>15, <2>1, ReceiveKeepsOutcome DEF ClientTimesOut, cancel, Terminal
  <2>2. CASE UNCHANGED status
    BY <1>15, <2>2 DEF OutcomeOK, ClientTimesOut, cancel
  <2> QED
    BY <1>15, <2>1, <2>2 DEF ClientTimesOut, cancel
<1> QED
  BY <1>1, <1>2, <1>3, <1>4, <1>5, <1>6, <1>7, <1>8, <1>9, <1>10, <1>11, <1>12, <1>13, <1>14, <1>15
  DEF Next, Supervisor, World

\* The supervisor and the client agree on what an outcome exits with.
LEMMA CodesAgree == \A r \in Outcomes : exit_code(r) = expected_exit_code(r)
BY DEF exit_code, expected_exit_code

\* Once it has ended, a supervisor stays as it was.
LEMMA EndedStays ==
    ASSUME Next, ~Alive
    PROVE  UNCHANGED <<status, sup>>
<1> USE DEF Alive, At
<1>1. CASE Supervisor
  BY <1>1 DEF Supervisor, Parse, client_ready, configure, parent_watch_state, ReadParentPid,
       establish_parent_watch, initialize, install, restore, fork, spawn, validate_group,
       inspect_root, negotiate_checkpoint_endpoint, notify, poll, CheckParent, ConfirmParent,
       StopWorker, LoopEnds, LoopFails, finalize_without_worker, finish_journal, unwind, return,
       main
<1>2. CASE World
  BY <1>2 DEF World, SignalArrives, Receive, ChildExecs, ChildExecFails, WorkerExits, ParentExits,
       ParentIsReaped, PidIsReused, ClientReads, ClientTimesOut, ClientKills, cancel, wait
<1> QED
  BY <1>1, <1>2 DEF Next

LEMMA ClientStep ==
    ASSUME Typed, OutcomeOK, ClientOK, Next
    PROVE  ClientOK'
<1> USE DEF ClientOK, ClientHearsTheTruth, Alive
<1>1. CASE client' = client
  <2>1. CASE Alive
    BY <1>1, <2>1
  <2>2. CASE ~Alive
    BY <1>1, <2>2, EndedStays
  <2> QED
    BY <2>1, <2>2
<1>2. CASE client' \notin {"failed", "RunResult", "ResultMismatchError"}
  BY <1>2
<1>3. CASE ClientTimesOut /\ client' = "failed"
  BY <1>3 DEF ClientTimesOut
<1>4. CASE ClientKills
  <2>1. [how |-> "SIGKILL", code |-> None] # None
    BY NoneAssumption DEF Statuses
  <2> QED
    BY <1>4, <2>1 DEF ClientKills
<1>5. CASE wait
  <2>1. client' = "ResultMismatchError" /\ status.how = "exit" =>
            sup.outcome.kind = "PartialArtifactFailure"
    <3> SUFFICES ASSUME client' = "ResultMismatchError", status.how = "exit"
                 PROVE  sup.outcome.kind = "PartialArtifactFailure"
      OBVIOUS
    <3>1. /\ sup.report # None /\ sup.report \in Outcomes
          /\ status.code # expected_exit_code(sup.report) /\ status # None
      BY <1>5 DEF wait, Typed, Supervisors
    <3>2. status.code = exit_code(sup.outcome)
      BY <3>1 DEF OutcomeOK
    <3>3. sup.report # sup.outcome
      BY <3>1, <3>2, CodesAgree
    <3> QED
      BY <3>1, <3>3 DEF OutcomeOK
  <2>2. client' = "RunResult" =>
            sup.report = sup.outcome \/ expected_exit_code(sup.report) = 74
    <3> SUFFICES ASSUME client' = "RunResult", sup.report # sup.outcome
                 PROVE  expected_exit_code(sup.report) = 74
      OBVIOUS
    <3>1. /\ sup.report # None /\ status # None /\ status.how = "exit"
          /\ status.code = expected_exit_code(sup.report)
      BY <1>5 DEF wait
    <3>2. status.code = exit_code(sup.outcome) /\ sup.outcome.kind = "PartialArtifactFailure"
      BY <3>1 DEF OutcomeOK
    <3>3. exit_code(sup.outcome) = 74
      BY <3>2 DEF exit_code
    <3> QED
      BY <3>1, <3>2, <3>3
  <2> QED
    BY <1>5, <2>1, <2>2 DEF wait
<1>6. CASE Supervisor
  BY <1>1, <1>6 DEF Supervisor, Parse, client_ready, configure, parent_watch_state, ReadParentPid,
       establish_parent_watch, initialize, install, restore, fork, spawn, validate_group,
       inspect_root, negotiate_checkpoint_endpoint, notify, poll, CheckParent, ConfirmParent,
       StopWorker, LoopEnds, LoopFails, finalize_without_worker, finish_journal, unwind, return,
       main
<1>7. CASE World
  BY <1>1, <1>2, <1>3, <1>4, <1>5, <1>7
  DEF World, SignalArrives, ChildExecs, ChildExecFails, WorkerExits, ParentExits, ParentIsReaped,
      PidIsReused, ClientReads, ClientTimesOut, cancel
<1> QED
  BY <1>6, <1>7 DEF Next

-----------------------------------------------------------------------------
(* The invariant, and what follows from it.                                *)

LEMMA InitIInv == ASSUME Init PROVE IInv
<1>1. Typed
  BY InitTyped
<1>2. ConfigOK /\ WatchOK
  BY NoneAssumption DEF Init, ConfigOK, WatchOK, Processes
<1>3. MonitorOK
  BY DEF Init, MonitorOK, AllUntouched, Untouched, Unguarded, Guarded, Launched
<1>4. PipeOK
  BY StartupAssumption DEF Init, PipeOK, NothingCaught, Unguarded, Launched
<1>5. WorkerOK
  BY DEF Init, WorkerOK, Alive, Unguarded
<1>6. OutcomeOK /\ ClientOK
  BY DEF Init, OutcomeOK, ClientOK, ClientHearsTheTruth, Alive
<1> QED
  BY <1>1, <1>2, <1>3, <1>4, <1>5, <1>6 DEF IInv

LEMMA NextIInv == ASSUME IInv, [Next]_vars PROVE IInv'
<1>1. CASE Next
  BY <1>1, TypedStep, ConfigStep, WatchStep, MonitorStep, PipeStep, WorkerStep, OutcomeStep,
     ClientStep DEF IInv
<1>2. CASE UNCHANGED vars
  BY <1>2 DEF vars, IInv, Typed, ConfigOK, WatchOK, wants_detach, MonitorOK, InstallOK, RollbackOK,
     DropOK, AllUntouched, AllTaken, Taken, Untouched, Replaced, Spared, PipeOK, NothingCaught,
     WorkerOK, OutcomeOK, ClientOK, ClientHearsTheTruth, Alive
<1> QED
  BY <1>1, <1>2

LEMMA Invariance == Spec => []IInv
BY InitIInv, NextIInv, PTL DEF Spec

\* TerminalSignalMonitor and OwnedProcess: no terminal signal ends the supervisor
\* over a command that may run, none that was caught is lost while one may run,
\* and every way out puts back the inherited dispositions.
THEOREM SignalSafety == Spec => []SignalsAreSafe
<1>1. ASSUME IInv PROVE SignalsAreSafe
  <2>1. TypeOK
    BY <1>1 DEF IInv, Typed, Monitors, Supervisors, PipeOK, TypeOK, Ended
  <2>2. SignalNeverOrphans
    BY <1>1 DEF IInv, WorkerOK, SignalNeverOrphans, Ended, Terminal
  <2>3. DispositionsRestored
    <3>1. sup.pc \in {"return", "exit"} => monitor.disposition = config.inherited
      <4>1. /\ monitor.disposition \in [Terminal -> Dispositions]
            /\ config.inherited \in [Terminal -> {"default", "ignored"}]
        BY <1>1, StartupAssumption DEF IInv, Typed, Monitors
      <4>2. sup.pc \in {"return", "exit"} =>
                \A s \in Terminal : monitor.disposition[s] = config.inherited[s]
        BY <1>1 DEF IInv, MonitorOK, AllUntouched, Untouched
      <4> QED
        BY <4>1, <4>2
    <3>2. config.inherited["SIGHUP"] = "ignored" => hangup_is_ignored
      BY <1>1 DEF IInv, MonitorOK, Spared, Untouched, hangup_is_ignored, Terminal
    <3> QED
      BY <3>1, <3>2 DEF DispositionsRestored
  <2>4. CaughtSignalsAreKept
    <3> SUFFICES ASSUME sup.pc \in Launched \cup {"launch"}
                 PROVE  LET kept == monitor.drained \o monitor.pipe
                            n == IF Len(monitor.caught) < PipeCapacity THEN Len(monitor.caught)
                                 ELSE PipeCapacity
                        IN Len(kept) >= n /\ IsPrefix(SubSeq(monitor.caught, 1, n), kept)
      BY DEF CaughtSignalsAreKept, Launched
    <3> DEFINE kept == monitor.drained \o monitor.pipe
               caught == monitor.caught
               n == IF Len(caught) < PipeCapacity THEN Len(caught) ELSE PipeCapacity
    <3>1. kept \in Seq(Terminal) /\ caught \in Seq(Terminal) /\ Tracks(kept, caught)
      BY <1>1 DEF IInv, Typed, Monitors, PipeOK
    <3> HIDE DEF kept, caught
    <3>2. PipeCapacity \in Nat /\ Len(kept) \in Nat /\ Len(caught) \in Nat
      BY <3>1, StartupAssumption
    <3>3. n \in Nat /\ n <= Len(kept) /\ n <= Len(caught) /\ n <= PipeCapacity
      BY <3>1, <3>2 DEF Tracks
    <3> HIDE DEF n
    <3>4. SubSeq(caught, 1, n) = SubSeq(kept, 1, n)
      <4>1. \A i \in 1 .. n : caught[i] = kept[i]
        BY <3>1, <3>2, <3>3 DEF Tracks
      <4> QED
        BY <3>1, <3>2, <3>3, <4>1
    <3>5. Len(SubSeq(caught, 1, n)) = n
      BY <3>1, <3>2, <3>3
    <3>6. IsPrefix(SubSeq(caught, 1, n), kept)
      BY <3>2, <3>3, <3>4, <3>5 DEF IsPrefix
    <3> QED
      BY <3>2, <3>3, <3>6 DEF kept, caught, n
  <2> QED
    BY <2>1, <2>2, <2>3, <2>4 DEF SignalsAreSafe
<1> QED
  BY <1>1, Invariance, PTL

\* The Python client: readiness is seen as soon as there is any, a start that
\* failed has left no supervisor, and a command only where the client had to kill
\* the supervisor or the command was only observed, and the result returned is the
\* outcome there was, unless the command's own code is the one that says its report
\* could not be finished.
THEOREM ClientSafety == Spec => []ClientIsNotMisled
<1>1. ASSUME IInv PROVE ClientIsNotMisled
  <2>1. ReadinessIsSeen
    BY <1>1 DEF IInv, Typed, WorkerOK, ReadinessIsSeen
  <2>2. FailedStartLeavesNoSupervisor
    BY <1>1 DEF IInv, ClientOK, WorkerOK, FailedStartLeavesNoSupervisor, Alive, Ended
  <2> QED
    BY <1>1, <2>1, <2>2 DEF IInv, ClientOK, ClientIsNotMisled
<1> QED
  BY <1>1, Invariance, PTL

\* parent_watch_state, establish_parent_watch and parent_has_exited: no exit of a
\* parent is made up, and what the watch holds passes the report's validation.
THEOREM ParentWatchSafety == Spec => []ParentWatchIsTrue
<1>1. ASSUME IInv PROVE ParentWatchIsTrue
  <2>1. NoFalseParentExit
    BY <1>1 DEF IInv, WatchOK, NoFalseParentExit
  <2>2. WatchIsValid
    BY <1>1, StartupAssumption
    DEF IInv, Typed, WatchOK, WatchIsValid, parent_watch_valid, wants_detach, Unwatching
  <2> QED
    BY <2>1, <2>2 DEF ParentWatchIsTrue
<1> QED
  BY <1>1, Invariance, PTL

\* parse_cli: once past it, no later check of the options refuses them.
THEOREM AcceptedStaysUsable == Spec => []AcceptedIsUsable
<1>1. ASSUME IInv PROVE AcceptedIsUsable
  <2>1. config.raw \in RawOptions /\ config.mode \in {"run", "observe"}
    BY <1>1, StartupAssumption DEF IInv, Typed
  <2>2. sup.pc \notin {"parse", "exit"} => accepted(config.mode, config.raw)
    BY <1>1 DEF IInv, ConfigOK
  <2> QED
    BY <2>1, <2>2, AcceptedRunIsUsable, AcceptedObserveIsUsable DEF AcceptedIsUsable, options
<1> QED
  BY <1>1, Invariance, PTL
=============================================================================
