# A verification development for mlx-guard

mlx-guard launches a command in a process group of its own, samples the memory
footprint of that group and, in `run` mode, enforces a footprint limit and a
wall-time limit: it asks a cooperating worker to save a checkpoint, sends TERM,
waits a grace and sends KILL. In `observe` mode it only watches. Both write a
journal as they go and a report at the end. This directory models the
supervision, the sampling it rests on, the checkpoint exchange, the start and
end of the supervisor with its client, and the journal in TLA+, checks them with
TLC on small instances, and proves with TLAPS, for every value of the constants,
the safety of the policy machine, of the start, of the checkpoint exchange, of
the observing loop, of the sampling and the evidence made of it, and of the
journal, which is shown to implement an append-only log.

## Inventory

| Part | State | Operations | Interaction |
| --- | --- | --- | --- |
| Policy machine (`policy.rs`) | state, two streaks, request id, two deadlines, last event time, intervention latch | one handler per event | pure: takes events, returns actions |
| Intervention engine (`intervention.rs`) | the machine, a ring of 64 attempts, counters, last footprint | `handle`, `observe_group_status` | executes the machine's actions, feeds failures back as events |
| Checkpoint channel (`checkpoint.rs`) | negotiation buffer, protocol state, frame buffer, deadline | negotiate, request, poll, cancel | a stream socket to the worker, SIGUSR1 |
| Checkpoint worker (`_checkpoint.py`) | pending, handled, closed, previous handler | connect, poll, close, signal handler | the other end of the socket |
| Run loop (`runtime.rs`, `RunRuntime`) | root outcome, parent watch, negotiation, checkpoint record, result latches | one turn of `sample_until_exit`; `fail_supervisor` | owns all of the above and the process |
| Completion (`completion.rs`) | none | `complete` | reads the latches |
| Process control (`process_control.rs`) | child, process group, signal pipe | wait, query, signal, drop | the operating system |
| Observe loop (`ObserveRuntime`) | root outcome, parent watch, shutdown deadline, signal count, failed observation | one turn of `sample_until_exit`; relinquish or drop | observe-mode policy machine, the process |
| Journal (`persistence.rs`) | journal file, temporary, report, sequence number, first failure | initialize, append, sync, finalize, read back, replay | written by both loops, read by finalization and recovery |
| Identity tracker and inventory (`identity.rs`) | tracked identities with a sticky escaped mark, escaped evidence, their count | snapshot (list, read three times), `update`, cleanup, identity-checked signal | reads the kernel's process table, which moves |
| Sampler and advisory (`sampling.rs`, `advisory.rs`) | sample history, pressure counters, growth baseline, peaks | `record_snapshot`, `observe`, `calibrate` | feed the policy and the report; counters are shared with a dispatch thread |
| Command line (`lib.rs`) | none | `parse_cli` and the configurations derived from it | policy machine, sampler and report each validate their own |
| Start and end (`runtime.rs`, `process_control.rs`) | signal dispositions and pipe, parent identity, readiness descriptor | `execute_run`, `execute_observe`, install and drop of the monitor, `poll`, parent watch, `exit_code` | the terminal, the launching parent, the client |
| Python client (`_client.py`) | child process, readiness pipe | start, cancel, wait | starts a supervisor, checks its code against its report |
| Report schema (`report.rs`) | none | `validate` | refuses what the loops, sampler and command line may not produce |
| Explain (`explain.rs`) | none | `explain_report` | reads a finished report |

What is hard to test in it: the world moves between any two system calls of the
single-threaded loop (the root exits, descendants survive, the user presses
Ctrl-C, the parent dies, a signal is refused); the checkpoint's stream splits
and coalesces frames while its deadline runs; two processes share a signal
disposition; several latches, written at different moments, must agree when the
report is made; processes fork, leave the group, exit and have their pid reused
between the calls of one snapshot; the pressure counters are stored one by one
while they are read; signals and the parent's exit fall between any two steps of
the start; and the supervisor or the host may go down between a write, its
sync and the rename that publishes a report. `PROJECT.json` lists these hazards at their lines.

What makes each part correct: the machine never initiates in observe mode,
never asks twice, never moves a deadline, and once it has begun a shutdown it
ends in KILL or in a reported failure; the engine loses no failed attempt and
attributes the right records to the right event; a sample counts only the command's processes, and
one that claims to be complete counts them all; an escape once seen stays
reported, and cleanup claims an empty group only when it is; what a sample says
passes the report's own validation; a start that fails leaves no supervisor, no
signal disposition and no unread result behind, and a command only where the
supervisor was killed; an accepted command line never fails later; the channel
accepts only a timely answer to the open request, the worker's own unless a
descendant answers in its place, and signals only a process with a handler; the loop
leaves no orphan, gives each signal a reason, honours the grace, ends, and its
result says truthfully who ended the command; the observing loop kills only when
a second terminal signal or the parent's exit asks for it and reports whom it
leaves behind; the journal recovers to a prefix that holds every synchronized
record, explains each signal that was sent, and a report is whole, durable and
faithful whenever success is claimed.

## Modules

- **`PolicyMachine`**: `PolicyMachine` as operators on a record with the
  fields of the struct. `apply` returns the new machine and the list of
  actions, `apply_*` are the handlers under their own names. `begin_shutdown`
  and `clear_request` name assignments the handlers repeat. Counters and
  durations saturate at the constants `MaxCount` and `MaxDuration`.
- **`PolicyMachineSpec`** closes it with an environment that feeds any event at
  any time, including earlier ones; an acknowledgement or a failed actuation
  only comes for an action that was requested. **`PolicyMachineProofs`** holds the proofs.
- **`InterventionEngine`**, **`InterventionEngineSpec`**:
  `handle_with_transition_observer` split at each platform call into `begin`
  and `executed`; an attempt that fails is fed back as `ActuationFailed` and its
  actions go to the end of the queue, as in the code. `RunProofs` holds the proofs.
- **`CheckpointChannel`**: protocol and channel as operators. A frame is two
  halves, which is what it takes for a read to end inside a frame, and carries
  a nonce, a request id and a status.
- **`CheckpointExchange`**: the supervisor's side (negotiation, request write,
  signal, polls, tick, sleep), the socket, the signal and the Python worker's
  side as interleaved steps, plus foreign signals, exits, and a descendant that
  holds the inherited descriptor: it may write frames of other runs and requests
  (`Bogus`), write the worker's own frames in its place (`Plausible`, recorded in
  `answered`) and read what was meant for the worker (`Intercept`).
  **`CheckpointProofs`** holds the proofs.
- **`IdentityTracker`**: `update` and what it rests on as operators on a record
  with the fields of the struct, a snapshot being a set of observations and a
  set of failures.
- **`FootprintSampling`**: extends it with the kernel's process table and the
  native inventory, one action per system call: the group is listed, then the
  children of every listed pid, then each pid is read three times, while
  processes fork, leave the group, exit, are reaped and have their pid reused
  by a stranger. The three uses of a snapshot are actions: a sample of either
  loop, the wait for an empty group, and the identity check before SIGUSR1.
  **`FootprintProofs`** holds the proofs.
- **`ReportSchema`**: the rules of `ReportV1::validate` that relate what other
  parts produce. The modules that produce it evaluate them.
- **`SampleEvidence`**: extends it with what becomes of one snapshot: the
  sampler's clock checks, the number the policy gets, the pressure counters
  that the dispatch thread stores one at a time, growth, peaks and the window
  written to the report. **`SampleProofs`** holds the proofs.
- **`Configuration`**: `parse_cli`'s numeric options and the configurations
  `run_policy_config`, `sampling_config`, `run_configuration` and
  `observe_configuration` derive, with the validation each of the policy
  machine, the sampler and the report applies. `StartupProofs` holds the proofs.
- **`Startup`**: extends it with everything around the loop, one action per step
  that may fail: the journal, the readiness descriptor, the signal monitor's
  install and roll-back, the parent watch, the launch, the finalization of every
  way to end, `exit_code`, and the Python client's start, cancel and wait. The
  loop itself is only that it polls signals, asks for the parent and ends.
  **`StartupProofs`** holds the proofs.
- **`Explain`**: `explain_report` for the reports of the run loop: the row that
  is chosen, and the action clause as a set of claims.
- **`OwnedGroup`**: the process group both loops own (the root and one
  descendant at a time) and what the kernel answers about it.
- **`RunRuntime`**: extends `InterventionEngine` and `OwnedGroup`; `sample_until_exit` with one
  action per system call, `prepare_run_worker` after the launch,
  `fail_supervisor`, the end of `run` and the drop of the owned process. The
  world is the root, one descendant at a time, the parent, the user and the
  worker. `pc` is the supervisor's place in its turn, `run` the struct's
  latches, `call` the `apply_event` in progress. The channel is reduced to what
  a poll of it may return; `CheckpointExchange` is the channel itself. Signals
  and transitions are kept as the report keeps them, so that the finished
  report is given to `Explain` and its checkpoint record to `ReportSchema`.
  **`RunProofs`** holds the proofs about it and about the engine it extends.
- **`ObserveRuntime`**: extends `PolicyMachine` and `OwnedGroup`;
  `prepare_observe_worker` after the launch, the observing `sample_until_exit`
  with one action per system call, and the `ObserveFinal` of each completion
  (`complete_root`, `complete_parent_exit`, `complete_failure`), which either
  relinquishes the group or leaves it to the drop. `obs` holds the struct's
  latches. **`ObserveProofs`** holds the proofs.
- **`JournalFormat`**: the byte stream as a sequence of writes (magic; length,
  payload and checksum of each record; junk for lost or torn bytes),
  `read_file` (as `read_records` and `read_status`) and `to_report`.
- **`Journal`**: `SecureJournal` and `ResilientJournal` on a disk, with one
  action per system call. `synced` is how much of the file is stable,
  `crashDirs` are the directories a crash may leave, `inode` the report files.
  A run observes samples and performs acts; `Run` records a transition before
  each act and its signal after it, `Observe` the signal only. Transitions
  without a signal are left out: they are appended in the same way. A run that
  fails to launch or to bind its root ends with `FinalizeWithoutWorker`.
- **`DurableLog`**: what the journal promises, an append-only log with a durable
  prefix. `Journal` implements it with `log` as the records `read_file` returns
  and `durable` as how many of them are entirely in the stable part of the file.
  **`JournalProofs`** holds the proofs about the journal, this one among them.
- **`MC*`** modules give the constants' values. Operators marked *Mutant* are
  plausible bugs, kept beside what they alter to show that a property can fail.

Data are abstracted: footprints are a few numbers on each side of the
thresholds, a time unit is one sampling interval, signals have no payload but
their kind. The journal's writes are left out of the two loop models: a failing
one changes none of the latches there, only the result, and `Journal` models
what the loops record and in which order. A journal entry is its kind and, for
a sample, its number.

## Runs

| Run | Question | Bounds |
| --- | --- | --- |
| `policy_machine` | Is the machine safe under any order of events, in both modes? `EscalationArmed`, `AtMostOneCheckpointRequest`, `NoUnprovokedIntervention`, `DeadlinesNeverMove`, `InterventionIsFinal` | counters saturate at 2, so that a threshold of 2 and its saturation both occur |
| `intervention_engine` | Is each attempt recorded, attributed and escalated? `AttemptsAreRecorded`, `FailuresEscalate`, `LatenciesAgree` | 4 attempts and a ring of 3, so that it overflows |
| `checkpoint_exchange` | Is only a timely answer to the open request heard, the worker's own unless a descendant gave it, and is SIGUSR1 safe up to `close`? `AckIsHeardAndGenuine`, `SignalFindsHandler` | timeout 3, two frames of a descendant (so that it may both announce readiness and answer), any number of frames it takes from the worker, one foreign signal |
| `run_lifecycle` | Does the loop leave no orphan and report the truth? `NothingIsLeftBehind`, `EverySignalHasAReason`, `HonestResult`, `GraceHonoured`; and is the report explained by its cause and by signals that were really delivered? `ExplanationIsTrue` | one signal, one fault, one fork, five intervals |
| `run_checkpoint` | Do the checkpoint record's fields agree, and does the explanation stay true with checkpoints? `CheckpointRecordAgrees`, `ExplanationIsTrue` | one signal, one fault, both limits |
| `run_termination` | Does a run that must end, end? `RunEnds` | no faults, one signal, one fork |
| `observe` | Does observing kill nobody unasked, leave nobody unreported, let a parent's exit own what follows it, and end once the root or the parent has? `CommandIsLeftAlone`, `ParentExitIsEnforced`, `ObserveEnds` | two signals (the second is the one that kills), one fault, one fork, six intervals; two unusable samples fail the observation during a grace of two |
| `journal` | What do recovery, report and result say after failures and crashes? `RecoveryAccountsForTheRun`, `ReportOutlivesCrashes`, `FinalReportFaithful`, `UndisturbedRunFinishes`; and is the journal an append-only log with a durable prefix? `ImplementsLog` | two runs on the path, two samples with a ring of one (so the ring drops one and a history reset is written), one act, recovery of 8 records (so that a run may reach the limit), one fault, one crash |
| `identity` | Does a sample of a moving process table count the command's processes and no others, and is an escape found, counted, counted again only when it was lost past the cap, and never taken back? `SampleCountsTheCommand`, `EscapesAreAccountedFor`, `CleanupIsHonest`, `SignalReachesRoot` | three pids and two rounds, or two pids and four rounds, which it takes to see, lose and see again an escape past the cap; two births, one fault; retained evidence of 1 and sums up to 2, so that both limits are met |
| `sampling_evidence` | Does each sample pass the report's rules, with growth, peaks and pressure that are true? `ReportValidates`, `CalibrationIsReal`, `PressureIsCurrent`, `PolicyInputIsReported` | three samples under a clock that steps back, or two against two pressure events and a sleep, or one against two events, a sleep and two failed reads of the clock, or one of any kind; two ticks to the millisecond, so that durations round; history of two |
| `startup` | Does every way to start and to fail leave no orphan, no signal lost and no lie to the client? `SignalsAreSafe`, `ClientIsNotMisled`, `ParentWatchIsTrue`, `AcceptedIsUsable`; and is a parent's exit noticed? `ParentExitIsNoticed` | two signals with a pipe of one (so that it overflows), one fault, one stranger on the parent's pid, a command that exits with 74, the code of an unfinished report, 22 command lines with options at the ends of their ranges, a u64 of 16 bits |

Properties about one question are conjunctions of named parts, the module's type
invariant among them:

| Property | Parts |
| --- | --- |
| `AttemptsAreRecorded` | `TypeOK`, `TailIsThisEvent` |
| `FailuresEscalate` | `FailedSignalEscalates`, `GiveUpOnlyAfterKill` |
| `AckIsHeardAndGenuine` | `TypeOK`, `GenuineAck`, `TimelyAckHeard` |
| `NothingIsLeftBehind` | `TypeOK`, `NoOrphans`, `DropIsLastResort` |
| `ExplanationIsTrue` | `ExplanationNamesTheCause`, `ActionsToldHappened` |
| `CommandIsLeftAlone` | `TypeOK`, `OnlyAuthorisedKills`, `LeftBehindIsReported` |
| `ParentExitIsEnforced` | `ParentExitOwnsResult`, `NoOrphanAfterParentExit` |
| `RecoveryAccountsForTheRun` | `TypeOK`, `AcceptedSurvives`, `SignalsExplained` |
| `ReportOutlivesCrashes` | `WholeReport`, `SuccessMeansDurable` |
| `SampleCountsTheCommand` | `TypeOK`, `MembersAreOurs`, `CompleteMeansAll` |
| `EscapesAreAccountedFor` | `StraysAreFound`, `EscapesAreOurs`, `EscapeCount`, `EscapeIsLatched` |
| `CalibrationIsReal` | `GrowthIsReal`, `PeaksAreOfTheRun` |
| `PressureIsCurrent` | `LevelKeepsUpWithCount`, `FreshLevelIsRecent` |
| `SignalsAreSafe` | `TypeOK`, `SignalNeverOrphans`, `CaughtSignalsAreKept`, `DispositionsRestored` |
| `ClientIsNotMisled` | `ReadinessIsSeen`, `FailedStartLeavesNoSupervisor`, `ClientHearsTheTruth` |
| `ParentWatchIsTrue` | `NoFalseParentExit`, `WatchIsValid` |

`PROJECT.json` names one mutant for each property. The modules hold one for each
part, and each was seen to violate its part.

Larger instances that passed and are not kept for their length: `identity` with
three pids, three births and two rounds (19.8 million states), and with two
pids, three births and three rounds (3.5 million); and a larger instance of
`startup`'s safety properties, without the command line (17.5 million).

The clock stops at `MaxDuration`, where deadlines saturate as well: a deadline
is still reached and no run gets stuck behind the bound. One fault is enough to
reach every failing path since each is entered by a single failure; a refused
TERM followed by a refused KILL is covered by `intervention_engine`, where each
attempt may fail. Deadlock checking is off where the system may stop: a
finished run, a closed channel, an exhausted bound.

A host crash keeps any prefix of the writes that were not synchronized, with any
run of them lost inside it, any of the directories since the last directory
sync, and any unsynchronized report file whole or torn: that is weaker than
what journaling file systems give, and the properties hold under it.

Fairness (`FairSpec` of `RunRuntime`): the supervisor's thread is scheduled; a
process that was sent KILL exits; an exited orphan is reaped. `FairSpec` of
`ObserveRuntime` assumes the first two. `FairSpec` of `Startup` assumes that the
loop comes round to `getppid` and to its confirmation, which every turn of both
loops does. Nothing else is assumed: the command,
the user, the parent and the worker may do nothing.

### Disagreements between the code and its documents

One run states what a document says and is expected to fail:

- `run_failed_kill`: `docs/INTERVENTION.md` ends observation at a terminal
  supervisor error; `sample_until_exit` never asks for it, so a refused KILL
  leaves it sampling while the command lives and 70 is not reported.

Met while modelling and not kept as runs of their own. On ending a command:

- `docs/PROCESS_CONTROL.md:35` and `docs/CLI.md:99` report an intervention when
  KILL was needed after the root's exit; a KILL that follows a refused cleanup
  TERM, or a Ctrl-C during the cleanup, is part of an uncounted event, and the
  command's own status is reported. `HonestResult` excludes these two cases by
  name (`LeavesTheRunToTheCommand`) and holds the sentences to every other.
- `docs/OBSERVE_AND_CALIBRATION.md:6` neither signals nor waits for survivors of
  the root; a root that exits before it is inspected leaves them to the drop,
  which sends KILL. `run` shares this early exit.
- An observing supervisor that fails after it has reaped the root reports no
  `child_status`, which `docs/REPORTS.md` promises "under every outcome kind".
- `owned_group_survivors` is also true of a group of zombies, as
  `owned_group_exists` is.
- A worker's `close()` restores SIGUSR1's default action while the signal of a
  written request may still be on its way.

On explaining it:

- An emergency KILL while a checkpoint request is open is left out of the
  action clause (`explain.rs:354`; `docs/TROUBLESHOOTING.md:239-255`).
- A refused TERM followed by a KILL that found nobody is told as "stopped", and so
  is a Ctrl-C without a recorded cause whose KILL found nobody.
- A Ctrl-C whose command exits just before the end of the grace counts as an
  intervention (75), and its row says that no cause was recorded.
- A KILL after a single Ctrl-C during a footprint shutdown is worded "after a
  second terminal signal".

On identities, samples, the checkpoint, the start and the client:

- Past the evidence cap an escape that a snapshot lost is counted again when it is
  seen again, as `report.rs:516` and `identity.rs:141` say. `EscapeCount` bounds
  the excess by the number of such losses.
- A pressure event that is stored while the sampler loads can leave the old level
  with the new event's time, so that a level of any age is told as fresh by one
  sample; the next one has the event's level. `FreshLevelIsRecent` therefore speaks
  of the newest event the sample loaded anything of, and `LevelKeepsUpWithCount`
  says that it is not left behind twice. When the sampler cannot read the
  monotonic clock it takes the event's own time for now (`advisory.rs:691`) and
  tells any level as fresh.
- A descendant that inherits the descriptor may answer in the worker's place, as
  `docs/CHECKPOINT_PROTOCOL.md:80-83` concedes. A checkpoint is then acknowledged
  on its word, and readiness announced by it lets SIGUSR1 meet a worker without a
  handler; both are exceptions of the properties, tied to what it wrote.
- A command that itself exits with 74 cannot be told by its code from a supervisor
  whose finalization failed (74): `wait` then returns the command's outcome from a
  report that was published but not made durable.
- `descends_from_root` compares the root's pid and not its start token, which
  `docs/IDENTITY_AND_CONTAINMENT.md:5` names; it is sound while the root is
  unreaped, and `MembersAreOurs` is
  stated for that time.
- Between `getppid` and the inspection the parent may exit and its pid be
  reused: the watch then binds a stranger, and later reports nothing false
  (`NoFalseParentExit`).
- The client's KILL one second after its cancel may leave a launched worker
  behind, as `docs/PYTHON_API.md:169-172` concedes; signals caught while the
  install of the monitor fails are swallowed; `AlreadyInstalled` cannot be
  reached from either entry point; a stale report at a shared path whose outcome
  has the same exit code would be accepted by `wait`.
- `PrelaunchSummary` (`advisory.rs:367-407`) is never called, though
  `docs/OBSERVE_AND_CALIBRATION.md:37` promises its warning.
- `docs/CLI.md:21` lets a path be used again once its report and journal are
  removed; a temporary left by a killed run makes the next run's finalization
  fail.

## Proofs

`PolicyMachineProofs` proves, for every valid configuration and every width of
the counters: `TypeCorrect`, `Escalation`, `OneRequest`, `FixedDeadlines` and
`FinalIntervention`, all resting on `Invariance`. `EscalationArmed` is not
inductive alone: a handler that keeps the state relies on which fields are set
in it. The inductive invariant `IInv` is `TypeOK`, the relations `Core` between
the machine's fields, and that a KILL among the last actions is remembered.
`Core` says that an intervention that has started is in one of the shutdown
states, that only a started one holds a TERM deadline, that `Terminating` holds
one and `Emergency` has asked for KILL, that a started `SupervisorError` has
either, that before the first request there is no checkpoint deadline, and which
states each mode can be in. `Lawful` is the law of one step (a deadline is kept
or cleared, an intervention is final) and `Preserves` the conjunction of both;
there is one lemma per handler, and `ApplyLemma` and `StepLemma` combine them
over the events. The only
assumptions are `NoneAssumption`, `WidthAssumption` and the ones on the
specification's constants. `UnprovokedRestraint` needs a second invariant,
`Restraint`: without a reason on record nothing has begun and the machine's two
streaks are covered by the runs of breaches and losses counted from the inputs
alone; without a terminal signal an observing machine has begun nothing.

`StartupProofs` first proves `AcceptedRunIsUsable` and `AcceptedObserveIsUsable`:
whatever `parse_cli` accepts, with any numbers and units and any width of the
integers, gives a policy configuration, a sampling configuration and a report
configuration that their own validators accept, so that none of the later
refusals can meet an accepted command line. `ParsedQuantity` and
`OptionalDurations` bound what parsing returns, `BandStep` says that a tenth of
the limit is positive and smaller than it, `ThresholdsInOrder` orders the warning,
limit and emergency thresholds without a wrap, and `QualityBounds` the sample's
window and age. The assumption is `ConfigurationAssumption`. `AcceptedIsUsable`
of `startup` is its counterpart on 22 command lines.

It then proves the four safety properties of `startup` for every set of
command lines, every pipe capacity and every number of signals, faults and reused
pids. `IInv` has a part per concern: `Typed`; `ConfigOK` (past the parser the
command line in hand is an accepted one, from which `AcceptedStaysUsable` follows
by the two theorems above); `WatchOK` (what the watch holds is what the kernel said
at the moment it was asked, and identities are never reused even when a pid is);
`MonitorOK` with `InstallOK`, `RollbackOK` and `DropOK` (at each step of the
install, the roll-back or the drop, which dispositions are taken and which are
untouched), `PipeOK` (the signals drained and in the pipe are those that were caught, up to
the pipe's capacity), `WorkerOK` (in which places a command may
run and who holds the readiness pipe), `OutcomeOK` (exit code and report agree)
and `ClientOK`. Assumed: `StartupAssumption`, `ConfigurationAssumption`, and
`NoneAssumption`, that `None` is none of the records it stands in for.

`CheckpointProofs` proves `SignalSafety` and `AnswerSafety` for every timeout and
any number of a descendant's frames and of foreign signals. `StreamsOK` says that all the streams
are truthful: an acknowledgement of the request carries the worker's own status
or one a descendant is on record for having answered (`Vouched`), and
readiness is announced only with the handler installed or by that descendant. `WorkerOK` keeps the
worker's order (handler, readiness, one answer), which is why a signal that
follows a ready frame finds a handler; `RequestOK` ties the protocol's record to
the request. That a timely answer is heard needs more: while nobody else writes
on the descriptor, the two halves of a frame are spread in their order over the
worker's output, the socket and the buffer (`Spread`, `UndisturbedOK`), nothing is there
without a request (`QuietOK`), and a poll that starts in time passes no written
answer over (`TimelyOK`).

`ObserveProofs` proves `BystanderSafety` and `ParentExitSafety` for every
configuration, grace and number of signals, faults and forks. The loop does not
remember how it came to a completion, so the invariant says what each place
knows: before a completion nothing is reported, a shutdown is in flight exactly
when TERM was tried (`PlaceOK`), what the last group query found holds for as
long as the decision relies on it (`QueryOK`), nobody is struck unasked
(`StruckOK`), and whoever is left at the end is dead, reported or out of reach
(`ResultOK`, `EndOK`).

`FootprintProofs` proves `SampleSafety`, `CleanupSafety`, `SignalSafety` and
`EscapeSafety` for every set of pids and every number of births, snapshots and
faults. The first three rest on `SamplingInvariant`. `MembersAreOurs` rests on start tokens that only grow: a
token read before and after the group vouches for the group read in between
(`ReadOK`, `ObservedOK`). `CompleteMeansAll` rests on `CoverOK`: a process that
stays in the group from the first listing on is still to be read, was read, or
left a failure, which makes the sample partial. `EndpointOK` and `CleanupOK` rest
on the pid of an unreaped root being nobody else's. The kernel's steps are
handled once, by the lemmas about `Drift`, what the world may do between two
system calls. `FiniteSetTheorems` gives the finiteness of the sets that are
summed; only that the sum is a number is used, not its value.

`EscapeSafety` rests on a second invariant over the first, `EscapeInvariant`.
`KinOK` ties the table to the command: a parent in the table is alive, and whoever
has a parent of the command is of the command. `NamedOK` says that as long as no
pid is reused inside a snapshot, a pid read once names the same process to the
end; the pids of strangers are then closed under taking the parent, and since a
process descends from the root only if every such closed set holds the root's pid,
no stranger does (`KeptAreOurs`, for `EscapesAreOurs`). `StrayOK` follows a process
outside the group: a tracked one is in the scope, a child of the root is listed
when the root's turn in the queue comes, and then it is read there or its failure
makes the sample partial (`StraysAreFound`). `CountOK` adds to `EscapeCount` that
the evidence is the set of all escapes for as long as they fit, which needs
`OnceOK`, that one snapshot reads no pid twice, and the order by pid in which
evidence is retained (`Ranks`, `Retained`). Past the cap `LapseInvariant` bounds the
count: the count and the escapes that neither evidence nor mark remembers
(`Forgotten`) stay together within the escapes seen and the losses. `LatchedOK` adds to `EscapeIsLatched`
where the cleanup stops the flag from following. Assumed: `InventoryAssumption`,
`IdentityAssumption`, and `ReportAssumption`, that a cleanup report is not `None`.

`SampleProofs` proves the four properties of `sampling_evidence` for every scale
of the clock and every budget. Two arguments meet in its `IInv`. The dispatch
thread stores level, time and count and the reader loads count, level and time:
`CountersOK` keeps the three counters within the event being stored, and
`LoadedOK` says that the level in hand is older neither than the count nor than
the event whose time the last sample loaded (`Told`), and that the time in hand is
not later than that of the newest event anything was loaded of (`Newest`), from
which `PressureSafety` follows.
And as long as the clock does not step back, all that is kept of earlier samples
is dated before the sample in hand (`PastOK`, `CurrentOK`), which rounding keeps
in order (`RoundedInOrder`), so that every window and the artifact validate
(`ReportSafety`). `GrowthOK` says that the baseline is the last sample when that
one was complete and in order, `CalibrationOK` that the peaks are the highest of
all values seen (`CalibrationSafety`), `PolicyOK` that the policy's number is the
measurement in hand (`PolicyInputSafety`). Assumed: `EvidenceAssumption`.

`JournalProofs` proves, for any number of runs, records, failing calls and
crashes, `ReportDurability` from `ReportInv` (every directory a crash may leave
names only whole files that are on stable storage, and how far the running
finalization has got), `RecoverySafety` from `StreamInv` and
`JournalImplementsLog`. `StreamInv` describes the stream while it grows
(`ShapeOK`: three writes per accepted record, and the first writes of the one
being appended), what is left of it after whatever happened (`RemainsOK`) and
that every signal sent has its transition among the durable records
(`ReasonsOK`). How far `read_file` gets is named by the least record that is not
intact, which the well-founded minimum (`WFMin`) gives without an induction. For
the refinement, the write that completes a record maps to `Write`, a sync to
`Sync`, a crash of the host to `Crash`, the removal of an old journal to
`Discard`, and every other step, an append that fails among them, to a stutter. Assumed: `FormatAssumption`, `JournalAssumption`.

`RunProofs` is about the engine and the run loop, which share the machine. Both
need to know what the machine may decide, not how: `Decided` says for an
enforcing machine that one event makes it idle, request a checkpoint, begin with
TERM or kill, with the deadlines each leaves, and `Escalates` what it decides when
a signal was refused. There is one lemma per handler, and nothing after them opens
the machine again.

- Engine: `EngineEscalates`, `EngineRecordsAttempts` and `EngineLatenciesAgree`,
  that is `FailuresEscalate`, `AttemptsAreRecorded` and `LatenciesAgree` for every
  configuration, platform answer and number of events, from `EngineInvariant`.
  `EngineInv` has the parts `Shape` (at most one action is queued, and the machine
  waits for exactly that one), `Armed` (a shutdown without a deadline has tried
  KILL), `Chained` (a failed attempt is followed by a stronger one), `Ring` (the
  ring keeps its bound, counts what it drops and ends in the attempts of the
  event) and `Dated` (no latency reaches beyond the present, and the end of the
  group is dated for all attempts or for none). The ring must hold the three attempts one event can make
  (`CapacityAssumption`; the code's ring holds 64). `RunProofs` extends both
  specifications, which is why the engine's has names of its own (`EngineSpec`,
  `EngineConfig`).
- Run loop: `RunLeavesNothingBehind`, `RunSignalsAreExplained`,
  `RunResultIsHonest`, `RunHonoursGrace` and `RunCheckpointRecordAgrees`, for every
  configuration, grace and number of samples, faults, signals and forks, from
  `RunInvariant`. The loop hands control to an event's attempts and gets it back,
  so `IInv` says what holds between events (`Between`) and while the attempts of
  one are under way (`Underway`): which latches are set, which signals have been
  tried and which deadline the grace runs to. `LoopOK` says what
  each place of the turn knows, `ResultOK` and `DropOK` what a result and the
  drop of the process rest on, `Accounted` that each signal has its record,
  `RecordAgrees` that the checkpoint record follows the latches.

Assumed: `KindAssumption`, `NoneAssumption`, `WidthAssumption`, for the run loop
`RuntimeAssumption`, and for the engine `EngineAssumption` and `CapacityAssumption`. The proof of `GraceHonoured` failed at first for a good reason:
the history variable counted as hurried a KILL sent because the platform had
refused TERM at a deadline. The code escalates there at once and on purpose, since
no grace can be running, and the history now tells the two apart.

Every inductive invariant was first checked by TLC on the instance of its run.

Only model-checked, and why:

- `ExplanationIsTrue` of the run loop: `explain` selects from the list of signals
  the first one with a property, with `SelectSeq` and `SelectInSeq`, of which the
  provers know nothing; what they return for every list needs an induction over
  data.
- `FinalReportFaithful` and `UndisturbedRunFinishes`: what replay makes of the
  whole stream is a fold over it, and its value needs an induction over data.
- `RunEnds`, `FailedKillIsReported`, `ObserveEnds` and `ParentExitIsNoticed`:
  liveness under fairness is out of the prover's reach.

## Not modelled, and the plan

Not modelled: platform detection and the test fixtures (thin calls to the
operating system, and code of the test suite). Of the report: its JSON, and the
rules about a single literal field. Of the advisories: the creation and release
of the dispatch source, and `PrelaunchSummary`. Of `explain`: wording and
numbers, `explain_early`, the rows of observe reports, and the Python copy,
which applies the same rules to parsed JSON. Of the command line: clap itself,
help, environment and paths. Of the client: argument building, output capture,
parsing and the lookup of the binary. Of process control: the terminal's
foreground group. Of the tracker: the containment events, which nothing reads
but the report. Of the checkpoint's socket, a descendant that keeps the
descriptor open and so delays its end. In the journal, path, ownership and
permission checks, the CRC itself and record size limits are left out.

The modules above came first because they carry what the program is for: the
decision to intervene, its execution, the samples it rests on, the checkpoint,
the two loops, the start around them, and the evidence they leave. What is left,
in this order:

1. A proof of `ExplanationIsTrue`, once the first record of a kind is named by
   the least index instead of a selection.
2. An abstract supervisor (idle, asked, terminating, killed, ended) that
   `PolicyMachineSpec` is shown to implement.
3. The terminal's foreground group, the journal's path checks, `explain_early`
   and the rows of observe reports.
