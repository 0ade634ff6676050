------------------------------ MODULE Journal ------------------------------
(***************************************************************************)
(* The journal and the final report of runs on one report path             *)
(* (crates/mlx-guard-core/src/persistence.rs, SecureJournal and            *)
(* ResilientJournal, as runtime.rs drives them), on a disk that loses what *)
(* was not synchronized.  Each system call is a step of its own and may    *)
(* fail; the supervisor may be killed and the host may crash between any   *)
(* two.  What a run observes is reduced to samples, and to interventions   *)
(* of one transition and one signal.                                       *)
(***************************************************************************)
EXTENDS JournalFormat

CONSTANTS
    None,
    MaxRuns,      \* bound: runs started on the path
    MaxSamples,   \* bound: samples of one run
    MaxActs,      \* bound: interventions of one run
    MaxFaults,    \* bound: failing system calls
    MaxCrashes    \* bound: kills of the supervisor and crashes of the host

ASSUME JournalAssumption ==
    /\ MaxRuns \in Nat \ {0} /\ MaxSamples \in Nat /\ MaxActs \in Nat
    /\ MaxFaults \in Nat /\ MaxCrashes \in Nat
    /\ None \notin 1 .. MaxRuns
    /\ None \notin {"Finished", "JournalExists", "PartialArtifactFailure", "Killed"}

VARIABLES
    dir,         \* the directory: the journal's name, and the runs whose file
                 \* the temporary and the report's name stand for
    crashDirs,   \* the directories a host crash may leave
    file,        \* the journal's stream of writes
    synced,      \* how many of them are on stable storage
    inode,       \* each run's report file: its content, and whether it is stable
    pc,          \* the supervisor's place, "idle" when none is running
    run,         \* the number of the latest run
    queue, next, \* the entries being recorded, and the place after them
    part,        \* writes of the current record done so far
    enabled,     \* the ResilientJournal still holds its journal
    accepted,    \* the entries whose append succeeded; their number is `sequence`
    observed,    \* mode, samples and actions of the run
    result,      \* its reported result
    budget,      \* what is left of the bounded disturbances
    history      \* for the properties only

disk == <<dir, crashDirs, file, synced, inode>>
recording == <<queue, next, part, enabled, accepted>>
vars == <<disk, pc, run, recording, observed, result, budget, history>>

Runs == 1 .. MaxRuns
Torn == <<>>    \* the content of a file that is not a whole report
Blank == [content |-> Torn, synced |-> FALSE]

Init ==
    /\ dir = [journal |-> FALSE, tmp |-> None, report |-> None]
    /\ crashDirs = {dir}
    /\ file = <<>> /\ synced = 0
    /\ inode = [r \in Runs |-> Blank]
    /\ pc = "idle" /\ run = 0
    /\ queue = <<>> /\ next = "idle" /\ part = 0
    /\ enabled = FALSE /\ accepted = <<>>
    /\ observed = [mode |-> "Run", samples |-> 0, acts |-> 0]
    /\ result = None
    /\ budget = [faults |-> MaxFaults, crashes |-> MaxCrashes]
    /\ history = [disturbed |-> FALSE, leftover |-> FALSE, durable |-> 0, sent |-> 0]

Fault ==
    /\ budget.faults > 0
    /\ budget' = [budget EXCEPT !.faults = @ - 1]
    /\ history' = [history EXCEPT !.disturbed = TRUE]

NoFault == UNCHANGED <<budget, history>>

SetDir(d) == dir' = d /\ crashDirs' = crashDirs \cup {d}
Goto(place) == pc' = place /\ UNCHANGED result
End(outcome) == pc' = "idle" /\ result' = outcome
PartialArtifactFailure == End("PartialArtifactFailure")

-----------------------------------------------------------------------------
(* SecureJournal::initialize, before the command is launched.              *)

Start(mode) ==
    /\ pc = "idle" /\ run < MaxRuns
    /\ run' = run + 1
    /\ observed' = [mode |-> mode, samples |-> 0, acts |-> 0]
    /\ queue' = <<>> /\ next' = "idle" /\ part' = 0 /\ enabled' = TRUE /\ accepted' = <<>>
    /\ history' = [disturbed |-> FALSE, leftover |-> dir.tmp # None, durable |-> 0, sent |-> 0]
    /\ IF dir.journal
       THEN End("JournalExists") /\ UNCHANGED <<dir, crashDirs, file, synced>>
       ELSE /\ SetDir([dir EXCEPT !.journal = TRUE])
            /\ file' = <<>> /\ synced' = 0
            /\ pc' = "magic" /\ result' = None
    /\ UNCHANGED <<inode, budget>>

WriteMagic ==
    /\ pc = "magic"
    /\ \/ file' = <<Magic>> /\ Goto("init_sync") /\ NoFault
       \/ file' \in {<<>>, <<Junk>>} /\ Fault /\ PartialArtifactFailure
    /\ UNCHANGED <<dir, crashDirs, synced, inode, run, recording, observed>>

SyncInit ==
    /\ pc = "init_sync"
    /\ \/ synced' = Len(file) /\ Goto("init_dir_sync") /\ NoFault
       \/ UNCHANGED synced /\ Fault /\ PartialArtifactFailure
    /\ UNCHANGED <<dir, crashDirs, file, inode, run, recording, observed>>

\* The last step of initialize, and the start of the header's append.
SyncInitDir ==
    /\ pc = "init_dir_sync"
    /\ \/ /\ crashDirs' = {dir} /\ Goto("append") /\ NoFault
          /\ queue' = <<Entry("Header")>> /\ next' = "loop"
       \/ /\ UNCHANGED <<crashDirs, queue, next>> /\ Fault /\ PartialArtifactFailure
    /\ UNCHANGED <<dir, file, synced, inode, run, part, enabled, accepted, observed>>

-----------------------------------------------------------------------------
(* SecureJournal::append behind ResilientJournal::record.                  *)

Record(entries, place) ==
    /\ IF enabled THEN Goto("append") /\ queue' = entries /\ next' = place
       ELSE Goto(place) /\ UNCHANGED <<queue, next>>
    /\ UNCHANGED <<part, enabled, accepted>>

\* Mutant: a record may be written past its last part.
write_part_again ==
    /\ pc = "append" /\ part <= 3
    /\ file' = Append(file, chunk(Parts[(part % 3) + 1], Len(accepted), Head(queue)))
    /\ part' = part + 1
    /\ UNCHANGED <<dir, crashDirs, synced, inode, pc, run, queue, next, enabled, accepted,
                   observed, result, budget, history>>

\* The three writes of one record.
WritePart ==
    /\ pc = "append" /\ part < 3
    /\ file' = Append(file, chunk(Parts[part + 1], Len(accepted), Head(queue)))
    /\ part' = part + 1
    /\ UNCHANGED <<dir, crashDirs, synced, inode, pc, run, queue, next, enabled, accepted,
                   observed, result, budget, history>>

\* Mutant: a record that requires it is not synchronized.
accept_unsynced ==
    LET sync == requires_sync(Head(queue).kind)
    IN /\ pc = "append" /\ part = 3
       /\ UNCHANGED synced
       /\ accepted' = Append(accepted, Head(queue))
       /\ history' = IF sync THEN [history EXCEPT !.durable = Len(accepted')] ELSE history
       /\ part' = 0
       /\ queue' = Tail(queue)
       /\ Goto(IF Len(queue) = 1 THEN next ELSE pc)
       /\ UNCHANGED <<dir, crashDirs, file, inode, run, next, enabled, observed, budget>>

\* The record is whole and, where its kind requires it, synchronized.
Accept ==
    LET sync == requires_sync(Head(queue).kind)
    IN /\ pc = "append" /\ part = 3
       /\ synced' = IF sync THEN Len(file) ELSE synced
       /\ accepted' = Append(accepted, Head(queue))
       /\ history' = IF sync THEN [history EXCEPT !.durable = Len(accepted')] ELSE history
       /\ part' = 0
       /\ queue' = Tail(queue)
       /\ Goto(IF Len(queue) = 1 THEN next ELSE pc)
       /\ UNCHANGED <<dir, crashDirs, file, inode, run, next, enabled, observed, budget>>

\* A failing write leaves nothing or a torn piece; a failing sync leaves the
\* record unsynchronized.  The journal is disabled, and before the launch, with
\* the header, the run is over.
FailAppend ==
    /\ pc = "append" /\ (part < 3 \/ requires_sync(Head(queue).kind))
    /\ Fault
    /\ IF part < 3 THEN file' \in {file, Append(file, Junk)} ELSE UNCHANGED file
    /\ part' = 0 /\ queue' = <<>> /\ enabled' = FALSE
    /\ IF accepted = <<>> THEN PartialArtifactFailure ELSE Goto(next)
    /\ UNCHANGED <<dir, crashDirs, synced, inode, run, next, accepted, observed>>

-----------------------------------------------------------------------------
(* What the run loops record.                                              *)

\* Only the first samples are journaled as they come.
TakeSample ==
    LET n == observed.samples + 1
    IN /\ pc = "loop" /\ observed.samples < MaxSamples
       /\ observed' = [observed EXCEPT !.samples = n]
       /\ IF n <= MAX_SAMPLE_HISTORY_CAPACITY THEN Record(<<Sample(n)>>, "loop")
          ELSE Goto("loop") /\ UNCHANGED recording
       /\ UNCHANGED <<disk, run, budget, history>>

\* The enforcing loop records the transition before it sends the signal; the
\* observing one forwards a signal without one.
Intervene ==
    /\ pc = "loop" /\ observed.acts < MaxActs
    /\ observed' = [observed EXCEPT !.acts = @ + 1]
    /\ IF observed.mode = "Run" THEN Record(<<Entry("Transition")>>, "signal")
       ELSE Goto("signal") /\ UNCHANGED recording
    /\ UNCHANGED <<disk, run, budget, history>>

SendSignal ==
    /\ pc = "signal"
    /\ history' = [history EXCEPT !.sent = @ + 1]
    /\ Record(<<Entry("Signal")>>, "loop")
    /\ UNCHANGED <<disk, run, observed, budget>>

\* The samples of the ring, when it has dropped any.
recent_sample_history ==
    IF observed.samples <= MAX_SAMPLE_HISTORY_CAPACITY THEN <<>>
    ELSE <<Entry("SampleHistoryReset")>> \o
         [i \in 1 .. MAX_SAMPLE_HISTORY_CAPACITY |->
             Sample(observed.samples - MAX_SAMPLE_HISTORY_CAPACITY + i)]

calibration == IF observed.mode = "Observe" THEN <<Entry("Calibration")>> ELSE <<>>

\* Mutant: the escape evidence follows the outcome.
terminal_outcome_first ==
    recent_sample_history \o <<Entry("Checkpoint")>> \o calibration
        \o <<Entry("Outcome"), Entry("Escape")>>

terminal_records ==
    recent_sample_history \o <<Entry("Checkpoint"), Entry("Escape")>> \o calibration
        \o <<Entry("Outcome")>>

RecordTerminal ==
    /\ pc = "loop"
    /\ Record(terminal_records, "finish")
    /\ UNCHANGED <<disk, run, observed, budget, history>>

\* A run that never got to watch its command.
append_terminal == <<Entry("Checkpoint"), Entry("Escape"), Entry("Outcome")>>

FinalizeWithoutWorker ==
    /\ pc = "loop" /\ observed.samples = 0 /\ observed.acts = 0
    /\ Record(append_terminal, "finish")
    /\ UNCHANGED <<disk, run, observed, budget, history>>

-----------------------------------------------------------------------------
(* finish_journal and SecureJournal::finalize.                             *)

FinishJournal ==
    /\ pc = "finish"
    /\ IF enabled THEN Goto("flush") ELSE PartialArtifactFailure
    /\ UNCHANGED <<disk, run, recording, observed, budget, history>>

Flush ==
    /\ pc = "flush"
    /\ \/ synced' = Len(file) /\ Goto("replay") /\ NoFault
       \/ UNCHANGED synced /\ Fault /\ PartialArtifactFailure
    /\ UNCHANGED <<dir, crashDirs, file, inode, run, recording, observed>>

Replay ==
    /\ pc = "replay"
    /\ IF replayable(file) THEN Goto("create") ELSE PartialArtifactFailure
    /\ UNCHANGED <<disk, run, recording, observed, budget, history>>

\* The temporary is created exclusively: one that is already there is refused.
CreateTemp ==
    /\ pc = "create"
    /\ \/ /\ dir.tmp = None
          /\ SetDir([dir EXCEPT !.tmp = run])
          /\ Goto("write") /\ NoFault
       \/ /\ dir.tmp # None
          /\ UNCHANGED <<dir, crashDirs>>
          /\ PartialArtifactFailure /\ NoFault
       \/ /\ UNCHANGED <<dir, crashDirs>>
          /\ Fault /\ PartialArtifactFailure
    /\ UNCHANGED <<file, synced, inode, run, recording, observed>>

\* A failed step after the creation removes the temporary.
Abandon ==
    /\ pc \in {"write", "sync", "rename"}
    /\ Fault
    /\ SetDir([dir EXCEPT !.tmp = None])
    /\ PartialArtifactFailure
    /\ UNCHANGED <<file, synced, inode, run, recording, observed>>

WriteTemp ==
    /\ pc = "write"
    /\ inode' = [inode EXCEPT ![run].content = to_report(read_records(file))]
    /\ Goto("sync")
    /\ UNCHANGED <<dir, crashDirs, file, synced, run, recording, observed, budget, history>>

\* Mutant: the temporary is renamed without being synchronized.
skip_temp_sync ==
    /\ pc = "sync"
    /\ Goto("rename")
    /\ UNCHANGED <<disk, run, recording, observed, budget, history>>

SyncTemp ==
    /\ pc = "sync"
    /\ inode' = [inode EXCEPT ![run].synced = TRUE]
    /\ Goto("rename")
    /\ UNCHANGED <<dir, crashDirs, file, synced, run, recording, observed, budget, history>>

Rename ==
    /\ pc = "rename"
    /\ SetDir([dir EXCEPT !.tmp = None, !.report = run])
    /\ Goto("dir_sync")
    /\ UNCHANGED <<file, synced, inode, run, recording, observed, budget, history>>

\* Mutant: success is claimed after the rename.
skip_dir_sync ==
    /\ pc = "dir_sync"
    /\ UNCHANGED crashDirs /\ End("Finished") /\ NoFault
    /\ UNCHANGED <<dir, file, synced, inode, run, recording, observed>>

SyncDir ==
    /\ pc = "dir_sync"
    /\ \/ crashDirs' = {dir} /\ End("Finished") /\ NoFault
       \/ UNCHANGED crashDirs /\ Fault /\ PartialArtifactFailure
    /\ UNCHANGED <<dir, file, synced, inode, run, recording, observed>>

-----------------------------------------------------------------------------
(* The world.                                                              *)

Crash == budget.crashes > 0 /\ budget' = [budget EXCEPT !.crashes = @ - 1]

\* The supervisor is killed; everything it wrote stays.
Kill ==
    /\ pc # "idle" /\ Crash
    /\ End("Killed")
    /\ history' = [history EXCEPT !.disturbed = TRUE]
    /\ UNCHANGED <<disk, run, recording, observed>>

\* The host crashes: of what was not synchronized any prefix is left, with a run
\* of lost writes in it, and any directory since the last one that was.
HostCrash(length, lost, torn) ==
    /\ Crash
    /\ file' = [i \in 1 .. length |-> IF i \in lost THEN Junk ELSE file[i]]
    /\ synced' = length
    /\ dir' \in crashDirs /\ crashDirs' = {dir'}
    /\ ~dir'.journal => length = 0
    /\ inode' = [r \in Runs |-> IF inode[r].synced \/ r \notin torn THEN inode[r]
                               ELSE [inode[r] EXCEPT !.content = Torn]]
    /\ pc' = "idle"
    /\ result' = IF pc = "idle" THEN result ELSE "Killed"
    /\ history' = [history EXCEPT !.disturbed = @ \/ pc # "idle"]
    /\ UNCHANGED <<run, recording, observed>>

\* The user removes the report and the journal, to use the path again; a file
\* without a name is gone.
CleanUp ==
    /\ pc = "idle" /\ dir.journal
    /\ dir' = [dir EXCEPT !.journal = FALSE, !.report = None]
    /\ crashDirs' = {dir'}
    /\ file' = <<>> /\ synced' = 0
    /\ inode' = [r \in Runs |-> IF r = dir.tmp THEN inode[r] ELSE Blank]
    /\ result' = None
    /\ UNCHANGED <<pc, run, recording, observed, budget, history>>

Next ==
    \/ \E mode \in {"Run", "Observe"} : Start(mode)
    \/ WriteMagic \/ SyncInit \/ SyncInitDir \/ WritePart \/ Accept \/ FailAppend
    \/ TakeSample \/ Intervene \/ SendSignal \/ RecordTerminal \/ FinalizeWithoutWorker
    \/ FinishJournal \/ Flush \/ Replay \/ CreateTemp \/ Abandon \/ WriteTemp \/ SyncTemp
    \/ Rename \/ SyncDir
    \/ Kill \/ CleanUp
    \/ \E length \in synced .. Len(file), torn \in {{}, Runs} :
          \E from, to \in synced + 1 .. length + 1 : HostCrash(length, from .. to - 1, torn)

Spec == Init /\ [][Next]_vars

-----------------------------------------------------------------------------
(* Properties.                                                             *)

Recovered == IF dir.journal THEN read_records(file) ELSE <<>>
\* Of the recovered records, those whose three writes are all stable.
Durable == Cardinality({n \in DOMAIN Recovered : 3 * n + 1 <= synced})

\* Every variable keeps its type.
TypeOK ==
    /\ dir \in [journal: BOOLEAN, tmp: Runs \cup {None}, report: Runs \cup {None}]
    /\ dir \in crashDirs
    /\ synced \in 0 .. Len(file)
    /\ part \in 0 .. 3
    /\ accepted \in Seq(Entries)
    /\ result \in {None, "Finished", "JournalExists", "PartialArtifactFailure", "Killed"}

Log == INSTANCE DurableLog WITH
    log <- Recovered, durable <- Durable,
    Item <- [kind: EntryKind, n: 0 .. MaxSamples]

\* What JournalRecovery::read_file makes of the bytes is an append-only log with
\* a durable prefix, whatever fails and whenever the supervisor or the host goes
\* down: no record appears that was not appended, none out of order, and no
\* durable one is lost.
ImplementsLog == Log!Spec

\* A record whose append was reported as synchronized is recovered after any
\* later crash, and whatever else is recovered are the records appended next.
AcceptedSurvives ==
    LET r == Recovered
        kept == IF history.durable < MAX_RECOVERED_RECORDS
                THEN history.durable ELSE MAX_RECOVERED_RECORDS
    IN dir.journal /\ result # "JournalExists" =>
          /\ Len(r) >= kept
          /\ \A i \in DOMAIN r : i <= Len(accepted) => r[i] = accepted[i]
          /\ Len(r) <= Len(accepted) + 1

\* docs/REPORTS.md: the sync "makes the transition durable before the runtime can
\* record its related signal": after any crash the journal explains every signal
\* the enforcing supervisor has sent, unless persistence had failed before.
SignalsExplained ==
    (dir.journal /\ enabled /\ observed.mode = "Run" /\ result # "JournalExists") =>
        \/ Cardinality(Positions(Recovered, "Transition")) >= history.sent
        \/ Len(Recovered) = MAX_RECOVERED_RECORDS

\* The report's name never stands for a partial file, neither while a run
\* replaces an older report nor after a crash in the middle of it.
WholeReport == dir.report # None => inode[dir.report].content # Torn

\* A success is only claimed for a report of this run that outlives a crash of
\* the host.
SuccessMeansDurable ==
    (result = "Finished") => dir.report = run

\* The report of a finished run tells what was observed: the latest samples, in
\* order and each once, and every transition and signal.
FinalReportFaithful ==
    LET first == IF observed.samples > MAX_SAMPLE_HISTORY_CAPACITY
                 THEN observed.samples - MAX_SAMPLE_HISTORY_CAPACITY ELSE 0
        per_act == IF observed.mode = "Run" THEN 2 ELSE 1
    IN result = "Finished" =>
          /\ inode[run].content.samples =
                [i \in 1 .. observed.samples - first |-> Sample(first + i)]
          /\ Len(inode[run].content.acts) = per_act * observed.acts

\* A run that nothing disturbs, on a path without leftovers and within the
\* records a recovery reads, ends with its report.
UndisturbedRunFinishes ==
    (/\ result # None /\ ~history.disturbed /\ ~history.leftover
     /\ Len(accepted) <= MAX_RECOVERED_RECORDS)
        => result \in {"Finished", "JournalExists"}

\* Recovery after any crash is enough to account for the run: every synchronized
\* record is there, and with it the transition behind every signal sent.
RecoveryAccountsForTheRun == TypeOK /\ AcceptedSurvives /\ SignalsExplained

\* The report's name stands for a whole report, and a claimed success for one of
\* this run that a crash of the host does not take back.
ReportOutlivesCrashes == WholeReport /\ SuccessMeansDurable
=============================================================================
