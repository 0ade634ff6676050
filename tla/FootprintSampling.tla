-------------------------- MODULE FootprintSampling --------------------------
(***************************************************************************)
(* The native inventory and the sampler over it (identity.rs, sampling.rs  *)
(* and the calls runtime.rs makes): a snapshot lists the owned group, then *)
(* the children of every listed pid, then reads each pid three times.  No  *)
(* two of these system calls are atomic: processes fork, leave the group,  *)
(* exit and are reaped between any two, and a free pid is given to a       *)
(* stranger.  Footprints are one unit; the events of a frame are left out. *)
(***************************************************************************)
EXTENDS IdentityTracker, Sequences, SequencesExt

CONSTANTS
    Pids,         \* the pids there are
    RootPid,      \* the pid of the launched root, also its group
    MaxBirths,    \* the most processes any budget allows
    Budgets       \* bounds to start from: the pids the kernel hands out, the
                  \* births after the root, the rounds (snapshots and checkpoint
                  \* signals) and the faults (refused calls and clock steps)

ASSUME InventoryAssumption ==
    /\ Pids \subseteq Nat \ {0, 1} /\ IsFiniteSet(Pids) /\ RootPid \in Pids
    /\ MaxBirths \in Nat
    /\ Budgets \subseteq [pids : SUBSET Pids, births : 0 .. MaxBirths, rounds : Nat, faults : Nat]

IdentitySet == [pid : Pids, start_abstime : 0 .. MaxBirths + 1]

ASSUME ReportAssumption ==
    None \notin [owned_group_empty : BOOLEAN, complete : BOOLEAN, survivors : SUBSET IdentitySet]

VARIABLES
    proc,             \* the kernel's process table
    births,           \* start tokens given out
    tracker,          \* the IdentityTracker of the sampler
    sup,              \* the supervisor's place and the snapshot it is taking
    root_outcome,     \* the root has been reaped
    sample,           \* the last FootprintSample recorded, or None
    escape_detected,  \* the latch of the run loop
    report,           \* the CleanupReport returned, or None
    budget,           \* what is left of the bounded steps
    ghost             \* who is who, for the properties only

kernel == <<proc, births>>
vars == <<kernel, tracker, sup, root_outcome, sample, escape_detected, report, budget, ghost>>

Launchd == 1
Root == ProcessIdentity(RootPid, 1)
IdentityOf(pid) == ProcessIdentity(pid, proc[pid].start)
Idle(pc) == [pc |-> pc, mode |-> "sample", relevant |-> {}, pending |-> << >>, todo |-> {},
             first |-> None, bsd |-> None, observations |-> {}, failures |-> {}, survivors |-> {}]

Init ==
    /\ proc = [p \in Pids |->
                  IF p = RootPid
                  THEN [state |-> "live", start |-> 1, parent |-> Launchd, group |-> RootPid]
                  ELSE [state |-> "none", start |-> 0, parent |-> 0, group |-> 0]]
    /\ births = 1
    /\ tracker = NewTracker(Root, RootPid)
    /\ sup = Idle("poll")
    /\ root_outcome = FALSE
    /\ sample = None
    /\ escape_detected = FALSE
    /\ report = None
    /\ budget \in Budgets
    /\ ghost = [ours |-> {Root}, seen |-> {}, lapses |-> 0, within |-> {}, outside |-> {},
                recycled |-> FALSE, struck |-> {}]

-----------------------------------------------------------------------------
(* The kernel, as the calls of identity.rs meet it.                        *)

Alive(table, p) == table[p].state = "live"
Present(p) == proc[p].state # "none"
Gone(process) == [process EXCEPT !.state = "none", !.parent = 0, !.group = 0]
Members(table) == {ProcessIdentity(p, table[p].start) :
                      p \in {q \in Pids : Alive(table, q) /\ table[q].group = RootPid}}

\* A process outside the group that a snapshot must find: one the tracker
\* knows, or a child of the living root.
Strays(table) ==
    {i \in {ProcessIdentity(p, table[p].start) : p \in Pids} \cap ghost.ours :
        /\ Alive(table, i.pid) /\ table[i.pid].group # RootPid
        /\ \/ i \in DOMAIN tracker.tracked
           \/ table[i.pid].parent = RootPid /\ Alive(table, RootPid)}

owned_group_exists == \E p \in Pids : Present(p) /\ proc[p].group = RootPid

\* The kernel reuses a pid only when neither a process nor a group has it.
FreePid(p) == ~Present(p) /\ \A q \in Pids : Present(q) => proc[q].group # p

Spend(what) == budget[what] > 0 /\ budget' = [budget EXCEPT ![what] = @ - 1]

Taking == sup.pc \notin {"poll", "work", "over", "again", "returned"}

\* What the ghosts keep of a change of the table.
Witness(table) ==
    ghost' = [ghost EXCEPT !.within = @ \cap Members(table), !.outside = @ \cap Strays(table)]

Birth(p, parent, group, ours) ==
    /\ Spend("births")
    /\ FreePid(p) /\ p \in budget.pids
    /\ births' = births + 1
    /\ proc' = [proc EXCEPT ![p] = [state |-> "live", start |-> births + 1,
                                    parent |-> parent, group |-> group]]
    /\ ghost' = [ghost EXCEPT
                    !.ours = IF ours THEN @ \cup {ProcessIdentity(p, births + 1)} ELSE @,
                    !.recycled = @ \/ (Taking /\ proc[p].start # 0)]

Fork(parent, p) ==
    Alive(proc, parent) /\ Birth(p, parent, proc[parent].group, IdentityOf(parent) \in ghost.ours)

\* A stranger leads a group of its own.
StrangerStarts(p) == Birth(p, Launchd, p, FALSE)

\* setsid or setpgid(0, 0).
LeaveGroup(p) ==
    /\ Alive(proc, p) /\ proc[p].group = RootPid /\ p # RootPid
    /\ proc' = [proc EXCEPT ![p].group = p]
    /\ Witness(proc')
    /\ UNCHANGED <<births, budget>>

Exit(p) ==
    /\ Alive(proc, p)
    /\ proc' = [q \in Pids |->
                   IF q = p THEN [proc[p] EXCEPT !.state = "zombie"]
                   ELSE IF proc[q].parent = p THEN [proc[q] EXCEPT !.parent = Launchd]
                   ELSE proc[q]]
    /\ Witness(proc')
    /\ UNCHANGED <<births, budget>>

\* Everyone but the root is reaped by a parent or by launchd.
Reap(p) ==
    /\ proc[p].state = "zombie" /\ IdentityOf(p) # Root
    /\ proc' = [proc EXCEPT ![p] = Gone(@)]
    /\ UNCHANGED <<births, budget, ghost>>

Kernel ==
    /\ \/ \E p, q \in Pids : Fork(p, q)
       \/ \E p \in Pids : StrangerStarts(p) \/ LeaveGroup(p) \/ Exit(p) \/ Reap(p)
    /\ UNCHANGED <<tracker, sup, root_outcome, sample, escape_detected, report>>

-----------------------------------------------------------------------------
(* The loop around the snapshots.                                          *)

\* The n-th pid is the one with n - 1 smaller ones.
Ascending(pids) ==
    [n \in 1 .. Cardinality(pids) |->
        CHOOSE p \in pids : Cardinality({q \in pids : q < p}) = n - 1]

\* try_wait_root reaps the root; an empty group then ends the loop.
Poll ==
    /\ sup.pc = "poll"
    /\ LET zombie == proc[RootPid].state = "zombie" /\ IdentityOf(RootPid) = Root
       IN /\ root_outcome' = (root_outcome \/ zombie)
          /\ proc' = IF zombie THEN [proc EXCEPT ![RootPid] = Gone(@)] ELSE proc
    /\ sup' = Idle(IF root_outcome' /\ ~owned_group_exists' THEN "over" ELSE "work")
    /\ UNCHANGED <<births, tracker, sample, escape_detected, report, budget, ghost>>

\* The pids a snapshot always lists.
\* Mutant: what was tracked is left to the listings.
snapshot_scope_root == {RootPid}

snapshot_scope == {i.pid : i \in DOMAIN tracker.tracked} \cup {RootPid}

\* snapshot_for_tracker
StartSnapshot(mode, from) ==
    /\ sup.pc \in from
    /\ Spend("rounds")
    /\ sup' = [Idle("group") EXCEPT
                  !.mode = mode,
                  !.relevant = snapshot_scope]
    /\ sample' = None
    /\ ghost' = [ghost EXCEPT !.within = Members(proc), !.outside = Strays(proc)]
    /\ UNCHANGED <<kernel, tracker, root_outcome, escape_detected, report>>

sample_native == StartSnapshot("sample", {"work"})
wait_for_owned_group_empty == StartSnapshot("cleanup", {"work", "over", "again"})

\* list_related_pids: one listing, which may or may not hold the zombies.
list_related_pids(relation, identifier) ==
    LET With(state) == {p \in Pids : proc[p].state = state /\ proc[p][relation] = identifier}
    IN {With("live") \cup zombies : zombies \in SUBSET With("zombie")}

quiet == <<kernel, tracker, root_outcome, sample, escape_detected, report, ghost>>

\* list_relevant_pids: the group first, then breadth first over the children;
\* the pids are inspected when no listed one is left to ask.
\* Mutant: the unused tail of the zeroed buffer is kept.
Listed_zeroes(relevant_pids, pending) ==
    sup' = [sup EXCEPT !.pc = "children", !.relevant = relevant_pids \cup {0},
                       !.pending = pending]

Listed(relevant_pids, pending) ==
    sup' = IF pending = << >> THEN [Idle("first") EXCEPT !.mode = sup.mode, !.todo = relevant_pids]
           ELSE [sup EXCEPT !.pc = "children", !.relevant = relevant_pids, !.pending = pending]

ListGroup ==
    /\ sup.pc = "group"
    /\ \E pids \in list_related_pids("group", RootPid) :
          Listed(sup.relevant \cup pids, Ascending(sup.relevant \cup pids))
    /\ UNCHANGED <<quiet, budget>>

ListChildren ==
    /\ sup.pc = "children"
    /\ \E pids \in list_related_pids("parent", Head(sup.pending)) :
          Listed(sup.relevant \cup pids, Tail(sup.pending) \o Ascending(pids \ sup.relevant))
    /\ UNCHANGED <<quiet, budget>>

-----------------------------------------------------------------------------
(* inspect: start and exit token, then parent and group, then the token    *)
(* again.  snapshot_pids goes through the listed pids in ascending order.  *)

Pid == Min(sup.todo)

Next_pid == [sup EXCEPT !.pc = IF sup.todo = {Pid} THEN "end" ELSE "first",
                        !.todo = @ \ {Pid}, !.first = None, !.bsd = None]

Observed(identity, parent_pid, group, exited) ==
    sup' = [Next_pid EXCEPT
               !.observations = @ \cup {ProcessObservation(identity, parent_pid, group, 1, exited)}]

Failed(kind) == sup' = [Next_pid EXCEPT !.failures = @ \cup {ObservationFailure(Pid, kind)}]

\* An exited process still has its token, but neither parent nor group.
FirstRusage ==
    /\ sup.pc = "first"
    /\ \/ ~Present(Pid) /\ Failed("Disappeared")
       \/ proc[Pid].state = "zombie" /\ Observed(IdentityOf(Pid), 0, 0, TRUE)
       \/ Alive(proc, Pid) /\ sup' = [sup EXCEPT !.pc = "bsd", !.first = proc[Pid].start]
    /\ UNCHANGED <<quiet, budget>>

BsdInfo ==
    /\ sup.pc = "bsd"
    /\ \/ ~Alive(proc, Pid) /\ Failed("Disappeared")
       \/ /\ Alive(proc, Pid)
          /\ sup' = [sup EXCEPT !.pc = "second",
                                !.bsd = [parent |-> proc[Pid].parent, group |-> proc[Pid].group]]
    /\ UNCHANGED <<quiet, budget>>

\* Mutant: the second token is not compared with the first.
same_start_unchecked(first, second) == TRUE

same_start(first, second) == first = second

SecondRusage ==
    /\ sup.pc = "second"
    /\ \/ ~Present(Pid) /\ Failed("Disappeared")
       \/ Present(Pid) /\ ~same_start(sup.first, proc[Pid].start) /\ Failed("StaleIdentity")
       \/ /\ Present(Pid) /\ same_start(sup.first, proc[Pid].start)
          /\ Observed(IdentityOf(Pid), sup.bsd.parent, sup.bsd.group,
                      proc[Pid].state = "zombie")
    /\ UNCHANGED <<quiet, budget>>

\* classify_errno: a process of another user refuses to be read.
Denied ==
    /\ sup.pc \in {"first", "bsd", "second"}
    /\ Spend("faults")
    /\ Failed("PermissionDenied")
    /\ UNCHANGED quiet

-----------------------------------------------------------------------------
(* record_snapshot and sample_once.                                        *)

Sample(outcome, members) == [outcome |-> outcome, members |-> members]

\* Mutant: the last sample alone says whether an escape was seen.
latch_escape_last(observed) == escape_detected' = observed

latch_escape(observed) == escape_detected' = (escape_detected \/ observed)

\* What update found outside the group.
Leaving(observations) ==
    Identities({o \in relevant(tracker, observations) : escaping(tracker, o)})

\* Whom the update to `next` found outside the group, and how many of those that
\* earlier ones found, and the full evidence could not hold, it lost from the
\* tracked set.
Lapsed(next) == (ghost.seen \ tracker.escaped) \cap (DOMAIN tracker.tracked \ DOMAIN next.tracked)
Tally(next) ==
    ghost' = [ghost EXCEPT !.seen = @ \cup Leaving(sup.observations),
                           !.lapses = @ + Cardinality(Lapsed(next))]

record_snapshot ==
    /\ sup.pc = "end" /\ sup.mode = "sample"
    /\ LET next == update(tracker, sup.observations, sup.failures)
       IN /\ tracker' = next.tracker
          /\ sample' = Sample(next.frame.aggregate_footprint.kind, next.frame.owned_members)
          /\ latch_escape(next.frame.escape_observed)
          /\ Tally(next.tracker)
    /\ sup' = Idle("poll")
    /\ UNCHANGED <<kernel, root_outcome, report, budget>>

\* A clock that stepped back drops the snapshot.
ClockDiscontinuity ==
    /\ sup.pc = "end" /\ sup.mode = "sample"
    /\ Spend("faults")
    /\ sample' = Sample("ClockDiscontinuity", {})
    /\ latch_escape(FALSE)
    /\ sup' = Idle("poll")
    /\ UNCHANGED <<kernel, tracker, root_outcome, report, ghost>>

\* A listing that fails leaves the tracker as it was.
SnapshotFailed ==
    /\ sup.pc \in {"group", "children"}
    /\ Spend("faults")
    /\ IF sup.mode = "sample"
       THEN /\ sample' = Sample("SnapshotFailed", {})
            /\ latch_escape(FALSE)
            /\ sup' = Idle("poll")
            /\ UNCHANGED report
       ELSE /\ report' = [owned_group_empty |-> FALSE, complete |-> FALSE, survivors |-> {}]
            /\ sup' = Idle("returned")
            /\ UNCHANGED <<sample, escape_detected>>
    /\ UNCHANGED <<kernel, tracker, root_outcome, ghost>>

-----------------------------------------------------------------------------
(* wait_for_owned_group_empty: update, ask the kernel for the group, and   *)
(* return when it is empty or the deadline has passed.                     *)

CleanupUpdate ==
    /\ sup.pc = "end" /\ sup.mode = "cleanup"
    /\ LET next == update(tracker, sup.observations, sup.failures)
       IN /\ tracker' = next.tracker
          /\ sup' = [sup EXCEPT !.pc = "exists",
                                !.survivors = Identities(next.frame.owned_members),
                                !.failures = next.frame.observation_failures]
          /\ Tally(next.tracker)
    /\ UNCHANGED <<kernel, root_outcome, sample, escape_detected, report, budget>>

\* Mutant: a group without an observed member is taken for empty.
group_empty_unconfirmed(survivors) == survivors = {}

group_empty(survivors) == survivors = {} /\ ~owned_group_exists

CleanupCheck(expired) ==
    /\ sup.pc = "exists"
    /\ LET owned_group_empty == group_empty(sup.survivors)
           failed == sup.failures # {} \/ (owned_group_exists /\ sup.survivors = {})
       IN IF owned_group_empty \/ expired
          THEN /\ report' = [owned_group_empty |-> owned_group_empty,
                             complete |-> owned_group_empty /\ tracker.escaped = {} /\ ~failed,
                             survivors |-> sup.survivors]
               /\ sup' = Idle("returned")
          ELSE sup' = Idle("again") /\ UNCHANGED report
    /\ UNCHANGED <<kernel, tracker, root_outcome, sample, escape_detected, budget, ghost>>

-----------------------------------------------------------------------------
(* signal_checkpoint to the endpoint, which is the root: its group, then   *)
(* its identity, then the signal.                                          *)

signal_checkpoint ==
    /\ sup.pc = "work"
    /\ Spend("rounds")
    /\ sup' = IF Present(RootPid) /\ proc[RootPid].group = RootPid
              THEN [Idle("first") EXCEPT !.mode = "signal", !.todo = {RootPid}]
              ELSE sup
    /\ UNCHANGED quiet

\* Mutant: the pid in the group is taken for the endpoint.
is_endpoint_by_pid(observation) == ~observation.exited

is_endpoint(observation) == observation.identity = Root /\ ~observation.exited

signal_identity ==
    /\ sup.pc = "end" /\ sup.mode = "signal"
    /\ sup' = Idle(IF \E o \in sup.observations : is_endpoint(o) THEN "kill" ELSE "work")
    /\ UNCHANGED <<quiet, budget>>

Kill ==
    /\ sup.pc = "kill"
    /\ sup' = Idle("work")
    /\ ghost' = IF Alive(proc, RootPid)
                THEN [ghost EXCEPT !.struck = @ \cup {IdentityOf(RootPid)}] ELSE ghost
    /\ UNCHANGED <<kernel, tracker, root_outcome, sample, escape_detected, report, budget>>

Supervisor ==
    \/ Poll \/ sample_native \/ wait_for_owned_group_empty
    \/ ListGroup \/ ListChildren
    \/ FirstRusage \/ BsdInfo \/ SecondRusage \/ Denied
    \/ record_snapshot \/ ClockDiscontinuity \/ SnapshotFailed
    \/ CleanupUpdate \/ (\E expired \in BOOLEAN : CleanupCheck(expired))
    \/ signal_checkpoint \/ signal_identity \/ Kill

Next == Kernel \/ Supervisor
Spec == Init /\ [][Next]_vars

-----------------------------------------------------------------------------
(* Properties.                                                             *)

TypeOK ==
    /\ proc \in [Pids -> [state : {"none", "live", "zombie"}, start : 0 .. MaxBirths + 1,
                          parent : Pids \cup {0, Launchd}, group : Pids \cup {0, Launchd}]]
    /\ births \in 1 .. MaxBirths + 1
    /\ DOMAIN tracker.tracked \subseteq IdentitySet /\ tracker.escaped \subseteq IdentitySet
    /\ sup.relevant \cup sup.todo \subseteq Pids
    /\ root_outcome \in BOOLEAN /\ escape_detected \in BOOLEAN
    /\ ghost.ours \cup ghost.seen \subseteq IdentitySet

\* The root's pid has not gone to another process.
RootPidHeld == proc[RootPid].start = 1

\* A process is counted into the footprint only if the root started it, itself
\* or through a descendant, however pids are reused between and inside
\* snapshots: inspect compares the start token around the group it read.
MembersAreOurs ==
    sample # None /\ RootPidHeld => Identities(sample.members) \subseteq ghost.ours

\* A sample is called Complete only when it counts every process that was
\* alive in the owned group from the first listing to the last read: a read
\* that was refused or went stale makes it partial (aggregate).
CompleteMeansAll ==
    sample # None /\ sample.outcome = "Complete" =>
        ghost.within \subseteq Identities(sample.members)

\* A complete sample has found every known process, and every child of the
\* living root, that spent the whole snapshot outside the group.
StraysAreFound ==
    sample # None /\ sample.outcome = "Complete" => ghost.outside \subseteq ghost.seen

\* Every identity update found outside the group is counted, and counted once
\* while the evidence holds them all.  Past the cap the mark lives on the tracked
\* set alone (report.rs:516, identity.rs:141), and the count exceeds the number of
\* identities by no more than one for each time a snapshot lost one of those the
\* evidence could not hold.
EscapeCount ==
    /\ tracker.escaped_count - Cardinality(ghost.seen) \in 0 .. ghost.lapses
    /\ tracker.escaped \subseteq ghost.seen
    /\ Cardinality(tracker.escaped) <= MAX_ESCAPED_EVIDENCE
    /\ Cardinality(ghost.seen) <= MAX_ESCAPED_EVIDENCE =>
           tracker.escaped_count = Cardinality(tracker.escaped)

\* Only what the root started is held against it as an escape, unless a pid
\* was reused inside a snapshot, where a parent chain is read pid by pid.
EscapesAreOurs ==
    ~ghost.recycled /\ RootPidHeld => ghost.seen \subseteq ghost.ours

Schema == INSTANCE ReportSchema

\* The run's escape flag agrees with the tracker's count, as the validation of
\* the report wants it: a later sample that fails or is dropped does not take an
\* observed escape back.
EscapeIsLatched ==
    sup.mode # "cleanup" /\ report = None /\ sup.pc # "again" =>
        /\ escape_detected = (tracker.escaped_count > 0)
        /\ Schema!escaped_count_agrees_with_detection(escape_detected,
               IF tracker.escaped_count > 0 THEN tracker.escaped_count ELSE None)

\* A cleanup that reports the group empty left no process in it, not even one
\* born after the listing or an unreaped one; reported complete, none was ever
\* seen outside it.
CleanupIsHonest ==
    report # None /\ RootPidHeld =>
        /\ report.owned_group_empty => ~owned_group_exists
        /\ report.complete => ghost.seen = {}

\* The checkpoint signal reaches nobody but the root that was launched, though
\* its check and its kill are separate calls: only the supervisor reaps the
\* root, so its pid cannot be reused in between.
SignalReachesRoot == ghost.struck \subseteq {Root}

\* A sample measures the command: it counts no process the root did not start,
\* and when it claims to be complete it counts every one that stayed in the group.
SampleCountsTheCommand == TypeOK /\ MembersAreOurs /\ CompleteMeansAll

\* Escapes are accounted for: a process that stayed outside the group is found,
\* only the command's own are held against it, each is counted, and again only
\* after a snapshot lost one that the full evidence did not hold, and no later
\* sample takes one back.
EscapesAreAccountedFor == StraysAreFound /\ EscapesAreOurs /\ EscapeCount /\ EscapeIsLatched
=============================================================================
