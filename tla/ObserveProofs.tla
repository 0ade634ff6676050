--------------------------- MODULE ObserveProofs ---------------------------
(***************************************************************************)
(* Theorems about the observing supervisor, for every configuration, grace *)
(* and number of signals, faults and forks.  The loop of runtime.rs keeps  *)
(* no memory of how it came to a completion; the invariant says what each  *)
(* place of the loop knows: before a completion nothing is reported, a     *)
(* shutdown is in flight exactly when TERM was tried, and whoever is left  *)
(* at the end is either dead, reported, or out of the supervisor's reach.  *)
(***************************************************************************)
EXTENDS ObserveRuntime, TLAPS

Looping == {"prepare", "wait", "group", "decide", "term", "kill", "poll", "forward",
            "sleep"}
Results == {"Child", "PolicyIntervention", "SupervisorFailure"}
Reports == [result: Results, child_status: BOOLEAN, survivors: BOOLEAN]

Latches ==
    [root_outcome: BOOLEAN, group_exists: BOOLEAN, observation_failed: BOOLEAN,
     terminal_signal_count: Nat, parent_exited: BOOLEAN,
     parent_shutdown_deadline: Option(Duration), last_started_at: Duration]

Histories ==
    [looped: BOOLEAN, failed: BOOLEAN, refused: BOOLEAN, term: BOOLEAN, struck: BOOLEAN]

GroupGone == root = "gone" /\ kid = "gone"
NobodyAlive == root # "alive" /\ kid # "alive"
InFlight == obs.parent_shutdown_deadline # None

WorldTypes == root \in MemberState /\ kid \in MemberState /\ parentAlive \in BOOLEAN

MachineTypes ==
    /\ clock \in Duration
    /\ policy \in Machine
    /\ policy.mode = "Observe"

LoopTypes ==
    /\ pc \in Places
    /\ obs \in Latches
    /\ history \in Histories

\* The place of the loop, the completion and the history agree: nothing is
\* reported before a completion, and TERM was tried exactly when the grace of a
\* shutdown is armed.
PlaceOK ==
    /\ pc \in Looping => report = None /\ ~history.refused /\ ~history.failed
    /\ pc \in Looping => (history.looped <=> pc # "prepare")
    /\ pc \notin Looping => report \in Reports
    /\ history.term <=> InFlight
    /\ pc = "kill" => InFlight
    /\ pc = "prepare" => ~history.struck
    /\ ~history.looped => ~InFlight

\* What the last group query found holds for as long as the decision relies on it.
QueryOK ==
    /\ (pc = "decide" /\ ~obs.group_exists) => GroupGone
    /\ (pc = "drop" /\ history.looped) => (InFlight \/ GroupGone)

\* Nobody is struck unasked, and the completion that reports a shutdown is the
\* shutdown's own.
StruckOK == OnlyAuthorisedKills
ResultOK ==
    (pc \notin Looping /\ history.term /\ ~history.failed) =>
        report.result = "PolicyIntervention"

\* Whoever is alive once the owned process was dropped, or relinquished.
EndOK ==
    /\ pc = "reap" => (history.refused \/ NobodyAlive)
    /\ pc = "done" =>
          \/ NobodyAlive
          \/ history.refused
          \/ report.result = "SupervisorFailure"
          \/ report.result = "Child" /\ report.survivors

IInv ==
    /\ WorldTypes
    /\ MachineTypes
    /\ LoopTypes
    /\ PlaceOK
    /\ QueryOK
    /\ StruckOK
    /\ ResultOK
    /\ EndOK

-----------------------------------------------------------------------------
(* The machine of an observing run.                                        *)

LEMMA SaturatingAdd ==
    ASSUME NEW a \in Duration, NEW b \in Nat
    PROVE  saturating_add(a, b) \in Duration /\ saturating_add(a, b) # None
BY WidthAssumption, NoneAssumption DEF saturating_add, Duration

\* PolicyMachine::observe replaces the destructive settings by values of their type.
LEMMA ObserveMachine ==
    ASSUME NEW c \in PolicyConfig
    PROVE  observe(c) \in Machine /\ observe(c).mode = "Observe"
<1> DEFINE d == [c EXCEPT !.required_breach_samples = MaxCount,
                          !.checkpoint_timeout = None,
                          !.term_grace = MaxDuration,
                          !.wall_time = None]
<1>1. MaxCount \in Count /\ MaxDuration \in Duration /\ None \in Option(Duration)
  BY WidthAssumption DEF Count, Duration, Option
<1>2. d \in PolicyConfig BY <1>1 DEF PolicyConfig
<1> HIDE DEF d
<1>3. /\ 0 \in Count /\ 1 \in RequestId
      /\ None \in Option(RequestId) /\ None \in Option(Duration)
  BY WidthAssumption DEF Count, RequestId, Option
<1>4. observe(c) = fresh("Observe", "Observe", d, 1) BY DEF observe, d
<1> QED BY <1>2, <1>3, <1>4 DEF fresh, Machine, PolicyState

\* A sample never takes an observing machine out of its type or its mode.
LEMMA ObserveSample ==
    ASSUME NEW m \in Machine, m.mode = "Observe", NEW e,
           e.type = "Sample", e.processed_at \in Duration
    PROVE  apply(m, e).m \in Machine /\ apply(m, e).m.mode = "Observe"
<1>0. \A n \in Count : saturating_inc(n) \in Count
  BY WidthAssumption DEF saturating_inc, Count
<1>1. CASE m.state = "Exited" BY <1>1 DEF apply, Result
<1>2. CASE /\ m.state # "Exited"
           /\ m.last_event_at # None /\ event_at(e) < m.last_event_at
  <2>1. apply(m, e) = fail_clock(m) BY <1>2 DEF apply
  <2>2. \/ fail_clock(m).m = m
        \/ fail_clock(m).m = [m EXCEPT !.state = "SupervisorError"]
    BY DEF fail_clock, Result
  <2> QED BY <2>1, <2>2 DEF Machine, PolicyState
<1>3. CASE /\ m.state # "Exited"
           /\ ~(m.last_event_at # None /\ event_at(e) < m.last_event_at)
  <2> DEFINE u == [m EXCEPT !.last_event_at = event_at(e)]
  <2>1. apply(m, e) = apply_sample(u, e) BY <1>3 DEF apply, dispatch
  <2>2. event_at(e) \in Option(Duration) BY DEF event_at, Option
  <2>3. u \in Machine /\ u.mode = "Observe" BY <2>2 DEF Machine
  <2> HIDE DEF u
  <2> DEFINE n == [u EXCEPT !.missing_streak = saturating_inc(@)]
             p == IF u.intervention_started
                  THEN saturating_inc(u.post_signal_observations)
                  ELSE u.post_signal_observations
             seen == [u EXCEPT !.missing_streak = 0, !.post_signal_observations = p]
  <2>4. saturating_inc(u.missing_streak) \in Count /\ p \in Count /\ 0 \in Count
    <3>1. u.missing_streak \in Count /\ u.post_signal_observations \in Count
      BY <2>3 DEF Machine
    <3> QED BY <1>0, <3>1, WidthAssumption DEF Count
  <2>5. n \in Machine /\ n.mode = "Observe" BY <2>3, <2>4 DEF Machine
  <2>6. seen \in Machine /\ seen.mode = "Observe"
    <3> HIDE DEF p
    <3> QED BY <2>3, <2>4 DEF Machine
  <2>7. CASE usable(u, e)
    <3>1. apply_sample(u, e).m = seen BY <2>3, <2>7 DEF apply_sample, Result
    <3> QED BY <2>1, <2>6, <3>1
  <2>8. CASE ~usable(u, e)
    <3>1. apply_sample(u, e) = apply_missing(u, e.processed_at)
      BY <2>8 DEF apply_sample
    <3>2. \/ apply_missing(u, e.processed_at).m = n
          \/ apply_missing(u, e.processed_at).m = [n EXCEPT !.state = "SupervisorError"]
      BY <2>3 DEF apply_missing, Result
    <3> HIDE DEF n
    <3> QED BY <2>1, <2>5, <3>1, <3>2 DEF Machine, PolicyState
  <2> QED BY <2>7, <2>8
<1> QED BY <1>1, <1>2, <1>3

-----------------------------------------------------------------------------
(* One group signal.                                                       *)

\* A member that is not alive never is again, and a group that is gone is gone.
Dies == (NobodyAlive => NobodyAlive') /\ (GroupGone => GroupGone')

\* What a signal to the group may change: only KILL strikes, and a KILL that is
\* not refused leaves nobody alive.
LEMMA SignalEffect ==
    ASSUME WorldTypes, LoopTypes, NEW kill \in BOOLEAN, SignalGroup(kill)
    PROVE  /\ root' \in MemberState /\ kid' \in MemberState
           /\ Dies
           /\ history' \in Histories
           /\ history'.looped = history.looped
           /\ history'.failed = history.failed
           /\ history'.term <=> (history.term \/ pc = "term")
           /\ history'.refused => (history.refused \/ pc = "drop")
           /\ history'.struck => \/ history.struck
                                 \/ kill /\ ~NobodyAlive
           /\ (kill /\ pc = "drop") => (NobodyAlive' \/ history'.refused)
<1> DEFINE strike == kill /\ signal_raw = "Delivered"
           s == history.struck \/ (strike /\ "alive" \in {root, kid})
           t == history.term \/ pc = "term"
           d == pc = "drop"
<1>0. s \in BOOLEAN /\ t \in BOOLEAN /\ d \in BOOLEAN /\ strike \in BOOLEAN OBVIOUS
<1>1. CASE /\ root' = IF strike THEN doom(root) ELSE root
           /\ kid' = IF strike THEN doom(kid) ELSE kid
           /\ history' = [history EXCEPT !.struck = s, !.term = t]
  <2>1. /\ history' \in Histories
        /\ history'.looped = history.looped
        /\ history'.failed = history.failed
        /\ history'.refused = history.refused
        /\ history'.term = t /\ history'.struck = s
    <3> HIDE DEF s, t
    <3> QED BY <1>0, <1>1 DEF LoopTypes, Histories
  <2>2. root' \in MemberState /\ kid' \in MemberState /\ Dies
    BY <1>1 DEF WorldTypes, doom, MemberState, Dies, NobodyAlive, GroupGone
  <2>3. kill => NobodyAlive'
    <3>1. CASE strike BY <1>1, <3>1 DEF doom, NobodyAlive
    <3>2. CASE ~strike /\ kill
      <4>1. ~LiveMember BY <3>2 DEF signal_raw, GroupExists, LiveMember, Live
      <4> QED BY <1>1, <3>2, <4>1 DEF LiveMember, Live, NobodyAlive
    <3> QED BY <3>1, <3>2
  <2> QED BY <2>1, <2>2, <2>3 DEF NobodyAlive
<1>2. CASE /\ history' = [history EXCEPT !.refused = d, !.term = t]
           /\ UNCHANGED <<root, kid>>
  <2>1. /\ history' \in Histories
        /\ history'.looped = history.looped
        /\ history'.failed = history.failed
        /\ history'.refused = d
        /\ history'.term = t /\ history'.struck = history.struck
    <3> HIDE DEF d, t
    <3> QED BY <1>0, <1>2 DEF LoopTypes, Histories
  <2> QED BY <1>2, <2>1 DEF WorldTypes, Dies, NobodyAlive, GroupGone
<1> QED BY <1>1, <1>2 DEF SignalGroup

-----------------------------------------------------------------------------
(* The steps.                                                              *)

LEMMA InitInvariant == Init => IInv
<1> SUFFICES ASSUME Init PROVE IInv OBVIOUS
<1>1. 0 \in Duration /\ None \in Option(Duration)
  BY WidthAssumption DEF Duration, Option
<1>2. policy \in Machine /\ policy.mode = "Observe"
  BY ObserveMachine, ObserveAssumption DEF Init
<1>3. obs \in Latches /\ obs.parent_shutdown_deadline = None
  BY <1>1 DEF Init, Latches
<1>4. history \in Histories /\ history.looped = FALSE /\ history.failed = FALSE
      /\ history.refused = FALSE /\ history.term = FALSE /\ history.struck = FALSE
  BY DEF Init, Histories
<1>5. /\ pc = "prepare" /\ report = None /\ clock = 0
      /\ root = "alive" /\ kid = "gone" /\ parentAlive = TRUE
  BY DEF Init
<1> QED
  BY <1>1, <1>2, <1>3, <1>4, <1>5
  DEF IInv, WorldTypes, MachineTypes, LoopTypes, PlaceOK, QueryOK, StruckOK, ResultOK,
      EndOK, OnlyAuthorisedKills, MemberState, Places, Looping, InFlight

\* A step of the world moves members towards their end and leaves the
\* supervisor alone, except that a living root may start a descendant.
LEMMA WorldStep ==
    ASSUME IInv, World
    PROVE  IInv'
<1>1. UNCHANGED <<pc, clock, policy, obs, drained, report, history>>
  BY DEF World, RootExits, KidExits, KidReaped, Fork, ParentDies, UserSignals, supervisor
<1>2. root' \in MemberState /\ kid' \in MemberState /\ parentAlive' \in BOOLEAN
  BY DEF World, RootExits, KidExits, KidReaped, Fork, ParentDies, UserSignals, RootExit,
         KidExit, KidReap, KidFork, IInv, WorldTypes, MemberState
<1>3. Dies
  BY DEF World, RootExits, KidExits, KidReaped, Fork, ParentDies, UserSignals, RootExit,
         KidExit, KidReap, KidFork, Live, Dies, NobodyAlive, GroupGone
<1>4. WorldTypes' BY <1>2 DEF WorldTypes
<1>5. MachineTypes' /\ LoopTypes' /\ PlaceOK' /\ StruckOK' /\ ResultOK'
  BY <1>1 DEF IInv, MachineTypes, LoopTypes, PlaceOK, InFlight, StruckOK,
              OnlyAuthorisedKills, ResultOK
<1>6. QueryOK' BY <1>1, <1>3 DEF IInv, QueryOK, InFlight, Dies
<1>7. EndOK' BY <1>1, <1>3 DEF IInv, EndOK, Dies
<1> QED BY <1>4, <1>5, <1>6, <1>7 DEF IInv

\* A completion: what it reports is justified, and the group is dropped unless
\* it is relinquished with its survivors or with a failure.
Completes ==
    /\ pc \in Looping
    /\ pc' \in {"drop", "done"}
    /\ report' \in Reports
    /\ UNCHANGED <<clock, policy, obs>>
    /\ (pc' = "drop" /\ history'.looped) => (InFlight \/ GroupGone')
    /\ (history'.term /\ ~history'.failed) => report'.result = "PolicyIntervention"
    /\ pc' = "done" => \/ report'.result = "SupervisorFailure"
                       \/ report'.result = "Child" /\ report'.survivors

LEMMA CompletionStep ==
    ASSUME IInv, Completes, WorldTypes',
           history' \in Histories, history'.looped = history.looped,
           history'.term = history.term,
           InFlight \/ history'.struck = history.struck
    PROVE  IInv'
<1>1. MachineTypes' BY DEF IInv, MachineTypes, Completes
<1>2. LoopTypes' BY DEF IInv, LoopTypes, Completes, Places
<1>3. PlaceOK' BY DEF IInv, PlaceOK, Completes, Looping, InFlight
<1>4. QueryOK' BY DEF QueryOK, Completes, InFlight
<1>5. StruckOK' BY DEF IInv, StruckOK, OnlyAuthorisedKills, Completes, InFlight
<1>6. ResultOK' BY DEF ResultOK, Completes, Looping
<1>7. EndOK' BY DEF EndOK, Completes
<1> QED BY <1>1, <1>2, <1>3, <1>4, <1>5, <1>6, <1>7 DEF IInv

\* A move within the loop that leaves the shutdown and the history alone.
Moves ==
    /\ pc \in Looping \ {"prepare"}
    /\ pc' \in Looping \ {"prepare"}
    /\ pc' = "kill" => InFlight
    /\ pc' = "decide" /\ ~obs'.group_exists => GroupGone'
    /\ UNCHANGED <<report, history>>
    /\ obs' \in Latches
    /\ obs'.parent_shutdown_deadline = obs.parent_shutdown_deadline
    /\ obs'.terminal_signal_count = obs.terminal_signal_count

LEMMA MoveStep ==
    ASSUME IInv, Moves, WorldTypes', MachineTypes'
    PROVE  IInv'
<1>1. LoopTypes' BY DEF IInv, LoopTypes, Moves, Looping, Places
<1>2. PlaceOK' BY DEF IInv, PlaceOK, Moves, Looping, InFlight
<1>3. QueryOK' BY DEF QueryOK, Moves, Looping, InFlight
<1>4. StruckOK' BY DEF IInv, StruckOK, OnlyAuthorisedKills, Moves
<1>5. ResultOK' BY DEF ResultOK, Moves
<1>6. EndOK' BY DEF EndOK, Moves, Looping
<1> QED BY <1>1, <1>2, <1>3, <1>4, <1>5, <1>6 DEF IInv

LEMMA PrepareStep ==
    ASSUME IInv, Prepare
    PROVE  IInv'
<1>0. /\ pc = "prepare" /\ UNCHANGED <<kid, parentAlive, clock, policy, obs>>
      /\ history.looped = FALSE /\ history.term = FALSE /\ history \in Histories
  BY DEF Prepare, IInv, PlaceOK, LoopTypes, Histories, Looping
<1>1. CASE /\ Goto("wait") /\ history' = [history EXCEPT !.looped = TRUE] /\ UNCHANGED root
  <2>1. /\ history' \in Histories /\ history'.looped = TRUE
        /\ history'.term = history.term /\ history'.struck = history.struck
        /\ history'.failed = history.failed /\ history'.refused = history.refused
    BY <1>0, <1>1 DEF Histories
  <2>2. pc' = "wait" /\ report' = report BY <1>1 DEF Goto
  <2>3. ~history.struck BY <1>0 DEF IInv, PlaceOK
  <2> QED
    BY <1>0, <1>1, <2>1, <2>2, <2>3
    DEF IInv, WorldTypes, MachineTypes, LoopTypes, Places, PlaceOK, Looping, InFlight,
        QueryOK, StruckOK, OnlyAuthorisedKills, ResultOK, EndOK
<1>2. CASE /\ root = "zombie" /\ root' = "gone"
           /\ Complete(Report("Child", TRUE, FALSE), FALSE) /\ UNCHANGED history
  <2>1. /\ report' = Report("Child", TRUE, FALSE) /\ pc' = "drop" BY <1>2 DEF Complete
  <2>2. Completes
    BY <1>0, <1>2, <2>1 DEF Completes, Report, Reports, Results, Looping
  <2>3. WorldTypes' BY <1>0, <1>2 DEF IInv, WorldTypes, MemberState
  <2> QED BY <1>0, <1>2, <2>2, <2>3, CompletionStep
<1>3. CASE /\ Complete(Report("SupervisorFailure", FALSE, FALSE), FALSE)
           /\ UNCHANGED <<root, history>>
  <2>1. /\ report' = Report("SupervisorFailure", FALSE, FALSE) /\ pc' = "drop"
    BY <1>3 DEF Complete
  <2>2. Completes
    BY <1>0, <1>3, <2>1 DEF Completes, Report, Reports, Results, Looping
  <2>3. WorldTypes' BY <1>0, <1>3 DEF IInv, WorldTypes
  <2> QED BY <1>0, <1>3, <2>2, <2>3, CompletionStep
<1> QED BY <1>1, <1>2, <1>3 DEF Prepare

LEMMA WaitRootStep ==
    ASSUME IInv, WaitRoot
    PROVE  IInv'
<1>1. /\ pc = "wait" /\ pc' = "group" /\ report' = report
      /\ UNCHANGED <<kid, parentAlive, clock, policy, history>>
      /\ root' = reap(root)
  BY DEF WaitRoot, Goto
<1>2. /\ obs' \in Latches
      /\ obs'.parent_shutdown_deadline = obs.parent_shutdown_deadline
      /\ obs'.terminal_signal_count = obs.terminal_signal_count
  <2> DEFINE b == obs.root_outcome \/ root = "zombie"
  <2>1. b \in BOOLEAN OBVIOUS
  <2>2. obs' = [obs EXCEPT !.root_outcome = b] BY DEF WaitRoot
  <2> HIDE DEF b
  <2> QED BY <2>1, <2>2 DEF IInv, LoopTypes, Latches
<1>3. WorldTypes' BY <1>1 DEF IInv, WorldTypes, reap, MemberState
<1>4. MachineTypes' BY <1>1 DEF IInv, MachineTypes
<1>5. Moves BY <1>1, <1>2 DEF Moves, Looping
<1> QED BY <1>3, <1>4, <1>5, MoveStep

LEMMA QueryGroupStep ==
    ASSUME IInv, QueryGroup
    PROVE  IInv'
<1>1. /\ pc = "group" /\ pc' = "decide" /\ report' = report
      /\ UNCHANGED <<root, kid, parentAlive, clock, policy, history>>
  BY DEF QueryGroup, Goto, world
<1>2. /\ obs' \in Latches
      /\ obs'.group_exists = GroupExists
      /\ obs'.parent_shutdown_deadline = obs.parent_shutdown_deadline
      /\ obs'.terminal_signal_count = obs.terminal_signal_count
  <2>1. GroupExists \in BOOLEAN BY DEF GroupExists
  <2>2. obs' = [obs EXCEPT !.group_exists = GroupExists] BY DEF QueryGroup
  <2> QED BY <2>1, <2>2 DEF IInv, LoopTypes, Latches
<1>3. WorldTypes' BY <1>1 DEF IInv, WorldTypes
<1>4. MachineTypes' BY <1>1 DEF IInv, MachineTypes
<1>5. ~obs'.group_exists => GroupGone' BY <1>1, <1>2 DEF GroupExists, GroupGone
<1>6. Moves BY <1>1, <1>2, <1>5 DEF Moves, Looping
<1> QED BY <1>3, <1>4, <1>6, MoveStep

LEMMA DecideStep ==
    ASSUME IInv, DecideShutdown \/ DecideRoot
    PROVE  IInv'
<1>1. /\ pc = "decide"
      /\ UNCHANGED <<root, kid, parentAlive, clock, policy, obs, history>>
  BY DEF DecideShutdown, DecideRoot, world
<1>2. WorldTypes' /\ MachineTypes' /\ history \in Histories
  BY <1>1 DEF IInv, WorldTypes, MachineTypes, LoopTypes
<1>3. obs.root_outcome \in BOOLEAN /\ obs.group_exists \in BOOLEAN /\ obs \in Latches
  BY DEF IInv, LoopTypes, Latches
<1>4. CASE DecideShutdown /\ ~obs.group_exists
  <2>1. /\ report' = Report("PolicyIntervention", obs.root_outcome, FALSE)
        /\ pc' = "drop" /\ InFlight
    BY <1>4 DEF DecideShutdown, complete_parent_exit, Complete, InFlight
  <2>2. Completes
    BY <1>1, <1>3, <2>1 DEF Completes, Report, Reports, Results, Looping
  <2> QED BY <1>1, <1>2, <2>2, CompletionStep
<1>5. CASE DecideShutdown /\ obs.group_exists
  <2>1. InFlight /\ pc' \in {"kill", "poll"} /\ report' = report
    BY <1>5 DEF DecideShutdown, Goto, InFlight
  <2>2. Moves BY <1>1, <1>3, <2>1 DEF Moves, Looping
  <2> QED BY <1>2, <2>2, MoveStep
<1>6. CASE DecideRoot
  <2>1. /\ report' = Report("Child", TRUE, obs.group_exists)
        /\ pc' = (IF obs.group_exists THEN "done" ELSE "drop") /\ ~InFlight
    BY <1>6 DEF DecideRoot, complete_root, Complete, InFlight
  <2>2. /\ report' \in Reports /\ report'.result = "Child"
        /\ report'.survivors = obs.group_exists
    BY <1>3, <2>1 DEF Report, Reports, Results
  <2>3. ~history.term BY <2>1 DEF IInv, PlaceOK
  <2>4. ~obs.group_exists => GroupGone' BY <1>1 DEF IInv, QueryOK, GroupGone
  <2>5. Completes
    BY <1>1, <2>1, <2>2, <2>3, <2>4 DEF Completes, Looping
  <2> QED BY <1>1, <1>2, <2>5, CompletionStep
<1> QED BY <1>4, <1>5, <1>6

LEMMA CheckParentStep ==
    ASSUME IInv, CheckParent
    PROVE  IInv'
<1>1. /\ pc = "decide" /\ pc' \in {"term", "poll"} /\ report' = report
      /\ UNCHANGED <<root, kid, parentAlive, clock, policy, history>>
      /\ obs' = [obs EXCEPT !.parent_exited = ~parentAlive]
  BY DEF CheckParent, Goto, world
<1>2. /\ obs' \in Latches
      /\ obs'.parent_shutdown_deadline = obs.parent_shutdown_deadline
      /\ obs'.terminal_signal_count = obs.terminal_signal_count
  <2> DEFINE b == ~parentAlive
  <2>1. b \in BOOLEAN OBVIOUS
  <2>2. obs' = [obs EXCEPT !.parent_exited = b] BY <1>1
  <2> HIDE DEF b
  <2> QED BY <2>1, <2>2 DEF IInv, LoopTypes, Latches
<1>3. WorldTypes' /\ MachineTypes' BY <1>1 DEF IInv, WorldTypes, MachineTypes
<1>4. Moves BY <1>1, <1>2 DEF Moves, Looping
<1> QED BY <1>3, <1>4, MoveStep

\* TERM arms the grace whether it was delivered, refused or found nobody.
LEMMA TerminateGroupStep ==
    ASSUME IInv, TerminateGroup
    PROVE  IInv'
<1>0. WorldTypes /\ LoopTypes /\ SignalGroup(FALSE) BY DEF IInv, TerminateGroup
<1>1. /\ pc = "term" /\ pc' = "poll" /\ report' = report
      /\ UNCHANGED <<parentAlive, clock, policy>>
  BY DEF TerminateGroup, Goto
<1>2. /\ root' \in MemberState /\ kid' \in MemberState
      /\ history' \in Histories /\ history'.looped = history.looped
      /\ history'.failed = history.failed
      /\ history'.term
      /\ ~history'.refused
  BY <1>0, <1>1, SignalEffect DEF IInv, PlaceOK, Looping
<1>3. obs' \in Latches /\ obs'.parent_shutdown_deadline # None
  <2> DEFINE d == saturating_add(clock, TERM_GRACE)
  <2>1. TERM_GRACE \in Nat BY ObserveAssumption, WidthAssumption DEF Duration
  <2>2. d \in Duration /\ d # None BY <2>1, SaturatingAdd DEF IInv, MachineTypes
  <2>3. d \in Option(Duration) BY <2>2 DEF Option
  <2>4. obs' = [obs EXCEPT !.parent_shutdown_deadline = d] BY DEF TerminateGroup
  <2> HIDE DEF d
  <2> QED BY <2>2, <2>3, <2>4 DEF IInv, LoopTypes, Latches
<1>4. WorldTypes' /\ MachineTypes' BY <1>1, <1>2 DEF IInv, WorldTypes, MachineTypes
<1>5. LoopTypes' BY <1>1, <1>2, <1>3 DEF LoopTypes, Places
<1>6. PlaceOK' BY <1>1, <1>2, <1>3 DEF IInv, PlaceOK, Looping, InFlight
<1>7. QueryOK' /\ ResultOK' /\ EndOK' BY <1>1 DEF QueryOK, ResultOK, EndOK, Looping
<1>8. StruckOK' BY <1>3 DEF StruckOK, OnlyAuthorisedKills
<1> QED BY <1>4, <1>5, <1>6, <1>7, <1>8 DEF IInv

LEMMA KillGroupStep ==
    ASSUME IInv, KillGroup
    PROVE  IInv'
<1>0. WorldTypes /\ LoopTypes /\ SignalGroup(TRUE) BY DEF IInv, KillGroup
<1>1. /\ pc = "kill" /\ pc' = "drop"
      /\ report' = Report("PolicyIntervention", obs.root_outcome, TRUE)
      /\ UNCHANGED <<parentAlive, clock, policy, obs>>
  BY DEF KillGroup, complete_parent_exit, Complete
<1>2. /\ root' \in MemberState /\ kid' \in MemberState
      /\ history' \in Histories /\ history'.looped = history.looped
      /\ history'.term <=> history.term
  BY <1>0, <1>1, SignalEffect
<1>3. InFlight BY <1>1 DEF IInv, PlaceOK
<1>4. obs.root_outcome \in BOOLEAN BY DEF IInv, LoopTypes, Latches
<1>5. Completes
  BY <1>1, <1>3, <1>4 DEF Completes, Report, Reports, Results, Looping
<1>6. WorldTypes' BY <1>1, <1>2 DEF IInv, WorldTypes
<1>7. history'.term = history.term BY <1>2 DEF IInv, LoopTypes, Histories
<1> QED BY <1>2, <1>3, <1>5, <1>6, <1>7, CompletionStep

LEMMA DrainSignalsStep ==
    ASSUME IInv, DrainSignals
    PROVE  IInv'
<1>1. /\ pc = "poll" /\ pc' = "forward" /\ report' = report
      /\ UNCHANGED <<root, kid, parentAlive, clock, policy, obs, history>>
  BY DEF DrainSignals, Goto
<1>2. WorldTypes' /\ MachineTypes' BY <1>1 DEF IInv, WorldTypes, MachineTypes
<1>3. obs \in Latches BY DEF IInv, LoopTypes
<1>4. Moves BY <1>1, <1>3 DEF Moves, Looping
<1> QED BY <1>2, <1>4, MoveStep

\* Only a second terminal signal is turned into KILL.
LEMMA ForwardNextStep ==
    ASSUME IInv, ForwardNext
    PROVE  IInv'
<1> DEFINE kill == obs.terminal_signal_count > 0
<1>0. /\ WorldTypes /\ LoopTypes /\ kill \in BOOLEAN /\ SignalGroup(kill)
  BY DEF IInv, ForwardNext
<1>1. /\ pc = "forward" /\ pc' = "forward" /\ report' = report
      /\ UNCHANGED <<parentAlive, clock, policy>>
  BY DEF ForwardNext, Goto
<1> HIDE DEF kill
<1>2. /\ root' \in MemberState /\ kid' \in MemberState
      /\ history' \in Histories /\ history'.looped = history.looped
      /\ history'.failed = history.failed
      /\ history'.term <=> history.term
      /\ ~history'.refused
      /\ history'.struck => history.struck \/ kill
  BY <1>0, <1>1, SignalEffect DEF IInv, PlaceOK, Looping
<1>3. /\ obs.terminal_signal_count \in Nat
      /\ obs' \in Latches
      /\ obs'.parent_shutdown_deadline = obs.parent_shutdown_deadline
      /\ obs'.terminal_signal_count = obs.terminal_signal_count + 1
  <2>1. obs.terminal_signal_count \in Nat BY DEF IInv, LoopTypes, Latches
  <2> DEFINE n == obs.terminal_signal_count + 1
  <2>2. n \in Nat BY <2>1
  <2>3. obs' = [obs EXCEPT !.terminal_signal_count = n] BY DEF ForwardNext
  <2> HIDE DEF n
  <2>4. /\ obs' \in Latches
        /\ obs'.parent_shutdown_deadline = obs.parent_shutdown_deadline
        /\ obs'.terminal_signal_count = n
    BY <2>2, <2>3 DEF IInv, LoopTypes, Latches
  <2> QED BY <2>1, <2>4 DEF n
<1>4. WorldTypes' /\ MachineTypes' BY <1>1, <1>2 DEF IInv, WorldTypes, MachineTypes
<1>5. LoopTypes' BY <1>1, <1>2, <1>3 DEF LoopTypes, Places
<1>6. PlaceOK' BY <1>1, <1>2, <1>3 DEF IInv, PlaceOK, Looping, InFlight
<1>7. QueryOK' /\ ResultOK' /\ EndOK' BY <1>1 DEF QueryOK, ResultOK, EndOK, Looping
<1>8. kill => obs'.terminal_signal_count >= 2 BY <1>3 DEF kill
<1>9. obs.terminal_signal_count >= 2 => obs'.terminal_signal_count >= 2 BY <1>3
<1>10. StruckOK'
  BY <1>2, <1>3, <1>8, <1>9 DEF IInv, StruckOK, OnlyAuthorisedKills
<1> QED BY <1>4, <1>5, <1>6, <1>7, <1>10 DEF IInv

\* Measurement loss completes the run only while no shutdown is in flight.
LEMMA AfterSampleStep ==
    ASSUME IInv, NEW failed \in BOOLEAN, after_sample(failed), pc = "forward",
           UNCHANGED <<root, kid, parentAlive, history>>,
           MachineTypes', obs' \in Latches,
           obs'.parent_shutdown_deadline = obs.parent_shutdown_deadline,
           obs'.terminal_signal_count = obs.terminal_signal_count
    PROVE  IInv'
<1>1. WorldTypes' BY DEF IInv, WorldTypes
<1>2. CASE failed /\ obs.parent_shutdown_deadline = None
  <2>1. report' = Report("SupervisorFailure", FALSE, FALSE) /\ pc' = "done"
    BY <1>2 DEF after_sample, complete_failure, Complete
  <2>2. report' \in Reports /\ report'.result = "SupervisorFailure"
    BY <2>1 DEF Report, Reports, Results
  <2>3. ~history.term /\ history \in Histories
    BY <1>2 DEF IInv, PlaceOK, InFlight, LoopTypes
  <2>4. history.looped BY DEF IInv, PlaceOK, Looping
  <2>5. LoopTypes' BY <2>1, <2>3 DEF LoopTypes, Places
  <2>6. PlaceOK' BY <1>2, <2>1, <2>2, <2>3, <2>4 DEF PlaceOK, Looping, InFlight
  <2>7. QueryOK' /\ ResultOK' /\ EndOK'
    BY <2>1, <2>2, <2>3 DEF QueryOK, ResultOK, EndOK, Looping
  <2>8. StruckOK' BY DEF IInv, StruckOK, OnlyAuthorisedKills
  <2> QED BY <1>1, <2>5, <2>6, <2>7, <2>8 DEF IInv
<1>3. CASE ~(failed /\ obs.parent_shutdown_deadline = None)
  <2>1. pc' = "sleep" /\ report' = report BY <1>3 DEF after_sample, Goto
  <2>2. Moves BY <2>1 DEF Moves, Looping
  <2> QED BY <1>1, <2>2, MoveStep
<1> QED BY <1>2, <1>3

LEMMA SampleOnceStep ==
    ASSUME IInv, NEW usable_sample \in BOOLEAN, NEW duration \in 0 .. 1,
           SampleOnce(usable_sample, duration)
    PROVE  IInv'
<1> DEFINE t == saturating_add(clock, duration)
           e == [type |-> "Sample", captured_at |-> t, processed_at |-> t, window |-> 1,
                 aggregate_bytes |-> IF usable_sample THEN 1 ELSE None]
           m == apply(policy, e).m
           failed == m.state = "SupervisorError"
<1>1. /\ pc = "forward" /\ clock' = t /\ policy' = m
      /\ obs' = [obs EXCEPT !.observation_failed = failed, !.last_started_at = clock]
      /\ after_sample(failed)
      /\ UNCHANGED <<root, kid, parentAlive, history>>
  BY DEF SampleOnce, world
<1>2. t \in Duration
  BY SaturatingAdd DEF IInv, MachineTypes
<1>3. m \in Machine /\ m.mode = "Observe"
  <2>1. e.type = "Sample" /\ e.processed_at \in Duration BY <1>2
  <2> HIDE DEF e, t
  <2> QED BY <2>1, ObserveSample DEF IInv, MachineTypes
<1>4. failed \in BOOLEAN OBVIOUS
<1> HIDE DEF t, e, m, failed
<1>5. MachineTypes' BY <1>1, <1>2, <1>3 DEF MachineTypes
<1>6. /\ obs' \in Latches
      /\ obs'.parent_shutdown_deadline = obs.parent_shutdown_deadline
      /\ obs'.terminal_signal_count = obs.terminal_signal_count
  BY <1>1, <1>4 DEF IInv, LoopTypes, MachineTypes, Latches
<1> QED BY <1>1, <1>4, <1>5, <1>6, AfterSampleStep

LEMMA SkipSampleStep ==
    ASSUME IInv, SkipSample
    PROVE  IInv'
<1>1. /\ pc = "forward" /\ after_sample(TRUE)
      /\ UNCHANGED <<root, kid, parentAlive, clock, policy, obs, history>>
  BY DEF SkipSample, world
<1>2. MachineTypes' /\ obs \in Latches BY <1>1 DEF IInv, MachineTypes, LoopTypes
<1> QED BY <1>1, <1>2, AfterSampleStep

LEMMA SleepStep ==
    ASSUME IInv, NEW extra \in 0 .. 1, Sleep(extra)
    PROVE  IInv'
<1>1. /\ pc = "sleep" /\ pc' = "wait" /\ report' = report
      /\ UNCHANGED <<root, kid, parentAlive, policy, obs, history>>
  BY DEF Sleep, Goto, world
<1>2. \A delay \in 0 .. 1 : saturating_add(clock, delay + extra) \in Duration
  BY SaturatingAdd DEF IInv, MachineTypes
<1>3. clock' \in Duration
  <2>1. clock' = clock \/ \E delay \in 0 .. 1 : clock' = saturating_add(clock, delay + extra)
    BY DEF Sleep
  <2> QED BY <1>2, <2>1 DEF IInv, MachineTypes
<1>4. WorldTypes' /\ MachineTypes' BY <1>1, <1>3 DEF IInv, WorldTypes, MachineTypes
<1>5. obs \in Latches BY DEF IInv, LoopTypes
<1>6. Moves BY <1>1, <1>5 DEF Moves, Looping
<1> QED BY <1>4, <1>6, MoveStep

LEMMA FailSupervisorStep ==
    ASSUME IInv, FailSupervisor
    PROVE  IInv'
<1>1. /\ pc \in Looping \ {"prepare"} /\ pc' = "done"
      /\ report' = Report("SupervisorFailure", FALSE, FALSE)
      /\ history' = [history EXCEPT !.failed = TRUE]
      /\ UNCHANGED <<root, kid, parentAlive, clock, policy, obs>>
  BY DEF FailSupervisor, complete_failure, Complete, world, Looping
<1>2. /\ history' \in Histories /\ history'.failed = TRUE
      /\ history'.looped = history.looped /\ history'.term = history.term
      /\ history'.struck = history.struck
  BY <1>1 DEF IInv, LoopTypes, Histories
<1>3. Completes
  BY <1>1, <1>2 DEF Completes, Report, Reports, Results
<1>4. WorldTypes' BY <1>1 DEF IInv, WorldTypes
<1> QED BY <1>2, <1>3, <1>4, CompletionStep

\* The drop strikes what is left: nobody the loop had not given up already.
LEMMA DropProcessStep ==
    ASSUME IInv, DropProcess
    PROVE  IInv'
<1>0. WorldTypes /\ LoopTypes /\ SignalGroup(TRUE) BY DEF IInv, DropProcess
<1>1. /\ pc = "drop" /\ pc' = "reap" /\ report' = report
      /\ UNCHANGED <<parentAlive, clock, policy, obs>>
  BY DEF DropProcess, Goto
<1>2. /\ root' \in MemberState /\ kid' \in MemberState
      /\ history' \in Histories /\ history'.looped = history.looped
      /\ history'.failed = history.failed
      /\ history'.term <=> history.term
      /\ history'.struck => history.struck \/ ~NobodyAlive
      /\ NobodyAlive' \/ history'.refused
  BY <1>0, <1>1, SignalEffect
<1>3. WorldTypes' /\ MachineTypes' BY <1>1, <1>2 DEF IInv, WorldTypes, MachineTypes
<1>4. LoopTypes' BY <1>1, <1>2 DEF IInv, LoopTypes, Places
<1>5. PlaceOK' BY <1>1, <1>2 DEF IInv, PlaceOK, Looping, InFlight
<1>6. StruckOK'
  BY <1>1, <1>2 DEF IInv, QueryOK, StruckOK, OnlyAuthorisedKills, InFlight, GroupGone,
                    NobodyAlive
<1>7. ResultOK' BY <1>1, <1>2 DEF IInv, ResultOK, Looping
<1>8. QueryOK' /\ EndOK' BY <1>1, <1>2 DEF QueryOK, EndOK
<1> QED BY <1>3, <1>4, <1>5, <1>6, <1>7, <1>8 DEF IInv

LEMMA ReapRootStep ==
    ASSUME IInv, ReapRoot
    PROVE  IInv'
<1>1. /\ pc = "reap" /\ pc' = "done" /\ report' = report /\ root' = "gone"
      /\ UNCHANGED <<kid, parentAlive, clock, policy, obs, history>>
  BY DEF ReapRoot, Goto
<1>2. WorldTypes' /\ MachineTypes' BY <1>1 DEF IInv, WorldTypes, MachineTypes, MemberState
<1>3. LoopTypes' BY <1>1 DEF IInv, LoopTypes, Places
<1>4. PlaceOK' BY <1>1 DEF IInv, PlaceOK, Looping, InFlight
<1>5. StruckOK' /\ ResultOK' /\ QueryOK'
  BY <1>1 DEF IInv, StruckOK, OnlyAuthorisedKills, ResultOK, QueryOK, Looping
<1>6. EndOK' BY <1>1 DEF IInv, EndOK, NobodyAlive
<1> QED BY <1>2, <1>3, <1>4, <1>5, <1>6 DEF IInv

-----------------------------------------------------------------------------
(* The theorems.                                                           *)

LEMMA NextInvariant ==
    ASSUME IInv, [Next]_vars
    PROVE  IInv'
<1>1. CASE Supervisor
  BY <1>1, PrepareStep, WaitRootStep, QueryGroupStep, DecideStep, CheckParentStep,
     TerminateGroupStep, KillGroupStep, DrainSignalsStep, ForwardNextStep, SkipSampleStep,
     SampleOnceStep, SleepStep, FailSupervisorStep, DropProcessStep, ReapRootStep
  DEF Supervisor
<1>2. CASE World BY <1>2, WorldStep
<1>3. CASE UNCHANGED vars
  BY <1>3
  DEF vars, world, IInv, WorldTypes, MachineTypes, LoopTypes, PlaceOK, QueryOK, StruckOK,
      OnlyAuthorisedKills, ResultOK, EndOK, InFlight, GroupGone, NobodyAlive
<1> QED BY <1>1, <1>2, <1>3 DEF Next

\* The inductive invariant of the observing loop holds in every reachable state.
THEOREM ObserveInvariant == Spec => []IInv
BY InitInvariant, NextInvariant, PTL DEF Spec

\* Observe is a bystander (runtime.rs, sample_until_exit and the drop of the
\* owned process): once its loop runs it sends KILL only after a second terminal signal or the exit
\* of the watched parent, and whoever outlives it is in the report, for every
\* grace, every number of signals, faults and forks, and every interleaving.
THEOREM BystanderSafety == Spec => []CommandIsLeftAlone
<1>1. IInv => CommandIsLeftAlone
  <2> SUFFICES ASSUME IInv PROVE CommandIsLeftAlone OBVIOUS
  <2>1. obs.parent_shutdown_deadline \in Option(Duration)
    BY DEF IInv, LoopTypes, Latches
  <2>2. report \in Option(Reports) BY DEF IInv, LoopTypes, PlaceOK, Option
  <2>3. TypeOK
    BY <2>1, <2>2 DEF IInv, WorldTypes, MachineTypes, LoopTypes, TypeOK, Reports, Results
  <2>4. OnlyAuthorisedKills BY DEF IInv, StruckOK
  <2>5. LeftBehindIsReported BY DEF IInv, EndOK, NobodyAlive, LeftBehindIsReported
  <2> QED BY <2>3, <2>4, <2>5 DEF CommandIsLeftAlone
<1> QED BY <1>1, ObserveInvariant, PTL

\* The exit of the watched parent owns the rest of the run (runtime.rs,
\* sample_until_exit with parent_shutdown_deadline set): whatever the sampler sees
\* and however the command ends, the result is the intervention unless a system
\* call failed, and nobody is alive behind it unless the last KILL was refused.
THEOREM ParentExitSafety == Spec => []ParentExitIsEnforced
<1>1. IInv => ParentExitIsEnforced
  <2> SUFFICES ASSUME IInv PROVE ParentExitIsEnforced OBVIOUS
  <2>1. ParentExitOwnsResult BY DEF IInv, PlaceOK, ResultOK, ParentExitOwnsResult
  <2>2. NoOrphanAfterParentExit
    BY DEF IInv, EndOK, NobodyAlive, NoOrphanAfterParentExit
  <2> QED BY <2>1, <2>2 DEF ParentExitIsEnforced
<1> QED BY <1>1, ObserveInvariant, PTL
=============================================================================
