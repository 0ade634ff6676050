------------------------ MODULE PolicyMachineProofs ------------------------
(***************************************************************************)
(* Theorems about the policy machine, for every configuration, clock range *)
(* and footprint.  The argument is in two layers.  Each handler of policy.rs *)
(* gets one lemma saying that it preserves the machine's type and the      *)
(* relation Core between the machine and what it has asked for so far, and *)
(* that its step is Lawful; the theorems then lift these lemmas over Next. *)
(***************************************************************************)
EXTENDS PolicyMachineSpec, TLAPS

Quiet == {"Observe", "Normal", "Warning"}

\* What relates a machine to the history of its requests: k says whether KILL
\* was asked for, n counts the checkpoint requests.
Core(m, k, n) ==
    /\ m.intervention_started => m.state \in Shutdown
    /\ m.term_deadline # None => m.intervention_started
    /\ m.state = "Terminating" =>
          m.intervention_started /\ m.term_deadline # None
    /\ m.state = "Emergency" => m.intervention_started /\ k
    /\ (m.state = "SupervisorError" /\ m.intervention_started) =>
          (k \/ m.term_deadline # None)
    /\ m.state \in Quiet => m.checkpoint_deadline = None /\ n = 0
    /\ n \in {0, 1}
    /\ m.mode = "Observe" =>
          m.state \notin {"Normal", "Warning", "CheckpointRequested"}
    /\ m.mode = "Enforce" => m.state # "Observe"
    /\ m.mode = "Enforce" /\ m.state = "SupervisorError" => m.intervention_started

\* What one step from m to r may do.
Lawful(m, r) ==
    /\ m.term_deadline # None => r.m.term_deadline \in {m.term_deadline, None}
    /\ m.checkpoint_deadline # None =>
          r.m.checkpoint_deadline \in {m.checkpoint_deadline, None}
    /\ m.intervention_started =>
          /\ r.m.intervention_started
          /\ r.m.state \in Shutdown
          /\ Kinds(r.acts) \cap {"SendTerm", "RequestCheckpoint", "ForwardSignal"} = {}

AskedKill(k, r) == k \/ "SendKill" \in Kinds(r.acts)
AskedCheckpoints(n, r) ==
    n + IF "RequestCheckpoint" \in Kinds(r.acts) THEN 1 ELSE 0

Preserves(m, r, k, n) ==
    /\ r.m \in Machine
    /\ Core(r.m, AskedKill(k, r), AskedCheckpoints(n, r))
    /\ Lawful(m, r)

-----------------------------------------------------------------------------
(* The kinds in a list of up to three actions.                             *)

LEMMA KindsOfNone == Kinds(<<>>) = {}
BY DEF Kinds

LEMMA KindsOfOne == ASSUME NEW a PROVE Kinds(<<a>>) = {a.kind}
<1>1. DOMAIN <<a>> = {1} OBVIOUS
<1> QED BY <1>1 DEF Kinds

LEMMA KindsOfTwo == ASSUME NEW a, NEW b PROVE Kinds(<<a, b>>) = {a.kind, b.kind}
<1>1. DOMAIN <<a, b>> = {1, 2} OBVIOUS
<1>2. <<a, b>>[1] = a /\ <<a, b>>[2] = b OBVIOUS
<1> QED BY <1>1, <1>2 DEF Kinds

LEMMA KindsOfThree ==
    ASSUME NEW a, NEW b, NEW c
    PROVE  Kinds(<<a, b, c>>) = {a.kind, b.kind, c.kind}
<1>1. DOMAIN <<a, b, c>> = {1, 2, 3} OBVIOUS
<1>2. <<a, b, c>>[1] = a /\ <<a, b, c>>[2] = b /\ <<a, b, c>>[3] = c OBVIOUS
<1> QED BY <1>1, <1>2 DEF Kinds

LEMMA SaturatingAdd ==
    ASSUME NEW a \in Duration, NEW b \in Duration
    PROVE  saturating_add(a, b) \in Duration
BY WidthAssumption DEF saturating_add, Duration

LEMMA SaturatingInc ==
    ASSUME NEW n \in Count
    PROVE  saturating_inc(n) \in Count
BY WidthAssumption DEF saturating_inc, Count

LEMMA DurationIsNotNone == \A d \in Duration : d # None
BY NoneAssumption, WidthAssumption DEF Duration

-----------------------------------------------------------------------------
(* One lemma per handler.                                                  *)

\* Starting a shutdown from a machine that has not intervened.
LEMMA BeginShutdown ==
    ASSUME NEW m \in Machine, NEW at \in Duration, NEW s \in PolicyState
    PROVE  /\ begin_shutdown(m, s, at) \in Machine
           /\ begin_shutdown(clear_request(m), s, at) \in Machine
           /\ begin_shutdown(m, s, at).term_deadline # None
<1>1. saturating_add(at, m.config.term_grace) \in Duration
  BY SaturatingAdd DEF Machine, PolicyConfig
<1> QED
  BY <1>1, DurationIsNotNone
  DEF begin_shutdown, clear_request, Machine, Option


\* A handler that starts a shutdown asks for exactly one graceful signal.
LEMMA ShutdownPreserves ==
    ASSUME NEW m \in Machine, NEW k \in BOOLEAN, NEW n, Core(m, k, n),
           NEW r, NEW at \in Duration,
           m.state \notin Shutdown \/ ~m.intervention_started,
           m.state # "Exited",
           NEW s \in {"Terminating", "SupervisorError"},
           r.m = begin_shutdown(m, s, at) \/ r.m = begin_shutdown(clear_request(m), s, at),
           "SendKill" \notin Kinds(r.acts), "RequestCheckpoint" \notin Kinds(r.acts)
    PROVE  Preserves(m, r, k, n)
<1>1. ~m.intervention_started BY DEF Core
<1>2. r.m \in Machine BY BeginShutdown DEF PolicyState
<1>3. /\ r.m.term_deadline # None
      /\ r.m.intervention_started = TRUE
      /\ r.m.state = s
      /\ r.m.checkpoint_deadline \in {m.checkpoint_deadline, None}
      /\ r.m.mode = m.mode
  <2>1. saturating_add(at, m.config.term_grace) # None
    BY SaturatingAdd, DurationIsNotNone DEF Machine, PolicyConfig
  <2>2. CASE r.m = begin_shutdown(m, s, at)
    BY <2>1, <2>2 DEF begin_shutdown, Machine
  <2>3. CASE r.m = begin_shutdown(clear_request(m), s, at)
    BY <2>1, <2>3 DEF begin_shutdown, clear_request, Machine
  <2> QED BY <2>2, <2>3
<1>4. AskedKill(k, r) = k /\ AskedCheckpoints(n, r) = n
  BY DEF AskedKill, AskedCheckpoints, Core
<1>5. Core(r.m, k, n)
  BY <1>1, <1>3 DEF Core, Shutdown, Quiet
<1>6. Lawful(m, r)
  BY <1>1, <1>3 DEF Core, Lawful
<1> QED BY <1>2, <1>4, <1>5, <1>6 DEF Preserves

\* A handler that only touches the counters or the clock, and asks for nothing.
LEMMA BookkeepingPreserves ==
    ASSUME NEW m \in Machine, NEW k \in BOOLEAN, NEW n, Core(m, k, n),
           NEW r, r.m \in Machine,
           r.m.state = m.state, r.m.mode = m.mode,
           r.m.intervention_started = m.intervention_started,
           r.m.term_deadline = m.term_deadline,
           r.m.checkpoint_deadline = m.checkpoint_deadline,
           Kinds(r.acts) \cap {"SendKill", "SendTerm", "RequestCheckpoint", "ForwardSignal"} = {}
    PROVE  Preserves(m, r, k, n)
<1>1. AskedKill(k, r) = k /\ AskedCheckpoints(n, r) = n
  BY DEF AskedKill, AskedCheckpoints, Core
<1>2. Core(r.m, k, n) BY DEF Core
<1>3. Lawful(m, r) BY DEF Core, Lawful
<1> QED BY <1>1, <1>2, <1>3 DEF Preserves

\* A handler that asks for KILL.
LEMMA KillPreserves ==
    ASSUME NEW m \in Machine, NEW k \in BOOLEAN, NEW n, Core(m, k, n),
           NEW r, r.m \in Machine,
           r.m.state = "Emergency", r.m.mode = m.mode,
           r.m.intervention_started,
           r.m.term_deadline \in {m.term_deadline, None},
           r.m.checkpoint_deadline \in {m.checkpoint_deadline, None},
           "SendKill" \in Kinds(r.acts),
           Kinds(r.acts) \cap {"SendTerm", "RequestCheckpoint", "ForwardSignal"} = {}
    PROVE  Preserves(m, r, k, n)
<1>1. AskedKill(k, r) = TRUE /\ AskedCheckpoints(n, r) = n
  BY DEF AskedKill, AskedCheckpoints, Core
<1>2. Core(r.m, TRUE, n) BY DEF Core, Shutdown, Quiet
<1>3. Lawful(m, r) BY DEF Core, Lawful, Shutdown
<1> QED BY <1>1, <1>2, <1>3 DEF Preserves

LEMMA ExternalSignalLemma ==
    ASSUME NEW m \in Machine, NEW k \in BOOLEAN, NEW n, Core(m, k, n),
           m.state # "Exited", NEW at \in Duration, NEW signal
    PROVE  Preserves(m, apply_external_signal(m, at, signal), k, n)
<1> DEFINE r == apply_external_signal(m, at, signal)
<1>1. CASE m.state \in {"Terminating", "SupervisorError", "Emergency"}
  <2>1. /\ r.acts = <<SendKill>>
        /\ r.m = [m EXCEPT !.state = "Emergency", !.intervention_started = TRUE]
    BY <1>1 DEF apply_external_signal, Result
  <2>2. Kinds(r.acts) = {"SendKill"} BY <2>1, KindsOfOne DEF SendKill
  <2> HIDE DEF r
  <2>3. /\ r.m \in Machine /\ r.m.state = "Emergency" /\ r.m.mode = m.mode
        /\ r.m.intervention_started = TRUE
        /\ r.m.term_deadline = m.term_deadline
        /\ r.m.checkpoint_deadline = m.checkpoint_deadline
    BY <2>1 DEF Machine, PolicyState
  <2>4. Preserves(m, r, k, n)
    BY <2>2, <2>3, KillPreserves
  <2> QED BY <2>4 DEF r
<1>2. CASE m.state \notin {"Terminating", "SupervisorError", "Emergency"}
  <2>1. /\ r.acts = <<ForwardSignal(signal)>>
        /\ r.m = begin_shutdown(clear_request(m), "Terminating", at)
    BY <1>2 DEF apply_external_signal, Result
  <2>2. Kinds(r.acts) = {"ForwardSignal"} BY <2>1, KindsOfOne DEF ForwardSignal
  <2> HIDE DEF r
  <2>3. Preserves(m, r, k, n)
    BY <1>2, <2>1, <2>2, ShutdownPreserves DEF Shutdown
  <2> QED BY <2>3 DEF r
<1> QED BY <1>1, <1>2

\* A handler that declines the event.
LEMMA DeclinePreserves ==
    ASSUME NEW m \in Machine, NEW k \in BOOLEAN, NEW n, Core(m, k, n)
    PROVE  Preserves(m, Result(m, <<>>), k, n)
<1>1. Kinds(Result(m, <<>>).acts) = {} BY KindsOfNone DEF Result
<1>2. Result(m, <<>>).m = m BY DEF Result
<1> QED BY <1>1, <1>2, BookkeepingPreserves

LEMMA RootExitedLemma ==
    ASSUME NEW m \in Machine, NEW k \in BOOLEAN, NEW n, Core(m, k, n),
           NEW at \in Duration
    PROVE  Preserves(m, apply_root_exited(m, at), k, n)
<1> DEFINE r == apply_root_exited(m, at)
<1>1. CASE m.state \notin {"Normal", "Warning", "CheckpointRequested"}
  BY <1>1, DeclinePreserves DEF apply_root_exited
<1>2. CASE m.state \in {"Normal", "Warning", "CheckpointRequested"}
  <2>1. /\ r.acts = <<SendTerm("SkippedRootExited")>>
        /\ r.m = begin_shutdown(clear_request(m), "Terminating", at)
    BY <1>2 DEF apply_root_exited, Result
  <2>2. Kinds(r.acts) = {"SendTerm"} BY <2>1, KindsOfOne DEF SendTerm
  <2> HIDE DEF r
  <2>3. Preserves(m, r, k, n)
    BY <1>2, <2>1, <2>2, ShutdownPreserves DEF Shutdown
  <2> QED BY <2>3 DEF r
<1> QED BY <1>1, <1>2

LEMMA ParentExitedLemma ==
    ASSUME NEW m \in Machine, NEW k \in BOOLEAN, NEW n, Core(m, k, n),
           NEW at \in Duration
    PROVE  Preserves(m, apply_parent_exited(m, at), k, n)
<1> DEFINE r == apply_parent_exited(m, at)
<1>1. CASE m.state \notin {"Normal", "Warning"}
  BY <1>1, DeclinePreserves DEF apply_parent_exited
<1>2. CASE m.state \in {"Normal", "Warning"}
  <2>1. /\ r.acts = <<SendTerm("SkippedParentExited")>>
        /\ r.m = begin_shutdown(clear_request(m), "Terminating", at)
    BY <1>2 DEF apply_parent_exited, Result
  <2>2. Kinds(r.acts) = {"SendTerm"} BY <2>1, KindsOfOne DEF SendTerm
  <2> HIDE DEF r
  <2>3. Preserves(m, r, k, n)
    BY <1>2, <2>1, <2>2, ShutdownPreserves DEF Shutdown
  <2> QED BY <2>3 DEF r
<1> QED BY <1>1, <1>2

LEMMA CheckpointAckLemma ==
    ASSUME NEW m \in Machine, NEW k \in BOOLEAN, NEW n, Core(m, k, n),
           NEW at \in Duration, NEW id, NEW ok
    PROVE  Preserves(m, apply_checkpoint_ack(m, at, id, ok), k, n)
<1> DEFINE r == apply_checkpoint_ack(m, at, id, ok)
<1>1. CASE m.state # "CheckpointRequested" \/ m.active_request_id # id \/ ~ok
  BY <1>1, DeclinePreserves DEF apply_checkpoint_ack
<1>2. CASE ~(m.state # "CheckpointRequested" \/ m.active_request_id # id \/ ~ok)
  <2>1. /\ r.acts = <<SendTerm("AcknowledgedUnverifiedDurability")>>
        /\ r.m = begin_shutdown(clear_request(m), "Terminating", at)
    BY <1>2 DEF apply_checkpoint_ack, Result
  <2>2. Kinds(r.acts) = {"SendTerm"} BY <2>1, KindsOfOne DEF SendTerm
  <2> HIDE DEF r
  <2>3. Preserves(m, r, k, n)
    BY <1>2, <2>1, <2>2, ShutdownPreserves DEF Shutdown
  <2> QED BY <2>3 DEF r
<1> QED BY <1>1, <1>2

\* The KILL failure clears the deadline, so it relies on KILL having been asked.
LEMMA ActuationFailedLemma ==
    ASSUME NEW m \in Machine, NEW k \in BOOLEAN, NEW n, Core(m, k, n),
           m.state # "Exited", NEW at \in Duration, NEW action \in ActuationKind,
           action = "Checkpoint" => m.state = "CheckpointRequested",
           action = "Kill" => k
    PROVE  Preserves(m, apply_actuation_failed(m, at, action), k, n)
<1> DEFINE r == apply_actuation_failed(m, at, action)
<1>1. CASE action = "Checkpoint"
  <2>1. /\ r.acts = <<SendTerm("SkippedCheckpointFailure")>>
        /\ r.m = begin_shutdown(clear_request(m), "Terminating", at)
    BY <1>1 DEF apply_actuation_failed, Result
  <2>2. Kinds(r.acts) = {"SendTerm"} BY <2>1, KindsOfOne DEF SendTerm
  <2> HIDE DEF r
  <2>3. Preserves(m, r, k, n)
    BY <1>1, <2>1, <2>2, ShutdownPreserves DEF Shutdown
  <2> QED BY <2>3 DEF r
<1>2. CASE action \in {"Term", "ForwardSignal"}
  <2>1. /\ r.acts = <<SendKill>>
        /\ r.m = [clear_request(m) EXCEPT !.term_deadline = None,
                                          !.state = "Emergency",
                                          !.intervention_started = TRUE]
    BY <1>2 DEF apply_actuation_failed, Result
  <2>2. Kinds(r.acts) = {"SendKill"} BY <2>1, KindsOfOne DEF SendKill
  <2> HIDE DEF r
  <2>3. /\ r.m \in Machine /\ r.m.state = "Emergency" /\ r.m.mode = m.mode
        /\ r.m.intervention_started = TRUE
        /\ r.m.term_deadline = None
        /\ r.m.checkpoint_deadline = None
    BY <2>1 DEF Machine, PolicyState, clear_request, Option
  <2>4. Preserves(m, r, k, n) BY <2>2, <2>3, KillPreserves
  <2> QED BY <2>4 DEF r
<1>3. CASE action = "Kill"
  <2>1. /\ r.acts = <<ReportSupervisorError(action)>>
        /\ r.m = [clear_request(m) EXCEPT !.term_deadline = None,
                                          !.state = "SupervisorError",
                                          !.intervention_started = TRUE]
    BY <1>3 DEF apply_actuation_failed, Result
  <2>2. Kinds(r.acts) = {"ReportSupervisorError"}
    BY <2>1, KindsOfOne DEF ReportSupervisorError
  <2> HIDE DEF r
  <2>3. /\ r.m \in Machine /\ r.m.state = "SupervisorError" /\ r.m.mode = m.mode
        /\ r.m.intervention_started = TRUE
        /\ r.m.term_deadline = None
        /\ r.m.checkpoint_deadline = None
    BY <2>1 DEF Machine, PolicyState, clear_request, Option
  <2>4. AskedKill(k, r) = TRUE /\ AskedCheckpoints(n, r) = n
    BY <1>3, <2>2 DEF AskedKill, AskedCheckpoints, Core
  <2>5. Core(r.m, TRUE, n) BY <2>3 DEF Core, Shutdown, Quiet
  <2>6. Lawful(m, r) BY <2>2, <2>3 DEF Core, Lawful, Shutdown
  <2>7. Preserves(m, r, k, n) BY <2>3, <2>4, <2>5, <2>6 DEF Preserves
  <2> QED BY <2>7 DEF r
<1> QED BY <1>1, <1>2, <1>3 DEF ActuationKind

\* A handler that enters supervisor-error without asking for a signal keeps the
\* TERM deadline, so a shutdown already in flight stays armed.
LEMMA FaultPreserves ==
    ASSUME NEW m \in Machine, NEW k \in BOOLEAN, NEW n, Core(m, k, n),
           m.state # "Exited", m.mode = "Observe" \/ m.intervention_started,
           NEW r, r.m \in Machine,
           r.m.state = "SupervisorError", r.m.mode = m.mode,
           r.m.intervention_started = m.intervention_started,
           r.m.term_deadline = m.term_deadline,
           r.m.checkpoint_deadline \in {m.checkpoint_deadline, None},
           Kinds(r.acts) \cap {"SendKill", "SendTerm", "RequestCheckpoint", "ForwardSignal"} = {}
    PROVE  Preserves(m, r, k, n)
<1>1. AskedKill(k, r) = k /\ AskedCheckpoints(n, r) = n
  BY DEF AskedKill, AskedCheckpoints, Core
<1>2. Core(r.m, k, n) BY DEF Core, Shutdown, Quiet
<1>3. Lawful(m, r) BY DEF Core, Lawful, Shutdown
<1> QED BY <1>1, <1>2, <1>3 DEF Preserves

LEMMA SupervisorFaultLemma ==
    ASSUME NEW m \in Machine, NEW k \in BOOLEAN, NEW n, Core(m, k, n),
           m.state # "Exited", NEW at \in Duration
    PROVE  Preserves(m, apply_supervisor_fault(m, at), k, n)
<1> DEFINE r == apply_supervisor_fault(m, at)
           faulted == [clear_request(m) EXCEPT !.state = "SupervisorError"]
<1>1. CASE m.mode = "Observe" \/ m.intervention_started
  <2>1. r.m = faulted /\ r.acts \in {<<StopObserving>>, <<>>}
    BY <1>1 DEF apply_supervisor_fault, Result
  <2>2. Kinds(r.acts) \in {{"StopObserving"}, {}}
    BY <2>1, KindsOfOne, KindsOfNone DEF StopObserving
  <2> HIDE DEF r
  <2>3. /\ r.m \in Machine /\ r.m.state = "SupervisorError" /\ r.m.mode = m.mode
        /\ r.m.intervention_started = m.intervention_started
        /\ r.m.term_deadline = m.term_deadline
        /\ r.m.checkpoint_deadline = None
    BY <2>1 DEF Machine, PolicyState, clear_request, Option
  <2>4. Preserves(m, r, k, n) BY <1>1, <2>2, <2>3, FaultPreserves
  <2> QED BY <2>4 DEF r
<1>2. CASE m.mode # "Observe" /\ ~m.intervention_started
  <2>1. /\ r.m = begin_shutdown(faulted, "SupervisorError", at)
        /\ r.acts = <<SendTerm("SkippedSupervisorFailure")>>
    BY <1>2 DEF apply_supervisor_fault, Result
  <2>2. begin_shutdown(faulted, "SupervisorError", at)
           = begin_shutdown(clear_request(m), "SupervisorError", at)
    BY DEF begin_shutdown, clear_request, Machine
  <2>3. Kinds(r.acts) = {"SendTerm"} BY <2>1, KindsOfOne DEF SendTerm
  <2> HIDE DEF r
  <2>4. Preserves(m, r, k, n)
    BY <1>2, <2>1, <2>2, <2>3, ShutdownPreserves
  <2> QED BY <2>4 DEF r
<1> QED BY <1>1, <1>2

LEMMA FailClockLemma ==
    ASSUME NEW m \in Machine, NEW k \in BOOLEAN, NEW n, Core(m, k, n),
           m.state # "Exited", m.last_event_at # None
    PROVE  Preserves(m, fail_clock(m), k, n)
<1> DEFINE r == fail_clock(m)
<1>1. CASE m.intervention_started \/ m.state = "SupervisorError"
  BY <1>1, DeclinePreserves DEF fail_clock
<1>2. CASE ~(m.intervention_started \/ m.state = "SupervisorError") /\ m.mode = "Observe"
  <2>1. /\ r.m = [m EXCEPT !.state = "SupervisorError"]
        /\ r.acts = <<RecordMissing, StopObserving>>
    BY <1>2 DEF fail_clock, Result
  <2>2. Kinds(r.acts) = {"RecordMissing", "StopObserving"}
    BY <2>1, KindsOfTwo DEF RecordMissing, StopObserving
  <2> HIDE DEF r
  <2>3. /\ r.m \in Machine /\ r.m.state = "SupervisorError" /\ r.m.mode = m.mode
        /\ r.m.intervention_started = m.intervention_started
        /\ r.m.term_deadline = m.term_deadline
        /\ r.m.checkpoint_deadline = m.checkpoint_deadline
    BY <2>1 DEF Machine, PolicyState
  <2>4. Preserves(m, r, k, n) BY <1>2, <2>2, <2>3, FaultPreserves
  <2> QED BY <2>4 DEF r
<1>3. CASE ~(m.intervention_started \/ m.state = "SupervisorError") /\ m.mode # "Observe"
  <2>1. /\ r.m = begin_shutdown(m, "SupervisorError", m.last_event_at)
        /\ r.acts = <<RecordMissing, SendTerm("SkippedObservationFailure")>>
    BY <1>3 DEF fail_clock, Result
  <2>2. Kinds(r.acts) = {"RecordMissing", "SendTerm"}
    BY <2>1, KindsOfTwo DEF RecordMissing, SendTerm
  <2>3. m.last_event_at \in Duration BY DEF Machine, Option
  <2> HIDE DEF r
  <2>4. Preserves(m, r, k, n)
    BY <1>3, <2>1, <2>2, <2>3, ShutdownPreserves
  <2> QED BY <2>4 DEF r
<1> QED BY <1>1, <1>2, <1>3

LEMMA MissingLemma ==
    ASSUME NEW m \in Machine, NEW k \in BOOLEAN, NEW n, Core(m, k, n),
           m.state # "Exited", NEW at \in Duration
    PROVE  Preserves(m, apply_missing(m, at), k, n)
<1> DEFINE r == apply_missing(m, at)
           c == [m EXCEPT !.missing_streak = saturating_inc(@)]
           kept == \/ c.missing_streak < m.config.max_missing_samples
                   \/ m.state = "SupervisorError"
                   \/ m.intervention_started
<1>0. /\ c \in Machine /\ c.state = m.state /\ c.mode = m.mode
      /\ c.intervention_started = m.intervention_started
      /\ c.term_deadline = m.term_deadline
      /\ c.checkpoint_deadline = m.checkpoint_deadline
  BY SaturatingInc DEF Machine
<1>1. CASE kept
  <2>1. r.m = c /\ r.acts = <<RecordMissing>>
    BY <1>1 DEF apply_missing, Result
  <2>2. Kinds(r.acts) = {"RecordMissing"} BY <2>1, KindsOfOne DEF RecordMissing
  <2> HIDE DEF r, c
  <2>3. Preserves(m, r, k, n) BY <1>0, <2>1, <2>2, BookkeepingPreserves
  <2> QED BY <2>3 DEF r
<1>2. CASE ~kept /\ m.mode = "Observe"
  <2>1. /\ r.m = [c EXCEPT !.state = "SupervisorError"]
        /\ r.acts = <<RecordMissing, StopObserving>>
    BY <1>2 DEF apply_missing, Result
  <2>2. Kinds(r.acts) = {"RecordMissing", "StopObserving"}
    BY <2>1, KindsOfTwo DEF RecordMissing, StopObserving
  <2> HIDE DEF r, c
  <2>3. /\ r.m \in Machine /\ r.m.state = "SupervisorError" /\ r.m.mode = m.mode
        /\ r.m.intervention_started = m.intervention_started
        /\ r.m.term_deadline = m.term_deadline
        /\ r.m.checkpoint_deadline = m.checkpoint_deadline
    BY <1>0, <2>1 DEF Machine, PolicyState
  <2>4. Preserves(m, r, k, n) BY <1>2, <2>2, <2>3, FaultPreserves
  <2> QED BY <2>4 DEF r
<1>3. CASE ~kept /\ m.mode # "Observe"
  <2>1. /\ r.m = begin_shutdown(c, "SupervisorError", at)
        /\ r.acts = <<RecordMissing, SendTerm("SkippedObservationFailure")>>
    BY <1>3 DEF apply_missing, Result
  <2>2. Kinds(r.acts) = {"RecordMissing", "SendTerm"}
    BY <2>1, KindsOfTwo DEF RecordMissing, SendTerm
  <2>3. Core(c, k, n) BY <1>0 DEF Core
  <2> HIDE DEF r, c
  <2>4. Preserves(c, r, k, n)
    BY <1>0, <1>3, <2>1, <2>2, <2>3, ShutdownPreserves
  <2>5. Preserves(m, r, k, n)
    BY <1>0, <2>4 DEF Preserves, Lawful
  <2> QED BY <2>5 DEF r
<1> QED BY <1>1, <1>2, <1>3

\* The graceful path starts from normal or warning only, so no earlier request
\* and no earlier deadline can be overwritten.  The actions may be wrapped.
LEMMA GracefulLemma ==
    ASSUME NEW m \in Machine, NEW k \in BOOLEAN, NEW n, Core(m, k, n),
           m.state \in {"Normal", "Warning"}, NEW at \in Duration, NEW excess,
           NEW d, NEW r, r.m = begin_graceful(m, at, excess, d).m,
           Kinds(r.acts) \subseteq
               {"RecordObservation", "RecordOvershoot", "SendTerm", "RequestCheckpoint"},
           "RequestCheckpoint" \in Kinds(r.acts) =>
               m.config.checkpoint_timeout # None
    PROVE  Preserves(m, r, k, n)
<1>1. CASE m.config.checkpoint_timeout # None
  <2> DEFINE t == saturating_add(at, m.config.checkpoint_timeout)
             i == IF m.next_request_id < MaxRequestId
                  THEN m.next_request_id + 1 ELSE m.next_request_id
  <2>1. r.m = [m EXCEPT !.next_request_id = i,
                        !.active_request_id = m.next_request_id,
                        !.checkpoint_deadline = t,
                        !.state = "CheckpointRequested"]
    BY <1>1 DEF begin_graceful, Result
  <2>2. t \in Duration /\ t # None
    BY <1>1, SaturatingAdd, DurationIsNotNone DEF Machine, PolicyConfig, Option
  <2>3. i \in RequestId BY WidthAssumption DEF Machine, RequestId
  <2> HIDE DEF t, i
  <2>4. /\ r.m \in Machine /\ r.m.state = "CheckpointRequested"
        /\ r.m.mode = m.mode
        /\ r.m.intervention_started = m.intervention_started
        /\ r.m.term_deadline = m.term_deadline
    BY ZenonT(60), <2>1, <2>2, <2>3 DEF Machine, PolicyState, Option
  <2>5. n = 0 /\ ~m.intervention_started /\ m.term_deadline = None
        /\ m.checkpoint_deadline = None
    BY DEF Core, Shutdown, Quiet
  <2>6. AskedKill(k, r) = k /\ AskedCheckpoints(n, r) \in {0, 1}
    BY <2>5 DEF AskedKill, AskedCheckpoints
  <2>7. Core(r.m, AskedKill(k, r), AskedCheckpoints(n, r))
    BY <2>4, <2>5, <2>6 DEF Core, Shutdown, Quiet
  <2>8. Lawful(m, r) BY <2>4, <2>5 DEF Lawful
  <2> QED BY <2>4, <2>7, <2>8 DEF Preserves
<1>2. CASE m.config.checkpoint_timeout = None
  <2>1. r.m = begin_shutdown(m, "Terminating", at)
    BY <1>2 DEF begin_graceful, Result
  <2>2. "RequestCheckpoint" \notin Kinds(r.acts) /\ "SendKill" \notin Kinds(r.acts)
    BY <1>2
  <2> QED BY <2>1, <2>2, ShutdownPreserves DEF Shutdown
<1> QED BY <1>1, <1>2

LEMMA GracefulActions ==
    ASSUME NEW m, NEW at, NEW excess, NEW d
    PROVE  LET g == begin_graceful(m, at, excess, d) IN
           /\ g.acts = <<g.acts[1]>>
           /\ m.config.checkpoint_timeout # None => g.acts[1].kind = "RequestCheckpoint"
           /\ m.config.checkpoint_timeout = None => g.acts[1].kind = "SendTerm"
BY DEF begin_graceful, Result, SendTerm, RequestCheckpoint

LEMMA TickLemma ==
    ASSUME NEW m \in Machine, NEW k \in BOOLEAN, NEW n, Core(m, k, n),
           NEW at \in Duration
    PROVE  Preserves(m, apply_tick(m, at), k, n)
<1> DEFINE r == apply_tick(m, at)
           c1 == m.state = "CheckpointRequested" /\ reached(m.checkpoint_deadline, at)
           c2 == /\ m.state \in {"Terminating", "SupervisorError"}
                 /\ reached(m.term_deadline, at)
           c3 == /\ ~m.intervention_started
                 /\ m.state \in {"Normal", "Warning"}
                 /\ reached(m.config.wall_time, at)
<1>1. CASE c1
  <2>1. /\ r.acts = <<SendTerm("TimedOut")>>
        /\ r.m = begin_shutdown(clear_request(m), "Terminating", at)
    BY <1>1 DEF apply_tick, Result
  <2>2. Kinds(r.acts) = {"SendTerm"} BY <2>1, KindsOfOne DEF SendTerm
  <2> HIDE DEF r
  <2>3. Preserves(m, r, k, n)
    BY <1>1, <2>1, <2>2, ShutdownPreserves DEF Shutdown
  <2> QED BY <2>3 DEF r
<1>2. CASE ~c1 /\ c2
  <2>1. r.acts = <<SendKill>> /\ r.m = [m EXCEPT !.state = "Emergency"]
    BY <1>2 DEF apply_tick, Result
  <2>2. Kinds(r.acts) = {"SendKill"} BY <2>1, KindsOfOne DEF SendKill
  <2>3. m.intervention_started BY <1>2 DEF Core, reached
  <2> HIDE DEF r
  <2>4. /\ r.m \in Machine /\ r.m.state = "Emergency" /\ r.m.mode = m.mode
        /\ r.m.intervention_started = m.intervention_started
        /\ r.m.term_deadline = m.term_deadline
        /\ r.m.checkpoint_deadline = m.checkpoint_deadline
    BY <2>1 DEF Machine, PolicyState
  <2>5. Preserves(m, r, k, n) BY <2>2, <2>3, <2>4, KillPreserves
  <2> QED BY <2>5 DEF r
<1>3. CASE ~c1 /\ ~c2 /\ c3
  <2> DEFINE g == begin_graceful(m, at, 0, "SkippedNotNegotiated")
  <2>1. r = g BY <1>3 DEF apply_tick
  <2>2. Kinds(g.acts) = {g.acts[1].kind} BY KindsOfOne, GracefulActions
  <2>3. /\ Kinds(g.acts) \subseteq
              {"RecordObservation", "RecordOvershoot", "SendTerm", "RequestCheckpoint"}
        /\ "RequestCheckpoint" \in Kinds(g.acts) =>
              m.config.checkpoint_timeout # None
    BY <2>2, GracefulActions
  <2>4. g.m = begin_graceful(m, at, 0, "SkippedNotNegotiated").m OBVIOUS
  <2> HIDE DEF r, g
  <2>5. Preserves(m, g, k, n)
    BY <1>3, <2>3, <2>4, GracefulLemma
  <2> QED BY <2>1, <2>5 DEF r
<1>4. CASE ~c1 /\ ~c2 /\ ~c3
  BY <1>4, DeclinePreserves DEF apply_tick
<1> QED BY <1>1, <1>2, <1>3, <1>4

\* The record update of a usable sample, and the fields it leaves alone.
LEMMA SeenUpdate ==
    ASSUME NEW m \in Machine, NEW p \in Count, NEW u,
           u = [m EXCEPT !.missing_streak = 0, !.post_signal_observations = p]
    PROVE  /\ u \in Machine /\ u.state = m.state /\ u.mode = m.mode
           /\ u.intervention_started = m.intervention_started
           /\ u.term_deadline = m.term_deadline
           /\ u.checkpoint_deadline = m.checkpoint_deadline
<1>1. 0 \in Count BY WidthAssumption DEF Count
<1> QED BY <1>1 DEF Machine

LEMMA FootprintLemma ==
    ASSUME NEW m \in Machine, NEW k \in BOOLEAN, NEW n, Core(m, k, n),
           m.state # "Exited", m.mode = "Enforce", ~m.intervention_started,
           NEW at \in Duration, NEW bytes \in Nat
    PROVE  Preserves(m, apply_footprint(m, at, bytes), k, n)
<1> DEFINE r == apply_footprint(m, at, bytes)
           excess == bytes - m.config.limit_bytes
           streak == saturating_inc(m.breach_streak)
           warned == [m EXCEPT !.breach_streak = streak, !.state = "Warning"]
           g == begin_graceful(warned, at, excess, "SkippedNotNegotiated")
           c1 == bytes >= m.config.emergency_bytes
           c2 == m.state = "CheckpointRequested"
           c3 == bytes >= m.config.limit_bytes
<1>0. /\ m.config.emergency_bytes \in Nat /\ m.config.limit_bytes \in Nat
      /\ m.config.warning_bytes \in Nat /\ m.config.recovery_bytes \in Nat
  BY DEF Machine, PolicyConfig
<1>a. m.state \in {"Normal", "Warning", "CheckpointRequested"}
  BY DEF Core, Machine, PolicyState
<1>b. ~c2 => m.checkpoint_deadline = None /\ n = 0
  BY <1>a DEF Core, Quiet
<1>1. CASE c1
  <2>1. /\ r.m = [m EXCEPT !.state = "Emergency", !.intervention_started = TRUE]
        /\ r.acts = <<RecordObservation, SendKill, RecordOvershoot(excess)>>
    BY <1>0, <1>1 DEF apply_footprint, Result
  <2>2. Kinds(r.acts) = {"RecordObservation", "SendKill", "RecordOvershoot"}
    BY <2>1, KindsOfThree DEF RecordObservation, SendKill, RecordOvershoot
  <2> HIDE DEF r
  <2>3. /\ r.m \in Machine /\ r.m.state = "Emergency" /\ r.m.mode = m.mode
        /\ r.m.intervention_started = TRUE
        /\ r.m.term_deadline = m.term_deadline
        /\ r.m.checkpoint_deadline = m.checkpoint_deadline
    BY <2>1 DEF Machine, PolicyState
  <2>4. Preserves(m, r, k, n) BY <2>2, <2>3, KillPreserves
  <2> QED BY <2>4 DEF r
<1>2. CASE ~c1 /\ c2
  <2>1. r.m = m /\ r.acts = <<RecordObservation>>
    BY <1>0, <1>2 DEF apply_footprint, Result
  <2>2. Kinds(r.acts) = {"RecordObservation"} BY <2>1, KindsOfOne DEF RecordObservation
  <2> HIDE DEF r
  <2>3. Preserves(m, r, k, n) BY <2>1, <2>2, BookkeepingPreserves
  <2> QED BY <2>3 DEF r
<1>w. /\ warned \in Machine /\ warned.state = "Warning" /\ warned.mode = m.mode
      /\ warned.config = m.config
      /\ warned.intervention_started = m.intervention_started
      /\ warned.term_deadline = m.term_deadline
      /\ warned.checkpoint_deadline = m.checkpoint_deadline
  <2>1. streak \in Count BY SaturatingInc DEF Machine
  <2>2. warned = [m EXCEPT !.breach_streak = streak, !.state = "Warning"] OBVIOUS
  <2>3. "Warning" \in PolicyState BY DEF PolicyState
  <2> HIDE DEF streak, warned
  <2> QED BY <2>1, <2>2, <2>3 DEF Machine
<1>c. ~c2 => Core(warned, k, n)
  <2> HIDE DEF warned
  <2> QED BY <1>w, <1>b DEF Core, Shutdown, Quiet
<1>3. CASE ~c1 /\ ~c2 /\ c3 /\ streak < m.config.required_breach_samples
  <2>1. r.m = warned /\ r.acts = <<RecordObservation>>
    BY <1>0, <1>3 DEF apply_footprint, Result
  <2>2. Kinds(r.acts) = {"RecordObservation"} BY <2>1, KindsOfOne DEF RecordObservation
  <2> HIDE DEF r, warned
  <2>3. Preserves(warned, r, k, n)
    BY <1>3, <1>c, <1>w, <2>1, <2>2, BookkeepingPreserves
  <2>4. Preserves(m, r, k, n) BY <1>w, <2>3 DEF Preserves, Lawful
  <2> QED BY <2>4 DEF r
<1>4. CASE ~c1 /\ ~c2 /\ c3 /\ ~(streak < m.config.required_breach_samples)
  <2>1. /\ r.m = g.m
        /\ r.acts = IF m.config.checkpoint_timeout = None
                    THEN <<RecordObservation, g.acts[1], RecordOvershoot(excess)>>
                    ELSE <<RecordObservation, g.acts[1]>>
    BY <1>0, <1>4 DEF apply_footprint, Result
  <2> HIDE DEF warned, excess
  <2>2. /\ warned.config.checkpoint_timeout # None => g.acts[1].kind = "RequestCheckpoint"
        /\ warned.config.checkpoint_timeout = None => g.acts[1].kind = "SendTerm"
    BY GracefulActions
  <2>3. g.m = begin_graceful(warned, at, excess, "SkippedNotNegotiated").m OBVIOUS
  <2> HIDE DEF r, g
  <2>4. Kinds(r.acts) = IF m.config.checkpoint_timeout = None
                        THEN {"RecordObservation", g.acts[1].kind, "RecordOvershoot"}
                        ELSE {"RecordObservation", g.acts[1].kind}
    <3>1. /\ Kinds(<<RecordObservation, g.acts[1]>>)
               = {"RecordObservation", g.acts[1].kind}
          /\ Kinds(<<RecordObservation, g.acts[1], RecordOvershoot(excess)>>)
               = {"RecordObservation", g.acts[1].kind, "RecordOvershoot"}
      BY KindsOfTwo, KindsOfThree DEF RecordObservation, RecordOvershoot
    <3> QED BY <2>1, <3>1
  <2>5. Preserves(warned, r, k, n)
    <3>1. /\ Kinds(r.acts) \subseteq
                {"RecordObservation", "RecordOvershoot", "SendTerm", "RequestCheckpoint"}
          /\ "RequestCheckpoint" \in Kinds(r.acts) =>
                warned.config.checkpoint_timeout # None
      BY <1>w, <2>2, <2>4
    <3>2. r.m = begin_graceful(warned, at, excess, "SkippedNotNegotiated").m
      BY <2>1, <2>3
    <3> QED BY <1>4, <1>c, <1>w, <3>1, <3>2, GracefulLemma
  <2>6. Preserves(m, r, k, n) BY <1>w, <2>5 DEF Preserves, Lawful
  <2> QED BY <2>6 DEF r
<1>5. CASE ~c1 /\ ~c2 /\ ~c3
  <2> DEFINE s == IF bytes >= m.config.warning_bytes THEN "Warning"
                  ELSE IF bytes <= m.config.recovery_bytes THEN "Normal" ELSE m.state
             below == [m EXCEPT !.breach_streak = 0, !.state = s]
  <2>1. r.m = below /\ r.acts = <<RecordObservation>>
    BY <1>0, <1>5 DEF apply_footprint, Result
  <2>2. Kinds(r.acts) = {"RecordObservation"} BY <2>1, KindsOfOne DEF RecordObservation
  <2>3. s \in {"Normal", "Warning"} BY <1>5, <1>a
  <2> HIDE DEF s
  <2>4. /\ below \in Machine /\ below.state = s /\ below.mode = m.mode
        /\ below.intervention_started = m.intervention_started
        /\ below.term_deadline = m.term_deadline
        /\ below.checkpoint_deadline = m.checkpoint_deadline
    <3>1. 0 \in Count BY WidthAssumption DEF Count
    <3>2. below = [m EXCEPT !.breach_streak = 0, !.state = s] OBVIOUS
    <3>3. s \in PolicyState BY <2>3 DEF PolicyState
    <3> HIDE DEF below
    <3> QED BY <3>1, <3>2, <3>3 DEF Machine
  <2> HIDE DEF r, below
  <2>5. Core(below, k, n) BY <1>5, <1>b, <2>3, <2>4 DEF Core, Shutdown, Quiet
  <2>6. Preserves(below, r, k, n)
    BY <2>1, <2>2, <2>4, <2>5, BookkeepingPreserves
  <2>7. Preserves(m, r, k, n) BY <2>4, <2>6 DEF Preserves, Lawful
  <2> QED BY <2>7 DEF r
<1> QED BY <1>1, <1>2, <1>3, <1>4, <1>5

LEMMA SampleLemma ==
    ASSUME NEW m \in Machine, NEW k \in BOOLEAN, NEW n, Core(m, k, n),
           m.state # "Exited", NEW s, s.processed_at \in Duration,
           s.aggregate_bytes \in Option(Nat)
    PROVE  Preserves(m, apply_sample(m, s), k, n)
<1> DEFINE r == apply_sample(m, s)
           seen == [m EXCEPT !.missing_streak = 0,
                             !.post_signal_observations =
                                 IF m.intervention_started
                                 THEN saturating_inc(@) ELSE @]
           p == IF m.intervention_started
                THEN saturating_inc(m.post_signal_observations)
                ELSE m.post_signal_observations
<1>0. /\ seen \in Machine /\ seen.state = m.state /\ seen.mode = m.mode
      /\ seen.intervention_started = m.intervention_started
      /\ seen.term_deadline = m.term_deadline
      /\ seen.checkpoint_deadline = m.checkpoint_deadline
  <2>1. seen = [m EXCEPT !.missing_streak = 0, !.post_signal_observations = p]
    BY DEF Machine
  <2>2. p \in Count BY SaturatingInc DEF Machine
  <2> HIDE DEF seen, p
  <2> QED BY ZenonT(60), <2>1, <2>2, SeenUpdate
<1>1. CASE ~usable(m, s)
  BY <1>1, MissingLemma DEF apply_sample
<1>2. CASE usable(m, s) /\ (m.mode = "Observe" \/ m.intervention_started)
  <2>1. r.m = seen /\ r.acts = <<RecordObservation>>
    BY <1>2 DEF apply_sample, Result
  <2>2. Kinds(r.acts) = {"RecordObservation"} BY <2>1, KindsOfOne DEF RecordObservation
  <2> HIDE DEF r, seen
  <2>3. Preserves(m, r, k, n) BY <1>0, <2>1, <2>2, BookkeepingPreserves
  <2> QED BY <2>3 DEF r
<1>3. CASE usable(m, s) /\ ~(m.mode = "Observe" \/ m.intervention_started)
  <2>1. r = apply_footprint(seen, s.processed_at, s.aggregate_bytes)
    BY <1>3 DEF apply_sample
  <2>2. s.aggregate_bytes \in Nat BY <1>3 DEF usable, Option
  <2>3. Core(seen, k, n) /\ m.mode = "Enforce" BY <1>0, <1>3 DEF Core, Machine
  <2> HIDE DEF r, seen
  <2>4. Preserves(seen, r, k, n)
    BY <1>0, <1>3, <2>1, <2>2, <2>3, FootprintLemma
  <2>5. Preserves(m, r, k, n) BY <1>0, <2>4 DEF Preserves, Lawful
  <2> QED BY <2>5 DEF r
<1> QED BY <1>1, <1>2, <1>3

-----------------------------------------------------------------------------
(* From the handlers to apply.                                             *)

\* Recording the time of an event disturbs nothing else.
LEMMA StampPreserves ==
    ASSUME NEW m \in Machine, NEW k \in BOOLEAN, NEW n, Core(m, k, n),
           NEW at \in Duration, NEW u, u = [m EXCEPT !.last_event_at = at]
    PROVE  /\ u \in Machine /\ Core(u, k, n) /\ u.state = m.state
           /\ \A r : Preserves(u, r, k, n) => Preserves(m, r, k, n)
<1>1. /\ u \in Machine /\ u.state = m.state /\ u.mode = m.mode
      /\ u.intervention_started = m.intervention_started
      /\ u.term_deadline = m.term_deadline
      /\ u.checkpoint_deadline = m.checkpoint_deadline
  BY DEF Machine, Option
<1>2. Core(u, k, n) BY <1>1 DEF Core
<1>3. \A r : Preserves(u, r, k, n) => Preserves(m, r, k, n)
  BY <1>1 DEF Preserves, Lawful
<1> QED BY <1>1, <1>2, <1>3

LEMMA ProcessExitedLemma ==
    ASSUME NEW m \in Machine, NEW k \in BOOLEAN, NEW n, Core(m, k, n),
           NEW e, e.type = "ProcessExited"
    PROVE  Preserves(m, apply(m, e), k, n)
<1> DEFINE r == apply(m, e)
<1>1. CASE m.state = "Exited"
  BY <1>1, DeclinePreserves DEF apply
<1>2. CASE m.state # "Exited"
  <2>1. /\ r.m = [m EXCEPT !.state = "Exited"]
        /\ r.acts = <<ReportExit(e.final_footprint_bytes, m.post_signal_observations)>>
    BY <1>2 DEF apply, Result
  <2>2. Kinds(r.acts) = {"ReportExit"} BY <2>1, KindsOfOne DEF ReportExit
  <2> HIDE DEF r
  <2>3. /\ r.m \in Machine /\ r.m.state = "Exited" /\ r.m.mode = m.mode
        /\ r.m.intervention_started = m.intervention_started
        /\ r.m.term_deadline = m.term_deadline
        /\ r.m.checkpoint_deadline = m.checkpoint_deadline
    BY <2>1 DEF Machine, PolicyState
  <2>4. AskedKill(k, r) = k /\ AskedCheckpoints(n, r) = n
    BY <2>2 DEF AskedKill, AskedCheckpoints, Core
  <2>5. Core(r.m, k, n) BY <2>3 DEF Core, Shutdown, Quiet
  <2>6. Lawful(m, r) BY <2>2, <2>3 DEF Lawful, Shutdown
  <2>7. Preserves(m, r, k, n) BY <2>3, <2>4, <2>5, <2>6 DEF Preserves
  <2> QED BY <2>7 DEF r
<1> QED BY <1>1, <1>2

\* apply is lawful on an event whose handler is.
LEMMA ApplyLemma ==
    ASSUME NEW m \in Machine, NEW k \in BOOLEAN, NEW n, Core(m, k, n),
           NEW e, e.type # "ProcessExited", event_at(e) \in Duration,
           \A u \in Machine :
               (Core(u, k, n) /\ u.state = m.state /\ u.state # "Exited")
                   => Preserves(u, dispatch(u, e), k, n)
    PROVE  Preserves(m, apply(m, e), k, n)
<1> DEFINE u == [m EXCEPT !.last_event_at = event_at(e)]
<1>1. CASE m.state = "Exited"
  BY <1>1, DeclinePreserves DEF apply
<1>2. CASE m.state # "Exited" /\ m.last_event_at # None /\ event_at(e) < m.last_event_at
  BY <1>2, FailClockLemma DEF apply
<1>3. CASE m.state # "Exited" /\ ~(m.last_event_at # None /\ event_at(e) < m.last_event_at)
  <2>1. apply(m, e) = dispatch(u, e) BY <1>3 DEF apply
  <2>2. /\ u \in Machine /\ Core(u, k, n) /\ u.state = m.state
        /\ \A r : Preserves(u, r, k, n) => Preserves(m, r, k, n)
    BY StampPreserves
  <2> HIDE DEF u
  <2> QED BY <1>3, <2>1, <2>2
<1> QED BY <1>1, <1>2, <1>3

-----------------------------------------------------------------------------
(* From apply to the specification.                                        *)

\* The inductive invariant: types, Core, and that a KILL among the last
\* actions is on record (a failed KILL can only follow one asked for).
IInv ==
    /\ TypeOK
    /\ Core(policy, killAsked, requests)
    /\ "SendKill" \in Kinds(acts) => killAsked

\* What every step establishes besides the invariant.
StepOK ==
    /\ policy' \in Machine
    /\ Core(policy', killAsked', requests')
    /\ killAsked' \in BOOLEAN
    /\ requests' \in Nat
    /\ "SendKill" \in Kinds(acts') => killAsked'
    /\ Lawful(policy, [m |-> policy', acts |-> acts'])

LEMMA StepLemma ==
    ASSUME IInv, NEW e, Step(e), Preserves(policy, apply(policy, e), killAsked, requests)
    PROVE  StepOK
<1> DEFINE r == apply(policy, e)
<1>1. /\ policy' = r.m /\ acts' = r.acts
      /\ killAsked' = AskedKill(killAsked, r)
      /\ requests' = AskedCheckpoints(requests, r)
  BY DEF Step, AskedKill, AskedCheckpoints
<1>2. /\ r.m \in Machine /\ Lawful(policy, r)
      /\ Core(r.m, AskedKill(killAsked, r), AskedCheckpoints(requests, r))
  BY DEF Preserves
<1>3. AskedKill(killAsked, r) \in BOOLEAN
      /\ ("SendKill" \in Kinds(r.acts) => AskedKill(killAsked, r))
  BY DEF AskedKill
<1> HIDE DEF r
<1>4. Lawful(policy, [m |-> policy', acts |-> acts'])
  BY <1>1, <1>2 DEF Lawful
<1>5. requests' \in Nat BY <1>1, <1>2 DEF Core
<1> QED BY <1>1, <1>2, <1>3, <1>4, <1>5 DEF StepOK

LEMMA NextStep == ASSUME IInv, Next PROVE StepOK /\ TypeOK'
<1> DEFINE Good(e) == Preserves(policy, apply(policy, e), killAsked, requests)
<1>0. /\ policy \in Machine /\ killAsked \in BOOLEAN
      /\ Core(policy, killAsked, requests)
  BY DEF IInv, TypeOK
<1>t. \A at \in Times : at \in Duration BY EnvironmentAssumption
<1>1. ASSUME NEW captured \in Times, NEW processed \in Times, NEW w \in Windows,
             NEW b \in Option(Bytes), Sample(captured, processed, w, b)
      PROVE  StepOK /\ TypeOK'
  <2> DEFINE e == [type |-> "Sample", captured_at |-> captured,
                   processed_at |-> processed, window |-> w, aggregate_bytes |-> b]
  <2>1. Step(e) BY <1>1 DEF Sample
  <2>2. /\ e.type = "Sample" /\ e.processed_at \in Duration /\ event_at(e) \in Duration
        /\ e.aggregate_bytes \in Option(Nat)
    BY <1>t, EnvironmentAssumption DEF event_at, Option
  <2>3. over' \in Nat /\ lost' \in Nat /\ provoked' \in BOOLEAN /\ external' \in BOOLEAN
    BY <1>1 DEF Tally, Sample, IInv, TypeOK
  <2> HIDE DEF e
  <2>4. ASSUME NEW u \in Machine, Core(u, killAsked, requests), u.state # "Exited"
        PROVE  Preserves(u, dispatch(u, e), killAsked, requests)
    <3>1. dispatch(u, e) = apply_sample(u, e) BY <2>2 DEF dispatch
    <3> QED BY <1>0, <2>2, <2>4, <3>1, SampleLemma
  <2>5. Good(e) BY <1>0, <2>2, <2>4, ApplyLemma
  <2>6. StepOK BY <2>1, <2>5, StepLemma
  <2> QED BY <2>3, <2>6 DEF StepOK, TypeOK
<1>2. ASSUME NEW at \in Times, Tick(at) PROVE StepOK /\ TypeOK'
  <2> DEFINE e == [type |-> "Tick", at |-> at]
  <2>1. Step(e) BY <1>2 DEF Tick
  <2>2. e.type = "Tick" /\ e.at \in Duration /\ event_at(e) \in Duration
    BY <1>t DEF event_at
  <2>3. over' \in Nat /\ lost' \in Nat /\ provoked' \in BOOLEAN /\ external' \in BOOLEAN
    BY <1>2 DEF Tally, Tick, IInv, TypeOK
  <2> HIDE DEF e
  <2>4. ASSUME NEW u \in Machine, Core(u, killAsked, requests), u.state # "Exited"
        PROVE  Preserves(u, dispatch(u, e), killAsked, requests)
    <3>1. dispatch(u, e) = apply_tick(u, e.at) BY <2>2 DEF dispatch
    <3> QED BY <1>0, <2>2, <2>4, <3>1, TickLemma
  <2>5. Good(e) BY <1>0, <2>2, <2>4, ApplyLemma
  <2>6. StepOK BY <2>1, <2>5, StepLemma
  <2> QED BY <2>3, <2>6 DEF StepOK, TypeOK
<1>3. ASSUME NEW at \in Times, NEW id \in RequestId, NEW ok \in BOOLEAN,
             CheckpointAck(at, id, ok)
      PROVE  StepOK /\ TypeOK'
  <2> DEFINE e == [type |-> "CheckpointAck", at |-> at, request_id |-> id,
                   authenticated |-> ok]
  <2>1. Step(e) BY <1>3 DEF CheckpointAck
  <2>2. e.type = "CheckpointAck" /\ e.at \in Duration /\ event_at(e) \in Duration
    BY <1>t DEF event_at
  <2>3. over' \in Nat /\ lost' \in Nat /\ provoked' \in BOOLEAN /\ external' \in BOOLEAN
    BY <1>3 DEF Tally, CheckpointAck, IInv, TypeOK
  <2> HIDE DEF e
  <2>4. ASSUME NEW u \in Machine, Core(u, killAsked, requests), u.state # "Exited"
        PROVE  Preserves(u, dispatch(u, e), killAsked, requests)
    <3>1. dispatch(u, e) = apply_checkpoint_ack(u, e.at, e.request_id, e.authenticated)
      BY <2>2 DEF dispatch
    <3> QED BY <1>0, <2>2, <2>4, <3>1, CheckpointAckLemma
  <2>5. Good(e) BY <1>0, <2>2, <2>4, ApplyLemma
  <2>6. StepOK BY <2>1, <2>5, StepLemma
  <2> QED BY <2>3, <2>6 DEF StepOK, TypeOK
<1>4. ASSUME NEW at \in Times, NEW s \in Signals, ExternalSignal(at, s)
      PROVE  StepOK /\ TypeOK'
  <2> DEFINE e == [type |-> "ExternalSignal", at |-> at, signal |-> s]
  <2>1. Step(e) BY <1>4 DEF ExternalSignal, Provoking
  <2>2. e.type = "ExternalSignal" /\ e.at \in Duration /\ event_at(e) \in Duration
    BY <1>t DEF event_at
  <2>3. over' \in Nat /\ lost' \in Nat /\ provoked' \in BOOLEAN /\ external' \in BOOLEAN
    BY <1>4 DEF Tally, ExternalSignal, Provoking, IInv, TypeOK
  <2> HIDE DEF e
  <2>4. ASSUME NEW u \in Machine, Core(u, killAsked, requests), u.state # "Exited"
        PROVE  Preserves(u, dispatch(u, e), killAsked, requests)
    <3>1. dispatch(u, e) = apply_external_signal(u, e.at, e.signal)
      BY <2>2 DEF dispatch
    <3> QED BY <1>0, <2>2, <2>4, <3>1, ExternalSignalLemma
  <2>5. Good(e) BY <1>0, <2>2, <2>4, ApplyLemma
  <2>6. StepOK BY <2>1, <2>5, StepLemma
  <2> QED BY <2>3, <2>6 DEF StepOK, TypeOK
<1>5. ASSUME NEW at \in Times, NEW action \in ActuationKind, ActuationFailed(at, action)
      PROVE  StepOK /\ TypeOK'
  <2> DEFINE e == [type |-> "ActuationFailed", at |-> at, action |-> action]
  <2>1. Step(e) BY <1>5 DEF ActuationFailed
  <2>2. /\ e.type = "ActuationFailed" /\ e.at \in Duration /\ event_at(e) \in Duration
        /\ e.action = action
    BY <1>t DEF event_at
  <2>3. over' \in Nat /\ lost' \in Nat /\ provoked' \in BOOLEAN /\ external' \in BOOLEAN
    BY <1>5 DEF Tally, ActuationFailed, IInv, TypeOK
  <2>a. /\ action = "Checkpoint" => policy.state = "CheckpointRequested"
        /\ action = "Kill" => killAsked
    BY <1>5 DEF ActuationFailed, IInv
  <2> HIDE DEF e
  <2>4. ASSUME NEW u \in Machine, Core(u, killAsked, requests), u.state # "Exited",
               u.state = policy.state
        PROVE  Preserves(u, dispatch(u, e), killAsked, requests)
    <3>1. dispatch(u, e) = apply_actuation_failed(u, e.at, action)
      BY <2>2 DEF dispatch
    <3> QED BY <1>0, <2>2, <2>a, <2>4, <3>1, ActuationFailedLemma
  <2>5. Good(e) BY <1>0, <2>2, <2>4, ApplyLemma
  <2>6. StepOK BY <2>1, <2>5, StepLemma
  <2> QED BY <2>3, <2>6 DEF StepOK, TypeOK
<1>6. ASSUME NEW at \in Times, SupervisorFault(at) PROVE StepOK /\ TypeOK'
  <2> DEFINE e == [type |-> "SupervisorFault", at |-> at]
  <2>1. Step(e) BY <1>6 DEF SupervisorFault, Provoking
  <2>2. e.type = "SupervisorFault" /\ e.at \in Duration /\ event_at(e) \in Duration
    BY <1>t DEF event_at
  <2>3. over' \in Nat /\ lost' \in Nat /\ provoked' \in BOOLEAN /\ external' \in BOOLEAN
    BY <1>6 DEF Tally, SupervisorFault, Provoking, IInv, TypeOK
  <2> HIDE DEF e
  <2>4. ASSUME NEW u \in Machine, Core(u, killAsked, requests), u.state # "Exited"
        PROVE  Preserves(u, dispatch(u, e), killAsked, requests)
    <3>1. dispatch(u, e) = apply_supervisor_fault(u, e.at) BY <2>2 DEF dispatch
    <3> QED BY <1>0, <2>2, <2>4, <3>1, SupervisorFaultLemma
  <2>5. Good(e) BY <1>0, <2>2, <2>4, ApplyLemma
  <2>6. StepOK BY <2>1, <2>5, StepLemma
  <2> QED BY <2>3, <2>6 DEF StepOK, TypeOK
<1>7. ASSUME NEW at \in Times, RootExited(at) PROVE StepOK /\ TypeOK'
  <2> DEFINE e == [type |-> "RootExited", at |-> at]
  <2>1. Step(e) BY <1>7 DEF RootExited, Provoking
  <2>2. e.type = "RootExited" /\ e.at \in Duration /\ event_at(e) \in Duration
    BY <1>t DEF event_at
  <2>3. over' \in Nat /\ lost' \in Nat /\ provoked' \in BOOLEAN /\ external' \in BOOLEAN
    BY <1>7 DEF Tally, RootExited, Provoking, IInv, TypeOK
  <2> HIDE DEF e
  <2>4. ASSUME NEW u \in Machine, Core(u, killAsked, requests), u.state # "Exited"
        PROVE  Preserves(u, dispatch(u, e), killAsked, requests)
    <3>1. dispatch(u, e) = apply_root_exited(u, e.at) BY <2>2 DEF dispatch
    <3> QED BY <1>0, <2>2, <2>4, <3>1, RootExitedLemma
  <2>5. Good(e) BY <1>0, <2>2, <2>4, ApplyLemma
  <2>6. StepOK BY <2>1, <2>5, StepLemma
  <2> QED BY <2>3, <2>6 DEF StepOK, TypeOK
<1>8. ASSUME NEW at \in Times, ParentExited(at) PROVE StepOK /\ TypeOK'
  <2> DEFINE e == [type |-> "ParentExited", at |-> at]
  <2>1. Step(e) BY <1>8 DEF ParentExited, Provoking
  <2>2. e.type = "ParentExited" /\ e.at \in Duration /\ event_at(e) \in Duration
    BY <1>t DEF event_at
  <2>3. over' \in Nat /\ lost' \in Nat /\ provoked' \in BOOLEAN /\ external' \in BOOLEAN
    BY <1>8 DEF Tally, ParentExited, Provoking, IInv, TypeOK
  <2> HIDE DEF e
  <2>4. ASSUME NEW u \in Machine, Core(u, killAsked, requests), u.state # "Exited"
        PROVE  Preserves(u, dispatch(u, e), killAsked, requests)
    <3>1. dispatch(u, e) = apply_parent_exited(u, e.at) BY <2>2 DEF dispatch
    <3> QED BY <1>0, <2>2, <2>4, <3>1, ParentExitedLemma
  <2>5. Good(e) BY <1>0, <2>2, <2>4, ApplyLemma
  <2>6. StepOK BY <2>1, <2>5, StepLemma
  <2> QED BY <2>3, <2>6 DEF StepOK, TypeOK
<1>9. ASSUME NEW b \in Option(Bytes), ProcessExited(b) PROVE StepOK /\ TypeOK'
  <2> DEFINE e == [type |-> "ProcessExited", final_footprint_bytes |-> b]
  <2>1. Step(e) BY <1>9 DEF ProcessExited
  <2>2. e.type = "ProcessExited" OBVIOUS
  <2>3. over' \in Nat /\ lost' \in Nat /\ provoked' \in BOOLEAN /\ external' \in BOOLEAN
    BY <1>9 DEF Tally, ProcessExited, IInv, TypeOK
  <2> HIDE DEF e
  <2>5. Good(e) BY <1>0, <2>2, ProcessExitedLemma
  <2>6. StepOK BY <2>1, <2>5, StepLemma
  <2> QED BY <2>3, <2>6 DEF StepOK, TypeOK
<1> QED BY <1>1, <1>2, <1>3, <1>4, <1>5, <1>6, <1>7, <1>8, <1>9 DEF Next

\* The initial states of both constructors satisfy the invariant.
LEMMA InitIInv == Init => IInv
<1> SUFFICES ASSUME Init PROVE IInv OBVIOUS
<1>1. PICK c \in Configs : policy = observe(c)
                          \/ policy = enforce_with_initial_request_id(c, 1)
  BY DEF Init
<1>2. c \in PolicyConfig BY EnvironmentAssumption
<1>3. /\ 0 \in Count /\ MaxCount \in Count /\ 1 \in RequestId
      /\ MaxDuration \in Duration
  BY WidthAssumption DEF Count, RequestId, Duration
<1>4. /\ policy \in Machine /\ policy.state \in {"Observe", "Normal"}
      /\ policy.intervention_started = FALSE
      /\ policy.term_deadline = None /\ policy.checkpoint_deadline = None
      /\ policy.mode = (IF policy.state = "Observe" THEN "Observe" ELSE "Enforce")
  <2>1. CASE policy = enforce_with_initial_request_id(c, 1)
    BY <1>2, <1>3, <2>1
    DEF enforce_with_initial_request_id, fresh, Machine, PolicyState, Option
  <2>2. CASE policy = observe(c)
    <3> DEFINE o == [c EXCEPT !.required_breach_samples = MaxCount,
                              !.checkpoint_timeout = None,
                              !.term_grace = MaxDuration, !.wall_time = None]
    <3>1. o \in PolicyConfig BY <1>2, <1>3 DEF PolicyConfig, Option
    <3>2. policy = fresh("Observe", "Observe", o, 1) BY <2>2 DEF observe
    <3> HIDE DEF o
    <3> QED BY <1>3, <3>1, <3>2 DEF fresh, Machine, PolicyState, Option
  <2> QED BY <1>1, <2>1, <2>2
<1>5. /\ acts = <<>> /\ killAsked = FALSE /\ requests = 0 /\ external = FALSE
      /\ over = 0 /\ lost = 0 /\ provoked = FALSE
  BY DEF Init
<1>6. TypeOK BY <1>4, <1>5 DEF TypeOK
<1>7. Core(policy, killAsked, requests) BY <1>4, <1>5 DEF Core, Quiet
<1>8. Kinds(acts) = {} BY <1>5, KindsOfNone
<1> QED BY <1>6, <1>7, <1>8 DEF IInv

LEMMA NextIInv == IInv /\ [Next]_vars => IInv'
<1> SUFFICES ASSUME IInv, [Next]_vars PROVE IInv' OBVIOUS
<1>1. CASE Next BY <1>1, NextStep DEF StepOK, IInv
<1>2. CASE UNCHANGED vars
  BY <1>2 DEF vars, IInv, TypeOK, Core, Kinds
<1> QED BY <1>1, <1>2

\* IInv holds throughout, whatever the environment does.
THEOREM Invariance == Spec => []IInv
BY InitIInv, NextIInv, PTL DEF Spec

\* The machine's fields, its saturating counters and its deadlines keep their
\* types under every sequence of events (PolicyMachine::apply).
THEOREM TypeCorrect == Spec => []TypeOK
<1>1. IInv => TypeOK BY DEF IInv
<1> QED BY <1>1, Invariance, PTL

\* A started shutdown always has KILL behind it or a deadline that leads to it
\* (policy.rs: every handler that sets intervention_started).
THEOREM Escalation == Spec => []EscalationArmed
<1>1. IInv => EscalationArmed
  BY DEF IInv, Core, EscalationArmed, next_deadline, Shutdown
<1> QED BY <1>1, Invariance, PTL

\* begin_graceful asks for a checkpoint at most once per run.
THEOREM OneRequest == Spec => []AtMostOneCheckpointRequest
<1>1. IInv => AtMostOneCheckpointRequest
  BY DEF IInv, Core, AtMostOneCheckpointRequest
<1> QED BY <1>1, Invariance, PTL

\* No event moves an armed deadline.
THEOREM FixedDeadlines == Spec => DeadlinesNeverMove
<1> DEFINE A == /\ policy.term_deadline # None =>
                      policy'.term_deadline \in {policy.term_deadline, None}
                /\ policy.checkpoint_deadline # None =>
                      policy'.checkpoint_deadline \in {policy.checkpoint_deadline, None}
<1>1. IInv /\ [Next]_vars => [A]_vars
  BY NextStep DEF StepOK, Lawful
<1>2. [][A]_vars => DeadlinesNeverMove BY DEF DeadlinesNeverMove
<1> HIDE DEF A
<1> QED BY <1>1, <1>2, Invariance, PTL DEF Spec

\* After the first signal nothing is undone and nothing is sent again but KILL.
THEOREM FinalIntervention == Spec => InterventionIsFinal
<1> DEFINE A == policy.intervention_started =>
                  /\ policy'.intervention_started
                  /\ policy'.state \in Shutdown
                  /\ Kinds(acts') \cap {"SendTerm", "RequestCheckpoint", "ForwardSignal"} = {}
<1>1. IInv /\ [Next]_vars => [A]_vars
  BY NextStep DEF StepOK, Lawful
<1>2. [][A]_vars => InterventionIsFinal BY DEF InterventionIsFinal
<1> HIDE DEF A
<1> QED BY <1>1, <1>2, Invariance, PTL DEF Spec

-----------------------------------------------------------------------------
(* What a request rests on.  Every handler is shown Fair: it asks for a     *)
(* signal only with the intervention latched, an observing machine asks for *)
(* no TERM and no checkpoint, and while the inputs give no reason (calm) it *)
(* starts nothing and its streaks stay below the runs o and l counted from  *)
(* the inputs.  loud says that a terminal signal has been seen.             *)

SignalKinds == {"SendTerm", "SendKill", "ForwardSignal"}

Grounded(m, r) ==
    /\ r.m.mode = m.mode
    /\ r.m.config = m.config
    /\ Kinds(r.acts) \cap SignalKinds # {} => r.m.intervention_started
    /\ m.mode = "Observe" => Kinds(r.acts) \cap {"SendTerm", "RequestCheckpoint"} = {}

Restrained(m, r) ==
    /\ r.m.intervention_started => m.intervention_started
    /\ r.m.state = "CheckpointRequested" => m.state = "CheckpointRequested"
    /\ "RequestCheckpoint" \notin Kinds(r.acts)

Counted(m, o, l) ==
    (m.mode = "Enforce" /\ m.state # "Exited") =>
        m.breach_streak <= o /\ m.missing_streak <= l

Fair(m, r, calm, loud, o, l) ==
    /\ Grounded(m, r)
    /\ calm => Restrained(m, r) /\ Counted(r.m, o, l)
    /\ (m.mode = "Observe" /\ ~loud) =>
          (r.m.intervention_started => m.intervention_started)

\* The kinds in every list of actions a handler returns.
LEMMA KindsOfActions ==
    /\ Kinds(<<>>) = {}
    /\ Kinds(<<SendKill>>) = {"SendKill"}
    /\ Kinds(<<StopObserving>>) = {"StopObserving"}
    /\ Kinds(<<RecordMissing>>) = {"RecordMissing"}
    /\ Kinds(<<RecordObservation>>) = {"RecordObservation"}
    /\ Kinds(<<RecordMissing, StopObserving>>) = {"RecordMissing", "StopObserving"}
    /\ \A d : Kinds(<<SendTerm(d)>>) = {"SendTerm"}
    /\ \A d : Kinds(<<RecordMissing, SendTerm(d)>>) = {"RecordMissing", "SendTerm"}
    /\ \A s : Kinds(<<ForwardSignal(s)>>) = {"ForwardSignal"}
    /\ \A a : Kinds(<<ReportSupervisorError(a)>>) = {"ReportSupervisorError"}
    /\ \A b, n : Kinds(<<ReportExit(b, n)>>) = {"ReportExit"}
    /\ \A b : Kinds(<<RecordObservation, SendKill, RecordOvershoot(b)>>)
                 = {"RecordObservation", "SendKill", "RecordOvershoot"}
BY KindsOfNone, KindsOfOne, KindsOfTwo, KindsOfThree
DEF SendKill, StopObserving, RecordMissing, RecordObservation, SendTerm,
    ForwardSignal, ReportSupervisorError, ReportExit, RecordOvershoot

\* A handler that declines the event starts nothing.
LEMMA DeclineFair ==
    ASSUME NEW m \in Machine, NEW calm, NEW loud, NEW o, NEW l,
           calm => Counted(m, o, l)
    PROVE  Fair(m, Result(m, <<>>), calm, loud, o, l)
BY KindsOfActions DEF Fair, Grounded, Restrained, Result

\* A handler that starts a shutdown of an enforcing machine, for a reason.
LEMMA StartFair ==
    ASSUME NEW m \in Machine, m.mode # "Observe", NEW s, NEW at, NEW r,
           r.m = begin_shutdown(clear_request(m), s, at),
           NEW calm, ~calm, NEW loud, NEW o, NEW l
    PROVE  Fair(m, r, calm, loud, o, l)
<1>1. /\ r.m.mode = m.mode /\ r.m.config = m.config
      /\ r.m.intervention_started = TRUE
  BY DEF begin_shutdown, clear_request, Machine
<1> QED BY <1>1 DEF Fair, Grounded

LEMMA MissingFair ==
    ASSUME NEW m \in Machine, NEW at, NEW calm, NEW loud, NEW o \in Nat, NEW l \in Nat,
           m.state # "Exited",
           (calm /\ m.mode = "Enforce") =>
               /\ m.breach_streak <= o
               /\ m.missing_streak + 1 <= l
               /\ l < m.config.max_missing_samples
    PROVE  Fair(m, apply_missing(m, at), calm, loud, o, l)
<1> DEFINE r == apply_missing(m, at)
           c == [m EXCEPT !.missing_streak = saturating_inc(@)]
           kept == \/ c.missing_streak < m.config.max_missing_samples
                   \/ m.state = "SupervisorError"
                   \/ m.intervention_started
<1>0. /\ c \in Machine /\ c.state = m.state /\ c.mode = m.mode /\ c.config = m.config
      /\ c.intervention_started = m.intervention_started
      /\ c.breach_streak = m.breach_streak
      /\ c.missing_streak <= m.missing_streak + 1
      /\ m.missing_streak \in Nat /\ c.missing_streak \in Nat
      /\ m.config.max_missing_samples \in Nat
  BY SaturatingInc, WidthAssumption DEF Machine, PolicyConfig, Count, saturating_inc
<1>1. CASE kept
  <2>1. r.m = c /\ Kinds(r.acts) = {"RecordMissing"}
    BY <1>1, KindsOfActions DEF apply_missing, Result
  <2> HIDE DEF r, c
  <2>2. calm => Counted(r.m, o, l) BY <1>0, <2>1 DEF Counted
  <2>3. Fair(m, r, calm, loud, o, l)
    BY <1>0, <2>1, <2>2 DEF Fair, Grounded, Restrained, SignalKinds
  <2> QED BY <2>3 DEF r
<1>2. CASE ~kept /\ m.mode = "Observe"
  <2>1. /\ r.m = [c EXCEPT !.state = "SupervisorError"]
        /\ Kinds(r.acts) = {"RecordMissing", "StopObserving"}
    BY <1>2, KindsOfActions DEF apply_missing, Result
  <2> HIDE DEF r, c
  <2>2. /\ r.m.mode = m.mode /\ r.m.config = m.config /\ r.m.state = "SupervisorError"
        /\ r.m.intervention_started = m.intervention_started
    BY <1>0, <2>1 DEF Machine
  <2>3. Fair(m, r, calm, loud, o, l)
    BY <1>2, <2>1, <2>2 DEF Fair, Grounded, Restrained, Counted, SignalKinds
  <2> QED BY <2>3 DEF r
<1>3. CASE ~kept /\ m.mode # "Observe"
  <2>1. /\ r.m = begin_shutdown(c, "SupervisorError", at)
        /\ Kinds(r.acts) = {"RecordMissing", "SendTerm"}
    BY <1>3, KindsOfActions DEF apply_missing, Result
  <2>2. ~calm
    <3>1. m.mode = "Enforce" BY <1>3 DEF Machine
    <3>2. ~(c.missing_streak < m.config.max_missing_samples) BY <1>3
    <3> HIDE DEF c
    <3> QED BY <1>0, <3>1, <3>2
  <2> HIDE DEF r, c
  <2>3. /\ r.m.mode = m.mode /\ r.m.config = m.config
        /\ r.m.intervention_started = TRUE
    BY <1>0, <2>1 DEF begin_shutdown, Machine
  <2>4. Fair(m, r, calm, loud, o, l)
    BY <1>3, <2>1, <2>2, <2>3 DEF Fair, Grounded, SignalKinds
  <2> QED BY <2>4 DEF r
<1> QED BY <1>1, <1>2, <1>3

\* Without a negotiated checkpoint the graceful path starts the shutdown.
LEMMA GracefulLatches ==
    ASSUME NEW m \in Machine, NEW at, NEW excess, NEW d
    PROVE  m.config.checkpoint_timeout = None =>
               begin_graceful(m, at, excess, d).m.intervention_started
BY DEF begin_graceful, Result, begin_shutdown, Machine

LEMMA GracefulGrounded ==
    ASSUME NEW m \in Machine, m.mode # "Observe", NEW at, NEW excess, NEW d
    PROVE  Grounded(m, begin_graceful(m, at, excess, d))
<1> DEFINE g == begin_graceful(m, at, excess, d)
<1>1. /\ g.acts = <<g.acts[1]>>
      /\ m.config.checkpoint_timeout # None => g.acts[1].kind = "RequestCheckpoint"
      /\ m.config.checkpoint_timeout = None => g.acts[1].kind = "SendTerm"
  BY GracefulActions
<1>2. Kinds(g.acts) = {g.acts[1].kind}
  <2> HIDE DEF g
  <2> QED BY <1>1, KindsOfOne
<1>3. g.m.mode = m.mode /\ g.m.config = m.config
  <2>1. CASE m.config.checkpoint_timeout # None
    BY <2>1 DEF begin_graceful, Result, Machine
  <2>2. CASE m.config.checkpoint_timeout = None
    <3>1. g.m = begin_shutdown(m, "Terminating", at)
      BY <2>2 DEF begin_graceful, Result
    <3> HIDE DEF g
    <3> QED BY <3>1 DEF begin_shutdown, Machine
  <2> QED BY <2>1, <2>2
<1>4. m.config.checkpoint_timeout = None => g.m.intervention_started
  BY GracefulLatches
<1> HIDE DEF g
<1>5. Grounded(m, g) BY <1>1, <1>2, <1>3, <1>4 DEF Grounded, SignalKinds
<1> QED BY <1>5 DEF g

LEMMA TickFair ==
    ASSUME NEW m \in Machine, NEW k, NEW n, Core(m, k, n), NEW at,
           NEW calm, NEW loud, NEW o, NEW l, m.state # "Exited",
           calm => /\ Counted(m, o, l)
                   /\ ~m.intervention_started
                   /\ m.state # "CheckpointRequested"
                   /\ ~reached(m.config.wall_time, at)
    PROVE  Fair(m, apply_tick(m, at), calm, loud, o, l)
<1> DEFINE r == apply_tick(m, at)
           expired == m.state = "CheckpointRequested" /\ reached(m.checkpoint_deadline, at)
           overdue == /\ m.state \in {"Terminating", "SupervisorError"}
                      /\ reached(m.term_deadline, at)
           late == /\ ~m.intervention_started
                   /\ m.state \in {"Normal", "Warning"}
                   /\ reached(m.config.wall_time, at)
<1>1. CASE expired
  <2>1. /\ r.m = begin_shutdown(clear_request(m), "Terminating", at)
        /\ Kinds(r.acts) = {"SendTerm"}
    BY <1>1, KindsOfActions DEF apply_tick, Result
  <2>2. m.mode # "Observe" /\ ~calm BY <1>1 DEF Core
  <2> HIDE DEF r
  <2>3. Fair(m, r, calm, loud, o, l) BY <2>1, <2>2, StartFair
  <2> QED BY <2>3 DEF r
<1>2. CASE ~expired /\ overdue
  <2>1. r.m = [m EXCEPT !.state = "Emergency"] /\ Kinds(r.acts) = {"SendKill"}
    BY <1>2, KindsOfActions DEF apply_tick, Result
  <2>2. m.intervention_started = TRUE /\ ~calm
    BY <1>2 DEF Core, reached, Machine
  <2>3. r.m.mode = m.mode /\ r.m.config = m.config /\ r.m.intervention_started = TRUE
    BY <2>1, <2>2 DEF Machine
  <2> HIDE DEF r
  <2>4. Fair(m, r, calm, loud, o, l)
    BY <2>1, <2>2, <2>3 DEF Fair, Grounded, SignalKinds
  <2> QED BY <2>4 DEF r
<1>3. CASE ~expired /\ ~overdue /\ late
  <2>1. r = begin_graceful(m, at, 0, "SkippedNotNegotiated")
    BY <1>3 DEF apply_tick
  <2>2. m.mode # "Observe" /\ ~calm BY <1>3 DEF Core
  <2> HIDE DEF r
  <2>3. Grounded(m, r) BY <2>1, <2>2, GracefulGrounded
  <2>4. Fair(m, r, calm, loud, o, l) BY <2>2, <2>3 DEF Fair
  <2> QED BY <2>4 DEF r
<1>4. CASE ~expired /\ ~overdue /\ ~late
  <2>1. r = Result(m, <<>>) BY <1>4 DEF apply_tick
  <2> QED BY <2>1, DeclineFair
<1> QED BY <1>1, <1>2, <1>3, <1>4

LEMMA FootprintFair ==
    ASSUME NEW m \in Machine, NEW k, NEW n, Core(m, k, n), NEW at, NEW bytes \in Nat,
           NEW calm, NEW loud, NEW o \in Nat, NEW l \in Nat,
           m.state # "Exited", m.mode = "Enforce",
           calm => /\ m.state # "CheckpointRequested"
                   /\ m.missing_streak <= l
                   /\ bytes < m.config.emergency_bytes
                   /\ bytes >= m.config.limit_bytes =>
                         /\ m.breach_streak + 1 <= o
                         /\ o < m.config.required_breach_samples
    PROVE  Fair(m, apply_footprint(m, at, bytes), calm, loud, o, l)
<1> DEFINE r == apply_footprint(m, at, bytes)
           streak == saturating_inc(m.breach_streak)
           warned == [m EXCEPT !.breach_streak = streak, !.state = "Warning"]
           excess == bytes - m.config.limit_bytes
           graceful == begin_graceful(warned, at, excess, "SkippedNotNegotiated")
           band == IF bytes >= m.config.warning_bytes THEN "Warning"
                   ELSE IF bytes <= m.config.recovery_bytes THEN "Normal" ELSE m.state
<1>0. /\ streak \in Count /\ streak \in Nat /\ streak <= m.breach_streak + 1
      /\ m.breach_streak \in Nat
      /\ m.config.required_breach_samples \in Nat
      /\ m.config.limit_bytes \in Nat /\ m.config.emergency_bytes \in Nat
  BY SaturatingInc, WidthAssumption DEF Machine, PolicyConfig, Count, saturating_inc
<1>1. CASE bytes >= m.config.emergency_bytes
  <2>1. /\ r.m = [m EXCEPT !.state = "Emergency", !.intervention_started = TRUE]
        /\ Kinds(r.acts) = {"RecordObservation", "SendKill", "RecordOvershoot"}
    BY <1>1, KindsOfActions DEF apply_footprint, Result
  <2>2. ~calm BY <1>0, <1>1
  <2>3. r.m.mode = m.mode /\ r.m.config = m.config /\ r.m.intervention_started = TRUE
    BY <2>1 DEF Machine
  <2> HIDE DEF r
  <2>4. Fair(m, r, calm, loud, o, l)
    BY <2>1, <2>2, <2>3 DEF Fair, Grounded, SignalKinds
  <2> QED BY <2>4 DEF r
<1>2. CASE ~(bytes >= m.config.emergency_bytes) /\ m.state = "CheckpointRequested"
  <2>1. r.m = m /\ Kinds(r.acts) = {"RecordObservation"}
    BY <1>2, KindsOfActions DEF apply_footprint, Result
  <2>2. ~calm BY <1>2
  <2> HIDE DEF r
  <2>3. Fair(m, r, calm, loud, o, l)
    BY <2>1, <2>2 DEF Fair, Grounded, SignalKinds
  <2> QED BY <2>3 DEF r
<1>3. CASE /\ ~(bytes >= m.config.emergency_bytes) /\ m.state # "CheckpointRequested"
           /\ bytes < m.config.limit_bytes
  <2>1. /\ r.m = [m EXCEPT !.breach_streak = 0, !.state = band]
        /\ Kinds(r.acts) = {"RecordObservation"}
    BY <1>3, KindsOfActions DEF apply_footprint, Result
  <2>2. band # "CheckpointRequested" BY <1>3
  <2>3. /\ r.m.mode = m.mode /\ r.m.config = m.config /\ r.m.state = band
        /\ r.m.intervention_started = m.intervention_started
        /\ r.m.breach_streak = 0 /\ r.m.missing_streak = m.missing_streak
    BY <2>1 DEF Machine
  <2> HIDE DEF r, band
  <2>4. calm => Counted(r.m, o, l) BY <2>3 DEF Counted
  <2>5. Fair(m, r, calm, loud, o, l)
    BY <2>1, <2>2, <2>3, <2>4 DEF Fair, Grounded, Restrained, SignalKinds
  <2> QED BY <2>5 DEF r
<1>4. CASE /\ ~(bytes >= m.config.emergency_bytes) /\ m.state # "CheckpointRequested"
           /\ ~(bytes < m.config.limit_bytes)
           /\ streak < m.config.required_breach_samples
  <2>1. r.m = warned /\ Kinds(r.acts) = {"RecordObservation"}
    BY <1>4, KindsOfActions DEF apply_footprint, Result
  <2>2. /\ r.m.mode = m.mode /\ r.m.config = m.config /\ r.m.state = "Warning"
        /\ r.m.intervention_started = m.intervention_started
        /\ r.m.breach_streak = streak /\ r.m.missing_streak = m.missing_streak
    BY <2>1 DEF Machine
  <2>3. calm => m.breach_streak + 1 <= o BY <1>0, <1>4
  <2> HIDE DEF r, warned, streak
  <2>4. calm => Counted(r.m, o, l) BY <1>0, <2>2, <2>3 DEF Counted
  <2>5. Fair(m, r, calm, loud, o, l)
    BY <2>1, <2>2, <2>4 DEF Fair, Grounded, Restrained, SignalKinds
  <2> QED BY <2>5 DEF r
<1>5. CASE /\ ~(bytes >= m.config.emergency_bytes) /\ m.state # "CheckpointRequested"
           /\ ~(bytes < m.config.limit_bytes)
           /\ ~(streak < m.config.required_breach_samples)
  <2>1. /\ r.m = graceful.m
        /\ r.acts = IF m.config.checkpoint_timeout = None
                    THEN <<RecordObservation, graceful.acts[1], RecordOvershoot(excess)>>
                    ELSE <<RecordObservation, graceful.acts[1]>>
    BY <1>5 DEF apply_footprint, Result
  <2>2. ~calm
    <3>1. ~(bytes < m.config.limit_bytes) /\ ~(streak < m.config.required_breach_samples)
      BY <1>5
    <3> HIDE DEF streak
    <3> QED BY <1>0, <3>1
  <2>3. warned \in Machine /\ warned.mode = m.mode /\ warned.config = m.config
    BY <1>0 DEF Machine, PolicyState
  <2> HIDE DEF warned, streak
  <2>4. Grounded(warned, graceful) BY <2>3, GracefulGrounded
  <2>5. /\ m.config.checkpoint_timeout # None => graceful.acts[1].kind = "RequestCheckpoint"
        /\ m.config.checkpoint_timeout = None =>
              graceful.acts[1].kind = "SendTerm" /\ graceful.m.intervention_started
    BY <2>3, GracefulActions, GracefulLatches
  <2> HIDE DEF graceful, excess
  <2>6. Kinds(r.acts) = IF m.config.checkpoint_timeout = None
                        THEN {"RecordObservation", "SendTerm", "RecordOvershoot"}
                        ELSE {"RecordObservation", "RequestCheckpoint"}
    <3> DEFINE a == graceful.acts[1]
    <3>1. CASE m.config.checkpoint_timeout = None
      <4>1. r.acts = <<RecordObservation, a, RecordOvershoot(excess)>> BY <2>1, <3>1
      <4>2. a.kind = "SendTerm" BY <2>5, <3>1
      <4> HIDE DEF r, a
      <4> QED BY <3>1, <4>1, <4>2, KindsOfThree DEF RecordObservation, RecordOvershoot
    <3>2. CASE m.config.checkpoint_timeout # None
      <4>1. r.acts = <<RecordObservation, a>> BY <2>1, <3>2
      <4>2. a.kind = "RequestCheckpoint" BY <2>5, <3>2
      <4> HIDE DEF r, a
      <4> QED BY <3>2, <4>1, <4>2, KindsOfTwo DEF RecordObservation
    <3> QED BY <3>1, <3>2
  <2> HIDE DEF r
  <2>7. Grounded(m, r) BY <2>1, <2>3, <2>4, <2>5, <2>6 DEF Grounded, SignalKinds
  <2>8. Fair(m, r, calm, loud, o, l) BY <2>2, <2>7 DEF Fair
  <2> QED BY <2>8 DEF r
<1> QED BY <1>1, <1>2, <1>3, <1>4, <1>5

LEMMA SampleFair ==
    ASSUME NEW m \in Machine, NEW k, NEW n, Core(m, k, n), NEW s,
           s.aggregate_bytes \in Option(Nat),
           NEW calm, NEW loud, NEW o \in Nat, NEW l \in Nat, m.state # "Exited",
           calm => /\ m.state # "CheckpointRequested"
                   /\ ~m.intervention_started
                   /\ m.mode = "Enforce" =>
                         IF usable(m, s)
                         THEN /\ s.aggregate_bytes < m.config.emergency_bytes
                              /\ s.aggregate_bytes >= m.config.limit_bytes =>
                                    /\ m.breach_streak + 1 <= o
                                    /\ o < m.config.required_breach_samples
                         ELSE /\ m.breach_streak <= o
                              /\ m.missing_streak + 1 <= l
                              /\ l < m.config.max_missing_samples
    PROVE  Fair(m, apply_sample(m, s), calm, loud, o, l)
<1> DEFINE seen == [m EXCEPT !.missing_streak = 0,
                             !.post_signal_observations =
                                 IF m.intervention_started THEN saturating_inc(@) ELSE @]
           r == apply_sample(m, s)
<1>0. /\ seen \in Machine /\ seen.mode = m.mode /\ seen.config = m.config
      /\ seen.state = m.state /\ seen.intervention_started = m.intervention_started
      /\ seen.breach_streak = m.breach_streak /\ seen.missing_streak = 0
      /\ seen.term_deadline = m.term_deadline
      /\ seen.checkpoint_deadline = m.checkpoint_deadline
  <2> DEFINE p == IF m.intervention_started
                  THEN saturating_inc(m.post_signal_observations)
                  ELSE m.post_signal_observations
  <2>1. p \in Count BY SaturatingInc DEF Machine
  <2>2. seen = [m EXCEPT !.missing_streak = 0, !.post_signal_observations = p] OBVIOUS
  <2> HIDE DEF p, seen
  <2>3. /\ seen \in Machine /\ seen.mode = m.mode /\ seen.state = m.state
        /\ seen.intervention_started = m.intervention_started
        /\ seen.term_deadline = m.term_deadline
        /\ seen.checkpoint_deadline = m.checkpoint_deadline
    BY ZenonT(60), <2>1, <2>2, SeenUpdate
  <2>4. /\ seen.config = m.config
        /\ seen.breach_streak = m.breach_streak /\ seen.missing_streak = 0
    BY <2>2 DEF Machine
  <2> QED BY <2>3, <2>4
<1>1. CASE ~usable(m, s)
  <2>1. r = apply_missing(m, s.processed_at) BY <1>1 DEF apply_sample
  <2> HIDE DEF r
  <2>2. Fair(m, r, calm, loud, o, l) BY <1>1, <2>1, MissingFair
  <2> QED BY <2>2 DEF r
<1>2. CASE usable(m, s) /\ (m.mode = "Observe" \/ m.intervention_started)
  <2>1. r.m = seen /\ Kinds(r.acts) = {"RecordObservation"}
    BY <1>2, KindsOfActions DEF apply_sample, Result
  <2>2. calm => m.mode = "Observe" BY <1>2
  <2> HIDE DEF r, seen
  <2>3. Fair(m, r, calm, loud, o, l)
    BY <1>0, <2>1, <2>2 DEF Fair, Grounded, Restrained, Counted, SignalKinds
  <2> QED BY <2>3 DEF r
<1>3. CASE usable(m, s) /\ ~(m.mode = "Observe" \/ m.intervention_started)
  <2>1. r = apply_footprint(seen, s.processed_at, s.aggregate_bytes)
    BY <1>3 DEF apply_sample
  <2>2. m.mode = "Enforce" BY <1>3 DEF Machine
  <2>3. s.aggregate_bytes \in Nat BY <1>3 DEF usable, Option
  <2> HIDE DEF r, seen
  <2>4. Core(seen, k, n) BY <1>0 DEF Core
  <2>5. Fair(seen, r, calm, loud, o, l)
    BY <1>0, <1>3, <2>1, <2>2, <2>3, <2>4, FootprintFair
  <2>6. Fair(m, r, calm, loud, o, l)
    BY <1>0, <2>5 DEF Fair, Grounded, Restrained
  <2> QED BY <2>6 DEF r
<1> QED BY <1>1, <1>2, <1>3

\* The handlers of the remaining events.
LEMMA AckFair ==
    ASSUME NEW m \in Machine, NEW k, NEW n, Core(m, k, n), NEW at, NEW id, NEW ok,
           NEW calm, NEW loud, NEW o, NEW l,
           calm => Counted(m, o, l) /\ m.state # "CheckpointRequested"
    PROVE  Fair(m, apply_checkpoint_ack(m, at, id, ok), calm, loud, o, l)
<1> DEFINE r == apply_checkpoint_ack(m, at, id, ok)
<1>1. CASE m.state # "CheckpointRequested" \/ m.active_request_id # id \/ ~ok
  BY <1>1, DeclineFair DEF apply_checkpoint_ack
<1>2. CASE ~(m.state # "CheckpointRequested" \/ m.active_request_id # id \/ ~ok)
  <2>1. r.m = begin_shutdown(clear_request(m), "Terminating", at)
    BY <1>2 DEF apply_checkpoint_ack, Result
  <2>2. m.mode # "Observe" /\ ~calm BY <1>2 DEF Core
  <2> HIDE DEF r
  <2>3. Fair(m, r, calm, loud, o, l) BY <2>1, <2>2, StartFair
  <2> QED BY <2>3 DEF r
<1> QED BY <1>1, <1>2

LEMMA ExternalSignalFair ==
    ASSUME NEW m \in Machine, NEW at, NEW signal,
           NEW calm, ~calm, NEW loud, loud, NEW o, NEW l
    PROVE  Fair(m, apply_external_signal(m, at, signal), calm, loud, o, l)
<1> DEFINE r == apply_external_signal(m, at, signal)
<1>1. CASE m.state \in {"Terminating", "SupervisorError", "Emergency"}
  <2>1. /\ r.m = [m EXCEPT !.state = "Emergency", !.intervention_started = TRUE]
        /\ Kinds(r.acts) = {"SendKill"}
    BY <1>1, KindsOfActions DEF apply_external_signal, Result
  <2> HIDE DEF r
  <2>2. r.m.mode = m.mode /\ r.m.config = m.config /\ r.m.intervention_started = TRUE
    BY <2>1 DEF Machine
  <2>3. Fair(m, r, calm, loud, o, l) BY <2>1, <2>2 DEF Fair, Grounded
  <2> QED BY <2>3 DEF r
<1>2. CASE m.state \notin {"Terminating", "SupervisorError", "Emergency"}
  <2>1. /\ r.m = begin_shutdown(clear_request(m), "Terminating", at)
        /\ Kinds(r.acts) = {"ForwardSignal"}
    BY <1>2, KindsOfActions DEF apply_external_signal, Result
  <2> HIDE DEF r
  <2>2. r.m.mode = m.mode /\ r.m.config = m.config /\ r.m.intervention_started = TRUE
    BY <2>1 DEF begin_shutdown, clear_request, Machine
  <2>3. Fair(m, r, calm, loud, o, l) BY <2>1, <2>2 DEF Fair, Grounded
  <2> QED BY <2>3 DEF r
<1> QED BY <1>1, <1>2

\* Only an actuation that was executed can fail, so the intervention it was
\* part of has begun.
LEMMA ActuationFailedFair ==
    ASSUME NEW m \in Machine, NEW k, NEW n, Core(m, k, n), NEW at,
           NEW action \in ActuationKind,
           action = "Checkpoint" => m.state = "CheckpointRequested",
           action # "Checkpoint" => m.intervention_started,
           NEW calm, ~calm, NEW loud, NEW o, NEW l
    PROVE  Fair(m, apply_actuation_failed(m, at, action), calm, loud, o, l)
<1> DEFINE r == apply_actuation_failed(m, at, action)
           halted(state) == [clear_request(m) EXCEPT !.term_deadline = None,
                                                     !.state = state,
                                                     !.intervention_started = TRUE]
<1>1. CASE action = "Checkpoint"
  <2>1. r.m = begin_shutdown(clear_request(m), "Terminating", at)
    BY <1>1 DEF apply_actuation_failed, Result
  <2>2. m.mode # "Observe" BY <1>1 DEF Core
  <2> HIDE DEF r
  <2>3. Fair(m, r, calm, loud, o, l) BY <2>1, <2>2, StartFair
  <2> QED BY <2>3 DEF r
<1>2. CASE action # "Checkpoint"
  <2>1. /\ r.m = halted("Emergency") \/ r.m = halted("SupervisorError")
        /\ Kinds(r.acts) = {"SendKill"} \/ Kinds(r.acts) = {"ReportSupervisorError"}
    BY <1>2, KindsOfActions DEF apply_actuation_failed, Result
  <2>2. r.m.mode = m.mode /\ r.m.config = m.config /\ r.m.intervention_started = TRUE
    <3> HIDE DEF r
    <3> QED BY <2>1 DEF clear_request, Machine
  <2> HIDE DEF r
  <2>3. Fair(m, r, calm, loud, o, l) BY <1>2, <2>1, <2>2 DEF Fair, Grounded
  <2> QED BY <2>3 DEF r
<1> QED BY <1>1, <1>2

LEMMA SupervisorFaultFair ==
    ASSUME NEW m \in Machine, NEW at, NEW calm, ~calm, NEW loud, NEW o, NEW l
    PROVE  Fair(m, apply_supervisor_fault(m, at), calm, loud, o, l)
<1> DEFINE r == apply_supervisor_fault(m, at)
           faulted == [clear_request(m) EXCEPT !.state = "SupervisorError"]
<1>1. CASE m.mode = "Observe" \/ m.intervention_started
  <2>1. r.m = faulted /\ Kinds(r.acts) \in {{}, {"StopObserving"}}
    BY <1>1, KindsOfActions DEF apply_supervisor_fault, Result
  <2> HIDE DEF r
  <2>2. /\ r.m.mode = m.mode /\ r.m.config = m.config
        /\ r.m.intervention_started = m.intervention_started
    BY <2>1 DEF clear_request, Machine
  <2>3. Fair(m, r, calm, loud, o, l) BY <2>1, <2>2 DEF Fair, Grounded, SignalKinds
  <2> QED BY <2>3 DEF r
<1>2. CASE m.mode # "Observe" /\ ~m.intervention_started
  <2>1. r.m = begin_shutdown(faulted, "SupervisorError", at)
    BY <1>2 DEF apply_supervisor_fault, Result
  <2>2. begin_shutdown(faulted, "SupervisorError", at)
           = begin_shutdown(clear_request(m), "SupervisorError", at)
    BY DEF begin_shutdown, clear_request, Machine
  <2> HIDE DEF r
  <2>3. Fair(m, r, calm, loud, o, l) BY <1>2, <2>1, <2>2, StartFair
  <2> QED BY <2>3 DEF r
<1> QED BY <1>1, <1>2

LEMMA ExitsFair ==
    ASSUME NEW m \in Machine, NEW k, NEW n, Core(m, k, n), NEW at,
           NEW calm, ~calm, NEW loud, NEW o, NEW l
    PROVE  /\ Fair(m, apply_root_exited(m, at), calm, loud, o, l)
           /\ Fair(m, apply_parent_exited(m, at), calm, loud, o, l)
<1>1. ASSUME NEW r, NEW d, NEW S \in SUBSET {"Normal", "Warning", "CheckpointRequested"},
             r = IF m.state \notin S THEN Result(m, <<>>)
                 ELSE Result(begin_shutdown(clear_request(m), "Terminating", at),
                             <<SendTerm(d)>>)
      PROVE  Fair(m, r, calm, loud, o, l)
  <2>1. CASE m.state \notin S BY <1>1, <2>1, DeclineFair
  <2>2. CASE m.state \in S
    <3>1. r.m = begin_shutdown(clear_request(m), "Terminating", at)
      BY <1>1, <2>2 DEF Result
    <3>2. m.mode # "Observe" BY <2>2 DEF Core
    <3> QED BY <3>1, <3>2, StartFair
  <2> QED BY <2>1, <2>2
<1>2. apply_root_exited(m, at) =
         IF m.state \notin {"Normal", "Warning", "CheckpointRequested"}
         THEN Result(m, <<>>)
         ELSE Result(begin_shutdown(clear_request(m), "Terminating", at),
                     <<SendTerm("SkippedRootExited")>>)
  BY DEF apply_root_exited
<1>3. apply_parent_exited(m, at) =
         IF m.state \notin {"Normal", "Warning"}
         THEN Result(m, <<>>)
         ELSE Result(begin_shutdown(clear_request(m), "Terminating", at),
                     <<SendTerm("SkippedParentExited")>>)
  BY DEF apply_parent_exited
<1> QED BY <1>1, <1>2, <1>3

LEMMA FailClockFair ==
    ASSUME NEW m \in Machine, NEW calm, ~calm, NEW loud, NEW o, NEW l
    PROVE  Fair(m, fail_clock(m), calm, loud, o, l)
<1> DEFINE r == fail_clock(m)
<1>1. CASE m.intervention_started \/ m.state = "SupervisorError"
  BY <1>1, DeclineFair DEF fail_clock
<1>2. CASE ~(m.intervention_started \/ m.state = "SupervisorError") /\ m.mode = "Observe"
  <2>1. /\ r.m = [m EXCEPT !.state = "SupervisorError"]
        /\ Kinds(r.acts) = {"RecordMissing", "StopObserving"}
    BY <1>2, KindsOfActions DEF fail_clock, Result
  <2> HIDE DEF r
  <2>2. /\ r.m.mode = m.mode /\ r.m.config = m.config
        /\ r.m.intervention_started = m.intervention_started
    BY <2>1 DEF Machine
  <2>3. Fair(m, r, calm, loud, o, l) BY <2>1, <2>2 DEF Fair, Grounded, SignalKinds
  <2> QED BY <2>3 DEF r
<1>3. CASE ~(m.intervention_started \/ m.state = "SupervisorError") /\ m.mode # "Observe"
  <2>1. r.m = begin_shutdown(m, "SupervisorError", m.last_event_at)
    BY <1>3 DEF fail_clock, Result
  <2> HIDE DEF r
  <2>2. r.m.mode = m.mode /\ r.m.config = m.config /\ r.m.intervention_started = TRUE
    BY <2>1 DEF begin_shutdown, Machine
  <2>3. Fair(m, r, calm, loud, o, l) BY <1>3, <2>2 DEF Fair, Grounded
  <2> QED BY <2>3 DEF r
<1> QED BY <1>1, <1>2, <1>3

\* apply is fair on an event whose handler is fair to the stamped machine.
LEMMA ApplyFair ==
    ASSUME NEW m \in Machine, NEW k, NEW n, Core(m, k, n),
           NEW e, e.type # "ProcessExited", event_at(e) \in Duration,
           NEW calm, NEW loud, NEW o, NEW l,
           (m.last_event_at # None /\ event_at(e) < m.last_event_at) => ~calm,
           \A u \in Machine :
               /\ Core(u, k, n) /\ u.state = m.state /\ u.state # "Exited"
               /\ u.mode = m.mode /\ u.config = m.config
               /\ u.intervention_started = m.intervention_started
               /\ u.breach_streak = m.breach_streak
               /\ u.missing_streak = m.missing_streak
               => Fair(u, dispatch(u, e), calm, loud, o, l)
    PROVE  Fair(m, apply(m, e), calm, loud, o, l)
<1> DEFINE u == [m EXCEPT !.last_event_at = event_at(e)]
<1>1. CASE m.state = "Exited"
  <2>1. apply(m, e) = Result(m, <<>>) BY <1>1 DEF apply
  <2>2. Counted(m, o, l) BY <1>1 DEF Counted
  <2> QED BY <2>1, <2>2, DeclineFair
<1>2. CASE m.state # "Exited" /\ m.last_event_at # None /\ event_at(e) < m.last_event_at
  <2>1. apply(m, e) = fail_clock(m) BY <1>2 DEF apply
  <2> QED BY <1>2, <2>1, FailClockFair
<1>3. CASE m.state # "Exited" /\ ~(m.last_event_at # None /\ event_at(e) < m.last_event_at)
  <2>1. apply(m, e) = dispatch(u, e) BY <1>3 DEF apply
  <2>2. /\ u \in Machine /\ u.state = m.state /\ u.mode = m.mode /\ u.config = m.config
        /\ u.intervention_started = m.intervention_started
        /\ u.breach_streak = m.breach_streak
        /\ u.missing_streak = m.missing_streak
        /\ u.term_deadline = m.term_deadline
        /\ u.checkpoint_deadline = m.checkpoint_deadline
    BY DEF Machine, Option
  <2> HIDE DEF u
  <2>3. Core(u, k, n) BY <2>2 DEF Core
  <2>4. Fair(u, dispatch(u, e), calm, loud, o, l) BY <1>3, <2>2, <2>3
  <2> QED BY <2>1, <2>2, <2>4 DEF Fair, Grounded, Restrained
<1> QED BY <1>1, <1>2, <1>3

-----------------------------------------------------------------------------
(* No intervention without a reason.                                       *)

\* The invariant behind NoUnprovokedIntervention: without a reason on record
\* nothing has begun and the machine's streaks are covered by the runs counted
\* from the inputs; without a terminal signal an observing machine has begun
\* nothing; and a signal among the last actions means the intervention began.
Restraint ==
    /\ external => provoked
    /\ Kinds(acts) \cap SignalKinds # {} => policy.intervention_started
    /\ ~provoked =>
          /\ ~policy.intervention_started
          /\ policy.state # "CheckpointRequested"
          /\ requests = 0
          /\ Counted(policy, over, lost)
    /\ policy.mode = "Observe" =>
          /\ requests = 0
          /\ Kinds(acts) \cap {"SendTerm", "RequestCheckpoint"} = {}
          /\ ~external => ~policy.intervention_started /\ ~killAsked

\* A fair step keeps the restraint.
LEMMA FairStep ==
    ASSUME IInv, Restraint, NEW e, Step(e),
           external' \in {external, TRUE}, external' => provoked',
           provoked => provoked',
           Fair(policy, apply(policy, e), ~provoked', external', over', lost')
    PROVE  Restraint'
<1> DEFINE r == apply(policy, e)
<1>1. /\ policy' = r.m /\ acts' = r.acts
      /\ killAsked' = (killAsked \/ "SendKill" \in Kinds(r.acts))
      /\ requests' = requests + IF "RequestCheckpoint" \in Kinds(r.acts) THEN 1 ELSE 0
  BY DEF Step
<1>2. Fair(policy, r, ~provoked', external', over', lost') OBVIOUS
<1>3. requests \in Nat BY DEF IInv, TypeOK
<1> HIDE DEF r
<1>4. Kinds(acts') \cap SignalKinds # {} => policy'.intervention_started
  BY <1>1, <1>2 DEF Fair, Grounded
<1>5. ASSUME ~provoked'
      PROVE  /\ ~policy'.intervention_started
             /\ policy'.state # "CheckpointRequested"
             /\ requests' = 0
             /\ Counted(policy', over', lost')
  <2>1. ~provoked BY <1>5
  <2>2. Restrained(policy, r) /\ Counted(r.m, over', lost') BY <1>2, <1>5 DEF Fair
  <2> QED BY <1>1, <2>1, <2>2 DEF Restrained, Restraint
<1>6. ASSUME policy'.mode = "Observe"
      PROVE  /\ requests' = 0
             /\ Kinds(acts') \cap {"SendTerm", "RequestCheckpoint"} = {}
             /\ ~external' => ~policy'.intervention_started /\ ~killAsked'
  <2>1. policy.mode = "Observe" BY <1>1, <1>2, <1>6 DEF Fair, Grounded
  <2>2. Kinds(acts') \cap {"SendTerm", "RequestCheckpoint"} = {}
    BY <1>1, <1>2, <2>1 DEF Fair, Grounded
  <2>3. requests' = 0 BY <1>1, <2>1, <2>2 DEF Restraint
  <2>4. ASSUME ~external' PROVE ~policy'.intervention_started /\ ~killAsked'
    <3>1. ~external BY <2>4
    <3>2. ~policy.intervention_started /\ ~killAsked BY <2>1, <3>1 DEF Restraint
    <3>3. ~policy'.intervention_started BY <1>1, <1>2, <2>1, <2>4, <3>2 DEF Fair
    <3>4. "SendKill" \notin Kinds(acts') BY <1>4, <3>3 DEF SignalKinds
    <3> QED BY <1>1, <3>2, <3>3, <3>4
  <2> QED BY <2>2, <2>3, <2>4
<1> QED BY <1>4, <1>5, <1>6 DEF Restraint

LEMMA NextRestraint == ASSUME IInv, Restraint, Next PROVE Restraint'
<1> DEFINE Good(e) == Fair(policy, apply(policy, e), ~provoked', external', over', lost')
           k == killAsked
           n == requests
<1>0. /\ policy \in Machine /\ Core(policy, k, n) /\ over \in Nat /\ lost \in Nat
      /\ provoked \in BOOLEAN /\ external \in BOOLEAN
  BY DEF IInv, TypeOK
<1>t. \A at \in Times : at \in Duration BY EnvironmentAssumption
<1>c. ~provoked => /\ Counted(policy, over, lost)
                   /\ ~policy.intervention_started
                   /\ policy.state # "CheckpointRequested"
  BY DEF Restraint
<1>x. external => provoked BY DEF Restraint
<1>1. ASSUME NEW captured \in Times, NEW processed \in Times, NEW w \in Windows,
             NEW b \in Option(Bytes), Sample(captured, processed, w, b)
      PROVE  Restraint'
  <2> DEFINE e == [type |-> "Sample", captured_at |-> captured,
                   processed_at |-> processed, window |-> w, aggregate_bytes |-> b]
             good == usable(policy, e)
             o == IF ~good THEN over
                  ELSE IF b >= policy.config.limit_bytes THEN over + 1 ELSE 0
             l == IF good THEN 0 ELSE lost + 1
  <2>1. Step(e) BY <1>1 DEF Sample
  <2>2. /\ provoked' = (provoked \/ \/ Regressed(processed)
                                    \/ good /\ b >= policy.config.emergency_bytes
                                    \/ o >= policy.config.required_breach_samples
                                    \/ l >= policy.config.max_missing_samples)
        /\ over' = (IF provoked' THEN 0 ELSE o)
        /\ lost' = (IF provoked' THEN 0 ELSE l)
        /\ external' = external
    BY <1>1 DEF Sample, Tally
  <2>3. /\ e.type = "Sample" /\ event_at(e) = processed /\ processed \in Duration
        /\ e.aggregate_bytes = b /\ b \in Option(Nat)
    BY <1>t, EnvironmentAssumption DEF event_at, Option
  <2>4. o \in Nat /\ l \in Nat BY <1>0
  <2>5. \A u : u.config = policy.config => usable(u, e) = good BY DEF usable
  <2> HIDE DEF e
  <2>6. ASSUME NEW u \in Machine, Core(u, k, n), u.state = policy.state,
               u.state # "Exited", u.mode = policy.mode, u.config = policy.config,
               u.intervention_started = policy.intervention_started,
               u.breach_streak = policy.breach_streak,
               u.missing_streak = policy.missing_streak
        PROVE  Fair(u, dispatch(u, e), ~provoked', external', over', lost')
    <3>1. dispatch(u, e) = apply_sample(u, e) BY <2>3 DEF dispatch
    <3>2. over' \in Nat /\ lost' \in Nat BY <2>2, <2>4
    <3>3. ASSUME ~provoked'
          PROVE  /\ u.state # "CheckpointRequested"
                 /\ ~u.intervention_started
                 /\ u.mode = "Enforce" =>
                       IF usable(u, e)
                       THEN /\ e.aggregate_bytes < u.config.emergency_bytes
                            /\ e.aggregate_bytes >= u.config.limit_bytes =>
                                  /\ u.breach_streak + 1 <= over'
                                  /\ over' < u.config.required_breach_samples
                       ELSE /\ u.breach_streak <= over'
                            /\ u.missing_streak + 1 <= lost'
                            /\ lost' < u.config.max_missing_samples
      <4>1. ~provoked /\ over' = o /\ lost' = l BY <2>2, <3>3
      <4>2. /\ ~(good /\ b >= policy.config.emergency_bytes)
            /\ ~(o >= policy.config.required_breach_samples)
            /\ ~(l >= policy.config.max_missing_samples)
        BY <2>2, <3>3
      <4>3. u.state # "CheckpointRequested" /\ ~u.intervention_started
        BY <1>c, <2>6, <4>1
      <4>4. u.mode = "Enforce" => u.breach_streak <= over /\ u.missing_streak <= lost
        BY <1>c, <2>6, <4>1 DEF Counted
      <4>5. /\ u.breach_streak \in Nat /\ u.missing_streak \in Nat
            /\ u.config.emergency_bytes \in Nat /\ u.config.limit_bytes \in Nat
            /\ u.config.required_breach_samples \in Nat
            /\ u.config.max_missing_samples \in Nat
        BY WidthAssumption DEF Machine, PolicyConfig, Count
      <4>6. usable(u, e) = good BY <2>5, <2>6
      <4>7. CASE good
        <5>1. b \in Nat BY <2>3, <4>7 DEF usable, Option
        <5>2. o = (IF b >= u.config.limit_bytes THEN over + 1 ELSE 0) BY <2>6, <4>7
        <5> HIDE DEF good, o, l
        <5> QED BY <1>0, <2>3, <2>4, <2>6, <4>1, <4>2, <4>3, <4>4, <4>5, <4>6, <4>7, <5>1, <5>2
      <4>8. CASE ~good
        <5>1. o = over /\ l = lost + 1 BY <4>8
        <5> HIDE DEF good, o, l
        <5> QED BY <1>0, <2>6, <4>1, <4>2, <4>3, <4>4, <4>5, <4>6, <4>8, <5>1
      <4> QED BY <4>7, <4>8
    <3> HIDE DEF good, o, l
    <3> QED BY <2>3, <2>6, <3>1, <3>2, <3>3, SampleFair
  <2>7. (policy.last_event_at # None /\ event_at(e) < policy.last_event_at) => provoked'
    BY <2>2, <2>3 DEF Regressed
  <2> HIDE DEF good, o, l
  <2>8. Good(e) BY <1>0, <2>3, <2>6, <2>7, ApplyFair
  <2>9. provoked => provoked' BY <2>2
  <2> QED BY <1>x, <2>1, <2>2, <2>8, <2>9, FairStep
<1>2. ASSUME NEW at \in Times, Tick(at)
      PROVE  Restraint'
  <2> DEFINE e == [type |-> "Tick", at |-> at]
  <2>1. Step(e) BY <1>2 DEF Tick
  <2>2. /\ provoked => provoked'
        /\ Regressed(at) => provoked'
        /\ ~provoked' => over' = over /\ lost' = lost
        /\ external' = external
        /\ reached(policy.config.wall_time, at) => provoked'
    BY <1>2, <1>0 DEF Tick, Tally, TypeOK
  <2>3. e.type = "Tick" /\ e.at = at /\ event_at(e) = at /\ at \in Duration
    BY <1>t DEF event_at
  <2> HIDE DEF e
  <2>4. ASSUME NEW u \in Machine, Core(u, k, n), u.state = policy.state,
               u.state # "Exited", u.mode = policy.mode, u.config = policy.config,
               u.intervention_started = policy.intervention_started,
               u.breach_streak = policy.breach_streak,
               u.missing_streak = policy.missing_streak
        PROVE  Fair(u, dispatch(u, e), ~provoked', external', over', lost')
    <3>1. dispatch(u, e) = apply_tick(u, at)
      BY <2>3 DEF dispatch
    <3> QED BY <1>0, <1>c, <2>2, <2>3, <2>4, <3>1, TickFair DEF Counted
  <2>5. (policy.last_event_at # None /\ event_at(e) < policy.last_event_at) => provoked'
    BY <2>2, <2>3 DEF Regressed
  <2>6. Good(e) BY <1>0, <2>3, <2>4, <2>5, ApplyFair
  <2> QED BY <1>x, <2>1, <2>2, <2>6, FairStep
<1>3. ASSUME NEW at \in Times, NEW id \in RequestId, NEW ok \in BOOLEAN,
             CheckpointAck(at, id, ok)
      PROVE  Restraint'
  <2> DEFINE e == [type |-> "CheckpointAck", at |-> at, request_id |-> id,
                   authenticated |-> ok]
  <2>1. Step(e) BY <1>3 DEF CheckpointAck
  <2>2. /\ provoked => provoked'
        /\ Regressed(at) => provoked'
        /\ ~provoked' => over' = over /\ lost' = lost
        /\ external' = external
    BY <1>3, <1>0 DEF CheckpointAck, Tally, TypeOK
  <2>3. e.type = "CheckpointAck" /\ e.at = at /\ event_at(e) = at /\ at \in Duration
        /\ e.request_id = id /\ e.authenticated = ok
    BY <1>t DEF event_at
  <2> HIDE DEF e
  <2>4. ASSUME NEW u \in Machine, Core(u, k, n), u.state = policy.state,
               u.state # "Exited", u.mode = policy.mode, u.config = policy.config,
               u.intervention_started = policy.intervention_started,
               u.breach_streak = policy.breach_streak,
               u.missing_streak = policy.missing_streak
        PROVE  Fair(u, dispatch(u, e), ~provoked', external', over', lost')
    <3>1. dispatch(u, e) = apply_checkpoint_ack(u, at, id, ok)
      BY <2>3 DEF dispatch
    <3>2. ~provoked' => Counted(u, over', lost') /\ u.state # "CheckpointRequested"
      BY <1>c, <2>2, <2>4 DEF Counted
    <3>3. Fair(u, apply_checkpoint_ack(u, at, id, ok), ~provoked', external', over', lost')
      BY <2>4, <3>2, AckFair
    <3> QED BY <3>1, <3>3
  <2>5. (policy.last_event_at # None /\ event_at(e) < policy.last_event_at) => provoked'
    BY <2>2, <2>3 DEF Regressed
  <2>6. Good(e) BY <1>0, <2>3, <2>4, <2>5, ApplyFair
  <2> QED BY <1>x, <2>1, <2>2, <2>6, FairStep
<1>4. ASSUME NEW at \in Times, NEW s \in Signals, ExternalSignal(at, s)
      PROVE  Restraint'
  <2> DEFINE e == [type |-> "ExternalSignal", at |-> at, signal |-> s]
  <2>1. Step(e) BY <1>4 DEF ExternalSignal, Provoking
  <2>2. provoked' = TRUE /\ external' = TRUE
    BY <1>4, <1>0 DEF ExternalSignal, Provoking, Tally, TypeOK
  <2>3. e.type = "ExternalSignal" /\ e.at = at /\ event_at(e) = at /\ at \in Duration /\ e.signal = s
    BY <1>t DEF event_at
  <2> HIDE DEF e
  <2>4. ASSUME NEW u \in Machine, Core(u, k, n), u.state = policy.state,
               u.state # "Exited", u.mode = policy.mode, u.config = policy.config,
               u.intervention_started = policy.intervention_started,
               u.breach_streak = policy.breach_streak,
               u.missing_streak = policy.missing_streak
        PROVE  Fair(u, dispatch(u, e), ~provoked', external', over', lost')
    <3>1. dispatch(u, e) = apply_external_signal(u, at, s)
      BY <2>3 DEF dispatch
    <3> QED BY <1>0, <1>c, <2>2, <2>3, <2>4, <3>1, ExternalSignalFair
  <2>5. (policy.last_event_at # None /\ event_at(e) < policy.last_event_at) => provoked'
    BY <2>2, <2>3 DEF Regressed
  <2>6. Good(e) BY <1>0, <2>3, <2>4, <2>5, ApplyFair
  <2> QED BY <1>x, <2>1, <2>2, <2>6, FairStep
<1>5. ASSUME NEW at \in Times, NEW action \in ActuationKind, ActuationFailed(at, action)
      PROVE  Restraint'
  <2> DEFINE e == [type |-> "ActuationFailed", at |-> at, action |-> action]
  <2>1. Step(e) BY <1>5 DEF ActuationFailed
  <2>2. /\ provoked => provoked'
        /\ Regressed(at) => provoked'
        /\ ~provoked' => over' = over /\ lost' = lost
        /\ external' = external
    BY <1>5, <1>0 DEF ActuationFailed, Tally, TypeOK
  <2>3. e.type = "ActuationFailed" /\ e.at = at /\ event_at(e) = at /\ at \in Duration /\ e.action = action
    BY <1>t DEF event_at
  <2>a. /\ action = "Checkpoint" => policy.state = "CheckpointRequested"
        /\ action # "Checkpoint" => policy.intervention_started
    BY <1>5 DEF ActuationFailed, Restraint, SignalKinds
  <2>b. provoked' BY <1>c, <2>2, <2>a
  <2> HIDE DEF e
  <2>4. ASSUME NEW u \in Machine, Core(u, k, n), u.state = policy.state,
               u.state # "Exited", u.mode = policy.mode, u.config = policy.config,
               u.intervention_started = policy.intervention_started,
               u.breach_streak = policy.breach_streak,
               u.missing_streak = policy.missing_streak
        PROVE  Fair(u, dispatch(u, e), ~provoked', external', over', lost')
    <3>1. dispatch(u, e) = apply_actuation_failed(u, at, action)
      BY <2>3 DEF dispatch
    <3> QED BY <1>0, <1>c, <2>2, <2>3, <2>4, <3>1, ActuationFailedFair, <2>a, <2>b
  <2>5. (policy.last_event_at # None /\ event_at(e) < policy.last_event_at) => provoked'
    BY <2>2, <2>3 DEF Regressed
  <2>6. Good(e) BY <1>0, <2>3, <2>4, <2>5, ApplyFair
  <2> QED BY <1>x, <2>1, <2>2, <2>6, FairStep
<1>6. ASSUME NEW at \in Times, SupervisorFault(at)
      PROVE  Restraint'
  <2> DEFINE e == [type |-> "SupervisorFault", at |-> at]
  <2>1. Step(e) BY <1>6 DEF SupervisorFault, Provoking
  <2>2. /\ provoked' = TRUE /\ external' = external
    BY <1>6, <1>0 DEF SupervisorFault, Provoking, Tally, TypeOK
  <2>3. e.type = "SupervisorFault" /\ e.at = at /\ event_at(e) = at /\ at \in Duration
    BY <1>t DEF event_at
  <2> HIDE DEF e
  <2>4. ASSUME NEW u \in Machine, Core(u, k, n), u.state = policy.state,
               u.state # "Exited", u.mode = policy.mode, u.config = policy.config,
               u.intervention_started = policy.intervention_started,
               u.breach_streak = policy.breach_streak,
               u.missing_streak = policy.missing_streak
        PROVE  Fair(u, dispatch(u, e), ~provoked', external', over', lost')
    <3>1. dispatch(u, e) = apply_supervisor_fault(u, at)
      BY <2>3 DEF dispatch
    <3> QED BY <1>0, <1>c, <2>2, <2>3, <2>4, <3>1, SupervisorFaultFair
  <2>5. (policy.last_event_at # None /\ event_at(e) < policy.last_event_at) => provoked'
    BY <2>2, <2>3 DEF Regressed
  <2>6. Good(e) BY <1>0, <2>3, <2>4, <2>5, ApplyFair
  <2> QED BY <1>x, <2>1, <2>2, <2>6, FairStep
<1>7. ASSUME NEW at \in Times, RootExited(at)
      PROVE  Restraint'
  <2> DEFINE e == [type |-> "RootExited", at |-> at]
  <2>1. Step(e) BY <1>7 DEF RootExited, Provoking
  <2>2. /\ provoked' = TRUE /\ external' = external
    BY <1>7, <1>0 DEF RootExited, Provoking, Tally, TypeOK
  <2>3. e.type = "RootExited" /\ e.at = at /\ event_at(e) = at /\ at \in Duration
    BY <1>t DEF event_at
  <2> HIDE DEF e
  <2>4. ASSUME NEW u \in Machine, Core(u, k, n), u.state = policy.state,
               u.state # "Exited", u.mode = policy.mode, u.config = policy.config,
               u.intervention_started = policy.intervention_started,
               u.breach_streak = policy.breach_streak,
               u.missing_streak = policy.missing_streak
        PROVE  Fair(u, dispatch(u, e), ~provoked', external', over', lost')
    <3>1. dispatch(u, e) = apply_root_exited(u, at)
      BY <2>3 DEF dispatch
    <3> QED BY <1>0, <1>c, <2>2, <2>3, <2>4, <3>1, ExitsFair
  <2>5. (policy.last_event_at # None /\ event_at(e) < policy.last_event_at) => provoked'
    BY <2>2, <2>3 DEF Regressed
  <2>6. Good(e) BY <1>0, <2>3, <2>4, <2>5, ApplyFair
  <2> QED BY <1>x, <2>1, <2>2, <2>6, FairStep
<1>8. ASSUME NEW at \in Times, ParentExited(at)
      PROVE  Restraint'
  <2> DEFINE e == [type |-> "ParentExited", at |-> at]
  <2>1. Step(e) BY <1>8 DEF ParentExited, Provoking
  <2>2. /\ provoked' = TRUE /\ external' = external
    BY <1>8, <1>0 DEF ParentExited, Provoking, Tally, TypeOK
  <2>3. e.type = "ParentExited" /\ e.at = at /\ event_at(e) = at /\ at \in Duration
    BY <1>t DEF event_at
  <2> HIDE DEF e
  <2>4. ASSUME NEW u \in Machine, Core(u, k, n), u.state = policy.state,
               u.state # "Exited", u.mode = policy.mode, u.config = policy.config,
               u.intervention_started = policy.intervention_started,
               u.breach_streak = policy.breach_streak,
               u.missing_streak = policy.missing_streak
        PROVE  Fair(u, dispatch(u, e), ~provoked', external', over', lost')
    <3>1. dispatch(u, e) = apply_parent_exited(u, at)
      BY <2>3 DEF dispatch
    <3> QED BY <1>0, <1>c, <2>2, <2>3, <2>4, <3>1, ExitsFair
  <2>5. (policy.last_event_at # None /\ event_at(e) < policy.last_event_at) => provoked'
    BY <2>2, <2>3 DEF Regressed
  <2>6. Good(e) BY <1>0, <2>3, <2>4, <2>5, ApplyFair
  <2> QED BY <1>x, <2>1, <2>2, <2>6, FairStep
<1>9. ASSUME NEW b \in Option(Bytes), ProcessExited(b) PROVE Restraint'
  <2> DEFINE e == [type |-> "ProcessExited", final_footprint_bytes |-> b]
             r == apply(policy, e)
  <2>1. Step(e) /\ UNCHANGED <<external, over, lost, provoked>> BY <1>9 DEF ProcessExited
  <2>2. e.type = "ProcessExited" OBVIOUS
  <2> HIDE DEF e
  <2>3. CASE policy.state = "Exited"
    <3>1. r = Result(policy, <<>>) BY <2>3 DEF apply
    <3>2. Good(e) BY <1>0, <1>c, <2>1, <3>1, DeclineFair
    <3> QED BY <1>x, <2>1, <3>2, FairStep
  <2>4. CASE policy.state # "Exited"
    <3>1. /\ r.m = [policy EXCEPT !.state = "Exited"]
          /\ Kinds(r.acts) = {"ReportExit"}
      BY <2>2, <2>4, KindsOfActions DEF apply, Result
    <3> HIDE DEF r
    <3>2. /\ r.m.mode = policy.mode /\ r.m.config = policy.config /\ r.m.state = "Exited"
          /\ r.m.intervention_started = policy.intervention_started
      BY <1>0, <3>1 DEF Machine
    <3>3. Fair(policy, r, ~provoked', external', over', lost')
      BY <3>1, <3>2 DEF Fair, Grounded, Restrained, Counted, SignalKinds
    <3>4. Good(e) BY <3>3 DEF r
    <3> QED BY <1>x, <2>1, <3>4, FairStep
  <2> QED BY <2>3, <2>4
<1> QED BY <1>1, <1>2, <1>3, <1>4, <1>5, <1>6, <1>7, <1>8, <1>9 DEF Next

LEMMA InitRestraint == Init => Restraint
<1> SUFFICES ASSUME Init PROVE Restraint OBVIOUS
<1>1. PICK c \in Configs : policy = observe(c)
                          \/ policy = enforce_with_initial_request_id(c, 1)
  BY DEF Init
<1>2. /\ policy.intervention_started = FALSE /\ policy.state \in {"Observe", "Normal"}
      /\ policy.breach_streak = 0 /\ policy.missing_streak = 0
  BY <1>1 DEF observe, enforce_with_initial_request_id, fresh
<1>3. /\ acts = <<>> /\ killAsked = FALSE /\ requests = 0 /\ external = FALSE
      /\ over = 0 /\ lost = 0 /\ provoked = FALSE
  BY DEF Init
<1>4. Kinds(acts) = {} BY <1>3, KindsOfNone
<1> QED BY <1>2, <1>3, <1>4 DEF Restraint, Counted

\* An enforcing machine begins an intervention, or asks for a checkpoint, only
\* after an input that justifies it, and an observing one asks for KILL only
\* after a terminal signal and never for TERM or a checkpoint (policy.rs,
\* apply_sample, apply_missing, apply_footprint and apply_tick), whatever the
\* thresholds, the required runs of samples and the width of the counters.
THEOREM UnprovokedRestraint == Spec => []NoUnprovokedIntervention
<1>1. Init => Restraint BY InitRestraint
<1>2. IInv /\ Restraint /\ [Next]_vars => Restraint'
  <2> SUFFICES ASSUME IInv, Restraint, [Next]_vars PROVE Restraint' OBVIOUS
  <2>1. CASE Next BY <2>1, NextRestraint
  <2>2. CASE UNCHANGED vars
    BY <2>2 DEF vars, Restraint, Counted, Kinds
  <2> QED BY <2>1, <2>2
<1>3. IInv /\ Restraint => NoUnprovokedIntervention
  BY DEF IInv, TypeOK, Restraint, NoUnprovokedIntervention
<1> QED BY <1>1, <1>2, <1>3, Invariance, PTL DEF Spec
=============================================================================
