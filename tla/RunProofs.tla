----------------------------- MODULE RunProofs -----------------------------
(***************************************************************************)
(* Theorems about `mlx-guard run`: the enforcing loop of RunRuntime and    *)
(* the intervention engine inside it, for every configuration, every       *)
(* sequence of events and any number of signals, faults and descendants.   *)
(* The first part says once what an enforcing policy machine may decide    *)
(* on an event (Decided); the rest never looks into the handlers again.    *)
(***************************************************************************)
EXTENDS RunRuntime, InterventionEngineSpec, FiniteSetTheorems, TLAPS

Shutdown == {"Terminating", "Emergency", "SupervisorError"}

\* An enforcing machine that has not exited, none of whose events is later
\* than t.
Enforcing(m, t) ==
    /\ m \in Machine /\ m.mode = "Enforce" /\ m.state \notin {"Observe", "Exited"}
    /\ m.intervention_started <=> m.state \in Shutdown
    /\ m.term_deadline # None => m.intervention_started
    /\ m.last_event_at # None => m.last_event_at <= t

\* The four kinds of decision d a machine m takes on an event of a type at t: to
\* ask for nothing, ...
Idles(m, d) ==
    /\ d.pending = <<>>
    /\ d.m.intervention_started = m.intervention_started
    /\ d.m.term_deadline = m.term_deadline
    /\ \/ d.m.state = m.state
       \/ m.state \in {"Normal", "Warning"} /\ d.m.state \in {"Normal", "Warning"}
       \/ m.intervention_started /\ d.m.state = "SupervisorError"

\* ... to ask for a checkpoint, ...
Requests(m, type, d) ==
    /\ type \in {"Sample", "Tick"} /\ m.state \in {"Normal", "Warning"}
    /\ d.m.state = "CheckpointRequested"
    /\ \E a : /\ d.pending = <<a>>
              /\ a.kind = "RequestCheckpoint" /\ a.request_id \in RequestId

\* ... to begin the shutdown with a TERM or a forwarded signal, ...
Asks(m, type, disposition) ==
    \/ disposition = "SkippedRootExited" /\ type = "RootExited"
    \/ disposition = "SkippedParentExited" /\ type = "ParentExited"
    \/ disposition = "SkippedObservationFailure" /\ type = "Sample"
    \/ disposition = "SkippedSupervisorFailure" /\ type = "SupervisorFault"
    \/ disposition = "SkippedNotNegotiated" /\ m.config.checkpoint_timeout = None
    \/ /\ m.state = "CheckpointRequested"
       /\ \/ disposition = "TimedOut" /\ type = "Tick"
          \/ disposition = "AcknowledgedUnverifiedDurability" /\ type = "CheckpointAck"
          \/ disposition = "SkippedCheckpointFailure" /\ type = "ActuationFailed"

Opens(m, type, a) ==
    \/ a.kind = "ForwardSignal" /\ type = "ExternalSignal"
    \/ a.kind = "SendTerm" /\ Asks(m, type, a.checkpoint)

Begins(m, type, t, d) ==
    /\ ~m.intervention_started
    /\ d.m.state \in {"Terminating", "SupervisorError"}
    /\ d.m.term_deadline = saturating_add(t, m.config.term_grace)
    /\ \E a : d.pending = <<a>> /\ Opens(m, type, a)

\* ... or to send KILL.
Kills(m, type, t, d) ==
    /\ d.pending = <<SendKill>>
    /\ d.m.state = "Emergency" /\ d.m.term_deadline = m.term_deadline
    /\ \/ type = "Sample" /\ ~m.intervention_started
       \/ type = "Tick" /\ m.term_deadline # None /\ m.term_deadline <= t
       \/ type = "ExternalSignal" /\ m.intervention_started

Decided(m, type, t, d) ==
    /\ Enforcing(d.m, t) /\ d.m.config = m.config
    /\ Idles(m, d) \/ Requests(m, type, d) \/ Begins(m, type, t, d) \/ Kills(m, type, t, d)

\* The decision that a result r of a handler amounts to.
Decision(r) == [m |-> r.m, pending |-> actuations(r.acts)]

-----------------------------------------------------------------------------
(* The actuations in the lists of up to three actions that apply returns.  *)

LEMMA NoActuation ==
    ASSUME NEW acts, \A i \in DOMAIN acts : ~IsActuation(acts[i])
    PROVE  actuations(acts) = <<>>
<1> DEFINE kept == {i \in DOMAIN acts : IsActuation(acts[i])}
           nth(n) == CHOOSE i \in kept : Cardinality({j \in kept : j <= i}) = n
<1>1. kept = {} OBVIOUS
<1>2. Cardinality(kept) = 0 BY <1>1, FS_EmptySet
<1>3. actuations(acts) = [n \in 1 .. Cardinality(kept) |-> acts[nth(n)]]
  BY DEF actuations
<1> HIDE DEF kept, nth
<1> QED BY <1>2, <1>3

LEMMA OneActuation ==
    ASSUME NEW acts, NEW k \in DOMAIN acts, IsActuation(acts[k]), k \in Nat,
           \A i \in DOMAIN acts : i # k => ~IsActuation(acts[i])
    PROVE  actuations(acts) = <<acts[k]>>
<1> DEFINE kept == {i \in DOMAIN acts : IsActuation(acts[i])}
           nth(n) == CHOOSE i \in kept : Cardinality({j \in kept : j <= i}) = n
<1>1. kept = {k} OBVIOUS
<1>2. Cardinality({k}) = 1 BY FS_Singleton
<1>3. {j \in {k} : j <= k} = {k} OBVIOUS
<1>4. nth(1) = k BY <1>1, <1>2, <1>3
<1>5. Cardinality(kept) = 1 BY <1>1, <1>2
<1>6. actuations(acts) = [n \in 1 .. Cardinality(kept) |-> acts[nth(n)]]
  BY DEF actuations
<1> HIDE DEF kept, nth
<1>7. 1 .. 1 = {1} OBVIOUS
<1>8. actuations(acts) = [n \in {1} |-> acts[nth(n)]] BY <1>5, <1>6, <1>7
<1>9. [n \in {1} |-> acts[nth(n)]] = [n \in {1} |-> acts[k]] BY <1>4
<1> QED BY <1>8, <1>9

\* Which actions reach the platform.
LEMMA ActuationKinds ==
    ASSUME NEW a
    PROVE  /\ a.kind = "RequestCheckpoint" => actuation_for(a) = "Checkpoint"
           /\ a.kind = "SendTerm" => actuation_for(a) = "Term"
           /\ a.kind = "SendKill" => actuation_for(a) = "Kill"
           /\ a.kind = "ForwardSignal" => actuation_for(a) = "ForwardSignal"
           /\ IsActuation(a) <=> a.kind \in {"RequestCheckpoint", "SendTerm", "SendKill",
                                             "ForwardSignal"}
<1>1. /\ a.kind = "RequestCheckpoint" => actuation_for(a) = "Checkpoint"
      /\ a.kind = "SendTerm" => actuation_for(a) = "Term"
      /\ a.kind = "SendKill" => actuation_for(a) = "Kill"
      /\ a.kind = "ForwardSignal" => actuation_for(a) = "ForwardSignal"
      /\ a.kind \notin {"RequestCheckpoint", "SendTerm", "SendKill", "ForwardSignal"} =>
            actuation_for(a) = None
  BY DEF actuation_for
<1>2. None \notin {"Checkpoint", "Term", "Kill", "ForwardSignal"}
  BY KindAssumption DEF ActuationKind
<1> QED BY <1>1, <1>2 DEF IsActuation

Actuating == {"RequestCheckpoint", "SendTerm", "SendKill", "ForwardSignal"}

LEMMA ActuationsOfNone == actuations(<<>>) = <<>>
BY NoActuation

LEMMA ActuationsOfOne ==
    ASSUME NEW a
    PROVE  actuations(<<a>>) = IF a.kind \in Actuating THEN <<a>> ELSE <<>>
<1>1. DOMAIN <<a>> = {1} /\ <<a>>[1] = a OBVIOUS
<1>2. IsActuation(a) <=> a.kind \in Actuating BY ActuationKinds DEF Actuating
<1>3. CASE a.kind \in Actuating BY <1>1, <1>2, <1>3, OneActuation
<1>4. CASE a.kind \notin Actuating BY <1>1, <1>2, <1>4, NoActuation
<1> QED BY <1>3, <1>4

LEMMA ActuationsOfTwo ==
    ASSUME NEW a, NEW b, a.kind \notin Actuating
    PROVE  actuations(<<a, b>>) = IF b.kind \in Actuating THEN <<b>> ELSE <<>>
<1>1. DOMAIN <<a, b>> = {1, 2} /\ <<a, b>>[1] = a /\ <<a, b>>[2] = b OBVIOUS
<1>2. /\ IsActuation(a) <=> a.kind \in Actuating
      /\ IsActuation(b) <=> b.kind \in Actuating
  BY ActuationKinds DEF Actuating
<1> DEFINE s == <<a, b>>
<1> HIDE DEF s
<1>3. DOMAIN s = {1, 2} /\ s[1] = a /\ s[2] = b BY <1>1 DEF s
<1>4. CASE b.kind \in Actuating
  <2>1. actuations(s) = <<s[2]>> BY <1>2, <1>3, <1>4, OneActuation
  <2> QED BY <1>3, <1>4, <2>1 DEF s
<1>5. CASE b.kind \notin Actuating
  <2>1. actuations(s) = <<>> BY <1>2, <1>3, <1>5, NoActuation
  <2> QED BY <1>5, <2>1 DEF s
<1> QED BY <1>4, <1>5

LEMMA ActuationsOfThree ==
    ASSUME NEW a, NEW b, NEW c, a.kind \notin Actuating, b.kind \in Actuating,
           c.kind \notin Actuating
    PROVE  actuations(<<a, b, c>>) = <<b>>
<1> DEFINE s == <<a, b, c>>
<1>1. DOMAIN s = {1, 2, 3} /\ s[1] = a /\ s[2] = b /\ s[3] = c OBVIOUS
<1>2. ~IsActuation(a) /\ IsActuation(b) /\ ~IsActuation(c)
  BY ActuationKinds DEF Actuating
<1> HIDE DEF s
<1>3. actuations(s) = <<s[2]>> BY <1>1, <1>2, OneActuation
<1> QED BY <1>1, <1>3 DEF s

-----------------------------------------------------------------------------
(* What each handler of policy.rs decides on an enforcing machine.         *)

LEMMA SaturatingAdd ==
    ASSUME NEW a \in Duration, NEW b \in Duration
    PROVE  saturating_add(a, b) \in Duration
BY WidthAssumption DEF saturating_add, Duration

LEMMA SaturatingInc == ASSUME NEW n \in Count PROVE saturating_inc(n) \in Count
BY WidthAssumption DEF saturating_inc, Count

LEMMA DurationIsNotNone == \A d \in Duration : d # None
BY NoneAssumption, WidthAssumption DEF Duration

\* A handler that keeps what the properties look at, or moves the machine
\* between its two quiet states, and asks for nothing.
LEMMA IdleDecided ==
    ASSUME NEW m, NEW t, Enforcing(m, t), NEW type, NEW r, r.m \in Machine,
           r.m.mode = m.mode, r.m.config = m.config, r.m.last_event_at = m.last_event_at,
           r.m.intervention_started = m.intervention_started,
           r.m.term_deadline = m.term_deadline,
           \/ r.m.state = m.state
           \/ m.state \in {"Normal", "Warning"} /\ r.m.state \in {"Normal", "Warning"}
           \/ m.intervention_started /\ r.m.state = "SupervisorError",
           actuations(r.acts) = <<>>
    PROVE  Decided(m, type, t, Decision(r))
<1> DEFINE d == Decision(r)
<1>1. d.m = r.m /\ d.pending = <<>> BY DEF Decision
<1> HIDE DEF d
<1>2. Idles(m, d) BY <1>1 DEF Idles
<1>3. Enforcing(d.m, t) /\ d.m.config = m.config
  BY <1>1 DEF Enforcing, Shutdown
<1> QED BY <1>2, <1>3 DEF Decided, d

\* A handler that begins the shutdown.
LEMMA BeginDecided ==
    ASSUME NEW m, NEW t \in Duration, Enforcing(m, t), ~m.intervention_started,
           NEW s \in {"Terminating", "SupervisorError"}, NEW type, NEW r, NEW a,
           r.m = begin_shutdown(m, s, t) \/ r.m = begin_shutdown(clear_request(m), s, t),
           actuations(r.acts) = <<a>>, Opens(m, type, a)
    PROVE  Decided(m, type, t, Decision(r))
<1> DEFINE d == Decision(r)
           u == saturating_add(t, m.config.term_grace)
<1>1. d.m = r.m /\ d.pending = <<a>> BY DEF Decision
<1>2. u \in Duration /\ u # None
  BY SaturatingAdd, DurationIsNotNone DEF Enforcing, Machine, PolicyConfig
<1>3. m \in Machine BY DEF Enforcing
<1>4. r.m \in {[m EXCEPT !.state = s, !.intervention_started = TRUE, !.term_deadline = u],
               [clear_request(m) EXCEPT !.state = s, !.intervention_started = TRUE,
                                        !.term_deadline = u]}
  BY <1>3 DEF begin_shutdown, clear_request, Machine
<1> HIDE DEF d, u
<1>5. /\ r.m \in Machine /\ r.m.state = s /\ r.m.intervention_started = TRUE
      /\ r.m.term_deadline = u /\ r.m.mode = m.mode /\ r.m.config = m.config
      /\ r.m.last_event_at = m.last_event_at
  <2>1. s \in PolicyState BY DEF PolicyState
  <2>2. CASE r.m = [m EXCEPT !.state = s, !.intervention_started = TRUE, !.term_deadline = u]
    BY <1>2, <1>3, <2>1, <2>2 DEF Machine, Option
  <2>3. CASE r.m = [clear_request(m) EXCEPT !.state = s, !.intervention_started = TRUE,
                                            !.term_deadline = u]
    BY <1>2, <1>3, <2>1, <2>3 DEF Machine, Option, clear_request
  <2> QED BY <1>4, <2>2, <2>3
<1>6. Enforcing(d.m, t) /\ d.m.config = m.config
  BY <1>1, <1>2, <1>5 DEF Enforcing, Shutdown
<1>7. Begins(m, type, t, d) BY <1>1, <1>5 DEF Begins, u
<1> QED BY <1>6, <1>7 DEF Decided, d

\* A handler that asks for KILL.
LEMMA KillDecided ==
    ASSUME NEW m, NEW t, Enforcing(m, t), NEW type, NEW r, r.m \in Machine,
           r.m.mode = m.mode, r.m.config = m.config, r.m.last_event_at = m.last_event_at,
           r.m.state = "Emergency", r.m.intervention_started = TRUE,
           r.m.term_deadline = m.term_deadline, actuations(r.acts) = <<SendKill>>,
           \/ type = "Sample" /\ ~m.intervention_started
           \/ type = "Tick" /\ m.term_deadline # None /\ m.term_deadline <= t
           \/ type = "ExternalSignal" /\ m.intervention_started
    PROVE  Decided(m, type, t, Decision(r))
<1> DEFINE d == Decision(r)
<1>1. d.m = r.m /\ d.pending = <<SendKill>> BY DEF Decision
<1> HIDE DEF d
<1>2. Kills(m, type, t, d) BY <1>1 DEF Kills
<1>3. Enforcing(d.m, t) /\ d.m.config = m.config BY <1>1 DEF Enforcing, Shutdown
<1> QED BY <1>2, <1>3 DEF Decided, d

LEMMA DeclineDecided ==
    ASSUME NEW m, NEW t, Enforcing(m, t), NEW type
    PROVE  Decided(m, type, t, Decision(Result(m, <<>>)))
<1>1. Result(m, <<>>).m = m /\ actuations(Result(m, <<>>).acts) = <<>>
  BY ActuationsOfNone DEF Result
<1>2. m \in Machine BY DEF Enforcing
<1> DEFINE r == Result(m, <<>>)
<1> HIDE DEF r
<1>3. r.m = m /\ actuations(r.acts) = <<>> BY <1>1 DEF r
<1>4. Decided(m, type, t, Decision(r)) BY <1>2, <1>3, IdleDecided
<1> QED BY <1>4 DEF r

LEMMA ExternalSignalDecided ==
    ASSUME NEW m, NEW t \in Duration, Enforcing(m, t), NEW signal
    PROVE  Decided(m, "ExternalSignal", t, Decision(apply_external_signal(m, t, signal)))
<1> DEFINE r == apply_external_signal(m, t, signal)
<1>1. CASE m.state \in Shutdown
  <2>1. /\ r.acts = <<SendKill>>
        /\ r.m = [m EXCEPT !.state = "Emergency", !.intervention_started = TRUE]
    BY <1>1 DEF apply_external_signal, Result, Shutdown
  <2>2. actuations(r.acts) = <<SendKill>>
    BY <2>1, ActuationsOfOne DEF SendKill, Actuating
  <2> HIDE DEF r
  <2>3. /\ r.m \in Machine /\ r.m.state = "Emergency" /\ r.m.mode = m.mode
        /\ r.m.intervention_started = TRUE /\ r.m.config = m.config
        /\ r.m.last_event_at = m.last_event_at /\ r.m.term_deadline = m.term_deadline
    BY <2>1 DEF Enforcing, Machine, PolicyState
  <2>4. m.intervention_started BY <1>1 DEF Enforcing
  <2>5. Decided(m, "ExternalSignal", t, Decision(r)) BY <2>2, <2>3, <2>4, KillDecided
  <2> QED BY <2>5 DEF r
<1>2. CASE m.state \notin Shutdown
  <2>1. /\ r.acts = <<ForwardSignal(signal)>>
        /\ r.m = begin_shutdown(clear_request(m), "Terminating", t)
    BY <1>2 DEF apply_external_signal, Result, Shutdown
  <2>2. actuations(r.acts) = <<ForwardSignal(signal)>>
    BY <2>1, ActuationsOfOne DEF ForwardSignal, Actuating
  <2> HIDE DEF r
  <2>3. Opens(m, "ExternalSignal", ForwardSignal(signal)) BY DEF Opens, ForwardSignal
  <2>4. ~m.intervention_started BY <1>2 DEF Enforcing
  <2>5. Decided(m, "ExternalSignal", t, Decision(r))
    BY <2>1, <2>2, <2>3, <2>4, BeginDecided
  <2> QED BY <2>5 DEF r
<1> QED BY <1>1, <1>2

\* The handlers that begin the shutdown with TERM or decline the event.
LEMMA TermDecided ==
    ASSUME NEW m, NEW t \in Duration, Enforcing(m, t), ~m.intervention_started,
           NEW s \in {"Terminating", "SupervisorError"}, NEW type, NEW c, Asks(m, type, c),
           NEW r, r.acts = <<SendTerm(c)>>,
           r.m = begin_shutdown(m, s, t) \/ r.m = begin_shutdown(clear_request(m), s, t)
    PROVE  Decided(m, type, t, Decision(r))
<1>1. actuations(r.acts) = <<SendTerm(c)>>
  BY ActuationsOfOne DEF SendTerm, Actuating
<1>2. Opens(m, type, SendTerm(c)) BY DEF Opens, SendTerm
<1> QED BY <1>1, <1>2, BeginDecided

LEMMA RootExitedDecided ==
    ASSUME NEW m, NEW t \in Duration, Enforcing(m, t)
    PROVE  Decided(m, "RootExited", t, Decision(apply_root_exited(m, t)))
<1> DEFINE r == apply_root_exited(m, t)
<1>1. CASE m.state \notin {"Normal", "Warning", "CheckpointRequested"}
  BY <1>1, DeclineDecided DEF apply_root_exited
<1>2. CASE m.state \in {"Normal", "Warning", "CheckpointRequested"}
  <2>1. /\ r.acts = <<SendTerm("SkippedRootExited")>>
        /\ r.m = begin_shutdown(clear_request(m), "Terminating", t)
    BY <1>2 DEF apply_root_exited, Result
  <2>2. Asks(m, "RootExited", "SkippedRootExited") BY DEF Asks
  <2>3. ~m.intervention_started BY <1>2 DEF Enforcing, Shutdown
  <2> HIDE DEF r
  <2>4. Decided(m, "RootExited", t, Decision(r)) BY <2>1, <2>2, <2>3, TermDecided
  <2> QED BY <2>4 DEF r
<1> QED BY <1>1, <1>2

LEMMA ParentExitedDecided ==
    ASSUME NEW m, NEW t \in Duration, Enforcing(m, t)
    PROVE  Decided(m, "ParentExited", t, Decision(apply_parent_exited(m, t)))
<1> DEFINE r == apply_parent_exited(m, t)
<1>1. CASE m.state \notin {"Normal", "Warning"}
  BY <1>1, DeclineDecided DEF apply_parent_exited
<1>2. CASE m.state \in {"Normal", "Warning"}
  <2>1. /\ r.acts = <<SendTerm("SkippedParentExited")>>
        /\ r.m = begin_shutdown(clear_request(m), "Terminating", t)
    BY <1>2 DEF apply_parent_exited, Result
  <2>2. Asks(m, "ParentExited", "SkippedParentExited") BY DEF Asks
  <2>3. ~m.intervention_started BY <1>2 DEF Enforcing, Shutdown
  <2> HIDE DEF r
  <2>4. Decided(m, "ParentExited", t, Decision(r)) BY <2>1, <2>2, <2>3, TermDecided
  <2> QED BY <2>4 DEF r
<1> QED BY <1>1, <1>2

\* What is decided depends on a few of the machine's fields only.
LEMMA SameDecision ==
    ASSUME NEW m, NEW u, u.state = m.state, u.config = m.config,
           u.intervention_started = m.intervention_started,
           u.term_deadline = m.term_deadline, NEW type, NEW t, NEW d,
           Decided(u, type, t, d)
    PROVE  Decided(m, type, t, d)
BY DEF Decided, Idles, Requests, Begins, Kills, Opens, Asks

\* An acknowledgement that matches the outstanding request begins the shutdown.
LEMMA CheckpointAckDecided ==
    ASSUME NEW m, NEW t \in Duration, Enforcing(m, t), m.state = "CheckpointRequested"
    PROVE  /\ Decided(m, "CheckpointAck", t,
                      Decision(apply_checkpoint_ack(m, t, m.active_request_id, TRUE)))
           /\ apply_checkpoint_ack(m, t, m.active_request_id, TRUE).m.intervention_started
<1> DEFINE r == apply_checkpoint_ack(m, t, m.active_request_id, TRUE)
<1>1. /\ r.acts = <<SendTerm("AcknowledgedUnverifiedDurability")>>
      /\ r.m = begin_shutdown(clear_request(m), "Terminating", t)
  BY DEF apply_checkpoint_ack, Result
<1>2. Asks(m, "CheckpointAck", "AcknowledgedUnverifiedDurability") BY DEF Asks
<1>3. ~m.intervention_started BY DEF Enforcing, Shutdown
<1> HIDE DEF r
<1>4. Decided(m, "CheckpointAck", t, Decision(r)) BY <1>1, <1>2, <1>3, TermDecided
<1>5. r.m.intervention_started
  BY <1>1 DEF begin_shutdown, clear_request, Enforcing, Machine
<1> QED BY <1>4, <1>5 DEF r

LEMMA CheckpointFailedDecided ==
    ASSUME NEW m, NEW t \in Duration, Enforcing(m, t), m.state = "CheckpointRequested"
    PROVE  /\ Decided(m, "ActuationFailed", t,
                      Decision(apply_actuation_failed(m, t, "Checkpoint")))
           /\ apply_actuation_failed(m, t, "Checkpoint").m.intervention_started
<1> DEFINE r == apply_actuation_failed(m, t, "Checkpoint")
<1>1. /\ r.acts = <<SendTerm("SkippedCheckpointFailure")>>
      /\ r.m = begin_shutdown(clear_request(m), "Terminating", t)
  BY DEF apply_actuation_failed, Result
<1>2. Asks(m, "ActuationFailed", "SkippedCheckpointFailure") BY DEF Asks
<1>3. ~m.intervention_started BY DEF Enforcing, Shutdown
<1> HIDE DEF r
<1>4. Decided(m, "ActuationFailed", t, Decision(r)) BY <1>1, <1>2, <1>3, TermDecided
<1>5. r.m.intervention_started
  BY <1>1 DEF begin_shutdown, clear_request, Enforcing, Machine
<1> QED BY <1>4, <1>5 DEF r

\* A signal that could not be delivered is followed by KILL, a KILL that could not
\* be by the supervisor error, and neither leaves a deadline behind.
Escalates(m, t, killing, d) ==
    /\ Enforcing(d.m, t) /\ d.m.config = m.config
    /\ d.m.intervention_started /\ d.m.term_deadline = None
    /\ ~killing => d.m.state = "Emergency" /\ d.pending = <<SendKill>>
    /\ killing => d.m.state = "SupervisorError" /\ d.pending = <<>>

LEMMA SignalFailedDecided ==
    ASSUME NEW m, NEW t, Enforcing(m, t), NEW kind \in {"Term", "ForwardSignal", "Kill"}
    PROVE  Escalates(m, t, kind = "Kill", Decision(apply_actuation_failed(m, t, kind)))
<1> DEFINE r == apply_actuation_failed(m, t, kind)
           s == IF kind = "Kill" THEN "SupervisorError" ELSE "Emergency"
<1>1. /\ r.acts = IF kind = "Kill" THEN <<ReportSupervisorError(kind)>> ELSE <<SendKill>>
      /\ r.m = [clear_request(m) EXCEPT !.term_deadline = None, !.state = s,
                                        !.intervention_started = TRUE]
  BY DEF apply_actuation_failed, Result
<1>2. actuations(r.acts) = IF kind = "Kill" THEN <<>> ELSE <<SendKill>>
  <2>1. actuations(<<SendKill>>) = <<SendKill>>
    BY ActuationsOfOne DEF SendKill, Actuating
  <2>2. actuations(<<ReportSupervisorError(kind)>>) = <<>>
    BY ActuationsOfOne DEF ReportSupervisorError, Actuating
  <2> QED BY <1>1, <2>1, <2>2
<1>3. s \in Shutdown /\ s \in PolicyState BY DEF Shutdown, PolicyState
<1> DEFINE d == Decision(r)
<1>4. d.m = r.m /\ d.pending = actuations(r.acts) BY DEF Decision
<1> HIDE DEF r, s, d
<1>5. /\ r.m \in Machine /\ r.m.state = s /\ r.m.intervention_started = TRUE
      /\ r.m.term_deadline = None /\ r.m.mode = m.mode /\ r.m.config = m.config
      /\ r.m.last_event_at = m.last_event_at
  BY <1>1, <1>3 DEF Enforcing, Machine, clear_request, Option
<1>6. Enforcing(r.m, t) BY <1>3, <1>5 DEF Enforcing, Shutdown
<1>7. Escalates(m, t, kind = "Kill", d)
  BY <1>2, <1>4, <1>5, <1>6 DEF s, Escalates
<1> QED BY <1>7 DEF d, r

LEMMA SupervisorFaultDecided ==
    ASSUME NEW m, NEW t \in Duration, Enforcing(m, t)
    PROVE  /\ Decided(m, "SupervisorFault", t, Decision(apply_supervisor_fault(m, t)))
           /\ apply_supervisor_fault(m, t).m.intervention_started
<1> DEFINE r == apply_supervisor_fault(m, t)
           faulted == [clear_request(m) EXCEPT !.state = "SupervisorError"]
<1>0. m.mode # "Observe" /\ m \in Machine BY DEF Enforcing
<1>1. CASE m.intervention_started
  <2>1. r.m = faulted /\ r.acts = <<>> BY <1>0, <1>1 DEF apply_supervisor_fault, Result
  <2>2. actuations(r.acts) = <<>> BY <2>1, ActuationsOfNone
  <2> HIDE DEF r
  <2>3. /\ r.m \in Machine /\ r.m.state = "SupervisorError" /\ r.m.mode = m.mode
        /\ r.m.intervention_started = m.intervention_started /\ r.m.config = m.config
        /\ r.m.last_event_at = m.last_event_at /\ r.m.term_deadline = m.term_deadline
    BY <1>0, <2>1 DEF Machine, PolicyState, clear_request, Option
  <2>4. Decided(m, "SupervisorFault", t, Decision(r)) BY <1>1, <2>2, <2>3, IdleDecided
  <2> QED BY <1>1, <2>3, <2>4 DEF r
<1>2. CASE ~m.intervention_started
  <2>1. /\ r.m = begin_shutdown(faulted, "SupervisorError", t)
        /\ r.acts = <<SendTerm("SkippedSupervisorFailure")>>
    BY <1>0, <1>2 DEF apply_supervisor_fault, Result
  <2>2. begin_shutdown(faulted, "SupervisorError", t)
           = begin_shutdown(clear_request(m), "SupervisorError", t)
    BY <1>0 DEF begin_shutdown, clear_request, Machine
  <2>3. Asks(m, "SupervisorFault", "SkippedSupervisorFailure") BY DEF Asks
  <2> HIDE DEF r, faulted
  <2>4. Decided(m, "SupervisorFault", t, Decision(r))
    BY <1>2, <2>1, <2>2, <2>3, TermDecided
  <2>5. r.m.intervention_started
    BY <1>0, <2>1, <2>2 DEF begin_shutdown, clear_request, Machine
  <2> QED BY <2>4, <2>5 DEF r
<1> QED BY <1>1, <1>2

LEMMA MissingDecided ==
    ASSUME NEW m, NEW t \in Duration, Enforcing(m, t)
    PROVE  Decided(m, "Sample", t, Decision(apply_missing(m, t)))
<1> DEFINE r == apply_missing(m, t)
           n == saturating_inc(m.missing_streak)
           c == [m EXCEPT !.missing_streak = n]
           kept == n < m.config.max_missing_samples \/ m.state = "SupervisorError"
                   \/ m.intervention_started
<1>0. m \in Machine /\ m.mode # "Observe" BY DEF Enforcing
<1>a. n \in Count BY <1>0, SaturatingInc DEF Machine
<1>b. /\ c = [m EXCEPT !.missing_streak = saturating_inc(@)]
      /\ c.missing_streak = n
  BY <1>0 DEF Machine
<1>c. kept => r.m = c /\ r.acts = <<RecordMissing>>
  BY <1>b DEF apply_missing, Result
<1>d. ~kept => /\ r.m = begin_shutdown(c, "SupervisorError", t)
               /\ r.acts = <<RecordMissing, SendTerm("SkippedObservationFailure")>>
  BY <1>0, <1>b DEF apply_missing, Result
<1>e. c = [m EXCEPT !.missing_streak = n] OBVIOUS
<1>f. ~kept => ~m.intervention_started OBVIOUS
<1> HIDE DEF n, c, r, kept
<1>1. /\ c \in Machine /\ c.state = m.state /\ c.mode = m.mode /\ c.config = m.config
      /\ c.intervention_started = m.intervention_started
      /\ c.term_deadline = m.term_deadline /\ c.last_event_at = m.last_event_at
  BY <1>0, <1>a, <1>e DEF Machine
<1>2. CASE kept
  <2>1. actuations(r.acts) = <<>>
    BY <1>2, <1>c, ActuationsOfOne DEF RecordMissing, Actuating
  <2>2. Decided(m, "Sample", t, Decision(r)) BY <1>1, <1>2, <1>c, <2>1, IdleDecided
  <2> QED BY <2>2 DEF r
<1>3. CASE ~kept
  <2>1. actuations(r.acts) = <<SendTerm("SkippedObservationFailure")>>
    <3>1. /\ RecordMissing.kind \notin Actuating
          /\ SendTerm("SkippedObservationFailure").kind \in Actuating
      BY DEF RecordMissing, SendTerm, Actuating
    <3> QED BY <1>3, <1>d, <3>1, ActuationsOfTwo
  <2>2. Enforcing(c, t) BY <1>1 DEF Enforcing
  <2>3. Opens(c, "Sample", SendTerm("SkippedObservationFailure"))
    BY DEF Opens, SendTerm, Asks
  <2>4. Decided(c, "Sample", t, Decision(r))
    BY <1>1, <1>3, <1>d, <1>f, <2>1, <2>2, <2>3, BeginDecided
  <2>5. Decided(m, "Sample", t, Decision(r))
    BY <1>1, <2>4, SameDecision
  <2> QED BY <2>5 DEF r
<1> QED BY <1>2, <1>3

\* begin_graceful, whose one action the callers may wrap: a checkpoint request
\* when the configuration has a timeout for it, a TERM otherwise.
LEMMA GracefulDecided ==
    ASSUME NEW m, NEW t \in Duration, Enforcing(m, t), m.state \in {"Normal", "Warning"},
           NEW type \in {"Sample", "Tick"}, NEW excess, NEW r,
           r.m = begin_graceful(m, t, excess, "SkippedNotNegotiated").m,
           actuations(r.acts) = begin_graceful(m, t, excess, "SkippedNotNegotiated").acts
    PROVE  Decided(m, type, t, Decision(r))
<1> DEFINE c == "SkippedNotNegotiated"
<1>0. m \in Machine BY DEF Enforcing
<1>1. CASE m.config.checkpoint_timeout # None
  <2> DEFINE u == saturating_add(t, m.config.checkpoint_timeout)
             id == m.next_request_id
             i == IF id < MaxRequestId THEN id + 1 ELSE id
             d == Decision(r)
             a == RequestCheckpoint(id, excess, u)
  <2>1. /\ r.m = [m EXCEPT !.next_request_id = i, !.active_request_id = id,
                           !.checkpoint_deadline = u, !.state = "CheckpointRequested"]
        /\ actuations(r.acts) = <<a>>
    BY <1>1 DEF begin_graceful, Result
  <2>2. u \in Duration BY <1>0, <1>1, SaturatingAdd DEF Machine, PolicyConfig, Option
  <2>3. i \in RequestId /\ id \in RequestId BY <1>0, WidthAssumption DEF Machine, RequestId
  <2>4. d.m = r.m /\ d.pending = <<a>> BY <2>1 DEF Decision
  <2>5. a.kind = "RequestCheckpoint" /\ a.request_id = id BY DEF RequestCheckpoint
  <2> HIDE DEF u, i, d, a, id
  <2>6. /\ r.m \in Machine /\ r.m.state = "CheckpointRequested"
        /\ r.m.mode = m.mode /\ r.m.config = m.config
        /\ r.m.intervention_started = m.intervention_started
        /\ r.m.term_deadline = m.term_deadline /\ r.m.last_event_at = m.last_event_at
    BY ZenonT(60), <1>0, <2>1, <2>2, <2>3 DEF Machine, PolicyState, Option
  <2>7. Enforcing(d.m, t) /\ d.m.config = m.config
    BY <2>4, <2>6 DEF Enforcing, Shutdown
  <2>8. Requests(m, type, d) BY <2>3, <2>4, <2>5, <2>6 DEF Requests
  <2> QED BY <2>7, <2>8 DEF Decided, d
<1>2. CASE m.config.checkpoint_timeout = None
  <2>1. /\ r.m = begin_shutdown(m, "Terminating", t)
        /\ actuations(r.acts) = <<SendTerm(c)>>
    BY <1>2 DEF begin_graceful, Result
  <2>2. Opens(m, type, SendTerm(c)) BY <1>2 DEF Opens, SendTerm, Asks
  <2>3. ~m.intervention_started BY DEF Enforcing, Shutdown
  <2> QED BY <2>1, <2>2, <2>3, BeginDecided
<1> QED BY <1>1, <1>2

LEMMA GracefulActions ==
    ASSUME NEW m, NEW t, NEW excess, NEW c
    PROVE  LET g == begin_graceful(m, t, excess, c)
           IN g.acts = <<g.acts[1]>> /\ g.acts[1].kind \in Actuating
<1>1. CASE m.config.checkpoint_timeout # None
  BY <1>1 DEF begin_graceful, Result, RequestCheckpoint, Actuating
<1>2. CASE m.config.checkpoint_timeout = None
  BY <1>2 DEF begin_graceful, Result, SendTerm, Actuating
<1> QED BY <1>1, <1>2

LEMMA FootprintDecided ==
    ASSUME NEW m, NEW t \in Duration, Enforcing(m, t), ~m.intervention_started,
           NEW bytes \in Nat
    PROVE  Decided(m, "Sample", t, Decision(apply_footprint(m, t, bytes)))
<1> DEFINE r == apply_footprint(m, t, bytes)
           excess == bytes - m.config.limit_bytes
           streak == saturating_inc(m.breach_streak)
           warned == [m EXCEPT !.breach_streak = streak, !.state = "Warning"]
           g == begin_graceful(warned, t, excess, "SkippedNotNegotiated")
           c1 == bytes >= m.config.emergency_bytes
           c2 == m.state = "CheckpointRequested"
           c3 == bytes >= m.config.limit_bytes
<1>0. /\ m \in Machine
      /\ m.config.emergency_bytes \in Nat /\ m.config.limit_bytes \in Nat
      /\ m.config.warning_bytes \in Nat /\ m.config.recovery_bytes \in Nat
  BY DEF Enforcing, Machine, PolicyConfig
<1>a. m.state \in {"Normal", "Warning", "CheckpointRequested"}
  BY DEF Enforcing, Machine, PolicyState, Shutdown
<1>k. /\ RecordObservation.kind \notin Actuating /\ SendKill.kind \in Actuating
      /\ RecordOvershoot(excess).kind \notin Actuating
  BY DEF RecordObservation, SendKill, RecordOvershoot, Actuating
<1>o. actuations(<<RecordObservation>>) = <<>> BY <1>k, ActuationsOfOne
<1>1. CASE c1
  <2>1. /\ r.m = [m EXCEPT !.state = "Emergency", !.intervention_started = TRUE]
        /\ r.acts = <<RecordObservation, SendKill, RecordOvershoot(excess)>>
    BY <1>0, <1>1 DEF apply_footprint, Result
  <2>2. actuations(r.acts) = <<SendKill>> BY <1>k, <2>1, ActuationsOfThree
  <2> HIDE DEF r
  <2>3. /\ r.m \in Machine /\ r.m.state = "Emergency" /\ r.m.mode = m.mode
        /\ r.m.intervention_started = TRUE /\ r.m.config = m.config
        /\ r.m.term_deadline = m.term_deadline /\ r.m.last_event_at = m.last_event_at
    BY <1>0, <2>1 DEF Machine, PolicyState
  <2>4. Decided(m, "Sample", t, Decision(r)) BY <2>2, <2>3, KillDecided
  <2> QED BY <2>4 DEF r
<1>2. CASE ~c1 /\ c2
  <2>1. r.m = m /\ r.acts = <<RecordObservation>>
    BY <1>0, <1>2 DEF apply_footprint, Result
  <2> HIDE DEF r
  <2>2. Decided(m, "Sample", t, Decision(r)) BY <1>0, <1>o, <2>1, IdleDecided
  <2> QED BY <2>2 DEF r
<1>w. /\ warned \in Machine /\ warned.state = "Warning" /\ warned.mode = m.mode
      /\ warned.config = m.config /\ warned.last_event_at = m.last_event_at
      /\ warned.intervention_started = m.intervention_started
      /\ warned.term_deadline = m.term_deadline
  <2>1. streak \in Count BY <1>0, SaturatingInc DEF Machine
  <2>2. warned = [m EXCEPT !.breach_streak = streak, !.state = "Warning"] OBVIOUS
  <2>3. "Warning" \in PolicyState BY DEF PolicyState
  <2> HIDE DEF streak, warned
  <2> QED BY <1>0, <2>1, <2>2, <2>3 DEF Machine
<1>e. Enforcing(warned, t)
  <2> HIDE DEF warned
  <2> QED BY <1>w DEF Enforcing, Shutdown
<1>3. CASE ~c1 /\ ~c2 /\ c3 /\ streak < m.config.required_breach_samples
  <2>1. r.m = warned /\ r.acts = <<RecordObservation>>
    BY <1>0, <1>3 DEF apply_footprint, Result
  <2>2. m.state \in {"Normal", "Warning"} BY <1>3, <1>a
  <2> HIDE DEF r, warned
  <2>3. Decided(m, "Sample", t, Decision(r)) BY <1>o, <1>w, <2>1, <2>2, IdleDecided
  <2> QED BY <2>3 DEF r
<1>4. CASE ~c1 /\ ~c2 /\ c3 /\ ~(streak < m.config.required_breach_samples)
  <2>1. /\ r.m = g.m
        /\ r.acts = IF m.config.checkpoint_timeout = None
                    THEN <<RecordObservation, g.acts[1], RecordOvershoot(excess)>>
                    ELSE <<RecordObservation, g.acts[1]>>
    BY <1>0, <1>4 DEF apply_footprint, Result
  <2>2. m.state \in {"Normal", "Warning"} BY <1>4, <1>a
  <2>3. g.acts = <<g.acts[1]>> /\ g.acts[1].kind \in Actuating
    <3> HIDE DEF warned, excess
    <3> QED BY GracefulActions
  <2>4. g = begin_graceful(warned, t, excess, "SkippedNotNegotiated") OBVIOUS
  <2> HIDE DEF r, g, warned, excess
  <2>5. actuations(r.acts) = g.acts
    <3>1. actuations(<<RecordObservation, g.acts[1], RecordOvershoot(excess)>>) = <<g.acts[1]>>
      BY <1>k, <2>3, ActuationsOfThree
    <3>2. actuations(<<RecordObservation, g.acts[1]>>) = <<g.acts[1]>>
      BY <1>k, <2>3, ActuationsOfTwo
    <3> QED BY <2>1, <2>3, <3>1, <3>2
  <2>6. Decided(warned, "Sample", t, Decision(r))
    BY <1>e, <1>w, <2>1, <2>4, <2>5, GracefulDecided
  <2>7. Decided(m, "Sample", t, Decision(r))
    BY <1>w, <2>2, <2>6 DEF Decided, Idles, Requests, Begins, Kills, Opens, Asks
  <2> QED BY <2>7 DEF r
<1>5. CASE ~c1 /\ ~c2 /\ ~c3
  <2> DEFINE s == IF bytes >= m.config.warning_bytes THEN "Warning"
                  ELSE IF bytes <= m.config.recovery_bytes THEN "Normal" ELSE m.state
  <2>1. /\ r.m = [m EXCEPT !.breach_streak = 0, !.state = s]
        /\ r.acts = <<RecordObservation>>
    BY <1>0, <1>5 DEF apply_footprint, Result
  <2>2. s \in {"Normal", "Warning"} /\ m.state \in {"Normal", "Warning"}
    BY <1>5, <1>a
  <2>3. 0 \in Count BY WidthAssumption DEF Count
  <2>4. s \in PolicyState BY <2>2 DEF PolicyState
  <2> HIDE DEF r, s
  <2>5. /\ r.m \in Machine /\ r.m.state = s /\ r.m.mode = m.mode /\ r.m.config = m.config
        /\ r.m.intervention_started = m.intervention_started
        /\ r.m.term_deadline = m.term_deadline /\ r.m.last_event_at = m.last_event_at
    BY <1>0, <2>1, <2>3, <2>4 DEF Machine
  <2>6. Decided(m, "Sample", t, Decision(r)) BY <1>o, <2>1, <2>2, <2>5, IdleDecided
  <2> QED BY <2>6 DEF r
<1> QED BY <1>1, <1>2, <1>3, <1>4, <1>5

LEMMA SampleDecided ==
    ASSUME NEW m, NEW s, s.processed_at \in Duration, Enforcing(m, s.processed_at),
           s.aggregate_bytes \in Option(Nat)
    PROVE  Decided(m, "Sample", s.processed_at, Decision(apply_sample(m, s)))
<1> DEFINE r == apply_sample(m, s)
           t == s.processed_at
           p == IF m.intervention_started
                THEN saturating_inc(m.post_signal_observations)
                ELSE m.post_signal_observations
           seen == [m EXCEPT !.missing_streak = 0, !.post_signal_observations = p]
<1>0. m \in Machine /\ m.mode # "Observe" BY DEF Enforcing
<1>a. seen = [m EXCEPT !.missing_streak = 0,
                       !.post_signal_observations =
                           IF m.intervention_started THEN saturating_inc(@) ELSE @]
  BY <1>0 DEF Machine
<1>b. p \in Count BY <1>0, SaturatingInc DEF Machine
<1>c. 0 \in Count BY WidthAssumption DEF Count
<1>d. seen = [m EXCEPT !.missing_streak = 0, !.post_signal_observations = p] OBVIOUS
<1>1. ~usable(m, s) => r = apply_missing(m, t) BY DEF apply_sample
<1>2. usable(m, s) /\ m.intervention_started => r.m = seen /\ r.acts = <<RecordObservation>>
  BY <1>a DEF apply_sample, Result
<1>3. usable(m, s) /\ ~m.intervention_started =>
         r = apply_footprint(seen, t, s.aggregate_bytes)
  BY <1>0, <1>a DEF apply_sample
<1> HIDE DEF r, p, seen
<1>4. /\ seen \in Machine /\ seen.state = m.state /\ seen.mode = m.mode
      /\ seen.config = m.config /\ seen.last_event_at = m.last_event_at
      /\ seen.intervention_started = m.intervention_started
      /\ seen.term_deadline = m.term_deadline
  BY <1>0, <1>b, <1>c, <1>d DEF Machine
<1>5. CASE ~usable(m, s) BY <1>1, <1>5, MissingDecided DEF r
<1>6. CASE usable(m, s) /\ m.intervention_started
  <2>1. actuations(r.acts) = <<>>
    <3>1. RecordObservation.kind \notin Actuating BY DEF RecordObservation, Actuating
    <3> QED BY <1>2, <1>6, <3>1, ActuationsOfOne
  <2>2. Decided(m, "Sample", t, Decision(r)) BY <1>2, <1>4, <1>6, <2>1, IdleDecided
  <2> QED BY <2>2 DEF r
<1>7. CASE usable(m, s) /\ ~m.intervention_started
  <2>1. s.aggregate_bytes \in Nat BY <1>7 DEF usable, Option
  <2>2. Enforcing(seen, t) BY <1>4 DEF Enforcing
  <2>3. Decided(seen, "Sample", t, Decision(r))
    BY <1>3, <1>4, <1>7, <2>1, <2>2, FootprintDecided
  <2>4. Decided(m, "Sample", t, Decision(r)) BY <1>4, <2>3, SameDecision
  <2> QED BY <2>4 DEF r
<1> QED BY <1>5, <1>6, <1>7

LEMMA TickDecided ==
    ASSUME NEW m, NEW t \in Duration, Enforcing(m, t)
    PROVE  Decided(m, "Tick", t, Decision(apply_tick(m, t)))
<1> DEFINE r == apply_tick(m, t)
           c1 == m.state = "CheckpointRequested" /\ reached(m.checkpoint_deadline, t)
           c2 == m.state \in {"Terminating", "SupervisorError"} /\ reached(m.term_deadline, t)
           c3 == /\ ~m.intervention_started /\ m.state \in {"Normal", "Warning"}
                 /\ reached(m.config.wall_time, t)
<1>0. m \in Machine BY DEF Enforcing
<1>1. CASE c1
  <2>1. /\ r.acts = <<SendTerm("TimedOut")>>
        /\ r.m = begin_shutdown(clear_request(m), "Terminating", t)
    BY <1>1 DEF apply_tick, Result
  <2>2. Asks(m, "Tick", "TimedOut") BY <1>1 DEF Asks
  <2>3. ~m.intervention_started BY <1>1 DEF Enforcing, Shutdown
  <2> HIDE DEF r
  <2>4. Decided(m, "Tick", t, Decision(r)) BY <2>1, <2>2, <2>3, TermDecided
  <2> QED BY <2>4 DEF r
<1>2. CASE ~c1 /\ c2
  <2>1. r.acts = <<SendKill>> /\ r.m = [m EXCEPT !.state = "Emergency"]
    BY <1>2 DEF apply_tick, Result
  <2>2. actuations(r.acts) = <<SendKill>>
    BY <2>1, ActuationsOfOne DEF SendKill, Actuating
  <2>3. m.intervention_started = TRUE BY <1>0, <1>2 DEF Enforcing, reached, Machine
  <2>4. m.term_deadline # None /\ m.term_deadline <= t
    BY <1>0, <1>2, NoneAssumption DEF reached, Machine, Option, Duration
  <2> HIDE DEF r
  <2>5. /\ r.m \in Machine /\ r.m.state = "Emergency" /\ r.m.mode = m.mode
        /\ r.m.intervention_started = m.intervention_started /\ r.m.config = m.config
        /\ r.m.term_deadline = m.term_deadline /\ r.m.last_event_at = m.last_event_at
    BY <1>0, <2>1 DEF Machine, PolicyState
  <2>6. Decided(m, "Tick", t, Decision(r)) BY <2>2, <2>3, <2>4, <2>5, KillDecided
  <2> QED BY <2>6 DEF r
<1>3. CASE ~c1 /\ ~c2 /\ c3
  <2> DEFINE g == begin_graceful(m, t, 0, "SkippedNotNegotiated")
  <2>1. r = g BY <1>3 DEF apply_tick
  <2>2. g.acts = <<g.acts[1]>> /\ g.acts[1].kind \in Actuating BY GracefulActions
  <2>3. actuations(<<g.acts[1]>>) = <<g.acts[1]>>
    <3> HIDE DEF g
    <3> QED BY <2>2, ActuationsOfOne
  <2>4. actuations(r.acts) = g.acts BY <2>1, <2>2, <2>3
  <2> HIDE DEF r
  <2>5. Decided(m, "Tick", t, Decision(r)) BY <1>3, <2>1, <2>4, GracefulDecided
  <2> QED BY <2>5 DEF r
<1>4. CASE ~c1 /\ ~c2 /\ ~c3
  BY <1>4, DeclineDecided DEF apply_tick
<1> QED BY <1>1, <1>2, <1>3, <1>4

-----------------------------------------------------------------------------
(* apply and decide.                                                       *)

\* The events the loop and the engine's callers feed: every one but
\* ProcessExited, an answer about the checkpoint only while it is outstanding.
EventAt(m, e, t) ==
    \/ /\ e.type \in {"Tick", "RootExited", "ParentExited", "SupervisorFault", "ExternalSignal"}
       /\ e.at = t
    \/ e.type = "Sample" /\ e.processed_at = t /\ e.aggregate_bytes \in Option(Nat)
    \/ /\ e.type = "CheckpointAck" /\ e.at = t /\ m.state = "CheckpointRequested"
       /\ e.request_id = m.active_request_id /\ e.authenticated = TRUE
    \/ /\ e.type = "ActuationFailed" /\ e.at = t /\ m.state = "CheckpointRequested"
       /\ e.action = "Checkpoint"

\* These events begin the shutdown or find it begun.
Committing == {"CheckpointAck", "ActuationFailed", "SupervisorFault"}

LEMMA DispatchDecided ==
    ASSUME NEW m, NEW t \in Duration, Enforcing(m, t), NEW e, EventAt(m, e, t)
    PROVE  /\ Decided(m, e.type, t, Decision(dispatch(m, e)))
           /\ e.type \in Committing => dispatch(m, e).m.intervention_started
<1>1. CASE e.type = "Sample"
  <2>1. dispatch(m, e) = apply_sample(m, e) BY <1>1 DEF dispatch
  <2>2. e.processed_at = t /\ e.aggregate_bytes \in Option(Nat) BY <1>1 DEF EventAt
  <2> QED BY <1>1, <2>1, <2>2, SampleDecided DEF Committing
<1>2. CASE e.type = "Tick"
  <2>1. dispatch(m, e) = apply_tick(m, e.at) BY <1>2 DEF dispatch
  <2>2. e.at = t BY <1>2 DEF EventAt
  <2> QED BY <1>2, <2>1, <2>2, TickDecided DEF Committing
<1>3. CASE e.type = "RootExited"
  <2>1. dispatch(m, e) = apply_root_exited(m, e.at) BY <1>3 DEF dispatch
  <2>2. e.at = t BY <1>3 DEF EventAt
  <2> QED BY <1>3, <2>1, <2>2, RootExitedDecided DEF Committing
<1>4. CASE e.type = "ParentExited"
  <2>1. dispatch(m, e) = apply_parent_exited(m, e.at) BY <1>4 DEF dispatch
  <2>2. e.at = t BY <1>4 DEF EventAt
  <2> QED BY <1>4, <2>1, <2>2, ParentExitedDecided DEF Committing
<1>5. CASE e.type = "SupervisorFault"
  <2>1. dispatch(m, e) = apply_supervisor_fault(m, e.at) BY <1>5 DEF dispatch
  <2>2. e.at = t BY <1>5 DEF EventAt
  <2> QED BY <1>5, <2>1, <2>2, SupervisorFaultDecided
<1>6. CASE e.type = "ExternalSignal"
  <2>1. dispatch(m, e) = apply_external_signal(m, e.at, e.signal) BY <1>6 DEF dispatch
  <2>2. e.at = t BY <1>6 DEF EventAt
  <2> QED BY <1>6, <2>1, <2>2, ExternalSignalDecided DEF Committing
<1>7. CASE e.type = "CheckpointAck"
  <2>1. /\ e.at = t /\ m.state = "CheckpointRequested"
        /\ e.request_id = m.active_request_id /\ e.authenticated = TRUE
    BY <1>7 DEF EventAt
  <2>2. dispatch(m, e) = apply_checkpoint_ack(m, t, m.active_request_id, TRUE)
    BY <1>7, <2>1 DEF dispatch
  <2> QED BY <1>7, <2>1, <2>2, CheckpointAckDecided
<1>8. CASE e.type = "ActuationFailed"
  <2>1. e.at = t /\ m.state = "CheckpointRequested" /\ e.action = "Checkpoint"
    BY <1>8 DEF EventAt
  <2>2. dispatch(m, e) = apply_actuation_failed(m, t, "Checkpoint")
    BY <1>8, <2>1 DEF dispatch
  <2> QED BY <1>8, <2>1, <2>2, CheckpointFailedDecided
<1> QED BY <1>1, <1>2, <1>3, <1>4, <1>5, <1>6, <1>7, <1>8 DEF EventAt

\* The machine as the handlers see it, stamped with the event's time.
LEMMA Stamped ==
    ASSUME NEW m, NEW t \in Duration, Enforcing(m, t), NEW u, u = [m EXCEPT !.last_event_at = t]
    PROVE  /\ Enforcing(u, t) /\ u.state = m.state /\ u.config = m.config
           /\ u.intervention_started = m.intervention_started
           /\ u.term_deadline = m.term_deadline
           /\ u.active_request_id = m.active_request_id
<1>1. m \in Machine BY DEF Enforcing
<1>2. /\ u \in Machine /\ u.state = m.state /\ u.config = m.config /\ u.mode = m.mode
      /\ u.intervention_started = m.intervention_started
      /\ u.term_deadline = m.term_deadline /\ u.last_event_at = t
      /\ u.active_request_id = m.active_request_id
  BY <1>1 DEF Machine, Option
<1>3. t <= t BY WidthAssumption DEF Duration
<1> QED BY <1>2, <1>3 DEF Enforcing

\* An event that is not older than the last one is dispatched.
LEMMA ApplyInOrder ==
    ASSUME NEW m, NEW t \in Duration, Enforcing(m, t), NEW e, event_at(e) = t,
           e.type # "ProcessExited"
    PROVE  apply(m, e) = dispatch([m EXCEPT !.last_event_at = t], e)
<1>1. m.state # "Exited" BY DEF Enforcing
<1>2. m.last_event_at # None => ~(t < m.last_event_at)
  BY DEF Enforcing, Machine, Option, Duration
<1> QED BY <1>1, <1>2 DEF apply

LEMMA DecideDecided ==
    ASSUME NEW m, NEW t \in Duration, Enforcing(m, t), NEW e, EventAt(m, e, t)
    PROVE  /\ Decided(m, e.type, t, decide(m, e))
           /\ e.type \in Committing => decide(m, e).m.intervention_started
<1> DEFINE u == [m EXCEPT !.last_event_at = t]
           r == dispatch(u, e)
<1>1. event_at(e) = t /\ e.type # "ProcessExited" BY DEF EventAt, event_at
<1>2. apply(m, e) = r BY <1>1, ApplyInOrder
<1>3. /\ Enforcing(u, t) /\ u.state = m.state /\ u.config = m.config
      /\ u.intervention_started = m.intervention_started
      /\ u.term_deadline = m.term_deadline
      /\ u.active_request_id = m.active_request_id
  BY Stamped
<1> HIDE DEF u
<1>4. EventAt(u, e, t) BY <1>3 DEF EventAt
<1>5. /\ Decided(u, e.type, t, Decision(r))
      /\ e.type \in Committing => r.m.intervention_started
  BY <1>3, <1>4, DispatchDecided
<1>6. Decided(m, e.type, t, Decision(r)) BY <1>3, <1>5, SameDecision
<1> HIDE DEF r
<1>7. /\ decide(m, e).m = r.m /\ decide(m, e).pending = actuations(r.acts)
      /\ Decision(r).m = r.m /\ Decision(r).pending = actuations(r.acts)
  BY <1>2 DEF decide, Decision
<1>8. Decided(m, e.type, t, decide(m, e))
  BY <1>6, <1>7 DEF Decided, Idles, Requests, Begins, Kills
<1> QED BY <1>5, <1>7, <1>8

\* The rest of the loop body, once the platform has answered.
LEMMA AnsweredOutcome ==
    ASSUME NEW m, NEW t, NEW a, NEW answer \in ActuationOutcome
    PROVE  LET x == answered(m, t, <<a>>, answer) IN x.m = m /\ x.pending = <<>>
BY DEF answered

LEMMA AnsweredFailure ==
    ASSUME NEW m, NEW t \in Duration, Enforcing(m, t), NEW a, NEW answer,
           answer \notin ActuationOutcome, NEW d, d = answered(m, t, <<a>>, answer)
    PROVE  /\ (a.kind = "RequestCheckpoint" /\ m.state = "CheckpointRequested") =>
                 Decided(m, "ActuationFailed", t, d) /\ d.m.intervention_started
           /\ a.kind \in {"SendTerm", "ForwardSignal", "SendKill"} =>
                 Escalates(m, t, a.kind = "SendKill", d)
<1> DEFINE kind == actuation_for(a)
           e == [type |-> "ActuationFailed", at |-> t, action |-> kind]
           u == [m EXCEPT !.last_event_at = t]
           r == dispatch(u, e)
<1>0. /\ e.type = "ActuationFailed" /\ e.at = t /\ e.action = kind
      /\ event_at(e) = t
  BY DEF event_at
<1>1. apply(m, e) = r
  <2> HIDE DEF e, r
  <2>1. apply(m, e) = dispatch(u, e) BY <1>0, ApplyInOrder
  <2> QED BY <2>1 DEF r
<1>2. d = [m |-> apply(m, e).m, pending |-> Tail(<<a>>) \o actuations(apply(m, e).acts)]
  BY DEF answered
<1>3. /\ Enforcing(u, t) /\ u.state = m.state /\ u.config = m.config
      /\ u.intervention_started = m.intervention_started
      /\ u.term_deadline = m.term_deadline
      /\ u.active_request_id = m.active_request_id
  BY Stamped
<1>4. r = apply_actuation_failed(u, t, kind) BY <1>0 DEF dispatch
<1> DEFINE x == Decision(r)
<1>5. x.m = r.m /\ x.pending = actuations(r.acts) BY DEF Decision
<1>x. x = Decision(r) OBVIOUS
<1> HIDE DEF u, e, r, kind, x
<1>6. /\ d.m = x.m
      /\ x.pending = <<>> => d.pending = <<>>
      /\ \A b : x.pending = <<b>> => d.pending = <<b>>
  BY <1>1, <1>2, <1>5
<1>7. ASSUME a.kind = "RequestCheckpoint", m.state = "CheckpointRequested"
      PROVE  Decided(m, "ActuationFailed", t, d) /\ d.m.intervention_started
  <2>1. kind = "Checkpoint" BY <1>7, ActuationKinds DEF kind
  <2>2. Decided(u, "ActuationFailed", t, x) /\ x.m.intervention_started
    BY <1>3, <1>4, <1>5, <1>7, <1>x, <2>1, CheckpointFailedDecided
  <2>3. Decided(m, "ActuationFailed", t, x) BY <1>3, <2>2, SameDecision
  <2>4. d.pending = x.pending
    <3>1. x.pending = <<>> \/ \E b : x.pending = <<b>>
      BY <2>3 DEF Decided, Idles, Requests, Begins, Kills
    <3> QED BY <1>6, <3>1
  <2>5. Decided(m, "ActuationFailed", t, d)
    BY <1>6, <2>3, <2>4 DEF Decided, Idles, Requests, Begins, Kills
  <2> QED BY <1>6, <2>2, <2>5
<1>8. ASSUME a.kind \in {"SendTerm", "ForwardSignal", "SendKill"}
      PROVE  Escalates(m, t, a.kind = "SendKill", d)
  <2>1. /\ kind \in {"Term", "ForwardSignal", "Kill"}
        /\ kind = "Kill" <=> a.kind = "SendKill"
    BY <1>8, ActuationKinds DEF kind
  <2>2. Escalates(u, t, kind = "Kill", x)
    BY <1>3, <1>4, <1>x, <2>1, SignalFailedDecided
  <2>3. CASE kind = "Kill" BY <1>3, <1>6, <2>1, <2>2, <2>3 DEF Escalates
  <2>4. CASE kind # "Kill" BY <1>3, <1>6, <2>1, <2>2, <2>4 DEF Escalates
  <2> QED BY <2>3, <2>4
<1> QED BY <1>7, <1>8

-----------------------------------------------------------------------------
(* The invariant of the run loop.                                          *)

GroupKinds == {"SendTerm", "ForwardSignal", "SendKill"}
Ends == {"drop", "reap", "done"}
LoopPlaces == {"wait", "group", "parent", "survivors", "cleanup", "poll", "signals",
               "forward", "sample", "tick", "sleep", "grace", "finish"}

\* Of the set S of the attempts so far: ...
Signalled(S) == \E s \in S : s.kind \in GroupKinds
Reasoned(S) == \A s \in S : /\ s.reason # None
                            /\ s.kind = "RequestCheckpoint" => s.reason \in Limits
Uncounted(S) == \A s \in S : LeavesTheRunToTheCommand(s)
KillRefused(S) == \E s \in S : s.kind = "SendKill" /\ ~Ok(s)

\* ... and of the last one of their list.
Refused(sent) == sent # <<>> /\ ~Ok(sent[Len(sent)])

\* The latches before a checkpoint was asked for, ...
Untried(r) ==
    /\ r.checkpoint_status = "NotNegotiated" /\ r.checkpoint_at_ms = None
    /\ r.checkpoint_request_id = None /\ r.checkpoint_artifact = FALSE

\* ... while the answer is outstanding, ...
Asked(r) ==
    /\ r.checkpoint_status = "RequestedUnverified" /\ r.checkpoint_artifact = FALSE
    /\ r.checkpoint_request_id \in RequestId /\ r.checkpoint_reason \in Limits

\* ... and once there is something to tell as the reason of a KILL.
Explained(r) == r.shutdown_reason # None \/ r.intervention_cause # None

\* What ties the machine to the latches and to the attempts between two events.
Between(m, r, h) ==
    /\ m.state \in {"Normal", "Warning"} => Untried(r)
    /\ m.state = "CheckpointRequested" => Asked(r) /\ r.intervention_cause \in Limits
    /\ ~m.intervention_started => h.graceUntil = None
    /\ m.intervention_started => Signalled(Range(h.sent)) /\ Explained(r)
    /\ m.term_deadline # None => h.graceUntil = m.term_deadline

\* Which TERM an event of which type leads to, and what the latches say then.
Told(d, type, r) ==
    \/ d = "SkippedRootExited" /\ type = "RootExited"
    \/ d = "SkippedParentExited" /\ type = "ParentExited"
    \/ d = "SkippedObservationFailure" /\ type = "Sample"
    \/ d = "SkippedSupervisorFailure" /\ type = "SupervisorFault"
    \/ d = "TimedOut" /\ type = "Tick" /\ Asked(r) /\ r.intervention_cause \in Limits
    \/ /\ d \in {"AcknowledgedUnverifiedDurability", "SkippedCheckpointFailure"}
       /\ type \notin {"ExternalSignal", "RootExited"} /\ r.intervention_cause \in Limits

Requesting(m, r, h, type, a) ==
    /\ a.kind = "RequestCheckpoint" /\ a.request_id \in RequestId
    /\ m.state = "CheckpointRequested" /\ type \in {"Sample", "Tick"}
    /\ Untried(r) /\ r.intervention_cause \in Limits /\ h.graceUntil = None

Opening(m, r, h, type, a, t) ==
    /\ \/ a.kind = "SendTerm" /\ Told(a.checkpoint, type, r)
       \/ a.kind = "ForwardSignal" /\ type = "ExternalSignal"
    /\ m.state \in {"Terminating", "SupervisorError"}
    /\ m.term_deadline = saturating_add(t, Config.term_grace) /\ h.graceUntil = None

Killing(m, r, h, type, a, t) ==
    /\ a.kind = "SendKill" /\ m.state = "Emergency" /\ Explained(r)
    /\ m.term_deadline # None => h.graceUntil = m.term_deadline
    /\ type \in {"ExternalSignal", "RootExited"} =>
          /\ r.shutdown_reason \in {"ExternalSignal", "RootExitCleanup"}
          /\ r.shutdown_reason = "RootExitCleanup" => Refused(h.sent)
    /\ type = "Tick" => Refused(h.sent) \/ (h.graceUntil \in Duration /\ h.graceUntil <= t)

\* The same inside an event, when the platform has not yet answered a.
Underway(m, r, h, type, a, t) ==
    \/ Requesting(m, r, h, type, a)
    \/ Opening(m, r, h, type, a, t)
    \/ Killing(m, r, h, type, a, t)

RunFields ==
    {"root_outcome", "group_exists", "parent_exited", "root_exit_applied",
     "checkpoint_negotiation", "checkpoint_status", "checkpoint_request_id",
     "checkpoint_at_ms", "checkpoint_reason", "checkpoint_artifact", "intervention_started",
     "supervisor_error", "intervention_cause", "shutdown_reason", "transitions",
     "last_started_at", "failed"}
HistoryFields ==
    {"sent", "opener", "killed", "graceUntil", "hurried", "looped", "dropStruck", "dropRefused"}

RunTyped(r) ==
    /\ DOMAIN r = RunFields
    /\ r.checkpoint_status \in CheckpointStatus /\ r.checkpoint_request_id \in Option(RequestId)
    /\ r.checkpoint_at_ms \in {None, 0} /\ r.checkpoint_reason \in Option(Limits)
    /\ r.checkpoint_artifact \in BOOLEAN
    /\ r.intervention_cause \in Option(Limits) /\ r.shutdown_reason \in Option(SignalReason)
    /\ r.intervention_started \in BOOLEAN /\ r.supervisor_error \in BOOLEAN
    /\ r.last_started_at \in Duration

HistoryTyped(h) ==
    /\ DOMAIN h = HistoryFields
    /\ h.sent \in Seq(Range(h.sent)) /\ h.graceUntil \in Option(Duration)
    /\ h.looped \in BOOLEAN /\ h.dropRefused \in BOOLEAN

\* CheckpointRecordAgrees, of latches r and a worker w.
RecordAgrees(r, w) ==
    /\ r.checkpoint_status = "NotNegotiated" <=> r.checkpoint_at_ms = None
    /\ r.checkpoint_request_id # None <=>
          r.checkpoint_status \in {"RequestedUnverified", "AcknowledgedUnverifiedDurability",
                                   "TimedOut"}
    /\ r.checkpoint_artifact => r.checkpoint_status = "AcknowledgedUnverifiedDurability"
    /\ r.checkpoint_status # "NotNegotiated" => r.checkpoint_reason \in Limits
    /\ r.checkpoint_status = "AcknowledgedUnverifiedDurability" => w.answer = "Completed"

\* What the attempts and the latches say of each other, and of the grace.
Accounted(r, h) ==
    /\ Reasoned(Range(h.sent))
    /\ ~r.intervention_started => Uncounted(Range(h.sent))
    /\ KillRefused(Range(h.sent)) => r.supervisor_error
    /\ h.hurried = FALSE

-----------------------------------------------------------------------------
(* The latches after an event and after an attempt, field by field.        *)

Labelled(r, e, state) ==
    IF may_label_shutdown(e, state) /\ shutdown_reason_for(e) # None
    THEN [r EXCEPT !.shutdown_reason = shutdown_reason_for(e)] ELSE r

Acked(r, e) ==
    IF e.type = "CheckpointAck"
    THEN [r EXCEPT !.checkpoint_status = "AcknowledgedUnverifiedDurability",
                   !.checkpoint_at_ms = 0]
    ELSE r

LEMMA Latched ==
    ASSUME NEW r, DOMAIN r = RunFields, NEW e, NEW from, NEW to,
           NEW q, q = latch(r, e, from, to)
    PROVE  /\ DOMAIN q = RunFields
           /\ \A f \in RunFields \ {"intervention_cause", "transitions", "supervisor_error"} :
                 q[f] = r[f]
           /\ q.intervention_cause =
                 IF /\ r.intervention_cause = None /\ from \in {"Normal", "Warning"}
                    /\ to \in {"CheckpointRequested", "Terminating", "Emergency"}
                 THEN intervention_cause_for(e) ELSE r.intervention_cause
           /\ q.supervisor_error = (r.supervisor_error \/ (from # to /\ to = "SupervisorError"))
<1> DEFINE c == IF /\ r.intervention_cause = None /\ from \in {"Normal", "Warning"}
                   /\ to \in {"CheckpointRequested", "Terminating", "Emergency"}
                THEN intervention_cause_for(e) ELSE r.intervention_cause
           x == IF from # to /\ to = "Emergency"
                THEN r.transitions \cup {<<from, to>>} ELSE r.transitions
           b == r.supervisor_error \/ (from # to /\ to = "SupervisorError")
<1>1. q = [r EXCEPT !.intervention_cause = c, !.transitions = x, !.supervisor_error = b]
  BY DEF latch
<1> HIDE DEF c, x, b
<1>2. /\ DOMAIN q = RunFields
      /\ \A f \in RunFields \ {"intervention_cause", "transitions", "supervisor_error"} :
            q[f] = r[f]
      /\ q.intervention_cause = c /\ q.supervisor_error = b
  BY <1>1 DEF RunFields
<1> QED BY <1>2 DEF c, b

LEMMA ReasonsAreNotNone ==
    /\ None \notin SignalReason /\ None \notin Limits /\ Limits \subseteq SignalReason
    /\ None \notin CheckpointStatus \ {"NotNegotiated", "AcknowledgedUnverifiedDurability"}
BY RuntimeAssumption DEF SignalReason, Limits, CheckpointStatus

\* The events that label the shutdown, and the two that have a limit for a cause.
LEMMA EventLabels ==
    ASSUME NEW e
    PROVE  /\ shutdown_reason_for(e) \in Option({"ExternalSignal", "RootExitCleanup", "ParentExit"})
           /\ e.type = "ExternalSignal" =>
                 shutdown_reason_for(e) = "ExternalSignal" /\ \A s : may_label_shutdown(e, s)
           /\ intervention_cause_for(e) \in Option(Limits)
           /\ e.type \in {"Sample", "Tick"} => intervention_cause_for(e) \in Limits
<1>1. shutdown_reason_for(e) \in Option({"ExternalSignal", "RootExitCleanup", "ParentExit"})
  BY DEF shutdown_reason_for, Option
<1>2. e.type = "ExternalSignal" => shutdown_reason_for(e) = "ExternalSignal"
  BY DEF shutdown_reason_for
<1>3. e.type = "ExternalSignal" => \A s : may_label_shutdown(e, s)
  BY DEF may_label_shutdown
<1>4. intervention_cause_for(e) \in Option(Limits)
  BY DEF intervention_cause_for, Option, Limits
<1>5. e.type \in {"Sample", "Tick"} => intervention_cause_for(e) \in Limits
  BY DEF intervention_cause_for, Limits
<1> QED BY <1>1, <1>2, <1>3, <1>4, <1>5

\* The latches q after apply_event has labelled, acknowledged and latched.
LEMMA EventLatched ==
    ASSUME NEW r, RunTyped(r), NEW e, NEW from, NEW to,
           NEW q, q = latch(Acked(Labelled(r, e, from), e), e, from, to)
    PROVE  /\ RunTyped(q)
           /\ q.intervention_started = r.intervention_started
           /\ q.checkpoint_request_id = r.checkpoint_request_id
           /\ q.checkpoint_reason = r.checkpoint_reason
           /\ q.checkpoint_artifact = r.checkpoint_artifact
           /\ r.supervisor_error => q.supervisor_error
           /\ e.type # "CheckpointAck" => /\ q.checkpoint_status = r.checkpoint_status
                                          /\ q.checkpoint_at_ms = r.checkpoint_at_ms
           /\ e.type = "CheckpointAck" =>
                 /\ q.checkpoint_status = "AcknowledgedUnverifiedDurability"
                 /\ q.checkpoint_at_ms = 0
           /\ r.shutdown_reason # None => q.shutdown_reason # None
           /\ e.type = "ExternalSignal" => q.shutdown_reason = "ExternalSignal"
           /\ (r.intervention_cause # None \/ from \notin {"Normal", "Warning"}) =>
                 q.intervention_cause = r.intervention_cause
           /\ (/\ e.type \in {"Sample", "Tick"} /\ from \in {"Normal", "Warning"}
               /\ to \in {"CheckpointRequested", "Terminating", "Emergency"}) =>
                 q.intervention_cause \in Limits
<1> DEFINE reason == shutdown_reason_for(e)
           labels == may_label_shutdown(e, from) /\ reason # None
           x == Labelled(r, e, from)
           y == Acked(x, e)
<1>1. /\ reason \in Option({"ExternalSignal", "RootExitCleanup", "ParentExit"})
      /\ e.type = "ExternalSignal" => reason = "ExternalSignal" /\ may_label_shutdown(e, from)
  BY EventLabels
<1>2. /\ DOMAIN x = RunFields
      /\ \A f \in RunFields \ {"shutdown_reason"} : x[f] = r[f]
      /\ labels => x.shutdown_reason = reason
      /\ ~labels => x.shutdown_reason = r.shutdown_reason
  <2> HIDE DEF reason
  <2>1. x = IF labels THEN [r EXCEPT !.shutdown_reason = reason] ELSE r
    BY DEF Labelled, reason
  <2> QED BY <2>1 DEF RunTyped, RunFields
<1> HIDE DEF reason, x
<1>3. /\ DOMAIN y = RunFields
      /\ \A f \in RunFields \ {"checkpoint_status", "checkpoint_at_ms"} : y[f] = x[f]
      /\ e.type = "CheckpointAck" =>
            y.checkpoint_status = "AcknowledgedUnverifiedDurability" /\ y.checkpoint_at_ms = 0
      /\ e.type # "CheckpointAck" =>
            y.checkpoint_status = x.checkpoint_status /\ y.checkpoint_at_ms = x.checkpoint_at_ms
  BY <1>2 DEF Acked, RunFields
<1>4. q = latch(y, e, from, to) BY DEF x
<1> HIDE DEF y
<1>5. /\ DOMAIN q = RunFields
      /\ \A f \in RunFields \ {"intervention_cause", "transitions", "supervisor_error"} :
            q[f] = y[f]
      /\ q.intervention_cause =
            IF /\ y.intervention_cause = None /\ from \in {"Normal", "Warning"}
               /\ to \in {"CheckpointRequested", "Terminating", "Emergency"}
            THEN intervention_cause_for(e) ELSE y.intervention_cause
      /\ q.supervisor_error = (y.supervisor_error \/ (from # to /\ to = "SupervisorError"))
  BY <1>3, <1>4, Latched
<1>6. /\ q.intervention_started = r.intervention_started
      /\ q.checkpoint_request_id = r.checkpoint_request_id
      /\ q.checkpoint_reason = r.checkpoint_reason
      /\ q.checkpoint_artifact = r.checkpoint_artifact
      /\ q.last_started_at = r.last_started_at
      /\ q.shutdown_reason = x.shutdown_reason
      /\ q.checkpoint_status = y.checkpoint_status /\ q.checkpoint_at_ms = y.checkpoint_at_ms
      /\ x.checkpoint_status = r.checkpoint_status /\ x.checkpoint_at_ms = r.checkpoint_at_ms
      /\ y.intervention_cause = r.intervention_cause
      /\ y.supervisor_error = r.supervisor_error
  BY <1>2, <1>3, <1>5 DEF RunFields
<1>7. /\ e.type # "CheckpointAck" => /\ q.checkpoint_status = r.checkpoint_status
                                     /\ q.checkpoint_at_ms = r.checkpoint_at_ms
      /\ e.type = "CheckpointAck" =>
            /\ q.checkpoint_status = "AcknowledgedUnverifiedDurability"
            /\ q.checkpoint_at_ms = 0
  BY <1>3, <1>6
<1>8. /\ r.shutdown_reason # None => q.shutdown_reason # None
      /\ e.type = "ExternalSignal" => q.shutdown_reason = "ExternalSignal"
      /\ q.shutdown_reason \in Option(SignalReason)
  <2>1. "ExternalSignal" # None BY ReasonsAreNotNone DEF SignalReason
  <2> QED BY <1>1, <1>2, <1>6, <2>1 DEF Option, SignalReason, RunTyped
<1>9. /\ (r.intervention_cause # None \/ from \notin {"Normal", "Warning"}) =>
            q.intervention_cause = r.intervention_cause
      /\ (/\ e.type \in {"Sample", "Tick"} /\ from \in {"Normal", "Warning"}
          /\ to \in {"CheckpointRequested", "Terminating", "Emergency"}) =>
            q.intervention_cause \in Limits
      /\ q.intervention_cause \in Option(Limits)
  BY <1>5, <1>6, EventLabels DEF Option, RunTyped
<1>10. q.supervisor_error \in BOOLEAN /\ (r.supervisor_error => q.supervisor_error)
  BY <1>5, <1>6
<1>11. RunTyped(q)
  BY <1>5, <1>6, <1>7, <1>8, <1>9, <1>10 DEF RunTyped, CheckpointStatus
<1> QED BY <1>6, <1>7, <1>8, <1>9, <1>10, <1>11

-----------------------------------------------------------------------------
(* apply_event up to the first platform call.                              *)

\* The latches r that an event is applied from are those of the loop, r0, but for
\* fields the invariant says nothing of, and the artifact of an acknowledgement.
SameLatches(r0, r, e) ==
    /\ r.shutdown_reason = r0.shutdown_reason
    /\ r.intervention_cause = r0.intervention_cause
    /\ r.intervention_started = r0.intervention_started
    /\ r.supervisor_error = r0.supervisor_error
    /\ r.checkpoint_status = r0.checkpoint_status
    /\ r.checkpoint_at_ms = r0.checkpoint_at_ms
    /\ r.checkpoint_request_id = r0.checkpoint_request_id
    /\ r.checkpoint_reason = r0.checkpoint_reason
    /\ e.type # "CheckpointAck" => r.checkpoint_artifact = r0.checkpoint_artifact

\* The loop goes on with the machine and the latches, or executes one actuation.
Applied(m, q, h, type, t, d) ==
    /\ Enforcing(d.m, t) /\ d.m.config = Config
    /\ RunTyped(q)
    /\ m.intervention_started => d.m.intervention_started
    /\ d.pending = <<>> => Between(d.m, q, h)
    /\ d.pending # <<>> =>
          d.pending = <<Head(d.pending)>> /\ Underway(d.m, q, h, type, Head(d.pending), t)

LEMMA EventApplied ==
    ASSUME NEW m, NEW t \in Duration, Enforcing(m, t), m.config = Config,
           NEW e, EventAt(m, e, t), NEW d, Decided(m, e.type, t, d),
           e.type \in Committing => d.m.intervention_started,
           NEW h, NEW r0, Between(m, r0, h), NEW r, RunTyped(r), SameLatches(r0, r, e),
           NEW q, q = latch(Acked(Labelled(r, e, m.state), e), e, m.state, d.m.state)
    PROVE  Applied(m, q, h, e.type, t, d)
<1> DEFINE type == e.type
<1>1. /\ RunTyped(q)
      /\ q.checkpoint_request_id = r.checkpoint_request_id
      /\ q.checkpoint_reason = r.checkpoint_reason
      /\ q.checkpoint_artifact = r.checkpoint_artifact
      /\ type # "CheckpointAck" => /\ q.checkpoint_status = r.checkpoint_status
                                   /\ q.checkpoint_at_ms = r.checkpoint_at_ms
      /\ r.shutdown_reason # None => q.shutdown_reason # None
      /\ type = "ExternalSignal" => q.shutdown_reason = "ExternalSignal"
      /\ (r.intervention_cause # None \/ m.state \notin {"Normal", "Warning"}) =>
            q.intervention_cause = r.intervention_cause
      /\ (/\ type \in {"Sample", "Tick"} /\ m.state \in {"Normal", "Warning"}
          /\ d.m.state \in {"CheckpointRequested", "Terminating", "Emergency"}) =>
            q.intervention_cause \in Limits
  BY EventLatched
<1>2. type = "CheckpointAck" =>
          m.state = "CheckpointRequested" /\ d.m.intervention_started
  BY DEF EventAt, Committing
<1>3. /\ Enforcing(d.m, t) /\ d.m.config = Config
      /\ m.intervention_started = (m.state \in Shutdown)
      /\ d.m.intervention_started = (d.m.state \in Shutdown)
      /\ m.state \in {"Normal", "Warning", "CheckpointRequested"} \cup Shutdown
      /\ m.term_deadline # None => m.intervention_started
  BY DEF Decided, Enforcing, Machine, PolicyState, Shutdown
\* Nothing the invariant reads of the latches changes without an acknowledgement.
<1>4. type # "CheckpointAck" => (Untried(r0) => Untried(q)) /\ (Asked(r0) => Asked(q))
  BY <1>1 DEF SameLatches, Untried, Asked
<1>5. m.intervention_started => Explained(q)
  BY <1>1 DEF SameLatches, Explained, Between
<1>6. m.state = "CheckpointRequested" => q.intervention_cause \in Limits
  BY <1>1 DEF SameLatches, Between
<1> HIDE DEF type
<1>7. CASE Idles(m, d)
  <2>1. d.pending = <<>> /\ d.m.intervention_started = m.intervention_started
    BY <1>7 DEF Idles
  <2>2. d.m.state \in {"Normal", "Warning"} => Untried(q)
    <3>1. d.m.state \in {"Normal", "Warning"} =>
              m.state \in {"Normal", "Warning"} /\ type # "CheckpointAck"
      BY <1>2, <1>3, <1>7 DEF Idles, Shutdown
    <3> QED BY <1>4, <3>1 DEF Between
  <2>3. d.m.state = "CheckpointRequested" => Asked(q) /\ q.intervention_cause \in Limits
    <3>1. d.m.state = "CheckpointRequested" =>
              m.state = "CheckpointRequested" /\ type # "CheckpointAck"
      BY <1>2, <1>3, <1>7 DEF Idles, Shutdown
    <3> QED BY <1>4, <1>6, <3>1 DEF Between
  <2>4. ~d.m.intervention_started => h.graceUntil = None BY <2>1 DEF Between
  <2>5. d.m.intervention_started => Signalled(Range(h.sent)) /\ Explained(q)
    BY <1>5, <2>1 DEF Between
  <2>6. d.m.term_deadline # None => h.graceUntil = d.m.term_deadline
    BY <1>7 DEF Idles, Between
  <2>7. Between(d.m, q, h) BY <2>2, <2>3, <2>4, <2>5, <2>6 DEF Between
  <2> QED BY <1>1, <1>3, <2>1, <2>7 DEF Applied
<1>8. CASE Requests(m, type, d)
  <2>1. PICK a : /\ d.pending = <<a>>
                 /\ a.kind = "RequestCheckpoint" /\ a.request_id \in RequestId
    BY <1>8 DEF Requests
  <2>2. /\ type \in {"Sample", "Tick"} /\ m.state \in {"Normal", "Warning"}
        /\ d.m.state = "CheckpointRequested" /\ ~m.intervention_started
    BY <1>3, <1>8 DEF Requests, Shutdown
  <2>3. Untried(q) /\ q.intervention_cause \in Limits /\ h.graceUntil = None
    BY <1>1, <1>4, <2>2 DEF Between
  <2>4. Requesting(d.m, q, h, type, a) BY <2>1, <2>2, <2>3 DEF Requesting
  <2>5. d.pending # <<>> /\ d.pending = <<Head(d.pending)>> /\ Head(d.pending) = a BY <2>1
  <2> QED BY <1>1, <1>3, <2>2, <2>4, <2>5 DEF Applied, Underway, type
<1>9. CASE Begins(m, type, t, d)
  <2>1. PICK a : d.pending = <<a>> /\ Opens(m, type, a) BY <1>9 DEF Begins
  <2>2. /\ ~m.intervention_started /\ d.m.state \in {"Terminating", "SupervisorError"}
        /\ d.m.term_deadline = saturating_add(t, Config.term_grace)
    BY <1>9 DEF Begins
  <2>3. h.graceUntil = None BY <2>2 DEF Between
  <2>4. \/ a.kind = "SendTerm" /\ Told(a.checkpoint, type, q)
        \/ a.kind = "ForwardSignal" /\ type = "ExternalSignal"
    <3>1. ASSUME Asks(m, type, a.checkpoint) PROVE Told(a.checkpoint, type, q)
      <4>1. Config.checkpoint_timeout # None BY RuntimeAssumption
      <4>2. m.state = "CheckpointRequested" /\ type = "Tick" => Asked(q)
        BY <1>4 DEF Between
      <4> QED BY <1>6, <3>1, <4>1, <4>2 DEF Asks, Told
    <3> QED BY <2>1, <3>1 DEF Opens
  <2>5. Opening(d.m, q, h, type, a, t) BY <2>2, <2>3, <2>4 DEF Opening
  <2>6. d.pending # <<>> /\ d.pending = <<Head(d.pending)>> /\ Head(d.pending) = a BY <2>1
  <2> QED BY <1>1, <1>3, <2>2, <2>5, <2>6 DEF Applied, Underway, type
<1>10. CASE Kills(m, type, t, d)
  <2>1. /\ d.pending = <<SendKill>> /\ d.m.state = "Emergency"
        /\ d.m.term_deadline = m.term_deadline
        /\ \/ type = "Sample" /\ ~m.intervention_started
           \/ type = "Tick" /\ m.term_deadline # None /\ m.term_deadline <= t
           \/ type = "ExternalSignal" /\ m.intervention_started
    BY <1>10 DEF Kills
  <2>2. Explained(q)
    <3>1. CASE m.intervention_started BY <1>5, <3>1
    <3>2. CASE m.state = "CheckpointRequested"
      BY <1>6, <3>2, ReasonsAreNotNone DEF Explained
    <3>3. CASE ~m.intervention_started /\ m.state \in {"Normal", "Warning"}
      <4>1. type = "Sample" BY <1>3, <2>1, <3>3
      <4> QED BY <1>1, <2>1, <3>3, <4>1, ReasonsAreNotNone DEF Explained
    <3> QED BY <1>3, <3>1, <3>2, <3>3
  <2>3. d.m.term_deadline # None => h.graceUntil = d.m.term_deadline
    BY <2>1 DEF Between
  <2>4. type \in {"ExternalSignal", "RootExited"} => q.shutdown_reason = "ExternalSignal"
    BY <1>1, <2>1
  <2>5. type = "Tick" => h.graceUntil \in Duration /\ h.graceUntil <= t
    <3>1. m.term_deadline \in Option(Duration) BY DEF Enforcing, Machine
    <3> QED BY <2>1, <3>1 DEF Between, Option
  <2>6. SendKill.kind = "SendKill" BY DEF SendKill
  <2>7. Killing(d.m, q, h, type, SendKill, t)
    BY <2>1, <2>2, <2>3, <2>4, <2>5, <2>6 DEF Killing
  <2>8. d.pending # <<>> /\ d.pending = <<Head(d.pending)>> /\ Head(d.pending) = SendKill
    <3> HIDE DEF SendKill
    <3> QED BY <2>1
  <2>9. d.m.intervention_started BY <1>3, <2>1 DEF Shutdown
  <2> QED BY <1>1, <1>3, <2>7, <2>8, <2>9 DEF Applied, Underway, type
<1> QED BY <1>7, <1>8, <1>9, <1>10 DEF Decided, type

-----------------------------------------------------------------------------
(* One attempt: the platform answers, and the loop body of handle goes on. *)

LEMMA Appended ==
    ASSUME NEW s, s \in Seq(Range(s)), NEW x, NEW u, u = Append(s, x)
    PROVE  /\ u \in Seq(Range(u)) /\ u # <<>> /\ u[Len(u)] = x
           /\ Range(u) = Range(s) \cup {x}
<1>1. /\ Len(s) \in Nat /\ Len(u) = Len(s) + 1 /\ DOMAIN s = 1 .. Len(s)
      /\ DOMAIN u = 1 .. Len(u) /\ u # <<>> /\ u[Len(u)] = x
      /\ \A i \in 1 .. Len(s) : u[i] = s[i]
  OBVIOUS
<1>2. Range(u) = Range(s) \cup {x}
  <2>1. ASSUME NEW y \in Range(u) PROVE y \in Range(s) \cup {x}
    <3>1. PICK i \in 1 .. Len(u) : y = u[i] BY <1>1, <2>1 DEF Range
    <3>2. i = Len(u) \/ i \in 1 .. Len(s) BY <1>1, <3>1
    <3> QED BY <1>1, <3>1, <3>2 DEF Range
  <2>2. ASSUME NEW y \in Range(s) PROVE y \in Range(u)
    <3>1. PICK i \in 1 .. Len(s) : y = s[i] BY <1>1, <2>2 DEF Range
    <3>2. i \in 1 .. Len(u) /\ u[i] = y BY <1>1, <3>1
    <3> QED BY <1>1, <3>2 DEF Range
  <2>3. x \in Range(u)
    <3>1. Len(u) \in 1 .. Len(u) BY <1>1
    <3> QED BY <1>1, <3>1 DEF Range
  <2> QED BY <2>1, <2>2, <2>3
<1>3. u \in Seq(Range(u))
  <2>1. s \in Seq(Range(u)) /\ x \in Range(u)
    <3>1. \A i \in 1 .. Len(s) : s[i] \in Range(u) BY <1>1, <1>2 DEF Range
    <3>2. x \in Range(u) BY <1>2
    <3> QED BY <1>1, <3>1, <3>2
  <2> QED BY <2>1
<1> QED BY <1>1, <1>2, <1>3

\* The attempts with one more.
LEMMA OneMore ==
    ASSUME NEW S, NEW x, NEW U, U = S \cup {x}
    PROVE  /\ Signalled(U) <=> Signalled(S) \/ x.kind \in GroupKinds
           /\ Reasoned(U) <=> /\ Reasoned(S) /\ x.reason # None
                              /\ x.kind = "RequestCheckpoint" => x.reason \in Limits
           /\ Uncounted(U) <=> Uncounted(S) /\ LeavesTheRunToTheCommand(x)
           /\ KillRefused(U) <=> KillRefused(S) \/ (x.kind = "SendKill" /\ ~Ok(x))
BY DEF Signalled, Reasoned, Uncounted, KillRefused

Attempt(a, answer, r, sent) ==
    [kind |-> a.kind, signal |-> signal_number(a), answer |-> answer,
     escalation |-> Refused(sent),
     reason |-> actuation_reason(a, r.intervention_cause, r.shutdown_reason)]

\* The reason and the progress of each kind of actuation.
LEMMA Reasons ==
    ASSUME NEW a, NEW cause, NEW shutdown
    PROVE  LET why == actuation_reason(a, cause, shutdown)
           IN /\ a.kind = "RequestCheckpoint" => why = cause
              /\ a.kind = "ForwardSignal" => why = "ExternalSignal"
              /\ a.kind = "SendKill" => why = IF shutdown # None THEN shutdown ELSE cause
              /\ a.kind = "SendTerm" =>
                    /\ a.checkpoint = "SkippedRootExited" => why = "RootExitCleanup"
                    /\ a.checkpoint = "SkippedObservationFailure" => why = "ObservationFailure"
                    /\ a.checkpoint = "SkippedSupervisorFailure" => why = "SupervisorFault"
                    /\ a.checkpoint = "SkippedParentExited" => why = "ParentExit"
                    /\ a.checkpoint \in {"TimedOut", "AcknowledgedUnverifiedDurability",
                                         "SkippedCheckpointFailure"} => why = cause
BY DEF actuation_reason

LEMMA Progress ==
    ASSUME NEW a, NEW answer, NEW negotiated
    PROVE  LET p == checkpoint_progress(a, answer, negotiated)
           IN /\ p \in {"RequestedUnverified", "Cancelled", "TimedOut", None}
              /\ (a.kind = "RequestCheckpoint" /\ answer = Delivered) => p = "RequestedUnverified"
              /\ (a.kind = "RequestCheckpoint" /\ answer # Delivered) => p \in {"Cancelled", None}
              /\ (a.kind = "SendTerm" /\ a.checkpoint = "TimedOut") => p = "TimedOut"
              /\ (a.kind = "SendTerm" /\ a.checkpoint # "TimedOut") => p = None
              /\ a.kind \in {"SendKill", "ForwardSignal"} => p = None
BY DEF checkpoint_progress, Delivered, ActuationFailure

\* The latches q after one attempt.
LEMMA AttemptLatched ==
    ASSUME NEW r, RunTyped(r), NEW e, NEW a, NEW answer, NEW from, NEW to,
           from \notin {"Normal", "Warning"},
           NEW why, why = actuation_reason(a, r.intervention_cause, r.shutdown_reason),
           NEW p, p = checkpoint_progress(a, answer, r.checkpoint_negotiation = "Ready"),
           NEW q, q = latch(record_actuation(r, e, a, answer), e, from, to)
    PROVE  /\ DOMAIN q = RunFields
           /\ q.intervention_started =
                 (r.intervention_started \/ e.type \notin {"ExternalSignal", "RootExited"})
           /\ q.intervention_cause = r.intervention_cause
           /\ q.checkpoint_artifact = r.checkpoint_artifact
           /\ q.last_started_at = r.last_started_at
           /\ a.kind = "RequestCheckpoint" =>
                 q.checkpoint_reason = why /\ q.shutdown_reason = r.shutdown_reason
           /\ a.kind # "RequestCheckpoint" =>
                 q.checkpoint_reason = r.checkpoint_reason /\ q.shutdown_reason = why
           /\ (a.kind = "RequestCheckpoint" /\ answer = Delivered) =>
                 q.checkpoint_request_id = a.request_id
           /\ ~(a.kind = "RequestCheckpoint" /\ answer = Delivered) =>
                 q.checkpoint_request_id = r.checkpoint_request_id
           /\ p = None => /\ q.checkpoint_status = r.checkpoint_status
                          /\ q.checkpoint_at_ms = r.checkpoint_at_ms
           /\ p # None => q.checkpoint_status = p /\ q.checkpoint_at_ms = 0
           /\ q.supervisor_error = (r.supervisor_error \/ (from # to /\ to = "SupervisorError"))
<1> DEFINE request == a.kind = "RequestCheckpoint"
           f1 == r.intervention_started \/ ~opens_an_uncounted_shutdown(e)
           f2 == IF request THEN why ELSE r.checkpoint_reason
           f3 == IF request /\ answer = Delivered THEN a.request_id ELSE r.checkpoint_request_id
           f4 == IF request THEN r.shutdown_reason ELSE why
           f5 == IF p = None THEN r.checkpoint_status ELSE p
           f6 == IF p = None THEN r.checkpoint_at_ms ELSE 0
           x == record_actuation(r, e, a, answer)
<1>1. x = [r EXCEPT !.intervention_started = f1, !.checkpoint_reason = f2,
                    !.checkpoint_request_id = f3, !.shutdown_reason = f4,
                    !.checkpoint_status = f5, !.checkpoint_at_ms = f6]
  BY DEF record_actuation
<1>2. f1 = (r.intervention_started \/ e.type \notin {"ExternalSignal", "RootExited"})
  BY DEF opens_an_uncounted_shutdown
<1> HIDE DEF x, f1, f2, f3, f4, f5, f6
<1>3. /\ DOMAIN x = RunFields
      /\ x.intervention_started = f1 /\ x.checkpoint_reason = f2
      /\ x.checkpoint_request_id = f3 /\ x.shutdown_reason = f4
      /\ x.checkpoint_status = f5 /\ x.checkpoint_at_ms = f6
      /\ x.intervention_cause = r.intervention_cause
      /\ x.supervisor_error = r.supervisor_error
      /\ x.checkpoint_artifact = r.checkpoint_artifact
      /\ x.last_started_at = r.last_started_at
  BY <1>1 DEF RunTyped, RunFields
<1>4. /\ DOMAIN q = RunFields
      /\ \A f \in RunFields \ {"intervention_cause", "transitions", "supervisor_error"} :
            q[f] = x[f]
      /\ q.intervention_cause =
            IF /\ x.intervention_cause = None /\ from \in {"Normal", "Warning"}
               /\ to \in {"CheckpointRequested", "Terminating", "Emergency"}
            THEN intervention_cause_for(e) ELSE x.intervention_cause
      /\ q.supervisor_error = (x.supervisor_error \/ (from # to /\ to = "SupervisorError"))
  <2>1. q = latch(x, e, from, to) BY DEF x
  <2> QED BY <1>3, <2>1, Latched
<1>5. /\ q.intervention_started = f1 /\ q.checkpoint_reason = f2
      /\ q.checkpoint_request_id = f3 /\ q.shutdown_reason = f4
      /\ q.checkpoint_status = f5 /\ q.checkpoint_at_ms = f6
      /\ q.intervention_cause = r.intervention_cause
      /\ q.checkpoint_artifact = r.checkpoint_artifact
      /\ q.last_started_at = r.last_started_at
      /\ q.supervisor_error = (r.supervisor_error \/ (from # to /\ to = "SupervisorError"))
  BY <1>3, <1>4 DEF RunFields
<1>6. /\ request => q.checkpoint_reason = why /\ q.shutdown_reason = r.shutdown_reason
      /\ ~request => q.checkpoint_reason = r.checkpoint_reason /\ q.shutdown_reason = why
      /\ (request /\ answer = Delivered) => q.checkpoint_request_id = a.request_id
      /\ ~(request /\ answer = Delivered) => q.checkpoint_request_id = r.checkpoint_request_id
  BY <1>5 DEF f2, f3, f4
<1>7. /\ p = None => /\ q.checkpoint_status = r.checkpoint_status
                     /\ q.checkpoint_at_ms = r.checkpoint_at_ms
      /\ p # None => q.checkpoint_status = p /\ q.checkpoint_at_ms = 0
  BY <1>5 DEF f5, f6
<1> QED BY <1>2, <1>4, <1>5, <1>6, <1>7

\* The step of Execute: the answer to a turns the machine m, the latches r and the
\* history h into x, q and k.
Attempts(m, t, e, r, h, a, answer, x, q, k) ==
    /\ Enforcing(m, t) /\ m.config = Config /\ RunTyped(r) /\ HistoryTyped(h)
    /\ Accounted(r, h)
    /\ answer \in ActuationOutcome \cup ActuationFailure
    /\ a.kind = "RequestCheckpoint" =>
          answer \in {"CheckpointUnavailable", Delivered, "SignalFailed"}
    /\ x = answered(m, t, <<a>>, answer)
    /\ q = latch(record_actuation(r, e, a, answer), e, m.state, x.m.state)
    /\ k.sent = Append(h.sent, Attempt(a, answer, r, h.sent))
    /\ k.graceUntil = IF h.graceUntil = None /\ a.kind \in {"SendTerm", "ForwardSignal"}
                      THEN saturating_add(t, Config.term_grace) ELSE h.graceUntil
    /\ h.hurried = FALSE =>
          k.hurried = (/\ a.kind = "SendKill" /\ e.type = "Tick" /\ ~Refused(h.sent)
                       /\ t < h.graceUntil)

\* What the invariant says after it.
Attempted(m, t, e, w, x, q, k) ==
    Applied(m, q, k, e.type, t, x) /\ RecordAgrees(q, w) /\ Accounted(q, k)

LEMMA AttemptAppended ==
    ASSUME NEW m, NEW t, NEW e, NEW r, NEW h, NEW a, NEW answer, NEW x, NEW q, NEW k,
           Attempts(m, t, e, r, h, a, answer, x, q, k),
           NEW why, why = actuation_reason(a, r.intervention_cause, r.shutdown_reason)
    PROVE  /\ k.sent # <<>> /\ k.sent[Len(k.sent)].answer = answer
           /\ Signalled(Range(k.sent)) <=> Signalled(Range(h.sent)) \/ a.kind \in GroupKinds
           /\ Reasoned(Range(k.sent)) <=>
                 /\ Reasoned(Range(h.sent)) /\ why # None
                 /\ a.kind = "RequestCheckpoint" => why \in Limits
           /\ Uncounted(Range(k.sent)) <=>
                 /\ Uncounted(Range(h.sent)) /\ why \in {"ExternalSignal", "RootExitCleanup"}
                 /\ a.kind = "SendKill" /\ why = "RootExitCleanup" => Refused(h.sent)
           /\ KillRefused(Range(k.sent)) <=>
                 \/ KillRefused(Range(h.sent))
                 \/ a.kind = "SendKill" /\ answer \notin ActuationOutcome
<1> DEFINE s == Attempt(a, answer, r, h.sent)
<1>1. /\ s.kind = a.kind /\ s.answer = answer /\ s.reason = why
      /\ s.escalation <=> Refused(h.sent)
  BY DEF Attempt, Refused
<1> HIDE DEF s
<1>2. /\ k.sent # <<>> /\ k.sent[Len(k.sent)] = s
      /\ Range(k.sent) = Range(h.sent) \cup {s}
  <2>1. h.sent \in Seq(Range(h.sent)) /\ k.sent = Append(h.sent, s)
    BY DEF Attempts, HistoryTyped, s
  <2> QED BY <2>1, Appended
<1>3. Ok(s) <=> answer \in ActuationOutcome BY <1>1 DEF Ok
<1> DEFINE S == Range(h.sent)
           U == Range(k.sent)
<1> HIDE DEF S, U
<1>4. U = S \cup {s} BY <1>2 DEF S, U
<1>5. /\ Signalled(U) <=> Signalled(S) \/ s.kind \in GroupKinds
      /\ Reasoned(U) <=> /\ Reasoned(S) /\ s.reason # None
                         /\ s.kind = "RequestCheckpoint" => s.reason \in Limits
      /\ Uncounted(U) <=> Uncounted(S) /\ LeavesTheRunToTheCommand(s)
      /\ KillRefused(U) <=> KillRefused(S) \/ (s.kind = "SendKill" /\ ~Ok(s))
  BY <1>4, OneMore
<1>6. LeavesTheRunToTheCommand(s) <=>
          /\ why \in {"ExternalSignal", "RootExitCleanup"}
          /\ a.kind = "SendKill" /\ why = "RootExitCleanup" => Refused(h.sent)
  BY <1>1 DEF LeavesTheRunToTheCommand
<1> QED BY <1>1, <1>2, <1>3, <1>5, <1>6 DEF S, U

\* A checkpoint request: delivered, it is outstanding; failed, TERM follows it.
LEMMA RequestAttempted ==
    ASSUME NEW m, NEW t \in Duration, NEW e, NEW r, NEW h, NEW a, NEW answer, NEW x, NEW q,
           NEW k, NEW w, Attempts(m, t, e, r, h, a, answer, x, q, k), RecordAgrees(r, w),
           Requesting(m, r, h, e.type, a)
    PROVE  Attempted(m, t, e, w, x, q, k)
<1> DEFINE why == actuation_reason(a, r.intervention_cause, r.shutdown_reason)
           p == checkpoint_progress(a, answer, r.checkpoint_negotiation = "Ready")
<1>1. /\ a.kind = "RequestCheckpoint" /\ a.request_id \in RequestId
      /\ m.state = "CheckpointRequested" /\ e.type \in {"Sample", "Tick"}
      /\ Untried(r) /\ r.intervention_cause \in Limits /\ h.graceUntil = None
  BY DEF Requesting
<1>2. /\ Enforcing(m, t) /\ m.config = Config /\ RunTyped(r) /\ Accounted(r, h)
      /\ x = answered(m, t, <<a>>, answer)
      /\ q = latch(record_actuation(r, e, a, answer), e, m.state, x.m.state)
  BY DEF Attempts
<1>3. ~m.intervention_started /\ m.term_deadline = None
  BY <1>1, <1>2 DEF Enforcing, Shutdown
<1>4. why = r.intervention_cause BY <1>1, Reasons
<1>5. /\ answer = Delivered => p = "RequestedUnverified"
      /\ answer # Delivered => p \in {"Cancelled", None}
  BY <1>1, Progress
<1> HIDE DEF why, p
<1>6. /\ DOMAIN q = RunFields /\ q.intervention_started = TRUE
      /\ q.intervention_cause = r.intervention_cause
      /\ q.checkpoint_artifact = r.checkpoint_artifact
      /\ q.last_started_at = r.last_started_at
      /\ q.checkpoint_reason = why /\ q.shutdown_reason = r.shutdown_reason
      /\ answer = Delivered => q.checkpoint_request_id = a.request_id
      /\ answer # Delivered => q.checkpoint_request_id = r.checkpoint_request_id
      /\ p = None => /\ q.checkpoint_status = r.checkpoint_status
                     /\ q.checkpoint_at_ms = r.checkpoint_at_ms
      /\ p # None => q.checkpoint_status = p /\ q.checkpoint_at_ms = 0
      /\ q.supervisor_error =
            (r.supervisor_error \/ (m.state # x.m.state /\ x.m.state = "SupervisorError"))
  <2>1. m.state \notin {"Normal", "Warning"} BY <1>1
  <2>2. /\ DOMAIN q = RunFields
        /\ q.intervention_started =
              (r.intervention_started \/ e.type \notin {"ExternalSignal", "RootExited"})
        /\ q.intervention_cause = r.intervention_cause
        /\ q.checkpoint_artifact = r.checkpoint_artifact
        /\ q.last_started_at = r.last_started_at
        /\ a.kind = "RequestCheckpoint" =>
              q.checkpoint_reason = why /\ q.shutdown_reason = r.shutdown_reason
        /\ (a.kind = "RequestCheckpoint" /\ answer = Delivered) =>
              q.checkpoint_request_id = a.request_id
        /\ ~(a.kind = "RequestCheckpoint" /\ answer = Delivered) =>
              q.checkpoint_request_id = r.checkpoint_request_id
        /\ p = None => /\ q.checkpoint_status = r.checkpoint_status
                       /\ q.checkpoint_at_ms = r.checkpoint_at_ms
        /\ p # None => q.checkpoint_status = p /\ q.checkpoint_at_ms = 0
        /\ q.supervisor_error =
              (r.supervisor_error \/ (m.state # x.m.state /\ x.m.state = "SupervisorError"))
    BY <1>2, <2>1, AttemptLatched DEF why, p
  <2> QED BY <1>1, <2>2
<1>7. "Cancelled" # None /\ "RequestedUnverified" # None BY RuntimeAssumption
<1>8. RunTyped(q)
  BY <1>1, <1>2, <1>4, <1>5, <1>6 DEF RunTyped, Option, CheckpointStatus
<1>9. /\ KillRefused(Range(k.sent)) => q.supervisor_error
      /\ Reasoned(Range(k.sent))
  <2>1. why # None /\ why \in Limits BY <1>1, <1>4, ReasonsAreNotNone
  <2>2. /\ Reasoned(Range(h.sent)) => Reasoned(Range(k.sent))
        /\ KillRefused(Range(k.sent)) => KillRefused(Range(h.sent))
    BY <1>1, <2>1, AttemptAppended DEF why
  <2> QED BY <1>2, <1>6, <2>2 DEF Accounted
<1>10. k.graceUntil = None /\ k.hurried = FALSE
  BY <1>1, <1>2 DEF Attempts, Accounted
<1>11. Accounted(q, k) BY <1>6, <1>9, <1>10 DEF Accounted
<1>12. CASE answer = Delivered
  <2>1. answer \in ActuationOutcome BY <1>12 DEF ActuationOutcome
  <2>2. x.m = m /\ x.pending = <<>> BY <1>2, <2>1, AnsweredOutcome
  <2>3. Asked(q) BY <1>1, <1>4, <1>5, <1>6, <1>7, <1>12 DEF Asked, Untried
  <2>4. Between(m, q, k)
    BY <1>1, <1>3, <1>6, <1>10, <2>3 DEF Between
  <2>5. RecordAgrees(q, w)
    <3>1. q.checkpoint_at_ms = 0 BY <1>5, <1>6, <1>7, <1>12
    <3>2. 0 # None /\ \A i \in RequestId : i # None BY NoneAssumption DEF RequestId
    <3> QED BY <2>3, <3>1, <3>2 DEF Asked, RecordAgrees
  <2> QED BY <1>2, <1>8, <1>11, <2>2, <2>4, <2>5 DEF Applied, Attempted
<1>13. CASE answer # Delivered
  <2>1. answer \notin ActuationOutcome
    BY <1>1, <1>13 DEF Attempts, ActuationOutcome, Delivered, Missing
  <2>2. Decided(m, "ActuationFailed", t, x) /\ x.m.intervention_started
    BY <1>1, <1>2, <2>1, AnsweredFailure
  <2>3. Begins(m, "ActuationFailed", t, x)
    BY <1>3, <2>2 DEF Decided, Idles, Requests, Kills, Enforcing, Shutdown
  <2>4. PICK b : x.pending = <<b>> /\ Opens(m, "ActuationFailed", b)
    BY <2>3 DEF Begins
  <2>5. b.kind = "SendTerm" /\ b.checkpoint = "SkippedCheckpointFailure"
    <3>1. Config.checkpoint_timeout # None BY RuntimeAssumption
    <3> QED BY <1>2, <2>4, <3>1 DEF Opens, Asks
  <2>6. Told(b.checkpoint, e.type, q) BY <1>1, <1>6, <2>5 DEF Told
  <2>7. Opening(x.m, q, k, e.type, b, t)
    BY <1>2, <1>10, <2>3, <2>5, <2>6 DEF Opening, Begins
  <2>8. x.pending # <<>> /\ x.pending = <<Head(x.pending)>> /\ Head(x.pending) = b BY <2>4
  <2>9. RecordAgrees(q, w)
    <3>1. 0 # None BY NoneAssumption
    <3> QED BY <1>1, <1>4, <1>5, <1>6, <1>7, <1>13, <3>1 DEF RecordAgrees, Untried
  <2>10. Enforcing(x.m, t) /\ x.m.config = Config BY <1>2, <2>2 DEF Decided
  <2> QED BY <1>3, <1>8, <1>11, <2>7, <2>8, <2>9, <2>10 DEF Applied, Attempted, Underway
<1> QED BY <1>12, <1>13

\* A TERM or a forwarded signal: delivered, the grace runs; failed, KILL follows.
LEMMA OpeningAttempted ==
    ASSUME NEW m, NEW t \in Duration, NEW e, NEW r, NEW h, NEW a, NEW answer, NEW x, NEW q,
           NEW k, NEW w, Attempts(m, t, e, r, h, a, answer, x, q, k), RecordAgrees(r, w),
           Opening(m, r, h, e.type, a, t)
    PROVE  Attempted(m, t, e, w, x, q, k)
<1> DEFINE why == actuation_reason(a, r.intervention_cause, r.shutdown_reason)
           p == checkpoint_progress(a, answer, r.checkpoint_negotiation = "Ready")
<1>1. /\ \/ a.kind = "SendTerm" /\ Told(a.checkpoint, e.type, r)
         \/ a.kind = "ForwardSignal" /\ e.type = "ExternalSignal"
      /\ m.state \in {"Terminating", "SupervisorError"}
      /\ m.term_deadline = saturating_add(t, Config.term_grace) /\ h.graceUntil = None
  BY DEF Opening
<1>2. /\ Enforcing(m, t) /\ m.config = Config /\ RunTyped(r) /\ Accounted(r, h)
      /\ x = answered(m, t, <<a>>, answer)
      /\ q = latch(record_actuation(r, e, a, answer), e, m.state, x.m.state)
  BY DEF Attempts
<1>3. m.intervention_started BY <1>1, <1>2 DEF Enforcing, Shutdown
<1>4. /\ why \in SignalReason
      /\ e.type \in {"ExternalSignal", "RootExited"} =>
            why \in {"ExternalSignal", "RootExitCleanup"}
  BY <1>1, Reasons DEF Told, SignalReason, Limits
<1>5. /\ p \in {"TimedOut", None}
      /\ p = "TimedOut" => Asked(r)
  <2>1. "TimedOut" # None BY RuntimeAssumption
  <2> QED BY <1>1, <2>1, Progress DEF Told
<1> HIDE DEF why, p
<1>6. /\ DOMAIN q = RunFields
      /\ q.intervention_started =
            (r.intervention_started \/ e.type \notin {"ExternalSignal", "RootExited"})
      /\ q.intervention_cause = r.intervention_cause
      /\ q.checkpoint_artifact = r.checkpoint_artifact
      /\ q.last_started_at = r.last_started_at
      /\ q.checkpoint_reason = r.checkpoint_reason /\ q.shutdown_reason = why
      /\ q.checkpoint_request_id = r.checkpoint_request_id
      /\ p = None => /\ q.checkpoint_status = r.checkpoint_status
                     /\ q.checkpoint_at_ms = r.checkpoint_at_ms
      /\ p # None => q.checkpoint_status = p /\ q.checkpoint_at_ms = 0
      /\ q.supervisor_error =
            (r.supervisor_error \/ (m.state # x.m.state /\ x.m.state = "SupervisorError"))
  <2>1. m.state \notin {"Normal", "Warning"} /\ a.kind # "RequestCheckpoint" BY <1>1
  <2> QED BY <1>2, <2>1, AttemptLatched DEF why, p
<1>7. why # None BY <1>4, ReasonsAreNotNone
<1>8. RunTyped(q)
  BY <1>2, <1>4, <1>5, <1>6 DEF RunTyped, Option, CheckpointStatus
<1>9. /\ k.sent # <<>> /\ k.sent[Len(k.sent)].answer = answer
      /\ Signalled(Range(k.sent)) /\ Reasoned(Range(k.sent))
      /\ KillRefused(Range(k.sent)) => q.supervisor_error
      /\ ~q.intervention_started => Uncounted(Range(k.sent))
  <2>1. a.kind \in GroupKinds /\ a.kind \notin {"RequestCheckpoint", "SendKill"}
    BY <1>1 DEF GroupKinds
  <2>2. /\ k.sent # <<>> /\ k.sent[Len(k.sent)].answer = answer
        /\ Signalled(Range(k.sent))
        /\ Reasoned(Range(h.sent)) => Reasoned(Range(k.sent))
        /\ KillRefused(Range(k.sent)) => KillRefused(Range(h.sent))
        /\ (/\ Uncounted(Range(h.sent))
            /\ why \in {"ExternalSignal", "RootExitCleanup"}) => Uncounted(Range(k.sent))
    BY <1>7, <2>1, AttemptAppended DEF why
  <2> QED BY <1>2, <1>4, <1>6, <2>2 DEF Accounted
<1>10. k.graceUntil = m.term_deadline /\ k.hurried = FALSE
  BY <1>1, <1>2 DEF Attempts, Accounted
<1>11. Accounted(q, k) BY <1>9, <1>10 DEF Accounted
<1>12. RecordAgrees(q, w)
  <2>1. 0 # None /\ \A i \in RequestId : i # None BY NoneAssumption DEF RequestId
  <2>2. CASE p = None BY <1>6, <2>2 DEF RecordAgrees
  <2>3. CASE p = "TimedOut" /\ p # None
    BY <1>5, <1>6, <2>1, <2>3 DEF RecordAgrees, Asked
  <2> QED BY <1>5, <2>2, <2>3
<1>13. Explained(q) BY <1>6, <1>7 DEF Explained
<1>14. CASE answer \in ActuationOutcome
  <2>1. x.m = m /\ x.pending = <<>> BY <1>2, <1>14, AnsweredOutcome
  <2>2. Between(m, q, k) BY <1>1, <1>3, <1>9, <1>10, <1>13 DEF Between
  <2> QED BY <1>2, <1>8, <1>11, <1>12, <2>1, <2>2 DEF Applied, Attempted
<1>15. CASE answer \notin ActuationOutcome
  <2>1. Escalates(m, t, FALSE, x)
    <3>1. a.kind \in {"SendTerm", "ForwardSignal"} BY <1>1
    <3>2. Escalates(m, t, a.kind = "SendKill", x) BY <1>2, <1>15, <3>1, AnsweredFailure
    <3>3. (a.kind = "SendKill") = FALSE BY <3>1
    <3> QED BY <3>2, <3>3
  <2>2. /\ Enforcing(x.m, t) /\ x.m.config = Config /\ x.m.intervention_started
        /\ x.m.term_deadline = None /\ x.m.state = "Emergency" /\ x.pending = <<SendKill>>
    BY <1>2, <2>1 DEF Escalates
  <2>3. Refused(k.sent) BY <1>9, <1>15 DEF Refused, Ok
  <2>4. SendKill.kind = "SendKill" BY DEF SendKill
  <2>5. Killing(x.m, q, k, e.type, SendKill, t)
    BY <1>4, <1>6, <1>13, <2>2, <2>3, <2>4 DEF Killing
  <2>6. x.pending # <<>> /\ x.pending = <<Head(x.pending)>> /\ Head(x.pending) = SendKill BY <2>2
  <2> QED BY <1>8, <1>11, <1>12, <2>2, <2>5, <2>6 DEF Applied, Attempted, Underway
<1> QED BY <1>14, <1>15

\* KILL: a refused one leaves a supervisor error behind.
LEMMA KillAttempted ==
    ASSUME NEW m, NEW t \in Duration, NEW e, NEW r, NEW h, NEW a, NEW answer, NEW x, NEW q,
           NEW k, NEW w, Attempts(m, t, e, r, h, a, answer, x, q, k), RecordAgrees(r, w),
           Killing(m, r, h, e.type, a, t)
    PROVE  Attempted(m, t, e, w, x, q, k)
<1> DEFINE why == actuation_reason(a, r.intervention_cause, r.shutdown_reason)
           p == checkpoint_progress(a, answer, r.checkpoint_negotiation = "Ready")
<1>1. /\ a.kind = "SendKill" /\ m.state = "Emergency" /\ Explained(r)
      /\ m.term_deadline # None => h.graceUntil = m.term_deadline
      /\ e.type \in {"ExternalSignal", "RootExited"} =>
            /\ r.shutdown_reason \in {"ExternalSignal", "RootExitCleanup"}
            /\ r.shutdown_reason = "RootExitCleanup" => Refused(h.sent)
      /\ e.type = "Tick" => Refused(h.sent) \/ (h.graceUntil \in Duration /\ h.graceUntil <= t)
  BY DEF Killing
<1>2. /\ Enforcing(m, t) /\ m.config = Config /\ RunTyped(r) /\ Accounted(r, h)
      /\ x = answered(m, t, <<a>>, answer)
      /\ q = latch(record_actuation(r, e, a, answer), e, m.state, x.m.state)
  BY DEF Attempts
<1>3. m.intervention_started BY <1>1, <1>2 DEF Enforcing, Shutdown
<1>4. /\ why \in SignalReason
      /\ e.type \in {"ExternalSignal", "RootExited"} =>
            /\ why \in {"ExternalSignal", "RootExitCleanup"}
            /\ why = "RootExitCleanup" => Refused(h.sent)
  <2>1. why = IF r.shutdown_reason # None THEN r.shutdown_reason ELSE r.intervention_cause
    BY <1>1, Reasons
  <2>2. {"ExternalSignal", "RootExitCleanup"} \subseteq SignalReason BY DEF SignalReason
  <2>3. r.shutdown_reason \in Option(SignalReason) /\ r.intervention_cause \in Option(Limits)
    BY <1>2 DEF RunTyped
  <2> HIDE DEF why
  <2> QED BY <1>1, <2>1, <2>2, <2>3, ReasonsAreNotNone DEF Option, Explained
<1>5. p = None BY <1>1, Progress
<1> HIDE DEF why, p
<1>6. /\ DOMAIN q = RunFields
      /\ q.intervention_started =
            (r.intervention_started \/ e.type \notin {"ExternalSignal", "RootExited"})
      /\ q.intervention_cause = r.intervention_cause
      /\ q.checkpoint_artifact = r.checkpoint_artifact
      /\ q.last_started_at = r.last_started_at
      /\ q.checkpoint_reason = r.checkpoint_reason /\ q.shutdown_reason = why
      /\ q.checkpoint_request_id = r.checkpoint_request_id
      /\ q.checkpoint_status = r.checkpoint_status /\ q.checkpoint_at_ms = r.checkpoint_at_ms
      /\ q.supervisor_error =
            (r.supervisor_error \/ (m.state # x.m.state /\ x.m.state = "SupervisorError"))
  <2>1. m.state \notin {"Normal", "Warning"} /\ a.kind # "RequestCheckpoint" BY <1>1
  <2> QED BY <1>2, <1>5, <2>1, AttemptLatched DEF why, p
<1>7. why # None BY <1>4, ReasonsAreNotNone
<1>8. RunTyped(q) BY <1>2, <1>4, <1>6 DEF RunTyped, Option
<1>9. /\ Signalled(Range(k.sent)) /\ Reasoned(Range(k.sent))
      /\ KillRefused(Range(k.sent)) => r.supervisor_error \/ answer \notin ActuationOutcome
      /\ ~q.intervention_started => Uncounted(Range(k.sent))
  <2>1. a.kind \in GroupKinds BY <1>1 DEF GroupKinds
  <2>2. /\ Signalled(Range(k.sent))
        /\ Reasoned(Range(h.sent)) => Reasoned(Range(k.sent))
        /\ KillRefused(Range(k.sent)) =>
              KillRefused(Range(h.sent)) \/ answer \notin ActuationOutcome
        /\ (/\ Uncounted(Range(h.sent))
            /\ why \in {"ExternalSignal", "RootExitCleanup"}
            /\ why = "RootExitCleanup" => Refused(h.sent)) => Uncounted(Range(k.sent))
    BY <1>1, <1>7, <2>1, AttemptAppended DEF why
  <2> QED BY <1>2, <1>4, <1>6, <2>2 DEF Accounted
<1>10. k.graceUntil = h.graceUntil /\ k.hurried = FALSE
  <2>1. k.graceUntil = h.graceUntil BY <1>1 DEF Attempts
  <2>2. h.graceUntil \in Duration /\ h.graceUntil <= t => ~(t < h.graceUntil)
    BY DEF Duration
  <2>3. k.hurried = (/\ a.kind = "SendKill" /\ e.type = "Tick" /\ ~Refused(h.sent)
                     /\ t < h.graceUntil)
    BY <1>2 DEF Attempts, Accounted
  <2> QED BY <1>1, <2>1, <2>2, <2>3
<1>11. RecordAgrees(q, w) BY <1>6 DEF RecordAgrees
<1>12. Explained(q) BY <1>6, <1>7 DEF Explained
<1>13. CASE answer \in ActuationOutcome
  <2>1. x.m = m /\ x.pending = <<>> BY <1>2, <1>13, AnsweredOutcome
  <2>2. Between(m, q, k) BY <1>1, <1>3, <1>9, <1>10, <1>12 DEF Between
  <2>3. Accounted(q, k) BY <1>6, <1>9, <1>10, <1>13 DEF Accounted
  <2> QED BY <1>2, <1>8, <1>11, <2>1, <2>2, <2>3 DEF Applied, Attempted
<1>14. CASE answer \notin ActuationOutcome
  <2>1. Escalates(m, t, TRUE, x)
    <3>1. Escalates(m, t, a.kind = "SendKill", x) BY <1>1, <1>2, <1>14, AnsweredFailure
    <3>2. (a.kind = "SendKill") = TRUE BY <1>1
    <3> QED BY <3>1, <3>2
  <2>2. /\ Enforcing(x.m, t) /\ x.m.config = Config /\ x.m.intervention_started
        /\ x.m.term_deadline = None /\ x.m.state = "SupervisorError" /\ x.pending = <<>>
    BY <1>2, <2>1 DEF Escalates
  <2>3. q.supervisor_error BY <1>1, <1>6, <2>2
  <2>4. Accounted(q, k) BY <1>9, <1>10, <2>3 DEF Accounted
  <2>5. Between(x.m, q, k) BY <1>9, <1>12, <2>2 DEF Between
  <2> QED BY <1>8, <1>11, <2>2, <2>4, <2>5 DEF Applied, Attempted
<1> QED BY <1>13, <1>14

-----------------------------------------------------------------------------
(* The inductive invariant.                                                *)

\* At place p of the loop and time t; g says whether the group exists.
LoopOK(p, t, m, c, r, h, g) ==
    p \notin Ends =>
        /\ Enforcing(m, t) /\ m.config = Config
        /\ p = "prepare" => h.sent = <<>> /\ h.looped = FALSE
        /\ p = "execute" =>
              /\ DOMAIN c = {"pending", "event", "next"}
              /\ c.pending = <<Head(c.pending)>> /\ event_at(c.event) = t
              /\ c.next \in LoopPlaces
              /\ c.next \in {"grace", "finish"} => m.intervention_started
              /\ Underway(m, r, h, c.event.type, Head(c.pending), t)
        /\ p # "execute" => Between(m, r, h)
        /\ p = "grace" => m.intervention_started
        /\ p = "finish" => m.intervention_started \/ ~g

\* The result, against what was sent.
ResultOK(p, h, x) ==
    /\ x \in Option({"Child", "PolicyIntervention", "SupervisorFailure"})
    /\ p \notin Ends => x = None
    /\ x = "Child" => Uncounted(Range(h.sent))
    /\ (x # None /\ KillRefused(Range(h.sent))) => x = "SupervisorFailure"

\* The drop of the owned process, with its members a and b.
DropOK(p, h, a, b) ==
    /\ p = "drop" /\ h.looped => Signalled(Range(h.sent)) \/ (a = "gone" /\ b = "gone")
    /\ p \notin {"reap", "done"} => h.dropStruck = FALSE
    /\ p \in {"reap", "done"} /\ ~h.dropRefused => a # "alive" /\ b # "alive"
    /\ h.looped /\ h.dropStruck => Signalled(Range(h.sent))

IInv ==
    /\ root \in MemberState /\ kid \in MemberState
    /\ pc \in Places /\ clock \in Duration /\ policy \in Machine
    /\ DOMAIN worker = {"ready", "answer"}
    /\ RunTyped(run) /\ HistoryTyped(history)
    /\ LoopOK(pc, clock, policy, call, run, history, GroupExists)
    /\ RecordAgrees(run, worker)
    /\ Accounted(run, history)
    /\ ResultOK(pc, history, result)
    /\ DropOK(pc, history, root, kid)

LEMMA NoneSent == Range(<<>>) = {}
BY DEF Range

LEMMA InitInvariant == Init => IInv
<1> SUFFICES ASSUME Init PROVE IInv OBVIOUS
<1>0. /\ Config \in PolicyConfig /\ MaxDuration \in Nat /\ MaxRequestId \in Nat \ {0}
      /\ MaxCount \in Nat
  BY RuntimeAssumption, WidthAssumption
<1>1. /\ root \in MemberState /\ kid \in MemberState /\ pc = "prepare" /\ clock \in Duration
      /\ DOMAIN worker = {"ready", "answer"} /\ result = None /\ pc \in Places
  BY <1>0 DEF Init, MemberState, Places, Duration
<1>2. /\ policy \in Machine /\ policy.mode = "Enforce" /\ policy.state = "Normal"
      /\ policy.config = Config /\ policy.intervention_started = FALSE
      /\ policy.term_deadline = None /\ policy.last_event_at = None
  <2>1. policy = fresh("Enforce", "Normal", Config, 1)
    BY DEF Init, enforce_with_initial_request_id
  <2>2. 0 \in Count /\ 1 \in RequestId BY <1>0 DEF Count, RequestId
  <2> QED BY <1>0, <2>1, <2>2 DEF fresh, Machine, PolicyState, Option
<1>3. RunTyped(run) /\ Untried(run) /\ RecordAgrees(run, worker)
  <2>1. /\ DOMAIN run = RunFields
        /\ run.checkpoint_status = "NotNegotiated" /\ run.checkpoint_request_id = None
        /\ run.checkpoint_at_ms = None /\ run.checkpoint_reason = None
        /\ run.checkpoint_artifact = FALSE /\ run.intervention_cause = None
        /\ run.shutdown_reason = None /\ run.intervention_started = FALSE
        /\ run.supervisor_error = FALSE /\ run.last_started_at = 0
    BY DEF Init, RunFields
  <2>2. 0 \in Duration BY <1>0 DEF Duration
  <2> QED BY <2>1, <2>2 DEF RunTyped, Untried, RecordAgrees, Option, CheckpointStatus
<1>4. /\ HistoryTyped(history) /\ history.sent = <<>> /\ history.graceUntil = None
      /\ history.hurried = FALSE /\ history.looped = FALSE /\ history.dropStruck = FALSE
  <2>1. /\ DOMAIN history = HistoryFields /\ history.sent = <<>> /\ history.graceUntil = None
        /\ history.hurried = FALSE /\ history.looped = FALSE /\ history.dropStruck = FALSE
        /\ history.dropRefused = FALSE
    BY DEF Init, HistoryFields
  <2>2. <<>> \in Seq(Range(<<>>)) OBVIOUS
  <2>3. history.sent \in Seq(Range(history.sent)) BY <2>1, <2>2
  <2> QED BY <2>1, <2>3 DEF HistoryTyped, Option
<1>5. LoopOK(pc, clock, policy, call, run, history, GroupExists)
  <2>1. Enforcing(policy, clock) BY <1>2 DEF Enforcing, Shutdown
  <2>2. Between(policy, run, history) BY <1>2, <1>3, <1>4 DEF Between
  <2> QED BY <1>1, <1>2, <1>4, <2>1, <2>2 DEF LoopOK
<1>6. Accounted(run, history)
  BY <1>4, NoneSent DEF Accounted, Reasoned, Uncounted, KillRefused
<1>7. ResultOK(pc, history, result)
  BY <1>1, <1>4, NoneSent DEF ResultOK, Uncounted, KillRefused, Option
<1>8. DropOK(pc, history, root, kid) BY <1>1, <1>4 DEF DropOK
<1> QED BY <1>1, <1>2, <1>3, <1>4, <1>5, <1>6, <1>7, <1>8 DEF IInv

-----------------------------------------------------------------------------
(* The kinds of step of the loop.                                          *)

LEMMA EnforcingLater ==
    ASSUME NEW m, NEW t \in Duration, NEW u \in Duration, t <= u, Enforcing(m, t)
    PROVE  Enforcing(m, u)
<1>1. m.last_event_at \in Option(Duration) BY DEF Enforcing, Machine
<1>2. m.last_event_at # None => m.last_event_at <= u
  BY <1>1 DEF Enforcing, Option, Duration
<1> QED BY <1>2 DEF Enforcing

\* An event applied between two places of the loop.
LEMMA ApplyStep ==
    ASSUME IInv, pc \in LoopPlaces, NEW r, NEW e, NEW next \in LoopPlaces,
           ApplyFrom(r, e, next), NEW t \in Duration, clock' = t, clock <= t,
           EventAt(policy, e, t), RunTyped(r), SameLatches(run, r, e),
           e.type = "CheckpointAck" => worker.answer = "Completed",
           next \in {"grace", "finish"} =>
               policy.intervention_started \/ e.type \in Committing,
           UNCHANGED <<root, kid, worker, result, history>>
    PROVE  IInv'
<1> DEFINE d == decide(policy, e)
           q == latch(Acked(Labelled(r, e, policy.state), e), e, policy.state, d.m.state)
<1>1. pc \notin Ends /\ pc # "execute" BY DEF LoopPlaces, Ends
<1>2. /\ Enforcing(policy, t) /\ policy.config = Config
      /\ Between(policy, run, history)
  BY <1>1, EnforcingLater DEF IInv, LoopOK
<1>3. /\ policy' = d.m /\ run' = q
      /\ d.pending = <<>> => pc' = next /\ call' = NoCall
      /\ d.pending # <<>> =>
            pc' = "execute" /\ call' = [pending |-> d.pending, event |-> e, next |-> next]
  BY DEF ApplyFrom, Acked, Labelled
<1>4. /\ Decided(policy, e.type, t, d)
      /\ e.type \in Committing => d.m.intervention_started
  BY <1>2, DecideDecided
<1> HIDE DEF d
<1>5. Applied(policy, q, history, e.type, t, d) BY <1>2, <1>4, EventApplied
<1>6. /\ q.intervention_started = r.intervention_started
      /\ q.checkpoint_request_id = r.checkpoint_request_id
      /\ q.checkpoint_reason = r.checkpoint_reason
      /\ q.checkpoint_artifact = r.checkpoint_artifact
      /\ r.supervisor_error => q.supervisor_error
      /\ e.type # "CheckpointAck" => /\ q.checkpoint_status = r.checkpoint_status
                                     /\ q.checkpoint_at_ms = r.checkpoint_at_ms
      /\ e.type = "CheckpointAck" =>
            /\ q.checkpoint_status = "AcknowledgedUnverifiedDurability"
            /\ q.checkpoint_at_ms = 0
  BY EventLatched
<1> HIDE DEF q
<1>7. RunTyped(q) /\ d.m \in Machine BY <1>5 DEF Applied, Enforcing
<1>8. RecordAgrees(q, worker)
  <2>1. CASE e.type # "CheckpointAck"
    <3>1. RecordAgrees(run, worker) BY DEF IInv
    <3> QED BY <1>6, <2>1, <3>1 DEF RecordAgrees, SameLatches
  <2>2. CASE e.type = "CheckpointAck"
    <3>1. Asked(run) BY <1>2, <2>2 DEF EventAt, Between
    <3>2. 0 # None /\ \A i \in RequestId : i # None BY NoneAssumption DEF RequestId
    <3> QED BY <1>6, <2>2, <3>1, <3>2 DEF RecordAgrees, SameLatches, Asked
  <2> QED BY <2>1, <2>2
<1>9. Accounted(q, history) BY <1>6 DEF IInv, Accounted, SameLatches
<1>10. event_at(e) = t BY DEF EventAt, event_at
<1>11. pc' \in Places /\ pc' \notin Ends /\ pc' # "prepare"
  BY <1>3 DEF Places, LoopPlaces, Ends
<1>12. LoopOK(pc', t, d.m, call', q, history, GroupExists')
  <2>1. CASE d.pending = <<>>
    <3>1. pc' = next BY <1>3, <2>1
    <3>2. next \in {"grace", "finish"} => d.m.intervention_started
      BY <1>4, <1>5 DEF Applied
    <3>3. next \notin {"execute", "prepare"} BY DEF LoopPlaces
    <3> QED BY <1>5, <2>1, <3>1, <3>2, <3>3 DEF LoopOK, Applied
  <2>2. CASE d.pending # <<>>
    <3>1. pc' = "execute" /\ call' = [pending |-> d.pending, event |-> e, next |-> next]
      BY <1>3, <2>2
    <3>2. /\ DOMAIN call' = {"pending", "event", "next"}
          /\ call'.pending = d.pending /\ call'.event = e /\ call'.next = next
      BY <3>1
    <3>3. next \in {"grace", "finish"} => d.m.intervention_started
      BY <1>4, <1>5 DEF Applied
    <3> QED BY <1>5, <1>10, <2>2, <3>1, <3>2, <3>3 DEF LoopOK, Applied
  <2> QED BY <2>1, <2>2
<1>13. ResultOK(pc', history, result) BY <1>1, <1>11 DEF IInv, ResultOK
<1>14. DropOK(pc', history, root, kid)
  BY <1>1, <1>11 DEF IInv, DropOK, Ends
<1>15. root' = root /\ kid' = kid /\ worker' = worker /\ result' = result /\ history' = history
  OBVIOUS
<1>16. IInv BY DEF IInv
<1> QED
  BY <1>3, <1>7, <1>8, <1>9, <1>11, <1>12, <1>13, <1>14, <1>15, <1>16 DEF IInv

\* A step that applies no event.
LEMMA SkipStep ==
    ASSUME IInv, pc \in LoopPlaces, NEW r, NEW next \in LoopPlaces, Skip(r, next),
           NEW t \in Duration, clock' = t, clock <= t,
           RunTyped(r), SameLatches(run, r, [type |-> "Tick"]),
           root' \in MemberState, UNCHANGED <<kid, worker, result, history>>,
           next = "grace" => policy.intervention_started,
           next = "finish" => policy.intervention_started \/ ~GroupExists'
    PROVE  IInv'
<1>1. pc \notin Ends /\ pc # "execute" /\ pc' = next /\ run' = r /\ policy' = policy
  BY DEF LoopPlaces, Ends, Skip
<1>2. next \in Places /\ next \notin Ends /\ next \notin {"execute", "prepare"}
  BY DEF LoopPlaces, Places, Ends
<1>3. r.checkpoint_artifact = run.checkpoint_artifact BY DEF SameLatches
<1>4. /\ Enforcing(policy, t) /\ policy.config = Config
      /\ Between(policy, run, history)
  BY <1>1, EnforcingLater DEF IInv, LoopOK
<1>5. Between(policy, r, history)
  BY <1>3, <1>4 DEF Between, Untried, Asked, Explained, SameLatches
<1>6. LoopOK(next, t, policy, call', r, history, GroupExists')
  BY <1>2, <1>4, <1>5 DEF LoopOK
<1>7. RecordAgrees(r, worker) BY <1>3 DEF IInv, RecordAgrees, SameLatches
<1>8. Accounted(r, history) BY DEF IInv, Accounted, SameLatches
<1>9. ResultOK(next, history, result) BY <1>1, <1>2 DEF IInv, ResultOK
<1>10. DropOK(next, history, root', kid') BY <1>1, <1>2 DEF IInv, DropOK, Ends
<1>11. kid' = kid /\ worker' = worker /\ result' = result /\ history' = history
  OBVIOUS
<1>12. IInv BY DEF IInv
<1> QED
  BY <1>1, <1>2, <1>6, <1>7, <1>8, <1>9, <1>10, <1>11, <1>12 DEF IInv

-----------------------------------------------------------------------------
(* The supervisor's actions.                                               *)

\* The latches the invariant says nothing of.
OtherFields == {"root_outcome", "group_exists", "parent_exited", "root_exit_applied",
                "checkpoint_negotiation", "failed", "transitions"}

LEMMA OtherLatches ==
    ASSUME NEW r, RunTyped(r), NEW q, DOMAIN q = RunFields, NEW e,
           \A f \in RunFields \ OtherFields : q[f] = r[f]
    PROVE  RunTyped(q) /\ SameLatches(r, q, e)
<1>1. /\ q.checkpoint_status = r.checkpoint_status
      /\ q.checkpoint_request_id = r.checkpoint_request_id
      /\ q.checkpoint_at_ms = r.checkpoint_at_ms
      /\ q.checkpoint_reason = r.checkpoint_reason
      /\ q.checkpoint_artifact = r.checkpoint_artifact
      /\ q.intervention_started = r.intervention_started
      /\ q.supervisor_error = r.supervisor_error
      /\ q.intervention_cause = r.intervention_cause
      /\ q.shutdown_reason = r.shutdown_reason
      /\ q.last_started_at = r.last_started_at
  BY DEF RunFields, OtherFields
<1> QED BY <1>1 DEF RunTyped, SameLatches

LEMMA ClockFacts == IInv => clock \in Duration /\ clock <= clock
BY WidthAssumption DEF IInv, Duration

LEMMA PrepareInvariant == IInv /\ Prepare => IInv'
<1> SUFFICES ASSUME IInv, Prepare PROVE IInv' OBVIOUS
<1>0. IInv BY DEF IInv
<1>1. /\ pc = "prepare" /\ kid' = kid /\ worker' = worker /\ clock' = clock
      /\ policy' = policy /\ call' = call /\ run' = run
  BY DEF Prepare
<1>2. /\ Enforcing(policy, clock) /\ policy.config = Config
      /\ history.sent = <<>> /\ history.looped = FALSE
      /\ Between(policy, run, history) /\ result = None
  BY <1>1 DEF IInv, LoopOK, Ends, ResultOK
<1>3. ASSUME pc' = "wait", history' = [history EXCEPT !.looped = TRUE],
             root' = root, result' = result
      PROVE  IInv'
  <2>1. /\ DOMAIN history' = HistoryFields /\ history'.sent = history.sent
        /\ history'.graceUntil = history.graceUntil /\ history'.hurried = history.hurried
        /\ history'.looped = TRUE /\ history'.dropStruck = history.dropStruck
        /\ history'.dropRefused = history.dropRefused
    BY <1>3 DEF IInv, HistoryTyped, HistoryFields
  <2>2. HistoryTyped(history') BY <2>1 DEF IInv, HistoryTyped
  <2>3. Between(policy, run, history') BY <1>2, <2>1 DEF Between
  <2>4. LoopOK(pc', clock, policy, call, run, history', GroupExists')
    BY <1>2, <1>3, <2>3 DEF LoopOK
  <2>5. Accounted(run, history') BY <2>1 DEF IInv, Accounted
  <2>6. ResultOK(pc', history', result) BY <1>2, <2>1 DEF IInv, ResultOK
  <2>7. DropOK(pc', history', root, kid)
    BY <1>1, <1>3, <2>1 DEF IInv, DropOK
  <2>8. pc' \in Places BY <1>3 DEF Places
  <2> QED BY <1>0, <1>1, <1>3, <2>2, <2>4, <2>5, <2>6, <2>7, <2>8 DEF IInv
<1>4. ASSUME pc' = "drop", history' = history, root' \in MemberState,
             result' \in {"Child", "SupervisorFailure"}
      PROVE  IInv'
  <2>1. Range(history.sent) = {} BY <1>2, NoneSent
  <2>2. LoopOK(pc', clock, policy, call, run, history, GroupExists')
    BY <1>4 DEF LoopOK, Ends
  <2>3. ResultOK(pc', history, result')
    BY <1>4, <2>1 DEF ResultOK, Ends, Uncounted, KillRefused, Option
  <2>4. DropOK(pc', history, root', kid)
    BY <1>1, <1>2, <1>4 DEF IInv, DropOK
  <2>5. pc' \in Places BY <1>4 DEF Places
  <2> QED BY <1>0, <1>1, <1>4, <2>2, <2>3, <2>4, <2>5 DEF IInv
<1>5. CASE root' = root BY <1>0, <1>3, <1>4, <1>5 DEF Prepare, IInv
<1>6. CASE root' = "gone"
  <2>1. "gone" \in MemberState BY DEF MemberState
  <2> QED BY <1>3, <1>4, <1>6, <2>1 DEF Prepare
<1> QED BY <1>5, <1>6 DEF Prepare

LEMMA WaitRootInvariant == IInv /\ WaitRoot => IInv'
<1> SUFFICES ASSUME IInv, WaitRoot PROVE IInv' OBVIOUS
<1> DEFINE b == run.root_outcome \/ root = "zombie"
           r == [run EXCEPT !.root_outcome = b]
<1>1. /\ pc = "wait" /\ Skip(r, "group") /\ clock' = clock /\ root' = reap(root)
      /\ UNCHANGED <<kid, worker, result, history>>
  BY DEF WaitRoot
<1>2. root' \in MemberState BY <1>1 DEF IInv, MemberState, reap
<1> HIDE DEF b
<1>3. DOMAIN r = RunFields /\ \A f \in RunFields \ OtherFields : r[f] = run[f]
  BY DEF IInv, RunTyped, RunFields, OtherFields
<1> HIDE DEF r
<1>4. RunTyped(r) /\ SameLatches(run, r, [type |-> "Tick"])
  BY <1>3, OtherLatches DEF IInv
<1>5. pc \in LoopPlaces /\ "group" \in LoopPlaces BY <1>1 DEF LoopPlaces
<1> QED BY <1>1, <1>2, <1>4, <1>5, ClockFacts, SkipStep

LEMMA QueryGroupInvariant == IInv /\ QueryGroup => IInv'
<1> SUFFICES ASSUME IInv, QueryGroup PROVE IInv' OBVIOUS
<1> DEFINE r == [run EXCEPT !.group_exists = GroupExists]
           next == IF run.root_outcome /\ ~GroupExists THEN "finish" ELSE "parent"
<1>1. /\ pc = "group" /\ Skip(r, next) /\ clock' = clock /\ root' = root
      /\ UNCHANGED <<kid, worker, result, history>>
  BY DEF QueryGroup, world
<1>2. root' \in MemberState BY <1>1 DEF IInv
<1>3. DOMAIN r = RunFields /\ \A f \in RunFields \ OtherFields : r[f] = run[f]
  BY DEF IInv, RunTyped, RunFields, OtherFields
<1>4. next \in LoopPlaces /\ next # "grace" /\ (next = "finish" => ~GroupExists)
  BY DEF LoopPlaces
<1>5. GroupExists' = GroupExists BY <1>1 DEF GroupExists
<1> HIDE DEF r, next
<1>6. RunTyped(r) /\ SameLatches(run, r, [type |-> "Tick"])
  BY <1>3, OtherLatches DEF IInv
<1>7. pc \in LoopPlaces BY <1>1 DEF LoopPlaces
<1> QED BY <1>1, <1>2, <1>4, <1>5, <1>6, <1>7, ClockFacts, SkipStep

LEMMA CheckParentInvariant == IInv /\ CheckParent => IInv'
<1> SUFFICES ASSUME IInv, CheckParent PROVE IInv' OBVIOUS
<1> DEFINE r == [run EXCEPT !.parent_exited = ~parentAlive]
           e == at("ParentExited")
<1>1. /\ pc = "parent" /\ clock' = clock
      /\ UNCHANGED <<root, kid, worker, result, history>>
      /\ ApplyFrom(r, e, "survivors") \/ Skip(r, "survivors")
  BY DEF CheckParent, world
<1>2. DOMAIN r = RunFields /\ \A f \in RunFields \ OtherFields : r[f] = run[f]
  BY DEF IInv, RunTyped, RunFields, OtherFields
<1>3. e.type = "ParentExited" /\ e.at = clock BY DEF at
<1>4. EventAt(policy, e, clock) BY <1>3 DEF EventAt
<1> HIDE DEF r, e
<1>5. /\ RunTyped(r) /\ SameLatches(run, r, e)
      /\ SameLatches(run, r, [type |-> "Tick"])
  BY <1>2, OtherLatches DEF IInv
<1>6. /\ pc \in LoopPlaces /\ "survivors" \in LoopPlaces
      /\ "survivors" \notin {"grace", "finish"}
  BY <1>1 DEF LoopPlaces
<1>7. root' \in MemberState BY <1>1 DEF IInv
<1>8. CASE ApplyFrom(r, e, "survivors")
  BY <1>1, <1>3, <1>4, <1>5, <1>6, <1>8, ClockFacts, ApplyStep
<1>9. CASE Skip(r, "survivors")
  BY <1>1, <1>5, <1>6, <1>7, <1>9, ClockFacts, SkipStep
<1> QED BY <1>1, <1>8, <1>9

\* A poll of the channel, before the cleanup and in every pass.
LEMMA PollInvariant ==
    ASSUME IInv, pc \in {"survivors", "poll"}, NEW next \in {"cleanup", "signals"},
           PollChannel(next), clock' = clock,
           UNCHANGED <<root, kid, worker, result, history>>
    PROVE  IInv'
<1> DEFINE open == run.checkpoint_negotiation = "Pending"
           negotiation == IF ~open THEN run.checkpoint_negotiation
                          ELSE IF worker.ready THEN "Ready"
                          ELSE IF Live(root) THEN "Pending" ELSE "Unavailable"
           r == [run EXCEPT !.checkpoint_negotiation = negotiation]
           failed == [type |-> "ActuationFailed", at |-> clock, action |-> "Checkpoint"]
           ack == [type |-> "CheckpointAck", at |-> clock, authenticated |-> TRUE,
                   request_id |-> policy.active_request_id]
<1>1. \/ Skip(r, next)
      \/ /\ policy.state = "CheckpointRequested" /\ worker.answer = "Completed"
         /\ \E artifact \in BOOLEAN :
               ApplyFrom([r EXCEPT !.checkpoint_artifact = artifact], ack, next)
      \/ policy.state = "CheckpointRequested" /\ ApplyFrom(r, failed, next)
  BY DEF PollChannel
<1>2. /\ pc \in LoopPlaces /\ next \in LoopPlaces /\ next \notin {"grace", "finish"}
  BY DEF LoopPlaces
<1>3. root' \in MemberState BY DEF IInv
<1> HIDE DEF negotiation
<1>4. DOMAIN r = RunFields /\ \A f \in RunFields \ OtherFields : r[f] = run[f]
  BY DEF IInv, RunTyped, RunFields, OtherFields
<1> HIDE DEF r
<1>5. RunTyped(r) /\ SameLatches(run, r, failed) /\ SameLatches(run, r, [type |-> "Tick"])
  BY <1>4, OtherLatches DEF IInv
<1>6. CASE Skip(r, next)
  BY <1>2, <1>3, <1>5, <1>6, ClockFacts, SkipStep
<1>7. CASE policy.state = "CheckpointRequested" /\ ApplyFrom(r, failed, next)
  <2>1. EventAt(policy, failed, clock) /\ failed.type = "ActuationFailed"
    BY <1>7 DEF EventAt
  <2> HIDE DEF failed
  <2> QED BY <1>2, <1>5, <1>7, <2>1, ClockFacts, ApplyStep
<1>8. CASE /\ policy.state = "CheckpointRequested" /\ worker.answer = "Completed"
           /\ \E artifact \in BOOLEAN :
                 ApplyFrom([r EXCEPT !.checkpoint_artifact = artifact], ack, next)
  <2>1. PICK artifact \in BOOLEAN :
                 ApplyFrom([r EXCEPT !.checkpoint_artifact = artifact], ack, next)
    BY <1>8
  <2> DEFINE x == [r EXCEPT !.checkpoint_artifact = artifact]
  <2>2. EventAt(policy, ack, clock) /\ ack.type = "CheckpointAck" BY <1>8 DEF EventAt
  <2>3. /\ DOMAIN x = RunFields /\ x.checkpoint_artifact \in BOOLEAN
        /\ \A f \in RunFields \ {"checkpoint_artifact"} : x[f] = r[f]
    BY <1>4 DEF RunFields
  <2>4. ApplyFrom(x, ack, next) BY <2>1
  <2> HIDE DEF x, ack
  <2>5. /\ x.checkpoint_status = r.checkpoint_status
        /\ x.checkpoint_request_id = r.checkpoint_request_id
        /\ x.checkpoint_at_ms = r.checkpoint_at_ms
        /\ x.checkpoint_reason = r.checkpoint_reason
        /\ x.intervention_started = r.intervention_started
        /\ x.supervisor_error = r.supervisor_error
        /\ x.intervention_cause = r.intervention_cause
        /\ x.shutdown_reason = r.shutdown_reason
        /\ x.last_started_at = r.last_started_at
    BY <2>3 DEF RunFields
  <2>6. RunTyped(x) BY <1>5, <2>3, <2>5 DEF RunTyped
  <2>7. SameLatches(run, x, ack) BY <1>5, <2>2, <2>5 DEF SameLatches
  <2> QED BY <1>2, <1>8, <2>2, <2>4, <2>6, <2>7, ClockFacts, ApplyStep
<1> QED BY <1>1, <1>6, <1>7, <1>8

LEMMA PollSurvivorsInvariant == IInv /\ PollSurvivors => IInv'
<1> SUFFICES ASSUME IInv, PollSurvivors PROVE IInv' OBVIOUS
<1>1. /\ pc = "survivors" /\ clock' = clock
      /\ UNCHANGED <<root, kid, worker, result, history>>
      /\ PollChannel("cleanup") \/ Skip(run, "poll")
  BY DEF PollSurvivors, world
<1>2. CASE PollChannel("cleanup") BY <1>1, <1>2, PollInvariant
<1>3. CASE Skip(run, "poll")
  <2>1. RunTyped(run) /\ SameLatches(run, run, [type |-> "Tick"]) BY DEF IInv, SameLatches
  <2>2. pc \in LoopPlaces /\ "poll" \in LoopPlaces BY <1>1 DEF LoopPlaces
  <2>3. root' \in MemberState BY <1>1 DEF IInv
  <2> QED BY <1>1, <1>3, <2>1, <2>2, <2>3, ClockFacts, SkipStep
<1> QED BY <1>1, <1>2, <1>3

LEMMA PollCheckpointInvariant == IInv /\ PollCheckpoint => IInv'
<1> SUFFICES ASSUME IInv, PollCheckpoint PROVE IInv' OBVIOUS
<1>1. /\ pc = "poll" /\ clock' = clock /\ PollChannel("signals")
      /\ UNCHANGED <<root, kid, worker, result, history>>
  BY DEF PollCheckpoint, world
<1> QED BY <1>1, PollInvariant

\* An event without an answer, from the latches as they are.
LEMMA EventStep ==
    ASSUME IInv, pc \in LoopPlaces, NEW r, RunTyped(r), NEW e, SameLatches(run, r, e),
           e.type \in {"Tick", "RootExited", "ParentExited", "SupervisorFault", "ExternalSignal"},
           NEW t \in Duration, e.at = t, clock' = t, clock <= t,
           NEW next \in LoopPlaces, ApplyFrom(r, e, next),
           next \in {"grace", "finish"} =>
               policy.intervention_started \/ e.type = "SupervisorFault",
           UNCHANGED <<root, kid, worker, result, history>>
    PROVE  IInv'
<1>1. EventAt(policy, e, t) BY DEF EventAt
<1>2. e.type # "CheckpointAck" /\ "SupervisorFault" \in Committing BY DEF Committing
<1> QED BY <1>1, <1>2, ApplyStep

LEMMA CleanSurvivorsInvariant == IInv /\ CleanSurvivors => IInv'
<1> SUFFICES ASSUME IInv, CleanSurvivors PROVE IInv' OBVIOUS
<1> DEFINE r == [run EXCEPT !.root_exit_applied = TRUE]
           e == at("RootExited")
<1>1. /\ pc = "cleanup" /\ clock' = clock /\ ApplyFrom(r, e, "poll")
      /\ UNCHANGED <<root, kid, worker, result, history>>
  BY DEF CleanSurvivors, world
<1>2. DOMAIN r = RunFields /\ \A f \in RunFields \ OtherFields : r[f] = run[f]
  BY DEF IInv, RunTyped, RunFields, OtherFields
<1>3. e.type = "RootExited" /\ e.at = clock BY DEF at
<1> HIDE DEF r, e
<1>4. RunTyped(r) /\ SameLatches(run, r, e) BY <1>2, OtherLatches DEF IInv
<1>5. pc \in LoopPlaces /\ "poll" \in LoopPlaces BY <1>1 DEF LoopPlaces
<1> QED BY <1>1, <1>3, <1>4, <1>5, ClockFacts, EventStep

LEMMA DrainSignalsInvariant == IInv /\ DrainSignals => IInv'
<1> SUFFICES ASSUME IInv, DrainSignals PROVE IInv' OBVIOUS
<1>1. /\ pc = "signals" /\ clock' = clock /\ Skip(run, "forward") /\ root' = root
      /\ UNCHANGED <<kid, worker, result, history>>
  BY DEF DrainSignals
<1>2. RunTyped(run) /\ SameLatches(run, run, [type |-> "Tick"]) BY DEF IInv, SameLatches
<1>3. pc \in LoopPlaces /\ "forward" \in LoopPlaces BY <1>1 DEF LoopPlaces
<1>4. root' \in MemberState BY <1>1 DEF IInv
<1> QED BY <1>1, <1>2, <1>3, <1>4, ClockFacts, SkipStep

LEMMA ForwardNextInvariant == IInv /\ ForwardNext => IInv'
<1> SUFFICES ASSUME IInv, ForwardNext PROVE IInv' OBVIOUS
<1>1. /\ pc = "forward" /\ clock' = clock
      /\ UNCHANGED <<root, kid, worker, result, history>>
      /\ \/ Skip(run, "sample")
         \/ \E signal \in {SIGINT, SIGTERM} :
               ApplyFrom(run, [type |-> "ExternalSignal", at |-> clock, signal |-> signal],
                         "forward")
  BY DEF ForwardNext, world, Apply
<1>2. RunTyped(run) /\ \A e : SameLatches(run, run, e) BY DEF IInv, SameLatches
<1>3. pc \in LoopPlaces /\ "forward" \in LoopPlaces /\ "sample" \in LoopPlaces
  BY <1>1 DEF LoopPlaces
<1>4. CASE Skip(run, "sample")
  <2>1. root' \in MemberState BY <1>1 DEF IInv
  <2> QED BY <1>1, <1>2, <1>3, <1>4, <2>1, ClockFacts, SkipStep
<1>5. ASSUME NEW signal \in {SIGINT, SIGTERM},
             ApplyFrom(run, [type |-> "ExternalSignal", at |-> clock, signal |-> signal],
                       "forward")
      PROVE  IInv'
  <2> DEFINE e == [type |-> "ExternalSignal", at |-> clock, signal |-> signal]
  <2>1. e.type = "ExternalSignal" /\ e.at = clock OBVIOUS
  <2>2. ApplyFrom(run, e, "forward") BY <1>5
  <2> HIDE DEF e
  <2>3. SameLatches(run, run, e) BY <1>2
  <2> QED BY <1>1, <1>2, <1>3, <2>1, <2>2, <2>3, ClockFacts, EventStep
<1> QED BY <1>1, <1>4, <1>5

LEMMA SampleOnceInvariant ==
    ASSUME IInv, NEW bytes \in Option(SampleBytes), NEW duration \in 0 .. 1,
           SampleOnce(bytes, duration)
    PROVE  IInv'
<1> DEFINE t == saturating_add(clock, duration)
           r == [run EXCEPT !.last_started_at = clock]
           e == [type |-> "Sample", captured_at |-> t, processed_at |-> t,
                 window |-> 1, aggregate_bytes |-> bytes]
<1>1. /\ pc = "sample" /\ clock' = t /\ ApplyFrom(r, e, "tick")
      /\ UNCHANGED <<root, kid, worker, result, history>>
  BY DEF SampleOnce, world
<1>2. t \in Duration /\ clock <= t
  BY WidthAssumption DEF IInv, Duration, saturating_add
<1> HIDE DEF t
<1>3. e.type = "Sample" /\ e.processed_at = t /\ e.aggregate_bytes = bytes OBVIOUS
<1>4. EventAt(policy, e, t)
  <2>1. bytes \in Option(Nat) BY RuntimeAssumption DEF Option
  <2> HIDE DEF e
  <2> QED BY <1>3, <2>1 DEF EventAt
<1>5. RunTyped(r) /\ SameLatches(run, r, e)
  <2>1. /\ DOMAIN r = RunFields /\ r.last_started_at = clock
        /\ r.checkpoint_status = run.checkpoint_status
        /\ r.checkpoint_request_id = run.checkpoint_request_id
        /\ r.checkpoint_at_ms = run.checkpoint_at_ms
        /\ r.checkpoint_reason = run.checkpoint_reason
        /\ r.checkpoint_artifact = run.checkpoint_artifact
        /\ r.intervention_started = run.intervention_started
        /\ r.supervisor_error = run.supervisor_error
        /\ r.intervention_cause = run.intervention_cause
        /\ r.shutdown_reason = run.shutdown_reason
    BY DEF IInv, RunTyped, RunFields
  <2> HIDE DEF r
  <2> QED BY <2>1 DEF IInv, RunTyped, SameLatches
<1> HIDE DEF r, e
<1>6. pc \in LoopPlaces /\ "tick" \in LoopPlaces BY <1>1 DEF LoopPlaces
<1> QED BY <1>1, <1>2, <1>3, <1>4, <1>5, <1>6, ApplyStep

LEMMA TickInvariant == IInv /\ Tick => IInv'
<1> SUFFICES ASSUME IInv, Tick PROVE IInv' OBVIOUS
<1> DEFINE e == at("Tick")
<1>1. /\ pc = "tick" /\ clock' = clock /\ ApplyFrom(run, e, "sleep")
      /\ UNCHANGED <<root, kid, worker, result, history>>
  BY DEF Tick, world, Apply
<1>2. e.type = "Tick" /\ e.at = clock BY DEF at
<1> HIDE DEF e
<1>3. RunTyped(run) /\ SameLatches(run, run, e) BY DEF IInv, SameLatches
<1>4. pc \in LoopPlaces /\ "sleep" \in LoopPlaces BY <1>1 DEF LoopPlaces
<1> QED BY <1>1, <1>2, <1>3, <1>4, ClockFacts, EventStep

LEMMA DeadlineTyped ==
    ASSUME NEW m \in Machine PROVE next_deadline(m) \in Option(Duration)
BY DEF next_deadline, Machine, Option

LEMMA SleepInvariant ==
    ASSUME IInv, NEW extra \in 0 .. 1, Sleep(extra) PROVE IInv'
<1> DEFINE elapsed == clock - run.last_started_at
           sample_delay == IF elapsed >= 1 THEN 0 ELSE 1 - elapsed
           deadline == next_deadline(policy)
           delay == IF deadline # None /\ deadline - clock < sample_delay
                    THEN (IF deadline > clock THEN deadline - clock ELSE 0) ELSE sample_delay
           t == IF delay = 0 THEN clock ELSE saturating_add(clock, delay + extra)
<1>1. /\ pc = "sleep" /\ clock' = t /\ Skip(run, "wait") /\ root' = root
      /\ UNCHANGED <<kid, worker, result, history>>
  BY DEF Sleep, world
<1>2. clock \in Nat /\ clock <= MaxDuration /\ MaxDuration \in Nat
  BY WidthAssumption DEF IInv, Duration
<1>3. sample_delay \in Nat BY <1>2 DEF IInv, RunTyped, Duration
<1>4. deadline = None \/ deadline \in Nat
  BY DeadlineTyped DEF IInv, Option, Duration
<1> HIDE DEF sample_delay, deadline
<1>5. delay \in Nat BY <1>2, <1>3, <1>4
<1> HIDE DEF delay
<1>6. t \in Duration /\ clock <= t BY <1>2, <1>5 DEF Duration, saturating_add
<1> HIDE DEF t
<1>7. RunTyped(run) /\ SameLatches(run, run, [type |-> "Tick"]) BY DEF IInv, SameLatches
<1>8. pc \in LoopPlaces /\ "wait" \in LoopPlaces BY <1>1 DEF LoopPlaces
<1>9. root' \in MemberState BY <1>1 DEF IInv
<1> QED BY <1>1, <1>6, <1>7, <1>8, <1>9, SkipStep

LEMMA FailSupervisorInvariant == IInv /\ FailSupervisor => IInv'
<1> SUFFICES ASSUME IInv, FailSupervisor PROVE IInv' OBVIOUS
<1> DEFINE r == [run EXCEPT !.failed = TRUE]
           e == at("SupervisorFault")
<1>1. /\ pc \in {"wait", "group", "signals"} /\ clock' = clock /\ ApplyFrom(r, e, "grace")
      /\ UNCHANGED <<root, kid, worker, result, history>>
  BY DEF FailSupervisor, world
<1>2. DOMAIN r = RunFields /\ \A f \in RunFields \ OtherFields : r[f] = run[f]
  BY DEF IInv, RunTyped, RunFields, OtherFields
<1>3. e.type = "SupervisorFault" /\ e.at = clock BY DEF at
<1> HIDE DEF r, e
<1>4. RunTyped(r) /\ SameLatches(run, r, e) BY <1>2, OtherLatches DEF IInv
<1>5. pc \in LoopPlaces /\ "grace" \in LoopPlaces BY <1>1 DEF LoopPlaces
<1> QED BY <1>1, <1>3, <1>4, <1>5, ClockFacts, EventStep

LEMMA AwaitGraceInvariant == IInv /\ AwaitGrace => IInv'
<1> SUFFICES ASSUME IInv, AwaitGrace PROVE IInv' OBVIOUS
<1> DEFINE deadline == next_deadline(policy)
           t == IF deadline # None /\ deadline > clock THEN deadline ELSE clock
           e == [type |-> "Tick", at |-> t]
<1>1. /\ pc = "grace" /\ clock' = t
      /\ ApplyFrom(run, e, "finish") \/ Skip(run, "finish")
      /\ UNCHANGED <<root, kid, worker, result, history>>
  BY DEF AwaitGrace, world, Apply
<1>2. policy.intervention_started BY <1>1 DEF IInv, LoopOK, Ends
<1>3. deadline = None \/ deadline \in Duration BY DeadlineTyped DEF IInv, Option
<1> HIDE DEF deadline
<1>4. t \in Duration /\ clock <= t BY <1>3, WidthAssumption DEF IInv, Duration
<1> HIDE DEF t
<1>5. e.type = "Tick" /\ e.at = t OBVIOUS
<1> HIDE DEF e
<1>6. /\ RunTyped(run) /\ SameLatches(run, run, e)
      /\ SameLatches(run, run, [type |-> "Tick"])
  BY DEF IInv, SameLatches
<1>7. pc \in LoopPlaces /\ "finish" \in LoopPlaces BY <1>1 DEF LoopPlaces
<1>8. root' \in MemberState BY <1>1 DEF IInv
<1>9. CASE ApplyFrom(run, e, "finish")
  BY <1>1, <1>2, <1>4, <1>5, <1>6, <1>7, <1>9, EventStep
<1>10. CASE Skip(run, "finish")
  BY <1>1, <1>2, <1>4, <1>6, <1>7, <1>8, <1>10, SkipStep
<1> QED BY <1>1, <1>9, <1>10

LEMMA FinishInvariant == IInv /\ Finish => IInv'
<1> SUFFICES ASSUME IInv, Finish PROVE IInv' OBVIOUS
<1>0. IInv BY DEF IInv
<1>1. /\ pc = "finish" /\ pc' = "drop" /\ result' = complete(run) /\ clock' = clock
      /\ UNCHANGED <<root, kid, worker, call, run, history>>
  BY DEF Finish, world
<1>2. policy' \in Machine
  <2> DEFINE e == [type |-> "ProcessExited", at |-> clock, final_footprint_bytes |-> None]
  <2>1. policy' = policy \/ policy' = apply(policy, e).m BY DEF Finish
  <2>2. apply(policy, e).m \in {policy, [policy EXCEPT !.state = "Exited"]}
    BY DEF apply, Result
  <2>3. [policy EXCEPT !.state = "Exited"] \in Machine
    BY DEF IInv, Machine, PolicyState
  <2> QED BY <1>0, <2>1, <2>2, <2>3 DEF IInv
<1>3. /\ Between(policy, run, history)
      /\ policy.intervention_started \/ ~GroupExists
  BY <1>1 DEF IInv, LoopOK, Ends
<1>4. ResultOK(pc', history, result')
  <2>1. /\ complete(run) \in {"Child", "PolicyIntervention", "SupervisorFailure"}
        /\ complete(run) = "Child" => ~run.intervention_started
        /\ run.supervisor_error => complete(run) = "SupervisorFailure"
    BY DEF complete
  <2> QED BY <1>1, <2>1 DEF ResultOK, Ends, IInv, Accounted, Option
<1>5. DropOK(pc', history, root, kid)
  BY <1>1, <1>3 DEF DropOK, Between, IInv, GroupExists
<1>6. LoopOK(pc', clock, policy', call, run, history, GroupExists')
  BY <1>1 DEF LoopOK, Ends
<1>7. pc' \in Places BY <1>1 DEF Places
<1> QED BY <1>0, <1>1, <1>2, <1>4, <1>5, <1>6, <1>7 DEF IInv

LEMMA DropProcessInvariant == IInv /\ DropProcess => IInv'
<1> SUFFICES ASSUME IInv, DropProcess PROVE IInv' OBVIOUS
<1>0. IInv BY DEF IInv
<1>1. /\ pc = "drop" /\ pc' = "reap" /\ clock' = clock
      /\ UNCHANGED <<worker, policy, call, run, result>>
  BY DEF DropProcess
<1>2. /\ LoopOK(pc', clock, policy, call, run, history', GroupExists')
      /\ pc' \in Places
  BY <1>1 DEF LoopOK, Ends, Places
<1>3. \/ /\ root' = doom(root) /\ kid' = doom(kid)
         /\ history' = [history EXCEPT !.dropStruck = (root = "alive" \/ kid = "alive")]
      \/ /\ root' = root /\ kid' = kid
         /\ history' = [history EXCEPT !.dropRefused = TRUE]
  BY DEF DropProcess
<1>4. root' \in MemberState /\ kid' \in MemberState
  BY <1>3 DEF IInv, MemberState, doom
<1> DEFINE b == root = "alive" \/ kid = "alive"
<1>5. b \in BOOLEAN OBVIOUS
<1>6. /\ DOMAIN history' = HistoryFields /\ history'.sent = history.sent
      /\ history'.graceUntil = history.graceUntil /\ history'.hurried = history.hurried
      /\ history'.looped = history.looped
      /\ \/ /\ root' = doom(root) /\ kid' = doom(kid) /\ history'.dropStruck = b
            /\ history'.dropRefused = history.dropRefused
         \/ history'.dropStruck = history.dropStruck /\ history'.dropRefused = TRUE
  <2>1. \/ /\ root' = doom(root) /\ kid' = doom(kid)
           /\ history' = [history EXCEPT !.dropStruck = b]
        \/ history' = [history EXCEPT !.dropRefused = TRUE]
    BY <1>3
  <2> HIDE DEF b
  <2> QED BY <2>1 DEF IInv, HistoryTyped, HistoryFields
<1>7. HistoryTyped(history') BY <1>6 DEF IInv, HistoryTyped
<1>8. Accounted(run, history') BY <1>6 DEF IInv, Accounted
<1>9. ResultOK(pc', history', result) BY <1>1, <1>6 DEF IInv, ResultOK, Ends
<1>10. DropOK(pc', history', root', kid')
  <2>1. /\ history.looped => Signalled(Range(history.sent)) \/ (root = "gone" /\ kid = "gone")
        /\ history.dropStruck = FALSE
    BY <1>1 DEF IInv, DropOK
  <2>2. (root = "gone" /\ kid = "gone") => ~b OBVIOUS
  <2>3. doom(root) # "alive" /\ doom(kid) # "alive" BY DEF doom
  <2> HIDE DEF b
  <2> QED BY <1>1, <1>6, <2>1, <2>2, <2>3 DEF DropOK
<1> QED BY <1>0, <1>1, <1>2, <1>4, <1>7, <1>8, <1>9, <1>10 DEF IInv

LEMMA ReapRootInvariant == IInv /\ ReapRoot => IInv'
<1> SUFFICES ASSUME IInv, ReapRoot PROVE IInv' OBVIOUS
<1>0. IInv BY DEF IInv
<1>1. /\ pc = "reap" /\ pc' = "done" /\ root' = "gone" /\ clock' = clock
      /\ UNCHANGED <<kid, worker, policy, call, run, result, history>>
  BY DEF ReapRoot
<1>2. /\ LoopOK(pc', clock, policy, call, run, history, GroupExists')
      /\ pc' \in Places /\ root' \in MemberState
  BY <1>1 DEF LoopOK, Ends, Places, MemberState
<1>3. ResultOK(pc', history, result) BY <1>1 DEF IInv, ResultOK, Ends
<1>4. DropOK(pc', history, root', kid) BY <1>1 DEF IInv, DropOK
<1> QED BY <1>0, <1>1, <1>2, <1>3, <1>4 DEF IInv

LEMMA ExecuteInvariant ==
    ASSUME IInv, NEW answer \in ActuationOutcome \cup ActuationFailure, NEW faulty \in BOOLEAN,
           Execute(answer, faulty)
    PROVE  IInv'
<1> DEFINE a == Head(call.pending)
           e == call.event
           x == answered(policy, event_at(e), call.pending, answer)
           kill == a.kind = "SendKill"
           first == history.graceUntil = None /\ a.kind \in {"SendTerm", "ForwardSignal"}
           s == Attempt(a, answer, run, history.sent)
           opener == IF history.opener = None THEN Opener(e) ELSE history.opener
           killed == history.killed \/ (kill /\ answer = Delivered /\ root = "alive")
           grace == IF first THEN saturating_add(event_at(e), Config.term_grace)
                    ELSE history.graceUntil
           hurried == \/ history.hurried
                      \/ /\ kill /\ e.type = "Tick" /\ ~Refused(history.sent)
                         /\ clock < history.graceUntil
           k == [history EXCEPT !.sent = Append(@, s), !.opener = opener, !.killed = killed,
                                !.graceUntil = grace, !.hurried = hurried]
<1>0. IInv BY DEF IInv
<1>1. /\ pc = "execute" /\ policy' = x.m
      /\ run' = latch(record_actuation(run, e, a, answer), e, policy.state, x.m.state)
      /\ x.pending = <<>> => pc' = call.next /\ call' = NoCall
      /\ x.pending # <<>> => pc' = pc /\ call' = [call EXCEPT !.pending = x.pending]
      /\ clock' = clock /\ worker' = worker /\ result' = result
  BY DEF Execute
<1>2. root' \in {root, doom(root)} /\ kid' \in {kid, doom(kid)}
  BY DEF Execute
<1>3. history' = k BY DEF Execute, Attempt, Refused
<1>4. a.kind = "RequestCheckpoint" =>
          answer \in {"CheckpointUnavailable", Delivered, "SignalFailed"}
  BY DEF Execute, Answer
<1>5. /\ Enforcing(policy, clock) /\ policy.config = Config
      /\ DOMAIN call = {"pending", "event", "next"}
      /\ call.pending = <<a>> /\ event_at(e) = clock
      /\ call.next \in LoopPlaces
      /\ call.next \in {"grace", "finish"} => policy.intervention_started
      /\ Underway(policy, run, history, e.type, a, clock)
  BY <1>0, <1>1 DEF IInv, LoopOK, Ends
<1>6. x = answered(policy, clock, <<a>>, answer) BY <1>5
<1>7. hurried \in BOOLEAN /\ (history.hurried = FALSE =>
          hurried = (/\ a.kind = "SendKill" /\ e.type = "Tick" /\ ~Refused(history.sent)
                     /\ clock < history.graceUntil))
  OBVIOUS
<1>8. grace = IF history.graceUntil = None /\ a.kind \in {"SendTerm", "ForwardSignal"}
              THEN saturating_add(clock, Config.term_grace) ELSE history.graceUntil
  BY <1>5
<1>9. grace \in Option(Duration)
  <2>1. Config.term_grace \in Duration BY RuntimeAssumption DEF PolicyConfig
  <2>2. clock \in Duration /\ history.graceUntil \in Option(Duration)
    BY <1>0 DEF IInv, HistoryTyped
  <2>3. saturating_add(clock, Config.term_grace) \in Duration BY <2>1, <2>2, SaturatingAdd
  <2> QED BY <1>8, <2>2, <2>3 DEF Option
<1> HIDE DEF s, opener, killed, grace, hurried, x, a, e
<1>10. /\ DOMAIN k = HistoryFields /\ k.sent = Append(history.sent, s)
       /\ k.graceUntil = grace /\ k.hurried = hurried /\ k.looped = history.looped
       /\ k.dropStruck = history.dropStruck /\ k.dropRefused = history.dropRefused
  BY <1>0 DEF IInv, HistoryTyped, HistoryFields
<1> HIDE DEF k
<1>11. HistoryTyped(k)
  <2>1. k.sent \in Seq(Range(k.sent))
    <3>1. history.sent \in Seq(Range(history.sent)) BY <1>0 DEF IInv, HistoryTyped
    <3> DEFINE u == Append(history.sent, s)
    <3>2. u = Append(history.sent, s) OBVIOUS
    <3>3. k.sent = u BY <1>10
    <3> HIDE DEF u
    <3>4. u \in Seq(Range(u)) BY <3>1, <3>2, Appended
    <3> QED BY <3>3, <3>4
  <2> QED BY <1>0, <1>9, <1>10, <2>1 DEF IInv, HistoryTyped
<1> DEFINE q == latch(record_actuation(run, e, a, answer), e, policy.state, x.m.state)
<1>12. q = latch(record_actuation(run, e, a, answer), e, policy.state, x.m.state) OBVIOUS
<1>13. run' = q BY <1>1
<1> HIDE DEF q
<1>14. Attempts(policy, clock, e, run, history, a, answer, x, q, k)
  BY <1>0, <1>4, <1>5, <1>6, <1>7, <1>8, <1>10, <1>12 DEF Attempts, IInv, s
<1>15. Attempted(policy, clock, e, worker, x, q, k)
  <2>1. clock \in Duration /\ RecordAgrees(run, worker) BY <1>0 DEF IInv
  <2>2. CASE Requesting(policy, run, history, e.type, a)
    BY <1>14, <2>1, <2>2, RequestAttempted
  <2>3. CASE Opening(policy, run, history, e.type, a, clock)
    BY <1>14, <2>1, <2>3, OpeningAttempted
  <2>4. CASE Killing(policy, run, history, e.type, a, clock)
    BY <1>14, <2>1, <2>4, KillAttempted
  <2> QED BY <1>5, <2>2, <2>3, <2>4 DEF Underway
<1>16. /\ Applied(policy, q, k, e.type, clock, x)
       /\ RecordAgrees(q, worker) /\ Accounted(q, k)
  BY <1>15 DEF Attempted
<1>17. pc' \in Places /\ pc' \notin Ends /\ pc' # "prepare"
  BY <1>1, <1>5 DEF Places, LoopPlaces, Ends
<1>18. LoopOK(pc', clock, x.m, call', q, k, GroupExists')
  <2>1. CASE x.pending = <<>>
    <3>1. pc' = call.next BY <1>1, <2>1
    <3>2. pc' \notin {"execute", "prepare"} BY <1>5, <3>1 DEF LoopPlaces
    <3> QED BY <1>5, <1>16, <2>1, <3>1, <3>2 DEF LoopOK, Applied
  <2>2. CASE x.pending # <<>>
    <3>1. pc' = "execute" /\ call' = [call EXCEPT !.pending = x.pending] BY <1>1, <2>2
    <3>2. /\ DOMAIN call' = {"pending", "event", "next"}
          /\ call'.pending = x.pending /\ call'.event = e /\ call'.next = call.next
      BY <1>5, <3>1 DEF e
    <3> QED BY <1>5, <1>16, <2>2, <3>1, <3>2 DEF LoopOK, Applied
  <2> QED BY <2>1, <2>2
<1>19. ResultOK(pc', k, result)
  <2>1. result = None BY <1>0, <1>1 DEF IInv, ResultOK, Ends
  <2>2. None # "Child" BY RuntimeAssumption
  <2> QED BY <1>17, <2>1, <2>2 DEF ResultOK, Option
<1>20. DropOK(pc', k, root', kid')
  BY <1>0, <1>1, <1>10, <1>17 DEF IInv, DropOK, Ends
<1>21. root' \in MemberState /\ kid' \in MemberState
  BY <1>0, <1>2 DEF IInv, MemberState, doom
<1>22. RunTyped(q) /\ x.m \in Machine BY <1>16 DEF Applied, Enforcing
<1> QED
  BY <1>0, <1>1, <1>3, <1>11, <1>13, <1>16, <1>17, <1>18, <1>19, <1>20, <1>21, <1>22
  DEF IInv

-----------------------------------------------------------------------------
(* The world's actions, and the theorems.                                  *)

\* A step of the world: nobody joins a group that is gone, and nobody comes alive
\* once the root is not.
LEMMA WorldStep ==
    ASSUME IInv, UNCHANGED supervisor,
           root' \in MemberState, kid' \in MemberState,
           ~GroupExists => ~GroupExists',
           (root # "alive" /\ kid # "alive") => (root' # "alive" /\ kid' # "alive"),
           DOMAIN worker' = {"ready", "answer"},
           worker'.answer = worker.answer \/ worker.answer = None
    PROVE  IInv'
<1>0. IInv BY DEF IInv
<1>1. /\ pc' = pc /\ clock' = clock /\ policy' = policy /\ call' = call /\ run' = run
      /\ result' = result /\ history' = history
  BY DEF supervisor
<1>2. LoopOK(pc, clock, policy, call, run, history, GroupExists')
  BY <1>0 DEF IInv, LoopOK
<1>3. RecordAgrees(run, worker')
  <2>1. None # "Completed" BY RuntimeAssumption
  <2> QED BY <1>0, <2>1 DEF IInv, RecordAgrees
<1>4. DropOK(pc, history, root', kid')
  <2>1. (root = "gone" /\ kid = "gone") => (root' = "gone" /\ kid' = "gone")
    BY DEF GroupExists
  <2> QED BY <1>0, <2>1 DEF IInv, DropOK
<1> QED BY <1>0, <1>1, <1>2, <1>3, <1>4 DEF IInv

LEMMA WorldInvariant == IInv /\ World => IInv'
<1> SUFFICES ASSUME IInv, World PROVE IInv' OBVIOUS
<1>0. /\ root \in MemberState /\ kid \in MemberState /\ DOMAIN worker = {"ready", "answer"}
  BY DEF IInv
<1>1. /\ UNCHANGED supervisor
      /\ \/ RootExit /\ worker' = worker
         \/ KidExit /\ worker' = worker
         \/ KidReap /\ worker' = worker
         \/ KidFork /\ worker' = worker
         \/ root' = root /\ kid' = kid /\ worker' = worker
         \/ root' = root /\ kid' = kid /\ worker' = [worker EXCEPT !.ready = TRUE]
         \/ /\ root' = root /\ kid' = kid /\ worker.answer = None
            /\ \E answer \in {"Completed", "Failed"} :
                  worker' = [worker EXCEPT !.answer = answer]
  BY DEF World, RootExits, KidExits, KidReaped, Fork, ParentDies, UserSignals, WorkerReady,
         WorkerAnswers
<1>2. /\ DOMAIN worker' = {"ready", "answer"}
      /\ worker'.answer = worker.answer \/ worker.answer = None
  BY <1>0, <1>1
<1>3. /\ root' \in MemberState /\ kid' \in MemberState
      /\ ~GroupExists => ~GroupExists'
      /\ (root # "alive" /\ kid # "alive") => (root' # "alive" /\ kid' # "alive")
  BY <1>0, <1>1 DEF RootExit, KidExit, KidReap, KidFork, GroupExists, MemberState, Live
<1> QED BY <1>1, <1>2, <1>3, WorldStep

LEMMA NextInvariant == IInv /\ [Next]_vars => IInv'
<1> SUFFICES ASSUME IInv, [Next]_vars PROVE IInv' OBVIOUS
<1>1. CASE Supervisor
  <2>1. ASSUME NEW bytes \in Option(SampleBytes), NEW duration \in 0 .. 1,
               SampleOnce(bytes, duration)
        PROVE  IInv'
    BY <2>1, SampleOnceInvariant
  <2>2. ASSUME NEW extra \in 0 .. 1, Sleep(extra) PROVE IInv' BY <2>2, SleepInvariant
  <2>3. ASSUME NEW answer \in ActuationOutcome \cup ActuationFailure, NEW faulty \in BOOLEAN,
               Execute(answer, faulty)
        PROVE  IInv'
    BY <2>3, ExecuteInvariant
  <2> QED
    BY <1>1, <2>1, <2>2, <2>3, PrepareInvariant, WaitRootInvariant, QueryGroupInvariant,
       CheckParentInvariant, PollSurvivorsInvariant, CleanSurvivorsInvariant,
       PollCheckpointInvariant, DrainSignalsInvariant, ForwardNextInvariant, TickInvariant,
       FailSupervisorInvariant, AwaitGraceInvariant, FinishInvariant, DropProcessInvariant,
       ReapRootInvariant
    DEF Supervisor
<1>2. CASE World BY <1>2, WorldInvariant
<1>3. CASE UNCHANGED vars
  <2>1. IInv BY DEF IInv
  <2>2. /\ root' = root /\ kid' = kid /\ worker' = worker /\ pc' = pc /\ clock' = clock
        /\ policy' = policy /\ call' = call /\ run' = run /\ result' = result
        /\ history' = history
    BY <1>3 DEF vars, world
  <2>3. GroupExists' = GroupExists BY <2>2 DEF GroupExists
  <2> QED BY <2>1, <2>2, <2>3 DEF IInv
<1> QED BY <1>1, <1>2, <1>3 DEF Next

\* Every reachable state of the run satisfies the inductive invariant: what ties
\* the policy machine's phase to the latches of RunRuntime, to the attempts made
\* so far and to the answer still outstanding.
THEOREM RunInvariant == Spec => []IInv
<1>1. IInv /\ [Next]_vars => IInv' BY NextInvariant
<1> QED BY <1>1, InitInvariant, PTL DEF Spec

LEMMA SentParts ==
    /\ KillRefused(Range(history.sent)) <=> LoopKillFailed
    /\ Reasoned(Range(history.sent)) <=> EverySignalHasAReason
    /\ Signalled(Range(history.sent)) <=>
          \E s \in Sent : s.kind \in {"SendTerm", "ForwardSignal", "SendKill"}
    /\ Uncounted(Range(history.sent)) <=> \A s \in Sent : LeavesTheRunToTheCommand(s)
BY DEF KillRefused, LoopKillFailed, Sent, Reasoned, EverySignalHasAReason, Signalled,
       GroupKinds, Uncounted

\* Nobody of the owned group is left alive behind an exited supervisor unless a
\* KILL was refused, and the KILL of the drop strikes a living member only after
\* the loop's own signals -- for any number of signals, faults and descendants.
THEOREM RunLeavesNothingBehind == Spec => []NothingIsLeftBehind
<1>1. IInv => NothingIsLeftBehind
  <2> SUFFICES ASSUME IInv PROVE NothingIsLeftBehind OBVIOUS
  <2>1. TypeOK BY DEF IInv, TypeOK, RunTyped, ResultOK
  <2>2. NoOrphans BY DEF IInv, DropOK, NoOrphans, KillFailed
  <2>3. DropIsLastResort BY SentParts DEF IInv, DropOK, DropIsLastResort
  <2> QED BY <2>1, <2>2, <2>3 DEF NothingIsLeftBehind
<1> QED BY <1>1, RunInvariant, PTL

\* Every attempt that record_actuations writes down carries its reason, and a
\* checkpoint request carries a limit.
THEOREM RunSignalsAreExplained == Spec => []EverySignalHasAReason
<1>1. IInv => EverySignalHasAReason BY SentParts DEF IInv, Accounted
<1> QED BY <1>1, RunInvariant, PTL

\* The completion mapping never gives the command's own status to a run that a
\* limit, lost observations, the parent's exit or a fault ended, nor to one whose
\* cleanup ran into KILL at the end of its grace; a KILL after a refused cleanup TERM,
\* or one a terminal signal asked for, stays the command's.  And it never hides a
\* KILL the loop could not deliver.
THEOREM RunResultIsHonest == Spec => []HonestResult
<1>1. IInv => HonestResult BY SentParts DEF IInv, ResultOK, HonestResult
<1> QED BY <1>1, RunInvariant, PTL

\* No deadline turns into KILL before the whole term_grace has passed since the
\* first TERM or forwarded signal, saturation of the clock included.
THEOREM RunHonoursGrace == Spec => []GraceHonoured
<1>1. IInv => GraceHonoured BY DEF IInv, Accounted, GraceHonoured
<1> QED BY <1>1, RunInvariant, PTL

\* The checkpoint record of the report passes its own validation in every state,
\* and says what really happened to the request.
THEOREM RunCheckpointRecordAgrees == Spec => []CheckpointRecordAgrees
<1>1. IInv => CheckpointRecordAgrees
  <2> SUFFICES ASSUME IInv PROVE CheckpointRecordAgrees OBVIOUS
  <2> DEFINE c == [status |-> run.checkpoint_status, at_ms |-> run.checkpoint_at_ms,
                   request_id |-> run.checkpoint_request_id,
                   reason |-> run.checkpoint_reason,
                   artifact |-> IF run.checkpoint_artifact THEN "artifact" ELSE None]
  <2>1. RecordAgrees(run, worker) /\ RunTyped(run) BY DEF IInv
  <2>2. /\ c.status = run.checkpoint_status /\ c.at_ms = run.checkpoint_at_ms
        /\ c.request_id = run.checkpoint_request_id /\ c.reason = run.checkpoint_reason
        /\ c.artifact # None => run.checkpoint_artifact
    OBVIOUS
  <2> HIDE DEF c
  <2>3. c.request_id # None => c.request_id # 0
    BY <2>1, <2>2 DEF RunTyped, Option, RequestId
  <2>4. c.reason \in {None, "Footprint", "WallTime"}
    BY <2>1, <2>2 DEF RunTyped, Option, Limits
  <2>5. Schema!checkpoint_valid(c)
    BY <2>1, <2>2, <2>3, <2>4 DEF RecordAgrees, Schema!checkpoint_valid
  <2>6. Schema!checkpoint_valid(
            [status |-> run.checkpoint_status, at_ms |-> run.checkpoint_at_ms,
             request_id |-> run.checkpoint_request_id, reason |-> run.checkpoint_reason,
             artifact |-> IF run.checkpoint_artifact THEN "artifact" ELSE None])
    BY <2>5 DEF c
  <2> QED BY <2>1, <2>6 DEF RecordAgrees, CheckpointRecordAgrees
<1> QED BY <1>1, RunInvariant, PTL

-----------------------------------------------------------------------------
(* The intervention engine on its own, fed by any caller and answered by   *)
(* any platform (InterventionEngineSpec).  Its operators are those of the  *)
(* run loop's engine, so the decisions above are its decisions.  First     *)
(* what an event and an answer do to the machine and the queue.            *)

\* The action at the head of the queue after n attempts of the same event.
Waiting(m, a, n) ==
    \/ a.kind = "RequestCheckpoint" /\ m.state = "CheckpointRequested" /\ n = 0
    \/ a.kind \in {"SendTerm", "ForwardSignal"} /\ m.term_deadline # None /\ n <= 1
    \/ a = SendKill /\ n <= 2

Shape(m, t, p, n) ==
    /\ m \in Machine /\ m.config = EngineConfig
    /\ m.state # "Exited" => Enforcing(m, t)
    /\ \/ p = <<>>
       \/ m.state # "Exited" /\ \E a : p = <<a>> /\ Waiting(m, a, n)
    /\ n \in 0 .. 3

\* A shutdown that has no deadline left to wait for has tried KILL.
Armed(m, p, tried) ==
    (/\ p = <<>> /\ m.state # "Exited"
     /\ m.intervention_started /\ m.term_deadline = None) => tried

\* The attempts s of one event: a failed one is followed by a stronger one, made
\* or waiting in the queue p, and only a failed KILL ends them.
Chained(m, p, s) ==
    \A i \in 1 .. Len(s) : s[i].result \notin ActuationOutcome =>
        IF i < Len(s)
        THEN s[i].action # SendKill /\ s[i + 1].action.kind \in Stronger(s[i].action)
        ELSE IF s[i].action = SendKill
        THEN p = <<>> /\ m.state = "SupervisorError"
        ELSE p # <<>> /\ Head(p).kind \in Stronger(s[i].action)

\* The events the engine's callers feed at t.
Fed(m, e, t) ==
    \/ EventAt(m, e, t)
    \/ e.type = "ProcessExited" /\ e.at = t

LEMMA ExitedDecides ==
    ASSUME NEW m, m.state = "Exited", NEW e
    PROVE  decide(m, e).m = m /\ decide(m, e).acts = <<>> /\ decide(m, e).pending = <<>>
<1>1. apply(m, e) = Result(m, <<>>) BY DEF apply
<1>2. apply(m, e).m = m /\ apply(m, e).acts = <<>> BY <1>1 DEF Result
<1> QED BY <1>2, ActuationsOfNone DEF decide

LEMMA ExitDecides ==
    ASSUME NEW m, m.state # "Exited", NEW e, e.type = "ProcessExited"
    PROVE  /\ decide(m, e).m = [m EXCEPT !.state = "Exited"]
           /\ decide(m, e).pending = <<>>
<1> DEFINE b == ReportExit(e.final_footprint_bytes, m.post_signal_observations)
<1>1. apply(m, e) = Result([m EXCEPT !.state = "Exited"], <<b>>) BY DEF apply
<1>2. b.kind = "ReportExit" BY DEF ReportExit
<1> HIDE DEF b
<1>3. apply(m, e).m = [m EXCEPT !.state = "Exited"] /\ apply(m, e).acts = <<b>>
  BY <1>1 DEF Result
<1>4. actuations(<<b>>) = <<>> BY <1>2, ActuationsOfOne DEF Actuating
<1> QED BY <1>2, <1>3, <1>4 DEF decide

\* The event is decided: the queue holds at most one action, for which the
\* machine is waiting.
LEMMA EventShape ==
    ASSUME NEW m, NEW u, NEW t \in Duration, u \in Duration, u <= t, NEW n, NEW tried,
           Shape(m, u, <<>>, n), Armed(m, <<>>, tried), NEW e, Fed(m, e, t),
           NEW d, d = decide(m, e)
    PROVE  Shape(d.m, t, d.pending, 0) /\ Armed(d.m, d.pending, tried)
<1>1. CASE m.state = "Exited"
  <2>1. d.m = m /\ d.pending = <<>> BY <1>1, ExitedDecides
  <2> QED BY <1>1, <2>1 DEF Shape, Armed
<1>2. CASE m.state # "Exited" /\ e.type = "ProcessExited"
  <2>1. d.m = [m EXCEPT !.state = "Exited"] /\ d.pending = <<>> BY <1>2, ExitDecides
  <2>2. m \in Machine /\ m.config = EngineConfig BY DEF Shape
  <2>3. d.m \in Machine /\ d.m.config = EngineConfig /\ d.m.state = "Exited"
    BY <2>1, <2>2 DEF Machine, PolicyState
  <2> QED BY <2>1, <2>3 DEF Shape, Armed
<1>3. CASE m.state # "Exited" /\ e.type # "ProcessExited"
  <2>1. Enforcing(m, t)
    <3>1. Enforcing(m, u) BY <1>3 DEF Shape
    <3> QED BY <3>1, NoneAssumption DEF Enforcing, Machine, Option, Duration
  <2>2. EventAt(m, e, t) BY <1>3 DEF Fed
  <2>3. Decided(m, e.type, t, d) BY <2>1, <2>2, DecideDecided
  <2>4. /\ Enforcing(d.m, t) /\ d.m.config = EngineConfig /\ d.m \in Machine
        /\ d.m.state # "Exited"
    BY <2>3 DEF Decided, Shape, Enforcing
  <2>5. CASE Idles(m, d)
    BY <1>3, <2>4, <2>5 DEF Idles, Shape, Armed
  <2>6. CASE Requests(m, e.type, d)
    BY <2>4, <2>6 DEF Requests, Shape, Armed, Waiting
  <2>7. CASE Begins(m, e.type, t, d)
    <3>1. PICK a : d.pending = <<a>> /\ Opens(m, e.type, a) BY <2>7 DEF Begins
    <3>2. a.kind \in {"SendTerm", "ForwardSignal"} BY <3>1 DEF Opens
    <3>3. d.m.term_deadline # None
      BY <2>1, <2>7, SaturatingAdd, DurationIsNotNone
      DEF Begins, Enforcing, Machine, PolicyConfig
    <3> QED BY <2>4, <3>1, <3>2, <3>3 DEF Shape, Armed, Waiting
  <2>8. CASE Kills(m, e.type, t, d)
    BY <2>4, <2>8 DEF Kills, Shape, Armed, Waiting
  <2> QED BY <2>3, <2>5, <2>6, <2>7, <2>8 DEF Decided
<1> QED BY <1>1, <1>2, <1>3

\* The platform answers: a refusal is escalated, and the machine that asked for
\* nothing more has a deadline or has tried KILL.
Onward(a, answer, d) ==
    answer \notin ActuationOutcome =>
        IF a = SendKill THEN d.pending = <<>> /\ d.m.state = "SupervisorError"
        ELSE \E b : d.pending = <<b>> /\ b.kind \in Stronger(a)

LEMMA AnswerShape ==
    ASSUME NEW m, NEW t \in Duration, NEW n, NEW tried, NEW a, Shape(m, t, <<a>>, n),
           NEW answer, NEW d, d = answered(m, t, <<a>>, answer),
           NEW k, tried \/ actuation_for(a) = "Kill" => k
    PROVE  /\ n \in 0 .. 2
           /\ Shape(d.m, t, d.pending, n + 1)
           /\ Armed(d.m, d.pending, k)
           /\ Onward(a, answer, d)
<1>1. /\ m \in Machine /\ m.config = EngineConfig /\ m.state # "Exited" /\ Enforcing(m, t)
      /\ n \in 0 .. 3 /\ Waiting(m, a, n)
  <2>1. PICK b : <<a>> = <<b>> /\ Waiting(m, b, n) BY DEF Shape
  <2>2. a = b BY <2>1
  <2> QED BY <2>1, <2>2 DEF Shape
<1>2. n \in 0 .. 2 /\ n + 1 \in 0 .. 3 BY <1>1 DEF Waiting
<1>k. /\ SendKill.kind = "SendKill" BY DEF SendKill
<1>3. CASE answer \in ActuationOutcome
  <2>1. d.m = m /\ d.pending = <<>> BY <1>3, AnsweredOutcome
  <2>2. Shape(d.m, t, d.pending, n + 1) BY <1>1, <1>2, <2>1 DEF Shape
  <2>3. Armed(d.m, d.pending, k)
    <3>1. CASE a = SendKill BY <1>k, <3>1, ActuationKinds DEF Armed
    <3>2. CASE a # SendKill BY <1>1, <2>1, <3>2 DEF Waiting, Armed, Enforcing, Shutdown
    <3> QED BY <3>1, <3>2
  <2> QED BY <1>2, <1>3, <2>2, <2>3 DEF Onward
<1>4. CASE answer \notin ActuationOutcome /\ a.kind = "RequestCheckpoint"
  <2>1. m.state = "CheckpointRequested" /\ n = 0 /\ a # SendKill
    BY <1>1, <1>4, <1>k DEF Waiting
  <2>2. Decided(m, "ActuationFailed", t, d) /\ d.m.intervention_started
    BY <1>1, <1>4, <2>1, AnsweredFailure
  <2>3. ~m.intervention_started BY <1>1, <2>1 DEF Enforcing, Shutdown
  <2>4. Begins(m, "ActuationFailed", t, d)
    BY <2>2, <2>3 DEF Decided, Idles, Requests, Kills
  <2>5. PICK b : d.pending = <<b>> /\ Opens(m, "ActuationFailed", b) BY <2>4 DEF Begins
  <2>6. b.kind = "SendTerm" BY <2>5 DEF Opens
  <2>7. d.m.term_deadline # None
    BY <1>1, <2>4, SaturatingAdd, DurationIsNotNone DEF Begins, Machine, PolicyConfig
  <2>8. Waiting(d.m, b, n + 1) BY <2>1, <2>6, <2>7 DEF Waiting
  <2>9. Enforcing(d.m, t) /\ d.m.config = EngineConfig /\ d.m \in Machine /\ d.m.state # "Exited"
    BY <1>1, <2>2 DEF Decided, Enforcing
  <2>10. Shape(d.m, t, d.pending, n + 1) BY <1>2, <2>5, <2>8, <2>9 DEF Shape
  <2>11. Armed(d.m, d.pending, k)
    <3>1. d.pending # <<>> BY <2>5
    <3> QED BY <3>1 DEF Armed
  <2> QED BY <1>2, <1>4, <2>1, <2>5, <2>6, <2>10, <2>11 DEF Onward, Stronger
<1>5. CASE answer \notin ActuationOutcome /\ a.kind # "RequestCheckpoint"
  <2>1. a.kind \in {"SendTerm", "ForwardSignal", "SendKill"} /\ (a.kind = "SendKill" <=> a = SendKill)
    BY <1>1, <1>5, <1>k DEF Waiting
  <2>2. Escalates(m, t, a.kind = "SendKill", d) BY <1>1, <1>5, <2>1, AnsweredFailure
  <2>3. Enforcing(d.m, t) /\ d.m.config = EngineConfig /\ d.m \in Machine /\ d.m.state # "Exited"
    BY <1>1, <2>2 DEF Escalates, Enforcing
  <2>4. CASE a = SendKill
    <3>1. d.pending = <<>> /\ d.m.state = "SupervisorError" BY <2>1, <2>2, <2>4 DEF Escalates
    <3>2. Shape(d.m, t, d.pending, n + 1) BY <1>2, <2>3, <3>1 DEF Shape
    <3>3. Armed(d.m, d.pending, k) BY <1>k, <2>4, ActuationKinds DEF Armed
    <3> QED BY <1>2, <2>4, <3>1, <3>2, <3>3 DEF Onward
  <2>5. CASE a # SendKill
    <3>1. d.pending = <<SendKill>> BY <2>1, <2>2, <2>5 DEF Escalates
    <3>2. Waiting(d.m, SendKill, n + 1) BY <1>1, <1>5, <2>5 DEF Waiting
    <3>3. Shape(d.m, t, d.pending, n + 1) BY <1>2, <2>3, <3>1, <3>2 DEF Shape
    <3>4. Armed(d.m, d.pending, k)
      <4>1. d.pending # <<>> BY <3>1
      <4> QED BY <4>1 DEF Armed
    <3> QED BY <1>2, <1>5, <1>k, <2>5, <3>1, <3>3, <3>4 DEF Onward, Stronger
  <2> QED BY <2>4, <2>5
<1> QED BY <1>3, <1>4, <1>5

\* One more attempt carries the chain on.
LEMMA ChainStep ==
    ASSUME NEW m, NEW a, NEW s, s \in Seq(Range(s)), Chained(m, <<a>>, s), NEW answer, NEW d,
           Onward(a, answer, d), NEW x, x.action = a, x.result = answer,
           NEW u, u = Append(s, x)
    PROVE  Chained(d.m, d.pending, u)
<1>3. /\ Len(s) \in Nat /\ Len(u) = Len(s) + 1 /\ u[Len(u)] = x
      /\ \A i \in 1 .. Len(s) : u[i] = s[i]
  OBVIOUS
<1>4. <<a>> # <<>> /\ Head(<<a>>) = a OBVIOUS
<1> SUFFICES ASSUME NEW i \in 1 .. Len(u), u[i].result \notin ActuationOutcome
             PROVE  IF i < Len(u)
                    THEN u[i].action # SendKill /\ u[i + 1].action.kind \in Stronger(u[i].action)
                    ELSE IF u[i].action = SendKill
                    THEN d.pending = <<>> /\ d.m.state = "SupervisorError"
                    ELSE d.pending # <<>> /\ Head(d.pending).kind \in Stronger(u[i].action)
  BY DEF Chained
<1>5. CASE i = Len(u)
  <2>1. u[i] = x /\ ~(i < Len(u)) BY <1>3, <1>5
  <2>2. answer \notin ActuationOutcome BY <2>1
  <2>3. CASE a = SendKill BY <2>1, <2>2, <2>3 DEF Onward
  <2>4. CASE a # SendKill
    <3>1. PICK b : d.pending = <<b>> /\ b.kind \in Stronger(a)
      BY <2>2, <2>4 DEF Onward
    <3>2. d.pending # <<>> /\ Head(d.pending) = b BY <3>1
    <3> QED BY <2>1, <2>4, <3>1, <3>2
  <2> QED BY <2>3, <2>4
<1>6. CASE i = Len(s)
  <2>1. i \in 1 .. Len(s) /\ i < Len(u) /\ i + 1 = Len(u) BY <1>3, <1>6
  <2>2. u[i] = s[i] /\ u[i + 1] = x BY <1>3, <2>1
  <2>3. ~(i < Len(s)) BY <1>3, <1>6
  <2>4. s[i].action # SendKill /\ a.kind \in Stronger(s[i].action)
    BY <1>4, <2>1, <2>2, <2>3 DEF Chained
  <2> QED BY <2>1, <2>2, <2>4
<1>7. CASE i < Len(s)
  <2>1. i \in 1 .. Len(s) /\ i + 1 \in 1 .. Len(s) /\ i < Len(u) BY <1>3, <1>7
  <2>2. u[i] = s[i] /\ u[i + 1] = s[i + 1] BY <1>3, <2>1
  <2> QED BY <1>7, <2>1, <2>2 DEF Chained
<1> QED BY <1>3, <1>5, <1>6, <1>7

LEMMA ChainEscalates ==
    ASSUME NEW m, NEW s, Len(s) \in Nat, Chained(m, <<>>, s), NEW i \in 1 .. Len(s),
           s[i].result \notin ActuationOutcome
    PROVE  IF s[i].action = SendKill THEN m.state = "SupervisorError"
           ELSE \E j \in 1 .. Len(s) : j > i /\ s[j].action.kind \in Stronger(s[i].action)
<1>1. CASE i < Len(s)
  <2>1. i + 1 \in 1 .. Len(s) /\ i + 1 > i BY <1>1
  <2>2. s[i].action # SendKill /\ s[i + 1].action.kind \in Stronger(s[i].action)
    BY <1>1 DEF Chained
  <2> QED BY <2>1, <2>2
<1>2. CASE ~(i < Len(s)) BY <1>2 DEF Chained
<1> QED BY <1>1, <1>2

-----------------------------------------------------------------------------
(* The overshoot in the actions of an event is a number of bytes.          *)

Measured(a) ==
    /\ a.kind = "RecordOvershoot" => a.bytes \in Nat
    /\ a.kind = "RequestCheckpoint" => a.overshoot_bytes \in Nat

Sized(acts) == \A i \in DOMAIN acts : Measured(acts[i])

LEMMA SizedLists ==
    /\ Sized(<<>>)
    /\ \A a : Measured(a) => Sized(<<a>>)
    /\ \A a, b : Measured(a) /\ Measured(b) => Sized(<<a, b>>)
    /\ \A a, b, c : Measured(a) /\ Measured(b) /\ Measured(c) => Sized(<<a, b, c>>)
<1>1. Sized(<<>>) BY DEF Sized
<1>2. ASSUME NEW a, Measured(a) PROVE Sized(<<a>>)
  <2>1. DOMAIN <<a>> = {1} /\ <<a>>[1] = a OBVIOUS
  <2> QED BY <1>2, <2>1 DEF Sized
<1>3. ASSUME NEW a, NEW b, Measured(a), Measured(b) PROVE Sized(<<a, b>>)
  <2>1. DOMAIN <<a, b>> = {1, 2} /\ <<a, b>>[1] = a /\ <<a, b>>[2] = b OBVIOUS
  <2> QED BY <1>3, <2>1 DEF Sized
<1>4. ASSUME NEW a, NEW b, NEW c, Measured(a), Measured(b), Measured(c)
      PROVE  Sized(<<a, b, c>>)
  <2> DEFINE l == <<a, b, c>>
  <2>1. DOMAIN l = {1, 2, 3} /\ l[1] = a /\ l[2] = b /\ l[3] = c OBVIOUS
  <2> HIDE DEF l
  <2>2. Sized(l) BY <1>4, <2>1 DEF Sized
  <2> QED BY <2>2 DEF l
<1> QED BY <1>1, <1>2, <1>3, <1>4

LEMMA OtherActionsMeasured ==
    /\ Measured(RecordObservation) /\ Measured(RecordMissing) /\ Measured(SendKill)
    /\ \A x : Measured(SendTerm(x)) /\ Measured(ForwardSignal(x))
              /\ Measured(ReportSupervisorError(x))
    /\ \A b \in Nat : Measured(RecordOvershoot(b))
BY DEF Measured, RecordObservation, RecordMissing, SendKill, SendTerm, ForwardSignal,
    ReportSupervisorError, RecordOvershoot

LEMMA GracefulSized ==
    ASSUME NEW m, NEW t, NEW excess \in Nat, NEW c, NEW g, g = begin_graceful(m, t, excess, c)
    PROVE  \E a : g.acts = <<a>> /\ Measured(a)
<1>1. CASE m.config.checkpoint_timeout # None
  <2> DEFINE a == RequestCheckpoint(m.next_request_id, excess,
                                    saturating_add(t, m.config.checkpoint_timeout))
  <2>1. g.acts = <<a>> BY <1>1 DEF begin_graceful, Result
  <2>2. Measured(a) BY DEF Measured, RequestCheckpoint
  <2> QED BY <2>1, <2>2
<1>2. CASE m.config.checkpoint_timeout = None
  <2>1. g.acts = <<SendTerm(c)>> BY <1>2 DEF begin_graceful, Result
  <2> QED BY <2>1, OtherActionsMeasured
<1> QED BY <1>1, <1>2

LEMMA FootprintSized ==
    ASSUME NEW m, NEW t, NEW bytes \in Nat, m.config.limit_bytes \in Nat,
           m.config.emergency_bytes \in Nat, m.config.limit_bytes < m.config.emergency_bytes
    PROVE  Sized(apply_footprint(m, t, bytes).acts)
<1> DEFINE r == apply_footprint(m, t, bytes)
           excess == bytes - m.config.limit_bytes
           streak == saturating_inc(m.breach_streak)
           warned == [m EXCEPT !.breach_streak = streak, !.state = "Warning"]
           g == begin_graceful(warned, t, excess, "SkippedNotNegotiated")
           c1 == bytes >= m.config.emergency_bytes
           c2 == m.state = "CheckpointRequested"
           c3 == bytes < m.config.limit_bytes
           c4 == streak < m.config.required_breach_samples
<1>1. CASE c1
  <2>1. r.acts = <<RecordObservation, SendKill, RecordOvershoot(excess)>>
    BY <1>1 DEF apply_footprint, Result
  <2>2. excess \in Nat BY <1>1
  <2> HIDE DEF excess, r
  <2>3. Sized(r.acts) BY <2>1, <2>2, SizedLists, OtherActionsMeasured
  <2> QED BY <2>3 DEF r
<1>2. CASE ~c1 /\ (c2 \/ c3 \/ c4)
  <2>1. r.acts = <<RecordObservation>> BY <1>2 DEF apply_footprint, Result
  <2> HIDE DEF r
  <2>2. Sized(r.acts) BY <2>1, SizedLists, OtherActionsMeasured
  <2> QED BY <2>2 DEF r
<1>3. CASE ~c1 /\ ~c2 /\ ~c3 /\ ~c4
  <2>1. r.acts = IF m.config.checkpoint_timeout = None
                 THEN <<RecordObservation, g.acts[1], RecordOvershoot(excess)>>
                 ELSE <<RecordObservation, g.acts[1]>>
    BY <1>3 DEF apply_footprint, Result
  <2>2. excess \in Nat BY <1>3
  <2>3. g = begin_graceful(warned, t, excess, "SkippedNotNegotiated") OBVIOUS
  <2> HIDE DEF excess, r, g, warned
  <2>4. PICK a : g.acts = <<a>> /\ Measured(a) BY <2>2, <2>3, GracefulSized
  <2>5. g.acts[1] = a BY <2>4
  <2>6. Measured(RecordObservation) /\ Measured(RecordOvershoot(excess))
    BY <2>2, OtherActionsMeasured
  <2>7. Sized(<<RecordObservation, a, RecordOvershoot(excess)>>)
    BY <2>4, <2>6, SizedLists
  <2>8. Sized(<<RecordObservation, a>>) BY <2>4, <2>6, SizedLists
  <2>9. Sized(r.acts) BY <2>1, <2>5, <2>7, <2>8
  <2> QED BY <2>9 DEF r
<1> QED BY <1>1, <1>2, <1>3

LEMMA SampleSized ==
    ASSUME NEW m, NEW s, m \in Machine, m.mode = "Enforce", valid_config(m.config),
           s.aggregate_bytes \in Option(Nat)
    PROVE  Sized(apply_sample(m, s).acts)
<1> DEFINE r == apply_sample(m, s)
           p == IF m.intervention_started
                THEN saturating_inc(m.post_signal_observations)
                ELSE m.post_signal_observations
           seen == [m EXCEPT !.missing_streak = 0, !.post_signal_observations = p]
<1>1. CASE ~usable(m, s)
  <2>1. r = apply_missing(m, s.processed_at) BY <1>1 DEF apply_sample
  <2>2. \/ r.acts = <<RecordMissing>>
        \/ r.acts = <<RecordMissing, SendTerm("SkippedObservationFailure")>>
    BY <2>1 DEF apply_missing, Result
  <2> HIDE DEF r
  <2>3. Sized(r.acts) BY <2>2, SizedLists, OtherActionsMeasured
  <2> QED BY <2>3 DEF r
<1>2. CASE usable(m, s) /\ m.intervention_started
  <2>1. r.acts = <<RecordObservation>> BY <1>2 DEF apply_sample, Result
  <2> HIDE DEF r
  <2>2. Sized(r.acts) BY <2>1, SizedLists, OtherActionsMeasured
  <2> QED BY <2>2 DEF r
<1>3. CASE usable(m, s) /\ ~m.intervention_started
  <2>1. seen = [m EXCEPT !.missing_streak = 0,
                         !.post_signal_observations =
                             IF m.intervention_started THEN saturating_inc(@) ELSE @]
    BY DEF Machine
  <2>2. r = apply_footprint(seen, s.processed_at, s.aggregate_bytes)
    BY <1>3, <2>1 DEF apply_sample
  <2>3. s.aggregate_bytes \in Nat BY <1>3 DEF usable, Option
  <2>4. seen.config = m.config BY DEF Machine
  <2>5. /\ m.config.limit_bytes \in Nat /\ m.config.emergency_bytes \in Nat
        /\ m.config.limit_bytes < m.config.emergency_bytes
    BY DEF Machine, PolicyConfig, valid_config
  <2> HIDE DEF r, seen
  <2>6. Sized(r.acts) BY <2>2, <2>3, <2>4, <2>5, FootprintSized
  <2> QED BY <2>6 DEF r
<1> QED BY <1>1, <1>2, <1>3

LEMMA DispatchSized ==
    ASSUME NEW m, NEW e, NEW t, m \in Machine, m.mode = "Enforce", valid_config(m.config),
           EventAt(m, e, t)
    PROVE  Sized(dispatch(m, e).acts)
<1> DEFINE r == dispatch(m, e)
           Small == \/ r.acts = <<>> \/ r.acts = <<SendKill>>
                    \/ \E x : \/ r.acts = <<SendTerm(x)>> \/ r.acts = <<ForwardSignal(x)>>
                              \/ r.acts = <<ReportSupervisorError(x)>>
<1>s. ASSUME Small PROVE Sized(r.acts)
  <2> HIDE DEF r
  <2> QED BY <1>s, SizedLists, OtherActionsMeasured
<1>1. CASE e.type = "Sample"
  <2>1. dispatch(m, e) = apply_sample(m, e) BY <1>1 DEF dispatch
  <2>2. e.aggregate_bytes \in Option(Nat) BY <1>1 DEF EventAt
  <2> QED BY <2>1, <2>2, SampleSized
<1>2. CASE e.type = "Tick"
  <2> DEFINE g == begin_graceful(m, e.at, 0, "SkippedNotNegotiated")
  <2>1. r = apply_tick(m, e.at) BY <1>2 DEF dispatch
  <2>2. Small \/ r = g BY <2>1 DEF apply_tick, Result
  <2>3. ASSUME r = g PROVE Sized(r.acts)
    <3> HIDE DEF r
    <3>1. PICK a : g.acts = <<a>> /\ Measured(a) BY GracefulSized
    <3> QED BY <2>3, <3>1, SizedLists
  <2> QED BY <1>s, <2>2, <2>3
<1>3. CASE e.type = "RootExited"
  <2>1. r = apply_root_exited(m, e.at) BY <1>3 DEF dispatch
  <2>2. Small BY <2>1 DEF apply_root_exited, Result
  <2> QED BY <1>s, <2>2
<1>4. CASE e.type = "ParentExited"
  <2>1. r = apply_parent_exited(m, e.at) BY <1>4 DEF dispatch
  <2>2. Small BY <2>1 DEF apply_parent_exited, Result
  <2> QED BY <1>s, <2>2
<1>5. CASE e.type = "SupervisorFault"
  <2>1. r = apply_supervisor_fault(m, e.at) BY <1>5 DEF dispatch
  <2>2. Small BY <2>1 DEF apply_supervisor_fault, Result
  <2> QED BY <1>s, <2>2
<1>6. CASE e.type = "ExternalSignal"
  <2>1. r = apply_external_signal(m, e.at, e.signal) BY <1>6 DEF dispatch
  <2>2. Small BY <2>1 DEF apply_external_signal, Result
  <2> QED BY <1>s, <2>2
<1>7. CASE e.type = "CheckpointAck"
  <2>1. r = apply_checkpoint_ack(m, e.at, e.request_id, e.authenticated)
    BY <1>7 DEF dispatch
  <2>2. Small BY <2>1 DEF apply_checkpoint_ack, Result
  <2> QED BY <1>s, <2>2
<1>8. CASE e.type = "ActuationFailed"
  <2>1. r = apply_actuation_failed(m, e.at, e.action) BY <1>8 DEF dispatch
  <2>2. Small BY <2>1 DEF apply_actuation_failed, Result
  <2> QED BY <1>s, <2>2
<1> QED BY <1>1, <1>2, <1>3, <1>4, <1>5, <1>6, <1>7, <1>8 DEF EventAt

LEMMA EventSized ==
    ASSUME NEW m, NEW u, NEW t \in Duration, u \in Duration, u <= t, NEW n,
           Shape(m, u, <<>>, n), valid_config(EngineConfig), NEW e, Fed(m, e, t)
    PROVE  Sized(decide(m, e).acts)
<1>1. CASE m.state = "Exited" BY <1>1, ExitedDecides, SizedLists
<1>2. CASE m.state # "Exited" /\ e.type = "ProcessExited"
  <2> DEFINE b == ReportExit(e.final_footprint_bytes, m.post_signal_observations)
  <2>1. decide(m, e).acts = <<b>> BY <1>2 DEF decide, apply, Result
  <2>2. Measured(b) BY DEF Measured, ReportExit
  <2> HIDE DEF b
  <2> QED BY <2>1, <2>2, SizedLists
<1>3. CASE m.state # "Exited" /\ e.type # "ProcessExited"
  <2> DEFINE v == [m EXCEPT !.last_event_at = t]
  <2>1. Enforcing(m, t)
    <3>1. Enforcing(m, u) BY <1>3 DEF Shape
    <3> QED BY <3>1, NoneAssumption DEF Enforcing, Machine, Option, Duration
  <2>2. EventAt(m, e, t) BY <1>3 DEF Fed
  <2>3. event_at(e) = t BY <2>2 DEF EventAt, event_at
  <2>v. v = [m EXCEPT !.last_event_at = t] OBVIOUS
  <2>4. apply(m, e) = dispatch(v, e) BY <1>3, <2>1, <2>3, ApplyInOrder
  <2>5. /\ Enforcing(v, t) /\ v.state = m.state /\ v.config = m.config
        /\ v.active_request_id = m.active_request_id
    <3> HIDE DEF v
    <3> QED BY <2>1, <2>v, Stamped
  <2> HIDE DEF v
  <2>6. EventAt(v, e, t) BY <2>2, <2>5 DEF EventAt
  <2>7. v \in Machine /\ v.mode = "Enforce" BY <2>5 DEF Enforcing
  <2>8. valid_config(v.config) BY <2>5 DEF Shape
  <2>9. Sized(dispatch(v, e).acts) BY <2>6, <2>7, <2>8, DispatchSized
  <2> QED BY <2>4, <2>9 DEF decide
<1> QED BY <1>1, <1>2, <1>3

-----------------------------------------------------------------------------
(* The evidence.                                                           *)

EvidenceFields == {"records", "total_attempts", "dropped_records", "maximum_overshoot_bytes"}
RecordFields ==
    {"requested_at", "action", "result", "baseline_footprint_bytes",
     "first_observation_latency", "observed_footprint_decrease_latency", "group_empty_latency"}

\* The ring keeps its bound, its counters count what it dropped, and it ends in
\* the attempts s of the current event.
Ring(ev, s) ==
    /\ DOMAIN ev = EvidenceFields
    /\ ev.records \in Seq(Range(ev.records)) /\ s \in Seq(Range(s))
    /\ Len(ev.records) <= MAX_INTERVENTION_RECORDS
    /\ ev.dropped_records \in Nat /\ ev.maximum_overshoot_bytes \in Nat
    /\ ev.total_attempts = Len(ev.records) + ev.dropped_records
    /\ Len(s) <= Len(ev.records)
    /\ \A i \in 1 .. Len(s) :
          /\ ev.records[Len(ev.records) - Len(s) + i].action = s[i].action
          /\ ev.records[Len(ev.records) - Len(s) + i].result = s[i].result

\* The latencies of a record, none of which reaches beyond the present t; the end
\* of the group is dated once it is over, which it is at t or not at all.
Dated(r, t, over) ==
    /\ DOMAIN r = RecordFields /\ r.requested_at \in Nat
    /\ r.first_observation_latency # None =>
          /\ r.first_observation_latency \in Nat \ {0}
          /\ r.requested_at + r.first_observation_latency <= t
    /\ r.observed_footprint_decrease_latency # None =>
          /\ r.observed_footprint_decrease_latency \in Nat
          /\ r.first_observation_latency # None
          /\ r.first_observation_latency <= r.observed_footprint_decrease_latency
          /\ r.requested_at + r.observed_footprint_decrease_latency <= t
    /\ r.group_empty_latency = IF over /\ r.requested_at < t THEN t - r.requested_at ELSE None

AllDated(ev, t, over) == \A i \in DOMAIN ev.records : Dated(ev.records[i], t, over)

LEMMA LaterDated ==
    ASSUME NEW r, NEW t \in Nat, NEW u \in Nat, t <= u, Dated(r, t, FALSE)
    PROVE  Dated(r, u, FALSE)
BY DEF Dated

LEMMA ObserveDated ==
    ASSUME NEW r, NEW t \in Nat, NEW u \in Nat, t <= u, Dated(r, t, FALSE), NEW bytes
    PROVE  Dated(record_observe(r, u, bytes), u, FALSE)
<1> DEFINE x == record_observe(r, u, bytes)
           lower == /\ r.baseline_footprint_bytes # None
                    /\ bytes # None
                    /\ bytes < r.baseline_footprint_bytes
           latency == u - r.requested_at
           f == get_or_insert(r.first_observation_latency, latency)
           l == IF lower THEN get_or_insert(r.observed_footprint_decrease_latency, latency)
                ELSE r.observed_footprint_decrease_latency
<1>1. CASE u <= r.requested_at
  <2>1. x = r BY <1>1 DEF record_observe
  <2> QED BY <2>1, LaterDated
<1>2. CASE ~(u <= r.requested_at)
  <2>1. x = [r EXCEPT !.first_observation_latency = f,
                      !.observed_footprint_decrease_latency = l]
    BY <1>2 DEF record_observe, Dated, RecordFields
  <2>2. latency \in Nat \ {0} /\ latency # None /\ r.requested_at + latency = u
    BY <1>2, NoneAssumption DEF Dated
  <2>3. /\ f \in Nat \ {0} /\ f # None /\ f <= latency
        /\ r.first_observation_latency # None => f = r.first_observation_latency
    <3> HIDE DEF latency
    <3>1. CASE r.first_observation_latency = None BY <2>2, <3>1 DEF get_or_insert
    <3>2. CASE r.first_observation_latency # None
      <4>1. f = r.first_observation_latency BY <3>2 DEF get_or_insert
      <4> HIDE DEF f
      <4>2. /\ f \in Nat \ {0} /\ r.requested_at + f <= t /\ r.requested_at \in Nat
        BY <3>2, <4>1 DEF Dated
      <4> QED BY <2>2, <3>2, <4>1, <4>2
    <3> QED BY <3>1, <3>2
  <2>4. l = r.observed_footprint_decrease_latency \/ l = latency
    <3> HIDE DEF latency, lower
    <3> QED BY DEF get_or_insert
  <2> HIDE DEF x, f, l, latency, lower
  <2>5. /\ DOMAIN x = RecordFields /\ x.requested_at = r.requested_at
        /\ x.first_observation_latency = f /\ x.observed_footprint_decrease_latency = l
        /\ x.group_empty_latency = r.group_empty_latency /\ r.group_empty_latency = None
    BY <2>1 DEF Dated, RecordFields
  <2>6. r.requested_at \in Nat /\ r.requested_at + f <= u BY <2>2, <2>3 DEF Dated
  <2>7. l # None => l \in Nat /\ f <= l /\ r.requested_at + l <= u
    <3>1. CASE l = latency BY <2>2, <2>3, <2>6, <3>1
    <3>2. CASE l = r.observed_footprint_decrease_latency BY <2>3, <3>2 DEF Dated
    <3> QED BY <2>4, <3>1, <3>2
  <2>8. Dated(x, u, FALSE) BY <2>3, <2>5, <2>6, <2>7 DEF Dated
  <2> QED BY <2>8 DEF x
<1> QED BY <1>1, <1>2 DEF Dated

LEMMA GroupEmptyDated ==
    ASSUME NEW r, NEW t \in Nat, NEW u \in Nat, t <= u, Dated(r, t, FALSE)
    PROVE  Dated(record_group_empty(r, u), u, TRUE)
<1> DEFINE x == record_group_empty(r, u)
           l == u - r.requested_at
<1>1. Dated(r, u, FALSE) BY LaterDated
<1>2. r.group_empty_latency = None /\ r.requested_at \in Nat BY DEF Dated
<1>3. CASE r.requested_at < u
  <2>1. x = [r EXCEPT !.group_empty_latency = l]
    BY <1>2, <1>3 DEF record_group_empty, get_or_insert, Dated, RecordFields
  <2>2. /\ DOMAIN x = RecordFields /\ x.requested_at = r.requested_at
        /\ x.first_observation_latency = r.first_observation_latency
        /\ x.observed_footprint_decrease_latency = r.observed_footprint_decrease_latency
        /\ x.group_empty_latency = l
    BY <2>1 DEF Dated, RecordFields
  <2> HIDE DEF x
  <2>3. Dated(x, u, TRUE) BY <1>1, <1>3, <2>2 DEF Dated
  <2> QED BY <2>3 DEF x
<1>4. CASE ~(r.requested_at < u)
  <2>1. x = r BY <1>2, <1>4 DEF record_group_empty
  <2>2. Dated(r, u, TRUE) BY <1>1, <1>4 DEF Dated
  <2> QED BY <2>1, <2>2 DEF x
<1> QED BY <1>3, <1>4

\* An event that redates the records and measures its overshoot starts with no
\* attempt of its own.
LEMMA RecordsRedated ==
    ASSUME NEW ev, NEW s, Ring(ev, s), NEW v, DOMAIN v = EvidenceFields,
           v.total_attempts = ev.total_attempts, v.dropped_records = ev.dropped_records,
           v.maximum_overshoot_bytes \in Nat, DOMAIN v.records = DOMAIN ev.records,
           v.records = ev.records \/ \E f : v.records = [i \in DOMAIN ev.records |-> f[i]]
    PROVE  Ring(v, <<>>)
<1>1. /\ ev.records \in Seq(Range(ev.records)) /\ Len(ev.records) \in Nat
      /\ DOMAIN ev.records = 1 .. Len(ev.records)
  BY DEF Ring
<1> DEFINE q == v.records
<1>2. q \in Seq(Range(q)) /\ Len(q) = Len(ev.records)
  <2>1. CASE v.records = ev.records BY <1>1, <2>1
  <2>2. CASE \E f : v.records = [i \in DOMAIN ev.records |-> f[i]]
    <3>1. PICK f : q = [i \in 1 .. Len(ev.records) |-> f[i]] BY <1>1, <2>2
    <3>2. \A i \in 1 .. Len(ev.records) : q[i] \in Range(q) BY <3>1 DEF Range
    <3> HIDE DEF q
    <3>3. q \in Seq(Range(q)) BY <1>1, <3>1, <3>2
    <3> QED BY <1>1, <3>1, <3>3
  <2> QED BY <2>1, <2>2
<1>3. <<>> \in Seq(Range(<<>>)) /\ Len(<<>>) = 0 OBVIOUS
<1> QED BY <1>1, <1>2, <1>3 DEF Ring

\* evidence_observe, observe_group_empty and overshoots keep the ring and date it on.
LEMMA ObserveEvidence ==
    ASSUME NEW ev, NEW s, Ring(ev, s), NEW t \in Nat, NEW u \in Nat, t <= u, AllDated(ev, t, FALSE),
           NEW bytes, NEW v, v = evidence_observe(ev, u, bytes)
    PROVE  Ring(v, <<>>) /\ AllDated(v, u, FALSE)
<1> DEFINE f == [i \in DOMAIN ev.records |-> record_observe(ev.records[i], u, bytes)]
<1>1. v = [ev EXCEPT !.records = f] BY DEF evidence_observe, Ring, EvidenceFields
<1>2. /\ DOMAIN f = DOMAIN ev.records /\ f = [i \in DOMAIN ev.records |-> f[i]]
      /\ \A i \in DOMAIN ev.records : f[i] = record_observe(ev.records[i], u, bytes)
  OBVIOUS
<1> HIDE DEF f
<1>3. /\ DOMAIN v = EvidenceFields /\ v.records = f
      /\ v.total_attempts = ev.total_attempts /\ v.dropped_records = ev.dropped_records
      /\ v.maximum_overshoot_bytes = ev.maximum_overshoot_bytes
  BY <1>1 DEF Ring, EvidenceFields
<1>4. v.maximum_overshoot_bytes \in Nat BY <1>3 DEF Ring
<1>5. \E g : v.records = [i \in DOMAIN ev.records |-> g[i]]
  BY <1>2, <1>3
<1>6. Ring(v, <<>>) BY <1>2, <1>3, <1>4, <1>5, RecordsRedated
<1>7. ASSUME NEW i \in DOMAIN v.records PROVE Dated(v.records[i], u, FALSE)
  <2>1. i \in DOMAIN ev.records /\ v.records[i] = record_observe(ev.records[i], u, bytes)
    BY <1>2, <1>3, <1>7
  <2>2. Dated(ev.records[i], t, FALSE) BY <2>1 DEF AllDated
  <2>3. Dated(record_observe(ev.records[i], u, bytes), u, FALSE) BY <2>2, ObserveDated
  <2> QED BY <2>1, <2>3
<1> QED BY <1>6, <1>7 DEF AllDated

LEMMA GroupEmptyEvidence ==
    ASSUME NEW ev, NEW s, Ring(ev, s), NEW t \in Nat, NEW u \in Nat, t <= u, AllDated(ev, t, FALSE),
           NEW v, v = observe_group_empty(ev, u)
    PROVE  Ring(v, <<>>) /\ AllDated(v, u, TRUE)
<1> DEFINE f == [i \in DOMAIN ev.records |-> record_group_empty(ev.records[i], u)]
<1>1. v = [ev EXCEPT !.records = f] BY DEF observe_group_empty, Ring, EvidenceFields
<1>2. /\ DOMAIN f = DOMAIN ev.records /\ f = [i \in DOMAIN ev.records |-> f[i]]
      /\ \A i \in DOMAIN ev.records : f[i] = record_group_empty(ev.records[i], u)
  OBVIOUS
<1> HIDE DEF f
<1>3. /\ DOMAIN v = EvidenceFields /\ v.records = f
      /\ v.total_attempts = ev.total_attempts /\ v.dropped_records = ev.dropped_records
      /\ v.maximum_overshoot_bytes = ev.maximum_overshoot_bytes
  BY <1>1 DEF Ring, EvidenceFields
<1>4. v.maximum_overshoot_bytes \in Nat BY <1>3 DEF Ring
<1>5. \E g : v.records = [i \in DOMAIN ev.records |-> g[i]]
  BY <1>2, <1>3
<1>6. Ring(v, <<>>) BY <1>2, <1>3, <1>4, <1>5, RecordsRedated
<1>7. ASSUME NEW i \in DOMAIN v.records PROVE Dated(v.records[i], u, TRUE)
  BY <1>2, <1>3, <1>7, GroupEmptyDated DEF AllDated
<1> QED BY <1>6, <1>7 DEF AllDated

LEMMA QuietEvidence ==
    ASSUME NEW ev, NEW s, Ring(ev, s), NEW t \in Nat, NEW u \in Nat, t <= u, AllDated(ev, t, FALSE)
    PROVE  Ring(ev, <<>>) /\ AllDated(ev, u, FALSE)
<1>1. DOMAIN ev = EvidenceFields /\ ev.maximum_overshoot_bytes \in Nat BY DEF Ring
<1>2. Ring(ev, <<>>) BY <1>1, RecordsRedated
<1> QED BY <1>2, LaterDated DEF AllDated

LEMMA OvershootEvidence ==
    ASSUME NEW ev, Ring(ev, <<>>), NEW t, AllDated(ev, t, FALSE), NEW acts, Sized(acts),
           NEW v, v = overshoots(ev, acts)
    PROVE  Ring(v, <<>>) /\ AllDated(v, t, FALSE)
<1> DEFINE bytes == {acts[i].bytes : i \in {j \in DOMAIN acts :
                                            acts[j].kind = "RecordOvershoot"}}
                    \cup {acts[i].overshoot_bytes : i \in {j \in DOMAIN acts :
                                            acts[j].kind = "RequestCheckpoint"}}
           b == CHOOSE x \in bytes : TRUE
<1>1. v = IF bytes = {} THEN ev ELSE record_overshoot(ev, b) BY DEF overshoots
<1>2. bytes # {} => b \in bytes OBVIOUS
<1>3. \A x \in bytes : x \in Nat BY DEF Sized, Measured
<1> HIDE DEF bytes, b
<1>4. v = ev \/ (b \in Nat /\ v = [ev EXCEPT !.maximum_overshoot_bytes = b])
  BY <1>1, <1>2, <1>3 DEF record_overshoot
<1>5. CASE b \in Nat /\ v = [ev EXCEPT !.maximum_overshoot_bytes = b]
  <2>1. /\ DOMAIN v = EvidenceFields /\ v.records = ev.records
        /\ v.total_attempts = ev.total_attempts /\ v.dropped_records = ev.dropped_records
        /\ v.maximum_overshoot_bytes = b
    BY <1>5 DEF Ring, EvidenceFields
  <2>2. Ring(v, <<>>) BY <1>5, <2>1, RecordsRedated
  <2> QED BY <2>1, <2>2 DEF AllDated
<1> QED BY <1>4, <1>5

LEMMA Dropped ==
    ASSUME NEW q, q \in Seq(Range(q)), q # <<>>
    PROVE  /\ Tail(q) \in Seq(Range(q)) /\ Len(Tail(q)) = Len(q) - 1
           /\ \A i \in 1 .. Len(Tail(q)) : Tail(q)[i] = q[i + 1]
<1>1. Tail(q) \in Seq(Range(q)) /\ Len(Tail(q)) = Len(q) - 1 OBVIOUS
<1>2. \A i \in 1 .. Len(q) - 1 : Tail(q)[i] = q[i + 1] OBVIOUS
<1> QED BY <1>1, <1>2

\* An attempt is the last record of the ring, which makes room for it by dropping
\* an attempt of an earlier event.
Tells(y, a, answer) == y.action = a /\ y.result = answer

\* The evidence after an attempt.
Recorded(ev, s, t, a, answer, base, y) ==
    /\ Ring(record_attempt(ev, t, a, answer, base), Append(s, y))
    /\ AllDated(record_attempt(ev, t, a, answer, base), t, FALSE)

LEMMA AttemptEvidence ==
    ASSUME NEW ev, NEW s, NEW t \in Nat, NEW a, NEW answer, NEW base, NEW y,
           Ring(ev, s), Len(s) <= 2, AllDated(ev, t, FALSE), Tells(y, a, answer)
    PROVE  Recorded(ev, s, t, a, answer, base, y)
<1> DEFINE v == record_attempt(ev, t, a, answer, base)
           w == Append(s, y)
           x == NewRecord(t, a, answer, base)
           q == ev.records
           full == Len(q) = MAX_INTERVENTION_RECORDS
           kept == IF full THEN Tail(q) ELSE q
           p == Append(kept, x)
           n == Len(q)
           k == Len(s)
           c == IF full THEN ev.dropped_records + 1 ELSE ev.dropped_records
<1>1. Dated(x, t, FALSE) /\ x.action = a /\ x.result = answer
  BY DEF Dated, NewRecord, RecordFields
<1>3. v = [ev EXCEPT !.total_attempts = ev.total_attempts + 1,
                     !.dropped_records = c, !.records = p]
  BY DEF record_attempt, Ring, EvidenceFields
<1>0. w = Append(s, y) OBVIOUS
<1> HIDE DEF v, w
<1>4. /\ q \in Seq(Range(q)) /\ s \in Seq(Range(s)) /\ n \in Nat /\ k \in Nat
      /\ k <= n /\ n <= MAX_INTERVENTION_RECORDS /\ k <= 2
      /\ DOMAIN q = 1 .. n
  BY DEF Ring
<1>5. MAX_INTERVENTION_RECORDS \in Nat /\ MAX_INTERVENTION_RECORDS >= 3 BY CapacityAssumption
<1>6. /\ kept \in Seq(Range(q))
      /\ full => Len(kept) = n - 1 /\ \A i \in 1 .. Len(kept) : kept[i] = q[i + 1]
      /\ ~full => Len(kept) = n /\ \A i \in 1 .. Len(kept) : kept[i] = q[i]
  <2>1. CASE full
    <3>1. q # <<>> BY <1>4, <1>5, <2>1
    <3>2. kept = Tail(q) BY <2>1
    <3> HIDE DEF q, kept
    <3> QED BY <1>4, <2>1, <3>1, <3>2, Dropped
  <2>2. CASE ~full BY <1>4, <2>2
  <2> QED BY <2>1, <2>2
<1> HIDE DEF x, p, kept
<1>7. /\ Len(kept) \in Nat /\ Len(p) = Len(kept) + 1 /\ p[Len(p)] = x
      /\ \A i \in 1 .. Len(kept) : p[i] = kept[i]
      /\ DOMAIN p = 1 .. Len(p)
  BY <1>6 DEF p
<1>8. p \in Seq(Range(p))
  <2>1. \A i \in 1 .. Len(p) : p[i] \in Range(p) BY <1>7 DEF Range
  <2>2. p \in Seq(Range(q) \cup {x}) BY <1>6 DEF p
  <2> QED BY <1>7, <2>1, <2>2
<1>9. /\ Len(w) = k + 1 /\ w[k + 1] = y /\ \A i \in 1 .. k : w[i] = s[i]
  BY <1>0, <1>4
<1>10. w \in Seq(Range(w)) BY <1>0, <1>4, Appended
<1> HIDE DEF q, c
<1>11. /\ DOMAIN v = EvidenceFields /\ v.records = p
       /\ v.total_attempts = ev.total_attempts + 1 /\ v.dropped_records = c
       /\ v.maximum_overshoot_bytes = ev.maximum_overshoot_bytes
  BY <1>3 DEF Ring, EvidenceFields
<1>12. /\ Len(p) <= MAX_INTERVENTION_RECORDS /\ Len(w) <= Len(p)
       /\ c \in Nat /\ v.total_attempts = Len(p) + c
  <2>1. ev.dropped_records \in Nat /\ ev.total_attempts = n + ev.dropped_records
    BY DEF Ring, q
  <2>a. v.total_attempts = ev.total_attempts + 1 BY <1>11
  <2>b. /\ n \in Nat /\ k \in Nat /\ k <= n /\ n <= MAX_INTERVENTION_RECORDS
        /\ MAX_INTERVENTION_RECORDS \in Nat
    BY <1>4, <1>5
  <2>2. CASE full
    <3>1. Len(p) = n /\ Len(w) = k + 1 /\ c = ev.dropped_records + 1
      BY <1>4, <1>6, <1>7, <1>9, <2>2 DEF c
    <3>2. k + 1 <= n BY <1>4, <1>5, <2>2
    <3> HIDE DEF n, k, full
    <3> QED BY <2>1, <2>a, <2>b, <3>1, <3>2
  <2>3. CASE ~full
    <3>1. Len(p) = n + 1 /\ Len(w) = k + 1 /\ c = ev.dropped_records
      BY <1>4, <1>6, <1>7, <1>9, <2>3 DEF c
    <3>2. n # MAX_INTERVENTION_RECORDS BY <2>3
    <3> HIDE DEF n, k, full
    <3>3. n < MAX_INTERVENTION_RECORDS BY <2>b, <3>2
    <3>4. Len(p) <= MAX_INTERVENTION_RECORDS /\ Len(w) <= Len(p) BY <2>b, <3>1, <3>3
    <3>5. c \in Nat BY <2>1, <3>1
    <3>6. v.total_attempts = Len(p) + c
      <4>1. \A i, j \in Nat : (i + j) + 1 = (i + 1) + j OBVIOUS
      <4>2. v.total_attempts = (n + ev.dropped_records) + 1 BY <2>1, <2>a
      <4>3. v.total_attempts = (n + 1) + ev.dropped_records BY <2>1, <2>b, <4>1, <4>2
      <4> QED BY <3>1, <4>3
    <3> QED BY <3>4, <3>5, <3>6
  <2> QED BY <2>2, <2>3
<1>13. ASSUME NEW i \in 1 .. Len(w)
       PROVE  p[Len(p) - Len(w) + i].action = w[i].action
              /\ p[Len(p) - Len(w) + i].result = w[i].result
  <2>1. CASE i = k + 1
    <3>1. Len(p) - Len(w) + i = Len(p) BY <1>4, <1>7, <1>9, <2>1
    <3> QED BY <1>1, <1>7, <1>9, <2>1, <3>1 DEF Tells
  <2>2. CASE i # k + 1
    <3>1. i \in 1 .. k BY <1>4, <1>9, <2>2
    <3>2. q[n - k + i].action = s[i].action /\ q[n - k + i].result = s[i].result
      BY <3>1 DEF Ring, q
    <3>3. p[Len(p) - Len(w) + i] = q[n - k + i]
      <4> DEFINE j == Len(p) - Len(w) + i
      <4>1. CASE full
        <5>1. j \in 1 .. Len(kept) /\ j + 1 = n - k + i
          <6>1. Len(kept) = n - 1 /\ Len(p) = n /\ Len(w) = k + 1 /\ k + 1 <= n
            BY <1>4, <1>5, <1>6, <1>7, <1>9, <4>1
          <6> HIDE DEF n, k
          <6> QED BY <1>4, <3>1, <6>1
        <5> HIDE DEF j
        <5>2. p[j] = q[j + 1] BY <1>6, <1>7, <4>1, <5>1
        <5> QED BY <5>1, <5>2 DEF j
      <4>2. CASE ~full
        <5>1. j \in 1 .. Len(kept) /\ j = n - k + i
          <6>1. Len(kept) = n /\ Len(p) = n + 1 /\ Len(w) = k + 1
            BY <1>6, <1>7, <1>9, <4>2
          <6> HIDE DEF n, k
          <6> QED BY <1>4, <3>1, <6>1
        <5> HIDE DEF j
        <5>2. p[j] = q[j] BY <1>6, <1>7, <4>2, <5>1
        <5> QED BY <5>1, <5>2 DEF j
      <4> QED BY <4>1, <4>2
    <3> QED BY <1>9, <3>1, <3>2, <3>3
  <2> QED BY <2>1, <2>2
<1>14. v.maximum_overshoot_bytes \in Nat BY <1>11 DEF Ring
<1>15. Ring(v, w) BY <1>8, <1>10, <1>11, <1>12, <1>13, <1>14 DEF Ring
<1>16. ASSUME NEW i \in DOMAIN p PROVE Dated(p[i], t, FALSE)
  <2>1. \A j \in 1 .. n : Dated(q[j], t, FALSE) BY <1>4 DEF AllDated, q
  <2>2. CASE i = Len(p) BY <1>1, <1>7, <2>2
  <2>3. CASE i # Len(p)
    <3>1. i \in 1 .. Len(kept) BY <1>7, <2>3
    <3>2. CASE full
      <4>1. i + 1 \in 1 .. n /\ p[i] = q[i + 1] BY <1>4, <1>6, <1>7, <3>1, <3>2
      <4> QED BY <2>1, <4>1
    <3>3. CASE ~full
      <4>1. i \in 1 .. n /\ p[i] = q[i] BY <1>4, <1>6, <1>7, <3>1, <3>3
      <4> QED BY <2>1, <4>1
    <3> QED BY <3>2, <3>3
  <2> QED BY <2>2, <2>3
<1>17. AllDated(v, t, FALSE) BY <1>11, <1>16 DEF AllDated
<1> QED BY <1>15, <1>17 DEF Recorded, v, w

-----------------------------------------------------------------------------
(* The inductive invariant of the engine and its steps.                    *)

EngineFields == {"policy", "evidence", "last_observed_footprint_bytes"}

\* The engine g at t, with the queue p of the current event, its attempts s, and
\* whether KILL was tried.
EngineOK(g, p, t, s, tried, over) ==
    /\ DOMAIN g = EngineFields
    /\ t \in Duration
    /\ Shape(g.policy, t, p, Len(s))
    /\ Armed(g.policy, p, tried)
    /\ Chained(g.policy, p, s)
    /\ Ring(g.evidence, s)
    /\ AllDated(g.evidence, t, over)

LEMMA NoAttempts == Len(<<>>) = 0 /\ \A m, p : Chained(m, p, <<>>)
BY DEF Chained

LEMMA DurationIsNat == \A t \in Duration : t \in Nat
BY WidthAssumption DEF Duration

\* The engine that begin leaves.
Begun(g, e, b, d) ==
    /\ DOMAIN b.engine = EngineFields /\ b.engine.policy = d.m /\ b.pending = d.pending
    /\ \/ b.engine.evidence = overshoots(g.evidence, d.acts)
       \/ b.engine.evidence =
             overshoots(evidence_observe(g.evidence, event_at(e), e.aggregate_bytes), d.acts)

LEMMA BeginFields ==
    ASSUME NEW g, DOMAIN g = EngineFields, NEW e
    PROVE  Begun(g, e, begin(g, e), decide(g.policy, e))
<1> DEFINE b == begin(g, e)
           d == decide(g.policy, e)
           observed == \E i \in DOMAIN d.acts : d.acts[i] = RecordObservation
           v == evidence_observe(g.evidence, event_at(e), e.aggregate_bytes)
           seen == IF observed
                   THEN [g EXCEPT !.evidence = v,
                                  !.last_observed_footprint_bytes = e.aggregate_bytes]
                   ELSE g
           w == overshoots(seen.evidence, d.acts)
           q == [seen EXCEPT !.policy = d.m, !.evidence = w]
<1>1. DOMAIN seen = EngineFields /\ seen.evidence \in {g.evidence, v}
  <2> HIDE DEF v, observed
  <2> QED BY DEF EngineFields
<1>2. b = [engine |-> q, pending |-> d.pending]
  <2>1. seen = IF observed
               THEN [g EXCEPT !.evidence = evidence_observe(@, event_at(e), e.aggregate_bytes),
                              !.last_observed_footprint_bytes = e.aggregate_bytes]
               ELSE g
    <3> HIDE DEF observed
    <3> QED BY DEF EngineFields
  <2>2. q = [seen EXCEPT !.policy = d.m, !.evidence = overshoots(@, d.acts)]
    <3> HIDE DEF seen
    <3> QED BY <1>1 DEF EngineFields
  <2> QED BY <2>1, <2>2 DEF begin
<1>3. b.engine = q /\ b.pending = d.pending
  <2> HIDE DEF q
  <2> QED BY <1>2
<1>4. w = overshoots(g.evidence, d.acts) \/ w = overshoots(v, d.acts) BY <1>1
<1>5. DOMAIN q = EngineFields /\ q.policy = d.m /\ q.evidence = w
  <2> HIDE DEF seen, w
  <2> QED BY <1>1 DEF EngineFields
<1> HIDE DEF q, w, seen, b, d
<1>6. Begun(g, e, b, d) BY <1>3, <1>4, <1>5 DEF Begun
<1> QED BY <1>6 DEF b, d

LEMMA HandleStep ==
    ASSUME NEW g, NEW t, NEW s, NEW tried, EngineOK(g, <<>>, t, s, tried, FALSE),
           NEW u \in Duration, t <= u, valid_config(EngineConfig),
           NEW e, Fed(g.policy, e, u), NEW b, b = begin(g, e)
    PROVE  EngineOK(b.engine, b.pending, u, <<>>, tried, FALSE)
<1> DEFINE d == decide(g.policy, e)
           v == evidence_observe(g.evidence, event_at(e), e.aggregate_bytes)
<1>0. event_at(e) = u BY DEF Fed, EventAt, event_at
<1>1. /\ DOMAIN g = EngineFields /\ t \in Duration /\ Shape(g.policy, t, <<>>, Len(s))
      /\ Armed(g.policy, <<>>, tried) /\ Ring(g.evidence, s) /\ AllDated(g.evidence, t, FALSE)
      /\ t \in Nat /\ u \in Nat
  BY DurationIsNat DEF EngineOK
<1>3. d = decide(g.policy, e) OBVIOUS
<1> HIDE DEF d
<1>2. /\ DOMAIN b.engine = EngineFields /\ b.engine.policy = d.m /\ b.pending = d.pending
      /\ \/ b.engine.evidence = overshoots(g.evidence, d.acts)
         \/ b.engine.evidence = overshoots(v, d.acts)
  <2>1. DOMAIN g = EngineFields BY <1>1
  <2>2. Begun(g, e, b, d) BY <1>3, <2>1, BeginFields
  <2> QED BY <2>2 DEF Begun, v
<1>4. Shape(d.m, u, d.pending, 0) /\ Armed(d.m, d.pending, tried)
  BY <1>1, <1>3, EventShape
<1>5. Sized(d.acts) BY <1>1, <1>3, EventSized
<1>6. Ring(v, <<>>) /\ AllDated(v, u, FALSE)
  <2>1. v = evidence_observe(g.evidence, u, e.aggregate_bytes) BY <1>0
  <2> HIDE DEF v
  <2> QED BY <1>1, <2>1, ObserveEvidence
<1>7. Ring(g.evidence, <<>>) /\ AllDated(g.evidence, u, FALSE) BY <1>1, QuietEvidence
<1> HIDE DEF v
<1>8. Ring(b.engine.evidence, <<>>) /\ AllDated(b.engine.evidence, u, FALSE)
  BY <1>2, <1>5, <1>6, <1>7, OvershootEvidence
<1> QED BY <1>2, <1>4, <1>8, NoAttempts DEF EngineOK

LEMMA ExecutedFields ==
    ASSUME NEW g, DOMAIN g = EngineFields, NEW t, NEW p, NEW answer,
           NEW x, x = executed(g, t, p, answer), NEW d, d = answered(g.policy, t, p, answer)
    PROVE  /\ DOMAIN x.engine = EngineFields /\ x.engine.policy = d.m /\ x.pending = d.pending
           /\ x.engine.evidence = record_attempt(g.evidence, t, Head(p), answer,
                                                 g.last_observed_footprint_bytes)
<1> DEFINE v == record_attempt(g.evidence, t, Head(p), answer, g.last_observed_footprint_bytes)
           q == [g EXCEPT !.policy = d.m, !.evidence = v]
<1>1. x = [engine |-> q, pending |-> d.pending]
  <2>1. q = [g EXCEPT !.policy = d.m,
                      !.evidence = record_attempt(@, t, Head(p), answer,
                                                  g.last_observed_footprint_bytes)]
    BY DEF EngineFields
  <2> QED BY <2>1 DEF executed
<1>2. DOMAIN q = EngineFields /\ q.policy = d.m /\ q.evidence = v
  <2> HIDE DEF v
  <2> QED BY DEF EngineFields
<1> HIDE DEF q, v
<1>3. x.engine = q /\ x.pending = d.pending BY <1>1
<1> QED BY <1>2, <1>3 DEF v

\* The engine after the platform's answer.
ExecutedOK(g, p, t, s, tried, answer) ==
    LET x == executed(g, t, p, answer)
    IN EngineOK(x.engine, x.pending, t, Append(s, [action |-> Head(p), result |-> answer]),
                tried \/ actuation_for(Head(p)) = "Kill", FALSE)

LEMMA ExecuteStep ==
    ASSUME NEW g, NEW p, NEW t, NEW s, NEW tried, p # <<>>, EngineOK(g, p, t, s, tried, FALSE),
           NEW answer
    PROVE  ExecutedOK(g, p, t, s, tried, answer)
<1> DEFINE x == executed(g, t, p, answer)
           w == Append(s, [action |-> Head(p), result |-> answer])
           k == tried \/ actuation_for(Head(p)) = "Kill"
<1>0. x = executed(g, t, p, answer) OBVIOUS
<1>1. PICK a : p = <<a>> BY DEF EngineOK, Shape
<1>2. Head(p) = a BY <1>1
<1> DEFINE m == g.policy
           n == Len(s)
           d == answered(m, t, <<a>>, answer)
<1>3. /\ DOMAIN g = EngineFields /\ t \in Duration /\ Shape(m, t, <<a>>, n)
      /\ Armed(m, <<a>>, tried) /\ Chained(m, <<a>>, s) /\ Ring(g.evidence, s)
      /\ AllDated(g.evidence, t, FALSE) /\ t \in Nat /\ s \in Seq(Range(s))
  BY <1>1, DurationIsNat DEF EngineOK, Ring
<1>4. d = answered(m, t, <<a>>, answer) /\ d = answered(g.policy, t, p, answer) BY <1>1
<1> HIDE DEF d, x
<1>5. /\ DOMAIN x.engine = EngineFields /\ x.engine.policy = d.m /\ x.pending = d.pending
      /\ x.engine.evidence = record_attempt(g.evidence, t, a, answer,
                                            g.last_observed_footprint_bytes)
  BY <1>0, <1>2, <1>3, <1>4, ExecutedFields
<1>6. tried \/ actuation_for(a) = "Kill" => k BY <1>2
<1> DEFINE y == [action |-> a, result |-> answer]
<1>7. w = Append(s, y) /\ y.action = a /\ y.result = answer BY <1>2
<1> HIDE DEF m, n, w, k, y
<1>8. /\ n \in 0 .. 2 /\ Shape(d.m, t, d.pending, n + 1)
      /\ Armed(d.m, d.pending, k) /\ Onward(a, answer, d)
  BY <1>3, <1>4, <1>6, AnswerShape
<1>9. Chained(d.m, d.pending, w) BY <1>3, <1>7, <1>8, ChainStep
<1>10. n = Len(s) /\ Len(w) = n + 1 /\ Len(s) <= 2 BY <1>3, <1>7, <1>8 DEF n
<1>11. Ring(x.engine.evidence, w) /\ AllDated(x.engine.evidence, t, FALSE)
  <2> DEFINE ev == g.evidence
             base == g.last_observed_footprint_bytes
             v == record_attempt(ev, t, a, answer, base)
  <2>1. v = record_attempt(ev, t, a, answer, base) OBVIOUS
  <2>2. x.engine.evidence = v BY <1>5
  <2>3. Ring(ev, s) /\ Len(s) <= 2 /\ AllDated(ev, t, FALSE) /\ t \in Nat BY <1>3, <1>10
  <2>4. Tells(y, a, answer) /\ w = Append(s, y) BY <1>7 DEF Tells
  <2> HIDE DEF v, ev, base
  <2>5. Recorded(ev, s, t, a, answer, base, y) BY <2>3, <2>4, AttemptEvidence
  <2> QED BY <2>1, <2>2, <2>4, <2>5 DEF Recorded
<1>12. EngineOK(x.engine, x.pending, t, w, k, FALSE)
  BY <1>3, <1>5, <1>8, <1>9, <1>10, <1>11 DEF EngineOK
<1> QED BY <1>12 DEF ExecutedOK, x, w, k

\* The engine after it observed the group's status.
GroupObserved(q, u, tried, next) ==
    /\ EngineOK(q, <<>>, u, <<>>, tried, next = "GroupEmpty")
    /\ next = "TerminalSupervisorError" => tried
    /\ next \in {"GroupEmpty", "TerminalSupervisorError", "ObserveUntil"}

LEMMA GroupStep ==
    ASSUME NEW g, NEW t, NEW s, NEW tried, EngineOK(g, <<>>, t, s, tried, FALSE),
           NEW u \in Duration, t <= u, NEW exists \in BOOLEAN,
           NEW q, q = IF exists THEN g
                      ELSE [g EXCEPT !.evidence = observe_group_empty(@, u)],
           NEW next, next = group_progress(g, exists)
    PROVE  GroupObserved(q, u, tried, next)
<1> DEFINE m == g.policy
           v == observe_group_empty(g.evidence, u)
<1>1. /\ DOMAIN g = EngineFields /\ t \in Duration /\ Shape(m, t, <<>>, Len(s))
      /\ Armed(m, <<>>, tried) /\ Ring(g.evidence, s) /\ AllDated(g.evidence, t, FALSE)
      /\ t \in Nat /\ u \in Nat
  BY DurationIsNat DEF EngineOK
<1>2. Ring(g.evidence, <<>>) /\ AllDated(g.evidence, u, FALSE) BY <1>1, QuietEvidence
<1>3. Ring(v, <<>>) /\ AllDated(v, u, TRUE) BY <1>1, GroupEmptyEvidence
<1>4. /\ DOMAIN q = EngineFields /\ q.policy = m
      /\ q.evidence = IF exists THEN g.evidence ELSE v
  <2>1. CASE exists BY <1>1, <2>1
  <2>2. CASE ~exists
    <3>1. q = [g EXCEPT !.evidence = v] BY <1>1, <2>2 DEF EngineFields
    <3> HIDE DEF v
    <3> QED BY <1>1, <2>2, <3>1 DEF EngineFields
  <2> QED BY <2>1, <2>2
<1>5. Shape(m, u, <<>>, 0)
  <2>1. ASSUME Enforcing(m, t) PROVE Enforcing(m, u)
    BY <1>1, <2>1, NoneAssumption DEF Enforcing, Machine, Option, Duration
  <2> QED BY <1>1, <2>1 DEF Shape
<1>6. EngineOK(q, <<>>, u, <<>>, tried, next = "GroupEmpty")
  <2> HIDE DEF m, v
  <2>1. Ring(q.evidence, <<>>) /\ AllDated(q.evidence, u, next = "GroupEmpty")
    <3>1. CASE exists
      <4>1. (next = "GroupEmpty") = FALSE BY <3>1 DEF group_progress
      <4> QED BY <1>2, <1>4, <3>1, <4>1
    <3>2. CASE ~exists
      <4>1. (next = "GroupEmpty") = TRUE BY <3>2 DEF group_progress
      <4> QED BY <1>3, <1>4, <3>2, <4>1
    <3> QED BY <3>1, <3>2
  <2> QED BY <1>1, <1>4, <1>5, <2>1, NoAttempts DEF EngineOK
<1>7. ASSUME group_progress(g, exists) = "TerminalSupervisorError" PROVE tried
  <2>1. m.state = "SupervisorError" /\ next_deadline(m) = None
    BY <1>7 DEF group_progress
  <2>2. m.term_deadline = None BY <2>1 DEF next_deadline
  <2>3. m.state # "Exited" /\ Enforcing(m, t) BY <1>1, <2>1 DEF Shape
  <2>4. m.intervention_started BY <2>1, <2>3 DEF Enforcing, Shutdown
  <2> QED BY <1>1, <2>2, <2>3, <2>4 DEF Armed
<1>8. group_progress(g, exists) \in {"GroupEmpty", "TerminalSupervisorError", "ObserveUntil"}
  BY DEF group_progress
<1> QED BY <1>6, <1>7, <1>8 DEF GroupObserved

\* The inductive invariant of the engine fed by any caller.
EngineInv ==
    /\ EngineOK(engine, pending, now, attempted, killTried, progress = "GroupEmpty")
    /\ progress = "GroupEmpty" => pending = <<>>
    /\ progress = "TerminalSupervisorError" => killTried
    /\ progress \in {None, "GroupEmpty", "TerminalSupervisorError", "ObserveUntil"}

LEMMA EngineInitially ==
    ASSUME EngineInit
    PROVE  EngineInv
<1> DEFINE m == enforce_with_initial_request_id(EngineConfig, 1)
           g == NewEngine(m)
<1>1. /\ engine = g /\ pending = <<>> /\ now = 0 /\ attempted = <<>> /\ killTried = FALSE
      /\ progress = None
  BY DEF EngineInit, NewEngine, NewEngine, enforce_with_initial_request_id,
    enforce_with_initial_request_id, fresh, fresh, EmptyEvidence, EmptyEvidence
<1>2. /\ m \in Machine /\ m.config = EngineConfig /\ m.mode = "Enforce" /\ m.state = "Normal"
      /\ m.intervention_started = FALSE /\ m.term_deadline = None /\ m.last_event_at = None
  <2>1. 1 \in RequestId /\ 0 \in Count BY WidthAssumption DEF RequestId, Count
  <2> QED BY <2>1, EngineAssumption
       DEF enforce_with_initial_request_id, fresh, Machine, PolicyState, Option
<1>3. /\ DOMAIN g = EngineFields /\ g.policy = m /\ g.evidence = EmptyEvidence
  BY DEF NewEngine, EngineFields
<1> HIDE DEF g, m
<1>4. Enforcing(m, 0) BY <1>2 DEF Enforcing, Shutdown
<1>5. 0 \in Duration BY WidthAssumption DEF Duration
<1>6. Shape(m, 0, <<>>, 0) /\ Armed(m, <<>>, FALSE)
  BY <1>2, <1>4 DEF Shape, Armed
<1>7. Ring(EmptyEvidence, <<>>) /\ AllDated(EmptyEvidence, 0, FALSE)
  <2> DEFINE v == EmptyEvidence
  <2>1. /\ DOMAIN v = EvidenceFields /\ v.records = <<>> /\ v.total_attempts = 0
        /\ v.dropped_records = 0 /\ v.maximum_overshoot_bytes = 0
    BY DEF EmptyEvidence, EvidenceFields
  <2>2. Len(<<>>) = 0 /\ <<>> \in Seq(Range(<<>>)) /\ DOMAIN <<>> = {} OBVIOUS
  <2> HIDE DEF v
  <2>3. Ring(v, <<>>) /\ AllDated(v, 0, FALSE)
    BY <2>1, <2>2, CapacityAssumption DEF Ring, AllDated
  <2> QED BY <2>3 DEF v
<1>8. EngineOK(engine, pending, now, attempted, killTried, FALSE)
  BY <1>1, <1>3, <1>5, <1>6, <1>7, NoAttempts DEF EngineOK
<1>9. (progress = "GroupEmpty") = FALSE BY <1>1, EngineAssumption
<1> QED BY <1>1, <1>8, <1>9, EngineAssumption DEF EngineInv

LEMMA EngineHandles ==
    ASSUME EngineInv, NEW u \in Duration, now <= u,
           NEW e, Fed(engine.policy, e, u), Handle(e)
    PROVE  EngineInv'
<1> DEFINE b == begin(engine, e)
<1>1. /\ pending = <<>> /\ engine' = b.engine /\ pending' = b.pending /\ attempted' = <<>>
      /\ killTried' = killTried /\ progress' = progress
  BY DEF Handle
<1>2. now' = u
  <2>1. event_at(e) = u BY DEF Fed, EventAt, event_at
  <2> QED BY <2>1 DEF Handle
<1>0. (progress = "GroupEmpty") = FALSE BY DEF Handle
<1>3. EngineOK(engine, <<>>, now, attempted, killTried, FALSE) BY <1>0, <1>1 DEF EngineInv
<1>4. b = begin(engine, e) OBVIOUS
<1> HIDE DEF b
<1>5. EngineOK(b.engine, b.pending, u, <<>>, killTried, FALSE)
  BY <1>3, <1>4, EngineAssumption, HandleStep
<1> QED BY <1>0, <1>1, <1>2, <1>5 DEF EngineInv

LEMMA EngineExecutes ==
    ASSUME EngineInv, NEW answer, EngineExecute(answer)
    PROVE  EngineInv'
<1> DEFINE x == executed(engine, now, pending, answer)
           w == Append(attempted, [action |-> Head(pending), result |-> answer])
           k == (killTried \/ actuation_for(Head(pending)) = "Kill")
<1>1. /\ pending # <<>> /\ engine' = x.engine /\ pending' = x.pending /\ attempted' = w
      /\ killTried' = k /\ now' = now /\ progress' = progress
  BY DEF EngineExecute
<1>3. killTried => k OBVIOUS
<1> HIDE DEF x, w, k
<1>0. (progress = "GroupEmpty") = FALSE BY <1>1 DEF EngineInv
<1>4. EngineOK(engine, pending, now, attempted, killTried, FALSE) BY <1>0 DEF EngineInv
<1>5. EngineOK(x.engine, x.pending, now, w, k, FALSE)
  <2>1. ExecutedOK(engine, pending, now, attempted, killTried, answer)
    BY <1>1, <1>4, ExecuteStep
  <2> QED BY <2>1 DEF ExecutedOK, x, w, k
<1> QED BY <1>0, <1>1, <1>3, <1>5 DEF EngineInv

LEMMA EngineObservesGroup ==
    ASSUME EngineInv, NEW u \in Duration, now <= u, NEW exists \in BOOLEAN,
           observe_group_status(u, exists)
    PROVE  EngineInv'
<1> DEFINE q == IF exists THEN engine
                ELSE [engine EXCEPT !.evidence = observe_group_empty(@, u)]
<1>1. /\ pending = <<>> /\ now' = u /\ attempted' = <<>> /\ engine' = q
      /\ progress' = group_progress(engine, exists)
      /\ pending' = pending /\ killTried' = killTried
  BY DEF observe_group_status
<1>0. (progress = "GroupEmpty") = FALSE BY DEF observe_group_status
<1>2. EngineOK(engine, <<>>, now, attempted, killTried, FALSE) BY <1>0, <1>1 DEF EngineInv
<1>3. q = IF exists THEN engine
          ELSE [engine EXCEPT !.evidence = observe_group_empty(@, u)]
  OBVIOUS
<1> HIDE DEF q
<1> DEFINE next == progress'
<1>a. next = group_progress(engine, exists) BY <1>1
<1> HIDE DEF next
<1>4. GroupObserved(q, u, killTried, next) BY <1>2, <1>3, <1>a, GroupStep
<1> QED BY <1>1, <1>4, <1>a DEF EngineInv, GroupObserved, next

LEMMA EngineStep ==
    ASSUME EngineInv, EngineNext
    PROVE  EngineInv'
<1> DEFINE m == engine.policy
<1>l. ASSUME NEW u \in Later PROVE u \in Duration /\ now <= u
  BY DEF Later
<1>1. ASSUME NEW u \in Later, NEW b \in Option(Bytes), Sample(u, b)
      PROVE  EngineInv'
  <2> DEFINE e == [type |-> "Sample", captured_at |-> u, processed_at |-> u,
                   window |-> 1, aggregate_bytes |-> b]
  <2>1. Handle(e) BY <1>1 DEF Sample
  <2>2. b \in Option(Nat) BY EngineAssumption DEF Option
  <2>3. e.type = "Sample" /\ e.processed_at = u /\ e.aggregate_bytes = b OBVIOUS
  <2> HIDE DEF e
  <2>4. Fed(m, e, u) BY <2>2, <2>3 DEF Fed, EventAt
  <2> QED BY <1>l, <1>1, <2>1, <2>4, EngineHandles
<1>2. ASSUME NEW u \in Later, EngineTick(u) PROVE EngineInv'
  <2> DEFINE e == [type |-> "Tick", at |-> u]
  <2>1. Handle(e) BY <1>2 DEF EngineTick
  <2>2. Fed(m, e, u) BY DEF Fed, EventAt
  <2> HIDE DEF e
  <2> QED BY <1>l, <1>2, <2>1, <2>2, EngineHandles
<1>3. ASSUME NEW u \in Later, NEW completed \in BOOLEAN,
             CheckpointAnswered(u, completed)
      PROVE  EngineInv'
  <2>0. m.state = "CheckpointRequested" BY <1>3 DEF CheckpointAnswered
  <2>1. CASE completed
    <3> DEFINE e == [type |-> "CheckpointAck", at |-> u, authenticated |-> TRUE,
                     request_id |-> engine.policy.active_request_id]
    <3>1. Handle(e) BY <1>3, <2>1 DEF CheckpointAnswered
    <3>2. Fed(m, e, u) BY <2>0 DEF Fed, EventAt
    <3> HIDE DEF e
    <3> QED BY <1>l, <1>3, <3>1, <3>2, EngineHandles
  <2>2. CASE ~completed
    <3> DEFINE e == [type |-> "ActuationFailed", at |-> u, action |-> "Checkpoint"]
    <3>1. Handle(e) BY <1>3, <2>2 DEF CheckpointAnswered
    <3>2. Fed(m, e, u) BY <2>0 DEF Fed, EventAt
    <3> HIDE DEF e
    <3> QED BY <1>l, <1>3, <3>1, <3>2, EngineHandles
  <2> QED BY <2>1, <2>2
<1>4. ASSUME NEW u \in Later, ExternalSignal(u) PROVE EngineInv'
  <2> DEFINE e == [type |-> "ExternalSignal", at |-> u, signal |-> 2]
  <2>1. Handle(e) BY <1>4 DEF ExternalSignal
  <2>2. Fed(m, e, u) BY DEF Fed, EventAt
  <2> HIDE DEF e
  <2> QED BY <1>l, <1>4, <2>1, <2>2, EngineHandles
<1>5. ASSUME NEW u \in Later,
             NEW type \in {"RootExited", "ParentExited", "SupervisorFault"},
             Notice(u, type)
      PROVE  EngineInv'
  <2> DEFINE e == [type |-> type, at |-> u]
  <2>1. Handle(e) BY <1>5 DEF Notice
  <2>2. Fed(m, e, u) BY DEF Fed, EventAt
  <2> HIDE DEF e
  <2> QED BY <1>l, <1>5, <2>1, <2>2, EngineHandles
<1>6. ASSUME NEW u \in Later, ProcessExited(u) PROVE EngineInv'
  <2> DEFINE e == [type |-> "ProcessExited", at |-> u, final_footprint_bytes |-> None]
  <2>1. Handle(e) BY <1>6 DEF ProcessExited
  <2>2. Fed(m, e, u) BY DEF Fed
  <2> HIDE DEF e
  <2> QED BY <1>l, <1>6, <2>1, <2>2, EngineHandles
<1>7. ASSUME NEW answer, EngineExecute(answer) PROVE EngineInv'
  BY <1>7, EngineExecutes
<1>8. ASSUME NEW u \in Later, NEW exists \in BOOLEAN,
             observe_group_status(u, exists)
      PROVE  EngineInv'
  BY <1>l, <1>8, EngineObservesGroup
<1> HIDE DEF m
<1> QED BY <1>1, <1>2, <1>3, <1>4, <1>5, <1>6, <1>7, <1>8 DEF EngineNext

LEMMA EngineNextStep ==
    EngineInv /\ [EngineNext]_engine_vars => EngineInv'
<1>1. ASSUME EngineInv, UNCHANGED engine_vars PROVE EngineInv'
  <2>1. /\ engine' = engine /\ pending' = pending /\ now' = now /\ attempted' = attempted
        /\ killTried' = killTried /\ progress' = progress
    BY <1>1 DEF engine_vars
  <2> QED BY <1>1, <2>1 DEF EngineInv
<1> QED BY <1>1, EngineStep

\* The invariant holds in every behaviour of the engine, whoever calls it and
\* however the platform answers.
THEOREM EngineInvariant ==
    EngineSpec => []EngineInv
<1>1. EngineInit => EngineInv BY EngineInitially
<1>2. EngineInv /\ [EngineNext]_engine_vars => EngineInv' BY EngineNextStep
<1> QED BY <1>1, <1>2, PTL DEF EngineSpec

\* A signal that could not be delivered is never the end of it: handle does not
\* return from a refused TERM or forwarded signal without a KILL, from a refused
\* KILL without the supervisor error, and observe_group_status does not give up on
\* a live group that no KILL was tried on.
THEOREM EngineEscalates ==
    EngineSpec => []FailuresEscalate
<1>1. EngineInv => FailuresEscalate
  <2> SUFFICES ASSUME EngineInv PROVE FailuresEscalate OBVIOUS
  <2>1. /\ Chained(engine.policy, pending, attempted) /\ attempted \in Seq(Range(attempted))
    BY DEF EngineInv, EngineOK, Ring
  <2>2. Len(attempted) \in Nat /\ DOMAIN attempted = 1 .. Len(attempted) BY <2>1
  <2>3. ASSUME pending = <<>>, NEW i \in DOMAIN attempted,
               attempted[i].result \notin ActuationOutcome
        PROVE  IF attempted[i].action = SendKill
               THEN engine.policy.state = "SupervisorError"
               ELSE \E j \in DOMAIN attempted : j > i /\
                       attempted[j].action.kind \in Stronger(attempted[i].action)
    <3>1. Chained(engine.policy, <<>>, attempted) /\ i \in 1 .. Len(attempted)
      BY <2>1, <2>2, <2>3
    <3> QED BY <2>2, <2>3, <3>1, ChainEscalates
  <2>4. FailedSignalEscalates
    BY <2>3 DEF FailedSignalEscalates
  <2>5. GiveUpOnlyAfterKill BY DEF EngineInv, GiveUpOnlyAfterKill
  <2> QED BY <2>4, <2>5 DEF FailuresEscalate
<1>2. EngineSpec => []EngineInv BY EngineInvariant
<1> QED BY <1>1, <1>2, PTL

\* The run loop finds in the last records of the ring exactly the attempts of the
\* event it just handled, whatever the ring dropped before, and the counters lose
\* none of them.
THEOREM EngineRecordsAttempts ==
    EngineSpec => []AttemptsAreRecorded
<1>1. EngineInv => AttemptsAreRecorded
  <2> SUFFICES ASSUME EngineInv PROVE AttemptsAreRecorded OBVIOUS
  <2> DEFINE ev == engine.evidence
             m == engine.policy
  <2>1. /\ Shape(m, now, pending, Len(attempted)) /\ Ring(ev, attempted) /\ now \in Duration
    BY DEF EngineInv, EngineOK
  <2> HIDE DEF ev, m
  <2>2. /\ ev.records \in Seq(Range(ev.records)) /\ attempted \in Seq(Range(attempted))
        /\ Len(ev.records) <= MAX_INTERVENTION_RECORDS
        /\ ev.dropped_records \in Nat /\ ev.maximum_overshoot_bytes \in Nat
        /\ ev.total_attempts = Len(ev.records) + ev.dropped_records
        /\ Len(attempted) <= Len(ev.records)
        /\ \A i \in 1 .. Len(attempted) :
              /\ ev.records[Len(ev.records) - Len(attempted) + i].action = attempted[i].action
              /\ ev.records[Len(ev.records) - Len(attempted) + i].result = attempted[i].result
    BY <2>1 DEF Ring
  <2>3. ev.total_attempts \in Nat
    <3>1. Len(ev.records) \in Nat BY <2>2
    <3> QED BY <2>2, <3>1
  <2>4. \A i \in DOMAIN pending : IsActuation(pending[i])
    <3>1. CASE pending = <<>> BY <3>1
    <3>2. CASE pending # <<>>
      <4>1. PICK a : pending = <<a>> /\ Waiting(m, a, Len(attempted)) BY <2>1, <3>2 DEF Shape
      <4>2. a.kind \in {"RequestCheckpoint", "SendTerm", "SendKill", "ForwardSignal"}
        BY <4>1 DEF Waiting, SendKill
      <4>3. IsActuation(a) BY <4>2, ActuationKinds
      <4>4. DOMAIN pending = {1} /\ pending[1] = a BY <4>1
      <4> QED BY <4>3, <4>4
    <3> QED BY <3>1, <3>2
  <2>5. EngineTypeOK
    <3>1. m \in Machine BY <2>1 DEF Shape
    <3>2. progress \in {None, "GroupEmpty", "TerminalSupervisorError", "ObserveUntil"}
      BY DEF EngineInv
    <3> QED BY <2>1, <2>2, <2>3, <2>4, <3>1, <3>2 DEF EngineTypeOK, ev, m
  <2>6. TailIsThisEvent
    BY <2>2 DEF TailIsThisEvent, Records, ev
  <2> QED BY <2>5, <2>6 DEF AttemptsAreRecorded
<1>2. EngineSpec => []EngineInv BY EngineInvariant
<1> QED BY <1>1, <1>2, PTL

\* The latencies of every retained attempt are positive and in order, whatever
\* samples arrive and however often: the first observation, the decrease that it or
\* a later one shows, and the end of the group, dated for all attempts by the one
\* observation that found it empty, after which nothing is observed.
THEOREM EngineLatenciesAgree ==
    EngineSpec => []LatenciesAgree
<1>1. EngineInv => LatenciesAgree
  <2> DEFINE Agrees(r) ==
        /\ r.first_observation_latency # None =>
              /\ r.first_observation_latency > 0
              /\ r.requested_at + r.first_observation_latency <= now
        /\ r.observed_footprint_decrease_latency # None =>
              /\ r.first_observation_latency # None
              /\ r.first_observation_latency <= r.observed_footprint_decrease_latency
              /\ r.requested_at + r.observed_footprint_decrease_latency <= now
        /\ r.group_empty_latency # None <=> progress = "GroupEmpty" /\ r.requested_at < now
        /\ r.group_empty_latency # None => r.requested_at + r.group_empty_latency = now
  <2> SUFFICES ASSUME EngineInv, NEW i \in DOMAIN engine.evidence.records
               PROVE  Agrees(engine.evidence.records[i])
    BY DEF LatenciesAgree, Records
  <2> DEFINE r == engine.evidence.records[i]
  <2>1. Dated(r, now, progress = "GroupEmpty") /\ now \in Nat
    BY DurationIsNat DEF EngineInv, EngineOK, AllDated
  <2> HIDE DEF r
  <2>2. r.requested_at \in Nat BY <2>1 DEF Dated
  <2>3. r.requested_at < now => now - r.requested_at \in Nat /\ now - r.requested_at # None
    BY <2>1, <2>2, NoneAssumption
  <2>4. Agrees(r)
    <3>1. CASE progress = "GroupEmpty" BY <2>1, <2>2, <2>3, <3>1 DEF Dated
    <3>2. CASE progress # "GroupEmpty" BY <2>1, <2>2, <3>2 DEF Dated
    <3> QED BY <3>1, <3>2
  <2> QED BY <2>4 DEF r
<1>2. EngineSpec => []EngineInv BY EngineInvariant
<1> QED BY <1>1, <1>2, PTL
=============================================================================
