------------------------------ MODULE Explain ------------------------------
(***************************************************************************)
(* explain_report (crates/mlx-guard-core/src/explain.rs) for the reports of*)
(* the run loop: which plain-language row is chosen, and what the row says *)
(* was done.  Wording, links and numbers are left out: a row is its name,  *)
(* the action clause is the set of its claims.  The report is a record     *)
(* with the fields the rules read:                                         *)
(*   kind, child_signal, supervised (samples or a time other than zero),   *)
(*   signals, transitions (pairs), checkpoint, parent_exited, wall_time.   *)
(***************************************************************************)
EXTENDS SequencesExt

SIGKILL == 9
SIGTERM == 15

Delivered(record) == record.result = "Delivered"
Ended(record) == record.result = "ProcessMissing"
is_group_signal(record, signal) == record.target = "OwnedProcessGroup" /\ record.signal = signal

\* The first record with a property, or << >>.
find(records, Test(_)) ==
    LET found == SelectSeq(records, Test) IN IF found = << >> THEN << >> ELSE <<found[1]>>
some(records, Test(_)) == find(records, Test) # << >>

-----------------------------------------------------------------------------
(* What was done.                                                          *)

\* Mutant: any KILL after the TERM is told as its escalation, delivered or not.
kill_suffix_undelivered(signals, term) ==
    IF \E i \in term + 1 .. Len(signals) : is_group_signal(signals[i], SIGKILL)
    THEN {"killed"} ELSE {}

kill_suffix(signals, term) ==
    LET kill == find(SubSeq(signals, term + 1, Len(signals)),
                     LAMBDA r : is_group_signal(r, SIGKILL) /\ Delivered(r))
    IN IF kill = << >> THEN {}
       ELSE IF \/ kill[1].reason = "ExternalSignal"
               \/ kill[1].reason = signals[term].reason
       THEN {"killed"} ELSE {}

\* The claims of the clause; "stopped" is its last resort.
action_clause(report) ==
    LET signals == report.signals
        term == SelectInSeq(signals, LAMBDA r : is_group_signal(r, SIGTERM))
        asked == some(signals, LAMBDA r : r.target = "CooperativeEndpoint" /\ Delivered(r))
        after_term == IF term = 0 THEN {}
                      ELSE IF Delivered(signals[term])
                      THEN {"terminated"} \cup kill_suffix(signals, term)
                      ELSE IF Ended(signals[term]) THEN {"ended"} \cup kill_suffix(signals, term)
                      ELSE {}
        killed == some(signals, LAMBDA r : is_group_signal(r, SIGKILL) /\ Delivered(r))
    IN IF asked THEN {"asked"} \cup after_term
       ELSE IF after_term # {} THEN after_term
       ELSE IF killed THEN {"killed"} ELSE {"stopped"}

-----------------------------------------------------------------------------
(* The rows, in rule order.                                                *)

child_signaled(report) ==
    IF some(report.signals, LAMBDA r : /\ r.reason = "ExternalSignal" /\ Delivered(r)
                                       /\ r.signal = report.child_signal)
    THEN "passed_on" ELSE "elsewhere"

not_delivered(report) ==
    some(report.signals, LAMBDA r : r.target = "OwnedProcessGroup" /\ ~Delivered(r) /\ ~Ended(r))

supervisor_failure(report) ==
    IF ~report.supervised THEN "while_starting"
    ELSE IF not_delivered(report) THEN "not_delivered"
    ELSE IF some(report.signals, LAMBDA r : r.reason = "ObservationFailure") THEN "readings_lost"
    ELSE "internal_failure"

first_kill(report) == find(report.signals, LAMBDA r : is_group_signal(r, SIGKILL))

\* Mutant: an emergency during another shutdown is told as the cause of it.
emergency_from_any_state(report) ==
    /\ \E t \in report.transitions : t[2] = "Emergency"
    /\ first_kill(report) # << >>
    /\ Delivered(first_kill(report)[1]) \/ Ended(first_kill(report)[1])

emergency(report) ==
    /\ \E t \in report.transitions : t[1] \in {"Normal", "Warning"} /\ t[2] = "Emergency"
    /\ first_kill(report) # << >>
    /\ Delivered(first_kill(report)[1]) \/ Ended(first_kill(report)[1])

\* The checkpoint's reason before that of any signal.
recorded_cause(report) ==
    LET signal == find(report.signals,
                       LAMBDA r : r.reason \in {"Footprint", "WallTime", "ParentExit"})
        cause == IF report.checkpoint.reason \in {"Footprint", "WallTime"}
                 THEN report.checkpoint.reason
                 ELSE IF signal = << >> THEN "none" ELSE signal[1].reason
    IN IF \/ cause = "WallTime" /\ ~report.wall_time
          \/ cause = "ParentExit" /\ ~report.parent_exited
       THEN "none" ELSE cause

ignored_signal(report) ==
    LET External(r) == r.reason = "ExternalSignal"
        kill == SelectInSeq(report.signals, LAMBDA r : is_group_signal(r, SIGKILL) /\ External(r))
    IN /\ kill # 0
       /\ Delivered(report.signals[kill])
       /\ \E i \in 1 .. kill - 1 : External(report.signals[i]) /\ Delivered(report.signals[i])

survivors(report) ==
    /\ some(report.signals, LAMBDA r : r.reason = "RootExitCleanup")
    /\ first_kill(report) # << >>
    /\ Delivered(first_kill(report)[1]) \/ Ended(first_kill(report)[1])

policy_intervention(report) ==
    IF emergency(report) THEN "emergency"
    ELSE IF recorded_cause(report) # "none" THEN recorded_cause(report)
    ELSE IF ignored_signal(report) THEN "ignored_signal"
    ELSE IF survivors(report) THEN "survivors" ELSE "unrecorded"

\* A command that exited by itself needs no lines unless its code collides with
\* one of the supervisor's, which says nothing about what was done.
explain_report(report) ==
    CASE report.kind = "ChildExited" -> "child_exited"
      [] report.kind = "ChildSignaled" -> child_signaled(report)
      [] report.kind = "SupervisorFailure" -> supervisor_failure(report)
      [] report.kind = "PolicyIntervention" -> policy_intervention(report)

\* The rows that contain an action clause.
TellsActions == {"Footprint", "WallTime", "ParentExit", "readings_lost", "unrecorded"}
=============================================================================
