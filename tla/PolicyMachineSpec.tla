------------------------- MODULE PolicyMachineSpec -------------------------
(***************************************************************************)
(* The policy machine closed with an environment: any ordered or           *)
(* disordered sequence of events a caller may feed PolicyMachine::apply.   *)
(* The machine is started by either constructor with any configuration of  *)
(* Configs; enforce() refuses the invalid ones.  The history variables     *)
(* record what the environment did and what the machine asked for, and are *)
(* never read by the machine.                                              *)
(***************************************************************************)
EXTENDS PolicyMachine

CONSTANTS
    Configs,     \* the configurations a caller may ask for
    Times,       \* the instants at which events happen
    Bytes,       \* the aggregate footprints a sample may carry
    Windows,     \* the collection windows a sample may have
    Signals      \* the terminal signals a user may send

ASSUME EnvironmentAssumption ==
    /\ Configs \subseteq PolicyConfig
    /\ Times \subseteq Duration
    /\ Bytes \subseteq Nat
    /\ Windows \subseteq Nat

VARIABLES
    policy,      \* the machine
    acts,        \* the actions returned by the last apply
    killAsked,   \* history: SendKill was returned by some apply
    requests,    \* history: number of RequestCheckpoint actions returned
    external,    \* history: an ExternalSignal event was applied
    over,        \* history: usable samples at or above the limit in a row
    lost,        \* history: unusable samples in a row
    provoked     \* history: an input that justifies an intervention happened

machineVars == <<policy, acts>>
vars == <<policy, acts, killAsked, requests, external, over, lost, provoked>>

Kinds(s) == {s[i].kind : i \in DOMAIN s}

Init ==
    /\ \E c \in Configs :
          \/ policy = observe(c)
          \/ /\ valid_config(c)
             /\ policy = enforce_with_initial_request_id(c, 1)
    /\ acts = <<>>
    /\ killAsked = FALSE
    /\ requests = 0
    /\ external = FALSE
    /\ over = 0
    /\ lost = 0
    /\ provoked = FALSE

Step(e) ==
    LET r == apply(policy, e)
    IN /\ policy' = r.m
       /\ acts' = r.acts
       /\ killAsked' = (killAsked \/ "SendKill" \in Kinds(r.acts))
       /\ requests' = requests +
             IF "RequestCheckpoint" \in Kinds(r.acts) THEN 1 ELSE 0

\* The history of the reasons to intervene; the counts end with the first.
Tally(o, l, reason) ==
    /\ provoked' = (provoked \/ reason)
    /\ over' = IF provoked' THEN 0 ELSE o
    /\ lost' = IF provoked' THEN 0 ELSE l

\* An event that is itself a reason to intervene.
Provoking(e) == Step(e) /\ Tally(over, lost, TRUE)

\* An event older than the last one is a reason to intervene whatever it is.
Regressed(at) == policy.last_event_at # None /\ at < policy.last_event_at

Sample(captured, processed, window, bytes) ==
    LET e == [type |-> "Sample", captured_at |-> captured,
              processed_at |-> processed, window |-> window,
              aggregate_bytes |-> bytes]
        good == usable(policy, e)
        o == IF ~good THEN over
             ELSE IF bytes >= policy.config.limit_bytes THEN over + 1 ELSE 0
        l == IF good THEN 0 ELSE lost + 1
    IN /\ Step(e)
       /\ Tally(o, l, \/ Regressed(processed)
                      \/ good /\ bytes >= policy.config.emergency_bytes
                      \/ o >= policy.config.required_breach_samples
                      \/ l >= policy.config.max_missing_samples)
       /\ UNCHANGED external

Tick(at) ==
    /\ Step([type |-> "Tick", at |-> at])
    /\ Tally(over, lost, Regressed(at) \/ reached(policy.config.wall_time, at))
    /\ UNCHANGED external

CheckpointAck(at, id, authenticated) ==
    /\ Step([type |-> "CheckpointAck", at |-> at, request_id |-> id,
             authenticated |-> authenticated])
    /\ Tally(over, lost, Regressed(at))
    /\ UNCHANGED external

ExternalSignal(at, signal) ==
    /\ Provoking([type |-> "ExternalSignal", at |-> at, signal |-> signal])
    /\ external' = TRUE

\* The engine reports a failure only of an actuation it has just executed, or
\* of the checkpoint exchange while a request is outstanding.
ActuationFailed(at, action) ==
    /\ \/ action = "Checkpoint" /\ policy.state = "CheckpointRequested"
       \/ action = "Term" /\ "SendTerm" \in Kinds(acts)
       \/ action = "Kill" /\ "SendKill" \in Kinds(acts)
       \/ action = "ForwardSignal" /\ "ForwardSignal" \in Kinds(acts)
    /\ Step([type |-> "ActuationFailed", at |-> at, action |-> action])
    /\ Tally(over, lost, Regressed(at))
    /\ UNCHANGED external

SupervisorFault(at) ==
    Provoking([type |-> "SupervisorFault", at |-> at]) /\ UNCHANGED external

RootExited(at) ==
    Provoking([type |-> "RootExited", at |-> at]) /\ UNCHANGED external

ParentExited(at) ==
    Provoking([type |-> "ParentExited", at |-> at]) /\ UNCHANGED external

ProcessExited(bytes) ==
    /\ Step([type |-> "ProcessExited", final_footprint_bytes |-> bytes])
    /\ UNCHANGED <<external, over, lost, provoked>>

Next ==
    \/ \E captured, processed \in Times, w \in Windows, b \in Option(Bytes) :
          Sample(captured, processed, w, b)
    \/ \E at \in Times : Tick(at)
    \/ \E at \in Times, id \in RequestId, ok \in BOOLEAN :
          CheckpointAck(at, id, ok)
    \/ \E at \in Times, s \in Signals : ExternalSignal(at, s)
    \/ \E at \in Times, action \in ActuationKind : ActuationFailed(at, action)
    \/ \E at \in Times : SupervisorFault(at)
    \/ \E at \in Times : RootExited(at)
    \/ \E at \in Times : ParentExited(at)
    \/ \E b \in Option(Bytes) : ProcessExited(b)

Spec == Init /\ [][Next]_vars

-----------------------------------------------------------------------------
(* Properties.                                                             *)

Shutdown == {"Terminating", "SupervisorError", "Emergency", "Exited"}
BeforeShutdown == {"Observe", "Normal", "Warning", "CheckpointRequested"}

\* Every field of the machine and every history variable keeps its type.
TypeOK ==
    /\ policy \in Machine
    /\ killAsked \in BOOLEAN
    /\ external \in BOOLEAN
    /\ provoked \in BOOLEAN
    /\ requests \in Nat
    /\ over \in Nat
    /\ lost \in Nat

\* A shutdown can never stall (policy.rs, every handler that latches
\* intervention_started): once the machine has asked for the first signal and
\* the process has not exited, either KILL has been asked for or a deadline is
\* armed that will make a later tick ask for it.
EscalationArmed ==
    (policy.intervention_started /\ policy.state # "Exited")
        => (killAsked \/ next_deadline(policy) # None)

\* The checkpoint exchange is at most once per run (begin_graceful): the
\* channel accepts one request only, so a second one would be refused and cost
\* the worker its acknowledgement window.
AtMostOneCheckpointRequest == requests <= 1

\* A healthy run is left alone: an enforcing machine intervenes, or asks for a
\* checkpoint, only after an input that justifies it -- a terminal signal, a
\* root or parent exit, a fault, a clock regression, the wall limit, an
\* emergency sample, the required run of breaching samples, or the configured
\* run of unusable ones, counted here from the inputs alone.
\* An observing machine never asks for TERM or for a checkpoint at all, and for
\* KILL only after a terminal signal.
NoUnprovokedIntervention ==
    /\ (policy.intervention_started \/ requests > 0) => provoked
    /\ policy.mode = "Observe" =>
          /\ Kinds(acts) \cap {"SendTerm", "RequestCheckpoint"} = {}
          /\ killAsked => external

\* A deadline handed out is never extended or brought forward: the checkpoint
\* window promised to the worker and the TERM grace are each fixed when armed
\* and only ever cleared (docs/INTERVENTION.md, "A blocked worker cannot
\* extend either deadline").
DeadlinesNeverMove ==
    [][/\ policy.term_deadline # None =>
             policy'.term_deadline \in {policy.term_deadline, None}
       /\ policy.checkpoint_deadline # None =>
             policy'.checkpoint_deadline \in {policy.checkpoint_deadline, None}
      ]_vars

\* An intervention is never undone, and never starts over: after the first
\* signal the machine stays in the shutdown states and asks for no second TERM
\* or checkpoint and forwards no second signal.
InterventionIsFinal ==
    [][policy.intervention_started =>
          /\ policy'.intervention_started
          /\ policy'.state \in Shutdown
          /\ Kinds(acts') \cap {"SendTerm", "RequestCheckpoint", "ForwardSignal"} = {}
      ]_vars
=============================================================================
