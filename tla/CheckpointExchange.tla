------------------------- MODULE CheckpointExchange -------------------------
(***************************************************************************)
(* One cooperative checkpoint: the supervisor's loop driving its channel   *)
(* (crates/mlx-guard-cli/src/runtime.rs, poll_checkpoint_channel, and the  *)
(* Checkpoint arm of ProcessInterventionActuator::execute), the socketpair *)
(* and SIGUSR1 between them, and the Python worker                         *)
(* (python/mlx_guard/_checkpoint.py).  A descendant that inherited the     *)
(* descriptor may write frames, read those meant for the worker and answer *)
(* in its place; other processes may send SIGUSR1.                         *)
(***************************************************************************)
EXTENDS CheckpointChannel

CONSTANTS
    Timeout,     \* the configured checkpoint timeout
    MaxTime,     \* bound: the last instant of the run
    MaxNoise,    \* bound: frames a descendant writes
    MaxStray     \* bound: SIGUSR1s sent by somebody else

ASSUME ExchangeAssumption ==
    /\ Timeout \in Nat \ {0} /\ MaxTime \in Nat
    /\ MaxNoise \in Nat /\ MaxStray \in Nat
    /\ None \notin Nat
    /\ None \notin {"Completed", "Failed", "Cancelled", "closing", "closed"}
    /\ None \notin CheckpointRejection
    /\ None \notin [kind: {"ack"}, nonce: BOOLEAN, id: Nat,
                    status: {"Completed", "Failed", "Cancelled"}]

VARIABLES
    channel,      \* the CheckpointChannel
    negotiation,  \* RunRuntime::checkpoint_negotiation
    exchange,     \* "idle", "signal", "outstanding", or how the request ended
    loop,         \* the supervisor's place in its loop: "poll", "tick", "sleep"
    clock,        \* the supervisor's clock
    toWorker,     \* frames written to the worker
    toSupervisor, \* halves of frames written to the supervisor
    worker,       \* the worker: see WorkerStates
    outgoing,     \* halves the worker's sendall has not written yet
    noise, stray, \* how many times each disturbance happened
    answered,     \* history: what a descendant answered in the worker's place
    promised,     \* history: the deadline of the request
    writtenAt,    \* history: when the worker's acknowledgement was all written
    heardAt,      \* history: when the supervisor took the acknowledgement
    killedAt      \* history: where SIGUSR1 found the worker it terminated

supervisorVars == <<channel, negotiation, exchange, loop, clock, promised, heardAt>>
workerVars == <<worker, outgoing, writtenAt, killedAt>>
disturbance == <<noise, stray, answered>>
vars == <<supervisorVars, workerVars, disturbance, toWorker, toSupervisor>>

WorkerPlaces ==
    {"start", "install", "ready", "work", "reading", "callback", "closing",
     "closed", "dead"}
WorkerStates ==
    [at: WorkerPlaces, pending: BOOLEAN, handled: BOOLEAN, handler: BOOLEAN,
     open: BOOLEAN, status: {None, "Completed", "Failed", "Cancelled"}]

Id == 1
Ack(id, nonce, status) == [kind |-> "ack", nonce |-> nonce, id |-> id, status |-> status]
Ready == [kind |-> "ready", nonce |-> TRUE]
Halves(frame) == <<Half(frame, 1), Half(frame, 2)>>

\* What a descendant may write: frames that carry neither this run's nonce nor
\* this request's id, and the worker's own frames, which it can make once it has
\* looked at the hello (docs/CHECKPOINT_PROTOCOL.md: it "can observe or answer
\* the exchange").
Bogus == {Ack(Id, FALSE, "Completed"), Ack(Id + 1, TRUE, "Completed"), [kind |-> "junk"]}
Plausible == {Ready} \cup {Ack(Id, TRUE, status) : status \in {"Completed", "Failed", "Cancelled"}}

Init ==
    /\ channel = NewChannel
    /\ negotiation = "Pending"
    /\ exchange = "idle"
    /\ loop = "poll"
    /\ clock = 0
    /\ toWorker = <<>>
    /\ toSupervisor = <<>>
    /\ worker = [at |-> "start", pending |-> FALSE, handled |-> FALSE,
                 handler |-> FALSE, open |-> TRUE, status |-> None]
    /\ outgoing = <<>>
    /\ noise = 0 /\ stray = 0 /\ answered = {}
    /\ promised = None /\ writtenAt = None /\ heardAt = None /\ killedAt = None

Drop(n) == toSupervisor' = SubSeq(toSupervisor, n + 1, Len(toSupervisor))

-----------------------------------------------------------------------------
(* The supervisor.                                                         *)

begin_negotiation ==
    /\ ~channel.negotiation_started
    /\ worker.open
    /\ channel' = [channel EXCEPT !.negotiation_started = TRUE]
    /\ toWorker' = Append(toWorker, [kind |-> "hello"])
    /\ UNCHANGED <<negotiation, exchange, loop, clock, promised, heardAt, workerVars,
                   disturbance, toSupervisor>>

\* poll_checkpoint_channel while negotiation is pending.
PollReady ==
    /\ loop = "poll" /\ channel.negotiation_started /\ negotiation = "Pending"
    /\ LET r == poll_ready(channel, toSupervisor, ~worker.open)
       IN /\ channel' = r.ch
          /\ Drop(r.n)
          /\ negotiation' = IF ~r.ok THEN "Unavailable"
                            ELSE IF r.ch.ready THEN "Ready" ELSE "Pending"
    /\ loop' = "tick"
    /\ UNCHANGED <<exchange, clock, promised, heardAt, workerVars, disturbance, toWorker>>

\* The policy asks for the checkpoint: the frame is written first.
Request ==
    LET deadline == clock + Timeout
    IN /\ exchange = "idle" /\ loop = "tick"
       /\ \/ /\ \/ ~channel.ready
                \/ request_error(channel.protocol, Id, clock, deadline)
             /\ exchange' = "refused"
             /\ UNCHANGED <<channel, promised, toWorker>>
          \/ /\ channel.ready
             /\ ~request_error(channel.protocol, Id, clock, deadline)
             /\ channel' = [channel EXCEPT !.protocol = begin_request(@, Id, deadline)]
             /\ promised' = deadline
             /\ IF worker.open
                THEN /\ toWorker' = Append(toWorker, [kind |-> "request", id |-> Id])
                     /\ exchange' = "signal"
                ELSE exchange' = "refused" /\ UNCHANGED toWorker
       /\ UNCHANGED <<negotiation, loop, clock, heardAt, workerVars, disturbance,
                      toSupervisor>>

\* signal_checkpoint: the worker runs its handler, or is terminated without one.
\* An endpoint that is gone cancels the exchange and shuts the channel down.
Signal ==
    /\ exchange = "signal"
    /\ IF worker.at = "dead"
       THEN /\ exchange' = "refused"
            /\ channel' = [channel EXCEPT !.protocol = cancelled(@), !.open = FALSE]
            /\ UNCHANGED <<worker, killedAt>>
       ELSE /\ exchange' = "outstanding"
            /\ worker' = IF worker.handler THEN [worker EXCEPT !.pending = TRUE]
                         ELSE [worker EXCEPT !.at = "dead", !.open = FALSE]
            /\ killedAt' = IF worker.handler THEN killedAt ELSE worker.at
            /\ UNCHANGED channel
    /\ UNCHANGED <<negotiation, loop, clock, promised, heardAt, outgoing, writtenAt,
                   disturbance, toWorker, toSupervisor>>

\* poll_checkpoint_channel once negotiated: the channel is polled only while
\* the request is outstanding.
PollAnswer ==
    /\ loop = "poll" /\ negotiation # "Pending"
    /\ loop' = "tick"
    /\ IF exchange = "outstanding" /\ negotiation = "Ready"
       THEN \E q \in poll(channel.protocol, clock, toSupervisor, ~worker.open) :
              /\ channel' = [channel EXCEPT !.protocol = q.r.p]
              /\ Drop(q.n)
              /\ exchange' = CASE q.r.status = "Completed" -> "acknowledged"
                               [] q.r.status \in {"Failed", "Cancelled"} -> "rejected"
                               [] q.r.rejection \in {"EndpointExited", "PostExit"} ->
                                     "unavailable"
                               [] OTHER -> exchange
              /\ heardAt' = IF q.r.status = "Completed" THEN clock ELSE heardAt
       ELSE UNCHANGED <<channel, toSupervisor, exchange, heardAt>>
    /\ UNCHANGED <<negotiation, clock, promised, workerVars, disturbance, toWorker>>

\* The policy's own tick gives up at the same deadline.
Tick ==
    /\ loop = "tick" /\ exchange # "signal"
    /\ loop' = "sleep"
    /\ exchange' = IF exchange = "outstanding" /\ clock >= promised
                   THEN "timed_out" ELSE exchange
    /\ UNCHANGED <<channel, negotiation, clock, promised, heardAt, workerVars,
                   disturbance, toWorker, toSupervisor>>

Sleep ==
    /\ loop = "sleep" /\ clock < MaxTime
    /\ loop' = "poll"
    /\ clock' = clock + 1
    /\ UNCHANGED <<channel, negotiation, exchange, promised, heardAt, workerVars,
                   disturbance, toWorker, toSupervisor>>

-----------------------------------------------------------------------------
(* The Python worker.                                                      *)

\* connect: _read_frame and _decode_hello, which raise after a timeout or on
\* another frame and close the channel.
ReadHello ==
    /\ worker.at = "start"
    /\ worker' = IF toWorker # <<>> /\ Head(toWorker).kind = "hello"
                 THEN [worker EXCEPT !.at = "install"]
                 ELSE [worker EXCEPT !.at = "closed", !.open = FALSE]
    /\ toWorker' = IF toWorker = <<>> THEN <<>> ELSE Tail(toWorker)
    /\ UNCHANGED <<supervisorVars, disturbance, outgoing, writtenAt, killedAt, toSupervisor>>

\* Mutant: readiness is announced before the handler is installed.
ready_before_handler ==
    \/ /\ worker.at = "install" /\ outgoing = <<>>
       /\ worker' = [worker EXCEPT !.at = "ready"]
       /\ outgoing' = Halves(Ready)
       /\ UNCHANGED <<supervisorVars, disturbance, writtenAt, killedAt, toWorker, toSupervisor>>
    \/ /\ worker.at = "ready" /\ outgoing = <<>>
       /\ worker' = [worker EXCEPT !.at = "work", !.handler = TRUE]
       /\ UNCHANGED <<supervisorVars, disturbance, outgoing, writtenAt, killedAt,
                      toWorker, toSupervisor>>

\* connect: the handler is installed, then the ready frame is sent.
InstallHandler ==
    \/ /\ worker.at = "install"
       /\ worker' = [worker EXCEPT !.at = "ready", !.handler = TRUE]
       /\ outgoing' = Halves(Ready)
       /\ UNCHANGED <<supervisorVars, disturbance, writtenAt, killedAt, toWorker, toSupervisor>>
    \/ /\ worker.at = "ready" /\ outgoing = <<>>
       /\ worker' = [worker EXCEPT !.at = "work"]
       /\ UNCHANGED <<supervisorVars, disturbance, outgoing, writtenAt, killedAt,
                      toWorker, toSupervisor>>

\* sendall writes what is left, in one piece or two; a channel that was shut
\* down raises instead.
Write(n) ==
    /\ worker.at # "dead" /\ n <= Len(outgoing)
    /\ IF channel.open
       THEN /\ toSupervisor' = toSupervisor \o SubSeq(outgoing, 1, n)
            /\ outgoing' = SubSeq(outgoing, n + 1, Len(outgoing))
            /\ writtenAt' = IF n = Len(outgoing) /\ worker.status # None
                            THEN clock ELSE writtenAt
       ELSE outgoing' = <<>> /\ UNCHANGED <<toSupervisor, writtenAt>>
    /\ UNCHANGED <<supervisorVars, disturbance, worker, killedAt, toWorker>>

\* poll with a pending signal: the request is handled at most once.
Poll ==
    /\ worker.at = "work" /\ worker.pending /\ outgoing = <<>>
    /\ worker' = IF worker.handled THEN [worker EXCEPT !.pending = FALSE]
                 ELSE [worker EXCEPT !.pending = FALSE, !.handled = TRUE,
                                     !.at = "reading"]
    /\ UNCHANGED <<supervisorVars, disturbance, outgoing, writtenAt, killedAt,
                   toWorker, toSupervisor>>

\* _read_frame and _decode_request; without a frame it times out and raises.
ReadRequest ==
    /\ worker.at = "reading"
    /\ \/ /\ toWorker # <<>>
          /\ worker' = [worker EXCEPT !.at = "callback"]
          /\ toWorker' = Tail(toWorker)
       \/ /\ toWorker = <<>>
          /\ worker' = [worker EXCEPT !.at = "work"]
          /\ UNCHANGED toWorker
    /\ UNCHANGED <<supervisorVars, disturbance, outgoing, writtenAt, killedAt, toSupervisor>>

\* The callback returns, or raises, and the acknowledgement is sent.
Callback(status) ==
    /\ worker.at = "callback"
    /\ worker' = [worker EXCEPT !.at = "work", !.status = status]
    /\ outgoing' = Halves(Ack(Id, TRUE, status))
    /\ UNCHANGED <<supervisorVars, disturbance, writtenAt, killedAt, toWorker, toSupervisor>>

\* close restores the previous SIGUSR1 disposition, then closes the channel.
Close ==
    \/ /\ worker.at = "work" /\ outgoing = <<>>
       /\ worker' = [worker EXCEPT !.at = "closing", !.handler = FALSE]
       /\ UNCHANGED <<supervisorVars, disturbance, outgoing, writtenAt, killedAt,
                      toWorker, toSupervisor>>
    \/ /\ worker.at = "closing"
       /\ worker' = [worker EXCEPT !.at = "closed", !.open = FALSE]
       /\ UNCHANGED <<supervisorVars, disturbance, outgoing, writtenAt, killedAt,
                      toWorker, toSupervisor>>

-----------------------------------------------------------------------------
(* The rest of the world.                                                  *)

WorkerExits ==
    /\ worker.at # "dead"
    /\ worker' = [worker EXCEPT !.at = "dead", !.open = FALSE]
    /\ UNCHANGED <<supervisorVars, disturbance, outgoing, writtenAt, killedAt,
                   toWorker, toSupervisor>>

Noise(frame) ==
    /\ noise < MaxNoise /\ channel.open
    /\ noise' = noise + 1
    /\ toSupervisor' = toSupervisor \o Halves(frame)
    /\ frame \in Plausible => channel.negotiation_started
    /\ answered' = answered \cup ({frame} \cap Plausible)
    /\ UNCHANGED <<supervisorVars, workerVars, stray, toWorker>>

\* A descendant reads what was meant for the worker.
Intercept ==
    /\ toWorker # <<>>
    /\ toWorker' = Tail(toWorker)
    /\ UNCHANGED <<supervisorVars, workerVars, disturbance, toSupervisor>>

Stray ==
    /\ stray < MaxStray /\ worker.handler /\ worker.at # "dead"
    /\ stray' = stray + 1
    /\ worker' = [worker EXCEPT !.pending = TRUE]
    /\ UNCHANGED <<supervisorVars, noise, answered, outgoing, writtenAt, killedAt, toWorker, toSupervisor>>

Next ==
    \/ begin_negotiation \/ PollReady \/ Request \/ Signal \/ PollAnswer \/ Tick \/ Sleep
    \/ ReadHello \/ InstallHandler \/ Poll \/ ReadRequest \/ Close
    \/ \E n \in 1 .. 2 : Write(n)
    \/ \E status \in {"Completed", "Failed", "Cancelled"} : Callback(status)
    \/ WorkerExits
    \/ \E frame \in Bogus \cup Plausible : Noise(frame)
    \/ Intercept \/ Stray

Spec == Init /\ [][Next]_vars

-----------------------------------------------------------------------------
(* Properties.                                                             *)

Outcomes == {"idle", "signal", "outstanding", "acknowledged", "rejected",
             "unavailable", "refused", "timed_out"}

\* The channel, the worker and the histories keep their types.
TypeOK ==
    /\ channel.protocol.state \in CheckpointProtocolState
    /\ Len(channel.protocol.buffer) <= MaxBuffer
    /\ Len(channel.negotiation_buffer) <= ReadyHalves
    /\ negotiation \in {"Pending", "Ready", "Unavailable"}
    /\ exchange \in Outcomes
    /\ worker \in WorkerStates
    /\ \A t \in {promised, writtenAt, heardAt} : t = None \/ t \in Nat

\* An acknowledged checkpoint is a real one: the supervisor took the answer
\* strictly before the deadline it had sent, and the worker's own callback had
\* declared the request completed.  The nonce is plaintext on the inherited
\* descriptor, so the one other source is a descendant that answered the request
\* itself, with that nonce and id (docs/CHECKPOINT_PROTOCOL.md, "possession-bound
\* cooperation"); no other frame it writes makes a checkpoint acknowledged.
GenuineAck ==
    exchange = "acknowledged" =>
        /\ heardAt < promised
        /\ worker.status = "Completed" \/ Ack(Id, TRUE, "Completed") \in answered

\* SIGUSR1, whose default action is termination, is never sent to a worker that
\* has not yet installed its handler: readiness is announced after it, and no
\* request is made before readiness (docs/CHECKPOINT_PROTOCOL.md, "Negotiation
\* and signal safety"), unless a descendant announced it in the worker's place.
SignalFindsHandler == killedAt \in {None, "closing", "closed"} \/ Ready \in answered

\* A checkpoint saved in time is not thrown away: with nobody else writing on
\* the descriptor, a request times out only if the worker's answer was not
\* completely written before the loop's last poll ahead of the deadline.
TimelyAckHeard ==
    (exchange = "timed_out" /\ noise = 0) =>
        (writtenAt = None \/ writtenAt >= promised - 1)

\* The supervisor hears the worker's timely answer and takes no late or failed
\* one, and none without this run's nonce and id, for a completed checkpoint (poll,
\* ingest); it loses none that was in time to the way the stream was split.
AckIsHeardAndGenuine == TypeOK /\ GenuineAck /\ TimelyAckHeard
=============================================================================
