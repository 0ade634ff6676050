------------------------- MODULE CheckpointChannel --------------------------
(***************************************************************************)
(* The supervisor's side of the cooperative checkpoint exchange            *)
(* (crates/mlx-guard-core/src/checkpoint.rs): CheckpointProtocol, the      *)
(* at-most-once exchange with its frame buffer, inside CheckpointChannel,  *)
(* the nonblocking descriptor and its readiness negotiation.               *)
(*                                                                         *)
(* A frame is a record; the stream carries it as two halves, so that a     *)
(* read may end inside a frame or run over into the next one.  The bytes   *)
(* of a frame are abstracted to its kind, whether its nonce is the run's,  *)
(* its request id, and the worker's status.                                *)
(***************************************************************************)
EXTENDS Integers, Sequences

CONSTANTS None

MaxBuffer == 4     \* halves that fit MAX_CHECKPOINT_FRAME_BYTES + header
ReadyHalves == 2   \* halves of a negotiation frame, the whole of its buffer

Half(frame, part) == [frame |-> frame, part |-> part]

CheckpointProtocolState ==
    {"Idle", "RequestedUnverified", "AcknowledgedUnverifiedDurability",
     "WorkerFailed", "TimedOut", "Cancelled"}

CheckpointRejection ==
    {"WrongNonce", "Replay", "Duplicate", "Malformed", "Oversized", "Partial",
     "Late", "EndpointExited", "PostExit", "PostCancel"}

NewProtocol ==
    [state |-> "Idle", active_request_id |-> None, deadline_at |-> None,
     buffer |-> <<>>, endpoint_exited |-> FALSE]

NewChannel ==
    [protocol |-> NewProtocol, negotiation_started |-> FALSE, ready |-> FALSE,
     negotiation_buffer |-> <<>>, open |-> TRUE]

\* One CheckpointPoll: the protocol after it, the acknowledged status if any,
\* and the rejection if any.
Polled(p, status, rejection) == [p |-> p, status |-> status, rejection |-> rejection]
rejected(p, reason) == Polled(p, None, reason)

-----------------------------------------------------------------------------
(* CheckpointProtocol.                                                     *)

\* The protocol after an accepted request.
begin_request(p, id, deadline) ==
    [p EXCEPT !.state = "RequestedUnverified", !.active_request_id = id,
              !.deadline_at = deadline]

request_error(p, id, at, deadline) ==
    \/ p.state # "Idle"
    \/ id = 0
    \/ deadline <= at
    \/ p.endpoint_exited

cleared(p) == [p EXCEPT !.buffer = <<>>]

\* Mutant: a read that ends inside a frame loses what it brought.
receive_frame_drops_partial(p, halves) ==
    LET buffer == p.buffer \o halves
    IN IF Len(buffer) < 2 THEN {[p |-> cleared(p), frame |-> None, error |-> None]}
       ELSE IF Len(buffer) = 2 /\ buffer[2] = Half(buffer[1].frame, 2)
       THEN {[p |-> cleared(p), frame |-> buffer[1].frame, error |-> None]}
       ELSE {[p |-> cleared(p), frame |-> None, error |-> "Malformed"]}

\* The possible results of buffering a read.  The length of the frame comes
\* from its first half; after a discarded buffer the stream may resume in the
\* middle of a frame, and then any number is read as the length.
receive_frame(p, halves) ==
    LET buffer == p.buffer \o halves
        kept == {[p |-> [p EXCEPT !.buffer = buffer], frame |-> None, error |-> None]}
        dropped(reason) == {[p |-> cleared(p), frame |-> None, error |-> reason]}
    IN IF Len(buffer) > MaxBuffer THEN dropped("Oversized")
       ELSE IF halves = <<>> \/ buffer = <<>> THEN kept
       ELSE IF buffer[1].part = 2
       THEN kept \cup dropped("Oversized") \cup dropped("Malformed")
       ELSE IF Len(buffer) < 2 THEN kept
       ELSE IF Len(buffer) > 2 THEN dropped("Malformed")
       ELSE {[p |-> cleared(p), error |-> None,
              frame |-> IF buffer[2] = Half(buffer[1].frame, 2)
                        THEN buffer[1].frame ELSE [kind |-> "junk"]]}

\* The acknowledgement a complete frame carries, or the reason it carries none.
accept_frame(p, frame) ==
    IF frame.kind # "ack" THEN rejected(p, "Malformed")
    ELSE IF ~frame.nonce THEN rejected(p, "WrongNonce")
    ELSE IF frame.id # p.active_request_id THEN rejected(p, "Replay")
    ELSE Polled([p EXCEPT !.active_request_id = None, !.deadline_at = None,
                          !.state = CASE frame.status = "Completed" ->
                                            "AcknowledgedUnverifiedDurability"
                                      [] frame.status = "Failed" -> "WorkerFailed"
                                      [] frame.status = "Cancelled" -> "Cancelled"],
                frame.status, None)

received(p, halves) ==
    {IF r.error # None THEN rejected(r.p, r.error)
     ELSE IF r.frame = None THEN Polled(r.p, None, None)
     ELSE accept_frame(r.p, r.frame) : r \in receive_frame(p, halves)}

\* Mutant: an acknowledgement is accepted at any time.
ingest_at_any_time(p, at, halves) ==
    IF p.state # "RequestedUnverified" THEN {rejected(p, "Duplicate")}
    ELSE received(p, halves)

ingest(p, at, halves) ==
    IF p.endpoint_exited THEN {rejected(p, "PostExit")}
    ELSE IF p.state \in {"AcknowledgedUnverifiedDurability", "WorkerFailed"}
    THEN {rejected(p, "Duplicate")}
    ELSE IF p.state = "TimedOut" THEN {rejected(p, "Late")}
    ELSE IF p.state = "Cancelled" THEN {rejected(p, "PostCancel")}
    ELSE IF p.deadline_at # None /\ at >= p.deadline_at
    THEN {rejected([cleared(p) EXCEPT !.state = "TimedOut"], "Late")}
    ELSE IF p.state # "RequestedUnverified" THEN {rejected(p, "Malformed")}
    ELSE received(p, halves)

cancelled(p) ==
    [cleared(p) EXCEPT !.active_request_id = None, !.deadline_at = None,
                       !.state = "Cancelled"]

endpoint_exited(p) ==
    rejected([cancelled(p) EXCEPT !.endpoint_exited = TRUE], "EndpointExited")

-----------------------------------------------------------------------------
(* CheckpointChannel: what a poll makes of the stream.  `available` is what *)
(* the socket holds and `eof` whether its writer is gone; a poll returns    *)
(* the possible results with the number of halves it took.                  *)

Taken(stream, limit) == IF Len(stream) < limit THEN Len(stream) ELSE limit

\* Mutant: the negotiation buffer takes whatever a read brings.
poll_ready_unbounded(ch, stream, eof) ==
    LET n == Taken(stream, ReadyHalves)
    IN [ch |-> [ch EXCEPT !.negotiation_buffer = @ \o SubSeq(stream, 1, n)],
        n |-> n, ok |-> n > 0 \/ ~eof]

\* Negotiation in progress: `ok` is FALSE when it fails for good.
poll_ready(ch, stream, eof) ==
    LET n == Taken(stream, ReadyHalves)
        buffer == ch.negotiation_buffer \o SubSeq(stream, 1, n)
        whole == /\ Len(buffer) = ReadyHalves
                 /\ buffer[1].part = 1
                 /\ buffer[2] = Half(buffer[1].frame, 2)
                 /\ buffer[1].frame.kind = "ready"
                 /\ buffer[1].frame.nonce
    IN IF n = 0 THEN [ch |-> ch, n |-> 0, ok |-> ~eof]
       ELSE IF Len(buffer) > ReadyHalves
       THEN [ch |-> [ch EXCEPT !.negotiation_buffer = <<>>], n |-> n, ok |-> FALSE]
       ELSE IF Len(buffer) < ReadyHalves
       THEN [ch |-> [ch EXCEPT !.negotiation_buffer = buffer], n |-> n, ok |-> TRUE]
       ELSE IF whole
       THEN [ch |-> [ch EXCEPT !.negotiation_buffer = <<>>, !.ready = TRUE],
             n |-> n, ok |-> TRUE]
       ELSE [ch |-> [ch EXCEPT !.negotiation_buffer = buffer], n |-> n, ok |-> FALSE]

\* The deadline is checked before the descriptor is read, so a poll at or after
\* it never looks at what arrived.
poll(p, at, stream, eof) ==
    LET due == CHOOSE r \in ingest(p, at, <<>>) : TRUE
        n == Taken(stream, MaxBuffer)
    IN IF p.state # "RequestedUnverified" THEN {[r |-> Polled(p, None, None), n |-> 0]}
       ELSE IF due.rejection # None THEN {[r |-> due, n |-> 0]}
       ELSE IF n > 0
       THEN {[r |-> r, n |-> n] : r \in ingest(due.p, at, SubSeq(stream, 1, n))}
       ELSE IF eof THEN {[r |-> endpoint_exited(due.p), n |-> 0]}
       ELSE {[r |-> Polled(due.p, None, None), n |-> 0]}
=============================================================================
