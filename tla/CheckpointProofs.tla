-------------------------- MODULE CheckpointProofs --------------------------
(***************************************************************************)
(* Theorems about the checkpoint exchange, for every timeout, every number *)
(* of foreign frames and stray signals and every run length: SIGUSR1 finds *)
(* its handler, an acknowledgement is in time and the worker's own, and an *)
(* answer in time is heard.  Each frame under way is either true of the    *)
(* worker or one a descendant is on record for having written in its place.*)
(***************************************************************************)
EXTENDS CheckpointExchange, SequenceTheorems, TLAPS

Statuses == {"Completed", "Failed", "Cancelled"}
Junk == [kind |-> "junk"]
Answers == [kind: {"ack"}, nonce: BOOLEAN, id: {Id, Id + 1}, status: Statuses]
Frames == {Ready, Junk} \cup Answers

\* The acknowledgement of this run's request, as the protocol recognises it.
Genuine(frame) == frame.kind = "ack" /\ frame.nonce = TRUE /\ frame.id = Id

\* A status the worker declared, or one a descendant answered in its place.
Vouched(w, ans, status) == status = w.status \/ Ack(Id, TRUE, status) \in ans

\* The halves that may be under way when the worker is in state w and a descendant
\* has answered ans: an acknowledgement of the request is the worker's own answer,
\* and readiness is only announced once the handler is installed, unless the
\* descendant wrote that frame itself.
Truthful(w, ans) ==
    {h \in [frame: Frames, part: {1, 2}] :
        /\ Genuine(h.frame) => Vouched(w, ans, h.frame.status)
        /\ h.frame.kind = "ready" => w.at \notin {"start", "install"} \/ Ready \in ans}

Protocols(w, ans) ==
    [state: CheckpointProtocolState, active_request_id: {None, Id}, deadline_at: {None} \cup Nat,
     buffer: Seq(Truthful(w, ans)), endpoint_exited: BOOLEAN]
Channels(w, ans) ==
    [protocol: Protocols(w, ans), negotiation_started: BOOLEAN, ready: BOOLEAN,
     negotiation_buffer: Seq(Truthful(w, ans)), open: BOOLEAN]

StreamsOK ==
    /\ channel \in Channels(worker, answered)
    /\ Len(channel.protocol.buffer) <= MaxBuffer
    /\ Len(channel.negotiation_buffer) <= ReadyHalves
    /\ toSupervisor \in Seq(Truthful(worker, answered))
    /\ outgoing \in Seq(Truthful(worker, answered))

TypesOK ==
    /\ negotiation \in {"Pending", "Ready", "Unavailable"}
    /\ exchange \in Outcomes
    /\ loop \in {"poll", "tick", "sleep"}
    /\ clock \in Nat
    /\ worker \in WorkerStates
    /\ noise \in Nat
    /\ promised \in Nat \cup {None}
    /\ writtenAt \in Nat \cup {None}
    /\ heardAt \in Nat \cup {None}
    /\ answered \subseteq Plausible
    /\ SignalFindsHandler

\* The worker's own order: handler, readiness, one request, one answer.
WorkerOK ==
    /\ worker.at \in {"start", "install"} =>
          /\ outgoing = <<>> /\ ~worker.handled
          /\ \/ ~channel.ready /\ exchange \in {"idle", "refused"}
             \/ Ready \in answered
    /\ worker.at \in {"ready", "work", "reading", "callback"} => worker.handler
    /\ worker.at \in {"reading", "callback"} => worker.handled /\ outgoing = <<>>
    /\ worker.at \in {"reading", "callback"} => worker.status = None
    /\ ~worker.handled => worker.status = None
    /\ worker.status = None => writtenAt = None
    /\ answered # {} => noise # 0

\* The request and the protocol's record of it.
RequestOK ==
    /\ negotiation = "Ready" <=> channel.ready
    /\ exchange \in {"signal", "outstanding"} => channel.ready
    /\ exchange \in {"idle", "signal", "outstanding"} \/ ~channel.ready => channel.open
    /\ exchange = "idle" => channel.protocol.state = "Idle"
    /\ exchange # "idle" /\ exchange # "refused" => promised \in Nat
    /\ channel.protocol.state = "RequestedUnverified" =>
          /\ channel.protocol.deadline_at = promised /\ promised \in Nat
          /\ channel.protocol.active_request_id = Id
          /\ ~channel.protocol.endpoint_exited
    /\ exchange = "signal" => channel.protocol.state = "RequestedUnverified" /\ loop = "tick"
    /\ exchange = "outstanding" =>
          channel.protocol.state = "RequestedUnverified" \/ clock >= promised
    /\ exchange = "timed_out" => clock >= promised
    /\ GenuineAck

\* The two halves of one frame, spread over three buffers; the first never
\* holds both.
Spread(frame, a, b, c) ==
    LET h1 == Half(frame, 1)
        h2 == Half(frame, 2)
    IN \/ a = <<>> /\ b = <<>> /\ c = <<h1, h2>>
       \/ a = <<>> /\ b = <<h1>> /\ c = <<h2>>
       \/ a = <<>> /\ b = <<h1, h2>> /\ c = <<>>
       \/ a = <<h1>> /\ b = <<>> /\ c = <<h2>>
       \/ a = <<h1>> /\ b = <<h2>> /\ c = <<>>

\* Where the halves are while nobody else writes on the descriptor.
UndisturbedOK ==
    noise = 0 =>
      /\ ~channel.ready /\ negotiation = "Pending" =>
            /\ channel.protocol.buffer = <<>>
            /\ \/ /\ worker.at \in {"start", "install", "closed", "dead"}
                  /\ channel.negotiation_buffer = <<>> /\ toSupervisor = <<>> /\ outgoing = <<>>
               \/ /\ worker.at \notin {"start", "install"}
                  /\ Spread(Ready, channel.negotiation_buffer, toSupervisor, outgoing)
      /\ (channel.ready /\ exchange \in {"idle", "signal", "outstanding"}
             /\ channel.protocol.state \in {"Idle", "RequestedUnverified"}) =>
            IF worker.status = None
            THEN channel.protocol.buffer = <<>> /\ toSupervisor = <<>> /\ outgoing = <<>>
            ELSE Spread(Ack(Id, TRUE, worker.status), channel.protocol.buffer, toSupervisor, outgoing)
      /\ (channel.ready /\ exchange \in {"idle", "signal", "outstanding"}
             /\ channel.protocol.state \in {"Idle", "RequestedUnverified"} /\ writtenAt # None) =>
            outgoing = <<>>

\* Without a request there is no answer, and no frame to answer.
QuietOK ==
    exchange = "idle" \/ ~channel.ready =>
      /\ worker.status = None /\ worker.at # "callback"
      /\ worker.at \notin {"start", "closed", "dead"} =>
            toWorker = <<>> /\ channel.negotiation_started
      /\ worker.at = "start" =>
            toWorker = <<>> \/ (channel.negotiation_started /\ toWorker = <<[kind |-> "hello"]>>)

\* An answer that was written is not passed over by a poll.
TimelyOK ==
    noise = 0 =>
      /\ (exchange \in {"signal", "outstanding"} /\ writtenAt # None) =>
            \/ writtenAt >= clock
            \/ loop = "poll" /\ writtenAt >= clock - 1
            \/ writtenAt >= promised - 1
      /\ TimelyAckHeard

IInv == StreamsOK /\ TypesOK /\ WorkerOK /\ RequestOK /\ UndisturbedOK /\ QuietOK /\ TimelyOK

USE ExchangeAssumption

-----------------------------------------------------------------------------
(* Frames and halves.                                                      *)

\* Short sequences.
LEMMA OneIs == ASSUME NEW S, NEW s \in Seq(S), Len(s) = 1 PROVE s = <<s[1]>>
<1>1. s[1] \in S OBVIOUS
<1>2. <<s[1]>> \in Seq(S) /\ Len(<<s[1]>>) = 1 BY <1>1
<1>3. \A i \in 1 .. 1 : s[i] = <<s[1]>>[i]
  <2> SUFFICES ASSUME NEW i \in 1 .. 1 PROVE s[i] = <<s[1]>>[i] OBVIOUS
  <2>1. i = 1 OBVIOUS
  <2> QED BY <2>1
<1> QED BY <1>2, <1>3, SeqEqual

LEMMA TwoIs == ASSUME NEW S, NEW s \in Seq(S), Len(s) = 2 PROVE s = <<s[1], s[2]>>
<1>0. 1 \in 1 .. Len(s) /\ 2 \in 1 .. Len(s) OBVIOUS
<1>1. s[1] \in S /\ s[2] \in S BY <1>0, ElementOfSeq
<1>2. <<s[1], s[2]>> \in Seq(S) /\ Len(<<s[1], s[2]>>) = 2 BY <1>1
<1>3. \A i \in 1 .. 2 : s[i] = <<s[1], s[2]>>[i]
  <2> SUFFICES ASSUME NEW i \in 1 .. 2 PROVE s[i] = <<s[1], s[2]>>[i] OBVIOUS
  <2>1. i = 1 \/ i = 2 OBVIOUS
  <2> QED BY <2>1
<1> QED BY <1>2, <1>3, SeqEqual

\* The pieces of sequences of one and two elements.
LEMMA Pieces == ASSUME NEW x, NEW y
    PROVE  /\ SubSeq(<<x>>, 1, 1) = <<x>> /\ SubSeq(<<x>>, 2, 1) = <<>>
           /\ SubSeq(<<x, y>>, 1, 1) = <<x>> /\ SubSeq(<<x, y>>, 2, 2) = <<y>>
           /\ SubSeq(<<x, y>>, 1, 2) = <<x, y>> /\ SubSeq(<<x, y>>, 3, 2) = <<>>
           /\ <<x>> \o <<y>> = <<x, y>> /\ <<>> \o <<x>> = <<x>> /\ <<>> \o <<x, y>> = <<x, y>>
<1> DEFINE S == {x, y}
           a == <<x>>
           b == <<x, y>>
           z == <<y>>
<1>1. /\ a \in Seq(S) /\ Len(a) = 1 /\ a[1] = x 
      /\ b \in Seq(S) /\ Len(b) = 2 /\ b[1] = x /\ b[2] = y
      /\ z \in Seq(S) /\ Len(z) = 1 /\ z[1] = y
  OBVIOUS
<1> HIDE DEF S, a, b, z
<1>2. SubSeq(a, 1, 1) = a /\ SubSeq(b, 1, 2) = b BY <1>1, SubSeqFull
<1>3. SubSeq(a, 2, 1) = <<>> /\ SubSeq(b, 3, 2) = <<>> BY SubSeqEmpty
<1>4. SubSeq(b, 1, 1) = a
  <2>1. SubSeq(b, 1, 1) \in Seq(S) /\ Len(SubSeq(b, 1, 1)) = 1 /\ SubSeq(b, 1, 1)[1] = x
    BY <1>1
  <2> QED BY <2>1, OneIs DEF a
<1>5. SubSeq(b, 2, 2) = z
  <2>1. SubSeq(b, 2, 2) \in Seq(S) /\ Len(SubSeq(b, 2, 2)) = 1 /\ SubSeq(b, 2, 2)[1] = y
    BY <1>1
  <2> QED BY <2>1, OneIs DEF z
<1>6. a \o z = b
  <2>1. /\ a \o z \in Seq(S) /\ Len(a \o z) = 2
        /\ \A i \in 1 .. 2 : (a \o z)[i] = IF i <= 1 THEN a[i] ELSE z[i - 1]
    BY <1>1, ConcatProperties
  <2>2. (a \o z)[1] = a[1] BY <2>1
  <2>3. (a \o z)[2] = z[2 - 1] BY <2>1
  <2>4. 2 - 1 = 1 OBVIOUS
  <2> QED BY <1>1, <2>1, <2>2, <2>3, <2>4, TwoIs DEF b
<1>7. <<>> \o a = a /\ <<>> \o b = b BY <1>1, ConcatEmptySeq
<1> QED BY <1>2, <1>3, <1>4, <1>5, <1>6, <1>7 DEF a, b, z

LEMMA GenuineStatus == ASSUME NEW f \in Frames, Genuine(f) PROVE f.status \in Statuses
BY DEF Genuine, Frames, Answers, Ready, Junk

LEMMA AnswerIsFrame == ASSUME NEW status \in Statuses PROVE Ack(Id, TRUE, status) \in Frames
BY DEF Frames, Answers, Ack

LEMMA TruthfulGrows ==
    ASSUME NEW v, NEW w, NEW a, NEW b, a \subseteq b, v.status = w.status \/ v.status = None,
           w.at \in {"start", "install"} => v.at \in {"start", "install"}
    PROVE  /\ Truthful(v, a) \subseteq Truthful(w, b)
           /\ Seq(Truthful(v, a)) \subseteq Seq(Truthful(w, b))
           /\ Channels(v, a) \subseteq Channels(w, b)
<1>1. Truthful(v, a) \subseteq Truthful(w, b)
  <2> SUFFICES ASSUME NEW h \in Truthful(v, a) PROVE h \in Truthful(w, b) OBVIOUS
  <2>1. h.frame \in Frames BY DEF Truthful
  <2>2. Genuine(h.frame) => h.frame.status # None
    BY <2>1, GenuineStatus DEF Statuses
  <2> QED BY <2>2 DEF Truthful, Vouched
<1>2. Seq(Truthful(v, a)) \subseteq Seq(Truthful(w, b)) BY <1>1
<1>3. Protocols(v, a) \subseteq Protocols(w, b) BY <1>2 DEF Protocols
<1> QED BY <1>1, <1>2, <1>3 DEF Channels

LEMMA InitInv == Init => IInv
<1> SUFFICES ASSUME Init PROVE IInv OBVIOUS
<1>1. /\ channel = NewChannel /\ toSupervisor = <<>> /\ outgoing = <<>>
      /\ negotiation = "Pending" /\ exchange = "idle" /\ loop = "poll" /\ clock = 0
      /\ worker = [at |-> "start", pending |-> FALSE, handled |-> FALSE,
                   handler |-> FALSE, open |-> TRUE, status |-> None]
      /\ noise = 0 /\ answered = {} /\ toWorker = <<>>
      /\ promised = None /\ writtenAt = None /\ heardAt = None /\ killedAt = None
  BY DEF Init
<1>2. StreamsOK
  <2>1. NewProtocol \in Protocols(worker, answered)
    BY DEF NewProtocol, Protocols, CheckpointProtocolState
  <2>2. NewChannel \in Channels(worker, answered) BY <2>1 DEF NewChannel, Channels
  <2>3. NewChannel.protocol.buffer = <<>> /\ NewChannel.negotiation_buffer = <<>>
    BY DEF NewChannel, NewProtocol
  <2> QED BY <1>1, <2>2, <2>3 DEF StreamsOK, MaxBuffer, ReadyHalves
<1>3. TypesOK BY <1>1 DEF TypesOK, SignalFindsHandler, Outcomes, WorkerStates, WorkerPlaces
<1>4. /\ ~channel.ready /\ channel.open /\ channel.protocol.state = "Idle"
      /\ channel.negotiation_buffer = <<>> /\ channel.protocol.buffer = <<>>
  BY <1>1 DEF NewChannel, NewProtocol
<1>5. WorkerOK BY <1>1, <1>4 DEF WorkerOK
<1>6. RequestOK BY <1>1, <1>4 DEF RequestOK, GenuineAck
<1>7. UndisturbedOK BY <1>1, <1>4 DEF UndisturbedOK
<1>8. QuietOK BY <1>1 DEF QuietOK
<1>9. TimelyOK BY <1>1 DEF TimelyOK, TimelyAckHeard
<1> QED BY <1>2, <1>3, <1>5, <1>6, <1>7, <1>8, <1>9 DEF IInv

-----------------------------------------------------------------------------
(* The supervisor's steps.                                                 *)

LEMMA NegotiationStep == ASSUME IInv, begin_negotiation PROVE IInv'
<1>1. /\ channel' = [channel EXCEPT !.negotiation_started = TRUE]
      /\ toWorker' = Append(toWorker, [kind |-> "hello"]) /\ ~channel.negotiation_started
      /\ worker.open
      /\ UNCHANGED <<negotiation, exchange, loop, clock, promised, heardAt, worker, outgoing,
                     writtenAt, killedAt, noise, answered, toSupervisor>>
  BY DEF begin_negotiation, workerVars, disturbance
<1>2. /\ channel \in Channels(worker, answered)
  BY DEF IInv, StreamsOK
<1>3. /\ channel' \in Channels(worker, answered) /\ channel'.negotiation_started = TRUE
      /\ channel'.protocol = channel.protocol /\ channel'.ready = channel.ready
      /\ channel'.negotiation_buffer = channel.negotiation_buffer
      /\ channel'.open = channel.open
  BY <1>1, <1>2 DEF Channels
<1>4. StreamsOK' BY <1>1, <1>3 DEF IInv, StreamsOK
<1>5. TypesOK' BY <1>1 DEF IInv, TypesOK, SignalFindsHandler
<1>6. WorkerOK' BY <1>1, <1>3 DEF IInv, WorkerOK
<1>7. RequestOK' BY <1>1, <1>3 DEF IInv, RequestOK, GenuineAck
<1>8. UndisturbedOK' BY <1>1, <1>3 DEF IInv, UndisturbedOK
<1>9. QuietOK'
  <2>1. toWorker = <<>> => toWorker' = <<[kind |-> "hello"]>> BY <1>1
  <2> QED BY <1>1, <1>3, <2>1 DEF IInv, QuietOK
<1>10. TimelyOK' BY <1>1 DEF IInv, TimelyOK, TimelyAckHeard
<1> QED BY <1>4, <1>5, <1>6, <1>7, <1>8, <1>9, <1>10 DEF IInv

LEMMA TickStep == ASSUME IInv, Tick PROVE IInv'
<1>1. /\ loop = "tick" /\ exchange # "signal" /\ loop' = "sleep"
      /\ exchange' = (IF exchange = "outstanding" /\ clock >= promised
                      THEN "timed_out" ELSE exchange)
      /\ UNCHANGED <<channel, negotiation, clock, promised, heardAt, worker, outgoing,
                     writtenAt, killedAt, noise, answered, toWorker, toSupervisor>>
  BY DEF Tick, workerVars, disturbance
<1>2. clock \in Nat /\ promised \in Nat \cup {None} /\ writtenAt \in Nat \cup {None}
      /\ exchange \in Outcomes
  BY DEF IInv, TypesOK, SignalFindsHandler
<1>3. StreamsOK' BY <1>1 DEF IInv, StreamsOK
<1>4. TypesOK' BY <1>1, <1>2 DEF IInv, TypesOK, SignalFindsHandler, Outcomes
<1>5. WorkerOK' BY <1>1 DEF IInv, WorkerOK
<1>6. RequestOK' BY <1>1 DEF IInv, RequestOK, GenuineAck
<1>7. UndisturbedOK' BY <1>1 DEF IInv, UndisturbedOK
<1>8. QuietOK' BY <1>1 DEF IInv, QuietOK
<1>9. TimelyOK'
  <2>1. CASE exchange' = exchange BY <1>1, <2>1 DEF IInv, TimelyOK, TimelyAckHeard
  <2>2. CASE exchange = "outstanding" /\ clock >= promised /\ exchange' = "timed_out"
    <3>1. promised \in Nat BY <2>2 DEF IInv, RequestOK
    <3>2. (noise = 0 /\ writtenAt # None) => writtenAt >= clock \/ writtenAt >= promised - 1
      BY <1>1, <2>2 DEF IInv, TimelyOK
    <3>3. (noise = 0 /\ writtenAt # None) => writtenAt >= promised - 1
      BY <1>2, <2>2, <3>1, <3>2
    <3> QED BY <1>1, <2>2, <3>3 DEF TimelyOK, TimelyAckHeard
  <2> QED BY <1>1, <2>1, <2>2
<1> QED BY <1>3, <1>4, <1>5, <1>6, <1>7, <1>8, <1>9 DEF IInv

LEMMA SleepStep == ASSUME IInv, Sleep PROVE IInv'
<1>1. /\ loop = "sleep" /\ loop' = "poll" /\ clock' = clock + 1
      /\ UNCHANGED <<channel, negotiation, exchange, promised, heardAt, worker, outgoing,
                     writtenAt, killedAt, noise, answered, toWorker, toSupervisor>>
  BY DEF Sleep, workerVars, disturbance
<1>2. clock \in Nat /\ promised \in Nat \cup {None} /\ writtenAt \in Nat \cup {None}
      /\ clock' \in Nat
  BY <1>1 DEF IInv, TypesOK, SignalFindsHandler
<1>3. StreamsOK' BY <1>1 DEF IInv, StreamsOK
<1>4. TypesOK' BY <1>1, <1>2 DEF IInv, TypesOK, SignalFindsHandler
<1>5. WorkerOK' BY <1>1 DEF IInv, WorkerOK
<1>6. RequestOK'
  <2>1. exchange # "signal" BY <1>1 DEF IInv, RequestOK
  <2>2. /\ exchange = "outstanding" =>
              channel.protocol.state = "RequestedUnverified" \/ clock' >= promised
        /\ exchange = "timed_out" => clock' >= promised
    BY <1>1, <1>2 DEF IInv, RequestOK
  <2> QED BY <1>1, <2>1, <2>2 DEF IInv, RequestOK, GenuineAck
<1>7. UndisturbedOK' BY <1>1 DEF IInv, UndisturbedOK
<1>8. QuietOK' BY <1>1 DEF IInv, QuietOK
<1>9. TimelyOK'
  <2>1. (noise = 0 /\ exchange \in {"signal", "outstanding"} /\ writtenAt # None) =>
            writtenAt >= clock \/ writtenAt >= promised - 1
    BY <1>1 DEF IInv, TimelyOK
  <2>2. (noise = 0 /\ exchange \in {"signal", "outstanding"} /\ writtenAt # None) =>
            writtenAt >= clock' - 1 \/ writtenAt >= promised - 1
    BY <1>1, <1>2, <2>1
  <2> QED BY <1>1, <2>2 DEF IInv, TimelyOK, TimelyAckHeard
<1> QED BY <1>3, <1>4, <1>5, <1>6, <1>7, <1>8, <1>9 DEF IInv

-----------------------------------------------------------------------------
(* The worker's steps and the rest of the world.                           *)

LEMMA HelloStep == ASSUME IInv, ReadHello PROVE IInv'
<1> DEFINE greeted == toWorker # <<>> /\ Head(toWorker).kind = "hello"
<1>1. /\ worker.at = "start"
      /\ worker' = (IF greeted THEN [worker EXCEPT !.at = "install"]
                    ELSE [worker EXCEPT !.at = "closed", !.open = FALSE])
      /\ toWorker' = (IF toWorker = <<>> THEN <<>> ELSE Tail(toWorker))
      /\ UNCHANGED <<channel, negotiation, exchange, loop, clock, promised, heardAt, outgoing,
                     writtenAt, killedAt, noise, answered, toSupervisor>>
  BY DEF ReadHello, supervisorVars, disturbance
<1>2. worker \in WorkerStates BY DEF IInv, TypesOK
<1>3. /\ worker' \in WorkerStates /\ worker'.status = worker.status
      /\ worker'.handled = worker.handled
      /\ worker'.at = "closed" \/ (worker'.at = "install" /\ toWorker # <<>>)
  <2>1. CASE greeted
    <3>1. worker' = [worker EXCEPT !.at = "install"] BY <1>1, <2>1
    <3> QED BY <1>2, <2>1, <3>1 DEF WorkerStates, WorkerPlaces
  <2>2. CASE ~greeted
    <3>1. worker' = [worker EXCEPT !.at = "closed", !.open = FALSE] BY <1>1, <2>2
    <3> QED BY <1>2, <2>2, <3>1 DEF WorkerStates, WorkerPlaces
  <2> QED BY <2>1, <2>2
<1>4. StreamsOK'
  <2>0. /\ answered \subseteq answered'
        /\ worker.status = worker'.status \/ worker.status = None
        /\ worker'.at \in {"start", "install"} => worker.at \in {"start", "install"}
    BY <1>1, <1>3
  <2>1. /\ Seq(Truthful(worker, answered)) \subseteq Seq(Truthful(worker', answered'))
        /\ Channels(worker, answered) \subseteq Channels(worker', answered')
    BY <2>0, TruthfulGrows
  <2> QED BY <1>1, <2>1 DEF IInv, StreamsOK
<1>5. TypesOK' BY <1>1, <1>3 DEF IInv, TypesOK, SignalFindsHandler
<1>6. WorkerOK' BY <1>1, <1>3 DEF IInv, WorkerOK
<1>7. RequestOK' BY <1>1, <1>3 DEF IInv, RequestOK, GenuineAck
<1> HIDE DEF greeted
<1>8. (exchange = "idle" \/ ~channel.ready) =>
         toWorker = <<>> \/ (channel.negotiation_started /\ toWorker = <<[kind |-> "hello"]>>)
  BY <1>1 DEF IInv, QuietOK
<1>9. (exchange = "idle" \/ ~channel.ready) =>
         /\ toWorker' = <<>> /\ worker'.at \in {"install", "closed"}
         /\ worker'.at = "install" => channel.negotiation_started
  <2> SUFFICES ASSUME exchange = "idle" \/ ~channel.ready
               PROVE  /\ toWorker' = <<>> /\ worker'.at \in {"install", "closed"}
                      /\ worker'.at = "install" => channel.negotiation_started
    OBVIOUS
  <2>1. CASE toWorker = <<>> BY <1>1, <1>3, <2>1
  <2>2. CASE channel.negotiation_started /\ toWorker = <<[kind |-> "hello"]>>
    <3>1. toWorker # <<>> BY <2>2
    <3>2. toWorker' = Tail(toWorker) BY <1>1, <3>1
    <3>3. toWorker' = <<>> BY SMTT(40), <2>2, <3>2
    <3> QED BY <1>3, <2>2, <3>3
  <2> QED BY <1>8, <2>1, <2>2
<1>10. QuietOK' BY <1>1, <1>3, <1>8, <1>9 DEF IInv, QuietOK
<1>11. UndisturbedOK'
  <2>1. noise = 0 => ~channel.ready BY <1>1 DEF IInv, WorkerOK
  <2> QED BY <1>1, <1>3, <1>9, <2>1 DEF IInv, UndisturbedOK
<1>12. TimelyOK' BY <1>1 DEF IInv, TimelyOK, TimelyAckHeard
<1> QED BY <1>4, <1>5, <1>6, <1>7, <1>10, <1>11, <1>12 DEF IInv

\* A step that only moves the worker on, past the installation of its handler.
LEMMA MoveStep ==
    ASSUME IInv, worker.at \notin {"start", "install", "closed", "dead"}, worker' \in WorkerStates,
           worker'.at \notin {"start", "install", "callback"},
           worker'.at \in {"ready", "work", "reading"} => worker'.handler,
           worker'.at = "reading" =>
               worker'.handled /\ outgoing = <<>> /\ worker.status = None,
           worker.handled => worker'.handled,
           worker'.status = worker.status,
           UNCHANGED <<channel, negotiation, exchange, loop, clock, promised, heardAt, outgoing,
                       writtenAt, killedAt, noise, answered, toWorker, toSupervisor>>
    PROVE  IInv'
<1>1. StreamsOK' BY TruthfulGrows DEF IInv, StreamsOK
<1>2. TypesOK' BY DEF IInv, TypesOK, SignalFindsHandler
<1>3. WorkerOK' BY DEF IInv, WorkerOK
<1>4. RequestOK' BY DEF IInv, RequestOK, GenuineAck
<1>5. UndisturbedOK' BY DEF IInv, UndisturbedOK
<1>6. QuietOK' BY DEF IInv, QuietOK
<1>7. TimelyOK' BY DEF IInv, TimelyOK, TimelyAckHeard
<1> QED BY <1>1, <1>2, <1>3, <1>4, <1>5, <1>6, <1>7 DEF IInv

LEMMA InstallStep == ASSUME IInv, InstallHandler PROVE IInv'
<1>0. worker \in WorkerStates BY DEF IInv, TypesOK, SignalFindsHandler
<1>1. CASE worker.at = "ready"
  <2>1. /\ worker' = [worker EXCEPT !.at = "work"]
        /\ UNCHANGED <<channel, negotiation, exchange, loop, clock, promised, heardAt, outgoing,
                       writtenAt, killedAt, noise, answered, toWorker, toSupervisor>>
    BY <1>1 DEF InstallHandler, supervisorVars, disturbance
  <2>2. /\ worker' \in WorkerStates /\ worker'.at = "work" /\ worker'.status = worker.status
        /\ worker'.handled = worker.handled /\ worker'.handler = worker.handler
    BY <1>0, <2>1 DEF WorkerStates, WorkerPlaces
  <2>3. worker.handler BY <1>1 DEF IInv, WorkerOK
  <2> QED BY <1>1, <2>1, <2>2, <2>3, MoveStep
<1>2. CASE worker.at = "install"
  <2>1. /\ worker' = [worker EXCEPT !.at = "ready", !.handler = TRUE]
        /\ outgoing' = Halves(Ready)
        /\ UNCHANGED <<channel, negotiation, exchange, loop, clock, promised, heardAt,
                       writtenAt, killedAt, noise, answered, toWorker, toSupervisor>>
    BY <1>2 DEF InstallHandler, supervisorVars, disturbance
  <2>2. /\ worker' \in WorkerStates /\ worker'.at = "ready" /\ worker'.status = worker.status
        /\ worker'.handled = worker.handled /\ worker'.handler = TRUE
    BY <1>0, <2>1 DEF WorkerStates, WorkerPlaces
  <2>3. StreamsOK'
    <3>1. Ready \in Frames /\ Ready.kind = "ready" /\ ~Genuine(Ready)
      BY DEF Frames, Ready, Genuine
    <3>2. Half(Ready, 1) \in Truthful(worker', answered') /\ Half(Ready, 2) \in Truthful(worker', answered')
      BY <2>2, <3>1 DEF Truthful, Half
    <3>3. outgoing' \in Seq(Truthful(worker', answered')) BY <2>1, <3>2 DEF Halves
    <3>0. /\ answered \subseteq answered'
          /\ worker.status = worker'.status \/ worker.status = None
          /\ worker'.at \in {"start", "install"} => worker.at \in {"start", "install"}
      BY <2>1, <2>2
    <3>4. /\ Seq(Truthful(worker, answered)) \subseteq Seq(Truthful(worker', answered'))
          /\ Channels(worker, answered) \subseteq Channels(worker', answered')
      BY <3>0, TruthfulGrows
    <3> QED BY <2>1, <3>3, <3>4 DEF IInv, StreamsOK
  <2>4. TypesOK' BY <2>1, <2>2 DEF IInv, TypesOK, SignalFindsHandler
  <2>5. WorkerOK' BY <1>2, <2>1, <2>2 DEF IInv, WorkerOK
  <2>6. RequestOK' BY <2>1, <2>2 DEF IInv, RequestOK, GenuineAck
  <2>7. UndisturbedOK'
    <3>1. noise = 0 => ~channel.ready BY <1>2 DEF IInv, WorkerOK
    <3>2. noise = 0 /\ negotiation = "Pending" =>
             /\ channel.protocol.buffer = <<>>
             /\ channel.negotiation_buffer = <<>> /\ toSupervisor = <<>>
      BY <1>2, <3>1 DEF IInv, UndisturbedOK
    <3>3. Spread(Ready, <<>>, <<>>, outgoing') BY <2>1 DEF Spread, Halves
    <3> QED BY <2>1, <2>2, <3>1, <3>2, <3>3 DEF UndisturbedOK
  <2>8. QuietOK' BY <1>2, <2>1, <2>2 DEF IInv, QuietOK
  <2>9. TimelyOK' BY <2>1 DEF IInv, TimelyOK, TimelyAckHeard
  <2> QED BY <2>3, <2>4, <2>5, <2>6, <2>7, <2>8, <2>9 DEF IInv
<1> QED BY <1>1, <1>2 DEF InstallHandler

LEMMA PollStep == ASSUME IInv, Poll PROVE IInv'
<1>1. /\ worker.at = "work" /\ outgoing = <<>>
      /\ worker' = (IF worker.handled THEN [worker EXCEPT !.pending = FALSE]
                    ELSE [worker EXCEPT !.pending = FALSE, !.handled = TRUE,
                                        !.at = "reading"])
      /\ UNCHANGED <<channel, negotiation, exchange, loop, clock, promised, heardAt, outgoing,
                     writtenAt, killedAt, noise, answered, toWorker, toSupervisor>>
  BY DEF Poll, supervisorVars, disturbance
<1>2. worker \in WorkerStates /\ worker.handler /\ (~worker.handled => worker.status = None)
  BY <1>1 DEF IInv, TypesOK, SignalFindsHandler, WorkerOK
<1>3. /\ worker' \in WorkerStates /\ worker'.status = worker.status
      /\ worker'.handler = worker.handler /\ worker'.handled
      /\ worker'.at = "work" \/ (worker'.at = "reading" /\ ~worker.handled)
  <2>1. CASE worker.handled
    <3>1. worker' = [worker EXCEPT !.pending = FALSE] BY <1>1, <2>1
    <3>2. /\ worker' \in WorkerStates /\ worker'.status = worker.status
          /\ worker'.handler = worker.handler /\ worker'.handled = worker.handled
          /\ worker'.at = worker.at
      BY <1>2, <3>1 DEF WorkerStates
    <3>3. worker'.at = "work" BY <1>1, <3>2
    <3>4. worker'.handled BY <2>1, <3>2
    <3> QED BY <3>2, <3>3, <3>4
  <2>2. CASE ~worker.handled
    <3>1. worker' = [worker EXCEPT !.pending = FALSE, !.handled = TRUE, !.at = "reading"]
      BY <1>1, <2>2
    <3> QED BY <1>2, <2>2, <3>1 DEF WorkerStates, WorkerPlaces
  <2> QED BY <2>1, <2>2
<1> QED BY <1>1, <1>2, <1>3, MoveStep

LEMMA ReadStep == ASSUME IInv, ReadRequest PROVE IInv'
<1>1. /\ worker.at = "reading"
      /\ \/ /\ toWorker # <<>> /\ worker' = [worker EXCEPT !.at = "callback"]
            /\ toWorker' = Tail(toWorker)
         \/ /\ worker' = [worker EXCEPT !.at = "work"] /\ toWorker' = toWorker
      /\ UNCHANGED <<channel, negotiation, exchange, loop, clock, promised, heardAt, outgoing,
                     writtenAt, killedAt, noise, answered, toSupervisor>>
  BY DEF ReadRequest, supervisorVars, disturbance
<1>2. worker \in WorkerStates /\ worker.handler BY <1>1 DEF IInv, TypesOK, SignalFindsHandler, WorkerOK
<1>3. /\ worker' \in WorkerStates /\ worker'.status = worker.status
      /\ worker'.handler = worker.handler /\ worker'.handled = worker.handled
      /\ worker'.at \in {"work", "callback"}
      /\ worker'.at = "callback" => toWorker # <<>>
  BY <1>1, <1>2 DEF WorkerStates, WorkerPlaces
<1>4. StreamsOK' BY <1>1, <1>3, TruthfulGrows DEF IInv, StreamsOK
<1>5. TypesOK' BY <1>1, <1>3 DEF IInv, TypesOK, SignalFindsHandler
<1>6. WorkerOK' BY <1>1, <1>2, <1>3 DEF IInv, WorkerOK
<1>7. RequestOK' BY <1>1, <1>3 DEF IInv, RequestOK, GenuineAck
<1>8. UndisturbedOK' BY <1>1, <1>3 DEF IInv, UndisturbedOK
<1>9. QuietOK'
  <2>1. (exchange = "idle" \/ ~channel.ready) => toWorker = <<>> /\ channel.negotiation_started
    BY <1>1 DEF IInv, QuietOK
  <2>2. (exchange = "idle" \/ ~channel.ready) => toWorker' = <<>> /\ worker'.at = "work"
    BY <1>1, <1>3, <2>1
  <2> QED BY <1>1, <1>3, <2>1, <2>2 DEF IInv, QuietOK
<1>10. TimelyOK' BY <1>1 DEF IInv, TimelyOK, TimelyAckHeard
<1> QED BY <1>4, <1>5, <1>6, <1>7, <1>8, <1>9, <1>10 DEF IInv

LEMMA CloseStep == ASSUME IInv, Close PROVE IInv'
<1>1. /\ worker.at \in {"work", "closing"}
      /\ \/ worker' = [worker EXCEPT !.at = "closing", !.handler = FALSE]
         \/ worker' = [worker EXCEPT !.at = "closed", !.open = FALSE]
      /\ UNCHANGED <<channel, negotiation, exchange, loop, clock, promised, heardAt, outgoing,
                     writtenAt, killedAt, noise, answered, toWorker, toSupervisor>>
  BY DEF Close, supervisorVars, disturbance
<1>2. worker \in WorkerStates BY DEF IInv, TypesOK, SignalFindsHandler
<1>3. /\ worker' \in WorkerStates /\ worker'.status = worker.status
      /\ worker'.handled = worker.handled /\ worker'.at \in {"closing", "closed"}
  BY <1>1, <1>2 DEF WorkerStates, WorkerPlaces
<1>4. worker.at \notin {"start", "install", "closed", "dead"} BY <1>1
<1>5. worker.handled => worker'.handled BY <1>3
<1>6. /\ worker'.at \notin {"start", "install", "ready", "work", "reading", "callback"}
  BY <1>3
<1>7. UNCHANGED <<channel, negotiation, exchange, loop, clock, promised, heardAt, outgoing,
                  writtenAt, killedAt, noise, answered, toWorker, toSupervisor>>
  BY <1>1
<1> QED BY <1>3, <1>4, <1>5, <1>6, <1>7, MoveStep

LEMMA ExitStep == ASSUME IInv, WorkerExits PROVE IInv'
<1>1. /\ worker' = [worker EXCEPT !.at = "dead", !.open = FALSE]
      /\ UNCHANGED <<channel, negotiation, exchange, loop, clock, promised, heardAt, outgoing,
                     writtenAt, killedAt, noise, answered, toWorker, toSupervisor>>
  BY DEF WorkerExits, supervisorVars, disturbance
<1>2. worker \in WorkerStates BY DEF IInv, TypesOK, SignalFindsHandler
<1>3. /\ worker' \in WorkerStates /\ worker'.status = worker.status
      /\ worker'.handled = worker.handled /\ worker'.at = "dead"
  BY <1>1, <1>2 DEF WorkerStates, WorkerPlaces
<1>4. StreamsOK'
  <2>0. /\ answered \subseteq answered'
        /\ worker.status = worker'.status \/ worker.status = None
        /\ worker'.at \in {"start", "install"} => worker.at \in {"start", "install"}
    BY <1>1, <1>3
  <2>1. /\ Seq(Truthful(worker, answered)) \subseteq Seq(Truthful(worker', answered'))
        /\ Channels(worker, answered) \subseteq Channels(worker', answered')
    BY <2>0, TruthfulGrows
  <2> QED BY <1>1, <2>1 DEF IInv, StreamsOK
<1>5. TypesOK' BY <1>1, <1>3 DEF IInv, TypesOK, SignalFindsHandler
<1>6. WorkerOK' BY <1>1, <1>3 DEF IInv, WorkerOK
<1>7. RequestOK' BY <1>1, <1>3 DEF IInv, RequestOK, GenuineAck
<1>8. UndisturbedOK' BY <1>1, <1>3 DEF IInv, UndisturbedOK
<1>9. QuietOK' BY <1>1, <1>3 DEF IInv, QuietOK
<1>10. TimelyOK' BY <1>1 DEF IInv, TimelyOK, TimelyAckHeard
<1> QED BY <1>4, <1>5, <1>6, <1>7, <1>8, <1>9, <1>10 DEF IInv

LEMMA StrayStep == ASSUME IInv, Stray PROVE IInv'
<1>1. /\ worker.handler /\ worker.at # "dead" /\ worker' = [worker EXCEPT !.pending = TRUE]
      /\ UNCHANGED <<channel, negotiation, exchange, loop, clock, promised, heardAt, outgoing,
                     writtenAt, killedAt, noise, answered, toWorker, toSupervisor>>
  BY DEF Stray, supervisorVars
<1>2. worker \in WorkerStates BY DEF IInv, TypesOK, SignalFindsHandler
<1>3. /\ worker' \in WorkerStates /\ worker'.status = worker.status /\ worker'.at = worker.at
      /\ worker'.handled = worker.handled /\ worker'.handler = worker.handler
  BY <1>1, <1>2 DEF WorkerStates, WorkerPlaces
<1>4. StreamsOK' BY <1>1, <1>3, TruthfulGrows DEF IInv, StreamsOK
<1>5. TypesOK' BY <1>1, <1>3 DEF IInv, TypesOK, SignalFindsHandler
<1>6. WorkerOK' BY <1>1, <1>3 DEF IInv, WorkerOK
<1>7. RequestOK' BY <1>1, <1>3 DEF IInv, RequestOK, GenuineAck
<1>8. UndisturbedOK' BY <1>1, <1>3 DEF IInv, UndisturbedOK
<1>9. QuietOK' BY <1>1, <1>3 DEF IInv, QuietOK
<1>10. TimelyOK' BY <1>1 DEF IInv, TimelyOK, TimelyAckHeard
<1> QED BY <1>4, <1>5, <1>6, <1>7, <1>8, <1>9, <1>10 DEF IInv

LEMMA CallbackStep ==
    ASSUME IInv, NEW status \in Statuses, Callback(status)
    PROVE  IInv'
<1>1. /\ worker.at = "callback" /\ worker' = [worker EXCEPT !.at = "work", !.status = status]
      /\ outgoing' = Halves(Ack(Id, TRUE, status))
      /\ UNCHANGED <<channel, negotiation, exchange, loop, clock, promised, heardAt,
                     writtenAt, killedAt, noise, answered, toWorker, toSupervisor>>
  BY DEF Callback, supervisorVars, disturbance
<1>2. /\ worker \in WorkerStates /\ worker.handler /\ worker.handled /\ worker.status = None
      /\ writtenAt = None /\ outgoing = <<>> /\ exchange # "idle" /\ channel.ready
  BY <1>1 DEF IInv, TypesOK, SignalFindsHandler, WorkerOK, QuietOK
<1>3. /\ worker' \in WorkerStates /\ worker'.status = status /\ worker'.at = "work"
      /\ worker'.handler = worker.handler /\ worker'.handled = worker.handled
  BY <1>1, <1>2 DEF WorkerStates, WorkerPlaces, Statuses
<1>4. status # None BY DEF Statuses
<1>5. StreamsOK'
  <2> DEFINE f == Ack(Id, TRUE, status)
  <2>1. f \in Frames BY AnswerIsFrame
  <2>2. f.status = status /\ f.kind = "ack" BY DEF Ack
  <2> HIDE DEF f
  <2>3. Half(f, 1) \in Truthful(worker', answered') /\ Half(f, 2) \in Truthful(worker', answered')
    BY <1>3, <2>1, <2>2 DEF Truthful, Vouched, Half
  <2>4. Halves(f) \in Seq(Truthful(worker', answered')) BY <2>3 DEF Halves
  <2>5. outgoing' \in Seq(Truthful(worker', answered')) BY <1>1, <2>4 DEF f
  <2>0. /\ answered \subseteq answered'
        /\ worker.status = worker'.status \/ worker.status = None
        /\ worker'.at \in {"start", "install"} => worker.at \in {"start", "install"}
    BY <1>1, <1>2, <1>3
  <2>6. /\ Seq(Truthful(worker, answered)) \subseteq Seq(Truthful(worker', answered'))
        /\ Channels(worker, answered) \subseteq Channels(worker', answered')
    BY <2>0, TruthfulGrows
  <2> QED BY <1>1, <2>5, <2>6 DEF IInv, StreamsOK
<1>6. TypesOK' BY <1>1, <1>3 DEF IInv, TypesOK, SignalFindsHandler
<1>7. WorkerOK' BY <1>1, <1>2, <1>3, <1>4 DEF IInv, WorkerOK
<1>8. RequestOK'
  <2>1. GenuineAck'
    <3>1. worker.status # "Completed" BY <1>2, <1>4
    <3> QED BY <1>1, <3>1 DEF IInv, RequestOK, GenuineAck
  <2> QED BY <1>1, <2>1 DEF IInv, RequestOK
<1>9. UndisturbedOK'
  <2>1. Spread(Ack(Id, TRUE, status), <<>>, <<>>, outgoing') BY <1>1 DEF Spread, Halves
  <2>2. (noise = 0 /\ exchange \in {"idle", "signal", "outstanding"}
             /\ channel.protocol.state \in {"Idle", "RequestedUnverified"}) =>
           channel.protocol.buffer = <<>> /\ toSupervisor = <<>>
    BY <1>2 DEF IInv, UndisturbedOK
  <2> QED BY <1>1, <1>2, <1>3, <1>4, <2>1, <2>2 DEF UndisturbedOK
<1>10. QuietOK' BY <1>1, <1>2 DEF QuietOK
<1>11. TimelyOK' BY <1>1 DEF IInv, TimelyOK, TimelyAckHeard
<1> QED BY <1>5, <1>6, <1>7, <1>8, <1>9, <1>10, <1>11 DEF IInv

\* A write moves halves on and keeps the frame together.
LEMMA SpreadWrite ==
    ASSUME NEW f, NEW a, NEW b, NEW c, Spread(f, a, b, c), NEW n \in 1 .. 2, n <= Len(c)
    PROVE  Spread(f, a, b \o SubSeq(c, 1, n), SubSeq(c, n + 1, Len(c)))
<1> DEFINE h1 == Half(f, 1)
           h2 == Half(f, 2)
<1> HIDE DEF h1, h2
<1>1. CASE c = <<h1, h2>>
  <2>1. a = <<>> /\ b = <<>> BY <1>1 DEF Spread, h1, h2
  <2>2. CASE n = 1
    <3>0. Len(c) = 2 /\ n + 1 = 2 BY <1>1, <2>2
    <3>1. SubSeq(c, 1, n) = <<h1>> /\ SubSeq(c, n + 1, Len(c)) = <<h2>>
      <4>1. SubSeq(<<h1, h2>>, 1, 1) = <<h1>> /\ SubSeq(<<h1, h2>>, 2, 2) = <<h2>> BY Pieces
      <4> QED BY <1>1, <2>2, <3>0, <4>1
    <3>2. b \o SubSeq(c, 1, n) = <<h1>> BY <2>1, <3>1, Pieces
    <3> QED BY <2>1, <3>1, <3>2 DEF Spread, h1, h2
  <2>3. CASE n = 2
    <3>0. Len(c) = 2 /\ n + 1 = 3 BY <1>1, <2>3
    <3>1. SubSeq(c, 1, n) = <<h1, h2>> /\ SubSeq(c, n + 1, Len(c)) = <<>>
      BY <1>1, <2>3, <3>0, Pieces
    <3>2. b \o SubSeq(c, 1, n) = <<h1, h2>> BY <2>1, <3>1, Pieces
    <3> QED BY <2>1, <3>1, <3>2 DEF Spread, h1, h2
  <2> QED BY <2>2, <2>3
<1>2. CASE c = <<h2>>
  <2>1. n = 1 /\ n + 1 = 2 /\ Len(c) = 1 BY <1>2
  <2>2. SubSeq(c, 1, n) = <<h2>> /\ SubSeq(c, n + 1, Len(c)) = <<>>
    BY <1>2, <2>1, Pieces
  <2>3. CASE a = <<>> /\ b = <<h1>>
    <3>1. b \o SubSeq(c, 1, n) = <<h1, h2>> BY <2>3, <2>2, Pieces
    <3> QED BY <2>2, <2>3, <3>1 DEF Spread, h1, h2
  <2>4. CASE a = <<h1>> /\ b = <<>>
    <3>1. b \o SubSeq(c, 1, n) = <<h2>> BY <2>4, <2>2, Pieces
    <3> QED BY <2>2, <2>4, <3>1 DEF Spread, h1, h2
  <2>5. Len(c) = 1 BY <1>2
  <2> QED BY <1>2, <2>3, <2>4, <2>5 DEF Spread, h1, h2
<1>3. CASE c = <<>> BY <1>3
<1> QED BY <1>1, <1>2, <1>3 DEF Spread, h1, h2

LEMMA WriteStep == ASSUME IInv, NEW n \in 1 .. 2, Write(n) PROVE IInv'
<1>1. /\ worker.at # "dead" /\ n <= Len(outgoing)
      /\ UNCHANGED <<channel, negotiation, exchange, loop, clock, promised, heardAt, worker,
                     killedAt, noise, answered, toWorker>>
  BY DEF Write, supervisorVars, disturbance
<1>2. /\ outgoing \in Seq(Truthful(worker, answered)) /\ toSupervisor \in Seq(Truthful(worker, answered))
      /\ Len(outgoing) \in Nat
  BY DEF IInv, StreamsOK
<1>3. outgoing # <<>> BY <1>1
<1>4. worker.at \notin {"start", "install", "reading", "callback"}
  BY <1>3 DEF IInv, WorkerOK
<1>5. /\ clock \in Nat /\ promised \in Nat \cup {None} /\ writtenAt \in Nat \cup {None}
  BY DEF IInv, TypesOK, SignalFindsHandler
<1>6. writtenAt' = writtenAt \/ (writtenAt' = clock /\ worker.status # None /\ n = Len(outgoing))
  BY DEF Write
<1>7. /\ toSupervisor' \in Seq(Truthful(worker, answered)) /\ outgoing' \in Seq(Truthful(worker, answered))
  <2>1. SubSeq(outgoing, 1, n) \in Seq(Truthful(worker, answered)) BY <1>1, <1>2
  <2>2. SubSeq(outgoing, n + 1, Len(outgoing)) \in Seq(Truthful(worker, answered)) BY <1>1, <1>2
  <2>3. toSupervisor \o SubSeq(outgoing, 1, n) \in Seq(Truthful(worker, answered)) BY <1>2, <2>1
  <2>4. <<>> \in Seq(Truthful(worker, answered)) OBVIOUS
  <2> QED BY <1>2, <2>2, <2>3, <2>4 DEF Write
<1>8. StreamsOK' BY <1>1, <1>7 DEF IInv, StreamsOK
<1>9. TypesOK' BY <1>1, <1>5, <1>6 DEF IInv, TypesOK, SignalFindsHandler
<1>10. WorkerOK' BY <1>1, <1>4, <1>6 DEF IInv, WorkerOK
<1>11. RequestOK' BY <1>1 DEF IInv, RequestOK, GenuineAck
<1>12. UndisturbedOK'
  <2>1. CASE ~channel.open
    <3>1. channel.ready /\ exchange \notin {"idle", "signal", "outstanding"}
      BY <2>1 DEF IInv, RequestOK
    <3> QED BY <1>1, <3>1 DEF UndisturbedOK
  <2>2. CASE channel.open
    <3>1. /\ toSupervisor' = toSupervisor \o SubSeq(outgoing, 1, n)
          /\ outgoing' = SubSeq(outgoing, n + 1, Len(outgoing))
          /\ writtenAt' = (IF n = Len(outgoing) /\ worker.status # None
                           THEN clock ELSE writtenAt)
      BY <2>2 DEF Write
    <3>2. ASSUME NEW f, NEW a, Spread(f, a, toSupervisor, outgoing)
          PROVE  Spread(f, a, toSupervisor', outgoing')
      BY <1>1, <3>1, <3>2, SpreadWrite
    <3>3. n = Len(outgoing) => outgoing' = <<>> BY <3>1, <1>2
    <3>4. (noise = 0 /\ ~channel.ready /\ negotiation = "Pending") =>
             /\ channel.protocol.buffer = <<>>
             /\ Spread(Ready, channel.negotiation_buffer, toSupervisor, outgoing)
      BY <1>3 DEF IInv, UndisturbedOK
    <3>5. (noise = 0 /\ channel.ready /\ exchange \in {"idle", "signal", "outstanding"}
             /\ channel.protocol.state \in {"Idle", "RequestedUnverified"}) =>
             /\ worker.status # None /\ writtenAt = None
             /\ Spread(Ack(Id, TRUE, worker.status), channel.protocol.buffer,
                       toSupervisor, outgoing)
      BY <1>3 DEF IInv, UndisturbedOK
    <3>6. (noise = 0 /\ ~channel.ready /\ negotiation = "Pending") =>
             /\ channel.protocol.buffer = <<>>
             /\ Spread(Ready, channel.negotiation_buffer, toSupervisor', outgoing')
      BY <3>2, <3>4
    <3>7. (noise = 0 /\ channel.ready /\ exchange \in {"idle", "signal", "outstanding"}
             /\ channel.protocol.state \in {"Idle", "RequestedUnverified"}) =>
             /\ worker.status # None /\ writtenAt = None
             /\ Spread(Ack(Id, TRUE, worker.status), channel.protocol.buffer,
                       toSupervisor', outgoing')
      BY <3>2, <3>5
    <3> QED BY <1>1, <1>4, <1>6, <3>3, <3>6, <3>7 DEF UndisturbedOK
  <2> QED BY <2>1, <2>2
<1>13. QuietOK' BY <1>1 DEF IInv, QuietOK
<1>14. TimelyOK'
  <2>1. CASE writtenAt' = writtenAt BY <1>1, <2>1 DEF IInv, TimelyOK, TimelyAckHeard
  <2>2. CASE writtenAt' = clock
    <3>1. exchange = "timed_out" => promised \in Nat /\ clock >= promised
      BY DEF IInv, RequestOK
    <3>2. exchange = "timed_out" => clock >= promised - 1 BY <1>5, <3>1
    <3>3. clock >= clock BY <1>5
    <3> QED BY <1>1, <2>2, <3>2, <3>3 DEF TimelyOK, TimelyAckHeard
  <2> QED BY <1>6, <2>1, <2>2
<1> QED BY <1>8, <1>9, <1>10, <1>11, <1>12, <1>13, <1>14 DEF IInv

\* Whatever the descendant writes in the worker's place is recorded as its answer.
LEMMA NoiseStep == ASSUME IInv, NEW frame \in Bogus \cup Plausible, Noise(frame) PROVE IInv'
<1>1. /\ noise' = noise + 1 /\ toSupervisor' = toSupervisor \o Halves(frame)
      /\ answered' = answered \cup ({frame} \cap Plausible)
      /\ UNCHANGED <<channel, negotiation, exchange, loop, clock, promised, heardAt, worker,
                     outgoing, writtenAt, killedAt, toWorker>>
  BY DEF Noise, supervisorVars, workerVars
<1>2. noise' \in Nat /\ noise' # 0 BY <1>1 DEF IInv, TypesOK
<1>3. /\ frame \in Frames
      /\ Genuine(frame) => frame = Ack(Id, TRUE, frame.status) /\ frame \in Plausible
      /\ frame.kind = "ready" => frame = Ready /\ frame \in Plausible
  <2>1. CASE frame = Ack(Id, FALSE, "Completed")
    BY <2>1 DEF Frames, Answers, Genuine, Ack, Statuses
  <2>2. CASE frame = Ack(Id + 1, TRUE, "Completed")
    <3>1. frame.id = 2 BY <2>2 DEF Ack, Id
    <3>2. ~Genuine(frame) BY <3>1 DEF Genuine, Id
    <3>3. frame \in Frames BY <2>2 DEF Frames, Answers, Ack, Statuses
    <3> QED BY <2>2, <3>2, <3>3 DEF Ack
  <2>3. CASE frame = Junk BY <2>3 DEF Frames, Genuine, Junk
  <2>4. CASE frame = Ready BY <2>4 DEF Frames, Genuine, Ready, Plausible
  <2>5. CASE \E status \in Statuses : frame = Ack(Id, TRUE, status)
    <3>1. PICK status \in Statuses : frame = Ack(Id, TRUE, status) BY <2>5
    <3>2. frame.kind = "ack" /\ frame.status = status BY <3>1 DEF Ack
    <3>3. frame \in Plausible BY <3>1 DEF Plausible, Statuses
    <3> QED BY <3>1, <3>2, <3>3, AnswerIsFrame
  <2> QED BY <2>1, <2>2, <2>3, <2>4, <2>5 DEF Bogus, Junk, Plausible, Statuses
<1>12. answered \subseteq answered' /\ (frame \in Plausible => frame \in answered') BY <1>1
<1>4. Halves(frame) \in Seq(Truthful(worker, answered'))
  <2>1. Half(frame, 1) \in Truthful(worker, answered')
        /\ Half(frame, 2) \in Truthful(worker, answered')
    BY <1>3, <1>12 DEF Truthful, Vouched, Half
  <2> QED BY <2>1 DEF Halves
<1>13. /\ Seq(Truthful(worker, answered)) \subseteq Seq(Truthful(worker, answered'))
       /\ Channels(worker, answered) \subseteq Channels(worker, answered')
  BY <1>12, TruthfulGrows
<1>5. StreamsOK'
  <2>1. toSupervisor \in Seq(Truthful(worker, answered')) BY <1>13 DEF IInv, StreamsOK
  <2>2. toSupervisor' \in Seq(Truthful(worker, answered')) BY <1>1, <1>4, <2>1
  <2> QED BY <1>1, <1>13, <2>2 DEF IInv, StreamsOK
<1>6. TypesOK' BY <1>1, <1>2, <1>12 DEF IInv, TypesOK, SignalFindsHandler
<1>7. WorkerOK' BY <1>1, <1>2, <1>12 DEF IInv, WorkerOK
<1>8. RequestOK' BY <1>1, <1>12 DEF IInv, RequestOK, GenuineAck
<1>9. UndisturbedOK' BY <1>2 DEF UndisturbedOK
<1>10. QuietOK' BY <1>1 DEF IInv, QuietOK
<1>11. TimelyOK' BY <1>2 DEF TimelyOK, TimelyAckHeard
<1> QED BY <1>5, <1>6, <1>7, <1>8, <1>9, <1>10, <1>11 DEF IInv

\* A frame the worker does not get is one it does not answer.
LEMMA InterceptStep == ASSUME IInv, Intercept PROVE IInv'
<1>1. /\ toWorker # <<>> /\ toWorker' = Tail(toWorker)
      /\ UNCHANGED <<channel, negotiation, exchange, loop, clock, promised, heardAt, worker,
                     outgoing, writtenAt, killedAt, noise, answered, toSupervisor>>
  BY DEF Intercept, supervisorVars, workerVars, disturbance
<1>2. StreamsOK' BY <1>1 DEF IInv, StreamsOK
<1>3. TypesOK' BY <1>1 DEF IInv, TypesOK, SignalFindsHandler
<1>4. WorkerOK' BY <1>1 DEF IInv, WorkerOK
<1>5. RequestOK' BY <1>1 DEF IInv, RequestOK, GenuineAck
<1>6. UndisturbedOK' BY <1>1 DEF IInv, UndisturbedOK
<1>7. QuietOK'
  <2> SUFFICES ASSUME exchange = "idle" \/ ~channel.ready PROVE QuietOK'
    BY <1>1 DEF QuietOK
  <2>1. /\ worker.status = None /\ worker.at \in {"start", "closed", "dead"}
        /\ worker.at = "start" => toWorker = <<[kind |-> "hello"]>>
    BY <1>1 DEF IInv, QuietOK
  <2>2. CASE worker.at \in {"closed", "dead"} BY <1>1, <2>1, <2>2 DEF QuietOK
  <2>3. CASE worker.at = "start"
    <3>1. toWorker = <<[kind |-> "hello"]>> BY <2>1, <2>3
    <3>2. toWorker' = <<>> BY SMTT(40), <1>1, <3>1
    <3> QED BY <1>1, <2>1, <2>3, <3>2 DEF QuietOK
  <2> QED BY <2>1, <2>2, <2>3
<1>8. TimelyOK' BY <1>1 DEF IInv, TimelyOK, TimelyAckHeard
<1> QED BY <1>2, <1>3, <1>4, <1>5, <1>6, <1>7, <1>8 DEF IInv

-----------------------------------------------------------------------------
(* The request, its signal, and the polls.                                 *)

\* What the protocol is after each of its updates.
LEMMA Buffered ==
    ASSUME NEW w, NEW ans, NEW p \in Protocols(w, ans), NEW b \in Seq(Truthful(w, ans)), NEW q,
           q = [p EXCEPT !.buffer = b]
    PROVE  /\ q \in Protocols(w, ans) /\ q.buffer = b /\ q.state = p.state
           /\ q.active_request_id = p.active_request_id /\ q.deadline_at = p.deadline_at
           /\ q.endpoint_exited = p.endpoint_exited
<1> DEFINE B == Seq(Truthful(w, ans))
<1>1. b \in B OBVIOUS
<1> HIDE DEF B
<1>2. p \in [state: CheckpointProtocolState, active_request_id: {None, Id},
             deadline_at: {None} \cup Nat, buffer: B, endpoint_exited: BOOLEAN]
  BY DEF Protocols, B
<1>3. q \in [state: CheckpointProtocolState, active_request_id: {None, Id},
             deadline_at: {None} \cup Nat, buffer: B, endpoint_exited: BOOLEAN]
  BY <1>1, <1>2
<1>4. q \in Protocols(w, ans) BY <1>3 DEF Protocols, B
<1> QED BY <1>2, <1>4

LEMMA Dropped ==
    ASSUME NEW w, NEW ans, NEW p \in Protocols(w, ans)
    PROVE  /\ cleared(p) \in Protocols(w, ans) /\ cleared(p).buffer = <<>>
           /\ cleared(p).state = p.state /\ cleared(p).endpoint_exited = p.endpoint_exited
           /\ cleared(p).active_request_id = p.active_request_id
           /\ cleared(p).deadline_at = p.deadline_at
           /\ cancelled(p) \in Protocols(w, ans) /\ cancelled(p).buffer = <<>>
           /\ cancelled(p).state = "Cancelled"
<1> DEFINE c == cleared(p)
<1>1. /\ c \in Protocols(w, ans) /\ c.buffer = <<>> /\ c.state = p.state
      /\ c.active_request_id = p.active_request_id /\ c.deadline_at = p.deadline_at
      /\ c.endpoint_exited = p.endpoint_exited
  <2> DEFINE e == <<>>
  <2>1. e \in Seq(Truthful(w, ans)) OBVIOUS
  <2>2. c = [p EXCEPT !.buffer = e] BY DEF cleared
  <2> HIDE DEF c, e
  <2>3. c.buffer = e /\ c \in Protocols(w, ans) /\ c.state = p.state
        /\ c.active_request_id = p.active_request_id /\ c.deadline_at = p.deadline_at
        /\ c.endpoint_exited = p.endpoint_exited
    BY <2>1, <2>2, Buffered
  <2> QED BY <2>3 DEF e
<1>2. cancelled(p) = [c EXCEPT !.active_request_id = None, !.deadline_at = None,
                               !.state = "Cancelled"]
  BY DEF cancelled
<1> HIDE DEF c
<1>3. /\ cancelled(p) \in Protocols(w, ans) /\ cancelled(p).buffer = <<>>
      /\ cancelled(p).state = "Cancelled"
  BY <1>1, <1>2 DEF Protocols, CheckpointProtocolState
<1> QED BY <1>1, <1>3 DEF c

LEMMA RequestStep == ASSUME IInv, Request PROVE IInv'
<1>1. /\ exchange = "idle" /\ loop = "tick"
      /\ UNCHANGED <<negotiation, loop, clock, heardAt, worker, outgoing, writtenAt, killedAt,
                     noise, answered, toSupervisor>>
  BY DEF Request, workerVars, disturbance
<1>2. /\ channel \in Channels(worker, answered) /\ clock \in Nat /\ channel.protocol.state = "Idle"
      /\ channel.open /\ worker.status = None /\ writtenAt = None
  BY <1>1 DEF IInv, StreamsOK, TypesOK, RequestOK, QuietOK, WorkerOK
<1>3. CASE exchange' = "refused" /\ UNCHANGED <<channel, promised, toWorker>>
  <2>1. StreamsOK' BY <1>1, <1>3 DEF IInv, StreamsOK
  <2>2. TypesOK' BY <1>1, <1>3 DEF IInv, TypesOK, SignalFindsHandler, Outcomes
  <2>3. WorkerOK' BY <1>1, <1>3 DEF IInv, WorkerOK
  <2>4. RequestOK' BY <1>1, <1>2, <1>3 DEF IInv, RequestOK, GenuineAck
  <2>5. UndisturbedOK' BY <1>1, <1>3 DEF IInv, UndisturbedOK
  <2>6. QuietOK' BY <1>1, <1>3 DEF IInv, QuietOK
  <2>7. TimelyOK' BY <1>1, <1>3 DEF IInv, TimelyOK, TimelyAckHeard
  <2> QED BY <2>1, <2>2, <2>3, <2>4, <2>5, <2>6, <2>7 DEF IInv
<1>4. CASE /\ channel.ready /\ ~request_error(channel.protocol, Id, clock, clock + Timeout)
           /\ channel' = [channel EXCEPT !.protocol = begin_request(@, Id, clock + Timeout)]
           /\ promised' = clock + Timeout
           /\ exchange' \in {"signal", "refused"}
  <2>1. ~channel.protocol.endpoint_exited BY <1>4 DEF request_error
  <2>2. PICK k \in Nat : k = clock + Timeout BY <1>2
  <2> DEFINE p == channel.protocol
             q == begin_request(p, Id, k)
  <2>3. p \in Protocols(worker, answered) BY <1>2 DEF Channels
  <2>4. /\ q \in Protocols(worker, answered) /\ q.state = "RequestedUnverified"
        /\ q.active_request_id = Id /\ q.deadline_at = k /\ q.buffer = p.buffer
        /\ q.endpoint_exited = p.endpoint_exited
    BY <2>3 DEF begin_request, Protocols, CheckpointProtocolState
  <2>5. channel' = [channel EXCEPT !.protocol = q] BY <1>4, <2>2
  <2> HIDE DEF p, q
  <2>6. /\ channel' \in Channels(worker, answered) /\ channel'.protocol = q
        /\ channel'.ready = channel.ready /\ channel'.open = channel.open
        /\ channel'.negotiation_buffer = channel.negotiation_buffer
        /\ channel'.negotiation_started = channel.negotiation_started
    BY <1>2, <2>4, <2>5 DEF Channels
  <2>7. q.buffer = channel.protocol.buffer /\ ~q.endpoint_exited BY <2>1, <2>4 DEF p
  <2>8. promised' = k BY <1>4, <2>2
  <2>9. worker.at \in {"start", "install"} => Ready \in answered BY <1>4 DEF IInv, WorkerOK
  <2>10. StreamsOK' BY <1>1, <2>6, <2>7 DEF IInv, StreamsOK
  <2>11. TypesOK' BY <1>1, <1>4, <2>8 DEF IInv, TypesOK, SignalFindsHandler, Outcomes
  <2>12. WorkerOK' BY <1>1, <2>9 DEF IInv, WorkerOK
  <2>13. RequestOK'
    BY <1>1, <1>2, <1>4, <2>4, <2>6, <2>7, <2>8 DEF IInv, RequestOK, GenuineAck
  <2>14. UndisturbedOK'
    <3>1. noise = 0 => channel.protocol.buffer = <<>> /\ toSupervisor = <<>> /\ outgoing = <<>>
      BY <1>1, <1>2, <1>4 DEF IInv, UndisturbedOK
    <3>2. channel'.protocol.buffer = channel.protocol.buffer /\ channel'.ready BY <1>4, <2>6, <2>7
    <3> QED BY <1>1, <1>2, <3>1, <3>2 DEF UndisturbedOK
  <2>15. QuietOK' BY <1>4, <2>6 DEF QuietOK
  <2>16. TimelyOK' BY <1>1, <1>2, <1>4 DEF TimelyOK, TimelyAckHeard
  <2> QED BY <2>10, <2>11, <2>12, <2>13, <2>14, <2>15, <2>16 DEF IInv
<1> QED BY <1>3, <1>4 DEF Request

LEMMA SignalStep == ASSUME IInv, Signal PROVE IInv'
<1>1. /\ exchange = "signal"
      /\ UNCHANGED <<negotiation, loop, clock, promised, heardAt, outgoing, writtenAt,
                     noise, answered, toWorker, toSupervisor>>
  BY DEF Signal, disturbance
<1>2. /\ channel \in Channels(worker, answered) /\ channel.ready /\ channel.open /\ worker \in WorkerStates
      /\ channel.protocol.state = "RequestedUnverified" /\ promised \in Nat
      /\ worker.at \in {"start", "install"} => Ready \in answered
  BY <1>1 DEF IInv, StreamsOK, TypesOK, RequestOK, WorkerOK
<1>3. CASE worker.at = "dead"
  <2>1. /\ exchange' = "refused" /\ UNCHANGED <<worker, killedAt>>
        /\ channel' = [channel EXCEPT !.protocol = cancelled(@), !.open = FALSE]
    BY <1>3 DEF Signal
  <2> DEFINE p == channel.protocol
             q == cancelled(p)
  <2>2. p \in Protocols(worker, answered) BY <1>2 DEF Channels
  <2>3. q \in Protocols(worker, answered) /\ q.state = "Cancelled" /\ q.buffer = <<>>
    BY <2>2, Dropped
  <2>4. channel' = [channel EXCEPT !.protocol = q, !.open = FALSE] BY <2>1
  <2> HIDE DEF p, q
  <2>5. /\ channel' \in Channels(worker, answered) /\ channel'.protocol = q
        /\ channel'.ready = channel.ready
        /\ channel'.negotiation_buffer = channel.negotiation_buffer
        /\ channel'.negotiation_started = channel.negotiation_started
    BY <1>2, <2>3, <2>4 DEF Channels
  <2>6. StreamsOK' BY <1>1, <2>1, <2>3, <2>5 DEF IInv, StreamsOK, MaxBuffer
  <2>7. TypesOK' BY <1>1, <2>1 DEF IInv, TypesOK, SignalFindsHandler, Outcomes
  <2>8. WorkerOK' BY <1>1, <1>3, <2>1 DEF IInv, WorkerOK
  <2>9. RequestOK' BY <1>1, <1>2, <2>1, <2>3, <2>5 DEF IInv, RequestOK, GenuineAck
  <2>10. UndisturbedOK' BY <1>2, <2>1, <2>5 DEF UndisturbedOK
  <2>11. QuietOK' BY <1>2, <2>1, <2>5 DEF QuietOK
  <2>12. TimelyOK' BY <2>1 DEF TimelyOK, TimelyAckHeard
  <2> QED BY <2>6, <2>7, <2>8, <2>9, <2>10, <2>11, <2>12 DEF IInv
<1>4. CASE worker.at # "dead"
  <2>1. /\ exchange' = "outstanding" /\ channel' = channel
        /\ worker' = (IF worker.handler THEN [worker EXCEPT !.pending = TRUE]
                      ELSE [worker EXCEPT !.at = "dead", !.open = FALSE])
        /\ killedAt' = IF worker.handler THEN killedAt ELSE worker.at
    BY <1>4 DEF Signal
  <2>2. ~worker.handler => worker.at \in {"closing", "closed"} \/ Ready \in answered
    BY <1>2, <1>4 DEF IInv, WorkerOK, WorkerStates, WorkerPlaces
  <2>3. SignalFindsHandler'
    BY <1>1, <2>1, <2>2 DEF IInv, TypesOK, SignalFindsHandler
  <2>4. /\ worker' \in WorkerStates /\ worker'.status = worker.status
        /\ worker'.handled = worker.handled
        /\ worker'.at = "dead" \/ (worker'.at = worker.at /\ worker'.handler = worker.handler)
    <3>1. CASE worker.handler
      <4>1. worker' = [worker EXCEPT !.pending = TRUE] BY <2>1, <3>1
      <4> QED BY <1>2, <4>1 DEF WorkerStates
    <3>2. CASE ~worker.handler
      <4>1. worker' = [worker EXCEPT !.at = "dead", !.open = FALSE] BY <2>1, <3>2
      <4> QED BY <1>2, <4>1 DEF WorkerStates, WorkerPlaces
    <3> QED BY <3>1, <3>2
  <2>5. exchange' = "outstanding" /\ channel' = channel BY <2>1
  <2>6. /\ Seq(Truthful(worker, answered)) \subseteq Seq(Truthful(worker', answered'))
        /\ Channels(worker, answered) \subseteq Channels(worker', answered')
    BY <1>1, <2>4, TruthfulGrows
  <2>7. StreamsOK' BY <1>1, <2>5, <2>6 DEF IInv, StreamsOK
  <2>8. TypesOK' BY <1>1, <2>3, <2>4, <2>5 DEF IInv, TypesOK, SignalFindsHandler, Outcomes
  <2>9. WorkerOK' BY <1>1, <1>2, <2>4, <2>5 DEF IInv, WorkerOK
  <2>10. RequestOK' BY <1>1, <1>2, <2>5 DEF IInv, RequestOK, GenuineAck
  <2>11. UndisturbedOK' BY <1>1, <1>2, <2>4, <2>5 DEF IInv, UndisturbedOK
  <2>12. QuietOK' BY <1>2, <2>5 DEF QuietOK
  <2>13. TimelyOK' BY <1>1, <2>5 DEF IInv, TimelyOK, TimelyAckHeard
  <2> QED BY <2>7, <2>8, <2>9, <2>10, <2>11, <2>12, <2>13 DEF IInv
<1> QED BY <1>3, <1>4

\* A read takes the first halves of the stream and leaves the rest.
LEMMA TakenIs ==
    ASSUME NEW T, NEW stream \in Seq(T), NEW limit \in Nat \ {0}, NEW n,
           n = Taken(stream, limit)
    PROVE  /\ n \in Nat /\ n <= Len(stream) /\ n <= limit
           /\ n = 0 <=> stream = <<>>
           /\ Len(stream) <= limit => n = Len(stream)
           /\ SubSeq(stream, 1, n) \in Seq(T) /\ Len(SubSeq(stream, 1, n)) = n
           /\ SubSeq(stream, n + 1, Len(stream)) \in Seq(T)
<1>1. Len(stream) \in Nat OBVIOUS
<1>2. n \in Nat /\ n <= Len(stream) /\ n <= limit /\ (Len(stream) <= limit => n = Len(stream))
  BY <1>1 DEF Taken
<1>3. n = 0 <=> stream = <<>>
  <2>1. Len(stream) = 0 <=> stream = <<>> BY EmptySeq
  <2> QED BY <1>1, <2>1 DEF Taken
<1>4. \A i \in 1 .. n : stream[i] \in T BY <1>1, <1>2
<1>5. \A i \in n + 1 .. Len(stream) : stream[i] \in T BY <1>1, <1>2
<1>6. SubSeq(stream, 1, n) \in Seq(T) /\ Len(SubSeq(stream, 1, n)) = n
  BY <1>2, <1>4, SubSeqProperties
<1>7. SubSeq(stream, n + 1, Len(stream)) \in Seq(T) BY <1>1, <1>2, <1>5, SubSeqProperties
<1> QED BY <1>2, <1>3, <1>6, <1>7

LEMMA Rebuffered ==
    ASSUME NEW w, NEW ans, NEW ch \in Channels(w, ans), NEW b \in Seq(Truthful(w, ans)), NEW c,
           c = [ch EXCEPT !.negotiation_buffer = b]
    PROVE  /\ c \in Channels(w, ans) /\ c.negotiation_buffer = b /\ c.protocol = ch.protocol
           /\ c.open = ch.open /\ c.negotiation_started = ch.negotiation_started
           /\ c.ready = ch.ready
<1> DEFINE B == Seq(Truthful(w, ans))
           P == Protocols(w, ans)
<1>1. b \in B OBVIOUS
<1> HIDE DEF B, P
<1>2. ch \in [protocol: P, negotiation_started: BOOLEAN, ready: BOOLEAN,
              negotiation_buffer: B, open: BOOLEAN]
  BY DEF Channels, B, P
<1>3. c \in [protocol: P, negotiation_started: BOOLEAN, ready: BOOLEAN,
             negotiation_buffer: B, open: BOOLEAN]
  BY <1>1, <1>2
<1>4. c \in Channels(w, ans) BY <1>3 DEF Channels, B, P
<1> QED BY <1>2, <1>4

LEMMA PollReadyIs ==
    ASSUME NEW w, NEW ans, NEW ch \in Channels(w, ans), Len(ch.negotiation_buffer) <= ReadyHalves, ~ch.ready,
           NEW stream \in Seq(Truthful(w, ans)), NEW eof \in BOOLEAN, NEW r,
           r = poll_ready(ch, stream, eof)
    PROVE  /\ r.ch \in Channels(w, ans) /\ Len(r.ch.negotiation_buffer) <= ReadyHalves
           /\ r.ch.protocol = ch.protocol /\ r.ch.open = ch.open
           /\ r.ch.negotiation_started = ch.negotiation_started
           /\ SubSeq(stream, r.n + 1, Len(stream)) \in Seq(Truthful(w, ans))
           /\ r.ch.ready => r.ok /\ (w.at \notin {"start", "install"} \/ Ready \in ans)
           /\ stream = <<>> => r.ch = ch /\ r.n = 0
<1> DEFINE n == Taken(stream, ReadyHalves)
           buffer == ch.negotiation_buffer \o SubSeq(stream, 1, n)
           whole == /\ Len(buffer) = ReadyHalves
                    /\ buffer[1].part = 1
                    /\ buffer[2] = Half(buffer[1].frame, 2)
                    /\ buffer[1].frame.kind = "ready"
                    /\ buffer[1].frame.nonce
<1>1. ReadyHalves \in Nat \ {0} BY DEF ReadyHalves
<1>2. /\ n \in Nat /\ n <= Len(stream) /\ SubSeq(stream, 1, n) \in Seq(Truthful(w, ans))
      /\ n = 0 <=> stream = <<>>
      /\ SubSeq(stream, n + 1, Len(stream)) \in Seq(Truthful(w, ans))
  BY SMTT(40), <1>1, TakenIs
<1>3. SubSeq(stream, 1, Len(stream)) = stream BY SubSeqFull
<1>4. ch.negotiation_buffer \in Seq(Truthful(w, ans)) BY DEF Channels
<1>5. buffer \in Seq(Truthful(w, ans))
  <2> HIDE DEF n
  <2> QED BY <1>2, <1>4, ConcatProperties
<1>6. r = IF n = 0 THEN [ch |-> ch, n |-> 0, ok |-> ~eof]
          ELSE IF Len(buffer) > ReadyHalves
          THEN [ch |-> [ch EXCEPT !.negotiation_buffer = <<>>], n |-> n, ok |-> FALSE]
          ELSE IF Len(buffer) < ReadyHalves
          THEN [ch |-> [ch EXCEPT !.negotiation_buffer = buffer], n |-> n, ok |-> TRUE]
          ELSE IF whole
          THEN [ch |-> [ch EXCEPT !.negotiation_buffer = <<>>, !.ready = TRUE],
                n |-> n, ok |-> TRUE]
          ELSE [ch |-> [ch EXCEPT !.negotiation_buffer = buffer], n |-> n, ok |-> FALSE]
  BY Zenon DEF poll_ready
<1>7. whole => w.at \notin {"start", "install"} \/ Ready \in ans
  <2>0. whole => Len(buffer) = 2 BY DEF ReadyHalves
  <2> HIDE DEF buffer
  <2>1. whole => 1 \in 1 .. Len(buffer) BY <2>0
  <2>2. whole => buffer[1] \in Truthful(w, ans) BY <1>5, <2>1, ElementOfSeq
  <2> QED BY <2>2 DEF Truthful
<1>9. <<>> \in Seq(Truthful(w, ans)) /\ buffer \in Seq(Truthful(w, ans)) /\ Len(buffer) \in Nat BY <1>5
<1> HIDE DEF n, buffer, whole
<1>10. CASE n = 0
  <2>1. r.ch = ch /\ r.n = 0 BY <1>6, <1>10
  <2>2. stream = <<>> BY <1>2, <1>10
  <2> QED BY <1>2, <1>10, <2>1, <2>2
<1>11. CASE n # 0 /\ Len(buffer) > ReadyHalves
  <2> DEFINE e == <<>>
  <2>1. r = [ch |-> [ch EXCEPT !.negotiation_buffer = e], n |-> n, ok |-> FALSE]
    BY <1>6, <1>11
  <2>2. r.ch = [ch EXCEPT !.negotiation_buffer = e] /\ r.n = n BY <2>1
  <2>3. e \in Seq(Truthful(w, ans)) /\ Len(e) <= ReadyHalves BY <1>9 DEF ReadyHalves
  <2> HIDE DEF e
  <2>4. /\ r.ch \in Channels(w, ans) /\ r.ch.negotiation_buffer = e /\ r.ch.protocol = ch.protocol
        /\ r.ch.open = ch.open /\ r.ch.negotiation_started = ch.negotiation_started
        /\ r.ch.ready = ch.ready
    <3> DEFINE c == r.ch
    <3>1. c = [ch EXCEPT !.negotiation_buffer = e] BY <2>2
    <3> HIDE DEF c
    <3>2. /\ c \in Channels(w, ans) /\ c.negotiation_buffer = e /\ c.protocol = ch.protocol
          /\ c.open = ch.open /\ c.negotiation_started = ch.negotiation_started
          /\ c.ready = ch.ready
      BY <2>3, <3>1, Rebuffered
    <3> QED BY <3>2 DEF c
  <2> QED BY <1>2, <1>11, <2>2, <2>3, <2>4
<1>12. CASE n # 0 /\ ~(Len(buffer) > ReadyHalves) /\ ~(Len(buffer) = ReadyHalves /\ whole)
  <2>1. r.ch = [ch EXCEPT !.negotiation_buffer = buffer] /\ r.n = n
    <3>1. CASE Len(buffer) < ReadyHalves
      <4>1. r = [ch |-> [ch EXCEPT !.negotiation_buffer = buffer], n |-> n, ok |-> TRUE]
        BY <1>6, <1>12, <3>1
      <4> QED BY <4>1
    <3>2. CASE ~(Len(buffer) < ReadyHalves)
      <4>0. Len(buffer) = ReadyHalves
        <5>1. ReadyHalves \in Nat BY DEF ReadyHalves
        <5>2. Len(buffer) \in Nat /\ ~(Len(buffer) > ReadyHalves) BY <1>9, <1>12
        <5> QED BY ONLY <3>2, <5>1, <5>2
      <4>1. ~whole BY <1>12, <4>0
      <4>2. r = [ch |-> [ch EXCEPT !.negotiation_buffer = buffer], n |-> n, ok |-> FALSE]
        BY <1>6, <1>12, <3>2, <4>1
      <4> QED BY <4>2
    <3> QED BY <3>1, <3>2
  <2>2. Len(buffer) <= ReadyHalves BY <1>9, <1>12 DEF ReadyHalves
  <2>3. /\ r.ch \in Channels(w, ans) /\ r.ch.negotiation_buffer = buffer
        /\ r.ch.protocol = ch.protocol /\ r.ch.ready = ch.ready
        /\ r.ch.open = ch.open /\ r.ch.negotiation_started = ch.negotiation_started
    <3> DEFINE c == r.ch
    <3>1. c = [ch EXCEPT !.negotiation_buffer = buffer] BY <2>1
    <3> HIDE DEF c
    <3>2. /\ c \in Channels(w, ans) /\ c.negotiation_buffer = buffer /\ c.protocol = ch.protocol
          /\ c.open = ch.open /\ c.negotiation_started = ch.negotiation_started
          /\ c.ready = ch.ready
      BY <1>9, <3>1, Rebuffered
    <3> QED BY <3>2 DEF c
  <2> QED BY <1>2, <1>12, <2>1, <2>2, <2>3
<1>13. CASE n # 0 /\ Len(buffer) = ReadyHalves /\ whole
  <2> DEFINE e == <<>>
  <2>1. r = [ch |-> [ch EXCEPT !.negotiation_buffer = e, !.ready = TRUE], n |-> n, ok |-> TRUE]
    BY <1>6, <1>13 DEF ReadyHalves
  <2>2. r.ch = [ch EXCEPT !.negotiation_buffer = e, !.ready = TRUE] /\ r.n = n /\ r.ok = TRUE
    BY <2>1
  <2>3. e \in Seq(Truthful(w, ans)) /\ Len(e) <= ReadyHalves BY <1>9 DEF ReadyHalves
  <2> HIDE DEF e
  <2>4. /\ r.ch \in Channels(w, ans) /\ r.ch.negotiation_buffer = e /\ r.ch.protocol = ch.protocol
        /\ r.ch.open = ch.open /\ r.ch.negotiation_started = ch.negotiation_started
    <3> DEFINE c == r.ch
    <3>1. c = [ch EXCEPT !.negotiation_buffer = e, !.ready = TRUE] BY <2>2
    <3> HIDE DEF c
    <3>2. /\ c \in Channels(w, ans) /\ c.negotiation_buffer = e /\ c.protocol = ch.protocol
          /\ c.open = ch.open /\ c.negotiation_started = ch.negotiation_started
      BY <2>3, <3>1 DEF Channels
    <3> QED BY <3>2 DEF c
  <2> QED BY <1>2, <1>7, <1>13, <2>2, <2>3, <2>4
<1> QED BY <1>10, <1>11, <1>12, <1>13

\* Readiness announced by the worker, and by nobody else, is heard.
LEMMA ReadyHeard ==
    ASSUME NEW w, NEW ans, NEW ch \in Channels(w, ans), ~ch.ready, NEW stream \in Seq(Truthful(w, ans)),
           NEW out, NEW eof, NEW r, r = poll_ready(ch, stream, eof),
           Spread(Ready, ch.negotiation_buffer, stream, out)
    PROVE  \/ r.ch.ready /\ SubSeq(stream, r.n + 1, Len(stream)) = <<>> /\ out = <<>>
           \/ /\ ~r.ch.ready
              /\ Spread(Ready, r.ch.negotiation_buffer, SubSeq(stream, r.n + 1, Len(stream)), out)
<1> DEFINE h1 == Half(Ready, 1)
           h2 == Half(Ready, 2)
           a == ch.negotiation_buffer
           n == Taken(stream, ReadyHalves)
           buffer == ch.negotiation_buffer \o SubSeq(stream, 1, n)
           whole == /\ Len(buffer) = ReadyHalves
                    /\ buffer[1].part = 1
                    /\ buffer[2] = Half(buffer[1].frame, 2)
                    /\ buffer[1].frame.kind = "ready"
                    /\ buffer[1].frame.nonce
<1>1. /\ h1.part = 1 /\ h2 = Half(h1.frame, 2) /\ h1.frame.kind = "ready" /\ h1.frame.nonce
  BY DEF Half, Ready
<1>2. r = IF n = 0 THEN [ch |-> ch, n |-> 0, ok |-> ~eof]
          ELSE IF Len(buffer) > ReadyHalves
          THEN [ch |-> [ch EXCEPT !.negotiation_buffer = <<>>], n |-> n, ok |-> FALSE]
          ELSE IF Len(buffer) < ReadyHalves
          THEN [ch |-> [ch EXCEPT !.negotiation_buffer = buffer], n |-> n, ok |-> TRUE]
          ELSE IF whole
          THEN [ch |-> [ch EXCEPT !.negotiation_buffer = <<>>, !.ready = TRUE],
                n |-> n, ok |-> TRUE]
          ELSE [ch |-> [ch EXCEPT !.negotiation_buffer = buffer], n |-> n, ok |-> FALSE]
  BY Zenon DEF poll_ready
<1>3. Len(stream) \in Nat /\ (Len(stream) <= 2 => n = Len(stream))
  <2>1. ReadyHalves \in Nat \ {0} /\ ReadyHalves = 2 BY DEF ReadyHalves
  <2>2. Len(stream) \in Nat OBVIOUS
  <2>3. Len(stream) <= 2 => n = Len(stream) BY <2>1, TakenIs
  <2> QED BY <2>2, <2>3
<1> HIDE DEF h1, h2, n, buffer, whole
<1>4. CASE stream = <<>>
  <2>1. n = 0 BY <1>3, <1>4
  <2>2. r.ch = ch /\ r.n = 0 BY <1>2, <2>1
  <2>3. SubSeq(stream, r.n + 1, Len(stream)) = <<>> BY <1>4, <2>2, SubSeqEmpty
  <2> QED BY <1>4, <2>2, <2>3
<1>5. CASE a = <<>> /\ stream = <<h1>> /\ out = <<h2>>
  <2>1. n = 1 /\ Len(stream) = 1 BY <1>3, <1>5
  <2>2. buffer = <<h1>>
    <3>1. SubSeq(<<h1>>, 1, 1) = <<h1>> /\ <<>> \o <<h1>> = <<h1>> BY Pieces
    <3> QED BY <1>5, <2>1, <3>1 DEF buffer
  <2>3. ~(Len(buffer) > ReadyHalves) /\ Len(buffer) < ReadyHalves
    <3>1. Len(buffer) = 1 BY <2>2
    <3> QED BY <3>1 DEF ReadyHalves
  <2>4. r = [ch |-> [ch EXCEPT !.negotiation_buffer = buffer], n |-> n, ok |-> TRUE]
    BY <1>2, <2>1, <2>3
  <2>5. r.ch.negotiation_buffer = buffer /\ r.ch.ready = ch.ready /\ r.n = n
    BY <2>4 DEF Channels
  <2>6. SubSeq(stream, r.n + 1, Len(stream)) = <<>> BY <2>1, <2>5, SubSeqEmpty
  <2> QED BY <1>5, <2>2, <2>5, <2>6 DEF Spread, h1, h2
<1>6. CASE ((a = <<>> /\ stream = <<h1, h2>>) \/ (a = <<h1>> /\ stream = <<h2>>)) /\ out = <<>>
  <2>1. Len(stream) = 1 \/ Len(stream) = 2 BY <1>6
  <2>2. Len(stream) <= 2
    <3>1. CASE Len(stream) = 1 BY <3>1
    <3>2. CASE Len(stream) = 2 BY <3>2
    <3> QED BY <2>1, <3>1, <3>2
  <2>3. n = Len(stream) BY <1>3, <2>2
  <2>4. n # 0 BY <2>3, <2>1
  <2>5. n = Len(stream) /\ n # 0 /\ n \in Nat BY <1>3, <2>1, <2>3, <2>4
  <2>6. buffer = <<h1, h2>>
    <3>1. CASE a = <<>> /\ stream = <<h1, h2>>
      <4>1. n = 2 BY <2>5, <3>1
      <4> QED BY <3>1, <4>1, Pieces DEF buffer
    <3>2. CASE a = <<h1>> /\ stream = <<h2>>
      <4>1. n = 1 BY <2>5, <3>2
      <4> QED BY <3>2, <4>1, Pieces DEF buffer
    <3> QED BY <1>6, <3>1, <3>2
  <2>7. Len(buffer) = 2 /\ buffer[1] = h1 /\ buffer[2] = h2 BY <2>6
  <2>8. ~(Len(buffer) > ReadyHalves) /\ ~(Len(buffer) < ReadyHalves) /\ Len(buffer) = ReadyHalves
    BY <2>7 DEF ReadyHalves
  <2>9. whole BY <1>1, <2>7, <2>8 DEF whole
  <2>10. r = [ch |-> [ch EXCEPT !.negotiation_buffer = <<>>, !.ready = TRUE],
             n |-> n, ok |-> TRUE]
    BY <1>2, <2>5, <2>8, <2>9
  <2>11. r.ch = [ch EXCEPT !.negotiation_buffer = <<>>, !.ready = TRUE] /\ r.n = n BY <2>10
  <2>12. r.ch.ready = TRUE BY <2>11 DEF Channels
  <2>13. SubSeq(stream, r.n + 1, Len(stream)) = <<>> BY <2>5, <2>11, SubSeqEmpty
  <2> QED BY <1>6, <2>12, <2>13
<1> QED BY <1>4, <1>5, <1>6 DEF Spread, h1, h2

LEMMA PollReadyStep == ASSUME IInv, PollReady PROVE IInv'
<1> DEFINE eof == ~worker.open
           r == poll_ready(channel, toSupervisor, eof)
<1>1. /\ loop = "poll" /\ negotiation = "Pending" /\ loop' = "tick" /\ channel' = r.ch
      /\ toSupervisor' = SubSeq(toSupervisor, r.n + 1, Len(toSupervisor))
      /\ negotiation' = IF ~r.ok THEN "Unavailable"
                        ELSE IF r.ch.ready THEN "Ready" ELSE "Pending"
      /\ UNCHANGED <<exchange, clock, promised, heardAt, worker, outgoing, writtenAt, killedAt,
                     noise, answered, toWorker>>
  BY Zenon DEF PollReady, Drop, workerVars, disturbance
<1>2. /\ channel \in Channels(worker, answered) /\ Len(channel.negotiation_buffer) <= ReadyHalves
      /\ toSupervisor \in Seq(Truthful(worker, answered)) /\ ~channel.ready
      /\ worker \in WorkerStates
  BY <1>1 DEF IInv, StreamsOK, TypesOK, RequestOK
<1>3. eof \in BOOLEAN OBVIOUS
<1> HIDE DEF eof
<1>4. /\ r.ch \in Channels(worker, answered) /\ Len(r.ch.negotiation_buffer) <= ReadyHalves
      /\ r.ch.protocol = channel.protocol /\ r.ch.open = channel.open
      /\ r.ch.negotiation_started = channel.negotiation_started
      /\ SubSeq(toSupervisor, r.n + 1, Len(toSupervisor)) \in Seq(Truthful(worker, answered))
      /\ r.ch.ready => r.ok /\ (worker.at \notin {"start", "install"} \/ Ready \in answered)
      /\ toSupervisor = <<>> => r.ch = channel /\ r.n = 0
  BY <1>2, <1>3, PollReadyIs
<1>5. Spread(Ready, channel.negotiation_buffer, toSupervisor, outgoing) =>
        \/ r.ch.ready /\ toSupervisor' = <<>> /\ outgoing = <<>>
        \/ ~r.ch.ready /\ Spread(Ready, r.ch.negotiation_buffer, toSupervisor', outgoing)
  BY <1>1, <1>2, ReadyHeard
<1> HIDE DEF r
<1>6. StreamsOK' BY <1>1, <1>4 DEF IInv, StreamsOK
<1>7. TypesOK' BY <1>1 DEF IInv, TypesOK, SignalFindsHandler
<1>8. WorkerOK' BY <1>1, <1>2, <1>4 DEF IInv, WorkerOK
<1>9. negotiation' = "Ready" <=> channel'.ready BY <1>1, <1>4
<1>10. exchange \notin {"signal", "outstanding"} /\ channel'.open
  BY <1>1, <1>2, <1>4 DEF IInv, RequestOK
<1>11. RequestOK' BY <1>1, <1>4, <1>9, <1>10 DEF IInv, RequestOK, GenuineAck
<1>12. UndisturbedOK'
  <2>1. SUFFICES ASSUME noise = 0 PROVE UndisturbedOK' BY <1>1 DEF UndisturbedOK
  <2>2. channel.protocol.buffer = <<>> BY <1>1, <1>2, <2>1 DEF IInv, UndisturbedOK
  <2>3. worker.status = None /\ writtenAt = None BY <1>2 DEF IInv, QuietOK, WorkerOK
  <2>4. CASE /\ worker.at \in {"start", "install", "closed", "dead"}
             /\ channel.negotiation_buffer = <<>> /\ toSupervisor = <<>> /\ outgoing = <<>>
    <3>1. channel' = channel /\ toSupervisor' = <<>>
      <4>1. channel' = channel /\ r.n = 0 BY <1>1, <1>4, <2>4
      <4> QED BY <1>1, <2>4, <4>1, SubSeqEmpty
    <3> QED BY <1>1, <1>2, <2>2, <2>4, <3>1 DEF UndisturbedOK
  <2>5. CASE /\ worker.at \notin {"start", "install"}
             /\ Spread(Ready, channel.negotiation_buffer, toSupervisor, outgoing)
    <3>1. channel'.protocol.buffer = <<>> BY <1>1, <1>4, <2>2
    <3>2. CASE channel'.ready /\ toSupervisor' = <<>> /\ outgoing = <<>>
      BY <1>1, <1>9, <2>3, <3>1, <3>2 DEF UndisturbedOK
    <3>3. CASE ~channel'.ready /\ Spread(Ready, channel'.negotiation_buffer, toSupervisor', outgoing)
      BY <1>1, <2>5, <3>1, <3>3 DEF UndisturbedOK
    <3> QED BY <1>1, <1>5, <2>5, <3>2, <3>3
  <2> QED BY <1>1, <1>2, <2>1, <2>4, <2>5 DEF IInv, UndisturbedOK
<1>13. QuietOK' BY <1>1, <1>2, <1>4 DEF IInv, QuietOK
<1>14. TimelyOK' BY <1>1, <1>10 DEF IInv, TimelyOK, TimelyAckHeard
<1> QED BY <1>6, <1>7, <1>8, <1>11, <1>12, <1>13, <1>14 DEF IInv

\* What buffering a read may come to: the frame is not whole yet, the buffer is
\* given up, or a frame is taken out of it.
LEMMA ReceiveFrameIs ==
    ASSUME NEW w, NEW ans, NEW p \in Protocols(w, ans), NEW halves \in Seq(Truthful(w, ans)),
           NEW x \in receive_frame(p, halves)
    PROVE  \/ /\ x.error = None /\ x.frame = None
              /\ \E b \in Seq(Truthful(w, ans)) : Len(b) <= MaxBuffer /\ x.p = [p EXCEPT !.buffer = b]
           \/ x.error \in {"Oversized", "Malformed"} /\ x.p = cleared(p)
           \/ /\ x.error = None /\ x.p = cleared(p) /\ x.frame \in Frames
              /\ Genuine(x.frame) => Vouched(w, ans, x.frame.status)
<1> DEFINE buffer == p.buffer \o halves
           kept == {[p |-> [p EXCEPT !.buffer = buffer], frame |-> None, error |-> None]}
           dropped(reason) == {[p |-> cleared(p), frame |-> None, error |-> reason]}
           taken == IF buffer[2] = Half(buffer[1].frame, 2)
                    THEN buffer[1].frame ELSE [kind |-> "junk"]
<1>1. p.buffer \in Seq(Truthful(w, ans)) BY DEF Protocols
<1>2. buffer \in Seq(Truthful(w, ans)) /\ Len(buffer) \in Nat BY <1>1, ConcatProperties
<1>3. /\ Len(buffer) > MaxBuffer => x \in dropped("Oversized")
      /\ ~(Len(buffer) > MaxBuffer) =>
            \/ x \in kept \/ x \in dropped("Oversized") \/ x \in dropped("Malformed")
            \/ /\ buffer # <<>>
               /\ x \in {[p |-> cleared(p), error |-> None, frame |-> taken]}
  BY Zenon DEF receive_frame
<1>4. CASE x \in kept /\ ~(Len(buffer) > MaxBuffer)
  <2>1. x = [p |-> [p EXCEPT !.buffer = buffer], frame |-> None, error |-> None] BY <1>4
  <2>2. Len(buffer) <= MaxBuffer BY <1>2, <1>4 DEF MaxBuffer
  <2> HIDE DEF buffer
  <2>3. x.error = None /\ x.frame = None /\ x.p = [p EXCEPT !.buffer = buffer] BY <2>1
  <2> QED BY <1>2, <2>2, <2>3
<1>5. CASE x \in dropped("Oversized") \/ x \in dropped("Malformed")
  BY <1>5
<1>6. CASE buffer # <<>> /\ x \in {[p |-> cleared(p), error |-> None, frame |-> taken]}
  <2>1. x.error = None /\ x.p = cleared(p) /\ x.frame = taken
    <3> HIDE DEF taken
    <3> QED BY <1>6
  <2> HIDE DEF buffer
  <2>2. 1 \in 1 .. Len(buffer) BY <1>2, <1>6
  <2>3. buffer[1] \in Truthful(w, ans) BY <1>2, <2>2, ElementOfSeq
  <2>4. buffer[1].frame \in Frames /\ (Genuine(buffer[1].frame) => Vouched(w, ans, buffer[1].frame.status))
    BY <2>3 DEF Truthful
  <2>5. Junk \in Frames /\ ~Genuine(Junk) BY DEF Frames, Junk, Genuine
  <2>6. taken = buffer[1].frame \/ taken = Junk BY DEF Junk
  <2> HIDE DEF taken
  <2> QED BY <2>1, <2>4, <2>5, <2>6
<1> QED BY <1>3, <1>4, <1>5, <1>6

\* The answer a frame is, or the refusal it meets.
LEMMA AcceptIs ==
    ASSUME NEW w, NEW ans, NEW p \in Protocols(w, ans), p.active_request_id = Id, NEW f \in Frames,
           Genuine(f) => Vouched(w, ans, f.status), NEW r, r = accept_frame(p, f)
    PROVE  \/ /\ r.p = p /\ r.status = None /\ r.rejection \in {"Malformed", "WrongNonce", "Replay"}
              /\ ~Genuine(f)
           \/ /\ Genuine(f) /\ r.p \in Protocols(w, ans) /\ r.p.buffer = p.buffer
              /\ r.p.state \in {"AcknowledgedUnverifiedDurability", "WorkerFailed", "Cancelled"}
              /\ Vouched(w, ans, r.status) /\ r.status \in Statuses /\ r.rejection = None
<1>1. CASE f.kind # "ack" BY <1>1 DEF accept_frame, rejected, Polled, Genuine
<1>2. CASE f.kind = "ack"
  <2>1. f \in Answers BY <1>2 DEF Frames, Ready, Junk
  <2>2. f.nonce \in BOOLEAN /\ f.id \in {Id, Id + 1} /\ f.status \in Statuses BY <2>1 DEF Answers
  <2>3. CASE ~f.nonce BY <1>2, <2>3 DEF accept_frame, rejected, Polled, Genuine
  <2>4. CASE f.nonce /\ f.id # Id BY <1>2, <2>4 DEF accept_frame, rejected, Polled, Genuine
  <2>5. CASE f.nonce /\ f.id = Id
    <3> DEFINE state == CASE f.status = "Completed" -> "AcknowledgedUnverifiedDurability"
                          [] f.status = "Failed" -> "WorkerFailed"
                          [] f.status = "Cancelled" -> "Cancelled"
    <3>1. state \in {"AcknowledgedUnverifiedDurability", "WorkerFailed", "Cancelled"}
      BY <2>2 DEF Statuses
    <3>2. r = Polled([p EXCEPT !.active_request_id = None, !.deadline_at = None,
                               !.state = state], f.status, None)
      BY <1>2, <2>5 DEF accept_frame
    <3> HIDE DEF state
    <3>3. /\ r.p = [p EXCEPT !.active_request_id = None, !.deadline_at = None, !.state = state]
          /\ r.status = f.status /\ r.rejection = None
      BY <3>2 DEF Polled
    <3>4. r.p \in Protocols(w, ans) /\ r.p.buffer = p.buffer /\ r.p.state = state
      BY <3>1, <3>3 DEF Protocols, CheckpointProtocolState
    <3>5. Genuine(f) BY <1>2, <2>2, <2>5 DEF Genuine
    <3> QED BY <2>2, <3>1, <3>3, <3>4, <3>5
  <2> QED BY <2>3, <2>4, <2>5
<1> QED BY <1>1, <1>2

LEMMA ReceivedIs ==
    ASSUME NEW w, NEW ans, NEW p \in Protocols(w, ans), p.active_request_id = Id,
           NEW halves \in Seq(Truthful(w, ans)), NEW r \in received(p, halves)
    PROVE  /\ r.p \in Protocols(w, ans) /\ Len(r.p.buffer) <= MaxBuffer
           /\ \/ /\ r.status = None /\ r.rejection \notin {"EndpointExited", "PostExit"}
                 /\ r.p.state = p.state /\ r.p.deadline_at = p.deadline_at
                 /\ r.p.active_request_id = p.active_request_id
                 /\ r.p.endpoint_exited = p.endpoint_exited
              \/ /\ Vouched(w, ans, r.status) /\ r.status \in Statuses /\ r.rejection = None
                 /\ r.p.state \in {"AcknowledgedUnverifiedDurability", "WorkerFailed", "Cancelled"}
<1>1. PICK x \in receive_frame(p, halves) :
         r = IF x.error # None THEN rejected(x.p, x.error)
             ELSE IF x.frame = None THEN Polled(x.p, None, None)
             ELSE accept_frame(x.p, x.frame)
  BY DEF received
<1>2. None \notin {"EndpointExited", "PostExit", "Oversized", "Malformed"}
  BY DEF CheckpointRejection
<1>3. /\ cleared(p) \in Protocols(w, ans) /\ Len(cleared(p).buffer) <= MaxBuffer
      /\ cleared(p).state = p.state /\ cleared(p).endpoint_exited = p.endpoint_exited
      /\ cleared(p).active_request_id = p.active_request_id
      /\ cleared(p).deadline_at = p.deadline_at
  BY Dropped DEF MaxBuffer
<1>4. CASE /\ x.error = None /\ x.frame = None
           /\ \E b \in Seq(Truthful(w, ans)) : Len(b) <= MaxBuffer /\ x.p = [p EXCEPT !.buffer = b]
  <2>1. PICK b \in Seq(Truthful(w, ans)) : Len(b) <= MaxBuffer /\ x.p = [p EXCEPT !.buffer = b]
    BY <1>4
  <2> DEFINE c == x.p
  <2>2. c = [p EXCEPT !.buffer = b] BY <2>1
  <2>3. r.p = c /\ r.status = None /\ r.rejection = None BY <1>1, <1>4 DEF Polled
  <2> HIDE DEF c
  <2>4. /\ c \in Protocols(w, ans) /\ c.buffer = b /\ c.state = p.state
        /\ c.active_request_id = p.active_request_id /\ c.deadline_at = p.deadline_at
        /\ c.endpoint_exited = p.endpoint_exited
    BY <2>2, Buffered
  <2> QED BY <1>2, <2>1, <2>3, <2>4
<1>5. CASE x.error \in {"Oversized", "Malformed"} /\ x.p = cleared(p)
  <2>1. r.p = cleared(p) /\ r.status = None /\ r.rejection = x.error
    BY <1>1, <1>2, <1>5 DEF rejected, Polled
  <2> QED BY <1>3, <1>5, <2>1
<1>6. CASE /\ x.error = None /\ x.p = cleared(p) /\ x.frame \in Frames
           /\ Genuine(x.frame) => Vouched(w, ans, x.frame.status)
  <2>1. CASE x.frame = None
    <3>1. r.p = cleared(p) /\ r.status = None /\ r.rejection = None
      BY <1>1, <1>6, <2>1 DEF Polled
    <3> QED BY <1>2, <1>3, <3>1
  <2>2. CASE x.frame # None
    <3> DEFINE c == cleared(p)
               f == x.frame
    <3>1. r = accept_frame(c, f) BY <1>1, <1>6, <2>2
    <3>2. c \in Protocols(w, ans) /\ c.active_request_id = Id BY <1>3
    <3>3. f \in Frames /\ (Genuine(f) => Vouched(w, ans, f.status)) BY <1>6
    <3> HIDE DEF c, f
    <3>4. \/ /\ r.p = c /\ r.status = None /\ r.rejection \in {"Malformed", "WrongNonce", "Replay"}
          \/ /\ r.p \in Protocols(w, ans) /\ r.p.buffer = c.buffer
             /\ r.p.state \in {"AcknowledgedUnverifiedDurability", "WorkerFailed", "Cancelled"}
             /\ Vouched(w, ans, r.status) /\ r.status \in Statuses /\ r.rejection = None
      BY <3>1, <3>2, <3>3, AcceptIs
    <3>5. CASE /\ r.p = c /\ r.status = None
               /\ r.rejection \in {"Malformed", "WrongNonce", "Replay"}
      BY <1>3, <3>5 DEF c
    <3>6. CASE /\ r.p \in Protocols(w, ans) /\ r.p.buffer = c.buffer
               /\ r.p.state \in {"AcknowledgedUnverifiedDurability", "WorkerFailed", "Cancelled"}
               /\ Vouched(w, ans, r.status) /\ r.status \in Statuses /\ r.rejection = None
      BY <1>3, <3>6 DEF c
    <3> QED BY <3>4, <3>5, <3>6
  <2> QED BY <2>1, <2>2
<1> QED BY <1>4, <1>5, <1>6, ReceiveFrameIs

\* What a poll of an outstanding request may come to.
LEMMA PollIs ==
    ASSUME NEW w, NEW ans, NEW p \in Protocols(w, ans), Len(p.buffer) <= MaxBuffer,
           p.state = "RequestedUnverified", p.deadline_at \in Nat, ~p.endpoint_exited,
           NEW at \in Nat, NEW stream \in Seq(Truthful(w, ans)), NEW eof \in BOOLEAN,
           NEW q \in poll(p, at, stream, eof)
    PROVE  \/ /\ at >= p.deadline_at /\ q.n = 0 /\ q.r.status = None /\ q.r.rejection = "Late"
              /\ q.r.p \in Protocols(w, ans) /\ q.r.p.buffer = <<>> /\ q.r.p.state = "TimedOut"
           \/ /\ at < p.deadline_at /\ stream = <<>> /\ q.n = 0 /\ q.r.status = None
              /\ \/ q.r.rejection = None /\ q.r.p = p
                 \/ /\ q.r.rejection = "EndpointExited" /\ q.r.p \in Protocols(w, ans)
                    /\ q.r.p.buffer = <<>> /\ q.r.p.state = "Cancelled"
           \/ /\ at < p.deadline_at /\ stream # <<>> /\ q.n = Taken(stream, MaxBuffer)
              /\ q.r \in received(p, SubSeq(stream, 1, Taken(stream, MaxBuffer)))
<1> DEFINE due == CHOOSE r \in ingest(p, at, <<>>) : TRUE
           n == Taken(stream, MaxBuffer)
<1>1. poll(p, at, stream, eof) =
        IF due.rejection # None THEN {[r |-> due, n |-> 0]}
        ELSE IF n > 0 THEN {[r |-> r, n |-> n] : r \in ingest(due.p, at, SubSeq(stream, 1, n))}
        ELSE IF eof THEN {[r |-> endpoint_exited(due.p), n |-> 0]}
        ELSE {[r |-> Polled(due.p, None, None), n |-> 0]}
  BY Zenon DEF poll
<1>2. p.deadline_at # None BY DEF CheckpointRejection
<1>3. ASSUME NEW halves
      PROVE  ingest(p, at, halves) =
               IF at >= p.deadline_at
               THEN {rejected([cleared(p) EXCEPT !.state = "TimedOut"], "Late")}
               ELSE received(p, halves)
  BY <1>2 DEF ingest
<1>4. None \notin {"Late", "EndpointExited"} BY DEF CheckpointRejection
<1>5. CASE at >= p.deadline_at
  <2> DEFINE c == cleared(p)
             x == rejected([c EXCEPT !.state = "TimedOut"], "Late")
  <2>1. ingest(p, at, <<>>) = {x} BY <1>3, <1>5
  <2>2. due = x BY <2>1
  <2>3. c \in Protocols(w, ans) /\ c.buffer = <<>> BY Dropped
  <2> HIDE DEF due, n, c
  <2>4. x.rejection = "Late" /\ x.status = None /\ x.p = [c EXCEPT !.state = "TimedOut"]
    BY DEF rejected, Polled
  <2>5. x.p \in Protocols(w, ans) /\ x.p.buffer = <<>> /\ x.p.state = "TimedOut"
    BY <2>3, <2>4 DEF Protocols, CheckpointProtocolState
  <2> HIDE DEF x
  <2>6. q = [r |-> x, n |-> 0] BY <1>1, <1>4, <2>2, <2>4
  <2> QED BY <1>5, <2>4, <2>5, <2>6
<1>6. CASE ~(at >= p.deadline_at)
  <2>1. at < p.deadline_at BY <1>6
  <2>2. ASSUME NEW halves PROVE ingest(p, at, halves) = received(p, halves) BY <1>3, <1>6
  <2>3. receive_frame(p, <<>>) = {[p |-> p, frame |-> None, error |-> None]}
    <3>1. p.buffer \in Seq(Truthful(w, ans)) /\ Len(p.buffer) \in Nat BY DEF Protocols
    <3>2. p.buffer \o <<>> = p.buffer BY <3>1, ConcatEmptySeq
    <3>3. [p EXCEPT !.buffer = p.buffer] = p BY DEF Protocols
    <3>4. ~(Len(p.buffer) > MaxBuffer) BY <3>1 DEF MaxBuffer
    <3>5. receive_frame(p, <<>>) = {[p |-> [p EXCEPT !.buffer = p.buffer], frame |-> None, error |-> None]}
      BY <3>2, <3>4 DEF receive_frame
    <3> QED BY <3>3, <3>5
  <2>4. received(p, <<>>) = {Polled(p, None, None)}
    <3> DEFINE x == [p |-> p, frame |-> None, error |-> None]
               poll_of(r) == IF r.error # None THEN rejected(r.p, r.error)
                             ELSE IF r.frame = None THEN Polled(r.p, None, None)
                             ELSE accept_frame(r.p, r.frame)
    <3>1. x.error = None /\ x.frame = None /\ x.p = p OBVIOUS
    <3>2. received(p, <<>>) = {poll_of(r) : r \in {x}} BY <2>3 DEF received
    <3> HIDE DEF x
    <3>3. poll_of(x) = Polled(p, None, None) BY <3>1
    <3> HIDE DEF poll_of
    <3>4. {poll_of(r) : r \in {x}} = {poll_of(x)} OBVIOUS
    <3> QED BY <3>2, <3>3, <3>4
  <2>5. due = Polled(p, None, None) BY <2>2, <2>4
  <2>6. due.p = p /\ due.rejection = None
    <3> HIDE DEF due
    <3> QED BY <2>5 DEF Polled
  <2>7. MaxBuffer \in Nat \ {0} BY DEF MaxBuffer
  <2>8. n \in Nat /\ (n = 0 <=> stream = <<>>) BY <2>7, TakenIs
  <2> HIDE DEF due, n
  <2>9. CASE n > 0
    <3>1. stream # <<>> BY <2>8, <2>9
    <3>2. PICK r \in received(p, SubSeq(stream, 1, n)) : q = [r |-> r, n |-> n]
      BY <1>1, <2>2, <2>6, <2>9
    <3> QED BY <2>1, <3>1, <3>2 DEF n
  <2>10. CASE ~(n > 0)
    <3>1. stream = <<>> BY <2>8, <2>10
    <3>2. CASE eof
      <4> DEFINE c == cancelled(p)
      <4>1. c \in Protocols(w, ans) /\ c.buffer = <<>> /\ c.state = "Cancelled" BY Dropped
      <4> HIDE DEF c
      <4>2. q = [r |-> rejected([c EXCEPT !.endpoint_exited = TRUE], "EndpointExited"), n |-> 0]
        BY <1>1, <2>6, <2>10, <3>2 DEF endpoint_exited, c
      <4>3. /\ q.n = 0 /\ q.r.status = None /\ q.r.rejection = "EndpointExited"
            /\ q.r.p = [c EXCEPT !.endpoint_exited = TRUE]
        BY <4>2 DEF rejected, Polled
      <4>4. q.r.p \in Protocols(w, ans) /\ q.r.p.buffer = <<>> /\ q.r.p.state = "Cancelled"
        BY <4>1, <4>3 DEF Protocols
      <4> QED BY <2>1, <3>1, <4>3, <4>4
    <3>3. CASE ~eof
      <4>1. q = [r |-> Polled(p, None, None), n |-> 0] BY <1>1, <2>6, <2>10, <3>3
      <4> QED BY <2>1, <3>1, <4>1 DEF Polled
    <3> QED BY <3>2, <3>3
  <2> QED BY <2>9, <2>10
<1> QED BY <1>5, <1>6

\* The worker's answer, with nobody else writing, is taken as soon as it is whole.
LEMMA AnswerHeard ==
    ASSUME NEW w, NEW ans, NEW p \in Protocols(w, ans), p.active_request_id = Id, NEW status \in Statuses,
           NEW stream \in Seq(Truthful(w, ans)), stream # <<>>, NEW out, NEW n, NEW f,
           n = Taken(stream, MaxBuffer), f = Ack(Id, TRUE, status), status = w.status,
           Spread(f, p.buffer, stream, out),
           NEW r \in received(p, SubSeq(stream, 1, n))
    PROVE  \/ r.status # None
           \/ out # <<>> /\ Spread(f, r.p.buffer, SubSeq(stream, n + 1, Len(stream)), out)
<1> DEFINE h1 == Half(f, 1)
           h2 == Half(f, 2)
           a == p.buffer
           halves == SubSeq(stream, 1, n)
           buffer == a \o halves
<1>1. f \in Frames /\ Genuine(f) /\ f.status = status
  <2>1. f \in Frames BY AnswerIsFrame
  <2> QED BY <2>1 DEF Genuine, Ack
<1>2. f # None
  <2>1. f \in [kind: {"ack"}, nonce: BOOLEAN, id: Nat,
               status: {"Completed", "Failed", "Cancelled"}]
    BY DEF Ack, Id, Statuses
  <2> QED BY <2>1
<1>3. MaxBuffer \in Nat \ {0} /\ MaxBuffer = 4 BY DEF MaxBuffer
<1>4. Len(stream) \in Nat /\ n \in Nat /\ n # 0 /\ Len(halves) = n
      /\ (Len(stream) <= 4 => n = Len(stream))
  <2>1. /\ n \in Nat /\ (n = 0 <=> stream = <<>>)
        /\ Len(stream) <= MaxBuffer => n = Len(stream)
        /\ Len(SubSeq(stream, 1, n)) = n
    BY <1>3, TakenIs
  <2> QED BY <1>3, <2>1
<1>5. halves # <<>> BY <1>4
<1>6. PICK x \in receive_frame(p, halves) :
         r = IF x.error # None THEN rejected(x.p, x.error)
             ELSE IF x.frame = None THEN Polled(x.p, None, None)
             ELSE accept_frame(x.p, x.frame)
  BY DEF received
<1>7. h1.part = 1 /\ h1.frame = f /\ h2 = Half(h1.frame, 2) BY DEF Half
<1> HIDE DEF h1, h2
<1>8. ASSUME Len(buffer) = 1, buffer[1] = h1
      PROVE  x.p = [p EXCEPT !.buffer = buffer] /\ x.frame = None /\ x.error = None
  <2>1. buffer # <<>> /\ ~(Len(buffer) > MaxBuffer) /\ Len(buffer) < 2 /\ buffer[1].part # 2
    <3> HIDE DEF buffer
    <3>1. buffer # <<>> BY <1>8
    <3>2. ~(Len(buffer) > MaxBuffer) /\ Len(buffer) < 2 BY <1>8 DEF MaxBuffer
    <3>3. buffer[1].part # 2 BY <1>7, <1>8
    <3> QED BY <3>1, <3>2, <3>3
  <2>2. x = [p |-> [p EXCEPT !.buffer = buffer], frame |-> None, error |-> None]
    BY Zenon, <1>5, <2>1 DEF receive_frame
  <2> QED BY <2>2
<1>9. ASSUME Len(buffer) = 2, buffer[1] = h1, buffer[2] = h2
      PROVE  x.p = cleared(p) /\ x.error = None /\ x.frame = f
  <2>1. /\ buffer # <<>> /\ ~(Len(buffer) > MaxBuffer) /\ ~(Len(buffer) < 2) /\ ~(Len(buffer) > 2)
        /\ buffer[1].part # 2
        /\ buffer[2] = Half(buffer[1].frame, 2) /\ buffer[1].frame = f
    <3> HIDE DEF buffer
    <3>1. buffer # <<>>
      <4>1. Len(<<>>) = 0 OBVIOUS
      <4>2. Len(buffer) # 0 BY <1>9
      <4> QED BY Zenon, <4>1, <4>2
    <3>2. ~(Len(buffer) > MaxBuffer) /\ ~(Len(buffer) < 2) /\ ~(Len(buffer) > 2)
      BY <1>9 DEF MaxBuffer
    <3>3. buffer[1].part # 2 BY <1>7, <1>9
    <3>4. buffer[2] = Half(buffer[1].frame, 2) /\ buffer[1].frame = f BY <1>7, <1>9
    <3> QED BY <3>1, <3>2, <3>3, <3>4
  <2>2. x \in {[p |-> cleared(p), error |-> None,
                frame |-> IF buffer[2] = Half(buffer[1].frame, 2)
                          THEN buffer[1].frame ELSE [kind |-> "junk"]]}
    BY Zenon, <1>5, <2>1 DEF receive_frame
  <2> HIDE DEF buffer
  <2>3. x = [p |-> cleared(p), error |-> None, frame |-> f] BY Zenon, <2>1, <2>2
  <2> QED BY <2>3
<1> HIDE DEF halves, buffer
<1>10. CASE a = <<>> /\ stream = <<h1>> /\ out = <<h2>>
  <2>1. Len(stream) = 1 BY <1>10
  <2>2. n = 1 BY <1>4, <2>1
  <2>3. buffer = <<h1>>
    <3>1. SubSeq(<<h1>>, 1, 1) = <<h1>> /\ <<>> \o <<h1>> = <<h1>> BY Pieces
    <3> QED BY <1>10, <2>2, <3>1 DEF buffer, halves
  <2>4. x.error = None /\ x.frame = None /\ x.p = [p EXCEPT !.buffer = buffer]
    <3>1. Len(buffer) = 1 /\ buffer[1] = h1 BY <2>3
    <3> QED BY <1>8, <3>1
  <2>5. r.p = [p EXCEPT !.buffer = buffer] BY <1>6, <2>4 DEF Polled
  <2>6. r.p.buffer = buffer BY <2>5 DEF Protocols
  <2>7. SubSeq(stream, n + 1, Len(stream)) = <<>> BY <2>1, <2>2, SubSeqEmpty
  <2>8. out # <<>> BY <1>10
  <2> QED BY <1>10, <2>3, <2>6, <2>7, <2>8 DEF Spread, h1, h2
<1>11. CASE (a = <<>> /\ stream = <<h1, h2>>) \/ (a = <<h1>> /\ stream = <<h2>>)
  <2>1. buffer = <<h1, h2>>
    <3>1. CASE a = <<>> /\ stream = <<h1, h2>>
      <4>1. Len(stream) = 2 BY <3>1
      <4>2. n = 2 BY <1>4, <4>1
      <4>3. SubSeq(<<h1, h2>>, 1, 2) = <<h1, h2>> /\ <<>> \o <<h1, h2>> = <<h1, h2>> BY Pieces
      <4> QED BY <3>1, <4>2, <4>3 DEF buffer, halves
    <3>2. CASE a = <<h1>> /\ stream = <<h2>>
      <4>1. Len(stream) = 1 BY <3>2
      <4>2. n = 1 BY <1>4, <4>1
      <4>3. SubSeq(<<h2>>, 1, 1) = <<h2>> /\ <<h1>> \o <<h2>> = <<h1, h2>> BY Pieces
      <4> QED BY <3>2, <4>2, <4>3 DEF buffer, halves
    <3> QED BY <1>11, <3>1, <3>2
  <2>2. x.error = None /\ x.frame = f /\ x.p = cleared(p)
    <3>1. Len(buffer) = 2 /\ buffer[1] = h1 /\ buffer[2] = h2 BY <2>1
    <3> QED BY <1>9, <3>1
  <2> DEFINE c == cleared(p)
  <2>3. r = accept_frame(c, f) BY <1>2, <1>6, <2>2
  <2>4. c \in Protocols(w, ans) /\ c.active_request_id = Id BY Dropped
  <2> HIDE DEF c
  <2>5. Vouched(w, ans, f.status) BY <1>1 DEF Vouched
  <2>6. r.status \in Statuses BY ONLY <1>1, <2>3, <2>4, <2>5, AcceptIs
  <2> QED BY <2>6 DEF Statuses
<1> QED BY <1>10, <1>11 DEF Spread, h1, h2

\* A poll that changes nothing but the loop's place.
LEMMA IdlePoll ==
    ASSUME IInv, loop = "poll", loop' = "tick", exchange # "outstanding" \/ writtenAt = None
             \/ noise # 0 \/ (promised \in Nat /\ clock >= promised),
           UNCHANGED <<channel, negotiation, exchange, clock, promised, heardAt, worker, outgoing,
                       writtenAt, killedAt, noise, answered, toWorker, toSupervisor>>
    PROVE  IInv'
<1>1. StreamsOK' BY DEF IInv, StreamsOK
<1>2. TypesOK' BY DEF IInv, TypesOK, SignalFindsHandler
<1>3. WorkerOK' BY DEF IInv, WorkerOK
<1>4. exchange # "signal" BY DEF IInv, RequestOK
<1>5. RequestOK' BY <1>4 DEF IInv, RequestOK, GenuineAck
<1>6. UndisturbedOK' BY DEF IInv, UndisturbedOK
<1>7. QuietOK' BY DEF IInv, QuietOK
<1>8. TimelyOK'
  <2>1. clock \in Nat /\ writtenAt \in Nat \cup {None} BY DEF IInv, TypesOK, SignalFindsHandler
  <2>2. (noise = 0 /\ exchange = "outstanding" /\ writtenAt # None) =>
           writtenAt >= clock - 1 \/ writtenAt >= promised - 1
    BY <2>1 DEF IInv, TimelyOK
  <2>3. (noise = 0 /\ exchange = "outstanding" /\ writtenAt # None) => writtenAt >= promised - 1
    BY <2>1, <2>2
  <2> QED BY <1>4, <2>3 DEF IInv, TimelyOK, TimelyAckHeard
<1> QED BY <1>1, <1>2, <1>3, <1>5, <1>6, <1>7, <1>8 DEF IInv

LEMMA PollAnswerStep == ASSUME IInv, PollAnswer PROVE IInv'
<1>1. /\ loop = "poll" /\ loop' = "tick"
      /\ UNCHANGED <<negotiation, clock, promised, worker, outgoing, writtenAt, killedAt,
                     noise, answered, toWorker>>
  BY DEF PollAnswer, workerVars, disturbance
<1>2. /\ channel \in Channels(worker, answered) /\ clock \in Nat /\ worker \in WorkerStates
      /\ toSupervisor \in Seq(Truthful(worker, answered)) /\ Len(channel.protocol.buffer) <= MaxBuffer
      /\ writtenAt \in Nat \cup {None} /\ heardAt \in Nat \cup {None}
  BY DEF IInv, StreamsOK, TypesOK
<1>3. CASE ~(exchange = "outstanding" /\ negotiation = "Ready")
  <2>1. UNCHANGED <<channel, toSupervisor, exchange, heardAt>> BY <1>3 DEF PollAnswer
  <2>2. exchange # "outstanding" BY <1>3 DEF IInv, RequestOK
  <2> QED BY <1>1, <2>1, <2>2, IdlePoll
<1>4. CASE exchange = "outstanding" /\ negotiation = "Ready"
  <2> DEFINE p == channel.protocol
             eof == ~worker.open
  <2>1. PICK q \in poll(p, clock, toSupervisor, eof) :
          /\ channel' = [channel EXCEPT !.protocol = q.r.p]
          /\ toSupervisor' = SubSeq(toSupervisor, q.n + 1, Len(toSupervisor))
          /\ exchange' = CASE q.r.status = "Completed" -> "acknowledged"
                           [] q.r.status \in {"Failed", "Cancelled"} -> "rejected"
                           [] q.r.rejection \in {"EndpointExited", "PostExit"} -> "unavailable"
                           [] OTHER -> exchange
          /\ heardAt' = IF q.r.status = "Completed" THEN clock ELSE heardAt
    BY <1>4 DEF PollAnswer, Drop
  <2>2. /\ p \in Protocols(worker, answered) /\ Len(p.buffer) <= MaxBuffer /\ channel.ready /\ channel.open
        /\ promised \in Nat /\ (p.state = "RequestedUnverified" \/ clock >= promised)
        /\ worker.at \in {"start", "install"} => Ready \in answered
    BY <1>2, <1>4 DEF Channels, IInv, RequestOK, WorkerOK
  <2>3. /\ q.r.status = None => q.r.status \notin {"Completed", "Failed", "Cancelled"}
        /\ q.r.rejection = None => q.r.rejection \notin {"EndpointExited", "PostExit"}
    BY DEF CheckpointRejection
  <2>4. SubSeq(toSupervisor, 1, Len(toSupervisor)) = toSupervisor BY <1>2, SubSeqFull
  <2> DEFINE pp == q.r.p
  <2>5. CASE p.state # "RequestedUnverified"
    <3>1. q \in {[r |-> Polled(p, None, None), n |-> 0]} BY <2>1, <2>5 DEF poll
    <3>2. q.n = 0 /\ pp = p /\ q.r.status = None /\ q.r.rejection = None BY <3>1 DEF Polled
    <3>3. channel' = channel BY <1>2, <2>1, <3>2 DEF Channels
    <3>4. toSupervisor' = toSupervisor /\ exchange' = exchange /\ heardAt' = heardAt
      BY <2>1, <2>3, <2>4, <3>2
    <3> QED BY <1>1, <2>2, <2>5, <3>3, <3>4, IdlePoll
  <2>6. CASE p.state = "RequestedUnverified"
    <3>1. /\ p.deadline_at = promised /\ p.active_request_id = Id /\ ~p.endpoint_exited
      BY <2>6 DEF IInv, RequestOK
    <3>2. eof \in BOOLEAN OBVIOUS
    <3> HIDE DEF p, eof
    <3>3. ASSUME pp \in Protocols(worker, answered), Len(pp.buffer) <= MaxBuffer,
                 toSupervisor' \in Seq(Truthful(worker, answered)), heardAt' \in Nat \cup {None},
                 exchange' \in Outcomes \ {"idle", "signal", "refused"},
                 RequestOK', UndisturbedOK', TimelyOK'
          PROVE  IInv'
      <4> HIDE DEF pp
      <4>1. /\ channel' \in Channels(worker, answered) /\ channel'.protocol = pp
            /\ channel'.ready = channel.ready
            /\ channel'.negotiation_buffer = channel.negotiation_buffer
        BY <1>2, <2>1, <3>3 DEF Channels, pp
      <4>2. StreamsOK' BY <1>1, <3>3, <4>1 DEF IInv, StreamsOK
      <4>3. TypesOK' BY <1>1, <3>3 DEF IInv, TypesOK, SignalFindsHandler
      <4>4. WorkerOK' BY <1>1, <2>2 DEF IInv, WorkerOK
      <4>5. QuietOK' BY <2>2, <3>3, <4>1 DEF QuietOK
      <4> QED BY <3>3, <4>2, <4>3, <4>4, <4>5 DEF IInv
    <3>4. ASSUME pp \in Protocols(worker, answered)
          PROVE  channel'.protocol = pp /\ channel'.ready /\ channel'.open
      BY <1>2, <2>1, <2>2, <3>4 DEF Channels
    <3>5. CASE /\ clock >= p.deadline_at /\ q.n = 0 /\ q.r.status = None /\ q.r.rejection = "Late"
               /\ pp \in Protocols(worker, answered) /\ pp.buffer = <<>> /\ pp.state = "TimedOut"
      <4> HIDE DEF pp
      <4>1. exchange' = exchange /\ heardAt' = heardAt /\ toSupervisor' = toSupervisor
        BY <2>1, <2>3, <2>4, <3>5
      <4>2. clock >= promised /\ Len(pp.buffer) <= MaxBuffer BY <3>1, <3>5 DEF MaxBuffer
      <4>3. RequestOK'
        BY <1>1, <1>4, <2>2, <3>4, <3>5, <4>1, <4>2 DEF IInv, RequestOK, GenuineAck
      <4>4. UndisturbedOK' BY <3>4, <3>5 DEF UndisturbedOK
      <4>5. TimelyOK'
        <5>1. (noise = 0 /\ writtenAt # None) =>
                 writtenAt >= clock - 1 \/ writtenAt >= promised - 1
          BY <1>2, <1>4 DEF IInv, TimelyOK
        <5>2. (noise = 0 /\ writtenAt # None) => writtenAt >= promised - 1
          BY <1>2, <2>2, <4>2, <5>1
        <5> QED BY <1>1, <1>4, <4>1, <5>2 DEF TimelyOK, TimelyAckHeard
      <4> QED BY <1>2, <1>4, <3>3, <3>5, <4>1, <4>2, <4>3, <4>4, <4>5 DEF Outcomes
    <3>6. ASSUME pp \in Protocols(worker, answered), Len(pp.buffer) <= MaxBuffer,
                 pp.state # "RequestedUnverified", toSupervisor' \in Seq(Truthful(worker, answered)),
                 heardAt' \in Nat \cup {None},
                 exchange' \in {"acknowledged", "rejected", "unavailable"},
                 exchange' = "acknowledged" =>
                    /\ worker.status = "Completed" \/ Ack(Id, TRUE, "Completed") \in answered
                    /\ heardAt' = clock /\ clock < promised
          PROVE  IInv'
      <4>1. RequestOK'
        <5>1. GenuineAck' BY <1>1, <3>6 DEF GenuineAck
        <5>2. negotiation = "Ready" BY <1>4
        <5> HIDE DEF pp
        <5> QED BY <1>1, <2>2, <3>4, <3>6, <5>1, <5>2 DEF RequestOK
      <4>2. UndisturbedOK' BY <3>4, <3>6 DEF UndisturbedOK
      <4>3. TimelyOK' BY <3>6 DEF TimelyOK, TimelyAckHeard
      <4>4. exchange' \in Outcomes \ {"idle", "signal", "refused"} BY <3>6 DEF Outcomes
      <4> QED BY <3>3, <3>6, <4>1, <4>2, <4>3, <4>4
    <3>7. CASE /\ clock < p.deadline_at /\ toSupervisor = <<>> /\ q.n = 0 /\ q.r.status = None
               /\ q.r.rejection = None /\ pp = p
      <4>1. channel' = channel BY <1>2, <2>1, <3>7 DEF Channels, p
      <4>2. toSupervisor' = toSupervisor /\ exchange' = exchange /\ heardAt' = heardAt
        BY <2>1, <2>3, <2>4, <3>7
      <4>3. writtenAt = None \/ noise # 0
        <5> SUFFICES ASSUME writtenAt # None, noise = 0 PROVE FALSE OBVIOUS
        <5>1. worker.status # None BY DEF IInv, WorkerOK
        <5>2. /\ outgoing = <<>>
              /\ Spread(Ack(Id, TRUE, worker.status), p.buffer, toSupervisor, outgoing)
          BY <1>4, <2>2, <2>6, <5>1 DEF IInv, UndisturbedOK, p
        <5> QED BY <3>7, <5>2 DEF Spread
      <4> QED BY <1>1, <4>1, <4>2, <4>3, IdlePoll
    <3>8. CASE /\ clock < p.deadline_at /\ toSupervisor = <<>> /\ q.n = 0 /\ q.r.status = None
               /\ q.r.rejection = "EndpointExited" /\ pp \in Protocols(worker, answered)
               /\ pp.buffer = <<>> /\ pp.state = "Cancelled"
      <4>1. exchange' = "unavailable" /\ heardAt' = heardAt /\ toSupervisor' = toSupervisor
        BY <2>1, <2>3, <2>4, <3>8
      <4>2. Len(pp.buffer) <= MaxBuffer
        <5> HIDE DEF pp
        <5> QED BY <3>8 DEF MaxBuffer
      <4> QED BY <1>2, <3>6, <3>8, <4>1, <4>2
    <3>9. CASE /\ clock < p.deadline_at /\ toSupervisor # <<>>
               /\ q.n = Taken(toSupervisor, MaxBuffer)
               /\ q.r \in received(p, SubSeq(toSupervisor, 1, Taken(toSupervisor, MaxBuffer)))
      <4> DEFINE n == Taken(toSupervisor, MaxBuffer)
                 halves == SubSeq(toSupervisor, 1, n)
                 r == q.r
      <4>1. MaxBuffer \in Nat \ {0} BY DEF MaxBuffer
      <4>2. /\ halves \in Seq(Truthful(worker, answered))
            /\ SubSeq(toSupervisor, n + 1, Len(toSupervisor)) \in Seq(Truthful(worker, answered))
        BY <1>2, <4>1, TakenIs
      <4>3. r \in received(p, halves) /\ q.n = n BY <3>9
      <4>4. toSupervisor' = SubSeq(toSupervisor, n + 1, Len(toSupervisor)) BY <2>1, <4>3
      <4> HIDE DEF n, halves, r
      <4>5. /\ r.p \in Protocols(worker, answered) /\ Len(r.p.buffer) <= MaxBuffer
            /\ \/ /\ r.status = None /\ r.rejection \notin {"EndpointExited", "PostExit"}
                  /\ r.p.state = p.state /\ r.p.deadline_at = p.deadline_at
                  /\ r.p.active_request_id = p.active_request_id
                  /\ r.p.endpoint_exited = p.endpoint_exited
               \/ /\ Vouched(worker, answered, r.status) /\ r.status \in Statuses /\ r.rejection = None
                  /\ r.p.state \in {"AcknowledgedUnverifiedDurability", "WorkerFailed", "Cancelled"}
        BY <2>2, <3>1, <4>2, <4>3, ReceivedIs
      <4>6. CASE /\ Vouched(worker, answered, r.status) /\ r.status \in Statuses /\ r.rejection = None
                 /\ r.p.state \in {"AcknowledgedUnverifiedDurability", "WorkerFailed", "Cancelled"}
        <5>1. CASE r.status = "Completed"
          <6>1. exchange' = "acknowledged" /\ heardAt' = clock
            BY <2>1, <2>3, <4>6, <5>1 DEF r
          <6>2. worker.status = "Completed" \/ Ack(Id, TRUE, "Completed") \in answered
            BY <4>6, <5>1 DEF Vouched
          <6> QED BY <1>2, <3>1, <3>6, <3>9, <4>2, <4>4, <4>5, <4>6, <6>1, <6>2 DEF r
        <5>2. CASE r.status # "Completed"
          <6>1. exchange' = "rejected" /\ heardAt' = heardAt
            <7>1. r.status \in {"Failed", "Cancelled"} BY <4>6, <5>2 DEF Statuses
            <7> QED BY <2>1, <2>3, <4>6, <5>2, <7>1 DEF r
          <6> QED BY <1>2, <3>6, <4>2, <4>4, <4>5, <4>6, <6>1 DEF r
        <5> QED BY <5>1, <5>2
      <4>7. CASE /\ r.status = None /\ r.rejection \notin {"EndpointExited", "PostExit"}
                 /\ r.p.state = p.state /\ r.p.deadline_at = p.deadline_at
                 /\ r.p.active_request_id = p.active_request_id
                 /\ r.p.endpoint_exited = p.endpoint_exited
        <5>1. exchange' = exchange /\ heardAt' = heardAt BY <2>1, <2>3, <4>7 DEF r
        <5>2. channel'.protocol = r.p /\ channel'.ready /\ channel'.open BY <3>4, <4>5 DEF r
        <5>3. RequestOK'
          BY <1>1, <1>4, <2>2, <2>6, <3>1, <4>7, <5>1, <5>2 DEF RequestOK, GenuineAck
        <5>4. noise = 0 =>
                /\ worker.status # None /\ outgoing # <<>> /\ writtenAt = None
                /\ Spread(Ack(Id, TRUE, worker.status), r.p.buffer, toSupervisor', outgoing)
          <6> SUFFICES ASSUME noise = 0
                       PROVE  /\ worker.status # None /\ outgoing # <<>> /\ writtenAt = None
                              /\ Spread(Ack(Id, TRUE, worker.status), r.p.buffer,
                                        toSupervisor', outgoing)
            OBVIOUS
          <6> DEFINE status == worker.status
                     f == Ack(Id, TRUE, status)
          <6>1. worker.status # None BY <1>4, <2>2, <2>6, <3>9 DEF IInv, UndisturbedOK, p
          <6>2. Spread(f, p.buffer, toSupervisor, outgoing)
            BY <1>4, <2>2, <2>6, <6>1 DEF IInv, UndisturbedOK, p
          <6>3. status \in Statuses BY <1>2, <6>1 DEF WorkerStates, Statuses
          <6> HIDE DEF f
          <6>4. outgoing # <<>> /\ Spread(f, r.p.buffer, toSupervisor', outgoing)
            <7>1. r.status # None \/ (outgoing # <<>> /\
                    Spread(f, r.p.buffer, SubSeq(toSupervisor, n + 1, Len(toSupervisor)), outgoing))
              BY <1>2, <2>2, <3>1, <3>9, <4>3, <6>2, <6>3, AnswerHeard DEF n, halves, f
            <7> QED BY <4>4, <4>7, <7>1
          <6>5. writtenAt = None
            BY <1>4, <2>2, <2>6, <6>4 DEF IInv, UndisturbedOK, p
          <6> QED BY <6>1, <6>4, <6>5 DEF f
        <5>5. UndisturbedOK' BY <1>1, <5>2, <5>4 DEF UndisturbedOK
        <5>6. TimelyOK' BY <1>1, <1>4, <5>1, <5>4 DEF TimelyOK, TimelyAckHeard
        <5> QED BY <1>2, <1>4, <3>3, <4>2, <4>4, <4>5, <5>1, <5>3, <5>5, <5>6 DEF r, Outcomes
      <4> QED BY <4>5, <4>6, <4>7
    <3> QED BY <1>2, <2>2, <2>6, <3>1, <3>2, <3>5, <3>7, <3>8, <3>9, PollIs
  <2> QED BY <2>5, <2>6
<1> QED BY <1>3, <1>4

-----------------------------------------------------------------------------
(* The theorems.                                                           *)

LEMMA StepInv == IInv /\ [Next]_vars => IInv'
<1> SUFFICES ASSUME IInv, [Next]_vars PROVE IInv' OBVIOUS
<1>1. CASE UNCHANGED vars
  <2>1. UNCHANGED <<channel, negotiation, exchange, loop, clock, promised, heardAt, worker,
                    outgoing, writtenAt, killedAt, noise, answered, toWorker, toSupervisor>>
    BY <1>1 DEF vars, supervisorVars, workerVars, disturbance
  <2>2. StreamsOK' /\ TypesOK' /\ WorkerOK'
    BY <2>1 DEF IInv, StreamsOK, TypesOK, WorkerOK, SignalFindsHandler
  <2>3. RequestOK' BY <2>1 DEF IInv, RequestOK, GenuineAck
  <2>4. UndisturbedOK' BY <2>1 DEF IInv, UndisturbedOK
  <2>5. QuietOK' BY <2>1 DEF IInv, QuietOK
  <2>6. TimelyOK' BY <2>1 DEF IInv, TimelyOK, TimelyAckHeard
  <2> QED BY <2>2, <2>3, <2>4, <2>5, <2>6 DEF IInv
<1>2. ASSUME NEW n \in 1 .. 2, Write(n) PROVE IInv' BY <1>2, WriteStep
<1>3. ASSUME NEW status \in Statuses, Callback(status) PROVE IInv' BY <1>3, CallbackStep
<1>4. ASSUME NEW frame \in Bogus \cup Plausible, Noise(frame) PROVE IInv' BY <1>4, NoiseStep
<1> QED
  BY <1>1, <1>2, <1>3, <1>4, NegotiationStep, PollReadyStep, RequestStep, SignalStep,
     PollAnswerStep, TickStep, SleepStep, HelloStep, InstallStep, PollStep, ReadStep, CloseStep,
     ExitStep, InterceptStep, StrayStep
  DEF Next, Statuses

\* Every reachable state of the exchange satisfies the inductive invariant.
THEOREM ExchangeInvariant == Spec => []IInv
<1>1. Init => IInv BY InitInv
<1>2. IInv /\ [Next]_vars => IInv' BY StepInv
<1> QED BY <1>1, <1>2, PTL DEF Spec

\* Whenever the request is made, and however signals, frames and exits interleave,
\* SIGUSR1 finds the handler connect installed, or a worker that has already begun
\* to close; it meets a worker still starting only if a descendant announced
\* readiness in its place (signal_checkpoint).
THEOREM SignalSafety == Spec => []SignalFindsHandler
<1>1. IInv => SignalFindsHandler BY DEF IInv, TypesOK, SignalFindsHandler
<1> QED BY <1>1, ExchangeInvariant, PTL

\* For every timeout, number of foreign frames and stray signals: the supervisor
\* acknowledges a checkpoint only on a completed answer with this run's nonce and
\* this request's id, taken strictly before the deadline, and that answer is the
\* worker's own unless a descendant that holds the descriptor gave it in its place;
\* with nobody else writing, an answer written before the last poll ahead of the
\* deadline is heard (poll, ingest).
THEOREM AnswerSafety == Spec => []AckIsHeardAndGenuine
<1>1. IInv => AckIsHeardAndGenuine
  <2> SUFFICES ASSUME IInv PROVE AckIsHeardAndGenuine OBVIOUS
  <2>1. channel.protocol.state \in CheckpointProtocolState
    BY DEF IInv, StreamsOK, Channels, Protocols
  <2>2. TypeOK BY <2>1 DEF IInv, StreamsOK, TypesOK, TypeOK
  <2>3. GenuineAck BY DEF IInv, RequestOK
  <2>4. TimelyAckHeard BY DEF IInv, TimelyOK, TimelyAckHeard
  <2> QED BY <2>2, <2>3, <2>4 DEF AckIsHeardAndGenuine
<1> QED BY <1>1, ExchangeInvariant, PTL
=============================================================================
