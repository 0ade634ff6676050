--------------------------- MODULE JournalFormat ---------------------------
(***************************************************************************)
(* The byte stream of a journal and its recovery                           *)
(* (crates/mlx-guard-core/src/persistence.rs, JournalRecovery).  A stream  *)
(* is a sequence of writes: the magic, then a length, a payload and a      *)
(* checksum for each record.  Bytes that were lost or only partly written  *)
(* are junk.                                                               *)
(***************************************************************************)
EXTENDS Integers, Sequences, FiniteSetsExt

CONSTANTS
    MAX_RECOVERED_RECORDS,          \* records a recovery reads at most
    MAX_SAMPLE_HISTORY_CAPACITY     \* samples the journal and the ring hold

ASSUME FormatAssumption ==
    /\ MAX_RECOVERED_RECORDS \in Nat \ {0}
    /\ MAX_SAMPLE_HISTORY_CAPACITY \in Nat \ {0}

\* An entry is its kind, and for a sample its number.
EntryKind == {"Header", "Sample", "SampleHistoryReset", "Transition", "Signal",
              "Checkpoint", "Escape", "Calibration", "Outcome"}
Entry(kind) == [kind |-> kind, n |-> 0]
Sample(n) == [kind |-> "Sample", n |-> n]
Entries == [kind: EntryKind, n: Nat]

\* Mutant: a transition may stay in the page cache.
transition_is_buffered(kind) ==
    kind \in {"Header", "SampleHistoryReset", "Signal", "Checkpoint", "Outcome"}
requires_sync(kind) ==
    kind \in {"Header", "SampleHistoryReset", "Transition", "Signal", "Checkpoint", "Outcome"}

Parts == <<"length", "payload", "checksum">>
chunk(part, sequence, entry) == [part |-> part, sequence |-> sequence, entry |-> entry]
Magic == chunk("magic", 0, Entry("Header"))
Junk == chunk("junk", 0, Entry("Header"))

\* Mutant: the payload is not compared with its checksum.
intact_unchecked(stream, n) ==
    /\ Len(stream) >= 3 * n + 1
    /\ \A i \in {1, 3} : /\ stream[3 * n - 2 + i].part = Parts[i]
                         /\ stream[3 * n - 2 + i].sequence = n - 1

\* Record n is all there, its checksum agrees and its sequence number is next.
intact(stream, n) ==
    /\ Len(stream) >= 3 * n + 1
    /\ \A i \in 1 .. 3 : /\ stream[3 * n - 2 + i].part = Parts[i]
                         /\ stream[3 * n - 2 + i].sequence = n - 1

\* JournalRecovery::read_file reads records until one is not intact or its
\* limit is reached; what is left of the stream gives the status.
count(stream) ==
    CHOOSE n \in 0 .. MAX_RECOVERED_RECORDS :
        /\ n = MAX_RECOVERED_RECORDS \/ ~intact(stream, n + 1)
        /\ \A m \in 1 .. n : intact(stream, m)

readable(stream) == stream # <<>> /\ Head(stream) = Magic

read_records(stream) ==
    [m \in 1 .. IF readable(stream) THEN count(stream) ELSE 0 |-> stream[3 * m].entry]

read_status(stream) ==
    LET rest == SubSeq(stream, 3 * count(stream) + 2, Len(stream))
    IN IF ~readable(stream) THEN "ReadFailed"
       ELSE IF rest = <<>> THEN "Complete"
       ELSE IF /\ count(stream) < MAX_RECOVERED_RECORDS /\ Len(rest) < 3
               /\ \A i \in DOMAIN rest : rest[i] # Junk
            THEN "Truncated" ELSE "Corrupt"

Positions(records, kind) == {i \in DOMAIN records : records[i].kind = kind}

\* JournalRecovery::to_report accepts a stream with each component once, the
\* header first and the outcome last.
replayable(stream) ==
    LET r == read_records(stream)
    IN /\ read_status(stream) = "Complete"
       /\ Positions(r, "Header") = {1}
       /\ Positions(r, "Outcome") = {Len(r)}
       /\ \A kind \in {"Checkpoint", "Escape"} : \E i \in DOMAIN r : Positions(r, kind) = {i}
       /\ \A kind \in {"Calibration", "SampleHistoryReset"} :
              \A i, j \in Positions(r, kind) : i = j

\* Mutant: the early samples are kept beside the ring's.
to_report_keeps_samples(records) ==
    [samples |-> SelectSeq(records, LAMBDA e : e.kind = "Sample"),
     acts |-> SelectSeq(records, LAMBDA e : e.kind \in {"Transition", "Signal"})]

\* ... and replays it: a history reset clears the samples before it.
to_report(records) ==
    LET reset == Positions(records, "SampleHistoryReset")
        recent == IF reset = {} THEN records
                  ELSE SubSeq(records, Max(reset) + 1, Len(records))
    IN [samples |-> SelectSeq(recent, LAMBDA e : e.kind = "Sample"),
        acts |-> SelectSeq(records, LAMBDA e : e.kind \in {"Transition", "Signal"})]
=============================================================================
