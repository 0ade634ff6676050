----------------------------- MODULE DurableLog -----------------------------
(***************************************************************************)
(* What the journal of a run promises: an append-only log of entries, a    *)
(* prefix of which is durable.  A crash keeps some prefix that contains    *)
(* the durable one and nothing else; only the user discards a log.         *)
(***************************************************************************)
EXTENDS Naturals, Sequences

CONSTANT Item

VARIABLES log, durable

vars == <<log, durable>>

Init == log = <<>> /\ durable = 0

Write ==
    /\ UNCHANGED durable
    /\ Len(log') = Len(log) + 1
    /\ log'[Len(log')] \in Item
    /\ SubSeq(log', 1, Len(log)) = log

Sync == durable' = Len(log) /\ UNCHANGED log

Crash == durable' \in durable .. Len(log) /\ log' = SubSeq(log, 1, durable')

Discard == log' = <<>> /\ durable' = 0

Next == Write \/ Sync \/ Crash \/ Discard

Spec == Init /\ [][Next]_vars
=============================================================================
