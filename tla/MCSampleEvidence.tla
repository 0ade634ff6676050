-------------------------- MODULE MCSampleEvidence --------------------------
(* Budgets for SampleEvidence: samples of every kind under a clock that      *)
(* may step back, few samples against a busy dispatch thread and a host that *)
(* sleeps, the same with clock reads that fail, or one sample of any kind.   *)
EXTENDS SampleEvidence

SmallBudgets ==
    {[samples |-> 3, events |-> 0, steps |-> 1, sleeps |-> 0, failures |-> 0, monitor |-> FALSE,
      found |-> [kind : {"Complete"}, bytes : Bytes]
                    \cup {[kind |-> "Partial", bytes |-> 3],
                          [kind |-> "SnapshotFailed", failure |-> "EnumerationFailed"]},
      answers |-> {"failed"}],
     [samples |-> 2, events |-> 2, steps |-> 0, sleeps |-> 1, failures |-> 0, monitor |-> TRUE,
      found |-> {[kind |-> "Complete", bytes |-> 3]}, answers |-> {"ok"}],
     [samples |-> 1, events |-> 2, steps |-> 0, sleeps |-> 1, failures |-> 2, monitor |-> TRUE,
      found |-> {[kind |-> "Complete", bytes |-> 3]}, answers |-> {"ok"}],
     [samples |-> 1, events |-> 0, steps |-> 0, sleeps |-> 0, failures |-> 0, monitor |-> FALSE,
      found |-> Found, answers |-> Answers]}
=============================================================================
