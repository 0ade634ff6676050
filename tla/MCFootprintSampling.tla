------------------------ MODULE MCFootprintSampling ------------------------
(* Two budgets for FootprintSampling: three pids, so that a chain of parents *)
(* and two escapes at once occur, or four rounds over two pids, so that an   *)
(* escape past the evidence cap is seen, missed and seen again.              *)
EXTENDS FootprintSampling

TwoBudgets ==
    {[pids |-> Pids, births |-> 2, rounds |-> 2, faults |-> 1],
     [pids |-> Pids \ {4}, births |-> 2, rounds |-> 4, faults |-> 1]}
=============================================================================
