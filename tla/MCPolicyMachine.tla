-------------------------- MODULE MCPolicyMachine --------------------------
(* Small instance of PolicyMachineSpec: four configurations (with and       *)
(* without a checkpoint window and a wall limit, and one that enforce()     *)
(* refuses), one footprint per policy band, and instants on both sides of   *)
(* every deadline.                                                          *)
EXTENDS PolicyMachineSpec

Base ==
    [limit_bytes |-> 6, warning_bytes |-> 4, recovery_bytes |-> 2,
     emergency_bytes |-> 8, required_breach_samples |-> 2,
     max_missing_samples |-> 2, max_sample_age |-> 1,
     max_sample_window |-> 1, checkpoint_timeout |-> 1,
     term_grace |-> 1, wall_time |-> None]

MCConfigs ==
    {Base,
     [Base EXCEPT !.checkpoint_timeout = None, !.term_grace = 2, !.wall_time = 2],
     [Base EXCEPT !.checkpoint_timeout = 2, !.wall_time = 1,
                  !.required_breach_samples = 1],
     [Base EXCEPT !.recovery_bytes = 4]}

MCTimes == 0 .. 3
MCBytes == {2, 3, 4, 6, 8}
MCWindows == {1, 2}
=============================================================================
