-------------------------- MODULE MCObserveRuntime --------------------------
(* A small instance of ObserveRuntime.  A time unit is one sampling interval *)
(* and two unusable samples in a row end the observation.                    *)
EXTENDS ObserveRuntime

Quality ==
    [limit_bytes |-> 3, warning_bytes |-> 2, recovery_bytes |-> 1,
     emergency_bytes |-> 4, required_breach_samples |-> 1,
     max_missing_samples |-> 2, max_sample_age |-> 1,
     max_sample_window |-> 1, checkpoint_timeout |-> None,
     term_grace |-> 1, wall_time |-> None]
=============================================================================
