------------------------ MODULE MCInterventionEngine ------------------------
(* Small instance of InterventionEngineSpec: a checkpoint window opened by    *)
(* the wall limit, an emergency sample, and a ring of three records, the most *)
(* attempts one event can make, which overflows within the bound on attempts. *)
EXTENDS InterventionEngineSpec

MCConfig ==
    [limit_bytes |-> 3, warning_bytes |-> 2, recovery_bytes |-> 1,
     emergency_bytes |-> 4, required_breach_samples |-> 1,
     max_missing_samples |-> 1, max_sample_age |-> 1,
     max_sample_window |-> 1, checkpoint_timeout |-> 1,
     term_grace |-> 1, wall_time |-> 1]

MCBytes == {1, 4}
=============================================================================
