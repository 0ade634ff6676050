---------------------------- MODULE MCRunRuntime ----------------------------
(* Small instances of RunRuntime.  A time unit is one sampling interval; the *)
(* footprints are one below recovery, one at the limit and one in the        *)
(* emergency band.                                                           *)
EXTENDS RunRuntime

\* A command without a wall limit and a TERM grace of two intervals.
Limited ==
    [limit_bytes |-> 3, warning_bytes |-> 2, recovery_bytes |-> 1,
     emergency_bytes |-> 4, required_breach_samples |-> 1,
     max_missing_samples |-> 1, max_sample_age |-> 1,
     max_sample_window |-> 1, checkpoint_timeout |-> 2,
     term_grace |-> 2, wall_time |-> None]

\* A wall limit of one interval, so that both limits may ask for the checkpoint.
WallLimited == [Limited EXCEPT !.term_grace = 1, !.wall_time = 1]
=============================================================================
