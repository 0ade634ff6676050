------------------------ MODULE MCCheckpointExchange ------------------------
(* Small instance of CheckpointExchange: a window of three polls, two frames   *)
(* of a descendant and one stray signal.                                     *)
EXTENDS CheckpointExchange
=============================================================================
