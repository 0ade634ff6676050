----------------------------- MODULE MCStartup -----------------------------
(* Every way of starting the supervisor, each with the dispositions that go   *)
(* with it: a client's background job ignores SIGINT, nohup ignores SIGHUP.   *)
(* The options on the command line are at the ends of their ranges, with a    *)
(* u64 of 16 bits.                                                            *)
EXTENDS Startup

Ignoring(signals) == [s \in Terminal |-> IF s \in signals THEN "ignored" ELSE "default"]

Starts == <<[by |-> "client", inherited |-> Ignoring({})],
            [by |-> "client", inherited |-> Ignoring({"SIGINT"})],
            [by |-> "shell", inherited |-> Ignoring({"SIGHUP"})],
            [by |-> "launchd", inherited |-> Ignoring({})]>>

Q(digits, unit) == [digits |-> digits, unit |-> unit]
Raw(limit, interval, wall, timeout) ==
    [max_footprint |-> limit, sample_interval |-> interval, wall_time |-> wall,
     checkpoint_timeout |-> timeout]

\* Accepted: the smallest limits, the last one with an emergency band, and a tenth on each side of 1.
Accepted ==
    <<Raw(Q(2, 1), Q(10, 1), None, None), Raw(Q(3, 1), Q(50, 1), Q(1, 1), Q(10, 1)),
      Raw(Q(9, 1), Q(250, 1), None, Q(60, 1000)), Raw(Q(10, 1), Q(251, 1), Q(40, 1000), None),
      Raw(Q(19, 1), Q(10, 1000), None, None), Raw(Q(58, 1024), Q(50, 1), None, None),
      Raw(Q(59577, 1), Q(249, 1), None, None), Raw(Q(59578, 1), Q(50, 1), None, None)>>

Refused ==
    {Raw(Q(1, 1), Q(50, 1), None, None), Raw(Q(59579, 1), Q(50, 1), None, None),
     Raw(Q(64, 1024), Q(50, 1), None, None), Raw(Q(2, 1), Q(50, 1), None, Q(9, 1)),
     Raw(Q(2, 1), Q(50, 1), Q(41, 1000), None), Raw(Q(2, 1), Q(9, 1), None, None)}

AllConfigs ==
    {[mode |-> mode, on_parent_exit |-> option, started_by |-> Starts[i].by,
      inherited |-> Starts[i].inherited, raw |-> Accepted[IF option = "Detach" THEN i ELSE 4 + i]] :
        mode \in {"run", "observe"}, option \in {"Terminate", "Detach"}, i \in 1 .. 4}
    \cup {[mode |-> "run", on_parent_exit |-> "Terminate", started_by |-> "client",
           inherited |-> Ignoring({}), raw |-> raw] : raw \in Refused}
=============================================================================
