--------------------------- MODULE IdentityTracker ---------------------------
(***************************************************************************)
(* IdentityTracker (crates/mlx-guard-core/src/identity.rs): the comparison *)
(* of one process snapshot with the identities tracked so far.  A snapshot *)
(* is a set of observations, at most one per pid, and a set of failures.   *)
(* The containment events a frame carries, and the map by pid that only    *)
(* serves them, are evidence no other code reads and are left out.         *)
(***************************************************************************)
EXTENDS Integers, FiniteSets, FiniteSetsExt

CONSTANTS
    None,                   \* Option::None
    MAX_ESCAPED_EVIDENCE,   \* escaped identities retained
    U64_MAX                 \* the largest sum of footprints

ASSUME IdentityAssumption ==
    /\ MAX_ESCAPED_EVIDENCE \in Nat \ {0}
    /\ U64_MAX \in Nat

\* A pid with the start token the kernel gave the process.
ProcessIdentity(pid, start_abstime) == [pid |-> pid, start_abstime |-> start_abstime]

ProcessObservation(identity, parent_pid, process_group_id, footprint_bytes, exited) ==
    [identity |-> identity, parent_pid |-> parent_pid, process_group_id |-> process_group_id,
     footprint_bytes |-> footprint_bytes, exited |-> exited]

ObservationFailure(pid, kind) == [pid |-> pid, kind |-> kind]

Identities(observations) == {o.identity : o \in observations}

\* `tracked` gives each identity of the last frame its sticky escaped mark.
NewTracker(root, owned_group) ==
    [root |-> root, owned_group |-> owned_group, tracked |-> << >>,
     escaped |-> {}, escaped_count |-> 0, root_exit_observed |-> FALSE]

\* The parent chain is followed through the pids of this snapshot and visits no
\* pid twice: it meets the root's if every set of pids does that holds the
\* parent's and the parent of each pid in it.
descends_from_root(observation, observations, root_pid) ==
    \A pids \in SUBSET {o.parent_pid : o \in observations} :
        (/\ observation.parent_pid \in pids
         /\ \A o \in observations : o.identity.pid \in pids => o.parent_pid \in pids)
        => root_pid \in pids

\* A confirmed disappearance is an exit; only the root's stays a failure.
\* Mutant: a denied observation of a descendant passes for its exit.
relevant_failures_denied_is_exit(tracker, failures) ==
    {f \in failures : f.pid = tracker.root.pid \/ f.kind \notin {"Disappeared", "PermissionDenied"}}

relevant_failures(tracker, failures) ==
    {f \in failures : f.kind # "Disappeared" \/ f.pid \in {None, tracker.root.pid}}

\* The sum of the members' footprints, and whether anything is missing from it.
aggregate(members, failures, previous, root, root_was_observed) ==
    LET known == {m \in members : m.footprint_bytes # None}
        known_bytes == MapThenSumSet(LAMBDA m : m.footprint_bytes, known)
        missing == Identities(members \ known)
                       \cup {i \in previous : \E f \in failures : f.pid \in {i.pid, None}}
                       \cup {i \in {root} : \/ \E f \in failures : f.pid \in {root.pid, None}
                                            \/ ~root_was_observed}
    IN IF known_bytes > U64_MAX THEN [kind |-> "Overflow"]
       ELSE IF missing = {} /\ failures = {} THEN [kind |-> "Complete", bytes |-> known_bytes]
       ELSE [kind |-> "Incomplete", bytes |-> known_bytes, missing |-> missing]

\* The identities an update keeps: the root, what it tracked, what descends
\* from the root and what is in the group.
\* Mutant: a tracked process is recognised by its pid.
relevant_by_pid(tracker, observations) ==
    {o \in observations :
        \/ o.identity = tracker.root
        \/ \E i \in DOMAIN tracker.tracked : i.pid = o.identity.pid
        \/ descends_from_root(o, observations, tracker.root.pid)
        \/ o.process_group_id = tracker.owned_group}

relevant(tracker, observations) ==
    {o \in observations :
        \/ o.identity = tracker.root
        \/ o.identity \in DOMAIN tracker.tracked
        \/ descends_from_root(o, observations, tracker.root.pid)
        \/ o.process_group_id = tracker.owned_group}

\* An exited process reports no group and is never an escape.
escaping(tracker, observation) ==
    /\ observation.identity # tracker.root
    /\ observation.process_group_id # tracker.owned_group
    /\ ~observation.exited

counted_before(tracker, identity) ==
    \/ identity \in DOMAIN tracker.tracked /\ tracker.tracked[identity]
    \/ identity \in tracker.escaped

\* Mutant: the count stops where the evidence does.
newly_counted_within_cap(tracker, leaving) ==
    {i \in leaving : ~counted_before(tracker, i)
                     /\ Cardinality(tracker.escaped) < MAX_ESCAPED_EVIDENCE}

newly_counted(tracker, leaving) == {i \in leaving : ~counted_before(tracker, i)}

\* Evidence is retained in the order of the pids, up to the cap.
retain_escaped(escaped, leaving) ==
    LET free == MAX_ESCAPED_EVIDENCE - Cardinality(escaped)
        fresh == leaving \ escaped
    IN escaped \cup {i \in fresh : Cardinality({j \in fresh : j.pid < i.pid}) < free}

\* update: the tracker after a snapshot, and the frame derived from it.
update(tracker, observations, failures) ==
    LET kept == relevant(tracker, observations)
        leaving == {o \in kept : escaping(tracker, o)}
        owned_members == {o \in kept \ leaving : ~o.exited}
        root_seen == {o \in observations : o.identity = tracker.root}
        root_exit_observed == tracker.root_exit_observed \/ \E o \in root_seen : o.exited
        failed == relevant_failures(tracker, failures)
        count == tracker.escaped_count + Cardinality(newly_counted(tracker, Identities(leaving)))
    IN [tracker |->
           [tracker EXCEPT
               !.tracked = [i \in Identities(kept) |->
                               counted_before(tracker, i) \/ i \in Identities(leaving)],
               !.escaped = retain_escaped(@, Identities(leaving)),
               !.escaped_count = count,
               !.root_exit_observed = root_exit_observed],
        frame |->
           [owned_members |-> owned_members,
            escape_observed |-> count > 0,
            aggregate_footprint |->
                aggregate(owned_members, failed, DOMAIN tracker.tracked, tracker.root,
                          root_seen # {} \/ root_exit_observed),
            observation_failures |-> failed]]
=============================================================================
