----------------------------- MODULE OwnedGroup -----------------------------
(***************************************************************************)
(* The process group both run loops own: the root command and, one at a    *)
(* time, a descendant of it in the same group.  A member is `doomed` once  *)
(* KILL was delivered to it and a `zombie` from its exit until it is       *)
(* reaped.  These are the operating system's rules, as the calls of        *)
(* process_control.rs meet them.                                           *)
(***************************************************************************)
VARIABLES root, kid

MemberState == {"alive", "doomed", "zombie", "gone"}
Live(p) == p \in {"alive", "doomed"}
LiveMember == Live(root) \/ Live(kid)

\* owned_group_exists: kill(-pgid, 0) also finds a group of zombies.
GroupExists == root # "gone" \/ kid # "gone"

\* signal_raw: a group of zombies refuses a signal.
signal_raw ==
    IF ~GroupExists THEN "ProcessMissing"
    ELSE IF LiveMember THEN "Delivered" ELSE "PermissionDenied"

doom(p) == IF p = "alive" THEN "doomed" ELSE p

\* try_wait_root reaps an exited root.
reap(p) == IF p = "zombie" THEN "gone" ELSE p

RootExit == Live(root) /\ root' = "zombie" /\ UNCHANGED kid
KidExit == Live(kid) /\ kid' = "zombie" /\ UNCHANGED root

\* An exited descendant is reaped by the root or, once orphaned, by launchd.
KidReap == kid = "zombie" /\ kid' = "gone" /\ UNCHANGED root
KidFork == root = "alive" /\ kid = "gone" /\ kid' = "alive" /\ UNCHANGED root
=============================================================================
