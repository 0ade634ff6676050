-------------------------- MODULE FootprintProofs --------------------------
(***************************************************************************)
(* Theorems about the sampler over a moving process table, for every set   *)
(* of pids and every budget of births, snapshots and faults.  The argument *)
(* follows one snapshot: start tokens only grow, so a token read twice     *)
(* vouches for the group read in between; whoever stays in the group from  *)
(* the first listing on is still to be read, was read, or left a failure   *)
(* that makes the sample partial; and the pid of an unreaped root belongs  *)
(* to nobody else.  A second invariant follows the processes outside the   *)
(* group: whom the listings reach, whom a parent chain can name, and what  *)
(* the count and the capped evidence make of them.                         *)
(***************************************************************************)
EXTENDS FootprintSampling, FiniteSetTheorems, WellFoundedInduction, TLAPS

ProcessRecords ==
    [state: {"none", "live", "zombie"}, start: Nat,
     parent: Pids \cup {0, Launchd}, group: Pids \cup {0, Launchd}]

SupFields == {"pc", "mode", "relevant", "pending", "todo", "first", "bsd",
              "observations", "failures", "survivors"}
GhostFields == {"ours", "seen", "lapses", "within", "outside", "recycled", "struck"}

Reading == {"first", "bsd", "second"}
Resting == {"poll", "work", "over", "again", "returned"}
Phases == Reading \cup Resting \cup {"group", "children", "end", "exists", "kill"}

\* The kernel's table, whose start tokens are the births so far.
KernelOK ==
    /\ proc \in [Pids -> ProcessRecords]
    /\ births \in Nat \ {0}
    /\ \A p \in Pids : proc[p].start <= births
    /\ proc[RootPid].start >= 1
    /\ DOMAIN budget = {"pids", "births", "rounds", "faults"}
    /\ budget.births \in Nat
    /\ births + budget.births <= MaxBirths + 1

\* As long as the root's pid is its own, its group holds nobody else's process.
GroupOK ==
    RootPidHeld =>
        \A p \in Pids : (Present(p) /\ proc[p].group = RootPid) => IdentityOf(p) \in ghost.ours

GhostOK ==
    /\ DOMAIN ghost = GhostFields
    /\ ghost.ours \subseteq IdentitySet /\ ghost.seen \subseteq IdentitySet
    /\ Root \in ghost.ours
    /\ ghost.within \subseteq Members(proc)

TrackerOK ==
    /\ DOMAIN tracker = {"root", "owned_group", "tracked", "escaped", "escaped_count",
                         "root_exit_observed"}
    /\ tracker.root = Root /\ tracker.owned_group = RootPid
    /\ DOMAIN tracker.tracked \subseteq IdentitySet
    /\ tracker.escaped \subseteq IdentitySet
    /\ tracker.escaped = {} => ghost.seen = {}

\* The place of the supervisor and the snapshot in progress.
SnapshotOK ==
    /\ DOMAIN sup = SupFields
    /\ sup.pc \in Phases /\ sup.mode \in {"sample", "cleanup", "signal"}
    /\ sup.relevant \subseteq Pids /\ sup.todo \subseteq Pids
    /\ sup.pc \in {"group", "children"} => RootPid \in sup.relevant
    /\ sup.pc \in Reading => sup.todo # {}
    /\ sup.pc = "end" => sup.todo = {}
    /\ sup.mode = "signal" => sup.pc \in Reading \cup {"end"}
    /\ Identities(sup.observations) \subseteq IdentitySet

\* A start token that is read a second time vouches for the group in between.
ReadOK ==
    /\ sup.pc \in {"bsd", "second"} => sup.first \in Nat /\ sup.first <= proc[Pid].start
    /\ (/\ sup.pc = "second" /\ sup.bsd.group = RootPid /\ RootPidHeld
        /\ sup.first = proc[Pid].start) => IdentityOf(Pid) \in ghost.ours

\* Who was read in the group is the command's.
ObservedOK ==
    RootPidHeld =>
        \A o \in sup.observations :
            (~o.exited /\ o.process_group_id = RootPid) => o.identity \in ghost.ours

\* Whoever stays in the group is listed, and then read or failed to be.
Read(i) ==
    \E o \in sup.observations :
        o.identity = i /\ ~o.exited /\ o.process_group_id = RootPid
Missed == \E f \in sup.failures : f.kind # "Disappeared"

CoverOK ==
    /\ sup.pc = "children" => \A i \in ghost.within : i.pid \in sup.relevant
    /\ (sup.pc \in Reading \cup {"end"} /\ sup.mode # "signal") =>
          \A i \in ghost.within : i.pid \in sup.todo \/ Read(i) \/ Missed
    /\ (sup.pc = "second" /\ sup.mode # "signal") =>
          \A i \in ghost.within : i.pid = Pid => sup.bsd.group = RootPid

SampleOK == MembersAreOurs /\ CompleteMeansAll

\* An endpoint that passed its check is still there: only Poll reaps the root.
RootUnreaped == Present(RootPid) /\ RootPidHeld
EndpointOK ==
    /\ (sup.mode = "signal" /\ \E o \in sup.observations : o.identity = Root) => RootUnreaped
    /\ sup.pc = "kill" => RootUnreaped
    /\ SignalReachesRoot

CleanupOK ==
    /\ report # None => sup.pc = "returned"
    /\ CleanupIsHonest

LatchOK == root_outcome \in BOOLEAN /\ escape_detected \in BOOLEAN

IInv ==
    /\ KernelOK /\ GroupOK /\ GhostOK /\ TrackerOK /\ SnapshotOK
    /\ ReadOK /\ ObservedOK /\ CoverOK /\ SampleOK /\ EndpointOK /\ CleanupOK /\ LatchOK

-----------------------------------------------------------------------------
(* Pids, identities and the members of the group.                          *)

LEMMA Smallest ==
    ASSUME NEW T \in SUBSET Nat, T # {} PROVE \E n \in T : \A m \in T : n <= m
<1> DEFINE R == OpToRel(<, Nat)
<1>1. IsWellFoundedOn(R, Nat) BY NatLessThanWellFounded, Zenon
<1>2. \A x, y \in Nat : <<y, x>> \in R <=> y < x BY DEF OpToRel
<1> HIDE DEF R
<1>3. PICK n \in T : \A m \in T : ~(<<m, n>> \in R) BY <1>1, WFMin
<1>4. ASSUME NEW m \in T PROVE n <= m
  <2>1. m \in Nat /\ n \in Nat OBVIOUS
  <2>2. ~(m < n) BY <1>2, <1>3, <2>1
  <2> QED BY <2>1, <2>2
<1> QED BY <1>4

\* The pid being read is one of those left to read.
LEMMA PidIsListed ==
    ASSUME SnapshotOK, sup.pc \in Reading
    PROVE  Pid \in sup.todo /\ Pid \in Pids
<1>1. sup.todo \in SUBSET Nat /\ sup.todo # {}
  BY InventoryAssumption DEF SnapshotOK
<1>2. \E n \in sup.todo : \A m \in sup.todo : n =< m BY <1>1, Smallest
<1> QED BY <1>2 DEF Pid, Min, SnapshotOK

LEMMA IdentityFields ==
    ASSUME NEW p, NEW s
    PROVE  /\ ProcessIdentity(p, s).pid = p /\ ProcessIdentity(p, s).start_abstime = s
           /\ \A q, t : ProcessIdentity(p, s) = ProcessIdentity(q, t) <=> p = q /\ s = t
           /\ (p \in Pids /\ s \in 0 .. MaxBirths + 1) => ProcessIdentity(p, s) \in IdentitySet
BY DEF ProcessIdentity, IdentitySet

LEMMA MemberIs ==
    ASSUME NEW table, NEW i
    PROVE  i \in Members(table) <=>
             \E p \in Pids : /\ table[p].state = "live" /\ table[p].group = RootPid
                             /\ i = ProcessIdentity(p, table[p].start)
BY DEF Members, Alive

-----------------------------------------------------------------------------
(* The kernel.                                                             *)

\* What a step of the kernel may do to the table and to the ghosts: a start token
\* changes only to the newest one, nobody enters the set of those who stayed in
\* the group, an unreaped root stays, and an empty group stays empty.
Drift ==
    /\ KernelOK' /\ GroupOK' /\ GhostOK'
    /\ \A p \in Pids : proc'[p].start \in {proc[p].start, births + 1}
    /\ ghost'.within \subseteq ghost.within
    /\ ghost.ours \subseteq ghost'.ours
    /\ ghost'.seen = ghost.seen /\ ghost'.struck = ghost.struck
    /\ RootUnreaped => RootUnreaped'
    /\ (RootPidHeld' /\ ~owned_group_exists) => ~owned_group_exists'

LEMMA DriftStep ==
    ASSUME IInv, Drift,
           UNCHANGED <<tracker, sup, root_outcome, sample, escape_detected, report>>
    PROVE  IInv'
<1>1. /\ KernelOK /\ GroupOK /\ GhostOK /\ TrackerOK /\ SnapshotOK
      /\ ReadOK /\ ObservedOK /\ CoverOK /\ SampleOK /\ EndpointOK /\ CleanupOK /\ LatchOK
  BY DEF IInv
<1>2. RootPid \in Pids BY InventoryAssumption
<1>3. \A p \in Pids : proc[p].start \in Nat /\ births \in Nat /\ births >= 1
                      /\ proc[p].start <= births
  BY <1>1 DEF KernelOK, ProcessRecords
<1>4. RootPidHeld' => RootPidHeld
  BY <1>2, <1>3 DEF Drift, RootPidHeld
<1>5. Pid' = Pid BY DEF Pid
<1>6. KernelOK' /\ GroupOK' /\ GhostOK' BY DEF Drift
<1>7. TrackerOK' BY <1>1 DEF TrackerOK, Drift
<1>8. SnapshotOK' BY <1>1 DEF SnapshotOK
<1>9. ReadOK'
  <2>1. ASSUME sup.pc \in {"bsd", "second"}
        PROVE  /\ sup.first \in Nat /\ sup.first <= proc'[Pid].start
               /\ sup.first = proc'[Pid].start => proc'[Pid].start = proc[Pid].start
    <3>1. Pid \in Pids BY <1>1, <2>1, PidIsListed DEF Reading
    <3>2. sup.first \in Nat /\ sup.first <= proc[Pid].start BY <1>1, <2>1 DEF ReadOK
    <3>3. proc'[Pid].start \in {proc[Pid].start, births + 1} BY <3>1 DEF Drift
    <3> QED BY <1>3, <3>1, <3>2, <3>3
  <2>2. ASSUME sup.pc = "second", sup.bsd.group = RootPid, RootPidHeld',
               sup.first = proc'[Pid].start
        PROVE  IdentityOf(Pid)' \in ghost'.ours
    <3>1. proc'[Pid].start = proc[Pid].start BY <2>1, <2>2
    <3>2. IdentityOf(Pid) \in ghost.ours BY <1>1, <1>4, <2>2, <3>1 DEF ReadOK
    <3> QED BY <1>5, <3>1, <3>2 DEF IdentityOf, Drift
  <2> QED BY <1>5, <2>1, <2>2 DEF ReadOK
<1>10. ObservedOK' BY <1>1, <1>4 DEF ObservedOK, Drift
<1>11. CoverOK'
  <2>1. \A i \in ghost'.within : i \in ghost.within BY DEF Drift
  <2> QED BY <1>1, <1>5, <2>1 DEF CoverOK, Read, Missed
<1>12. SampleOK'
  BY <1>1, <1>4 DEF SampleOK, MembersAreOurs, CompleteMeansAll, Drift
<1>13. EndpointOK' BY <1>1 DEF EndpointOK, SignalReachesRoot, Drift
<1>14. CleanupOK'
  BY <1>1, <1>4 DEF CleanupOK, CleanupIsHonest, Drift
<1>15. LatchOK' BY <1>1 DEF LatchOK
<1> QED
  BY <1>6, <1>7, <1>8, <1>9, <1>10, <1>11, <1>12, <1>13, <1>14, <1>15 DEF IInv

LEMMA InitInvariant == Init => IInv
<1> SUFFICES ASSUME Init PROVE IInv OBVIOUS
<1> USE InventoryAssumption
<1>1. RootPid \in Pids /\ RootPid \in Nat /\ 1 \in Nat /\ 0 \in 0 .. MaxBirths + 1
      /\ 1 \in 0 .. MaxBirths + 1
  OBVIOUS
<1>2. /\ proc[RootPid].state = "live" /\ proc[RootPid].start = 1 /\ proc[RootPid].group = RootPid
      /\ \A p \in Pids : p # RootPid => proc[p].state = "none"
      /\ \A p \in Pids : proc[p].start \in {0, 1}
  BY <1>1 DEF Init
<1>3. Root \in IdentitySet BY <1>1, IdentityFields DEF Root
<1>4. KernelOK
  <2>1. proc \in [Pids -> ProcessRecords] BY <1>1 DEF Init, ProcessRecords, Launchd
  <2>2. DOMAIN budget = {"pids", "births", "rounds", "faults"} /\ budget.births \in 0 .. MaxBirths
    BY DEF Init
  <2>3. births = 1 BY DEF Init
  <2>4. \A p \in Pids : proc[p].start <= births BY <1>2, <2>3
  <2> QED BY <1>1, <1>2, <2>1, <2>2, <2>3, <2>4 DEF KernelOK
<1>5. ghost.ours = {Root} /\ ghost.seen = {} /\ ghost.within = {} /\ ghost.struck = {}
      /\ DOMAIN ghost = GhostFields
  BY DEF Init, GhostFields
<1>6. GroupOK BY <1>1, <1>2, <1>5 DEF GroupOK, Present, IdentityOf, Root
<1>7. GhostOK BY <1>3, <1>5 DEF GhostOK
<1>8. TrackerOK
  <2>1. DOMAIN << >> = {} OBVIOUS
  <2> QED BY <1>5, <2>1 DEF Init, TrackerOK, NewTracker
<1>9. /\ DOMAIN sup = SupFields /\ sup.pc = "poll" /\ sup.mode = "sample"
      /\ sup.relevant = {} /\ sup.todo = {} /\ sup.observations = {}
  BY DEF Init, Idle, SupFields
<1>10. SnapshotOK BY <1>9 DEF SnapshotOK, Phases, Resting, Reading, Identities
<1>11. ReadOK /\ ObservedOK /\ CoverOK BY <1>9 DEF ReadOK, ObservedOK, CoverOK, Reading
<1>12. SampleOK /\ CleanupOK /\ LatchOK
  BY DEF Init, SampleOK, MembersAreOurs, CompleteMeansAll, CleanupOK, CleanupIsHonest, LatchOK
<1>13. EndpointOK BY <1>5, <1>9 DEF EndpointOK, SignalReachesRoot
<1> QED BY <1>4, <1>6, <1>7, <1>8, <1>10, <1>11, <1>12, <1>13 DEF IInv

\* A birth takes a free pid and the newest token; the group it joins holds someone.
LEMMA BirthDrifts ==
    ASSUME IInv, NEW p \in Pids, NEW parent \in Pids \cup {0, Launchd},
           NEW group \in Pids \cup {0, Launchd}, NEW ours \in BOOLEAN,
           Birth(p, parent, group, ours),
           (p # RootPid /\ group = RootPid) => owned_group_exists /\ (RootPidHeld => ours)
    PROVE  Drift
<1>1. KernelOK /\ GroupOK /\ GhostOK BY DEF IInv
<1>2. RootPid \in Pids /\ MaxBirths \in Nat BY InventoryAssumption
<1> DEFINE newborn == [state |-> "live", start |-> births + 1, parent |-> parent, group |-> group]
           grown == IF ours THEN ghost.ours \cup {ProcessIdentity(p, births + 1)} ELSE ghost.ours
           again == ghost.recycled \/ (Taking /\ proc[p].start # 0)
<1>3. /\ births' = births + 1 /\ budget.births > 0 /\ FreePid(p)
      /\ budget' = [budget EXCEPT !["births"] = @ - 1]
      /\ proc' = [proc EXCEPT ![p] = newborn]
      /\ ghost' = [ghost EXCEPT !.ours = grown, !.recycled = again]
  BY DEF Birth, Spend
<1>4. newborn \in ProcessRecords /\ newborn.start = births + 1 /\ newborn.group = group
  BY <1>1 DEF KernelOK, ProcessRecords
<1> HIDE DEF newborn, again
<1>5. /\ proc' \in [Pids -> ProcessRecords] /\ proc'[p] = newborn
      /\ \A q \in Pids : q # p => proc'[q] = proc[q]
  BY <1>1, <1>3, <1>4 DEF KernelOK
<1>6. /\ budget'.births = budget.births - 1
      /\ DOMAIN budget' = {"pids", "births", "rounds", "faults"}
  BY <1>1, <1>3 DEF KernelOK
<1>7. /\ DOMAIN ghost' = GhostFields /\ ghost'.ours = grown /\ ghost'.within = ghost.within
      /\ ghost'.seen = ghost.seen /\ ghost'.struck = ghost.struck
  BY <1>1, <1>3 DEF GhostOK, GhostFields
<1>8. \A q \in Pids : proc[q].start \in Nat /\ proc[q].start <= births
  BY <1>1 DEF KernelOK, ProcessRecords
<1>9. births \in Nat \ {0} /\ budget.births \in Nat /\ births + budget.births <= MaxBirths + 1
  BY <1>1 DEF KernelOK
<1>10. KernelOK'
  <2>1. \A q \in Pids : proc'[q].start <= births'
    BY <1>3, <1>4, <1>5, <1>8, <1>9
  <2>2. proc'[RootPid].start >= 1 BY <1>1, <1>2, <1>4, <1>5, <1>9 DEF KernelOK
  <2> QED BY <1>2, <1>3, <1>5, <1>6, <1>9, <2>1, <2>2 DEF KernelOK
<1>11. RootPidHeld' => RootPidHeld /\ p # RootPid
  BY <1>2, <1>4, <1>5, <1>9 DEF RootPidHeld
<1>12. GroupOK'
  <2> SUFFICES ASSUME RootPidHeld', NEW q \in Pids, Present(q)', proc'[q].group = RootPid
               PROVE  IdentityOf(q)' \in ghost'.ours
    BY DEF GroupOK
  <2>1. CASE q = p
    <3>1. ours = TRUE BY <1>4, <1>5, <1>11, <2>1
    <3> QED BY <1>4, <1>5, <1>7, <2>1, <3>1 DEF IdentityOf
  <2>2. CASE q # p
    <3>1. IdentityOf(q) \in ghost.ours BY <1>1, <1>5, <1>11, <2>2 DEF GroupOK, Present
    <3> QED BY <1>5, <1>7, <2>2, <3>1 DEF IdentityOf
  <2> QED BY <2>1, <2>2
<1>13. grown \subseteq IdentitySet /\ ghost.ours \subseteq grown
  <2>1. births + 1 \in 0 .. MaxBirths + 1 BY <1>2, <1>3, <1>9
  <2>2. ProcessIdentity(p, births + 1) \in IdentitySet BY <2>1, IdentityFields
  <2> QED BY <1>1, <2>2 DEF GhostOK
<1>14. ghost.within \subseteq Members(proc')
  <2> SUFFICES ASSUME NEW i \in ghost.within PROVE i \in Members(proc') OBVIOUS
  <2>1. PICK q \in Pids : /\ proc[q].state = "live" /\ proc[q].group = RootPid
                          /\ i = ProcessIdentity(q, proc[q].start)
    BY <1>1, MemberIs DEF GhostOK
  <2>2. q # p BY <1>3, <2>1 DEF FreePid, Present
  <2> QED BY <1>5, <2>1, <2>2, MemberIs
<1> HIDE DEF grown
<1>15. GhostOK' BY <1>1, <1>7, <1>13, <1>14 DEF GhostOK
<1>16. RootUnreaped => RootUnreaped'
  BY <1>2, <1>3, <1>5 DEF RootUnreaped, FreePid, Present, RootPidHeld
<1>17. (RootPidHeld' /\ ~owned_group_exists) => ~owned_group_exists'
  BY <1>4, <1>5, <1>11 DEF owned_group_exists, Present
<1>18. \A q \in Pids : proc'[q].start \in {proc[q].start, births + 1} BY <1>4, <1>5
<1> QED
  BY <1>7, <1>10, <1>12, <1>13, <1>15, <1>16, <1>17, <1>18 DEF Drift

\* A step that neither starts nor reaps the root, and lets nobody into a group.
LEMMA WitnessDrifts ==
    ASSUME IInv, proc' \in [Pids -> ProcessRecords], UNCHANGED <<births, budget>>,
           DOMAIN ghost' = GhostFields, ghost'.ours = ghost.ours, ghost'.seen = ghost.seen,
           ghost'.struck = ghost.struck, ghost'.within \subseteq ghost.within,
           ghost'.within \subseteq Members(proc'),
           \A q \in Pids : proc'[q].start = proc[q].start,
           \A q \in Pids : (Present(q)' /\ proc'[q].group = RootPid)
                              => Present(q) /\ proc[q].group = RootPid,
           RootUnreaped => Present(RootPid)'
    PROVE  Drift
<1>1. KernelOK /\ GroupOK /\ GhostOK BY DEF IInv
<1>2. RootPid \in Pids BY InventoryAssumption
<1>3. RootPidHeld' <=> RootPidHeld BY <1>2 DEF RootPidHeld
<1>4. KernelOK' BY <1>1, <1>2 DEF KernelOK
<1>5. GroupOK' BY <1>1, <1>3 DEF GroupOK, IdentityOf
<1>6. GhostOK' BY <1>1 DEF GhostOK
<1>7. owned_group_exists' => owned_group_exists BY DEF owned_group_exists
<1>8. RootUnreaped => RootUnreaped' BY <1>3 DEF RootUnreaped
<1> QED BY <1>3, <1>4, <1>5, <1>6, <1>7, <1>8 DEF Drift

LEMMA KernelInvariant ==
    ASSUME IInv, Kernel PROVE IInv'
<1>1. KernelOK /\ GroupOK /\ GhostOK BY DEF IInv
<1>2. RootPid \in Pids BY InventoryAssumption
<1>3. proc \in [Pids -> ProcessRecords] BY <1>1 DEF KernelOK
<1>4. ASSUME NEW table, Witness(table)
      PROVE  /\ DOMAIN ghost' = GhostFields /\ ghost'.ours = ghost.ours
             /\ ghost'.seen = ghost.seen /\ ghost'.struck = ghost.struck
             /\ ghost'.within \subseteq ghost.within /\ ghost'.within \subseteq Members(table)
  <2> DEFINE inside == ghost.within \cap Members(table)
             beyond == ghost.outside \cap Strays(table)
  <2>1. ghost' = [ghost EXCEPT !.within = inside, !.outside = beyond] BY <1>4 DEF Witness
  <2>2. inside \subseteq ghost.within /\ inside \subseteq Members(table) OBVIOUS
  <2> HIDE DEF inside, beyond
  <2> QED BY <1>1, <2>1, <2>2 DEF GhostOK, GhostFields
<1>5. ASSUME NEW q \in Pids, NEW p \in Pids, Fork(q, p) PROVE Drift
  <2>1. proc[q] \in ProcessRecords BY <1>3
  <2>2. proc[q].group \in Pids \cup {0, Launchd} /\ q \in Pids \cup {0, Launchd}
    BY <2>1 DEF ProcessRecords
  <2> DEFINE ours == IdentityOf(q) \in ghost.ours
             group == proc[q].group
  <2>3. Birth(p, q, group, ours) /\ proc[q].state = "live" BY <1>5 DEF Fork, Alive
  <2>4. ours \in BOOLEAN OBVIOUS
  <2>5. group = RootPid => owned_group_exists /\ (RootPidHeld => ours)
    BY <1>1, <2>3 DEF owned_group_exists, Present, GroupOK
  <2> HIDE DEF ours, group
  <2>6. group \in Pids \cup {0, Launchd} BY <2>2 DEF group
  <2> QED BY <2>2, <2>3, <2>4, <2>5, <2>6, BirthDrifts
<1>6. ASSUME NEW p \in Pids, StrangerStarts(p) PROVE Drift
  <2>1. Birth(p, Launchd, p, FALSE) BY <1>6 DEF StrangerStarts
  <2> QED BY <2>1, BirthDrifts
<1>7. ASSUME NEW p \in Pids, LeaveGroup(p) PROVE Drift
  <2>1. /\ proc' = [proc EXCEPT ![p] = [@ EXCEPT !.group = p]]
        /\ p # RootPid /\ UNCHANGED <<births, budget>> /\ Witness(proc')
    BY <1>7 DEF LeaveGroup
  <2>2. /\ DOMAIN ghost' = GhostFields /\ ghost'.ours = ghost.ours
        /\ ghost'.seen = ghost.seen /\ ghost'.struck = ghost.struck
        /\ ghost'.within \subseteq ghost.within /\ ghost'.within \subseteq Members(proc')
    BY <1>4, <2>1
  <2>3. proc' \in [Pids -> ProcessRecords] BY <1>3, <2>1 DEF ProcessRecords
  <2>4. \A q \in Pids : proc'[q].start = proc[q].start /\ proc'[q].state = proc[q].state
    BY <1>3, <2>1 DEF ProcessRecords
  <2>5. \A q \in Pids : proc'[q].group = RootPid => proc[q].group = RootPid
    BY <1>3, <2>1 DEF ProcessRecords
  <2> QED BY <1>2, <2>1, <2>2, <2>3, <2>4, <2>5, WitnessDrifts DEF Present, RootUnreaped
<1>8. ASSUME NEW p \in Pids, Exit(p) PROVE Drift
  <2>1. /\ proc' = [q \in Pids |->
                       IF q = p THEN [proc[p] EXCEPT !.state = "zombie"]
                       ELSE IF proc[q].parent = p THEN [proc[q] EXCEPT !.parent = Launchd]
                       ELSE proc[q]]
        /\ UNCHANGED <<births, budget>> /\ Witness(proc') /\ proc[p].state = "live"
    BY <1>8 DEF Exit, Alive
  <2>2. /\ DOMAIN ghost' = GhostFields /\ ghost'.ours = ghost.ours
        /\ ghost'.seen = ghost.seen /\ ghost'.struck = ghost.struck
        /\ ghost'.within \subseteq ghost.within /\ ghost'.within \subseteq Members(proc')
    BY <1>4, <2>1
  <2>3. ASSUME NEW q \in Pids
        PROVE  /\ proc'[q] \in ProcessRecords /\ proc'[q].start = proc[q].start
               /\ proc'[q].group = proc[q].group
               /\ proc'[q].state # "none" <=> proc[q].state # "none"
    <3>1. proc[q] \in ProcessRecords BY <1>3
    <3> QED BY <2>1, <3>1 DEF ProcessRecords
  <2>4. proc' \in [Pids -> ProcessRecords] BY <2>1, <2>3
  <2> QED BY <1>2, <2>1, <2>2, <2>3, <2>4, WitnessDrifts DEF Present, RootUnreaped
<1>9. ASSUME NEW p \in Pids, Reap(p) PROVE Drift
  <2>1. /\ proc' = [proc EXCEPT ![p] = Gone(proc[p])] /\ proc[p].state = "zombie"
        /\ UNCHANGED <<births, budget, ghost>> /\ IdentityOf(p) # Root
    BY <1>9 DEF Reap
  <2>2. ASSUME NEW q \in Pids
        PROVE  /\ proc'[q] \in ProcessRecords /\ proc'[q].start = proc[q].start
               /\ q # p => proc'[q] = proc[q]
               /\ proc'[p].state = "none"
    <3>1. proc[q] \in ProcessRecords /\ proc[p] \in ProcessRecords BY <1>3
    <3>2. /\ Gone(proc[p]) \in ProcessRecords /\ Gone(proc[p]).start = proc[p].start
          /\ Gone(proc[p]).state = "none"
      BY <3>1 DEF Gone, ProcessRecords
    <3> QED BY <1>3, <2>1, <3>1, <3>2
  <2>3. proc' \in [Pids -> ProcessRecords] BY <1>3, <2>1, <2>2
  <2>4. ghost.within \subseteq Members(proc')
    <3> SUFFICES ASSUME NEW i \in ghost.within PROVE i \in Members(proc') OBVIOUS
    <3>1. PICK q \in Pids : /\ proc[q].state = "live" /\ proc[q].group = RootPid
                            /\ i = ProcessIdentity(q, proc[q].start)
      BY <1>1, MemberIs DEF GhostOK
    <3> QED BY <2>1, <2>2, <3>1, MemberIs
  <2>5. RootUnreaped => p # RootPid
    BY <2>1 DEF RootUnreaped, RootPidHeld, IdentityOf, Root
  <2>6. \A q \in Pids : (Present(q)' /\ proc'[q].group = RootPid)
                            => Present(q) /\ proc[q].group = RootPid
    BY <2>2 DEF Present
  <2>7. RootUnreaped => Present(RootPid)' BY <1>2, <2>2, <2>5 DEF RootUnreaped, Present
  <2>8. DOMAIN ghost' = GhostFields BY <1>1, <2>1 DEF GhostOK
  <2> QED BY <2>1, <2>2, <2>3, <2>4, <2>6, <2>7, <2>8, WitnessDrifts
<1>10. Drift BY <1>5, <1>6, <1>7, <1>8, <1>9 DEF Kernel
<1> QED BY <1>10, DriftStep DEF Kernel

-----------------------------------------------------------------------------
(* The supervisor between snapshots.                                       *)

\* A call of the supervisor that leaves the process table alone.
Calls ==
    /\ UNCHANGED <<proc, births>>
    /\ budget' = budget \/ Spend("rounds") \/ Spend("faults")
    /\ DOMAIN ghost' = GhostFields
    /\ ghost'.ours = ghost.ours /\ ghost'.seen \subseteq IdentitySet
    /\ ghost'.within \subseteq Members(proc)

LEMMA CallKeepsTable ==
    ASSUME IInv, Calls
    PROVE  /\ KernelOK' /\ GroupOK' /\ GhostOK'
           /\ RootPidHeld' <=> RootPidHeld
           /\ RootUnreaped' <=> RootUnreaped
           /\ owned_group_exists' <=> owned_group_exists
           /\ Members(proc') = Members(proc)
<1>1. KernelOK /\ GroupOK /\ GhostOK BY DEF IInv
<1>2. budget'.births = budget.births /\ DOMAIN budget' = DOMAIN budget
  BY <1>1 DEF Calls, Spend, KernelOK
<1>3. KernelOK' BY <1>1, <1>2 DEF Calls, KernelOK
<1>4. proc' = proc BY DEF Calls
<1>5. RootPidHeld' <=> RootPidHeld BY <1>4 DEF RootPidHeld
<1>6. RootUnreaped' <=> RootUnreaped BY <1>4, <1>5 DEF RootUnreaped, Present
<1>7. owned_group_exists' <=> owned_group_exists BY <1>4 DEF owned_group_exists, Present
<1>8. GroupOK' BY <1>1, <1>4, <1>5 DEF Calls, GroupOK, Present, IdentityOf
<1>9. GhostOK' BY <1>1, <1>4 DEF Calls, GhostOK
<1> QED BY <1>3, <1>4, <1>5, <1>6, <1>7, <1>8, <1>9

\* The ghosts of a call that leaves them alone.
LEMMA QuietCalls ==
    ASSUME IInv, UNCHANGED <<proc, births, ghost>>,
           budget' = budget \/ Spend("rounds") \/ Spend("faults")
    PROVE  Calls /\ (GhostOK /\ TrackerOK /\ LatchOK)
BY DEF IInv, Calls, GhostOK

\* Between snapshots nothing of the last one is kept.
LEMMA Rests ==
    ASSUME NEW pc \in Resting \cup {"kill"}, sup' = Idle(pc)
    PROVE  /\ SnapshotOK' /\ ReadOK' /\ ObservedOK' /\ CoverOK'
           /\ sup'.pc = pc /\ sup'.mode = "sample"
<1>1. /\ DOMAIN sup' = SupFields /\ sup'.pc = pc /\ sup'.mode = "sample"
      /\ sup'.relevant = {} /\ sup'.todo = {} /\ sup'.observations = {}
  BY DEF Idle, SupFields
<1>2. pc \notin Reading \cup {"group", "children", "end"} /\ pc \in Phases
  BY DEF Resting, Reading, Phases
<1>3. SnapshotOK' BY <1>1, <1>2 DEF SnapshotOK, Reading, Identities
<1>4. ReadOK' /\ ObservedOK' /\ CoverOK'
  BY <1>1, <1>2 DEF ReadOK, ObservedOK, CoverOK, Reading
<1> QED BY <1>1, <1>3, <1>4

LEMMA PollStep ==
    ASSUME IInv, Poll PROVE IInv'
<1>1. /\ KernelOK /\ GroupOK /\ GhostOK /\ TrackerOK /\ SampleOK /\ EndpointOK /\ CleanupOK
      /\ LatchOK
  BY DEF IInv
<1>2. RootPid \in Pids /\ proc \in [Pids -> ProcessRecords]
  BY <1>1, InventoryAssumption DEF KernelOK
<1> DEFINE zombie == proc[RootPid].state = "zombie" /\ IdentityOf(RootPid) = Root
           pc == IF root_outcome' /\ ~owned_group_exists' THEN "over" ELSE "work"
<1>3. /\ proc' = IF zombie THEN [proc EXCEPT ![RootPid] = Gone(proc[RootPid])] ELSE proc
      /\ root_outcome' = (root_outcome \/ zombie)
      /\ sup' = Idle(pc) /\ sup.pc = "poll"
      /\ UNCHANGED <<births, tracker, sample, escape_detected, report, budget, ghost>>
  BY DEF Poll
<1>4. pc \in Resting \cup {"kill"} /\ pc # "kill" BY DEF Resting
<1> HIDE DEF pc
<1>5. SnapshotOK' /\ ReadOK' /\ ObservedOK' /\ CoverOK' /\ sup'.pc = pc /\ sup'.mode = "sample"
  BY <1>3, <1>4, Rests
<1>6. /\ Gone(proc[RootPid]) \in ProcessRecords
      /\ Gone(proc[RootPid]).start = proc[RootPid].start /\ Gone(proc[RootPid]).state = "none"
  <2>1. proc[RootPid] \in ProcessRecords BY <1>2
  <2> QED BY <2>1 DEF Gone, ProcessRecords
<1>7. /\ proc' \in [Pids -> ProcessRecords]
      /\ \A q \in Pids : proc'[q].start = proc[q].start
      /\ \A q \in Pids : proc'[q] = proc[q] \/ (proc'[q].state = "none" /\ proc[q].state = "zombie")
  BY <1>2, <1>3, <1>6
<1> HIDE DEF zombie
<1>8. RootPidHeld' <=> RootPidHeld BY <1>2, <1>7 DEF RootPidHeld
<1>9. KernelOK' BY <1>1, <1>2, <1>3, <1>7 DEF KernelOK
<1>10. GroupOK' BY <1>1, <1>3, <1>7, <1>8 DEF GroupOK, Present, IdentityOf
<1>11. ghost.within \subseteq Members(proc')
  <2> SUFFICES ASSUME NEW i \in ghost.within PROVE i \in Members(proc') OBVIOUS
  <2>1. PICK q \in Pids : /\ proc[q].state = "live" /\ proc[q].group = RootPid
                          /\ i = ProcessIdentity(q, proc[q].start)
    BY <1>1, MemberIs DEF GhostOK
  <2> QED BY <1>7, <2>1, MemberIs
<1>12. GhostOK' BY <1>1, <1>3, <1>11 DEF GhostOK
<1>13. TrackerOK' BY <1>1, <1>3 DEF TrackerOK
<1>14. SampleOK' BY <1>1, <1>3, <1>8 DEF SampleOK, MembersAreOurs, CompleteMeansAll
<1>15. EndpointOK' BY <1>1, <1>3, <1>4, <1>5 DEF EndpointOK, SignalReachesRoot
<1>16. CleanupOK' BY <1>1, <1>3 DEF CleanupOK, CleanupIsHonest
<1>17. LatchOK' BY <1>1, <1>3 DEF LatchOK, zombie
<1> QED
  BY <1>5, <1>9, <1>10, <1>12, <1>13, <1>14, <1>15, <1>16, <1>17 DEF IInv

\* A step that ends in a resting place and reports nothing new.
LEMMA RestStep ==
    ASSUME IInv, Calls, NEW pc \in Resting, sup' = Idle(pc),
           UNCHANGED <<tracker, report>>, ghost'.seen = ghost.seen,
           ghost'.struck \subseteq {Root},
           report # None => pc = "returned",
           SampleOK', LatchOK'
    PROVE  IInv'
<1>1. TrackerOK /\ CleanupOK BY DEF IInv
<1>2. KernelOK' /\ GroupOK' /\ GhostOK' /\ (RootPidHeld' <=> RootPidHeld)
      /\ (owned_group_exists' <=> owned_group_exists)
  BY CallKeepsTable
<1>3. SnapshotOK' /\ ReadOK' /\ ObservedOK' /\ CoverOK' /\ sup'.pc = pc /\ sup'.mode = "sample"
  BY Rests
<1>4. pc # "kill" BY DEF Resting
<1>5. TrackerOK' BY <1>1 DEF TrackerOK
<1>6. EndpointOK' BY <1>3, <1>4 DEF EndpointOK, SignalReachesRoot
<1>7. CleanupOK' BY <1>1, <1>2, <1>3 DEF CleanupOK, CleanupIsHonest
<1> QED BY <1>2, <1>3, <1>5, <1>6, <1>7 DEF IInv

\* The sample stays true while the table and its witnesses stay.
LEMMA SampleStays ==
    ASSUME IInv, Calls, UNCHANGED sample, ghost'.within = ghost.within
    PROVE  SampleOK'
<1>1. SampleOK BY DEF IInv
<1>2. RootPidHeld' <=> RootPidHeld BY CallKeepsTable
<1> QED BY <1>1, <1>2 DEF SampleOK, MembersAreOurs, CompleteMeansAll, Calls

\* A step into a snapshot, whose first call has not been made.
LEMMA StartSnapshotStep ==
    ASSUME IInv, NEW mode \in {"sample", "cleanup"}, NEW from \in SUBSET {"work", "over", "again"},
           StartSnapshot(mode, from)
    PROVE  IInv'
<1>1. GhostOK /\ TrackerOK /\ EndpointOK /\ CleanupOK /\ LatchOK BY DEF IInv
<1> DEFINE inside == Members(proc)
           beyond == Strays(proc)
           scope == snapshot_scope
<1>2. /\ sup.pc \in from /\ Spend("rounds") /\ sample' = None
      /\ sup' = [Idle("group") EXCEPT !.mode = mode, !.relevant = scope]
      /\ ghost' = [ghost EXCEPT !.within = inside, !.outside = beyond]
      /\ UNCHANGED <<proc, births, tracker, root_outcome, escape_detected, report>>
  BY DEF StartSnapshot, kernel
<1>3. scope \subseteq Pids /\ RootPid \in scope
  BY <1>1, InventoryAssumption DEF snapshot_scope, TrackerOK, IdentitySet
<1> HIDE DEF inside, beyond, scope
<1>4. /\ DOMAIN ghost' = GhostFields /\ ghost'.ours = ghost.ours /\ ghost'.seen = ghost.seen
      /\ ghost'.struck = ghost.struck /\ ghost'.within = inside
  BY <1>1, <1>2 DEF GhostOK, GhostFields
<1>5. Calls BY <1>1, <1>2, <1>4 DEF Calls, GhostOK, inside
<1>6. KernelOK' /\ GroupOK' /\ GhostOK' BY <1>5, CallKeepsTable
<1>7. /\ DOMAIN sup' = SupFields /\ sup'.pc = "group" /\ sup'.mode = mode
      /\ sup'.relevant = scope /\ sup'.todo = {} /\ sup'.observations = {}
  BY <1>2 DEF Idle, SupFields
<1>8. SnapshotOK' BY <1>3, <1>7 DEF SnapshotOK, Phases, Reading, Identities
<1>9. ReadOK' /\ ObservedOK' /\ CoverOK' BY <1>7 DEF ReadOK, ObservedOK, CoverOK, Reading
<1>10. TrackerOK' BY <1>1, <1>2, <1>4 DEF TrackerOK
<1>11. SampleOK' BY <1>2 DEF SampleOK, MembersAreOurs, CompleteMeansAll
<1>12. EndpointOK' BY <1>1, <1>4, <1>7 DEF EndpointOK, SignalReachesRoot
<1>13. CleanupOK' BY <1>1, <1>2 DEF CleanupOK, CleanupIsHonest
<1>14. LatchOK' BY <1>1, <1>2 DEF LatchOK
<1> QED BY <1>6, <1>8, <1>9, <1>10, <1>11, <1>12, <1>13, <1>14 DEF IInv

-----------------------------------------------------------------------------
(* The snapshot: two kinds of listing, then three reads of every pid.      *)

\* A call of a snapshot in progress: only the supervisor's place changes.
LEMMA SnapshotCall ==
    ASSUME IInv, UNCHANGED quiet, budget' = budget \/ Spend("faults"),
           sup.pc \in Reading \cup {"group", "children"},
           SnapshotOK', ReadOK', ObservedOK', CoverOK', sup'.pc # "kill",
           (sup'.mode = "signal" /\ \E o \in sup'.observations : o.identity = Root)
               => RootUnreaped
    PROVE  IInv'
<1>1. TrackerOK /\ EndpointOK /\ CleanupOK /\ LatchOK BY DEF IInv
<1>2. UNCHANGED <<proc, births, tracker, root_outcome, sample, escape_detected, report, ghost>>
  BY DEF quiet, kernel
<1>3. Calls BY <1>2, QuietCalls
<1>4. KernelOK' /\ GroupOK' /\ GhostOK' /\ (RootUnreaped' <=> RootUnreaped)
  BY <1>3, CallKeepsTable
<1>5. SampleOK' BY <1>2, <1>3, SampleStays
<1>6. TrackerOK' BY <1>1, <1>2 DEF TrackerOK
<1>7. EndpointOK' BY <1>1, <1>2, <1>4 DEF EndpointOK, SignalReachesRoot
<1>8. CleanupOK' BY <1>1, <1>2 DEF CleanupOK, CleanupIsHonest, Reading
<1>9. LatchOK' BY <1>1, <1>2 DEF LatchOK
<1> QED BY <1>4, <1>5, <1>6, <1>7, <1>8, <1>9 DEF IInv

LEMMA ListedStep ==
    ASSUME IInv, UNCHANGED <<quiet, budget>>, sup.pc \in {"group", "children"},
           NEW pids \in SUBSET Pids, NEW pending,
           \A i \in ghost.within : i.pid \in sup.relevant \cup pids,
           Listed(sup.relevant \cup pids, pending)
    PROVE  IInv'
<1> DEFINE listed == sup.relevant \cup pids
<1>1. SnapshotOK /\ ObservedOK BY DEF IInv
<1>2. listed \subseteq Pids /\ RootPid \in listed /\ (\A i \in ghost.within : i.pid \in listed)
  BY <1>1 DEF SnapshotOK
<1>3. sup.mode # "signal" /\ sup.mode \in {"sample", "cleanup", "signal"}
  BY <1>1 DEF SnapshotOK, Reading
<1>4. sup' = IF pending = << >> THEN [Idle("first") EXCEPT !.mode = sup.mode, !.todo = listed]
             ELSE [sup EXCEPT !.pc = "children", !.relevant = listed, !.pending = pending]
  BY DEF Listed
<1> HIDE DEF listed
<1>5. UNCHANGED <<proc, ghost>> BY DEF quiet, kernel
<1>6. CASE pending = << >>
  <2>1. /\ DOMAIN sup' = SupFields /\ sup'.pc = "first" /\ sup'.mode = sup.mode
        /\ sup'.relevant = {} /\ sup'.todo = listed /\ sup'.observations = {}
    BY <1>4, <1>6 DEF Idle, SupFields
  <2>2. SnapshotOK' BY <1>2, <1>3, <2>1 DEF SnapshotOK, Phases, Reading, Identities
  <2>3. ReadOK' /\ ObservedOK' BY <2>1 DEF ReadOK, ObservedOK
  <2>4. CoverOK' BY <1>2, <1>5, <2>1 DEF CoverOK
  <2> QED BY <1>3, <2>1, <2>2, <2>3, <2>4, SnapshotCall DEF Reading
<1>7. CASE pending # << >>
  <2>1. /\ DOMAIN sup' = SupFields /\ sup'.pc = "children" /\ sup'.mode = sup.mode
        /\ sup'.relevant = listed /\ sup'.todo = sup.todo /\ sup'.observations = sup.observations
    BY <1>1, <1>4, <1>7 DEF SnapshotOK, SupFields
  <2>2. SnapshotOK' BY <1>1, <1>2, <1>3, <2>1 DEF SnapshotOK, Phases, Reading
  <2>3. ReadOK' BY <2>1 DEF ReadOK
  <2>4. ObservedOK' BY <1>1, <1>5, <2>1 DEF ObservedOK, RootPidHeld
  <2>5. CoverOK' BY <1>2, <1>5, <2>1 DEF CoverOK, Reading
  <2> QED BY <1>3, <2>1, <2>2, <2>3, <2>4, <2>5, SnapshotCall DEF Reading
<1> QED BY <1>6, <1>7

\* The group's listing holds whoever is alive in the group.
LEMMA ListGroupStep ==
    ASSUME IInv, ListGroup PROVE IInv'
<1>1. GhostOK BY DEF IInv
<1>2. PICK pids \in list_related_pids("group", RootPid) :
          Listed(sup.relevant \cup pids, Ascending(sup.relevant \cup pids))
  BY DEF ListGroup
<1>3. /\ pids \subseteq Pids
      /\ \A p \in Pids : (proc[p].state = "live" /\ proc[p].group = RootPid) => p \in pids
  BY <1>2 DEF list_related_pids
<1>4. \A i \in ghost.within : i.pid \in sup.relevant \cup pids
  <2> SUFFICES ASSUME NEW i \in ghost.within PROVE i.pid \in pids OBVIOUS
  <2>1. PICK q \in Pids : /\ proc[q].state = "live" /\ proc[q].group = RootPid
                          /\ i = ProcessIdentity(q, proc[q].start)
    BY <1>1, MemberIs DEF GhostOK
  <2> QED BY <1>3, <2>1, IdentityFields
<1> QED BY <1>2, <1>3, <1>4, ListedStep DEF ListGroup

LEMMA ListChildrenStep ==
    ASSUME IInv, ListChildren PROVE IInv'
<1>1. CoverOK BY DEF IInv
<1>2. PICK pids \in list_related_pids("parent", Head(sup.pending)) :
          Listed(sup.relevant \cup pids, Tail(sup.pending) \o Ascending(pids \ sup.relevant))
  BY DEF ListChildren
<1>3. pids \subseteq Pids BY <1>2 DEF list_related_pids
<1>4. \A i \in ghost.within : i.pid \in sup.relevant \cup pids
  BY <1>1 DEF CoverOK, ListChildren
<1> QED BY <1>2, <1>3, <1>4, ListedStep DEF ListChildren

\* Who stayed in the group and has the pid being read is the process found there.
LEMMA StayedIsRead ==
    ASSUME IInv, sup.pc \in Reading, NEW i \in ghost.within, i.pid = Pid
    PROVE  proc[Pid].state = "live" /\ proc[Pid].group = RootPid /\ i = IdentityOf(Pid)
<1>1. PICK q \in Pids : /\ proc[q].state = "live" /\ proc[q].group = RootPid
                        /\ i = ProcessIdentity(q, proc[q].start)
  BY MemberIs DEF IInv, GhostOK
<1>2. q = Pid BY <1>1, IdentityFields
<1> QED BY <1>1, <1>2 DEF IdentityOf

LEMMA IdentityIsTyped ==
    ASSUME IInv, NEW p \in Pids PROVE IdentityOf(p) \in IdentitySet
<1>1. proc[p].start \in Nat /\ proc[p].start <= births /\ births \in Nat
      /\ births + budget.births <= MaxBirths + 1 /\ budget.births \in Nat /\ MaxBirths \in Nat
  BY InventoryAssumption DEF IInv, KernelOK, ProcessRecords
<1>2. proc[p].start \in 0 .. MaxBirths + 1 BY <1>1
<1> QED BY <1>2, IdentityFields DEF IdentityOf

\* The pid is done with, and the next one comes.
Advances ==
    /\ DOMAIN sup' = SupFields
    /\ sup'.pc = (IF sup.todo = {Pid} THEN "end" ELSE "first")
    /\ sup'.mode = sup.mode /\ sup'.relevant = sup.relevant
    /\ sup'.todo = sup.todo \ {Pid}
    /\ sup.observations \subseteq sup'.observations
    /\ sup.failures \subseteq sup'.failures

LEMMA AdvanceStep ==
    ASSUME IInv, UNCHANGED quiet, budget' = budget \/ Spend("faults"), sup.pc \in Reading,
           Advances, Identities(sup'.observations) \subseteq IdentitySet, ObservedOK',
           sup.mode # "signal" =>
               \A i \in ghost.within : i.pid = Pid => Read(i)' \/ Missed',
           (sup.mode = "signal" /\ \E o \in sup'.observations : o.identity = Root)
               => RootUnreaped
    PROVE  IInv'
<1>1. SnapshotOK /\ CoverOK BY DEF IInv
<1>2. Pid \in sup.todo /\ Pid \in Pids BY <1>1, PidIsListed
<1>3. sup'.pc \in {"end", "first"} BY DEF Advances
<1>4. SnapshotOK'
  <2>1. sup'.pc \in Reading => sup'.todo # {} BY <1>2 DEF Advances, Reading
  <2>2. sup'.pc = "end" => sup'.todo = {} BY DEF Advances
  <2> QED BY <1>1, <1>3, <2>1, <2>2 DEF SnapshotOK, Phases, Reading, Advances
<1>5. ReadOK' BY <1>3 DEF ReadOK
<1>6. CoverOK'
  <2>1. ghost' = ghost BY DEF quiet
  <2>2. ASSUME sup.mode # "signal", NEW i \in ghost.within
        PROVE  i.pid \in sup'.todo \/ Read(i)' \/ Missed'
    <3>1. i.pid \in sup.todo \/ Read(i) \/ Missed BY <1>1, <2>2 DEF CoverOK
    <3>2. CASE i.pid \in sup.todo BY <2>2, <3>2 DEF Advances
    <3>3. CASE Read(i) BY <3>3 DEF Advances, Read
    <3>4. CASE Missed BY <3>4 DEF Advances, Missed
    <3> QED BY <3>1, <3>2, <3>3, <3>4
  <2> QED BY <1>3, <2>1, <2>2 DEF CoverOK, Advances
<1> QED BY <1>3, <1>4, <1>5, <1>6, SnapshotCall DEF Advances

\* A failure to read a pid whose process is gone, or one that makes the sample partial.
LEMMA FailedStep ==
    ASSUME IInv, UNCHANGED quiet, budget' = budget \/ Spend("faults"), sup.pc \in Reading,
           NEW kind, Failed(kind), kind = "Disappeared" => proc[Pid].state # "live"
    PROVE  IInv'
<1>1. SnapshotOK /\ ObservedOK /\ EndpointOK BY DEF IInv
<1> DEFINE after == IF sup.todo = {Pid} THEN "end" ELSE "first"
           left == sup.todo \ {Pid}
           failures == sup.failures \cup {ObservationFailure(Pid, kind)}
<1>2. sup' = [[sup EXCEPT !.pc = after, !.todo = left, !.first = None, !.bsd = None]
                 EXCEPT !.failures = failures]
  BY <1>1 DEF Failed, Next_pid, SnapshotOK, SupFields
<1>3. sup.failures \subseteq failures
      /\ ObservationFailure(Pid, kind) \in failures /\ ObservationFailure(Pid, kind).kind = kind
  BY DEF ObservationFailure
<1> HIDE DEF after, left, failures
<1>4. /\ DOMAIN sup' = SupFields /\ sup'.pc = after /\ sup'.mode = sup.mode
      /\ sup'.relevant = sup.relevant /\ sup'.todo = left
      /\ sup'.observations = sup.observations /\ sup'.failures = failures
  BY <1>1, <1>2 DEF SnapshotOK, SupFields
<1>5. Advances BY <1>3, <1>4 DEF Advances, after, left
<1>6. ObservedOK' BY <1>1, <1>4 DEF ObservedOK, RootPidHeld, quiet, kernel
<1>7. \A i \in ghost.within : i.pid = Pid => Read(i)' \/ Missed'
  <2>1. CASE kind = "Disappeared" BY <2>1, StayedIsRead
  <2>2. CASE kind # "Disappeared" BY <1>3, <1>4, <2>2 DEF Missed
  <2> QED BY <2>1, <2>2
<1>8. Identities(sup'.observations) \subseteq IdentitySet BY <1>1, <1>4 DEF SnapshotOK
<1>9. (sup.mode = "signal" /\ \E o \in sup'.observations : o.identity = Root) => RootUnreaped
  BY <1>1, <1>4 DEF EndpointOK
<1> QED BY <1>5, <1>6, <1>7, <1>8, <1>9, AdvanceStep

\* An observation of the process that has the pid.
LEMMA ObservedStep ==
    ASSUME IInv, UNCHANGED <<quiet, budget>>, sup.pc \in Reading, Present(Pid),
           NEW parent, NEW group, NEW exited \in BOOLEAN,
           Observed(IdentityOf(Pid), parent, group, exited),
           (~exited /\ group = RootPid /\ RootPidHeld) => IdentityOf(Pid) \in ghost.ours,
           \A i \in ghost.within : i.pid = Pid => ~exited /\ (sup.mode = "signal" \/ group = RootPid)
    PROVE  IInv'
<1>1. SnapshotOK /\ ObservedOK /\ EndpointOK /\ KernelOK BY DEF IInv
<1>2. Pid \in Pids BY <1>1, PidIsListed
<1> DEFINE after == IF sup.todo = {Pid} THEN "end" ELSE "first"
           left == sup.todo \ {Pid}
           it == ProcessObservation(IdentityOf(Pid), parent, group, 1, exited)
           found == sup.observations \cup {it}
<1>3. sup' = [[sup EXCEPT !.pc = after, !.todo = left, !.first = None, !.bsd = None]
                 EXCEPT !.observations = found]
  BY <1>1 DEF Observed, Next_pid, SnapshotOK, SupFields
<1>4. it.identity = IdentityOf(Pid) /\ it.process_group_id = group /\ it.exited = exited
  BY DEF ProcessObservation
<1> HIDE DEF after, left, it, found
<1>5. /\ DOMAIN sup' = SupFields /\ sup'.pc = after /\ sup'.mode = sup.mode
      /\ sup'.relevant = sup.relevant /\ sup'.todo = left
      /\ sup'.observations = found /\ sup'.failures = sup.failures
  BY <1>1, <1>3 DEF SnapshotOK, SupFields
<1>6. Advances BY <1>5 DEF Advances, after, left, found
<1>7. UNCHANGED <<proc, ghost>> BY DEF quiet, kernel
<1>8. ObservedOK' BY <1>1, <1>4, <1>5, <1>7 DEF ObservedOK, RootPidHeld, found
<1>9. Identities(sup'.observations) \subseteq IdentitySet
  BY <1>1, <1>2, <1>4, <1>5, IdentityIsTyped DEF SnapshotOK, Identities, found
<1>10. (sup.mode = "signal" /\ \E o \in sup'.observations : o.identity = Root) => RootUnreaped
  <2>1. IdentityOf(Pid) = Root => RootUnreaped
    BY <1>2, IdentityFields DEF IdentityOf, Root, RootUnreaped, RootPidHeld
  <2> QED BY <1>1, <1>4, <1>5, <2>1 DEF EndpointOK, found
<1>11. sup.mode # "signal" => \A i \in ghost.within : i.pid = Pid => Read(i)'
  BY <1>4, <1>5, StayedIsRead DEF Read, found
<1> QED BY <1>6, <1>8, <1>9, <1>10, <1>11, AdvanceStep

LEMMA FirstRusageStep ==
    ASSUME IInv, FirstRusage PROVE IInv'
<1>1. SnapshotOK /\ ObservedOK /\ CoverOK /\ EndpointOK /\ KernelOK BY DEF IInv
<1>2. sup.pc = "first" /\ sup.pc \in Reading /\ UNCHANGED <<quiet, budget>>
  BY DEF FirstRusage, Reading
<1>3. Pid \in Pids BY <1>1, <1>2, PidIsListed
<1>4. CASE ~Present(Pid) /\ Failed("Disappeared")
  BY <1>2, <1>4, FailedStep DEF Present
<1>5. CASE proc[Pid].state = "zombie" /\ Observed(IdentityOf(Pid), 0, 0, TRUE)
  <2>1. Present(Pid) BY <1>5 DEF Present
  <2>2. \A i \in ghost.within : i.pid # Pid BY <1>2, <1>5, StayedIsRead
  <2> QED BY <1>2, <1>5, <2>1, <2>2, ObservedStep
<1>6. CASE Alive(proc, Pid) /\ sup' = [sup EXCEPT !.pc = "bsd", !.first = proc[Pid].start]
  <2>1. /\ DOMAIN sup' = SupFields /\ sup'.pc = "bsd" /\ sup'.mode = sup.mode
        /\ sup'.relevant = sup.relevant /\ sup'.todo = sup.todo
        /\ sup'.observations = sup.observations /\ sup'.failures = sup.failures
        /\ sup'.first = proc[Pid].start
    BY <1>1, <1>6 DEF SnapshotOK, SupFields
  <2>2. UNCHANGED <<proc, ghost>> /\ Pid' = Pid BY <1>2, <2>1 DEF quiet, kernel, Pid
  <2>3. SnapshotOK' BY <1>1, <1>2, <2>1 DEF SnapshotOK, Phases, Reading
  <2>4. proc[Pid].start \in Nat BY <1>1, <1>3 DEF KernelOK, ProcessRecords
  <2>5. ReadOK' BY <2>1, <2>2, <2>4 DEF ReadOK
  <2>6. ObservedOK' BY <1>1, <2>1, <2>2 DEF ObservedOK, RootPidHeld
  <2>7. CoverOK' BY <1>1, <1>2, <2>1, <2>2 DEF CoverOK, Read, Missed, Reading
  <2>8. (sup'.mode = "signal" /\ \E o \in sup'.observations : o.identity = Root) => RootUnreaped
    BY <1>1, <2>1 DEF EndpointOK
  <2> QED BY <1>2, <2>1, <2>3, <2>5, <2>6, <2>7, <2>8, SnapshotCall
<1> QED BY <1>4, <1>5, <1>6 DEF FirstRusage

\* The group is read of whoever has the pid now, which its token will tell.
LEMMA BsdInfoStep ==
    ASSUME IInv, BsdInfo PROVE IInv'
<1>1. SnapshotOK /\ ObservedOK /\ CoverOK /\ EndpointOK /\ KernelOK /\ ReadOK /\ GroupOK
  BY DEF IInv
<1>2. sup.pc = "bsd" /\ sup.pc \in Reading /\ UNCHANGED <<quiet, budget>>
  BY DEF BsdInfo, Reading
<1>3. Pid \in Pids BY <1>1, <1>2, PidIsListed
<1>4. CASE ~Alive(proc, Pid) /\ Failed("Disappeared")
  BY <1>2, <1>4, FailedStep DEF Alive
<1> DEFINE info == [parent |-> proc[Pid].parent, group |-> proc[Pid].group]
<1>5. CASE Alive(proc, Pid) /\ sup' = [sup EXCEPT !.pc = "second", !.bsd = info]
  <2>1. info.group = proc[Pid].group OBVIOUS
  <2> HIDE DEF info
  <2>2. /\ DOMAIN sup' = SupFields /\ sup'.pc = "second" /\ sup'.mode = sup.mode
        /\ sup'.relevant = sup.relevant /\ sup'.todo = sup.todo
        /\ sup'.observations = sup.observations /\ sup'.failures = sup.failures
        /\ sup'.first = sup.first /\ sup'.bsd.group = proc[Pid].group
    BY <1>1, <1>5, <2>1 DEF SnapshotOK, SupFields
  <2>3. UNCHANGED <<proc, ghost>> /\ Pid' = Pid BY <1>2, <2>2 DEF quiet, kernel, Pid
  <2>4. SnapshotOK' BY <1>1, <1>2, <2>2 DEF SnapshotOK, Phases, Reading
  <2>5. sup.first \in Nat /\ sup.first <= proc[Pid].start BY <1>1, <1>2 DEF ReadOK
  <2>6. (proc[Pid].group = RootPid /\ RootPidHeld) => IdentityOf(Pid) \in ghost.ours
    BY <1>1, <1>3, <1>5 DEF GroupOK, Alive, Present
  <2>7. ReadOK' BY <2>2, <2>3, <2>5, <2>6 DEF ReadOK, RootPidHeld, IdentityOf
  <2>8. ObservedOK' BY <1>1, <2>2, <2>3 DEF ObservedOK, RootPidHeld
  <2>9. \A i \in ghost.within : i.pid = Pid => proc[Pid].group = RootPid
    BY <1>2, StayedIsRead
  <2>10. CoverOK' BY <1>1, <1>2, <2>2, <2>3, <2>9 DEF CoverOK, Read, Missed, Reading
  <2>11. (sup'.mode = "signal" /\ \E o \in sup'.observations : o.identity = Root) => RootUnreaped
    BY <1>1, <2>2 DEF EndpointOK
  <2> QED BY <1>2, <2>2, <2>4, <2>7, <2>8, <2>10, <2>11, SnapshotCall
<1> QED BY <1>4, <1>5 DEF BsdInfo

\* The same token as before the group was read: the group is this process's.
LEMMA SecondRusageStep ==
    ASSUME IInv, SecondRusage PROVE IInv'
<1>1. SnapshotOK /\ CoverOK /\ ReadOK BY DEF IInv
<1>2. sup.pc = "second" /\ sup.pc \in Reading /\ UNCHANGED <<quiet, budget>>
  BY DEF SecondRusage, Reading
<1>3. CASE ~Present(Pid) /\ Failed("Disappeared")
  BY <1>2, <1>3, FailedStep DEF Present
<1>4. CASE Failed("StaleIdentity")
  BY <1>2, <1>4, FailedStep
<1> DEFINE exited == proc[Pid].state = "zombie"
<1>5. CASE /\ Present(Pid) /\ same_start(sup.first, proc[Pid].start)
           /\ Observed(IdentityOf(Pid), sup.bsd.parent, sup.bsd.group, exited)
  <2>1. exited \in BOOLEAN OBVIOUS
  <2>2. (~exited /\ sup.bsd.group = RootPid /\ RootPidHeld) => IdentityOf(Pid) \in ghost.ours
    BY <1>1, <1>2, <1>5 DEF ReadOK, same_start
  <2>3. \A i \in ghost.within :
           i.pid = Pid => ~exited /\ (sup.mode = "signal" \/ sup.bsd.group = RootPid)
    BY <1>1, <1>2, StayedIsRead DEF CoverOK
  <2> HIDE DEF exited
  <2> QED BY <1>2, <1>5, <2>1, <2>2, <2>3, ObservedStep
<1> QED BY <1>3, <1>4, <1>5 DEF SecondRusage

LEMMA DeniedStep ==
    ASSUME IInv, Denied PROVE IInv'
BY FailedStep DEF Denied, Reading

-----------------------------------------------------------------------------
(* What update makes of a snapshot.                                        *)

LEMMA RetainedNone ==
    ASSUME NEW escaped, NEW leaving \in SUBSET IdentitySet,
           retain_escaped(escaped, leaving) = {}
    PROVE  escaped = {} /\ leaving = {}
<1>1. escaped = {} BY DEF retain_escaped
<1>2. Cardinality({}) = 0 BY FS_EmptySet
<1>3. {i \in leaving : Cardinality({j \in leaving : j.pid < i.pid}) < MAX_ESCAPED_EVIDENCE} = {}
  <2>1. leaving \ {} = leaving /\ MAX_ESCAPED_EVIDENCE - 0 = MAX_ESCAPED_EVIDENCE
    BY IdentityAssumption
  <2> QED BY <1>1, <1>2, <2>1 DEF retain_escaped
<1>4. ASSUME leaving # {} PROVE FALSE
  <2> DEFINE pids == {i.pid : i \in leaving}
  <2>1. \A i \in leaving : i.pid \in Pids BY DEF IdentitySet
  <2>2. \A i \in leaving : i.pid \in Nat BY <2>1, InventoryAssumption
  <2>3. pids \in SUBSET Nat /\ (\A i \in leaving : i.pid \in pids)
        /\ (\A n \in pids : \E i \in leaving : i.pid = n)
    BY <2>2
  <2> HIDE DEF pids
  <2>4. PICK n \in pids : \A m \in pids : n <= m BY <1>4, <2>3, Smallest
  <2>5. PICK i \in leaving : i.pid = n BY <2>3, <2>4
  <2>6. ASSUME NEW j \in leaving PROVE ~(j.pid < i.pid)
    BY <2>2, <2>3, <2>4, <2>5
  <2>7. {j \in leaving : j.pid < i.pid} = {} BY <2>6
  <2>8. Cardinality({j \in leaving : j.pid < i.pid}) < MAX_ESCAPED_EVIDENCE
    BY <1>2, <2>7, IdentityAssumption
  <2> QED BY <1>3, <2>8
<1> QED BY <1>1, <1>4

\* The tracker keeps who was observed, and has no evidence only if nobody ever left.
LEMMA UpdatedTracker ==
    ASSUME TrackerOK, Identities(sup.observations) \subseteq IdentitySet
    PROVE  LET next == update(tracker, sup.observations, sup.failures).tracker
           IN /\ DOMAIN next = DOMAIN tracker
              /\ next.root = Root /\ next.owned_group = RootPid
              /\ DOMAIN next.tracked \subseteq IdentitySet
              /\ next.escaped \subseteq IdentitySet
              /\ next.escaped = {} => tracker.escaped = {} /\ Leaving(sup.observations) = {}
<1> DEFINE kept == relevant(tracker, sup.observations)
           leaving == Leaving(sup.observations)
           marks == [i \in Identities(kept) |-> counted_before(tracker, i) \/ i \in leaving]
           evidence == retain_escaped(tracker.escaped, leaving)
           count == tracker.escaped_count + Cardinality(newly_counted(tracker, leaving))
           seen == tracker.root_exit_observed
                   \/ \E o \in {o \in sup.observations : o.identity = tracker.root} : o.exited
<1>1. update(tracker, sup.observations, sup.failures).tracker =
        [tracker EXCEPT !.tracked = marks, !.escaped = evidence, !.escaped_count = count,
                        !.root_exit_observed = seen]
  BY DEF update, Leaving
<1>2. DOMAIN marks \subseteq IdentitySet /\ leaving \subseteq IdentitySet
  BY DEF relevant, Leaving, Identities
<1>3. evidence \subseteq IdentitySet
  BY <1>2 DEF retain_escaped, TrackerOK
<1>4. evidence = {} => tracker.escaped = {} /\ leaving = {} BY <1>2, RetainedNone
<1> HIDE DEF marks, evidence, count, seen, leaving
<1> QED BY <1>1, <1>2, <1>3, <1>4 DEF TrackerOK, leaving

LEMMA OwnedMembers ==
    ASSUME IInv
    PROVE  LET frame == update(tracker, sup.observations, sup.failures).frame
           IN /\ RootPidHeld => Identities(frame.owned_members) \subseteq ghost.ours
              /\ \A i : Read(i) => i \in Identities(frame.owned_members)
              /\ frame.aggregate_footprint.kind = "Complete" => ~Missed
<1>1. TrackerOK /\ ObservedOK /\ GhostOK BY DEF IInv
<1> DEFINE kept == relevant(tracker, sup.observations)
           leaving == {o \in kept : escaping(tracker, o)}
           members == {o \in kept \ leaving : ~o.exited}
           failed == relevant_failures(tracker, sup.failures)
           root_seen == {o \in sup.observations : o.identity = tracker.root}
           exit_seen == tracker.root_exit_observed \/ \E o \in root_seen : o.exited
           total == aggregate(members, failed, DOMAIN tracker.tracked, tracker.root,
                              root_seen # {} \/ exit_seen)
<1>2. /\ update(tracker, sup.observations, sup.failures).frame.owned_members = members
      /\ update(tracker, sup.observations, sup.failures).frame.aggregate_footprint = total
  BY DEF update
<1>3. tracker.root = Root /\ tracker.owned_group = RootPid BY <1>1 DEF TrackerOK
<1>4. RootPidHeld => Identities(members) \subseteq ghost.ours
  <2> SUFFICES ASSUME RootPidHeld, NEW o \in members PROVE o.identity \in ghost.ours
    BY DEF Identities
  <2>1. o \in sup.observations /\ ~o.exited /\ ~escaping(tracker, o) BY DEF relevant
  <2>2. o.identity = Root \/ o.process_group_id = RootPid BY <1>3, <2>1 DEF escaping
  <2> QED BY <1>1, <2>1, <2>2 DEF ObservedOK, GhostOK
<1>5. \A i : Read(i) => i \in Identities(members)
  <2> SUFFICES ASSUME NEW o \in sup.observations, ~o.exited, o.process_group_id = RootPid
               PROVE  o \in members
    BY DEF Read, Identities
  <2> QED BY <1>3 DEF relevant, escaping
<1>6. total.kind = "Complete" => failed = {}
  BY DEF aggregate
<1>7. failed = {} => ~Missed BY DEF relevant_failures, Missed
<1> HIDE DEF members, total, failed
<1> QED BY <1>2, <1>4, <1>5, <1>6, <1>7

\* A complete sample holds whoever stayed in the group: nobody is left to be read,
\* and a failure that is not a disappearance makes the sample partial.
LEMMA RecordStep ==
    ASSUME IInv, record_snapshot PROVE IInv'
<1>1. GhostOK /\ TrackerOK /\ SnapshotOK /\ CoverOK /\ EndpointOK /\ CleanupOK /\ LatchOK
  BY DEF IInv
<1> DEFINE next == update(tracker, sup.observations, sup.failures)
           seen == ghost.seen \cup Leaving(sup.observations)
           lapses == ghost.lapses + Cardinality(Lapsed(next.tracker))
<1>2. /\ sup.pc = "end" /\ sup.mode = "sample" /\ sup' = Idle("poll")
      /\ tracker' = next.tracker
      /\ sample' = Sample(next.frame.aggregate_footprint.kind, next.frame.owned_members)
      /\ latch_escape(next.frame.escape_observed)
      /\ ghost' = [ghost EXCEPT !.seen = seen, !.lapses = lapses]
      /\ UNCHANGED <<proc, births, root_outcome, report, budget>>
  BY DEF record_snapshot, Tally, kernel
<1>3. /\ DOMAIN next.tracker = DOMAIN tracker
      /\ next.tracker.root = Root /\ next.tracker.owned_group = RootPid
      /\ DOMAIN next.tracker.tracked \subseteq IdentitySet
      /\ next.tracker.escaped \subseteq IdentitySet
      /\ next.tracker.escaped = {} => tracker.escaped = {} /\ Leaving(sup.observations) = {}
  BY <1>1, UpdatedTracker DEF SnapshotOK
<1>4. /\ RootPidHeld => Identities(next.frame.owned_members) \subseteq ghost.ours
      /\ \A i : Read(i) => i \in Identities(next.frame.owned_members)
      /\ next.frame.aggregate_footprint.kind = "Complete" => ~Missed
  BY OwnedMembers
<1>5. next.frame.escape_observed \in BOOLEAN
  <2> DEFINE left == {o \in relevant(tracker, sup.observations) : escaping(tracker, o)}
             count == tracker.escaped_count
                      + Cardinality(newly_counted(tracker, Identities(left)))
  <2>1. next.frame.escape_observed = (count > 0) BY DEF update
  <2> HIDE DEF count
  <2>2. (count > 0) \in BOOLEAN OBVIOUS
  <2> QED BY <2>1, <2>2
<1>6. seen \subseteq IdentitySet BY <1>1 DEF GhostOK, SnapshotOK, Leaving, Identities, relevant
<1> HIDE DEF next
<1>7. (next.tracker.escaped = {}) => seen = {} BY <1>1, <1>3 DEF TrackerOK
<1> HIDE DEF seen, lapses
<1>8. /\ DOMAIN ghost' = GhostFields /\ ghost'.ours = ghost.ours /\ ghost'.seen = seen
      /\ ghost'.struck = ghost.struck /\ ghost'.within = ghost.within
  BY <1>1, <1>2 DEF GhostOK, GhostFields
<1>9. Calls BY <1>1, <1>2, <1>6, <1>8 DEF Calls, GhostOK
<1>10. KernelOK' /\ GroupOK' /\ GhostOK' /\ (RootPidHeld' <=> RootPidHeld)
  BY <1>9, CallKeepsTable
<1>11. SnapshotOK' /\ ReadOK' /\ ObservedOK' /\ CoverOK' /\ sup'.pc = "poll" /\ sup'.mode = "sample"
  <2>1. "poll" \in Resting \cup {"kill"} BY DEF Resting
  <2> QED BY <1>2, <2>1, Rests
<1>12. TrackerOK' BY <1>1, <1>2, <1>3, <1>7, <1>8 DEF TrackerOK
<1>13. SampleOK'
  <2>1. sample'.outcome = next.frame.aggregate_footprint.kind
        /\ sample'.members = next.frame.owned_members
    BY <1>2 DEF Sample
  <2>2. MembersAreOurs' BY <1>4, <1>8, <1>10, <2>1 DEF MembersAreOurs
  <2>3. \A i \in ghost.within : Read(i) \/ Missed BY <1>1, <1>2 DEF CoverOK, SnapshotOK
  <2>4. CompleteMeansAll' BY <1>4, <1>8, <2>1, <2>3 DEF CompleteMeansAll
  <2> QED BY <2>2, <2>4 DEF SampleOK
<1>14. EndpointOK' BY <1>1, <1>8, <1>11 DEF EndpointOK, SignalReachesRoot
<1>15. CleanupOK' BY <1>1, <1>2 DEF CleanupOK, CleanupIsHonest
<1>16. LatchOK' BY <1>1, <1>2, <1>5 DEF LatchOK, latch_escape
<1> QED BY <1>10, <1>11, <1>12, <1>13, <1>14, <1>15, <1>16 DEF IInv

LEMMA ClockDiscontinuityStep ==
    ASSUME IInv, ClockDiscontinuity PROVE IInv'
<1>1. GhostOK /\ LatchOK /\ CleanupOK /\ EndpointOK BY DEF IInv
<1>2. /\ sup.pc = "end" /\ Spend("faults") /\ sup' = Idle("poll")
      /\ sample' = Sample("ClockDiscontinuity", {}) /\ latch_escape(FALSE)
      /\ UNCHANGED <<proc, births, tracker, root_outcome, report, ghost>>
  BY DEF ClockDiscontinuity, kernel
<1>3. Calls BY <1>2, QuietCalls
<1>4. sample'.outcome = "ClockDiscontinuity" /\ sample'.members = {} BY <1>2 DEF Sample
<1>5. SampleOK' BY <1>4 DEF SampleOK, MembersAreOurs, CompleteMeansAll, Identities
<1>6. LatchOK' BY <1>1, <1>2 DEF LatchOK, latch_escape
<1>7. "poll" \in Resting BY DEF Resting
<1>8. report = None BY <1>1, <1>2 DEF CleanupOK
<1>9. ghost'.seen = ghost.seen /\ ghost'.struck \subseteq {Root}
  BY <1>1, <1>2 DEF EndpointOK, SignalReachesRoot
<1> QED BY <1>2, <1>3, <1>5, <1>6, <1>7, <1>8, <1>9, RestStep

\* A cleanup that returns: what it says of the group and of the escapes is so.
LEMMA ReturnStep ==
    ASSUME IInv, UNCHANGED <<proc, births, tracker, root_outcome, sample, escape_detected, ghost>>,
           budget' = budget \/ Spend("faults"), sup' = Idle("returned"),
           report'.owned_group_empty => ~owned_group_exists,
           report'.complete => tracker.escaped = {}
    PROVE  IInv'
<1>1. TrackerOK /\ EndpointOK /\ LatchOK BY DEF IInv
<1>2. Calls BY QuietCalls
<1>3. KernelOK' /\ GroupOK' /\ GhostOK' /\ (owned_group_exists' <=> owned_group_exists)
  BY <1>2, CallKeepsTable
<1>4. SnapshotOK' /\ ReadOK' /\ ObservedOK' /\ CoverOK'
      /\ sup'.pc = "returned" /\ sup'.mode = "sample"
  <2>1. "returned" \in Resting \cup {"kill"} BY DEF Resting
  <2> QED BY <2>1, Rests
<1>5. TrackerOK' BY <1>1 DEF TrackerOK
<1>6. SampleOK' BY <1>2, SampleStays
<1>7. EndpointOK' BY <1>1, <1>4 DEF EndpointOK, SignalReachesRoot
<1>8. CleanupOK' BY <1>1, <1>3, <1>4 DEF CleanupOK, CleanupIsHonest, TrackerOK
<1>9. LatchOK' BY <1>1 DEF LatchOK
<1> QED BY <1>3, <1>4, <1>5, <1>6, <1>7, <1>8, <1>9 DEF IInv

LEMMA SnapshotFailedStep ==
    ASSUME IInv, SnapshotFailed PROVE IInv'
<1>1. GhostOK /\ LatchOK /\ CleanupOK /\ EndpointOK BY DEF IInv
<1>2. /\ sup.pc \in {"group", "children"} /\ Spend("faults")
      /\ UNCHANGED <<proc, births, tracker, root_outcome, ghost>>
  BY DEF SnapshotFailed, kernel
<1>3. CASE sup.mode = "sample"
  <2>1. /\ sample' = Sample("SnapshotFailed", {}) /\ latch_escape(FALSE)
        /\ sup' = Idle("poll") /\ UNCHANGED report
    BY <1>3 DEF SnapshotFailed
  <2>2. Calls BY <1>2, QuietCalls
  <2>3. sample'.outcome = "SnapshotFailed" /\ sample'.members = {} BY <2>1 DEF Sample
  <2>4. SampleOK' BY <2>3 DEF SampleOK, MembersAreOurs, CompleteMeansAll, Identities
  <2>5. LatchOK' BY <1>1, <1>2, <2>1 DEF LatchOK, latch_escape
  <2>6. "poll" \in Resting /\ report = None BY <1>1, <1>2 DEF Resting, CleanupOK
  <2>7. ghost'.seen = ghost.seen /\ ghost'.struck \subseteq {Root}
    BY <1>1, <1>2 DEF EndpointOK, SignalReachesRoot
  <2> QED BY <1>2, <2>1, <2>2, <2>4, <2>5, <2>6, <2>7, RestStep
<1>4. CASE sup.mode # "sample"
  <2>1. /\ report' = [owned_group_empty |-> FALSE, complete |-> FALSE, survivors |-> {}]
        /\ sup' = Idle("returned") /\ UNCHANGED <<sample, escape_detected>>
    BY <1>4 DEF SnapshotFailed
  <2>2. ~report'.owned_group_empty /\ ~report'.complete BY <2>1
  <2> QED BY <1>2, <2>1, <2>2, ReturnStep
<1> QED BY <1>3, <1>4

LEMMA CleanupUpdateStep ==
    ASSUME IInv, CleanupUpdate PROVE IInv'
<1>1. /\ GhostOK /\ TrackerOK /\ SnapshotOK /\ ObservedOK /\ EndpointOK /\ CleanupOK /\ LatchOK
  BY DEF IInv
<1> DEFINE next == update(tracker, sup.observations, sup.failures)
           seen == ghost.seen \cup Leaving(sup.observations)
           lapses == ghost.lapses + Cardinality(Lapsed(next.tracker))
<1>2. /\ sup.pc = "end" /\ sup.mode = "cleanup"
      /\ tracker' = next.tracker
      /\ sup' = [sup EXCEPT !.pc = "exists", !.survivors = Identities(next.frame.owned_members),
                            !.failures = next.frame.observation_failures]
      /\ ghost' = [ghost EXCEPT !.seen = seen, !.lapses = lapses]
      /\ UNCHANGED <<proc, births, root_outcome, sample, escape_detected, report, budget>>
  BY DEF CleanupUpdate, Tally, kernel
<1>3. /\ DOMAIN next.tracker = DOMAIN tracker
      /\ next.tracker.root = Root /\ next.tracker.owned_group = RootPid
      /\ DOMAIN next.tracker.tracked \subseteq IdentitySet
      /\ next.tracker.escaped \subseteq IdentitySet
      /\ next.tracker.escaped = {} => tracker.escaped = {} /\ Leaving(sup.observations) = {}
  BY <1>1, UpdatedTracker DEF SnapshotOK
<1>4. seen \subseteq IdentitySet BY <1>1 DEF GhostOK, SnapshotOK, Leaving, Identities, relevant
<1> HIDE DEF next
<1>5. (next.tracker.escaped = {}) => seen = {} BY <1>1, <1>3 DEF TrackerOK
<1> HIDE DEF seen, lapses
<1>6. /\ DOMAIN ghost' = GhostFields /\ ghost'.ours = ghost.ours /\ ghost'.seen = seen
      /\ ghost'.struck = ghost.struck /\ ghost'.within = ghost.within
  BY <1>1, <1>2 DEF GhostOK, GhostFields
<1>7. Calls BY <1>1, <1>2, <1>4, <1>6 DEF Calls, GhostOK
<1>8. KernelOK' /\ GroupOK' /\ GhostOK' /\ (RootPidHeld' <=> RootPidHeld)
  BY <1>7, CallKeepsTable
<1>9. /\ DOMAIN sup' = SupFields /\ sup'.pc = "exists" /\ sup'.mode = "cleanup"
      /\ sup'.relevant = sup.relevant /\ sup'.todo = sup.todo
      /\ sup'.observations = sup.observations
  BY <1>1, <1>2 DEF SnapshotOK, SupFields
<1>10. SnapshotOK' BY <1>1, <1>9 DEF SnapshotOK, Phases, Reading
<1>11. ObservedOK' BY <1>1, <1>6, <1>8, <1>9 DEF ObservedOK
<1>12. ReadOK' /\ CoverOK' BY <1>9 DEF ReadOK, CoverOK, Reading
<1>13. TrackerOK' BY <1>1, <1>2, <1>3, <1>5, <1>6 DEF TrackerOK
<1>14. SampleOK' BY <1>2, <1>6, <1>7, SampleStays
<1>15. EndpointOK' BY <1>1, <1>6, <1>9 DEF EndpointOK, SignalReachesRoot
<1>16. CleanupOK' BY <1>1, <1>2 DEF CleanupOK, CleanupIsHonest
<1>17. LatchOK' BY <1>1, <1>2 DEF LatchOK
<1> QED
  BY <1>8, <1>10, <1>11, <1>12, <1>13, <1>14, <1>15, <1>16, <1>17 DEF IInv

LEMMA CleanupCheckStep ==
    ASSUME IInv, NEW expired \in BOOLEAN, CleanupCheck(expired) PROVE IInv'
<1>1. GhostOK /\ LatchOK /\ CleanupOK /\ EndpointOK BY DEF IInv
<1> DEFINE empty == group_empty(sup.survivors)
           failed == sup.failures # {} \/ (owned_group_exists /\ sup.survivors = {})
<1>2. /\ sup.pc = "exists"
      /\ UNCHANGED <<proc, births, tracker, root_outcome, sample, escape_detected, budget, ghost>>
      /\ IF empty \/ expired
         THEN /\ report' = [owned_group_empty |-> empty,
                            complete |-> empty /\ tracker.escaped = {} /\ ~failed,
                            survivors |-> sup.survivors]
              /\ sup' = Idle("returned")
         ELSE sup' = Idle("again") /\ UNCHANGED report
  BY DEF CleanupCheck, kernel
<1>3. CASE empty \/ expired
  <2>1. /\ report'.owned_group_empty = empty
        /\ report'.complete = (empty /\ tracker.escaped = {} /\ ~failed)
        /\ sup' = Idle("returned")
    BY <1>2, <1>3
  <2>2. report'.owned_group_empty => ~owned_group_exists BY <2>1 DEF group_empty
  <2>3. report'.complete => tracker.escaped = {} BY <2>1
  <2> QED BY <1>2, <2>1, <2>2, <2>3, ReturnStep
<1>4. CASE ~(empty \/ expired)
  <2>1. sup' = Idle("again") /\ UNCHANGED report BY <1>2, <1>4
  <2>2. Calls BY <1>2, QuietCalls
  <2>3. SampleOK' BY <1>2, <2>2, SampleStays
  <2>4. LatchOK' BY <1>1, <1>2 DEF LatchOK
  <2>5. "again" \in Resting /\ report = None BY <1>1, <1>2 DEF Resting, CleanupOK
  <2>6. ghost'.seen = ghost.seen /\ ghost'.struck \subseteq {Root}
    BY <1>1, <1>2 DEF EndpointOK, SignalReachesRoot
  <2> QED BY <1>2, <2>1, <2>2, <2>3, <2>4, <2>5, <2>6, RestStep
<1> QED BY <1>3, <1>4

-----------------------------------------------------------------------------
(* The checkpoint signal.                                                  *)

LEMMA SignalCheckpointStep ==
    ASSUME IInv, signal_checkpoint PROVE IInv'
<1>1. /\ TrackerOK /\ SnapshotOK /\ ReadOK /\ ObservedOK /\ CoverOK /\ EndpointOK /\ CleanupOK
      /\ LatchOK
  BY DEF IInv
<1>2. /\ sup.pc = "work" /\ Spend("rounds")
      /\ UNCHANGED <<proc, births, tracker, root_outcome, sample, escape_detected, report, ghost>>
      /\ \/ sup' = sup
         \/ sup' = [Idle("first") EXCEPT !.mode = "signal", !.todo = {RootPid}]
  BY DEF signal_checkpoint, quiet, kernel
<1>3. Calls BY <1>2, QuietCalls
<1>4. /\ KernelOK' /\ GroupOK' /\ GhostOK' /\ (RootPidHeld' <=> RootPidHeld)
      /\ (RootUnreaped' <=> RootUnreaped)
  BY <1>3, CallKeepsTable
<1>5. SampleOK' BY <1>2, <1>3, SampleStays
<1>6. TrackerOK' /\ CleanupOK' /\ LatchOK'
  BY <1>1, <1>2 DEF TrackerOK, CleanupOK, CleanupIsHonest, LatchOK
<1>7. CASE sup' = sup
  <2>1. SnapshotOK' /\ ReadOK' /\ CoverOK'
    BY <1>1, <1>2, <1>7 DEF SnapshotOK, ReadOK, CoverOK, Reading
  <2>2. ObservedOK' /\ EndpointOK'
    BY <1>1, <1>2, <1>4, <1>7 DEF ObservedOK, EndpointOK, SignalReachesRoot
  <2> QED BY <1>4, <1>5, <1>6, <2>1, <2>2 DEF IInv
<1>8. CASE sup' = [Idle("first") EXCEPT !.mode = "signal", !.todo = {RootPid}]
  <2>1. /\ DOMAIN sup' = SupFields /\ sup'.pc = "first" /\ sup'.mode = "signal"
        /\ sup'.relevant = {} /\ sup'.todo = {RootPid} /\ sup'.observations = {}
    BY <1>8 DEF Idle, SupFields
  <2>2. SnapshotOK'
    BY <2>1, InventoryAssumption DEF SnapshotOK, Phases, Reading, Identities
  <2>3. ReadOK' /\ CoverOK' /\ ObservedOK' BY <2>1 DEF ReadOK, CoverOK, ObservedOK
  <2>4. EndpointOK' BY <1>1, <1>2, <2>1 DEF EndpointOK, SignalReachesRoot
  <2> QED BY <1>4, <1>5, <1>6, <2>2, <2>3, <2>4 DEF IInv
<1> QED BY <1>2, <1>7, <1>8

\* An identity found among the observations is the unreaped root's.
LEMMA SignalIdentityStep ==
    ASSUME IInv, signal_identity PROVE IInv'
<1>1. TrackerOK /\ EndpointOK /\ CleanupOK /\ LatchOK BY DEF IInv
<1> DEFINE pc == IF \E o \in sup.observations : is_endpoint(o) THEN "kill" ELSE "work"
<1>2. /\ sup.pc = "end" /\ sup.mode = "signal" /\ sup' = Idle(pc)
      /\ UNCHANGED <<proc, births, tracker, root_outcome, sample, escape_detected, report, ghost>>
      /\ budget' = budget
  BY DEF signal_identity, quiet, kernel
<1>3. pc \in Resting \cup {"kill"} BY DEF Resting
<1>4. pc = "kill" => RootUnreaped BY <1>1, <1>2 DEF EndpointOK, is_endpoint
<1> HIDE DEF pc
<1>5. Calls BY <1>2, QuietCalls
<1>6. KernelOK' /\ GroupOK' /\ GhostOK' /\ (RootUnreaped' <=> RootUnreaped)
  BY <1>5, CallKeepsTable
<1>7. SnapshotOK' /\ ReadOK' /\ ObservedOK' /\ CoverOK' /\ sup'.pc = pc /\ sup'.mode = "sample"
  BY <1>2, <1>3, Rests
<1>8. SampleOK' BY <1>2, <1>5, SampleStays
<1>9. TrackerOK' /\ CleanupOK' /\ LatchOK'
  BY <1>1, <1>2 DEF TrackerOK, CleanupOK, CleanupIsHonest, LatchOK
<1>10. EndpointOK' BY <1>1, <1>2, <1>4, <1>6, <1>7 DEF EndpointOK, SignalReachesRoot
<1> QED BY <1>6, <1>7, <1>8, <1>9, <1>10 DEF IInv

LEMMA KillStep ==
    ASSUME IInv, Kill PROVE IInv'
<1>1. GhostOK /\ LatchOK /\ CleanupOK /\ EndpointOK BY DEF IInv
<1> DEFINE hit == ghost.struck \cup {IdentityOf(RootPid)}
<1>2. /\ sup.pc = "kill" /\ sup' = Idle("work")
      /\ ghost' = IF Alive(proc, RootPid) THEN [ghost EXCEPT !.struck = hit] ELSE ghost
      /\ UNCHANGED <<proc, births, tracker, root_outcome, sample, escape_detected, report, budget>>
  BY DEF Kill, kernel
<1>3. IdentityOf(RootPid) = Root
  BY <1>1, <1>2 DEF EndpointOK, RootUnreaped, RootPidHeld, IdentityOf, Root
<1>4. hit \subseteq {Root} /\ ghost.struck \subseteq {Root}
  BY <1>1, <1>3 DEF EndpointOK, SignalReachesRoot
<1> HIDE DEF hit
<1>5. /\ DOMAIN ghost' = GhostFields /\ ghost'.ours = ghost.ours /\ ghost'.seen = ghost.seen
      /\ ghost'.within = ghost.within /\ ghost'.struck \subseteq {Root}
  BY <1>1, <1>2, <1>4 DEF GhostOK, GhostFields
<1>6. Calls BY <1>1, <1>2, <1>5 DEF Calls, GhostOK
<1>7. SampleOK' BY <1>2, <1>5, <1>6, SampleStays
<1>8. LatchOK' BY <1>1, <1>2 DEF LatchOK
<1>9. "work" \in Resting /\ report = None BY <1>1, <1>2 DEF Resting, CleanupOK
<1> QED BY <1>2, <1>5, <1>6, <1>7, <1>8, <1>9, RestStep

-----------------------------------------------------------------------------
LEMMA NextInvariant ==
    ASSUME IInv, Next PROVE IInv'
<1>1. CASE Kernel BY <1>1, KernelInvariant
<1>2. CASE Poll BY <1>2, PollStep
<1>3. CASE sample_native
  <2>1. StartSnapshot("sample", {"work"}) BY <1>3 DEF sample_native
  <2> QED BY <2>1, StartSnapshotStep
<1>4. CASE wait_for_owned_group_empty
  <2>1. StartSnapshot("cleanup", {"work", "over", "again"})
    BY <1>4 DEF wait_for_owned_group_empty
  <2> QED BY <2>1, StartSnapshotStep
<1>5. CASE ListGroup BY <1>5, ListGroupStep
<1>6. CASE ListChildren BY <1>6, ListChildrenStep
<1>7. CASE FirstRusage BY <1>7, FirstRusageStep
<1>8. CASE BsdInfo BY <1>8, BsdInfoStep
<1>9. CASE SecondRusage BY <1>9, SecondRusageStep
<1>10. CASE Denied BY <1>10, DeniedStep
<1>11. CASE record_snapshot BY <1>11, RecordStep
<1>12. CASE ClockDiscontinuity BY <1>12, ClockDiscontinuityStep
<1>13. CASE SnapshotFailed BY <1>13, SnapshotFailedStep
<1>14. CASE CleanupUpdate BY <1>14, CleanupUpdateStep
<1>15. CASE \E expired \in BOOLEAN : CleanupCheck(expired) BY <1>15, CleanupCheckStep
<1>16. CASE signal_checkpoint BY <1>16, SignalCheckpointStep
<1>17. CASE signal_identity BY <1>17, SignalIdentityStep
<1>18. CASE Kill BY <1>18, KillStep
<1> QED
  BY <1>1, <1>2, <1>3, <1>4, <1>5, <1>6, <1>7, <1>8, <1>9, <1>10, <1>11, <1>12, <1>13,
     <1>14, <1>15, <1>16, <1>17, <1>18
  DEF Next, Supervisor

LEMMA StutterInvariant ==
    ASSUME IInv, UNCHANGED vars PROVE IInv'
<1>1. UNCHANGED <<proc, births, tracker, sup, root_outcome, sample, escape_detected, report,
                  budget, ghost>>
  BY DEF vars, kernel
<1>2. Drift
  BY <1>1 DEF IInv, Drift, KernelOK, GroupOK, GhostOK, RootUnreaped, RootPidHeld, Present,
              owned_group_exists, IdentityOf, Members
<1> QED BY <1>1, <1>2, DriftStep

\* The inductive invariant of the sampler over the process table.
THEOREM SamplingInvariant == Spec => []IInv
<1>1. Init => IInv BY InitInvariant
<1>2. IInv /\ [Next]_vars => IInv' BY NextInvariant, StutterInvariant
<1> QED BY <1>1, <1>2, PTL DEF Spec

\* A sample counts no process the root did not start, and when it claims to be
\* complete it counts every one that stayed in the group from the first listing
\* to the last read, for every number of pids, births and refused reads.
THEOREM SampleSafety == Spec => []SampleCountsTheCommand
<1>1. IInv => SampleCountsTheCommand
  <2> SUFFICES ASSUME IInv PROVE SampleCountsTheCommand OBVIOUS
  <2>1. KernelOK /\ GhostOK /\ TrackerOK /\ SnapshotOK /\ SampleOK /\ LatchOK BY DEF IInv
  <2>2. MaxBirths \in Nat BY InventoryAssumption
  <2>3. births \in 1 .. MaxBirths + 1 BY <2>1, <2>2 DEF KernelOK
  <2>4. proc \in [Pids -> [state : {"none", "live", "zombie"}, start : 0 .. MaxBirths + 1,
                           parent : Pids \cup {0, Launchd}, group : Pids \cup {0, Launchd}]]
    <3>1. ASSUME NEW p \in Pids
          PROVE  proc[p] \in [state : {"none", "live", "zombie"}, start : 0 .. MaxBirths + 1,
                              parent : Pids \cup {0, Launchd}, group : Pids \cup {0, Launchd}]
      <4>1. proc[p] \in ProcessRecords /\ proc[p].start <= births BY <2>1 DEF KernelOK
      <4>2. proc[p].start \in 0 .. MaxBirths + 1 BY <2>2, <2>3, <4>1 DEF ProcessRecords
      <4> QED BY <4>1, <4>2 DEF ProcessRecords
    <3> QED BY <2>1, <3>1 DEF KernelOK
  <2>5. TypeOK BY <2>1, <2>3, <2>4 DEF TypeOK, GhostOK, TrackerOK, SnapshotOK, LatchOK
  <2> QED BY <2>1, <2>5 DEF SampleCountsTheCommand, SampleOK
<1> QED BY <1>1, SamplingInvariant, PTL

\* A cleanup that reports the group empty left nobody in it, and one that reports
\* itself complete never saw a process outside it.
THEOREM CleanupSafety == Spec => []CleanupIsHonest
<1>1. IInv => CleanupIsHonest BY DEF IInv, CleanupOK
<1> QED BY <1>1, SamplingInvariant, PTL

\* The checkpoint signal strikes nobody but the launched root.
THEOREM SignalSafety == Spec => []SignalReachesRoot
<1>1. IInv => SignalReachesRoot BY DEF IInv, EndpointOK
<1> QED BY <1>1, SamplingInvariant, PTL

-----------------------------------------------------------------------------
(* Escapes.  A second invariant, of the processes outside the group.       *)

\* A process has a living parent other than itself or none in the table, descends
\* from the root if that parent does, and the root never leaves its group.
KinOK ==
    /\ \A p \in Pids : Present(p) => proc[p].start # 0
    /\ \A p \in Pids : proc[p].parent \in Pids =>
          /\ Alive(proc, proc[p].parent) /\ proc[p].parent # p
          /\ IdentityOf(proc[p].parent) \in ghost.ours => IdentityOf(p) \in ghost.ours
    /\ (Alive(proc, RootPid) /\ RootPidHeld) => proc[RootPid].group = RootPid

\* A snapshot works through a queue of pids, then reads each listed pid once.
OnceOK ==
    /\ sup.pc = "children" => sup.pending \in Seq(Range(sup.pending)) /\ sup.pending # << >>
    /\ sup.pc \in Resting \cup {"group", "children", "kill"} => sup.observations = {}
    /\ \A o \in sup.observations : o.identity.pid \notin sup.todo
    /\ \A o, q \in sup.observations : o.identity.pid = q.identity.pid => o = q

\* As long as no pid is reused inside a snapshot, a pid names one process from
\* its first read to the end, and whoever is read as a parent stays that.
Linked(pid, i) ==
    pid \in Pids =>
        proc[pid].start # 0 /\ (IdentityOf(pid) \in ghost.ours => i \in ghost.ours)
NamedOK ==
    ~ghost.recycled =>
        /\ sup.pc \in {"bsd", "second"} => sup.first # 0 /\ sup.first = proc[Pid].start
        /\ sup.pc = "second" => Linked(sup.bsd.parent, IdentityOf(Pid))
        /\ \A o \in sup.observations :
              /\ proc[o.identity.pid].start # 0
              /\ o.identity = IdentityOf(o.identity.pid)
              /\ Linked(o.parent_pid, o.identity)
              /\ o.process_group_id = RootPid /\ RootPidHeld => o.identity \in ghost.ours

OwnOK ==
    ~ghost.recycled /\ RootPidHeld =>
        DOMAIN tracker.tracked \subseteq ghost.ours /\ ghost.seen \subseteq ghost.ours

\* The count against the escapes seen; while all of them fit into the evidence,
\* the evidence is the set of them.
CountOK ==
    /\ tracker.escaped_count \in Nat /\ tracker.escaped_count >= Cardinality(ghost.seen)
    /\ tracker.escaped \subseteq ghost.seen
    /\ \A i \in DOMAIN tracker.tracked : tracker.tracked[i] => i \in ghost.seen
    /\ Cardinality(tracker.escaped) <= MAX_ESCAPED_EVIDENCE
    /\ Cardinality(ghost.seen) <= MAX_ESCAPED_EVIDENCE =>
           /\ tracker.escaped = ghost.seen
           /\ tracker.escaped_count = Cardinality(ghost.seen)

\* Before the cleanup the flag is the count's, and the cleanup ends in a report.
LatchedOK ==
    /\ sup.pc \in Resting \cup {"kill"} => sup.mode = "sample"
    /\ sup.pc = "exists" => sup.mode = "cleanup" /\ sup.survivors \subseteq IdentitySet
    /\ sup.pc = "returned" => report # None
    /\ (sup.mode # "cleanup" /\ sup.pc \notin {"again", "returned"}) =>
          escape_detected = (tracker.escaped_count > 0)

\* Whoever stays outside the group is listed, or the root's children are still to
\* be, and is then read there or failed to be.
Outside(i, parent, group) ==
    group # RootPid /\ (i \in DOMAIN tracker.tracked \/ parent = RootPid)
Found(i) ==
    \E o \in sup.observations :
        o.identity = i /\ ~o.exited /\ Outside(i, o.parent_pid, o.process_group_id)
StrayOK ==
    sup.mode = "sample" =>
        /\ sup.pc \in Reading \cup {"group", "children", "end"} =>
              ghost.outside \subseteq Strays(proc)
        /\ sup.pc \in {"group", "children"} =>
              \A i \in ghost.outside : i \in DOMAIN tracker.tracked => i.pid \in sup.relevant
        /\ sup.pc = "children" =>
              RootPid \in Range(sup.pending) \/ \A i \in ghost.outside : i.pid \in sup.relevant
        /\ sup.pc \in Reading \cup {"end"} =>
              \A i \in ghost.outside : i.pid \in sup.todo \/ Found(i) \/ Missed
        /\ sup.pc = "second" =>
              \A i \in ghost.outside :
                  i.pid = Pid => Outside(i, sup.bsd.parent, sup.bsd.group)

EscapeInv ==
    /\ KinOK /\ OnceOK /\ NamedOK /\ OwnOK /\ CountOK /\ LatchedOK /\ StrayOK
    /\ StraysAreFound

-----------------------------------------------------------------------------
(* Finite sets of identities, and their order by pid.                      *)

LEMMA FiniteIdentities ==
    ASSUME NEW S \in SUBSET IdentitySet
    PROVE  IsFiniteSet(S) /\ Cardinality(S) \in Nat
<1> DEFINE tokens == 0 .. MaxBirths + 1
           f == [i \in IdentitySet |-> <<i.pid, i.start_abstime>>]
<1>1. IsFiniteSet(tokens) /\ IsFiniteSet(Pids)
  BY InventoryAssumption, FS_Interval
<1>2. IsFiniteSet(Pids \X tokens) BY <1>1, FS_Product
<1>3. f \in Injection(IdentitySet, Pids \X tokens)
  <2>1. f \in [IdentitySet -> Pids \X tokens] BY DEF IdentitySet
  <2>2. ASSUME NEW i \in IdentitySet, NEW j \in IdentitySet, f[i] = f[j] PROVE i = j
    BY <2>2 DEF IdentitySet
  <2> QED BY <2>1, <2>2 DEF Injection, IsInjective
<1>4. IsFiniteSet(IdentitySet) BY <1>2, <1>3, FS_Injection
<1> QED BY <1>4, FS_Subset, FS_CardinalityType

\* Of two elements the one with the greater key has more below it.
LEMMA Ranks ==
    ASSUME NEW S, IsFiniteSet(S), NEW f \in [S -> Nat], NEW a \in S
    PROVE  /\ Cardinality({t \in S : f[t] < f[a]}) \in 0 .. Cardinality(S) - 1
           /\ \A b \in S : f[a] < f[b] =>
                 Cardinality({t \in S : f[t] < f[a]}) < Cardinality({t \in S : f[t] < f[b]})
<1> DEFINE Below(b) == {t \in S : f[t] < f[b]}
<1>1. \A b \in S : /\ IsFiniteSet(Below(b)) /\ Cardinality(Below(b)) \in Nat
                   /\ Cardinality(Below(b) \cup {b}) = Cardinality(Below(b)) + 1
  <2> SUFFICES ASSUME NEW b \in S
               PROVE  /\ IsFiniteSet(Below(b)) /\ Cardinality(Below(b)) \in Nat
                      /\ Cardinality(Below(b) \cup {b}) = Cardinality(Below(b)) + 1
    OBVIOUS
  <2>1. Below(b) \in SUBSET S /\ b \notin Below(b) OBVIOUS
  <2>2. IsFiniteSet(Below(b)) BY <2>1, FS_Subset
  <2> HIDE DEF Below
  <2> QED BY <2>1, <2>2, FS_AddElement, FS_CardinalityType
<1>2. Cardinality(S) \in Nat BY FS_CardinalityType
<1>3. Cardinality(Below(a) \cup {a}) <= Cardinality(S)
  <2>1. Below(a) \cup {a} \in SUBSET S OBVIOUS
  <2> HIDE DEF Below
  <2> QED BY <2>1, FS_Subset
<1>4. ASSUME NEW b \in S, f[a] < f[b]
      PROVE  Cardinality(Below(a) \cup {a}) <= Cardinality(Below(b))
  <2>1. Below(a) \cup {a} \in SUBSET Below(b)
    <3> SUFFICES ASSUME NEW t \in S, f[t] < f[a] PROVE f[t] < f[b] BY <1>4
    <3>1. f[t] \in Nat /\ f[a] \in Nat /\ f[b] \in Nat OBVIOUS
    <3> QED BY <1>4, <3>1
  <2>2. IsFiniteSet(Below(b)) BY <1>1
  <2> HIDE DEF Below
  <2> QED BY <2>1, <2>2, FS_Subset
<1>5. Cardinality(Below(a)) \in 0 .. Cardinality(S) - 1
  <2> HIDE DEF Below
  <2> QED BY <1>1, <1>2, <1>3
<1>6. ASSUME NEW b \in S, f[a] < f[b] PROVE Cardinality(Below(a)) < Cardinality(Below(b))
  <2>1. /\ Cardinality(Below(a)) \in Nat /\ Cardinality(Below(b)) \in Nat
        /\ Cardinality(Below(a) \cup {a}) = Cardinality(Below(a)) + 1
        /\ Cardinality(Below(a) \cup {a}) <= Cardinality(Below(b))
    BY <1>1, <1>4, <1>6
  <2> HIDE DEF Below
  <2> QED BY <2>1
<1> QED BY <1>5, <1>6

\* The queue of the listed pids is a sequence, and holds every one of them.
LEMMA AscendingIsSeq ==
    ASSUME NEW pids \in SUBSET Pids
    PROVE  Ascending(pids) \in Seq(Range(Ascending(pids)))
<1> DEFINE s == Ascending(pids)
<1>1. IsFiniteSet(pids) /\ Cardinality(pids) \in Nat
  BY InventoryAssumption, FS_Subset, FS_CardinalityType
<1> DEFINE At(n) == CHOOSE p \in pids : Cardinality({q \in pids : q < p}) = n - 1
<1>2. s = [n \in 1 .. Cardinality(pids) |-> At(n)] BY DEF Ascending
<1> HIDE DEF s, At
<1>3. s \in [1 .. Cardinality(pids) -> Range(s)] BY <1>2 DEF Range
<1>4. s \in Seq(Range(s)) BY <1>1, <1>3
<1> QED BY <1>4 DEF s

LEMMA AscendingHolds ==
    ASSUME NEW pids \in SUBSET Pids, NEW p \in pids
    PROVE  p \in Range(Ascending(pids))
<1> DEFINE f == [q \in pids |-> q]
           Below(a) == {q \in pids : q < a}
           s == Ascending(pids)
<1>1. IsFiniteSet(pids) /\ pids \subseteq Nat /\ Cardinality(pids) \in Nat
  BY InventoryAssumption, FS_Subset, FS_CardinalityType
<1>2. f \in [pids -> Nat] BY <1>1
<1>3. \A a \in pids : {t \in pids : f[t] < f[a]} = Below(a) OBVIOUS
<1>4. /\ \A a \in pids : Cardinality(Below(a)) \in 0 .. Cardinality(pids) - 1
      /\ \A a, b \in pids : a < b => Cardinality(Below(a)) < Cardinality(Below(b))
  <2> SUFFICES ASSUME NEW a \in pids
               PROVE  /\ Cardinality(Below(a)) \in 0 .. Cardinality(pids) - 1
                      /\ \A b \in pids : a < b => Cardinality(Below(a)) < Cardinality(Below(b))
    OBVIOUS
  <2>1. /\ Cardinality({t \in pids : f[t] < f[a]}) \in 0 .. Cardinality(pids) - 1
        /\ \A b \in pids : f[a] < f[b] =>
              Cardinality({t \in pids : f[t] < f[a]}) < Cardinality({t \in pids : f[t] < f[b]})
    BY <1>1, <1>2, Ranks
  <2>2. \A b \in pids : f[b] = b OBVIOUS
  <2> HIDE DEF f, Below
  <2> QED BY <1>3, <2>1, <2>2
<1>5. /\ s = [n \in 1 .. Cardinality(pids) |->
                 CHOOSE a \in pids : Cardinality(Below(a)) = n - 1]
  BY DEF Ascending
<1> HIDE DEF f, Below, s
<1> DEFINE n == Cardinality(Below(p)) + 1
<1>6. n \in 1 .. Cardinality(pids) /\ n - 1 = Cardinality(Below(p)) BY <1>1, <1>4
<1>7. s[n] = p
  <2> DEFINE c == CHOOSE a \in pids : Cardinality(Below(a)) = n - 1
  <2>1. c \in pids /\ Cardinality(Below(c)) = n - 1 BY <1>6
  <2>2. s[n] = c BY <1>5, <1>6
  <2> HIDE DEF c, n
  <2>3. c \in Nat /\ p \in Nat BY <1>1, <2>1
  <2>4. Cardinality(Below(c)) = Cardinality(Below(p)) /\ Cardinality(Below(c)) \in Nat
    BY <1>1, <1>4, <1>6, <2>1
  <2>5. ~(c < p) /\ ~(p < c) BY <1>4, <2>1, <2>4
  <2> QED BY <2>2, <2>3, <2>5
<1>8. DOMAIN s = 1 .. Cardinality(pids) BY <1>5
<1>9. p \in Range(s) BY <1>6, <1>7, <1>8 DEF Range
<1> QED BY <1>9 DEF s

\* The evidence takes in the escapes of the lowest pids, never beyond its cap.
LEMMA Retained ==
    ASSUME NEW escaped \in SUBSET IdentitySet, NEW leaving \in SUBSET IdentitySet,
           \A i, j \in leaving : i.pid = j.pid => i = j,
           Cardinality(escaped) <= MAX_ESCAPED_EVIDENCE
    PROVE  /\ retain_escaped(escaped, leaving) \subseteq escaped \cup leaving
           /\ Cardinality(retain_escaped(escaped, leaving)) <= MAX_ESCAPED_EVIDENCE
           /\ Cardinality(escaped \cup leaving) <= MAX_ESCAPED_EVIDENCE =>
                 retain_escaped(escaped, leaving) = escaped \cup leaving
<1> DEFINE fresh == leaving \ escaped
           free == MAX_ESCAPED_EVIDENCE - Cardinality(escaped)
           key == [i \in fresh |-> i.pid]
           Below(i) == {j \in fresh : j.pid < i.pid}
           taken == {i \in fresh : Cardinality(Below(i)) < free}
<1>1. retain_escaped(escaped, leaving) = escaped \cup taken BY DEF retain_escaped
<1>2. /\ fresh \in SUBSET IdentitySet /\ taken \in SUBSET IdentitySet
      /\ taken \in SUBSET fresh /\ escaped \cap fresh = {} /\ escaped \cap taken = {}
      /\ escaped \cup fresh = escaped \cup leaving
  OBVIOUS
<1>3. /\ IsFiniteSet(fresh) /\ Cardinality(fresh) \in Nat
      /\ IsFiniteSet(taken) /\ Cardinality(taken) \in Nat
      /\ IsFiniteSet(escaped) /\ Cardinality(escaped) \in Nat
  BY <1>2, FiniteIdentities
<1>4. free \in Nat BY <1>3, IdentityAssumption
<1>5. \A i \in fresh : i.pid \in Nat BY InventoryAssumption DEF IdentitySet
<1>6. key \in [fresh -> Nat] /\ \A i \in fresh : key[i] = i.pid BY <1>5
<1>7. \A i \in fresh : {j \in fresh : key[j] < key[i]} = Below(i) OBVIOUS
<1>8. \A i, j \in fresh : i.pid = j.pid => i = j OBVIOUS
<1> HIDE DEF fresh, key, Below
<1>9. /\ \A i \in fresh : Cardinality(Below(i)) \in 0 .. Cardinality(fresh) - 1
      /\ \A i, j \in fresh : i.pid < j.pid => Cardinality(Below(i)) < Cardinality(Below(j))
  <2> SUFFICES ASSUME NEW i \in fresh
               PROVE  /\ Cardinality(Below(i)) \in 0 .. Cardinality(fresh) - 1
                      /\ \A j \in fresh : i.pid < j.pid =>
                            Cardinality(Below(i)) < Cardinality(Below(j))
    OBVIOUS
  <2>1. /\ Cardinality({t \in fresh : key[t] < key[i]}) \in 0 .. Cardinality(fresh) - 1
        /\ \A j \in fresh : key[i] < key[j] =>
              Cardinality({t \in fresh : key[t] < key[i]})
                  < Cardinality({t \in fresh : key[t] < key[j]})
    BY <1>3, <1>6, Ranks
  <2> QED BY <1>6, <1>7, <2>1
<1>10. Cardinality(taken) <= free
  <2> DEFINE rank == [i \in taken |-> Cardinality(Below(i))]
  <2>1. rank \in [taken -> 0 .. free - 1] BY <1>3, <1>4, <1>9
  <2>2. ASSUME NEW i \in taken, NEW j \in taken, rank[i] = rank[j] PROVE i = j
    <3>1. i \in fresh /\ j \in fresh /\ Cardinality(Below(i)) = Cardinality(Below(j)) BY <2>2
    <3>2. Cardinality(Below(i)) \in Nat BY <1>3, <1>9, <3>1
    <3>3. ~(i.pid < j.pid) /\ ~(j.pid < i.pid) BY <1>9, <3>1, <3>2
    <3>4. i.pid \in Nat /\ j.pid \in Nat BY <1>5, <3>1
    <3> QED BY <1>8, <3>1, <3>3, <3>4
  <2>3. rank \in Injection(taken, 0 .. free - 1) BY <2>1, <2>2 DEF Injection, IsInjective
  <2>4. IsFiniteSet(0 .. free - 1) /\ Cardinality(0 .. free - 1) = free
    <3>1. free - 1 \in Int /\ 0 \in Int BY <1>4
    <3>2. /\ IsFiniteSet(0 .. free - 1)
          /\ Cardinality(0 .. free - 1) = IF 0 > free - 1 THEN 0 ELSE (free - 1) - 0 + 1
      BY <3>1, FS_Interval
    <3> QED BY <1>4, <3>2
  <2> HIDE DEF rank, taken, free
  <2> QED BY <2>3, <2>4, FS_Injection
<1>11. Cardinality(escaped \cup taken) <= MAX_ESCAPED_EVIDENCE
  <2>1. Cardinality(escaped \cup taken) =
          Cardinality(escaped) + Cardinality(taken) - Cardinality(escaped \cap taken)
    BY <1>3, FS_Union
  <2>2. Cardinality(escaped \cap taken) = 0 BY <1>2, FS_EmptySet
  <2> QED BY <1>3, <1>4, <1>10, <2>1, <2>2, IdentityAssumption
<1>12. ASSUME Cardinality(escaped \cup leaving) <= MAX_ESCAPED_EVIDENCE PROVE taken = fresh
  <2>1. Cardinality(escaped \cup fresh) =
          Cardinality(escaped) + Cardinality(fresh) - Cardinality(escaped \cap fresh)
    BY <1>3, FS_Union
  <2>2. Cardinality(escaped \cap fresh) = 0 BY <1>2, FS_EmptySet
  <2>0. Cardinality(escaped \cup fresh) <= MAX_ESCAPED_EVIDENCE BY <1>2, <1>12
  <2>3. Cardinality(fresh) <= free BY <1>3, <2>0, <2>1, <2>2, IdentityAssumption
  <2>4. \A i \in fresh : Cardinality(Below(i)) < free BY <1>3, <1>4, <1>9, <2>3
  <2> QED BY <2>4
<1> HIDE DEF taken, free
<1> QED BY <1>1, <1>2, <1>11, <1>12

\* Identities found outside the group in one snapshot have different pids.
LEMMA LeavingApart ==
    ASSUME OnceOK, NEW i \in Leaving(sup.observations), NEW j \in Leaving(sup.observations),
           i.pid = j.pid
    PROVE  i = j
BY DEF Leaving, Identities, relevant, OnceOK

\* What update makes of the count, the evidence and the marks.
LEMMA Counted ==
    ASSUME TrackerOK, GhostOK, SnapshotOK, CountOK, OnceOK
    PROVE  LET next == update(tracker, sup.observations, sup.failures)
               seen == ghost.seen \cup Leaving(sup.observations)
           IN /\ next.tracker.escaped_count \in Nat
              /\ next.tracker.escaped_count >= tracker.escaped_count
              /\ next.tracker.escaped_count >= Cardinality(seen)
              /\ next.tracker.escaped \subseteq seen
              /\ \A i \in DOMAIN next.tracker.tracked : next.tracker.tracked[i] => i \in seen
              /\ Cardinality(next.tracker.escaped) <= MAX_ESCAPED_EVIDENCE
              /\ Cardinality(seen) <= MAX_ESCAPED_EVIDENCE =>
                    /\ next.tracker.escaped = seen
                    /\ next.tracker.escaped_count = Cardinality(seen)
              /\ next.frame.escape_observed = (next.tracker.escaped_count > 0)
<1> DEFINE kept == relevant(tracker, sup.observations)
           leaving == Leaving(sup.observations)
           seen == ghost.seen \cup leaving
           marks == [i \in Identities(kept) |-> counted_before(tracker, i) \/ i \in leaving]
           evidence == retain_escaped(tracker.escaped, leaving)
           fresh == newly_counted(tracker, leaving)
           count == tracker.escaped_count + Cardinality(fresh)
           exit_seen == tracker.root_exit_observed
                        \/ \E o \in {o \in sup.observations : o.identity = tracker.root} : o.exited
<1>1. /\ update(tracker, sup.observations, sup.failures).tracker =
            [tracker EXCEPT !.tracked = marks, !.escaped = evidence, !.escaped_count = count,
                            !.root_exit_observed = exit_seen]
      /\ update(tracker, sup.observations, sup.failures).frame.escape_observed = (count > 0)
  BY DEF update, Leaving
<1>2. leaving \in SUBSET IdentitySet /\ seen \in SUBSET IdentitySet
      /\ tracker.escaped \in SUBSET IdentitySet /\ ghost.seen \in SUBSET IdentitySet
  BY DEF relevant, Leaving, Identities, SnapshotOK, GhostOK, TrackerOK
<1>3. \A i : counted_before(tracker, i) => i \in ghost.seen BY DEF counted_before, CountOK
<1>4. \A i \in tracker.escaped : counted_before(tracker, i) BY DEF counted_before
<1>5. fresh \subseteq leaving /\ leaving \ ghost.seen \subseteq fresh
  BY <1>3 DEF newly_counted
<1>6. /\ IsFiniteSet(fresh) /\ Cardinality(fresh) \in Nat /\ Cardinality(seen) \in Nat
      /\ Cardinality(ghost.seen) \in Nat /\ IsFiniteSet(ghost.seen)
      /\ IsFiniteSet(leaving \ ghost.seen) /\ Cardinality(leaving \ ghost.seen) \in Nat
  BY <1>2, <1>5, FiniteIdentities
<1>7. Cardinality(seen) = Cardinality(ghost.seen) + Cardinality(leaving \ ghost.seen)
  <2>1. seen = ghost.seen \cup (leaving \ ghost.seen)
        /\ ghost.seen \cap (leaving \ ghost.seen) = {}
    OBVIOUS
  <2> HIDE DEF seen, leaving
  <2>2. Cardinality(ghost.seen \cap (leaving \ ghost.seen)) = 0 BY <2>1, FS_EmptySet
  <2>3. Cardinality(ghost.seen \cup (leaving \ ghost.seen)) =
          Cardinality(ghost.seen) + Cardinality(leaving \ ghost.seen)
            - Cardinality(ghost.seen \cap (leaving \ ghost.seen))
    BY <1>6, FS_Union
  <2> QED BY <1>6, <2>1, <2>2, <2>3
<1>8. Cardinality(leaving \ ghost.seen) <= Cardinality(fresh) BY <1>5, <1>6, FS_Subset
<1>9. \A i \in DOMAIN marks : marks[i] => i \in seen BY <1>3
<1>10. \A i, j \in leaving : i.pid = j.pid => i = j BY LeavingApart
<1>11. /\ evidence \subseteq tracker.escaped \cup leaving
       /\ Cardinality(evidence) <= MAX_ESCAPED_EVIDENCE
       /\ Cardinality(tracker.escaped \cup leaving) <= MAX_ESCAPED_EVIDENCE =>
             evidence = tracker.escaped \cup leaving
  BY <1>2, <1>10, Retained DEF CountOK
<1>12. tracker.escaped \subseteq ghost.seen BY DEF CountOK
<1>13. ASSUME Cardinality(seen) <= MAX_ESCAPED_EVIDENCE
       PROVE  evidence = seen /\ count = Cardinality(seen)
  <2>1. Cardinality(ghost.seen) <= MAX_ESCAPED_EVIDENCE
    BY <1>6, <1>7, <1>13, IdentityAssumption
  <2>2. tracker.escaped = ghost.seen /\ tracker.escaped_count = Cardinality(ghost.seen)
    BY <2>1 DEF CountOK
  <2>3. fresh = leaving \ ghost.seen BY <1>4, <1>5, <2>2 DEF newly_counted
  <2> HIDE DEF seen, leaving, fresh, evidence
  <2>4. evidence = seen BY <1>11, <1>13, <2>2 DEF seen
  <2> QED BY <1>7, <2>2, <2>3, <2>4
<1>14. tracker.escaped_count \in Nat /\ tracker.escaped_count >= Cardinality(ghost.seen)
  BY DEF CountOK
<1>15. count \in Nat /\ count >= tracker.escaped_count /\ count >= Cardinality(seen)
  <2> HIDE DEF seen, leaving, fresh
  <2> QED BY <1>6, <1>7, <1>8, <1>14
<1>16. evidence \subseteq seen BY <1>11, <1>12
<1> DEFINE after == update(tracker, sup.observations, sup.failures).tracker
<1> HIDE DEF marks, evidence, count, exit_seen, seen, leaving, fresh
<1>17. after.tracked = marks /\ after.escaped = evidence /\ after.escaped_count = count
  BY <1>1 DEF TrackerOK
<1> HIDE DEF after
<1> QED BY <1>1, <1>9, <1>11, <1>13, <1>15, <1>16, <1>17 DEF after, seen, leaving

-----------------------------------------------------------------------------
(* Whom update keeps, and whom it finds outside.                           *)

\* A parent chain of this snapshot that reaches the root starts at a process the
\* root started: the pids of the others are closed under taking the parent.
LEMMA KeptAreOurs ==
    ASSUME TrackerOK, GhostOK, SnapshotOK, NamedOK, OwnOK, ~ghost.recycled, RootPidHeld,
           NEW o \in relevant(tracker, sup.observations)
    PROVE  o.identity \in ghost.ours
<1>1. o \in sup.observations /\ tracker.root = Root /\ tracker.owned_group = RootPid
  BY DEF relevant, TrackerOK
<1>2. CASE o.identity = tracker.root BY <1>1, <1>2 DEF GhostOK
<1>3. CASE o.identity \in DOMAIN tracker.tracked BY <1>3 DEF OwnOK
<1>4. CASE o.process_group_id = tracker.owned_group BY <1>1, <1>4 DEF NamedOK
<1>5. CASE descends_from_root(o, sup.observations, tracker.root.pid)
  <2> SUFFICES ASSUME o.identity \notin ghost.ours PROVE FALSE OBVIOUS
  <2> DEFINE parents == {q.parent_pid : q \in sup.observations}
             others == {p \in parents : ~(p \in Pids /\ IdentityOf(p) \in ghost.ours)}
  <2>1. o.parent_pid \in others BY <1>1 DEF NamedOK, Linked
  <2>2. ASSUME NEW q \in sup.observations, q.identity.pid \in others
        PROVE  q.parent_pid \in others
    <3>1. q.identity.pid \in Pids BY DEF SnapshotOK, Identities, IdentitySet
    <3>2. q.identity \notin ghost.ours BY <2>2, <3>1 DEF NamedOK
    <3> QED BY <3>2 DEF NamedOK, Linked
  <2>3. others \in SUBSET parents OBVIOUS
  <2> HIDE DEF others
  <2>4. tracker.root.pid \in others BY <1>5, <2>1, <2>2, <2>3 DEF descends_from_root
  <2>5. tracker.root.pid = RootPid BY <1>1, IdentityFields DEF Root
  <2>6. IdentityOf(RootPid) = Root BY DEF RootPidHeld, IdentityOf, Root
  <2> QED BY <2>4, <2>5, <2>6, InventoryAssumption DEF others, GhostOK
<1> QED BY <1>2, <1>3, <1>4, <1>5 DEF relevant

\* Who was read outside the group, and is known or the root's child, is found.
LEMMA FoundIsLeaving ==
    ASSUME TrackerOK, NEW i, i # Root, Found(i) PROVE i \in Leaving(sup.observations)
<1>1. PICK o \in sup.observations :
          o.identity = i /\ ~o.exited /\ Outside(i, o.parent_pid, o.process_group_id)
  BY DEF Found
<1>2. tracker.root = Root /\ tracker.owned_group = RootPid /\ tracker.root.pid = RootPid
  BY IdentityFields DEF TrackerOK, Root
<1>3. o \in relevant(tracker, sup.observations)
  <2>1. CASE i \in DOMAIN tracker.tracked BY <1>1, <2>1 DEF relevant
  <2>2. CASE o.parent_pid = RootPid
    <3>1. descends_from_root(o, sup.observations, tracker.root.pid)
      BY <1>2, <2>2 DEF descends_from_root
    <3> QED BY <3>1 DEF relevant
  <2> QED BY <1>1, <2>1, <2>2 DEF Outside
<1>4. escaping(tracker, o) BY <1>1, <1>2 DEF escaping, Outside
<1> QED BY <1>1, <1>3, <1>4 DEF Leaving, Identities

LEMMA StrayIs ==
    ASSUME NEW table, NEW i
    PROVE  i \in Strays(table) <=>
             \E p \in Pids : /\ i = ProcessIdentity(p, table[p].start) /\ i \in ghost.ours
                             /\ table[p].state = "live" /\ table[p].group # RootPid
                             /\ \/ i \in DOMAIN tracker.tracked
                                \/ table[p].parent = RootPid /\ table[RootPid].state = "live"
BY IdentityFields DEF Strays, Alive

\* The root is no stray.
LEMMA StrayIsNotRoot ==
    ASSUME KinOK, NEW i \in Strays(proc) PROVE i # Root
<1>1. PICK p \in Pids : i = ProcessIdentity(p, proc[p].start) /\ proc[p].state = "live"
                        /\ proc[p].group # RootPid
  BY StrayIs
<1>2. ASSUME i = Root PROVE FALSE
  <2>0. ProcessIdentity(p, proc[p].start) = ProcessIdentity(RootPid, 1) BY <1>1, <1>2 DEF Root
  <2>1. p = RootPid /\ proc[RootPid].start = 1 BY <2>0, IdentityFields
  <2> QED BY <1>1, <2>1 DEF KinOK, RootPidHeld, Alive
<1> QED BY <1>2

-----------------------------------------------------------------------------
(* The kernel's steps, as the second invariant sees them.                  *)

\* Nobody becomes or stops being the root's descendant, a pid that had a process
\* keeps its name unless it is reused, and strays only get fewer.
KinDrift ==
    /\ KinOK'
    /\ ghost.ours \subseteq ghost'.ours /\ ghost'.seen = ghost.seen
    /\ ~ghost'.recycled => ~ghost.recycled
    /\ (Taking /\ ~ghost'.recycled) =>
          \A q \in Pids : proc[q].start # 0 =>
              /\ proc'[q].start = proc[q].start
              /\ IdentityOf(q) \in ghost'.ours => IdentityOf(q) \in ghost.ours
    /\ RootPidHeld' => RootPidHeld
    /\ ghost'.outside \subseteq ghost.outside
    /\ ghost.outside \subseteq Strays(proc) => ghost'.outside \subseteq Strays(proc)'

LEMMA KinDriftStep ==
    ASSUME IInv, EscapeInv, KinDrift,
           UNCHANGED <<tracker, sup, root_outcome, sample, escape_detected, report>>
    PROVE  EscapeInv'
<1>1. /\ KinOK /\ OnceOK /\ NamedOK /\ OwnOK /\ CountOK /\ LatchedOK /\ StrayOK /\ StraysAreFound
      /\ SnapshotOK
  BY DEF EscapeInv, IInv
<1>2. Pid' = Pid BY DEF Pid
<1>3. OnceOK' BY <1>1 DEF OnceOK
<1>4. NamedOK'
  <2> SUFFICES ASSUME ~ghost'.recycled PROVE NamedOK' BY DEF NamedOK
  <2>1. ~ghost.recycled BY DEF KinDrift
  <2>2. ASSUME Taking, NEW q \in Pids, proc[q].start # 0
        PROVE  /\ proc'[q].start = proc[q].start /\ IdentityOf(q)' = IdentityOf(q)
               /\ IdentityOf(q)' \in ghost'.ours => IdentityOf(q) \in ghost.ours
    BY <2>2 DEF KinDrift, IdentityOf
  <2>3. ASSUME Taking, NEW pid, NEW i, Linked(pid, i) PROVE Linked(pid, i)'
    BY <2>2, <2>3 DEF Linked, KinDrift
  <2>4. sup.pc \in {"bsd", "second"} =>
           /\ sup.first # 0 /\ sup.first = proc'[Pid].start /\ IdentityOf(Pid)' = IdentityOf(Pid)
    <3> SUFFICES ASSUME sup.pc \in {"bsd", "second"}
                 PROVE  /\ sup.first # 0 /\ sup.first = proc'[Pid].start
                        /\ IdentityOf(Pid)' = IdentityOf(Pid)
      OBVIOUS
    <3>1. Pid \in Pids BY <1>1, PidIsListed DEF Reading
    <3>2. sup.first # 0 /\ sup.first = proc[Pid].start BY <1>1, <2>1 DEF NamedOK
    <3>3. Taking BY DEF Taking
    <3> QED BY <1>2, <2>2, <3>1, <3>2, <3>3 DEF IdentityOf
  <2>5. sup.pc = "second" => Linked(sup.bsd.parent, IdentityOf(Pid))'
    <3>1. sup.pc = "second" => Taking /\ Linked(sup.bsd.parent, IdentityOf(Pid))
      BY <1>1, <2>1 DEF NamedOK, Taking
    <3>2. sup.pc = "second" => Linked(sup.bsd.parent, IdentityOf(Pid)') BY <2>4, <3>1
    <3> QED BY <1>2, <2>2, <2>4, <3>1 DEF Linked, KinDrift
  <2>6. ASSUME NEW o \in sup.observations
        PROVE  /\ proc'[o.identity.pid].start # 0
               /\ o.identity = IdentityOf(o.identity.pid)'
               /\ Linked(o.parent_pid, o.identity)'
               /\ o.process_group_id = RootPid /\ RootPidHeld' => o.identity \in ghost'.ours
    <3>1. o.identity.pid \in Pids BY <1>1 DEF SnapshotOK, Identities, IdentitySet
    <3>2. Taking BY <1>1 DEF OnceOK, Taking, Resting
    <3>3. /\ proc[o.identity.pid].start # 0 /\ o.identity = IdentityOf(o.identity.pid)
          /\ Linked(o.parent_pid, o.identity)
          /\ o.process_group_id = RootPid /\ RootPidHeld => o.identity \in ghost.ours
      BY <1>1, <2>1 DEF NamedOK
    <3>4. Linked(o.parent_pid, o.identity)'
      BY <2>2, <3>2, <3>3 DEF Linked, KinDrift
    <3>5. /\ proc'[o.identity.pid].start = proc[o.identity.pid].start
          /\ IdentityOf(o.identity.pid)' = IdentityOf(o.identity.pid)
      BY <2>2, <3>1, <3>2, <3>3
    <3> QED BY <3>3, <3>4, <3>5 DEF KinDrift
  <2> QED BY <1>2, <2>4, <2>5, <2>6 DEF NamedOK
<1>5. OwnOK' BY <1>1 DEF OwnOK, KinDrift
<1>6. CountOK' BY <1>1 DEF CountOK, KinDrift
<1>7. LatchedOK' BY <1>1 DEF LatchedOK
<1>8. StrayOK'
  <2>1. \A i \in ghost'.outside : i \in ghost.outside BY DEF KinDrift
  <2>2. \A i : Found(i)' <=> Found(i) BY DEF Found, Outside
  <2>3. Missed' <=> Missed BY DEF Missed
  <2>4. \A i, p, g : Outside(i, p, g)' <=> Outside(i, p, g) BY DEF Outside
  <2> QED BY <1>1, <1>2, <2>1, <2>2, <2>3, <2>4 DEF StrayOK, KinDrift
<1>9. StraysAreFound' BY <1>1 DEF StraysAreFound, KinDrift
<1> QED BY <1>3, <1>4, <1>5, <1>6, <1>7, <1>8, <1>9 DEF EscapeInv, KinDrift

\* A newborn takes a free pid, which nobody's parent and no stray has.
LEMMA BirthKin ==
    ASSUME IInv, EscapeInv, UNCHANGED tracker, NEW p \in Pids,
           NEW parent \in Pids \cup {0, Launchd}, NEW group, NEW ours \in BOOLEAN,
           Birth(p, parent, group, ours),
           parent \in Pids =>
               Alive(proc, parent) /\ (IdentityOf(parent) \in ghost.ours => ours)
    PROVE  KinDrift
<1>1. KernelOK /\ GhostOK /\ KinOK BY DEF IInv, EscapeInv
<1>2. RootPid \in Pids BY InventoryAssumption
<1> DEFINE newborn == [state |-> "live", start |-> births + 1, parent |-> parent, group |-> group]
           child == ProcessIdentity(p, births + 1)
           grown == IF ours THEN ghost.ours \cup {child} ELSE ghost.ours
           again == ghost.recycled \/ (Taking /\ proc[p].start # 0)
<1>3. /\ FreePid(p) /\ proc' = [proc EXCEPT ![p] = newborn]
      /\ ghost' = [ghost EXCEPT !.ours = grown, !.recycled = again]
  BY DEF Birth
<1>4. newborn.state = "live" /\ newborn.start = births + 1 /\ newborn.parent = parent OBVIOUS
<1>5. again = (ghost.recycled \/ (Taking /\ proc[p].start # 0)) OBVIOUS
<1> HIDE DEF newborn, again
<1>6. proc'[p] = newborn /\ \A q \in Pids : q # p => proc'[q] = proc[q]
  BY <1>1, <1>3 DEF KernelOK
<1>7. /\ ghost'.ours = grown /\ ghost'.recycled = again /\ ghost'.seen = ghost.seen
      /\ ghost'.outside = ghost.outside
  BY <1>1, <1>3 DEF GhostOK, GhostFields
<1>8. births \in Nat \ {0} BY <1>1 DEF KernelOK
<1>9. \A q \in Pids : Present(q) => q # p BY <1>3 DEF FreePid
<1>10. ASSUME NEW q \in Pids, q # p
       PROVE  /\ IdentityOf(q)' = IdentityOf(q)
              /\ IdentityOf(q) \in ghost'.ours <=> IdentityOf(q) \in ghost.ours
  <2>1. IdentityOf(q)' = IdentityOf(q) BY <1>6, <1>10 DEF IdentityOf
  <2>2. IdentityOf(q) # child BY <1>10, IdentityFields DEF IdentityOf
  <2> QED BY <1>7, <2>1, <2>2
<1>11. IdentityOf(p)' = child BY <1>4, <1>6 DEF IdentityOf
<1>12. RootPidHeld' => RootPidHeld /\ p # RootPid
  BY <1>2, <1>4, <1>6, <1>8 DEF RootPidHeld
<1>13. KinOK'
  <2>1. ASSUME NEW q \in Pids, Present(q)' PROVE proc'[q].start # 0
    <3>1. CASE q = p BY <1>4, <1>6, <1>8, <3>1
    <3>2. CASE q # p BY <1>1, <1>6, <2>1, <3>2 DEF KinOK, Present
    <3> QED BY <3>1, <3>2
  <2>2. ASSUME NEW q \in Pids, proc'[q].parent \in Pids
        PROVE  /\ Alive(proc', proc'[q].parent) /\ proc'[q].parent # q
               /\ IdentityOf(proc[q].parent)' \in ghost'.ours => IdentityOf(q)' \in ghost'.ours
    <3>1. CASE q = p
      <4>1. proc'[q].parent = parent /\ parent \in Pids BY <1>4, <1>6, <2>2, <3>1
      <4>2. Alive(proc, parent) /\ (IdentityOf(parent) \in ghost.ours => ours) BY <4>1
      <4>3. parent # p BY <1>9, <4>1, <4>2 DEF Alive, Present
      <4>4. proc'[parent] = proc[parent] BY <1>6, <4>1, <4>3
      <4>5. IdentityOf(parent)' \in ghost'.ours => ours BY <1>10, <4>1, <4>2, <4>3
      <4>6. ours => child \in ghost'.ours BY <1>7
      <4>7. IdentityOf(proc[q].parent)' = IdentityOf(parent)' BY <4>1 DEF IdentityOf
      <4> QED BY <1>11, <3>1, <4>1, <4>2, <4>3, <4>4, <4>5, <4>6, <4>7 DEF Alive
    <3>2. CASE q # p
      <4>1. PICK x \in Pids : x = proc[q].parent BY <1>6, <2>2, <3>2
      <4>2. proc'[q].parent = x BY <1>6, <3>2, <4>1
      <4>3. Alive(proc, x) /\ x # q /\ (IdentityOf(x) \in ghost.ours => IdentityOf(q) \in ghost.ours)
        BY <1>1, <4>1 DEF KinOK
      <4>4. x # p BY <1>9, <4>3 DEF Alive, Present
      <4>5. proc'[x] = proc[x] BY <1>6, <4>4
      <4>6. IdentityOf(x)' \in ghost'.ours => IdentityOf(x) \in ghost.ours BY <1>10, <4>4
      <4>7. IdentityOf(q) \in ghost.ours => IdentityOf(q)' \in ghost'.ours BY <1>10, <3>2
      <4>8. IdentityOf(proc[q].parent)' = IdentityOf(x)' BY <4>2 DEF IdentityOf
      <4> QED BY <4>2, <4>3, <4>5, <4>6, <4>7, <4>8 DEF Alive
    <3> QED BY <3>1, <3>2
  <2>3. (Alive(proc', RootPid) /\ RootPidHeld') => proc'[RootPid].group = RootPid
    BY <1>1, <1>2, <1>6, <1>12 DEF KinOK, Alive
  <2> QED BY <2>1, <2>2, <2>3 DEF KinOK
<1>14. ASSUME Taking, ~ghost'.recycled, NEW q \in Pids, proc[q].start # 0
       PROVE  /\ proc'[q].start = proc[q].start
              /\ IdentityOf(q) \in ghost'.ours => IdentityOf(q) \in ghost.ours
  <2>1. q # p BY <1>5, <1>7, <1>14
  <2> QED BY <1>6, <1>10, <2>1
<1>15. ASSUME NEW i \in Strays(proc) PROVE i \in Strays(proc)'
  <2>1. PICK q \in Pids : /\ i = ProcessIdentity(q, proc[q].start) /\ i \in ghost.ours
                          /\ proc[q].state = "live" /\ proc[q].group # RootPid
                          /\ \/ i \in DOMAIN tracker.tracked
                             \/ proc[q].parent = RootPid /\ proc[RootPid].state = "live"
    BY StrayIs
  <2>2. proc'[q] = proc[q] BY <1>6, <1>9, <2>1 DEF Present
  <2>3. proc[RootPid].state = "live" => proc'[RootPid] = proc[RootPid]
    BY <1>2, <1>6, <1>9 DEF Present
  <2>4. i \in ghost'.ours BY <1>7, <2>1
  <2> QED BY <2>1, <2>2, <2>3, <2>4, IdentityFields DEF Strays, Alive
<1>16. ghost.ours \subseteq ghost'.ours /\ (~ghost'.recycled => ~ghost.recycled)
  BY <1>5, <1>7
<1> QED BY <1>7, <1>12, <1>13, <1>14, <1>15, <1>16 DEF KinDrift

\* A step of a living or dead process that keeps everyone's token.
LEMMA WitnessKin ==
    ASSUME IInv, EscapeInv, \A q \in Pids : proc'[q].start = proc[q].start,
           ghost'.ours = ghost.ours, ghost'.seen = ghost.seen,
           ghost'.recycled = ghost.recycled,
           ghost'.outside \subseteq ghost.outside,
           ghost.outside \subseteq Strays(proc) => ghost'.outside \subseteq Strays(proc)',
           \A q \in Pids : Present(q)' => Present(q),
           \A q \in Pids : proc'[q].parent \in Pids =>
               proc'[q].parent = proc[q].parent /\ Alive(proc', proc[q].parent),
           (Alive(proc', RootPid) /\ RootPidHeld) => proc'[RootPid].group = RootPid
    PROVE  KinDrift
<1>1. KinOK BY DEF EscapeInv
<1>2. RootPid \in Pids BY InventoryAssumption
<1>3. RootPidHeld' <=> RootPidHeld BY <1>2 DEF RootPidHeld
<1>4. \A q \in Pids : IdentityOf(q)' = IdentityOf(q) BY DEF IdentityOf
<1>5. KinOK'
  <2>1. \A q \in Pids : Present(q)' => proc'[q].start # 0 BY <1>1 DEF KinOK
  <2>2. ASSUME NEW q \in Pids, proc'[q].parent \in Pids
        PROVE  /\ Alive(proc', proc'[q].parent) /\ proc'[q].parent # q
               /\ IdentityOf(proc[q].parent)' \in ghost'.ours => IdentityOf(q)' \in ghost'.ours
    <3>1. PICK x \in Pids : x = proc[q].parent BY <2>2
    <3>2. proc'[q].parent = x /\ Alive(proc', x) BY <2>2, <3>1
    <3>3. x # q /\ (IdentityOf(x) \in ghost.ours => IdentityOf(q) \in ghost.ours)
      BY <1>1, <3>1 DEF KinOK
    <3>4. IdentityOf(x)' = IdentityOf(x) /\ IdentityOf(q)' = IdentityOf(q) BY <1>4
    <3>5. IdentityOf(proc[q].parent)' = IdentityOf(x)' BY <3>2 DEF IdentityOf
    <3> QED BY <3>2, <3>3, <3>4, <3>5
  <2> QED BY <1>3, <2>1, <2>2 DEF KinOK
<1> QED BY <1>3, <1>4, <1>5 DEF KinDrift

LEMMA KernelKin ==
    ASSUME IInv, EscapeInv, Kernel PROVE EscapeInv'
<1>1. KernelOK /\ GhostOK /\ KinOK BY DEF IInv, EscapeInv
<1>2. RootPid \in Pids BY InventoryAssumption
<1>3. proc \in [Pids -> ProcessRecords] BY <1>1 DEF KernelOK
<1>4. UNCHANGED <<tracker, sup, root_outcome, sample, escape_detected, report>> BY DEF Kernel
<1>5. ASSUME NEW table, Witness(table)
      PROVE  /\ ghost'.ours = ghost.ours /\ ghost'.seen = ghost.seen
             /\ ghost'.recycled = ghost.recycled /\ ghost'.outside \subseteq ghost.outside
             /\ ghost'.outside \subseteq Strays(table)
  <2> DEFINE inside == ghost.within \cap Members(table)
             beyond == ghost.outside \cap Strays(table)
  <2>1. ghost' = [ghost EXCEPT !.within = inside, !.outside = beyond] BY <1>5 DEF Witness
  <2>2. beyond \subseteq ghost.outside /\ beyond \subseteq Strays(table) OBVIOUS
  <2> HIDE DEF inside, beyond
  <2> QED BY <1>1, <2>1, <2>2 DEF GhostOK, GhostFields
<1>6. ASSUME ghost'.ours = ghost.ours, NEW i \in Strays(proc') PROVE i \in Strays(proc)'
  BY <1>4, <1>6, IdentityFields DEF Strays, Alive
<1>7. ASSUME NEW q \in Pids, NEW p \in Pids, Fork(q, p) PROVE KinDrift
  <2> DEFINE ours == IdentityOf(q) \in ghost.ours
             group == proc[q].group
  <2>1. Birth(p, q, group, ours) /\ Alive(proc, q) BY <1>7 DEF Fork
  <2>2. ours \in BOOLEAN /\ (IdentityOf(q) \in ghost.ours => ours) OBVIOUS
  <2> HIDE DEF ours, group
  <2> QED BY <1>4, <2>1, <2>2, BirthKin
<1>8. ASSUME NEW p \in Pids, StrangerStarts(p) PROVE KinDrift
  <2>1. Birth(p, Launchd, p, FALSE) BY <1>8 DEF StrangerStarts
  <2>2. Launchd \notin Pids BY InventoryAssumption DEF Launchd
  <2> QED BY <1>4, <2>1, <2>2, BirthKin
<1>9. ASSUME NEW p \in Pids, LeaveGroup(p) PROVE KinDrift
  <2>1. /\ proc' = [proc EXCEPT ![p] = [@ EXCEPT !.group = p]]
        /\ p # RootPid /\ Witness(proc')
    BY <1>9 DEF LeaveGroup
  <2>2. /\ ghost'.ours = ghost.ours /\ ghost'.seen = ghost.seen
        /\ ghost'.recycled = ghost.recycled /\ ghost'.outside \subseteq ghost.outside
        /\ ghost'.outside \subseteq Strays(proc')
    BY <1>5, <2>1
  <2>3. \A q \in Pids : /\ proc'[q].start = proc[q].start /\ proc'[q].state = proc[q].state
                        /\ proc'[q].parent = proc[q].parent
                        /\ q # p => proc'[q] = proc[q]
    BY <1>3, <2>1 DEF ProcessRecords
  <2>4. \A q \in Pids : proc'[q].parent \in Pids => Alive(proc', proc[q].parent)
    BY <1>1, <2>3 DEF KinOK, Alive
  <2>5. (Alive(proc', RootPid) /\ RootPidHeld) => proc'[RootPid].group = RootPid
    BY <1>1, <1>2, <2>1, <2>3 DEF KinOK, Alive
  <2> QED BY <1>6, <2>2, <2>3, <2>4, <2>5, WitnessKin DEF Present
<1>10. ASSUME NEW p \in Pids, Exit(p) PROVE KinDrift
  <2>1. /\ proc' = [q \in Pids |->
                       IF q = p THEN [proc[p] EXCEPT !.state = "zombie"]
                       ELSE IF proc[q].parent = p THEN [proc[q] EXCEPT !.parent = Launchd]
                       ELSE proc[q]]
        /\ Witness(proc') /\ proc[p].state = "live"
    BY <1>10 DEF Exit, Alive
  <2>2. /\ ghost'.ours = ghost.ours /\ ghost'.seen = ghost.seen
        /\ ghost'.recycled = ghost.recycled /\ ghost'.outside \subseteq ghost.outside
        /\ ghost'.outside \subseteq Strays(proc')
    BY <1>5, <2>1
  <2>3. ASSUME NEW q \in Pids
        PROVE  /\ proc'[q].start = proc[q].start /\ proc'[q].group = proc[q].group
               /\ q # p => proc'[q].state = proc[q].state
               /\ proc'[p].state = "zombie"
               /\ q # p => proc'[q].parent = IF proc[q].parent = p THEN Launchd ELSE proc[q].parent
               /\ proc'[p].parent = proc[p].parent
    <3>1. proc[q] \in ProcessRecords /\ proc[p] \in ProcessRecords BY <1>3
    <3> QED BY <2>1, <3>1 DEF ProcessRecords
  <2>4. ASSUME NEW q \in Pids, proc'[q].parent \in Pids
        PROVE  proc'[q].parent = proc[q].parent /\ Alive(proc', proc[q].parent)
    <3>1. Launchd \notin Pids BY InventoryAssumption DEF Launchd
    <3>2. CASE q = p
      <4>1. proc'[q].parent = proc[q].parent /\ proc[q].parent \in Pids BY <2>3, <2>4, <3>2
      <4>2. Alive(proc, proc[p].parent) /\ proc[p].parent # p BY <1>1, <3>2, <4>1 DEF KinOK
      <4> QED BY <2>3, <3>2, <4>1, <4>2 DEF Alive
    <3>3. CASE q # p
      <4>1. proc'[q].parent = proc[q].parent /\ proc[q].parent \in Pids /\ proc[q].parent # p
        BY <2>3, <2>4, <3>1, <3>3
      <4>2. Alive(proc, proc[q].parent) BY <1>1, <4>1 DEF KinOK
      <4> QED BY <2>3, <4>1, <4>2 DEF Alive
    <3> QED BY <3>2, <3>3
  <2>5. (Alive(proc', RootPid) /\ RootPidHeld) => proc'[RootPid].group = RootPid
    BY <1>1, <1>2, <2>1, <2>3 DEF KinOK, Alive
  <2>6. \A q \in Pids : Present(q)' => Present(q) BY <2>1, <2>3 DEF Present
  <2> QED BY <1>6, <2>2, <2>3, <2>4, <2>5, <2>6, WitnessKin
<1>11. ASSUME NEW p \in Pids, Reap(p) PROVE KinDrift
  <2>1. /\ proc' = [proc EXCEPT ![p] = Gone(proc[p])] /\ proc[p].state = "zombie"
        /\ ghost' = ghost
    BY <1>11 DEF Reap
  <2>2. /\ Gone(proc[p]).start = proc[p].start /\ Gone(proc[p]).state = "none"
        /\ Gone(proc[p]).parent = 0
    <3>1. proc[p] \in ProcessRecords BY <1>3
    <3> QED BY <3>1 DEF Gone, ProcessRecords
  <2>3. /\ proc'[p] = Gone(proc[p]) /\ \A q \in Pids : q # p => proc'[q] = proc[q]
        /\ \A q \in Pids : proc'[q].start = proc[q].start
    BY <1>3, <2>1, <2>2
  <2>4. 0 \notin Pids BY InventoryAssumption
  <2>5. ASSUME NEW q \in Pids, proc'[q].parent \in Pids
        PROVE  proc'[q].parent = proc[q].parent /\ Alive(proc', proc[q].parent)
    <3>1. q # p /\ proc'[q].parent = proc[q].parent BY <2>2, <2>3, <2>4, <2>5
    <3>2. Alive(proc, proc[q].parent) BY <1>1, <2>5, <3>1 DEF KinOK
    <3> QED BY <2>1, <2>3, <2>5, <3>1, <3>2 DEF Alive
  <2>6. (Alive(proc', RootPid) /\ RootPidHeld) => proc'[RootPid].group = RootPid
    BY <1>1, <1>2, <2>2, <2>3 DEF KinOK, Alive
  <2>7. ASSUME NEW i \in Strays(proc) PROVE i \in Strays(proc)'
    <3>1. PICK q \in Pids : /\ i = ProcessIdentity(q, proc[q].start) /\ i \in ghost.ours
                            /\ proc[q].state = "live" /\ proc[q].group # RootPid
                            /\ \/ i \in DOMAIN tracker.tracked
                               \/ proc[q].parent = RootPid /\ proc[RootPid].state = "live"
      BY StrayIs
    <3>2. proc'[q] = proc[q] BY <2>1, <2>3, <3>1
    <3>3. proc[RootPid].state = "live" => proc'[RootPid] = proc[RootPid] BY <1>2, <2>1, <2>3
    <3>4. i \in Strays(proc') BY <3>1, <3>2, <3>3, StrayIs
    <3> QED BY <1>6, <2>1, <3>4
  <2>8. \A q \in Pids : Present(q)' => Present(q) BY <2>2, <2>3 DEF Present
  <2> QED BY <2>1, <2>3, <2>5, <2>6, <2>7, <2>8, WitnessKin
<1>12. KinDrift BY <1>7, <1>8, <1>9, <1>10, <1>11 DEF Kernel
<1> QED BY <1>4, <1>12, KinDriftStep

-----------------------------------------------------------------------------
(* The supervisor's steps, as the second invariant sees them.              *)

\* A call that leaves the table alone leaves the kin alone.
LEMMA KinStays ==
    ASSUME KinOK, proc' = proc, ghost'.ours = ghost.ours
    PROVE  /\ KinOK' /\ (RootPidHeld' <=> RootPidHeld)
           /\ \A p \in Pids : IdentityOf(p)' = IdentityOf(p)
BY DEF KinOK, RootPidHeld, IdentityOf, Present

\* A step that ends between snapshots.
LEMMA RestEscapes ==
    ASSUME EscapeInv, NEW pc \in Resting \cup {"kill"}, sup' = Idle(pc),
           KinOK', RootPidHeld' => RootPidHeld, UNCHANGED tracker,
           ghost'.ours = ghost.ours, ghost'.seen = ghost.seen, ghost'.recycled = ghost.recycled,
           pc = "returned" => report' # None,
           pc \notin {"again", "returned"} => escape_detected' = (tracker.escaped_count > 0),
           StraysAreFound'
    PROVE  EscapeInv'
<1>1. OwnOK /\ CountOK BY DEF EscapeInv
<1>2. /\ sup'.pc = pc /\ sup'.mode = "sample" /\ sup'.observations = {} BY DEF Idle
<1>3. pc \notin Reading \cup {"group", "children", "end", "exists"} BY DEF Resting, Reading
<1>4. OnceOK' BY <1>2, <1>3 DEF OnceOK
<1>5. NamedOK' BY <1>2, <1>3 DEF NamedOK, Reading
<1>6. OwnOK' BY <1>1 DEF OwnOK
<1>7. CountOK' BY <1>1 DEF CountOK
<1>8. LatchedOK' BY <1>2, <1>3 DEF LatchedOK
<1>9. StrayOK' BY <1>2, <1>3 DEF StrayOK, Reading
<1> QED BY <1>4, <1>5, <1>6, <1>7, <1>8, <1>9 DEF EscapeInv

LEMMA PollEscapes ==
    ASSUME IInv, EscapeInv, Poll PROVE EscapeInv'
<1>1. KernelOK /\ KinOK /\ LatchedOK /\ StraysAreFound BY DEF IInv, EscapeInv
<1>2. RootPid \in Pids /\ proc \in [Pids -> ProcessRecords]
  BY <1>1, InventoryAssumption DEF KernelOK
<1> DEFINE zombie == proc[RootPid].state = "zombie" /\ IdentityOf(RootPid) = Root
           pc == IF root_outcome' /\ ~owned_group_exists' THEN "over" ELSE "work"
<1>3. /\ proc' = IF zombie THEN [proc EXCEPT ![RootPid] = Gone(proc[RootPid])] ELSE proc
      /\ sup' = Idle(pc) /\ sup.pc = "poll"
      /\ UNCHANGED <<births, tracker, sample, escape_detected, report, budget, ghost>>
  BY DEF Poll
<1>4. pc \in Resting \cup {"kill"} /\ pc \notin {"again", "returned"} BY DEF Resting
<1> HIDE DEF pc
<1>5. /\ Gone(proc[RootPid]).start = proc[RootPid].start /\ Gone(proc[RootPid]).state = "none"
      /\ Gone(proc[RootPid]).parent = 0
  <2>1. proc[RootPid] \in ProcessRecords BY <1>2
  <2> QED BY <2>1 DEF Gone, ProcessRecords
<1>6. /\ \A q \in Pids : proc'[q].start = proc[q].start
      /\ \A q \in Pids : \/ proc'[q] = proc[q]
                         \/ /\ proc'[q].state = "none" /\ proc'[q].parent = 0
                            /\ proc[q].state = "zombie"
  BY <1>2, <1>3, <1>5
<1> HIDE DEF zombie
<1>7. ASSUME NEW q \in Pids, proc'[q].parent \in Pids
      PROVE  proc'[q].parent = proc[q].parent /\ Alive(proc', proc[q].parent)
  <2>1. 0 \notin Pids BY InventoryAssumption
  <2>2. proc'[q] = proc[q] BY <1>6, <1>7, <2>1
  <2>3. PICK x \in Pids : x = proc[q].parent BY <1>7, <2>2
  <2>4. proc[x].state = "live" BY <1>1, <2>3 DEF KinOK, Alive
  <2>5. proc'[x] = proc[x] BY <1>6, <2>4
  <2> QED BY <2>2, <2>3, <2>4, <2>5 DEF Alive
<1>8. ASSUME NEW i \in Strays(proc) PROVE i \in Strays(proc)'
  <2>1. PICK q \in Pids : /\ i = ProcessIdentity(q, proc[q].start) /\ i \in ghost.ours
                          /\ proc[q].state = "live" /\ proc[q].group # RootPid
                          /\ \/ i \in DOMAIN tracker.tracked
                             \/ proc[q].parent = RootPid /\ proc[RootPid].state = "live"
    BY StrayIs
  <2>2. proc'[q] = proc[q] BY <1>6, <2>1
  <2>3. proc[RootPid].state = "live" => proc'[RootPid] = proc[RootPid] BY <1>2, <1>6
  <2> QED BY <1>3, <2>1, <2>2, <2>3, IdentityFields DEF Strays, Alive
<1>9. (Alive(proc', RootPid) /\ RootPidHeld) => proc'[RootPid].group = RootPid
  BY <1>1, <1>2, <1>6 DEF KinOK, Alive
<1>10. \A q \in Pids : Present(q)' => Present(q) BY <1>6 DEF Present
<1>11. KinDrift BY <1>3, <1>6, <1>7, <1>8, <1>9, <1>10, WitnessKin
<1>12. KinOK' /\ (RootPidHeld' => RootPidHeld) BY <1>11 DEF KinDrift
<1>13. StraysAreFound' BY <1>1, <1>3 DEF StraysAreFound
<1>14. escape_detected' = (tracker.escaped_count > 0) BY <1>1, <1>3 DEF LatchedOK, Resting
<1> QED BY <1>3, <1>4, <1>12, <1>13, <1>14, RestEscapes

LEMMA StartSnapshotEscapes ==
    ASSUME IInv, EscapeInv, NEW mode \in {"sample", "cleanup"}, NEW from,
           mode = "sample" => from = {"work"}, StartSnapshot(mode, from)
    PROVE  EscapeInv'
<1>1. GhostOK /\ KinOK /\ OwnOK /\ CountOK /\ LatchedOK BY DEF IInv, EscapeInv
<1> DEFINE inside == Members(proc)
           beyond == Strays(proc)
           scope == snapshot_scope
<1>2. /\ sup.pc \in from /\ sample' = None
      /\ sup' = [Idle("group") EXCEPT !.mode = mode, !.relevant = scope]
      /\ ghost' = [ghost EXCEPT !.within = inside, !.outside = beyond]
      /\ UNCHANGED <<proc, tracker, escape_detected, report>>
  BY DEF StartSnapshot, kernel
<1>3. \A i \in DOMAIN tracker.tracked : i.pid \in scope BY DEF snapshot_scope
<1> HIDE DEF inside, beyond, scope
<1>4. /\ ghost'.ours = ghost.ours /\ ghost'.seen = ghost.seen
      /\ ghost'.recycled = ghost.recycled /\ ghost'.outside = beyond
  BY <1>1, <1>2 DEF GhostOK, GhostFields
<1>5. /\ sup'.pc = "group" /\ sup'.mode = mode /\ sup'.relevant = scope
      /\ sup'.observations = {}
  BY <1>2 DEF Idle
<1>6. KinOK' /\ (RootPidHeld' <=> RootPidHeld) BY <1>1, <1>2, <1>4, KinStays
<1>7. OnceOK' /\ NamedOK' BY <1>5 DEF OnceOK, NamedOK
<1>8. OwnOK' BY <1>1, <1>2, <1>4, <1>6 DEF OwnOK
<1>9. CountOK' BY <1>1, <1>2, <1>4 DEF CountOK
<1>10. LatchedOK' BY <1>1, <1>2, <1>5 DEF LatchedOK, Resting
<1>11. beyond \subseteq Strays(proc)'
  BY <1>2, <1>4 DEF beyond, Strays, Alive
<1>12. StrayOK' BY <1>2, <1>3, <1>4, <1>5, <1>11 DEF StrayOK, Reading
<1>13. StraysAreFound' BY <1>2 DEF StraysAreFound
<1> QED BY <1>6, <1>7, <1>8, <1>9, <1>10, <1>12, <1>13 DEF EscapeInv

\* A call of a snapshot in progress: only the supervisor's place changes.
LEMMA CallEscapes ==
    ASSUME EscapeInv, UNCHANGED quiet, sup'.mode = sup.mode,
           sup.pc \in Reading \cup {"group", "children"},
           sup'.pc \in Reading \cup {"children", "end"},
           OnceOK', NamedOK', StrayOK'
    PROVE  EscapeInv'
<1>1. KinOK /\ OwnOK /\ CountOK /\ LatchedOK /\ StraysAreFound BY DEF EscapeInv
<1>2. UNCHANGED <<proc, births, tracker, root_outcome, sample, escape_detected, report, ghost>>
  BY DEF quiet, kernel
<1>3. KinOK' /\ (RootPidHeld' <=> RootPidHeld) BY <1>1, <1>2, KinStays
<1>4. OwnOK' /\ CountOK' BY <1>1, <1>2, <1>3 DEF OwnOK, CountOK
<1>5. LatchedOK' BY <1>1, <1>2 DEF LatchedOK, Resting, Reading
<1>6. StraysAreFound' BY <1>1, <1>2 DEF StraysAreFound
<1> QED BY <1>3, <1>4, <1>5, <1>6 DEF EscapeInv

\* A snapshot that has observed nobody yet lists more pids.
LEMMA ListedEscapes ==
    ASSUME IInv, EscapeInv, UNCHANGED quiet, sup.pc \in {"group", "children"},
           NEW pids, NEW pending, pending \in Seq(Range(pending)),
           Listed(sup.relevant \cup pids, pending),
           sup.mode = "sample" =>
               \/ RootPid \in Range(pending)
               \/ \A i \in ghost.outside : i.pid \in sup.relevant \cup pids
    PROVE  EscapeInv'
<1> DEFINE listed == sup.relevant \cup pids
<1>1. SnapshotOK /\ OnceOK /\ StrayOK BY DEF IInv, EscapeInv
<1>2. UNCHANGED <<proc, tracker, ghost>> BY DEF quiet, kernel
<1>3. sup' = IF pending = << >> THEN [Idle("first") EXCEPT !.mode = sup.mode, !.todo = listed]
             ELSE [sup EXCEPT !.pc = "children", !.relevant = listed, !.pending = pending]
  BY DEF Listed
<1>4. sup.observations = {} BY <1>1 DEF OnceOK
<1>5. Strays(proc)' = Strays(proc) BY <1>2 DEF Strays, Alive
<1>6. sup.mode = "sample" =>
         /\ ghost.outside \subseteq Strays(proc)
         /\ \A i \in ghost.outside : i \in DOMAIN tracker.tracked => i.pid \in listed
  BY <1>1 DEF StrayOK
<1> HIDE DEF listed
<1>7. CASE pending = << >>
  <2>1. /\ sup'.pc = "first" /\ sup'.mode = sup.mode
        /\ sup'.todo = listed /\ sup'.observations = {}
    BY <1>3, <1>7 DEF Idle
  <2>2. OnceOK' /\ NamedOK' BY <2>1 DEF OnceOK, NamedOK
  <2>3. Range(pending) = {} BY <1>7 DEF Range
  <2>4. sup.mode = "sample" => \A i \in ghost.outside : i.pid \in listed BY <2>3 DEF listed
  <2>5. StrayOK' BY <1>2, <1>5, <1>6, <2>1, <2>4 DEF StrayOK
  <2> QED BY <2>1, <2>2, <2>5, CallEscapes DEF Reading
<1>8. CASE pending # << >>
  <2>1. /\ sup'.pc = "children" /\ sup'.mode = sup.mode /\ sup'.relevant = listed
        /\ sup'.pending = pending /\ sup'.observations = {}
    BY <1>1, <1>3, <1>4, <1>8 DEF SnapshotOK, SupFields
  <2>2. OnceOK' /\ NamedOK' BY <1>8, <2>1 DEF OnceOK, NamedOK
  <2>3. sup.mode = "sample" =>
           RootPid \in Range(pending) \/ \A i \in ghost.outside : i.pid \in listed
    BY DEF listed
  <2>4. StrayOK' BY <1>2, <1>5, <1>6, <1>8, <2>1, <2>3 DEF StrayOK, Reading
  <2> QED BY <2>1, <2>2, <2>4, CallEscapes
<1> QED BY <1>7, <1>8

LEMMA ListGroupEscapes ==
    ASSUME IInv, EscapeInv, ListGroup PROVE EscapeInv'
<1>1. SnapshotOK BY DEF IInv
<1>2. PICK pids \in list_related_pids("group", RootPid) :
          Listed(sup.relevant \cup pids, Ascending(sup.relevant \cup pids))
  BY DEF ListGroup
<1>3. pids \subseteq Pids BY <1>2 DEF list_related_pids
<1>4. sup.pc = "group" /\ UNCHANGED quiet BY DEF ListGroup
<1>5. sup.relevant \cup pids \in SUBSET Pids /\ RootPid \in sup.relevant \cup pids
  BY <1>1, <1>3, <1>4 DEF SnapshotOK
<1> DEFINE pending == Ascending(sup.relevant \cup pids)
<1>6. pending \in Seq(Range(pending)) /\ RootPid \in Range(pending)
  BY <1>5, AscendingIsSeq, AscendingHolds
<1> HIDE DEF pending
<1>7. Listed(sup.relevant \cup pids, pending) BY <1>2 DEF pending
<1> QED BY <1>4, <1>6, <1>7, ListedEscapes

LEMMA Queued ==
    ASSUME NEW s, s \in Seq(Range(s)), s # << >>, NEW t, t \in Seq(Range(t))
    PROVE  /\ Tail(s) \o t \in Seq(Range(Tail(s) \o t))
           /\ \A p \in Range(s) : p = Head(s) \/ p \in Range(Tail(s) \o t)
<1> DEFINE u == Tail(s) \o t
           A == Range(s) \cup Range(t)
<1>1. s \in Seq(A) /\ t \in Seq(A) OBVIOUS
<1>2. Tail(s) \in Seq(A) /\ u \in Seq(A) /\ Len(s) \in Nat \ {0} BY <1>1
<1>3. /\ Len(Tail(s)) = Len(s) - 1 /\ Len(u) = Len(s) - 1 + Len(t)
      /\ \A n \in 1 .. Len(s) - 1 : u[n] = s[n + 1]
  BY <1>1, <1>2
<1>4. Len(t) \in Nat BY <1>1
<1>5. DOMAIN s = 1 .. Len(s) /\ DOMAIN u = 1 .. Len(u) BY <1>1, <1>2
<1>6. Head(s) = s[1] OBVIOUS
<1> HIDE DEF u, A
<1>7. u \in Seq(Range(u))
  <2>1. Len(u) \in Nat /\ u \in [1 .. Len(u) -> A] BY <1>2
  <2>2. u \in [1 .. Len(u) -> Range(u)] BY <1>5, <2>1 DEF Range
  <2> QED BY <2>1, <2>2
<1>8. ASSUME NEW p \in Range(s) PROVE p = Head(s) \/ p \in Range(u)
  <2>1. PICK n \in 1 .. Len(s) : p = s[n] BY <1>5 DEF Range
  <2>2. CASE n = 1 BY <1>6, <2>1, <2>2
  <2>3. CASE n # 1
    <3>1. n - 1 \in 1 .. Len(s) - 1 /\ n - 1 \in 1 .. Len(u) /\ (n - 1) + 1 = n
      BY <1>2, <1>3, <1>4, <2>1, <2>3
    <3>2. u[n - 1] = p BY <1>3, <2>1, <3>1
    <3> QED BY <1>5, <3>1, <3>2 DEF Range
  <2> QED BY <2>2, <2>3
<1> QED BY <1>7, <1>8 DEF u

\* The root's living children are listed when its turn in the queue comes.
LEMMA ListChildrenEscapes ==
    ASSUME IInv, EscapeInv, ListChildren PROVE EscapeInv'
<1>1. SnapshotOK /\ OnceOK /\ StrayOK BY DEF IInv, EscapeInv
<1>2. PICK pids \in list_related_pids("parent", Head(sup.pending)) :
          Listed(sup.relevant \cup pids, Tail(sup.pending) \o Ascending(pids \ sup.relevant))
  BY DEF ListChildren
<1>3. /\ pids \subseteq Pids
      /\ \A p \in Pids : (proc[p].state = "live" /\ proc[p].parent = Head(sup.pending)) => p \in pids
  BY <1>2 DEF list_related_pids
<1>4. sup.pc = "children" /\ UNCHANGED quiet BY DEF ListChildren
<1>5. sup.pending \in Seq(Range(sup.pending)) /\ sup.pending # << >>
  BY <1>1, <1>4 DEF OnceOK
<1> DEFINE more == Ascending(pids \ sup.relevant)
           pending == Tail(sup.pending) \o more
<1>6. more \in Seq(Range(more)) BY <1>3, AscendingIsSeq
<1> HIDE DEF more
<1>7. /\ pending \in Seq(Range(pending))
      /\ \A p \in Range(sup.pending) : p = Head(sup.pending) \/ p \in Range(pending)
  BY <1>5, <1>6, Queued
<1>8. Listed(sup.relevant \cup pids, pending) BY <1>2 DEF more
<1> HIDE DEF pending
<1>9. ASSUME sup.mode = "sample"
      PROVE  \/ RootPid \in Range(pending)
             \/ \A i \in ghost.outside : i.pid \in sup.relevant \cup pids
  <2>1. /\ ghost.outside \subseteq Strays(proc)
        /\ \A i \in ghost.outside : i \in DOMAIN tracker.tracked => i.pid \in sup.relevant
        /\ RootPid \in Range(sup.pending) \/ \A i \in ghost.outside : i.pid \in sup.relevant
    BY <1>1, <1>4, <1>9 DEF StrayOK
  <2>2. CASE RootPid = Head(sup.pending)
    <3> SUFFICES ASSUME NEW i \in ghost.outside PROVE i.pid \in sup.relevant \cup pids OBVIOUS
    <3>1. PICK q \in Pids : /\ i = ProcessIdentity(q, proc[q].start)
                            /\ proc[q].state = "live"
                            /\ i \in DOMAIN tracker.tracked \/ proc[q].parent = RootPid
      BY <2>1, StrayIs
    <3>2. i.pid = q BY <3>1, IdentityFields
    <3> QED BY <1>3, <2>1, <2>2, <3>1, <3>2
  <2>3. CASE RootPid # Head(sup.pending) BY <1>7, <2>1, <2>3
  <2> QED BY <2>2, <2>3
<1> QED BY <1>4, <1>7, <1>8, <1>9, ListedEscapes

\* A stray that has the pid being read is the process found there.
LEMMA StrayIsRead ==
    ASSUME StrayOK, sup.mode = "sample", sup.pc \in Reading, NEW i \in ghost.outside, i.pid = Pid
    PROVE  /\ proc[Pid].state = "live" /\ i = IdentityOf(Pid)
           /\ Outside(i, proc[Pid].parent, proc[Pid].group)
<1>1. i \in Strays(proc) BY DEF StrayOK
<1>2. PICK q \in Pids : /\ i = ProcessIdentity(q, proc[q].start)
                        /\ proc[q].state = "live" /\ proc[q].group # RootPid
                        /\ i \in DOMAIN tracker.tracked \/ proc[q].parent = RootPid
  BY <1>1, StrayIs
<1>3. q = Pid BY <1>2, IdentityFields
<1> QED BY <1>2, <1>3 DEF IdentityOf, Outside

\* The pid is done with: a stray that has it was found, or is missed.
LEMMA AdvanceEscapes ==
    ASSUME IInv, EscapeInv, UNCHANGED quiet, sup.pc \in Reading, Advances, OnceOK', NamedOK',
           sup.mode = "sample" => \A i \in ghost.outside : i.pid = Pid => Found(i)' \/ Missed'
    PROVE  EscapeInv'
<1>1. SnapshotOK /\ StrayOK BY DEF IInv, EscapeInv
<1>2. UNCHANGED <<proc, tracker, ghost>> BY DEF quiet, kernel
<1>3. sup'.pc \in {"end", "first"} /\ sup'.mode = sup.mode BY DEF Advances
<1>4. Strays(proc)' = Strays(proc) BY <1>2 DEF Strays, Alive
<1>5. ASSUME sup.mode = "sample", NEW i \in ghost.outside
      PROVE  i.pid \in sup'.todo \/ Found(i)' \/ Missed'
  <2>1. i.pid \in sup.todo \/ Found(i) \/ Missed BY <1>1, <1>5 DEF StrayOK
  <2>2. CASE i.pid \in sup.todo BY <1>5, <2>2 DEF Advances
  <2>3. CASE Found(i) BY <1>2, <2>3 DEF Advances, Found, Outside
  <2>4. CASE Missed BY <2>4 DEF Advances, Missed
  <2> QED BY <2>1, <2>2, <2>3, <2>4
<1>6. StrayOK' BY <1>1, <1>2, <1>3, <1>4, <1>5 DEF StrayOK, Reading
<1> QED BY <1>3, <1>6, CallEscapes DEF Reading

LEMMA FailedEscapes ==
    ASSUME IInv, EscapeInv, UNCHANGED quiet, sup.pc \in Reading,
           NEW kind, Failed(kind), kind = "Disappeared" => proc[Pid].state # "live"
    PROVE  EscapeInv'
<1>1. SnapshotOK /\ OnceOK /\ NamedOK /\ StrayOK BY DEF IInv, EscapeInv
<1> DEFINE after == IF sup.todo = {Pid} THEN "end" ELSE "first"
           left == sup.todo \ {Pid}
           failures == sup.failures \cup {ObservationFailure(Pid, kind)}
<1>2. sup' = [[sup EXCEPT !.pc = after, !.todo = left, !.first = None, !.bsd = None]
                 EXCEPT !.failures = failures]
  BY <1>1 DEF Failed, Next_pid, SnapshotOK, SupFields
<1>3. sup.failures \subseteq failures
      /\ ObservationFailure(Pid, kind) \in failures /\ ObservationFailure(Pid, kind).kind = kind
  BY DEF ObservationFailure
<1>4. after \in {"end", "first"} /\ left \subseteq sup.todo OBVIOUS
<1> HIDE DEF after, left, failures
<1>5. /\ DOMAIN sup' = SupFields /\ sup'.pc = after /\ sup'.mode = sup.mode
      /\ sup'.relevant = sup.relevant /\ sup'.todo = left
      /\ sup'.observations = sup.observations /\ sup'.failures = failures
  BY <1>1, <1>2 DEF SnapshotOK, SupFields
<1>6. Advances BY <1>3, <1>5 DEF Advances, after, left
<1>7. OnceOK' BY <1>1, <1>4, <1>5 DEF OnceOK, Resting
<1>8. UNCHANGED <<proc, ghost>> BY DEF quiet, kernel
<1>9. NamedOK' BY <1>1, <1>4, <1>5, <1>8 DEF NamedOK, Linked, IdentityOf, RootPidHeld
<1>10. sup.mode = "sample" => \A i \in ghost.outside : i.pid = Pid => Found(i)' \/ Missed'
  <2>1. CASE kind = "Disappeared" BY <1>1, <2>1, StrayIsRead
  <2>2. CASE kind # "Disappeared" BY <1>3, <1>5, <2>2 DEF Missed
  <2> QED BY <2>1, <2>2
<1> QED BY <1>6, <1>7, <1>9, <1>10, AdvanceEscapes

LEMMA ObservedEscapes ==
    ASSUME IInv, EscapeInv, UNCHANGED quiet, sup.pc \in Reading, Present(Pid),
           NEW parent, NEW group, NEW exited \in BOOLEAN,
           Observed(IdentityOf(Pid), parent, group, exited),
           ~ghost.recycled => Linked(parent, IdentityOf(Pid)),
           (group = RootPid /\ RootPidHeld) => IdentityOf(Pid) \in ghost.ours,
           sup.mode = "sample" =>
               \A i \in ghost.outside : i.pid = Pid => ~exited /\ Outside(i, parent, group)
    PROVE  EscapeInv'
<1>1. SnapshotOK /\ KinOK /\ OnceOK /\ NamedOK /\ StrayOK BY DEF IInv, EscapeInv
<1>2. Pid \in sup.todo /\ Pid \in Pids BY <1>1, PidIsListed
<1> DEFINE after == IF sup.todo = {Pid} THEN "end" ELSE "first"
           left == sup.todo \ {Pid}
           it == ProcessObservation(IdentityOf(Pid), parent, group, 1, exited)
           found == sup.observations \cup {it}
<1>3. sup' = [[sup EXCEPT !.pc = after, !.todo = left, !.first = None, !.bsd = None]
                 EXCEPT !.observations = found]
  BY <1>1 DEF Observed, Next_pid, SnapshotOK, SupFields
<1>4. /\ it.identity = IdentityOf(Pid) /\ it.parent_pid = parent
      /\ it.process_group_id = group /\ it.exited = exited
  BY DEF ProcessObservation
<1>5. after \in {"end", "first"} /\ left \subseteq sup.todo /\ Pid \notin left OBVIOUS
<1> HIDE DEF after, left, it, found
<1>6. /\ DOMAIN sup' = SupFields /\ sup'.pc = after /\ sup'.mode = sup.mode
      /\ sup'.relevant = sup.relevant /\ sup'.todo = left
      /\ sup'.observations = found /\ sup'.failures = sup.failures
  BY <1>1, <1>3 DEF SnapshotOK, SupFields
<1>7. Advances BY <1>6 DEF Advances, after, left, found
<1>8. UNCHANGED <<proc, tracker, ghost>> BY DEF quiet, kernel
<1>9. IdentityOf(Pid).pid = Pid BY IdentityFields DEF IdentityOf
<1>10. \A o \in sup.observations : o.identity.pid \notin sup.todo BY <1>1 DEF OnceOK
<1>11. OnceOK'
  <2>1. \A o \in found : o.identity.pid \notin left BY <1>4, <1>5, <1>9, <1>10 DEF found
  <2>2. \A o, q \in found : o.identity.pid = q.identity.pid => o = q
    <3>1. \A o \in sup.observations : o.identity.pid # it.identity.pid
      BY <1>2, <1>4, <1>9, <1>10
    <3> QED BY <1>1, <3>1 DEF OnceOK, found
  <2>3. after \notin Resting \cup {"group", "children", "kill"} BY <1>5 DEF Resting
  <2> QED BY <1>6, <2>1, <2>2, <2>3 DEF OnceOK
<1>12. NamedOK'
  <2> SUFFICES ASSUME ~ghost.recycled, NEW o \in found
               PROVE  /\ proc[o.identity.pid].start # 0
                      /\ o.identity = IdentityOf(o.identity.pid)
                      /\ Linked(o.parent_pid, o.identity)
                      /\ o.process_group_id = RootPid /\ RootPidHeld => o.identity \in ghost.ours
    BY <1>5, <1>6, <1>8 DEF NamedOK, Linked, IdentityOf, RootPidHeld
  <2>1. CASE o \in sup.observations BY <1>1, <2>1 DEF NamedOK
  <2>2. CASE o = it
    <3>1. proc[Pid].start # 0 BY <1>1, <1>2 DEF KinOK
    <3>2. o.identity = IdentityOf(Pid) /\ o.identity.pid = Pid /\ o.parent_pid = parent
          /\ o.process_group_id = group
      BY <1>4, <1>9, <2>2
    <3> QED BY <3>1, <3>2
  <2> QED BY <2>1, <2>2 DEF found
<1>13. sup.mode = "sample" => \A i \in ghost.outside : i.pid = Pid => Found(i)' \/ Missed'
  <2> SUFFICES ASSUME sup.mode = "sample", NEW i \in ghost.outside, i.pid = Pid PROVE Found(i)'
    OBVIOUS
  <2>1. i = IdentityOf(Pid) BY <1>1, StrayIsRead
  <2>2. it \in sup'.observations BY <1>6 DEF found
  <2> QED BY <1>4, <1>8, <2>1, <2>2 DEF Found, Outside
<1> QED BY <1>7, <1>11, <1>12, <1>13, AdvanceEscapes

LEMMA FirstRusageEscapes ==
    ASSUME IInv, EscapeInv, FirstRusage PROVE EscapeInv'
<1>1. SnapshotOK /\ KinOK /\ OnceOK /\ NamedOK /\ StrayOK BY DEF IInv, EscapeInv
<1>2. sup.pc = "first" /\ sup.pc \in Reading /\ UNCHANGED quiet BY DEF FirstRusage, Reading
<1>3. Pid \in Pids BY <1>1, <1>2, PidIsListed
<1>4. CASE ~Present(Pid) /\ Failed("Disappeared") BY <1>2, <1>4, FailedEscapes DEF Present
<1>5. CASE proc[Pid].state = "zombie" /\ Observed(IdentityOf(Pid), 0, 0, TRUE)
  <2>1. Present(Pid) BY <1>5 DEF Present
  <2>2. 0 \notin Pids /\ RootPid \in Pids BY InventoryAssumption
  <2>3. Linked(0, IdentityOf(Pid)) BY <2>2 DEF Linked
  <2>4. sup.mode = "sample" => \A i \in ghost.outside : i.pid # Pid
    BY <1>1, <1>2, <1>5, StrayIsRead
  <2> QED BY <1>2, <1>5, <2>1, <2>2, <2>3, <2>4, ObservedEscapes
<1>6. CASE Alive(proc, Pid) /\ sup' = [sup EXCEPT !.pc = "bsd", !.first = proc[Pid].start]
  <2>1. /\ sup'.pc = "bsd" /\ sup'.mode = sup.mode /\ sup'.todo = sup.todo
        /\ sup'.observations = sup.observations /\ sup'.failures = sup.failures
        /\ sup'.first = proc[Pid].start
    BY <1>1, <1>6 DEF SnapshotOK, SupFields
  <2>2. UNCHANGED <<proc, tracker, ghost>> /\ Pid' = Pid BY <1>2, <2>1 DEF quiet, kernel, Pid
  <2>3. proc[Pid].start # 0 BY <1>1, <1>3, <1>6 DEF KinOK, Alive, Present
  <2>4. OnceOK' BY <1>1, <2>1 DEF OnceOK, Resting
  <2>5. NamedOK' BY <1>1, <2>1, <2>2, <2>3 DEF NamedOK, Linked, IdentityOf, RootPidHeld
  <2>6. Strays(proc)' = Strays(proc) BY <2>2 DEF Strays, Alive
  <2>7. StrayOK'
    BY <1>1, <1>2, <2>1, <2>2, <2>6 DEF StrayOK, Found, Outside, Missed, Reading
  <2> QED BY <1>2, <2>1, <2>4, <2>5, <2>7, CallEscapes DEF Reading
<1> QED BY <1>4, <1>5, <1>6 DEF FirstRusage

LEMMA BsdInfoEscapes ==
    ASSUME IInv, EscapeInv, BsdInfo PROVE EscapeInv'
<1>1. SnapshotOK /\ KinOK /\ OnceOK /\ NamedOK /\ StrayOK BY DEF IInv, EscapeInv
<1>2. sup.pc = "bsd" /\ sup.pc \in Reading /\ UNCHANGED quiet BY DEF BsdInfo, Reading
<1>3. Pid \in Pids BY <1>1, <1>2, PidIsListed
<1>4. CASE ~Alive(proc, Pid) /\ Failed("Disappeared") BY <1>2, <1>4, FailedEscapes DEF Alive
<1> DEFINE info == [parent |-> proc[Pid].parent, group |-> proc[Pid].group]
<1>5. CASE Alive(proc, Pid) /\ sup' = [sup EXCEPT !.pc = "second", !.bsd = info]
  <2>1. info.group = proc[Pid].group /\ info.parent = proc[Pid].parent OBVIOUS
  <2> HIDE DEF info
  <2>2. /\ sup'.pc = "second" /\ sup'.mode = sup.mode /\ sup'.todo = sup.todo
        /\ sup'.observations = sup.observations /\ sup'.failures = sup.failures
        /\ sup'.first = sup.first /\ sup'.bsd.group = proc[Pid].group
        /\ sup'.bsd.parent = proc[Pid].parent
    BY <1>1, <1>5, <2>1 DEF SnapshotOK, SupFields
  <2>3. UNCHANGED <<proc, tracker, ghost>> /\ Pid' = Pid BY <1>2, <2>2 DEF quiet, kernel, Pid
  <2>4. OnceOK' BY <1>1, <2>2 DEF OnceOK, Resting
  <2>5. Linked(proc[Pid].parent, IdentityOf(Pid))
    <3> SUFFICES ASSUME proc[Pid].parent \in Pids
                 PROVE  /\ proc[proc[Pid].parent].start # 0
                        /\ IdentityOf(proc[Pid].parent) \in ghost.ours
                               => IdentityOf(Pid) \in ghost.ours
      BY DEF Linked
    <3> QED BY <1>1, <1>3 DEF KinOK, Alive, Present
  <2>6. NamedOK'
    BY <1>1, <1>2, <2>2, <2>3, <2>5 DEF NamedOK, Linked, IdentityOf, RootPidHeld
  <2>7. Strays(proc)' = Strays(proc) BY <2>3 DEF Strays, Alive
  <2>8. sup.mode = "sample" =>
           \A i \in ghost.outside : i.pid = Pid => Outside(i, proc[Pid].parent, proc[Pid].group)
    BY <1>1, <1>2, StrayIsRead
  <2>9. StrayOK'
    BY <1>1, <1>2, <2>2, <2>3, <2>7, <2>8 DEF StrayOK, Found, Outside, Missed, Reading
  <2> QED BY <1>2, <2>2, <2>4, <2>6, <2>9, CallEscapes DEF Reading
<1> QED BY <1>4, <1>5 DEF BsdInfo

LEMMA SecondRusageEscapes ==
    ASSUME IInv, EscapeInv, SecondRusage PROVE EscapeInv'
<1>1. SnapshotOK /\ ReadOK /\ NamedOK /\ StrayOK BY DEF IInv, EscapeInv
<1>2. sup.pc = "second" /\ sup.pc \in Reading /\ UNCHANGED quiet BY DEF SecondRusage, Reading
<1>3. CASE ~Present(Pid) /\ Failed("Disappeared") BY <1>2, <1>3, FailedEscapes DEF Present
<1>4. CASE Failed("StaleIdentity") BY <1>2, <1>4, FailedEscapes
<1> DEFINE exited == proc[Pid].state = "zombie"
<1>5. CASE /\ Present(Pid) /\ same_start(sup.first, proc[Pid].start)
           /\ Observed(IdentityOf(Pid), sup.bsd.parent, sup.bsd.group, exited)
  <2>1. exited \in BOOLEAN OBVIOUS
  <2>2. (sup.bsd.group = RootPid /\ RootPidHeld) => IdentityOf(Pid) \in ghost.ours
    BY <1>1, <1>2, <1>5 DEF ReadOK, same_start
  <2>3. ~ghost.recycled => Linked(sup.bsd.parent, IdentityOf(Pid)) BY <1>1, <1>2 DEF NamedOK
  <2>4. sup.mode = "sample" => \A i \in ghost.outside :
           i.pid = Pid => ~exited /\ Outside(i, sup.bsd.parent, sup.bsd.group)
    BY <1>1, <1>2, StrayIsRead DEF StrayOK
  <2> HIDE DEF exited
  <2> QED BY <1>2, <1>5, <2>1, <2>2, <2>3, <2>4, ObservedEscapes
<1> QED BY <1>3, <1>4, <1>5 DEF SecondRusage

LEMMA DeniedEscapes ==
    ASSUME IInv, EscapeInv, Denied PROVE EscapeInv'
BY FailedEscapes DEF Denied, Reading

\* What update makes of the tracker and of the escapes seen, sample or cleanup.
LEMMA UpdateEscapes ==
    ASSUME IInv, EscapeInv, sup.pc = "end",
           tracker' = update(tracker, sup.observations, sup.failures).tracker, proc' = proc,
           ghost'.ours = ghost.ours, ghost'.recycled = ghost.recycled,
           ghost'.seen = ghost.seen \cup Leaving(sup.observations)
    PROVE  KinOK' /\ (RootPidHeld' <=> RootPidHeld) /\ OwnOK' /\ CountOK'
<1>1. /\ TrackerOK /\ GhostOK /\ SnapshotOK /\ KinOK /\ OnceOK /\ NamedOK /\ OwnOK /\ CountOK
  BY DEF IInv, EscapeInv
<1>2. KinOK' /\ (RootPidHeld' <=> RootPidHeld) BY <1>1, KinStays
<1> DEFINE next == update(tracker, sup.observations, sup.failures)
           seen == ghost.seen \cup Leaving(sup.observations)
<1>3. CountOK'
  <2>1. /\ next.tracker.escaped_count \in Nat
        /\ next.tracker.escaped_count >= Cardinality(seen)
        /\ next.tracker.escaped \subseteq seen
        /\ \A i \in DOMAIN next.tracker.tracked : next.tracker.tracked[i] => i \in seen
        /\ Cardinality(next.tracker.escaped) <= MAX_ESCAPED_EVIDENCE
        /\ Cardinality(seen) <= MAX_ESCAPED_EVIDENCE =>
              /\ next.tracker.escaped = seen
              /\ next.tracker.escaped_count = Cardinality(seen)
    BY <1>1, Counted
  <2>2. tracker' = next.tracker /\ ghost'.seen = seen OBVIOUS
  <2> HIDE DEF next, seen
  <2> QED BY <2>1, <2>2 DEF CountOK
<1>4. DOMAIN next.tracker.tracked = Identities(relevant(tracker, sup.observations))
  <2> DEFINE marks == [i \in Identities(relevant(tracker, sup.observations)) |->
                          counted_before(tracker, i) \/ i \in Leaving(sup.observations)]
  <2>1. next.tracker.tracked = marks BY <1>1 DEF update, Leaving, TrackerOK
  <2> HIDE DEF next
  <2> QED BY <2>1
<1>5. OwnOK'
  <2> SUFFICES ASSUME ~ghost.recycled, RootPidHeld
               PROVE  DOMAIN tracker'.tracked \subseteq ghost.ours /\ ghost'.seen \subseteq ghost.ours
    BY <1>2 DEF OwnOK
  <2>1. \A o \in relevant(tracker, sup.observations) : o.identity \in ghost.ours
    BY <1>1, KeptAreOurs
  <2>2. Leaving(sup.observations) \subseteq ghost.ours BY <2>1 DEF Leaving, Identities
  <2>3. DOMAIN tracker'.tracked \subseteq ghost.ours BY <1>4, <2>1 DEF Identities
  <2> QED BY <1>1, <2>2, <2>3 DEF OwnOK
<1> QED BY <1>2, <1>3, <1>5

\* A complete sample holds every stray: none is left to be read, and none missed.
LEMMA RecordEscapes ==
    ASSUME IInv, EscapeInv, record_snapshot PROVE EscapeInv'
<1>1. /\ TrackerOK /\ GhostOK /\ SnapshotOK /\ LatchOK
      /\ KinOK /\ OnceOK /\ CountOK /\ LatchedOK /\ StrayOK
  BY DEF IInv, EscapeInv
<1> DEFINE next == update(tracker, sup.observations, sup.failures)
           seen == ghost.seen \cup Leaving(sup.observations)
           lapses == ghost.lapses + Cardinality(Lapsed(next.tracker))
<1>2. /\ sup.pc = "end" /\ sup.mode = "sample" /\ sup' = Idle("poll")
      /\ tracker' = next.tracker
      /\ sample' = Sample(next.frame.aggregate_footprint.kind, next.frame.owned_members)
      /\ latch_escape(next.frame.escape_observed)
      /\ ghost' = [ghost EXCEPT !.seen = seen, !.lapses = lapses]
      /\ proc' = proc
  BY DEF record_snapshot, Tally, kernel
<1>3. next.frame.aggregate_footprint.kind = "Complete" => ~Missed BY OwnedMembers
<1>4. /\ next.tracker.escaped_count \in Nat
      /\ next.tracker.escaped_count >= tracker.escaped_count
      /\ next.frame.escape_observed = (next.tracker.escaped_count > 0)
  BY <1>1, Counted
<1> HIDE DEF next, seen, lapses
<1>5. /\ ghost'.ours = ghost.ours /\ ghost'.seen = seen
      /\ ghost'.recycled = ghost.recycled /\ ghost'.outside = ghost.outside
  BY <1>1, <1>2 DEF GhostOK, GhostFields
<1>6. KinOK' /\ OwnOK' /\ CountOK' BY <1>2, <1>5, UpdateEscapes DEF next, seen
<1>7. sup'.pc = "poll" /\ sup'.mode = "sample" /\ sup'.observations = {} BY <1>2 DEF Idle
<1>8. OnceOK' /\ NamedOK' BY <1>7 DEF OnceOK, NamedOK
<1>9. LatchedOK'
  <2>1. escape_detected = (tracker.escaped_count > 0) /\ tracker.escaped_count \in Nat
    BY <1>1, <1>2 DEF LatchedOK, CountOK
  <2>2. escape_detected' = (escape_detected \/ next.frame.escape_observed)
    BY <1>2 DEF latch_escape
  <2>3. tracker.escaped_count > 0 => next.tracker.escaped_count > 0 BY <1>4, <2>1
  <2>4. escape_detected' = (next.tracker.escaped_count > 0)
    <3> DEFINE before == tracker.escaped_count > 0
               after == next.tracker.escaped_count > 0
    <3>1. before => after BY <2>3
    <3>2. escape_detected = before /\ next.frame.escape_observed = after BY <1>4, <2>1
    <3>3. before \in BOOLEAN /\ after \in BOOLEAN OBVIOUS
    <3> HIDE DEF before, after
    <3>4. escape_detected' = after BY <2>2, <3>1, <3>2, <3>3, Zenon
    <3> QED BY <3>4 DEF after
  <2> QED BY <1>2, <1>7, <2>4 DEF LatchedOK
<1>10. StrayOK' BY <1>7 DEF StrayOK, Reading
<1>11. StraysAreFound'
  <2>1. sample'.outcome = next.frame.aggregate_footprint.kind BY <1>2 DEF Sample
  <2>2. ASSUME ~Missed, NEW i \in ghost.outside PROVE i \in seen
    <3>1. i \in Strays(proc) /\ (i.pid \in sup.todo \/ Found(i) \/ Missed)
      BY <1>1, <1>2 DEF StrayOK
    <3>2. Found(i) BY <1>1, <1>2, <2>2, <3>1 DEF SnapshotOK
    <3>3. i # Root BY <1>1, <3>1, StrayIsNotRoot
    <3> QED BY <1>1, <3>2, <3>3, FoundIsLeaving DEF seen
  <2> QED BY <1>3, <1>5, <2>1, <2>2 DEF StraysAreFound
<1> QED BY <1>6, <1>8, <1>9, <1>10, <1>11 DEF EscapeInv

LEMMA ClockDiscontinuityEscapes ==
    ASSUME IInv, EscapeInv, ClockDiscontinuity PROVE EscapeInv'
<1>1. LatchOK /\ KinOK /\ LatchedOK BY DEF IInv, EscapeInv
<1>2. /\ sup.pc = "end" /\ sup.mode = "sample" /\ sup' = Idle("poll")
      /\ sample' = Sample("ClockDiscontinuity", {}) /\ latch_escape(FALSE)
      /\ UNCHANGED <<proc, tracker, ghost>>
  BY DEF ClockDiscontinuity, kernel
<1>3. KinOK' /\ (RootPidHeld' <=> RootPidHeld) BY <1>1, <1>2, KinStays
<1>4. StraysAreFound' BY <1>2 DEF StraysAreFound, Sample
<1>5. escape_detected' = (tracker.escaped_count > 0)
  BY <1>1, <1>2 DEF LatchedOK, LatchOK, latch_escape
<1> QED BY <1>2, <1>3, <1>4, <1>5, RestEscapes DEF Resting

LEMMA SnapshotFailedEscapes ==
    ASSUME IInv, EscapeInv, SnapshotFailed PROVE EscapeInv'
<1>1. SnapshotOK /\ LatchOK /\ KinOK /\ LatchedOK /\ StraysAreFound BY DEF IInv, EscapeInv
<1>2. sup.pc \in {"group", "children"} /\ UNCHANGED <<proc, tracker, ghost>>
  BY DEF SnapshotFailed, kernel
<1>3. KinOK' /\ (RootPidHeld' <=> RootPidHeld) BY <1>1, <1>2, KinStays
<1>4. CASE sup.mode = "sample"
  <2>1. sample' = Sample("SnapshotFailed", {}) /\ latch_escape(FALSE) /\ sup' = Idle("poll")
    BY <1>4 DEF SnapshotFailed
  <2>2. StraysAreFound' BY <2>1 DEF StraysAreFound, Sample
  <2>3. escape_detected' = (tracker.escaped_count > 0)
    BY <1>1, <1>2, <1>4, <2>1 DEF LatchedOK, LatchOK, latch_escape
  <2> QED BY <1>2, <1>3, <2>1, <2>2, <2>3, RestEscapes DEF Resting
<1>5. CASE sup.mode # "sample"
  <2>1. /\ report' = [owned_group_empty |-> FALSE, complete |-> FALSE, survivors |-> {}]
        /\ sup' = Idle("returned") /\ UNCHANGED sample
    BY <1>5 DEF SnapshotFailed
  <2>2. \A e, c \in BOOLEAN, s \in SUBSET IdentitySet :
           [owned_group_empty |-> e, complete |-> c, survivors |-> s] # None
    BY ReportAssumption
  <2>3. FALSE \in BOOLEAN /\ {} \in SUBSET IdentitySet OBVIOUS
  <2>4. report' # None BY <2>1, <2>2, <2>3
  <2>5. StraysAreFound' BY <1>1, <1>2, <2>1 DEF StraysAreFound
  <2> QED BY <1>2, <1>3, <2>1, <2>4, <2>5, RestEscapes DEF Resting
<1> QED BY <1>4, <1>5

LEMMA CleanupUpdateEscapes ==
    ASSUME IInv, EscapeInv, CleanupUpdate PROVE EscapeInv'
<1>1. /\ TrackerOK /\ GhostOK /\ SnapshotOK /\ KinOK /\ OnceOK /\ NamedOK /\ LatchedOK
      /\ StraysAreFound
  BY DEF IInv, EscapeInv
<1> DEFINE next == update(tracker, sup.observations, sup.failures)
           seen == ghost.seen \cup Leaving(sup.observations)
           lapses == ghost.lapses + Cardinality(Lapsed(next.tracker))
           survivors == Identities(next.frame.owned_members)
           failures == next.frame.observation_failures
<1>2. /\ sup.pc = "end" /\ sup.mode = "cleanup"
      /\ tracker' = next.tracker
      /\ sup' = [sup EXCEPT !.pc = "exists", !.survivors = survivors, !.failures = failures]
      /\ ghost' = [ghost EXCEPT !.seen = seen, !.lapses = lapses]
      /\ UNCHANGED <<proc, sample, escape_detected, report>>
  BY DEF CleanupUpdate, Tally, kernel
<1>3. survivors \subseteq IdentitySet
  BY <1>1 DEF update, relevant, Identities, SnapshotOK
<1>4. ghost.seen \subseteq seen OBVIOUS
<1> HIDE DEF next, seen, lapses, survivors, failures
<1>5. /\ ghost'.ours = ghost.ours /\ ghost'.seen = seen
      /\ ghost'.recycled = ghost.recycled /\ ghost'.outside = ghost.outside
  BY <1>1, <1>2 DEF GhostOK, GhostFields
<1>6. KinOK' /\ (RootPidHeld' <=> RootPidHeld) /\ OwnOK' /\ CountOK'
  BY <1>2, <1>5, UpdateEscapes DEF next, seen
<1>7. /\ sup'.pc = "exists" /\ sup'.mode = "cleanup" /\ sup'.todo = sup.todo
      /\ sup'.observations = sup.observations /\ sup'.survivors = survivors
  BY <1>1, <1>2 DEF SnapshotOK, SupFields
<1>8. OnceOK' BY <1>1, <1>7 DEF OnceOK, Resting
<1>9. NamedOK' BY <1>1, <1>2, <1>5, <1>7 DEF NamedOK, Linked, IdentityOf, RootPidHeld
<1>10. LatchedOK' BY <1>3, <1>7 DEF LatchedOK, Resting
<1>11. StrayOK' BY <1>7 DEF StrayOK
<1>12. StraysAreFound' BY <1>1, <1>2, <1>4, <1>5 DEF StraysAreFound
<1> QED BY <1>6, <1>8, <1>9, <1>10, <1>11, <1>12 DEF EscapeInv

LEMMA CleanupCheckEscapes ==
    ASSUME IInv, EscapeInv, NEW expired \in BOOLEAN, CleanupCheck(expired) PROVE EscapeInv'
<1>1. KinOK /\ LatchedOK /\ StraysAreFound BY DEF EscapeInv
<1> DEFINE empty == group_empty(sup.survivors)
           failed == sup.failures # {} \/ (owned_group_exists /\ sup.survivors = {})
           complete == empty /\ tracker.escaped = {} /\ ~failed
<1>2. /\ sup.pc = "exists" /\ UNCHANGED <<proc, tracker, sample, ghost>>
      /\ \/ /\ report' = [owned_group_empty |-> empty, complete |-> complete,
                          survivors |-> sup.survivors]
            /\ sup' = Idle("returned")
         \/ sup' = Idle("again")
  BY DEF CleanupCheck, kernel
<1>3. empty \in BOOLEAN /\ complete \in BOOLEAN BY DEF group_empty
<1> HIDE DEF empty, complete
<1>4. sup.survivors \subseteq IdentitySet BY <1>1, <1>2 DEF LatchedOK
<1>5. sup' = Idle("returned") \/ sup' = Idle("again") BY <1>2
<1>6. Idle("returned").pc = "returned" /\ Idle("again").pc = "again" BY DEF Idle
<1>7. sup' = Idle("returned") => report' # None BY <1>2, <1>3, <1>4, <1>6, ReportAssumption
<1>8. KinOK' /\ (RootPidHeld' <=> RootPidHeld) BY <1>1, <1>2, KinStays
<1>9. StraysAreFound' BY <1>1, <1>2 DEF StraysAreFound
<1> QED BY <1>2, <1>5, <1>7, <1>8, <1>9, RestEscapes DEF Resting

LEMMA SignalCheckpointEscapes ==
    ASSUME IInv, EscapeInv, signal_checkpoint PROVE EscapeInv'
<1>1. /\ KinOK /\ OnceOK /\ NamedOK /\ OwnOK /\ CountOK /\ LatchedOK /\ StrayOK /\ StraysAreFound
  BY DEF EscapeInv
<1>2. /\ sup.pc = "work"
      /\ UNCHANGED <<proc, tracker, sample, escape_detected, report, ghost>>
      /\ \/ sup' = sup
         \/ sup' = [Idle("first") EXCEPT !.mode = "signal", !.todo = {RootPid}]
  BY DEF signal_checkpoint, quiet, kernel
<1>3. KinOK' /\ (RootPidHeld' <=> RootPidHeld) BY <1>1, <1>2, KinStays
<1>4. OwnOK' /\ CountOK' /\ StraysAreFound'
  BY <1>1, <1>2, <1>3 DEF OwnOK, CountOK, StraysAreFound
<1>5. CASE sup' = sup
  <2>1. OnceOK' /\ LatchedOK' BY <1>1, <1>2, <1>5 DEF OnceOK, LatchedOK
  <2>2. sup.observations = {} BY <1>1, <1>2 DEF OnceOK, Resting
  <2>3. NamedOK' /\ StrayOK' BY <1>2, <1>5, <2>2 DEF NamedOK, StrayOK, Reading
  <2> QED BY <1>3, <1>4, <2>1, <2>3 DEF EscapeInv
<1>6. CASE sup' = [Idle("first") EXCEPT !.mode = "signal", !.todo = {RootPid}]
  <2>1. sup'.pc = "first" /\ sup'.mode = "signal" /\ sup'.observations = {}
    BY <1>6 DEF Idle
  <2>2. OnceOK' /\ NamedOK' /\ StrayOK' BY <2>1 DEF OnceOK, NamedOK, StrayOK
  <2>3. LatchedOK' BY <1>1, <1>2, <2>1 DEF LatchedOK, Resting
  <2> QED BY <1>3, <1>4, <2>2, <2>3 DEF EscapeInv
<1> QED BY <1>2, <1>5, <1>6

LEMMA SignalIdentityEscapes ==
    ASSUME IInv, EscapeInv, signal_identity PROVE EscapeInv'
<1>1. KinOK /\ LatchedOK /\ StraysAreFound BY DEF EscapeInv
<1> DEFINE pc == IF \E o \in sup.observations : is_endpoint(o) THEN "kill" ELSE "work"
<1>2. /\ sup.pc = "end" /\ sup.mode = "signal" /\ sup' = Idle(pc)
      /\ UNCHANGED <<proc, tracker, sample, escape_detected, ghost>>
  BY DEF signal_identity, quiet, kernel
<1>3. pc \in Resting \cup {"kill"} /\ pc \notin {"again", "returned"} BY DEF Resting
<1> HIDE DEF pc
<1>4. KinOK' /\ (RootPidHeld' <=> RootPidHeld) BY <1>1, <1>2, KinStays
<1>5. StraysAreFound' BY <1>1, <1>2 DEF StraysAreFound
<1>6. escape_detected' = (tracker.escaped_count > 0) BY <1>1, <1>2 DEF LatchedOK
<1> QED BY <1>2, <1>3, <1>4, <1>5, <1>6, RestEscapes

LEMMA KillEscapes ==
    ASSUME IInv, EscapeInv, Kill PROVE EscapeInv'
<1>1. GhostOK /\ KinOK /\ LatchedOK /\ StraysAreFound BY DEF IInv, EscapeInv
<1> DEFINE hit == ghost.struck \cup {IdentityOf(RootPid)}
<1>2. /\ sup.pc = "kill" /\ sup' = Idle("work")
      /\ ghost' = IF Alive(proc, RootPid) THEN [ghost EXCEPT !.struck = hit] ELSE ghost
      /\ UNCHANGED <<proc, tracker, sample, escape_detected>>
  BY DEF Kill, kernel
<1> HIDE DEF hit
<1>3. /\ ghost'.ours = ghost.ours /\ ghost'.seen = ghost.seen
      /\ ghost'.recycled = ghost.recycled /\ ghost'.outside = ghost.outside
  BY <1>1, <1>2 DEF GhostOK, GhostFields
<1>4. KinOK' /\ (RootPidHeld' <=> RootPidHeld) BY <1>1, <1>2, <1>3, KinStays
<1>5. StraysAreFound' BY <1>1, <1>2, <1>3 DEF StraysAreFound
<1>6. escape_detected' = (tracker.escaped_count > 0) BY <1>1, <1>2 DEF LatchedOK, Resting
<1> QED BY <1>2, <1>3, <1>4, <1>5, <1>6, RestEscapes DEF Resting

-----------------------------------------------------------------------------
LEMMA InitEscapes == Init => EscapeInv
<1> SUFFICES ASSUME Init PROVE EscapeInv OBVIOUS
<1> USE InventoryAssumption
<1>1. RootPid \in Pids /\ Launchd \notin Pids /\ 0 \notin Pids BY DEF Launchd
<1>2. /\ proc[RootPid].start = 1 /\ proc[RootPid].group = RootPid
      /\ \A p \in Pids : p # RootPid => proc[p].state = "none"
      /\ \A p \in Pids : proc[p].parent \notin Pids
  BY <1>1 DEF Init
<1>3. KinOK
  <2>1. \A p \in Pids : Present(p) => proc[p].start # 0 BY <1>2 DEF Present
  <2> QED BY <1>1, <1>2, <2>1 DEF KinOK
<1>4. sup.pc = "poll" /\ sup.mode = "sample" /\ sup.observations = {} BY DEF Init, Idle
<1>5. OnceOK /\ NamedOK /\ StrayOK
  BY <1>4 DEF OnceOK, NamedOK, StrayOK, Reading
<1>6. /\ ghost.seen = {} /\ tracker.escaped = {} /\ tracker.escaped_count = 0
      /\ DOMAIN tracker.tracked = {}
  BY DEF Init, NewTracker
<1>7. OwnOK BY <1>6 DEF OwnOK
<1>8. CountOK
  <2>1. Cardinality({}) = 0 BY FS_EmptySet
  <2> QED BY <1>6, <2>1, IdentityAssumption DEF CountOK
<1>9. LatchedOK
  <2> DEFINE escapes == tracker.escaped_count > 0
  <2>1. escapes \in BOOLEAN /\ ~escapes BY <1>6
  <2>2. escape_detected = FALSE BY DEF Init
  <2> HIDE DEF escapes
  <2>3. escape_detected = escapes BY <2>1, <2>2, Zenon
  <2> QED BY <1>4, <2>3 DEF LatchedOK, escapes
<1>10. StraysAreFound BY DEF Init, StraysAreFound
<1> QED BY <1>3, <1>5, <1>7, <1>8, <1>9, <1>10 DEF EscapeInv

LEMMA NextEscapes ==
    ASSUME IInv, EscapeInv, Next PROVE EscapeInv'
<1>1. CASE Kernel BY <1>1, KernelKin
<1>2. CASE Poll BY <1>2, PollEscapes
<1>3. CASE sample_native
  <2>1. StartSnapshot("sample", {"work"}) BY <1>3 DEF sample_native
  <2> QED BY <2>1, StartSnapshotEscapes
<1>4. CASE wait_for_owned_group_empty
  <2>1. StartSnapshot("cleanup", {"work", "over", "again"})
    BY <1>4 DEF wait_for_owned_group_empty
  <2> QED BY <2>1, StartSnapshotEscapes
<1>5. CASE ListGroup BY <1>5, ListGroupEscapes
<1>6. CASE ListChildren BY <1>6, ListChildrenEscapes
<1>7. CASE FirstRusage BY <1>7, FirstRusageEscapes
<1>8. CASE BsdInfo BY <1>8, BsdInfoEscapes
<1>9. CASE SecondRusage BY <1>9, SecondRusageEscapes
<1>10. CASE Denied BY <1>10, DeniedEscapes
<1>11. CASE record_snapshot BY <1>11, RecordEscapes
<1>12. CASE ClockDiscontinuity BY <1>12, ClockDiscontinuityEscapes
<1>13. CASE SnapshotFailed BY <1>13, SnapshotFailedEscapes
<1>14. CASE CleanupUpdate BY <1>14, CleanupUpdateEscapes
<1>15. CASE \E expired \in BOOLEAN : CleanupCheck(expired) BY <1>15, CleanupCheckEscapes
<1>16. CASE signal_checkpoint BY <1>16, SignalCheckpointEscapes
<1>17. CASE signal_identity BY <1>17, SignalIdentityEscapes
<1>18. CASE Kill BY <1>18, KillEscapes
<1> QED
  BY <1>1, <1>2, <1>3, <1>4, <1>5, <1>6, <1>7, <1>8, <1>9, <1>10, <1>11, <1>12, <1>13,
     <1>14, <1>15, <1>16, <1>17, <1>18
  DEF Next, Supervisor

LEMMA StutterEscapes ==
    ASSUME IInv, EscapeInv, UNCHANGED vars PROVE EscapeInv'
<1>1. UNCHANGED <<proc, births, tracker, sup, root_outcome, sample, escape_detected, report,
                  budget, ghost>>
  BY DEF vars, kernel
<1>2. KinOK' /\ (RootPidHeld' <=> RootPidHeld) /\ \A p \in Pids : IdentityOf(p)' = IdentityOf(p)
  BY <1>1, KinStays DEF EscapeInv
<1>3. Strays(proc)' = Strays(proc) BY <1>1 DEF Strays, Alive
<1>4. KinDrift BY <1>1, <1>2, <1>3 DEF KinDrift
<1> QED BY <1>1, <1>4, KinDriftStep

\* The inductive invariant of the escapes, over that of the sampler.
THEOREM EscapeInvariant == Spec => []EscapeInv
<1>1. Init => EscapeInv BY InitEscapes
<1>2. IInv /\ EscapeInv /\ [Next]_vars => EscapeInv' BY NextEscapes, StutterEscapes
<1> QED BY <1>1, <1>2, SamplingInvariant, PTL DEF Spec

-----------------------------------------------------------------------------
(* How far the count may exceed the number of escapes.                     *)

\* The escapes that would be counted again: neither the evidence nor a mark on the
\* tracked set remembers them.
Forgotten == {i \in ghost.seen : ~counted_before(tracker, i)}

LapseOK ==
    /\ ghost.lapses \in Nat
    /\ tracker.escaped_count + Cardinality(Forgotten) <= Cardinality(ghost.seen) + ghost.lapses

LEMMA Split ==
    ASSUME NEW S \in SUBSET IdentitySet, NEW T \in SUBSET IdentitySet
    PROVE  Cardinality(S) = Cardinality(S \cap T) + Cardinality(S \ T)
<1> DEFINE A == S \cap T
           B == S \ T
<1>1. A \in SUBSET IdentitySet /\ B \in SUBSET IdentitySet /\ S = A \cup B /\ A \cap B = {}
  OBVIOUS
<1> HIDE DEF A, B
<1>2. IsFiniteSet(A) /\ IsFiniteSet(B) /\ Cardinality(A) \in Nat /\ Cardinality(B) \in Nat
  BY <1>1, FiniteIdentities
<1>3. Cardinality(A \cup B) = Cardinality(A) + Cardinality(B) - Cardinality(A \cap B)
  BY <1>2, FS_Union
<1>4. Cardinality(A \cap B) = 0 BY <1>1, FS_EmptySet
<1>5. Cardinality(S) = Cardinality(A) + Cardinality(B) BY <1>1, <1>2, <1>3, <1>4
<1> QED BY <1>5 DEF A, B

\* An update counts the escapes it sees first and those it had forgotten; it
\* forgets none but those it loses from the tracked set.
LEMMA UpdateLapses ==
    ASSUME IInv, EscapeInv, LapseOK,
           NEW after, after = update(tracker, sup.observations, sup.failures).tracker,
           tracker' = after, ghost'.seen = ghost.seen \cup Leaving(sup.observations),
           ghost'.lapses = ghost.lapses + Cardinality(Lapsed(after))
    PROVE  LapseOK'
<1>1. TrackerOK /\ GhostOK /\ SnapshotOK /\ CountOK BY DEF IInv, EscapeInv
<1> DEFINE kept == Identities(relevant(tracker, sup.observations))
           leaving == Leaving(sup.observations)
           old == ghost.seen
           seen == old \cup leaving
           marks == [i \in kept |-> counted_before(tracker, i) \/ i \in leaving]
           fresh == newly_counted(tracker, leaving)
           lost == Lapsed(after)
           F == Forgotten
           G == Forgotten'
<1>2. /\ after.tracked = marks /\ after.escaped = retain_escaped(tracker.escaped, leaving)
      /\ after.escaped_count = tracker.escaped_count + Cardinality(fresh)
  BY <1>1 DEF update, Leaving, TrackerOK
<1>3. leaving \in SUBSET IdentitySet /\ old \in SUBSET IdentitySet /\ leaving \subseteq kept
  BY <1>1 DEF relevant, Leaving, Identities, SnapshotOK, GhostOK
<1>4. \A i : counted_before(tracker, i) => i \in old BY <1>1 DEF counted_before, CountOK
<1>5. tracker.escaped \subseteq after.escaped BY <1>2 DEF retain_escaped
<1>6. DOMAIN after.tracked = kept /\ \A i \in kept : after.tracked[i] = marks[i] BY <1>2
<1>7. \A i \in kept : marks[i] <=> counted_before(tracker, i) \/ i \in leaving OBVIOUS
<1> HIDE DEF kept, leaving, marks
<1>8. fresh = (leaving \ old) \cup (F \cap leaving)
  BY <1>4 DEF newly_counted, Forgotten
<1>9. G \subseteq (F \ leaving) \cup lost
  <2> SUFFICES ASSUME NEW i \in G, i \notin F \ leaving PROVE i \in lost OBVIOUS
  <2>1. i \in seen /\ ~counted_before(after, i) BY DEF Forgotten, leaving
  <2>2. i \notin after.escaped /\ ~(i \in kept /\ marks[i])
    BY <1>6, <2>1 DEF counted_before
  <2>3. i \notin leaving BY <1>3, <1>7, <2>2
  <2>4. i \in old /\ counted_before(tracker, i) BY <2>1, <2>3 DEF Forgotten
  <2>5. i \notin kept /\ i \notin tracker.escaped BY <1>5, <1>7, <2>2, <2>4
  <2>6. i \in DOMAIN tracker.tracked BY <2>4, <2>5 DEF counted_before
  <2> QED BY <1>6, <2>4, <2>5, <2>6 DEF Lapsed
<1>10. /\ F \in SUBSET IdentitySet /\ G \in SUBSET IdentitySet /\ lost \in SUBSET IdentitySet
       /\ seen \in SUBSET IdentitySet
  BY <1>3 DEF Forgotten, Lapsed, leaving
<1> HIDE DEF F, G, lost, fresh, old
<1>11. Cardinality(seen) = Cardinality(old) + Cardinality(leaving \ old)
  <2>1. seen \cap old = old /\ seen \ old = leaving \ old OBVIOUS
  <2> HIDE DEF seen
  <2> QED BY <1>3, <1>10, <2>1, Split
<1>12. Cardinality(fresh) = Cardinality(leaving \ old) + Cardinality(F \cap leaving)
  <2>1. F \subseteq old BY DEF F, Forgotten, old
  <2>2. fresh \in SUBSET IdentitySet /\ fresh \cap old = F \cap leaving /\ fresh \ old = leaving \ old
    BY <1>3, <1>8, <1>10, <2>1
  <2>3. Cardinality(leaving \ old) \in Nat /\ Cardinality(F \cap leaving) \in Nat
    BY <1>3, FiniteIdentities
  <2>4. Cardinality(fresh) = Cardinality(fresh \cap old) + Cardinality(fresh \ old)
    BY <1>3, <2>2, Split
  <2>5. Cardinality(fresh) = Cardinality(F \cap leaving) + Cardinality(leaving \ old)
    BY <2>2, <2>4
  <2> QED BY <2>3, <2>5
<1>13. Cardinality(F) = Cardinality(F \cap leaving) + Cardinality(F \ leaving)
  BY <1>3, <1>10, Split
<1>14. Cardinality(G) <= Cardinality(F \ leaving) + Cardinality(lost)
  <2> DEFINE R == F \ leaving
  <2>1. R \in SUBSET IdentitySet /\ R \cup lost \in SUBSET IdentitySet BY <1>10
  <2>2. G \subseteq R \cup lost BY <1>9
  <2> HIDE DEF R
  <2>3. /\ IsFiniteSet(R) /\ IsFiniteSet(lost) /\ IsFiniteSet(R \cup lost)
        /\ Cardinality(R) \in Nat /\ Cardinality(lost) \in Nat
        /\ Cardinality(R \cup lost) \in Nat /\ Cardinality(G) \in Nat
    BY <1>10, <2>1, FiniteIdentities
  <2>4. Cardinality(G) <= Cardinality(R \cup lost) BY <2>2, <2>3, FS_Subset
  <2>5. Cardinality(R \cap lost) \in Nat
    <3>1. R \cap lost \in SUBSET IdentitySet BY <2>1
    <3> QED BY <3>1, FiniteIdentities
  <2>6. Cardinality(R \cup lost) = Cardinality(R) + Cardinality(lost) - Cardinality(R \cap lost)
    BY <2>3, FS_Union
  <2>7. Cardinality(G) <= Cardinality(R) + Cardinality(lost) BY <2>3, <2>4, <2>5, <2>6
  <2> QED BY <2>7 DEF R
<1>15. /\ Cardinality(seen) \in Nat /\ Cardinality(old) \in Nat
       /\ Cardinality(leaving \ old) \in Nat /\ Cardinality(F \cap leaving) \in Nat
       /\ Cardinality(F) \in Nat /\ Cardinality(G) \in Nat /\ Cardinality(lost) \in Nat
       /\ Cardinality(F \ leaving) \in Nat
  BY <1>3, <1>10, FiniteIdentities
<1>16. /\ tracker.escaped_count \in Nat /\ ghost.lapses \in Nat
       /\ tracker.escaped_count + Cardinality(F) <= Cardinality(old) + ghost.lapses
  BY <1>1 DEF CountOK, LapseOK, F, old
<1> HIDE DEF seen
<1>17. /\ ghost.lapses + Cardinality(lost) \in Nat
       /\ tracker.escaped_count + Cardinality(fresh) + Cardinality(G)
              <= Cardinality(seen) + (ghost.lapses + Cardinality(lost))
  BY <1>11, <1>12, <1>13, <1>14, <1>15, <1>16
<1>18. /\ tracker'.escaped_count = tracker.escaped_count + Cardinality(fresh)
       /\ ghost'.seen = seen /\ ghost'.lapses = ghost.lapses + Cardinality(lost)
  BY <1>2 DEF seen, old, leaving, lost
<1> QED BY <1>17, <1>18 DEF LapseOK, G

\* No other step of the supervisor or the kernel touches what is counted.
LEMMA QuietLapses ==
    ASSUME IInv, LapseOK, UNCHANGED tracker,
           ghost'.seen = ghost.seen, ghost'.lapses = ghost.lapses
    PROVE  LapseOK'
BY DEF LapseOK, Forgotten, counted_before

LEMMA NextLapses ==
    ASSUME IInv, EscapeInv, LapseOK, Next PROVE LapseOK'
<1>1. DOMAIN ghost = GhostFields BY DEF IInv, GhostOK
<1> DEFINE Kept == ghost'.seen = ghost.seen /\ ghost'.lapses = ghost.lapses
<1>2. ASSUME NEW table, Witness(table) PROVE Kept
  BY <1>1, <1>2 DEF Witness, GhostFields
<1>3. ASSUME NEW p, NEW q, NEW group, NEW ours, Birth(p, q, group, ours) PROVE Kept
  BY <1>1, <1>3 DEF Birth, GhostFields
<1>4. CASE Kernel
  <2>1. UNCHANGED tracker BY <1>4 DEF Kernel
  <2>2. Kept BY <1>2, <1>3, <1>4 DEF Kernel, Fork, StrangerStarts, LeaveGroup, Exit, Reap
  <2> QED BY <2>1, <2>2, QuietLapses
<1>5. CASE record_snapshot \/ CleanupUpdate
  <2> DEFINE after == update(tracker, sup.observations, sup.failures).tracker
             seen == ghost.seen \cup Leaving(sup.observations)
             lapses == ghost.lapses + Cardinality(Lapsed(after))
  <2>1. tracker' = after /\ ghost' = [ghost EXCEPT !.seen = seen, !.lapses = lapses]
    BY <1>5 DEF record_snapshot, CleanupUpdate, Tally
  <2> HIDE DEF after, seen, lapses
  <2>2. ghost'.seen = seen /\ ghost'.lapses = lapses BY <1>1, <2>1 DEF GhostFields
  <2> QED BY <2>1, <2>2, UpdateLapses DEF after, seen, lapses
<1>6. CASE sample_native \/ wait_for_owned_group_empty
  <2>1. UNCHANGED tracker /\ Kept
    BY <1>1, <1>6 DEF sample_native, wait_for_owned_group_empty, StartSnapshot, GhostFields
  <2> QED BY <2>1, QuietLapses
<1>7. CASE Kill
  <2>1. UNCHANGED tracker /\ Kept BY <1>1, <1>7 DEF Kill, GhostFields
  <2> QED BY <2>1, QuietLapses
<1>8. CASE UNCHANGED <<tracker, ghost>> BY <1>8, QuietLapses
<1>9. CASE \/ Poll \/ ListGroup \/ ListChildren \/ FirstRusage \/ BsdInfo \/ SecondRusage \/ Denied
           \/ ClockDiscontinuity \/ SnapshotFailed \/ (\E expired \in BOOLEAN : CleanupCheck(expired))
           \/ signal_checkpoint \/ signal_identity
  <2>1. UNCHANGED <<tracker, ghost>>
    BY <1>9 DEF Poll, ListGroup, ListChildren, FirstRusage, BsdInfo, SecondRusage, Denied,
       ClockDiscontinuity, SnapshotFailed, CleanupCheck, signal_checkpoint, signal_identity, quiet
  <2> QED BY <1>8, <2>1
<1> QED BY <1>4, <1>5, <1>6, <1>7, <1>9 DEF Next, Supervisor

LEMMA InitLapses == Init => LapseOK
<1> SUFFICES ASSUME Init PROVE LapseOK OBVIOUS
<1>1. ghost.seen = {} /\ ghost.lapses = 0 /\ tracker.escaped_count = 0
  BY DEF Init, NewTracker
<1>2. Forgotten = {} BY <1>1 DEF Forgotten
<1> QED BY <1>1, <1>2, FS_EmptySet DEF LapseOK

THEOREM LapseInvariant == Spec => []LapseOK
<1>1. IInv /\ EscapeInv /\ LapseOK /\ [Next]_vars => LapseOK'
  <2>1. ASSUME IInv, LapseOK, UNCHANGED vars PROVE LapseOK'
    BY <2>1, QuietLapses DEF vars
  <2> QED BY <2>1, NextLapses
<1> QED BY <1>1, InitLapses, SamplingInvariant, EscapeInvariant, PTL DEF Spec

\* A complete sample has found whoever spent the snapshot outside the group, only
\* the command's own are held against it, the count is exact until the evidence is
\* full, never too small after, and too large by no more than the number of times a
\* snapshot lost an escape the evidence did not hold; and no later sample takes an
\* escape back.
THEOREM EscapeSafety == Spec => []EscapesAreAccountedFor
<1>1. IInv /\ EscapeInv /\ LapseOK => EscapesAreAccountedFor
  <2> SUFFICES ASSUME IInv, EscapeInv, LapseOK PROVE EscapesAreAccountedFor OBVIOUS
  <2>1. OwnOK /\ CountOK /\ LatchedOK /\ StraysAreFound BY DEF EscapeInv
  <2>2. EscapesAreOurs BY <2>1 DEF OwnOK, EscapesAreOurs
  <2>3. EscapeCount
    <3>1. Cardinality(Forgotten) \in Nat /\ Cardinality(ghost.seen) \in Nat
      <4>1. ghost.seen \in SUBSET IdentitySet /\ Forgotten \in SUBSET IdentitySet
        BY DEF IInv, GhostOK, Forgotten
      <4> QED BY <4>1, FiniteIdentities
    <3>2. tracker.escaped_count - Cardinality(ghost.seen) \in 0 .. ghost.lapses
      BY <2>1, <3>1 DEF CountOK, LapseOK
    <3> QED BY <2>1, <3>2 DEF CountOK, EscapeCount
  <2>4. EscapeIsLatched
    BY <2>1 DEF LatchedOK, EscapeIsLatched, Schema!escaped_count_agrees_with_detection
  <2> QED BY <2>1, <2>2, <2>3, <2>4 DEF EscapesAreAccountedFor
<1> QED BY <1>1, EscapeInvariant, LapseInvariant, SamplingInvariant, PTL
=============================================================================
