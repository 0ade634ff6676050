--------------------------- MODULE JournalProofs ---------------------------
(***************************************************************************)
(* Theorems about the journal and the final report, for every number of    *)
(* runs, records, failing system calls and crashes: the report's name      *)
(* never stands for a partial file (ReportInv), a recovery accounts for    *)
(* the run (StreamInv: what the stream of writes looks like while it grows *)
(* and what is left of it), and the journal implements DurableLog.         *)
(***************************************************************************)
EXTENDS Journal, FiniteSetTheorems, WellFoundedInduction, TLAPS

Dir == [journal: BOOLEAN, tmp: Runs \cup {None}, report: Runs \cup {None}]

Places == {"idle", "magic", "init_sync", "init_dir_sync", "append", "loop", "signal",
           "finish", "flush", "replay", "create", "write", "sync", "rename", "dir_sync"}

\* A report file that a crash of the host leaves as it is.
Stable(r) == inode[r].synced /\ inode[r].content # Torn

\* The files and the directories, the one in memory and the ones on disk.
DirsOK ==
    /\ dir \in crashDirs
    /\ crashDirs \subseteq Dir
    /\ DOMAIN inode = Runs
    /\ \A r \in Runs : DOMAIN inode[r] = {"content", "synced"}
    /\ \A r \in Runs : inode[r].synced \in BOOLEAN
    /\ \A d \in crashDirs : d.report # None => Stable(d.report)

\* How far the finalization of the running run has got.
FinalizeOK ==
    /\ pc \in Places
    /\ next \in {"idle", "loop", "signal", "finish"}
    /\ run \in 0 .. MaxRuns
    /\ pc # "idle" => run \in Runs /\ result = None
    /\ pc = "sync" => inode[run].content # Torn
    /\ pc = "rename" => Stable(run)
    /\ pc = "dir_sync" => dir.report = run
    /\ result = "Finished" => \A d \in crashDirs : d.report = run

ReportInv == DirsOK /\ FinalizeOK

USE JournalAssumption, FormatAssumption

-----------------------------------------------------------------------------
(* The report's name (SecureJournal::finalize): every directory a crash of *)
(* the host may leave names a whole report that is on stable storage.      *)

LEMMA InitReport == Init => ReportInv
<1> SUFFICES ASSUME Init PROVE ReportInv OBVIOUS
<1>1. None \notin Runs BY DEF Runs
<1>2. dir \in Dir BY DEF Init, Dir
<1>3. DirsOK
  <2>1. inode = [r \in Runs |-> [content |-> Torn, synced |-> FALSE]]
    BY DEF Init, Blank
  <2>2. \A r \in Runs : inode[r].synced = FALSE /\ inode[r].content = Torn BY <2>1
  <2>3. dir.report = None /\ crashDirs = {dir} BY DEF Init
  <2>4. DOMAIN inode = Runs /\ \A r \in Runs : DOMAIN inode[r] = {"content", "synced"}
    BY <2>1
  <2> QED BY <1>2, <2>2, <2>3, <2>4 DEF DirsOK
<1>4. FinalizeOK BY <1>2 DEF Init, FinalizeOK, Places, Runs
<1> QED BY <1>3, <1>4 DEF ReportInv

\* Steps that leave the directories and the report files alone.
LEMMA Elsewhere ==
    ASSUME ReportInv, UNCHANGED <<dir, crashDirs, inode, run>>,
           pc' \in Places \ {"sync", "rename", "dir_sync"},
           next' \in {"idle", "loop", "signal", "finish"},
           pc' = "idle" \/ (pc # "idle" /\ result' = result),
           result' # "Finished" \/ (result = "Finished")
    PROVE  ReportInv'
BY DEF ReportInv, DirsOK, FinalizeOK, Stable, Runs

LEMMA WritingSteps ==
    ASSUME ReportInv,
           \/ WriteMagic \/ SyncInit \/ WritePart \/ Accept \/ FailAppend
           \/ TakeSample \/ Intervene \/ SendSignal \/ RecordTerminal
           \/ FinalizeWithoutWorker \/ FinishJournal \/ Flush \/ Replay \/ Kill
    PROVE  ReportInv'
<1> USE DEF Goto, End, PartialArtifactFailure, Record, disk, recording, Places
<1>0. /\ pc \in Places /\ next \in {"idle", "loop", "signal", "finish"}
  BY DEF ReportInv, FinalizeOK
<1>1. CASE WriteMagic \/ SyncInit \/ WritePart \/ Accept \/ FailAppend
  BY <1>0, <1>1, Elsewhere DEF WriteMagic, SyncInit, WritePart, Accept, FailAppend
<1>2. CASE TakeSample \/ Intervene \/ SendSignal \/ RecordTerminal
  BY <1>0, <1>2, Elsewhere DEF TakeSample, Intervene, SendSignal, RecordTerminal
<1>3. CASE FinalizeWithoutWorker \/ FinishJournal \/ Flush \/ Replay \/ Kill
  BY <1>0, <1>3, Elsewhere
  DEF FinalizeWithoutWorker, FinishJournal, Flush, Replay, Kill
<1> QED BY <1>1, <1>2, <1>3

LEMMA FilingSteps ==
    ASSUME ReportInv,
           \/ \E mode \in {"Run", "Observe"} : Start(mode)
           \/ SyncInitDir \/ CreateTemp \/ Abandon \/ WriteTemp \/ SyncTemp
           \/ Rename \/ SyncDir \/ CleanUp
    PROVE  ReportInv'
<1> USE DEF Goto, End, PartialArtifactFailure, SetDir, ReportInv, FinalizeOK, recording
<1>n. None \notin Runs BY DEF Runs
<1>1. ASSUME NEW mode \in {"Run", "Observe"}, Start(mode) PROVE ReportInv'
  <2>1. CASE dir.journal
    BY <1>1, <2>1 DEF Start, DirsOK, Stable, Places, Runs
  <2>2. CASE ~dir.journal
    <3>1. /\ dir' = [dir EXCEPT !.journal = TRUE] /\ crashDirs' = crashDirs \cup {dir'}
          /\ inode' = inode /\ pc' = "magic" /\ result' = None /\ run' = run + 1
          /\ next' = "idle" /\ run < MaxRuns
      BY <1>1, <2>2 DEF Start
    <3>2. dir' \in Dir /\ dir'.report = dir.report BY <3>1 DEF DirsOK, Dir
    <3>3. DirsOK' BY <3>1, <3>2 DEF DirsOK, Stable
    <3> QED BY <3>1, <3>3 DEF Places, Runs
  <2> QED BY <2>1, <2>2
<1>2. CASE SyncInitDir
  BY <1>2 DEF SyncInitDir, DirsOK, Stable, Places
<1>3. CASE CreateTemp
  <2>1. CASE UNCHANGED <<dir, crashDirs>>
    BY <1>3, <2>1 DEF CreateTemp, DirsOK, Stable, Places
  <2>2. CASE /\ dir' = [dir EXCEPT !.tmp = run] /\ crashDirs' = crashDirs \cup {dir'}
             /\ pc' = "write" /\ UNCHANGED result
    <3>1. run \in Runs /\ UNCHANGED <<inode, run, next>> BY <1>3 DEF CreateTemp
    <3>2. dir' \in Dir /\ dir'.report = dir.report BY <2>2, <3>1 DEF DirsOK, Dir
    <3>3. DirsOK' BY <2>2, <3>1, <3>2 DEF DirsOK, Stable
    <3> QED BY <1>3, <2>2, <3>1, <3>3 DEF Places, CreateTemp
  <2> QED BY <1>3, <2>1, <2>2 DEF CreateTemp
<1>4. CASE Abandon
  <2>1. dir' = [dir EXCEPT !.tmp = None] /\ crashDirs' = crashDirs \cup {dir'}
        /\ UNCHANGED <<inode, run, next>> /\ pc' = "idle"
        /\ result' = "PartialArtifactFailure"
    BY <1>4 DEF Abandon
  <2>2. dir' \in Dir /\ dir'.report = dir.report BY <2>1 DEF DirsOK, Dir
  <2>3. DirsOK' BY <2>1, <2>2 DEF DirsOK, Stable
  <2> QED BY <2>1, <2>3 DEF Places
<1>5. CASE WriteTemp
  <2> DEFINE report == to_report(read_records(file))
  <2>1. report # Torn BY DEF to_report, Torn
  <2>2. inode' = [inode EXCEPT ![run].content = report] /\ run \in Runs
        /\ UNCHANGED <<dir, crashDirs, run, next, result>> /\ pc' = "sync" /\ result = None
    BY <1>5 DEF WriteTemp
  <2> HIDE DEF report
  <2>3. /\ \A r \in Runs : inode'[r].synced = inode[r].synced
        /\ \A r \in Runs : inode'[r].content \in {inode[r].content, report}
        /\ inode'[run].content = report
        /\ DOMAIN inode' = Runs
        /\ \A r \in Runs : DOMAIN inode'[r] = {"content", "synced"}
    BY <2>2 DEF DirsOK
  <2>4. DirsOK'
    BY <1>n, <2>1, <2>2, <2>3 DEF DirsOK, Stable, Dir
  <2> QED BY <2>1, <2>2, <2>3, <2>4 DEF Places
<1>6. CASE SyncTemp
  <2>1. inode' = [inode EXCEPT ![run].synced = TRUE] /\ run \in Runs
        /\ UNCHANGED <<dir, crashDirs, run, next, result>> /\ pc' = "rename" /\ result = None
        /\ inode[run].content # Torn
    BY <1>6 DEF SyncTemp
  <2>2. /\ \A r \in Runs : inode'[r].synced \in {inode[r].synced, TRUE}
        /\ \A r \in Runs : inode'[r].content = inode[r].content
        /\ inode'[run].synced = TRUE
        /\ DOMAIN inode' = Runs
        /\ \A r \in Runs : DOMAIN inode'[r] = {"content", "synced"}
    BY <2>1 DEF DirsOK
  <2>3. DirsOK'
    BY ZenonT(60), <1>n, <2>1, <2>2 DEF DirsOK, Stable, Dir
  <2> QED BY <2>1, <2>2, <2>3 DEF Places, Stable
<1>7. CASE Rename
  <2>1. dir' = [dir EXCEPT !.tmp = None, !.report = run] /\ crashDirs' = crashDirs \cup {dir'}
        /\ UNCHANGED <<inode, run, next, result>> /\ pc' = "dir_sync" /\ result = None
        /\ run \in Runs /\ Stable(run)
    BY <1>7 DEF Rename
  <2>2. dir' \in Dir /\ dir'.report = run BY <2>1 DEF DirsOK, Dir
  <2>3. DirsOK' BY <2>1, <2>2 DEF DirsOK, Stable
  <2> QED BY <2>1, <2>2, <2>3 DEF Places
<1>8. CASE SyncDir
  BY <1>8 DEF SyncDir, DirsOK, Stable, Places
<1>9. CASE CleanUp
  <2>1. dir' = [dir EXCEPT !.journal = FALSE, !.report = None] /\ crashDirs' = {dir'}
        /\ inode' = [r \in Runs |-> IF r = dir.tmp THEN inode[r] ELSE Blank]
        /\ UNCHANGED <<pc, run, next>> /\ result' = None /\ pc = "idle"
    BY <1>9 DEF CleanUp
  <2>2. dir' \in Dir /\ dir'.report = None BY <2>1 DEF DirsOK, Dir
  <2>3. DirsOK' BY <2>1, <2>2 DEF DirsOK, Blank
  <2> QED BY <2>1, <2>3 DEF Places
<1> QED BY <1>1, <1>2, <1>3, <1>4, <1>5, <1>6, <1>7, <1>8, <1>9

LEMMA HostCrashReport ==
    ASSUME ReportInv, NEW length, NEW lost, NEW torn, HostCrash(length, lost, torn)
    PROVE  ReportInv'
<1>n. None \notin Runs BY DEF Runs
<1>1. /\ dir' \in crashDirs /\ crashDirs' = {dir'} /\ pc' = "idle"
      /\ result' = (IF pc = "idle" THEN result ELSE "Killed")
      /\ UNCHANGED <<run, next>>
      /\ inode' = [r \in Runs |-> IF inode[r].synced \/ r \notin torn THEN inode[r]
                                  ELSE [inode[r] EXCEPT !.content = Torn]]
  BY DEF HostCrash, recording
<1>2. /\ \A r \in Runs : inode'[r].synced = inode[r].synced
      /\ \A r \in Runs : inode[r].synced => inode'[r].content = inode[r].content
      /\ DOMAIN inode' = Runs
      /\ \A r \in Runs : DOMAIN inode'[r] = {"content", "synced"}
  BY <1>1 DEF ReportInv, DirsOK
<1>3. DirsOK'
  BY <1>n, <1>1, <1>2 DEF ReportInv, DirsOK, Stable, Dir
<1>4. FinalizeOK'
  BY <1>1 DEF ReportInv, FinalizeOK, Places
<1> QED BY <1>3, <1>4 DEF ReportInv

LEMMA NextReport == ReportInv /\ [Next]_vars => ReportInv'
<1> SUFFICES ASSUME ReportInv, [Next]_vars PROVE ReportInv' OBVIOUS
<1>1. CASE UNCHANGED vars
  BY <1>1 DEF vars, disk, recording, ReportInv, DirsOK, FinalizeOK, Stable
<1>2. ASSUME NEW length \in synced .. Len(file), NEW torn \in {{}, Runs},
             NEW from, NEW to, HostCrash(length, from .. to - 1, torn)
      PROVE  ReportInv'
  BY <1>2, HostCrashReport
<1>3. CASE Next
  BY <1>2, <1>3, WritingSteps, FilingSteps DEF Next
<1> QED BY <1>1, <1>3

\* Whatever fails and whenever the supervisor or the host goes down, the report's
\* name stands for a whole report, and a run that claimed success left one of
\* its own that no crash takes back (SecureJournal::finalize: create, write,
\* sync, rename, sync of the directory).
THEOREM ReportDurability == Spec => []ReportOutlivesCrashes
<1>1. ReportInv => ReportOutlivesCrashes
  BY DEF ReportInv, DirsOK, FinalizeOK, Stable, ReportOutlivesCrashes, WholeReport,
         SuccessMeansDurable
<1> QED BY <1>1, InitReport, NextReport, PTL DEF Spec

-----------------------------------------------------------------------------
(* What a recovery reads (JournalRecovery::read_file).                     *)

\* What count chooses: the records up to n and no further are read.
Counts(s, n) ==
    /\ n \in 0 .. MAX_RECOVERED_RECORDS
    /\ n = MAX_RECOVERED_RECORDS \/ ~intact(s, n + 1)
    /\ \A m \in 1 .. n : intact(s, m)

\* The least-number principle, from the well-foundedness of < on Nat.
LEMMA Smallest ==
    ASSUME NEW T \in SUBSET Nat, T # {} PROVE \E n \in T : \A m \in T : n <= m
<1> DEFINE R == OpToRel(<, Nat)
<1>1. IsWellFoundedOn(R, Nat) BY NatLessThanWellFounded, Zenon
<1>2. \A x, y \in Nat : <<y, x>> \in R <=> y < x BY DEF OpToRel
<1> HIDE DEF R
<1>3. PICK n \in T : \A m \in T : ~(<<m, n>> \in R) BY <1>1, WFMin
<1>4. ASSUME NEW m \in T PROVE n <= m
  <2>1. m \in Nat /\ n \in Nat OBVIOUS
  <2>2. ~(m < n) BY <1>2, <1>3, <2>1
  <2> QED BY <2>1, <2>2
<1> QED BY <1>4

LEMMA CountExists == ASSUME NEW s PROVE \E n : Counts(s, n)
<1> DEFINE T == {n \in Nat : n = MAX_RECOVERED_RECORDS \/ ~intact(s, n + 1)}
<1>1. T # {} /\ T \subseteq Nat BY MAX_RECOVERED_RECORDS \in T
<1>2. PICK n \in T : \A m \in T : n <= m BY <1>1, Smallest
<1>3. n <= MAX_RECOVERED_RECORDS BY <1>2
<1>4. ASSUME NEW m \in 1 .. n PROVE intact(s, m)
  <2>1. m - 1 \in Nat /\ m - 1 < n /\ m - 1 # MAX_RECOVERED_RECORDS BY <1>3, <1>4
  <2>2. m - 1 \notin T BY <1>2, <2>1
  <2>3. (m - 1) + 1 = m BY <1>4
  <2> QED BY <2>1, <2>2, <2>3
<1> QED BY <1>2, <1>3, <1>4 DEF Counts

LEMMA CountCounts == ASSUME NEW s PROVE Counts(s, count(s))
BY CountExists DEF count, Counts

LEMMA CountIs == ASSUME NEW s, NEW n, Counts(s, n) PROVE count(s) = n
<1>1. Counts(s, count(s)) BY CountCounts
<1>2. count(s) \in Int /\ n \in Int BY <1>1 DEF Counts
<1>3. CASE n < count(s)
  <2>1. n + 1 \in 1 .. count(s) /\ n # MAX_RECOVERED_RECORDS BY <1>1, <1>2, <1>3 DEF Counts
  <2> QED BY <1>1, <2>1 DEF Counts
<1>4. CASE count(s) < n
  <2>1. count(s) + 1 \in 1 .. n /\ count(s) # MAX_RECOVERED_RECORDS BY <1>1, <1>2, <1>4 DEF Counts
  <2> QED BY <1>1, <2>1 DEF Counts
<1> QED BY <1>2, <1>3, <1>4

LEMMA CountGrows ==
    ASSUME NEW s, NEW t, \A n \in Nat : intact(s, n) => intact(t, n)
    PROVE  count(s) <= count(t)
<1>1. Counts(s, count(s)) /\ Counts(t, count(t)) BY CountCounts
<1>2. CASE count(t) < count(s)
  <2>1. count(t) + 1 \in 1 .. count(s) /\ count(t) # MAX_RECOVERED_RECORDS BY <1>1, <1>2 DEF Counts
  <2> QED BY <1>1, <2>1 DEF Counts
<1> QED BY <1>1, <1>2 DEF Counts

\* The records recovered from a stream, one by one.
LEMMA ReadRecords ==
    ASSUME NEW s
    PROVE  /\ Len(read_records(s)) = IF readable(s) THEN count(s) ELSE 0
           /\ DOMAIN read_records(s) = 1 .. Len(read_records(s))
           /\ Len(read_records(s)) \in 0 .. MAX_RECOVERED_RECORDS
           /\ \A m \in DOMAIN read_records(s) :
                 intact(s, m) /\ read_records(s)[m] = s[3 * m].entry
           /\ read_records(s) = [m \in 1 .. Len(read_records(s)) |-> s[3 * m].entry]
<1> DEFINE n == IF readable(s) THEN count(s) ELSE 0
<1>1. Counts(s, count(s)) BY CountCounts
<1>2. n \in Nat /\ n \in 0 .. MAX_RECOVERED_RECORDS /\ \A m \in 1 .. n : intact(s, m)
  BY <1>1 DEF Counts
<1>3. read_records(s) = [m \in 1 .. n |-> s[3 * m].entry] BY DEF read_records
<1> HIDE DEF n
<1>4. Len(read_records(s)) = n BY <1>2, <1>3
<1> QED BY <1>2, <1>3, <1>4 DEF n

\* Two streams whose first records agree are read alike.
LEMMA SameRecords ==
    ASSUME NEW s, NEW t, readable(s) <=> readable(t),
           \A n \in Nat \ {0} : n <= MAX_RECOVERED_RECORDS =>
               /\ intact(s, n) <=> intact(t, n)
               /\ intact(s, n) => s[3 * n].entry = t[3 * n].entry
    PROVE  read_records(s) = read_records(t)
<1>1. Counts(s, count(s)) BY CountCounts
<1>2. Counts(t, count(s)) BY <1>1 DEF Counts
<1>3. count(t) = count(s) BY <1>2, CountIs
<1>4. \A m \in 1 .. count(s) : s[3 * m].entry = t[3 * m].entry
  BY <1>1 DEF Counts
<1> QED BY <1>3, <1>4 DEF read_records

-----------------------------------------------------------------------------
(* The stream a run writes.                                                *)

Items == [kind: EntryKind, n: 0 .. MaxSamples]
Chunks == [part: {"length", "payload", "checksum", "magic", "junk"},
           sequence: Nat, entry: Items]
Observed == [mode: {"Run", "Observe"}, samples: 0 .. MaxSamples, acts: Nat]
History == [disturbed: BOOLEAN, leftover: BOOLEAN, durable: Nat, sent: Nat]
Results == {None, "Finished", "JournalExists", "PartialArtifactFailure", "Killed"}

\* A run that is past the initialization and whose journal has not failed.
Writing == enabled /\ pc \notin {"idle", "magic", "init_sync", "init_dir_sync"}

\* The first k writes of record m.
Written(m, e, k) ==
    \A i \in 1 .. k : file[3 * m - 2 + i] = chunk(Parts[i], m - 1, e)

StreamTypes ==
    /\ file \in Seq(Chunks)
    /\ synced \in 0 .. Len(file)
    /\ part \in 0 .. 3
    /\ accepted \in Seq(Items)
    /\ queue \in Seq(Items)
    /\ enabled \in BOOLEAN
    /\ observed \in Observed
    /\ history \in History
    /\ result \in Results

\* The stream of a run that is still writing: the records accepted so far, and
\* the first writes of the one being appended.
ShapeOK ==
    /\ pc \in {"magic", "init_sync", "init_dir_sync"} =>
          accepted = <<>> /\ part = 0 /\ enabled
    /\ pc = "magic" => file = <<>>
    /\ pc \in {"init_sync", "init_dir_sync"} => file = <<Magic>>
    /\ pc = "append" => enabled /\ queue # <<>>
    /\ Writing =>
          /\ pc # "append" => part = 0
          /\ Len(file) = 3 * Len(accepted) + 1 + part
          /\ file[1] = Magic
          /\ \A m \in 1 .. Len(accepted) : Written(m, accepted[m], 3)
          /\ Written(Len(accepted) + 1, Head(queue), part)

\* What is left of the latest run's stream, after whatever happened to it.
RemainsOK ==
    /\ ~dir.journal => file = <<>> /\ \A d \in crashDirs : ~d.journal
    /\ (dir.journal /\ \E d \in crashDirs : ~d.journal) => Len(file) <= 1
    /\ pc \notin {"idle", "magic", "init_sync", "init_dir_sync"} => \A d \in crashDirs : d.journal
    /\ pc # "idle" => dir.journal
    /\ result # "JournalExists" =>
          \A n \in Nat \ {0} : intact(file, n) =>
              /\ n <= Len(accepted) + 1
              /\ n <= Len(accepted) => file[3 * n].entry = accepted[n]
    /\ history.durable <= Len(accepted)
    /\ (dir.journal /\ result # "JournalExists" /\ history.durable > 0) =>
          /\ file[1] = Magic
          /\ 3 * history.durable + 1 <= synced
          /\ \A n \in 1 .. history.durable : intact(file, n)

\* The transitions among the first n accepted records.
Transitions(n) == {i \in 1 .. n : accepted[i].kind = "Transition"}

\* Every signal sent has its transition among the durable records.
ReasonsOK ==
    (enabled /\ observed.mode = "Run") =>
        /\ Cardinality(Transitions(history.durable)) >=
              history.sent + (IF pc = "signal" THEN 1 ELSE 0)
        /\ (pc = "append" /\ next = "signal") => queue = <<Entry("Transition")>>

StreamInv == StreamTypes /\ ShapeOK /\ RemainsOK /\ ReasonsOK

LEMMA IntactIs ==
    ASSUME NEW s, NEW n \in Nat
    PROVE  intact(s, n) <=>
              /\ Len(s) >= 3 * n + 1
              /\ s[3 * n - 1].part = "length" /\ s[3 * n - 1].sequence = n - 1
              /\ s[3 * n].part = "payload" /\ s[3 * n].sequence = n - 1
              /\ s[3 * n + 1].part = "checksum" /\ s[3 * n + 1].sequence = n - 1
<1>1. 3 * n - 2 + 1 = 3 * n - 1 /\ 3 * n - 2 + 2 = 3 * n /\ 3 * n - 2 + 3 = 3 * n + 1 OBVIOUS
<1>2. Parts[1] = "length" /\ Parts[2] = "payload" /\ Parts[3] = "checksum" BY DEF Parts
<1>3. 1 .. 3 = {1, 2, 3} OBVIOUS
<1> QED BY <1>1, <1>2, <1>3 DEF intact

LEMMA WrittenIs ==
    ASSUME NEW m \in Nat, NEW e, NEW k \in 0 .. 3
    PROVE  Written(m, e, k) <=>
              /\ k >= 1 => file[3 * m - 1] = chunk("length", m - 1, e)
              /\ k >= 2 => file[3 * m] = chunk("payload", m - 1, e)
              /\ k >= 3 => file[3 * m + 1] = chunk("checksum", m - 1, e)
<1>1. 3 * m - 2 + 1 = 3 * m - 1 /\ 3 * m - 2 + 2 = 3 * m /\ 3 * m - 2 + 3 = 3 * m + 1 OBVIOUS
<1>2. Parts[1] = "length" /\ Parts[2] = "payload" /\ Parts[3] = "checksum" BY DEF Parts
<1>3. 1 .. k = {i \in {1, 2, 3} : i <= k} OBVIOUS
<1> QED BY <1>1, <1>2, <1>3 DEF Written

\* A stream that only grows keeps the records it has.
LEMMA StreamGrows ==
    ASSUME NEW s, NEW t, Len(s) \in Nat, Len(t) \in Nat, Len(s) <= Len(t),
           \A i \in 1 .. Len(s) : t[i] = s[i],
           NEW n \in Nat \ {0}, 3 * n + 1 <= Len(s)
    PROVE  (intact(t, n) <=> intact(s, n)) /\ t[3 * n] = s[3 * n]
<1>0. 3 * n - 1 \in 1 .. Len(s) /\ 3 * n \in 1 .. Len(s) /\ 3 * n + 1 \in 1 .. Len(s)
  OBVIOUS
<1>1. t[3 * n - 1] = s[3 * n - 1] /\ t[3 * n] = s[3 * n] /\ t[3 * n + 1] = s[3 * n + 1]
  BY <1>0
<1>2. n \in Nat /\ Len(s) >= 3 * n + 1 /\ Len(t) >= 3 * n + 1 OBVIOUS
<1>3. intact(t, n) => intact(s, n) BY SMTT(40), <1>1, <1>2, IntactIs
<1>4. intact(s, n) => intact(t, n) BY SMTT(40), <1>1, <1>2, IntactIs
<1> QED BY <1>1, <1>3, <1>4

\* While a run writes, the records of its stream are the accepted ones, and the
\* one being appended once its checksum is out.
LEMMA WritingStream ==
    ASSUME StreamTypes, ShapeOK, Writing, NEW n \in Nat \ {0}
    PROVE  /\ intact(file, n) <=> \/ n <= Len(accepted)
                                  \/ n = Len(accepted) + 1 /\ part = 3
           /\ n <= Len(accepted) => file[3 * n].entry = accepted[n]
           /\ (n = Len(accepted) + 1 /\ part = 3) => file[3 * n].entry = Head(queue)
<1> DEFINE a == Len(accepted)
<1>0. a \in Nat /\ part \in 0 .. 3 /\ Len(file) = 3 * a + 1 + part
  BY DEF StreamTypes, ShapeOK
<1>1. CASE n <= a
  <2>1. Written(n, accepted[n], 3) BY <1>1, <1>0 DEF ShapeOK
  <2>2. /\ file[3 * n - 1] = chunk("length", n - 1, accepted[n])
        /\ file[3 * n] = chunk("payload", n - 1, accepted[n])
        /\ file[3 * n + 1] = chunk("checksum", n - 1, accepted[n])
    BY <2>1, WrittenIs
  <2> HIDE DEF a
  <2>3. Len(file) >= 3 * n + 1 BY <1>0, <1>1
  <2>4. intact(file, n) BY <2>2, <2>3, IntactIs DEF chunk
  <2> QED BY <1>0, <1>1, <2>2, <2>4 DEF chunk, a
<1>2. CASE n = a + 1 /\ part = 3
  <2>1. Written(n, Head(queue), 3) BY <1>2 DEF ShapeOK
  <2>2. /\ file[3 * n - 1] = chunk("length", n - 1, Head(queue))
        /\ file[3 * n] = chunk("payload", n - 1, Head(queue))
        /\ file[3 * n + 1] = chunk("checksum", n - 1, Head(queue))
    BY <2>1, WrittenIs
  <2> HIDE DEF a
  <2>3. Len(file) >= 3 * n + 1 BY <1>0, <1>2
  <2>4. intact(file, n) BY <2>2, <2>3, IntactIs DEF chunk
  <2> QED BY <1>0, <1>2, <2>2, <2>4 DEF chunk, a
<1>3. CASE n > a /\ ~(n = a + 1 /\ part = 3)
  <2> HIDE DEF a
  <2>1. Len(file) < 3 * n + 1 BY <1>0, <1>3
  <2>2. ~intact(file, n) BY <1>0, <2>1, IntactIs
  <2> QED BY <1>0, <1>3, <2>2 DEF a
<1> HIDE DEF a
<1> QED BY <1>0, <1>1, <1>2, <1>3

LEMMA StreamInit == Init => StreamInv
<1> SUFFICES ASSUME Init PROVE StreamInv OBVIOUS
<1>1. StreamTypes
  <2>1. file \in Seq(Chunks) /\ accepted \in Seq(Items) /\ queue \in Seq(Items)
    BY DEF Init
  <2>2. Len(file) = 0 /\ synced = 0 /\ part = 0 BY DEF Init
  <2>3. observed \in Observed BY DEF Init, Observed
  <2>4. history \in History BY DEF Init, History
  <2>5. enabled \in BOOLEAN /\ result \in Results BY DEF Init, Results
  <2> QED BY <2>1, <2>2, <2>3, <2>4, <2>5 DEF StreamTypes
<1>2. ShapeOK BY DEF Init, ShapeOK, Writing
<1>3. RemainsOK
  <2>1. /\ file = <<>> /\ history.durable = 0 /\ accepted = <<>> /\ pc = "idle"
        /\ crashDirs = {dir} /\ dir.journal = FALSE
    BY DEF Init
  <2>2. ASSUME NEW n \in Nat \ {0} PROVE ~intact(file, n) BY <2>1, <2>2, IntactIs
  <2> QED BY <2>1, <2>2 DEF RemainsOK
<1>4. ReasonsOK
  <2>1. history.durable = 0 /\ history.sent = 0 /\ pc = "idle" BY DEF Init
  <2>2. Transitions(0) = {} BY DEF Transitions
  <2> QED BY <2>1, <2>2, FS_EmptySet DEF ReasonsOK
<1> QED BY <1>1, <1>2, <1>3, <1>4 DEF StreamInv

LEMMA FiniteUpTo ==
    ASSUME NEW n \in Nat PROVE IsFiniteSet(1 .. n) /\ Cardinality(1 .. n) = n
BY FS_Interval

LEMMA TransitionsFinite == ASSUME NEW n \in Nat PROVE IsFiniteSet(Transitions(n))
<1>1. IsFiniteSet(1 .. n) BY FiniteUpTo
<1>2. Transitions(n) \subseteq 1 .. n BY DEF Transitions
<1> QED BY <1>1, <1>2, FS_Subset

\* Steps that leave the stream and what is being recorded alone.
LEMMA Aside ==
    ASSUME StreamInv,
           UNCHANGED <<file, synced, part, enabled, accepted, queue, next>>,
           observed' \in Observed,
           observed'.mode = observed.mode,
           history' \in History,
           history'.durable = history.durable, history'.sent = history.sent,
           dir'.journal = dir.journal,
           \A d \in crashDirs' : \E e \in crashDirs : e.journal = d.journal,
           result' \in Results,
           result' # "JournalExists" => result # "JournalExists",
           \/ pc' = "idle"
           \/ /\ pc \notin {"idle", "magic", "init_sync", "init_dir_sync", "append"}
              /\ pc' \notin {"idle", "magic", "init_sync", "init_dir_sync", "append"}
              /\ pc' = "signal" => observed.mode = "Observe"
    PROVE  StreamInv'
<1>1. StreamTypes' BY DEF StreamInv, StreamTypes
<1>2. ShapeOK' BY DEF StreamInv, ShapeOK, Writing, Written
<1>3. RemainsOK' BY DEF StreamInv, RemainsOK
<1>4. ReasonsOK'
  <2>1. history.sent \in Nat /\ history.durable \in Nat BY DEF StreamInv, StreamTypes, History
  <2>2. Transitions(history.durable)' = Transitions(history.durable) BY DEF Transitions
  <2>3. IsFiniteSet(Transitions(history.durable)) BY <2>1, TransitionsFinite
  <2>4. Cardinality(Transitions(history.durable)) \in Nat BY <2>3, FS_CardinalityType
  <2>5. (enabled /\ observed.mode = "Run") =>
            Cardinality(Transitions(history.durable)) >= history.sent
    BY <2>1, <2>4 DEF StreamInv, ReasonsOK
  <2> QED BY <2>1, <2>2, <2>4, <2>5 DEF ReasonsOK
<1> QED BY <1>1, <1>2, <1>3, <1>4 DEF StreamInv

LEMMA HistoryStep ==
    ASSUME StreamInv, Fault \/ NoFault \/ history' = [history EXCEPT !.disturbed = TRUE]
    PROVE  /\ history' \in History
           /\ history'.durable = history.durable /\ history'.sent = history.sent
BY DEF StreamInv, StreamTypes, Fault, NoFault, History

LEMMA AsideSteps ==
    ASSUME ReportInv, StreamInv,
           \/ FinishJournal \/ Replay \/ CreateTemp \/ Abandon \/ WriteTemp \/ SyncTemp
           \/ Rename \/ SyncDir \/ Kill
    PROVE  StreamInv'
<1>1. /\ observed \in Observed /\ history \in History /\ result \in Results
      /\ dir \in Dir /\ dir \in crashDirs
  BY DEF ReportInv, DirsOK, StreamInv, StreamTypes
<1>2. UNCHANGED <<file, synced, part, enabled, accepted, queue, next, observed>>
  BY DEF FinishJournal, Replay, CreateTemp, Abandon, WriteTemp, SyncTemp, Rename, SyncDir,
         Kill, disk, recording
<1>3. /\ history' \in History
      /\ history'.durable = history.durable /\ history'.sent = history.sent
  BY HistoryStep DEF FinishJournal, Replay, CreateTemp, Abandon, WriteTemp, SyncTemp, Rename,
         SyncDir, Kill, NoFault
<1>4. /\ dir'.journal = dir.journal
      /\ crashDirs' \in {crashDirs, crashDirs \cup {dir'}, {dir'}}
  <2>1. CASE FinishJournal \/ Replay \/ WriteTemp \/ SyncTemp \/ SyncDir \/ Kill
    BY <2>1 DEF FinishJournal, Replay, WriteTemp, SyncTemp, SyncDir, Kill, disk
  <2>2. CASE CreateTemp \/ Abandon \/ Rename
    BY <1>1, <2>2 DEF CreateTemp, Abandon, Rename, SetDir, Dir
  <2> QED BY <2>1, <2>2
<1>5. \A d \in crashDirs' : \E e \in crashDirs : e.journal = d.journal BY <1>1, <1>4
<1>6. /\ pc \notin {"idle", "magic", "init_sync", "init_dir_sync", "append"}
            \/ pc' = "idle"
      /\ pc' \notin {"magic", "init_sync", "init_dir_sync", "append", "signal"}
      /\ result' = result \/ result' \in {"PartialArtifactFailure", "Finished", "Killed"}
      /\ pc # "idle" /\ result = None
  <2> USE DEF Goto, End, PartialArtifactFailure
  <2>1. pc # "idle"
    BY DEF FinishJournal, Replay, CreateTemp, Abandon, WriteTemp, SyncTemp, Rename, SyncDir,
           Kill
  <2>2. CASE FinishJournal \/ Replay \/ CreateTemp
    BY <2>1, <2>2 DEF FinishJournal, Replay, CreateTemp, ReportInv, FinalizeOK
  <2>3. CASE Abandon \/ WriteTemp \/ SyncTemp \/ Rename \/ SyncDir \/ Kill
    BY <2>1, <2>3 DEF Abandon, WriteTemp, SyncTemp, Rename, SyncDir, Kill, ReportInv, FinalizeOK
  <2> QED BY <2>1, <2>2, <2>3
<1>7. result' \in Results /\ result # "JournalExists" BY <1>1, <1>6 DEF Results
<1>8. pc' = "idle"
      \/ /\ pc \notin {"idle", "magic", "init_sync", "init_dir_sync", "append"}
         /\ pc' \notin {"idle", "magic", "init_sync", "init_dir_sync", "append"}
         /\ pc' = "signal" => observed.mode = "Observe"
  BY <1>6
<1> QED BY <1>1, <1>2, <1>3, <1>4, <1>5, <1>7, <1>8, Aside

\* ResilientJournal::record starts an append, or nothing once it has failed.
LEMMA Recording ==
    ASSUME StreamInv, pc \in {"loop", "signal"},
           NEW entries \in Seq(Items), entries # <<>>,
           NEW place \in {"loop", "signal", "finish"}, Record(entries, place),
           UNCHANGED <<dir, crashDirs, file, synced>>,
           observed' \in Observed, observed'.mode = observed.mode,
           history' \in History, history'.durable = history.durable,
           history'.sent = history.sent + (IF pc = "signal" THEN 1 ELSE 0),
           place = "signal" => entries = <<Entry("Transition")>>
    PROVE  StreamInv'
<1>1. /\ UNCHANGED <<part, enabled, accepted, result>>
      /\ enabled => pc' = "append" /\ queue' = entries /\ next' = place
      /\ ~enabled => pc' = place /\ UNCHANGED <<queue, next>>
      /\ enabled \in BOOLEAN
  BY DEF Record, Goto, StreamInv, StreamTypes
<1>2. StreamTypes' BY <1>1 DEF StreamInv, StreamTypes
<1>3. ShapeOK'
  <2>1. CASE ~enabled BY <1>1, <2>1 DEF ShapeOK, Writing
  <2>2. CASE enabled
    <3>1. /\ part = 0 /\ Len(file) = 3 * Len(accepted) + 1 + part /\ file[1] = Magic
          /\ \A m \in 1 .. Len(accepted) : Written(m, accepted[m], 3)
      BY <2>2 DEF StreamInv, ShapeOK, Writing
    <3>2. \A m \in 1 .. Len(accepted) : Written(m, accepted[m], 3)'
      BY <1>1, <3>1 DEF Written
    <3>3. Written(Len(accepted) + 1, Head(queue), part)'
      BY <1>1, <3>1 DEF Written
    <3> QED BY <1>1, <2>2, <3>1, <3>2, <3>3 DEF ShapeOK, Writing
  <2> QED BY <1>1, <2>1, <2>2
<1>4. RemainsOK' BY <1>1 DEF StreamInv, RemainsOK
<1>5. ReasonsOK'
  <2>1. Transitions(history.durable)' = Transitions(history.durable)
    BY <1>1 DEF Transitions
  <2>2. history.sent \in Nat /\ history.durable \in Nat /\ history'.sent \in Nat
    BY DEF StreamInv, StreamTypes, History
  <2>3. Cardinality(Transitions(history.durable)) \in Nat
    BY <2>2, TransitionsFinite, FS_CardinalityType
  <2>4. CASE enabled /\ observed.mode = "Run"
    <3>1. Cardinality(Transitions(history.durable)) >= history'.sent
      BY <2>4 DEF StreamInv, ReasonsOK
    <3> QED BY <1>1, <2>1, <2>2, <2>3, <2>4, <3>1 DEF ReasonsOK
  <2> QED BY <1>1, <2>4 DEF ReasonsOK
<1> QED BY <1>2, <1>3, <1>4, <1>5 DEF StreamInv

LEMMA TerminalRecords ==
    ASSUME observed \in Observed
    PROVE  /\ terminal_records \in Seq(Items) /\ terminal_records # <<>>
           /\ append_terminal \in Seq(Items) /\ append_terminal # <<>>
<1>1. \A kind \in EntryKind : Entry(kind) \in Items BY DEF Entry, Items
<1>2. \A n \in 0 .. MaxSamples : Sample(n) \in Items BY DEF Sample, Items, EntryKind
<1>3. recent_sample_history \in Seq(Items)
  <2>1. CASE observed.samples <= MAX_SAMPLE_HISTORY_CAPACITY
    BY <2>1 DEF recent_sample_history
  <2>2. CASE ~(observed.samples <= MAX_SAMPLE_HISTORY_CAPACITY)
    <3> DEFINE ring == [i \in 1 .. MAX_SAMPLE_HISTORY_CAPACITY |->
                           Sample(observed.samples - MAX_SAMPLE_HISTORY_CAPACITY + i)]
    <3>1. \A i \in 1 .. MAX_SAMPLE_HISTORY_CAPACITY :
              observed.samples - MAX_SAMPLE_HISTORY_CAPACITY + i \in 0 .. MaxSamples
      BY <2>2 DEF Observed
    <3>2. ring \in Seq(Items) BY <1>2, <3>1
    <3>3. <<Entry("SampleHistoryReset")>> \in Seq(Items) BY <1>1 DEF EntryKind
    <3>4. recent_sample_history = <<Entry("SampleHistoryReset")>> \o ring
      BY <2>2 DEF recent_sample_history
    <3> HIDE DEF ring
    <3> QED BY <3>2, <3>3, <3>4
  <2> QED BY <2>1, <2>2
<1>4. calibration \in Seq(Items) BY <1>1 DEF calibration, EntryKind
<1>5. <<Entry("Checkpoint"), Entry("Escape")>> \in Seq(Items) BY <1>1 DEF EntryKind
<1>6. <<Entry("Outcome")>> \in Seq(Items) BY <1>1 DEF EntryKind
<1>7. terminal_records \in Seq(Items) BY <1>3, <1>4, <1>5, <1>6 DEF terminal_records
<1>8. Len(terminal_records) >= 1
  <2> DEFINE early == recent_sample_history \o <<Entry("Checkpoint"), Entry("Escape")>>
                          \o calibration
  <2>1. early \in Seq(Items) BY <1>3, <1>4, <1>5
  <2>2. terminal_records = early \o <<Entry("Outcome")>> BY DEF terminal_records
  <2> HIDE DEF early
  <2> QED BY <2>1, <2>2, <1>6
<1>9. append_terminal \in Seq(Items) /\ append_terminal # <<>>
  BY <1>1 DEF append_terminal, EntryKind
<1> QED BY <1>7, <1>8, <1>9

LEMMA RecordingSteps ==
    ASSUME StreamInv, ReportInv,
           \/ TakeSample \/ Intervene \/ SendSignal \/ RecordTerminal \/ FinalizeWithoutWorker
    PROVE  StreamInv'
<1> USE DEF disk
<1>1. observed \in Observed /\ history \in History /\ result \in Results
  BY DEF StreamInv, StreamTypes
<1>2. \A kind \in EntryKind : <<Entry(kind)>> \in Seq(Items) /\ <<Entry(kind)>> # <<>>
  BY DEF Entry, Items
<1>3. CASE TakeSample
  <2> DEFINE n == observed.samples + 1
  <2>1. /\ n \in 0 .. MaxSamples /\ pc = "loop"
        /\ observed' = [observed EXCEPT !.samples = n]
        /\ UNCHANGED <<dir, crashDirs, file, synced, history>>
        /\ \/ Record(<<Sample(n)>>, "loop")
           \/ pc' = "loop" /\ UNCHANGED <<result, queue, next, part, enabled, accepted>>
    BY <1>1, <1>3 DEF TakeSample, Observed, Goto, recording
  <2> HIDE DEF n
  <2>2. observed' \in Observed /\ observed'.mode = observed.mode BY <1>1, <2>1 DEF Observed
  <2>3. CASE Record(<<Sample(n)>>, "loop")
    <3>1. <<Sample(n)>> \in Seq(Items) /\ <<Sample(n)>> # <<>>
      BY <2>1 DEF Sample, Items, EntryKind
    <3>2. history'.sent = history.sent + (IF pc = "signal" THEN 1 ELSE 0)
      BY <1>1, <2>1 DEF History
    <3> QED BY <1>1, <2>1, <2>2, <2>3, <3>1, <3>2, Recording
  <2>4. CASE pc' = "loop" /\ UNCHANGED <<result, queue, next, part, enabled, accepted>>
    <3>1. \A d \in crashDirs' : \E e \in crashDirs : e.journal = d.journal BY <2>1
    <3> QED BY <1>1, <2>1, <2>2, <2>4, <3>1, Aside
  <2> QED BY <2>1, <2>3, <2>4
<1>4. CASE Intervene
  <2>1. /\ pc = "loop" /\ observed' = [observed EXCEPT !.acts = @ + 1]
        /\ UNCHANGED <<dir, crashDirs, file, synced, history>>
        /\ \/ Record(<<Entry("Transition")>>, "signal")
           \/ /\ observed.mode # "Run" /\ pc' = "signal"
              /\ UNCHANGED <<result, queue, next, part, enabled, accepted>>
    BY <1>4 DEF Intervene, Goto, recording
  <2>2. observed' \in Observed /\ observed'.mode = observed.mode BY <1>1, <2>1 DEF Observed
  <2>3. CASE Record(<<Entry("Transition")>>, "signal")
    <3>2. history'.sent = history.sent + (IF pc = "signal" THEN 1 ELSE 0)
      BY <1>1, <2>1 DEF History
    <3> QED BY <1>1, <1>2, <2>1, <2>2, <2>3, <3>2, Recording DEF EntryKind
  <2>4. CASE /\ observed.mode # "Run" /\ pc' = "signal"
             /\ UNCHANGED <<result, queue, next, part, enabled, accepted>>
    <3>1. \A d \in crashDirs' : \E e \in crashDirs : e.journal = d.journal BY <2>1
    <3>2. observed.mode = "Observe" BY <1>1, <2>4 DEF Observed
    <3> QED BY <1>1, <2>1, <2>2, <2>4, <3>1, <3>2, Aside
  <2> QED BY <2>1, <2>3, <2>4
<1>5. CASE SendSignal
  <2>1. /\ pc = "signal" /\ history' = [history EXCEPT !.sent = @ + 1]
        /\ UNCHANGED <<dir, crashDirs, file, synced, observed>>
        /\ Record(<<Entry("Signal")>>, "loop")
    BY <1>5 DEF SendSignal
  <2>2. /\ history' \in History /\ history'.durable = history.durable
        /\ history'.sent = history.sent + 1
    BY <1>1, <2>1 DEF History
  <2> QED BY <1>1, <1>2, <2>1, <2>2, Recording DEF EntryKind
<1>6. CASE RecordTerminal \/ FinalizeWithoutWorker
  <2>1. /\ pc = "loop"
        /\ UNCHANGED <<dir, crashDirs, file, synced, observed, history>>
        /\ Record(terminal_records, "finish") \/ Record(append_terminal, "finish")
    BY <1>6 DEF RecordTerminal, FinalizeWithoutWorker
  <2>2. history'.sent = history.sent + (IF pc = "signal" THEN 1 ELSE 0)
    BY <1>1, <2>1 DEF History
  <2> QED BY <1>1, <2>1, <2>2, TerminalRecords, Recording
<1> QED BY <1>3, <1>4, <1>5, <1>6

\* SecureJournal::initialize.
LEMMA StartStream ==
    ASSUME ReportInv, StreamInv, NEW mode \in {"Run", "Observe"}, Start(mode)
    PROVE  StreamInv'
<1>1. /\ queue' = <<>> /\ next' = "idle" /\ part' = 0 /\ enabled' = TRUE /\ accepted' = <<>>
      /\ observed' = [mode |-> mode, samples |-> 0, acts |-> 0]
      /\ history' = [disturbed |-> FALSE, leftover |-> dir.tmp # None, durable |-> 0, sent |-> 0]
  BY DEF Start
<1>2. /\ observed' \in Observed /\ history' \in History
      /\ history'.durable = 0 /\ history'.sent = 0
  BY <1>1 DEF Observed, History
<1>3. /\ dir \in Dir /\ dir \in crashDirs /\ crashDirs \subseteq Dir
      /\ file \in Seq(Chunks) /\ synced \in 0 .. Len(file)
  BY DEF ReportInv, DirsOK, StreamInv, StreamTypes
<1>4. CASE dir.journal
  <2>1. pc' = "idle" /\ result' = "JournalExists" /\ UNCHANGED <<dir, crashDirs, file, synced>>
    BY <1>4 DEF Start, End
  <2>2. StreamTypes' BY <1>1, <1>2, <1>3, <2>1 DEF StreamTypes, Results
  <2>3. ShapeOK' BY <2>1 DEF ShapeOK, Writing
  <2>4. RemainsOK' BY <1>1, <1>2, <2>1 DEF StreamInv, RemainsOK
  <2>5. ReasonsOK'
    <3>1. Transitions(0)' = {} BY DEF Transitions
    <3> QED BY <1>2, <2>1, <3>1, FS_EmptySet DEF ReasonsOK
  <2> QED BY <2>2, <2>3, <2>4, <2>5 DEF StreamInv
<1>5. CASE ~dir.journal
  <2>1. /\ dir' = [dir EXCEPT !.journal = TRUE] /\ crashDirs' = crashDirs \cup {dir'}
        /\ file' = <<>> /\ synced' = 0 /\ pc' = "magic" /\ result' = None
    BY <1>5 DEF Start, SetDir
  <2>2. StreamTypes'
    <3>1. file' \in Seq(Chunks) /\ Len(file') = 0 BY <2>1
    <3>2. queue' \in Seq(Items) /\ accepted' \in Seq(Items) BY <1>1
    <3> QED BY <1>1, <1>2, <2>1, <3>1, <3>2 DEF StreamTypes, Results
  <2>3. ShapeOK' BY <1>1, <2>1 DEF ShapeOK, Writing
  <2>4. RemainsOK'
    <3>1. dir'.journal = TRUE BY <1>3, <2>1 DEF Dir
    <3>2. \A n \in Nat \ {0} : ~intact(file', n) BY <2>1, IntactIs
    <3> QED BY <1>1, <1>2, <2>1, <3>1, <3>2 DEF RemainsOK
  <2>5. ReasonsOK'
    <3>1. Transitions(0)' = {} BY DEF Transitions
    <3>2. pc' # "append" /\ pc' # "signal" BY <2>1
    <3> QED BY <1>2, <3>1, <3>2, FS_EmptySet DEF ReasonsOK
  <2> QED BY <2>2, <2>3, <2>4, <2>5 DEF StreamInv
<1> QED BY <1>4, <1>5

LEMMA InitializeStream ==
    ASSUME ReportInv, StreamInv, WriteMagic \/ SyncInit \/ SyncInitDir
    PROVE  StreamInv'
<1> USE DEF Goto, End, PartialArtifactFailure, recording
<1>1. /\ pc \in {"magic", "init_sync", "init_dir_sync"}
      /\ UNCHANGED <<dir, part, enabled, accepted, observed>>
      /\ history' \in History
      /\ history'.durable = history.durable /\ history'.sent = history.sent
  BY HistoryStep DEF WriteMagic, SyncInit, SyncInitDir
<1>2. /\ accepted = <<>> /\ part = 0 /\ enabled = TRUE /\ result = None /\ dir.journal
      /\ accepted \in Seq(Items) /\ observed \in Observed /\ queue \in Seq(Items)
      /\ history \in History /\ history.durable = 0
      /\ pc = "magic" => file = <<>>
      /\ pc # "magic" => file = <<Magic>>
      /\ synced \in 0 .. Len(file)
  BY <1>1 DEF StreamInv, StreamTypes, ShapeOK, RemainsOK, ReportInv, FinalizeOK, History
<1>3. /\ \/ UNCHANGED <<queue, next>> /\ pc' # "append"
         \/ queue' = <<Entry("Header")>> /\ next' = "loop" /\ pc' = "append"
      /\ file' \in {<<>>, <<Junk>>, <<Magic>>}
      /\ pc' \in {"init_sync", "init_dir_sync", "append"} => file' = <<Magic>>
      /\ pc' \in {"init_sync", "init_dir_sync", "append", "idle"}
      /\ synced' \in 0 .. Len(file')
      /\ crashDirs' \in {crashDirs, {dir}} /\ (pc' = "append" => crashDirs' = {dir})
      /\ result' \in {None, "PartialArtifactFailure"}
  <2>1. CASE WriteMagic
    <3>1. synced = 0 /\ pc = "magic" BY <1>2, <2>1 DEF WriteMagic
    <3>2. UNCHANGED <<crashDirs, synced, queue, next>> BY <2>1 DEF WriteMagic
    <3>3. CASE file' = <<Magic>> /\ pc' = "init_sync" /\ result' = result
      BY <1>2, <3>1, <3>2, <3>3
    <3>4. CASE file' \in {<<>>, <<Junk>>} /\ pc' = "idle" /\ result' = "PartialArtifactFailure"
      <4>1. Len(file') \in Nat BY <3>4
      <4> QED BY <3>1, <3>2, <3>4, <4>1
    <3> QED BY <2>1, <3>3, <3>4 DEF WriteMagic
  <2>2. CASE SyncInit
    <3>1. pc = "init_sync" /\ file = <<Magic>> /\ UNCHANGED <<crashDirs, file, queue, next>>
      BY <1>2, <2>2 DEF SyncInit
    <3>2. Len(file) \in Nat BY <3>1
    <3>3. synced' \in 0 .. Len(file') BY <1>2, <2>2, <3>1, <3>2 DEF SyncInit
    <3>4. \/ pc' = "init_dir_sync" /\ result' = result
          \/ pc' = "idle" /\ result' = "PartialArtifactFailure"
      BY <2>2 DEF SyncInit
    <3> QED BY <1>2, <3>1, <3>3, <3>4
  <2>3. CASE SyncInitDir BY <1>2, <2>3 DEF SyncInitDir
  <2> QED BY <2>1, <2>2, <2>3
<1>4. Len(file') <= 1 /\ file' \in Seq(Chunks)
  <2>1. Junk \in Chunks /\ Magic \in Chunks
    BY DEF Junk, Magic, chunk, Chunks, Entry, Items, EntryKind
  <2>2. CASE file' = <<>> BY <2>2
  <2>3. CASE file' = <<Junk>> BY <2>1, <2>3
  <2>4. CASE file' = <<Magic>> BY <2>1, <2>4
  <2> QED BY <1>3, <2>2, <2>3, <2>4
<1>5. StreamTypes'
  <2>1. queue' \in Seq(Items)
    <3>1. Entry("Header") \in Items BY DEF Entry, Items, EntryKind
    <3>2. <<Entry("Header")>> \in Seq(Items) BY <3>1
    <3> QED BY <1>2, <1>3, <3>2, Zenon
  <2> QED BY <1>1, <1>2, <1>3, <1>4, <2>1 DEF StreamTypes, Results
<1>6. ShapeOK'
  <2>1. CASE pc' # "append" BY <1>1, <1>2, <1>3, <2>1 DEF ShapeOK, Writing
  <2>2. CASE pc' = "append"
    <3>1. file' = <<Magic>> /\ queue' = <<Entry("Header")>> BY <1>3, <2>2
    <3>2. Written(Len(accepted) + 1, Head(queue), part)' BY <1>1, <1>2 DEF Written
    <3> QED BY <1>1, <1>2, <2>2, <3>1, <3>2 DEF ShapeOK
  <2> QED BY <2>1, <2>2
<1>7. RemainsOK'
  <2>1. \A n \in Nat \ {0} : ~intact(file', n) BY <1>3, <1>4, IntactIs
  <2> QED BY <1>1, <1>2, <1>3, <1>4, <2>1 DEF RemainsOK
<1>8. ReasonsOK'
  <2>1. Transitions(history.durable)' = Transitions(history.durable)
    BY <1>1 DEF Transitions
  <2> QED BY <1>1, <1>2, <1>3, <2>1 DEF StreamInv, ReasonsOK
<1> QED BY <1>5, <1>6, <1>7, <1>8 DEF StreamInv

\* An append that is under way: SecureJournal::append.
LEMMA Appending ==
    ASSUME ReportInv, StreamInv, pc = "append"
    PROVE  /\ Writing /\ result = None /\ dir.journal /\ enabled = TRUE
           /\ queue \in Seq(Items) /\ queue # <<>> /\ Head(queue) \in Items
           /\ accepted \in Seq(Items) /\ Len(accepted) \in Nat /\ part \in 0 .. 3
           /\ file \in Seq(Chunks) /\ Len(file) \in Nat
           /\ Len(file) = 3 * Len(accepted) + 1 + part
           /\ history \in History /\ history.durable \in 0 .. Len(accepted)
           /\ \A d \in crashDirs : d.journal
<1>1. /\ queue \in Seq(Items) /\ queue # <<>> /\ accepted \in Seq(Items) /\ part \in 0 .. 3
      /\ file \in Seq(Chunks) /\ history \in History /\ enabled = TRUE
  BY DEF StreamInv, StreamTypes, ShapeOK
<1>2. Writing BY <1>1 DEF Writing
<1>3. result = None /\ dir.journal BY DEF ReportInv, FinalizeOK, StreamInv, RemainsOK
<1>4. Len(file) = 3 * Len(accepted) + 1 + part BY <1>2 DEF StreamInv, ShapeOK
<1>5. history.durable \in 0 .. Len(accepted) BY <1>1 DEF StreamInv, RemainsOK, History
<1>6. \A d \in crashDirs : d.journal BY DEF StreamInv, RemainsOK
<1>7. Head(queue) \in Items BY <1>1
<1> QED BY <1>1, <1>2, <1>3, <1>4, <1>5, <1>6, <1>7

LEMMA WritePartStream ==
    ASSUME ReportInv, StreamInv, WritePart
    PROVE  StreamInv'
<1> DEFINE a == Len(accepted)
           c == chunk(Parts[part + 1], Len(accepted), Head(queue))
<1>1. /\ pc = "append" /\ part < 3 /\ part' = part + 1 /\ file' = Append(file, c)
      /\ UNCHANGED <<dir, crashDirs, synced, pc, queue, next, enabled, accepted, observed,
                     result, history>>
  BY DEF WritePart
<1>2. /\ Writing /\ result = None /\ dir.journal /\ enabled = TRUE
      /\ queue \in Seq(Items) /\ queue # <<>> /\ Head(queue) \in Items
      /\ accepted \in Seq(Items) /\ a \in Nat /\ part \in 0 .. 3
      /\ file \in Seq(Chunks) /\ Len(file) \in Nat /\ Len(file) = 3 * a + 1 + part
      /\ history \in History /\ history.durable \in 0 .. a
      /\ \A d \in crashDirs : d.journal
  BY <1>1, Appending
<1>3. c \in Chunks
  <2>1. part + 1 \in {1, 2, 3} BY <1>1, <1>2
  <2>2. Parts[part + 1] \in {"length", "payload", "checksum"} BY <2>1 DEF Parts
  <2> QED BY <1>2, <2>2 DEF chunk, Chunks
<1>4. c = chunk(Parts[part + 1], a, Head(queue)) OBVIOUS
<1> HIDE DEF a, c
<1>5. /\ file' \in Seq(Chunks) /\ Len(file') = Len(file) + 1
      /\ \A i \in 1 .. Len(file) : file'[i] = file[i]
      /\ file'[3 * a + 2 + part] = c
  <2>1. 3 * a + 2 + part = Len(file) + 1 BY <1>2
  <2>2. file \in Seq(Chunks) /\ file' = Append(file, c) BY <1>1, <1>2
  <2>3. file' \in Seq(Chunks) /\ Len(file') = Len(file) + 1 BY <1>3, <2>2
  <2>4. \A i \in 1 .. Len(file) : file'[i] = file[i] BY <1>3, <2>2
  <2>5. file'[Len(file) + 1] = c BY <1>3, <2>2
  <2> QED BY <2>1, <2>3, <2>4, <2>5
<1>6. StreamTypes'
  BY <1>1, <1>2, <1>5 DEF StreamInv, StreamTypes
<1>7. ShapeOK'
  <2>1. Len(file') = 3 * a + 1 + part' /\ file'[1] = Magic
    <3>1. file[1] = Magic BY <1>2 DEF StreamInv, ShapeOK
    <3> QED BY <1>1, <1>2, <1>5, <3>1
  <2>2. ASSUME NEW m \in 1 .. a PROVE Written(m, accepted[m], 3)'
    <3>1. Written(m, accepted[m], 3) BY <1>2 DEF StreamInv, ShapeOK, a
    <3>2. \A i \in 1 .. 3 : 3 * m - 2 + i \in 1 .. Len(file) BY <1>2
    <3> QED BY <1>1, <1>5, <3>1, <3>2 DEF Written
  <2>3. Written(a + 1, Head(queue), part)'
    <3>1. Written(a + 1, Head(queue), part) BY <1>2 DEF StreamInv, ShapeOK, a
    <3>2. ASSUME NEW i \in 1 .. part + 1
          PROVE  file'[3 * (a + 1) - 2 + i] = chunk(Parts[i], (a + 1) - 1, Head(queue))
      <4>1. CASE i <= part
        <5>1. i \in 1 .. part /\ 3 * (a + 1) - 2 + i \in 1 .. Len(file) BY <1>2, <4>1
        <5> QED BY <1>5, <3>1, <5>1 DEF Written
      <4>2. CASE i = part + 1
        <5>1. 3 * (a + 1) - 2 + i = 3 * a + 2 + part /\ (a + 1) - 1 = a BY <1>2, <4>2
        <5> QED BY <1>4, <1>5, <4>2, <5>1
      <4> QED BY <1>2, <4>1, <4>2
    <3> QED BY <1>1, <3>2 DEF Written, a
  <2> QED BY <1>1, <1>2, <2>1, <2>2, <2>3 DEF ShapeOK, Writing, a
<1>8. RemainsOK'
  <2>1. ASSUME NEW n \in Nat \ {0} 
        PROVE  /\ intact(file', n) => n <= a + 1
               /\ n <= a => (intact(file', n) <=> intact(file, n)) /\ file'[3 * n] = file[3 * n]
    <3>1. intact(file', n) => 3 * n + 1 <= Len(file') BY IntactIs
    <3>2. Len(file') <= 3 * a + 4 /\ Len(file') \in Nat BY <1>1, <1>2, <1>5
    <3>3. intact(file', n) => n <= a + 1 BY <1>2, <3>1, <3>2
    <3>4. n <= a => 3 * n + 1 <= Len(file) BY <1>2
    <3>5. Len(file) <= Len(file') BY <1>2, <1>5
    <3>6. n <= a => (intact(file', n) <=> intact(file, n)) /\ file'[3 * n] = file[3 * n]
      BY <1>2, <1>5, <3>2, <3>4, <3>5, StreamGrows
    <3> QED BY <3>3, <3>6
  <2>2. ASSUME NEW n \in Nat \ {0}, n <= a PROVE file[3 * n].entry = accepted[n] /\ intact(file, n)
    BY <1>2, <2>2, WritingStream DEF StreamInv, a
  <2>3. history.durable > 0 =>
          /\ file'[1] = Magic /\ 3 * history.durable + 1 <= synced
          /\ \A n \in 1 .. history.durable : intact(file', n)
    <3>1. file'[1] = file[1]
      <4>1. 1 \in 1 .. Len(file) BY <1>2
      <4> QED BY <1>5, <4>1
    <3>2. history.durable > 0 => file[1] = Magic /\ 3 * history.durable + 1 <= synced
      BY <1>2 DEF StreamInv, RemainsOK
    <3> QED BY <1>2, <2>1, <2>2, <3>1, <3>2
  <2> QED BY <1>1, <1>2, <2>1, <2>2, <2>3 DEF RemainsOK, a
<1>9. ReasonsOK'
  <2>1. Transitions(history.durable)' = Transitions(history.durable)
    BY <1>1 DEF Transitions
  <2> QED BY <1>1, <2>1 DEF StreamInv, ReasonsOK
<1> QED BY <1>6, <1>7, <1>8, <1>9 DEF StreamInv

LEMMA AcceptStream ==
    ASSUME ReportInv, StreamInv, Accept
    PROVE  StreamInv'
<1> DEFINE a == Len(accepted)
           e == Head(queue)
<1>1. /\ pc = "append" /\ part = 3 /\ part' = 0 /\ queue' = Tail(queue)
      /\ accepted' = Append(accepted, e) /\ result' = result
      /\ pc' = (IF Len(queue) = 1 THEN next ELSE pc)
      /\ UNCHANGED <<dir, crashDirs, file, next, enabled, observed>>
      /\ \/ /\ requires_sync(e.kind) /\ synced' = Len(file)
            /\ history' = [history EXCEPT !.durable = Len(accepted')]
         \/ /\ ~requires_sync(e.kind) /\ UNCHANGED <<synced, history>>
  BY DEF Accept, Goto
<1>2. /\ Writing /\ result = None /\ dir.journal /\ enabled = TRUE
      /\ queue \in Seq(Items) /\ queue # <<>> /\ e \in Items
      /\ accepted \in Seq(Items) /\ a \in Nat
      /\ file \in Seq(Chunks) /\ Len(file) \in Nat /\ Len(file) = 3 * a + 4
      /\ history \in History /\ history.durable \in 0 .. a
      /\ \A d \in crashDirs : d.journal
  BY <1>1, Appending
<1>3. next \in {"idle", "loop", "signal", "finish"} BY DEF ReportInv, FinalizeOK
<1> HIDE DEF a, e
<1>4. /\ accepted' \in Seq(Items) /\ Len(accepted') = a + 1 /\ accepted'[a + 1] = e
      /\ \A m \in 1 .. a : accepted'[m] = accepted[m]
  BY <1>1, <1>2 DEF a
<1>5. queue' \in Seq(Items) /\ (Len(queue) # 1 => queue' # <<>>)
  <2>1. queue' \in Seq(Items) /\ Len(queue') = Len(queue) - 1 BY <1>1, <1>2
  <2>2. Len(queue) \in Nat BY <1>2
  <2> QED BY <2>1, <2>2
<1>6. /\ history' \in History /\ history'.sent = history.sent
      /\ history'.durable \in {history.durable, a + 1}
      /\ history'.durable = a + 1 \/ (history'.durable = history.durable /\ synced' = synced
                                          /\ ~requires_sync(e.kind))
      /\ history'.durable = a + 1 => synced' = Len(file)
      /\ synced' \in 0 .. Len(file) /\ synced <= synced'
  <2>1. synced \in 0 .. Len(file) BY DEF StreamInv, StreamTypes
  <2>2. CASE ~requires_sync(e.kind) /\ UNCHANGED <<synced, history>>
    BY <1>2, <2>1, <2>2
  <2>3. CASE synced' = Len(file) /\ history' = [history EXCEPT !.durable = Len(accepted')]
    <3>1. /\ history' \in History /\ history'.sent = history.sent
          /\ history'.durable = a + 1
      <4>1. PICK k \in Nat : k = a + 1 /\ k = Len(accepted') BY <1>2, <1>4
      <4>2. history' = [history EXCEPT !.durable = k] BY <2>3, <4>1
      <4>3. history \in History BY <1>2
      <4>4. history' \in History /\ history'.sent = history.sent /\ history'.durable = k
        BY <4>2, <4>3 DEF History
      <4> QED BY <4>1, <4>4
    <3> QED BY SMTT(40), <1>2, <2>1, <2>3, <3>1
  <2> QED BY <1>1, <2>2, <2>3
<1>7. StreamTypes'
  BY <1>1, <1>2, <1>4, <1>5, <1>6 DEF StreamInv, StreamTypes
<1>8. ASSUME NEW m \in 1 .. a + 1 PROVE Written(m, accepted'[m], 3)
  <2>1. CASE m <= a
    <3>1. Written(m, accepted[m], 3) BY <1>2, <2>1 DEF StreamInv, ShapeOK, a
    <3> QED BY <1>2, <1>4, <2>1, <3>1
  <2>2. CASE m = a + 1
    <3>1. Written(a + 1, e, 3) BY <1>1, <1>2 DEF StreamInv, ShapeOK, a, e
    <3> QED BY <1>4, <2>2, <3>1
  <2> QED BY <1>2, <2>1, <2>2
<1>9. ShapeOK'
  <2>1. \A m \in 1 .. a + 1 : Written(m, accepted[m], 3)' BY <1>1, <1>8 DEF Written
  <2>2. Written(Len(accepted) + 1, Head(queue), part)' BY <1>1 DEF Written
  <2>3. file'[1] = Magic /\ Len(file') = 3 * Len(accepted') + 1 + part'
    BY SMTT(40), <1>1, <1>2, <1>4 DEF StreamInv, ShapeOK
  <2> QED BY <1>1, <1>2, <1>3, <1>4, <1>5, <2>1, <2>2, <2>3 DEF ShapeOK
<1>10. ASSUME NEW n \in Nat \ {0}
       PROVE  /\ intact(file, n) <=> n <= a + 1
              /\ n <= a + 1 => file[3 * n].entry = accepted'[n]
  <2>1. /\ intact(file, n) <=> n <= a \/ n = a + 1
        /\ n <= a => file[3 * n].entry = accepted[n]
        /\ n = a + 1 => file[3 * n].entry = e
    BY <1>1, <1>2, WritingStream DEF StreamInv, a, e
  <2> QED BY <1>2, <1>4, <2>1
<1>11. RemainsOK'
  <2>1. ASSUME NEW n \in Nat \ {0}, intact(file, n)
        PROVE  n <= Len(accepted') + 1 /\ (n <= Len(accepted') => file[3 * n].entry = accepted'[n])
    BY <1>2, <1>4, <1>10, <2>1
  <2>2. history'.durable > 0 =>
          /\ file[1] = Magic /\ 3 * history'.durable + 1 <= synced'
          /\ \A n \in 1 .. history'.durable : intact(file, n)
    <3>1. file[1] = Magic BY <1>2 DEF StreamInv, ShapeOK
    <3>2. history.durable > 0 => 3 * history.durable + 1 <= synced
      BY <1>2 DEF StreamInv, RemainsOK
    <3>3. history'.durable > 0 => 3 * history'.durable + 1 <= synced'
      BY <1>2, <1>6, <3>2
    <3>4. history'.durable \in Nat /\ history'.durable <= a + 1 BY <1>2, <1>6
    <3>5. \A n \in 1 .. history'.durable : intact(file, n) BY <1>2, <1>10, <3>4
    <3> QED BY <3>1, <3>3, <3>5
  <2>3. history'.durable <= Len(accepted') BY <1>2, <1>4, <1>6
  <2> QED BY <1>1, <1>2, <2>1, <2>2, <2>3 DEF RemainsOK
<1>12. ReasonsOK'
  <2> SUFFICES ASSUME observed.mode = "Run" PROVE ReasonsOK' BY <1>1 DEF ReasonsOK
  <2> DEFINE before == Transitions(history.durable)
             after == {i \in 1 .. history'.durable : accepted'[i].kind = "Transition"}
  <2>1. Transitions(history.durable)' = after BY DEF Transitions
  <2>2. before \subseteq after /\ history.durable + 1 \notin before
    BY SMTT(40), <1>2, <1>4, <1>6 DEF Transitions, a
  <2>3. history'.durable \in Nat /\ history.durable \in Nat /\ history.sent \in Nat
    BY <1>2, <1>6 DEF History
  <2>4. IsFiniteSet(before) BY <2>3, TransitionsFinite
  <2>5. IsFiniteSet(after)
    <3>1. IsFiniteSet(1 .. history'.durable) BY <2>3, FiniteUpTo
    <3> QED BY <3>1, FS_Subset
  <2>6. Cardinality(before) >= history.sent
        /\ (next = "signal" => queue = <<Entry("Transition")>>)
    <3>1. Cardinality(before) \in Nat BY <2>4, FS_CardinalityType
    <3>2. enabled /\ observed.mode = "Run" /\ pc # "signal" BY <1>1, <1>2
    <3> QED BY <1>1, <2>3, <3>1, <3>2 DEF StreamInv, ReasonsOK
  <2> HIDE DEF before, after
  <2>7. Cardinality(before) \in Nat /\ Cardinality(after) \in Nat
        /\ Cardinality(before) <= Cardinality(after)
    BY <2>2, <2>4, <2>5, FS_CardinalityType, FS_Subset
  <2>8. CASE next # "signal"
    <3>1. pc' # "signal" BY <1>1, <2>8
    <3> QED BY <1>1, <1>6, <2>1, <2>3, <2>6, <2>7, <2>8, <3>1 DEF ReasonsOK
  <2>9. CASE next = "signal"
    <3>1. queue = <<Entry("Transition")>> BY <2>6, <2>9
    <3>2. Len(queue) = 1 /\ e.kind = "Transition" BY <3>1 DEF e, Entry
    <3>3. pc' = "signal" /\ history'.durable = a + 1
      BY <1>1, <1>6, <2>9, <3>2 DEF requires_sync
    <3>4. a + 1 \in after /\ a + 1 \notin before
      BY <1>2, <1>4, <3>2, <3>3 DEF before, after, Transitions
    <3>5. /\ IsFiniteSet(before \cup {a + 1})
          /\ Cardinality(before \cup {a + 1}) = Cardinality(before) + 1
      BY <2>4, <3>4, FS_AddElement
    <3>6. before \cup {a + 1} \subseteq after BY <2>2, <3>4
    <3>7. Cardinality(before) + 1 <= Cardinality(after) BY <2>5, <3>5, <3>6, FS_Subset
    <3> QED BY SMTT(40), <1>1, <1>6, <2>1, <2>3, <2>6, <2>7, <3>3, <3>7 DEF ReasonsOK
  <2> QED BY <2>8, <2>9
<1> QED BY <1>7, <1>9, <1>11, <1>12 DEF StreamInv

\* A torn write after the records changes none of them.
LEMMA JunkIsNoRecord ==
    ASSUME NEW s \in Seq(Chunks), NEW n \in Nat \ {0}
    PROVE  /\ intact(Append(s, Junk), n) <=> intact(s, n)
           /\ intact(s, n) => Append(s, Junk)[3 * n] = s[3 * n]
           /\ Append(s, Junk) \in Seq(Chunks)
<1> DEFINE t == Append(s, Junk)
<1>1. Junk \in Chunks BY DEF Junk, chunk, Chunks, Entry, Items, EntryKind
<1>2. t \in Seq(Chunks) /\ Len(t) = Len(s) + 1 BY <1>1
<1>3. \A i \in 1 .. Len(s) : t[i] = s[i] BY <1>1
<1>4. t[Len(s) + 1].part = "junk" BY <1>1 DEF Junk, chunk
<1>5. Len(s) \in Nat /\ Len(t) \in Nat BY <1>2
<1> HIDE DEF t
<1>6. CASE 3 * n + 1 <= Len(s)
  <2>1. Len(s) <= Len(t) BY <1>2, <1>5
  <2>2. (intact(t, n) <=> intact(s, n)) /\ t[3 * n] = s[3 * n]
    BY <1>3, <1>5, <1>6, <2>1, StreamGrows
  <2> QED BY <1>2, <2>2 DEF t
<1>7. CASE ~(3 * n + 1 <= Len(s))
  <2>1. ~intact(s, n) BY <1>5, <1>7, IntactIs
  <2>2. ~intact(t, n)
    <3> SUFFICES ASSUME intact(t, n) PROVE FALSE OBVIOUS
    <3>1. Len(t) >= 3 * n + 1 /\ t[3 * n + 1].part = "checksum" BY IntactIs
    <3>2. 3 * n + 1 = Len(s) + 1 BY <1>2, <1>5, <1>7, <3>1
    <3> QED BY <1>4, <3>1, <3>2
  <2> QED BY <1>2, <2>1, <2>2 DEF t
<1> QED BY <1>6, <1>7

LEMMA FailAppendStream ==
    ASSUME ReportInv, StreamInv, FailAppend
    PROVE  StreamInv'
<1>1. /\ pc = "append" /\ part' = 0 /\ queue' = <<>> /\ enabled' = FALSE
      /\ UNCHANGED <<dir, crashDirs, synced, next, accepted, observed>>
      /\ \/ pc' = "idle" /\ result' = "PartialArtifactFailure"
         \/ pc' = next /\ result' = result
      /\ file' = file \/ file' = Append(file, Junk)
      /\ Fault
  BY DEF FailAppend, PartialArtifactFailure, End, Goto
<1>2. /\ result = None /\ dir.journal /\ accepted \in Seq(Items) /\ Len(accepted) \in Nat
      /\ file \in Seq(Chunks) /\ Len(file) \in Nat /\ Len(file) >= 1
      /\ history.durable \in 0 .. Len(accepted) /\ \A d \in crashDirs : d.journal
  BY <1>1, Appending
<1>3. /\ history' \in History
      /\ history'.durable = history.durable /\ history'.sent = history.sent
  BY <1>1, HistoryStep
<1>4. next \in {"idle", "loop", "signal", "finish"} BY DEF ReportInv, FinalizeOK
<1>5. /\ file' \in Seq(Chunks) /\ Len(file) <= Len(file') /\ file'[1] = file[1]
      /\ \A n \in Nat \ {0} : /\ intact(file', n) <=> intact(file, n)
                              /\ intact(file, n) => file'[3 * n] = file[3 * n]
  <2>1. CASE file' = file BY <1>2, <2>1
  <2>2. CASE file' = Append(file, Junk)
    <3>1. Junk \in Chunks BY DEF Junk, chunk, Chunks, Entry, Items, EntryKind
    <3>2. Len(file') = Len(file) + 1 /\ file'[1] = file[1] BY <1>2, <2>2, <3>1
    <3>3. \A n \in Nat \ {0} :
             /\ intact(file', n) <=> intact(file, n)
             /\ intact(file, n) => file'[3 * n] = file[3 * n]
      BY <1>2, <2>2, JunkIsNoRecord
    <3>4. file' \in Seq(Chunks) BY <1>2, <2>2, <3>1
    <3>5. Len(file) <= Len(file') BY <1>2, <3>2
    <3> QED BY <3>2, <3>3, <3>4, <3>5
  <2> QED BY <1>1, <2>1, <2>2
<1>6. StreamTypes'
  <2>1. queue' \in Seq(Items) BY <1>1
  <2>2. synced' \in 0 .. Len(file') BY <1>1, <1>2, <1>5 DEF StreamInv, StreamTypes
  <2>3. result' \in Results BY <1>1, <1>2 DEF Results
  <2>4. enabled' \in BOOLEAN BY <1>1, Zenon
  <2>6. part' \in 0 .. 3
    <3>1. part' = 0 BY <1>1
    <3> QED BY <3>1
  <2>5. observed' \in Observed /\ accepted' \in Seq(Items)
    BY <1>1 DEF StreamInv, StreamTypes
  <2> QED BY <1>3, <1>5, <2>1, <2>2, <2>3, <2>4, <2>5, <2>6 DEF StreamTypes
<1>7. ShapeOK' BY <1>1, <1>4 DEF ShapeOK, Writing
<1>8. RemainsOK' BY <1>1, <1>2, <1>3, <1>5 DEF StreamInv, RemainsOK
<1>9. ReasonsOK' BY <1>1 DEF ReasonsOK
<1> QED BY <1>6, <1>7, <1>8, <1>9 DEF StreamInv

LEMMA FlushStream ==
    ASSUME ReportInv, StreamInv, Flush
    PROVE  StreamInv'
<1>1. /\ pc = "flush"
      /\ UNCHANGED <<dir, crashDirs, file, queue, next, part, enabled, accepted, observed>>
      /\ synced' = Len(file) \/ synced' = synced
      /\ \/ pc' = "replay" /\ result' = result
         \/ pc' = "idle" /\ result' = "PartialArtifactFailure"
      /\ Fault \/ NoFault
  BY DEF Flush, PartialArtifactFailure, End, Goto, recording
<1>2. /\ history' \in History
      /\ history'.durable = history.durable /\ history'.sent = history.sent
  BY <1>1, HistoryStep
<1>3. result = None BY <1>1 DEF ReportInv, FinalizeOK
<1>4. Len(file) \in Nat /\ synced \in 0 .. Len(file) /\ history.durable \in Nat
  BY DEF StreamInv, StreamTypes, History
<1>5. synced' \in 0 .. Len(file') /\ synced <= synced' BY <1>1, <1>4
<1>6. StreamTypes' BY <1>1, <1>2, <1>5 DEF StreamInv, StreamTypes, Results
<1>7. ShapeOK' BY <1>1 DEF StreamInv, ShapeOK, Writing, Written
<1>8. RemainsOK' 
  <2>1. history.durable > 0 /\ dir.journal => 3 * history.durable + 1 <= synced
    BY <1>3 DEF StreamInv, RemainsOK
  <2>2. history.durable > 0 /\ dir.journal => 3 * history.durable + 1 <= synced'
    BY <1>4, <1>5, <2>1
  <2> QED BY <1>1, <1>2, <1>3, <2>2 DEF StreamInv, RemainsOK
<1>9. ReasonsOK'
  <2>1. Transitions(history.durable)' = Transitions(history.durable)
    BY <1>1, <1>2 DEF Transitions
  <2> QED BY <1>1, <1>2, <2>1 DEF StreamInv, ReasonsOK
<1> QED BY <1>6, <1>7, <1>8, <1>9 DEF StreamInv

LEMMA CleanUpStream ==
    ASSUME ReportInv, StreamInv, CleanUp
    PROVE  StreamInv'
<1>1. /\ pc = "idle" /\ dir' = [dir EXCEPT !.journal = FALSE, !.report = None]
      /\ crashDirs' = {dir'} /\ file' = <<>> /\ synced' = 0 /\ result' = None
      /\ UNCHANGED <<pc, queue, next, part, enabled, accepted, observed, history>>
  BY DEF CleanUp, recording
<1>2. dir'.journal = FALSE BY <1>1 DEF ReportInv, DirsOK, Dir
<1>3. StreamTypes'
  <2>1. file' \in Seq(Chunks) /\ Len(file') = 0 BY <1>1
  <2> QED BY <1>1, <2>1 DEF StreamInv, StreamTypes, Results
<1>4. ShapeOK' BY <1>1 DEF ShapeOK, Writing
<1>5. RemainsOK'
  <2>1. \A n \in Nat \ {0} : ~intact(file', n) BY <1>1, IntactIs
  <2> QED BY <1>1, <1>2, <2>1 DEF StreamInv, RemainsOK
<1>6. ReasonsOK'
  <2>1. Transitions(history.durable)' = Transitions(history.durable)
    BY <1>1 DEF Transitions
  <2> QED BY <1>1, <2>1 DEF StreamInv, ReasonsOK
<1> QED BY <1>3, <1>4, <1>5, <1>6 DEF StreamInv

\* What a crash of the host leaves of a stream.
Left(s, length, from, to) ==
    [i \in 1 .. length |-> IF i \in from .. to - 1 THEN Junk ELSE s[i]]

\* It leaves no record that was not there, and every one that was synchronized.
LEMMA CrashedStream ==
    ASSUME NEW s \in Seq(Chunks), NEW kept \in 0 .. Len(s), NEW length \in kept .. Len(s),
           NEW from \in kept + 1 .. length + 1, NEW to \in kept + 1 .. length + 1, NEW t,
           t = Left(s, length, from, to)
    PROVE  /\ t \in Seq(Chunks) /\ Len(t) = length
           /\ \A i \in 1 .. kept : t[i] = s[i]
           /\ \A i \in 1 .. length : t[i] = s[i] \/ t[i] = Junk
           /\ \A n \in Nat \ {0} : intact(t, n) => intact(s, n) /\ t[3 * n] = s[3 * n]
           /\ \A n \in Nat \ {0} : (3 * n + 1 <= kept /\ intact(s, n)) => intact(t, n)
<1>0. Junk \in Chunks BY DEF Junk, chunk, Chunks, Entry, Items, EntryKind
<1>1. length \in Nat /\ kept \in Nat /\ Len(s) \in Nat /\ kept <= length /\ length <= Len(s)
  OBVIOUS
<1>2. t \in Seq(Chunks) /\ Len(t) = length
  <2>1. \A i \in 1 .. length : s[i] \in Chunks BY <1>1
  <2> QED BY <1>0, <1>1, <2>1 DEF Left
<1>3. \A i \in 1 .. kept : t[i] = s[i] BY <1>1 DEF Left
<1>4. \A i \in 1 .. length : t[i] = s[i] \/ t[i] = Junk BY <1>1 DEF Left
<1>5. ASSUME NEW n \in Nat \ {0}, intact(t, n) PROVE intact(s, n) /\ t[3 * n] = s[3 * n]
  <2>1. /\ length >= 3 * n + 1
        /\ t[3 * n - 1].part = "length" /\ t[3 * n - 1].sequence = n - 1
        /\ t[3 * n].part = "payload" /\ t[3 * n].sequence = n - 1
        /\ t[3 * n + 1].part = "checksum" /\ t[3 * n + 1].sequence = n - 1
    <3>1. n \in Nat /\ intact(t, n) BY <1>5
    <3> QED BY SMTT(40), <1>2, <3>1, IntactIs
  <2>2. 3 * n - 1 \in 1 .. length /\ 3 * n \in 1 .. length /\ 3 * n + 1 \in 1 .. length
    BY <1>1, <2>1
  <2>3. Junk.part = "junk" BY DEF Junk, chunk
  <2>4. t[3 * n - 1] = s[3 * n - 1] /\ t[3 * n] = s[3 * n] /\ t[3 * n + 1] = s[3 * n + 1]
    BY <1>4, <2>1, <2>2, <2>3
  <2>5. Len(s) >= 3 * n + 1 BY <1>1, <2>1
  <2> QED BY <2>1, <2>4, <2>5, IntactIs
<1>6. ASSUME NEW n \in Nat \ {0}, 3 * n + 1 <= kept, intact(s, n) PROVE intact(t, n)
  <2>1. /\ s[3 * n - 1].part = "length" /\ s[3 * n - 1].sequence = n - 1
        /\ s[3 * n].part = "payload" /\ s[3 * n].sequence = n - 1
        /\ s[3 * n + 1].part = "checksum" /\ s[3 * n + 1].sequence = n - 1
    BY <1>6, IntactIs
  <2>2. t[3 * n - 1] = s[3 * n - 1] /\ t[3 * n] = s[3 * n] /\ t[3 * n + 1] = s[3 * n + 1]
    <3>1. 3 * n - 1 \in 1 .. kept /\ 3 * n \in 1 .. kept /\ 3 * n + 1 \in 1 .. kept
      BY <1>1, <1>6
    <3> QED BY <1>3, <3>1
  <2>3. Len(t) >= 3 * n + 1 BY <1>1, <1>2, <1>6
  <2>4. /\ t[3 * n - 1].part = "length" /\ t[3 * n - 1].sequence = n - 1
        /\ t[3 * n].part = "payload" /\ t[3 * n].sequence = n - 1
        /\ t[3 * n + 1].part = "checksum" /\ t[3 * n + 1].sequence = n - 1
    BY <2>1, <2>2
  <2>5. n \in Nat OBVIOUS
  <2> QED BY ONLY <2>3, <2>4, <2>5, IntactIs
<1> QED BY <1>2, <1>3, <1>4, <1>5, <1>6

LEMMA HostCrashStream ==
    ASSUME ReportInv, StreamInv, NEW length \in synced .. Len(file), NEW torn,
           NEW from \in synced + 1 .. length + 1, NEW to \in synced + 1 .. length + 1,
           HostCrash(length, from .. to - 1, torn)
    PROVE  StreamInv'
<1>1. /\ file' = Left(file, length, from, to)
      /\ synced' = length /\ pc' = "idle" /\ dir' \in crashDirs /\ crashDirs' = {dir'}
      /\ ~dir'.journal => length = 0
      /\ result' = (IF pc = "idle" THEN result ELSE "Killed")
      /\ history' = [history EXCEPT !.disturbed = @ \/ pc # "idle"]
      /\ UNCHANGED <<queue, next, part, enabled, accepted, observed>>
  BY DEF HostCrash, recording, Left
<1>2. /\ file \in Seq(Chunks) /\ synced \in 0 .. Len(file) /\ history \in History
      /\ crashDirs \subseteq Dir /\ result \in Results
  BY DEF ReportInv, DirsOK, StreamInv, StreamTypes
<1>3. /\ history' \in History
      /\ history'.durable = history.durable /\ history'.sent = history.sent
  BY <1>1, <1>2 DEF History
<1>4. /\ file' \in Seq(Chunks) /\ Len(file') = length
      /\ \A i \in 1 .. synced : file'[i] = file[i]
      /\ \A n \in Nat \ {0} : intact(file', n) => intact(file, n) /\ file'[3 * n] = file[3 * n]
      /\ \A n \in Nat \ {0} : (3 * n + 1 <= synced /\ intact(file, n)) => intact(file', n)
  BY SMTT(40), <1>1, <1>2, CrashedStream
<1>5. length \in Nat /\ synced \in Nat /\ synced <= length BY <1>2
<1>6. StreamTypes'
  <2>1. result' \in Results BY <1>1, <1>2 DEF Results
  <2>2. synced' \in 0 .. Len(file') BY <1>1, <1>4, <1>5
  <2> QED BY <1>1, <1>3, <1>4, <2>1, <2>2 DEF StreamInv, StreamTypes
<1>7. ShapeOK' BY <1>1 DEF ShapeOK, Writing
<1>8. RemainsOK'
  <2>1. ~dir'.journal => file' = <<>> BY <1>1, <1>4
  <2>2. result' # "JournalExists" => result # "JournalExists"
    BY <1>1 DEF ReportInv, FinalizeOK
  <2>3. result' # "JournalExists" =>
          \A n \in Nat \ {0} : intact(file', n) =>
              /\ n <= Len(accepted) + 1
              /\ n <= Len(accepted) => file'[3 * n].entry = accepted[n]
    BY <1>4, <2>2 DEF StreamInv, RemainsOK
  <2>4. ASSUME dir'.journal, result' # "JournalExists", history.durable > 0
        PROVE  /\ file'[1] = Magic /\ 3 * history.durable + 1 <= synced'
               /\ \A n \in 1 .. history.durable : intact(file', n)
    <3>1. history.durable \in Nat BY <1>2 DEF History
    <3>2. dir.journal
      BY <1>1, <2>4 DEF StreamInv, RemainsOK
    <3>3. /\ file[1] = Magic /\ 3 * history.durable + 1 <= synced
          /\ \A n \in 1 .. history.durable : intact(file, n)
      BY <2>2, <2>4, <3>2 DEF StreamInv, RemainsOK
    <3>4. 1 \in 1 .. synced BY <1>5, <2>4, <3>1, <3>3
    <3>5. \A n \in 1 .. history.durable : n \in Nat \ {0} /\ 3 * n + 1 <= synced
      BY <1>5, <3>1, <3>3
    <3>6. 3 * history.durable + 1 <= synced'
      <4>1. synced' = length BY <1>1
      <4> QED BY <1>5, <3>1, <3>3, <4>1
    <3> QED BY <1>4, <3>3, <3>4, <3>5, <3>6
  <2>5. history.durable <= Len(accepted) BY DEF StreamInv, RemainsOK
  <2>6. (dir'.journal /\ \E d \in crashDirs' : ~d.journal) => Len(file') <= 1
    BY <1>1
  <2>7. ~dir'.journal => \A d \in crashDirs' : ~d.journal BY <1>1
  <2> QED BY <1>1, <1>3, <2>1, <2>3, <2>4, <2>5, <2>6, <2>7 DEF RemainsOK
<1>9. ReasonsOK'
  <2>1. Transitions(history.durable)' = Transitions(history.durable)
    BY <1>1, <1>3 DEF Transitions
  <2>2. history.durable \in Nat /\ history.sent \in Nat BY <1>2 DEF History
  <2>3. Cardinality(Transitions(history.durable)) \in Nat
    BY <2>2, TransitionsFinite, FS_CardinalityType
  <2>4. enabled /\ observed.mode = "Run" =>
            Cardinality(Transitions(history.durable)) >= history.sent
    BY <2>2, <2>3 DEF StreamInv, ReasonsOK
  <2> QED BY <1>1, <1>3, <2>1, <2>2, <2>3, <2>4 DEF ReasonsOK
<1> QED BY <1>6, <1>7, <1>8, <1>9 DEF StreamInv

LEMMA NextStream == ReportInv /\ StreamInv /\ [Next]_vars => StreamInv'
<1> SUFFICES ASSUME ReportInv, StreamInv, [Next]_vars PROVE StreamInv' OBVIOUS
<1>1. CASE UNCHANGED vars
  BY <1>1 DEF vars, disk, recording, StreamInv, StreamTypes, ShapeOK, Writing, Written,
              RemainsOK, ReasonsOK, Transitions
<1>2. ASSUME NEW length \in synced .. Len(file), NEW torn \in {{}, Runs},
             NEW from \in synced + 1 .. length + 1, NEW to \in synced + 1 .. length + 1,
             HostCrash(length, from .. to - 1, torn)
      PROVE  StreamInv'
  BY <1>2, HostCrashStream
<1>3. CASE Next
  BY <1>2, <1>3, StartStream, InitializeStream, WritePartStream, AcceptStream,
     FailAppendStream, RecordingSteps, AsideSteps, FlushStream, CleanUpStream DEF Next
<1> QED BY <1>1, <1>3

\* The records that are recovered, while the journal has its name.
LEMMA RecoveredIs ==
    ASSUME dir.journal PROVE Recovered = read_records(file)
BY DEF Recovered

LEMMA SurvivingRecords == ASSUME StreamInv PROVE AcceptedSurvives
<1> DEFINE r == read_records(file)
           kept == IF history.durable < MAX_RECOVERED_RECORDS
                   THEN history.durable ELSE MAX_RECOVERED_RECORDS
<1> SUFFICES ASSUME dir.journal, result # "JournalExists"
             PROVE  /\ Len(r) >= kept
                    /\ \A i \in DOMAIN r : i <= Len(accepted) => r[i] = accepted[i]
                    /\ Len(r) <= Len(accepted) + 1
  BY RecoveredIs DEF AcceptedSurvives
<1>1. /\ Len(r) = IF readable(file) THEN count(file) ELSE 0
      /\ DOMAIN r = 1 .. Len(r) /\ Len(r) \in 0 .. MAX_RECOVERED_RECORDS
      /\ \A m \in DOMAIN r : intact(file, m) /\ r[m] = file[3 * m].entry
  BY ReadRecords
<1>2. history.durable \in Nat /\ Len(accepted) \in Nat /\ file \in Seq(Chunks)
      /\ synced \in 0 .. Len(file)
  BY DEF StreamInv, StreamTypes, History
<1>3. \A n \in Nat \ {0} : intact(file, n) =>
          /\ n <= Len(accepted) + 1
          /\ n <= Len(accepted) => file[3 * n].entry = accepted[n]
  BY DEF StreamInv, RemainsOK
<1> HIDE DEF r
<1>4. Len(r) >= kept
  <2>1. CASE history.durable = 0 BY <1>1, <2>1
  <2>2. CASE history.durable > 0
    <3>1. /\ file[1] = Magic /\ 3 * history.durable + 1 <= synced
          /\ \A n \in 1 .. history.durable : intact(file, n)
      BY <2>2 DEF StreamInv, RemainsOK
    <3>2. file # <<>> /\ Head(file) = file[1]
      <4>1. Len(file) >= 1 BY <1>2, <2>2, <3>1
      <4> QED BY <1>2, <4>1
    <3>3. Len(r) = count(file) BY <1>1, <3>1, <3>2 DEF readable
    <3>4. Counts(file, Len(r)) BY <3>3, CountCounts
    <3>5. ASSUME Len(r) < kept PROVE FALSE
      <4>1. Len(r) + 1 \in 1 .. history.durable /\ Len(r) # MAX_RECOVERED_RECORDS
        BY <1>1, <1>2, <3>5
      <4> QED BY <3>1, <3>4, <4>1 DEF Counts
    <3> QED BY <1>1, <1>2, <3>5
  <2> QED BY <1>2, <2>1, <2>2
<1>5. \A i \in DOMAIN r : i <= Len(accepted) => r[i] = accepted[i] BY <1>1, <1>3
<1>6. Len(r) <= Len(accepted) + 1
  <2>1. CASE Len(r) = 0 BY <1>2, <2>1
  <2>2. CASE Len(r) # 0
    <3>1. Len(r) \in DOMAIN r /\ Len(r) \in Nat \ {0} BY <1>1, <2>2
    <3> QED BY <1>1, <1>3, <3>1
  <2> QED BY <2>1, <2>2
<1> QED BY <1>4, <1>5, <1>6

LEMMA ExplainedSignals == ASSUME StreamInv PROVE SignalsExplained
<1> DEFINE r == read_records(file)
           found == Positions(r, "Transition")
<1> SUFFICES ASSUME dir.journal, enabled, observed.mode = "Run", result # "JournalExists",
                    Len(r) # MAX_RECOVERED_RECORDS
             PROVE  Cardinality(found) >= history.sent
  BY RecoveredIs DEF SignalsExplained
<1>1. DOMAIN r = 1 .. Len(r) /\ Len(r) \in 0 .. MAX_RECOVERED_RECORDS /\ Len(r) \in Nat
  BY ReadRecords
<1>2. history.durable \in Nat /\ history.sent \in Nat /\ history.durable <= Len(accepted)
      /\ Len(accepted) \in Nat
  BY DEF StreamInv, StreamTypes, RemainsOK, History
<1>3. \A i \in DOMAIN r : i <= Len(accepted) => r[i] = accepted[i]
  BY SurvivingRecords, RecoveredIs DEF AcceptedSurvives
<1>4. Len(r) >= history.durable
  <2>1. Len(r) >= IF history.durable < MAX_RECOVERED_RECORDS
                  THEN history.durable ELSE MAX_RECOVERED_RECORDS
    BY SurvivingRecords, RecoveredIs DEF AcceptedSurvives
  <2>2. Len(r) \in 0 .. MAX_RECOVERED_RECORDS /\ Len(r) # MAX_RECOVERED_RECORDS BY <1>1
  <2> HIDE DEF r
  <2> QED BY ONLY <1>2, <2>1, <2>2, FormatAssumption
<1> HIDE DEF r
<1>5. Transitions(history.durable) \subseteq found
  BY ONLY <1>1, <1>2, <1>3, <1>4 DEF Transitions, Positions, found
<1>6. IsFiniteSet(found)
  <2>1. IsFiniteSet(1 .. Len(r)) BY ONLY <1>1, FiniteUpTo
  <2>2. found \subseteq 1 .. Len(r) BY <1>1 DEF Positions
  <2> QED BY <2>1, <2>2, FS_Subset
<1>7. Cardinality(Transitions(history.durable)) >= history.sent
  <2>1. Cardinality(Transitions(history.durable)) \in Nat
    BY <1>2, TransitionsFinite, FS_CardinalityType
  <2> QED BY <1>2, <2>1 DEF StreamInv, ReasonsOK
<1> HIDE DEF found
<1>8. /\ Cardinality(Transitions(history.durable)) <= Cardinality(found)
      /\ Cardinality(found) \in Nat /\ Cardinality(Transitions(history.durable)) \in Nat
  BY <1>2, <1>5, <1>6, FS_Subset, FS_CardinalityType
<1> QED BY <1>2, <1>7, <1>8

\* After any crash and at any time, a recovery returns every record whose append
\* was reported as synchronized and nothing that was not appended, and it
\* explains every signal sent (SecureJournal::append, ResilientJournal::record,
\* JournalRecovery::read_file and the order in which runtime.rs records).
THEOREM RecoverySafety == Spec => []RecoveryAccountsForTheRun
<1>1. ReportInv /\ StreamInv => RecoveryAccountsForTheRun
  <2> SUFFICES ASSUME ReportInv, StreamInv PROVE TypeOK
    BY SurvivingRecords, ExplainedSignals DEF RecoveryAccountsForTheRun
  <2>1. Items \subseteq Entries BY DEF Items, Entries
  <2>2. accepted \in Seq(Entries)
    <3>1. accepted \in Seq(Items) BY DEF StreamInv, StreamTypes
    <3> QED BY <2>1, <3>1
  <2> QED BY <2>2 DEF TypeOK, ReportInv, DirsOK, Dir, StreamInv, StreamTypes, Results
<1>2. Init => ReportInv /\ StreamInv BY InitReport, StreamInit
<1>3. ReportInv /\ StreamInv /\ [Next]_vars => (ReportInv /\ StreamInv)'
  BY NextReport, NextStream
<1> QED BY <1>1, <1>2, <1>3, PTL DEF Spec

-----------------------------------------------------------------------------
(* The journal is an append-only log with a durable prefix.                *)

\* The records whose last write is among the first y writes are the first ones.
LEMMA FirstOnes ==
    ASSUME NEW l \in Nat, NEW y \in Nat
    PROVE  \E k \in 0 .. l : \A n \in 1 .. l : n <= k <=> 3 * n + 1 <= y
<1> DEFINE T == {n \in Nat : n = l \/ 3 * (n + 1) + 1 > y}
<1>1. T # {} /\ T \subseteq Nat BY l \in T
<1>2. PICK k \in T : \A m \in T : k <= m BY <1>1, Smallest
<1>3. k \in 0 .. l BY <1>2
<1>4. ASSUME NEW n \in 1 .. k PROVE 3 * n + 1 <= y
  <2>1. n - 1 \in Nat /\ n - 1 < k /\ n - 1 # l BY <1>3
  <2>2. n - 1 \notin T BY <1>2, <1>3, <2>1
  <2>3. (n - 1) + 1 = n OBVIOUS
  <2> QED BY <2>1, <2>2, <2>3
<1>5. ASSUME NEW n \in 1 .. l, n > k PROVE ~(3 * n + 1 <= y)
  <2>1. 3 * (k + 1) + 1 > y BY <1>2, <1>3, <1>5
  <2> QED BY <1>3, <1>5, <2>1
<1> HIDE DEF T
<1>6. ASSUME NEW n \in 1 .. l PROVE n <= k <=> 3 * n + 1 <= y
  <2>1. CASE n <= k BY <1>3, <1>4, <2>1
  <2>2. CASE n > k BY <1>3, <1>5, <2>2
  <2> QED BY <1>3, <2>1, <2>2
<1> QED BY <1>3, <1>6

LEMMA DurablePrefix ==
    ASSUME NEW l \in Nat, NEW y \in Nat
    PROVE  /\ Cardinality({n \in 1 .. l : 3 * n + 1 <= y}) \in 0 .. l
           /\ \A n \in 1 .. l :
                 n <= Cardinality({m \in 1 .. l : 3 * m + 1 <= y}) <=> 3 * n + 1 <= y
<1> DEFINE D == {n \in 1 .. l : 3 * n + 1 <= y}
<1>1. PICK k \in 0 .. l : \A n \in 1 .. l : n <= k <=> 3 * n + 1 <= y BY FirstOnes
<1>2. D = 1 .. k BY <1>1
<1> HIDE DEF D
<1>3. Cardinality(D) = k
  <2>1. k \in Nat OBVIOUS
  <2>2. Cardinality(1 .. k) = k BY ONLY <2>1, FiniteUpTo
  <2> QED BY <1>2, <2>2
<1>4. Cardinality(D) \in 0 .. l /\ \A n \in 1 .. l : n <= Cardinality(D) <=> 3 * n + 1 <= y
  BY <1>1, <1>3
<1> QED BY <1>4 DEF D

\* What is recovered from a stream f, when the journal has its name, and how much
\* of it is durable when the first y writes are.
Rec(named, f) == IF named THEN read_records(f) ELSE <<>>
Dur(named, f, y) == Cardinality({n \in DOMAIN Rec(named, f) : 3 * n + 1 <= y})

LEMMA LogIs ==
    /\ Recovered = Rec(dir.journal, file) /\ Durable = Dur(dir.journal, file, synced)
    /\ Recovered' = Rec(dir'.journal, file') /\ Durable' = Dur(dir'.journal, file', synced')
BY DEF Recovered, Durable, Rec, Dur

LEMMA RecType ==
    ASSUME NEW named, NEW f
    PROVE  /\ Len(Rec(named, f)) \in Nat /\ DOMAIN Rec(named, f) = 1 .. Len(Rec(named, f))
           /\ Rec(named, f) = [m \in 1 .. Len(Rec(named, f)) |-> Rec(named, f)[m]]
<1>1. CASE named
  <2>1. /\ Len(read_records(f)) \in 0 .. MAX_RECOVERED_RECORDS
        /\ DOMAIN read_records(f) = 1 .. Len(read_records(f))
        /\ read_records(f) = [m \in 1 .. Len(read_records(f)) |-> read_records(f)[m]]
    <3>1. read_records(f) = [m \in 1 .. Len(read_records(f)) |-> f[3 * m].entry]
      BY ReadRecords
    <3> QED BY <3>1, ReadRecords
  <2> QED BY <1>1, <2>1 DEF Rec
<1>2. CASE ~named
  <2>1. Rec(named, f) = <<>> BY <1>2 DEF Rec
  <2> QED BY <2>1
<1> QED BY <1>1, <1>2

LEMMA DurIs ==
    ASSUME NEW named, NEW f, NEW y \in Nat
    PROVE  /\ Dur(named, f, y) \in 0 .. Len(Rec(named, f))
           /\ \A n \in 1 .. Len(Rec(named, f)) : n <= Dur(named, f, y) <=> 3 * n + 1 <= y
BY RecType, DurablePrefix DEF Dur

LEMMA EmptyLog ==
    ASSUME NEW named, NEW f, NEW y \in Nat, ~named \/ (Len(f) \in Nat /\ Len(f) <= 3)
    PROVE  Rec(named, f) = <<>> /\ Dur(named, f, y) = 0
<1>1. Rec(named, f) = <<>>
  <2>1. CASE ~named BY <2>1 DEF Rec
  <2>2. CASE named
    <3>1. ~intact(f, 1) BY <2>2, IntactIs
    <3>2. Counts(f, 0) BY <3>1 DEF Counts
    <3>3. count(f) = 0 BY <3>2, CountIs
    <3>4. read_records(f) = [m \in 1 .. 0 |-> f[3 * m].entry]
      BY <3>3 DEF read_records
    <3>5. read_records(f) = <<>> BY <3>4
    <3> QED BY <2>2, <3>5 DEF Rec
  <2> QED BY <2>1, <2>2
<1>2. Dur(named, f, y) \in 0 .. Len(Rec(named, f)) BY DurIs
<1> QED BY <1>1, <1>2

LogStep == [Log!Next]_(Log!vars)

LEMMA LogStutters == ASSUME Recovered' = Recovered, Durable' = Durable PROVE LogStep
BY DEF LogStep, Log!vars

LEMMA LogSame ==
    ASSUME dir'.journal = dir.journal, UNCHANGED <<file, synced>>
    PROVE  LogStep
<1>1. Recovered' = Recovered /\ Durable' = Durable BY LogIs
<1> QED BY <1>1, LogStutters

\* The log is empty before and after the step.
LEMMA LogEmpty ==
    ASSUME synced \in Nat, ~dir.journal \/ (Len(file) \in Nat /\ Len(file) <= 3),
           synced' \in Nat, ~dir'.journal \/ (Len(file') \in Nat /\ Len(file') <= 3)
    PROVE  LogStep
<1>1. Recovered = <<>> /\ Durable = 0 BY EmptyLog, LogIs
<1>2. Recovered' = <<>> /\ Durable' = 0 BY EmptyLog, LogIs
<1> QED BY <1>1, <1>2, LogStutters

\* When every write is stable, every record is durable.
LEMMA AllDurable ==
    ASSUME NEW named, NEW f, Len(f) \in Nat
    PROVE  Dur(named, f, Len(f)) = Len(Rec(named, f))
<1> DEFINE r == Rec(named, f)
           d == Dur(named, f, Len(f))
<1>1. /\ d \in 0 .. Len(r) /\ Len(r) \in Nat
      /\ \A n \in 1 .. Len(r) : n <= d <=> 3 * n + 1 <= Len(f)
  BY DurIs, RecType
<1>2. ASSUME Len(r) # 0 PROVE 3 * Len(r) + 1 <= Len(f)
  <2>1. r = read_records(f)
    <3>1. Len(<<>>) = 0 OBVIOUS
    <3> QED BY <1>2, <3>1 DEF Rec
  <2>2. Len(r) \in DOMAIN read_records(f)
    <3>1. DOMAIN read_records(f) = 1 .. Len(r) BY <2>1, ReadRecords
    <3>2. Len(r) \in 1 .. Len(r) BY <1>1, <1>2
    <3> QED BY <3>1, <3>2
  <2>3. intact(f, Len(r)) BY <2>2, ReadRecords
  <2> QED BY <1>1, <2>3, IntactIs
<1> HIDE DEF r, d
<1>3. CASE Len(r) = 0 BY <1>1, <1>3 DEF r, d
<1>4. CASE Len(r) # 0
  <2>1. Len(r) \in 1 .. Len(r) BY <1>1, <1>4
  <2>2. Len(r) <= d BY <1>1, <1>2, <1>4, <2>1
  <2>3. Len(r) = d BY <1>1, <2>2
  <2> QED BY <2>3 DEF r, d
<1> QED BY <1>3, <1>4

\* The same records are recovered, and all of them are durable.
LEMMA LogSync ==
    ASSUME dir'.journal = dir.journal, UNCHANGED file, Len(file) \in Nat,
           synced' = Len(file)
    PROVE  LogStep
<1>1. Recovered' = Recovered /\ Durable' = Dur(dir.journal, file, Len(file)) BY LogIs
<1>2. Durable' = Len(Recovered) BY <1>1, LogIs, AllDurable
<1> QED BY <1>1, <1>2 DEF LogStep, Log!Next, Log!Sync, Log!vars

\* The stream changes, but not what is read of it.
LEMMA LogKept ==
    ASSUME dir'.journal = dir.journal, UNCHANGED synced,
           readable(file) <=> readable(file'),
           \A n \in Nat \ {0} : /\ intact(file, n) <=> intact(file', n)
                                /\ intact(file, n) => file[3 * n] = file'[3 * n]
    PROVE  LogStep
<1>1. read_records(file) = read_records(file') BY SameRecords
<1>2. Recovered' = Recovered BY <1>1 DEF Recovered
<1>3. Durable' = Durable BY <1>2 DEF Durable
<1> QED BY <1>2, <1>3, LogStutters

LEMMA SamePrefix ==
    ASSUME NEW n \in Nat, NEW m \in Nat, n <= m, NEW d \in 0 .. n, NEW e \in 0 .. n,
           NEW y \in Nat,
           \A i \in 1 .. n : i <= d <=> 3 * i + 1 <= y,
           \A i \in 1 .. m : i <= e <=> 3 * i + 1 <= y
    PROVE  d = e
<1>1. CASE e < d
  <2>1. d \in 1 .. n /\ d \in 1 .. m BY <1>1
  <2> QED BY <1>1, <2>1
<1>2. CASE d < e
  <2>1. e \in 1 .. n /\ e \in 1 .. m BY <1>2
  <2> QED BY <1>2, <2>1
<1> QED BY <1>1, <1>2

\* One more record is recovered, and no more are durable.
LEMMA LogWrite ==
    ASSUME dir'.journal = dir.journal, dir.journal, UNCHANGED synced, synced \in Nat,
           synced <= Len(file), Len(file) \in Nat, Len(file') = Len(file) + 1,
           \A i \in 1 .. Len(file) : file'[i] = file[i],
           readable(file), readable(file'),
           NEW a \in Nat, Len(file) = 3 * a + 3,
           \A n \in 1 .. a : intact(file, n), intact(file', a + 1),
           file'[3 * (a + 1)].entry \in Items
    PROVE  LogStep
<1> DEFINE n == IF a < MAX_RECOVERED_RECORDS THEN a ELSE MAX_RECOVERED_RECORDS
           m == IF a < MAX_RECOVERED_RECORDS THEN a + 1 ELSE MAX_RECOVERED_RECORDS
           r == read_records(file)
           q == read_records(file')
<1>1. \A i \in 1 .. a : intact(file', i) /\ file'[3 * i] = file[3 * i]
  <2>1. Len(file') \in Nat /\ Len(file) <= Len(file') OBVIOUS
  <2>2. \A i \in 1 .. a : i \in Nat \ {0} /\ 3 * i + 1 <= Len(file) OBVIOUS
  <2> QED BY <2>1, <2>2, StreamGrows
<1>2. ~intact(file, a + 1) /\ ~intact(file', a + 2)
  <2>1. ~(Len(file) >= 3 * (a + 1) + 1) /\ ~(Len(file') >= 3 * (a + 2) + 1) OBVIOUS
  <2>2. a + 1 \in Nat /\ a + 2 \in Nat OBVIOUS
  <2> QED BY <2>1, <2>2, IntactIs
<1>3. n \in Nat /\ m \in Nat /\ n <= m /\ m <= n + 1 OBVIOUS
<1>4. Counts(file, n) BY SMTT(40), <1>2 DEF Counts
<1>5. Counts(file', m)
  <2>1. \A i \in 1 .. a + 1 : intact(file', i) BY <1>1
  <2>2. (a + 1) + 1 = a + 2 OBVIOUS
  <2> QED BY <1>2, <2>1, <2>2 DEF Counts
<1>6. count(file) = n /\ count(file') = m BY <1>4, <1>5, CountIs
<1> HIDE DEF n, m
<1>7. r = [i \in 1 .. n |-> file[3 * i].entry] /\ q = [i \in 1 .. m |-> file'[3 * i].entry]
  BY <1>6 DEF read_records
<1>8. Len(r) = n /\ Len(q) = m BY <1>3, <1>7
<1>9. Recovered = r /\ Recovered' = q /\ Durable = Dur(TRUE, file, synced)
      /\ Durable' = Dur(TRUE, file', synced)
  BY LogIs DEF Rec, Dur
<1> HIDE DEF r, q
<1>10. \A i \in 1 .. n : q[i] = r[i]
  BY <1>1, <1>3, <1>7 DEF n
<1>11. Durable' = Durable
  <2>1. /\ Durable \in 0 .. n /\ \A i \in 1 .. n : i <= Durable <=> 3 * i + 1 <= synced
    BY <1>8, <1>9, DurIs DEF Rec, r
  <2>2. /\ Durable' \in 0 .. m /\ \A i \in 1 .. m : i <= Durable' <=> 3 * i + 1 <= synced
    BY <1>8, <1>9, DurIs DEF Rec, q
  <2>3. Durable' <= n
    <3>1. CASE m = n BY <1>3, <2>2, <3>1
    <3>2. CASE m = n + 1
      <4>1. n = a /\ m = a + 1 BY <3>2 DEF n, m
      <4>2. ~(3 * m + 1 <= synced) BY <4>1
      <4>3. ~(m <= Durable') BY <1>3, <2>2, <3>2, <4>2
      <4> QED BY <1>3, <2>2, <3>2, <4>3
    <3> QED BY <1>3, <3>1, <3>2
  <2>4. Durable' \in 0 .. n BY <1>3, <2>2, <2>3
  <2>5. PICK d \in 0 .. n, e \in 0 .. n : d = Durable /\ e = Durable' BY <2>1, <2>4
  <2>6. \A i \in 1 .. n : i <= d <=> 3 * i + 1 <= synced BY <2>1, <2>5
  <2>7. \A i \in 1 .. m : i <= e <=> 3 * i + 1 <= synced BY <2>2, <2>5
  <2>8. d = e BY ZenonT(60), <1>3, <2>6, <2>7, SamePrefix
  <2> QED BY <2>5, <2>8
<1>12. CASE m = n
  <2>1. r = q BY <1>7, <1>10, <1>12
  <2> QED BY <1>9, <1>11, <2>1, LogStutters
<1>13. CASE m = n + 1
  <2>1. n = a /\ m = a + 1 BY <1>13 DEF n, m
  <2>2. q[Len(q)] \in Items BY <1>3, <1>7, <1>8, <1>13, <2>1
  <2>3. SubSeq(q, 1, Len(r)) = r
    <3>1. SubSeq(q, 1, n) = [i \in 1 .. n |-> q[i]] BY <1>3, <1>7, <1>8, <1>13
    <3>2. r = [i \in 1 .. n |-> r[i]] BY <1>7
    <3>3. r = [i \in 1 .. n |-> q[i]] BY ONLY <1>10, <3>2
    <3> QED BY <1>8, <3>1, <3>3
  <2> QED BY <1>8, <1>9, <1>11, <1>13, <2>2, <2>3
          DEF LogStep, Log!Next, Log!Write, Log!vars, Items
<1> QED BY <1>3, <1>12, <1>13

\* A crash of the host leaves a prefix of the log with the durable records in it.
LEMMA LogCrash ==
    ASSUME file \in Seq(Chunks), synced \in 0 .. Len(file), dir.journal, dir'.journal,
           file' \in Seq(Chunks), synced' = Len(file'), Len(file') >= synced,
           \A i \in 1 .. synced : file'[i] = file[i],
           \A i \in 1 .. Len(file') : file'[i] = file[i] \/ file'[i] = Junk,
           \A n \in Nat \ {0} : intact(file', n) => intact(file, n) /\ file'[3 * n] = file[3 * n],
           \A n \in Nat \ {0} : (3 * n + 1 <= synced /\ intact(file, n)) => intact(file', n),
           Len(file') <= Len(file)
    PROVE  LogStep
<1> DEFINE r == read_records(file)
           q == read_records(file')
           d == Dur(TRUE, file, synced)
<1>1. Recovered = r /\ Recovered' = q /\ Durable = d
  BY LogIs DEF Rec, Dur
<1>2. Len(file) \in Nat /\ Len(file') \in Nat /\ synced \in Nat /\ synced <= Len(file')
  OBVIOUS
<1>3. Durable' = Len(q)
  <2>1. Durable' = Dur(TRUE, file', Len(file')) BY LogIs DEF Rec, Dur
  <2>2. Rec(TRUE, file') = q BY DEF Rec
  <2> QED BY <1>2, <2>1, <2>2, AllDurable
<1>4. d \in 0 .. Len(r) /\ \A n \in 1 .. Len(r) : n <= d <=> 3 * n + 1 <= synced
  <2>1. Rec(TRUE, file) = r BY DEF Rec
  <2> QED BY <1>2, <2>1, DurIs
<1>5. /\ Len(r) \in Nat /\ Len(r) <= MAX_RECOVERED_RECORDS /\ DOMAIN r = 1 .. Len(r)
      /\ \A m \in DOMAIN r : intact(file, m) /\ r[m] = file[3 * m].entry
      /\ r = [m \in 1 .. Len(r) |-> r[m]]
  <2>1. r = [m \in 1 .. Len(r) |-> file[3 * m].entry] BY ReadRecords
  <2> QED BY <2>1, ReadRecords
<1>6. /\ Len(q) \in Nat /\ Len(q) <= MAX_RECOVERED_RECORDS /\ DOMAIN q = 1 .. Len(q)
      /\ \A m \in DOMAIN q : intact(file', m) /\ q[m] = file'[3 * m].entry
      /\ q = [m \in 1 .. Len(q) |-> q[m]]
  <2>1. q = [m \in 1 .. Len(q) |-> file'[3 * m].entry] BY ReadRecords
  <2> QED BY <2>1, ReadRecords
<1>0. /\ Len(r) = IF readable(file) THEN count(file) ELSE 0
      /\ Len(q) = IF readable(file') THEN count(file') ELSE 0
  BY ReadRecords
<1> HIDE DEF q, r, d
<1>7. readable(file') => readable(file)
  <2> SUFFICES ASSUME readable(file') PROVE readable(file) OBVIOUS
  <2>1. file' # <<>> /\ Head(file') = file'[1] /\ file'[1] = Magic BY DEF readable
  <2>2. 1 \in 1 .. Len(file') /\ 1 <= Len(file) BY <1>2, <2>1
  <2>3. Magic # Junk BY DEF Magic, Junk, chunk
  <2>4. file[1] = Magic BY <2>1, <2>2, <2>3
  <2> QED BY <2>2, <2>4 DEF readable
<1>8. Len(q) <= Len(r)
  <2>1. CASE ~readable(file')
    <3>1. Len(q) = 0 BY <1>0, <2>1
    <3> QED BY <1>5, <3>1
  <2>2. CASE readable(file')
    <3>1. Len(q) = count(file') /\ Len(r) = count(file) BY <1>0, <1>7, <2>2
    <3>2. ~intact(file', 0) \/ intact(file, 0)
      <4> SUFFICES ASSUME intact(file', 0) PROVE FALSE OBVIOUS
      <4>1. file'[1].part = "checksum" BY IntactIs
      <4>2. file'[1] = Magic BY <2>2 DEF readable
      <4> QED BY <4>1, <4>2 DEF Magic, chunk
    <3>3. \A n \in Nat : intact(file', n) => intact(file, n) BY <3>2
    <3>4. count(file') <= count(file) BY <3>3, CountGrows
    <3> QED BY <3>1, <3>4
  <2> QED BY <2>1, <2>2
<1>9. d <= Len(q)
  <2>1. CASE d = 0 BY <1>6, <2>1
  <2>2. CASE d # 0
    <3>1. \A i \in 1 .. d : i \in Nat \ {0} /\ i \in 1 .. Len(r) BY SMTT(40), <1>4, <1>5
    <3>2. \A i \in 1 .. d : 3 * i + 1 <= synced BY <1>4, <1>5
    <3>3. \A i \in 1 .. d : intact(file', i) BY <1>5, <3>1, <3>2
    <3>4. 1 \in 1 .. d BY <1>4, <1>5, <2>2
    <3>5. 1 \in 1 .. synced /\ synced >= 1 BY <1>2, <3>2, <3>4
    <3>6. readable(file)
      <4>1. Len(r) # 0 BY <1>4, <1>5, <2>2
      <4> QED BY <1>0, <4>1
    <3>7. readable(file')
      <4>1. file'[1] = Magic BY <3>5, <3>6 DEF readable
      <4>2. Len(file') >= 1 BY ONLY <1>2, <3>5
      <4> QED BY <4>1, <4>2 DEF readable
    <3>8. Counts(file', Len(q)) BY <1>0, <3>7, CountCounts
    <3>9. ASSUME Len(q) < d PROVE FALSE
      <4>1. Len(q) + 1 \in 1 .. d /\ Len(q) # MAX_RECOVERED_RECORDS BY <1>4, <1>5, <1>6, <3>9
      <4> QED BY <3>3, <3>8, <4>1 DEF Counts
    <3> QED BY <1>4, <1>5, <1>6, <3>9
  <2> QED BY <2>1, <2>2
<1>10. q = SubSeq(r, 1, Len(q))
  <2>1. ASSUME NEW m \in 1 .. Len(q) PROVE q[m] = r[m]
    <3>1. m \in Nat \ {0} /\ m \in DOMAIN q /\ m \in DOMAIN r BY <1>5, <1>6, <1>8
    <3>2. intact(file', m) /\ q[m] = file'[3 * m].entry BY <1>6, <3>1
    <3>3. r[m] = file[3 * m].entry BY <1>5, <3>1
    <3> QED BY <3>1, <3>2, <3>3
  <2>2. SubSeq(r, 1, Len(q)) = [m \in 1 .. Len(q) |-> r[m]] BY <1>5, <1>6, <1>8
  <2>3. q = [m \in 1 .. Len(q) |-> r[m]] BY ONLY <1>6, <2>1
  <2> QED BY <2>2, <2>3
<1>11. Durable' \in Durable .. Len(Recovered) BY <1>1, <1>3, <1>4, <1>5, <1>6, <1>8, <1>9
<1>12. Recovered' = SubSeq(Recovered, 1, Durable') BY <1>1, <1>3, <1>10
<1> QED BY <1>11, <1>12 DEF LogStep, Log!Next, Log!Crash, Log!vars

LEMMA WritePartLogs == ASSUME ReportInv, StreamInv, WritePart PROVE LogStep
<1> DEFINE a == Len(accepted)
           c == chunk(Parts[part + 1], Len(accepted), Head(queue))
<1>1. /\ pc = "append" /\ part < 3 /\ file' = Append(file, c)
      /\ UNCHANGED <<dir, synced, queue, accepted>>
  BY DEF WritePart
<1>2. /\ Writing /\ dir.journal /\ Head(queue) \in Items /\ a \in Nat /\ part \in 0 .. 3
      /\ file \in Seq(Chunks) /\ Len(file) \in Nat /\ Len(file) = 3 * a + 1 + part
  BY <1>1, Appending
<1>3. synced \in 0 .. Len(file) BY DEF StreamInv, StreamTypes
<1>4. c \in Chunks
  <2>1. part + 1 \in {1, 2, 3} BY <1>1, <1>2
  <2>2. Parts[part + 1] \in {"length", "payload", "checksum"} BY <2>1 DEF Parts
  <2> QED BY <1>2, <2>2 DEF chunk, Chunks
<1>5. \A n \in Nat \ {0} :
         /\ intact(file, n) <=> n <= a \/ (n = a + 1 /\ part = 3)
         /\ n <= a => file[3 * n].entry = accepted[n]
  BY <1>2, WritingStream DEF StreamInv
<1>6. c.entry = Head(queue) BY DEF chunk
<1> HIDE DEF a, c
<1>7. /\ file' \in Seq(Chunks) /\ Len(file') = Len(file) + 1
      /\ \A i \in 1 .. Len(file) : file'[i] = file[i]
  <2>1. file \in Seq(Chunks) /\ file' = Append(file, c) BY <1>1, <1>2
  <2>2. file' \in Seq(Chunks) /\ Len(file') = Len(file) + 1 BY <1>4, <2>1
  <2>3. \A i \in 1 .. Len(file) : file'[i] = file[i] BY <1>4, <2>1
  <2> QED BY <2>2, <2>3
<1>8. readable(file) /\ readable(file')
  <2>1. file[1] = Magic /\ Len(file) >= 1 BY <1>2 DEF StreamInv, ShapeOK
  <2>2. 1 \in 1 .. Len(file) BY <1>2, <2>1
  <2>3. file'[1] = Magic BY <1>7, <2>1, <2>2
  <2>4. Len(file') >= 1 BY <1>2, <1>7
  <2>5. readable(file) BY <1>2, <2>1 DEF readable
  <2> QED BY <1>7, <2>3, <2>4, <2>5 DEF readable
<1>9. CASE part < 2
  <2>1. ASSUME NEW n \in Nat \ {0}
        PROVE  /\ intact(file, n) <=> intact(file', n)
               /\ intact(file, n) => file[3 * n] = file'[3 * n]
    <3>1. CASE n <= a
      <4>1. 3 * n + 1 <= Len(file) BY <1>2, <3>1
      <4>2. Len(file') \in Nat /\ Len(file) <= Len(file') BY <1>2, <1>7
      <4> QED BY <1>2, <1>7, <4>1, <4>2, StreamGrows
    <3>2. CASE n > a
      <4>1. ~(Len(file') >= 3 * n + 1) BY <1>2, <1>7, <1>9, <3>2
      <4>2. ~intact(file', n) BY <4>1, IntactIs
      <4>3. ~intact(file, n) BY <1>2, <1>5, <1>9, <3>2
      <4> QED BY <4>2, <4>3
    <3> QED BY <1>2, <3>1, <3>2
  <2> QED BY <1>1, <1>8, <2>1, LogKept
<1>10. CASE part = 2
  <2>1. StreamInv' BY WritePartStream
  <2>2. intact(file', a + 1) /\ file'[3 * (a + 1)].entry \in Items
    <3>1. Written(a + 1, Head(queue), 3)'
      <4>1. Writing' /\ part' = 3
        BY <1>1, <1>2, <1>10 DEF Writing, WritePart
      <4> QED BY <1>1, <2>1, <4>1 DEF StreamInv, ShapeOK, a
    <3>2. \A i \in 1 .. 3 : file'[3 * (a + 1) - 2 + i] = chunk(Parts[i], (a + 1) - 1, Head(queue))
      <4>1. a' = a /\ queue' = queue BY <1>1 DEF a
      <4> QED BY <3>1, <4>1 DEF Written
    <3>3. Len(file') >= 3 * (a + 1) + 1 BY <1>2, <1>7, <1>10
    <3>4. intact(file', a + 1) BY <3>2, <3>3 DEF intact, chunk
    <3>5. 2 \in 1 .. 3 /\ 3 * (a + 1) - 2 + 2 = 3 * (a + 1) BY <1>2
    <3>6. file'[3 * (a + 1)] = chunk(Parts[2], (a + 1) - 1, Head(queue)) BY <3>2, <3>5
    <3> QED BY <1>2, <3>4, <3>6 DEF chunk
  <2>3. Len(file) = 3 * a + 3 /\ synced \in Nat /\ synced <= Len(file) BY <1>2, <1>3, <1>10
  <2>4. \A n \in 1 .. a : intact(file, n) BY <1>2, <1>5
  <2> QED BY <1>1, <1>2, <1>7, <1>8, <2>2, <2>3, <2>4, LogWrite
<1> QED BY <1>1, <1>2, <1>9, <1>10

LEMMA FailAppendLogs == ASSUME ReportInv, StreamInv, FailAppend PROVE LogStep
<1>1. /\ pc = "append" /\ UNCHANGED <<dir, synced>>
      /\ file' = file \/ file' = Append(file, Junk)
  BY DEF FailAppend
<1>2. file \in Seq(Chunks) /\ Len(file) \in Nat /\ Len(file) >= 1
  BY <1>1, Appending
<1>3. CASE file' = file BY <1>1, <1>3, LogSame
<1>4. CASE file' = Append(file, Junk)
  <2>1. \A n \in Nat \ {0} : /\ intact(file, n) <=> intact(file', n)
                             /\ intact(file, n) => file[3 * n] = file'[3 * n]
    BY <1>2, <1>4, JunkIsNoRecord
  <2>2. readable(file) <=> readable(file')
    <3>1. Junk \in Chunks BY DEF Junk, chunk, Chunks, Entry, Items, EntryKind
    <3>2. /\ file' \in Seq(Chunks) /\ Len(file') = Len(file) + 1 /\ file'[1] = file[1]
      BY <1>2, <1>4, <3>1
    <3>3. file # <<>> /\ file' # <<>> /\ Head(file) = file[1] /\ Head(file') = file'[1]
      BY <1>2, <3>2
    <3> QED BY <3>2, <3>3 DEF readable
  <2> QED BY <1>1, <2>1, <2>2, LogKept
<1> QED BY <1>1, <1>3, <1>4

LEMMA HostCrashLogs ==
    ASSUME ReportInv, StreamInv, NEW length \in synced .. Len(file), NEW torn,
           NEW from \in synced + 1 .. length + 1, NEW to \in synced + 1 .. length + 1,
           HostCrash(length, from .. to - 1, torn)
    PROVE  LogStep
<1>1. /\ file' = Left(file, length, from, to)
      /\ synced' = length /\ dir' \in crashDirs /\ (~dir'.journal => length = 0)
  BY DEF HostCrash, Left
<1>2. file \in Seq(Chunks) /\ synced \in 0 .. Len(file) BY DEF StreamInv, StreamTypes
<1>3. /\ file' \in Seq(Chunks) /\ Len(file') = length
      /\ \A i \in 1 .. synced : file'[i] = file[i]
      /\ \A i \in 1 .. length : file'[i] = file[i] \/ file'[i] = Junk
      /\ \A n \in Nat \ {0} : intact(file', n) => intact(file, n) /\ file'[3 * n] = file[3 * n]
      /\ \A n \in Nat \ {0} : (3 * n + 1 <= synced /\ intact(file, n)) => intact(file', n)
  BY <1>1, <1>2, CrashedStream
<1>4. /\ length \in Nat /\ synced \in Nat /\ Len(file) \in Nat
      /\ synced <= length /\ length <= Len(file)
  BY <1>2
<1>5. CASE dir.journal /\ dir'.journal
  BY <1>1, <1>2, <1>3, <1>4, <1>5, LogCrash
<1>6. CASE ~dir.journal
  <2>1. ~dir'.journal BY <1>1, <1>6 DEF StreamInv, RemainsOK
  <2> QED BY <1>1, <1>4, <1>6, <2>1, LogEmpty
<1>7. CASE dir.journal /\ ~dir'.journal
  <2>1. Len(file) <= 1 BY <1>1, <1>7 DEF StreamInv, RemainsOK
  <2>2. Len(file) <= 3 BY <1>4, <2>1
  <2> QED BY <1>1, <1>4, <1>7, <2>2, LogEmpty
<1> QED BY <1>5, <1>6, <1>7

LEMMA InitializationLogs ==
    ASSUME ReportInv, StreamInv,
           \/ \E mode \in {"Run", "Observe"} : Start(mode)
           \/ WriteMagic \/ SyncInit \/ SyncInitDir
    PROVE  LogStep
<1>0. synced \in Nat /\ Len(file) \in Nat /\ dir \in Dir
  BY DEF StreamInv, StreamTypes, ReportInv, DirsOK
<1>1. ASSUME NEW mode \in {"Run", "Observe"}, Start(mode) PROVE LogStep
  <2>1. CASE dir.journal
    <3>1. dir' = dir /\ UNCHANGED <<file, synced>> BY <1>1, <2>1 DEF Start
    <3> QED BY <3>1, LogSame
  <2>2. CASE ~dir.journal
    <3>1. file' = <<>> /\ synced' = 0 BY <1>1, <2>2 DEF Start
    <3>2. Len(file') = 0 /\ synced' \in Nat BY <3>1
    <3> QED BY <1>0, <2>2, <3>2, LogEmpty
  <2> QED BY <2>1, <2>2
<1>2. CASE WriteMagic \/ SyncInit
  <2>1. StreamInv' BY <1>2, InitializeStream
  <2>2. synced' \in Nat BY <2>1 DEF StreamInv, StreamTypes
  <2>3. Len(file) <= 3 /\ Len(file') \in Nat /\ Len(file') <= 3
    <3>1. CASE WriteMagic
      <4>1. file = <<>> BY <3>1 DEF WriteMagic, StreamInv, ShapeOK
      <4>2. file' = <<>> \/ file' = <<Junk>> \/ file' = <<Magic>> BY <3>1 DEF WriteMagic
      <4>3. Len(<<>>) = 0 /\ Len(<<Junk>>) = 1 /\ Len(<<Magic>>) = 1 OBVIOUS
      <4>4. Len(file) = 0 /\ (Len(file') = 0 \/ Len(file') = 1) BY <4>1, <4>2, <4>3, Zenon
      <4> QED BY ONLY <4>4
    <3>2. CASE SyncInit
      <4>1. file = <<Magic>> /\ file' = file BY <3>2 DEF SyncInit, StreamInv, ShapeOK
      <4>2. Len(file) = 1 /\ Len(file') = 1 BY <4>1
      <4> QED BY <4>2
    <3> QED BY <1>2, <3>1, <3>2
  <2> QED BY <1>0, <2>2, <2>3, LogEmpty
<1>3. CASE SyncInitDir
  <2>1. dir' = dir /\ UNCHANGED <<file, synced>> BY <1>3 DEF SyncInitDir
  <2> QED BY <2>1, LogSame
<1> QED BY <1>1, <1>2, <1>3

LEMMA OtherLogs ==
    ASSUME ReportInv, StreamInv,
           \/ Accept \/ TakeSample \/ Intervene \/ SendSignal \/ RecordTerminal
           \/ FinalizeWithoutWorker \/ FinishJournal \/ Flush \/ Replay \/ CreateTemp
           \/ Abandon \/ WriteTemp \/ SyncTemp \/ Rename \/ SyncDir \/ Kill \/ CleanUp
    PROVE  LogStep
<1>0. Len(file) \in Nat /\ dir \in Dir BY DEF StreamInv, StreamTypes, ReportInv, DirsOK
<1>1. CASE Accept \/ Flush
  <2>1. dir' = dir /\ UNCHANGED file /\ (synced' = Len(file) \/ synced' = synced)
    BY <1>1 DEF Accept, Flush
  <2> QED BY <1>0, <2>1, LogSync, LogSame
<1>2. CASE \/ TakeSample \/ Intervene \/ SendSignal \/ RecordTerminal
           \/ FinalizeWithoutWorker \/ FinishJournal \/ Replay
           \/ WriteTemp \/ SyncTemp \/ SyncDir \/ Kill
  <2>1. dir' = dir /\ UNCHANGED <<file, synced>>
    BY <1>2 DEF TakeSample, Intervene, SendSignal, RecordTerminal, FinalizeWithoutWorker,
                FinishJournal, Replay, WriteTemp, SyncTemp, SyncDir, Kill, disk
  <2> QED BY <2>1, LogSame
<1>3. CASE CreateTemp \/ Abandon \/ Rename
  <2>1. dir'.journal = dir.journal /\ UNCHANGED <<file, synced>>
    BY <1>0, <1>3 DEF CreateTemp, Abandon, Rename, SetDir, Dir
  <2> QED BY <2>1, LogSame
<1>4. CASE CleanUp
  <2>1. dir' = [dir EXCEPT !.journal = FALSE, !.report = None] /\ synced' = 0
    BY <1>4 DEF CleanUp
  <2>2. ~dir'.journal BY <1>0, <2>1 DEF Dir
  <2>3. Rec(dir'.journal, file') = <<>> /\ Dur(dir'.journal, file', synced') = 0
    <3>1. synced' \in Nat BY <2>1
    <3> QED BY <2>2, <3>1, EmptyLog
  <2>4. Recovered' = <<>> /\ Durable' = 0 BY <2>3, LogIs
  <2> QED BY <2>4 DEF LogStep, Log!Next, Log!Discard, Log!vars
<1> QED BY <1>1, <1>2, <1>3, <1>4

LEMMA NextLogs == ReportInv /\ StreamInv /\ [Next]_vars => [Log!Next]_(Log!vars)
<1> SUFFICES ASSUME ReportInv, StreamInv, [Next]_vars PROVE LogStep BY DEF LogStep
<1>1. CASE UNCHANGED vars
  <2>1. dir' = dir /\ UNCHANGED <<file, synced>> BY <1>1 DEF vars, disk
  <2> QED BY <2>1, LogSame
<1>2. ASSUME NEW length \in synced .. Len(file), NEW torn \in {{}, Runs},
             NEW from \in synced + 1 .. length + 1, NEW to \in synced + 1 .. length + 1,
             HostCrash(length, from .. to - 1, torn)
      PROVE  LogStep
  BY <1>2, HostCrashLogs
<1>3. CASE Next
  BY <1>2, <1>3, InitializationLogs, WritePartLogs, FailAppendLogs, OtherLogs DEF Next
<1> QED BY <1>1, <1>3

\* The journal implements the durable log: in every step of every run, whatever
\* fails and whenever the supervisor or the host goes down, what a recovery would
\* read gains one appended record, becomes durable, is cut back to a prefix that
\* holds every durable record, is removed by the user, or stays as it is
\* (SecureJournal::append and JournalRecovery::read_file).
THEOREM JournalImplementsLog == Spec => ImplementsLog
<1>1. Init => Log!Init
  <2> SUFFICES ASSUME Init PROVE Log!Init OBVIOUS
  <2>1. ~dir.journal /\ synced \in Nat BY DEF Init
  <2>2. Rec(dir.journal, file) = <<>> /\ Dur(dir.journal, file, synced) = 0
    BY <2>1, EmptyLog
  <2> QED BY <2>2, LogIs DEF Log!Init
<1>2. Init => ReportInv /\ StreamInv BY InitReport, StreamInit
<1>3. ReportInv /\ StreamInv /\ [Next]_vars => (ReportInv /\ StreamInv)'
  BY NextReport, NextStream
<1> QED BY <1>1, <1>2, <1>3, NextLogs, PTL DEF Spec, ImplementsLog, Log!Spec
=============================================================================
