-------------------------- MODULE DevRefresh_proofs --------------------------
(***************************************************************************)
(* What holds of the backups and of the refresh of the development         *)
(* database for every number of days, dumps, snapshots and failures: the   *)
(* types, that nothing raw is ever in use and nothing overwritten unsaved, *)
(* and that a copy that reports nothing is recent.                         *)
(***************************************************************************)
EXTENDS DevRefresh, FiniteSetTheorems, WellFoundedInduction, TLAPS

\* The dump being fetched has a day, and is complete when it is kept.
PullOK ==
  pull.pc = "verify" => pull.tmp = "whole" /\ Oldest(pull.missing) \in Days

\* A snapshot alone ends after its retention; the rest is for a call that restores.
Restoring == tool.pc \notin {"idle", "backup", "retention"} => tool.command # "snapshot"

\* From the check on there is an incoming database, and what is dropped is replaced by
\* one that is complete and can start nothing.
SwapOK ==
  /\ tool.pc = "check" => incoming # Absent
  /\ tool.pc \in {"drop", "rename"} => incoming # Absent /\ incoming.full /\ ~incoming.live

DevInv == DevTypeOK /\ Restoring /\ SwapOK /\ NeverRawProduction
BackupsInv == BackupsTypeOK /\ PullOK

LEMMA BoundsTyped ==
  /\ RetentionDays \in Nat /\ KeepDays \in Nat /\ StaleDays \in Nat /\ MaxClock \in Nat
  /\ MaxFaults \in Nat /\ SnapshotKeep \in Nat /\ MaxSnapshots \in Nat /\ MaxWork \in Nat
BY DaysAreNaturals, SnapshotsAreNaturals

-----------------------------------------------------------------------------
(* The chain of backups *)

LEMMA CopiesType ==
  ASSUME local \in Copies
  PROVE  /\ DOMAIN local \subseteq Days
         /\ \A d \in DOMAIN local : local[d] \in {"whole", "torn"}
         /\ local = [d \in DOMAIN local |-> local[d]]
BY DEF Copies

LEMMA IsCopies ==
  ASSUME NEW f, NEW days \in SUBSET Days, f \in [days -> {"whole", "torn"}]
  PROVE  f \in Copies
BY DEF Copies

LEMMA ServerKeepsInv == BackupsInv /\ (ServerStep \/ NextDay) => BackupsInv'
<1> SUFFICES ASSUME BackupsInv, ServerStep \/ NextDay PROVE BackupsInv'
  OBVIOUS
<1> USE BoundsTyped DEF BackupsInv, BackupsTypeOK, PullOK, Days
<1>1. CASE Backup
  <2>1. cron' \in 0..MaxClock + 1
    BY <1>1 DEF Backup
  <2>2. server' \subseteq 0..MaxClock
    BY <1>1 DEF Backup, Unexpired
  <2> QED
    BY <1>1, <2>1, <2>2 DEF Backup
<1>2. CASE BackupFails
  BY <1>2 DEF BackupFails, Fault
<1>3. CASE NextDay
  BY <1>3 DEF NextDay
<1> QED
  BY <1>1, <1>2, <1>3 DEF ServerStep

LEMMA PullKeepsInv == BackupsInv /\ (PullStep \/ PullStarts) => BackupsInv'
<1> SUFFICES ASSUME BackupsInv, PullStep \/ PullStarts PROVE BackupsInv'
  OBVIOUS
<1> USE BoundsTyped DEF BackupsInv, BackupsTypeOK, PullOK, Pull
<1>1. CASE PullStarts
  BY <1>1 DEF PullStarts, NotPulling
<1>2. CASE ListDumps
  <2>1. pull' \in Pull
    <3>1. CASE server = {}
      BY <1>2, <3>1 DEF ListDumps, Exit, NotPulling
    <3>2. CASE server # {}
      BY <1>2, <3>2 DEF ListDumps
    <3> QED
      BY <3>1, <3>2
  <2>2. pull'.pc # "verify"
    BY <1>2 DEF ListDumps, Exit, NotPulling
  <2> QED
    BY <1>2, <2>1, <2>2 DEF ListDumps
<1>3. CASE ListFails
  <2>1. pull' \in Pull /\ pull'.pc # "verify"
    BY <1>3 DEF ListFails, Exit, NotPulling
  <2> QED
    BY <1>3, <2>1 DEF ListFails, Fault
<1>4. CASE BeginDownload
  BY <1>4 DEF BeginDownload
<1>5. CASE Fetched
  <2>1. Oldest(pull'.missing) = Oldest(pull.missing)
    BY <1>5 DEF Fetched
  <2> QED
    BY <1>5, <2>1 DEF Fetched
<1>6. CASE KeepDump
  <2> DEFINE d == Oldest(pull.missing)
             days == DOMAIN local \cup {d}
  <2>1. d \in Days /\ pull.tmp = "whole" /\ days \in SUBSET Days
    BY <1>6, CopiesType DEF KeepDump
  <2>2. local' \in [days -> {"whole", "torn"}]
    <3> HIDE DEF d
    <3> QED
      BY <1>6, <2>1, CopiesType DEF KeepDump, d
  <2>3. pull' \in Pull /\ pull'.pc = "next"
    BY <1>6 DEF KeepDump
  <2> QED
    BY <1>6, <2>1, <2>2, <2>3, IsCopies DEF KeepDump
<1>7. CASE DownloadFails
  <2>1. pull' \in Pull /\ pull'.pc # "verify"
    BY <1>7 DEF DownloadFails
  <2>2. faults' \in 0..MaxFaults
    BY <1>7 DEF DownloadFails, Fault
  <2> QED
    BY <1>7, <2>1, <2>2 DEF DownloadFails
<1>8. CASE AllFetched
  BY <1>8 DEF AllFetched
<1>9. CASE PruneLocal
  <2> DEFINE days == {e \in DOMAIN local : clock - e <= KeepDays}
  <2>1. local' \in [days -> {"whole", "torn"}] /\ days \in SUBSET Days
    BY <1>9, CopiesType DEF PruneLocal
  <2> QED
    BY <1>9, <2>1, IsCopies DEF PruneLocal
<1>10. CASE Report
  BY <1>10 DEF Report, Exit, NotPulling
<1>11. CASE PullKilled
  BY <1>11 DEF PullKilled, NotPulling, Fault
<1> QED
  BY <1>1, <1>2, <1>3, <1>4, <1>5, <1>6, <1>7, <1>8, <1>9, <1>10, <1>11 DEF PullStep
-----------------------------------------------------------------------------
(* The refresh *)

\* What Backups changes is none of the refresh's business.
LEMMA OthersKeepDevInv == DevInv /\ UNCHANGED devVars => DevInv'
BY DEF DevInv, DevTypeOK, Restoring, SwapOK, NeverRawProduction, devVars

LEMMA SnapshotsType ==
  ASSUME DevTypeOK
  PROVE  /\ Numbers \subseteq Nat
         /\ \A n \in Numbers : File(n).content \in Content /\ File(n).origin \in {"dev", "prod"}
<1> USE BoundsTyped DEF DevTypeOK, Numbers, Snapshot
<1>1. Numbers \subseteq Nat
  OBVIOUS
<1>2. ASSUME NEW n \in Numbers PROVE File(n) \in snapshots
  BY <1>2 DEF File
<1> QED
  BY <1>1, <1>2

\* The steps of a call leave the backups alone, but for the pull it starts and for the
\* failures they share.
LEMMA RefreshKeepsBackupsInv == BackupsInv /\ (Refresh \/ Work \/ ComposeUp) => BackupsInv'
<1> SUFFICES ASSUME BackupsInv, Refresh \/ Work \/ ComposeUp PROVE BackupsInv'
  OBVIOUS
<1> USE BoundsTyped DEF BackupsInv, BackupsTypeOK, PullOK
<1>1. ASSUME NEW command \in {"refresh", "restore-dev", "snapshot"}, NEW named \in BOOLEAN,
             NEW shell \in BOOLEAN, Call(command, named, shell)
      PROVE  BackupsInv'
  <2>1. pull' \in {pull, [NotPulling EXCEPT !.pc = "list"]}
    BY <1>1 DEF Call
  <2>2. CASE pull' = pull
    BY <1>1, <2>2 DEF Call
  <2>3. CASE pull' = [NotPulling EXCEPT !.pc = "list"]
    BY <1>1, <2>3 DEF Call, Pull, NotPulling
  <2> QED
    BY <2>1, <2>2, <2>3
<1>2. CASE UNCHANGED backupVars
  BY <1>2 DEF backupVars
<1>3. CASE UNCHANGED <<clock, cron, server, local, pull>> /\ (UNCHANGED faults \/ Fault)
  BY <1>3 DEF Fault
<1>4. CASE SnapshotFails \/ Cleanup \/ WriteComment \/ StartFails \/ ToolKilled
  BY <1>3, <1>4 DEF SnapshotFails, Cleanup, WriteComment, StartFails, ToolKilled
<1>5. CASE PullEnds \/ SelectSource \/ Confirm \/ TakeSnapshot \/ Prune \/ StopServices
  BY <1>2, <1>5 DEF PullEnds, SelectSource, Confirm, TakeSnapshot, Prune, StopServices
<1>6. CASE CreateIncoming \/ Restored \/ Sanitize \/ DropTarget \/ RenameIncoming
  BY <1>2, <1>6 DEF CreateIncoming, Restored, Sanitize, DropTarget, RenameIncoming
<1>7. CASE StartServices \/ HeartbeatSeen \/ Work \/ ComposeUp
  BY <1>2, <1>7 DEF StartServices, HeartbeatSeen, Work, ComposeUp
<1> QED
  BY <1>1, <1>4, <1>5, <1>6, <1>7 DEF Refresh

\* The call moves on or ends, and nothing else changes.
LEMMA Moves ==
  ASSUME tool \in Tool, Restoring, NEW f \in Nat,
         NEW pc \in {"select", "confirm", "backup", "stop", "restore"},
         tool.pc \notin {"idle", "backup"} \/ pc = "backup",
         tool.pc = "retention" => tool.command # "snapshot",
         tool' \in {NoTool, [tool EXCEPT !.pc = pc], [tool EXCEPT !.pc = pc, !.source = f]}
  PROVE  tool' \in Tool /\ tool'.pc \notin {"check", "drop", "rename"} /\ Restoring'
<1>1. CASE tool' = NoTool
  BY <1>1 DEF Tool, NoTool, Restoring
<1>2. CASE tool' = [tool EXCEPT !.pc = pc]
  BY <1>2 DEF Tool, Restoring
<1>3. CASE tool' = [tool EXCEPT !.pc = pc, !.source = f]
  BY <1>3 DEF Tool, Restoring
<1> QED
  BY <1>1, <1>2, <1>3

LEMMA OnlyTheCall ==
  ASSUME DevInv, tool' \in Tool, Restoring', tool'.pc \notin {"check", "drop", "rename"},
         UNCHANGED <<target, incoming, comment, snapshots, taken, worker, dotenv>>
  PROVE  DevInv'
BY DEF DevInv, DevTypeOK, SwapOK, NeverRawProduction

LEMMA RefreshKeepsDevInv ==
  BackupsInv /\ DevInv /\ (Refresh \/ Work \/ ComposeUp) => DevInv'
<1> SUFFICES ASSUME BackupsInv, DevInv, Refresh \/ Work \/ ComposeUp PROVE DevInv'
  OBVIOUS
<1>0. DOMAIN local \subseteq Nat /\ DOMAIN local \subseteq Days
  BY BoundsTyped, CopiesType DEF BackupsInv, BackupsTypeOK, Days
<1>a. tool \in Tool /\ tool.source \in Nat
  BY DEF DevInv, DevTypeOK, Tool
<1>2. CASE PullEnds
  <2>1. tool' \in {NoTool, [tool EXCEPT !.pc = "select"]}
    BY <1>2 DEF PullEnds, To, Exits
  <2>2. tool' \in Tool /\ tool'.pc \notin {"check", "drop", "rename"} /\ Restoring'
    BY <1>a, <1>2, <2>1, Moves DEF PullEnds, DevInv
  <2> QED
    BY <1>2, <2>2, OnlyTheCall DEF PullEnds
<1>3. CASE SelectSource
  <2> DEFINE files == IF tool.command = "refresh" THEN DOMAIN local ELSE Numbers
  <2>1. files \subseteq Nat
    BY <1>0, SnapshotsType DEF DevInv
  <2>2. \E f \in Nat : tool' \in {NoTool, [tool EXCEPT !.pc = "confirm", !.source = f]}
    BY <1>a, <1>3, <2>1 DEF SelectSource, Exits
  <2>3. tool' \in Tool /\ tool'.pc \notin {"check", "drop", "rename"} /\ Restoring'
    BY <1>a, <1>3, <2>2, Moves DEF SelectSource, DevInv
  <2> QED
    BY <1>3, <2>3, OnlyTheCall DEF SelectSource
<1>4. CASE Confirm
  <2>1. tool' \in {NoTool, [tool EXCEPT !.pc = "backup"]}
    BY <1>4 DEF Confirm, To, Exits
  <2>2. tool' \in Tool /\ tool'.pc \notin {"check", "drop", "rename"} /\ Restoring'
    BY <1>a, <1>4, <2>1, Moves DEF Confirm, DevInv
  <2> QED
    BY <1>4, <2>2, OnlyTheCall DEF Confirm
<1>7. CASE Prune
  <2>1. snapshots' \subseteq Snapshot
    BY <1>7 DEF Prune, DevInv, DevTypeOK
  <2>2. tool' = NoTool \/ (tool.command # "snapshot" /\ tool' = [tool EXCEPT !.pc = "stop"])
    BY <1>7 DEF Prune, To, Exits
  <2>3. tool' \in Tool /\ tool'.pc \notin {"check", "drop", "rename"} /\ Restoring'
    <3>1. CASE tool' = NoTool
      BY <3>1 DEF NoTool, Tool, Restoring
    <3>2. CASE tool.command # "snapshot" /\ tool' = [tool EXCEPT !.pc = "stop"]
      BY <1>a, <3>2 DEF Tool, Restoring
    <3> QED
      BY <2>2, <3>1, <3>2
  <2> QED
    BY <1>7, <2>1, <2>3 DEF Prune, DevInv, DevTypeOK, SwapOK, NeverRawProduction
<1> USE DEF DevInv, DevTypeOK, Restoring, SwapOK, NeverRawProduction
<1> USE DEF Tool, To, Exits, NoTool
<1>1. ASSUME NEW command \in {"refresh", "restore-dev", "snapshot"}, NEW named \in BOOLEAN,
             NEW shell \in BOOLEAN, Call(command, named, shell)
      PROVE  DevInv'
  BY <1>1 DEF Call
<1>5. CASE TakeSnapshot
  <2>1. taken' \in 1..MaxSnapshots /\ target \in Content
    BY <1>5, BoundsTyped DEF TakeSnapshot
  <2>2. snapshots' \subseteq Snapshot
    BY <1>5, <2>1 DEF TakeSnapshot, Snapshot
  <2>3. tool' \in Tool /\ tool'.pc = "retention"
    <3> HIDE DEF DevInv, DevTypeOK, Restoring, SwapOK, NeverRawProduction
    <3>1. taken' \in Nat /\ tool' = [tool EXCEPT !.pc = "retention", !.backup = taken']
      BY <1>5, <2>1, BoundsTyped DEF TakeSnapshot
    <3> HIDE DEF To, Exits, NoTool
    <3> QED
      BY <1>a, <3>1
  <2> QED
    BY <1>5, <2>1, <2>2, <2>3, BoundsTyped DEF TakeSnapshot
<1>6. CASE SnapshotFails
  BY <1>6 DEF SnapshotFails
<1>8. CASE StopServices
  BY <1>8 DEF StopServices
<1>9. CASE CreateIncoming
  <2>1. tool.command \in {"refresh", "restore-dev"}
    BY <1>9 DEF CreateIncoming
  <2>2. incoming' \in Content
    <3>1. CASE tool.command = "refresh"
      BY <1>0, <1>9, <3>1, BoundsTyped DEF CreateIncoming, Content
    <3>2. CASE tool.command = "restore-dev"
      BY <1>9, <3>2, SnapshotsType DEF CreateIncoming, Content
    <3> QED
      BY <2>1, <3>1, <3>2
  <2>3. incoming' # Absent
    BY <2>2, AbsentIsNoContent
  <2> QED
    BY <1>9, <2>1, <2>2, <2>3 DEF CreateIncoming
<1>10. CASE Restored
  <2>1. incoming \in Content
    BY <1>10 DEF Restored
  <2>2. incoming' \in Content
    BY <1>10, <2>1 DEF Restored, Content
  <2> QED
    BY <1>10, <2>2, AbsentIsNoContent DEF Restored
<1>11. CASE Sanitize
  <2>1. incoming \in Content /\ incoming.full
    BY <1>11 DEF Sanitize
  <2>2. incoming' \in Content /\ incoming'.full /\ ~incoming'.live
    BY <1>11, <2>1 DEF Sanitize, Content
  <2>3. incoming' # Absent
    BY <2>2, AbsentIsNoContent
  <2>4. tool' \in Tool /\ tool'.pc = "drop" /\ Restoring'
    BY <1>11 DEF Sanitize
  <2> QED
    BY <1>11, <2>2, <2>3, <2>4 DEF Sanitize
<1>12. CASE DropTarget
  BY <1>12 DEF DropTarget
<1>13. CASE RenameIncoming
  BY <1>13 DEF RenameIncoming
<1>14. CASE Cleanup
  BY <1>14 DEF Cleanup
<1>15. CASE WriteComment
  BY <1>15, SnapshotsType DEF WriteComment, CommentFor
<1>16. CASE StartServices
  BY <1>16 DEF StartServices
<1>17. CASE HeartbeatSeen
  BY <1>17 DEF HeartbeatSeen
<1>18. CASE StartFails
  BY <1>18 DEF StartFails
<1>19. CASE ToolKilled
  BY <1>19 DEF ToolKilled
<1>20. CASE Work
  BY <1>20, BoundsTyped DEF Work, Content
<1>21. CASE ComposeUp
  BY <1>21 DEF ComposeUp
<1> QED
  BY <1>1, <1>2, <1>3, <1>4, <1>5, <1>6, <1>7, <1>8, <1>9, <1>10, <1>11, <1>12, <1>13,
     <1>14, <1>15, <1>16, <1>17, <1>18, <1>19, <1>20, <1>21 DEF Refresh

-----------------------------------------------------------------------------
(* No backup, no overwrite *)

\* The backup of a call is the newest snapshot, so retention spares it, and it holds the
\* working database as it was; the snapshot to be restored is spared by its number.
SavedInv ==
  /\ \A s \in snapshots : s.n <= taken
  /\ tool.pc \in {"retention", "stop", "restore", "check", "drop"} =>
       /\ tool.backup = taken
       /\ target # Absent => \E s \in snapshots :
            /\ s.n = tool.backup /\ s.content.full
            /\ s.content.base = target.base /\ s.content.work <= target.work
  /\ tool.pc \in {"confirm", "backup", "retention", "stop", "restore"}
     /\ tool.command = "restore-dev" => tool.source \in Numbers

LEMMA NewestIsSpared ==
  ASSUME DevTypeOK, SavedInv, NEW s \in snapshots, s.n = taken
  PROVE  s \notin Doomed
<1>1. \A t \in snapshots : t.n \in Nat /\ taken \in Nat
  BY BoundsTyped DEF DevTypeOK, Snapshot
<1>2. {t \in snapshots : t.n > s.n} = {}
  BY <1>1 DEF SavedInv
<1>3. Cardinality({t \in snapshots : t.n > s.n}) = 0
  BY <1>2, FS_EmptySet
<1> QED
  BY <1>3, BoundsTyped DEF Doomed

LEMMA InitSaved == Init => SavedInv
BY DEF Init, SavedInv, NoTool

\* Every step of a call keeps what it has saved, and drops nothing else.
LEMMA RefreshSaves ==
  ASSUME BackupsInv, DevInv, SavedInv, Refresh \/ Work \/ ComposeUp
  PROVE  SavedInv' /\ OverwrittenIsSaved /\ SourceSurvives
<1>0. /\ tool \in Tool /\ taken \in Nat /\ snapshots \subseteq Snapshot
      /\ target \in Content \cup {Absent} /\ DevTypeOK /\ Absent \notin Content
      /\ NeverRawProduction /\ SwapOK
  BY BoundsTyped, AbsentIsNoContent DEF DevInv, DevTypeOK
<1>n. \A x : x \in Numbers <=> \E s \in snapshots : s.n = x
  BY DEF Numbers
\* Most steps move a call on, or end it, and touch neither snapshots nor the target.
<1>a. ASSUME NEW pc \in {"backup", "stop", "restore", "check", "drop", "select", "rename", "comment",
                         "start", "heartbeat"},
             UNCHANGED <<target, snapshots, taken>>,
             \/ tool' = tool
             \/ tool' = NoTool
             \/ /\ tool' = [tool EXCEPT !.pc = pc]
                /\ \/ tool.pc = "confirm" /\ pc = "backup"
                   \/ tool.pc \in {"retention", "stop", "restore", "check"}
                      /\ pc \in {"stop", "restore", "check", "drop"}
                      /\ (pc \in {"stop", "restore"} => tool.pc \in {"retention", "stop"})
                   \/ pc \in {"select", "rename", "comment", "start", "heartbeat"}
      PROVE  SavedInv' /\ OverwrittenIsSaved /\ SourceSurvives
  <2>1. Numbers' = Numbers
    BY <1>a DEF Numbers
  <2>2. OverwrittenIsSaved
    BY <1>a DEF OverwrittenIsSaved
  <2>3. CASE tool' = tool
    BY <1>a, <2>1, <2>2, <2>3 DEF SavedInv, SourceSurvives
  <2>4. CASE tool' = NoTool
    BY <1>a, <2>1, <2>2, <2>4 DEF SavedInv, SourceSurvives, NoTool
  <2>5. CASE /\ tool' = [tool EXCEPT !.pc = pc]
             /\ \/ tool.pc = "confirm" /\ pc = "backup"
                \/ tool.pc \in {"retention", "stop", "restore", "check"}
                   /\ pc \in {"stop", "restore", "check", "drop"}
                   /\ (pc \in {"stop", "restore"} => tool.pc \in {"retention", "stop"})
                \/ pc \in {"select", "rename", "comment", "start", "heartbeat"}
    <3>1. /\ tool'.pc = pc /\ tool'.command = tool.command /\ tool'.source = tool.source
          /\ tool'.backup = tool.backup
      BY <1>0, <2>5 DEF Tool
    <3> QED
      BY <1>a, <2>1, <2>2, <2>5, <3>1 DEF SavedInv, SourceSurvives
  <2> QED
    BY <1>a, <2>3, <2>4, <2>5
<1>1. ASSUME NEW command \in {"refresh", "restore-dev", "snapshot"}, NEW named \in BOOLEAN,
             NEW shell \in BOOLEAN, Call(command, named, shell)
      PROVE  SavedInv' /\ OverwrittenIsSaved /\ SourceSurvives
  <2>1. /\ UNCHANGED <<target, snapshots, taken>>
        /\ tool'.pc \in {"backup", "pull", "select"}
        /\ tool'.pc = "backup" => tool'.command = "snapshot"
    BY <1>1 DEF Call, NoTool
  <2> QED
    BY <2>1 DEF SavedInv, OverwrittenIsSaved, SourceSurvives
<1>2. CASE PullEnds
  BY <1>2, <1>a DEF PullEnds, To, Exits
<1>3. CASE SelectSource
  <2>1. CASE tool' = NoTool
    BY <1>3, <1>a, <2>1 DEF SelectSource
  <2>2. CASE tool' # NoTool
    <3>1. PICK f \in (IF tool.command = "refresh" THEN DOMAIN local ELSE Numbers) :
            tool' = [tool EXCEPT !.pc = "confirm", !.source = f]
      BY <1>3, <2>2 DEF SelectSource, Exits
    <3>2. /\ tool'.pc = "confirm" /\ tool'.command = tool.command /\ tool'.source = f
          /\ tool.command = "restore-dev" => f \in Numbers
      BY <1>0, <3>1 DEF Tool
    <3>3. UNCHANGED <<target, snapshots, taken>>
      BY <1>3 DEF SelectSource
    <3> QED
      BY <3>2, <3>3 DEF SavedInv, Numbers, OverwrittenIsSaved, SourceSurvives
  <2> QED
    BY <2>1, <2>2
<1>4. CASE Confirm
  BY <1>4, <1>a DEF Confirm, To, Exits
<1>5. CASE TakeSnapshot
  <2> DEFINE s0 == [n |-> taken + 1, content |-> target, origin |-> comment]
  <2>1. /\ target \in Content /\ target.full /\ target.work \in Nat /\ tool.pc = "backup"
        /\ taken' = taken + 1 /\ snapshots' = snapshots \cup {s0} /\ target' = target
        /\ tool' = [tool EXCEPT !.pc = "retention", !.backup = taken + 1]
    BY <1>0, <1>5, BoundsTyped DEF TakeSnapshot, NeverRawProduction, Content
  <2>2. /\ tool'.pc = "retention" /\ tool'.backup = taken' /\ tool'.command = tool.command
        /\ tool'.source = tool.source
    BY <1>0, <2>1 DEF Tool
  <2>3. \A s \in snapshots' : s.n <= taken'
    BY <1>0, <2>1 DEF SavedInv, Snapshot
  <2>4. \E s \in snapshots' : /\ s.n = tool'.backup /\ s.content.full
                              /\ s.content.base = target'.base /\ s.content.work <= target'.work
    <3>1. /\ s0 \in snapshots' /\ s0.n = tool'.backup /\ s0.content = target
      BY <2>1, <2>2
    <3> HIDE DEF s0
    <3> QED
      BY <2>1, <3>1
  <2>5. Numbers \subseteq Numbers'
    BY <2>1 DEF Numbers
  <2> QED
    BY <2>1, <2>2, <2>3, <2>4, <2>5 DEF SavedInv, OverwrittenIsSaved, SourceSurvives
<1>6. CASE SnapshotFails
  BY <1>6, <1>a DEF SnapshotFails, Exits
<1>7. CASE Prune
  <2>1. /\ tool.pc = "retention" /\ snapshots' = snapshots \ Doomed /\ UNCHANGED <<target, taken>>
        /\ tool' = NoTool \/ (tool.command # "snapshot" /\ tool' = [tool EXCEPT !.pc = "stop"])
    BY <1>7 DEF Prune, To, Exits
  <2>2. \A s \in snapshots' : s.n <= taken'
    BY <2>1 DEF SavedInv
  <2>3. \A s \in snapshots : s.n = taken => s \in snapshots'
    BY <1>0, <2>1, NewestIsSpared
  <2>4. tool.command = "restore-dev" => tool.source \in Numbers'
    <3>1. \A s \in snapshots : tool.command = "restore-dev" /\ s.n = tool.source => s \notin Doomed
      BY DEF Doomed
    <3> QED
      BY <1>n, <2>1, <3>1 DEF SavedInv, Numbers
  <2>5. CASE tool' = NoTool
    BY <2>1, <2>2, <2>5 DEF SavedInv, OverwrittenIsSaved, SourceSurvives, NoTool
  <2>6. CASE tool' = [tool EXCEPT !.pc = "stop"]
    <3>1. /\ tool'.pc = "stop" /\ tool'.backup = tool.backup /\ tool'.command = tool.command
          /\ tool'.source = tool.source
      BY <1>0, <2>6 DEF Tool
    <3> QED
      BY <2>1, <2>2, <2>3, <2>4, <3>1 DEF SavedInv, OverwrittenIsSaved, SourceSurvives
  <2> QED
    BY <2>1, <2>5, <2>6
<1>8. CASE StopServices
  BY <1>8, <1>a DEF StopServices, To
<1>9. CASE CreateIncoming
  <2>1. UNCHANGED <<target, snapshots, taken>> /\ tool.pc = "restore"
        /\ tool' = [tool EXCEPT !.pc = "check"]
    BY <1>9 DEF CreateIncoming, To
  <2> QED
    BY <2>1, <1>a
<1>10. CASE Restored
  BY <1>10, <1>a DEF Restored
<1>11. CASE Sanitize
  <2>1. UNCHANGED <<target, snapshots, taken>> /\ tool.pc = "check"
        /\ tool' = [tool EXCEPT !.pc = "drop"]
    BY <1>11 DEF Sanitize, To
  <2> QED
    BY <2>1, <1>a
<1>12. CASE DropTarget
  <2>1. /\ tool.pc = "drop" /\ UNCHANGED <<snapshots, taken>> /\ tool' = [tool EXCEPT !.pc = "rename"]
    BY <1>12 DEF DropTarget, To
  <2>2. tool'.pc = "rename"
    BY <1>0, <2>1 DEF Tool
  <2> QED
    BY <2>1, <2>2 DEF SavedInv, OverwrittenIsSaved, SourceSurvives
<1>13. CASE RenameIncoming
  <2>1. target' # Absent /\ UNCHANGED <<snapshots, taken>> /\ tool' = [tool EXCEPT !.pc = "comment"]
    BY <1>0, <1>13 DEF RenameIncoming, To, SwapOK
  <2>2. tool'.pc = "comment"
    BY <1>0, <2>1 DEF Tool
  <2> QED
    BY <2>1, <2>2 DEF SavedInv, OverwrittenIsSaved, SourceSurvives
<1>14. CASE Cleanup
  BY <1>14, <1>a DEF Cleanup, Exits
<1>15. CASE WriteComment
  BY <1>15, <1>a DEF WriteComment, To
<1>16. CASE StartServices
  BY <1>16, <1>a DEF StartServices, To
<1>17. CASE HeartbeatSeen
  BY <1>17, <1>a DEF HeartbeatSeen, Exits
<1>18. CASE StartFails
  BY <1>18, <1>a DEF StartFails, Exits
<1>19. CASE ToolKilled
  BY <1>19, <1>a DEF ToolKilled, Exits
<1>20. CASE Work
  <2>1. /\ target \in Content /\ target' = [target EXCEPT !.work = @ + 1]
        /\ UNCHANGED <<snapshots, taken, tool>>
    BY <1>0, <1>20 DEF Work
  <2>2. /\ target' \in [base : Days \cup {Dev}, work : Nat, live : BOOLEAN, full : BOOLEAN]
        /\ target'.base = target.base /\ target'.work = target.work + 1 /\ target.work \in Nat
    BY <2>1, BoundsTyped DEF Content
  <2>3. \A s \in snapshots : s.content.work \in Nat
    BY <1>0, BoundsTyped DEF Snapshot, Content
  <2>4. target' # Absent
    BY <1>20, BoundsTyped, <1>0, <2>1 DEF Work, Content
  <2>5. SavedInv'
    BY <1>0, <2>1, <2>2, <2>3 DEF SavedInv, Numbers
  <2>6. SourceSurvives
    BY <2>1 DEF SavedInv, SourceSurvives, Numbers
  <2> QED
    BY <2>4, <2>5, <2>6 DEF OverwrittenIsSaved
<1>21. CASE ComposeUp
  BY <1>21, <1>a DEF ComposeUp
<1> QED
  BY <1>1, <1>2, <1>3, <1>4, <1>5, <1>6, <1>7, <1>8, <1>9, <1>10, <1>11, <1>12, <1>13,
     <1>14, <1>15, <1>16, <1>17, <1>18, <1>19, <1>20, <1>21 DEF Refresh

\* What Backups changes neither drops nor deletes anything here.
LEMMA OthersSave ==
  ASSUME SavedInv, UNCHANGED devVars
  PROVE  SavedInv' /\ OverwrittenIsSaved /\ SourceSurvives
BY DEF SavedInv, Numbers, OverwrittenIsSaved, SourceSurvives, devVars

-----------------------------------------------------------------------------
(* The exit code of the copy *)

\* A set of days that is not empty has a last one.
LEMMA NewestIsLast ==
  ASSUME NEW days, days \subseteq Days, days # {}
  PROVE  Newest(days) \in days
<1> DEFINE left == {MaxClock - d : d \in days}
<1>0. days \subseteq 0..MaxClock /\ MaxClock \in Nat
  BY BoundsTyped DEF Days
<1>1. left \subseteq Nat /\ left # {}
  BY <1>0
<1>2. IsWellFoundedOn(OpToRel(<, Nat), Nat)
  BY NatLessThanWellFounded, Zenon
<1>3. PICK m \in left : \A n \in left : ~(<<n, m>> \in OpToRel(<, Nat))
  <2> HIDE DEF left
  <2> QED
    BY <1>1, <1>2, WFMin, Zenon
<1>4. \A n \in left : ~(n < m)
  <2> HIDE DEF left
  <2> QED
    BY <1>1, <1>3 DEF OpToRel
<1>5. PICK d \in days : m = MaxClock - d
  OBVIOUS
<1>6. \A e \in days : MaxClock - e \in left
  OBVIOUS
<1>7. \A e \in days : e <= d
  BY <1>0, <1>4, <1>5, <1>6
<1> QED
  BY <1>7 DEF Newest

\* While nothing has failed, what was listed is here or is still to be fetched, and retention
\* has deleted only what is older than any fresh dump; every dump here is complete.
CopyInv ==
  /\ \A d \in DOMAIN local : local[d] = "whole"
  /\ pull.pc # "idle" => pull.code = 9
  /\ pull.pc \in {"next", "fetch", "verify", "prune", "report"} => pull.listed # {}
  /\ pull.pc \in {"next", "fetch", "verify"} /\ ~pull.failed =>
       pull.listed \subseteq DOMAIN local \cup pull.missing
  /\ pull.pc = "prune" /\ ~pull.failed => pull.listed \subseteq DOMAIN local
  /\ pull.pc = "report" /\ ~pull.failed =>
       \A d \in pull.listed : d \in DOMAIN local \/ clock - d > KeepDays

QuietStep ==
  pull.pc = "report" /\ pull'.code = 0 =>
    \E d \in DOMAIN local' : local'[d] = "whole" /\ clock - d <= StaleDays

LEMMA InitCopied == Init => CopyInv
BY DEF Init, BackupsInit, CopyInv, NotPulling

LEMMA PullsCopy ==
  ASSUME BackupsInv, CopyInv, PullStep
  PROVE  CopyInv' /\ QuietStep
<1>0. pull \in Pull /\ clock \in Nat /\ DOMAIN local \subseteq Days /\ Days \subseteq Nat
      /\ KeepDays \in Nat /\ StaleDays \in Nat
  BY BoundsTyped, CopiesType DEF BackupsInv, BackupsTypeOK, Days
<1>r. pull.pc = "report" => pull.code = 9
  BY DEF CopyInv
<1>1. CASE ListDumps
  <2>1. /\ pull.pc = "list" /\ UNCHANGED <<clock, local>>
        /\ \/ pull' = [NotPulling EXCEPT !.code = 2]
           \/ /\ server # {}
              /\ pull' = [pull EXCEPT !.pc = "next", !.listed = server,
                                      !.missing = server \ DOMAIN local]
    BY <1>1 DEF ListDumps, Exit
  <2>2. CASE pull' = [NotPulling EXCEPT !.code = 2]
    <3>1. pull'.pc = "idle" /\ pull'.code = 2
      BY <2>2 DEF NotPulling
    <3> QED
      BY <2>1, <3>1 DEF CopyInv, QuietStep
  <2>3. CASE /\ server # {}
             /\ pull' = [pull EXCEPT !.pc = "next", !.listed = server,
                                     !.missing = server \ DOMAIN local]
    <3>1. /\ pull'.pc = "next" /\ pull'.code = pull.code /\ pull'.listed = server
          /\ pull'.missing = server \ DOMAIN local
      BY <1>0, <2>3 DEF Pull
    <3> QED
      BY <2>1, <2>3, <3>1 DEF CopyInv, QuietStep
  <2> QED
    BY <2>1, <2>2, <2>3
<1>2. CASE ListFails
  BY <1>0, <1>2 DEF ListFails, Exit, NotPulling, CopyInv, QuietStep, Pull
<1>3. CASE BeginDownload
  BY <1>0, <1>3 DEF BeginDownload, CopyInv, QuietStep, Pull
<1>4. CASE Fetched
  BY <1>0, <1>4 DEF Fetched, CopyInv, QuietStep, Pull
<1>5. CASE KeepDump
  <2> DEFINE d == Oldest(pull.missing)
  <2>1. /\ pull.pc = "verify" /\ pull.tmp = "whole" /\ UNCHANGED clock
        /\ local' = [e \in DOMAIN local \cup {d} |-> IF e = d THEN pull.tmp ELSE local[e]]
        /\ pull' = [pull EXCEPT !.pc = "next", !.missing = @ \ {d}, !.tmp = "none"]
    BY <1>5 DEF KeepDump, BackupsInv, PullOK
  <2> HIDE DEF d
  <2>2. /\ pull'.pc = "next" /\ pull'.missing = pull.missing \ {d} /\ pull'.listed = pull.listed
        /\ pull'.failed = pull.failed /\ pull'.code = pull.code
    BY <1>0, <2>1 DEF Pull
  <2>3. DOMAIN local' = DOMAIN local \cup {d} /\ \A e \in DOMAIN local' : local'[e] = "whole"
    BY <2>1 DEF CopyInv
  <2> QED
    BY <2>1, <2>2, <2>3 DEF CopyInv, QuietStep
<1>6. CASE DownloadFails
  <2>1. /\ pull' = [pull EXCEPT !.pc = "next", !.missing = @ \ {Oldest(@)}, !.tmp = "none",
                                !.failed = TRUE]
        /\ UNCHANGED <<clock, local>> /\ pull.pc \in {"fetch", "verify"}
    BY <1>6 DEF DownloadFails
  <2>2. /\ pull'.pc = "next" /\ pull'.listed = pull.listed /\ pull'.failed /\ pull'.code = pull.code
    BY <1>0, <2>1 DEF Pull
  <2> QED
    BY <2>1, <2>2 DEF CopyInv, QuietStep
<1>7. CASE AllFetched
  BY <1>0, <1>7 DEF AllFetched, CopyInv, QuietStep, Pull
<1>8. CASE PruneLocal
  <2>1. /\ local' = [d \in {e \in DOMAIN local : clock - e <= KeepDays} |-> local[d]]
        /\ pull.pc = "prune" /\ pull' = [pull EXCEPT !.pc = "report"] /\ UNCHANGED clock
    BY <1>8 DEF PruneLocal
  <2>2. /\ pull'.pc = "report" /\ pull'.listed = pull.listed /\ pull'.failed = pull.failed
        /\ pull'.code = pull.code
    BY <1>0, <2>1 DEF Pull
  <2>3. DOMAIN local' = {e \in DOMAIN local : clock - e <= KeepDays}
        /\ \A e \in DOMAIN local' : local'[e] = "whole"
    BY <2>1 DEF CopyInv
  <2>4. ~pull.failed => \A d \in pull.listed : d \in DOMAIN local' \/ clock' - d > KeepDays
    BY <1>0, <2>1, <2>3 DEF CopyInv
  <2> QED
    BY <2>1, <2>2, <2>3, <2>4 DEF CopyInv, QuietStep
<1>9. CASE Report
  <2>1. /\ pull.pc = "report" /\ UNCHANGED <<clock, local>>
        /\ pull' = [NotPulling EXCEPT !.code = IF pull.failed THEN 1
                      ELSE IF clock - Newest(pull.listed) > StaleDays THEN 2 ELSE 0]
    BY <1>9 DEF Report, Exit
  <2>2. pull'.pc = "idle"
    BY <2>1 DEF NotPulling
  <2>3. CopyInv'
    BY <2>1, <2>2 DEF CopyInv
  <2>4. ASSUME pull'.code = 0
        PROVE  \E d \in DOMAIN local' : local'[d] = "whole" /\ clock - d <= StaleDays
    <3> DEFINE d == Newest(pull.listed)
    <3>1. ~pull.failed /\ ~(clock - d > StaleDays)
      BY <2>1, <2>4 DEF NotPulling
    <3>2. d \in pull.listed /\ pull.listed \subseteq Days
      BY <1>0, <2>1, NewestIsLast DEF CopyInv, Pull
    <3> HIDE DEF d
    <3>3. ~(clock - d > KeepDays) /\ clock - d <= StaleDays
      <4>1. d \in Nat
        BY <1>0, <3>2
      <4>2. clock - d \in Int /\ KeepDays \in Nat /\ StaleDays \in Nat /\ StaleDays <= KeepDays
        BY <1>0, <4>1, KeptWhileFresh
      <4> QED
        BY <3>1, <4>2
    <3>4. d \in DOMAIN local /\ local[d] = "whole"
      BY <2>1, <3>1, <3>2, <3>3 DEF CopyInv
    <3> QED
      BY <2>1, <3>3, <3>4
  <2> QED
    BY <2>3, <2>4 DEF QuietStep
<1>10. CASE PullKilled
  BY <1>0, <1>10 DEF PullKilled, NotPulling, CopyInv, QuietStep
<1> QED
  BY <1>1, <1>2, <1>3, <1>4, <1>5, <1>6, <1>7, <1>8, <1>9, <1>10 DEF PullStep

\* A pull begins; or it stands still while the server, the clock or the refresh go on.
LEMMA OthersCopy ==
  ASSUME BackupsInv, CopyInv, local' = local, clock' >= clock, clock' \in Nat,
         \/ pull' = pull
         \/ pull' = [NotPulling EXCEPT !.pc = "list"]
  PROVE  CopyInv' /\ QuietStep
<1>0. pull \in Pull /\ clock \in Nat /\ DOMAIN local \subseteq Days /\ Days \subseteq Nat
      /\ KeepDays \in Nat
  BY BoundsTyped, CopiesType DEF BackupsInv, BackupsTypeOK, Days
<1>1. CASE pull' = pull
  <2>1. \A d \in pull.listed : clock - d > KeepDays => clock' - d > KeepDays
    BY <1>0 DEF Pull
  <2> QED
    BY <1>1, <2>1 DEF CopyInv, QuietStep
<1>2. CASE pull' = [NotPulling EXCEPT !.pc = "list"]
  <2>1. pull'.pc = "list" /\ pull'.code = 9
    BY <1>2 DEF NotPulling
  <2> QED
    BY <2>1 DEF CopyInv, QuietStep
<1> QED
  BY <1>1, <1>2

LEMMA NextCopies ==
  ASSUME BackupsInv, BackupsInv', CopyInv, [Next]_vars
  PROVE  CopyInv' /\ QuietStep
<1>0. clock \in Nat /\ clock' \in Nat
  BY BoundsTyped DEF BackupsInv, BackupsTypeOK, Days
<1>1. CASE PullStep
  BY <1>1, PullsCopy
<1>2. CASE local' = local /\ clock' = clock /\ pull' \in {pull, [NotPulling EXCEPT !.pc = "list"]}
  BY <1>0, <1>2, OthersCopy
<1>3. CASE NextDay
  BY <1>0, <1>3, OthersCopy DEF NextDay
<1>4. CASE ServerStep \/ PullStarts
  BY <1>2, <1>4 DEF ServerStep, Backup, BackupFails, PullStarts
<1>5. ASSUME NEW command \in {"refresh", "restore-dev", "snapshot"}, NEW named \in BOOLEAN,
             NEW shell \in BOOLEAN, Call(command, named, shell)
      PROVE  CopyInv' /\ QuietStep
  BY <1>2, <1>5 DEF Call
<1>6. CASE PullEnds \/ SelectSource \/ Confirm \/ TakeSnapshot \/ Prune \/ StopServices
           \/ CreateIncoming \/ Restored \/ Sanitize \/ DropTarget \/ RenameIncoming
           \/ StartServices \/ HeartbeatSeen \/ Work \/ ComposeUp
  <2>1. UNCHANGED backupVars
    BY <1>6 DEF PullEnds, SelectSource, Confirm, TakeSnapshot, Prune, StopServices, CreateIncoming,
       Restored, Sanitize, DropTarget, RenameIncoming, StartServices, HeartbeatSeen, Work, ComposeUp
  <2> QED
    BY <1>2, <2>1 DEF backupVars
<1>7. CASE SnapshotFails \/ Cleanup \/ WriteComment \/ StartFails \/ ToolKilled
  BY <1>2, <1>7 DEF SnapshotFails, Cleanup, WriteComment, StartFails, ToolKilled
<1>8. CASE UNCHANGED vars
  BY <1>2, <1>8 DEF vars, backupVars
<1> QED
  BY <1>1, <1>3, <1>4, <1>5, <1>6, <1>7, <1>8 DEF Next, Refresh

-----------------------------------------------------------------------------
(* The theorems *)

LEMMA InitOK == Init => BackupsInv /\ DevInv
<1> SUFFICES ASSUME Init PROVE BackupsInv /\ DevInv
  OBVIOUS
<1>1. BackupsInv
  <2>1. local \in [{} -> {"whole", "torn"}]
    BY DEF Init, BackupsInit
  <2>2. local \in Copies
    BY <2>1, IsCopies
  <2> QED
    BY <2>2, BoundsTyped DEF Init, BackupsInit, BackupsInv, BackupsTypeOK, PullOK, Days, Pull,
                             NotPulling
<1>2. DevInv
  BY BoundsTyped, AbsentIsNoContent DEF Init, DevInv, DevTypeOK, Restoring, SwapOK,
     NeverRawProduction, Content, Tool, NoTool
<1> QED
  BY <1>1, <1>2

LEMMA NextKeepsInv == BackupsInv /\ DevInv /\ [Next]_vars => (BackupsInv /\ DevInv)'
<1> SUFFICES ASSUME BackupsInv, DevInv, [Next]_vars PROVE (BackupsInv /\ DevInv)'
  OBVIOUS
<1>1. CASE (ServerStep \/ PullStep \/ NextDay \/ PullStarts) /\ UNCHANGED devVars
  BY <1>1, ServerKeepsInv, PullKeepsInv, OthersKeepDevInv
<1>2. CASE Refresh \/ Work \/ ComposeUp
  BY <1>2, RefreshKeepsBackupsInv, RefreshKeepsDevInv
<1>3. CASE UNCHANGED vars
  <2>1. BackupsInv'
    BY <1>3 DEF vars, backupVars, BackupsInv, BackupsTypeOK, PullOK
  <2> QED
    BY <1>3, <2>1, OthersKeepDevInv DEF vars
<1> QED
  BY <1>1, <1>2, <1>3 DEF Next

\* The types, for every number of days, dumps, snapshots and failures.
THEOREM TypeCorrect == Spec => []TypeOK
<1>1. BackupsInv /\ DevInv => TypeOK
  BY DEF BackupsInv, DevInv, TypeOK
<1> QED
  BY <1>1, InitOK, NextKeepsInv, PTL DEF Spec

\* Whatever fails and whenever a script is killed, the working database is never
\* unsanitised production data and never half of a restore.
THEOREM NothingRaw == Spec => []NeverRawProduction
<1>1. DevInv => NeverRawProduction
  BY DEF DevInv
<1> QED
  BY <1>1, InitOK, NextKeepsInv, PTL DEF Spec

\* No backup, no overwrite: whatever fails or is killed and however few snapshots are kept,
\* what a refresh drops is in a snapshot but for later edits, and what it restores is there.
THEOREM NothingIsOverwrittenUnsaved == Spec => NothingIsLost
<1>1. Init => BackupsInv /\ DevInv /\ SavedInv
  BY InitOK, InitSaved
<1>2. BackupsInv /\ DevInv /\ SavedInv /\ [Next]_vars
        => (BackupsInv /\ DevInv /\ SavedInv)' /\ [OverwrittenIsSaved /\ SourceSurvives]_vars
  <2> SUFFICES ASSUME BackupsInv, DevInv, SavedInv, [Next]_vars
               PROVE  SavedInv' /\ OverwrittenIsSaved /\ SourceSurvives
    BY NextKeepsInv
  <2>1. CASE Refresh \/ Work \/ ComposeUp
    BY <2>1, RefreshSaves
  <2>2. CASE UNCHANGED devVars
    BY <2>2, OthersSave
  <2> QED
    BY <2>1, <2>2 DEF Next, vars
<1> QED
  BY <1>1, <1>2, PTL DEF Spec, NothingIsLost

\* A copy that ends with "everything fine" leaves a complete dump that is not stale,
\* whatever was interrupted, deleted on the server or missed meanwhile.
THEOREM FineMeansRecent == Spec => QuietMeansRecent
<1>1. Init => BackupsInv /\ DevInv /\ CopyInv
  BY InitOK, InitCopied
<1>2. BackupsInv /\ DevInv /\ CopyInv /\ [Next]_vars
        => (BackupsInv /\ DevInv /\ CopyInv)' /\ [QuietStep]_backupVars
  BY NextKeepsInv, NextCopies
<1> QED
  BY <1>1, <1>2, PTL DEF Spec, QuietMeansRecent, QuietStep

=============================================================================
