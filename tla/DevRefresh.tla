----------------------------- MODULE DevRefresh -----------------------------
(***************************************************************************)
(* The development database and the script that replaces it with a         *)
(* production dump or one of its own snapshots                             *)
(* (tools/local/refresh_dev_db.py).  Every docker, psql or pg_restore it   *)
(* runs may fail, and the script may be killed between any two of them;    *)
(* meanwhile the developer edits data and restarts services, and module    *)
(* Backups goes on.                                                        *)
(***************************************************************************)
EXTENDS Backups

CONSTANTS
  Dev,           \* the origin of a database that was never refreshed
  Absent,        \* no such database
  SnapshotKeep,  \* SNAPSHOT_KEEP
  MaxSnapshots,  \* bound: snapshots ever taken
  MaxWork        \* bound: edits by the developer

ASSUME SnapshotsAreNaturals == {SnapshotKeep, MaxSnapshots, MaxWork} \subseteq Nat

VARIABLES
  target,     \* Content, database signalmap
  incoming,   \* Content, database signalmap_incoming
  comment,    \* the comment of the target: where its data came from
  snapshots,  \* files in SNAPSHOT_DIR
  taken,      \* how many snapshots were ever taken
  worker,     \* the worker's container
  dotenv,     \* SCHEDULER_DRY_RUN in .env, which no program changes
  tool        \* Tool, a call of refresh_dev_db.py

devVars == <<target, incoming, comment, snapshots, taken, worker, dotenv, tool>>
vars == <<backupVars, devVars>>

\* base: whose data it is, a production dump's day or Dev; work: the last edit it has;
\* live: production's schedules and queue can still start something; full: pg_restore
\* has put all of it in.
Content == [base : Days \cup {Dev}, work : 0..MaxWork, live : BOOLEAN, full : BOOLEAN]
ASSUME AbsentIsNoContent == Absent \notin Content

Snapshot == [n : 1..MaxSnapshots, content : Content, origin : {"dev", "prod"}]

\* source: the day of a dump, or the number of a snapshot; backup: the snapshot that this
\* call took.
Tool == [pc : {"idle", "pull", "select", "confirm", "backup", "retention", "stop", "restore", "check",
               "drop", "rename", "comment", "start", "heartbeat"},
         command : {"refresh", "restore-dev", "snapshot"}, named : BOOLEAN,
         source : Nat, backup : Nat]

NoTool == [pc |-> "idle", command |-> "refresh", named |-> FALSE, source |-> 0,
           backup |-> 0]

DevTypeOK ==
  /\ target \in Content \cup {Absent} /\ incoming \in Content \cup {Absent}
  /\ comment \in {"dev", "prod"}
  /\ snapshots \subseteq Snapshot /\ taken \in 0..MaxSnapshots
  /\ worker \in {"stopped", "dry", "real"} /\ dotenv \in BOOLEAN
  /\ tool \in Tool

TypeOK == BackupsTypeOK /\ DevTypeOK

Init ==
  /\ BackupsInit
  /\ target = [base |-> Dev, work |-> 0, live |-> FALSE, full |-> TRUE]
  /\ incoming = Absent /\ comment = "dev"
  /\ snapshots = {} /\ taken = 0
  /\ worker = "stopped" /\ dotenv \in BOOLEAN
  /\ tool = NoTool

-----------------------------------------------------------------------------
(* Helpers *)

Numbers == {s.n : s \in snapshots}
File(n) == CHOOSE s \in snapshots : s.n = n
To(pc) == tool' = [tool EXCEPT !.pc = pc]
Exits == tool' = NoTool

\* comment_for: the comment that goes with a source.
CommentFor ==
  IF tool.command = "refresh" THEN "prod"
  ELSE IF tool.source \in Numbers THEN File(tool.source).origin ELSE "dev"

-----------------------------------------------------------------------------
(* The script *)

\* check_compose: the worker would get SCHEDULER_DRY_RUN=true, from the shell or from .env.
WouldRunDry(shell) == shell \/ dotenv

\* preflight.  named: a dump or snapshot is asked for, or --no-pull; otherwise the newest
\* is meant.
Call(command, named, shell) ==
  /\ tool.pc = "idle"
  /\ command = "snapshot" \/ WouldRunDry(shell)
  /\ command = "refresh" /\ ~named => pull.pc = "idle"
  /\ tool' = [NoTool EXCEPT !.command = command, !.named = named,
                            !.pc = IF command = "snapshot" THEN "backup"
                                   ELSE IF command = "refresh" /\ ~named THEN "pull"
                                   ELSE "select"]
  /\ pull' = IF tool'.pc = "pull" THEN [NotPulling EXCEPT !.pc = "list"] ELSE pull
  /\ UNCHANGED <<clock, cron, server, local, faults, target, incoming, comment, snapshots,
                 taken, worker, dotenv>>

\* run_pull: a stale server backup is a warning, any other failure ends the script.
PullEnds ==
  /\ tool.pc = "pull" /\ pull.pc = "idle"
  /\ IF pull.code \in {0, 2} THEN To("select") ELSE Exits
  /\ UNCHANGED <<backupVars, target, incoming, comment, snapshots, taken, worker, dotenv>>

\* select_file; without a file the script ends.
SelectSource ==
  /\ tool.pc = "select"
  /\ LET files == IF tool.command = "refresh" THEN DOMAIN local ELSE Numbers
     IN  IF files = {} THEN Exits
         ELSE \E f \in files : /\ tool.named \/ f = Newest(files)
                               /\ tool' = [tool EXCEPT !.pc = "confirm", !.source = f]
  /\ UNCHANGED <<backupVars, target, incoming, comment, snapshots, taken, worker, dotenv>>

\* check_alembic and the [y/N] question.
Confirm ==
  /\ tool.pc = "confirm"
  /\ To("backup") \/ Exits
  /\ UNCHANGED <<backupVars, target, incoming, comment, snapshots, taken, worker, dotenv>>

\* take_snapshot.
TakeSnapshot ==
  /\ tool.pc = "backup" /\ target # Absent /\ taken < MaxSnapshots
  /\ taken' = taken + 1
  /\ snapshots' = snapshots \cup {[n |-> taken', content |-> target, origin |-> comment]}
  /\ tool' = [tool EXCEPT !.pc = "retention", !.backup = taken']
  /\ UNCHANGED <<backupVars, target, incoming, comment, worker, dotenv>>

\* No backup, no overwrite.
SnapshotFails ==
  /\ tool.pc = "backup"
  /\ \/ target = Absent /\ UNCHANGED faults
     \/ target # Absent /\ Fault
  /\ Exits
  /\ UNCHANGED <<clock, cron, server, local, pull, target, incoming, comment, snapshots, taken,
                 worker, dotenv>>

\* Mutant: the source of the restore is not spared.
Doomed_Unprotected ==
  {s \in snapshots : Cardinality({t \in snapshots : t.n > s.n}) >= SnapshotKeep}

\* What retention deletes: all but the newest, and never the source of this restore.
Doomed ==
  IF SnapshotKeep = 0 THEN {}
  ELSE {s \in snapshots : /\ Cardinality({t \in snapshots : t.n > s.n}) >= SnapshotKeep
                          /\ ~(tool.command = "restore-dev" /\ s.n = tool.source)}

\* prune_snapshots
Prune ==
  /\ tool.pc = "retention"
  /\ snapshots' = snapshots \ Doomed
  /\ IF tool.command = "snapshot" THEN Exits ELSE To("stop")
  /\ UNCHANGED <<backupVars, target, incoming, comment, taken, worker, dotenv>>

StopServices ==
  /\ tool.pc = "stop"
  /\ worker' = "stopped"
  /\ To("restore")
  /\ UNCHANGED <<backupVars, target, incoming, comment, snapshots, taken, dotenv>>

\* restore_into_incoming: an empty database, then pg_restore.  A source that is gone by
\* now, or a failure, ends in Cleanup.
CreateIncoming ==
  /\ tool.pc = "restore"
  /\ tool.command = "refresh" => tool.source \in DOMAIN local
  /\ tool.command = "restore-dev" => tool.source \in Numbers
  /\ incoming' = IF tool.command = "refresh"
                 THEN [base |-> tool.source, work |-> 0, live |-> TRUE, full |-> FALSE]
                 ELSE [File(tool.source).content EXCEPT !.full = FALSE]
  /\ To("check")
  /\ UNCHANGED <<backupVars, target, comment, snapshots, taken, worker, dotenv>>

Restored ==
  /\ tool.pc = "check" /\ ~incoming.full
  /\ incoming' = [incoming EXCEPT !.full = TRUE]
  /\ UNCHANGED <<backupVars, target, comment, snapshots, taken, worker, dotenv, tool>>

\* Mutant: the data is sanitised once it is in place.
Sanitize_Later ==
  /\ tool.pc = "check" /\ incoming.full
  /\ incoming' = incoming
  /\ To("drop")
  /\ UNCHANGED <<backupVars, target, comment, snapshots, taken, worker, dotenv>>

\* content_counts, then sanitize.
Sanitize ==
  /\ tool.pc = "check" /\ incoming.full
  /\ incoming' = [incoming EXCEPT !.live = FALSE]
  /\ To("drop")
  /\ UNCHANGED <<backupVars, target, comment, snapshots, taken, worker, dotenv>>

DropTarget ==
  /\ tool.pc = "drop"
  /\ target' = Absent /\ comment' = "dev"
  /\ To("rename")
  /\ UNCHANGED <<backupVars, incoming, snapshots, taken, worker, dotenv>>

RenameIncoming ==
  /\ tool.pc = "rename"
  /\ target' = incoming /\ incoming' = Absent
  /\ To("comment")
  /\ UNCHANGED <<backupVars, comment, snapshots, taken, worker, dotenv>>

\* A step from the stop of the services to the swap fails: the incoming database is
\* dropped, if that works, and the services stay stopped.
Cleanup ==
  /\ tool.pc \in {"stop", "restore", "check", "drop", "rename"}
  /\ \/ /\ tool.pc = "restore" /\ UNCHANGED faults
        /\ tool.source \notin (IF tool.command = "refresh" THEN DOMAIN local ELSE Numbers)
     \/ Fault
  /\ incoming' \in {Absent, incoming}
  /\ Exits
  /\ UNCHANGED <<clock, cron, server, local, pull, target, comment, snapshots, taken, worker,
                 dotenv>>

\* The comment of the new database; a failure is only warned of.
WriteComment ==
  /\ tool.pc = "comment"
  /\ \/ comment' = CommentFor /\ UNCHANGED faults
     \/ Fault /\ UNCHANGED comment
  /\ To("start")
  /\ UNCHANGED <<clock, cron, server, local, pull, target, incoming, snapshots, taken, worker,
                 dotenv>>

\* docker compose up with SCHEDULER_DRY_RUN=true
StartServices ==
  /\ tool.pc = "start"
  /\ worker' = "dry"
  /\ To("heartbeat")
  /\ UNCHANGED <<backupVars, target, incoming, comment, snapshots, taken, dotenv>>

\* wait_for_heartbeat: the worker itself must report a dry run.
HeartbeatSeen ==
  /\ tool.pc = "heartbeat" /\ worker # "stopped"
  /\ worker' = IF worker = "dry" THEN "dry" ELSE "stopped"
  /\ Exits
  /\ UNCHANGED <<backupVars, target, incoming, comment, snapshots, taken, dotenv>>

\* The start fails, or no heartbeat comes: the worker is stopped.
StartFails ==
  /\ tool.pc \in {"start", "heartbeat"}
  /\ \/ tool.pc = "heartbeat" /\ worker = "stopped" /\ UNCHANGED faults
     \/ Fault
  /\ worker' = "stopped"
  /\ Exits
  /\ UNCHANGED <<clock, cron, server, local, pull, target, incoming, comment, snapshots, taken,
                 dotenv>>

\* Ctrl-C or a reboot: nothing is cleaned up.
ToolKilled ==
  /\ tool.pc # "idle" /\ Fault
  /\ Exits
  /\ UNCHANGED <<clock, cron, server, local, pull, target, incoming, comment, snapshots, taken,
                 worker, dotenv>>

-----------------------------------------------------------------------------
(* The developer *)

\* Any edit of the working database, by the application or by hand.
Work ==
  /\ target # Absent /\ target.work < MaxWork
  /\ target' = [target EXCEPT !.work = @ + 1]
  /\ UNCHANGED <<backupVars, incoming, comment, snapshots, taken, worker, dotenv, tool>>

\* A plain docker compose up.
ComposeUp ==
  /\ worker' = IF dotenv THEN "dry" ELSE "real"
  /\ UNCHANGED <<backupVars, target, incoming, comment, snapshots, taken, dotenv, tool>>

Refresh ==
  \/ \E command \in {"refresh", "restore-dev", "snapshot"}, named, shell \in BOOLEAN :
       Call(command, named, shell)
  \/ PullEnds \/ SelectSource \/ Confirm \/ TakeSnapshot \/ SnapshotFails \/ Prune
  \/ StopServices \/ CreateIncoming \/ Restored \/ Sanitize \/ DropTarget \/ RenameIncoming
  \/ Cleanup \/ WriteComment \/ StartServices \/ HeartbeatSeen \/ StartFails \/ ToolKilled

Next ==
  \/ (ServerStep \/ PullStep \/ NextDay) /\ UNCHANGED devVars
  \/ tool.pc # "pull" /\ PullStarts /\ UNCHANGED devVars  \* one pull at a time
  \/ Refresh
  \/ Work \/ ComposeUp

Spec == Init /\ [][Next]_vars

-----------------------------------------------------------------------------
(* Properties *)

\* The working database never holds production data that could still start something,
\* and never half of a restore (refresh_dev_db.py:50-51, 65-66).
NeverRawProduction == target # Absent => ~target.live /\ target.full

OverwrittenIsSaved ==
  target # Absent /\ target' = Absent =>
    \E s \in snapshots : /\ s.n = tool.backup /\ s.content.full
                         /\ s.content.base = target.base
                         /\ s.content.work <= target.work

SourceSurvives ==
  tool'.pc \in {"stop", "restore"} /\ tool'.command = "restore-dev" => tool'.source \in Numbers'

\* "No backup, no overwrite": what the working database held when the script saved it is
\* in a snapshot at the moment the database is dropped, and only edits made since then are
\* lost; and the backup that a restore takes first never costs the snapshot that is about
\* to be restored, however few are kept (refresh_dev_db.py:268-269, 660-666).
NothingIsLost == [][OverwrittenIsSaved /\ SourceSurvives]_vars
=============================================================================
