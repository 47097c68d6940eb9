------------------------------- MODULE Backups -------------------------------
(***************************************************************************)
(* The chain of database backups: the server's nightly dump                *)
(* (tools/server/signalmap-backup.sh, from cron) and the workstation's     *)
(* morning copy of what the server has (tools/local/pull_backup.py).       *)
(* Either may be killed at any point; a dump is named by the day it was    *)
(* taken on, and the workstation may be off for days.                      *)
(***************************************************************************)
EXTENDS Naturals, FiniteSets

CONSTANTS
  RetentionDays,  \* RETENTION_DAYS of the server, 14
  KeepDays,       \* KEEP_DAYS of the workstation, 90
  StaleDays,      \* STALE_HOURS, in days
  MaxClock,       \* bound: the model's horizon, in days
  MaxFaults       \* bound: failed commands and killed scripts

ASSUME DaysAreNaturals == {RetentionDays, KeepDays, StaleDays, MaxClock, MaxFaults} \subseteq Nat

\* A copy is kept longer than it takes to be called stale.
ASSUME KeptWhileFresh == StaleDays <= KeepDays

VARIABLES
  clock,   \* the day
  cron,    \* the day signalmap-backup.sh last started on
  server,  \* days of the dumps in /var/backups/signalmap
  local,   \* [days -> {"whole", "torn"}], the dumps in DEST
  pull,    \* Pull, pull_backup.py
  faults

backupVars == <<clock, cron, server, local, pull, faults>>

Days == 0..MaxClock

\* tmp is the file NAME.dump.tmp of the dump being fetched; code is the exit code of
\* the last finished call, 9 before there was one or after a kill.
Pull == [pc : {"idle", "list", "next", "fetch", "verify", "prune", "report"},
         listed : SUBSET Days, missing : SUBSET Days, failed : BOOLEAN,
         tmp : {"none", "torn", "whole"}, code : {0, 1, 2, 9}]

NotPulling == [pc |-> "idle", listed |-> {}, missing |-> {}, failed |-> FALSE,
               tmp |-> "none", code |-> 9]

Copies == UNION {[days -> {"whole", "torn"}] : days \in SUBSET Days}

BackupsTypeOK ==
  /\ clock \in Days
  /\ cron \in 0..MaxClock + 1
  /\ server \subseteq Days
  /\ local \in Copies
  /\ pull \in Pull
  /\ faults \in 0..MaxFaults

BackupsInit ==
  /\ clock = 0
  /\ cron = MaxClock + 1  \* never yet
  /\ server = {} /\ local = <<>>
  /\ pull = NotPulling
  /\ faults = 0

Oldest(days) == CHOOSE d \in days : \A e \in days : d <= e
Newest(days) == CHOOSE d \in days : \A e \in days : e <= d

\* A command fails, or a script is killed.
Fault == faults < MaxFaults /\ faults' = faults + 1

-----------------------------------------------------------------------------
(* signalmap-backup.sh *)

Unexpired(dumps) == {d \in dumps : clock - d <= RetentionDays}

\* Cron starts it once a day.  Nothing of a dump is seen until it verifies and the .tmp
\* file gets its name; only a run that wrote a new dump deletes old ones.
Backup ==
  /\ cron # clock
  /\ cron' = clock
  /\ server' = Unexpired(server \cup {clock})
  /\ UNCHANGED <<clock, local, pull, faults>>

\* `fail', or the server goes down, before or after the new dump gets its name.
BackupFails ==
  /\ cron # clock /\ Fault
  /\ cron' = clock
  /\ server' \in {server, server \cup {clock}}
  /\ UNCHANGED <<clock, local, pull>>

-----------------------------------------------------------------------------
(* pull_backup.py *)

PullStarts ==
  /\ pull.pc = "idle"
  /\ pull' = [NotPulling EXCEPT !.pc = "list"]
  /\ UNCHANGED <<clock, cron, server, local, faults>>

Exit(code) == pull' = [NotPulling EXCEPT !.code = code]

\* list_server_dumps; what is not here yet is to be fetched.
ListDumps ==
  /\ pull.pc = "list"
  /\ IF server = {} THEN Exit(2)
     ELSE pull' = [pull EXCEPT !.pc = "next", !.listed = server,
                               !.missing = server \ DOMAIN local]
  /\ UNCHANGED <<clock, cron, server, local, faults>>

ListFails ==
  /\ pull.pc = "list" /\ Fault
  /\ Exit(1)
  /\ UNCHANGED <<clock, cron, server, local>>

\* download: into NAME.tmp, over whatever an earlier call left there.
BeginDownload ==
  /\ pull.pc = "next" /\ pull.missing # {}
  /\ pull' = [pull EXCEPT !.pc = "fetch", !.tmp = "torn"]
  /\ UNCHANGED <<clock, cron, server, local, faults>>

Fetched ==
  /\ pull.pc = "fetch" /\ Oldest(pull.missing) \in server
  /\ pull' = [pull EXCEPT !.pc = "verify", !.tmp = "whole"]
  /\ UNCHANGED <<clock, cron, server, local, faults>>

\* The size and the header are right: the file gets its name.
KeepDump ==
  /\ pull.pc = "verify"
  /\ LET d == Oldest(pull.missing)
     IN  /\ local' = [e \in DOMAIN local \cup {d} |-> IF e = d THEN pull.tmp ELSE local[e]]
         /\ pull' = [pull EXCEPT !.pc = "next", !.missing = @ \ {d}, !.tmp = "none"]
  /\ UNCHANGED <<clock, cron, server, faults>>

\* Mutant: a failed transfer is not remembered.
DownloadFails_Forgotten ==
  /\ pull.pc \in {"fetch", "verify"}
  /\ \/ Oldest(pull.missing) \notin server /\ UNCHANGED faults
     \/ Fault
  /\ pull' = [pull EXCEPT !.pc = "next", !.missing = @ \ {Oldest(@)}, !.tmp = "none"]
  /\ UNCHANGED <<clock, cron, server, local>>

\* The transfer breaks off, does not verify, or the server has deleted the dump.
DownloadFails ==
  /\ pull.pc \in {"fetch", "verify"}
  /\ \/ Oldest(pull.missing) \notin server /\ UNCHANGED faults
     \/ Fault
  /\ pull' = [pull EXCEPT !.pc = "next", !.missing = @ \ {Oldest(@)}, !.tmp = "none",
                          !.failed = TRUE]
  /\ UNCHANGED <<clock, cron, server, local>>

AllFetched ==
  /\ pull.pc = "next" /\ pull.missing = {}
  /\ pull' = [pull EXCEPT !.pc = "prune"]
  /\ UNCHANGED <<clock, cron, server, local, faults>>

\* prune_local: by the date in the name.
PruneLocal ==
  /\ pull.pc = "prune"
  /\ local' = [d \in {e \in DOMAIN local : clock - e <= KeepDays} |-> local[d]]
  /\ pull' = [pull EXCEPT !.pc = "report"]
  /\ UNCHANGED <<clock, cron, server, faults>>

Report ==
  /\ pull.pc = "report"
  /\ Exit(IF pull.failed THEN 1
          ELSE IF clock - Newest(pull.listed) > StaleDays THEN 2 ELSE 0)
  /\ UNCHANGED <<clock, cron, server, local, faults>>

PullKilled ==
  /\ pull.pc # "idle" /\ Fault
  /\ pull' = NotPulling
  /\ UNCHANGED <<clock, cron, server, local>>

-----------------------------------------------------------------------------
NextDay ==
  /\ clock < MaxClock
  /\ clock' = clock + 1
  /\ UNCHANGED <<cron, server, local, pull, faults>>

ServerStep == Backup \/ BackupFails

PullStep ==
  \/ ListDumps \/ ListFails \/ BeginDownload \/ Fetched \/ KeepDump \/ DownloadFails
  \/ AllFetched \/ PruneLocal \/ Report \/ PullKilled

-----------------------------------------------------------------------------
(* Properties *)

\* Whenever the copy ends with code 0, "everything fine", there is a complete dump on
\* the workstation that is not stale: an interrupted or failed transfer, a dump that is
\* only listed, the deletion of old ones and a server whose cron has stopped each show
\* in the exit code (pull_backup.py:13-18, 88-93).
QuietMeansRecent ==
  [][pull.pc = "report" /\ pull'.code = 0 =>
       \E d \in DOMAIN local' : local'[d] = "whole" /\ clock - d <= StaleDays]_backupVars

=============================================================================
