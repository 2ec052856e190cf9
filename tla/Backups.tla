------------------------------- MODULE Backups -------------------------------
(***************************************************************************)
(* The backups of the database: one script makes them, another removes the *)
(* old ones.                                                               *)
(*                                                                         *)
(* A backup is dumped into a temporary file that is renamed when it is     *)
(* whole, encrypted into a second file, if there is a key, and then loses  *)
(* its plain text.  The machine may go down at any point.  The pruning     *)
(* tells files by their names only, keeps the newest KEEP_MIN of them, and *)
(* may run at the same time.  Backups are made one after the other.        *)
(***************************************************************************)
EXTENDS Naturals, FiniteSets

CONSTANTS
    KEEP_MIN,    \* the newest files that pruning always keeps
    KEEP_DAYS,   \* the age in days beyond which it removes the others
    BackupRuns,  \* bound on the runs of backup.sh
    BackupDays   \* bound on the days that pass

Stamps == 1..BackupRuns

\* NAME-STAMP.dump and NAME-STAMP.dump.gpg
Files == Stamps \X {"dump", "gpg"}

\* Whether there is a key, and somewhere to upload to, is fixed by the environment.
Environments == [encrypt : BOOLEAN, upload : BOOLEAN]

\* Two, because the file of an encryption that was cut short is the newest one.
ASSUME BackupsAssumption ==
    /\ KEEP_MIN \in Nat /\ KEEP_MIN >= 2
    /\ KEEP_DAYS \in Nat
    /\ BackupRuns \in Nat
    /\ BackupDays \in Nat

VARIABLES
    environment,
    disk,      \* what is in the files of the backup directory
    written,   \* the day each was written
    date,      \* days since the first run
    run,       \* the run of backup.sh: its stamp and the step it is at
    doomed,    \* files that a run of prune.sh has still to look at
    remote,    \* files uploaded
    proven     \* history: some run ended well

backupVars == <<environment, disk, written, date, run, doomed, remote, proven>>

Steps == {"idle", "dump", "encrypt", "encrypting", "strip", "upload"}

BackupsTypeOK ==
    /\ environment \in Environments
    /\ disk \in [Files -> {"none", "cut", "whole"}]
    /\ written \in [Files -> 0..BackupDays]
    /\ date \in 0..BackupDays
    /\ run \in [stamp : 0..BackupRuns, step : Steps]
    /\ doomed \subseteq Files
    /\ remote \subseteq Files
    /\ proven \in BOOLEAN
    \* a dump has its final name only when it is whole
    /\ \A n \in Stamps : disk[<<n, "dump">>] # "cut"

BackupsInit ==
    /\ environment \in Environments
    /\ disk = [f \in Files |-> "none"]
    /\ written = [f \in Files |-> 0]
    /\ date = 0
    /\ run = [stamp |-> 0, step |-> "idle"]
    /\ doomed = {}
    /\ remote = {}
    /\ proven = FALSE

-----------------------------------------------------------------------------
(* backup.sh                                                               *)

\* The file a run is working on
Dump == <<run.stamp, "dump">>
Gpg  == <<run.stamp, "gpg">>

GoOn(step) == run' = [run EXCEPT !.step = step]

Put(f, content) ==
    /\ disk' = [disk EXCEPT ![f] = content]
    /\ written' = [written EXCEPT ![f] = date]

StartBackup ==
    /\ run.step = "idle" /\ run.stamp < BackupRuns
    /\ run' = [stamp |-> run.stamp + 1, step |-> "dump"]
    /\ UNCHANGED <<environment, disk, written, date, doomed, remote, proven>>

\* pg_dump has ended well, and its temporary file is renamed.
RenameDump ==
    /\ run.step = "dump"
    /\ Put(Dump, "whole")
    /\ GoOn(IF environment.encrypt THEN "encrypt" ELSE "upload")
    /\ UNCHANGED <<environment, date, doomed, remote, proven>>

\* gpg writes the encrypted file under its final name.
OpenGpg ==
    /\ run.step = "encrypt"
    /\ Put(Gpg, "cut")
    /\ GoOn("encrypting")
    /\ UNCHANGED <<environment, date, doomed, remote, proven>>

CloseGpg ==
    /\ run.step = "encrypting"
    /\ Put(Gpg, "whole")
    /\ GoOn("strip")
    /\ UNCHANGED <<environment, date, doomed, remote, proven>>

\* rm -f "$TARGET"
RemovePlainText ==
    /\ run.step = "strip"
    /\ disk' = [disk EXCEPT ![Dump] = "none"]
    /\ GoOn("upload")
    /\ UNCHANGED <<environment, written, date, doomed, remote, proven>>

\* The upload, if there is one, and exit 0
FinishBackup ==
    /\ run.step = "upload"
    /\ remote' = IF environment.upload THEN remote \cup {IF environment.encrypt THEN Gpg ELSE Dump}
                 ELSE remote
    /\ proven' = TRUE
    /\ GoOn("idle")
    /\ UNCHANGED <<environment, disk, written, date, doomed>>

\* A command fails and ends the script, or the machine goes down.
AbortBackup ==
    /\ run.step # "idle"
    /\ GoOn("idle")
    /\ UNCHANGED <<environment, disk, written, date, doomed, remote, proven>>

-----------------------------------------------------------------------------
(* prune.sh --apply                                                        *)

Present == {f \in Files : disk[f] # "none"}

\* sort -rn on the time of the last write
NewerThan(f, g) == f[1] > g[1] \/ (f[1] = g[1] /\ f[2] = "gpg" /\ g[2] = "dump")

\* A mistaken loop that goes by the age of a file alone.
NoneKept(f) == FALSE

\* (( i < KEEP_MIN ))
AmongNewest(f) == Cardinality({g \in Present : NewerThan(g, f)}) < KEEP_MIN

\* find -mtime "+KEEP_DAYS"
TooOld(f) == date - written[f] > KEEP_DAYS

ListFiles ==
    /\ doomed = {}
    /\ doomed' = {f \in Present : ~AmongNewest(f)}
    /\ doomed' # {}
    /\ UNCHANGED <<environment, disk, written, date, run, remote, proven>>

RemoveOld(f) ==
    /\ f \in doomed
    /\ TooOld(f)
    /\ disk' = [disk EXCEPT ![f] = "none"]
    /\ doomed' = doomed \ {f}
    /\ UNCHANGED <<environment, written, date, run, remote, proven>>

KeepRecent(f) ==
    /\ f \in doomed
    /\ ~TooOld(f)
    /\ doomed' = doomed \ {f}
    /\ UNCHANGED <<environment, disk, written, date, run, remote, proven>>

AbortPrune ==
    /\ doomed # {}
    /\ doomed' = {}
    /\ UNCHANGED <<environment, disk, written, date, run, remote, proven>>

NextDay ==
    /\ date < BackupDays
    /\ date' = date + 1
    /\ UNCHANGED <<environment, disk, written, run, doomed, remote, proven>>

-----------------------------------------------------------------------------
BackupStep == \/ StartBackup \/ RenameDump \/ OpenGpg \/ CloseGpg
              \/ RemovePlainText \/ FinishBackup \/ AbortBackup

PruneStep == ListFiles \/ (\E f \in Files : RemoveOld(f) \/ KeepRecent(f)) \/ AbortPrune

BackupsNext == BackupStep \/ PruneStep \/ NextDay

BackupsSpec == BackupsInit /\ [][BackupsNext]_backupVars

-----------------------------------------------------------------------------
(* Safety                                                                  *)

\* Once a backup has been made, a whole one stays on the disk through any number
\* of runs that fail or are cut short and any pruning between or beside them.
\* (backup.sh; "thà thừa còn hơn trắng tay", prune.sh)
AWholeBackupSurvives == proven => \E f \in Files : disk[f] = "whole"
=============================================================================
