-------------------------- MODULE DistributionManager --------------------------
(***************************************************************************)
(* Installation and rollback of the executable (syntavra_runtime/           *)
(* update_manager.py), by one process at a time that fails or dies between  *)
(* any two calls on files.  A file is the release it holds and its mtime;   *)
(* a copy that was cut short holds TornFile.                                *)
(***************************************************************************)
EXTENDS Integers

CONSTANTS
    Build,     \* contents, by their SHA-256
    TornFile,
    NoFile,
    MaxInstalls  \* bound

ASSUME DistributionAssumption ==
    TornFile \notin Build /\ NoFile \notin Build \cup {TornFile}

VARIABLES
    executable, \* the installed executable
    backups,    \* backups by the hash in their names
    stamp,      \* of the mtimes
    install,    \* where install is
    receipt,    \* the last receipt
    cut         \* whether a copy to a backup has ever been cut short

distributionVars == <<executable, backups, stamp, install, receipt, cut>>

-----------------------------------------------------------------------------
Nothing == [holds |-> NoFile, mtime |-> 0]
NotInstalling == [at |-> "none", artifact |-> NoFile, previous |-> NoFile, staged |-> Nothing]
NoReceipt == [status |-> "none", previous |-> NoFile, artifact |-> NoFile, installed |-> NoFile]

DistributionInit ==
    /\ executable = Nothing
    /\ backups = [h \in Build \cup {TornFile} |-> Nothing]
    /\ stamp = 0
    /\ install = NotInstalling
    /\ receipt = NoReceipt
    /\ cut = FALSE

InstallAt(at) == install' = [install EXCEPT !.at = at]
Backup == IF install.previous = NoFile THEN Nothing ELSE backups[install.previous]

\* install, with an artifact that has been verified.
BeginInstall(r) ==
    /\ install.at = "none" /\ stamp < MaxInstalls
    /\ install' = [NotInstalling EXCEPT !.at = "stage", !.artifact = r, !.previous = executable.holds]
    /\ stamp' = stamp + 1
    /\ receipt' = NoReceipt
    /\ UNCHANGED <<executable, backups, cut>>

\* copyfile, chmod and the comparison of hashes; what a failure leaves is removed.
Stage ==
    /\ install.at = "stage"
    /\ install' = [install EXCEPT !.at = "backup", !.staged = [holds |-> install.artifact, mtime |-> stamp]]
    /\ UNCHANGED <<executable, backups, stamp, receipt, cut>>

\* Fault: an existing backup of the same name is kept.
OtherBackup == IF Backup = Nothing THEN executable ELSE Backup

\* Fault: the staged file is copied to the backup.
CopiedStaged == install.staged

\* copy2 keeps the mtime.
Copied == executable

BackUp ==
    /\ install.at = "backup"
    /\ backups' = IF executable = Nothing THEN backups ELSE [backups EXCEPT ![install.previous] = Copied]
    /\ InstallAt("swap")
    /\ UNCHANGED <<executable, stamp, receipt, cut>>

BackUpFails ==
    /\ install.at = "backup" /\ executable # Nothing
    /\ backups' = [backups EXCEPT ![install.previous] = [holds |-> TornFile, mtime |-> stamp]]
    /\ cut' = TRUE
    /\ InstallAt("failed")
    /\ UNCHANGED <<executable, stamp, receipt>>

Swap ==
    /\ install.at = "swap"
    /\ executable' = install.staged
    /\ install' = [install EXCEPT !.at = "check", !.staged = Nothing]
    /\ UNCHANGED <<backups, stamp, receipt, cut>>

Receipt(status, file) ==
    [status |-> status, previous |-> install.previous, artifact |-> install.artifact, installed |-> file.holds]

\* The health check passes and the receipt is written.
Installed ==
    /\ install.at = "check"
    /\ receipt' = Receipt("installed", executable)
    /\ install' = NotInstalling
    /\ UNCHANGED <<executable, backups, stamp, cut>>

\* Any of the above raises, the health check among them.
InstallFails ==
    /\ install.at \in {"stage", "backup", "swap", "check"}
    /\ InstallAt("failed")
    /\ UNCHANGED <<executable, backups, stamp, receipt, cut>>

\* The handler: the backup goes back, or else what was installed is removed.
Restored ==
    IF Backup # Nothing THEN Backup
    ELSE IF executable.holds = install.artifact THEN Nothing ELSE executable

Restore ==
    /\ install.at = "failed"
    /\ executable' = Restored
    /\ backups' = IF Backup = Nothing THEN backups ELSE [backups EXCEPT ![install.previous] = Nothing]
    /\ receipt' = Receipt(IF Backup # Nothing \/ Restored # executable THEN "rolled-back" ELSE "failed", Restored)
    /\ install' = NotInstalling
    /\ UNCHANGED <<stamp, cut>>

InstallDies ==
    /\ install.at # "none"
    /\ install' = NotInstalling
    /\ UNCHANGED <<executable, backups, stamp, receipt, cut>>

Kept == {h \in Build \cup {TornFile} : backups[h] # Nothing}

\* rollback, to the newest backup or to one with an expected hash, which is verified.
Rollback(h) ==
    /\ install.at = "none"
    /\ h \in Kept
    /\ \/ \A k \in Kept : backups[k].mtime <= backups[h].mtime
       \/ backups[h].holds = h /\ h # TornFile
    /\ executable' = backups[h]
    /\ backups' = [backups EXCEPT ![h] = Nothing]
    /\ receipt' = NoReceipt
    /\ UNCHANGED <<stamp, install, cut>>

DistributionNext ==
    \/ \E r \in Build : BeginInstall(r)
    \/ Stage \/ BackUp \/ BackUpFails \/ Swap \/ Installed \/ InstallFails \/ Restore \/ InstallDies
    \/ \E h \in Build \cup {TornFile} : Rollback(h)

DistributionSpec == DistributionInit /\ [][DistributionNext]_distributionVars

-----------------------------------------------------------------------------
DistributionTypeOK ==
    /\ executable.holds \in Build \cup {TornFile, NoFile}
    /\ \A h \in DOMAIN backups : backups[h].holds \in {h, TornFile, NoFile}
    /\ install.artifact \in Build \cup {NoFile}
    /\ cut \in BOOLEAN

\* Whatever installations, failures, deaths and rollbacks came before: while a new
\* release is not yet known to be healthy, the release it replaces is whole in its
\* backup, under its own hash; and if no copy to a backup was ever cut short, no torn
\* file is installed, and an update to another release that fails leaves the release
\* that was installed.
UpdatesRecoverable ==
    /\ install.at = "check" /\ install.previous # NoFile => Backup.holds = install.previous
    /\ ~cut => /\ executable.holds # TornFile
               /\ receipt.status \in {"failed", "rolled-back"} /\ receipt.artifact # receipt.previous
                     => receipt.installed = receipt.previous

\* An installation that fails leaves what was installed ("atomic and
\* rollback-capable").
FailedInstallRestores ==
    receipt.status \in {"failed", "rolled-back"} => receipt.installed = receipt.previous
=============================================================================
