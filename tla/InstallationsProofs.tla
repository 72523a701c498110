-------------------------- MODULE InstallationsProofs --------------------------
(* Proofs about what a machine keeps between two versions: the executable    *)
(* and its backups, the migrated database, these with the configuration of   *)
(* another program, and the provider proxy; for any number of releases,      *)
(* versions, processes, connections, slots and restarts.                     *)
EXTENDS MCInstallations, ProviderProxy, HostInstallationProofs, FiniteSetTheorems,
        WellFoundedInduction, TLAPS

-----------------------------------------------------------------------------
(* The update manager: an installation that may still fail has the release it *)
(* replaces, installed or whole in its backup.                                *)

Holdable == Build \cup {TornFile, NoFile}
File == [holds : Holdable, mtime : Nat]
Hash == Build \cup {TornFile}

\* A file that is there holds something.
WholeRecord(file) == file \in File /\ (file.holds = NoFile => file = Nothing)

FilesTyped ==
    /\ stamp \in Nat /\ cut \in BOOLEAN
    /\ WholeRecord(executable)
    /\ backups \in [Hash -> File]
    /\ \A h \in Hash : WholeRecord(backups[h]) /\ backups[h].holds \in {h, TornFile, NoFile}

InstallTyped ==
    /\ install \in [at : {"none", "stage", "backup", "swap", "check", "failed"},
                    artifact : Build \cup {NoFile}, previous : Holdable, staged : File]
    /\ install.at # "none" => install.artifact \in Build
    /\ install.at \in {"backup", "swap"} => install.staged.holds = install.artifact

\* What is installed is written to its backup before it is replaced.
Saved == install.previous # NoFile => Backup.holds = install.previous

InstallSteps ==
    /\ install.at \in {"stage", "backup", "swap"} => executable.holds = install.previous
    /\ install.at \in {"swap", "check"} => Saved
    /\ install.at = "check" => executable.holds = install.artifact
    /\ install.at = "failed" => \/ executable.holds = install.previous
                                \/ executable.holds = install.artifact /\ Saved

NothingTorn ==
    ~cut => /\ executable.holds # TornFile
            /\ install.at # "none" => install.previous # TornFile
            /\ \A h \in Hash : backups[h].holds # TornFile

ReceiptTellsTruth ==
    ~cut /\ receipt.status \in {"failed", "rolled-back"} /\ receipt.artifact # receipt.previous
        => receipt.installed = receipt.previous

DistributionInv ==
    FilesTyped /\ InstallTyped /\ InstallSteps /\ NothingTorn /\ ReceiptTellsTruth

\* The backup of what an installation replaces.
LEMMA BackupIs ==
    ASSUME FilesTyped, InstallTyped
    PROVE  /\ WholeRecord(Backup) /\ Backup.holds \in {install.previous, TornFile, NoFile}
           /\ install.previous # NoFile => install.previous \in Hash /\ Backup = backups[install.previous]
           /\ Backup # Nothing => install.previous # NoFile
<1>1. WholeRecord(Nothing) /\ Nothing.holds = NoFile
  BY DEF WholeRecord, Nothing, File, Holdable
<1>2. install.previous # NoFile => install.previous \in Hash
  BY DEF InstallTyped, Holdable, Hash
<1>3. QED
  BY <1>1, <1>2 DEF Backup, FilesTyped

LEMMA DistributionInitInv == DistributionInit => DistributionInv
<1> SUFFICES ASSUME DistributionInit PROVE DistributionInv
  OBVIOUS
<1>1. WholeRecord(Nothing) /\ Nothing.holds = NoFile /\ Nothing \in File
  BY DEF WholeRecord, Nothing, File, Holdable
<1>2. FilesTyped
  BY <1>1 DEF DistributionInit, FilesTyped, Hash
<1>3. InstallTyped /\ InstallSteps
  BY <1>1 DEF DistributionInit, InstallTyped, InstallSteps, NotInstalling, Holdable
<1>4. NothingTorn /\ ReceiptTellsTruth
  BY <1>1, DistributionAssumption
  DEF DistributionInit, NothingTorn, ReceiptTellsTruth, NotInstalling, NoReceipt, Hash
<1>5. QED
  BY <1>2, <1>3, <1>4 DEF DistributionInv

\* A step of an installation that leaves the files and the receipt alone.
LEMMA InstallMoves ==
    ASSUME DistributionInv, executable' = executable, backups' = backups, cut' = cut,
           receipt' = receipt, stamp' = stamp, InstallTyped', InstallSteps',
           install'.at # "none" => install.at # "none" /\ install'.previous = install.previous
    PROVE  DistributionInv'
BY DEF DistributionInv, FilesTyped, NothingTorn, ReceiptTellsTruth

LEMMA BeginInstallStep ==
    ASSUME DistributionInv, NEW r \in Build, BeginInstall(r) PROVE DistributionInv'
<1> USE DEF DistributionInv
<1>1. /\ install'.at = "stage" /\ install'.artifact = r
      /\ install'.previous = executable.holds /\ install'.staged = Nothing
      /\ install' = [at |-> "stage", artifact |-> r, previous |-> executable.holds, staged |-> Nothing]
  BY DEF BeginInstall, NotInstalling
<1>2. Nothing \in File /\ executable.holds \in Holdable
  BY DEF Nothing, File, Holdable, FilesTyped, WholeRecord
<1>3. FilesTyped'
  BY DEF BeginInstall, FilesTyped
<1>4. InstallTyped' /\ InstallSteps'
  BY <1>1, <1>2 DEF BeginInstall, InstallTyped, InstallSteps
<1>5. NothingTorn' /\ ReceiptTellsTruth'
  BY <1>1 DEF BeginInstall, NothingTorn, ReceiptTellsTruth, NoReceipt
<1>6. QED
  BY <1>3, <1>4, <1>5

LEMMA StageStep == ASSUME DistributionInv, Stage PROVE DistributionInv'
<1>1. /\ install.at = "stage" /\ install'.at = "backup" /\ install'.artifact = install.artifact
      /\ install'.previous = install.previous
      /\ install'.staged = [holds |-> install.artifact, mtime |-> stamp]
  BY DEF Stage, DistributionInv, InstallTyped
<1>2. InstallTyped'
  BY <1>1 DEF Stage, DistributionInv, InstallTyped, FilesTyped, File, Holdable
<1>3. InstallSteps'
  BY <1>1 DEF Stage, DistributionInv, InstallSteps
<1>4. QED
  BY <1>1, <1>2, <1>3, InstallMoves DEF Stage

LEMMA BackUpStep == ASSUME DistributionInv, BackUp PROVE DistributionInv'
<1> USE DEF DistributionInv
<1>1. /\ install.at = "backup" /\ install'.at = "swap" /\ install'.artifact = install.artifact
      /\ install'.previous = install.previous /\ install'.staged = install.staged
  BY DEF BackUp, InstallAt, InstallTyped
<1>2. InstallTyped'
  BY <1>1 DEF BackUp, InstallAt, InstallTyped
<1>3. executable.holds = install.previous /\ WholeRecord(executable)
  BY <1>1 DEF InstallSteps, FilesTyped
<1>4. CASE executable = Nothing
  <2>1. install.previous = NoFile /\ backups' = backups
    BY <1>3, <1>4 DEF BackUp, Nothing
  <2>2. InstallSteps'
    BY <1>1, <1>3, <2>1 DEF BackUp, InstallSteps, Saved
  <2>3. QED
    BY <1>1, <1>2, <2>1, <2>2, InstallMoves DEF BackUp
<1>5. CASE executable # Nothing
  <2>1. install.previous \in Hash /\ install.previous # NoFile
    BY <1>3, <1>5, BackupIs DEF WholeRecord
  <2>2. backups' = [backups EXCEPT ![install.previous] = executable]
    BY <1>5 DEF BackUp, Copied
  <2>3. /\ backups' \in [Hash -> File] /\ backups'[install.previous] = executable
        /\ \A h \in Hash \ {install.previous} : backups'[h] = backups[h]
    BY <1>3, <2>1, <2>2 DEF FilesTyped, WholeRecord
  <2>4. FilesTyped'
    BY <1>3, <2>3 DEF BackUp, FilesTyped
  <2>5. InstallSteps'
    BY <1>1, <1>3, <2>1, <2>3 DEF BackUp, InstallSteps, Saved, Backup
  <2>6. NothingTorn' /\ ReceiptTellsTruth'
    BY <1>1, <2>3 DEF BackUp, NothingTorn, ReceiptTellsTruth
  <2>7. QED
    BY <1>2, <2>4, <2>5, <2>6
<1>6. QED
  BY <1>4, <1>5

LEMMA BackUpFailsStep == ASSUME DistributionInv, BackUpFails PROVE DistributionInv'
<1> USE DEF DistributionInv
<1>1. /\ install.at = "backup" /\ install'.at = "failed" /\ install'.artifact = install.artifact
      /\ install'.previous = install.previous /\ install'.staged = install.staged
  BY DEF BackUpFails, InstallAt, InstallTyped
<1>2. InstallTyped'
  BY <1>1 DEF BackUpFails, InstallAt, InstallTyped
<1>3. /\ executable.holds = install.previous /\ install.previous # NoFile
      /\ install.previous \in Hash
  BY <1>1, BackupIs DEF BackUpFails, InstallSteps, FilesTyped, WholeRecord
<1>4. DEFINE torn == [holds |-> TornFile, mtime |-> stamp]
<1>5. torn \in File /\ torn.holds = TornFile /\ TornFile # NoFile
  BY DistributionAssumption DEF File, Holdable, FilesTyped
<1> HIDE DEF torn
<1>6. backups' = [backups EXCEPT ![install.previous] = torn]
  BY DEF BackUpFails, torn
<1>7. FilesTyped'
  BY <1>3, <1>5, <1>6 DEF BackUpFails, FilesTyped, WholeRecord
<1>8. InstallSteps'
  BY <1>1, <1>3 DEF BackUpFails, InstallSteps
<1>9. NothingTorn' /\ ReceiptTellsTruth'
  BY DEF BackUpFails, NothingTorn, ReceiptTellsTruth
<1>10. QED
  BY <1>2, <1>7, <1>8, <1>9

LEMMA SwapStep == ASSUME DistributionInv, Swap PROVE DistributionInv'
<1> USE DEF DistributionInv
<1>1. /\ install.at = "swap" /\ install'.at = "check" /\ install'.artifact = install.artifact
      /\ install'.previous = install.previous /\ install'.staged = Nothing
      /\ executable' = install.staged
  BY DEF Swap, InstallTyped
<1>2. install.staged \in File /\ install.staged.holds = install.artifact /\ install.artifact \in Build
  BY <1>1 DEF InstallTyped
<1>3. install.artifact # NoFile /\ install.artifact # TornFile /\ Nothing \in File
  BY <1>2, DistributionAssumption DEF Nothing, File, Holdable
<1>4. FilesTyped'
  BY <1>1, <1>2, <1>3 DEF Swap, FilesTyped, WholeRecord
<1>5. InstallTyped'
  BY <1>1, <1>2, <1>3 DEF Swap, InstallTyped
<1>6. InstallSteps'
  BY <1>1, <1>2 DEF Swap, InstallSteps, Saved, Backup
<1>7. NothingTorn' /\ ReceiptTellsTruth'
  BY <1>1, <1>2, <1>3 DEF Swap, NothingTorn, ReceiptTellsTruth
<1>8. QED
  BY <1>4, <1>5, <1>6, <1>7

\* The installation is over, or fails: nothing moves but where it is.
LEMMA InstallEndsStep ==
    ASSUME DistributionInv, Installed \/ InstallFails \/ InstallDies PROVE DistributionInv'
<1> USE DEF DistributionInv
<1>1. CASE InstallFails
  <2>1. /\ install.at \in {"stage", "backup", "swap", "check"} /\ install'.at = "failed"
        /\ install'.artifact = install.artifact /\ install'.previous = install.previous
    BY <1>1 DEF InstallFails, InstallAt, InstallTyped
  <2>2. InstallTyped'
    BY <1>1, <2>1 DEF InstallFails, InstallAt, InstallTyped
  <2>3. InstallSteps'
    BY <1>1, <2>1 DEF InstallFails, InstallSteps, Saved, Backup
  <2>4. QED
    BY <1>1, <2>1, <2>2, <2>3, InstallMoves DEF InstallFails
<1>2. CASE Installed \/ InstallDies
  <2>1. install' = NotInstalling /\ install'.at = "none"
    BY <1>2 DEF Installed, InstallDies, NotInstalling
  <2>2. InstallTyped' /\ InstallSteps'
    BY <2>1 DEF InstallTyped, InstallSteps, NotInstalling, Nothing, File, Holdable
  <2>3. FilesTyped' /\ NothingTorn'
    BY <1>2, <2>1 DEF Installed, InstallDies, FilesTyped, NothingTorn
  <2>4. ReceiptTellsTruth'
    BY <1>2 DEF Installed, InstallDies, ReceiptTellsTruth, Receipt
  <2>5. QED
    BY <2>2, <2>3, <2>4
<1>3. QED
  BY <1>1, <1>2

LEMMA RestoreStep == ASSUME DistributionInv, Restore PROVE DistributionInv'
<1> USE DEF DistributionInv
<1>1. /\ install.at = "failed" /\ install' = NotInstalling /\ install'.at = "none"
      /\ executable' = Restored /\ stamp' = stamp /\ cut' = cut
  BY DEF Restore, NotInstalling
<1>2. InstallTyped' /\ InstallSteps'
  BY <1>1 DEF InstallTyped, InstallSteps, NotInstalling, Nothing, File, Holdable
<1>3. WholeRecord(Nothing) /\ Nothing.holds = NoFile /\ Nothing \in File
  BY DEF WholeRecord, Nothing, File, Holdable
<1>4. WholeRecord(Restored)
  BY <1>3, BackupIs DEF Restored, FilesTyped
<1>5. /\ backups' \in [Hash -> File]
      /\ \A h \in Hash : backups'[h] \in {backups[h], Nothing}
  BY <1>3, BackupIs DEF Restore, FilesTyped
<1>6. FilesTyped'
  BY <1>1, <1>3, <1>4, <1>5 DEF FilesTyped
<1>7. ASSUME ~cut
      PROVE  /\ Restored.holds # TornFile
             /\ \A h \in Hash : backups'[h].holds # TornFile
             /\ install.artifact # install.previous => Restored.holds = install.previous
  <2>1. /\ executable.holds # TornFile /\ install.previous # TornFile /\ NoFile # TornFile
        /\ \A h \in Hash : backups[h].holds # TornFile
    BY <1>1, <1>7, DistributionAssumption DEF NothingTorn
  <2>2. Backup # Nothing => Backup.holds = install.previous
    BY <2>1, BackupIs DEF WholeRecord
  <2>3. \/ executable.holds = install.previous
        \/ executable.holds = install.artifact /\ (install.previous # NoFile => Backup.holds = install.previous)
    BY <1>1 DEF InstallSteps, Saved
  <2>4. QED
    BY <1>3, <1>5, <2>1, <2>2, <2>3 DEF Restored
<1>8. NothingTorn'
  BY <1>1, <1>7 DEF NothingTorn
<1>9. /\ receipt'.previous = install.previous /\ receipt'.artifact = install.artifact
      /\ receipt'.installed = Restored.holds
  BY DEF Restore, Receipt
<1>10. ReceiptTellsTruth'
  BY <1>1, <1>7, <1>9 DEF ReceiptTellsTruth
<1>11. QED
  BY <1>2, <1>6, <1>8, <1>10

LEMMA RollbackStep ==
    ASSUME DistributionInv, NEW h \in Hash, Rollback(h) PROVE DistributionInv'
<1> USE DEF DistributionInv
<1>1. WholeRecord(Nothing) /\ Nothing.holds = NoFile /\ Nothing \in File /\ NoFile # TornFile
  BY DistributionAssumption DEF WholeRecord, Nothing, File, Holdable
<1>2. /\ install.at = "none" /\ install' = install /\ stamp' = stamp /\ cut' = cut
      /\ executable' = backups[h] /\ backups' = [backups EXCEPT ![h] = Nothing]
      /\ receipt'.status = "none"
  BY DEF Rollback, NoReceipt
<1>3. FilesTyped'
  BY <1>1, <1>2 DEF FilesTyped
<1>4. InstallTyped' /\ InstallSteps'
  BY <1>2 DEF InstallTyped, InstallSteps
<1>5. NothingTorn' /\ ReceiptTellsTruth'
  BY <1>1, <1>2 DEF NothingTorn, ReceiptTellsTruth, FilesTyped
<1>6. QED
  BY <1>3, <1>4, <1>5

LEMMA DistributionStep ==
    ASSUME DistributionInv, [DistributionNext]_distributionVars PROVE DistributionInv'
<1>1. CASE UNCHANGED distributionVars
  BY <1>1 DEF distributionVars, DistributionInv, FilesTyped, InstallTyped, InstallSteps, Saved,
              Backup, NothingTorn, ReceiptTellsTruth
<1>2. CASE DistributionNext
  BY <1>2, BeginInstallStep, StageStep, BackUpStep, BackUpFailsStep, SwapStep, InstallEndsStep,
     RestoreStep, RollbackStep DEF DistributionNext, Hash
<1>3. QED
  BY <1>1, <1>2

LEMMA DistributionInvariant == DistributionSpec => []DistributionInv
<1>1. DistributionInv /\ [DistributionNext]_distributionVars => DistributionInv'
  BY DistributionStep
<1>2. QED
  BY <1>1, DistributionInitInv, PTL DEF DistributionSpec

\* An executable that has not passed its health check can be taken back, whatever
\* installations, failures, deaths and rollbacks came before; and as long as no copy
\* to a backup was cut short, a failed update leaves the release that was installed.
THEOREM UpdatesAlwaysRecoverable == DistributionSpec => []UpdatesRecoverable
<1>1. ASSUME DistributionInv PROVE UpdatesRecoverable
  BY <1>1 DEF DistributionInv, InstallSteps, Saved, NothingTorn, ReceiptTellsTruth,
              UpdatesRecoverable
<1>2. QED
  BY <1>1, DistributionInvariant, PTL

\* Files hold releases; what is kept under a hash holds that release, if it is whole.
THEOREM DistributionTypeCorrect == DistributionSpec => []DistributionTypeOK
<1>1. DistributionInv => DistributionTypeOK
  BY DEF DistributionInv, FilesTyped, InstallTyped, WholeRecord, File, Holdable, Hash,
         DistributionTypeOK
<1>2. QED
  BY <1>1, DistributionInvariant, PTL

-----------------------------------------------------------------------------
(* Migrations.                                                                *)

Recorded ==
    [applied : SUBSET Version, user_version : 0 .. LatestVersion, ran : [Version -> Nat],
     patched : BOOLEAN]

\* What a database records has run on it, once; without gaps, unless a call has
\* committed to it that a restore had overtaken.
WholeDatabase(db) ==
    /\ db \in Recorded
    /\ \A v \in Version : db.ran[v] = IF v \in db.applied THEN 1 ELSE 0
    /\ ~db.patched => \E v \in 0 .. LatestVersion : db.applied = 1 .. v

MigrationState ==
    [at : {"none", "backup", "open", "apply", "replaced", "check", "restore"},
     current : 0 .. LatestVersion, target : 0 .. LatestVersion, backup : Recorded,
     overtaken : BOOLEAN]

\* The plan of a call that no restore has overtaken fits a database without gaps; once
\* it has committed, its migrations are there.
PlanHolds(state, db) ==
    /\ state.at \in {"backup", "open", "apply"} /\ ~state.overtaken /\ ~db.patched
          => 1 .. state.current \subseteq db.applied
    /\ state.at = "check" /\ ~state.overtaken
          => state.current + 1 .. state.target \subseteq db.applied
    /\ state.at = "replaced" => state.overtaken

MigrationInv ==
    /\ WholeDatabase(database)
    /\ \A db \in kept : WholeDatabase(db)
    /\ migrating \in [Migrator -> MigrationState]
    /\ \A m \in Migrator : /\ WholeDatabase(migrating[m].backup)
                           /\ PlanHolds(migrating[m], database)

-----------------------------------------------------------------------------
\* The highest of some versions.
LEMMA HighestVersion ==
    ASSUME NEW S \in SUBSET Version, S # {}
    PROVE  \E v \in S : \A w \in S : w <= v
<1> DEFINE below == {LatestVersion - v : v \in S}
<1>1. below \in SUBSET Nat /\ below # {}
  <2>1. ASSUME NEW v \in S PROVE LatestVersion - v \in Nat
    BY MigrationAssumption DEF Version
  <2>2. QED
    BY <2>1
<1>2. PICK n \in below : \A k \in below : n <= k
  <2> HIDE DEF below
  <2>1. PICK n \in below : \A k \in below : ~(<<k, n>> \in OpToRel(<, Nat))
    BY <1>1, WFMin, NatLessThanWellFounded
  <2>2. ASSUME NEW k \in below PROVE n <= k
    <3>1. k \in Nat /\ n \in Nat
      BY <1>1
    <3>2. k < n => <<k, n>> \in OpToRel(<, Nat)
      BY <3>1 DEF OpToRel
    <3>3. ~(<<k, n>> \in OpToRel(<, Nat))
      BY <2>1
    <3>4. ~(k < n)
      BY <3>2, <3>3
    <3>5. QED
      BY <3>1, <3>4
  <2>3. QED
    BY <2>2
<1>3. PICK v \in S : n = LatestVersion - v
  BY <1>2
<1>4. ASSUME NEW w \in S PROVE w <= v
  <2>1. n <= LatestVersion - w
    BY <1>2
  <2>2. QED
    BY <1>3, <2>1, MigrationAssumption DEF Version
<1>5. QED
  BY <1>4

\* The current version is the highest that is recorded.
LEMMA CurrentFacts ==
    ASSUME NEW db \in Recorded
    PROVE  /\ CurrentVersion(db) \in 0 .. LatestVersion
           /\ \A v \in 0 .. LatestVersion : db.applied = 1 .. v => CurrentVersion(db) = v
<1>1. db.applied \in SUBSET Version
  BY DEF Recorded
<1>2. CASE db.applied = {}
  <2>1. CurrentVersion(db) = 0
    BY <1>2 DEF CurrentVersion
  <2>2. \A v \in 0 .. LatestVersion : db.applied = 1 .. v => v = 0
    <3>1. ASSUME NEW v \in 0 .. LatestVersion, v # 0 PROVE 1 \in 1 .. v
      BY <3>1, MigrationAssumption
    <3>2. QED
      BY <1>2, <3>1
  <2>3. QED
    BY <2>1, <2>2, MigrationAssumption
<1>3. CASE db.applied # {}
  <2>1. \E v \in db.applied : \A w \in db.applied : w <= v
    BY <1>1, <1>3, HighestVersion
  <2>2. CurrentVersion(db) = CHOOSE v \in db.applied : \A w \in db.applied : w <= v
    BY <1>3 DEF CurrentVersion
  <2>3. /\ CurrentVersion(db) \in db.applied
        /\ \A w \in db.applied : w <= CurrentVersion(db)
    BY <2>1, <2>2
  <2>4. ASSUME NEW v \in 0 .. LatestVersion, db.applied = 1 .. v PROVE CurrentVersion(db) = v
    <3>1. v \in 1 .. v
      BY <1>3, <2>4, MigrationAssumption
    <3>2. v <= CurrentVersion(db) /\ CurrentVersion(db) \in 1 .. v
      BY <2>3, <2>4, <3>1
    <3>3. QED
      BY <3>2, MigrationAssumption
  <2>5. QED
    BY <1>1, <2>3, <2>4, MigrationAssumption DEF Version
<1>4. QED
  BY <1>2, <1>3

LEMMA InitWhole ==
    /\ WholeDatabase(Empty)
    /\ NotMigrating \in MigrationState /\ NotMigrating.at = "none" /\ NotMigrating.backup = Empty
<1>1. Empty \in Recorded
  BY MigrationAssumption DEF Empty, Recorded
<1>2. Empty.applied = 1 .. 0
  BY DEF Empty
<1>3. QED
  BY <1>1, <1>2, MigrationAssumption DEF WholeDatabase, Empty, NotMigrating, MigrationState

LEMMA MigrationInitInv == MigrationInit => MigrationInv
BY InitWhole DEF MigrationInit, MigrationInv, PlanHolds

\* One process moves on; the database stays, or gains what this process has planned.
LEMMA MigratorStep ==
    ASSUME MigrationInv, NEW m \in Migrator, NEW new \in MigrationState,
           migrating' = [migrating EXCEPT ![m] = new],
           WholeDatabase(database'), database.applied \subseteq database'.applied,
           database.patched => database'.patched,
           \A db \in kept' : WholeDatabase(db),
           WholeDatabase(new.backup), PlanHolds(new, database')
    PROVE  MigrationInv'
<1>1. migrating \in [Migrator -> MigrationState]
  BY DEF MigrationInv
<1>2. /\ migrating' \in [Migrator -> MigrationState]
      /\ \A n \in Migrator : migrating'[n] = IF n = m THEN new ELSE migrating[n]
  BY <1>1
<1>3. ASSUME NEW n \in Migrator
      PROVE  WholeDatabase(migrating'[n].backup) /\ PlanHolds(migrating'[n], database')
  <2>1. CASE n = m
    BY <1>2, <2>1
  <2>2. CASE n # m
    <3>1. migrating'[n] = migrating[n] /\ PlanHolds(migrating[n], database)
      BY <1>2, <2>2 DEF MigrationInv
    <3>2. PlanHolds(migrating[n], database')
      BY <3>1 DEF PlanHolds
    <3>3. QED
      BY <3>1, <3>2 DEF MigrationInv
  <2>3. QED
    BY <2>1, <2>2
<1>4. QED
  BY <1>2, <1>3 DEF MigrationInv

LEMMA PlanStep ==
    ASSUME MigrationInv, NEW m \in Migrator, NEW goal \in Version, PlanMigration(m, goal)
    PROVE  MigrationInv'
<1> DEFINE v == CurrentVersion(database)
           new == [NotMigrating EXCEPT !.at = "backup", !.current = v, !.target = goal]
<1>1. /\ migrating' = [migrating EXCEPT ![m] = new]
      /\ database' = database /\ kept' = kept
  BY DEF PlanMigration
<1>2. database \in Recorded /\ v \in 0 .. LatestVersion /\ goal \in 0 .. LatestVersion
  BY CurrentFacts, MigrationAssumption DEF MigrationInv, WholeDatabase, Version
<1>3. ~database.patched => 1 .. v \subseteq database.applied
  BY <1>2, CurrentFacts DEF MigrationInv, WholeDatabase
<1>4. /\ new \in MigrationState /\ new.at = "backup" /\ new.current = v
      /\ new.backup = Empty
  BY <1>2, InitWhole DEF NotMigrating, MigrationState
<1> HIDE DEF new
<1>5. PlanHolds(new, database')
  BY <1>1, <1>3, <1>4 DEF PlanHolds
<1>6. QED
  BY <1>1, <1>4, <1>5, InitWhole, MigratorStep DEF MigrationInv

\* A call moves on to its next step without touching the database.
LEMMA MigratorMovesStep ==
    ASSUME MigrationInv, NEW m \in Migrator,
           \/ BackUpDatabase(m) \/ OpenDatabase(m) \/ ApplyToReplaced(m) \/ MigrationFails(m)
    PROVE  MigrationInv'
<1>1. database' = database /\ kept' \in {kept, kept \cup {database}}
  BY DEF BackUpDatabase, OpenDatabase, ApplyToReplaced, MigrationFails
<1>2. /\ migrating \in [Migrator -> MigrationState] /\ migrating[m] \in MigrationState
      /\ WholeDatabase(database) /\ WholeDatabase(migrating[m].backup)
      /\ PlanHolds(migrating[m], database)
  BY DEF MigrationInv
<1>3. PICK at \in {"open", "apply", "check", "restore"}, backup \in {database, migrating[m].backup} :
         /\ migrating' = [migrating EXCEPT ![m] = [migrating[m] EXCEPT !.at = at, !.backup = backup]]
         /\ at \in {"open", "apply"} => migrating[m].at \in {"backup", "open"}
         /\ at = "check" => migrating[m].at = "replaced"
  <2>1. ASSUME NEW at, NEW backup
        PROVE  /\ [migrating EXCEPT ![m].at = at, ![m].backup = backup]
                  = [migrating EXCEPT ![m] = [migrating[m] EXCEPT !.at = at, !.backup = backup]]
               /\ [migrating EXCEPT ![m].at = at]
                  = [migrating EXCEPT ![m] = [migrating[m] EXCEPT !.at = at,
                                                                 !.backup = migrating[m].backup]]
    BY <1>2 DEF MigrationState
  <2>2. QED
    BY <2>1 DEF BackUpDatabase, OpenDatabase, ApplyToReplaced, MigrationFails
<1> DEFINE new == [migrating[m] EXCEPT !.at = at, !.backup = backup]
<1>4. /\ new \in MigrationState /\ new.at = at /\ new.backup = backup
      /\ new.current = migrating[m].current /\ new.target = migrating[m].target
      /\ new.overtaken = migrating[m].overtaken
  BY <1>2, <1>3 DEF MigrationState, WholeDatabase
<1> HIDE DEF new
<1>5. PlanHolds(new, database')
  BY <1>1, <1>2, <1>3, <1>4 DEF PlanHolds
<1>6. migrating' = [migrating EXCEPT ![m] = new]
  BY <1>3 DEF new
<1>7. \A db \in kept' : WholeDatabase(db)
  BY <1>1 DEF MigrationInv
<1>8. QED
  BY <1>1, <1>2, <1>3, <1>4, <1>5, <1>6, <1>7, MigratorStep

\* The transaction applies what is still due.
LEMMA ApplyStep ==
    ASSUME MigrationInv, NEW m \in Migrator, ApplyMigrations(m)
    PROVE  MigrationInv'
<1> DEFINE new == [migrating[m] EXCEPT !.at = "check"]
           c == migrating[m].current
           t == migrating[m].target
<1>1. /\ migrating[m].at = "apply" /\ kept' = kept
      /\ migrating' = [migrating EXCEPT ![m].at = "check"]
      /\ database' = [applied |-> database.applied \cup Planned(m), user_version |-> t,
                      ran |-> [x \in Version |-> database.ran[x] + IF x \in Due(m) THEN 1 ELSE 0],
                      patched |-> database.patched \/ migrating[m].overtaken]
  BY DEF ApplyMigrations
<1>2. /\ migrating \in [Migrator -> MigrationState] /\ migrating[m] \in MigrationState
      /\ WholeDatabase(migrating[m].backup) /\ PlanHolds(migrating[m], database)
      /\ WholeDatabase(database) /\ database \in Recorded
  BY DEF MigrationInv, WholeDatabase
<1>3. c \in 0 .. LatestVersion /\ t \in 0 .. LatestVersion /\ migrating[m].overtaken \in BOOLEAN
  BY <1>2 DEF MigrationState
<1>4. Planned(m) = c + 1 .. t /\ Planned(m) \subseteq Version
  BY <1>3, MigrationAssumption DEF Planned, Version
<1>5. database'.applied = database.applied \cup Planned(m) /\ database'.applied \subseteq Version
  BY <1>1, <1>2, <1>4 DEF Recorded
<1>6. database' \in Recorded
  <2>1. /\ database.ran \in [Version -> Nat] /\ database.applied \subseteq Version
        /\ database.patched \in BOOLEAN
    BY <1>2 DEF Recorded
  <2>2. [x \in Version |-> database.ran[x] + IF x \in Due(m) THEN 1 ELSE 0] \in [Version -> Nat]
    BY <2>1
  <2>3. (database.patched \/ migrating[m].overtaken) \in BOOLEAN
    OBVIOUS
  <2>4. database.applied \cup Planned(m) \in SUBSET Version
    BY <1>4, <2>1
  <2>5. QED
    BY <1>1, <1>3, <2>2, <2>3, <2>4 DEF Recorded
<1>7. ASSUME NEW x \in Version
      PROVE  database'.ran[x] = IF x \in database'.applied THEN 1 ELSE 0
  <2>1. database.ran[x] = IF x \in database.applied THEN 1 ELSE 0
    BY <1>2 DEF WholeDatabase
  <2>2. database'.ran[x] = database.ran[x] + IF x \in Due(m) THEN 1 ELSE 0
    BY <1>1
  <2>3. QED
    BY <1>5, <2>1, <2>2 DEF Due
<1>8. ASSUME ~database'.patched
      PROVE  \E v \in 0 .. LatestVersion : database'.applied = 1 .. v
  <2>1. ~database.patched /\ ~migrating[m].overtaken
    BY <1>1, <1>8
  <2>2. PICK w \in 0 .. LatestVersion : database.applied = 1 .. w
    BY <1>2, <2>1 DEF WholeDatabase
  <2>3. 1 .. c \subseteq 1 .. w
    BY <1>1, <1>2, <2>1, <2>2 DEF PlanHolds
  <2>4. c <= w
    BY <1>3, <2>3, MigrationAssumption
  <2>5. 1 .. w \cup (c + 1 .. t) = 1 .. (IF t > w THEN t ELSE w)
    BY <1>3, <2>4, MigrationAssumption
  <2>6. QED
    BY <1>3, <1>4, <1>5, <2>2, <2>5
<1>9. WholeDatabase(database')
  BY <1>6, <1>7, <1>8 DEF WholeDatabase
<1>10. /\ new \in MigrationState /\ new.at = "check" /\ new.backup = migrating[m].backup
       /\ new.current = c /\ new.target = t
  BY <1>2 DEF MigrationState
<1>11. migrating' = [migrating EXCEPT ![m] = new]
  BY <1>1, <1>2 DEF MigrationState
<1>12. /\ database.applied \subseteq database'.applied
       /\ database.patched => database'.patched
       /\ \A db \in kept' : WholeDatabase(db)
  BY <1>1, <1>5 DEF MigrationInv
<1> HIDE DEF new
<1>13. PlanHolds(new, database')
  BY <1>4, <1>5, <1>10 DEF PlanHolds
<1>14. QED
  BY <1>2, <1>9, <1>10, <1>11, <1>12, <1>13, MigratorStep

LEMMA MigrationEndsStep ==
    ASSUME MigrationInv, NEW m \in Migrator, MigrationSucceeds(m) \/ MigrationDies(m)
    PROVE  MigrationInv'
<1>1. /\ migrating' = [migrating EXCEPT ![m] = NotMigrating] /\ database' = database
      /\ kept' = kept
  BY DEF MigrationSucceeds, MigrationDies
<1>2. PlanHolds(NotMigrating, database')
  BY InitWhole DEF PlanHolds
<1>3. QED
  BY <1>1, <1>2, InitWhole, MigratorStep DEF MigrationInv

\* A restore overtakes the calls of all others.
LEMMA OvertakeStep ==
    ASSUME MigrationInv, WholeDatabase(database'), kept' = kept, NEW S \in SUBSET Migrator,
           migrating' = [n \in Migrator |-> IF n \in S THEN NotMigrating ELSE Overtake(migrating[n])]
    PROVE  MigrationInv'
<1>1. ASSUME NEW n \in Migrator
      PROVE  /\ migrating'[n] \in MigrationState /\ WholeDatabase(migrating'[n].backup)
             /\ PlanHolds(migrating'[n], database')
  <2>1. migrating[n] \in MigrationState /\ WholeDatabase(migrating[n].backup)
    BY DEF MigrationInv
  <2>2. CASE migrating'[n] = NotMigrating
    BY <2>2, InitWhole DEF PlanHolds
  <2>3. CASE migrating'[n] # NotMigrating
    <3> DEFINE at == IF migrating[n].at = "apply" THEN "replaced" ELSE migrating[n].at
    <3>1. migrating'[n] = [migrating[n] EXCEPT !.at = at, !.overtaken = TRUE]
      BY <2>3 DEF Overtake
    <3>2. /\ migrating'[n] \in MigrationState /\ migrating'[n].overtaken
          /\ migrating'[n].backup = migrating[n].backup
      BY <2>1, <3>1 DEF MigrationState
    <3>3. QED
      BY <2>1, <3>2 DEF PlanHolds
  <2>4. QED
    BY <2>2, <2>3
<1>2. migrating' \in [Migrator -> MigrationState]
  <2>1. \E f : migrating' = [n \in Migrator |-> f[n]]
    <3>1. WITNESS [n \in Migrator |-> IF n \in S THEN NotMigrating ELSE Overtake(migrating[n])]
    <3>2. QED
      OBVIOUS
  <2>2. QED
    BY <1>1, <2>1
<1>3. QED
  BY <1>1, <1>2 DEF MigrationInv

LEMMA MigratorRestoreStep ==
    ASSUME MigrationInv, NEW m \in Migrator, RestoreBackup(m)
    PROVE  MigrationInv'
<1>1. migrating' = [n \in Migrator |-> IF n \in {m} THEN NotMigrating ELSE Overtake(migrating[n])]
  BY DEF RestoreBackup
<1>2. WholeDatabase(database') /\ kept' = kept /\ {m} \in SUBSET Migrator
  BY DEF RestoreBackup, MigrationInv
<1>3. QED
  BY <1>1, <1>2, OvertakeStep

LEMMA MigrationRollbackStep == ASSUME MigrationInv, RollbackMigration PROVE MigrationInv'
<1>1. migrating' = [n \in Migrator |-> IF n \in {} THEN NotMigrating ELSE Overtake(migrating[n])]
  BY DEF RollbackMigration
<1>2. WholeDatabase(database') /\ kept' = kept /\ {} \in SUBSET Migrator
  BY DEF RollbackMigration, MigrationInv
<1>3. QED
  BY <1>1, <1>2, OvertakeStep

LEMMA MigrationStep ==
    ASSUME MigrationInv, [MigrationNext]_migrationVars
    PROVE  MigrationInv'
<1>1. CASE UNCHANGED migrationVars
  BY <1>1 DEF migrationVars, MigrationInv
<1>2. CASE RollbackMigration
  BY <1>2, MigrationRollbackStep
<1>3. ASSUME NEW m \in Migrator, NEW goal \in Version, PlanMigration(m, goal)
      PROVE  MigrationInv'
  BY <1>3, PlanStep
<1>4. ASSUME NEW m \in Migrator,
             \/ BackUpDatabase(m) \/ OpenDatabase(m) \/ ApplyMigrations(m) \/ ApplyToReplaced(m)
             \/ MigrationSucceeds(m) \/ MigrationFails(m) \/ RestoreBackup(m) \/ MigrationDies(m)
      PROVE  MigrationInv'
  BY <1>4, MigratorMovesStep, ApplyStep, MigrationEndsStep, MigratorRestoreStep
<1>5. QED
  BY <1>1, <1>2, <1>3, <1>4 DEF MigrationNext

LEMMA MigrationInvariant == MigrationSpec => []MigrationInv
<1>1. MigrationInv /\ [MigrationNext]_migrationVars => MigrationInv'
  BY MigrationStep
<1>2. QED
  BY MigrationInitInv, <1>1, PTL DEF MigrationSpec

-----------------------------------------------------------------------------
\* However many processes have planned the same migrations, fail and restore their
\* backups beside each other, and whatever an operator rolls back meanwhile: each
\* migration has run once on the database that records it; after all the earlier ones,
\* unless a call that a restore had overtaken has committed; and what a call has
\* committed is there until somebody restores.
THEOREM EachMigrationOnce == MigrationSpec => []MigratedOnce
<1>1. ASSUME MigrationInv PROVE MigratedOnce
  <2>1. ~database.patched => database.applied = 1 .. CurrentVersion(database)
    BY <1>1, CurrentFacts DEF MigrationInv, WholeDatabase
  <2>2. ASSUME NEW m \in Migrator, migrating[m].at = "check", ~migrating[m].overtaken
        PROVE  Planned(m) \subseteq database.applied
    BY <1>1, <2>2 DEF MigrationInv, PlanHolds, Planned
  <2>3. QED
    BY <1>1, <2>1, <2>2 DEF MigrationInv, WholeDatabase, MigratedOnce
<1>2. QED
  BY <1>1, MigrationInvariant, PTL

-----------------------------------------------------------------------------
(* Admission and shutdown of the provider proxy.  The slots of a server and   *)
(* the counter of requests are related to the threads that hold them.         *)

ConnectionState == [at : {"closed", "open", "request"}, server : Nat]

ProxyTyped ==
    /\ server \in [number : 0 .. MaxStarts, listens : BOOLEAN]
    /\ slots \in Nat /\ accepting \in BOOLEAN /\ active \in Nat
    /\ conn \in [Connection -> ConnectionState]
    /\ stopping \in [at : {"none", "drain", "stop"}, late : BOOLEAN]

\* The accept loop is at one client at a time, which has no thread.
LoopAccepts ==
    \/ accepted = {}
    \/ \E c \in Connection : accepted = {c} /\ conn[c] = NotConnected /\ server.listens

\* Threads belong to servers that have been started.
ThreadsStarted ==
    /\ server.listens => server.number >= 1
    /\ \A c \in Connection : conn[c].at # "closed" => conn[c].server \in 1 .. server.number

SlotsCounted ==
    \A n \in Nat : /\ Cardinality(Threads(n)) <= MaxConcurrent
                   /\ n = server.number => slots + Cardinality(Threads(n)) <= MaxConcurrent

\* A proxy that is being stopped admits nothing, so that drained it stays.
StoppingRefuses ==
    /\ stopping.at # "none" => server.listens /\ ~accepting
    /\ stopping.at = "stop" /\ ~stopping.late => InRequest = {}

ProxyInv ==
    /\ ProxyTyped /\ LoopAccepts /\ ThreadsStarted /\ SlotsCounted /\ StoppingRefuses
    /\ active = Cardinality(InRequest)

-----------------------------------------------------------------------------
LEMMA ThreadsFinite ==
    /\ \A n : IsFiniteSet(Threads(n)) /\ Cardinality(Threads(n)) \in Nat
    /\ IsFiniteSet(InRequest) /\ Cardinality(InRequest) \in 0 .. Cardinality(Connection)
<1>1. ASSUME NEW S \in SUBSET Connection
      PROVE  IsFiniteSet(S) /\ Cardinality(S) \in 0 .. Cardinality(Connection)
  BY ProxyAssumption, FS_Subset, FS_CardinalityType
<1>2. InRequest \in SUBSET Connection /\ \A n : Threads(n) \in SUBSET Connection
  BY DEF InRequest, Threads
<1>3. QED
  BY <1>1, <1>2

LEMMA ProxyInitInv == ProxyInit => ProxyInv
<1> SUFFICES ASSUME ProxyInit PROVE ProxyInv
  OBVIOUS
<1>1. /\ server = [number |-> 0, listens |-> FALSE] /\ slots = 0 /\ accepting = TRUE /\ active = 0
      /\ conn = [c \in Connection |-> NotConnected] /\ stopping = NotStopping /\ accepted = {}
  BY DEF ProxyInit
<1>2. ProxyTyped
  BY <1>1, ProxyAssumption DEF ProxyTyped, ConnectionState, NotConnected, NotStopping
<1>3. (\A n : Threads(n) = {}) /\ InRequest = {}
  BY <1>1 DEF Threads, InRequest, NotConnected
<1>4. Cardinality({}) = 0
  BY FS_EmptySet
<1>5. SlotsCounted
  <2>1. ASSUME NEW n \in Nat
        PROVE  Cardinality(Threads(n)) = 0 /\ slots + Cardinality(Threads(n)) = 0
    BY <1>1, <1>3, <1>4
  <2>2. 0 <= MaxConcurrent
    BY ProxyAssumption
  <2>3. QED
    BY <2>1, <2>2 DEF SlotsCounted
<1>6. LoopAccepts /\ ThreadsStarted /\ StoppingRefuses
  BY <1>1 DEF LoopAccepts, ThreadsStarted, StoppingRefuses, NotConnected, NotStopping
<1>7. QED
  BY <1>1, <1>2, <1>3, <1>4, <1>5, <1>6 DEF ProxyInv

\* Steps that change no connection.
LEMMA SameConnections ==
    ASSUME UNCHANGED conn
    PROVE  (\A n : Threads(n)' = Threads(n)) /\ InRequest' = InRequest
  BY DEF Threads, InRequest

LEMMA ServerStep ==
    ASSUME ProxyInv, StartProxy \/ Shutdown \/ DrainTimesOut \/ StopListening \/ StopServer
    PROVE  ProxyInv'
<1>1. /\ ProxyTyped /\ LoopAccepts /\ ThreadsStarted /\ SlotsCounted /\ StoppingRefuses
      /\ active = Cardinality(InRequest)
  BY DEF ProxyInv
<1>2. UNCHANGED <<conn, active>>
  BY DEF StartProxy, Shutdown, DrainTimesOut, StopListening, StopServer
<1>3. (\A n : Threads(n)' = Threads(n)) /\ InRequest' = InRequest
  BY <1>2, SameConnections
<1>4. active' = Cardinality(InRequest')
  BY <1>1, <1>2, <1>3
<1>5. CASE StartProxy
  <2>1. /\ ~server.listens /\ stopping = NotStopping /\ server.number < MaxStarts
        /\ accepting' = TRUE /\ server' = [number |-> server.number + 1, listens |-> TRUE]
        /\ slots' = MaxConcurrent /\ UNCHANGED stopping
    BY <1>5 DEF StartProxy
  <2>2. server.number \in Nat /\ server'.number = server.number + 1
    BY <1>1, <2>1 DEF ProxyTyped
  <2>3. \A n \in Nat : n = server.number + 1 => Threads(n) = {}
    BY <1>1, <2>2 DEF Threads, ThreadsStarted
  <2>4. Cardinality({}) = 0
    BY FS_EmptySet
  <2>5. ProxyTyped'
    BY <1>1, <1>2, <2>1, ProxyAssumption DEF ProxyTyped, NotStopping
  <2>6. ThreadsStarted'
    BY <1>1, <1>2, <2>1, <2>2 DEF ThreadsStarted
  <2>7. SlotsCounted'
    <3> SUFFICES ASSUME NEW n \in Nat
                 PROVE  /\ Cardinality(Threads(n)') <= MaxConcurrent
                        /\ n = server'.number => slots' + Cardinality(Threads(n)') <= MaxConcurrent
      BY DEF SlotsCounted
    <3>1. Cardinality(Threads(n)') <= MaxConcurrent
      BY <1>1, <1>3 DEF SlotsCounted
    <3>2. n = server'.number => Threads(n)' = {}
      BY <1>3, <2>2, <2>3
    <3>3. QED
      BY <2>1, <2>4, <3>1, <3>2, ProxyAssumption
  <2>8. StoppingRefuses'
    BY <2>1 DEF StoppingRefuses, NotStopping
  <2>9. LoopAccepts'
    BY <1>1, <1>2, <1>5, <2>1 DEF StartProxy, LoopAccepts
  <2>10. QED
    BY <1>4, <2>5, <2>6, <2>7, <2>8, <2>9 DEF ProxyInv
<1>6. CASE Shutdown \/ DrainTimesOut \/ StopListening \/ StopServer
  <2>1. server'.number = server.number /\ slots' = slots
    BY <1>1, <1>6 DEF ProxyTyped, Shutdown, DrainTimesOut, StopListening, StopServer
  <2>2. ProxyTyped'
    <3>1. CASE Shutdown
      BY <1>1, <3>1 DEF ProxyTyped, Shutdown
    <3>2. CASE DrainTimesOut \/ StopListening
      <4>1. UNCHANGED <<server, slots, accepting>>
        BY <3>2 DEF DrainTimesOut, StopListening
      <4>2. stopping' \in [at : {"none", "drain", "stop"}, late : BOOLEAN]
        BY <1>1, <3>2 DEF ProxyTyped, DrainTimesOut, StopListening
      <4>3. QED
        BY <1>1, <1>2, <4>1, <4>2 DEF ProxyTyped
    <3>3. CASE StopServer
      BY <1>1, <1>2, <3>3 DEF ProxyTyped, StopServer, NotStopping
    <3>4. QED
      BY <1>6, <3>1, <3>2, <3>3
  <2>3. ThreadsStarted'
    <3>1. server'.listens => server.listens
      BY <1>1, <1>6 DEF ProxyTyped, Shutdown, DrainTimesOut, StopListening, StopServer
    <3>2. QED
      BY <1>1, <1>2, <2>1, <3>1 DEF ThreadsStarted
  <2>4. SlotsCounted'
    BY <1>1, <1>3, <2>1 DEF SlotsCounted
  <2>5. StoppingRefuses'
    <3>1. CASE Shutdown
      BY <1>1, <3>1 DEF Shutdown, StoppingRefuses, ProxyTyped
    <3>2. CASE DrainTimesOut
      BY <1>1, <3>2 DEF DrainTimesOut, StoppingRefuses, ProxyTyped
    <3>3. CASE StopListening
      <4>1. /\ stopping.at = "drain" /\ Drained /\ stopping' = [stopping EXCEPT !.at = "stop"]
            /\ UNCHANGED <<server, accepting>>
        BY <3>3 DEF StopListening
      <4>2. active = 0 => InRequest = {}
        BY <1>1, FS_EmptySet, ThreadsFinite
      <4>3. stopping'.late = stopping.late /\ (active = 0 \/ stopping.late)
        BY <1>1, <4>1 DEF ProxyTyped, Drained
      <4>4. QED
        BY <1>1, <1>3, <4>1, <4>2, <4>3 DEF StoppingRefuses
    <3>4. CASE StopServer
      BY <1>1, <3>4 DEF StopServer, StoppingRefuses, NotStopping
    <3>5. QED
      BY <1>6, <3>1, <3>2, <3>3, <3>4
  <2>6. LoopAccepts'
    <3>1. CASE StopServer
      BY <3>1 DEF StopServer, LoopAccepts
    <3>2. CASE ~StopServer
      BY <1>1, <1>2, <1>6, <3>2 DEF Shutdown, DrainTimesOut, StopListening, LoopAccepts
    <3>3. QED
      BY <3>1, <3>2
  <2>7. QED
    BY <1>4, <2>2, <2>3, <2>4, <2>5, <2>6 DEF ProxyInv
<1>7. QED
  BY <1>5, <1>6

\* Steps of a connection change the threads of one server by that connection.
LEMMA ConnectionMoves ==
    ASSUME ProxyInv, NEW c \in Connection, NEW new \in ConnectionState,
           conn' = [conn EXCEPT ![c] = new]
    PROVE  /\ conn' \in [Connection -> ConnectionState]
           /\ conn'[c] = new /\ \A d \in Connection \ {c} : conn'[d] = conn[d]
           /\ \A n : Threads(n)' = IF new.at # "closed" /\ new.server = n
                                  THEN Threads(n) \cup {c} ELSE Threads(n) \ {c}
           /\ InRequest' = IF new.at = "request" THEN InRequest \cup {c} ELSE InRequest \ {c}
<1>1. conn \in [Connection -> ConnectionState]
  BY DEF ProxyInv, ProxyTyped
<1>2. /\ conn' \in [Connection -> ConnectionState]
      /\ conn'[c] = new /\ \A d \in Connection \ {c} : conn'[d] = conn[d]
  BY <1>1
<1>3. QED
  BY <1>2 DEF Threads, InRequest

\* A set of threads with one more or one less.
LEMMA OneThread ==
    ASSUME NEW n, NEW c
    PROVE  /\ Cardinality(Threads(n) \cup {c}) =
                 IF c \in Threads(n) THEN Cardinality(Threads(n)) ELSE Cardinality(Threads(n)) + 1
           /\ Cardinality(Threads(n) \ {c}) =
                 IF c \in Threads(n) THEN Cardinality(Threads(n)) - 1 ELSE Cardinality(Threads(n))
  BY ThreadsFinite, FS_AddElement, FS_RemoveElement

LEMMA ServeStep ==
    ASSUME ProxyInv, NEW c \in Connection, ServeConnection(c)
    PROVE  ProxyInv'
<1> DEFINE new == [at |-> "open", server |-> server.number]
<1>1. /\ ProxyTyped /\ LoopAccepts /\ ThreadsStarted /\ SlotsCounted /\ StoppingRefuses
      /\ active = Cardinality(InRequest)
  BY DEF ProxyInv
<1>2. /\ server.listens /\ conn[c] = NotConnected /\ slots > 0 /\ slots' = slots - 1
      /\ conn' = [conn EXCEPT ![c] = new] /\ accepted' = {}
      /\ server' = server /\ accepting' = accepting /\ active' = active /\ stopping' = stopping
  BY <1>1 DEF ServeConnection, LoopAccepts
<1>3. new \in ConnectionState /\ server.number \in Nat /\ slots \in Nat
  BY <1>1 DEF ConnectionState, ProxyTyped
<1>4. /\ conn' \in [Connection -> ConnectionState]
      /\ conn'[c] = new /\ \A d \in Connection \ {c} : conn'[d] = conn[d]
      /\ \A n : Threads(n)' = IF new.at # "closed" /\ new.server = n
                             THEN Threads(n) \cup {c} ELSE Threads(n) \ {c}
      /\ InRequest' = IF new.at = "request" THEN InRequest \cup {c} ELSE InRequest \ {c}
  <2> HIDE DEF new
  <2>1. QED
    BY <1>2, <1>3, ConnectionMoves
<1>5. c \notin InRequest /\ \A n : c \notin Threads(n)
  BY <1>2 DEF InRequest, Threads, NotConnected
<1>6. InRequest' = InRequest /\ active' = Cardinality(InRequest')
  BY <1>1, <1>2, <1>4, <1>5
<1>7. SlotsCounted'
  <2> SUFFICES ASSUME NEW n \in Nat
               PROVE  /\ Cardinality(Threads(n)') <= MaxConcurrent
                      /\ n = server'.number => slots' + Cardinality(Threads(n)') <= MaxConcurrent
    BY DEF SlotsCounted
  <2>1. /\ Cardinality(Threads(n)) <= MaxConcurrent /\ Cardinality(Threads(n)) \in Nat
        /\ n = server.number => slots + Cardinality(Threads(n)) <= MaxConcurrent
    BY <1>1, ThreadsFinite DEF SlotsCounted
  <2>2. CASE n = server.number
    <3>1. Threads(n)' = Threads(n) \cup {c}
      BY <1>4, <2>2
    <3>2. Cardinality(Threads(n)') = Cardinality(Threads(n)) + 1
      BY <1>5, <3>1, OneThread
    <3>3. QED
      BY <1>2, <1>3, <2>1, <2>2, <3>2, ProxyAssumption
  <2>3. CASE n # server.number
    <3>1. Threads(n)' = Threads(n)
      BY <1>4, <1>5, <2>3
    <3>2. QED
      BY <1>2, <2>1, <2>3, <3>1
  <2>4. QED
    BY <2>2, <2>3
<1>8. ProxyTyped'
  BY <1>1, <1>2, <1>3, <1>4 DEF ProxyTyped
<1>9. ThreadsStarted'
  BY <1>1, <1>2, <1>3, <1>4 DEF ThreadsStarted
<1>10. LoopAccepts' /\ StoppingRefuses'
  BY <1>1, <1>2, <1>6 DEF LoopAccepts, StoppingRefuses
<1>11. QED
  BY <1>6, <1>7, <1>8, <1>9, <1>10 DEF ProxyInv

\* The accept loop takes a client, or is done with it without a thread.
LEMMA AcceptStep ==
    ASSUME ProxyInv, NEW c \in Connection,
           AcceptConnection(c) \/ ThreadFails(c) \/ DropConnection(c)
    PROVE  ProxyInv'
<1>1. /\ ProxyTyped /\ LoopAccepts /\ ThreadsStarted /\ SlotsCounted /\ StoppingRefuses
      /\ active = Cardinality(InRequest)
  BY DEF ProxyInv
<1>2. /\ slots' = slots \/ (slots > 0 /\ slots' = slots - 1)
      /\ UNCHANGED <<server, accepting, active, conn, stopping>>
  BY DEF AcceptConnection, ThreadFails, DropConnection
<1>3. (\A n : Threads(n)' = Threads(n)) /\ InRequest' = InRequest
  BY <1>2, SameConnections
<1>4. slots \in Nat /\ \A n : Cardinality(Threads(n)) \in Nat
  BY <1>1, ThreadsFinite DEF ProxyTyped
<1>5. SlotsCounted'
  BY <1>1, <1>2, <1>3, <1>4, ProxyAssumption DEF SlotsCounted
<1>6. ProxyTyped' /\ ThreadsStarted' /\ StoppingRefuses'
  BY <1>1, <1>2, <1>3 DEF ProxyTyped, ThreadsStarted, StoppingRefuses
<1>7. LoopAccepts'
  BY <1>2 DEF AcceptConnection, ThreadFails, DropConnection, LoopAccepts
<1>8. QED
  BY <1>1, <1>2, <1>3, <1>5, <1>6, <1>7 DEF ProxyInv

\* A thread enters or leaves a request: the threads stay, the counter follows.
LEMMA RequestStep ==
    ASSUME ProxyInv, NEW c \in Connection, EnterRequest(c) \/ ExitRequest(c)
    PROVE  ProxyInv'
<1> DEFINE new == [conn[c] EXCEPT !.at = IF EnterRequest(c) THEN "request" ELSE "open"]
<1>1. /\ ProxyTyped /\ LoopAccepts /\ ThreadsStarted /\ SlotsCounted /\ StoppingRefuses
      /\ active = Cardinality(InRequest)
  BY DEF ProxyInv
<1>2. /\ conn[c].at \in {"open", "request"} /\ conn' = [conn EXCEPT ![c] = new]
      /\ UNCHANGED <<server, accepted, slots, accepting, stopping>>
  BY DEF EnterRequest, ExitRequest
<1>3. conn[c] \in ConnectionState
  BY <1>1 DEF ProxyTyped
<1>4. /\ new \in ConnectionState /\ new.at \in {"open", "request"} /\ new.server = conn[c].server
      /\ new.at = "request" <=> EnterRequest(c)
  BY <1>3 DEF ConnectionState
<1>5. /\ conn' \in [Connection -> ConnectionState]
      /\ conn'[c] = new /\ \A d \in Connection \ {c} : conn'[d] = conn[d]
      /\ InRequest' = IF new.at = "request" THEN InRequest \cup {c} ELSE InRequest \ {c}
  BY <1>2, <1>4, ConnectionMoves
<1>6. \A n : Threads(n)' = Threads(n)
  BY <1>2, <1>4, <1>5 DEF Threads
<1>7. active' = Cardinality(InRequest')
  <2>1. CASE EnterRequest(c)
    <3>1. active' = active + 1 /\ c \notin InRequest
      BY <2>1 DEF EnterRequest, InRequest
    <3>2. Cardinality(InRequest \cup {c}) = Cardinality(InRequest) + 1
      BY <3>1, ThreadsFinite, FS_AddElement
    <3>3. QED
      BY <1>1, <1>4, <1>5, <2>1, <3>1, <3>2
  <2>2. CASE ~EnterRequest(c)
    <3>1. active' = Left(active) /\ c \in InRequest
      BY <2>2 DEF ExitRequest, InRequest
    <3>2. Cardinality(InRequest \ {c}) = Cardinality(InRequest) - 1 /\ Cardinality(InRequest) \in Nat
      BY <3>1, ThreadsFinite, FS_RemoveElement, FS_CardinalityType
    <3>3. Cardinality(InRequest) # 0
      BY <3>1, ThreadsFinite, FS_EmptySet
    <3>4. QED
      BY <1>1, <1>4, <1>5, <2>2, <3>1, <3>2, <3>3 DEF Left
  <2>3. QED
    BY <2>1, <2>2
<1>8. active' \in Nat
  BY <1>1, <1>2 DEF ProxyTyped, EnterRequest, ExitRequest, Left
<1>9. ProxyTyped'
  BY <1>1, <1>2, <1>5, <1>8 DEF ProxyTyped
<1>10. ThreadsStarted'
  BY <1>1, <1>2, <1>4, <1>5 DEF ThreadsStarted
<1>11. SlotsCounted'
  BY <1>1, <1>2, <1>6 DEF SlotsCounted
<1>12. StoppingRefuses'
  <2>1. EnterRequest(c) => stopping.at = "none"
    BY <1>1 DEF EnterRequest, Admits, StoppingRefuses, ProxyTyped
  <2>2. ~EnterRequest(c) => InRequest' \subseteq InRequest
    BY <1>4, <1>5
  <2>3. QED
    BY <1>1, <1>2, <2>1, <2>2 DEF StoppingRefuses
<1>13. LoopAccepts'
  BY <1>1, <1>2, <1>5 DEF LoopAccepts, NotConnected
<1>14. QED
  BY <1>7, <1>9, <1>10, <1>11, <1>12, <1>13 DEF ProxyInv

LEMMA CloseStep ==
    ASSUME ProxyInv, NEW c \in Connection, CloseConnection(c)
    PROVE  ProxyInv'
<1>1. /\ ProxyTyped /\ LoopAccepts /\ ThreadsStarted /\ SlotsCounted /\ StoppingRefuses
      /\ active = Cardinality(InRequest)
  BY DEF ProxyInv
<1>2. /\ conn[c].at = "open" /\ slots' = Released(c) /\ conn' = [conn EXCEPT ![c] = NotConnected]
      /\ server' = server /\ accepting' = accepting /\ active' = active /\ stopping' = stopping
      /\ accepted' = accepted
  BY DEF CloseConnection
<1>3. NotConnected \in ConnectionState /\ NotConnected.at = "closed" /\ slots \in Nat /\ server.number \in Nat
  BY <1>1 DEF NotConnected, ConnectionState, ProxyTyped
<1>4. /\ conn' \in [Connection -> ConnectionState]
      /\ conn'[c] = NotConnected /\ \A d \in Connection \ {c} : conn'[d] = conn[d]
      /\ \A n : Threads(n)' = Threads(n) \ {c}
      /\ InRequest' = InRequest \ {c}
  BY <1>2, <1>3, ConnectionMoves
<1>5. InRequest' = InRequest /\ active' = Cardinality(InRequest')
  BY <1>1, <1>2, <1>4 DEF InRequest
<1>6. SlotsCounted'
  <2> SUFFICES ASSUME NEW n \in Nat
               PROVE  /\ Cardinality(Threads(n)') <= MaxConcurrent
                      /\ n = server'.number => slots' + Cardinality(Threads(n)') <= MaxConcurrent
    BY DEF SlotsCounted
  <2>1. /\ Cardinality(Threads(n)) <= MaxConcurrent /\ Cardinality(Threads(n)) \in Nat
        /\ n = server.number => slots + Cardinality(Threads(n)) <= MaxConcurrent
    BY <1>1, ThreadsFinite DEF SlotsCounted
  <2>2. /\ Threads(n)' = Threads(n) \ {c}
        /\ conn[c].server = n => c \in Threads(n)
    BY <1>2, <1>4 DEF Threads
  <2>3. Cardinality(Threads(n)') =
           IF c \in Threads(n) THEN Cardinality(Threads(n)) - 1 ELSE Cardinality(Threads(n))
    BY <2>2, OneThread
  <2>4. slots' = IF conn[c].server = server.number THEN slots + 1 ELSE slots
    BY <1>2 DEF Released
  <2>5. QED
    BY <1>2, <1>3, <2>1, <2>2, <2>3, <2>4, ProxyAssumption
<1>7. ProxyTyped'
  BY <1>1, <1>2, <1>3, <1>4 DEF ProxyTyped, Released
<1>8. ThreadsStarted'
  BY <1>1, <1>2, <1>3, <1>4 DEF ThreadsStarted
<1>9. LoopAccepts' /\ StoppingRefuses'
  BY <1>1, <1>2, <1>4, <1>5 DEF LoopAccepts, StoppingRefuses
<1>10. QED
  BY <1>5, <1>6, <1>7, <1>8, <1>9 DEF ProxyInv

LEMMA ProxyStep ==
    ASSUME ProxyInv, [ProxyNext]_proxyVars
    PROVE  ProxyInv'
<1>1. CASE UNCHANGED proxyVars
  BY <1>1 DEF proxyVars, ProxyInv, ProxyTyped, LoopAccepts, ThreadsStarted, SlotsCounted, StoppingRefuses,
              Threads, InRequest
<1>2. CASE StartProxy \/ Shutdown \/ DrainTimesOut \/ StopListening \/ StopServer
  BY <1>2, ServerStep
<1>3. ASSUME NEW c \in Connection,
             \/ AcceptConnection(c) \/ ServeConnection(c) \/ ThreadFails(c) \/ DropConnection(c)
             \/ EnterRequest(c) \/ ExitRequest(c) \/ CloseConnection(c)
      PROVE  ProxyInv'
  BY <1>3, AcceptStep, ServeStep, CloseStep, RequestStep
<1>4. QED
  BY <1>1, <1>2, <1>3 DEF ProxyNext

LEMMA ProxyInvariant == ProxySpec => []ProxyInv
<1>1. ProxyInv /\ [ProxyNext]_proxyVars => ProxyInv'
  BY ProxyStep
<1>2. QED
  BY ProxyInitInv, <1>1, PTL DEF ProxySpec

-----------------------------------------------------------------------------
(* The server, its accept loop, slots, counter and connections keep their     *)
(* types.                                                                    *)
THEOREM ProxyTypeCorrect == ProxySpec => []ProxyTypeOK
<1>1. ASSUME ProxyInv PROVE ProxyTypeOK
  <2>1. slots \in 0 .. MaxConcurrent
    <3>1. Cardinality(Threads(server.number)) \in Nat
      BY ThreadsFinite
    <3>2. server.number \in Nat /\ slots \in Nat
      BY <1>1 DEF ProxyInv, ProxyTyped
    <3>3. slots + Cardinality(Threads(server.number)) <= MaxConcurrent
      BY <1>1, <3>2 DEF ProxyInv, SlotsCounted
    <3>4. QED
      BY <3>1, <3>2, <3>3, ProxyAssumption
  <2>2. active \in 0 .. Cardinality(Connection)
    BY <1>1, ThreadsFinite DEF ProxyInv
  <2>3. /\ server.number \in 0 .. MaxStarts /\ stopping.at \in {"none", "drain", "stop"}
        /\ \A c \in Connection : conn[c] \in ConnectionState
    BY <1>1 DEF ProxyInv, ProxyTyped
  <2>4. accepted \subseteq Connection /\ Cardinality(accepted) <= 1
    <3>1. CASE accepted = {}
      BY <3>1, FS_EmptySet
    <3>2. CASE accepted # {}
      <4>1. PICK c \in Connection : accepted = {c}
        BY <1>1, <3>2 DEF ProxyInv, LoopAccepts
      <4>2. QED
        <5>1. Cardinality({c}) = 1
          BY FS_Singleton
        <5>2. QED
          BY <4>1, <5>1
    <3>3. QED
      BY <3>1, <3>2
  <2>5. QED
    BY <2>1, <2>2, <2>3, <2>4 DEF ProxyTypeOK, ConnectionState
<1>2. QED
  BY <1>1, ProxyInvariant, PTL

(* No server ever has more threads than max_concurrent_requests, also while   *)
(* those of earlier servers live on and threads fail to start.               *)
THEOREM LoadAlwaysBounded == ProxySpec => []LoadBounded
<1>1. ProxyInv => LoadBounded
  BY DEF ProxyInv, ProxyTyped, SlotsCounted, LoadBounded
<1>2. QED
  BY <1>1, ProxyInvariant, PTL

(* The counter of active requests is exact, and a server that stops in time   *)
(* stops when no request is under way.                                       *)
THEOREM StopsOnlyDrained == ProxySpec => []StopsDrained
<1>1. ProxyInv => StopsDrained
  BY DEF ProxyInv, StoppingRefuses, StopsDrained
<1>2. QED
  BY <1>1, ProxyInvariant, PTL

-----------------------------------------------------------------------------
\* What a new version changes on a machine, together: each part follows its own
\* specification, so that what is proved of a part holds of the whole.
LEMMA PartsFollow == InstallationsSpec => DistributionSpec /\ MigrationSpec /\ HostSpec
<1>1. InstallationsInit => DistributionInit /\ MigrationInit /\ HostInit
  BY DEF InstallationsInit
<1>2. [InstallationsNext]_installationVars =>
         /\ [DistributionNext]_distributionVars /\ [MigrationNext]_migrationVars
         /\ [HostNext]_hostVars
  BY DEF InstallationsNext, installationVars
<1>3. QED
  BY <1>1, <1>2, PTL DEF InstallationsSpec, DistributionSpec, MigrationSpec, HostSpec

\* Files, receipts and transactions keep their types, in all the parts at once: no step
\* of one part disturbs another.
THEOREM InstallationsTypeCorrect == InstallationsSpec => []InstallationsTypeOK
<1>1. DistributionTypeOK /\ HostTypeOK => InstallationsTypeOK
  BY DEF InstallationsTypeOK
<1>2. QED
  BY <1>1, PartsFollow, DistributionTypeCorrect, HostTypeCorrect, PTL
=============================================================================
