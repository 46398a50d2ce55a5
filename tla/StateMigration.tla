--------------------------- MODULE StateMigration ---------------------------
(***************************************************************************)
(* Cutover of the legacy reservation file to a new generation, and the way  *)
(* back (src/state_migration.py), with the writers it has to fence off.     *)
(*                                                                          *)
(* migrate() and rollback() run under state.json.lock, but may be killed    *)
(* between any two durable effects; the next call resumes from the manifest *)
(* and the files it finds.  So every durable write is an action, and what a *)
(* call only computes is not remembered across actions.  Writers of the     *)
(* current CLI obey the manifest; writers of an earlier CLI take the same   *)
(* lock and know nothing else.                                              *)
(*                                                                          *)
(* Abstractions.  A state file is its generation mark and its rows of       *)
(* reservations; equal digests are equal contents; nobody tampers with the  *)
(* backups; managed attempts are counted only.                              *)
(***************************************************************************)
EXTENDS Integers, FiniteSets

CONSTANTS
  Holds,        \* reservation identifiers
  Ids,          \* identifiers of migrations
  Absent, Dir,  \* what a path holds instead of a file
  MaxManaged,   \* bound of concurrently active managed attempts
  MaxCrashes    \* bound of the crashes of a transition

ASSUME MigrationAssumption == MaxManaged \in Nat /\ MaxCrashes \in Nat

VARIABLES
  legacy,      \* state.json
  target,      \* state.v2.json
  backups,     \* migrations/<id>/: [Ids -> Backup]
  record,      \* the manifest state-migration.json
  admissions,  \* settings row of the SQLite ledger, as committed
  managed,     \* number of active managed attempts
  expired,     \* reservations whose TTL has run out
  job,         \* the running transition: its next durable step, its backup
  crashes,     \* transitions killed so far
  fate,        \* history: what became of every reservation
  changed      \* history: somebody wrote the legacy file during a transition

files == <<legacy, target, backups, record>>
migrationVars ==
  <<files, admissions, managed, expired, job, crashes, fate, changed>>

Row == [id : Holds, migrated : BOOLEAN]
Content(generation) == [generation : {generation}, rows : SUBSET Row]
Empty == [generation |-> 1, rows |-> {}]
IsFile(f) == f \notin {Absent, Dir}

ASSUME FileAssumption ==
  Absent # Dir /\ \A f \in Content(1) \cup Content(2) : IsFile(f)

Old == Content(1) \cup {Absent}
New == Content(2) \cup {Absent}
Backup == [state : Old, candidate : New, previous : New, settled : New,
           guard : Old \cup {Dir}, restore : Old \cup {Dir}]
NoBackup == [state |-> Absent, candidate |-> Absent, previous |-> Absent,
             settled |-> Absent, guard |-> Absent, restore |-> Absent]
NoRecord == [phase |-> "none"]
Record == [phase : {"prepared", "active", "restoring", "rolled-back"},
           id : Ids, exists : BOOLEAN, source : Content(1)]

\* Steps from the first one that holds the SQLite ledger as well.
MigrateInLedger == {"backup", "candidate", "publish", "target", "source",
                    "guard", "cutover", "enable"}
RollbackInLedger == {"archive", "restoring", "stage", "restore", "finish"}
Steps == {"activate", "disable", "gate"} \cup MigrateInLedger \cup RollbackInLedger
Idle == [step |-> "idle"]

MigrationInit ==
  /\ legacy \in {Absent, Empty}
  /\ target = Absent
  /\ backups = [i \in Ids |-> NoBackup]
  /\ record = NoRecord
  /\ admissions = "enabled" /\ managed = 0
  /\ expired = {} /\ job = Idle /\ crashes = 0
  /\ fate = [h \in Holds |-> "unused"] /\ changed = FALSE

----------------------------------------------------------------------------
(* Vocabulary *)

Legacy == record.phase \in {"none", "rolled-back"}
At(step) == job.step = step
Goto(step) == job' = [job EXCEPT !.step = step]
Done == job' = Idle
Mine == backups[job.id]
Save(field, content) ==
  backups' = [backups EXCEPT ![job.id][field] = content]
SetPhase(phase) == record' = [record EXCEPT !.phase = phase]
Outside == UNCHANGED <<managed, expired, crashes, fate>>

\* The file whose reservations count in the end: the fence decides.
Authority == IF legacy = Dir THEN target
             ELSE IF legacy = Absent THEN Empty ELSE legacy

\* Mutant: the TTL of a migrated hold ends it.
HeldWithinTTL(f) == {r \in f.rows : r.id \notin expired}
\* held(), and what a sweep leaves: a migrated row stays until its completion
\* is reported, another one for its TTL.
HeldRows(f) == {r \in f.rows : r.migrated \/ r.id \notin expired}

\* Mutant: two renames, and the machine stops between them.
SwapByRename(field) ==
  /\ legacy' = Absent
  /\ Save(field, legacy)
\* exchange(): the two names swap what they hold, atomically.
Swap(field) ==
  /\ legacy' = Mine[field]
  /\ Save(field, legacy)

----------------------------------------------------------------------------
(* migrate(apply=True) *)

\* Mutant: the writer generation is not recorded.
MigratedUnmarked(f) ==
  [generation |-> 1,
   rows |-> {IF r \in HeldRows(f) THEN [r EXCEPT !.migrated = TRUE] ELSE r :
               r \in f.rows}]
Migrated(f) ==
  [generation |-> 2,
   rows |-> {IF r \in HeldRows(f) THEN [r EXCEPT !.migrated = TRUE] ELSE r :
               r \in f.rows}]

\* Under the lock: an interrupted migration resumes, a rollback under way or
\* a finished migration is left alone.
StartMigrate(i) ==
  /\ job = Idle
  /\ \/ Legacy /\ backups[i] = NoBackup /\ job' = [step |-> "backup", id |-> i]
     \/ record.phase = "prepared" /\ i = record.id
          /\ job' = [step |-> "target", id |-> i]
  /\ UNCHANGED <<files, admissions, changed>>

SaveBackup ==
  /\ At("backup")
  /\ backups' = [backups EXCEPT
       ![job.id].state = IF legacy = Absent THEN Empty ELSE legacy,
       ![job.id].previous = target]
  /\ Goto("candidate")
  /\ UNCHANGED <<legacy, target, record, admissions, changed>>

SaveCandidate ==
  /\ At("candidate")
  /\ Save("candidate", Migrated(Mine.state))
  /\ Goto("publish")
  /\ UNCHANGED <<legacy, target, record, admissions, changed>>

\* Mutant: the absence of a source is not recorded.
PublishPresent ==
  /\ At("publish")
  /\ record' = [phase |-> "prepared", id |-> job.id,
                exists |-> TRUE, source |-> Mine.state]
  /\ changed' = FALSE
  /\ Goto("target")
  /\ UNCHANGED <<legacy, target, backups, admissions>>
Publish ==
  /\ At("publish")
  /\ record' = [phase |-> "prepared", id |-> job.id,
                exists |-> legacy # Absent, source |-> Mine.state]
  /\ changed' = FALSE
  /\ Goto("target")
  /\ UNCHANGED <<legacy, target, backups, admissions>>

WriteTarget ==
  /\ At("target")
  /\ target' = Mine.candidate
  /\ Goto(IF legacy = Dir THEN "enable" ELSE "source")
  /\ UNCHANGED <<legacy, backups, record, admissions, changed>>

\* A source that never existed is written empty, so that there is something
\* to exchange.
WriteSource ==
  /\ At("source") /\ legacy = Absent /\ ~record.exists
  /\ legacy' = Mine.state
  /\ UNCHANGED <<target, backups, record, admissions, job, changed>>

\* Mutant: a resumed migration trusts the file it finds.
CheckNoSource ==
  /\ At("source") /\ IsFile(legacy)
  /\ Goto("guard")
  /\ UNCHANGED <<files, admissions, changed>>
\* The file must still be the one in the backup; if not, the call raises.
CheckSource ==
  /\ At("source") /\ ~(legacy = Absent /\ ~record.exists)
  /\ IF legacy = record.source THEN Goto("guard") ELSE Done
  /\ UNCHANGED <<files, admissions, changed>>

MakeGuard ==
  /\ At("guard")
  /\ Save("guard", Dir)
  /\ Goto("cutover")
  /\ UNCHANGED <<legacy, target, record, admissions, changed>>

Cutover ==
  /\ At("cutover")
  /\ Swap("guard")
  /\ Goto("enable")
  /\ UNCHANGED <<target, record, admissions, changed>>

Enable ==
  /\ At("enable")
  /\ admissions' = "enabled"
  /\ Goto("activate")
  /\ UNCHANGED <<files, changed>>

Activate ==
  /\ At("activate")
  /\ SetPhase("active")
  /\ Done
  /\ UNCHANGED <<legacy, target, backups, admissions, changed>>

----------------------------------------------------------------------------
(* rollback(apply=True) *)

StartRollback ==
  /\ job = Idle
  /\ record.phase \in {"active", "restoring"}
  /\ job' = [step |-> "disable", id |-> record.id]
  /\ UNCHANGED <<files, admissions, changed>>

\* A transaction of its own: it lasts although the call may only wait.
Disable ==
  /\ At("disable")
  /\ admissions' = "disabled"
  /\ Goto("gate")
  /\ UNCHANGED <<files, changed>>

\* Mutant: only the legacy holds are waited for.
GateOnHolds ==
  /\ At("gate")
  /\ IF HeldRows(target) # {} THEN Done
     ELSE Goto(IF record.phase = "restoring" THEN "stage" ELSE "archive")
  /\ UNCHANGED <<files, admissions, changed>>
Gate ==
  /\ At("gate")
  /\ IF managed > 0 \/ HeldRows(target) # {} THEN Done
     ELSE Goto(IF record.phase = "restoring" THEN "stage" ELSE "archive")
  /\ UNCHANGED <<files, admissions, changed>>

Archive ==
  /\ At("archive")
  /\ Save("settled", target)
  /\ Goto("restoring")
  /\ UNCHANGED <<legacy, target, record, admissions, changed>>

Restoring ==
  /\ At("restoring")
  /\ SetPhase("restoring")
  /\ Goto("stage")
  /\ UNCHANGED <<legacy, target, backups, admissions, changed>>

\* Behind the fence, a copy of the backup is staged; without the fence the
\* exchange was done by an earlier call, and its result must be unchanged.
Stage ==
  /\ At("stage")
  /\ \/ /\ legacy = Dir /\ Mine.restore = Absent
        /\ Save("restore", Mine.state) /\ Goto("restore")
     \/ /\ legacy = Dir /\ Mine.restore # Absent
        /\ IF Mine.restore = record.source THEN Goto("restore") ELSE Done
        /\ UNCHANGED backups
     \/ /\ legacy # Dir
        /\ IF legacy = record.source THEN Goto("finish") ELSE Done
        /\ UNCHANGED backups
  /\ UNCHANGED <<legacy, target, record, admissions, changed>>

Restore ==
  /\ At("restore")
  /\ Swap("restore")
  /\ Goto("finish")
  /\ UNCHANGED <<target, record, admissions, changed>>

FinishRollback ==
  /\ At("finish")
  /\ SetPhase("rolled-back")
  /\ Done
  /\ UNCHANGED <<legacy, target, backups, admissions, changed>>

TransitionStep ==
  /\ \/ \E i \in Ids : StartMigrate(i)
     \/ SaveBackup \/ SaveCandidate \/ Publish \/ WriteTarget \/ WriteSource
     \/ CheckSource \/ MakeGuard \/ Cutover \/ Enable \/ Activate
     \/ StartRollback \/ Disable \/ Gate \/ Archive \/ Restoring \/ Stage
     \/ Restore \/ FinishRollback
  /\ Outside

Crash ==
  /\ job # Idle /\ crashes < MaxCrashes
  /\ Done /\ crashes' = crashes + 1
  /\ UNCHANGED <<files, admissions, managed, expired, fate, changed>>

----------------------------------------------------------------------------
(* Writers of the legacy state.  All take state.json.lock; an earlier CLI    *)
(* writes state.json whatever the manifest says, unless a directory is in    *)
(* its way, and the current CLI writes what active_path() selects.           *)

Without(f, gone, added) ==
  [f EXCEPT !.rows = {r \in HeldRows(f) : r.id \notin gone} \cup added]
Rewrite(gone, added) ==
  /\ job = Idle
  /\ \/ /\ legacy # Dir
        /\ legacy' = Without(Authority, gone, added)
        /\ changed' = (changed \/ ~Legacy)
        /\ UNCHANGED target
     \/ /\ record.phase = "active" /\ legacy = Dir
        /\ target' = Without(target, gone, added)
        /\ UNCHANGED <<legacy, changed>>
  /\ UNCHANGED <<backups, record, admissions, managed, expired, job, crashes>>

\* reserve().  Refused while its provider serves a managed attempt, and at the
\* limit; h may be a hold of any provider, so neither is a guard here.
Reserve(h) ==
  /\ fate[h] = "unused"
  /\ Rewrite({}, {[id |-> h, migrated |-> FALSE]})
  /\ fate' = [fate EXCEPT ![h] = IF legacy = Dir THEN "new" ELSE "old"]

Held(h) == \E r \in HeldRows(Authority) : r.id = h

\* release(id): the caller reports that the worker stopped.  The file is
\* swept and saved even when it holds no such row.
Report(h) ==
  /\ fate[h] # "unused"
  /\ Rewrite({h}, {})
  /\ fate' = [fate EXCEPT ![h] = IF Held(h) THEN "reported" ELSE @]

\* release_settled(): a guess that the worker is done; never of migrated rows.
Reap(h) ==
  /\ [id |-> h, migrated |-> FALSE] \in HeldRows(Authority)
  /\ Rewrite({h}, {})
  /\ fate' = [fate EXCEPT ![h] = "reaped"]

Expire(h) ==
  /\ fate[h] # "unused" /\ h \notin expired
  /\ expired' = expired \cup {h}
  /\ UNCHANGED <<files, admissions, managed, job, crashes, fate, changed>>

----------------------------------------------------------------------------
(* Managed attempts *)

\* admit_snapshot() runs under the same lock and asks active_path() first.
ManagedAdmit ==
  /\ job = Idle
  /\ Legacy \/ record.phase = "active"
  /\ admissions = "enabled" /\ managed < MaxManaged
  /\ managed' = managed + 1
  /\ UNCHANGED <<files, admissions, expired, job, crashes, fate, changed>>

\* Settlement needs the ledger only.
ManagedSettle ==
  /\ job.step \notin MigrateInLedger \cup RollbackInLedger
  /\ managed > 0
  /\ managed' = managed - 1
  /\ UNCHANGED <<files, admissions, expired, job, crashes, fate, changed>>

MigrationNext ==
  \/ TransitionStep \/ Crash
  \/ \E h \in Holds : Reserve(h) \/ Report(h) \/ Reap(h) \/ Expire(h)
  \/ ManagedAdmit \/ ManagedSettle

MigrationSpec == MigrationInit /\ [][MigrationNext]_migrationVars

----------------------------------------------------------------------------
(* Properties *)

\* Files are absent, directories or of the generation their place implies.
MigrationTypeOK ==
  /\ legacy \in Old \cup {Dir} /\ target \in New
  /\ backups \in [Ids -> Backup]
  /\ record \in {NoRecord} \cup Record
  /\ admissions \in {"enabled", "disabled"} /\ managed \in 0 .. MaxManaged
  /\ expired \subseteq Holds /\ crashes \in 0 .. MaxCrashes
  /\ job \in {Idle} \cup [step : Steps, id : Ids]
  /\ fate \in [Holds -> {"unused", "old", "new", "reported", "reaped"}]
  /\ changed \in BOOLEAN

\* No reservation is lost between the generations: however transitions crash
\* and resume and earlier CLIs write in between, a hold that has neither been
\* released nor run out is in the file that counts.
HoldsSurvive ==
  \A h \in Holds :
    fate[h] \in {"old", "new"} /\ h \notin expired =>
      \E r \in Authority.rows : r.id = h

\* A hold that was live at the cutover leaves the new file by a completion
\* report only: no TTL, no guess about the worker and no later write drops it.
MigratedStay ==
  [][\A r \in (IF target = Absent THEN {} ELSE target.rows) :
       record.phase = "active" /\ r.migrated =>
         r \in target'.rows \/ fate'[r.id] = "reported"]_migrationVars

\* From the moment a rollback starts to restore, nothing is admitted and
\* nothing admitted is running; only a new migration ends that.
RollbackFenced ==
  record.phase \in {"restoring", "rolled-back"} =>
    /\ admissions = "disabled"
    /\ managed = 0

\* There is no moment at which an earlier CLI finds no state.json and creates
\* an empty one.
NoMissingFile ==
  [][legacy # Absent => legacy' # Absent]_migrationVars

\* A resumed transition refuses to go on only because somebody changed
\* state.json in between: its own leftovers never block it.
RefusesOnlyChanges ==
  \/ changed
  \/ /\ At("source") => legacy \in {record.source} \cup
                          (IF record.exists THEN {} ELSE {Absent})
     /\ At("stage") => IF legacy = Dir
                       THEN Mine.restore \in {Absent, record.source}
                       ELSE legacy = record.source

\* docs/MIGRATION.md: "any remaining legacy hold, returns a structured wait.
\* TTL expiry and an unconfirmed cancellation cannot pass this gate."
GateWaits ==
  record.phase = "restoring" =>
    \A r \in target.rows : fate[r.id] # "new"

=============================================================================
