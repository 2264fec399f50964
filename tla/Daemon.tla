-------------------------------- MODULE Daemon --------------------------------
(***************************************************************************)
(* The forage daemon of one workspace: the schedule and its history in     *)
(* daemon.sqlite, the deployed versions on disk, the output stores, and    *)
(* the calls of the daemon's API in flight over them.                      *)
(*                                                                         *)
(* The connection mutex makes each locked section of the code one action;  *)
(* between two sections of one call (across an await, or after the lock is *)
(* dropped) every other call may run.  A crash ends every call and leaves  *)
(* what is on disk.                                                        *)
(***************************************************************************)
EXTENDS Schedule, RunHealth

CONSTANTS
  Names,        \* recipe names, the daemon's keys
  Outputs,      \* output-store paths
  DefaultOutput,\* default_output_path, one of Outputs
  Cadences,     \* cadences a caller may configure
  Modules,      \* linked modules a caller may deploy
  EmitCounts,   \* what a successful engine run may emit
  Callers,      \* tasks inside run_once: manual triggers, and the scheduler
  Scheduler,    \* the scheduler task, which may be one of Callers
  Deployers,    \* callers inside deploy
  Clients,      \* callers inside ensure_run
  MaxTime,      \* bound on the clock
  MaxVersion,   \* bound on deployed versions
  MaxUlid       \* bound on generated ids

ASSUME DaemonAssumption ==
  /\ DefaultOutput \in Outputs
  /\ Cadences \subseteq Cadence
  /\ EmitCounts \subseteq Counts
  /\ None \notin Names

VARIABLES
  clock,     \* Daemon::now_ms
  ulid,      \* the last id generated
  runs,      \* table runs, by its unique recipe_name
  history,   \* table scheduled_runs
  versions,  \* table deployed_versions
  dirs,      \* the finalized directories under deployments/
  stores,    \* which output store holds the records of which scheduled run
  calls,     \* run_once calls in flight
  deploys,   \* deploy calls holding deploy_lock
  ensures,   \* ensure_run calls that found no row
  wake       \* the permit stored in schedule_changed

vars == <<clock, ulid, runs, history, versions, dirs, stores,
          calls, deploys, ensures, wake>>
disk == <<runs, history, versions, dirs, stores>>

-------------------------------------------------------------------------------
(* Values.                                                                 *)

RunConfig == [enabled : BOOLEAN, cadence : Cadence, output : Outputs]

Run == [id : Nat, name : Names, enabled : BOOLEAN, cadence : Cadence,
        output : Outputs, health : Health,
        nextRun : Int \cup {None}, version : Nat \cup {None}]

ASSUME NoneIsNoRun == None \notin Run

ScheduledRun == [id : Nat, runId : Nat, at : Nat,
                 trigger : {"schedule", "manual"}, ephemeral : BOOLEAN,
                 outcome : Outcome, counts : Counts,
                 version : Nat \cup {None}]

DeployedVersion == [name : Names, version : Nat]
DeploymentDir == [name : Names, version : Nat, module : Modules]

(* A run_once call: the row it read before the engine, and its result.     *)
EngineCall == [pc : {"engine"}, run : Run, scheduled : Nat, at : Nat,
               ephemeral : BOOLEAN]
PersistCall == [pc : {"persist"}, run : Run, row : ScheduledRun]

DeployCall == [pc : {"write", "commit"}, name : Names, version : Nat,
               module : Modules]

NoCounts == [ty \in RecordTypes |-> 0]
TriggerOf(caller) == IF caller = Scheduler THEN "schedule" ELSE "manual"

TypeOK ==
  /\ clock \in Nat /\ ulid \in Nat
  /\ runs \in [Names -> Run \cup {None}]
  /\ history \subseteq ScheduledRun
  /\ versions \subseteq DeployedVersion
  /\ dirs \subseteq DeploymentDir
  /\ stores \subseteq [output : Outputs, scheduled : Nat]
  /\ calls \in [Callers -> EngineCall \cup PersistCall \cup {None}]
  /\ deploys \in [Deployers -> DeployCall \cup {None}]
  /\ ensures \in [Clients -> Names \cup {None}]
  /\ wake \in BOOLEAN

Init ==
  /\ clock = 0 /\ ulid = 0
  /\ runs = [n \in Names |-> None]
  /\ history = {} /\ versions = {} /\ dirs = {} /\ stores = {}
  /\ calls = [c \in Callers |-> None]
  /\ deploys = [d \in Deployers |-> None]
  /\ ensures = [c \in Clients |-> None]
  /\ wake = FALSE

-------------------------------------------------------------------------------
(* The tables (db.rs).  runs is keyed by its unique index on recipe_name;  *)
(* a row is still the one a call read if its id is the same.               *)

(* A slip: keyed by name, a re-created Run passes for the one it replaced. *)
LiveByName(run) == runs[run.name] # None

Live(run) == runs[run.name] # None /\ runs[run.name].id = run.id

UpdateRun(run) == runs' = [runs EXCEPT ![run.name] = run]

(* A slip: SQLite without PRAGMA foreign_keys does not cascade.            *)
DeleteRunRow(run) ==
  /\ runs' = [runs EXCEPT ![run.name] = None]
  /\ UNCHANGED history

(* ON DELETE CASCADE takes the history of the row with it.                 *)
DeleteRun(run) ==
  /\ runs' = [runs EXCEPT ![run.name] = None]
  /\ history' = {h \in history : h.runId # run.id}

(* schedule_changed.notify_one stores one permit for the scheduler.        *)
NotifyNobody == UNCHANGED wake
Notify == wake' = TRUE

InsertScheduledRun(row) == history' = history \cup {row}

VersionsOf(name) == {v.version : v \in {w \in versions : w.name = name}}
DirsOf(name) == {d.version : d \in {e \in dirs : e.name = name}}

Highest(S) == CHOOSE x \in S : \A y \in S : y <= x

(* A slip: the newest directory, which may be the stray of a failed deploy.*)
LatestOnDisk(name) == IF DirsOf(name) = {} THEN None ELSE Highest(DirsOf(name))

(* A slip: a sentinel instead of None.                                     *)
LatestOrSentinel(name) ==
  IF VersionsOf(name) = {} THEN -1 ELSE Highest(VersionsOf(name))

LatestDeployedVersion(name) ==
  IF VersionsOf(name) = {} THEN None ELSE Highest(VersionsOf(name))

(* load_deployed: both the metadata row and the directory are there.       *)
Loadable(name, version) ==
  version \in VersionsOf(name) /\ version \in DirsOf(name)

-------------------------------------------------------------------------------
(* configure_run, remove_run, ensure_run.                                  *)

Reconfigured(prev, config) ==
  [prev EXCEPT !.enabled = config.enabled,
               !.cadence = config.cadence,
               !.output = config.output,
               !.health = IF ~config.enabled THEN "paused"
                           ELSE IF ~prev.enabled THEN "unknown"
                           ELSE prev.health,
               !.nextRun = NextFireFor(config.cadence, None, clock)]

(* A fresh Run picks up whatever has been deployed for its recipe.         *)
FreshRun(name, config, id) ==
  [id |-> id, name |-> name, enabled |-> config.enabled,
   cadence |-> config.cadence, output |-> config.output,
   health |-> IF config.enabled THEN "unknown" ELSE "paused",
   nextRun |-> NextFireFor(config.cadence, None, clock),
   version |-> LatestDeployedVersion(name)]

(* The critical section of configure_run: create or update, in one lock.   *)
Configured(name, config) ==
  /\ ValidCadence(config.cadence)
  /\ IF runs[name] = None
     THEN /\ ulid < MaxUlid
          /\ ulid' = ulid + 1
          /\ UpdateRun(FreshRun(name, config, ulid + 1))
     ELSE /\ UpdateRun(Reconfigured(runs[name], config))
          /\ UNCHANGED ulid
  /\ Notify
  /\ UNCHANGED <<clock, history, versions, dirs, stores, calls, deploys>>

ConfigureRun(name, config) ==
  Configured(name, config) /\ UNCHANGED ensures

RemoveRun(name) ==
  /\ runs[name] # None
  /\ DeleteRun(runs[name])
  /\ Notify
  /\ UNCHANGED <<clock, ulid, versions, dirs, stores, calls, deploys, ensures>>

DefaultConfig ==
  [enabled |-> TRUE, cadence |-> [kind |-> "manual", every |-> 0],
   output |-> DefaultOutput]

(* ensure_run looks under one lock and configures under another.           *)
EnsureMissing(client, name) ==
  /\ ensures[client] = None
  /\ runs[name] = None
  /\ ensures' = [ensures EXCEPT ![client] = name]
  /\ UNCHANGED <<clock, ulid, disk, calls, deploys, wake>>

EnsureConfigure(client) ==
  /\ ensures[client] # None
  /\ Configured(ensures[client], DefaultConfig)
  /\ ensures' = [ensures EXCEPT ![client] = None]

-------------------------------------------------------------------------------
(* deploy: pick a version above the table and above the disk, write the    *)
(* directory, then commit the row and the Run's pointer together.          *)

NoDeployLock == TRUE
DeployLockFree == \A d \in Deployers : deploys[d] = None

(* A slip: strays of deploys that never committed are forgotten.           *)
NextAfterTable(name) ==
  IF VersionsOf(name) = {} THEN 1 ELSE Highest(VersionsOf(name)) + 1

(* Stray directories of deploys that never committed count too.            *)
NextVersion(name) ==
  LET taken == VersionsOf(name) \cup DirsOf(name)
  IN  IF taken = {} THEN 1 ELSE Highest(taken) + 1

DeployBegin(deployer, name, module) ==
  /\ DeployLockFree
  /\ NextVersion(name) <= MaxVersion
  /\ deploys' = [deploys EXCEPT ![deployer] =
                   [pc |-> "write", name |-> name,
                    version |-> NextVersion(name), module |-> module]]
  /\ UNCHANGED <<clock, ulid, disk, calls, ensures, wake>>

(* write_atomic: a directory appears whole, by rename, or not at all.      *)
(* rename refuses a directory that already holds files.                    *)
DeployWrite(deployer) ==
  LET call == deploys[deployer] IN
  /\ call # None
  /\ call.pc = "write"
  /\ call.version \notin DirsOf(call.name)
  /\ dirs' = dirs \cup {[name |-> call.name, version |-> call.version,
                        module |-> call.module]}
  /\ deploys' = [deploys EXCEPT ![deployer].pc = "commit"]
  /\ UNCHANGED <<clock, ulid, runs, history, versions, stores, calls, ensures, wake>>

DeployCommit(deployer) ==
  LET call == deploys[deployer] IN
  /\ call # None
  /\ call.pc = "commit"
  /\ versions' = versions \cup {[name |-> call.name, version |-> call.version]}
  /\ IF runs[call.name] = None
     THEN UNCHANGED runs
     ELSE UpdateRun([runs[call.name] EXCEPT !.version = call.version])
  /\ deploys' = [deploys EXCEPT ![deployer] = None]
  /\ Notify
  /\ UNCHANGED <<clock, ulid, history, dirs, stores, calls, ensures>>

(* An I/O error of either step, or a rename onto a directory that exists:  *)
(* the lock is released and what was written stays.                        *)
DeployFails(deployer) ==
  /\ deploys[deployer] # None
  /\ deploys' = [deploys EXCEPT ![deployer] = None]
  /\ UNCHANGED <<clock, ulid, disk, calls, ensures, wake>>

-------------------------------------------------------------------------------
(* run_once: read the row, run the engine, then record the outcome.        *)

RunOnceStart(caller, name, ephemeral) ==
  /\ calls[caller] = None
  /\ runs[name] # None
  /\ ulid < MaxUlid
  /\ ulid' = ulid + 1
  /\ calls' = [calls EXCEPT ![caller] =
                 [pc |-> "engine", run |-> runs[name], scheduled |-> ulid + 1,
                  at |-> clock, ephemeral |-> ephemeral]]
  /\ UNCHANGED <<clock, disk, deploys, ensures, wake>>

(* The ScheduledRun a call is about to record.                             *)
RowOf(caller, outcome, counts) ==
  LET call == calls[caller] IN
  [id |-> call.scheduled, runId |-> call.run.id, at |-> call.at,
   trigger |-> TriggerOf(caller), ephemeral |-> call.ephemeral,
   outcome |-> outcome, counts |-> counts, version |-> call.run.version]

(* A slip: the transaction is dropped, not committed.                      *)
StoredNothing(call) == {}

(* write_records commits every record in one transaction, before the row.  *)
StoredRecords(call) ==
  IF call.ephemeral THEN {}
  ELSE {[output |-> call.run.output, scheduled |-> call.scheduled]}

(* The pinned version loads, the engine finishes, the records are stored.  *)
EngineOk(caller, counts) ==
  LET call == calls[caller] IN
  /\ call # None
  /\ call.pc = "engine"
  /\ call.run.version # None
  /\ Loadable(call.run.name, call.run.version)
  /\ stores' = stores \cup StoredRecords(call)
  /\ calls' = [calls EXCEPT ![caller] =
                 [pc |-> "persist", run |-> call.run,
                  row |-> RowOf(caller, "ok", counts)]]
  /\ UNCHANGED <<clock, ulid, runs, history, versions, dirs, deploys, ensures, wake>>

(* Not deployed, not loadable, or an error of the store, the replay file,  *)
(* the engine or the write, which rolls back.                              *)
EngineFail(caller) ==
  LET call == calls[caller] IN
  /\ call # None
  /\ call.pc = "engine"
  /\ calls' = [calls EXCEPT ![caller] =
                 [pc |-> "persist", run |-> call.run,
                  row |-> RowOf(caller, "fail", NoCounts)]]
  /\ UNCHANGED <<clock, ulid, disk, deploys, ensures, wake>>

(* A slip: a failed Run is not promoted by a later success.                *)
RowAfterRunSticky(run, health) ==
  [run EXCEPT !.health = IF ~run.enabled THEN "paused"
                         ELSE IF run.health = "fail" THEN "fail"
                         ELSE health,
              !.nextRun = AdvanceNextRun(run.cadence, run.nextRun, clock)]

(* The row run_once writes back is the one it read before the engine ran.  *)
RowAfterRun(run, health) ==
  [run EXCEPT !.health = IF run.enabled THEN health ELSE "paused",
              !.nextRun = AdvanceNextRun(run.cadence, run.nextRun, clock)]

(* One transaction; it needs the Run to be there still.                    *)
Persist(caller) ==
  LET call == calls[caller] IN
  /\ call # None
  /\ call.pc = "persist"
  /\ Live(call.run)
  /\ InsertScheduledRun(call.row)
  /\ \E prior \in PriorOkWindows(history \cup {call.row},
                                 call.run.id, call.row.at) :
       UpdateRun(RowAfterRun(call.run, DeriveHealth(call.row, prior)))
  /\ calls' = [calls EXCEPT ![caller] = None]
  /\ Notify
  /\ UNCHANGED <<clock, ulid, versions, dirs, stores, deploys, ensures>>

(* The Run is gone (foreign key), or the commit fails: nothing is recorded.*)
PersistFails(caller) ==
  /\ calls[caller] # None
  /\ calls[caller].pc = "persist"
  /\ calls' = [calls EXCEPT ![caller] = None]
  /\ UNCHANGED <<clock, ulid, disk, deploys, ensures, wake>>

-------------------------------------------------------------------------------
(* The clock, the scheduler's end of the Notify, and the process.          *)

Tick ==
  /\ clock < MaxTime
  /\ clock' = clock + 1
  /\ UNCHANGED <<ulid, disk, calls, deploys, ensures, wake>>

TakeWake ==
  /\ wake
  /\ wake' = FALSE
  /\ UNCHANGED <<clock, ulid, disk, calls, deploys, ensures>>

(* The process ends and the workspace is opened again: open finds the      *)
(* tables and the directories, and no call survives.                       *)
Reopen ==
  /\ calls' = [c \in Callers |-> None]
  /\ deploys' = [d \in Deployers |-> None]
  /\ ensures' = [c \in Clients |-> None]
  /\ wake' = FALSE
  /\ UNCHANGED <<clock, ulid, disk>>

ConfigAction ==
  \/ \E n \in Names, e \in BOOLEAN, c \in Cadences, o \in Outputs :
       ConfigureRun(n, [enabled |-> e, cadence |-> c, output |-> o])
  \/ \E n \in Names : RemoveRun(n)
  \/ \E c \in Clients, n \in Names : EnsureMissing(c, n)
  \/ \E c \in Clients : EnsureConfigure(c)

DeployAction ==
  \/ \E d \in Deployers, n \in Names, m \in Modules : DeployBegin(d, n, m)
  \/ \E d \in Deployers : DeployWrite(d)
  \/ \E d \in Deployers : DeployCommit(d)
  \/ \E d \in Deployers : DeployFails(d)

RunAction ==
  \/ \E c \in Callers, n \in Names, e \in BOOLEAN :
       (e => c # Scheduler) /\ RunOnceStart(c, n, e)
  \/ \E c \in Callers, k \in EmitCounts : EngineOk(c, k)
  \/ \E c \in Callers : EngineFail(c)
  \/ \E c \in Callers : Persist(c)
  \/ \E c \in Callers : PersistFails(c)

Next ==
  \/ ConfigAction
  \/ DeployAction
  \/ RunAction
  \/ Tick
  \/ TakeWake
  \/ Reopen

Spec == Init /\ [][Next]_vars

-------------------------------------------------------------------------------
(* What the daemon promises.                                               *)

(* A Run's deployed_version names a deployed version whose module is on    *)
(* disk, whatever stale row a finishing run_once writes back and wherever  *)
(* a deploy was interrupted (deploy, lib.rs: "can never reference a row    *)
(* that doesn't exist").                                                   *)
PointerResolves ==
  \A n \in Names :
    runs[n] # None /\ runs[n].version # None => Loadable(n, runs[n].version)

(* No deploy ever finds its target directory already there, strays of      *)
(* interrupted deploys included: fs::rename never fails with ENOTEMPTY.    *)
RenameTargetFree ==
  \A d \in Deployers :
    deploys[d] # None /\ deploys[d].pc = "write" =>
      deploys[d].version \notin DirsOf(deploys[d].name)

RowsAttributable ==
  \A h \in history :
    /\ \E n \in Names :
         /\ runs[n] # None
         /\ runs[n].id = h.runId
         /\ h.version # None => Loadable(n, h.version)
    /\ h.version = None => h.outcome = "fail"

RecordsBeforeRow ==
  \A h \in history :
    h.outcome = "ok" /\ ~h.ephemeral =>
      \E s \in stores : s.scheduled = h.id

(* A row of the history belongs to a Run that exists, and names a version  *)
(* of that Run's recipe that was deployed (None only for a failure): its   *)
(* counts stay interpretable across deploys, removals and re-creations.    *)
(* If it is successful and persistent, its records are in an output store; *)
(* whatever happens, the row never comes before the records.               *)
HistoryAttributable == RowsAttributable /\ RecordsBeforeRow

(* To a reader of load_deployed, deployments are an append-only log whose  *)
(* entries appear whole, never change and number upwards per recipe,       *)
(* however deploys interleave, fail half way or are cut off by a crash.    *)
Published == {d \in dirs : d.version \in VersionsOf(d.name)}

Log == INSTANCE VersionLog WITH log <- Published

DeploymentsAreALog == Log!Spec

(* A run_once that finishes after its Run was removed brings nothing back: *)
(* a row appears under a name only with an id never used before.           *)
NoResurrection ==
  [][\A n \in Names :
       runs'[n] # None /\ ~(runs[n] # None /\ runs[n].id = runs'[n].id)
         => runs'[n].id > ulid]_vars

(* The Run pointer advances with the deploys: while a Run exists, its      *)
(* pointer never goes back to an older version (tests/deployment.rs).      *)
PointerNeverRegresses ==
  [][\A n \in Names :
       /\ runs[n] # None /\ runs'[n] # None
       /\ runs[n].id = runs'[n].id
       /\ runs[n].version # None
       => runs'[n].version # None /\ runs[n].version <= runs'[n].version]_vars
===============================================================================
