------------------------------ MODULE Scheduler -------------------------------
(***************************************************************************)
(* The scheduler task over the daemon's tables: run_loop of scheduler.rs.  *)
(* It plans the soonest fire, sleeps in a select! over the schedule_changed*)
(* permit and the clock, fires one run_once at a time, and repeats.  The   *)
(* rest of the daemon runs beside it: callers configure, remove, trigger   *)
(* and deploy, and a stored cron expression may be tampered with.          *)
(*                                                                         *)
(* The task starts with the daemon (start_scheduler follows open) and lives*)
(* until the process ends.                                                 *)
(***************************************************************************)
EXTENDS Daemon, FiniteSets

CONSTANTS
  Rank,       \* the order of recipe_name in list_runs
  IdlePoll,   \* IDLE_POLL_MS, in clock ticks
  MaxEdits    \* bound on what happens to the scheduler: calls, restarts, I/O errors

ASSUME SchedulerAssumption ==
  /\ Rank \in [Names -> Nat]
  /\ \A m, n \in Names : Rank[m] = Rank[n] => m = n
  /\ IdlePoll \in Nat \ {0}
  /\ Scheduler \in Callers

VARIABLES
  task,      \* where the task is
  plan,      \* what it is about to fire, and when
  edits,     \* calls, restarts and I/O errors so far
  before     \* history: what was recorded of a Run when its expression turned bad

schedVars == <<vars, task, plan, edits, before>>

NoPlan == [at |-> clock + IdlePoll, target |-> None]

SchedInit ==
  /\ Init
  /\ task = "loop"
  /\ plan = NoPlan
  /\ edits = 0
  /\ before = [n \in Names |-> {}]

-------------------------------------------------------------------------------
(* next_fire: over the enabled rows by name.                               *)

Enabled(n) == runs[n] # None /\ runs[n].enabled

(* A corrupt row is reported once; Fail marks it as reported.              *)
Unreported(n) ==
  Enabled(n) /\ runs[n].cadence.kind = "badcron" /\ runs[n].health # "fail"

FireTime(n) == NextFireFor(runs[n].cadence, runs[n].nextRun, clock)

Fireable == {n \in Names : Enabled(n) /\ FireTime(n) # None}

FirstByName(S) == CHOOSE n \in S : \A m \in S : Rank[n] <= Rank[m]

(* A slip: the first enabled row, however far away its fire is.            *)
FirstFireable == FirstByName(Fireable)

(* The soonest fire; of several at one time, the first by name.            *)
Soonest ==
  FirstByName({n \in Fireable : \A m \in Fireable : FireTime(n) <= FireTime(m)})

-------------------------------------------------------------------------------
(* The loop.                                                               *)

PlanFire ==
  /\ task = "loop"
  /\ \A n \in Names : ~Unreported(n)
  /\ plan' = IF Fireable = {} THEN NoPlan
             ELSE [at |-> FireTime(Soonest), target |-> runs[Soonest]]
  /\ task' = "wait"
  /\ UNCHANGED <<vars, edits, before>>

(* A slip: the corrupt row is found and passed over.                       *)
StallLogged ==
  /\ task = "loop"
  /\ \E n \in Names : Unreported(n)
  /\ UNCHANGED schedVars

(* next_fire stops at the first corrupt row that was not reported yet ...  *)
StallFound ==
  /\ task = "loop"
  /\ \E n \in Names : Unreported(n)
  /\ LET n == FirstByName({m \in Names : Unreported(m)})
     IN  plan' = [at |-> clock, target |-> runs[n]]
  /\ task' = "found"
  /\ UNCHANGED <<vars, edits, before>>

(* ... record_synthetic_failure reads it again by its id ...               *)
StallRead ==
  LET run == plan.target IN
  /\ task = "found"
  /\ IF Live(run)
     THEN /\ plan' = [at |-> clock, target |-> runs[run.name]]
          /\ task' = "stall"
     ELSE UNCHANGED plan /\ task' = "loop"
  /\ UNCHANGED <<vars, edits, before>>

Stalled(run) == [run EXCEPT !.health = "fail", !.nextRun = None]

(* ... and under a third lock writes a failed ScheduledRun and the row it  *)
(* read.  No notify_one: the loop goes round by itself.                    *)
StallRecord ==
  LET run == plan.target IN
  /\ task = "stall"
  /\ ulid < MaxUlid
  /\ ulid' = ulid + 1
  /\ IF Live(run)
     THEN /\ InsertScheduledRun(
               [id |-> ulid + 1, runId |-> run.id, at |-> plan.at,
                trigger |-> "schedule", ephemeral |-> FALSE, outcome |-> "fail",
                counts |-> NoCounts, version |-> None])
          /\ UpdateRun(Stalled(run))
     ELSE UNCHANGED <<runs, history>>
  /\ task' = "loop"
  /\ UNCHANGED <<clock, versions, dirs, stores, calls, deploys, ensures, wake,
                 plan, edits, before>>

(* select! is biased: a pending permit goes before an elapsed sleep.       *)
WakeUp ==
  /\ task = "wait"
  /\ TakeWake
  /\ task' = "loop"
  /\ UNCHANGED <<plan, edits, before>>

Elapse ==
  /\ task = "wait"
  /\ ~wake
  /\ plan.at <= clock
  /\ task' = IF plan.target = None THEN "loop" ELSE "fire"
  /\ UNCHANGED <<vars, plan, edits, before>>

(* run_once reads the row by id now; it may have changed since the plan,   *)
(* or be gone, which the loop logs and forgets.                            *)
Fire ==
  /\ task = "fire"
  /\ IF Live(plan.target)
     THEN RunOnceStart(Scheduler, plan.target.name, FALSE) /\ task' = "run"
     ELSE UNCHANGED vars /\ task' = "loop"
  /\ UNCHANGED <<plan, edits, before>>

EngineDone ==
  /\ task = "run"
  /\ EngineFail(Scheduler) \/ \E k \in EmitCounts : EngineOk(Scheduler, k)
  /\ UNCHANGED <<task, plan, edits, before>>

Record ==
  /\ task = "run"
  /\ Persist(Scheduler) \/ (PersistFails(Scheduler) /\ ~Live(calls[Scheduler].run))
  /\ task' = "loop"
  /\ UNCHANGED <<plan, edits, before>>

(* The commit fails: the tick stays due, and the loop fires it again.      *)
RecordFails ==
  /\ task = "run"
  /\ edits < MaxEdits
  /\ edits' = edits + 1
  /\ PersistFails(Scheduler)
  /\ task' = "loop"
  /\ UNCHANGED <<plan, before>>

TaskStep ==
  \/ PlanFire \/ StallFound \/ StallRead \/ StallRecord
  \/ WakeUp \/ Elapse \/ Fire \/ EngineDone \/ Record

-------------------------------------------------------------------------------
(* Beside the task.                                                        *)

TimePasses == Tick /\ UNCHANGED <<task, plan, edits, before>>

RecordedOf(n) == {h \in history : h.runId = runs[n].id}

(* Somebody edits daemon.sqlite, or an older release opens it: a stored    *)
(* cron expression no longer parses.  Nothing notifies the task.           *)
Corrupt(n) ==
  /\ runs[n] # None
  /\ runs[n].cadence.kind = "cron"
  /\ before' = [before EXCEPT ![n] = RecordedOf(n)]
  /\ UpdateRun([runs[n] EXCEPT !.cadence.kind = "badcron"])
  /\ UNCHANGED <<clock, ulid, history, versions, dirs, stores, calls, deploys,
                 ensures, wake>>

ManualCallers == Callers \ {Scheduler}

Edit ==
  /\ edits < MaxEdits
  /\ edits' = edits + 1
  /\ \/ ConfigAction /\ UNCHANGED before
     \/ \E n \in Names : Corrupt(n)
     \/ \E c \in ManualCallers, n \in Names : RunOnceStart(c, n, FALSE) /\ UNCHANGED before
  /\ UNCHANGED <<task, plan>>

ManualStep ==
  /\ \E c \in ManualCallers :
       \/ EngineFail(c)
       \/ \E k \in EmitCounts : EngineOk(c, k)
       \/ Persist(c)
       \/ PersistFails(c) /\ ~Live(calls[c].run)
  /\ UNCHANGED <<task, plan, edits, before>>

DeployStep == DeployAction /\ UNCHANGED <<task, plan, edits, before>>

Restart ==
  /\ edits < MaxEdits
  /\ edits' = edits + 1
  /\ Reopen
  /\ task' = "loop"
  /\ UNCHANGED <<plan, before>>

SchedNext ==
  \/ TaskStep \/ RecordFails \/ TimePasses
  \/ Edit \/ ManualStep \/ DeployStep \/ Restart

(* The task is polled while it can make progress, an engine run ends, and  *)
(* the clock advances.  Callers owe nothing, and commits fail now and then.*)
Fairness == WF_schedVars(TaskStep) /\ WF_schedVars(TimePasses)

SchedSpec == SchedInit /\ [][SchedNext]_schedVars /\ Fairness

-------------------------------------------------------------------------------
(* What the schedule promises.                                             *)

IntervalRun(n) == Enabled(n) /\ runs[n].cadence.kind = "interval"

(* No lost wake-up: while the task sleeps without a permit, it sleeps no   *)
(* longer than until the first stored next_run of an enabled interval run, *)
(* whoever wrote that row after the task planned.                          *)
SleepsNoLongerThanDue ==
  task = "wait" /\ ~wake =>
    \A n \in Names : IntervalRun(n) /\ runs[n].nextRun # None
                         => plan.at <= runs[n].nextRun

(* A tick fires once: no two scheduled runs of a deployed recipe start at  *)
(* one time, across overdue ticks, manual runs, edits during a run, commits*)
(* that fail and restarts.  (A synthetic failure has no version: it is not *)
(* a fire, and may follow one at once if the expression turns bad there.)  *)
Fires == {h \in history : h.trigger = "schedule" /\ h.version # None}

NoDoubleFire ==
  \A g, h \in Fires : g.runId = h.runId /\ g.at = h.at => g = h

Due(n) == IntervalRun(n) /\ runs[n].nextRun # None /\ runs[n].nextRun <= clock

(* An overdue interval run is fired and moves on to a future tick, however *)
(* many other runs are due, and whatever is edited or triggered meanwhile  *)
(* (scheduler.rs: "sleeps until the soonest next-fire, fires that run,     *)
(* repeats").                                                              *)
DueRunsMoveOn == \A n \in Names : Due(n) ~> ~Due(n)

Corrupted(n) == Enabled(n) /\ runs[n].cadence.kind = "badcron"

(* What was recorded of a Run since its expression turned bad.             *)
Failures(n) == {h \in RecordedOf(n) \ before[n] : h.outcome = "fail"}
Stalls(n) == {h \in Failures(n) : h.trigger = "schedule" /\ h.version = None}

(* "The next tick records a synthetic failed ScheduledRun [...] instead of *)
(* a silently-not-firing schedule": once a stored cron expression has      *)
(* turned bad and the task wakes, a failed ScheduledRun is recorded after  *)
(* that; it is the synthetic one unless a run fails first.  And it is not  *)
(* "the same failure forever": a stall is recorded anew only after a run   *)
(* that was ok.  A Run that shows Fail already when its expression turns   *)
(* bad is excepted: next_fire skips it and records nothing.                *)
CorruptCronSurfaces ==
  /\ \A n \in Names :
       Corrupted(n) /\ runs[n].health # "fail" /\ plan.at <= MaxTime
         ~> ~Corrupted(n) \/ Failures(n) # {}
  /\ [](\A n \in Names : Corrupted(n) =>
           Cardinality(Stalls(n))
             <= 1 + Cardinality({h \in RecordedOf(n) \ before[n] : h.outcome # "fail"}))
===============================================================================
