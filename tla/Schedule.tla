------------------------------- MODULE Schedule -------------------------------
(***************************************************************************)
(* When a Run fires: the pure arithmetic of forage-daemon's scheduler.rs.  *)
(* A cadence is a record [kind, every].  Time is counted in clock ticks; a *)
(* TimeUnit (minute, hour, day) is TicksPerUnit of them.                   *)
(*                                                                         *)
(* The cron crate is external.  A cron expression stands here for a        *)
(* periodic schedule, one fire at every multiple of its period, which is   *)
(* what Schedule::after returns for expressions like "every third minute". *)
(* "badcron" is a stored expression that no longer parses.                 *)
(***************************************************************************)
EXTENDS Integers

CONSTANTS
  None,          \* Rust's Option::None
  TicksPerUnit   \* clock ticks in one TimeUnit

ASSUME NoneAssumption == None \notin Int
ASSUME TicksAssumption == TicksPerUnit \in Nat \ {0}

Cadence == [kind : {"manual", "interval", "cron", "badcron"}, every : Nat]

(* every_n is a u32 the UI may leave at 0: the step is at least one tick.  *)
IntervalStep(cadence) ==
  IF cadence.every = 0 THEN 1 ELSE cadence.every * TicksPerUnit

(* validate_cron: configure_run refuses what does not parse.               *)
ValidCadence(cadence) == cadence.kind # "badcron"

(* The first fire strictly after now.                                      *)
CronNextFire(cadence, now) ==
  ((now \div IntervalStep(cadence)) + 1) * IntervalStep(cadence)

(* A stored next_run is the canonical next fire, overdue or not; a fresh   *)
(* interval starts one step ahead.                                         *)
NextFireFor(cadence, nextRun, now) ==
  IF cadence.kind = "interval"
  THEN IF nextRun = None THEN now + IntervalStep(cadence) ELSE nextRun
  ELSE IF cadence.kind = "cron" THEN CronNextFire(cadence, now) ELSE None

(* A slip in the skip: rounds the missed ticks down and stays behind now.  *)
IntervalAfterWithoutExtraSkip(anchor, step, now) ==
  LET next == anchor + step
  IN  IF next <= now THEN next + ((now - next) \div step) * step ELSE next

(* The anchor is the tick just fired: step forward once, then skip every   *)
(* tick that is already behind now.                                        *)
IntervalAfter(anchor, step, now) ==
  LET next == anchor + step
  IN  IF next <= now THEN next + ((now - next) \div step + 1) * step ELSE next

AdvanceNextRun(cadence, nextRun, now) ==
  IF cadence.kind = "interval"
  THEN IntervalAfter(IF nextRun = None THEN now ELSE nextRun,
                     IntervalStep(cadence), now)
  ELSE IF cadence.kind = "cron" THEN CronNextFire(cadence, now) ELSE None
===============================================================================
