----------------------------- MODULE DaemonHealth -----------------------------
(***************************************************************************)
(* Daemon with two history variables that tell which Runs may show a       *)
(* health out of step with their records: those whose last recorded call   *)
(* was in flight together with another call of the same Run.  Each of the  *)
(* two judges its own result against the history it finds, and the last to *)
(* commit decides, even if it started first.                               *)
(***************************************************************************)
EXTENDS Daemon

VARIABLES
  overlapped,  \* the calls in flight that another call of their Run overlapped
  doubted      \* ids of the Runs whose last recorded call was overlapped

healthVars == <<vars, overlapped, doubted>>

SameRun(c, d) == /\ c # d /\ calls[c] # None /\ calls[d] # None
                 /\ calls[c].run.id = calls[d].run.id

(* A call that finishes settles the health of its Run, or puts it in doubt.*)
Settled == {calls[c].run.id : c \in {d \in Callers \ overlapped : Persist(d)}}
Unsettled == {calls[c].run.id : c \in {d \in overlapped : Persist(d)}}

Observe ==
  /\ overlapped' = {c \in Callers : /\ calls'[c] # None
                                    /\ c \in overlapped \/ \E d \in Callers : SameRun(c, d)'}
  /\ doubted' = (doubted \ Settled) \cup Unsettled

HealthInit == Init /\ overlapped = {} /\ doubted = {}
HealthNext == Next /\ Observe
HealthSpec == HealthInit /\ [][HealthNext]_healthVars

-------------------------------------------------------------------------------
LatestRuns(n) ==
  LET own == {h \in history : h.runId = runs[n].id}
  IN  {h \in own : \A g \in own : g.at <= h.at}

(* A Run shows Paused exactly while it is disabled, although configure_run *)
(* and a run_once that read the row earlier write both fields.  A health   *)
(* other than Paused and Unknown is what derive_health says of the latest  *)
(* ScheduledRun against the ok runs before it (run.rs: the transaction     *)
(* "can't leave Run.health mismatched with the latest ScheduledRun"),      *)
(* unless the call recorded last overlapped another of the same Run.  Runs *)
(* started in one millisecond are equally late.                            *)
HealthIsOfLatestRun ==
  \A n \in {m \in Names : runs[m] # None} :
    /\ runs[n].health = "paused" <=> ~runs[n].enabled
    /\ runs[n].id \notin doubted /\ runs[n].health \in {"ok", "drift", "fail"}
       => \E h \in LatestRuns(n) :
            \E prior \in PriorOkWindows(history, runs[n].id, h.at) :
              runs[n].health = DeriveHealth(h, prior)
===============================================================================
