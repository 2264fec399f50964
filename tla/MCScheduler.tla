------------------------------ MODULE MCScheduler -----------------------------
(* Instances of Scheduler for TLC.  The names are a and b, in that order.  *)
EXTENDS Scheduler, TLC

CONSTANTS a, b

MCRank == a :> 1 @@ b :> 2
MCEvery(n) == [kind |-> "interval", every |-> n]
MCCron(n) == [kind |-> "cron", every |-> n]

MCMixed == {MCEvery(1), MCCron(1)}
MCEmitOne == {[ty \in RecordTypes |-> 1]}

(* The recipes are deployed before anything is scheduled, and the last call*)
(* allowed removes a run.                                                  *)
MCNext ==
  /\ SchedNext
  /\ edits' > edits => \A n \in Names : VersionsOf(n) # {}
  /\ deploys' # deploys => clock = 0 /\ edits = 0
  /\ edits' > edits /\ edits' = MaxEdits => \E n \in Names : runs[n] # None /\ runs'[n] = None

MCSpec == SchedInit /\ [][MCNext]_schedVars /\ Fairness
===============================================================================
