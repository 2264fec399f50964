------------------------------- MODULE MCDaemon -------------------------------
(***************************************************************************)
(* Instances of DaemonHealth for TLC.  A behaviour is either concurrent,   *)
(* with callers and deployers that overlap and a short clock, or it has    *)
(* one call in flight at a time, a longer clock and runs that emit one     *)
(* record or two: enough for a history that a health is drawn from.        *)
(***************************************************************************)
EXTENDS DaemonHealth, FiniteSets, Functions, TLC

VARIABLE concurrent

MCManual == [kind |-> "manual", every |-> 0]

MCCadences == {MCManual}
MCEmitOne == {[ty \in RecordTypes |-> 1]}
MCEmitOneTwo == {[ty \in RecordTypes |-> k] : k \in {1, 2}}

MCSymmetry == Permutations(Callers \ {Scheduler}) \cup Permutations(Deployers)

InFlight(tasks) == Cardinality({t \in DOMAIN tasks : tasks[t] # None})

Overlapping ==
  /\ clock' <= 1 /\ ulid' <= 3
  /\ \A call \in Range(calls') :
       call # None /\ call.pc = "persist" => \A ty \in RecordTypes : call.row.counts[ty] <= 1

OneAtATime ==
  /\ InFlight(calls') <= 1 /\ InFlight(deploys') <= 1 /\ InFlight(ensures') = 0
  /\ \A deploy \in Range(deploys') : deploy # None => deploy.version = 1

MCInit == HealthInit /\ concurrent \in BOOLEAN

MCNext ==
  /\ HealthNext
  /\ UNCHANGED concurrent
  /\ IF concurrent THEN Overlapping ELSE OneAtATime

MCSpec == MCInit /\ [][MCNext]_<<healthVars, concurrent>>
===============================================================================
