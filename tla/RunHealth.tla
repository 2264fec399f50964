------------------------------ MODULE RunHealth -------------------------------
(***************************************************************************)
(* Drift detection: forage-daemon's health.rs.  A scheduled run carries an *)
(* outcome and, per record type, how many records it emitted; a type that  *)
(* is missing from the stored map counts 0.  The history is a set of runs, *)
(* because the median does not depend on their order.                      *)
(***************************************************************************)
EXTENDS Integers, FiniteSets

CONSTANTS
  RecordTypes,   \* names of the record types a recipe may emit
  MinHistory,    \* ok runs needed before drift is judged (3 in the code)
  PriorWindow    \* ok runs the median looks back on (7 in the code)

ASSUME HealthAssumption == /\ MinHistory \in Nat \ {0}
                           /\ PriorWindow \in Nat

Health == {"ok", "drift", "fail", "paused", "unknown"}
Outcome == {"ok", "fail"}
Counts == [RecordTypes -> Nat]

(* The k-th smallest emit count of type ty over the runs.                  *)
KthCount(runs, ty, k) ==
  CHOOSE v \in {r.counts[ty] : r \in runs} :
    /\ Cardinality({r \in runs : r.counts[ty] < v}) < k
    /\ k <= Cardinality({r \in runs : r.counts[ty] <= v})

(* Twice the median, so that the mean of the two middle counts of an even  *)
(* window stays an integer.  0 for no runs.                                *)
TwiceMedian(runs, ty) ==
  LET n == Cardinality(runs)
  IN  IF n = 0 THEN 0
      ELSE IF n % 2 = 1 THEN 2 * KthCount(runs, ty, n \div 2 + 1)
      ELSE KthCount(runs, ty, n \div 2) + KthCount(runs, ty, n \div 2 + 1)

(* latest <= 0.7 * median in IEEE doubles.  0.7 is stored a little below   *)
(* 7/10, so where latest is exactly 70% of the median the product rounds   *)
(* back up to latest only if the lost part is at most half a unit in the   *)
(* last place, which is when latest <= 1.75 * 2^e for its leading power    *)
(* 2^e (emit counts are below 2^29 here).                                  *)
AtMostThreshold(latest, twiceMedian) ==
  \/ 20 * latest < 7 * twiceMedian
  \/ /\ 20 * latest = 7 * twiceMedian
     /\ \E e \in 0..28 : /\ 2^e <= latest /\ latest < 2^(e + 1)
                         /\ 4 * latest <= 7 * 2^e

(* A slip: only the types the latest run emitted are looked at.            *)
DriftsWhenEmitted(latest, prior) ==
  \E ty \in RecordTypes :
    LET median == TwiceMedian(prior, ty)
    IN  /\ latest.counts[ty] # 0
        /\ median # 0 /\ AtMostThreshold(latest.counts[ty], median)

(* A type nobody emitted before cannot drift; one that vanished does.      *)
Drifts(latest, prior) ==
  \E ty \in RecordTypes :
    LET median == TwiceMedian(prior, ty)
    IN  median # 0 /\ AtMostThreshold(latest.counts[ty], median)

DeriveHealth(latest, prior) ==
  IF latest.outcome = "fail" THEN "fail"
  ELSE IF Cardinality(prior) >= MinHistory /\ Drifts(latest, prior) THEN "drift"
  ELSE "ok"

(* list_prior_ok_scheduled_runs: the ok runs of one Run that started       *)
(* strictly before a time, newest first, cut at PriorWindow.  Runs of one  *)
(* millisecond come in no specified order, so a cut among them is free.    *)
PriorOkWindows(history, runId, before) ==
  LET ok == {h \in history : /\ h.runId = runId
                             /\ h.at < before
                             /\ h.outcome = "ok"}
      size == IF Cardinality(ok) < PriorWindow THEN Cardinality(ok) ELSE PriorWindow
  IN  {w \in SUBSET ok : /\ Cardinality(w) = size
                         /\ \A h \in w, g \in ok \ w : g.at <= h.at}
===============================================================================
