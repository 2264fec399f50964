----------------------------- MODULE DaemonProofs -----------------------------
(***************************************************************************)
(* The daemon's safety, and that of its scheduler, for every number of     *)
(* recipes, callers, deployers and versions, every cadence and every bound *)
(* on the clock.                                                           *)
(*                                                                         *)
(* The properties of Daemon speak of the tables alone; they hold because   *)
(* of what the calls in flight may still write, so the inductive invariant *)
(* Inv says of every snapshot of a row what it says of the row itself.     *)
(* The scheduler never sleeps past a due run, and fires no tick twice:     *)
(* both follow from one ordering, what the task fired lies before what the *)
(* row of the Run says is next, before the plan it sleeps for, and before  *)
(* the run it has under way.                                               *)
(***************************************************************************)
EXTENDS Scheduler, DaemonHealth, OutputStore, FiniteSetTheorems, WellFoundedInduction, TLAPS

-------------------------------------------------------------------------------
(* Every set of numbers has a least one.                                   *)
LEMMA LeastNatural ==
  ASSUME NEW T \in SUBSET Nat, T # {}
  PROVE  \E x \in T : \A y \in T : x <= y
<1> DEFINE Less == OpToRel(<, Nat)
<1>1. PICK x \in T : \A y \in T : ~(<<y, x>> \in Less)
  BY NatLessThanWellFounded, WFMin
<1>2. \A y \in T : y < x => <<y, x>> \in Less
  BY DEF OpToRel
<1> HIDE DEF Less
<1>3. \A y \in T : ~(y < x)
  BY <1>1, <1>2
<1> QED BY <1>3

-------------------------------------------------------------------------------
(* Drift: what the median of a window says of the runs in it.              *)

(* Runs whose emit count of a type is known.                               *)
Counted(past, ty) == IsFiniteSet(past) /\ \A r \in past : r.counts[ty] \in Nat

Upto(past, ty, v) == {r \in past : r.counts[ty] <= v}
Below(past, ty, v) == {r \in past : r.counts[ty] < v}

LEMMA PartsAreCounted ==
  ASSUME NEW past, NEW ty, Counted(past, ty), NEW v
  PROVE  /\ IsFiniteSet(Upto(past, ty, v)) /\ Cardinality(Upto(past, ty, v)) \in Nat
         /\ IsFiniteSet(Below(past, ty, v)) /\ Cardinality(Below(past, ty, v)) \in Nat
         /\ Cardinality(past) \in Nat
<1>1. IsFiniteSet(past) /\ Upto(past, ty, v) \in SUBSET past /\ Below(past, ty, v) \in SUBSET past
  BY DEF Counted, Upto, Below
<1>2. IsFiniteSet(Upto(past, ty, v)) /\ IsFiniteSet(Below(past, ty, v))
  BY <1>1, FS_Subset
<1> QED BY <1>1, <1>2, FS_CardinalityType

(* Some run emitted most.                                                  *)
LEMMA SomeRunEmittedMost ==
  ASSUME NEW past, NEW ty, Counted(past, ty), past # {}
  PROVE  \E r \in past : \A q \in past : q.counts[ty] <= r.counts[ty]
<1> DEFINE n == Cardinality(past)
           Rest(r) == n - Cardinality(Upto(past, ty, r.counts[ty]))
           T == {Rest(r) : r \in past}
<1>1. \A v : /\ IsFiniteSet(Upto(past, ty, v)) /\ Cardinality(Upto(past, ty, v)) \in Nat
             /\ n \in Nat
  BY PartsAreCounted
<1>2. \A v : Cardinality(Upto(past, ty, v)) <= n
  <2>1. IsFiniteSet(past) /\ \A v : Upto(past, ty, v) \in SUBSET past
    BY DEF Counted, Upto
  <2> QED BY <2>1, FS_Subset
<1> HIDE DEF n
<1>3. \A r \in past : Rest(r) \in Nat
  BY <1>1, <1>2
<1>4. T \in SUBSET Nat /\ T # {}
  BY <1>3
<1> HIDE DEF T
<1>5. PICK x \in T : \A y \in T : x <= y
  BY <1>4, LeastNatural
<1>6. PICK r \in past : x = Rest(r)
  BY <1>5 DEF T
<1>7. ASSUME NEW q \in past, q.counts[ty] > r.counts[ty]
      PROVE  FALSE
  <2> DEFINE R == Upto(past, ty, r.counts[ty])
             Q == Upto(past, ty, q.counts[ty])
  <2>1. R \subseteq Q /\ q \in Q /\ q \notin R
    BY <1>6, <1>7 DEF Counted, Upto
  <2>2. IsFiniteSet(Q) /\ R \in SUBSET Q /\ Cardinality(R) \in Nat /\ Cardinality(Q) \in Nat
    BY <1>1, <2>1
  <2> HIDE DEF R, Q
  <2>3. Cardinality(R) <= Cardinality(Q) /\ Cardinality(R) # Cardinality(Q)
    BY <2>1, <2>2, FS_Subset
  <2>4. n - Cardinality(R) <= n - Cardinality(Q)
    BY <1>5, <1>6 DEF T, R, Q
  <2> QED BY <1>1, <2>2, <2>3, <2>4
<1> QED BY <1>6, <1>7 DEF Counted

(* The k-th smallest count is where fewer than k runs lie below, and k at  *)
(* or below.                                                               *)
LEMMA KthCountIsKth ==
  ASSUME NEW past, NEW ty, Counted(past, ty), NEW k \in Nat \ {0}, k <= Cardinality(past)
  PROVE  LET v == KthCount(past, ty, k)
         IN  /\ v \in Nat
             /\ Cardinality(Below(past, ty, v)) < k
             /\ k <= Cardinality(Upto(past, ty, v))
<1> DEFINE T == {v \in {r.counts[ty] : r \in past} : k <= Cardinality(Upto(past, ty, v))}
<1>1. T \in SUBSET Nat
  BY DEF Counted
<1>2. T # {}
  <2>1. past # {}
    BY FS_EmptySet
  <2>2. PICK r \in past : \A q \in past : q.counts[ty] <= r.counts[ty]
    BY <2>1, SomeRunEmittedMost
  <2>3. Upto(past, ty, r.counts[ty]) = past
    BY <2>2 DEF Upto
  <2> QED BY <2>2, <2>3
<1>3. PICK v \in T : \A w \in T : v <= w
  <2> HIDE DEF T
  <2> QED BY <1>1, <1>2, LeastNatural
<1>4. Cardinality(Below(past, ty, v)) < k
  <2> SUFFICES ASSUME k <= Cardinality(Below(past, ty, v)) PROVE FALSE
    BY PartsAreCounted
  <2> DEFINE S == Below(past, ty, v)
  <2>1. Counted(S, ty) /\ S # {}
    BY PartsAreCounted, FS_EmptySet DEF Counted, Below
  <2>2. PICK r \in S : \A q \in S : q.counts[ty] <= r.counts[ty]
    <3> HIDE DEF S
    <3> QED BY <2>1, SomeRunEmittedMost
  <2>3. r \in past /\ r.counts[ty] < v /\ r.counts[ty] \in Nat /\ v \in Nat
    BY <1>1, <2>2 DEF Below, Counted
  <2>4. S \in SUBSET Upto(past, ty, r.counts[ty])
    BY <2>2 DEF Upto, Below
  <2>5. Cardinality(S) <= Cardinality(Upto(past, ty, r.counts[ty]))
    <3> HIDE DEF S
    <3> QED BY <2>4, PartsAreCounted, FS_Subset
  <2>6. k <= Cardinality(Upto(past, ty, r.counts[ty]))
    <3>1. Cardinality(S) \in Nat /\ Cardinality(Upto(past, ty, r.counts[ty])) \in Nat
      BY PartsAreCounted
    <3>2. k <= Cardinality(S)
      OBVIOUS
    <3> HIDE DEF S
    <3> QED BY <2>5, <3>1, <3>2
  <2>7. r.counts[ty] \in T
    BY <2>3, <2>6
  <2> QED BY <1>3, <2>3, <2>7
<1>5. \E w \in {r.counts[ty] : r \in past} :
        /\ Cardinality({r \in past : r.counts[ty] < w}) < k
        /\ k <= Cardinality({r \in past : r.counts[ty] <= w})
  BY <1>3, <1>4 DEF Upto, Below
<1>6. LET w == KthCount(past, ty, k)
      IN  /\ w \in {r.counts[ty] : r \in past}
          /\ Cardinality({r \in past : r.counts[ty] < w}) < k
          /\ k <= Cardinality({r \in past : r.counts[ty] <= w})
  BY <1>5 DEF KthCount
<1> QED BY <1>6 DEF Upto, Below, Counted

(* Twice the median is a sum of two counts, each with at most half of the  *)
(* runs below it and at least half of them at or below it.                 *)
Middle(past, ty, v) ==
  /\ v \in Nat
  /\ 2 * Cardinality(Below(past, ty, v)) <= Cardinality(past)
  /\ 2 * Cardinality(Upto(past, ty, v)) >= Cardinality(past)

LEMMA MedianIsMiddle ==
  ASSUME NEW past, NEW ty, Counted(past, ty), past # {}
  PROVE  \E v, w : Middle(past, ty, v) /\ Middle(past, ty, w) /\ TwiceMedian(past, ty) = v + w
<1> DEFINE n == Cardinality(past)
<1>1. n \in Nat \ {0}
  BY FS_EmptySet, FS_CardinalityType DEF Counted
<1>2. ASSUME NEW k \in Nat \ {0}, k <= n, 2 * k <= n + 2, 2 * k >= n
      PROVE  Middle(past, ty, KthCount(past, ty, k))
  <2>1. PICK v : v = KthCount(past, ty, k)
    OBVIOUS
  <2>2. /\ v \in Nat /\ Cardinality(Below(past, ty, v)) < k /\ k <= Cardinality(Upto(past, ty, v))
    BY <1>2, <2>1, KthCountIsKth
  <2>3. Cardinality(Below(past, ty, v)) \in Nat /\ Cardinality(Upto(past, ty, v)) \in Nat
    BY PartsAreCounted
  <2> HIDE DEF n
  <2>4. 2 * Cardinality(Below(past, ty, v)) <= n /\ 2 * Cardinality(Upto(past, ty, v)) >= n
    BY <1>1, <1>2, <2>2, <2>3
  <2> QED BY <2>1, <2>2, <2>4 DEF Middle, n
<1>3. CASE n % 2 = 1
  <2> DEFINE k == n \div 2 + 1
  <2>1. k \in Nat \ {0} /\ k <= n /\ 2 * k <= n + 2 /\ 2 * k >= n
    <3> HIDE DEF n
    <3> QED BY <1>1, <1>3
  <2>2. TwiceMedian(past, ty) = 2 * KthCount(past, ty, k)
    BY <1>1, <1>3 DEF TwiceMedian
  <2>3. PICK v : v = KthCount(past, ty, k)
    OBVIOUS
  <2>4. Middle(past, ty, v) /\ TwiceMedian(past, ty) = 2 * v
    BY <1>2, <2>1, <2>2, <2>3
  <2>5. 2 * v = v + v
    BY <2>4 DEF Middle
  <2> QED BY <2>4, <2>5
<1>4. CASE n % 2 # 1
  <2> DEFINE k == n \div 2
  <2>1. /\ k \in Nat \ {0} /\ k <= n /\ 2 * k <= n + 2 /\ 2 * k >= n
        /\ k + 1 \in Nat \ {0} /\ k + 1 <= n /\ 2 * (k + 1) <= n + 2 /\ 2 * (k + 1) >= n
    <3> HIDE DEF n
    <3> QED BY <1>1, <1>4
  <2>2. TwiceMedian(past, ty) = KthCount(past, ty, k) + KthCount(past, ty, k + 1)
    BY <1>1, <1>4 DEF TwiceMedian
  <2>3. Middle(past, ty, KthCount(past, ty, k)) /\ Middle(past, ty, KthCount(past, ty, k + 1))
    BY <1>2, <2>1
  <2> QED BY <2>2, <2>3
<1> QED BY <1>3, <1>4

ComparableRuns(latest, prior) ==
  /\ IsFiniteSet(prior) /\ latest.counts \in Counts
  /\ \A r \in prior : r.counts \in Counts

(* Drift is never said of a run that most of the window did not surpass:   *)
(* for some record type at least half of the runs it was compared with     *)
(* emitted more, whatever the length of the window and its outliers.       *)
THEOREM DriftIsBelowHalf ==
  ASSUME NEW latest, NEW prior, ComparableRuns(latest, prior), DeriveHealth(latest, prior) = "drift"
  PROVE  \E ty \in RecordTypes :
           2 * Cardinality({r \in prior : r.counts[ty] > latest.counts[ty]}) >= Cardinality(prior)
<1>1. /\ latest.outcome # "fail" /\ Cardinality(prior) >= MinHistory /\ Drifts(latest, prior)
  BY DEF DeriveHealth
<1>2. PICK ty \in RecordTypes :
        TwiceMedian(prior, ty) # 0 /\ AtMostThreshold(latest.counts[ty], TwiceMedian(prior, ty))
  BY <1>1 DEF Drifts
<1>3. Counted(prior, ty) /\ prior # {}
  BY <1>1, FS_EmptySet, HealthAssumption DEF ComparableRuns, Counted, Counts
<1>4. PICK v, w : Middle(prior, ty, v) /\ Middle(prior, ty, w) /\ TwiceMedian(prior, ty) = v + w
  BY <1>3, MedianIsMiddle
<1>5. PICK emit \in Nat : emit = latest.counts[ty]
  BY DEF ComparableRuns, Counts
<1>6. 20 * emit <= 7 * (v + w) /\ v + w # 0
  BY <1>2, <1>4, <1>5 DEF AtMostThreshold, Middle
<1>7. emit < v \/ emit < w
  BY <1>4, <1>5, <1>6 DEF Middle
<1>8. ASSUME NEW m, Middle(prior, ty, m), emit < m
      PROVE  2 * Cardinality({r \in prior : r.counts[ty] > emit}) >= Cardinality(prior)
  <2> DEFINE B == Below(prior, ty, m)
             A == {r \in prior : r.counts[ty] > emit}
  <2>1. IsFiniteSet(prior) /\ A \in SUBSET prior /\ prior \ B \in SUBSET A /\ B \subseteq prior
    BY <1>3, <1>5, <1>8 DEF Counted, Below, Middle
  <2>2. 2 * Cardinality(B) <= Cardinality(prior)
    BY <1>8 DEF Middle
  <2>3. prior \cap B = B
    BY <2>1
  <2> HIDE DEF A, B
  <2>4. IsFiniteSet(A) /\ Cardinality(prior \ B) <= Cardinality(A)
    BY <2>1, FS_Subset
  <2>5. Cardinality(prior \ B) = Cardinality(prior) - Cardinality(B)
    BY <2>1, <2>3, FS_Difference
  <2>6. Cardinality(A) \in Nat /\ Cardinality(prior) \in Nat /\ Cardinality(B) \in Nat
    BY <2>1, <2>4, FS_CardinalityType, FS_Subset
  <2>7. 2 * Cardinality(A) >= Cardinality(prior)
    BY <2>2, <2>4, <2>5, <2>6
  <2> QED BY <2>7 DEF A
<1> QED BY <1>4, <1>5, <1>7, <1>8

(* Nor is it missed: if more than half of the runs compared with emitted   *)
(* so much of one record type that the latest count is under 70% of each,  *)
(* a successful run after enough history is drift, whatever the others     *)
(* emitted.                                                                *)
THEOREM FallOfMostIsDrift ==
  ASSUME NEW latest, NEW prior, ComparableRuns(latest, prior), latest.outcome = "ok",
         Cardinality(prior) >= MinHistory, NEW ty \in RecordTypes,
         2 * Cardinality({r \in prior : 10 * latest.counts[ty] < 7 * r.counts[ty]}) > Cardinality(prior)
  PROVE  DeriveHealth(latest, prior) = "drift"
<1>1. Counted(prior, ty) /\ prior # {}
  BY FS_EmptySet, HealthAssumption DEF ComparableRuns, Counted, Counts
<1>2. PICK v, w : Middle(prior, ty, v) /\ Middle(prior, ty, w) /\ TwiceMedian(prior, ty) = v + w
  BY <1>1, MedianIsMiddle
<1>3. PICK emit \in Nat : emit = latest.counts[ty]
  BY DEF ComparableRuns, Counts
<1>4. ASSUME NEW m, Middle(prior, ty, m)
      PROVE  10 * emit < 7 * m
  <2> DEFINE U == Upto(prior, ty, m)
             A == {r \in prior : 10 * latest.counts[ty] < 7 * r.counts[ty]}
  <2>1. IsFiniteSet(prior) /\ A \subseteq prior /\ U \subseteq prior
    BY <1>1 DEF Counted, Upto
  <2>2. 2 * Cardinality(U) >= Cardinality(prior) /\ 2 * Cardinality(A) > Cardinality(prior)
    BY <1>4 DEF Middle
  <2>3. \A r \in U \cap A : 10 * emit < 7 * r.counts[ty] /\ r.counts[ty] <= m /\ r.counts[ty] \in Nat
    BY <1>1, <1>3 DEF Counted, Upto
  <2> HIDE DEF U, A
  <2>4. Cardinality(A) \in Nat /\ Cardinality(U) \in Nat /\ Cardinality(prior) \in Nat
    BY <2>1, FS_CardinalityType, FS_Subset
  <2>5. Cardinality(U) + Cardinality(A) > Cardinality(prior)
    BY <2>2, <2>4
  <2>6. PICK r : r \in U \cap A
    BY <2>1, <2>5, FS_MajoritiesIntersect
  <2> QED BY <1>3, <1>4, <2>3, <2>6 DEF Middle
<1>5. v \in Nat /\ w \in Nat /\ 10 * emit < 7 * v /\ 10 * emit < 7 * w
  BY <1>2, <1>4 DEF Middle
<1>6. 20 * emit < 7 * (v + w) /\ v + w # 0
  BY <1>5
<1>7. Drifts(latest, prior)
  BY <1>2, <1>3, <1>6 DEF Drifts, AtMostThreshold
<1> QED BY <1>7 DEF DeriveHealth

-------------------------------------------------------------------------------
(* The scheduler's arithmetic, for every cadence and every length of a     *)
(* TimeUnit.                                                               *)

(* A step is at least one tick, every_n = 0 included.                      *)
LEMMA StepPositive ==
  ASSUME NEW cadence \in Cadence
  PROVE  IntervalStep(cadence) \in Nat \ {0}
BY TicksAssumption DEF IntervalStep, Cadence

(* Euclid: what \div leaves is less than the divisor.                      *)
LEMMA DivBounds ==
  ASSUME NEW a \in Nat, NEW b \in Nat \ {0}
  PROVE  /\ a \div b \in Nat
         /\ (a \div b) * b <= a
         /\ a < (a \div b + 1) * b
BY Z3

(* interval_ms and advance_next_run: whatever the Run missed, the next     *)
(* tick is after now, less than a step after it unless the fired tick was  *)
(* itself ahead of now, and a whole number of steps from the fired tick.   *)
THEOREM IntervalAfterIsAhead ==
  ASSUME NEW anchor \in Int, NEW step \in Nat \ {0}, NEW now \in Int
  PROVE  /\ IntervalAfter(anchor, step, now) \in Int
         /\ IntervalAfter(anchor, step, now) > now
         /\ anchor <= now => IntervalAfter(anchor, step, now) <= now + step
         /\ \E k \in Nat \ {0} : IntervalAfter(anchor, step, now) = anchor + k * step
<1> DEFINE next == anchor + step
           skips == (now - next) \div step
<1>1. CASE next > now
  <2>1. IntervalAfter(anchor, step, now) = anchor + 1 * step
    BY <1>1 DEF IntervalAfter
  <2> QED BY <2>1, <1>1
<1>2. CASE next <= now
  <2>1. now - next \in Nat
    BY <1>2
  <2>2. /\ skips \in Nat
        /\ skips * step <= now - next
        /\ now - next < (skips + 1) * step
    BY <2>1, DivBounds
  <2>3. IntervalAfter(anchor, step, now) = next + (skips + 1) * step
    BY <1>2 DEF IntervalAfter
  <2>4. (skips + 1) * step = skips * step + step
    BY <2>2
  <2>5. (skips + 1) * step \in Int /\ skips * step \in Int
    BY <2>2
  <2>6. next + (skips + 1) * step = anchor + (skips + 2) * step
    BY <2>2
  <2>7. skips + 2 \in Nat \ {0}
    BY <2>2
  <2> HIDE DEF skips
  <2>8. next + (skips + 1) * step > now
    BY <2>2, <2>5
  <2>9. next + (skips + 1) * step <= now + step
    BY <2>2, <2>4, <2>5
  <2> QED BY <2>3, <2>5, <2>6, <2>7, <2>8, <2>9
<1> QED BY <1>1, <1>2

(* No tick of the grid between now and the next fire is passed over.       *)
THEOREM IntervalAfterIsFirst ==
  ASSUME NEW anchor \in Int, NEW step \in Nat \ {0}, NEW now \in Int,
         NEW k \in Nat \ {0}, anchor + k * step > now
  PROVE  IntervalAfter(anchor, step, now) <= anchor + k * step
<1>1. CASE anchor > now
  <2>1. IntervalAfter(anchor, step, now) = anchor + step
    BY <1>1 DEF IntervalAfter
  <2>2. step <= k * step
    BY Z3
  <2> QED BY <2>1, <2>2
<1>2. CASE anchor <= now
  <2>1. PICK j \in Nat \ {0} : IntervalAfter(anchor, step, now) = anchor + j * step
    BY IntervalAfterIsAhead
  <2>2. anchor + j * step <= now + step
    BY <1>2, <2>1, IntervalAfterIsAhead
  <2>3. j * step \in Int /\ k * step \in Int /\ (k + 1) * step = k * step + step
    OBVIOUS
  <2>4. j * step < (k + 1) * step
    BY <2>2, <2>3
  <2>5. j < k + 1
    BY <2>4, Z3
  <2>6. j * step <= k * step
    BY <2>5, Z3
  <2> QED BY <2>1, <2>3, <2>6
<1> QED BY <1>1, <1>2

(* A cron expression fires strictly after now.                             *)
LEMMA CronNextFireIsAhead ==
  ASSUME NEW cadence \in Cadence, NEW now \in Nat
  PROVE  CronNextFire(cadence, now) \in Nat /\ CronNextFire(cadence, now) > now
<1>1. IntervalStep(cadence) \in Nat \ {0}
  BY StepPositive
<1> DEFINE step == IntervalStep(cadence)
<1>2. (now \div step) \in Nat /\ now < (now \div step + 1) * step
  BY <1>1, DivBounds
<1>3. (now \div step + 1) * step \in Nat
  BY <1>1, <1>2
<1> QED BY <1>2, <1>3 DEF CronNextFire

(* The tick a fired Run is left with is ahead of the clock: the scheduler  *)
(* cannot find it due again at once, and no tick fires twice.              *)
THEOREM AdvanceIsAhead ==
  ASSUME NEW cadence \in Cadence, NEW nextRun \in Int \cup {None}, NEW now \in Nat
  PROVE  /\ AdvanceNextRun(cadence, nextRun, now) \in Int \cup {None}
         /\ AdvanceNextRun(cadence, nextRun, now) # None
              => AdvanceNextRun(cadence, nextRun, now) > now
<1>1. CASE cadence.kind = "interval"
  <2> DEFINE anchor == IF nextRun = None THEN now ELSE nextRun
  <2>1. anchor \in Int
    OBVIOUS
  <2>2. AdvanceNextRun(cadence, nextRun, now)
          = IntervalAfter(anchor, IntervalStep(cadence), now)
    BY <1>1 DEF AdvanceNextRun
  <2> HIDE DEF anchor
  <2> QED BY <2>1, <2>2, StepPositive, IntervalAfterIsAhead
<1>2. CASE cadence.kind = "cron"
  BY <1>2, CronNextFireIsAhead DEF AdvanceNextRun
<1>3. CASE cadence.kind \notin {"interval", "cron"}
  BY <1>3 DEF AdvanceNextRun
<1> QED BY <1>1, <1>2, <1>3

(* What configure_run stores is a time or nothing.                         *)
LEMMA NextFireForType ==
  ASSUME NEW cadence \in Cadence, NEW nextRun \in Int \cup {None}, NEW now \in Nat
  PROVE  NextFireFor(cadence, nextRun, now) \in Int \cup {None}
<1>1. CASE cadence.kind = "interval"
  BY <1>1, StepPositive DEF NextFireFor
<1>2. CASE cadence.kind = "cron"
  BY <1>2, CronNextFireIsAhead DEF NextFireFor
<1>3. CASE cadence.kind \notin {"interval", "cron"}
  BY <1>3 DEF NextFireFor
<1> QED BY <1>1, <1>2, <1>3

-------------------------------------------------------------------------------
(* The inductive invariant.                                                *)

HasHighest(S) == S = {} \/ \E x \in S : \A y \in S : y <= x

(* Highest is well defined on the versions of every recipe.                *)
VersionsHaveHighest ==
  \A n \in Names : HasHighest(VersionsOf(n)) /\ HasHighest(DirsOf(n))

(* No row without its directory, and one directory per version.            *)
RowsHaveDirs ==
  /\ \A n \in Names : VersionsOf(n) \subseteq DirsOf(n)
  /\ \A d, e \in dirs : d.name = e.name /\ d.version = e.version => d = e

OneDeploy ==
  \A d, e \in Deployers : deploys[d] # None /\ deploys[e] # None => d = e

(* A deploy under way is going to add a version above every other one; its *)
(* directory is not there before the write, and there after it.            *)
DeployAhead ==
  \A d \in Deployers :
    deploys[d] # None =>
      LET call == deploys[d] IN
      /\ \A v \in VersionsOf(call.name) : v < call.version
      /\ call.pc = "write" => call.version \notin DirsOf(call.name)
      /\ call.pc = "commit" => call.version \in DirsOf(call.name)

(* What both a stored row and a row in flight satisfy: its pointer can be  *)
(* loaded, and it shows Paused exactly if it is disabled.                  *)
RunSound(run) ==
  /\ run.version # None => Loadable(run.name, run.version)
  /\ run.health = "paused" <=> ~run.enabled

RowsSound ==
  \A n \in Names : runs[n] # None => runs[n].name = n /\ RunSound(runs[n])

(* A run_once call may write back the row it read.                         *)
CallsSound == \A c \in Callers : calls[c] # None => RunSound(calls[c].run)

LogInv == VersionsHaveHighest /\ RowsHaveDirs /\ OneDeploy /\ DeployAhead

RowInv == RowsSound /\ CallsSound

Inv == TypeOK /\ LogInv /\ RowInv

-------------------------------------------------------------------------------
(* Operators.                                                              *)

LEMMA HighestIsIn ==
  ASSUME NEW S, HasHighest(S), S # {}
  PROVE  Highest(S) \in S /\ \A y \in S : y <= Highest(S)
BY DEF HasHighest, Highest

(* Two sets of versions with a highest member each have one together.      *)
LEMMA HighestOfUnion ==
  ASSUME NEW S \in SUBSET Nat, NEW T \in SUBSET Nat, HasHighest(S), HasHighest(T)
  PROVE  HasHighest(S \cup T)
<1>1. CASE S = {} \/ T = {}
  <2>1. S \cup T = S \/ S \cup T = T
    BY <1>1
  <2> QED BY <2>1
<1>2. CASE S # {} /\ T # {}
  <2>1. PICK s \in S : \A y \in S : y <= s
    BY <1>2 DEF HasHighest
  <2>2. PICK t \in T : \A y \in T : y <= t
    BY <1>2 DEF HasHighest
  <2>3. CASE s <= t
    <3>1. \A y \in S \cup T : y <= t
      BY <2>1, <2>2, <2>3
    <3> QED BY <3>1, <2>2 DEF HasHighest
  <2>4. CASE ~(s <= t)
    <3>1. \A y \in S \cup T : y <= s
      BY <2>1, <2>2, <2>4
    <3> QED BY <3>1, <2>1 DEF HasHighest
  <2> QED BY <2>3, <2>4
<1> QED BY <1>1, <1>2

LEMMA HighestAfterAdding ==
  ASSUME NEW S \in SUBSET Nat, NEW v \in Nat, HasHighest(S)
  PROVE  HasHighest(S \cup {v})
<1>1. HasHighest({v})
  BY DEF HasHighest
<1> QED BY <1>1, HighestOfUnion

LEMMA VersionSets ==
  ASSUME TypeOK, NEW n \in Names
  PROVE  VersionsOf(n) \in SUBSET Nat /\ DirsOf(n) \in SUBSET Nat
BY DEF TypeOK, VersionsOf, DirsOf, DeployedVersion, DeploymentDir

(* latest_deployed_version: None or the version of a row.                  *)
LEMMA LatestIsDeployed ==
  ASSUME TypeOK, VersionsHaveHighest, NEW n \in Names
  PROVE  LatestDeployedVersion(n) = None \/ LatestDeployedVersion(n) \in VersionsOf(n)
BY HighestIsIn DEF LatestDeployedVersion, VersionsHaveHighest

(* The version a deploy picks is above every row and every directory.      *)
LEMMA NextVersionIsAhead ==
  ASSUME TypeOK, VersionsHaveHighest, NEW n \in Names
  PROVE  /\ NextVersion(n) \in Nat
         /\ \A v \in VersionsOf(n) \cup DirsOf(n) : v < NextVersion(n)
<1> DEFINE taken == VersionsOf(n) \cup DirsOf(n)
<1>1. taken \in SUBSET Nat /\ HasHighest(taken)
  BY VersionSets, HighestOfUnion DEF VersionsHaveHighest
<1>2. CASE taken = {}
  BY <1>2 DEF NextVersion
<1>3. CASE taken # {}
  <2>1. Highest(taken) \in taken /\ \A y \in taken : y <= Highest(taken)
    BY <1>1, <1>3, HighestIsIn
  <2>2. NextVersion(n) = Highest(taken) + 1
    BY <1>3 DEF NextVersion
  <2> HIDE DEF taken
  <2>3. Highest(taken) \in Nat
    BY <1>1, <2>1
  <2>4. \A v \in taken : v < Highest(taken) + 1
    BY <1>1, <2>1, <2>3
  <2> QED BY <2>2, <2>3, <2>4 DEF taken
<1> QED BY <1>2, <1>3

LEMMA DeriveHealthType ==
  ASSUME NEW latest, NEW prior
  PROVE  DeriveHealth(latest, prior) \in {"ok", "drift", "fail"}
BY DEF DeriveHealth

(* The row run_once writes back is a row, with the pointer it read, and    *)
(* shows Paused exactly if the row it read was disabled.                   *)
LEMMA RowAfterRunSound ==
  ASSUME TypeOK, NEW run \in Run, NEW health \in {"ok", "drift", "fail"}
  PROVE  LET row == RowAfterRun(run, health) IN
         /\ row \in Run
         /\ row.id = run.id /\ row.name = run.name /\ row.version = run.version
         /\ row.health = "paused" <=> ~row.enabled
<1> DEFINE next == AdvanceNextRun(run.cadence, run.nextRun, clock)
<1>1. next \in Int \cup {None}
  BY AdvanceIsAhead DEF TypeOK, Run
<1>2. RowAfterRun(run, health) =
        [run EXCEPT !.health = IF run.enabled THEN health ELSE "paused",
                    !.nextRun = next]
  BY DEF RowAfterRun
<1> HIDE DEF next
<1> QED BY <1>1, <1>2 DEF Run, Health

-------------------------------------------------------------------------------
(* Types.                                                                  *)

LEMMA RunTypes ==
  ASSUME TypeOK, NEW n \in Names, runs[n] # None
  PROVE  runs[n] \in Run
BY DEF TypeOK

LEMMA FreshRunType ==
  ASSUME TypeOK, VersionsHaveHighest,
         NEW n \in Names, NEW config \in RunConfig, NEW id \in Nat
  PROVE  FreshRun(n, config, id) \in Run
<1>1. LatestDeployedVersion(n) \in Nat \cup {None}
  BY LatestIsDeployed, VersionSets
<1>2. NextFireFor(config.cadence, None, clock) \in Int \cup {None}
  BY NextFireForType DEF RunConfig, TypeOK
<1> QED BY <1>1, <1>2 DEF FreshRun, Run, RunConfig, Health

LEMMA ReconfiguredType ==
  ASSUME TypeOK, NEW prev \in Run, NEW config \in RunConfig
  PROVE  LET row == Reconfigured(prev, config) IN
         /\ row \in Run
         /\ row.id = prev.id /\ row.name = prev.name /\ row.version = prev.version
         /\ row.enabled = config.enabled
         /\ row.health = IF ~config.enabled THEN "paused"
                         ELSE IF ~prev.enabled THEN "unknown"
                         ELSE prev.health
<1> DEFINE next == NextFireFor(config.cadence, None, clock)
           health == IF ~config.enabled THEN "paused"
                     ELSE IF ~prev.enabled THEN "unknown"
                     ELSE prev.health
<1>1. next \in Int \cup {None}
  BY NextFireForType DEF RunConfig, TypeOK
<1>2. health \in Health
  BY DEF Run, Health
<1>3. Reconfigured(prev, config) =
        [prev EXCEPT !.enabled = config.enabled, !.cadence = config.cadence,
                     !.output = config.output, !.health = health, !.nextRun = next]
  BY DEF Reconfigured
<1> HIDE DEF next, health
<1>4. /\ Reconfigured(prev, config) \in Run
      /\ Reconfigured(prev, config).id = prev.id
      /\ Reconfigured(prev, config).name = prev.name
      /\ Reconfigured(prev, config).version = prev.version
      /\ Reconfigured(prev, config).enabled = config.enabled
      /\ Reconfigured(prev, config).health = health
  BY <1>1, <1>2, <1>3 DEF Run, RunConfig
<1> QED BY <1>4 DEF health

LEMMA DefaultConfigType == DefaultConfig \in RunConfig
BY DaemonAssumption DEF DefaultConfig, RunConfig, Cadence

LEMMA ConfiguredType ==
  ASSUME TypeOK, VersionsHaveHighest, NEW n \in Names, NEW config \in RunConfig,
         Configured(n, config), ensures' \in [Clients -> Names \cup {None}]
  PROVE  TypeOK'
<1>1. CASE runs[n] = None
  <2>1. ulid' \in Nat /\ ulid + 1 \in Nat
    BY <1>1 DEF Configured, TypeOK
  <2>2. runs' \in [Names -> Run \cup {None}]
    BY <1>1, <2>1, FreshRunType DEF Configured, UpdateRun, FreshRun, TypeOK
  <2> QED BY <2>1, <2>2 DEF Configured, Notify, TypeOK
<1>2. CASE runs[n] # None
  <2>1. runs[n] \in Run
    BY <1>2, RunTypes
  <2>2. Reconfigured(runs[n], config) \in Run
    BY <2>1, ReconfiguredType
  <2>3. runs' \in [Names -> Run \cup {None}]
    BY <1>2, <2>2 DEF Configured, UpdateRun, TypeOK
  <2> QED BY <1>2, <2>3 DEF Configured, Notify, TypeOK
<1> QED BY <1>1, <1>2

LEMMA CallTypes ==
  ASSUME TypeOK, NEW c \in Callers, calls[c] # None
  PROVE  /\ calls[c].run \in Run
         /\ calls[c].pc = "engine" => calls[c] \in EngineCall
         /\ calls[c].pc = "persist" => calls[c] \in PersistCall
         /\ calls[c].pc \in {"engine", "persist"}
BY DEF TypeOK, EngineCall, PersistCall

LEMMA DeployTypes ==
  ASSUME TypeOK, NEW d \in Deployers, deploys[d] # None
  PROVE  deploys[d] \in DeployCall
BY DEF TypeOK

LEMMA RowOfType ==
  ASSUME TypeOK, NEW c \in Callers, calls[c] # None, calls[c].pc = "engine",
         NEW outcome \in Outcome, NEW counts \in Counts
  PROVE  RowOf(c, outcome, counts) \in ScheduledRun
<1>1. calls[c] \in EngineCall
  BY CallTypes
<1> QED BY <1>1 DEF RowOf, TriggerOf, EngineCall, ScheduledRun, Run

LEMMA NoCountsType == NoCounts \in Counts
BY DEF NoCounts, Counts

(* Whatever the daemon does, its state keeps its types.                    *)
LEMMA TypeStep ==
  ASSUME TypeOK, VersionsHaveHighest, [Next]_vars
  PROVE  TypeOK'
<1> USE DEF disk, Notify
<1>1. ASSUME NEW n \in Names, NEW e \in BOOLEAN, NEW c \in Cadences, NEW o \in Outputs,
             ConfigureRun(n, [enabled |-> e, cadence |-> c, output |-> o])
      PROVE  TypeOK'
  <2>1. [enabled |-> e, cadence |-> c, output |-> o] \in RunConfig
    BY DaemonAssumption DEF RunConfig
  <2> QED BY <1>1, <2>1, ConfiguredType DEF ConfigureRun, TypeOK
<1>2. ASSUME NEW n \in Names, RemoveRun(n)
      PROVE  TypeOK'
  BY <1>2 DEF RemoveRun, DeleteRun, TypeOK
<1>3. ASSUME NEW c \in Clients, NEW n \in Names, EnsureMissing(c, n)
      PROVE  TypeOK'
  BY <1>3 DEF EnsureMissing, TypeOK
<1>4. ASSUME NEW c \in Clients, EnsureConfigure(c)
      PROVE  TypeOK'
  <2>1. ensures[c] \in Names
    BY <1>4 DEF EnsureConfigure, TypeOK
  <2>2. ensures' \in [Clients -> Names \cup {None}]
    BY <1>4 DEF EnsureConfigure, TypeOK
  <2> QED BY <1>4, <2>1, <2>2, DefaultConfigType, ConfiguredType DEF EnsureConfigure
<1>5. ASSUME NEW d \in Deployers, NEW n \in Names, NEW m \in Modules, DeployBegin(d, n, m)
      PROVE  TypeOK'
  <2>1. NextVersion(n) \in Nat
    BY NextVersionIsAhead
  <2>2. deploys' \in [Deployers -> DeployCall \cup {None}]
    BY <1>5, <2>1 DEF DeployBegin, DeployCall, TypeOK
  <2> QED BY <1>5, <2>2 DEF DeployBegin, TypeOK
<1>6. ASSUME NEW d \in Deployers, DeployWrite(d)
      PROVE  TypeOK'
  <2>1. deploys[d] \in DeployCall
    BY <1>6, DeployTypes DEF DeployWrite
  <2>2. [deploys[d] EXCEPT !.pc = "commit"] \in DeployCall
    BY <2>1 DEF DeployCall
  <2>3. deploys' \in [Deployers -> DeployCall \cup {None}]
    BY <1>6, <2>2 DEF DeployWrite, TypeOK
  <2>4. dirs' \subseteq DeploymentDir
    BY <1>6, <2>1 DEF DeployWrite, DeployCall, DeploymentDir, TypeOK
  <2> QED BY <1>6, <2>3, <2>4 DEF DeployWrite, TypeOK
<1>7. ASSUME NEW d \in Deployers, DeployCommit(d)
      PROVE  TypeOK'
  <2>1. deploys[d] \in DeployCall
    BY <1>7, DeployTypes DEF DeployCommit
  <2>2. versions' \subseteq DeployedVersion
    BY <1>7, <2>1 DEF DeployCommit, DeployCall, DeployedVersion, TypeOK
  <2>3. runs' \in [Names -> Run \cup {None}]
    <3>1. CASE runs[deploys[d].name] = None
      BY <1>7, <3>1 DEF DeployCommit, TypeOK
    <3>2. CASE runs[deploys[d].name] # None
      <4>1. runs[deploys[d].name] \in Run
        BY <2>1, <3>2, RunTypes DEF DeployCall
      <4>2. [runs[deploys[d].name] EXCEPT !.version = deploys[d].version] \in Run
        BY <2>1, <4>1 DEF Run, DeployCall
      <4> QED BY <1>7, <3>2, <4>2 DEF DeployCommit, UpdateRun, TypeOK
    <3> QED BY <3>1, <3>2
  <2> QED BY <1>7, <2>2, <2>3 DEF DeployCommit, TypeOK
<1>8. ASSUME NEW d \in Deployers, DeployFails(d)
      PROVE  TypeOK'
  BY <1>8 DEF DeployFails, TypeOK
<1>9. ASSUME NEW c \in Callers, NEW n \in Names, NEW e \in BOOLEAN, RunOnceStart(c, n, e)
      PROVE  TypeOK'
  <2>1. runs[n] \in Run
    BY <1>9, RunTypes DEF RunOnceStart
  <2>2. [pc |-> "engine", run |-> runs[n], scheduled |-> ulid + 1,
         at |-> clock, ephemeral |-> e] \in EngineCall
    BY <2>1 DEF EngineCall, TypeOK
  <2>3. calls' \in [Callers -> EngineCall \cup PersistCall \cup {None}]
    BY <1>9, <2>2 DEF RunOnceStart, TypeOK
  <2> QED BY <1>9, <2>3 DEF RunOnceStart, TypeOK
<1>10. ASSUME NEW c \in Callers, NEW k \in EmitCounts, EngineOk(c, k)
       PROVE  TypeOK'
  <2>1. calls[c] \in EngineCall
    BY <1>10, CallTypes DEF EngineOk
  <2>2. RowOf(c, "ok", k) \in ScheduledRun
    BY <1>10, RowOfType, DaemonAssumption DEF EngineOk, Outcome
  <2>3. [pc |-> "persist", run |-> calls[c].run, row |-> RowOf(c, "ok", k)] \in PersistCall
    BY <2>1, <2>2 DEF EngineCall, PersistCall
  <2>4. calls' \in [Callers -> EngineCall \cup PersistCall \cup {None}]
    BY <1>10, <2>3 DEF EngineOk, TypeOK
  <2>5. stores' \subseteq [output : Outputs, scheduled : Nat]
    BY <1>10, <2>1 DEF EngineOk, StoredRecords, EngineCall, Run, TypeOK
  <2> QED BY <1>10, <2>4, <2>5 DEF EngineOk, TypeOK
<1>11. ASSUME NEW c \in Callers, EngineFail(c)
       PROVE  TypeOK'
  <2>1. calls[c] \in EngineCall
    BY <1>11, CallTypes DEF EngineFail
  <2>2. RowOf(c, "fail", NoCounts) \in ScheduledRun
    BY <1>11, RowOfType, NoCountsType DEF EngineFail, Outcome
  <2>3. [pc |-> "persist", run |-> calls[c].run, row |-> RowOf(c, "fail", NoCounts)]
          \in PersistCall
    BY <2>1, <2>2 DEF EngineCall, PersistCall
  <2>4. calls' \in [Callers -> EngineCall \cup PersistCall \cup {None}]
    BY <1>11, <2>3 DEF EngineFail, TypeOK
  <2> QED BY <1>11, <2>4 DEF EngineFail, TypeOK
<1>12. ASSUME NEW c \in Callers, Persist(c)
       PROVE  TypeOK'
  <2>1. calls[c] \in PersistCall
    BY <1>12, CallTypes DEF Persist
  <2>2. PICK prior \in PriorOkWindows(history \cup {calls[c].row},
                                      calls[c].run.id, calls[c].row.at) :
          UpdateRun(RowAfterRun(calls[c].run, DeriveHealth(calls[c].row, prior)))
    BY <1>12 DEF Persist
  <2>3. RowAfterRun(calls[c].run, DeriveHealth(calls[c].row, prior)) \in Run
    BY <2>1, RowAfterRunSound, DeriveHealthType DEF PersistCall
  <2>4. runs' \in [Names -> Run \cup {None}]
    BY <2>2, <2>3 DEF UpdateRun, TypeOK
  <2>5. history' \subseteq ScheduledRun
    BY <1>12, <2>1 DEF Persist, InsertScheduledRun, PersistCall, TypeOK
  <2>6. calls' \in [Callers -> EngineCall \cup PersistCall \cup {None}]
    BY <1>12 DEF Persist, TypeOK
  <2> QED BY <1>12, <2>4, <2>5, <2>6 DEF Persist, TypeOK
<1>13. ASSUME NEW c \in Callers, PersistFails(c)
       PROVE  TypeOK'
  BY <1>13 DEF PersistFails, TypeOK
<1>14. CASE Tick
  BY <1>14 DEF Tick, TypeOK
<1>15. CASE TakeWake
  BY <1>15 DEF TakeWake, TypeOK
<1>16. CASE Reopen
  BY <1>16 DEF Reopen, TypeOK
<1>17. CASE UNCHANGED vars
  BY <1>17 DEF vars, TypeOK
<1> QED
  BY <1>1, <1>2, <1>3, <1>4, <1>5, <1>6, <1>7, <1>8, <1>9, <1>10, <1>11, <1>12,
     <1>13, <1>14, <1>15, <1>16, <1>17
  DEF Next, ConfigAction, DeployAction, RunAction

-------------------------------------------------------------------------------
(* The deployed versions.                                                  *)

(* Nothing the daemon does takes a version or a directory away.            *)
LEMMA LogGrows ==
  ASSUME [Next]_vars
  PROVE  versions \subseteq versions' /\ dirs \subseteq dirs'
<1> USE DEF disk
<1>1. CASE ConfigAction
  BY <1>1 DEF ConfigAction, ConfigureRun, Configured, RemoveRun, EnsureMissing,
              EnsureConfigure
<1>2. CASE DeployAction
  BY <1>2 DEF DeployAction, DeployBegin, DeployWrite, DeployCommit, DeployFails
<1>3. CASE RunAction
  BY <1>3 DEF RunAction, RunOnceStart, EngineOk, EngineFail, Persist, PersistFails
<1>4. CASE Tick \/ TakeWake \/ Reopen \/ UNCHANGED vars
  BY <1>4 DEF Tick, TakeWake, Reopen, vars
<1> QED BY <1>1, <1>2, <1>3, <1>4 DEF Next

(* A deployment that can be loaded can be loaded for good.                 *)
LEMMA LoadableStays ==
  ASSUME [Next]_vars, NEW n \in Names, NEW v, Loadable(n, v)
  PROVE  Loadable(n, v)'
BY LogGrows DEF Loadable, VersionsOf, DirsOf

LEMMA LogUnchanged ==
  ASSUME LogInv, UNCHANGED <<versions, dirs, deploys>>
  PROVE  LogInv'
BY DEF LogInv, VersionsHaveHighest, RowsHaveDirs, OneDeploy, DeployAhead,
       VersionsOf, DirsOf, HasHighest

LEMMA DirsAfterWrite ==
  ASSUME NEW name, NEW version, NEW module, NEW n,
         dirs' = dirs \cup {[name |-> name, version |-> version, module |-> module]}
  PROVE  DirsOf(n)' = IF n = name THEN DirsOf(n) \cup {version} ELSE DirsOf(n)
<1> DEFINE new == [name |-> name, version |-> version, module |-> module]
<1>1. new.name = name /\ new.version = version
  OBVIOUS
<1>2. \A x : x \in DirsOf(n)' <=> \E d \in dirs \cup {new} : d.name = n /\ d.version = x
  BY DEF DirsOf
<1>3. \A x : x \in DirsOf(n) <=> \E d \in dirs : d.name = n /\ d.version = x
  BY DEF DirsOf
<1> HIDE DEF new
<1>4. \A x : x \in DirsOf(n)' <=> x \in DirsOf(n) \/ (n = name /\ x = version)
  BY <1>1, <1>2, <1>3
<1>5. CASE n = name
  <2>1. DirsOf(n)' = DirsOf(n) \cup {version}
    BY <1>4, <1>5
  <2> QED BY <2>1, <1>5
<1>6. CASE n # name
  <2>1. DirsOf(n)' = DirsOf(n)
    BY <1>4, <1>6
  <2> QED BY <2>1, <1>6
<1> QED BY <1>5, <1>6

LEMMA VersionsAfterCommit ==
  ASSUME NEW name, NEW version, NEW n,
         versions' = versions \cup {[name |-> name, version |-> version]}
  PROVE  VersionsOf(n)' = IF n = name THEN VersionsOf(n) \cup {version} ELSE VersionsOf(n)
<1> DEFINE new == [name |-> name, version |-> version]
<1>1. new.name = name /\ new.version = version
  OBVIOUS
<1>2. \A x : x \in VersionsOf(n)' <=> \E v \in versions \cup {new} : v.name = n /\ v.version = x
  BY DEF VersionsOf
<1>3. \A x : x \in VersionsOf(n) <=> \E v \in versions : v.name = n /\ v.version = x
  BY DEF VersionsOf
<1> HIDE DEF new
<1>4. \A x : x \in VersionsOf(n)' <=> x \in VersionsOf(n) \/ (n = name /\ x = version)
  BY <1>1, <1>2, <1>3
<1>5. CASE n = name
  <2>1. VersionsOf(n)' = VersionsOf(n) \cup {version}
    BY <1>4, <1>5
  <2> QED BY <2>1, <1>5
<1>6. CASE n # name
  <2>1. VersionsOf(n)' = VersionsOf(n)
    BY <1>4, <1>6
  <2> QED BY <2>1, <1>6
<1> QED BY <1>5, <1>6

(* One deploy at a time adds above what is there: first a directory, then  *)
(* the row.                                                                *)
LEMMA LogStep ==
  ASSUME TypeOK, LogInv, [Next]_vars
  PROVE  LogInv'
<1> USE DEF disk
<1>1. ASSUME NEW d \in Deployers, NEW n \in Names, NEW m \in Modules, DeployBegin(d, n, m)
      PROVE  LogInv'
  <2>1. UNCHANGED <<versions, dirs>>
    BY <1>1 DEF DeployBegin
  <2>2. VersionsHaveHighest' /\ RowsHaveDirs'
    BY <2>1 DEF LogInv, VersionsHaveHighest, RowsHaveDirs, VersionsOf, DirsOf, HasHighest
  <2>3. /\ deploys'[d] = [pc |-> "write", name |-> n, version |-> NextVersion(n),
                          module |-> m]
        /\ \A e \in Deployers \ {d} : deploys'[e] = None
    BY <1>1 DEF DeployBegin, DeployLockFree, TypeOK
  <2>4. OneDeploy'
    BY <2>3 DEF OneDeploy
  <2>5. \A v \in VersionsOf(n) \cup DirsOf(n) : v < NextVersion(n)
    BY NextVersionIsAhead DEF LogInv
  <2>6. NextVersion(n) \in Nat /\ ~(NextVersion(n) < NextVersion(n))
    BY NextVersionIsAhead DEF LogInv
  <2>7. NextVersion(n) \notin DirsOf(n)
    BY <2>5, <2>6
  <2>8. VersionsOf(n)' = VersionsOf(n) /\ DirsOf(n)' = DirsOf(n)
    BY <2>1 DEF VersionsOf, DirsOf
  <2>9. DeployAhead'
    BY <2>3, <2>5, <2>7, <2>8 DEF DeployAhead
  <2> QED BY <2>2, <2>4, <2>9 DEF LogInv
<1>2. ASSUME NEW d \in Deployers, DeployWrite(d)
      PROVE  LogInv'
  <2> DEFINE call == deploys[d]
  <2>1. call \in DeployCall
    BY <1>2, DeployTypes DEF DeployWrite
  <2>2. /\ VersionsOf(call.name)' = VersionsOf(call.name)
        /\ \A n \in Names : VersionsOf(n)' = VersionsOf(n)
    BY <1>2 DEF DeployWrite, VersionsOf
  <2>3. \A n \in Names :
          DirsOf(n)' = IF n = call.name THEN DirsOf(n) \cup {call.version} ELSE DirsOf(n)
    <3>1. dirs' = dirs \cup {[name |-> call.name, version |-> call.version,
                              module |-> call.module]}
      BY <1>2 DEF DeployWrite
    <3> HIDE DEF call
    <3> QED BY <3>1, DirsAfterWrite
  <2>4. VersionsHaveHighest'
    <3>1. ASSUME NEW n \in Names
          PROVE  HasHighest(DirsOf(n)')
      <4>1. HasHighest(DirsOf(n)) /\ DirsOf(n) \in SUBSET Nat
        BY VersionSets DEF LogInv, VersionsHaveHighest
      <4>2. call.version \in Nat
        BY <2>1 DEF DeployCall
      <4> QED BY <2>3, <4>1, <4>2, HighestAfterAdding
    <3>2. ASSUME NEW n \in Names
          PROVE  HasHighest(VersionsOf(n)')
      BY <2>2 DEF LogInv, VersionsHaveHighest
    <3> QED BY <3>1, <3>2 DEF VersionsHaveHighest, HasHighest
  <2>5. RowsHaveDirs'
    <3>1. \A n \in Names : VersionsOf(n)' \subseteq DirsOf(n)'
      BY <2>2, <2>3 DEF LogInv, RowsHaveDirs
    <3>2. \A e \in dirs : e.name = call.name => e.version # call.version
      BY <1>2 DEF DeployWrite, DirsOf
    <3>3. dirs' = dirs \cup {[name |-> call.name, version |-> call.version,
                              module |-> call.module]}
      BY <1>2 DEF DeployWrite
    <3>4. \A e, f \in dirs' : e.name = f.name /\ e.version = f.version => e = f
      BY <3>2, <3>3 DEF LogInv, RowsHaveDirs
    <3> QED BY <3>1, <3>4 DEF RowsHaveDirs
  <2>6. /\ deploys'[d] = [call EXCEPT !.pc = "commit"]
        /\ \A e \in Deployers \ {d} : deploys'[e] = None
    BY <1>2 DEF DeployWrite, LogInv, OneDeploy, TypeOK
  <2>7. OneDeploy'
    BY <2>6 DEF OneDeploy
  <2>8. deploys'[d].name = call.name /\ deploys'[d].version = call.version
        /\ deploys'[d].pc = "commit"
    BY <2>1, <2>6 DEF DeployCall
  <2>9. \A v \in VersionsOf(call.name) : v < call.version
    BY <1>2 DEF LogInv, DeployAhead, DeployWrite
  <2>10. call.name \in Names
    BY <2>1 DEF DeployCall
  <2>11. DeployAhead'
    BY <2>2, <2>3, <2>6, <2>8, <2>9, <2>10 DEF DeployAhead
  <2> QED BY <2>4, <2>5, <2>7, <2>11 DEF LogInv
<1>3. ASSUME NEW d \in Deployers, DeployCommit(d)
      PROVE  LogInv'
  <2> DEFINE call == deploys[d]
  <2>1. call \in DeployCall
    BY <1>3, DeployTypes DEF DeployCommit
  <2>2. \A n \in Names : DirsOf(n)' = DirsOf(n)
    BY <1>3 DEF DeployCommit, DirsOf
  <2>3. \A n \in Names :
          VersionsOf(n)' = IF n = call.name THEN VersionsOf(n) \cup {call.version}
                           ELSE VersionsOf(n)
    <3>1. versions' = versions \cup {[name |-> call.name, version |-> call.version]}
      BY <1>3 DEF DeployCommit
    <3> HIDE DEF call
    <3> QED BY <3>1, VersionsAfterCommit
  <2>4. VersionsHaveHighest'
    <3>1. ASSUME NEW n \in Names
          PROVE  HasHighest(VersionsOf(n)')
      <4>1. HasHighest(VersionsOf(n)) /\ VersionsOf(n) \in SUBSET Nat
        BY VersionSets DEF LogInv, VersionsHaveHighest
      <4>2. call.version \in Nat
        BY <2>1 DEF DeployCall
      <4> QED BY <2>3, <4>1, <4>2, HighestAfterAdding
    <3>2. ASSUME NEW n \in Names
          PROVE  HasHighest(DirsOf(n)')
      BY <2>2 DEF LogInv, VersionsHaveHighest
    <3> QED BY <3>1, <3>2 DEF VersionsHaveHighest, HasHighest
  <2>5. RowsHaveDirs'
    <3>1. call.version \in DirsOf(call.name)
      BY <1>3 DEF DeployCommit, LogInv, DeployAhead
    <3>2. \A n \in Names : VersionsOf(n)' \subseteq DirsOf(n)'
      BY <2>2, <2>3, <3>1 DEF LogInv, RowsHaveDirs
    <3>3. dirs' = dirs
      BY <1>3 DEF DeployCommit
    <3> QED BY <3>2, <3>3 DEF LogInv, RowsHaveDirs
  <2>6. \A e \in Deployers : deploys'[e] = None
    BY <1>3 DEF DeployCommit, LogInv, OneDeploy, TypeOK
  <2> QED BY <2>4, <2>5, <2>6 DEF LogInv, OneDeploy, DeployAhead
<1>4. ASSUME NEW d \in Deployers, DeployFails(d)
      PROVE  LogInv'
  <2>1. UNCHANGED <<versions, dirs>>
    BY <1>4 DEF DeployFails
  <2>2. \A e \in Deployers : deploys'[e] = None
    BY <1>4 DEF DeployFails, LogInv, OneDeploy, TypeOK
  <2>3. VersionsHaveHighest' /\ RowsHaveDirs'
    BY <2>1 DEF LogInv, VersionsHaveHighest, RowsHaveDirs, VersionsOf, DirsOf, HasHighest
  <2> QED BY <2>2, <2>3 DEF LogInv, OneDeploy, DeployAhead
<1>5. CASE Reopen
  <2>1. UNCHANGED <<versions, dirs>>
    BY <1>5 DEF Reopen
  <2>2. \A e \in Deployers : deploys'[e] = None
    BY <1>5 DEF Reopen
  <2>3. VersionsHaveHighest' /\ RowsHaveDirs'
    BY <2>1 DEF LogInv, VersionsHaveHighest, RowsHaveDirs, VersionsOf, DirsOf, HasHighest
  <2> QED BY <2>2, <2>3 DEF LogInv, OneDeploy, DeployAhead
<1>6. CASE ConfigAction \/ RunAction \/ Tick \/ TakeWake \/ UNCHANGED vars
  <2>1. UNCHANGED <<versions, dirs, deploys>>
    BY <1>6 DEF ConfigAction, ConfigureRun, Configured, RemoveRun, EnsureMissing,
                EnsureConfigure, RunAction, RunOnceStart, EngineOk, EngineFail,
                Persist, PersistFails, Tick, TakeWake, vars
  <2> QED BY <2>1, LogUnchanged
<1> QED BY <1>1, <1>2, <1>3, <1>4, <1>5, <1>6 DEF Next, DeployAction

-------------------------------------------------------------------------------
(* The rows, and the snapshots of rows in flight.                          *)

(* A row that is not written stays sound: deployments are never withdrawn. *)
LEMMA UntouchedStaysSound ==
  ASSUME TypeOK, RowInv, [Next]_vars
  PROVE  /\ \A n \in Names : runs[n] # None /\ runs'[n] = runs[n]
                            => runs'[n].name = n /\ RunSound(runs[n])'
         /\ \A c \in Callers : calls[c] # None /\ calls'[c] # None
                              /\ calls'[c].run = calls[c].run
                              => RunSound(calls[c].run)'
<1>1. \A n \in Names : runs[n] # None => runs[n].name \in Names
  BY RunTypes DEF Run
<1>2. \A c \in Callers : calls[c] # None => calls[c].run.name \in Names
  BY CallTypes DEF Run
<1>3. \A n \in Names : \A v : Loadable(n, v) => Loadable(n, v)'
  BY LoadableStays
<1> QED BY <1>1, <1>2, <1>3 DEF RowInv, RowsSound, CallsSound, RunSound

LEMMA ConfiguredSound ==
  ASSUME TypeOK, LogInv, RowInv, [Next]_vars, NEW n \in Names, NEW config \in RunConfig,
         Configured(n, config)
  PROVE  RowInv'
<1>1. CallsSound'
  <2>1. calls' = calls
    BY DEF Configured
  <2> QED BY <2>1, UntouchedStaysSound DEF CallsSound
<1>2. \A v : Loadable(n, v)' <=> Loadable(n, v)
  BY DEF Configured, Loadable, VersionsOf, DirsOf
<1>3. CASE runs[n] = None
  <2> DEFINE row == FreshRun(n, config, ulid + 1)
  <2>1. row.name = n /\ runs' = [runs EXCEPT ![row.name] = row]
    BY <1>3 DEF Configured, UpdateRun, FreshRun
  <2>2. runs'[n] = row /\ \A m \in Names \ {n} : runs'[m] = runs[m]
    BY <2>1 DEF TypeOK
  <2>3. LatestDeployedVersion(n) # None => Loadable(n, LatestDeployedVersion(n))
    BY LatestIsDeployed DEF LogInv, RowsHaveDirs, Loadable
  <2>4. /\ row.version = LatestDeployedVersion(n)
        /\ (row.health = "paused" <=> ~row.enabled)
    BY DEF FreshRun
  <2> HIDE DEF row
  <2>5. runs'[n].name = n /\ RunSound(runs[n])'
    BY <1>2, <2>1, <2>2, <2>3, <2>4 DEF RunSound
  <2>6. RowsSound'
    BY <2>2, <2>5, UntouchedStaysSound DEF RowsSound
  <2> QED BY <1>1, <2>6 DEF RowInv
<1>4. CASE runs[n] # None
  <2> DEFINE row == Reconfigured(runs[n], config)
  <2>1. runs[n] \in Run /\ runs[n].name = n /\ RunSound(runs[n])
    BY <1>4, RunTypes DEF RowInv, RowsSound
  <2>2. /\ row.name = n /\ row.version = runs[n].version
        /\ row.enabled = config.enabled
        /\ row.health = IF ~config.enabled THEN "paused"
                        ELSE IF ~runs[n].enabled THEN "unknown"
                        ELSE runs[n].health
    BY <2>1, ReconfiguredType
  <2>3. runs' = [runs EXCEPT ![row.name] = row]
    BY <1>4 DEF Configured, UpdateRun
  <2> HIDE DEF row
  <2>4. runs'[n] = row /\ \A m \in Names \ {n} : runs'[m] = runs[m]
    BY <2>2, <2>3 DEF TypeOK
  <2>5. row.health = "paused" <=> ~row.enabled
    BY <2>1, <2>2 DEF RunSound
  <2>6. runs'[n].name = n /\ RunSound(runs[n])'
    BY <1>2, <2>1, <2>2, <2>4, <2>5 DEF RunSound
  <2>7. RowsSound'
    BY <2>4, <2>6, UntouchedStaysSound DEF RowsSound
  <2> QED BY <1>1, <2>7 DEF RowInv
<1> QED BY <1>3, <1>4

LEMMA RowsAndCallsUnchanged ==
  ASSUME TypeOK, RowInv, [Next]_vars, UNCHANGED <<runs, calls>>
  PROVE  RowInv'
BY UntouchedStaysSound DEF RowInv, RowsSound, CallsSound

(* Rows are written by configure_run, by a deploy's commit and from the    *)
(* snapshots of run_once, and each writes a sound row.                     *)
LEMMA RowStep ==
  ASSUME TypeOK, LogInv, RowInv, [Next]_vars
  PROVE  RowInv'
<1> USE DEF disk
<1>1. ASSUME NEW n \in Names, NEW e \in BOOLEAN, NEW c \in Cadences, NEW o \in Outputs,
             ConfigureRun(n, [enabled |-> e, cadence |-> c, output |-> o])
      PROVE  RowInv'
  <2>1. [enabled |-> e, cadence |-> c, output |-> o] \in RunConfig
    BY DaemonAssumption DEF RunConfig
  <2> QED BY <1>1, <2>1, ConfiguredSound DEF ConfigureRun
<1>2. ASSUME NEW n \in Names, RemoveRun(n)
      PROVE  RowInv'
  <2>1. runs' = [runs EXCEPT ![runs[n].name] = None] /\ calls' = calls
    BY <1>2 DEF RemoveRun, DeleteRun
  <2>2. \A m \in Names : runs'[m] # None => runs'[m] = runs[m]
    BY <2>1 DEF TypeOK
  <2> QED BY <2>1, <2>2, UntouchedStaysSound DEF RowInv, RowsSound, CallsSound
<1>3. ASSUME NEW c \in Clients, EnsureConfigure(c)
      PROVE  RowInv'
  <2>1. ensures[c] \in Names
    BY <1>3 DEF EnsureConfigure, TypeOK
  <2> QED BY <1>3, <2>1, DefaultConfigType, ConfiguredSound DEF EnsureConfigure
<1>4. ASSUME NEW d \in Deployers, DeployCommit(d)
      PROVE  RowInv'
  <2>1. deploys[d] \in DeployCall
    BY <1>4, DeployTypes DEF DeployCommit
  <2>2. PICK name \in Names, version \in Nat :
          name = deploys[d].name /\ version = deploys[d].version
    BY <2>1 DEF DeployCall
  <2>3. Loadable(name, version)'
    <3>1. version \in DirsOf(name)
      BY <1>4, <2>2 DEF DeployCommit, LogInv, DeployAhead
    <3>2. dirs' = dirs
      BY <1>4 DEF DeployCommit
    <3>3. versions' = versions \cup {[name |-> name, version |-> version]}
      BY <1>4, <2>2 DEF DeployCommit
    <3>4. version \in VersionsOf(name)'
      BY <3>3, VersionsAfterCommit
    <3> QED BY <3>1, <3>2, <3>4 DEF Loadable, DirsOf
  <2>4. CASE runs[name] = None
    <3>1. UNCHANGED <<runs, calls>>
      BY <1>4, <2>2, <2>4 DEF DeployCommit
    <3> QED BY <3>1, RowsAndCallsUnchanged
  <2>5. CASE runs[name] # None
    <3> DEFINE row == [runs[name] EXCEPT !.version = version]
    <3>1. runs[name] \in Run /\ runs[name].name = name /\ RunSound(runs[name])
      BY <2>5, RunTypes DEF RowInv, RowsSound
    <3>2. row.name = name /\ runs' = [runs EXCEPT ![row.name] = row] /\ calls' = calls
      BY <1>4, <2>2, <2>5, <3>1 DEF DeployCommit, UpdateRun, Run
    <3>3. runs'[name] = row
      BY <3>2 DEF TypeOK
    <3>4. row.version = version /\ (row.health = "paused" <=> ~row.enabled)
      BY <3>1 DEF RunSound, Run
    <3>5. \A m \in Names \ {name} : runs'[m] = runs[m]
      BY <3>2 DEF TypeOK
    <3> HIDE DEF row
    <3>6. runs'[name].name = name /\ RunSound(runs[name])'
      BY <2>3, <3>2, <3>3, <3>4 DEF RunSound
    <3>7. RowsSound'
      BY <3>5, <3>6, UntouchedStaysSound DEF RowsSound
    <3>8. CallsSound'
      BY <3>2, UntouchedStaysSound DEF CallsSound
    <3> QED BY <3>7, <3>8 DEF RowInv
  <2> QED BY <2>4, <2>5
<1>5. ASSUME NEW c \in Callers, NEW n \in Names, NEW e \in BOOLEAN, RunOnceStart(c, n, e)
      PROVE  RowInv'
  <2>1. /\ UNCHANGED <<runs, versions, dirs>>
        /\ calls'[c].run = runs[n]
        /\ \A b \in Callers \ {c} : calls'[b] = calls[b]
    BY <1>5 DEF RunOnceStart, TypeOK
  <2>2. RowsSound'
    BY <2>1, UntouchedStaysSound DEF RowsSound
  <2>3. RunSound(runs[n])
    BY <1>5 DEF RunOnceStart, RowInv, RowsSound
  <2>4. RunSound(calls[c].run)'
    BY <2>1, <2>3 DEF RunSound, Loadable, VersionsOf, DirsOf
  <2> QED BY <2>1, <2>2, <2>4, UntouchedStaysSound DEF RowInv, CallsSound
<1>6. ASSUME NEW c \in Callers,
             EngineFail(c) \/ \E k \in EmitCounts : EngineOk(c, k)
      PROVE  RowInv'
  <2>1. /\ runs' = runs
        /\ calls'[c].run = calls[c].run /\ calls[c] # None
        /\ \A b \in Callers \ {c} : calls'[b] = calls[b]
    BY <1>6 DEF EngineFail, EngineOk, TypeOK
  <2> QED BY <2>1, UntouchedStaysSound DEF RowInv, RowsSound, CallsSound
<1>7. ASSUME NEW c \in Callers, Persist(c)
      PROVE  RowInv'
  <2>1. calls[c] \in PersistCall /\ RunSound(calls[c].run)
    BY <1>7, CallTypes DEF Persist, RowInv, CallsSound
  <2>2. PICK prior \in PriorOkWindows(history \cup {calls[c].row},
                                      calls[c].run.id, calls[c].row.at) :
          UpdateRun(RowAfterRun(calls[c].run, DeriveHealth(calls[c].row, prior)))
    BY <1>7 DEF Persist
  <2> DEFINE row == RowAfterRun(calls[c].run, DeriveHealth(calls[c].row, prior))
  <2>3. /\ row \in Run
        /\ row.name = calls[c].run.name /\ row.version = calls[c].run.version
        /\ (row.health = "paused" <=> ~row.enabled)
    BY <2>1, RowAfterRunSound, DeriveHealthType DEF PersistCall
  <2>4. runs' = [runs EXCEPT ![row.name] = row]
    BY <2>2 DEF UpdateRun
  <2> HIDE DEF row
  <2>5. PICK name \in Names : name = row.name
    BY <2>3 DEF Run
  <2>6. runs'[name] = row /\ \A m \in Names \ {name} : runs'[m] = runs[m]
    BY <2>4, <2>5 DEF TypeOK
  <2>7. row.version # None => Loadable(name, row.version)
    BY <2>1, <2>3, <2>5 DEF RunSound
  <2>8. \A v : Loadable(name, v)' <=> Loadable(name, v)
    BY <1>7 DEF Persist, Loadable, VersionsOf, DirsOf
  <2>9. runs'[name].name = name /\ RunSound(runs[name])'
    BY <2>3, <2>5, <2>6, <2>7, <2>8 DEF RunSound
  <2>10. RowsSound'
    BY <2>6, <2>9, UntouchedStaysSound DEF RowsSound
  <2>11. \A b \in Callers : calls'[b] # None => calls'[b] = calls[b]
    BY <1>7 DEF Persist, TypeOK
  <2> QED BY <2>10, <2>11, UntouchedStaysSound DEF RowInv, CallsSound
<1>8. ASSUME NEW c \in Callers, PersistFails(c)
      PROVE  RowInv'
  <2>1. runs' = runs /\ \A b \in Callers : calls'[b] # None => calls'[b] = calls[b]
    BY <1>8 DEF PersistFails, TypeOK
  <2> QED BY <2>1, UntouchedStaysSound DEF RowInv, RowsSound, CallsSound
<1>9. CASE Reopen
  <2>1. runs' = runs /\ \A b \in Callers : calls'[b] = None
    BY <1>9 DEF Reopen
  <2> QED BY <2>1, UntouchedStaysSound DEF RowInv, RowsSound, CallsSound
<1>10. CASE \/ \E c \in Clients, n \in Names : EnsureMissing(c, n)
            \/ \E d \in Deployers, n \in Names, m \in Modules : DeployBegin(d, n, m)
            \/ \E d \in Deployers : DeployWrite(d) \/ DeployFails(d)
            \/ Tick \/ TakeWake \/ UNCHANGED vars
  <2>1. UNCHANGED <<runs, calls>>
    BY <1>10 DEF EnsureMissing, DeployBegin, DeployWrite, DeployFails, Tick, TakeWake, vars
  <2> QED BY <2>1, RowsAndCallsUnchanged
<1> QED
  BY <1>1, <1>2, <1>3, <1>4, <1>5, <1>6, <1>7, <1>8, <1>9, <1>10
  DEF Next, ConfigAction, DeployAction, RunAction

-------------------------------------------------------------------------------
(* The theorems.                                                           *)

LEMMA InitInv == Init => Inv
<1> SUFFICES ASSUME Init PROVE Inv
  OBVIOUS
<1>1. TypeOK
  BY DEF Init, TypeOK
<1>2. LogInv
  BY DEF Init, LogInv, VersionsHaveHighest, RowsHaveDirs, OneDeploy, DeployAhead,
         VersionsOf, DirsOf, HasHighest
<1>3. RowInv
  BY DEF Init, RowInv, RowsSound, CallsSound
<1> QED BY <1>1, <1>2, <1>3 DEF Inv

LEMMA NextInv == Inv /\ [Next]_vars => Inv'
<1> SUFFICES ASSUME Inv, [Next]_vars PROVE Inv'
  OBVIOUS
<1>1. TypeOK'
  BY TypeStep DEF Inv, LogInv
<1>2. LogInv'
  BY LogStep DEF Inv
<1>3. RowInv'
  BY RowStep DEF Inv
<1> QED BY <1>1, <1>2, <1>3 DEF Inv

(* The inductive invariant: types, the deployment log with its deploys in  *)
(* flight, and rows, stored or read by a run_once, that only name what the *)
(* log holds.                                                              *)
THEOREM Invariance == Spec => []Inv
BY InitInv, NextInv, PTL DEF Spec

(* The daemon's tables, calls and directories keep their types.            *)
THEOREM TypesHold == Spec => []TypeOK
<1>1. Inv => TypeOK
  BY DEF Inv
<1> QED BY <1>1, Invariance, PTL

(* A Run never points at a deployment that cannot be loaded.               *)
THEOREM PointersResolve == Spec => []PointerResolves
<1>1. Inv => PointerResolves
  BY DEF Inv, RowInv, RowsSound, RunSound, PointerResolves
<1> QED BY <1>1, Invariance, PTL

(* No deploy renames onto an existing deployment, strays included.         *)
THEOREM RenamesSucceed == Spec => []RenameTargetFree
<1>1. Inv => RenameTargetFree
  BY DEF Inv, LogInv, DeployAhead, RenameTargetFree
<1> QED BY <1>1, Invariance, PTL

-------------------------------------------------------------------------------
(* Refinement of VersionLog.                                               *)

(* Writing a directory publishes nothing; the commit of its row does.      *)
LEMMA CommitPublishes ==
  ASSUME Inv, [Next]_vars, NEW d \in Deployers, DeployCommit(d)
  PROVE  Log!Next
<1>1. deploys[d] \in DeployCall
  BY DeployTypes DEF DeployCommit, Inv
<1>2. PICK name \in Names, version \in Nat :
        name = deploys[d].name /\ version = deploys[d].version
  BY <1>1 DEF DeployCall
<1>3. /\ version \in DirsOf(name)
      /\ \A v \in VersionsOf(name) : v < version
  BY <1>2 DEF DeployCommit, Inv, LogInv, DeployAhead
<1>4. PICK entry \in dirs : entry.name = name /\ entry.version = version
  BY <1>3 DEF DirsOf
<1>5. \A e \in dirs : e.name = name /\ e.version = version => e = entry
  BY <1>4 DEF Inv, LogInv, RowsHaveDirs
<1>6. \A n : VersionsOf(n)' = IF n = name THEN VersionsOf(n) \cup {version}
                             ELSE VersionsOf(n)
  <2>1. versions' = versions \cup {[name |-> name, version |-> version]}
    BY <1>2 DEF DeployCommit
  <2> QED BY <2>1, VersionsAfterCommit
<1>7. dirs' = dirs
  BY DEF DeployCommit
<1>8. Published' = Published \cup {entry}
  BY <1>4, <1>5, <1>6, <1>7 DEF Published
<1>9. version \notin VersionsOf(name)
  BY <1>3
<1>10. entry \notin Published
  BY <1>4, <1>9 DEF Published
<1>11. entry \in Log!Entry
  BY <1>4 DEF Inv, TypeOK, DeploymentDir, Log!Entry
<1>12. \A e \in Published : e.name = entry.name => e.version < entry.version
  BY <1>3, <1>4 DEF Published
<1>13. Log!Publish(entry)
  BY <1>8, <1>11, <1>12 DEF Log!Publish
<1>14. entry \in Published' \ Published
  BY <1>8, <1>10
<1> QED BY <1>13, <1>14 DEF Log!Next

LEMMA NothingElsePublishes ==
  ASSUME Inv, [Next]_vars, \A d \in Deployers : ~DeployCommit(d)
  PROVE  Published' = Published
<1> USE DEF disk
<1>1. ASSUME NEW d \in Deployers, DeployWrite(d)
      PROVE  Published' = Published
  <2>1. deploys[d] \in DeployCall
    BY <1>1, DeployTypes DEF DeployWrite, Inv
  <2>2. PICK new : new = [name |-> deploys[d].name, version |-> deploys[d].version,
                         module |-> deploys[d].module]
    OBVIOUS
  <2>3. dirs' = dirs \cup {new} /\ versions' = versions
    BY <1>1, <2>2 DEF DeployWrite
  <2>4. deploys[d].version \notin VersionsOf(deploys[d].name)
    BY <1>1, <2>1 DEF DeployWrite, Inv, LogInv, DeployAhead, DeployCall
  <2>5. new.version \notin VersionsOf(new.name)
    BY <2>2, <2>4
  <2>6. \A n : VersionsOf(n)' = VersionsOf(n)
    BY <2>3 DEF VersionsOf
  <2> QED BY <2>3, <2>5, <2>6 DEF Published
<1>2. CASE UNCHANGED <<versions, dirs>>
  BY <1>2 DEF Published, VersionsOf
<1>3. (\E d \in Deployers : DeployWrite(d)) \/ UNCHANGED <<versions, dirs>>
  BY DEF Next, vars, ConfigAction, ConfigureRun, Configured, RemoveRun, EnsureMissing,
         EnsureConfigure, DeployAction, DeployBegin, DeployFails, RunAction, RunOnceStart,
         EngineOk, EngineFail, Persist, PersistFails, Tick, TakeWake, Reopen
<1> QED BY <1>1, <1>2, <1>3

(* Deployments are an append-only, increasing, immutable log: the daemon   *)
(* implements VersionLog.                                                  *)
THEOREM DaemonImplementsLog == Spec => DeploymentsAreALog
<1>1. Init => Log!Init
  BY DEF Init, Log!Init, Published
<1>2. Inv /\ [Next]_vars => [Log!Next]_Published
  BY CommitPublishes, NothingElsePublishes
<1> QED BY <1>1, <1>2, Invariance, PTL DEF Spec, DeploymentsAreALog, Log!Spec
-------------------------------------------------------------------------------
(* What the history says can be relied on: its rows belong to Runs that    *)
(* exist, name deployments that can be loaded and have their records; and  *)
(* no finishing run_once brings a removed Run back.                        *)

(* What a finished engine run leaves to be recorded.                       *)
ResultSound(call) ==
  /\ call.row.runId = call.run.id
  /\ call.row.version = call.run.version
  /\ call.row.version = None => call.row.outcome = "fail"

ResultsSound ==
  \A c \in Callers :
    calls[c] # None /\ calls[c].pc = "persist" => ResultSound(calls[c])

Recorded(row) ==
  row.outcome = "ok" /\ ~row.ephemeral => \E s \in stores : s.scheduled = row.id

(* The records are there as soon as a run_once call goes on to its row.    *)
ResultsRecorded ==
  \A c \in Callers :
    calls[c] # None /\ calls[c].pc = "persist" => Recorded(calls[c].row)

HistInv == ResultsSound /\ ResultsRecorded /\ RowsAttributable /\ RecordsBeforeRow

LEMMA StoresGrow ==
  ASSUME [Next]_vars
  PROVE  stores \subseteq stores'
BY DEF Next, vars, disk, ConfigAction, ConfigureRun, Configured, RemoveRun, EnsureMissing,
       EnsureConfigure, DeployAction, DeployBegin, DeployWrite, DeployCommit, DeployFails,
       RunAction, RunOnceStart, EngineOk, EngineFail, Persist, PersistFails, Tick,
       TakeWake, Reopen

(* Only the end of an engine run puts a call before its last transaction.  *)
LEMMA ResultsStep ==
  ASSUME Inv, HistInv, [Next]_vars
  PROVE  ResultsSound' /\ ResultsRecorded'
<1> USE DEF disk
<1>1. ASSUME NEW c \in Callers, NEW k \in EmitCounts, EngineOk(c, k)
      PROVE  ResultsSound' /\ ResultsRecorded'
  <2>1. calls[c] \in EngineCall
    BY <1>1, CallTypes DEF EngineOk, Inv
  <2>2. /\ calls'[c] = [pc |-> "persist", run |-> calls[c].run, row |-> RowOf(c, "ok", k)]
        /\ \A b \in Callers \ {c} : calls'[b] = calls[b]
    BY <1>1 DEF EngineOk, Inv, TypeOK
  <2>3. ResultSound(calls'[c])
    BY <1>1, <2>2 DEF ResultSound, RowOf, EngineOk
  <2>4. calls'[c].row.outcome = "ok" /\ ~calls'[c].row.ephemeral
          => \E s \in stores' : s.scheduled = calls'[c].row.id
    <3>1. /\ calls'[c].row.id = calls[c].scheduled
          /\ calls'[c].row.ephemeral = calls[c].ephemeral
      BY <2>2 DEF RowOf
    <3>2. SUFFICES ASSUME ~calls[c].ephemeral
                   PROVE  \E s \in stores' : s.scheduled = calls[c].scheduled
      BY <3>1
    <3>3. stores' = stores \cup {[output |-> calls[c].run.output,
                                  scheduled |-> calls[c].scheduled]}
      BY <1>1, <3>2 DEF EngineOk, StoredRecords
    <3>4. PICK s : s = [output |-> calls[c].run.output, scheduled |-> calls[c].scheduled]
      OBVIOUS
    <3>5. s \in stores' /\ s.scheduled = calls[c].scheduled
      BY <3>3, <3>4
    <3> QED BY <3>5
  <2>5. ResultsSound'
    BY <2>2, <2>3 DEF HistInv, ResultsSound, ResultSound
  <2>6. ResultsRecorded'
    BY <2>2, <2>4, StoresGrow DEF HistInv, ResultsRecorded, Recorded
  <2> QED BY <2>5, <2>6
<1>2. ASSUME NEW c \in Callers, EngineFail(c)
      PROVE  ResultsSound' /\ ResultsRecorded'
  <2>1. /\ calls'[c] = [pc |-> "persist", run |-> calls[c].run,
                        row |-> RowOf(c, "fail", NoCounts)]
        /\ \A b \in Callers \ {c} : calls'[b] = calls[b]
    BY <1>2 DEF EngineFail, Inv, TypeOK
  <2>2. ResultSound(calls'[c])
    BY <2>1 DEF ResultSound, RowOf
  <2>3. calls'[c].row.outcome # "ok"
    BY <2>1 DEF RowOf
  <2>4. ResultsSound'
    BY <2>1, <2>2 DEF HistInv, ResultsSound, ResultSound
  <2>5. ResultsRecorded'
    BY <2>1, <2>3, StoresGrow DEF HistInv, ResultsRecorded, Recorded
  <2> QED BY <2>4, <2>5
<1>3. CASE \A c \in Callers : calls'[c] # None /\ calls'[c].pc = "persist"
                              => calls'[c] = calls[c]
  BY <1>3, StoresGrow DEF HistInv, ResultsSound, ResultSound, ResultsRecorded, Recorded
<1>4. ASSUME NEW c \in Callers, NEW n \in Names, NEW e \in BOOLEAN, RunOnceStart(c, n, e)
      PROVE  \A b \in Callers : calls'[b] # None /\ calls'[b].pc = "persist"
                                => calls'[b] = calls[b]
  <2>1. calls'[c].pc = "engine" /\ \A b \in Callers \ {c} : calls'[b] = calls[b]
    BY <1>4 DEF RunOnceStart, Inv, TypeOK
  <2> QED BY <2>1
<1>5. ASSUME NEW c \in Callers, Persist(c) \/ PersistFails(c)
      PROVE  \A b \in Callers : calls'[b] # None => calls'[b] = calls[b]
  BY <1>5 DEF Persist, PersistFails, Inv, TypeOK
<1>6. CASE Reopen
  <2>1. \A b \in Callers : calls'[b] = None
    BY <1>6 DEF Reopen
  <2> QED BY <1>3, <2>1
<1>7. CASE ConfigAction \/ DeployAction \/ Tick \/ TakeWake \/ UNCHANGED vars
  <2>1. calls' = calls
    BY <1>7 DEF vars, ConfigAction, ConfigureRun, Configured, RemoveRun, EnsureMissing,
         EnsureConfigure, DeployAction, DeployBegin, DeployWrite, DeployCommit,
         DeployFails, Tick, TakeWake
  <2> QED BY <1>3, <2>1
<1> QED BY <1>1, <1>2, <1>3, <1>4, <1>5, <1>6, <1>7 DEF Next, RunAction

(* Rows of the table keep their id under their name, or go, or come new.   *)
LEMMA RowIds ==
  ASSUME Inv, [Next]_vars, NEW n \in Names, runs'[n] # None
  PROVE  \/ runs[n] # None /\ runs'[n].id = runs[n].id
         \/ runs[n] = None /\ runs'[n].id = ulid + 1
<1> USE DEF disk
<1>1. ASSUME NEW m \in Names, NEW config \in RunConfig, Configured(m, config)
      PROVE  \/ runs[n] # None /\ runs'[n].id = runs[n].id
             \/ runs[n] = None /\ runs'[n].id = ulid + 1
  <2>1. CASE runs[m] = None
    <3>1. runs' = [runs EXCEPT ![m] = FreshRun(m, config, ulid + 1)]
      BY <1>1, <2>1 DEF Configured, UpdateRun, FreshRun
    <3> QED BY <2>1, <3>1 DEF FreshRun, Inv, TypeOK
  <2>2. CASE runs[m] # None
    <3>1. runs[m] \in Run /\ runs[m].name = m
      BY <2>2, RunTypes DEF Inv, RowInv, RowsSound
    <3> DEFINE row == Reconfigured(runs[m], config)
    <3>2. row.name = m /\ row.id = runs[m].id
      BY <3>1, ReconfiguredType DEF Inv
    <3>3. runs' = [runs EXCEPT ![row.name] = row]
      BY <1>1, <2>2 DEF Configured, UpdateRun
    <3> HIDE DEF row
    <3> QED BY <2>2, <3>2, <3>3 DEF Inv, TypeOK
  <2> QED BY <2>1, <2>2
<1>2. ASSUME NEW m \in Names, NEW e \in BOOLEAN, NEW c \in Cadences, NEW o \in Outputs,
             ConfigureRun(m, [enabled |-> e, cadence |-> c, output |-> o])
      PROVE  \/ runs[n] # None /\ runs'[n].id = runs[n].id
             \/ runs[n] = None /\ runs'[n].id = ulid + 1
  <2>1. [enabled |-> e, cadence |-> c, output |-> o] \in RunConfig
    BY DaemonAssumption DEF RunConfig
  <2> QED BY <1>1, <1>2, <2>1 DEF ConfigureRun
<1>3. ASSUME NEW c \in Clients, EnsureConfigure(c)
      PROVE  \/ runs[n] # None /\ runs'[n].id = runs[n].id
             \/ runs[n] = None /\ runs'[n].id = ulid + 1
  <2>1. ensures[c] \in Names
    BY <1>3 DEF EnsureConfigure, Inv, TypeOK
  <2> QED BY <1>1, <1>3, <2>1, DefaultConfigType DEF EnsureConfigure
<1>4. ASSUME NEW m \in Names, RemoveRun(m)
      PROVE  runs[n] # None /\ runs'[n].id = runs[n].id
  <2>1. runs' = [runs EXCEPT ![runs[m].name] = None]
    BY <1>4 DEF RemoveRun, DeleteRun
  <2> QED BY <2>1 DEF Inv, TypeOK
<1>5. ASSUME NEW d \in Deployers, DeployCommit(d)
      PROVE  runs[n] # None /\ runs'[n].id = runs[n].id
  <2>1. PICK name \in Names, version \in Nat :
          name = deploys[d].name /\ version = deploys[d].version
    BY <1>5, DeployTypes DEF DeployCommit, DeployCall, Inv
  <2>2. CASE runs[name] = None
    BY <1>5, <2>1, <2>2 DEF DeployCommit
  <2>3. CASE runs[name] # None
    <3> DEFINE row == [runs[name] EXCEPT !.version = version]
    <3>1. runs[name] \in Run
      BY <2>3, RunTypes DEF Inv
    <3>2. row.name = name /\ row.id = runs[name].id
      BY <2>3, <3>1 DEF Inv, RowInv, RowsSound, Run
    <3>3. runs' = [runs EXCEPT ![row.name] = row]
      BY <1>5, <2>1, <2>3 DEF DeployCommit, UpdateRun
    <3> HIDE DEF row
    <3> QED BY <2>3, <3>2, <3>3 DEF Inv, TypeOK
  <2> QED BY <2>2, <2>3
<1>6. ASSUME NEW c \in Callers, Persist(c)
      PROVE  runs[n] # None /\ runs'[n].id = runs[n].id
  <2>1. PICK prior \in PriorOkWindows(history \cup {calls[c].row},
                                      calls[c].run.id, calls[c].row.at) :
          UpdateRun(RowAfterRun(calls[c].run, DeriveHealth(calls[c].row, prior)))
    BY <1>6 DEF Persist
  <2> DEFINE row == RowAfterRun(calls[c].run, DeriveHealth(calls[c].row, prior))
  <2>2. calls[c] \in PersistCall
    BY <1>6, CallTypes DEF Persist, Inv
  <2>3. row.name = calls[c].run.name /\ row.id = calls[c].run.id
    BY <2>2, RowAfterRunSound, DeriveHealthType DEF PersistCall, Inv
  <2>4. runs' = [runs EXCEPT ![row.name] = row]
    BY <2>1 DEF UpdateRun
  <2>5. runs[row.name] # None /\ runs[row.name].id = row.id
    BY <1>6, <2>3 DEF Persist, Live
  <2> HIDE DEF row
  <2> QED BY <2>4, <2>5 DEF Inv, TypeOK
<1>7. CASE UNCHANGED runs
  BY <1>7
<1> QED
  BY <1>2, <1>3, <1>4, <1>5, <1>6, <1>7
  DEF Next, vars, ConfigAction, EnsureMissing, DeployAction, DeployBegin, DeployWrite,
      DeployFails, RunAction, RunOnceStart, EngineOk, EngineFail, PersistFails, Tick,
      TakeWake, Reopen

(* Only remove_run takes a row away.                                       *)
LEMMA RowsStay ==
  ASSUME Inv, [Next]_vars, \A n \in Names : ~RemoveRun(n)
  PROVE  \A n \in Names : runs[n] # None => runs'[n] # None
<1> USE DEF disk
<1>1. ASSUME NEW row \in Run, UpdateRun(row)
      PROVE  \A n \in Names : runs[n] # None => runs'[n] # None
  BY <1>1, NoneIsNoRun DEF UpdateRun, Inv, TypeOK
<1>2. ASSUME NEW m \in Names, NEW config \in RunConfig, Configured(m, config)
      PROVE  \A n \in Names : runs[n] # None => runs'[n] # None
  <2>1. CASE runs[m] = None
    <3>1. FreshRun(m, config, ulid + 1) \in Run
      BY FreshRunType DEF Inv, LogInv, TypeOK
    <3> QED BY <1>1, <1>2, <2>1, <3>1 DEF Configured
  <2>2. CASE runs[m] # None
    <3>1. Reconfigured(runs[m], config) \in Run
      BY <2>2, RunTypes, ReconfiguredType DEF Inv
    <3> QED BY <1>1, <1>2, <2>2, <3>1 DEF Configured
  <2> QED BY <2>1, <2>2
<1>3. ASSUME NEW m \in Names, NEW e \in BOOLEAN, NEW c \in Cadences, NEW o \in Outputs,
             ConfigureRun(m, [enabled |-> e, cadence |-> c, output |-> o])
      PROVE  \A n \in Names : runs[n] # None => runs'[n] # None
  <2>1. [enabled |-> e, cadence |-> c, output |-> o] \in RunConfig
    BY DaemonAssumption DEF RunConfig
  <2> QED BY <1>2, <1>3, <2>1 DEF ConfigureRun
<1>4. ASSUME NEW c \in Clients, EnsureConfigure(c)
      PROVE  \A n \in Names : runs[n] # None => runs'[n] # None
  <2>1. ensures[c] \in Names
    BY <1>4 DEF EnsureConfigure, Inv, TypeOK
  <2> QED BY <1>2, <1>4, <2>1, DefaultConfigType DEF EnsureConfigure
<1>5. ASSUME NEW d \in Deployers, DeployCommit(d)
      PROVE  \A n \in Names : runs[n] # None => runs'[n] # None
  <2>1. PICK name \in Names, version \in Nat :
          name = deploys[d].name /\ version = deploys[d].version
    BY <1>5, DeployTypes DEF DeployCommit, DeployCall, Inv
  <2>2. CASE runs[name] = None
    BY <1>5, <2>1, <2>2 DEF DeployCommit
  <2>3. CASE runs[name] # None
    <3>1. runs[name] \in Run
      BY <2>3, RunTypes DEF Inv
    <3>2. [runs[name] EXCEPT !.version = version] \in Run
      BY <3>1 DEF Run
    <3>3. UpdateRun([runs[name] EXCEPT !.version = version])
      BY <1>5, <2>1, <2>3 DEF DeployCommit
    <3> QED BY <1>1, <3>2, <3>3
  <2> QED BY <2>2, <2>3
<1>6. ASSUME NEW c \in Callers, Persist(c)
      PROVE  \A n \in Names : runs[n] # None => runs'[n] # None
  <2>1. PICK prior \in PriorOkWindows(history \cup {calls[c].row},
                                      calls[c].run.id, calls[c].row.at) :
          UpdateRun(RowAfterRun(calls[c].run, DeriveHealth(calls[c].row, prior)))
    BY <1>6 DEF Persist
  <2>2. calls[c] \in PersistCall
    BY <1>6, CallTypes DEF Persist, Inv
  <2>3. RowAfterRun(calls[c].run, DeriveHealth(calls[c].row, prior)) \in Run
    BY <2>2, RowAfterRunSound, DeriveHealthType DEF PersistCall, Inv
  <2> QED BY <1>1, <2>1, <2>3
<1>7. CASE UNCHANGED runs
  BY <1>7
<1> QED
  BY <1>3, <1>4, <1>5, <1>6, <1>7
  DEF Next, vars, ConfigAction, EnsureMissing, DeployAction, DeployBegin, DeployWrite,
      DeployFails, RunAction, RunOnceStart, EngineOk, EngineFail, PersistFails, Tick,
      TakeWake, Reopen

IsRunOf(n, h) ==
  /\ runs[n] # None
  /\ runs[n].id = h.runId
  /\ h.version # None => Loadable(n, h.version)

HasRun(h) == \E n \in Names : IsRunOf(n, h)

(* A row is added to the history only for a Run that is there, with the    *)
(* version its call had pinned; removing a Run takes its rows along.       *)
LEMMA HistoryStep ==
  ASSUME Inv, HistInv, [Next]_vars
  PROVE  RowsAttributable' /\ RecordsBeforeRow'
<1> USE DEF disk
<1>1. ASSUME NEW n \in Names, runs[n] # None, runs'[n] # None
      PROVE  runs'[n].id = runs[n].id
  BY <1>1, RowIds
<1>2. \A n \in Names : \A v : Loadable(n, v) => Loadable(n, v)'
  BY LoadableStays
<1>3. ASSUME history' \subseteq history, \A n \in Names : runs[n] # None => runs'[n] # None
      PROVE  RowsAttributable'
  <2>1. ASSUME NEW h \in history'
        PROVE  HasRun(h)'
    <3>1. PICK m \in Names : IsRunOf(m, h)
      BY <1>3 DEF HistInv, RowsAttributable, IsRunOf
    <3> QED BY <1>1, <1>2, <1>3, <3>1 DEF HasRun, IsRunOf
  <2>2. \A h \in history' : h.version = None => h.outcome = "fail"
    BY <1>3 DEF HistInv, RowsAttributable
  <2> QED BY <2>1, <2>2 DEF RowsAttributable, HasRun, IsRunOf
<1>4. ASSUME history' \subseteq history
      PROVE  RecordsBeforeRow'
  BY <1>4, StoresGrow DEF HistInv, RecordsBeforeRow
<1>5. ASSUME NEW n \in Names, RemoveRun(n)
      PROVE  RowsAttributable' /\ RecordsBeforeRow'
  <2>1. runs[n] # None /\ runs[n].name = n
    BY <1>5 DEF RemoveRun, Inv, RowInv, RowsSound
  <2>2. /\ runs' = [runs EXCEPT ![n] = None]
        /\ history' = {h \in history : h.runId # runs[n].id}
    BY <1>5, <2>1 DEF RemoveRun, DeleteRun
  <2>3. \A m \in Names \ {n} : runs'[m] = runs[m]
    BY <2>2 DEF Inv, TypeOK
  <2>4. RowsAttributable'
    <3>1. ASSUME NEW h \in history'
          PROVE  HasRun(h)'
      <4>1. h \in history /\ h.runId # runs[n].id
        BY <2>2
      <4>2. PICK m \in Names : IsRunOf(m, h)
        BY <4>1 DEF HistInv, RowsAttributable, IsRunOf
      <4>3. runs'[m] = runs[m]
        BY <2>3, <4>1, <4>2 DEF IsRunOf
      <4> QED BY <1>2, <4>2, <4>3 DEF HasRun, IsRunOf
    <3>2. \A h \in history' : h.version = None => h.outcome = "fail"
      BY <2>2 DEF HistInv, RowsAttributable
    <3> QED BY <3>1, <3>2 DEF RowsAttributable, HasRun, IsRunOf
  <2>5. history' \subseteq history
    BY <2>2
  <2> QED BY <1>4, <2>4, <2>5
<1>6. ASSUME NEW c \in Callers, Persist(c)
      PROVE  RowsAttributable' /\ RecordsBeforeRow'
  <2>1. calls[c] \in PersistCall /\ calls[c] # None /\ calls[c].pc = "persist"
    BY <1>6, CallTypes DEF Persist, Inv
  <2>2. PICK row \in ScheduledRun, name \in Names : row = calls[c].row /\ name = calls[c].run.name
    BY <2>1 DEF PersistCall, Run
  <2>3. history' = history \cup {row} /\ stores' = stores
    BY <1>6, <2>2 DEF Persist, InsertScheduledRun
  <2>4. ResultSound(calls[c]) /\ Recorded(calls[c].row) /\ RunSound(calls[c].run)
    BY <2>1 DEF HistInv, ResultsSound, ResultsRecorded, Inv, RowInv, CallsSound
  <2>5. runs[name] # None /\ runs[name].id = row.runId
    BY <1>6, <2>2, <2>4 DEF Persist, Live, ResultSound
  <2>6. row.version # None => Loadable(name, row.version)
    BY <2>2, <2>4 DEF ResultSound, RunSound
  <2>7. \A n \in Names : runs[n] # None => runs'[n] # None
    <3>1. \A n \in Names : ~RemoveRun(n)
      BY <1>6 DEF Persist, RemoveRun, Inv, TypeOK
    <3> QED BY <3>1, RowsStay
  <2>8. RowsAttributable'
    <3>1. ASSUME NEW h \in history'
          PROVE  HasRun(h)'
      <4>1. PICK m \in Names : IsRunOf(m, h)
        BY <2>3, <2>5, <2>6 DEF HistInv, RowsAttributable, IsRunOf
      <4> QED BY <1>1, <1>2, <2>7, <4>1 DEF HasRun, IsRunOf
    <3>2. \A h \in history' : h.version = None => h.outcome = "fail"
      BY <2>2, <2>3, <2>4 DEF HistInv, RowsAttributable, ResultSound
    <3> QED BY <3>1, <3>2 DEF RowsAttributable, HasRun, IsRunOf
  <2>9. RecordsBeforeRow'
    BY <2>2, <2>3, <2>4 DEF HistInv, RecordsBeforeRow, Recorded
  <2> QED BY <2>8, <2>9
<1>7. CASE (\A n \in Names : ~RemoveRun(n)) /\ history' = history
  BY <1>3, <1>4, <1>7, RowsStay
<1>8. \/ \E n \in Names : RemoveRun(n)
      \/ \E c \in Callers : Persist(c)
      \/ history' = history
  BY DEF Next, vars, ConfigAction, ConfigureRun, Configured, EnsureMissing,
         EnsureConfigure, DeployAction, DeployBegin, DeployWrite, DeployCommit,
         DeployFails, RunAction, RunOnceStart, EngineOk, EngineFail, PersistFails, Tick,
         TakeWake, Reopen
<1> QED BY <1>5, <1>6, <1>7, <1>8

LEMMA HistInvariance == Spec => [](Inv /\ HistInv)
<1>1. Init => HistInv
  BY DEF Init, HistInv, ResultsSound, ResultsRecorded, RowsAttributable, RecordsBeforeRow
<1>2. Inv /\ HistInv /\ [Next]_vars => HistInv'
  BY ResultsStep, HistoryStep DEF HistInv
<1> QED BY <1>1, <1>2, Invariance, PTL DEF Spec

(* The history can be read: every row has its Run, a deployment that can   *)
(* be loaded (no version only for a failure), and, if it is successful,    *)
(* its records, which are stored before it.                                *)
THEOREM HistoryIsAttributable == Spec => []HistoryAttributable
<1>1. Inv /\ HistInv => HistoryAttributable
  BY DEF HistInv, HistoryAttributable
<1> QED BY <1>1, HistInvariance, PTL

(* A removed Run stays removed, whatever run_once calls were under way.    *)
THEOREM RemovedStaysRemoved == Spec => NoResurrection
<1>1. ASSUME Inv, [Next]_vars, NEW n \in Names, runs'[n] # None,
             ~(runs[n] # None /\ runs[n].id = runs'[n].id)
      PROVE  runs'[n].id > ulid
  <2>1. runs'[n].id = ulid + 1
    BY <1>1, RowIds
  <2>2. ulid \in Nat
    BY <1>1 DEF Inv, TypeOK
  <2> QED BY <2>1, <2>2
<1>2. Inv /\ [Next]_vars =>
        [\A n \in Names :
           runs'[n] # None /\ ~(runs[n] # None /\ runs[n].id = runs'[n].id)
             => runs'[n].id > ulid]_vars
  BY <1>1
<1> QED BY <1>2, Invariance, PTL DEF Spec, NoResurrection

-------------------------------------------------------------------------------
(* The health of a Run: a call that no other call of its Run overlaps      *)
(* started after everything the Run has recorded, so it is the latest when *)
(* it ends.                                                                *)

HistoryTypes == overlapped \subseteq Callers /\ doubted \subseteq Nat

OverlapsAreSeen == \A c, d \in Callers : SameRun(c, d) => c \in overlapped

(* When a run_once call started.                                           *)
StartOf(call) == IF call.pc = "engine" THEN call.at ELSE call.row.at

IdsSane ==
  /\ \A n \in Names : runs[n] # None => runs[n].id <= ulid
  /\ \A m, n \in Names :
       runs[m] # None /\ runs[n] # None /\ runs[m].id = runs[n].id => m = n

RunsOf(id) == {h \in history : h.runId = id}

(* A call alone started after every run its Run has recorded.              *)
StartsAreLatest ==
  /\ \A h \in history : h.at <= clock
  /\ \A c \in Callers :
       calls[c] # None =>
         /\ StartOf(calls[c]) <= clock
         /\ c \notin overlapped =>
              \A h \in RunsOf(calls[c].run.id) : h.at <= StartOf(calls[c])

Judged(n) ==
  /\ runs[n] # None /\ runs[n].id \notin doubted
  /\ runs[n].health \in {"ok", "drift", "fail"}

HealthFits(n) ==
  \E h \in LatestRuns(n) :
    \E prior \in PriorOkWindows(history, runs[n].id, h.at) :
      runs[n].health = DeriveHealth(h, prior)

SoloInv ==
  /\ HistoryTypes /\ OverlapsAreSeen
  /\ IdsSane /\ StartsAreLatest
  /\ \A n \in Names : Judged(n) => HealthFits(n)

(* The window looks at the runs of one Run only.                           *)
LEMMA WindowOfOwnRuns ==
  ASSUME NEW H, NEW G, NEW id, NEW upto,
         {h \in H : h.runId = id} = {h \in G : h.runId = id}
  PROVE  PriorOkWindows(H, id, upto) = PriorOkWindows(G, id, upto)
<1>1. {h \in H : h.runId = id /\ h.at < upto /\ h.outcome = "ok"}
        = {h \in G : h.runId = id /\ h.at < upto /\ h.outcome = "ok"}
  OBVIOUS
<1> QED BY <1>1 DEF PriorOkWindows

(* What leaves a Run's health and its runs alone keeps them in agreement.  *)
LEMMA FitStays ==
  ASSUME NEW n \in Names, HealthFits(n), runs'[n].id = runs[n].id, runs'[n].health = runs[n].health,
         RunsOf(runs[n].id)' = RunsOf(runs[n].id)
  PROVE  HealthFits(n)'
<1>1. PICK id : id = runs[n].id /\ id = runs'[n].id
  OBVIOUS
<1>2. {h \in history' : h.runId = id} = {h \in history : h.runId = id}
  BY <1>1 DEF RunsOf
<1>3. LatestRuns(n)' = LatestRuns(n)
  BY <1>1, <1>2 DEF LatestRuns
<1>4. \A upto : PriorOkWindows(history', id, upto) = PriorOkWindows(history, id, upto)
  BY <1>2, WindowOfOwnRuns
<1> QED BY <1>1, <1>3, <1>4 DEF HealthFits

(* The row a finished call writes back.                                    *)
PersistedAs(c, k, row) ==
  /\ runs' = [runs EXCEPT ![k] = row]
  /\ k = calls[c].run.name /\ row.id = calls[c].run.id
  /\ k \in Names /\ runs[k] # None /\ runs[k].id = row.id
  /\ \/ row.health = "paused"
     \/ \E prior \in PriorOkWindows(history \cup {calls[c].row}, row.id, calls[c].row.at) :
          row.health = DeriveHealth(calls[c].row, prior)

LEMMA PersistedRow ==
  ASSUME Inv, NEW c \in Callers, Persist(c)
  PROVE  \E k, row : PersistedAs(c, k, row)
<1>1. PICK prior \in PriorOkWindows(history \cup {calls[c].row},
                                    calls[c].run.id, calls[c].row.at) :
        UpdateRun(RowAfterRun(calls[c].run, DeriveHealth(calls[c].row, prior)))
  BY DEF Persist
<1>2. PICK run \in Run : run = calls[c].run
  BY CallTypes DEF Persist, Inv
<1>3. PICK health : health = DeriveHealth(calls[c].row, prior)
  OBVIOUS
<1>4. PICK row : row = RowAfterRun(run, health)
  OBVIOUS
<1>5. row.id = run.id /\ row.name = run.name
  BY <1>2, <1>3, <1>4, RowAfterRunSound, DeriveHealthType DEF Inv
<1>6. row.health \in {"paused", health}
  BY <1>4 DEF RowAfterRun, Run
<1>7. runs' = [runs EXCEPT ![run.name] = row]
  BY <1>1, <1>2, <1>3, <1>4, <1>5 DEF UpdateRun
<1>8. run.name \in Names /\ runs[run.name] # None /\ runs[run.name].id = row.id
  BY <1>2, <1>5 DEF Persist, Live, Run
<1>9. PersistedAs(c, run.name, row)
  BY <1>1, <1>2, <1>3, <1>5, <1>6, <1>7, <1>8 DEF PersistedAs
<1> QED BY <1>9

(* Only the end of a run judges a Run.                                     *)
LEMMA HealthStep ==
  ASSUME Inv, [Next]_vars, NEW n \in Names, runs'[n] # None,
         \A c \in Callers : Persist(c) => calls[c].run.name # n
  PROVE  \/ runs'[n].health \in {"paused", "unknown"}
         \/ runs[n] # None /\ runs'[n].id = runs[n].id /\ runs'[n].health = runs[n].health
<1> USE DEF disk
<1>1. ASSUME NEW m \in Names, NEW config \in RunConfig, Configured(m, config)
      PROVE  \/ runs'[n].health \in {"paused", "unknown"}
             \/ runs[n] # None /\ runs'[n].id = runs[n].id /\ runs'[n].health = runs[n].health
  <2>1. CASE runs[m] = None
    <3>1. runs' = [runs EXCEPT ![m] = FreshRun(m, config, ulid + 1)]
      BY <1>1, <2>1 DEF Configured, UpdateRun, FreshRun
    <3>2. FreshRun(m, config, ulid + 1).health \in {"paused", "unknown"}
      BY DEF FreshRun
    <3> QED BY <3>1, <3>2 DEF Inv, TypeOK
  <2>2. CASE runs[m] # None
    <3>1. runs[m] \in Run /\ runs[m].name = m
      BY <2>2, RunTypes DEF Inv, RowInv, RowsSound
    <3> DEFINE row == Reconfigured(runs[m], config)
    <3>2. /\ row.name = m /\ row.id = runs[m].id
          /\ row.health \in {"paused", "unknown", runs[m].health}
      BY <3>1, ReconfiguredType DEF Inv
    <3>3. runs' = [runs EXCEPT ![row.name] = row]
      BY <1>1, <2>2 DEF Configured, UpdateRun
    <3> HIDE DEF row
    <3> QED BY <2>2, <3>2, <3>3 DEF Inv, TypeOK
  <2> QED BY <2>1, <2>2
<1>2. ASSUME NEW m \in Names, NEW e \in BOOLEAN, NEW c \in Cadences, NEW o \in Outputs,
             ConfigureRun(m, [enabled |-> e, cadence |-> c, output |-> o])
      PROVE  \/ runs'[n].health \in {"paused", "unknown"}
             \/ runs[n] # None /\ runs'[n].id = runs[n].id /\ runs'[n].health = runs[n].health
  <2>1. [enabled |-> e, cadence |-> c, output |-> o] \in RunConfig
    BY DaemonAssumption DEF RunConfig
  <2> QED BY <1>1, <1>2, <2>1 DEF ConfigureRun
<1>3. ASSUME NEW c \in Clients, EnsureConfigure(c)
      PROVE  \/ runs'[n].health \in {"paused", "unknown"}
             \/ runs[n] # None /\ runs'[n].id = runs[n].id /\ runs'[n].health = runs[n].health
  <2>1. ensures[c] \in Names
    BY <1>3 DEF EnsureConfigure, Inv, TypeOK
  <2> QED BY <1>1, <1>3, <2>1, DefaultConfigType DEF EnsureConfigure
<1>4. ASSUME NEW m \in Names, RemoveRun(m)
      PROVE  runs[n] # None /\ runs'[n].id = runs[n].id /\ runs'[n].health = runs[n].health
  <2>1. runs' = [runs EXCEPT ![runs[m].name] = None]
    BY <1>4 DEF RemoveRun, DeleteRun
  <2> QED BY <2>1 DEF Inv, TypeOK
<1>5. ASSUME NEW d \in Deployers, DeployCommit(d)
      PROVE  runs[n] # None /\ runs'[n].id = runs[n].id /\ runs'[n].health = runs[n].health
  <2>1. PICK name \in Names, version \in Nat :
          name = deploys[d].name /\ version = deploys[d].version
    BY <1>5, DeployTypes DEF DeployCommit, DeployCall, Inv
  <2>2. CASE runs[name] = None
    BY <1>5, <2>1, <2>2 DEF DeployCommit
  <2>3. CASE runs[name] # None
    <3> DEFINE row == [runs[name] EXCEPT !.version = version]
    <3>1. runs[name] \in Run
      BY <2>3, RunTypes DEF Inv
    <3>2. row.name = name /\ row.id = runs[name].id /\ row.health = runs[name].health
      BY <2>3, <3>1 DEF Inv, RowInv, RowsSound, Run
    <3>3. runs' = [runs EXCEPT ![row.name] = row]
      BY <1>5, <2>1, <2>3 DEF DeployCommit, UpdateRun
    <3> HIDE DEF row
    <3> QED BY <2>3, <3>2, <3>3 DEF Inv, TypeOK
  <2> QED BY <2>2, <2>3
<1>6. ASSUME NEW c \in Callers, Persist(c)
      PROVE  runs[n] # None /\ runs'[n].id = runs[n].id /\ runs'[n].health = runs[n].health
  <2>1. PICK k, row : PersistedAs(c, k, row)
    BY <1>6, PersistedRow
  <2>2. runs' = [runs EXCEPT ![k] = row] /\ k # n
    BY <1>6, <2>1 DEF PersistedAs
  <2> QED BY <2>2 DEF Inv, TypeOK
<1>7. CASE UNCHANGED runs
  BY <1>7
<1> QED
  BY <1>2, <1>3, <1>4, <1>5, <1>6, <1>7
  DEF Next, vars, ConfigAction, EnsureMissing, DeployAction, DeployBegin, DeployWrite,
      DeployFails, RunAction, RunOnceStart, EngineOk, EngineFail, PersistFails, Tick,
      TakeWake, Reopen

(* What a step may do to the history.                                      *)
LEMMA HistoryMoves ==
  ASSUME Inv, [Next]_vars
  PROVE  \/ history' = history
         \/ \E m \in Names : /\ runs[m] # None /\ runs'[m] = None
                             /\ history' = {h \in history : h.runId # runs[m].id}
         \/ \E c \in Callers : Persist(c)
<1> USE DEF disk
<1>1. ASSUME NEW m \in Names, RemoveRun(m)
      PROVE  /\ runs[m] # None /\ runs'[m] = None
             /\ history' = {h \in history : h.runId # runs[m].id}
  BY <1>1 DEF RemoveRun, DeleteRun, Inv, TypeOK, RowInv, RowsSound
<1> QED
  BY <1>1
  DEF Next, vars, ConfigAction, ConfigureRun, Configured, EnsureMissing, EnsureConfigure,
      DeployAction, DeployBegin, DeployWrite, DeployCommit,
      DeployFails, RunAction, RunOnceStart, EngineOk, EngineFail, PersistFails, Tick,
      TakeWake, Reopen

LEMMA ClockAndIds ==
  ASSUME Inv, [Next]_vars
  PROVE  clock \in Nat /\ clock' \in Nat /\ clock <= clock' /\ ulid \in Nat /\ ulid' \in Nat /\ ulid <= ulid'
<1> USE DEF disk
<1>1. clock \in Nat /\ ulid \in Nat
  BY DEF Inv, TypeOK
<1>2. (clock' = clock \/ clock' = clock + 1) /\ (ulid' = ulid \/ ulid' = ulid + 1)
  <2>1. CASE ConfigAction
    BY <2>1 DEF ConfigAction, ConfigureRun, Configured, RemoveRun, EnsureMissing, EnsureConfigure
  <2>2. CASE DeployAction
    BY <2>2 DEF DeployAction, DeployBegin, DeployWrite, DeployCommit, DeployFails
  <2>3. CASE RunAction
    BY <2>3 DEF RunAction, RunOnceStart, EngineOk, EngineFail, Persist, PersistFails
  <2>4. CASE Tick \/ TakeWake \/ Reopen \/ UNCHANGED vars
    BY <2>4 DEF Tick, TakeWake, Reopen, vars
  <2> QED BY <2>1, <2>2, <2>3, <2>4 DEF Next
<1> QED BY <1>1, <1>2

(* A step writes one row at most; a new one takes an id.                   *)
LEMMA OneRowWritten ==
  ASSUME Inv, [Next]_vars
  PROVE  \E m, row :
           /\ runs' = runs \/ runs' = [runs EXCEPT ![m] = row]
           /\ ulid' = ulid + 1 \/ \A n \in Names : runs[n] = None => runs'[n] = None
<1> USE DEF disk
<1>1. ASSUME NEW m \in Names, NEW config, Configured(m, config)
      PROVE  \E k, row :
               /\ runs' = [runs EXCEPT ![k] = row]
               /\ ulid' = ulid + 1 \/ \A n \in Names : runs[n] = None => runs'[n] = None
  <2>1. CASE runs[m] = None
    BY <1>1, <2>1 DEF Configured, UpdateRun
  <2>2. CASE runs[m] # None
    <3>1. PICK row : row = Reconfigured(runs[m], config)
      OBVIOUS
    <3>2. row.name = m
      <4>1. runs[m] \in Run /\ runs[m].name = m
        BY <2>2, RunTypes DEF Inv, RowInv, RowsSound
      <4> QED BY <3>1, <4>1 DEF Reconfigured, Run
    <3>3. runs' = [runs EXCEPT ![m] = row]
      BY <1>1, <2>2, <3>1, <3>2 DEF Configured, UpdateRun
    <3> QED BY <2>2, <3>3 DEF Inv, TypeOK
  <2> QED BY <2>1, <2>2
<1>2. CASE ConfigAction
  <2>1. CASE \E k \in Names : RemoveRun(k)
    BY <2>1 DEF RemoveRun, DeleteRun, Inv, TypeOK
  <2>2. CASE \E c \in Clients : EnsureConfigure(c)
    <3>1. PICK c \in Clients : EnsureConfigure(c)
      BY <2>2
    <3>2. ensures[c] \in Names
      BY <3>1 DEF EnsureConfigure, Inv, TypeOK
    <3> QED BY <1>1, <3>1, <3>2 DEF EnsureConfigure
  <2> QED BY <1>1, <1>2, <2>1, <2>2 DEF ConfigAction, ConfigureRun, EnsureMissing
<1>3. CASE DeployAction
  <2>1. ASSUME NEW d \in Deployers, DeployCommit(d)
        PROVE  \E k, row : /\ runs' = runs \/ runs' = [runs EXCEPT ![k] = row]
                           /\ \A n \in Names : runs[n] = None => runs'[n] = None
    <3>1. PICK k : k = deploys[d].name
      OBVIOUS
    <3>2. CASE runs[k] # None
      <4>1. runs[k] \in Run /\ runs[k].name = k
        BY <2>1, <3>1, <3>2, DeployTypes, RunTypes DEF DeployCommit, DeployCall, Inv, RowInv, RowsSound
      <4>2. PICK row : row = [runs[k] EXCEPT !.version = deploys[d].version]
        OBVIOUS
      <4>3. row.name = k
        BY <4>1, <4>2 DEF Run
      <4>4. runs' = [runs EXCEPT ![k] = row]
        BY <2>1, <3>1, <3>2, <4>2, <4>3 DEF DeployCommit, UpdateRun
      <4> QED BY <3>2, <4>4 DEF Inv, TypeOK
    <3>3. CASE runs[k] = None
      BY <2>1, <3>1, <3>3 DEF DeployCommit
    <3> QED BY <3>2, <3>3
  <2> QED BY <1>3, <2>1 DEF DeployAction, DeployBegin, DeployWrite, DeployFails
<1>4. CASE RunAction
  <2>1. ASSUME NEW c \in Callers, Persist(c)
        PROVE  \E k, row : /\ runs' = [runs EXCEPT ![k] = row]
                           /\ \A n \in Names : runs[n] = None => runs'[n] = None
    <3>1. PICK k, row : /\ runs' = [runs EXCEPT ![k] = row]
                        /\ k = calls[c].run.name
      BY <2>1, PersistedRow DEF PersistedAs
    <3>2. runs[k] # None
      BY <2>1, <3>1 DEF Persist, Live
    <3> QED BY <3>1, <3>2 DEF Inv, TypeOK
  <2> QED BY <1>4, <2>1 DEF RunAction, RunOnceStart, EngineOk, EngineFail, PersistFails
<1>5. CASE Tick \/ TakeWake \/ Reopen \/ UNCHANGED vars
  BY <1>5 DEF Tick, TakeWake, Reopen, vars
<1> QED BY <1>2, <1>3, <1>4, <1>5 DEF Next

LEMMA IdsStaySane ==
  ASSUME Inv, IdsSane, [Next]_vars
  PROVE  IdsSane'
<1>1. /\ \A n \in Names : runs[n] # None => runs[n].id \in Nat /\ runs[n].id <= ulid
      /\ DOMAIN runs = Names
  BY RunTypes DEF IdsSane, Inv, Run, TypeOK
<1>2. \A n \in Names : runs'[n] # None =>
        \/ runs[n] # None /\ runs'[n].id = runs[n].id
        \/ runs[n] = None /\ runs'[n].id = ulid + 1
  BY RowIds
<1>3. PICK k, row :
        /\ runs' = runs \/ runs' = [runs EXCEPT ![k] = row]
        /\ ulid' = ulid + 1 \/ \A n \in Names : runs[n] = None => runs'[n] = None
  BY OneRowWritten
<1>4. \A n \in Names : n # k => runs'[n] = runs[n]
  BY <1>1, <1>3
<1>5. ulid \in Nat /\ ulid' \in Nat /\ ulid <= ulid'
  BY ClockAndIds
<1>6. \A n \in Names : runs'[n] # None /\ runs[n] = None => ulid' = ulid + 1
  BY <1>3
<1> QED BY <1>1, <1>2, <1>4, <1>5, <1>6 DEF IdsSane

(* The calls.                                                              *)
LEMMA CallMoves ==
  ASSUME Inv, [Next]_vars, NEW c \in Callers, calls'[c] # None
  PROVE  \/ calls'[c] = calls[c]
         \/ StartOf(calls'[c]) = clock
         \/ calls[c] # None /\ calls'[c].run = calls[c].run /\ StartOf(calls'[c]) = StartOf(calls[c])
<1> USE DEF disk
<1>1. ASSUME NEW d \in Callers, NEW n \in Names, NEW e, RunOnceStart(d, n, e)
      PROVE  calls'[c] = calls[c] \/ StartOf(calls'[c]) = clock
  BY <1>1 DEF RunOnceStart, StartOf, Inv, TypeOK
<1>2. ASSUME NEW d \in Callers, EngineFail(d) \/ \E k \in EmitCounts : EngineOk(d, k)
      PROVE  \/ calls'[c] = calls[c]
             \/ calls[c] # None /\ calls'[c].run = calls[c].run /\ StartOf(calls'[c]) = StartOf(calls[c])
  <2>1. PICK outcome, counts :
          /\ calls' = [calls EXCEPT ![d] = [pc |-> "persist", run |-> calls[d].run,
                                            row |-> RowOf(d, outcome, counts)]]
          /\ calls[d] # None /\ calls[d].pc = "engine"
    BY <1>2 DEF EngineFail, EngineOk
  <2>2. RowOf(d, outcome, counts).at = calls[d].at
    BY DEF RowOf
  <2> QED BY <2>1, <2>2 DEF StartOf, Inv, TypeOK
<1>3. ASSUME NEW d \in Callers, Persist(d) \/ PersistFails(d)
      PROVE  calls'[c] = calls[c]
  BY <1>3 DEF Persist, PersistFails, Inv, TypeOK
<1>4. CASE RunAction
  BY <1>1, <1>2, <1>3, <1>4 DEF RunAction
<1>5. CASE ConfigAction
  BY <1>5 DEF ConfigAction, ConfigureRun, Configured, RemoveRun, EnsureMissing, EnsureConfigure
<1>6. CASE DeployAction
  BY <1>6 DEF DeployAction, DeployBegin, DeployWrite, DeployCommit, DeployFails
<1>7. CASE Tick \/ TakeWake \/ UNCHANGED vars
  BY <1>7 DEF Tick, TakeWake, vars
<1>8. CASE Reopen
  BY <1>8 DEF Reopen
<1> QED BY <1>4, <1>5, <1>6, <1>7, <1>8 DEF Next

(* What a Persist adds to the history is as late as its call's start.      *)
LEMMA Recording ==
  ASSUME Inv, HistInv, NEW c \in Callers, Persist(c)
  PROVE  /\ calls[c] # None /\ calls'[c] = None
         /\ \A d \in Callers : d # c => calls'[d] = calls[d]
         /\ history' = history \cup {calls[c].row}
         /\ calls[c].row.runId = calls[c].run.id
         /\ calls[c].row.at = StartOf(calls[c])
BY DEF Persist, InsertScheduledRun, HistInv, ResultsSound, ResultSound, StartOf, Inv, TypeOK

(* A call alone was alone before the step, if it was in flight then.       *)
LEMMA Overlaps ==
  ASSUME Inv, HistoryTypes, OverlapsAreSeen, Next, Observe
  PROVE  /\ HistoryTypes' /\ OverlapsAreSeen'
         /\ \A c \in Callers : calls'[c] # None /\ c \notin overlapped' => c \notin overlapped
<1>1. overlapped' \subseteq Callers /\ OverlapsAreSeen'
  BY DEF Observe, OverlapsAreSeen, SameRun
<1>2. \A c \in Callers : calls'[c] # None /\ c \notin overlapped' => c \notin overlapped
  BY DEF Observe
<1>3. Unsettled \subseteq Nat
  <2>1. ASSUME NEW c \in Callers, Persist(c) PROVE calls[c].run.id \in Nat
    BY <2>1, CallTypes DEF Persist, Inv, Run
  <2> QED BY <2>1 DEF Unsettled, HistoryTypes
<1>4. doubted' \subseteq Nat
  BY <1>3 DEF Observe, HistoryTypes
<1> QED BY <1>1, <1>2, <1>4 DEF HistoryTypes

LEMMA StartsStayLatest ==
  ASSUME Inv, HistInv, HistoryTypes, OverlapsAreSeen, StartsAreLatest, Next, Observe
  PROVE  StartsAreLatest'
<1>1. clock \in Nat /\ clock' \in Nat /\ clock <= clock'
  BY ClockAndIds
<1>2. \A c \in Callers : calls[c] # None => StartOf(calls[c]) \in Nat
  BY CallTypes DEF StartOf, Inv, EngineCall, PersistCall, ScheduledRun
<1>3. \A h \in history : h.at \in Nat
  BY DEF Inv, TypeOK, ScheduledRun
<1>4. \A c \in Callers : calls'[c] # None /\ c \notin overlapped' => c \notin overlapped
  BY Overlaps
<1>5. CASE history' \subseteq history
  <2>1. ASSUME NEW c \in Callers, calls'[c] # None
        PROVE  /\ StartOf(calls'[c]) <= clock'
               /\ c \notin overlapped' =>
                    \A h \in history' : h.runId = calls'[c].run.id => h.at <= StartOf(calls'[c])
    <3>1. CASE StartOf(calls'[c]) = clock
      BY <1>1, <1>5, <3>1 DEF StartsAreLatest
    <3>2. CASE calls[c] # None /\ calls'[c].run = calls[c].run /\ StartOf(calls'[c]) = StartOf(calls[c])
      BY <1>1, <1>2, <1>4, <1>5, <2>1, <3>2 DEF StartsAreLatest, RunsOf
    <3> QED BY <2>1, <3>1, <3>2, CallMoves
  <2> QED BY <1>1, <1>3, <1>5, <2>1 DEF StartsAreLatest, RunsOf, StartOf
<1>6. ASSUME NEW c \in Callers, Persist(c)
      PROVE  StartsAreLatest'
  <2>1. /\ calls[c] # None /\ calls'[c] = None
        /\ \A d \in Callers : d # c => calls'[d] = calls[d]
        /\ history' = history \cup {calls[c].row}
        /\ calls[c].row.runId = calls[c].run.id
        /\ calls[c].row.at = StartOf(calls[c])
    BY <1>6, Recording
  <2>2. \A h \in history' : h.at <= clock'
    BY <1>1, <1>2, <1>3, <2>1 DEF StartsAreLatest
  <2>3. ASSUME NEW d \in Callers, calls'[d] # None
        PROVE  /\ StartOf(calls'[d]) <= clock'
               /\ d \notin overlapped' =>
                    \A h \in history' : h.runId = calls'[d].run.id => h.at <= StartOf(calls'[d])
    <3>1. d # c /\ calls'[d] = calls[d] /\ calls[d] # None
      BY <2>1, <2>3
    <3>2. StartOf(calls'[d]) <= clock'
      BY <1>1, <1>2, <3>1 DEF StartsAreLatest
    <3>3. ASSUME d \notin overlapped' PROVE d \notin overlapped /\ calls[c].row.runId # calls[d].run.id
      BY <1>4, <2>1, <2>3, <3>1, <3>3 DEF OverlapsAreSeen, SameRun
    <3> QED BY <2>1, <3>1, <3>2, <3>3 DEF StartsAreLatest, RunsOf
  <2> QED BY <2>2, <2>3 DEF StartsAreLatest, RunsOf, StartOf
<1> QED BY <1>5, <1>6, HistoryMoves

(* A finished call is judged against the runs before it; what others do to *)
(* the history leaves the runs of a Run alone.                             *)
LEMMA HealthStaysFit ==
  ASSUME Inv, HistInv, SoloInv, Next, Observe, NEW n \in Names, Judged(n)'
  PROVE  HealthFits(n)'
<1>1. ASSUME \A c \in Callers : Persist(c) => calls[c].run.name # n
      PROVE  HealthFits(n)'
  <2>1. runs[n] # None /\ runs'[n].id = runs[n].id /\ runs'[n].health = runs[n].health
    BY <1>1, HealthStep DEF Judged
  <2>2. ASSUME NEW c \in Callers, Persist(c) PROVE calls[c].run.id # runs[n].id
    <3>1. PICK k, row : PersistedAs(c, k, row)
      BY <2>2, PersistedRow
    <3>2. k \in Names /\ k # n /\ runs[k] # None /\ runs[k].id = calls[c].run.id
      BY <1>1, <2>2, <3>1 DEF PersistedAs
    <3> QED BY <2>1, <3>2 DEF SoloInv, IdsSane
  <2>3. RunsOf(runs[n].id)' = {h \in history' : h.runId = runs[n].id}
    BY <2>1 DEF RunsOf
  <2>4. \A m \in Names : runs[m] # None /\ runs'[m] = None => runs[m].id # runs[n].id
    BY <2>1 DEF Judged, SoloInv, IdsSane
  <2>5. HealthFits(n)
    <3>1. runs[n].id \notin Settled
      BY <2>2 DEF Settled
    <3>2. runs[n].id \notin doubted
      BY <2>1, <3>1 DEF Judged, Observe
    <3> QED BY <2>1, <3>2 DEF SoloInv, Judged
  <2>6. {h \in history' : h.runId = runs[n].id} = RunsOf(runs[n].id)
    <3>1. CASE history' = history
      BY <3>1 DEF RunsOf
    <3>2. CASE \E m \in Names : /\ runs[m] # None /\ runs'[m] = None
                                /\ history' = {h \in history : h.runId # runs[m].id}
      BY <2>4, <3>2 DEF RunsOf
    <3>3. CASE \E c \in Callers : Persist(c)
      BY <2>2, <3>3, Recording DEF RunsOf
    <3> QED BY <3>1, <3>2, <3>3, HistoryMoves
  <2> QED BY <2>1, <2>3, <2>5, <2>6, FitStays
<1>2. ASSUME NEW c \in Callers, Persist(c), calls[c].run.name = n
      PROVE  HealthFits(n)'
  <2>1. PICK k, row : PersistedAs(c, k, row)
    BY <1>2, PersistedRow
  <2>2. runs'[n] = row
    BY <1>2, <2>1 DEF Inv, TypeOK, PersistedAs
  <2>3. PICK h : h = calls[c].row
    OBVIOUS
  <2>4. /\ history' = history \cup {h} /\ h.runId = row.id /\ h.at = StartOf(calls[c])
        /\ h.at \in Nat
    <3>1. calls[c].row.at \in Nat
      BY <1>2, CallTypes DEF Persist, Inv, PersistCall, ScheduledRun
    <3> QED BY <1>2, <2>1, <2>3, <3>1, Recording DEF PersistedAs
  <2>5. c \notin overlapped
    BY <1>2, <2>1, <2>2 DEF Judged, Observe, Unsettled, PersistedAs
  <2>6. \A g \in history : g.runId = row.id => g.at <= h.at
    BY <1>2, <2>5, <2>1, <2>4, Recording DEF SoloInv, PersistedAs, StartsAreLatest, RunsOf
  <2>7. h \in LatestRuns(n)'
    BY <2>2, <2>4, <2>6 DEF LatestRuns
  <2>8. PICK prior \in PriorOkWindows(history \cup {h}, row.id, h.at) : row.health = DeriveHealth(h, prior)
    BY <2>1, <2>2, <2>3 DEF Judged, PersistedAs
  <2> QED BY <2>2, <2>4, <2>7, <2>8 DEF HealthFits
<1> QED BY <1>1, <1>2

LEMMA SoloInvariance == HealthSpec => [](Inv /\ HistInv /\ SoloInv)
<1>1. HealthInit => SoloInv
  BY DEF HealthInit, Init, SoloInv, HistoryTypes, OverlapsAreSeen, SameRun, IdsSane,
         StartsAreLatest, Judged
<1>2. Inv /\ HistInv /\ SoloInv /\ [HealthNext]_healthVars => SoloInv'
  <2> SUFFICES ASSUME Inv, HistInv, SoloInv, [HealthNext]_healthVars PROVE SoloInv'
    OBVIOUS
  <2>1. CASE HealthNext
    BY <2>1, IdsStaySane, Overlaps, StartsStayLatest, HealthStaysFit DEF HealthNext, SoloInv
  <2>2. CASE UNCHANGED healthVars
    BY <2>2 DEF healthVars, vars, SoloInv, HistoryTypes, OverlapsAreSeen, SameRun, IdsSane,
                StartsAreLatest, RunsOf, Judged, HealthFits, LatestRuns
  <2> QED BY <2>1, <2>2
<1>3. HealthInit => Init
  BY DEF HealthInit
<1>4. [HealthNext]_healthVars => [Next]_vars
  BY DEF HealthNext, healthVars
<1>5. HealthSpec => Spec
  BY <1>3, <1>4, PTL DEF HealthSpec, Spec
<1> QED BY <1>1, <1>2, <1>5, Invariance, HistInvariance, PTL DEF HealthSpec

(* The health of a Run is what derive_health says of its latest run unless *)
(* the call recorded last overlapped another of the same Run, whatever is  *)
(* configured, deployed, removed or cut off meanwhile; the next call alone *)
(* puts it right.                                                          *)
THEOREM HealthIsJudged == HealthSpec => []HealthIsOfLatestRun
<1>1. Inv /\ SoloInv => HealthIsOfLatestRun
  <2> SUFFICES ASSUME Inv, SoloInv PROVE HealthIsOfLatestRun
    OBVIOUS
  <2>1. \A n \in Names : runs[n] # None => (runs[n].health = "paused" <=> ~runs[n].enabled)
    BY DEF Inv, RowInv, RowsSound, RunSound
  <2> QED BY <2>1 DEF SoloInv, Judged, HealthFits, HealthIsOfLatestRun
<1> QED BY <1>1, SoloInvariance, PTL

-------------------------------------------------------------------------------
(* The inductive invariant of the scheduler.                               *)

(* Rows are kept under their own name and have identifiers of their own.   *)
RowsSane ==
  /\ \A n \in Names :
       runs[n] # None =>
         /\ runs[n].name = n /\ runs[n].id <= ulid
         /\ runs[n].nextRun \in Nat \cup {None}
  /\ \A m, n \in Names :
       runs[m] # None /\ runs[n] # None /\ runs[m].id = runs[n].id => m = n

(* A call started in the past, on a row that was there.                    *)
CallsSane ==
  \A c \in Callers :
    calls[c] # None =>
      /\ calls[c].run.id <= ulid
      /\ StartOf(calls[c]) <= clock
      /\ calls[c].pc = "persist" =>
           calls[c].row.runId = calls[c].run.id /\ calls[c].row.trigger = TriggerOf(c)

TaskSane ==
  /\ plan.at \in Nat
  /\ plan.target \in Run \cup {None}
  /\ plan.target # None => plan.target.id <= ulid
  /\ task \in {"found", "stall", "fire"} => plan.target # None

FiresSane == \A h \in Fires : h.runId <= ulid /\ h.at <= clock

FiresOf(id) == {h \in Fires : h.runId = id}

(* What was fired lies before the next fire a row names ...                *)
RowsAhead ==
  \A n \in Names :
    runs[n] # None /\ runs[n].cadence.kind = "interval" /\ runs[n].nextRun # None =>
      \A h \in FiresOf(runs[n].id) : h.at < runs[n].nextRun

(* ... before the fire the task waits for, and before the one under way.   *)
TaskAhead ==
  /\ task = "wait" /\ plan.target # None =>
       \A h \in FiresOf(plan.target.id) : h.at < plan.at
  /\ task = "fire" => \A h \in FiresOf(plan.target.id) : h.at < clock
  /\ task = "run" =>
       \A h \in FiresOf(calls[Scheduler].run.id) : h.at < StartOf(calls[Scheduler])

SaneInv == TypeOK /\ LogInv /\ RowsSane /\ CallsSane /\ TaskSane /\ FiresSane

SchedInv == SaneInv /\ RowsAhead /\ TaskAhead /\ SleepsNoLongerThanDue /\ NoDoubleFire

-------------------------------------------------------------------------------
(* Operators.                                                              *)

LEMMA FirstByNameIsIn ==
  ASSUME NEW S \in SUBSET Names, S # {}
  PROVE  FirstByName(S) \in S
<1> DEFINE ranks == {Rank[n] : n \in S}
<1>1. ranks \in SUBSET Nat /\ ranks # {}
  BY SchedulerAssumption
<1>2. \E x \in ranks : \A y \in ranks : x <= y
  <2> HIDE DEF ranks
  <2> QED BY <1>1, LeastNatural
<1>3. \E n \in S : \A m \in S : Rank[n] <= Rank[m]
  BY <1>2
<1> QED BY <1>3 DEF FirstByName

(* A stored next_run and what an unset one stands for, and what a run is   *)
(* left with: times ahead of now, except a next_run that was stored.       *)
LEMMA NextFireForIsAhead ==
  ASSUME NEW cadence \in Cadence, NEW nextRun \in Nat \cup {None}, NEW now \in Nat
  PROVE  LET fire == NextFireFor(cadence, nextRun, now) IN
         /\ fire \in Nat \cup {None}
         /\ cadence.kind = "interval" /\ nextRun # None => fire = nextRun
         /\ cadence.kind = "interval" => fire # None
         /\ cadence.kind # "interval" \/ nextRun = None => fire = None \/ fire > now
<1>1. CASE cadence.kind = "interval"
  BY <1>1, StepPositive, NoneAssumption DEF NextFireFor
<1>2. CASE cadence.kind = "cron"
  BY <1>2, CronNextFireIsAhead DEF NextFireFor
<1>3. CASE cadence.kind \notin {"interval", "cron"}
  BY <1>3 DEF NextFireFor
<1> QED BY <1>1, <1>2, <1>3

LEMMA FireTimes ==
  ASSUME SaneInv, NEW n \in Names, Enabled(n)
  PROVE  /\ FireTime(n) \in Nat \cup {None}
         /\ runs[n].cadence.kind = "interval" => FireTime(n) # None
         /\ runs[n].cadence.kind = "interval" /\ runs[n].nextRun # None
              => FireTime(n) = runs[n].nextRun
         /\ runs[n].cadence.kind # "interval" \/ runs[n].nextRun = None
              => FireTime(n) = None \/ FireTime(n) > clock
<1>1. /\ runs[n].cadence \in Cadence
      /\ runs[n].nextRun \in Nat \cup {None}
      /\ clock \in Nat
  BY RunTypes DEF SaneInv, RowsSane, Enabled, TypeOK, Run
<1> QED BY <1>1, NextFireForIsAhead DEF FireTime

(* next_fire finds the soonest of all.                                     *)
LEMMA SoonestIsSoonest ==
  ASSUME SaneInv, Fireable # {}
  PROVE  /\ Soonest \in Fireable
         /\ FireTime(Soonest) \in Nat
         /\ \A m \in Fireable : FireTime(Soonest) <= FireTime(m)
<1> DEFINE times == {FireTime(n) : n \in Fireable}
           soonest == {n \in Fireable : \A m \in Fireable : FireTime(n) <= FireTime(m)}
<1>1. \A n \in Fireable : FireTime(n) \in Nat
  BY FireTimes DEF Fireable
<1>2. times \in SUBSET Nat /\ times # {}
  BY <1>1
<1>3. \E t \in times : \A u \in times : t <= u
  <2> HIDE DEF times
  <2> QED BY <1>2, LeastNatural
<1>4. soonest # {}
  BY <1>3
<1>5. soonest \in SUBSET Names
  BY DEF Fireable
<1>6. Soonest \in soonest
  BY <1>4, <1>5, FirstByNameIsIn DEF Soonest
<1> QED BY <1>1, <1>6

-------------------------------------------------------------------------------
(* The steps of the scheduler, by what they do to the tables.              *)

(* Apart from a stall and a tampered row, they are steps of the daemon.    *)
LEMMA DaemonSteps ==
  ASSUME SaneInv, [SchedNext]_schedVars
  PROVE  [Next]_vars \/ StallRecord \/ \E n \in Names : Corrupt(n)
<1>1. CASE PlanFire \/ StallFound \/ StallRead \/ Elapse
  BY <1>1 DEF PlanFire, StallFound, StallRead, Elapse
<1>2. CASE WakeUp \/ TimePasses \/ Restart
  BY <1>2 DEF WakeUp, TimePasses, Restart, Next
<1>3. CASE Fire
  <2>1. plan.target.name \in Names
    BY <1>3 DEF Fire, SaneInv, TaskSane, Run
  <2> QED BY <1>3, <2>1, SchedulerAssumption DEF Fire, Next, RunAction
<1>4. CASE EngineDone
  BY <1>4, SchedulerAssumption DEF EngineDone, Next, RunAction
<1>5. CASE Record \/ RecordFails
  BY <1>5, SchedulerAssumption DEF Record, RecordFails, Next, RunAction
<1>6. CASE Edit
  BY <1>6 DEF Edit, Next, RunAction, ManualCallers
<1>7. CASE ManualStep \/ DeployStep
  BY <1>7 DEF ManualStep, DeployStep, Next, RunAction, ManualCallers
<1>8. CASE UNCHANGED schedVars
  BY <1>8 DEF schedVars
<1> QED BY <1>1, <1>2, <1>3, <1>4, <1>5, <1>6, <1>7, <1>8 DEF SchedNext, TaskStep

LEMMA StalledIsRun ==
  ASSUME SaneInv, StallRecord
  PROVE  /\ plan.target \in Run
         /\ Stalled(plan.target) \in Run
         /\ Stalled(plan.target).id = plan.target.id
         /\ Stalled(plan.target).name = plan.target.name
         /\ Stalled(plan.target).nextRun = None
<1>1. plan.target \in Run
  BY DEF SaneInv, TaskSane, StallRecord
<1> QED BY <1>1 DEF Stalled, Run, Health

LEMMA CorruptedIsRun ==
  ASSUME TypeOK, NEW n \in Names, Corrupt(n)
  PROVE  LET row == [runs[n] EXCEPT !.cadence.kind = "badcron"] IN
         /\ row \in Run
         /\ row.id = runs[n].id /\ row.name = runs[n].name /\ row.nextRun = runs[n].nextRun
         /\ row.cadence.kind = "badcron"
<1>1. runs[n] \in Run /\ runs[n].cadence \in Cadence
  BY RunTypes DEF Corrupt, Run
<1> QED BY <1>1 DEF Run, Cadence

(* The clock and the identifiers only move forward.                        *)
LEMMA CountersGrow ==
  ASSUME SaneInv, [SchedNext]_schedVars
  PROVE  clock' \in Nat /\ ulid' \in Nat /\ clock <= clock' /\ ulid <= ulid'
<1> DEFINE Forward ==
      clock' \in {clock, clock + 1} /\ ulid' \in {ulid, ulid + 1}
<1>1. clock \in Nat /\ ulid \in Nat
  BY DEF SaneInv, TypeOK
<1> SUFFICES Forward
  BY <1>1
<1>2. CASE StallRecord \/ \E n \in Names : Corrupt(n)
  BY <1>2 DEF StallRecord, Corrupt
<1>3. CASE [Next]_vars
  <2> USE DEF disk
  <2>1. ASSUME NEW n \in Names, NEW config, Configured(n, config) PROVE Forward
    BY <2>1 DEF Configured
  <2>2. CASE ConfigAction
    BY <2>1, <2>2 DEF ConfigAction, ConfigureRun, RemoveRun, EnsureMissing, EnsureConfigure,
                      SaneInv, TypeOK
  <2>3. CASE DeployAction
    BY <2>3 DEF DeployAction, DeployBegin, DeployWrite, DeployCommit, DeployFails
  <2>4. CASE RunAction
    BY <2>4 DEF RunAction, RunOnceStart, EngineOk, EngineFail, Persist, PersistFails
  <2>5. CASE Tick \/ TakeWake \/ Reopen \/ UNCHANGED vars
    BY <2>5 DEF Tick, TakeWake, Reopen, vars
  <2> QED BY <1>3, <2>2, <2>3, <2>4, <2>5 DEF Next
<1> QED BY <1>2, <1>3, DaemonSteps

LEMMA BaseStep ==
  ASSUME SaneInv, [SchedNext]_schedVars
  PROVE  TypeOK' /\ LogInv'
<1>1. CASE [Next]_vars
  BY <1>1, TypeStep, LogStep DEF SaneInv, LogInv
<1>2. CASE StallRecord
  <2>1. history' \subseteq ScheduledRun
    <3>1. [id |-> ulid + 1, runId |-> plan.target.id, at |-> plan.at,
           trigger |-> "schedule", ephemeral |-> FALSE, outcome |-> "fail",
           counts |-> NoCounts, version |-> None] \in ScheduledRun
      BY <1>2, StalledIsRun, NoCountsType
      DEF ScheduledRun, Outcome, Run, SaneInv, TaskSane, TypeOK
    <3> QED BY <1>2, <3>1 DEF StallRecord, InsertScheduledRun, SaneInv, TypeOK
  <2>2. runs' \in [Names -> Run \cup {None}]
    BY <1>2, StalledIsRun DEF StallRecord, UpdateRun, SaneInv, TypeOK
  <2>3. TypeOK'
    BY <1>2, <2>1, <2>2, CountersGrow DEF StallRecord, SaneInv, TypeOK
  <2> QED BY <1>2, <2>3, LogUnchanged DEF StallRecord, SaneInv
<1>3. ASSUME NEW n \in Names, Corrupt(n)
      PROVE  TypeOK' /\ LogInv'
  <2>1. runs' \in [Names -> Run \cup {None}]
    BY <1>3, CorruptedIsRun DEF Corrupt, UpdateRun, SaneInv, TypeOK
  <2>2. TypeOK'
    BY <1>3, <2>1 DEF Corrupt, SaneInv, TypeOK
  <2> QED BY <1>3, <2>2, LogUnchanged DEF Corrupt, SaneInv
<1> QED BY <1>1, <1>2, <1>3, DaemonSteps

-------------------------------------------------------------------------------
(* Rows.                                                                   *)

(* A step writes a row: a new one, or another version of one that is there.*)
Written(row) ==
  /\ row \in Run
  /\ row.nextRun \in Nat \cup {None}
  /\ row.id <= ulid'
  /\ runs' = [runs EXCEPT ![row.name] = row]
  /\ row.id > ulid \/ (runs[row.name] # None /\ runs[row.name].id = row.id)

(* ... whose next fire, if it is one of an interval, is ahead of now, or   *)
(* is what it was.                                                         *)
AheadOfNow(row) ==
  row.cadence.kind = "interval" /\ row.nextRun # None => row.nextRun > clock

SameSchedule(row) ==
  LET prior == runs[row.name] IN
  /\ prior # None /\ prior.id = row.id
  /\ row.cadence = prior.cadence /\ row.nextRun = prior.nextRun

Advanced(row) == AheadOfNow(row) \/ SameSchedule(row)

LEMMA ConfiguredWrites ==
  ASSUME SaneInv, [SchedNext]_schedVars, NEW n \in Names, NEW config \in RunConfig,
         Configured(n, config)
  PROVE  \E row : Written(row) /\ Advanced(row)
<1> DEFINE next == NextFireFor(config.cadence, None, clock)
<1>1. clock \in Nat /\ ulid \in Nat /\ config.cadence \in Cadence
  BY DEF SaneInv, TypeOK, RunConfig
<1>2. next \in Nat \cup {None} /\ (next = None \/ next > clock)
  BY <1>1, NextFireForIsAhead
<1> HIDE DEF next
<1>3. CASE runs[n] = None
  <2> DEFINE row == FreshRun(n, config, ulid + 1)
  <2>1. row \in Run
    BY <1>1, FreshRunType DEF SaneInv, LogInv
  <2>2. row.name = n /\ row.id = ulid + 1 /\ row.nextRun = next
    BY DEF FreshRun, next
  <2>3. runs' = [runs EXCEPT ![n] = row] /\ ulid' = ulid + 1
    BY <1>3 DEF Configured, UpdateRun, FreshRun
  <2> HIDE DEF row
  <2>4. row.id <= ulid' /\ row.id > ulid
    BY <1>1, <2>2, <2>3
  <2>5. Written(row)
    BY <1>2, <2>1, <2>2, <2>3, <2>4 DEF Written
  <2>6. Advanced(row)
    BY <1>2, <2>2 DEF Advanced, AheadOfNow
  <2> QED BY <2>5, <2>6
<1>4. CASE runs[n] # None
  <2> DEFINE row == Reconfigured(runs[n], config)
  <2>1. row \in Run /\ row.id = runs[n].id /\ row.name = runs[n].name
    BY <1>4, RunTypes, ReconfiguredType DEF SaneInv
  <2>2. row.nextRun = next
    BY <1>4, RunTypes DEF Reconfigured, next, SaneInv, Run
  <2>3. runs[n].name = n /\ runs[n].id <= ulid
    BY <1>4 DEF SaneInv, RowsSane
  <2>4. runs' = [runs EXCEPT ![n] = row] /\ ulid' = ulid
    BY <1>4, <2>3, <2>1 DEF Configured, UpdateRun
  <2> HIDE DEF row
  <2> QED BY <1>2, <1>4, <2>1, <2>2, <2>3, <2>4 DEF Written, Advanced, AheadOfNow
<1> QED BY <1>3, <1>4

LEMMA PersistWrites ==
  ASSUME SaneInv, [SchedNext]_schedVars, NEW c \in Callers, Persist(c)
  PROVE  \E row : /\ Written(row) /\ AheadOfNow(row)
                  /\ row.id = calls[c].run.id
                  /\ row.name = calls[c].run.name
<1>1. /\ calls[c].run \in Run
      /\ calls[c].run.cadence \in Cadence /\ calls[c].run.nextRun \in Int \cup {None}
      /\ clock \in Nat
  BY CallTypes DEF Persist, SaneInv, Run, TypeOK
<1>2. PICK prior \in PriorOkWindows(history \cup {calls[c].row},
                                    calls[c].run.id, calls[c].row.at) :
        UpdateRun(RowAfterRun(calls[c].run, DeriveHealth(calls[c].row, prior)))
  BY DEF Persist
<1> DEFINE row == RowAfterRun(calls[c].run, DeriveHealth(calls[c].row, prior))
           next == AdvanceNextRun(calls[c].run.cadence, calls[c].run.nextRun, clock)
<1>3. row \in Run /\ row.id = calls[c].run.id /\ row.name = calls[c].run.name
  BY <1>1, RowAfterRunSound, DeriveHealthType DEF SaneInv
<1>4. row.nextRun = next
  BY <1>1 DEF RowAfterRun, Run
<1>5. next \in Int \cup {None} /\ (next # None => next > clock)
  BY <1>1, AdvanceIsAhead
<1>6. runs' = [runs EXCEPT ![row.name] = row]
  BY <1>2 DEF UpdateRun
<1>7. runs[row.name] # None /\ runs[row.name].id = row.id
  BY <1>3 DEF Persist, Live
<1>8. row.id <= ulid'
  BY CountersGrow, <1>3, <1>1 DEF SaneInv, CallsSane, Persist, TypeOK, Run
<1> HIDE DEF row, next
<1>9. row.nextRun \in Nat \cup {None} /\ AheadOfNow(row)
  BY <1>1, <1>4, <1>5 DEF AheadOfNow
<1> QED BY <1>3, <1>6, <1>7, <1>8, <1>9 DEF Written

(* What a step may do to the rows.                                         *)
LEMMA RowsStep ==
  ASSUME SaneInv, [SchedNext]_schedVars
  PROVE  \/ UNCHANGED runs
         \/ \E n \in Names : runs' = [runs EXCEPT ![n] = None]
         \/ \E row : Written(row) /\ Advanced(row)
<1> USE DEF disk
<1>1. CASE PlanFire \/ StallFound \/ StallRead \/ WakeUp \/ Elapse \/ TimePasses \/ Restart
  BY <1>1 DEF PlanFire, StallFound, StallRead, WakeUp, Elapse, TimePasses, Restart,
              TakeWake, Tick, Reopen, vars
<1>2. CASE StallRecord
  <2> DEFINE row == Stalled(plan.target)
  <2>1. CASE Live(plan.target)
    <3>1. runs' = [runs EXCEPT ![row.name] = row]
      BY <1>2, <2>1 DEF StallRecord, UpdateRun
    <3>2. runs[row.name] # None /\ runs[row.name].id = row.id
      BY <1>2, <2>1, StalledIsRun DEF Live
    <3>3. row \in Run /\ row.id <= ulid' /\ row.nextRun = None
      BY <1>2, StalledIsRun, CountersGrow DEF SaneInv, TaskSane, TypeOK, Run, StallRecord
    <3> HIDE DEF row
    <3> QED BY <3>1, <3>2, <3>3 DEF Written, Advanced, AheadOfNow
  <2>2. CASE ~Live(plan.target)
    BY <1>2, <2>2 DEF StallRecord
  <2> QED BY <2>1, <2>2
<1>3. CASE Fire \/ EngineDone
  BY <1>3 DEF Fire, EngineDone, RunOnceStart, EngineOk, EngineFail, vars
<1>4. CASE Record \/ RecordFails \/ ManualStep
  <2>1. CASE \E c \in Callers : Persist(c)
    BY <2>1, PersistWrites DEF Advanced
  <2>2. CASE \E c \in Callers : PersistFails(c) \/ EngineFail(c)
    BY <2>2 DEF PersistFails, EngineFail
  <2>3. CASE \E c \in Callers, k \in EmitCounts : EngineOk(c, k)
    BY <2>3 DEF EngineOk
  <2> QED BY <1>4, <2>1, <2>2, <2>3, SchedulerAssumption
    DEF Record, RecordFails, ManualStep, ManualCallers
<1>5. CASE Edit
  <2>1. ASSUME NEW n \in Names, NEW e \in BOOLEAN, NEW c \in Cadences, NEW o \in Outputs,
               ConfigureRun(n, [enabled |-> e, cadence |-> c, output |-> o])
        PROVE  \E row : Written(row) /\ Advanced(row)
    <3>1. [enabled |-> e, cadence |-> c, output |-> o] \in RunConfig
      BY DaemonAssumption DEF RunConfig
    <3> QED BY <2>1, <3>1, ConfiguredWrites DEF ConfigureRun
  <2>2. ASSUME NEW c \in Clients, EnsureConfigure(c)
        PROVE  \E row : Written(row) /\ Advanced(row)
    <3>1. ensures[c] \in Names
      BY <2>2 DEF EnsureConfigure, SaneInv, TypeOK
    <3> QED BY <2>2, <3>1, DefaultConfigType, ConfiguredWrites DEF EnsureConfigure
  <2>3. ASSUME NEW n \in Names, RemoveRun(n)
        PROVE  runs' = [runs EXCEPT ![n] = None]
    BY <2>3 DEF RemoveRun, DeleteRun, SaneInv, RowsSane
  <2>4. ASSUME NEW n \in Names, Corrupt(n)
        PROVE  \E row : Written(row) /\ Advanced(row)
    <3> DEFINE row == [runs[n] EXCEPT !.cadence.kind = "badcron"]
    <3>1. /\ row \in Run /\ row.id = runs[n].id /\ row.name = runs[n].name
          /\ row.nextRun = runs[n].nextRun /\ row.cadence.kind = "badcron"
      BY <2>4, CorruptedIsRun DEF SaneInv
    <3>2. runs[n] # None /\ runs[n].name = n /\ runs[n].id <= ulid
          /\ runs[n].nextRun \in Nat \cup {None}
      BY <2>4 DEF Corrupt, SaneInv, RowsSane
    <3>3. runs' = [runs EXCEPT ![row.name] = row] /\ ulid' = ulid
      BY <2>4 DEF Corrupt, UpdateRun
    <3> HIDE DEF row
    <3> QED BY <3>1, <3>2, <3>3 DEF Written, Advanced, AheadOfNow
  <2>5. CASE \E c \in Clients, n \in Names : EnsureMissing(c, n)
    BY <2>5 DEF EnsureMissing
  <2>6. CASE \E c \in ManualCallers, n \in Names : RunOnceStart(c, n, FALSE)
    BY <2>6 DEF RunOnceStart
  <2> QED BY <1>5, <2>1, <2>2, <2>3, <2>4, <2>5, <2>6 DEF Edit, ConfigAction
<1>6. CASE DeployStep
  <2>1. ASSUME NEW d \in Deployers, DeployCommit(d), runs' # runs
        PROVE  \E row : Written(row) /\ Advanced(row)
    <3> DEFINE n == deploys[d].name
               row == [runs[n] EXCEPT !.version = deploys[d].version]
    <3>1. deploys[d] \in DeployCall /\ n \in Names /\ runs[n] # None
      BY <2>1, DeployTypes DEF DeployCommit, DeployCall, SaneInv
    <3>2. /\ runs[n] \in Run /\ runs[n].name = n /\ runs[n].id <= ulid
          /\ runs[n].nextRun \in Nat \cup {None}
      BY <3>1, RunTypes DEF SaneInv, RowsSane
    <3>3. /\ row \in Run /\ row.name = n /\ row.id = runs[n].id
          /\ row.cadence = runs[n].cadence /\ row.nextRun = runs[n].nextRun
      BY <3>1, <3>2 DEF Run, DeployCall
    <3>4. runs' = [runs EXCEPT ![n] = row] /\ ulid' = ulid
      BY <2>1, <3>1, <3>2 DEF DeployCommit, UpdateRun
    <3> HIDE DEF n, row
    <3> QED BY <3>1, <3>2, <3>3, <3>4 DEF Written, Advanced, SameSchedule
  <2> QED BY <1>6, <2>1 DEF DeployStep, DeployAction, DeployBegin, DeployWrite, DeployFails
<1>7. CASE UNCHANGED schedVars
  BY <1>7 DEF schedVars, vars
<1> QED BY <1>1, <1>2, <1>3, <1>4, <1>5, <1>6, <1>7 DEF SchedNext, TaskStep

LEMMA RowsStaySane ==
  ASSUME SaneInv, [SchedNext]_schedVars
  PROVE  RowsSane'
<1>1. /\ ulid \in Nat /\ ulid' \in Nat /\ ulid <= ulid'
      /\ \A n \in Names : runs[n] # None => runs[n].id \in Nat
      /\ DOMAIN runs = Names
  BY CountersGrow, RunTypes DEF SaneInv, TypeOK, Run
<1>2. CASE UNCHANGED runs
  BY <1>1, <1>2 DEF SaneInv, RowsSane
<1>3. ASSUME NEW n \in Names, runs' = [runs EXCEPT ![n] = None]
      PROVE  RowsSane'
  BY <1>1, <1>3 DEF SaneInv, RowsSane
<1>4. ASSUME NEW row, Written(row)
      PROVE  RowsSane'
  <2>1. row.id \in Nat /\ row.name \in Names
    BY <1>4 DEF Written, Run
  <2>2. \A n \in Names : runs'[n] = IF n = row.name THEN row ELSE runs[n]
    BY <1>1, <1>4 DEF Written
  <2>3. \A n \in Names : runs[n] # None /\ n # row.name => runs[n].id # row.id
    BY <1>1, <1>4, <2>1 DEF Written, SaneInv, RowsSane
  <2> QED BY <1>1, <1>4, <2>1, <2>2, <2>3 DEF Written, SaneInv, RowsSane
<1> QED BY <1>2, <1>3, <1>4, RowsStep

-------------------------------------------------------------------------------
(* Calls, the task and the history.                                        *)

(* What a step may do to a call: end it, start it, or let its engine end.  *)
CallStarted(c) ==
  /\ calls'[c].pc = "engine"
  /\ \E n \in Names : runs[n] # None /\ calls'[c].run = runs[n]
  /\ StartOf(calls'[c]) = clock

EngineEnded(c) ==
  /\ calls[c] # None
  /\ calls'[c].pc = "persist"
  /\ calls'[c].run = calls[c].run
  /\ StartOf(calls'[c]) = StartOf(calls[c])
  /\ calls'[c].row.runId = calls[c].run.id
  /\ calls'[c].row.trigger = TriggerOf(c)

LEMMA StartedCall ==
  ASSUME SaneInv, NEW c \in Callers, NEW n \in Names, NEW e, RunOnceStart(c, n, e)
  PROVE  /\ CallStarted(c) /\ calls'[c].run = runs[n]
         /\ \A d \in Callers : d # c => calls'[d] = calls[d]
BY DEF RunOnceStart, CallStarted, StartOf, SaneInv, TypeOK

LEMMA EndedEngine ==
  ASSUME SaneInv, NEW c \in Callers,
         EngineFail(c) \/ \E k \in EmitCounts : EngineOk(c, k)
  PROVE  /\ EngineEnded(c)
         /\ \A d \in Callers : d # c => calls'[d] = calls[d]
<1>1. PICK outcome, counts :
        /\ calls' = [calls EXCEPT ![c] = [pc |-> "persist", run |-> calls[c].run,
                                          row |-> RowOf(c, outcome, counts)]]
        /\ calls[c] # None /\ calls[c].pc = "engine"
  BY DEF EngineFail, EngineOk
<1>2. /\ RowOf(c, outcome, counts).at = calls[c].at
      /\ RowOf(c, outcome, counts).runId = calls[c].run.id
      /\ RowOf(c, outcome, counts).trigger = TriggerOf(c)
  BY DEF RowOf
<1> QED BY <1>1, <1>2 DEF EngineEnded, StartOf, SaneInv, TypeOK

LEMMA EndedCall ==
  ASSUME SaneInv, NEW c \in Callers, Persist(c) \/ PersistFails(c)
  PROVE  calls'[c] = None /\ \A d \in Callers : d # c => calls'[d] = calls[d]
BY DEF Persist, PersistFails, SaneInv, TypeOK

LEMMA CallsStep ==
  ASSUME SaneInv, [SchedNext]_schedVars, NEW c \in Callers
  PROVE  \/ calls'[c] = None \/ calls'[c] = calls[c]
         \/ CallStarted(c) \/ EngineEnded(c)
<1> USE DEF disk
<1>1. ASSUME NEW d \in Callers, NEW n \in Names, RunOnceStart(d, n, FALSE)
      PROVE  calls'[c] = calls[c] \/ CallStarted(c)
  BY <1>1, StartedCall
<1>2. ASSUME NEW d \in Callers, EngineFail(d) \/ \E k \in EmitCounts : EngineOk(d, k)
      PROVE  calls'[c] = calls[c] \/ EngineEnded(c)
  BY <1>2, EndedEngine
<1>3. ASSUME NEW d \in Callers, Persist(d) \/ PersistFails(d)
      PROVE  calls'[c] = calls[c] \/ calls'[c] = None
  BY <1>3, EndedCall
<1>4. CASE PlanFire \/ StallFound \/ StallRead \/ StallRecord \/ WakeUp \/ Elapse \/ TimePasses
  BY <1>4 DEF PlanFire, StallFound, StallRead, StallRecord, WakeUp, Elapse, TimePasses,
              TakeWake, Tick, vars
<1>5. CASE Fire
  <2>1. plan.target.name \in Names
    BY <1>5 DEF Fire, SaneInv, TaskSane, Run
  <2> QED BY <1>1, <1>5, <2>1, SchedulerAssumption DEF Fire, vars
<1>6. CASE EngineDone \/ Record \/ RecordFails \/ ManualStep
  BY <1>2, <1>3, <1>6, SchedulerAssumption
  DEF EngineDone, Record, RecordFails, ManualStep, ManualCallers
<1>7. CASE Restart
  BY <1>7 DEF Restart, Reopen
<1>8. CASE Edit
  <2>1. CASE ConfigAction \/ \E n \in Names : Corrupt(n)
    BY <2>1 DEF ConfigAction, ConfigureRun, Configured, RemoveRun, EnsureMissing,
                EnsureConfigure, Corrupt
  <2>2. CASE \E d \in ManualCallers, n \in Names : RunOnceStart(d, n, FALSE)
    BY <1>1, <2>2 DEF ManualCallers
  <2> QED BY <1>8, <2>1, <2>2 DEF Edit
<1>9. CASE DeployStep
  BY <1>9 DEF DeployStep, DeployAction, DeployBegin, DeployWrite, DeployCommit, DeployFails
<1>10. CASE UNCHANGED schedVars
  BY <1>10 DEF schedVars, vars
<1> QED BY <1>4, <1>5, <1>6, <1>7, <1>8, <1>9, <1>10 DEF SchedNext, TaskStep

LEMMA CallsStaySane ==
  ASSUME SaneInv, [SchedNext]_schedVars
  PROVE  CallsSane'
<1> SUFFICES ASSUME NEW c \in Callers, calls'[c] # None
             PROVE  /\ calls'[c].run.id <= ulid'
                    /\ StartOf(calls'[c]) <= clock'
                    /\ calls'[c].pc = "persist" =>
                         /\ calls'[c].row.runId = calls'[c].run.id
                         /\ calls'[c].row.trigger = TriggerOf(c)
  BY DEF CallsSane, StartOf
<1>1. /\ clock \in Nat /\ clock' \in Nat /\ clock <= clock'
      /\ ulid \in Nat /\ ulid' \in Nat /\ ulid <= ulid'
  BY CountersGrow DEF SaneInv, TypeOK
<1>2. calls[c] # None => calls[c].run.id \in Nat /\ StartOf(calls[c]) \in Nat
  BY CallTypes DEF SaneInv, StartOf, Run, EngineCall, PersistCall, ScheduledRun
<1>3. CASE calls'[c] = calls[c]
  BY <1>1, <1>2, <1>3 DEF SaneInv, CallsSane
<1>4. CASE CallStarted(c)
  <2>1. PICK n \in Names : runs[n] # None /\ calls'[c].run = runs[n]
    BY <1>4 DEF CallStarted
  <2>2. runs[n].id \in Nat /\ runs[n].id <= ulid
    BY <2>1, RunTypes DEF SaneInv, RowsSane, Run
  <2> QED BY <1>1, <1>4, <2>1, <2>2 DEF CallStarted
<1>5. CASE EngineEnded(c)
  BY <1>1, <1>2, <1>5 DEF EngineEnded, SaneInv, CallsSane
<1> QED BY <1>3, <1>4, <1>5, CallsStep

(* Steps beside the task leave its call alone, and fire nothing.           *)
LEMMA OthersLeaveTheTask ==
  ASSUME SaneInv, Edit \/ ManualStep \/ DeployStep \/ TimePasses
  PROVE  /\ UNCHANGED <<task, plan>>
         /\ calls'[Scheduler] = calls[Scheduler]
         /\ Fires' \subseteq Fires
<1> USE DEF disk
<1>0. Scheduler \in Callers
  BY SchedulerAssumption
<1>1. CASE Edit
  <2>1. CASE \E n \in Names : RemoveRun(n)
    BY <1>1, <2>1 DEF Edit, RemoveRun, DeleteRun, Fires
  <2>2. CASE \E c \in ManualCallers, n \in Names : RunOnceStart(c, n, FALSE)
    <3>1. calls'[Scheduler] = calls[Scheduler]
      BY <1>0, <2>2, StartedCall DEF ManualCallers
    <3> QED BY <1>1, <2>2, <3>1 DEF Edit, RunOnceStart, Fires
  <2>3. CASE UNCHANGED <<history, calls>>
    BY <1>1, <2>3 DEF Edit, Fires
  <2> QED BY <1>1, <2>1, <2>2, <2>3 DEF Edit, ConfigAction, ConfigureRun, Configured,
                                        EnsureMissing, EnsureConfigure, Corrupt
<1>2. CASE ManualStep
  <2>1. PICK c \in ManualCallers :
          \/ EngineFail(c) \/ (\E k \in EmitCounts : EngineOk(c, k))
          \/ Persist(c) \/ PersistFails(c)
    BY <1>2 DEF ManualStep
  <2>2. c \in Callers /\ c # Scheduler
    BY DEF ManualCallers
  <2>3. calls'[Scheduler] = calls[Scheduler]
    BY <1>0, <2>1, <2>2, EndedEngine, EndedCall
  <2>4. Fires' \subseteq Fires
    <3>1. CASE Persist(c)
      <4>1. calls[c].row.trigger = "manual"
        BY <2>2, <3>1 DEF Persist, SaneInv, CallsSane, TriggerOf
      <4>2. history' = history \cup {calls[c].row}
        BY <3>1 DEF Persist, InsertScheduledRun
      <4> QED BY <4>1, <4>2 DEF Fires
    <3>2. CASE UNCHANGED history
      BY <3>2 DEF Fires
    <3> QED BY <2>1, <3>1, <3>2 DEF EngineFail, EngineOk, PersistFails
  <2> QED BY <1>2, <2>3, <2>4 DEF ManualStep
<1>3. CASE DeployStep
  BY <1>3 DEF DeployStep, DeployAction, DeployBegin, DeployWrite, DeployCommit, DeployFails,
              Fires
<1>4. CASE TimePasses
  BY <1>4 DEF TimePasses, Tick, Fires
<1> QED BY <1>1, <1>2, <1>3, <1>4

(* What is added to the fires is a run the task ended.                     *)
LEMMA FiresStep ==
  ASSUME SaneInv, [SchedNext]_schedVars
  PROVE  \/ Fires' \subseteq Fires
         \/ /\ Record /\ Persist(Scheduler)
            /\ Fires' \subseteq Fires \cup {calls[Scheduler].row}
<1> USE DEF disk
<1>1. CASE Edit \/ ManualStep \/ DeployStep \/ TimePasses
  BY <1>1, OthersLeaveTheTask
<1>2. CASE PlanFire \/ StallFound \/ StallRead \/ WakeUp \/ Elapse \/ Fire \/ EngineDone \/ Restart
  BY <1>2 DEF PlanFire, StallFound, StallRead, WakeUp, Elapse, Fire, EngineDone, Restart,
              TakeWake, Reopen, RunOnceStart, EngineOk, EngineFail, vars, Fires
<1>3. CASE StallRecord
  BY <1>3 DEF StallRecord, InsertScheduledRun, Fires
<1>4. CASE Record \/ RecordFails
  BY <1>4 DEF Record, RecordFails, Persist, PersistFails, InsertScheduledRun, Fires
<1>5. CASE UNCHANGED schedVars
  BY <1>5 DEF schedVars, vars, Fires
<1> QED BY <1>1, <1>2, <1>3, <1>4, <1>5 DEF SchedNext, TaskStep

LEMMA FiresTypes ==
  ASSUME SaneInv, NEW h \in Fires
  PROVE  h.at \in Nat /\ h.runId \in Nat /\ h.at <= clock /\ h.runId <= ulid
BY DEF Fires, SaneInv, FiresSane, TypeOK, ScheduledRun

(* The row the task records is one of the past, of the Run of its call.    *)
LEMMA RecordedRow ==
  ASSUME SaneInv, Persist(Scheduler)
  PROVE  LET row == calls[Scheduler].row IN
         /\ row.at \in Nat /\ row.runId \in Nat
         /\ row.at <= clock /\ row.runId <= ulid
         /\ row.at = StartOf(calls[Scheduler])
         /\ row.runId = calls[Scheduler].run.id
<1>1. /\ Scheduler \in Callers
      /\ calls[Scheduler] # None /\ calls[Scheduler].pc = "persist"
  BY SchedulerAssumption DEF Persist
<1>2. calls[Scheduler] \in PersistCall
  BY <1>1, CallTypes DEF SaneInv
<1> QED BY <1>1, <1>2 DEF SaneInv, CallsSane, StartOf, PersistCall, ScheduledRun

LEMMA FiresStaySane ==
  ASSUME SaneInv, [SchedNext]_schedVars
  PROVE  FiresSane'
<1>1. /\ clock \in Nat /\ clock' \in Nat /\ clock <= clock'
      /\ ulid \in Nat /\ ulid' \in Nat /\ ulid <= ulid'
  BY CountersGrow DEF SaneInv, TypeOK
<1>2. ASSUME NEW h \in Fires'
      PROVE  h.at \in Nat /\ h.runId \in Nat /\ h.at <= clock /\ h.runId <= ulid
  BY <1>2, FiresStep, FiresTypes, RecordedRow
<1> QED BY <1>1, <1>2 DEF FiresSane

LEMMA TaskStaysSane ==
  ASSUME SaneInv, [SchedNext]_schedVars
  PROVE  TaskSane'
<1>0. /\ clock \in Nat /\ ulid \in Nat /\ ulid' \in Nat /\ ulid <= ulid'
      /\ Scheduler \in Callers
      /\ plan.target # None => plan.target.id \in Nat
  BY CountersGrow, SchedulerAssumption DEF SaneInv, TypeOK, TaskSane, Run
<1>1. \A n \in Names : runs[n] # None => runs[n] \in Run /\ runs[n].id \in Nat
                                         /\ runs[n].id <= ulid'
  BY <1>0, RunTypes DEF SaneInv, RowsSane, Run
<1>2. CASE PlanFire
  <2>1. CASE Fireable = {}
    <3>1. NoPlan.at \in Nat
      BY <1>0, SchedulerAssumption DEF NoPlan
    <3> QED BY <1>2, <2>1, <3>1 DEF PlanFire, NoPlan, TaskSane
  <2>2. CASE Fireable # {}
    <3>1. Soonest \in Names /\ runs[Soonest] # None /\ FireTime(Soonest) \in Nat
      BY <2>2, SoonestIsSoonest DEF Fireable, Enabled
    <3> QED BY <1>1, <1>2, <2>2, <3>1 DEF PlanFire, TaskSane
  <2> QED BY <2>1, <2>2
<1>3. CASE StallFound
  <2> DEFINE S == {m \in Names : Unreported(m)}
             n == FirstByName(S)
  <2>1. n \in S
    BY <1>3, FirstByNameIsIn DEF StallFound
  <2>2. plan' = [at |-> clock, target |-> runs[n]] /\ task' = "found"
    BY <1>3 DEF StallFound
  <2>3. n \in Names /\ runs[n] # None
    BY <2>1 DEF Unreported, Enabled
  <2> HIDE DEF n
  <2> QED BY <1>0, <1>1, <2>2, <2>3 DEF TaskSane
<1>4. CASE StallRead
  <2>1. plan.target \in Run /\ plan.target.name \in Names
    BY <1>4 DEF StallRead, SaneInv, TaskSane, Run
  <2> QED BY <1>0, <1>1, <1>4, <2>1 DEF StallRead, Live, SaneInv, TaskSane
<1>5. CASE StallRecord \/ WakeUp \/ Record \/ RecordFails \/ Restart
  BY <1>0, <1>5 DEF StallRecord, WakeUp, Record, RecordFails, Restart, SaneInv, TaskSane
<1>6. CASE Elapse
  BY <1>0, <1>6 DEF Elapse, SaneInv, TaskSane
<1>7. CASE Fire
  BY <1>0, <1>7 DEF Fire, SaneInv, TaskSane
<1>8. CASE EngineDone
  BY <1>0, <1>8 DEF EngineDone, SaneInv, TaskSane
<1>9. CASE Edit \/ ManualStep \/ DeployStep \/ TimePasses
  BY <1>0, <1>9, OthersLeaveTheTask DEF SaneInv, TaskSane
<1>10. CASE UNCHANGED schedVars
  BY <1>10 DEF schedVars, vars, SaneInv, TaskSane
<1> QED BY <1>2, <1>3, <1>4, <1>5, <1>6, <1>7, <1>8, <1>9, <1>10 DEF SchedNext, TaskStep

LEMMA SaneStep ==
  ASSUME SaneInv, [SchedNext]_schedVars
  PROVE  SaneInv'
BY BaseStep, RowsStaySane, CallsStaySane, TaskStaysSane, FiresStaySane DEF SaneInv

-------------------------------------------------------------------------------
(* The ordering.                                                           *)

LEMMA RowsStayAhead ==
  ASSUME SaneInv, RowsAhead, [SchedNext]_schedVars
  PROVE  RowsAhead'
<1> SUFFICES ASSUME NEW n \in Names, runs'[n] # None,
                    runs'[n].cadence.kind = "interval", runs'[n].nextRun # None,
                    NEW h \in Fires', h.runId = runs'[n].id
             PROVE  h.at < runs'[n].nextRun
  BY DEF RowsAhead, FiresOf
<1>1. /\ clock \in Nat /\ ulid \in Nat
      /\ h.at \in Nat /\ h.at <= clock
      /\ DOMAIN runs = Names
  BY FiresStep, FiresTypes, RecordedRow DEF SaneInv, TypeOK
<1>2. ASSUME NEW row, Written(row), AheadOfNow(row), n = row.name
      PROVE  h.at < runs'[n].nextRun
  <2>1. runs'[n] = row
    BY <1>1, <1>2 DEF Written
  <2>2. row.nextRun > clock /\ row.nextRun \in Nat
    BY <1>2, <2>1 DEF AheadOfNow, Written
  <2> QED BY <1>1, <2>1, <2>2
<1>3. ASSUME runs'[n] = runs[n], h \in Fires
      PROVE  h.at < runs'[n].nextRun
  BY <1>3 DEF RowsAhead, FiresOf
<1>4. CASE Fires' \subseteq Fires
  <2>1. \/ UNCHANGED runs
        \/ \E m \in Names : runs' = [runs EXCEPT ![m] = None]
        \/ \E row : Written(row) /\ Advanced(row)
    BY RowsStep
  <2>2. ASSUME NEW m \in Names, runs' = [runs EXCEPT ![m] = None]
        PROVE  runs'[n] = runs[n]
    BY <1>1, <2>2
  <2>3. ASSUME NEW row, Written(row), n # row.name
        PROVE  runs'[n] = runs[n]
    BY <1>1, <2>3 DEF Written
  <2>4. ASSUME NEW row, Written(row), SameSchedule(row), n = row.name
        PROVE  h.at < runs'[n].nextRun
    <3>1. runs'[n] = row
      BY <1>1, <2>4 DEF Written
    <3> QED BY <1>4, <2>4, <3>1 DEF SameSchedule, RowsAhead, FiresOf
  <2> QED BY <1>2, <1>3, <1>4, <2>1, <2>2, <2>3, <2>4 DEF Advanced
<1>5. CASE Persist(Scheduler) /\ Fires' \subseteq Fires \cup {calls[Scheduler].row}
  <2>1. PICK row : /\ Written(row) /\ AheadOfNow(row)
                   /\ row.id = calls[Scheduler].run.id
                   /\ row.name = calls[Scheduler].run.name
    BY <1>5, SchedulerAssumption, PersistWrites
  <2>2. CASE n # row.name
    <3>1. runs'[n] = runs[n]
      BY <1>1, <2>1, <2>2 DEF Written
    <3>2. runs[row.name] # None /\ runs[row.name].id = row.id /\ row.name \in Names
      BY <1>5, <2>1 DEF Persist, Live, Written, Run
    <3>3. runs[n].id # row.id
      BY <2>2, <3>1, <3>2 DEF SaneInv, RowsSane
    <3>4. h \in Fires
      BY <1>5, <2>1, <3>1, <3>3, RecordedRow
    <3> QED BY <1>3, <3>1, <3>4
  <2> QED BY <1>2, <2>1, <2>2
<1> QED BY <1>4, <1>5, FiresStep

(* The plan is ahead of all that was fired of the Run it names.            *)
LEMMA PlanIsAhead ==
  ASSUME SaneInv, RowsAhead, Fireable # {}, NEW h \in FiresOf(runs[Soonest].id)
  PROVE  h.at < FireTime(Soonest)
<1>1. /\ Soonest \in Names /\ Enabled(Soonest)
      /\ FireTime(Soonest) \in Nat /\ FireTime(Soonest) # None
  BY SoonestIsSoonest DEF Fireable
<1>2. h \in Fires /\ h.at \in Nat /\ h.at <= clock /\ clock \in Nat
  BY FiresTypes DEF FiresOf, SaneInv, TypeOK
<1>3. CASE runs[Soonest].cadence.kind = "interval" /\ runs[Soonest].nextRun # None
  BY <1>1, <1>3, FireTimes DEF RowsAhead, Enabled
<1>4. CASE runs[Soonest].cadence.kind # "interval" \/ runs[Soonest].nextRun = None
  <2>1. FireTime(Soonest) > clock
    BY <1>1, <1>4, FireTimes
  <2> QED BY <1>1, <1>2, <2>1
<1> QED BY <1>3, <1>4

LEMMA TaskStaysAhead ==
  ASSUME SaneInv, RowsAhead, TaskAhead, [SchedNext]_schedVars
  PROVE  TaskAhead'
<1>0. /\ clock \in Nat /\ clock' \in Nat /\ clock <= clock'
      /\ Scheduler \in Callers
      /\ \A h \in Fires : h.at \in Nat
  BY CountersGrow, FiresTypes, SchedulerAssumption DEF SaneInv, TypeOK
<1>1. CASE PlanFire
  <2>1. Fires' = Fires /\ task' = "wait"
    BY <1>1 DEF PlanFire, vars, Fires
  <2>2. CASE Fireable = {}
    BY <1>1, <2>1, <2>2 DEF PlanFire, NoPlan, TaskAhead
  <2>3. CASE Fireable # {}
    <3>1. plan' = [at |-> FireTime(Soonest), target |-> runs[Soonest]]
      BY <1>1, <2>3 DEF PlanFire
    <3>2. \A h \in Fires' : h.runId = runs[Soonest].id => h.at < FireTime(Soonest)
      BY <2>1, <2>3, PlanIsAhead DEF FiresOf
    <3> QED BY <2>1, <3>1, <3>2 DEF TaskAhead, FiresOf
  <2> QED BY <2>2, <2>3
<1>2. CASE StallFound \/ StallRead \/ StallRecord \/ WakeUp \/ Record \/ RecordFails
           \/ Restart
  BY <1>2 DEF StallFound, StallRead, StallRecord, WakeUp, Record, RecordFails, Restart,
              TaskAhead, SaneInv, TaskSane
<1>3. CASE Elapse
  <2>1. /\ Fires' = Fires /\ clock' = clock /\ plan' = plan
        /\ task = "wait" /\ plan.at <= clock /\ plan.at \in Nat
        /\ task' = IF plan.target = None THEN "loop" ELSE "fire"
    BY <1>3 DEF Elapse, vars, Fires, SaneInv, TaskSane
  <2>2. plan.target # None => \A h \in Fires : h.runId = plan.target.id => h.at < plan.at
    BY <2>1 DEF TaskAhead, FiresOf
  <2>3. plan.target # None => \A h \in Fires : h.runId = plan.target.id => h.at < clock
    BY <1>0, <2>1, <2>2
  <2> QED BY <2>1, <2>3 DEF TaskAhead, FiresOf
<1>4. CASE Fire
  <2>1. Fires' = Fires /\ task = "fire"
    BY <1>4 DEF Fire, RunOnceStart, disk, vars, Fires
  <2>2. CASE task' = "loop"
    BY <2>2 DEF TaskAhead
  <2>3. CASE Live(plan.target) /\ task' = "run" /\ RunOnceStart(Scheduler, plan.target.name, FALSE)
    <3>1. plan.target.name \in Names
      BY <1>4 DEF Fire, SaneInv, TaskSane, Run
    <3>2. calls'[Scheduler].run = runs[plan.target.name] /\ StartOf(calls'[Scheduler]) = clock
      BY <1>0, <2>3, <3>1, StartedCall DEF CallStarted
    <3>3. calls'[Scheduler].run.id = plan.target.id
      BY <2>3, <3>2 DEF Live
    <3> QED BY <2>1, <2>3, <3>2, <3>3 DEF TaskAhead, FiresOf, StartOf
  <2> QED BY <1>4, <2>2, <2>3 DEF Fire
<1>5. CASE EngineDone
  <2>1. EngineEnded(Scheduler) /\ task' = task /\ task = "run" /\ Fires' = Fires
    BY <1>0, <1>5, EndedEngine DEF EngineDone, EngineFail, EngineOk, disk, Fires
  <2> QED BY <2>1 DEF EngineEnded, TaskAhead, FiresOf, StartOf
<1>6. CASE Edit \/ ManualStep \/ DeployStep \/ TimePasses
  <2>1. /\ task' = task /\ plan' = plan /\ Fires' \subseteq Fires
        /\ calls'[Scheduler] = calls[Scheduler]
    BY <1>6, OthersLeaveTheTask
  <2>2. \A h \in Fires : h.at < clock => h.at < clock'
    BY <1>0
  <2> QED BY <2>1, <2>2 DEF TaskAhead, FiresOf, StartOf
<1>7. CASE UNCHANGED schedVars
  BY <1>7 DEF schedVars, vars, TaskAhead, FiresOf, Fires, StartOf
<1> QED BY <1>1, <1>2, <1>3, <1>4, <1>5, <1>6, <1>7 DEF SchedNext, TaskStep

-------------------------------------------------------------------------------
(* The properties.                                                         *)

LEMMA NeverOversleeps ==
  ASSUME SaneInv, SleepsNoLongerThanDue, [SchedNext]_schedVars
  PROVE  SleepsNoLongerThanDue'
<1> SUFFICES ASSUME task' = "wait", ~wake',
                    NEW n \in Names, IntervalRun(n)', runs'[n].nextRun # None
             PROVE  plan'.at <= runs'[n].nextRun
  BY DEF SleepsNoLongerThanDue
<1> USE DEF disk
<1>1. CASE PlanFire
  <2>1. runs' = runs
    BY <1>1 DEF PlanFire, vars
  <2>2. IntervalRun(n) /\ runs[n].nextRun # None
    BY <2>1 DEF IntervalRun, Enabled
  <2>3. n \in Fireable /\ FireTime(n) = runs[n].nextRun
    BY <2>2, FireTimes DEF IntervalRun, Fireable
  <2> QED BY <1>1, <2>1, <2>3, SoonestIsSoonest DEF PlanFire
<1>2. CASE StallFound \/ StallRead \/ StallRecord \/ WakeUp \/ Elapse \/ Fire \/ EngineDone
           \/ Record \/ RecordFails \/ Restart
  BY <1>2 DEF StallFound, StallRead, StallRecord, WakeUp, Elapse, Fire, EngineDone, Record,
              RecordFails, Restart
<1>3. CASE Edit \/ ManualStep \/ DeployStep \/ TimePasses
  <2>1. task' = task /\ plan' = plan
    BY <1>3, OthersLeaveTheTask
  <2>2. ASSUME NEW m \in Names, Corrupt(m) PROVE runs'[n] = runs[n] /\ wake' = wake
    <3>1. m # n
      BY <2>2, CorruptedIsRun DEF Corrupt, UpdateRun, SaneInv, RowsSane, TypeOK, IntervalRun,
                                  Enabled
    <3> QED BY <2>2, <3>1 DEF Corrupt, UpdateRun, SaneInv, RowsSane, TypeOK
  <2>3. runs'[n] = runs[n] /\ wake' = wake
    BY <1>3, <2>2 DEF Edit, ConfigAction, ConfigureRun, Configured, RemoveRun, EnsureMissing,
              EnsureConfigure, RunOnceStart, ManualStep, EngineFail, EngineOk, Persist,
              PersistFails, DeployStep, DeployAction, DeployBegin, DeployWrite, DeployCommit,
              DeployFails, TimePasses, Tick, Notify
  <2> QED BY <2>1, <2>3 DEF SleepsNoLongerThanDue, IntervalRun, Enabled
<1>4. CASE UNCHANGED schedVars
  BY <1>4 DEF schedVars, vars, SleepsNoLongerThanDue, IntervalRun, Enabled
<1> QED BY <1>1, <1>2, <1>3, <1>4 DEF SchedNext, TaskStep

LEMMA NeverFiresTwice ==
  ASSUME SaneInv, TaskAhead, NoDoubleFire, [SchedNext]_schedVars
  PROVE  NoDoubleFire'
<1>1. CASE Fires' \subseteq Fires
  BY <1>1 DEF NoDoubleFire
<1>2. CASE /\ Record /\ Persist(Scheduler)
           /\ Fires' \subseteq Fires \cup {calls[Scheduler].row}
  <2> DEFINE row == calls[Scheduler].row
  <2>1. \A h \in Fires : h.runId = row.runId => h.at < row.at
    BY <1>2, RecordedRow DEF Record, TaskAhead, FiresOf
  <2>2. row.at \in Nat /\ \A h \in Fires : h.at \in Nat
    BY <1>2, RecordedRow, FiresTypes
  <2>3. \A h \in Fires : h.runId = row.runId => h.at # row.at
    BY <2>1, <2>2
  <2> QED BY <1>2, <2>3 DEF NoDoubleFire
<1> QED BY <1>1, <1>2, FiresStep

LEMMA SchedInitInv == SchedInit => SchedInv
<1> SUFFICES ASSUME SchedInit PROVE SchedInv
  OBVIOUS
<1>1. TypeOK /\ LogInv
  BY InitInv DEF SchedInit, Inv
<1>2. RowsSane /\ CallsSane /\ FiresSane
  BY DEF SchedInit, Init, RowsSane, CallsSane, FiresSane, Fires
<1>3. TaskSane
  BY SchedulerAssumption DEF SchedInit, Init, TaskSane, NoPlan
<1>4. RowsAhead /\ TaskAhead /\ SleepsNoLongerThanDue /\ NoDoubleFire
  BY DEF SchedInit, Init, RowsAhead, TaskAhead, SleepsNoLongerThanDue, NoDoubleFire, FiresOf, Fires
<1> QED BY <1>1, <1>2, <1>3, <1>4 DEF SchedInv, SaneInv

LEMMA SchedNextInv == SchedInv /\ [SchedNext]_schedVars => SchedInv'
BY SaneStep, RowsStayAhead, TaskStaysAhead, NeverOversleeps, NeverFiresTwice DEF SchedInv

LEMMA SchedInvariance == SchedSpec => []SchedInv
BY SchedInitInv, SchedNextInv, PTL DEF SchedSpec

(* Whoever writes a row, the task never sleeps past a due interval run.    *)
THEOREM NeverSleepsPastDue == SchedSpec => []SleepsNoLongerThanDue
<1>1. SchedInv => SleepsNoLongerThanDue
  BY DEF SchedInv
<1> QED BY <1>1, SchedInvariance, PTL

(* Whatever is edited, triggered or restarted, no tick is fired twice.     *)
THEOREM TicksFireOnce == SchedSpec => []NoDoubleFire
<1>1. SchedInv => NoDoubleFire
  BY DEF SchedInv
<1> QED BY <1>1, SchedInvariance, PTL
-------------------------------------------------------------------------------
(* Output stores: values.                                                  *)

Storages == {"Text", "Integer", "Real", "Json"}

CellKinds == {"digits", "words", "bool text", "compound text", "quoted digits", "quoted words",
              "integer", "real"}

LEMMA BoundKinds ==
  ASSUME NEW v \in Kinds \X Nat, v[1] # "null", NEW column, column.storage \in Storages,
         BindValue(v, column) # Failed
  PROVE  BindValue(v, column)[1] \in CellKinds
<1>1. CASE column.storage = "Text"
  BY <1>1 DEF BindValue, Text, Kinds, CellKinds
<1>2. CASE column.storage = "Json"
  BY <1>2 DEF BindValue, Serialized, Text, Kinds, CellKinds
<1>3. CASE column.storage = "Integer"
  BY <1>3 DEF BindValue, Kinds, CellKinds
<1>4. CASE column.storage = "Real"
  BY <1>4 DEF BindValue, Kinds, CellKinds
<1> QED BY <1>1, <1>2, <1>3, <1>4 DEF Storages

(* What a column that takes a value has of it, and what is read of that.   *)
LEMMA NullStaysNull ==
  ASSUME NEW v \in Kinds \X Nat, NEW column, column.storage \in Storages,
         NEW storage \in Storages, BindValue(v, column) # Failed
  PROVE  /\ Kept(BindValue(v, column), storage) = Null <=> v[1] = "null"
         /\ ToJSON(Kept(BindValue(v, column), storage)) = Null <=> v[1] = "null"
<1>1. CASE v[1] = "null"
  <2>1. BindValue(v, column) = Null
    BY <1>1 DEF BindValue
  <2>2. Kept(Null, storage) = Null
    BY DEF Kept, Null, Storages
  <2>3. ToJSON(Null) = Null
    BY DEF ToJSON, Null
  <2> QED BY <1>1, <2>1, <2>2, <2>3
<1>2. CASE v[1] # "null"
  <2> DEFINE cell == BindValue(v, column)
  <2>1. cell[1] \in CellKinds
    BY <1>2, BoundKinds
  <2> HIDE DEF cell
  <2>2. Kept(cell, storage)[1] \in CellKinds
    BY <2>1 DEF Kept, Storages, CellKinds
  <2>3. ToJSON(Kept(cell, storage))[1] # "null"
    BY <2>2 DEF ToJSON, CellKinds
  <2>4. Null[1] = "null" /\ "null" \notin CellKinds
    BY DEF Null, CellKinds
  <2>5. Kept(cell, storage) # Null /\ ToJSON(Kept(cell, storage)) # Null
    BY <2>2, <2>3, <2>4
  <2> QED BY <1>2, <2>5 DEF cell
<1> QED BY <1>1, <1>2

(* A value of the column's type comes back as it was, flattened.           *)
LEMMA FittingComesBack ==
  ASSUME NEW v \in Kinds \X Nat, NEW type \in FieldTypes, Fits(v, type),
         NEW column, column.storage = StorageFor(type)
  PROVE  ToJSON(Kept(BindValue(v, column), StorageFor(type))) = Flat(v)
<1>1. v = <<v[1], v[2]>>
  OBVIOUS
<1>2. CASE type = "String"
  <2>1. v[1] \in {"digits", "words"} /\ StorageFor(type) = "Text"
    BY <1>2 DEF Fits, StorageFor
  <2>2. BindValue(v, column) = v
    BY <1>1, <2>1 DEF BindValue, Text
  <2>3. Kept(v, "Text") = v /\ ToJSON(v) = v /\ Flat(v) = v
    BY <1>1, <2>1 DEF Kept, ToJSON, Flat
  <2> QED BY <2>1, <2>2, <2>3
<1>3. CASE type = "Int"
  <2>1. v[1] = "int" /\ StorageFor(type) = "Integer"
    BY <1>3 DEF Fits, StorageFor
  <2>2. BindValue(v, column) = <<"integer", v[2]>>
    BY <2>1 DEF BindValue
  <2>3. Kept(<<"integer", v[2]>>, "Integer") = <<"integer", v[2]>>
    BY DEF Kept
  <2>4. ToJSON(<<"integer", v[2]>>) = <<"int", v[2]>> /\ Flat(v) = v
    BY <2>1 DEF ToJSON, Flat
  <2> QED BY <1>1, <2>1, <2>2, <2>3, <2>4
<1>4. CASE type = "Double"
  <2>1. v[1] = "double" /\ StorageFor(type) = "Real"
    BY <1>4 DEF Fits, StorageFor
  <2>2. BindValue(v, column) = <<"real", v[2]>>
    BY <2>1 DEF BindValue
  <2>3. Kept(<<"real", v[2]>>, "Real") = <<"real", v[2]>>
    BY DEF Kept
  <2>4. ToJSON(<<"real", v[2]>>) = <<"double", v[2]>> /\ Flat(v) = v
    BY <2>1 DEF ToJSON, Flat
  <2> QED BY <1>1, <2>1, <2>2, <2>3, <2>4
<1>5. CASE type = "Bool"
  <2>1. v[1] = "bool" /\ StorageFor(type) = "Integer"
    BY <1>5 DEF Fits, StorageFor
  <2>2. BindValue(v, column) = <<"integer", v[2]>>
    BY <2>1 DEF BindValue
  <2>3. Kept(<<"integer", v[2]>>, "Integer") = <<"integer", v[2]>>
    BY DEF Kept
  <2>4. ToJSON(<<"integer", v[2]>>) = <<"int", v[2]>> /\ Flat(v) = <<"int", v[2]>>
    BY <2>1 DEF ToJSON, Flat
  <2> QED BY <2>1, <2>2, <2>3, <2>4
<1>6. CASE type = "Compound"
  <2>1. v[1] = "compound" /\ StorageFor(type) = "Json"
    BY <1>6 DEF Fits, StorageFor
  <2>2. BindValue(v, column) = <<"compound text", v[2]>>
    BY <2>1 DEF BindValue, Serialized, Text
  <2>3. Kept(<<"compound text", v[2]>>, "Json") = <<"compound text", v[2]>>
    BY DEF Kept
  <2>4. ToJSON(<<"compound text", v[2]>>) = Flat(v)
    BY <2>1 DEF ToJSON, Flat
  <2> QED BY <2>1, <2>2, <2>3, <2>4
<1> QED BY <1>2, <1>3, <1>4, <1>5, <1>6 DEF FieldTypes

LEMMA SchemasHaveStorages ==
  ASSUME NEW m \in Deployments, NEW t \in m.emits
  PROVE  /\ DeriveSchema(m)[t] = TableDef(m.own[t])
         /\ DOMAIN TableDef(m.own[t]) = DOMAIN m.own[t]
         /\ \A f \in DOMAIN m.own[t] :
              /\ TableDef(m.own[t])[f].storage = StorageFor(m.own[t][f].type)
              /\ TableDef(m.own[t])[f].storage \in Storages
<1>1. DeriveSchema(m)[t] = TableDef(m.own[t])
  BY DEF DeriveSchema
<1>2. DOMAIN TableDef(m.own[t]) = DOMAIN m.own[t]
  BY DEF TableDef
<1>3. \A f \in DOMAIN m.own[t] :
        TableDef(m.own[t])[f].storage = StorageFor(m.own[t][f].type)
  BY DEF TableDef
<1>4. \A f \in DOMAIN m.own[t] : StorageFor(m.own[t][f].type) \in Storages
  BY OutputStoreAssumption DEF FieldTypes, StorageFor, Storages
<1> QED BY <1>1, <1>2, <1>3, <1>4


-------------------------------------------------------------------------------
(* Output stores: what runs file.                                          *)

StoreCalls ==
  [id : Nat, recipe : Recipes, output : Stores, module : Deployments, ephemeral : BOOLEAN,
   stage : {"open", "engine", "persist"}, records : UNION {Snapshots(m) : m \in Deployments}]

(* No row is of this call.                                                 *)
Unfiled(call) == \A path \in Stores : \A row \in rows[path] : row.by # call.id

(* Every record of the call is a row of its store, and no other row is of  *)
(* the call.                                                               *)
Filed(call) ==
  /\ \A i \in DOMAIN call.records :
       /\ call.records[i].type \in DOMAIN columns[call.output]
       /\ Writable(call, call.records[i])
       /\ Row(call, columns[call.output], call.records, i) \in rows[call.output]
  /\ \A row \in rows[call.output] : row.by = call.id =>
       \E i \in DOMAIN call.records : row = Row(call, columns[call.output], call.records, i)

Held(call) == IF call.ephemeral THEN Unfiled(call) ELSE Filed(call)

(* What holds of a call from its start to its row, and of its row after.   *)
CallOK(call) ==
  /\ call \in StoreCalls /\ call.id < started
  /\ call.records \in Snapshots(call.module)
  /\ call.stage # "persist" => Unfiled(call)
  /\ call.stage = "engine" /\ ~call.ephemeral =>
       call.module.emits \subseteq DOMAIN columns[call.output]
  /\ call.stage = "persist" => Held(call)

(* The files: a column has a storage, a row the id of a run.               *)
FilesOK ==
  /\ started \in Nat
  /\ deployed \in [Recipes -> [module : Deployments, output : Stores]]
  /\ DOMAIN columns = Stores /\ DOMAIN rows = Stores /\ DOMAIN writing = Writers
  /\ \A path \in Stores : \A t \in DOMAIN columns[path] :
       \A f \in DOMAIN columns[path][t] : columns[path][t][f].storage \in Storages
  /\ \A path \in Stores : \A row \in rows[path] : row.by \in Nat /\ row.by < started

(* No two calls have one id.                                               *)
CallsApart ==
  \A w \in Writers : writing[w] # NoCall =>
    /\ \A other \in Writers \ {w} : writing[other] # NoCall => writing[other].id # writing[w].id
    /\ \A run \in finished : run.id # writing[w].id

CallsOK == \A w \in Writers : writing[w] # NoCall => CallOK(writing[w])
FinishedOK == \A run \in finished : run.stage = "persist" /\ CallOK(run)

FileInv == FilesOK /\ CallsApart /\ CallsOK /\ FinishedOK

(* The files only grow, by rows of the call of w.                          *)
FilesGrow(w) ==
  /\ started' \in Nat /\ started <= started'
  /\ \A path \in Stores : \A t \in DOMAIN columns[path] :
       t \in DOMAIN columns'[path] /\ columns'[path][t] = columns[path][t]
  /\ \A path \in Stores :
       /\ rows[path] \subseteq rows'[path]
       /\ \A row \in rows'[path] :
            row \in rows[path] \/ (writing[w] # NoCall /\ row.by = writing[w].id)

LEMMA CallStays ==
  ASSUME NEW w \in Writers, FilesOK, FilesGrow(w), NEW call, CallOK(call),
         writing[w] # NoCall => call.id # writing[w].id
  PROVE  CallOK(call)'
<1> USE DEF CallOK
<1>1. call \in StoreCalls /\ call.output \in Stores /\ call.id \in Nat
  BY DEF StoreCalls
<1>2. call.id < started'
  BY <1>1 DEF FilesOK, FilesGrow
<1>3. Unfiled(call) => Unfiled(call)'
  BY DEF Unfiled, FilesGrow
<1>4. call.module.emits \subseteq DOMAIN columns[call.output] =>
        call.module.emits \subseteq DOMAIN columns'[call.output]
  BY <1>1 DEF FilesGrow
<1>5. ASSUME ~call.ephemeral, Filed(call)
      PROVE  Filed(call)'
  <2>1. ASSUME NEW i \in DOMAIN call.records
        PROVE  /\ call.records[i].type \in DOMAIN columns'[call.output]
               /\ Writable(call, call.records[i])'
               /\ Row(call, columns'[call.output], call.records, i) \in rows'[call.output]
               /\ Row(call, columns'[call.output], call.records, i) =
                    Row(call, columns[call.output], call.records, i)
    <3> DEFINE t == call.records[i].type
    <3>1. /\ t \in DOMAIN columns[call.output] /\ Writable(call, call.records[i])
          /\ Row(call, columns[call.output], call.records, i) \in rows[call.output]
      BY <1>5 DEF Filed
    <3>2. t \in DOMAIN columns'[call.output] /\ columns'[call.output][t] = columns[call.output][t]
      BY <3>1, <1>1 DEF FilesGrow
    <3>3. Writable(call, call.records[i])'
      BY <3>1, <3>2, <1>5 DEF Writable, Tables
    <3>4. Row(call, columns'[call.output], call.records, i) =
            Row(call, columns[call.output], call.records, i)
      BY <3>2 DEF Row
    <3> QED BY <3>1, <3>2, <3>3, <3>4, <1>1 DEF FilesGrow
  <2>2. ASSUME NEW row \in rows'[call.output], row.by = call.id
        PROVE  \E i \in DOMAIN call.records :
                 row = Row(call, columns'[call.output], call.records, i)
    <3>1. row \in rows[call.output]
      BY <2>2, <1>1 DEF FilesGrow
    <3> QED BY <3>1, <2>1, <2>2, <1>5 DEF Filed
  <2> QED BY <2>1, <2>2 DEF Filed
<1>6. Held(call) => Held(call)'
  BY <1>3, <1>5 DEF Held
<1> QED BY <1>1, <1>2, <1>3, <1>4, <1>6

(* A step of one task leaves the calls of the others and the runs that     *)
(* ended as they are.                                                      *)
LEMMA OthersStay ==
  ASSUME FileInv, NEW w \in Writers, FilesGrow(w),
         \A other \in Writers \ {w} : writing'[other] = writing[other]
  PROVE  /\ \A other \in Writers \ {w} : writing'[other] # NoCall => CallOK(writing[other])'
         /\ \A run \in finished : run.stage = "persist" /\ CallOK(run)'
<1> USE DEF FileInv
<1>1. ASSUME NEW other \in Writers \ {w}, writing'[other] # NoCall
      PROVE  CallOK(writing[other])'
  <2>1. PICK call : call = writing[other]
    OBVIOUS
  <2>2. CallOK(call) /\ writing'[other] = call
    BY <1>1, <2>1 DEF CallsOK
  <2>3. writing[w] # NoCall => call.id # writing[w].id
    BY <1>1, <2>1, <2>2 DEF CallsApart
  <2>4. CallOK(call)'
    BY <2>2, <2>3, CallStays
  <2> QED BY <2>2, <2>4 DEF CallOK, Unfiled, Held, Filed, Writable, Tables
<1>2. ASSUME NEW run \in finished
      PROVE  run.stage = "persist" /\ CallOK(run)'
  <2>1. run.stage = "persist" /\ CallOK(run)
    BY DEF FinishedOK
  <2>2. writing[w] # NoCall => run.id # writing[w].id
    BY DEF CallsApart
  <2> QED BY <2>1, <2>2, CallStays
<1> QED BY <1>1, <1>2

LEMMA FilesStart == ASSUME StoreInit PROVE FileInv
<1>1. FilesOK
  BY DEF StoreInit, FilesOK
<1>2. CallsApart /\ CallsOK /\ FinishedOK
  BY DEF StoreInit, CallsApart, CallsOK, FinishedOK
<1> QED BY <1>1, <1>2 DEF FileInv

LEMMA StartRunFiles ==
  ASSUME FileInv, NEW w \in Writers, NEW r \in Recipes, NEW ephemeral \in BOOLEAN,
         StartRun(w, r, ephemeral)
  PROVE  FileInv'
<1> USE DEF FileInv, StartRun
<1> PICK call : call =
       [id |-> started, recipe |-> r, output |-> deployed[r].output,
        module |-> deployed[r].module, ephemeral |-> ephemeral,
        stage |-> "open", records |-> <<>>]
  OBVIOUS
<1>1. writing'[w] = call /\ \A other \in Writers \ {w} : writing'[other] = writing[other]
  BY DEF FilesOK
<1>2. FilesGrow(w)
  BY DEF FilesOK, FilesGrow
<1>3. FilesOK'
  BY DEF FilesOK
<1>4. CallsApart'
  <2>1. \A other \in Writers \ {w} : writing[other] # NoCall => writing[other].id # call.id
    BY DEF CallsOK, CallOK, StoreCalls, FilesOK
  <2>2. \A run \in finished : run.id # call.id
    BY DEF FinishedOK, CallOK, StoreCalls, FilesOK
  <2> QED BY <1>1, <2>1, <2>2 DEF CallsApart
<1>5. CallOK(call)'
  <2>1. deployed[r].output \in Stores /\ deployed[r].module \in Deployments
    BY DEF FilesOK
  <2>2. <<>> \in Snapshots(deployed[r].module)
    <3>1. <<>> \in [1..0 -> Emissions(deployed[r].module)] /\ 0 \in 0..MaxRecords
      BY OutputStoreAssumption
    <3> QED BY <3>1 DEF Snapshots
  <2>3. call \in StoreCalls
    BY <2>1, <2>2 DEF StoreCalls, FilesOK
  <2>4. Unfiled(call)'
    BY DEF FilesOK, Unfiled
  <2> QED BY <2>2, <2>3, <2>4 DEF CallOK, FilesOK
<1>6. CallsOK'
  BY <1>1, <1>2, <1>5, OthersStay DEF CallsOK
<1>7. FinishedOK'
  BY <1>1, <1>2, OthersStay DEF FinishedOK
<1> QED BY <1>3, <1>4, <1>6, <1>7

(* A call that ends, whatever of it was left in the files.                 *)
LEMMA EndedCallFiles ==
  ASSUME FileInv, NEW w \in Writers, FilesGrow(w), writing' = [writing EXCEPT ![w] = NoCall],
         FilesOK', finished' = finished
  PROVE  FileInv'
<1> USE DEF FileInv
<1>1. writing'[w] = NoCall /\ \A other \in Writers \ {w} : writing'[other] = writing[other]
  BY DEF FilesOK
<1>2. CallsApart'
  BY <1>1 DEF CallsApart
<1>3. CallsOK'
  BY <1>1, OthersStay DEF CallsOK
<1>4. FinishedOK'
  BY <1>1, OthersStay DEF FinishedOK
<1> QED BY <1>2, <1>3, <1>4

(* A call that goes on as another record of the same id.                   *)
LEMMA NextStageFiles ==
  ASSUME FileInv, NEW w \in Writers, FilesGrow(w), NEW call, writing[w] # NoCall,
         call.id = writing[w].id, CallOK(call)', writing' = [writing EXCEPT ![w] = call],
         FilesOK', finished' = finished
  PROVE  FileInv'
<1> USE DEF FileInv
<1>1. writing'[w] = call /\ \A other \in Writers \ {w} : writing'[other] = writing[other]
  BY DEF FilesOK
<1>2. CallsApart'
  BY <1>1 DEF CallsApart
<1>3. CallsOK'
  BY <1>1, OthersStay DEF CallsOK
<1>4. FinishedOK'
  BY <1>1, OthersStay DEF FinishedOK
<1> QED BY <1>2, <1>3, <1>4

LEMMA OpenStoreFiles ==
  ASSUME FileInv, NEW w \in Writers, OpenStore(w)
  PROVE  FileInv'
<1> PICK call : call = writing[w]
  OBVIOUS
<1>1. call # NoCall /\ call.stage = "open" /\ CallOK(call) /\ call \in StoreCalls
  BY DEF OpenStore, FileInv, CallsOK, CallOK
<1>2. call.output \in Stores /\ call.module \in Deployments /\ call.id \in Nat
  BY <1>1 DEF StoreCalls
<1> DEFINE schema == DeriveSchema(call.module)
<1>3. PICK made \in SUBSET DOMAIN schema :
        /\ columns' = IF call.ephemeral THEN columns
                      ELSE [columns EXCEPT ![call.output] = Ensured(@, schema, made)]
        /\ writing' = [writing EXCEPT ![w] =
             IF made = DOMAIN schema THEN [call EXCEPT !.stage = "engine"] ELSE NoCall]
  BY DEF OpenStore
<1>4. /\ deployed' = deployed /\ rows' = rows /\ finished' = finished /\ started' = started
  BY DEF OpenStore
<1> PICK tables : tables = Ensured(columns[call.output], schema, made)
  OBVIOUS
<1>5. /\ ~call.ephemeral => columns' = [columns EXCEPT ![call.output] = tables]
      /\ call.ephemeral => columns' = columns
  BY <1>3
<1>6. /\ DOMAIN tables = DOMAIN columns[call.output] \cup made
      /\ \A t \in DOMAIN columns[call.output] : tables[t] = columns[call.output][t]
      /\ \A t \in made \ DOMAIN columns[call.output] : tables[t] = schema[t]
  BY DEF Ensured
<1>7. DOMAIN schema = call.module.emits
  BY DEF DeriveSchema
<1>8. \A t \in DOMAIN tables : \A f \in DOMAIN tables[t] : tables[t][f].storage \in Storages
  <2> SUFFICES ASSUME NEW t \in DOMAIN tables, NEW f \in DOMAIN tables[t]
               PROVE  tables[t][f].storage \in Storages
    OBVIOUS
  <2>1. CASE t \in DOMAIN columns[call.output]
    BY <1>2, <1>6, <2>1 DEF FileInv, FilesOK
  <2>2. CASE t \notin DOMAIN columns[call.output]
    <3>1. t \in call.module.emits /\ tables[t] = schema[t]
      BY <1>6, <1>7, <2>2
    <3>2. tables[t] = TableDef(call.module.own[t])
      BY <1>2, <3>1, SchemasHaveStorages
    <3> QED BY <1>2, <3>1, <3>2, SchemasHaveStorages
  <2> QED BY <2>1, <2>2
<1> HIDE DEF schema
<1>9. FilesGrow(w)
  BY <1>4, <1>5, <1>6 DEF FilesGrow, FileInv, FilesOK
<1>10. DOMAIN writing' = Writers /\ DOMAIN columns' = Stores
  BY <1>3, <1>5 DEF FileInv, FilesOK
<1>11. FilesOK'
  <2>1. ASSUME NEW path \in Stores, NEW t \in DOMAIN columns'[path]
        PROVE  \A f \in DOMAIN columns'[path][t] : columns'[path][t][f].storage \in Storages
    <3>1. CASE path = call.output /\ ~call.ephemeral
      BY <1>2, <1>5, <1>8, <3>1 DEF FileInv, FilesOK
    <3>2. CASE path # call.output \/ call.ephemeral
      BY <1>2, <1>5, <3>2 DEF FileInv, FilesOK
    <3> QED BY <3>1, <3>2
  <2> QED BY <1>4, <1>10, <2>1 DEF FileInv, FilesOK
<1>12. CASE made # DOMAIN schema
  BY <1>3, <1>4, <1>9, <1>11, <1>12, EndedCallFiles
<1>13. CASE made = DOMAIN schema
  <2> PICK opened : opened = [call EXCEPT !.stage = "engine"]
    OBVIOUS
  <2>1. opened \in StoreCalls
    BY <1>1 DEF StoreCalls
  <2>2. /\ opened.id = call.id /\ opened.module = call.module /\ opened.records = call.records
        /\ opened.output = call.output /\ opened.ephemeral = call.ephemeral
        /\ opened.stage = "engine"
    BY <1>1 DEF StoreCalls
  <2>3. Unfiled(opened)'
    BY <1>1, <1>4, <2>2 DEF CallOK, Unfiled
  <2>4. ~opened.ephemeral => opened.module.emits \subseteq DOMAIN columns'[opened.output]
    BY <1>2, <1>5, <1>6, <1>7, <1>13, <2>2 DEF FileInv, FilesOK
  <2>5. CallOK(opened)'
    BY <1>1, <1>4, <2>1, <2>2, <2>3, <2>4 DEF CallOK
  <2>6. writing' = [writing EXCEPT ![w] = opened]
    BY <1>3, <1>13
  <2> QED BY <1>1, <1>4, <1>9, <1>11, <2>2, <2>5, <2>6, NextStageFiles
<1> QED BY <1>12, <1>13

LEMMA WriteRecordsFiles ==
  ASSUME FileInv, NEW w \in Writers, writing[w] # NoCall,
         NEW records \in Snapshots(writing[w].module), WriteRecords(w, records)
  PROVE  FileInv'
<1> PICK call : call = writing[w]
  OBVIOUS
<1>1. call # NoCall /\ call.stage = "engine" /\ CallOK(call) /\ call \in StoreCalls
  BY DEF WriteRecords, FileInv, CallsOK, CallOK
<1>2. /\ call.output \in Stores /\ call.module \in Deployments /\ call.id \in Nat
      /\ records \in Snapshots(call.module)
  BY <1>1 DEF StoreCalls
<1>3. /\ deployed' = deployed /\ columns' = columns /\ finished' = finished /\ started' = started
  BY DEF WriteRecords
<1>4. DOMAIN writing' = Writers
  BY DEF WriteRecords, FileInv, FilesOK
<1>5. CASE ~ \A i \in DOMAIN records : Writable(call, records[i])
  <2>1. rows' = rows /\ writing' = [writing EXCEPT ![w] = NoCall]
    BY <1>5 DEF WriteRecords
  <2>2. FilesGrow(w) /\ FilesOK'
    BY <1>3, <1>4, <2>1 DEF FilesGrow, FileInv, FilesOK
  <2> QED BY <1>3, <2>1, <2>2, EndedCallFiles
<1>6. CASE \A i \in DOMAIN records : Writable(call, records[i])
  <2> PICK filed : filed = {Row(call, Tables(call), records, i) : i \in DOMAIN records}
    OBVIOUS
  <2> PICK written : written = [call EXCEPT !.stage = "persist", !.records = records]
    OBVIOUS
  <2>1. /\ rows' = IF call.ephemeral THEN rows
                   ELSE [rows EXCEPT ![call.output] = @ \cup filed]
        /\ writing' = [writing EXCEPT ![w] = written]
    BY <1>6 DEF WriteRecords
  <2>2. \A row \in filed : row.by = call.id
    BY DEF Row
  <2>3. /\ DOMAIN rows' = Stores
        /\ ~call.ephemeral => rows'[call.output] = rows[call.output] \cup filed
        /\ \A path \in Stores : path # call.output \/ call.ephemeral => rows'[path] = rows[path]
    BY <1>2, <2>1 DEF FileInv, FilesOK
  <2>4. FilesGrow(w)
    BY <1>1, <1>3, <2>2, <2>3 DEF FilesGrow, FileInv, FilesOK
  <2>5. FilesOK'
    <3>1. call.id < started
      BY <1>1 DEF CallOK
    <3> QED BY <1>2, <1>3, <1>4, <2>2, <2>3, <3>1 DEF FileInv, FilesOK
  <2>6. /\ written \in StoreCalls /\ written.id = call.id /\ written.module = call.module
        /\ written.output = call.output /\ written.ephemeral = call.ephemeral
        /\ written.stage = "persist" /\ written.records = records
    <3>1. records \in UNION {Snapshots(m) : m \in Deployments}
      BY <1>2
    <3> QED BY <1>1, <3>1 DEF StoreCalls
  <2>7. ASSUME call.ephemeral
        PROVE  Unfiled(written)'
    BY <1>1, <2>3, <2>6, <2>7 DEF CallOK, Unfiled
  <2>8. ASSUME ~call.ephemeral
        PROVE  Filed(written)'
    <3>1. Tables(call) = columns[call.output] /\ Tables(written)' = columns[call.output]
      BY <1>3, <2>6, <2>8 DEF Tables
    <3>2. ASSUME NEW i \in DOMAIN records
          PROVE  /\ records[i].type \in DOMAIN columns[call.output]
                 /\ Writable(written, records[i])'
                 /\ Row(written, columns[call.output], records, i) =
                      Row(call, columns[call.output], records, i)
                 /\ Row(written, columns[call.output], records, i) \in rows'[call.output]
      <4>1. Writable(call, records[i]) /\ records[i].type \in call.module.emits
        BY <1>6 DEF Writable, DeriveSchema
      <4>2. records[i].type \in DOMAIN columns[call.output]
        BY <1>1, <2>8, <4>1 DEF CallOK
      <4>3. Writable(written, records[i])'
        BY <4>1, <3>1, <2>6 DEF Writable, Def
      <4>4. Row(written, columns[call.output], records, i) =
              Row(call, columns[call.output], records, i)
        BY <2>6 DEF Row, Def
      <4> QED BY <2>3, <2>8, <3>1, <4>2, <4>3, <4>4
    <3>3. ASSUME NEW row \in rows'[call.output], row.by = call.id
          PROVE  \E i \in DOMAIN records : row = Row(written, columns[call.output], records, i)
      <4>1. row \notin rows[call.output]
        BY <1>1, <1>2, <3>3 DEF CallOK, Unfiled
      <4> QED BY <2>3, <2>8, <3>1, <3>2, <3>3, <4>1
    <3> QED BY <1>3, <2>6, <3>2, <3>3 DEF Filed
  <2>9. CallOK(written)'
    BY <1>1, <1>2, <1>3, <2>6, <2>7, <2>8 DEF CallOK, Held
  <2> QED BY <1>1, <1>3, <2>1, <2>4, <2>5, <2>6, <2>9, NextStageFiles
<1> QED BY <1>5, <1>6

LEMMA RecordRunFiles ==
  ASSUME FileInv, NEW w \in Writers, RecordRun(w)
  PROVE  FileInv'
<1> USE DEF FileInv, RecordRun
<1> PICK call : call = writing[w]
  OBVIOUS
<1>1. call # NoCall /\ call.stage = "persist" /\ CallOK(call)
  BY DEF CallsOK
<1>2. writing'[w] = NoCall /\ \A other \in Writers \ {w} : writing'[other] = writing[other]
  BY DEF FilesOK
<1>3. FilesGrow(w) /\ FilesOK'
  BY DEF FilesGrow, FilesOK
<1>4. CallsApart'
  BY <1>1, <1>2 DEF CallsApart
<1>5. CallsOK'
  BY <1>2, <1>3, OthersStay DEF CallsOK
<1>6. CallOK(call)'
  BY <1>1 DEF CallOK, Held, Unfiled, Filed, Writable, Tables
<1>7. FinishedOK'
  BY <1>1, <1>2, <1>3, <1>6, OthersStay DEF FinishedOK
<1> QED BY <1>3, <1>4, <1>5, <1>7

LEMMA StoreStepFiles ==
  ASSUME FileInv, [StoreNext]_storeVars
  PROVE  FileInv'
<1>1. ASSUME NEW w \in Writers, CallEnds(w)
      PROVE  FileInv'
  <2>1. FilesGrow(w) /\ FilesOK'
    BY <1>1 DEF CallEnds, FilesGrow, FileInv, FilesOK
  <2> QED BY <1>1, <2>1, EndedCallFiles DEF CallEnds
<1>2. ASSUME UNCHANGED <<columns, rows, writing, finished, started>>,
             deployed' \in [Recipes -> [module : Deployments, output : Stores]]
      PROVE  FileInv'
  BY <1>2 DEF FileInv, FilesOK, CallsApart, CallsOK, FinishedOK, CallOK, Held, Unfiled, Filed,
              Writable, Tables
<1>3. ASSUME NEW r \in Recipes, NEW m \in Deployments, NEW path \in Stores, Redeploy(r, m, path)
      PROVE  FileInv'
  <2>1. deployed' \in [Recipes -> [module : Deployments, output : Stores]]
    BY <1>3 DEF Redeploy, FileInv, FilesOK
  <2> QED BY <1>2, <1>3, <2>1 DEF Redeploy
<1>4. CASE UNCHANGED storeVars
  BY <1>2, <1>4 DEF storeVars, FileInv, FilesOK
<1> QED
  BY <1>1, <1>3, <1>4, StartRunFiles, OpenStoreFiles, WriteRecordsFiles, RecordRunFiles
  DEF StoreNext, StoreStep

-------------------------------------------------------------------------------
(* Output stores: what is read back.                                       *)

LEMMA CountsAreNumbers ==
  ASSUME NEW m, NEW records \in Snapshots(m), NEW t
  PROVE  CountOf(records, t) \in Nat
<1>1. PICK n \in 0..MaxRecords : records \in [1..n -> Emissions(m)]
  BY DEF Snapshots
<1>2. n \in Int /\ IsFiniteSet(1..n)
  BY OutputStoreAssumption, FS_Interval
<1>3. {i \in DOMAIN records : records[i].type = t} \subseteq 1..n
  BY <1>1
<1> QED BY <1>2, <1>3, FS_Subset, FS_CardinalityType DEF CountOf

LEMMA RowsOf ==
  ASSUME NEW call, NEW tables, NEW records, NEW i
  PROVE  /\ Row(call, tables, records, i).by = call.id
         /\ Row(call, tables, records, i).id = i
         /\ Row(call, tables, records, i).type = records[i].type
BY DEF Row

LEMMA WithinLimit ==
  ASSUME NEW found, NEW limit \in Nat, Cardinality({row.id : row \in found}) = limit
  PROVE  Limited(found, limit) = found
<1>1. limit <= limit
  OBVIOUS
<1> QED BY <1>1, Zenon DEF Limited

(* The rows that load_records finds of one type.                           *)
RowsFound(run, t) == {r \in rows[run.output] : r.by = run.id /\ r.type = t}

LEMMA AllAreLoaded ==
  ASSUME FilesOK, NEW run, run.stage = "persist", CallOK(run), ~run.ephemeral, NEW t
  PROVE  /\ Limited(RowsFound(run, t), CountOf(run.records, t)) = RowsFound(run, t)
         /\ \A row \in RowsFound(run, t) :
              /\ row.id \in DOMAIN run.records /\ run.records[row.id].type = t
              /\ row = Row(run, columns[run.output], run.records, row.id)
         /\ \A i \in DOMAIN run.records : run.records[i].type = t =>
              Row(run, columns[run.output], run.records, i) \in RowsFound(run, t)
<1> PICK found : found = RowsFound(run, t)
  OBVIOUS
<1> USE DEF RowsFound
<1>1. Filed(run)
  BY DEF CallOK, Held
<1>2. ASSUME NEW row \in found
      PROVE  /\ row.id \in DOMAIN run.records /\ run.records[row.id].type = t
             /\ row = Row(run, columns[run.output], run.records, row.id)
  <2>1. PICK i \in DOMAIN run.records : row = Row(run, columns[run.output], run.records, i)
    BY <1>1 DEF Filed
  <2>2. row.id = i /\ row.type = run.records[i].type
    BY <2>1, RowsOf
  <2> QED BY <2>1, <2>2
<1>3. ASSUME NEW i \in DOMAIN run.records, run.records[i].type = t
      PROVE  /\ Row(run, columns[run.output], run.records, i) \in found
             /\ Row(run, columns[run.output], run.records, i).id = i
  BY <1>1, <1>3, RowsOf DEF Filed
<1>4. {row.id : row \in found} = {i \in DOMAIN run.records : run.records[i].type = t}
  BY <1>2, <1>3
<1>5. CountOf(run.records, t) \in Nat
  BY CountsAreNumbers DEF CallOK
<1>6. Limited(found, CountOf(run.records, t)) = found
  BY <1>4, <1>5, WithinLimit, Zenon DEF CountOf
<1> QED BY <1>2, <1>3, <1>6

(* What a field that its type declares comes back as.                      *)
LEMMA FieldsComeBack ==
  ASSUME FilesOK, NEW run, run.stage = "persist", CallOK(run), ~run.ephemeral,
         NEW i \in DOMAIN run.records, NEW t, t = run.records[i].type,
         NEW f \in DOMAIN run.module.own[t],
         NEW v, v = run.records[i].fields[f],
         NEW cells, cells = Row(run, columns[run.output], run.records, i).cells
  PROVE  /\ f \in DOMAIN cells
         /\ ToJSON(cells[f]) = Null <=> v[1] = "null"
         /\ Fits(v, run.module.own[t][f].type)
            /\ columns[run.output][t][f].storage = StorageFor(run.module.own[t][f].type)
              => ToJSON(cells[f]) = Flat(v)
<1> PICK record, m, table :
       record = run.records[i] /\ m = run.module /\ table = columns[run.output][t]
  OBVIOUS
<1>1. run \in StoreCalls /\ run.output \in Stores /\ m \in Deployments
  BY DEF CallOK, StoreCalls
<1>2. record \in Emissions(m)
  <2>1. PICK n \in 0..MaxRecords : run.records \in [1..n -> Emissions(m)]
    BY DEF CallOK, Snapshots
  <2> QED BY <2>1
<1>3. t \in m.emits /\ record.fields \in [Fields(m, t) -> FieldValues]
  BY <1>2 DEF Emissions
<1>4. f \in DOMAIN record.fields /\ v \in Kinds \X Nat
  BY <1>3, OutputStoreAssumption DEF Fields
<1>5. /\ record.type \in DOMAIN columns[run.output] /\ Writable(run, record)
  BY DEF CallOK, Held, Filed
<1> DEFINE def == TableDef(m.own[t])
           bound == Bound(record.fields, def)
<1>6. /\ Def(run, record) = def /\ DOMAIN def = DOMAIN m.own[t]
      /\ def[f].storage = StorageFor(m.own[t][f].type) /\ def[f].storage \in Storages
  BY <1>1, <1>3, SchemasHaveStorages DEF Def
<1>7. Takes(table, bound) /\ Tables(run) = columns[run.output]
  BY <1>5, <1>6 DEF Writable, Tables
<1>8. /\ DOMAIN bound = DOMAIN def /\ bound[f] = BindValue(v, def[f])
  BY <1>4, <1>6 DEF Bound
<1>9. f \in DOMAIN table /\ bound[f] # Failed
  BY <1>6, <1>7, <1>8 DEF Takes
<1>10. table[f].storage \in Storages
  BY <1>1, <1>5, <1>9 DEF FilesOK
<1>11. cells = Cells(table, bound)
  BY <1>6 DEF Row
<1>12. DOMAIN cells = DOMAIN table /\ cells[f] = Kept(BindValue(v, def[f]), table[f].storage)
  BY <1>6, <1>8, <1>9, <1>11 DEF Cells
<1> PICK column, storage, type :
       column = def[f] /\ storage = table[f].storage /\ type = m.own[t][f].type
  OBVIOUS
<1>13. /\ BindValue(v, column) # Failed /\ cells[f] = Kept(BindValue(v, column), storage)
       /\ column.storage \in Storages /\ storage \in Storages
       /\ column.storage = StorageFor(type)
  BY <1>6, <1>8, <1>9, <1>10, <1>12
<1>14. type \in FieldTypes
  BY <1>1, <1>3, OutputStoreAssumption
<1> HIDE DEF def, bound
<1>15. ToJSON(cells[f]) = Null <=> v[1] = "null"
  BY <1>4, <1>13, NullStaysNull
<1>16. ASSUME Fits(v, type), storage = StorageFor(type)
       PROVE  ToJSON(cells[f]) = Flat(v)
  <2>1. v \in Kinds \X Nat /\ column.storage = StorageFor(type)
    BY <1>4, <1>13
  <2>2. ToJSON(Kept(BindValue(v, column), StorageFor(type))) = Flat(v)
    BY <1>14, <1>16, <2>1, FittingComesBack, Zenon
  <2> QED BY <1>13, <1>16, <2>2
<1> QED BY <1>6, <1>9, <1>12, <1>15, <1>16

(* The records that load_run_snapshot finds: one of each that was filed.   *)
LEMMA LoadedRecords ==
  ASSUME FilesOK, NEW run, run.stage = "persist", CallOK(run), ~run.ephemeral,
         deployed[run.recipe].output = run.output
  PROVE  /\ \A record \in LoadRunSnapshot(run) :
              LET row == Row(run, columns[run.output], run.records, record.id) IN
              /\ record.id \in DOMAIN run.records
              /\ record.type = run.records[record.id].type
              /\ record.fields = [f \in DOMAIN row.cells |-> ToJSON(row.cells[f])]
         /\ \A i \in DOMAIN run.records :
              \E record \in LoadRunSnapshot(run) : record.id = i
<1> DEFINE loaded(t) ==
             LoadRecords(deployed[run.recipe].output, run.id, t, CountOf(run.records, t))
           Read(t, row) ==
             [id |-> row.id, type |-> t, fields |-> [f \in DOMAIN row.cells |-> ToJSON(row.cells[f])]]
<1>1. \A t : loaded(t) = {Read(t, row) : row \in RowsFound(run, t)}
  <2> TAKE t
  <2>1. Limited(RowsFound(run, t), CountOf(run.records, t)) = RowsFound(run, t)
    BY AllAreLoaded
  <2> QED BY <2>1 DEF LoadRecords, RowsFound
<1>2. LoadRunSnapshot(run) = UNION {loaded(t) : t \in CountedTypes(run.records)}
  BY DEF LoadRunSnapshot
<1> HIDE DEF loaded
<1>3. ASSUME NEW record \in LoadRunSnapshot(run)
      PROVE  LET row == Row(run, columns[run.output], run.records, record.id) IN
             /\ record.id \in DOMAIN run.records
             /\ record.type = run.records[record.id].type
             /\ record.fields = [f \in DOMAIN row.cells |-> ToJSON(row.cells[f])]
  <2>1. PICK t : record \in loaded(t)
    BY <1>2
  <2>2. PICK row \in RowsFound(run, t) : record = Read(t, row)
    BY <1>1, <2>1
  <2>3. /\ row.id \in DOMAIN run.records /\ run.records[row.id].type = t
        /\ row = Row(run, columns[run.output], run.records, row.id)
    BY AllAreLoaded
  <2>4. /\ record.id = row.id /\ record.type = t
        /\ record.fields = [f \in DOMAIN row.cells |-> ToJSON(row.cells[f])]
    BY <2>2
  <2> QED BY <2>3, <2>4
<1>4. ASSUME NEW i \in DOMAIN run.records
      PROVE  \E record \in LoadRunSnapshot(run) : record.id = i
  <2> PICK t, row : t = run.records[i].type
                    /\ row = Row(run, columns[run.output], run.records, i)
    OBVIOUS
  <2>1. row \in RowsFound(run, t) /\ row.id = i
    BY AllAreLoaded, RowsOf
  <2>2. t \in CountedTypes(run.records)
    BY DEF CountedTypes
  <2>3. Read(t, row) \in LoadRunSnapshot(run)
    BY <1>1, <1>2, <2>1, <2>2
  <2> QED BY <2>1, <2>3
<1> QED BY <1>3, <1>4

LEMMA NothingIsLoaded ==
  ASSUME FilesOK, NEW run, run.stage = "persist", CallOK(run), run.ephemeral
  PROVE  LoadRunSnapshot(run) = {}
<1>1. Unfiled(run) /\ deployed[run.recipe].output \in Stores
  BY DEF CallOK, Held, StoreCalls, FilesOK
<1> SUFFICES ASSUME NEW t
             PROVE  LoadRecords(deployed[run.recipe].output, run.id, t,
                                CountOf(run.records, t)) = {}
  BY DEF LoadRunSnapshot
<1> PICK found : found =
       {r \in rows[deployed[run.recipe].output] : r.by = run.id /\ r.type = t}
  OBVIOUS
<1>2. found = {}
  BY <1>1 DEF Unfiled
<1>3. Limited(found, CountOf(run.records, t)) \subseteq found
  <2> PICK limit : limit = CountOf(run.records, t)
    OBVIOUS
  <2>1. limit \in Nat
    BY CountsAreNumbers DEF CallOK
  <2>2. Cardinality({row.id : row \in found}) = 0
    <3>1. {row.id : row \in found} = {}
      BY <1>2
    <3> QED BY <3>1, FS_EmptySet
  <2>3. Cardinality({row.id : row \in found}) <= limit
    BY <2>1, <2>2
  <2> QED BY <2>3, Zenon DEF Limited
<1> QED BY <1>2, <1>3 DEF LoadRecords

(* The invariant is enough.                                                *)
LEMMA FilesReadBack ==
  ASSUME FileInv
  PROVE  RecordsReadBack
<1> SUFFICES ASSUME NEW run \in finished
             PROVE  /\ run.ephemeral => LoadRunSnapshot(run) = {}
                    /\ ~run.ephemeral /\ deployed[run.recipe].output = run.output =>
                         /\ {record.id : record \in LoadRunSnapshot(run)} = DOMAIN run.records
                         /\ \A record \in LoadRunSnapshot(run) :
                              LET t == record.type
                                  own == run.module.own[t]
                              IN
                              /\ t = run.records[record.id].type
                              /\ \A f \in DOMAIN own :
                                   LET v == run.records[record.id].fields[f] IN
                                   /\ f \in DOMAIN record.fields
                                   /\ record.fields[f] = Null <=> v[1] = "null"
                                   /\ Fits(v, own[f].type)
                                      /\ columns[run.output][t][f].storage
                                           = StorageFor(own[f].type)
                                        => record.fields[f] = Flat(v)
  BY DEF RecordsReadBack
<1>1. FilesOK /\ run.stage = "persist" /\ CallOK(run)
  BY DEF FileInv, FinishedOK
<1>2. run.ephemeral => LoadRunSnapshot(run) = {}
  BY <1>1, NothingIsLoaded
<1>3. ASSUME ~run.ephemeral, deployed[run.recipe].output = run.output
      PROVE  {record.id : record \in LoadRunSnapshot(run)} = DOMAIN run.records
  <2>1. /\ \A record \in LoadRunSnapshot(run) : record.id \in DOMAIN run.records
        /\ \A i \in DOMAIN run.records : \E record \in LoadRunSnapshot(run) : record.id = i
    BY <1>1, <1>3, LoadedRecords
  <2> QED BY <2>1
<1>4. ASSUME ~run.ephemeral, deployed[run.recipe].output = run.output,
             NEW record \in LoadRunSnapshot(run), NEW t, t = record.type
      PROVE  /\ t = run.records[record.id].type
             /\ \A f \in DOMAIN run.module.own[t] :
                  LET v == run.records[record.id].fields[f] IN
                  /\ f \in DOMAIN record.fields
                  /\ record.fields[f] = Null <=> v[1] = "null"
                  /\ Fits(v, run.module.own[t][f].type)
                     /\ columns[run.output][t][f].storage
                          = StorageFor(run.module.own[t][f].type)
                       => record.fields[f] = Flat(v)
  <2> PICK cells :
         cells = Row(run, columns[run.output], run.records, record.id).cells
    OBVIOUS
  <2>1. /\ record.id \in DOMAIN run.records /\ t = run.records[record.id].type
        /\ record.fields = [f \in DOMAIN cells |-> ToJSON(cells[f])]
    BY <1>1, <1>4, LoadedRecords
  <2>2. ASSUME NEW f \in DOMAIN run.module.own[t],
               NEW v, v = run.records[record.id].fields[f]
        PROVE  /\ f \in DOMAIN record.fields
               /\ record.fields[f] = Null <=> v[1] = "null"
               /\ Fits(v, run.module.own[t][f].type)
                  /\ columns[run.output][t][f].storage = StorageFor(run.module.own[t][f].type)
                    => record.fields[f] = Flat(v)
    <3>1. /\ f \in DOMAIN cells
          /\ ToJSON(cells[f]) = Null <=> v[1] = "null"
          /\ Fits(v, run.module.own[t][f].type)
             /\ columns[run.output][t][f].storage = StorageFor(run.module.own[t][f].type)
               => ToJSON(cells[f]) = Flat(v)
      <4> PICK i : i = record.id
        OBVIOUS
      <4>1. /\ i \in DOMAIN run.records /\ t = run.records[i].type
            /\ v = run.records[i].fields[f]
            /\ cells = Row(run, columns[run.output], run.records, i).cells
        BY <2>1, <2>2
      <4>2. FilesOK /\ run.stage = "persist" /\ CallOK(run) /\ ~run.ephemeral
            /\ f \in DOMAIN run.module.own[t]
        BY <1>1, <1>4, <2>2
      <4> QED BY <4>1, <4>2, FieldsComeBack
    <3>2. f \in DOMAIN record.fields /\ record.fields[f] = ToJSON(cells[f])
      BY <2>1, <3>1
    <3> QED BY <3>1, <3>2
  <2> QED BY <2>1, <2>2
<1> QED BY <1>2, <1>3, <1>4

(* What an ok run filed in the output file of its Run is read back of it:  *)
(* run_once and load_run_snapshot, over the tables that other deployments  *)
(* and other runs made and filled.                                         *)
THEOREM FiledRecordsReadBack == StoreSpec => []RecordsReadBack
<1>1. StoreInit => FileInv
  BY FilesStart
<1>2. FileInv /\ [StoreNext]_storeVars => FileInv'
  BY StoreStepFiles
<1>3. FileInv => RecordsReadBack
  BY FilesReadBack
<1> QED BY <1>1, <1>2, <1>3, PTL DEF StoreSpec
===============================================================================
