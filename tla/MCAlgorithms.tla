------------------------------ MODULE MCAlgorithms ----------------------------
(***************************************************************************)
(* The daemon's pure functions, with the code's own constants, against     *)
(* reference definitions over bounded inputs, and its output stores.  A    *)
(* behaviour lets the clock run past a fixed interval tick, or a history   *)
(* of ok runs grow in front of a fixed latest run, or runs file their      *)
(* records.                                                                *)
(***************************************************************************)
EXTENDS Schedule, RunHealth, OutputStore, Sequences, FiniteSetsExt, TLC

CONSTANTS MaxAnchor, MaxEvery, MaxNow, Emits, MaxRuns

VARIABLES
  anchor, every, now,   \* an interval Run that fired its tick `anchor`
  earlier,              \* emit counts of the ok runs before the latest
  latest                \* and of the latest

vars == <<anchor, every, now, earlier, latest>>

CountsOf(emit) == [items |-> emit, pages |-> 10]

NoLatest == [items |-> 0, pages |-> 0]

Init ==
  \/ /\ anchor \in 0..MaxAnchor /\ every \in 0..MaxEvery /\ now = 0
     /\ earlier = <<>> /\ latest = CountsOf(0)
  \/ /\ anchor = 0 /\ every = 0 /\ now = 0
     /\ earlier = <<>>
     /\ latest \in {CountsOf(e) : e \in Emits} \cup {[CountsOf(90) EXCEPT !.pages = 7]}
  \/ /\ anchor = 0 /\ every = 0 /\ now = 0
     /\ earlier = <<>> /\ latest = NoLatest

TimePasses ==
  /\ earlier = <<>> /\ latest # NoLatest /\ now < MaxNow
  /\ now' = now + 1
  /\ UNCHANGED <<anchor, every, earlier, latest>>

OkRun ==
  /\ now = 0 /\ every = 0 /\ anchor = 0 /\ Len(earlier) < MaxRuns /\ latest # NoLatest
  /\ \E e \in Emits : earlier' = Append(earlier, CountsOf(e))
  /\ UNCHANGED <<anchor, every, now, latest>>

Next == TimePasses \/ OkRun

(* Versions of one recipe: a field more, a type more, another type of a    *)
(* field, a field that moves into a parent.                                *)
Field(type, optional) == [type |-> type, optional |-> optional]
Of(own, inherited) == [own |-> own, inherited |-> inherited, emits |-> DOMAIN own]
MCDeployments ==
  LET a == [a |-> Field("String", FALSE)] IN
  {Of([Item |-> a, Shop |-> [c |-> Field("Compound", FALSE)]], [Item |-> <<>>, Shop |-> <<>>]),
   Of([Item |-> a @@ [b |-> Field("Int", TRUE)]], [Item |-> <<>>]),
   Of([Item |-> [a |-> Field("Int", FALSE)]], [Item |-> <<>>]),
   Of([Item |-> [b |-> Field("Double", TRUE)]], [Item |-> a])}
MCFieldValues == {Null, <<"int", 2>>, <<"digits", 4>>}

NoStore ==
  /\ StoreInit
  /\ deployed \in [Recipes -> {CHOOSE d \in [module : Deployments, output : Stores] : TRUE}]

MCInit == Init /\ IF latest = NoLatest THEN StoreInit ELSE NoStore
MCNext ==
  \/ Next /\ UNCHANGED storeVars
  \/ /\ latest = NoLatest /\ StoreNext
     /\ started = MaxStarts => deployed' = deployed
     /\ UNCHANGED vars

WriterSymmetry == Permutations(Writers)

Spec == MCInit /\ [][MCNext]_<<vars, storeVars>>

-------------------------------------------------------------------------------

Interval == [kind |-> "interval", every |-> every]

GridTicks == {anchor + k * IntervalStep(Interval) : k \in 1..(MaxNow + 1)}

(* advance_next_run of an interval is the first tick of the fired tick's   *)
(* grid that is after now: no backlog, no drift off the grid, never a tick *)
(* already past, for every_n = 0 and a tick fired early as well.           *)
NextTickIsFirstAhead ==
  AdvanceNextRun(Interval, anchor, now) = Min({t \in GridTicks : t > now})

Run(i) == [id |-> i, runId |-> 1, at |-> i, outcome |-> "ok", counts |-> earlier[i]]
History == {Run(i) : i \in DOMAIN earlier}
Latest == [outcome |-> "ok", counts |-> latest]

(* The window of list_prior_ok_scheduled_runs before the latest run.       *)
Window == CHOOSE w \in PriorOkWindows(History, 1, Len(earlier) + 1) : TRUE

(* Twice the median of the newest runs, as many as there are up to seven:  *)
(* the mean of the two middle counts of the sorted list (median_u32).      *)
TwiceMiddle(ty) ==
  LET n == Min({Len(earlier), PriorWindow})
      newest == [i \in 1..n |-> earlier[Len(earlier) - n + i][ty]]
      sorted == SortSeq(newest, <)
  IN  IF n = 0 THEN 0 ELSE sorted[(n + 1) \div 2] + sorted[n \div 2 + 1]

FellBy30Percent(ty) ==
  TwiceMiddle(ty) > 0 /\ 20 * latest[ty] <= 7 * TwiceMiddle(ty)

FellByMore(ty) == 20 * latest[ty] < 7 * TwiceMiddle(ty)

(* Drift means that some record type fell by 30% of the median of the last *)
(* seven ok runs or more, a type that vanished included; it is never said  *)
(* before three ok runs, and always said of a fall by more than 30%.       *)
DriftIsAFall ==
  LET drift == DeriveHealth(Latest, Window) = "drift" IN
  /\ drift => Len(earlier) >= 3 /\ \E ty \in RecordTypes : FellBy30Percent(ty)
  /\ Len(earlier) >= 3 /\ (\E ty \in RecordTypes : FellByMore(ty)) => drift
===============================================================================
