--------------------------------- MODULE Meaning --------------------------------
(* The records that a body stands for, without requests, pages or a stack. *)
EXTENDS Body

(* What a body means: every step is all of its server's items.             *)

RECURSIVE Means(_, _, _, _, _), Each(_, _, _, _)

(* The records after `stmts`, from a scope, a current value and records.   *)
Means(stmts, scope, cur, recs, top) ==
  IF stmts = <<>> THEN recs
  ELSE
  LET s == Head(stmts) IN
  CASE s.kind = "step" ->
         Means(Tail(stmts), (s.name :> Listed(s)) @@ scope, Listed(s), recs, top)
    [] s.kind = "emit" ->
         Means(Tail(stmts),
               IF s.as = None THEN scope ELSE (s.as :> <<Len(recs)>>) @@ scope, cur,
               Append(recs, [type |-> s.type, fields |-> [v \in s.reads |-> scope[v]],
                             ref |-> IF s.refers = None THEN None ELSE scope[s.refers]]),
               top)
    [] s.kind = "for" ->
         LET all == IF s.over = Current THEN cur ELSE scope[s.over]
             items == IF top /\ sample # None /\ sample < Len(all)
                      THEN SubSeq(all, 1, sample) ELSE all
         IN  Means(Tail(stmts), scope, cur, Each(items, s, scope, recs), top)

Each(items, for, scope, recs) ==
  IF items = <<>> THEN recs
  ELSE Each(Tail(items), for, scope,
            Means(for.body, (for.var :> <<Head(items)>>) @@ scope, <<Head(items)>>, recs, FALSE))

(* However a step is paginated, a run over an honest server emits what its *)
(* body means: every item once, in order, each reference to the record of  *)
(* its own iteration, and a sample is a prefix of the outermost items; a   *)
(* run that fails has emitted a beginning of it.                           *)
SnapshotIsMeaning ==
  server.mode = "honest" =>
    LET meaning == Means(recipe.body, <<>>, <<>>, <<>>, TRUE)
    IN  IsPrefix(snapshot, meaning) /\ (phase = "done" => snapshot = meaning)
===============================================================================
