------------------------------- MODULE AtomicSteps ------------------------------
(***************************************************************************)
(* What a run of a recipe promises: statement by statement, where a step   *)
(* is one action that binds everything its server lists.  No requests, no  *)
(* pages, no retries; it may fail at any time.                             *)
(***************************************************************************)
EXTENDS Body

vars == <<recipe, server, sample, phase, stack, current, snapshot>>

Step ==
  LET step == Head(Top.todo) IN
  /\ AtStatement("step")
  /\ stack' = Bind(Done(stack), step.name, Listed(step))
  /\ current' = Listed(step)
  /\ UNCHANGED <<run, phase, snapshot>>

Fail ==
  /\ phase = "body"
  /\ phase' = "failed" /\ stack' = <<>> /\ current' = <<>>
  /\ UNCHANGED <<run, snapshot>>

Init ==
  /\ recipe \in Recipes /\ server \in Servers /\ sample \in Samples
  /\ phase = "body" /\ snapshot = <<>>
  /\ stack = <<Activation(recipe.body, None)>>
  /\ current = <<>>

Next == Step \/ RunEmit \/ EnterLoop \/ Iterate \/ Finish \/ Fail

Spec == Init /\ [][Next]_vars
===============================================================================
