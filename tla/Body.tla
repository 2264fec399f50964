---------------------------------- MODULE Body ----------------------------------
(***************************************************************************)
(* forage-http: the statements of a recipe and the scope they are walked   *)
(* with.                                                                   *)
(*                                                                         *)
(* A body is a sequence of statements: a step binds the items of the       *)
(* server's answer to its name, an emit reads loop variables, a for loop   *)
(* walks a bound list or the current value.  A value is a list; what is    *)
(* not one counts as the list of itself, as it does in a for loop.  How a  *)
(* step gets its items is left to the modules that extend this one.        *)
(***************************************************************************)
EXTENDS Integers, Sequences, SequencesExt, TLC

CONSTANTS
  None,
  Current,     \* as a loop's collection: scope.current
  Statements,  \* of the recipes, those inside loops included
  Recipes,     \* [login, body]
  Servers,     \* [mode, size, items]: what each step's url lists
  Samples      \* sample limits, None for a full run

IsList(l) == l \in Seq({l[i] : i \in DOMAIN l})

(* A step is paginated in one of four ways, a loop has a body, a server    *)
(* has a list for each step and serves pages of one item or more.          *)
ASSUME BodyAssumption ==
  /\ None \notin Int /\ None \notin Statements
  /\ \A r \in Recipes : r.body \in Seq(Statements)
  /\ \A s \in Statements :
       /\ s.kind = "for" => s.body \in Seq(Statements)
       /\ s.kind = "step" =>
            /\ s.paging.strategy \in {"none", "cursor", "untilEmpty", "pageWithTotal"}
            /\ s.paging.zero \in BOOLEAN
            /\ s.paging.strategy = "cursor" => ~s.paging.zero
            /\ \A h \in Servers : IsList(h.items[s.name])
  /\ \A h \in Servers : h.size \in Nat \ {0}

VARIABLES
  recipe, server, sample, \* of this run
  phase,    \* "body" while statements are run
  stack,    \* what run_statements has left, innermost first
  current,  \* scope.current
  snapshot  \* the records emitted

run == <<recipe, server, sample>>

-------------------------------------------------------------------------------
(* Scope: one frame for the recipe and one for each iteration under way.   *)

Activation(todo, loop) == [todo |-> todo, loop |-> loop, frame |-> <<>>]

Top == Head(stack)
Done(s) == [s EXCEPT ![1].todo = Tail(@)]

Binding(frame, name, value) ==
  [n \in DOMAIN frame \cup {name} |-> IF n = name THEN value ELSE frame[n]]

Bind(s, name, value) == [s EXCEPT ![1].frame = Binding(@, name, value)]

Lookup(name) ==
  LET holding == SelectSeq(stack, LAMBDA a : name \in DOMAIN a.frame)
  IN  holding[1].frame[name]

-------------------------------------------------------------------------------
(* What a step is about: the items that its server lists.                  *)

Slice(items, from, size) ==
  SubSeq(items, from, IF from + size - 1 < Len(items) THEN from + size - 1 ELSE Len(items))

(* A step that is not paginated is one page.                               *)
Listed(step) ==
  IF step.paging.strategy = "none" THEN Slice(server.items[step.name], 1, server.size)
  ELSE server.items[step.name]

-------------------------------------------------------------------------------
(* run_statements, but for the steps.                                      *)

AtStatement(kind) == phase = "body" /\ Top.todo # <<>> /\ Head(Top.todo).kind = kind

(* run_emit: the record's id is its place in the snapshot.                 *)
RunEmit ==
  LET em == Head(Top.todo)
      record == [type |-> em.type, fields |-> [v \in em.reads |-> Lookup(v)],
                 ref |-> IF em.refers = None THEN None ELSE Lookup(em.refers)]
  IN
  /\ AtStatement("emit")
  /\ stack' = IF em.as = None THEN Done(stack) ELSE Bind(Done(stack), em.as, <<Len(snapshot)>>)
  /\ snapshot' = Append(snapshot, record)
  /\ UNCHANGED <<run, phase, current>>

(* cap_top_level: only the outermost loops are sampled.                    *)
Cap(items, depth) ==
  IF depth > 1 \/ sample = None \/ Len(items) <= sample THEN items
  ELSE SubSeq(items, 1, sample)

EnterLoop ==
  LET for == Head(Top.todo)
      items == IF for.over = Current THEN current ELSE Lookup(for.over)
  IN
  /\ AtStatement("for")
  /\ stack' = <<Activation(<<>>, [for |-> for, left |-> Cap(items, Len(stack)),
                                  saved |-> current])>> \o Done(stack)
  /\ UNCHANGED <<run, phase, current, snapshot>>

(* A fresh frame with the loop variable, and the item as current value.    *)
Iterate ==
  LET loop == Top.loop IN
  /\ phase = "body" /\ Top.todo = <<>> /\ loop # None
  /\ IF loop.left = <<>>
     THEN stack' = Tail(stack) /\ current' = loop.saved
     ELSE /\ stack' = <<Bind(<<Activation(loop.for.body, [loop EXCEPT !.left = Tail(@)])>>,
                             loop.for.var, <<Head(loop.left)>>)[1]>> \o Tail(stack)
          /\ current' = <<Head(loop.left)>>
  /\ UNCHANGED <<run, phase, snapshot>>

Finish ==
  /\ phase = "body" /\ Top.todo = <<>> /\ Top.loop = None
  /\ phase' = "done"
  /\ UNCHANGED <<run, stack, current, snapshot>>
===============================================================================
