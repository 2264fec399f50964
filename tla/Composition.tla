------------------------------ MODULE Composition ------------------------------
(***************************************************************************)
(* forage-core: recipe signatures, the composition checks of the           *)
(* validator, the linker, and the runtime that walks a linked composition; *)
(* forage-daemon: deploying a linked module, and the notebook, which folds *)
(* the deployed modules of its stages into one.                            *)
(*                                                                         *)
(* A recipe is its kind, what its inputs accept, what it declares to emit  *)
(* and, for a composition, its stages.  A scraping stage is one step: how  *)
(* it scrapes is the business of Engine.                                   *)
(***************************************************************************)
EXTENDS Integers, Sequences, FiniteSets

CONSTANTS
  None,
  Names,       \* recipe header names
  Types,       \* record types
  HubRef,      \* a stage reference of the form "@author/name"
  Recipes,     \* the files that users write
  Opened,      \* the workspaces found on disk when the program starts
  Notebooks,   \* what a notebook may ask for: [name, stages]
  MaxSaves,    \* bound on the saves of workspace files
  MaxRuns,     \* bound on runs
  MaxDepth,    \* bound on the nesting of compositions at run time
  MaxRecords   \* bound on the records that a stage emits

Refs == Names \cup {HubRef}

(* slots: the inputs that accept upstream records, as [T] or as T;         *)
(* emits: declared by the file, or for a scraping body inferred from it.   *)
Slot == [form : {"batch", "single"}, type : Types]
Recipe ==
  [kind : {"http", "browser", "compose"}, slots : SUBSET Slot,
   emits : SUBSET Types, stages : Seq(Refs)]

Stages(recipe) == {recipe.stages[i] : i \in DOMAIN recipe.stages}

ASSUME CompositionAssumption ==
  /\ Recipes \subseteq Recipe /\ None \notin Recipes /\ HubRef \notin Names
  /\ Opened \subseteq [Names -> Recipes \cup {None}]
  /\ \A r \in Recipes : r.kind = "compose" <=> Len(r.stages) >= 2
  /\ MaxRecords \in Nat
  /\ \A notebook \in Notebooks : notebook.name \in Names /\ notebook.stages \in Seq(Names)

(* What a stage emitted, a node about to run with the records of the stage *)
(* before it, and what a run may fail with.                                *)
Snapshot == [type : Types \cup {None}, count : Nat]
RunNode == [name : Refs, file : Recipe, prior : Snapshot, inputs : BOOLEAN]
Errors == {"unresolved", "browser_downstream", "no_slot", "not_single", "engine", "unbound_input"}

ASSUME NoneIsNothingElse == None \notin Recipe \cup Snapshot \cup RunNode \cup Errors

VARIABLES
  ws,       \* the recipes of the workspace, by header name
  deployed, \* the linked module of each recipe's latest deployment
  run,      \* the run under way, or None
  saves, runs

vars == <<ws, deployed, run, saves, runs>>

(* A linked module: its root's name and file, and its stage map.           *)
Module == [name : Names, root : Recipe, stages : [Names -> Recipe \cup {None}]]

-------------------------------------------------------------------------------
(* RecipeSignatures and the validator's check_composition.                 *)

(* resolve_output_types: the declared set, or that of the last stage.  The *)
(* names visited so far guard against cycles.                              *)
OutputTypes(name) ==
  LET Resolve[visited \in SUBSET Names, n \in Refs] ==
        IF n = HubRef \/ n \in visited THEN {}
        ELSE IF ws[n] = None THEN {}
        ELSE IF ws[n].emits # {} \/ ws[n].kind # "compose" THEN ws[n].emits
        ELSE Resolve[visited \cup {n}, ws[n].stages[Len(ws[n].stages)]]
  IN  Resolve[{}, name]

Known(ref) == ref # HubRef /\ ws[ref] # None

(* HubDepStageUnsupported, UnknownComposeStage, EmptyComposeStage,         *)
(* MultiTypeComposeStage.                                                  *)
StageResolves(ref) == Known(ref) /\ Cardinality(OutputTypes(ref)) = 1

Accepts(recipe, type) == \E slot \in recipe.slots : slot.type = type

(* IncompatiblePipeStage, over the boundaries that could be resolved.      *)
BoundariesFit(recipe) ==
  \A i \in 1..(Len(recipe.stages) - 1) :
    LET up == recipe.stages[i]
        down == recipe.stages[i + 1]
    IN  StageResolves(up) /\ Known(down) =>
          \A type \in OutputTypes(up) : Accepts(ws[down], type)

(* The names that chains of stages lead to from some names, these too.     *)
Follows(S) == \A n \in S : Known(n) => Stages(ws[n]) \subseteq S
Reach(start) ==
  {n \in Refs : \A S \in SUBSET Refs : start \subseteq S /\ Follows(S) => n \in S}

NoDirectCycle(name, recipe) == name \notin Stages(recipe)

(* find_cycle, ComposeCycle: whether stages lead back to the composition.  *)
Acyclic(name, recipe) == name \notin Reach(Stages(recipe))

ValidComposition(name, recipe) ==
  recipe.kind = "compose" =>
    /\ \A ref \in Stages(recipe) : StageResolves(ref)
    /\ BoundariesFit(recipe)
    /\ Acyclic(name, recipe)

RootStages(recipe) == {n \in Stages(recipe) : Known(n)}

(* walk_stage: every workspace recipe that the root's stages reach.        *)
Closure(recipe) == {n \in Reach(Stages(recipe)) : Known(n)}

LinkedModule(name) ==
  LET linked == Closure(ws[name])
  IN  [name |-> name, root |-> ws[name],
       stages |-> [n \in Names |-> IF n \in linked THEN ws[n] ELSE None]]

(* link: the root and every linked stage must validate.                    *)
Links(name) ==
  /\ ws[name] # None
  /\ ValidComposition(name, ws[name])
  /\ \A n \in Closure(ws[name]) : ValidComposition(n, ws[n])

-------------------------------------------------------------------------------
(* Files, deployments and the start of runs.                               *)

Save(name, file) ==
  /\ saves < MaxSaves
  /\ file # ws[name]
  /\ ws' = [ws EXCEPT ![name] = file]
  /\ saves' = saves + 1
  /\ UNCHANGED <<deployed, run, runs>>

Deploy(name) ==
  /\ Links(name) /\ deployed[name] # LinkedModule(name)
  /\ deployed' = [deployed EXCEPT ![name] = LinkedModule(name)]
  /\ UNCHANGED <<ws, run, saves, runs>>

Nothing == [type |-> None, count |-> 0]

Node(name, file, prior, inputs) ==
  [name |-> name, file |-> file, prior |-> prior, inputs |-> inputs]

Start(module, notebook) ==
  /\ run = None /\ runs < MaxRuns
  /\ runs' = runs + 1
  /\ run' = [module |-> module, notebook |-> notebook, stack |-> <<>>,
             node |-> Node(module.name, module.root, Nothing, ~notebook),
             snapshot |-> None, error |-> None]
  /\ UNCHANGED <<ws, deployed, saves>>

RunDeployed(name) == deployed[name] # None /\ Start(deployed[name], FALSE)

(* synthesize_composition_module: a listed name stands for the root of its *)
(* own deployment, whatever other modules hold under it; any other name is *)
(* kept by the first listed module that holds it.                          *)
Holders(notebook, n) ==
  {i \in DOMAIN notebook.stages : deployed[notebook.stages[i]].stages[n] # None}
First(holders) == CHOOSE i \in holders : \A j \in holders : i <= j

Adopted(notebook, n) ==
  LET holders == Holders(notebook, n) IN
  CASE n \in Stages(notebook) -> deployed[n].root
    [] n \notin Stages(notebook) /\ holders # {} ->
         deployed[notebook.stages[First(holders)]].stages[n]
    [] OTHER -> None

Synthesized(notebook) ==
  [name |-> notebook.name,
   stages |-> [n \in Names |-> Adopted(notebook, n)],
   root |-> [kind |-> "compose", slots |-> {}, emits |-> {},
             stages |-> notebook.stages]]

RunNotebook(notebook) ==
  /\ notebook.stages # <<>>
  /\ \A n \in Stages(notebook) : deployed[n] # None
  /\ Start(Synthesized(notebook), TRUE)

-------------------------------------------------------------------------------
(* The runtime.  A frame of the stack is a run_composition_node: the       *)
(* stages it has left, and what the next one gets.                         *)

Frame(name, todo, prior, inputs) ==
  [name |-> name, todo |-> todo, prior |-> prior, inputs |-> inputs]

Running == run # None /\ run.error = None
AtNode == Running /\ run.node # None
Top == Head(run.stack)
Others == <<ws, deployed, saves, runs>>

Fail(error) == run' = [run EXCEPT !.error = error, !.node = None]

(* run_recipe_node of a composition: the records of the stage before it    *)
(* are not passed on.                                                      *)
EnterComposition ==
  LET node == run.node IN
  /\ AtNode /\ node.file.kind = "compose"
  /\ Len(run.stack) < MaxDepth
  /\ run' = [run EXCEPT !.node = None,
               !.stack = <<Frame(node.name, node.file.stages, Nothing, node.inputs)>> \o @]
  /\ UNCHANGED Others

(* LinkedModule::stage: the root itself answers to its own name.           *)
Lookup(module, name) ==
  IF name = HubRef THEN None
  ELSE IF name = module.name THEN module.root ELSE module.stages[name]

NextStage ==
  LET ref == Head(Top.todo)
      file == Lookup(run.module, ref)
  IN
  /\ Running /\ run.node = None
  /\ run.stack # <<>> /\ Top.todo # <<>>
  /\ IF file = None THEN Fail("unresolved")
     ELSE run' = [run EXCEPT
            !.node = Node(ref, file, Top.prior, Top.inputs),
            !.stack = <<Frame(Top.name, Tail(Top.todo), Top.prior, Top.inputs)>> \o Tail(@)]
  /\ UNCHANGED Others

KeepsPrior(stack, snapshot) == stack

(* What a composition gives its next stage: the snapshot and no inputs.    *)
Returned(stack, snapshot) ==
  IF stack = <<>> THEN <<>>
  ELSE <<Frame(Head(stack).name, Head(stack).todo, snapshot, FALSE)>> \o Tail(stack)

(* A browser stage takes no records; the engine (bind_prior_records) may   *)
(* find no slot for them, or more of them than the slot takes.             *)
BindError(node) ==
  LET fits == {slot \in node.file.slots : slot.type = node.prior.type} IN
  CASE node.prior.count = 0 -> None
    [] node.prior.count > 0 /\ node.file.kind = "browser" -> "browser_downstream"
    [] node.prior.count > 0 /\ node.file.kind = "http" /\ fits = {} -> "no_slot"
    [] OTHER -> IF node.prior.count > 1 /\ \A slot \in fits : slot.form = "single"
                THEN "not_single" ELSE None

(* With no records before it a slot is not bound, not even to an empty     *)
(* list: a recipe that reads it fails, unless the caller gave the input.   *)
Unbound(node) == node.prior.count = 0 /\ node.file.slots # {} /\ ~node.inputs

RunScraping ==
  LET node == run.node IN
  /\ AtNode /\ node.file.kind # "compose"
  /\ IF BindError(node) # None THEN Fail(BindError(node))
     ELSE \/ Fail("engine")
          \/ Unbound(node) /\ Fail("unbound_input")
          \/ \E type \in node.file.emits, count \in 0..MaxRecords :
               LET snapshot == IF count = 0 THEN Nothing
                               ELSE [type |-> type, count |-> count]
               IN  run' = [run EXCEPT !.node = None, !.snapshot = snapshot,
                             !.stack = Returned(@, snapshot)]
  /\ UNCHANGED Others

(* The last stage's snapshot is the composition's.                         *)
FinishComposition ==
  /\ Running /\ run.node = None
  /\ run.stack # <<>> /\ Top.todo = <<>>
  /\ run' = [run EXCEPT !.stack = Returned(Tail(@), run.snapshot)]
  /\ UNCHANGED Others

Ended == run # None /\ run.node = None /\ (run.error # None \/ run.stack = <<>>)

EndRun ==
  /\ Ended
  /\ run' = None
  /\ UNCHANGED Others

-------------------------------------------------------------------------------

Init ==
  /\ ws \in Opened
  /\ deployed = [n \in Names |-> None]
  /\ run = None /\ saves = 0 /\ runs = 0

RunStep == EnterComposition \/ NextStage \/ RunScraping \/ FinishComposition \/ EndRun

Next ==
  \/ \E n \in Names :
       \/ \E file \in Recipes \cup {None} : Save(n, file)
       \/ Deploy(n) \/ RunDeployed(n)
  \/ \E notebook \in Notebooks : RunNotebook(notebook)
  \/ RunStep

Spec == Init /\ [][Next]_vars /\ WF_vars(RunStep)
-------------------------------------------------------------------------------
(* What the linker's verdict is worth at run time.                         *)

(* A linked composition needs no name resolution any more: every stage it  *)
(* comes to is in its module, nested and folded ones included, whatever    *)
(* was saved or deployed in between.                                       *)
StagesResolve == run # None => run.error # "unresolved"

(* "The runtime walks the chain, feeding each stage's emitted records to   *)
(* the next" (docs/src/lang/composition.md): a scraping stage gets what    *)
(* the scraping stage before it emitted, across nested compositions, in    *)
(* every run of a deployed module.                                         *)
StreamReachesNextStage ==
  run # None /\ ~run.notebook /\ run.node # None
    /\ run.node.file.kind # "compose" /\ run.snapshot # None =>
    run.node.prior = run.snapshot

(* Every run of a deployed module ends.                                    *)
RunsEnd == run # None /\ ~run.notebook ~> run = None
===============================================================================
