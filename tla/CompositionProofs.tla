--------------------------- MODULE CompositionProofs ---------------------------
(***************************************************************************)
(* What linking is worth at run time, for every workspace and notebook and *)
(* however recipes nest: a run never comes to a stage its module lacks.    *)
(*                                                                         *)
(* A linked module is closed: every stage of its root and of what it holds *)
(* is in it.  The closure makes a deployed module so, folding the modules  *)
(* of a notebook keeps it so, and the runtime only walks what is in it.    *)
(*                                                                         *)
(* And each stage gets what the one before it emitted, as long as no       *)
(* composition takes records itself: one then only comes first.            *)
(***************************************************************************)
EXTENDS Composition, SequenceTheorems, FiniteSetTheorems, WellFoundedInduction, TLAPS

-------------------------------------------------------------------------------
(* The inductive invariant.                                                *)

(* The references a module resolves, and the files that only have such.    *)
Resolvable(m) == {ref \in Refs : Lookup(m, ref) # None}
Resolves(m, file) == file.kind = "compose" => file.stages \in Seq(Resolvable(m))

NonEmpty(file) == file.kind = "compose" => file.stages # <<>>

ClosedModule(m) ==
  /\ m \in Module
  /\ NonEmpty(m.root) /\ Resolves(m, m.root)
  /\ \A n \in Names : m.stages[n] # None => NonEmpty(m.stages[n]) /\ Resolves(m, m.stages[n])

NodeOf(m) ==
  {node \in RunNode : NonEmpty(node.file) /\ Resolves(m, node.file)}
FrameOf(m) ==
  [name : Refs, todo : Seq(Resolvable(m)), prior : Snapshot, inputs : BOOLEAN]
RunOf(m) ==
  [module : {m}, notebook : BOOLEAN, stack : Seq(FrameOf(m)), node : NodeOf(m) \cup {None},
   snapshot : Snapshot \cup {None},
   error : (Errors \ {"unresolved"}) \cup {None}]

(* Between two stages a composition has one to run, or the records of the  *)
(* last one that ran.                                                      *)
Fed(r) ==
  r.node = None /\ r.error = None /\ r.snapshot = None /\ r.stack # <<>> =>
    Head(r.stack).todo # <<>>

WorkspaceInv == ws \in [Names -> Recipes \cup {None}]

DeployedInv ==
  /\ DOMAIN deployed = Names
  /\ \A n \in Names : deployed[n] # None => ClosedModule(deployed[n]) /\ deployed[n].name = n

RunInv ==
  run # None => ClosedModule(run.module) /\ run \in RunOf(run.module) /\ Fed(run)

Inv == WorkspaceInv /\ DeployedInv /\ RunInv

-------------------------------------------------------------------------------
(* The linker.                                                             *)

(* What stages lead to from some names has these names, and every stage of *)
(* what it has (walk_stage).                                               *)
LEMMA ReachIsClosed ==
  ASSUME NEW start \in SUBSET Refs
  PROVE  /\ start \subseteq Reach(start)
         /\ \A n \in Reach(start) :
              Known(n) /\ Stages(ws[n]) \subseteq Refs => Stages(ws[n]) \subseteq Reach(start)
BY DEF Reach, Follows

(* A file with references only has stages that are some.                   *)
LEMMA StagesAreRefs ==
  ASSUME NEW file \in Recipe
  PROVE  /\ Stages(file) \subseteq Refs
         /\ file.stages \in Seq(Refs)
BY DEF Recipe, Stages

LEMMA SeqOfResolvable ==
  ASSUME NEW S, NEW T, NEW s \in Seq(S), \A i \in DOMAIN s : s[i] \in T
  PROVE  s \in Seq(T)
<1>1. Len(s) \in Nat /\ s = [i \in 1..Len(s) |-> s[i]] /\ DOMAIN s = 1..Len(s)
  OBVIOUS
<1>2. s \in [1..Len(s) -> T]
  BY <1>1
<1>. QED BY <1>1, <1>2, SeqDef

(* A file all of whose stages resolve in a module.                         *)
LEMMA ResolvesStages ==
  ASSUME NEW m, NEW file \in Recipe,
         file.kind = "compose" => \A ref \in Stages(file) : Lookup(m, ref) # None
  PROVE  Resolves(m, file)
<1>. SUFFICES ASSUME file.kind = "compose" PROVE file.stages \in Seq(Resolvable(m))
  BY DEF Resolves
<1>1. file.stages \in Seq(Refs)
  BY StagesAreRefs
<1>2. \A i \in DOMAIN file.stages : file.stages[i] \in Resolvable(m)
  BY StagesAreRefs DEF Stages, Resolvable
<1>. QED BY <1>1, <1>2, SeqOfResolvable

(* What links is closed (link, collect_stage_closure).                     *)
LEMMA LinkedIsClosed ==
  ASSUME WorkspaceInv, NEW name \in Names, Links(name)
  PROVE  ClosedModule(LinkedModule(name)) /\ LinkedModule(name).name = name
<1>. DEFINE m == LinkedModule(name)
            root == ws[name]
<1>1. /\ m.name = name /\ m.root = root
      /\ \A n \in Names : m.stages[n] = IF n \in Closure(root) THEN ws[n] ELSE None
  BY DEF LinkedModule
<1>2. \A n \in Names : ws[n] # None => ws[n] \in Recipe /\ NonEmpty(ws[n])
  BY CompositionAssumption DEF WorkspaceInv, NonEmpty, Recipe
<1>3. root \in Recipe /\ root # None /\ NonEmpty(root)
  BY <1>2 DEF Links
<1>4. m \in Module
  BY <1>2, <1>3 DEF LinkedModule, Module
<1>5. Stages(root) \in SUBSET Refs
  BY <1>3, StagesAreRefs
<1>6. ASSUME NEW ref \in Refs, Known(ref), ref \in Reach(Stages(root))
      PROVE  Lookup(m, ref) # None
  BY <1>1, <1>3, <1>6 DEF Lookup, Closure, Known, Refs
<1>7. Resolves(m, root)
  <2>1. ASSUME root.kind = "compose", NEW ref \in Stages(root) PROVE Lookup(m, ref) # None
    <3>1. Known(ref)
      BY <2>1 DEF Links, ValidComposition, StageResolves
    <3>2. ref \in Refs /\ ref \in Reach(Stages(root))
      BY <1>5, ReachIsClosed
    <3>. QED BY <1>6, <3>1, <3>2
  <2>. QED BY <1>3, <2>1, ResolvesStages
<1>8. ASSUME NEW n \in Names, m.stages[n] # None
      PROVE  NonEmpty(m.stages[n]) /\ Resolves(m, m.stages[n])
  <2>1. n \in Closure(root) /\ m.stages[n] = ws[n] /\ ws[n] \in Recipe /\ NonEmpty(ws[n])
    BY <1>1, <1>2, <1>8
  <2>2. n \in Reach(Stages(root)) /\ Known(n)
    BY <2>1 DEF Closure
  <2>3. Stages(ws[n]) \subseteq Reach(Stages(root)) /\ Stages(ws[n]) \subseteq Refs
    BY <1>5, <2>1, <2>2, ReachIsClosed, StagesAreRefs
  <2>4. ASSUME ws[n].kind = "compose", NEW ref \in Stages(ws[n]) PROVE Lookup(m, ref) # None
    <3>1. Known(ref)
      BY <2>1, <2>4 DEF Links, ValidComposition, StageResolves
    <3>. QED BY <1>6, <2>3, <3>1
  <2>. QED BY <2>1, <2>4, ResolvesStages
<1>. QED BY <1>1, <1>3, <1>4, <1>7, <1>8 DEF ClosedModule

-------------------------------------------------------------------------------
(* The notebook.                                                           *)

(* Of the listed modules that hold a name one is the first.                *)
LEMMA FirstIsOne ==
  ASSUME NEW holders \in SUBSET Nat, holders # {}
  PROVE  First(holders) \in holders
<1>. DEFINE Less == OpToRel(<, Nat)
<1>1. PICK i \in holders : \A j \in holders : ~(<<j, i>> \in Less)
  BY NatLessThanWellFounded, WFMin
<1>2. \A j \in holders : j < i => <<j, i>> \in Less
  BY DEF OpToRel
<1>. HIDE DEF Less
<1>3. \A j \in holders : ~(j < i)
  BY <1>1, <1>2
<1>4. \A j \in holders : i <= j
  BY <1>3
<1>. QED BY <1>4 DEF First

(* Every name that one of the listed modules resolves, the fold resolves.  *)
LEMMA FoldResolves ==
  ASSUME DeployedInv, NEW notebook \in Notebooks,
         \A n \in Stages(notebook) : deployed[n] # None,
         NEW n \in Stages(notebook), NEW ref \in Resolvable(deployed[n])
  PROVE  ref \in Resolvable(Synthesized(notebook))
<1>. DEFINE m == Synthesized(notebook)
<1>1. /\ notebook.stages \in Seq(Names) /\ n \in Names /\ notebook.name \in Names
      /\ Stages(notebook) \subseteq Names
  BY CompositionAssumption DEF Stages
<1>2. ref \in Refs /\ Lookup(deployed[n], ref) # None /\ ref \in Names
  BY DEF Resolvable, Lookup, Refs
<1>3. CASE ref \in Stages(notebook)
  <2>1. Adopted(notebook, ref) = deployed[ref].root
    BY <1>3 DEF Adopted
  <2>2. deployed[ref].root # None
    BY <1>1, <1>3, NoneIsNothingElse DEF DeployedInv, ClosedModule, Module
  <2>3. m.root # None
    BY <1>1, NoneIsNothingElse DEF Synthesized, Recipe, Refs
  <2>. QED BY <1>2, <2>1, <2>2, <2>3, CompositionAssumption DEF Resolvable, Lookup, Synthesized
<1>4. CASE ref \notin Stages(notebook)
  <2>1. PICK i \in DOMAIN notebook.stages : n = notebook.stages[i]
    BY DEF Stages
  <2>2. i \in Holders(notebook, ref)
    BY <1>1, <1>2, <1>4, <2>1 DEF Lookup, Holders, DeployedInv
  <2>3. Holders(notebook, ref) \in SUBSET Nat
    BY <1>1 DEF Holders
  <2>4. First(Holders(notebook, ref)) \in Holders(notebook, ref)
    BY <2>2, <2>3, FirstIsOne
  <2>5. Adopted(notebook, ref) # None
    BY <1>4, <2>2, <2>4 DEF Adopted, Holders
  <2>6. m.root # None
    BY <1>1, NoneIsNothingElse DEF Synthesized, Recipe, Refs
  <2>. QED BY <1>2, <2>5, <2>6, CompositionAssumption DEF Resolvable, Lookup, Synthesized
<1>. QED BY <1>3, <1>4

(* What holds a name is closed where it comes from, so the fold is closed. *)
LEMMA FoldIsClosed ==
  ASSUME DeployedInv, NEW notebook \in Notebooks, notebook.stages # <<>>,
         \A n \in Stages(notebook) : deployed[n] # None
  PROVE  ClosedModule(Synthesized(notebook))
<1>. DEFINE m == Synthesized(notebook)
<1>1. /\ notebook.stages \in Seq(Names) /\ notebook.name \in Names
      /\ Stages(notebook) \subseteq Names
  BY CompositionAssumption DEF Stages
<1>2. ASSUME NEW file \in Recipe, NEW n \in Stages(notebook), Resolves(deployed[n], file)
      PROVE  Resolves(m, file)
  <2>1. \A ref \in Resolvable(deployed[n]) : ref \in Resolvable(m)
    BY FoldResolves
  <2>2. ASSUME file.kind = "compose" PROVE file.stages \in Seq(Resolvable(m))
    <3>1. file.stages \in Seq(Resolvable(deployed[n]))
      BY <1>2, <2>2 DEF Resolves
    <3>2. \A i \in DOMAIN file.stages : file.stages[i] \in Resolvable(m)
      BY <2>1, <3>1
    <3>. HIDE DEF m
    <3>. QED BY <3>1, <3>2, SeqOfResolvable
  <2>. QED BY <2>2 DEF Resolves
<1>3. ASSUME NEW ref \in Names, Adopted(notebook, ref) # None
      PROVE  /\ Adopted(notebook, ref) \in Recipe /\ NonEmpty(Adopted(notebook, ref))
             /\ Resolves(m, Adopted(notebook, ref))
  <2>1. CASE ref \in Stages(notebook)
    <3>1. Adopted(notebook, ref) = deployed[ref].root
      BY <2>1 DEF Adopted
    <3>2. /\ deployed[ref].root \in Recipe /\ NonEmpty(deployed[ref].root)
          /\ Resolves(deployed[ref], deployed[ref].root)
      BY <1>1, <2>1 DEF DeployedInv, ClosedModule, Module
    <3>. QED BY <1>2, <2>1, <3>1, <3>2
  <2>2. CASE ref \notin Stages(notebook)
    <3>. DEFINE i == First(Holders(notebook, ref))
                n == notebook.stages[i]
    <3>1. Holders(notebook, ref) # {}
      BY <1>3, <2>2 DEF Adopted
    <3>2. Holders(notebook, ref) \in SUBSET Nat
      BY <1>1 DEF Holders
    <3>3. i \in Holders(notebook, ref)
      BY <3>1, <3>2, FirstIsOne
    <3>4. /\ n \in Stages(notebook) /\ n \in Names
          /\ deployed[n].stages[ref] # None
      BY <1>1, <3>3 DEF Holders, Stages
    <3>5. Adopted(notebook, ref) = deployed[n].stages[ref]
      BY <2>2, <3>1 DEF Adopted
    <3>. HIDE DEF n
    <3>6. /\ deployed[n].stages[ref] \in Recipe /\ NonEmpty(deployed[n].stages[ref])
          /\ Resolves(deployed[n], deployed[n].stages[ref])
      BY <3>4 DEF DeployedInv, ClosedModule, Module
    <3>. QED BY <1>2, <3>4, <3>5, <3>6
  <2>. QED BY <2>1, <2>2
<1>4. m.root \in Recipe /\ NonEmpty(m.root)
  BY <1>1 DEF Synthesized, Recipe, Refs, NonEmpty
<1>5. Resolves(m, m.root)
  <2>1. \A ref \in Stages(notebook) : Lookup(m, ref) # None
    <3>. SUFFICES ASSUME NEW ref \in Stages(notebook) PROVE Lookup(m, ref) # None
      OBVIOUS
    <3>1. ref \in Names /\ Adopted(notebook, ref) = deployed[ref].root
      BY <1>1 DEF Adopted
    <3>2. deployed[ref].root # None
      BY <3>1, NoneIsNothingElse DEF DeployedInv, ClosedModule, Module
    <3>. QED BY <1>4, <3>1, <3>2, NoneIsNothingElse, CompositionAssumption DEF Lookup, Synthesized
  <2>2. Stages(m.root) = Stages(notebook)
    BY DEF Stages, Synthesized
  <2>. QED BY <1>4, <2>1, <2>2, ResolvesStages
<1>6. m \in Module
  BY <1>1, <1>3, <1>4 DEF Synthesized, Module
<1>7. \A n \in Names : m.stages[n] # None => NonEmpty(m.stages[n]) /\ Resolves(m, m.stages[n])
  BY <1>3 DEF Synthesized
<1>. QED BY <1>4, <1>5, <1>6, <1>7 DEF ClosedModule


-------------------------------------------------------------------------------
(* The runtime: one lemma per step of a run.                               *)

LEMMA SeqPush ==
  ASSUME NEW S, NEW s \in Seq(S), NEW x \in S
  PROVE  <<x>> \o s \in Seq(S)
OBVIOUS

LEMMA SeqHeadTail ==
  ASSUME NEW S, NEW s \in Seq(S), s # <<>>
  PROVE  Head(s) \in S /\ Tail(s) \in Seq(S)
OBVIOUS

(* A node that resolves starts with a sound run.                           *)
LEMMA StartKeeps ==
  ASSUME NEW module, ClosedModule(module), NEW notebook \in BOOLEAN, Start(module, notebook)
  PROVE  RunInv'
<1>1. Node(module.name, module.root, Nothing, ~notebook) \in NodeOf(module)
  BY DEF Node, NodeOf, RunNode, ClosedModule, Module, Refs, Snapshot, Nothing
<1>2. run' \in RunOf(module) /\ run'.module = module
  BY <1>1 DEF Start, RunOf
<1>3. Fed(run')
  BY DEF Start, Fed
<1>. QED BY <1>2, <1>3 DEF RunInv

LEMMA ReturnedSound ==
  ASSUME NEW m, NEW stack \in Seq(FrameOf(m)), NEW snapshot \in Snapshot
  PROVE  Returned(stack, snapshot) \in Seq(FrameOf(m))
<1>1. CASE stack = <<>>
  BY <1>1 DEF Returned
<1>2. CASE stack # <<>>
  <2>1. Head(stack) \in FrameOf(m) /\ Tail(stack) \in Seq(FrameOf(m))
    BY <1>2, SeqHeadTail
  <2>2. Frame(Head(stack).name, Head(stack).todo, snapshot, FALSE) \in FrameOf(m)
    BY <2>1 DEF Frame, FrameOf
  <2>. QED BY <1>2, <2>1, <2>2, SeqPush DEF Returned
<1>. QED BY <1>1, <1>2

LEMMA FailKeeps ==
  ASSUME RunInv, run # None, NEW error, Fail(error),
         error \in Errors, error # "unresolved"
  PROVE  RunInv'
<1>1. run' \in RunOf(run.module) /\ run'.module = run.module /\ Fed(run')
  BY NoneIsNothingElse DEF Fail, RunInv, RunOf, Fed
<1>. QED BY <1>1 DEF RunInv

LEMMA EnterCompositionKeeps ==
  ASSUME RunInv, EnterComposition
  PROVE  RunInv'
<1>. DEFINE m == run.module
            node == run.node
            frame == Frame(node.name, node.file.stages, Nothing, node.inputs)
<1>1. run # None /\ node # None /\ ClosedModule(m) /\ run \in RunOf(m) /\ node \in NodeOf(m)
  BY DEF EnterComposition, AtNode, Running, RunInv, RunOf
<1>2. node.file.stages \in Seq(Resolvable(m)) /\ node.file.stages # <<>>
  BY <1>1 DEF EnterComposition, NodeOf, Resolves, NonEmpty
<1>3. frame \in FrameOf(m)
  BY <1>1, <1>2 DEF Frame, FrameOf, NodeOf, RunNode, Snapshot, Nothing
<1>4. <<frame>> \o run.stack \in Seq(FrameOf(m))
  BY <1>1, <1>3, SeqPush DEF RunOf
<1>5. run' \in RunOf(m) /\ run'.module = m
  BY <1>1, <1>4 DEF EnterComposition, RunOf
<1>6. Fed(run')
  <2>1. run'.stack = <<frame>> \o run.stack
    BY <1>1 DEF EnterComposition, RunOf
  <2>2. Head(run'.stack) = frame
    BY <1>1, <1>3, <2>1 DEF RunOf
  <2>. QED BY <1>2, <2>2 DEF Fed, Frame
<1>. QED BY <1>1, <1>5, <1>6 DEF RunInv

(* The next stage is one that its module resolves, to a file that again    *)
(* has only such stages.                                                   *)
LEMMA NextStageKeeps ==
  ASSUME RunInv, NextStage
  PROVE  RunInv'
<1>. DEFINE m == run.module
            ref == Head(Top.todo)
            file == Lookup(m, ref)
<1>1. run # None /\ ClosedModule(m) /\ run \in RunOf(m) /\ run.stack # <<>>
  BY DEF NextStage, Running, RunInv
<1>2. Top \in FrameOf(m) /\ Tail(run.stack) \in Seq(FrameOf(m))
  BY <1>1, SeqHeadTail DEF RunOf, Top
<1>3. ref \in Resolvable(m) /\ Tail(Top.todo) \in Seq(Resolvable(m))
  BY <1>2, SeqHeadTail DEF FrameOf, NextStage
<1>4. file # None /\ ref \in Refs
  BY <1>3 DEF Resolvable
<1>5. file \in Recipe /\ NonEmpty(file) /\ Resolves(m, file)
  BY <1>1, <1>4 DEF Lookup, ClosedModule, Module, Refs
<1>6. Node(ref, file, Top.prior, Top.inputs) \in NodeOf(m)
  BY <1>2, <1>4, <1>5 DEF Node, NodeOf, RunNode, FrameOf
<1>7. Frame(Top.name, Tail(Top.todo), Top.prior, Top.inputs) \in FrameOf(m)
  BY <1>2, <1>3 DEF Frame, FrameOf
<1>8. <<Frame(Top.name, Tail(Top.todo), Top.prior, Top.inputs)>> \o Tail(run.stack)
        \in Seq(FrameOf(m))
  BY <1>2, <1>7, SeqPush
<1>9. run' \in RunOf(m) /\ run'.module = m
  BY <1>1, <1>4, <1>6, <1>8 DEF NextStage, RunOf
<1>10. run'.node # None
  BY <1>1, <1>4, <1>6, NoneIsNothingElse DEF NextStage, RunOf, NodeOf
<1>. QED BY <1>1, <1>9, <1>10 DEF RunInv, Fed

LEMMA RunScrapingKeeps ==
  ASSUME RunInv, RunScraping
  PROVE  RunInv'
<1>. DEFINE m == run.module
            node == run.node
<1>1. run # None /\ ClosedModule(m) /\ run \in RunOf(m) /\ node \in NodeOf(m)
  BY DEF RunScraping, AtNode, Running, RunInv, RunOf
<1>2. CASE BindError(node) # None
  <2>1. BindError(node) \in Errors /\ BindError(node) # "unresolved"
    <3>. HIDE DEF node
    <3>. QED BY <1>2 DEF BindError, Errors
  <2>2. Fail(BindError(node))
    BY <1>2 DEF RunScraping
  <2>. QED BY <1>1, <2>1, <2>2, FailKeeps
<1>3. CASE Fail("engine") \/ Fail("unbound_input")
  BY <1>1, <1>3, FailKeeps DEF Errors
<1>4. ASSUME NEW type \in node.file.emits, NEW count \in 0..MaxRecords,
             NEW snapshot, snapshot = IF count = 0 THEN Nothing ELSE [type |-> type, count |-> count],
             run' = [run EXCEPT !.node = None, !.snapshot = snapshot,
                                !.stack = Returned(@, snapshot)]
      PROVE  RunInv'
  <2>1. snapshot \in Snapshot
    BY <1>1, <1>4, CompositionAssumption DEF NodeOf, RunNode, Recipe, Snapshot, Nothing
  <2>2. Returned(run.stack, snapshot) \in Seq(FrameOf(m))
    BY <1>1, <2>1, ReturnedSound DEF RunOf
  <2>3. run' \in RunOf(m) /\ run'.module = m
    BY <1>1, <1>4, <2>1, <2>2 DEF RunOf
  <2>4. Fed(run')
    BY <1>1, <1>4, <2>1, NoneIsNothingElse DEF Fed, RunOf
  <2>. QED BY <1>1, <2>3, <2>4 DEF RunInv
<1>. QED BY <1>2, <1>3, <1>4 DEF RunScraping

LEMMA FinishCompositionKeeps ==
  ASSUME RunInv, FinishComposition
  PROVE  RunInv'
<1>. DEFINE m == run.module
<1>1. run # None /\ ClosedModule(m) /\ run \in RunOf(m) /\ Tail(run.stack) \in Seq(FrameOf(m))
  BY SeqHeadTail DEF FinishComposition, Running, RunInv, RunOf
<1>2. run.snapshot # None
  BY DEF FinishComposition, Running, RunInv, Fed, Top
<1>3. run.snapshot \in Snapshot
  BY <1>1, <1>2 DEF RunOf
<1>4. Returned(Tail(run.stack), run.snapshot) \in Seq(FrameOf(m))
  BY <1>1, <1>3, ReturnedSound
<1>5. run' \in RunOf(m) /\ run'.module = m
  BY <1>1, <1>4 DEF FinishComposition, RunOf
<1>6. run'.snapshot # None
  BY <1>1, <1>2 DEF FinishComposition, RunOf
<1>. QED BY <1>1, <1>5, <1>6 DEF RunInv, Fed

-------------------------------------------------------------------------------
(* Every step keeps the invariant.                                         *)

LEMMA InvHolds == Init => Inv
<1>. SUFFICES ASSUME Init PROVE Inv
  OBVIOUS
<1>1. WorkspaceInv
  BY CompositionAssumption DEF Init, WorkspaceInv
<1>2. DeployedInv
  BY DEF Init, DeployedInv
<1>3. RunInv
  BY DEF Init, RunInv
<1>. QED BY <1>1, <1>2, <1>3 DEF Inv

LEMMA InvIsKept == Inv /\ [Next]_vars => Inv'
<1>. SUFFICES ASSUME Inv, [Next]_vars PROVE Inv'
  OBVIOUS
<1>. USE DEF Inv
<1>1. ASSUME NEW n \in Names, NEW file \in Recipes \cup {None}, Save(n, file) PROVE Inv'
  BY <1>1 DEF Save, WorkspaceInv, DeployedInv, RunInv
<1>2. ASSUME NEW n \in Names, Deploy(n) PROVE Inv'
  <2>1. ClosedModule(LinkedModule(n)) /\ LinkedModule(n).name = n
    BY <1>2, LinkedIsClosed DEF Deploy
  <2>2. DeployedInv'
    BY <1>2, <2>1 DEF Deploy, DeployedInv
  <2>. QED BY <1>2, <2>2 DEF Deploy, WorkspaceInv, RunInv
<1>3. ASSUME NEW n \in Names, RunDeployed(n) PROVE Inv'
  <2>1. RunInv'
    BY <1>3, StartKeeps DEF RunDeployed, DeployedInv
  <2>. QED BY <1>3, <2>1 DEF RunDeployed, Start, WorkspaceInv, DeployedInv
<1>4. ASSUME NEW notebook \in Notebooks, RunNotebook(notebook) PROVE Inv'
  <2>1. ClosedModule(Synthesized(notebook))
    BY <1>4, FoldIsClosed DEF RunNotebook
  <2>2. RunInv'
    BY <1>4, <2>1, StartKeeps DEF RunNotebook
  <2>. QED BY <1>4, <2>2 DEF RunNotebook, Start, WorkspaceInv, DeployedInv
<1>5. CASE RunStep
  <2>1. WorkspaceInv' /\ DeployedInv'
    BY <1>5 DEF RunStep, EnterComposition, NextStage, RunScraping, FinishComposition, EndRun,
                Others, WorkspaceInv, DeployedInv
  <2>2. EndRun => RunInv'
    BY DEF EndRun, RunInv
  <2>3. RunInv'
    BY <1>5, <2>2, EnterCompositionKeeps, NextStageKeeps, RunScrapingKeeps,
       FinishCompositionKeeps DEF RunStep, RunInv
  <2>. QED BY <2>1, <2>3
<1>6. CASE UNCHANGED vars
  BY <1>6 DEF vars, WorkspaceInv, DeployedInv, RunInv
<1>. QED BY <1>1, <1>2, <1>3, <1>4, <1>5, <1>6 DEF Next

(* A run only ends in an error of a stage: whatever users saved or         *)
(* deployed in the meantime, the stages of a linked module and of a        *)
(* notebook's fold are all in it (LinkedModule::stage never misses).       *)
THEOREM StagesAlwaysResolve == Spec => []StagesResolve
<1>1. Inv => StagesResolve
  BY NoneIsNothingElse DEF Inv, RunInv, RunOf, StagesResolve, Errors
<1>. QED BY <1>1, InvHolds, InvIsKept, PTL DEF Spec

-------------------------------------------------------------------------------
(* What a stage emitted is what the next one gets, where compositions take *)
(* no records.  The checks on a composition then let one only come first,  *)
(* so that a composition is only entered before anything has run.          *)

CompositionsTakeNothing == \A r \in Recipes : r.kind = "compose" => r.slots = {}

Scrapes(m, ref) == Lookup(m, ref).kind # "compose"
AllScrape(m, todo) == \A i \in 1..Len(todo) : Scrapes(m, todo[i])
LaterScrape(m, todo) == \A i \in 2..Len(todo) : Scrapes(m, todo[i])

Flat(m) ==
  \A ref \in Refs : Lookup(m, ref) # None /\ Lookup(m, ref).kind = "compose" =>
    LaterScrape(m, Lookup(m, ref).stages)

(* Before anything has run only the composition just entered may have one  *)
(* ahead; from then on every frame has scraping stages ahead, and the top  *)
(* one has what ran last.                                                  *)
Streams(r) ==
  /\ r.node # None =>
       /\ r.node.file.kind = "compose" => r.snapshot = None /\ LaterScrape(r.module, r.node.file.stages)
       /\ r.node.file.kind # "compose" /\ r.snapshot # None => r.node.prior = r.snapshot
  /\ r.error = None =>
       /\ \A i \in 1..Len(r.stack) :
            AllScrape(r.module, r.stack[i].todo) \/ (i = 1 /\ r.node = None /\ r.snapshot = None)
       /\ r.node = None /\ r.stack # <<>> =>
            /\ LaterScrape(r.module, Head(r.stack).todo)
            /\ r.snapshot # None => Head(r.stack).prior = r.snapshot

StreamInv ==
  /\ \A n \in Names : deployed[n] # None => Flat(deployed[n])
  /\ run # None /\ ~run.notebook => Flat(run.module) /\ Streams(run)

(* What links is flat: a later stage accepts the one type of the stage     *)
(* before it, so it has a slot (IncompatiblePipeStage).                    *)
LEMMA LaterStagesScrape ==
  ASSUME WorkspaceInv, CompositionsTakeNothing, NEW recipe \in Recipe, recipe.kind = "compose",
         NEW name, ValidComposition(name, recipe), NEW i \in 2..Len(recipe.stages)
  PROVE  Known(recipe.stages[i]) /\ ws[recipe.stages[i]].kind # "compose"
<1>1. recipe.stages \in Seq(Refs) /\ i - 1 \in 1..(Len(recipe.stages) - 1) /\ (i - 1) + 1 = i
  BY DEF Recipe
<1>2. PICK up, down : up = recipe.stages[i - 1] /\ down = recipe.stages[i]
  OBVIOUS
<1>3. up \in Stages(recipe) /\ down \in Stages(recipe) /\ down \in Refs
  BY <1>1, <1>2 DEF Stages
<1>4. StageResolves(up) /\ Known(down)
  BY <1>3 DEF ValidComposition, StageResolves
<1>5. \A type \in OutputTypes(up) : Accepts(ws[down], type)
  BY <1>1, <1>2, <1>4 DEF ValidComposition, BoundariesFit
<1>6. PICK type : type \in OutputTypes(up)
  <2>1. OutputTypes(up) # {}
    <3>1. Cardinality(OutputTypes(up)) = 1
      BY <1>4 DEF StageResolves
    <3>2. Cardinality({}) = 0
      BY FS_EmptySet
    <3> QED BY <3>1, <3>2
  <2> QED BY <2>1
<1>7. ws[down].slots # {}
  BY <1>5, <1>6 DEF Accepts
<1>8. ws[down] \in Recipes
  BY <1>3, <1>4 DEF WorkspaceInv, Known, Refs
<1> QED BY <1>2, <1>4, <1>7, <1>8 DEF CompositionsTakeNothing

LEMMA LinkedIsFlat ==
  ASSUME WorkspaceInv, CompositionsTakeNothing, NEW name \in Names, Links(name)
  PROVE  Flat(LinkedModule(name))
<1>. DEFINE m == LinkedModule(name)
            root == ws[name]
<1>1. /\ m.name = name /\ m.root = root
      /\ \A n \in Names : m.stages[n] = IF n \in Closure(root) THEN ws[n] ELSE None
  BY DEF LinkedModule
<1>2. \A n \in Names : ws[n] # None => ws[n] \in Recipe
  BY CompositionAssumption DEF WorkspaceInv
<1>3. \A ref \in Refs : Lookup(m, ref) # None => ref \in Names /\ Lookup(m, ref) = ws[ref] /\ ws[ref] # None
  BY <1>1 DEF Lookup, Refs
<1>. HIDE DEF m
<1>4. ASSUME NEW ref \in Refs, Lookup(m, ref) # None, Lookup(m, ref).kind = "compose",
             NEW i \in 2..Len(Lookup(m, ref).stages)
      PROVE  Scrapes(m, Lookup(m, ref).stages[i])
  <2>1. PICK file : file = Lookup(m, ref)
    OBVIOUS
  <2>2. file = ws[ref] /\ file # None /\ ref \in Names /\ file \in Recipe
    BY <1>2, <1>3, <1>4, <2>1
  <2>3. ValidComposition(ref, file)
    <3>1. CASE ref = name
      BY <2>2, <3>1 DEF Links
    <3>2. CASE ref # name
      <4>1. ref \in Closure(root)
        BY <1>1, <1>4, <2>2, <3>2 DEF Lookup, Refs
      <4> QED BY <2>2, <4>1 DEF Links
    <3> QED BY <3>1, <3>2
  <2>4. Known(file.stages[i]) /\ ws[file.stages[i]].kind # "compose"
    BY <1>4, <2>1, <2>2, <2>3, LaterStagesScrape
  <2>5. LinkedModule(name).root = m.root /\ ClosedModule(m)
    BY LinkedIsClosed DEF m
  <2>6. Lookup(m, file.stages[i]) # None /\ file.stages[i] \in Refs
    <3>1. Resolves(m, file)
      BY <1>4, <2>1, <2>2, <2>5 DEF ClosedModule, Lookup, Refs
    <3>2. file.stages \in Seq(Resolvable(m))
      BY <1>4, <2>1, <3>1 DEF Resolves
    <3>3. file.stages[i] \in Resolvable(m)
      BY <1>4, <2>1, <3>2
    <3> QED BY <3>3 DEF Resolvable
  <2> QED BY <1>3, <2>1, <2>4, <2>6 DEF Scrapes
<1>5. Flat(m)
  BY <1>4 DEF Flat, LaterScrape
<1> QED BY <1>5 DEF m

(* The steps of a run.                                                     *)
LEMMA EnterStreams ==
  ASSUME RunInv, run # None, Streams(run), EnterComposition
  PROVE  Streams(run')
<1>1. PICK m, node, stack : m = run.module /\ node = run.node /\ stack = run.stack
  OBVIOUS
<1>2. PICK frame : frame = Frame(node.name, node.file.stages, Nothing, node.inputs)
  OBVIOUS
<1>3. run \in RunOf(m) /\ stack \in Seq(FrameOf(m)) /\ run.error = None /\ node # None /\ node.file.kind = "compose"
  BY <1>1 DEF EnterComposition, AtNode, Running, RunInv, RunOf
<1>4. PICK r : r = run'
  OBVIOUS
<1>5. r.module = m /\ r.node = None /\ r.stack = <<frame>> \o stack /\ r.snapshot = run.snapshot /\ r.error = None
  BY <1>1, <1>2, <1>3, <1>4 DEF EnterComposition, RunOf
<1>6. run.snapshot = None /\ LaterScrape(m, frame.todo) /\ \A i \in 1..Len(stack) : AllScrape(m, stack[i].todo)
  BY <1>1, <1>2, <1>3 DEF Streams, Frame
<1>7. /\ Head(r.stack) = frame /\ Len(r.stack) = Len(stack) + 1
      /\ \A i \in 1..Len(r.stack) : i # 1 => i - 1 \in 1..Len(stack) /\ r.stack[i] = stack[i - 1]
  BY <1>3, <1>5
<1> QED BY <1>4, <1>5, <1>6, <1>7 DEF Streams

LEMMA NextStageStreams ==
  ASSUME RunInv, run # None, Flat(run.module), Streams(run), NextStage
  PROVE  Streams(run')
<1>1. PICK m, stack, top : m = run.module /\ stack = run.stack /\ top = Head(stack)
  OBVIOUS
<1>2. PICK ref, file : ref = Head(top.todo) /\ file = Lookup(m, ref)
  OBVIOUS
<1>3. /\ run \in RunOf(m) /\ stack \in Seq(FrameOf(m)) /\ stack # <<>> /\ run.error = None /\ run.node = None
      /\ top \in FrameOf(m) /\ top.todo \in Seq(Resolvable(m)) /\ top.todo # <<>>
  <2>1. /\ run \in RunOf(m) /\ stack \in Seq(FrameOf(m)) /\ stack # <<>> /\ run.error = None /\ run.node = None
        /\ top.todo # <<>>
    BY <1>1 DEF NextStage, Running, RunInv, RunOf, Top
  <2>2. top \in FrameOf(m)
    BY <1>1, <2>1, SeqHeadTail
  <2> QED BY <2>1, <2>2 DEF FrameOf
<1>4. ref \in Refs /\ file # None /\ file \in Recipe
  <2>1. ref \in Resolvable(m)
    BY <1>2, <1>3, SeqHeadTail
  <2> QED BY <1>1, <1>2, <2>1 DEF Resolvable, RunInv, Lookup, ClosedModule, Module, Refs
<1>5. PICK node, frame : node = Node(ref, file, top.prior, top.inputs)
                         /\ frame = Frame(top.name, Tail(top.todo), top.prior, top.inputs)
  OBVIOUS
<1>6. PICK r : r = run'
  OBVIOUS
<1>7. /\ r.module = m /\ r.node = node /\ r.stack = <<frame>> \o Tail(stack) /\ r.snapshot = run.snapshot
      /\ r.error = None
  BY <1>1, <1>2, <1>3, <1>4, <1>5, <1>6 DEF NextStage, RunOf, Top
<1>8. node.file = file /\ node.prior = top.prior /\ frame.todo = Tail(top.todo)
  BY <1>5 DEF Node, Frame
<1>9. /\ LaterScrape(m, top.todo) /\ (run.snapshot # None => top.prior = run.snapshot)
      /\ AllScrape(m, top.todo) \/ run.snapshot = None
      /\ \A i \in 2..Len(stack) : AllScrape(m, stack[i].todo)
  BY <1>1, <1>3 DEF Streams
<1>10. file.kind = "compose" => run.snapshot = None
  BY <1>2, <1>3, <1>9 DEF AllScrape, Scrapes
<1>11. file.kind = "compose" => LaterScrape(m, file.stages)
  BY <1>1, <1>2, <1>4 DEF Flat
<1>12. AllScrape(m, frame.todo)
  <2>1. ASSUME NEW i \in 1..Len(Tail(top.todo))
        PROVE  i + 1 \in 2..Len(top.todo) /\ Tail(top.todo)[i] = top.todo[i + 1]
    BY <1>3
  <2> QED BY <1>8, <1>9, <2>1 DEF AllScrape, LaterScrape
<1>13. \A i \in 1..Len(r.stack) : r.stack[i] = IF i = 1 THEN frame ELSE stack[i]
  BY <1>3, <1>7
<1>14. Len(r.stack) = Len(stack)
  BY <1>3, <1>7
<1>15. \A i \in 1..Len(r.stack) : AllScrape(m, r.stack[i].todo)
  BY <1>3, <1>9, <1>12, <1>13, <1>14
<1>16. node # None
  <2>1. node \in RunNode
    BY <1>3, <1>4, <1>5 DEF Node, RunNode, FrameOf
  <2> QED BY <2>1, NoneIsNothingElse
<1>17. Streams(r)
  BY <1>7, <1>8, <1>9, <1>10, <1>11, <1>15, <1>16 DEF Streams
<1> QED BY <1>6, <1>17

(* After a stage has run, or a composition has, the top frame has what ran *)
(* last.                                                                   *)
LEMMA ReturnedStreams ==
  ASSUME NEW m, NEW stack \in Seq(FrameOf(m)), \A i \in 1..Len(stack) : AllScrape(m, stack[i].todo),
         NEW snapshot \in Snapshot, NEW r, r.module = m, r.node = None, r.snapshot = snapshot, r.error = None,
         r.stack = Returned(stack, snapshot)
  PROVE  Streams(r)
<1>1. CASE stack = <<>>
  BY <1>1 DEF Streams, Returned
<1>2. CASE stack # <<>>
  <2>1. PICK frame : frame = Frame(Head(stack).name, Head(stack).todo, snapshot, FALSE)
    OBVIOUS
  <2>2. frame.todo = Head(stack).todo /\ frame.prior = snapshot
    BY <2>1 DEF Frame
  <2>3. /\ r.stack = <<frame>> \o Tail(stack) /\ Head(r.stack) = frame
        /\ \A i \in 1..Len(r.stack) : i \in 1..Len(stack) /\ r.stack[i] = IF i = 1 THEN frame ELSE stack[i]
    <3>1. r.stack = <<frame>> \o Tail(stack)
      BY <1>2, <2>1 DEF Returned
    <3>2. PICK rest : rest = Tail(stack)
      OBVIOUS
    <3>3. /\ rest \in Seq(FrameOf(m)) /\ Len(stack) = Len(rest) + 1
          /\ \A i \in 1..Len(rest) : rest[i] = stack[i + 1]
      BY <1>2, <3>2
    <3>4. /\ Len(<<frame>> \o rest) = Len(rest) + 1 /\ (<<frame>> \o rest)[1] = frame
          /\ \A i \in 2..(Len(rest) + 1) : (<<frame>> \o rest)[i] = rest[i - 1]
      BY <3>3
    <3> QED BY <3>1, <3>2, <3>3, <3>4
  <2>4. Head(stack) = stack[1] /\ 1 \in 1..Len(stack)
    BY <1>2
  <2>5. \A i \in 1..Len(r.stack) : AllScrape(m, r.stack[i].todo)
    BY <2>2, <2>3, <2>4
  <2>6. LaterScrape(m, frame.todo)
    BY <2>2, <2>4 DEF AllScrape, LaterScrape
  <2> QED BY <2>2, <2>3, <2>5, <2>6 DEF Streams
<1> QED BY <1>1, <1>2

LEMMA ScrapingStreams ==
  ASSUME RunInv, run # None, Streams(run), RunScraping
  PROVE  Streams(run')
<1>1. PICK m, node, stack : m = run.module /\ node = run.node /\ stack = run.stack
  OBVIOUS
<1>2. run \in RunOf(m) /\ stack \in Seq(FrameOf(m)) /\ run.error = None /\ node \in NodeOf(m) /\ node # None
  BY <1>1 DEF RunScraping, AtNode, Running, RunInv, RunOf
<1>3. ASSUME NEW error, Fail(error), error # None PROVE Streams(run')
  <2>1. run'.error = error /\ run'.node = None
    BY <1>2, <1>3 DEF Fail, RunOf
  <2> QED BY <1>3, <2>1 DEF Streams
<1>4. ASSUME NEW type \in node.file.emits, NEW count \in 0..MaxRecords,
             NEW snapshot, snapshot = IF count = 0 THEN Nothing ELSE [type |-> type, count |-> count],
             run' = [run EXCEPT !.node = None, !.snapshot = snapshot,
                                !.stack = Returned(@, snapshot)]
      PROVE  Streams(run')
  <2>1. snapshot \in Snapshot
    BY <1>2, <1>4, CompositionAssumption DEF NodeOf, RunNode, Recipe, Snapshot, Nothing
  <2>2. PICK r : r = run'
    OBVIOUS
  <2>3. /\ r.module = m /\ r.node = None /\ r.snapshot = snapshot /\ r.error = None
        /\ r.stack = Returned(stack, snapshot)
    BY <1>1, <1>2, <1>4, <2>2 DEF RunOf
  <2>4. \A i \in 1..Len(stack) : AllScrape(m, stack[i].todo)
    BY <1>1, <1>2 DEF Streams
  <2>5. Streams(r)
    BY <1>2, <2>1, <2>3, <2>4, ReturnedStreams
  <2> QED BY <2>2, <2>5
<1>5. \/ \E error \in Errors : Fail(error)
      \/ \E type \in node.file.emits, count \in 0..MaxRecords : \E snapshot :
           /\ snapshot = IF count = 0 THEN Nothing ELSE [type |-> type, count |-> count]
           /\ run' = [run EXCEPT !.node = None, !.snapshot = snapshot, !.stack = Returned(@, snapshot)]
  <2>1. BindError(node) # None => BindError(node) \in Errors
    BY DEF BindError, Errors
  <2> QED BY <1>1, <2>1 DEF RunScraping, Errors
<1> QED BY <1>3, <1>4, <1>5, NoneIsNothingElse

LEMMA FinishStreams ==
  ASSUME RunInv, run # None, Streams(run), FinishComposition
  PROVE  Streams(run')
<1>1. PICK m, stack : m = run.module /\ stack = run.stack
  OBVIOUS
<1>2. PICK snapshot, rest : snapshot = run.snapshot /\ rest = Tail(stack)
  OBVIOUS
<1>3. /\ run \in RunOf(m) /\ stack \in Seq(FrameOf(m)) /\ stack # <<>> /\ run.error = None /\ run.node = None
      /\ snapshot # None
  BY <1>1, <1>2 DEF FinishComposition, Running, RunInv, RunOf, Fed, Top
<1>4. /\ rest \in Seq(FrameOf(m)) /\ snapshot \in Snapshot
      /\ \A i \in 1..Len(rest) : i + 1 \in 1..Len(stack) /\ rest[i] = stack[i + 1]
  BY <1>2, <1>3 DEF RunOf
<1>5. \A i \in 1..Len(rest) : AllScrape(m, rest[i].todo)
  BY <1>1, <1>2, <1>3, <1>4 DEF Streams
<1>6. PICK r : r = run'
  OBVIOUS
<1>7. /\ r.module = m /\ r.node = None /\ r.snapshot = snapshot /\ r.error = None
      /\ r.stack = Returned(rest, snapshot)
  BY <1>1, <1>2, <1>3, <1>6 DEF FinishComposition, RunOf
<1>8. Streams(r)
  BY <1>4, <1>5, <1>7, ReturnedStreams
<1> QED BY <1>6, <1>8

(* A run starts with its root, which is flat, and nothing has run.         *)
LEMMA StartStreams ==
  ASSUME NEW module, ClosedModule(module), Flat(module), NEW notebook \in BOOLEAN, Start(module, notebook)
  PROVE  run'.module = module /\ run'.notebook = notebook /\ Streams(run')
<1>1. PICK node : node = Node(module.name, module.root, Nothing, ~notebook)
  OBVIOUS
<1>2. PICK r : r = run'
  OBVIOUS
<1>3. /\ r.module = module /\ r.notebook = notebook /\ r.node = node /\ r.stack = <<>> /\ r.snapshot = None
      /\ r.error = None
  BY <1>1, <1>2 DEF Start
<1>4. module.name \in Refs /\ Lookup(module, module.name) = module.root /\ module.root \in Recipe /\ node.file = module.root
  BY <1>1, CompositionAssumption DEF ClosedModule, Module, Refs, Lookup, Node
<1>5. node.file.kind = "compose" => LaterScrape(module, node.file.stages)
  BY <1>4, NoneIsNothingElse DEF Flat
<1>6. Streams(r)
  BY <1>3, <1>5 DEF Streams
<1> QED BY <1>2, <1>3, <1>6

LEMMA StreamInvIsKept ==
  ASSUME CompositionsTakeNothing, Inv, StreamInv, [Next]_vars
  PROVE  StreamInv'
<1>. USE DEF Inv
<1>1. CASE UNCHANGED vars
  BY <1>1 DEF vars, StreamInv
<1>2. ASSUME NEW n \in Names, NEW file \in Recipes \cup {None}, Save(n, file) PROVE StreamInv'
  BY <1>2 DEF Save, StreamInv
<1>3. ASSUME NEW n \in Names, Deploy(n) PROVE StreamInv'
  <2>1. Flat(LinkedModule(n))
    BY <1>3, LinkedIsFlat DEF Deploy
  <2>2. \A k \in Names : deployed'[k] # None => Flat(deployed'[k])
    BY <1>3, <2>1 DEF Deploy, DeployedInv, StreamInv
  <2> QED BY <1>3, <2>2 DEF Deploy, StreamInv
<1>4. ASSUME NEW n \in Names, RunDeployed(n) PROVE StreamInv'
  <2>1. ClosedModule(deployed[n]) /\ Flat(deployed[n]) /\ Start(deployed[n], FALSE)
    BY <1>4 DEF RunDeployed, DeployedInv, StreamInv
  <2>2. run'.module = deployed[n] /\ Streams(run') /\ deployed' = deployed
    BY <2>1, StartStreams DEF Start
  <2> QED BY <2>1, <2>2 DEF StreamInv
<1>5. ASSUME NEW notebook \in Notebooks, RunNotebook(notebook) PROVE StreamInv'
  <2>1. run'.notebook = TRUE /\ deployed' = deployed
    BY <1>5 DEF RunNotebook, Start
  <2> QED BY <2>1 DEF StreamInv
<1>6. CASE RunStep
  <2>1. deployed' = deployed
    BY <1>6 DEF RunStep, EnterComposition, NextStage, RunScraping, FinishComposition, EndRun, Others
  <2>2. CASE EndRun
    BY <2>1, <2>2 DEF EndRun, StreamInv
  <2>3. CASE EnterComposition \/ NextStage \/ RunScraping \/ FinishComposition
    <3>1. run # None /\ run \in RunOf(run.module)
      BY <2>3 DEF EnterComposition, NextStage, RunScraping, FinishComposition, AtNode, Running, RunInv
    <3>2. run'.module = run.module /\ run'.notebook = run.notebook
      BY <2>3, <3>1 DEF EnterComposition, NextStage, RunScraping, FinishComposition, Fail, RunOf
    <3>3. ASSUME ~run.notebook PROVE Streams(run')
      BY <2>3, <3>1, <3>3, EnterStreams, NextStageStreams, ScrapingStreams, FinishStreams DEF StreamInv
    <3> QED BY <2>1, <3>1, <3>2, <3>3 DEF StreamInv
  <2> QED BY <1>6, <2>2, <2>3 DEF RunStep
<1> QED BY <1>1, <1>2, <1>3, <1>4, <1>5, <1>6 DEF Next

(* "The runtime walks the chain, feeding each stage's emitted records to   *)
(* the next", for every workspace whose compositions have no inputs for    *)
(* records, however they nest.  Where one has, the first of its stages     *)
(* gets nothing: that is where the code parts from its documentation.      *)
THEOREM StreamAlwaysReaches ==
  ASSUME CompositionsTakeNothing
  PROVE  Spec => []StreamReachesNextStage
<1>1. Init => StreamInv
  BY DEF Init, StreamInv
<1>2. Inv /\ StreamInv /\ [Next]_vars => StreamInv'
  BY StreamInvIsKept
<1>3. StreamInv => StreamReachesNextStage
  BY DEF StreamInv, Streams, StreamReachesNextStage
<1>. QED BY <1>1, <1>2, <1>3, InvHolds, InvIsKept, PTL DEF Spec
===============================================================================
