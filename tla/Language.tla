------------------------------ MODULE Language --------------------------------
(***************************************************************************)
(* From a parsed recipe to its records: what the validator reports of a    *)
(* file, and what the HTTP engine and the browser replay do with a file it *)
(* accepts.  Issues follows the rules of the validator over the syntax     *)
(* tree; the actions are the statements of a run, one at a time, over the  *)
(* scope of nested frames that the evaluator looks names up in.            *)
(*                                                                         *)
(* A value is a kind (Builtins).  Only errors are issues; warnings are     *)
(* left out, as are compositions, enums and the alignments of types.       *)
(***************************************************************************)
EXTENDS Builtins, SequencesExt, FiniteSetsExt, TLC

CONSTANTS
  Files,      \* parsed files: `types` is the catalog, `own` what the file declares of it
  MaxItems,   \* bound on the items of a collection and on the captured exchanges
  MaxCalls    \* bound on calls within calls, where the program has only its stack

VARIABLES
  file,     \* the file that is run
  given,    \* the inputs and secrets the run is given
  todo,     \* what is left of the run
  scope,    \* the frames, innermost last: names to values
  records,  \* the snapshot; a record's id is its place
  phase,    \* what became of the run: "written", "rejected", "running", "done", "failed"
  failure   \* the error a failed run ended with, and the name it is about

vars == <<file, given, todo, scope, records, phase, failure>>

-------------------------------------------------------------------------------
(* Types.                                                                  *)

RECURSIVE Resolve(_, _, _)
(* The fields of a type with those of its ancestors: a field redeclared    *)
(* replaces the inherited one; a missing parent or a cycle ends the chain. *)
Resolve(types, name, visited) ==
  LET raw == types[name] IN
  IF raw.extends \notin DOMAIN types \/ name \in visited THEN raw.fields
  ELSE raw.fields @@ Resolve(types, raw.extends, visited \cup {name})

Lookup(types, name) == Resolve(types, name, {})

RECURSIVE Ancestors(_, _, _)
Ancestors(types, name, visited) ==
  IF name \notin DOMAIN types \/ name \in visited THEN visited
  ELSE Ancestors(types, types[name].extends, visited \cup {name})

CircularExtension(types, child) ==
  child \in Ancestors(types, types[child].extends, {})

(* The child is compared with what its parent itself declares.             *)
IncompatibleExtensionIn(mine, parents) ==
  \E f \in DOMAIN mine \cap DOMAIN parents : mine[f] # parents[f]

ParentFields(types, name) == types[types[name].extends].fields

ExtensionIssues(types, name) ==
  IF types[name].extends = None THEN {}
  ELSE IF types[name].extends \notin DOMAIN types THEN {"UnknownExtendedType"}
  ELSE (IF CircularExtension(types, name) THEN {"CircularExtension"} ELSE {})
         \cup (IF IncompatibleExtensionIn(types[name].fields, ParentFields(types, name))
               THEN {"IncompatibleExtension"} ELSE {})

FieldTypeIssues(types, ty) ==
  IF ty.to # None /\ ty.to \notin DOMAIN types THEN {"UnknownType"} ELSE {}

(* Of the types in its catalog, those the file declares itself are checked;*)
(* what other files share and the hub's are taken as they are.             *)
TypeIssues(f) ==
  UNION {ExtensionIssues(f.types, name)
           \cup UNION {FieldTypeIssues(f.types, f.types[name].fields[field].ty) :
                         field \in DOMAIN f.types[name].fields} : name \in f.own}
    \cup UNION {FieldTypeIssues(f.types, f.inputs[i].ty) : i \in DOMAIN f.inputs}

-------------------------------------------------------------------------------
(* Names.                                                                  *)

RECURSIVE Within(_)
(* The statements of a body, at any depth.                                 *)
Within(body) ==
  Range(body) \cup UNION {Within(s.body) : s \in {t \in Range(body) : t.op = "for"}}

(* The names that steps, groups and loops of a body bind.                  *)
Bindings(body) ==
  UNION {CASE s.op = "step" -> {s.name} \cup s.groups
           [] s.op = "for" -> {s.var}
           [] s.op = "emit" -> {} : s \in Within(body)}

Captures(f) == f.captures \o f.document

(* known_vars: bound somewhere in the file, wherever that is.              *)
KnownVars(f) ==
  Bindings(f.body) \cup f.primed \cup {"page"}
    \cup UNION {{c.var} \cup Bindings(c.body) : c \in Range(Captures(f))}

Names(decls) == {d.name : d \in Range(decls)}
HasDuplicates(names) == ~IsInjective(names)

(* The arity is that of the first function of the name, the body that runs *)
(* is the last one's.                                                      *)
FirstFn(f, name) == f.fns[Min({i \in DOMAIN f.fns : f.fns[i].name = name})]
LastFn(f, name) == f.fns[Max({i \in DOMAIN f.fns : f.fns[i].name = name})]

CallArityOfArgs(e) == Len(e.args)
CallArity(e) == Len(e.head) + Len(e.args)

CallSiteIssues(f, e) ==
  IF e.name \in Names(f.fns)
  THEN IF Len(FirstFn(f, e.name).params) = CallArity(e) THEN {} ELSE {"WrongArity"}
  ELSE IF e.name \in BuiltinTransforms THEN {} ELSE {"UnknownTransform"}

(* `names` are the variables an expression may read.                       *)
PathIssues(f, names, e) ==
  CASE e.op = "secret" -> IF e.name \in f.secrets THEN {} ELSE {"UnknownSecret"}
    [] e.op = "input" -> IF e.name \in Names(f.inputs) THEN {} ELSE {"UnknownInput"}
    [] e.op = "var" -> IF e.name \in names THEN {} ELSE {"UnknownVariable"}

RECURSIVE ExtractionIssues(_, _, _)
ExtractionIssues(f, names, e) ==
  LET All(es) == UNION {ExtractionIssues(f, names, x) : x \in Range(es)} IN
  CASE e.op \in {"literal", "current"} -> {}
    [] e.op \in {"secret", "input", "var"} -> PathIssues(f, names, e)
    [] e.op \in {"field", "item", "items"} -> ExtractionIssues(f, names, e.base)
    [] e.op = "call" -> All(e.head) \cup CallSiteIssues(f, e) \cup All(e.args)
    [] e.op = "case" -> ExtractionIssues(f, names, e.on) \cup All(e.arms)
    [] e.op \in {"template", "operator", "index"} -> All(e.of)
    [] e.op = "struct" ->
         All([i \in DOMAIN e.of |-> e.of[i].expr])
           \cup (IF HasDuplicates([i \in DOMAIN e.of |-> e.of[i].field])
                 THEN {"DuplicateStructField"} ELSE {})

(* A template and a request body are the expressions they hold.            *)
ReadIssues(f, names, es) == UNION {ExtractionIssues(f, names, e) : e \in Range(es)}

-------------------------------------------------------------------------------
(* Functions, statements and the file.                                     *)

LetIssues(fn) ==
  LET lets == [i \in DOMAIN fn.lets |-> fn.lets[i].name] IN
  (IF Range(lets) \cap Range(fn.params) # {} THEN {"LetShadowsParam"} ELSE {})
    \cup (IF HasDuplicates(lets) THEN {"DuplicateLetBinding"} ELSE {})

(* A body reads its parameters, and the bindings before, nothing else.     *)
FnIssues(f, fn) ==
  LET Before(i) == Range(fn.params) \cup {fn.lets[j].name : j \in 1..(i - 1)} IN
  (IF HasDuplicates(fn.params) THEN {"DuplicateParam"} ELSE {})
    \cup (IF "page" \in Range(fn.params) THEN {"ReservedParam"} ELSE {})
    \cup LetIssues(fn)
    \cup UNION {ExtractionIssues(f, Before(i), fn.lets[i].value) : i \in DOMAIN fn.lets}
    \cup ExtractionIssues(f, Before(Len(fn.lets) + 1), fn.result)

(* What a Ref field is bound to must be a variable of the right type that  *)
(* an emit has bound.                                                      *)
RefIssuesOfBound(target, e, refs) ==
  IF e.op = "var" /\ e.name \in DOMAIN refs THEN {} ELSE {"RefTypeMismatch"}

RefIssues(target, e, refs) ==
  IF e.op = "var" /\ e.name \in DOMAIN refs /\ refs[e.name] = target THEN {}
  ELSE {"RefTypeMismatch"}

EmitIssues(f, em, refs) ==
  IF em.type \notin DOMAIN f.types THEN {"UnknownType"}
  ELSE
    LET fields == Lookup(f.types, em.type)
        bound == {b.field : b \in Range(em.bindings)}
        Missing(field) ==
          IF fields[field].ty.kind = "ref" THEN {"MissingRefAssignment"}
          ELSE IF ~fields[field].optional THEN {"MissingRequiredField"} ELSE {}
        Target(b) ==
          IF b.field \notin DOMAIN fields THEN {"UnknownField"}
          ELSE IF fields[b.field].ty.kind = "ref"
               THEN RefIssues(fields[b.field].ty.to, b.expr, refs) ELSE {}
    IN (IF f.emits \notin {{}, {None}} /\ em.type \notin f.emits THEN {"EmitNotInEmits"} ELSE {})
         \cup UNION {Missing(field) : field \in DOMAIN fields \ bound}
         \cup UNION {Target(b) \cup ExtractionIssues(f, KnownVars(f) \cup DOMAIN refs, b.expr) :
                       b \in Range(em.bindings)}

(* A check of statements carries the `as` bindings in scope along with the *)
(* issues.                                                                 *)
Found(acc, issues) == [acc EXCEPT !.issues = @ \cup issues]

BindAs(f, acc, em) ==
  IF em.as = None THEN acc
  ELSE IF em.as \in DOMAIN acc.refs \cup KnownVars(f) THEN Found(acc, {"DuplicateBinding"})
  ELSE [acc EXCEPT !.refs = (em.as :> em.type) @@ @]

(* After a loop its own bindings are out of scope again.                   *)
LeaveLoop(before, inside) == [inside EXCEPT !.refs = before.refs]

RECURSIVE CheckStatements(_, _, _)
CheckStatements(f, acc, body) ==
  LET Read(a, es) ==
        Found(a, ReadIssues(f, KnownVars(f) \cup DOMAIN a.refs, es))
      Loop(a, s) ==
        Found(Read(a, <<s.over>>), IF s.var \in DOMAIN a.refs THEN {"DuplicateBinding"} ELSE {})
      Check(a, s) ==
        CASE s.op = "step" -> Read(a, s.reads)
          [] s.op = "emit" -> BindAs(f, Found(a, EmitIssues(f, s, a.refs)), s)
          [] s.op = "for" -> LeaveLoop(a, CheckStatements(f, Loop(a, s), s.body))
  IN FoldLeft(Check, acc, body)

(* The `as` bindings of the statements, and of one capture, are in scope   *)
(* in the captures that follow.                                            *)
ReferenceIssues(f) ==
  LET CheckCapture(acc, c) ==
        CheckStatements(f, Found(acc, ExtractionIssues(f, KnownVars(f) \cup DOMAIN acc.refs, c.over)),
                        c.body)
  IN FoldLeft(CheckCapture, CheckStatements(f, [issues |-> {}, refs |-> <<>>], f.body),
              Captures(f)).issues

(* Without a recipe header there is nothing to run.                        *)
ContextIssues(f) ==
  IF Len(f.headers) > 1 THEN {"DuplicateRecipeHeader"}
  ELSE IF f.headers # <<>> THEN {}
  ELSE (IF f.body # <<>> \/ f.browser \/ f.secrets # {} \/ f.inputs # <<>> \/ f.auth # None
        THEN {"RecipeContextWithoutHeader"} ELSE {})
         \cup (IF f.emits # {None} THEN {"EmitsWithoutHeader"} ELSE {})

EngineIssues(f) ==
  IF f.headers = <<>> THEN {}
  ELSE (IF f.headers[1] = "http" /\ f.browser THEN {"UnexpectedBrowserConfig"} ELSE {})
         \cup (IF f.headers[1] = "browser" /\ ~f.browser THEN {"MissingBrowserConfig"} ELSE {})
         \cup (IF f.auth # None /\ ~\E s \in Range(f.body) : s.op = "step" /\ s.name = f.auth
               THEN {"MissingAuthStep"} ELSE {})

(* emits is {None} when the file has no such clause.                       *)
EmitsIssues(f) ==
  IF f.headers = <<>> \/ f.emits = {None} THEN {}
  ELSE IF f.emits = {} THEN {"EmptyEmits"}
  ELSE IF f.emits \subseteq DOMAIN f.types THEN {} ELSE {"UnknownType"}

Issues(f) ==
  ContextIssues(f) \cup EngineIssues(f) \cup TypeIssues(f) \cup EmitsIssues(f)
    \cup (IF HasDuplicates([i \in DOMAIN f.inputs |-> f.inputs[i].name])
          THEN {"DuplicateInput"} ELSE {})
    \cup (IF HasDuplicates([i \in DOMAIN f.fns |-> f.fns[i].name]) THEN {"DuplicateFn"} ELSE {})
    \cup UNION {FnIssues(f, fn) : fn \in Range(f.fns)}
    \cup ReferenceIssues(f)

-------------------------------------------------------------------------------
(* Evaluation.                                                             *)

(* Frames are searched from the innermost.                                 *)
Holding(frames, name) == {i \in DOMAIN frames : name \in DOMAIN frames[i]}
Bound(frames, name) == frames[Max(Holding(frames, name))][name]

Bind(frames, name, value) == [frames EXCEPT ![Len(frames)] = (name :> value) @@ @]

(* A loop opens a frame for each item, which is `$` there, until a step's  *)
(* answer is.                                                              *)
Current == "$"
Frame(name, item) == (name :> item) @@ (Current :> item)
CurrentIn(frames) == IF Holding(frames, Current) = {} THEN Null ELSE Bound(frames, Current)

(* The heads of paths.  An input that is missing is null to a `?.` path.   *)
PathOutcomes(e, env) ==
  CASE e.op = "secret" ->
         IF e.name \in given THEN {Ok(Scalar)} ELSE {Fails("UndefinedSecret", e.name)}
    [] e.op = "input" ->
         IF e.name \in given THEN {Ok(Scalar), Ok(List)}
         ELSE IF e.optional THEN {Ok(Null)} ELSE {Fails("UndefinedInput", e.name)}
    [] e.op = "var" ->
         IF Holding(env.scope, e.name) = {}
         THEN {Fails(IF env.calls = 0 THEN "UndefinedVariable" ELSE "UndefinedInFunction", e.name)}
         ELSE {Ok(Bound(env.scope, e.name))}

(* What an expression may come to: `env` is the scope it is read in, the   *)
(* depth of calls, and whether the network is at hand.                     *)
RECURSIVE Outcomes(_, _)

(* Expressions one after the other, up to the first that fails.            *)
InOrder(es, env) ==
  LET Step(soFar, e) ==
        {r \in soFar : r.error # None}
          \cup {[error |-> o.error, name |-> o.name, values |-> Append(r.values, o.value)] :
                  r \in {x \in soFar : x.error = None}, o \in Outcomes(e, env)}
  IN FoldLeft(Step, {[error |-> None, name |-> None, values |-> <<>>]}, es)

(* A function sees its parameters, the inputs and the secrets: neither the *)
(* variables nor the `$` of its caller.                                    *)
ChildScope(fn, args) ==
  <<[p \in Range(fn.params) |-> args[Max({i \in DOMAIN args : fn.params[i] = p})]]>>

Apply(fn, args, env) ==
  LET start == ChildScope(fn, args)
      Inner(frames) == [env EXCEPT !.scope = frames, !.calls = @ + 1]
      Let(soFar, b) ==
        {r \in soFar : r.error # None}
          \cup UNION {{[error |-> o.error, name |-> o.name, scope |-> Bind(r.scope, b.name, o.value)] :
                         o \in Outcomes(b.value, Inner(r.scope))} :
                       r \in {x \in soFar : x.error = None}}
  IN UNION {IF r.error # None THEN {Fails(r.error, r.name)}
            ELSE Outcomes(fn.result, Inner(r.scope)) :
              r \in FoldLeft(Let, {[error |-> None, name |-> None, scope |-> start]}, fn.lets)}

(* A transform called by name alone has for its head the item of the loop. *)
Transformed(name, args, piped, env) ==
  IF name \notin Registry THEN {Fails("UnknownTransform", name)}
  ELSE IF piped THEN Applied(name, Head(args), Tail(args))
  ELSE Applied(name, CurrentIn(env.scope), args)

(* Those of the network only the asynchronous evaluator can call.          *)
TransformedHere(name, args, piped, env) ==
  IF name \in AsyncTransforms THEN {Fails("TransformRequiresTransport", name)}
  ELSE Transformed(name, args, piped, env)

Call(name, args, piped, env) ==
  IF name \in Names(file.fns)
  THEN LET fn == LastFn(file, name) IN
       IF Len(args) # Len(fn.params) THEN {Fails("FnArityMismatch", name)}
       ELSE IF env.calls = MaxCalls THEN {Fails("StackOverflow", name)}
       ELSE Apply(fn, args, env)
  ELSE IF env.network THEN Transformed(name, args, piped, env)
  ELSE TransformedHere(name, args, piped, env)

Outcomes(e, env) ==
  LET Then(es, Next(_)) ==
        UNION {IF r.error = None THEN Next(r.values) ELSE {Fails(r.error, r.name)} :
                 r \in InOrder(es, env)}
  IN CASE e.op = "literal" -> Gives({Scalar})
       [] e.op = "current" -> Gives({CurrentIn(env.scope)})
       [] e.op \in {"secret", "input", "var"} -> PathOutcomes(e, env)
       [] e.op = "field" -> Then(<<e.base>>, LAMBDA v : FieldOf(v[1]))
       [] e.op = "item" -> Then(<<e.base>>, LAMBDA v : ItemOf(v[1]))
       [] e.op = "items" -> Then(<<e.base>>, LAMBDA v : ItemsOf(v[1]))
       [] e.op = "template" -> Then(e.of, Rendered)
       [] e.op = "operator" -> Then(e.of, Operated)
       [] e.op = "index" -> Then(e.of, LAMBDA v : Indexed(v[1], v[2]))
       [] e.op = "struct" ->
            IF HasDuplicates([i \in DOMAIN e.of |-> e.of[i].field])
            THEN {Fails("DuplicateStructField", None)}
            ELSE Then([i \in DOMAIN e.of |-> e.of[i].expr], LAMBDA v : Gives({Scalar}))
       [] e.op = "call" ->
            Then(e.head \o e.args, LAMBDA v : Call(e.name, v, e.head # <<>>, env))
       [] e.op = "case" ->
            Then(<<e.on>>, LAMBDA v :
              UNION {Outcomes(arm, env) : arm \in Range(e.arms)}
                \cup (IF e.default THEN {} ELSE {Fails("CaseNoMatch", None)}))

-------------------------------------------------------------------------------
(* Runs.                                                                   *)

Http == file.headers[1] = "http"
Env(network) == [scope |-> scope, calls |-> 0, network |-> network]

Idle == [op |-> "written"]

Init ==
  /\ file \in Files
  /\ given \in SUBSET (Names(file.inputs) \cup file.secrets)
  /\ todo = <<Idle>>
  /\ scope = <<<<>>>>
  /\ records = <<>>
  /\ phase = "written" /\ failure = [error |-> None, name |-> None]

(* A file with errors is not run.  The HTTP engine has `$page` in scope    *)
(* from the start; the replay runs the rules for captures after the body.  *)
Validate ==
  /\ phase = "written"
  /\ phase' = IF file.headers = <<>> \/ Issues(file) # {} THEN "rejected" ELSE "running"
  /\ todo' = file.body
               \o (IF file.browser
                   THEN [i \in DOMAIN Captures(file) |->
                          [op |-> "capture", rule |-> Captures(file)[i],
                           left |-> IF i <= Len(file.captures) THEN MaxItems ELSE 1]]
                   ELSE <<>>)
  /\ scope' = IF file.headers # <<>> /\ Http THEN Bind(scope, "page", Scalar) ELSE scope
  /\ UNCHANGED <<file, given, records, failure>>

Runs(op) == phase = "running" /\ todo # <<>> /\ Head(todo).op = op
Fail(error, name) ==
  /\ phase' = "failed" /\ failure' = [error |-> error, name |-> name]
  /\ UNCHANGED <<file, given, todo, scope, records>>

(* The replay passes over steps.                                           *)
PassStep ==
  /\ Runs("step") /\ ~Http
  /\ todo' = Tail(todo)
  /\ UNCHANGED <<file, given, scope, records, phase, failure>>

(* A body is JSON if it can be read so, else a string, and null if empty.  *)
ParsedBody == Answers

Received(frames, name, answer) == Bind(Bind(frames, name, answer), Current, answer)

(* A pattern that does not match binds nothing; a group in it that does    *)
(* not take part is null.                                                  *)
Extracted(frames, groups) ==
  {frames} \cup {[frames EXCEPT ![Len(frames)] = found @@ @] : found \in [groups -> {Scalar, Null}]}

(* The items of the pages are one list.                                    *)
Accumulated(frames, s) == IF s.paging = <<>> THEN frames ELSE Received(frames, s.name, List)

(* A step renders its templates without the network transforms, sends its  *)
(* requests, and binds the answer, and the groups if its pattern matches;  *)
(* the paths of its pagination are read in that scope.                     *)
Step ==
  /\ Runs("step") /\ Http
  /\ LET s == Head(todo)
         paged == [Env(FALSE) EXCEPT !.scope = Bind(scope, "page", Scalar)]
     IN \E r \in InOrder(s.reads, paged) :
          \/ r.error # None /\ Fail(r.error, r.name)
          \/ r.error = None /\ Fail("Other", s.name)
          \/ /\ r.error = None
             /\ \E answer \in ParsedBody :
                \E frames \in Extracted(Received(paged.scope, s.name, answer), s.groups) :
                \E page \in InOrder(s.paging, [paged EXCEPT !.scope = frames]) :
                  \/ page.error # None /\ Fail(page.error, page.name)
                  \/ /\ page.error = None
                     /\ scope' = Accumulated(frames, s) /\ todo' = Tail(todo)
                     /\ UNCHANGED <<file, given, records, phase, failure>>

(* Of two bindings of one field the last counts.                           *)
RecordOf(em, values) ==
  [type |-> em.type,
   fields |-> [name \in {b.field : b \in Range(em.bindings)} |->
                values[Max({i \in DOMAIN em.bindings : em.bindings[i].field = name})]]]

(* run_emit: the fields first, then the id, the `as` binding and the       *)
(* record.                                                                 *)
Emit ==
  /\ Runs("emit")
  /\ LET em == Head(todo)
         id == Len(records) + 1
     IN \E r \in InOrder([i \in DOMAIN em.bindings |-> em.bindings[i].expr], Env(Http)) :
          \/ r.error # None /\ Fail(r.error, r.name)
          \/ /\ r.error = None
             /\ records' = Append(records, RecordOf(em, r.values))
             /\ scope' = IF em.as = None THEN scope
                         ELSE Bind(scope, em.as, RefTo(em.type, id))
             /\ todo' = Tail(todo)
             /\ UNCHANGED <<file, given, phase, failure>>

(* The loop over a value, with `left` items to go.                         *)
Items(var, body, value, left) ==
  [op |-> "items", var |-> var, body |-> body, value |-> value, left |-> left]

Members(value) == IF value = List THEN Answers ELSE {value}

(* A list has its items, null has none, anything else is one item.         *)
SizesOf(value) ==
  CASE value.kind = "list" -> 0..MaxItems [] value.kind = "null" -> {0} [] OTHER -> {1}

EnterLoop ==
  /\ Runs("for")
  /\ LET s == Head(todo) IN
     \E o \in Outcomes(s.over, Env(Http)) :
       \/ o.error # None /\ Fail(o.error, o.name)
       \/ /\ o.error = None
          /\ \E n \in SizesOf(o.value) : todo' = <<Items(s.var, s.body, o.value, n)>> \o Tail(todo)
          /\ UNCHANGED <<file, given, scope, records, phase, failure>>

LeaveFrame == <<[op |-> "leave"]>>

Iterate ==
  /\ Runs("items")
  /\ LET loop == Head(todo) IN
     IF loop.left = 0 THEN todo' = Tail(todo) /\ UNCHANGED scope
     ELSE /\ todo' = loop.body \o LeaveFrame \o <<[loop EXCEPT !.left = @ - 1]>> \o Tail(todo)
          /\ \E item \in Members(loop.value) : scope' = Append(scope, Frame(loop.var, item))
  /\ UNCHANGED <<file, given, records, phase, failure>>

Leave ==
  /\ Runs("leave")
  /\ todo' = Tail(todo) /\ scope' = Front(scope)
  /\ UNCHANGED <<file, given, records, phase, failure>>

(* Each captured exchange that a rule matches is run over in a frame of    *)
(* its own: its body, or the document's node.                              *)
BodyOf(rule) == IF rule \in Range(file.captures) THEN ParsedBody ELSE {Scalar}

Capture ==
  /\ Runs("capture")
  /\ LET c == Head(todo)
         again == IF c.left = 0 THEN <<>> ELSE <<[c EXCEPT !.left = @ - 1]>>
     IN \/ /\ todo' = Tail(todo)
          /\ UNCHANGED <<file, given, scope, records, phase, failure>>
        \/ /\ c.left > 0
          /\ \E body \in BodyOf(c.rule) :
             LET frames == Append(scope, Frame(c.rule.var, body)) IN
             \E o \in Outcomes(c.rule.over, [Env(FALSE) EXCEPT !.scope = frames]) :
               \/ o.error # None /\ Fail(o.error, o.name)
               \/ /\ o.error = None
                  /\ \E n \in SizesOf(o.value) :
                       todo' = <<Items(c.rule.var, c.rule.body, o.value, n)>> \o LeaveFrame
                                 \o again \o Tail(todo)
                  /\ scope' = frames
                  /\ UNCHANGED <<file, given, records, phase, failure>>

Finish ==
  /\ phase = "running" /\ todo = <<>>
  /\ phase' = "done"
  /\ UNCHANGED <<file, given, todo, scope, records, failure>>

Next ==
  \/ Validate \/ PassStep \/ Step \/ Emit \/ EnterLoop \/ Iterate \/ Leave
  \/ Capture \/ Finish

Spec == Init /\ [][Next]_vars
-------------------------------------------------------------------------------
(* What a file that passed the validator can rely on.                      *)

(* emit_types: the types of the emits of a file.                           *)
Emits(body) == {s \in Within(body) : s.op = "emit"}
EmitTypesOf(body) == {em.type : em \in Emits(body)}

EmitTypesOfBody(f) == EmitTypesOf(f.body)
EmitTypes(f) == EmitTypesOf(f.body) \cup UNION {EmitTypesOf(c.body) : c \in Range(Captures(f))}

(* The signature that pickers, compositions and the hub go by.             *)
ResolvedOutputTypes(f) == IF f.emits = {None} THEN EmitTypes(f) ELSE f.emits

(* Every Ref of the snapshot is to an earlier record, of the type that the *)
(* field declares: loops, captures and names used again in other scopes do *)
(* not let another value, or a record of another type, into the field      *)
(* (check_ref_expr, "must evaluate to a Ref<T> value").                    *)
RefsResolve ==
  \A i \in DOMAIN records :
    LET fields == Lookup(file.types, records[i].type) IN
    \A f \in DOMAIN records[i].fields : fields[f].ty.kind = "ref" =>
      LET ref == records[i].fields[f] IN
      /\ ref.kind = "ref" /\ ref.type = fields[f].ty.to
      /\ ref.id \in 1..(i - 1) /\ records[ref.id].type = ref.type

(* A redeclaration that the validator does not compare with what it        *)
(* overrides: of a field that the parent inherits itself, or by a type of  *)
(* another file.                                                           *)
RedeclaresUnchecked(f, name, field) ==
  LET parent == f.types[name].extends IN
  /\ field \in DOMAIN f.types[name].fields
  /\ parent \in DOMAIN f.types /\ field \in DOMAIN Lookup(f.types, parent)
  /\ name \in f.own => field \notin DOMAIN f.types[parent].fields

(* What a type says of a field, all that extend it say too, if no type on  *)
(* the way redeclares it unchecked (check_extension_compatibility, "a child*)
(* can't loosen name: String to name: String?").                           *)
ShapesAreInherited(f) ==
  \A name \in DOMAIN f.types :
    LET chain == Ancestors(f.types, name, {}) IN
    \A up \in chain : \A field \in DOMAIN f.types[up].fields :
      (\A on \in chain : ~RedeclaresUnchecked(f, on, field))
        => Lookup(f.types, name)[field] = f.types[up].fields[field]

(* Every record is of a type that the signature of the recipe names, and   *)
(* has the fields of that type and its ancestors: the required ones all,   *)
(* Refs always, and no other (resolved_output_types: "the two projections  *)
(* must stay in lockstep"), imported types whose chains nobody checked     *)
(* included; and once a file is accepted, its own types have the shape of  *)
(* their ancestors.                                                        *)
RecordsConform ==
  /\ phase \notin {"written", "rejected"} => ShapesAreInherited(file)
  /\ \A i \in DOMAIN records :
    LET fields == Lookup(file.types, records[i].type)
        required == {f \in DOMAIN fields : fields[f].ty.kind = "ref" \/ ~fields[f].optional}
    IN  /\ records[i].type \in ResolvedOutputTypes(file)
        /\ required \subseteq DOMAIN records[i].fields
        /\ DOMAIN records[i].fields \subseteq DOMAIN fields

(* A run of an accepted file never meets a transform it does not know, a   *)
(* call of the wrong arity or a struct with a field twice; what it misses  *)
(* are inputs and secrets that it declares and was not given, and names    *)
(* that the file binds in some place the run is not in: a step or loop     *)
(* elsewhere, an unmatched group, an emit of an earlier capture.  The      *)
(* paths of a pagination are the exception: nothing checks them            *)
(* (collect_bindings, check_statement).                                    *)
PagingNames ==
  {e.name : e \in UNION {Range(s.paging) : s \in {t \in Within(file.body) : t.op = "step"}}}

CapturedNames == {em.as : em \in UNION {Emits(c.body) : c \in Range(Captures(file))}}

RunsAreClosed ==
  phase = "failed" =>
    LET n == failure.name IN
    CASE failure.error = "UndefinedVariable" ->
           n \in KnownVars(file) \cup CapturedNames \cup PagingNames
      [] failure.error = "UndefinedSecret" -> n \in (file.secrets \cup PagingNames) \ given
      [] failure.error = "UndefinedInput" -> n \in (Names(file.inputs) \cup PagingNames) \ given
      [] failure.error = "TransformRequiresTransport" -> n \in AsyncTransforms
      [] OTHER -> failure.error \in {"Other", "CaseNoMatch", "StackOverflow"}
===============================================================================
