------------------------------ MODULE MCLanguage -----------------------------
(***************************************************************************)
(* Small files for the validator and the engines, the reading of files,    *)
(* and files open in an editor.  A behaviour does one of the three: it     *)
(* runs one of the files, it reads tokens, or it edits.                    *)
(***************************************************************************)
EXTENDS Grammar, Documents, TLC

CONSTANTS None, MaxItems, MaxCalls

VARIABLES file, given, todo, scope, records, phase, failure

Values == INSTANCE Builtins

-------------------------------------------------------------------------------
(* Syntax.                                                                 *)

Literal == [op |-> "literal"]
Var(name) == [op |-> "var", name |-> name]
Input(name, optional) == [op |-> "input", name |-> name, optional |-> optional]
Secret(name) == [op |-> "secret", name |-> name]
Dollar == [op |-> "current"]
FieldOf(base) == [op |-> "field", base |-> base]
Part(op, base) == [op |-> op, base |-> base]
Invoke(name, head, args) == [op |-> "call", name |-> name, head |-> head, args |-> args]
Operator(of) == [op |-> "operator", of |-> of]
At(base, index) == [op |-> "index", of |-> <<base, index>>]
Template(of) == [op |-> "template", of |-> of]
Struct(fields, expr) == [op |-> "struct", of |-> [i \in DOMAIN fields |-> [field |-> fields[i], expr |-> expr]]]
CaseOf(on, arms, default) == [op |-> "case", on |-> on, arms |-> arms, default |-> default]

StepOf(name, reads, groups, paging) ==
  [op |-> "step", name |-> name, reads |-> reads, groups |-> groups, paging |-> paging]
EmitOf(type, bindings, as) == [op |-> "emit", type |-> type, bindings |-> bindings, as |-> as]
For(var, over, body) == [op |-> "for", var |-> var, over |-> over, body |-> body]
To(field, expr) == <<[field |-> field, expr |-> expr]>>

Scalar(optional) == [ty |-> [kind |-> "scalar", to |-> None], optional |-> optional]
RefField(to, optional) == [ty |-> [kind |-> "ref", to |-> to], optional |-> optional]
Type(fields, extends) == [fields |-> fields, extends |-> extends]

Shop == [Shop |-> Type([name |-> Scalar(FALSE)], None),
         Item |-> Type([shop |-> RefField("Shop", TRUE), note |-> Scalar(TRUE)], None)]

Blank ==
  [headers |-> <<"http">>, types |-> Shop, own |-> DOMAIN Shop, inputs |-> <<>>, secrets |-> {}, fns |-> <<>>,
   emits |-> {None}, auth |-> None, primed |-> {}, body |-> <<>>, browser |-> FALSE,
   captures |-> <<>>, document |-> <<>>]
Browsing == [Blank EXCEPT !.headers = <<"browser">>, !.browser = TRUE]

-------------------------------------------------------------------------------
(* Statements over each other's names.                                     *)

EmitShop(as) == EmitOf("Shop", To("name", Literal), as)
EmitItem(shop, as) == EmitOf("Item", To("shop", Var(shop)), as)
GetS == StepOf("s", <<>>, {}, <<>>)

InnerBodies == {<<EmitShop("p")>>, <<EmitShop("p"), EmitItem("p", None)>>, <<EmitItem("p", None)>>,
          <<EmitItem("p", "q"), EmitItem("q", None)>>, <<EmitShop("q"), EmitItem("q", None)>>,
          <<EmitOf("Shop", To("name", FieldOf(Var("x"))), None)>>}
Statements ==
  {GetS, EmitShop("p"), EmitShop("x"), EmitItem("p", "q"), EmitItem("q", None), EmitItem("x", None),
   EmitOf("Shop", To("name", Var("s")), None), EmitOf("Item", To("note", Literal), None)}
    \cup {For("x", Var("s"), body) : body \in InnerBodies}
    \cup {For("x", Var("s"), <<For("y", Var("x"), <<EmitShop("p"), EmitItem("p", None)>>)>>)}

Bodies == UNION {[1..n -> Statements] : n \in 1..2} \cup {<<GetS>> \o b : b \in [1..2 -> Statements]}

HttpFiles == {[Blank EXCEPT !.body = b] : b \in Bodies}

Rules == {[var |-> "c", over |-> Var("c"), body |-> b] : b \in InnerBodies}
BrowserFiles ==
  {[Browsing EXCEPT !.body = b, !.captures = <<r>> \o more, !.document = d] :
     b \in {<<>>, <<EmitShop("p")>>, <<GetS>>}, r \in Rules,
     more \in {<<>>} \cup {<<s>> : s \in Rules},
     d \in {<<>>, <<[var |-> "d", over |-> Var("page"), body |-> <<EmitItem("p", None)>>]>>}}

-------------------------------------------------------------------------------
(* Expressions and functions.                                              *)

Atoms == {Literal, Var("s"), Var("g"), Var("a"), Input("i", FALSE), Input("i", TRUE), Secret("k"),
          Input("z", FALSE), Secret("z")}
Calls(heads, args) ==
  {Invoke(name, h, a) : name \in {"f", "h", "trim", "wikidataEntity", "nope"}, h \in heads, a \in args}
Exprs ==
  Atoms \cup Calls({<<>>} \cup {<<e>> : e \in {Var("s"), Secret("k")}}, {<<>>, <<Literal>>, <<Var("s"), Var("g")>>})
    \cup {Operator(<<Literal, e>>) : e \in Atoms} \cup {Template(<<e>>) : e \in Atoms}
    \cup {Part(op, Var("s")) : op \in {"item", "items"}} \cup {At(Var("s"), e) : e \in {Literal, Var("g")}}
    \cup {Struct(<<"m", n>>, Literal) : n \in {"m", "n"}}
    \cup {CaseOf(Var("s"), <<e>>, d) : e \in Atoms, d \in BOOLEAN}

Fn(name, params, lets, result) == [name |-> name, params |-> params, lets |-> lets, result |-> result]
FnSets ==
  {<<>>} \cup
  {<<Fn("f", ps, ls, e)>> :
     ps \in {<<>>, <<"a">>, <<"a", "b">>, <<"a", "a">>, <<"page">>},
     ls \in {<<>>, <<[name |-> "b", value |-> Var("a")]>>, <<[name |-> "a", value |-> Literal]>>},
     e \in {Var("a"), Var("b"), Var("s"), Invoke("trim", <<Var("a")>>, <<>>),
            Invoke("f", <<Var("a")>>, <<>>), Input("i", FALSE), Secret("k")}} \cup
  {<<Fn("f", <<"a">>, <<>>, Invoke(g, <<Var("a")>>, <<>>)), Fn(h, <<"b">>, <<>>, Var("b"))>> :
     g, h \in {"f", "h"}}

Uses(e) ==
  {<<StepOf("s", <<e>>, {}, <<>>)>>,
   <<StepOf("s", <<>>, {"g"}, IF e \in Atoms \ {Literal} THEN <<e>> ELSE <<>>)>>,
   <<StepOf("s", <<>>, {"g"}, <<>>), EmitOf("Shop", To("name", e), None)>>,
   <<For("x", e, <<EmitShop(None)>>)>>}

WithDecls(f) == [f EXCEPT !.inputs = <<[name |-> "i", ty |-> [kind |-> "scalar", to |-> None]]>>, !.secrets = {"k"}]

ExprFiles ==
  UNION {{[WithDecls(Blank) EXCEPT !.body = b, !.fns = fns] : b \in Uses(e)} :
           e \in Exprs, fns \in {<<>>, <<Fn("f", <<"a">>, <<>>, Var("a"))>>}}
(* Every transform of the validator's list, piped and called, in a loop    *)
(* over an emitted record, a secret and what a step answered.              *)
BuiltinCalls ==
  {Invoke(name, h, a) : name \in Values!BuiltinTransforms, h \in {<<>>, <<Var("x")>>},
                        a \in {<<>>, <<Literal>>, <<Dollar, Literal>>}}
BuiltinFiles ==
  {[WithDecls(Blank) EXCEPT !.body =
      <<StepOf("s", <<>>, {}, <<>>), EmitShop("p"),
        For("x", over, <<EmitOf("Item", To("note", e), None)>>)>>] :
     over \in {Var("p"), Secret("k"), FieldOf(Var("s"))}, e \in BuiltinCalls}

FnFiles ==
  {[WithDecls(Blank) EXCEPT !.fns = fns, !.body = <<EmitOf("Shop", To("name", e), None)>>] :
     fns \in FnSets, e \in {Invoke("f", <<Literal>>, <<>>), Invoke("f", <<>>, <<Literal>>)}}

-------------------------------------------------------------------------------
(* Types, clauses and contexts.                                            *)

NoteField(optional) == {<<>>, [note |-> Scalar(optional)]}
Chains ==
  {[A |-> Type(a, x), B |-> Type(b, "A"), C |-> Type(c, "B")] :
     x \in {None, "C", "D"}, a \in {[note |-> Scalar(FALSE)], [note |-> Scalar(TRUE)]},
     b \in NoteField(TRUE) \cup NoteField(FALSE), c \in NoteField(TRUE) \cup NoteField(FALSE)}
TypeFiles ==
  {[Blank EXCEPT !.types = ts, !.own = own, !.body = <<EmitOf("C", bs, None)>>] :
     ts \in Chains, own \in SUBSET {"A", "B", "C"}, bs \in {<<>>, To("note", Literal), To("other", Literal)}}

ClauseFiles ==
  {[f EXCEPT !.headers = hs, !.emits = es, !.auth = au, !.browser = br] :
     f \in {[Blank EXCEPT !.body = <<GetS, EmitShop("p"), For("x", Var("s"), <<EmitItem("p", None)>>)>>],
            Blank},
     hs \in {<<>>, <<"http">>, <<"browser">>, <<"http", "http">>},
     es \in {{None}, {}, {"Shop"}, {"Shop", "Item"}, {"Shop", "Gone"}},
     au \in {None, "s", "t"}, br \in BOOLEAN}

MCFiles == HttpFiles \cup BrowserFiles \cup ExprFiles \cup BuiltinFiles \cup FnFiles \cup TypeFiles \cup ClauseFiles

-------------------------------------------------------------------------------

(* Files as other files see them: types by name, and one recipe.           *)

Source(recipe, shares, uses, stages) ==
  [parses |-> TRUE, recipe |-> recipe, shares |-> shares, private |-> {},
   uses |-> uses, stages |-> stages]
Malformed == [Source(NoFile, {}, {}, {}) EXCEPT !.parses = FALSE]
MCSources ==
  {Malformed, Source(NoFile, {"T"}, {}, {}), Source("r", {}, {"T"}, {}),
   Source("r", {"T"}, {"T"}, {}), Source(NoFile, {}, {}, {"r"})}

HandlerSymmetry == Permutations(Handlers)

-------------------------------------------------------------------------------

run == <<file, given, todo, scope, records, phase, failure>>

Running == INSTANCE Language WITH Files <- MCFiles

NoRun ==
  /\ file = Blank /\ given = {} /\ todo = <<>> /\ scope = <<>> /\ records = <<>>
  /\ phase = "rejected" /\ failure = [error |-> None, name |-> None]
NoTokens == stack = <<>> /\ slash = "/" /\ word = FALSE
NoEditor == DocInit /\ saved = [p \in Paths |-> NoFile]

MCInit ==
  \/ Running!Init /\ NoTokens /\ NoEditor
  \/ Init /\ NoRun /\ NoEditor
  \/ DocInit /\ NoRun /\ NoTokens

MCNext ==
  \/ Running!Next /\ UNCHANGED <<vars, docVars>>
  \/ Next /\ UNCHANGED <<run, docVars>>
  \/ DocNext /\ NoRun /\ NoTokens /\ UNCHANGED <<run, vars>>

MCSpec == MCInit /\ [][MCNext]_<<vars, run, docVars>>

(* The properties of Language.                                             *)
RefsResolve == Running!RefsResolve
RecordsConform == Running!RecordsConform
RunsAreClosed == Running!RunsAreClosed
===============================================================================
