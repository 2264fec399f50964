------------------------------- MODULE Builtins -------------------------------
(***************************************************************************)
(* Values by kind, and what the built-in transforms and the operators of   *)
(* the language make of them: the values that may come out, and whether    *)
(* they may fail.                                                          *)
(*                                                                         *)
(* A scalar is a string, a number, a boolean, an object, a node or a       *)
(* regex; a list is an array or a list of nodes.  A transform that takes   *)
(* only some of them, or only some texts, may fail on any.  What an object *)
(* or a list holds is open, but no Ref: a struct that keeps one is not     *)
(* followed.                                                               *)
(***************************************************************************)
EXTENDS Naturals, Sequences, FiniteSets

CONSTANT None

-------------------------------------------------------------------------------
(* Values and outcomes.                                                    *)

Plain(kind) == [kind |-> kind, type |-> None, id |-> 0]
RefTo(type, id) == [kind |-> "ref", type |-> type, id |-> id]

Scalar == Plain("scalar")
List == Plain("list")
Null == Plain("null")
Answers == {Scalar, List, Null}

Ok(value) == [error |-> None, name |-> None, value |-> value]
Fails(error, name) == [error |-> error, name |-> name, value |-> Null]

Bad == {Fails("Other", None)}
Gives(values) == {Ok(v) : v \in values}
May(values) == Gives(values) \cup Bad

-------------------------------------------------------------------------------
(* Paths and operators.                                                    *)

(* A field of a list is the list of the fields of its items.               *)
FieldOf(v) ==
  Gives(CASE v.kind = "scalar" -> Answers [] v.kind = "list" -> {List} [] OTHER -> {Null})

(* `[N]` of a path is null beyond the end, `[*]` of null is an empty list. *)
ItemOf(v) ==
  CASE v.kind = "list" -> Gives(Answers) [] v.kind = "null" -> Gives({Null}) [] OTHER -> Bad

ItemsOf(v) == IF v.kind \in {"list", "null"} THEN Gives({List}) ELSE Bad

(* Null and Refs are no numbers: an operator never makes something of a    *)
(* value that is missing.                                                  *)
Operated(values) ==
  IF \A i \in DOMAIN values : values[i] = Scalar THEN May({Scalar}) ELSE Bad

(* `[e]` of an expression is strict.                                       *)
Indexed(base, index) ==
  IF base = List /\ index = Scalar THEN May(Answers) ELSE Bad

(* A template is one string, whatever its parts are: null is empty, and    *)
(* lists, objects, Refs and regexes all have a text.                       *)
Rendered(values) == Gives({Scalar})

-------------------------------------------------------------------------------
(* Transforms: `v` is the head, `args` what is in the parentheses.         *)

(* require_string: null is the empty string.                               *)
Texts(vs, values) ==
  IF \E v \in vs : v.kind \notin {"scalar", "null"} THEN Bad
  ELSE IF vs \subseteq {Null} THEN Gives(values) ELSE May(values)

ArgTexts(v, args, n, values) ==
  IF Len(args) < n THEN Bad ELSE Texts({v} \cup {args[i] : i \in 1..n}, values)

Cased(v) == Texts({v}, {Scalar})

ParsedNumber(v) ==
  CASE v.kind = "scalar" -> May({Scalar}) [] v.kind = "null" -> Gives({Null}) [] OTHER -> Bad

Length(v) ==
  CASE v.kind = "scalar" -> May({Scalar})
    [] v.kind \in {"list", "null"} -> Gives({Scalar})
    [] OTHER -> Bad

Dedup(v) == IF v = List THEN Gives({List}) ELSE Bad

FirstOf(v) ==
  CASE v.kind = "list" -> Gives(Answers)
    [] v.kind = "scalar" -> May({Scalar})
    [] v.kind = "null" -> Gives({Null})
    [] OTHER -> Bad

(* These two hand a Ref on.                                                *)
Coalesce(v, args) ==
  LET all == <<v>> \o args
      set == {i \in DOMAIN all : all[i] # Null}
  IN IF set = {} THEN Gives({Null})
     ELSE Gives({all[CHOOSE i \in set : \A j \in set : i <= j]})

Default(v, args) ==
  IF v # Null THEN Gives({v}) ELSE IF args = <<>> THEN Bad ELSE Gives({args[1]})

(* match, matches and replaceAll: the first argument is a regex.           *)
RegexApplied(v, args, texts) ==
  IF Len(args) <= texts \/ args[1] # Scalar THEN Bad
  ELSE Texts({v} \cup {args[i + 1] : i \in 1..texts}, {Scalar}) \cup Bad

Replace(v, args) == ArgTexts(v, args, 2, {Scalar})

Split(v, args) == ArgTexts(v, args, 1, {List})

(* Of what is no object, every field is null.                              *)
GetField(v, args) == ArgTexts(Null, args, 1, IF v = Scalar THEN Answers ELSE {Null})

(* The empty string is no JSON.                                            *)
ParseJson(v) == IF v = Scalar THEN May(Answers) ELSE Bad

Select(v, args) ==
  IF v.kind \notin {"scalar", "list"} THEN Bad ELSE ArgTexts(Scalar, args, 1, {List})

Text(v) ==
  CASE v.kind \in {"scalar", "list"} -> May({Scalar})
    [] v.kind = "null" -> Gives({Null})
    [] OTHER -> Bad

Attr(v, args) ==
  IF v.kind = "ref" THEN Bad
  ELSE ArgTexts(IF v = Null THEN Null ELSE Scalar, args, 1,
                CASE v.kind = "scalar" -> {Scalar, Null} [] OTHER -> {v})

(* What is no node passes through.                                         *)
Html(v) == Gives({v})

InnerHtml(v) ==
  CASE v.kind = "scalar" -> May({Scalar}) [] v.kind = "null" -> Gives({Null}) [] OTHER -> Bad

(* The id is the argument, or else the head; the entity is fetched and     *)
(* flattened to an object.                                                 *)
WikidataEntity(v, args) ==
  IF (IF args = <<>> THEN v ELSE args[1]) = Scalar THEN May({Scalar}) ELSE Bad

-------------------------------------------------------------------------------
(* The registry, by what its entries do, and the list that the validator   *)
(* keeps of it.                                                            *)

Casing == {"toString", "lower", "upper", "trim", "capitalize", "titleCase",
           "lowercase", "uppercase", "parseHtml"}
Numbers == {"parseInt", "parseFloat", "parseBool"}
SyncTransforms ==
  Casing \cup Numbers
    \cup {"replace", "split", "match", "matches", "replaceAll", "length", "dedup", "first",
          "coalesce", "default", "getField", "parseJson", "select", "text", "attr", "html",
          "innerHtml"}
AsyncTransforms == {"wikidataEntity"}
Registry == SyncTransforms \cup AsyncTransforms

BuiltinTransforms ==
  {"toString", "lower", "upper", "trim", "capitalize", "titleCase", "lowercase", "uppercase",
   "replace", "split", "match", "matches", "replaceAll", "parseInt", "parseFloat", "parseBool",
   "length", "dedup", "first", "coalesce", "default", "getField", "parseHtml", "parseJson",
   "select", "text", "attr", "html", "innerHtml", "wikidataEntity"}

Applied(name, v, args) ==
  CASE name \in Casing -> Cased(v)
    [] name \in Numbers -> ParsedNumber(v)
    [] name \in {"match", "matches"} -> RegexApplied(v, args, 0)
    [] name = "replaceAll" -> RegexApplied(v, args, 1)
    [] name = "replace" -> Replace(v, args)
    [] name = "split" -> Split(v, args)
    [] name = "length" -> Length(v)
    [] name = "dedup" -> Dedup(v)
    [] name = "first" -> FirstOf(v)
    [] name = "coalesce" -> Coalesce(v, args)
    [] name = "default" -> Default(v, args)
    [] name = "getField" -> GetField(v, args)
    [] name = "parseJson" -> ParseJson(v)
    [] name = "select" -> Select(v, args)
    [] name = "text" -> Text(v)
    [] name = "attr" -> Attr(v, args)
    [] name = "html" -> Html(v)
    [] name = "innerHtml" -> InnerHtml(v)
    [] name = "wikidataEntity" -> WikidataEntity(v, args)
===============================================================================
