-------------------------------- MODULE Grammar --------------------------------
(***************************************************************************)
(* The reader of .forage files: the lexer as far as it looks at what came  *)
(* before a token, and the recursive-descent parser as a stack of what is  *)
(* still to be read.  A parser method is the sequence of items it reads;   *)
(* an item is a token of some set, an optional part, a loop, or a choice,  *)
(* each decided by the next token alone, as the methods do with `peek`.    *)
(*                                                                         *)
(* Trees are not built and texts are not kept: a token is its kind, or the *)
(* word of a keyword.  Errors about the text of one token (regex flags, a  *)
(* version marker, an unknown cookie format) are left out, and so is an    *)
(* index after a call in parentheses.                                      *)
(***************************************************************************)
EXTENDS Naturals, Sequences, FiniteSetsExt, Functions

CONSTANTS
  MaxOpen,  \* bound on the parts and closing brackets still to be read
  MaxForms  \* and on the forms of a file that are remembered

VARIABLES
  stack, \* what is still to be read, the next item first
  slash, \* what the lexer makes of a `/` at this place
  word   \* whether the token before is a reserved word

-------------------------------------------------------------------------------
(* Tokens.                                                                 *)

(* KEYWORDS; true, false and null are lexed as literals.                   *)
Reserved == {
  "recipe", "engine", "http", "browser", "share", "type", "enum", "fn", "input", "emits",
  "aligns", "extends", "step", "method", "url", "headers", "body", "json", "form", "raw",
  "parse", "html", "xml", "text", "auth", "staticHeader", "htmlPrime", "extract", "regex",
  "groups", "paginate", "pageWithTotal", "untilEmpty", "cursor", "items", "total",
  "pageParam", "pageSize", "cursorPath", "cursorParam", "for", "in", "emit", "compose",
  "case", "of", "let", "where", "expect", "observe", "browserPaginate", "scroll", "replay",
  "ageGate", "autoFill", "warmupClicks", "navigate", "until", "noProgressFor",
  "maxIterations", "iterationDelay", "seedFilter", "replayOverride", "captures", "match",
  "dismissals", "dob", "reloadAfter", "reloadAfterSubmit", "name", "value", "stepName",
  "nonceVar", "ajaxUrlVar", "pageZeroIndexed", "records", "count", "typeName",
  "initialURL", "loadMoreLabels", "extraLabels", "captureExtractions", "iterPath",
  "urlPattern", "withCookies", "as", "String", "Int", "Double", "Bool", "Ref", "secret",
  "session", "formLogin", "bearerLogin", "cookiePersist", "captureCookies",
  "maxReauthRetries", "cache", "cacheEncrypted", "requiresMFA", "mfaFieldName",
  "tokenPath", "headerName", "headerPrefix", "sourcePath", "format", "interactive",
  "bootstrapURL", "cookieDomains", "sessionExpiredPattern", "document"}

(* Identifiers; the word "pattern" is one that a method looks for.         *)
Idents == {"#ident", "pattern"}
Literals == {"#str", "#int", "#float", "#bool", "#null"}
Heads == {"$", "$input", "$secret", "$var"}
Tokens ==
  Reserved \cup Idents \cup Literals \cup Heads
    \cup {"#type", "#date", "#regex", "{", "}", "(", ")", "[", "]", ",", ";", ":", ".",
          "?", "?.", "[*]", "|", "@", "<-", "->", "=", ">", "<", "!", "+", "-", "*", "/", "%"}

EndOfFile == "#eof"

(* What a `/` begins is decided by the token before it: a regex, unless    *)
(* that token may end a value, or is the word before an alignment.         *)
RegexAllowedAfterBrace(before) ==
  before \notin Idents \cup Literals \cup Heads
                  \cup {"#type", "#date", "#regex", ")", "]", "[*]", "aligns"}

RegexAllowed(before) ==
  before \notin Idents \cup Literals \cup Heads
                  \cup {"#type", "#date", "#regex", ")", "]", "}", "[*]", "aligns"}

-------------------------------------------------------------------------------
(* Items.  The parts that the next token decides for carry the tokens they *)
(* may begin with.                                                         *)

RECURSIVE First(_)

OneOf(tokens) == <<[op |-> "token", of |-> tokens]>>
Words(tokens) == [i \in DOMAIN tokens |-> [op |-> "token", of |-> {tokens[i]}]]
Opt(items) == <<[op |-> "opt", on |-> First(items), of |-> items]>>
Star(items) == <<[op |-> "star", on |-> First(items), of |-> items]>>
Choice(branches) ==
  <<[op |-> "choice", on |-> UNION {First(branches[i]) : i \in DOMAIN branches},
     of |-> branches]>>
(* Items unless, or as often as, the next token is not the stop.           *)
Unless(stop, items) == <<[op |-> "unless", stop |-> stop, of |-> items]>>
Until(stop, items) == <<[op |-> "until", stop |-> stop, of |-> items]>>
(* The tokens that the methods for the parts begin with.                   *)
Starts(name) ==
  CASE name = "fieldType" -> {"[", "Ref", "String", "Int", "Double", "Bool", "#type"}
    [] name = "statement" -> {"step", "emit", "for"}
    [] name = "bodyValue" -> {"{", "[", "case"} \cup Heads \cup Literals
    [] OTHER -> {"case", "{", "#regex", "(", "-"} \cup Idents \cup Heads \cup Literals
Rule(name) == <<[op |-> "rule", on |-> Starts(name), of |-> name]>>

(* A list of fields, each introduced by a word of its own.  `seen` are the *)
(* fields noted so far: some may come only once, some must come.           *)
Fields(name) == <<[op |-> "fields", of |-> name, seen |-> {}]>>
Noted(field) == <<[op |-> "noted", of |-> field]>>
Once(field) == <<[op |-> "once", of |-> field]>>

Name == OneOf(Idents \cup Reserved)
Separator == Opt(OneOf({",", ";"}))
Braced(items) == Words(<<"{">>) \o items \o Words(<<"}">>)
InBraces(items) == Braced(Until("}", items))
Integer == Opt(Words(<<"-">>)) \o Words(<<"#int">>)
Labelled(label, items) == Words(<<label, ":">>) \o items \o Separator
Flag(label) == Labelled(label, OneOf({"#bool"}))
Text(label) == Labelled(label, OneOf({"#str"}))
List(items) == Words(<<"[">>) \o Until("]", items \o Opt(Words(<<",">>))) \o Words(<<"]">>)

-------------------------------------------------------------------------------
(* Expressions.                                                            *)

Path ==
  Choice(<<OneOf(Heads \ {"$secret"}), Words(<<"$secret", ".">>) \o OneOf(Idents)>>)
  \o Star(Choice(<<OneOf({".", "?."}) \o OneOf(Idents \cup Reserved \cup {"#type"}),
                   Words(<<"[">>) \o Integer \o Words(<<"]">>),
                   Words(<<"[*]">>)>>))

Arguments ==
  Words(<<"(">>)
  \o Unless(")", Rule("extraction") \o Star(Words(<<",">>) \o Rule("extraction")))
  \o Words(<<")">>)

TransformCallBare == Name \o Star(OneOf(Idents \cup Literals \cup Heads))
TransformCall == Name \o Opt(Arguments)

CaseLabel == OneOf(Idents \cup Reserved \cup (Literals \ {"#float"}) \cup {"#type"})
Case(arm) == Words(<<"case">>) \o Path \o Words(<<"of">>)
               \o InBraces(CaseLabel \o Words(<<"->">>) \o Rule(arm) \o Separator)
StructLiteral == InBraces(Name \o Words(<<":">>) \o Rule("extraction") \o Separator)

(* A value that is a call or a struct literal may be indexed, once.        *)
Index == Opt(Words(<<"[">>) \o Rule("extraction") \o Words(<<"]">>))
Primary ==
  Choice(<<Case("extraction"),
           StructLiteral \o Index,
           Words(<<"#regex">>),
           Words(<<"(">>) \o Rule("extraction") \o Words(<<")">>),
           OneOf(Idents) \o Arguments \o Index,
           Path,
           OneOf(Literals)>>)
Unary == Star(Words(<<"-">>)) \o Primary
Multiplicative == Unary \o Star(OneOf({"*", "/", "%"}) \o Rule("unary"))
Additive == Multiplicative \o Star(OneOf({"+", "-"}) \o Rule("multiplicative"))
Extraction == Additive \o Star(Words(<<"|">>) \o TransformCall)

-------------------------------------------------------------------------------
(* Declarations.                                                           *)

FieldType ==
  Choice(<<Words(<<"[">>) \o Rule("fieldType") \o Words(<<"]">>),
           Words(<<"Ref", "<", "#type", ">">>),
           OneOf({"String", "Int", "Double", "Bool", "#type"})>>)

AlignmentSegment == OneOf(Idents \cup Reserved \cup {"#type"})
AlignmentPath == AlignmentSegment \o Star(Words(<<".">>) \o AlignmentSegment)
AlignmentTerm == Words(<<"/">>) \o Opt(AlignmentPath)
AlignmentUri == Choice(<<AlignmentPath \o Opt(AlignmentTerm), AlignmentTerm>>)
Aligns == Words(<<"aligns">>) \o AlignmentUri

TypeExtension ==
  Opt(Words(<<"@">>) \o OneOf(Idents) \o Words(<<"/">>))
  \o Words(<<"#type", "@", "#ident">>)

Field == Name \o Words(<<":">>) \o FieldType \o Opt(Words(<<"?">>)) \o Opt(Aligns)
TypeDecl ==
  Words(<<"type", "#type">>) \o Opt(Words(<<"extends">>) \o TypeExtension)
  \o Star(Aligns) \o InBraces(Field \o Separator)
EnumDecl == Words(<<"enum", "#type">>) \o InBraces(OneOf(Idents \cup {"#type"}) \o Separator)
InputDecl == Words(<<"input">>) \o Name \o Words(<<":">>) \o FieldType \o Opt(Words(<<"?">>))
EmitsDecl ==
  Words(<<"emits">>) \o Opt(Words(<<"#type">>) \o Star(Words(<<"|", "#type">>)))

(* The result of a function follows its bindings without a separator.      *)
FnBody ==
  Star(Words(<<"let", "$var", "=">>) \o Rule("extraction") \o Opt(Words(<<";">>)))
  \o Rule("result")
FnDecl ==
  Words(<<"fn">>) \o OneOf(Idents) \o Words(<<"(">>)
  \o Unless(")", Words(<<"$var">>) \o Star(Words(<<",", "$var">>)))
  \o Words(<<")">>) \o Braced(FnBody)

RecipeHeader == Words(<<"recipe", "#str", "engine">>) \o OneOf({"http", "browser"})
Shared == Words(<<"share">>) \o Choice(<<TypeDecl, EnumDecl, FnDecl>>)
Compose == Words(<<"compose", "#str", "|", "#str">>) \o Star(Words(<<"|", "#str">>))

Comparison ==
  Choice(<<OneOf({">", "<"}) \o Opt(Words(<<"=">>)), Words(<<"=", "=">>), Words(<<"!", "=">>)>>)
Expect ==
  Words(<<"expect", "{", "records", ".", "where", "(", "typeName", "=", "=", "#str", ")",
          ".", "count">>) \o Comparison \o Integer \o Words(<<"}">>)

-------------------------------------------------------------------------------
(* Statements.                                                             *)

Loop == Words(<<"for", "$var", "in">>) \o Rule("extraction") \o InBraces(Rule("statement"))
Emit ==
  Words(<<"emit", "#type">>)
  \o InBraces(Name \o Words(<<"<-">>) \o Rule("extraction") \o Separator)
  \o Opt(Words(<<"as", "$var">>))

BodyValue ==
  Choice(<<Braced(Rule("json")),
           Words(<<"[">>)
             \o Unless("]", Rule("bodyValue") \o Star(Words(<<",">>) \o Rule("bodyValue")))
             \o Words(<<"]">>),
           Case("bodyValue"),
           Path,
           OneOf(Literals)>>)
JsonBody ==
  Until("}", OneOf(Idents \cup Reserved \cup {"#str"}) \o Words(<<":">>)
               \o Rule("bodyValue") \o Separator)
FormBody == Until("}", Words(<<"#str", ":">>) \o Rule("bodyValue") \o Separator)
Body ==
  Words(<<"body", ".">>)
  \o Choice(<<Words(<<"json">>) \o Braced(Rule("json")),
              Words(<<"form">>) \o Braced(FormBody),
              Words(<<"raw">>) \o Braced(Words(<<"#str">>))>>)

Paginate ==
  LET Strategy(kind) == Words(<<kind>>) \o Braced(Fields(kind))
  IN  Words(<<"paginate">>)
        \o Choice(<<Strategy("pageWithTotal"), Strategy("untilEmpty"), Strategy("cursor")>>)
PaginateFields ==
  <<Noted("items") \o Labelled("items", Path),
    Noted("total") \o Labelled("total", Path),
    Noted("cursorPath") \o Labelled("cursorPath", Path),
    Noted("pageParam") \o Text("pageParam"),
    Noted("cursorParam") \o Text("cursorParam"),
    Labelled("pageSize", Integer),
    Flag("pageZeroIndexed")>>

ExtractFields ==
  <<Noted("pattern") \o Text("pattern"),
    Labelled("groups", List(OneOf(Idents \cup Reserved \cup {"#str"})))>>

Step == Words(<<"step">>) \o Name \o Braced(Fields("step"))
StepFields ==
  <<Noted("method") \o Words(<<"method", "#str">>),
    Noted("url") \o Words(<<"url", "#str">>),
    Words(<<"headers">>) \o InBraces(Words(<<"#str", ":", "#str">>) \o Separator),
    Body,
    Paginate,
    Words(<<"parse", ":">>) \o OneOf({"json", "html", "xml", "text"}) \o Once("parse"),
    Words(<<"extract", ".", "regex">>) \o Braced(Fields("extract"))>>

Statement == Choice(<<Step, Emit, Loop>>)

-------------------------------------------------------------------------------
(* Login and the browser.                                                  *)

StaticHeaderFields == <<Noted("name") \o Text("name"), Noted("value") \o Text("value")>>
HtmlPrimeFields ==
  <<Noted("step") \o OneOf({"step", "stepName"}) \o Words(<<":">>)
      \o OneOf(Idents \cup {"#str"}) \o Separator,
    Text("nonceVar"), Text("ajaxUrlVar")>>
SessionFields ==
  <<Noted("url") \o Text("url"), Text("method"), Body \o Separator,
    Noted("tokenPath") \o Labelled("tokenPath", Path),
    Text("headerName"), Text("headerPrefix"),
    Noted("sourcePath") \o Text("sourcePath"),
    Labelled("format", OneOf({"#str", "#ident", "json"})),
    Flag("captureCookies"), Labelled("maxReauthRetries", Integer), Labelled("cache", Integer),
    Flag("cacheEncrypted"), Flag("requiresMFA"), Text("mfaFieldName")>>
SessionAuth ==
  LET Variant(kind) == Words(<<kind>>) \o Braced(Fields(kind))
  IN  Words(<<"session", ".">>)
        \o Choice(<<Variant("formLogin"), Variant("bearerLogin"), Variant("cookiePersist")>>)
Auth ==
  Words(<<"auth", ".">>)
  \o Choice(<<Words(<<"staticHeader">>) \o Braced(Fields("staticHeader")),
              Words(<<"htmlPrime">>) \o Braced(Fields("htmlPrime")),
              SessionAuth>>)

AgeGate ==
  Words(<<"ageGate", ".", "autoFill">>)
  \o InBraces(Choice(<<Labelled("dob", Words(<<"#date">>)),
                       Flag("reloadAfter"), Flag("reloadAfterSubmit")>>))
Dismissals ==
  Words(<<"dismissals">>)
  \o InBraces(Choice(<<Labelled("maxIterations", Integer),
                       Labelled("extraLabels", List(Words(<<"#str">>)))>>))
BrowserPaginate ==
  Words(<<"paginate">>)
  \o Choice(<<Words(<<".">>) \o OneOf({"scroll", "replay"}),
              Words(<<"browserPaginate", ".">>) \o OneOf({"scroll", "replay"}),
              OneOf({"scroll", "replay"})>>)
  \o Braced(Fields("browserPaginate"))
BrowserPaginateFields ==
  <<Noted("until") \o Labelled("until", Words(<<"noProgressFor", "(">>) \o Integer
                                          \o Words(<<")">>)),
    Labelled("maxIterations", Integer),
    Labelled("iterationDelay", OneOf({"#float", "#int"})),
    Text("seedFilter")>>
Captures ==
  Words(<<"captures", ".">>)
  \o Choice(<<Words(<<"match">>) \o Braced(Words(<<"urlPattern", ":", "#str">>) \o Loop),
              Words(<<"document">>) \o Once("document") \o Braced(Loop)>>)
Interactive ==
  Words(<<"interactive">>)
  \o InBraces(Choice(<<Text("bootstrapURL"),
                       Labelled("cookieDomains", List(Words(<<"#str">>))),
                       Text("sessionExpiredPattern")>>))
Browser == Words(<<"browser">>) \o Braced(Fields("browser"))
BrowserFields ==
  <<Noted("initialURL") \o Words(<<"initialURL", ":", "#str">>),
    Noted("observe") \o Words(<<"observe", ":", "#str">>),
    AgeGate, Dismissals,
    Words(<<"warmupClicks", ":">>) \o List(Words(<<"#str">>)),
    Noted("paginate") \o BrowserPaginate,
    Captures,
    Once("interactive") \o Interactive>>

-------------------------------------------------------------------------------
(* The file.                                                               *)

FileFields ==
  <<RecipeHeader, Shared, TypeDecl, EnumDecl, InputDecl,
    Once("emits") \o EmitsDecl,
    Words(<<"secret">>) \o OneOf(Idents),
    Once("auth") \o Auth,
    Once("browser") \o Browser,
    Expect, FnDecl,
    Noted("statement") \o Rule("statement"),
    Once("compose") \o Compose>>

FieldsOf(name) ==
  CASE name = "file" -> FileFields
    [] name = "step" -> StepFields
    [] name = "extract" -> ExtractFields
    [] name \in {"pageWithTotal", "untilEmpty", "cursor"} -> PaginateFields
    [] name = "staticHeader" -> StaticHeaderFields
    [] name = "htmlPrime" -> HtmlPrimeFields
    [] name \in {"formLogin", "bearerLogin", "cookiePersist"} -> SessionFields
    [] name = "browser" -> BrowserFields
    [] name = "browserPaginate" -> BrowserPaginateFields

Missing(name) ==
  CASE name = "step" -> {"method", "url"}
    [] name = "extract" -> {"pattern"}
    [] name = "pageWithTotal" -> {"items", "total", "pageParam"}
    [] name = "untilEmpty" -> {"items", "pageParam"}
    [] name = "cursor" -> {"items", "cursorPath", "cursorParam"}
    [] name = "staticHeader" -> {"name", "value"}
    [] name = "htmlPrime" -> {"step"}
    [] name = "formLogin" -> {"url"}
    [] name = "bearerLogin" -> {"url", "tokenPath"}
    [] name = "cookiePersist" -> {"sourcePath"}
    [] name = "browser" -> {"initialURL", "observe", "paginate"}
    [] name = "browserPaginate" -> {"until"}
    [] OTHER -> {}

(* The end of a list of fields: none is missing, and the body of a file is *)
(* statements or a composition.                                            *)
Complete(name, seen) ==
  Missing(name) \subseteq seen /\ ~({"statement", "compose"} \subseteq seen)

Expand(name) ==
  CASE name \in {"extraction", "result"} -> Extraction
    [] name = "multiplicative" -> Multiplicative
    [] name = "unary" -> Unary
    [] name = "fieldType" -> FieldType
    [] name = "statement" -> Statement
    [] name = "json" -> JsonBody
    [] name = "bodyValue" -> BodyValue

-------------------------------------------------------------------------------
(* Reading.                                                                *)

(* The tokens that decide for a part: those it may begin with.             *)
First(items) ==
  LET item == Head(items) IN
  CASE item.op = "token" -> item.of
    [] item.op \in {"rule", "choice"} -> item.on
    [] item.op \in {"opt", "star"} -> item.on \cup First(Tail(items))
    [] item.op \in {"noted", "once"} -> First(Tail(items))

Error == <<[op |-> "error"]>>

(* The list of fields that an item belongs to.  Only what the end of the   *)
(* list asks for is noted.                                                 *)
Inner(items) == Min({i \in DOMAIN items : items[i].op = "fields"})
Matters(items, field) == field \in Missing(items[Inner(items)].of) \cup {"statement"}
SeenIn(items) == items[Inner(items)].seen
NoteIn(items, field) == [items EXCEPT ![Inner(items)].seen = @ \cup {field}]

RECURSIVE After(_, _)
(* What is still to be read after the token, or an error.                  *)
After(items, token) ==
  IF items = <<>> THEN IF token = EndOfFile THEN <<>> ELSE Error
  ELSE
    LET item == Head(items)
        rest == Tail(items)
        Branch(branches) ==
          LET fits == {i \in DOMAIN branches : token \in First(branches[i])}
          IN  IF fits = {} THEN Error ELSE branches[Min(fits)]
        Into(branches, more) ==
          IF Branch(branches) = Error THEN Error ELSE After(Branch(branches) \o more, token)
    IN CASE item.op = "token" -> IF token \in item.of THEN rest ELSE Error
         [] item.op = "rule" -> After(Expand(item.of) \o rest, token)
         [] item.op = "opt" -> After(IF token \in item.on THEN item.of \o rest ELSE rest, token)
         [] item.op = "star" -> After(IF token \in item.on THEN item.of \o items ELSE rest, token)
         [] item.op = "unless" -> After(IF token = item.stop THEN rest ELSE item.of \o rest, token)
         [] item.op = "until" ->
              After(IF token \in {item.stop, EndOfFile} THEN rest ELSE item.of \o items, token)
         [] item.op = "choice" -> IF token \in item.on THEN Into(item.of, rest) ELSE Error
         [] item.op = "noted" ->
              After(IF Matters(rest, item.of) THEN NoteIn(rest, item.of) ELSE rest, token)
         [] item.op = "once" ->
              IF item.of \in SeenIn(rest) THEN Error ELSE After(NoteIn(rest, item.of), token)
         [] item.op = "fields" ->
              IF token \in {"}", EndOfFile}
              THEN IF Complete(item.of, item.seen) THEN After(rest, token) ELSE Error
              ELSE Into(FieldsOf(item.of), items)

Accepts(items, token) == After(items, token) # Error

-------------------------------------------------------------------------------

vars == <<stack, slash, word>>

(* parse reads a file, parse_extraction a watch of the debugger.           *)
Init ==
  /\ stack \in {Fields("file"), Rule("extraction")}
  /\ slash = "#regex" /\ word = FALSE

(* The forms of the file noted so far are in the last of the items.        *)
Forms(items) ==
  IF items # <<>> /\ items[Len(items)].op = "fields"
  THEN Cardinality(items[Len(items)].seen) ELSE 0

Open(items) ==
  Cardinality({i \in DOMAIN items :
                 items[i].op # "token" \/ items[i].of \in {{"]"}, {")"}, {"}"}}})

Read(token) ==
  /\ token \in {"/", "#regex"} => token = slash
  /\ LET after == After(stack, token)
     IN  /\ after # Error
         /\ Open(after) <= MaxOpen /\ Forms(after) <= MaxForms
         /\ stack' = after
  /\ slash' = IF RegexAllowed(token) THEN "#regex" ELSE "/"
  /\ word' = (token \in Reserved)

Next == \E token \in Tokens : Read(token)

Spec == Init /\ [][Next]_vars
-------------------------------------------------------------------------------

RECURSIVE Guesses(_, _)
(* The token enters an optional part, though it could as well be read by   *)
(* what follows that part; or it fits two branches of a choice.            *)
Guesses(items, token) ==
  IF items = <<>> THEN FALSE
  ELSE
    LET item == Head(items)
        rest == Tail(items)
        Clash(branches) == Cardinality({i \in DOMAIN branches : token \in First(branches[i])}) > 1
    IN CASE item.op = "token" -> FALSE
         [] item.op = "rule" -> Guesses(Expand(item.of) \o rest, token)
         [] item.op \in {"opt", "star"} ->
              IF token \in item.on THEN Accepts(rest, token) ELSE Guesses(rest, token)
         [] item.op = "unless" ->
              Guesses(IF token = item.stop THEN rest ELSE item.of \o rest, token)
         [] item.op = "until" ->
              IF token \in {item.stop, EndOfFile} THEN Guesses(rest, token)
              ELSE Guesses(item.of \o items, token)
         [] item.op = "choice" -> Clash(item.of)
         [] item.op \in {"noted", "once"} -> Guesses(rest, token)
         [] item.op = "fields" ->
              IF token \in {"}", EndOfFile} THEN Guesses(rest, token)
              ELSE Clash(FieldsOf(item.of))

Pending(name) == Rule(name)[1] \in Range(stack)
AfterAligns == stack # <<>> /\ Head(stack) = Opt(AlignmentPath)[1]

(* The lexer, which sees only the token before, and the parser, which sees *)
(* everything before, make the same of a slash: wherever a division or an  *)
(* alignment may go on, it is not read as the start of a regex, and        *)
(* wherever a regex may stand, it is (regex_allowed_here).  Two places are *)
(* left out: after a reserved word used as the name of a field, where a    *)
(* division cannot be written, and the result of a function, which follows *)
(* its last binding without a separator.                                   *)
LexerAgrees ==
  /\ Accepts(stack, "/") /\ ~word => slash = "/"
  /\ Accepts(stack, "#regex") /\ ~Pending("result") => slash = "#regex"

(* One token ahead is enough: no method takes an optional part, or goes    *)
(* round a loop, when the token could as well belong to what follows, so   *)
(* that no file is refused for where the parser looked first, and a new    *)
(* word at the end of one form never changes how the form before it is     *)
(* read.  The exceptions are the result of a function, which a binding     *)
(* before it swallows (`let $a = $b  - 1`), and the words of an alignment, *)
(* which go on into the form that follows it.                              *)
NoGuess ==
  \/ Pending("result") \/ AfterAligns
  \/ \A token \in Tokens \ {"aligns"} : ~Guesses(stack, token)
===============================================================================
