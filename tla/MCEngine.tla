-------------------------------- MODULE MCEngine --------------------------------
(* Bodies with a paginated step, nested loops, references between emits,   *)
(* and two loops over the same current value.                              *)
EXTENDS Engine, Meaning

CONSTANTS list, detail, x, y, p, Parent, Child

Paging(strategy, zero, where) == [strategy |-> strategy, zero |-> zero, where |-> where]

MCPagings ==
  {Paging(s, zero, where) :
     s \in {"pageWithTotal", "untilEmpty"}, zero \in BOOLEAN, where \in {"query", "scope"}}
  \cup {Paging("cursor", FALSE, "query")}

Step(name, paging) == [kind |-> "step", name |-> name, paging |-> paging]
For(var, over, body) == [kind |-> "for", var |-> var, over |-> over, body |-> body]
Emit(type, reads, as, refers) ==
  [kind |-> "emit", type |-> type, reads |-> reads, as |-> as, refers |-> refers]

Plain == Paging("none", FALSE, "query")

ListStep(paging) == Step(list, paging)
DetailStep(paging) == Step(detail, paging)
Children == For(y, detail, <<Emit(Child, {x, y}, None, p)>>)
Parents == For(x, list, <<Emit(Parent, {x}, p, None), DetailStep(Plain), Children>>)
Details(paging) == For(x, Current, <<DetailStep(paging)>>)
Listing == For(y, Current, <<Emit(Parent, {y}, None, None)>>)

(* A list of parents, for each a request for its children.                 *)
Nested(paging) == [login |-> TRUE, body |-> <<ListStep(paging), Parents>>]

(* A loop that makes requests leaves the list of the step before it.       *)
Twice(paging) == [login |-> FALSE, body |-> <<ListStep(paging), Details(paging), Listing>>]

MCRecipes == {Nested(g) : g \in MCPagings} \cup {Twice(g) : g \in MCPagings}

MCStatements ==
  UNION {{ListStep(g), DetailStep(g), Details(g)} : g \in MCPagings}
  \cup {Parents, DetailStep(Plain), Children, Listing}
  \cup {Parents.body[1], Children.body[1], Listing.body[1]}

MCServers ==
  {[mode |-> mode, size |-> 2, items |-> (list :> l @@ detail :> <<7, 8>>)] :
     mode \in {"honest", "default", "stuck", "silent", "bare"},
     l \in {<<>>, <<1>>, <<1, 2>>, <<1, 2, 3, 4, 5>>}}
MCSamples == {None, 1}
===============================================================================
