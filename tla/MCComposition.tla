----------------------------- MODULE MCComposition -----------------------------
(* Small workspaces of four recipe names, over one record type.           *)
EXTENDS Composition

CONSTANTS a, b, c, d, t

MCScrape(kind, slots) ==
  [kind |-> kind, slots |-> slots, emits |-> {t}, stages |-> <<>>]
MCSlot(form) == [form |-> form, type |-> t]
MCCompose(slots, stages) ==
  [kind |-> "compose", slots |-> slots, emits |-> {}, stages |-> stages]

MCLeaves ==
  {MCScrape("http", {}), MCScrape("http", {MCSlot("batch")}),
   MCScrape("http", {MCSlot("single")}), MCScrape("browser", {})}

(* Compositions without inputs: they can only come first.                  *)
MCRecipes ==
  MCLeaves \cup
  {MCCompose({}, stages) :
     stages \in {<<a, d>>, <<c, d>>, <<b, d>>, <<c, HubRef>>}}

(* Compositions that take records as well.                                 *)
MCNested ==
  {MCScrape("http", {}), MCScrape("http", {MCSlot("batch")})} \cup
  {MCCompose(slots, stages) :
     slots \in {{}, {MCSlot("batch")}}, stages \in {<<c, a>>, <<c, d>>}}

(* The workspace starts with a composition over its two leaves.            *)
MCOpened ==
  {[n \in Names |-> CASE n = b -> MCCompose({}, <<c, d>>)
                       [] n = c -> MCScrape("http", {})
                       [] n = d -> MCScrape("http", {MCSlot("batch")})
                       [] OTHER -> None]}

(* At most one file is saved while a run is under way, and d is the only   *)
(* one to become a recipe that takes records, or a browser's.              *)
MCNext ==
  /\ Next
  /\ run # None /\ ws' # ws => saves = 0
  /\ \A n \in Names \ {d} : ws'[n] # ws[n] => ws'[n] \notin MCLeaves \ {MCScrape("http", {})}

MCSpec == Init /\ [][MCNext]_vars /\ WF_vars(RunStep)

MCNotebooks == {[name |-> b, stages |-> <<a, d>>]}
===============================================================================
