------------------------------ MODULE MCHubClient ------------------------------
(* Two users' workspaces over a hub with one worker.                       *)
EXTENDS HubClient

CONSTANTS alice, bob, zen, mod, Item, food, s1, r1

T == <<alice, Item>>

MCPackages == {<<alice, zen>>, <<bob, zen>>, <<bob, mod>>}
MCTypeKeys == {T}

(* A recipe by itself, and with the shared type that it may be pinned to.  *)
MCRecipe(text, pins) ==
  [name |-> zen, category |-> food, inputs |-> {}, outputs |-> {}, text |-> text, pins |-> pins]

MCRecipes == {MCRecipe(r1, {}), MCRecipe(r1, {<<T, 1>>})}

MCTypeBodies == {[source |-> s1, aligned |-> {}, extends |-> None]}

(* Faults hit requests or clients, not both in one behaviour.              *)
MCNext ==
  /\ ClientNext
  /\ crashed' # crashed => crashed \cup died = {}
  /\ died' # died => crashed \cup died = {}

MCSpec == ClientInit /\ [][MCNext]_allVars
===============================================================================
