--------------------------------- MODULE MCHub ---------------------------------
(***************************************************************************)
(* The hub on a small instance.  A behaviour is either serial, with the    *)
(* payloads that make indexes and lineages differ and a request that dies, *)
(* or concurrent, with payloads that need little index work and no types.  *)
(***************************************************************************)
EXTENDS Hub

CONSTANTS alice, bob, zen, Item, food, drink, thing, s1, s2

VARIABLE serial

T == <<alice, Item>>

MCPackages == {<<alice, zen>>, <<bob, zen>>}
MCTypeKeys == {T}

RichRecipes ==
  {[name |-> zen, category |-> food,  inputs |-> {},  outputs |-> {T}],
   [name |-> zen, category |-> drink, inputs |-> {T}, outputs |-> {}]}

ThinRecipes ==
  {[name |-> zen, category |-> food, inputs |-> {}, outputs |-> {}, text |-> s] : s \in {s1, s2}}

MCRecipes == RichRecipes \cup ThinRecipes

MCTypeBodies ==
  {[source |-> s1, aligned |-> {thing}, extends |-> None],
   [source |-> s2, aligned |-> {}, extends |-> <<T, 1>>],
   [source |-> s2, aligned |-> {thing}, extends |-> Missing]}

(* Which requests a behaviour has.                                         *)
InMode(r) ==
  r # None =>
    /\ ~serial => r.op # "type"
    /\ r.body # None => (serial <=> r.body \notin ThinRecipes)

(* The workers are interchangeable.                                        *)
MCSymmetry == Permutations(Workers)

MCInit == Init /\ serial \in BOOLEAN

MCNext ==
  /\ Next
  /\ UNCHANGED serial
  /\ IF serial THEN ~shared' ELSE died' = {}
  /\ \A w \in Workers : InMode(req'[w])

MCSpec == MCInit /\ [][MCNext]_<<vars, serial>>
===============================================================================
