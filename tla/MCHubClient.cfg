CONSTANTS
  None = None
  Missing = Missing
  Torn = Torn
  alice = alice
  bob = bob
  zen = zen
  mod = mod
  Item = Item
  food = food
  s1 = s1
  r1 = r1
  Workers = {w1}
  Users = {alice, bob}
  Clients = {bob}
  Slugs = {zen, mod}
  Packages <- MCPackages
  TypeKeys <- MCTypeKeys
  Recipes <- MCRecipes
  TypeBodies <- MCTypeBodies
  MaxVersion = 2
  MaxRequests = 3
  MaxDied = 1
  MaxCalls = 3
SPECIFICATION MCSpec
INVARIANTS CleanCopyIsTheHubs
PROPERTIES HubIsALog
CHECK_DEADLOCK FALSE
