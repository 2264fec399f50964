CONSTANTS
  None = None
  Missing = Missing
  alice = alice
  bob = bob
  zen = zen
  Item = Item
  food = food
  drink = drink
  thing = thing
  s1 = s1
  s2 = s2
  Workers = {w1, w2}
  Users = {alice, bob}
  Slugs = {zen}
  Packages <- MCPackages
  TypeKeys <- MCTypeKeys
  Recipes <- MCRecipes
  TypeBodies <- MCTypeBodies
  MaxVersion = 3
  MaxRequests = 3
  MaxDied = 1
SPECIFICATION MCSpec
INVARIANTS VersionsAreStored AcknowledgedStands DedupIsSameSource IndexesAreCanonical CountersAgree
SYMMETRY MCSymmetry
CHECK_DEADLOCK FALSE
