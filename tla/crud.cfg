\* Requests on single records, of two users with a hive each, every path id
\* paired with every hive, a reminder asked for and stored between the calls.
SPECIFICATION Spec
CONSTANTS
  Null = Null
  r1 = r1  r2 = r2  anna = anna  ben = ben  h1 = h1  h2 = h2
  i1 = i1  i2 = i2  i3 = i3
  Requests = {r1, r2}
  Users = {anna, ben}
  HiveIds = {h1, h2}
  HarvestIds = {i1, i2}
  Bodies <- MixedBodies
  ValidBodies <- MixedValid
  Owner <- TwoHiveOwners
  LegacyIds = {i1}
  Ops = {"create", "get", "update", "delete"}
  HiveStates = {"writable"}
  Reminded = {i1}
  Faults = {}
SYMMETRY RequestSymmetry
INVARIANTS TypeOK OwnerStamped RowsWellFormed DisclosureOnlyToOwner CancelsOnlyOwn
PROPERTIES LeftOnlyIfAsked
