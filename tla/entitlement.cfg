\* Hives are locked, unlocked and deleted while requests run.
SPECIFICATION Spec
CONSTANTS
  Null = Null
  r1 = r1  r2 = r2  anna = anna  ben = ben  h1 = h1  h2 = h2
  i1 = i1  i2 = i2  i3 = i3
  Requests = {r1, r2}
  Users = {anna, ben}
  HiveIds = {h1}
  HarvestIds = {i1, i2}
  Bodies <- TwoBodies
  ValidBodies <- TwoValid
  Owner <- OneHiveOwner
  LegacyIds = {i1}
  Ops = {"create", "update", "delete", "cascade", "erase"}
  HiveStates = {"writable", "readonly", "gone"}
  Reminded = {}
  Faults = {}
SYMMETRY RequestSymmetry
PROPERTIES LiveEntitlement
