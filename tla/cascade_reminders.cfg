\* Claim: a cascade cancels the reminders of all it deletes.
SPECIFICATION Spec
CONSTANTS
  Null = Null
  r1 = r1  r2 = r2  anna = anna  ben = ben  h1 = h1  h2 = h2
  i1 = i1  i2 = i2  i3 = i3
  Requests = {r1, r2}
  Users = {anna}
  HiveIds = {h1}
  HarvestIds = {i1, i2}
  Bodies <- OneBody
  ValidBodies <- OneValid
  Owner <- OneHiveOwner
  LegacyIds = {}
  Ops = {"create", "cascade"}
  HiveStates = {"writable"}
  Reminded = {}
  Faults = {}
SYMMETRY RequestSymmetry
INVARIANTS CascadeCancelsAllItDeletes
