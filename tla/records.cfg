\* All operations on one hive, every kind of failure, the account closed and
\* erased in between, two bodies to tell updates apart.
SPECIFICATION FairSpec
CONSTANTS
  Null = Null
  r1 = r1  r2 = r2  anna = anna  ben = ben  h1 = h1  h2 = h2
  i1 = i1  i2 = i2  i3 = i3
  Requests = {r1, r2}
  Users = {anna}
  HiveIds = {h1}
  HarvestIds = {i1, i2}
  Bodies <- TwoBodies
  ValidBodies <- TwoValid
  Owner <- OneHiveOwner
  LegacyIds = {i1}
  Ops = {"create", "get", "update", "delete", "cascade", "erase"}
  HiveStates = {"writable"}
  Reminded = {}
  Faults = {"hive", "db", "reminder", "crash"}
PROPERTIES RecordsSpec NoResurrection CascadeCancelsFirst ErasureIsFinal
           EveryRequestAnswered
