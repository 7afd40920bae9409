\* One job over several batches, killed, failing and started again, while
\* rows, hives and accounts go and rows drop out of its listing.
SPECIFICATION FairSpec
CONSTANTS
  Null = Null
  j1 = j1  anna = anna  ben = ben  h1 = h1  h2 = h2
  Jobs = {j1}
  HarvestIds <- ThreeIds
  HiveIds = {h1, h2}
  Users = {anna, ben}
  Owner <- TwoHiveOwners
  Batch = 2
  Faults = {"hive", "db", "crash"}
INVARIANTS TypeOK StampedWithOwner NoneSkipped
PROPERTIES OnlyAddsOwners RunEnds
