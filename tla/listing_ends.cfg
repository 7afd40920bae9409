\* Every listing ends while records come and go.
SPECIFICATION FairSpec
CONSTANTS
  Null = Null
  r1 = r1  anna = anna  ben = ben
  Readers = {r1}
  HarvestIds <- ThreeIds
  HiveIds <- OneHive
  Users = {anna, ben}
  Owner <- OneHiveOwner
  Bodies <- MovedBodies
  Queries <- AllKinds
  MaxLimit = 1
  HivePage = 1
  Faults = {"hive", "db"}
PROPERTIES ListingEnds
