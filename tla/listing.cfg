\* Lists of one hive and of all hives of a user, with and without filters,
\* and reports over a range of days, each over several pages.
SPECIFICATION Spec
CONSTANTS
  Null = Null
  r1 = r1  anna = anna  ben = ben
  Readers = {r1}
  HarvestIds <- ThreeIds
  HiveIds <- ThreeHives
  Users = {anna, ben}
  Owner <- ThreeHiveOwners
  Bodies <- TwoBodies
  Queries <- Mixed
  MaxLimit = 2
  HivePage = 1
  Faults = {}
INVARIANTS TypeOK
PROPERTIES ListsOnlyOwn ReportExactWhenQuiet PageExactWhenQuiet
