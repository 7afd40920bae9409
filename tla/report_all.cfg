\* Claim: a report returns all records in its range.
SPECIFICATION ClaimSpec
CONSTANTS
  Null = Null
  r1 = r1  anna = anna  ben = ben
  Readers = {r1}
  HarvestIds <- ThreeIds
  HiveIds <- OneHive
  Users = {anna, ben}
  Owner <- OneHiveOwner
  Bodies <- OneBody
  Queries <- FirstReport
  MaxLimit = 1
  HivePage = 1
  Faults = {}
PROPERTIES ReportReturnsAll
