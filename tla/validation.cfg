\* All bodies over the values of each field, lists over the values of each
\* parameter, reports from any day of interest to any other.
SPECIFICATION Spec
CONSTANTS
  Requested <- AllBodies
  ListQueries <- AllLists
  ReportQueries <- AllReports
  Stored <- EdgeRecords
INVARIANTS
  AcceptedIsStorable ErrorsNameTheirFields
  QueryIsReadAsAsked ReportSpansAYear
CHECK_DEADLOCK FALSE
