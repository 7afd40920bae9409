\* All six migrations up and down, stopped and forced, with rows written and
\* cleared between any two steps.
SPECIFICATION Spec
CONSTANTS
  Null = Null
  i1 = i1  i2 = i2  honey = honey  wax = wax
  HarvestIds = {i1, i2}
  Kinds = {honey, wax}
  Instants <- FourInstants
  Offset = 1
INVARIANTS TypeOK VersionTellsSchema DaysKept OnlyDuplicatesStopAFile
PROPERTIES ClearIsAllOrNothing
