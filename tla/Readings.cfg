CONSTANTS
  Mountings = {{p1, p2}, {p1, p3}}
  FirstMounting = {p1, p2}
  Routes = {r1, r2}
  Unknown = Unknown
  p1 = p1
  p2 = p2
  p3 = p3
  MaxPackChanges = 2
  Preferred = "local_mqtt"
  Readings = {0, 2}
  Tolerance = 1
  StaleAfter = 1
  MaxDisturbances = 2
SPECIFICATION Spec
INVARIANTS PacksNeverMixed ShownWasTrue
PROPERTY ReadingsSettle
CHECK_DEADLOCK FALSE
