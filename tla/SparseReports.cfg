CONSTANTS
  Mountings = {{p1, p2}}
  FirstMounting = {p1, p2}
  Routes = {r1, r2}
  Unknown = Unknown
  p1 = p1
  p2 = p2
  MaxPackChanges = 0
SPECIFICATION PackSpec
INVARIANT SparseReportsTolerated
CHECK_DEADLOCK FALSE
