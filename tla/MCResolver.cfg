SPECIFICATION Spec
CONSTANTS
  p1 = p1
  p2 = p2
  t1 = t1
  t2 = t2
  Procs = {p1, p2}
  Threads = {t1, t2}
  Owners <- MCOwners
  Fds = {3, 4}
  Paths <- MCPaths
  location <- MCLocation
  DEVICE_LEN = 1
  Reports <- MCReports
  Absent = Absent
INVARIANTS
  TypeOK
  DeviceRight
  NoStaleEntry
SYMMETRY Symmetry
