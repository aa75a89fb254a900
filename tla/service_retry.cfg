SPECIFICATION Spec
CONSTANTS
  r1 = r1
  r2 = r2
  r3 = r3
  Requests = {r1}
  Earlier = Earlier
  NoRequest = NoRequest
  Absent = Absent
  Scenarios <- Creates
  Beginnings = {"none"}
  MaxFaults = 1
INVARIANTS RecordedNotRefused
