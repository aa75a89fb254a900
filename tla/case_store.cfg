SPECIFICATION Spec
CONSTANTS
  Requests = {r1, r2, r3}
  NoRequest = NoRequest
  Absent = Absent
SYMMETRY Interchangeable
INVARIANTS TypeOK CrashLeavesLoadableCase AckedSurvive ExactlyOnce DecisionsRestOnDurableLog ArchivedHasDocument
PROPERTIES CommitLogSpec ArchiveDigestKept
