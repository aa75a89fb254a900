SPECIFICATION FairSpec
CONSTANTS
  r1 = r1
  r2 = r2
  r3 = r3
  Requests = {r1, r2, r3}
  Earlier = Earlier
  NoRequest = NoRequest
  Absent = Absent
  Scenarios <- Mixed
  Beginnings <- AllBeginnings
  MaxFaults = 3
INVARIANTS AnswersAgree ArchiveTrusted VerifySound
PROPERTIES CommitLogSpec RecordedIsTold DocumentFollows
