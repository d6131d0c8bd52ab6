\* Two requests at a time, two codes, one failure.
CONSTANTS
  MaxAttempts = 3
  Request = {r1, r2}
  MaxCodes = 2
  MaxTries = 4
  MaxFails = 1
SPECIFICATION FairSpec
INVARIANT TypeOK
PROPERTIES
  UsedCodeReturnsOnlyByOverlap
  MailedCodeStays
  StoredCodeIsMailed
CHECK_DEADLOCK FALSE
