\* An ingest dies after its records are stored: the delta is never screened.
SPECIFICATION Spec
CONSTANTS
  s1 = s1
  s2 = s2
  e1 = e1
  e2 = e2
  i1 = i1
  i2 = i2
  Subjects <- MCOneSubject
  Entries <- MCOneEntry
  MaxVersion = 2
  Editions <- MCOneEditions
  Matches <- MCOneMatch
  Ingesters <- MCOneIngester
  MaxSnapshots = 2
  MaxQueue = 1
INVARIANTS
  EveryHitScreened
CHECK_DEADLOCK FALSE
