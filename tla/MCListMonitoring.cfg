SPECIFICATION Spec
CONSTANTS
  s1 = s1
  s2 = s2
  e1 = e1
  e2 = e2
  i1 = i1
  i2 = i2
  Subjects <- MCSubjects
  Entries <- MCEntries
  MaxVersion = 2
  Editions <- MCEditions
  Matches <- MCMatches
  Ingesters <- MCOneIngester
  MaxSnapshots = 2
  MaxQueue = 1
INVARIANTS
  TypeOK

  
CHECK_DEADLOCK FALSE
