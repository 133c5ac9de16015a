\* The crash that a failing write causes may leave the one id drawn, and no
\* browser without a cookie can go on.
CHECK_DEADLOCK FALSE
SPECIFICATION FairSpec
CONSTANTS
  Requests = {r1}
  Visitors = {v1}
  Ids = {i1}
  Emails = {e1}
  Empty = Empty
  NoId = NoId
  NoDoc = NoDoc
  Flags = {}
  Lookups = {TRUE}
  MaxWrites = 2
  Faults = {"write"}
PROPERTY EmailSaved
