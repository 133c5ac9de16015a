\* Where the ids of the bound were drawn by requests a crash left unanswered,
\* no browser without a cookie can go on.
CHECK_DEADLOCK FALSE
SPECIFICATION Spec
CONSTANTS
  Requests = {r1, r2}
  Visitors = {v1}
  Ids = {i1, i2}
  Emails = {e1}
  Empty = Empty
  NoId = NoId
  NoDoc = NoDoc
  Flags = {"isGetDemo"}
  Lookups = {TRUE, FALSE}
  MaxWrites = 2
  Faults = {"query", "write"}
SYMMETRY Symmetry
INVARIANTS TypeOK SavesFindDocuments
PROPERTIES NothingLost NoLateDuplicate CountryKept
