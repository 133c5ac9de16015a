SPECIFICATION Spec
CONSTANTS
  Requests = {r1, r2}
  Visitors = {v1}
  Ids = {i1, i2}
  Emails = {e1}
  Empty = Empty
  NoId = NoId
  NoDoc = NoDoc
  Flags = {}
  Lookups = {TRUE}
  MaxWrites = 2
  Faults = {}
INVARIANT AddressUnique
