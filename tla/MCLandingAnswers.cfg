SPECIFICATION FairSpec
CONSTANTS
  Requests = {r1, r2, r3}
  Visitors = {v1}
  Ids = {i1}
  Emails = {e1}
  Empty = Empty
  NoId = NoId
  NoDoc = NoDoc
  Flags = {"isGetDemo"}
  Lookups = {TRUE}
  MaxWrites = 2
  Faults = {"query"}
PROPERTIES DocumentLands AddressLands ClickLands
