SPECIFICATION Spec
CONSTANTS
  Requests = {r1, r2}
  UserIds = {i1, i2}
  Emails = {e1, e2}
  Usernames = {u1, u2}
  Slugs = {u1, u2}
  Passwords = {p1}
  Names = {}
  FormatName <- MCFormatName
  NoName = NoName
  NoEmail = NoEmail
  NoId = NoId
  NoRow = NoRow
  Key <- MCKey
  Accepts = {TRUE, FALSE}
  Faults = {"mail", "crash"}
SYMMETRY SignUpSymmetry
INVARIANTS TypeOK UniqueAccounts ConfirmedByMail SessionsProven IInv
PROPERTIES QuietAfterRemoval LifecycleSpec
