SPECIFICATION Spec
CONSTANTS
  Requests = {r1, r2, r3}
  UserIds = {i1}
  Emails = {e1}
  Usernames = {u1, u2}
  Slugs = {u1}
  Passwords = {p1, p2}
  Names = {n1, n2}
  FormatName <- MCFormatName
  NoName = NoName
  NoEmail = NoEmail
  NoId = NoId
  NoRow = NoRow
  Key <- MCKey
  Accepts = {TRUE, FALSE}
  Faults = {"db"}
SYMMETRY Symmetry
PROPERTIES ColumnsIndependent PasswordChangeAuthorized
