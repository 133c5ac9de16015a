SPECIFICATION Spec
CONSTANTS
  Requests = {r1}
  UserIds = {i1}
  Emails = {e1}
  Usernames = {u1}
  Slugs = {u1}
  Passwords = {p1}
  Names = {}
  FormatName <- MCFormatName
  NoName = NoName
  NoEmail = NoEmail
  NoId = NoId
  NoRow = NoRow
  Key <- MCKey
  Accepts = {FALSE}
  Faults = {}
PROPERTY SaveFlushes
