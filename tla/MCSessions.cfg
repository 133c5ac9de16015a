SPECIFICATION FairBrowsersSpec
CONSTANTS
  Requests = {r1, r2}
  UserIds = {i1}
  Emails = {e1}
  Usernames = {u1}
  Slugs = {u1}
  Passwords = {p1}
  Names = {}
  FormatName <- MCFormatName
  NoName = NoName
  NoEmail = NoEmail
  NoId = NoId
  NoRow = NoRow
  Key <- MCKey
  Accepts = {TRUE, FALSE}
  Faults = {"mail"}
  Browsers = {b1}
  NoCookie = NoCookie
  Keep = Keep
  NoTrip = NoTrip
INVARIANTS BrowsersTypeOK LogoutHolds
PROPERTY Answered
