SPECIFICATION FairSpec
CONSTANTS
  Calls = {c1, c2}
  MaxGrants = 3
  NoToken = NoToken
  Faults = {"exchange", "revoke", "expire"}
INVARIANTS TypeOK RetryIsFresher
PROPERTIES StaleTokenForgiven PromiseSpec Completed
