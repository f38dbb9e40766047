SPECIFICATION FairSpec
CONSTANTS
  p1 = p1
  p2 = p2
  none = none
  Procs <- MCProcs
  None <- none
  Rates <- MCRates
  HTTPRetries = 1
  APIRetries = 0
  TokenGiven = FALSE
  LoginUnauthorized = FALSE
INVARIANT TypeOK
INVARIANT Authorized
INVARIANT LimitIsStrictest
PROPERTY KeepsToken
PROPERTY StaleOnlyMeanwhile
PROPERTY CallsReturn
