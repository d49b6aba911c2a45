SPECIFICATION FairSpec
CONSTANTS
  Token = {t1}
  Client = {k1}
  Call = {c1, c2}
  PerMin = 2
  RateWindow = 2
  Attempts = 2
  LoginWindow = 2
  Nobody = Nobody
  MaxTime = 5
  MaxBack = 1
  MaxLeft = 1
INVARIANTS TypeOK RateHolds LoginHolds
PROPERTIES AllowedAgain
