SPECIFICATION FairSpec
CONSTANTS
  t1 = t1
  t2 = t2
  t3 = t3
  acme = acme
  Founder = Founder
  Requests = {t1, t2, t3}
  Vendors = {acme}
CHECK_DEADLOCK FALSE
INVARIANTS
  TypeOK
  OneActivePolicy
  ActiveIsLatest
  VersionsFollowTime
PROPERTIES
  ImplementsHistory
  RequestsEnd
