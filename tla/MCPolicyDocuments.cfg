SPECIFICATION FairSpec
CONSTANTS
  q1 = q1
  q2 = q2
  q3 = q3
  old = old
  Requests = {q1, q2, q3}
  Uploaders = {q1, q2}
  Keyed = {q1, q2}
  OnFile = {old}
  TopK = 2
CHECK_DEADLOCK FALSE
INVARIANTS
  TypeOK
  PolicyIsWhole
  ReplacedIsGone
  OrphansOnlyFromOverlap
  NeverOldAndNew
PROPERTIES
  PolicyNeverVanishes
  RequestsEnd
