SPECIFICATION Spec
CONSTANTS
  t1 = t1
  t2 = t2
  t3 = t3
  mail = mail
  p1 = p1
  p2 = p2
  NoCode = NoCode
  Requests = {t1, t2, t3}
  Emails = {mail}
  Passwords = {p1, p2}
  MaxAttempts = 1
CHECK_DEADLOCK FALSE
PROPERTIES
  VerifiedPasswordStands
