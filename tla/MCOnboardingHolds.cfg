SPECIFICATION Spec
CONSTANTS
  r1 = r1
  r2 = r2
  r3 = r3
  acme = acme
  bill = bill
  note = note
  k1 = k1
  BlankKey = BlankKey
  NoKey = NoKey
  NoVendor = NoVendor
  Docs = {bill}
  Vendors = {acme}
  Keys = {BlankKey}
  Requests = {r1, r2}
  VendorOf <- MCVendorOf
  ExactDuplicate <- MCDuplicate
  CandidateLimit = 1
  Calls = {"create", "process", "reprocess", "create_vendor", "update_vendor", "upload_document", "delete_document"}
  Targets = {}
  Autos = {TRUE, FALSE}
CHECK_DEADLOCK FALSE
PROPERTIES
  OnboardingHolds
